------------------------------ MODULE Aftermath ------------------------------
(***************************************************************************)
(* What follows a completed booking: its notifications, the reward of the  *)
(* client who referred its client, its review with the master's reply, and *)
(* the rating the master's row carries.  One client, who was referred, and *)
(* one master.                                                             *)
(*                                                                         *)
(* A booking stands for itself and for its review (unique bookingId), a    *)
(* review for its reply (unique reviewId).  The rating is kept as the set  *)
(* of ratings computeRatingAggregate averaged.                             *)
(***************************************************************************)
EXTENDS Notices, FiniteSets

CONSTANTS
  Bookings,
  None,              \* no booking
  Ratings,
  Menus,             \* a bound: the sets of operations a behaviour may be made of
  MaxCrashes         \* bound on crashes

ASSUME AftermathAssumption ==
  /\ Bookings \subseteq Sources
  /\ None \notin Bookings /\ Ratings # {}
  /\ MaxCrashes \in Nat

VARIABLES
  completed,         \* bookings COMPLETED; the others are IN_PROGRESS
  reward,            \* triggerBookingId of the client's referral_rewards row
  review,            \* reviews and their replies
  rating,            \* ratingAverage and ratingCount of the master's row
  work,              \* what each request is doing
  crashes,
  menu               \* the operations clients call in this behaviour

aftermathVars == <<completed, reward, review, rating, work, crashes, task, notice, muted, menu>>

Review == [ state : {"none", "VISIBLE", "HIDDEN"}, rating : Ratings, replied : BOOLEAN ]
AnyRating == CHOOSE n \in Ratings : TRUE
NoReview == [ state |-> "none", rating |-> AnyRating, replied |-> FALSE ]

\* Phases: read (checks made), written (the review's row written and locked, in a
\* transaction), counted (the visible ratings read), emit (committed).
Changes == {"create", "edit", "hide", "unhide"}
Work == [ op : Changes \cup {"none", "complete", "reply"},
          phase : {"idle", "read", "written", "counted", "emit"},
          about : Bookings \cup {None}, rating : Ratings,
          counted : SUBSET (Bookings \X Ratings),
          stale : BOOLEAN ]              \* another change committed since the count
Working(op, about, n) ==
  [ op |-> op, phase |-> "read", about |-> about, rating |-> n, counted |-> {}, stale |-> FALSE ]
NoWork == [ Working("none", None, AnyRating) EXCEPT !.phase = "idle" ]

RatingsOf(reviews) ==
  { <<b, reviews[b].rating>> : b \in { c \in Bookings : reviews[c].state = "VISIBLE" } }

\* What the menu does not make the clients do has been done.
InitAftermath ==
  /\ InitNotices
  /\ menu \in Menus
  /\ completed = IF "complete" \in menu THEN {} ELSE Bookings
  /\ review = [b \in Bookings |-> IF menu \cap {"complete", "create"} # {} THEN NoReview
                                  ELSE [ NoReview EXCEPT !.state = "VISIBLE" ]]
  /\ rating = RatingsOf(review)
  /\ reward = None
  /\ work = [r \in Requests |-> NoWork]
  /\ crashes = 0

Begins(r, op, b, n) ==
  /\ work[r].phase = "idle" /\ op \in menu
  /\ work' = [work EXCEPT ![r] = Working(op, b, n)]
Ends(r)        == work' = [work EXCEPT ![r] = NoWork]
Moves(r, phase) == work' = [work EXCEPT ![r].phase = phase]

-----------------------------------------------------------------------------
(* complete() *)

BeginComplete(r, b) == b \notin completed /\ Begins(r, "complete", b, AnyRating)

CertificateUnchecked(b) == TRUE      \* mutant: no unique certificate per booking
\* The insert of the certificate, whose bookingId is unique, is the last statement.
CertificateFree(b) == b \notin completed

CommitComplete(r) ==
  /\ work[r].op = "complete" /\ work[r].phase = "read"
  /\ IF CertificateFree(work[r].about)
     THEN completed' = completed \cup {work[r].about} /\ Moves(r, "emit")
     ELSE UNCHANGED completed /\ Ends(r)
  /\ UNCHANGED <<reward, review, rating, crashes, task, notice, muted>>

EventOf == [ complete |-> "COMPLETED", create |-> "REVIEWED", reply |-> "REPLIED" ]

Emit(r) ==
  /\ work[r].phase = "emit"
  /\ task' = Emitted(EventOf[work[r].op], work[r].about, r)
  /\ Ends(r)
  /\ UNCHANGED <<completed, reward, review, rating, crashes, notice, muted>>

-----------------------------------------------------------------------------
(* ReferralRewardListener: the count, then the insert.  The unique index on *)
(* referredClientProfileId refuses a second row.                           *)

CountBefore(n) == n = 0       \* mutant: the count is thought to be taken before
FirstCount(n) == n = 1

CountCompleted(k) ==
  /\ k \in task /\ k.listener = "reward" /\ ~k.passed
  /\ task' = (task \ {k}) \cup (IF FirstCount(Cardinality(completed))
                               THEN {[ k EXCEPT !.passed = TRUE ]} ELSE {})
  /\ UNCHANGED <<completed, reward, review, rating, work, crashes, notice, muted>>

CreateReward(k) ==
  /\ k \in task /\ k.listener = "reward" /\ k.passed
  /\ reward' = IF reward = None THEN k.about ELSE reward
  /\ task' = task \ {k}
  /\ UNCHANGED <<completed, review, rating, work, crashes, notice, muted>>

-----------------------------------------------------------------------------
(* Reviews.  A review nobody may write or edit any more, its window being  *)
(* closed, is one nobody calls create or update for.                       *)

BeginCreate(r, b, n) ==
  b \in completed /\ review[b].state = "none" /\ Begins(r, "create", b, n)

\* update(), hide() and unhide(): the review exists, whatever its status.
BeginChange(r, b, n) ==
  /\ review[b].state # "none"
  /\ \/ Begins(r, "edit", b, n)
     \/ Begins(r, "hide", b, AnyRating)
     \/ Begins(r, "unhide", b, AnyRating)

BeginReply(r, b) ==
  review[b].state # "none" /\ ~review[b].replied /\ Begins(r, "reply", b, AnyRating)

InReviewTx(r) == work[r].phase \in {"written", "counted"}

\* The INSERT or UPDATE waits for a transaction that has written the row; a second
\* INSERT then meets the unique index.
WriteReview(r) ==
  /\ work[r].op \in Changes /\ work[r].phase = "read"
  /\ \A q \in Requests : InReviewTx(q) => work[q].about # work[r].about
  /\ IF work[r].op = "create" /\ review[work[r].about].state # "none"
     THEN Ends(r)
     ELSE Moves(r, "written")
  /\ UNCHANGED <<completed, reward, review, rating, crashes, task, notice, muted>>

\* The row as the transaction of r leaves it.
Written(r) ==
  LET old == review[work[r].about]
  IN  CASE work[r].op = "create" -> [ old EXCEPT !.state = "VISIBLE", !.rating = work[r].rating ]
        [] work[r].op = "edit"   -> [ old EXCEPT !.rating = work[r].rating ]
        [] work[r].op = "hide"   -> [ old EXCEPT !.state = "HIDDEN" ]
        [] work[r].op = "unhide" -> [ old EXCEPT !.state = "VISIBLE" ]

\* What r sees: what is committed, and its own write.
SeenBy(r) == [review EXCEPT ![work[r].about] = Written(r)]

\* Mutant: the aggregate is adjusted by the change rather than read again.
Adjusted(r) ==
  { p \in rating : p[1] # work[r].about }
    \cup { p \in RatingsOf(SeenBy(r)) : p[1] = work[r].about }
\* The SELECT of recomputeAggregate.
Recomputed(r) == RatingsOf(SeenBy(r))

CountRatings(r) ==
  /\ work[r].phase = "written"
  /\ work' = [work EXCEPT ![r] = [ @ EXCEPT !.phase = "counted", !.counted = Recomputed(r) ]]
  /\ UNCHANGED <<completed, reward, review, rating, crashes, task, notice, muted>>

\* The UPDATE of the master's row with what was counted, and the commit.
CommitReview(r) ==
  /\ work[r].phase = "counted"
  /\ review' = SeenBy(r)
  /\ rating' = work[r].counted
  /\ work' = [q \in Requests |->
       IF q = r THEN IF work[r].op = "create" THEN [ work[r] EXCEPT !.phase = "emit", !.counted = {}, !.stale = FALSE ]
                     ELSE NoWork
       ELSE [ work[q] EXCEPT !.stale = (work[q].phase = "counted") ]]
  /\ UNCHANGED <<completed, reward, crashes, task, notice, muted>>

ReplyFree(b) == ~review[b].replied

CreateReply(r) ==
  /\ work[r].op = "reply" /\ work[r].phase = "read"
  /\ IF ReplyFree(work[r].about)
     THEN review' = [review EXCEPT ![work[r].about].replied = TRUE] /\ Moves(r, "emit")
     ELSE UNCHANGED review /\ Ends(r)
  /\ UNCHANGED <<completed, reward, rating, crashes, task, notice, muted>>

-----------------------------------------------------------------------------
\* The process dies: its requests and its listeners' calls with it.
Crash ==
  /\ "crash" \in menu /\ crashes < MaxCrashes
  /\ work' = [r \in Requests |-> NoWork]
  /\ task' = {}
  /\ crashes' = crashes + 1
  /\ UNCHANGED <<completed, reward, review, rating, notice, muted>>

Listeners ==
  \/ ListenerStep /\ UNCHANGED <<completed, reward, review, rating, work, crashes>>
  \/ \E k \in task : CountCompleted(k) \/ CreateReward(k)

Steps(r) == CommitComplete(r) \/ Emit(r) \/ CreateReply(r)
            \/ WriteReview(r) \/ CountRatings(r) \/ CommitReview(r)

NextAftermath ==
  /\ UNCHANGED menu
  /\ \/ \E r \in Requests, b \in Bookings, n \in Ratings :
          /\ BeginComplete(r, b) \/ BeginCreate(r, b, n) \/ BeginChange(r, b, n) \/ BeginReply(r, b)
          /\ UNCHANGED <<completed, reward, review, rating, crashes, task, notice, muted>>
     \/ \E r \in Requests : Steps(r)
     \/ Listeners
     \/ \E type \in Mutable : "mute" \in menu /\ UpdatePreference(type)
                              /\ UNCHANGED <<completed, reward, review, rating, work, crashes>>
     \/ Crash

\* Postgres answers and the event loop goes on: what a process has begun it ends,
\* unless it dies.  Nothing obliges a client to call.
FairAftermath ==
  /\ \A r \in Requests : WF_aftermathVars(Steps(r) /\ UNCHANGED menu)
  /\ WF_aftermathVars(Listeners /\ UNCHANGED menu)

AftermathSpec == InitAftermath /\ [][NextAftermath]_aftermathVars /\ FairAftermath

-----------------------------------------------------------------------------
\* Rows, requests and listener calls keep their shape; only completed bookings have
\* a review, only reviews a reply.
AftermathTypeOK ==
  /\ completed \subseteq Bookings
  /\ reward \in completed \cup {None}
  /\ review \in [Bookings -> Review]
  /\ \A b \in Bookings : review[b].state # "none" => b \in completed
  /\ rating \subseteq Bookings \X Ratings
  /\ work \in [Requests -> Work]
  /\ menu \in Menus
  /\ crashes \in 0 .. MaxCrashes
  /\ task \subseteq Task
  /\ notice \in [Types \X Sources -> Nat]
  /\ muted \subseteq Mutable

\* BookingNotificationsListener and ReviewNotificationsListener: one notification of
\* a type about one booking or review, however many requests raced to cause it.
NoticeOnce == \A n \in Types \X Sources : notice[n] <= 1

\* "Recomputed from the current VISIBLE set every time rather than incrementally":
\* whatever races made of the rating, the next change to the master's reviews that
\* overlaps no other corrects it.
RatingHeals ==
  [][\A r \in Requests :
       CommitReview(r) /\ ~work[r].stale => rating' = RatingsOf(review')]_aftermathVars

\* ReferralRewardListener, "A count of exactly 1 means this was it": once a second
\* completion is committed and no handler has counted the first alone, nothing the
\* listeners, the requests or a crash do earns the reward any more.
RewardNeverLate ==
  [][ /\ reward = None /\ Cardinality(completed) > 1
      /\ \A k \in task : k.listener = "reward" => ~k.passed
      => reward' = None /\ \A k \in task' : k.listener = "reward" => ~k.passed ]_aftermathVars

\* The same listener, both ways: no later completion earns the reward, and the first is
\* rewarded unless the process dies or a second is committed before the handler counts.
RewardAtFirst ==
  /\ RewardNeverLate
  /\ \A b \in Bookings, n \in 0 .. MaxCrashes :
       ( /\ completed = {b} /\ crashes = n
         /\ \E r \in Requests : work[r].op = "complete" /\ work[r].phase = "emit" )
         ~> (reward = b \/ Cardinality(completed) > 1 \/ crashes > n)

\* BookingNotificationsListener: what a completion promises the client arrives,
\* unless the process dies or the client has switched its type off.
CompletionNotified ==
  \A b \in Bookings, n \in 0 .. MaxCrashes :
    ( /\ crashes = n
      /\ \E r \in Requests : work[r].op = "complete" /\ work[r].phase = "emit" /\ work[r].about = b )
      ~> (\/ notice[<<"REVIEW_INVITATION", b>>] > 0 /\ notice[<<"BOOKING_COMPLETED", b>>] > 0
          \/ {"REVIEW_INVITATION", "BOOKING_COMPLETED"} \cap muted # {}
          \/ crashes > n)
=============================================================================
