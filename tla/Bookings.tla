------------------------------ MODULE Bookings ------------------------------
(***************************************************************************)
(* The booking engine: concurrent HTTP requests and expiry jobs against    *)
(* one PostgreSQL database.                                                *)
(*                                                                         *)
(* A request runs one operation at a time.  An operation is split where    *)
(* another request can come between: the reads made before the transaction *)
(* opens, the reads inside it, the write of the booking row (which takes   *)
(* the row lock), the read of an aggregate, the write of the master row,   *)
(* and the commit that publishes all of it.  Two of the operations run     *)
(* SERIALIZABLE and fail when a row they write was committed by another    *)
(* since their snapshot; the others run READ COMMITTED and overwrite.      *)
(*                                                                         *)
(* A booking identifier stands for the booking with its immutable columns: *)
(* its client, its master and its duration are functions of it.            *)
(***************************************************************************)
EXTENDS BookingStateMachine, FiniteSets, Sequences

CONSTANTS
  Bookings, Masters, Clients,
  NoBooking,           \* no booking: the value of bk in an idle request
  MasterOf, ClientOf,  \* [Bookings -> Masters], [Bookings -> Clients]
  Duration,            \* [Bookings -> Nat], in time units
  InstantMasters,      \* masters with instantBookEnabled
  Requests, Jobs,      \* concurrent requests; instances of the expiry job
  Ops,                 \* the operations clients may call
  InitialStatuses,     \* statuses of the bookings a behaviour starts with
  Starts, Horizon,     \* slot starts; the last value of the clock
  MIN_LEAD, EARLY_START_WINDOW, RESCHEDULE_WINDOW,   \* in time units
  MAX_OPEN_PENDING, MAX_RESCHEDULE, INSTANT_BOOK_MIN_SCORE,
  MAX_ATTEMPTS, EXPIRY_BATCH,
  MaxFaults            \* bound on crashes and on aborts by the database

VARIABLES
  now,     \* the clock
  row,     \* the committed row of each booking
  hist,    \* the toStatus of each booking's BookingStatusHistory rows, in order
  certs,   \* the bookings with a CompletionCertificate
  stat,    \* the denormalised aggregates of each master's row
  tx,      \* what each request is doing
  job,     \* bookings each job has expired and not yet written history for
  faults   \* crashes and database aborts so far

vars == <<now, row, hist, certs, stat, tx, job, faults>>

-----------------------------------------------------------------------------
(* Operations *)

Target == [ Accept |-> "ACCEPTED", Reject |-> "REJECTED",
            ClientCancel |-> "CANCELLED_BY_CLIENT",
            MasterCancel |-> "CANCELLED_BY_MASTER",
            AdminCancel |-> "CANCELLED_BY_ADMIN",
            Start |-> "IN_PROGRESS", Complete |-> "COMPLETED" ]

Actor == [ Accept |-> "MASTER", Reject |-> "MASTER", ClientCancel |-> "CLIENT",
           MasterCancel |-> "MASTER", AdminCancel |-> "ADMIN",
           Start |-> "MASTER", Complete |-> "MASTER" ]

TransitionOps == DOMAIN Target
OpNames       == TransitionOps \cup {"Create", "Reschedule", "Pay"}
AcceptReadCommitted == {"Reschedule"}   \* mutant: accept at the default level
Serializable  == {"Accept", "Reschedule"}
\* The transitions that also update the master's row.
MasterOps     == {"Accept", "MasterCancel", "Complete"}

(* Rows *)

RowStatuses == Statuses \cup {"NONE"}     \* NONE: not inserted yet
AnyStart    == CHOOSE s \in Starts : TRUE

\* acceptance: acceptedAt is null, set by accept(), or set by an instant-book insert.
Row == [ status : RowStatuses, start : Starts, moves : Nat, paid : Nat,
         acceptance : {"no", "master", "instant"} ]
NoRow == [ status |-> "NONE", start |-> AnyStart, moves |-> 0, paid |-> 0,
           acceptance |-> "no" ]

\* timed: the bookings avgAcceptLatencyMinutes averages; done and axed: the two
\* counts reliabilityScore was computed from.
Aggregates == [ timed : SUBSET Bookings, done : Nat, axed : Nat ]
NoAggregates == [ timed |-> {}, done |-> 0, axed |-> 0 ]
MasterStat == [ completed : Nat, timed : SUBSET Bookings, done : Nat, axed : Nat ]

(* Requests.  The phases of a transaction, in order:                       *)
(*   again    validated or about to be retried, no transaction open        *)
(*   loaded   transaction open, its reads made, nothing written            *)
(*   written  the booking row written, its lock held                       *)
(*   selected the aggregate read, the master row not yet locked            *)
(*   counted  the master row locked, the aggregate not yet read            *)
(*   ready    every statement done, commit to come                         *)
Phases  == {"idle", "again", "loaded", "written", "selected", "counted", "ready"}
Locking == {"written", "selected", "counted", "ready"}
InTx    == Locking \cup {"loaded"}

Tx == [ phase : Phases, op : OpNames \cup {"none"},
        bk : Bookings \cup {NoBooking}, att : 0 .. MAX_ATTEMPTS,
        new : Row,                      \* the row to write, once written
        stale : SUBSET {"booking", "master"},  \* rows changed since the snapshot
        agg : Aggregates,               \* what the aggregate query returned
        born : Nat ]                    \* when the request arrived
Begun(phase, o, b, attempt, new, agg, arrival) ==
  [ phase |-> phase, op |-> o, bk |-> b, att |-> attempt, new |-> new,
    stale |-> {}, agg |-> agg, born |-> arrival ]
NoTx == Begun("idle", "none", NoBooking, 0, NoRow, NoAggregates, 0)

ASSUME ConstantsAssumption ==
  /\ NoBooking \notin Bookings
  /\ MasterOf \in [Bookings -> Masters]
  /\ ClientOf \in [Bookings -> Clients]
  /\ Duration \in [Bookings -> Nat \ {0}]
  /\ InstantMasters \subseteq Masters
  /\ Starts \subseteq Nat /\ Starts # {}
  /\ Ops \subseteq OpNames
  /\ InitialStatuses \subseteq {"NONE", "PENDING", "ACCEPTED", "IN_PROGRESS"}
  /\ {Horizon, EARLY_START_WINDOW, MAX_OPEN_PENDING, MAX_RESCHEDULE,
      INSTANT_BOOK_MIN_SCORE, MaxFaults} \subseteq Nat
  \* The two windows are longer than a request; a time unit is too (see Tick).
  /\ MIN_LEAD \in Nat \ {0} /\ RESCHEDULE_WINDOW \in Nat \ {0}
  /\ MAX_ATTEMPTS \in Nat \ {0}
  /\ EXPIRY_BATCH \in Nat \ {0}
  /\ IsFiniteSet(Bookings)
  /\ IsFiniteSet(Requests) /\ Requests # {}

-----------------------------------------------------------------------------
(* What the database says *)

Clash(b, s, c, t) == Overlap(s, s + Duration[b], t, t + Duration[c])

SameMaster(b) == {c \in Bookings \ {b} : MasterOf[c] = MasterOf[b]}

\* Other bookings of b's master that hold time overlapping b at s, as committed.
BusyRivals(b, s) ==
  {c \in SameMaster(b) : row[c].status \in Busy /\ Clash(b, s, c, row[c].start)}

\* The slot is among AvailabilityService.compute's: it overlaps no busy booking
\* of the master, a rescheduled booking's own present slot included.
SlotFree(b, s) ==
  /\ BusyRivals(b, s) = {}
  /\ row[b].status \in Busy => ~Clash(b, s, b, row[b].start)

ClientConflict(b, s) ==
  \E c \in Bookings \ {b} :
    ClientOf[c] = ClientOf[b] /\ row[c].status \in Open /\ Clash(b, s, c, row[c].start)

OpenPending(client) ==
  Cardinality({b \in Bookings : ClientOf[b] = client /\ row[b].status = "PENDING"})

\* reliabilityScore in hundredths of a percent, rounded to the nearest.
Score(done, axed) == (20000 * done + (done + axed)) \div (2 * (done + axed))

\* isEligibleForInstantBook: opted in, scored, and the score high enough.
InstantBook(m) ==
  /\ m \in InstantMasters
  /\ stat[m].done + stat[m].axed > 0
  /\ Score(stat[m].done, stat[m].axed) >= 100 * INSTANT_BOOK_MIN_SCORE

(* Row locks *)

Holds(r, b) == tx[r].phase \in Locking /\ tx[r].bk = b
Locked(b)   == \E r \in Requests : Holds(r, b)

\* Mutant: the master's row is share-locked up front and upgraded later.
SharesMaster(r, m) ==
  tx[r].op \in MasterOps /\ tx[r].phase \in Locking /\ MasterOf[tx[r].bk] = m
HoldsMaster(r, m) ==
  /\ tx[r].op \in MasterOps
  /\ tx[r].phase \in {"counted", "ready"}
  /\ MasterOf[tx[r].bk] = m
MasterLocked(m) == \E r \in Requests : HoldsMaster(r, m)

\* Transactions that have written, not committed, a busy row overlapping b at s.
PendingRivals(r, b, s) ==
  {q \in Requests \ {r} :
     /\ tx[q].phase \in Locking
     /\ tx[q].bk \in SameMaster(b)
     /\ tx[q].new.status \in Busy
     /\ Clash(b, s, tx[q].bk, tx[q].new.start)}

\* A commit by others of the rows bs and of the masters ms makes a SERIALIZABLE
\* transaction's snapshot of them stale.  READ COMMITTED keeps no snapshot.
Outdated(bs, ms) ==
  [q \in Requests |->
     IF tx[q].phase \in InTx /\ tx[q].op \in Serializable
     THEN [tx[q] EXCEPT !.stale =
             @ \cup (IF tx[q].bk \in bs THEN {"booking"} ELSE {})
               \cup (IF MasterOf[tx[q].bk] \in ms THEN {"master"} ELSE {})]
     ELSE tx[q]]

-----------------------------------------------------------------------------
(* A behaviour starts with some bookings made, accepted or under way.       *)

Path(status) ==
  CASE status = "NONE"        -> <<>>
    [] status = "PENDING"     -> <<"PENDING">>
    [] status = "ACCEPTED"    -> <<"PENDING", "ACCEPTED">>
    [] status = "IN_PROGRESS" -> <<"PENDING", "ACCEPTED", "IN_PROGRESS">>

InitialRow(status, start) ==
  IF status = "NONE" THEN NoRow
  ELSE [ NoRow EXCEPT !.status = status, !.start = start,
                      !.acceptance = IF status \in Busy THEN "master" ELSE "no" ]

Init ==
  /\ now = 0
  /\ \E st \in [Bookings -> InitialStatuses], at \in [Bookings -> Starts] :
       /\ row = [b \in Bookings |-> InitialRow(st[b], at[b])]
       /\ hist = [b \in Bookings |-> Path(st[b])]
       /\ \A b \in Bookings :
            /\ st[b] \in Busy => BusyRivals(b, at[b]) = {}
            /\ st[b] = "IN_PROGRESS" => EARLY_START_WINDOW >= at[b]
       /\ \A c \in Clients : OpenPending(c) <= MAX_OPEN_PENDING
       /\ stat = [m \in Masters |->
                    [ completed |-> 0, done |-> 0, axed |-> 0,
                      timed |-> {b \in Bookings : MasterOf[b] = m /\ st[b] \in Busy} ]]
  /\ certs = {}
  /\ tx = [r \in Requests |-> NoTx]
  /\ job = [j \in Jobs |-> {}]
  /\ faults = 0

-----------------------------------------------------------------------------
(* Transitions: accept, reject, cancel, start, complete.                    *)

\* Mutant: the state machine is not consulted.
LegalUnasserted(o, b) ==
  /\ row[b].status # "NONE"
  /\ o = "Accept" => BusyRivals(b, row[b].start) = {}
\* The transaction's reads up to the write find the transition legal.
Legal(o, b) ==
  /\ row[b].status # "NONE"
  /\ CanTransition(row[b].status, Target[o], Actor[o])
  /\ o = "Start"  => now + EARLY_START_WINDOW >= row[b].start
  /\ o = "Accept" => BusyRivals(b, row[b].start) = {}

\* accept()'s aggregate query runs on the snapshot, plus its own write.
AcceptAggregates(b) ==
  [ timed |-> {b} \cup {c \in SameMaster(b) : row[c].acceptance # "no"},
    done |-> 0, axed |-> 0 ]

Load(r, o, b, attempt, arrival) ==
  /\ Legal(o, b)
  /\ tx' = [tx EXCEPT ![r] =
       Begun("loaded", o, b, attempt, NoRow,
             IF o = "Accept" THEN AcceptAggregates(b) ELSE NoAggregates, arrival)]
  /\ UNCHANGED <<now, row, hist, certs, stat, job, faults>>

BeginTransition(r) ==
  /\ tx[r].phase = "idle"
  /\ \E o \in Ops \cap TransitionOps, b \in Bookings : Load(r, o, b, 1, now)

RetryTransition(r) ==
  /\ tx[r].phase = "again" /\ tx[r].op \in TransitionOps
  /\ Load(r, tx[r].op, tx[r].bk, tx[r].att, tx[r].born)

-----------------------------------------------------------------------------
(* Operations that validate before the transaction opens.                   *)

Validated(r, o, b, new) ==
  /\ tx' = [tx EXCEPT ![r] = Begun("again", o, b, 1, new, NoAggregates, now)]
  /\ UNCHANGED <<now, row, hist, certs, stat, job, faults>>

Uncapped(client) == TRUE    \* mutant: the client's open bookings are not counted
\* The count is of committed rows, outside the transaction that inserts.
UnderCap(client) == OpenPending(client) < MAX_OPEN_PENDING

ValidateCreate(r) ==
  /\ tx[r].phase = "idle" /\ "Create" \in Ops
  /\ \E b \in Bookings, s \in Starts :
       /\ row[b].status = "NONE" /\ \A q \in Requests : tx[q].bk # b
       /\ s >= now + MIN_LEAD
       /\ SlotFree(b, s)
       /\ ~ClientConflict(b, s)
       /\ UnderCap(ClientOf[b])
       /\ Validated(r, "Create", b,
            IF InstantBook(MasterOf[b])
            THEN [ NoRow EXCEPT !.status = "ACCEPTED", !.start = s, !.acceptance = "instant" ]
            ELSE [ NoRow EXCEPT !.status = "PENDING", !.start = s ])

ValidateReschedule(r) ==
  /\ tx[r].phase = "idle" /\ "Reschedule" \in Ops
  /\ \E b \in Bookings, s \in Starts :
       /\ row[b].status \in Open
       /\ row[b].moves < MAX_RESCHEDULE
       /\ row[b].start >= now + RESCHEDULE_WINDOW
       /\ s >= now + MIN_LEAD
       /\ SlotFree(b, s)
       /\ ~ClientConflict(b, s)
       /\ Validated(r, "Reschedule", b, [ NoRow EXCEPT !.start = s ])

\* The reads inside the transaction: none for create, the overlap for reschedule.
OpenTransaction(r) ==
  /\ tx[r].phase = "again" /\ tx[r].op \in {"Create", "Reschedule"}
  /\ tx[r].op = "Reschedule" => BusyRivals(tx[r].bk, tx[r].new.start) = {}
  /\ tx' = [tx EXCEPT ![r].phase = "loaded"]
  /\ UNCHANGED <<now, row, hist, certs, stat, job, faults>>

Payable(b) == row[b].status = "COMPLETED" /\ row[b].paid = 0

ValidatePayment(r) ==
  /\ tx[r].phase = "idle" /\ "Pay" \in Ops
  /\ \E b \in Bookings : Payable(b) /\ Validated(r, "Pay", b, NoRow)

\* One UPDATE of its own, committed at once.
ApplyPayment(r) ==
  LET b == tx[r].bk IN
  /\ tx[r].phase = "again" /\ tx[r].op = "Pay"
  /\ ~Locked(b)
  /\ row' = [row EXCEPT ![b].paid = @ + 1]
  /\ tx' = [Outdated({b}, {}) EXCEPT ![r] = NoTx]
  /\ UNCHANGED <<now, hist, certs, stat, job, faults>>

-----------------------------------------------------------------------------
(* Inside the transaction *)

\* The row the UPDATE or INSERT produces, from the latest committed one.
Written(r) ==
  LET b == tx[r].bk  o == tx[r].op IN
  CASE o = "Create"     -> tx[r].new
    [] o = "Reschedule" -> [ row[b] EXCEPT !.start = tx[r].new.start, !.moves = @ + 1 ]
    [] o = "Accept"     -> [ row[b] EXCEPT !.status = "ACCEPTED", !.acceptance = "master" ]
    [] OTHER            -> [ row[b] EXCEPT !.status = Target[o] ]

\* Mutant: overlap left to the check accept makes on its snapshot.
AdmittedUnchecked(r, b, new) == TRUE
\* bookings_no_overlap admits the row: no committed rival, none pending.
Admitted(r, b, new) ==
  new.status \in Busy => /\ BusyRivals(b, new.start) = {}
                         /\ PendingRivals(r, b, new.start) = {}

\* Waits for the row lock and for pending rivals; takes the row lock.
WriteBooking(r) ==
  LET b == tx[r].bk  new == Written(r) IN
  /\ tx[r].phase = "loaded"
  /\ ~Locked(b)
  /\ "booking" \notin tx[r].stale
  /\ Admitted(r, b, new)
  /\ tx' = [tx EXCEPT ![r].new = new,
                      ![r].phase = IF tx[r].op \in MasterOps THEN "written" ELSE "ready"]
  /\ UNCHANGED <<now, row, hist, certs, stat, job, faults>>

\* recomputeReliabilityScore's query: committed rows, and the request's own.
ReadAggregates(r) ==
  LET b == tx[r].bk
      InStatus(st) == {c \in SameMaster(b) : row[c].status = st}
                        \cup (IF tx[r].new.status = st THEN {b} ELSE {})
  IN
  /\ \/ tx[r].phase = "written" /\ tx[r].op = "MasterCancel"
     \/ tx[r].phase = "counted"
  /\ tx' = [tx EXCEPT
       ![r].agg = [ @ EXCEPT !.done = Cardinality(InStatus("COMPLETED")),
                             !.axed = Cardinality(InStatus("CANCELLED_BY_MASTER")) ],
       ![r].phase = IF tx[r].op = "Complete" THEN "ready" ELSE "selected"]
  /\ UNCHANGED <<now, row, hist, certs, stat, job, faults>>

\* The UPDATE of the master's row: complete's increment comes before its
\* aggregate query, accept's and cancel's recompute after theirs.
WriteMaster(r) ==
  /\ \/ tx[r].phase = "written" /\ tx[r].op \in {"Accept", "Complete"}
     \/ tx[r].phase = "selected"
  /\ ~MasterLocked(MasterOf[tx[r].bk])
  /\ "master" \notin tx[r].stale
  /\ tx' = [tx EXCEPT ![r].phase = IF tx[r].op = "Complete" THEN "counted" ELSE "ready"]
  /\ UNCHANGED <<now, row, hist, certs, stat, job, faults>>

\* The master's row once r's own writes to it are published.
StatAfter(r) ==
  LET old == stat[MasterOf[tx[r].bk]]
      agg == tx[r].agg IN
  CASE tx[r].op = "Accept"       -> [ old EXCEPT !.timed = agg.timed ]
    [] tx[r].op = "MasterCancel" -> [ old EXCEPT !.done = agg.done, !.axed = agg.axed ]
    [] OTHER                     -> [ old EXCEPT !.completed = @ + 1,
                                                 !.done = agg.done, !.axed = agg.axed ]

UniqueUnchecked(r) == TRUE    \* mutant: booking_id not unique
\* completion_certificates.booking_id is unique.
CertificateAllowed(r) == tx[r].op = "Complete" => tx[r].bk \notin certs

\* Publishes the row, the history row, the master's aggregates, the certificate.
Commit(r) ==
  LET b == tx[r].bk  o == tx[r].op  m == MasterOf[b] IN
  /\ tx[r].phase = "ready"
  /\ CertificateAllowed(r)
  /\ row' = [row EXCEPT ![b] = tx[r].new]
  /\ hist' = IF o = "Reschedule" THEN hist
             ELSE [hist EXCEPT ![b] = Append(@, tx[r].new.status)]
  /\ stat' = IF o \in MasterOps THEN [stat EXCEPT ![m] = StatAfter(r)] ELSE stat
  /\ certs' = IF o = "Complete" THEN certs \cup {b} ELSE certs
  /\ tx' = [Outdated({b}, IF o \in MasterOps THEN {m} ELSE {}) EXCEPT ![r] = NoTx]
  /\ UNCHANGED <<now, job, faults>>

-----------------------------------------------------------------------------
(* Requests that end without committing                                     *)

\* The transaction rolls back, the request answers with an error.
Fail(r) == /\ tx' = [tx EXCEPT ![r] = NoTx]
           /\ UNCHANGED <<now, row, hist, certs, stat, job>>

\* A retried transaction finds its booking moved on, or its slot taken.
Refused(r) ==
  /\ tx[r].phase = "again"
  /\ \/ tx[r].op \in TransitionOps /\ ~Legal(tx[r].op, tx[r].bk)
     \/ tx[r].op = "Reschedule" /\ BusyRivals(tx[r].bk, tx[r].new.start) # {}
  /\ Fail(r) /\ UNCHANGED faults

\* 23P01: a committed row, not about to change, overlaps the one written.
Excluded(r) ==
  /\ tx[r].phase = "loaded"
  /\ ~Locked(tx[r].bk) /\ "booking" \notin tx[r].stale
  /\ Written(r).status \in Busy
  /\ \E c \in BusyRivals(tx[r].bk, Written(r).start) : ~Locked(c)
  /\ Fail(r) /\ UNCHANGED faults

\* P2002 on completion_certificates.booking_id.
AlreadyCertified(r) ==
  /\ tx[r].phase = "ready" /\ ~CertificateAllowed(r)
  /\ Fail(r) /\ UNCHANGED faults

\* Mutant: the last attempt is not the last.
RunAgainOnceMore(r) ==
  /\ tx' = [tx EXCEPT ![r].phase = "again", ![r].att = @ + 1, ![r].stale = {}]
  /\ UNCHANGED <<now, row, hist, certs, stat, job>>
\* TransactionManager.run after a write conflict: another attempt, or the error.
RunAgain(r) ==
  /\ tx' = [tx EXCEPT ![r] =
       IF @.att = MAX_ATTEMPTS THEN NoTx
       ELSE Begun("again", @.op, @.bk, @.att + 1,
                  IF @.op \in TransitionOps THEN NoRow ELSE @.new, NoAggregates, @.born)]
  /\ UNCHANGED <<now, row, hist, certs, stat, job>>

\* 40001: a row to write was committed by another after the snapshot.
WriteConflict(r) ==
  /\ \/ tx[r].phase = "loaded" /\ "booking" \in tx[r].stale
     \/ tx[r].phase = "written" /\ tx[r].op = "Accept" /\ "master" \in tx[r].stale
  /\ RunAgain(r) /\ UNCHANGED faults

\* The request's next statement waits for another transaction.
Waiting(r) ==
  \/ /\ tx[r].phase = "loaded"
     /\ \/ Locked(tx[r].bk)
        \/ PendingRivals(r, tx[r].bk, Written(r).start) # {}
        \/ \E c \in BusyRivals(tx[r].bk, Written(r).start) : Locked(c)
  \/ tx[r].phase \in {"written", "selected"} /\ MasterLocked(MasterOf[tx[r].bk])

\* 40P01 while waiting; 40001 for reasons SERIALIZABLE gives beyond WriteConflict.
DatabaseAbort(r) ==
  /\ faults < MaxFaults
  /\ tx[r].phase \in InTx
  /\ tx[r].op \in Serializable \/ Waiting(r)
  /\ RunAgain(r)
  /\ faults' = faults + 1

\* The process dies, the connection drops or the transaction times out.
Crash(r) ==
  /\ faults < MaxFaults
  /\ tx[r].phase # "idle"
  /\ Fail(r)
  /\ faults' = faults + 1

-----------------------------------------------------------------------------
(* expireDueBookings: one UPDATE, committed at once, then the history rows. *)

DueAnyStatus == {b \in Bookings : row[b].status # "NONE" /\ row[b].start < now /\ ~Locked(b)} \* mutant
DueUpcoming == {b \in Bookings : row[b].status = "PENDING" /\ row[b].start > now /\ ~Locked(b)} \* mutant
Due == {b \in Bookings : row[b].status = "PENDING" /\ row[b].start < now /\ ~Locked(b)}

ExpireDue(j) ==
  /\ job[j] = {}
  /\ \E batch \in SUBSET Due :
       /\ batch # {}
       /\ \/ batch = Due /\ Cardinality(Due) <= EXPIRY_BATCH
          \/ Cardinality(batch) = EXPIRY_BATCH
       /\ \A b \in batch, c \in Due \ batch : row[b].start <= row[c].start
       /\ row' = [b \in Bookings |->
                    IF b \in batch THEN [row[b] EXCEPT !.status = "EXPIRED"] ELSE row[b]]
       /\ job' = [job EXCEPT ![j] = batch]
       /\ tx' = Outdated(batch, {})
  /\ UNCHANGED <<now, hist, certs, stat, faults>>

AppendExpiryHistory(j) ==
  /\ job[j] # {}
  /\ hist' = [b \in Bookings |->
                IF b \in job[j] THEN Append(hist[b], "EXPIRED") ELSE hist[b]]
  /\ job' = [job EXCEPT ![j] = {}]
  /\ UNCHANGED <<now, row, certs, stat, tx, faults>>

JobCrash(j) ==
  /\ faults < MaxFaults
  /\ job[j] # {}
  /\ job' = [job EXCEPT ![j] = {}]
  /\ faults' = faults + 1
  /\ UNCHANGED <<now, row, hist, certs, stat, tx>>

\* A request is shorter than a time unit, so it sees at most one tick.
Tick ==
  /\ now < Horizon
  /\ \A r \in Requests : tx[r].phase # "idle" => tx[r].born = now
  /\ now' = now + 1
  /\ UNCHANGED <<row, hist, certs, stat, tx, job, faults>>

-----------------------------------------------------------------------------
Arrive(r)  == BeginTransition(r) \/ ValidateCreate(r) \/ ValidateReschedule(r)
              \/ ValidatePayment(r)
Advance(r) == RetryTransition(r) \/ OpenTransaction(r) \/ ApplyPayment(r)
              \/ WriteBooking(r) \/ ReadAggregates(r) \/ WriteMaster(r) \/ Commit(r)
              \/ Refused(r) \/ Excluded(r) \/ AlreadyCertified(r) \/ WriteConflict(r)
RunJob(j)  == ExpireDue(j) \/ AppendExpiryHistory(j)

Next == \/ Tick
        \/ \E r \in Requests : Arrive(r) \/ Advance(r) \/ DatabaseAbort(r) \/ Crash(r)
        \/ \E j \in Jobs : RunJob(j) \/ JobCrash(j)

Spec == Init /\ [][Next]_vars

\* A running process goes on with what it has started, PostgreSQL serves the
\* transactions waiting for a row in turn (so none is overtaken for ever: SF),
\* and cron runs the job.
Fairness == /\ WF_vars(Tick)
            /\ \A r \in Requests : SF_vars(Advance(r))
            /\ \A j \in Jobs : WF_vars(RunJob(j))

FairSpec == Spec /\ Fairness
=============================================================================
