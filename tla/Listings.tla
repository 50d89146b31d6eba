------------------------------- MODULE Listings -------------------------------
(***************************************************************************)
(* The lists read by page number: one caller walks the pages of one list,  *)
(* following hasNext, while other requests add, remove and move its rows.  *)
(* A page is two queries that run at the same time, one for its rows and   *)
(* one for the total.                                                      *)
(***************************************************************************)
EXTENDS Integers, FiniteSets

CONSTANTS
  Rows,              \* identities of rows
  Keys,              \* a bound: values of the column a list is ordered by
  Limits,            \* a bound: the limits a caller asks for
  Ties,              \* a bound: orders in which a query returns rows with one key
  Listed,            \* a bound: the lists that are walked
  MaxChanges         \* a bound: how often the list changes

(* The lists: the direction they are ordered in; whether a row comes in with the      *)
(* greatest key, and whether it may leave, be moved, and be moved elsewhere than to    *)
(* the greatest key.                                                                   *)
Listing == [ order : {"asc", "desc"}, newest : BOOLEAN, leaves : BOOLEAN,
             moves : {"never", "newest", "anywhere"} ]

\* createdAt, nothing is updated or deleted: the audit log, orders, own reviews.
AuditList  == [ order |-> "desc", newest |-> TRUE, leaves |-> FALSE, moves |-> "never" ]
OrderList  == AuditList
ReviewList == AuditList
\* createdAt, with a filter rows pass and cease to pass: users, masters, products,
\* quotes, notifications, a master's visible reviews; oldest first: reports, certificates.
UserList         == [ order |-> "desc", newest |-> FALSE, leaves |-> TRUE, moves |-> "never" ]
MasterList       == UserList
ProductList      == UserList
QuoteList        == UserList
NotificationList == UserList
ReportList       == [ order |-> "asc", newest |-> FALSE, leaves |-> TRUE, moves |-> "never" ]
CertificateList  == ReportList
\* A master's visible reviews by rating, which their authors may change.
PublicReviewList == [ order |-> "desc", newest |-> FALSE, leaves |-> TRUE, moves |-> "anywhere" ]
\* scheduledAt, which a reschedule changes; sortOrder, which an update changes.
BookingList == [ order |-> "desc", newest |-> FALSE, leaves |-> TRUE, moves |-> "anywhere" ]
BannerList  == [ order |-> "asc", newest |-> FALSE, leaves |-> TRUE, moves |-> "anywhere" ]
\* lastMessageAt, which a message sets; a new conversation has none and comes last.
ConversationList == [ order |-> "desc", newest |-> FALSE, leaves |-> FALSE, moves |-> "newest" ]

ASSUME ListingsAssumption ==
  /\ IsFiniteSet(Rows) /\ Keys \subseteq Int
  /\ Limits \subseteq Nat \ {0}
  /\ Ties \subseteq [Rows -> Int]
  /\ Listed \subseteq Listing
  /\ MaxChanges \in Nat

VARIABLES
  list,              \* the list that is walked
  present,           \* the rows its condition matches
  key,               \* the column it is ordered by
  walk,              \* the caller's walk
  changes            \* how often the list has changed

listingsVars == <<list, present, key, walk, changes>>

Walk == [ step : {"idle", "asked", "done"}, page : Nat, limit : Nat,
          pending : SUBSET {"rows", "total"},     \* queries of this page to come
          total : Nat, got : SUBSET Rows, again : SUBSET Rows,
          owed : SUBSET Rows,        \* rows the walk has yet no excuse to miss
          pushed : SUBSET Rows ]     \* rows another has come in ahead of

NoWalk == [ step |-> "idle", page |-> 1, limit |-> 1, pending |-> {}, total |-> 0,
            got |-> {}, again |-> {}, owed |-> {}, pushed |-> {} ]

InitListings ==
  /\ list \in Listed
  /\ present \in SUBSET Rows
  /\ key \in [Rows -> Keys]
  /\ walk = NoWalk
  /\ changes = 0

StandsBefore(q, r) == IF list.order = "desc" THEN key[q] > key[r] ELSE key[q] < key[r]
Twins(r)     == { q \in present \ {r} : key[q] = key[r] }
\* A row with key k stands ahead of r, or beside it.
Reaches(k, r) == IF list.order = "desc" THEN k >= key[r] ELSE k <= key[r]

-----------------------------------------------------------------------------
(* The caller *)

Begin(limit) ==
  /\ walk.step = "idle"
  /\ LET twins == { r \in present : Twins(r) # {} }
     IN  walk' = [ NoWalk EXCEPT !.step = "asked", !.limit = limit,
                     !.pending = {"rows", "total"},
                     !.owed = present \ twins, !.pushed = twins ]
  /\ UNCHANGED <<list, present, key, changes>>

SkipRows == walk.page - 1                             \* mutant: rows, not pages
Skip == (walk.page - 1) * walk.limit

\* findMany: rows with one key come in whatever order the query finds them.
Place(r, tie) ==
  Cardinality({ q \in present : StandsBefore(q, r) \/ (key[q] = key[r] /\ tie[q] < tie[r]) })
Page(tie) ==
  { r \in present : Skip <= Place(r, tie) /\ Place(r, tie) < Skip + walk.limit }

FindMany(tie) ==
  /\ walk.step = "asked" /\ "rows" \in walk.pending
  /\ walk' = [ walk EXCEPT !.pending = @ \ {"rows"},
                           !.got = @ \cup Page(tie), !.again = @ \cup (Page(tie) \cap walk.got) ]
  /\ UNCHANGED <<list, present, key, changes>>

Count ==
  /\ walk.step = "asked" /\ "total" \in walk.pending
  /\ walk' = [ walk EXCEPT !.pending = @ \ {"total"}, !.total = Cardinality(present) ]
  /\ UNCHANGED <<list, present, key, changes>>

FullPages  == walk.total \div walk.limit              \* mutant: the last page is not full
TotalPages == (walk.total + walk.limit - 1) \div walk.limit
HasNext    == walk.page < TotalPages

\* The page is answered; the caller asks for the next one, or is told it was the last.
Answer ==
  /\ walk.step = "asked" /\ walk.pending = {}
  /\ walk' = IF HasNext THEN [ walk EXCEPT !.page = @ + 1, !.pending = {"rows", "total"} ]
             ELSE [ walk EXCEPT !.step = "done" ]
  /\ UNCHANGED <<list, present, key, changes>>

-----------------------------------------------------------------------------
(* Other requests.  A row is excused from the walk when one ahead of it goes, and when  *)
(* one comes in ahead of it between the count of a page and its rows; two rows with one *)
(* key are excused for ever.                                                            *)

Changed == changes < MaxChanges /\ changes' = changes + 1 /\ UNCHANGED list

\* The total of this page was counted and its rows are still to be found.
CountedFirst == walk.pending = {"rows"}

Excused(x, k) == { r \in Rows : k = key[r] \/ (CountedFirst /\ Reaches(k, r)) }
IsNewest(k) == \A q \in present : key[q] <= k

Enter(x, k) ==
  /\ Changed /\ x \notin present
  /\ list.newest => IsNewest(k)
  /\ present' = present \cup {x} /\ key' = [key EXCEPT ![x] = k]
  /\ walk' = [ walk EXCEPT !.owed = @ \ (Excused(x, k) \cup {x}),
                           !.pushed = @ \cup { r \in Rows : Reaches(k, r) } \cup {x} ]

Leave(x) ==
  /\ Changed /\ x \in present /\ list.leaves
  /\ present' = present \ {x}
  /\ walk' = [ walk EXCEPT !.owed = { r \in @ \ {x} : ~StandsBefore(x, r) } ]
  /\ UNCHANGED key

Move(x, k) ==
  /\ Changed /\ x \in present /\ list.moves # "never"
  /\ list.moves = "newest" => IsNewest(k)
  /\ key' = [key EXCEPT ![x] = k]
  /\ walk' = [ walk EXCEPT
       !.owed = { r \in @ \ (Excused(x, k) \cup {x}) : StandsBefore(x, r) => Reaches(k, r) },
       !.pushed = @ \cup { r \in Rows : Reaches(k, r) } \cup {x} ]
  /\ UNCHANGED present

NextListings ==
  \/ \E limit \in Limits : Begin(limit)
  \/ \E tie \in Ties : FindMany(tie)
  \/ Count \/ Answer
  \/ \E x \in Rows : Leave(x) \/ \E k \in Keys : Enter(x, k) \/ Move(x, k)
ListingsSpec == InitListings /\ [][NextListings]_listingsVars

-----------------------------------------------------------------------------
ListingsTypeOK ==
  /\ list \in Listed
  /\ present \subseteq Rows
  /\ key \in [Rows -> Keys]
  /\ walk \in Walk
  /\ walk.limit \in Nat \ {0} /\ walk.page \in Nat \ {0}
  /\ changes \in Nat

\* PaginatedDto.from's hasNext: a caller who follows it to the end has been shown every
\* row that was listed from the first page on, unless the row moved, shares its key with
\* another, one ahead of it left the list, or one came in ahead of it while a page that
\* had been counted was being read.
WalkComplete == walk.step = "done" => walk.owed \subseteq walk.got

\* PaginationQueryDto.skip: a row is shown twice only if another came in ahead of it, or
\* shares its key, or it moved itself.
RepeatsExplained == walk.again \subseteq walk.pushed

-----------------------------------------------------------------------------
(* What the walk knows of a row: how many rows are ahead of it. *)

Ahead(r) == { q \in present : StandsBefore(q, r) }
Rank(r)  == Cardinality(Ahead(r))

\* A row still owed and not shown lies beyond what has been read; and the total counts it.
OwedBeyond ==
  \A r \in walk.owed \ walk.got :
    /\ Rank(r) >= Skip
    /\ "rows" \notin walk.pending => Rank(r) >= Skip + walk.limit
    /\ CountedFirst => walk.total > Rank(r)
    /\ walk.pending = {} => walk.total > Skip + walk.limit
OwedAlone == walk.owed \subseteq present /\ \A r \in walk.owed : Twins(r) = {}
\* A row shown, and not pushed back since, lies within what has been read.
GotBehind ==
  \A r \in (walk.got \cap present) \ walk.pushed :
    /\ Twins(r) = {}
    /\ Rank(r) < Skip + walk.limit
    /\ "rows" \in walk.pending => Rank(r) < Skip
PushedKnown == walk.step # "idle" => \A r \in present \ walk.pushed : Twins(r) = {}

ListingsInv ==
  /\ ListingsTypeOK /\ OwedAlone /\ PushedKnown /\ GotBehind /\ RepeatsExplained
  /\ walk.step = "asked" => OwedBeyond
  /\ WalkComplete
=============================================================================
