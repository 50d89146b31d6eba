---------------------------- MODULE ServicesProofs ----------------------------
(***************************************************************************)
(* Proofs about decisions taken on one row, a conversation read in pages,  *)
(* the short lists a user keeps, the tree of categories, a master's slots, *)
(* and everything the services keep, side by side.                         *)
(***************************************************************************)
EXTENDS AccountsProofs, ListingsProofs, Services, Recursion

-----------------------------------------------------------------------------
(* Decisions *)

\* What a request has checked still holds when it writes, unless the row was written in
\* between; what an approval has counted, unless it was lost in between.
CheckStands(j) ==
  ruling[j].step = "checked" =>
    /\ ~ruling[j].raced => Applies(ruling[j].as)
    /\ ruling[j].as.name = "approve" /\ ~ruling[j].unready => ready
RulingsInv == RulingsTypeOK /\ \A j \in Judges : CheckStands(j)

LEMMA RulingShape ==
  ASSUME NEW r \in AllRulings
  PROVE  /\ r.kind \in Kinds /\ r.flag \in {Same, "on", "off"}
         /\ r.to = Same \/ r.to \in ItemStatuses
         /\ r.from \cap Final[r.kind] = {}
<1> USE DEF Ruling, Kinds, Opening, Final, Same
<1>1. r.to \in ItemStatuses
  BY DEF ItemStatuses
<1>2. CASE r \in QuoteRulings
  BY <1>1, <1>2 DEF QuoteRulings
<1>3. CASE r \in ReportRulings
  BY <1>1, <1>3 DEF ReportRulings
<1>4. CASE r \in OrderRulings
  BY <1>1, <1>4 DEF OrderRulings
<1>5. CASE r \in CertificateRulings
  BY <1>1, <1>5 DEF CertificateRulings
<1>6. CASE r \in ApprovalRulings
  BY <1>1, <1>6 DEF ApprovalRulings
<1>7. CASE r \in ActivityRulings
  BY <1>1, <1>7 DEF ActivityRulings
<1> QED
  BY <1>2, <1>3, <1>4, <1>5, <1>6, <1>7 DEF AllRulings

\* The decisions about a master, one by one.
LEMMA MasterRuling ==
  ASSUME NEW r \in AllRulings, r.kind = "master"
  PROVE  \/ r.to = "APPROVED"
         \/ r.from = {"APPROVED"} /\ r.to = Same
         \/ r.from \subseteq {"PENDING", "REJECTED"} /\ r.flag = Same
<1> USE DEF Ruling, Same
<1>1. r \in ApprovalRulings \cup ActivityRulings
  BY DEF AllRulings, QuoteRulings, ReportRulings, OrderRulings, CertificateRulings
<1>2. CASE r \in ApprovalRulings
  BY <1>2 DEF ApprovalRulings
<1>3. CASE r \in ActivityRulings
  BY <1>3 DEF ActivityRulings
<1> QED
  BY <1>1, <1>2, <1>3

LEMMA RulingsStart == InitRulings => RulingsInv
<1> SUFFICES ASSUME InitRulings PROVE RulingsInv
  OBVIOUS
<1>1. AnyRuling \in AllRulings
  <2>1. Ruling("respond", "quote", {"PENDING"}, "RESPONDED", Same) \in AllRulings
    BY DEF AllRulings, QuoteRulings
  <2> QED
    BY <2>1 DEF AnyRuling
<1>2. item \in Item
  <2>1. PICK k \in Kinds : item = [ kind |-> k, status |-> Opening[k], flag |-> FALSE ]
    BY DEF InitRulings
  <2>2. k \in {"quote", "report", "certificate", "order", "master"}
    BY DEF Kinds, Opening
  <2>3. Opening[k] \in ItemStatuses
    BY <2>2 DEF Opening, ItemStatuses
  <2> QED
    BY <2>1, <2>3 DEF Item
<1>3. RulingsTypeOK
  BY <1>1, <1>2 DEF InitRulings, RulingsTypeOK, RulingRequest, NoRuling
<1>4. \A j \in Judges : CheckStands(j)
  BY DEF InitRulings, CheckStands, NoRuling
<1> QED
  BY <1>3, <1>4 DEF RulingsInv

LEMMA BeginRulingKeeps ==
  ASSUME RulingsInv, NEW j \in Judges, NEW r \in AllRulings, BeginRuling(j, r)
  PROVE  RulingsInv'
<1> USE DEF RulingsInv, RulingsTypeOK, BeginRuling, NoRuling
<1>1. AnyRuling \in AllRulings
  BY DEF AnyRuling
<1>2. ruling' \in [Judges -> RulingRequest]
  BY <1>1 DEF RulingRequest
<1>3. ASSUME NEW k \in Judges
      PROVE  CheckStands(k)'
  <2>1. CASE k = j
    <3>1. ruling'[k].as = r
      BY <1>1, <2>1
    <3> QED
      BY <3>1 DEF Ready, Applies, CheckStands
  <2>2. CASE k # j
    BY <2>2 DEF CheckStands, Applies
  <2> QED
    BY <2>1, <2>2
<1> QED
  BY <1>2, <1>3

LEMMA WriteRulingKeeps ==
  ASSUME RulingsInv, NEW j \in Judges, WriteRuling(j)
  PROVE  RulingsInv'
<1> USE DEF RulingsInv, RulingsTypeOK
<1> DEFINE r == ruling[j].as
<1>1. r \in AllRulings
  BY DEF RulingRequest
<1>2. item' = [ item EXCEPT !.status = IF r.to = Same THEN @ ELSE r.to, !.flag = FlagAfter(r) ]
  BY DEF WriteRuling
<1>3. FlagAfter(r) \in BOOLEAN
  BY <1>1, RulingShape DEF FlagAfter, Item, Same
<1>4. item' \in Item
  BY <1>1, <1>2, <1>3, RulingShape DEF Item
<1>5. NoRuling \in RulingRequest
  BY <1>1 DEF NoRuling, AnyRuling, RulingRequest
<1>6. ASSUME NEW k \in Judges
      PROVE  /\ ruling'[k] \in RulingRequest
             /\ ruling'[k].step = "checked" =>
                  /\ ruling'[k].raced
                  /\ ruling[k].step = "checked" /\ ruling'[k].as = ruling[k].as
                  /\ ruling'[k].unready = ruling[k].unready
  <2>1. CASE k = j
    <3>1. ruling'[k] = NoRuling
      BY <2>1 DEF WriteRuling
    <3> QED
      BY <1>5, <3>1 DEF NoRuling
  <2>2. CASE k # j
    <3>1. ruling'[k] = [ ruling[k] EXCEPT !.raced = ruling[k].step = "checked" ]
      BY <2>2 DEF WriteRuling
    <3>2. ruling[k] \in RulingRequest
      OBVIOUS
    <3>3. (ruling[k].step = "checked") \in BOOLEAN
      OBVIOUS
    <3> QED
      BY <3>1, <3>2, <3>3 DEF RulingRequest
  <2> QED
    BY <2>1, <2>2
<1>7. ruling' \in [Judges -> RulingRequest]
  <2>1. ruling' = [k \in Judges |-> ruling'[k]]
    BY DEF WriteRuling
  <2> QED
    BY <1>6, <2>1
<1>8. UNCHANGED ready
  BY DEF WriteRuling
<1>9. \A k \in Judges : CheckStands(k)'
  BY <1>6, <1>8 DEF CheckStands
<1> QED
  BY <1>4, <1>7, <1>8, <1>9

LEMMA ReadinessKeeps ==
  ASSUME RulingsInv, ChangeReadiness
  PROVE  RulingsInv'
<1> USE DEF RulingsInv, RulingsTypeOK
<1>1. ready' = ~ready /\ UNCHANGED item
  BY DEF ChangeReadiness
<1>2. ASSUME NEW k \in Judges
      PROVE  /\ ruling'[k] \in RulingRequest
             /\ ruling'[k].step = ruling[k].step /\ ruling'[k].as = ruling[k].as
             /\ ruling'[k].raced = ruling[k].raced
             /\ ruling'[k].unready = (ruling[k].unready \/ (ready /\ ruling[k].step = "checked"))
  <2>1. ruling'[k] = [ ruling[k] EXCEPT !.unready = @ \/ (ready /\ ruling[k].step = "checked") ]
    BY DEF ChangeReadiness
  <2>2. ruling[k] \in RulingRequest
    OBVIOUS
  <2> QED
    BY <2>1, <2>2 DEF RulingRequest
<1>3. ruling' \in [Judges -> RulingRequest]
  <2>1. ruling' = [k \in Judges |-> ruling'[k]]
    BY DEF ChangeReadiness
  <2> QED
    BY <1>2, <2>1
<1>4. ASSUME NEW k \in Judges
      PROVE  CheckStands(k)'
  <2> SUFFICES ASSUME ruling'[k].step = "checked"
               PROVE  /\ ~ruling'[k].raced => item.kind = ruling'[k].as.kind
                                             /\ item.status \in ruling'[k].as.from
                                             /\ (item.kind = "certificate" => ~item.flag)
                      /\ ruling'[k].as.name = "approve" /\ ~ruling'[k].unready => ready'
    BY <1>1 DEF CheckStands, Applies
  <2>1. ruling[k].step = "checked" /\ ruling'[k].as = ruling[k].as
    BY <1>2
  <2>2. ~ruling'[k].raced => Applies(ruling[k].as)
    BY <1>2, <2>1 DEF CheckStands
  <2>3. ruling[k].as.name = "approve" /\ ~ruling[k].unready => ready
    BY <2>1 DEF CheckStands
  <2>4. ~ruling'[k].unready => ~ruling[k].unready /\ ~ready
    BY <1>2, <2>1
  <2> QED
    BY <2>1, <2>2, <2>3, <2>4 DEF Applies
<1>5. item' \in Item /\ ready' \in BOOLEAN
  BY <1>1
<1> QED
  BY <1>3, <1>4, <1>5

LEMMA RulingsInvariant == RulingsSpec => []RulingsInv
<1>1. RulingsInv /\ [NextRulings]_rulingsVars => RulingsInv'
  <2> SUFFICES ASSUME RulingsInv, [NextRulings]_rulingsVars PROVE RulingsInv'
    OBVIOUS
  <2>1. CASE UNCHANGED rulingsVars
    BY <2>1 DEF RulingsInv, RulingsTypeOK, CheckStands, Applies, rulingsVars
  <2> QED
    BY <2>1, BeginRulingKeeps, WriteRulingKeeps, ReadinessKeeps DEF NextRulings
<1> QED
  BY RulingsStart, <1>1, PTL DEF RulingsSpec

\* An answer given, with no other under way, is the last: no decision applies to a row
\* that has one.
THEOREM LastWord == RulingsSpec => VerdictStands
<1>1. ASSUME RulingsInv, [NextRulings]_rulingsVars, Settled
      PROVE  item' = item /\ Settled'
  <2> USE DEF RulingsInv, RulingsTypeOK
  <2>1. ASSUME NEW j \in Judges, NEW r \in AllRulings, BeginRuling(j, r) PROVE FALSE
    <3>1. item.kind = r.kind /\ item.status \in r.from
      BY <2>1 DEF BeginRuling, Applies
    <3> QED
      BY <1>1, <3>1, RulingShape DEF Settled
  <2>2. ASSUME NEW j \in Judges, WriteRuling(j) PROVE FALSE
    BY <1>1, <2>2 DEF WriteRuling, Settled
  <2>3. CASE ChangeReadiness
    BY <1>1, <2>3 DEF ChangeReadiness, Settled, Final
  <2>4. CASE UNCHANGED rulingsVars
    BY <1>1, <2>4 DEF Settled, rulingsVars
  <2> QED
    BY <1>1, <2>1, <2>2, <2>3, <2>4 DEF NextRulings
<1>2. RulingsInv /\ [NextRulings]_rulingsVars => [Settled => item' = item /\ Settled']_rulingsVars
  BY <1>1
<1> QED
  BY RulingsInvariant, <1>2, PTL DEF RulingsSpec, VerdictStands

\* Only an approved master is active, and nobody is approved who had lost what BR-15 asks,
\* but for what comes between one decision's read and its write.
THEOREM LawfulApproval == RulingsSpec => ApprovalLawful
<1> DEFINE Lawful(j) ==
      /\ ~ruling[j].raced /\ Coherent => Coherent'
      /\ ruling[j].as.name = "approve" /\ ~ruling[j].unready => ready
<1>1. ASSUME RulingsInv, NEW j \in Judges, WriteRuling(j)
      PROVE  Lawful(j)
  <2> USE <1>1 DEF RulingsInv, RulingsTypeOK
  <2> DEFINE r == ruling[j].as
  <2>1. ruling[j].step = "checked" /\ r \in AllRulings
    BY DEF WriteRuling, RulingRequest
  <2>2. item' = [ item EXCEPT !.status = IF r.to = Same THEN @ ELSE r.to, !.flag = FlagAfter(r) ]
    BY DEF WriteRuling
  <2>3. ASSUME ~ruling[j].raced, Coherent PROVE Coherent'
    <3> SUFFICES ASSUME item'.kind = "master", item'.flag PROVE item'.status = "APPROVED"
      BY DEF Coherent
    <3>1. Applies(r)
      BY <2>1, <2>3 DEF CheckStands
    <3>2. item.kind = "master" /\ r.kind = "master" /\ item.status \in r.from
      BY <2>2, <3>1 DEF Applies, Item
    <3>3. item'.status = (IF r.to = Same THEN item.status ELSE r.to) /\ item'.flag = FlagAfter(r)
      BY <2>2 DEF Item
    <3>4. CASE r.to = "APPROVED"
      BY <3>3, <3>4 DEF Same
    <3>5. CASE r.from = {"APPROVED"} /\ r.to = Same
      BY <3>2, <3>3, <3>5
    <3>6. CASE r.from \subseteq {"PENDING", "REJECTED"} /\ r.flag = Same
      BY <2>3, <3>2, <3>3, <3>6 DEF FlagAfter, Coherent, Same
    <3> QED
      BY <2>1, <3>2, <3>4, <3>5, <3>6, MasterRuling
  <2> QED
    BY <2>1, <2>3 DEF CheckStands
<1>2. RulingsInv /\ [NextRulings]_rulingsVars
        => [\A j \in Judges : WriteRuling(j) => Lawful(j)]_rulingsVars
  BY <1>1
<1> QED
  BY RulingsInvariant, <1>2, PTL DEF RulingsSpec, ApprovalLawful

-----------------------------------------------------------------------------
(* The order of the messages *)

Stamp == (0 .. MaxInstant) \X Messages
Stamped(m) == m \in Messages /\ message[m].at \in 0 .. MaxInstant

LEMMA InstantsNat == Messages \subseteq Nat /\ 0 .. MaxInstant \subseteq Nat
BY ChatAssumption DEF ChatAssumption

LEMMA BeforeOrders ==
  ASSUME NEW p \in Nat \X Nat, NEW q \in Nat \X Nat, NEW s \in Nat \X Nat
  PROVE  /\ ~Before(p, p)
         /\ Before(p, q) /\ Before(q, s) => Before(p, s)
         /\ p # q => Before(p, q) \/ Before(q, p)
BY DEF Before

\* Messages have places of their own, in one line.
LEMMA AtOrders ==
  ASSUME NEW S, \A m \in S : Stamped(m)
  PROVE  /\ \A m \in S : At(m) \in Nat \X Nat /\ ~Before(At(m), At(m))
         /\ \A k, l, m \in S : Before(At(k), At(l)) /\ Before(At(l), At(m)) => Before(At(k), At(m))
         /\ \A k, m \in S : k # m => Before(At(k), At(m)) \/ Before(At(m), At(k))
<1>1. \A m \in S : At(m) \in Nat \X Nat
  BY InstantsNat DEF Stamped, At
<1>2. \A k, m \in S : k # m => At(k) # At(m)
  BY DEF At
<1> QED
  BY <1>1, <1>2, BeforeOrders

\* Of the subsets of a finite set that its members stand for, one is smallest.
LEMMA SmallestSet ==
  ASSUME NEW S, IsFiniteSet(S), S # {}, NEW below \in [S -> SUBSET S]
  PROVE  \E m \in S : \A k \in S : ~(below[k] \subseteq below[m] /\ below[k] # below[m])
<1> DEFINE T == { below[m] : m \in S }
           R == StrictSubsetOrdering(S)
<1>1. T \subseteq FiniteSubsetsOf(S)
  BY FS_Subset DEF FiniteSubsetsOf
<1>2. IsWellFoundedOn(R, FiniteSubsetsOf(S))
  BY FS_StrictSubsetOrderingWellFounded
<1>3. T # {}
  OBVIOUS
<1>4. \E x \in T : \A y \in T : <<y, x>> \notin R
  <2> HIDE DEF T, R
  <2> QED
    BY <1>1, <1>2, <1>3, WFMin
<1>5. PICK m \in S : \A k \in S : <<below[k], below[m]>> \notin R
  BY <1>4
<1>6. ASSUME NEW k \in S, below[k] \subseteq below[m], below[k] # below[m]
      PROVE  <<below[k], below[m]>> \in R
  BY <1>6 DEF StrictSubsetOrdering
<1> QED
  BY <1>5, <1>6

\* A finite set of messages has a newest and an oldest.
LEMMA Extremes ==
  ASSUME NEW S, IsFiniteSet(S), S # {}, \A m \in S : Stamped(m)
  PROVE  /\ \E m \in S : \A k \in S : ~Before(At(m), At(k))
         /\ \E m \in S : \A k \in S : ~Before(At(k), At(m))
<1>0. /\ \A m \in S : ~Before(At(m), At(m))
      /\ \A k, l, m \in S : Before(At(k), At(l)) /\ Before(At(l), At(m)) => Before(At(k), At(m))
      /\ \A k, m \in S : k # m => Before(At(k), At(m)) \/ Before(At(m), At(k))
  BY AtOrders
<1>1. \E m \in S : \A k \in S : ~Before(At(m), At(k))
  <2> DEFINE newer == [m \in S |-> { k \in S : Before(At(m), At(k)) }]
  <2>1. newer \in [S -> SUBSET S]
    OBVIOUS
  <2>2. PICK m \in S : \A k \in S : ~(newer[k] \subseteq newer[m] /\ newer[k] # newer[m])
    <3> HIDE DEF newer
    <3> QED
      BY <2>1, SmallestSet
  <2>3. ASSUME NEW k \in S, Before(At(m), At(k))
        PROVE  newer[k] \subseteq newer[m] /\ k \in newer[m] /\ k \notin newer[k]
    BY <1>0, <2>3
  <2> QED
    BY <2>2, <2>3
<1>2. \E m \in S : \A k \in S : ~Before(At(k), At(m))
  <2> DEFINE older == [m \in S |-> { k \in S : Before(At(k), At(m)) }]
  <2>1. older \in [S -> SUBSET S]
    OBVIOUS
  <2>2. PICK m \in S : \A k \in S : ~(older[k] \subseteq older[m] /\ older[k] # older[m])
    <3> HIDE DEF older
    <3> QED
      BY <2>1, SmallestSet
  <2>3. ASSUME NEW k \in S, Before(At(k), At(m))
        PROVE  older[k] \subseteq older[m] /\ k \in older[m] /\ k \notin older[k]
    BY <1>0, <2>3
  <2> QED
    BY <2>2, <2>3
<1> QED
  BY <1>1, <1>2

\* A page has the newest rows, all of them when they fit, and those it leaves are older
\* than its oldest.
LEMMA PageCuts ==
  ASSUME NEW S, IsFiniteSet(S), \A m \in S : Stamped(m)
  PROVE  LET page == Newest(S, PageLimit) IN
         /\ page \subseteq S
         /\ Cardinality(S) <= PageLimit => page = S
         /\ Cardinality(S) > PageLimit =>
              /\ Oldest(page) \in page
              /\ \A m \in page : ~Before(At(m), At(Oldest(page)))
              /\ \A m \in S \ page : Before(At(m), At(Oldest(page)))
<1> DEFINE newer(m) == { k \in S : Before(At(m), At(k)) }
           page == Newest(S, PageLimit)
<1>0. /\ \A m \in S : ~Before(At(m), At(m))
      /\ \A k, l, m \in S : Before(At(k), At(l)) /\ Before(At(l), At(m)) => Before(At(k), At(m))
      /\ \A k, m \in S : k # m => Before(At(k), At(m)) \/ Before(At(m), At(k))
  BY AtOrders
<1>1. page = { m \in S : Cardinality(newer(m)) < PageLimit }
  BY DEF Newest
<1>2. PageLimit \in Nat \ {0} /\ Cardinality(S) \in Nat
  BY ChatAssumption, FS_CardinalityType DEF ChatAssumption
<1>3. ASSUME NEW m \in S
      PROVE  IsFiniteSet(newer(m)) /\ Cardinality(newer(m)) \in Nat
  BY FS_Subset, FS_CardinalityType
<1>4. ASSUME NEW m \in S
      PROVE  Cardinality(newer(m)) < Cardinality(S)
  <2>1. newer(m) \subseteq S /\ m \notin newer(m)
    BY <1>0
  <2> HIDE DEF newer
  <2> QED
    BY <1>2, <1>3, <2>1, FS_Subset
<1>5. Cardinality(S) <= PageLimit => page = S
  <2>1. ASSUME Cardinality(S) <= PageLimit, NEW m \in S
        PROVE  Cardinality(newer(m)) < PageLimit
    <3> HIDE DEF newer
    <3> QED
      BY <1>2, <1>3, <1>4, <2>1
  <2> QED
    BY <1>1, <2>1
<1>6. ASSUME Cardinality(S) > PageLimit
      PROVE  /\ Oldest(page) \in page
             /\ \A m \in page : ~Before(At(m), At(Oldest(page)))
             /\ \A m \in S \ page : Before(At(m), At(Oldest(page)))
  <2>1. S # {}
    BY <1>2, <1>6, FS_EmptySet
  <2>2. PICK top \in S : \A k \in S : ~Before(At(top), At(k))
    BY <2>1, Extremes
  <2>3. newer(top) = {}
    BY <2>2
  <2>4. top \in page
    BY <1>1, <1>2, <2>3, FS_EmptySet
  <2>5. IsFiniteSet(page) /\ \A m \in page : Stamped(m)
    BY <1>1, FS_Subset
  <2>6. \E m \in page : \A k \in page : ~Before(At(k), At(m))
    <3> HIDE DEF page
    <3> QED
      BY <2>4, <2>5, Extremes
  <2>7. Oldest(page) \in page /\ \A m \in page : ~Before(At(m), At(Oldest(page)))
    BY <2>6 DEF Oldest
  <2>8. ASSUME NEW m \in S \ page
        PROVE  Before(At(m), At(Oldest(page)))
    <3>1. PICK o \in S : o = Oldest(page) /\ o \in page
      BY <1>1, <2>7
    <3>2. ~(Cardinality(newer(m)) < PageLimit) /\ Cardinality(newer(o)) < PageLimit
      BY <1>1, <3>1
    <3>3. ASSUME Before(At(o), At(m))
          PROVE  newer(m) \subseteq newer(o)
      BY <1>0, <3>1, <3>3
    <3>4. newer(m) \subseteq newer(o) => Cardinality(newer(m)) <= Cardinality(newer(o))
      BY <1>3, FS_Subset
    <3>5. ~Before(At(o), At(m))
      <4> HIDE DEF newer
      <4> QED
        BY <1>2, <1>3, <3>2, <3>3, <3>4
    <3>6. m # o
      BY <3>1
    <3> QED
      BY <1>0, <3>1, <3>5, <3>6
  <2> QED
    BY <2>7, <2>8
<1>7. page \subseteq S
  BY <1>1
<1> QED
  BY <1>5, <1>6, <1>7

-----------------------------------------------------------------------------
(* Reading a conversation *)

Arrived(m) == message[m].state \notin {"none", "inserted"}

\* What has been shown lies from the cursor on, and all that was there and has not been
\* shown lies before it; what has arrived keeps its place.
PagingKept ==
  /\ \A m \in paging.present \cup paging.got : Arrived(m)
  /\ paging.again = {}
  /\ paging.step = "idle" => paging.got = {}
  /\ paging.step = "more" =>
       /\ \A m \in paging.got : ~Before(At(m), paging.after)
       /\ \A m \in paging.present : message[m].state = "sent" =>
            m \in paging.got \/ Before(At(m), paging.after)
  /\ paging.step = "done" =>
       \A m \in paging.present : message[m].state = "sent" => m \in paging.got
MarkingKept ==
  /\ \A m \in marking.ids : Arrived(m)
  /\ marking.ids \cap marking.later = {}
ChatInv == ChatTypeOK /\ PagingKept /\ MarkingKept

LEMMA ChatTyped ==
  ASSUME ChatTypeOK
  PROVE  /\ \A m \in Messages : Stamped(m) /\ message[m] \in Message
         /\ paging.present \subseteq Messages /\ paging.got \subseteq Messages
         /\ paging.after \in Nat \X Nat
         /\ \A m \in Messages : At(m) \in Nat \X Nat /\ At(m) \in Position
<1>1. \A m \in Messages : Stamped(m) /\ message[m] \in Message
  BY DEF ChatTypeOK, Message, Stamped
<1>2. paging \in Paging
  BY DEF ChatTypeOK
<1>3. paging.after \in Position /\ paging.present \subseteq Messages /\ paging.got \subseteq Messages
  BY <1>2 DEF Paging
<1>4. Position \subseteq Nat \X Nat
  <2>1. 0 .. MaxInstant \subseteq Nat /\ Messages \cup {0} \subseteq Nat
    BY InstantsNat
  <2> QED
    BY <2>1 DEF Position
<1>5. \A m \in Messages : At(m) \in Position
  BY <1>1 DEF At, Position, Stamped
<1> QED
  BY <1>1, <1>3, <1>4, <1>5

\* A page: nothing shown before, and nothing there at the first page left behind.
LEMMA FetchKeeps ==
  ASSUME ChatInv, FetchPage
  PROVE  ChatInv'
<1> USE DEF ChatInv
<1>1. PICK rows : rows = IF paging.step = "idle" THEN Sent
                         ELSE { m \in Sent : CursorWhere(m, paging.after) }
  OBVIOUS
<1>2. PICK page : page = Newest(rows, PageLimit)
  OBVIOUS
<1> DEFINE more == Cardinality(rows) > PageLimit
<1>4. /\ paging.step # "done"
      /\ paging' = [ step |-> IF more THEN "more" ELSE "done",
                     after |-> IF more THEN At(Oldest(page)) ELSE <<0, 0>>,
                     present |-> IF paging.step = "idle" THEN Sent ELSE paging.present,
                     got |-> paging.got \cup page,
                     again |-> paging.again \cup (paging.got \cap page) ]
      /\ UNCHANGED <<message, instant, summary, marking>>
  BY <1>1, <1>2 DEF FetchPage
<1>5. /\ Sent \subseteq Messages /\ rows \subseteq Sent
      /\ \A m \in Sent : Arrived(m) /\ message[m].state = "sent"
  BY <1>1 DEF Sent, Arrived
<1>6. IsFiniteSet(rows) /\ \A m \in rows : Stamped(m)
  BY <1>5, ChatAssumption, ChatTyped, FS_Subset DEF ChatAssumption
<1>7. /\ page \subseteq rows
      /\ ~more => page = rows
      /\ more => /\ Oldest(page) \in page
                 /\ \A m \in page : ~Before(At(m), At(Oldest(page)))
                 /\ \A m \in rows \ page : Before(At(m), At(Oldest(page)))
  <2>1. PageLimit \in Nat /\ Cardinality(rows) \in Nat
    BY <1>6, ChatAssumption, FS_CardinalityType DEF ChatAssumption
  <2>2. ~more <=> Cardinality(rows) <= PageLimit
    BY <2>1
  <2> QED
    BY <1>2, <1>6, <2>2, PageCuts
<1> HIDE DEF more
<1>8. paging.step = "idle" \/ paging.step = "more"
  BY <1>4 DEF ChatTypeOK, Paging
<1>9. paging.step = "more" => \A m \in rows : Before(At(m), paging.after)
  BY <1>1 DEF CursorWhere
<1>10. paging.got \cap page = {}
  BY <1>7, <1>8, <1>9 DEF PagingKept
<1>11. /\ paging'.step = IF more THEN "more" ELSE "done"
       /\ paging'.after = IF more THEN At(Oldest(page)) ELSE <<0, 0>>
       /\ paging'.present = IF paging.step = "idle" THEN Sent ELSE paging.present
       /\ paging'.got = paging.got \cup page
       /\ paging'.again = paging.again \cup (paging.got \cap page)
  BY <1>4
<1>12. paging' \in Paging
  <2>1. (IF more THEN At(Oldest(page)) ELSE <<0, 0>>) \in Position
    <3>1. <<0, 0>> \in Position
      BY ChatAssumption DEF Position, ChatAssumption
    <3> QED
      BY <1>5, <1>7, <3>1, ChatTyped
  <2>2. paging.again = {} /\ paging.got \subseteq Messages /\ paging.present \subseteq Messages
    BY ChatTyped DEF PagingKept
  <2> QED
    BY <1>4, <1>5, <1>7, <2>1, <2>2 DEF Paging
<1>13. ChatTypeOK'
  BY <1>4, <1>12 DEF ChatTypeOK
<1>14. \A m \in Messages : At(m)' = At(m) /\ Arrived(m)' = Arrived(m)
  BY <1>4 DEF At, Arrived
<1>15. \A m \in paging'.present \cup paging'.got : Arrived(m)'
  BY <1>5, <1>7, <1>11, <1>14, ChatTyped DEF PagingKept
<1>16. \A m \in paging'.present : message[m].state = "sent" => m \in paging.got \/ m \in rows
  <2>1. CASE paging.step = "idle"
    BY <1>1, <1>11, <2>1
  <2>2. CASE paging.step = "more"
    <3>1. paging'.present = paging.present /\ paging.present \subseteq Messages
      BY <1>11, <2>2, ChatTyped
    <3>2. \A m \in paging.present : message[m].state = "sent" =>
            m \in paging.got \/ Before(At(m), paging.after)
      BY <2>2 DEF PagingKept
    <3>3. rows = { m \in Sent : Before(At(m), paging.after) }
      BY <1>1, <2>2 DEF CursorWhere
    <3> QED
      BY <3>1, <3>2, <3>3 DEF Sent
  <2> QED
    BY <1>8, <2>1, <2>2
<1>17. ASSUME more
       PROVE  /\ \A m \in paging'.got : ~Before(At(m), At(Oldest(page)))
              /\ \A m \in paging'.present : message[m].state = "sent" =>
                   m \in paging'.got \/ Before(At(m), At(Oldest(page)))
  <2>1. PICK o \in Messages : o = Oldest(page) /\ o \in rows
    BY <1>5, <1>7, <1>17
  <2>2. ASSUME NEW m \in paging.got, Before(At(m), At(o))
        PROVE  FALSE
    <3>1. paging.step = "more"
      BY <1>8, <2>2 DEF PagingKept
    <3>2. Before(At(o), paging.after) /\ ~Before(At(m), paging.after)
      BY <1>9, <2>1, <3>1 DEF PagingKept
    <3>3. At(m) \in Nat \X Nat /\ At(o) \in Nat \X Nat /\ paging.after \in Nat \X Nat
      BY <2>1, ChatTyped
    <3> QED
      BY <2>2, <3>2, <3>3, BeforeOrders
  <2>3. \A m \in paging'.got : ~Before(At(m), At(Oldest(page)))
    BY <1>7, <1>11, <1>17, <2>1, <2>2
  <2> QED
    BY <1>7, <1>11, <1>16, <1>17, <2>3
<1>18. ~more => \A m \in paging'.present : message[m].state = "sent" => m \in paging'.got
  BY <1>7, <1>11, <1>16
<1>19. PagingKept'
  <2>1. paging'.got \subseteq Messages /\ paging'.present \subseteq Messages
    BY <1>12 DEF Paging
  <2>2. paging'.again = {} /\ paging'.step # "idle"
    BY <1>10, <1>11 DEF PagingKept
  <2>3. more => paging'.step = "more" /\ paging'.after = At(Oldest(page))
    BY <1>11
  <2>4. ~more => paging'.step = "done"
    BY <1>11
  <2>5. CASE more
    <3>1. \A m \in paging'.got : ~Before(At(m)', paging'.after)
      BY <1>14, <1>17, <2>1, <2>3, <2>5
    <3>2. \A m \in paging'.present : message[m].state = "sent" =>
            m \in paging'.got \/ Before(At(m)', paging'.after)
      BY <1>14, <1>17, <2>1, <2>3, <2>5
    <3> QED
      BY <1>4, <1>15, <2>2, <2>3, <2>5, <3>1, <3>2 DEF PagingKept, Before
  <2>6. CASE ~more
    BY <1>4, <1>15, <1>18, <2>2, <2>4, <2>6 DEF PagingKept
  <2> QED
    BY <2>5, <2>6
<1>20. MarkingKept'
  BY <1>4 DEF MarkingKept, Arrived
<1> QED
  BY <1>13, <1>19, <1>20

\* What has arrived keeps its place, so the pages stay as they are.
LEMMA PagingStands ==
  ASSUME ChatInv, UNCHANGED paging,
         \A m \in Messages : Arrived(m) =>
           /\ Arrived(m)' /\ message'[m].at = message[m].at
           /\ message'[m].state = "sent" => message[m].state = "sent"
  PROVE  PagingKept'
<1>1. paging.present \subseteq Messages /\ paging.got \subseteq Messages
  BY ChatTyped DEF ChatInv
<1>2. \A m \in paging.present \cup paging.got : Arrived(m) /\ Arrived(m)' /\ At(m)' = At(m)
  BY <1>1 DEF ChatInv, PagingKept, At
<1>3. \A m \in paging.present : message'[m].state = "sent" => message[m].state = "sent"
  BY <1>1, <1>2
<1>4. paging.step = "more" => \A m \in paging.got : ~Before(At(m)', paging'.after)
  BY <1>2 DEF ChatInv, PagingKept
<1>5. paging.step = "more" => \A m \in paging.present : message'[m].state = "sent" =>
        m \in paging.got \/ Before(At(m)', paging'.after)
  BY <1>2, <1>3 DEF ChatInv, PagingKept
<1> QED
  BY <1>2, <1>3, <1>4, <1>5 DEF ChatInv, PagingKept, Before

\* send() and removal.
LEMMA MessageKeeps ==
  ASSUME ChatInv, NEW m \in Messages,
         InsertMessage(m) \/ CommitMessage(m) \/ RemoveMessage(m)
  PROVE  ChatInv'
<1> USE DEF ChatInv
<1>1. message[m] \in Message /\ message \in [Messages -> Message] /\ instant \in 0 .. MaxInstant
  BY DEF ChatTypeOK
<1>2. \A k \in Messages : k # m => message'[k] = message[k]
  BY <1>1 DEF InsertMessage, CommitMessage, RemoveMessage
<1>3. /\ message' \in [Messages -> Message]
      /\ Arrived(m) => Arrived(m)' /\ message'[m].at = message[m].at
                       /\ (message'[m].state = "sent" => message[m].state = "sent")
  <2>1. CASE InsertMessage(m)
    <3>1. message'[m] = [ message[m] EXCEPT !.state = "inserted", !.at = instant ]
      BY <1>1, <2>1 DEF InsertMessage
    <3>2. message'[m] \in Message
      BY <1>1, <3>1 DEF Message
    <3>3. message' = [k \in Messages |-> message'[k]]
      BY <1>1, <2>1 DEF InsertMessage
    <3> QED
      BY <1>1, <1>2, <2>1, <3>2, <3>3 DEF InsertMessage, Arrived
  <2>2. CASE CommitMessage(m)
    BY <1>1, <2>2 DEF CommitMessage, Arrived, Message
  <2>3. CASE RemoveMessage(m)
    BY <1>1, <2>3 DEF RemoveMessage, Arrived, Message
  <2> QED
    BY <2>1, <2>2, <2>3
<1>4. \A k \in Messages : Arrived(k) =>
        /\ Arrived(k)' /\ message'[k].at = message[k].at
        /\ message'[k].state = "sent" => message[k].state = "sent"
  BY <1>2, <1>3 DEF Arrived
<1>5. UNCHANGED <<paging, instant>> /\ summary' \in Messages \cup {0}
  BY DEF InsertMessage, CommitMessage, RemoveMessage, ChatTypeOK
<1>6. PagingKept'
  BY <1>4, <1>5, PagingStands
<1>7. marking' \in Marking /\ MarkingKept'
  <2>1. marking.ids \subseteq Messages /\ \A k \in marking.ids : Arrived(k)'
    BY <1>4 DEF ChatTypeOK, Marking, MarkingKept
  <2>2. CASE CommitMessage(m)
    <3>1. ~Arrived(m)
      BY <2>2 DEF CommitMessage, Arrived
    <3>2. marking \in Marking
      BY DEF ChatTypeOK
    <3>3. marking' = [ marking EXCEPT !.later = IF marking.busy THEN @ \cup {m} ELSE @ ]
      BY <2>2 DEF CommitMessage
    <3>4. marking'.ids = marking.ids /\ marking'.later \subseteq marking.later \cup {m}
          /\ marking' \in Marking
      BY <3>2, <3>3 DEF Marking
    <3> QED
      BY <2>1, <3>1, <3>4 DEF MarkingKept
  <2>3. CASE InsertMessage(m) \/ RemoveMessage(m)
    BY <2>1, <2>3 DEF InsertMessage, RemoveMessage, ChatTypeOK, MarkingKept
  <2> QED
    BY <2>2, <2>3
<1> QED
  BY <1>3, <1>5, <1>6, <1>7 DEF ChatTypeOK

\* markRead()
LEMMA MarkingKeeps ==
  ASSUME ChatInv, ReadUnread \/ WriteRead
  PROVE  ChatInv'
<1> USE DEF ChatInv
<1>1. CASE ReadUnread
  <2> DEFINE unread == { m \in Sent : ~message[m].read }
  <2>1. marking' = [ busy |-> TRUE, ids |-> unread, later |-> {} ]
        /\ UNCHANGED <<message, instant, summary, paging>>
    BY <1>1 DEF ReadUnread
  <2>2. unread \subseteq Messages /\ \A m \in unread : Arrived(m)
    BY DEF Sent, Arrived
  <2> HIDE DEF unread
  <2>3. marking' \in Marking /\ MarkingKept'
    BY <2>1, <2>2 DEF Marking, MarkingKept, Arrived
  <2>4. PagingKept'
    BY <2>1, PagingStands DEF Arrived
  <2> QED
    BY <2>1, <2>3, <2>4 DEF ChatTypeOK
<1>2. CASE WriteRead
  <2>1. /\ message' = [m \in Messages |-> [ message[m] EXCEPT !.read = @ \/ m \in Marked ]]
        /\ marking' = NoMarking
        /\ UNCHANGED <<instant, summary, paging>>
    BY <1>2 DEF WriteRead
  <2>2. ASSUME NEW m \in Messages
        PROVE  /\ message'[m] \in Message
               /\ message'[m].state = message[m].state /\ message'[m].at = message[m].at
    <3>1. message'[m] = [ message[m] EXCEPT !.read = @ \/ m \in Marked ]
      BY <2>1
    <3>2. message[m] \in Message /\ (m \in Marked) \in BOOLEAN
      BY ChatTyped
    <3> QED
      BY <3>1, <3>2 DEF Message
  <2>3. message' \in [Messages -> Message]
    <3>1. message' = [m \in Messages |-> message'[m]]
      BY <2>1
    <3> QED
      BY <2>2, <3>1
  <2>4. PagingKept'
    BY <2>1, <2>2, PagingStands DEF Arrived
  <2>5. marking' \in Marking /\ MarkingKept'
    BY <2>1 DEF NoMarking, Marking, MarkingKept
  <2> QED
    BY <2>1, <2>3, <2>4, <2>5 DEF ChatTypeOK
<1> QED
  BY <1>1, <1>2

LEMMA ChatStart == InitChat => ChatInv
<1> SUFFICES ASSUME InitChat PROVE ChatInv
  OBVIOUS
<1> USE ChatAssumption DEF InitChat, ChatAssumption
<1>1. message \in [Messages -> Message]
  BY DEF Unsent, Message
<1>2. paging \in Paging
  BY DEF NoPaging, Paging, Position
<1>3. marking \in Marking
  BY DEF NoMarking, Marking
<1> QED
  BY <1>1, <1>2, <1>3 DEF ChatInv, ChatTypeOK, PagingKept, MarkingKept, NoPaging, NoMarking

LEMMA ChatInvariant == ChatSpec => []ChatInv
<1>1. ChatInv /\ [NextChat]_chatVars => ChatInv'
  <2> SUFFICES ASSUME ChatInv, [NextChat]_chatVars PROVE ChatInv'
    OBVIOUS
  <2>1. CASE UNCHANGED chatVars
    BY <2>1 DEF chatVars, ChatInv, ChatTypeOK, PagingKept, MarkingKept, Arrived, At
  <2>2. CASE Tick
    BY <2>2, ChatAssumption DEF ChatAssumption, Tick, ChatInv, ChatTypeOK, PagingKept, MarkingKept, Arrived, At
  <2>3. CASE CloseConversation
    <3>1. NoPaging \in Paging
      BY ChatAssumption DEF ChatAssumption, NoPaging, Paging, Position
    <3> QED
      BY <2>3, <3>1 DEF CloseConversation, ChatInv, ChatTypeOK, PagingKept, MarkingKept, Arrived, NoPaging
  <2> QED
    BY <2>1, <2>2, <2>3, FetchKeeps, MarkingKeeps, MessageKeeps DEF NextChat
<1> QED
  BY ChatStart, <1>1, PTL DEF ChatSpec

\* Pages read one after the other show every message that stays, once, and what arrives
\* while the unread ones are being marked stays unread, for any number of messages, of
\* which any may bear the same instant, and any limit.
THEOREM ReadToTheEnd == ChatSpec => NothingMissed
<1>1. ChatInv => PagesComplete
  BY DEF ChatInv, PagingKept, PagesComplete
<1>2. ASSUME ChatInv, WriteRead, NEW m \in marking.later
      PROVE  message'[m].read = message[m].read
  <2>1. m \in Messages /\ m \notin marking.ids
    BY <1>2 DEF ChatInv, ChatTypeOK, Marking, MarkingKept
  <2>2. message'[m] = [ message[m] EXCEPT !.read = @ \/ m \in Marked ]
    BY <1>2, <2>1 DEF WriteRead
  <2>3. message[m] \in Message
    BY <1>2, <2>1, ChatTyped DEF ChatInv
  <2>4. (m \in Marked) = FALSE
    BY <2>1 DEF Marked
  <2> QED
    BY <2>2, <2>3, <2>4 DEF Message
<1>3. ChatInv /\ ChatInv' /\ [NextChat]_chatVars
        => [PagesComplete' /\ UnseenStaysUnread]_chatVars
  <2>1. ChatInv' => PagesComplete'
    BY <1>1, PTL
  <2> QED
    BY <1>2, <2>1 DEF UnseenStaysUnread
<1> QED
  BY ChatInvariant, <1>3, PTL DEF ChatSpec, NothingMissed

-----------------------------------------------------------------------------
(* The short lists *)

\* What a request has read still stands, unless another has written since it began.
ReadStands(t) ==
  saving[t].step # "idle" /\ ~saving[t].raced =>
    /\ saving[t].op = "create" => Cardinality(LiveOnes) < MaxSaved
    /\ saving[t].op \in {"update", "remove"} =>
         saving[t].of \in Entries /\ entry[saving[t].of].state = "live"
    /\ saving[t].op = "reorder" => saving[t].ids = LiveOnes
    /\ saving[t].step = "cleared" => saving[t].cleared = Defaults
OwnListsInv == OwnListsTypeOK /\ \A t \in Tabs : ReadStands(t)

LEMMA ListsFinite ==
  ASSUME NEW S \in SUBSET Entries
  PROVE  IsFiniteSet(S) /\ Cardinality(S) \in Nat /\ Cardinality(S) \in Orders
<1>1. IsFiniteSet(S) /\ Cardinality(S) <= Cardinality(Entries)
  BY OwnListsAssumption, FS_Subset DEF OwnListsAssumption
<1>2. Cardinality(S) \in Nat /\ Cardinality(Entries) \in Nat
  BY <1>1, OwnListsAssumption, FS_CardinalityType DEF OwnListsAssumption
<1> QED
  BY <1>1, <1>2 DEF Orders

LEMMA SavingTyped ==
  /\ NoSaving \in Saving
  /\ \A op \in {"create", "update", "remove", "reorder"}, a \in Entries \cup {NoEntry} :
       /\ Checked(op, a) \in Saving
       /\ Checked(op, a).op = op /\ Checked(op, a).of = a /\ Checked(op, a).step = "checked"
       /\ ~Checked(op, a).raced
<1>1. Cardinality(LiveOnes) \in Orders /\ 0 \in Orders
  BY ListsFinite, FS_EmptySet DEF LiveOnes
<1>2. NoSaving \in Saving
  BY <1>1 DEF NoSaving, Saving
<1>3. ASSUME NEW op \in {"create", "update", "remove", "reorder"}, NEW a \in Entries \cup {NoEntry}
      PROVE  /\ Checked(op, a) \in Saving
             /\ Checked(op, a).op = op /\ Checked(op, a).of = a /\ Checked(op, a).step = "checked"
             /\ ~Checked(op, a).raced
  <2>1. NoSaving.raced = FALSE /\ Cardinality(LiveOnes) \in Orders
    BY <1>1 DEF NoSaving
  <2>2. Checked(op, a) = [ NoSaving EXCEPT !.op = op, !.step = "checked", !.of = a,
                                           !.count = Cardinality(LiveOnes) ]
    BY DEF Checked
  <2> QED
    BY <1>2, <2>1, <2>2 DEF Saving
<1> QED
  BY <1>2, <1>3

\* A request begins with what it has checked.
LEMMA StartKeeps ==
  ASSUME OwnListsInv, NEW t \in Tabs, NEW doing \in Saving, StartsSaving(t, doing),
         doing.op = "create" => Cardinality(LiveOnes) < MaxSaved,
         doing.op \in {"update", "remove"} => doing.of \in Entries /\ entry[doing.of].state = "live",
         doing.op = "reorder" => doing.ids = LiveOnes,
         doing.step = "checked"
  PROVE  OwnListsInv'
<1> USE DEF OwnListsInv, OwnListsTypeOK, StartsSaving
<1>1. saving' \in [Tabs -> Saving] /\ saving'[t] = doing
  OBVIOUS
<1>2. LiveOnes' = LiveOnes /\ Defaults' = Defaults /\ entry' = entry
  BY DEF LiveOnes, Defaults
<1>3. ASSUME NEW u \in Tabs
      PROVE  ReadStands(u)'
  <2>1. CASE u = t
    BY <1>1, <1>2, <2>1 DEF ReadStands
  <2>2. CASE u # t
    <3>1. saving'[u] = saving[u] /\ ReadStands(u)
      BY <2>2
    <3> QED
      BY <1>2, <3>1 DEF ReadStands
  <2> QED
    BY <2>1, <2>2
<1> QED
  BY <1>1, <1>3

LEMMA BeginsKeep ==
  ASSUME OwnListsInv, NEW t \in Tabs, NEW a \in Entries, NEW default \in {"true", "false", "absent"},
         BeginCreate(t, a, default) \/ BeginUpdate(t, a, default) \/ BeginRemove(t, a)
  PROVE  OwnListsInv'
<1>1. CASE BeginRemove(t, a)
  <2>1. StartsSaving(t, Checked("remove", a)) /\ entry[a].state = "live"
    BY <1>1 DEF BeginRemove
  <2> QED
    BY <2>1, SavingTyped, StartKeeps
<1>2. ASSUME NEW op \in {"create", "update"},
             StartsSaving(t, [ Checked(op, a) EXCEPT !.default = default ]),
             op = "create" => Cardinality(LiveOnes) < MaxSaved,
             op = "update" => entry[a].state = "live"
      PROVE  OwnListsInv'
  <2>1. PICK doing : doing = [ Checked(op, a) EXCEPT !.default = default ]
    OBVIOUS
  <2>2. Checked(op, a) \in Saving /\ Checked(op, a).op = op /\ Checked(op, a).of = a
        /\ Checked(op, a).step = "checked"
    BY SavingTyped
  <2>3. doing \in Saving /\ doing.op = op /\ doing.of = a /\ doing.step = "checked"
    BY <2>1, <2>2 DEF Saving
  <2>4. /\ doing.op = "create" => Cardinality(LiveOnes) < MaxSaved
        /\ doing.op \in {"update", "remove"} => doing.of \in Entries /\ entry[doing.of].state = "live"
        /\ doing.op = "reorder" => doing.ids = LiveOnes
    BY <1>2, <2>3
  <2> QED
    BY <1>2, <2>1, <2>3, <2>4, StartKeeps
<1> QED
  BY <1>1, <1>2 DEF BeginCreate, BeginUpdate, UnderLimit

LEMMA ReorderKeeps ==
  ASSUME OwnListsInv, NEW t \in Tabs, NEW ids \in SUBSET Entries, BeginReorder(t, ids)
  PROVE  OwnListsInv'
<1>1. PICK doing : doing = [ Checked("reorder", NoEntry) EXCEPT !.ids = ids ]
  OBVIOUS
<1>2. Checked("reorder", NoEntry) \in Saving /\ Checked("reorder", NoEntry).op = "reorder"
      /\ Checked("reorder", NoEntry).step = "checked"
  BY SavingTyped
<1>3. doing \in Saving /\ doing.op = "reorder" /\ doing.step = "checked" /\ doing.ids = ids
  BY <1>1, <1>2 DEF Saving
<1>4. StartsSaving(t, doing) /\ ids = LiveOnes
  BY <1>1 DEF BeginReorder, AllOfThem
<1> QED
  BY <1>3, <1>4, StartKeeps

\* The steps between the check and the write.
LEMMA MiddleKeeps ==
  ASSUME OwnListsInv, NEW t \in Tabs, ClearDefault(t) \/ GetPicture(t)
  PROVE  OwnListsInv'
<1> USE DEF OwnListsInv, OwnListsTypeOK
<1>1. saving[t] \in Saving /\ ReadStands(t) /\ saving[t].step # "idle"
  BY DEF ClearDefault, GetPicture
<1>2. /\ saving'[t] \in Saving
      /\ saving'[t].op = saving[t].op /\ saving'[t].of = saving[t].of
      /\ saving'[t].ids = saving[t].ids /\ saving'[t].raced = saving[t].raced
      /\ saving'[t].step = "cleared" => saving'[t].cleared = Defaults
  <2>1. CASE ClearDefault(t)
    <3>1. saving'[t] = [ saving[t] EXCEPT !.step = "cleared", !.cleared = ToClear ]
      BY <2>1 DEF ClearDefault
    <3>2. ToClear = Defaults /\ Defaults \in SUBSET Entries
      BY DEF ToClear, Defaults, LiveOnes
    <3> QED
      BY <1>1, <3>1, <3>2 DEF Saving
  <2>2. CASE GetPicture(t)
    <3>1. saving'[t] = [ saving[t] EXCEPT !.step = "attachable" ]
      BY <2>2 DEF GetPicture
    <3> QED
      BY <1>1, <3>1 DEF Saving
  <2> QED
    BY <2>1, <2>2
<1>3. \A u \in Tabs : u # t => saving'[u] = saving[u]
  BY DEF ClearDefault, GetPicture
<1>4. saving' \in [Tabs -> Saving]
  <2>1. saving' = [u \in Tabs |-> saving'[u]]
    BY DEF ClearDefault, GetPicture
  <2> QED
    BY <1>2, <1>3, <2>1
<1>5. UNCHANGED <<kind, entry>> /\ LiveOnes' = LiveOnes /\ Defaults' = Defaults
  BY DEF ClearDefault, GetPicture, LiveOnes, Defaults
<1>6. ASSUME NEW u \in Tabs
      PROVE  ReadStands(u)'
  <2>1. CASE u = t
    BY <1>1, <1>2, <1>5, <2>1 DEF ReadStands
  <2>2. CASE u # t
    BY <1>3, <1>5, <2>2 DEF ReadStands
  <2> QED
    BY <2>1, <2>2
<1> QED
  BY <1>4, <1>5, <1>6

\* A write takes away what every other request has read.
LEMMA WroteStands ==
  ASSUME OwnListsInv, NEW t \in Tabs, Wrote(t)
  PROVE  saving' \in [Tabs -> Saving] /\ \A u \in Tabs : ReadStands(u)'
<1> USE DEF OwnListsInv, OwnListsTypeOK
<1>1. ASSUME NEW u \in Tabs
      PROVE  saving'[u] \in Saving /\ (saving'[u].step = "idle" \/ saving'[u].raced)
  <2>1. CASE u = t
    <3>1. saving'[u] = NoSaving
      BY <2>1 DEF Wrote
    <3> QED
      BY <3>1, SavingTyped DEF NoSaving
  <2>2. CASE u # t
    <3>1. saving'[u] = [ saving[u] EXCEPT !.raced = saving[u].step # "idle" ]
      BY <2>2 DEF Wrote
    <3>2. saving[u] \in Saving /\ (saving[u].step # "idle") \in BOOLEAN
      OBVIOUS
    <3> QED
      BY <3>1, <3>2 DEF Saving
  <2> QED
    BY <2>1, <2>2
<1>2. saving' = [u \in Tabs |-> saving'[u]]
  BY DEF Wrote
<1> QED
  BY <1>1, <1>2 DEF ReadStands

LEMMA SavedRow ==
  ASSUME OwnListsInv, NEW t \in Tabs, saving[t].op \in {"create", "update", "remove"}, NEW r \in Entry
  PROVE  /\ RowSaved(t, r) \in Entry
         /\ saving[t].op = "create" =>
              /\ RowSaved(t, r).state = "live"
              /\ RowSaved(t, r).default = (saving[t].default = "true")
         /\ saving[t].op = "update" =>
              /\ RowSaved(t, r).state = r.state
              /\ RowSaved(t, r).default = IF saving[t].default = "absent" THEN r.default
                                          ELSE saving[t].default = "true"
         /\ saving[t].op = "remove" => RowSaved(t, r).state = "removed"
<1>1. saving[t].count \in Orders /\ 0 \in Orders
  BY ListsFinite, FS_EmptySet DEF OwnListsInv, OwnListsTypeOK, Saving
<1>2. CASE saving[t].op = "create"
  <2>1. RowSaved(t, r) = [ state |-> "live", default |-> saving[t].default = "true",
                           order |-> IF kind = "addresses" THEN 0 ELSE saving[t].count ]
    BY <1>2 DEF RowSaved
  <2> QED
    BY <1>1, <1>2, <2>1 DEF Entry
<1>3. CASE saving[t].op = "update"
  <2> DEFINE d == IF saving[t].default = "absent" THEN r.default ELSE saving[t].default = "true"
  <2>1. RowSaved(t, r) = [ r EXCEPT !.default = d ]
    BY <1>3 DEF RowSaved
  <2>2. d \in BOOLEAN
    BY DEF Entry
  <2> HIDE DEF d
  <2>3. RowSaved(t, r) \in Entry /\ RowSaved(t, r).state = r.state /\ RowSaved(t, r).default = d
    BY <2>1, <2>2 DEF Entry
  <2> QED
    BY <1>3, <2>3 DEF d
<1>4. CASE saving[t].op = "remove"
  <2>1. RowSaved(t, r) = [ r EXCEPT !.state = "removed", !.default = FALSE ]
    BY <1>4 DEF RowSaved
  <2> QED
    BY <1>4, <2>1 DEF Entry
<1> QED
  BY <1>2, <1>3, <1>4

LEMMA WriteEntryRows ==
  ASSUME OwnListsInv, NEW t \in Tabs, WriteEntry(t)
  PROVE  /\ entry' \in [Entries -> Entry]
         /\ \A a \in Entries : a = saving[t].of => entry'[a] = RowSaved(t, entry[a])
         /\ \A a \in Entries : a # saving[t].of =>
              /\ entry'[a].state = entry[a].state
              /\ entry'[a].default = (entry[a].default /\ a \notin saving[t].cleared)
<1> USE DEF OwnListsInv, OwnListsTypeOK
<1>1. ASSUME NEW a \in Entries, a = saving[t].of
      PROVE  entry'[a] \in Entry /\ entry'[a] = RowSaved(t, entry[a])
  <2>1. entry'[a] = RowSaved(t, entry[a]) /\ entry[a] \in Entry
    BY <1>1 DEF WriteEntry
  <2>2. saving[t].op \in {"create", "update", "remove"}
    BY DEF WriteEntry
  <2> QED
    BY <2>1, <2>2, SavedRow
<1>2. ASSUME NEW a \in Entries, a # saving[t].of
      PROVE  /\ entry'[a] \in Entry /\ entry'[a].state = entry[a].state
             /\ entry'[a].default = (entry[a].default /\ a \notin saving[t].cleared)
  <2>1. entry'[a] = [ entry[a] EXCEPT !.default = @ /\ a \notin saving[t].cleared ]
    BY <1>2 DEF WriteEntry
  <2>2. entry[a] \in Entry /\ (entry[a].default /\ a \notin saving[t].cleared) \in BOOLEAN
    OBVIOUS
  <2> QED
    BY <2>1, <2>2 DEF Entry
<1>3. entry' = [a \in Entries |-> entry'[a]]
  BY DEF WriteEntry
<1> QED
  BY <1>1, <1>2, <1>3

LEMMA WritesKeep ==
  ASSUME OwnListsInv, NEW t \in Tabs,
         WriteEntry(t) \/ WriteOrder(t) \/ \E a \in Entries : RemoveEntry(t, a)
  PROVE  OwnListsInv'
<1> USE DEF OwnListsInv, OwnListsTypeOK
<1>1. UNCHANGED kind /\ saving' \in [Tabs -> Saving] /\ \A u \in Tabs : ReadStands(u)'
  BY WroteStands DEF WriteEntry, WriteOrder, RemoveEntry
<1>2. CASE WriteEntry(t)
  BY <1>1, <1>2, WriteEntryRows
<1>3. CASE WriteOrder(t)
  <2>1. PICK position \in [saving[t].ids -> 0 .. Cardinality(saving[t].ids) - 1] :
          entry' = [a \in Entries |-> IF a \in saving[t].ids
                                      THEN [ entry[a] EXCEPT !.order = position[a] ] ELSE entry[a]]
    BY <1>3 DEF WriteOrder
  <2>2. 0 .. Cardinality(saving[t].ids) - 1 \subseteq Orders
    <3>1. saving[t].ids \in SUBSET Entries
      BY DEF Saving
    <3>2. Cardinality(saving[t].ids) \in Orders /\ Cardinality(Entries) \in Nat
      BY <3>1, ListsFinite
    <3> QED
      BY <3>2 DEF Orders
  <2>3. \A a \in Entries : entry'[a] \in Entry
    BY <2>1, <2>2 DEF Entry
  <2> QED
    BY <1>1, <2>1, <2>3
<1>4. ASSUME NEW a \in Entries, RemoveEntry(t, a)
      PROVE  OwnListsInv'
  <2>1. entry' \in [Entries -> Entry]
    BY <1>4 DEF RemoveEntry, Entry
  <2> QED
    BY <1>1, <2>1
<1> QED
  BY <1>2, <1>3, <1>4

LEMMA OwnListsInvariant == OwnListsSpec => []OwnListsInv
<1>1. InitOwnLists => OwnListsInv
  <2> SUFFICES ASSUME InitOwnLists PROVE OwnListsInv
    OBVIOUS
  <2>1. NoRow \in Entry
    BY ListsFinite, FS_EmptySet DEF NoRow, Entry
  <2> QED
    BY <2>1, SavingTyped DEF InitOwnLists, OwnListsInv, OwnListsTypeOK, ReadStands, NoSaving
<1>2. OwnListsInv /\ [NextOwnLists]_ownListsVars => OwnListsInv'
  <2> SUFFICES ASSUME OwnListsInv, [NextOwnLists]_ownListsVars PROVE OwnListsInv'
    OBVIOUS
  <2>1. CASE UNCHANGED ownListsVars
    BY <2>1 DEF ownListsVars, OwnListsInv, OwnListsTypeOK, ReadStands, LiveOnes, Defaults
  <2> QED
    BY <2>1, BeginsKeep, ReorderKeeps, MiddleKeeps, WritesKeep DEF NextOwnLists
<1> QED
  BY <1>1, <1>2, PTL DEF OwnListsSpec

\* A write nobody came before keeps the limit and the one default.
LEMMA EntryKeepsList ==
  ASSUME OwnListsInv, NEW t \in Tabs, ~saving[t].raced, WriteEntry(t), ListKept
  PROVE  ListKept'
<1> DEFINE of == saving[t].of
<1>1. /\ \A a \in Entries : a = of => entry'[a] = RowSaved(t, entry[a]) /\ entry[a] \in Entry
      /\ \A a \in Entries : a # of => /\ entry'[a].state = entry[a].state
                                      /\ entry'[a].default = (entry[a].default /\ a \notin saving[t].cleared)
  BY WriteEntryRows DEF OwnListsInv, OwnListsTypeOK
<1>2. saving[t].op \in {"create", "update", "remove"} /\ saving[t].step # "idle" /\ ReadStands(t)
  BY DEF WriteEntry, ReadyToWrite, OwnListsInv
<1>3. LiveOnes' \in SUBSET Entries /\ Defaults' \in SUBSET Entries /\ Defaults \in SUBSET Entries
      /\ LiveOnes \in SUBSET Entries
  BY DEF LiveOnes, Defaults
<1>4. MaxSaved \in Nat /\ Cardinality(LiveOnes) <= MaxSaved /\ Cardinality(Defaults) <= 1
  BY OwnListsAssumption DEF OwnListsAssumption, ListKept
<1>5. Cardinality(LiveOnes') <= MaxSaved
  <2>1. CASE saving[t].op = "create"
    <3>1. Cardinality(LiveOnes) < MaxSaved
      BY <1>2, <2>1 DEF ReadStands, OwnListsInv
    <3>2. LiveOnes' \subseteq LiveOnes \cup {of}
      BY <1>1 DEF LiveOnes
    <3>3. /\ IsFiniteSet(LiveOnes \cup {of})
          /\ Cardinality(LiveOnes \cup {of}) <= Cardinality(LiveOnes) + 1
          /\ Cardinality(LiveOnes \cup {of}) \in Nat
      <4> HIDE DEF of
      <4>1. IsFiniteSet(LiveOnes) /\ Cardinality(LiveOnes) \in Nat
        BY <1>3, ListsFinite
      <4>2. /\ IsFiniteSet(LiveOnes \cup {of})
            /\ Cardinality(LiveOnes \cup {of}) =
                 IF of \in LiveOnes THEN Cardinality(LiveOnes) ELSE Cardinality(LiveOnes) + 1
        BY <4>1, FS_AddElement
      <4> QED
        BY <4>1, <4>2
    <3>4. Cardinality(LiveOnes') <= Cardinality(LiveOnes \cup {of})
      BY <3>2, <3>3, FS_Subset
    <3> QED
      BY <1>3, <1>4, <3>1, <3>3, <3>4, ListsFinite
  <2>2. CASE saving[t].op # "create"
    <3>1. LiveOnes' \subseteq LiveOnes
      BY <1>1, <1>2, <2>2, SavedRow DEF LiveOnes
    <3>2. Cardinality(LiveOnes') <= Cardinality(LiveOnes)
      BY <1>3, <3>1, ListsFinite, FS_Subset
    <3> QED
      BY <1>3, <1>4, <3>2, ListsFinite
  <2> QED
    BY <2>1, <2>2
<1>6. Defaults' \subseteq Defaults \/ Defaults' \subseteq {of}
  <2>1. CASE saving[t].default = "true"
    <3>1. saving[t].cleared = Defaults
      BY <1>2, <2>1 DEF WriteEntry, ReadyToWrite, ReadStands
    <3>2. Defaults' \subseteq {of}
      BY <1>1, <3>1 DEF Defaults, LiveOnes
    <3> QED
      BY <3>2
  <2>2. CASE saving[t].default # "true"
    <3>1. ASSUME NEW a \in Entries, a = of, entry'[a].state = "live", entry'[a].default
          PROVE  entry[a].state = "live" /\ entry[a].default
      <4>1. entry'[a] = RowSaved(t, entry[a]) /\ entry[a] \in Entry
        BY <1>1, <3>1
      <4>2. CASE saving[t].op = "create"
        <5>1. entry'[a].default = (saving[t].default = "true")
          BY <4>1, <4>2, SavedRow
        <5> QED
          BY <2>2, <3>1, <5>1
      <4>3. CASE saving[t].op = "update"
        <5>1. /\ entry'[a].state = entry[a].state
              /\ entry'[a].default = IF saving[t].default = "absent" THEN entry[a].default
                                     ELSE saving[t].default = "true"
          BY <4>1, <4>3, SavedRow
        <5> QED
          BY <2>2, <3>1, <5>1
      <4>4. CASE saving[t].op = "remove"
        BY <3>1, <4>1, <4>4, SavedRow
      <4> QED
        BY <1>2, <4>2, <4>3, <4>4
    <3>2. Defaults' \subseteq Defaults
      BY <1>1, <3>1 DEF Defaults, LiveOnes
    <3> QED
      BY <3>2
  <2> QED
    BY <2>1, <2>2
<1>7. Cardinality(Defaults') <= 1
  <2>1. CASE Defaults' \subseteq Defaults
    <3>1. Cardinality(Defaults') <= Cardinality(Defaults)
      BY <1>3, <2>1, ListsFinite, FS_Subset
    <3> QED
      BY <1>3, <1>4, <3>1, ListsFinite
  <2>2. CASE Defaults' \subseteq {of}
    <3> HIDE DEF of
    <3>1. IsFiniteSet({of}) /\ Cardinality({of}) = 1
      BY FS_Singleton
    <3>2. Cardinality(Defaults') <= Cardinality({of})
      BY <2>2, <3>1, FS_Subset
    <3> QED
      BY <3>1, <3>2
  <2> QED
    BY <1>6, <2>1, <2>2
<1> QED
  BY <1>5, <1>7 DEF ListKept

\* A limit and a default that only the service keeps hold unless two requests overlap; and
\* a portfolio put in order, with no picture added or removed meanwhile, is in order.
THEOREM ListsKept == OwnListsSpec => OwnListsKept
<1>1. ASSUME OwnListsInv, NEW t \in Tabs, ~saving[t].raced, WriteOrder(t)
      PROVE  InOrder'
  <2>1. saving[t].ids = LiveOnes
    BY <1>1 DEF OwnListsInv, ReadStands, WriteOrder, ReadyToWrite
  <2>2. PICK position \in [saving[t].ids -> 0 .. Cardinality(saving[t].ids) - 1] :
          /\ \A a, b \in saving[t].ids : position[a] = position[b] => a = b
          /\ entry' = [a \in Entries |-> IF a \in saving[t].ids
                                         THEN [ entry[a] EXCEPT !.order = position[a] ] ELSE entry[a]]
    BY <1>1 DEF WriteOrder
  <2>3. ASSUME NEW a \in Entries, a \in LiveOnes'
        PROVE  a \in saving[t].ids /\ entry'[a].order = position[a]
    <3>1. entry[a] \in Entry
      BY <1>1 DEF OwnListsInv, OwnListsTypeOK
    <3>2. entry'[a].state = entry[a].state
      BY <2>2, <3>1 DEF Entry
    <3>3. a \in saving[t].ids
      BY <2>1, <2>3, <3>2 DEF LiveOnes
    <3>4. entry'[a] = [ entry[a] EXCEPT !.order = position[a] ]
      BY <2>2, <3>3
    <3> QED
      BY <3>1, <3>3, <3>4 DEF Entry
  <2>4. LiveOnes' \subseteq Entries
    BY DEF LiveOnes
  <2> QED
    BY <2>2, <2>3, <2>4 DEF InOrder
<1>2. OwnListsInv /\ [NextOwnLists]_ownListsVars
        => [\A t \in Tabs : ~saving[t].raced =>
              /\ WriteEntry(t) /\ ListKept => ListKept'
              /\ WriteOrder(t) => InOrder']_ownListsVars
  BY <1>1, EntryKeepsList
<1> QED
  BY OwnListsInvariant, <1>2, PTL DEF OwnListsSpec, OwnListsKept

-----------------------------------------------------------------------------
(* The tree of categories *)

LEMMA DownIs ==
  ASSUME NEW c \in Cats
  PROVE  /\ Down(c)[0] = {c}
         /\ \A n \in 1 .. MaxDepth : Down(c)[n] = Offspring(Down(c)[n - 1])
         /\ \A n \in 0 .. MaxDepth : \A d \in Down(c)[n] : d \in Cats
<1> DEFINE F == [ n \in 1 .. MaxDepth |-> [ some \in SUBSET Cats |-> Offspring(some) ] ]
<1>1. Leads(F, MaxDepth, SUBSET Cats)
  BY DEF Offspring, Children, Leads
<1>2. MaxDepth \in Nat /\ {c} \in SUBSET Cats
  BY CategoriesAssumption DEF CategoriesAssumption
<1>3. PICK g : Walked(g, MaxDepth, SUBSET Cats, F, {c})
  BY <1>1, <1>2, Walks, Zenon
<1>4. \A n \in 0 .. MaxDepth : g[n] = IF n = 0 THEN {c} ELSE Offspring(g[n - 1])
  <2> USE DEF Walked
  <2> SUFFICES ASSUME NEW n \in 0 .. MaxDepth, n # 0 PROVE g[n] = Offspring(g[n - 1])
    BY <1>3
  <2>1. n - 1 \in 0 .. MaxDepth /\ n \in 1 .. MaxDepth
    BY <1>2
  <2>2. g[n - 1] \in SUBSET Cats /\ g[n] = F[n][g[n - 1]]
    BY <1>3, <2>1
  <2>3. F[n][g[n - 1]] = Offspring(g[n - 1])
    BY <2>1, <2>2
  <2> QED
    BY <2>2, <2>3
<1>5. g = [ n \in 0 .. MaxDepth |-> IF n = 0 THEN {c} ELSE Offspring(g[n - 1]) ]
  BY <1>3, <1>4 DEF Walked
<1>6. Down(c) = CHOOSE d : d = [ n \in 0 .. MaxDepth |-> IF n = 0 THEN {c} ELSE Offspring(d[n - 1]) ]
  BY DEF Down
<1>7. Down(c) = [ n \in 0 .. MaxDepth |-> IF n = 0 THEN {c} ELSE Offspring(Down(c)[n - 1]) ]
  BY <1>5, <1>6
<1>8. \A n \in 0 .. MaxDepth : Down(c)[n] = IF n = 0 THEN {c} ELSE Offspring(Down(c)[n - 1])
  BY <1>7
<1>9. Down(c)[0] = {c} /\ \A n \in 1 .. MaxDepth : Down(c)[n] = Offspring(Down(c)[n - 1])
  BY <1>2, <1>8
<1>10. \A n \in 0 .. MaxDepth : \A d \in Down(c)[n] : d \in Cats
  BY <1>2, <1>9 DEF Offspring, Children
<1> QED
  BY <1>9, <1>10

LEMMA UpIs ==
  ASSUME CategoriesTypeOK, NEW c \in Cats \cup {NoCat}
  PROVE  /\ Up(c)[0] = {c}
         /\ \A n \in 1 .. MaxDepth : Up(c)[n] = Parents(Up(c)[n - 1])
         /\ \A n \in 0 .. MaxDepth : \A d \in Up(c)[n] : d \in Cats \cup {NoCat}
<1> DEFINE U == SUBSET (Cats \cup {NoCat})
           F == [ n \in 1 .. MaxDepth |-> [ some \in U |-> Parents(some) ] ]
<1>1. \A some : Parents(some) \subseteq Cats \cup {NoCat}
  BY DEF Parents, Live, CategoriesTypeOK, Cat
<1>2. Leads(F, MaxDepth, U)
  BY <1>1 DEF Leads
<1>3. MaxDepth \in Nat /\ {c} \in U
  BY CategoriesAssumption DEF CategoriesAssumption
<1>4. PICK g : Walked(g, MaxDepth, U, F, {c})
  BY <1>2, <1>3, Walks, Zenon
<1>5. \A n \in 0 .. MaxDepth : g[n] = IF n = 0 THEN {c} ELSE Parents(g[n - 1])
  <2> USE DEF Walked
  <2> SUFFICES ASSUME NEW n \in 0 .. MaxDepth, n # 0 PROVE g[n] = Parents(g[n - 1])
    BY <1>4
  <2>1. n - 1 \in 0 .. MaxDepth /\ n \in 1 .. MaxDepth
    BY <1>3
  <2>2. g[n - 1] \in U /\ g[n] = F[n][g[n - 1]]
    BY <1>4, <2>1
  <2>3. F[n][g[n - 1]] = Parents(g[n - 1])
    BY <2>1, <2>2
  <2> QED
    BY <2>2, <2>3
<1>6. g = [ n \in 0 .. MaxDepth |-> IF n = 0 THEN {c} ELSE Parents(g[n - 1]) ]
  BY <1>4, <1>5 DEF Walked
<1>7. Up(c) = CHOOSE u : u = [ n \in 0 .. MaxDepth |-> IF n = 0 THEN {c} ELSE Parents(u[n - 1]) ]
  BY DEF Up
<1>8. Up(c) = [ n \in 0 .. MaxDepth |-> IF n = 0 THEN {c} ELSE Parents(Up(c)[n - 1]) ]
  BY <1>6, <1>7
<1>9. \A n \in 0 .. MaxDepth : Up(c)[n] = IF n = 0 THEN {c} ELSE Parents(Up(c)[n - 1])
  BY <1>8
<1>10. Up(c)[0] = {c} /\ \A n \in 1 .. MaxDepth : Up(c)[n] = Parents(Up(c)[n - 1])
  BY <1>3, <1>9
<1>11. \A n \in 0 .. MaxDepth : \A d \in Up(c)[n] : d \in Cats \cup {NoCat}
  BY <1>1, <1>3, <1>10
<1> QED
  BY <1>10, <1>11

LEMMA BelowIs ==
  ASSUME NEW rows
  PROVE  /\ Below(rows)[0] = { c \in rows : cat[c].parent = NoCat }
         /\ \A n \in 1 .. MaxDepth :
              Below(rows)[n] = { c \in rows : cat[c].parent \in Below(rows)[n - 1] }
         /\ \A n \in 0 .. MaxDepth : \A c \in Below(rows)[n] : c \in rows
<1> DEFINE U == SUBSET rows
           F == [ n \in 1 .. MaxDepth |->
                  [ some \in U |-> { c \in rows : cat[c].parent \in some } ] ]
           z == { c \in rows : cat[c].parent \in {NoCat} }
<1>1. Leads(F, MaxDepth, U) /\ z \in U
  BY DEF Leads
<1>2. MaxDepth \in Nat
  BY CategoriesAssumption DEF CategoriesAssumption
<1>3. PICK g : Walked(g, MaxDepth, U, F, z)
  BY <1>1, <1>2, Walks, Zenon
<1>4. ASSUME NEW n \in 0 .. MaxDepth
      PROVE  g[n] = { c \in rows : cat[c].parent \in IF n = 0 THEN {NoCat} ELSE g[n - 1] }
  <2> USE DEF Walked
  <2>1. CASE n = 0
    BY <1>3, <2>1
  <2>2. CASE n # 0
    <3>1. n - 1 \in 0 .. MaxDepth
      BY <1>2, <2>2
    <3>2. g[n - 1] \in U
      BY <1>3, <3>1
    <3>3. g[n] = F[n][g[n - 1]]
      BY <1>3, <2>2
    <3> QED
      BY <2>2, <3>2, <3>3
  <2> QED
    BY <2>1, <2>2
<1>5. g = [ n \in 0 .. MaxDepth |->
              { c \in rows : cat[c].parent \in IF n = 0 THEN {NoCat} ELSE g[n - 1] } ]
  BY <1>3, <1>4 DEF Walked
<1>6. Below(rows) = CHOOSE d : d = [ n \in 0 .. MaxDepth |->
              { c \in rows : cat[c].parent \in IF n = 0 THEN {NoCat} ELSE d[n - 1] } ]
  BY DEF Below
<1>7. Below(rows) = [ n \in 0 .. MaxDepth |->
              { c \in rows : cat[c].parent \in IF n = 0 THEN {NoCat} ELSE Below(rows)[n - 1] } ]
  BY <1>5, <1>6
<1>8. \A n \in 0 .. MaxDepth :
        Below(rows)[n] = { c \in rows : cat[c].parent \in IF n = 0 THEN {NoCat} ELSE Below(rows)[n - 1] }
  BY <1>7
<1>9. \A n \in 1 .. MaxDepth :
        Below(rows)[n] = { c \in rows : cat[c].parent \in Below(rows)[n - 1] }
  BY <1>2, <1>8
<1>10. Below(rows)[0] = { c \in rows : cat[c].parent = NoCat }
  BY <1>2, <1>8
<1> QED
  BY <1>2, <1>9, <1>10

\* In a sound tree, whoever is n steps below a category lies n deeper.
LEMMA DescendantsLie ==
  ASSUME CategoriesTypeOK, Sound, NEW c \in Cats, Live(c), NEW n \in 0 .. MaxDepth,
         NEW d \in Down(c)[n]
  PROVE  Live(d) /\ cat[d].depth = cat[c].depth + n
<1> DEFINE T == { k \in 0 .. MaxDepth :
                    \A x \in Down(c)[k] : Live(x) /\ cat[x].depth = cat[c].depth + k }
<1>1. MaxDepth \in Nat /\ NoCat \notin Cats
  BY CategoriesAssumption DEF CategoriesAssumption
<1>2. 0 \in T
  BY <1>1, DownIs DEF CategoriesTypeOK, Cat
<1>3. ASSUME NEW k \in 1 .. MaxDepth, k - 1 \in T PROVE k \in T
  <2> SUFFICES ASSUME NEW x \in Down(c)[k] PROVE Live(x) /\ cat[x].depth = cat[c].depth + k
    BY <1>1
  <2>1. x \in Offspring(Down(c)[k - 1]) /\ Down(c)[k - 1] \subseteq Cats
    BY <1>1, DownIs
  <2>2. Live(x) /\ x \in Cats /\ cat[x].parent \in Down(c)[k - 1]
    BY <2>1 DEF Offspring, Children
  <2>3. cat[x].depth = cat[cat[x].parent].depth + 1
    BY <1>1, <2>1, <2>2 DEF Sound, Placed
  <2> QED
    BY <1>1, <1>3, <2>2, <2>3 DEF CategoriesTypeOK, Cat
<1> HIDE DEF T
<1>4. n \in T
  BY <1>1, <1>2, <1>3, StepByStep
<1> QED
  BY <1>4 DEF T

\* Whoever is above the one below is that one's descendant's ancestor: climbing from a
\* descendant passes the category the descent began at.
LEMMA ClimbMeets ==
  ASSUME CategoriesTypeOK, NEW c \in Cats, NEW n \in 0 .. MaxDepth, NEW d \in Down(c)[n]
  PROVE  c \in Above(d)
<1> DEFINE T == { k \in 0 .. n : \E x \in Down(c)[n - k] : x \in Up(d)[k] }
<1>1. MaxDepth \in Nat /\ d \in Cats /\ n \in Nat
  BY DownIs, CategoriesAssumption DEF CategoriesAssumption
<1>2. 0 \in T
  BY <1>1, UpIs
<1>3. ASSUME NEW k \in 1 .. n, k - 1 \in T PROVE k \in T
  <2>1. PICK x \in Down(c)[n - (k - 1)] : x \in Up(d)[k - 1]
    BY <1>3
  <2>2. n - (k - 1) \in 0 .. MaxDepth /\ n - (k - 1) # 0 /\ (n - (k - 1)) - 1 = n - k
    BY <1>1
  <2>3. x \in Offspring(Down(c)[n - k])
    BY <2>1, <2>2, DownIs
  <2>4. Live(x) /\ cat[x].parent \in Down(c)[n - k]
    BY <2>3 DEF Offspring, Children
  <2>5. k \in 0 .. MaxDepth /\ k # 0
    BY <1>1
  <2>6. Up(d)[k] = Parents(Up(d)[k - 1])
    BY <1>1, <2>5, UpIs
  <2>7. cat[x].parent \in Up(d)[k]
    BY <2>1, <2>4, <2>6 DEF Parents
  <2> QED
    BY <2>4, <2>7
<1>4. n \in T
  <2> HIDE DEF T
  <2> QED
    BY <1>1, <1>2, <1>3, StepByStep
<1>5. PICK x \in Down(c)[0] : x \in Up(d)[n]
  BY <1>1, <1>4
<1>6. x = c
  BY <1>1, <1>5, DownIs
<1> QED
  BY <1>5, <1>6 DEF Above

\* subtreeMaxDepth: nobody lies further below a category than its height.
LEMMA HeightBounds ==
  ASSUME NEW c \in Cats
  PROVE  /\ Height(c) \in 0 .. MaxDepth
         /\ \A n \in 0 .. MaxDepth : Down(c)[n] # {} => n <= Height(c)
<1> DEFINE T == { k \in 0 .. MaxDepth : Down(c)[MaxDepth - k] # {} }
<1>1. MaxDepth \in Nat
  BY CategoriesAssumption DEF CategoriesAssumption
<1>2. MaxDepth \in T
  BY <1>1, DownIs
<1>3. PICK k \in T : \A n \in T : k <= n
  <2>1. T \subseteq Nat /\ T # {}
    BY <1>2
  <2> HIDE DEF T
  <2> QED
    BY <2>1, LeastOf
<1>4. MaxDepth - k \in 0 .. MaxDepth /\ Down(c)[MaxDepth - k] # {}
  BY <1>1
<1>5. ASSUME NEW n \in MaxDepth - k + 1 .. MaxDepth PROVE Down(c)[n] = {}
  <2>1. MaxDepth - n \in 0 .. MaxDepth /\ MaxDepth - (MaxDepth - n) = n /\ MaxDepth - n < k
    BY <1>1
  <2> QED
    BY <1>3, <2>1
<1> DEFINE Fitting(n) == Down(c)[n] # {} /\ \A i \in n + 1 .. MaxDepth : Down(c)[i] = {}
<1>6. Fitting(MaxDepth - k)
  BY <1>4, <1>5
<1>7. Height(c) = CHOOSE n \in 0 .. MaxDepth : Fitting(n)
  BY DEF Height
<1>8. Height(c) \in 0 .. MaxDepth /\ Fitting(Height(c))
  <2> HIDE DEF Fitting
  <2> QED
    BY <1>4, <1>6, <1>7
<1> QED
  BY <1>1, <1>8

-----------------------------------------------------------------------------
\* What a request has found is still so when it writes, unless another wrote in between.
Found(e) ==
  /\ IF e.op = "create" THEN cat[e.of].state = "new" ELSE Live(e.of)
  /\ e.was = cat[e.of].depth
  /\ e.step = "checked" => Allowed(e) /\ e.depth = DepthUnder(e.to)
EditsInv ==
  \A a \in Admins :
    /\ edit[a].step # "idle" => edit[a].op # "none" /\ edit[a].of \in Cats
    /\ edit[a].step \in {"begun", "checked"} /\ ~edit[a].raced => Sound /\ Found(edit[a])

\* A copy no edit came after is the tree as it is.
Tree == Built({ c \in Cats : Shown(c) })
CopiesInv ==
  /\ visit.filled /\ ~visit.raced => visit.tree = Tree
  /\ (treeCache.filled /\ ~treeCache.raced /\ \A a \in Admins : edit[a].step # "written")
     => treeCache.tree = Tree

CategoriesInv == CategoriesTypeOK /\ EditsInv /\ CopiesInv

LEMMA FoundStays ==
  ASSUME UNCHANGED cat, NEW e
  PROVE  (Found(e))' = Found(e)
BY DEF Found, Live, Allowed, Fits, DepthUnder, Children, Above, Height, Up, Down, Parents, Offspring

LEMMA BuiltType ==
  ASSUME NEW rows PROVE Built(rows) \subseteq rows
BY BelowIs DEF Built

LEMMA CategoriesStart == InitCategories => CategoriesInv
<1> SUFFICES ASSUME InitCategories PROVE CategoriesInv
  OBVIOUS
<1> USE CategoriesAssumption DEF CategoriesAssumption
<1> DEFINE Planting(c) == CHOOSE j \in DOMAIN Planted : Planted[j] = c
<1>1. ASSUME NEW i \in DOMAIN Planted
      PROVE  i \in Nat /\ (IF i = 1 THEN NoCat ELSE Planted[i - 1]) \in Cats \cup {NoCat}
  <2>1. Planted \in [1 .. Len(Planted) -> Cats] /\ Len(Planted) \in Nat
    OBVIOUS
  <2> QED
    BY <2>1
<1>2. ASSUME NEW c \in Cats PROVE cat[c] \in Cat
  <2>1. CASE \E i \in DOMAIN Planted : Planted[i] = c
    <3>1. Planting(c) \in DOMAIN Planted
      BY <2>1
    <3>2. cat[c] = [ state |-> "live", depth |-> Planting(c), active |-> TRUE,
                     parent |-> IF Planting(c) = 1 THEN NoCat ELSE Planted[Planting(c) - 1] ]
      BY <2>1 DEF InitCategories, NewCat
    <3> HIDE DEF Planting
    <3> QED
      BY <1>1, <3>1, <3>2 DEF Cat
  <2>2. CASE ~ \E i \in DOMAIN Planted : Planted[i] = c
    <3>1. cat[c] = [ state |-> "new", parent |-> NoCat, depth |-> 0, active |-> TRUE ]
      BY <2>2 DEF InitCategories, NewCat
    <3> QED
      BY <3>1 DEF Cat
  <2> QED
    BY <2>1, <2>2
<1>4. CategoriesTypeOK
  <2>1. cat \in [Cats -> Cat]
    BY <1>2 DEF InitCategories
  <2>2. NoEdit \in Edit
    BY DEF NoEdit, Edit
  <2>3. NoCopy \in Copy
    BY DEF NoCopy, Copy
  <2>4. /\ edit = [a \in Admins |-> NoEdit] /\ edits = 0
        /\ visit = NoCopy /\ treeCache = NoCopy
    BY DEF InitCategories
  <2>5. edit \in [Admins -> Edit] /\ edits \in 0 .. MaxEdits
    BY <2>2, <2>4
  <2> QED
    BY <2>1, <2>3, <2>4, <2>5 DEF CategoriesTypeOK
<1>3. EditsInv /\ CopiesInv
  BY DEF InitCategories, EditsInv, CopiesInv, NoEdit, NoCopy
<1> QED
  BY <1>3, <1>4 DEF CategoriesInv

\* An edit begun, checked or abandoned changes no row.
LEMMA BeginEditKeeps ==
  ASSUME CategoriesInv, NEW a \in Admins, NEW c \in Cats, NEW to \in Cats \cup {NoCat},
         NEW op \in {"create", "reparent", "toggle", "remove"}, BeginEdit(a, op, c, to)
  PROVE  CategoriesInv'
<1> USE DEF CategoriesInv, CategoriesTypeOK
<1>1. /\ edit' = [edit EXCEPT ![a] = [ NoEdit EXCEPT !.op = op, !.step = "begun", !.of = c,
                                                     !.to = to, !.was = cat[c].depth ]]
      /\ Sound /\ edits' = edits + 1 /\ edits < MaxEdits /\ UNCHANGED <<cat, visit, treeCache>>
      /\ IF op = "create" THEN cat[c].state = "new" ELSE Live(c)
  BY DEF BeginEdit
<1>2. CategoriesTypeOK'
  <2>1. edit'[a] = [ op |-> op, step |-> "begun", of |-> c, to |-> to, was |-> cat[c].depth,
                     depth |-> 0, raced |-> FALSE ]
    BY <1>1 DEF NoEdit
  <2>4. cat[c].depth \in Int
    BY DEF Cat
  <2>5. edit'[a] \in Edit
    BY <2>1, <2>4 DEF Edit
  <2>2. edits' \in 0 .. MaxEdits
    BY <1>1, CategoriesAssumption DEF CategoriesAssumption
  <2>3. edit' \in [Admins -> Edit]
    BY <1>1, <2>5
  <2> QED
    BY <1>1, <2>2, <2>3
<1>3. EditsInv'
  <2> SUFFICES ASSUME NEW b \in Admins
               PROVE  /\ edit'[b].step # "idle" => edit'[b].op # "none" /\ edit'[b].of \in Cats
                      /\ edit'[b].step \in {"begun", "checked"} /\ ~edit'[b].raced => Sound' /\ (Found(edit[b]))'
    BY DEF EditsInv
  <2>1. Sound'
    BY <1>1 DEF Sound, Live, Placed
  <2>2. CASE b = a
    BY <1>1, <2>1, <2>2 DEF Found, Live, NoEdit
  <2>3. CASE b # a
    <3>1. edit'[b] = edit[b]
      BY <1>1, <2>3
    <3>2. \A e : (Found(e))' = Found(e)
      BY <1>1, FoundStays
    <3> QED
      BY <2>1, <3>1, <3>2 DEF EditsInv
  <2> QED
    BY <2>2, <2>3
<1>4. CopiesInv'
  <2>1. Tree' = Tree
    BY <1>1 DEF Tree, Built, Below, Shown, Live
  <2>2. \A b \in Admins : edit'[b].step # "written" => b = a \/ edit[b].step # "written"
    BY <1>1
  <2>3. edit[a].step # "written"
    BY DEF BeginEdit
  <2> QED
    BY <1>1, <2>1, <2>2, <2>3 DEF CopiesInv
<1> QED
  BY <1>2, <1>3, <1>4

LEMMA TreeStays ==
  ASSUME UNCHANGED cat
  PROVE  Tree' = Tree /\ (Sound' <=> Sound)
BY DEF Tree, Built, Below, Shown, Live, Sound, Placed

LEMMA CheckEditKeeps ==
  ASSUME CategoriesInv, NEW a \in Admins, CheckEdit(a)
  PROVE  CategoriesInv'
<1> USE DEF CategoriesInv, CategoriesTypeOK
<1> DEFINE e == edit[a]
<1>1. /\ e.step = "begun" /\ UNCHANGED <<cat, edits, visit, treeCache>>
      /\ edit' = [edit EXCEPT ![a] =
           IF Allowed(e) THEN [ e EXCEPT !.step = "checked", !.depth = DepthUnder(e.to) ] ELSE NoEdit]
  BY DEF CheckEdit
<1>2. e \in Edit /\ e.op # "none" /\ e.of \in Cats
  BY <1>1 DEF EditsInv
<1>3. DepthUnder(e.to) \in Int
  <2>1. e.to \in Cats \cup {NoCat}
    BY <1>2 DEF Edit
  <2> QED
    BY <2>1 DEF DepthUnder, Cat
<1>4. edit'[a] = IF Allowed(e) THEN [ e EXCEPT !.step = "checked", !.depth = DepthUnder(e.to) ] ELSE NoEdit
  BY <1>1
<1>5. CategoriesTypeOK'
  <2>1. edit'[a] \in Edit
    <3>1. NoEdit \in Edit
      BY DEF NoEdit, Edit
    <3>2. [ e EXCEPT !.step = "checked", !.depth = DepthUnder(e.to) ] \in Edit
      BY <1>2, <1>3 DEF Edit
    <3> QED
      BY <1>4, <3>1, <3>2
  <2>2. edit' \in [Admins -> Edit]
    BY <1>1, <2>1
  <2> QED
    BY <1>1, <2>2
<1>6. EditsInv'
  <2> SUFFICES ASSUME NEW b \in Admins
               PROVE  /\ edit'[b].step # "idle" => edit'[b].op # "none" /\ edit'[b].of \in Cats
                      /\ edit'[b].step \in {"begun", "checked"} /\ ~edit'[b].raced
                         => Sound' /\ (Found(edit[b]))'
    BY DEF EditsInv
  <2>1. Sound' <=> Sound
    BY <1>1, TreeStays
  <2>2. \A x : (Found(x))' = Found(x)
    BY <1>1, FoundStays
  <2>3. CASE b # a
    <3>1. edit'[b] = edit[b]
      BY <1>1, <2>3
    <3> QED
      BY <2>1, <2>2, <3>1 DEF EditsInv
  <2>4. CASE b = a /\ ~Allowed(e)
    BY <1>4, <2>4 DEF NoEdit
  <2>5. CASE b = a /\ Allowed(e)
    <3> DEFINE x == [ e EXCEPT !.step = "checked", !.depth = DepthUnder(e.to) ]
    <3>1. edit'[b] = x
      BY <1>4, <2>5
    <3>2. /\ x.op = e.op /\ x.of = e.of /\ x.to = e.to /\ x.was = e.was /\ x.raced = e.raced
          /\ x.step = "checked" /\ x.depth = DepthUnder(x.to)
      BY <1>2 DEF Edit
    <3>3. Allowed(x)
      BY <2>5, <3>2 DEF Allowed, Fits
    <3>4. ~e.raced => Sound /\ Found(e)
      BY <1>1 DEF EditsInv
    <3>5. ~x.raced => Found(x)
      BY <3>2, <3>3, <3>4 DEF Found
    <3> HIDE DEF x, e
    <3> QED
      BY <1>2, <2>1, <2>2, <3>1, <3>2, <3>4, <3>5
  <2> QED
    BY <2>3, <2>4, <2>5
<1>7. CopiesInv'
  <2>1. Tree' = Tree
    BY <1>1, TreeStays
  <2>2. \A b \in Admins : edit'[b].step # "written" => b = a \/ edit[b].step # "written"
    BY <1>1
  <2> QED
    BY <1>1, <2>1, <2>2 DEF CopiesInv
<1> QED
  BY <1>5, <1>6, <1>7

\* Dropping the copy, reading the tree, keeping it and letting it expire change no row and
\* begin no edit.
LEMMA InvalidateKeeps ==
  ASSUME CategoriesInv, NEW a \in Admins, InvalidateTreeCache(a)
  PROVE  CategoriesInv'
<1> USE DEF CategoriesInv, CategoriesTypeOK
<1>1. /\ treeCache' = NoCopy /\ edit' = [edit EXCEPT ![a] = NoEdit]
      /\ UNCHANGED <<cat, edits, visit>>
  BY DEF InvalidateTreeCache, Invalidated
<1>2. CategoriesTypeOK'
  BY <1>1 DEF NoCopy, Copy, NoEdit, Edit
<1>3. EditsInv'
  <2>1. (Sound' <=> Sound) /\ \A x : (Found(x))' = Found(x)
    BY <1>1, TreeStays, FoundStays
  <2>2. \A b \in Admins : edit'[b] = IF b = a THEN NoEdit ELSE edit[b]
    BY <1>1
  <2> QED
    BY <2>1, <2>2 DEF EditsInv, NoEdit
<1>4. CopiesInv'
  BY <1>1, TreeStays DEF CopiesInv, NoCopy
<1> QED
  BY <1>2, <1>3, <1>4

LEMMA CachingKeeps ==
  ASSUME CategoriesInv, ReadTree \/ FillCache \/ ExpireCache
  PROVE  CategoriesInv'
<1> USE DEF CategoriesInv, CategoriesTypeOK
<1>1. UNCHANGED <<cat, edit, edits>>
  BY DEF ReadTree, FillCache, ExpireCache
<1>2. Tree' = Tree /\ (Sound' <=> Sound) /\ \A x : (Found(x))' = Found(x)
  BY <1>1, TreeStays, FoundStays
<1>3. EditsInv'
  BY <1>1, <1>2 DEF EditsInv
<1>4. CASE ReadTree
  <2>1. visit' = [ filled |-> TRUE, tree |-> Tree, raced |-> FALSE ] /\ treeCache' = treeCache
    BY <1>4 DEF ReadTree, Tree
  <2>2. Tree \subseteq Cats
    BY BuiltType DEF Tree
  <2>3. visit' \in Copy
    BY <2>1, <2>2 DEF Copy
  <2>4. CopiesInv'
    BY <1>1, <1>2, <2>1 DEF CopiesInv
  <2> QED
    BY <1>1, <1>3, <2>1, <2>3, <2>4
<1>5. CASE FillCache
  <2>1. treeCache' = visit /\ visit' = NoCopy
    BY <1>5 DEF FillCache
  <2>2. CopiesInv'
    BY <1>2, <2>1 DEF CopiesInv, NoCopy
  <2>3. visit' \in Copy
    BY <2>1 DEF NoCopy, Copy
  <2> QED
    BY <1>1, <1>3, <2>1, <2>2, <2>3
<1>6. CASE ExpireCache
  <2>1. treeCache' = NoCopy /\ visit' = visit
    BY <1>6 DEF ExpireCache
  <2>2. CopiesInv'
    BY <1>2, <2>1 DEF CopiesInv, NoCopy
  <2>3. treeCache' \in Copy
    BY <2>1 DEF NoCopy, Copy
  <2> QED
    BY <1>1, <1>3, <2>1, <2>2, <2>3
<1> QED
  BY <1>4, <1>5, <1>6

-----------------------------------------------------------------------------
\* What a write leaves of the tree.

LEMMA RowsAfter ==
  ASSUME CategoriesInv, NEW a \in Admins, WriteEdit(a), NEW c \in Cats
  PROVE  /\ cat'[c] = RowAfter(edit[a], c) /\ cat'[c] \in Cat
         /\ edit[a].op = "reparent" => cat'[c].state = cat[c].state
<1> USE DEF CategoriesInv, CategoriesTypeOK
<1> DEFINE e == edit[a]
<1>1. cat'[c] = RowAfter(e, c)
  BY DEF WriteEdit
<1>2. e \in Edit /\ e.op # "none" /\ e.op \in {"create", "reparent", "toggle", "remove"}
  BY DEF EditsInv, WriteEdit, Edit
<1>3. cat[c] \in Cat /\ e.depth \in Int /\ e.was \in Int /\ e.to \in Cats \cup {NoCat}
  BY <1>2 DEF Edit
<1>4. Shifted(e, c) \in Int
  BY <1>3 DEF Shifted, Cat
<1> HIDE DEF e
<1>5. CASE e.op = "reparent" /\ c = e.of
  <2>1. cat'[c] = [ cat[c] EXCEPT !.parent = e.to, !.depth = e.depth ]
    BY <1>1, <1>5 DEF RowAfter
  <2> QED
    BY <1>1, <1>3, <2>1 DEF Cat, e
<1>6. CASE e.op = "reparent" /\ c # e.of
  <2>1. cat'[c] = [ cat[c] EXCEPT !.depth = Shifted(e, c) ]
    BY <1>1, <1>6 DEF RowAfter
  <2> QED
    BY <1>1, <1>3, <1>4, <2>1 DEF Cat, e
<1>7. CASE e.op # "reparent" /\ c # e.of
  BY <1>1, <1>3, <1>7 DEF RowAfter, e
<1>8. CASE e.op = "create" /\ c = e.of
  <2>1. cat'[c] = [ NewCat EXCEPT !.state = "live", !.parent = e.to, !.depth = e.depth ]
    BY <1>1, <1>8 DEF RowAfter
  <2>2. cat'[c] = [ state |-> "live", parent |-> e.to, depth |-> e.depth, active |-> TRUE ]
    BY <2>1 DEF NewCat
  <2>3. cat'[c] \in Cat
    BY <1>3, <2>2 DEF Cat
  <2> QED
    BY <1>1, <1>8, <2>3 DEF e
<1>9. CASE e.op = "toggle" /\ c = e.of
  <2>1. cat'[c] = [ cat[c] EXCEPT !.active = ~@ ]
    BY <1>1, <1>9 DEF RowAfter
  <2> QED
    BY <1>1, <1>3, <1>9, <2>1 DEF Cat, e
<1>10. CASE e.op = "remove" /\ c = e.of
  <2>1. cat'[c] = [ cat[c] EXCEPT !.state = "removed" ]
    BY <1>1, <1>10 DEF RowAfter
  <2> QED
    BY <1>1, <1>3, <1>10, <2>1 DEF Cat, e
<1> QED
  BY <1>2, <1>5, <1>6, <1>7, <1>8, <1>9, <1>10

LEMMA WriteEditKeeps ==
  ASSUME CategoriesInv, NEW a \in Admins, WriteEdit(a)
  PROVE  CategoriesInv'
<1> USE DEF CategoriesInv, CategoriesTypeOK
<1>1. /\ edit[a].step = "checked" /\ UNCHANGED <<edits, treeCache>>
      /\ edit' = [b \in Admins |->
            IF b = a THEN [ edit[a] EXCEPT !.step = "written" ]
            ELSE [ edit[b] EXCEPT !.raced = @ \/ edit[b].step \in {"begun", "checked"} ]]
      /\ visit' = [ visit EXCEPT !.raced = visit.filled ]
  BY DEF WriteEdit
<1>2. cat' \in [Cats -> Cat]
  BY RowsAfter DEF WriteEdit
<1>3. edit'[a] = [ edit[a] EXCEPT !.step = "written" ]
  BY <1>1
<1>4. ASSUME NEW b \in Admins, b # a
      PROVE  edit'[b] = [ edit[b] EXCEPT !.raced = edit[b].raced \/ edit[b].step \in {"begun", "checked"} ]
  BY <1>1, <1>4
<1>5. CategoriesTypeOK'
  <2>1. edit'[a] \in Edit
    BY <1>3 DEF Edit
  <2>2. ASSUME NEW b \in Admins, b # a PROVE edit'[b] \in Edit
    BY <1>4, <2>2 DEF Edit
  <2>3. edit' \in [Admins -> Edit]
    BY <1>1, <2>1, <2>2
  <2>4. visit' \in Copy
    BY <1>1 DEF Copy
  <2> QED
    BY <1>1, <1>2, <2>3, <2>4
<1>6. EditsInv'
  <2> SUFFICES ASSUME NEW b \in Admins
               PROVE  /\ edit'[b].step # "idle" => edit'[b].op # "none" /\ edit'[b].of \in Cats
                      /\ ~(edit'[b].step \in {"begun", "checked"} /\ ~edit'[b].raced)
    BY DEF EditsInv
  <2>1. CASE b = a
    <3>1. edit'[b].step = "written" /\ edit'[b].op = edit[a].op /\ edit'[b].of = edit[a].of
      BY <1>3, <2>1 DEF Edit
    <3> QED
      BY <1>1, <3>1 DEF EditsInv
  <2>2. CASE b # a
    <3>1. /\ edit'[b].step = edit[b].step /\ edit'[b].op = edit[b].op /\ edit'[b].of = edit[b].of
      <4>1. edit[b] \in Edit
        BY <1>1
      <4>2. edit'[b] = [ edit[b] EXCEPT !.raced = edit[b].raced \/ edit[b].step \in {"begun", "checked"} ]
        BY <1>4, <2>2
      <4> QED
        BY ONLY <4>1, <4>2, SMTT(60) DEF Edit
    <3>2. CASE edit[b].step \in {"begun", "checked"}
      <4>1. edit'[b] = [ edit[b] EXCEPT !.raced = TRUE ]
        BY <1>4, <2>2, <3>2
      <4>2. edit'[b].raced
        BY <4>1 DEF Edit
      <4> QED
        BY <3>1, <4>2 DEF EditsInv
    <3> QED
      BY <3>1, <3>2 DEF EditsInv
  <2> QED
    BY <2>1, <2>2
<1>7. CopiesInv'
  <2>1. visit'.filled = visit.filled /\ visit'.raced = visit.filled
    BY <1>1 DEF Copy
  <2>2. edit'[a].step = "written"
    BY <1>3 DEF Edit
  <2> QED
    BY <2>1, <2>2 DEF CopiesInv
<1> QED
  BY <1>5, <1>6, <1>7

LEMMA CategoriesStep == CategoriesInv /\ [NextCategories]_categoriesVars => CategoriesInv'
<1> SUFFICES ASSUME CategoriesInv, [NextCategories]_categoriesVars PROVE CategoriesInv'
  OBVIOUS
<1>1. ASSUME NEW a \in Admins, NEW c \in Cats, NEW to \in Cats \cup {NoCat},
             NEW op \in {"create", "reparent", "toggle", "remove"}, BeginEdit(a, op, c, to)
      PROVE  CategoriesInv'
  BY <1>1, BeginEditKeeps
<1>2. ASSUME NEW a \in Admins, CheckEdit(a) PROVE CategoriesInv'
  BY <1>2, CheckEditKeeps
<1>3. ASSUME NEW a \in Admins, WriteEdit(a) PROVE CategoriesInv'
  BY <1>3, WriteEditKeeps
<1>4. ASSUME NEW a \in Admins, InvalidateTreeCache(a) PROVE CategoriesInv'
  BY <1>4, InvalidateKeeps
<1>5. CASE ReadTree \/ FillCache \/ ExpireCache
  BY <1>5, CachingKeeps
<1>6. CASE UNCHANGED categoriesVars
  <2>1. UNCHANGED <<cat, edit, edits, visit, treeCache>>
    BY <1>6 DEF categoriesVars
  <2>2. Tree' = Tree /\ (Sound' <=> Sound) /\ \A x : (Found(x))' = Found(x)
    BY <2>1, TreeStays, FoundStays
  <2> QED
    BY <2>1, <2>2 DEF CategoriesInv, CategoriesTypeOK, EditsInv, CopiesInv
<1> QED
  BY <1>1, <1>2, <1>3, <1>4, <1>5, <1>6 DEF NextCategories

\* A move of a category to where assertNotDescendant, the new parent and the height of what
\* it takes along allow leaves every category one below its parent and none too deep.
LEMMA MoveKeepsSound ==
  ASSUME CategoriesInv, Sound, NEW a \in Admins, WriteEdit(a), Found(edit[a]),
         edit[a].op = "reparent"
  PROVE  Sound'
<1> USE DEF CategoriesInv, CategoriesTypeOK
<1> DEFINE e == edit[a]
           o == e.of
           up == DepthUnder(e.to)
           Moved(c) == \E n \in 1 .. MaxDepth : c \in Down(o)[n]
<1>1. /\ e \in Edit /\ o \in Cats /\ Live(o) /\ e.was = cat[o].depth /\ e.depth = up
      /\ e.to \in Cats \cup {NoCat}
      /\ e.to # NoCat => o \notin Above(e.to) /\ Live(e.to)
      /\ e.was + Height(o) + (up - e.was) <= MaxDepth
  BY DEF Found, Allowed, Fits, WriteEdit, EditsInv, Edit
<1>2. MaxDepth \in Nat /\ NoCat \notin Cats
  BY CategoriesAssumption DEF CategoriesAssumption
<1>3. \A c \in Cats : cat[c].depth \in Int
  BY DEF Cat
<1>4. Height(o) \in 0 .. MaxDepth /\ \A n \in 0 .. MaxDepth : Down(o)[n] # {} => n <= Height(o)
  BY <1>1, HeightBounds
<1>5. e.was \in Int /\ up \in Int /\ up + Height(o) <= MaxDepth /\ up >= 1
  <2>1. e.was \in Int
    BY <1>1, <1>3
  <2>2. up \in Int /\ up >= 1
    BY <1>1, <1>2, <1>3 DEF DepthUnder, Sound, Placed
  <2>3. Height(o) \in Int
    BY <1>4
  <2> HIDE DEF up
  <2> QED
    BY <1>1, <1>2, <2>1, <2>2, <2>3
<1>6. \A c \in Cats : Live(c)' <=> Live(c)
  BY RowsAfter DEF Live
<1>7. cat'[o].parent = e.to /\ cat'[o].depth = up
  <2>1. cat'[o] = RowAfter(e, o)
    BY <1>1, RowsAfter
  <2>2. cat'[o] = [ cat[o] EXCEPT !.parent = e.to, !.depth = up ]
    BY <1>1, <2>1 DEF RowAfter
  <2> QED
    BY <1>1, <2>2 DEF Cat
<1>8. ASSUME NEW c \in Cats, c # o
      PROVE  /\ cat'[c].parent = cat[c].parent
             /\ Moved(c) => cat'[c].depth = cat[c].depth + (up - e.was)
             /\ ~Moved(c) => cat'[c].depth = cat[c].depth
  <2>1. cat'[c] = [ cat[c] EXCEPT !.depth = Shifted(e, c) ]
    BY <1>8, RowsAfter DEF RowAfter
  <2>2. cat'[c].parent = cat[c].parent /\ cat'[c].depth = Shifted(e, c)
    BY <2>1 DEF Cat
  <2> QED
    BY <1>1, <2>2 DEF Shifted
\* The new parent is not taken along.
<1>9. e.to # NoCat => e.to # o /\ ~Moved(e.to) /\ cat'[e.to].depth = cat[e.to].depth
  <2> SUFFICES ASSUME e.to # NoCat PROVE e.to # o /\ ~Moved(e.to)
    BY <1>1, <1>8
  <2>1. \A n \in 0 .. MaxDepth : e.to \notin Down(o)[n]
    BY <1>1, ClimbMeets
  <2>2. 0 \in 0 .. MaxDepth /\ Down(o)[0] = {o}
    BY <1>1, <1>2, DownIs
  <2> QED
    BY <1>2, <2>1, <2>2
<1>10. \A n \in 1 .. MaxDepth : \A c \in Down(o)[n] :
         Live(c) /\ c \in Cats /\ cat[c].depth = e.was + n /\ n <= Height(o) /\ c # o
  <2> SUFFICES ASSUME NEW n \in 1 .. MaxDepth, NEW c \in Down(o)[n]
               PROVE  Live(c) /\ c \in Cats /\ cat[c].depth = e.was + n /\ n <= Height(o) /\ c # o
    OBVIOUS
  <2>1. n \in 0 .. MaxDepth
    BY <1>2
  <2>2. Live(c) /\ cat[c].depth = cat[o].depth + n
    BY <1>1, <2>1, DescendantsLie
  <2> QED
    BY <1>1, <1>3, <1>4, <2>1, <2>2 DEF Live
<1> HIDE DEF e, o, up
<1>11. ASSUME NEW c \in Cats, Live(c) PROVE Placed(c)'
  <2>1. Placed(c)
    BY <1>11 DEF Sound
  <2>2. CASE c = o
    <3>1. e.to = NoCat => up = 1
      BY DEF up, DepthUnder
    <3>2. e.to # NoCat => Live(e.to) /\ e.to \in Cats /\ up = cat[e.to].depth + 1
      BY <1>1 DEF up, DepthUnder
    <3>3. up \in 1 .. MaxDepth
      BY <1>2, <1>4, <1>5
    <3> QED
      BY <1>6, <1>7, <1>9, <2>2, <3>1, <3>2, <3>3 DEF Placed
  <2>3. CASE c # o /\ Moved(c)
    <3>1. PICK n \in 1 .. MaxDepth : c \in Down(o)[n]
      BY <2>3
    <3>2. cat'[c].depth = up + n /\ cat'[c].parent = cat[c].parent /\ n <= Height(o)
      BY <1>2, <1>5, <1>8, <1>10, <2>3, <3>1
    <3>3. c \in Offspring(Down(o)[n - 1]) /\ n - 1 \in 0 .. MaxDepth
      BY <1>1, <1>2, <3>1, DownIs
    <3> DEFINE p == cat[c].parent
    <3>4. p \in Down(o)[n - 1] /\ p \in Cats
      BY <1>1, <3>3, DownIs DEF Offspring, Children
    <3>5. p # NoCat /\ Live(p)
      BY <1>2, <2>1, <3>4 DEF Placed
    <3>6. cat'[p].depth = up + (n - 1)
      <4>1. CASE n = 1
        <5>1. p = o
          BY <1>1, <3>4, <4>1, DownIs
        <5> QED
          BY <1>5, <1>7, <4>1, <5>1
      <4>2. CASE n # 1
        <5>1. n - 1 \in 1 .. MaxDepth
          BY <1>2, <4>2
        <5>2. p # o /\ Moved(p) /\ cat[p].depth = e.was + (n - 1)
          BY <1>10, <3>4, <5>1
        <5> QED
          BY <1>2, <1>5, <1>8, <3>4, <5>1, <5>2
      <4> QED
        BY <4>1, <4>2
    <3>7. up + n \in 1 .. MaxDepth /\ up + n = (up + (n - 1)) + 1
      BY <1>2, <1>4, <1>5, <3>2
    <3> HIDE DEF p
    <3>8. cat'[c].parent = p
      BY <3>2 DEF p
    <3> QED
      BY <1>6, <3>2, <3>4, <3>5, <3>6, <3>7, <3>8 DEF Placed
  <2>4. CASE c # o /\ ~Moved(c)
    <3> DEFINE p == cat[c].parent
    <3>1. cat'[c].parent = p /\ cat'[c].depth = cat[c].depth
      BY <1>8, <2>4
    <3>2. CASE p = NoCat
      BY <2>1, <3>1, <3>2 DEF Placed
    <3>3. CASE p # NoCat
      <4>1. p \in Cats /\ Live(p) /\ cat[c].depth = cat[p].depth + 1 /\ cat[c].depth \in 1 .. MaxDepth
        BY <2>1, <3>3 DEF Placed, Live
      <4>2. \A n \in 0 .. MaxDepth - 1 : p \notin Down(o)[n]
        <5> SUFFICES ASSUME NEW n \in 0 .. MaxDepth - 1, p \in Down(o)[n] PROVE Moved(c)
          BY <2>4
        <5>1. n + 1 \in 1 .. MaxDepth /\ (n + 1) - 1 = n
          BY <1>2
        <5>2. c \in Offspring(Down(o)[n])
          BY <1>11, <4>1 DEF Offspring, Children
        <5>3. Down(o)[n + 1] = Offspring(Down(o)[(n + 1) - 1])
          BY <1>1, <5>1, DownIs
        <5>4. c \in Down(o)[n + 1]
          BY <5>1, <5>2, <5>3
        <5> QED
          BY <5>1, <5>4
      <4>3. p # o
        <5>1. MaxDepth >= 1
          BY <1>2, <4>1
        <5> QED
          BY <1>1, <1>2, <4>2, <5>1, DownIs
      <4>4. ~Moved(p)
        <5> SUFFICES ASSUME NEW n \in 1 .. MaxDepth, p \in Down(o)[n] PROVE FALSE
          OBVIOUS
        <5>1. n = MaxDepth
          BY <1>2, <4>2
        <5>2. cat[p].depth = e.was + n
          BY <1>10
        <5>3. e.was >= 1
          BY <1>1 DEF Sound, Placed
        <5> QED
          BY <1>2, <1>3, <1>5, <4>1, <5>1, <5>2, <5>3
      <4>5. cat'[p].depth = cat[p].depth
        BY <1>8, <4>1, <4>3, <4>4
      <4> HIDE DEF p
      <4> QED
        BY <1>6, <3>1, <3>3, <4>1, <4>5 DEF Placed
    <3> QED
      BY <3>2, <3>3
  <2> QED
    BY <2>2, <2>3, <2>4
<1> QED
  BY <1>6, <1>11 DEF Sound

LEMMA EditKeepsTree == CategoriesInv /\ [NextCategories]_categoriesVars => TreeKept
<1> SUFFICES ASSUME CategoriesInv, NEW a \in Admins, WriteEdit(a), ~edit[a].raced, Sound
             PROVE  Sound'
  BY DEF TreeKept
<1> USE DEF CategoriesInv, CategoriesTypeOK
<1> DEFINE e == edit[a]
<1>1. Found(e) /\ e.step = "checked" /\ e \in Edit /\ e.op # "none" /\ e.of \in Cats
  BY DEF EditsInv, WriteEdit
<1>2. \A c \in Cats : cat'[c] = RowAfter(e, c)
  BY RowsAfter
<1>3. MaxDepth \in Nat \ {0} /\ NoCat \notin Cats
  BY CategoriesAssumption DEF CategoriesAssumption
<1>4. CASE e.op = "reparent"
  BY <1>1, <1>4, MoveKeepsSound
<1>5. CASE e.op = "create"
  <2> PICK o \in Cats, t \in Cats \cup {NoCat} : o = e.of /\ t = e.to
    BY <1>1 DEF Edit
  <2>1. /\ cat[o].state = "new" /\ e.depth = DepthUnder(t)
        /\ t # NoCat => Live(t) /\ cat[t].depth < MaxDepth
    BY <1>1, <1>5 DEF Found, Allowed
  <2>2. cat'[o] = [ NewCat EXCEPT !.state = "live", !.parent = t, !.depth = e.depth ]
    BY <1>1, <1>2, <1>5 DEF RowAfter
  <2>3. cat'[o].state = "live" /\ cat'[o].parent = t /\ cat'[o].depth = e.depth
    BY <2>2 DEF NewCat
  <2>4. \A c \in Cats : c # o => cat'[c] = cat[c]
    BY <1>2, <1>5 DEF RowAfter
  <2>5. \A c \in Cats : Live(c) => c # o /\ Live(c)' /\ cat'[c] = cat[c]
    BY <2>1, <2>4 DEF Live
  <2>6. ASSUME NEW c \in Cats, Live(c)', c # o PROVE Placed(c)'
    <3>1. Live(c) /\ cat'[c] = cat[c]
      BY <2>4, <2>6 DEF Live
    <3>2. Placed(c)
      BY <3>1 DEF Sound
    <3>3. cat[c].parent # NoCat => cat[c].parent \in Cats
      BY DEF Cat
    <3> QED
      BY <2>5, <3>1, <3>2, <3>3 DEF Placed
  <2>7. Placed(o)'
    <3>1. CASE t = NoCat
      BY <1>3, <2>1, <2>3, <3>1 DEF Placed, DepthUnder
    <3>2. CASE t # NoCat
      <4>1. t \in Cats /\ Live(t) /\ Live(t)' /\ cat'[t] = cat[t]
        BY <2>1, <2>5, <3>2 DEF Live
      <4>2. cat[t].depth \in 1 .. MaxDepth
        BY <4>1 DEF Sound, Placed
      <4>3. cat'[o].depth = cat[t].depth + 1 /\ cat'[o].depth \in 1 .. MaxDepth
        BY <1>3, <2>1, <2>3, <3>2, <4>2 DEF DepthUnder
      <4> QED
        BY <2>3, <3>2, <4>1, <4>3 DEF Placed
    <3> QED
      BY <3>1, <3>2
  <2> QED
    BY <2>6, <2>7 DEF Sound
<1>6. CASE e.op = "toggle"
  <2>1. ASSUME NEW c \in Cats
        PROVE  /\ cat'[c].state = cat[c].state /\ cat'[c].parent = cat[c].parent
               /\ cat'[c].depth = cat[c].depth
    <3>1. CASE c = e.of
      <4>1. cat'[c] = [ cat[c] EXCEPT !.active = ~@ ]
        BY <1>2, <1>6, <3>1 DEF RowAfter
      <4> QED
        BY <4>1 DEF Cat
    <3>2. CASE c # e.of
      BY <1>2, <1>6, <3>2 DEF RowAfter
    <3> QED
      BY <3>1, <3>2
  <2> QED
    BY <2>1 DEF Sound, Placed, Live, Cat
<1>7. CASE e.op = "remove"
  <2>1. Children(e.of) = {}
    BY <1>1, <1>7 DEF Found, Allowed
  <2>2. cat'[e.of] = [ cat[e.of] EXCEPT !.state = "removed" ]
    BY <1>1, <1>2, <1>7 DEF RowAfter
  <2>3. cat'[e.of].state = "removed"
    BY <1>1, <2>2 DEF Cat
  <2>4. \A c \in Cats : c # e.of => cat'[c] = cat[c]
    BY <1>2, <1>7 DEF RowAfter
  <2>5. ASSUME NEW c \in Cats, Live(c)' PROVE Placed(c)'
    <3>1. c # e.of /\ Live(c) /\ cat'[c] = cat[c]
      BY <2>3, <2>4, <2>5 DEF Live
    <3>2. Placed(c) /\ cat[c].parent # e.of
      BY <2>1, <3>1 DEF Sound, Children
    <3>3. cat[c].parent # NoCat => cat[c].parent \in Cats /\ cat'[cat[c].parent] = cat[cat[c].parent]
      BY <2>4, <3>2 DEF Cat
    <3> QED
      BY <3>1, <3>2, <3>3 DEF Placed, Live
  <2> QED
    BY <2>5 DEF Sound
<1> QED
  BY <1>1, <1>4, <1>5, <1>6, <1>7 DEF Edit

-----------------------------------------------------------------------------
\* In a sound tree whoever is above a live category is live, and as much less deep as it is
\* higher.
LEMMA AncestorsLie ==
  ASSUME CategoriesTypeOK, Sound, NEW c \in Cats, Live(c), NEW n \in 0 .. MaxDepth,
         NEW d \in Up(c)[n], d # NoCat
  PROVE  d \in Cats /\ Live(d) /\ cat[d].depth = cat[c].depth - n
<1> DEFINE T == { k \in 0 .. MaxDepth :
                    \A x \in Up(c)[k] : x # NoCat => Live(x) /\ cat[x].depth = cat[c].depth - k }
<1>1. MaxDepth \in Nat /\ NoCat \notin Cats
  BY CategoriesAssumption DEF CategoriesAssumption
<1>2. 0 \in T
  <2>1. cat[c].depth \in Int
    BY DEF CategoriesTypeOK, Cat
  <2> QED
    BY <1>1, <2>1, UpIs
<1>3. ASSUME NEW k \in 1 .. MaxDepth, k - 1 \in T PROVE k \in T
  <2> SUFFICES ASSUME NEW x \in Up(c)[k], x # NoCat
               PROVE  Live(x) /\ cat[x].depth = cat[c].depth - k
    BY <1>1
  <2>1. x \in Parents(Up(c)[k - 1])
    BY UpIs
  <2>2. PICK y \in Up(c)[k - 1] : Live(y) /\ x = cat[y].parent
    BY <2>1 DEF Parents
  <2>3. y \in Cats /\ y # NoCat
    BY <1>1, <2>2 DEF Live
  <2>4. cat[y].depth = cat[c].depth - (k - 1)
    BY <1>3, <2>3
  <2>5. Live(x) /\ cat[y].depth = cat[x].depth + 1
    BY <2>2, <2>3 DEF Sound, Placed
  <2>6. cat[c].depth \in Int /\ cat[x].depth \in Int
    BY <2>5 DEF CategoriesTypeOK, Cat, Live
  <2> QED
    BY <2>4, <2>5, <2>6
<1>4. n \in T
  <2> HIDE DEF T
  <2> QED
    BY <1>1, <1>2, <1>3, StepByStep
<1> QED
  BY <1>4 DEF Live

\* What can be reached from the roots is what has every ancestor shown.
LEMMA TreeIsPages ==
  ASSUME CategoriesTypeOK, Sound
  PROVE  Tree = { c \in Cats : PageShown(c) }
<1> DEFINE rows == { c \in Cats : Shown(c) }
<1>1. MaxDepth \in Nat \ {0} /\ NoCat \notin Cats
  BY CategoriesAssumption DEF CategoriesAssumption
<1>2. ASSUME NEW c \in Tree PROVE c \in Cats /\ PageShown(c)
  <2> DEFINE T == { k \in 0 .. MaxDepth : \A d \in Up(c)[k] : d = NoCat \/ d \in Tree }
  <2>1. c \in rows /\ c \in Cats /\ Tree \subseteq rows
    BY <1>2, BuiltType DEF Tree
  <2>2. 0 \in T
    BY <1>1, <1>2, <2>1, UpIs
  <2>3. ASSUME NEW k \in 1 .. MaxDepth, k - 1 \in T PROVE k \in T
    <3> SUFFICES ASSUME NEW d \in Up(c)[k], d # NoCat PROVE d \in Tree
      BY <1>1
    <3>1. d \in Parents(Up(c)[k - 1])
      BY <2>1, UpIs
    <3>2. PICK x \in Up(c)[k - 1] : Live(x) /\ d = cat[x].parent
      BY <3>1 DEF Parents
    <3>3. x \in Tree
      BY <1>1, <2>3, <3>2 DEF Live
    <3>4. PICK n \in 0 .. MaxDepth : x \in Below(rows)[n]
      BY <3>3 DEF Tree, Built
    <3>5. n # 0
      <4> SUFFICES ASSUME n = 0 PROVE cat[x].parent = NoCat
        BY <3>2
      <4>1. x \in Below(rows)[0]
        BY <3>4
      <4> HIDE DEF rows
      <4> QED
        BY <4>1, BelowIs
    <3>6. n \in 1 .. MaxDepth /\ n - 1 \in 0 .. MaxDepth
      BY <1>1, <3>5
    <3>7. d \in Below(rows)[n - 1]
      <4> HIDE DEF rows
      <4> QED
        BY <3>2, <3>4, <3>6, BelowIs
    <3> QED
      BY <3>6, <3>7 DEF Tree, Built
  <2>4. \A k \in 0 .. MaxDepth : k \in T
    <3> HIDE DEF T
    <3> QED
      BY <1>1, <2>2, <2>3, StepByStep
  <2>5. ASSUME NEW d \in Above(c), d # NoCat PROVE Shown(d)
    <3>1. PICK k \in 0 .. MaxDepth : d \in Up(c)[k]
      BY <2>5 DEF Above
    <3>2. d \in Tree
      BY <2>4, <2>5, <3>1
    <3> QED
      BY <2>1, <3>2
  <2> QED
    BY <2>1, <2>5 DEF PageShown
<1>3. ASSUME NEW c \in Cats, PageShown(c) PROVE c \in Tree
  <2> DEFINE T == { n \in 0 .. MaxDepth :
                      \A d \in Above(c) \ {NoCat} : cat[d].depth = n + 1 => d \in Below(rows)[n] }
  <2>1. c \in Up(c)[0] /\ c \in Above(c) /\ c # NoCat /\ Live(c)
    <3>1. c \in Up(c)[0]
      BY UpIs
    <3>2. c \in Above(c)
      BY <1>1, <3>1 DEF Above
    <3> QED
      BY <1>1, <1>3, <3>1, <3>2 DEF PageShown, Shown
  <2>2. \A d \in Above(c) \ {NoCat} : d \in rows /\ Live(d) /\ d \in Cats
    BY <1>3 DEF PageShown, Shown, Live
  <2>3. 0 \in T
    <3> HIDE DEF rows
    <3> SUFFICES ASSUME NEW d \in Above(c) \ {NoCat}, cat[d].depth = 0 + 1 PROVE d \in Below(rows)[0]
      BY <1>1
    <3>1. Placed(d)
      BY <2>2 DEF Sound
    <3>2. cat[d].parent # NoCat => cat[cat[d].parent].depth >= 1 /\ cat[cat[d].parent].depth \in Int
      BY <3>1, <2>2 DEF Placed, Sound, Live
    <3>3. cat[d].parent = NoCat
      BY <3>1, <3>2 DEF Placed
    <3> QED
      BY <2>2, <3>3, BelowIs
  <2>4. ASSUME NEW n \in 1 .. MaxDepth, n - 1 \in T PROVE n \in T
    <3> HIDE DEF rows
    <3> SUFFICES ASSUME NEW d \in Above(c) \ {NoCat}, cat[d].depth = n + 1 PROVE d \in Below(rows)[n]
      BY <1>1
    <3> DEFINE p == cat[d].parent
    <3>1. Placed(d)
      BY <2>2 DEF Sound
    <3>2. p # NoCat /\ Live(p) /\ p \in Cats /\ cat[d].depth = cat[p].depth + 1 /\ cat[p].depth \in Int
      BY <1>1, <3>1 DEF Placed, Live, Sound
    <3>3. PICK k \in 0 .. MaxDepth : d \in Up(c)[k]
      BY DEF Above
    <3>4. cat[d].depth = cat[c].depth - k /\ cat[c].depth \in 1 .. MaxDepth
      BY <2>1, <3>3, AncestorsLie DEF Sound, Placed
    <3>5. k + 1 \in 1 .. MaxDepth /\ (k + 1) - 1 = k
      BY <1>1, <3>4
    <3>6. p \in Parents(Up(c)[k])
      BY <2>2, <3>3 DEF Parents
    <3>7. p \in Up(c)[k + 1]
      BY <3>5, <3>6, UpIs
    <3>8. p \in Above(c)
      BY <1>1, <3>5, <3>7 DEF Above
    <3>9. cat[p].depth = (n - 1) + 1
      BY <3>2
    <3>10. p \in Below(rows)[n - 1]
      BY <2>4, <3>2, <3>8, <3>9
    <3> QED
      BY <2>2, <3>10, BelowIs
  <2>5. \A n \in 0 .. MaxDepth : n \in T
    <3> HIDE DEF T
    <3> QED
      BY <1>1, <2>3, <2>4, StepByStep
  <2>6. cat[c].depth - 1 \in 0 .. MaxDepth /\ cat[c].depth = (cat[c].depth - 1) + 1
    BY <1>1, <2>1 DEF Sound, Placed
  <2>7. c \in Below(rows)[cat[c].depth - 1]
    BY <2>1, <2>5, <2>6
  <2> QED
    BY <2>6, <2>7 DEF Tree, Built
<1> QED
  BY <1>2, <1>3

\* CategoriesService, whatever the tree and its depth: an edit no other was written before
\* keeps it a tree, and the copy kept for visitors agrees with the pages they can open.
THEOREM TreeStaysSound == CategoriesSpec => CategoriesKept
<1>1. CategoriesInv /\ [NextCategories]_categoriesVars => CategoriesInv'
  BY CategoriesStep
<1>2. CategoriesInv => CopyCurrent
  BY TreeIsPages DEF CategoriesInv, CopiesInv, CopyCurrent
<1>3. CategoriesInv /\ CategoriesInv' /\ [NextCategories]_categoriesVars
        => [TreeKept /\ CopyCurrent']_categoriesVars
  <2>1. CategoriesInv' => CopyCurrent'
    BY <1>2, PTL
  <2> QED
    BY <2>1, EditKeepsTree
<1> QED
  BY CategoriesStart, <1>1, <1>3, PTL DEF CategoriesSpec, CategoriesKept

-----------------------------------------------------------------------------
(* Slots *)

\* A window with an instant of its own, within the day.
Window(w) == w \in [ start : Nat, end : Nat ] /\ w.start < w.end

\* What is left of a window after the first n bookings: the pieces cover what those leave
\* free of it, and none could begin earlier or end later.
Free(w, n, t) == /\ w.start <= t /\ t < w.end
                 /\ \A i \in 1 .. n : ~(busy[i].start <= t /\ t < busy[i].end)
Covers(some, t) == \E p \in some : p.start <= t /\ t < p.end
Pieces(some, w, n) ==
  /\ \A p \in some : /\ Window(p) /\ w.start <= p.start /\ p.end <= w.end
                     /\ p.start = w.start \/ ~Free(w, n, p.start - 1)
                     /\ p.end = w.end \/ ~Free(w, n, p.end)
  /\ \A t \in Nat : Covers(some, t) <=> Free(w, n, t)

\* subtractBusy takes one booking from each piece.
LEMMA LeftIs ==
  ASSUME NEW w, Window(w), NEW i, Window(i)
  PROVE  \A p \in LeftOf(w, i) :
           /\ Window(p) /\ w.start <= p.start /\ p.end <= w.end
           /\ p.start = w.start \/ (i.start <= p.start - 1 /\ p.start - 1 < i.end)
           /\ p.end = w.end \/ (i.start <= p.end /\ p.end < i.end)
<1> DEFINE l == [ start |-> w.start, end |-> i.start ]
           r == [ start |-> i.end, end |-> w.end ]
<1>1. CASE i.end <= w.start \/ i.start >= w.end
  BY <1>1 DEF LeftOf, Window
<1>2. CASE ~(i.end <= w.start \/ i.start >= w.end)
  <2> SUFFICES ASSUME NEW p \in {l, r}, p.start < p.end
               PROVE  /\ Window(p) /\ w.start <= p.start /\ p.end <= w.end
                      /\ p.start = w.start \/ (i.start <= p.start - 1 /\ p.start - 1 < i.end)
                      /\ p.end = w.end \/ (i.start <= p.end /\ p.end < i.end)
    BY <1>2 DEF LeftOf
  <2>1. CASE p = l
    BY <1>2, <2>1 DEF Window
  <2>2. CASE p = r
    BY <1>2, <2>2 DEF Window
  <2> QED
    BY <2>1, <2>2
<1> QED
  BY <1>1, <1>2

LEMMA LeftCovers ==
  ASSUME NEW w, Window(w), NEW i, Window(i), NEW t \in Nat
  PROVE  Covers(LeftOf(w, i), t) <=> (/\ w.start <= t /\ t < w.end
                                      /\ ~(i.start <= t /\ t < i.end))
<1> DEFINE l == [ start |-> w.start, end |-> i.start ]
           r == [ start |-> i.end, end |-> w.end ]
<1>1. w.start \in Nat /\ w.end \in Nat /\ i.start \in Nat /\ i.end \in Nat /\ i.start < i.end
  BY DEF Window
<1>2. CASE i.end <= w.start \/ i.start >= w.end
  BY <1>1, <1>2 DEF LeftOf, Covers
<1>3. CASE ~(i.end <= w.start \/ i.start >= w.end)
  <2>1. LeftOf(w, i) = { p \in {l, r} : p.start < p.end }
    BY <1>3 DEF LeftOf
  <2>2. Covers({l, r}, t) <=> (w.start <= t /\ t < i.start) \/ (i.end <= t /\ t < w.end)
    BY DEF Covers
  <2>3. \A p \in {l, r} : p.start <= t /\ t < p.end => p.start < p.end
    BY <1>1
  <2>4. Covers(LeftOf(w, i), t) <=> Covers({l, r}, t)
    BY <2>1, <2>3 DEF Covers
  <2> QED
    BY <1>1, <1>3, <2>2, <2>4
<1> QED
  BY <1>2, <1>3

LEMMA BusyRows ==
  ASSUME ScheduleTypeOK
  PROVE  /\ Len(busy) \in Nat /\ DOMAIN busy = 1 .. Len(busy)
         /\ \A i \in 1 .. Len(busy) : Window(busy[i])
<1>1. busy \in Seq(Interval)
  <2>1. BusyLists \subseteq Seq(Interval) /\ <<>> \in Seq(Interval)
    BY ScheduleAssumption DEF ScheduleAssumption
  <2> QED
    BY <2>1 DEF ScheduleTypeOK
<1>2. \A i \in 1 .. Len(busy) : busy[i] \in Interval
  BY <1>1
<1>3. DayEnd \in Nat
  BY ScheduleAssumption DEF ScheduleAssumption
<1> QED
  BY <1>1, <1>2, <1>3 DEF Interval, Instant, Window

\* subtractBusy, as the loop it is.
LEMMA SubtractIs ==
  ASSUME ScheduleTypeOK, NEW w, Window(w)
  PROVE  \E left :
           /\ left[0] = {w} /\ SubtractBusy(w) = left[Len(busy)]
           /\ \A n \in 1 .. Len(busy) : left[n] = UNION { LeftOf(p, busy[n]) : p \in left[n - 1] }
<1> DEFINE U == SUBSET [ start : Nat, end : Nat ]
           m == Len(busy)
           Step(n, some) == UNION { LeftOf(p, busy[n]) : p \in some }
           F == [ n \in 1 .. m |-> [ some \in U |-> Step(n, some) ] ]
           left == CHOOSE f : f = [ n \in 0 .. m |-> IF n = 0 THEN {w} ELSE Step(n, f[n - 1]) ]
<1>1. m \in Nat /\ \A n \in 1 .. m : Window(busy[n])
  BY BusyRows
<1>2. ASSUME NEW n \in 1 .. m, NEW some \in U PROVE Step(n, some) \in U
  <2> SUFFICES ASSUME NEW p \in some, NEW q \in LeftOf(p, busy[n])
               PROVE  q \in [ start : Nat, end : Nat ]
    BY <1>2
  <2>1. p \in [ start : Nat, end : Nat ] /\ busy[n].start \in Nat /\ busy[n].end \in Nat
    BY <1>1, <1>2 DEF Window
  <2> QED
    BY <2>1 DEF LeftOf
<1>3. Leads(F, m, U)
  <2> HIDE DEF U, Step
  <2> QED
    BY <1>2 DEF Leads
<1>4. {w} \in U
  BY DEF Window
<1>5. PICK g : Walked(g, m, U, F, {w})
  <2> HIDE DEF F, U, m
  <2> QED
    BY <1>1, <1>3, <1>4, Walks, Zenon
<1>6. g = [ n \in 0 .. m |-> IF n = 0 THEN {w} ELSE Step(n, g[n - 1]) ]
  <2>1. ASSUME NEW n \in 0 .. m PROVE g[n] = IF n = 0 THEN {w} ELSE Step(n, g[n - 1])
    <3>1. CASE n = 0
      BY <1>5, <3>1 DEF Walked
    <3>2. CASE n # 0
      <4>1. n \in 1 .. m /\ n - 1 \in 0 .. m
        BY <1>1, <3>2
      <4>2. g[n - 1] \in U /\ g[n] = F[n][g[n - 1]]
        BY <1>5, <3>2, <4>1 DEF Walked
      <4> HIDE DEF U, Step
      <4> QED
        BY <3>2, <4>1, <4>2
    <3> QED
      BY <3>1, <3>2
  <2> HIDE DEF Step
  <2> QED
    BY <1>5, <2>1 DEF Walked
<1>7. left = [ n \in 0 .. m |-> IF n = 0 THEN {w} ELSE Step(n, left[n - 1]) ]
  <2> HIDE DEF Step
  <2> QED
    BY <1>6
<1>8. SubtractBusy(w) = left[m]
  BY DEF SubtractBusy
<1> HIDE DEF left
<1>9. left[0] = {w}
  BY <1>1, <1>7
<1>10. ASSUME NEW n \in 1 .. m PROVE left[n] = Step(n, left[n - 1])
  <2>1. n \in 0 .. m /\ n # 0
    BY <1>1
  <2> HIDE DEF Step
  <2> QED
    BY <1>7, <2>1
<1> QED
  BY <1>8, <1>9, <1>10

\* One more booking is taken from the pieces the others left.
LEMMA PiecesStep ==
  ASSUME ScheduleTypeOK, NEW w, Window(w), NEW n \in 1 .. Len(busy), NEW some,
         Pieces(some, w, n - 1)
  PROVE  Pieces(UNION { LeftOf(p, busy[n]) : p \in some }, w, n)
<1> DEFINE left == UNION { LeftOf(p, busy[n]) : p \in some }
           b == busy[n]
<1>1. Window(b) /\ n \in Nat /\ n - 1 \in Nat
  BY BusyRows
<1>2. w.start \in Nat /\ w.end \in Nat /\ b.start \in Nat /\ b.end \in Nat
  BY <1>1 DEF Window
<1>3. ASSUME NEW t
      PROVE  Free(w, n, t) <=> Free(w, n - 1, t) /\ ~(b.start <= t /\ t < b.end)
  <2>1. \A i \in 1 .. n : i = n \/ i \in 1 .. n - 1
    BY <1>1
  <2>2. n \in 1 .. n /\ \A i \in 1 .. n - 1 : i \in 1 .. n
    BY <1>1
  <2> QED
    BY <2>1, <2>2 DEF Free
<1>4. ASSUME NEW q \in left
      PROVE  /\ Window(q) /\ w.start <= q.start /\ q.end <= w.end
             /\ q.start = w.start \/ ~Free(w, n, q.start - 1)
             /\ q.end = w.end \/ ~Free(w, n, q.end)
  <2>1. PICK p \in some : q \in LeftOf(p, b)
    OBVIOUS
  <2>2. /\ Window(p) /\ w.start <= p.start /\ p.end <= w.end
        /\ p.start = w.start \/ ~Free(w, n - 1, p.start - 1)
        /\ p.end = w.end \/ ~Free(w, n - 1, p.end)
    BY DEF Pieces
  <2> HIDE DEF b
  <2>3. /\ Window(q) /\ p.start <= q.start /\ q.end <= p.end
        /\ q.start = p.start \/ (b.start <= q.start - 1 /\ q.start - 1 < b.end)
        /\ q.end = p.end \/ (b.start <= q.end /\ q.end < b.end)
    BY <1>1, <2>1, <2>2, LeftIs
  <2>4. /\ p.start \in Nat /\ p.end \in Nat /\ q.start \in Nat /\ q.end \in Nat
    BY <2>2, <2>3 DEF Window
  <2>5. w.start <= q.start /\ q.end <= w.end
    BY <1>2, <2>2, <2>3, <2>4
  <2>6. q.start = w.start \/ ~Free(w, n, q.start - 1)
    BY <1>3, <2>2, <2>3
  <2>7. q.end = w.end \/ ~Free(w, n, q.end)
    BY <1>3, <2>2, <2>3
  <2> QED
    BY <2>3, <2>5, <2>6, <2>7
<1>5. ASSUME NEW t \in Nat PROVE Covers(left, t) <=> Free(w, n, t)
  <2>1. Covers(left, t) <=> \E p \in some : Covers(LeftOf(p, b), t)
    BY DEF Covers
  <2>2. \A p \in some : Window(p)
    BY DEF Pieces
  <2> HIDE DEF b, left
  <2>3. \A p \in some : Covers(LeftOf(p, b), t) <=> (/\ p.start <= t /\ t < p.end
                                                  /\ ~(b.start <= t /\ t < b.end))
    BY <1>1, <2>2, LeftCovers
  <2>4. Covers(some, t) <=> Free(w, n - 1, t)
    BY DEF Pieces
  <2> QED
    BY <1>3, <2>1, <2>3, <2>4 DEF Covers
<1> HIDE DEF left
<1> QED
  BY <1>4, <1>5 DEF Pieces, left

\* subtractBusy leaves exactly the free stretches of the window.
LEMMA SubtractLeaves ==
  ASSUME ScheduleTypeOK, NEW w, Window(w)
  PROVE  Pieces(SubtractBusy(w), w, Len(busy))
<1>1. PICK left :
        /\ left[0] = {w} /\ SubtractBusy(w) = left[Len(busy)]
        /\ \A n \in 1 .. Len(busy) : left[n] = UNION { LeftOf(p, busy[n]) : p \in left[n - 1] }
  BY SubtractIs
<1> DEFINE T == { n \in 0 .. Len(busy) : Pieces(left[n], w, n) }
<1>2. Len(busy) \in Nat
  BY BusyRows
<1>3. 0 \in T
  <2>1. Pieces({w}, w, 0)
    BY DEF Pieces, Window, Covers, Free
  <2>2. Pieces(left[0], w, 0)
    BY <1>1, <2>1, Zenon
  <2> QED
    BY <1>2, <2>2
<1>4. ASSUME NEW n \in 1 .. Len(busy), n - 1 \in T PROVE n \in T
  BY <1>1, <1>2, <1>4, PiecesStep
<1>5. Len(busy) \in T
  <2>1. Len(busy) \in 0 .. Len(busy)
    BY <1>2
  <2> HIDE DEF T
  <2> QED
    BY <1>2, <1>3, <1>4, <2>1, StepByStep
<1> QED
  BY <1>1, <1>5

\* computeAvailability finds the slots of the reference.
LEMMA OffersSlots ==
  ASSUME ScheduleTypeOK, NEW w \in Interval, NEW now \in Instant, NEW d \in Nat \ {0}
  PROVE  /\ ComputeAvailability(w, now, d) = SlotsOf(w, now, d)
         /\ \A t \in ComputeAvailability(w, now, d) : t \in Nat /\ \A u \in t .. t + d - 1 : FreeAt(w, now, u)
<1> DEFINE c == ClampToNow(w, now)
<1>1. DayEnd \in Nat /\ Instant \subseteq Nat
  BY ScheduleAssumption DEF ScheduleAssumption, Instant
<1>2. /\ w \in [ start : Nat, end : Nat ] /\ w.start < w.end /\ now \in Nat /\ w.end <= DayEnd
  BY <1>1 DEF Interval, Instant
<1>3. /\ c \in [ start : Nat, end : Nat ] /\ c.end = w.end
      /\ c.start = LongerOf(w.start, now) /\ w.start <= c.start /\ now <= c.start
      /\ c.start = w.start \/ c.start = now
  BY <1>2 DEF ClampToNow, LongerOf
<1>4. ASSUME NEW t \in Int PROVE FreeAt(w, now, t) <=> Free(c, Len(busy), t)
  <2>1. w.start <= t /\ now <= t <=> c.start <= t
    BY <1>2, <1>3
  <2>2. DOMAIN busy = 1 .. Len(busy)
    BY BusyRows
  <2> HIDE DEF c
  <2> QED
    BY <1>3, <2>1, <2>2 DEF FreeAt, Free
<1> HIDE DEF c
<1>5. CASE c.start >= c.end
  <2>1. ComputeAvailability(w, now, d) = {}
    BY <1>5 DEF ComputeAvailability, c
  <2>2. \A t \in Int : ~Free(c, Len(busy), t)
    BY <1>3, <1>5 DEF Free
  <2>3. \A t \in Instant : t \in t .. t + d - 1 /\ ~FreeAt(w, now, t)
    BY <1>1, <1>4, <2>2
  <2> QED
    BY <2>1, <2>3 DEF SlotsOf
<1>6. CASE ~(c.start >= c.end)
  <2> DEFINE left == SubtractBusy(c)
  <2>1. Window(c)
    BY <1>3, <1>6 DEF Window
  <2>2. Pieces(left, c, Len(busy))
    BY <2>1, SubtractLeaves
  <2>3. ComputeAvailability(w, now, d) = UNION { Chunk(p, d) : p \in left }
    BY <1>6 DEF ComputeAvailability, c
  <2> HIDE DEF left
  <2>4. ASSUME NEW p \in left
        PROVE  /\ p.start \in Nat /\ p.end \in Nat /\ p.start < p.end /\ c.start <= p.start /\ p.end <= c.end
               /\ \A t \in p.start .. p.end - 1 : FreeAt(w, now, t)
               /\ FirstFree(w, now, p.start) /\ ~FreeAt(w, now, p.end)
    <3>1. /\ Window(p) /\ c.start <= p.start /\ p.end <= c.end
          /\ p.start = c.start \/ ~Free(c, Len(busy), p.start - 1)
          /\ p.end = c.end \/ ~Free(c, Len(busy), p.end)
      BY <2>2 DEF Pieces
    <3>2. p.start \in Nat /\ p.end \in Nat /\ p.start < p.end
      BY <3>1 DEF Window
    <3>3. ASSUME NEW t \in p.start .. p.end - 1 PROVE FreeAt(w, now, t)
      <4>1. t \in Nat /\ t \in Int /\ Covers(left, t)
        BY <3>2 DEF Covers
      <4> QED
        BY <1>4, <2>2, <4>1 DEF Pieces
    <3>4. ~Free(c, Len(busy), p.start - 1) /\ ~Free(c, Len(busy), p.end)
      BY <1>3, <3>1, <3>2 DEF Free
    <3>5. FirstFree(w, now, p.start) /\ ~FreeAt(w, now, p.end)
      BY <1>4, <3>2, <3>3, <3>4 DEF FirstFree
    <3> QED
      BY <3>1, <3>2, <3>3, <3>5
  <2>5. ASSUME NEW t \in ComputeAvailability(w, now, d)
        PROVE  t \in SlotsOf(w, now, d) /\ t \in Nat /\ \A u \in t .. t + d - 1 : FreeAt(w, now, u)
    <3>1. PICK p \in left : t \in Chunk(p, d)
      BY <2>3, <2>5
    <3>2. t \in Instant /\ t >= p.start /\ t + d <= p.end /\ (t - p.start) % d = 0
      BY <3>1 DEF Chunk
    <3>3. t \in Nat
      BY <1>1, <3>2
    <3>4. \A u \in p.start .. t + d - 1 : u \in p.start .. p.end - 1
      BY <2>4, <3>2, <3>3
    <3>5. \A u \in p.start .. t + d - 1 : FreeAt(w, now, u)
      BY <2>4, <3>4
    <3>6. \A u \in t .. t + d - 1 : FreeAt(w, now, u)
      BY <2>4, <3>2, <3>3, <3>5
    <3>7. p.start \in 0 .. t /\ \A u \in p.start .. t : FreeAt(w, now, u)
      BY <2>4, <3>2, <3>3, <3>5
    <3> QED
      BY <2>4, <3>2, <3>3, <3>6, <3>7 DEF SlotsOf
  <2>6. ASSUME NEW t \in SlotsOf(w, now, d) PROVE t \in ComputeAvailability(w, now, d)
    <3>1. t \in Instant /\ t \in Nat /\ \A u \in t .. t + d - 1 : FreeAt(w, now, u)
      BY <1>1 DEF SlotsOf
    <3>2. PICK a \in 0 .. t : /\ FirstFree(w, now, a) /\ (t - a) % d = 0
                              /\ \A u \in a .. t : FreeAt(w, now, u)
      BY DEF SlotsOf
    <3>3. a \in Nat /\ FreeAt(w, now, a) /\ (a = 0 \/ ~FreeAt(w, now, a - 1))
      BY <3>2 DEF FirstFree
    <3>4. Covers(left, a)
      BY <1>4, <2>2, <3>3 DEF Pieces
    <3>5. PICK p \in left : p.start <= a /\ a < p.end
      BY <3>4 DEF Covers
    <3>6. p.start = a
      <4> SUFFICES ASSUME p.start < a PROVE FALSE
        BY <2>4, <3>3, <3>5
      <4>1. a - 1 \in p.start .. p.end - 1 /\ a # 0
        BY <2>4, <3>3, <3>5
      <4> QED
        BY <2>4, <3>3, <4>1
    <3>7. t + d <= p.end
      <4> SUFFICES ASSUME p.end <= t + d - 1 PROVE FALSE
        BY <2>4, <3>1
      <4>1. p.end \in a .. t \/ p.end \in t .. t + d - 1
        BY <2>4, <3>1, <3>3, <3>5
      <4> QED
        BY <2>4, <3>1, <3>2, <4>1
    <3>8. t \in Chunk(p, d)
      BY <3>1, <3>2, <3>6, <3>7 DEF Chunk
    <3> QED
      BY <2>3, <3>8
  <2> QED
    BY <2>5, <2>6
<1> QED
  BY <1>5, <1>6

\* computeBusySlots: each taken slot lies within a booking.
LEMMA TakenWithin ==
  ASSUME ScheduleTypeOK, NEW w \in Interval, NEW now \in Instant, NEW d \in Nat \ {0},
         NEW b \in ComputeBusySlots(w, now, d)
  PROVE  b \in Nat /\ \E i \in DOMAIN busy : busy[i].start <= b /\ b + d <= busy[i].end
<1> DEFINE c == ClampToNow(w, now)
           Meet(i) == [ start |-> LongerOf(i.start, c.start), end |-> IF i.end < c.end THEN i.end ELSE c.end ]
<1>1. Instant \subseteq Nat
  BY ScheduleAssumption DEF ScheduleAssumption, Instant
<1>2. c.start \in Nat /\ c.end \in Nat
  BY <1>1 DEF ClampToNow, LongerOf, Interval
<1>3. PICK i \in DOMAIN busy : b \in Chunk(Meet(busy[i]), d)
  BY DEF ComputeBusySlots
<1>4. busy[i].start \in Nat /\ busy[i].end \in Nat
  BY BusyRows DEF Window
<1>5. Meet(busy[i]).start >= busy[i].start /\ Meet(busy[i]).end <= busy[i].end
      /\ Meet(busy[i]).start \in Nat /\ Meet(busy[i]).end \in Nat
  BY <1>2, <1>4 DEF LongerOf
<1>6. b \in Instant /\ b >= Meet(busy[i]).start /\ b + d <= Meet(busy[i]).end
  BY <1>3 DEF Chunk
<1> HIDE DEF Meet
<1> QED
  BY <1>1, <1>4, <1>5, <1>6

\* The week is what the last replacement asked for, unless another was committed while it
\* held rows it had found; and what a replacement not overtaken has found is the week.
ScheduleInv ==
  /\ ScheduleTypeOK
  /\ ~torn => workingDay = wanted
  /\ \A e \in Editors :
       scheduling[e].step = "deleted" /\ ~scheduling[e].raced => scheduling[e].seen = workingDay

LEMMA ScheduleStart == InitSchedule => ScheduleInv
<1> SUFFICES ASSUME InitSchedule PROVE ScheduleInv
  OBVIOUS
<1>1. NotScheduling \in Scheduling
  BY DEF Scheduling, NotScheduling
<1>2. \A e \in Editors : scheduling[e] = NotScheduling
  BY DEF InitSchedule
<1>3. scheduling \in [Editors -> Scheduling]
  BY <1>1 DEF InitSchedule
<1>4. workingDay = {} /\ wanted = {} /\ torn = FALSE /\ exception = NoException /\ busy = <<>>
  BY DEF InitSchedule
<1>5. ScheduleTypeOK
  BY <1>3, <1>4 DEF ScheduleTypeOK
<1>6. NotScheduling.step = "idle"
  BY DEF NotScheduling
<1> QED
  BY <1>2, <1>4, <1>5, <1>6 DEF ScheduleInv

LEMMA ScheduleStep == ScheduleInv /\ [NextSchedule]_scheduleVars => ScheduleInv'
<1> SUFFICES ASSUME ScheduleInv, [NextSchedule]_scheduleVars PROVE ScheduleInv'
  OBVIOUS
<1> USE DEF ScheduleInv, ScheduleTypeOK
<1>1. Weeks \subseteq SUBSET Interval /\ NotScheduling \in Scheduling
  BY ScheduleAssumption DEF ScheduleAssumption, Scheduling, NotScheduling
<1>2. ASSUME NEW e \in Editors, NEW week \in Weeks, DeleteDays(e, week) PROVE ScheduleInv'
  <2>1. /\ scheduling' = [scheduling EXCEPT ![e] =
             [ NotScheduling EXCEPT !.step = "deleted", !.week = week, !.seen = workingDay ]]
        /\ UNCHANGED <<workingDay, exception, busy, wanted, torn>>
    BY <1>2 DEF DeleteDays
  <2>2. scheduling'[e] = [ step |-> "deleted", week |-> week, seen |-> workingDay, raced |-> FALSE,
                           exception |-> NoException ]
    BY <2>1 DEF NotScheduling
  <2>3. scheduling'[e] \in Scheduling
    BY <1>1, <2>2 DEF Scheduling
  <2>4. scheduling' \in [Editors -> Scheduling]
    BY <2>1, <2>3
  <2>5. \A f \in Editors : f # e => scheduling'[f] = scheduling[f]
    BY <2>1
  <2> QED
    BY <2>1, <2>2, <2>4, <2>5
<1>3. ASSUME NEW e \in Editors, CommitDays(e) PROVE ScheduleInv'
  <2> DEFINE s == scheduling[e]
  <2>1. /\ s.step = "deleted" /\ s \in Scheduling
        /\ workingDay' = (workingDay \ s.seen) \cup s.week
        /\ wanted' = s.week /\ torn' = s.raced /\ UNCHANGED <<exception, busy>>
        /\ scheduling' = [f \in Editors |->
             IF f = e THEN NotScheduling
             ELSE [ scheduling[f] EXCEPT !.raced = scheduling[f].step = "deleted", !.seen = @ \ s.week ]]
    BY <1>3 DEF CommitDays, Deleted
  <2>2. s.seen \subseteq Interval /\ s.week \subseteq Interval /\ s.raced \in BOOLEAN
    BY <2>1 DEF Scheduling
  <2>3. ASSUME NEW f \in Editors
        PROVE  /\ scheduling'[f] \in Scheduling
               /\ scheduling'[f].step = "deleted" => scheduling'[f].raced
    <3>1. CASE f = e
      BY <1>1, <2>1, <3>1 DEF NotScheduling
    <3>2. CASE f # e
      <4>1. PICK r \in Scheduling : r = scheduling[f]
        OBVIOUS
      <4>2. scheduling'[f] = [ step |-> r.step, week |-> r.week, seen |-> r.seen \ s.week,
                               raced |-> r.step = "deleted", exception |-> r.exception ]
        BY <2>1, <3>2, <4>1 DEF Scheduling
      <4>3. r.seen \ s.week \in SUBSET Interval /\ (r.step = "deleted") \in BOOLEAN
        BY <4>1 DEF Scheduling
      <4> HIDE DEF s
      <4>4. scheduling'[f] \in Scheduling
        BY <4>1, <4>2, <4>3 DEF Scheduling
      <4>5. scheduling'[f].step = r.step /\ scheduling'[f].raced = (r.step = "deleted")
        BY <4>2
      <4>6. r.step = "deleted" => scheduling'[f].raced = TRUE
        BY <4>5
      <4> QED
        BY <4>4, <4>5, <4>6
    <3> QED
      BY <3>1, <3>2
  <2>4. ~torn' => workingDay' = wanted'
    BY <2>1
  <2>5. scheduling' \in [Editors -> Scheduling]
    BY <2>1, <2>3
  <2> HIDE DEF s
  <2>6. workingDay' \subseteq Interval /\ wanted' \subseteq Interval /\ torn' \in BOOLEAN
    BY <2>1, <2>2
  <2> QED
    BY <2>1, <2>3, <2>4, <2>5, <2>6
<1>4. ASSUME NEW e \in Editors, NEW x \in Exceptions, FindException(e, x) PROVE ScheduleInv'
  <2>1. /\ scheduling' = [scheduling EXCEPT ![e] =
             [ NotScheduling EXCEPT !.step = "absent", !.exception = x ]]
        /\ UNCHANGED <<workingDay, exception, busy, wanted, torn>>
    BY <1>4 DEF FindException
  <2>2. scheduling'[e] = [ step |-> "absent", week |-> {}, seen |-> {}, raced |-> FALSE,
                           exception |-> x ]
    BY <2>1 DEF NotScheduling
  <2>3. scheduling'[e] \in Scheduling
    BY <2>2 DEF Scheduling
  <2>4. scheduling' \in [Editors -> Scheduling]
    BY <2>1, <2>3
  <2>5. \A f \in Editors : f # e => scheduling'[f] = scheduling[f]
    BY <2>1
  <2> QED
    BY <2>1, <2>2, <2>4, <2>5
<1>5. ASSUME NEW e \in Editors, CreateException(e) PROVE ScheduleInv'
  <2>1. /\ exception' = exception \/ exception' = scheduling[e].exception
        /\ scheduling' = [scheduling EXCEPT ![e] = NotScheduling]
        /\ UNCHANGED <<workingDay, busy, wanted, torn>>
    BY <1>5 DEF CreateException
  <2>2. scheduling[e].exception \in Exceptions \cup {NoException}
    BY DEF Scheduling
  <2>3. scheduling' \in [Editors -> Scheduling] /\ NotScheduling.step = "idle"
    BY <1>1, <2>1 DEF NotScheduling
  <2>4. \A f \in Editors : scheduling'[f] = IF f = e THEN NotScheduling ELSE scheduling[f]
    BY <2>1
  <2> QED
    BY <2>1, <2>2, <2>3, <2>4
<1>6. CASE RemoveException
  BY <1>6 DEF RemoveException
<1>7. CASE Book
  BY <1>7 DEF Book
<1>8. CASE UNCHANGED scheduleVars
  BY <1>8 DEF scheduleVars
<1> QED
  BY <1>2, <1>3, <1>4, <1>5, <1>6, <1>7, <1>8 DEF NextSchedule

LEMMA ScheduleInvariant == ScheduleSpec => []ScheduleInv
BY ScheduleStart, ScheduleStep, PTL DEF ScheduleSpec

\* computeAvailability, for any hours, bookings in any order and any duration: it offers the
\* slots of its window, and computeBusySlots overlaps none of them.
THEOREM SlotsAreExact == ScheduleSpec => []SlotsExact
<1>1. ScheduleInv => SlotsExact
  <2> SUFFICES ASSUME ScheduleInv PROVE SlotsExact
    OBVIOUS
  <2>1. ~torn => WindowsFor = HoursAsked
    BY DEF ScheduleInv, WindowsFor, HoursAsked
  <2>2. WindowsFor \subseteq Interval
    BY ScheduleAssumption DEF ScheduleAssumption, ScheduleInv, ScheduleTypeOK, WindowsFor
  <2>3. ASSUME NEW w \in WindowsFor, NEW now \in Instant, NEW d \in Durations
        PROVE  /\ SlotsOf(w, now, d) = ComputeAvailability(w, now, d)
               /\ \A t \in ComputeAvailability(w, now, d), b \in ComputeBusySlots(w, now, d) :
                    t + d <= b \/ b + d <= t
    <3>1. w \in Interval /\ d \in Nat \ {0} /\ ScheduleTypeOK
      BY <2>2, ScheduleAssumption DEF ScheduleAssumption, ScheduleInv
    <3>2. ASSUME NEW t \in ComputeAvailability(w, now, d), NEW b \in ComputeBusySlots(w, now, d)
          PROVE  t + d <= b \/ b + d <= t
      <4>1. t \in Nat /\ \A u \in t .. t + d - 1 : FreeAt(w, now, u)
        BY <3>1, OffersSlots
      <4>2. PICK i \in DOMAIN busy : b \in Nat /\ busy[i].start <= b /\ b + d <= busy[i].end
        BY <3>1, TakenWithin
      <4>3. busy[i].start \in Nat /\ busy[i].end \in Nat
        BY <3>1, BusyRows DEF Window
      <4>4. \A u \in t .. t + d - 1 : ~(busy[i].start <= u /\ u < busy[i].end)
        BY <4>1 DEF FreeAt
      <4>5. CASE t <= b
        BY <3>1, <4>1, <4>2, <4>3, <4>4, <4>5
      <4>6. CASE b < t
        BY <3>1, <4>1, <4>2, <4>3, <4>4, <4>6
      <4> QED
        BY <4>1, <4>2, <4>5, <4>6
    <3> QED
      BY <3>1, <3>2, OffersSlots
  <2> QED
    BY <2>1, <2>3 DEF SlotsExact
<1> QED
  BY <1>1, ScheduleInvariant, PTL

-----------------------------------------------------------------------------
(* All of them side by side *)

\* A behaviour of the services is a behaviour of each.
LEMMA EachBehaves ==
  ServicesSpec => /\ AccountsSpec /\ CategoriesSpec /\ ChatSpec
                  /\ OwnListsSpec /\ RulingsSpec /\ ScheduleSpec /\ ListingsSpec
<1>1. InitServices => /\ InitAccounts /\ InitCategories /\ InitChat
                      /\ InitOwnLists /\ InitRulings /\ InitSchedule /\ InitListings
  BY DEF InitServices
<1>2. [NextServices]_servicesVars
      => /\ [NextAccounts]_accountVars /\ [NextCategories]_categoriesVars /\ [NextChat]_chatVars
         /\ [NextOwnLists]_ownListsVars /\ [NextRulings]_rulingsVars /\ [NextSchedule]_scheduleVars
         /\ [NextListings]_listingsVars
  BY DEF NextServices, servicesVars
<1> QED
  BY <1>1, <1>2, PTL DEF ServicesSpec, AccountsSpec, CategoriesSpec, ChatSpec, OwnListsSpec,
     RulingsSpec, ScheduleSpec, ListingsSpec

\* Whatever the part that moves, its rows, requests and processes' memories keep their shape.
THEOREM ServicesTypes == ServicesSpec => []ServicesTypeOK
<1>1. InitServices => part \in Parts
  BY DEF InitServices
<1>2. part \in Parts /\ [NextServices]_servicesVars => (part \in Parts)'
  BY DEF NextServices, servicesVars
<1>3. CategoriesInv /\ [NextCategories]_categoriesVars => CategoriesInv'
  BY CategoriesStep
<1>4. CategoriesSpec => []CategoriesInv
  BY CategoriesStart, <1>3, PTL DEF CategoriesSpec
<1>5. /\ part \in Parts /\ AccountsTypeOK /\ CategoriesInv /\ ChatInv
      /\ OwnListsInv /\ RulingsInv /\ ScheduleInv /\ ListingsInv
      => ServicesTypeOK
  BY DEF Parts, ServicesTypeOK, CategoriesInv, ChatInv, OwnListsInv, RulingsInv, ScheduleInv,
         ListingsInv
<1> QED
  BY <1>1, <1>2, <1>4, <1>5, EachBehaves, AccountsTypes, ChatInvariant, OwnListsInvariant,
     RulingsInvariant, ScheduleInvariant, ListingsSafe, PTL DEF ServicesSpec

\* What each service promises alone it promises beside the others.
THEOREM ServicesSafe ==
  ServicesSpec => /\ [](LinkServesOnce /\ LinksSuperseded /\ SlotsExact)
                  /\ [](WalkComplete /\ RepeatsExplained)
                  /\ FamiliesImplemented /\ ClosedStaysClosed
                  /\ CategoriesKept /\ NothingMissed /\ OwnListsKept
                  /\ VerdictStands /\ ApprovalLawful
BY EachBehaves, ServedOnce, OneLinkPerIssuer, SlotsAreExact, SessionsAreFamilies, ClosedForGood,
   TreeStaysSound, ReadToTheEnd, ListsKept, LastWord, LawfulApproval,
   WalkShowsAll, RepeatsHaveCause, PTL
=============================================================================
