---------------------------- MODULE ListingsProofs ----------------------------
(***************************************************************************)
(* Proofs about the lists read by page number.                             *)
(***************************************************************************)
EXTENDS Listings, FiniteSetTheorems, TLAPS

-----------------------------------------------------------------------------
(* Sets of rows, and the arithmetic of pages *)

\* A set of rows has a size, and one within another is no larger.
LEMMA RowSets ==
  ASSUME NEW S \in SUBSET Rows
  PROVE  /\ IsFiniteSet(S) /\ Cardinality(S) \in Nat
         /\ \A T \in SUBSET S : Cardinality(T) <= Cardinality(S)
<1>1. IsFiniteSet(S)
  BY FS_Subset, ListingsAssumption DEF ListingsAssumption
<1>2. Cardinality(S) \in Nat
  BY <1>1, FS_CardinalityType
<1>3. \A T \in SUBSET S : Cardinality(T) <= Cardinality(S)
  BY <1>1, FS_Subset
<1> QED
  BY <1>1, <1>2, <1>3

LEMMA SmallerRank ==
  ASSUME NEW S \in SUBSET Rows, NEW T \in SUBSET S, NEW x \in S \ T
  PROVE  Cardinality(T) < Cardinality(S)
<1>1. T \subseteq S \ {x} /\ S \ {x} \in SUBSET Rows
  OBVIOUS
<1>2. Cardinality(T) <= Cardinality(S \ {x}) /\ Cardinality(T) \in Nat
  BY <1>1, RowSets
<1>3. IsFiniteSet(S) /\ Cardinality(S) \in Nat
  BY RowSets
<1>4. Cardinality(S \ {x}) = Cardinality(S) - 1
  BY <1>3, FS_RemoveElement
<1> QED
  BY <1>2, <1>3, <1>4

\* The next page begins where this one ends.
LEMMA NextSkip ==
  ASSUME NEW p \in Nat \ {0}, NEW l \in Nat \ {0}
  PROVE  (p + 1 - 1) * l = (p - 1) * l + l /\ (p - 1) * l \in Nat
OBVIOUS

\* A total beyond this page's end makes another page.
LEMMA Ceiling ==
  ASSUME NEW p \in Nat \ {0}, NEW l \in Nat \ {0}, NEW t \in Nat, t > (p - 1) * l + l
  PROVE  p < (t + l - 1) \div l
OBVIOUS

-----------------------------------------------------------------------------
(* Rows ahead of a row *)

LEMMA RankType ==
  ASSUME ListingsTypeOK, NEW r \in Rows
  PROVE  Ahead(r) \in SUBSET Rows /\ Rank(r) \in Nat
<1>1. Ahead(r) \in SUBSET Rows
  BY DEF ListingsTypeOK, Ahead
<1> QED
  BY <1>1, RowSets DEF Rank

\* A row alone with its key comes where the rows ahead of it put it, whatever the tie.
LEMMA PlaceIsRank ==
  ASSUME ListingsTypeOK, NEW r \in present, Twins(r) = {}, NEW tie \in Ties
  PROVE  Place(r, tie) = Rank(r)
<1>1. ~(tie[r] < tie[r])
  <2>1. r \in Rows /\ tie \in [Rows -> Int]
    BY ListingsAssumption DEF ListingsAssumption, ListingsTypeOK
  <2>2. tie[r] \in Int
    BY <2>1
  <2> QED
    BY <2>2
<1>2. \A q \in present : key[q] = key[r] => q = r
  BY DEF Twins
<1>3. \A q \in present :
        StandsBefore(q, r) \/ (key[q] = key[r] /\ tie[q] < tie[r]) <=> StandsBefore(q, r)
  BY <1>1, <1>2
<1>4. { q \in present : StandsBefore(q, r) \/ (key[q] = key[r] /\ tie[q] < tie[r]) } = Ahead(r)
  BY <1>3 DEF Ahead
<1> QED
  BY <1>4 DEF Place, Rank

\* The total of a list is more than the rows ahead of any of them.
LEMMA TotalBeyond ==
  ASSUME ListingsTypeOK, NEW r \in present
  PROVE  Cardinality(present) > Rank(r) /\ Cardinality(present) \in Nat
<1>1. present \in SUBSET Rows /\ Ahead(r) \in SUBSET present
  BY DEF ListingsTypeOK, Ahead
<1>2. r \in present \ Ahead(r)
  <2>1. key[r] \in Int
    BY ListingsAssumption DEF ListingsAssumption, ListingsTypeOK
  <2>2. ~StandsBefore(r, r)
    BY <2>1 DEF StandsBefore
  <2> QED
    BY <2>2 DEF Ahead
<1>3. Rank(r) < Cardinality(present)
  BY <1>1, <1>2, SmallerRank DEF Rank
<1>4. Cardinality(present) \in Nat /\ Rank(r) \in Nat
  BY <1>1, RowSets, RankType
<1> QED
  BY <1>3, <1>4

LEMMA SameList ==
  ASSUME UNCHANGED <<list, present, key>>
  PROVE  \A r : Twins(r)' = Twins(r) /\ Ahead(r)' = Ahead(r) /\ Rank(r)' = Rank(r)
BY DEF Twins, Ahead, Rank, StandsBefore

LEMMA SkipType ==
  ASSUME ListingsTypeOK
  PROVE  Skip \in Nat /\ walk.limit \in Nat \ {0}
BY NextSkip DEF ListingsTypeOK, Skip

-----------------------------------------------------------------------------
(* The caller's steps *)

LEMMA ListingsInit == InitListings => ListingsInv
<1> SUFFICES ASSUME InitListings PROVE ListingsInv
  OBVIOUS
<1>1. ListingsTypeOK
  BY ListingsAssumption DEF ListingsAssumption, InitListings, ListingsTypeOK, NoWalk, Walk
<1> QED
  BY <1>1 DEF InitListings, NoWalk, ListingsInv, OwedAlone, PushedKnown, GotBehind,
    RepeatsExplained, WalkComplete

LEMMA BeginKeeps ==
  ASSUME ListingsInv, NEW limit \in Limits, Begin(limit)
  PROVE  ListingsInv'
<1> DEFINE twins == { r \in present : Twins(r) # {} }
<1>1. ListingsTypeOK /\ limit \in Nat \ {0} /\ UNCHANGED <<list, present, key, changes>>
  BY ListingsAssumption DEF ListingsAssumption, ListingsInv, Begin
<1>2. /\ walk'.step = "asked" /\ walk'.page = 1 /\ walk'.limit = limit
      /\ walk'.pending = {"rows", "total"} /\ walk'.total = 0
      /\ walk'.got = {} /\ walk'.again = {}
      /\ walk'.owed = present \ twins /\ walk'.pushed = twins
      /\ walk' \in Walk
  BY <1>1 DEF Begin, NoWalk, Walk, ListingsTypeOK
<1>3. ListingsTypeOK'
  BY <1>1, <1>2 DEF ListingsTypeOK
<1>4. \A r : Twins(r)' = Twins(r)
  BY <1>1, SameList
<1>5. OwedAlone' /\ PushedKnown' /\ GotBehind' /\ RepeatsExplained' /\ WalkComplete'
  BY <1>1, <1>2, <1>4 DEF OwedAlone, PushedKnown, GotBehind, RepeatsExplained, WalkComplete
<1>6. OwedBeyond'
  <2>1. Skip' = 0 /\ \A r \in Rows : Rank(r)' \in Nat
    BY <1>1, <1>2, RankType, SameList DEF Skip
  <2> QED
    BY <1>1, <1>2, <2>1 DEF OwedBeyond, CountedFirst, ListingsTypeOK
<1> QED
  BY <1>2, <1>3, <1>5, <1>6 DEF ListingsInv

LEMMA FindManyKeeps ==
  ASSUME ListingsInv, NEW tie \in Ties, FindMany(tie)
  PROVE  ListingsInv'
<1>1. /\ ListingsTypeOK /\ walk.step = "asked" /\ "rows" \in walk.pending
      /\ UNCHANGED <<list, present, key, changes>>
      /\ OwedAlone /\ PushedKnown /\ GotBehind /\ RepeatsExplained /\ OwedBeyond
  BY DEF ListingsInv, FindMany
<1>2. Page(tie) \in SUBSET present /\ Skip \in Nat /\ walk.limit \in Nat \ {0}
  BY <1>1, SkipType DEF Page
<1>3. walk' = [ walk EXCEPT !.pending = @ \ {"rows"}, !.got = @ \cup Page(tie),
                            !.again = @ \cup (Page(tie) \cap walk.got) ]
  BY DEF FindMany
<1>4. /\ walk'.step = "asked" /\ walk'.page = walk.page /\ walk'.limit = walk.limit
      /\ walk'.pending = walk.pending \ {"rows"} /\ walk'.total = walk.total
      /\ walk'.got = walk.got \cup Page(tie)
      /\ walk'.again = walk.again \cup (Page(tie) \cap walk.got)
      /\ walk'.owed = walk.owed /\ walk'.pushed = walk.pushed
      /\ walk' \in Walk
  BY <1>1, <1>2, <1>3 DEF ListingsTypeOK, Walk
<1>5. ListingsTypeOK'
  BY <1>1, <1>4 DEF ListingsTypeOK
<1>6. /\ \A r : Twins(r)' = Twins(r) /\ Rank(r)' = Rank(r)
      /\ Skip' = Skip
  BY <1>1, <1>4, SameList DEF Skip
<1>7. \A r \in present \ walk.pushed :
        Twins(r) = {} /\ Place(r, tie) = Rank(r) /\ Rank(r) \in Nat
  BY <1>1, PlaceIsRank, RankType DEF PushedKnown, ListingsTypeOK
<1>8. \A r \in walk.owed : r \in present /\ Place(r, tie) = Rank(r) /\ Rank(r) \in Nat
  BY <1>1, PlaceIsRank, RankType DEF OwedAlone, ListingsTypeOK
<1>9. OwedAlone' /\ PushedKnown'
  BY <1>1, <1>4, <1>6 DEF OwedAlone, PushedKnown
<1>10. GotBehind'
  <2> SUFFICES ASSUME NEW r \in ((walk.got \cup Page(tie)) \cap present) \ walk.pushed
               PROVE  Rank(r) < Skip + walk.limit
    BY <1>1, <1>4, <1>6, <1>7 DEF GotBehind
  <2>1. CASE r \in walk.got
    BY <1>1, <2>1 DEF GotBehind
  <2>2. CASE r \in Page(tie)
    BY <1>7, <2>2 DEF Page
  <2> QED
    BY <2>1, <2>2
<1>11. RepeatsExplained'
  <2> SUFFICES ASSUME NEW r \in Page(tie) \cap walk.got, r \notin walk.pushed
               PROVE  FALSE
    BY <1>1, <1>4 DEF RepeatsExplained
  <2>1. r \in present /\ Rank(r) < Skip
    BY <1>1, <1>2 DEF GotBehind
  <2>2. Skip <= Rank(r) /\ Rank(r) \in Nat
    BY <1>7, <2>1 DEF Page
  <2> QED
    BY <1>2, <2>1, <2>2
<1>12. OwedBeyond'
  <2> SUFFICES ASSUME NEW r \in walk.owed \ (walk.got \cup Page(tie))
               PROVE  /\ Rank(r) >= Skip + walk.limit
                      /\ walk.pending \ {"rows"} = {} => walk.total > Skip + walk.limit
    BY <1>1, <1>2, <1>4, <1>6, <1>8 DEF OwedBeyond, CountedFirst
  <2>1. Rank(r) >= Skip /\ (CountedFirst => walk.total > Rank(r))
    BY <1>1 DEF OwedBeyond
  <2>2. Rank(r) >= Skip + walk.limit
    BY <1>2, <1>8, <2>1 DEF Page
  <2>3. walk.pending \ {"rows"} = {} => CountedFirst
    BY <1>1 DEF CountedFirst
  <2>4. walk.total \in Nat
    BY <1>1 DEF ListingsTypeOK, Walk
  <2> QED
    BY <1>2, <1>8, <2>1, <2>2, <2>3, <2>4
<1> QED
  BY <1>4, <1>5, <1>9, <1>10, <1>11, <1>12 DEF ListingsInv, WalkComplete

LEMMA CountKeeps ==
  ASSUME ListingsInv, Count
  PROVE  ListingsInv'
<1>1. /\ ListingsTypeOK /\ walk.step = "asked" /\ "total" \in walk.pending
      /\ UNCHANGED <<list, present, key, changes>>
      /\ OwedAlone /\ PushedKnown /\ GotBehind /\ RepeatsExplained /\ OwedBeyond
  BY DEF ListingsInv, Count
<1>2. Skip \in Nat /\ walk.limit \in Nat \ {0} /\ Cardinality(present) \in Nat
  BY <1>1, SkipType, RowSets DEF ListingsTypeOK
<1>3. walk' = [ walk EXCEPT !.pending = @ \ {"total"}, !.total = Cardinality(present) ]
  BY DEF Count
<1>4. /\ walk'.step = "asked" /\ walk'.page = walk.page /\ walk'.limit = walk.limit
      /\ walk'.pending = walk.pending \ {"total"} /\ walk'.total = Cardinality(present)
      /\ walk'.got = walk.got /\ walk'.again = walk.again
      /\ walk'.owed = walk.owed /\ walk'.pushed = walk.pushed
      /\ walk' \in Walk
  BY <1>1, <1>2, <1>3 DEF ListingsTypeOK, Walk
<1>5. ListingsTypeOK'
  BY <1>1, <1>4 DEF ListingsTypeOK
<1>6. /\ \A r : Twins(r)' = Twins(r) /\ Rank(r)' = Rank(r)
      /\ Skip' = Skip
  BY <1>1, <1>4, SameList DEF Skip
<1>7. OwedAlone' /\ PushedKnown' /\ GotBehind' /\ RepeatsExplained'
  BY <1>1, <1>4, <1>6 DEF OwedAlone, PushedKnown, GotBehind, RepeatsExplained
<1>8. OwedBeyond'
  <2> SUFFICES ASSUME NEW r \in walk.owed \ walk.got
               PROVE  /\ Rank(r) >= Skip
                      /\ "rows" \notin walk.pending => Rank(r) >= Skip + walk.limit
                      /\ Cardinality(present) > Rank(r) /\ Rank(r) \in Nat
    BY <1>1, <1>2, <1>4, <1>6 DEF OwedBeyond, CountedFirst
  <2>1. r \in present /\ r \in Rows
    BY <1>1 DEF OwedAlone, ListingsTypeOK
  <2> QED
    BY <1>1, <2>1, TotalBeyond, RankType DEF OwedBeyond
<1> QED
  BY <1>4, <1>5, <1>7, <1>8 DEF ListingsInv, WalkComplete

LEMMA AnswerKeeps ==
  ASSUME ListingsInv, Answer
  PROVE  ListingsInv'
<1>1. /\ ListingsTypeOK /\ walk.step = "asked" /\ walk.pending = {}
      /\ UNCHANGED <<list, present, key, changes>>
      /\ OwedAlone /\ PushedKnown /\ GotBehind /\ RepeatsExplained /\ OwedBeyond
  BY DEF ListingsInv, Answer
<1>2. /\ Skip \in Nat /\ walk.limit \in Nat \ {0} /\ walk.page \in Nat \ {0}
      /\ walk.total \in Nat
  BY <1>1, SkipType DEF ListingsTypeOK, Walk
<1>3. /\ walk'.limit = walk.limit /\ walk'.total = walk.total
      /\ walk'.got = walk.got /\ walk'.again = walk.again
      /\ walk'.owed = walk.owed /\ walk'.pushed = walk.pushed
      /\ walk' \in Walk /\ walk'.page \in Nat \ {0}
  <2>1. CASE HasNext
    <3>1. walk' = [ walk EXCEPT !.page = @ + 1, !.pending = {"rows", "total"} ]
      BY <2>1 DEF Answer
    <3>2. walk.page + 1 \in Nat \ {0} /\ walk \in Walk
      BY <1>1, <1>2 DEF ListingsTypeOK
    <3> QED
      BY <3>1, <3>2 DEF Walk
  <2>2. CASE ~HasNext
    <3>1. walk' = [ walk EXCEPT !.step = "done" ]
      BY <2>2 DEF Answer
    <3> QED
      BY <1>1, <1>2, <3>1 DEF ListingsTypeOK, Walk
  <2> QED
    BY <2>1, <2>2
<1>4. ListingsTypeOK'
  BY <1>1, <1>2, <1>3 DEF ListingsTypeOK
<1>5. \A r : Twins(r)' = Twins(r) /\ Rank(r)' = Rank(r)
  BY <1>1, SameList
<1>6. \A r \in present : Rank(r) \in Nat
  BY <1>1, RankType DEF ListingsTypeOK
<1>7. OwedAlone' /\ PushedKnown' /\ RepeatsExplained'
  BY <1>1, <1>3, <1>5 DEF OwedAlone, PushedKnown, RepeatsExplained
<1>8. CASE HasNext
  <2>1. walk' = [ walk EXCEPT !.page = @ + 1, !.pending = {"rows", "total"} ]
    BY <1>8 DEF Answer
  <2>2. /\ walk'.step = "asked" /\ walk'.page = walk.page + 1
        /\ walk'.pending = {"rows", "total"}
    BY <1>1, <2>1 DEF ListingsTypeOK, Walk
  <2>3. Skip' = Skip + walk.limit
    BY <1>2, <1>3, <2>2, NextSkip DEF Skip
  <2>4. GotBehind'
    BY <1>1, <1>2, <1>3, <1>5, <1>6, <2>2, <2>3 DEF GotBehind
  <2>5. OwedBeyond'
    BY <1>1, <1>2, <1>3, <1>5, <1>6, <2>2, <2>3 DEF OwedBeyond, CountedFirst
  <2> QED
    BY <1>4, <1>7, <2>2, <2>4, <2>5 DEF ListingsInv, WalkComplete
<1>9. CASE ~HasNext
  <2>1. walk' = [ walk EXCEPT !.step = "done" ]
    BY <1>9 DEF Answer
  <2>2. walk'.step = "done" /\ walk'.page = walk.page /\ walk'.pending = {}
    BY <1>1, <2>1 DEF ListingsTypeOK, Walk
  <2>3. GotBehind'
    BY <1>1, <1>3, <1>5, <2>2 DEF GotBehind, Skip
  <2>4. WalkComplete'
    <3> SUFFICES ASSUME NEW r \in walk.owed, r \notin walk.got
                 PROVE  FALSE
      BY <1>3 DEF WalkComplete
    <3>1. walk.total > Skip + walk.limit
      BY <1>1 DEF OwedBeyond
    <3>2. walk.page < TotalPages
      BY <1>2, <3>1, Ceiling DEF Skip, TotalPages
    <3> QED
      BY <1>9, <3>2 DEF HasNext
  <2> QED
    BY <1>4, <1>7, <2>2, <2>3, <2>4 DEF ListingsInv
<1> QED
  BY <1>8, <1>9

-----------------------------------------------------------------------------
(* The other requests *)

\* What a change of the list must respect: a row still owed keeps the rows ahead of it,
\* and one that no row has come in ahead of gets none.
LEMMA ChangeKeeps ==
  ASSUME ListingsInv, ListingsTypeOK', UNCHANGED list,
         \A f \in {"step", "page", "limit", "pending", "total", "got", "again"} :
           walk'[f] = walk[f],
         walk'.owed \subseteq walk.owed, walk.pushed \subseteq walk'.pushed,
         \A r \in walk'.owed :
           /\ r \in present' /\ Twins(r)' = {} /\ Ahead(r) \subseteq Ahead(r)'
           /\ CountedFirst => Ahead(r)' = Ahead(r),
         \A r \in present' \ walk'.pushed :
           r \in present /\ Twins(r)' \subseteq Twins(r) /\ Ahead(r)' \subseteq Ahead(r)
  PROVE  ListingsInv'
<1>1. /\ walk'.step = walk.step /\ walk'.page = walk.page /\ walk'.limit = walk.limit
      /\ walk'.pending = walk.pending /\ walk'.total = walk.total
      /\ walk'.got = walk.got /\ walk'.again = walk.again
      /\ Skip' = Skip
  BY DEF Skip
<1>2. /\ ListingsTypeOK /\ Skip \in Nat /\ walk.limit \in Nat \ {0}
  BY SkipType DEF ListingsInv
<1>3. \A r \in walk'.owed :
        /\ Rank(r) \in Nat /\ Rank(r)' \in Nat /\ Rank(r) <= Rank(r)'
        /\ CountedFirst => Rank(r)' = Rank(r)
  <2> SUFFICES ASSUME NEW r \in walk'.owed
               PROVE  /\ Rank(r) \in Nat /\ Rank(r)' \in Nat /\ Rank(r) <= Rank(r)'
                      /\ CountedFirst => Rank(r)' = Rank(r)
    OBVIOUS
  <2>1. Ahead(r)' \in SUBSET Rows /\ Ahead(r) \in SUBSET Ahead(r)'
    BY DEF Ahead, ListingsTypeOK
  <2>2. /\ Cardinality(Ahead(r)) <= Cardinality(Ahead(r)')
        /\ Cardinality(Ahead(r)') \in Nat /\ Cardinality(Ahead(r)) \in Nat
    BY <2>1, RowSets
  <2> QED
    BY <2>2 DEF Rank
<1>4. \A r \in present' \ walk'.pushed :
        Rank(r) \in Nat /\ Rank(r)' \in Nat /\ Rank(r)' <= Rank(r)
  <2> SUFFICES ASSUME NEW r \in present' \ walk'.pushed
               PROVE  Rank(r) \in Nat /\ Rank(r)' \in Nat /\ Rank(r)' <= Rank(r)
    OBVIOUS
  <2>1. Ahead(r) \in SUBSET Rows /\ Ahead(r)' \in SUBSET Ahead(r)
    BY <1>2 DEF Ahead, ListingsTypeOK
  <2>2. /\ Cardinality(Ahead(r)') <= Cardinality(Ahead(r))
        /\ Cardinality(Ahead(r)') \in Nat /\ Cardinality(Ahead(r)) \in Nat
    BY <2>1, RowSets
  <2> QED
    BY <2>2 DEF Rank
<1>5. OwedAlone'
  BY DEF OwedAlone
<1>6. PushedKnown'
  BY <1>1 DEF ListingsInv, PushedKnown
<1>7. RepeatsExplained'
  BY <1>1 DEF ListingsInv, RepeatsExplained
<1>8. WalkComplete'
  BY <1>1 DEF ListingsInv, WalkComplete
<1>9. GotBehind'
  <2> SUFFICES ASSUME NEW r \in (walk.got \cap present') \ walk'.pushed
               PROVE  /\ Twins(r)' = {} /\ Rank(r)' < Skip + walk.limit
                      /\ "rows" \in walk.pending => Rank(r)' < Skip
    BY <1>1 DEF GotBehind
  <2>1. /\ Twins(r) = {} /\ Rank(r) < Skip + walk.limit
        /\ "rows" \in walk.pending => Rank(r) < Skip
    BY DEF ListingsInv, GotBehind
  <2> QED
    BY <1>2, <1>4, <2>1
<1>10. walk'.step = "asked" => OwedBeyond'
  <2> SUFFICES ASSUME walk.step = "asked", NEW r \in walk'.owed \ walk.got
               PROVE  /\ Rank(r)' >= Skip
                      /\ "rows" \notin walk.pending => Rank(r)' >= Skip + walk.limit
                      /\ CountedFirst => walk.total > Rank(r)'
                      /\ walk.pending = {} => walk.total > Skip + walk.limit
    BY <1>1 DEF OwedBeyond, CountedFirst
  <2>1. /\ Rank(r) >= Skip
        /\ "rows" \notin walk.pending => Rank(r) >= Skip + walk.limit
        /\ CountedFirst => walk.total > Rank(r)
        /\ walk.pending = {} => walk.total > Skip + walk.limit
    BY DEF ListingsInv, OwedBeyond
  <2> QED
    BY <1>2, <1>3, <2>1
<1> QED
  BY <1>5, <1>6, <1>7, <1>8, <1>9, <1>10 DEF ListingsInv

LEMMA EnterKeeps ==
  ASSUME ListingsInv, NEW x \in Rows, NEW k \in Keys, Enter(x, k)
  PROVE  ListingsInv'
<1>1. /\ ListingsTypeOK /\ OwedAlone /\ x \notin present
      /\ present' = present \cup {x} /\ key' = [key EXCEPT ![x] = k]
      /\ changes' = changes + 1 /\ UNCHANGED list
      /\ walk' = [ walk EXCEPT !.owed = @ \ (Excused(x, k) \cup {x}),
                               !.pushed = @ \cup { r \in Rows : Reaches(k, r) } \cup {x} ]
  BY DEF ListingsInv, Enter, Changed
<1>2. /\ \A f \in {"step", "page", "limit", "pending", "total", "got", "again"} :
           walk'[f] = walk[f]
      /\ walk'.owed = walk.owed \ (Excused(x, k) \cup {x})
      /\ walk'.pushed = walk.pushed \cup { r \in Rows : Reaches(k, r) } \cup {x}
      /\ walk' \in Walk
  BY <1>1 DEF ListingsTypeOK, Walk
<1>3. ListingsTypeOK'
  BY <1>1, <1>2 DEF ListingsTypeOK
<1>4. /\ key'[x] = k /\ \A q \in Rows : q # x => key'[q] = key[q]
      /\ \A q \in Rows : key[q] \in Int
      /\ k \in Int
  BY <1>1, ListingsAssumption DEF ListingsTypeOK, ListingsAssumption
<1>5. \A r \in walk'.owed :
        /\ r \in present /\ r # x /\ r \in Rows /\ k # key[r] /\ Twins(r) = {}
        /\ CountedFirst => ~Reaches(k, r)
  BY <1>1, <1>2 DEF OwedAlone, Excused, ListingsTypeOK
<1>6. \A r \in walk'.owed :
        /\ r \in present' /\ Twins(r)' = {} /\ Ahead(r) \subseteq Ahead(r)'
        /\ CountedFirst => Ahead(r)' = Ahead(r)
  <2> SUFFICES ASSUME NEW r \in walk'.owed
               PROVE  /\ r \in present' /\ Twins(r)' = {} /\ Ahead(r) \subseteq Ahead(r)'
                      /\ CountedFirst => Ahead(r)' = Ahead(r)
    OBVIOUS
  <2>1. /\ r \in present /\ r # x /\ r \in Rows /\ k # key[r] /\ Twins(r) = {}
        /\ key'[r] = key[r] /\ CountedFirst => ~Reaches(k, r)
    BY <1>4, <1>5
  <2>2. Twins(r)' = {}
    BY <1>1, <1>4, <2>1 DEF Twins, ListingsTypeOK
  <2>3. \A q \in present : q \in Rows /\ q # x /\ (StandsBefore(q, r)' <=> StandsBefore(q, r))
    BY <1>1, <1>4, <2>1 DEF StandsBefore, ListingsTypeOK
  <2>4. StandsBefore(x, r)' => Reaches(k, r)
    BY <1>1, <1>4, <2>1 DEF StandsBefore, Reaches
  <2> QED
    BY <1>1, <2>1, <2>2, <2>3, <2>4 DEF Ahead
<1>7. \A r \in present' \ walk'.pushed :
        r \in present /\ Twins(r)' \subseteq Twins(r) /\ Ahead(r)' \subseteq Ahead(r)
  <2> SUFFICES ASSUME NEW r \in present' \ walk'.pushed
               PROVE  r \in present /\ Twins(r)' \subseteq Twins(r) /\ Ahead(r)' \subseteq Ahead(r)
    OBVIOUS
  <2>1. /\ r \in present /\ r # x /\ r \in Rows /\ ~Reaches(k, r) /\ key'[r] = key[r]
    BY <1>1, <1>2, <1>4 DEF ListingsTypeOK
  <2>2. k # key[r]
    BY <1>4, <2>1 DEF Reaches
  <2>3. \A q \in present : q \in Rows /\ q # x /\ (StandsBefore(q, r)' <=> StandsBefore(q, r))
    BY <1>1, <1>4, <2>1 DEF StandsBefore, ListingsTypeOK
  <2>4. ~StandsBefore(x, r)'
    BY <1>1, <1>4, <2>1 DEF StandsBefore, Reaches
  <2>5. Ahead(r)' \subseteq Ahead(r)
    BY <1>1, <2>3, <2>4 DEF Ahead
  <2>6. Twins(r)' \subseteq Twins(r)
    BY <1>1, <1>4, <2>1, <2>2, <2>3 DEF Twins
  <2> QED
    BY <2>1, <2>5, <2>6
<1> QED
  BY <1>1, <1>2, <1>3, <1>6, <1>7, ChangeKeeps

LEMMA LeaveKeeps ==
  ASSUME ListingsInv, NEW x \in Rows, Leave(x)
  PROVE  ListingsInv'
<1>1. /\ ListingsTypeOK /\ OwedAlone /\ x \in present
      /\ present' = present \ {x} /\ key' = key
      /\ changes' = changes + 1 /\ UNCHANGED list
      /\ walk' = [ walk EXCEPT !.owed = { r \in @ \ {x} : ~StandsBefore(x, r) } ]
  BY DEF ListingsInv, Leave, Changed
<1>2. /\ \A f \in {"step", "page", "limit", "pending", "total", "got", "again"} :
           walk'[f] = walk[f]
      /\ walk'.owed = { r \in walk.owed \ {x} : ~StandsBefore(x, r) }
      /\ walk'.pushed = walk.pushed
      /\ walk' \in Walk
  BY <1>1 DEF ListingsTypeOK, Walk
<1>3. ListingsTypeOK'
  BY <1>1, <1>2 DEF ListingsTypeOK
<1>4. \A q, r : StandsBefore(q, r)' <=> StandsBefore(q, r)
  BY <1>1 DEF StandsBefore
<1>5. \A r \in walk'.owed : r \in walk.owed /\ r # x /\ ~StandsBefore(x, r)
  BY <1>2
<1>6. \A r \in walk'.owed :
        /\ r \in present' /\ Twins(r)' = {} /\ Ahead(r) \subseteq Ahead(r)'
        /\ CountedFirst => Ahead(r)' = Ahead(r)
  BY <1>1, <1>4, <1>5 DEF OwedAlone, Twins, Ahead
<1>7. \A r \in present' \ walk'.pushed :
        r \in present /\ Twins(r)' \subseteq Twins(r) /\ Ahead(r)' \subseteq Ahead(r)
  BY <1>1, <1>4 DEF Twins, Ahead
<1> QED
  BY <1>1, <1>2, <1>3, <1>6, <1>7, ChangeKeeps

LEMMA MoveKeeps ==
  ASSUME ListingsInv, NEW x \in Rows, NEW k \in Keys, Move(x, k)
  PROVE  ListingsInv'
<1>1. /\ ListingsTypeOK /\ OwedAlone /\ x \in present
      /\ present' = present /\ key' = [key EXCEPT ![x] = k]
      /\ changes' = changes + 1 /\ UNCHANGED list
      /\ walk' = [ walk EXCEPT
           !.owed = { r \in @ \ (Excused(x, k) \cup {x}) : StandsBefore(x, r) => Reaches(k, r) },
           !.pushed = @ \cup { r \in Rows : Reaches(k, r) } \cup {x} ]
  BY DEF ListingsInv, Move, Changed
<1>2. /\ \A f \in {"step", "page", "limit", "pending", "total", "got", "again"} :
           walk'[f] = walk[f]
      /\ walk'.owed = { r \in walk.owed \ (Excused(x, k) \cup {x}) :
                         StandsBefore(x, r) => Reaches(k, r) }
      /\ walk'.pushed = walk.pushed \cup { r \in Rows : Reaches(k, r) } \cup {x}
      /\ walk' \in Walk
  BY <1>1 DEF ListingsTypeOK, Walk
<1>3. ListingsTypeOK'
  BY <1>1, <1>2 DEF ListingsTypeOK
<1>4. /\ key'[x] = k /\ \A q \in Rows : q # x => key'[q] = key[q]
      /\ \A q \in Rows : key[q] \in Int
      /\ k \in Int
  BY <1>1, ListingsAssumption DEF ListingsTypeOK, ListingsAssumption
<1>5. \A r \in walk'.owed :
        /\ r \in present /\ r # x /\ r \in Rows /\ k # key[r] /\ Twins(r) = {}
        /\ CountedFirst => ~Reaches(k, r)
        /\ StandsBefore(x, r) => Reaches(k, r)
  BY <1>1, <1>2 DEF OwedAlone, Excused, ListingsTypeOK
<1>6. \A r \in walk'.owed :
        /\ r \in present' /\ Twins(r)' = {} /\ Ahead(r) \subseteq Ahead(r)'
        /\ CountedFirst => Ahead(r)' = Ahead(r)
  <2> SUFFICES ASSUME NEW r \in walk'.owed
               PROVE  /\ r \in present' /\ Twins(r)' = {} /\ Ahead(r) \subseteq Ahead(r)'
                      /\ CountedFirst => Ahead(r)' = Ahead(r)
    OBVIOUS
  <2>1. /\ r \in present /\ r # x /\ r \in Rows /\ k # key[r] /\ Twins(r) = {}
        /\ key'[r] = key[r] /\ CountedFirst => ~Reaches(k, r)
        /\ StandsBefore(x, r) => Reaches(k, r)
    BY <1>4, <1>5
  <2>2. Twins(r)' = {}
    BY <1>1, <1>4, <2>1 DEF Twins, ListingsTypeOK
  <2>3. \A q \in present \ {x} : q \in Rows /\ (StandsBefore(q, r)' <=> StandsBefore(q, r))
    BY <1>1, <1>4, <2>1 DEF StandsBefore, ListingsTypeOK
  <2>4. StandsBefore(x, r)' <=> Reaches(k, r)
    BY <1>1, <1>4, <2>1 DEF StandsBefore, Reaches
  <2> QED
    BY <1>1, <2>1, <2>2, <2>3, <2>4 DEF Ahead
<1>7. \A r \in present' \ walk'.pushed :
        r \in present /\ Twins(r)' \subseteq Twins(r) /\ Ahead(r)' \subseteq Ahead(r)
  <2> SUFFICES ASSUME NEW r \in present' \ walk'.pushed
               PROVE  r \in present /\ Twins(r)' \subseteq Twins(r) /\ Ahead(r)' \subseteq Ahead(r)
    OBVIOUS
  <2>1. /\ r \in present /\ r # x /\ r \in Rows /\ ~Reaches(k, r) /\ key'[r] = key[r]
    BY <1>1, <1>2, <1>4 DEF ListingsTypeOK
  <2>2. k # key[r]
    BY <1>4, <2>1 DEF Reaches
  <2>3. \A q \in present \ {x} : q \in Rows /\ (StandsBefore(q, r)' <=> StandsBefore(q, r))
    BY <1>1, <1>4, <2>1 DEF StandsBefore, ListingsTypeOK
  <2>4. ~StandsBefore(x, r)'
    BY <1>1, <1>4, <2>1 DEF StandsBefore, Reaches
  <2>5. Ahead(r)' \subseteq Ahead(r)
    BY <1>1, <2>3, <2>4 DEF Ahead
  <2>6. Twins(r)' \subseteq Twins(r)
    BY <1>1, <1>4, <2>1, <2>2, <2>3 DEF Twins
  <2> QED
    BY <2>1, <2>5, <2>6
<1> QED
  BY <1>1, <1>2, <1>3, <1>6, <1>7, ChangeKeeps

-----------------------------------------------------------------------------
(* The theorems *)

LEMMA ListingsStep == ListingsInv /\ [NextListings]_listingsVars => ListingsInv'
<1> SUFFICES ASSUME ListingsInv, [NextListings]_listingsVars PROVE ListingsInv'
  OBVIOUS
<1>1. CASE \E limit \in Limits : Begin(limit)
  BY <1>1, BeginKeeps
<1>2. CASE \E tie \in Ties : FindMany(tie)
  BY <1>2, FindManyKeeps
<1>3. CASE Count
  BY <1>3, CountKeeps
<1>4. CASE Answer
  BY <1>4, AnswerKeeps
<1>5. CASE \E x \in Rows : Leave(x) \/ \E k \in Keys : Enter(x, k) \/ Move(x, k)
  BY <1>5, LeaveKeeps, EnterKeeps, MoveKeeps
<1>6. CASE UNCHANGED listingsVars
  <2>1. UNCHANGED <<list, present, key, walk, changes>>
    BY <1>6 DEF listingsVars
  <2>2. ListingsTypeOK' /\ WalkComplete' /\ RepeatsExplained'
    BY <2>1 DEF ListingsInv, ListingsTypeOK, WalkComplete, RepeatsExplained
  <2>3. \A r : Twins(r)' = Twins(r) /\ Ahead(r)' = Ahead(r)
    BY <2>1, SameList
  <2>4. /\ \A f \in {"step", "page", "limit", "pending", "total", "got", "again"} :
             walk'[f] = walk[f]
        /\ walk'.owed = walk.owed /\ walk'.pushed = walk.pushed
    BY <2>1
  <2>5. \A r \in walk.owed : r \in present' /\ Twins(r)' = {}
    BY <2>1, <2>3 DEF ListingsInv, OwedAlone
  <2> QED
    BY <2>1, <2>2, <2>3, <2>4, <2>5, ChangeKeeps
<1> QED
  BY <1>1, <1>2, <1>3, <1>4, <1>5, <1>6 DEF NextListings

\* PaginatedDto.from, PaginationQueryDto.skip: for every list, limit and sequence of
\* changes, what the pages hide and what they repeat has one of the causes the model names.
THEOREM ListingsSafe == ListingsSpec => []ListingsInv
BY ListingsInit, ListingsStep, PTL DEF ListingsSpec

\* hasNext: a caller who follows it to the end is shown every row that nothing excused.
THEOREM WalkShowsAll == ListingsSpec => []WalkComplete
<1>1. ListingsInv => WalkComplete
  BY DEF ListingsInv
<1> QED
  BY <1>1, ListingsSafe, PTL

\* skip: a row comes twice only behind another that came in ahead of it.
THEOREM RepeatsHaveCause == ListingsSpec => []RepeatsExplained
<1>1. ListingsInv => RepeatsExplained
  BY DEF ListingsInv
<1> QED
  BY <1>1, ListingsSafe, PTL
=============================================================================
