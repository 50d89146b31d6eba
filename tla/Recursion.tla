------------------------------ MODULE Recursion ------------------------------
(***************************************************************************)
(* How the proofs reason about recursive functions: by the least number,   *)
(* or the smallest set, of which a claim fails.  And what a sum over a     *)
(* finite set is, however it is taken.                                     *)
(***************************************************************************)
EXTENDS Integers, FiniteSetsExt, FiniteSetTheorems, TLAPS

\* A set of natural numbers has a least member.
LEMMA LeastOf ==
  ASSUME NEW T, T \subseteq Nat, T # {}
  PROVE  \E k \in T : \A n \in T : k <= n
<1>1. PICK k \in T : \A n \in T : <<n, k>> \notin OpToRel(<, Nat)
  BY NatLessThanWellFounded, WFMin
<1>2. \A n \in T : ~(n < k)
  BY <1>1 DEF OpToRel
<1> QED
  BY <1>2

\* A walk: a place to start from and, for each step, where it leads from each place.
Leads(F, m, U) == F \in [1 .. m -> [U -> U]]
Walked(g, m, U, F, z) ==
  /\ g \in [0 .. m -> U]
  /\ \A n \in 0 .. m : g[n] = IF n = 0 THEN z ELSE F[n][g[n - 1]]
LEMMA Walks ==
  ASSUME NEW m \in Nat, NEW U, NEW F, Leads(F, m, U), NEW z \in U
  PROVE  \E g : Walked(g, m, U, F, z)
<1> USE DEF Leads, Walked
<1> DEFINE T == { k \in 0 .. m : \A g : ~Walked(g, k, U, F, z) }
<1>1. SUFFICES ASSUME T # {} PROVE FALSE
  <2>1. m \notin T
    BY <1>1
  <2>2. PICK g : Walked(g, m, U, F, z)
    BY <2>1
  <2> QED
    BY <2>2
<1>2. PICK k \in T : \A n \in T : k <= n
  <2>1. T \subseteq Nat
    OBVIOUS
  <2> HIDE DEF T
  <2> QED
    BY <1>1, <2>1, LeastOf
<1>3. k \in 0 .. m /\ \A g : ~Walked(g, k, U, F, z)
  OBVIOUS
<1>4. k # 0
  <2>1. Walked([n \in 0 .. 0 |-> z], 0, U, F, z)
    OBVIOUS
  <2> QED
    BY <1>3, <2>1
<1>5. k - 1 \in 0 .. m /\ k - 1 \notin T
  <2> HIDE DEF T
  <2> QED
    BY <1>2, <1>3, <1>4
<1>6. PICK g : Walked(g, k - 1, U, F, z)
  BY <1>5
<1> DEFINE h == [n \in 0 .. k |-> IF n = k THEN F[k][g[k - 1]] ELSE g[n]]
<1>7. h \in [0 .. k -> U]
  BY <1>3, <1>4, <1>6
<1>8. ASSUME NEW n \in 0 .. k PROVE h[n] = IF n = 0 THEN z ELSE F[n][h[n - 1]]
  <2>1. CASE n = k
    BY <1>3, <1>4, <2>1
  <2>2. CASE n # k
    BY <1>3, <1>4, <1>6, <2>2
  <2> QED
    BY <2>1, <2>2
<1>9. Walked(h, k, U, F, z)
  BY <1>7, <1>8
<1> QED
  BY <1>3, <1>9

\* What holds at the start of a walk and at each step if at the one before holds throughout.
LEMMA StepByStep ==
  ASSUME NEW m \in Nat, NEW T, 0 \in T, \A n \in 1 .. m : n - 1 \in T => n \in T
  PROVE  \A n \in 0 .. m : n \in T
<1> SUFFICES ASSUME { n \in 0 .. m : n \notin T } # {} PROVE FALSE
  OBVIOUS
<1>1. { n \in 0 .. m : n \notin T } \subseteq Nat
  OBVIOUS
<1>2. PICK k \in { n \in 0 .. m : n \notin T } : \A n \in { i \in 0 .. m : i \notin T } : k <= n
  BY <1>1, LeastOf
<1> QED
  BY <1>2

\* Of some subsets of a finite set there is one that contains no other.
LEMMA Smallest ==
  ASSUME NEW S, IsFiniteSet(S), NEW B \in SUBSET (SUBSET S), B # {}
  PROVE  \E s \in B : \A t \in SUBSET s : t # s => t \notin B
<1> DEFINE N == { n \in 0 .. Cardinality(S) : \E s \in B : Cardinality(s) = n }
<1>1. ASSUME NEW s \in SUBSET S
      PROVE  IsFiniteSet(s) /\ Cardinality(s) \in 0 .. Cardinality(S) /\ Cardinality(s) \in Nat
  BY FS_Subset, FS_CardinalityType
<1>2. PICK k \in N : \A n \in N : k <= n
  <2>1. N # {} /\ N \subseteq Nat
    BY <1>1
  <2> HIDE DEF N
  <2> QED
    BY <2>1, LeastOf
<1>3. PICK s \in B : Cardinality(s) = k
  OBVIOUS
<1>4. ASSUME NEW t \in SUBSET s, t # s, t \in B PROVE FALSE
  <2>1. Cardinality(t) \in N /\ IsFiniteSet(s)
    BY <1>1, <1>4
  <2>2. Cardinality(s) <= Cardinality(t)
    BY <1>2, <1>3, <2>1
  <2>3. Cardinality(t) <= Cardinality(s) /\ (Cardinality(t) = Cardinality(s) => t = s)
    BY <2>1, FS_Subset
  <2> QED
    BY <1>1, <1>4, <2>2, <2>3
<1> QED
  BY <1>4

-----------------------------------------------------------------------------
\* A sum over a finite set: the community modules' fold, which takes out one element after
\* another, in an order of its own.
SumOver(f, S) == MapThenSumSet(LAMBDA x : f[x], S)
Summable(f, S) == IsFiniteSet(S) /\ \A x \in S : f[x] \in Int
Adds(it, f, S) ==
  it = [ s \in SUBSET S |->
           IF s = {} THEN 0 ELSE LET x == CHOOSE x \in s : TRUE IN f[x] + it[s \ {x}] ]

\* There is such a function: of the functions that are right of the small subsets, each the next
\* from the last, that which is right of all.
LEMMA Added ==
  ASSUME NEW f, NEW S, Summable(f, S)
  PROVE  \E it : it \in [SUBSET S -> Int] /\ Adds(it, f, S)
<1> DEFINE U == [SUBSET S -> Int]
           top == Cardinality(S) + 1
           more(g) == [ s \in SUBSET S |->
                          IF s = {} THEN 0 ELSE LET x == CHOOSE x \in s : TRUE IN f[x] + g[s \ {x}] ]
           F == [ n \in 1 .. top |-> [ g \in U |-> more(g) ] ]
           z == [ s \in SUBSET S |-> 0 ]
<1>1. top \in Nat /\ Cardinality(S) \in Nat
  BY FS_CardinalityType DEF Summable
<1>2. ASSUME NEW g \in U PROVE more(g) \in U
  <2>1. ASSUME NEW s \in SUBSET S, s # {} PROVE f[CHOOSE x \in s : TRUE] + g[s \ {CHOOSE x \in s : TRUE}] \in Int
    <3>1. (CHOOSE x \in s : TRUE) \in s
      BY <2>1
    <3> DEFINE c == CHOOSE x \in s : TRUE
    <3>2. f[c] \in Int /\ s \ {c} \in SUBSET S
      BY <3>1 DEF Summable
    <3> HIDE DEF c
    <3>3. f[c] + g[s \ {c}] \in Int
      BY <3>2
    <3> QED
      BY <3>3 DEF c
  <2> QED
    BY <2>1
<1>3. Leads(F, top, U)
  BY <1>2 DEF Leads
<1>4. PICK g : Walked(g, top, U, F, z)
  <2>1. z \in U
    OBVIOUS
  <2> HIDE DEF U, F, z, top
  <2> QED
    BY <1>1, <1>3, <2>1, Walks
<1>5. g \in [0 .. top -> U] /\ g[0] = z
  <2> HIDE DEF U, F, z, top
  <2> QED
    BY <1>1, <1>4 DEF Walked
<1>6. ASSUME NEW n \in 1 .. top PROVE g[n] = more(g[n - 1])
  <2>1. n \in 0 .. top /\ n # 0 /\ n - 1 \in 0 .. top
    BY <1>1
  <2>2. g[n] = F[n][g[n - 1]]
    BY <1>4, <2>1 DEF Walked
  <2>3. g[n - 1] \in U
    BY <1>5, <2>1
  <2> HIDE DEF U, more, top
  <2> QED
    BY <2>2, <2>3
<1> DEFINE Known == { n \in 0 .. Cardinality(S) :
                        \A s \in SUBSET S : Cardinality(s) <= n => g[n + 1][s] = g[n][s] }
<1>7. 0 \in Known
  <2>1. ASSUME NEW s \in SUBSET S, Cardinality(s) <= 0 PROVE g[1][s] = g[0][s]
    <3>1. s = {}
      BY <2>1, FS_Subset, FS_EmptySet, FS_CardinalityType DEF Summable
    <3>2. g[1] = more(g[0])
      <4>1. 1 \in 1 .. top /\ 1 - 1 = 0
        BY <1>1
      <4> HIDE DEF more, top
      <4> QED
        BY <1>6, <4>1
    <3> QED
      BY <1>5, <3>1, <3>2
  <2> QED
    BY <1>1, <2>1
<1>8. ASSUME NEW n \in 1 .. Cardinality(S), n - 1 \in Known PROVE n \in Known
  <2>1. ASSUME NEW s \in SUBSET S, Cardinality(s) <= n, s # {} PROVE g[n + 1][s] = g[n][s]
    <3> DEFINE c == CHOOSE x \in s : TRUE
    <3>1. c \in s
      BY <2>1
    <3>2. s \ {c} \in SUBSET S /\ Cardinality(s \ {c}) <= n - 1
      <4> HIDE DEF c
      <4>1. IsFiniteSet(s) /\ Cardinality(s) \in Nat
        BY FS_Subset, FS_CardinalityType DEF Summable
      <4>2. Cardinality(s \ {c}) = Cardinality(s) - 1
        BY <3>1, <4>1, FS_RemoveElement
      <4> QED
        BY <1>1, <2>1, <4>1, <4>2
    <3>3. g[n][s \ {c}] = g[n - 1][s \ {c}]
      BY <1>8, <3>2
    <3>4. g[n + 1] = more(g[n])
      <4>1. n + 1 \in 1 .. top /\ (n + 1) - 1 = n
        BY <1>1
      <4> HIDE DEF more, top
      <4> QED
        BY <1>6, <4>1
    <3>5. g[n] = more(g[n - 1])
      <4>1. n \in 1 .. top
        BY <1>1
      <4> HIDE DEF more, top
      <4> QED
        BY <1>6, <4>1
    <3>6. g[n + 1][s] = f[c] + g[n][s \ {c}]
      BY <2>1, <3>4
    <3>7. g[n][s] = f[c] + g[n - 1][s \ {c}]
      BY <2>1, <3>5
    <3> QED
      BY <3>3, <3>6, <3>7
  <2>2. g[n + 1][{}] = 0 /\ g[n][{}] = 0
    <3>1. n + 1 \in 1 .. top /\ (n + 1) - 1 = n /\ n \in 1 .. top
      BY <1>1
    <3>2. g[n + 1] = more(g[n]) /\ g[n] = more(g[n - 1])
      <4> HIDE DEF more, top
      <4> QED
        BY <1>6, <3>1
    <3> QED
      BY <3>2
  <2>3. n \in 0 .. Cardinality(S)
    BY <1>1
  <2> QED
    BY <2>1, <2>2, <2>3
<1>9. Cardinality(S) \in Known
  <2> HIDE DEF Known
  <2>1. \A n \in 0 .. Cardinality(S) : n \in Known
    BY <1>1, <1>7, <1>8, StepByStep
  <2> QED
    BY <1>1, <2>1
<1> DEFINE it == g[Cardinality(S)]
<1>10. it \in U /\ g[top] \in U
  <2>1. Cardinality(S) \in 0 .. top /\ top \in 0 .. top
    BY <1>1
  <2> HIDE DEF U, top
  <2> QED
    BY <1>5, <2>1
<1>11. it = more(it)
  <2>1. g[top] = more(it)
    <3>1. top \in 1 .. top /\ top - 1 = Cardinality(S)
      BY <1>1
    <3> HIDE DEF top, more
    <3> QED
      BY <1>6, <3>1
  <2>2. ASSUME NEW s \in SUBSET S PROVE g[top][s] = it[s]
    BY <1>1, <1>9, FS_Subset DEF Summable
  <2>3. g[top] = it
    BY <1>10, <2>2
  <2> QED
    BY <2>1, <2>3
<1>12. Adds(it, f, S)
  BY <1>11 DEF Adds
<1> QED
  BY <1>10, <1>12


\* Whatever adds, adds up to an integer.
LEMMA AddsTyped ==
  ASSUME NEW f, NEW S, Summable(f, S), NEW it, Adds(it, f, S)
  PROVE  it \in [SUBSET S -> Int]
<1> DEFINE B == { s \in SUBSET S : it[s] \notin Int }
<1>1. SUFFICES ASSUME B # {} PROVE FALSE
  BY DEF Adds
<1>2. PICK s \in B : \A t \in SUBSET s : t # s => t \notin B
  <2> HIDE DEF B
  <2>1. B \in SUBSET (SUBSET S)
    BY DEF B
  <2> QED
    BY <1>1, <2>1, Smallest DEF Summable
<1>3. s # {}
  BY DEF Adds
<1> DEFINE c == CHOOSE x \in s : TRUE
<1>4. c \in s
  BY <1>3
<1>5. it[s] = f[c] + it[s \ {c}]
  BY <1>3 DEF Adds
<1> HIDE DEF c
<1>6. it[s \ {c}] \in Int
  BY <1>2, <1>4
<1> QED
  BY <1>4, <1>5, <1>6 DEF Summable

\* The sum is what some such function adds up to.
SumBy(it, f, S) == Adds(it, f, S) /\ SumOver(f, S) = it[S]
LEMMA SumIs ==
  ASSUME NEW f, NEW S, Summable(f, S)
  PROVE  \E it : SumBy(it, f, S)
<1> DEFINE sum == CHOOSE it : Adds(it, f, S)
<1>1. PICK it : Adds(it, f, S)
  BY Added
<1>2. Adds(sum, f, S)
  BY <1>1
<1>3. SumOver(f, S) = sum[S]
  BY Zenon DEF SumOver, MapThenSumSet, MapThenFoldSet, Adds
<1> QED
  BY <1>2, <1>3 DEF SumBy

\* It makes no difference which element is taken out first.
AnyOrder(it, f, S) == \A s \in SUBSET S : \A x \in s : it[s] = f[x] + it[s \ {x}]
LEMMA AnyFirst ==
  ASSUME NEW f, NEW S, Summable(f, S), NEW it, Adds(it, f, S)
  PROVE  AnyOrder(it, f, S)
<1> DEFINE B == { s \in SUBSET S : \E x \in s : it[s] # f[x] + it[s \ {x}] }
<1>1. SUFFICES ASSUME B # {} PROVE FALSE
  BY DEF AnyOrder
<1>2. PICK s \in B : \A t \in SUBSET s : t # s => t \notin B
  <2> HIDE DEF B
  <2>1. B \in SUBSET (SUBSET S)
    BY DEF B
  <2> QED
    BY <1>1, <2>1, Smallest DEF Summable
<1>3. PICK x \in s : it[s] # f[x] + it[s \ {x}]
  OBVIOUS
<1> DEFINE c == CHOOSE y \in s : TRUE
<1>4. c \in s
  BY <1>3
<1>5. it[s] = f[c] + it[s \ {c}]
  BY <1>3 DEF Adds
<1> HIDE DEF c
<1>6. c # x
  BY <1>3, <1>5
<1>7. it[s \ {c}] = f[x] + it[(s \ {c}) \ {x}]
  <2>1. s \ {c} \notin B /\ x \in s \ {c} /\ s \ {c} \in SUBSET S
    BY <1>2, <1>4, <1>6
  <2> QED
    BY <2>1
<1>8. it[s \ {x}] = f[c] + it[(s \ {x}) \ {c}]
  <2>1. s \ {x} \notin B /\ c \in s \ {x} /\ s \ {x} \in SUBSET S
    BY <1>2, <1>4, <1>6
  <2> QED
    BY <2>1
<1>9. (s \ {x}) \ {c} = (s \ {c}) \ {x} /\ (s \ {x}) \ {c} \in SUBSET S
  OBVIOUS
<1>10. it[(s \ {x}) \ {c}] \in Int /\ f[x] \in Int /\ f[c] \in Int
  <2>1. it \in [SUBSET S -> Int]
    BY AddsTyped
  <2>2. f[x] \in Int /\ f[c] \in Int
    BY <1>4 DEF Summable
  <2> QED
    BY <1>9, <2>1, <2>2
<1> DEFINE rest == it[(s \ {x}) \ {c}]
<1>11. it[s] = f[c] + (f[x] + rest) /\ it[s \ {x}] = f[c] + rest
  BY <1>5, <1>7, <1>8, <1>9
<1> HIDE DEF B, rest
<1> QED
  BY <1>3, <1>10, <1>11 DEF rest

\* What adds over a set adds over its subsets.
LEMMA AddsBelow ==
  ASSUME NEW f, NEW S, Summable(f, S), NEW it, Adds(it, f, S),
         NEW T \in SUBSET S
  PROVE  SumOver(f, T) = it[T]
<1>1. Summable(f, T) /\ IsFiniteSet(T)
  BY FS_Subset DEF Summable
<1>2. PICK other : SumBy(other, f, T)
  BY <1>1, SumIs
<1> DEFINE B == { s \in SUBSET T : it[s] # other[s] }
<1>3. SUFFICES ASSUME B # {} PROVE FALSE
  BY <1>2 DEF SumBy
<1>4. PICK s \in B : \A t \in SUBSET s : t # s => t \notin B
  <2> HIDE DEF B
  <2>1. B \in SUBSET (SUBSET T)
    BY DEF B
  <2> QED
    BY <1>1, <1>3, <2>1, Smallest DEF Summable
<1>5. s # {}
  BY <1>2 DEF Adds, SumBy
<1>6. PICK x \in s : TRUE
  BY <1>5
<1>7. it[s] = f[x] + it[s \ {x}]
  BY <1>6, AnyFirst DEF AnyOrder
<1>8. other[s] = f[x] + other[s \ {x}]
  <2>1. Adds(other, f, T)
    BY <1>2 DEF SumBy
  <2>2. AnyOrder(other, f, T)
    BY <1>1, <2>1, AnyFirst
  <2> QED
    BY <1>6, <2>2 DEF AnyOrder
<1>9. it[s \ {x}] = other[s \ {x}]
  BY <1>4, <1>6
<1> QED
  BY <1>4, <1>7, <1>8, <1>9

\* What a sum is: nothing of nothing; else that of one element, whichever, and of the rest.
LEMMA SumOne ==
  ASSUME NEW f, NEW S, Summable(f, S)
  PROVE  /\ SumOver(f, S) \in Int
         /\ SumOver(f, {}) = 0
         /\ \A x \in S : SumOver(f, S) = f[x] + SumOver(f, S \ {x})
<1>1. PICK it : it \in [SUBSET S -> Int] /\ Adds(it, f, S)
  BY Added
<1>2. SumOver(f, S) = it[S] /\ SumOver(f, {}) = it[{}]
  BY <1>1, AddsBelow
<1>3. it[{}] = 0
  BY <1>1 DEF Adds
<1>4. ASSUME NEW x \in S PROVE SumOver(f, S) = f[x] + SumOver(f, S \ {x})
  <2>1. SumOver(f, S \ {x}) = it[S \ {x}]
    BY <1>1, AddsBelow
  <2>2. it[S] = f[x] + it[S \ {x}]
    BY <1>1, AnyFirst DEF AnyOrder
  <2> QED
    BY <1>2, <2>1, <2>2
<1> QED
  BY <1>1, <1>2, <1>3, <1>4

\* A subset of what can be added can be added.
LEMMA SummablePart ==
  ASSUME NEW f, NEW S, Summable(f, S), NEW T \in SUBSET S
  PROVE  Summable(f, T)
BY FS_Subset DEF Summable

\* A sum depends on the values that are added only.
LEMMA SumSame ==
  ASSUME NEW f, NEW g, NEW S, Summable(f, S), \A x \in S : g[x] = f[x]
  PROVE  SumOver(g, S) = SumOver(f, S)
<1> DEFINE B == { s \in SUBSET S : SumOver(g, s) # SumOver(f, s) }
<1>1. SUFFICES ASSUME B # {} PROVE FALSE
  OBVIOUS
<1>2. PICK s \in B : \A t \in SUBSET s : t # s => t \notin B
  <2> HIDE DEF B
  <2>1. B \in SUBSET (SUBSET S)
    BY DEF B
  <2> QED
    BY <1>1, <2>1, Smallest DEF Summable
<1>3. Summable(f, s) /\ Summable(g, s)
  BY SummablePart DEF Summable
<1>4. s # {}
  BY <1>3, SumOne
<1>5. PICK x \in s : TRUE
  BY <1>4
<1>6. SumOver(g, s) = g[x] + SumOver(g, s \ {x}) /\ SumOver(f, s) = f[x] + SumOver(f, s \ {x})
  BY <1>3, <1>5, SumOne
<1>7. SumOver(g, s \ {x}) = SumOver(f, s \ {x}) /\ g[x] = f[x]
  BY <1>2, <1>5
<1> QED
  BY <1>2, <1>6, <1>7

\* Two sets with nothing in common add up to the sum of both.
LEMMA SumOfBoth ==
  ASSUME NEW f, NEW S, NEW T, Summable(f, S \cup T), S \cap T = {}
  PROVE  SumOver(f, S \cup T) = SumOver(f, S) + SumOver(f, T)
<1> DEFINE B == { s \in SUBSET S : SumOver(f, s \cup T) # SumOver(f, s) + SumOver(f, T) }
<1>0. Summable(f, S) /\ Summable(f, T)
  BY SummablePart
<1>1. SUFFICES ASSUME B # {} PROVE FALSE
  OBVIOUS
<1>2. PICK s \in B : \A t \in SUBSET s : t # s => t \notin B
  <2> HIDE DEF B
  <2>1. B \in SUBSET (SUBSET S)
    BY DEF B
  <2> QED
    BY <1>0, <1>1, <2>1, Smallest DEF Summable
<1>3. Summable(f, s) /\ Summable(f, s \cup T) /\ s \cup T \in SUBSET (S \cup T)
  BY SummablePart
<1>4. SumOver(f, T) \in Int /\ SumOver(f, {}) = 0
  BY <1>0, SumOne
<1>5. s # {}
  <2>1. SUFFICES ASSUME s = {} PROVE FALSE
    OBVIOUS
  <2>2. s \cup T = T
    BY <2>1
  <2>3. SumOver(f, s \cup T) # SumOver(f, s) + SumOver(f, T)
    OBVIOUS
  <2> HIDE DEF B
  <2> QED
    BY <1>4, <2>1, <2>2, <2>3
<1>6. PICK x \in s : TRUE
  BY <1>5
<1>7. (s \cup T) \ {x} = (s \ {x}) \cup T
  BY <1>6
<1>8. /\ SumOver(f, s) = f[x] + SumOver(f, s \ {x})
      /\ SumOver(f, s \cup T) = f[x] + SumOver(f, (s \ {x}) \cup T)
  BY <1>3, <1>6, <1>7, SumOne
<1>9. SumOver(f, (s \ {x}) \cup T) = SumOver(f, s \ {x}) + SumOver(f, T)
  BY <1>2, <1>6
<1>10. f[x] \in Int /\ SumOver(f, s \ {x}) \in Int
  <2>1. Summable(f, s \ {x})
    BY <1>3, SummablePart
  <2> QED
    BY <1>3, <1>6, <2>1, SumOne DEF Summable
<1>11. SumOver(f, s \cup T) # SumOver(f, s) + SumOver(f, T)
  OBVIOUS
<1> HIDE DEF B
<1> QED
  BY <1>4, <1>8, <1>9, <1>10, <1>11

\* Ones add up to how many there are.
LEMMA SumOfOnes ==
  ASSUME NEW f, NEW S, IsFiniteSet(S), \A x \in S : f[x] = 1
  PROVE  SumOver(f, S) = Cardinality(S)
<1> DEFINE B == { s \in SUBSET S : SumOver(f, s) # Cardinality(s) }
<1>1. SUFFICES ASSUME B # {} PROVE FALSE
  OBVIOUS
<1>2. PICK s \in B : \A t \in SUBSET s : t # s => t \notin B
  <2> HIDE DEF B
  <2>1. B \in SUBSET (SUBSET S)
    BY DEF B
  <2> QED
    BY <1>1, <2>1, Smallest
<1>3. Summable(f, s) /\ IsFiniteSet(s) /\ Cardinality(s) \in Nat
  BY FS_Subset, FS_CardinalityType DEF Summable
<1>4. s # {}
  BY <1>3, SumOne, FS_EmptySet
<1>5. PICK x \in s : TRUE
  BY <1>4
<1>6. SumOver(f, s) = 1 + SumOver(f, s \ {x})
  BY <1>3, <1>5, SumOne
<1>7. SumOver(f, s \ {x}) = Cardinality(s \ {x})
  BY <1>2, <1>5
<1>8. Cardinality(s \ {x}) = Cardinality(s) - 1
  BY <1>3, <1>5, FS_RemoveElement
<1> QED
  BY <1>2, <1>3, <1>6, <1>7, <1>8

\* What is never negative does not add up to less than nothing.
LEMMA SumOfNaturals ==
  ASSUME NEW f, NEW S, IsFiniteSet(S), \A x \in S : f[x] \in Nat
  PROVE  SumOver(f, S) \in Nat
<1> DEFINE B == { s \in SUBSET S : SumOver(f, s) \notin Nat }
<1>1. SUFFICES ASSUME B # {} PROVE FALSE
  OBVIOUS
<1>2. PICK s \in B : \A t \in SUBSET s : t # s => t \notin B
  <2> HIDE DEF B
  <2>1. B \in SUBSET (SUBSET S)
    BY DEF B
  <2> QED
    BY <1>1, <2>1, Smallest
<1>3. Summable(f, s)
  BY FS_Subset DEF Summable
<1>4. s # {}
  BY <1>3, SumOne
<1>5. PICK x \in s : TRUE
  BY <1>4
<1>6. SumOver(f, s) = f[x] + SumOver(f, s \ {x})
  BY <1>3, <1>5, SumOne
<1>7. SumOver(f, s \ {x}) \in Nat /\ f[x] \in Nat
  BY <1>2, <1>5
<1> QED
  BY <1>2, <1>6, <1>7

\* Part of what is never negative adds up to no more than the whole.
LEMMA SumOfPart ==
  ASSUME NEW f, NEW S, IsFiniteSet(S), \A x \in S : f[x] \in Nat, NEW T \in SUBSET S
  PROVE  SumOver(f, T) <= SumOver(f, S)
<1>1. Summable(f, S) /\ T \cup (S \ T) = S /\ T \cap (S \ T) = {}
  BY DEF Summable
<1>2. SumOver(f, S) = SumOver(f, T) + SumOver(f, S \ T)
  BY <1>1, SumOfBoth, Zenon
<1>3. IsFiniteSet(T) /\ IsFiniteSet(S \ T)
  BY FS_Subset
<1>4. SumOver(f, T) \in Nat /\ SumOver(f, S \ T) \in Nat
  BY <1>3, SumOfNaturals
<1> QED
  BY <1>2, <1>4

\* Under headings: what is under each of some headings adds up to all there is under them.
Headed(S, h, K) == { x \in S : h[x] \in K }
ByHeading(g, f, S, h, K) == \A k \in K : g[k] = SumOver(f, { x \in S : h[x] = k })
LEMMA SumByHeading ==
  ASSUME NEW f, NEW S, Summable(f, S), NEW h, NEW K, IsFiniteSet(K), NEW g, ByHeading(g, f, S, h, K)
  PROVE  /\ Summable(g, K)
         /\ SumOver(g, K) = SumOver(f, Headed(S, h, K))
<1> USE DEF Headed, ByHeading
<1> DEFINE Under(L) == { x \in S : h[x] \in L }
           B == { L \in SUBSET K : SumOver(g, L) # SumOver(f, Under(L)) }
<1>0. Summable(g, K)
  <2>1. ASSUME NEW k \in K PROVE g[k] \in Int
    <3>1. Summable(f, { x \in S : h[x] = k })
      BY SummablePart
    <3> QED
      BY <3>1, SumOne
  <2> QED
    BY <2>1 DEF Summable
<1>1. SUFFICES ASSUME B # {} PROVE FALSE
  BY <1>0
<1>2. PICK L \in B : \A t \in SUBSET L : t # L => t \notin B
  <2> HIDE DEF B
  <2>1. B \in SUBSET (SUBSET K)
    BY DEF B
  <2> QED
    BY <1>1, <2>1, Smallest
<1>3. Summable(g, L) /\ SumOver(g, L) # SumOver(f, Under(L)) /\ L \in SUBSET K
  BY <1>0, SummablePart
<1>4. L # {}
  <2>1. Under({}) = {}
    OBVIOUS
  <2>2. SumOver(g, {}) = 0 /\ SumOver(f, {}) = 0
    BY <1>0, SumOne
  <2> HIDE DEF Under
  <2> QED
    BY <1>3, <2>1, <2>2
<1>5. PICK k \in L : TRUE
  BY <1>4
<1>6. SumOver(g, L) = g[k] + SumOver(g, L \ {k})
  BY <1>3, <1>5, SumOne
<1>7. SumOver(g, L \ {k}) = SumOver(f, Under(L \ {k}))
  <2>1. L \ {k} \in SUBSET L /\ L \ {k} # L /\ L \ {k} \in SUBSET K
    BY <1>3, <1>5
  <2> HIDE DEF Under
  <2> QED
    BY <1>2, <2>1
<1>8. SumOver(f, Under(L)) = SumOver(f, Under({k})) + SumOver(f, Under(L \ {k}))
  <2>1. Under(L) = Under({k}) \cup Under(L \ {k}) /\ Under({k}) \cap Under(L \ {k}) = {}
    BY <1>5
  <2>2. Summable(f, Under(L))
    BY SummablePart
  <2> DEFINE this == Under({k})
             rest == Under(L \ {k})
  <2>3. Summable(f, this \cup rest) /\ this \cap rest = {}
    BY <2>1, <2>2, Zenon
  <2> HIDE DEF this, rest
  <2>4. SumOver(f, this \cup rest) = SumOver(f, this) + SumOver(f, rest)
    BY <2>3, SumOfBoth
  <2> HIDE DEF Under
  <2> QED
    BY <2>1, <2>4 DEF this, rest
<1>9. g[k] = SumOver(f, Under({k}))
  <2>1. Under({k}) = { x \in S : h[x] = k }
    OBVIOUS
  <2> HIDE DEF Under
  <2> QED
    BY <1>3, <2>1
<1> QED
  BY <1>3, <1>6, <1>7, <1>8, <1>9
=============================================================================
