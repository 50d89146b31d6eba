---------------------------- MODULE InboundProofs ----------------------------
(***************************************************************************)
(* Why an Idempotency-Key is kept: one call at a time stands for a key,    *)
(* from the insert that won the unique index to the end of time, unless    *)
(* abandon() has answered it with an error and given the key back.         *)
(*                                                                         *)
(* And why a rate limit holds: the hash in Redis counts every request      *)
(* since some moment, and goes only when few of those it counted are young *)
(* enough to be counted with the next.                                     *)
(*                                                                         *)
(* And why the pages of a search are right: while nothing is written, each *)
(* is the next stretch of one ranking of those who meet the query; else it *)
(* has only those who met it at some moment since it was asked.            *)
(*                                                                         *)
(* And why the figures of a report agree: what its queries saw lies on one *)
(* way to the rows there are, no longer than what was written meanwhile.   *)
(***************************************************************************)
EXTENDS Inbound, Recursion, FiniteSetTheorems, SequenceTheorems

\* The call's response is the one stored in its key's row.
Stored(c) == call[c].key # NoKey /\ keys[call[c].key].response = c

\* The call stands for its key: it runs the handler, has a response under way,
\* given or stored, or has made an order nobody was told failed.
StandsFor(c) ==
  \/ call[c].phase \in {"handler", "placing", "returned", "threw"}
  \/ call[c].storing
  \/ call[c].answer = c
  \/ orders[c] # Empty /\ call[c].answer # "error"
  \/ Stored(c)

\* One call at most stands for a key.
Exclusive == \A c, d \in Calls : SameKey(c, d) => ~(StandsFor(c) /\ StandsFor(d))

\* The row of a key that a call stands for is there, with the call's request.
RowKept ==
  \A c \in Calls :
    StandsFor(c) /\ call[c].key # NoKey =>
      /\ keys[call[c].key].state # "absent"
      /\ keys[call[c].key].route = call[c].route

\* What a call can have done by each phase.
Fresh(c) == ~call[c].storing /\ call[c].answer = "none" /\ ~Stored(c)
PhasedAt(c) ==
  /\ call[c].phase \in {"new", "clash", "handler", "placing"} => Fresh(c) /\ orders[c] = Empty
  /\ call[c].phase = "threw" => Fresh(c)
  /\ call[c].phase = "returned" => call[c].answer = "none"
  /\ call[c].phase = "new" => call[c].key = NoKey
  /\ call[c].phase = "clash" => call[c].key # NoKey
  /\ call[c].storing => call[c].key # NoKey
Phased == \A c \in Calls : PhasedAt(c)

\* A stored response is of a call with that key; an absent row stores none.
RowSound ==
  \A k \in Keys :
    /\ keys[k].state = "absent" => keys[k].response = NoCall
    /\ keys[k].response # NoCall => call[keys[k].response].key = k

\* A response other than the call's own was read from the row of its key.
ReplayedAt(c) ==
  call[c].answer \in Calls /\ call[c].answer # c =>
    /\ call[c].key # NoKey
    /\ keys[call[c].key].response = call[c].answer
    /\ keys[call[c].key].route = call[c].route
Replayed == \A c \in Calls : ReplayedAt(c)

KeyInv == Exclusive /\ RowKept /\ Phased /\ RowSound /\ Replayed
-----------------------------------------------------------------------------
(* Types *)

LEMMA ConstantsTyped ==
  /\ AnyRoute \in Routes /\ AbsentRow \in KeyRow
  /\ Empty \in Lines /\ Idle \in Upsert
BY IdempotencyAssumption, ShopAssumption
DEF AnyRoute, AbsentRow, KeyRow, Empty, Lines, Idle, Upsert, AnyProduct

LEMMA InitTyped == Init => ShopTypeOK
BY ConstantsTyped, IdempotencyAssumption
DEF Init, InitIdempotency, ShopTypeOK, Call, Phases, Answers

LEMMA CallUpdated ==
  ASSUME ShopTypeOK, NEW c \in Calls, NEW phase \in Phases, NEW storing \in BOOLEAN
  PROVE  [call EXCEPT ![c] = [ @ EXCEPT !.phase = phase, !.storing = storing ]]
           \in [Calls -> Call]
BY DEF ShopTypeOK, Call

LEMMA ProtocolTyped ==
  ASSUME ShopTypeOK, Phased, NEW c \in Calls,
         \/ Arrive(c) \/ Protocol(c) \/ StoreResponse(c)
  PROVE  ShopTypeOK'
<1>1. CASE Arrive(c)
  <2>1. PICK k \in Keys \cup {NoKey}, path \in Routes : Begin(c, k, path)
    BY <1>1 DEF Arrive
  <2>2. keys' \in [Keys -> KeyRow]
    BY <2>1, IdempotencyAssumption DEF Begin, ShopTypeOK, KeyRow, Claimable
  <2>3. call' \in [Calls -> Call]
    <3>. DEFINE phase == IF k = NoKey \/ Claimable(k) THEN "handler" ELSE "clash"
    <3>1. phase \in Phases
      BY DEF Phases
    <3>2. call' = [call EXCEPT ![c] =
                     [ @ EXCEPT !.phase = phase, !.key = k, !.route = path ]]
      BY <2>1 DEF Begin
    <3>. HIDE DEF phase
    <3>. QED BY <3>1, <3>2 DEF ShopTypeOK, Call
  <2>. QED BY <1>1, <2>1, <2>2, <2>3 DEF Arrive, Begin, shopVars, ShopTypeOK
<1>2. CASE Inspect(c) /\ UNCHANGED shopVars
  <2>1. Replay(call[c].key, call[c].route) \in Answers
    <3>. DEFINE k == call[c].key  path == call[c].route
    <3>1. k \in Keys
      BY <1>2 DEF Inspect, Phased, PhasedAt, ShopTypeOK, Call
    <3>2. Replay(k, path) \in {"error", "reused", "inProgress", keys[k].response}
      BY DEF Replay
    <3>3. keys[k].response = NoCall =>
            Replay(k, path) \in {"error", "reused", "inProgress"}
      BY DEF Replay
    <3>4. keys[k].response \in Calls \cup {NoCall}
      BY <3>1 DEF ShopTypeOK, KeyRow
    <3>. QED BY <3>2, <3>3, <3>4 DEF Answers
  <2>2. call' \in [Calls -> Call]
    BY <1>2, <2>1 DEF Inspect, Answered, ShopTypeOK, Call, Phases
  <2>3. UNCHANGED <<keys, faults, line, active, basket, orders, edit>>
    BY <1>2 DEF Inspect, shopVars
  <2>. QED BY <2>2, <2>3 DEF ShopTypeOK
<1>3. CASE Respond(c) /\ UNCHANGED shopVars
  <2>1. call' \in [Calls -> Call]
    BY <1>3 DEF Respond, Answered, ShopTypeOK, Call, Phases, Answers
  <2>2. UNCHANGED <<keys, faults, line, active, basket, orders, edit>>
    BY <1>3 DEF Respond, shopVars
  <2>. QED BY <2>1, <2>2 DEF ShopTypeOK
<1>4. CASE Abandon(c) /\ UNCHANGED shopVars
  <2>1. call[c].key # NoKey => Released(call[c].key) \in KeyRow
    BY ConstantsTyped DEF Released, ShopTypeOK, Call
  <2>2. keys' \in [Keys -> KeyRow]
    BY <1>4, <2>1 DEF Abandon, ShopTypeOK
  <2>3. call' \in [Calls -> Call]
    BY <1>4 DEF Abandon, Answered, ShopTypeOK, Call, Phases, Answers
  <2>4. UNCHANGED <<faults, line, active, basket, orders, edit>>
    BY <1>4 DEF Abandon, shopVars
  <2>. QED BY <2>2, <2>3, <2>4 DEF ShopTypeOK
<1>5. CASE StoreResponse(c)
  <2>1. keys' \in [Keys -> KeyRow]
    <3>1. \A k \in Keys : [keys[k] EXCEPT !.state = "done", !.response = c] \in KeyRow
      BY DEF ShopTypeOK, KeyRow
    <3>2. keys' = [keys EXCEPT ![call[c].key] =
                     [keys[call[c].key] EXCEPT !.state = "done", !.response = c]]
      BY <1>5 DEF StoreResponse, Store
    <3>. QED BY <3>1, <3>2 DEF ShopTypeOK
  <2>2. call' \in [Calls -> Call]
    BY <1>5 DEF StoreResponse, Store, ShopTypeOK, Call
  <2>3. UNCHANGED <<faults, line, active, basket, orders, edit>>
    BY <1>5 DEF StoreResponse, Store, shopVars
  <2>. QED BY <2>1, <2>2, <2>3 DEF ShopTypeOK
<1>. QED BY <1>1, <1>2, <1>3, <1>4, <1>5 DEF Protocol

LEMMA HandleTyped ==
  ASSUME ShopTypeOK, NEW c \in Calls, Handle(c) \/ Fail(c)
  PROVE  ShopTypeOK'
<1>1. HandlerReturns(c) \/ HandlerThrows(c) => call' \in [Calls -> Call]
  <2>. DEFINE hasKey == call[c].key # NoKey
  <2>1. hasKey \in BOOLEAN /\ {"returned", "threw"} \subseteq Phases
    BY DEF Phases
  <2>2. HandlerReturns(c) =>
          call' = [call EXCEPT ![c] = [ @ EXCEPT !.phase = "returned", !.storing = hasKey ]]
    BY DEF HandlerReturns
  <2>3. [call EXCEPT ![c] = [ @ EXCEPT !.phase = "returned", !.storing = hasKey ]]
          \in [Calls -> Call]
    <3>. HIDE DEF hasKey
    <3>. QED BY <2>1, CallUpdated
  <2>4. [call EXCEPT ![c].phase = "threw"] \in [Calls -> Call]
    BY <2>1 DEF ShopTypeOK, Call
  <2>. QED BY <2>2, <2>3, <2>4 DEF HandlerThrows
<1>2. Empty \in Lines
  BY ConstantsTyped
<1>3. MakeOrder(c) => line' \in Lines /\ orders' \in [Calls -> Lines]
                      /\ basket' \in [Calls -> Lines]
  BY <1>2, ShopAssumption DEF MakeOrder, Cleared, ShopTypeOK, Lines
<1>4. CASE ReadCart(c)
  <2>. DEFINE found == [p \in Products |-> IF p \in active THEN line[p] ELSE 0]
  <2>1. found \in Lines
    BY ShopAssumption DEF ShopTypeOK, Lines
  <2>2. call' \in [Calls -> Call]
    BY <1>1, <1>4 DEF ReadCart, ShopTypeOK, Call, Phases
  <2>. QED BY <1>4, <2>1, <2>2 DEF ReadCart, ShopTypeOK
<1>5. CASE PlaceOrder(c)
  BY <1>1, <1>3, <1>5 DEF PlaceOrder, MakeOrder, ShopTypeOK
<1>6. CASE ServeOther(c)
  BY <1>1, <1>6 DEF ServeOther, shopVars, ShopTypeOK
<1>7. CASE LoseCommit(c)
  BY <1>1, <1>3, <1>7, IdempotencyAssumption DEF LoseCommit, MakeOrder, ShopTypeOK
<1>8. CASE RollBack(c)
  BY <1>1, <1>2, <1>8, IdempotencyAssumption DEF RollBack, ShopTypeOK
<1>9. CASE Die(c)
  <2>1. call' \in [Calls -> Call]
    BY <1>9, CallUpdated DEF Die, Crash, Phases
  <2>. QED BY <1>2, <1>9, <2>1, IdempotencyAssumption DEF Die, Crash, ShopTypeOK
<1>. QED BY <1>4, <1>5, <1>6, <1>7, <1>8, <1>9 DEF Handle, Fail

\* Everything else the client and the administrator do.
Editing ==
  \/ \E e \in Editors : ReadLine(e) \/ WriteLine(e)
  \/ \E p \in Products : RemoveItem(p) \/ SetActive(p)
                         \/ \E q \in Quantities : SetQuantity(p, q)

LEMMA EditingTyped == ShopTypeOK /\ Editing => ShopTypeOK'
<1>. SUFFICES ASSUME ShopTypeOK, Editing PROVE ShopTypeOK'
  OBVIOUS
<1>1. ASSUME NEW e \in Editors, ReadLine(e) PROVE ShopTypeOK'
  <2>1. \A p \in active, q \in Quantities : Capped(p, q) \in 0 .. MAX_ITEM_QUANTITY
    BY ShopAssumption DEF Capped, ShopTypeOK, Lines
  <2>. QED BY <1>1, <2>1 DEF ReadLine, ShopTypeOK, Upsert, idempotencyVars
<1>2. ASSUME NEW e \in Editors, WriteLine(e) PROVE ShopTypeOK'
  BY <1>2, ConstantsTyped DEF WriteLine, ShopTypeOK, Upsert, Lines, idempotencyVars
<1>3. ASSUME NEW p \in Products, NEW q \in Quantities, SetQuantity(p, q) PROVE ShopTypeOK'
  BY <1>3, ShopAssumption DEF SetQuantity, ShopTypeOK, Lines, idempotencyVars
<1>4. ASSUME NEW p \in Products, RemoveItem(p) PROVE ShopTypeOK'
  BY <1>4, ShopAssumption DEF RemoveItem, ShopTypeOK, Lines, idempotencyVars
<1>5. ASSUME NEW p \in Products, SetActive(p) PROVE ShopTypeOK'
  BY <1>5 DEF SetActive, ShopTypeOK, idempotencyVars
<1>. QED BY <1>1, <1>2, <1>3, <1>4, <1>5 DEF Editing

LEMMA StepTyped == ShopTypeOK /\ Phased /\ [Next]_vars => ShopTypeOK'
<1>1. ShopTypeOK /\ UNCHANGED vars => ShopTypeOK'
  BY DEF ShopTypeOK, vars
<1>. QED BY <1>1, ProtocolTyped, HandleTyped, EditingTyped DEF Next, Editing

-----------------------------------------------------------------------------
(* The key's invariant *)

LEMMA InitKeys == Init => KeyInv
BY IdempotencyAssumption
DEF Init, InitIdempotency, AbsentRow, KeyInv, Exclusive, SameKey, RowKept, Phased,
    PhasedAt, Fresh, RowSound, Replayed, ReplayedAt, StandsFor, Stored

\* Nothing the invariant speaks of has changed.
LEMMA ElsewhereKeeps == KeyInv /\ UNCHANGED <<keys, call, orders>> => KeyInv'
BY DEF KeyInv, Exclusive, SameKey, RowKept, Phased, PhasedAt, Fresh, RowSound,
       Replayed, ReplayedAt, StandsFor, Stored

LEMMA ResponsesTyped ==
  ShopTypeOK => \A k \in Keys : keys[k].response \in Calls \cup {NoCall}
BY DEF ShopTypeOK, KeyRow

\* One call has gone on, and neither takes up a key nor gives one back.
LEMMA LocalKeeps ==
  ASSUME ShopTypeOK, KeyInv, NEW c \in Calls, keys' = keys,
         \A d \in Calls \ {c} : call'[d] = call[d] /\ orders'[d] = orders[d],
         call'[c].key = call[c].key \/ call[c].key = NoKey,
         \/ call'[c].key = NoKey
         \/ ~StandsFor(c)'
         \/ StandsFor(c) /\ call'[c].key = call[c].key /\ call'[c].route = call[c].route,
         PhasedAt(c)', ReplayedAt(c)'
  PROVE  KeyInv'
<1>1. \A d \in Calls \ {c} : StandsFor(d)' = StandsFor(d)
  BY DEF StandsFor, Stored
<1>2. Exclusive'
  BY <1>1 DEF KeyInv, Exclusive, SameKey
<1>3. RowKept'
  BY <1>1 DEF KeyInv, RowKept
<1>4. Phased'
  BY DEF KeyInv, Phased, PhasedAt, Fresh, Stored
<1>5. RowSound'
  BY ResponsesTyped, IdempotencyAssumption DEF KeyInv, RowSound
<1>6. Replayed'
  BY DEF KeyInv, Replayed, ReplayedAt
<1>. QED BY <1>2, <1>3, <1>4, <1>5, <1>6 DEF KeyInv

\* The insert that takes a key finds no row, so no call stands for the key.
LEMMA ClaimKeeps ==
  ASSUME ShopTypeOK, KeyInv, NEW c \in Calls, NEW k \in Keys, NEW path \in Routes,
         Claimable(k), Begin(c, k, path), UNCHANGED orders
  PROVE  KeyInv'
<1>1. /\ k # NoKey /\ call[c].phase = "new" /\ call[c].key = NoKey
      /\ keys[k].state = "absent" /\ keys[k].response = NoCall
  BY IdempotencyAssumption DEF Begin, Claimable, KeyInv, Phased, PhasedAt, RowSound
<1>2. \A d \in Calls : call[d].key = k => ~StandsFor(d)
  BY <1>1 DEF KeyInv, RowKept
<1>3. /\ keys' = [keys EXCEPT ![k] =
                    [ state |-> "inProgress", route |-> path, response |-> NoCall ]]
      /\ call'[c] = [ call[c] EXCEPT !.phase = "handler", !.key = k, !.route = path ]
      /\ \A d \in Calls \ {c} : call'[d] = call[d]
  BY <1>1 DEF Begin, ShopTypeOK, Call
<1>4. /\ call'[c].phase = "handler" /\ call'[c].key = k /\ call'[c].route = path
      /\ call'[c].storing = call[c].storing /\ call'[c].answer = call[c].answer
  BY <1>3 DEF ShopTypeOK, Call
<1>5. /\ keys'[k].state = "inProgress" /\ keys'[k].route = path /\ keys'[k].response = NoCall
      /\ \A h \in Keys \ {k} : keys'[h] = keys[h]
  BY <1>3 DEF ShopTypeOK
<1>6. \A d \in Calls \ {c} : call[d].key \in Keys \cup {NoKey}
  BY DEF ShopTypeOK, Call
<1>7. \A d \in Calls \ {c} : StandsFor(d)' => StandsFor(d)
  BY <1>1, <1>3, <1>5, <1>6, IdempotencyAssumption DEF StandsFor, Stored
<1>8. Exclusive'
  BY <1>2, <1>3, <1>4, <1>7 DEF KeyInv, Exclusive, SameKey
<1>9. RowKept'
  <2>1. ASSUME NEW d \in Calls \ {c}, StandsFor(d), call[d].key # NoKey
        PROVE  /\ keys'[call[d].key].state # "absent"
               /\ keys'[call[d].key].route = call[d].route
    BY <1>2, <1>5, <1>6, <2>1 DEF KeyInv, RowKept
  <2>2. keys'[call'[c].key].state # "absent" /\ keys'[call'[c].key].route = call'[c].route
    BY <1>4, <1>5
  <2>. QED BY <1>3, <1>7, <2>1, <2>2 DEF RowKept
<1>10. Phased'
  <2>1. Fresh(c) /\ orders[c] = Empty
    BY <1>1 DEF KeyInv, Phased, PhasedAt
  <2>2. PhasedAt(c)'
    BY <1>1, <1>4, <1>5, <2>1, IdempotencyAssumption DEF PhasedAt, Fresh, Stored
  <2>3. ASSUME NEW d \in Calls \ {c} PROVE PhasedAt(d)'
    BY <1>1, <1>3, <1>5, <1>6, IdempotencyAssumption
    DEF KeyInv, Phased, PhasedAt, Fresh, Stored
  <2>. QED BY <2>2, <2>3 DEF Phased
<1>11. RowSound'
  <2>1. ASSUME NEW h \in Keys \ {k}, keys[h].response # NoCall
        PROVE  call'[keys[h].response].key = h
    BY <1>1, <1>3, <2>1, ResponsesTyped, IdempotencyAssumption DEF KeyInv, RowSound
  <2>. QED BY <1>5, <2>1 DEF KeyInv, RowSound
<1>12. Replayed'
  <2>1. call[c].answer = "none" /\ "none" \notin Calls
    BY <1>1, IdempotencyAssumption DEF KeyInv, Phased, PhasedAt, Fresh
  <2>2. ReplayedAt(c)'
    BY <1>4, <2>1 DEF ReplayedAt
  <2>3. ASSUME NEW d \in Calls \ {c} PROVE ReplayedAt(d)'
    BY <1>1, <1>3, <1>5, <1>6, IdempotencyAssumption DEF KeyInv, Replayed, ReplayedAt
  <2>. QED BY <2>2, <2>3 DEF Replayed
<1>. QED BY <1>8, <1>9, <1>10, <1>11, <1>12 DEF KeyInv

\* complete() stores the response of the call that stands for the key.
LEMMA StoreKeeps ==
  ASSUME ShopTypeOK, KeyInv, NEW c \in Calls, Store(c), UNCHANGED orders
  PROVE  KeyInv'
<1>. DEFINE k == call[c].key
<1>1. k \in Keys /\ k # NoKey /\ call[c].storing /\ StandsFor(c)
  BY DEF Store, KeyInv, Phased, PhasedAt, ShopTypeOK, Call, StandsFor
<1>2. /\ \A d \in Calls : /\ call'[d].phase = call[d].phase /\ call'[d].key = call[d].key
                          /\ call'[d].route = call[d].route /\ call'[d].answer = call[d].answer
      /\ \A d \in Calls \ {c} : call'[d] = call[d]
      /\ ~call'[c].storing
  BY DEF Store, ShopTypeOK, Call
<1>3. /\ keys'[k].state = "done" /\ keys'[k].route = keys[k].route /\ keys'[k].response = c
      /\ \A h \in Keys \ {k} : keys'[h] = keys[h]
  BY <1>1 DEF Store, ShopTypeOK, KeyRow
<1>4. \A d \in Calls : call[d].key \in Keys \cup {NoKey}
  BY DEF ShopTypeOK, Call
<1>5. \A d \in Calls \ {c} : StandsFor(d)' => StandsFor(d)
  BY <1>1, <1>2, <1>3, <1>4 DEF StandsFor, Stored
<1>6. Exclusive'
  BY <1>1, <1>2, <1>5 DEF KeyInv, Exclusive, SameKey
<1>7. RowKept'
  BY <1>1, <1>2, <1>3, <1>4, <1>5 DEF KeyInv, RowKept
<1>8. Phased'
  <2>1. call[c].phase \notin {"new", "clash", "handler", "placing", "threw"}
    BY <1>1 DEF KeyInv, Phased, PhasedAt, Fresh
  <2>2. PhasedAt(c)'
    BY <1>2, <2>1 DEF KeyInv, Phased, PhasedAt
  <2>3. ASSUME NEW d \in Calls \ {c} PROVE PhasedAt(d)'
    BY <1>2, <1>3, <1>4 DEF KeyInv, Phased, PhasedAt, Fresh, Stored
  <2>. QED BY <2>2, <2>3 DEF Phased
<1>9. RowSound'
  BY <1>1, <1>2, <1>3, ResponsesTyped DEF KeyInv, RowSound
<1>10. Replayed'
  <2>1. ASSUME NEW d \in Calls, call[d].answer \in Calls, call[d].answer # d, call[d].key = k
        PROVE  call[d].answer = c
    <3>1. keys[k].response = call[d].answer /\ call[call[d].answer].key = k
      BY <1>1, <2>1, IdempotencyAssumption DEF KeyInv, Replayed, ReplayedAt, RowSound
    <3>2. StandsFor(call[d].answer)
      BY <1>1, <3>1 DEF StandsFor, Stored
    <3>. QED BY <1>1, <2>1, <3>1, <3>2 DEF KeyInv, Exclusive, SameKey
  <2>2. ASSUME NEW d \in Calls PROVE ReplayedAt(d)'
    BY <1>1, <1>2, <1>3, <1>4, <2>1 DEF KeyInv, Replayed, ReplayedAt
  <2>. QED BY <2>2 DEF Replayed
<1>. QED BY <1>6, <1>7, <1>8, <1>9, <1>10 DEF KeyInv

\* abandon() deletes the row of a key that only the failed call stands for.
LEMMA AbandonKeeps ==
  ASSUME ShopTypeOK, KeyInv, NEW c \in Calls, Abandon(c), call[c].key # NoKey,
         UNCHANGED orders
  PROVE  KeyInv'
<1>. DEFINE k == call[c].key
<1>1. k \in Keys /\ StandsFor(c) /\ ~call[c].storing /\ ~Stored(c)
  BY DEF Abandon, KeyInv, Phased, PhasedAt, Fresh, ShopTypeOK, Call, StandsFor
<1>2. keys[k].response = NoCall
  <2>1. ASSUME NEW r \in Calls, keys[k].response = r PROVE FALSE
    <3>1. call[r].key = k /\ StandsFor(r)
      BY <1>1, <2>1, IdempotencyAssumption DEF KeyInv, RowSound, StandsFor, Stored
    <3>. QED BY <1>1, <2>1, <3>1 DEF KeyInv, Exclusive, SameKey, Stored
  <2>. QED BY <1>1, <2>1, ResponsesTyped
<1>3. /\ keys'[k] = AbsentRow
      /\ \A h \in Keys \ {k} : keys'[h] = keys[h]
  BY <1>1, <1>2 DEF Abandon, Released, ShopTypeOK
<1>4. keys'[k].state = "absent" /\ keys'[k].response = NoCall
  BY <1>3 DEF AbsentRow
<1>5. /\ \A d \in Calls : call'[d].key = call[d].key /\ call'[d].route = call[d].route
      /\ \A d \in Calls \ {c} : call'[d] = call[d]
      /\ call'[c].phase = "ended" /\ call'[c].answer = "error" /\ ~call'[c].storing
  BY <1>1 DEF Abandon, Answered, ShopTypeOK, Call
<1>6. \A d \in Calls : call[d].key \in Keys \cup {NoKey}
  BY DEF ShopTypeOK, Call
<1>7. /\ ~StandsFor(c)'
      /\ \A d \in Calls \ {c} : StandsFor(d)' => StandsFor(d) /\ call[d].key # k
  <2>1. ~StandsFor(c)'
    BY <1>4, <1>5, IdempotencyAssumption DEF StandsFor, Stored
  <2>2. \A d \in Calls \ {c} : StandsFor(d)' => StandsFor(d)
    BY <1>3, <1>4, <1>5, <1>6, IdempotencyAssumption DEF StandsFor, Stored
  <2>. QED BY <1>1, <2>1, <2>2 DEF KeyInv, Exclusive, SameKey
<1>8. Exclusive'
  BY <1>5, <1>7 DEF KeyInv, Exclusive, SameKey
<1>9. RowKept'
  BY <1>3, <1>5, <1>6, <1>7 DEF KeyInv, RowKept
<1>10. Phased'
  <2>1. PhasedAt(c)'
    BY <1>5 DEF PhasedAt
  <2>2. ASSUME NEW d \in Calls \ {c} PROVE PhasedAt(d)'
    BY <1>3, <1>4, <1>5, <1>6, IdempotencyAssumption
    DEF KeyInv, Phased, PhasedAt, Fresh, Stored
  <2>. QED BY <2>1, <2>2 DEF Phased
<1>11. RowSound'
  BY <1>3, <1>4, <1>5, ResponsesTyped DEF KeyInv, RowSound
<1>12. Replayed'
  BY <1>2, <1>3, <1>5, <1>6, IdempotencyAssumption DEF KeyInv, Replayed, ReplayedAt
<1>. QED BY <1>8, <1>9, <1>10, <1>11, <1>12 DEF KeyInv

LEMMA ProtocolKeeps ==
  ASSUME ShopTypeOK, KeyInv, NEW c \in Calls,
         \/ Arrive(c) \/ Protocol(c) \/ StoreResponse(c)
  PROVE  KeyInv'
<1>1. CASE Arrive(c)
  <2>1. PICK k \in Keys \cup {NoKey}, path \in Routes : Begin(c, k, path)
    BY <1>1 DEF Arrive
  <2>2. UNCHANGED orders
    BY <1>1 DEF Arrive, shopVars
  <2>3. CASE k # NoKey /\ Claimable(k)
    BY <2>1, <2>2, <2>3, ClaimKeeps
  <2>4. CASE ~(k # NoKey /\ Claimable(k))
    <3>1. /\ call[c].phase = "new" /\ call[c].key = NoKey /\ orders[c] = Empty
          /\ ~call[c].storing /\ call[c].answer = "none"
      BY <2>1 DEF Begin, KeyInv, Phased, PhasedAt, Fresh
    <3>2. keys' = keys /\ \A d \in Calls \ {c} : call'[d] = call[d]
      BY <2>1, <2>4 DEF Begin, ShopTypeOK
    <3>3. /\ call'[c].phase = (IF k = NoKey THEN "handler" ELSE "clash")
          /\ call'[c].key = k
          /\ ~call'[c].storing /\ call'[c].answer = "none"
      BY <2>1, <2>4, <3>1 DEF Begin, ShopTypeOK, Call
    <3>4. ~Stored(c)'
      BY <3>1, <3>2, <3>3, IdempotencyAssumption DEF KeyInv, RowSound, Stored
    <3>5. PhasedAt(c)' /\ ReplayedAt(c)'
      BY <2>2, <3>1, <3>3, <3>4, IdempotencyAssumption DEF PhasedAt, Fresh, ReplayedAt
    <3>6. k = NoKey \/ ~StandsFor(c)'
      BY <2>2, <3>1, <3>3, <3>4, IdempotencyAssumption DEF StandsFor
    <3>. QED BY <2>2, <3>1, <3>2, <3>3, <3>5, <3>6, LocalKeeps
  <2>. QED BY <2>3, <2>4
<1>2. CASE Inspect(c) /\ UNCHANGED shopVars
  <2>. DEFINE k == call[c].key  reply == Replay(k, call[c].route)
  <2>1. /\ call[c].phase = "clash" /\ Fresh(c) /\ orders[c] = Empty /\ k \in Keys
    BY <1>2 DEF Inspect, KeyInv, Phased, PhasedAt, ShopTypeOK, Call
  <2>2. /\ keys' = keys /\ orders' = orders
        /\ call' = [call EXCEPT ![c] = [ @ EXCEPT !.phase = "ended", !.answer = reply ]]
    BY <1>2 DEF Inspect, Answered, shopVars
  <2>3. reply \in Calls => reply = keys[k].response /\ keys[k].route = call[c].route
    BY IdempotencyAssumption DEF Replay, SameRequest
  <2>. HIDE DEF reply
  <2>4. /\ call'[c].phase = "ended" /\ call'[c].key = k /\ call'[c].route = call[c].route
        /\ call'[c].storing = call[c].storing /\ call'[c].answer = reply
        /\ \A d \in Calls \ {c} : call'[d] = call[d]
    BY <2>2 DEF ShopTypeOK, Call
  <2>5. ~Stored(c)' /\ reply # c
    BY <2>1, <2>2, <2>3, <2>4, IdempotencyAssumption DEF Fresh, Stored
  <2>6. PhasedAt(c)' /\ ReplayedAt(c)'
    BY <2>1, <2>2, <2>3, <2>4, IdempotencyAssumption DEF PhasedAt, Fresh, ReplayedAt
  <2>7. ~StandsFor(c)'
    BY <2>1, <2>2, <2>4, <2>5 DEF StandsFor, Fresh
  <2>. QED BY <2>2, <2>4, <2>6, <2>7, LocalKeeps
<1>3. CASE Respond(c) /\ UNCHANGED shopVars
  <2>1. /\ call[c].phase = "returned" /\ keys' = keys /\ orders' = orders
        /\ call' = [call EXCEPT ![c] = [ @ EXCEPT !.phase = "ended", !.answer = c ]]
    BY <1>3 DEF Respond, Answered, shopVars
  <2>2. /\ call'[c].phase = "ended" /\ call'[c].key = call[c].key
        /\ call'[c].route = call[c].route
        /\ call'[c].storing = call[c].storing /\ call'[c].answer = c
        /\ \A d \in Calls \ {c} : call'[d] = call[d]
    BY <2>1 DEF ShopTypeOK, Call
  <2>3. PhasedAt(c)' /\ ReplayedAt(c)'
    BY <2>1, <2>2 DEF KeyInv, Phased, PhasedAt, ReplayedAt
  <2>. QED BY <2>1, <2>2, <2>3, LocalKeeps DEF StandsFor
<1>4. CASE Abandon(c) /\ UNCHANGED shopVars
  <2>1. CASE call[c].key # NoKey
    BY <1>4, <2>1, AbandonKeeps DEF shopVars
  <2>2. CASE call[c].key = NoKey
    <3>1. /\ call[c].phase = "threw" /\ keys' = keys /\ orders' = orders
          /\ call' = [call EXCEPT ![c] = [ @ EXCEPT !.phase = "ended", !.answer = "error" ]]
      BY <1>4, <2>2 DEF Abandon, Answered, shopVars
    <3>2. /\ call'[c].phase = "ended" /\ call'[c].key = NoKey
          /\ call'[c].storing = call[c].storing /\ call'[c].answer = "error"
          /\ \A d \in Calls \ {c} : call'[d] = call[d]
      BY <2>2, <3>1 DEF ShopTypeOK, Call
    <3>3. PhasedAt(c)' /\ ReplayedAt(c)'
      BY <2>2, <3>1, <3>2, IdempotencyAssumption DEF KeyInv, Phased, PhasedAt, ReplayedAt
    <3>. QED BY <2>2, <3>1, <3>2, <3>3, LocalKeeps
  <2>. QED BY <2>1, <2>2
<1>5. CASE StoreResponse(c)
  BY <1>5, StoreKeeps DEF StoreResponse, shopVars
<1>. QED BY <1>1, <1>2, <1>3, <1>4, <1>5 DEF Protocol

\* The handler's steps: the call stands for its key before and after.
LEMMA HandleKeeps ==
  ASSUME ShopTypeOK, KeyInv, NEW c \in Calls, Handle(c) \/ Fail(c)
  PROVE  KeyInv'
<1>. DEFINE Passes == call' = [call EXCEPT ![c].phase = "placing"]
            Dies == call' = [call EXCEPT ![c] = [ @ EXCEPT !.phase = "dead", !.storing = FALSE ]]
<1>1. /\ keys' = keys
      /\ \A d \in Calls \ {c} : orders'[d] = orders[d]
      /\ \/ call[c].phase = "handler" /\ orders' = orders /\ Passes
         \/ call[c].phase \in {"handler", "placing"} /\ (HandlerReturns(c) \/ HandlerThrows(c))
         \/ orders' = orders /\ Dies
  BY DEF Handle, Fail, ReadCart, PlaceOrder, ServeOther, LoseCommit, RollBack, Die, Crash,
         MakeOrder, shopVars, ShopTypeOK
<1>2. /\ \A d \in Calls \ {c} : call'[d] = call[d]
      /\ call'[c].key = call[c].key /\ call'[c].route = call[c].route
      /\ call'[c].answer = call[c].answer
  <2>1. CASE Passes
    BY <2>1 DEF ShopTypeOK, Call
  <2>2. CASE Dies
    BY <2>2 DEF ShopTypeOK, Call
  <2>3. CASE HandlerReturns(c)
    BY <2>3 DEF HandlerReturns, ShopTypeOK, Call
  <2>4. CASE HandlerThrows(c)
    BY <2>4 DEF HandlerThrows, ShopTypeOK, Call
  <2>. QED BY <1>1, <2>1, <2>2, <2>3, <2>4
<1>3. Stored(c)' = Stored(c)
  BY <1>1, <1>2 DEF Stored
<1>4. ReplayedAt(c)'
  BY <1>1, <1>2 DEF KeyInv, Replayed, ReplayedAt
<1>5. CASE orders' = orders /\ Dies
  <2>1. call'[c].phase = "dead" /\ ~call'[c].storing
    BY <1>5 DEF ShopTypeOK, Call
  <2>2. PhasedAt(c)'
    BY <2>1 DEF PhasedAt
  <2>3. StandsFor(c)' => StandsFor(c)
    BY <1>2, <1>3, <1>5, <2>1 DEF StandsFor
  <2>. QED BY <1>1, <1>2, <1>4, <2>2, <2>3, LocalKeeps
<1>6. CASE /\ call[c].phase \in {"handler", "placing"}
           /\ \/ Passes /\ orders' = orders
              \/ HandlerReturns(c) \/ HandlerThrows(c)
  <2>1. Fresh(c) /\ orders[c] = Empty
    BY <1>6 DEF KeyInv, Phased, PhasedAt
  <2>2. Passes => call'[c].phase = "placing" /\ call'[c].storing = call[c].storing
    BY DEF ShopTypeOK, Call
  <2>3. HandlerThrows(c) => call'[c].phase = "threw" /\ call'[c].storing = call[c].storing
    BY DEF HandlerThrows, ShopTypeOK, Call
  <2>4. HandlerReturns(c) =>
          call'[c].phase = "returned" /\ call'[c].storing = (call[c].key # NoKey)
    BY DEF HandlerReturns, ShopTypeOK, Call
  <2>. HIDE DEF Passes
  <2>5. PhasedAt(c)'
    BY <1>2, <1>3, <1>6, <2>1, <2>2, <2>3, <2>4 DEF PhasedAt, Fresh
  <2>6. StandsFor(c)
    BY <1>6 DEF StandsFor
  <2>. QED BY <1>1, <1>2, <1>4, <2>5, <2>6, LocalKeeps
<1>. QED BY <1>1, <1>5, <1>6

LEMMA StepKeeps == ShopTypeOK /\ KeyInv /\ [Next]_vars => KeyInv'
<1>1. Editing \/ UNCHANGED vars => UNCHANGED <<keys, call, orders>>
  BY DEF Editing, ReadLine, WriteLine, RemoveItem, SetActive, SetQuantity,
         idempotencyVars, vars
<1>. QED BY <1>1, ElsewhereKeeps, ProtocolKeeps, HandleKeeps DEF Next, Editing

-----------------------------------------------------------------------------

\* The schema's shapes, the cap on quantities and the key's invariant hold of
\* every number of calls, keys, products and faults.
THEOREM ShopKept == Spec => [](ShopTypeOK /\ KeyInv)
<1>1. Init => ShopTypeOK /\ KeyInv
  BY InitTyped, InitKeys
<1>2. ShopTypeOK /\ KeyInv /\ [Next]_vars => ShopTypeOK' /\ KeyInv'
  BY StepTyped, StepKeeps DEF KeyInv
<1>. QED BY <1>1, <1>2, PTL DEF Spec

\* IdempotencyService.begin: one key makes one order, however its calls race,
\* crash and are retried, but for orders whose call was told it failed.
THEOREM OneOrderPerKey == Spec => []KeyOrdersOnce
<1>1. KeyInv => KeyOrdersOnce
  BY DEF KeyInv, Exclusive, KeyOrdersOnce, StandsFor
<1>. QED BY <1>1, ShopKept, PTL

\* IdempotencyInterceptor: every successful answer to a key is one response,
\* though nothing waits for the row that replays it.
THEOREM OneResponsePerKey == Spec => []SuccessesAgree
<1>1. ShopTypeOK /\ KeyInv => SuccessesAgree
  <2>1. ASSUME KeyInv, ShopTypeOK, NEW c \in Calls, call[c].key # NoKey, call[c].answer \in Calls
        PROVE  call[call[c].answer].key = call[c].key /\ StandsFor(call[c].answer)
    <3>1. CASE call[c].answer = c
      BY <3>1 DEF StandsFor
    <3>2. CASE call[c].answer # c
      <4>1. call[c].key \in Keys /\ keys[call[c].key].response = call[c].answer
        BY <2>1, <3>2 DEF KeyInv, Replayed, ReplayedAt, ShopTypeOK, Call
      <4>2. call[call[c].answer].key = call[c].key
        BY <2>1, <4>1, IdempotencyAssumption DEF KeyInv, RowSound
      <4>. QED BY <2>1, <4>1, <4>2 DEF StandsFor, Stored
    <3>. QED BY <3>1, <3>2
  <2>. QED BY <2>1 DEF KeyInv, Exclusive, SameKey, SuccessesAgree
<1>. QED BY <1>1, ShopKept, PTL

\* IDEMPOTENCY_KEY_REUSED: the response to one request never answers another.
THEOREM ResponseOfRequest == Spec => []ReplayMatchesRequest
<1>1. ShopTypeOK /\ KeyInv => ReplayMatchesRequest
  <2>1. ASSUME KeyInv, ShopTypeOK, NEW c \in Calls, call[c].answer \in Calls, call[c].answer # c
        PROVE  call[call[c].answer].route = call[c].route /\ call[call[c].answer].key = call[c].key
    <3>1. /\ call[c].key \in Keys /\ call[c].key # NoKey
          /\ keys[call[c].key].response = call[c].answer
          /\ keys[call[c].key].route = call[c].route
      BY <2>1, IdempotencyAssumption DEF KeyInv, Replayed, ReplayedAt, ShopTypeOK, Call
    <3>2. call[call[c].answer].key = call[c].key
      BY <2>1, <3>1, IdempotencyAssumption DEF KeyInv, RowSound
    <3>3. StandsFor(call[c].answer)
      BY <3>1, <3>2 DEF StandsFor, Stored
    <3>. QED BY <2>1, <3>1, <3>2, <3>3 DEF KeyInv, RowKept
  <2>. QED BY <2>1 DEF ReplayMatchesRequest
<1>. QED BY <1>1, ShopKept, PTL

-----------------------------------------------------------------------------
(* The lines of the cart *)

\* addItem() never writes 0: it adds a quantity that is positive.
EditsAdd == \A e \in Editors : edit[e] # Idle => edit[e].quantity > 0

LEMMA EditsKeep == ShopTypeOK /\ EditsAdd /\ [Next]_vars => EditsAdd'
<1>. SUFFICES ASSUME ShopTypeOK, EditsAdd, [Next]_vars PROVE EditsAdd'
  OBVIOUS
<1>1. CASE UNCHANGED edit
  BY <1>1 DEF EditsAdd
<1>2. ASSUME NEW e \in Editors, ReadLine(e)
      PROVE  EditsAdd'
  <2>1. \A p \in active, q \in Quantities : Capped(p, q) > 0
    BY ShopAssumption DEF Capped, ShopTypeOK, Lines
  <2>2. /\ edit'[e].quantity > 0
        /\ \A d \in Editors : d # e => edit'[d] = edit[d]
    BY <1>2, <2>1 DEF ReadLine, ShopTypeOK
  <2>. QED BY <2>2 DEF EditsAdd
<1>3. ASSUME NEW e \in Editors, WriteLine(e)
      PROVE  EditsAdd'
  BY <1>3 DEF WriteLine, EditsAdd, ShopTypeOK
<1>4. ASSUME NEW p \in Products, RemoveItem(p) \/ SetActive(p) \/ \E q \in Quantities : SetQuantity(p, q)
      PROVE  UNCHANGED edit
  BY <1>4 DEF RemoveItem, SetActive, SetQuantity
<1>5. ASSUME NEW c \in Calls, Arrive(c) \/ Protocol(c) \/ StoreResponse(c) \/ Handle(c) \/ Fail(c)
      PROVE  UNCHANGED edit
  BY <1>5 DEF Arrive, Protocol, StoreResponse, Handle, Fail, ReadCart, PlaceOrder, ServeOther,
              LoseCommit, RollBack, Die, MakeOrder, shopVars
<1>. QED BY <1>1, <1>2, <1>3, <1>4, <1>5 DEF Next, vars

\* A product's line goes to 0 when it is removed, or when the order of a call that had
\* made none takes it; a line changed since the checkout read it goes whole.
LEMMA StepOrders ==
  ASSUME ShopTypeOK, KeyInv, EditsAdd, [Next]_vars, NEW p \in Products, line[p] > 0, line'[p] = 0
  PROVE  RemoveItem(p) \/ \E c \in Calls : orders[c][p] = 0 /\ orders'[c][p] > 0
<1>1. line'[p] # line[p]
  OBVIOUS
<1>2. ASSUME NEW c \in Calls, MakeOrder(c)
      PROVE  orders[c][p] = 0 /\ orders'[c][p] > 0
  <2>1. orders[c] = Empty
    BY <1>2 DEF MakeOrder, KeyInv, Phased, PhasedAt
  <2>2. basket[c][p] > 0
    BY <1>1, <1>2 DEF MakeOrder, Cleared
  <2>3. orders'[c] = basket[c]
    BY <1>2 DEF MakeOrder, ShopTypeOK
  <2>. QED BY <2>1, <2>2, <2>3 DEF Empty
<1>3. ASSUME NEW c \in Calls, Arrive(c) \/ Protocol(c) \/ StoreResponse(c) \/ Handle(c) \/ Fail(c)
      PROVE  MakeOrder(c)
  <2>1. MakeOrder(c) \/ UNCHANGED line
    BY <1>3 DEF Arrive, Protocol, StoreResponse, Handle, Fail, ReadCart, PlaceOrder, ServeOther,
                LoseCommit, RollBack, Die, shopVars
  <2>. QED BY <1>1, <2>1
<1>4. ASSUME NEW e \in Editors, ReadLine(e) \/ WriteLine(e)
      PROVE  FALSE
  <2>1. line' = [line EXCEPT ![edit[e].product] = edit[e].quantity] /\ edit[e] # Idle
    BY <1>1, <1>4 DEF ReadLine, WriteLine
  <2>2. edit[e].quantity > 0
    BY <2>1 DEF EditsAdd
  <2>. QED BY <1>1, <2>1, <2>2 DEF ShopTypeOK, Lines
<1>5. ASSUME NEW r \in Products, RemoveItem(r)
      PROVE  r = p
  BY <1>1, <1>5 DEF RemoveItem, ShopTypeOK, Lines
<1>6. ASSUME NEW r \in Products, NEW q \in Quantities, SetActive(r) \/ SetQuantity(r, q)
      PROVE  FALSE
  BY <1>1, <1>6, ShopAssumption DEF SetActive, SetQuantity, ShopTypeOK, Lines
<1>7. ASSUME NEW r \in Products, SetActive(r)
      PROVE  FALSE
  BY <1>1, <1>7 DEF SetActive
<1>. QED BY <1>1, <1>2, <1>3, <1>4, <1>5, <1>6, <1>7 DEF Next, vars

\* CheckoutService: whatever is added, set or withdrawn while a checkout runs, a line leaves
\* the cart only by being removed or by being ordered.
THEOREM CartKept == Spec => LinesLeaveOrdered
<1>1. Init => EditsAdd
  BY DEF Init, EditsAdd
<1>2. ShopTypeOK /\ KeyInv /\ EditsAdd /\ [Next]_vars => EditsAdd'
  BY EditsKeep
<1>3. ShopTypeOK /\ KeyInv /\ EditsAdd /\ [Next]_vars =>
        \A p \in Products :
          line[p] > 0 /\ line'[p] = 0
          => \/ RemoveItem(p)
             \/ \E c \in Calls : orders[c][p] = 0 /\ orders'[c][p] > 0
  BY StepOrders
<1>. QED BY <1>1, <1>2, <1>3, ShopKept, PTL DEF Spec, LinesLeaveOrdered

-----------------------------------------------------------------------------
(* The rate limit. *)

\* The requests of a tracker among the last Ttl's.
TrackedBy(k) == { p \in passed : TrackerOf(p[1][1], p[1][2]) = k }
Early(k, s) == { p \in TrackedBy(k) : p[2] < s }
Since(k, s) == { p \in TrackedBy(k) : p[2] >= s }
Outlasting(k, s) == { p \in Since(k, s) : p[2] + Ttl > bucket[k].expiresAt }

\* The hash of k counts from s on: it has counted every request since; of those before, and
\* of those since that are younger than its window, there are fewer than Limit; and a block
\* outlasts all.
CountedFrom(k, s) ==
  /\ Cardinality(Early(k, s)) <= Limit - 1
  /\ Cardinality(Since(k, s)) <= Limit
  /\ bucket[k].hits = 0 => bucket[k] = NoBucket
  /\ bucket[k].hits > 0 => /\ bucket[k].expiresAt >= s + Ttl
                           /\ Cardinality(Outlasting(k, s)) <= bucket[k].hits - 1
  /\ ~bucket[k].isBlocked => bucket[k].hits <= Limit /\ Cardinality(Since(k, s)) <= bucket[k].hits
  /\ bucket[k].isBlocked => \A p \in TrackedBy(k) : p[2] + Ttl <= bucket[k].blockExpiresAt

BurstInv ==
  /\ IsFiniteSet(passed)
  /\ \A p \in passed : moment < p[2] + Ttl
  /\ \A k \in Trackers : \E s \in 0 .. moment : CountedFrom(k, s)

-----------------------------------------------------------------------------
LEMMA CardLeq ==
  ASSUME NEW S, IsFiniteSet(S), NEW T \in SUBSET S
  PROVE  /\ IsFiniteSet(T) /\ Cardinality(T) \in Nat /\ Cardinality(S) \in Nat
         /\ Cardinality(T) <= Cardinality(S)
BY FS_Subset, FS_CardinalityType

LEMMA OneMore ==
  ASSUME NEW S, IsFiniteSet(S), NEW x, NEW T \in SUBSET (S \cup {x})
  PROVE  IsFiniteSet(T) /\ Cardinality(T) \in Nat /\ Cardinality(S) \in Nat
         /\ Cardinality(T) <= Cardinality(S) + 1
<1>1. Cardinality(S) \in Nat
  BY FS_CardinalityType
<1>2. PICK more : more = S \cup {x}
  OBVIOUS
<1>3. IsFiniteSet(more)
      /\ (Cardinality(more) = Cardinality(S) \/ Cardinality(more) = Cardinality(S) + 1)
  BY <1>2, FS_AddElement, Zenon
<1>. QED BY <1>1, <1>2, <1>3, CardLeq

LEMMA TrackerTyped ==
  ASSUME ThrottleTypeOK, NEW origin \in origins
  PROVE  TrackerOf(origin[1], origin[2]) \in Trackers
<1>1. origin \in Ips \X (Emails \cup {NoEmail})
  BY ThrottleAssumption DEF ThrottleTypeOK
<1>2. origin[1] \in Ips /\ origin[2] \in Emails \cup {NoEmail}
      /\ <<origin[1], origin[2]>> \in Ips \X (Emails \cup {NoEmail})
  BY <1>1
<1>. QED BY <1>2, ThrottleAssumption DEF TrackerOf, Trackers

LEMMA CountedTyped ==
  ASSUME NEW old \in Bucket, moment \in Nat
  PROVE  Counted(old) \in Bucket
BY ThrottleAssumption DEF Counted, Bucket

LEMMA NoneTyped == NoBucket \in Bucket
BY DEF NoBucket, Bucket

LEMMA ThrottleTyped ==
  ASSUME ThrottleTypeOK, IsFiniteSet(passed), [NextThrottle]_throttleVars
  PROVE  ThrottleTypeOK' /\ IsFiniteSet(passed)'
<1>1. ASSUME PassTime
      PROVE  ThrottleTypeOK' /\ IsFiniteSet(passed')
  <2>1. moment \in Nat /\ moment' = moment + 1 /\ moment' \in 0 .. LastMoment
    BY <1>1, ThrottleAssumption DEF PassTime, ThrottleTypeOK
  <2>2. UNCHANGED <<origins, strategy>> /\ passed' \subseteq passed
    BY <1>1 DEF PassTime
  <2>3. bucket' \in [Trackers -> Bucket]
    BY <1>1, NoneTyped DEF PassTime, ThrottleTypeOK
  <2>4. 0 .. moment \subseteq 0 .. moment'
    BY <2>1
  <2>5. passed' \subseteq origins \X (0 .. moment') \X Nat
    BY <2>2, <2>4 DEF ThrottleTypeOK
  <2>6. IsFiniteSet(passed')
    BY <2>2, CardLeq
  <2>. QED BY <2>1, <2>2, <2>3, <2>5, <2>6, Zenon DEF ThrottleTypeOK
<1>2. ASSUME NEW origin \in origins, Hit(origin[1], origin[2])
      PROVE  ThrottleTypeOK' /\ IsFiniteSet(passed')
  <2>1. PICK k \in Trackers : k = TrackerOf(origin[1], origin[2])
    BY TrackerTyped
  <2>2. Counted(bucket[k]) \in Bucket
    BY CountedTyped, ThrottleAssumption DEF ThrottleTypeOK
  <2>3. origin = <<origin[1], origin[2]>>
    BY ThrottleAssumption DEF ThrottleTypeOK
  <2>4. PICK n : n = Cardinality({p \in passed : p[1] = origin})
    OBVIOUS
  <2>5. n \in Nat
    BY <2>4, CardLeq
  <2>6. passed' = passed \/ passed' = passed \cup {<<origin, moment, n>>}
    BY <1>2, <2>3, <2>4 DEF Hit
  <2>7. moment \in 0 .. moment
    BY ThrottleAssumption DEF ThrottleTypeOK
  <2>8. passed' \subseteq origins \X (0 .. moment) \X Nat
    BY <2>5, <2>6, <2>7 DEF ThrottleTypeOK
  <2>9. IsFiniteSet(passed')
    BY <2>6, OneMore
  <2>10. bucket' \in [Trackers -> Bucket] /\ UNCHANGED <<origins, strategy, moment>>
    BY <1>2, <2>1, <2>2 DEF Hit, ThrottleTypeOK
  <2>. QED BY <2>8, <2>9, <2>10, Zenon DEF ThrottleTypeOK
<1>3. ASSUME UNCHANGED throttleVars
      PROVE  ThrottleTypeOK' /\ IsFiniteSet(passed')
  BY <1>3, Zenon DEF ThrottleTypeOK, throttleVars
<1>. QED BY <1>1, <1>2, <1>3 DEF NextThrottle

\* What a request let by is made of.
LEMMA PassedShape ==
  ASSUME ThrottleTypeOK
  PROVE  \A p \in passed : p[1] \in origins /\ p[2] \in Nat /\ p[2] <= moment
BY ThrottleAssumption DEF ThrottleTypeOK

\* The requests of a tracker are finitely many, and so are the parts they are counted in.
LEMMA PartsFinite ==
  ASSUME IsFiniteSet(passed), NEW k, NEW s
  PROVE  /\ IsFiniteSet(TrackedBy(k)) /\ Cardinality(TrackedBy(k)) \in Nat
         /\ IsFiniteSet(Early(k, s)) /\ Cardinality(Early(k, s)) \in Nat
         /\ IsFiniteSet(Since(k, s)) /\ Cardinality(Since(k, s)) \in Nat
         /\ IsFiniteSet(Outlasting(k, s)) /\ Cardinality(Outlasting(k, s)) \in Nat
<1>1. TrackedBy(k) \subseteq passed /\ Early(k, s) \subseteq passed
      /\ Since(k, s) \subseteq passed /\ Outlasting(k, s) \subseteq passed
  BY DEF TrackedBy, Early, Since, Outlasting
<1>. QED BY <1>1, CardLeq

\* As time passes a tracker's requests are forgotten, and its hash, at the earliest when
\* only those are left that it was still counting at the end of its window.
LEMMA TimeKeeps ==
  ASSUME ThrottleTypeOK, IsFiniteSet(passed), PassTime,
         NEW k \in Trackers, NEW s \in 0 .. moment, CountedFrom(k, s)
  PROVE  \E z \in 0 .. moment' : CountedFrom(k, z)'
<1>1. moment \in Nat /\ moment' = moment + 1 /\ s \in Nat /\ s <= moment
  BY ThrottleAssumption DEF PassTime, ThrottleTypeOK
<1>2. bucket[k] \in Bucket
  BY DEF ThrottleTypeOK
<1>3. Ttl \in Nat \ {0} /\ Grace \in Nat \ {0} /\ Limit \in Nat \ {0}
  BY ThrottleAssumption
<1>4. TrackedBy(k)' = { p \in TrackedBy(k) : p[2] + Ttl > moment' }
  BY DEF PassTime, TrackedBy, TrackerOf
<1>5. \A p \in TrackedBy(k) : p[2] \in Nat /\ p[2] <= moment
  BY PassedShape DEF TrackedBy
<1>6. IsFiniteSet(passed')
  BY CardLeq DEF PassTime
<1>7. CASE Expires(k) /\ bucket[k].hits > 0
  <2>1. bucket'[k] = NoBucket
    BY <1>7 DEF PassTime
  <2>2. moment' > bucket[k].expiresAt /\ moment' > bucket[k].blockExpiresAt
    BY <1>1, <1>2, <1>3, <1>7 DEF Expires, Later, Bucket
  <2>0. PICK z : z = moment'
    OBVIOUS
  <2>3. Since(k, z)' = {}
    BY <1>1, <1>4, <1>5, <2>0 DEF Since
  <2>4. Cardinality(TrackedBy(k)') <= Limit - 1
    <3>1. CASE bucket[k].isBlocked
      <4>1. \A p \in TrackedBy(k) : p[2] + Ttl <= bucket[k].blockExpiresAt
        BY <3>1 DEF CountedFrom
      <4>2. TrackedBy(k)' = {}
        BY <1>1, <1>2, <1>3, <1>4, <1>5, <2>2, <4>1 DEF Bucket
      <4>. QED BY <4>2, <1>3, FS_EmptySet
    <3>2. CASE ~bucket[k].isBlocked
      <4>1. bucket[k].expiresAt >= s + Ttl /\ bucket[k].hits <= Limit
            /\ Cardinality(Outlasting(k, s)) <= bucket[k].hits - 1
        BY <1>7, <3>2 DEF CountedFrom
      <4>2. TrackedBy(k)' \subseteq Outlasting(k, s)
        <5>. SUFFICES ASSUME NEW p \in TrackedBy(k), p[2] + Ttl > moment'
                      PROVE  p \in Outlasting(k, s)
          BY <1>4
        <5>. QED BY <1>1, <1>2, <1>3, <1>5, <2>2, <4>1 DEF Outlasting, Since, Bucket
      <4>3. Cardinality(TrackedBy(k)') \in Nat
            /\ Cardinality(TrackedBy(k)') <= Cardinality(Outlasting(k, s))
        BY <4>2, PartsFinite, CardLeq
      <4>. QED BY <1>2, <1>3, <4>1, <4>3, PartsFinite DEF Bucket
    <3>. QED BY <3>1, <3>2
  <2>5. Early(k, z)' \subseteq TrackedBy(k)' /\ IsFiniteSet(TrackedBy(k)')
    <3>1. TrackedBy(k)' \subseteq passed'
      BY DEF TrackedBy
    <3>. QED BY <1>6, <3>1, CardLeq DEF Early
  <2>6. Cardinality(Early(k, z)') \in Nat /\ Cardinality(Early(k, z)') <= Limit - 1
    BY <1>3, <2>4, <2>5, CardLeq
  <2>7. Cardinality(Since(k, z)') = 0
    BY <2>3, FS_EmptySet
  <2>8. CountedFrom(k, z)'
    BY <1>3, <2>1, <2>6, <2>7 DEF CountedFrom, NoBucket
  <2>. QED BY <1>1, <2>0, <2>8
<1>8. CASE ~(Expires(k) /\ bucket[k].hits > 0)
  <2>1. bucket'[k] = bucket[k]
    <3>1. CASE Expires(k)
      BY <1>2, <1>8, <3>1 DEF PassTime, CountedFrom, Bucket
    <3>2. CASE ~Expires(k)
      BY <3>2 DEF PassTime
    <3>. QED BY <3>1, <3>2
  <2>2. Early(k, s)' \subseteq Early(k, s) /\ Since(k, s)' \subseteq Since(k, s)
        /\ Outlasting(k, s)' \subseteq Outlasting(k, s)
    BY <1>4, <2>1 DEF Early, Since, Outlasting
  <2>3. PICK a, b, c : a = Cardinality(Early(k, s)') /\ b = Cardinality(Since(k, s)')
                       /\ c = Cardinality(Outlasting(k, s)')
    OBVIOUS
  <2>4. /\ a \in Nat /\ a <= Cardinality(Early(k, s)) /\ Cardinality(Early(k, s)) \in Nat
        /\ b \in Nat /\ b <= Cardinality(Since(k, s)) /\ Cardinality(Since(k, s)) \in Nat
        /\ c \in Nat /\ c <= Cardinality(Outlasting(k, s))
        /\ Cardinality(Outlasting(k, s)) \in Nat
    BY <2>2, <2>3, PartsFinite, CardLeq
  <2>5. CountedFrom(k, s)'
    BY <1>2, <1>3, <1>4, <2>1, <2>3, <2>4 DEF CountedFrom, Bucket
  <2>. QED BY <1>1, <2>5
<1>. QED BY <1>7, <1>8

\* A free hash counts the request and is blocked when that is one too many; a blocked one
\* only waits for the end of its block, and then counts from one.
LEMMA CountedWhenFree ==
  ASSUME NEW old \in Bucket, ~old.isBlocked, moment \in Nat, NEW new, new = Counted(old)
  PROVE  /\ new.hits = old.hits + 1
         /\ new.expiresAt = IF old.expiresAt <= moment THEN moment + Ttl ELSE old.expiresAt
         /\ new.isBlocked <=> old.hits + 1 > Limit
         /\ new.isBlocked => new.blockExpiresAt = moment + Ttl
<1>1. old.hits \in Nat /\ old.expiresAt \in Nat /\ Ttl \in Nat \ {0} /\ Limit \in Nat
  BY ThrottleAssumption DEF Bucket
<1>2. CASE old.hits + 1 > Limit
  <2>1. ~(moment + Ttl <= moment)
    BY <1>1
  <2>. QED BY <1>1, <1>2, <2>1 DEF Counted
<1>3. CASE ~(old.hits + 1 > Limit)
  BY <1>1, <1>3 DEF Counted
<1>. QED BY <1>2, <1>3

LEMMA CountedWhenBlocked ==
  ASSUME NEW old \in Bucket, old.isBlocked, moment \in Nat, NEW new, new = Counted(old)
  PROVE  /\ new.isBlocked <=> ~(old.blockExpiresAt <= moment)
         /\ new.isBlocked => /\ new.hits = old.hits /\ new.blockExpiresAt = old.blockExpiresAt
                             /\ new.expiresAt = IF old.expiresAt <= moment THEN moment + Ttl
                                                ELSE old.expiresAt
         /\ ~new.isBlocked => new.hits = 1 /\ new.expiresAt = moment + Ttl
<1>1. CASE old.blockExpiresAt <= moment
  BY <1>1 DEF Counted
<1>2. CASE ~(old.blockExpiresAt <= moment)
  BY <1>2 DEF Counted
<1>. QED BY <1>1, <1>2

\* A request counts in the hash of its tracker, whatever that hash has come to.
LEMMA HitCounts ==
  ASSUME ThrottleTypeOK, IsFiniteSet(passed), \A p \in passed : moment < p[2] + Ttl,
         NEW origin \in origins, Hit(origin[1], origin[2]),
         NEW k \in Trackers, k = TrackerOf(origin[1], origin[2]),
         NEW s \in 0 .. moment, CountedFrom(k, s)
  PROVE  \E z \in 0 .. moment : CountedFrom(k, z)'
<1>1. moment \in Nat /\ s \in Nat /\ s <= moment /\ UNCHANGED moment
  BY ThrottleAssumption DEF Hit, ThrottleTypeOK
<1>2. bucket[k] \in Bucket
  BY DEF ThrottleTypeOK
<1>3. Ttl \in Nat \ {0} /\ Limit \in Nat \ {0}
  BY ThrottleAssumption
<1>4. bucket'[k] = Counted(bucket[k])
  BY DEF Hit, ThrottleTypeOK
<1>5. PICK x : /\ x[2] = moment
               /\ bucket'[k].isBlocked => passed' = passed
               /\ ~bucket'[k].isBlocked => passed' = passed \cup {x}
  <2>1. PICK n : n = Cardinality({p \in passed : p[1] = <<origin[1], origin[2]>>})
    OBVIOUS
  <2>2. PICK x : x = <<<<origin[1], origin[2]>>, moment, n>>
    OBVIOUS
  <2>3. passed' = IF Counted(bucket[k]).isBlocked THEN passed ELSE passed \cup {x}
    BY <2>1, <2>2, Zenon DEF Hit
  <2>4. x[2] = moment
    BY <2>2
  <2>. QED BY <1>4, <2>3, <2>4, Zenon
<1>6. \A a, b : TrackerOf(a, b)' = TrackerOf(a, b)
  BY DEF Hit, TrackerOf
<1>7. \A p \in TrackedBy(k) : p[2] \in Nat /\ p[2] <= moment /\ moment < p[2] + Ttl
  BY PassedShape DEF TrackedBy
<1>8. TrackedBy(k)' \subseteq TrackedBy(k) \cup {x}
      /\ (bucket'[k].isBlocked => TrackedBy(k)' = TrackedBy(k))
  BY <1>5, <1>6 DEF TrackedBy
<1>9. ASSUME NEW z
      PROVE  IsFiniteSet(Early(k, z)) /\ IsFiniteSet(Since(k, z)) /\ IsFiniteSet(Outlasting(k, z))
             /\ Cardinality(Early(k, z)) \in Nat /\ Cardinality(Since(k, z)) \in Nat
             /\ Cardinality(Outlasting(k, z)) \in Nat
  BY PartsFinite
\* Blocked, and so it stays: nothing is let by, and the window may only grow.
<1>10. CASE bucket'[k].isBlocked /\ bucket[k].hits > 0
  <2>1. TrackedBy(k)' = TrackedBy(k)
    BY <1>8, <1>10
  <2>2. /\ bucket'[k].hits \in Nat /\ bucket'[k].hits >= bucket[k].hits
        /\ bucket'[k].expiresAt \in Nat /\ bucket'[k].expiresAt >= bucket[k].expiresAt
        /\ (bucket[k].isBlocked => bucket'[k].blockExpiresAt = bucket[k].blockExpiresAt)
        /\ (~bucket[k].isBlocked => bucket'[k].blockExpiresAt = moment + Ttl)
    BY <1>1, <1>2, <1>3, <1>4, <1>10, CountedWhenFree, CountedWhenBlocked DEF Bucket
  <2>3. \A p \in TrackedBy(k)' : p[2] + Ttl <= bucket'[k].blockExpiresAt
    BY <1>1, <1>3, <1>7, <2>1, <2>2 DEF CountedFrom
  <2>4. Early(k, s)' = Early(k, s) /\ Since(k, s)' = Since(k, s)
    BY <2>1 DEF Early, Since
  <2>5. Outlasting(k, s)' \subseteq Outlasting(k, s)
    <3>. SUFFICES ASSUME NEW p \in Since(k, s), p[2] + Ttl > bucket'[k].expiresAt
                  PROVE  p[2] + Ttl > bucket[k].expiresAt
      BY <2>4 DEF Outlasting
    <3>. QED BY <1>2, <1>3, <1>7, <2>2 DEF Since, Bucket
  <2>6. Cardinality(Outlasting(k, s)') \in Nat
        /\ Cardinality(Outlasting(k, s)') <= Cardinality(Outlasting(k, s))
    BY <1>9, <2>5, CardLeq
  <2>7. CountedFrom(k, s)'
    BY <1>1, <1>2, <1>3, <1>9, <1>10, <2>2, <2>3, <2>4, <2>6 DEF CountedFrom, Bucket
  <2>. QED BY <2>7
\* Its block is over, or it counts for the first time: it counts from now.
<1>11. CASE ~bucket'[k].isBlocked /\ (bucket[k].isBlocked \/ bucket[k].hits = 0)
  <2>1. bucket'[k].hits = 1 /\ bucket'[k].expiresAt = moment + Ttl
    <3>1. CASE bucket[k].isBlocked
      BY <1>1, <1>2, <1>4, <1>11, <3>1, CountedWhenBlocked
    <3>2. CASE ~bucket[k].isBlocked
      <4>1. bucket[k].hits = 0 /\ bucket[k].expiresAt = 0
        BY <1>11, <3>2 DEF CountedFrom, NoBucket
      <4>. QED BY <1>1, <1>2, <1>4, <3>2, <4>1, CountedWhenFree
    <3>. QED BY <3>1, <3>2
  <2>2. \A p \in TrackedBy(k) : p \in Early(k, s)
    <3>1. CASE bucket[k].isBlocked
      <4>1. bucket[k].blockExpiresAt <= moment
        BY <1>1, <1>2, <1>4, <1>11, <3>1, CountedWhenBlocked
      <4>. QED BY <1>1, <1>2, <1>3, <1>7, <3>1, <4>1 DEF CountedFrom, Bucket
    <3>2. CASE ~bucket[k].isBlocked
      <4>1. Cardinality(Since(k, s)) = 0
        BY <1>9, <1>11, <3>2 DEF CountedFrom
      <4>2. Since(k, s) = {}
        BY <1>9, <4>1, FS_EmptySet
      <4>. QED BY <1>1, <1>7, <4>2 DEF Early, Since
    <3>. QED BY <3>1, <3>2
  <2>3. PICK z : z = moment
    OBVIOUS
  <2>4. Early(k, z)' \subseteq Early(k, s)
    BY <1>1, <1>5, <1>8, <2>2, <2>3 DEF Early
  <2>5. Since(k, z)' \subseteq {} \cup {x}
    BY <1>1, <1>7, <1>8, <2>2, <2>3 DEF Since, Early
  <2>6. Outlasting(k, z)' = {}
    BY <1>1, <1>3, <1>5, <2>1, <2>3, <2>5 DEF Outlasting
  <2>7. /\ Cardinality(Early(k, z)') \in Nat
        /\ Cardinality(Early(k, z)') <= Cardinality(Early(k, s))
    BY <1>9, <2>4, CardLeq
  <2>8. Cardinality(Since(k, z)') \in Nat /\ Cardinality(Since(k, z)') <= 1
    <3>1. PICK none : none = {}
      OBVIOUS
    <3>2. IsFiniteSet(none) /\ Cardinality(none) = 0 /\ Since(k, z)' \subseteq none \cup {x}
      BY <2>5, <3>1, FS_EmptySet
    <3>3. PICK now : now = Since(k, z)'
      OBVIOUS
    <3>4. IsFiniteSet(now) /\ Cardinality(now) \in Nat /\ Cardinality(now) <= Cardinality(none) + 1
      BY <3>2, <3>3, OneMore
    <3>. QED BY <3>2, <3>3, <3>4
  <2>9. Cardinality(Outlasting(k, z)') = 0
    BY <2>6, FS_EmptySet
  <2>10. CountedFrom(k, z)'
    BY <1>1, <1>3, <1>9, <1>11, <2>1, <2>3, <2>7, <2>8, <2>9 DEF CountedFrom
  <2>. QED BY <1>1, <2>3, <2>10
\* It counts one more.
<1>12. CASE ~bucket'[k].isBlocked /\ ~bucket[k].isBlocked /\ bucket[k].hits > 0
  <2>1. /\ bucket'[k].hits = bucket[k].hits + 1 /\ bucket'[k].hits <= Limit
        /\ bucket'[k].expiresAt = (IF bucket[k].expiresAt <= moment THEN moment + Ttl
                                   ELSE bucket[k].expiresAt)
    BY <1>1, <1>2, <1>3, <1>4, <1>12, CountedWhenFree DEF Bucket
  <2>2. /\ bucket[k].expiresAt >= s + Ttl
        /\ Cardinality(Outlasting(k, s)) <= bucket[k].hits - 1
        /\ Cardinality(Since(k, s)) <= bucket[k].hits
    BY <1>12 DEF CountedFrom
  <2>3. Early(k, s)' \subseteq Early(k, s) /\ Since(k, s)' \subseteq Since(k, s) \cup {x}
    BY <1>1, <1>5, <1>8 DEF Early, Since
  <2>4. Cardinality(Outlasting(k, s)') \in Nat
        /\ Cardinality(Outlasting(k, s)') <= bucket[k].hits
    <3>1. CASE bucket[k].expiresAt <= moment
      <4>1. Outlasting(k, s)' = {}
        <5>1. \A p \in Since(k, s)' : p[2] \in Nat /\ p[2] <= moment
          BY <1>1, <1>5, <1>7, <2>3 DEF Since
        <5>. QED BY <1>1, <1>3, <2>1, <3>1, <5>1 DEF Outlasting
      <4>. QED BY <1>2, <4>1, FS_EmptySet DEF Bucket
    <3>2. CASE ~(bucket[k].expiresAt <= moment)
      <4>1. Outlasting(k, s)' \subseteq Outlasting(k, s) \cup {x}
        BY <2>1, <2>3, <3>2 DEF Outlasting
      <4>2. Cardinality(Outlasting(k, s)') \in Nat
            /\ Cardinality(Outlasting(k, s)') <= Cardinality(Outlasting(k, s)) + 1
        BY <1>9, <4>1, OneMore
      <4>. QED BY <1>2, <1>9, <2>2, <4>2 DEF Bucket
    <3>. QED BY <3>1, <3>2
  <2>5. /\ Cardinality(Early(k, s)') \in Nat
        /\ Cardinality(Early(k, s)') <= Cardinality(Early(k, s))
    BY <1>9, <2>3, CardLeq
  <2>6. Cardinality(Since(k, s)') \in Nat
        /\ Cardinality(Since(k, s)') <= Cardinality(Since(k, s)) + 1
    BY <1>9, <2>3, OneMore
  <2>7. bucket'[k].expiresAt >= s + Ttl
    BY <1>1, <1>2, <1>3, <2>1, <2>2 DEF Bucket
  <2>8. CountedFrom(k, s)'
    BY <1>1, <1>2, <1>3, <1>9, <1>12, <2>1, <2>2, <2>4, <2>5, <2>6, <2>7 DEF CountedFrom, Bucket
  <2>. QED BY <2>8
<1>13. bucket'[k].isBlocked => bucket[k].hits > 0
  <2>1. CASE bucket[k].hits = 0
    <3>1. ~bucket[k].isBlocked
      BY <2>1 DEF CountedFrom, NoBucket
    <3>. QED BY <1>1, <1>2, <1>3, <1>4, <2>1, <3>1, CountedWhenFree
  <2>2. CASE bucket[k].hits # 0
    BY <1>2, <2>2 DEF Bucket
  <2>. QED BY <2>1, <2>2
<1>14. bucket[k].hits > 0 \/ bucket[k].hits = 0
  BY <1>2 DEF Bucket
<1>. QED BY <1>1, <1>10, <1>11, <1>12, <1>13, <1>14

\* Every hash counts its tracker's requests, and those let by are of the last Ttl.
LEMMA BurstKept ==
  ASSUME ThrottleTypeOK, BurstInv, [NextThrottle]_throttleVars
  PROVE  BurstInv'
<1>1. IsFiniteSet(passed) /\ IsFiniteSet(passed')
  BY ThrottleTyped DEF BurstInv
<1>2. ASSUME PassTime
      PROVE  BurstInv'
  <2>1. \A p \in passed' : moment' < p[2] + Ttl
    <3>. SUFFICES ASSUME NEW p \in passed, p[2] + Ttl > moment'
                  PROVE  moment' < p[2] + Ttl
      BY <1>2 DEF PassTime
    <3>1. p[2] \in Nat /\ moment' \in Nat /\ Ttl \in Nat
      BY <1>2, PassedShape, ThrottleAssumption DEF PassTime, ThrottleTypeOK
    <3>. QED BY <3>1
  <2>2. ASSUME NEW k \in Trackers
        PROVE  \E z \in 0 .. moment' : CountedFrom(k, z)'
    <3>1. PICK s \in 0 .. moment : CountedFrom(k, s)
      BY DEF BurstInv
    <3>. QED BY <1>1, <1>2, <3>1, TimeKeeps
  <2>. QED BY <1>1, <2>1, <2>2 DEF BurstInv
<1>3. ASSUME NEW origin \in origins, Hit(origin[1], origin[2])
      PROVE  BurstInv'
  <2>1. PICK own \in Trackers : own = TrackerOf(origin[1], origin[2])
    BY TrackerTyped
  <2>2. PICK n : n = Cardinality({p \in passed : p[1] = <<origin[1], origin[2]>>})
    OBVIOUS
  <2>3. PICK x : x = <<<<origin[1], origin[2]>>, moment, n>>
    OBVIOUS
  <2>4. passed' = passed \/ passed' = passed \cup {x}
    BY <1>3, <2>2, <2>3 DEF Hit
  <2>5. x[2] = moment /\ TrackerOf(x[1][1], x[1][2]) = own /\ moment \in Nat /\ moment' = moment
    BY <1>3, <2>1, <2>3, ThrottleAssumption DEF Hit, ThrottleTypeOK
  <2>6. \A p \in passed' : moment' < p[2] + Ttl
    BY <2>4, <2>5, ThrottleAssumption DEF BurstInv
  <2>7. ASSUME NEW k \in Trackers
        PROVE  \E z \in 0 .. moment' : CountedFrom(k, z)'
    <3>1. PICK s \in 0 .. moment : CountedFrom(k, s)
      BY DEF BurstInv
    <3>2. CASE k = own
      BY <1>1, <1>3, <2>1, <2>5, <3>1, <3>2, HitCounts DEF BurstInv
    <3>3. CASE k # own
      <4>1. \A a, b : TrackerOf(a, b)' = TrackerOf(a, b)
        BY <1>3 DEF Hit, TrackerOf
      <4>2. TrackedBy(k)' = TrackedBy(k)
        BY <2>4, <2>5, <3>3, <4>1 DEF TrackedBy
      <4>3. bucket'[k] = bucket[k]
        BY <1>3, <2>1, <3>3 DEF Hit, ThrottleTypeOK
      <4>4. Early(k, s)' = Early(k, s) /\ Since(k, s)' = Since(k, s)
            /\ Outlasting(k, s)' = Outlasting(k, s)
        BY <4>2, <4>3 DEF Early, Since, Outlasting
      <4>5. CountedFrom(k, s)'
        BY <3>1, <4>2, <4>3, <4>4 DEF CountedFrom
      <4>. QED BY <2>5, <3>1, <4>5
    <3>. QED BY <3>2, <3>3
  <2>. QED BY <1>1, <2>6, <2>7 DEF BurstInv
<1>4. ASSUME UNCHANGED throttleVars
      PROVE  BurstInv'
  <2>1. \A a, b : TrackerOf(a, b)' = TrackerOf(a, b)
    BY <1>4 DEF TrackerOf, throttleVars
  <2>2. ASSUME NEW k, NEW s
        PROVE  CountedFrom(k, s)' <=> CountedFrom(k, s)
    <3>1. TrackedBy(k)' = TrackedBy(k) /\ bucket' = bucket
      BY <1>4, <2>1 DEF TrackedBy, throttleVars
    <3>2. Early(k, s)' = Early(k, s) /\ Since(k, s)' = Since(k, s)
          /\ Outlasting(k, s)' = Outlasting(k, s)
      BY <3>1 DEF Early, Since, Outlasting
    <3>. QED BY <3>1, <3>2 DEF CountedFrom
  <2>. QED BY <1>4, <2>2 DEF throttleVars, BurstInv
<1>. QED BY <1>2, <1>3, <1>4 DEF NextThrottle

\* Those who are counted together share a tracker, so one hash has counted them all.
LEMMA HashBounds ==
  ASSUME ThrottleTypeOK, BurstInv
  PROVE  BurstBounded
<1>. SUFFICES ASSUME NEW origin \in origins
              PROVE  RecentOf(Together(origin)) < 2 * Limit
  BY DEF BurstBounded
<1>1. PICK k \in Trackers : k = TrackerOf(origin[1], origin[2])
  BY TrackerTyped
<1>2. PICK s \in 0 .. moment : CountedFrom(k, s)
  BY DEF BurstInv
<1>3. \A other \in Together(origin) : TrackerOf(other[1], other[2]) = k
  BY <1>1 DEF Together, TrackerOf
<1>4. PICK theirs : theirs = { p \in passed : p[1] \in Together(origin) }
  OBVIOUS
<1>5. theirs \subseteq Early(k, s) \cup Since(k, s)
  <2>1. theirs \subseteq TrackedBy(k)
    BY <1>3, <1>4 DEF TrackedBy
  <2>2. \A p \in TrackedBy(k) : p[2] \in Nat
    BY PassedShape DEF TrackedBy
  <2>3. s \in Nat
    OBVIOUS
  <2>. QED BY <2>1, <2>2, <2>3 DEF Early, Since
<1>6. PICK both : both = Early(k, s) \cup Since(k, s)
  OBVIOUS
<1>7. IsFiniteSet(both) /\ Cardinality(both) \in Nat
      /\ Cardinality(both) <= Cardinality(Early(k, s)) + Cardinality(Since(k, s))
  <2>1. /\ IsFiniteSet(Early(k, s)) /\ Cardinality(Early(k, s)) \in Nat
        /\ IsFiniteSet(Since(k, s)) /\ Cardinality(Since(k, s)) \in Nat
    BY PartsFinite DEF BurstInv
  <2>2. PICK common : common = Early(k, s) \cap Since(k, s)
    OBVIOUS
  <2>3. Cardinality(common) \in Nat
    BY <2>1, <2>2, CardLeq
  <2>4. IsFiniteSet(both)
    BY <1>6, <2>1, FS_Union
  <2>5. Cardinality(both) \in Nat
    BY <2>4, FS_CardinalityType
  <2>6. Cardinality(both)
          = Cardinality(Early(k, s)) + Cardinality(Since(k, s)) - Cardinality(common)
    BY <1>6, <2>1, <2>2, FS_Union, Zenon
  <2>. QED BY <2>1, <2>3, <2>4, <2>5, <2>6
<1>8. Cardinality(theirs) \in Nat /\ Cardinality(theirs) <= Cardinality(both)
  BY <1>5, <1>6, <1>7, CardLeq
<1>9. /\ Cardinality(Early(k, s)) \in Nat /\ Cardinality(Early(k, s)) <= Limit - 1
      /\ Cardinality(Since(k, s)) \in Nat /\ Cardinality(Since(k, s)) <= Limit
  BY <1>2, PartsFinite DEF CountedFrom, BurstInv
<1>10. Cardinality(theirs) < 2 * Limit
  BY <1>7, <1>8, <1>9, ThrottleAssumption
<1>. QED BY <1>4, <1>10 DEF RecentOf

\* The hashes are as the invariant says, whatever requests come and when.
LEMMA BurstSafe == ThrottleSpec => [](ThrottleTypeOK /\ BurstInv)
<1>1. InitThrottle => ThrottleTypeOK /\ BurstInv
  <2>. SUFFICES ASSUME InitThrottle
                PROVE  ThrottleTypeOK /\ BurstInv
    OBVIOUS
  <2>1. ThrottleTypeOK
    BY NoneTyped, ThrottleAssumption DEF InitThrottle, ThrottleTypeOK
  <2>2. IsFiniteSet(passed)
    BY FS_EmptySet DEF InitThrottle
  <2>3. ASSUME NEW k \in Trackers
        PROVE  CountedFrom(k, 0)
    <3>1. Early(k, 0) = {} /\ Since(k, 0) = {}
      BY DEF InitThrottle, Early, Since, TrackedBy
    <3>2. bucket[k] = NoBucket
      BY DEF InitThrottle
    <3>3. Cardinality(Early(k, 0)) = 0 /\ Cardinality(Since(k, 0)) = 0
      BY <3>1, FS_EmptySet
    <3>. QED BY <3>2, <3>3, ThrottleAssumption DEF CountedFrom, NoBucket
  <2>. QED BY <2>1, <2>2, <2>3 DEF InitThrottle, BurstInv
<1>2. ThrottleTypeOK /\ BurstInv /\ [NextThrottle]_throttleVars => (ThrottleTypeOK /\ BurstInv)'
  BY ThrottleTyped, BurstKept DEF BurstInv
<1>. QED BY <1>1, <1>2, PTL DEF ThrottleSpec

\* INCREMENT_SCRIPT and IdentifierThrottlerGuard: whatever the limit, the window and the
\* moments requests come at, fewer than twice the limit get by in any stretch as long as
\* the window of those who are counted together.
THEOREM BurstsBounded == ThrottleSpec => []BurstBounded
<1>1. ThrottleTypeOK /\ BurstInv => BurstBounded
  BY HashBounds
<1>. QED BY <1>1, BurstSafe, PTL

-----------------------------------------------------------------------------
(* The way of a request. *)

\* What the guards have made sure of by the time a request is known, is permitted, and runs.
Identified ==
  IF route.public THEN user = Nobody ELSE bearer \in Roles /\ user = bearer /\ wasActive
Admitted == Identified /\ Permits(user)

GuardsInv ==
  /\ stage \in {"new", "arrived", "counted"} => user = Nobody
  /\ stage = "known" => Identified
  /\ stage \in {"permitted", "inside"} => Admitted
  /\ handler # "idle" => stage = "inside"
  /\ stage # "inside" /\ stage # "over" /\ stage # "dead" => ~served
  /\ handler = "returned" => served
  /\ served => Admitted /\ Serves(endpoint, user)
  /\ stage # "new" /\ status = "ACTIVE" => wasActive
  /\ auditRow # "none" => served /\ route.audited /\ user = bearer

LEMMA PipelineTyped ==
  ASSUME PipelineTypeOK, GuardsInv, [NextPipeline]_pipelineVars
  PROVE  PipelineTypeOK'
<1>. USE PipelineAssumption DEF PipelineTypeOK, Callers
<1>1. ASSUME NEW who \in Callers, NEW header \in BOOLEAN, Receive(who, header)
      PROVE  PipelineTypeOK'
  BY <1>1 DEF Receive, Pass, GuardsInv
<1>2. CASE CountHit \/ Authenticate \/ CheckRole
  BY <1>2 DEF CountHit, Authenticate, CheckRole, Pass, Refuse, requestVars, Elsewhere
<1>3. CASE Intercept
  BY <1>3 DEF Intercept, Refuse, requestVars, Elsewhere
<1>4. CASE DoWork \/ ThrowError
  <2>1. Serves(endpoint, user) \in BOOLEAN
    BY DEF Serves
  <2>2. served' \in BOOLEAN
    BY <1>4, <2>1 DEF DoWork, ThrowError
  <2>. QED BY <1>4, <2>2 DEF DoWork, ThrowError, requestVars, Elsewhere
<1>5. CASE PassValue \/ PassError \/ TimeOut
  BY <1>5 DEF PassValue, PassError, TimeOut, requestVars, Elsewhere
<1>6. CASE Record \/ FailRecord \/ ProcessDies
  BY <1>6 DEF Record, FailRecord, ProcessDies, requestVars, Elsewhere
<1>7. ASSUME NEW new \in {"ACTIVE", "BLOCKED", "DELETED"}, SetStatus(new)
      PROVE  PipelineTypeOK'
  BY <1>7 DEF SetStatus
<1>8. CASE UNCHANGED pipelineVars
  BY <1>8 DEF pipelineVars
<1>. QED BY <1>1, <1>2, <1>3, <1>4, <1>5, <1>6, <1>7, <1>8 DEF NextPipeline, Guard, Process

\* However the account's status changes in between, what the guards have made sure of stays.
LEMMA GuardsKeep ==
  ASSUME PipelineTypeOK, GuardsInv, [NextPipeline]_pipelineVars
  PROVE  GuardsInv'
<1>. USE PipelineAssumption DEF PipelineTypeOK, Callers
<1>1. ASSUME NEW who \in Callers, NEW header \in BOOLEAN, Receive(who, header)
      PROVE  GuardsInv'
  BY <1>1 DEF Receive, Pass, GuardsInv
<1>2. ASSUME UNCHANGED <<endpoint, user, bearer, wasActive>>
      PROVE  /\ Identified' = Identified /\ Admitted' = Admitted
             /\ route' = route /\ Serves(endpoint, user)' = Serves(endpoint, user)
  BY <1>2 DEF Identified, Admitted, Permits, Serves, route
<1>3. CASE CountHit
  BY <1>3 DEF CountHit, Pass, Refuse, requestVars, Elsewhere, GuardsInv
<1>4. CASE Authenticate
  BY <1>4 DEF Authenticate, Valid, Identified, Pass, Refuse, requestVars, Elsewhere, GuardsInv, route
<1>5. CASE CheckRole
  BY <1>2, <1>5 DEF CheckRole, Admitted, Pass, Refuse, requestVars, Elsewhere, GuardsInv
<1>6. CASE Intercept
  <2>1. UNCHANGED <<endpoint, user, bearer, wasActive, status>>
    BY <1>6 DEF Intercept, Refuse, requestVars, Elsewhere
  <2>2. Identified' = Identified /\ Admitted' = Admitted /\ route' = route
        /\ Serves(endpoint, user)' = Serves(endpoint, user)
    BY <1>2, <2>1
  <2>. QED BY <1>6, <2>1, <2>2 DEF Intercept, GuardsInv, Refuse
<1>7. CASE DoWork \/ ThrowError
  <2>1. UNCHANGED <<endpoint, user, bearer, wasActive, status>>
    BY <1>7 DEF DoWork, ThrowError, requestVars, Elsewhere
  <2>2. Identified' = Identified /\ Admitted' = Admitted /\ route' = route
        /\ Serves(endpoint, user)' = Serves(endpoint, user)
    BY <1>2, <2>1
  <2>. QED BY <1>7, <2>1, <2>2 DEF DoWork, ThrowError, GuardsInv
<1>8. CASE PassValue \/ PassError
  <2>1. UNCHANGED <<endpoint, user, bearer, wasActive, status>>
    BY <1>8 DEF PassValue, PassError, requestVars, Elsewhere
  <2>2. Identified' = Identified /\ Admitted' = Admitted /\ route' = route
        /\ Serves(endpoint, user)' = Serves(endpoint, user)
    BY <1>2, <2>1
  <2>. QED BY <1>8, <2>1, <2>2 DEF PassValue, PassError, GuardsInv, Admitted, Identified
<1>9. CASE TimeOut \/ Record \/ FailRecord \/ ProcessDies
  <2>1. UNCHANGED <<endpoint, user, bearer, wasActive, status>>
    BY <1>9 DEF TimeOut, Record, FailRecord, ProcessDies, requestVars, Elsewhere
  <2>2. Identified' = Identified /\ Admitted' = Admitted /\ route' = route
        /\ Serves(endpoint, user)' = Serves(endpoint, user)
    BY <1>2, <2>1
  <2>. QED BY <1>9, <2>1, <2>2 DEF TimeOut, Record, FailRecord, ProcessDies, GuardsInv
<1>10. ASSUME NEW new \in {"ACTIVE", "BLOCKED", "DELETED"}, SetStatus(new)
      PROVE  GuardsInv'
  <2>1. UNCHANGED <<endpoint, user, bearer>> /\ (wasActive => wasActive')
    BY <1>10 DEF SetStatus
  <2>2. (Identified => Identified') /\ (Admitted => Admitted') /\ route' = route
        /\ Serves(endpoint, user)' = Serves(endpoint, user)
    BY <2>1 DEF Identified, Admitted, Permits, Serves, route
  <2>. QED BY <1>10, <2>1, <2>2 DEF SetStatus, GuardsInv
<1>11. CASE UNCHANGED pipelineVars
  <2>1. Identified' = Identified /\ Admitted' = Admitted /\ route' = route
        /\ Serves(endpoint, user)' = Serves(endpoint, user)
    BY <1>2, <1>11 DEF pipelineVars
  <2>. QED BY <1>11, <2>1 DEF pipelineVars, GuardsInv
<1>. QED BY <1>1, <1>3, <1>4, <1>5, <1>6, <1>7, <1>8, <1>9, <1>10, <1>11
         DEF NextPipeline, Guard, Process

\* Whoever the guards have let in and the services serve is one the capability is for.
LEMMA ServedAreEntitled ==
  ASSUME PipelineTypeOK, GuardsInv
  PROVE  EntitledAreServed
<1>1. endpoint \in Endpoint /\ bearer \in Callers
  BY PipelineAssumption DEF PipelineTypeOK
<1>2. ASSUME served
      PROVE  bearer \in EntitledTo(endpoint) /\ (wasActive \/ endpoint \in ForAnyone)
  <2>1. Identified /\ Permits(user) /\ Serves(endpoint, user)
    BY <1>2 DEF GuardsInv, Admitted
  <2>2. CASE route.public
    <3>1. endpoint \in ForAnyone \ ForSome
      BY <1>1, <2>2, DecoratorsEntitle DEF route
    <3>2. EntitledTo(endpoint) = Callers
      BY <3>1, Zenon DEF EntitledTo, ForSome
    <3>. QED BY <1>1, <3>1, <3>2
  <2>3. CASE ~route.public
    BY <1>1, <2>1, <2>3, DecoratorsEntitle DEF Identified, Permits, route
  <2>. QED BY <2>2, <2>3
<1>. QED BY <1>2 DEF EntitledAreServed, GuardsInv

\* The guards have done what the invariant says, whatever happens to the account meanwhile.
LEMMA GuardsSafe == PipelineSpec => [](PipelineTypeOK /\ GuardsInv)
<1>1. InitPipeline => PipelineTypeOK /\ GuardsInv
  <2>1. InitPipeline => PipelineTypeOK
    <3>1. 0 \in 0 .. MaxLosses
      BY PipelineAssumption
    <3>. QED BY <3>1, Zenon DEF InitPipeline, PipelineTypeOK, Callers
  <2>2. InitPipeline => GuardsInv
    BY DEF InitPipeline, GuardsInv
  <2>. QED BY <2>1, <2>2
<1>2. PipelineTypeOK /\ GuardsInv /\ [NextPipeline]_pipelineVars => (PipelineTypeOK /\ GuardsInv)'
  BY PipelineTyped, GuardsKeep
<1>. QED BY <1>1, <1>2, PTL DEF PipelineSpec

\* The guards: whatever a route asks for, an account is blocked or deleted between them or a
\* handler outlives its answer, only those a capability is for are served, and only what was
\* done is audited.
THEOREM ServedAsEntitled == PipelineSpec => []EntitledAreServed
<1>1. PipelineTypeOK /\ GuardsInv => EntitledAreServed
  BY ServedAreEntitled
<1>. QED BY <1>1, GuardsSafe, PTL

-----------------------------------------------------------------------------
(* The search *)

LEMMA WithoutIs ==
  ASSUME NEW S, NEW s \in Seq(S), NEW some
  PROVE  \E rest :
           /\ rest[0] = <<>> /\ Without(s, some) = rest[Len(s)]
           /\ \A n \in 1 .. Len(s) :
                rest[n] = IF s[n] \in some THEN rest[n - 1] ELSE Append(rest[n - 1], s[n])
<1> DEFINE m == Len(s)
           Step(n, r) == IF s[n] \in some THEN r ELSE Append(r, s[n])
           F == [ n \in 1 .. m |-> [ r \in Seq(S) |-> Step(n, r) ] ]
           rest == CHOOSE f : f = [ n \in 0 .. m |-> IF n = 0 THEN <<>> ELSE Step(n, f[n - 1]) ]
<1>1. m \in Nat /\ <<>> \in Seq(S) /\ \A n \in 1 .. m : s[n] \in S
  OBVIOUS
<1>2. \A n \in 1 .. m, r \in Seq(S) : Step(n, r) \in Seq(S)
  BY <1>1
<1>3. Leads(F, m, Seq(S))
  <2>1. \A n \in 1 .. m : F[n] \in [Seq(S) -> Seq(S)]
    BY <1>2
  <2> QED
    BY <2>1 DEF Leads
<1>4. PICK g : Walked(g, m, Seq(S), F, <<>>)
  <2> HIDE DEF F
  <2> QED
    BY <1>1, <1>3, Walks, Zenon
<1>5. \A n \in 0 .. m : g[n] = IF n = 0 THEN <<>> ELSE Step(n, g[n - 1])
  <2> SUFFICES ASSUME NEW n \in 0 .. m, n # 0 PROVE g[n] = Step(n, g[n - 1])
    BY <1>4 DEF Walked
  <2>1. n - 1 \in 0 .. m /\ n \in 1 .. m
    BY <1>1
  <2>2. g[n - 1] \in Seq(S) /\ g[n] = F[n][g[n - 1]]
    BY <1>4, <2>1 DEF Walked
  <2> QED
    BY <2>1, <2>2
<1> HIDE DEF F, Step
<1>6. g = [ n \in 0 .. m |-> IF n = 0 THEN <<>> ELSE Step(n, g[n - 1]) ]
  BY <1>4, <1>5 DEF Walked
<1>7. rest = [ n \in 0 .. m |-> IF n = 0 THEN <<>> ELSE Step(n, rest[n - 1]) ]
  BY <1>6
<1>8. Without(s, some) = rest[m]
  BY DEF Without, Step
<1> HIDE DEF rest
<1>9. rest[0] = <<>>
  BY <1>1, <1>7
<1>10. ASSUME NEW n \in 1 .. m PROVE rest[n] = Step(n, rest[n - 1])
  BY <1>1, <1>7
<1> QED
  BY <1>8, <1>9, <1>10 DEF Step

\* What is left of a sequence is made of its members, but for those that were taken.
LEMMA WithoutTyped ==
  ASSUME NEW S, NEW s \in Seq(S), NEW some
  PROVE  Without(s, some) \in Seq(S)
<1>1. PICK rest :
        /\ rest[0] = <<>> /\ Without(s, some) = rest[Len(s)]
        /\ \A n \in 1 .. Len(s) :
             rest[n] = IF s[n] \in some THEN rest[n - 1] ELSE Append(rest[n - 1], s[n])
  BY WithoutIs
<1> DEFINE T == { n \in 0 .. Len(s) : rest[n] \in Seq(S) }
<1>2. Len(s) \in Nat /\ 0 \in T
  <2>1. <<>> \in Seq(S) /\ Len(s) \in Nat
    OBVIOUS
  <2>2. rest[0] \in Seq(S) /\ 0 \in 0 .. Len(s)
    BY <1>1, <2>1
  <2> QED
    BY <2>1, <2>2
<1>3. ASSUME NEW n \in 1 .. Len(s), n - 1 \in T PROVE n \in T
  <2>1. s[n] \in S /\ n \in 0 .. Len(s) /\ rest[n - 1] \in Seq(S)
    BY <1>3
  <2>2. rest[n] = rest[n - 1] \/ rest[n] = Append(rest[n - 1], s[n])
    BY <1>1, Zenon
  <2> DEFINE before == rest[n - 1]
  <2>3. before \in Seq(S)
    BY <2>1
  <2> HIDE DEF before
  <2>4. Append(before, s[n]) \in Seq(S)
    BY <2>1, <2>3
  <2>5. rest[n] \in Seq(S)
    BY <2>2, <2>3, <2>4 DEF before
  <2> QED
    BY <2>1, <2>5
<1>4. \A n \in 0 .. Len(s) : n \in T
  <2> HIDE DEF T
  <2> QED
    BY <1>2, <1>3, StepByStep
<1> QED
  BY <1>1, <1>2, <1>4

-----------------------------------------------------------------------------
(* The shape of the search *)

\* What is asked is one of the queries while an answer is made; the tree is read for one
\* that names a category.
AskedOne ==
  /\ looking.step # "idle" => looking.query # NoQuery
  /\ looking.step \in {"level1", "level2"} => looking.query.topic # NoTopic

SearchTyped == SearchTypeOK /\ AskedOne

LEMMA RowTypes ==
  ASSUME SearchTypeOK, NEW p \in Pros
  PROVE  /\ pro[p] \in Pro
         /\ \A shown \in BOOLEAN : [ pro[p] EXCEPT !.shown = shown ] \in Pro
         /\ [ pro[p] EXCEPT !.gone = TRUE, !.shown = FALSE ] \in Pro
         /\ \A n \in Nat : [ pro[p] EXCEPT !.rating = n ] \in Pro
         /\ \A n \in Nat : [ pro[p] EXCEPT !.views = n ] \in Pro
         /\ \A excepted \in BOOLEAN : [ pro[p] EXCEPT !.excepted = excepted ] \in Pro
         /\ \A in \in SUBSET Topics : [ pro[p] EXCEPT !.in = in ] \in Pro
BY DEF SearchTypeOK, Pro

\* A change of the rows notes in the request who meets the query now.
LEMMA NoticedTyped ==
  ASSUME SearchTyped, NEW tree \in BOOLEAN, Noticed(tree)
  PROVE  changes' \in 0 .. MaxChanges /\ looking' \in Looking /\ AskedOne'
<1> USE SearchAssumption DEF SearchAssumption
<1>1. changes' \in 0 .. MaxChanges
  BY DEF Noticed, SearchTyped, SearchTypeOK
<1>2. looking \in Looking
  BY DEF SearchTyped, SearchTypeOK
<1>3. CASE looking.query = NoQuery
  <2>1. looking' = looking
    BY <1>3 DEF Noticed
  <2> QED
    BY <1>1, <1>2, <2>1 DEF SearchTyped, AskedOne
<1>4. CASE looking.query # NoQuery
  <2>5. PICK q : q = looking.query
    OBVIOUS
  <2>1. PICK now : now = Matching(q)'
    OBVIOUS
  <2>2. now \subseteq Pros
    BY <2>1 DEF Matching
  <2>3. looking' = [ looking EXCEPT !.steady = FALSE, !.moved = looking.moved \/ tree,
                                    !.matched = looking.matched \cup now ]
    BY <1>4, <2>1, <2>5 DEF Noticed
  <2>4. looking' \in Looking /\ looking'.step = looking.step /\ looking'.query = looking.query
    BY <1>2, <2>2, <2>3 DEF Looking
  <2> QED
    BY <1>1, <2>4 DEF SearchTyped, AskedOne
<1> QED
  BY <1>3, <1>4

LEMMA WriteProfileTyped ==
  ASSUME SearchTyped, NEW p \in Pros, NEW new \in Pro, WriteProfile(p, new)
  PROVE  SearchTyped'
<1>1. changes' \in 0 .. MaxChanges /\ looking' \in Looking /\ AskedOne'
  BY NoticedTyped DEF WriteProfile
<1>2. pro' \in [Pros -> Pro]
  BY DEF WriteProfile, SearchTyped, SearchTypeOK
<1> QED
  BY <1>1, <1>2 DEF WriteProfile, SearchTyped, SearchTypeOK

LEMMA MoveTopicTyped ==
  ASSUME SearchTyped, NEW t \in Topics, NEW to \in Topics \cup {NoTopic}, MoveTopic(t, to)
  PROVE  SearchTyped'
<1>1. changes' \in 0 .. MaxChanges /\ looking' \in Looking /\ AskedOne'
  BY NoticedTyped DEF MoveTopic
<1>2. above' \in [Topics -> Topics \cup {NoTopic}]
  BY DEF MoveTopic, SearchTyped, SearchTypeOK
<1> QED
  BY <1>1, <1>2 DEF MoveTopic, SearchTyped, SearchTypeOK

LEMMA WriteOfferTyped ==
  ASSUME SearchTyped, WriteOffer
  PROVE  SearchTyped'
<1>1. changes' \in 0 .. MaxChanges /\ looking' \in Looking /\ AskedOne'
  BY NoticedTyped DEF WriteOffer
<1> DEFINE old == offer[selling.of]
           Writes(new) == offer' = [offer EXCEPT ![selling.of] = new]
<1>2. old \in Offer /\ offer \in [Offers -> Offer] /\ selling.of \in Offers
  BY DEF SearchTyped, SearchTypeOK, Selling
<1>3. \/ \E n \in 1 .. 3 : Writes([ state |-> "live", active |-> TRUE, price |-> n ])
      \/ \E n \in {2, old.price}, a \in BOOLEAN : Writes([ old EXCEPT !.price = n, !.active = a ])
      \/ Writes([ old EXCEPT !.state = "removed" ])
  BY DEF WriteOffer
<1> HIDE DEF Writes, old
<1>4. \E new \in Offer : Writes(new)
  <2>1. ASSUME NEW n \in 1 .. 3 PROVE [ state |-> "live", active |-> TRUE, price |-> n ] \in Offer
    BY DEF Offer
  <2>2. ASSUME NEW n \in {2, old.price}, NEW a \in BOOLEAN
        PROVE  [ old EXCEPT !.price = n, !.active = a ] \in Offer
    <3>1. n \in Nat \ {0}
      BY <1>2 DEF Offer
    <3>2. [ old EXCEPT !.price = n ] \in Offer
      BY <1>2, <3>1 DEF Offer
    <3> QED
      BY <3>2 DEF Offer
  <2>3. [ old EXCEPT !.state = "removed" ] \in Offer
    BY <1>2 DEF Offer
  <2> QED
    BY <1>3, <2>1, <2>2, <2>3
<1>5. offer' \in [Offers -> Offer]
  BY <1>2, <1>4 DEF Writes
<1>6. selling' \in Selling
  BY <1>2 DEF WriteOffer, NotSelling, Selling
<1> QED
  BY <1>1, <1>5, <1>6 DEF WriteOffer, SearchTyped, SearchTypeOK

LEMMA BeginSellingTyped ==
  ASSUME SearchTyped, NEW o \in Offers, NEW op \in {"create", "update", "remove"}, BeginSelling(o, op)
  PROVE  SearchTyped'
<1>1. selling' \in Selling
  BY DEF BeginSelling, Selling
<1> QED
  BY <1>1 DEF BeginSelling, SearchTyped, SearchTypeOK, AskedOne

-----------------------------------------------------------------------------
(* The search's own statements *)

\* Whatever the next statement is, it leaves all but the request and the pages alone.
LEMMA LookTyped ==
  ASSUME SearchTyped, NEW doing \in Looking, Look(doing), pages' \in Seq(Page),
         doing.step # "idle" => doing.query # NoQuery,
         doing.step \in {"level1", "level2"} => doing.query.topic # NoTopic
  PROVE  SearchTyped'
BY DEF Look, SearchTyped, SearchTypeOK, AskedOne

LEMMA AskPageTyped ==
  ASSUME SearchTyped, AskPage
  PROVE  SearchTyped'
<1> DEFINE doing == [ looking EXCEPT
              !.step = IF looking.query.topic = NoTopic \/ looking.query.admin THEN "read" ELSE "level1",
              !.topics = {looking.query.topic} \ {NoTopic}, !.moved = FALSE,
              !.steady = IF pages = <<>> THEN TRUE ELSE looking.steady,
              !.matched = Matching(looking.query) ]
<1>1. Look(doing) /\ pages' = pages /\ looking.query # NoQuery
  BY DEF AskPage
<1>2. looking \in Looking /\ looking.query \in Queries /\ looking.query \in Query
  BY <1>1, SearchAssumption DEF SearchTyped, SearchTypeOK, Looking, SearchAssumption
<1>3. Matching(looking.query) \subseteq Pros
  BY DEF Matching
<1>4. {looking.query.topic} \ {NoTopic} \subseteq Topics
  BY <1>2 DEF Query
<1>5. doing \in Looking
  BY <1>2, <1>3, <1>4 DEF Looking
<1>6. doing.query = looking.query
      /\ (doing.step \in {"level1", "level2"} => looking.query.topic # NoTopic)
  BY <1>2 DEF Looking
<1> HIDE DEF doing
<1> QED
  BY <1>1, <1>5, <1>6, LookTyped DEF SearchTyped, SearchTypeOK

LEMMA ReadTopicsTyped ==
  ASSUME SearchTyped, ReadChildren \/ ReadGrandchildren
  PROVE  SearchTyped'
<1>1. looking \in Looking /\ looking.query # NoQuery /\ looking.query.topic # NoTopic
      /\ looking.query \in Query
  BY SearchAssumption DEF SearchTyped, SearchTypeOK, AskedOne, ReadChildren, ReadGrandchildren, Looking,
                          SearchAssumption
<1>2. ASSUME NEW topics PROVE Below(topics) \subseteq Topics
  BY DEF Below
<1>3. CASE ReadChildren
  <2> DEFINE doing == [ looking EXCEPT !.step = "level2",
                                       !.topics = looking.topics \cup Below(looking.topics) ]
  <2>1. Look(doing) /\ pages' = pages
    BY <1>3 DEF ReadChildren
  <2>2. Below(looking.topics) \subseteq Topics
    BY <1>2
  <2>3. doing \in Looking /\ doing.query = looking.query
    BY <1>1, <2>2 DEF Looking
  <2> HIDE DEF doing
  <2> QED
    BY <1>1, <2>1, <2>3, LookTyped DEF SearchTyped, SearchTypeOK
<1>4. CASE ReadGrandchildren
  <2> DEFINE more  == TwoHops(looking.topics \ {looking.query.topic})
             doing == [ looking EXCEPT !.step = "read", !.topics = {looking.query.topic} \cup more ]
  <2>1. Look(doing) /\ pages' = pages
    BY <1>4 DEF ReadGrandchildren
  <2>2. more \subseteq Topics
    BY <1>1, <1>2 DEF TwoHops, Looking
  <2>3. looking.query.topic \in Topics
    BY <1>1 DEF Query
  <2> HIDE DEF more
  <2>4. doing \in Looking /\ doing.query = looking.query
    BY <1>1, <2>2, <2>3 DEF Looking
  <2> HIDE DEF doing
  <2> QED
    BY <1>1, <2>1, <2>4, LookTyped DEF SearchTyped, SearchTypeOK
<1> QED
  BY <1>3, <1>4

\* A ranking lists those found, and a page is a stretch of it.
LEMMA RankingsTyped ==
  ASSUME NEW q, NEW found \in SUBSET Pros, NEW s \in Rankings(q, found)
  PROVE  s \in Seq(Pros)
<1>1. s \in SetToSeqs(found)
  BY DEF Rankings
<1>2. s \in [1 .. Cardinality(found) -> found]
  BY <1>1 DEF SetToSeqs
<1>3. Cardinality(found) \in Nat
  BY SearchAssumption, FS_Subset, FS_CardinalityType DEF SearchAssumption
<1> QED
  BY <1>2, <1>3

LEMMA RankPageTyped ==
  ASSUME SearchTyped, RankPage
  PROVE  SearchTyped'
<1>1. looking \in Looking /\ looking.query # NoQuery /\ looking.query \in Query
      /\ looking.step = "read" /\ pages \in Seq(Page)
  BY SearchAssumption DEF SearchTyped, SearchTypeOK, AskedOne, RankPage, Looking, SearchAssumption
<1>2. PICK s \in Rankings(looking.query, Found) :
        Look([ looking EXCEPT !.ranked = TRUE,
               !.rows = SubSeq(s, Skip + 1, Min({Len(s), Skip + looking.query.limit})) ])
  BY DEF RankPage
<1>3. s \in Seq(Pros)
  <2>1. Found \in SUBSET Pros
    BY DEF Found
  <2> QED
    BY <2>1, RankingsTyped
<1> DEFINE till == Skip + looking.query.limit
           end  == Min({Len(s), till})
           rows == SubSeq(s, Skip + 1, end)
           doing == [ looking EXCEPT !.ranked = TRUE, !.rows = rows ]
<1>4. Skip \in Nat /\ till \in Nat /\ Len(s) \in Nat
  BY <1>1, <1>3 DEF Skip, Query
<1>5. end \in Nat /\ end <= Len(s)
  <2>1. (CHOOSE x \in {Len(s), till} : \A y \in {Len(s), till} : x <= y) \in {Len(s), till}
        /\ \A y \in {Len(s), till} : (CHOOSE x \in {Len(s), till} : \A y2 \in {Len(s), till} : x <= y2) <= y
    BY <1>4
  <2> QED
    BY <1>4, <2>1 DEF Min
<1> HIDE DEF end, till
<1>6. rows \in Seq(Pros)
  BY <1>3, <1>4, <1>5
<1>7. Look(doing)
  BY <1>2 DEF end, till
<1> HIDE DEF rows
<1>8. doing \in Looking /\ doing.query = looking.query /\ doing.step = "read"
  BY <1>1, <1>6 DEF Looking
<1> HIDE DEF doing
<1> QED
  BY <1>1, <1>7, <1>8, LookTyped DEF RankPage

LEMMA CountAllTyped ==
  ASSUME SearchTyped, CountAll
  PROVE  SearchTyped'
<1>1. looking \in Looking /\ looking.query # NoQuery /\ looking.step = "read" /\ pages \in Seq(Page)
  BY DEF SearchTyped, SearchTypeOK, AskedOne, CountAll
<1>2. Cardinality(Found) \in Nat
  BY SearchAssumption, FS_Subset, FS_CardinalityType DEF Found, SearchAssumption
<1> DEFINE doing == [ looking EXCEPT !.counted = TRUE, !.total = Cardinality(Found) ]
<1>3. doing \in Looking /\ doing.query = looking.query /\ doing.step = "read"
  BY <1>1, <1>2 DEF Looking
<1>4. Look(doing) /\ pages' = pages
  BY DEF CountAll
<1> HIDE DEF doing
<1> QED
  BY <1>1, <1>3, <1>4, LookTyped

LEMMA DtoTyped ==
  ASSUME SearchTyped, NEW p \in Pros
  PROVE  PublicDto(p) \in Dto
<1>1. pro[p].shown \in BOOLEAN
  BY DEF SearchTyped, SearchTypeOK, Pro
<1>2. PricesOf(p) \subseteq Nat
  BY DEF PricesOf, Priced, SearchTyped, SearchTypeOK, Offer
<1>3. ASSUME PricesOf(p) # {} PROVE Cheapest(p) \in Nat
  <2>1. PICK least \in PricesOf(p) : \A n \in PricesOf(p) : least <= n
    BY <1>2, <1>3, LeastOf
  <2> HIDE DEF PricesOf
  <2>2. Cheapest(p) \in PricesOf(p)
    BY <2>1 DEF Cheapest, Min
  <2> QED
    BY <1>2, <2>2
<1> QED
  BY <1>1, <1>3 DEF PublicDto, Dto

\* An answer is a page of what it shows, whoever made it.
LEMMA AnswerTyped ==
  ASSUME SearchTyped, looking.query # NoQuery, NEW items \in Seq(Dto), AnswerWith(items)
  PROVE  SearchTyped'
<1>1. looking \in Looking /\ pages \in Seq(Page)
  BY DEF SearchTyped, SearchTypeOK
<1> DEFINE page  == [ items |-> items, total |-> looking.total, matched |-> looking.matched,
                      moved |-> looking.moved, steady |-> looking.steady ]
           doing == [ NotLooking EXCEPT !.query = looking.query, !.steady = looking.steady ]
<1>2. page \in Page
  BY <1>1 DEF Looking, Page
<1>3. pages' = Append(pages, page) /\ Look(doing)
  BY DEF AnswerWith
<1> HIDE DEF page
<1>4. pages' \in Seq(Page)
  BY <1>1, <1>2, <1>3
<1>5. <<>> \in Seq(Pros)
  OBVIOUS
<1>6. doing \in Looking /\ doing.step = "idle"
  BY <1>1, <1>5 DEF Looking, NotLooking
<1> HIDE DEF doing
<1> QED
  BY <1>3, <1>4, <1>6, LookTyped

LEMMA HydrateTyped ==
  ASSUME SearchTyped, Hydrate \/ ReadEarnings
  PROVE  SearchTyped'
<1>1. looking.query # NoQuery /\ looking.rows \in Seq(Pros)
  BY DEF Hydrate, ReadEarnings, SearchTyped, SearchTypeOK, Looking
<1>2. ASSUME NEW there \in Seq(Pros) PROVE [i \in DOMAIN there |-> PublicDto(there[i])] \in Seq(Dto)
  <2>1. \A i \in DOMAIN there : PublicDto(there[i]) \in Dto
    BY DtoTyped
  <2>2. DOMAIN there = 1 .. Len(there) /\ Len(there) \in Nat
    OBVIOUS
  <2> QED
    BY <2>1, <2>2
<1>3. PICK there : /\ there \in Seq(Pros)
                   /\ AnswerWith([i \in DOMAIN there |-> PublicDto(there[i])])
  <2>1. CASE Hydrate
    <3>1. Without(looking.rows, { p \in Pros : pro[p].gone }) \in Seq(Pros)
      BY <1>1, WithoutTyped
    <3> QED
      BY <2>1, <3>1 DEF Hydrate
  <2>2. CASE ReadEarnings
    BY <1>1, <2>2 DEF ReadEarnings
  <2> QED
    BY <2>1, <2>2
<1> QED
  BY <1>1, <1>2, <1>3, AnswerTyped

-----------------------------------------------------------------------------
(* One master *)

LEMMA CalledTyped ==
  ASSUME SearchTyped, NEW v \in Calling, Called(v), pro' \in [Pros -> Pro],
         kept' \in Keeping
  PROVE  SearchTyped'
BY DEF Called, SearchTyped, SearchTypeOK, AskedOne

LEMMA CallTyped ==
  ASSUME SearchTyped,
         \/ \E p \in Pros, errand \in Errands : AskMaster(p, errand)
         \/ AnswerProfile \/ CountView \/ ReadSection \/ KeepMaster \/ \E p \in Pros : Unfavorite(p)
  PROVE  SearchTyped'
<1> USE SearchAssumption DEF SearchAssumption
<1>1. /\ pro \in [Pros -> Pro] /\ calling \in Calling /\ calling.of \in Pros
      /\ calling.made \in 0 .. MaxCalls
      /\ kept \in Keeping
  BY DEF SearchTyped, SearchTypeOK, Calling
<1>2. (CHOOSE u \in Errands : TRUE) \in Errands
  OBVIOUS
<1>3. NotCalling(calling.of, calling.made) \in Calling
  BY <1>1, <1>2 DEF NotCalling, Calling
<1>4. ASSUME NEW p \in Pros, NEW errand \in Errands, AskMaster(p, errand) PROVE SearchTyped'
  <2> DEFINE v == [ step |-> "admitted", of |-> p, errand |-> errand, made |-> calling.made + 1 ]
  <2>1. Called(v) /\ calling.made < MaxCalls
    BY <1>4 DEF AskMaster
  <2>3. calling.made + 1 \in 0 .. MaxCalls
    BY <1>1, <2>1
  <2>2. v \in Calling
    BY <2>3 DEF Calling
  <2> HIDE DEF v
  <2> QED
    BY <1>1, <1>4, <2>1, <2>2, CalledTyped DEF AskMaster
<1>5. CASE AnswerProfile
  <2> DEFINE v == [ calling EXCEPT !.step = "counting" ]
  <2>1. v \in Calling /\ Called(v)
    BY <1>1, <1>5 DEF AnswerProfile, Calling
  <2> HIDE DEF v
  <2> QED
    BY <1>1, <1>5, <2>1, CalledTyped DEF AnswerProfile
<1>6. CASE CountView
  <2>4. pro[calling.of] \in Pro
    BY <1>1
  <2>5. pro[calling.of].views \in Nat
    BY <2>4 DEF Pro
  <2>1. pro[calling.of] \in Pro /\ pro[calling.of].views + 1 \in Nat
    BY <2>4, <2>5
  <2>2. [ pro[calling.of] EXCEPT !.views = pro[calling.of].views + 1 ] \in Pro
    BY <2>1 DEF Pro
  <2>3. pro' \in [Pros -> Pro]
    BY <1>1, <1>6, <2>2 DEF CountView
  <2> QED
    BY <1>1, <1>3, <1>6, <2>3, CalledTyped DEF CountView
<1>7. CASE ReadSection
  BY <1>1, <1>3, <1>7, CalledTyped DEF ReadSection
<1>8. CASE KeepMaster
  <2>1. Latest(kept.viewed, calling.of) \in Seq(Pros)
    <3>1. Without(kept.viewed, {calling.of}) \in Seq(Pros)
      BY <1>1, WithoutTyped DEF Keeping
    <3> QED
      BY <1>1, <3>1 DEF Latest
  <2>2. \/ kept' = [ kept EXCEPT !.favorites = kept.favorites \cup {calling.of} ]
        \/ kept' = [ kept EXCEPT !.viewed = Latest(kept.viewed, calling.of) ]
    BY <1>8 DEF KeepMaster
  <2>3. kept' \in Keeping
    BY <1>1, <2>1, <2>2 DEF Keeping
  <2> QED
    BY <1>1, <1>3, <1>8, <2>3, CalledTyped DEF KeepMaster
<1>9. ASSUME NEW p \in Pros, Unfavorite(p) PROVE SearchTyped'
  <2>1. kept' \in Keeping
    BY <1>1, <1>9 DEF Unfavorite, Keeping
  <2> QED
    BY <1>1, <1>9, <2>1, CalledTyped DEF Unfavorite
<1> QED
  BY <1>4, <1>5, <1>6, <1>7, <1>8, <1>9

LEMMA ProfileTyped ==
  ASSUME SearchTyped, NEW p \in Pros,
         \/ SetShown(p) \/ EndPro(p) \/ SetRating(p) \/ ExceptDay(p)
         \/ \E t \in Topics : AttachCategory(p, t) \/ DetachCategory(p, t)
  PROVE  SearchTyped'
<1>1. pro[p] \in Pro
  BY DEF SearchTyped, SearchTypeOK
<1>2. PICK row : row \in Pro /\ WriteProfile(p, row)
  <2>1. CASE SetShown(p)
    BY <1>1, <2>1 DEF SetShown, Pro
  <2>2. CASE EndPro(p)
    BY <1>1, <2>2 DEF EndPro, Pro
  <2>3. CASE SetRating(p)
    BY <1>1, <2>3 DEF SetRating, Pro
  <2>4. CASE ExceptDay(p)
    BY <1>1, <2>4 DEF ExceptDay, Pro
  <2>5. ASSUME NEW t \in Topics, AttachCategory(p, t) \/ DetachCategory(p, t)
        PROVE \E row : row \in Pro /\ WriteProfile(p, row)
    BY <1>1, <2>5 DEF AttachCategory, DetachCategory, Pro
  <2> QED
    BY <2>1, <2>2, <2>3, <2>4, <2>5
<1> QED
  BY <1>2, WriteProfileTyped

LEMMA SearchTypedKept ==
  ASSUME SearchTyped, NextSearch
  PROVE  SearchTyped'
<1>1. ASSUME NEW p \in Pros,
             \/ SetShown(p) \/ EndPro(p) \/ SetRating(p) \/ ExceptDay(p) \/ Unfavorite(p)
             \/ \E t \in Topics : AttachCategory(p, t) \/ DetachCategory(p, t)
             \/ \E errand \in Errands : AskMaster(p, errand)
      PROVE SearchTyped'
  BY <1>1, ProfileTyped, CallTyped
<1>2. ASSUME NEW t \in Topics, NEW to \in Topics \cup {NoTopic}, MoveTopic(t, to) PROVE SearchTyped'
  BY <1>2, MoveTopicTyped
<1>3. ASSUME NEW o \in Offers, NEW op \in {"create", "update", "remove"}, BeginSelling(o, op)
      PROVE SearchTyped'
  BY <1>3, BeginSellingTyped
<1>4. CASE WriteOffer \/ AskPage \/ ReadChildren \/ ReadGrandchildren \/ RankPage \/ CountAll
           \/ Hydrate \/ ReadEarnings
  BY <1>4, WriteOfferTyped, AskPageTyped, ReadTopicsTyped, RankPageTyped, CountAllTyped, HydrateTyped
<1>5. CASE AnswerProfile \/ CountView \/ ReadSection \/ KeepMaster
  BY <1>5, CallTyped
<1> QED
  BY <1>1, <1>2, <1>3, <1>4, <1>5 DEF NextSearch

LEMMA SearchTypedAtFirst ==
  ASSUME InitSearch
  PROVE  SearchTyped
<1> USE SearchAssumption DEF SearchAssumption
<1>1. pro \in [Pros -> Pro] /\ offer \in [Offers -> Offer] /\ above \in [Topics -> Topics \cup {NoTopic}]
      /\ changes \in 0 .. MaxChanges
  BY DEF InitSearch
<1>2. selling \in Selling
  BY DEF InitSearch, NotSelling, Selling
<1>3. <<>> \in Seq(Pros) /\ <<>> \in Seq(Page)
  OBVIOUS
<1>4. PICK q \in Queries \cup {NoQuery} : looking = [ NotLooking EXCEPT !.query = q ]
  BY DEF InitSearch
<1>5. looking \in Looking /\ looking.step = "idle"
  BY <1>3, <1>4 DEF NotLooking, Looking
<1>6. calling \in Calling
  BY DEF InitSearch, NotCalling, Calling
<1>7. kept \in Keeping /\ pages \in Seq(Page)
  BY <1>3 DEF InitSearch, Keeping
<1> QED
  BY <1>1, <1>2, <1>5, <1>6, <1>7 DEF SearchTyped, SearchTypeOK, AskedOne

-----------------------------------------------------------------------------
(* Rankings *)

\* Nobody taken, nothing is left out.
LEMMA WithoutNone ==
  ASSUME NEW S, NEW s \in Seq(S), NEW some, \A n \in 1 .. Len(s) : s[n] \notin some
  PROVE  Without(s, some) = s
<1>1. PICK rest :
        /\ rest[0] = <<>> /\ Without(s, some) = rest[Len(s)]
        /\ \A n \in 1 .. Len(s) :
             rest[n] = IF s[n] \in some THEN rest[n - 1] ELSE Append(rest[n - 1], s[n])
  BY WithoutIs
<1> DEFINE T == { n \in 0 .. Len(s) : rest[n] = SubSeq(s, 1, n) }
<1>2. Len(s) \in Nat /\ 0 \in T
  <2>1. Len(s) \in Nat /\ SubSeq(s, 1, 0) = <<>>
    OBVIOUS
  <2>2. rest[0] = SubSeq(s, 1, 0) /\ 0 \in 0 .. Len(s)
    BY <1>1, <2>1
  <2> QED
    BY <2>1, <2>2
<1>3. ASSUME NEW n \in 1 .. Len(s), n - 1 \in T PROVE n \in T
  <2>1. rest[n] = Append(rest[n - 1], s[n]) /\ rest[n - 1] = SubSeq(s, 1, n - 1)
    BY <1>1, <1>3
  <2>2. Append(SubSeq(s, 1, n - 1), s[n]) = SubSeq(s, 1, n)
    BY <1>2
  <2> QED
    BY <2>1, <2>2
<1>4. \A n \in 0 .. Len(s) : n \in T
  <2> HIDE DEF T
  <2> QED
    BY <1>2, <1>3, StepByStep
<1>6. Len(s) \in T
  BY <1>2, <1>4
<1>5. SubSeq(s, 1, Len(s)) = s
  OBVIOUS
<1> QED
  BY <1>1, <1>5, <1>6

\* What is left of a list without repetition is one, of the same members but those taken.
Distinct(s) == \A i, j \in 1 .. Len(s) : s[i] = s[j] => i = j
Thinned(r, s, n, some) ==
  /\ Len(r) <= n /\ Distinct(r)
  /\ \A i \in 1 .. Len(r) : \E j \in 1 .. n : r[i] = s[j] /\ s[j] \notin some

LEMMA WithoutThins ==
  ASSUME NEW S, NEW s \in Seq(S), NEW some, Distinct(s)
  PROVE  Thinned(Without(s, some), s, Len(s), some)
<1>1. PICK rest :
        /\ rest[0] = <<>> /\ Without(s, some) = rest[Len(s)]
        /\ \A n \in 1 .. Len(s) :
             rest[n] = IF s[n] \in some THEN rest[n - 1] ELSE Append(rest[n - 1], s[n])
  BY WithoutIs
<1> DEFINE T == { n \in 0 .. Len(s) : rest[n] \in Seq(S) /\ Thinned(rest[n], s, n, some) }
<1>2. Len(s) \in Nat /\ 0 \in T
  <2>1. Len(s) \in Nat /\ <<>> \in Seq(S) /\ Thinned(<<>>, s, 0, some)
    BY DEF Thinned, Distinct
  <2>2. 0 \in 0 .. Len(s)
    BY <2>1
  <2> QED
    BY <1>1, <2>1, <2>2
<1>3. ASSUME NEW n \in 1 .. Len(s), n - 1 \in T PROVE n \in T
  <2> PICK before : before = rest[n - 1]
    OBVIOUS
  <2>1. s[n] \in S /\ n \in 0 .. Len(s) /\ n - 1 \in 0 .. Len(s)
        /\ before \in Seq(S) /\ Thinned(before, s, n - 1, some)
    BY <1>3
  <2>2. CASE s[n] \in some
    <3>1. rest[n] = before
      BY <1>1, <2>2
    <3>2. Thinned(before, s, n, some)
      BY <2>1 DEF Thinned
    <3> QED
      BY <2>1, <3>1, <3>2
  <2>3. CASE s[n] \notin some
    <3> DEFINE r == Append(before, s[n])
    <3>1. rest[n] = r
      BY <1>1, <2>3
    <3>2. r \in Seq(S) /\ Len(r) = Len(before) + 1 /\ r[Len(r)] = s[n]
          /\ \A i \in 1 .. Len(before) : r[i] = before[i]
      BY <2>1
    <3>9. Len(before) \in Nat
      BY <2>1
    <3>3. Len(before) <= n - 1 /\ Distinct(before)
          /\ \A i \in 1 .. Len(before) : \E j \in 1 .. n - 1 : before[i] = s[j] /\ s[j] \notin some
      BY <2>1 DEF Thinned
    <3> HIDE DEF r
    <3>4. \A i \in 1 .. Len(r) : i \in 1 .. Len(before) \/ i = Len(r)
      BY <3>2, <3>9
    <3>5. \A i \in 1 .. Len(r) : \E j \in 1 .. n : r[i] = s[j] /\ s[j] \notin some
      <4> SUFFICES ASSUME NEW i \in 1 .. Len(r)
                   PROVE  \E j \in 1 .. n : r[i] = s[j] /\ s[j] \notin some
        OBVIOUS
      <4>1. CASE i = Len(r)
        BY <2>3, <3>2, <4>1
      <4>2. CASE i \in 1 .. Len(before)
        <5>1. PICK j \in 1 .. n - 1 : before[i] = s[j] /\ s[j] \notin some
          BY <3>3, <4>2
        <5>2. j \in 1 .. n /\ r[i] = s[j]
          BY <3>2, <4>2, <5>1
        <5> QED
          BY <5>1, <5>2
      <4> QED
        BY <3>4, <4>1, <4>2
    <3>6. \A i \in 1 .. Len(before) : before[i] # s[n]
      <4> SUFFICES ASSUME NEW i \in 1 .. Len(before), before[i] = s[n] PROVE FALSE
        OBVIOUS
      <4>1. PICK j \in 1 .. n - 1 : before[i] = s[j]
        BY <3>3
      <4>2. j \in 1 .. Len(s) /\ n \in 1 .. Len(s) /\ j # n /\ s[j] = s[n]
        BY <1>2, <4>1
      <4> QED
        BY <4>2 DEF Distinct
    <3>7. Distinct(r)
      <4> SUFFICES ASSUME NEW i \in 1 .. Len(r), NEW j \in 1 .. Len(r), r[i] = r[j] PROVE i = j
        BY DEF Distinct
      <4>1. CASE i = Len(r) /\ j # Len(r)
        BY <3>2, <3>4, <3>6, <4>1
      <4>2. CASE j = Len(r) /\ i # Len(r)
        BY <3>2, <3>4, <3>6, <4>2
      <4>3. CASE i # Len(r) /\ j # Len(r)
        BY <3>2, <3>3, <3>4, <4>3 DEF Distinct
      <4> QED
        BY <4>1, <4>2, <4>3
    <3>8. Len(r) <= n
      BY <3>2, <3>3, <3>9
    <3> QED
      BY <2>1, <3>1, <3>2, <3>5, <3>7, <3>8 DEF Thinned
  <2> QED
    BY <2>2, <2>3
<1>4. \A n \in 0 .. Len(s) : n \in T
  <2> HIDE DEF T
  <2> QED
    BY <1>2, <1>3, StepByStep
<1>6. Len(s) \in T
  BY <1>2, <1>4
<1> QED
  BY <1>1, <1>6

-----------------------------------------------------------------------------
(* The order *)

\* Whom a service counts for; the cheapest of them is a price.
LEMMA PricesTyped ==
  ASSUME SearchTyped, NEW p \in Pros
  PROVE  PricesOf(p) \subseteq Nat \ {0} /\ (PricesOf(p) # {} => Cheapest(p) \in Nat \ {0})
<1>1. PricesOf(p) \subseteq Nat \ {0}
  BY DEF PricesOf, Priced, SearchTyped, SearchTypeOK, Offer
<1>2. ASSUME PricesOf(p) # {} PROVE Cheapest(p) \in Nat \ {0}
  <2>1. PICK least \in PricesOf(p) : \A n \in PricesOf(p) : least <= n
    BY <1>1, <1>2, LeastOf
  <2> HIDE DEF PricesOf
  <2>2. Cheapest(p) \in PricesOf(p)
    BY <2>1 DEF Cheapest, Min
  <2> QED
    BY <1>1, <2>2
<1> QED
  BY <1>1, <1>2

\* Each of the orders compares one number, or puts those without one last.
LEMMA PrecedesOrders ==
  ASSUME SearchTyped, NEW q \in Query
  PROVE  \A a, b, c \in Pros : /\ ~Precedes(q, a, a)
                               /\ Precedes(q, a, b) /\ Precedes(q, b, c) => Precedes(q, a, c)
<1> SUFFICES ASSUME NEW a \in Pros, NEW b \in Pros, NEW c \in Pros
             PROVE  /\ ~Precedes(q, a, a)
                    /\ Precedes(q, a, b) /\ Precedes(q, b, c) => Precedes(q, a, c)
  OBVIOUS
<1>1. \A p \in {a, b, c} : /\ Joined[p] \in Nat /\ Away[p] \in Nat /\ pro[p].rating \in Nat
                           /\ PricesOf(p) # {} => Cheapest(p) \in Nat
  BY PricesTyped, SearchAssumption DEF SearchAssumption, SearchTyped, SearchTypeOK, Pro
<1>2. CASE q.sort = "created"
  BY <1>1, <1>2 DEF Precedes
<1>3. CASE q.sort = "distance"
  BY <1>1, <1>3 DEF Precedes
<1>4. CASE q.sort = "price:asc"
  BY <1>1, <1>4 DEF Precedes
<1>5. CASE q.sort = "price:desc"
  BY <1>1, <1>5 DEF Precedes
<1>6. CASE q.sort = "rating"
  BY <1>1, <1>6 DEF Precedes
<1>7. q.sort \in {"created", "distance", "price:asc", "price:desc", "rating"}
  BY DEF Query
<1> QED
  BY <1>2, <1>3, <1>4, <1>5, <1>6, <1>7

\* A ranking is a list of all of them, each once.
LEMMA RankingIs ==
  ASSUME NEW q, NEW found \in SUBSET Pros, NEW s \in Rankings(q, found)
  PROVE  /\ s \in Seq(found) /\ Len(s) = Cardinality(found) /\ Len(s) \in Nat /\ Distinct(s)
         /\ \A p \in found : \E i \in 1 .. Len(s) : s[i] = p
         /\ \A i, j \in 1 .. Len(s) : i < j => ~Precedes(q, s[j], s[i])
<1>1. s \in SetToSeqs(found)
  BY DEF Rankings
<1> DEFINE m == Cardinality(found)
<1>2. s \in [1 .. m -> found] /\ \A i, j \in 1 .. m : i # j => s[i] # s[j]
  BY <1>1 DEF SetToSeqs
<1>3. IsFiniteSet(found) /\ m \in Nat
  BY SearchAssumption, FS_Subset, FS_CardinalityType DEF SearchAssumption
<1>4. Len(s) = m /\ s \in Seq(found)
  BY <1>2, <1>3
<1>5. s \in Surjection(1 .. m, found)
  <2>1. s \in Injection(1 .. m, found)
    BY <1>2 DEF Injection, IsInjective
  <2>2. Cardinality(1 .. m) = m
    <3>1. 1 \in Int /\ m \in Int /\ Cardinality(1 .. m) = IF 1 > m THEN 0 ELSE m - 1 + 1
      BY <1>3, FS_Interval
    <3> QED
      BY <1>3, <3>1
  <2> QED
    BY <1>3, <2>1, <2>2, FS_Injection
<1>6. \A p \in found : \E i \in 1 .. m : s[i] = p
  BY <1>5 DEF Surjection
<1>7. \A i, j \in DOMAIN s : i < j => ~Precedes(q, s[j], s[i])
  BY DEF Rankings
<1> HIDE DEF m
<1> QED
  BY <1>2, <1>3, <1>4, <1>6, <1>7 DEF m, Distinct

\* Who is last among some: nobody comes after.
LEMMA SomeoneLast ==
  ASSUME SearchTyped, NEW q \in Query, NEW found \in SUBSET Pros, found # {}
  PROVE  \E p \in found : \A x \in found : ~Precedes(q, p, x)
<1> DEFINE After(p) == { x \in found : Precedes(q, p, x) }
           Counts == { Cardinality(After(p)) : p \in found }
<1>1. IsFiniteSet(found)
  BY SearchAssumption, FS_Subset DEF SearchAssumption
<1>2. \A p \in found : IsFiniteSet(After(p)) /\ Cardinality(After(p)) \in Nat
  BY <1>1, FS_Subset, FS_CardinalityType
<1>3. PICK n \in Counts : \A k \in Counts : n <= k
  <2>1. Counts \subseteq Nat /\ Counts # {}
    BY <1>2
  <2> HIDE DEF Counts
  <2> QED
    BY <2>1, LeastOf
<1>4. PICK p \in found : n = Cardinality(After(p))
  OBVIOUS
<1>5. ASSUME NEW x \in found, Precedes(q, p, x) PROVE FALSE
  <2>1. After(x) \subseteq After(p) /\ x \in After(p) /\ x \notin After(x)
    BY <1>5, PrecedesOrders
  <2>2. Cardinality(After(x)) \in Counts
    OBVIOUS
  <2>3. Cardinality(After(p)) <= Cardinality(After(x))
    BY <1>3, <1>4, <2>2
  <2> HIDE DEF After
  <2>4. Cardinality(After(x)) <= Cardinality(After(p))
        /\ (Cardinality(After(p)) = Cardinality(After(x)) => After(p) = After(x))
    BY <1>2, <2>1, FS_Subset
  <2> QED
    BY <1>2, <2>1, <2>3, <2>4
<1> QED
  BY <1>5

\* However many there are, they can be ranked.
LEMMA RankingExists ==
  ASSUME SearchTyped, NEW q \in Query, NEW found \in SUBSET Pros
  PROVE  Rankings(q, found) # {}
<1> DEFINE T == { Cardinality(f) : f \in { g \in SUBSET Pros : Rankings(q, g) = {} } }
<1> SUFFICES ASSUME T # {} PROVE FALSE
  OBVIOUS
<1>1. \A f \in SUBSET Pros : IsFiniteSet(f) /\ Cardinality(f) \in Nat
  BY SearchAssumption, FS_Subset, FS_CardinalityType DEF SearchAssumption
<1>2. PICK k \in T : \A n \in T : k <= n
  <2>1. T \subseteq Nat
    BY <1>1
  <2> HIDE DEF T
  <2> QED
    BY <2>1, LeastOf
<1>3. PICK f \in SUBSET Pros : Rankings(q, f) = {} /\ k = Cardinality(f)
  OBVIOUS
<1>4. f # {}
  <2> SUFFICES ASSUME f = {} PROVE FALSE
    OBVIOUS
  <2>1. Cardinality(f) = 0
    BY FS_EmptySet
  <2>2. <<>> \in SetToSeqs(f)
    BY <2>1 DEF SetToSeqs
  <2>3. <<>> \in Rankings(q, f)
    BY <2>2 DEF Rankings
  <2> QED
    BY <1>3, <2>3
<1>5. PICK p \in f : \A x \in f : ~Precedes(q, p, x)
  BY <1>4, SomeoneLast
<1>6. /\ f \ {p} \in SUBSET Pros
      /\ Cardinality(f \ {p}) = Cardinality(f) - 1
  BY <1>1, FS_RemoveElement
<1>7. PICK r : r \in Rankings(q, f \ {p})
  <2>1. Cardinality(f \ {p}) \in T => k <= Cardinality(f \ {p})
    BY <1>2
  <2>2. Cardinality(f \ {p}) \notin T
    <3> HIDE DEF T
    <3>1. Cardinality(f) \in Nat
      BY <1>1
    <3> QED
      BY <1>3, <1>6, <2>1, <3>1
  <2> QED
    BY <1>6, <2>2
<1> DEFINE s == Append(r, p)
<1>8. /\ r \in Seq(f \ {p}) /\ Len(r) = Cardinality(f \ {p}) /\ Len(r) \in Nat /\ Distinct(r)
      /\ \A i, j \in 1 .. Len(r) : i < j => ~Precedes(q, r[j], r[i])
  BY <1>6, <1>7, RankingIs
<1>15. r \in Seq(f)
  BY <1>8
<1>16. \A i \in 1 .. Len(r) : r[i] \in f \ {p}
  BY <1>8
<1>17. Cardinality(f) \in Nat
  BY <1>1
<1>9. /\ s \in Seq(f) /\ Len(s) = Len(r) + 1 /\ Len(s) = Cardinality(f) /\ s[Len(s)] = p
      /\ \A i \in 1 .. Len(r) : s[i] = r[i] /\ r[i] \in f \ {p}
  <2>1. s \in Seq(f) /\ Len(s) = Len(r) + 1 /\ s[Len(s)] = p /\ \A i \in 1 .. Len(r) : s[i] = r[i]
    BY <1>15
  <2>2. Len(r) + 1 = Cardinality(f)
    BY <1>6, <1>8, <1>17
  <2> QED
    BY <1>16, <2>1, <2>2
<1>18. Len(r) \in Nat /\ Len(s) = Len(r) + 1
  BY <1>8, <1>9
<1> HIDE DEF s
<1>10. \A i \in 1 .. Len(s) : i \in 1 .. Len(r) \/ i = Len(s)
  BY <1>18
<1>11. s \in SetToSeqs(f)
  <2>1. \A i, j \in 1 .. Len(s) : i # j => s[i] # s[j]
    BY <1>8, <1>9, <1>10 DEF Distinct
  <2>2. s \in [1 .. Cardinality(f) -> f]
    BY <1>9
  <2> QED
    BY <1>9, <2>1, <2>2 DEF SetToSeqs
<1>12. \A i, j \in 1 .. Len(s) : i < j => ~Precedes(q, s[j], s[i])
  <2> SUFFICES ASSUME NEW i \in 1 .. Len(s), NEW j \in 1 .. Len(s), i < j
               PROVE  ~Precedes(q, s[j], s[i])
    OBVIOUS
  <2>1. i \in 1 .. Len(r)
    BY <1>8, <1>9, <1>10
  <2>2. CASE j = Len(s)
    BY <1>5, <1>9, <2>1, <2>2
  <2>3. CASE j \in 1 .. Len(r)
    BY <1>8, <1>9, <2>1, <2>3
  <2> QED
    BY <1>10, <2>2, <2>3
<1>13. DOMAIN s = 1 .. Len(s)
  BY <1>9
<1>14. s \in Rankings(q, f)
  BY <1>11, <1>12, <1>13 DEF Rankings
<1> QED
  BY <1>3, <1>14

\* When no two of them are even, in one way only.
Decided(q, found) == \A a, b \in found : a # b => Precedes(q, a, b) \/ Precedes(q, b, a)

LEMMA RankingOne ==
  ASSUME SearchTyped, NEW q \in Query, NEW found \in SUBSET Pros, Decided(q, found),
         NEW s \in Rankings(q, found), NEW r \in Rankings(q, found)
  PROVE  s = r
<1>1. /\ s \in Seq(found) /\ Len(s) = Cardinality(found) /\ Len(s) \in Nat /\ Distinct(s)
      /\ \A p \in found : \E i \in 1 .. Len(s) : s[i] = p
      /\ \A i, j \in 1 .. Len(s) : i < j => ~Precedes(q, s[j], s[i])
  BY RankingIs
<1>2. /\ r \in Seq(found) /\ Len(r) = Cardinality(found) /\ Distinct(r)
      /\ \A p \in found : \E i \in 1 .. Len(r) : r[i] = p
      /\ \A i, j \in 1 .. Len(r) : i < j => ~Precedes(q, r[j], r[i])
  BY RankingIs
<1> DEFINE T == { i \in 1 .. Len(s) : s[i] # r[i] }
<1>3. ASSUME T # {} PROVE FALSE
  <2>1. PICK i \in T : \A j \in T : i <= j
    <3>1. T \subseteq Nat
      BY <1>1
    <3> HIDE DEF T
    <3> QED
      BY <1>3, <3>1, LeastOf
  <2>2. i \in 1 .. Len(s) /\ s[i] # r[i] /\ s[i] \in found /\ r[i] \in found
    BY <1>1, <1>2
  <2>3. \A j \in 1 .. Len(s) : j < i => s[j] = r[j]
    BY <1>1, <2>1
  <2>4. PICK j \in 1 .. Len(s) : r[j] = s[i]
    BY <1>1, <1>2, <2>2
  <2>5. PICK k \in 1 .. Len(s) : s[k] = r[i]
    BY <1>1, <2>2
  <2> HIDE DEF T
  <2>6. j > i
    <3>1. j # i
      BY <2>2, <2>4
    <3>2. ~(j < i)
      BY <2>2, <2>3, <2>4, <1>1, <3>1 DEF Distinct
    <3> QED
      BY <1>1, <2>2, <3>1, <3>2
  <2>7. k > i
    <3>1. k # i
      BY <2>2, <2>5
    <3>2. ~(k < i)
      <4> SUFFICES ASSUME k < i PROVE FALSE
        OBVIOUS
      <4>1. r[k] = r[i]
        BY <2>3, <2>5
      <4> QED
        BY <1>1, <1>2, <2>2, <3>1, <4>1 DEF Distinct
    <3> QED
      BY <1>1, <2>2, <3>1, <3>2
  <2>8. ~Precedes(q, s[i], r[i])
    BY <1>1, <1>2, <2>2, <2>4, <2>6
  <2>9. ~Precedes(q, r[i], s[i])
    BY <1>1, <2>2, <2>5, <2>7
  <2> QED
    BY <2>2, <2>8, <2>9 DEF Decided
<1>4. \A i \in 1 .. Len(s) : s[i] = r[i]
  BY <1>3
<1> QED
  BY <1>1, <1>2, <1>4

-----------------------------------------------------------------------------
(* What a request of the search knows *)

ProsOf(items) == [ i \in DOMAIN items |-> items[i].pro ]
Stretch(s, n, limit) == SubSeq(s, n * limit + 1, Min({Len(s), n * limit + limit}))

\* Below the category asked for, as far as it has been read and the tree has not moved.
TopicsRead ==
  LET t == looking.query.topic
      plain == t = NoTopic \/ looking.query.admin
  IN  /\ looking.step \in {"level1", "level2"} => ~plain
      /\ looking.step = "level1" /\ ~looking.moved => looking.topics = {t}
      /\ looking.step = "level2" /\ ~looking.moved => looking.topics = {t} \cup Below({t})
      /\ looking.step = "read" /\ ~looking.moved =>
           looking.topics = IF plain THEN {t} \ {NoTopic} ELSE Covered(t)

\* The rows of the page are each there once, met the query, and are the page of a ranking.
RowsRanked(q, everyone) ==
  /\ Distinct(looking.rows) /\ Len(looking.rows) <= q.limit
  /\ ~looking.moved => \A i \in 1 .. Len(looking.rows) : looking.rows[i] \in looking.matched
  /\ looking.steady =>
       \E s \in Rankings(q, everyone) : looking.rows = Stretch(s, Len(pages), q.limit)

AnswerRight(q, everyone) ==
  /\ looking.step # "idle" => everyone \subseteq looking.matched
  /\ TopicsRead
  /\ looking.steady /\ looking.step # "idle" => ~looking.moved
  /\ looking.step # "read" => ~looking.ranked /\ ~looking.counted
  /\ looking.ranked => RowsRanked(q, everyone)
  /\ looking.counted /\ looking.steady => looking.total = Cardinality(everyone)

\* The same of a page that has been received.
PricesRise(page) ==
  \A j, k \in 1 .. Len(page.items) :
    j < k /\ page.items[k].from # 0 => page.items[j].from \in 1 .. page.items[k].from
PageOnce(q, page) ==
  /\ Len(page.items) <= q.limit /\ Distinct(ProsOf(page.items))
  /\ ~page.moved => \A j \in 1 .. Len(page.items) : page.items[j].pro \in page.matched
PageSteady(q, everyone, i) ==
  /\ pages[i].steady =>
       pages[i].total = Cardinality(everyone) /\ (q.sort = "price:asc" => PricesRise(pages[i]))
  /\ \E s \in Rankings(q, everyone) : ProsOf(pages[i].items) = Stretch(s, i - 1, q.limit)
PagesRight(q, everyone) ==
  \A i \in 1 .. Len(pages) : /\ PageOnce(q, pages[i])
                             /\ looking.steady => PageSteady(q, everyone, i)

SearchInv ==
  /\ SearchTyped
  /\ Distinct(kept.viewed)
  /\ looking.query # NoQuery =>
       /\ AtRest(calling)
       /\ AnswerRight(looking.query, Matching(looking.query))
       /\ PagesRight(looking.query, Matching(looking.query))

\* While nothing is written, the same masters meet a query and rank alike.
LEMMA SameMarket ==
  ASSUME UNCHANGED <<pro, offer, above>>, NEW q
  PROVE  /\ Matching(q)' = Matching(q)
         /\ \A found : Rankings(q, found)' = Rankings(q, found)
         /\ \A t : Covered(t)' = Covered(t)
         /\ \A some : Below(some)' = Below(some)
<1>1. \A t : Covered(t)' = Covered(t)
  BY DEF Covered
<1>2. \A some : Below(some)' = Below(some)
  BY DEF Below
<1>3. \A p : PricesOf(p)' = PricesOf(p)
  BY DEF PricesOf, Priced
<1>4. \A a, b : Precedes(q, a, b)' = Precedes(q, a, b)
  <2> SUFFICES ASSUME NEW a, NEW b PROVE Precedes(q, a, b)' = Precedes(q, a, b)
    OBVIOUS
  <2>1. PricesOf(a)' = PricesOf(a) /\ PricesOf(b)' = PricesOf(b)
    BY <1>3
  <2>2. Cheapest(a)' = Cheapest(a) /\ Cheapest(b)' = Cheapest(b)
    BY <2>1 DEF Cheapest
  <2> QED
    BY <2>1, <2>2 DEF Precedes
<1>5. \A found : Rankings(q, found)' = Rankings(q, found)
  BY <1>4 DEF Rankings
<1>6. \A p, some : Meets(p, q, some)' = Meets(p, q, some)
  <2> SUFFICES ASSUME NEW p, NEW some PROVE Meets(p, q, some)' = Meets(p, q, some)
    OBVIOUS
  <2>1. WithinBounds(p, q)' = WithinBounds(p, q)
    BY <1>3 DEF WithinBounds
  <2>2. Open(p)' = Open(p) /\ OpenOn(p, q.day)' = OpenOn(p, q.day) /\ Nearby(p, q)' = Nearby(p, q)
    BY DEF Open, OpenOn, Nearby
  <2> QED
    BY <2>1, <2>2 DEF Meets
<1>7. Matching(q)' = Matching(q)
  BY <1>1, <1>6 DEF Matching
<1> QED
  BY <1>1, <1>2, <1>5, <1>7

LEMMA QueryTyped ==
  ASSUME SearchTyped, looking.query # NoQuery
  PROVE  looking.query \in Query /\ looking.query.limit \in Nat \ {0}
         /\ looking.query.topic \in Topics \cup {NoTopic}
BY SearchAssumption DEF SearchTyped, SearchTypeOK, Looking, Query, SearchAssumption

LEMMA MatchingFinite ==
  ASSUME NEW q
  PROVE  Matching(q) \in SUBSET Pros /\ IsFiniteSet(Matching(q)) /\ Cardinality(Matching(q)) \in Nat
<1>1. Matching(q) \in SUBSET Pros
  BY DEF Matching
<1> QED
  BY <1>1, SearchAssumption, FS_Subset, FS_CardinalityType DEF SearchAssumption

\* Two reads, of children and of theirs, find all there is below.
LEMMA HopsCover ==
  ASSUME SearchTyped, NEW t \in Topics
  PROVE  {t} \cup TwoHops(({t} \cup Below({t})) \ {t}) = Covered(t)
<1>1. above \in [Topics -> Topics \cup {NoTopic}] /\ NoTopic \notin Topics
  BY SearchAssumption DEF SearchAssumption, SearchTyped, SearchTypeOK
<1> QED
  BY <1>1 DEF TwoHops, Below, Covered

\* Those the ranking and the count find are those who meet the query.
LEMMA FoundMatches ==
  ASSUME SearchTyped, looking.query # NoQuery, TopicsRead, looking.step = "read", ~looking.moved
  PROVE  Found = Matching(looking.query)
<1> PICK q : q = looking.query
  OBVIOUS
<1>1. CASE q.topic = NoTopic
  <2>1. \A p \in Pros : \A a, b : Meets(p, q, a) <=> Meets(p, q, b)
    BY <1>1 DEF Meets
  <2> QED
    BY <2>1 DEF Found, Matching
<1>2. CASE q.topic # NoTopic
  <2>1. looking.topics = IF q.admin THEN {q.topic} ELSE Covered(q.topic)
    BY <1>2 DEF TopicsRead
  <2> QED
    BY <1>2, <2>1 DEF Found, Matching
<1> QED
  BY <1>1, <1>2

LEMMA LeastOfTwo ==
  ASSUME NEW a \in Nat, NEW b \in Nat
  PROVE  Min({a, b}) = IF a <= b THEN a ELSE b
<1>1. PICK c : c = IF a <= b THEN a ELSE b
  OBVIOUS
<1>2. c \in {a, b} /\ \A y \in {a, b} : c <= y
  BY <1>1
<1>3. \A x \in {a, b} : (\A y \in {a, b} : x <= y) => x = c
  BY <1>1
<1>4. Min({a, b}) = c
  BY <1>2, <1>3 DEF Min
<1> QED
  BY <1>1, <1>4

\* A page of a ranking: at most limit of it, in its order.
LEMMA StretchIs ==
  ASSUME NEW S, NEW s \in Seq(S), NEW n \in Nat, NEW limit \in Nat
  PROVE  LET r == Stretch(s, n, limit) IN
         /\ r \in Seq(S) /\ Len(r) \in Nat /\ Len(r) <= limit
         /\ \A i \in 1 .. Len(r) : n * limit + i \in 1 .. Len(s) /\ r[i] = s[n * limit + i]
<1>1. PICK k : k = n * limit
  OBVIOUS
<1>2. k \in Nat /\ Len(s) \in Nat /\ k + limit \in Nat
  BY <1>1
<1>3. PICK end : end = Min({Len(s), k + limit})
  OBVIOUS
<1>4. end \in Nat /\ end <= Len(s) /\ end <= k + limit
  BY <1>2, <1>3, LeastOfTwo
<1>5. PICK r : r = SubSeq(s, k + 1, end)
  OBVIOUS
<1>6. /\ r \in Seq(S) /\ Len(r) \in Nat /\ Len(r) = IF k + 1 <= end THEN end - k ELSE 0
      /\ \A i \in 1 .. Len(r) : r[i] = s[k + i]
  BY <1>2, <1>4, <1>5
<1>7. Len(r) <= limit /\ \A i \in 1 .. Len(r) : k + i \in 1 .. Len(s)
  BY <1>2, <1>4, <1>6
<1>8. Stretch(s, n, limit) = r
  BY <1>1, <1>3, <1>5 DEF Stretch
<1> QED
  BY <1>1, <1>6, <1>7, <1>8

\* So it names nobody twice and nobody out of order.
LEMMA PageOfRanking ==
  ASSUME SearchTyped, NEW q \in Query, NEW found \in SUBSET Pros, NEW s \in Rankings(q, found),
         NEW n \in Nat
  PROVE  LET r == Stretch(s, n, q.limit) IN
         /\ r \in Seq(found) /\ Distinct(r) /\ Len(r) <= q.limit
         /\ \A i, j \in 1 .. Len(r) : i < j => ~Precedes(q, r[j], r[i])
<1>1. /\ s \in Seq(found) /\ Len(s) \in Nat /\ Distinct(s)
      /\ \A i, j \in 1 .. Len(s) : i < j => ~Precedes(q, s[j], s[i])
  BY RankingIs
<1>2. q.limit \in Nat /\ n * q.limit \in Nat
  BY DEF Query
<1>3. PICK r : r = Stretch(s, n, q.limit)
  OBVIOUS
<1>4. PICK k : k = n * q.limit
  OBVIOUS
<1>5. /\ r \in Seq(found) /\ Len(r) \in Nat /\ Len(r) <= q.limit
      /\ \A i \in 1 .. Len(r) : k + i \in 1 .. Len(s) /\ r[i] = s[k + i]
  BY <1>1, <1>2, <1>3, <1>4, StretchIs
<1>8. k \in Nat
  BY <1>2, <1>4
<1>6. Distinct(r)
  <2> SUFFICES ASSUME NEW i \in 1 .. Len(r), NEW j \in 1 .. Len(r), r[i] = r[j] PROVE i = j
    BY DEF Distinct
  <2>1. k + i \in 1 .. Len(s) /\ k + j \in 1 .. Len(s) /\ s[k + i] = s[k + j]
    BY <1>5
  <2>2. k + i = k + j
    BY <1>1, <2>1 DEF Distinct
  <2> QED
    BY <1>5, <1>8, <2>2
<1>7. \A i, j \in 1 .. Len(r) : i < j => ~Precedes(q, r[j], r[i])
  <2> SUFFICES ASSUME NEW i \in 1 .. Len(r), NEW j \in 1 .. Len(r), i < j
               PROVE  ~Precedes(q, r[j], r[i])
    OBVIOUS
  <2>1. k + i \in 1 .. Len(s) /\ k + j \in 1 .. Len(s) /\ r[i] = s[k + i] /\ r[j] = s[k + j]
    BY <1>5
  <2>2. k + i < k + j
    BY <1>5, <1>8
  <2> QED
    BY <1>1, <2>1, <2>2
<1> QED
  BY <1>3, <1>5, <1>6, <1>7

-----------------------------------------------------------------------------
(* Its statements, and what others write meanwhile *)

\* A write of another's: whatever was asked, the memory of who met the query grows by those
\* who do now, and nothing is steady any more.
LEMMA NoticedKeeps ==
  ASSUME SearchInv, SearchTyped', NEW tree \in BOOLEAN, Noticed(tree),
         UNCHANGED <<pages, calling, kept>>, tree \/ above' = above
  PROVE  SearchInv'
<1> PICK q : q = looking.query
  OBVIOUS
<1>1. CASE q = NoQuery
  <2>1. looking' = looking
    BY <1>1 DEF Noticed
  <2> QED
    BY <1>1, <2>1 DEF SearchInv
<1>2. CASE q # NoQuery
  <2>1. PICK now : now = Matching(q)'
    OBVIOUS
  <2>2. looking' = [ looking EXCEPT !.steady = FALSE, !.moved = looking.moved \/ tree,
                                    !.matched = looking.matched \cup now ]
    BY <1>2, <2>1 DEF Noticed
  <2>3. looking \in Looking
    BY DEF SearchInv, SearchTyped, SearchTypeOK
  <2>4. /\ looking'.query = q /\ looking'.step = looking.step /\ looking'.topics = looking.topics
        /\ looking'.rows = looking.rows /\ looking'.ranked = looking.ranked
        /\ looking'.counted = looking.counted /\ ~looking'.steady
        /\ looking'.moved = (looking.moved \/ tree)
        /\ looking'.matched = looking.matched \cup now
    BY <2>1, <2>2, <2>3 DEF Looking
  <2>5. /\ AtRest(calling) /\ AnswerRight(q, Matching(q)) /\ PagesRight(q, Matching(q))
        /\ Distinct(kept.viewed)
    BY <1>2 DEF SearchInv
  <2>6. TopicsRead'
    <3>1. TopicsRead
      BY <2>5 DEF AnswerRight
    <3>2. CASE tree
      <4>1. looking'.moved
        BY <2>4, <3>2
      <4> QED
        BY <2>4, <3>1, <4>1 DEF TopicsRead
    <3>3. CASE ~tree
      <4>1. above' = above
        BY <3>3
      <4>2. \A some : Below(some)' = Below(some)
        BY <4>1 DEF Below
      <4>3. \A t : Covered(t)' = Covered(t)
        BY <4>1 DEF Covered
      <4>4. looking'.moved = looking.moved
        BY <2>3, <2>4, <3>3 DEF Looking
      <4> QED
        BY <2>4, <3>1, <4>2, <4>3, <4>4 DEF TopicsRead
    <3> QED
      BY <3>2, <3>3
  <2>7. RowsRanked(q, Matching(q)) => RowsRanked(q, now)'
    BY <2>4 DEF RowsRanked
  <2>8. AnswerRight(q, now)'
    BY <2>4, <2>5, <2>6, <2>7 DEF AnswerRight
  <2>9. PagesRight(q, now)'
    BY <2>4, <2>5 DEF PagesRight
  <2>10. AnswerRight(q, Matching(q))' /\ PagesRight(q, Matching(q))'
    BY <2>1, <2>8, <2>9
  <2>11. AnswerRight(looking.query, Matching(looking.query))' /\ PagesRight(looking.query, Matching(looking.query))'
    BY <2>4, <2>10
  <2> QED
    BY <2>4, <2>5, <2>11 DEF SearchInv, AtRest
<1> QED
  BY <1>1, <1>2

\* A statement of the request itself: the rows are as they were.
LEMMA LookKeeps ==
  ASSUME SearchInv, SearchTyped', NEW doing, Look(doing), doing.query = looking.query,
         looking.query # NoQuery,
         AnswerRight(looking.query, Matching(looking.query))',
         PagesRight(looking.query, Matching(looking.query))'
  PROVE  SearchInv'
BY DEF SearchInv, Look, AtRest

\* Its pages too, but for the flag that nothing was written.
LEMMA PagesStay ==
  ASSUME SearchInv, looking.query # NoQuery, UNCHANGED <<pro, offer, above, pages>>,
         looking'.query = looking.query, looking'.steady => looking.steady \/ pages = <<>>
  PROVE  PagesRight(looking.query, Matching(looking.query))'
<1> PICK q : q = looking.query
  OBVIOUS
<1>1. Matching(q)' = Matching(q) /\ \A found : Rankings(q, found)' = Rankings(q, found)
  BY SameMarket
<1>2. PagesRight(q, Matching(q))
  BY DEF SearchInv
<1> SUFFICES ASSUME NEW i \in 1 .. Len(pages)
             PROVE  /\ PageOnce(q, pages[i])
                    /\ looking'.steady => PageSteady(q, Matching(q), i)
  <2>1. \A i \in 1 .. Len(pages) : PageSteady(q, Matching(q), i)' <=> PageSteady(q, Matching(q), i)
    BY <1>1 DEF PageSteady
  <2>2. \A i \in 1 .. Len(pages) : PageOnce(q, pages[i])' <=> PageOnce(q, pages[i])
    BY DEF PageOnce
  <2> QED
    BY <1>1, <2>1, <2>2 DEF PagesRight
<1>3. pages # <<>>
  OBVIOUS
<1> QED
  BY <1>2, <1>3 DEF PagesRight

LEMMA AskPageKeeps ==
  ASSUME SearchInv, SearchTyped', AskPage
  PROVE  SearchInv'
<1> PICK q : q = looking.query
  OBVIOUS
<1>1. /\ looking \in Looking /\ q # NoQuery /\ q \in Query /\ looking.step = "idle"
      /\ AnswerRight(q, Matching(q))
  BY QueryTyped DEF SearchInv, SearchTyped, SearchTypeOK, AskPage, AtRest
<1> DEFINE plain == q.topic = NoTopic \/ q.admin
           steady == IF pages = <<>> THEN TRUE ELSE looking.steady
           doing == [ looking EXCEPT !.step = IF plain THEN "read" ELSE "level1",
              !.topics = {q.topic} \ {NoTopic}, !.moved = FALSE, !.steady = steady,
              !.matched = Matching(q) ]
<1>2. Look(doing) /\ pages' = pages
  BY DEF AskPage
<1>3. /\ doing.query = q /\ doing.step = (IF plain THEN "read" ELSE "level1")
      /\ doing.topics = {q.topic} \ {NoTopic} /\ ~doing.moved /\ doing.steady = steady
      /\ doing.matched = Matching(q) /\ doing.ranked = looking.ranked
      /\ doing.counted = looking.counted
  BY <1>1 DEF Looking
<1> HIDE DEF doing
<1>4. looking' = doing /\ UNCHANGED <<pro, offer, above>>
  BY <1>2 DEF Look
<1>5. Matching(q)' = Matching(q)
  BY <1>4, SameMarket
<1>6. ~looking.ranked /\ ~looking.counted
  BY <1>1 DEF AnswerRight
<1>7. TopicsRead'
  BY <1>3, <1>4 DEF TopicsRead
<1>8. AnswerRight(q, Matching(q))'
  BY <1>3, <1>4, <1>5, <1>6, <1>7 DEF AnswerRight
<1>9. PagesRight(q, Matching(q))'
  BY <1>1, <1>2, <1>3, <1>4, PagesStay
<1> QED
  BY <1>1, <1>2, <1>3, <1>4, <1>8, <1>9, LookKeeps

LEMMA ReadTopicsKeeps ==
  ASSUME SearchInv, SearchTyped', ReadChildren \/ ReadGrandchildren
  PROVE  SearchInv'
<1> PICK q : q = looking.query
  OBVIOUS
<1>1. looking \in Looking /\ looking.step \in {"level1", "level2"} /\ q # NoQuery
  BY DEF SearchInv, SearchTyped, SearchTypeOK, AskedOne, ReadChildren, ReadGrandchildren
<1>2. AnswerRight(q, Matching(q)) /\ TopicsRead
  BY <1>1 DEF SearchInv, AnswerRight
<1>3. PICK doing :
        /\ Look(doing) /\ pages' = pages /\ doing.query = q /\ doing.step \in {"level2", "read"}
        /\ doing.moved = looking.moved /\ doing.steady = looking.steady
        /\ doing.matched = looking.matched /\ ~doing.ranked /\ ~doing.counted
        /\ doing.step = "level2" =>
             looking.step = "level1" /\ doing.topics = looking.topics \cup Below(looking.topics)
        /\ doing.step = "read" =>
             looking.step = "level2"
             /\ doing.topics = {q.topic} \cup TwoHops(looking.topics \ {q.topic})
  <2>1. ~looking.ranked /\ ~looking.counted
    BY <1>1, <1>2 DEF AnswerRight
  <2>2. CASE ReadChildren
    <3> DEFINE doing == [ looking EXCEPT !.step = "level2",
                                         !.topics = looking.topics \cup Below(looking.topics) ]
    <3>1. Look(doing) /\ pages' = pages /\ looking.step = "level1"
      BY <2>2 DEF ReadChildren
    <3>2. /\ doing.query = q /\ doing.step = "level2" /\ doing.moved = looking.moved
          /\ doing.steady = looking.steady /\ doing.matched = looking.matched
          /\ doing.ranked = looking.ranked /\ doing.counted = looking.counted
          /\ doing.topics = looking.topics \cup Below(looking.topics)
      BY <1>1 DEF Looking
    <3> HIDE DEF doing
    <3> QED
      BY <2>1, <3>1, <3>2
  <2>3. CASE ReadGrandchildren
    <3> DEFINE doing == [ looking EXCEPT !.step = "read",
                            !.topics = {q.topic} \cup TwoHops(looking.topics \ {q.topic}) ]
    <3>1. Look(doing) /\ pages' = pages /\ looking.step = "level2"
      BY <2>3 DEF ReadGrandchildren
    <3>2. /\ doing.query = q /\ doing.step = "read" /\ doing.moved = looking.moved
          /\ doing.steady = looking.steady /\ doing.matched = looking.matched
          /\ doing.ranked = looking.ranked /\ doing.counted = looking.counted
          /\ doing.topics = {q.topic} \cup TwoHops(looking.topics \ {q.topic})
      BY <1>1 DEF Looking
    <3> HIDE DEF doing
    <3> QED
      BY <2>1, <3>1, <3>2
  <2> QED
    BY <2>2, <2>3
<1>4. looking' = doing /\ UNCHANGED <<pro, offer, above>>
  BY <1>3 DEF Look
<1>5. Matching(q)' = Matching(q) /\ (\A t : Covered(t)' = Covered(t))
      /\ (\A some : Below(some)' = Below(some))
  BY <1>4, SameMarket
<1>6. q.topic \in Topics /\ ~(q.topic = NoTopic \/ q.admin)
  <2>1. ~(q.topic = NoTopic \/ q.admin)
    BY <1>1, <1>2 DEF TopicsRead
  <2>2. q.topic \in Topics \cup {NoTopic}
    BY <1>1, QueryTyped DEF SearchInv
  <2> QED
    BY <2>1, <2>2
<1>7. TopicsRead'
  <2>1. doing.step = "level2" /\ ~doing.moved => doing.topics = {q.topic} \cup Below({q.topic})
    BY <1>2, <1>3 DEF TopicsRead
  <2>2. doing.step = "read" /\ ~doing.moved => doing.topics = Covered(q.topic)
    <3>1. doing.step = "read" /\ ~doing.moved => looking.topics = {q.topic} \cup Below({q.topic})
      BY <1>2, <1>3 DEF TopicsRead
    <3>2. {q.topic} \cup TwoHops(({q.topic} \cup Below({q.topic})) \ {q.topic}) = Covered(q.topic)
      BY <1>6, HopsCover DEF SearchInv
    <3> QED
      BY <1>3, <3>1, <3>2
  <2> QED
    BY <1>3, <1>4, <1>5, <1>6, <2>1, <2>2 DEF TopicsRead
<1>8. AnswerRight(q, Matching(q))'
  BY <1>1, <1>2, <1>3, <1>4, <1>5, <1>7 DEF AnswerRight
<1>9. PagesRight(q, Matching(q))'
  BY <1>1, <1>3, <1>4, PagesStay
<1> QED
  BY <1>1, <1>3, <1>4, <1>8, <1>9, LookKeeps

LEMMA RankPageKeeps ==
  ASSUME SearchInv, SearchTyped', RankPage
  PROVE  SearchInv'
<1> PICK q : q = looking.query
  OBVIOUS
<1>1. /\ looking \in Looking /\ looking.step = "read" /\ q # NoQuery /\ q \in Query
      /\ Len(pages) \in Nat
  BY QueryTyped DEF SearchInv, SearchTyped, SearchTypeOK, AskedOne, RankPage
<1>2. AnswerRight(q, Matching(q)) /\ TopicsRead
  BY <1>1 DEF SearchInv, AnswerRight
<1>3. PICK s \in Rankings(q, Found) :
        Look([ looking EXCEPT !.ranked = TRUE, !.rows = Stretch(s, Len(pages), q.limit) ])
  BY DEF RankPage, Stretch, Skip
<1>4. PICK rows : rows = Stretch(s, Len(pages), q.limit)
  OBVIOUS
<1> DEFINE doing == [ looking EXCEPT !.ranked = TRUE, !.rows = rows ]
<1>5. /\ doing.query = q /\ doing.step = "read" /\ doing.moved = looking.moved
      /\ doing.steady = looking.steady /\ doing.matched = looking.matched /\ doing.ranked
      /\ doing.counted = looking.counted /\ doing.topics = looking.topics /\ doing.rows = rows
      /\ doing.total = looking.total
  BY <1>1 DEF Looking
<1>6. Look(doing) /\ pages' = pages
  BY <1>3, <1>4 DEF RankPage
<1> HIDE DEF doing
<1>7. looking' = doing /\ UNCHANGED <<pro, offer, above>>
  BY <1>6 DEF Look
<1>8. /\ Matching(q)' = Matching(q) /\ \A t : Covered(t)' = Covered(t)
      /\ \A some : Below(some)' = Below(some)
      /\ \A found : Rankings(q, found)' = Rankings(q, found)
  BY <1>7, SameMarket
<1>9. TopicsRead'
  BY <1>2, <1>1, <1>5, <1>7, <1>8 DEF TopicsRead
<1>10. Found \in SUBSET Pros
  BY DEF Found
<1>11. /\ rows \in Seq(Found) /\ Distinct(rows) /\ Len(rows) <= q.limit
  BY <1>1, <1>4, <1>10, PageOfRanking DEF SearchInv
<1>12. ~looking.moved => Found = Matching(q)
  BY <1>1, <1>2, FoundMatches DEF SearchInv
<1>13. RowsRanked(q, Matching(q))'
  <2>1. ~looking.moved => \A i \in 1 .. Len(rows) : rows[i] \in looking.matched
    <3>1. Matching(q) \subseteq looking.matched
      BY <1>1, <1>2 DEF AnswerRight
    <3>2. \A i \in 1 .. Len(rows) : rows[i] \in Found
      BY <1>11
    <3> QED
      BY <1>12, <3>1, <3>2
  <2>2. looking.steady => Found = Matching(q)
    BY <1>1, <1>2, <1>12 DEF AnswerRight
  <2>3. looking.steady => \E z \in Rankings(q, Matching(q)) : rows = Stretch(z, Len(pages), q.limit)
    BY <1>4, <2>2
  <2> QED
    BY <1>5, <1>6, <1>7, <1>8, <1>11, <2>1, <2>3 DEF RowsRanked
<1>14. AnswerRight(q, Matching(q))'
  BY <1>1, <1>2, <1>5, <1>7, <1>8, <1>9, <1>13 DEF AnswerRight
<1>15. PagesRight(q, Matching(q))'
  BY <1>1, <1>5, <1>6, <1>7, PagesStay
<1> QED
  BY <1>1, <1>5, <1>6, <1>7, <1>14, <1>15, LookKeeps

LEMMA CountAllKeeps ==
  ASSUME SearchInv, SearchTyped', CountAll
  PROVE  SearchInv'
<1> PICK q : q = looking.query
  OBVIOUS
<1>1. looking \in Looking /\ looking.step = "read" /\ q # NoQuery
  BY DEF SearchInv, SearchTyped, SearchTypeOK, AskedOne, CountAll
<1>2. AnswerRight(q, Matching(q)) /\ TopicsRead
  BY <1>1 DEF SearchInv, AnswerRight
<1>3. PICK total : total = Cardinality(Found)
  OBVIOUS
<1> DEFINE doing == [ looking EXCEPT !.counted = TRUE, !.total = total ]
<1>5. /\ doing.query = q /\ doing.step = "read" /\ doing.moved = looking.moved
      /\ doing.steady = looking.steady /\ doing.matched = looking.matched
      /\ doing.ranked = looking.ranked /\ doing.topics = looking.topics
      /\ doing.rows = looking.rows /\ doing.total = total
  BY <1>1 DEF Looking
<1>6. Look(doing) /\ pages' = pages
  BY <1>3 DEF CountAll
<1> HIDE DEF doing
<1>7. looking' = doing /\ UNCHANGED <<pro, offer, above>>
  BY <1>6 DEF Look
<1>8. /\ Matching(q)' = Matching(q) /\ \A t : Covered(t)' = Covered(t)
      /\ \A some : Below(some)' = Below(some)
      /\ \A found : Rankings(q, found)' = Rankings(q, found)
  BY <1>7, SameMarket
<1>9. TopicsRead'
  BY <1>1, <1>2, <1>5, <1>7, <1>8 DEF TopicsRead
<1>10. looking.steady => total = Cardinality(Matching(q))
  BY <1>1, <1>2, <1>3, FoundMatches DEF SearchInv, AnswerRight
<1>11. looking.ranked => RowsRanked(q, Matching(q))'
  <2>1. looking.ranked => RowsRanked(q, Matching(q))
    BY <1>2 DEF AnswerRight
  <2> QED
    BY <1>5, <1>6, <1>7, <1>8, <2>1 DEF RowsRanked
<1>12. AnswerRight(q, Matching(q))'
  BY <1>1, <1>2, <1>5, <1>7, <1>8, <1>9, <1>10, <1>11 DEF AnswerRight
<1>13. PagesRight(q, Matching(q))'
  BY <1>1, <1>5, <1>6, <1>7, PagesStay
<1> QED
  BY <1>1, <1>5, <1>6, <1>7, <1>12, <1>13, LookKeeps

\* The price shown of a master is the cheapest, and follows the order asked for.
LEMMA PricesFollow ==
  ASSUME SearchTyped, NEW q \in Query, q.sort = "price:asc", NEW a \in Pros, NEW b \in Pros,
         ~Precedes(q, b, a), PublicDto(b).from # 0
  PROVE  PublicDto(a).from \in 1 .. PublicDto(b).from
<1>1. /\ PublicDto(a).from = (IF PricesOf(a) = {} THEN 0 ELSE Cheapest(a))
      /\ PublicDto(b).from = (IF PricesOf(b) = {} THEN 0 ELSE Cheapest(b))
  BY DEF PublicDto
<1>2. PricesOf(b) # {}
  BY <1>1
<1>3. PricesOf(a) # {} /\ ~(Cheapest(b) < Cheapest(a))
  BY <1>2 DEF Precedes
<1>4. Cheapest(a) \in Nat \ {0} /\ Cheapest(b) \in Nat \ {0}
  BY <1>2, <1>3, PricesTyped
<1> QED
  BY <1>1, <1>2, <1>3, <1>4

\* The answer of rows of the page that are still there, all of them if nothing was written.
LEMMA AnswerKeeps ==
  ASSUME SearchInv, SearchTyped', looking.query # NoQuery,
         NEW there \in Seq(Pros), Distinct(there), Len(there) <= Len(looking.rows),
         \A i \in 1 .. Len(there) : \E j \in 1 .. Len(looking.rows) : there[i] = looking.rows[j],
         looking.steady => there = looking.rows,
         AnswerWith([i \in DOMAIN there |-> PublicDto(there[i])])
  PROVE  SearchInv'
<1> PICK q : q = looking.query
  OBVIOUS
<1>1. /\ looking \in Looking /\ q # NoQuery /\ q \in Query /\ q.limit \in Nat \ {0}
      /\ pages \in Seq(Page) /\ Len(pages) \in Nat /\ SearchTyped
  BY QueryTyped DEF SearchInv, SearchTyped, SearchTypeOK
<1>2. AnswerRight(q, Matching(q)) /\ PagesRight(q, Matching(q))
  BY <1>1 DEF SearchInv
<1>3. looking.ranked /\ looking.counted /\ RowsRanked(q, Matching(q))
  BY <1>2 DEF AnswerWith, AnswerRight
<1> DEFINE items == [i \in DOMAIN there |-> PublicDto(there[i])]
           page == [ items |-> items, total |-> looking.total, matched |-> looking.matched,
                     moved |-> looking.moved, steady |-> looking.steady ]
           doing == [ NotLooking EXCEPT !.query = looking.query, !.steady = looking.steady ]
<1>4. pages' = Append(pages, page) /\ Look(doing)
  BY DEF AnswerWith
<1>5. /\ doing.query = q /\ doing.step = "idle" /\ doing.steady = looking.steady
      /\ ~doing.ranked /\ ~doing.counted /\ ~doing.moved
  BY DEF NotLooking
<1>6. /\ Len(items) = Len(there) /\ Len(there) \in Nat
      /\ \A i \in 1 .. Len(there) : there[i] \in Pros /\ items[i] = PublicDto(there[i])
  OBVIOUS
<1>7. /\ page.items = items /\ page.total = looking.total /\ page.matched = looking.matched
      /\ page.moved = looking.moved /\ page.steady = looking.steady
  OBVIOUS
<1>8. ProsOf(items) = there
  <2>1. \A i \in DOMAIN there : items[i].pro = there[i]
    BY DEF PublicDto
  <2>2. DOMAIN items = DOMAIN there /\ there = [i \in DOMAIN there |-> there[i]]
    OBVIOUS
  <2> HIDE DEF items
  <2> QED
    BY <2>1, <2>2 DEF ProsOf
<1> HIDE DEF items, page, doing
<1>9. looking' = doing /\ UNCHANGED <<pro, offer, above>>
  BY <1>4 DEF Look
<1>10. Matching(q)' = Matching(q) /\ \A found : Rankings(q, found)' = Rankings(q, found)
  BY <1>9, SameMarket
<1>11. PageOnce(q, page)
  <2>1. looking.rows \in Seq(Pros) /\ Len(looking.rows) \in Nat
    BY <1>1 DEF Looking
  <2>2. Len(items) <= q.limit
    BY <1>1, <1>3, <1>6, <2>1 DEF RowsRanked
  <2>3. ~looking.moved => \A i \in 1 .. Len(items) : items[i].pro \in looking.matched
    <3>1. \A i \in 1 .. Len(items) : items[i].pro = there[i]
      <4>1. \A p : PublicDto(p).pro = p
        BY DEF PublicDto
      <4> QED
        BY <1>6, <4>1
    <3> QED
      BY <1>3, <1>6, <3>1 DEF RowsRanked
  <2> QED
    BY <1>7, <1>8, <2>2, <2>3 DEF PageOnce
<1>12. ASSUME looking.steady
       PROVE  /\ page.total = Cardinality(Matching(q)) /\ (q.sort = "price:asc" => PricesRise(page))
              /\ \E s \in Rankings(q, Matching(q)) : ProsOf(page.items) = Stretch(s, Len(pages), q.limit)
  <2>1. PICK s \in Rankings(q, Matching(q)) : looking.rows = Stretch(s, Len(pages), q.limit)
    BY <1>3, <1>12 DEF RowsRanked
  <2>2. there = looking.rows
    BY <1>12
  <2>3. \A i, j \in 1 .. Len(there) : i < j => ~Precedes(q, there[j], there[i])
    <3>1. Matching(q) \in SUBSET Pros
      BY MatchingFinite
    <3>2. there = Stretch(s, Len(pages), q.limit)
      BY <2>1, <2>2
    <3> QED
      BY <1>1, <3>1, <3>2, PageOfRanking
  <2>4. q.sort = "price:asc" => PricesRise(page)
    BY <1>1, <1>6, <1>7, <2>3, PricesFollow DEF PricesRise
  <2>5. page.total = Cardinality(Matching(q))
    BY <1>2, <1>3, <1>7, <1>12 DEF AnswerRight
  <2> QED
    BY <1>7, <1>8, <2>1, <2>2, <2>4, <2>5
<1>13. /\ Len(pages') = Len(pages) + 1 /\ pages'[Len(pages) + 1] = page
       /\ \A i \in 1 .. Len(pages) : pages'[i] = pages[i]
  BY <1>1, <1>4
<1>14. PagesRight(q, Matching(q))'
  <2>1. ASSUME NEW i \in 1 .. Len(pages) + 1 PROVE PageOnce(q, pages'[i])
    <3>1. CASE i = Len(pages) + 1
      BY <1>11, <1>13, <3>1
    <3>2. CASE i # Len(pages) + 1
      <4>1. i \in 1 .. Len(pages) /\ pages'[i] = pages[i]
        BY <1>1, <1>13, <3>2
      <4> QED
        BY <1>2, <4>1 DEF PagesRight
    <3> QED
      BY <3>1, <3>2
  <2>2. ASSUME NEW i \in 1 .. Len(pages) + 1, looking.steady PROVE PageSteady(q, Matching(q), i)'
    <3>1. CASE i = Len(pages) + 1
      <4>1. i - 1 = Len(pages) /\ pages'[i] = page
        BY <1>1, <1>13, <3>1
      <4>2. PricesRise(pages'[i]) <=> PricesRise(page)
        BY <4>1
      <4> QED
        BY <1>10, <1>12, <2>2, <4>1, <4>2 DEF PageSteady, PricesRise
    <3>2. CASE i # Len(pages) + 1
      <4>1. i \in 1 .. Len(pages) /\ pages'[i] = pages[i]
        BY <1>1, <1>13, <3>2
      <4>2. PageSteady(q, Matching(q), i)
        BY <1>2, <2>2, <4>1 DEF PagesRight
      <4> QED
        BY <1>10, <4>1, <4>2 DEF PageSteady, PricesRise
    <3> QED
      BY <3>1, <3>2
  <2> QED
    BY <1>5, <1>9, <1>13, <2>1, <2>2 DEF PagesRight, PageOnce
<1>15. TopicsRead'
  BY <1>5, <1>9 DEF TopicsRead
<1>16. AnswerRight(q, Matching(q))'
  BY <1>5, <1>9, <1>15 DEF AnswerRight
<1> QED
  BY <1>1, <1>4, <1>5, <1>9, <1>14, <1>16, LookKeeps

LEMMA HydrateKeeps ==
  ASSUME SearchInv, SearchTyped', Hydrate \/ ReadEarnings
  PROVE  SearchInv'
<1>1. /\ looking \in Looking /\ looking.query # NoQuery /\ looking.rows \in Seq(Pros) /\ SearchTyped
      /\ looking.ranked /\ looking.counted
  BY DEF SearchInv, SearchTyped, SearchTypeOK, Looking, Hydrate, ReadEarnings, AnswerWith
<1>2. AnswerRight(looking.query, Matching(looking.query))
  BY <1>1 DEF SearchInv
<1>3. RowsRanked(looking.query, Matching(looking.query))
  BY <1>1, <1>2 DEF AnswerRight
<1>4. Distinct(looking.rows) /\ Len(looking.rows) \in Nat
  BY <1>1, <1>3 DEF RowsRanked
<1>5. CASE ReadEarnings
  BY <1>1, <1>4, <1>5, AnswerKeeps DEF ReadEarnings
<1>6. CASE Hydrate
  <2> DEFINE over == { p \in Pros : pro[p].gone }
             there == Without(looking.rows, over)
  <2>1. AnswerWith([i \in DOMAIN there |-> PublicDto(there[i])]) /\ ~looking.query.admin
    BY <1>6 DEF Hydrate
  <2>2. there \in Seq(Pros)
    BY <1>1, WithoutTyped
  <2>3. Thinned(there, looking.rows, Len(looking.rows), over)
    BY <1>1, <1>4, WithoutThins
  <2>4. looking.steady => there = looking.rows
    <3> SUFFICES ASSUME looking.steady PROVE there = looking.rows
      OBVIOUS
    <3>1. looking.step = "read" /\ ~looking.moved
      BY <1>1, <1>2 DEF AnswerRight
    <3>2. PICK s \in Rankings(looking.query, Matching(looking.query)) :
            looking.rows = Stretch(s, Len(pages), looking.query.limit)
      BY <1>3 DEF RowsRanked
    <3>3. looking.rows \in Seq(Matching(looking.query))
      <4>1. looking.query \in Query /\ Len(pages) \in Nat
        BY <1>1, QueryTyped DEF SearchTyped, SearchTypeOK
      <4> QED
        BY <1>1, <3>2, <4>1, MatchingFinite, PageOfRanking
    <3>4. \A p \in Matching(looking.query) : ~pro[p].gone
      BY <2>1 DEF Matching, Meets, Open
    <3>5. \A n \in 1 .. Len(looking.rows) : looking.rows[n] \notin over
      BY <3>3, <3>4
    <3> HIDE DEF over
    <3> QED
      BY <1>1, <3>5, WithoutNone
  <2> HIDE DEF there, over
  <2> QED
    BY <1>1, <2>1, <2>2, <2>3, <2>4, AnswerKeeps DEF Thinned
<1> QED
  BY <1>5, <1>6

\* Nothing of the search, or nobody searching.
LEMMA QuietKeeps ==
  ASSUME SearchInv, SearchTyped', UNCHANGED <<looking, pages>>, Distinct(kept'.viewed),
         \/ looking.query = NoQuery
         \/ UNCHANGED <<pro, offer, above, calling>>
  PROVE  SearchInv'
<1>1. CASE looking.query = NoQuery
  BY <1>1 DEF SearchInv
<1>2. CASE looking.query # NoQuery /\ UNCHANGED <<pro, offer, above, calling>>
  <2> PICK q : q = looking.query
    OBVIOUS
  <2>1. /\ AtRest(calling) /\ AnswerRight(q, Matching(q)) /\ PagesRight(q, Matching(q))
        /\ looking.steady = looking'.steady
    BY <1>2 DEF SearchInv
  <2>2. /\ Matching(q)' = Matching(q) /\ \A t : Covered(t)' = Covered(t)
        /\ \A some : Below(some)' = Below(some)
        /\ \A found : Rankings(q, found)' = Rankings(q, found)
    BY <1>2, SameMarket
  <2>3. TopicsRead'
    BY <2>1, <2>2 DEF AnswerRight, TopicsRead
  <2>4. looking.ranked => RowsRanked(q, Matching(q))'
    <3>1. looking.ranked => RowsRanked(q, Matching(q))
      BY <2>1 DEF AnswerRight
    <3> QED
      BY <2>2, <3>1 DEF RowsRanked
  <2>5. AnswerRight(q, Matching(q))'
    BY <2>1, <2>2, <2>3, <2>4 DEF AnswerRight
  <2>6. PagesRight(q, Matching(q))'
    BY <1>2, <2>1, PagesStay
  <2>7. AtRest(calling)'
    BY <1>2, <2>1 DEF AtRest
  <2> QED
    BY <2>5, <2>6, <2>7 DEF SearchInv
<1> QED
  BY <1>1, <1>2

LEMMA ProfileKeeps ==
  ASSUME SearchInv, SearchTyped', NEW p \in Pros,
         \/ SetShown(p) \/ EndPro(p) \/ SetRating(p) \/ ExceptDay(p)
         \/ \E t \in Topics : AttachCategory(p, t) \/ DetachCategory(p, t)
  PROVE  SearchInv'
<1>1. \E row : WriteProfile(p, row)
  <2>1. CASE SetShown(p)
    BY <2>1 DEF SetShown
  <2>2. CASE EndPro(p)
    BY <2>2 DEF EndPro
  <2>3. CASE SetRating(p)
    BY <2>3 DEF SetRating
  <2>4. CASE ExceptDay(p)
    BY <2>4 DEF ExceptDay
  <2>5. ASSUME NEW t \in Topics, AttachCategory(p, t) \/ DetachCategory(p, t)
        PROVE  \E row : WriteProfile(p, row)
    BY <2>5 DEF AttachCategory, DetachCategory
  <2> QED
    BY <2>1, <2>2, <2>3, <2>4, <2>5
<1>2. Noticed(FALSE) /\ UNCHANGED <<pages, calling, kept>> /\ above' = above
  BY <1>1 DEF WriteProfile
<1> QED
  BY <1>2, NoticedKeeps

LEMMA OtherWriteKeeps ==
  ASSUME SearchInv, SearchTyped',
         WriteOffer \/ \E t \in Topics, to \in Topics \cup {NoTopic} : MoveTopic(t, to)
  PROVE  SearchInv'
<1>1. CASE WriteOffer
  <2>1. Noticed(FALSE) /\ UNCHANGED <<pages, calling, kept>> /\ above' = above
    BY <1>1 DEF WriteOffer
  <2> QED
    BY <2>1, NoticedKeeps
<1>2. ASSUME NEW t \in Topics, NEW to \in Topics \cup {NoTopic}, MoveTopic(t, to)
      PROVE  SearchInv'
  <2>1. Noticed(TRUE) /\ UNCHANGED <<pages, calling, kept>>
    BY <1>2 DEF MoveTopic
  <2> QED
    BY <2>1, NoticedKeeps
<1> QED
  BY <1>1, <1>2

\* The list of the masters viewed stays without repetition.
LEMMA LatestDistinct ==
  ASSUME NEW p \in Pros, NEW viewed \in Seq(Pros), Distinct(viewed)
  PROVE  Distinct(Latest(viewed, p))
<1>1. PICK r : r = Without(viewed, {p})
  OBVIOUS
<1>2. r \in Seq(Pros) /\ Len(r) \in Nat
  BY <1>1, WithoutTyped
<1>3. Distinct(r) /\ \A i \in 1 .. Len(r) : r[i] # p
  <2>1. Thinned(r, viewed, Len(viewed), {p})
    BY <1>1, WithoutThins
  <2> QED
    BY <2>1 DEF Thinned
<1>4. PICK s : s = <<p>> \o r
  OBVIOUS
<1>5. Len(s) = Len(r) + 1 /\ s[1] = p /\ \A i \in 2 .. Len(s) : i - 1 \in 1 .. Len(r) /\ s[i] = r[i - 1]
  BY <1>2, <1>4
<1>6. Distinct(s)
  <2> SUFFICES ASSUME NEW i \in 1 .. Len(s), NEW j \in 1 .. Len(s), s[i] = s[j] PROVE i = j
    BY DEF Distinct
  <2>1. CASE i = 1 \/ j = 1
    BY <1>2, <1>3, <1>5, <2>1
  <2>2. CASE i # 1 /\ j # 1
    <3>1. i \in 2 .. Len(s) /\ j \in 2 .. Len(s)
      BY <1>2, <1>5, <2>2
    <3>2. i - 1 = j - 1
      BY <1>3, <1>5, <3>1 DEF Distinct
    <3> QED
      BY <3>2
  <2> QED
    BY <2>1, <2>2
<1> QED
  BY <1>1, <1>4, <1>6 DEF Latest

LEMMA CallKeeps ==
  ASSUME SearchInv, SearchTyped',
         \/ \E p \in Pros, errand \in Errands : AskMaster(p, errand)
         \/ AnswerProfile \/ CountView \/ ReadSection \/ KeepMaster \/ \E p \in Pros : Unfavorite(p)
  PROVE  SearchInv'
<1>1. /\ kept \in Keeping /\ kept.viewed \in Seq(Pros) /\ Distinct(kept.viewed)
      /\ calling.of \in Pros
  BY DEF SearchInv, SearchTyped, SearchTypeOK, Keeping, Calling
<1>2. UNCHANGED <<offer, above, looking, pages>>
  BY DEF AskMaster, AnswerProfile, CountView, ReadSection, KeepMaster, Unfavorite, Called
<1>3. ASSUME \/ \E p \in Pros, errand \in Errands : AskMaster(p, errand)
             \/ AnswerProfile \/ CountView \/ ReadSection
      PROVE  looking.query = NoQuery /\ kept' = kept
  BY <1>3 DEF AskMaster, AnswerProfile, CountView, ReadSection, SearchInv, AtRest
<1>4. ASSUME KeepMaster PROVE looking.query = NoQuery /\ Distinct(kept'.viewed)
  <2>1. looking.query = NoQuery
    BY <1>4 DEF KeepMaster, SearchInv, AtRest
  <2>2. kept'.viewed = kept.viewed \/ kept'.viewed = Latest(kept.viewed, calling.of)
    BY <1>1, <1>4 DEF KeepMaster, Keeping
  <2> QED
    BY <1>1, <2>1, <2>2, LatestDistinct
<1>5. ASSUME NEW p \in Pros, Unfavorite(p)
      PROVE  UNCHANGED <<pro, calling>> /\ Distinct(kept'.viewed)
  BY <1>1, <1>5 DEF Unfavorite, Called, Keeping
<1> QED
  BY <1>1, <1>2, <1>3, <1>4, <1>5, QuietKeeps

LEMMA SearchInvKept ==
  ASSUME SearchInv, [NextSearch]_searchVars
  PROVE  SearchInv'
<1>1. SearchTyped /\ Distinct(kept.viewed)
  BY DEF SearchInv
<1>2. CASE UNCHANGED searchVars
  <2>1. UNCHANGED <<looking, pages, kept, pro, offer, above, calling, changes, selling>>
    BY <1>2 DEF searchVars
  <2>2. SearchTyped'
    BY <1>1, <2>1 DEF SearchTyped, SearchTypeOK, AskedOne
  <2> QED
    BY <1>1, <2>1, <2>2, QuietKeeps
<1>3. CASE NextSearch
  <2>1. SearchTyped'
    BY <1>1, <1>3, SearchTypedKept
  <2>2. ASSUME NEW p \in Pros,
               \/ SetShown(p) \/ EndPro(p) \/ SetRating(p) \/ ExceptDay(p) \/ Unfavorite(p)
               \/ \E t \in Topics : AttachCategory(p, t) \/ DetachCategory(p, t)
               \/ \E errand \in Errands : AskMaster(p, errand)
        PROVE SearchInv'
    BY <2>1, <2>2, ProfileKeeps, CallKeeps
  <2>3. ASSUME NEW t \in Topics, NEW to \in Topics \cup {NoTopic}, MoveTopic(t, to) PROVE SearchInv'
    BY <2>1, <2>3, OtherWriteKeeps
  <2>4. ASSUME NEW o \in Offers, NEW op \in {"create", "update", "remove"}, BeginSelling(o, op)
        PROVE SearchInv'
    <3>1. UNCHANGED <<pro, offer, above, looking, pages, calling, kept>>
      BY <2>4 DEF BeginSelling
    <3> QED
      BY <1>1, <2>1, <3>1, QuietKeeps
  <2>5. CASE WriteOffer
    BY <2>1, <2>5, OtherWriteKeeps
  <2>6. CASE AskPage \/ ReadChildren \/ ReadGrandchildren \/ RankPage \/ CountAll
             \/ Hydrate \/ ReadEarnings
    BY <2>1, <2>6, AskPageKeeps, ReadTopicsKeeps, RankPageKeeps, CountAllKeeps, HydrateKeeps
  <2>7. CASE AnswerProfile \/ CountView \/ ReadSection \/ KeepMaster
    BY <2>1, <2>7, CallKeeps
  <2> QED
    BY <1>3, <2>2, <2>3, <2>4, <2>5, <2>6, <2>7 DEF NextSearch
<1> QED
  BY <1>2, <1>3

LEMMA SearchInvAtFirst ==
  ASSUME InitSearch
  PROVE  SearchInv
<1>1. SearchTyped
  BY SearchTypedAtFirst
<1>2. pages = <<>> /\ kept.viewed = <<>> /\ AtRest(calling)
  BY DEF InitSearch, NotCalling, AtRest
<1>3. looking.step = "idle" /\ ~looking.ranked /\ ~looking.counted
  BY DEF InitSearch, NotLooking
<1>4. \A q, everyone : AnswerRight(q, everyone)
  BY <1>3 DEF AnswerRight, TopicsRead
<1>5. \A q, everyone : PagesRight(q, everyone)
  BY <1>2 DEF PagesRight
<1> QED
  BY <1>1, <1>2, <1>4, <1>5 DEF SearchInv, Distinct

-----------------------------------------------------------------------------
(* The pages one after the other *)

\* The parts of a list joined one at a time.
LEMMA FlattenIs ==
  ASSUME NEW S, NEW ss \in Seq(Seq(S)), Len(ss) # 0
  PROVE  \E flat :
           /\ flat[1] = ss[1] /\ FlattenSeq(ss) = flat[Len(ss)]
           /\ \A n \in 2 .. Len(ss) : flat[n] = flat[n - 1] \o ss[n]
<1> DEFINE m == Len(ss)
           F == [ n \in 1 .. m |-> [ r \in Seq(S) |-> r \o ss[n] ] ]
           flat == CHOOSE f : f = [ n \in 1 .. m |-> IF n = 1 THEN ss[n] ELSE f[n - 1] \o ss[n] ]
<1>1. m \in Nat \ {0} /\ <<>> \in Seq(S) /\ \A n \in 1 .. m : ss[n] \in Seq(S)
  OBVIOUS
<1>2. \A n \in 1 .. m, r \in Seq(S) : r \o ss[n] \in Seq(S)
  BY <1>1
<1>3. Leads(F, m, Seq(S))
  <2>1. \A n \in 1 .. m : F[n] \in [Seq(S) -> Seq(S)]
    BY <1>2
  <2> QED
    BY <2>1 DEF Leads
<1>4. PICK g : Walked(g, m, Seq(S), F, <<>>)
  <2> HIDE DEF F
  <2> QED
    BY <1>1, <1>3, Walks, Zenon
<1>5. \A n \in 1 .. m : g[n] = IF n = 1 THEN ss[n] ELSE g[n - 1] \o ss[n]
  <2> SUFFICES ASSUME NEW n \in 1 .. m PROVE g[n] = IF n = 1 THEN ss[n] ELSE g[n - 1] \o ss[n]
    OBVIOUS
  <2>1. n \in 0 .. m /\ n - 1 \in 0 .. m /\ n # 0
    BY <1>1
  <2>2. g[n - 1] \in Seq(S) /\ g[n] = F[n][g[n - 1]]
    BY <1>4, <2>1 DEF Walked
  <2>3. g[n] = g[n - 1] \o ss[n]
    BY <2>1, <2>2
  <2>4. g[0] = <<>>
    <3>1. 0 \in 0 .. m
      BY <1>1
    <3> QED
      BY <1>4, <3>1 DEF Walked
  <2>5. CASE n = 1
    <3>1. g[n] = <<>> \o ss[n] /\ ss[n] \in Seq(S)
      <4>1. n - 1 = 0
        BY <2>5
      <4> QED
        BY <1>1, <2>3, <2>4, <4>1
    <3> QED
      BY <2>5, <3>1, ConcatEmptySeq
  <2>6. CASE n # 1
    BY <2>3, <2>6
  <2> QED
    BY <2>5, <2>6
<1> HIDE DEF F
<1>6. PICK f : f = [ n \in 1 .. m |-> g[n] ]
  OBVIOUS
<1>7. f = [ n \in 1 .. m |-> IF n = 1 THEN ss[n] ELSE f[n - 1] \o ss[n] ]
  <2>1. \A n \in 1 .. m : f[n] = IF n = 1 THEN ss[n] ELSE f[n - 1] \o ss[n]
    <3> SUFFICES ASSUME NEW n \in 1 .. m
                 PROVE  f[n] = IF n = 1 THEN ss[n] ELSE f[n - 1] \o ss[n]
      OBVIOUS
    <3>1. n = 1 \/ n - 1 \in 1 .. m
      BY <1>1
    <3> QED
      BY <1>5, <1>6, <3>1
  <2> QED
    BY <1>6, <2>1
<1>8. flat = [ n \in 1 .. m |-> IF n = 1 THEN ss[n] ELSE flat[n - 1] \o ss[n] ]
  BY <1>7
<1>9. FlattenSeq(ss) = flat[m]
  BY <1>1 DEF FlattenSeq
<1> HIDE DEF flat
<1>10. flat[1] = ss[1]
  BY <1>1, <1>8
<1>11. ASSUME NEW n \in 2 .. m PROVE flat[n] = flat[n - 1] \o ss[n]
  <2>1. n \in 1 .. m /\ n # 1
    BY <1>1
  <2> QED
    BY <1>8, <2>1
<1> QED
  BY <1>9, <1>10, <1>11

\* The masters of two pages one after the other.
LEMMA ProsOfIs ==
  ASSUME NEW x \in Seq(Dto)
  PROVE  /\ ProsOf(x) \in Seq(Pros) /\ Len(ProsOf(x)) = Len(x)
         /\ \A i \in 1 .. Len(x) : ProsOf(x)[i] = x[i].pro
<1>1. Len(x) \in Nat /\ DOMAIN x = 1 .. Len(x) /\ \A i \in 1 .. Len(x) : x[i] \in Dto
  BY LenProperties
<1>2. \A i \in 1 .. Len(x) : x[i].pro \in Pros
  BY <1>1 DEF Dto
<1>3. ProsOf(x) = [ i \in 1 .. Len(x) |-> x[i].pro ]
  BY <1>1 DEF ProsOf
<1> QED
  BY <1>1, <1>2, <1>3

LEMMA ProsOfBoth ==
  ASSUME NEW x \in Seq(Dto), NEW y \in Seq(Dto)
  PROVE  ProsOf(x \o y) = ProsOf(x) \o ProsOf(y)
<1>1. /\ ProsOf(x) \in Seq(Pros) /\ Len(ProsOf(x)) = Len(x)
      /\ ProsOf(y) \in Seq(Pros) /\ Len(ProsOf(y)) = Len(y)
      /\ \A i \in 1 .. Len(x) : ProsOf(x)[i] = x[i].pro
      /\ \A i \in 1 .. Len(y) : ProsOf(y)[i] = y[i].pro
      /\ Len(x) \in Nat /\ Len(y) \in Nat
  BY ProsOfIs, LenProperties
<1>2. PICK z : z = x \o y
  OBVIOUS
<1>3. /\ z \in Seq(Dto) /\ Len(z) = Len(x) + Len(y)
      /\ \A i \in 1 .. Len(x) + Len(y) : z[i] = IF i <= Len(x) THEN x[i] ELSE y[i - Len(x)]
  BY <1>2, ConcatProperties
<1>4. ProsOf(z) \in Seq(Pros) /\ Len(ProsOf(z)) = Len(z) /\ \A i \in 1 .. Len(z) : ProsOf(z)[i] = z[i].pro
  BY <1>3, ProsOfIs
<1>5. PICK a, b, p : a = ProsOf(x) /\ b = ProsOf(y) /\ p = a \o b
  OBVIOUS
<1>6. /\ p \in Seq(Pros) /\ Len(p) = Len(x) + Len(y)
      /\ \A i \in 1 .. Len(x) + Len(y) :
           p[i] = IF i <= Len(x) THEN a[i] ELSE b[i - Len(x)]
  BY <1>1, <1>5, ConcatProperties
<1>7. ASSUME NEW i \in 1 .. Len(p) PROVE p[i] = ProsOf(z)[i]
  <2>1. CASE i <= Len(x)
    <3>1. i \in 1 .. Len(x) /\ i \in 1 .. Len(z) /\ i \in 1 .. Len(x) + Len(y)
      BY <1>1, <1>3, <1>6, <2>1
    <3> QED
      BY <1>1, <1>3, <1>4, <1>5, <1>6, <2>1, <3>1
  <2>2. CASE ~(i <= Len(x))
    <3>1. i - Len(x) \in 1 .. Len(y) /\ i \in 1 .. Len(z) /\ i \in 1 .. Len(x) + Len(y)
      BY <1>1, <1>3, <1>6, <2>2
    <3> QED
      BY <1>1, <1>3, <1>4, <1>5, <1>6, <2>2, <3>1
  <2> QED
    BY <2>1, <2>2
<1>8. p = ProsOf(z)
  BY <1>3, <1>4, <1>6, <1>7, SeqEqual
<1> QED
  BY <1>2, <1>5, <1>8

\* The first pages of a ranking and the next.
First(s, n, limit) == SubSeq(s, 1, Min({Len(s), n * limit}))

LEMMA FirstAndNext ==
  ASSUME NEW S, NEW s \in Seq(S), NEW n \in Nat, NEW limit \in Nat
  PROVE  First(s, n, limit) \o Stretch(s, n, limit) = First(s, n + 1, limit)
<1>1. PICK k : k = n * limit
  OBVIOUS
<1>2. k \in Nat /\ Len(s) \in Nat /\ (n + 1) * limit = k + limit
  BY <1>1
<1>3. PICK a : a = IF Len(s) <= k THEN Len(s) ELSE k
  OBVIOUS
<1>4. PICK b : b = IF Len(s) <= k + limit THEN Len(s) ELSE k + limit
  OBVIOUS
<1>5. Min({Len(s), k}) = a /\ Min({Len(s), k + limit}) = b
  BY <1>2, <1>3, <1>4, LeastOfTwo
<1>6. a \in Nat /\ b \in Nat /\ a <= b /\ b <= Len(s)
  BY <1>2, <1>3, <1>4
<1>7. SubSeq(s, 1, a) \o SubSeq(s, k + 1, b) = SubSeq(s, 1, b)
  <2>1. CASE Len(s) <= k
    <3>1. a = Len(s) /\ b = Len(s) /\ b < k + 1
      BY <1>2, <1>3, <1>4, <2>1
    <3>2. SubSeq(s, k + 1, b) = <<>>
      BY <1>2, <1>6, <3>1, SubSeqEmpty
    <3>3. SubSeq(s, 1, Len(s)) = s
      BY SubSeqFull
    <3>4. s \o <<>> = s
      BY ConcatEmptySeq
    <3> QED
      BY <3>1, <3>2, <3>3, <3>4
  <2>2. CASE Len(s) > k
    <3>1. a = k
      BY <1>2, <1>3, <2>2
    <3>2. 1 \in 1 .. Len(s) + 1 /\ a \in 1 - 1 .. Len(s) /\ b \in a .. Len(s)
      BY <1>2, <1>6
    <3> QED
      BY <3>1, <3>2, ConcatAdjacentSubSeq
  <2> QED
    <3>1. Len(s) <= k \/ Len(s) > k
      BY <1>2
    <3> QED
      BY <2>1, <2>2, <3>1
<1> QED
  BY <1>1, <1>2, <1>5, <1>7 DEF First, Stretch

LEMMA InvIsSound ==
  ASSUME SearchInv
  PROVE  SearchSound
<1>1. SearchTyped /\ kept.viewed \in Seq(Pros) /\ pages \in Seq(Page)
  BY DEF SearchInv, SearchTyped, SearchTypeOK, Keeping
<1>2. CASE looking.query = NoQuery
  <2>1. IsInjective(kept.viewed)
    BY <1>1 DEF SearchInv, Distinct, IsInjective
  <2> QED
    BY <1>2, <2>1 DEF SearchSound
<1>3. CASE looking.query # NoQuery
  <2> PICK q : q = looking.query
    OBVIOUS
  <2> PICK everyone : everyone = Matching(q)
    OBVIOUS
  <2>1. /\ AnswerRight(q, everyone) /\ PagesRight(q, everyone) /\ q \in Query /\ q.limit \in Nat \ {0}
        /\ everyone \in SUBSET Pros
    BY <1>1, <1>3, QueryTyped, MatchingFinite DEF SearchInv
  <2>2. /\ Len(pages) \in Nat /\ DOMAIN pages = 1 .. Len(pages)
        /\ \A i \in 1 .. Len(pages) : pages[i].items \in Seq(Dto)
    <3>1. Len(pages) \in Nat /\ DOMAIN pages = 1 .. Len(pages)
          /\ \A i \in 1 .. Len(pages) : pages[i] \in Page
      BY <1>1, LenProperties
    <3> QED
      BY <3>1 DEF Page
  <2>3. ASSUME NEW i \in DOMAIN pages
        PROVE  LET page == pages[i] IN
               /\ Len(page.items) <= q.limit
               /\ IsInjective([j \in DOMAIN page.items |-> page.items[j].pro])
               /\ ~page.moved => \A j \in DOMAIN page.items : page.items[j].pro \in page.matched
               /\ page.steady /\ looking.steady =>
                    /\ page.total = Cardinality(everyone)
                    /\ \A j, k \in DOMAIN page.items :
                         j < k /\ q.sort = "price:asc" /\ page.items[k].from # 0 =>
                           page.items[j].from \in 1 .. page.items[k].from
    <3> PICK page : page = pages[i]
      OBVIOUS
    <3>1. /\ PageOnce(q, page) /\ page.items \in Seq(Dto) /\ DOMAIN page.items = 1 .. Len(page.items)
          /\ i \in 1 .. Len(pages)
      BY <2>1, <2>2 DEF PagesRight
    <3>2. looking.steady /\ page.steady =>
            page.total = Cardinality(everyone) /\ (q.sort = "price:asc" => PricesRise(page))
      BY <2>1, <3>1 DEF PagesRight, PageSteady
    <3>3. IsInjective(ProsOf(page.items))
      <4>1. DOMAIN ProsOf(page.items) = 1 .. Len(page.items) /\ Len(ProsOf(page.items)) = Len(page.items)
        BY <3>1 DEF ProsOf
      <4> QED
        BY <3>1, <4>1 DEF PageOnce, Distinct, IsInjective
    <3> QED
      BY <3>1, <3>2, <3>3 DEF PageOnce, PricesRise, ProsOf
  <2>4. ASSUME looking.steady, Decided(q, everyone)
        PROVE  \E s \in Rankings(q, everyone) : ProsOf(Listed) = First(s, Len(pages), q.limit)
    <3> DEFINE ss == [i \in DOMAIN pages |-> pages[i].items]
    <3>1. ss \in Seq(Seq(Dto)) /\ Len(ss) = Len(pages) /\ \A i \in 1 .. Len(pages) : ss[i] = pages[i].items
      BY <2>2
    <3>2. Listed = FlattenSeq(ss)
      BY DEF Listed
    <3>3. PICK s \in Rankings(q, everyone) :
            \A i \in 1 .. Len(pages) : ProsOf(pages[i].items) = Stretch(s, i - 1, q.limit)
      <4>1. PICK s : s \in Rankings(q, everyone)
        BY <1>1, <2>1, RankingExists
      <4>2. \A i \in 1 .. Len(pages) :
              \E r \in Rankings(q, everyone) : ProsOf(pages[i].items) = Stretch(r, i - 1, q.limit)
        BY <2>1, <2>4 DEF PagesRight, PageSteady
      <4>3. \A r \in Rankings(q, everyone) : r = s
        BY <1>1, <2>1, <2>4, <4>1, RankingOne
      <4> QED
        BY <4>1, <4>2, <4>3
    <3>4. s \in Seq(everyone) /\ Len(s) \in Nat
      BY <2>1, RankingIs
    <3>5. First(s, 0, q.limit) = <<>>
      <4>1. PICK none : none = 0 * q.limit
        OBVIOUS
      <4>2. none = 0
        BY <2>1, <4>1
      <4>3. Min({Len(s), none}) = 0
        BY <3>4, <4>2, LeastOfTwo
      <4>4. First(s, 0, q.limit) = SubSeq(s, 1, 0)
        BY <4>1, <4>3 DEF First
      <4> QED
        BY <4>4, SubSeqEmpty
    <3> HIDE DEF ss
    <3>6. CASE Len(pages) = 0
      <4>1. Listed = <<>>
        BY <3>1, <3>2, <3>6 DEF FlattenSeq
      <4>2. ProsOf(<<>>) = <<>>
        BY DEF ProsOf
      <4> QED
        BY <3>5, <3>6, <4>1, <4>2
    <3>7. CASE Len(pages) # 0
      <4>1. PICK flat :
              /\ flat[1] = ss[1] /\ FlattenSeq(ss) = flat[Len(ss)]
              /\ \A n \in 2 .. Len(ss) : flat[n] = flat[n - 1] \o ss[n]
        BY <3>1, <3>7, FlattenIs
      <4> DEFINE Right(n) == flat[n] \in Seq(Dto) /\ ProsOf(flat[n]) = First(s, n, q.limit)
                 T == { n \in 0 .. Len(pages) : n = 0 \/ Right(n) }
      <4>2. \A n \in 1 .. Len(pages) :
              First(s, n - 1, q.limit) \o Stretch(s, n - 1, q.limit) = First(s, n, q.limit)
        <5> SUFFICES ASSUME NEW n \in 1 .. Len(pages)
                     PROVE  First(s, n - 1, q.limit) \o Stretch(s, n - 1, q.limit) = First(s, n, q.limit)
          OBVIOUS
        <5>1. n - 1 \in Nat /\ (n - 1) + 1 = n
          BY <2>2
        <5>2. First(s, n - 1, q.limit) \o Stretch(s, n - 1, q.limit) = First(s, (n - 1) + 1, q.limit)
          BY <2>1, <3>4, <5>1, FirstAndNext
        <5> QED
          BY <5>1, <5>2
      <4>3. Right(1)
        <5>1. flat[1] = pages[1].items /\ pages[1].items \in Seq(Dto)
          BY <2>2, <3>1, <3>7, <4>1
        <5>2. ProsOf(pages[1].items) = Stretch(s, 0, q.limit)
          <6>1. 1 \in 1 .. Len(pages) /\ 1 - 1 = 0
            BY <2>2, <3>7
          <6> QED
            BY <3>3, <6>1
        <5>3. Stretch(s, 0, q.limit) \in Seq(everyone)
          BY <2>1, <3>4, StretchIs
        <5>4. <<>> \o Stretch(s, 0, q.limit) = First(s, 1, q.limit)
          <6>1. 1 \in 1 .. Len(pages) /\ 1 - 1 = 0
            BY <2>2, <3>7
          <6> QED
            BY <3>5, <4>2, <6>1
        <5>5. <<>> \o Stretch(s, 0, q.limit) = Stretch(s, 0, q.limit)
          BY <5>3, ConcatEmptySeq
        <5> QED
          BY <5>1, <5>2, <5>4, <5>5
      <4>4. ASSUME NEW n \in 2 .. Len(pages), Right(n - 1) PROVE Right(n)
        <5>1. n \in 1 .. Len(pages) /\ flat[n] = flat[n - 1] \o pages[n].items
              /\ pages[n].items \in Seq(Dto)
          <6>1. n \in 1 .. Len(pages) /\ n \in 2 .. Len(ss)
            BY <2>2, <3>1
          <6> QED
            BY <2>2, <3>1, <4>1, <6>1
        <5>2. ProsOf(flat[n]) = ProsOf(flat[n - 1]) \o ProsOf(pages[n].items)
          BY <4>4, <5>1, ProsOfBoth
        <5>3. ProsOf(flat[n]) = First(s, n, q.limit)
          BY <3>3, <4>2, <4>4, <5>1, <5>2
        <5>4. flat[n] \in Seq(Dto)
          BY <4>4, <5>1
        <5> QED
          BY <5>3, <5>4
      <4> HIDE DEF Right
      <4>5. 0 \in T
        BY <2>2
      <4>6. \A n \in 1 .. Len(pages) : n - 1 \in T => n \in T
        <5> SUFFICES ASSUME NEW n \in 1 .. Len(pages), n - 1 \in T PROVE Right(n)
          BY <2>2
        <5>1. CASE n = 1
          BY <4>3, <5>1
        <5>2. CASE n # 1
          BY <4>4, <5>2, <2>2
        <5> QED
          BY <5>1, <5>2
      <4> HIDE DEF T
      <4>7. Len(pages) \in T
        <5>1. \A n \in 0 .. Len(pages) : n \in T
          BY <2>2, <4>5, <4>6, StepByStep
        <5> QED
          BY <2>2, <5>1
      <4>8. Right(Len(pages))
        BY <3>7, <4>7 DEF T
      <4> QED
        BY <3>1, <3>2, <4>1, <4>8 DEF Right
    <3> QED
      BY <3>6, <3>7
  <2> QED
    BY <1>3, <2>3, <2>4 DEF SearchSound, Decided, ProsOf, First
<1> QED
  BY <1>2, <1>3

-----------------------------------------------------------------------------
(* The reports *)

FiguresTyped ==
  /\ FiguresTypeOK
  /\ \E kind, read, at, moves :
       report = [ kind |-> kind, read |-> read, at |-> at, moves |-> moves ]

LEMMA FiguresTypedAtFirst ==
  ASSUME InitFigures
  PROVE  FiguresTyped
<1>1. facts \in Facts
  BY FiguresAssumption DEF InitFigures, FiguresAssumption
<1>2. PICK kind \in DOMAIN QueriesOf :
        report = [ kind |-> kind, read |-> {}, at |-> <<>>, moves |-> 0 ]
  BY DEF InitFigures
<1>3. report.at \in [{} -> Facts]
  BY <1>2
<1>4. report.moves \in 0 .. MaxMoves
  BY <1>2, FiguresAssumption DEF FiguresAssumption
<1> QED
  BY <1>1, <1>2, <1>3, <1>4 DEF FiguresTyped, FiguresTypeOK

\* A query adds what it saw to what the others saw.
LEMMA AskTyped ==
  ASSUME FiguresTyped, NEW query, Ask(query)
  PROVE  FiguresTyped'
<1>1. PICK kind, read, at, moves :
        report = [ kind |-> kind, read |-> read, at |-> at, moves |-> moves ]
  BY DEF FiguresTyped
<1>2. /\ facts \in Facts /\ kind \in DOMAIN QueriesOf /\ read \subseteq QueriesOf[kind]
      /\ at \in [read -> Facts] /\ moves \in 0 .. MaxMoves
  BY <1>1 DEF FiguresTyped, FiguresTypeOK
<1> DEFINE more == [ q \in read \cup {query} |-> IF q = query THEN facts ELSE at[q] ]
<1>3. /\ query \in QueriesOf[kind] /\ facts' = facts
      /\ report' = [ kind |-> kind, read |-> read \cup {query}, at |-> more, moves |-> moves ]
  BY <1>1 DEF Ask
<1>4. more \in [read \cup {query} -> Facts]
  BY <1>2
<1> HIDE DEF more
<1> QED
  BY <1>2, <1>3, <1>4 DEF FiguresTyped, FiguresTypeOK

LEMMA ChangedTyped ==
  ASSUME FiguresTyped, NEW written \in Facts, Changed(written)
  PROVE  FiguresTyped'
<1>1. PICK kind, read, at, moves :
        report = [ kind |-> kind, read |-> read, at |-> at, moves |-> moves ]
  BY DEF FiguresTyped
<1>2. /\ facts \in Facts /\ kind \in DOMAIN QueriesOf /\ read \subseteq QueriesOf[kind]
      /\ at \in [read -> Facts] /\ moves \in 0 .. MaxMoves
  BY <1>1 DEF FiguresTyped, FiguresTypeOK
<1>3. /\ moves < MaxMoves /\ facts' = written
      /\ report' = [ kind |-> kind, read |-> read, at |-> at, moves |-> moves + 1 ]
  BY <1>1 DEF Changed
<1>4. moves + 1 \in 0 .. MaxMoves
  BY <1>2, <1>3, FiguresAssumption DEF FiguresAssumption
<1> QED
  BY <1>2, <1>3, <1>4 DEF FiguresTyped, FiguresTypeOK

LEMMA AdvanceTyped ==
  ASSUME FiguresTyped, NEW v \in Visits, Advance(v)
  PROVE  FiguresTyped'
<1> USE FiguresAssumption DEF FiguresAssumption
<1>1. facts \in Facts /\ facts.of \in [Visits -> Fact] /\ facts.of[v] \in Fact
  BY DEF FiguresTyped, FiguresTypeOK, Facts
<1>2. ASSUME NEW fact \in Fact PROVE [ facts EXCEPT !.of[v] = fact ] \in Facts
  BY <1>1 DEF Facts
<1>3. ASSUME NEW to \in Machine!Statuses, Changed(Progressed(v, to)) PROVE FiguresTyped'
  <2> DEFINE day == IF to = "COMPLETED" THEN WindowDays ELSE facts.of[v].day
             acc == facts.of[v].accepted \/ to = "ACCEPTED"
             fact == [ facts.of[v] EXCEPT !.status = to, !.accepted = acc, !.day = day ]
  <2>1. day \in 0 .. WindowDays /\ acc \in BOOLEAN
    BY <1>1 DEF Fact
  <2> HIDE DEF day, acc
  <2>2. fact \in Fact
    BY <1>1, <2>1 DEF Fact
  <2>3. Progressed(v, to) = [ facts EXCEPT !.of[v] = fact ]
    BY <1>1 DEF Progressed, Facts, Fact, day, acc
  <2> HIDE DEF fact
  <2> QED
    BY <1>2, <1>3, <2>2, <2>3, ChangedTyped
<1>4. {"PENDING", "ACCEPTED"} \subseteq Machine!Statuses
  BY DEF Machine!Statuses
<1> QED
  BY <1>3, <1>4 DEF Advance

LEMMA ModerateTyped ==
  ASSUME FiguresTyped, NEW v \in Visits, Moderate(v)
  PROVE  FiguresTyped'
<1>1. facts \in Facts /\ facts.of \in [Visits -> Fact] /\ facts.of[v] \in Fact
  BY DEF FiguresTyped, FiguresTypeOK, Facts
<1>2. [ facts.of[v] EXCEPT !.visible = ~facts.of[v].visible ] \in Fact
  BY <1>1 DEF Fact
<1>3. [ facts EXCEPT !.of[v].visible = ~facts.of[v].visible ] \in Facts
  BY <1>1, <1>2 DEF Facts
<1> QED
  BY <1>3, ChangedTyped DEF Moderate

LEMMA WithdrawTradeTyped ==
  ASSUME FiguresTyped, NEW t \in Trades, WithdrawTrade(t)
  PROVE  FiguresTyped'
<1>1. facts \in Facts /\ facts.withdrawn \subseteq Trades
  BY DEF FiguresTyped, FiguresTypeOK, Facts
<1>2. [ facts EXCEPT !.withdrawn = facts.withdrawn \cup {t} ] \in Facts
  BY <1>1 DEF Facts
<1> QED
  BY <1>2, ChangedTyped DEF WithdrawTrade

LEMMA FiguresTypedKept ==
  ASSUME FiguresTyped, NextFigures
  PROVE  FiguresTyped'
<1>1. ASSUME NEW v \in Visits, Advance(v) \/ Moderate(v) PROVE FiguresTyped'
  BY <1>1, AdvanceTyped, ModerateTyped
<1> QED
  BY <1>1, AskTyped, WithdrawTradeTyped DEF NextFigures

-----------------------------------------------------------------------------
(* How far apart the queries of a report may be *)

\* The bookings that are not the same in two states of the rows.
Differ(a, b) == { v \in Visits : a.of[v] # b.of[v] }
Far(a, b) == Cardinality(Differ(a, b))

LEMMA FarTyped ==
  ASSUME NEW a, NEW b
  PROVE  IsFiniteSet(Differ(a, b)) /\ Far(a, b) \in Nat /\ Far(a, a) = 0 /\ Far(a, b) = Far(b, a)
<1>1. IsFiniteSet(Differ(a, b)) /\ Far(a, b) \in Nat
  BY FiguresAssumption, FS_Subset, FS_CardinalityType DEF FiguresAssumption, Differ, Far
<1>2. Differ(a, a) = {} /\ Differ(a, b) = Differ(b, a)
  BY DEF Differ
<1> QED
  BY <1>1, <1>2, FS_EmptySet DEF Far

\* What two sets cover is no more than both.
LEMMA CoveredByBoth ==
  ASSUME NEW A, NEW B, NEW D, IsFiniteSet(B), IsFiniteSet(D), A \subseteq B \cup D
  PROVE  IsFiniteSet(A) /\ Cardinality(A) \in Nat /\ Cardinality(A) <= Cardinality(B) + Cardinality(D)
<1>1. /\ IsFiniteSet(B \cup D)
      /\ Cardinality(B \cup D) = Cardinality(B) + Cardinality(D) - Cardinality(B \cap D)
  BY FS_Union
<1>2. IsFiniteSet(B \cap D)
  BY FS_Intersection
<1>3. Cardinality(B) \in Nat /\ Cardinality(D) \in Nat /\ Cardinality(B \cap D) \in Nat
  BY <1>2, FS_CardinalityType
<1>4. IsFiniteSet(A) /\ Cardinality(A) <= Cardinality(B \cup D)
  BY <1>1, FS_Subset
<1>5. Cardinality(A) \in Nat
  BY <1>4, FS_CardinalityType
<1> QED
  BY <1>1, <1>3, <1>4, <1>5

LEMMA FarThrough ==
  ASSUME NEW a, NEW b, NEW c
  PROVE  Far(a, c) <= Far(a, b) + Far(b, c)
<1>1. Differ(a, c) \subseteq Differ(a, b) \cup Differ(b, c)
  BY DEF Differ
<1>2. IsFiniteSet(Differ(a, b)) /\ IsFiniteSet(Differ(b, c))
  BY FarTyped
<1> QED
  BY <1>1, <1>2, CoveredByBoth DEF Far

LEMMA FarByOne ==
  ASSUME NEW a, NEW b, NEW v, \A w \in Visits \ {v} : a.of[w] = b.of[w]
  PROVE  Far(a, b) <= 1
<1>1. Differ(a, b) \subseteq {v}
  BY DEF Differ
<1>2. IsFiniteSet({v}) /\ Cardinality({v}) = 1
  BY FS_Singleton
<1> QED
  BY <1>1, <1>2, FS_Subset DEF Far

\* Three states, the second of them passed on the way from the first to the third.
Between(a, b, c, moves) == Far(a, b) + Far(b, c) <= moves
InARow(a, b, c, moves) ==
  Between(a, b, c, moves) \/ Between(b, a, c, moves) \/ Between(a, c, b, moves)

\* What the queries saw lies on one way to the rows there are, no longer than was written.
DriftIn(rows, read, at, moves) ==
  /\ \A q, r \in read : Between(at[q], at[r], rows, moves) \/ Between(at[r], at[q], rows, moves)
  /\ \A q, r, s \in read : InARow(at[q], at[r], at[s], moves)
  /\ moves = 0 => \A q \in read : at[q] = rows
  /\ TakenAccepted(rows) /\ \A q \in read : TakenAccepted(at[q])

FiguresDrift == DriftIn(facts, report.read, report.at, report.moves)

LEMMA DriftAsk ==
  ASSUME NEW rows, NEW read, NEW at, NEW moves \in Nat, NEW query, NEW more,
         DriftIn(rows, read, at, moves),
         \A q \in read \cup {query} : more[q] = IF q = query THEN rows ELSE at[q]
  PROVE  DriftIn(rows, read \cup {query}, more, moves)
<1> DEFINE D == read \cup {query}
<1>1. \A a, b : Far(a, b) \in Nat /\ Far(a, a) = 0 /\ Far(a, b) = Far(b, a)
  BY FarTyped
<1>2. \A q \in D : more[q] = rows \/ (q \in read /\ more[q] = at[q])
  OBVIOUS
<1>3. \A q \in read : Far(at[q], rows) <= moves
  <2>1. ASSUME NEW q \in read PROVE Between(at[q], at[q], rows, moves)
    BY DEF DriftIn
  <2> QED
    BY <1>1, <2>1 DEF Between
<1>4. ASSUME NEW q \in D, NEW r \in D
      PROVE  Between(more[q], more[r], rows, moves) \/ Between(more[r], more[q], rows, moves)
  <2>1. CASE more[q] = rows /\ more[r] = rows
    BY <1>1, <2>1 DEF Between
  <2>2. CASE more[q] = rows /\ r \in read /\ more[r] = at[r]
    <3>1. Between(at[r], rows, rows, moves)
      BY <1>1, <1>3, <2>2 DEF Between
    <3> QED
      BY <2>2, <3>1
  <2>3. CASE more[r] = rows /\ q \in read /\ more[q] = at[q]
    <3>1. Between(at[q], rows, rows, moves)
      BY <1>1, <1>3, <2>3 DEF Between
    <3> QED
      BY <2>3, <3>1
  <2>4. CASE q \in read /\ more[q] = at[q] /\ r \in read /\ more[r] = at[r]
    BY <2>4 DEF DriftIn
  <2> QED
    BY <1>2, <2>1, <2>2, <2>3, <2>4
<1>5. ASSUME NEW a, NEW b, Between(a, b, rows, moves) \/ Between(b, a, rows, moves)
      PROVE  InARow(a, b, rows, moves) /\ InARow(a, rows, b, moves) /\ InARow(rows, a, b, moves)
  BY <1>1, <1>5 DEF InARow, Between
<1>6. ASSUME NEW q \in D, NEW r \in D, NEW s \in D
      PROVE  InARow(more[q], more[r], more[s], moves)
  <2>1. CASE q \in read /\ more[q] = at[q] /\ r \in read /\ more[r] = at[r] /\ s \in read /\ more[s] = at[s]
    BY <2>1 DEF DriftIn
  <2>2. CASE more[q] = rows \/ more[r] = rows \/ more[s] = rows
    BY <1>4, <1>5, <2>2
  <2> QED
    BY <1>2, <2>1, <2>2
<1>7. moves = 0 => \A q \in D : more[q] = rows
  BY <1>2 DEF DriftIn
<1>8. TakenAccepted(rows) /\ \A q \in D : TakenAccepted(more[q])
  BY <1>2 DEF DriftIn
<1> HIDE DEF D
<1> QED
  BY <1>4, <1>6, <1>7, <1>8 DEF DriftIn, D

LEMMA DriftChanged ==
  ASSUME NEW rows, NEW read, NEW at, NEW moves \in Nat, DriftIn(rows, read, at, moves),
         NEW written, Far(rows, written) <= 1, TakenAccepted(written)
  PROVE  DriftIn(written, read, at, moves + 1)
<1>1. \A a, b : Far(a, b) \in Nat
  BY FarTyped
<1>2. ASSUME NEW a, NEW b, Between(a, b, rows, moves) PROVE Between(a, b, written, moves + 1)
  <2>1. Far(b, written) <= Far(b, rows) + Far(rows, written)
    BY FarThrough
  <2> QED
    BY <1>1, <1>2, <2>1 DEF Between
<1>3. ASSUME NEW a, NEW b, NEW c, InARow(a, b, c, moves) PROVE InARow(a, b, c, moves + 1)
  BY <1>1, <1>3 DEF InARow, Between
<1>4. moves + 1 # 0
  OBVIOUS
<1> QED
  BY <1>2, <1>3, <1>4 DEF DriftIn

LEMMA DriftAtFirst ==
  ASSUME InitFigures
  PROVE  FiguresDrift
<1>1. facts \in Ledgers /\ report.read = {} /\ report.moves = 0
  BY DEF InitFigures
<1>2. TakenAccepted(facts)
  BY <1>1, FiguresAssumption DEF FiguresAssumption
<1> QED
  BY <1>1, <1>2 DEF FiguresDrift, DriftIn

LEMMA AskDrifts ==
  ASSUME FiguresTyped, FiguresDrift, NEW query, Ask(query)
  PROVE  FiguresDrift'
<1>1. PICK kind, read, at, moves :
        report = [ kind |-> kind, read |-> read, at |-> at, moves |-> moves ]
  BY DEF FiguresTyped
<1>2. moves \in Nat /\ DriftIn(facts, read, at, moves)
  BY <1>1, FiguresAssumption DEF FiguresTyped, FiguresTypeOK, FiguresDrift, FiguresAssumption
<1> DEFINE more == [ q \in read \cup {query} |-> IF q = query THEN facts ELSE at[q] ]
<1>3. /\ facts' = facts
      /\ report' = [ kind |-> kind, read |-> read \cup {query}, at |-> more, moves |-> moves ]
  BY <1>1 DEF Ask
<1>4. \A q \in read \cup {query} : more[q] = IF q = query THEN facts ELSE at[q]
  OBVIOUS
<1> HIDE DEF more
<1>5. DriftIn(facts, read \cup {query}, more, moves)
  BY <1>2, <1>4, DriftAsk
<1> QED
  BY <1>3, <1>5 DEF FiguresDrift

LEMMA ChangedDrifts ==
  ASSUME FiguresTyped, FiguresDrift, NEW written, Changed(written),
         Far(facts, written) <= 1, TakenAccepted(written)
  PROVE  FiguresDrift'
<1>1. PICK kind, read, at, moves :
        report = [ kind |-> kind, read |-> read, at |-> at, moves |-> moves ]
  BY DEF FiguresTyped
<1>2. moves \in Nat /\ DriftIn(facts, read, at, moves)
  BY <1>1, FiguresAssumption DEF FiguresTyped, FiguresTypeOK, FiguresDrift, FiguresAssumption
<1>3. /\ facts' = written
      /\ report' = [ kind |-> kind, read |-> read, at |-> at, moves |-> moves + 1 ]
  BY <1>1 DEF Changed
<1>4. DriftIn(written, read, at, moves + 1)
  BY <1>2, DriftChanged
<1> QED
  BY <1>3, <1>4 DEF FiguresDrift

\* What was taken on was accepted first, or when it was booked.
LEMMA AdvanceDrifts ==
  ASSUME FiguresTyped, FiguresDrift, NEW v \in Visits, Advance(v)
  PROVE  FiguresDrift'
<1>1. facts \in Facts /\ facts.of \in [Visits -> Fact] /\ facts.of[v] \in Fact
  BY DEF FiguresTyped, FiguresTypeOK, Facts
<1>2. TakenAccepted(facts)
  BY DEF FiguresDrift, DriftIn
<1>3. ASSUME NEW to, Changed(Progressed(v, to)),
             to \in Taken => to = "ACCEPTED" \/ facts.of[v].status \in Taken
      PROVE  FiguresDrift'
  <2>1. \A w \in Visits \ {v} : Progressed(v, to).of[w] = facts.of[w]
    BY <1>1 DEF Progressed, Facts
  <2>2. /\ Progressed(v, to).of[v].status = to
        /\ Progressed(v, to).of[v].accepted = (facts.of[v].accepted \/ to = "ACCEPTED")
    BY <1>1 DEF Progressed, Facts, Fact
  <2>3. TakenAccepted(Progressed(v, to))
    BY <1>2, <1>3, <2>1, <2>2 DEF TakenAccepted
  <2>4. Far(facts, Progressed(v, to)) <= 1
    BY <2>1, FarByOne
  <2> QED
    BY <1>3, <2>3, <2>4, ChangedDrifts
<1>4. ASSUME NEW to \in Machine!Statuses, NEW actor,
             Machine!CanTransition(facts.of[v].status, to, actor)
      PROVE  to \in Taken => to = "ACCEPTED" \/ facts.of[v].status \in Taken
  BY <1>4 DEF Taken, Machine!CanTransition, Machine!Transitions
<1>5. ASSUME NEW to \in {"PENDING", "ACCEPTED"}
      PROVE  to \in Taken => to = "ACCEPTED" \/ facts.of[v].status \in Taken
  BY DEF Taken
<1> QED
  BY <1>3, <1>4, <1>5 DEF Advance

LEMMA ModerateDrifts ==
  ASSUME FiguresTyped, FiguresDrift, NEW v \in Visits, Moderate(v)
  PROVE  FiguresDrift'
<1> DEFINE written == [ facts EXCEPT !.of[v].visible = ~facts.of[v].visible ]
<1>1. facts \in Facts /\ facts.of \in [Visits -> Fact] /\ facts.of[v] \in Fact
  BY DEF FiguresTyped, FiguresTypeOK, Facts
<1>2. Changed(written)
  BY DEF Moderate
<1>3. \A w \in Visits \ {v} : written.of[w] = facts.of[w]
  BY <1>1 DEF Facts
<1>4. written.of[v].status = facts.of[v].status /\ written.of[v].accepted = facts.of[v].accepted
  BY <1>1 DEF Facts, Fact
<1> HIDE DEF written
<1>5. TakenAccepted(written)
  BY <1>3, <1>4 DEF FiguresDrift, DriftIn, TakenAccepted
<1>6. Far(facts, written) <= 1
  BY <1>3, FarByOne
<1> QED
  BY <1>2, <1>5, <1>6, ChangedDrifts

LEMMA WithdrawTradeDrifts ==
  ASSUME FiguresTyped, FiguresDrift, NEW t \in Trades, WithdrawTrade(t)
  PROVE  FiguresDrift'
<1> DEFINE written == [ facts EXCEPT !.withdrawn = facts.withdrawn \cup {t} ]
<1>1. Changed(written)
  BY DEF WithdrawTrade
<1>2. written.of = facts.of
  BY DEF FiguresTyped, FiguresTypeOK, Facts
<1> HIDE DEF written
<1>3. TakenAccepted(written)
  BY <1>2 DEF FiguresDrift, DriftIn, TakenAccepted
<1>4. Far(facts, written) <= 1
  <2>1. Far(facts, written) = Far(facts, facts) /\ Far(facts, facts) = 0
    BY <1>2, FarTyped DEF Far, Differ
  <2> QED
    BY <2>1
<1> QED
  BY <1>1, <1>3, <1>4, ChangedDrifts

LEMMA FiguresDriftKept ==
  ASSUME FiguresTyped, FiguresDrift, NextFigures
  PROVE  FiguresDrift'
<1>1. ASSUME NEW v \in Visits, Advance(v) \/ Moderate(v) PROVE FiguresDrift'
  BY <1>1, AdvanceDrifts, ModerateDrifts
<1> QED
  BY <1>1, AskDrifts, WithdrawTradeDrifts DEF NextFigures

-----------------------------------------------------------------------------
(* Why the figures agree *)

\* What a query counts of the rows is part of the bookings.
LEMMA CountTyped ==
  ASSUME NEW A \in SUBSET Visits
  PROVE  IsFiniteSet(A) /\ Count(A) \in Nat
BY FiguresAssumption, FS_Subset, FS_CardinalityType DEF FiguresAssumption, Count

\* Two queries that find the same bookings, where these are the same, count as many but for
\* those that are not.
LEMMA CountWithin ==
  ASSUME NEW a, NEW b, NEW A \in SUBSET Visits, NEW B \in SUBSET Visits,
         \A v \in A : a.of[v] = b.of[v] => v \in B
  PROVE  Count(A) <= Count(B) + Far(a, b)
<1>1. A \subseteq B \cup Differ(a, b)
  BY DEF Differ
<1>2. IsFiniteSet(B) /\ IsFiniteSet(Differ(a, b))
  BY CountTyped, FarTyped
<1> QED
  BY <1>1, <1>2, CoveredByBoth DEF Count, Far

LEMMA CountOfBoth ==
  ASSUME NEW A \in SUBSET Visits, NEW B \in SUBSET Visits, A \cap B = {}
  PROVE  Count(A \cup B) = Count(A) + Count(B)
<1>1. IsFiniteSet(A) /\ IsFiniteSet(B) /\ Cardinality(A) \in Nat /\ Cardinality(B) \in Nat
  BY CountTyped DEF Count
<1>2. Cardinality(A \cup B) = Cardinality(A) + Cardinality(B) - Cardinality(A \cap B)
  BY <1>1, FS_Union
<1>3. Cardinality(A \cap B) = 0
  BY FS_EmptySet
<1> QED
  BY <1>1, <1>2, <1>3 DEF Count

LEMMA CountOfPart ==
  ASSUME NEW A \in SUBSET Visits, NEW B \in SUBSET A
  PROVE  Count(B) <= Count(A) /\ Count(B) \in Nat /\ Count(A) \in Nat
BY CountTyped, FS_Subset DEF Count

\* Under as many headings as there are.
LEMMA HeadingsOf ==
  ASSUME NEW A, IsFiniteSet(A), NEW h
  PROVE  IsFiniteSet({ h[v] : v \in A }) /\ Count({ h[v] : v \in A }) <= Count(A)
<1> DEFINE f == [ v \in A |-> h[v] ]
<1>1. f \in Surjection(A, { h[v] : v \in A })
  BY DEF Surjection
<1> QED
  BY <1>1, FS_Surjection DEF Count

CountedBy(g, A, h, K) == \A k \in K : g[k] = Count({ v \in A : h[v] = k })
LEMMA CountByHeading ==
  ASSUME NEW A \in SUBSET Visits, NEW h, NEW K, IsFiniteSet(K), NEW g, CountedBy(g, A, h, K)
  PROVE  Sum(g, K) = Count(Headed(A, h, K))
<1> DEFINE one == [ v \in Visits |-> 1 ]
<1>1. ASSUME NEW B \in SUBSET Visits PROVE Summable(one, B) /\ SumOver(one, B) = Count(B)
  <2>1. IsFiniteSet(B) /\ \A v \in B : one[v] = 1
    BY CountTyped
  <2> HIDE DEF one
  <2> QED
    BY <2>1, SumOfOnes DEF Summable, Count
<1> HIDE DEF one
<1>2. Summable(one, A) /\ ByHeading(g, one, A, h, K)
  BY <1>1 DEF ByHeading, CountedBy
<1>3. SumOver(g, K) = SumOver(one, Headed(A, h, K))
  BY <1>2, SumByHeading
<1>4. Sum(g, K) = SumOver(g, K)
  BY DEF Sum, SumOver
<1> QED
  BY <1>1, <1>3, <1>4 DEF Headed

\* What bookings are worth, together and by heading.
LEMMA WorthTyped ==
  ASSUME NEW A \in SUBSET Visits
  PROVE  Summable(PriceOf, A) /\ Worth(A) \in Nat /\ Worth(A) = SumOver(PriceOf, A)
<1>1. IsFiniteSet(A) /\ \A v \in A : PriceOf[v] \in Nat
  BY CountTyped, FiguresAssumption DEF FiguresAssumption
<1>2. SumOver(PriceOf, A) \in Nat
  BY <1>1, SumOfNaturals
<1>3. Worth(A) = SumOver(PriceOf, A)
  BY DEF Worth, Sum, SumOver
<1> QED
  BY <1>1, <1>2, <1>3 DEF Summable

LEMMA WorthOfPart ==
  ASSUME NEW A \in SUBSET Visits, NEW B \in SUBSET A
  PROVE  Worth(B) <= Worth(A)
<1>1. IsFiniteSet(A) /\ \A v \in A : PriceOf[v] \in Nat
  BY CountTyped, FiguresAssumption DEF FiguresAssumption
<1>2. SumOver(PriceOf, B) <= SumOver(PriceOf, A)
  BY <1>1, SumOfPart
<1> QED
  BY <1>2, WorthTyped

ValuedBy(g, A, h, K) == \A k \in K : g[k] = Worth({ v \in A : h[v] = k })
LEMMA WorthByHeading ==
  ASSUME NEW A \in SUBSET Visits, NEW h, NEW K, IsFiniteSet(K), NEW g, ValuedBy(g, A, h, K)
  PROVE  Sum(g, K) = Worth(Headed(A, h, K))
<1>1. Summable(PriceOf, A) /\ ByHeading(g, PriceOf, A, h, K)
  BY WorthTyped DEF ByHeading, ValuedBy
<1>2. SumOver(g, K) = SumOver(PriceOf, Headed(A, h, K))
  BY <1>1, SumByHeading
<1>3. Sum(g, K) = SumOver(g, K)
  BY DEF Sum, SumOver
<1> QED
  BY <1>2, <1>3, WorthTyped DEF Headed

\* The bookings of each category, or service, as a report lists them: for all there are of some
\* bookings, how many of some of these are under each, and what these are worth.
Tallies(f, figure, A, B, h) ==
  DOMAIN f = { h[v] : v \in B } /\ \A k \in DOMAIN f : f[k][figure] = Count({ v \in A : h[v] = k })
Values(f, figure, A, B, h) ==
  DOMAIN f = { h[v] : v \in B } /\ \A k \in DOMAIN f : f[k][figure] = Worth({ v \in A : h[v] = k })

LEMMA TotalOfTallies ==
  ASSUME NEW B \in SUBSET Visits, NEW A \in SUBSET B, NEW h, NEW figure, NEW f,
         Tallies(f, figure, A, B, h)
  PROVE  Total(figure, f) = Count(A)
<1> DEFINE K == { h[v] : v \in B }
           g == [ x \in DOMAIN f |-> f[x][figure] ]
<1>1. DOMAIN g = K /\ CountedBy(g, A, h, K)
  BY DEF Tallies, CountedBy
<1>2. IsFiniteSet(K)
  BY CountTyped, HeadingsOf
<1>3. Headed(A, h, K) = A
  BY DEF Headed
<1> HIDE DEF K, g
<1>4. Sum(g, K) = Count(Headed(A, h, K))
  BY <1>1, <1>2, CountByHeading
<1> QED
  BY <1>1, <1>3, <1>4 DEF Total, Plain, g

LEMMA TotalOfValues ==
  ASSUME NEW B \in SUBSET Visits, NEW A \in SUBSET B, NEW h, NEW figure, NEW f,
         Values(f, figure, A, B, h)
  PROVE  Total(figure, f) = Worth(A)
<1> DEFINE K == { h[v] : v \in B }
           g == [ x \in DOMAIN f |-> f[x][figure] ]
<1>1. DOMAIN g = K /\ ValuedBy(g, A, h, K)
  BY DEF Values, ValuedBy
<1>2. IsFiniteSet(K)
  BY CountTyped, HeadingsOf
<1>3. Headed(A, h, K) = A
  BY DEF Headed
<1> HIDE DEF K, g
<1>4. Sum(g, K) = Worth(Headed(A, h, K))
  BY <1>1, <1>2, WorthByHeading
<1> QED
  BY <1>1, <1>3, <1>4 DEF Total, Plain, g

\* Math.round of a part, in thousandths and hundredths of the whole.
LEMMA Quotient ==
  ASSUME NEW x \in Int, NEW d \in Nat \ {0}
  PROVE  x \div d \in Int /\ d * (x \div d) <= x /\ x < d * (x \div d) + d
OBVIOUS

LEMMA QuotientWithin ==
  ASSUME NEW x \in Int, NEW d \in Nat \ {0}, NEW lo \in Int, NEW hi \in Int,
         d * lo <= x, x < d * hi + d
  PROVE  x \div d \in lo .. hi
<1> DEFINE q == x \div d
<1>1. q \in Int /\ d * q <= x /\ x < d * q + d
  BY Quotient
<1> HIDE DEF q
<1>2. ~ (q < lo)
  <2>1. SUFFICES ASSUME q < lo PROVE FALSE
    OBVIOUS
  <2>2. d * (q + 1) <= d * lo
    BY <1>1, <2>1
  <2> QED
    BY <1>1, <2>2
<1>3. ~ (hi < q)
  <2>1. SUFFICES ASSUME hi < q PROVE FALSE
    OBVIOUS
  <2>2. d * (hi + 1) <= d * q
    BY <1>1, <2>1
  <2> QED
    BY <1>1, <2>2
<1> QED
  BY <1>1, <1>2, <1>3 DEF q

LEMMA PermilleWithin ==
  ASSUME NEW some \in Nat, NEW whole \in Nat, some <= whole
  PROVE  Permille(some, whole) \in 0 .. 1000
<1>1. CASE whole = 0
  BY <1>1 DEF Permille
<1>2. CASE whole # 0
  <2> DEFINE x == 2 * (1000 * some) + whole
             d == 2 * whole
  <2>1. x \in Int /\ d \in Nat \ {0} /\ d * 0 <= x /\ x < d * 1000 + d
    BY <1>2
  <2> HIDE DEF x, d
  <2>2. x \div d \in 0 .. 1000
    BY <2>1, QuotientWithin
  <2> QED
    BY <1>2, <2>2 DEF Permille, Rounded, x, d
<1> QED
  BY <1>1, <1>2

\* The bookings in some statuses, of one query and of two.
LEMMA CountInBoth ==
  ASSUME NEW rows, NEW S, NEW T, S \cap T = {}
  PROVE  Count(In(rows, S \cup T)) = Count(In(rows, S)) + Count(In(rows, T))
<1>1. /\ In(rows, S) \in SUBSET Visits /\ In(rows, T) \in SUBSET Visits
      /\ In(rows, S) \cap In(rows, T) = {} /\ In(rows, S \cup T) = In(rows, S) \cup In(rows, T)
  BY DEF In
<1> QED
  BY <1>1, CountOfBoth

LEMMA CountInTyped ==
  ASSUME NEW rows, NEW S
  PROVE  In(rows, S) \in SUBSET Visits /\ Count(In(rows, S)) \in Nat
<1>1. In(rows, S) \in SUBSET Visits
  BY DEF In
<1> QED
  BY <1>1, CountTyped

LEMMA CountInWithin ==
  ASSUME NEW a, NEW b, NEW S
  PROVE  Count(In(a, S)) <= Count(In(b, S)) + Far(a, b)
<1>1. \A v \in In(a, S) : a.of[v] = b.of[v] => v \in In(b, S)
  BY DEF In
<1> QED
  BY <1>1, CountInTyped, CountWithin

\* The queries of one report are no further apart than what was written since.
LEMMA ReadsNear ==
  ASSUME FiguresTyped, FiguresDrift, NEW q \in report.read, NEW r \in report.read
  PROVE  /\ report.moves \in Nat /\ report.at[q] \in Facts
         /\ Far(report.at[q], report.at[r]) \in Nat /\ Far(report.at[q], report.at[r]) <= report.moves
         /\ Far(report.at[q], facts) \in Nat /\ Far(report.at[q], facts) <= report.moves
         /\ Far(facts, report.at[q]) = Far(report.at[q], facts)
         /\ Far(report.at[r], report.at[q]) = Far(report.at[q], report.at[r])
         /\ report.moves = 0 => report.at[q] = facts
<1>1. report.moves \in Nat /\ report.at[q] \in Facts
  BY FiguresAssumption DEF FiguresTyped, FiguresTypeOK, FiguresAssumption
<1> DEFINE a == report.at[q]
           b == report.at[r]
<1>2. /\ Between(a, b, facts, report.moves) \/ Between(b, a, facts, report.moves)
      /\ report.moves = 0 => a = facts
  BY DEF FiguresDrift, DriftIn
<1>3. /\ Far(a, b) \in Nat /\ Far(b, a) = Far(a, b) /\ Far(a, facts) \in Nat /\ Far(b, facts) \in Nat
      /\ Far(facts, a) = Far(a, facts)
  BY FarTyped
<1>4. Far(a, facts) <= Far(a, b) + Far(b, facts)
  BY FarThrough
<1> HIDE DEF a, b
<1>5. Far(a, b) <= report.moves /\ Far(a, facts) <= report.moves
  BY <1>1, <1>2, <1>3, <1>4 DEF Between
<1> QED
  BY <1>1, <1>2, <1>3, <1>5 DEF a, b

LEMMA ApartWithin ==
  ASSUME NEW m \in Nat, NEW n \in Nat, NEW by \in Nat, m <= n + by, n <= m + by
  PROVE  Apart(m, n) <= by
BY DEF Apart

\* The bookings of each category, or service, or day.
AreaOfVisit == [ v \in Visits |-> AreaOf[TradeOf[v]] ]

LEMMA MasterFits ==
  ASSUME FiguresTyped, FiguresDrift, report.kind = "master", report.read = QueriesOf["master"]
  PROVE  MasterAgrees(MasterStats(report.at), report.moves)
<1> DEFINE at == report.at
           moves == report.moves
           s == MasterStats(at)
           counts == at.counts
           finished == Done(at.completed)
<1>1. {"earned", "daily", "counts", "completed"} = report.read
  BY DEF QueriesOf
<1>2. moves \in Nat
  BY <1>1, ReadsNear
<1>3. Apart(s.pendingCount + s.acceptedCount + s.completedCount + s.cancelledCount,
            Count(Booked(facts))) <= moves
  <2> DEFINE p == Count(In(counts, {"PENDING"}))
             t == Count(In(counts, {"ACCEPTED", "IN_PROGRESS"}))
             d == Count(In(counts, {"COMPLETED"}))
             c == Count(In(counts, CancelledStatuses))
  <2>1. s.pendingCount = p /\ s.acceptedCount = t /\ s.completedCount = d /\ s.cancelledCount = c
    BY DEF MasterStats, Done
  <2>2. Count(Booked(counts)) = p + t + d + c
    <3>1. /\ {"PENDING"} \cap {"ACCEPTED", "IN_PROGRESS"} = {}
          /\ ({"PENDING"} \cup {"ACCEPTED", "IN_PROGRESS"}) \cap {"COMPLETED"} = {}
          /\ (({"PENDING"} \cup {"ACCEPTED", "IN_PROGRESS"}) \cup {"COMPLETED"}) \cap CancelledStatuses = {}
          /\ Machine!Statuses = (({"PENDING"} \cup {"ACCEPTED", "IN_PROGRESS"}) \cup {"COMPLETED"})
                                  \cup CancelledStatuses
      BY DEF CancelledStatuses, CalledOff, Machine!Statuses
    <3>2. Count(In(counts, {"PENDING"} \cup {"ACCEPTED", "IN_PROGRESS"})) = p + t
      BY <3>1, CountInBoth
    <3>3. Count(In(counts, ({"PENDING"} \cup {"ACCEPTED", "IN_PROGRESS"}) \cup {"COMPLETED"})) = p + t + d
      BY <3>1, <3>2, CountInBoth
    <3>4. Count(In(counts, (({"PENDING"} \cup {"ACCEPTED", "IN_PROGRESS"}) \cup {"COMPLETED"})
                             \cup CancelledStatuses)) = p + t + d + c
      BY <3>1, <3>3, CountInBoth
    <3> QED
      BY <3>1, <3>4 DEF Booked
  <2>3. /\ Count(Booked(counts)) <= Count(Booked(facts)) + moves
        /\ Count(Booked(facts)) <= Count(Booked(counts)) + moves
        /\ Count(Booked(counts)) \in Nat /\ Count(Booked(facts)) \in Nat
    <3>1. /\ Far(counts, facts) \in Nat /\ Far(counts, facts) <= moves
          /\ Far(facts, counts) = Far(counts, facts)
      BY <1>1, ReadsNear
    <3>2. /\ Count(Booked(counts)) <= Count(Booked(facts)) + Far(counts, facts)
          /\ Count(Booked(facts)) <= Count(Booked(counts)) + Far(facts, counts)
      BY CountInWithin DEF Booked
    <3>3. Count(Booked(counts)) \in Nat /\ Count(Booked(facts)) \in Nat
      BY CountInTyped DEF Booked
    <3> HIDE DEF counts, moves
    <3> QED
      BY <1>2, <3>1, <3>2, <3>3
  <2> HIDE DEF s, p, t, d, c, counts, moves
  <2> QED
    BY <1>2, <2>1, <2>2, <2>3, ApartWithin
<1>4. Apart(s.completedCount, Total("completedCount", s.earningsByCategory)) <= moves
  <2>1. finished \in SUBSET Visits
    BY CountInTyped DEF Done
  <2>2. Total("completedCount", s.earningsByCategory) = Count(finished)
    <3>1. Tallies(s.earningsByCategory, "completedCount", finished, finished, AreaOfVisit)
      BY <2>1 DEF MasterStats, Tallies, AreaOfVisit
    <3> HIDE DEF s, finished
    <3> QED
      BY <2>1, <3>1, TotalOfTallies
  <2>3. s.completedCount = Count(Done(counts))
    BY DEF MasterStats
  <2>4. /\ Count(Done(counts)) <= Count(finished) + moves
        /\ Count(finished) <= Count(Done(counts)) + moves
        /\ Count(Done(counts)) \in Nat /\ Count(finished) \in Nat
    <3>1. /\ Far(counts, at.completed) \in Nat /\ Far(counts, at.completed) <= moves
          /\ Far(at.completed, counts) = Far(counts, at.completed)
      BY <1>1, ReadsNear
    <3>2. /\ Count(Done(counts)) <= Count(finished) + Far(counts, at.completed)
          /\ Count(finished) <= Count(Done(counts)) + Far(at.completed, counts)
      BY CountInWithin DEF Done
    <3>3. Count(Done(counts)) \in Nat /\ Count(finished) \in Nat
      BY CountInTyped DEF Done
    <3> HIDE DEF counts, moves, finished
    <3> QED
      BY <1>2, <3>1, <3>2, <3>3
  <2> HIDE DEF s, counts, moves, finished
  <2> QED
    BY <1>2, <2>2, <2>3, <2>4, ApartWithin
<1>5. s.completionRate \in 0 .. 1000
  <2> DEFINE done == Count(Done(counts))
             both == done + Count(In(counts, CancelledStatuses))
  <2>1. s.completionRate = Permille(done, both)
    BY DEF MasterStats
  <2>2. Count(Done(counts)) \in Nat /\ Count(In(counts, CancelledStatuses)) \in Nat
    BY CountInTyped DEF Done
  <2>3. done \in Nat /\ both \in Nat /\ done <= both
    BY <2>2
  <2> HIDE DEF s, done, both, counts
  <2>4. Permille(done, both) \in 0 .. 1000
    <3>1. \A some, whole \in Nat : some <= whole => Permille(some, whole) \in 0 .. 1000
      BY PermilleWithin
    <3> QED
      BY <2>3, <3>1
  <2> QED
    BY <2>1, <2>4
<1>6. s.repeatClientRate \in 0 .. 1000
  <2> DEFINE clients == { ClientOf[v] : v \in finished }
             repeated == { c \in clients : Count({ v \in finished : ClientOf[v] = c }) > 1 }
  <2>1. s.repeatClientRate = Permille(Count(repeated), Count(clients))
    BY DEF MasterStats
  <2>2. finished \in SUBSET Visits
    BY CountInTyped DEF Done
  <2>3. IsFiniteSet(clients)
    BY <2>2, CountTyped, HeadingsOf
  <2>4. repeated \in SUBSET clients
    OBVIOUS
  <2> HIDE DEF clients, repeated
  <2>5. Count(repeated) \in Nat /\ Count(clients) \in Nat /\ Count(repeated) <= Count(clients)
    BY <2>3, <2>4, FS_Subset, FS_CardinalityType DEF Count
  <2> HIDE DEF s
  <2>6. Permille(Count(repeated), Count(clients)) \in 0 .. 1000
    BY <2>5, PermilleWithin
  <2> QED
    BY <2>1, <2>6
<1>7. ASSUME moves = 0
      PROVE  /\ s.totalEarnings = Total("total", s.earningsByCategory)
             /\ Plain(s.dailyEarnings) <= s.totalEarnings
  <2>1. at.earned = facts /\ at.daily = facts /\ at.completed = facts
    BY <1>1, <1>7, ReadsNear
  <2> DEFINE days == [ d \in 1 .. WindowDays |-> Worth({ v \in Done(facts) : facts.of[v].day = d }) ]
  <2>2. s.totalEarnings = Worth(Done(facts)) /\ s.dailyEarnings = days
    BY <2>1 DEF MasterStats
  <2>3. finished = Done(facts) /\ finished \in SUBSET Visits
    BY <2>1, CountInTyped DEF Done
  <2>4. Total("total", s.earningsByCategory) = Worth(finished)
    <3>1. Values(s.earningsByCategory, "total", finished, finished, AreaOfVisit)
      BY <2>3 DEF MasterStats, Values, AreaOfVisit
    <3> HIDE DEF s, finished
    <3> QED
      BY <2>3, <3>1, TotalOfValues
  <2>5. Plain(days) <= Worth(Done(facts))
    <3> DEFINE h == [ v \in Visits |-> facts.of[v].day ]
               K == 1 .. WindowDays
    <3>1. Done(facts) \in SUBSET Visits
      BY CountInTyped DEF Done
    <3>2. ValuedBy(days, Done(facts), h, K)
      <4>1. \A k : { v \in Done(facts) : facts.of[v].day = k } = { v \in Done(facts) : h[v] = k }
        BY <3>1
      <4> QED
        BY <4>1 DEF ValuedBy
    <3>3. IsFiniteSet(K)
      BY FiguresAssumption, FS_Interval DEF FiguresAssumption
    <3>4. DOMAIN days = K
      OBVIOUS
    <3> HIDE DEF days, h, K
    <3>5. Sum(days, K) = Worth(Headed(Done(facts), h, K))
      BY <3>1, <3>2, <3>3, WorthByHeading
    <3>6. Worth(Headed(Done(facts), h, K)) <= Worth(Done(facts))
      BY <3>1, WorthOfPart DEF Headed
    <3> QED
      BY <3>4, <3>5, <3>6 DEF Plain
  <2> HIDE DEF s, days, finished
  <2> QED
    BY <2>2, <2>3, <2>4, <2>5
<1> HIDE DEF s
<1> QED
  BY <1>3, <1>4, <1>5, <1>6, <1>7 DEF MasterAgrees, s

LEMMA DashboardFits ==
  ASSUME FiguresTyped, FiguresDrift, report.kind = "dashboard", report.read = QueriesOf["dashboard"]
  PROVE  DashboardAgrees(Dashboard(report.at), report.moves)
<1> DEFINE at == report.at
           moves == report.moves
           d == Dashboard(at)
           rows == at.statuses
           n(S) == Count(In(rows, S))
<1>1. {"statuses", "accepted", "total", "volume", "categories", "reasons"} = report.read
  BY DEF QueriesOf
<1>2. moves \in Nat
  BY <1>1, ReadsNear
<1>3. /\ d.pending = n({"PENDING"}) /\ d.accepted = n({"ACCEPTED"}) /\ d.inProgress = n({"IN_PROGRESS"})
      /\ d.completed = n({"COMPLETED"}) /\ d.cancelled = n(CalledOff) /\ d.expired = n({"EXPIRED"})
  BY DEF Dashboard
<1>4. /\ n({"PENDING"}) \in Nat /\ n({"ACCEPTED"}) \in Nat /\ n({"IN_PROGRESS"}) \in Nat
      /\ n({"COMPLETED"}) \in Nat /\ n(CalledOff) \in Nat /\ n({"EXPIRED"}) \in Nat
  BY CountInTyped
<1>5. n(Taken) = n({"ACCEPTED"}) + n({"IN_PROGRESS"}) + n({"COMPLETED"})
  <2>1. /\ {"ACCEPTED"} \cap {"IN_PROGRESS"} = {} /\ ({"ACCEPTED"} \cup {"IN_PROGRESS"}) \cap {"COMPLETED"} = {}
        /\ Taken = ({"ACCEPTED"} \cup {"IN_PROGRESS"}) \cup {"COMPLETED"}
    BY DEF Taken
  <2> HIDE DEF rows
  <2>2. n({"ACCEPTED"} \cup {"IN_PROGRESS"}) = n({"ACCEPTED"}) + n({"IN_PROGRESS"})
    BY <2>1, CountInBoth
  <2> QED
    BY <2>1, <2>2, CountInBoth
<1>6. Apart(d.pending + d.accepted + d.inProgress + d.completed + d.cancelled + d.expired, d.total) <= moves
  <2>1. Count(Booked(rows)) = n({"PENDING"}) + n(Taken) + n(CalledOff) + n({"EXPIRED"})
    <3>1. /\ {"PENDING"} \cap Taken = {} /\ ({"PENDING"} \cup Taken) \cap CalledOff = {}
          /\ (({"PENDING"} \cup Taken) \cup CalledOff) \cap {"EXPIRED"} = {}
          /\ Machine!Statuses = (({"PENDING"} \cup Taken) \cup CalledOff) \cup {"EXPIRED"}
      BY DEF Taken, CalledOff, Machine!Statuses
    <3> HIDE DEF rows
    <3>2. n({"PENDING"} \cup Taken) = n({"PENDING"}) + n(Taken)
      BY <3>1, CountInBoth
    <3>3. n(({"PENDING"} \cup Taken) \cup CalledOff) = n({"PENDING"}) + n(Taken) + n(CalledOff)
      BY <3>1, <3>2, CountInBoth
    <3>4. n((({"PENDING"} \cup Taken) \cup CalledOff) \cup {"EXPIRED"})
            = n({"PENDING"}) + n(Taken) + n(CalledOff) + n({"EXPIRED"})
      BY <3>1, <3>3, CountInBoth
    <3> QED
      BY <3>1, <3>4 DEF Booked
  <2>2. d.total = Count(Booked(at.total))
    BY DEF Dashboard
  <2>3. /\ Count(Booked(rows)) <= Count(Booked(at.total)) + moves
        /\ Count(Booked(at.total)) <= Count(Booked(rows)) + moves
        /\ Count(Booked(rows)) \in Nat /\ Count(Booked(at.total)) \in Nat
    <3>1. /\ Far(rows, at.total) \in Nat /\ Far(rows, at.total) <= moves
          /\ Far(at.total, rows) = Far(rows, at.total)
      BY <1>1, ReadsNear
    <3>2. /\ Count(Booked(rows)) <= Count(Booked(at.total)) + Far(rows, at.total)
          /\ Count(Booked(at.total)) <= Count(Booked(rows)) + Far(at.total, rows)
          /\ Count(Booked(rows)) \in Nat /\ Count(Booked(at.total)) \in Nat
      BY CountInWithin, CountInTyped DEF Booked
    <3> HIDE DEF rows, moves, at
    <3> QED
      BY <1>2, <3>1, <3>2
  <2> DEFINE sum == d.pending + d.accepted + d.inProgress + d.completed + d.cancelled + d.expired
  <2>4. sum = Count(Booked(rows))
    <3> HIDE DEF d, n, rows
    <3> QED
      BY <1>3, <1>4, <1>5, <2>1
  <2> HIDE DEF sum, d, rows, moves, at
  <2>5. Apart(Count(Booked(rows)), Count(Booked(at.total))) <= moves
    BY <1>2, <2>3, ApartWithin
  <2>6. Apart(sum, d.total) <= moves
    BY <2>2, <2>4, <2>5
  <2> QED
    BY <2>6 DEF sum
<1>7. Apart(d.cancellationReasons, d.cancelled) <= moves
  <2>1. d.cancellationReasons = Count(In(at.reasons, CalledOff))
    BY DEF Dashboard
  <2>2. /\ Far(rows, at.reasons) \in Nat /\ Far(rows, at.reasons) <= moves
        /\ Far(at.reasons, rows) = Far(rows, at.reasons)
    BY <1>1, ReadsNear
  <2>3. /\ n(CalledOff) <= Count(In(at.reasons, CalledOff)) + Far(rows, at.reasons)
        /\ Count(In(at.reasons, CalledOff)) <= n(CalledOff) + Far(at.reasons, rows)
        /\ Count(In(at.reasons, CalledOff)) \in Nat
    BY CountInWithin, CountInTyped
  <2> DEFINE reasons == Count(In(at.reasons, CalledOff))
             off == n(CalledOff)
  <2>4. reasons \in Nat /\ off \in Nat /\ reasons <= off + moves /\ off <= reasons + moves
    <3> HIDE DEF rows, moves, at
    <3> QED
      BY <1>2, <1>4, <2>2, <2>3
  <2> HIDE DEF reasons, off, moves
  <2>5. Apart(reasons, off) <= moves
    BY <1>2, <2>4, ApartWithin
  <2> HIDE DEF d
  <2> QED
    BY <1>3, <2>1, <2>5 DEF reasons, off
<1>8. d.accepted + d.inProgress + d.completed <= d.everAccepted + moves
  <2> DEFINE ever == { v \in Booked(at.accepted) : at.accepted.of[v].accepted }
  <2>1. d.everAccepted = Count(ever)
    BY DEF Dashboard
  <2>2. TakenAccepted(at.accepted)
    BY <1>1 DEF FiguresDrift, DriftIn
  <2>3. ever \in SUBSET Visits
    BY CountInTyped DEF Booked
  <2>4. In(rows, Taken) \in SUBSET Visits
    BY CountInTyped
  <2>5. \A v \in In(rows, Taken) : rows.of[v] = at.accepted.of[v] => v \in ever
    <3>1. Taken \subseteq Machine!Statuses
      BY DEF Taken, Machine!Statuses
    <3> QED
      BY <2>2, <3>1 DEF In, Booked, TakenAccepted
  <2>6. Far(rows, at.accepted) \in Nat /\ Far(rows, at.accepted) <= moves
    BY <1>1, ReadsNear
  <2>7. Count(ever) \in Nat
    BY <2>3, CountTyped
  <2> HIDE DEF ever
  <2>8. n(Taken) <= Count(ever) + Far(rows, at.accepted)
    BY <2>3, <2>4, <2>5, CountWithin
  <2> HIDE DEF d, rows, moves, at
  <2> QED
    BY <1>2, <1>3, <1>4, <1>5, <2>1, <2>6, <2>7, <2>8
<1>9. ASSUME moves = 0
      PROVE  /\ Plain(d.topCategories) <= d.total
             /\ facts.withdrawn = {} => Plain(d.topCategories) = d.total
  <2>1. at.volume = facts /\ at.categories = facts /\ at.total = facts
    BY <1>1, <1>9, ReadsNear
  <2> DEFINE known == { t \in Trades : t \notin facts.withdrawn }
             K == { AreaOf[t] : t \in known }
             A == { v \in Booked(facts) : TradeOf[v] \in known }
             g == [ a \in K |-> Count({ v \in Booked(facts) : TradeOf[v] \in known /\ AreaOf[TradeOf[v]] = a }) ]
  <2>2. d.topCategories = g /\ d.total = Count(Booked(facts))
    BY <2>1 DEF Dashboard
  <2>3. Booked(facts) \in SUBSET Visits /\ A \in SUBSET Booked(facts)
    BY CountInTyped DEF Booked
  <2>4. IsFiniteSet(K)
    <3>1. IsFiniteSet(known)
      BY FiguresAssumption, FS_Subset DEF FiguresAssumption
    <3> HIDE DEF known
    <3> QED
      BY <3>1, HeadingsOf
  <2>5. CountedBy(g, A, AreaOfVisit, K)
    <3>1. \A k : { v \in Booked(facts) : TradeOf[v] \in known /\ AreaOf[TradeOf[v]] = k }
                   = { v \in A : AreaOfVisit[v] = k }
      BY <2>3 DEF AreaOfVisit
    <3> QED
      BY <3>1 DEF CountedBy
  <2>6. Headed(A, AreaOfVisit, K) = A
    BY <2>3 DEF Headed, AreaOfVisit
  <2>7. facts.withdrawn = {} => A = Booked(facts)
    BY <2>3, FiguresAssumption DEF FiguresAssumption
  <2>8. DOMAIN g = K
    OBVIOUS
  <2> HIDE DEF g, K, A, d, known
  <2>9. Plain(g) = Count(A)
    <3>1. Sum(g, K) = Count(Headed(A, AreaOfVisit, K))
      BY <2>3, <2>4, <2>5, CountByHeading
    <3> QED
      BY <2>6, <2>8, <3>1 DEF Plain
  <2>10. Count(A) <= Count(Booked(facts))
    BY <2>3, CountOfPart
  <2> QED
    BY <2>2, <2>7, <2>9, <2>10
<1> HIDE DEF d
<1> QED
  BY <1>6, <1>7, <1>8, <1>9 DEF DashboardAgrees, d

LEMMA AdminFits ==
  ASSUME FiguresTyped, FiguresDrift, report.kind = "admin", report.read = QueriesOf["admin"]
  PROVE  AdminAgrees(AdminStats(report.at), report.moves)
<1> DEFINE at == report.at
           moves == report.moves
           s == AdminStats(at)
           Other == Machine!Statuses \ {"COMPLETED"}
           recent == { v \in Done(at.monthly) : at.monthly.of[v].day > 0 }
           best == Done(at.top)
<1>1. {"clients", "done", "unfinished", "monthly", "top"} = report.read
  BY DEF QueriesOf
<1>2. moves \in Nat
  BY <1>1, ReadsNear
<1>3. /\ s.completedJobs = Count(Done(at.done)) /\ s.unfinishedJobs = Count(In(at.unfinished, Other))
      /\ s.monthly.bookings = Count(Booked(at.monthly)) /\ s.monthly.completed = Count(recent)
      /\ s.monthly.revenue = Worth(recent)
  BY DEF AdminStats
<1>4. \A rows : /\ Count(Done(rows)) \in Nat /\ Count(In(rows, Other)) \in Nat
                /\ Count(Booked(rows)) = Count(Done(rows)) + Count(In(rows, Other))
  <2>1. {"COMPLETED"} \cap Other = {} /\ Machine!Statuses = {"COMPLETED"} \cup Other
    BY DEF Machine!Statuses
  <2> HIDE DEF Other
  <2> QED
    BY <2>1, CountInBoth, CountInTyped DEF Done, Booked
<1>5. \A q, r \in report.read : Far(at[q], at[r]) \in Nat /\ Far(at[q], at[r]) <= moves
  BY ReadsNear
<1>6. \A a, b : /\ Count(Done(a)) <= Count(Done(b)) + Far(a, b)
                /\ Count(In(a, Other)) <= Count(In(b, Other)) + Far(a, b)
                /\ Far(a, b) \in Nat /\ Far(a, b) = Far(b, a)
  BY CountInWithin, FarTyped DEF Done
<1>7. Apart(s.completedJobs + s.unfinishedJobs, s.monthly.bookings) <= moves
  <2> DEFINE a == at.done
             b == at.unfinished
             c == at.monthly
             jobs == Count(Done(a)) + Count(In(b, Other))
             all == Count(Booked(c))
  <2>1. InARow(a, b, c, moves)
    BY <1>1 DEF FiguresDrift, DriftIn
  <2>2. jobs \in Nat /\ all \in Nat
    BY <1>4
  <2> HIDE DEF a, b, c, moves, Other
  <2> DEFINE dA == Count(Done(a))  dB == Count(Done(b))  dC == Count(Done(c))
             oA == Count(In(a, Other))  oB == Count(In(b, Other))  oC == Count(In(c, Other))
  <2>3. /\ dA \in Nat /\ dB \in Nat /\ dC \in Nat /\ oA \in Nat /\ oB \in Nat /\ oC \in Nat
        /\ jobs = dA + oB /\ all = dC + oC
        /\ Count(Booked(a)) = dA + oA /\ Count(Booked(b)) = dB + oB
    BY <1>4
  <2>4. /\ Far(a, b) \in Nat /\ Far(b, c) \in Nat /\ Far(a, c) \in Nat
        /\ Far(b, a) = Far(a, b) /\ Far(c, b) = Far(b, c) /\ Far(c, a) = Far(a, c)
    BY FarTyped
  <2>5. /\ dA <= dC + Far(a, c) /\ dC <= dA + Far(c, a) /\ oB <= oC + Far(b, c) /\ oC <= oB + Far(c, b)
        /\ dA <= dB + Far(a, b) /\ dB <= dA + Far(b, a) /\ oA <= oB + Far(a, b) /\ oB <= oA + Far(b, a)
    BY <1>6
  <2>6. \A x, y : Count(Booked(x)) <= Count(Booked(y)) + Far(x, y)
    BY CountInWithin DEF Booked
  <2>7. /\ dA + oA <= all + Far(a, c) /\ all <= dA + oA + Far(c, a)
        /\ dB + oB <= all + Far(b, c) /\ all <= dB + oB + Far(c, b)
    <3> HIDE DEF dA, dB, dC, oA, oB, oC, jobs, all
    <3>1. /\ Count(Booked(a)) <= Count(Booked(c)) + Far(a, c) /\ Count(Booked(c)) <= Count(Booked(a)) + Far(c, a)
          /\ Count(Booked(b)) <= Count(Booked(c)) + Far(b, c) /\ Count(Booked(c)) <= Count(Booked(b)) + Far(c, b)
      BY <2>6
    <3> QED
      BY <2>3, <3>1 DEF all
  <2>8. jobs <= all + moves /\ all <= jobs + moves
    <3> HIDE DEF dA, dB, dC, oA, oB, oC, jobs, all
    <3>1. CASE Between(a, b, c, moves)         \* Done(a) is near Done(b)
      BY <1>2, <2>2, <2>3, <2>4, <2>5, <2>7, <3>1 DEF Between
    <3>2. CASE Between(b, a, c, moves)         \* In(b) is near In(a)
      BY <1>2, <2>2, <2>3, <2>4, <2>5, <2>7, <3>2 DEF Between
    <3>3. CASE Between(a, c, b, moves)         \* each is near to what it is of c
      BY <1>2, <2>2, <2>3, <2>4, <2>5, <2>7, <3>3 DEF Between
    <3> QED
      BY <2>1, <3>1, <3>2, <3>3 DEF InARow
  <2>9. Apart(jobs, all) <= moves
    <3> HIDE DEF jobs, all
    <3> QED
      BY <1>2, <2>2, <2>8, ApartWithin
  <2> HIDE DEF s
  <2> QED
    BY <1>3, <2>9 DEF a, b, c
<1>8. best \in SUBSET Visits /\ recent \in SUBSET Done(at.monthly) /\ Done(at.monthly) \in SUBSET Visits
  BY CountInTyped DEF Done
<1>9. Apart(s.completedJobs, Total("completedCount", s.topServices)) <= moves
  <2>1. Total("completedCount", s.topServices) = Count(best)
    <3>1. Tallies(s.topServices, "completedCount", best, best, TradeOf)
      BY DEF AdminStats, Tallies
    <3> HIDE DEF s, best
    <3> QED
      BY <1>8, <3>1, TotalOfTallies
  <2> DEFINE m == Count(Done(at.done))
             n == Count(best)
  <2>2. m \in Nat /\ n \in Nat /\ m <= n + moves /\ n <= m + moves
    <3>1. Far(at.done, at.top) <= moves
      BY <1>1, <1>5
    <3> HIDE DEF at, moves
    <3> QED
      BY <1>2, <1>4, <1>6, <3>1
  <2> HIDE DEF m, n, moves
  <2>3. Apart(m, n) <= moves
    BY <1>2, <2>2, ApartWithin
  <2> HIDE DEF s, best
  <2> QED
    BY <1>3, <2>1, <2>3 DEF m, n
<1>10. s.totalClientsServed <= s.completedJobs + moves
  <2>1. s.totalClientsServed = Count({ ClientOf[v] : v \in Done(at.clients) })
    BY DEF AdminStats
  <2>2. IsFiniteSet(Done(at.clients))
    BY CountInTyped, CountTyped DEF Done
  <2>3. /\ IsFiniteSet({ ClientOf[v] : v \in Done(at.clients) })
        /\ Count({ ClientOf[v] : v \in Done(at.clients) }) <= Count(Done(at.clients))
    BY <2>2, HeadingsOf
  <2>4. Count({ ClientOf[v] : v \in Done(at.clients) }) \in Nat
    BY <2>3, FS_CardinalityType DEF Count
  <2>5. Far(at.clients, at.done) <= moves
    BY <1>1, <1>5
  <2> HIDE DEF s, at, moves
  <2> QED
    BY <1>2, <1>3, <1>4, <1>6, <2>1, <2>3, <2>4, <2>5
<1>11. s.monthly.completed <= s.completedJobs + moves
  <2>1. Count(recent) <= Count(Done(at.monthly)) /\ Count(recent) \in Nat
    BY <1>8, CountOfPart
  <2>2. Far(at.monthly, at.done) <= moves
    BY <1>1, <1>5
  <2> HIDE DEF s, at, moves, recent
  <2> QED
    BY <1>2, <1>3, <1>4, <1>6, <2>1, <2>2
<1>12. ASSUME moves = 0 PROVE s.monthly.revenue <= Total("revenue", s.topServices)
  <2>1. at.monthly = facts /\ at.top = facts
    BY <1>1, <1>12, ReadsNear
  <2>2. Total("revenue", s.topServices) = Worth(best)
    <3>1. Values(s.topServices, "revenue", best, best, TradeOf)
      BY DEF AdminStats, Values
    <3> HIDE DEF s, best
    <3> QED
      BY <1>8, <3>1, TotalOfValues
  <2>3. Worth(recent) <= Worth(best)
    <3>1. recent \in SUBSET best
      BY <2>1
    <3> HIDE DEF recent, best
    <3> QED
      BY <1>8, <3>1, WorthOfPart
  <2> HIDE DEF s, recent, best
  <2> QED
    BY <1>3, <2>2, <2>3
<1> HIDE DEF s
<1> QED
  BY <1>7, <1>9, <1>10, <1>11, <1>12 DEF AdminAgrees, s

LEMMA NpsWithin ==
  ASSUME NEW rows, NEW visits \in SUBSET Visits
  PROVE  Nps(rows, visits).nps \in -100 .. 100
<1> DEFINE p == Count({ v \in visits : rows.of[v].nps >= 9 })
           q == Count({ v \in visits : rows.of[v].nps < 7 })
           n == Count(visits)
           x == 2 * (100 * (p - q)) + n
           d == 2 * n
<1>1. Nps(rows, visits).nps = IF visits = {} THEN 0 ELSE x \div d
  BY DEF Nps, Rounded
<1>2. p \in Nat /\ q \in Nat /\ n \in Nat /\ p <= n /\ q <= n
  BY CountOfPart
<1>3. visits # {} => n # 0
  BY CountTyped, FS_EmptySet DEF Count
<1>4. ASSUME visits # {} PROVE x \div d \in -100 .. 100
  <2> HIDE DEF p, q, n
  <2>1. x \in Int /\ d \in Nat \ {0} /\ d * (-100) <= x /\ x < d * 100 + d
    BY <1>2, <1>3, <1>4
  <2> HIDE DEF x, d
  <2> QED
    BY <2>1, QuotientWithin
<1> HIDE DEF x, d
<1> QED
  BY <1>1, <1>4

LEMMA ReviewsFit ==
  ASSUME FiguresTyped, FiguresDrift, report.kind = "reviews", report.read = QueriesOf["reviews"]
  PROVE  ReviewsAgree(ReviewFigures(report.at), report.moves)
<1> DEFINE at == report.at
           moves == report.moves
           r == ReviewFigures(at)
           scored == { v \in VisibleOnes(at.scores) : at.scores.of[v].nps >= 0 }
           known == { v \in scored : TradeOf[v] \notin at.areas.withdrawn }
           in(a) == { v \in known : AreaOf[TradeOf[v]] = a }
<1>1. {"items", "count", "distribution", "scores", "areas"} = report.read
  BY DEF QueriesOf
<1>2. moves \in Nat
  BY <1>1, ReadsNear
<1>3. \A rows : VisibleOnes(rows) \in SUBSET Visits /\ Count(VisibleOnes(rows)) \in Nat
  <2>1. \A rows : VisibleOnes(rows) \in SUBSET Visits
    BY DEF VisibleOnes
  <2> QED
    BY <2>1, CountTyped
<1>4. ASSUME NEW q \in report.read
      PROVE  Count(VisibleOnes(at.count)) <= Count(VisibleOnes(at[q])) + moves
             /\ Count(VisibleOnes(at[q])) <= Count(VisibleOnes(at.count)) + moves
  <2> DEFINE a == at.count
             b == at[q]
  <2>1. Far(a, b) \in Nat /\ Far(b, a) = Far(a, b) /\ Far(a, b) <= moves
    BY <1>1, ReadsNear
  <2>2. \A v \in VisibleOnes(a) : a.of[v] = b.of[v] => v \in VisibleOnes(b)
    BY DEF VisibleOnes
  <2>3. \A v \in VisibleOnes(b) : b.of[v] = a.of[v] => v \in VisibleOnes(a)
    BY DEF VisibleOnes
  <2> HIDE DEF a, b, moves
  <2>4. /\ Count(VisibleOnes(a)) <= Count(VisibleOnes(b)) + Far(a, b)
        /\ Count(VisibleOnes(b)) <= Count(VisibleOnes(a)) + Far(b, a)
    BY <1>3, <2>2, <2>3, CountWithin
  <2>5. /\ Count(VisibleOnes(a)) <= Count(VisibleOnes(b)) + moves
        /\ Count(VisibleOnes(b)) <= Count(VisibleOnes(a)) + moves
    BY <1>2, <1>3, <2>1, <2>4
  <2> QED
    BY <2>5 DEF a, b
<1>5. r.items = VisibleOnes(at.items) /\ r.total = Count(VisibleOnes(at.count))
  BY DEF ReviewFigures
<1>6. Apart(r.total, Plain(r.distribution)) <= moves
  <2> DEFINE seen == VisibleOnes(at.distribution)
             h == [ v \in Visits |-> at.distribution.of[v].rating ]
             K == 1 .. 5
             g == [ k \in 1 .. 5 |-> Count({ v \in seen : at.distribution.of[v].rating = k }) ]
  <2>1. r.distribution = g /\ DOMAIN g = K
    BY DEF ReviewFigures
  <2>2. CountedBy(g, seen, h, K)
    <3>1. \A k : { v \in seen : at.distribution.of[v].rating = k } = { v \in seen : h[v] = k }
      BY <1>3
    <3> QED
      BY <3>1 DEF CountedBy
  <2>3. Headed(seen, h, K) = seen
    <3>1. at.distribution \in Facts
      BY <1>1, ReadsNear
    <3>2. \A v \in seen : at.distribution.of[v].rating \in 1 .. 5
      BY <3>1 DEF VisibleOnes, Facts, Fact
    <3> QED
      BY <1>3, <3>2 DEF Headed
  <2>4. IsFiniteSet(K) /\ seen \in SUBSET Visits
    <3>1. IsFiniteSet(1 .. 5)
      <4> DEFINE least == 1
                 most == 5
      <4>1. least \in Int /\ most \in Int
        OBVIOUS
      <4> HIDE DEF least, most
      <4>2. IsFiniteSet(least .. most)
        BY <4>1, FS_Interval
      <4> QED
        BY <4>2 DEF least, most
    <3> QED
      BY <1>3, <3>1
  <2> HIDE DEF g, h, K, seen
  <2>5. Sum(g, K) = Count(Headed(seen, h, K))
    BY <2>2, <2>4, CountByHeading
  <2>6. Plain(r.distribution) = Count(seen)
    BY <2>1, <2>3, <2>5 DEF Plain
  <2> DEFINE m == Count(VisibleOnes(at.count))
             n == Count(VisibleOnes(at.distribution))
  <2>7. m \in Nat /\ n \in Nat /\ m <= n + moves /\ n <= m + moves
    BY <1>1, <1>3, <1>4
  <2> HIDE DEF m, n, moves
  <2>8. Apart(m, n) <= moves
    BY <1>2, <2>7, ApartWithin
  <2> HIDE DEF r
  <2> QED
    BY <1>5, <2>6, <2>8 DEF m, n, seen
<1>7. Apart(r.total, Count(r.items)) <= moves
  <2> DEFINE m == Count(VisibleOnes(at.count))
             n == Count(VisibleOnes(at.items))
  <2>1. m \in Nat /\ n \in Nat /\ m <= n + moves /\ n <= m + moves
    BY <1>1, <1>3, <1>4
  <2> HIDE DEF m, n, moves
  <2>2. Apart(m, n) <= moves
    BY <1>2, <2>1, ApartWithin
  <2> HIDE DEF r
  <2> QED
    BY <1>5, <2>2 DEF m, n
<1>8. scored \in SUBSET VisibleOnes(at.scores) /\ scored \in SUBSET Visits /\ known \in SUBSET scored
  BY <1>3
<1>9. r.overall = Nps(at.scores, scored) /\ r.overall.responseCount = Count(scored)
  BY DEF ReviewFigures, Nps
<1>10. r.overall.responseCount <= r.total + moves
  <2>1. Count(scored) <= Count(VisibleOnes(at.scores)) /\ Count(scored) \in Nat
    BY <1>3, <1>8, CountOfPart
  <2>2. Count(VisibleOnes(at.scores)) <= Count(VisibleOnes(at.count)) + moves
    BY <1>1, <1>4
  <2>3. Count(VisibleOnes(at.scores)) \in Nat /\ Count(VisibleOnes(at.count)) \in Nat
    BY <1>3
  <2> HIDE DEF r, scored, at, moves
  <2> QED
    BY <1>2, <1>5, <1>9, <2>1, <2>2, <2>3
<1>11. r.overall.nps \in -100 .. 100
  <2> HIDE DEF r, scored
  <2> QED
    BY <1>8, <1>9, NpsWithin
<1> DEFINE fans == { v \in known : at.scores.of[v].nps >= 9 }
           foes == { v \in known : at.scores.of[v].nps < 7 }
<1>12. /\ Total("responseCount", r.byCategory) = Count(known)
       /\ Total("promoters", r.byCategory) = Count(fans)
       /\ Total("detractors", r.byCategory) = Count(foes)
  <2>1. r.byCategory = [ a \in { AreaOf[TradeOf[v]] : v \in known } |-> Nps(at.scores, in(a)) ]
    BY DEF ReviewFigures
  <2>2. \A a : /\ Nps(at.scores, in(a)).responseCount = Count(in(a))
               /\ Nps(at.scores, in(a)).promoters = Count({ v \in in(a) : at.scores.of[v].nps >= 9 })
               /\ Nps(at.scores, in(a)).detractors = Count({ v \in in(a) : at.scores.of[v].nps < 7 })
    BY DEF Nps
  <2>3. known \in SUBSET Visits /\ { AreaOf[TradeOf[v]] : v \in known } = { AreaOfVisit[v] : v \in known }
    BY <1>8 DEF AreaOfVisit
  <2>4. \A a : /\ in(a) = { v \in known : AreaOfVisit[v] = a }
               /\ { v \in in(a) : at.scores.of[v].nps >= 9 } = { v \in fans : AreaOfVisit[v] = a }
               /\ { v \in in(a) : at.scores.of[v].nps < 7 } = { v \in foes : AreaOfVisit[v] = a }
    BY <2>3 DEF AreaOfVisit
  <2>5. fans \in SUBSET known /\ foes \in SUBSET known /\ known \in SUBSET known
    OBVIOUS
  <2> DEFINE f == r.byCategory
  <2>6. ASSUME NEW a \in DOMAIN f
        PROVE  /\ f[a]["responseCount"] = Count(in(a))
               /\ f[a]["promoters"] = Count({ v \in in(a) : at.scores.of[v].nps >= 9 })
               /\ f[a]["detractors"] = Count({ v \in in(a) : at.scores.of[v].nps < 7 })
    <3>1. f[a] = Nps(at.scores, in(a))
      <4> HIDE DEF f, in
      <4> QED
        BY <2>1 DEF f
    <3>2. /\ Nps(at.scores, in(a))["responseCount"] = Count(in(a))
          /\ Nps(at.scores, in(a))["promoters"] = Count({ v \in in(a) : at.scores.of[v].nps >= 9 })
          /\ Nps(at.scores, in(a))["detractors"] = Count({ v \in in(a) : at.scores.of[v].nps < 7 })
      BY DEF Nps
    <3> HIDE DEF f, in
    <3> QED
      BY <3>1, <3>2
  <2>7. DOMAIN f = { AreaOfVisit[v] : v \in known }
    BY <2>1, <2>3
  <2>8. ASSUME NEW a \in DOMAIN f
        PROVE  /\ f[a]["responseCount"] = Count({ v \in known : AreaOfVisit[v] = a })
               /\ f[a]["promoters"] = Count({ v \in fans : AreaOfVisit[v] = a })
               /\ f[a]["detractors"] = Count({ v \in foes : AreaOfVisit[v] = a })
    <3>1. /\ in(a) = { v \in known : AreaOfVisit[v] = a }
          /\ { v \in in(a) : at.scores.of[v].nps >= 9 } = { v \in fans : AreaOfVisit[v] = a }
          /\ { v \in in(a) : at.scores.of[v].nps < 7 } = { v \in foes : AreaOfVisit[v] = a }
      BY <2>4, Zenon
    <3> HIDE DEF f, in, fans, foes, known
    <3> QED
      BY <2>6, <3>1
  <2> HIDE DEF f, fans, foes, known
  <2>9. /\ Tallies(f, "responseCount", known, known, AreaOfVisit)
        /\ Tallies(f, "promoters", fans, known, AreaOfVisit)
        /\ Tallies(f, "detractors", foes, known, AreaOfVisit)
    BY <2>7, <2>8 DEF Tallies
  <2>10. Total("responseCount", f) = Count(known)
    BY <2>3, <2>5, <2>9, TotalOfTallies
  <2>11. Total("promoters", f) = Count(fans)
    BY <2>3, <2>5, <2>9, TotalOfTallies
  <2>12. Total("detractors", f) = Count(foes)
    BY <2>3, <2>5, <2>9, TotalOfTallies
  <2> QED
    BY <2>10, <2>11, <2>12 DEF f
<1>13. Total("responseCount", r.byCategory) <= r.overall.responseCount
  <2>1. Count(known) <= Count(scored)
    BY <1>8, CountOfPart
  <2> HIDE DEF r, known, scored
  <2> QED
    BY <1>9, <1>12, <2>1
<1>14. ASSUME moves = 0, facts.withdrawn = {}
       PROVE  /\ Total("promoters", r.byCategory) = r.overall.promoters
              /\ Total("detractors", r.byCategory) = r.overall.detractors
  <2>1. at.areas = facts
    BY <1>1, <1>14, ReadsNear
  <2>2. known = scored
    BY <1>14, <2>1
  <2>3. /\ Nps(at.scores, scored).promoters = Count({ v \in scored : at.scores.of[v].nps >= 9 })
        /\ Nps(at.scores, scored).detractors = Count({ v \in scored : at.scores.of[v].nps < 7 })
    BY DEF Nps
  <2> HIDE DEF r, known, scored
  <2> QED
    BY <1>9, <1>12, <2>2, <2>3
<1> HIDE DEF r
<1> QED
  BY <1>6, <1>7, <1>10, <1>11, <1>13, <1>14 DEF ReviewsAgree, r

\* Each report that was read whole fits.
LEMMA FiguresFit ==
  ASSUME FiguresTyped, FiguresDrift
  PROVE  FiguresAgree
<1>1. report.kind \in {"master", "dashboard", "admin", "reviews"}
  BY DEF FiguresTyped, FiguresTypeOK, QueriesOf
<1> QED
  BY <1>1, MasterFits, DashboardFits, AdminFits, ReviewsFit DEF FiguresAgree

-----------------------------------------------------------------------------
(* All of them together *)

\* Each part runs alone, the others standing still.
LEMMA EachServes ==
  InboundSpec =>
    /\ Spec /\ PipelineSpec /\ ThrottleSpec /\ SearchSpec /\ FiguresSpec
    /\ [](part \in Parts)
<1>1. InitInbound => /\ Init /\ InitPipeline /\ InitThrottle /\ InitSearch /\ InitFigures
                     /\ part \in Parts
  BY DEF InitInbound
<1>2. [NextInbound]_inboundVars =>
        /\ [Next]_vars /\ [NextPipeline]_pipelineVars /\ [NextThrottle]_throttleVars
        /\ [NextSearch]_searchVars /\ [NextFigures]_figuresVars
  BY DEF NextInbound, inboundVars
<1>3. part \in Parts /\ [NextInbound]_inboundVars => (part \in Parts)'
  BY DEF NextInbound, inboundVars
<1>. QED BY <1>1, <1>2, <1>3, PTL DEF InboundSpec, Spec, PipelineSpec, ThrottleSpec, SearchSpec,
            FiguresSpec

\* SearchService and FavoritesService: rows, requests, rankings and pages keep their shape,
\* and what a page holds is made of masters there are.
THEOREM SearchTypes == SearchSpec => []SearchTypeOK
<1>1. SearchTyped /\ [NextSearch]_searchVars => SearchTyped'
  <2>1. SearchTyped /\ UNCHANGED searchVars => SearchTyped'
    BY DEF searchVars, SearchTyped, SearchTypeOK, AskedOne
  <2>. QED BY <2>1, SearchTypedKept
<1>2. SearchTyped => SearchTypeOK
  BY DEF SearchTyped
<1>. QED BY <1>1, <1>2, SearchTypedAtFirst, PTL DEF SearchSpec

\* SearchService.search, adminSearch and hydrate: a page shows no one twice and no one who did
\* not meet the query since it was asked; the pages of a quiet search are the whole ranking, in
\* order, for whatever masters, services, categories, queries and interleaving of writes.
THEOREM SearchesSound == SearchSpec => []SearchSound
<1>1. InitSearch => SearchInv
  BY SearchInvAtFirst
<1>2. SearchInv /\ [NextSearch]_searchVars => SearchInv'
  BY SearchInvKept
<1>3. SearchInv => SearchSound
  BY InvIsSound
<1> QED
  BY <1>1, <1>2, <1>3, PTL DEF SearchSpec

\* BookingStatsService, DashboardService and AdminMasterStatsService: what a report has read
\* is rows, one state of them for each query it has made.
THEOREM FiguresTypes == FiguresSpec => []FiguresTypeOK
<1>1. FiguresTyped /\ [NextFigures]_figuresVars => FiguresTyped'
  <2>1. FiguresTyped /\ UNCHANGED figuresVars => FiguresTyped'
    BY DEF figuresVars, FiguresTyped, FiguresTypeOK
  <2>. QED BY <2>1, FiguresTypedKept
<1>2. FiguresTyped => FiguresTypeOK
  BY DEF FiguresTyped
<1>. QED BY <1>1, <1>2, FiguresTypedAtFirst, PTL DEF FiguresSpec

\* BookingStatsService, DashboardService, AdminMasterStatsService, NpsService and
\* ReviewsService.publicListing: whatever bookings, reviews, categories and prices there are, and
\* whenever each query of a report is made, its figures disagree by no more than was written
\* while they were read, and add up exactly when nothing was.
THEOREM FiguresAgreed == FiguresSpec => []FiguresAgree
<1>1. InitFigures => FiguresTyped /\ FiguresDrift
  BY FiguresTypedAtFirst, DriftAtFirst
<1>2. FiguresTyped /\ FiguresDrift /\ [NextFigures]_figuresVars => (FiguresTyped /\ FiguresDrift)'
  <2>1. FiguresTyped /\ FiguresDrift /\ UNCHANGED figuresVars => (FiguresTyped /\ FiguresDrift)'
    BY DEF figuresVars, FiguresTyped, FiguresTypeOK, FiguresDrift
  <2> QED
    BY <2>1, FiguresTypedKept, FiguresDriftKept
<1>3. FiguresTyped /\ FiguresDrift => FiguresAgree
  BY FiguresFit
<1>. QED BY <1>1, <1>2, <1>3, PTL DEF FiguresSpec

\* main.ts: every row, request and bucket keeps its shape in whichever part moves.
THEOREM InboundTypes == InboundSpec => []InboundTypeOK
<1>1. part \in Parts /\ ShopTypeOK /\ PipelineTypeOK /\ ThrottleTypeOK /\ SearchTypeOK
      /\ FiguresTypeOK => InboundTypeOK
  BY DEF InboundTypeOK, Parts
<1>. QED BY <1>1, EachServes, ShopKept, GuardsSafe, BurstSafe, SearchTypes, FiguresTypes, PTL

\* main.ts: all of this of whatever requests arrive, each by the part that answers it.
THEOREM InboundSafe ==
  InboundSpec => /\ [](/\ KeyOrdersOnce /\ SuccessesAgree /\ ReplayMatchesRequest
                      /\ EntitledAreServed /\ BurstBounded /\ SearchSound /\ FiguresAgree)
                 /\ LinesLeaveOrdered
BY EachServes, OneOrderPerKey, OneResponsePerKey, ResponseOfRequest, ServedAsEntitled,
   BurstsBounded, SearchesSound, FiguresAgreed, CartKept, PTL
=============================================================================
