-------------------------------- MODULE Shop --------------------------------
(***************************************************************************)
(* One client's cart and its checkout, an @Idempotent() route.             *)
(*                                                                         *)
(* checkout() reads the cart, then makes the order and deletes the ordered *)
(* lines in a transaction.  The cart is edited meanwhile by the client's   *)
(* other requests; addItem() computes the new quantity from a read.        *)
(***************************************************************************)
EXTENDS Idempotency

CONSTANTS
  Products,
  MAX_ITEM_QUANTITY,
  Quantities,     \* quantities a request may name
  Editors         \* concurrent addItem requests

VARIABLES
  line,     \* quantity of each product in the cart, 0 for no row
  active,   \* products with isActive
  basket,   \* the cart lines each checkout has read
  orders,   \* the items of the order each call made, all 0 for no order
  edit      \* what each addItem request has read and will write

shopVars == <<line, active, basket, orders, edit>>
vars == <<keys, call, faults, line, active, basket, orders, edit>>

Lines  == [Products -> 0 .. MAX_ITEM_QUANTITY]
Empty  == [p \in Products |-> 0]
Upsert == [ product : Products, quantity : 0 .. MAX_ITEM_QUANTITY ]
AnyProduct == CHOOSE p \in Products : TRUE
Idle   == [ product |-> AnyProduct, quantity |-> 0 ]     \* nothing to write

ASSUME ShopAssumption ==
  /\ MAX_ITEM_QUANTITY \in Nat \ {0}
  /\ Quantities \subseteq 1 .. MAX_ITEM_QUANTITY
  /\ Products # {}
  /\ "checkout" \in Routes

Init ==
  /\ InitIdempotency
  /\ line \in Lines
  /\ active = Products
  /\ basket = [c \in Calls |-> Empty]
  /\ orders = [c \in Calls |-> Empty]
  /\ edit = [e \in Editors |-> Idle]

-----------------------------------------------------------------------------
(* checkout() *)

Arrive(c) ==
  /\ \E k \in Keys \cup {NoKey}, route \in Routes : Begin(c, k, route)
  /\ UNCHANGED shopVars

\* The read before the transaction: the lines whose product is active.
ReadCart(c) ==
  LET found == [p \in Products |-> IF p \in active THEN line[p] ELSE 0] IN
  /\ call[c].phase = "handler" /\ call[c].route = "checkout"
  /\ basket' = [basket EXCEPT ![c] = found]
  /\ IF found = Empty THEN HandlerThrows(c)
     ELSE call' = [call EXCEPT ![c].phase = "placing"]
  /\ UNCHANGED <<keys, faults, line, active, orders, edit>>

ClearedWhole(c) == Empty    \* mutant: the cart is deleted whole
\* The cart without the products that were ordered, whatever their quantity now.
Cleared(c) == [p \in Products |-> IF basket[c][p] > 0 THEN 0 ELSE line[p]]

\* The transaction: the order from what was read, and the deletion of its lines.
MakeOrder(c) ==
  /\ call[c].phase = "placing"
  /\ orders' = [orders EXCEPT ![c] = basket[c]]
  /\ line' = Cleared(c)
  /\ basket' = [basket EXCEPT ![c] = Empty]
  /\ UNCHANGED <<keys, active, edit>>

PlaceOrder(c) == MakeOrder(c) /\ HandlerReturns(c) /\ UNCHANGED faults

\* The commit succeeds and its acknowledgement is lost: run() throws.
LoseCommit(c) ==
  /\ faults < MaxFaults
  /\ MakeOrder(c) /\ HandlerThrows(c)
  /\ faults' = faults + 1

\* The transaction rolls back, after as many attempts as run() makes.
RollBack(c) ==
  /\ faults < MaxFaults
  /\ call[c].phase = "placing"
  /\ HandlerThrows(c)
  /\ basket' = [basket EXCEPT ![c] = Empty]
  /\ faults' = faults + 1
  /\ UNCHANGED <<keys, line, active, orders, edit>>

Die(c) ==
  /\ Crash(c)
  /\ basket' = [basket EXCEPT ![c] = Empty]
  /\ UNCHANGED <<line, active, orders, edit>>

\* Another @Idempotent() route of the same user: it returns or throws.
ServeOther(c) ==
  /\ call[c].phase = "handler" /\ call[c].route # "checkout"
  /\ HandlerReturns(c) \/ HandlerThrows(c)
  /\ UNCHANGED <<keys, faults>> /\ UNCHANGED shopVars

-----------------------------------------------------------------------------
(* The cart *)

Capped(p, q) == IF line[p] + q < MAX_ITEM_QUANTITY THEN line[p] + q ELSE MAX_ITEM_QUANTITY

\* addItem()'s reads: an active product, and the line's present quantity.
ReadLine(e) ==
  /\ edit[e] = Idle
  /\ \E p \in active, q \in Quantities :
       edit' = [edit EXCEPT ![e] = [ product |-> p, quantity |-> Capped(p, q) ]]
  /\ UNCHANGED idempotencyVars /\ UNCHANGED <<line, active, basket, orders>>

\* The upsert stores the sum whether the line is there or not, or fails.
WriteLine(e) ==
  /\ edit[e] # Idle
  /\ line' = [line EXCEPT ![edit[e].product] = edit[e].quantity] \/ UNCHANGED line
  /\ edit' = [edit EXCEPT ![e] = Idle]
  /\ UNCHANGED idempotencyVars /\ UNCHANGED <<active, basket, orders>>

SetQuantity(p, q) ==
  /\ line[p] > 0
  /\ line' = [line EXCEPT ![p] = q]
  /\ UNCHANGED idempotencyVars /\ UNCHANGED <<active, basket, orders, edit>>

RemoveItem(p) ==
  /\ line' = [line EXCEPT ![p] = 0]
  /\ UNCHANGED idempotencyVars /\ UNCHANGED <<active, basket, orders, edit>>

\* An administrator withdraws a product, or puts it back.
SetActive(p) ==
  /\ active' = IF p \in active THEN active \ {p} ELSE active \cup {p}
  /\ UNCHANGED idempotencyVars /\ UNCHANGED <<line, basket, orders, edit>>

-----------------------------------------------------------------------------
Protocol(c) == (Inspect(c) \/ Respond(c) \/ Abandon(c)) /\ UNCHANGED shopVars
StoreResponse(c) == Store(c) /\ UNCHANGED shopVars
Handle(c)   == ReadCart(c) \/ PlaceOrder(c) \/ ServeOther(c)
Fail(c)     == LoseCommit(c) \/ RollBack(c) \/ Die(c)

Next ==
  \/ \E c \in Calls : Arrive(c) \/ Protocol(c) \/ StoreResponse(c) \/ Handle(c) \/ Fail(c)
  \/ \E e \in Editors : ReadLine(e) \/ WriteLine(e)
  \/ \E p \in Products : RemoveItem(p) \/ SetActive(p)
                         \/ \E q \in Quantities : SetQuantity(p, q)

Spec == Init /\ [][Next]_vars

\* A running process goes on with a request; the UPDATE nothing waits for is a
\* task of its own.
FairShop == \A c \in Calls : WF_vars(Protocol(c) \/ Handle(c)) /\ WF_vars(StoreResponse(c))

-----------------------------------------------------------------------------
\* Rows, requests and quantities keep the shape the schema gives them: no cart
\* line and no order item ever exceeds MAX_ITEM_QUANTITY.
ShopTypeOK ==
  /\ keys \in [Keys -> KeyRow]
  /\ call \in [Calls -> Call]
  /\ faults \in 0 .. MaxFaults
  /\ line \in Lines
  /\ active \subseteq Products
  /\ basket \in [Calls -> Lines]
  /\ orders \in [Calls -> Lines]
  /\ edit \in [Editors -> Upsert]

SameKey(c, d) == c # d /\ call[c].key = call[d].key /\ call[c].key # NoKey

\* IdempotencyService.begin: however many requests carry one key, crash and are
\* retried, it makes one order, but for orders whose call was told it failed.
KeyOrdersOnce ==
  \A c, d \in Calls :
    SameKey(c, d) /\ orders[c] # Empty /\ orders[d] # Empty
    => "error" \in {call[c].answer, call[d].answer}

\* All successful answers to one key are the one response, stored or not.
SuccessesAgree ==
  \A c, d \in Calls :
    SameKey(c, d) /\ call[c].answer \in Calls /\ call[d].answer \in Calls
    => call[c].answer = call[d].answer

\* IDEMPOTENCY_KEY_REUSED: nobody is answered with the response to another
\* request, the key having been released and taken again included.
ReplayMatchesRequest ==
  \A c \in Calls :
    call[c].answer \in Calls =>
      call[call[c].answer].route = call[c].route /\ call[call[c].answer].key = call[c].key

\* CheckoutService: a line leaves the cart only by being removed or ordered;
\* one whose product is inactive is left in the cart.
LinesLeaveOrdered ==
  [][\A p \in Products :
       line[p] > 0 /\ line'[p] = 0
       => \/ RemoveItem(p)
          \/ \E c \in Calls : orders[c][p] = 0 /\ orders'[c][p] > 0]_vars

\* A key is settled, replayable or free again, unless its process died: a
\* client told to wait is not told so for ever.
KeysSettle ==
  \A c \in Calls, k \in Keys :
    (call[c].phase = "handler" /\ call[c].key = k)
      ~> (keys[k].state # "inProgress" \/ call[c].phase = "dead")
=============================================================================
