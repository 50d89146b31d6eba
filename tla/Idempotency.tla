----------------------------- MODULE Idempotency -----------------------------
(***************************************************************************)
(* IdempotencyInterceptor around the handler of an @Idempotent() route.    *)
(*                                                                         *)
(* A call with a key first inserts the key's row, and the unique index on  *)
(* (userId, key) decides which of several runs the handler.  The response  *)
(* is stored in that row without anything waiting for it, so the client    *)
(* may have the answer before, or without, the row that would replay it.   *)
(* The handler belongs to the module that extends this one.                *)
(*                                                                         *)
(* All keys are one user's.  A response is named by the call whose handler *)
(* produced it, a request's fingerprint by its route.                      *)
(***************************************************************************)
EXTENDS Naturals

CONSTANTS
  Calls,          \* HTTP requests, retries being requests of their own
  Keys, NoKey,    \* Idempotency-Key headers; no header
  NoCall,         \* no response
  Routes,         \* method, path and body, as requestHash tells them apart
  MaxFaults       \* bound on crashes and failed transactions

VARIABLES
  keys,    \* the idempotency_keys row of each key
  call,    \* what each request is doing
  faults

idempotencyVars == <<keys, call, faults>>

ASSUME IdempotencyAssumption ==
  /\ NoKey \notin Keys
  /\ NoCall \notin Calls
  /\ Calls \cap {"none", "error", "reused", "inProgress"} = {}
  /\ Routes # {}
  /\ MaxFaults \in Nat

AnyRoute == CHOOSE route \in Routes : TRUE

KeyRow == [ state : {"absent", "inProgress", "done"}, route : Routes,
            response : Calls \cup {NoCall} ]
AbsentRow == [ state |-> "absent", route |-> AnyRoute, response |-> NoCall ]

(* The phases of a call:                                                   *)
(*   new, clash      before the insert; the unique index has refused it    *)
(*   handler, placing   the handler runs: before and after its first read  *)
(*   returned, threw    what the handler did, not yet passed on            *)
(*   ended, dead     answered; its process died                            *)
Phases  == {"new", "clash", "handler", "placing", "returned", "threw", "ended", "dead"}
Answers == {"none", "error", "reused", "inProgress"} \cup Calls
Call == [ phase : Phases, key : Keys \cup {NoKey}, route : Routes,
          storing : BOOLEAN,     \* complete() issued, its UPDATE not yet made
          answer : Answers ]

InitIdempotency ==
  /\ keys = [k \in Keys |-> AbsentRow]
  /\ call = [c \in Calls |-> [ phase |-> "new", key |-> NoKey, route |-> AnyRoute,
                               storing |-> FALSE, answer |-> "none" ]]
  /\ faults = 0

-----------------------------------------------------------------------------
(* begin() *)

\* Mutant: a key in progress is taken to mean "proceed".
ClaimableInProgress(k) == keys[k].state # "done"
\* The unique index on (userId, key) admits the insert.
Claimable(k) == keys[k].state = "absent"

Begin(c, k, route) ==
  /\ call[c].phase = "new"
  /\ IF k # NoKey /\ Claimable(k)
     THEN keys' = [keys EXCEPT ![k] =
                     [ state |-> "inProgress", route |-> route, response |-> NoCall ]]
     ELSE UNCHANGED keys
  /\ call' = [call EXCEPT ![c] =
       [ @ EXCEPT !.phase = IF k = NoKey \/ Claimable(k) THEN "handler" ELSE "clash",
                  !.key = k, !.route = route ]]
  /\ UNCHANGED faults

Answered(c, answer) ==
  call' = [call EXCEPT ![c] = [ @ EXCEPT !.phase = "ended", !.answer = answer ]]

SameRequestAssumed(k, route) == TRUE    \* mutant: the fingerprint is not compared
SameRequest(k, route) == keys[k].route = route

\* What the row says when it is read after the insert has failed.  It may have
\* been deleted since: findUniqueOrThrow then throws.
Replay(k, route) ==
  CASE keys[k].state = "absent"  -> "error"
    [] ~SameRequest(k, route)    -> "reused"
    [] keys[k].response = NoCall -> "inProgress"
    [] OTHER                     -> keys[k].response

Inspect(c) ==
  /\ call[c].phase = "clash"
  /\ Answered(c, Replay(call[c].key, call[c].route))
  /\ UNCHANGED <<keys, faults>>

-----------------------------------------------------------------------------
(* Around the handler *)

\* The handler's value passes tap(), which issues complete() and does not wait.
HandlerReturns(c) ==
  call' = [call EXCEPT ![c] = [ @ EXCEPT !.phase = "returned", !.storing = (call[c].key # NoKey) ]]

HandlerThrows(c) == call' = [call EXCEPT ![c].phase = "threw"]

Respond(c) ==
  /\ call[c].phase = "returned"
  /\ Answered(c, c)
  /\ UNCHANGED <<keys, faults>>

(* complete() *)
Store(c) ==
  /\ call[c].storing
  /\ keys' = [keys EXCEPT ![call[c].key] = [ @ EXCEPT !.state = "done", !.response = c ]]
  /\ call' = [call EXCEPT ![c].storing = FALSE]
  /\ UNCHANGED faults

Kept(k) == keys[k]      \* mutant: a failed call keeps its row
\* The row after abandon()'s DELETE ... WHERE responseStatus IS NULL.
Released(k) == IF keys[k].response = NoCall THEN AbsentRow ELSE keys[k]

\* abandon(), then the handler's error goes on to the client.
Abandon(c) ==
  /\ call[c].phase = "threw"
  /\ keys' = IF call[c].key = NoKey THEN keys
             ELSE [keys EXCEPT ![call[c].key] = Released(call[c].key)]
  /\ Answered(c, "error")
  /\ UNCHANGED faults

\* The process dies at any point after the request has reached it, complete()
\* outstanding or not; a complete() that fails ends its process likewise.
Crash(c) ==
  /\ faults < MaxFaults
  /\ call[c].phase \notin {"new", "dead"}
  /\ call[c].phase = "ended" => call[c].storing
  /\ call' = [call EXCEPT ![c] = [ @ EXCEPT !.phase = "dead", !.storing = FALSE ]]
  /\ faults' = faults + 1
  /\ UNCHANGED keys
=============================================================================
