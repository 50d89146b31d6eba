--------------------------- MODULE SessionFamilies ---------------------------
(***************************************************************************)
(* What the session tables promise.  A session is a family of refresh      *)
(* tokens of which one at a time works.  Refreshing moves the session to a *)
(* token never used before; an ended session has no token ever again.      *)
(***************************************************************************)
CONSTANTS Families, Tokens

VARIABLES
  begun,     \* the families that have been opened
  working,   \* the tokens that work, of each family
  issued     \* the tokens handed out so far

vars == <<begun, working, issued>>

Init ==
  /\ begun = {}
  /\ working = [f \in Families |-> {}]
  /\ issued = {}

Open(f) ==
  /\ f \notin begun
  /\ \E t \in Tokens \ issued :
       /\ working' = [working EXCEPT ![f] = {t}]
       /\ issued' = issued \cup {t}
  /\ begun' = begun \cup {f}

Refresh(f) ==
  /\ working[f] # {}
  /\ \E s \in Tokens \ issued :
       /\ working' = [working EXCEPT ![f] = {s}]
       /\ issued' = issued \cup {s}
  /\ UNCHANGED begun

End(ended) ==
  /\ working' = [f \in Families |-> IF f \in ended THEN {} ELSE working[f]]
  /\ UNCHANGED <<begun, issued>>

Next ==
  \/ \E f \in Families : Open(f) \/ Refresh(f)
  \/ \E ended \in SUBSET Families : End(ended)

Spec == Init /\ [][Next]_vars
=============================================================================
