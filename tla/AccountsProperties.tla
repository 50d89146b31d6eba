------------------------- MODULE AccountsProperties --------------------------
(***************************************************************************)
(* What rotation, revocation and the one-time links promise one account,   *)
(* whatever the order in which its requests run.                           *)
(***************************************************************************)
EXTENDS Accounts

\* The rows of users, refresh_tokens and the one-time tokens keep their shape, and
\* a rotation's successor is in the family of a first token.
AccountsTypeOK ==
  /\ row \in [Tokens -> TokenRow]
  /\ link \in [Links -> LinkRow]
  /\ account \in Account
  /\ req \in [Requests -> Request]
  /\ menu \in Menus
  /\ \A t \in Tokens : row[t].state # "absent" => row[t].family \in Roots

Promised == INSTANCE SessionFamilies WITH
  Families <- Tokens,
  begun    <- Roots,
  working  <- [f \in Tokens |-> IF f \in Roots THEN Family(f) ELSE {}],
  issued   <- { t \in Tokens : row[t].state # "absent" }

\* TokenService.rotate: "two concurrent refreshes of the same token produce exactly
\* one successor", and no refresh under way revives a session that has been ended.
FamiliesImplemented == Promised!Spec

\* resetPassword, verifyChallenge and verify: "two requests carrying the same link
\* must not both succeed", nor one that carries a link superseded or expired since.
LinkServesOnce ==
  \A k \in Links : link[k].served <= 1 /\ (link[k].served = 1 => link[k].state = "used")

\* "Issuing a new link invalidates the previous one": as many links of a purpose
\* can be outstanding as requests were issuing at the same time, and no more.
LinksSuperseded ==
  \A purpose \in Purposes : Cardinality(Outstanding(purpose)) <= Cardinality(Requests)

Shut == account.status # "ACTIVE" \/ account.deleted
Closed ==
  /\ Shut
  /\ AllUnrevoked = {} /\ Outstanding("challenge") = {}
  /\ \A r \in Requests : req[r].op \notin {"open", "register", "issueChallenge"}

\* AdminUsersService.block and deleteMe: once the account is closed to its user with
\* no session open, no login under way and no challenge outstanding, no request
\* that was under way opens one until the account is made usable again.
ClosedStaysClosed == [][Closed /\ Shut' => Closed']_accountVars
=============================================================================
