------------------------------ MODULE Accounts -------------------------------
(***************************************************************************)
(* One account and the requests that open, refresh and close its sessions: *)
(* AuthService, TokenService, TwoFactorService, PasswordResetService,      *)
(* EmailVerificationService, AdminUsersService and UsersService.deleteMe.  *)
(*                                                                         *)
(* A request first reads (op), later opens the transaction or statement    *)
(* that reads the rows it will update (Snapshot), and commits.  A password *)
(* or TOTP code is right or the call ends without effect, so neither is    *)
(* kept; neither is the secret, of which only enrolment matters.           *)
(***************************************************************************)
EXTENDS Sessions, FiniteSets

CONSTANTS
  Requests,
  Menus        \* a bound: the sets of operations a behaviour may be made of

ASSUME AccountsAssumption == IsFiniteSet(Requests)

VARIABLES
  account,     \* the row of users
  req,         \* what each request is doing
  menu         \* the operations clients call in this behaviour

accountVars == <<row, link, account, req, menu>>

Statuses == {"ACTIVE", "BLOCKED", "INACTIVE"}
Account == [ status : Statuses, deleted : BOOLEAN, verified : BOOLEAN,
             secret : BOOLEAN, totp : BOOLEAN ]    \* totpSecret, totpEnabledAt set

\* register: the user's row is committed, its verification link and its session
\* are to come.  open: issuePair is to come.  family: revokeFamily, for a replayed token or revokeSession.
Sweeps == {"revokeAll", "family", "change", "reset", "block", "delete"}
PurposeOf == [ issueReset |-> "reset", issueChallenge |-> "challenge",
               issueVerify |-> "verify", register |-> "verify" ]
Issues == DOMAIN PurposeOf
Updates == {"unblock", "setup", "enable", "disable"}
Ops == Sweeps \cup Issues \cup Updates \cup {"idle", "open", "rotate", "verify", "confirm"}

\* The sweeps that update the user's row first and hold its lock to the end.
LockUser == {"change", "reset", "block", "delete"}

Request == [ op : Ops, inTx : BOOLEAN, token : Tokens \cup Links \cup {None},
             seen : SUBSET (Tokens \cup Links) ]    \* by the UPDATE's snapshot
Started(op, token) == [ op |-> op, inTx |-> FALSE, token |-> token, seen |-> {} ]
Idle == Started("idle", None)

InitAccounts ==
  /\ InitSessions
  /\ account = [ status |-> "ACTIVE", deleted |-> FALSE, verified |-> FALSE,
                  secret |-> FALSE, totp |-> FALSE ]
  /\ \E registering \in Requests :
       req = [r \in Requests |->
                IF r = registering THEN Started("register", None) ELSE Idle]
  /\ menu \in Menus

Goes(r, op, token) == req' = [req EXCEPT ![r] = Started(op, token)]
Ends(r) == req' = [req EXCEPT ![r] = Idle]
Begins(r, op, token) == req[r].op = "idle" /\ op \in menu /\ Goes(r, op, token)

UserLocked == \E r \in Requests : req[r].inTx /\ req[r].op \in LockUser
HeldLinks  == { req[r].token : r \in { q \in Requests : req[q].inTx /\ req[q].op = "reset" } }

Roots == { f \in Tokens : row[f].state # "absent" /\ row[f].family = f }

UsableUnlessDeleted == ~account.deleted     \* mutant: the status is not looked at
\* assertAccountUsable, and what JwtStrategy.validate asks on every request.
Usable == account.status = "ACTIVE" /\ ~account.deleted

\* An authenticated caller: an access token of family f, and a usable account.
Authenticated(f) == Usable /\ f \in Roots
SomeoneAuthenticated == \E f \in Tokens : Authenticated(f)

-----------------------------------------------------------------------------
(* First reads *)

Login(r) ==
  /\ Usable
  /\ Begins(r, IF account.totp THEN "issueChallenge" ELSE "open", None)

\* rotate(): a consumed token is looked for before a revoked or expired one.
Refresh(r, t) ==
  \/ row[t].state = "used" /\ Begins(r, "family", row[t].family)
  \/ row[t].state = "live" /\ Begins(r, "rotate", t)

LogoutAll(r) == SomeoneAuthenticated /\ Begins(r, "revokeAll", None)

RevokeSession(r, f) ==
  /\ SomeoneAuthenticated
  /\ \E t \in Family(f) : row[t].state = "live"
  /\ Begins(r, "family", f)

ChangePassword(r, f) == Authenticated(f) /\ Begins(r, "change", f)
DeleteMe(r) == SomeoneAuthenticated /\ Begins(r, "delete", None)

Block(r)   == ~account.deleted /\ account.status # "BLOCKED" /\ Begins(r, "block", None)
Unblock(r) == ~account.deleted /\ account.status = "BLOCKED" /\ Begins(r, "unblock", None)

RequestReset(r) == ~account.deleted /\ Begins(r, "issueReset", None)

Resend(r) ==
  /\ SomeoneAuthenticated
  /\ ~account.verified
  /\ Begins(r, "issueVerify", None)

\* resetPassword, verifyChallenge and EmailVerificationService.verify.
Present(r, k) ==
  /\ link[k].state = "unused"
  /\ \/ link[k].purpose = "reset" /\ Begins(r, "reset", k)
     \/ link[k].purpose = "verify" /\ Begins(r, "confirm", k)
     \/ link[k].purpose = "challenge" /\ account.secret /\ Begins(r, "verify", k)

SetUpTotp(r)   == SomeoneAuthenticated /\ ~account.totp /\ Begins(r, "setup", None)
EnableTotp(r)  == /\ SomeoneAuthenticated /\ ~account.totp /\ account.secret
                  /\ Begins(r, "enable", None)
DisableTotp(r) == /\ SomeoneAuthenticated /\ account.totp /\ account.secret
                  /\ Begins(r, "disable", None)

Read(r) ==
  \/ Login(r) \/ LogoutAll(r) \/ DeleteMe(r) \/ Block(r) \/ Unblock(r)
  \/ RequestReset(r) \/ Resend(r) \/ SetUpTotp(r) \/ EnableTotp(r) \/ DisableTotp(r)
  \/ \E t \in Tokens : Refresh(r, t) \/ RevokeSession(r, t) \/ ChangePassword(r, t)
  \/ \E k \in Links : Present(r, k)

-----------------------------------------------------------------------------
(* Statements that touch one row, which PostgreSQL makes one at a time *)

\* revokeByRawToken.
Logout(r, t) ==
  /\ req[r].op = "idle" /\ SomeoneAuthenticated
  /\ Unrevoked(t)
  /\ row' = Revoked({t})
  /\ UNCHANGED <<link, account, req>>

\* issuePair
IssuePair(r) ==
  /\ req[r].op = "open"
  /\ \E t \in Tokens : row[t].state = "absent" /\ row' = Opened(t)
  /\ Ends(r)
  /\ UNCHANGED <<link, account>>

\* The transaction of rotate(): lost to another, it throws.
Rotate(r) ==
  /\ req[r].op = "rotate"
  /\ IF Consumable(req[r].token)
     THEN \E s \in Tokens : row[s].state = "absent" /\ row' = Rotated(req[r].token, s)
     ELSE UNCHANGED row
  /\ Ends(r)
  /\ UNCHANGED <<link, account>>

\* The challenge is consumed in a statement of its own; the session comes later.
ConsumeChallenge(r) ==
  /\ req[r].op = "verify"
  /\ IF Serveable(req[r].token)
     THEN link' = Consumed(req[r].token) /\ Goes(r, "open", None)
     ELSE UNCHANGED link /\ Ends(r)
  /\ UNCHANGED <<row, account>>

ConfirmEmail(r) ==
  /\ req[r].op = "confirm" /\ ~UserLocked
  /\ IF Serveable(req[r].token)
     THEN link' = Consumed(req[r].token) /\ account' = [account EXCEPT !.verified = TRUE]
     ELSE UNCHANGED <<link, account>>
  /\ Ends(r)
  /\ UNCHANGED row

\* The updates of users that ask nothing more than the read before them did.
UpdateUser(r) ==
  /\ req[r].op \in Updates /\ ~UserLocked
  /\ account' = CASE req[r].op = "unblock" -> [account EXCEPT !.status = "ACTIVE"]
                  [] req[r].op = "setup"   -> [account EXCEPT !.secret = TRUE]
                  [] req[r].op = "enable"  -> [account EXCEPT !.totp = TRUE]
                  [] req[r].op = "disable" -> [account EXCEPT !.secret = FALSE, !.totp = FALSE]
  /\ Ends(r)
  /\ UNCHANGED <<row, link>>

-----------------------------------------------------------------------------
(* Transactions that update the rows they see *)

\* WHERE of the revocation or of the superseding UPDATE.
Visible(r) ==
  CASE req[r].op \in Issues   -> Outstanding(PurposeOf[req[r].op])
    [] req[r].op = "family"   -> Family(req[r].token)
    [] req[r].op = "change"   -> AllUnrevoked \ Family(req[r].token)
    [] OTHER                  -> AllUnrevoked

Snapshot(r) ==
  /\ req[r].op \in Sweeps \cup Issues /\ ~req[r].inTx
  /\ req[r].op \in LockUser => ~UserLocked
  /\ IF req[r].op = "reset" /\ ~Serveable(req[r].token)
     THEN Ends(r)
     ELSE req' = [req EXCEPT ![r] = [ @ EXCEPT !.inTx = TRUE, !.seen = Visible(r) ]]
  /\ UNCHANGED <<row, link, account>>

CommitIssue(r) ==
  /\ req[r].inTx /\ req[r].op \in Issues
  /\ req[r].seen \cap HeldLinks = {}
  /\ \E k \in Links : /\ link[k].state = "absent"
                      /\ link' = Issued(req[r].seen, PurposeOf[req[r].op], k)
  /\ IF req[r].op = "register" THEN Goes(r, "open", None) ELSE Ends(r)
  /\ UNCHANGED <<row, account>>

CommitSweep(r) ==
  /\ req[r].inTx /\ req[r].op \in Sweeps
  /\ row' = Revoked(req[r].seen)
  /\ link' = IF req[r].op = "reset" THEN Consumed(req[r].token) ELSE link
  /\ account' = CASE req[r].op = "block"  -> [account EXCEPT !.status = "BLOCKED"]
                  [] req[r].op = "delete" -> [account EXCEPT !.status = "INACTIVE", !.deleted = TRUE]
                  [] OTHER                -> account
  /\ Ends(r)

-----------------------------------------------------------------------------
\* The process dies; a transaction that was open is rolled back.
Crash(r) ==
  /\ req[r].op # "idle"
  /\ Ends(r)
  /\ UNCHANGED <<row, link, account>>

NextAccounts ==
  /\ UNCHANGED menu
  /\ \E r \in Requests :
       \/ Read(r) /\ UNCHANGED <<row, link, account>>
       \/ IssuePair(r) \/ Rotate(r) \/ ConsumeChallenge(r) \/ ConfirmEmail(r) \/ UpdateUser(r)
       \/ Snapshot(r) \/ CommitIssue(r) \/ CommitSweep(r) \/ Crash(r)
       \/ \E t \in Tokens : Logout(r, t)

AccountsSpec == InitAccounts /\ [][NextAccounts]_accountVars
=============================================================================
