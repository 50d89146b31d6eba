------------------------------ MODULE Sessions -------------------------------
(***************************************************************************)
(* The rows of refresh_tokens and of the one-time tokens, for one user:    *)
(* what each statement of TokenService, PasswordResetService,              *)
(* EmailVerificationService and TwoFactorService does to them.             *)
(*                                                                         *)
(* A family of refresh tokens is named by its first token.  PostgreSQL     *)
(* runs UPDATE ... WHERE at READ COMMITTED: it considers the rows its      *)
(* snapshot shows and tests each again once it holds the row's lock.  A    *)
(* statement on many rows is therefore given the set it saw.               *)
(***************************************************************************)
EXTENDS Naturals

CONSTANTS
  Tokens,      \* refresh tokens
  Links,       \* one-time tokens: reset and verification links, 2FA challenges
  None         \* no token

ASSUME SessionsAssumption == None \notin Tokens \cup Links

VARIABLES
  row,         \* refresh_tokens
  link         \* password_reset_tokens, two_factor_challenges, email_verification_tokens

\* used: consumed by a rotation, which sets revokedAt too.  revoked: revokedAt only.
TokenStates == {"absent", "live", "used", "revoked"}
LinkStates  == {"absent", "unused", "used"}
Purposes    == {"reset", "verify", "challenge"}

TokenRow == [ state : TokenStates, family : Tokens ]
LinkRow  == [ state : LinkStates, purpose : Purposes,
              served : 0 .. 2 ]      \* times its effect was committed

InitSessions ==
  /\ row = [t \in Tokens |-> [ state |-> "absent", family |-> t ]]
  /\ link = [k \in Links |-> [ state |-> "absent", purpose |-> "reset", served |-> 0 ]]

-----------------------------------------------------------------------------
(* refresh_tokens *)

\* WHERE revokedAt IS NULL: no UPDATE asks the clock, so expiresAt only decides
\* which token can still be presented; one that expired is one nobody presents.
Unrevoked(t) == row[t].state = "live"

AllUnrevoked == { t \in Tokens : Unrevoked(t) }
Family(f)    == { t \in AllUnrevoked : row[t].family = f }

\* Mutant: a token revoked since it was read can be consumed still.
ConsumableRevoked(t) == row[t].state # "used"
\* WHERE usedAt IS NULL AND revokedAt IS NULL
Consumable(t) == Unrevoked(t)

\* The first token of a new family.
Opened(t) == [row EXCEPT ![t].state = "live"]

\* t consumed and s inserted in its family, in one transaction.
Rotated(t, s) ==
  [row EXCEPT ![t].state = "used",
              ![s] = [ state |-> "live", family |-> row[t].family ]]

\* The UPDATE ... WHERE revokedAt IS NULL that saw the rows of "seen".
Revoked(seen) ==
  [t \in Tokens |-> IF t \in seen /\ Unrevoked(t)
                    THEN [ row[t] EXCEPT !.state = "revoked" ] ELSE row[t]]

-----------------------------------------------------------------------------
(* One-time tokens *)

Unused(k) == link[k].state = "unused"
Outstanding(purpose) == { k \in Links : Unused(k) /\ link[k].purpose = purpose }

NothingSuperseded(seen, purpose, k) ==     \* mutant: older links are left valid
  [link EXCEPT ![k] = [ state |-> "unused", purpose |-> purpose, served |-> 0 ]]
\* The links seen outstanding are marked used and k is inserted.
Issued(seen, purpose, k) ==
  [j \in Links |->
     IF j = k THEN [ state |-> "unused", purpose |-> purpose, served |-> 0 ]
     ELSE IF j \in seen THEN [ link[j] EXCEPT !.state = "used" ]
     ELSE link[j]]

ServeableAsRead(k) == TRUE                 \* mutant: unconditional consume
\* WHERE usedAt IS NULL
Serveable(k) == Unused(k)

Consumed(k) == [link EXCEPT ![k].state = "used", ![k].served = @ + 1]
=============================================================================
