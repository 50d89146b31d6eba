------------------------------- MODULE Pipeline -------------------------------
(***************************************************************************)
(* One HTTP request on its way: the guards in the order app.module.ts      *)
(* lists them, the interceptors around the handler, and the row of the     *)
(* audit log that nothing waits for, while the caller's account may be     *)
(* blocked, the 15 seconds may pass and the process may die.               *)
(*                                                                         *)
(* What a handler does inside is for the other modules; here it serves the *)
(* caller, once, or throws.                                                *)
(***************************************************************************)
EXTENDS Endpoints, Naturals

CONSTANTS
  Served,         \* the endpoints requests name, any of Endpoint
  Nobody,         \* a request without an access token
  MaxLosses       \* bound on crashes and failed inserts

ASSUME PipelineAssumption ==
  Served \subseteq Endpoint /\ Nobody \notin Roles /\ MaxLosses \in Nat

VARIABLES
  endpoint, bearer,   \* what is asked, and the role of the account that asks
  status,             \* of that account; deletedAt counts as a status
  keyed,              \* it carries an Idempotency-Key that its route reads
  stage,              \* how far the request has come
  user,               \* request.user, as the guard has found it
  handler,            \* "idle", "running", "returned", "threw"
  attached,           \* the interceptors still listen to the handler
  answer,             \* what the client has been told
  served,             \* the handler has done what it is for
  auditRow,           \* "none", "pending" while record() runs, "written", "lost"
  wasActive,          \* the account was ACTIVE at some time since the request came
  losses

pipelineVars == <<endpoint, bearer, status, keyed, stage, user, handler, attached, answer,
                  served, auditRow, wasActive, losses>>
requestVars == <<endpoint, bearer, keyed>>

Callers == Roles \cup {Nobody}
route == RouteOf(endpoint)

InitPipeline ==
  /\ endpoint \in Served /\ bearer = Nobody /\ status = "ACTIVE" /\ keyed = FALSE
  /\ stage = "new" /\ user = Nobody
  /\ handler = "idle" /\ attached = TRUE /\ answer = "none" /\ served = FALSE
  /\ auditRow = "none" /\ wasActive = FALSE /\ losses = 0

\* The exception filter answers, and the request is over.
Refuse(with) ==
  /\ answer' = with /\ stage' = "over"
  /\ UNCHANGED <<user, handler, attached, served, auditRow>>
Pass(to) == stage' = to /\ UNCHANGED <<handler, attached, answer, served, auditRow>>
Elsewhere == UNCHANGED <<status, wasActive, losses>>

-----------------------------------------------------------------------------
(* The guards *)

Receive(who, header) ==
  /\ stage = "new"
  /\ header => route.idempotent
  /\ bearer' = who /\ keyed' = header
  /\ wasActive' = (status = "ACTIVE")
  /\ Pass("arrived")
  /\ UNCHANGED <<endpoint, status, user, losses>>

\* IdentifierThrottlerGuard: as Throttle says, or not at all under @SkipThrottle().
CountHit ==
  /\ stage = "arrived"
  /\ \/ Pass("counted") /\ UNCHANGED user
     \/ route.strategy # "none" /\ Refuse("limited")
  /\ UNCHANGED requestVars /\ Elsewhere

ClaimsOnly(who) == who # Nobody         \* mutant: the token's claims are evidence enough
\* JwtStrategy.validate() reads the account again.
Valid(who) == who # Nobody /\ status = "ACTIVE"

Authenticate ==
  /\ stage = "counted"
  /\ IF route.public THEN Pass("known") /\ UNCHANGED user
     ELSE IF Valid(bearer) THEN Pass("known") /\ user' = bearer
     ELSE Refuse("unauthorized")
  /\ UNCHANGED requestVars /\ Elsewhere

Permits(who) == route.roles = {} \/ who \in route.roles

CheckRole ==
  /\ stage = "known"
  /\ IF Permits(user) THEN Pass("permitted") /\ UNCHANGED user ELSE Refuse("forbidden")
  /\ UNCHANGED requestVars /\ Elsewhere

-----------------------------------------------------------------------------
(* The interceptors and the handler *)

\* An earlier request with the key is replayed, or is still in progress; else next.handle().
Intercept ==
  /\ stage = "permitted"
  /\ \/ stage' = "inside" /\ handler' = "running"
        /\ UNCHANGED <<user, attached, answer, served, auditRow>>
     \/ keyed /\ \E with \in {"replayed", "inProgress"} : Refuse(with)
  /\ UNCHANGED requestVars /\ Elsewhere

\* The services turn an administrator away who has neither profile, and from a banner
\* whoever is not a master.
Serves(e, who) ==
  /\ e \in { <<"ConversationsController", h>> : h \in {"create", "listMessages",
                      "sendMessage", "markRead"} } \cup { <<"MessagesController", "remove">>,
                    <<"UsersController", "updateMe">>, <<"UsersController", "setAvatar">> }
     => who # "ADMIN"
  /\ e = <<"UsersController", "setBanner">> => who = "MASTER"

DoWork ==
  /\ handler = "running" /\ Serves(endpoint, user)
  /\ handler' = "returned" /\ served' = TRUE
  /\ UNCHANGED <<stage, user, attached, answer, auditRow>>
  /\ UNCHANGED requestVars /\ Elsewhere

\* The validation pipe, a rule of the service or the database says no, or something fails
\* after the commit.
ThrowError ==
  /\ handler = "running"
  /\ handler' = "threw" /\ served' \in {served, Serves(endpoint, user)}
  /\ UNCHANGED <<stage, user, attached, answer, auditRow>>
  /\ UNCHANGED requestVars /\ Elsewhere

\* mutant: entityIdOf() looks in the response alone
NamedInResponse == route.named /\ endpoint[2] = "create"
Named == route.named

\* The handler's value passes AuditInterceptor's tap(), which does not wait for the row, and
\* goes to the client, unless the client has been told of a timeout.
PassValue ==
  /\ handler = "returned" /\ attached
  /\ auditRow' = IF route.audited /\ user # Nobody /\ Named THEN "pending" ELSE auditRow
  /\ answer' = IF answer = "none" THEN "success" ELSE answer
  /\ handler' = "idle" /\ stage' = "over"
  /\ UNCHANGED <<user, attached, served>>
  /\ UNCHANGED requestVars /\ Elsewhere

PassError ==
  /\ handler = "threw" /\ attached
  /\ answer' = IF answer = "none" THEN "error" ELSE answer
  /\ handler' = "idle" /\ stage' = "over"
  /\ UNCHANGED <<user, attached, served, auditRow>>
  /\ UNCHANGED requestVars /\ Elsewhere

\* TimeoutInterceptor unsubscribes and the handler's promise goes on.  With a key the
\* idempotency interceptor holds a subscription of its own, firstValueFrom's.
TimeOut ==
  /\ stage = "inside" /\ answer = "none"
  /\ answer' = "timeout" /\ attached' = keyed
  /\ UNCHANGED <<stage, user, handler, served, auditRow>>
  /\ UNCHANGED requestVars /\ Elsewhere

(* AuditService.record() never throws. *)
Record ==
  /\ auditRow = "pending"
  /\ auditRow' = "written"
  /\ UNCHANGED <<stage, user, handler, attached, answer, served>>
  /\ UNCHANGED requestVars /\ Elsewhere

FailRecord ==
  /\ auditRow = "pending" /\ losses < MaxLosses
  /\ auditRow' = "lost" /\ losses' = losses + 1
  /\ UNCHANGED <<stage, user, handler, attached, answer, served, status, wasActive>>
  /\ UNCHANGED requestVars

ProcessDies ==
  /\ stage # "new" /\ losses < MaxLosses
  /\ stage # "over" \/ auditRow = "pending" \/ handler # "idle"
  /\ stage' = "dead" /\ handler' = "idle"
  /\ auditRow' = IF auditRow = "pending" THEN "lost" ELSE auditRow
  /\ losses' = losses + 1
  /\ UNCHANGED <<user, attached, answer, served, status, wasActive>>
  /\ UNCHANGED requestVars

-----------------------------------------------------------------------------
\* An administrator blocks the account or takes that back; its owner deletes it.
SetStatus(new) ==
  /\ status # "DELETED" /\ new # status
  /\ status' = new
  /\ wasActive' = (wasActive \/ (stage # "new" /\ new = "ACTIVE"))
  /\ UNCHANGED <<endpoint, bearer, keyed, stage, user, handler, attached, answer, served,
                 auditRow, losses>>

Guard   == CountHit \/ Authenticate \/ CheckRole
Process == Intercept \/ DoWork \/ ThrowError \/ PassValue \/ PassError

NextPipeline ==
  \/ \E who \in Callers, header \in BOOLEAN : Receive(who, header)
  \/ Guard \/ Process \/ TimeOut \/ Record \/ FailRecord \/ ProcessDies
  \/ \E new \in {"ACTIVE", "BLOCKED", "DELETED"} : SetStatus(new)

\* What a running process has begun it goes on with.
FairPipeline == WF_pipelineVars(Guard \/ Process) /\ WF_pipelineVars(Record)

PipelineSpec == InitPipeline /\ [][NextPipeline]_pipelineVars /\ FairPipeline
=============================================================================
