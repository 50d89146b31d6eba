------------------------------- MODULE Throttle -------------------------------
(***************************************************************************)
(* The rate limit of one route: IdentifierThrottlerGuard picks the bucket  *)
(* of a request, and one script in Redis, which nothing can come between,  *)
(* counts the request there and says whether the bucket is blocked.        *)
(***************************************************************************)
EXTENDS Integers, FiniteSets

CONSTANTS
  Ips, Emails, NoEmail,  \* where requests come from, and whom they name in their bodies
  Owners,                \* the accounts, by email, a body's refresh token may belong to
  Crowds,                \* a bound: the sets of pairs of an IP and an email or none that occur
  Limit, Ttl,            \* of the route; ThrottlerGuard blocks for Ttl as well
  Grace,                 \* how long a key outlives its window, a second in the code
  LastMoment             \* bound on the clock

ASSUME ThrottleAssumption ==
  /\ \A c \in Crowds : c \subseteq Ips \X (Emails \cup {NoEmail})
  /\ Ips \cap (Emails \cup {NoEmail}) = {} /\ NoEmail \notin Emails /\ Owners \subseteq Emails
  /\ Limit \in Nat \ {0} /\ Ttl \in Nat \ {0} /\ Grace \in Nat \ {0} /\ LastMoment \in Nat

Strategies == {"ip", "ip-email", "email", "refresh-user"}

VARIABLES
  origins,           \* where requests come from in this behaviour
  strategy,          \* @ThrottleIdentifier() of the route, "ip" without one
  bucket,            \* hashes in Redis, by tracker
  moment,            \* Date.now()
  passed             \* the last Ttl's requests the guard let by: <<origin, moment, number>>

throttleVars == <<origins, strategy, bucket, moment, passed>>

Trackers == Ips \cup Emails \cup (Ips \X (Emails \cup {NoEmail}))
Bucket == [ hits : Nat, expiresAt : Nat, blockExpiresAt : Nat, isBlocked : BOOLEAN ]
NoBucket == [ hits |-> 0, expiresAt |-> 0, blockExpiresAt |-> 0, isBlocked |-> FALSE ]

InitThrottle ==
  /\ origins \in Crowds
  /\ strategy \in Strategies
  /\ bucket = [k \in Trackers |-> NoBucket]
  /\ moment = 0
  /\ passed = {}

-----------------------------------------------------------------------------
(* getTracker() *)

AlwaysIp(ip, email) == ip                    \* mutant: the base class's tracker

\* A body without an address, or with a token nobody owns, falls back to the IP; but the
\* pair of an IP and no address is a tracker of its own.
TrackerOf(ip, email) ==
  CASE strategy = "ip"                               -> ip
    [] strategy = "ip-email"                         -> <<ip, email>>
    [] strategy = "email" /\ email # NoEmail         -> email
    [] strategy = "refresh-user" /\ email \in Owners -> email
    [] OTHER                                         -> ip

-----------------------------------------------------------------------------
(* INCREMENT_SCRIPT *)

Later(a, b) == IF a > b THEN a ELSE b

Counted(old) ==
  LET hits    == IF old.isBlocked THEN old.hits ELSE old.hits + 1
      blocks  == ~old.isBlocked /\ hits > Limit
      until   == IF blocks THEN moment + Ttl ELSE old.blockExpiresAt
      blocked == old.isBlocked \/ blocks
      expires == IF old.expiresAt <= moment THEN moment + Ttl ELSE old.expiresAt
  IN  IF blocked /\ until <= moment
      THEN [ hits |-> 1, expiresAt |-> moment + Ttl, blockExpiresAt |-> 0, isBlocked |-> FALSE ]
      ELSE [ hits |-> hits, expiresAt |-> expires, blockExpiresAt |-> until, isBlocked |-> blocked ]

\* PEXPIREAT: the key goes a second after its window and its block are over.
Expires(k) == moment + 1 >= Later(bucket[k].expiresAt, bucket[k].blockExpiresAt) + Grace

\* A request, counted by the script; the guard refuses those of a blocked bucket.
Hit(ip, email) ==
  LET k == TrackerOf(ip, email) new == Counted(bucket[k])
      by  == <<ip, email>>
  IN  /\ bucket' = [bucket EXCEPT ![k] = new]
      /\ passed' = IF new.isBlocked THEN passed
                   ELSE passed \cup {<<by, moment, Cardinality({p \in passed : p[1] = by})>>}
      /\ UNCHANGED <<origins, strategy, moment>>

\* While Redis is away the guard lets every request by and none is counted: no step here.
PassTime ==
  /\ moment < LastMoment
  /\ moment' = moment + 1
  /\ bucket' = [k \in Trackers |-> IF Expires(k) THEN NoBucket ELSE bucket[k]]
  /\ passed' = { p \in passed : p[2] + Ttl > moment' }
  /\ UNCHANGED <<origins, strategy>>

NextThrottle == PassTime \/ \E origin \in origins : Hit(origin[1], origin[2])

ThrottleSpec == InitThrottle /\ [][NextThrottle]_throttleVars

-----------------------------------------------------------------------------
ThrottleTypeOK ==
  /\ origins \in Crowds
  /\ strategy \in Strategies
  /\ bucket \in [Trackers -> Bucket]
  /\ moment \in 0 .. LastMoment
  /\ passed \subseteq origins \X (0 .. moment) \X Nat

\* Requests let by in the Ttl up to now.
RecentOf(whom) == Cardinality({ p \in passed : p[1] \in whom })

\* Those the documents count together: one address, account, or IP and address; else one IP.
Together(origin) ==
  { other \in origins :
      CASE strategy = "ip"                                     -> other[1] = origin[1]
        [] strategy = "email" /\ origin[2] # NoEmail           -> other[2] = origin[2]
        [] strategy = "refresh-user" /\ origin[2] \in Owners   -> other[2] = origin[2]
        [] OTHER                                               -> other = origin }

\* RedisThrottlerStorage: in no stretch as long as the window do an address, an account
\* or an IP get by twice the limit: its hits are forgotten at most once in it, and not
\* within the window of the first.
BurstBounded == \A origin \in origins : RecentOf(Together(origin)) < 2 * Limit
=============================================================================
