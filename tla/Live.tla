-------------------------------- MODULE Live ---------------------------------
(***************************************************************************)
(* The sockets: how a conversation comes to be, which rooms a socket of    *)
(* /chat and of /bookings joins when it connects, and how what a service   *)
(* has committed is relayed to a room, on every instance, while sockets    *)
(* come and go and instances die.                                          *)
(*                                                                         *)
(* A client and a master have one conversation, so their pair is its id;   *)
(* here they have one booking as well.  The two gateways share nothing, so *)
(* a behaviour is that of one of them.                                     *)
(***************************************************************************)
EXTENDS BookingStateMachine, FiniteSets

CONSTANTS
  Clients, Masters,      \* users with a profile of that kind
  Sockets, OwnerOf, NodeOf,
  Nodes,                 \* instances of the application
  Pairs,                 \* a bound: the pairs of a client and a master that deal with each other
  Engagements,           \* a bound: what their bookings may begin in, by pair
  MaxEvents, MaxDeaths   \* bounds

ASSUME LiveAssumption ==
  /\ Clients \cap Masters = {} /\ Pairs \subseteq Clients \X Masters
  /\ OwnerOf \in [Sockets -> Clients \cup Masters] /\ NodeOf \in [Sockets -> Nodes]
  /\ Engagements \subseteq [Pairs -> Statuses \cup {"NONE"}]
  /\ MaxEvents \in Nat /\ MaxDeaths \in Nat

VARIABLES
  namespace,             \* /chat or /bookings
  engagement,            \* status of the pair's booking
  conversations,         \* rows of conversations
  unread,                \* whom in which conversation a message waits for
  socket,                \* the sockets and their rooms
  events,                \* how many events there have been
  committed,             \* what is committed and not yet emitted, in an instance's memory
  packets,               \* published in Redis and not yet delivered to an instance
  heard, due,            \* which socket has heard what, and should by the API's word
  deaths

liveVars == <<namespace, engagement, conversations, unread, socket, events, committed, packets,
              heard, due, deaths>>

Users == Clients \cup Masters
Party(pair, actor) == IF actor = "CLIENT" THEN pair[1] ELSE pair[2]
Parties(pair) == {pair[1], pair[2]}

\* An event of a booking is named by the status it reaches, but an instant-booked creation.
ChatKinds == {"message", "read", "typing"}
Event == [ number : 1 .. MaxEvents, kind : ChatKinds \cup Statuses \cup {"instant", "location"},
           pair : Pairs, by : Actors, node : Nodes,
           but : SUBSET Sockets ]            \* the sender's socket, which does not hear of it

Phases == {"off", "known", "joining", "on"}
Socket == [ phase : Phases,
            ids : SUBSET Pairs,                  \* as idsFor() found them
            rooms : SUBSET (Pairs \cup Users),
            since : SUBSET Pairs ]               \* its owner's conversations when it connected
Off == [ phase |-> "off", ids |-> {}, rooms |-> {}, since |-> {} ]

InitLive ==
  /\ namespace \in {"/chat", "/bookings"}
  /\ engagement \in Engagements
  /\ conversations \in SUBSET { pair \in Pairs : namespace = "/chat" /\ engagement[pair] # "NONE" }
  /\ unread = conversations \X {"CLIENT"}
  /\ socket = [s \in Sockets |-> Off]
  /\ events = 0 /\ committed = {} /\ packets = {}
  /\ heard = {} /\ due = {} /\ deaths = 0

-----------------------------------------------------------------------------
(* handleConnection() *)

Of(user) == { pair \in conversations : user \in Parties(pair) }

AsClient(user) == { pair \in conversations : user = pair[1] }   \* mutant: one profile looked up
IdsFor(user) == Of(user)

Becomes(s, row) ==
  /\ socket' = [socket EXCEPT ![s] = row]
  /\ UNCHANGED <<engagement, conversations, unread, events, committed, packets,
                 heard, deaths>>

\* The handshake's token is verified and its account read; a refused socket is as one never
\* opened.
Connect(s) ==
  /\ socket[s].phase = "off"
  /\ Becomes(s, [ Off EXCEPT !.phase = "known", !.since = Of(OwnerOf[s]) ])
  /\ UNCHANGED due

ReadIds(s) ==
  /\ namespace = "/chat" /\ socket[s].phase = "known"
  /\ Becomes(s, [ socket[s] EXCEPT !.phase = "joining", !.ids = IdsFor(OwnerOf[s]) ])
  /\ UNCHANGED due

\* One room after another; what is emitted in between reaches those joined so far.
Join(s) ==
  /\ socket[s].phase = "joining"
  /\ \E pair \in socket[s].ids \ socket[s].rooms :
       Becomes(s, [ socket[s] EXCEPT !.rooms = @ \cup {pair} ])
  /\ UNCHANGED due

Joined(s) ==
  /\ socket[s].phase = "joining" /\ socket[s].ids \subseteq socket[s].rooms
  /\ Becomes(s, [ socket[s] EXCEPT !.phase = "on", !.ids = {} ])
  /\ UNCHANGED due

JoinUserRoom(s) ==
  /\ namespace = "/bookings" /\ socket[s].phase = "known"
  /\ Becomes(s, [ socket[s] EXCEPT !.phase = "on", !.rooms = {OwnerOf[s]} ])
  /\ UNCHANGED due

\* By its owner, or as reading the ids has failed.
Disconnect(s) ==
  /\ socket[s].phase # "off"
  /\ Becomes(s, Off)
  /\ due' = { p \in due : p[2] # s }

-----------------------------------------------------------------------------
(* What is committed and then emitted *)

\* onCreated() to onCancelled(): an administrator's cancellation is two events; an instant-booked
\* creation is one for the master and one for the client; nothing hears of an expiry.
Told(kind) ==
  CASE kind \in {"PENDING", "CANCELLED_BY_CLIENT"}   -> {"MASTER"}
    [] kind \in {"instant", "CANCELLED_BY_ADMIN"}    -> {"CLIENT", "MASTER"}
    [] OTHER                                         -> {"CLIENT"}
RoomsFor(e) ==
  IF e.kind \in ChatKinds THEN {e.pair} ELSE { Party(e.pair, a) : a \in Told(e.kind) }

\* A socket that is on should hear of its owner's booking, if another moves it, and of a
\* conversation that was there when it connected, but for its own typing.
Awaits(s, e) ==
  /\ socket[s].phase = "on" /\ s \notin e.but
  /\ IF e.kind \in ChatKinds THEN e.pair \in socket[s].since
     ELSE \E a \in {"CLIENT", "MASTER"} \ {e.by} : OwnerOf[s] = Party(e.pair, a)

Occur(kind, pair, by, n, but) ==
  LET e == [ number |-> events + 1, kind |-> kind, pair |-> pair, by |-> by, node |-> n,
             but |-> but ]
  IN  /\ events < MaxEvents
      /\ events' = events + 1
      /\ committed' = committed \cup {e}
      /\ due' = due \cup { <<e, s>> : s \in { x \in Sockets : Awaits(x, e) } }
      /\ UNCHANGED <<socket, packets, heard, deaths>>

\* findOrCreate(): any booking opens the conversation but an EXPIRED one, and that does too if
\* it has expired since the check read it.
FindOrCreate(pair) ==
  /\ engagement[pair] # "NONE"
  /\ conversations' = conversations \cup {pair}
  /\ UNCHANGED <<engagement, unread, socket, events, committed, packets, heard, due, deaths>>

Send(pair, by, n) ==
  /\ pair \in conversations
  /\ unread' = unread \cup { <<pair, other>> : other \in {"CLIENT", "MASTER"} \ {by} }
  /\ Occur("message", pair, by, n, {})
  /\ UNCHANGED <<engagement, conversations>>

MarkRead(pair, by, n) ==
  /\ <<pair, by>> \in unread
  /\ unread' = unread \ {<<pair, by>>}
  /\ Occur("read", pair, by, n, {})
  /\ UNCHANGED <<engagement, conversations>>

\* The payload's conversation is taken as it is.
Typing(s, pair) ==
  /\ socket[s].phase # "off" /\ pair \in conversations
  /\ Occur("typing", pair, IF OwnerOf[s] \in Clients THEN "CLIENT" ELSE "MASTER", NodeOf[s], {s})
  /\ UNCHANGED <<engagement, conversations, unread>>

Book(pair, n) ==
  /\ engagement[pair] = "NONE"
  /\ \/ engagement' = [engagement EXCEPT ![pair] = "PENDING"]
        /\ Occur("PENDING", pair, "CLIENT", n, {})
     \/ engagement' = [engagement EXCEPT ![pair] = "ACCEPTED"]
        /\ Occur("instant", pair, "SYSTEM", n, {})
  /\ UNCHANGED <<conversations, unread>>

Transit(pair, n) ==
  \E move \in Transitions :
    /\ move[3] # "SYSTEM" /\ engagement[pair] = move[1]
    /\ engagement' = [engagement EXCEPT ![pair] = move[2]]
    /\ Occur(move[2], pair, move[3], n, {})
    /\ UNCHANGED <<conversations, unread>>

Expire(pair) ==
  /\ engagement[pair] = "PENDING"
  /\ engagement' = [engagement EXCEPT ![pair] = "EXPIRED"]
  /\ UNCHANGED <<conversations, unread, socket, events, committed, packets, heard, due,
                 deaths>>

\* handleLocationUpdate(): relayed after the read of the booking has found it the sender's.
SendLocation(s, pair) ==
  /\ socket[s].phase # "off"
  /\ OwnerOf[s] = pair[2] /\ engagement[pair] = "IN_PROGRESS"
  /\ Occur("location", pair, "MASTER", NodeOf[s], {})
  /\ UNCHANGED <<engagement, conversations, unread>>

-----------------------------------------------------------------------------
(* server.to(room).emit() with the Redis adapter *)

Reached(e, n) ==
  { s \in Sockets \ e.but : NodeOf[s] = n /\ RoomsFor(e) \cap socket[s].rooms # {} }
Hear(e, n) ==
  LET news == { <<e, s>> : s \in Reached(e, n) }
  IN  heard' = heard \cup news /\ due' = due \ news

Published(e) == { <<e, n>> : n \in Nodes \ {e.node} }

Relay(e) ==
  /\ e \in committed
  /\ committed' = committed \ {e}
  /\ packets' = packets \cup Published(e)
  /\ Hear(e, e.node)
  /\ UNCHANGED <<engagement, conversations, unread, socket, events, deaths>>

Deliver(packet) ==
  /\ packet \in packets
  /\ packets' = packets \ {packet}
  /\ Hear(packet[1], packet[2])
  /\ UNCHANGED <<engagement, conversations, unread, socket, events, committed, deaths>>

\* Sockets hang on their instance; what it has not emitted is never emitted.
NodeDies(n) ==
  /\ deaths < MaxDeaths
  /\ deaths' = deaths + 1
  /\ socket' = [s \in Sockets |-> IF NodeOf[s] = n THEN Off ELSE socket[s]]
  /\ committed' = { e \in committed : e.node # n }
  /\ packets' = { p \in packets : p[2] # n }
  /\ due' = { p \in due : NodeOf[p[2]] # n /\ ~(p[1] \in committed /\ p[1].node = n) }
  /\ UNCHANGED <<engagement, conversations, unread, events, heard>>

Chatting(pair) ==
  \/ FindOrCreate(pair)
  \/ \E s \in Sockets : Typing(s, pair)
  \/ \E n \in Nodes, by \in {"CLIENT", "MASTER"} : Send(pair, by, n) \/ MarkRead(pair, by, n)

Booking(pair) ==
  \/ Expire(pair)
  \/ \E s \in Sockets : SendLocation(s, pair)
  \/ \E n \in Nodes : Book(pair, n) \/ Transit(pair, n)

NextLive ==
  /\ UNCHANGED namespace
  /\ \/ \E s \in Sockets :
          Connect(s) \/ ReadIds(s) \/ Join(s) \/ Joined(s) \/ JoinUserRoom(s) \/ Disconnect(s)
     \/ \E pair \in Pairs :
          \/ namespace = "/chat" /\ Chatting(pair)
          \/ namespace = "/bookings" /\ Booking(pair)
     \/ \E e \in committed : Relay(e)
     \/ \E p \in packets : Deliver(p)
     \/ \E n \in Nodes : NodeDies(n)

LiveSpec == InitLive /\ [][NextLive]_liveVars

-----------------------------------------------------------------------------
\* Rows, sockets and events keep their shape; nobody talks who never booked.
LiveTypeOK ==
  /\ namespace \in {"/chat", "/bookings"}
  /\ engagement \in [Pairs -> Statuses \cup {"NONE"}]
  /\ conversations \subseteq Pairs
  /\ \A pair \in conversations : engagement[pair] # "NONE"
  /\ unread \subseteq conversations \X {"CLIENT", "MASTER"}
  /\ socket \in [Sockets -> Socket]
  /\ events \in 0 .. MaxEvents
  /\ committed \subseteq Event /\ packets \subseteq Event \X Nodes
  /\ heard \subseteq Event \X Sockets /\ due \subseteq Event \X Sockets
  /\ deaths \in 0 .. MaxDeaths

\* ChatGateway, BookingsGateway: a socket hears all that happens, while it is on, in its
\* owner's conversations as they were when it connected, and to its owner's bookings by
\* another's hand, unless it goes or an instance dies first; and it hears nothing of others'.
RelayReaches ==
  /\ \A p \in due : p[1] \in committed \/ p[1] \in { q[1] : q \in packets }
  /\ \A p \in heard :
       /\ OwnerOf[p[2]] \in Parties(p[1].pair)
       /\ namespace = "/bookings" /\ p[1].by \in {"CLIENT", "MASTER"}
          => OwnerOf[p[2]] # Party(p[1].pair, p[1].by)
=============================================================================
