--------------------------- MODULE BackgroundProofs ---------------------------
(***************************************************************************)
(* Proofs about what runs behind the requests: the sockets hear what they  *)
(* should, the job takes no young file's object, nobody is notified twice  *)
(* of one thing, and a booking made in time is reminded of once.           *)
(***************************************************************************)
EXTENDS Background, TLAPS

-----------------------------------------------------------------------------
(* The sockets *)

\* What an event is and whom it goes to: in /chat to its conversation, in /bookings to the
\* side of the booking that did not cause it.
EventLawful(e) ==
  /\ e.pair \in Pairs /\ e.node \in Nodes /\ e.but \subseteq Sockets
  /\ namespace = "/chat" => e.kind \in ChatKinds
  /\ namespace = "/bookings" =>
       /\ e.kind \notin ChatKinds
       /\ e.by \in {"CLIENT", "MASTER"} => Told(e.kind) = {"CLIENT", "MASTER"} \ {e.by}
       /\ e.by \notin {"CLIENT", "MASTER"} => Told(e.kind) = {"CLIENT", "MASTER"}

\* The rooms of a socket are its owner's, and when it is on it is in all it should be in.
SocketLawful(s) ==
  /\ socket[s] \in Socket
  /\ namespace = "/chat" =>
       /\ \A pair \in socket[s].rooms : pair \in Pairs /\ OwnerOf[s] \in Parties(pair)
       /\ socket[s].ids \subseteq Of(OwnerOf[s]) /\ socket[s].since \subseteq Of(OwnerOf[s])
       /\ socket[s].phase = "joining" => socket[s].since \subseteq socket[s].ids
       /\ socket[s].phase = "on" => socket[s].since \subseteq socket[s].rooms
  /\ namespace = "/bookings" =>
       /\ socket[s].rooms \subseteq {OwnerOf[s]} /\ socket[s].phase # "joining"
       /\ socket[s].phase = "on" => OwnerOf[s] \in socket[s].rooms

\* What a socket is due is on its way to its instance, and will find it in a room.
Underway(e, s) ==
  /\ e \in committed \/ <<e, NodeOf[s]>> \in packets
  /\ s \notin e.but /\ RoomsFor(e) \cap socket[s].rooms # {}
  /\ socket[s].phase = "on"

\* What a socket has heard was its owner's to hear.
Owned(e, s) ==
  /\ OwnerOf[s] \in Parties(e.pair)
  /\ namespace = "/bookings" /\ e.by \in {"CLIENT", "MASTER"} => OwnerOf[s] # Party(e.pair, e.by)

SocketsLawful == socket \in [Sockets -> Socket] /\ \A s \in Sockets : SocketLawful(s)
EventsLawful ==
  /\ \A e \in committed : EventLawful(e)
  /\ \A p \in packets : EventLawful(p[1])
DueUnderway == \A p \in due : p = <<p[1], p[2]>> /\ p[2] \in Sockets /\ Underway(p[1], p[2])
HeardOwned  == \A p \in heard : Owned(p[1], p[2])

LiveInv ==
  /\ namespace \in {"/chat", "/bookings"} /\ conversations \subseteq Pairs
  /\ SocketsLawful /\ EventsLawful /\ DueUnderway /\ HeardOwned

LEMMA RoomIsOwners ==
  ASSUME LiveAssumption, namespace \in {"/chat", "/bookings"},
         NEW e, NEW s \in Sockets, EventLawful(e), SocketLawful(s),
         RoomsFor(e) \cap socket[s].rooms # {}
  PROVE  Owned(e, s)
<1>1. PICK room \in socket[s].rooms : room \in RoomsFor(e)
  OBVIOUS
<1>2. CASE namespace = "/chat"
  <2>1. RoomsFor(e) = {e.pair}
    BY <1>2 DEF EventLawful, RoomsFor
  <2>2. OwnerOf[s] \in Parties(e.pair)
    BY <1>1, <1>2, <2>1 DEF SocketLawful
  <2> QED
    BY <1>2, <2>2 DEF Owned
<1>3. CASE namespace = "/bookings"
  <2>1. RoomsFor(e) = { Party(e.pair, a) : a \in Told(e.kind) }
    BY <1>3 DEF EventLawful, RoomsFor
  <2>2. PICK a \in Told(e.kind) : OwnerOf[s] = Party(e.pair, a)
    BY <1>1, <1>3, <2>1 DEF SocketLawful
  <2>3. a \in {"CLIENT", "MASTER"}
    BY <2>2, <1>3 DEF EventLawful
  <2>4. Party(e.pair, "CLIENT") # Party(e.pair, "MASTER")
    <3>1. e.pair \in Clients \X Masters
      BY DEF EventLawful, LiveAssumption
    <3> QED
      BY <3>1 DEF LiveAssumption, Party
  <2>5. OwnerOf[s] \in Parties(e.pair)
    BY <2>2, <2>3 DEF Parties, Party
  <2>6. e.by \in {"CLIENT", "MASTER"} => a # e.by
    BY <2>2, <1>3 DEF EventLawful
  <2> QED
    BY <2>2, <2>3, <2>4, <2>5, <2>6 DEF Owned
<1> QED
  BY <1>2, <1>3

LEMMA AwaitedIsReached ==
  ASSUME LiveAssumption, namespace \in {"/chat", "/bookings"},
         NEW e, NEW s \in Sockets, EventLawful(e), SocketLawful(s), Awaits(s, e)
  PROVE  /\ s \notin e.but /\ socket[s].phase = "on"
         /\ RoomsFor(e) \cap socket[s].rooms # {}
<1>1. CASE namespace = "/chat"
  <2>1. RoomsFor(e) = {e.pair} /\ e.pair \in socket[s].since
    BY <1>1 DEF EventLawful, RoomsFor, Awaits
  <2> QED
    BY <1>1, <2>1 DEF SocketLawful, Awaits
<1>2. CASE namespace = "/bookings"
  <2>1. RoomsFor(e) = { Party(e.pair, a) : a \in Told(e.kind) } /\ e.kind \notin ChatKinds
    BY <1>2 DEF EventLawful, RoomsFor
  <2>2. PICK a \in {"CLIENT", "MASTER"} \ {e.by} : OwnerOf[s] = Party(e.pair, a)
    BY <2>1 DEF Awaits
  <2>3. a \in Told(e.kind)
    BY <1>2, <2>2 DEF EventLawful
  <2>4. OwnerOf[s] \in socket[s].rooms
    BY <1>2 DEF SocketLawful, Awaits
  <2> QED
    BY <2>1, <2>2, <2>3, <2>4 DEF Awaits
<1> QED
  BY <1>1, <1>2

\* Each legal transition a request makes is told to the sides that did not make it.
LEMMA TransitionsTold ==
  ASSUME NEW move \in Transitions, move[3] # "SYSTEM"
  PROVE  /\ move[2] \notin ChatKinds
         /\ move[3] \in {"CLIENT", "MASTER"} => Told(move[2]) = {"CLIENT", "MASTER"} \ {move[3]}
         /\ move[3] \notin {"CLIENT", "MASTER"} => Told(move[2]) = {"CLIENT", "MASTER"}
BY DEF Transitions, Told, ChatKinds

LEMMA OthersTold ==
  /\ Told("PENDING") = {"CLIENT", "MASTER"} \ {"CLIENT"}
  /\ Told("instant") = {"CLIENT", "MASTER"}
  /\ Told("location") = {"CLIENT", "MASTER"} \ {"MASTER"}
  /\ {"PENDING", "instant", "location"} \cap ChatKinds = {}
BY DEF Told, ChatKinds

-----------------------------------------------------------------------------
(* Each step of the sockets *)

LEMMA SocketStays ==
  ASSUME NEW s \in Sockets, SocketLawful(s), UNCHANGED <<socket, namespace>>,
         conversations \subseteq conversations'
  PROVE  SocketLawful(s)'
<1>1. Of(OwnerOf[s]) \subseteq Of(OwnerOf[s])'
  BY DEF Of
<1> QED
  BY <1>1 DEF SocketLawful

LEMMA OccurKept ==
  ASSUME LiveAssumption, LiveInv, UNCHANGED namespace,
         NEW kind, NEW pair \in Pairs, NEW by, NEW n \in Nodes, NEW but \in SUBSET Sockets,
         Occur(kind, pair, by, n, but),
         namespace = "/chat" => kind \in ChatKinds,
         namespace = "/bookings" =>
           /\ kind \notin ChatKinds
           /\ by \in {"CLIENT", "MASTER"} => Told(kind) = {"CLIENT", "MASTER"} \ {by}
           /\ by \notin {"CLIENT", "MASTER"} => Told(kind) = {"CLIENT", "MASTER"},
         conversations' \subseteq Pairs, conversations \subseteq conversations'
  PROVE  LiveInv'
<1> DEFINE e == [ number |-> events + 1, kind |-> kind, pair |-> pair, by |-> by, node |-> n,
                  but |-> but ]
<1>1. /\ committed' = committed \cup {e}
      /\ due' = due \cup { <<e, s>> : s \in { x \in Sockets : Awaits(x, e) } }
      /\ UNCHANGED <<socket, packets, heard>>
  BY DEF Occur
<1>2. EventLawful(e)
  BY DEF EventLawful
<1> HIDE DEF e
<1>3. SocketsLawful'
  BY <1>1, SocketStays DEF LiveInv, SocketsLawful
<1>4. \A x : EventLawful(x) => EventLawful(x)'
  BY DEF EventLawful
<1>5. EventsLawful'
  BY <1>1, <1>2, <1>4 DEF LiveInv, EventsLawful
<1>6. DueUnderway'
  <2> SUFFICES ASSUME NEW p \in due'
               PROVE  p = <<p[1], p[2]>> /\ p[2] \in Sockets /\ Underway(p[1], p[2])'
    BY DEF DueUnderway
  <2>1. CASE p \in due
    BY <2>1, <1>1 DEF LiveInv, DueUnderway, Underway
  <2>2. CASE p \notin due
    <3>1. PICK s \in Sockets : Awaits(s, e) /\ p = <<e, s>>
      BY <2>2, <1>1
    <3>2. /\ s \notin e.but /\ socket[s].phase = "on"
          /\ RoomsFor(e) \cap socket[s].rooms # {}
      BY <3>1, <1>2, AwaitedIsReached DEF LiveInv, SocketsLawful
    <3> QED
      BY <3>1, <3>2, <1>1 DEF Underway
  <2> QED
    BY <2>1, <2>2
<1>7. HeardOwned'
  BY <1>1 DEF LiveInv, HeardOwned, Owned
<1> QED
  BY <1>3, <1>5, <1>6, <1>7 DEF LiveInv

\* A socket that is not on is due nothing, so whatever becomes of it is well.
LEMMA BecomesKept ==
  ASSUME LiveInv, UNCHANGED namespace, NEW s \in Sockets, NEW row \in Socket,
         Becomes(s, row), SocketLawful(s)',
         \/ socket[s].phase # "on" /\ UNCHANGED due
         \/ due' = { p \in due : p[2] # s }
  PROVE  LiveInv'
<1>1. /\ socket' = [socket EXCEPT ![s] = row]
      /\ UNCHANGED <<conversations, committed, packets, heard>>
  BY DEF Becomes
<1>2. socket' \in [Sockets -> Socket] /\ \A x \in Sockets \ {s} : socket'[x] = socket[x]
  BY <1>1 DEF LiveInv, SocketsLawful
<1>3. SocketsLawful'
  <2>1. ASSUME NEW x \in Sockets \ {s} PROVE SocketLawful(x)'
    BY <1>1, <1>2 DEF LiveInv, SocketsLawful, SocketLawful, Of
  <2> QED
    BY <1>2, <2>1 DEF SocketsLawful
<1>4. EventsLawful' /\ HeardOwned'
  BY <1>1 DEF LiveInv, EventsLawful, EventLawful, HeardOwned, Owned
<1>5. DueUnderway'
  <2> SUFFICES ASSUME NEW p \in due'
               PROVE  p = <<p[1], p[2]>> /\ p[2] \in Sockets /\ Underway(p[1], p[2])'
    BY DEF DueUnderway
  <2>1. p \in due /\ p = <<p[1], p[2]>> /\ p[2] \in Sockets /\ Underway(p[1], p[2])
    BY DEF LiveInv, DueUnderway
  <2>2. p[2] # s
    BY <2>1 DEF Underway
  <2> QED
    BY <1>1, <1>2, <2>1, <2>2 DEF Underway
<1> QED
  BY <1>1, <1>3, <1>4, <1>5 DEF LiveInv

LEMMA ConnectKept ==
  ASSUME LiveInv, UNCHANGED namespace, NEW s \in Sockets,
         \/ Connect(s) \/ ReadIds(s) \/ Join(s) \/ Joined(s) \/ JoinUserRoom(s) \/ Disconnect(s)
  PROVE  LiveInv'
<1>0. socket \in [Sockets -> Socket] /\ SocketLawful(s)
      /\ namespace \in {"/chat", "/bookings"} /\ conversations \subseteq Pairs
  BY DEF LiveInv, SocketsLawful
<1>1. Off \in Socket
  BY DEF Off, Socket, Phases
<1>2. CASE Connect(s)
  <2> DEFINE row == [ Off EXCEPT !.phase = "known", !.since = Of(OwnerOf[s]) ]
  <2>0. Of(OwnerOf[s]) \in SUBSET Pairs
    BY <1>0 DEF Of
  <2>1. /\ row \in Socket /\ row.phase = "known" /\ row.ids = Off.ids /\ row.rooms = Off.rooms
        /\ row.since = Of(OwnerOf[s])
    BY <1>1, <2>0 DEF Socket, Phases
  <2>2. Becomes(s, row) /\ socket[s].phase # "on" /\ UNCHANGED due
    BY <1>2 DEF Connect
  <2>3. socket'[s] = row /\ UNCHANGED conversations
    BY <1>0, <2>2 DEF Becomes
  <2> HIDE DEF row
  <2>4. SocketLawful(s)'
    BY <1>0, <2>1, <2>3 DEF SocketLawful, Of, Off
  <2> QED
    BY <2>1, <2>2, <2>4, BecomesKept
<1>3. CASE ReadIds(s)
  <2> DEFINE row == [ socket[s] EXCEPT !.phase = "joining", !.ids = IdsFor(OwnerOf[s]) ]
  <2>1. /\ row \in Socket /\ row.phase = "joining" /\ row.ids = Of(OwnerOf[s])
        /\ row.rooms = socket[s].rooms /\ row.since = socket[s].since
    BY <1>0 DEF Socket, Phases, Of, IdsFor
  <2>2. Becomes(s, row) /\ socket[s].phase # "on" /\ UNCHANGED due /\ namespace = "/chat"
    BY <1>3 DEF ReadIds
  <2>3. socket'[s] = row /\ UNCHANGED conversations
    BY <1>0, <2>2 DEF Becomes
  <2> HIDE DEF row
  <2>4. SocketLawful(s)'
    BY <1>0, <2>1, <2>2, <2>3 DEF SocketLawful, Of
  <2> QED
    BY <2>1, <2>2, <2>4, BecomesKept
<1>4. CASE Join(s)
  <2>1. PICK pair \in socket[s].ids \ socket[s].rooms :
          Becomes(s, [ socket[s] EXCEPT !.rooms = @ \cup {pair} ])
    BY <1>4 DEF Join
  <2> DEFINE row == [ socket[s] EXCEPT !.rooms = @ \cup {pair} ]
  <2>2. /\ row \in Socket /\ row.phase = "joining" /\ row.ids = socket[s].ids
        /\ row.rooms = socket[s].rooms \cup {pair} /\ row.since = socket[s].since
    BY <1>0, <1>4, <2>1 DEF Socket, Phases, Join
  <2>3. socket[s].phase = "joining" /\ UNCHANGED due /\ namespace = "/chat"
    BY <1>0, <1>4 DEF Join, SocketLawful
  <2>4. socket'[s] = row /\ UNCHANGED conversations
    BY <1>0, <2>1 DEF Becomes
  <2>5. pair \in Pairs /\ OwnerOf[s] \in Parties(pair)
    BY <1>0, <2>1, <2>3 DEF SocketLawful, Of
  <2>6. Becomes(s, row)
    BY <2>1
  <2> HIDE DEF row
  <2>7. SocketLawful(s)'
    BY <1>0, <2>2, <2>3, <2>4, <2>5 DEF SocketLawful, Of
  <2> QED
    BY <2>2, <2>3, <2>6, <2>7, BecomesKept
<1>5. CASE Joined(s)
  <2> DEFINE row == [ socket[s] EXCEPT !.phase = "on", !.ids = {} ]
  <2>1. /\ row \in Socket /\ row.phase = "on" /\ row.ids = {}
        /\ row.rooms = socket[s].rooms /\ row.since = socket[s].since
    BY <1>0 DEF Socket, Phases
  <2>2. /\ Becomes(s, row) /\ socket[s].phase = "joining" /\ UNCHANGED due /\ namespace = "/chat"
        /\ socket[s].ids \subseteq socket[s].rooms
    BY <1>0, <1>5 DEF Joined, SocketLawful
  <2>3. socket'[s] = row /\ UNCHANGED conversations
    BY <1>0, <2>2 DEF Becomes
  <2> HIDE DEF row
  <2>4. SocketLawful(s)'
    BY <1>0, <2>1, <2>2, <2>3 DEF SocketLawful, Of
  <2> QED
    BY <2>1, <2>2, <2>4, BecomesKept
<1>6. CASE JoinUserRoom(s)
  <2> DEFINE row == [ socket[s] EXCEPT !.phase = "on", !.rooms = {OwnerOf[s]} ]
  <2>1. /\ row.phase = "on" /\ row.ids = socket[s].ids
        /\ row.rooms = {OwnerOf[s]} /\ row.since = socket[s].since
    BY <1>0 DEF Socket, Phases
  <2>2. OwnerOf[s] \in Users => row \in Socket
    BY <1>0 DEF Socket, Phases
  <2>3. Becomes(s, row) /\ socket[s].phase = "known" /\ UNCHANGED due /\ namespace = "/bookings"
    BY <1>6 DEF JoinUserRoom
  <2>4. socket'[s] = row /\ UNCHANGED conversations
    BY <1>0, <2>3 DEF Becomes
  <2>5. OwnerOf[s] \in Users
    BY LiveAssumption DEF LiveAssumption, Users
  <2> HIDE DEF row
  <2>6. SocketLawful(s)'
    BY <1>0, <2>1, <2>2, <2>3, <2>4, <2>5 DEF SocketLawful, Of
  <2> QED
    BY <2>2, <2>3, <2>5, <2>6, BecomesKept
<1>7. CASE Disconnect(s)
  <2>1. Becomes(s, Off) /\ due' = { p \in due : p[2] # s }
    BY <1>7 DEF Disconnect
  <2>2. socket'[s] = Off /\ UNCHANGED conversations
    BY <1>0, <2>1 DEF Becomes
  <2>3. SocketLawful(s)'
    BY <1>0, <1>1, <2>2 DEF SocketLawful, Off
  <2> QED
    BY <1>1, <2>1, <2>3, BecomesKept
<1> QED
  BY <1>2, <1>3, <1>4, <1>5, <1>6, <1>7

LEMMA ChattingKept ==
  ASSUME LiveInv, UNCHANGED namespace, namespace = "/chat", NEW pair \in Pairs, Chatting(pair)
  PROVE  LiveInv'
<1>0. conversations \subseteq Pairs /\ {"message", "read", "typing"} \subseteq ChatKinds
  BY DEF LiveInv, ChatKinds
<1>1. CASE FindOrCreate(pair)
  <2>1. /\ conversations' = conversations \cup {pair}
        /\ UNCHANGED <<socket, committed, packets, heard, due>>
    BY <1>1 DEF FindOrCreate
  <2>2. SocketsLawful'
    BY <2>1, SocketStays DEF LiveInv, SocketsLawful
  <2>3. EventsLawful' /\ DueUnderway' /\ HeardOwned'
    BY <2>1 DEF LiveInv, EventsLawful, EventLawful, DueUnderway, Underway, HeardOwned, Owned
  <2> QED
    BY <2>1, <2>2, <2>3 DEF LiveInv
<1>2. ASSUME NEW s \in Sockets, Typing(s, pair) PROVE LiveInv'
  <2>1. NodeOf[s] \in Nodes
    BY LiveAssumption DEF LiveAssumption
  <2>2. PICK by : Occur("typing", pair, by, NodeOf[s], {s}) /\ UNCHANGED conversations
    BY <1>2 DEF Typing
  <2> QED
    BY <1>0, <2>1, <2>2, OccurKept, LiveAssumption
<1>3. ASSUME NEW n \in Nodes, NEW by \in {"CLIENT", "MASTER"}, Send(pair, by, n) \/ MarkRead(pair, by, n)
      PROVE  LiveInv'
  <2>1. PICK kind \in {"message", "read"} :
          Occur(kind, pair, by, n, {}) /\ UNCHANGED conversations
    BY <1>3 DEF Send, MarkRead
  <2> QED
    BY <1>0, <2>1, OccurKept, LiveAssumption
<1> QED
  BY <1>1, <1>2, <1>3 DEF Chatting

LEMMA BookingKept ==
  ASSUME LiveInv, UNCHANGED namespace, namespace = "/bookings", NEW pair \in Pairs, Booking(pair)
  PROVE  LiveInv'
<1>0. conversations \subseteq Pairs
  BY DEF LiveInv
<1>1. CASE Expire(pair)
  <2>1. UNCHANGED <<conversations, socket, committed, packets, heard, due>>
    BY <1>1 DEF Expire
  <2>2. SocketsLawful'
    BY <2>1, SocketStays DEF LiveInv, SocketsLawful
  <2>3. EventsLawful' /\ DueUnderway' /\ HeardOwned'
    BY <2>1 DEF LiveInv, EventsLawful, EventLawful, DueUnderway, Underway, HeardOwned, Owned
  <2> QED
    BY <2>1, <2>2, <2>3 DEF LiveInv
<1>2. ASSUME NEW s \in Sockets, SendLocation(s, pair) PROVE LiveInv'
  <2>1. NodeOf[s] \in Nodes
    BY LiveAssumption DEF LiveAssumption
  <2>2. Occur("location", pair, "MASTER", NodeOf[s], {}) /\ UNCHANGED conversations
    BY <1>2 DEF SendLocation
  <2> QED
    BY <1>0, <2>1, <2>2, OthersTold, OccurKept, LiveAssumption
<1>3. ASSUME NEW n \in Nodes, Book(pair, n) PROVE LiveInv'
  <2>1. UNCHANGED conversations
    BY <1>3 DEF Book
  <2>2. CASE Occur("PENDING", pair, "CLIENT", n, {})
    BY <1>0, <2>1, <2>2, OthersTold, OccurKept, LiveAssumption
  <2>3. CASE Occur("instant", pair, "SYSTEM", n, {})
    BY <1>0, <2>1, <2>3, OthersTold, OccurKept, LiveAssumption
  <2> QED
    BY <1>3, <2>2, <2>3 DEF Book
<1>4. ASSUME NEW n \in Nodes, Transit(pair, n) PROVE LiveInv'
  <2>1. PICK move \in Transitions : /\ move[3] # "SYSTEM" /\ UNCHANGED conversations
                                    /\ Occur(move[2], pair, move[3], n, {})
    BY <1>4 DEF Transit
  <2> QED
    BY <1>0, <2>1, TransitionsTold, OccurKept, LiveAssumption
<1> QED
  BY <1>1, <1>2, <1>3, <1>4 DEF Booking

-----------------------------------------------------------------------------
(* Relaying *)

\* What reaches an instance reaches its sockets that are due it, and its owners only.
LEMMA HearKept ==
  ASSUME LiveInv, UNCHANGED <<namespace, conversations, socket>>, NEW e, EventLawful(e), NEW n,
         Hear(e, n), committed' \subseteq committed,
         \A p \in packets' : p \in packets \/ p[1] = e,
         \A p \in due : p[2] \in Sockets /\ Underway(p[1], p[2])
           => \/ p[1] = e /\ NodeOf[p[2]] = n
              \/ p[1] \in committed' \/ <<p[1], NodeOf[p[2]]>> \in packets'
  PROVE  LiveInv'
<1> DEFINE news == { <<e, s>> : s \in Reached(e, n) }
<1>1. heard' = heard \cup news /\ due' = due \ news
  BY DEF Hear
<1>2. \A x : EventLawful(x) => EventLawful(x)'
  BY DEF EventLawful
<1>3. SocketsLawful'
  BY SocketStays DEF LiveInv, SocketsLawful
<1>4. EventsLawful'
  BY <1>2 DEF LiveInv, EventsLawful
<1>5. DueUnderway'
  <2> SUFFICES ASSUME NEW p \in due'
               PROVE  p = <<p[1], p[2]>> /\ p[2] \in Sockets /\ Underway(p[1], p[2])'
    BY DEF DueUnderway
  <2>1. p \in due /\ p \notin news
    BY <1>1
  <2>2. p = <<p[1], p[2]>> /\ p[2] \in Sockets /\ Underway(p[1], p[2])
    BY <2>1 DEF LiveInv, DueUnderway
  <2>3. ~(p[1] = e /\ NodeOf[p[2]] = n)
    <3> SUFFICES ASSUME p[1] = e, NodeOf[p[2]] = n PROVE FALSE
      OBVIOUS
    <3>1. p[2] \in Reached(e, n)
      BY <2>2 DEF Reached, Underway
    <3> QED
      BY <2>1, <2>2, <3>1
  <2> QED
    BY <2>1, <2>2, <2>3 DEF Underway, RoomsFor
<1>6. HeardOwned'
  <2>1. \A s \in Reached(e, n) : Owned(e, s)
    BY RoomIsOwners, LiveAssumption DEF Reached, LiveInv, SocketsLawful
  <2>2. \A p \in news : Owned(p[1], p[2])
    BY <2>1
  <2> QED
    BY <1>1, <2>2 DEF LiveInv, HeardOwned, Owned
<1> QED
  BY <1>3, <1>4, <1>5, <1>6 DEF LiveInv

LEMMA RelayKept ==
  ASSUME LiveInv, UNCHANGED namespace, NEW e \in committed, Relay(e)
  PROVE  LiveInv'
<1>1. /\ committed' = committed \ {e} /\ packets' = packets \cup Published(e)
      /\ Hear(e, e.node) /\ UNCHANGED <<conversations, socket>>
  BY DEF Relay
<1>2. EventLawful(e)
  BY DEF LiveInv, EventsLawful
<1>3. \A p \in packets' : p \in packets \/ p[1] = e
  BY <1>1 DEF Published
<1>4. ASSUME NEW p \in due, p[2] \in Sockets, Underway(p[1], p[2])
      PROVE  \/ p[1] = e /\ NodeOf[p[2]] = e.node
             \/ p[1] \in committed' \/ <<p[1], NodeOf[p[2]]>> \in packets'
  <2>1. NodeOf[p[2]] \in Nodes
    BY <1>4, LiveAssumption DEF LiveAssumption
  <2> QED
    BY <1>1, <1>4, <2>1 DEF Underway, Published
<1> QED
  BY <1>1, <1>2, <1>3, <1>4, HearKept

LEMMA DeliverKept ==
  ASSUME LiveInv, UNCHANGED namespace, NEW packet \in packets, Deliver(packet)
  PROVE  LiveInv'
<1>1. /\ packets' = packets \ {packet} /\ Hear(packet[1], packet[2])
      /\ UNCHANGED <<conversations, socket, committed>>
  BY DEF Deliver
<1>2. EventLawful(packet[1])
  BY DEF LiveInv, EventsLawful
<1>3. ASSUME NEW p \in due, p[2] \in Sockets, Underway(p[1], p[2])
      PROVE  \/ p[1] = packet[1] /\ NodeOf[p[2]] = packet[2]
             \/ p[1] \in committed' \/ <<p[1], NodeOf[p[2]]>> \in packets'
  BY <1>1, <1>3 DEF Underway
<1> QED
  BY <1>1, <1>2, <1>3, HearKept

LEMMA NodeDiesKept ==
  ASSUME LiveInv, UNCHANGED namespace, NEW n \in Nodes, NodeDies(n)
  PROVE  LiveInv'
<1>1. /\ socket' = [s \in Sockets |-> IF NodeOf[s] = n THEN Off ELSE socket[s]]
      /\ committed' = { e \in committed : e.node # n }
      /\ packets' = { p \in packets : p[2] # n }
      /\ due' = { p \in due : NodeOf[p[2]] # n /\ ~(p[1] \in committed /\ p[1].node = n) }
      /\ UNCHANGED <<conversations, heard>>
  BY DEF NodeDies
<1>2. Off \in Socket
  BY DEF Off, Socket, Phases
<1>3. SocketsLawful'
  <2>1. ASSUME NEW s \in Sockets PROVE SocketLawful(s)'
    <3>1. CASE NodeOf[s] = n
      <4>1. socket'[s] = Off
        BY <1>1, <3>1
      <4> QED
        BY <1>2, <4>1 DEF SocketLawful, Off
    <3>2. CASE NodeOf[s] # n
      <4>1. socket'[s] = socket[s]
        BY <1>1, <3>2
      <4> QED
        BY <1>1, <4>1 DEF SocketLawful, LiveInv, SocketsLawful, Of
    <3> QED
      BY <3>1, <3>2
  <2>2. socket' \in [Sockets -> Socket]
    BY <1>1, <1>2 DEF LiveInv, SocketsLawful
  <2> QED
    BY <2>1, <2>2 DEF SocketsLawful
<1>4. EventsLawful' /\ HeardOwned'
  BY <1>1 DEF LiveInv, EventsLawful, EventLawful, HeardOwned, Owned
<1>5. DueUnderway'
  <2> SUFFICES ASSUME NEW p \in due'
               PROVE  p = <<p[1], p[2]>> /\ p[2] \in Sockets /\ Underway(p[1], p[2])'
    BY DEF DueUnderway
  <2>1. p \in due /\ NodeOf[p[2]] # n /\ ~(p[1] \in committed /\ p[1].node = n)
    BY <1>1
  <2>2. p = <<p[1], p[2]>> /\ p[2] \in Sockets /\ Underway(p[1], p[2])
    BY <2>1 DEF LiveInv, DueUnderway
  <2>3. socket'[p[2]] = socket[p[2]]
    BY <1>1, <2>1, <2>2
  <2> QED
    BY <1>1, <2>1, <2>2, <2>3 DEF Underway
<1> QED
  BY <1>1, <1>3, <1>4, <1>5 DEF LiveInv

LEMMA LiveKept ==
  ASSUME LiveInv, [NextLive]_liveVars
  PROVE  LiveInv'
<1>1. CASE UNCHANGED liveVars
  BY <1>1 DEF liveVars, LiveInv, SocketsLawful, SocketLawful, Of, EventsLawful, EventLawful,
              DueUnderway, Underway, HeardOwned, Owned
<1>2. CASE NextLive
  <2>1. UNCHANGED namespace
    BY <1>2 DEF NextLive
  <2>2. CASE \E s \in Sockets :
               Connect(s) \/ ReadIds(s) \/ Join(s) \/ Joined(s) \/ JoinUserRoom(s) \/ Disconnect(s)
    BY <2>1, <2>2, ConnectKept
  <2>3. CASE \E pair \in Pairs : namespace = "/chat" /\ Chatting(pair)
    BY <2>1, <2>3, ChattingKept
  <2>4. CASE \E pair \in Pairs : namespace = "/bookings" /\ Booking(pair)
    BY <2>1, <2>4, BookingKept
  <2>5. CASE \E e \in committed : Relay(e)
    BY <2>1, <2>5, RelayKept
  <2>6. CASE \E p \in packets : Deliver(p)
    BY <2>1, <2>6, DeliverKept
  <2>7. CASE \E n \in Nodes : NodeDies(n)
    BY <2>1, <2>7, NodeDiesKept
  <2> QED
    BY <1>2, <2>2, <2>3, <2>4, <2>5, <2>6, <2>7 DEF NextLive
<1> QED
  BY <1>1, <1>2

LEMMA LiveStarts ==
  ASSUME InitLive
  PROVE  LiveInv
<1>1. Off \in Socket
  BY DEF Off, Socket, Phases
<1>2. SocketsLawful
  <2>1. \A s \in Sockets : socket[s] = Off
    BY DEF InitLive
  <2>2. \A s \in Sockets : SocketLawful(s)
    BY <1>1, <2>1 DEF SocketLawful, Off
  <2> QED
    BY <1>1, <2>2 DEF SocketsLawful, InitLive
<1> QED
  BY <1>2 DEF InitLive, LiveInv, EventsLawful, DueUnderway, HeardOwned

LEMMA LiveEnough == LiveInv => RelayReaches
<1> SUFFICES ASSUME LiveInv PROVE RelayReaches
  OBVIOUS
<1>1. \A p \in due : p[1] \in committed \/ p[1] \in { q[1] : q \in packets }
  <2> SUFFICES ASSUME NEW p \in due, p[1] \notin committed
               PROVE  p[1] \in { q[1] : q \in packets }
    OBVIOUS
  <2>1. <<p[1], NodeOf[p[2]]>> \in packets
    BY DEF LiveInv, DueUnderway, Underway
  <2>2. <<p[1], NodeOf[p[2]]>>[1] = p[1]
    OBVIOUS
  <2> QED
    BY <2>1, <2>2
<1> QED
  BY <1>1 DEF RelayReaches, LiveInv, HeardOwned, Owned

\* ChatGateway, BookingsGateway: whatever sockets join and leave, instances die and packets
\* wait, a socket that stays on is not passed over, and none hears what is not its owner's.
THEOREM SocketsHear == LiveSpec => []RelayReaches
<1>1. InitLive => LiveInv
  BY LiveStarts
<1>2. LiveInv /\ [NextLive]_liveVars => LiveInv'
  BY LiveKept
<1> QED
  BY <1>1, <1>2, LiveEnough, PTL DEF LiveSpec

-----------------------------------------------------------------------------
(* The shape of what the sockets keep *)

Kinds == ChatKinds \cup Statuses \cup {"instant", "location"}

\* What of the shape an action that lets an event occur may disturb by that.
EventsShape ==
  /\ events \in 0 .. MaxEvents
  /\ committed \subseteq Event /\ packets \subseteq Event \X Nodes
  /\ heard \subseteq Event \X Sockets /\ due \subseteq Event \X Sockets
  /\ deaths \in 0 .. MaxDeaths
TalksShape ==
  /\ engagement \in [Pairs -> Statuses \cup {"NONE"}]
  /\ \A pair \in conversations : engagement[pair] # "NONE"
  /\ unread \subseteq conversations \X {"CLIENT", "MASTER"}

LEMMA LiveTypeIs ==
  LiveInv /\ EventsShape /\ TalksShape => LiveTypeOK
BY DEF LiveTypeOK, LiveInv, SocketsLawful, EventsShape, TalksShape

LEMMA OccurShaped ==
  ASSUME EventsShape, NEW kind \in Kinds, NEW pair \in Pairs, NEW by \in Actors, NEW n \in Nodes,
         NEW but \in SUBSET Sockets, Occur(kind, pair, by, n, but)
  PROVE  EventsShape'
<1> DEFINE e == [ number |-> events + 1, kind |-> kind, pair |-> pair, by |-> by, node |-> n,
                  but |-> but ]
<1>1. MaxEvents \in Nat /\ MaxDeaths \in Nat
  BY LiveAssumption DEF LiveAssumption
<1>2. /\ events < MaxEvents /\ events' = events + 1
      /\ committed' = committed \cup {e}
      /\ due' = due \cup { <<e, s>> : s \in { x \in Sockets : Awaits(x, e) } }
      /\ UNCHANGED <<socket, packets, heard, deaths>>
  BY DEF Occur
<1>3. events + 1 \in 1 .. MaxEvents
  BY <1>1, <1>2 DEF EventsShape
<1>4. e \in Event
  BY <1>3 DEF Event, Kinds
<1> HIDE DEF e
<1>5. committed' \subseteq Event /\ packets' \subseteq Event \X Nodes /\ heard' \subseteq Event \X Sockets
  BY <1>2, <1>4 DEF EventsShape
<1>6. due' \subseteq Event \X Sockets
  BY <1>2, <1>4 DEF EventsShape
<1>7. events' \in 0 .. MaxEvents /\ deaths' \in 0 .. MaxDeaths
  BY <1>1, <1>2, <1>3 DEF EventsShape
<1> QED
  BY <1>5, <1>6, <1>7 DEF EventsShape

LEMMA SocketShaped ==
  ASSUME EventsShape, TalksShape, NEW s \in Sockets,
         Connect(s) \/ ReadIds(s) \/ Join(s) \/ Joined(s) \/ JoinUserRoom(s) \/ Disconnect(s)
  PROVE  EventsShape' /\ TalksShape'
<1>1. UNCHANGED <<engagement, conversations, unread, events, committed, packets, heard, deaths>>
      /\ due' \subseteq due
  BY DEF Connect, ReadIds, Join, Joined, JoinUserRoom, Disconnect, Becomes
<1> QED
  BY <1>1 DEF EventsShape, TalksShape

LEMMA ChattingShaped ==
  ASSUME EventsShape, TalksShape, NEW pair \in Pairs, Chatting(pair)
  PROVE  EventsShape' /\ TalksShape'
<1>1. /\ {"message", "read", "typing"} \subseteq Kinds /\ {"CLIENT", "MASTER"} \subseteq Actors
  BY DEF Kinds, ChatKinds, Actors
<1>2. CASE FindOrCreate(pair)
  BY <1>2 DEF FindOrCreate, EventsShape, TalksShape
<1>3. ASSUME NEW s \in Sockets, Typing(s, pair) PROVE EventsShape' /\ TalksShape'
  <2>1. NodeOf[s] \in Nodes
    BY LiveAssumption DEF LiveAssumption
  <2>2. EventsShape'
    BY <1>1, <1>3, <2>1, OccurShaped DEF Typing
  <2> QED
    BY <1>3, <2>2 DEF Typing, TalksShape
<1>4. ASSUME NEW n \in Nodes, NEW by \in {"CLIENT", "MASTER"}, Send(pair, by, n)
      PROVE  EventsShape' /\ TalksShape'
  <2>1. EventsShape'
    BY <1>1, <1>4, OccurShaped DEF Send
  <2>2. /\ unread' = unread \cup { <<pair, other>> : other \in {"CLIENT", "MASTER"} \ {by} }
        /\ pair \in conversations /\ UNCHANGED <<engagement, conversations>>
    BY <1>4 DEF Send
  <2> QED
    BY <2>1, <2>2 DEF TalksShape
<1>5. ASSUME NEW n \in Nodes, NEW by \in {"CLIENT", "MASTER"}, MarkRead(pair, by, n)
      PROVE  EventsShape' /\ TalksShape'
  <2>1. EventsShape'
    BY <1>1, <1>5, OccurShaped DEF MarkRead
  <2>2. unread' \subseteq unread /\ UNCHANGED <<engagement, conversations>>
    BY <1>5 DEF MarkRead
  <2> QED
    BY <2>1, <2>2 DEF TalksShape
<1> QED
  BY <1>2, <1>3, <1>4, <1>5 DEF Chatting

LEMMA BookingShaped ==
  ASSUME EventsShape, TalksShape, NEW pair \in Pairs, Booking(pair)
  PROVE  EventsShape' /\ TalksShape'
<1>1. /\ {"PENDING", "instant", "location"} \subseteq Kinds
      /\ {"CLIENT", "MASTER", "SYSTEM"} \subseteq Actors
      /\ {"PENDING", "ACCEPTED", "EXPIRED"} \subseteq Statuses
  BY DEF Kinds, Actors, Statuses
<1>2. \A move \in Transitions : move[2] \in Statuses /\ move[2] # "NONE" /\ move[3] \in Actors
  BY DEF Transitions, Statuses, Actors
<1>3. ASSUME NEW to \in Statuses, to # "NONE", engagement' = [engagement EXCEPT ![pair] = to],
             UNCHANGED <<conversations, unread>>
      PROVE  TalksShape'
  BY <1>3 DEF TalksShape
<1>4. \A to \in Statuses : to # "NONE"
  BY DEF Statuses
<1>5. CASE Expire(pair)
  <2>1. TalksShape'
    BY <1>1, <1>3, <1>4, <1>5 DEF Expire
  <2> QED
    BY <1>5, <2>1 DEF Expire, EventsShape
<1>6. ASSUME NEW s \in Sockets, SendLocation(s, pair) PROVE EventsShape' /\ TalksShape'
  <2>1. NodeOf[s] \in Nodes
    BY LiveAssumption DEF LiveAssumption
  <2>2. EventsShape'
    BY <1>1, <1>6, <2>1, OccurShaped DEF SendLocation
  <2> QED
    BY <1>6, <2>2 DEF SendLocation, TalksShape
<1>7. ASSUME NEW n \in Nodes, Book(pair, n) PROVE EventsShape' /\ TalksShape'
  <2>1. EventsShape'
    BY <1>1, <1>7, OccurShaped DEF Book
  <2>2. TalksShape'
    BY <1>1, <1>3, <1>4, <1>7 DEF Book
  <2> QED
    BY <2>1, <2>2
<1>8. ASSUME NEW n \in Nodes, Transit(pair, n) PROVE EventsShape' /\ TalksShape'
  <2>1. PICK move \in Transitions :
          /\ engagement' = [engagement EXCEPT ![pair] = move[2]]
          /\ Occur(move[2], pair, move[3], n, {})
          /\ UNCHANGED <<conversations, unread>>
    BY <1>8 DEF Transit
  <2>2. move[2] \in Kinds
    BY <1>2 DEF Kinds
  <2>3. EventsShape'
    BY <1>2, <2>1, <2>2, OccurShaped
  <2>4. TalksShape'
    BY <1>2, <1>3, <2>1
  <2> QED
    BY <2>3, <2>4
<1> QED
  BY <1>5, <1>6, <1>7, <1>8 DEF Booking

LEMMA RelayShaped ==
  ASSUME EventsShape, TalksShape,
         \/ \E e \in committed : Relay(e)
         \/ \E p \in packets : Deliver(p)
         \/ \E n \in Nodes : NodeDies(n)
  PROVE  EventsShape' /\ TalksShape'
<1>0. MaxDeaths \in Nat
  BY LiveAssumption DEF LiveAssumption
<1>1. ASSUME NEW e \in Event, NEW n, Hear(e, n)
      PROVE  heard' \subseteq Event \X Sockets /\ due' \subseteq Event \X Sockets
  <2>1. Reached(e, n) \subseteq Sockets
    BY DEF Reached
  <2> QED
    BY <1>1, <2>1 DEF Hear, EventsShape
<1>2. ASSUME NEW e \in committed, Relay(e) PROVE EventsShape' /\ TalksShape'
  <2>1. e \in Event
    BY DEF EventsShape
  <2>2. Published(e) \subseteq Event \X Nodes
    BY <2>1 DEF Published
  <2>3. heard' \subseteq Event \X Sockets /\ due' \subseteq Event \X Sockets
    BY <1>1, <1>2, <2>1 DEF Relay
  <2> QED
    BY <1>2, <2>2, <2>3 DEF Relay, EventsShape, TalksShape
<1>3. ASSUME NEW p \in packets, Deliver(p) PROVE EventsShape' /\ TalksShape'
  <2>1. p[1] \in Event
    BY DEF EventsShape
  <2>2. heard' \subseteq Event \X Sockets /\ due' \subseteq Event \X Sockets
    BY <1>1, <1>3, <2>1 DEF Deliver
  <2> QED
    BY <1>3, <2>2 DEF Deliver, EventsShape, TalksShape
<1>4. ASSUME NEW n \in Nodes, NodeDies(n) PROVE EventsShape' /\ TalksShape'
  <2>1. /\ deaths < MaxDeaths /\ deaths' = deaths + 1
        /\ committed' \subseteq committed /\ packets' \subseteq packets /\ due' \subseteq due
        /\ UNCHANGED <<engagement, conversations, unread, events, heard>>
    BY <1>4 DEF NodeDies
  <2>2. deaths' \in 0 .. MaxDeaths
    BY <1>0, <2>1 DEF EventsShape
  <2> QED
    BY <2>1, <2>2 DEF EventsShape, TalksShape
<1> QED
  BY <1>2, <1>3, <1>4

LEMMA LiveShaped ==
  ASSUME EventsShape, TalksShape, [NextLive]_liveVars
  PROVE  EventsShape' /\ TalksShape'
<1>1. CASE UNCHANGED liveVars
  BY <1>1 DEF liveVars, EventsShape, TalksShape
<1>2. CASE NextLive
  BY <1>2, SocketShaped, ChattingShaped, BookingShaped, RelayShaped DEF NextLive
<1> QED
  BY <1>1, <1>2

LEMMA LiveShapeStarts ==
  ASSUME InitLive
  PROVE  EventsShape /\ TalksShape
<1>1. MaxEvents \in Nat /\ MaxDeaths \in Nat /\ engagement \in [Pairs -> Statuses \cup {"NONE"}]
  BY LiveAssumption DEF LiveAssumption, InitLive
<1>2. EventsShape
  BY <1>1 DEF InitLive, EventsShape
<1>3. \A pair \in conversations : engagement[pair] # "NONE"
  BY DEF InitLive
<1>4. unread \subseteq conversations \X {"CLIENT", "MASTER"}
  BY DEF InitLive
<1> QED
  BY <1>1, <1>2, <1>3, <1>4 DEF TalksShape

-----------------------------------------------------------------------------
(* The files *)

\* What is refused is never confirmed, what is accepted had an object when it was looked at,
\* and the job takes only the objects of files that are late, deleted or gone.
UploadShape ==
  \A u \in Uploaders :
    /\ upload[u].step # "idle" => upload[u].of \in Files
    /\ upload[u].step = "retire" => upload[u].previous \in Files
    /\ upload[u].step = "pin" => upload[u].of \notin Avatars
Spoilt(f) == file[f].aged \/ file[f].deleted \/ file[f].row = "removed"
RefusedUnconfirmed == \A f \in Misdeclared : file[f].row # "confirmed"
ConfirmKept ==
  \A u \in Uploaders :
    /\ upload[u].step = "accept" =>
         /\ upload[u].of \notin Misdeclared
         /\ file[upload[u].of].object \/ Spoilt(upload[u].of)
    /\ upload[u].step \in {"refuse", "drop"} => upload[u].of \in Misdeclared
CleanupKept == \A f \in cleanup.left : Spoilt(f)

FilesInv == /\ UploadsTypeOK
            /\ UploadShape /\ RefusedUnconfirmed /\ ConfirmKept /\ CleanupKept /\ YoungFileKeepsObject

LEMMA FilesStart ==
  ASSUME InitUploads
  PROVE  FilesInv
<1>1. PICK presigned \in Uploads :
        file = [f \in Files |->
          CASE f = FirstAvatar -> [ Fresh EXCEPT !.row = "confirmed", !.object = TRUE ]
            [] f \in presigned \ {FirstAvatar} -> Fresh
            [] OTHER -> [ Fresh EXCEPT !.row = "removed" ]]
  BY DEF InitUploads
<1>2. Fresh \in File
  BY DEF Fresh, File
<1>3. /\ [ Fresh EXCEPT !.row = "confirmed", !.object = TRUE ] \in File
      /\ [ Fresh EXCEPT !.row = "removed" ] \in File
      /\ [ Fresh EXCEPT !.row = "confirmed", !.object = TRUE ].object
      /\ [ Fresh EXCEPT !.row = "removed" ].row = "removed" /\ Fresh.row = "none"
  BY DEF Fresh, File
<1>4. file \in [Files -> File]
  BY <1>1, <1>2, <1>3
<1>5. FirstAvatar \in Files \ Misdeclared
  BY UploadsAssumption DEF UploadsAssumption
<1>6. ASSUME NEW f \in Files
      PROVE  file[f].row = "confirmed" => f = FirstAvatar /\ file[f].object
  BY <1>1, <1>3
<1>7. UploadsTypeOK
  BY <1>4, <1>5, UploadsAssumption DEF InitUploads, UploadsTypeOK, NoUpload, Upload, NoCleanup, Cleanup,
     UploadsAssumption
<1>8. RefusedUnconfirmed /\ YoungFileKeepsObject
  BY <1>5, <1>6, UploadsAssumption DEF RefusedUnconfirmed, YoungFileKeepsObject, UploadsAssumption
<1>9. UploadShape /\ ConfirmKept /\ CleanupKept
  BY DEF InitUploads, NoUpload, NoCleanup, UploadShape, ConfirmKept, CleanupKept
<1> QED
  BY <1>7, <1>8, <1>9 DEF FilesInv

\* A step that leaves the rows and objects alone.
LEMMA FilesStay ==
  ASSUME FilesInv, UploadsTypeOK', UploadShape', UNCHANGED file, ConfirmKept', CleanupKept'
  PROVE  FilesInv'
BY DEF FilesInv, RefusedUnconfirmed, YoungFileKeepsObject

\* Of a file nothing but its own fields changes; a spoilt one stays spoilt, one that is not
\* keeps its object, and none but an accepted one is confirmed.
LEMMA FileMoves ==
  ASSUME FilesInv, UploadsTypeOK', UploadShape',
         \A f \in Files : Spoilt(f) => Spoilt(f)',
         \A f \in Files : file[f].object /\ file'[f].row # "removed" => file'[f].object \/ Spoilt(f)'
                                                          \/ f \in Misdeclared,
         \A f \in Files : file'[f].row = "confirmed" /\ file[f].row # "confirmed"
           => f \notin Misdeclared /\ (file[f].object \/ Spoilt(f)),
         \A u \in Uploaders : upload'[u] = upload[u] \/ upload'[u].step \notin {"accept", "refuse", "drop"}
           \/ (upload[u].step = "refuse" /\ upload'[u] = [upload[u] EXCEPT !.step = "drop"]),
         cleanup'.left \subseteq cleanup.left
  PROVE  FilesInv'
<1>1. UploadsTypeOK /\ file \in [Files -> File] /\ file' \in [Files -> File]
  BY DEF FilesInv, UploadsTypeOK
<1>2. RefusedUnconfirmed'
  BY UploadsAssumption DEF FilesInv, RefusedUnconfirmed, UploadsAssumption
<1>3. YoungFileKeepsObject'
  <2> SUFFICES ASSUME NEW f \in Files, file'[f].row = "confirmed", ~file'[f].deleted, ~file'[f].aged
               PROVE  file'[f].object
    BY DEF YoungFileKeepsObject
  <2>1. ~Spoilt(f)' /\ ~Spoilt(f)
    BY DEF Spoilt
  <2>2. f \notin Misdeclared /\ file[f].object
    BY <2>1 DEF FilesInv, RefusedUnconfirmed, YoungFileKeepsObject, Spoilt
  <2> QED
    BY <2>1, <2>2
<1>4. ConfirmKept'
  <2> SUFFICES ASSUME NEW u \in Uploaders, NEW f, f = upload'[u].of
               PROVE  /\ upload'[u].step = "accept" =>
                           f \notin Misdeclared /\ (file'[f].object \/ Spoilt(f)')
                      /\ upload'[u].step \in {"refuse", "drop"} => f \in Misdeclared
    BY DEF ConfirmKept, Spoilt
  <2>1. CASE upload'[u] = upload[u]
    <3>1. CASE upload[u].step = "accept"
      <4>1. f \in Files /\ f \notin Misdeclared /\ (file[f].object \/ Spoilt(f))
        BY <2>1, <3>1 DEF FilesInv, ConfirmKept, UploadShape
      <4>2. file'[f].row = "removed" => Spoilt(f)'
        BY DEF Spoilt
      <4> QED
        BY <2>1, <3>1, <4>1, <4>2
    <3> QED
      BY <2>1, <3>1 DEF FilesInv, ConfirmKept
  <2>2. CASE upload[u].step = "refuse" /\ upload'[u] = [upload[u] EXCEPT !.step = "drop"]
    <3>1. upload[u] \in Upload
      BY <1>1 DEF UploadsTypeOK
    <3>2. upload'[u].of = upload[u].of /\ upload'[u].step = "drop"
      BY <2>2, <3>1 DEF Upload
    <3> QED
      BY <2>2, <3>2 DEF FilesInv, ConfirmKept
  <2>3. CASE upload'[u].step \notin {"accept", "refuse", "drop"}
    BY <2>3
  <2> QED
    BY <2>1, <2>2, <2>3
<1>5. CleanupKept'
  <2>1. cleanup.left \subseteq Files
    BY <1>1 DEF UploadsTypeOK, Cleanup
  <2>2. \A f \in cleanup'.left : Spoilt(f)'
    BY <2>1 DEF FilesInv, CleanupKept
  <2> QED
    BY <2>2 DEF CleanupKept, Spoilt
<1> QED
  BY <1>2, <1>3, <1>4, <1>5 DEF FilesInv

-----------------------------------------------------------------------------
(* Each step of the files *)

LEMMA RowStepKept ==
  ASSUME FilesInv, NEW f \in Files, Presign(f) \/ Put(f) \/ Age(f)
  PROVE  FilesInv'
<1>1. file \in [Files -> File] /\ UploadsTypeOK /\ UploadShape
  BY DEF FilesInv, UploadsTypeOK
<1>2. UNCHANGED <<avatar, portfolio, upload, cleanup, uploadCrashes>>
  BY DEF Presign, Put, Age
<1>3. PICK row \in File : /\ file' = [file EXCEPT ![f] = row]
                          /\ row.row \in {file[f].row, "pending"} /\ row.deleted = file[f].deleted
                          /\ file[f].aged => row.aged
                          /\ file[f].object => row.object
                          /\ file[f].row = "removed" => row.row = "removed"
  <2>1. CASE Presign(f)
    BY <1>1, <2>1 DEF Presign, File
  <2>2. CASE Put(f)
    <3>1. file' = [file EXCEPT ![f] = [ file[f] EXCEPT !.object = TRUE ]]
      BY <1>1, <2>2 DEF Put
    <3>2. [ file[f] EXCEPT !.object = TRUE ] \in File
      BY <1>1 DEF File
    <3> QED
      BY <1>1, <3>1, <3>2 DEF File
  <2>3. CASE Age(f)
    <3>1. file' = [file EXCEPT ![f] = [ file[f] EXCEPT !.aged = TRUE ]]
      BY <1>1, <2>3 DEF Age
    <3>2. [ file[f] EXCEPT !.aged = TRUE ] \in File
      BY <1>1 DEF File
    <3> QED
      BY <1>1, <3>1, <3>2 DEF File
  <2> QED
    BY <2>1, <2>2, <2>3
<1>4. file' \in [Files -> File] /\ \A g \in Files : file'[g] = IF g = f THEN row ELSE file[g]
  BY <1>1, <1>3
<1>5. UploadsTypeOK' /\ UploadShape'
  BY <1>1, <1>2, <1>4 DEF UploadsTypeOK, UploadShape
<1>6. \A g \in Files : Spoilt(g) => Spoilt(g)'
  BY <1>3, <1>4 DEF Spoilt
<1> QED
  BY <1>2, <1>3, <1>4, <1>5, <1>6, FileMoves

LEMMA BeginsKept ==
  ASSUME FilesInv, NEW u \in Uploaders, NEW f \in Files,
         BeginConfirm(u, f) \/ BeginSetAvatar(u, f) \/ BeginAddImage(u, f)
  PROVE  FilesInv'
<1>1. UploadsTypeOK /\ UploadShape
  BY DEF FilesInv
<1>2. PICK step \in {"head", "current", "pin"}, previous \in Files \cup {NoFile} :
        BeginsUpload(u, step, f, previous) /\ (step = "pin" => f \notin Avatars)
  BY <1>1 DEF BeginConfirm, BeginSetAvatar, BeginAddImage, UploadsTypeOK
<1>3. /\ upload' = [upload EXCEPT ![u] = [ step |-> step, of |-> f, previous |-> previous ]]
      /\ UNCHANGED <<file, avatar, portfolio, cleanup, uploadCrashes>>
  BY <1>2 DEF BeginsUpload
<1>4. [ step |-> step, of |-> f, previous |-> previous ] \in Upload
  BY DEF Upload
<1>5. UploadsTypeOK' /\ UploadShape'
  BY <1>1, <1>2, <1>3, <1>4 DEF UploadsTypeOK, UploadShape
<1>6. \A v \in Uploaders : upload'[v] = upload[v] \/ upload'[v].step \notin {"accept", "refuse", "drop"}
  BY <1>1, <1>3 DEF UploadsTypeOK
<1> QED
  BY <1>3, <1>5, <1>6, FileMoves DEF Spoilt

\* What Then and Done make of the requests.
LEMMA Advances ==
  ASSUME UploadsTypeOK, UploadShape, NEW u \in Uploaders, upload[u].step # "idle",
         \/ Done(u)
         \/ \E step \in {"accept", "refuse", "drop", "attach", "retire"} :
              Then(u, step) /\ (step = "retire" => upload[u].previous # NoFile)
  PROVE  /\ upload' \in [Uploaders -> Upload] /\ UploadShape'
         /\ \A v \in Uploaders \ {u} : upload'[v] = upload[v]
         /\ \/ upload'[u].step = "idle"
            \/ /\ upload'[u].step \in {"accept", "refuse", "drop", "attach", "retire"}
               /\ upload'[u] = [upload[u] EXCEPT !.step = upload'[u].step]
               /\ upload'[u].of = upload[u].of
<1>1. upload \in [Uploaders -> Upload] /\ upload[u] \in Upload /\ upload[u].of \in Files
  BY DEF UploadsTypeOK, UploadShape
<1>2. CASE Done(u)
  <2>1. NoUpload \in Upload /\ NoUpload.step = "idle"
    BY DEF NoUpload, Upload
  <2> QED
    BY <1>1, <1>2, <2>1 DEF Done, UploadShape
<1>3. ASSUME NEW step \in {"accept", "refuse", "drop", "attach", "retire"}, Then(u, step),
             step = "retire" => upload[u].previous # NoFile
      PROVE  /\ upload' \in [Uploaders -> Upload] /\ UploadShape'
             /\ \A v \in Uploaders \ {u} : upload'[v] = upload[v]
             /\ upload'[u].step = step /\ upload'[u] = [upload[u] EXCEPT !.step = step]
             /\ upload'[u].of = upload[u].of
  <2>1. [upload[u] EXCEPT !.step = step] \in Upload
    BY <1>1 DEF Upload
  <2>2. /\ [upload[u] EXCEPT !.step = step].step = step
        /\ [upload[u] EXCEPT !.step = step].of = upload[u].of
        /\ [upload[u] EXCEPT !.step = step].previous = upload[u].previous
        /\ upload[u].previous \in Files \cup {NoFile}
    BY <1>1 DEF Upload
  <2> QED
    BY <1>1, <1>3, <2>1, <2>2 DEF Then, UploadShape
<1> QED
  BY <1>2, <1>3

LEMMA HeadObjectKept ==
  ASSUME FilesInv, NEW u \in Uploaders, HeadObject(u)
  PROVE  FilesInv'
<1>1. UploadsTypeOK /\ UploadShape /\ upload[u].step = "head"
  BY DEF FilesInv, HeadObject, At
<1>2. /\ UNCHANGED <<file, avatar, portfolio, cleanup, uploadCrashes>>
      /\ \/ Done(u)
         \/ Then(u, "refuse") /\ upload[u].of \in Misdeclared
         \/ Then(u, "accept") /\ upload[u].of \notin Misdeclared /\ file[upload[u].of].object
  BY DEF HeadObject
<1>3. /\ upload' \in [Uploaders -> Upload] /\ UploadShape'
      /\ \A v \in Uploaders \ {u} : upload'[v] = upload[v]
      /\ \/ upload'[u].step = "idle"
         \/ upload'[u].of = upload[u].of
  BY <1>1, <1>2, Advances
<1>4. UploadsTypeOK'
  BY <1>1, <1>2, <1>3 DEF UploadsTypeOK
<1>5. /\ Done(u) => upload'[u].step = "idle"
      /\ \A step \in {"refuse", "accept"} : Then(u, step) => upload'[u].step = step
  BY <1>1 DEF Done, NoUpload, Then, UploadsTypeOK, Upload
<1>6. ConfirmKept'
  <2> SUFFICES ASSUME NEW v \in Uploaders, NEW f, f = upload'[v].of
               PROVE  /\ upload'[v].step = "accept" =>
                           f \notin Misdeclared /\ (file'[f].object \/ Spoilt(f)')
                      /\ upload'[v].step \in {"refuse", "drop"} => f \in Misdeclared
    BY DEF ConfirmKept, Spoilt
  <2>1. CASE v = u
    BY <1>2, <1>3, <1>5, <2>1
  <2>2. CASE v # u
    BY <1>2, <1>3, <2>2 DEF FilesInv, ConfirmKept, Spoilt
  <2> QED
    BY <2>1, <2>2
<1>7. CleanupKept'
  BY <1>2 DEF FilesInv, CleanupKept, Spoilt
<1> QED
  BY <1>2, <1>3, <1>4, <1>6, <1>7, FilesStay

\* The other steps of a request: they leave the rows of other files alone.
LEMMA RequestStepKept ==
  ASSUME FilesInv, NEW u \in Uploaders,
         \/ RemoveRefused(u) \/ DropRefused(u) \/ Accept(u)
         \/ GetAttachable(u) \/ AttachAvatar(u) \/ Retire(u) \/ AddImage(u)
  PROVE  FilesInv'
<1>1. UploadsTypeOK /\ UploadShape /\ ConfirmKept /\ file \in [Files -> File]
      /\ upload[u].step # "idle" /\ upload[u].of \in Files /\ upload[u] \in Upload
  BY DEF FilesInv, UploadsTypeOK, UploadShape, At, RemoveRefused, DropRefused, Accept, GetAttachable,
         AttachAvatar, Retire, AddImage
<1>2. /\ UNCHANGED <<cleanup, uploadCrashes>>
      /\ \/ Done(u)
         \/ Then(u, "drop") /\ upload[u].step = "refuse"
         \/ Then(u, "attach")
         \/ Then(u, "retire") /\ upload[u].previous # NoFile
  BY DEF RemoveRefused, DropRefused, Accept, GetAttachable, AttachAvatar, Retire, AddImage, At
<1>3. /\ upload' \in [Uploaders -> Upload] /\ UploadShape'
      /\ \A v \in Uploaders : \/ upload'[v] = upload[v] 
                              \/ upload'[v].step \notin {"accept", "refuse", "drop"}
                              \/ (upload[v].step = "refuse" /\ upload'[v] = [upload[v] EXCEPT !.step = "drop"])
  <2>1. /\ Done(u) => upload'[u].step = "idle"
        /\ \A step \in {"attach", "retire"} : Then(u, step) => upload'[u].step = step
        /\ Then(u, "drop") => upload'[u] = [upload[u] EXCEPT !.step = "drop"]
    BY <1>1 DEF Done, NoUpload, Then, UploadsTypeOK, Upload
  <2> QED
    BY <1>1, <1>2, <2>1, Advances
<1>4. avatar' \in Files \cup {NoFile} /\ portfolio' \subseteq Files \ Avatars
  <2>1. CASE AttachAvatar(u)
    BY <1>1, <2>1 DEF AttachAvatar, UploadsTypeOK
  <2>2. CASE AddImage(u)
    BY <1>1, <2>2 DEF AddImage, At, UploadsTypeOK, UploadShape
  <2> QED
    BY <1>1, <2>1, <2>2 DEF UploadsTypeOK, RemoveRefused, DropRefused, Accept, GetAttachable, Retire
<1>5. PICK f \in Files, row \in File :
        /\ file' = [file EXCEPT ![f] = row]
        /\ Spoilt(f) => row.aged \/ row.deleted \/ row.row = "removed"
        /\ file[f].object => row.object \/ row.row = "removed" \/ f \in Misdeclared
        /\ row.row = "confirmed" /\ file[f].row # "confirmed"
             => f \notin Misdeclared /\ (file[f].object \/ Spoilt(f))
  <2>1. CASE RemoveRefused(u)
    <3>1. PICK gone \in BOOLEAN :
            file' = [file EXCEPT ![upload[u].of] = [ file[upload[u].of] EXCEPT !.object = @ /\ ~gone ]]
      BY <1>1, <2>1 DEF RemoveRefused
    <3>2. (file[upload[u].of].object /\ ~gone) \in BOOLEAN
      OBVIOUS
    <3>3. [ file[upload[u].of] EXCEPT !.object = @ /\ ~gone ] \in File
      BY <1>1, <3>2 DEF File
    <3>4. upload[u].of \in Misdeclared
      BY <1>1, <2>1 DEF ConfirmKept, RemoveRefused, At
    <3> QED
      BY <1>1, <3>1, <3>3, <3>4 DEF File, Spoilt
  <2>2. CASE DropRefused(u)
    <3>1. CASE Exists(upload[u].of)
      <4>1. file' = [file EXCEPT ![upload[u].of] = Without(upload[u].of)]
        BY <2>2, <3>1 DEF DropRefused
      <4>2. Without(upload[u].of) \in File /\ Without(upload[u].of).row = "removed"
        BY <1>1 DEF Without, Fresh, File
      <4> QED
        BY <1>1, <4>1, <4>2 DEF Spoilt
    <3>2. CASE ~Exists(upload[u].of)
      BY <1>1, <2>2, <3>2 DEF DropRefused, Spoilt
    <3> QED
      BY <3>1, <3>2
  <2>3. CASE Accept(u)
    <3>1. CASE Exists(upload[u].of)
      <4>1. file' = [file EXCEPT ![upload[u].of] = [ file[upload[u].of] EXCEPT !.row = "confirmed" ]]
        BY <1>1, <2>3, <3>1 DEF Accept
      <4>2. [ file[upload[u].of] EXCEPT !.row = "confirmed" ] \in File
        BY <1>1 DEF File
      <4>3. file[upload[u].of].row # "removed"
        BY <3>1 DEF Exists
      <4>4. upload[u].of \notin Misdeclared /\ (file[upload[u].of].object \/ Spoilt(upload[u].of))
        BY <1>1, <2>3 DEF ConfirmKept, Accept, At
      <4> QED
        BY <1>1, <4>1, <4>2, <4>3, <4>4 DEF File, Spoilt
    <3>2. CASE ~Exists(upload[u].of)
      BY <1>1, <2>3, <3>2 DEF Accept, Spoilt
    <3> QED
      BY <3>1, <3>2
  <2>4. CASE Retire(u)
    <3>1. CASE Exists(upload[u].previous)
      <4>0. upload[u].previous \in Files
        BY <1>1, <2>4 DEF UploadShape, Retire, At
      <4>1. file' = [file EXCEPT ![upload[u].previous] = [ file[upload[u].previous] EXCEPT !.deleted = TRUE ]]
        BY <1>1, <2>4, <3>1, <4>0 DEF Retire
      <4>2. [ file[upload[u].previous] EXCEPT !.deleted = TRUE ] \in File
        BY <1>1, <4>0 DEF File
      <4> QED
        BY <1>1, <4>0, <4>1, <4>2 DEF File, Spoilt
    <3>2. CASE ~Exists(upload[u].previous)
      BY <1>1, <2>4, <3>2 DEF Retire, Spoilt
    <3> QED
      BY <3>1, <3>2
  <2>5. CASE UNCHANGED file
    BY <1>1, <2>5 DEF Spoilt
  <2> QED
    BY <2>1, <2>2, <2>3, <2>4, <2>5 DEF GetAttachable, AttachAvatar, AddImage
<1>6. file' \in [Files -> File] /\ \A g \in Files : file'[g] = IF g = f THEN row ELSE file[g]
  BY <1>1, <1>5
<1>7. UploadsTypeOK'
  BY <1>1, <1>2, <1>3, <1>4, <1>6 DEF UploadsTypeOK
<1>8. \A g \in Files : Spoilt(g) => Spoilt(g)'
  BY <1>5, <1>6 DEF Spoilt
<1>9. \A g \in Files : file[g].object /\ file'[g].row # "removed" => file'[g].object \/ Spoilt(g)'
                                                          \/ g \in Misdeclared
  BY <1>5, <1>6
<1>10. \A g \in Files : file'[g].row = "confirmed" /\ file[g].row # "confirmed"
           => g \notin Misdeclared /\ (file[g].object \/ Spoilt(g))
  BY <1>5, <1>6
<1> QED
  BY <1>2, <1>3, <1>7, <1>8, <1>9, <1>10, FileMoves

LEMMA CleanupStepKept ==
  ASSUME FilesInv, CleanupJob
  PROVE  FilesInv'
<1>1. UploadsTypeOK /\ UploadShape /\ ConfirmKept /\ file \in [Files -> File]
  BY DEF FilesInv, UploadsTypeOK
<1>2. CASE SelectStale
  <2>1. PICK batch \in SUBSET { f \in Files : Stale(f) } :
          cleanup' = [ step |-> "remove", left |-> batch, batch |-> batch ]
    BY <1>2 DEF SelectStale
  <2>2. UNCHANGED <<file, avatar, portfolio, upload, uploadCrashes>>
    BY <1>2 DEF SelectStale
  <2>3. cleanup' \in Cleanup /\ cleanup'.left = batch
    BY <2>1 DEF Cleanup
  <2>4. UploadsTypeOK' /\ ConfirmKept' /\ UploadShape'
    BY <1>1, <2>2, <2>3 DEF UploadsTypeOK, ConfirmKept, UploadShape, Spoilt
  <2>5. CleanupKept'
    BY <2>1, <2>2, <2>3 DEF CleanupKept, Spoilt, Stale, Expired
  <2> QED
    BY <2>2, <2>4, <2>5, FilesStay
<1>3. ASSUME NEW f \in Files, RemoveObject(f) PROVE FilesInv'
  <2>1. PICK gone \in BOOLEAN : file' = [file EXCEPT ![f] = [ file[f] EXCEPT !.object = @ /\ ~gone ]]
    BY <1>1, <1>3 DEF RemoveObject
  <2>2. /\ f \in cleanup.left /\ cleanup' = [ cleanup EXCEPT !.left = @ \ {f} ]
        /\ UNCHANGED <<avatar, portfolio, upload, uploadCrashes>>
    BY <1>3 DEF RemoveObject
  <2>3. cleanup' \in Cleanup /\ cleanup'.left \subseteq cleanup.left
    BY <1>1, <2>2 DEF UploadsTypeOK, Cleanup
  <2>4. (file[f].object /\ ~gone) \in BOOLEAN
    OBVIOUS
  <2> DEFINE row == [ file[f] EXCEPT !.object = @ /\ ~gone ]
  <2>5. /\ row \in File /\ row.row = file[f].row /\ row.aged = file[f].aged
        /\ row.deleted = file[f].deleted
    BY <1>1, <2>4 DEF File
  <2>6. file' \in [Files -> File] /\ \A g \in Files : file'[g] = IF g = f THEN row ELSE file[g]
    BY <1>1, <2>1, <2>5
  <2>7. Spoilt(f)
    BY <2>2 DEF FilesInv, CleanupKept
  <2> HIDE DEF row
  <2>8. UploadsTypeOK' /\ UploadShape'
    BY <1>1, <2>2, <2>3, <2>6 DEF UploadsTypeOK, UploadShape
  <2>9. \A g \in Files : Spoilt(g) => Spoilt(g)'
    BY <2>5, <2>6 DEF Spoilt
  <2> QED
    BY <2>2, <2>3, <2>5, <2>6, <2>7, <2>8, <2>9, FileMoves
<1>4. CASE DeleteRows
  <2>1. cleanup' = NoCleanup /\ NoCleanup \in Cleanup /\ NoCleanup.left = {}
    BY <1>4 DEF DeleteRows, NoCleanup, Cleanup
  <2>2. UNCHANGED <<portfolio, upload, uploadCrashes>>
    BY <1>4 DEF DeleteRows
  <2>3. \A f \in Files : Without(f) \in File /\ Without(f).row = "removed"
    BY <1>1 DEF Without, Fresh, File
  <2>4. /\ file' \in [Files -> File] /\ avatar' \in Files \cup {NoFile}
        /\ \A g \in Files : file'[g] = file[g] \/ file'[g].row = "removed"
    <3>1. CASE UNCHANGED <<file, avatar>>
      BY <1>1, <3>1 DEF UploadsTypeOK
    <3>2. CASE /\ file' = [f \in Files |-> IF f \in Reclaimed THEN Without(f) ELSE file[f]]
               /\ avatar' = IF avatar \in Reclaimed THEN NoFile ELSE avatar
      BY <1>1, <2>3, <3>2 DEF UploadsTypeOK
    <3> QED
      BY <1>4, <3>1, <3>2 DEF DeleteRows
  <2>5. UploadsTypeOK' /\ UploadShape'
    BY <1>1, <2>1, <2>2, <2>4 DEF UploadsTypeOK, UploadShape
  <2>6. \A g \in Files : Spoilt(g) => Spoilt(g)'
    BY <2>4 DEF Spoilt
  <2> QED
    BY <2>1, <2>2, <2>4, <2>5, <2>6, FileMoves
<1> QED
  BY <1>2, <1>3, <1>4 DEF CleanupJob

LEMMA UploadCrashKept ==
  ASSUME FilesInv, UploadCrash
  PROVE  FilesInv'
<1>1. UploadsTypeOK
  BY DEF FilesInv
<1>2. /\ upload' = [u \in Uploaders |-> NoUpload] /\ cleanup' = NoCleanup
      /\ uploadCrashes < UploadCrashes /\ uploadCrashes' = uploadCrashes + 1
      /\ UNCHANGED <<file, avatar, portfolio>>
  BY DEF UploadCrash
<1>3. NoUpload \in Upload /\ NoUpload.step = "idle" /\ NoCleanup \in Cleanup /\ NoCleanup.left = {}
  BY DEF NoUpload, Upload, NoCleanup, Cleanup
<1>4. uploadCrashes' \in 0 .. UploadCrashes
  BY <1>1, <1>2, UploadsAssumption DEF UploadsTypeOK, UploadsAssumption
<1>5. UploadsTypeOK' /\ UploadShape'
  BY <1>1, <1>2, <1>3, <1>4 DEF UploadsTypeOK, UploadShape
<1>6. \A u \in Uploaders : upload'[u].step = "idle"
  BY <1>2, <1>3
<1> QED
  BY <1>2, <1>3, <1>5, <1>6, FileMoves DEF Spoilt

LEMMA FilesKept ==
  ASSUME FilesInv, [NextUploads]_uploadsVars
  PROVE  FilesInv'
<1>1. CASE UNCHANGED uploadsVars
  BY <1>1 DEF uploadsVars, FilesInv, UploadsTypeOK, UploadShape, RefusedUnconfirmed, ConfirmKept,
              CleanupKept, Spoilt, YoungFileKeepsObject
<1>2. CASE NextUploads
  <2>1. CASE \E u \in Uploaders : UploadStep(u)
    BY <2>1, HeadObjectKept, RequestStepKept DEF UploadStep
  <2> QED
    BY <1>2, <2>1, RowStepKept, BeginsKept, CleanupStepKept, UploadCrashKept DEF NextUploads
<1> QED
  BY <1>1, <1>2

\* CleanupUnconfirmedFilesJob: however confirmations, attachments, crashes and the job's own
\* steps interleave, a file confirmed in time is never left without its object.
THEOREM YoungFilesKept == UploadsSpec => []YoungFileKeepsObject
<1>1. InitUploads => FilesInv
  BY FilesStart
<1>2. FilesInv /\ [NextUploads]_uploadsVars => FilesInv'
  BY FilesKept
<1>3. FilesInv => YoungFileKeepsObject
  BY DEF FilesInv
<1> QED
  BY <1>1, <1>2, <1>3, PTL DEF UploadsSpec

-----------------------------------------------------------------------------
(* The notifications *)

\* Whether what an event tells of has happened.
Happened(e, b) ==
  CASE e = "COMPLETED" -> b \in completed
    [] e = "REVIEWED"  -> review[b].state # "none"
    [] e = "REPLIED"   -> review[b].replied

Emits(r, e, b) == work[r].phase = "emit" /\ EventOf[work[r].op] = e /\ work[r].about = b
Tells(k, e, b) == k.listener = "notice" /\ k.event = e /\ k.about = b
ToSend(e, b, i) == \A j \in i .. Len(TypesOf[e]) : notice[<<TypesOf[e][j], b>>] = 0

\* An event about a booking is told by one request about to emit it, by one call of its
\* listener or by nobody, and before it has happened by nobody.
ToldByOne ==
  \A e \in Events, b \in Bookings :
    /\ \A r \in Requests : Emits(r, e, b) =>
         /\ Happened(e, b) /\ ToSend(e, b, 1)
         /\ \A q \in Requests : Emits(q, e, b) => q = r
         /\ \A k \in task : ~Tells(k, e, b)
    /\ \A k \in task : Tells(k, e, b) =>
         /\ Happened(e, b) /\ ToSend(e, b, k.step)
         /\ \A l \in task : Tells(l, e, b) => l = k
    /\ ~Happened(e, b) => ToSend(e, b, 1)

\* One transaction at a time has written a review, and one that creates it finds none.
ReviewTxAlone ==
  \A r \in Requests : InReviewTx(r) =>
    /\ work[r].op \in Changes /\ work[r].about \in Bookings
    /\ \A q \in Requests : InReviewTx(q) /\ work[q].about = work[r].about => q = r
    /\ work[r].op = "create" => review[work[r].about].state = "none"

WorkShape ==
  /\ work \in [Requests -> Work]
  /\ \A r \in Requests :
       /\ work[r].phase = "emit" => work[r].op \in DOMAIN EventOf
       /\ work[r].phase # "idle" => work[r].about \in Bookings

NoticesInv ==
  /\ completed \subseteq Bookings /\ review \in [Bookings -> Review]
  /\ task \subseteq Task /\ notice \in [Types \X Sources -> Nat]
  /\ \A k \in task : k.about \in Bookings /\ k.step <= Len(TypesOf[k.event])
  /\ WorkShape /\ ReviewTxAlone /\ ToldByOne /\ NoticeOnce

LEMMA EventFacts ==
  /\ Events = {"COMPLETED", "REVIEWED", "REPLIED"}
  /\ DOMAIN EventOf = {"complete", "create", "reply"}
  /\ \A op \in DOMAIN EventOf : EventOf[op] \in Events
  /\ EventOf["complete"] = "COMPLETED" /\ EventOf["create"] = "REVIEWED"
  /\ EventOf["reply"] = "REPLIED"
BY DEF Events, TypesOf, EventOf

\* Each event has its own types of notification, two at most.
LEMMA TypeFacts ==
  /\ \A e \in Events : Len(TypesOf[e]) \in 1 .. 2
  /\ \A e \in Events, i \in 1 .. 2 : i <= Len(TypesOf[e]) => TypesOf[e][i] \in Types
  /\ \A e, f \in Events, i, j \in 1 .. 2 :
       i <= Len(TypesOf[e]) /\ j <= Len(TypesOf[f]) /\ TypesOf[e][i] = TypesOf[f][j] => e = f /\ i = j
<1>1. /\ TypesOf["COMPLETED"] = <<"BOOKING_COMPLETED", "REVIEW_INVITATION">>
      /\ TypesOf["REVIEWED"] = <<"REVIEW_RECEIVED">>
      /\ TypesOf["REPLIED"] = <<"REVIEW_REPLIED">>
  BY DEF TypesOf
<1>2. /\ Len(TypesOf["COMPLETED"]) = 2 /\ Len(TypesOf["REVIEWED"]) = 1
      /\ Len(TypesOf["REPLIED"]) = 1
  BY <1>1
<1>3. /\ TypesOf["COMPLETED"][1] = "BOOKING_COMPLETED" /\ TypesOf["COMPLETED"][2] = "REVIEW_INVITATION"
      /\ TypesOf["REVIEWED"][1] = "REVIEW_RECEIVED" /\ TypesOf["REPLIED"][1] = "REVIEW_REPLIED"
  BY <1>1
<1>4. \A e \in Events : Len(TypesOf[e]) \in 1 .. 2
  BY <1>2, EventFacts
<1>5. ASSUME NEW e \in Events, NEW i \in 1 .. 2, i <= Len(TypesOf[e])
      PROVE  TypesOf[e][i] \in Types
  <2>1. i \in DOMAIN TypesOf[e]
    BY <1>1, <1>2, <1>5, EventFacts
  <2> QED
    BY <2>1 DEF Types
<1>6. ASSUME NEW e \in Events, NEW f \in Events, NEW i \in 1 .. 2, NEW j \in 1 .. 2,
             i <= Len(TypesOf[e]), j <= Len(TypesOf[f]), TypesOf[e][i] = TypesOf[f][j]
      PROVE  e = f /\ i = j
  BY <1>2, <1>3, <1>6, EventFacts
<1> QED
  BY <1>4, <1>5, <1>6

LEMMA ReviewTypes == NoReview \in Review /\ NoWork \in Work /\ NoWork.phase = "idle" /\ AnyRating \in Ratings
<1>1. AnyRating \in Ratings
  BY AftermathAssumption DEF AnyRating, AftermathAssumption
<1>2. Working("none", None, AnyRating) \in Work
  BY <1>1 DEF Working, Work
<1> QED
  BY <1>1, <1>2 DEF NoReview, Review, NoWork, Work

LEMMA NoticesStart ==
  ASSUME InitAftermath
  PROVE  NoticesInv
<1>1. /\ task = {} /\ notice = [n \in Types \X Sources |-> 0] /\ completed \in {{}, Bookings}
      /\ work = [r \in Requests |-> NoWork]
  BY DEF InitAftermath, InitNotices
<1>2. review \in [Bookings -> Review]
  <2>1. [ NoReview EXCEPT !.state = "VISIBLE" ] \in Review
    BY ReviewTypes DEF Review
  <2> QED
    BY <2>1, ReviewTypes DEF InitAftermath
<1>3. \A r \in Requests : work[r].phase = "idle"
  BY <1>1, ReviewTypes
<1>4. WorkShape /\ ReviewTxAlone
  BY <1>1, <1>3, ReviewTypes DEF WorkShape, ReviewTxAlone, InReviewTx
<1>5. \A e \in Events, b \in Bookings, i \in {1} : ToSend(e, b, i)
  <2> SUFFICES ASSUME NEW e \in Events, NEW b \in Bookings, NEW j \in 1 .. Len(TypesOf[e])
               PROVE  notice[<<TypesOf[e][j], b>>] = 0
    BY DEF ToSend
  <2>1. TypesOf[e][j] \in Types /\ b \in Sources
    BY TypeFacts, AftermathAssumption DEF AftermathAssumption
  <2> QED
    BY <1>1, <2>1
<1>6. ToldByOne
  BY <1>1, <1>3, <1>5 DEF ToldByOne, Emits
<1>7. NoticeOnce
  BY <1>1 DEF NoticeOnce
<1> QED
  BY <1>1, <1>2, <1>4, <1>6, <1>7 DEF NoticesInv

-----------------------------------------------------------------------------
(* What a step does to who tells what *)

LEMMA NobodyNew ==
  ASSUME NoticesInv, UNCHANGED notice,
         \A e \in Events, b \in Bookings : Happened(e, b) => Happened(e, b)',
         \A e \in Events, b \in Bookings, r \in Requests : Emits(r, e, b)' => Emits(r, e, b),
         \A k \in task' : k.listener = "notice" => k \in task
  PROVE  ToldByOne'
<1>1. ToldByOne
  BY DEF NoticesInv
<1> QED
  BY <1>1 DEF ToldByOne, Tells, ToSend

\* What has just happened one request is to tell, and nobody told of it before.
LEMMA OneNew ==
  ASSUME NoticesInv, UNCHANGED <<task, notice>>,
         NEW r \in Requests, NEW e \in Events, NEW b \in Bookings,
         ~Happened(e, b), Happened(e, b)',
         \A f \in Events, c \in Bookings : Happened(f, c) => Happened(f, c)',
         \A f \in Events, c \in Bookings, q \in Requests :
           Emits(q, f, c)' => Emits(q, f, c) \/ (q = r /\ f = e /\ c = b)
  PROVE  ToldByOne'
<1>1. ToldByOne
  BY DEF NoticesInv
<1>2. /\ ToSend(e, b, 1)
      /\ \A q \in Requests : ~Emits(q, e, b)
      /\ \A k \in task : ~Tells(k, e, b)
  BY <1>1 DEF ToldByOne
<1>3. SUFFICES ASSUME NEW f \in Events, NEW c \in Bookings
      PROVE  /\ \A q \in Requests : Emits(q, f, c)' =>
                  /\ Happened(f, c)' /\ ToSend(f, c, 1)'
                  /\ \A p \in Requests : Emits(p, f, c)' => p = q
                  /\ \A k \in task' : ~Tells(k, f, c)
             /\ \A k \in task' : Tells(k, f, c) =>
                  /\ Happened(f, c)' /\ ToSend(f, c, k.step)'
                  /\ \A l \in task' : Tells(l, f, c) => l = k
             /\ ~Happened(f, c)' => ToSend(f, c, 1)'
  BY DEF ToldByOne, Tells
<1>4. CASE f = e /\ c = b
  BY <1>2, <1>4 DEF ToSend
<1>5. CASE ~(f = e /\ c = b)
  BY <1>1, <1>5 DEF ToldByOne, ToSend
<1> QED
  BY <1>4, <1>5

\* A request moves; the others stay where they are.
LEMMA OneWorks ==
  ASSUME NoticesInv, NEW r \in Requests, work' \in [Requests -> Work],
         \A q \in Requests \ {r} :
           /\ work'[q].op = work[q].op /\ work'[q].phase = work[q].phase /\ work'[q].about = work[q].about
           /\ InReviewTx(q) /\ work[q].op = "create" => review'[work[q].about].state = "none",
         work'[r].phase = "emit" => work'[r].op \in DOMAIN EventOf,
         work'[r].phase # "idle" => work'[r].about \in Bookings,
         work'[r].phase \in {"written", "counted"} =>
           /\ work'[r].op \in Changes
           /\ \A q \in Requests \ {r} : InReviewTx(q) => work[q].about # work'[r].about
           /\ work'[r].op = "create" => review'[work'[r].about].state = "none"
  PROVE  WorkShape' /\ ReviewTxAlone'
<1>1. WorkShape /\ ReviewTxAlone
  BY DEF NoticesInv
<1>2. WorkShape'
  <2> SUFFICES ASSUME NEW q \in Requests
               PROVE  /\ work'[q].phase = "emit" => work'[q].op \in DOMAIN EventOf
                      /\ work'[q].phase # "idle" => work'[q].about \in Bookings
    BY DEF WorkShape
  <2> QED
    BY <1>1 DEF WorkShape
<1>3. ReviewTxAlone'
  <2> SUFFICES ASSUME NEW p \in Requests, work'[p].phase \in {"written", "counted"}
               PROVE  /\ work'[p].op \in Changes /\ work'[p].about \in Bookings
                      /\ \A q \in Requests :
                           work'[q].phase \in {"written", "counted"} /\ work'[q].about = work'[p].about => q = p
                      /\ work'[p].op = "create" => review'[work'[p].about].state = "none"
    BY DEF ReviewTxAlone, InReviewTx
  <2>1. CASE p = r
    BY <2>1 DEF InReviewTx
  <2>2. CASE p # r
    BY <1>1, <2>2 DEF ReviewTxAlone, InReviewTx
  <2> QED
    BY <2>1, <2>2
<1> QED
  BY <1>2, <1>3

-----------------------------------------------------------------------------
(* Each step of the requests *)

\* A request that begins, ends or goes on in its transaction tells nothing yet.
LEMMA QuietStep ==
  ASSUME NoticesInv, NEW r \in Requests, NEW w \in Work, work' = [work EXCEPT ![r] = w],
         UNCHANGED <<completed, review, task, notice>>,
         w.phase # "emit", w.phase # "idle" => w.about \in Bookings,
         w.phase \in {"written", "counted"} =>
           /\ w.op \in Changes
           /\ \A q \in Requests \ {r} : InReviewTx(q) => work[q].about # w.about
           /\ w.op = "create" => review[w.about].state = "none"
  PROVE  NoticesInv'
<1>1. work \in [Requests -> Work] /\ ReviewTxAlone
  BY DEF NoticesInv, WorkShape
<1>2. work' \in [Requests -> Work] /\ work'[r] = w /\ \A q \in Requests \ {r} : work'[q] = work[q]
  BY <1>1
<1>3. WorkShape' /\ ReviewTxAlone'
  BY <1>1, <1>2, OneWorks DEF ReviewTxAlone
<1>4. ToldByOne'
  BY <1>2, NobodyNew DEF Happened, Emits
<1> QED
  BY <1>3, <1>4 DEF NoticesInv, NoticeOnce

LEMMA BeginsWorkKept ==
  ASSUME NoticesInv, NEW r \in Requests, NEW b \in Bookings, NEW n \in Ratings,
         BeginComplete(r, b) \/ BeginCreate(r, b, n) \/ BeginChange(r, b, n) \/ BeginReply(r, b),
         UNCHANGED <<completed, reward, review, rating, crashes, task, notice, muted>>
  PROVE  NoticesInv'
<1>1. PICK op \in Changes \cup {"complete", "reply"}, m \in Ratings : work' = [work EXCEPT ![r] = Working(op, b, m)]
  BY ReviewTypes DEF BeginComplete, BeginCreate, BeginChange, BeginReply, Begins, Changes
<1>2. Working(op, b, m) \in Work /\ Working(op, b, m).phase = "read" /\ Working(op, b, m).about = b
  BY DEF Working, Work, Changes
<1> QED
  BY <1>1, <1>2, QuietStep

LEMMA EndsKept ==
  ASSUME NoticesInv, NEW r \in Requests, Ends(r), UNCHANGED <<completed, review, task, notice>>
  PROVE  NoticesInv'
BY ReviewTypes, QuietStep DEF Ends

\* What of a request Moves changes and what it leaves.
LEMMA Moved ==
  ASSUME NoticesInv, NEW r \in Requests, NEW phase \in {"written", "counted", "emit"}, Moves(r, phase)
  PROVE  \E w \in Work : /\ work' = [work EXCEPT ![r] = w]
                         /\ w.phase = phase /\ w.op = work[r].op /\ w.about = work[r].about
<1>1. work \in [Requests -> Work]
  BY DEF NoticesInv, WorkShape
<1> DEFINE w == [ work[r] EXCEPT !.phase = phase ]
<1>2. w \in Work /\ w.phase = phase /\ w.op = work[r].op /\ w.about = work[r].about
  BY <1>1 DEF Work
<1>3. work' = [work EXCEPT ![r] = w]
  BY <1>1 DEF Moves
<1> QED
  BY <1>2, <1>3

LEMMA CommitCompleteKept ==
  ASSUME NoticesInv, NEW r \in Requests, CommitComplete(r)
  PROVE  NoticesInv'
<1>1. /\ work[r].op = "complete" /\ work[r].phase = "read" /\ UNCHANGED <<review, task, notice>>
      /\ work \in [Requests -> Work] /\ work[r].about \in Bookings /\ ReviewTxAlone
  BY DEF CommitComplete, NoticesInv, WorkShape
<1>2. CASE ~CertificateFree(work[r].about)
  BY <1>1, <1>2, EndsKept DEF CommitComplete
<1>3. CASE CertificateFree(work[r].about)
  <2>1. completed' = completed \cup {work[r].about} /\ Moves(r, "emit") /\ work[r].about \notin completed
    BY <1>3 DEF CommitComplete, CertificateFree
  <2>2. PICK w \in Work : /\ work' = [work EXCEPT ![r] = w]
                          /\ w.phase = "emit" /\ w.op = "complete" /\ w.about = work[r].about
    BY <1>1, <2>1, Moved
  <2>3. work' \in [Requests -> Work] /\ work'[r] = w /\ \A q \in Requests \ {r} : work'[q] = work[q]
    BY <1>1, <2>2
  <2>4. WorkShape' /\ ReviewTxAlone'
    BY <1>1, <2>2, <2>3, EventFacts, OneWorks DEF ReviewTxAlone
  <2>5. PICK b \in Bookings : b = work[r].about
    BY <1>1
  <2>6. ~Happened("COMPLETED", b) /\ Happened("COMPLETED", b)'
    BY <2>1, <2>5 DEF Happened
  <2>7. \A f \in Events, c \in Bookings : Happened(f, c) => Happened(f, c)'
    BY <1>1, <2>1, EventFacts DEF Happened
  <2>8. \A f \in Events, c \in Bookings, q \in Requests :
          Emits(q, f, c)' => Emits(q, f, c) \/ (q = r /\ f = "COMPLETED" /\ c = b)
    BY <2>2, <2>3, <2>5, EventFacts DEF Emits
  <2>9. ToldByOne'
    BY <1>1, <2>5, <2>6, <2>7, <2>8, EventFacts, OneNew
  <2> QED
    BY <1>1, <2>1, <2>4, <2>9 DEF NoticesInv, NoticeOnce
<1> QED
  BY <1>2, <1>3

LEMMA CreateReplyKept ==
  ASSUME NoticesInv, NEW r \in Requests, CreateReply(r)
  PROVE  NoticesInv'
<1>1. /\ work[r].op = "reply" /\ work[r].phase = "read" /\ UNCHANGED <<completed, task, notice>>
      /\ work \in [Requests -> Work] /\ work[r].about \in Bookings /\ ReviewTxAlone
      /\ review \in [Bookings -> Review]
  BY DEF CreateReply, NoticesInv, WorkShape
<1>2. CASE ~ReplyFree(work[r].about)
  BY <1>1, <1>2, EndsKept DEF CreateReply
<1>3. CASE ReplyFree(work[r].about)
  <2>0. PICK b \in Bookings : b = work[r].about
    BY <1>1
  <2>1. review' = [review EXCEPT ![b] = [ review[b] EXCEPT !.replied = TRUE ]] /\ Moves(r, "emit")
        /\ ~review[b].replied
    BY <1>1, <1>3, <2>0 DEF CreateReply, ReplyFree
  <2>2. PICK w \in Work : /\ work' = [work EXCEPT ![r] = w]
                          /\ w.phase = "emit" /\ w.op = "reply" /\ w.about = b
    BY <1>1, <2>0, <2>1, Moved
  <2>3. work' \in [Requests -> Work] /\ work'[r] = w /\ \A q \in Requests \ {r} : work'[q] = work[q]
    BY <1>1, <2>2
  <2>4. /\ [ review[b] EXCEPT !.replied = TRUE ] \in Review
        /\ [ review[b] EXCEPT !.replied = TRUE ].replied
        /\ [ review[b] EXCEPT !.replied = TRUE ].state = review[b].state
    BY <1>1 DEF Review
  <2>5. /\ review' \in [Bookings -> Review] /\ review'[b].replied
        /\ \A c \in Bookings : review'[c].state = review[c].state
        /\ \A c \in Bookings \ {b} : review'[c] = review[c]
    BY <1>1, <2>1, <2>4
  <2>6. WorkShape' /\ ReviewTxAlone'
    BY <1>1, <2>2, <2>3, <2>5, EventFacts, OneWorks DEF ReviewTxAlone
  <2>7. ~Happened("REPLIED", b) /\ Happened("REPLIED", b)'
    BY <2>1, <2>5 DEF Happened
  <2>8. \A f \in Events, c \in Bookings : Happened(f, c) => Happened(f, c)'
    BY <1>1, <2>1, <2>5, EventFacts DEF Happened
  <2>9. \A f \in Events, c \in Bookings, q \in Requests :
          Emits(q, f, c)' => Emits(q, f, c) \/ (q = r /\ f = "REPLIED" /\ c = b)
    BY <2>2, <2>3, EventFacts DEF Emits
  <2>10. ToldByOne'
    BY <1>1, <2>7, <2>8, <2>9, EventFacts, OneNew
  <2> QED
    BY <1>1, <2>5, <2>6, <2>10 DEF NoticesInv, NoticeOnce
<1> QED
  BY <1>2, <1>3

LEMMA WriteReviewKept ==
  ASSUME NoticesInv, NEW r \in Requests, WriteReview(r)
  PROVE  NoticesInv'
<1>1. /\ work[r].op \in Changes /\ work[r].phase = "read" /\ work[r].about \in Bookings
      /\ \A q \in Requests : InReviewTx(q) => work[q].about # work[r].about
      /\ UNCHANGED <<completed, review, task, notice>>
  BY DEF WriteReview, NoticesInv, WorkShape
<1>2. CASE Ends(r)
  BY <1>1, <1>2, EndsKept
<1>3. CASE /\ Moves(r, "written")
           /\ ~(work[r].op = "create" /\ review[work[r].about].state # "none")
  <2>1. PICK w \in Work : /\ work' = [work EXCEPT ![r] = w]
                          /\ w.phase = "written" /\ w.op = work[r].op /\ w.about = work[r].about
    BY <1>3, Moved
  <2> QED
    BY <1>1, <1>3, <2>1, QuietStep
<1> QED
  BY <1>2, <1>3 DEF WriteReview

\* What r's transaction leaves is a review, and never none.
LEMMA WrittenFacts ==
  ASSUME NoticesInv, NEW r \in Requests, InReviewTx(r)
  PROVE  /\ SeenBy(r) \in [Bookings -> Review] /\ Recomputed(r) \in SUBSET (Bookings \X Ratings)
         /\ \A c \in Bookings \ {work[r].about} : SeenBy(r)[c] = review[c]
         /\ SeenBy(r)[work[r].about].replied = review[work[r].about].replied
         /\ review[work[r].about].state # "none" => SeenBy(r)[work[r].about].state # "none"
         /\ work[r].op = "create" => SeenBy(r)[work[r].about].state # "none"
<1>1. /\ work[r] \in Work /\ work[r].op \in Changes /\ work[r].about \in Bookings
      /\ review \in [Bookings -> Review]
  BY DEF NoticesInv, WorkShape, ReviewTxAlone
<1> DEFINE b == work[r].about
           old == review[b]
<1>2. old \in Review /\ work[r].rating \in Ratings
  BY <1>1 DEF Work
<1>3. /\ [ old EXCEPT !.state = "VISIBLE", !.rating = work[r].rating ] \in Review
      /\ [ old EXCEPT !.rating = work[r].rating ] \in Review
      /\ [ old EXCEPT !.state = "HIDDEN" ] \in Review
      /\ [ old EXCEPT !.state = "VISIBLE" ] \in Review
  BY <1>2 DEF Review
<1>4. /\ [ old EXCEPT !.state = "VISIBLE", !.rating = work[r].rating ].state = "VISIBLE"
      /\ [ old EXCEPT !.rating = work[r].rating ].state = old.state
      /\ [ old EXCEPT !.state = "HIDDEN" ].state = "HIDDEN"
      /\ [ old EXCEPT !.state = "VISIBLE" ].state = "VISIBLE"
      /\ [ old EXCEPT !.state = "VISIBLE", !.rating = work[r].rating ].replied = old.replied
      /\ [ old EXCEPT !.rating = work[r].rating ].replied = old.replied
      /\ [ old EXCEPT !.state = "HIDDEN" ].replied = old.replied
      /\ [ old EXCEPT !.state = "VISIBLE" ].replied = old.replied
  BY <1>2 DEF Review
<1>5. /\ work[r].op = "create" => Written(r) = [ old EXCEPT !.state = "VISIBLE", !.rating = work[r].rating ]
      /\ work[r].op = "edit" => Written(r) = [ old EXCEPT !.rating = work[r].rating ]
      /\ work[r].op = "hide" => Written(r) = [ old EXCEPT !.state = "HIDDEN" ]
      /\ work[r].op = "unhide" => Written(r) = [ old EXCEPT !.state = "VISIBLE" ]
  BY DEF Written
<1> HIDE DEF old
<1>6. /\ Written(r) \in Review /\ Written(r).replied = old.replied
      /\ old.state # "none" => Written(r).state # "none"
      /\ work[r].op = "create" => Written(r).state # "none"
  BY <1>1, <1>3, <1>4, <1>5 DEF Changes
<1>7. /\ SeenBy(r) \in [Bookings -> Review] /\ SeenBy(r)[b] = Written(r)
      /\ \A c \in Bookings \ {b} : SeenBy(r)[c] = review[c]
  BY <1>1, <1>6 DEF SeenBy
<1>8. Recomputed(r) \in SUBSET (Bookings \X Ratings)
  <2>1. \A c \in Bookings : SeenBy(r)[c].rating \in Ratings
    BY <1>7 DEF Review
  <2> QED
    BY <2>1 DEF Recomputed, RatingsOf
<1> QED
  BY <1>6, <1>7, <1>8 DEF old

LEMMA CountRatingsKept ==
  ASSUME NoticesInv, NEW r \in Requests, CountRatings(r)
  PROVE  NoticesInv'
<1>1. /\ work[r].phase = "written" /\ InReviewTx(r) /\ work[r] \in Work
      /\ UNCHANGED <<completed, review, task, notice>>
      /\ work' = [work EXCEPT ![r] = [ work[r] EXCEPT !.phase = "counted", !.counted = Recomputed(r) ]]
  BY DEF CountRatings, NoticesInv, WorkShape, InReviewTx
<1> DEFINE w == [ work[r] EXCEPT !.phase = "counted", !.counted = Recomputed(r) ]
<1>2. w \in Work /\ w.phase = "counted" /\ w.op = work[r].op /\ w.about = work[r].about
  BY <1>1, WrittenFacts DEF Work
<1>3. /\ work[r].op \in Changes /\ work[r].about \in Bookings
      /\ \A q \in Requests : InReviewTx(q) /\ work[q].about = work[r].about => q = r
      /\ work[r].op = "create" => review[work[r].about].state = "none"
  BY <1>1 DEF NoticesInv, ReviewTxAlone
<1> HIDE DEF w
<1> QED
  BY <1>1, <1>2, <1>3, QuietStep DEF w

LEMMA CommitReviewKept ==
  ASSUME NoticesInv, NEW r \in Requests, CommitReview(r)
  PROVE  NoticesInv'
<1>1. /\ work[r].phase = "counted" /\ InReviewTx(r) /\ work \in [Requests -> Work] /\ ReviewTxAlone
      /\ UNCHANGED <<completed, task, notice>> /\ review' = SeenBy(r)
  BY DEF CommitReview, NoticesInv, WorkShape, InReviewTx
<1>2. PICK b \in Bookings : b = work[r].about
  BY <1>1 DEF ReviewTxAlone
<1>3. /\ review' \in [Bookings -> Review]
      /\ \A c \in Bookings \ {b} : review'[c] = review[c]
      /\ review'[b].replied = review[b].replied
      /\ review[b].state # "none" => review'[b].state # "none"
      /\ work[r].op = "create" => review[b].state = "none" /\ review'[b].state # "none"
  BY <1>1, <1>2, WrittenFacts DEF ReviewTxAlone
<1>4. PICK w \in Work :
        /\ work'[r] = w
        /\ \/ work[r].op = "create" /\ w.phase = "emit" /\ w.op = "create" /\ w.about = b
           \/ work[r].op # "create" /\ w.phase = "idle"
  <2>1. CASE work[r].op = "create"
    <3> DEFINE w == [ work[r] EXCEPT !.phase = "emit", !.counted = {}, !.stale = FALSE ]
    <3>1. w \in Work /\ w.phase = "emit" /\ w.op = work[r].op /\ w.about = work[r].about
      BY <1>1 DEF Work
    <3>2. work'[r] = w
      BY <2>1 DEF CommitReview
    <3> QED
      BY <1>2, <2>1, <3>1, <3>2
  <2>2. CASE work[r].op # "create"
    <3>1. work'[r] = NoWork
      BY <2>2 DEF CommitReview
    <3> QED
      BY <2>2, <3>1, ReviewTypes
  <2> QED
    BY <2>1, <2>2
<1>5. ASSUME NEW q \in Requests \ {r}
      PROVE  /\ work'[q] \in Work /\ work'[q].op = work[q].op /\ work'[q].phase = work[q].phase
             /\ work'[q].about = work[q].about
  <2>1. work'[q] = [ work[q] EXCEPT !.stale = (work[q].phase = "counted") ]
    BY DEF CommitReview
  <2>2. (work[q].phase = "counted") \in BOOLEAN
    OBVIOUS
  <2> QED
    BY <1>1, <2>1, <2>2 DEF Work
<1>6. work' \in [Requests -> Work]
  <2>1. work' = [q \in Requests |-> work'[q]]
    BY DEF CommitReview
  <2>2. \A q \in Requests : work'[q] \in Work
    BY <1>4, <1>5
  <2> QED
    BY <2>1, <2>2
<1>7. ASSUME NEW q \in Requests \ {r}, InReviewTx(q), work[q].op = "create"
      PROVE  review'[work[q].about].state = "none"
  BY <1>1, <1>2, <1>3, <1>7 DEF ReviewTxAlone
<1>8. WorkShape' /\ ReviewTxAlone'
  BY <1>2, <1>4, <1>5, <1>6, <1>7, EventFacts, OneWorks
<1>9. \A f \in Events, c \in Bookings : Happened(f, c) => Happened(f, c)'
  BY <1>1, <1>3, EventFacts DEF Happened
<1>10. ToldByOne'
  <2>1. CASE work[r].op = "create"
    <3>1. ~Happened("REVIEWED", b) /\ Happened("REVIEWED", b)'
      BY <1>3, <2>1 DEF Happened
    <3>2. \A f \in Events, c \in Bookings, q \in Requests :
            Emits(q, f, c)' => Emits(q, f, c) \/ (q = r /\ f = "REVIEWED" /\ c = b)
      BY <1>4, <1>5, <2>1, EventFacts DEF Emits
    <3> QED
      BY <1>1, <1>9, <3>1, <3>2, EventFacts, OneNew
  <2>2. CASE work[r].op # "create"
    <3>1. \A f \in Events, c \in Bookings, q \in Requests : Emits(q, f, c)' => Emits(q, f, c)
      BY <1>4, <1>5, <2>2 DEF Emits
    <3> QED
      BY <1>1, <1>9, <3>1, NobodyNew
  <2> QED
    BY <2>1, <2>2
<1> QED
  BY <1>1, <1>3, <1>8, <1>10 DEF NoticesInv, NoticeOnce

-----------------------------------------------------------------------------
(* Each step of the listeners *)

LEMMA EmitKept ==
  ASSUME NoticesInv, NEW r \in Requests, Emit(r)
  PROVE  NoticesInv'
<1>1. /\ work[r].phase = "emit" /\ work[r].op \in DOMAIN EventOf /\ work[r].about \in Bookings
      /\ task' = Emitted(EventOf[work[r].op], work[r].about, r) /\ Ends(r)
      /\ UNCHANGED <<completed, review, notice>>
      /\ work \in [Requests -> Work] /\ ReviewTxAlone /\ ToldByOne
  BY DEF Emit, NoticesInv, WorkShape
<1>2. PICK e \in Events, b \in Bookings : e = EventOf[work[r].op] /\ b = work[r].about /\ Emits(r, e, b)
  BY <1>1, EventFacts DEF Emits
<1>3. /\ work' \in [Requests -> Work] /\ work'[r].phase = "idle"
      /\ \A q \in Requests \ {r} : work'[q] = work[q]
  BY <1>1, ReviewTypes DEF Ends
<1>4. WorkShape' /\ ReviewTxAlone'
  BY <1>1, <1>3, OneWorks DEF ReviewTxAlone
<1> DEFINE new == NewTask("notice", e, b, r)
           award == NewTask("reward", e, b, r)
<1>5. /\ new \in Task /\ new.listener = "notice" /\ new.event = e /\ new.about = b /\ new.step = 1
      /\ award \in Task /\ award.listener = "reward" /\ award.about = b /\ award.step = 1
      /\ award.event = e
  BY AftermathAssumption DEF NewTask, Task, AftermathAssumption
<1>6. task' \subseteq task \cup {new, award} /\ new \in task'
  BY <1>1, <1>2 DEF Emitted
<1> HIDE DEF new, award
<1>7. task' \subseteq Task /\ \A k \in task' : k.about \in Bookings /\ k.step <= Len(TypesOf[k.event])
  <2>1. PICK n \in 1 .. 2 : n = Len(TypesOf[e])
    BY TypeFacts
  <2>2. 1 <= n
    OBVIOUS
  <2> QED
    BY <1>5, <1>6, <2>1, <2>2 DEF NoticesInv
<1>8. ToldByOne'
  <2> SUFFICES ASSUME NEW f \in Events, NEW c \in Bookings
      PROVE  /\ \A q \in Requests : Emits(q, f, c)' =>
                  /\ Happened(f, c)' /\ ToSend(f, c, 1)'
                  /\ \A p \in Requests : Emits(p, f, c)' => p = q
                  /\ \A k \in task' : ~Tells(k, f, c)
             /\ \A k \in task' : Tells(k, f, c) =>
                  /\ Happened(f, c)' /\ ToSend(f, c, k.step)'
                  /\ \A l \in task' : Tells(l, f, c) => l = k
             /\ ~Happened(f, c)' => ToSend(f, c, 1)'
    BY DEF ToldByOne, Tells
  <2>0. /\ Happened(f, c)' = Happened(f, c) /\ \A i \in {1} : ToSend(f, c, i)' = ToSend(f, c, i)
        /\ \A k : ToSend(f, c, k.step)' = ToSend(f, c, k.step)
        /\ \A q \in Requests : Emits(q, f, c)' => q # r /\ Emits(q, f, c)
    BY <1>1, <1>3 DEF Happened, ToSend, Emits
  <2>1. CASE f = e /\ c = b
    <3>1. /\ Happened(e, b) /\ ToSend(e, b, 1)
          /\ \A q \in Requests : Emits(q, e, b) => q = r
          /\ \A k \in task : ~Tells(k, e, b)
      BY <1>1, <1>2 DEF ToldByOne
    <3>2. \A k \in task' : Tells(k, e, b) => k = new
      BY <1>5, <1>6, <3>1 DEF Tells
    <3> QED
      BY <1>5, <1>6, <2>0, <2>1, <3>1, <3>2 DEF Tells
  <2>2. CASE ~(f = e /\ c = b)
    <3>1. \A k \in task' : Tells(k, f, c) => k \in task
      BY <1>5, <1>6, <2>2 DEF Tells
    <3> QED
      BY <1>1, <2>0, <3>1 DEF ToldByOne
  <2> QED
    BY <2>1, <2>2
<1> QED
  BY <1>1, <1>4, <1>7, <1>8 DEF NoticesInv, NoticeOnce

\* The listener's call goes on as l, or ends, and has sent what it was at.
LEMMA TaskGoesOn ==
  ASSUME NoticesInv, NEW k \in task, k.listener = "notice", NEW left,
         task' = (task \ {k}) \cup left,
         \A l \in left : /\ l \in Task /\ l.step <= Len(TypesOf[l.event])
                         /\ l.listener = "notice" /\ l.event = k.event /\ l.about = k.about
                         /\ ToSend(k.event, k.about, l.step)'
                         /\ \A m \in left : m = l,
         UNCHANGED <<completed, review, work>>,
         \A f \in Events, c \in Bookings : ~(f = k.event /\ c = k.about) =>
           \A i \in 1 .. 2 : ToSend(f, c, i) => ToSend(f, c, i)',
         notice' \in [Types \X Sources -> Nat], NoticeOnce'
  PROVE  NoticesInv'
<1>1. k \in Task /\ k.event \in Events /\ k.about \in Bookings /\ ToldByOne
  BY DEF NoticesInv, Task
<1>2. /\ Happened(k.event, k.about) /\ \A q \in Requests : ~Emits(q, k.event, k.about)
      /\ \A l \in task : Tells(l, k.event, k.about) => l = k
  <2>1. Tells(k, k.event, k.about)
    BY DEF Tells
  <2> QED
    BY <1>1, <2>1 DEF ToldByOne
<1>3. ToldByOne'
  <2> SUFFICES ASSUME NEW f \in Events, NEW c \in Bookings
      PROVE  /\ \A q \in Requests : Emits(q, f, c)' =>
                  /\ Happened(f, c)' /\ ToSend(f, c, 1)'
                  /\ \A p \in Requests : Emits(p, f, c)' => p = q
                  /\ \A l \in task' : ~Tells(l, f, c)
             /\ \A l \in task' : Tells(l, f, c) =>
                  /\ Happened(f, c)' /\ ToSend(f, c, l.step)'
                  /\ \A m \in task' : Tells(m, f, c) => m = l
             /\ ~Happened(f, c)' => ToSend(f, c, 1)'
    BY DEF ToldByOne, Tells
  <2>0. /\ Happened(f, c)' = Happened(f, c)
        /\ \A q \in Requests : Emits(q, f, c)' = Emits(q, f, c)
    BY DEF Happened, Emits
  <2>1. CASE f = k.event /\ c = k.about
    <3>1. \A l \in task' : Tells(l, f, c) => l \in left
      BY <1>2, <2>1
    <3> QED
      BY <1>2, <2>0, <2>1, <3>1
  <2>2. CASE ~(f = k.event /\ c = k.about)
    <3>1. \A l \in task' : Tells(l, f, c) => l \in task /\ l.step \in 1 .. 2
      BY <2>2 DEF Tells, NoticesInv, Task
    <3> QED
      BY <1>1, <2>0, <2>2, <3>1 DEF ToldByOne
  <2> QED
    BY <2>1, <2>2
<1>4. task' \subseteq Task /\ \A l \in task' : l.about \in Bookings /\ l.step <= Len(TypesOf[l.event])
  BY <1>1 DEF NoticesInv
<1>5. WorkShape' /\ ReviewTxAlone'
  BY DEF NoticesInv, WorkShape, ReviewTxAlone, InReviewTx
<1> QED
  BY <1>3, <1>4, <1>5 DEF NoticesInv

\* After() keeps the call with its next notification, if there is one.
LEMMA AfterIs ==
  ASSUME NEW k \in Task
  PROVE  \E left : /\ After(k) = (task \ {k}) \cup left
                   /\ \A l \in left : /\ l \in Task /\ l.step <= Len(TypesOf[l.event])
                                      /\ l.listener = k.listener /\ l.event = k.event /\ l.about = k.about
                                      /\ l.step = k.step + 1 /\ k.step = 1 /\ \A m \in left : m = l
<1>1. CASE k.step < Len(TypesOf[k.event])
  <2> DEFINE l == [ k EXCEPT !.step = k.step + 1, !.passed = FALSE ]
  <2>1. k.event \in Events /\ Len(TypesOf[k.event]) \in 1 .. 2 /\ k.step \in 1 .. 2
    BY TypeFacts DEF Task
  <2>2. k.step = 1 /\ k.step + 1 \in 1 .. 2
    <3>1. PICK n \in 1 .. 2, i \in 1 .. 2 : n = Len(TypesOf[k.event]) /\ i = k.step
      BY <2>1
    <3>2. i < n
      BY <1>1, <3>1
    <3>3. i = 1
      BY <3>2
    <3> QED
      BY <3>1, <3>3
  <2>3. /\ l \in Task /\ l.listener = k.listener /\ l.event = k.event /\ l.about = k.about
        /\ l.step = k.step + 1
    BY <2>2 DEF Task
  <2>4. After(k) = (task \ {k}) \cup {l}
    BY <1>1 DEF After
  <2> HIDE DEF l
  <2>5. \A m \in {l} : /\ m \in Task /\ m.step <= Len(TypesOf[m.event])
                       /\ m.listener = k.listener /\ m.event = k.event /\ m.about = k.about
                       /\ m.step = k.step + 1 /\ k.step = 1 /\ \A n \in {l} : n = m
    BY <1>1, <2>1, <2>2, <2>3
  <2> QED
    BY <2>4, <2>5
<1>2. CASE ~(k.step < Len(TypesOf[k.event]))
  <2>1. After(k) = (task \ {k}) \cup {}
    BY <1>2 DEF After
  <2> QED
    BY <2>1
<1> QED
  BY <1>1, <1>2

\* What is to be sent from one notification on includes what is from the next.
LEMMA ToSendNext ==
  ASSUME NEW e, NEW b, NEW i \in 1 .. 2, ToSend(e, b, i)
  PROVE  ToSend(e, b, i + 1)
BY DEF ToSend

LEMMA CheckPreferenceKept ==
  ASSUME NoticesInv, NEW k \in task, CheckPreference(k), UNCHANGED <<completed, review, work>>
  PROVE  NoticesInv'
<1>1. /\ k.listener = "notice" /\ UNCHANGED notice /\ k \in Task
      /\ k.event \in Events /\ k.about \in Bookings /\ k.step \in 1 .. 2
      /\ k.step <= Len(TypesOf[k.event])
      /\ NoticeOnce /\ notice \in [Types \X Sources -> Nat]
  BY DEF CheckPreference, NoticesInv, Task
<1>2. ToSend(k.event, k.about, k.step)
  BY <1>1 DEF NoticesInv, ToldByOne, Tells
<1>3. \A f \in Events, c \in Bookings : ~(f = k.event /\ c = k.about) =>
        \A i \in 1 .. 2 : ToSend(f, c, i) => ToSend(f, c, i)'
  BY <1>1 DEF ToSend
<1>4. NoticeOnce' /\ notice' \in [Types \X Sources -> Nat]
  BY <1>1 DEF NoticeOnce
<1>5. CASE task' = After(k)
  <2>1. PICK left :
          /\ After(k) = (task \ {k}) \cup left
          /\ \A l \in left : /\ l \in Task /\ l.step <= Len(TypesOf[l.event])
                             /\ l.listener = k.listener /\ l.event = k.event /\ l.about = k.about
                             /\ l.step = k.step + 1 /\ k.step = 1 /\ \A m \in left : m = l
    BY <1>1, AfterIs
  <2>2. \A l \in left : ToSend(k.event, k.about, l.step)'
    BY <1>1, <1>2, <2>1, ToSendNext DEF ToSend
  <2>3. \A l \in left : /\ l \in Task /\ l.step <= Len(TypesOf[l.event])
                        /\ l.listener = "notice" /\ l.event = k.event /\ l.about = k.about
                        /\ ToSend(k.event, k.about, l.step)'
                        /\ \A m \in left : m = l
    BY <1>1, <2>1, <2>2
  <2> QED
    BY <1>1, <1>3, <1>4, <1>5, <2>1, <2>3, TaskGoesOn
<1>6. CASE task' = (task \ {k}) \cup {[ k EXCEPT !.passed = TRUE ]}
  <2> DEFINE l == [ k EXCEPT !.passed = TRUE ]
  <2>1. l \in Task /\ l.listener = k.listener /\ l.event = k.event /\ l.about = k.about /\ l.step = k.step
    BY <1>1 DEF Task
  <2>2. task' = (task \ {k}) \cup {l}
    BY <1>6
  <2> HIDE DEF l
  <2>3. PICK left : left = {l}
    OBVIOUS
  <2>4. \A m \in left : /\ m \in Task /\ m.step <= Len(TypesOf[m.event])
                       /\ m.listener = "notice" /\ m.event = k.event /\ m.about = k.about
                       /\ ToSend(k.event, k.about, m.step)'
                       /\ \A n \in left : n = m
    BY <1>1, <1>2, <2>1, <2>3 DEF ToSend
  <2> QED
    BY <1>1, <1>3, <1>4, <2>2, <2>3, <2>4, TaskGoesOn
<1> QED
  BY <1>5, <1>6 DEF CheckPreference

LEMMA CreateNoticeKept ==
  ASSUME NoticesInv, NEW k \in task, CreateNotice(k), UNCHANGED <<completed, review, work>>
  PROVE  NoticesInv'
<1> DEFINE row == <<TypesOf[k.event][k.step], k.about>>
<1>1. /\ k.listener = "notice" /\ task' = After(k) /\ k \in Task
      /\ notice' = [notice EXCEPT ![row] = notice[row] + 1]
      /\ k.event \in Events /\ k.about \in Bookings /\ k.step \in 1 .. 2
      /\ k.step <= Len(TypesOf[k.event])
      /\ NoticeOnce /\ notice \in [Types \X Sources -> Nat]
  BY DEF CreateNotice, NoticesInv, Task
<1>2. ToSend(k.event, k.about, k.step)
  BY <1>1 DEF NoticesInv, ToldByOne, Tells
<1>3. row \in Types \X Sources /\ notice[row] = 0
  <2>1. Len(TypesOf[k.event]) \in 1 .. 2
    BY <1>1, TypeFacts
  <2>2. TypesOf[k.event][k.step] \in Types /\ k.about \in Sources
    BY <1>1, TypeFacts, AftermathAssumption DEF AftermathAssumption
  <2>3. k.step \in k.step .. Len(TypesOf[k.event])
    BY <1>1, <2>1
  <2> QED
    BY <1>2, <2>2, <2>3 DEF ToSend
<1>4. /\ notice' \in [Types \X Sources -> Nat] /\ NoticeOnce'
      /\ \A n \in Types \X Sources : n # row => notice'[n] = notice[n]
  BY <1>1, <1>3 DEF NoticeOnce
<1>5. ASSUME NEW f \in Events, NEW c \in Bookings, NEW i \in 1 .. 2, ToSend(f, c, i),
             ~(f = k.event /\ c = k.about) \/ i > k.step
      PROVE  ToSend(f, c, i)'
  <2> SUFFICES ASSUME NEW j \in i .. Len(TypesOf[f])
               PROVE  notice'[<<TypesOf[f][j], c>>] = 0
    BY DEF ToSend
  <2>1. Len(TypesOf[f]) \in 1 .. 2 /\ j \in 1 .. 2 /\ j <= Len(TypesOf[f])
    <3>1. PICK n \in 1 .. 2 : n = Len(TypesOf[f])
      BY TypeFacts
    <3>2. j \in i .. n
      BY <3>1
    <3>3. j \in 1 .. 2 /\ j <= n
      BY <3>2
    <3> QED
      BY <3>1, <3>3
  <2>2. <<TypesOf[f][j], c>> \in Types \X Sources
    BY <2>1, TypeFacts, AftermathAssumption DEF AftermathAssumption
  <2>3. <<TypesOf[f][j], c>> # row
    BY <1>1, <1>5, <2>1, TypeFacts
  <2>4. notice[<<TypesOf[f][j], c>>] = 0
    BY <1>5 DEF ToSend
  <2> QED
    BY <1>4, <2>2, <2>3, <2>4
<1>6. PICK left :
        /\ After(k) = (task \ {k}) \cup left
        /\ \A l \in left : /\ l \in Task /\ l.step <= Len(TypesOf[l.event])
                           /\ l.listener = k.listener /\ l.event = k.event /\ l.about = k.about
                           /\ l.step = k.step + 1 /\ k.step = 1 /\ \A m \in left : m = l
  BY <1>1, AfterIs
<1>7. \A l \in left : ToSend(k.event, k.about, l.step)'
  <2> SUFFICES ASSUME NEW l \in left PROVE ToSend(k.event, k.about, 2)'
    BY <1>6
  <2>1. ToSend(k.event, k.about, 2)
    BY <1>2, <1>6, ToSendNext
  <2> QED
    BY <1>1, <1>5, <1>6, <2>1
<1>8. \A l \in left : /\ l \in Task /\ l.step <= Len(TypesOf[l.event])
                      /\ l.listener = "notice" /\ l.event = k.event /\ l.about = k.about
                      /\ ToSend(k.event, k.about, l.step)'
                      /\ \A m \in left : m = l
  BY <1>1, <1>6, <1>7
<1>9. \A f \in Events, c \in Bookings : ~(f = k.event /\ c = k.about) =>
        \A i \in 1 .. 2 : ToSend(f, c, i) => ToSend(f, c, i)'
  BY <1>5
<1> HIDE DEF row
<1> QED
  BY <1>1, <1>4, <1>6, <1>8, <1>9, TaskGoesOn

\* The rest tells nobody anything: rewards, preferences, a crash.
LEMMA OthersKept ==
  ASSUME NoticesInv,
         \/ \E k \in task : CountCompleted(k) \/ CreateReward(k)
         \/ UNCHANGED <<completed, review, work, task, notice>>
         \/ Crash
  PROVE  NoticesInv'
<1>1. CASE \E k \in task : CountCompleted(k) \/ CreateReward(k)
  <2>1. PICK k \in task : CountCompleted(k) \/ CreateReward(k)
    BY <1>1
  <2> DEFINE l == [ k EXCEPT !.passed = TRUE ]
  <2>2. k \in Task /\ k.listener = "reward" /\ k.about \in Bookings /\ k.step <= Len(TypesOf[k.event])
    BY <2>1 DEF NoticesInv, CountCompleted, CreateReward
  <2>3. /\ l \in Task /\ l.listener = "reward" /\ l.about = k.about /\ l.event = k.event
        /\ l.step = k.step
    BY <2>2 DEF Task
  <2>4. task' \subseteq task \cup {l} /\ UNCHANGED <<completed, review, work, notice>>
    BY <2>1 DEF CountCompleted, CreateReward
  <2> HIDE DEF l
  <2>5. task' \subseteq Task /\ \A m \in task' : m.about \in Bookings /\ m.step <= Len(TypesOf[m.event])
    BY <2>2, <2>3, <2>4 DEF NoticesInv
  <2>6. ToldByOne'
    BY <2>3, <2>4, NobodyNew DEF Happened, Emits
  <2> QED
    BY <2>4, <2>5, <2>6 DEF NoticesInv, NoticeOnce, WorkShape, ReviewTxAlone, InReviewTx
<1>2. CASE UNCHANGED <<completed, review, work, task, notice>>
  <2>1. ToldByOne'
    BY <1>2, NobodyNew DEF Happened, Emits
  <2> QED
    BY <1>2, <2>1 DEF NoticesInv, NoticeOnce, WorkShape, ReviewTxAlone, InReviewTx
<1>3. CASE Crash
  <2>1. /\ work' = [r \in Requests |-> NoWork] /\ task' = {} /\ UNCHANGED <<completed, review, notice>>
    BY <1>3 DEF Crash
  <2>2. work' \in [Requests -> Work] /\ \A r \in Requests : work'[r].phase = "idle"
    BY <2>1, ReviewTypes
  <2>3. WorkShape' /\ ReviewTxAlone'
    BY <2>2 DEF WorkShape, ReviewTxAlone, InReviewTx
  <2>4. ToldByOne'
    BY <2>1, <2>2, NobodyNew DEF Happened, Emits
  <2> QED
    BY <2>1, <2>3, <2>4 DEF NoticesInv, NoticeOnce
<1> QED
  BY <1>1, <1>2, <1>3

LEMMA NoticesKept ==
  ASSUME NoticesInv, [NextAftermath]_aftermathVars
  PROVE  NoticesInv'
<1>1. CASE UNCHANGED aftermathVars
  BY <1>1, OthersKept DEF aftermathVars
<1>2. CASE NextAftermath
  <2>1. CASE \E r \in Requests, b \in Bookings, n \in Ratings :
          /\ BeginComplete(r, b) \/ BeginCreate(r, b, n) \/ BeginChange(r, b, n) \/ BeginReply(r, b)
          /\ UNCHANGED <<completed, reward, review, rating, crashes, task, notice, muted>>
    BY <2>1, BeginsWorkKept
  <2>2. CASE \E r \in Requests : Steps(r)
    BY <2>2, CommitCompleteKept, EmitKept, CreateReplyKept, WriteReviewKept, CountRatingsKept,
       CommitReviewKept DEF Steps
  <2>3. CASE Listeners
    BY <2>3, CheckPreferenceKept, CreateNoticeKept, OthersKept DEF Listeners, ListenerStep
  <2>4. CASE \E type \in Mutable : "mute" \in menu /\ UpdatePreference(type)
                              /\ UNCHANGED <<completed, reward, review, rating, work, crashes>>
    BY <2>4, OthersKept DEF UpdatePreference
  <2>5. CASE Crash
    BY <2>5, OthersKept
  <2> QED
    BY <1>2, <2>1, <2>2, <2>3, <2>4, <2>5 DEF NextAftermath
<1> QED
  BY <1>1, <1>2

\* BookingNotificationsListener, ReviewNotificationsListener: nobody is notified twice of one
\* completion, review or reply, whatever requests race to cause it.
THEOREM NotifiedOnce == AftermathSpec => []NoticeOnce
<1>1. InitAftermath => NoticesInv
  BY NoticesStart
<1>2. NoticesInv /\ [NextAftermath]_aftermathVars => NoticesInv'
  BY NoticesKept
<1>3. NoticesInv => NoticeOnce
  BY DEF NoticesInv
<1> QED
  BY <1>1, <1>2, <1>3, PTL DEF AftermathSpec

-----------------------------------------------------------------------------
(* The shape of what follows a completed booking *)

\* Only of completed bookings are there reviews, and requests and calls about them.
Followers ==
  /\ \A b \in Bookings : review[b].state # "none" => b \in completed
  /\ \A r \in Requests : work[r].phase # "idle" /\ work[r].op \in Changes => work[r].about \in completed
  /\ \A k \in task : k.listener = "reward" => k.about \in completed
  /\ reward \in completed \cup {None}
FiguresShape ==
  /\ rating \subseteq Bookings \X Ratings
  /\ crashes \in 0 .. MaxCrashes /\ menu \in Menus /\ muted \subseteq Mutable

LEMMA AftermathTypeIs ==
  NoticesInv /\ Followers /\ FiguresShape => AftermathTypeOK
BY DEF NoticesInv, WorkShape, Followers, FiguresShape, AftermathTypeOK

LEMMA RatedBookings ==
  ASSUME NEW reviews \in [Bookings -> Review]
  PROVE  RatingsOf(reviews) \in SUBSET (Bookings \X Ratings)
BY DEF RatingsOf, Review

LEMMA FollowersStart ==
  ASSUME InitAftermath
  PROVE  Followers /\ FiguresShape
<1>1. review \in [Bookings -> Review]
  BY NoticesStart DEF NoticesInv
<1>2. rating \subseteq Bookings \X Ratings
  BY <1>1, RatedBookings DEF InitAftermath
<1>3. \A b \in Bookings : review[b].state # "none" => b \in completed
  <2>1. CASE "complete" \in menu
    BY <2>1 DEF InitAftermath, NoReview
  <2>2. CASE "complete" \notin menu
    BY <2>2 DEF InitAftermath
  <2> QED
    BY <2>1, <2>2
<1>4. \A r \in Requests : work[r].phase = "idle"
  BY ReviewTypes DEF InitAftermath
<1>5. MaxCrashes \in Nat
  BY AftermathAssumption DEF AftermathAssumption
<1> QED
  BY <1>2, <1>3, <1>4, <1>5 DEF InitAftermath, InitNotices, Followers, FiguresShape

\* A request that goes on with what it has begun, ends, or begins with a completed booking.
LEMMA WorkFollows ==
  ASSUME NoticesInv, Followers, FiguresShape, NEW r \in Requests,
         work' = [work EXCEPT ![r] = work'[r]],
         work'[r].phase # "idle" /\ work'[r].op \in Changes => work'[r].about \in completed,
         UNCHANGED <<completed, reward, review, rating, crashes, menu, task, muted>>
  PROVE  Followers' /\ FiguresShape'
BY DEF NoticesInv, WorkShape, Followers, FiguresShape

LEMMA BeginsFollow ==
  ASSUME NoticesInv, Followers, FiguresShape, NEW r \in Requests, NEW b \in Bookings, NEW n \in Ratings,
         BeginComplete(r, b) \/ BeginCreate(r, b, n) \/ BeginChange(r, b, n) \/ BeginReply(r, b),
         UNCHANGED <<completed, reward, review, rating, crashes, menu, task, notice, muted>>
  PROVE  Followers' /\ FiguresShape'
<1>1. work \in [Requests -> Work]
  BY DEF NoticesInv, WorkShape
<1>2. PICK op \in Changes \cup {"complete", "reply"}, m \in Ratings :
        work' = [work EXCEPT ![r] = Working(op, b, m)] /\ (op \in Changes => b \in completed)
  BY ReviewTypes DEF BeginComplete, BeginCreate, BeginChange, BeginReply, Begins, Changes, Followers
<1>3. work'[r] = Working(op, b, m)
  BY <1>1, <1>2
<1>4. work'[r].op = op /\ work'[r].about = b
  BY <1>3 DEF Working
<1> QED
  BY <1>2, <1>3, <1>4, WorkFollows

\* A request that writes nothing.
LEMMA QuietFollows ==
  ASSUME NoticesInv, Followers, FiguresShape, NEW r \in Requests,
         \/ Ends(r)
         \/ \E phase \in {"written", "counted", "emit"} : work[r].phase # "idle" /\ Moves(r, phase)
         \/ CountRatings(r),
         UNCHANGED <<completed, reward, review, rating, crashes, menu, task, muted>>
  PROVE  Followers' /\ FiguresShape'
<1>1. work \in [Requests -> Work]
  BY DEF NoticesInv, WorkShape
<1>2. CASE Ends(r)
  <2>1. work'[r] = NoWork
    BY <1>1, <1>2 DEF Ends
  <2> QED
    BY <1>2, <2>1, ReviewTypes, WorkFollows DEF Ends
<1>3. ASSUME NEW phase \in {"written", "counted", "emit"}, work[r].phase # "idle", Moves(r, phase)
      PROVE  Followers' /\ FiguresShape'
  <2>1. PICK w \in Work : /\ work' = [work EXCEPT ![r] = w]
                          /\ w.phase = phase /\ w.op = work[r].op /\ w.about = work[r].about
    BY <1>3, Moved
  <2>2. work'[r] = w
    BY <1>1, <2>1
  <2>3. w.op \in Changes => w.about \in completed
    BY <1>3, <2>1 DEF Followers
  <2> QED
    BY <2>1, <2>2, <2>3, WorkFollows
<1>4. CASE CountRatings(r)
  <2>1. /\ work[r].phase = "written"
        /\ work' = [work EXCEPT ![r] = [ @ EXCEPT !.phase = "counted", !.counted = Recomputed(r) ]]
    BY <1>4 DEF CountRatings
  <2>2. work'[r] = [ work[r] EXCEPT !.phase = "counted", !.counted = Recomputed(r) ]
    BY <1>1, <2>1
  <2>3. work'[r].op = work[r].op /\ work'[r].about = work[r].about
    BY <1>1, <2>2 DEF Work
  <2>4. work[r].op \in Changes => work[r].about \in completed
    BY <2>1 DEF Followers
  <2> QED
    BY <2>1, <2>2, <2>3, <2>4, WorkFollows
<1> QED
  BY <1>2, <1>3, <1>4

\* A completion is committed: what was completed is.
LEMMA CompletionFollows ==
  ASSUME NoticesInv, Followers, FiguresShape, UNCHANGED menu, NEW r \in Requests, CommitComplete(r)
  PROVE  Followers' /\ FiguresShape'
<1>1. work \in [Requests -> Work] /\ work[r].op = "complete" /\ work[r].phase = "read"
  BY DEF NoticesInv, WorkShape, CommitComplete
<1>2. CASE CertificateFree(work[r].about)
  <2>1. /\ completed' = completed \cup {work[r].about} /\ Moves(r, "emit")
        /\ UNCHANGED <<reward, review, rating, crashes, task, notice, muted>>
    BY <1>2 DEF CommitComplete
  <2>2. PICK w \in Work : /\ work' = [work EXCEPT ![r] = w]
                          /\ w.phase = "emit" /\ w.op = work[r].op /\ w.about = work[r].about
    BY <2>1, Moved
  <2>3. \A q \in Requests : work'[q] = IF q = r THEN w ELSE work[q]
    BY <1>1, <2>2
  <2>4. w.op \notin Changes
    BY <1>1, <2>2 DEF Changes
  <2> QED
    BY <2>1, <2>3, <2>4 DEF Followers, FiguresShape
<1>3. CASE ~CertificateFree(work[r].about)
  BY <1>3, QuietFollows DEF CommitComplete
<1> QED
  BY <1>2, <1>3

LEMMA EmissionFollows ==
  ASSUME NoticesInv, Followers, FiguresShape, UNCHANGED menu, NEW r \in Requests, Emit(r)
  PROVE  Followers' /\ FiguresShape'
<1>1. /\ work[r].phase = "emit" /\ Ends(r)
      /\ task' = Emitted(EventOf[work[r].op], work[r].about, r)
      /\ UNCHANGED <<completed, reward, review, rating, crashes, notice, muted>>
  BY DEF Emit
<1>2. work \in [Requests -> Work] /\ work[r].op \in DOMAIN EventOf /\ work[r].about \in Bookings
  BY <1>1 DEF NoticesInv, WorkShape
<1>3. EventOf[work[r].op] = "COMPLETED" => work[r].about \in completed
  <2> SUFFICES ASSUME EventOf[work[r].op] = "COMPLETED" PROVE work[r].about \in completed
    OBVIOUS
  <2>1. Emits(r, "COMPLETED", work[r].about) /\ "COMPLETED" \in Events
    BY <1>1, EventFacts DEF Emits
  <2>2. Happened("COMPLETED", work[r].about)
    BY <1>2, <2>1 DEF NoticesInv, ToldByOne
  <2> QED
    BY <2>2 DEF Happened
<1>4. \A k \in task' : k.listener = "reward" => k.about \in completed
  <2>1. ASSUME NEW k \in task', k \notin task, k.listener = "reward"
        PROVE  k.about \in completed
    <3>1. k = NewTask("reward", EventOf[work[r].op], work[r].about, r) /\ EventOf[work[r].op] = "COMPLETED"
      BY <1>1, <2>1 DEF Emitted, NewTask
    <3> QED
      BY <1>3, <3>1 DEF NewTask
  <2> QED
    BY <2>1 DEF Followers
<1>5. \A q \in Requests : work'[q] = IF q = r THEN NoWork ELSE work[q]
  BY <1>1, <1>2 DEF Ends
<1> QED
  BY <1>1, <1>4, <1>5, ReviewTypes DEF Followers, FiguresShape

LEMMA ReplyFollows ==
  ASSUME NoticesInv, Followers, FiguresShape, UNCHANGED menu, NEW r \in Requests, CreateReply(r)
  PROVE  Followers' /\ FiguresShape'
<1>1. /\ work \in [Requests -> Work] /\ work[r].op = "reply" /\ work[r].phase = "read"
      /\ review \in [Bookings -> Review]
  BY DEF NoticesInv, WorkShape, CreateReply
<1>2. CASE ReplyFree(work[r].about)
  <2>1. /\ review' = [review EXCEPT ![work[r].about].replied = TRUE] /\ Moves(r, "emit")
        /\ UNCHANGED <<completed, reward, rating, crashes, task, notice, muted>>
    BY <1>2 DEF CreateReply
  <2>2. \A b \in Bookings : review'[b].state = review[b].state
    BY <1>1, <2>1 DEF Review
  <2>3. PICK w \in Work : /\ work' = [work EXCEPT ![r] = w]
                          /\ w.phase = "emit" /\ w.op = work[r].op /\ w.about = work[r].about
    BY <2>1, Moved
  <2>4. \A q \in Requests : work'[q] = IF q = r THEN w ELSE work[q]
    BY <1>1, <2>3
  <2>5. w.op \notin Changes
    BY <1>1, <2>3 DEF Changes
  <2> QED
    BY <2>1, <2>2, <2>4, <2>5 DEF Followers, FiguresShape
<1>3. CASE ~ReplyFree(work[r].about)
  BY <1>3, QuietFollows DEF CreateReply
<1> QED
  BY <1>2, <1>3

\* A change to a review is committed: its booking is a completed one.
LEMMA ChangeFollows ==
  ASSUME NoticesInv, Followers, FiguresShape, UNCHANGED menu, NEW r \in Requests, CommitReview(r)
  PROVE  Followers' /\ FiguresShape'
<1>1. /\ work \in [Requests -> Work] /\ work[r].phase = "counted"
      /\ review' = SeenBy(r) /\ rating' = work[r].counted
      /\ UNCHANGED <<completed, reward, crashes, task, notice, muted>>
  BY DEF NoticesInv, WorkShape, CommitReview
<1>2. work[r].op \in Changes /\ work[r].about \in completed
  BY <1>1 DEF NoticesInv, ReviewTxAlone, InReviewTx, Followers
<1>3. \A b \in Bookings : review'[b].state # "none" => b \in completed
  <2>1. \A b \in Bookings \ {work[r].about} : review'[b] = review[b]
    BY <1>1 DEF SeenBy, NoticesInv
  <2> QED
    BY <1>2, <2>1 DEF Followers
<1>4. rating' \subseteq Bookings \X Ratings
  BY <1>1 DEF Work
<1>5. ASSUME NEW q \in Requests, work'[q].phase # "idle", work'[q].op \in Changes
      PROVE  work'[q].about \in completed
  <2>1. CASE q = r
    <3>1. \/ work'[q] = NoWork
          \/ work'[q] = [ work[r] EXCEPT !.phase = "emit", !.counted = {}, !.stale = FALSE ]
      BY <2>1 DEF CommitReview
    <3>2. work'[q].about = work[r].about
      BY <1>1, <1>5, <3>1, ReviewTypes DEF Work
    <3> QED
      BY <1>2, <3>2
  <2>2. CASE q # r
    <3>1. work'[q] = [ work[q] EXCEPT !.stale = (work[q].phase = "counted") ]
      BY <2>2 DEF CommitReview
    <3>2. work'[q].phase = work[q].phase /\ work'[q].op = work[q].op /\ work'[q].about = work[q].about
      BY <1>1, <3>1 DEF Work
    <3> QED
      BY <1>5, <3>2 DEF Followers
  <2> QED
    BY <2>1, <2>2
<1> QED
  BY <1>1, <1>3, <1>4, <1>5 DEF Followers, FiguresShape

\* A listener's call goes on with what it is about.
LEMMA ListenersFollow ==
  ASSUME NoticesInv, Followers, FiguresShape, UNCHANGED menu, Listeners
  PROVE  Followers' /\ FiguresShape'
<1>1. task \subseteq Task
  BY DEF NoticesInv
<1>2. ASSUME UNCHANGED <<completed, review, rating, work, crashes, muted>>,
             reward' \in completed \cup {None},
             \A k \in task' : \E l \in task : k.listener = l.listener /\ k.about = l.about
      PROVE  Followers' /\ FiguresShape'
  BY <1>2 DEF Followers, FiguresShape
<1>3. ASSUME NEW k \in task
      PROVE  \A l \in After(k) : \E m \in task : l.listener = m.listener /\ l.about = m.about
  <2>1. [ k EXCEPT !.step = @ + 1, !.passed = FALSE ].listener = k.listener
        /\ [ k EXCEPT !.step = @ + 1, !.passed = FALSE ].about = k.about
    BY <1>1 DEF Task
  <2> QED
    BY <2>1 DEF After
<1>4. ASSUME NEW k \in task
      PROVE  [ k EXCEPT !.passed = TRUE ].listener = k.listener /\ [ k EXCEPT !.passed = TRUE ].about = k.about
  BY <1>1 DEF Task
<1>5. ASSUME NEW k \in task, CheckPreference(k) \/ CreateNotice(k),
             UNCHANGED <<completed, reward, review, rating, work, crashes>>
      PROVE  Followers' /\ FiguresShape'
  <2>1. \A l \in task' : \E m \in task : l.listener = m.listener /\ l.about = m.about
    BY <1>3, <1>4, <1>5 DEF CheckPreference, CreateNotice
  <2>2. UNCHANGED muted
    BY <1>5 DEF CheckPreference, CreateNotice
  <2> QED
    BY <1>2, <1>5, <2>1, <2>2 DEF Followers
<1>6. ASSUME NEW k \in task, CountCompleted(k) PROVE Followers' /\ FiguresShape'
  <2>1. \A l \in task' : \E m \in task : l.listener = m.listener /\ l.about = m.about
    BY <1>4, <1>6 DEF CountCompleted
  <2> QED
    BY <1>2, <1>6, <2>1 DEF CountCompleted, Followers
<1>7. ASSUME NEW k \in task, CreateReward(k) PROVE Followers' /\ FiguresShape'
  <2>1. reward' \in completed \cup {None} /\ task' \subseteq task
    BY <1>7 DEF CreateReward, Followers
  <2> QED
    BY <1>2, <1>7, <2>1 DEF CreateReward
<1> QED
  BY <1>5, <1>6, <1>7 DEF Listeners, ListenerStep

LEMMA FollowersKept ==
  ASSUME NoticesInv, Followers, FiguresShape, [NextAftermath]_aftermathVars
  PROVE  Followers' /\ FiguresShape'
<1>1. CASE UNCHANGED aftermathVars
  BY <1>1 DEF aftermathVars, Followers, FiguresShape
<1>2. CASE NextAftermath
  <2>0. UNCHANGED menu
    BY <1>2 DEF NextAftermath
  <2>1. ASSUME NEW r \in Requests, NEW b \in Bookings, NEW n \in Ratings,
               BeginComplete(r, b) \/ BeginCreate(r, b, n) \/ BeginChange(r, b, n) \/ BeginReply(r, b),
               UNCHANGED <<completed, reward, review, rating, crashes, task, notice, muted>>
        PROVE  Followers' /\ FiguresShape'
    BY <2>0, <2>1, BeginsFollow
  <2>2. ASSUME NEW r \in Requests, Steps(r) PROVE Followers' /\ FiguresShape'
    <3>1. CASE CommitComplete(r)
      BY <2>0, <3>1, CompletionFollows
    <3>2. CASE Emit(r)
      BY <2>0, <3>2, EmissionFollows
    <3>3. CASE CreateReply(r)
      BY <2>0, <3>3, ReplyFollows
    <3>4. CASE WriteReview(r)
      BY <2>0, <3>4, QuietFollows DEF WriteReview
    <3>5. CASE CountRatings(r)
      BY <2>0, <3>5, QuietFollows DEF CountRatings
    <3>6. CASE CommitReview(r)
      BY <2>0, <3>6, ChangeFollows
    <3> QED
      BY <2>2, <3>1, <3>2, <3>3, <3>4, <3>5, <3>6 DEF Steps
  <2>3. CASE Listeners
    BY <2>0, <2>3, ListenersFollow
  <2>4. ASSUME NEW type \in Mutable, UpdatePreference(type),
               UNCHANGED <<completed, reward, review, rating, work, crashes>>
        PROVE  Followers' /\ FiguresShape'
    BY <2>0, <2>4 DEF UpdatePreference, Followers, FiguresShape
  <2>5. CASE Crash
    <3>1. crashes' \in 0 .. MaxCrashes
      BY <2>5, AftermathAssumption DEF Crash, FiguresShape, AftermathAssumption
    <3>2. \A r \in Requests : work'[r].phase = "idle"
      BY <2>5, ReviewTypes DEF Crash
    <3> QED
      BY <2>0, <2>5, <3>1, <3>2 DEF Crash, Followers, FiguresShape
  <2> QED
    BY <1>2, <2>1, <2>2, <2>3, <2>4, <2>5 DEF NextAftermath
<1> QED
  BY <1>1, <1>2

-----------------------------------------------------------------------------
(* The rating *)

\* What was counted is what there is and what its own transaction wrote, until another commits.
CountsCurrent ==
  \A r \in Requests :
    work[r].phase = "counted" /\ ~work[r].stale => work[r].counted = Recomputed(r)

\* What r's transaction makes of a row it has in common with another state of the reviews.
LEMMA SeenAlike ==
  ASSUME NoticesInv, NoticesInv', NEW r \in Requests, UNCHANGED <<work[r].op, work[r].about, work[r].rating>>,
         InReviewTx(r),
         \A c \in Bookings : review'[c].state = review[c].state /\ review'[c].rating = review[c].rating
  PROVE  Recomputed(r)' = Recomputed(r)
<1>1. /\ work[r].about \in Bookings /\ work[r].op \in Changes
      /\ review \in [Bookings -> Review] /\ review' \in [Bookings -> Review]
  BY DEF NoticesInv, ReviewTxAlone
<1>2. /\ Written(r)'.state = Written(r).state /\ Written(r)'.rating = Written(r).rating
  <2>1. /\ review[work[r].about] \in Review /\ review'[work[r].about] \in Review
    BY <1>1
  <2>2. PICK old, new, n, x, y :
          /\ old \in Review /\ new \in Review
          /\ old = review[work[r].about] /\ new = review'[work[r].about] /\ n = work[r].rating
          /\ x = Written(r) /\ y = Written(r)'
    BY <2>1
  <2>3. /\ work[r].op = "create" => x = [ old EXCEPT !.state = "VISIBLE", !.rating = n ]
        /\ work[r].op = "edit"   => x = [ old EXCEPT !.rating = n ]
        /\ work[r].op = "hide"   => x = [ old EXCEPT !.state = "HIDDEN" ]
        /\ work[r].op = "unhide" => x = [ old EXCEPT !.state = "VISIBLE" ]
    BY <2>2 DEF Written
  <2>4. /\ work[r].op = "create" => y = [ new EXCEPT !.state = "VISIBLE", !.rating = n ]
        /\ work[r].op = "edit"   => y = [ new EXCEPT !.rating = n ]
        /\ work[r].op = "hide"   => y = [ new EXCEPT !.state = "HIDDEN" ]
        /\ work[r].op = "unhide" => y = [ new EXCEPT !.state = "VISIBLE" ]
    BY <2>2 DEF Written
  <2>5. new.state = old.state /\ new.rating = old.rating
    BY <1>1, <2>2
  <2>6. x.state = y.state /\ x.rating = y.rating
    <3>1. CASE work[r].op = "create"
      <4>1. x = [ old EXCEPT !.state = "VISIBLE", !.rating = n ]
            /\ y = [ new EXCEPT !.state = "VISIBLE", !.rating = n ]
        BY <2>3, <2>4, <3>1
      <4> QED
        BY <2>2, <4>1 DEF Review
    <3>2. CASE work[r].op = "edit"
      BY <2>2, <2>3, <2>4, <2>5, <3>2 DEF Review
    <3>3. CASE work[r].op = "hide"
      BY <2>2, <2>3, <2>4, <2>5, <3>3 DEF Review
    <3>4. CASE work[r].op = "unhide"
      BY <2>2, <2>3, <2>4, <2>5, <3>4 DEF Review
    <3> QED
      BY <1>1, <3>1, <3>2, <3>3, <3>4 DEF Changes
  <2> QED
    BY <2>2, <2>6
<1>3. \A c \in Bookings : /\ SeenBy(r)'[c].state = SeenBy(r)[c].state
                          /\ SeenBy(r)'[c].rating = SeenBy(r)[c].rating
  BY <1>1, <1>2 DEF SeenBy
<1> QED
  BY <1>3 DEF Recomputed, RatingsOf

\* A step that commits no review leaves counts current: who counted counts what is there, and
\* who goes on counting does so now.
LEMMA CountsStay ==
  ASSUME NoticesInv, NoticesInv', CountsCurrent,
         \A c \in Bookings : review'[c].state = review[c].state /\ review'[c].rating = review[c].rating,
         \A r \in Requests : work'[r] = work[r] \/ work'[r].phase # "counted"
                             \/ /\ InReviewTx(r) /\ work'[r].counted = Recomputed(r)
                                /\ UNCHANGED <<work[r].op, work[r].about, work[r].rating>>
  PROVE  CountsCurrent'
<1> SUFFICES ASSUME NEW r \in Requests, work'[r].phase = "counted", ~work'[r].stale
             PROVE  work'[r].counted = Recomputed(r)'
  BY DEF CountsCurrent
<1>1. InReviewTx(r) /\ UNCHANGED <<work[r].op, work[r].about, work[r].rating>>
  BY DEF InReviewTx
<1>2. Recomputed(r)' = Recomputed(r)
  BY <1>1, SeenAlike
<1> QED
  BY <1>2 DEF CountsCurrent

LEMMA CountsKept ==
  ASSUME NoticesInv, CountsCurrent, [NextAftermath]_aftermathVars
  PROVE  CountsCurrent'
<1>0. /\ NoticesInv' /\ work \in [Requests -> Work] /\ review \in [Bookings -> Review]
      /\ \A r \in Requests : work[r].phase # "idle" => work[r].about \in Bookings
  BY NoticesKept DEF NoticesInv, WorkShape
<1>1. ASSUME UNCHANGED work, UNCHANGED review PROVE CountsCurrent'
  BY <1>0, <1>1, CountsStay
<1>2. ASSUME UNCHANGED review, NEW r \in Requests, NEW w, work' = [work EXCEPT ![r] = w],
             w.phase # "counted"
      PROVE  CountsCurrent'
  <2>1. work'[r] = w /\ \A q \in Requests \ {r} : work'[q] = work[q]
    BY <1>0, <1>2
  <2> QED
    BY <1>0, <1>2, <2>1, CountsStay
<1>3. ASSUME UNCHANGED review, NEW r \in Requests, Ends(r) PROVE CountsCurrent'
  BY <1>2, <1>3, ReviewTypes DEF Ends
<1>4. ASSUME UNCHANGED review, NEW r \in Requests, NEW phase \in {"written", "emit"}, Moves(r, phase)
      PROVE  CountsCurrent'
  BY <1>0, <1>2, <1>4, Moved
<1>5. ASSUME NEW r \in Requests, NEW b \in Bookings, NEW n \in Ratings,
             BeginComplete(r, b) \/ BeginCreate(r, b, n) \/ BeginChange(r, b, n) \/ BeginReply(r, b),
             UNCHANGED review
      PROVE  CountsCurrent'
  <2>1. PICK op, m : work' = [work EXCEPT ![r] = Working(op, b, m)]
    BY <1>5 DEF BeginComplete, BeginCreate, BeginChange, BeginReply, Begins
  <2>2. Working(op, b, m).phase = "read"
    BY DEF Working
  <2> QED
    BY <1>2, <1>5, <2>1, <2>2
<1>6. ASSUME NEW r \in Requests, CommitComplete(r) \/ Emit(r) \/ WriteReview(r) PROVE CountsCurrent'
  <2>1. UNCHANGED review /\ (Ends(r) \/ Moves(r, "emit") \/ Moves(r, "written"))
    BY <1>6 DEF CommitComplete, Emit, WriteReview
  <2> QED
    BY <1>3, <1>4, <2>1
<1>7. ASSUME NEW r \in Requests, CreateReply(r) PROVE CountsCurrent'
  <2>1. CASE UNCHANGED review /\ Ends(r)
    BY <1>3, <2>1
  <2>2. CASE review' = [review EXCEPT ![work[r].about].replied = TRUE] /\ Moves(r, "emit")
    <3>1. work[r].about \in Bookings
      BY <1>0, <1>7 DEF CreateReply
    <3>2. review' = [review EXCEPT ![work[r].about] = [ review[work[r].about] EXCEPT !.replied = TRUE ]]
      BY <1>0, <2>2, <3>1
    <3>3. /\ [ review[work[r].about] EXCEPT !.replied = TRUE ].state = review[work[r].about].state
          /\ [ review[work[r].about] EXCEPT !.replied = TRUE ].rating = review[work[r].about].rating
      BY <1>0, <3>1 DEF Review
    <3>4. \A c \in Bookings : review'[c].state = review[c].state /\ review'[c].rating = review[c].rating
      BY <1>0, <3>1, <3>2, <3>3
    <3>5. \A q \in Requests : work'[q] = work[q] \/ work'[q].phase # "counted"
      <4>1. PICK w \in Work : work' = [work EXCEPT ![r] = w] /\ w.phase = "emit"
        BY <2>2, Moved
      <4> QED
        BY <1>0, <4>1
    <3> QED
      BY <1>0, <3>4, <3>5, CountsStay
  <2> QED
    BY <1>7, <2>1, <2>2 DEF CreateReply
<1>8. ASSUME NEW r \in Requests, CountRatings(r) PROVE CountsCurrent'
  <2>1. /\ work[r].phase = "written" /\ InReviewTx(r) /\ UNCHANGED review
        /\ work' = [work EXCEPT ![r] = [ work[r] EXCEPT !.phase = "counted", !.counted = Recomputed(r) ]]
    BY <1>8 DEF CountRatings, InReviewTx
  <2> DEFINE w == [ work[r] EXCEPT !.phase = "counted", !.counted = Recomputed(r) ]
  <2>2. /\ w.counted = Recomputed(r) /\ w.op = work[r].op /\ w.about = work[r].about
        /\ w.rating = work[r].rating
    BY <1>0 DEF Work
  <2>3. work'[r] = w /\ \A q \in Requests \ {r} : work'[q] = work[q]
    BY <1>0, <2>1
  <2> HIDE DEF w
  <2> QED
    BY <1>0, <2>1, <2>2, <2>3, CountsStay
<1>9. ASSUME NEW r \in Requests, CommitReview(r) PROVE CountsCurrent'
  <2>1. ASSUME NEW q \in Requests PROVE work'[q].phase = "counted" => work'[q].stale
    <3>1. CASE q = r /\ work[r].op = "create"
      <4>1. work'[q] = [ work[r] EXCEPT !.phase = "emit", !.counted = {}, !.stale = FALSE ]
        BY <1>9, <3>1 DEF CommitReview
      <4> QED
        BY <1>0, <4>1 DEF Work
    <3>2. CASE q = r /\ work[r].op # "create"
      BY <1>9, <3>2, ReviewTypes DEF CommitReview
    <3>3. CASE q # r
      <4>1. work'[q] = [ work[q] EXCEPT !.stale = (work[q].phase = "counted") ]
        BY <1>9, <3>3 DEF CommitReview
      <4>2. work'[q].phase = work[q].phase /\ work'[q].stale = (work[q].phase = "counted")
        BY <1>0, <4>1 DEF Work
      <4> QED
        BY <4>2
    <3> QED
      BY <3>1, <3>2, <3>3
  <2> QED
    BY <2>1 DEF CountsCurrent
<1>10. CASE Crash
  BY <1>0, <1>10, ReviewTypes, CountsStay DEF Crash
<1>11. CASE UNCHANGED aftermathVars
  BY <1>1, <1>11 DEF aftermathVars
<1>12. CASE NextAftermath
  <2>1. CASE Listeners
    BY <1>1, <2>1 DEF Listeners, CountCompleted, CreateReward
  <2>2. CASE \E type \in Mutable : "mute" \in menu /\ UpdatePreference(type)
                              /\ UNCHANGED <<completed, reward, review, rating, work, crashes>>
    BY <1>1, <2>2
  <2> QED
    BY <1>5, <1>6, <1>7, <1>8, <1>9, <1>10, <1>12, <2>1, <2>2 DEF NextAftermath, Steps
<1> QED
  BY <1>11, <1>12

LEMMA CountsStart ==
  ASSUME InitAftermath
  PROVE  CountsCurrent
BY ReviewTypes DEF InitAftermath, CountsCurrent

LEMMA CommitHeals ==
  ASSUME NoticesInv, CountsCurrent
  PROVE  \A r \in Requests : CommitReview(r) /\ ~work[r].stale => rating' = RatingsOf(review')
<1> SUFFICES ASSUME NEW r \in Requests, CommitReview(r), ~work[r].stale
             PROVE  rating' = RatingsOf(review')
  OBVIOUS
<1>1. rating' = work[r].counted /\ review' = SeenBy(r) /\ work[r].counted = RatingsOf(SeenBy(r))
  BY DEF CommitReview, CountsCurrent, Recomputed
<1> QED
  BY <1>1

\* recomputeAggregate: whatever the races between changes of reviews have made of the master's
\* rating, a change that no other's commit overtakes between its count and its own makes it right.
THEOREM RatingHealed == AftermathSpec => RatingHeals
<1>1. InitAftermath => NoticesInv /\ CountsCurrent
  BY NoticesStart, CountsStart
<1>2. NoticesInv /\ CountsCurrent /\ [NextAftermath]_aftermathVars => (NoticesInv /\ CountsCurrent)'
  BY NoticesKept, CountsKept
<1>3. NoticesInv /\ CountsCurrent =>
        [\A r \in Requests : CommitReview(r) /\ ~work[r].stale => rating' = RatingsOf(review')]_aftermathVars
  BY CommitHeals
<1> QED
  BY <1>1, <1>2, <1>3, PTL DEF AftermathSpec, RatingHeals

\* A listener's next call tells somebody something, or has its check still to make.
LEMMA NoticesUnrewarding ==
  ASSUME NoticesInv, NEW k \in task, CheckPreference(k) \/ CreateNotice(k)
  PROVE  \A l \in task' : l \in task \/ l.listener = "notice" \/ ~l.passed
<1>1. k.listener = "notice" /\ k \in Task
  BY DEF NoticesInv, CheckPreference, CreateNotice
<1> SUFFICES ASSUME NEW l \in task', l \notin task
             PROVE  l.listener = "notice" \/ ~l.passed
  OBVIOUS
<1> DEFINE checked == [ k EXCEPT !.passed = TRUE ]
           next == [ k EXCEPT !.step = k.step + 1, !.passed = FALSE ]
<1>2. l = checked \/ l = next
  BY DEF CheckPreference, CreateNotice, After
<1>3. checked.listener = k.listener /\ next.passed = FALSE
  BY <1>1 DEF Task
<1> QED
  BY <1>1, <1>2, <1>3

\* A completion past the first, when no handler has counted the first alone, earns nothing.
LEMMA LateUnrewarded ==
  ASSUME NoticesInv, reward = None, Cardinality(completed) > 1,
         \A k \in task : k.listener = "reward" => ~k.passed,
         [NextAftermath]_aftermathVars
  PROVE  reward' = None /\ \A k \in task' : k.listener = "reward" => ~k.passed
<1>1. CASE UNCHANGED <<reward, task>>
  BY <1>1
<1>2. ASSUME NEW r \in Requests, Emit(r)
      PROVE  UNCHANGED reward /\ \A k \in task' : k \in task \/ ~k.passed
  BY <1>2 DEF Emit, Emitted, NewTask
<1>3. ASSUME NEW r \in Requests, Steps(r), ~Emit(r)
      PROVE  UNCHANGED <<reward, task>>
  BY <1>3 DEF Steps, CommitComplete, CreateReply, WriteReview, CountRatings, CommitReview
<1>4. ASSUME NEW k \in task, CountCompleted(k) \/ CreateReward(k)
      PROVE  UNCHANGED reward /\ task' \subseteq task
  <2>1. ~CreateReward(k)
    BY DEF CreateReward
  <2>2. ~FirstCount(Cardinality(completed))
    BY DEF FirstCount
  <2> QED
    BY <1>4, <2>1, <2>2 DEF CountCompleted
<1>5. CASE NextAftermath
  <2>1. CASE Listeners
    BY <1>4, <2>1, NoticesUnrewarding DEF Listeners, ListenerStep
  <2>2. CASE \E r \in Requests : Steps(r)
    BY <1>1, <1>2, <1>3, <2>2
  <2>3. CASE Crash
    BY <2>3 DEF Crash
  <2>4. CASE UNCHANGED <<reward, task>>
    BY <1>1, <2>4
  <2> QED
    BY <1>5, <2>1, <2>2, <2>3, <2>4 DEF NextAftermath, UpdatePreference
<1> QED
  BY <1>1, <1>5 DEF aftermathVars

\* ReferralRewardListener: whatever races, once a second completion is committed and no handler
\* has counted the first alone, no listener, request or crash makes the reward be earned.
THEOREM NoLateReward == AftermathSpec => RewardNeverLate
<1>1. InitAftermath => NoticesInv
  BY NoticesStart
<1>2. NoticesInv /\ [NextAftermath]_aftermathVars => NoticesInv'
  BY NoticesKept
<1>3. NoticesInv /\ [NextAftermath]_aftermathVars =>
        [ /\ reward = None /\ Cardinality(completed) > 1
          /\ \A k \in task : k.listener = "reward" => ~k.passed
          => reward' = None /\ \A k \in task' : k.listener = "reward" => ~k.passed ]_aftermathVars
  BY LateUnrewarded
<1> QED
  BY <1>1, <1>2, <1>3, PTL DEF AftermathSpec, RewardNeverLate

-----------------------------------------------------------------------------
(* The reminder job *)

\* What is invariant is what RemindedOnce says, over well-typed rows.
RemindersInv == RemindersTypeOK /\ RemindedOnce

LEMMA NeverNat == Never \in Nat /\ Lead \in Nat \ {0} /\ Window \in Nat \ {0} /\ LastRun \in Nat \ {0}
BY RemindersAssumption DEF RemindersAssumption, Never

LEMMA RemindersStart == InitReminders => RemindersInv
<1> SUFFICES ASSUME InitReminders PROVE RemindersInv
  OBVIOUS
<1> USE NeverNat DEF InitReminders
<1>1. Never \in 1 .. Never
  BY RemindersAssumption DEF RemindersAssumption, Never
<1>2. RemindersTypeOK
  BY <1>1 DEF RemindersTypeOK
<1>3. RemindedOnce
  BY DEF RemindedOnce, Active
<1> QED
  BY <1>2, <1>3 DEF RemindersInv

\* A booking made, moved or ended is counted again from nothing.
LEMMA SetStartKeeps ==
  ASSUME RemindersInv, NEW v \in Visits, NEW t \in 1 .. Never - 1, SetStart(v, t)
  PROVE  RemindersInv'
<1> USE NeverNat DEF RemindersInv, RemindersTypeOK, SetStart
<1>1. lastRun \in Nat /\ t \in 1 .. Never
  OBVIOUS
<1>2. RemindersTypeOK'
  BY <1>1
<1>3. ASSUME regular', NEW w \in Visits, Active(w)', ahead'[w]
      PROVE  reminders'[w] = IF startsAt'[w] < lastRun' + Lead + Window THEN 1 ELSE 0
  <2>1. CASE w = v
    <3>1. ahead'[v] = (t >= lastRun + Lead + Window)
      BY Zenon
    <3>2. t >= lastRun + Lead + Window
      BY <1>3, <2>1, <3>1
    <3>3. reminders'[v] = 0 /\ startsAt'[v] = t /\ lastRun' = lastRun
      OBVIOUS
    <3> QED
      BY <1>1, <2>1, <3>2, <3>3
  <2>2. CASE w # v
    BY <1>3, <2>2 DEF RemindedOnce, Active, Never
  <2> QED
    BY <2>1, <2>2
<1>4. RemindedOnce'
  BY <1>3 DEF RemindedOnce, Active, Never
<1> QED
  BY <1>2, <1>4

LEMMA EndVisitKeeps ==
  ASSUME RemindersInv, NEW v \in Visits, EndVisit(v)
  PROVE  RemindersInv'
<1> USE NeverNat DEF RemindersInv, RemindersTypeOK, EndVisit
<1>1. Never \in 1 .. Never /\ Never' = Never
  BY RemindersAssumption DEF RemindersAssumption, Never
<1>2. RemindersTypeOK'
  BY <1>1
<1>3. RemindedOnce'
  BY <1>1 DEF RemindedOnce, Active
<1> QED
  BY <1>2, <1>3

\* A run that keeps the cadence and takes all it finds moves the line by one window, and
\* reminds of exactly the bookings it moves over.
LEMMA RunKeeps ==
  ASSUME RemindersInv, NEW now \in lastRun + Window - 1 .. lastRun + Window + 1,
         now <= LastRun, RunReminders(now)
  PROVE  RemindersInv'
<1> USE NeverNat DEF RemindersInv, RemindersTypeOK
<1> DEFINE found == { v \in Visits : Active(v) /\ InWindow(v, now) }
<1>1. PICK batch \in SUBSET found :
        /\ lastRun' = now
        /\ reminders' = [v \in Visits |-> IF v \in batch THEN reminders[v] + 1 ELSE reminders[v]]
        /\ regular' = (regular /\ now = lastRun + Window /\ batch = found)
        /\ UNCHANGED <<startsAt, ahead>>
  BY DEF RunReminders
<1>2. lastRun \in Nat /\ now \in 0 .. LastRun
  OBVIOUS
<1>3. RemindersTypeOK'
  <2>1. lastRun' \in 0 .. LastRun
    BY <1>1, <1>2
  <2>2. reminders' \in [Visits -> Nat]
    BY <1>1
  <2>3. regular' \in BOOLEAN
    BY <1>1, Zenon
  <2>4. startsAt' \in [Visits -> 1 .. Never] /\ ahead' \in [Visits -> BOOLEAN]
    BY <1>1
  <2> QED
    BY <2>1, <2>2, <2>3, <2>4 DEF Never
<1>4. ASSUME regular', NEW w \in Visits, Active(w)', ahead'[w]
      PROVE  reminders'[w] = IF startsAt'[w] < lastRun' + Lead + Window THEN 1 ELSE 0
  <2>1. regular /\ now = lastRun + Window /\ batch = found
    BY <1>1, <1>4, Zenon
  <2>2. Active(w) /\ ahead[w] /\ startsAt'[w] = startsAt[w]
    BY <1>1, <1>4 DEF Active, Never
  <2>3. reminders[w] = IF startsAt[w] < lastRun + Lead + Window THEN 1 ELSE 0
    BY <2>1, <2>2 DEF RemindedOnce
  <2>4. w \in batch <=> startsAt[w] >= now + Lead /\ startsAt[w] < now + Lead + Window
    BY <2>1, <2>2 DEF InWindow
  <2>5. reminders'[w] = IF w \in batch THEN reminders[w] + 1 ELSE reminders[w]
    BY <1>1
  <2>6. startsAt[w] \in Nat
    OBVIOUS
  <2> QED
    BY <1>1, <1>2, <2>1, <2>2, <2>3, <2>4, <2>5, <2>6
<1>5. RemindedOnce'
  BY <1>4 DEF RemindedOnce, Active, Never
<1> QED
  BY <1>3, <1>5

LEMMA RemindersKept ==
  ASSUME RemindersInv, [NextReminders]_remindersVars
  PROVE  RemindersInv'
<1>1. ASSUME NEW v \in Visits, NEW t \in 1 .. Never - 1, SetStart(v, t) PROVE RemindersInv'
  BY <1>1, SetStartKeeps
<1>2. ASSUME NEW v \in Visits, EndVisit(v) PROVE RemindersInv'
  BY <1>2, EndVisitKeeps
<1>3. ASSUME NEW now \in lastRun + Window - 1 .. lastRun + Window + 1,
             now <= LastRun, RunReminders(now)
      PROVE  RemindersInv'
  BY <1>3, RunKeeps
<1>4. CASE UNCHANGED remindersVars
  BY <1>4 DEF RemindersInv, RemindersTypeOK, RemindedOnce, Active, Never, remindersVars
<1> QED
  BY <1>1, <1>2, <1>3, <1>4 DEF NextReminders

\* However often bookings are made, moved and ended between the runs, each that was there
\* in time is reminded of once, as long as the runs keep the cadence.
THEOREM OneReminder == RemindersSpec => []RemindedOnce
<1>1. RemindersInv /\ [NextReminders]_remindersVars => RemindersInv'
  BY RemindersKept
<1>2. RemindersInv => RemindedOnce
  BY DEF RemindersInv
<1> QED
  BY RemindersStart, <1>1, <1>2, PTL DEF RemindersSpec

-----------------------------------------------------------------------------
(* The parts side by side *)

\* A behaviour of what runs behind the requests is a behaviour of each part.
LEMMA EachRuns == BackgroundSpec => AftermathSpec /\ UploadsSpec /\ RemindersSpec /\ LiveSpec
<1>1. InitBackground => InitAftermath /\ InitUploads /\ InitReminders /\ InitLive
  BY DEF InitBackground
<1>2. [NextBackground]_backgroundVars
      => /\ [NextAftermath]_aftermathVars /\ [NextUploads]_uploadsVars
         /\ [NextReminders]_remindersVars /\ [NextLive]_liveVars
  BY DEF NextBackground, backgroundVars
<1> QED
  BY <1>1, <1>2, PTL DEF BackgroundSpec, AftermathSpec, UploadsSpec, RemindersSpec, LiveSpec

\* Every row, request, listener's call, socket and job keeps its shape.
THEOREM BackgroundTypes == BackgroundSpec => []BackgroundTypeOK
<1>1. LiveSpec => []LiveTypeOK
  <2>1. InitLive => LiveInv /\ EventsShape /\ TalksShape
    BY LiveStarts, LiveShapeStarts
  <2>2. LiveInv /\ EventsShape /\ TalksShape /\ [NextLive]_liveVars
        => (LiveInv /\ EventsShape /\ TalksShape)'
    BY LiveKept, LiveShaped
  <2> QED
    BY <2>1, <2>2, LiveTypeIs, PTL DEF LiveSpec
<1>2. AftermathSpec => []AftermathTypeOK
  <2>1. InitAftermath => NoticesInv /\ Followers /\ FiguresShape
    BY NoticesStart, FollowersStart
  <2>2. NoticesInv /\ Followers /\ FiguresShape /\ [NextAftermath]_aftermathVars
        => (NoticesInv /\ Followers /\ FiguresShape)'
    BY NoticesKept, FollowersKept
  <2> QED
    BY <2>1, <2>2, AftermathTypeIs, PTL DEF AftermathSpec
<1>3. UploadsSpec => []UploadsTypeOK
  <2>1. FilesInv /\ [NextUploads]_uploadsVars => FilesInv'
    BY FilesKept
  <2>2. FilesInv => UploadsTypeOK
    BY DEF FilesInv
  <2> QED
    BY FilesStart, <2>1, <2>2, PTL DEF UploadsSpec
<1>4. RemindersSpec => []RemindersTypeOK
  <2>1. RemindersInv /\ [NextReminders]_remindersVars => RemindersInv'
    BY RemindersKept
  <2>2. RemindersInv => RemindersTypeOK
    BY DEF RemindersInv
  <2> QED
    BY RemindersStart, <2>1, <2>2, PTL DEF RemindersSpec
<1>5. InitBackground => part \in Parts
  BY DEF InitBackground
<1>6. part \in Parts /\ [NextBackground]_backgroundVars => (part \in Parts)'
  BY DEF NextBackground, backgroundVars
<1>7. part \in Parts /\ AftermathTypeOK /\ UploadsTypeOK /\ RemindersTypeOK /\ LiveTypeOK
      => BackgroundTypeOK
  BY DEF BackgroundTypeOK
<1> QED
  BY <1>1, <1>2, <1>3, <1>4, <1>5, <1>6, <1>7, EachRuns, PTL DEF BackgroundSpec

\* What each part promises alone it promises beside the others.
THEOREM BackgroundSafe ==
  BackgroundSpec => /\ [](RelayReaches /\ YoungFileKeepsObject /\ NoticeOnce /\ RemindedOnce)
                    /\ RatingHeals /\ RewardNeverLate
BY EachRuns, SocketsHear, YoungFilesKept, NotifiedOnce, OneReminder, RatingHealed, NoLateReward,
   PTL
=============================================================================
