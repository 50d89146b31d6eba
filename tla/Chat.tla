-------------------------------- MODULE Chat ---------------------------------
(***************************************************************************)
(* One conversation: messages sent to a reader, who pages back through     *)
(* them with a cursor and marks what has arrived as read.                  *)
(***************************************************************************)
EXTENDS Naturals, FiniteSets

CONSTANTS
  Messages,          \* ids; random, so unrelated to the order of sending
  PageLimit,         \* limit of a page
  MaxInstant         \* bound on the clock

ASSUME ChatAssumption ==
  /\ Messages \subseteq Nat /\ IsFiniteSet(Messages)
  /\ PageLimit \in Nat \ {0} /\ MaxInstant \in Nat

VARIABLES
  message,           \* rows of messages
  instant,           \* the clock, in the precision of createdAt
  summary,           \* lastMessageAt and lastMessagePreview, as the message they name
  paging,            \* the reader's requests for pages
  marking            \* the reader's request to mark as read

chatVars == <<message, instant, summary, paging, marking>>

Message == [ state : {"none", "inserted", "sent", "removed"}, at : 0 .. MaxInstant, read : BOOLEAN ]
Unsent == [ state |-> "none", at |-> 0, read |-> FALSE ]
Position == (0 .. MaxInstant) \X (Messages \cup {0})
Paging == [ step : {"idle", "more", "done"}, after : Position,
            present : SUBSET Messages,       \* there when the first page was read
            got : SUBSET Messages, again : SUBSET Messages ]
NoPaging == [ step |-> "idle", after |-> <<0, 0>>, present |-> {}, got |-> {}, again |-> {} ]
Marking == [ busy : BOOLEAN, ids : SUBSET Messages, later : SUBSET Messages ]
NoMarking == [ busy |-> FALSE, ids |-> {}, later |-> {} ]

Sent == { m \in Messages : message[m].state = "sent" }

InitChat ==
  /\ message = [m \in Messages |-> Unsent]
  /\ instant = 0
  /\ summary = 0
  /\ paging = NoPaging
  /\ marking = NoMarking

Tick == instant < MaxInstant /\ instant' = instant + 1
        /\ UNCHANGED <<message, summary, paging, marking>>

(* send(): the INSERT stamps createdAt; the conversation's row is updated and the *)
(* transaction committed after it, in the order of that row's lock.               *)
InsertMessage(m) ==
  /\ message[m].state = "none"
  /\ message' = [message EXCEPT ![m].state = "inserted", ![m].at = instant]
  /\ UNCHANGED <<instant, summary, paging, marking>>

CommitMessage(m) ==
  /\ message[m].state = "inserted"
  /\ message' = [message EXCEPT ![m].state = "sent"]
  /\ summary' = m
  /\ marking' = [ marking EXCEPT !.later = IF marking.busy THEN @ \cup {m} ELSE @ ]
  /\ UNCHANGED <<instant, paging>>

RemoveMessage(m) ==
  /\ message[m].state = "sent"
  /\ message' = [message EXCEPT ![m].state = "removed"]
  /\ UNCHANGED <<instant, summary, paging, marking>>

-----------------------------------------------------------------------------
(* fetchPage(): newest first, by createdAt and then by id. *)

Before(p, q) == p[1] < q[1] \/ (p[1] = q[1] /\ p[2] < q[2])
At(m) == <<message[m].at, m>>

TimeOnly(m, cursor)  == At(m)[1] < cursor[1]       \* mutant: no tie-break
CursorWhere(m, cursor) == Before(At(m), cursor)

Newest(rows, n) ==
  { m \in rows : Cardinality({ k \in rows : Before(At(m), At(k)) }) < n }
Oldest(rows) == CHOOSE m \in rows : \A k \in rows : ~Before(At(k), At(m))

FetchPage ==
  /\ paging.step # "done"
  /\ LET rows == IF paging.step = "idle" THEN Sent
                 ELSE { m \in Sent : CursorWhere(m, paging.after) }
         page == Newest(rows, PageLimit)
         more == Cardinality(rows) > PageLimit
     IN  paging' =
           [ step |-> IF more THEN "more" ELSE "done",
             after |-> IF more THEN At(Oldest(page)) ELSE <<0, 0>>,
             present |-> IF paging.step = "idle" THEN Sent ELSE paging.present,
             got |-> paging.got \cup page,
             again |-> paging.again \cup (paging.got \cap page) ]
  /\ UNCHANGED <<message, instant, summary, marking>>

CloseConversation ==
  /\ paging.step # "idle"
  /\ paging' = NoPaging
  /\ UNCHANGED <<message, instant, summary, marking>>

-----------------------------------------------------------------------------
(* markRead() *)

ReadUnread ==
  /\ ~marking.busy
  /\ LET unread == { m \in Sent : ~message[m].read }
     IN  unread # {} /\ marking' = [ busy |-> TRUE, ids |-> unread, later |-> {} ]
  /\ UNCHANGED <<message, instant, summary, paging>>

Marked == marking.ids

WriteRead ==
  /\ marking.busy
  /\ message' = [m \in Messages |-> [ message[m] EXCEPT !.read = @ \/ m \in Marked ]]
  /\ marking' = NoMarking
  /\ UNCHANGED <<instant, summary, paging>>

NextChat ==
  \/ Tick \/ FetchPage \/ CloseConversation \/ ReadUnread \/ WriteRead
  \/ \E m \in Messages : InsertMessage(m) \/ CommitMessage(m) \/ RemoveMessage(m)
ChatSpec == InitChat /\ [][NextChat]_chatVars

-----------------------------------------------------------------------------
ChatTypeOK ==
  /\ message \in [Messages -> Message]
  /\ instant \in 0 .. MaxInstant
  /\ summary \in Messages \cup {0}
  /\ paging \in Paging
  /\ marking \in Marking

PagesComplete ==
  paging.step = "done" =>
    /\ paging.again = {}
    /\ \A m \in paging.present : message[m].state = "sent" => m \in paging.got
UnseenStaysUnread ==
  WriteRead => \A m \in marking.later : message'[m].read = message[m].read

\* MessagesService: pages read one after the other show every message that was there at
\* the first and is still there, and none twice, whatever arrives meanwhile (fetchPage);
\* and a message that arrives after the unread ones were found stays unread, as the
\* reader has not been shown it (markRead).
NothingMissed == [][PagesComplete' /\ UnseenStaysUnread]_chatVars
=============================================================================
