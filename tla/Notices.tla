------------------------------- MODULE Notices -------------------------------
(***************************************************************************)
(* Events after a commit and the listeners that hear them.                 *)
(*                                                                         *)
(* EventEmitter2 calls the listeners of an event in the process's memory,  *)
(* after the transaction that caused it; each is an async function whose   *)
(* awaits interleave with everything else.  A task is one such call.  What *)
(* has not run when the process dies is not run again.                     *)
(***************************************************************************)
EXTENDS Naturals, Sequences

CONSTANTS
  Sources,       \* what events are about: bookings, standing for their reviews too
  Requests,      \* concurrent requests
  Mutable        \* a bound: the types whose preference the user changes

VARIABLES
  task,          \* the listener calls under way
  notice,        \* rows of notifications, by type and source
  muted          \* types with a preference row enabled = false

\* The notifications a listener creates, one after the other.
TypesOf ==
  [ COMPLETED |-> <<"BOOKING_COMPLETED", "REVIEW_INVITATION">>,
    REVIEWED  |-> <<"REVIEW_RECEIVED">>,
    REPLIED   |-> <<"REVIEW_REPLIED">> ]
Events == DOMAIN TypesOf
Types  == UNION { { TypesOf[e][i] : i \in DOMAIN TypesOf[e] } : e \in Events }

Task == [ listener : {"notice", "reward"}, event : Events, about : Sources, from : Requests,
          step : 1 .. 2, passed : BOOLEAN ]    \* its check made, its write to come
NewTask(listener, event, about, from) ==
  [ listener |-> listener, event |-> event, about |-> about, from |-> from,
    step |-> 1, passed |-> FALSE ]

InitNotices ==
  /\ task = {}
  /\ notice = [n \in Types \X Sources |-> 0]
  /\ muted = {}

\* emit(): every listener of the event is called.
Emitted(event, about, from) ==
  task \cup { NewTask("notice", event, about, from) }
       \cup (IF event = "COMPLETED" THEN { NewTask("reward", event, about, from) } ELSE {})

InvitationForgotten(k) == task \ {k}    \* mutant: the first notification is the last
\* The listener goes on to its next notification, or ends.
After(k) ==
  IF k.step < Len(TypesOf[k.event])
  THEN (task \ {k}) \cup {[ k EXCEPT !.step = @ + 1, !.passed = FALSE ]}
  ELSE task \ {k}

(* NotificationsService.create: the preference, then the row. *)
CheckPreference(k) ==
  /\ k \in task /\ k.listener = "notice" /\ ~k.passed
  /\ task' = IF TypesOf[k.event][k.step] \in muted
             THEN After(k)
             ELSE (task \ {k}) \cup {[ k EXCEPT !.passed = TRUE ]}
  /\ UNCHANGED <<notice, muted>>

CreateNotice(k) ==
  /\ k \in task /\ k.listener = "notice" /\ k.passed
  /\ notice' = [notice EXCEPT ![<<TypesOf[k.event][k.step], k.about>>] = @ + 1]
  /\ task' = After(k)
  /\ UNCHANGED muted

\* updatePreferences: an upsert of the (user, type) row.
UpdatePreference(type) ==
  /\ type \in Mutable
  /\ muted' = IF type \in muted THEN muted \ {type} ELSE muted \cup {type}
  /\ UNCHANGED <<task, notice>>

ListenerStep == \E k \in task : CheckPreference(k) \/ CreateNotice(k)
=============================================================================
