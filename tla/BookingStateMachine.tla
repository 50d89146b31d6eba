------------------------ MODULE BookingStateMachine ------------------------
(***************************************************************************)
(* The vocabulary of a booking: its statuses, who may move it, the table   *)
(* of legal transitions, and when two slots of time overlap.  Constant     *)
(* operators only; translated from bookings/domain/booking-state-machine.ts*)
(***************************************************************************)
EXTENDS Naturals

Statuses == {"PENDING", "ACCEPTED", "IN_PROGRESS", "COMPLETED", "REJECTED",
             "CANCELLED_BY_CLIENT", "CANCELLED_BY_MASTER",
             "CANCELLED_BY_ADMIN", "EXPIRED"}

Actors == {"CLIENT", "MASTER", "ADMIN", "SYSTEM"}

\* TRANSITIONS, one row <<from, to, actor>> per line of the source's table.
Transitions ==
  { <<"PENDING",     "ACCEPTED",            "MASTER">>,
    <<"PENDING",     "REJECTED",            "MASTER">>,
    <<"PENDING",     "CANCELLED_BY_CLIENT", "CLIENT">>,
    <<"PENDING",     "EXPIRED",             "SYSTEM">>,
    <<"ACCEPTED",    "IN_PROGRESS",         "MASTER">>,
    <<"ACCEPTED",    "CANCELLED_BY_CLIENT", "CLIENT">>,
    <<"ACCEPTED",    "CANCELLED_BY_MASTER", "MASTER">>,
    <<"ACCEPTED",    "CANCELLED_BY_ADMIN",  "ADMIN">>,
    <<"IN_PROGRESS", "COMPLETED",           "MASTER">>,
    <<"IN_PROGRESS", "CANCELLED_BY_ADMIN",  "ADMIN">> }

\* assertCanTransition returns without throwing.
CanTransition(from, to, actor) == <<from, to, actor>> \in Transitions

IsTerminal(status) == \A t \in Transitions : t[1] # status

\* The statuses in which a booking occupies its master's time: ACTIVE_STATUSES,
\* MASTER_BUSY_STATUSES, BUSY_STATUSES and the WHERE of bookings_no_overlap.
Busy == {"ACCEPTED", "IN_PROGRESS"}

\* OPEN_BOOKING_STATUSES, RESCHEDULABLE_STATUSES.
Open == {"PENDING", "ACCEPTED"}

\* Half-open intervals: scheduledAt < other.endsAt and endsAt > other.scheduledAt.
Overlap(start1, end1, start2, end2) == start1 < end2 /\ start2 < end1
=============================================================================
