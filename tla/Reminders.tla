------------------------------ MODULE Reminders -------------------------------
(***************************************************************************)
(* The reminder job.  It keeps no record of whom it has reminded: each run *)
(* takes the bookings that start between REMINDER_LEAD and REMINDER_LEAD + *)
(* REMINDER_WINDOW from now, the window being the interval between runs.   *)
(***************************************************************************)
EXTENDS Naturals, FiniteSets

CONSTANTS
  Visits,            \* bookings
  Lead, Window,      \* REMINDER_LEAD_MINUTES, REMINDER_WINDOW_MINUTES
  ReminderBatch,     \* REMINDER_BATCH_SIZE
  LastRun            \* bound on the clock

ASSUME RemindersAssumption == {Lead, Window, ReminderBatch, LastRun} \subseteq Nat \ {0}

VARIABLES
  lastRun,           \* when the job last ran
  startsAt,          \* scheduledAt of each booking, while ACCEPTED or IN_PROGRESS
  reminders,         \* reminders emitted about that time
  ahead,             \* it was accepted, or moved, before the run meant to remind of it
  regular            \* every run kept the cadence and took all it found

remindersVars == <<lastRun, startsAt, reminders, ahead, regular>>

Never == LastRun + Lead + 2 * Window          \* not ACCEPTED or IN_PROGRESS
Active(v) == startsAt[v] # Never

InitReminders ==
  /\ lastRun = 0
  /\ startsAt = [v \in Visits |-> Never]
  /\ reminders = [v \in Visits |-> 0]
  /\ ahead = [v \in Visits |-> FALSE]
  /\ regular = TRUE

\* accept(), an instant booking or a reschedule.
SetStart(v, t) ==
  /\ t # startsAt[v] /\ t > lastRun
  /\ startsAt' = [startsAt EXCEPT ![v] = t]
  /\ reminders' = [reminders EXCEPT ![v] = 0]
  /\ ahead' = [ahead EXCEPT ![v] = t >= lastRun + Lead + Window]
  /\ UNCHANGED <<lastRun, regular>>

\* Cancelled or completed.
EndVisit(v) ==
  /\ Active(v)
  /\ startsAt' = [startsAt EXCEPT ![v] = Never]
  /\ reminders' = [reminders EXCEPT ![v] = 0]
  /\ ahead' = [ahead EXCEPT ![v] = FALSE]
  /\ UNCHANGED <<lastRun, regular>>

InclusiveWindow(v, now) ==           \* mutant: lte for lt
  startsAt[v] >= now + Lead /\ startsAt[v] <= now + Lead + Window
InWindow(v, now) ==
  startsAt[v] >= now + Lead /\ startsAt[v] < now + Lead + Window

\* Cron may be a little early or late, and a run takes ReminderBatch bookings at most.
RunReminders(now) ==
  LET due == { v \in Visits : Active(v) /\ InWindow(v, now) }
  IN  \E batch \in SUBSET due :
        /\ batch = due \/ Cardinality(batch) = ReminderBatch
        /\ Cardinality(batch) <= ReminderBatch
        /\ lastRun' = now
        /\ reminders' = [v \in Visits |-> IF v \in batch THEN reminders[v] + 1 ELSE reminders[v]]
        /\ regular' = (regular /\ now = lastRun + Window /\ batch = due)
        /\ UNCHANGED <<startsAt, ahead>>

NextReminders ==
  \/ \E v \in Visits, t \in 1 .. Never - 1 : SetStart(v, t)
  \/ \E v \in Visits : EndVisit(v)
  \/ \E now \in lastRun + Window - 1 .. lastRun + Window + 1 : now <= LastRun /\ RunReminders(now)
RemindersSpec == InitReminders /\ [][NextReminders]_remindersVars

-----------------------------------------------------------------------------
RemindersTypeOK ==
  /\ lastRun \in 0 .. LastRun
  /\ startsAt \in [Visits -> 1 .. Never]
  /\ reminders \in [Visits -> Nat]
  /\ ahead \in [Visits -> BOOLEAN]
  /\ regular \in BOOLEAN

\* booking.constants: "the query window a due booking can only fall into once": one made
\* or moved in time is reminded of exactly once, by the run whose window it starts in,
\* as long as every run keeps the cadence and takes all it finds.
RemindedOnce ==
  regular => \A v \in Visits : Active(v) /\ ahead[v] =>
    reminders[v] = IF startsAt[v] < lastRun + Lead + Window THEN 1 ELSE 0
=============================================================================
