------------------------------- MODULE Schedule -------------------------------
(***************************************************************************)
(* A master's working hours on one weekday, the exception of one such day, *)
(* and the slots computed from them for a service.  Instants are of that   *)
(* day, already in one zone.                                               *)
(***************************************************************************)
EXTENDS Naturals, Sequences, FiniteSets

CONSTANTS
  DayEnd,            \* instants are 0 .. DayEnd
  Weeks,             \* a bound: the sets of windows a master may ask for
  Exceptions,        \* a bound: the exceptions of the day
  BusyLists,         \* a bound: the intervals of the bookings, in the order they are read
  Durations,         \* a bound: durations of services
  NoException, DayOff,
  Editors            \* the master's concurrent requests

Instant == 0 .. DayEnd
Interval == { w \in [ start : Instant, end : Instant ] : w.start < w.end }

ASSUME ScheduleAssumption ==
  /\ DayEnd \in Nat /\ Weeks \subseteq SUBSET Interval
  /\ Exceptions \subseteq Interval \cup {DayOff}
  /\ BusyLists \subseteq Seq(Interval) /\ Durations \subseteq Nat \ {0}

VARIABLES
  workingDay,        \* rows of working_days, as their windows
  exception,         \* the row of schedule_exceptions, unique per date
  busy,              \* bookings ACCEPTED or IN_PROGRESS
  wanted,            \* what the last replacement to commit asked for, and whether
  torn,              \* another had committed since it deleted
  scheduling         \* what each request is doing

scheduleVars == <<workingDay, exception, busy, wanted, torn, scheduling>>

Scheduling == [ step : {"idle", "deleted", "absent"}, week : SUBSET Interval,
                seen : SUBSET Interval,                    \* rows deleteMany found
                raced : BOOLEAN,
                exception : Exceptions \cup {NoException} ]
NotScheduling == [ step |-> "idle", week |-> {}, seen |-> {}, raced |-> FALSE,
                   exception |-> NoException ]

InitSchedule ==
  /\ workingDay = {} /\ wanted = {} /\ torn = FALSE
  /\ exception = NoException
  /\ busy = <<>>
  /\ scheduling = [e \in Editors |-> NotScheduling]

Overlaps(a, b) == a.start < b.end /\ b.start < a.end
AssertNoOverlap(week) == \A a, b \in week : a # b => ~Overlaps(a, b)

(* replaceWorkingDays(): deleteMany deletes the rows it sees, createMany adds the new *)
(* ones, and the commit makes both true at once.                                       *)
DeleteDays(e, week) ==
  /\ scheduling[e].step = "idle" /\ busy = <<>>
  /\ AssertNoOverlap(week)
  /\ scheduling' = [scheduling EXCEPT ![e] =
       [ NotScheduling EXCEPT !.step = "deleted", !.week = week, !.seen = workingDay ]]
  /\ UNCHANGED <<workingDay, exception, busy, wanted, torn>>

Deleted(e) == scheduling[e].seen

CommitDays(e) ==
  /\ scheduling[e].step = "deleted"
  /\ workingDay' = (workingDay \ Deleted(e)) \cup scheduling[e].week
  /\ wanted' = scheduling[e].week /\ torn' = scheduling[e].raced
  /\ scheduling' = [f \in Editors |->
       IF f = e THEN NotScheduling
       ELSE [ scheduling[f] EXCEPT !.raced = scheduling[f].step = "deleted",
                                   !.seen = @ \ scheduling[e].week ]]    \* other rows
  /\ UNCHANGED <<exception, busy>>

(* createException(): the look-up, then the insert the unique index may refuse. *)
FindException(e, x) ==
  /\ scheduling[e].step = "idle" /\ exception = NoException /\ busy = <<>>
  /\ scheduling' = [scheduling EXCEPT ![e] =
       [ NotScheduling EXCEPT !.step = "absent", !.exception = x ]]
  /\ UNCHANGED <<workingDay, exception, busy, wanted, torn>>

CreateException(e) ==
  /\ scheduling[e].step = "absent"
  /\ exception' = IF exception = NoException THEN scheduling[e].exception ELSE exception
  /\ scheduling' = [scheduling EXCEPT ![e] = NotScheduling]
  /\ UNCHANGED <<workingDay, busy, wanted, torn>>

RemoveException ==
  /\ exception # NoException /\ busy = <<>>
  /\ exception' = NoException
  /\ UNCHANGED <<workingDay, busy, wanted, torn, scheduling>>

\* The engine accepts bookings.  Bound: after the hours are set, by one request at a time.
Book ==
  /\ \A e \in Editors : scheduling[e].step = "idle"
  /\ busy = <<>> /\ ~torn /\ busy' \in BusyLists
  /\ UNCHANGED <<workingDay, exception, wanted, torn, scheduling>>

-----------------------------------------------------------------------------
(* computeAvailability() *)

\* windowFor: the exception's, or that of the first row found for the weekday, which
\* the query does not order.
WindowsFor ==
  IF exception = NoException THEN workingDay
  ELSE IF exception = DayOff THEN {} ELSE {exception}

LongerOf(a, b) == IF a < b THEN b ELSE a
ClampToNow(w, now) == [ w EXCEPT !.start = LongerOf(@, now) ]

LeftOf(w, interval) ==
  IF interval.end <= w.start \/ interval.start >= w.end THEN {w}
  ELSE { p \in { [ start |-> w.start, end |-> interval.start ],
                 [ start |-> interval.end, end |-> w.end ] } : p.start < p.end }
FirstOnly(w) ==                      \* mutant: only the first booking is subtracted
  IF busy = <<>> THEN {w} ELSE LeftOf(w, Head(busy))
SubtractBusy(w) ==
  LET left[n \in 0 .. Len(busy)] ==
        IF n = 0 THEN {w} ELSE UNION { LeftOf(p, busy[n]) : p \in left[n - 1] }
  IN  left[Len(busy)]

Chunk(w, duration) ==
  { t \in Instant : /\ t >= w.start /\ t + duration <= w.end
                    /\ (t - w.start) % duration = 0 }

ComputeAvailability(w, now, duration) ==
  LET clamped == ClampToNow(w, now)
  IN  IF clamped.start >= clamped.end THEN {}
      ELSE UNION { Chunk(free, duration) : free \in SubtractBusy(clamped) }

\* computeBusySlots(): the taken slots, counted from where each booking meets the window.
ComputeBusySlots(w, now, duration) ==
  LET clamped == ClampToNow(w, now)
      meet(interval) == [ start |-> LongerOf(interval.start, clamped.start),
                          end |-> IF interval.end < clamped.end THEN interval.end ELSE clamped.end ]
  IN  IF clamped.start >= clamped.end THEN {}
      ELSE UNION { Chunk(meet(busy[i]), duration) :
                     i \in { j \in DOMAIN busy : meet(busy[j]).start < meet(busy[j]).end } }

NextSchedule ==
  \/ \E e \in Editors :
       \/ \E week \in Weeks : DeleteDays(e, week)
       \/ \E x \in Exceptions : FindException(e, x)
       \/ CommitDays(e) \/ CreateException(e)
  \/ RemoveException \/ Book
ScheduleSpec == InitSchedule /\ [][NextSchedule]_scheduleVars

-----------------------------------------------------------------------------
ScheduleTypeOK ==
  /\ workingDay \subseteq Interval
  /\ exception \in Exceptions \cup {NoException}
  /\ busy \in BusyLists \cup {<<>>}
  /\ wanted \subseteq Interval
  /\ torn \in BOOLEAN
  /\ scheduling \in [Editors -> Scheduling]

\* The reference: from the first instant that is free, slots one after the other.
FreeAt(w, now, t) ==
  /\ w.start <= t /\ t < w.end /\ now <= t
  /\ \A i \in DOMAIN busy : ~(busy[i].start <= t /\ t < busy[i].end)
FirstFree(w, now, t) == FreeAt(w, now, t) /\ (t = 0 \/ ~FreeAt(w, now, t - 1))
SlotsOf(w, now, d) ==
  { t \in Instant :
      /\ \A u \in t .. t + d - 1 : FreeAt(w, now, u)
      /\ \E a \in 0 .. t : /\ FirstFree(w, now, a) /\ (t - a) % d = 0
                           /\ \A u \in a .. t : FreeAt(w, now, u) }

\* What the master last asked for, if no other replacement of the week got in between.
HoursAsked ==
  IF exception = NoException THEN wanted ELSE IF exception = DayOff THEN {} ELSE {exception}

\* computeAvailability offers the slots of the window it takes, all of them free, each a
\* multiple of the duration after the last booking, and computeBusySlots overlaps none.
SlotsExact ==
  /\ ~torn => WindowsFor = HoursAsked
  /\ \A w \in WindowsFor, now \in Instant, d \in Durations :
       /\ SlotsOf(w, now, d) = ComputeAvailability(w, now, d)
       /\ \A t \in ComputeAvailability(w, now, d), b \in ComputeBusySlots(w, now, d) :
            t + d <= b \/ b + d <= t

\* FR-6.3, "expand weekly rules across the range", and the "multiple windows in a day" of
\* the test plan: the slots of every window of a day are offered.
EveryWindowOffered ==
  ~torn => \A w \in WindowsFor, now \in Instant, d \in Durations :
             ComputeAvailability(w, now, d) = UNION { SlotsOf(h, now, d) : h \in HoursAsked }
=============================================================================
