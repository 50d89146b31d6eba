----------------------------- MODULE MCSchedule ------------------------------
(* Instances of one day of a master's schedule, for TLC. *)
EXTENDS Schedule

Hours(a, b) == [ start |-> a, end |-> b ]
\* Nothing; one window; a split day; two windows that overlap.
WeeksSmall == { {}, {Hours(0, 4)}, {Hours(1, 5)}, {Hours(0, 2), Hours(3, 5)},
                {Hours(0, 3), Hours(2, 5)} }
ExceptionsSmall == { DayOff, Hours(2, 5) }

Long(n) == { w \in Interval : w.end - w.start = n }
\* One booking, or two that do not overlap, in either order.
BusySmall ==
  { <<a>> : a \in Long(2) }
    \cup UNION { { <<a, b>>, <<b, a>> } :
                   <<a, b>> \in { p \in Long(1) \X Long(2) : ~Overlaps(p[1], p[2]) } }
=============================================================================
