----------------------------- MODULE MCBookings -----------------------------
(***************************************************************************)
(* Instances of Bookings for TLC.  Time units are abstract; in most of     *)
(* them a slot lasts two units, so that neighbouring starts overlap.       *)
(***************************************************************************)
EXTENDS BookingsProperties, TLC

CONSTANTS b1, b2, b3, m1, c1, r1, r2

OneMaster  == [b \in Bookings |-> m1]
OneClient  == [b \in Bookings |-> c1]
TwoUnits   == [b \in Bookings |-> 2]
\* b1 lasts longer, and overlaps the next start without sharing it.
TwoOrThree == [b \in Bookings |-> IF b = b1 THEN 3 ELSE 2]

RequestSymmetry == Permutations(Requests)
\* Of a run whose b2 and b3 differ in nothing.
CalendarSymmetry == RequestSymmetry \cup Permutations({b2, b3})
=============================================================================
