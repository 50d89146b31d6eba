--------------------------- MODULE MasterCalendar ---------------------------
(***************************************************************************)
(* What the booking engine promises about a master's time, and nothing     *)
(* else: a booking may take a slot of its master's calendar, move to       *)
(* another slot or give it back, and no two bookings of one master ever    *)
(* hold overlapping slots (BR-33, the constraint bookings_no_overlap).     *)
(*                                                                         *)
(* held[b] is {} when booking b holds no time and {s} when it holds        *)
(* [s, s + Duration[b]).                                                   *)
(***************************************************************************)
EXTENDS Naturals

CONSTANTS Bookings, MasterOf, Duration, Starts

VARIABLE held

Apart(b, s, c, t) == s + Duration[b] <= t \/ t + Duration[c] <= s

\* Slot s of b's master is free of every booking but b itself.
Fits(b, s) ==
  \A c \in Bookings \ {b} :
    MasterOf[c] = MasterOf[b] => \A t \in held[c] : Apart(b, s, c, t)

NoDoubleBooking ==
  \A b \in Bookings, c \in Bookings :
    b # c /\ MasterOf[b] = MasterOf[c] =>
      \A s \in held[b], t \in held[c] : Apart(b, s, c, t)

Init == /\ held \in [Bookings -> {{}} \cup {{s} : s \in Starts}]
        /\ NoDoubleBooking

Hold(b)    == /\ held[b] = {}
              /\ \E s \in Starts : Fits(b, s) /\ held' = [held EXCEPT ![b] = {s}]
Move(b)    == /\ held[b] # {}
              /\ \E s \in Starts : Fits(b, s) /\ held' = [held EXCEPT ![b] = {s}]
Release(b) == /\ held[b] # {}
              /\ held' = [held EXCEPT ![b] = {}]

Next == \E b \in Bookings : Hold(b) \/ Move(b) \/ Release(b)

Spec == Init /\ [][Next]_held
=============================================================================
