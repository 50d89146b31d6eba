------------------------------- MODULE MCFigures ------------------------------
(* Bookings and reviews to report on, for TLC. *)
EXTENDS Figures, TLC

CONSTANTS v1, v2, v3, w1, w2, a1, a2

PriceSmall  == (v1 :> 1) @@ (v2 :> 2) @@ (v3 :> 4)
ClientSmall == (v1 :> 1) @@ (v2 :> 1) @@ (v3 :> 2)
TradeSmall  == (v1 :> w1) @@ (v2 :> w2) @@ (v3 :> w2)
AreaSmall   == (w1 :> a1) @@ (w2 :> a2)

Standing(status) == [ status |-> status, accepted |-> status \in {"ACCEPTED", "IN_PROGRESS", "COMPLETED"},
                      day |-> 0, rating |-> 0, nps |-> -1, visible |-> FALSE ]
Finished(day, rating, nps, visible) ==
  [ Standing("COMPLETED") EXCEPT !.day = day, !.rating = rating, !.nps = nps, !.visible = visible ]
Ledger(f, withdrawn) == [ of |-> f, withdrawn |-> withdrawn ]
\* Work under way and work called off; reviews of every kind, one service removed.
LedgersSmall == {
  Ledger((v1 :> Finished(0, 0, -1, FALSE)) @@ (v2 :> Standing("IN_PROGRESS")) @@ (v3 :> Standing("NONE")), {}),
  Ledger((v1 :> Standing("EXPIRED")) @@ (v2 :> Standing("PENDING")) @@ (v3 :> Standing("ACCEPTED")), {}),
  Ledger((v1 :> Finished(1, 5, 9, TRUE)) @@ (v2 :> Finished(2, 1, 3, TRUE)) @@ (v3 :> Finished(2, 4, -1, FALSE)), {}),
  Ledger((v1 :> Finished(1, 5, 10, TRUE)) @@ (v2 :> Finished(2, 4, 7, FALSE))
         @@ (v3 :> Standing("CANCELLED_BY_CLIENT")), {w1}) }
=============================================================================
