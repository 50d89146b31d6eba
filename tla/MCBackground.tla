---------------------------- MODULE MCBackground -----------------------------
(* Instances of what runs behind the requests, for TLC. *)
EXTENDS Background

CONSTANTS a1, a2, m1, p1, u1, u2, v1, s1, s2, n1, n2

\* Completions and what hears them; changes to reviews; new reviews; replies.
MenusSmall == { {"complete", "mute", "crash"}, {"edit", "hide", "unhide"}, {"create"}, {"reply"} }

\* A second avatar; a file that is not what it was declared; a picture for the portfolio.
UploadsSmall == { {}, {a2}, {m1}, {p1} }

\* A master and a client, each on an instance of their own, and another client's dealings.
TwoPairs   == { <<u1, v1>>, <<u2, v1>> }
TwoOwners  == [s \in Sockets |-> IF s = s1 THEN v1 ELSE u1]
TwoNodes   == [s \in Sockets |-> IF s = s1 THEN n1 ELSE n2]
Dealings(f, g) == [pair \in Pairs |-> IF pair[1] = u1 THEN f ELSE g]
EngagementsSmall == { Dealings("PENDING", "NONE"), Dealings("IN_PROGRESS", "PENDING") }
=============================================================================
