------------------------------- MODULE MCSearch -------------------------------
(* Masters, services and searches, for TLC. *)
EXTENDS Search, TLC

CONSTANTS m1, m2, m3, o1, o2, o3, h1, h2, h3

OwnerSmall == (o1 :> m1) @@ (o2 :> m1) @@ (o3 :> m2)
JoinedSmall == (m1 :> 1) @@ (m2 :> 2) @@ (m3 :> 3)
AwaySmall  == (m1 :> 3) @@ (m2 :> 1) @@ (m3 :> 2)
ReachSmall == (m1 :> 4) @@ (m2 :> 4) @@ (m3 :> 1)

\* A chain of categories; masters in the last, the middle and none.
Chained == (h1 :> NoTopic) @@ (h2 :> h1) @@ (h3 :> h2)
Someone(rating, topics, exception, excepted, weekly) ==
  [ shown |-> TRUE, gone |-> FALSE, rating |-> rating, in |-> topics, exception |-> exception,
    excepted |-> excepted, weekly |-> weekly, views |-> 0 ]
Row(state, active, price) == [ state |-> state, active |-> active, price |-> price ]

\* The prices of one master lie around what is asked; then two prices alike, one of a
\* service since removed.
MarketSmall == {
  [ above |-> Chained,
    pro |-> (m1 :> Someone(1, {h3}, 2, FALSE, 0)) @@ (m2 :> Someone(2, {h2}, 0, FALSE, 1))
            @@ (m3 :> Someone(2, {}, 1, TRUE, 2)),
    offer |-> (o1 :> Row("live", TRUE, 1)) @@ (o2 :> Row("live", TRUE, 3)) @@ (o3 :> Row("none", TRUE, 2)) ],
  [ above |-> Chained,
    pro |-> (m1 :> Someone(1, {h2}, 0, TRUE, 2)) @@ (m2 :> Someone(2, {h1, h3}, 2, TRUE, 1))
            @@ (m3 :> [ Someone(2, {h3}, 2, FALSE, 2) EXCEPT !.shown = FALSE ]),
    offer |-> (o1 :> Row("live", FALSE, 2)) @@ (o2 :> Row("removed", TRUE, 2)) @@ (o3 :> Row("live", TRUE, 3)) ] }

Wanted(sort, limit) ==
  [ sort |-> sort, limit |-> limit, admin |-> FALSE, topic |-> NoTopic, rating |-> 0,
    min |-> 0, max |-> 0, day |-> "any", radius |-> 0 ]
QueriesSmall == {
  Wanted("rating", 2),
  [ Wanted("price:asc", 2) EXCEPT !.rating = 1, !.day = "later" ],
  [ Wanted("price:desc", 1) EXCEPT !.min = 2, !.max = 2 ],
  [ Wanted("created", 2) EXCEPT !.topic = h1 ],
  [ Wanted("distance", 2) EXCEPT !.radius = 3, !.day = "today" ],
  [ Wanted("created", 2) EXCEPT !.admin = TRUE, !.topic = h2 ] }
=============================================================================
