--------------------------- MODULE MCRouteMatcher ---------------------------
(***************************************************************************)
(* Model checking of RouteMatcher: all configurations of up to two routes. *)
(***************************************************************************)
EXTENDS RouteMatcher

CONSTANTS method, interface, a, b

MCNames == {method, interface}
MCValues == {a, b}

\* No matcher; an exact one; two of them; presence; absence.
Matches ==
    {{}, {<<method, {a}>>}, {<<method, {a}>>, <<interface, {b}>>},
     {<<interface, {a, b}>>}, {<<interface, {None}>>}}

\* One cluster, several with some of no weight, and several without any.
Weights == {<<>>, <<1, 0, 2, 0>>, <<0, 0>>}

MCRoutes == [match : Matches, weights : Weights]
MCRouteConfigs == {<<>>} \cup {<<r>> : r \in MCRoutes} \cup (MCRoutes \X MCRoutes)
=============================================================================
