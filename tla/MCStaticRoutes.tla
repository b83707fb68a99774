--------------------------- MODULE MCStaticRoutes ---------------------------
(* Small instances of StaticRoutes for TLC. *)
EXTENDS StaticRoutes, TLC

CONSTANTS d1, d2, c1, c2, bad

\* One of the two seed routes stands for both.
OneSeed == <<d1>>

\* Three requests on one device, or two on two devices and an id that is no
\* UUID.
ThreeOrTwo == {[requests |-> 3, conns |-> {c1}], [requests |-> 2, conns |-> {c1, c2, bad}]}
TwoOnOne == {[requests |-> 2, conns |-> {c1, bad}]}

\* Requests are alike until they are served.
RequestSymmetry == Permutations(Requests)
=============================================================================
