------------------------------ MODULE MCSignIn ------------------------------
(* Small instances of SignIn for TLC. *)
EXTENDS SignIn, TLC

CONSTANTS q1, q2

FlowSymmetry == Permutations(Flows)

MCRoleSets == {{"Viewer"}, {"Administrator"}}

\* Two clients through a rotation of keys, or a browser with two tabs whose
\* callbacks may be sent twice.
MCLoads == {
    [asks |-> (q1 :> {"bearer"}) @@ (q2 :> {"bearer"}), changes |-> 3],
    [asks |-> (q1 :> {"login", "callback", "session", "logout"}) @@ (q2 :> {"callback"}),
     changes |-> 0]}
=============================================================================
