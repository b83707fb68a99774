-------------------------- MODULE MCConnectionTests --------------------------
(* Small instances of ConnectionTests for TLC. *)
EXTENDS ConnectionTests, TLC

CONSTANTS t1, t2

Of(protocol, connector, named) ==
    [protocol |-> protocol, connector |-> connector, named |-> named]

\* Two logins over each other, the shortest path, and a profile that is refused.
MixedProfiles ==
    [t \in Tests |-> {Of("ssh", "ssh_tunnel", TRUE), Of("telnet", "direct", FALSE),
                      Of("ssh", "ssh_shell", TRUE)}]

\* A shell on a bastion, beside a test that takes or waits for the slot.
WaitingProfiles ==
    [t \in Tests |-> IF t = t1 THEN {Of("telnet", "ssh_shell", TRUE)}
                     ELSE {Of("telnet", "direct", TRUE)}]

NamedProfiles == [t \in Tests |-> {Of("telnet", "direct", TRUE)}]

TestSymmetry == Permutations(Tests)
=============================================================================
