---------------------------- MODULE MCBatchJobs -----------------------------
(* Small instances of BatchJobs for TLC. *)
EXTENDS BatchJobs, TLC

CONSTANTS c1, c2

\* A whole inventory of two devices, and one of them.
TwoSelections == {<<c2>>, <<c1, c2>>}
OneSelection == {<<c1, c2>>}

\* Job ids are random: any of them may be drawn first.
JobSymmetry == Permutations(Jobs)
=============================================================================
