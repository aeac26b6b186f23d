--------------------------- MODULE MCJudgeCluster ---------------------------
(***************************************************************************)
(* JudgeCluster on a small instance: two judges, two machines with one     *)
(* worker each, so that one program that does not end blocks a machine.    *)
(***************************************************************************)
EXTENDS JudgeCluster, TLC

CONSTANTS j1, j2, m1, m2

TwoJudges   == {j1, j2}
TwoMachines == {m1, m2}

Symmetry == Permutations(TwoJudges) \cup Permutations(TwoMachines)

=============================================================================
