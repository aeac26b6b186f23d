--------------------------- MODULE MCJudgeDispatch ---------------------------
(***************************************************************************)
(* JudgeDispatch on small instances: the threads are model values, the     *)
(* sets of replies and loads are chosen by each configuration.             *)
(***************************************************************************)
EXTENDS JudgeDispatch

CONSTANTS w1, w2

OneWorker  == {w1}
TwoWorkers == {w1, w2}

\* The workers run the same code and no property names one of them.
WorkerSymmetry == Permutations(TwoWorkers)

=============================================================================
