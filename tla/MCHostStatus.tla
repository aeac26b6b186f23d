---------------------------- MODULE MCHostStatus ----------------------------
(***************************************************************************)
(* HostStatus on a small instance: two worker threads, so that a poll may  *)
(* be handled while the one that timed out still is.                       *)
(***************************************************************************)
EXTENDS HostStatus, TLC

CONSTANTS w1, w2

TwoWorkers == {w1, w2}
Leftovers  == {-1}

Symmetry == Permutations(TwoWorkers)

=============================================================================
