---------------------------- MODULE MCCompileRun ----------------------------
(***************************************************************************)
(* CompileRun on small instances: two jobs, on one process or on two that  *)
(* were started in the same directory.                                     *)
(***************************************************************************)
EXTENDS CompileRun, TLC

CONSTANTS j1, j2, s1, s2, temp

TwoJobs    == {j1, j2}
OneServer  == {s1}
TwoServers == {s1, s2}
OneDir     == {temp}

SameServer  == [j \in TwoJobs |-> s1]
OwnServer   == (j1 :> s1) @@ (j2 :> s2)
SharedTemp1 == [s \in OneServer |-> temp]
SharedTemp2 == [s \in TwoServers |-> temp]

AllFailures == {"request", "src", "stdin", "fork", "compile_err", "open",
                "fork_run", "exec"}

JobSymmetry == Permutations(TwoJobs)

=============================================================================
