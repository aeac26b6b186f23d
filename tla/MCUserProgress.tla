--------------------------- MODULE MCUserProgress ---------------------------
(***************************************************************************)
(* UserProgress on small instances: one or two threads, one user with two  *)
(* questions or two users with one.                                        *)
(***************************************************************************)
EXTENDS UserProgress, TLC

CONSTANTS w1, w2, u1, u2, q1, q2

OneWorker    == {w1}
TwoWorkers   == {w1, w2}
OneUser      == {u1}
TwoUsers     == {u1, u2}
OneQuestion  == {q1}
TwoQuestions == {q1, q2}

\* No property names a worker, a user or a question.
Symmetry == Permutations(TwoWorkers) \cup Permutations(TwoUsers)
              \cup Permutations(TwoQuestions)

=============================================================================
