----------------------------- MODULE MCHttpServer -----------------------------
(***************************************************************************)
(* HttpServer on a small instance.                                         *)
(***************************************************************************)
EXTENDS HttpServer, TLC

CONSTANTS w1, w2, c1, c2, c3

TwoWorkers       == {w1, w2}
ThreeConnections == {c1, c2, c3}

\* One connection is kept for long, one sends once, one only connects.
Sends == (c1 :> 3) @@ (c2 :> 1) @@ (c3 :> 0)

=============================================================================
