------------------------------ MODULE MCRuntime ------------------------------
(* Two workers of either role over two messages and two slots: no symmetry, *)
(* which the liveness properties rule out.                                  *)
EXTENDS Runtime

CONSTANTS w1, w2

MCWorkers == {w1, w2}
=============================================================================
