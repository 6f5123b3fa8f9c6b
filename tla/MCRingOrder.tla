----------------------------- MODULE MCRingOrder -----------------------------
(* A producer phase and a drain phase, alternating as often as they like:  *)
(* thread a only pushes, thread d drains and puts messages back.           *)
EXTENDS RingOrder

CONSTANTS a, d, m1, m2, m3, m4, m5

MCPushers  == {a, d}
MCPoppers  == {a, d}
MCMessages == {m1, m2, m3, m4, m5}
=============================================================================
