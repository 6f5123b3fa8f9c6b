----------------------------- MODULE MCRingWatch -----------------------------
(* Two slots, cursors that wrap after four, more messages than slots, and  *)
(* two threads that push and pop whatever they like for ever, so that      *)
(* messages come round again.                                              *)
EXTENDS RingWatch

CONSTANTS a, b, m1, m2, m3

MCPushers  == {a, b}
MCPoppers  == {a, b}
MCMessages == {m1, m2, m3}
=============================================================================
