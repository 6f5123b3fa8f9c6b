----------------------------- MODULE MCPoolWatch -----------------------------
(* Three threads that compete for three slots and pass messages around. *)
EXTENDS PoolWatch, TLC

CONSTANTS t1, t2, t3, x

MCThreads  == {t1, t2, t3}
MCPayloads == {x}
MCSymmetry == Permutations(MCThreads)
=============================================================================
