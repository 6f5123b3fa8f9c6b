------------------------------ MODULE MCIngress ------------------------------
(* All frames of up to six bytes with length fields up to three; sizes     *)
(* are scaled down so that two records and a rest fit.  A length of an MTBT*)
(* packet may be negative: in Depth by so much that it does not reach back *)
(* into the frame, in MCBrokenFrames by so little that it does.            *)
EXTENDS Ingress

MaxLen == 6

Bytes(n) == 0 .. n - 1

Known(n) == {Bytes(n), {}, 1 .. n - 1}

Itch(n) == [kind : {"itch"}, len : {n}, field : [Bytes(n) -> 0 .. 3], known : Known(n)]

Mtbt(n) ==
  {[kind |-> "mtbt", len |-> n, known |-> known,
    field |-> [at \in Bytes(n) |-> IF lengths[at] = 1 THEN -(at + 1) ELSE lengths[at]]] :
      lengths \in [Bytes(n) -> 0 .. 3], known \in Known(n)}

Depth == UNION {Itch(n) \cup Mtbt(n) : n \in 1 .. MaxLen}

MCBrokenFrames ==
  UNION {{f \in [kind : {"mtbt"}, len : {n}, field : [Bytes(n) -> {-3, -1, 2, 3}], known : {Bytes(n)}] :
            ReachesBack(f)} : n \in 1 .. 5}

Top == {[kind |-> "mcx", len |-> n, field |-> [i \in 0 .. n - 1 |-> 0], known |-> 0 .. n - 1] :
          n \in 1 .. 4}

MCFrames == Depth \cup Top
=============================================================================
