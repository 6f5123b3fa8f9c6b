------------------------------ MODULE RingOrder ------------------------------
(***************************************************************************)
(* MpmcRing with a history variable: the messages in the ring in the order *)
(* in which they were pushed.  The program's own pipeline (src/main.cpp)   *)
(* pushes from one thread and, once that thread is joined, drains from     *)
(* another; it relies on such phases being first in, first out.            *)
(***************************************************************************)
EXTENDS MpmcRing, Sequences

VARIABLE order

orderVars == <<vars, order>>

OrderInit == Init /\ order = <<>>

(* The order once m has been taken out of it. *)
Without(m) ==
  LET place == CHOOSE i \in DOMAIN order : order[i] = m
  IN  [i \in 1 .. Len(order) - 1 |-> IF i < place THEN order[i] ELSE order[i + 1]]

OrderNext ==
  \/ \E t \in Pushers : PushStore(t) /\ order' = Append(order, arg[t])
  \/ \E t \in Poppers : PopTake(t) /\ order' = Without(ring[slot[t]])
  \/ \E t \in Poppers : TryTake(t) /\ order' = Without(ring[TrySlot(t)])
  \/ \E t \in Pushers :
       ((\E m \in Messages : PushBegin(t, m)) \/ PushProbe(t)) /\ UNCHANGED order
  \/ \E t \in Poppers :
       (PopBegin(t) \/ PopProbe(t) \/ TryBegin(t) \/ TryProbe(t) \/ TryEmpty(t) \/ TryStore(t))
         /\ UNCHANGED order

(* No two calls overlap: the phases of the pipeline. *)
CallsDoNotOverlap ==
  \A t, u \in Threads : pc[t] # "idle" /\ pc[u] # "idle" => t = u

(* A blocking call that cannot return would be the last one of the phase.  *)
CallsReturn ==
  /\ (\E t \in Threads : pc[t] = "push") => \E i \in Slots : ring[i] = NoMsg
  /\ (\E t \in Threads : pc[t] = "pop") => Resident # {}

PhasedNext == OrderNext /\ CallsDoNotOverlap' /\ CallsReturn'

PhasedSpec == OrderInit /\ [][PhasedNext]_orderVars

-----------------------------------------------------------------------------

(* What makes them hold.  The messages lie in consecutive slots from first *)
(* on, in their order.                                                     *)
Arc(first) ==
  \A j \in 0 .. Capacity - 1 :
    ring[Wrap(first + j)] = IF j < Len(order) THEN order[j + 1] ELSE NoMsg

Inside(operation) == \E t \in Threads : pc[t] = operation

(* The cursors point to its two ends, but for what a call has yet to do.   *)
CursorsAtEnds(first) ==
  /\ Wrap(post_cursor) = Wrap(first + Len(order) + IF Inside("push") THEN 1 ELSE 0)
  /\ ~Inside("store") => Wrap(pop_cursor) = Wrap(first + IF Inside("pop") THEN 1 ELSE 0)

(* A call looks at the end it is for. *)
CallsAtEnds(first) ==
  \A t \in Threads :
    /\ pc[t] = "push" => slot[t] = Wrap(first + Len(order))
    /\ pc[t] = "pop" => slot[t] = first
    /\ pc[t] = "try" => Wrap(slot[t]) = first /\ (probe[t] > 0 => order = <<>>)
    /\ pc[t] = "store" => Wrap(slot[t] + 1) = first

ArcInv ==
  /\ order \in Seq(Messages) /\ Len(order) <= Capacity
  /\ \E first \in Slots : Arc(first) /\ CursorsAtEnds(first) /\ CallsAtEnds(first)

OrderInv == OwnershipInv /\ CallsDoNotOverlap /\ CallsReturn /\ ArcInv

(* When calls do not overlap, messages leave the ring in the order they    *)
(* entered it, by pop or by try_pop, however often the cursors wrap.       *)
FirstInFirstOut ==
  [][\A t \in Poppers : \A m \in held'[t] \ held[t] : m = Head(order)]_orderVars

(* When calls do not overlap, push and pop succeed at their first slot and *)
(* try_pop at its first slot or not at all: the pipeline's drain loops     *)
(* stop at the first false, and nothing may be left behind.                *)
NoDetour ==
  [][\A t \in Threads :
       /\ pc[t] \in {"push", "pop"} => pc'[t] = "idle"
       /\ pc[t] = "try" /\ pc'[t] = "idle" => order = <<>>
       /\ pc[t] = "try" /\ probe'[t] > probe[t] => order = <<>>]_orderVars
=============================================================================
