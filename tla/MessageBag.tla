----------------------------- MODULE MessageBag -----------------------------
(***************************************************************************)
(* What include/mpmc/mpmc.hpp promises its callers, with no slots and no   *)
(* cursors: a bag of messages.  Offering a message gives it up, taking one *)
(* gains it, each in one indivisible step.  Only a poll may find nothing.  *)
(* An empty poll does not mean that the bag was empty at any one moment:   *)
(* it means that every message that was there when the poll began has been *)
(* taken by somebody before the poll ended.                                *)
(***************************************************************************)
CONSTANTS Messages, Pushers, Poppers

Threads == Pushers \cup Poppers

VARIABLES
  bag,      \* the messages inside
  held,     \* thread |-> the messages it owns
  polling,  \* the threads inside a poll
  unseen    \* thread |-> of what was in the bag when its poll began, what still is

vars == <<bag, held, polling, unseen>>

Init ==
  /\ bag = {}
  /\ held \in [Threads -> SUBSET Messages]
  /\ polling = {}
  /\ unseen = [t \in Threads |-> {}]

Offer(t, m) ==
  /\ m \in held[t]
  /\ bag' = bag \cup {m}
  /\ held' = [held EXCEPT ![t] = @ \ {m}]
  /\ UNCHANGED <<polling, unseen>>

Take(t, m) ==
  /\ m \in bag
  /\ bag' = bag \ {m}
  /\ held' = [held EXCEPT ![t] = @ \cup {m}]
  /\ polling' = polling \ {t}
  /\ unseen' = [u \in Threads |-> IF u = t THEN {} ELSE unseen[u] \ {m}]

BeginPoll(t) ==
  /\ t \notin polling
  /\ polling' = polling \cup {t}
  /\ unseen' = [unseen EXCEPT ![t] = bag]
  /\ UNCHANGED <<bag, held>>

EmptyPoll(t) ==
  /\ t \in polling
  /\ unseen[t] = {}
  /\ polling' = polling \ {t}
  /\ UNCHANGED <<bag, held, unseen>>

Next ==
  \/ \E t \in Pushers, m \in Messages : Offer(t, m)
  \/ \E t \in Poppers, m \in Messages : Take(t, m)
  \/ \E t \in Poppers : BeginPoll(t) \/ EmptyPoll(t)

Spec == Init /\ [][Next]_vars
=============================================================================
