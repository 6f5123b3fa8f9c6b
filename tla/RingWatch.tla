------------------------------ MODULE RingWatch ------------------------------
(***************************************************************************)
(* MpmcRing with a history variable: for every try_pop that is under way,  *)
(* the messages that have been in the ring without interruption since it   *)
(* loaded its cursor.  It records what a failing try_pop tells its caller, *)
(* and lets the ring be shown to implement MessageBag.                     *)
(***************************************************************************)
EXTENDS MpmcRing

VARIABLE unseen

watchVars == <<vars, unseen>>

WatchInit == Init /\ unseen = [t \in Threads |-> {}]

(* Only these two change what an ongoing try_pop may still find. *)
Watching(t) == unseen' = [unseen EXCEPT ![t] = Resident]

Taking(t, i) ==
  unseen' = [u \in Threads |-> IF u = t THEN {} ELSE unseen[u] \ {ring[i]}]

WatchNext ==
  \/ \E t \in Pushers : Push(t) /\ UNCHANGED unseen
  \/ \E t \in Poppers :
       \/ PopTake(t) /\ Taking(t, slot[t])
       \/ TryTake(t) /\ Taking(t, TrySlot(t))
       \/ TryBegin(t) /\ Watching(t)
       \/ (PopBegin(t) \/ PopProbe(t) \/ TryProbe(t) \/ TryEmpty(t) \/ TryStore(t)) /\ UNCHANGED unseen

WatchSpec == WatchInit /\ [][WatchNext]_watchVars

FairWatchSpec == WatchSpec /\ Fairness

-----------------------------------------------------------------------------

(* The slots a try_pop has already exchanged hold no message it should     *)
(* have found: what is in them now was pushed behind its back.             *)
PassedSlotsHoldNoUnseen ==
  \A t \in Threads :
    /\ unseen[t] \subseteq Resident
    /\ pc[t] # "try" => unseen[t] = {}
    /\ \A j \in 0 .. Capacity - 1 :
         j < probe[t] => ring[Wrap(slot[t] + j)] \notin unseen[t]

WatchTypeOK == TypeOK /\ unseen \in [Threads -> SUBSET Messages]

WatchInv == WatchTypeOK /\ PusherOwnsArg /\ OneOwner /\ PassedSlotsHoldNoUnseen

(* try_pop returns false only when every message that was in the ring as   *)
(* it loaded its cursor has since been taken, although other poppers       *)
(* rewrite the cursor and pushers fill slots behind the scan.              *)
FailedTryPopSawAll ==
  [][\A t \in Poppers : pc[t] = "try" /\ pc'[t] = "idle" => unseen[t] = {}]_watchVars

Bag == INSTANCE MessageBag WITH
  bag     <- Resident,
  polling <- {t \in Threads : pc[t] = "try"}

(* Every step of the ring is one step of the bag, or none. *)
ImplementsBag == Bag!Spec
=============================================================================
