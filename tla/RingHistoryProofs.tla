-------------------------- MODULE RingHistoryProofs --------------------------
(***************************************************************************)
(* Proofs about the ring with its history variables.  RingWatch: what a    *)
(* failing try_pop tells its caller, and that the ring implements          *)
(* MessageBag.  RingOrder: without overlapping calls it is first in, first *)
(* out.                                                                    *)
(***************************************************************************)
EXTENDS RingWatch, RingOrder, MpmcRingProofs, SequenceTheorems

(* The history variable only watches: its steps are steps of the ring. *)
LEMMA WatchStepIsStep == [WatchNext]_watchVars => [Next]_vars
<1> SUFFICES ASSUME WatchNext PROVE Next
  BY DEF watchVars
<1> QED
  BY DEF WatchNext, Next, Pop, TryPop

LEMMA SlotOfProbe ==
  ASSUME TypeOK, NEW u \in Threads, NEW j \in 0 .. Capacity - 1
  PROVE  Wrap(slot[u] + j) \in Slots
<1>1. slot[u] \in Cursors /\ j \in 0 .. Capacity
  BY CapacityAssumption DEF TypeOK
<1> QED
  BY <1>1, CursorFacts

-----------------------------------------------------------------------------
(* The inductive invariant.                                                *)

LEMMA WatchInvInit == WatchInit => WatchInv
<1> SUFFICES ASSUME WatchInit PROVE WatchInv
  OBVIOUS
<1>1. OwnershipInv
  BY OwnershipInit DEF WatchInit
<1>2. unseen = [t \in Threads |-> {}]
  BY DEF WatchInit
<1>3. PassedSlotsHoldNoUnseen
  BY <1>2 DEF PassedSlotsHoldNoUnseen
<1> QED
  BY <1>1, <1>2, <1>3 DEF WatchInv, WatchTypeOK, OwnershipInv

(* A scan of Capacity probes has passed every slot. *)
LEMMA EndOfScan ==
  ASSUME WatchInv, NEW t \in Threads, probe[t] = Capacity
  PROVE  unseen[t] = {}
<1> SUFFICES ASSUME NEW m \in unseen[t] PROVE FALSE
  OBVIOUS
<1>1. PICK i \in Slots : ring[i] = m
  BY DEF WatchInv, PassedSlotsHoldNoUnseen, Resident
<1>2. slot[t] \in Nat
  BY CursorFacts DEF WatchInv, WatchTypeOK, TypeOK
<1>3. PICK j \in 0 .. Capacity - 1 : Wrap(slot[t] + j) = i
  BY <1>2, ProbesCoverRing
<1>4. j < probe[t]
  BY CapacityAssumption
<1> QED
  BY <1>1, <1>3, <1>4 DEF WatchInv, PassedSlotsHoldNoUnseen

(* A push puts a message where no ongoing scan expects one: it was with    *)
(* its pusher, so no scan counts it as unseen.                             *)
LEMMA PushStoreKeepsPassed ==
  ASSUME WatchInv, NEW t \in Pushers, PushStore(t), unseen' = unseen
  PROVE  PassedSlotsHoldNoUnseen'
<1> USE DEF WatchInv, WatchTypeOK, TypeOK, Threads
<1> DEFINE m == arg[t]
           i == slot[t]
<1>1. m \in held[t] /\ m \in Messages /\ i \in Slots /\ t \in Threads
  BY DEF PushStore, PusherOwnsArg
<1>2. /\ ring' = [ring EXCEPT ![i] = m]
      /\ ring[i] = NoMsg
      /\ pc' = [pc EXCEPT ![t] = "idle"]
      /\ pc[t] = "push"
      /\ slot' = [slot EXCEPT ![t] = 0]
      /\ probe' = [probe EXCEPT ![t] = 0]
  BY DEF PushStore, Return
<1>3. \A u \in Threads : m \notin unseen[u]
  BY <1>1 DEF PassedSlotsHoldNoUnseen, Resident, OneOwner
<1> HIDE DEF m, i
<1>4. Resident \subseteq Resident'
  BY <1>1, <1>2 DEF Resident
<1>5. unseen[t] = {}
  BY <1>1, <1>2 DEF PassedSlotsHoldNoUnseen
<1> SUFFICES ASSUME NEW u \in Threads
             PROVE  /\ unseen'[u] \subseteq Resident'
                    /\ pc'[u] # "try" => unseen'[u] = {}
                    /\ \A j \in 0 .. Capacity - 1 :
                         j < probe'[u] => ring'[Wrap(slot'[u] + j)] \notin unseen'[u]
  BY DEF PassedSlotsHoldNoUnseen
<1>6. CASE u = t
  BY <1>5, <1>6
<1>7. CASE u # t
  <2>1. /\ pc'[u] = pc[u] /\ slot'[u] = slot[u] /\ probe'[u] = probe[u]
    BY <1>1, <1>2, <1>7
  <2>2. ASSUME NEW j \in 0 .. Capacity - 1, j < probe[u]
        PROVE  ring'[Wrap(slot[u] + j)] \notin unseen[u]
    <3>1. Wrap(slot[u] + j) \in Slots
      BY SlotOfProbe
    <3>2. ring[Wrap(slot[u] + j)] \notin unseen[u]
      BY <2>2 DEF PassedSlotsHoldNoUnseen
    <3> QED
      BY <1>1, <1>2, <1>3, <3>1, <3>2
  <2> QED
    BY <1>4, <2>1, <2>2 DEF PassedSlotsHoldNoUnseen
<1> QED
  BY <1>6, <1>7

(* A message that is taken is struck off what every ongoing scan expects.  *)
LEMMA TakeKeepsPassed ==
  ASSUME WatchInv, NEW t \in Poppers, NEW i \in Slots, TakeFrom(t, i), Taking(t, i),
         NEW where \in {"idle", "store"}, pc' = [pc EXCEPT ![t] = where],
         \A u \in Threads \ {t} : slot'[u] = slot[u] /\ probe'[u] = probe[u]
  PROVE  PassedSlotsHoldNoUnseen'
<1> USE DEF WatchInv, WatchTypeOK, TypeOK, Threads
<1>1. /\ ring' = [ring EXCEPT ![i] = NoMsg]
      /\ ring[i] \in Messages
  BY DEF TakeFrom
<1>2. \A u \in Threads : unseen'[u] = IF u = t THEN {} ELSE unseen[u] \ {ring[i]}
  BY DEF Taking
<1>3. Resident' = Resident \ {ring[i]}
  BY <1>1 DEF Resident, OneOwner
<1> SUFFICES ASSUME NEW u \in Threads
             PROVE  /\ unseen'[u] \subseteq Resident'
                    /\ pc'[u] # "try" => unseen'[u] = {}
                    /\ \A j \in 0 .. Capacity - 1 :
                         j < probe'[u] => ring'[Wrap(slot'[u] + j)] \notin unseen'[u]
  BY DEF PassedSlotsHoldNoUnseen
<1>4. CASE u = t
  BY <1>2, <1>4
<1>5. CASE u # t
  <2>1. pc'[u] = pc[u] /\ slot'[u] = slot[u] /\ probe'[u] = probe[u]
    BY <1>5
  <2>2. unseen'[u] = unseen[u] \ {ring[i]}
    BY <1>2, <1>5
  <2>3. ASSUME NEW j \in 0 .. Capacity - 1, j < probe[u]
        PROVE  ring'[Wrap(slot[u] + j)] \notin unseen[u]
    <3>1. Wrap(slot[u] + j) \in Slots
      BY SlotOfProbe
    <3>2. NoMsg \notin unseen[u]
      BY NoMsgAssumption
    <3>3. ring[Wrap(slot[u] + j)] \notin unseen[u]
      BY <2>3 DEF PassedSlotsHoldNoUnseen
    <3> QED
      BY <1>1, <3>1, <3>2, <3>3
  <2> QED
    BY <1>3, <2>1, <2>2, <2>3 DEF PassedSlotsHoldNoUnseen
<1> QED
  BY <1>4, <1>5

LEMMA WatchTypeStep ==
  ASSUME WatchInv, WatchNext
  PROVE  unseen' \in [Threads -> SUBSET Messages]
<1> USE DEF WatchInv, WatchTypeOK, TypeOK, Threads
<1>1. Resident \in SUBSET Messages
  BY DEF Resident
<1>2. ASSUME NEW t \in Poppers, NEW i, Taking(t, i)
      PROVE  unseen' \in [Threads -> SUBSET Messages]
  BY <1>2 DEF Taking
<1>3. ASSUME NEW t \in Poppers, Watching(t)
      PROVE  unseen' \in [Threads -> SUBSET Messages]
  BY <1>1, <1>3 DEF Watching
<1>4. CASE UNCHANGED unseen
  BY <1>4
<1> QED
  BY <1>2, <1>3, <1>4 DEF WatchNext

(* A step of pushing or popping that leaves the slots alone and moves no   *)
(* scan keeps what the scans have passed.                                  *)
LEMMA QuietKeepsPassed ==
  ASSUME WatchInv, ring' = ring, unseen' = unseen,
         \A u \in Threads : \/ pc[u] # "try" /\ pc'[u] # "try"
                            \/ pc'[u] = pc[u] /\ slot'[u] = slot[u] /\ probe'[u] = probe[u]
  PROVE  PassedSlotsHoldNoUnseen'
  BY DEF PassedSlotsHoldNoUnseen, WatchInv, Resident

LEMMA WatchInvStep == WatchInv /\ [WatchNext]_watchVars => WatchInv'
<1> SUFFICES ASSUME WatchInv, [WatchNext]_watchVars PROVE WatchInv'
  OBVIOUS
<1>1. OwnershipInv'
  BY WatchStepIsStep, OwnershipStep DEF WatchInv, WatchTypeOK, OwnershipInv
<1>2. unseen' \in [Threads -> SUBSET Messages]
  BY WatchTypeStep DEF WatchInv, WatchTypeOK, watchVars
<1> SUFFICES PassedSlotsHoldNoUnseen'
  BY <1>1, <1>2 DEF WatchInv, WatchTypeOK, OwnershipInv
<1> USE DEF WatchInv, WatchTypeOK, TypeOK, Threads
<1>3. ASSUME NEW t \in Pushers, Push(t), UNCHANGED unseen PROVE PassedSlotsHoldNoUnseen'
  <2>1. CASE PushStore(t)
    BY <1>3, <2>1, PushStoreKeepsPassed
  <2>2. ASSUME NEW m \in Messages, PushBegin(t, m) PROVE PassedSlotsHoldNoUnseen'
    BY <1>3, <2>2, QuietKeepsPassed DEF PushBegin, Enter
  <2>3. CASE PushProbe(t)
    BY <1>3, <2>3, QuietKeepsPassed DEF PushProbe
  <2> QED
    BY <1>3, <2>1, <2>2, <2>3 DEF Push
<1>4. ASSUME NEW t \in Poppers, PopTake(t), Taking(t, slot[t]) PROVE PassedSlotsHoldNoUnseen'
  <2>1. slot[t] \in Slots /\ TakeFrom(t, slot[t])
    BY <1>4 DEF PopTake
  <2>2. /\ pc' = [pc EXCEPT ![t] = "idle"]
        /\ \A u \in Threads \ {t} : slot'[u] = slot[u] /\ probe'[u] = probe[u]
    BY <1>4 DEF PopTake, Return
  <2> QED
    BY <1>4, <2>1, <2>2, TakeKeepsPassed
<1>5. ASSUME NEW t \in Poppers, TryTake(t), Taking(t, TrySlot(t)) PROVE PassedSlotsHoldNoUnseen'
  <2>1. TrySlot(t) \in Slots
    BY CursorFacts DEF TrySlot
  <2>2. TakeFrom(t, TrySlot(t))
    BY <1>5 DEF TryTake
  <2>3. /\ pc' = [pc EXCEPT ![t] = "store"]
        /\ \A u \in Threads \ {t} : slot'[u] = slot[u] /\ probe'[u] = probe[u]
    BY <1>5 DEF TryTake
  <2> QED
    BY <1>5, <2>1, <2>2, <2>3, TakeKeepsPassed
<1>6. ASSUME NEW t \in Poppers, TryBegin(t), Watching(t) PROVE PassedSlotsHoldNoUnseen'
  <2> SUFFICES ASSUME NEW u \in Threads
               PROVE  /\ unseen'[u] \subseteq Resident'
                      /\ pc'[u] # "try" => unseen'[u] = {}
                      /\ \A j \in 0 .. Capacity - 1 :
                           j < probe'[u] => ring'[Wrap(slot'[u] + j)] \notin unseen'[u]
    BY DEF PassedSlotsHoldNoUnseen
  <2>1. Resident' = Resident
    BY <1>6 DEF TryBegin, Resident
  <2>2. CASE u = t
    BY <1>6, <2>1, <2>2 DEF TryBegin, Enter, Watching, PassedSlotsHoldNoUnseen
  <2>3. CASE u # t
    BY <1>6, <2>1, <2>3 DEF TryBegin, Enter, Watching, PassedSlotsHoldNoUnseen
  <2> QED
    BY <2>2, <2>3
<1>7. ASSUME NEW t \in Poppers, TryProbe(t), UNCHANGED unseen PROVE PassedSlotsHoldNoUnseen'
  <2> SUFFICES ASSUME NEW u \in Threads
               PROVE  /\ unseen'[u] \subseteq Resident'
                      /\ pc'[u] # "try" => unseen'[u] = {}
                      /\ \A j \in 0 .. Capacity - 1 :
                           j < probe'[u] => ring'[Wrap(slot'[u] + j)] \notin unseen'[u]
    BY DEF PassedSlotsHoldNoUnseen
  <2>1. ring' = ring /\ Resident' = Resident /\ pc' = pc /\ slot' = slot
    BY <1>7 DEF TryProbe, Resident
  <2>2. CASE u = t
    <3>1. probe'[u] = probe[u] + 1 /\ ring[Wrap(slot[u] + probe[u])] = NoMsg
      BY <1>7, <2>2 DEF TryProbe, TrySlot
    <3>2. NoMsg \notin unseen[u]
      BY NoMsgAssumption
    <3>3. \A j \in 0 .. Capacity - 1 : j < probe[u] + 1 => j < probe[u] \/ j = probe[u]
      BY CapacityAssumption
    <3> QED
      BY <1>7, <2>1, <3>1, <3>2, <3>3 DEF PassedSlotsHoldNoUnseen
  <2>3. CASE u # t
    BY <1>7, <2>1, <2>3 DEF TryProbe, PassedSlotsHoldNoUnseen
  <2> QED
    BY <2>2, <2>3
<1>8. ASSUME NEW t \in Poppers, TryEmpty(t), UNCHANGED unseen PROVE PassedSlotsHoldNoUnseen'
  <2>1. unseen[t] = {}
    BY <1>8, EndOfScan DEF TryEmpty
  <2> QED
    BY <1>8, <2>1 DEF TryEmpty, Return, PassedSlotsHoldNoUnseen, Resident
<1>9. ASSUME NEW t \in Poppers, PopBegin(t) \/ PopProbe(t) \/ TryStore(t), UNCHANGED unseen
      PROVE  PassedSlotsHoldNoUnseen'
  <2>1. ring' = ring /\ unseen' = unseen
    BY <1>9 DEF PopBegin, PopProbe, TryStore
  <2>2. \A u \in Threads : \/ pc[u] # "try" /\ pc'[u] # "try"
                           \/ pc'[u] = pc[u] /\ slot'[u] = slot[u] /\ probe'[u] = probe[u]
    BY <1>9 DEF PopBegin, PopProbe, TryStore, Enter, Return
  <2> QED
    BY <2>1, <2>2, QuietKeepsPassed
<1>10. CASE UNCHANGED watchVars
  BY <1>10, QuietKeepsPassed DEF watchVars, vars, locals
<1> QED
  BY <1>3, <1>4, <1>5, <1>6, <1>7, <1>8, <1>9, <1>10 DEF WatchNext

LEMMA WatchInvariant == WatchSpec => []WatchInv
  BY WatchInvInit, WatchInvStep, PTL DEF WatchSpec

(* The argument by which a scan misses nothing: what it has passed holds   *)
(* nothing it should have found (mpmc.hpp:75-85).                          *)
THEOREM PassedSlots == WatchSpec => []PassedSlotsHoldNoUnseen
<1>1. WatchInv => PassedSlotsHoldNoUnseen
  BY DEF WatchInv
<1> QED
  BY <1>1, WatchInvariant, PTL

(* try_pop returns false only when all it could have found was taken.      *)
THEOREM FailedTryPop == WatchSpec => FailedTryPopSawAll
<1>1. WatchInv /\ [WatchNext]_watchVars =>
        [\A t \in Poppers : pc[t] = "try" /\ pc'[t] = "idle" => unseen[t] = {}]_watchVars
  <2> SUFFICES ASSUME WatchInv, WatchNext, NEW t \in Poppers, pc[t] = "try", pc'[t] = "idle"
               PROVE  unseen[t] = {}
    OBVIOUS
  <2>1. t \in Threads
    BY DEF Threads
  <2>2. probe[t] = Capacity
    BY <2>1 DEF WatchNext, Push, PushBegin, PushStore, PushProbe, PopBegin, PopTake, PopProbe,
                TryBegin, TryTake, TryProbe, TryEmpty, TryStore, Enter, Return,
                WatchInv, WatchTypeOK, TypeOK, Threads
  <2> QED
    BY <2>1, <2>2, EndOfScan
<1> QED
  BY <1>1, WatchInvariant, PTL DEF WatchSpec, FailedTryPopSawAll

-----------------------------------------------------------------------------
(* The ring implements the bag.                                            *)

Polling == {t \in Threads : pc[t] = "try"}

LEMMA BagInit == WatchInit => Bag!Init
<1> SUFFICES ASSUME WatchInit PROVE Bag!Init
  OBVIOUS
<1>1. TypeOK
  BY TypeOKInit DEF WatchInit
<1>2. Resident = {}
  BY DEF WatchInit, Init, Resident
<1>3. Polling = {}
  BY DEF WatchInit, Init, Polling
<1> QED
  BY <1>1, <1>2, <1>3 DEF WatchInit, TypeOK, Polling, Threads, Bag!Init, Bag!Threads

(* The compare-exchange that succeeds is the moment a message is offered. *)
LEMMA PushStoreOffers ==
  ASSUME WatchInv, NEW t \in Pushers, PushStore(t), unseen' = unseen
  PROVE  \E m \in Messages : Bag!Offer(t, m)
<1> USE DEF WatchInv, WatchTypeOK, TypeOK, Threads
<1> DEFINE m == arg[t]
           i == slot[t]
<1>1. m \in held[t] /\ m \in Messages /\ i \in Slots
  BY DEF PushStore, PusherOwnsArg
<1>2. /\ ring' = [ring EXCEPT ![i] = m]
      /\ ring[i] = NoMsg
      /\ held' = [held EXCEPT ![t] = @ \ {m}]
      /\ pc[t] = "push" /\ pc' = [pc EXCEPT ![t] = "idle"]
  BY DEF PushStore, Return
<1> HIDE DEF m, i
<1>3. Resident' = Resident \cup {m}
  BY <1>1, <1>2, NoMsgAssumption DEF Resident
<1>4. Polling' = Polling
  BY <1>2 DEF Polling
<1>5. Bag!Offer(t, m)
  BY <1>1, <1>2, <1>3, <1>4 DEF Bag!Offer, Polling
<1> QED
  BY <1>1, <1>5

(* The exchange that returns a message is the moment it is taken. *)
LEMMA TakeTakes ==
  ASSUME WatchInv, NEW t \in Poppers, NEW i \in Slots, TakeFrom(t, i), Taking(t, i),
         NEW where \in {"idle", "store"}, pc' = [pc EXCEPT ![t] = where]
  PROVE  \E m \in Messages : Bag!Take(t, m)
<1> USE DEF WatchInv, WatchTypeOK, TypeOK, Threads
<1> PICK m \in Messages : m = ring[i]
  BY DEF TakeFrom
<1>1. /\ ring' = [ring EXCEPT ![i] = NoMsg]
      /\ held' = [held EXCEPT ![t] = @ \cup {m}]
      /\ m # NoMsg
  BY DEF TakeFrom
<1>2. m \in Resident /\ Resident' = Resident \ {m}
  BY <1>1 DEF Resident, OneOwner
<1>3. Polling' = Polling \ {t}
  BY DEF Polling
<1>4. Bag!Take(t, m)
  BY <1>1, <1>2, <1>3 DEF Bag!Take, Bag!Threads, Taking, Polling
<1> QED
  BY <1>1, <1>4

LEMMA BagStep == WatchInv /\ [WatchNext]_watchVars => [Bag!Next]_(Bag!vars)
<1> SUFFICES ASSUME WatchInv, [WatchNext]_watchVars PROVE [Bag!Next]_(Bag!vars)
  OBVIOUS
<1> USE DEF WatchInv, WatchTypeOK, TypeOK, Threads
<1>1. ASSUME ring' = ring, held' = held, unseen' = unseen, Polling' = Polling
      PROVE  UNCHANGED Bag!vars
  BY <1>1 DEF Bag!vars, Resident, Polling
<1>2. ASSUME NEW t \in Pushers, Push(t), UNCHANGED unseen PROVE [Bag!Next]_(Bag!vars)
  <2>1. CASE PushStore(t)
    BY <1>2, <2>1, PushStoreOffers DEF Bag!Next
  <2>2. ASSUME NEW m \in Messages, PushBegin(t, m) PROVE [Bag!Next]_(Bag!vars)
    <3>1. Polling' = Polling
      BY <2>2 DEF PushBegin, Enter, Polling
    <3> QED
      BY <1>1, <1>2, <2>2, <3>1 DEF PushBegin
  <2>3. CASE PushProbe(t)
    <3>1. Polling' = Polling
      BY <2>3 DEF PushProbe, Polling
    <3> QED
      BY <1>1, <1>2, <2>3, <3>1 DEF PushProbe
  <2> QED
    BY <1>2, <2>1, <2>2, <2>3 DEF Push
<1>3. ASSUME NEW t \in Poppers, PopTake(t), Taking(t, slot[t]) PROVE Bag!Next
  <2>1. slot[t] \in Slots /\ TakeFrom(t, slot[t])
    BY <1>3 DEF PopTake
  <2>2. pc' = [pc EXCEPT ![t] = "idle"]
    BY <1>3 DEF PopTake, Return
  <2> QED
    BY <1>3, <2>1, <2>2, TakeTakes DEF Bag!Next
<1>4. ASSUME NEW t \in Poppers, TryTake(t), Taking(t, TrySlot(t)) PROVE Bag!Next
  <2>1. TrySlot(t) \in Slots
    BY CursorFacts DEF TrySlot
  <2>2. TakeFrom(t, TrySlot(t)) /\ pc' = [pc EXCEPT ![t] = "store"]
    BY <1>4 DEF TryTake
  <2> QED
    BY <1>4, <2>1, <2>2, TakeTakes DEF Bag!Next
<1>5. ASSUME NEW t \in Poppers, TryBegin(t), Watching(t) PROVE Bag!Next
  <2>1. ring' = ring /\ held' = held /\ pc[t] = "idle" /\ pc' = [pc EXCEPT ![t] = "try"]
    BY <1>5 DEF TryBegin, Enter
  <2>2. t \notin Polling /\ Polling' = Polling \cup {t}
    BY <2>1 DEF Polling
  <2>3. Bag!BeginPoll(t)
    BY <1>5, <2>1, <2>2 DEF Watching, Bag!BeginPoll, Resident, Polling
  <2> QED
    BY <2>3 DEF Bag!Next
<1>6. ASSUME NEW t \in Poppers, TryEmpty(t), UNCHANGED unseen PROVE Bag!Next
  <2>1. unseen[t] = {}
    BY <1>6, EndOfScan DEF TryEmpty
  <2>2. ring' = ring /\ held' = held /\ pc[t] = "try" /\ pc' = [pc EXCEPT ![t] = "idle"]
    BY <1>6 DEF TryEmpty, Return
  <2>3. t \in Polling /\ Polling' = Polling \ {t}
    BY <2>2 DEF Polling
  <2>4. Bag!EmptyPoll(t)
    BY <1>6, <2>1, <2>2, <2>3 DEF Bag!EmptyPoll, Resident, Polling
  <2> QED
    BY <2>4 DEF Bag!Next
<1>7. ASSUME NEW t \in Poppers, PopBegin(t) \/ PopProbe(t) \/ TryProbe(t) \/ TryStore(t),
             UNCHANGED unseen
      PROVE  UNCHANGED Bag!vars
  <2>1. ring' = ring /\ held' = held
    BY <1>7 DEF PopBegin, PopProbe, TryProbe, TryStore
  <2>2. Polling' = Polling
    BY <1>7 DEF PopBegin, PopProbe, TryProbe, TryStore, Enter, Return, Polling
  <2> QED
    BY <1>1, <1>7, <2>1, <2>2
<1>8. CASE UNCHANGED watchVars
  <2>1. Polling' = Polling
    BY <1>8 DEF watchVars, vars, locals, Polling
  <2> QED
    BY <1>1, <1>8, <2>1 DEF watchVars, vars
<1> QED
  BY <1>2, <1>3, <1>4, <1>5, <1>6, <1>7, <1>8 DEF WatchNext

(* Callers may forget slots, cursors and probes: push, pop and try_pop act *)
(* on a bag, each in one indivisible step.                                 *)
THEOREM RingImplementsBag == WatchSpec => ImplementsBag
  BY BagInit, BagStep, WatchInvariant, PTL DEF WatchSpec, ImplementsBag, Bag!Spec

-----------------------------------------------------------------------------
(* RingOrder.  Where a masked sum of cursors points. *)

USE CapacityAssumption, CursorModAssumption, NoMsgAssumption

LEMMA WrapIsSmall ==
  ASSUME NEW s \in Slots
  PROVE  Wrap(s) = s /\ Wrap(s + Capacity) = s
<1>1. \A q \in Nat : Wrap(Capacity * q + s) = s
  BY ModOfSum DEF Wrap
<1>2. PICK q \in Nat : Capacity * q + s = s
  BY DEF Slots
<1>3. PICK p \in Nat : Capacity * p + s = s + Capacity
  <2>1. Capacity * 1 + s = s + Capacity
    BY DEF Slots
  <2> QED
    BY <2>1
<1> QED
  BY <1>1, <1>2, <1>3

LEMMA WrapOfWrap ==
  ASSUME NEW a \in Nat, NEW b \in Nat
  PROVE  Wrap(Wrap(a) + b) = Wrap(a + b)
<1> DEFINE q == a \div Capacity
           r == Wrap(a)
           p == (r + b) \div Capacity
           s == Wrap(r + b)
<1>1. a = Capacity * q + r /\ q \in Nat /\ r \in Slots
  BY DivMod, WrapIsSlot DEF Wrap
<1>2. r + b \in Nat
  BY <1>1 DEF Slots
<1> HIDE DEF q, r
<1>3. r + b = Capacity * p + s /\ p \in Nat /\ s \in Slots
  BY <1>2, DivMod, WrapIsSlot DEF Wrap
<1> HIDE DEF p, s
<1>4. a + b = Capacity * (q + p) + s /\ q + p \in Nat
  BY <1>1, <1>3 DEF Slots
<1>5. Wrap(a + b) = s
  <2>1. (Capacity * (q + p) + s) % Capacity = s
    BY <1>3, <1>4, ModOfSum
  <2> QED
    BY <1>4, <2>1 DEF Wrap
<1> QED
  BY <1>5 DEF s, r

LEMMA WrapOfAdvance ==
  ASSUME NEW c \in Cursors
  PROVE  Wrap(Advance(c)) = Wrap(c + 1)
<1>1. c \in Nat /\ c + 1 <= CursorMod
  BY DEF Cursors
<1>2. CASE c + 1 < CursorMod
  BY <1>1, <1>2 DEF Advance
<1>3. CASE c + 1 = CursorMod
  <2>1. Advance(c) = 0
    BY <1>3 DEF Advance
  <2>2. Wrap(CursorMod) = 0
    BY DEF Wrap
  <2>3. Wrap(0) = 0
    BY DEF Wrap
  <2> QED
    BY <1>3, <2>1, <2>2, <2>3
<1> QED
  BY <1>1, <1>2, <1>3

LEMMA MultipleIsZero ==
  ASSUME NEW c \in Nat \ {0}, NEW q \in Int, NEW d \in Int, d = c * q, d < c, -d < c
  PROVE  q = 0
<1>1. q >= 1 => c * q >= c
  <2>1. q >= 1 => c * (q - 1) >= 0
    OBVIOUS
  <2>2. c * (q - 1) = c * q - c
    OBVIOUS
  <2> QED BY <2>1, <2>2
<1>2. q <= -1 => c * q <= -c
  <2>1. q <= -1 => c * (q + 1) <= 0
    OBVIOUS
  <2>2. c * (q + 1) = c * q + c
    OBVIOUS
  <2> QED BY <2>1, <2>2
<1> QED
  BY <1>1, <1>2

(* Capacity consecutive probes visit every slot once. *)
LEMMA ProbesDiffer ==
  ASSUME NEW c \in Nat, NEW i \in 0 .. Capacity - 1, NEW j \in 0 .. Capacity - 1,
         Wrap(c + i) = Wrap(c + j)
  PROVE  i = j
<1> DEFINE p == (c + i) \div Capacity
           q == (c + j) \div Capacity
           r == Wrap(c + i)
<1>1. c + i = Capacity * p + r /\ p \in Nat /\ c + j = Capacity * q + r /\ q \in Nat /\ r \in Slots
  BY DivMod, WrapIsSlot DEF Wrap
<1> HIDE DEF p, q, r
<1>2. i - j = Capacity * (p - q) /\ p - q \in Int
  BY <1>1 DEF Slots
<1>3. p - q = 0
  BY <1>2, MultipleIsZero
<1> QED
  BY <1>2, <1>3
-----------------------------------------------------------------------------
(* What a push and a pop do to the arc. *)

LEMMA ArcOfPush ==
  ASSUME NEW first \in Slots, Arc(first), ring \in [Slots -> Messages \cup {NoMsg}],
         order \in Seq(Messages), Len(order) < Capacity, NEW m \in Messages,
         ring' = [ring EXCEPT ![Wrap(first + Len(order))] = m], order' = Append(order, m)
  PROVE  Arc(first)' /\ order' \in Seq(Messages) /\ Len(order') = Len(order) + 1
<1> DEFINE n == Len(order)
<1>1. n \in 0 .. Capacity - 1 /\ first \in Nat
  BY DEF Slots
<1>2. /\ order' \in Seq(Messages) /\ Len(order') = n + 1
      /\ \A j \in 1 .. n : order'[j] = order[j]
      /\ order'[n + 1] = m
  OBVIOUS
<1> HIDE DEF n
<1>3. ASSUME NEW j \in 0 .. Capacity - 1
      PROVE  ring'[Wrap(first + j)] = IF j < Len(order') THEN order'[j + 1] ELSE NoMsg
  <2>1. ring[Wrap(first + j)] = IF j < n THEN order[j + 1] ELSE NoMsg
    BY DEF Arc, n
  <2>2. Wrap(first + j) \in Slots /\ Wrap(first + n) \in Slots
    BY <1>1, WrapIsSlot
  <2>3. CASE j = n
    BY <1>2, <2>2, <2>3 DEF n
  <2>4. CASE j # n
    <3>1. Wrap(first + j) # Wrap(first + n)
      BY <1>1, <2>4, ProbesDiffer
    <3>2. ring'[Wrap(first + j)] = ring[Wrap(first + j)]
      BY <2>2, <3>1 DEF n
    <3>3. j < n + 1 <=> j < n
      BY <1>1, <2>4
    <3>4. j < n => order'[j + 1] = order[j + 1]
      BY <1>1, <1>2
    <3> QED
      BY <1>2, <2>1, <3>2, <3>3, <3>4
  <2> QED
    BY <2>3, <2>4
<1> QED
  BY <1>2, <1>3 DEF Arc, n

LEMMA ArcOfPop ==
  ASSUME NEW first \in Slots, Arc(first), ring \in [Slots -> Messages \cup {NoMsg}],
         order \in Seq(Messages), Len(order) <= Capacity, order # <<>>,
         ring' = [ring EXCEPT ![first] = NoMsg], order' = Tail(order)
  PROVE  Arc(Wrap(first + 1))' /\ order' \in Seq(Messages) /\ Len(order') = Len(order) - 1
<1> DEFINE n == Len(order)
           next == Wrap(first + 1)
<1>1. n \in 1 .. Capacity /\ first \in Nat
  BY DEF Slots
<1>2. /\ order' \in Seq(Messages) /\ Len(order') = n - 1
      /\ \A j \in 1 .. n - 1 : order'[j] = order[j + 1]
  OBVIOUS
<1> HIDE DEF n
<1>3. ASSUME NEW j \in 0 .. Capacity - 1
      PROVE  ring'[Wrap(next + j)] = IF j < n - 1 THEN order'[j + 1] ELSE NoMsg
  <2>1. Wrap(next + j) = Wrap(first + (j + 1))
    <3>1. Wrap(Wrap(first + 1) + j) = Wrap((first + 1) + j)
      BY <1>1, WrapOfWrap
    <3>2. (first + 1) + j = first + (j + 1)
      BY <1>1
    <3> QED
      BY <3>1, <3>2
  <2>2. CASE j = Capacity - 1
    <3>1. j + 1 = Capacity
      BY <2>2
    <3>2. Wrap(next + j) = first
      BY <2>1, <3>1, WrapIsSmall
    <3>3. ~(j < n - 1)
      BY <1>1, <2>2
    <3> QED
      BY <3>2, <3>3
  <2>3. CASE j # Capacity - 1
    <3>1. j + 1 \in 0 .. Capacity - 1 /\ 0 \in 0 .. Capacity - 1 /\ j + 1 # 0
      BY <2>3
    <3>2. ring[Wrap(first + (j + 1))] = IF j + 1 < n THEN order[(j + 1) + 1] ELSE NoMsg
      BY <3>1 DEF Arc, n
    <3>3. Wrap(first + (j + 1)) # Wrap(first + 0)
      BY <1>1, <3>1, ProbesDiffer
    <3>4. Wrap(first + 0) = first
      BY <1>1, WrapIsSmall
    <3>5. Wrap(first + (j + 1)) \in Slots
      BY <1>1, WrapIsSlot
    <3>6. ring'[Wrap(first + (j + 1))] = ring[Wrap(first + (j + 1))]
      BY <3>3, <3>4, <3>5
    <3>7. j + 1 < n <=> j < n - 1
      BY <1>1
    <3>8. j < n - 1 => order'[j + 1] = order[(j + 1) + 1]
      BY <1>1, <1>2
    <3> QED
      BY <2>1, <3>2, <3>6, <3>7, <3>8
  <2> QED
    BY <2>2, <2>3
<1> QED
  BY <1>2, <1>3 DEF Arc, n

(* The slot at first holds the head, and no other slot does: to take that  *)
(* message out of the order is to take the head off. *)
LEMMA HeadOfArc ==
  ASSUME NEW first \in Slots, Arc(first), OneOwner,
         order \in Seq(Messages), Len(order) <= Capacity
  PROVE  /\ order = <<>> <=> ring[first] = NoMsg
         /\ order # <<>> => ring[first] = Head(order) /\ Without(ring[first]) = Tail(order)
<1>1. first \in Nat /\ Len(order) \in Nat /\ (order = <<>> <=> Len(order) = 0)
  BY DEF Slots
<1>2. ring[first] = IF 0 < Len(order) THEN order[1] ELSE NoMsg
  <2>1. Wrap(first + 0) = first
    BY <1>1, WrapIsSmall
  <2>2. 0 \in 0 .. Capacity - 1
    OBVIOUS
  <2> QED
    BY <2>1, <2>2 DEF Arc
<1>3. CASE order = <<>>
  BY <1>1, <1>2, <1>3
<1>4. CASE order # <<>>
  <2>1. ring[first] = order[1] /\ 1 \in DOMAIN order /\ ring[first] # NoMsg
    BY <1>1, <1>2, <1>4
  <2>2. ASSUME NEW i \in DOMAIN order, order[i] = order[1] PROVE i = 1
    <3>1. i - 1 \in 0 .. Capacity - 1 /\ 0 \in 0 .. Capacity - 1 /\ i - 1 < Len(order) /\ (i - 1) + 1 = i
      BY <1>1
    <3>2. ring[Wrap(first + (i - 1))] = order[i]
      BY <3>1 DEF Arc
    <3>3. Wrap(first + (i - 1)) \in Slots
      BY <1>1, <3>1, WrapIsSlot
    <3>4. Wrap(first + (i - 1)) = first
      BY <2>1, <2>2, <3>2, <3>3 DEF OneOwner
    <3>5. Wrap(first + 0) = first
      BY <1>1, WrapIsSmall
    <3> DEFINE k == i - 1
    <3> HIDE DEF k
    <3>6. Wrap(first + k) = Wrap(first + 0) /\ k \in 0 .. Capacity - 1
      BY <3>1, <3>4, <3>5 DEF k
    <3>7. k = 0
      BY <1>1, <3>1, <3>6, ProbesDiffer
    <3> QED
      BY <3>7, <1>1 DEF k
  <2>3. (CHOOSE i \in DOMAIN order : order[i] = order[1]) = 1
    BY <2>1, <2>2
  <2>4. Without(order[1]) = [i \in 1 .. Len(order) - 1 |-> order[i + 1]]
    <3>1. Without(order[1]) = [i \in 1 .. Len(order) - 1 |-> IF i < 1 THEN order[i] ELSE order[i + 1]]
      BY <2>3 DEF Without
    <3>2. \A i \in 1 .. Len(order) - 1 : ~(i < 1)
      BY <1>1
    <3> QED
      BY <3>1, <3>2
  <2>5. Tail(order) = [i \in 1 .. Len(order) - 1 |-> order[i + 1]]
    <3> DEFINE rest == [i \in 1 .. Len(order) - 1 |-> order[i + 1]]
    <3>1. rest \in Seq(Messages) /\ Len(rest) = Len(order) - 1
      BY <1>1, <1>4
    <3>2. Tail(order) \in Seq(Messages) /\ Len(Tail(order)) = Len(order) - 1
      BY <1>4
    <3>3. \A i \in 1 .. Len(order) - 1 : Tail(order)[i] = rest[i]
      BY <1>4
    <3> QED
      BY <3>1, <3>2, <3>3, SeqEqual
  <2> QED
    BY <1>4, <2>1, <2>4, <2>5
<1> QED
  BY <1>3, <1>4

-----------------------------------------------------------------------------
(* One thread at a time is inside a call. *)

LEMMA Alone ==
  ASSUME TypeOK, CallsDoNotOverlap, CallsDoNotOverlap', NEW t \in Threads,
         pc[t] # "idle" \/ pc'[t] # "idle",
         NEW where, pc' = [pc EXCEPT ![t] = where] \/ pc' = pc
  PROVE  /\ \A u \in Threads \ {t} : pc[u] = "idle" /\ pc'[u] = "idle"
         /\ \A operation \in {"push", "pop", "try", "store"} :
              /\ Inside(operation) <=> pc[t] = operation
              /\ Inside(operation)' <=> pc'[t] = operation
<1>1. \A u \in Threads \ {t} : pc[u] = pc'[u]
  BY DEF TypeOK
<1>2. \A u \in Threads \ {t} : pc[u] = "idle" /\ pc'[u] = "idle"
  BY <1>1 DEF CallsDoNotOverlap
<1> QED
  BY <1>2 DEF Inside

LEMMA PushBeginKeepsArc ==
  ASSUME OrderInv, CallsDoNotOverlap', NEW t \in Pushers, NEW m \in Messages,
         PushBegin(t, m), order' = order
  PROVE  ArcInv'
<1> PICK first \in Slots : Arc(first) /\ CursorsAtEnds(first) /\ CallsAtEnds(first)
  BY DEF OrderInv, ArcInv
<1>1. /\ TypeOK /\ CallsDoNotOverlap /\ t \in Threads
      /\ order \in Seq(Messages) /\ Len(order) <= Capacity
  BY DEF OrderInv, OwnershipInv, ArcInv, Threads
<1>2. /\ pc[t] = "idle" /\ pc' = [pc EXCEPT ![t] = "push"] /\ pc'[t] = "push"
      /\ slot' = [slot EXCEPT ![t] = Wrap(post_cursor)] /\ slot'[t] = Wrap(post_cursor)
      /\ post_cursor' = Advance(post_cursor)
      /\ UNCHANGED <<ring, pop_cursor, order>>
  BY <1>1 DEF PushBegin, Enter, TypeOK
<1>3. /\ \A u \in Threads \ {t} : pc[u] = "idle" /\ pc'[u] = "idle"
      /\ \A operation \in {"push", "pop", "try", "store"} :
           /\ Inside(operation) <=> pc[t] = operation
           /\ Inside(operation)' <=> pc'[t] = operation
  BY <1>1, <1>2, Alone
<1>4. Wrap(post_cursor) = Wrap(first + Len(order)) /\ Wrap(pop_cursor) = Wrap(first)
  <2>1. first + Len(order) + 0 = first + Len(order) /\ first + 0 = first
    BY <1>1 DEF Slots
  <2> QED
    BY <1>2, <1>3, <2>1 DEF CursorsAtEnds
<1>5. Wrap(post_cursor') = Wrap(first + Len(order) + 1)
  <2>1. post_cursor \in Cursors /\ post_cursor \in Nat /\ first + Len(order) \in Nat
    BY <1>1 DEF TypeOK, Cursors, Slots
  <2>2. Wrap(post_cursor') = Wrap(post_cursor + 1)
    BY <1>2, <2>1, WrapOfAdvance
  <2>3. Wrap(post_cursor + 1) = Wrap(Wrap(post_cursor) + 1)
    BY <2>1, WrapOfWrap
  <2>4. Wrap(Wrap(first + Len(order)) + 1) = Wrap(first + Len(order) + 1)
    BY <2>1, WrapOfWrap
  <2> QED
    BY <1>4, <2>2, <2>3, <2>4
<1>6. Arc(first)'
  BY <1>2 DEF Arc
<1>7. CursorsAtEnds(first)'
  <2>1. first + 0 = first
    BY DEF Slots
  <2> QED
    BY <1>2, <1>3, <1>4, <1>5, <2>1 DEF CursorsAtEnds
<1>8. CallsAtEnds(first)'
  BY <1>2, <1>3, <1>4 DEF CallsAtEnds
<1> QED
  BY <1>1, <1>2, <1>6, <1>7, <1>8 DEF ArcInv

(* The slot a pusher looks at is empty, as not all of them are full. *)
LEMMA PushFindsRoom ==
  ASSUME OrderInv, NEW t \in Pushers, pc[t] = "push",
         NEW first \in Slots, Arc(first), CallsAtEnds(first)
  PROVE  slot[t] = Wrap(first + Len(order)) /\ Len(order) < Capacity /\ ring[slot[t]] = NoMsg
<1>1. t \in Threads /\ order \in Seq(Messages) /\ Len(order) <= Capacity /\ first \in Nat
  BY DEF OrderInv, ArcInv, Threads, Slots
<1>2. slot[t] = Wrap(first + Len(order))
  BY <1>1 DEF CallsAtEnds
<1>3. Len(order) < Capacity
  <2> SUFFICES ASSUME Len(order) = Capacity PROVE FALSE
    BY <1>1
  <2>1. PICK i \in Slots : ring[i] = NoMsg
    BY <1>1 DEF OrderInv, CallsReturn
  <2>2. PICK j \in 0 .. Capacity - 1 : Wrap(first + j) = i
    <3>1. first \in Nat
      BY <1>1
    <3> QED
      BY <3>1, ProbesCoverRing, Zenon
  <2>3. ring[i] = order[j + 1]
    BY <2>2 DEF Arc
  <2> QED
    BY <1>1, <2>1, <2>3
<1>4. Len(order) \in 0 .. Capacity - 1
  BY <1>1, <1>3
<1>5. ring[Wrap(first + Len(order))] = NoMsg
  BY <1>4 DEF Arc
<1> QED
  BY <1>2, <1>3, <1>5

LEMMA PushStoreKeepsArc ==
  ASSUME OrderInv, CallsDoNotOverlap', NEW t \in Pushers, PushStore(t), order' = Append(order, arg[t])
  PROVE  ArcInv'
<1> PICK first \in Slots : Arc(first) /\ CursorsAtEnds(first) /\ CallsAtEnds(first)
  BY DEF OrderInv, ArcInv
<1>1. /\ TypeOK /\ CallsDoNotOverlap /\ t \in Threads /\ OneOwner
      /\ order \in Seq(Messages) /\ Len(order) <= Capacity
  BY DEF OrderInv, OwnershipInv, ArcInv, Threads
<1>2. /\ pc[t] = "push" /\ pc' = [pc EXCEPT ![t] = "idle"] /\ pc'[t] = "idle"
      /\ ring' = [ring EXCEPT ![slot[t]] = arg[t]] /\ arg[t] \in Messages
      /\ UNCHANGED <<post_cursor, pop_cursor>>
  <2>1. pc[t] = "push" /\ arg[t] \in held[t]
    BY <1>1 DEF PushStore, OrderInv, OwnershipInv, PusherOwnsArg
  <2> QED
    BY <1>1, <2>1 DEF PushStore, Return, TypeOK
<1>3. /\ \A u \in Threads \ {t} : pc[u] = "idle" /\ pc'[u] = "idle"
      /\ \A operation \in {"push", "pop", "try", "store"} :
           /\ Inside(operation) <=> pc[t] = operation
           /\ Inside(operation)' <=> pc'[t] = operation
  BY <1>1, <1>2, Alone
<1>4. slot[t] = Wrap(first + Len(order)) /\ Len(order) < Capacity
  BY <1>2, PushFindsRoom
<1>5. Arc(first)' /\ order' \in Seq(Messages) /\ Len(order') = Len(order) + 1
  BY <1>1, <1>2, <1>4, ArcOfPush DEF TypeOK
<1>6. CursorsAtEnds(first)'
  <2>1. /\ first + Len(order) + 1 = first + Len(order') + 0
        /\ first + 0 = first
    BY <1>1, <1>5 DEF Slots
  <2> QED
    BY <1>2, <1>3, <2>1 DEF CursorsAtEnds
<1>7. CallsAtEnds(first)'
  BY <1>2, <1>3 DEF CallsAtEnds
<1>8. Len(order') <= Capacity
  BY <1>1, <1>4, <1>5
<1> QED
  BY <1>5, <1>6, <1>7, <1>8 DEF ArcInv

LEMMA PopBeginKeepsArc ==
  ASSUME OrderInv, CallsDoNotOverlap', NEW t \in Poppers, PopBegin(t), order' = order
  PROVE  ArcInv'
<1> PICK first \in Slots : Arc(first) /\ CursorsAtEnds(first) /\ CallsAtEnds(first)
  BY DEF OrderInv, ArcInv
<1>1. /\ TypeOK /\ CallsDoNotOverlap /\ t \in Threads /\ OneOwner
      /\ order \in Seq(Messages) /\ Len(order) <= Capacity
  BY DEF OrderInv, OwnershipInv, ArcInv, Threads
<1>2. /\ pc[t] = "idle" /\ pc' = [pc EXCEPT ![t] = "pop"] /\ pc'[t] = "pop"
      /\ slot' = [slot EXCEPT ![t] = Wrap(pop_cursor)] /\ slot'[t] = Wrap(pop_cursor)
      /\ pop_cursor' = Advance(pop_cursor)
      /\ UNCHANGED <<ring, post_cursor, order>>
  BY <1>1 DEF PopBegin, Enter, TypeOK
<1>3. /\ \A u \in Threads \ {t} : pc[u] = "idle" /\ pc'[u] = "idle"
      /\ \A operation \in {"push", "pop", "try", "store"} :
           /\ Inside(operation) <=> pc[t] = operation
           /\ Inside(operation)' <=> pc'[t] = operation
  BY <1>1, <1>2, Alone
<1>4. Wrap(post_cursor) = Wrap(first + Len(order) + 0) /\ Wrap(pop_cursor) = first
  <2>1. Wrap(first + 0) = first
    <3>1. first + 0 = first
      BY DEF Slots
    <3> QED
      BY <3>1, WrapIsSmall
  <2> QED
    BY <1>2, <1>3, <2>1 DEF CursorsAtEnds
<1>5. Wrap(pop_cursor') = Wrap(first + 1)
  <2>1. pop_cursor \in Cursors /\ pop_cursor \in Nat
    BY <1>1 DEF TypeOK, Cursors
  <2>2. Wrap(pop_cursor') = Wrap(pop_cursor + 1)
    BY <1>2, <2>1, WrapOfAdvance
  <2>3. Wrap(pop_cursor + 1) = Wrap(Wrap(pop_cursor) + 1)
    BY <2>1, WrapOfWrap
  <2> QED
    BY <1>4, <2>2, <2>3
<1>6. Arc(first)'
  BY <1>2 DEF Arc
<1>7. CursorsAtEnds(first)'
  BY <1>2, <1>3, <1>4, <1>5 DEF CursorsAtEnds
<1>8. CallsAtEnds(first)'
  BY <1>2, <1>3, <1>4 DEF CallsAtEnds
<1> QED
  BY <1>1, <1>2, <1>6, <1>7, <1>8 DEF ArcInv

(* The end of the order is where it was. *)
LEMMA PastOfPop ==
  ASSUME NEW first \in Slots, NEW s \in Seq(Messages), NEW r \in Seq(Messages), Len(r) = Len(s) - 1
  PROVE  Wrap(first + Len(s) + 0) = Wrap(Wrap(first + 1) + Len(r) + 0)
<1>1. first + 1 \in Nat /\ Wrap(first + 1) \in Nat /\ Len(r) \in Nat /\ Len(s) \in Nat
  <2>1. first + 1 \in Nat /\ \A i \in Slots : i \in Nat
    BY DEF Slots
  <2>2. Wrap(first + 1) \in Slots
    BY <2>1, WrapIsSlot
  <2>3. Len(r) \in Nat /\ Len(s) \in Nat
    OBVIOUS
  <2> QED
    BY <2>1, <2>2, <2>3
<1>2. Wrap(Wrap(first + 1) + Len(r)) = Wrap(first + 1 + Len(r))
  BY <1>1, WrapOfWrap
<1>3. first + 1 + Len(r) = first + Len(s) + 0
  BY <1>1 DEF Slots
<1> DEFINE w == Wrap(first + 1)
<1> HIDE DEF w
<1>4. w + Len(r) + 0 = w + Len(r)
  BY <1>1 DEF w
<1> QED
  BY <1>2, <1>3, <1>4 DEF w

LEMMA PopTakeKeepsArc ==
  ASSUME OrderInv, CallsDoNotOverlap', NEW t \in Poppers, PopTake(t), order' = Without(ring[slot[t]])
  PROVE  ArcInv'
<1> PICK first \in Slots : Arc(first) /\ CursorsAtEnds(first) /\ CallsAtEnds(first)
  BY DEF OrderInv, ArcInv
<1>1. /\ TypeOK /\ CallsDoNotOverlap /\ t \in Threads /\ OneOwner
      /\ order \in Seq(Messages) /\ Len(order) <= Capacity
  BY DEF OrderInv, OwnershipInv, ArcInv, Threads
<1>2. /\ pc[t] = "pop" /\ pc' = [pc EXCEPT ![t] = "idle"] /\ pc'[t] = "idle"
      /\ ring' = [ring EXCEPT ![slot[t]] = NoMsg] /\ ring[slot[t]] # NoMsg
      /\ UNCHANGED <<post_cursor, pop_cursor>>
  BY <1>1 DEF PopTake, TakeFrom, Return, TypeOK
<1>3. /\ \A u \in Threads \ {t} : pc[u] = "idle" /\ pc'[u] = "idle"
      /\ \A operation \in {"push", "pop", "try", "store"} :
           /\ Inside(operation) <=> pc[t] = operation
           /\ Inside(operation)' <=> pc'[t] = operation
  BY <1>1, <1>2, Alone
<1>4. slot[t] = first /\ order # <<>> /\ order' = Tail(order)
  BY <1>1, <1>2, HeadOfArc DEF CallsAtEnds
<1>5. Arc(Wrap(first + 1))' /\ order' \in Seq(Messages) /\ Len(order') = Len(order) - 1
  BY <1>1, <1>2, <1>4, ArcOfPop DEF TypeOK
<1>6. Wrap(first + 1) \in Slots
  BY WrapIsSlot DEF Slots
<1>7. CursorsAtEnds(Wrap(first + 1))'
  <2>1. Wrap(first + Len(order) + 0) = Wrap(Wrap(first + 1) + Len(order') + 0)
    BY <1>1, <1>4, <1>5, PastOfPop
  <2>2. Wrap(pop_cursor) = Wrap(first + 1) /\ Wrap(post_cursor) = Wrap(first + Len(order) + 0)
    BY <1>2, <1>3 DEF CursorsAtEnds
  <2>3. Wrap(Wrap(first + 1) + 0) = Wrap(first + 1)
    <3>1. Wrap(first + 1) + 0 = Wrap(first + 1)
      BY <1>6 DEF Slots
    <3> QED
      BY <1>6, <3>1, WrapIsSmall
  <2> QED
    BY <1>2, <1>3, <2>1, <2>2, <2>3 DEF CursorsAtEnds
<1>8. CallsAtEnds(Wrap(first + 1))'
  BY <1>2, <1>3 DEF CallsAtEnds
<1>9. Len(order') <= Capacity
  BY <1>1, <1>5
<1> QED
  BY <1>5, <1>6, <1>7, <1>8, <1>9 DEF ArcInv

LEMMA TryBeginKeepsArc ==
  ASSUME OrderInv, CallsDoNotOverlap', NEW t \in Poppers, TryBegin(t), order' = order
  PROVE  ArcInv'
<1> PICK first \in Slots : Arc(first) /\ CursorsAtEnds(first) /\ CallsAtEnds(first)
  BY DEF OrderInv, ArcInv
<1>1. /\ TypeOK /\ CallsDoNotOverlap /\ t \in Threads /\ OneOwner
      /\ order \in Seq(Messages) /\ Len(order) <= Capacity
  BY DEF OrderInv, OwnershipInv, ArcInv, Threads
<1>2. /\ pc[t] = "idle" /\ pc' = [pc EXCEPT ![t] = "try"] /\ pc'[t] = "try"
      /\ slot'[t] = pop_cursor /\ probe'[t] = 0
      /\ UNCHANGED <<ring, post_cursor, pop_cursor, order>>
  BY <1>1 DEF TryBegin, Enter, TypeOK
<1>3. /\ \A u \in Threads \ {t} : pc[u] = "idle" /\ pc'[u] = "idle"
      /\ \A operation \in {"push", "pop", "try", "store"} :
           /\ Inside(operation) <=> pc[t] = operation
           /\ Inside(operation)' <=> pc'[t] = operation
  BY <1>1, <1>2, Alone
<1>4. Wrap(pop_cursor) = first
  <2>1. Wrap(first + 0) = first
    <3>1. first + 0 = first
      BY DEF Slots
    <3> QED
      BY <3>1, WrapIsSmall
  <2> QED
    BY <1>2, <1>3, <2>1 DEF CursorsAtEnds
<1>5. Arc(first)'
  BY <1>2 DEF Arc
<1>6. CursorsAtEnds(first)'
  BY <1>2, <1>3 DEF CursorsAtEnds
<1>7. CallsAtEnds(first)'
  BY <1>2, <1>3, <1>4 DEF CallsAtEnds
<1> QED
  BY <1>1, <1>2, <1>5, <1>6, <1>7 DEF ArcInv

(* try_pop takes from its first slot, or the ring is empty. *)
LEMMA TryLooksAtHead ==
  ASSUME OrderInv, NEW t \in Poppers, pc[t] = "try",
         NEW first \in Slots, Arc(first), CallsAtEnds(first)
  PROVE  order # <<>> => TrySlot(t) = first /\ probe[t] = 0
<1>1. t \in Threads /\ probe[t] \in 0 .. Capacity /\ slot[t] \in Nat
  BY DEF OrderInv, OwnershipInv, TypeOK, Threads, Cursors
<1>2. Wrap(slot[t]) = first /\ (probe[t] > 0 => order = <<>>)
  BY <1>1 DEF CallsAtEnds
<1>3. order # <<>> => probe[t] = 0
  BY <1>1, <1>2
<1> QED
  BY <1>1, <1>2, <1>3 DEF TrySlot

LEMMA EmptyArc ==
  ASSUME NEW first \in Slots, Arc(first), order = <<>>
  PROVE  \A i \in Slots : ring[i] = NoMsg
<1> SUFFICES ASSUME NEW i \in Slots PROVE ring[i] = NoMsg
  OBVIOUS
<1>1. PICK j \in 0 .. Capacity - 1 : Wrap(first + j) = i
  <2>1. first \in Nat
    BY DEF Slots
  <2> QED
    BY <2>1, ProbesCoverRing, Zenon
<1> QED
  BY <1>1 DEF Arc

LEMMA TryTakeKeepsArc ==
  ASSUME OrderInv, CallsDoNotOverlap', NEW t \in Poppers, TryTake(t), order' = Without(ring[TrySlot(t)])
  PROVE  ArcInv'
<1> PICK first \in Slots : Arc(first) /\ CursorsAtEnds(first) /\ CallsAtEnds(first)
  BY DEF OrderInv, ArcInv
<1>1. /\ TypeOK /\ CallsDoNotOverlap /\ t \in Threads /\ OneOwner
      /\ order \in Seq(Messages) /\ Len(order) <= Capacity
  BY DEF OrderInv, OwnershipInv, ArcInv, Threads
<1>2. /\ pc[t] = "try" /\ pc' = [pc EXCEPT ![t] = "store"] /\ pc'[t] = "store"
      /\ slot'[t] = TrySlot(t)
      /\ ring' = [ring EXCEPT ![TrySlot(t)] = NoMsg] /\ ring[TrySlot(t)] # NoMsg
      /\ UNCHANGED <<post_cursor, pop_cursor>>
  BY <1>1 DEF TryTake, TakeFrom, TypeOK
<1>3. /\ \A u \in Threads \ {t} : pc[u] = "idle" /\ pc'[u] = "idle"
      /\ \A operation \in {"push", "pop", "try", "store"} :
           /\ Inside(operation) <=> pc[t] = operation
           /\ Inside(operation)' <=> pc'[t] = operation
  BY <1>1, <1>2, Alone
<1>4. TrySlot(t) = first /\ order # <<>> /\ order' = Tail(order)
  <2>1. TrySlot(t) \in Slots
    BY <1>1, CursorFacts DEF TrySlot, TypeOK
  <2>2. order # <<>>
    BY <1>2, <2>1, EmptyArc
  <2>3. TrySlot(t) = first
    BY <1>2, <2>2, TryLooksAtHead
  <2> QED
    BY <1>1, <2>2, <2>3, HeadOfArc
<1>5. Arc(Wrap(first + 1))' /\ order' \in Seq(Messages) /\ Len(order') = Len(order) - 1
  BY <1>1, <1>2, <1>4, ArcOfPop DEF TypeOK
<1>6. Wrap(first + 1) \in Slots
  BY WrapIsSlot DEF Slots
<1>7. CursorsAtEnds(Wrap(first + 1))'
  <2>1. Wrap(first + Len(order) + 0) = Wrap(Wrap(first + 1) + Len(order') + 0)
    BY <1>1, <1>4, <1>5, PastOfPop
  <2>2. Wrap(post_cursor) = Wrap(first + Len(order) + 0)
    BY <1>2, <1>3 DEF CursorsAtEnds
  <2> QED
    BY <1>2, <1>3, <2>1, <2>2 DEF CursorsAtEnds
<1>8. CallsAtEnds(Wrap(first + 1))'
  BY <1>2, <1>3, <1>4 DEF CallsAtEnds
<1>9. Len(order') <= Capacity
  BY <1>1, <1>5
<1> QED
  BY <1>5, <1>6, <1>7, <1>8, <1>9 DEF ArcInv

LEMMA TryProbeKeepsArc ==
  ASSUME OrderInv, CallsDoNotOverlap', NEW t \in Poppers, TryProbe(t), order' = order
  PROVE  ArcInv' /\ order = <<>>
<1> PICK first \in Slots : Arc(first) /\ CursorsAtEnds(first) /\ CallsAtEnds(first)
  BY DEF OrderInv, ArcInv
<1>1. /\ TypeOK /\ CallsDoNotOverlap /\ t \in Threads /\ OneOwner
      /\ order \in Seq(Messages) /\ Len(order) <= Capacity
  BY DEF OrderInv, OwnershipInv, ArcInv, Threads
<1>2. /\ pc[t] = "try" /\ pc' = pc /\ pc'[t] = "try" /\ slot' = slot
      /\ ring[TrySlot(t)] = NoMsg
      /\ UNCHANGED <<ring, post_cursor, pop_cursor, order>>
  BY <1>1 DEF TryProbe, TypeOK
<1>3. /\ \A u \in Threads \ {t} : pc[u] = "idle" /\ pc'[u] = "idle"
      /\ \A operation \in {"push", "pop", "try", "store"} :
           /\ Inside(operation) <=> pc[t] = operation
           /\ Inside(operation)' <=> pc'[t] = operation
  BY <1>1, <1>2, Alone
<1>4. order = <<>>
  BY <1>1, <1>2, HeadOfArc, TryLooksAtHead
<1>5. Arc(first)'
  BY <1>2 DEF Arc
<1>6. CursorsAtEnds(first)'
  BY <1>2, <1>3 DEF CursorsAtEnds
<1>7. CallsAtEnds(first)'
  BY <1>1, <1>2, <1>3, <1>4 DEF CallsAtEnds
<1> QED
  BY <1>1, <1>2, <1>4, <1>5, <1>6, <1>7 DEF ArcInv

LEMMA TryEmptyKeepsArc ==
  ASSUME OrderInv, CallsDoNotOverlap', NEW t \in Poppers, TryEmpty(t), order' = order
  PROVE  ArcInv' /\ order = <<>>
<1> PICK first \in Slots : Arc(first) /\ CursorsAtEnds(first) /\ CallsAtEnds(first)
  BY DEF OrderInv, ArcInv
<1>1. /\ TypeOK /\ CallsDoNotOverlap /\ t \in Threads /\ OneOwner
      /\ order \in Seq(Messages) /\ Len(order) <= Capacity
  BY DEF OrderInv, OwnershipInv, ArcInv, Threads
<1>2. /\ pc[t] = "try" /\ pc' = [pc EXCEPT ![t] = "idle"] /\ pc'[t] = "idle"
      /\ probe[t] = Capacity
      /\ UNCHANGED <<ring, post_cursor, pop_cursor, order>>
  BY <1>1 DEF TryEmpty, Return, TypeOK
<1>3. /\ \A u \in Threads \ {t} : pc[u] = "idle" /\ pc'[u] = "idle"
      /\ \A operation \in {"push", "pop", "try", "store"} :
           /\ Inside(operation) <=> pc[t] = operation
           /\ Inside(operation)' <=> pc'[t] = operation
  BY <1>1, <1>2, Alone
<1>4. order = <<>>
  BY <1>1, <1>2 DEF CallsAtEnds
<1>5. Arc(first)'
  BY <1>2 DEF Arc
<1>6. CursorsAtEnds(first)'
  BY <1>2, <1>3 DEF CursorsAtEnds
<1>7. CallsAtEnds(first)'
  BY <1>2, <1>3 DEF CallsAtEnds
<1> QED
  BY <1>1, <1>2, <1>4, <1>5, <1>6, <1>7 DEF ArcInv

LEMMA TryStoreKeepsArc ==
  ASSUME OrderInv, CallsDoNotOverlap', NEW t \in Poppers, TryStore(t), order' = order
  PROVE  ArcInv'
<1> PICK first \in Slots : Arc(first) /\ CursorsAtEnds(first) /\ CallsAtEnds(first)
  BY DEF OrderInv, ArcInv
<1>1. /\ TypeOK /\ CallsDoNotOverlap /\ t \in Threads /\ OneOwner
      /\ order \in Seq(Messages) /\ Len(order) <= Capacity
  BY DEF OrderInv, OwnershipInv, ArcInv, Threads
<1>2. /\ pc[t] = "store" /\ pc' = [pc EXCEPT ![t] = "idle"] /\ pc'[t] = "idle"
      /\ pop_cursor' = Wrap(slot[t] + 1)
      /\ UNCHANGED <<ring, post_cursor, order>>
  BY <1>1 DEF TryStore, Return, TypeOK
<1>3. /\ \A u \in Threads \ {t} : pc[u] = "idle" /\ pc'[u] = "idle"
      /\ \A operation \in {"push", "pop", "try", "store"} :
           /\ Inside(operation) <=> pc[t] = operation
           /\ Inside(operation)' <=> pc'[t] = operation
  BY <1>1, <1>2, Alone
<1>4. Arc(first)'
  BY <1>2 DEF Arc
<1>5. CursorsAtEnds(first)'
  <2>1. pop_cursor' = first
    BY <1>1, <1>2 DEF CallsAtEnds
  <2>2. first + 0 = first
    BY DEF Slots
  <2> QED
    BY <1>2, <1>3, <2>1, <2>2 DEF CursorsAtEnds
<1>6. CallsAtEnds(first)'
  BY <1>2, <1>3 DEF CallsAtEnds
<1> QED
  BY <1>1, <1>2, <1>4, <1>5, <1>6 DEF ArcInv

-----------------------------------------------------------------------------

LEMMA OrderInvInit == OrderInit => OrderInv
<1> SUFFICES ASSUME OrderInit PROVE OrderInv
  OBVIOUS
<1>1. OwnershipInv
  BY OwnershipInit DEF OrderInit
<1>2. /\ ring = [i \in Slots |-> NoMsg] /\ post_cursor = 0 /\ pop_cursor = 0
      /\ pc = [t \in Threads |-> "idle"] /\ order = <<>>
  BY DEF OrderInit, Init
<1>3. Arc(0)
  <2> SUFFICES ASSUME NEW j \in 0 .. Capacity - 1 PROVE ring[Wrap(0 + j)] = NoMsg
    BY <1>2 DEF Arc
  <2>1. Wrap(0 + j) \in Slots
    BY WrapIsSlot
  <2> QED
    BY <1>2, <2>1
<1>4. CursorsAtEnds(0)
  BY <1>2 DEF CursorsAtEnds, Inside
<1>5. CallsAtEnds(0)
  BY <1>2 DEF CallsAtEnds
<1>6. ArcInv
  <2>1. 0 \in Slots /\ <<>> \in Seq(Messages) /\ Len(<<>>) <= Capacity
    BY DEF Slots
  <2> QED
    BY <1>2, <1>3, <1>4, <1>5, <2>1 DEF ArcInv
<1>7. CallsDoNotOverlap /\ CallsReturn
  BY <1>2 DEF CallsDoNotOverlap, CallsReturn
<1> QED
  BY <1>1, <1>6, <1>7 DEF OrderInv

(* A probe that goes past its first slot needs an arc that is not there. *)
LEMMA NoProbing ==
  ASSUME OrderInv, ~SpuriousCas
  PROVE  /\ \A t \in Pushers : ~PushProbe(t)
         /\ \A t \in Poppers : ~PopProbe(t)
<1> PICK first \in Slots : Arc(first) /\ CursorsAtEnds(first) /\ CallsAtEnds(first)
  BY DEF OrderInv, ArcInv
<1>1. ASSUME NEW t \in Pushers, PushProbe(t) PROVE FALSE
  BY <1>1, PushFindsRoom DEF PushProbe
<1>2. ASSUME NEW t \in Poppers, PopProbe(t) PROVE FALSE
  <2>1. t \in Threads /\ pc[t] = "pop" /\ ring[slot[t]] = NoMsg
    BY <1>2 DEF PopProbe, Threads
  <2>2. slot[t] = first
    BY <2>1 DEF CallsAtEnds
  <2>3. order = <<>>
    BY <2>1, <2>2, HeadOfArc DEF OrderInv, OwnershipInv, ArcInv
  <2>4. \A i \in Slots : ring[i] = NoMsg
    BY <2>3, EmptyArc
  <2>5. Resident # {}
    BY <2>1 DEF OrderInv, CallsReturn
  <2> QED
    BY <2>4, <2>5 DEF Resident
<1> QED
  BY <1>1, <1>2

LEMMA OrderStepIsStep == [PhasedNext]_orderVars => [Next]_vars
<1> SUFFICES ASSUME PhasedNext PROVE Next
  BY DEF orderVars
<1> QED
  BY DEF PhasedNext, OrderNext, Next, Push, Pop, TryPop

LEMMA OrderInvStep == ~SpuriousCas /\ OrderInv /\ [PhasedNext]_orderVars => OrderInv'
<1> SUFFICES ASSUME ~SpuriousCas, OrderInv, [PhasedNext]_orderVars PROVE OrderInv'
  OBVIOUS
<1>1. OwnershipInv'
  BY OrderStepIsStep, OwnershipStep DEF OrderInv
<1>2. CASE UNCHANGED orderVars
  <2>1. UNCHANGED <<ring, post_cursor, pop_cursor, held, pc, arg, slot, probe, order>>
    BY <1>2 DEF orderVars, vars, locals
  <2>2. CallsDoNotOverlap' /\ CallsReturn'
    BY <2>1 DEF OrderInv, CallsDoNotOverlap, CallsReturn, Resident
  <2>3. ArcInv'
    BY <2>1 DEF OrderInv, ArcInv, Arc, CursorsAtEnds, CallsAtEnds, Inside
  <2> QED
    BY <1>1, <2>2, <2>3 DEF OrderInv
<1>3. CASE PhasedNext
  <2>1. CallsDoNotOverlap' /\ CallsReturn' /\ OrderNext
    BY <1>3 DEF PhasedNext
  <2>2. ArcInv'
    BY <2>1, NoProbing, PushBeginKeepsArc, PushStoreKeepsArc, PopBeginKeepsArc, PopTakeKeepsArc,
       TryBeginKeepsArc, TryTakeKeepsArc, TryProbeKeepsArc, TryEmptyKeepsArc, TryStoreKeepsArc
       DEF OrderNext
  <2> QED
    BY <1>1, <2>1, <2>2 DEF OrderInv
<1> QED
  BY <1>2, <1>3

LEMMA OrderInvariant ==
  ASSUME ~SpuriousCas
  PROVE  PhasedSpec => []OrderInv
<1>1. OrderInv /\ [PhasedNext]_orderVars => OrderInv'
  BY OrderInvStep
<1> QED
  BY <1>1, OrderInvInit, PTL DEF PhasedSpec

(* Only a take adds to what a thread holds. *)
LEMMA TakesTheHead ==
  ASSUME OrderInv, PhasedNext, NEW t \in Poppers, NEW m \in held'[t] \ held[t]
  PROVE  m = Head(order)
<1> PICK first \in Slots : Arc(first) /\ CursorsAtEnds(first) /\ CallsAtEnds(first)
  BY DEF OrderInv, ArcInv
<1>1. /\ TypeOK /\ t \in Threads /\ OneOwner /\ order \in Seq(Messages) /\ Len(order) <= Capacity
  BY DEF OrderInv, OwnershipInv, ArcInv, Threads
<1>2. ASSUME NEW u \in Poppers, PopTake(u) PROVE m = Head(order)
  <2>1. pc[u] = "pop" /\ ring[slot[u]] # NoMsg /\ held' = [held EXCEPT ![u] = @ \cup {ring[slot[u]]}]
    BY <1>2 DEF PopTake, TakeFrom
  <2>2. slot[u] = first
    BY <2>1 DEF CallsAtEnds, Threads
  <2>3. ring[first] = Head(order)
    BY <1>1, <2>1, <2>2, HeadOfArc
  <2> QED
    BY <1>1, <2>1, <2>2, <2>3 DEF TypeOK
<1>3. ASSUME NEW u \in Poppers, TryTake(u) PROVE m = Head(order)
  <2>1. pc[u] = "try" /\ ring[TrySlot(u)] # NoMsg /\ held' = [held EXCEPT ![u] = @ \cup {ring[TrySlot(u)]}]
    BY <1>3 DEF TryTake, TakeFrom
  <2>2. TrySlot(u) \in Slots
    BY <1>1, CursorFacts DEF TrySlot, TypeOK, Threads
  <2>3. TrySlot(u) = first
    BY <2>1, <2>2, EmptyArc, TryLooksAtHead
  <2>4. ring[first] = Head(order)
    BY <1>1, <2>1, <2>3, HeadOfArc
  <2> QED
    BY <1>1, <2>1, <2>3, <2>4 DEF TypeOK
<1>4. ASSUME NEW u \in Pushers, PushStore(u) PROVE FALSE
  <2>1. held' = [held EXCEPT ![u] = @ \ {arg[u]}]
    BY <1>4 DEF PushStore
  <2> QED
    BY <1>1, <2>1 DEF TypeOK
<1>5. ASSUME held' = held PROVE FALSE
  BY <1>5
<1> QED
  BY <1>2, <1>3, <1>4, <1>5
     DEF PhasedNext, OrderNext, PushBegin, PushProbe, PopBegin, PopProbe, TryBegin, TryProbe, TryEmpty, TryStore

(* Calls that do not overlap take from the ring what was pushed first,     *)
(* by pop (mpmc.hpp:59-64) and by try_pop (74-85), whatever the capacity   *)
(* and the number of threads, where no compare-exchange fails spuriously.  *)
THEOREM RingIsFirstInFirstOut ==
  ASSUME ~SpuriousCas
  PROVE  PhasedSpec => FirstInFirstOut
<1>1. OrderInv /\ [PhasedNext]_orderVars
        => [\A t \in Poppers : \A m \in held'[t] \ held[t] : m = Head(order)]_orderVars
  BY TakesTheHead
<1> QED
  BY <1>1, OrderInvariant, PTL DEF PhasedSpec, FirstInFirstOut

(* A call succeeds where it looks first, or finds nothing at all. *)
LEMMA FirstSlotOnly ==
  ASSUME ~SpuriousCas, OrderInv, PhasedNext, NEW t \in Threads
  PROVE  /\ pc[t] \in {"push", "pop"} => pc'[t] = "idle"
         /\ pc[t] = "try" /\ pc'[t] = "idle" => order = <<>>
         /\ pc[t] = "try" /\ probe'[t] > probe[t] => order = <<>>
<1> SUFFICES ASSUME pc[t] # "idle"
             PROVE  \/ pc[t] \in {"push", "pop"} /\ pc'[t] = "idle"
                    \/ pc[t] = "try" /\ pc'[t] = "store" /\ ~(probe'[t] > probe[t])
                    \/ pc[t] = "try" /\ order = <<>>
                    \/ pc[t] = "store"
  OBVIOUS
<1>1. TypeOK /\ CallsDoNotOverlap /\ CallsDoNotOverlap' /\ OrderNext
  BY DEF OrderInv, OwnershipInv, PhasedNext
<1>2. ASSUME NEW u \in Threads, u # t => pc'[t] = pc[t], pc[u] # "idle" \/ pc'[u] # "idle"
      PROVE  u = t
  BY <1>1, <1>2 DEF CallsDoNotOverlap
<1>3. ASSUME NEW u \in Threads, NEW operation, Enter(u, operation), operation # "idle" PROVE FALSE
  BY <1>1, <1>2, <1>3 DEF Enter, TypeOK
<1>4. ASSUME NEW u \in Threads, Return(u), pc[u] # "idle" PROVE u = t /\ pc'[t] = "idle"
  BY <1>1, <1>2, <1>4 DEF Return, TypeOK
<1>5. ASSUME NEW u \in Pushers, (\E m \in Messages : PushBegin(u, m)) PROVE FALSE
  BY <1>3, <1>5 DEF PushBegin, Threads
<1>6. ASSUME NEW u \in Poppers, PopBegin(u) \/ TryBegin(u) PROVE FALSE
  BY <1>3, <1>6 DEF PopBegin, TryBegin, Threads
<1>7. ASSUME NEW u \in Pushers, PushStore(u) PROVE pc[t] \in {"push", "pop"} /\ pc'[t] = "idle"
  BY <1>4, <1>7 DEF PushStore, Threads
<1>8. ASSUME NEW u \in Poppers, PopTake(u) PROVE pc[t] \in {"push", "pop"} /\ pc'[t] = "idle"
  BY <1>4, <1>8 DEF PopTake, Threads
<1>9. ASSUME NEW u \in Poppers, TryTake(u)
      PROVE  pc[t] = "try" /\ pc'[t] = "store" /\ ~(probe'[t] > probe[t])
  <2>1. u = t
    BY <1>1, <1>2, <1>9 DEF TryTake, TypeOK, Threads
  <2>2. pc[t] = "try" /\ pc' = [pc EXCEPT ![t] = "store"] /\ probe' = [probe EXCEPT ![t] = 0]
    BY <1>9, <2>1 DEF TryTake
  <2>3. pc'[t] = "store" /\ probe'[t] = 0 /\ probe[t] \in 0 .. Capacity
    BY <1>1, <2>2 DEF TypeOK
  <2> QED
    BY <2>2, <2>3
<1>10. ASSUME NEW u \in Poppers, TryProbe(u), order' = order PROVE pc[t] = "try" /\ order = <<>>
  <2>1. u = t
    BY <1>1, <1>2, <1>10 DEF TryProbe, Threads
  <2> QED
    BY <1>1, <1>10, <2>1, TryProbeKeepsArc DEF TryProbe
<1>11. ASSUME NEW u \in Poppers, TryEmpty(u), order' = order PROVE pc[t] = "try" /\ order = <<>>
  <2>1. u = t
    BY <1>4, <1>11 DEF TryEmpty, Threads
  <2> QED
    BY <1>1, <1>11, <2>1, TryEmptyKeepsArc DEF TryEmpty
<1>12. ASSUME NEW u \in Poppers, TryStore(u) PROVE pc[t] = "store"
  BY <1>4, <1>12 DEF TryStore, Threads
<1> QED
  BY <1>1, <1>5, <1>6, <1>7, <1>8, <1>9, <1>10, <1>11, <1>12, NoProbing DEF OrderNext

(* Without overlap push and pop return after their first slot              *)
(* (mpmc.hpp:53, 61), and try_pop that finds its first slot empty has      *)
(* found the ring empty: a drain that stops at the first false leaves      *)
(* nothing behind.                                                         *)
THEOREM RingMakesNoDetour ==
  ASSUME ~SpuriousCas
  PROVE  PhasedSpec => NoDetour
<1>1. OrderInv /\ [PhasedNext]_orderVars
        => [\A t \in Threads :
              /\ pc[t] \in {"push", "pop"} => pc'[t] = "idle"
              /\ pc[t] = "try" /\ pc'[t] = "idle" => order = <<>>
              /\ pc[t] = "try" /\ probe'[t] > probe[t] => order = <<>>]_orderVars
  BY FirstSlotOnly
<1> QED
  BY <1>1, OrderInvariant, PTL DEF PhasedSpec, NoDetour
=============================================================================
