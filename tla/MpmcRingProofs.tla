--------------------------- MODULE MpmcRingProofs ---------------------------
(***************************************************************************)
(* Proofs about MpmcRing, for every capacity, every set of messages and    *)
(* every set of threads: type correctness and single ownership.            *)
(***************************************************************************)
EXTENDS MpmcRing, TLAPS

USE CapacityAssumption, CursorModAssumption, NoMsgAssumption

-----------------------------------------------------------------------------
(* What the mask does.                                                     *)

(* A masked cursor is a slot (mpmc.hpp:43, 52, 60, 67, 76). *)
LEMMA WrapIsSlot ==
  ASSUME NEW c \in Nat
  PROVE  Wrap(c) \in Slots
  BY DEF Wrap, Slots

LEMMA ModOfSum ==
  ASSUME NEW q \in Nat, NEW r \in Slots
  PROVE  (Capacity * q + r) % Capacity = r
  BY DEF Slots

LEMMA DivMod ==
  ASSUME NEW c \in Nat
  PROVE  c = Capacity * (c \div Capacity) + (c % Capacity) /\ c \div Capacity \in Nat
  OBVIOUS

(* Capacity consecutive probes visit every slot, whatever the cursor was   *)
(* when try_pop loaded it (mpmc.hpp:75-76).                                *)
LEMMA ProbesCoverRing ==
  ASSUME NEW c \in Nat, NEW i \in Slots
  PROVE  \E j \in 0 .. Capacity - 1 : Wrap(c + j) = i
<1> DEFINE q == c \div Capacity
           r == c % Capacity
<1>1. c = Capacity * q + r /\ q \in Nat /\ r \in Slots
  BY DivMod, WrapIsSlot DEF Wrap
<1> HIDE DEF q, r
<1>2. CASE i >= r
  <2>1. i - r \in 0 .. Capacity - 1
    BY <1>1, <1>2 DEF Slots
  <2>2. c + (i - r) = Capacity * q + i
    BY <1>1, <1>2 DEF Slots
  <2>3. (Capacity * q + i) % Capacity = i
    BY <1>1, ModOfSum
  <2>4. Wrap(c + (i - r)) = i
    BY <2>2, <2>3 DEF Wrap
  <2> QED
    BY <2>1, <2>4
<1>3. CASE i < r
  <2>1. (i - r) + Capacity \in 0 .. Capacity - 1
    BY <1>1, <1>3 DEF Slots
  <2>2. c + ((i - r) + Capacity) = Capacity * (q + 1) + i
    BY <1>1, <1>3 DEF Slots
  <2>3. q + 1 \in Nat
    BY <1>1
  <2>4. (Capacity * (q + 1) + i) % Capacity = i
    BY <2>3, ModOfSum
  <2>5. Wrap(c + ((i - r) + Capacity)) = i
    BY <2>2, <2>4 DEF Wrap
  <2> QED
    BY <2>1, <2>5
<1> QED
  BY <1>1, <1>2, <1>3 DEF Slots

(* A cursor stays a cursor, and every slot number is one. *)
LEMMA CursorFacts ==
  /\ Slots \subseteq Cursors
  /\ Cursors \subseteq Nat
  /\ \A c \in Cursors : Advance(c) \in Cursors
  /\ 0 \in Slots /\ 0 \in Cursors
  /\ \A c \in Cursors, j \in 0 .. Capacity : Wrap(c + j) \in Slots
  /\ \A c \in Cursors : Wrap(c) \in Slots /\ Wrap(c + 1) \in Slots
<1>1. Capacity <= CursorMod
  <2>1. CursorMod = Capacity * (CursorMod \div Capacity) /\ CursorMod \div Capacity \in Nat
    BY DivMod
  <2> QED
    BY <2>1
<1>2. /\ \A c \in Cursors, j \in 0 .. Capacity : Wrap(c + j) \in Slots
      /\ \A c \in Cursors : Wrap(c) \in Slots /\ Wrap(c + 1) \in Slots
  <2>1. \A c \in Cursors, j \in 0 .. Capacity : c + j \in Nat /\ c + 1 \in Nat /\ c \in Nat
    BY DEF Cursors
  <2> QED
    BY <2>1, WrapIsSlot
<1> QED
  BY <1>1, <1>2 DEF Slots, Cursors, Advance

-----------------------------------------------------------------------------
(* Type correctness.                                                       *)

LEMMA TypeOKInit == Init => TypeOK
  BY CursorFacts DEF Init, TypeOK, Threads

LEMMA TakeTypes ==
  ASSUME TypeOK, NEW t \in Threads, NEW i \in Slots, TakeFrom(t, i)
  PROVE  /\ ring' \in [Slots -> Messages \cup {NoMsg}]
         /\ held' \in [Threads -> SUBSET Messages]
<1>1. ring[i] \in Messages
  BY DEF TypeOK, TakeFrom
<1> QED
  BY <1>1 DEF TypeOK, TakeFrom

LEMMA TypeOKStep == TypeOK /\ [Next]_vars => TypeOK'
<1> SUFFICES ASSUME TypeOK, [Next]_vars PROVE TypeOK'
  OBVIOUS
<1> USE DEF TypeOK
<1>1. ASSUME NEW t \in Pushers, NEW m \in Messages, PushBegin(t, m) PROVE TypeOK'
  BY <1>1, CursorFacts DEF PushBegin, Enter, Threads
<1>2. ASSUME NEW t \in Pushers, PushStore(t) PROVE TypeOK'
  BY <1>2, CursorFacts DEF PushStore, Return, Threads
<1>3. ASSUME NEW t \in Pushers, PushProbe(t) PROVE TypeOK'
  <2>1. Wrap(slot[t] + 1) \in Slots
    BY CursorFacts DEF Threads
  <2> QED
    BY <1>3, <2>1, CursorFacts DEF PushProbe, Threads
<1>4. ASSUME NEW t \in Poppers, PopBegin(t) PROVE TypeOK'
  BY <1>4, CursorFacts DEF PopBegin, Enter, Threads
<1>5. ASSUME NEW t \in Poppers, PopTake(t) PROVE TypeOK'
  <2>1. slot[t] \in Slots /\ t \in Threads /\ TakeFrom(t, slot[t])
    BY <1>5 DEF PopTake, Threads
  <2>2. /\ ring' \in [Slots -> Messages \cup {NoMsg}]
        /\ held' \in [Threads -> SUBSET Messages]
    BY <2>1, TakeTypes
  <2>3. post_cursor' = post_cursor /\ pop_cursor' = pop_cursor /\ Return(t)
    BY <1>5 DEF PopTake
  <2> QED
    BY <2>1, <2>2, <2>3, CursorFacts DEF Return
<1>6. ASSUME NEW t \in Poppers, PopProbe(t) PROVE TypeOK'
  <2>1. Wrap(slot[t] + 1) \in Slots
    BY CursorFacts DEF Threads
  <2> QED
    BY <1>6, <2>1, CursorFacts DEF PopProbe, Threads
<1>7. ASSUME NEW t \in Poppers, TryBegin(t) PROVE TypeOK'
  BY <1>7, CursorFacts DEF TryBegin, Enter, Threads
<1>8. ASSUME NEW t \in Poppers, TryTake(t) PROVE TypeOK'
  <2>1. TrySlot(t) \in Slots /\ t \in Threads
    BY CursorFacts DEF TrySlot, Threads
  <2>2. /\ ring' \in [Slots -> Messages \cup {NoMsg}]
        /\ held' \in [Threads -> SUBSET Messages]
    BY <1>8, <2>1, TakeTypes DEF TryTake
  <2>3. /\ pc' = [pc EXCEPT ![t] = "store"]
        /\ slot' = [slot EXCEPT ![t] = TrySlot(t)]
        /\ probe' = [probe EXCEPT ![t] = 0]
        /\ UNCHANGED <<post_cursor, pop_cursor, arg>>
    BY <1>8 DEF TryTake
  <2>4. /\ slot' \in [Threads -> Cursors]
        /\ \A u \in Threads : pc'[u] \in {"push", "pop", "store"} => slot'[u] \in Slots
    BY <2>1, <2>3, CursorFacts
  <2>5. /\ pc' \in [Threads -> {"idle", "push", "pop", "try", "store"}]
        /\ probe' \in [Threads -> 0 .. Capacity]
    BY <2>1, <2>3
  <2> QED
    BY <2>2, <2>3, <2>4, <2>5
<1>9. ASSUME NEW t \in Poppers, TryProbe(t) PROVE TypeOK'
  BY <1>9 DEF TryProbe, Threads
<1>10. ASSUME NEW t \in Poppers, TryEmpty(t) PROVE TypeOK'
  BY <1>10, CursorFacts DEF TryEmpty, Return, Threads
<1>11. ASSUME NEW t \in Poppers, TryStore(t) PROVE TypeOK'
  <2>1. Wrap(slot[t] + 1) \in Cursors
    BY CursorFacts DEF Threads
  <2> QED
    BY <1>11, <2>1, CursorFacts DEF TryStore, Return, Threads
<1>12. CASE UNCHANGED vars
  BY <1>12 DEF vars, locals
<1> QED
  BY <1>1, <1>2, <1>3, <1>4, <1>5, <1>6, <1>7, <1>8, <1>9, <1>10, <1>11, <1>12
  DEF Next, Push, Pop, TryPop

(* Every variable keeps its type: cursors wrap inside an int, a masked     *)
(* index is a slot, and try_pop probes at most Capacity times.             *)
THEOREM TypeCorrect == Spec => []TypeOK
  BY TypeOKInit, TypeOKStep, PTL DEF Spec

-----------------------------------------------------------------------------
(* Single ownership.                                                       *)

LEMMA OwnershipInit == Init => OwnershipInv
<1> SUFFICES ASSUME Init PROVE PusherOwnsArg /\ OneOwner
  BY TypeOKInit DEF OwnershipInv
<1> PICK owner \in [Messages -> Pushers] :
      held = [t \in Threads |-> {m \in Messages : owner[m] = t}]
  BY DEF Init
<1>1. \A m \in Messages : owner[m] \in Threads
  BY DEF Threads
<1> QED
  BY <1>1 DEF Init, PusherOwnsArg, OneOwner

(* A message moves from its pusher into an empty slot. *)
LEMMA PushStoreKeepsOwner ==
  ASSUME OwnershipInv, TypeOK', NEW t \in Pushers, PushStore(t)
  PROVE  PusherOwnsArg' /\ OneOwner'
<1> DEFINE m == arg[t]
           i == slot[t]
<1> USE DEF OwnershipInv, TypeOK, Threads
<1>1. m \in held[t] /\ m \in Messages /\ i \in Slots /\ t \in Threads
  BY DEF PushStore, PusherOwnsArg
<1>2. /\ ring' = [ring EXCEPT ![i] = m]
      /\ held' = [held EXCEPT ![t] = @ \ {m}]
      /\ ring[i] = NoMsg
      /\ pc' = [pc EXCEPT ![t] = "idle"]
      /\ arg' = [arg EXCEPT ![t] = NoMsg]
  BY DEF PushStore, Return
<1> HIDE DEF m, i
<1>3. PusherOwnsArg'
  <2> SUFFICES ASSUME NEW u \in Threads, pc'[u] = "push" PROVE arg'[u] \in held'[u]
    BY DEF PusherOwnsArg
  <2>1. u # t
    BY <1>1, <1>2
  <2> QED
    BY <1>1, <1>2, <2>1 DEF PusherOwnsArg
<1>4. OneOwner'
  BY <1>1, <1>2 DEF OneOwner
<1> QED
  BY <1>3, <1>4

(* A message moves from a slot to the thread whose exchange returned it. *)
LEMMA TakeKeepsOwner ==
  ASSUME OwnershipInv, TypeOK', NEW t \in Poppers, NEW i \in Slots, TakeFrom(t, i),
         NEW where \in {"idle", "store"}, pc' = [pc EXCEPT ![t] = where],
         arg' = arg \/ arg' = [arg EXCEPT ![t] = NoMsg]
  PROVE  PusherOwnsArg' /\ OneOwner'
<1> USE DEF OwnershipInv, TypeOK, Threads
<1>1. /\ ring' = [ring EXCEPT ![i] = NoMsg]
      /\ held' = [held EXCEPT ![t] = @ \cup {ring[i]}]
      /\ ring[i] # NoMsg /\ ring[i] \in Messages
  BY DEF TakeFrom
<1>2. PusherOwnsArg'
  BY <1>1 DEF PusherOwnsArg
<1>3. OneOwner'
  BY <1>1 DEF OneOwner
<1> QED
  BY <1>2, <1>3

LEMMA OwnershipStep == OwnershipInv /\ [Next]_vars => OwnershipInv'
<1> SUFFICES ASSUME OwnershipInv, [Next]_vars, TypeOK' PROVE PusherOwnsArg' /\ OneOwner'
  BY TypeOKStep DEF OwnershipInv
<1> USE DEF OwnershipInv, TypeOK, Threads
<1>1. ASSUME NEW t \in Pushers, NEW m \in Messages, PushBegin(t, m)
      PROVE  PusherOwnsArg' /\ OneOwner'
  BY <1>1 DEF PushBegin, Enter, PusherOwnsArg, OneOwner
<1>2. ASSUME NEW t \in Pushers, PushStore(t) PROVE PusherOwnsArg' /\ OneOwner'
  BY <1>2, PushStoreKeepsOwner
<1>3. ASSUME NEW t \in Pushers, PushProbe(t) PROVE PusherOwnsArg' /\ OneOwner'
  BY <1>3 DEF PushProbe, PusherOwnsArg, OneOwner
<1>4. ASSUME NEW t \in Poppers, PopTake(t) PROVE PusherOwnsArg' /\ OneOwner'
  <2>1. slot[t] \in Slots
    BY <1>4 DEF PopTake
  <2> QED
    BY <1>4, <2>1, TakeKeepsOwner DEF PopTake, Return
<1>5. ASSUME NEW t \in Poppers, TryTake(t) PROVE PusherOwnsArg' /\ OneOwner'
  <2>1. TrySlot(t) \in Slots
    BY CursorFacts DEF TrySlot
  <2> QED
    BY <1>5, <2>1, TakeKeepsOwner DEF TryTake
<1>6. ASSUME NEW t \in Poppers,
             PopBegin(t) \/ PopProbe(t) \/ TryBegin(t) \/ TryProbe(t) \/ TryEmpty(t) \/ TryStore(t)
      PROVE  PusherOwnsArg' /\ OneOwner'
  <2>1. ring' = ring /\ held' = held
    BY <1>6 DEF PopBegin, PopProbe, TryBegin, TryProbe, TryEmpty, TryStore
  <2>2. \A u \in Threads : pc'[u] = "push" => pc[u] = "push" /\ arg'[u] = arg[u]
    BY <1>6 DEF PopBegin, PopProbe, TryBegin, TryProbe, TryEmpty, TryStore, Enter, Return
  <2> QED
    BY <2>1, <2>2 DEF PusherOwnsArg, OneOwner
<1>7. CASE UNCHANGED vars
  BY <1>7 DEF vars, locals, PusherOwnsArg, OneOwner
<1> QED
  BY <1>1, <1>2, <1>3, <1>4, <1>5, <1>6, <1>7 DEF Next, Push, Pop, TryPop

(* No message is ever lost, duplicated or owned twice, for any number of   *)
(* threads and slots, spurious compare-exchange failures included.         *)
THEOREM SingleOwnership == Spec => []OneOwner
<1>1. Init => OwnershipInv
  BY OwnershipInit
<1>2. OwnershipInv /\ [Next]_vars => OwnershipInv'
  BY OwnershipStep
<1>3. OwnershipInv => OneOwner
  BY DEF OwnershipInv
<1> QED
  BY <1>1, <1>2, <1>3, PTL DEF Spec
=============================================================================
