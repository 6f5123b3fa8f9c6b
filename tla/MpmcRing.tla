------------------------------ MODULE MpmcRing ------------------------------
(***************************************************************************)
(* The ring of include/mpmc/mpmc.hpp: Capacity slots, each an atomic       *)
(* pointer to a pooled message or null, a post cursor that push advances   *)
(* and a pop cursor that pop advances and try_pop only reads and rewrites. *)
(*                                                                         *)
(* One action is one access to shared memory: a cursor operation or a      *)
(* compare-exchange or exchange of a slot.  The slot operations pair a     *)
(* release with an acquire on the same atomic, so what the owner of a      *)
(* message wrote is visible to its next owner; the cursors are relaxed and *)
(* are used only as hints of where to start looking.                       *)
(*                                                                         *)
(* push(nullptr) returns at once and changes nothing: it is a stutter.     *)
(***************************************************************************)
EXTENDS Integers, FiniteSets

CONSTANTS
  Capacity,     \* ring slots, a power of two in the code
  CursorMod,    \* cursors are ints: they wrap modulo 2^32
  Messages,     \* the addresses of the messages that circulate
  NoMsg,        \* nullptr
  Pushers,      \* threads that call push
  Poppers,      \* threads that call pop and try_pop
  SpuriousCas   \* compare_exchange_weak may fail on an empty slot (LL/SC, arm64)

Threads == Pushers \cup Poppers

ASSUME CapacityAssumption  == Capacity \in Nat \ {0}
ASSUME CursorModAssumption == CursorMod \in Nat \ {0} /\ CursorMod % Capacity = 0
ASSUME NoMsgAssumption     == NoMsg \notin Messages
ASSUME SpuriousAssumption  == SpuriousCas \in BOOLEAN

VARIABLES
  ring,         \* slot |-> the message it publishes, or NoMsg
  post_cursor,
  pop_cursor,
  held,         \* thread |-> the messages it owns; a push gives one up, a pop gains one
  pc,           \* thread |-> the operation it is inside
  arg,          \* thread |-> the message its push is placing
  slot,         \* thread |-> the local variable slot
  probe         \* thread |-> the local variable probe of try_pop

locals == <<pc, arg, slot, probe>>
vars   == <<ring, post_cursor, pop_cursor, held, locals>>

Slots   == 0 .. Capacity - 1
Cursors == 0 .. CursorMod - 1

(* cursor & kMask.  The mask keeps the low bits of a two's complement int, *)
(* so it does not matter at which multiple of Capacity the int wraps.      *)
Wrap(cursor) == cursor % Capacity

Advance(cursor) == (cursor + 1) % CursorMod

Resident == {ring[i] : i \in Slots} \ {NoMsg}

Init ==
  /\ ring = [i \in Slots |-> NoMsg]
  /\ post_cursor = 0
  /\ pop_cursor = 0
  /\ \E owner \in [Messages -> Pushers] :
       held = [t \in Threads |-> {m \in Messages : owner[m] = t}]
  /\ pc = [t \in Threads |-> "idle"]
  /\ arg = [t \in Threads |-> NoMsg]
  /\ slot = [t \in Threads |-> 0]
  /\ probe = [t \in Threads |-> 0]

Enter(t, operation) ==
  /\ pc[t] = "idle"
  /\ pc' = [pc EXCEPT ![t] = operation]

(* Returning drops the locals of the call. *)
Return(t) ==
  /\ pc' = [pc EXCEPT ![t] = "idle"]
  /\ arg' = [arg EXCEPT ![t] = NoMsg]
  /\ slot' = [slot EXCEPT ![t] = 0]
  /\ probe' = [probe EXCEPT ![t] = 0]

(* Mutant: a load in place of the exchange leaves the message in the slot. *)
TakeFromByLoad(t, i) ==
  /\ ring[i] # NoMsg
  /\ held' = [held EXCEPT ![t] = @ \cup {ring[i]}]
  /\ UNCHANGED ring

(* exchange(nullptr) found m in slot i: thread t owns m now. *)
TakeFrom(t, i) ==
  /\ ring[i] # NoMsg
  /\ ring' = [ring EXCEPT ![i] = NoMsg]
  /\ held' = [held EXCEPT ![t] = @ \cup {ring[i]}]

-----------------------------------------------------------------------------
(* push *)

PushBegin(t, m) ==
  /\ Enter(t, "push")
  /\ m \in held[t]
  /\ arg' = [arg EXCEPT ![t] = m]
  /\ slot' = [slot EXCEPT ![t] = Wrap(post_cursor)]
  /\ post_cursor' = Advance(post_cursor)
  /\ UNCHANGED <<ring, pop_cursor, held, probe>>

(* Mutant: a store in place of the compare-exchange overwrites the slot. *)
PushStoreUnchecked(t) ==
  /\ pc[t] = "push"
  /\ ring' = [ring EXCEPT ![slot[t]] = arg[t]]
  /\ held' = [held EXCEPT ![t] = @ \ {arg[t]}]
  /\ Return(t)
  /\ UNCHANGED <<post_cursor, pop_cursor>>

PushStore(t) ==
  /\ pc[t] = "push"
  /\ ring[slot[t]] = NoMsg
  /\ ring' = [ring EXCEPT ![slot[t]] = arg[t]]
  /\ held' = [held EXCEPT ![t] = @ \ {arg[t]}]
  /\ Return(t)
  /\ UNCHANGED <<post_cursor, pop_cursor>>

(* The compare-exchange failed: the slot is occupied, or, where a weak     *)
(* compare-exchange may fail spuriously, whatever the slot holds.          *)
PushProbe(t) ==
  /\ pc[t] = "push"
  /\ ring[slot[t]] # NoMsg \/ SpuriousCas
  /\ slot' = [slot EXCEPT ![t] = Wrap(@ + 1)]
  /\ UNCHANGED <<ring, post_cursor, pop_cursor, held, pc, arg, probe>>

-----------------------------------------------------------------------------
(* pop *)

(* Mutant: pop loads the cursor and does not advance it. *)
PopBeginByLoad(t) ==
  /\ Enter(t, "pop")
  /\ slot' = [slot EXCEPT ![t] = Wrap(pop_cursor)]
  /\ UNCHANGED <<ring, post_cursor, pop_cursor, held, arg, probe>>

PopBegin(t) ==
  /\ Enter(t, "pop")
  /\ slot' = [slot EXCEPT ![t] = Wrap(pop_cursor)]
  /\ pop_cursor' = Advance(pop_cursor)
  /\ UNCHANGED <<ring, post_cursor, held, arg, probe>>

PopTake(t) ==
  /\ pc[t] = "pop"
  /\ TakeFrom(t, slot[t])
  /\ Return(t)
  /\ UNCHANGED <<post_cursor, pop_cursor>>

PopProbe(t) ==
  /\ pc[t] = "pop"
  /\ ring[slot[t]] = NoMsg
  /\ slot' = [slot EXCEPT ![t] = Wrap(@ + 1)]
  /\ UNCHANGED <<ring, post_cursor, pop_cursor, held, pc, arg, probe>>

-----------------------------------------------------------------------------
(* try_pop: at most Capacity probes from a loaded cursor; after a success  *)
(* the cursor is overwritten in a second step.                             *)

TryBegin(t) ==
  /\ Enter(t, "try")
  /\ slot' = [slot EXCEPT ![t] = pop_cursor]
  /\ probe' = [probe EXCEPT ![t] = 0]
  /\ UNCHANGED <<ring, post_cursor, pop_cursor, held, arg>>

(* Mutant: every probe of try_pop looks at the first slot again. *)
TrySlotWithoutProbe(t) == Wrap(slot[t])

TrySlot(t) == Wrap(slot[t] + probe[t])

TryTake(t) ==
  /\ pc[t] = "try"
  /\ probe[t] < Capacity
  /\ TakeFrom(t, TrySlot(t))
  /\ pc' = [pc EXCEPT ![t] = "store"]
  /\ slot' = [slot EXCEPT ![t] = TrySlot(t)]
  /\ probe' = [probe EXCEPT ![t] = 0]
  /\ UNCHANGED <<post_cursor, pop_cursor, arg>>

(* Mutant: try_pop goes on to the next slot whatever it found. *)
TryProbeBlindly(t) ==
  /\ pc[t] = "try"
  /\ probe[t] < Capacity
  /\ probe' = [probe EXCEPT ![t] = @ + 1]
  /\ UNCHANGED <<ring, post_cursor, pop_cursor, held, pc, arg, slot>>

TryProbe(t) ==
  /\ pc[t] = "try"
  /\ probe[t] < Capacity
  /\ ring[TrySlot(t)] = NoMsg
  /\ probe' = [probe EXCEPT ![t] = @ + 1]
  /\ UNCHANGED <<ring, post_cursor, pop_cursor, held, pc, arg, slot>>

(* Mutant: try_pop gives up one slot too early. *)
TryEmptyOneEarly(t) ==
  /\ pc[t] = "try"
  /\ probe[t] >= Capacity - 1
  /\ Return(t)
  /\ UNCHANGED <<ring, post_cursor, pop_cursor, held>>

(* return false *)
TryEmpty(t) ==
  /\ pc[t] = "try"
  /\ probe[t] = Capacity
  /\ Return(t)
  /\ UNCHANGED <<ring, post_cursor, pop_cursor, held>>

(* Mutant: the cursor is left at the slot that was emptied. *)
TryStoreSameSlot(t) ==
  /\ pc[t] = "store"
  /\ pop_cursor' = slot[t]
  /\ Return(t)
  /\ UNCHANGED <<ring, post_cursor, held>>

(* return true *)
TryStore(t) ==
  /\ pc[t] = "store"
  /\ pop_cursor' = Wrap(slot[t] + 1)
  /\ Return(t)
  /\ UNCHANGED <<ring, post_cursor, held>>

-----------------------------------------------------------------------------

Push(t) == (\E m \in Messages : PushBegin(t, m)) \/ PushStore(t) \/ PushProbe(t)

Pop(t) == PopBegin(t) \/ PopTake(t) \/ PopProbe(t)

TryPop(t) == TryBegin(t) \/ TryTake(t) \/ TryProbe(t) \/ TryEmpty(t) \/ TryStore(t)

Next ==
  \/ \E t \in Pushers : Push(t)
  \/ \E t \in Poppers : Pop(t) \/ TryPop(t)

Spec == Init /\ [][Next]_vars

(* The scheduler runs every thread, a call that was entered goes on, and a *)
(* popper polls again and again.  A compare-exchange on an empty slot does *)
(* not fail for ever: the processor guarantees that a loop around it gets  *)
(* ahead.  Nobody has to call push or pop.                                 *)
PushFailsSpuriously(t) == PushProbe(t) /\ ring[slot[t]] = NoMsg

Fairness ==
  /\ \A t \in Pushers :
       /\ WF_vars(PushStore(t) \/ PushProbe(t))
       /\ []<><<PushFailsSpuriously(t)>>_vars => []<><<PushStore(t)>>_vars
  /\ \A t \in Poppers : WF_vars(PopTake(t) \/ PopProbe(t)) /\ WF_vars(TryPop(t))

-----------------------------------------------------------------------------

TypeOK ==
  /\ ring \in [Slots -> Messages \cup {NoMsg}]
  /\ post_cursor \in Cursors
  /\ pop_cursor \in Cursors
  /\ held \in [Threads -> SUBSET Messages]
  /\ pc \in [Threads -> {"idle", "push", "pop", "try", "store"}]
  /\ arg \in [Threads -> Messages \cup {NoMsg}]
  /\ slot \in [Threads -> Cursors]
  /\ probe \in [Threads -> 0 .. Capacity]
  /\ \A t \in Threads : pc[t] \in {"push", "pop", "store"} => slot[t] \in Slots

(* A pusher owns the message it is placing until the slot publishes it. *)
PusherOwnsArg ==
  \A t \in Threads : pc[t] = "push" => arg[t] \in held[t]

(* Ownership is handed over, never copied and never dropped: each message  *)
(* is in one slot or with one thread, through every interleaving of push,  *)
(* pop and try_pop, whatever the cursors say.                              *)
OneOwner ==
  /\ \A i, j \in Slots : ring[i] = ring[j] /\ ring[i] # NoMsg => i = j
  /\ \A t, u \in Threads : \A m \in held[t] \cap held[u] : t = u
  /\ \A i \in Slots, t \in Threads : ring[i] \notin held[t]
  /\ \A m \in Messages : (\E i \in Slots : ring[i] = m) \/ (\E t \in Threads : m \in held[t])

OwnershipInv == TypeOK /\ PusherOwnsArg /\ OneOwner

(* A message the ring holds is found in the end, although poppers start    *)
(* from cursors that other poppers overwrite, and others push what they    *)
(* took back into the ring without end.                                    *)
Delivered ==
  \A m \in Messages : m \in Resident ~> m \notin Resident

(* push returns, on a full ring too, as long as poppers keep polling and   *)
(* the other pushers come to rest.  Without the latter it need not: each   *)
(* slot it tries may have been taken and filled again since.               *)
PushReturns ==
  \A t \in Pushers :
    <>[](\A u \in Pushers \ {t} : pc[u] # "push") => (pc[t] = "push" ~> pc[t] = "idle")
=============================================================================
