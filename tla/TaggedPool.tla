----------------------------- MODULE TaggedPool -----------------------------
(***************************************************************************)
(* The message pool of include/mem/memory_pool.hpp: PoolCap slots, each a  *)
(* message body in plain memory and an atomic state byte, 0 free, 1        *)
(* acquired.  The state byte is the only thing that is synchronized        *)
(* (memory_pool.hpp:25-27): whoever holds the pointer has the body to      *)
(* itself.                                                                 *)
(*                                                                         *)
(* A message is known by the index of its slot.  release() of a null       *)
(* pointer or of a pointer outside the pool returns at once and changes    *)
(* nothing: it is a stutter.                                               *)
(***************************************************************************)
EXTENDS Integers, FiniteSets

CONSTANTS
  PoolCap,      \* slots
  Threads,      \* threads that acquire and release
  Payloads,     \* what a holder may write into a body
  Blank,        \* the body as acquire leaves it: kind itch, bytes zero
  SpuriousCas   \* compare_exchange_weak may fail on a free slot

ASSUME PoolCapAssumption == PoolCap \in Nat \ {0}
ASSUME BlankAssumption   == Blank \notin Payloads

VARIABLES
  state,        \* slot |-> its state byte
  payload,      \* slot |-> its body
  held,         \* thread |-> the messages it owns
  ppc,          \* thread |-> where it is in acquire
  scan          \* thread |-> the local variable i of acquire

vars == <<state, payload, held, ppc, scan>>

PoolSlots == 0 .. PoolCap - 1

Free     == 0
Acquired == 1

Init ==
  /\ state = [s \in PoolSlots |-> Free]
  /\ payload = [s \in PoolSlots |-> Blank]
  /\ held = [t \in Threads |-> {}]
  /\ ppc = [t \in Threads |-> "idle"]
  /\ scan = [t \in Threads |-> 0]

-----------------------------------------------------------------------------
(* acquire *)

AcquireBegin(t) ==
  /\ ppc[t] = "idle"
  /\ ppc' = [ppc EXCEPT ![t] = "scan"]
  /\ scan' = [scan EXCEPT ![t] = 0]
  /\ UNCHANGED <<state, payload, held>>

(* Mutant: a store in place of the compare-exchange. *)
AcquireTakeUnchecked(t) ==
  /\ ppc[t] = "scan"
  /\ scan[t] < PoolCap
  /\ state' = [state EXCEPT ![scan[t]] = Acquired]
  /\ ppc' = [ppc EXCEPT ![t] = "clear"]
  /\ UNCHANGED <<payload, held, scan>>

AcquireTake(t) ==
  /\ ppc[t] = "scan"
  /\ scan[t] < PoolCap
  /\ state[scan[t]] = Free
  /\ state' = [state EXCEPT ![scan[t]] = Acquired]
  /\ ppc' = [ppc EXCEPT ![t] = "clear"]
  /\ UNCHANGED <<payload, held, scan>>

(* Mutant: the scan forgets its bound. *)
AcquireSkipUnbounded(t) ==
  /\ ppc[t] = "scan"
  /\ scan' = [scan EXCEPT ![t] = @ + 1]
  /\ UNCHANGED <<state, payload, held, ppc>>

AcquireSkip(t) ==
  /\ ppc[t] = "scan"
  /\ scan[t] < PoolCap
  /\ state[scan[t]] = Acquired \/ SpuriousCas
  /\ scan' = [scan EXCEPT ![t] = @ + 1]
  /\ UNCHANGED <<state, payload, held, ppc>>

(* Plain stores, after the compare-exchange. *)
AcquireClear(t) ==
  /\ ppc[t] = "clear"
  /\ payload' = [payload EXCEPT ![scan[t]] = Blank]
  /\ held' = [held EXCEPT ![t] = @ \cup {scan[t]}]
  /\ ppc' = [ppc EXCEPT ![t] = "idle"]
  /\ scan' = [scan EXCEPT ![t] = 0]
  /\ UNCHANGED state

(* Mutant: the last slot is never tried. *)
AcquireFailOneEarly(t) ==
  /\ ppc[t] = "scan"
  /\ scan[t] >= PoolCap - 1
  /\ ppc' = [ppc EXCEPT ![t] = "idle"]
  /\ scan' = [scan EXCEPT ![t] = 0]
  /\ UNCHANGED <<state, payload, held>>

(* return nullptr *)
AcquireFail(t) ==
  /\ ppc[t] = "scan"
  /\ scan[t] = PoolCap
  /\ ppc' = [ppc EXCEPT ![t] = "idle"]
  /\ scan' = [scan EXCEPT ![t] = 0]
  /\ UNCHANGED <<state, payload, held>>

(* The holder writes the body: acquire_filled, or its caller. *)
Fill(t, s, v) ==
  /\ s \in held[t]
  /\ payload' = [payload EXCEPT ![s] = v]
  /\ UNCHANGED <<state, held, ppc, scan>>

-----------------------------------------------------------------------------
(* release, by whichever thread holds the message in the end *)

(* Mutant: release forgets the state byte. *)
ReleaseWithoutStore(t, s) ==
  /\ s \in held[t]
  /\ held' = [held EXCEPT ![t] = @ \ {s}]
  /\ UNCHANGED <<state, payload, ppc, scan>>

Release(t, s) ==
  /\ s \in held[t]
  /\ held' = [held EXCEPT ![t] = @ \ {s}]
  /\ state' = [state EXCEPT ![s] = Free]
  /\ UNCHANGED <<payload, ppc, scan>>

(* A message changes hands between threads, outside the pool (a queue). *)
HandOver(t, u, s) ==
  /\ s \in held[t]
  /\ ppc[u] = "idle"
  /\ held' = [held EXCEPT ![t] = @ \ {s}, ![u] = @ \cup {s}]
  /\ UNCHANGED <<state, payload, ppc, scan>>

Acquire(t) ==
  AcquireBegin(t) \/ AcquireTake(t) \/ AcquireSkip(t) \/ AcquireClear(t) \/ AcquireFail(t)

Next ==
  \E t \in Threads :
    \/ Acquire(t)
    \/ ppc[t] = "idle" /\ \E s \in PoolSlots, v \in Payloads : Fill(t, s, v)
    \/ ppc[t] = "idle" /\ \E s \in PoolSlots : Release(t, s)
    \/ ppc[t] = "idle" /\ \E u \in Threads \ {t}, s \in PoolSlots : HandOver(t, u, s)

Spec == Init /\ [][Next]_vars

-----------------------------------------------------------------------------

TypeOK ==
  /\ state \in [PoolSlots -> {Free, Acquired}]
  /\ payload \in [PoolSlots -> Payloads \cup {Blank}]
  /\ held \in [Threads -> SUBSET PoolSlots]
  /\ ppc \in [Threads -> {"idle", "scan", "clear"}]
  /\ scan \in [Threads -> 0 .. PoolCap]
  /\ \A t \in Threads : ppc[t] = "clear" => scan[t] \in PoolSlots

(* A thread uses a body from the compare-exchange that won it on: first it *)
(* zeroes it with plain stores, then it holds the pointer.                 *)
Uses(t, s) == s \in held[t] \/ (ppc[t] = "clear" /\ scan[t] = s)

(* Two threads never use the same body, and acquire never zeroes one that  *)
(* its own thread still holds.                                             *)
BodyHasOneUser ==
  /\ \A s \in PoolSlots, t, u \in Threads : Uses(t, s) /\ Uses(u, s) => t = u
  /\ \A t \in Threads : ppc[t] = "clear" => scan[t] \notin held[t]

(* The state byte says who may touch the body: a slot is acquired exactly  *)
(* while some thread uses it, so that no slot leaks and none is handed out *)
(* twice.                                                                  *)
AcquiredIffUsed ==
  \A s \in PoolSlots : state[s] = Acquired <=> \E t \in Threads : Uses(t, s)

PoolInv == TypeOK /\ BodyHasOneUser /\ AcquiredIffUsed
=============================================================================
