---------------------------- MODULE RuntimeProofs ----------------------------
(***************************************************************************)
(* Proofs about Runtime, and the MpmcRing and TaggedPool in it, for any    *)
(* number of workers and operations, any ring and any pool: no message     *)
(* leaks, every sequence is read once, the two counters conserve what is   *)
(* in flight, and a stopped runtime is quiet.                              *)
(***************************************************************************)
EXTENDS Runtime, FiniteSetTheorems, TLAPS

-----------------------------------------------------------------------------
(* The inductive invariant, part by part.                                  *)

Working == {"produce", "acquire", "fill", "push", "pushed", "poll", "use", "popped"}

(* Worker w has a message in hand. *)
Carries(w) == wpc[w] \in {"fill", "push", "use"} \/ (wpc[w] = "poll" /\ pc[w] = "store")

(* A worker is inside push, try_pop or acquire only where its main loop    *)
(* calls it, and has one message in hand or none.                          *)
WorkerOK(w) ==
  /\ wpc[w] \notin {"push", "poll"} => pc[w] = "idle"
  /\ wpc[w] = "push" => pc[w] \in {"idle", "push"}
  /\ wpc[w] = "poll" => pc[w] \in {"idle", "try", "store"}
  /\ pc[w] = "push" => arg[w] \in held[w]
  /\ wpc[w] = "acquire" <=> ppc[w] # "idle"
  /\ Carries(w) => \E s \in PoolSlots : held[w] = {s}
  /\ ~Carries(w) => held[w] = {}
  /\ wpc[w] \in Working => left[w] > 0

WorkerInv == \A w \in Workers : WorkerOK(w)

(* workers_ names the threads that were spawned and not joined; stop       *)
(* returns only when the supervisor, who alone spawns, and all of them are *)
(* gone.                                                                   *)
ThreadsInv ==
  /\ workers_ = {w \in Workers : wpc[w] \notin {"unborn", "joined"}}
  /\ main \in {"stopped", "join_all"} => supervisor = "none"
  /\ main = "stopped" => workers_ = {}

(* A message is in one slot of the ring or with one worker, and acquired   *)
(* exactly then.                                                           *)
OwnerInv ==
  /\ \A i, j \in 0 .. Capacity - 1 : ring[i] = ring[j] /\ ring[i] # NoMsg => i = j
  /\ \A s \in PoolSlots, w, u \in Workers : Pool!Uses(w, s) /\ Pool!Uses(u, s) => w = u
  /\ \A s \in PoolSlots, w \in Workers : s \in Published => ~Pool!Uses(w, s)
  /\ \A s \in PoolSlots :
       state[s] = Pool!Acquired <=> (s \in Published \/ \E w \in Workers : Pool!Uses(w, s))

(* The numbers fetch_add has given out. *)
Taken == 1 .. next_sequence_ - 1

(* Message s carries the sequence its producer wrote. *)
Loaded(s) ==
  s \in Published \/ \E w \in Workers : s \in held[w] /\ wpc[w] \in {"push", "poll", "use"}

(* Producer w has a sequence and has not written it yet. *)
Numbered(w) == wpc[w] \in {"acquire", "fill"}

(* A sequence is with one producer, in one message, or consumed.           *)
SequenceInv ==
  /\ consumed \subseteq Taken
  /\ \A w \in Workers : Numbered(w) => sequence[w] \in Taken \ consumed
  /\ \A w, u \in Workers :
       Numbered(w) /\ Numbered(u) /\ sequence[w] = sequence[u] => w = u
  /\ \A s \in PoolSlots : Loaded(s) => payload[s] \in Taken \ consumed
  /\ \A s \in PoolSlots, w \in Workers : Loaded(s) /\ Numbered(w) => payload[s] # sequence[w]
  /\ \A s, r \in PoolSlots : Loaded(s) /\ Loaded(r) /\ payload[s] = payload[r] => s = r

(* How many numbers worker w may still take: a seed when it is spawned and *)
(* one per operation.  Owed has as many elements as all of them together.  *)
StillTakes(w) ==
  IF wpc[w] = "unborn" THEN MaxOps + 1
  ELSE IF wpc[w] = "produce" THEN left[w]
  ELSE IF wpc[w] \in {"acquire", "fill", "push", "pushed"} THEN left[w] - 1
  ELSE 0

Owed == {x \in Workers \X (0 .. MaxOps) : x[2] < StillTakes(x[1])}

BudgetInv ==
  next_sequence_ - 1 + Cardinality(Owed) <= Cardinality(Workers) * (MaxOps + 1)

RuntimeInv ==
  /\ TypeOK
  /\ WorkerInv
  /\ ThreadsInv
  /\ OwnerInv
  /\ SequenceInv
  /\ CountersConserve
  /\ BudgetInv

USE WorkersAssumption, RingAssumption, PoolAssumption

RingSlots == 0 .. Capacity - 1

(* The parts that say nothing about main, the supervisor and workers_. *)
MessageInv ==
  /\ WorkerInv
  /\ OwnerInv
  /\ SequenceInv
  /\ CountersConserve
  /\ BudgetInv

-----------------------------------------------------------------------------
(* Arithmetic of the cursors, as in MpmcRingProofs.                        *)

LEMMA WrapIsSlot ==
  ASSUME NEW c \in Nat
  PROVE  Ring!Wrap(c) \in RingSlots
  BY DEF Ring!Wrap, RingSlots

LEMMA CursorFacts ==
  /\ RingSlots = Ring!Slots /\ RingSlots \subseteq Ring!Cursors
  /\ 0 \in RingSlots /\ 0 \in Ring!Cursors
  /\ \A c \in Ring!Cursors : Ring!Advance(c) \in Ring!Cursors
  /\ \A c \in Ring!Cursors, j \in 0 .. Capacity : Ring!Wrap(c + j) \in RingSlots
  /\ \A c \in Ring!Cursors : Ring!Wrap(c) \in RingSlots /\ Ring!Wrap(c + 1) \in RingSlots
<1>1. Capacity <= CursorMod
  <2>1. /\ CursorMod = Capacity * (CursorMod \div Capacity) + (CursorMod % Capacity)
        /\ CursorMod \div Capacity \in Nat
    OBVIOUS
  <2> QED
    BY <2>1
<1>2. RingSlots = Ring!Slots /\ RingSlots \subseteq Ring!Cursors
  BY <1>1 DEF RingSlots, Ring!Slots, Ring!Cursors
<1>3. 0 \in RingSlots /\ 0 \in Ring!Cursors
  BY <1>1 DEF RingSlots, Ring!Cursors
<1>4. \A c \in Ring!Cursors : Ring!Advance(c) \in Ring!Cursors
  BY DEF Ring!Cursors, Ring!Advance
<1>5. \A c \in Ring!Cursors, j \in 0 .. Capacity : c + j \in Nat /\ c + 1 \in Nat /\ c \in Nat
  BY DEF Ring!Cursors
<1>6. /\ \A c \in Ring!Cursors, j \in 0 .. Capacity : Ring!Wrap(c + j) \in RingSlots
      /\ \A c \in Ring!Cursors : Ring!Wrap(c) \in RingSlots /\ Ring!Wrap(c + 1) \in RingSlots
  <2>1. 0 \in 0 .. Capacity
    OBVIOUS
  <2> QED
    BY <1>5, <2>1, WrapIsSlot
<1> QED
  BY <1>2, <1>3, <1>4, <1>6

LEMMA ThreadsAreWorkers == Ring!Threads = Workers
  BY DEF Ring!Threads

-----------------------------------------------------------------------------
(* Counting.                                                               *)

LEMMA WorkerSetsAreFinite ==
  ASSUME NEW S \in SUBSET Workers
  PROVE  IsFiniteSet(S) /\ Cardinality(S) \in Nat
  BY FS_Subset, FS_CardinalityType

LEMMA PublishedIsFinite ==
  ASSUME NEW S \in SUBSET PoolSlots
  PROVE  IsFiniteSet(S) /\ Cardinality(S) \in Nat
<1>1. IsFiniteSet(PoolSlots)
  BY FS_Interval DEF PoolSlots
<1> QED
  BY <1>1, FS_Subset, FS_CardinalityType

(* A set that loses an element is smaller. *)
LEMMA LoseOne ==
  ASSUME NEW S, IsFiniteSet(S), NEW x \in S, NEW T \in SUBSET (S \ {x})
  PROVE  IsFiniteSet(T) /\ Cardinality(T) + 1 <= Cardinality(S)
<1>1. IsFiniteSet(S \ {x}) /\ Cardinality(S \ {x}) = Cardinality(S) - 1
  BY FS_RemoveElement
<1>2. IsFiniteSet(T) /\ Cardinality(T) <= Cardinality(S \ {x})
  BY <1>1, FS_Subset
<1>3. Cardinality(T) \in Nat /\ Cardinality(S) \in Nat
  BY <1>2, FS_CardinalityType
<1> QED
  BY <1>1, <1>2, <1>3

LEMMA OneMore ==
  ASSUME NEW S, IsFiniteSet(S), NEW x, x \notin S
  PROVE  Cardinality(S \cup {x}) = Cardinality(S) + 1
  BY FS_AddElement

LEMMA OneFewer ==
  ASSUME NEW S, IsFiniteSet(S), NEW x, x \in S
  PROVE  Cardinality(S \ {x}) = Cardinality(S) - 1
  BY FS_RemoveElement

-----------------------------------------------------------------------------
(* The budget.                                                             *)

LEMMA OwedIsFinite == IsFiniteSet(Owed) /\ Cardinality(Owed) \in Nat
<1>1. IsFiniteSet(Workers \X (0 .. MaxOps))
  <2>1. IsFiniteSet(0 .. MaxOps)
    BY FS_Interval
  <2> QED
    BY <2>1, FS_Product
<1>2. Owed \in SUBSET (Workers \X (0 .. MaxOps))
  BY DEF Owed
<1> QED
  BY <1>1, <1>2, FS_Subset, FS_CardinalityType

(* All that the workers of a run may take. *)
LEMMA WholeBudget ==
  /\ Cardinality(Workers \X (0 .. MaxOps)) = Cardinality(Workers) * (MaxOps + 1)
  /\ Cardinality(Workers) * (MaxOps + 1) \in Nat
<1>1. IsFiniteSet(0 .. MaxOps) /\ Cardinality(0 .. MaxOps) = MaxOps + 1
  BY FS_Interval
<1>2. Cardinality(Workers \X (0 .. MaxOps)) = Cardinality(Workers) * (MaxOps + 1)
  BY <1>1, FS_Product
<1>3. Cardinality(Workers) \in Nat
  BY FS_CardinalityType
<1> QED
  BY <1>2, <1>3

LEMMA StillTakesTypes ==
  ASSUME wpc \in [Workers -> STRING], left \in [Workers -> 0 .. MaxOps], WorkerInv, NEW w \in Workers
  PROVE  StillTakes(w) \in 0 .. MaxOps + 1
  BY DEF StillTakes, WorkerInv, WorkerOK, Working

(* A step that takes no number leaves every worker at most what it had. *)
LEMMA BudgetKept ==
  ASSUME BudgetInv, next_sequence_' = next_sequence_,
         \A u \in Workers : StillTakes(u) \in Int /\ StillTakes(u)' \in Int /\ StillTakes(u)' <= StillTakes(u),
         next_sequence_ \in Int
  PROVE  BudgetInv'
<1>1. Owed' \in SUBSET Owed
  BY DEF Owed
<1>2. Cardinality(Owed') <= Cardinality(Owed) /\ Cardinality(Owed') \in Nat
  BY <1>1, OwedIsFinite, FS_Subset, FS_CardinalityType
<1>3. next_sequence_ - 1 + Cardinality(Owed) <= Cardinality(Workers) * (MaxOps + 1)
  BY DEF BudgetInv
<1>4. next_sequence_' - 1 + Cardinality(Owed') <= Cardinality(Workers) * (MaxOps + 1)
  BY <1>2, <1>3, OwedIsFinite, WholeBudget
<1> QED
  BY <1>4 DEF BudgetInv

(* A step that takes one leaves its worker at least one less, and there    *)
(* was one to take.                                                        *)
LEMMA BudgetTaken ==
  ASSUME BudgetInv, next_sequence_' = next_sequence_ + 1, next_sequence_ \in Nat \ {0},
         \A u \in Workers : StillTakes(u) \in 0 .. MaxOps + 1 /\ StillTakes(u)' \in Nat
                              /\ StillTakes(u)' <= StillTakes(u),
         NEW w \in Workers, StillTakes(w)' < StillTakes(w)
  PROVE  /\ BudgetInv'
         /\ next_sequence_ \in Sequences
         /\ next_sequence_' \in Sequences \cup {Cardinality(Workers) * (MaxOps + 1) + 1}
<1> DEFINE x == <<w, StillTakes(w) - 1>>
<1>1. StillTakes(w) - 1 \in 0 .. MaxOps /\ StillTakes(w)' \in Nat
  OBVIOUS
<1>2. x \in Owed /\ x \notin Owed'
  BY <1>1 DEF Owed
<1>3. Owed' \in SUBSET (Owed \ {x})
  BY <1>2 DEF Owed
<1>4. IsFiniteSet(Owed') /\ Cardinality(Owed') + 1 <= Cardinality(Owed)
  <2> HIDE DEF x
  <2> QED
    BY <1>2, <1>3, OwedIsFinite, LoseOne
<1>5. Cardinality(Owed') \in Nat
  BY <1>4, FS_CardinalityType
<1>6. next_sequence_ - 1 + Cardinality(Owed) <= Cardinality(Workers) * (MaxOps + 1)
  BY DEF BudgetInv
<1>7. next_sequence_' - 1 + Cardinality(Owed') <= Cardinality(Workers) * (MaxOps + 1)
  BY <1>4, <1>5, <1>6, OwedIsFinite, WholeBudget
<1>8. next_sequence_ <= Cardinality(Workers) * (MaxOps + 1)
  BY <1>4, <1>5, <1>6, OwedIsFinite, WholeBudget
<1> QED
  BY <1>7, <1>8, WholeBudget DEF BudgetInv, Sequences

-----------------------------------------------------------------------------
(* What steps leave alone.                                                 *)

LEMMA RingTypesKept ==
  ASSUME Ring!TypeOK, UNCHANGED <<ringOnly, held>>
  PROVE  Ring!TypeOK'
  BY DEF Ring!TypeOK, ringOnly

LEMMA PoolTypesKept ==
  ASSUME Pool!TypeOK, UNCHANGED <<poolOnly, held>>
  PROVE  Pool!TypeOK'
  BY DEF Pool!TypeOK, poolOnly

LEMMA OwnerKept ==
  ASSUME OwnerInv, UNCHANGED <<ring, state>>,
         \A s \in PoolSlots, w \in Workers : Pool!Uses(w, s)' <=> Pool!Uses(w, s)
  PROVE  OwnerInv'
<1>1. Published' = Published
  BY DEF Published
<1>2. \A i, j \in 0 .. Capacity - 1 : ring'[i] = ring'[j] /\ ring'[i] # NoMsg => i = j
  BY DEF OwnerInv
<1>3. \A s \in PoolSlots, w, u \in Workers : Pool!Uses(w, s)' /\ Pool!Uses(u, s)' => w = u
  BY DEF OwnerInv
<1>4. \A s \in PoolSlots, w \in Workers : s \in Published' => ~Pool!Uses(w, s)'
  BY <1>1 DEF OwnerInv
<1>5. \A s \in PoolSlots :
        state'[s] = Pool!Acquired <=> (s \in Published' \/ \E w \in Workers : Pool!Uses(w, s)')
  BY <1>1 DEF OwnerInv
<1> QED
  BY <1>2, <1>3, <1>4, <1>5 DEF OwnerInv, Pool!Acquired

LEMMA SequenceKept ==
  ASSUME SequenceInv, UNCHANGED <<payload, consumed, next_sequence_>>,
         \A s \in PoolSlots : Loaded(s)' => Loaded(s),
         \A w \in Workers : Numbered(w)' => Numbered(w) /\ sequence'[w] = sequence[w]
  PROVE  SequenceInv'
<1>1. Taken' = Taken
  BY DEF Taken
<1>2. consumed' \subseteq Taken'
  BY <1>1 DEF SequenceInv
<1>3. \A w \in Workers : Numbered(w)' => sequence'[w] \in Taken' \ consumed'
  BY <1>1 DEF SequenceInv
<1>4. \A w, u \in Workers :
        Numbered(w)' /\ Numbered(u)' /\ sequence'[w] = sequence'[u] => w = u
  BY DEF SequenceInv
<1>5. \A s \in PoolSlots : Loaded(s)' => payload'[s] \in Taken' \ consumed'
  BY <1>1 DEF SequenceInv
<1>6. \A s \in PoolSlots, w \in Workers :
        Loaded(s)' /\ Numbered(w)' => payload'[s] # sequence'[w]
  BY DEF SequenceInv
<1>7. \A s, r \in PoolSlots : Loaded(s)' /\ Loaded(r)' /\ payload'[s] = payload'[r] => s = r
  BY DEF SequenceInv
<1> QED
  BY <1>2, <1>3, <1>4, <1>5, <1>6, <1>7 DEF SequenceInv

(* The workers the counters miss, and those with a popped message in hand. *)
Doing(where) == {w \in Workers : wpc[w] = where}
InHand       == {w \in Workers : wpc[w] \in {"poll", "use"} /\ held[w] # {}}

LEMMA CountingUnfolded ==
  CountersConserve <=>
    pushed_ + Cardinality(Doing("pushed")) =
      popped_ + Cardinality(Doing("popped")) + Cardinality(Published) + Cardinality(InHand)
  BY DEF CountersConserve, Count, Doing, InHand

LEMMA CountingSetsAreFinite ==
  ASSUME Ring!TypeOK
  PROVE  /\ IsFiniteSet(Doing("pushed")) /\ Cardinality(Doing("pushed")) \in Nat
         /\ IsFiniteSet(Doing("popped")) /\ Cardinality(Doing("popped")) \in Nat
         /\ IsFiniteSet(Published) /\ Cardinality(Published) \in Nat
         /\ IsFiniteSet(InHand) /\ Cardinality(InHand) \in Nat
<1>1. /\ Doing("pushed") \in SUBSET Workers
      /\ Doing("popped") \in SUBSET Workers
      /\ InHand \in SUBSET Workers
  BY DEF Doing, InHand
<1>2. Published \in SUBSET PoolSlots
  BY DEF Published, Ring!TypeOK, Ring!Slots
<1> QED
  BY <1>1, <1>2, WorkerSetsAreFinite, PublishedIsFinite

LEMMA CountKept ==
  ASSUME CountersConserve, UNCHANGED <<ring, pushed_, popped_>>,
         \A w \in Workers : /\ wpc'[w] = "pushed" <=> wpc[w] = "pushed"
                            /\ wpc'[w] = "popped" <=> wpc[w] = "popped"
                            /\ (wpc'[w] \in {"poll", "use"} /\ held'[w] # {})
                                 <=> (wpc[w] \in {"poll", "use"} /\ held[w] # {})
  PROVE  CountersConserve'
<1>1. Published' = Published
  BY DEF Published
<1>2. Doing("pushed")' = Doing("pushed") /\ Doing("popped")' = Doing("popped")
  BY DEF Doing
<1>3. InHand' = InHand
  BY DEF InHand
<1>4. pushed_' + Cardinality(Doing("pushed")') =
        popped_' + Cardinality(Doing("popped")') + Cardinality(Published') + Cardinality(InHand')
  BY <1>1, <1>2, <1>3, CountingUnfolded
<1> QED
  BY <1>4 DEF CountersConserve, Count, Doing, InHand

(* All of it, where only main, the supervisor and workers_ move. *)
LEMMA MessageKept ==
  ASSUME MessageInv, UNCHANGED idleForMain
  PROVE  MessageInv'
<1> USE DEF idleForMain, ringOnly, poolOnly, counters, workerVars
<1>1. WorkerInv'
  BY DEF MessageInv, WorkerInv, WorkerOK, Carries, Working
<1>2. OwnerInv'
  BY OwnerKept DEF MessageInv, Pool!Uses
<1>3. SequenceInv'
  <2>1. \A s \in PoolSlots : Loaded(s)' => Loaded(s)
    BY DEF Loaded, Published
  <2> QED
    BY <2>1, SequenceKept DEF MessageInv, Numbered
<1>4. CountersConserve'
  BY CountKept DEF MessageInv
<1>5. BudgetInv'
  BY DEF MessageInv, BudgetInv, Owed, StillTakes
<1> QED
  BY <1>1, <1>2, <1>3, <1>4, <1>5 DEF MessageInv

(* The types, where only they move. *)
LEMMA MainTypesKept ==
  ASSUME TypeOK, UNCHANGED <<ringOnly, poolOnly, held, next_sequence_, counters, left, sequence, consumed>>,
         main' \in {"stopped", "started", "join_supervisor", "join_all"},
         supervisor' \in {"none", "check", "roll", "spawn_producer", "exited"},
         running_' \in BOOLEAN, workers_' \subseteq Workers, live_threads_' = Cardinality(workers_'),
         wpc' \in [Workers -> {"unborn", "produce", "acquire", "fill", "push", "pushed",
                               "poll", "use", "popped", "done", "joined"}]
  PROVE  TypeOK'
<1>1. Ring!TypeOK' /\ Pool!TypeOK'
  BY RingTypesKept, PoolTypesKept DEF TypeOK
<1> QED
  BY <1>1 DEF TypeOK, counters

-----------------------------------------------------------------------------
(* Workers come and go.                                                    *)

(* Done workers are joined. *)
LEMMA RetireKeeps ==
  ASSUME TypeOK, MessageInv, NEW J \in SUBSET Workers, \A w \in J : wpc[w] = "done",
         wpc' = [w \in Workers |-> IF w \in J THEN "joined" ELSE wpc[w]],
         UNCHANGED <<ringOnly, poolOnly, held, next_sequence_, counters, left, sequence, consumed>>
  PROVE  MessageInv'
<1> USE DEF ringOnly, poolOnly, counters
<1>1. \A w \in Workers : wpc'[w] = wpc[w] \/ (wpc[w] = "done" /\ wpc'[w] = "joined")
  OBVIOUS
<1>2. WorkerInv'
  BY <1>1 DEF MessageInv, WorkerInv, WorkerOK, Carries, Working
<1>3. OwnerInv'
  BY OwnerKept DEF MessageInv, Pool!Uses
<1>4. SequenceInv'
  <2>1. \A s \in PoolSlots : Loaded(s)' => Loaded(s)
    BY <1>1 DEF Loaded, Published
  <2>2. \A w \in Workers : Numbered(w)' => Numbered(w) /\ sequence'[w] = sequence[w]
    BY <1>1 DEF Numbered
  <2> QED
    BY <2>1, <2>2, SequenceKept DEF MessageInv
<1>5. CountersConserve'
  <2>1. \A w \in Workers : /\ wpc'[w] = "pushed" <=> wpc[w] = "pushed"
                           /\ wpc'[w] = "popped" <=> wpc[w] = "popped"
                           /\ (wpc'[w] \in {"poll", "use"} /\ held'[w] # {})
                                <=> (wpc[w] \in {"poll", "use"} /\ held[w] # {})
    BY <1>1
  <2> QED
    BY <2>1, CountKept DEF MessageInv
<1>6. BudgetInv'
  <2>1. \A w \in Workers : StillTakes(w)' = StillTakes(w)
    BY <1>1 DEF StillTakes
  <2>2. Owed' = Owed
    BY <2>1 DEF Owed
  <2> QED
    BY <2>2 DEF MessageInv, BudgetInv
<1> QED
  BY <1>2, <1>3, <1>4, <1>5, <1>6 DEF MessageInv

(* A thread that was not there starts. *)
LEMMA HireKeeps ==
  ASSUME TypeOK, MessageInv, NEW w \in Workers, wpc[w] = "unborn",
         NEW entry \in {"produce", "poll"}, wpc' = [wpc EXCEPT ![w] = entry],
         NEW ops \in 1 .. MaxOps, left' = [left EXCEPT ![w] = ops],
         next_sequence_' = next_sequence_ + 1,
         UNCHANGED <<ringOnly, poolOnly, held, counters, sequence, consumed>>
  PROVE  /\ MessageInv'
         /\ next_sequence_' \in Sequences \cup {Cardinality(Workers) * (MaxOps + 1) + 1}
<1> USE DEF ringOnly, poolOnly, counters
<1>0. /\ wpc'[w] = entry /\ \A u \in Workers \ {w} : wpc'[u] = wpc[u]
      /\ left'[w] = ops /\ \A u \in Workers \ {w} : left'[u] = left[u]
  BY DEF TypeOK
<1>1. /\ pc[w] = "idle" /\ ppc[w] = "idle" /\ held[w] = {}
  BY DEF MessageInv, WorkerInv, WorkerOK, Carries
<1>2. WorkerInv'
  <2>1. ASSUME NEW u \in Workers \ {w} PROVE Carries(u)' <=> Carries(u)
    BY <1>0 DEF Carries
  <2>2. ~Carries(w)'
    BY <1>0, <1>1 DEF Carries
  <2> QED
    BY <1>0, <1>1, <2>1, <2>2 DEF MessageInv, WorkerInv, WorkerOK, Working
<1>3. OwnerInv'
  BY OwnerKept DEF MessageInv, Pool!Uses
<1>4. SequenceInv'
  <2>1. \A s \in PoolSlots : Loaded(s)' => Loaded(s)
    BY <1>0, <1>1 DEF Loaded, Published
  <2>2. \A u \in Workers : Numbered(u)' => Numbered(u) /\ sequence'[u] = sequence[u]
    BY <1>0 DEF Numbered
  <2>3. Taken \subseteq Taken' /\ \A u \in Workers : Numbered(u)' => sequence'[u] \in Taken'
    <3>1. next_sequence_ \in Int
      BY WholeBudget DEF TypeOK, Sequences
    <3>2. Taken \subseteq Taken'
      BY <3>1 DEF Taken
    <3> QED
      BY <2>2, <3>2 DEF MessageInv, SequenceInv
  <2>4. consumed' \subseteq Taken'
    BY <2>3 DEF MessageInv, SequenceInv
  <2>5. \A u \in Workers : Numbered(u)' => sequence'[u] \in Taken' \ consumed'
    BY <2>2, <2>3 DEF MessageInv, SequenceInv
  <2>6. \A u, v \in Workers :
          Numbered(u)' /\ Numbered(v)' /\ sequence'[u] = sequence'[v] => u = v
    BY <2>2 DEF MessageInv, SequenceInv
  <2>7. \A s \in PoolSlots : Loaded(s)' => payload'[s] \in Taken' \ consumed'
    BY <2>1, <2>3 DEF MessageInv, SequenceInv
  <2>8. \A s \in PoolSlots, u \in Workers :
          Loaded(s)' /\ Numbered(u)' => payload'[s] # sequence'[u]
    BY <2>1, <2>2 DEF MessageInv, SequenceInv
  <2>9. \A s, r \in PoolSlots : Loaded(s)' /\ Loaded(r)' /\ payload'[s] = payload'[r] => s = r
    BY <2>1 DEF MessageInv, SequenceInv
  <2> QED
    BY <2>4, <2>5, <2>6, <2>7, <2>8, <2>9 DEF SequenceInv
<1>5. CountersConserve'
  <2>1. \A u \in Workers : /\ wpc'[u] = "pushed" <=> wpc[u] = "pushed"
                           /\ wpc'[u] = "popped" <=> wpc[u] = "popped"
                           /\ (wpc'[u] \in {"poll", "use"} /\ held'[u] # {})
                                <=> (wpc[u] \in {"poll", "use"} /\ held[u] # {})
    BY <1>0, <1>1
  <2> QED
    BY <2>1, CountKept DEF MessageInv
<1>6. /\ BudgetInv'
      /\ next_sequence_' \in Sequences \cup {Cardinality(Workers) * (MaxOps + 1) + 1}
  <2>1. \A u \in Workers : left[u] \in 0 .. MaxOps
    BY DEF TypeOK
  <2>2. \A u \in Workers : StillTakes(u) \in 0 .. MaxOps + 1
    BY <2>1 DEF StillTakes, MessageInv, WorkerInv, WorkerOK, Working
  <2>3. \A u \in Workers \ {w} : StillTakes(u)' = StillTakes(u)
    BY <1>0 DEF StillTakes
  <2>4. StillTakes(w)' \in Nat /\ StillTakes(w)' < StillTakes(w)
    BY <1>0 DEF StillTakes
  <2>5. \A u \in Workers : StillTakes(u)' \in Nat /\ StillTakes(u)' <= StillTakes(u)
    BY <2>2, <2>3, <2>4
  <2>6. next_sequence_ \in Nat \ {0}
    BY WholeBudget DEF TypeOK, Sequences
  <2> QED
    BY <2>2, <2>4, <2>5, <2>6, BudgetTaken DEF MessageInv
<1> QED
  BY <1>2, <1>3, <1>4, <1>5, <1>6 DEF MessageInv

-----------------------------------------------------------------------------
(* The main thread and the supervisor.                                     *)

LEMMA RuntimeParts ==
  RuntimeInv <=> TypeOK /\ ThreadsInv /\ MessageInv
  BY DEF RuntimeInv, MessageInv

(* Steps that touch nothing but main, supervisor and running_. *)
LEMMA ControlKeeps ==
  ASSUME RuntimeInv, UNCHANGED <<workers_, live_threads_, idleForMain>>,
         main' \in {"stopped", "started", "join_supervisor", "join_all"},
         supervisor' \in {"none", "check", "roll", "spawn_producer", "exited"},
         running_' \in BOOLEAN,
         main' \in {"stopped", "join_all"} => supervisor' = "none",
         main' = "stopped" => main = "stopped"
  PROVE  RuntimeInv'
<1>1. MessageInv'
  BY RuntimeParts, MessageKept
<1>2. wpc' = wpc
  BY DEF idleForMain, workerVars
<1>3. TypeOK'
  <2>1. UNCHANGED <<ringOnly, poolOnly, held, next_sequence_, counters, left, sequence, consumed>>
    BY DEF idleForMain, workerVars
  <2>2. /\ workers_' \subseteq Workers /\ live_threads_' = Cardinality(workers_')
        /\ wpc' \in [Workers -> {"unborn", "produce", "acquire", "fill", "push", "pushed",
                                 "poll", "use", "popped", "done", "joined"}]
    BY <1>2 DEF RuntimeInv, TypeOK
  <2> QED
    BY <2>1, <2>2, MainTypesKept DEF RuntimeInv
<1>4. ThreadsInv'
  BY <1>2 DEF RuntimeInv, ThreadsInv
<1> QED
  BY <1>1, <1>3, <1>4 DEF RuntimeInv, MessageInv

LEMMA JoinAllKeeps ==
  ASSUME RuntimeInv, JoinAll
  PROVE  RuntimeInv'
<1>1. workers_ \in SUBSET Workers
  BY DEF RuntimeInv, TypeOK
<1>2. MessageInv'
  BY <1>1, RuntimeParts, RetireKeeps DEF JoinAll
<1>3. \A w \in Workers : wpc'[w] \in {"unborn", "joined"}
  BY DEF JoinAll, RuntimeInv, ThreadsInv
<1>4. ThreadsInv'
  BY <1>3 DEF JoinAll, RuntimeInv, ThreadsInv
<1>5. TypeOK'
  <2>1. live_threads_' = Cardinality(workers_')
    BY FS_EmptySet DEF JoinAll
  <2>2. wpc' \in [Workers -> {"unborn", "produce", "acquire", "fill", "push", "pushed",
                              "poll", "use", "popped", "done", "joined"}]
    BY <1>3 DEF JoinAll
  <2> QED
    BY <2>1, <2>2, MainTypesKept DEF JoinAll, RuntimeInv, TypeOK
<1> QED
  BY <1>2, <1>4, <1>5 DEF RuntimeInv, MessageInv

LEMMA TryJoinRandomKeeps ==
  ASSUME RuntimeInv, TryJoinRandom
  PROVE  RuntimeInv'
<1>1. /\ supervisor = "roll" /\ supervisor' = "spawn_producer" /\ UNCHANGED <<main, running_>>
      /\ UNCHANGED <<ringOnly, poolOnly, held, next_sequence_, counters, left, sequence, consumed>>
  BY DEF TryJoinRandom
<1>2. main \notin {"stopped", "join_all"} /\ TypeOK
  BY <1>1 DEF RuntimeInv, ThreadsInv
<1>3. CASE UNCHANGED <<workers_, live_threads_, wpc>>
  <2>1. UNCHANGED idleForMain
    BY <1>1, <1>3 DEF idleForMain, workerVars
  <2> QED
    BY <1>1, <1>2, <1>3, <2>1, ControlKeeps DEF TypeOK
<1>4. ASSUME NEW w \in workers_, wpc[w] = "done", workers_' = workers_ \ {w},
             wpc' = [wpc EXCEPT ![w] = "joined"], live_threads_' = live_threads_ - 1
      PROVE  RuntimeInv'
  <2>1. w \in Workers /\ {w} \in SUBSET Workers
    BY DEF RuntimeInv, TypeOK
  <2>2. wpc' = [u \in Workers |-> IF u \in {w} THEN "joined" ELSE wpc[u]]
    BY <1>2, <1>4, <2>1 DEF TypeOK
  <2>3. MessageInv'
    BY <1>1, <1>2, <1>4, <2>1, <2>2, RuntimeParts, RetireKeeps
  <2>4. workers_' = {u \in Workers : wpc'[u] \notin {"unborn", "joined"}}
    BY <1>4, <2>2 DEF RuntimeInv, ThreadsInv
  <2>5. ThreadsInv'
    BY <1>1, <1>2, <2>4 DEF ThreadsInv
  <2>6. live_threads_' = Cardinality(workers_')
    <3>1. IsFiniteSet(workers_)
      BY WorkerSetsAreFinite DEF RuntimeInv, TypeOK
    <3>2. Cardinality(workers_ \ {w}) = Cardinality(workers_) - 1
      BY <3>1, OneFewer
    <3> QED
      BY <1>2, <1>4, <3>2 DEF TypeOK
  <2>7. TypeOK'
    <3>1. wpc' \in [Workers -> {"unborn", "produce", "acquire", "fill", "push", "pushed",
                                "poll", "use", "popped", "done", "joined"}]
      BY <1>2, <2>2 DEF TypeOK
    <3>2. /\ main' \in {"stopped", "started", "join_supervisor", "join_all"}
          /\ running_' \in BOOLEAN /\ workers_' \subseteq Workers
      BY <1>1, <1>2, <1>4 DEF TypeOK
    <3> QED
      BY <1>1, <1>2, <2>6, <3>1, <3>2, MainTypesKept
  <2> QED
    BY <2>3, <2>5, <2>7 DEF RuntimeInv, MessageInv
<1> QED
  BY <1>3, <1>4 DEF TryJoinRandom

LEMMA SpawnKeeps ==
  ASSUME RuntimeInv, supervisor \in {"roll", "spawn_producer"}, supervisor' = "check",
         NEW w \in Workers, NEW entry \in {"produce", "poll"}, Spawn(w, entry)
  PROVE  RuntimeInv'
<1>1. PICK ops \in 1 .. MaxOps : left' = [left EXCEPT ![w] = ops]
  BY DEF Spawn
<1>2. /\ wpc[w] = "unborn" /\ wpc' = [wpc EXCEPT ![w] = entry]
      /\ next_sequence_' = next_sequence_ + 1
      /\ workers_' = workers_ \cup {w} /\ live_threads_' = live_threads_ + 1
      /\ UNCHANGED <<main, running_, ringOnly, poolOnly, held, counters, sequence, consumed>>
  BY DEF Spawn
<1>3. TypeOK /\ MessageInv /\ main \notin {"stopped", "join_all"}
  BY RuntimeParts DEF RuntimeInv, ThreadsInv
<1>4. /\ MessageInv'
      /\ next_sequence_' \in Sequences \cup {Cardinality(Workers) * (MaxOps + 1) + 1}
  BY <1>1, <1>2, <1>3, HireKeeps
<1>5. workers_' = {u \in Workers : wpc'[u] \notin {"unborn", "joined"}}
  BY <1>2, <1>3 DEF RuntimeInv, ThreadsInv, TypeOK
<1>6. ThreadsInv'
  BY <1>2, <1>3, <1>5 DEF ThreadsInv
<1>7. live_threads_' = Cardinality(workers_')
  <2>1. w \notin workers_ /\ IsFiniteSet(workers_)
    BY <1>2, WorkerSetsAreFinite DEF RuntimeInv, TypeOK, ThreadsInv
  <2>2. Cardinality(workers_ \cup {w}) = Cardinality(workers_) + 1
    BY <2>1, OneMore
  <2> QED
    BY <1>2, <1>3, <2>2 DEF TypeOK
<1>8. TypeOK'
  <2>1. Ring!TypeOK' /\ Pool!TypeOK'
    BY <1>2, <1>3, RingTypesKept, PoolTypesKept DEF TypeOK
  <2>2. /\ wpc' \in [Workers -> {"unborn", "produce", "acquire", "fill", "push", "pushed",
                                 "poll", "use", "popped", "done", "joined"}]
        /\ left' \in [Workers -> 0 .. MaxOps]
    BY <1>1, <1>2, <1>3 DEF TypeOK
  <2>3. workers_' \subseteq Workers /\ main' = main /\ running_' = running_ /\ sequence' = sequence
    BY <1>2, <1>3 DEF TypeOK
  <2>4. pushed_' \in Nat /\ popped_' \in Nat /\ consumed' \subseteq Sequences \cup {Blank}
    BY <1>2, <1>3 DEF TypeOK, counters
  <2> QED
    BY <1>3, <1>4, <1>7, <2>1, <2>2, <2>3, <2>4 DEF TypeOK
<1> QED
  BY <1>4, <1>6, <1>8 DEF RuntimeInv, MessageInv

LEMMA MainAndSupervisorKeep ==
  ASSUME RuntimeInv, MainStep \/ SupervisorStep
  PROVE  RuntimeInv'
<1>1. TypeOK
  BY DEF RuntimeInv
<1>2. CASE Start
  BY <1>1, <1>2, ControlKeeps DEF Start, TypeOK
<1>3. CASE Stop
  BY <1>1, <1>3, ControlKeeps DEF Stop, TypeOK
<1>4. CASE JoinSupervisor
  BY <1>1, <1>4, ControlKeeps DEF JoinSupervisor, TypeOK
<1>5. CASE Check
  <2>1. main \notin {"stopped", "join_all"}
    BY <1>5 DEF Check, RuntimeInv, ThreadsInv
  <2>2. supervisor' \in {"roll", "exited"} /\ main' = main /\ running_' = running_
        /\ UNCHANGED <<workers_, live_threads_, idleForMain>>
    BY <1>5 DEF Check
  <2> QED
    BY <1>1, <2>1, <2>2, ControlKeeps DEF TypeOK
<1>6. CASE NoSpawn
  <2>1. main \notin {"stopped", "join_all"}
    BY <1>6 DEF NoSpawn, RuntimeInv, ThreadsInv
  <2>2. supervisor' = "check" /\ main' = main /\ running_' = running_
        /\ UNCHANGED <<workers_, live_threads_, idleForMain>>
    BY <1>6 DEF NoSpawn
  <2> QED
    BY <1>1, <2>1, <2>2, ControlKeeps DEF TypeOK
<1>7. CASE SpawnProducer
  BY <1>7, SpawnKeeps DEF SpawnProducer
<1>8. CASE SpawnConsumer
  BY <1>8, SpawnKeeps DEF SpawnConsumer
<1> QED
  BY <1>2, <1>3, <1>4, <1>5, <1>6, <1>7, <1>8, JoinAllKeeps, TryJoinRandomKeeps
     DEF MainStep, SupervisorStep

-----------------------------------------------------------------------------
(* What a worker's step leaves alone.                                      *)

Places == {"unborn", "produce", "acquire", "fill", "push", "pushed",
           "poll", "use", "popped", "done", "joined"}

LEMMA WorkerTypesKept ==
  ASSUME TypeOK, Ring!TypeOK', Pool!TypeOK', UNCHANGED threads,
         next_sequence_' \in Sequences \cup {Cardinality(Workers) * (MaxOps + 1) + 1},
         pushed_' \in Nat, popped_' \in Nat, wpc' \in [Workers -> Places],
         left' \in [Workers -> 0 .. MaxOps], sequence' \in [Workers -> {0} \cup Sequences],
         consumed' \subseteq Sequences \cup {Blank}
  PROVE  TypeOK'
  BY DEF TypeOK, threads, Places

LEMMA ThreadsKept ==
  ASSUME ThreadsInv, UNCHANGED threads,
         \A u \in Workers : wpc'[u] \in {"unborn", "joined"} <=> wpc[u] \in {"unborn", "joined"}
  PROVE  ThreadsInv'
<1>1. workers_' = {u \in Workers : wpc'[u] \notin {"unborn", "joined"}}
  BY DEF ThreadsInv, threads
<1> QED
  BY <1>1 DEF ThreadsInv, threads

LEMMA WorkerMoves ==
  ASSUME WorkerInv, NEW w \in Workers,
         \A u \in Workers \ {w} : /\ wpc'[u] = wpc[u] /\ pc'[u] = pc[u] /\ ppc'[u] = ppc[u]
                                  /\ held'[u] = held[u] /\ arg'[u] = arg[u] /\ left'[u] = left[u],
         WorkerOK(w)'
  PROVE  WorkerInv'
<1>1. ASSUME NEW u \in Workers \ {w} PROVE WorkerOK(u)'
  <2>1. Carries(u)' <=> Carries(u)
    BY DEF Carries
  <2> QED
    BY <2>1 DEF WorkerInv, WorkerOK
<1> QED
  BY <1>1 DEF WorkerInv

(* Where ring, held and the pool do not change, nor the worker's place.    *)
LEMMA RingStepKeeps ==
  ASSUME RuntimeInv, Ring!TypeOK', WorkerInv',
         UNCHANGED <<ring, held, poolOnly, threads, next_sequence_, counters, workerVars, consumed>>
  PROVE  RuntimeInv'
<1> USE DEF poolOnly, counters, workerVars
<1>1. TypeOK'
  <2>1. TypeOK /\ Pool!TypeOK' /\ UNCHANGED threads
    BY PoolTypesKept DEF RuntimeInv, TypeOK
  <2>2. /\ next_sequence_' \in Sequences \cup {Cardinality(Workers) * (MaxOps + 1) + 1}
        /\ pushed_' \in Nat /\ popped_' \in Nat /\ wpc' \in [Workers -> Places]
        /\ left' \in [Workers -> 0 .. MaxOps] /\ sequence' \in [Workers -> {0} \cup Sequences]
        /\ consumed' \subseteq Sequences \cup {Blank}
    BY <2>1 DEF TypeOK, Places
  <2> QED
    BY <2>1, <2>2, WorkerTypesKept
<1>2. ThreadsInv'
  BY ThreadsKept DEF RuntimeInv
<1>3. OwnerInv'
  BY OwnerKept DEF RuntimeInv, Pool!Uses
<1>4. SequenceInv'
  <2>1. \A s \in PoolSlots : Loaded(s)' => Loaded(s)
    BY DEF Loaded, Published
  <2> QED
    BY <2>1, SequenceKept DEF RuntimeInv, Numbered
<1>5. CountersConserve'
  BY CountKept DEF RuntimeInv
<1>6. BudgetInv'
  BY DEF RuntimeInv, BudgetInv, Owed, StillTakes
<1> QED
  BY <1>1, <1>2, <1>3, <1>4, <1>5, <1>6 DEF RuntimeInv

-----------------------------------------------------------------------------
(* Steps of the ring that only look, or move cursors.                      *)

LEMMA PushBeginKeeps ==
  ASSUME RuntimeInv, NEW w \in Workers, wpc[w] = "push", NEW s \in held[w], Ring!PushBegin(w, s),
         UNCHANGED <<poolOnly, threads, next_sequence_, counters, workerVars, consumed>>
  PROVE  RuntimeInv'
<1>1. Ring!TypeOK /\ s \in PoolSlots /\ pc[w] = "idle"
  BY ThreadsAreWorkers DEF RuntimeInv, TypeOK, Ring!TypeOK, Ring!PushBegin, Ring!Enter
<1>2. /\ pc' = [pc EXCEPT ![w] = "push"] /\ arg' = [arg EXCEPT ![w] = s]
      /\ slot' = [slot EXCEPT ![w] = Ring!Wrap(post_cursor)]
      /\ post_cursor' = Ring!Advance(post_cursor)
      /\ UNCHANGED <<ring, pop_cursor, held, probe>>
  BY DEF Ring!PushBegin, Ring!Enter
<1>3. Ring!TypeOK'
  BY <1>1, <1>2, CursorFacts, ThreadsAreWorkers DEF Ring!TypeOK
<1>4. WorkerInv'
  <2>1. /\ pc'[w] = "push" /\ arg'[w] = s
        /\ \A u \in Workers \ {w} : pc'[u] = pc[u] /\ arg'[u] = arg[u]
    BY <1>1, <1>2, ThreadsAreWorkers DEF Ring!TypeOK
  <2>2. WorkerOK(w) /\ WorkerInv
    BY DEF RuntimeInv, WorkerInv
  <2>3. UNCHANGED <<wpc, ppc, left, held>>
    BY <1>2 DEF poolOnly, workerVars
  <2>4. WorkerOK(w)'
    BY <2>1, <2>2, <2>3 DEF WorkerOK, Carries
  <2> QED
    BY <2>1, <2>2, <2>3, <2>4, WorkerMoves
<1> QED
  BY <1>2, <1>3, <1>4, RingStepKeeps

LEMMA PushProbeKeeps ==
  ASSUME RuntimeInv, NEW w \in Workers, wpc[w] = "push", Ring!PushProbe(w),
         UNCHANGED <<poolOnly, threads, next_sequence_, counters, workerVars, consumed>>
  PROVE  RuntimeInv'
<1>1. Ring!TypeOK
  BY DEF RuntimeInv, TypeOK
<1>2. /\ slot' = [slot EXCEPT ![w] = Ring!Wrap(slot[w] + 1)]
      /\ UNCHANGED <<ring, post_cursor, pop_cursor, held, pc, arg, probe>>
  BY <1>1, ThreadsAreWorkers DEF Ring!PushProbe, Ring!TypeOK
<1>3. Ring!TypeOK'
  <2>1. Ring!Wrap(slot[w] + 1) \in RingSlots
    BY <1>1, CursorFacts, ThreadsAreWorkers DEF Ring!TypeOK
  <2> QED
    BY <1>1, <1>2, <2>1, CursorFacts, ThreadsAreWorkers DEF Ring!TypeOK
<1>4. WorkerInv'
  BY <1>2 DEF RuntimeInv, WorkerInv, WorkerOK, Carries, poolOnly, workerVars
<1> QED
  BY <1>2, <1>3, <1>4, RingStepKeeps

LEMMA TryLooksKeeps ==
  ASSUME RuntimeInv, NEW w \in Workers, wpc[w] = "poll",
         Ring!TryBegin(w) \/ Ring!TryProbe(w) \/ Ring!TryEmpty(w),
         UNCHANGED <<poolOnly, threads, next_sequence_, counters, workerVars, consumed>>
  PROVE  RuntimeInv'
<1>1. Ring!TypeOK
  BY DEF RuntimeInv, TypeOK
<1> USE <1>1, ThreadsAreWorkers
<1>2. /\ UNCHANGED <<ring, post_cursor, pop_cursor, held>>
      /\ pc[w] \in {"idle", "try"} /\ pc'[w] \in {"idle", "try"}
      /\ \A u \in Workers \ {w} : pc'[u] = pc[u] /\ arg'[u] = arg[u]
  BY DEF Ring!TryBegin, Ring!TryProbe, Ring!TryEmpty, Ring!Enter, Ring!Return, Ring!TypeOK
<1>3. Ring!TypeOK'
  <2>1. CASE Ring!TryBegin(w)
    <3>1. /\ pc' = [pc EXCEPT ![w] = "try"] /\ slot' = [slot EXCEPT ![w] = pop_cursor]
          /\ probe' = [probe EXCEPT ![w] = 0]
          /\ UNCHANGED <<ring, post_cursor, pop_cursor, held, arg>>
      BY <2>1 DEF Ring!TryBegin, Ring!Enter
    <3> QED
      BY <3>1 DEF Ring!TypeOK
  <2>2. CASE Ring!TryProbe(w)
    BY <2>2 DEF Ring!TryProbe, Ring!TypeOK
  <2>3. CASE Ring!TryEmpty(w)
    BY <2>3, CursorFacts DEF Ring!TryEmpty, Ring!Return, Ring!TypeOK
  <2> QED
    BY <2>1, <2>2, <2>3
<1>4. WorkerInv'
  <2>1. WorkerOK(w) /\ WorkerInv
    BY DEF RuntimeInv, WorkerInv
  <2>2. UNCHANGED <<wpc, ppc, left, held>>
    BY <1>2 DEF poolOnly, workerVars
  <2>3. WorkerOK(w)'
    BY <1>2, <2>1, <2>2 DEF WorkerOK, Carries
  <2> QED
    BY <1>2, <2>1, <2>2, <2>3, WorkerMoves
<1> QED
  BY <1>2, <1>3, <1>4, RingStepKeeps

-----------------------------------------------------------------------------
(* Steps of the ring that hand a message over.                             *)

(* The compare-exchange of push publishes the message its worker holds.    *)
LEMMA PushStoreKeeps ==
  ASSUME RuntimeInv, NEW w \in Workers, wpc[w] = "push", Ring!PushStore(w), Goto(w, "pushed"),
         UNCHANGED <<poolOnly, threads, next_sequence_, counters, left, sequence, consumed>>
  PROVE  RuntimeInv'
<1> DEFINE m == arg[w]
           i == slot[w]
<1>1. /\ TypeOK /\ Ring!TypeOK /\ WorkerInv /\ WorkerOK(w)
  BY DEF RuntimeInv, TypeOK, WorkerInv
<1>2. /\ pc[w] = "push" /\ i \in RingSlots /\ m \in PoolSlots /\ held[w] = {m}
  BY <1>1, CursorFacts, ThreadsAreWorkers
     DEF Ring!TypeOK, Ring!PushStore, WorkerOK, Carries
<1>3. /\ ring[i] = NoMsg /\ ring' = [ring EXCEPT ![i] = m]
      /\ held' = [held EXCEPT ![w] = held[w] \ {m}]
      /\ pc' = [pc EXCEPT ![w] = "idle"] /\ arg' = [arg EXCEPT ![w] = NoMsg]
      /\ slot' = [slot EXCEPT ![w] = 0] /\ probe' = [probe EXCEPT ![w] = 0]
      /\ wpc' = [wpc EXCEPT ![w] = "pushed"]
      /\ UNCHANGED <<post_cursor, pop_cursor>>
  BY <1>1, ThreadsAreWorkers DEF Ring!PushStore, Ring!Return, Goto, Ring!TypeOK
<1>4. /\ UNCHANGED <<state, payload, ppc, scan, pushed_, popped_>>
  BY DEF poolOnly, counters
<1>5. Ring!TypeOK'
  BY <1>1, <1>2, <1>3, CursorFacts, ThreadsAreWorkers DEF Ring!TypeOK
<1>6. /\ ring'[i] = m /\ \A j \in RingSlots \ {i} : ring'[j] = ring[j]
      /\ held'[w] = {} /\ \A u \in Workers \ {w} : held'[u] = held[u]
      /\ pc'[w] = "idle" /\ wpc'[w] = "pushed"
      /\ \A u \in Workers \ {w} : wpc'[u] = wpc[u] /\ pc'[u] = pc[u] /\ arg'[u] = arg[u]
  BY <1>1, <1>2, <1>3, CursorFacts, ThreadsAreWorkers DEF Ring!TypeOK, TypeOK
<1>7. ppc[w] = "idle" /\ Pool!Uses(w, m)
  BY <1>1, <1>2 DEF WorkerOK, Pool!Uses, Ring!TypeOK, TypeOK, Pool!TypeOK
<1>8. m \notin Published /\ m # NoMsg
  BY <1>2, <1>7 DEF RuntimeInv, OwnerInv
<1>9. Published' = Published \cup {m}
  BY <1>2, <1>3, <1>6, <1>8 DEF Published, RingSlots
<1> HIDE DEF m, i
<1>10. TypeOK'
  <2>1. Pool!TypeOK'
    <3>1. held' \in [Workers -> SUBSET PoolSlots]
      BY <1>1, <1>5, ThreadsAreWorkers DEF Ring!TypeOK
    <3> QED
      BY <1>1, <1>4, <3>1 DEF TypeOK, Pool!TypeOK, Pool!PoolSlots, PoolSlots
  <2>2. /\ next_sequence_' \in Sequences \cup {Cardinality(Workers) * (MaxOps + 1) + 1}
        /\ pushed_' \in Nat /\ popped_' \in Nat /\ wpc' \in [Workers -> Places]
        /\ left' \in [Workers -> 0 .. MaxOps] /\ sequence' \in [Workers -> {0} \cup Sequences]
        /\ consumed' \subseteq Sequences \cup {Blank}
    BY <1>1, <1>3, <1>4 DEF TypeOK, Places
  <2> QED
    BY <1>1, <1>5, <2>1, <2>2, WorkerTypesKept
<1>11. ThreadsInv'
  BY <1>6, ThreadsKept DEF RuntimeInv
<1>12. WorkerInv'
  <2>1. WorkerOK(w)'
    BY <1>1, <1>4, <1>6, <1>7 DEF WorkerOK, Carries, Working
  <2> QED
    BY <1>1, <1>4, <1>6, <2>1, WorkerMoves
<1>13. OwnerInv'
  <2>1. \A s \in PoolSlots, u \in Workers :
          Pool!Uses(u, s)' <=> Pool!Uses(u, s) /\ ~(u = w /\ s = m)
    BY <1>2, <1>4, <1>6, <1>7 DEF Pool!Uses
  <2>2. \A j, k \in 0 .. Capacity - 1 : ring'[j] = ring'[k] /\ ring'[j] # NoMsg => j = k
    <3>1. \A j \in RingSlots : ring[j] # m
      BY <1>8 DEF Published, RingSlots
    <3> QED
      BY <1>6, <3>1 DEF RuntimeInv, OwnerInv, RingSlots
  <2>3. \A s \in PoolSlots, u, v \in Workers : Pool!Uses(u, s)' /\ Pool!Uses(v, s)' => u = v
    BY <2>1 DEF RuntimeInv, OwnerInv
  <2>4. \A u \in Workers : Pool!Uses(u, m) => u = w
    BY <1>2, <1>7 DEF RuntimeInv, OwnerInv
  <2>5. \A s \in PoolSlots, u \in Workers : s \in Published' => ~Pool!Uses(u, s)'
    BY <1>9, <2>1, <2>4 DEF RuntimeInv, OwnerInv
  <2>6. \A s \in PoolSlots :
          state'[s] = Pool!Acquired <=> (s \in Published' \/ \E u \in Workers : Pool!Uses(u, s)')
    BY <1>2, <1>4, <1>7, <1>9, <2>1 DEF RuntimeInv, OwnerInv
  <2> QED
    BY <2>2, <2>3, <2>5, <2>6 DEF OwnerInv, Pool!Acquired
<1>14. SequenceInv'
  <2>1. \A s \in PoolSlots : Loaded(s)' => Loaded(s)
    BY <1>2, <1>6, <1>9 DEF Loaded
  <2>2. \A u \in Workers : Numbered(u)' => Numbered(u) /\ sequence'[u] = sequence[u]
    BY <1>6 DEF Numbered
  <2> QED
    BY <1>4, <2>1, <2>2, SequenceKept DEF RuntimeInv
<1>15. CountersConserve'
  <2>1. Doing("pushed")' = Doing("pushed") \cup {w} /\ w \notin Doing("pushed")
    BY <1>6 DEF Doing
  <2>2. Doing("popped")' = Doing("popped") /\ InHand' = InHand
    BY <1>6 DEF Doing, InHand
  <2>3. /\ Cardinality(Doing("pushed")') = Cardinality(Doing("pushed")) + 1
        /\ Cardinality(Published') = Cardinality(Published) + 1
    BY <1>1, <1>8, <1>9, <2>1, OneMore, CountingSetsAreFinite
  <2>4. pushed_ + Cardinality(Doing("pushed")) =
          popped_ + Cardinality(Doing("popped")) + Cardinality(Published) + Cardinality(InHand)
    BY CountingUnfolded DEF RuntimeInv
  <2>5. pushed_' + Cardinality(Doing("pushed")') =
          popped_' + Cardinality(Doing("popped")') + Cardinality(Published') + Cardinality(InHand')
    BY <1>1, <1>4, <2>2, <2>3, <2>4, CountingSetsAreFinite DEF TypeOK
  <2> QED
    BY <2>5 DEF CountersConserve, Count, Doing, InHand
<1>16. BudgetInv'
  <2>1. \A u \in Workers : StillTakes(u)' = StillTakes(u)
    BY <1>6 DEF StillTakes
  <2>2. Owed' = Owed
    BY <2>1 DEF Owed
  <2> QED
    BY <2>2 DEF RuntimeInv, BudgetInv
<1> QED
  BY <1>10, <1>11, <1>12, <1>13, <1>14, <1>15, <1>16 DEF RuntimeInv

(* The exchange of try_pop takes the message out of the slot.              *)
LEMMA TryTakeKeeps ==
  ASSUME RuntimeInv, NEW w \in Workers, wpc[w] = "poll", Ring!TryTake(w),
         UNCHANGED <<poolOnly, threads, next_sequence_, counters, workerVars, consumed>>
  PROVE  RuntimeInv'
<1> DEFINE i == Ring!TrySlot(w)
           m == ring[i]
<1>1. /\ TypeOK /\ Ring!TypeOK /\ WorkerInv /\ WorkerOK(w)
  BY DEF RuntimeInv, TypeOK, WorkerInv
<1>2. /\ pc[w] = "try" /\ i \in RingSlots /\ m \in PoolSlots /\ m # NoMsg /\ held[w] = {}
  <2>1. i \in RingSlots
    BY <1>1, CursorFacts, ThreadsAreWorkers DEF Ring!TrySlot, Ring!TypeOK
  <2> QED
    BY <1>1, <2>1, CursorFacts
       DEF Ring!TypeOK, Ring!TryTake, Ring!TakeFrom, WorkerOK, Carries
<1>3. /\ ring' = [ring EXCEPT ![i] = NoMsg] /\ held' = [held EXCEPT ![w] = held[w] \cup {m}]
      /\ pc' = [pc EXCEPT ![w] = "store"] /\ slot' = [slot EXCEPT ![w] = i]
      /\ probe' = [probe EXCEPT ![w] = 0]
      /\ UNCHANGED <<post_cursor, pop_cursor, arg>>
  BY <1>1, ThreadsAreWorkers DEF Ring!TryTake, Ring!TakeFrom, Ring!TypeOK
<1> HIDE DEF i
<1>4. /\ UNCHANGED <<state, payload, ppc, scan, pushed_, popped_, wpc, left, sequence>>
  BY DEF poolOnly, counters, workerVars
<1>5. Ring!TypeOK'
  BY <1>1, <1>2, <1>3, CursorFacts, ThreadsAreWorkers DEF Ring!TypeOK
<1>6. /\ ring'[i] = NoMsg /\ \A j \in RingSlots \ {i} : ring'[j] = ring[j]
      /\ held'[w] = {m} /\ \A u \in Workers \ {w} : held'[u] = held[u]
      /\ pc'[w] = "store" /\ \A u \in Workers \ {w} : pc'[u] = pc[u]
  BY <1>1, <1>2, <1>3, CursorFacts, ThreadsAreWorkers DEF Ring!TypeOK
<1>7. ppc[w] = "idle" /\ m \in Published
  BY <1>1, <1>2 DEF WorkerOK, Published, RingSlots, TypeOK, Pool!TypeOK
<1>8. \A j \in RingSlots : ring[j] = m => j = i
  BY <1>2 DEF RuntimeInv, OwnerInv, RingSlots
<1>9. Published' = Published \ {m}
  BY <1>2, <1>6, <1>8 DEF Published, RingSlots
<1> HIDE DEF m
<1>10. TypeOK'
  <2>1. Pool!TypeOK'
    <3>1. held' \in [Workers -> SUBSET PoolSlots]
      BY <1>1, <1>5, ThreadsAreWorkers DEF Ring!TypeOK
    <3> QED
      BY <1>1, <1>4, <3>1 DEF TypeOK, Pool!TypeOK, Pool!PoolSlots, PoolSlots
  <2>2. /\ next_sequence_' \in Sequences \cup {Cardinality(Workers) * (MaxOps + 1) + 1}
        /\ pushed_' \in Nat /\ popped_' \in Nat /\ wpc' \in [Workers -> Places]
        /\ left' \in [Workers -> 0 .. MaxOps] /\ sequence' \in [Workers -> {0} \cup Sequences]
        /\ consumed' \subseteq Sequences \cup {Blank}
    BY <1>1, <1>4 DEF TypeOK, Places
  <2> QED
    BY <1>1, <1>5, <2>1, <2>2, WorkerTypesKept
<1>11. ThreadsInv'
  BY <1>4, ThreadsKept DEF RuntimeInv
<1>12. WorkerInv'
  <2>1. WorkerOK(w)'
    BY <1>1, <1>2, <1>4, <1>6 DEF WorkerOK, Carries
  <2> QED
    BY <1>1, <1>3, <1>4, <1>6, <2>1, WorkerMoves
<1>13. OwnerInv'
  <2>1. \A s \in PoolSlots, u \in Workers :
          Pool!Uses(u, s)' <=> Pool!Uses(u, s) \/ (u = w /\ s = m)
    BY <1>2, <1>4, <1>6, <1>7 DEF Pool!Uses
  <2>2. \A j, k \in 0 .. Capacity - 1 : ring'[j] = ring'[k] /\ ring'[j] # NoMsg => j = k
    BY <1>6 DEF RuntimeInv, OwnerInv, RingSlots
  <2>3. \A u \in Workers : ~Pool!Uses(u, m)
    BY <1>2, <1>7 DEF RuntimeInv, OwnerInv
  <2>4. \A s \in PoolSlots, u, v \in Workers : Pool!Uses(u, s)' /\ Pool!Uses(v, s)' => u = v
    BY <2>1, <2>3 DEF RuntimeInv, OwnerInv
  <2>5. \A s \in PoolSlots, u \in Workers : s \in Published' => ~Pool!Uses(u, s)'
    BY <1>9, <2>1 DEF RuntimeInv, OwnerInv
  <2>6. \A s \in PoolSlots :
          state'[s] = Pool!Acquired <=> (s \in Published' \/ \E u \in Workers : Pool!Uses(u, s)')
    BY <1>2, <1>4, <1>7, <1>9, <2>1 DEF RuntimeInv, OwnerInv
  <2> QED
    BY <2>2, <2>4, <2>5, <2>6 DEF OwnerInv, Pool!Acquired
<1>14. SequenceInv'
  <2>1. \A s \in PoolSlots : Loaded(s)' => Loaded(s)
    BY <1>4, <1>6, <1>7, <1>9 DEF Loaded
  <2>2. \A u \in Workers : Numbered(u)' => Numbered(u) /\ sequence'[u] = sequence[u]
    BY <1>4 DEF Numbered
  <2> QED
    BY <1>4, <2>1, <2>2, SequenceKept DEF RuntimeInv
<1>15. CountersConserve'
  <2>1. InHand' = InHand \cup {w} /\ w \notin InHand
    BY <1>2, <1>4, <1>6 DEF InHand
  <2>2. Doing("popped")' = Doing("popped") /\ Doing("pushed")' = Doing("pushed")
    BY <1>4 DEF Doing
  <2>3. /\ Cardinality(InHand') = Cardinality(InHand) + 1
        /\ Cardinality(Published') = Cardinality(Published) - 1
    BY <1>1, <1>7, <1>9, <2>1, OneMore, OneFewer, CountingSetsAreFinite
  <2>4. pushed_ + Cardinality(Doing("pushed")) =
          popped_ + Cardinality(Doing("popped")) + Cardinality(Published) + Cardinality(InHand)
    BY CountingUnfolded DEF RuntimeInv
  <2>5. pushed_' + Cardinality(Doing("pushed")') =
          popped_' + Cardinality(Doing("popped")') + Cardinality(Published') + Cardinality(InHand')
    BY <1>1, <1>4, <2>2, <2>3, <2>4, CountingSetsAreFinite DEF TypeOK
  <2> QED
    BY <2>5 DEF CountersConserve, Count, Doing, InHand
<1>16. BudgetInv'
  BY <1>4 DEF RuntimeInv, BudgetInv, Owed, StillTakes
<1> QED
  BY <1>10, <1>11, <1>12, <1>13, <1>14, <1>15, <1>16 DEF RuntimeInv

-----------------------------------------------------------------------------
(* Steps of the pool and of the worker's own loop.                         *)

LEMMA HeldTypes ==
  ASSUME TypeOK, held' \in [Workers -> SUBSET PoolSlots]
  PROVE  /\ UNCHANGED ringOnly => Ring!TypeOK'
         /\ UNCHANGED poolOnly => Pool!TypeOK'
  BY ThreadsAreWorkers
     DEF TypeOK, Ring!TypeOK, Pool!TypeOK, ringOnly, poolOnly, Pool!PoolSlots, PoolSlots

(* try_pop writes the cursor and returns the message it took.              *)
LEMMA TryStoreKeeps ==
  ASSUME RuntimeInv, NEW w \in Workers, wpc[w] = "poll", Ring!TryStore(w), Goto(w, "use"),
         UNCHANGED <<poolOnly, threads, next_sequence_, counters, left, sequence, consumed>>
  PROVE  RuntimeInv'
<1>1. /\ TypeOK /\ Ring!TypeOK /\ WorkerInv /\ WorkerOK(w)
  BY DEF RuntimeInv, TypeOK, WorkerInv
<1>2. /\ pc[w] = "store" /\ pop_cursor' = Ring!Wrap(slot[w] + 1)
      /\ pc' = [pc EXCEPT ![w] = "idle"] /\ arg' = [arg EXCEPT ![w] = NoMsg]
      /\ slot' = [slot EXCEPT ![w] = 0] /\ probe' = [probe EXCEPT ![w] = 0]
      /\ wpc' = [wpc EXCEPT ![w] = "use"]
      /\ UNCHANGED <<ring, post_cursor, held>>
  BY DEF Ring!TryStore, Ring!Return, Goto
<1>3. /\ UNCHANGED <<state, payload, ppc, scan, pushed_, popped_>>
  BY DEF poolOnly, counters
<1>4. Ring!TypeOK'
  <2>1. pop_cursor' \in Ring!Cursors
    BY <1>1, <1>2, CursorFacts, ThreadsAreWorkers DEF Ring!TypeOK
  <2> QED
    BY <1>1, <1>2, <2>1, CursorFacts, ThreadsAreWorkers DEF Ring!TypeOK
<1>5. /\ pc'[w] = "idle" /\ wpc'[w] = "use"
      /\ \A u \in Workers \ {w} : wpc'[u] = wpc[u] /\ pc'[u] = pc[u] /\ arg'[u] = arg[u]
  BY <1>1, <1>2, ThreadsAreWorkers DEF Ring!TypeOK, TypeOK
<1>6. TypeOK'
  <2>1. Pool!TypeOK'
    BY <1>1, <1>2, PoolTypesKept DEF TypeOK
  <2>2. /\ next_sequence_' \in Sequences \cup {Cardinality(Workers) * (MaxOps + 1) + 1}
        /\ pushed_' \in Nat /\ popped_' \in Nat /\ wpc' \in [Workers -> Places]
        /\ left' \in [Workers -> 0 .. MaxOps] /\ sequence' \in [Workers -> {0} \cup Sequences]
        /\ consumed' \subseteq Sequences \cup {Blank}
    BY <1>1, <1>2, <1>3 DEF TypeOK, Places
  <2> QED
    BY <1>1, <1>4, <2>1, <2>2, WorkerTypesKept
<1>7. ThreadsInv'
  BY <1>5, ThreadsKept DEF RuntimeInv
<1>8. WorkerInv'
  <2>1. WorkerOK(w)'
    BY <1>1, <1>2, <1>3, <1>5 DEF WorkerOK, Carries, Working
  <2> QED
    BY <1>1, <1>2, <1>3, <1>5, <2>1, WorkerMoves
<1>9. OwnerInv'
  BY <1>2, <1>3, OwnerKept DEF RuntimeInv, Pool!Uses
<1>10. SequenceInv'
  <2>1. \A s \in PoolSlots : Loaded(s)' => Loaded(s)
    BY <1>2, <1>5 DEF Loaded, Published
  <2>2. \A u \in Workers : Numbered(u)' => Numbered(u) /\ sequence'[u] = sequence[u]
    BY <1>5 DEF Numbered
  <2> QED
    BY <1>3, <2>1, <2>2, SequenceKept DEF RuntimeInv
<1>11. CountersConserve'
  <2>1. \A u \in Workers : /\ wpc'[u] = "pushed" <=> wpc[u] = "pushed"
                           /\ wpc'[u] = "popped" <=> wpc[u] = "popped"
                           /\ (wpc'[u] \in {"poll", "use"} /\ held'[u] # {})
                                <=> (wpc[u] \in {"poll", "use"} /\ held[u] # {})
    BY <1>2, <1>5
  <2> QED
    BY <1>2, <1>3, <2>1, CountKept DEF RuntimeInv
<1>12. BudgetInv'
  <2>1. \A u \in Workers : StillTakes(u)' = StillTakes(u)
    BY <1>5 DEF StillTakes
  <2>2. Owed' = Owed
    BY <2>1 DEF Owed
  <2> QED
    BY <2>2 DEF RuntimeInv, BudgetInv
<1> QED
  BY <1>6, <1>7, <1>8, <1>9, <1>10, <1>11, <1>12 DEF RuntimeInv

(* A producer takes a number and enters acquire.                           *)
LEMMA ProduceBeginKeeps ==
  ASSUME RuntimeInv, NEW w \in Workers, ProduceBegin(w)
  PROVE  RuntimeInv'
<1>1. /\ TypeOK /\ WorkerInv /\ WorkerOK(w) /\ SequenceInv
  BY DEF RuntimeInv, TypeOK, WorkerInv
<1>2. /\ wpc[w] = "produce" /\ sequence' = [sequence EXCEPT ![w] = next_sequence_]
      /\ next_sequence_' = next_sequence_ + 1 /\ wpc' = [wpc EXCEPT ![w] = "acquire"]
      /\ ppc' = [ppc EXCEPT ![w] = "scan"] /\ scan' = [scan EXCEPT ![w] = 0]
      /\ UNCHANGED <<state, payload, held, ringOnly, threads, counters, left, consumed>>
  BY DEF ProduceBegin, Pool!AcquireBegin, At, Goto
<1>3. /\ wpc'[w] = "acquire" /\ ppc'[w] = "scan" /\ sequence'[w] = next_sequence_
      /\ \A u \in Workers \ {w} : wpc'[u] = wpc[u] /\ ppc'[u] = ppc[u] /\ scan'[u] = scan[u]
                                    /\ sequence'[u] = sequence[u]
  BY <1>1, <1>2 DEF TypeOK, Pool!TypeOK
<1>4. /\ ppc[w] = "idle" /\ held[w] = {} /\ left[w] > 0
  BY <1>1, <1>2 DEF WorkerOK, Carries, Working, TypeOK, Pool!TypeOK
<1>5. /\ BudgetInv' /\ next_sequence_ \in Sequences
      /\ next_sequence_' \in Sequences \cup {Cardinality(Workers) * (MaxOps + 1) + 1}
  <2>1. \A u \in Workers : left[u] \in 0 .. MaxOps
    BY <1>1 DEF TypeOK
  <2>2. \A u \in Workers : StillTakes(u) \in 0 .. MaxOps + 1
    BY <1>1, <2>1 DEF StillTakes, WorkerInv, WorkerOK, Working
  <2>3. \A u \in Workers \ {w} : StillTakes(u)' = StillTakes(u)
    BY <1>2, <1>3 DEF StillTakes
  <2>4. StillTakes(w)' \in Nat /\ StillTakes(w)' < StillTakes(w)
    BY <1>2, <1>3, <1>4, <2>1 DEF StillTakes
  <2>5. \A u \in Workers : StillTakes(u)' \in Nat /\ StillTakes(u)' <= StillTakes(u)
    BY <2>2, <2>3, <2>4
  <2>6. next_sequence_ \in Nat \ {0}
    BY <1>1, WholeBudget DEF TypeOK, Sequences
  <2>7. BudgetInv /\ next_sequence_' = next_sequence_ + 1
    BY <1>2 DEF RuntimeInv
  <2> QED
    BY <2>2, <2>4, <2>5, <2>6, <2>7, BudgetTaken
<1>6. TypeOK'
  <2>1. Ring!TypeOK'
    BY <1>1, <1>2, RingTypesKept DEF TypeOK
  <2>2. Pool!TypeOK'
    BY <1>1, <1>2, <1>3 DEF TypeOK, Pool!TypeOK
  <2>3. /\ pushed_' \in Nat /\ popped_' \in Nat /\ wpc' \in [Workers -> Places]
        /\ left' \in [Workers -> 0 .. MaxOps] /\ sequence' \in [Workers -> {0} \cup Sequences]
        /\ consumed' \subseteq Sequences \cup {Blank}
    BY <1>1, <1>2, <1>5 DEF TypeOK, Places, counters
  <2> QED
    BY <1>1, <1>2, <1>5, <2>1, <2>2, <2>3, WorkerTypesKept
<1>7. ThreadsInv'
  BY <1>2, <1>3, ThreadsKept DEF RuntimeInv
<1>8. WorkerInv'
  <2>1. UNCHANGED <<pc, arg, held, left>>
    BY <1>2 DEF ringOnly
  <2>2. WorkerOK(w)'
    BY <1>1, <1>2, <1>3, <1>4, <2>1 DEF WorkerOK, Carries, Working
  <2> QED
    BY <1>1, <1>3, <2>1, <2>2, WorkerMoves
<1>9. OwnerInv'
  <2>1. \A s \in PoolSlots, u \in Workers : Pool!Uses(u, s)' <=> Pool!Uses(u, s)
    BY <1>2, <1>3, <1>4 DEF Pool!Uses
  <2>2. UNCHANGED <<ring, state>>
    BY <1>2 DEF ringOnly
  <2> QED
    BY <2>1, <2>2, OwnerKept DEF RuntimeInv
<1>10. SequenceInv'
  <2>1. \A s \in PoolSlots : Loaded(s)' => Loaded(s)
    BY <1>2, <1>3 DEF Loaded, Published, ringOnly
  <2>2. next_sequence_ \in Nat \ {0}
    BY <1>1, WholeBudget DEF TypeOK, Sequences
  <2>3. /\ Taken \subseteq Taken' /\ next_sequence_ \in Taken' /\ next_sequence_ \notin Taken
    BY <1>2, <2>2 DEF Taken
  <2>4. consumed' \subseteq Taken' /\ next_sequence_ \notin consumed
    BY <1>1, <1>2, <2>3 DEF SequenceInv
  <2>5. \A u \in Workers : Numbered(u)' => sequence'[u] \in Taken' \ consumed'
    BY <1>1, <1>2, <1>3, <2>3, <2>4 DEF SequenceInv, Numbered
  <2>6. \A u \in Workers \ {w} : Numbered(u)' => sequence'[u] # next_sequence_
    BY <1>1, <1>3, <2>3 DEF SequenceInv, Numbered
  <2>7. \A u, v \in Workers :
          Numbered(u)' /\ Numbered(v)' /\ sequence'[u] = sequence'[v] => u = v
    BY <1>1, <1>3, <2>6 DEF SequenceInv, Numbered
  <2>8. \A s \in PoolSlots : Loaded(s)' => payload'[s] \in Taken \ consumed
    BY <1>1, <1>2, <2>1 DEF SequenceInv
  <2>9. \A s \in PoolSlots : Loaded(s)' => payload'[s] \in Taken' \ consumed'
    BY <1>2, <2>3, <2>8
  <2>10. \A s \in PoolSlots, u \in Workers :
           Loaded(s)' /\ Numbered(u)' => payload'[s] # sequence'[u]
    BY <1>1, <1>2, <1>3, <2>1, <2>3, <2>8 DEF SequenceInv, Numbered
  <2>11. \A s, r \in PoolSlots : Loaded(s)' /\ Loaded(r)' /\ payload'[s] = payload'[r] => s = r
    BY <1>1, <1>2, <2>1 DEF SequenceInv
  <2> QED
    BY <2>4, <2>5, <2>7, <2>9, <2>10, <2>11 DEF SequenceInv
<1>11. CountersConserve'
  <2>1. \A u \in Workers : /\ wpc'[u] = "pushed" <=> wpc[u] = "pushed"
                           /\ wpc'[u] = "popped" <=> wpc[u] = "popped"
                           /\ (wpc'[u] \in {"poll", "use"} /\ held'[u] # {})
                                <=> (wpc[u] \in {"poll", "use"} /\ held[u] # {})
    BY <1>2, <1>3
  <2> QED
    BY <1>2, <2>1, CountKept DEF RuntimeInv, counters, ringOnly
<1> QED
  BY <1>5, <1>6, <1>7, <1>8, <1>9, <1>10, <1>11 DEF RuntimeInv

(* The parts that steps inside acquire do not reach: all those that        *)
(* neither the ring nor the numbers enter.                                 *)
LEMMA InsideAcquireKeeps ==
  ASSUME RuntimeInv, NEW w \in Workers, wpc[w] = "acquire",
         UNCHANGED <<ringOnly, held, payload, threads, next_sequence_, counters, workerVars, consumed>>,
         ppc'[w] # "idle", \A u \in Workers \ {w} : ppc'[u] = ppc[u],
         Pool!TypeOK', OwnerInv'
  PROVE  RuntimeInv'
<1> USE DEF ringOnly, counters, workerVars
<1>1. TypeOK'
  <2>1. TypeOK /\ Ring!TypeOK'
    BY RingTypesKept DEF RuntimeInv, TypeOK
  <2>2. /\ next_sequence_' \in Sequences \cup {Cardinality(Workers) * (MaxOps + 1) + 1}
        /\ pushed_' \in Nat /\ popped_' \in Nat /\ wpc' \in [Workers -> Places]
        /\ left' \in [Workers -> 0 .. MaxOps] /\ sequence' \in [Workers -> {0} \cup Sequences]
        /\ consumed' \subseteq Sequences \cup {Blank}
    BY <2>1 DEF TypeOK, Places
  <2> QED
    BY <2>1, <2>2, WorkerTypesKept
<1>2. ThreadsInv'
  BY ThreadsKept DEF RuntimeInv
<1>3. WorkerInv'
  <2>1. WorkerInv /\ WorkerOK(w)
    BY DEF RuntimeInv, WorkerInv
  <2>2. WorkerOK(w)'
    BY <2>1 DEF WorkerOK, Carries, Working
  <2> QED
    BY <2>1, <2>2, WorkerMoves
<1>4. SequenceInv'
  <2>1. \A s \in PoolSlots : Loaded(s)' => Loaded(s)
    BY DEF Loaded, Published
  <2> QED
    BY <2>1, SequenceKept DEF RuntimeInv, Numbered
<1>5. CountersConserve'
  BY CountKept DEF RuntimeInv
<1>6. BudgetInv'
  BY DEF RuntimeInv, BudgetInv, Owed, StillTakes
<1> QED
  BY <1>1, <1>2, <1>3, <1>4, <1>5, <1>6 DEF RuntimeInv

LEMMA AcquireTakeKeeps ==
  ASSUME RuntimeInv, NEW w \in Workers, wpc[w] = "acquire", Pool!AcquireTake(w),
         UNCHANGED <<ringOnly, threads, next_sequence_, counters, workerVars, consumed>>
  PROVE  RuntimeInv'
<1> DEFINE m == scan[w]
<1>1. TypeOK /\ Pool!TypeOK /\ OwnerInv
  BY DEF RuntimeInv, TypeOK
<1>2. /\ ppc[w] = "scan" /\ m \in PoolSlots /\ state[m] = 0
      /\ state' = [state EXCEPT ![m] = 1] /\ ppc' = [ppc EXCEPT ![w] = "clear"]
      /\ UNCHANGED <<payload, held, scan>>
  BY <1>1 DEF Pool!AcquireTake, Pool!TypeOK, Pool!Free, Pool!Acquired, PoolSlots
<1>3. Pool!TypeOK'
  BY <1>1, <1>2
     DEF Pool!TypeOK, Pool!Free, Pool!Acquired, Pool!PoolSlots, PoolSlots
<1>4. /\ ppc'[w] = "clear" /\ \A u \in Workers \ {w} : ppc'[u] = ppc[u]
      /\ state'[m] = 1 /\ \A s \in PoolSlots \ {m} : state'[s] = state[s]
  BY <1>1, <1>2 DEF Pool!TypeOK, Pool!PoolSlots, PoolSlots
<1>5. OwnerInv'
  <2>1. \A s \in PoolSlots, u \in Workers :
          Pool!Uses(u, s)' <=> Pool!Uses(u, s) \/ (u = w /\ s = m)
    BY <1>2, <1>4 DEF Pool!Uses
  <2>2. m \notin Published /\ \A u \in Workers : ~Pool!Uses(u, m)
    BY <1>1, <1>2 DEF OwnerInv, Pool!Acquired
  <2>3. Published' = Published /\ ring' = ring
    BY DEF Published, ringOnly
  <2>4. \A s \in PoolSlots, u, v \in Workers : Pool!Uses(u, s)' /\ Pool!Uses(v, s)' => u = v
    BY <1>1, <2>1, <2>2 DEF OwnerInv
  <2>5. \A s \in PoolSlots, u \in Workers : s \in Published' => ~Pool!Uses(u, s)'
    BY <1>1, <2>1, <2>2, <2>3 DEF OwnerInv
  <2>6. \A s \in PoolSlots :
          state'[s] = 1 <=> (s \in Published' \/ \E u \in Workers : Pool!Uses(u, s)')
    BY <1>1, <1>4, <2>1, <2>3 DEF OwnerInv, Pool!Acquired
  <2> QED
    BY <1>1, <2>3, <2>4, <2>5, <2>6 DEF OwnerInv, Pool!Acquired
<1> QED
  BY <1>2, <1>3, <1>4, <1>5, InsideAcquireKeeps

LEMMA AcquireSkipKeeps ==
  ASSUME RuntimeInv, NEW w \in Workers, wpc[w] = "acquire", Pool!AcquireSkip(w),
         UNCHANGED <<ringOnly, threads, next_sequence_, counters, workerVars, consumed>>
  PROVE  RuntimeInv'
<1>1. TypeOK /\ Pool!TypeOK /\ OwnerInv
  BY DEF RuntimeInv, TypeOK
<1>2. /\ ppc[w] = "scan" /\ scan[w] < PoolCap /\ scan' = [scan EXCEPT ![w] = scan[w] + 1]
      /\ UNCHANGED <<state, payload, held, ppc>>
  BY <1>1 DEF Pool!AcquireSkip, Pool!TypeOK
<1>3. Pool!TypeOK'
  BY <1>1, <1>2 DEF Pool!TypeOK
<1>4. OwnerInv'
  <2>1. \A s \in PoolSlots, u \in Workers : Pool!Uses(u, s)' <=> Pool!Uses(u, s)
    BY <1>1, <1>2 DEF Pool!Uses, Pool!TypeOK
  <2> QED
    BY <1>1, <1>2, <2>1, OwnerKept DEF ringOnly
<1> QED
  BY <1>2, <1>3, <1>4, InsideAcquireKeeps

(* The stores that zero the body reach no message that is loaded.          *)
LEMMA AcquireClearKeeps ==
  ASSUME RuntimeInv, NEW w \in Workers, wpc[w] = "acquire", Pool!AcquireClear(w), Goto(w, "fill"),
         UNCHANGED <<ringOnly, threads, next_sequence_, counters, left, sequence, consumed>>
  PROVE  RuntimeInv'
<1> DEFINE m == scan[w]
<1>1. /\ TypeOK /\ Pool!TypeOK /\ OwnerInv /\ WorkerInv /\ WorkerOK(w) /\ SequenceInv
  BY DEF RuntimeInv, TypeOK, WorkerInv
<1>2. /\ ppc[w] = "clear" /\ m \in PoolSlots /\ held[w] = {}
  BY <1>1 DEF Pool!AcquireClear, Pool!TypeOK, WorkerOK, Carries, Pool!PoolSlots, PoolSlots
<1>3. /\ payload' = [payload EXCEPT ![m] = Blank] /\ held' = [held EXCEPT ![w] = held[w] \cup {m}]
      /\ ppc' = [ppc EXCEPT ![w] = "idle"] /\ scan' = [scan EXCEPT ![w] = 0]
      /\ wpc' = [wpc EXCEPT ![w] = "fill"] /\ UNCHANGED <<state, pushed_, popped_>>
  BY <1>1 DEF Pool!AcquireClear, Goto, Pool!TypeOK, counters
<1>4. /\ ppc'[w] = "idle" /\ wpc'[w] = "fill" /\ held'[w] = {m}
      /\ \A u \in Workers \ {w} : wpc'[u] = wpc[u] /\ ppc'[u] = ppc[u] /\ scan'[u] = scan[u]
                                    /\ held'[u] = held[u]
      /\ \A s \in PoolSlots \ {m} : payload'[s] = payload[s]
  BY <1>1, <1>2, <1>3 DEF TypeOK, Pool!TypeOK, Pool!PoolSlots, PoolSlots
<1>5. Pool!Uses(w, m) /\ pc[w] = "idle"
  BY <1>1, <1>2 DEF Pool!Uses, WorkerOK
<1>6. held' \in [Workers -> SUBSET PoolSlots]
  BY <1>1, <1>2, <1>3 DEF Pool!TypeOK, Pool!PoolSlots, PoolSlots
<1>7. TypeOK'
  <2>1. Ring!TypeOK'
    BY <1>1, <1>6, HeldTypes
  <2>2. Pool!TypeOK'
    <3>1. payload' \in [PoolSlots -> Sequences \cup {Blank}]
      BY <1>1, <1>2, <1>3 DEF Pool!TypeOK, Pool!PoolSlots, PoolSlots
    <3>2. ppc' \in [Workers -> {"idle", "scan", "clear"}] /\ scan' \in [Workers -> 0 .. PoolCap]
      BY <1>1, <1>3 DEF Pool!TypeOK
    <3> QED
      BY <1>1, <1>3, <1>4, <1>6, <3>1, <3>2 DEF Pool!TypeOK, Pool!PoolSlots, PoolSlots
  <2>3. /\ next_sequence_' \in Sequences \cup {Cardinality(Workers) * (MaxOps + 1) + 1}
        /\ pushed_' \in Nat /\ popped_' \in Nat /\ wpc' \in [Workers -> Places]
        /\ left' \in [Workers -> 0 .. MaxOps] /\ sequence' \in [Workers -> {0} \cup Sequences]
        /\ consumed' \subseteq Sequences \cup {Blank}
    BY <1>1, <1>3 DEF TypeOK, Places
  <2> QED
    BY <1>1, <2>1, <2>2, <2>3, WorkerTypesKept
<1> HIDE DEF m
<1>8. ThreadsInv'
  BY <1>4, ThreadsKept DEF RuntimeInv
<1>9. WorkerInv'
  <2>1. UNCHANGED <<pc, arg, left>>
    BY DEF ringOnly
  <2>2. WorkerOK(w)'
    BY <1>1, <1>2, <1>4, <1>5, <2>1 DEF WorkerOK, Carries, Working
  <2> QED
    BY <1>1, <1>4, <2>1, <2>2, WorkerMoves
<1>10. OwnerInv'
  <2>1. \A s \in PoolSlots, u \in Workers : Pool!Uses(u, s)' <=> Pool!Uses(u, s)
    <3>1. \A s \in PoolSlots : Pool!Uses(w, s) <=> s = m
      BY <1>2 DEF Pool!Uses, m
    <3>2. \A s \in PoolSlots : Pool!Uses(w, s)' <=> s = m
      BY <1>4 DEF Pool!Uses
    <3> QED
      BY <1>4, <3>1, <3>2 DEF Pool!Uses
  <2> QED
    BY <1>1, <1>3, <2>1, OwnerKept DEF ringOnly
<1>11. SequenceInv'
  <2>1. \A s \in PoolSlots : Loaded(s)' => Loaded(s)
    BY <1>4 DEF Loaded, Published, ringOnly
  <2>2. ~Loaded(m)
    <3>1. m \notin Published
      BY <1>1, <1>2, <1>5 DEF OwnerInv
    <3>2. ASSUME NEW u \in Workers, m \in held[u], wpc[u] \in {"push", "poll", "use"} PROVE FALSE
      <4>1. Pool!Uses(u, m)
        BY <3>2 DEF Pool!Uses
      <4>2. u = w
        BY <1>1, <1>2, <1>5, <4>1 DEF OwnerInv
      <4> QED
        BY <1>2, <3>2, <4>2
    <3> QED
      BY <3>1, <3>2 DEF Loaded
  <2>3. \A s \in PoolSlots : Loaded(s)' => Loaded(s) /\ payload'[s] = payload[s]
    BY <1>4, <2>1, <2>2
  <2>4. \A u \in Workers : Numbered(u)' => Numbered(u) /\ sequence'[u] = sequence[u]
    BY <1>4 DEF Numbered
  <2>5. Taken' = Taken /\ consumed' = consumed
    BY DEF Taken
  <2>6. consumed' \subseteq Taken' /\ \A u \in Workers : Numbered(u)' => sequence'[u] \in Taken' \ consumed'
    BY <1>1, <2>4, <2>5 DEF SequenceInv
  <2>7. \A u, v \in Workers :
          Numbered(u)' /\ Numbered(v)' /\ sequence'[u] = sequence'[v] => u = v
    BY <1>1, <2>4 DEF SequenceInv
  <2>8. \A s \in PoolSlots : Loaded(s)' => payload'[s] \in Taken' \ consumed'
    BY <1>1, <2>3, <2>5 DEF SequenceInv
  <2>9. \A s \in PoolSlots, u \in Workers :
          Loaded(s)' /\ Numbered(u)' => payload'[s] # sequence'[u]
    BY <1>1, <2>3, <2>4 DEF SequenceInv
  <2>10. \A s, r \in PoolSlots : Loaded(s)' /\ Loaded(r)' /\ payload'[s] = payload'[r] => s = r
    BY <1>1, <2>3 DEF SequenceInv
  <2> QED
    BY <2>6, <2>7, <2>8, <2>9, <2>10 DEF SequenceInv
<1>12. CountersConserve'
  <2>1. \A u \in Workers : /\ wpc'[u] = "pushed" <=> wpc[u] = "pushed"
                           /\ wpc'[u] = "popped" <=> wpc[u] = "popped"
                           /\ (wpc'[u] \in {"poll", "use"} /\ held'[u] # {})
                                <=> (wpc[u] \in {"poll", "use"} /\ held[u] # {})
    BY <1>4
  <2> QED
    BY <1>3, <2>1, CountKept DEF RuntimeInv, ringOnly
<1>13. BudgetInv'
  <2>1. \A u \in Workers : StillTakes(u)' = StillTakes(u)
    BY <1>4 DEF StillTakes
  <2>2. Owed' = Owed
    BY <2>1 DEF Owed
  <2> QED
    BY <2>2 DEF RuntimeInv, BudgetInv
<1> QED
  BY <1>7, <1>8, <1>9, <1>10, <1>11, <1>12, <1>13 DEF RuntimeInv

(* The end of an operation: one less to do, and on to the next or done.    *)
LEMMA OneLessKeeps ==
  ASSUME RuntimeInv, NEW w \in Workers, wpc[w] \in {"acquire", "pushed", "popped"},
         NEW again \in {"produce", "poll"}, wpc[w] = "popped" => again = "poll", OneLess(w, again),
         UNCHANGED <<ringOnly, state, payload, held, threads, next_sequence_, sequence, consumed>>,
         ppc[w] # "clear", ppc' = [ppc EXCEPT ![w] = "idle"], scan' \in [Workers -> 0 .. PoolCap],
         \A u \in Workers \ {w} : scan'[u] = scan[u], pushed_' \in Nat, popped_' \in Nat
  PROVE  /\ TypeOK' /\ ThreadsInv' /\ WorkerInv' /\ OwnerInv' /\ SequenceInv' /\ BudgetInv'
         /\ wpc'[w] \in {again, "done"} /\ held[w] = {}
         /\ \A u \in Workers \ {w} : wpc'[u] = wpc[u]
<1>1. TypeOK /\ Pool!TypeOK /\ WorkerInv /\ WorkerOK(w)
  BY DEF RuntimeInv, TypeOK, WorkerInv
<1>2. /\ left' = [left EXCEPT ![w] = left[w] - 1]
      /\ wpc' = [wpc EXCEPT ![w] = IF left[w] = 1 THEN "done" ELSE again]
  BY <1>1 DEF OneLess, Goto, TypeOK
<1>3. /\ left[w] \in 1 .. MaxOps /\ held[w] = {} /\ pc[w] = "idle"
  BY <1>1 DEF TypeOK, WorkerOK, Carries, Working
<1>4. /\ left'[w] = left[w] - 1 /\ wpc'[w] \in {again, "done"} /\ ppc'[w] = "idle"
      /\ wpc'[w] = again => left'[w] > 0
      /\ \A u \in Workers \ {w} : wpc'[u] = wpc[u] /\ left'[u] = left[u] /\ ppc'[u] = ppc[u]
  BY <1>1, <1>2, <1>3 DEF TypeOK, Pool!TypeOK
<1>5. TypeOK'
  <2>1. Ring!TypeOK'
    BY <1>1, RingTypesKept DEF TypeOK
  <2>2. Pool!TypeOK'
    BY <1>1, <1>4 DEF Pool!TypeOK
  <2>3. wpc' \in [Workers -> Places]
    <3>1. wpc \in [Workers -> Places] /\ (IF left[w] = 1 THEN "done" ELSE again) \in Places
      BY <1>1 DEF TypeOK, Places
    <3> HIDE DEF Places
    <3> QED
      BY <1>2, <3>1
  <2>4. left' \in [Workers -> 0 .. MaxOps]
    BY <1>1, <1>2, <1>3 DEF TypeOK
  <2>5. /\ next_sequence_' \in Sequences \cup {Cardinality(Workers) * (MaxOps + 1) + 1}
        /\ sequence' \in [Workers -> {0} \cup Sequences]
        /\ consumed' \subseteq Sequences \cup {Blank}
    BY <1>1 DEF TypeOK
  <2> QED
    BY <1>1, <2>1, <2>2, <2>3, <2>4, <2>5, WorkerTypesKept
<1>6. ThreadsInv'
  BY <1>4, ThreadsKept DEF RuntimeInv
<1>7. WorkerInv'
  <2>1. UNCHANGED <<pc, arg>>
    BY DEF ringOnly
  <2>2. WorkerOK(w)'
    BY <1>1, <1>3, <1>4, <2>1 DEF WorkerOK, Carries, Working
  <2> QED
    BY <1>1, <1>4, <2>1, <2>2, WorkerMoves
<1>8. OwnerInv'
  <2>1. \A s \in PoolSlots, u \in Workers : Pool!Uses(u, s)' <=> Pool!Uses(u, s)
    BY <1>3, <1>4 DEF Pool!Uses
  <2> QED
    BY <2>1, OwnerKept DEF RuntimeInv, ringOnly
<1>9. SequenceInv'
  <2>1. \A s \in PoolSlots : Loaded(s)' => Loaded(s)
    BY <1>3, <1>4 DEF Loaded, Published, ringOnly
  <2>2. \A u \in Workers : Numbered(u)' => Numbered(u) /\ sequence'[u] = sequence[u]
    BY <1>4 DEF Numbered
  <2> QED
    BY <2>1, <2>2, SequenceKept DEF RuntimeInv
<1>10. BudgetInv'
  <2>1. \A u \in Workers \ {w} : StillTakes(u)' = StillTakes(u)
    BY <1>4 DEF StillTakes
  <2>2. StillTakes(w)' <= StillTakes(w)
    BY <1>1, <1>3, <1>4 DEF StillTakes
  <2>3. \A u \in Workers : StillTakes(u) \in Int
    BY <1>1 DEF StillTakes, TypeOK
  <2>4. StillTakes(w)' \in Int
    BY <1>3, <1>4 DEF StillTakes
  <2>5. next_sequence_ \in Int /\ BudgetInv
    BY <1>1, WholeBudget DEF TypeOK, Sequences, RuntimeInv
  <2>6. \A u \in Workers : StillTakes(u) \in Int /\ StillTakes(u)' \in Int
                             /\ StillTakes(u)' <= StillTakes(u)
    BY <2>1, <2>2, <2>3, <2>4
  <2> QED
    BY <2>5, <2>6, BudgetKept
<1> QED
  BY <1>3, <1>4, <1>5, <1>6, <1>7, <1>8, <1>9, <1>10

LEMMA AcquireFailKeeps ==
  ASSUME RuntimeInv, NEW w \in Workers, wpc[w] = "acquire", Pool!AcquireFail(w), OneLess(w, "produce"),
         UNCHANGED <<ringOnly, threads, next_sequence_, counters, sequence, consumed>>
  PROVE  RuntimeInv'
<1>1. TypeOK /\ Pool!TypeOK
  BY DEF RuntimeInv, TypeOK
<1>2. /\ ppc[w] = "scan" /\ ppc' = [ppc EXCEPT ![w] = "idle"] /\ scan' = [scan EXCEPT ![w] = 0]
      /\ UNCHANGED <<state, payload, held, pushed_, popped_>>
  BY DEF Pool!AcquireFail, counters
<1>3. /\ scan' \in [Workers -> 0 .. PoolCap] /\ \A u \in Workers \ {w} : scan'[u] = scan[u]
      /\ pushed_' \in Nat /\ popped_' \in Nat
  BY <1>1, <1>2 DEF TypeOK, Pool!TypeOK
<1>4. /\ TypeOK' /\ ThreadsInv' /\ WorkerInv' /\ OwnerInv' /\ SequenceInv' /\ BudgetInv'
      /\ wpc'[w] \in {"produce", "done"} /\ held[w] = {}
      /\ \A u \in Workers \ {w} : wpc'[u] = wpc[u]
  BY <1>2, <1>3, OneLessKeeps
<1>5. CountersConserve'
  <2>1. \A u \in Workers : /\ wpc'[u] = "pushed" <=> wpc[u] = "pushed"
                           /\ wpc'[u] = "popped" <=> wpc[u] = "popped"
                           /\ (wpc'[u] \in {"poll", "use"} /\ held'[u] # {})
                                <=> (wpc[u] \in {"poll", "use"} /\ held[u] # {})
    BY <1>2, <1>4
  <2> QED
    BY <1>2, <2>1, CountKept DEF RuntimeInv, ringOnly
<1> QED
  BY <1>4, <1>5 DEF RuntimeInv

LEMMA ProduceCountKeeps ==
  ASSUME RuntimeInv, NEW w \in Workers, ProduceCount(w)
  PROVE  RuntimeInv'
<1>1. TypeOK /\ Pool!TypeOK /\ WorkerOK(w)
  BY DEF RuntimeInv, TypeOK, WorkerInv
<1>2. /\ wpc[w] = "pushed" /\ pushed_' = pushed_ + 1 /\ popped_' = popped_ /\ OneLess(w, "produce")
      /\ UNCHANGED <<ringOnly, state, payload, ppc, scan, held, threads, next_sequence_,
                     sequence, consumed>>
  BY DEF ProduceCount, At, poolOnly
<1>3. /\ scan' \in [Workers -> 0 .. PoolCap] /\ pushed_' \in Nat /\ popped_' \in Nat
      /\ ppc[w] = "idle" /\ ppc' = [ppc EXCEPT ![w] = "idle"]
  BY <1>1, <1>2 DEF TypeOK, Pool!TypeOK, WorkerOK
<1>4. /\ TypeOK' /\ ThreadsInv' /\ WorkerInv' /\ OwnerInv' /\ SequenceInv' /\ BudgetInv'
      /\ wpc'[w] \in {"produce", "done"} /\ held[w] = {}
      /\ \A u \in Workers \ {w} : wpc'[u] = wpc[u]
  BY <1>2, <1>3, OneLessKeeps
<1>5. CountersConserve'
  <2>1. Doing("pushed")' = Doing("pushed") \ {w} /\ w \in Doing("pushed")
    BY <1>2, <1>4 DEF Doing
  <2>2. /\ Doing("popped")' = Doing("popped") /\ InHand' = InHand /\ Published' = Published
    BY <1>2, <1>4 DEF Doing, InHand, Published, ringOnly
  <2>3. Cardinality(Doing("pushed")') = Cardinality(Doing("pushed")) - 1
    BY <1>1, <2>1, OneFewer, CountingSetsAreFinite DEF TypeOK
  <2>4. pushed_ + Cardinality(Doing("pushed")) =
          popped_ + Cardinality(Doing("popped")) + Cardinality(Published) + Cardinality(InHand)
    BY CountingUnfolded DEF RuntimeInv
  <2>5. pushed_' + Cardinality(Doing("pushed")') =
          popped_' + Cardinality(Doing("popped")') + Cardinality(Published') + Cardinality(InHand')
    BY <1>1, <1>2, <2>2, <2>3, <2>4, CountingSetsAreFinite DEF TypeOK
  <2> QED
    BY <2>5 DEF CountersConserve, Count, Doing, InHand
<1> QED
  BY <1>4, <1>5 DEF RuntimeInv

LEMMA ConsumeCountKeeps ==
  ASSUME RuntimeInv, NEW w \in Workers, ConsumeCount(w)
  PROVE  RuntimeInv'
<1>1. TypeOK /\ Pool!TypeOK /\ WorkerOK(w)
  BY DEF RuntimeInv, TypeOK, WorkerInv
<1>2. /\ wpc[w] = "popped" /\ popped_' = popped_ + 1 /\ pushed_' = pushed_ /\ OneLess(w, "poll")
      /\ UNCHANGED <<ringOnly, state, payload, ppc, scan, held, threads, next_sequence_,
                     sequence, consumed>>
  BY DEF ConsumeCount, At, poolOnly
<1>3. /\ scan' \in [Workers -> 0 .. PoolCap] /\ pushed_' \in Nat /\ popped_' \in Nat
      /\ ppc[w] = "idle" /\ ppc' = [ppc EXCEPT ![w] = "idle"]
  BY <1>1, <1>2 DEF TypeOK, Pool!TypeOK, WorkerOK
<1>4. /\ TypeOK' /\ ThreadsInv' /\ WorkerInv' /\ OwnerInv' /\ SequenceInv' /\ BudgetInv'
      /\ wpc'[w] \in {"poll", "done"} /\ held[w] = {}
      /\ \A u \in Workers \ {w} : wpc'[u] = wpc[u]
  BY <1>2, <1>3, OneLessKeeps
<1>5. CountersConserve'
  <2>1. Doing("popped")' = Doing("popped") \ {w} /\ w \in Doing("popped")
    BY <1>2, <1>4 DEF Doing
  <2>2. /\ Doing("pushed")' = Doing("pushed") /\ InHand' = InHand /\ Published' = Published
    BY <1>2, <1>4 DEF Doing, InHand, Published, ringOnly
  <2>3. Cardinality(Doing("popped")') = Cardinality(Doing("popped")) - 1
    BY <1>1, <2>1, OneFewer, CountingSetsAreFinite DEF TypeOK
  <2>4. pushed_ + Cardinality(Doing("pushed")) =
          popped_ + Cardinality(Doing("popped")) + Cardinality(Published) + Cardinality(InHand)
    BY CountingUnfolded DEF RuntimeInv
  <2>5. pushed_' + Cardinality(Doing("pushed")') =
          popped_' + Cardinality(Doing("popped")') + Cardinality(Published') + Cardinality(InHand')
    BY <1>1, <1>2, <2>2, <2>3, <2>4, CountingSetsAreFinite DEF TypeOK
  <2> QED
    BY <2>5 DEF CountersConserve, Count, Doing, InHand
<1> QED
  BY <1>4, <1>5 DEF RuntimeInv

(* The producer writes its sequence into the message it holds.             *)
LEMMA ProduceFillKeeps ==
  ASSUME RuntimeInv, NEW w \in Workers, ProduceFill(w)
  PROVE  RuntimeInv'
<1>1. /\ TypeOK /\ Pool!TypeOK /\ OwnerInv /\ WorkerInv /\ WorkerOK(w) /\ SequenceInv
  BY DEF RuntimeInv, TypeOK, WorkerInv
<1>2. PICK m \in held[w] : Pool!Fill(w, m, sequence[w])
  BY DEF ProduceFill
<1>3. /\ wpc[w] = "fill" /\ m \in PoolSlots /\ held[w] = {m} /\ Pool!Uses(w, m)
  BY <1>1, <1>2 DEF ProduceFill, At, WorkerOK, Carries, Pool!Uses
<1>4. /\ payload' = [payload EXCEPT ![m] = sequence[w]] /\ wpc' = [wpc EXCEPT ![w] = "push"]
      /\ UNCHANGED <<state, held, ppc, scan, ringOnly, threads, next_sequence_, counters, left,
                     sequence, consumed>>
  BY <1>2 DEF ProduceFill, Pool!Fill, Goto
<1>5. /\ wpc'[w] = "push" /\ \A u \in Workers \ {w} : wpc'[u] = wpc[u]
      /\ payload'[m] = sequence[w] /\ \A s \in PoolSlots \ {m} : payload'[s] = payload[s]
  BY <1>1, <1>3, <1>4 DEF TypeOK, Pool!TypeOK, Pool!PoolSlots, PoolSlots
<1>6. sequence[w] \in Taken \ consumed /\ sequence[w] \in Sequences
  <2>1. sequence[w] \in Taken \ consumed
    BY <1>1, <1>3 DEF SequenceInv, Numbered
  <2>2. sequence[w] \in {0} \cup Sequences /\ 0 \notin Taken
    BY <1>1 DEF TypeOK, Taken
  <2> QED
    BY <2>1, <2>2
<1>7. TypeOK'
  <2>1. Ring!TypeOK'
    BY <1>1, <1>4, RingTypesKept DEF TypeOK
  <2>2. Pool!TypeOK'
    BY <1>1, <1>3, <1>4, <1>6 DEF Pool!TypeOK
  <2>3. wpc' \in [Workers -> Places]
    BY <1>1, <1>4 DEF TypeOK, Places
  <2>4. /\ next_sequence_' \in Sequences \cup {Cardinality(Workers) * (MaxOps + 1) + 1}
        /\ pushed_' \in Nat /\ popped_' \in Nat
        /\ left' \in [Workers -> 0 .. MaxOps] /\ sequence' \in [Workers -> {0} \cup Sequences]
        /\ consumed' \subseteq Sequences \cup {Blank}
    BY <1>1, <1>4 DEF TypeOK, counters
  <2> QED
    BY <1>1, <1>4, <2>1, <2>2, <2>3, <2>4, WorkerTypesKept
<1>8. ThreadsInv'
  BY <1>3, <1>4, <1>5, ThreadsKept DEF RuntimeInv
<1>9. WorkerInv'
  <2>1. UNCHANGED <<pc, arg>>
    BY <1>4 DEF ringOnly
  <2>2. WorkerOK(w)'
    BY <1>1, <1>3, <1>4, <1>5, <2>1 DEF WorkerOK, Carries, Working
  <2> QED
    BY <1>1, <1>4, <1>5, <2>1, <2>2, WorkerMoves
<1>10. OwnerInv'
  BY <1>1, <1>4, OwnerKept DEF ringOnly, Pool!Uses
<1>11. SequenceInv'
  <2>1. Published' = Published
    BY <1>4 DEF Published, ringOnly
  <2>2. \A s \in PoolSlots : Loaded(s)' => Loaded(s) \/ s = m
    BY <1>3, <1>4, <1>5, <2>1 DEF Loaded
  <2>3. \A u \in Workers : Numbered(u)' => Numbered(u) /\ sequence'[u] = sequence[u] /\ u # w
    BY <1>4, <1>5 DEF Numbered
  <2>4. Taken' = Taken /\ consumed' = consumed
    BY <1>4 DEF Taken
  <2>5. Numbered(w)
    BY <1>3 DEF Numbered
  <2>6. consumed' \subseteq Taken' /\ \A u \in Workers : Numbered(u)' => sequence'[u] \in Taken' \ consumed'
    BY <1>1, <2>3, <2>4 DEF SequenceInv
  <2>7. \A u, v \in Workers :
          Numbered(u)' /\ Numbered(v)' /\ sequence'[u] = sequence'[v] => u = v
    BY <1>1, <2>3 DEF SequenceInv
  <2>8. \A s \in PoolSlots : Loaded(s)' => payload'[s] \in Taken' \ consumed'
    BY <1>1, <1>5, <1>6, <2>2, <2>4 DEF SequenceInv
  <2>9. \A s \in PoolSlots, u \in Workers :
          Loaded(s)' /\ Numbered(u)' => payload'[s] # sequence'[u]
    BY <1>1, <1>5, <2>2, <2>3, <2>5 DEF SequenceInv
  <2>10. \A s \in PoolSlots : Loaded(s) => payload[s] # sequence[w]
    BY <1>1, <2>5 DEF SequenceInv
  <2>11. \A s, r \in PoolSlots : Loaded(s)' /\ Loaded(r)' /\ payload'[s] = payload'[r] => s = r
    BY <1>1, <1>5, <2>2, <2>10 DEF SequenceInv
  <2> QED
    BY <2>6, <2>7, <2>8, <2>9, <2>11 DEF SequenceInv
<1>12. CountersConserve'
  <2>1. \A u \in Workers : /\ wpc'[u] = "pushed" <=> wpc[u] = "pushed"
                           /\ wpc'[u] = "popped" <=> wpc[u] = "popped"
                           /\ (wpc'[u] \in {"poll", "use"} /\ held'[u] # {})
                                <=> (wpc[u] \in {"poll", "use"} /\ held[u] # {})
    BY <1>3, <1>4, <1>5
  <2> QED
    BY <1>4, <2>1, CountKept DEF RuntimeInv, ringOnly, counters
<1>13. BudgetInv'
  <2>1. \A u \in Workers : StillTakes(u)' = StillTakes(u)
    BY <1>3, <1>4, <1>5 DEF StillTakes
  <2>2. Owed' = Owed
    BY <2>1 DEF Owed
  <2> QED
    BY <1>4, <2>2 DEF RuntimeInv, BudgetInv
<1> QED
  BY <1>7, <1>8, <1>9, <1>10, <1>11, <1>12, <1>13 DEF RuntimeInv

(* The consumer reads the sequence and gives the message back.             *)
LEMMA ConsumeUseKeeps ==
  ASSUME RuntimeInv, NEW w \in Workers, ConsumeUse(w)
  PROVE  RuntimeInv'
<1>1. /\ TypeOK /\ Pool!TypeOK /\ OwnerInv /\ WorkerInv /\ WorkerOK(w) /\ SequenceInv
  BY DEF RuntimeInv, TypeOK, WorkerInv
<1>2. PICK m \in held[w] : Pool!Release(w, m) /\ consumed' = consumed \cup {payload[m]}
  BY DEF ConsumeUse
<1>3. /\ wpc[w] = "use" /\ m \in PoolSlots /\ held[w] = {m} /\ Pool!Uses(w, m)
      /\ ppc[w] = "idle" /\ pc[w] = "idle"
  BY <1>1, <1>2 DEF ConsumeUse, At, WorkerOK, Carries, Pool!Uses, Pool!TypeOK
<1>4. /\ held' = [held EXCEPT ![w] = held[w] \ {m}] /\ state' = [state EXCEPT ![m] = 0]
      /\ wpc' = [wpc EXCEPT ![w] = "popped"]
      /\ UNCHANGED <<payload, ppc, scan, ringOnly, threads, next_sequence_, counters, left, sequence>>
  BY <1>1, <1>2 DEF ConsumeUse, Pool!Release, Pool!Free, Goto, Pool!TypeOK
<1>5. /\ wpc'[w] = "popped" /\ held'[w] = {} /\ state'[m] = 0
      /\ \A u \in Workers \ {w} : wpc'[u] = wpc[u] /\ held'[u] = held[u]
      /\ \A s \in PoolSlots \ {m} : state'[s] = state[s]
  BY <1>1, <1>3, <1>4 DEF TypeOK, Pool!TypeOK, Pool!PoolSlots, PoolSlots
<1>6. m \notin Published /\ \A u \in Workers : Pool!Uses(u, m) => u = w
  BY <1>1, <1>3 DEF OwnerInv
<1>7. Loaded(m) /\ payload[m] \in Sequences \cup {Blank}
  BY <1>1, <1>3 DEF Loaded, Pool!TypeOK, Pool!PoolSlots, PoolSlots
<1>8. TypeOK'
  <2>1. held' \in [Workers -> SUBSET PoolSlots]
    BY <1>1, <1>4 DEF Pool!TypeOK, Pool!PoolSlots, PoolSlots
  <2>2. Ring!TypeOK'
    BY <1>1, <1>4, <2>1, HeldTypes
  <2>3. Pool!TypeOK'
    <3>1. state' \in [PoolSlots -> {0, 1}]
      BY <1>1, <1>3, <1>4
         DEF Pool!TypeOK, Pool!Free, Pool!Acquired, Pool!PoolSlots, PoolSlots
    <3> QED
      BY <1>1, <1>4, <2>1, <3>1
         DEF Pool!TypeOK, Pool!Free, Pool!Acquired, Pool!PoolSlots, PoolSlots
  <2>4. wpc' \in [Workers -> Places]
    BY <1>1, <1>4 DEF TypeOK, Places
  <2>5. /\ next_sequence_' \in Sequences \cup {Cardinality(Workers) * (MaxOps + 1) + 1}
        /\ pushed_' \in Nat /\ popped_' \in Nat
        /\ left' \in [Workers -> 0 .. MaxOps] /\ sequence' \in [Workers -> {0} \cup Sequences]
        /\ consumed' \subseteq Sequences \cup {Blank}
    BY <1>1, <1>2, <1>4, <1>7 DEF TypeOK, counters
  <2> QED
    BY <1>1, <1>4, <2>2, <2>3, <2>4, <2>5, WorkerTypesKept
<1>9. ThreadsInv'
  BY <1>3, <1>4, <1>5, ThreadsKept DEF RuntimeInv
<1>10. WorkerInv'
  <2>1. UNCHANGED <<pc, arg>>
    BY <1>4 DEF ringOnly
  <2>2. WorkerOK(w)'
    BY <1>1, <1>3, <1>4, <1>5, <2>1 DEF WorkerOK, Carries, Working
  <2> QED
    BY <1>1, <1>4, <1>5, <2>1, <2>2, WorkerMoves
<1>11. OwnerInv'
  <2>1. \A s \in PoolSlots, u \in Workers :
          Pool!Uses(u, s)' <=> Pool!Uses(u, s) /\ s # m
    BY <1>3, <1>4, <1>5, <1>6 DEF Pool!Uses
  <2>2. Published' = Published /\ ring' = ring
    BY <1>4 DEF Published, ringOnly
  <2>3. \A s \in PoolSlots, u, v \in Workers : Pool!Uses(u, s)' /\ Pool!Uses(v, s)' => u = v
    BY <1>1, <2>1 DEF OwnerInv
  <2>4. \A s \in PoolSlots, u \in Workers : s \in Published' => ~Pool!Uses(u, s)'
    BY <1>1, <2>1, <2>2 DEF OwnerInv
  <2>5. \A s \in PoolSlots :
          state'[s] = 1 <=> (s \in Published' \/ \E u \in Workers : Pool!Uses(u, s)')
    BY <1>1, <1>5, <1>6, <2>1, <2>2 DEF OwnerInv, Pool!Acquired
  <2> QED
    BY <1>1, <2>2, <2>3, <2>4, <2>5 DEF OwnerInv, Pool!Acquired
<1>12. SequenceInv'
  <2>1. \A s \in PoolSlots : Loaded(s)' => Loaded(s) /\ s # m
    <3>1. Published' = Published
      BY <1>4 DEF Published, ringOnly
    <3>2. \A u \in Workers : m \notin held'[u]
      BY <1>5, <1>6 DEF Pool!Uses
    <3> QED
      BY <1>5, <1>6, <3>1, <3>2 DEF Loaded
  <2>2. \A u \in Workers : Numbered(u)' => Numbered(u) /\ sequence'[u] = sequence[u]
    BY <1>4, <1>5 DEF Numbered
  <2>3. Taken' = Taken /\ payload' = payload /\ payload[m] \in Taken
    BY <1>1, <1>3, <1>4, <1>7 DEF Taken, SequenceInv
  <2>4. consumed' \subseteq Taken'
    BY <1>1, <1>2, <2>3 DEF SequenceInv
  <2>5. \A u \in Workers : Numbered(u)' => sequence'[u] \in Taken' \ consumed'
    <3>1. \A u \in Workers : Numbered(u) => payload[m] # sequence[u]
      BY <1>1, <1>3, <1>7 DEF SequenceInv
    <3> QED
      BY <1>1, <1>2, <2>2, <2>3, <3>1 DEF SequenceInv
  <2>6. \A u, v \in Workers :
          Numbered(u)' /\ Numbered(v)' /\ sequence'[u] = sequence'[v] => u = v
    BY <1>1, <2>2 DEF SequenceInv
  <2>7. \A s \in PoolSlots : Loaded(s)' => payload'[s] \in Taken' \ consumed'
    <3>1. \A s \in PoolSlots : Loaded(s)' => payload[s] # payload[m]
      BY <1>1, <1>3, <1>7, <2>1 DEF SequenceInv
    <3> QED
      BY <1>1, <1>2, <2>1, <2>3, <3>1 DEF SequenceInv
  <2>8. \A s \in PoolSlots, u \in Workers :
          Loaded(s)' /\ Numbered(u)' => payload'[s] # sequence'[u]
    BY <1>1, <2>1, <2>2, <2>3 DEF SequenceInv
  <2>9. \A s, r \in PoolSlots : Loaded(s)' /\ Loaded(r)' /\ payload'[s] = payload'[r] => s = r
    BY <1>1, <2>1, <2>3 DEF SequenceInv
  <2> QED
    BY <2>4, <2>5, <2>6, <2>7, <2>8, <2>9 DEF SequenceInv
<1>13. CountersConserve'
  <2>1. Doing("popped")' = Doing("popped") \cup {w} /\ w \notin Doing("popped")
    BY <1>3, <1>5 DEF Doing
  <2>2. InHand' = InHand \ {w} /\ w \in InHand
    BY <1>3, <1>5 DEF InHand
  <2>3. Doing("pushed")' = Doing("pushed") /\ Published' = Published
    BY <1>3, <1>4, <1>5 DEF Doing, Published, ringOnly
  <2>4. /\ Cardinality(Doing("popped")') = Cardinality(Doing("popped")) + 1
        /\ Cardinality(InHand') = Cardinality(InHand) - 1
    BY <1>1, <2>1, <2>2, OneMore, OneFewer, CountingSetsAreFinite DEF TypeOK
  <2>5. pushed_ + Cardinality(Doing("pushed")) =
          popped_ + Cardinality(Doing("popped")) + Cardinality(Published) + Cardinality(InHand)
    BY CountingUnfolded DEF RuntimeInv
  <2>6. pushed_' + Cardinality(Doing("pushed")') =
          popped_' + Cardinality(Doing("popped")') + Cardinality(Published') + Cardinality(InHand')
    BY <1>1, <1>4, <2>3, <2>4, <2>5, CountingSetsAreFinite DEF TypeOK, counters
  <2> QED
    BY <2>6 DEF CountersConserve, Count, Doing, InHand
<1>14. BudgetInv'
  <2>1. \A u \in Workers : StillTakes(u)' = StillTakes(u)
    BY <1>3, <1>4, <1>5 DEF StillTakes
  <2>2. Owed' = Owed
    BY <2>1 DEF Owed
  <2> QED
    BY <1>4, <2>2 DEF RuntimeInv, BudgetInv
<1> QED
  BY <1>8, <1>9, <1>10, <1>11, <1>12, <1>13, <1>14 DEF RuntimeInv

-----------------------------------------------------------------------------
(* The invariant.                                                          *)

LEMMA RuntimeInvInit == Init => RuntimeInv
<1> SUFFICES ASSUME Init PROVE RuntimeInv
  OBVIOUS
<1> USE DEF Init, Pool!Init
<1>1. Published = {}
  BY DEF Published
<1>2. Cardinality(Workers) * (MaxOps + 1) \in Nat
  BY WholeBudget
<1>3. TypeOK
  <2>1. Ring!TypeOK
    BY CursorFacts, ThreadsAreWorkers DEF Ring!TypeOK, RingSlots
  <2>2. Pool!TypeOK
    BY DEF Pool!TypeOK, Pool!Free, Pool!Acquired
  <2>3. live_threads_ = Cardinality(workers_)
    BY FS_EmptySet
  <2>4. next_sequence_ \in Sequences \cup {Cardinality(Workers) * (MaxOps + 1) + 1}
    BY <1>2 DEF Sequences
  <2>5. /\ wpc \in [Workers -> Places] /\ left \in [Workers -> 0 .. MaxOps]
        /\ sequence \in [Workers -> {0} \cup Sequences]
    BY DEF Places
  <2>6. /\ main = "stopped" /\ supervisor = "none" /\ running_ = FALSE /\ workers_ = {}
        /\ pushed_ = 0 /\ popped_ = 0 /\ consumed = {}
    OBVIOUS
  <2> USE DEF TypeOK, Places
  <2> HIDE DEF Init, Pool!Init
  <2> QED
    BY <2>1, <2>2, <2>3, <2>4, <2>5, <2>6
<1>4. WorkerInv
  BY DEF WorkerInv, WorkerOK, Carries, Working
<1>5. ThreadsInv
  BY DEF ThreadsInv
<1>6. OwnerInv
  <2>1. \A s \in PoolSlots, w \in Workers : ~Pool!Uses(w, s)
    BY DEF Pool!Uses
  <2>2. \A s \in PoolSlots : state[s] # Pool!Acquired
    BY DEF Pool!Free, Pool!Acquired, Pool!PoolSlots, PoolSlots
  <2>3. \A i \in 0 .. Capacity - 1 : ring[i] = NoMsg
    OBVIOUS
  <2> QED
    BY <1>1, <2>1, <2>2, <2>3 DEF OwnerInv
<1>7. SequenceInv
  <2>1. \A s \in PoolSlots : ~Loaded(s)
    BY <1>1 DEF Loaded
  <2>2. \A w \in Workers : ~Numbered(w)
    BY DEF Numbered
  <2> QED
    BY <2>1, <2>2 DEF SequenceInv
<1>8. CountersConserve
  <2>1. Doing("pushed") = {} /\ Doing("popped") = {} /\ InHand = {}
    BY DEF Doing, InHand
  <2>2. /\ Cardinality(Doing("pushed")) = 0 /\ Cardinality(Doing("popped")) = 0
        /\ Cardinality(InHand) = 0 /\ Cardinality(Published) = 0
    BY <1>1, <2>1, FS_EmptySet
  <2>3. pushed_ = 0 /\ popped_ = 0
    OBVIOUS
  <2> HIDE DEF Init, Pool!Init
  <2> QED
    BY <2>2, <2>3, CountingUnfolded
<1>9. BudgetInv
  <2>1. \A w \in Workers : StillTakes(w) = MaxOps + 1
    BY DEF StillTakes
  <2>2. Owed = Workers \X (0 .. MaxOps)
    BY <2>1 DEF Owed
  <2> QED
    BY <1>2, <2>2, WholeBudget DEF BudgetInv
<1> QED
  BY <1>3, <1>4, <1>5, <1>6, <1>7, <1>8, <1>9 DEF RuntimeInv

LEMMA WorkerStepKeeps ==
  ASSUME RuntimeInv, NEW w \in Workers, WorkerStep(w)
  PROVE  RuntimeInv'
<1>1. CASE ProduceAcquire(w)
  <2>1. /\ wpc[w] = "acquire"
        /\ UNCHANGED <<ringOnly, threads, next_sequence_, counters, sequence, consumed>>
    BY <1>1 DEF ProduceAcquire, At
  <2>2. CASE Pool!AcquireTake(w) /\ UNCHANGED <<wpc, left>>
    BY <2>1, <2>2, AcquireTakeKeeps DEF workerVars
  <2>3. CASE Pool!AcquireSkip(w) /\ UNCHANGED <<wpc, left>>
    BY <2>1, <2>3, AcquireSkipKeeps DEF workerVars
  <2>4. CASE Pool!AcquireClear(w) /\ Goto(w, "fill") /\ UNCHANGED left
    BY <2>1, <2>4, AcquireClearKeeps
  <2>5. CASE Pool!AcquireFail(w) /\ OneLess(w, "produce")
    BY <2>1, <2>5, AcquireFailKeeps
  <2> QED
    BY <1>1, <2>2, <2>3, <2>4, <2>5 DEF ProduceAcquire
<1>2. CASE ProducePush(w)
  <2>1. /\ wpc[w] = "push"
        /\ UNCHANGED <<poolOnly, threads, next_sequence_, counters, left, sequence, consumed>>
    BY <1>2 DEF ProducePush, At
  <2>2. ASSUME NEW s \in held[w], Ring!PushBegin(w, s), UNCHANGED wpc PROVE RuntimeInv'
    BY <2>1, <2>2, PushBeginKeeps DEF workerVars
  <2>3. CASE Ring!PushProbe(w) /\ UNCHANGED wpc
    BY <2>1, <2>3, PushProbeKeeps DEF workerVars
  <2>4. CASE Ring!PushStore(w) /\ Goto(w, "pushed")
    BY <2>1, <2>4, PushStoreKeeps
  <2> QED
    BY <1>2, <2>2, <2>3, <2>4 DEF ProducePush
<1>3. CASE ConsumePoll(w)
  <2>1. /\ wpc[w] = "poll"
        /\ UNCHANGED <<poolOnly, threads, next_sequence_, counters, left, sequence, consumed>>
    BY <1>3 DEF ConsumePoll, At
  <2>2. CASE (Ring!TryBegin(w) \/ Ring!TryProbe(w) \/ Ring!TryEmpty(w)) /\ UNCHANGED wpc
    BY <2>1, <2>2, TryLooksKeeps DEF workerVars
  <2>3. CASE Ring!TryTake(w) /\ UNCHANGED wpc
    BY <2>1, <2>3, TryTakeKeeps DEF workerVars
  <2>4. CASE Ring!TryStore(w) /\ Goto(w, "use")
    BY <2>1, <2>4, TryStoreKeeps
  <2> QED
    BY <1>3, <2>2, <2>3, <2>4 DEF ConsumePoll
<1> QED
  BY <1>1, <1>2, <1>3, ProduceBeginKeeps, ProduceFillKeeps, ProduceCountKeeps, ConsumeUseKeeps,
     ConsumeCountKeeps DEF WorkerStep

LEMMA RuntimeInvStep == RuntimeInv /\ [Next]_vars => RuntimeInv'
<1> SUFFICES ASSUME RuntimeInv, [Next]_vars PROVE RuntimeInv'
  OBVIOUS
<1>1. CASE MainStep \/ SupervisorStep
  BY <1>1, MainAndSupervisorKeep
<1>2. ASSUME NEW w \in Workers, WorkerStep(w) PROVE RuntimeInv'
  BY <1>2, WorkerStepKeeps
<1>3. CASE UNCHANGED vars
  <2>1. UNCHANGED <<ringOnly, held, poolOnly, threads, next_sequence_, counters, workerVars, consumed>>
    BY <1>3 DEF vars
  <2>2. UNCHANGED <<ring, pc, arg, ppc, held, wpc, left>>
    BY <2>1 DEF ringOnly, poolOnly, workerVars
  <2>3. Ring!TypeOK'
    BY <2>1, RingTypesKept DEF RuntimeInv, TypeOK
  <2>4. WorkerInv'
    BY <2>2 DEF RuntimeInv, WorkerInv, WorkerOK, Carries, Working
  <2> QED
    BY <2>1, <2>2, <2>3, <2>4, RingStepKeeps
<1> QED
  BY <1>1, <1>2, <1>3 DEF Next

(* The invariant holds in every state of every run of the runtime          *)
(* (mpmc_runtime.hpp), for any number of workers, operations and slots.    *)
THEOREM RuntimeInvariant == Spec => []RuntimeInv
<1>1. Init => RuntimeInv
  BY RuntimeInvInit
<1>2. RuntimeInv /\ [Next]_vars => RuntimeInv'
  BY RuntimeInvStep
<1> QED
  BY <1>1, <1>2, PTL DEF Spec

-----------------------------------------------------------------------------
(* What follows from it.                                                   *)

(* Every variable is in its range; a slot of the pool is acquired exactly  *)
(* while one worker uses it or the ring publishes it, whichever thread     *)
(* acquired it and whichever will release it (memory_pool.hpp:33-66,       *)
(* mpmc.hpp:41-84); and no worker returns with a message in its hand.      *)
THEOREM RuntimeLeaksNoMessage == Spec => []NoMessageLeaks
<1>1. RuntimeInv => NoMessageLeaks
  <2> SUFFICES ASSUME RuntimeInv PROVE NoMessageLeaks
    OBVIOUS
  <2>1. TypeOK /\ OwnerInv
    BY DEF RuntimeInv
  <2>2. Published \subseteq PoolSlots
    BY <2>1 DEF Published, TypeOK, Ring!TypeOK, Ring!Slots
  <2>3. \A s \in PoolSlots :
          state[s] = Pool!Acquired <=> (s \in Published \/ \E w \in Workers : Pool!Uses(w, s))
    BY <2>1 DEF OwnerInv
  <2>4. \A s \in PoolSlots, w, u \in Workers : Pool!Uses(w, s) /\ Pool!Uses(u, s) => w = u
    BY <2>1 DEF OwnerInv
  <2>5. \A s \in Published, w \in Workers : ~Pool!Uses(w, s)
    BY <2>1, <2>2 DEF OwnerInv
  <2>6. \A w \in Workers : held[w] # {} => wpc[w] \in {"fill", "push", "poll", "use"}
    BY DEF RuntimeInv, WorkerInv, WorkerOK, Carries
  <2> QED
    BY <2>1, <2>3, <2>4, <2>5, <2>6 DEF NoMessageLeaks
<1> QED
  BY <1>1, RuntimeInvariant, PTL

(* What one producer wrote is what one consumer reads, once: every body    *)
(* between push and release holds a number that fetch_add gave to one      *)
(* producer, in no other body, and not yet consumed                        *)
(* (mpmc_runtime.hpp: producer_main, consumer_main).                       *)
THEOREM RuntimeReadsEachSequenceOnce == Spec => []EachSequenceOnce
<1>1. RuntimeInv => EachSequenceOnce
  <2> SUFFICES ASSUME RuntimeInv PROVE EachSequenceOnce
    OBVIOUS
  <2> DEFINE onTheWay ==
        Published \cup UNION {held[w] : w \in {u \in Workers : wpc[u] \in {"poll", "use"}}}
  <2>1. TypeOK /\ SequenceInv
    BY DEF RuntimeInv
  <2>2. Taken \subseteq Sequences
    BY <2>1, WholeBudget DEF Taken, Sequences, TypeOK
  <2>3. Blank \notin consumed
    BY <2>1, <2>2 DEF SequenceInv
  <2>4. \A s \in onTheWay : s \in PoolSlots /\ Loaded(s)
    <3>1. Published \subseteq PoolSlots
      BY <2>1 DEF Published, TypeOK, Ring!TypeOK, Ring!Slots
    <3>2. \A w \in Workers : held[w] \subseteq PoolSlots
      BY <2>1, ThreadsAreWorkers DEF TypeOK, Ring!TypeOK
    <3> QED
      BY <3>1, <3>2 DEF Loaded
  <2> HIDE DEF onTheWay
  <2>5. \A s \in onTheWay : payload[s] \in Sequences \ consumed
    BY <2>1, <2>2, <2>4 DEF SequenceInv
  <2>6. \A s, r \in onTheWay : payload[s] = payload[r] => s = r
    BY <2>1, <2>4 DEF SequenceInv
  <2> QED
    BY <2>3, <2>5, <2>6 DEF EachSequenceOnce, onTheWay
<1> QED
  BY <1>1, RuntimeInvariant, PTL

(* pushed() and popped() together miss exactly what is in flight: a count  *)
(* follows its operation, so each may be behind the ring by the workers    *)
(* that have not counted yet (mpmc_runtime.hpp: pushed_, popped_).         *)
THEOREM RuntimeCountersConserve == Spec => []CountersConserve
<1>1. RuntimeInv => CountersConserve
  BY DEF RuntimeInv
<1> QED
  BY <1>1, RuntimeInvariant, PTL

(* When stop has returned every worker is gone, and what the pool has out  *)
(* is what the ring holds, which is pushed() - popped()                    *)
(* (mpmc_runtime.hpp: stop, join_all; main.cpp:434-437 reports it).        *)
THEOREM RuntimeStopsQuiet == Spec => []StoppedIsQuiet
<1>1. RuntimeInv => StoppedIsQuiet
  <2> SUFFICES ASSUME RuntimeInv, main = "stopped" PROVE
        /\ \A w \in Workers : wpc[w] \in {"unborn", "joined"}
        /\ pushed_ - popped_ = Cardinality(Published)
        /\ {s \in PoolSlots : state[s] = Pool!Acquired} = Published
    BY DEF StoppedIsQuiet
  <2>1. TypeOK /\ OwnerInv /\ WorkerInv
    BY DEF RuntimeInv
  <2>2. \A w \in Workers : wpc[w] \in {"unborn", "joined"}
    BY DEF RuntimeInv, ThreadsInv
  <2>3. pushed_ - popped_ = Cardinality(Published)
    <3>1. Doing("pushed") = {} /\ Doing("popped") = {} /\ InHand = {}
      BY <2>2 DEF Doing, InHand
    <3>2. pushed_ + 0 = popped_ + 0 + Cardinality(Published) + 0
      BY <3>1, FS_EmptySet, CountingUnfolded DEF RuntimeInv
    <3> QED
      BY <2>1, <3>2, CountingSetsAreFinite DEF TypeOK
  <2>4. \A w \in Workers, s \in PoolSlots : ~Pool!Uses(w, s)
    BY <2>1, <2>2 DEF WorkerInv, WorkerOK, Carries, Pool!Uses
  <2>5. Published \subseteq PoolSlots
    BY <2>1 DEF Published, TypeOK, Ring!TypeOK, Ring!Slots
  <2>6. {s \in PoolSlots : state[s] = Pool!Acquired} = Published
    BY <2>1, <2>4, <2>5 DEF OwnerInv
  <2> QED
    BY <2>2, <2>3, <2>6
<1> QED
  BY <1>1, RuntimeInvariant, PTL
=============================================================================
