------------------------------- MODULE Runtime -------------------------------
(***************************************************************************)
(* The stress runtime of include/mpmc/mpmc_runtime.hpp: a main thread that *)
(* starts and stops it, a supervisor that spawns and joins workers, and    *)
(* workers that move messages of a TaggedPool through an MpmcRing.         *)
(*                                                                         *)
(* The ring and the pool are instances that share the variable held: a     *)
(* worker owns a message from acquire until its push has placed it, and    *)
(* from the exchange of try_pop until it releases it.                      *)
(***************************************************************************)
EXTENDS Integers, FiniteSets

CONSTANTS
  Workers,            \* thread identities; each is spawned at most once (bounds a run)
  MaxOps,             \* operations of a worker are drawn from 1 .. MaxOps (12 in the code)
  max_live_threads_,
  Capacity, CursorMod, PoolCap, NoMsg, Blank, SpuriousCas

VARIABLES
  ring, post_cursor, pop_cursor, pc, arg, slot, probe,  \* the ring
  state, payload, ppc, scan,                            \* the pool
  held,                                                 \* of both
  main,               \* where the thread that calls start and stop is
  supervisor,         \* where the supervisor thread is
  running_, workers_, live_threads_, next_sequence_, pushed_, popped_,
  wpc,                \* worker |-> where it is in producer_main or consumer_main
  left,               \* worker |-> operations it still has to do
  sequence,           \* worker |-> the local variable sequence of producer_main
  consumed            \* history: the sequences consumers have read

PoolSlots == 0 .. PoolCap - 1

(* Each worker takes one number as its seed and one per operation. *)
Sequences == 1 .. Cardinality(Workers) * (MaxOps + 1)

(* A run has finitely many workers, and each does at least one operation   *)
(* (ops_dist(1, 12), mpmc_runtime.hpp).  The ring and the pool are as      *)
(* MpmcRing and TaggedPool assume; slots of the pool stand for addresses,  *)
(* so none is nullptr, and next_sequence_ starts at 1, so no sequence is   *)
(* that of a zeroed body.                                                  *)
ASSUME WorkersAssumption == IsFiniteSet(Workers) /\ MaxOps \in Nat \ {0}
ASSUME RingAssumption    == /\ Capacity \in Nat \ {0}
                            /\ CursorMod \in Nat \ {0} /\ CursorMod % Capacity = 0
                            /\ NoMsg \notin PoolSlots
                            /\ SpuriousCas \in BOOLEAN
ASSUME PoolAssumption    == PoolCap \in Nat \ {0} /\ Blank \notin Sequences

Ring == INSTANCE MpmcRing WITH
  Messages <- PoolSlots, Pushers <- Workers, Poppers <- Workers

Pool == INSTANCE TaggedPool WITH Threads <- Workers, Payloads <- Sequences

ringOnly   == <<ring, post_cursor, pop_cursor, pc, arg, slot, probe>>
poolOnly   == <<state, payload, ppc, scan>>
threads    == <<main, supervisor, running_, workers_, live_threads_>>
counters   == <<pushed_, popped_>>
workerVars == <<wpc, left, sequence>>
vars == <<ringOnly, poolOnly, held, threads, next_sequence_, counters, workerVars, consumed>>

Init ==
  /\ ring = [i \in 0 .. Capacity - 1 |-> NoMsg]
  /\ post_cursor = 0
  /\ pop_cursor = 0
  /\ pc = [w \in Workers |-> "idle"]
  /\ arg = [w \in Workers |-> NoMsg]
  /\ slot = [w \in Workers |-> 0]
  /\ probe = [w \in Workers |-> 0]
  /\ Pool!Init
  /\ main = "stopped"
  /\ supervisor = "none"
  /\ running_ = FALSE
  /\ workers_ = {}
  /\ live_threads_ = 0
  /\ next_sequence_ = 1
  /\ pushed_ = 0
  /\ popped_ = 0
  /\ wpc = [w \in Workers |-> "unborn"]
  /\ left = [w \in Workers |-> 0]
  /\ sequence = [w \in Workers |-> 0]
  /\ consumed = {}

-----------------------------------------------------------------------------
(* The main thread.  start begins with a stop, which finds nothing to join *)
(* when the runtime is stopped.                                            *)

idleForMain == <<ringOnly, poolOnly, held, next_sequence_, counters, workerVars, consumed>>

Start ==
  /\ main = "stopped"
  /\ main' = "started"
  /\ running_' = TRUE
  /\ supervisor' = "check"
  /\ UNCHANGED <<workers_, live_threads_, idleForMain>>

Stop ==
  /\ main = "started"
  /\ main' = "join_supervisor"
  /\ running_' = FALSE
  /\ UNCHANGED <<supervisor, workers_, live_threads_, idleForMain>>

(* Mutant: stop does not wait for the supervisor. *)
JoinSupervisorWithoutWait ==
  /\ main = "join_supervisor"
  /\ main' = "join_all"
  /\ UNCHANGED <<running_, supervisor, workers_, live_threads_, idleForMain>>

JoinSupervisor ==
  /\ main = "join_supervisor"
  /\ supervisor = "exited"
  /\ supervisor' = "none"
  /\ main' = "join_all"
  /\ UNCHANGED <<running_, workers_, live_threads_, idleForMain>>

(* join_all blocks on one worker after the other; it is through when every *)
(* worker has returned.                                                    *)
JoinAll ==
  /\ main = "join_all"
  /\ \A w \in workers_ : wpc[w] = "done"
  /\ workers_' = {}
  /\ live_threads_' = 0
  /\ wpc' = [w \in Workers |-> IF w \in workers_ THEN "joined" ELSE wpc[w]]
  /\ main' = "stopped"
  /\ UNCHANGED <<running_, supervisor, ringOnly, poolOnly, held, next_sequence_, counters,
                 left, sequence, consumed>>

-----------------------------------------------------------------------------
(* The supervisor: look at running_, roll, and do what the roll says.      *)

Check ==
  /\ supervisor = "check"
  /\ supervisor' = IF running_ THEN "roll" ELSE "exited"
  /\ UNCHANGED <<main, running_, workers_, live_threads_, idleForMain>>

(* action < 30: join a worker picked at random if it is done, then go on   *)
(* to spawn a producer.                                                    *)
TryJoinRandom ==
  /\ supervisor = "roll"
  /\ supervisor' = "spawn_producer"
  /\ \/ /\ \E w \in workers_ :
             /\ wpc[w] = "done"
             /\ workers_' = workers_ \ {w}
             /\ wpc' = [wpc EXCEPT ![w] = "joined"]
        /\ live_threads_' = live_threads_ - 1
     \/ /\ workers_ = {} \/ \E w \in workers_ : wpc[w] # "done"
        /\ UNCHANGED <<workers_, live_threads_, wpc>>
  /\ UNCHANGED <<main, running_, ringOnly, poolOnly, held, next_sequence_, counters,
                 left, sequence, consumed>>

(* A worker draws how much it will do from a seed that comes out of the    *)
(* same counter as the sequences of the messages.                          *)
Spawn(w, entry) ==
  /\ Cardinality(workers_) < max_live_threads_
  /\ wpc[w] = "unborn"
  /\ next_sequence_' = next_sequence_ + 1
  /\ wpc' = [wpc EXCEPT ![w] = entry]
  /\ \E ops \in 1 .. MaxOps : left' = [left EXCEPT ![w] = ops]
  /\ workers_' = workers_ \cup {w}
  /\ live_threads_' = live_threads_ + 1
  /\ UNCHANGED <<main, running_, ringOnly, poolOnly, held, counters, sequence, consumed>>

SpawnProducer ==
  /\ supervisor \in {"roll", "spawn_producer"}
  /\ supervisor' = "check"
  /\ \E w \in Workers : Spawn(w, "produce")

SpawnConsumer ==
  /\ supervisor = "roll"
  /\ supervisor' = "check"
  /\ \E w \in Workers : Spawn(w, "poll")

(* The roll was 90 or more, or as many workers are live as may be (or the  *)
(* bound on workers is reached).                                           *)
NoSpawn ==
  /\ supervisor \in {"roll", "spawn_producer"}
  /\ \/ supervisor = "roll"
     \/ Cardinality(workers_) >= max_live_threads_
     \/ \A w \in Workers : wpc[w] # "unborn"
  /\ supervisor' = "check"
  /\ UNCHANGED <<main, running_, workers_, live_threads_, idleForMain>>

-----------------------------------------------------------------------------
(* producer_main *)

At(w, from) == wpc[w] = from

Goto(w, to) == wpc' = [wpc EXCEPT ![w] = to]

(* One operation less; a worker with none left stores done. *)
OneLess(w, again) ==
  /\ left' = [left EXCEPT ![w] = @ - 1]
  /\ Goto(w, IF left[w] = 1 THEN "done" ELSE again)

(* Mutant: the sequence is read and not advanced. *)
ProduceBeginByLoad(w) ==
  /\ At(w, "produce")
  /\ sequence' = [sequence EXCEPT ![w] = next_sequence_]
  /\ Pool!AcquireBegin(w)
  /\ Goto(w, "acquire")
  /\ UNCHANGED <<ringOnly, threads, next_sequence_, counters, left, consumed>>

ProduceBegin(w) ==
  /\ At(w, "produce")
  /\ sequence' = [sequence EXCEPT ![w] = next_sequence_]
  /\ next_sequence_' = next_sequence_ + 1
  /\ Pool!AcquireBegin(w)
  /\ Goto(w, "acquire")
  /\ UNCHANGED <<ringOnly, threads, counters, left, consumed>>

(* Mutant: a producer that gets no message counts one as pushed. *)
ProduceAcquireCountsFailure(w) ==
  /\ At(w, "acquire")
  /\ UNCHANGED <<ringOnly, threads, next_sequence_, counters, sequence, left, consumed>>
  /\ \/ (Pool!AcquireTake(w) \/ Pool!AcquireSkip(w)) /\ UNCHANGED wpc
     \/ Pool!AcquireClear(w) /\ Goto(w, "fill")
     \/ Pool!AcquireFail(w) /\ Goto(w, "pushed")

(* Mutant: a producer that gets no message scans the pool again. *)
ProduceAcquireRetries(w) ==
  /\ At(w, "acquire")
  /\ UNCHANGED <<ringOnly, threads, next_sequence_, counters, sequence, left, consumed>>
  /\ \/ (Pool!AcquireTake(w) \/ Pool!AcquireSkip(w)) /\ UNCHANGED wpc
     \/ Pool!AcquireClear(w) /\ Goto(w, "fill")
     \/ /\ ppc[w] = "scan" /\ scan[w] = PoolCap
        /\ scan' = [scan EXCEPT ![w] = 0]
        /\ UNCHANGED <<state, payload, ppc, held, wpc>>

ProduceAcquire(w) ==
  /\ At(w, "acquire")
  /\ UNCHANGED <<ringOnly, threads, next_sequence_, counters, sequence, consumed>>
  /\ \/ (Pool!AcquireTake(w) \/ Pool!AcquireSkip(w)) /\ UNCHANGED <<wpc, left>>
     \/ Pool!AcquireClear(w) /\ Goto(w, "fill") /\ UNCHANGED left
     \/ Pool!AcquireFail(w) /\ OneLess(w, "produce")

(* fill_test_message writes the sequence with plain stores. *)
ProduceFill(w) ==
  /\ At(w, "fill")
  /\ \E s \in held[w] : Pool!Fill(w, s, sequence[w])
  /\ Goto(w, "push")
  /\ UNCHANGED <<ringOnly, threads, next_sequence_, counters, left, sequence, consumed>>

ProducePush(w) ==
  /\ At(w, "push")
  /\ UNCHANGED <<poolOnly, threads, next_sequence_, counters, left, sequence, consumed>>
  /\ \/ (\E s \in held[w] : Ring!PushBegin(w, s)) /\ UNCHANGED wpc
     \/ Ring!PushProbe(w) /\ UNCHANGED wpc
     \/ Ring!PushStore(w) /\ Goto(w, "pushed")

ProduceCount(w) ==
  /\ At(w, "pushed")
  /\ pushed_' = pushed_ + 1
  /\ OneLess(w, "produce")
  /\ UNCHANGED <<ringOnly, poolOnly, held, threads, next_sequence_, popped_, sequence, consumed>>

-----------------------------------------------------------------------------
(* consumer_main never looks at running_. *)

ConsumePoll(w) ==
  /\ At(w, "poll")
  /\ UNCHANGED <<poolOnly, threads, next_sequence_, counters, left, sequence, consumed>>
  /\ \/ (Ring!TryBegin(w) \/ Ring!TryTake(w) \/ Ring!TryProbe(w) \/ Ring!TryEmpty(w))
          /\ UNCHANGED wpc
     \/ Ring!TryStore(w) /\ Goto(w, "use")

(* Mutant: the message is read and not released. *)
ConsumeUseWithoutRelease(w) ==
  /\ At(w, "use")
  /\ \E s \in held[w] : consumed' = consumed \cup {payload[s]}
  /\ Goto(w, "popped")
  /\ UNCHANGED <<ringOnly, poolOnly, held, threads, next_sequence_, counters, left, sequence>>

(* sequence_from reads the body, then release gives it back. *)
ConsumeUse(w) ==
  /\ At(w, "use")
  /\ \E s \in held[w] : Pool!Release(w, s) /\ consumed' = consumed \cup {payload[s]}
  /\ Goto(w, "popped")
  /\ UNCHANGED <<ringOnly, threads, next_sequence_, counters, left, sequence>>

ConsumeCount(w) ==
  /\ At(w, "popped")
  /\ popped_' = popped_ + 1
  /\ OneLess(w, "poll")
  /\ UNCHANGED <<ringOnly, poolOnly, held, threads, next_sequence_, pushed_, sequence, consumed>>

-----------------------------------------------------------------------------

MainStep == Start \/ Stop \/ JoinSupervisor \/ JoinAll

SupervisorStep == Check \/ TryJoinRandom \/ SpawnProducer \/ SpawnConsumer \/ NoSpawn

WorkerStep(w) ==
  \/ ProduceBegin(w) \/ ProduceAcquire(w) \/ ProduceFill(w) \/ ProducePush(w) \/ ProduceCount(w)
  \/ ConsumePoll(w) \/ ConsumeUse(w) \/ ConsumeCount(w)

Next == MainStep \/ SupervisorStep \/ \E w \in Workers : WorkerStep(w)

Spec == Init /\ [][Next]_vars

(* Every thread is scheduled; whether main ever calls start or stop is its *)
(* own business, but a stop that was called goes on.                       *)
Fairness ==
  /\ WF_vars(JoinSupervisor \/ JoinAll)
  /\ WF_vars(SupervisorStep)
  /\ \A w \in Workers : WF_vars(WorkerStep(w))

FairSpec == Spec /\ Fairness

-----------------------------------------------------------------------------

TypeOK ==
  /\ Ring!TypeOK
  /\ Pool!TypeOK
  /\ main \in {"stopped", "started", "join_supervisor", "join_all"}
  /\ supervisor \in {"none", "check", "roll", "spawn_producer", "exited"}
  /\ running_ \in BOOLEAN
  /\ workers_ \subseteq Workers
  /\ live_threads_ = Cardinality(workers_)
  /\ next_sequence_ \in Sequences \cup {Cardinality(Workers) * (MaxOps + 1) + 1}
  /\ pushed_ \in Nat /\ popped_ \in Nat
  /\ wpc \in [Workers -> {"unborn", "produce", "acquire", "fill", "push", "pushed",
                          "poll", "use", "popped", "done", "joined"}]
  /\ left \in [Workers -> 0 .. MaxOps]
  /\ sequence \in [Workers -> {0} \cup Sequences]
  /\ consumed \subseteq Sequences \cup {Blank}

Published == {ring[i] : i \in 0 .. Capacity - 1} \ {NoMsg}

Count(where) == Cardinality({w \in Workers : wpc[w] = where})

(* Every variable is in its range, the count of live threads right; a slot *)
(* of the pool is acquired exactly while one worker uses it or the ring    *)
(* publishes it; no worker, done or not, walks away with a message.        *)
NoMessageLeaks ==
  /\ TypeOK
  /\ \A s \in PoolSlots :
       state[s] = Pool!Acquired <=>
         (s \in Published \/ \E w \in Workers : Pool!Uses(w, s))
  /\ \A s \in PoolSlots, w, u \in Workers : Pool!Uses(w, s) /\ Pool!Uses(u, s) => w = u
  /\ \A s \in Published, w \in Workers : ~Pool!Uses(w, s)
  /\ \A w \in Workers : held[w] # {} => wpc[w] \in {"fill", "push", "poll", "use"}

(* What producer_main wrote is what one consumer_main reads, once: bodies  *)
(* on their way hold distinct sequences that nobody has consumed yet.      *)
EachSequenceOnce ==
  LET onTheWay == Published \cup UNION {held[w] : w \in {u \in Workers : wpc[u] \in {"poll", "use"}}}
  IN  /\ Blank \notin consumed
      /\ \A s \in onTheWay : payload[s] \in Sequences \ consumed
      /\ \A s, r \in onTheWay : payload[s] = payload[r] => s = r

(* The two counters are bumped after the operation they count, so popped() *)
(* may run ahead of pushed(); what they miss is exactly what is in flight. *)
CountersConserve ==
  pushed_ + Count("pushed") =
    popped_ + Count("popped") + Cardinality(Published)
            + Cardinality({w \in Workers : wpc[w] \in {"poll", "use"} /\ held[w] # {}})

(* After stop every worker is gone, and what the pool has out is what the  *)
(* ring still holds: main's report of pushed, popped and live adds up.     *)
StoppedIsQuiet ==
  main = "stopped" =>
    /\ \A w \in Workers : wpc[w] \in {"unborn", "joined"}
    /\ pushed_ - popped_ = Cardinality(Published)
    /\ {s \in PoolSlots : state[s] = Pool!Acquired} = Published

(* With no more messages than slots a producer is never stuck in push,     *)
(* even when there is no consumer.                                         *)
ProducersFinish ==
  \A w \in Workers : wpc[w] = "produce" ~> wpc[w] \in {"done", "joined"}

(* "runtime.stop()" is followed by the report (main.cpp:434-437): stop     *)
(* returns.                                                                *)
StopReturns == main = "join_supervisor" ~> main = "stopped"
=============================================================================
