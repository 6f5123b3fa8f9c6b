# MPMC with memory management: TLA+ models and proofs

The program under `src/` receives exchange market data on multicast groups, hands the frames through a
two-slot shared inlet to a reader thread, decodes them into pooled messages on a multi-producer
multi-consumer ring, runs a price band strategy and order consumers over more such rings, and ends with a
stress run of ring and pool. This directory models it, checks the models with TLC and proves the main
results about every part with TLAPS, for every size. Paths below are the repository's
(`main.cpp` is `src/main.cpp`, a header without a path is under `include/`); in `PROJECT.json` they begin
with the `src/` the repository's root is under.

## 1. The system

| component | code | state | operations | what makes it hard |
|---|---|---|---|---|
| MPMC ring | `include/mpmc/mpmc.hpp`, `data.hpp` | 4096 atomic pointers, post and pop cursor (relaxed ints) | `push` (blocks on a full ring), `pop` (blocks on an empty one), `try_pop` (one pass) | all calls race on every slot; the cursors are hints that `try_pop` overwrites; an int wraps; a weak compare-exchange |
| Tagged pool | `include/mem/memory_pool.hpp` | 16384 bodies in plain memory, a state byte each | `acquire`, `acquire_filled`, `release` | the byte is the only synchronization; null after one pass; a double release frees somebody else's body |
| Stress runtime | `include/mpmc/mpmc_runtime.hpp` | `running_`, workers, counters | `start`, `stop`, supervisor, producer and consumer threads | threads spawned and joined at random while `stop` runs; counters bumped late; a consumer's quota nobody fills |
| Shared inlet | `include/feed/shared_inlet.hpp` | two frame slots, `sequence`, `published`, `processed` | `publish`, `wait_until_processed` | slots are written and read in place with plain accesses; nothing excludes a second writer |
| Reader thread | `include/feed/feed_reader.hpp` | `running_`, `last_sequence_` | `start`, `run`, `stop` | index and sequence are loaded apart; every skip path must acknowledge |
| Multicast hub, simulator | `include/feed/multicast_receiver.hpp`, `multicast_simulator.hpp` | sockets, counters per channel | hub thread, `stop`; send | loss, reordering, partial start, a stop in the middle of a round |
| Sockets | `src/udp_multicast.cpp` | a descriptor or -1 | open, close, send, receive | a refused option after the descriptor was given; numbers that are reused |
| Memory regions | `src/os_memory.cpp` | a base address | map or abort, release | threads that must not outlive them |
| Feed phase of main | `main.cpp` 203-289 | its objects, counters it polls | start all, send, poll, stop, publish again | timeouts against late datagrams; two threads that write the inlet |
| Ingress, splitting | `include/feed/frame_ingress.hpp`, `include/proto/{itch,mtbt}_decode.hpp` | the offset of the split loop, counters | frame to ticks | lengths and stop conditions, signed lengths; pool or ring exhausted |
| Wire codecs | `include/proto/{sbe,mcx}/decode.hpp` | an offset | encode, split, decode | lengths that come off the wire; totals computed twice |
| Strategy | `include/trading/strategy.hpp` | a reference price per producer | `update_ref_price`, `evaluate` | 32-bit overflow, integer division at the edges |
| Producers, consumers, gateway | `include/trading/{producer,consumer,gateway}.hpp` | tokens, statistics, reference numbers | `on_tick`, `poll_once` | three consumers share one queue and put back what is not theirs |
| Trading phase of main | `main.cpp` 291-390 | queues, counts | route, `drain_signals`, drain orders and confirms, SBE path | a fixed number of rounds; messages reused in place from tick to confirm |
| lz4, arch | `src/lz4_codec.cpp`, `include/core` | none | library calls | outside the models |

How they interact: the hub thread and main *write* the inlet; the reader thread takes from it, acquires
pool slots and pushes ticks into `market_queue`; when the reader is joined, main alone moves those messages
through the other queues, in place; then the runtime's threads use the same pool and `market_queue`.

What makes each part correct:
* ring: a message is in one slot or with one thread, is delivered when somebody keeps polling, in order when
  calls do not overlap, and a `false` of `try_pop` means something a caller can rely on;
* pool: a body has one user, a slot is acquired exactly while used, a null means something;
* runtime: no message leaks, each is consumed once, the counters add up, `stop` leaves nothing running;
* inlet: the reader never reads a slot that is being written, and takes every frame once and in order;
* feed phase: every frame has been ingested when trading starts, what a thread uses outlives it, nothing
  is left open, and the program ends;
* ingress: every complete record of a frame is handled once, none reaches past the frame, no slot is lost;
* codecs: all of a message is written or nothing, decoding stays within what arrived, and what is accepted is
  what was sent;
* trading: no message is lost between stages, the printed statistics add up, a confirm tells its order.

The hazards this code is exposed to, each at its line with the properties that cover it, are the list
`hazards` of `PROJECT.json`.

## 2. Modules

```
MessageBag <=refines= RingWatch -> MpmcRing <- RingOrder      TaggedPool <- PoolWatch
                                       ^                          ^              |
                                       +------- Runtime ----------+        TaggedPoolProofs
                                              (INSTANCEs of both)
RingHistoryProofs -> RingWatch, RingOrder, MpmcRingProofs -> MpmcRing

Runtime <- RuntimeProofs
HandOff <=refines= SharedInlet; SharedInlet, Sockets <- FeedStartup <- FeedStartupProofs
Strategy <- TradingPipeline <- TradingPipelineProofs
Ingress <- IngressProofs      Codecs <- CodecsProofs
```

`A <- B` says that B extends A; each `MC…` module gives one of them its sets for TLC. The operators whose
comment begins with *Mutant* are faulty variants of the definition that follows them. No specification
uses them; they document which mistake in the code each property would notice.

**MpmcRing.** One action per shared access: `PushBegin` is the `fetch_add` of the post cursor (mpmc.hpp:43),
`PushStore`/`PushProbe` a compare-exchange that succeeds or fails, `PopBegin`, `PopTake`, `PopProbe` the same
of `pop`, `TryBegin`, `TryTake`, `TryProbe`, `TryEmpty`, `TryStore` the loaded cursor, the exchanges, the
`return false` and the plain store of the cursor after a success. `slot` and `probe` are the local variables,
`held` says which messages a thread owns. Interleaving of single accesses is justified by the code's memory
orders: a message changes hands only by a release and an acquire on the same slot, per slot all operations
are read-modify-writes, and nothing is concluded from a cursor. `SpuriousCas` says whether
`compare_exchange_weak` may fail on an empty slot (load-linked/store-conditional, ARM64) or not (x86_64).
**MessageBag** is what a caller may assume of the ring; **RingWatch** adds the history variable `unseen` that
makes the implementation visible; **RingOrder** adds the order of pushes and restricts calls not to overlap,
as in the phases of main.

**TaggedPool** does the same for the pool. `AcquireClear` is separate from `AcquireTake`: the body is zeroed
with plain stores after the byte was won. `HandOver` stands for a queue between threads. **PoolWatch** adds
the history of a scan.

**Runtime** instantiates ring and pool over the shared variable `held`; its workers call the actions of
both, and `wpc` says where in `producer_main` or `consumer_main` a worker is. The supervisor's random rolls
are nondeterministic choices. Each worker identity is spawned once, and a worker does at most `MaxOps`
operations.

**SharedInlet** is `publish`, the wait, and the reader's loop. A copy into a slot takes two steps with the
slot `Torn` in between, and the reader reads the slot in two steps, header and body, so that an overlap of
the two shows. Every reason to skip a frame leads to the same two stores, so ingesting and skipping are one
action. The push of a tick inside the ingest never blocks here: main's frames make at most 13 ticks
for 4096 slots. **HandOff** is what the inlet is for, without slots and counts: a frame goes from its writer
to the inlet, is handled, and only then the writer goes on. `OneFrame` in SharedInlet is the mapping: whose
call is under way, and whether `taken` has caught up with `log`.

**Sockets** is the table of descriptors under the six `UdpMulticastSocket` objects: opening takes the lowest
free number or fails and leaves nothing, closing gives it back, and a number that was closed soon names another
socket. **FeedStartup** composes inlet and sockets with the hub thread, main and the network, from
the first mapping to the last destructor. Each mapping may end the program (`MapRegion`); each socket of hub
and simulator may fail to open, the hub undoing what it had (`UndoHub`), the simulator not; the hub thread
copies its descriptors once (`HubCopy`); a datagram may be lost, and those of a channel may arrive in any order, but
the network does not duplicate. `StopHub`/`JoinHub` and `StopReader`/`JoinReader` are `stop` from each of
its callers (`HubStops`, `ReaderStops`): the feed phase, the early return when compressing fails
(`CompressFails`), and the destructors. `Trade` stands for everything in between. `Spec` is the program alone on its
multicast groups; `OpenSpec` adds one datagram of another sender.

**Ingress** is what `SharedInlet` takes as one action: the split loop of the frame's kind, one action per
iteration (`ItchRecord`, `MtbtRecord`, the one record of `McxRecord`), then `Acquire` or `AcquireFails` and
`Push` of the handler. A frame is its length, the length field at each offset and the offsets where a known
message type stands; the bytes themselves do not matter to the control. `Take` and `Release` are
the surroundings: a successful `pop` or `try_pop` of the market queue and a `release`, by any caller at any time. In the program
that is main, after the reader was joined; what a caller does with the tick in between is not part of this module. The reader is alone in acquiring and pushing, so that each of the two is one step
here; what they consist of is in TaggedPool and MpmcRing. `Handled` is a history variable's update. The length
of an MTBT packet is signed; `Wrapped` is its conversion to `size_t` and the sum's wrap. `Frames` may hold
negative lengths that stay huge, which `Spec` covers; `BrokenFrames` those that reach back into the frame (`BrokenSpec`).

**Codecs** is one message on its way: `EncodeFixed` and `AppendString` write it into a buffer, `Send`
delivers all or a part of it, or something else arrives (`Wires`); `SplitFrame` or nothing looks at the frame
(`Deliver`, as in main.cpp:404-426), `DecodeFixed` and `ReadString` decode. A layout is a format, a template, a
schema, a block size and the sizes of the string fields, so that the decoders of the five messages are one.
A wire has one number for each field of the header and for each byte behind it. `Encoding` says what the
whole message is; the encoder's steps and the decoder's are compared with it.

**Strategy** is the arithmetic, on integers; `NoOverflow` lists the results that the code has to hold in 32 bits for one tick, and
`InRange` are the prices of which they fit. **TradingPipeline** is main.cpp:291-390 with `on_tick`, the four consumers'
and the gateway's `poll_once`, in one thread, one action per iteration of a loop. The eight queues are
sequences: one thread calls them and they never fill, which is the situation `ring_order` checks the ring in.
A message keeps the fields the properties tell apart (kind, feed, price, side, security, token, reference
number); text fields, quantities, `next_seq_` (it repeats `submitted_`) and layouts are left out. `Arrivals`
is every content of `market_queue` the feed phase can leave: main's own frames with their prices, in every
order of the multicast frames, or a part of them followed by all of them again.

## 3. Checks

| run | asks | instance | shows |
|---|---|---|---|
| `ring_watch` | safety of the ring under every interleaving, does everything arrive, does push return | 2 slots, cursors modulo 4, 2 threads that push and pop, 3 messages, spurious failures on | `OneOwner`, `PassedSlotsHoldNoUnseen`, `FailedTryPopSawAll`, refinement of the bag, `Delivered`, `PushReturns` |
| `ring_order` | order between calls that do not overlap | 4 slots, cursors modulo 8, 5 messages, unbounded phases | `FirstInFirstOut`, `NoDetour` |
| `pool_watch` | safety of the pool | 3 threads, 3 bodies | `BodyHasOneUser`, `AcquiredIffUsed`, `FailedAcquireSawAll` |
| `runtime` | ring, pool and runtime together, and do producers finish | 2 workers, 1 to 3 operations each, 2 slots, 2 bodies | `NoMessageLeaks`, `EachSequenceOnce`, `CountersConserve`, `StoppedIsQuiet`, `ProducersFinish` |
| `runtime_stop` | does `stop` return | 2 workers, 1 operation | violated: a consumer that waits for what nobody produces |
| `feed` | feed phase and clean-up, program alone | main's five frames, six regions, six sockets, every loss, order, failure to open, map or compress, and timeout | `SafeToRead`, `HandedOverInOrder`, `NothingMissing`, `OneWriter`, `ThreadsKeepWhatTheyUse`, `NoHandleLeaks`, refinement of the hand-over, `MainExits` |
| `feed_two_writers` | the same with one datagram of another sender | as above | violated when only the simulator failed to start |
| `ingress` | what becomes of a frame | every frame of 1 to 6 bytes with length fields 0 to 3, or negative beyond their offset, sizes scaled, pool of 2, queue of 1, any filling of both at the start | `WithinFrame`, `EachRecordOnce`, `SlotsConserve`, `LoopAdvances`, `IngestReturns` |
| `ingress_negative` | "packets back-to-back" of mtbt_decode.hpp:61 | frames of up to 5 bytes with a negative length that reaches back | violated: the loop goes back |
| `codecs` | what becomes of a message | 4 messages, both formats, 0 to 2 strings of up to 3 bytes, every buffer from 0 to 13, every truncation, and wires with right and wrong headers and up to 5 arbitrary bytes | `AllOrNothing`, `WithinBounds`, `RoundTrip` |
| `trading` | the pipeline on main's prices | 88 arrival sequences, 32 and 8 rounds as in the code | `PoolAgrees`, `StatsAddUp`, `TokensNameOneOrder`, `ConfirmsMatchSignals`, `LeftoversAreStuck`, `RuntimeStartsClean` |
| `trading_drain` | is every signal submitted | as above | violated: `drain_signals` can pass the same signals around until its rounds are over |

What each property says is in the comment above it. `FailedTryPopSawAll` deserves a word: `false` does not
mean that the ring was empty at any one moment, only that whatever was in it when the call began has been
taken by others. `CountersConserve` makes a similar point: `popped()` may run ahead of `pushed()`.

*Bounds.* Two slots already give a scan that passes a slot, a slot refilled behind the scan, a full and an
empty ring, wraparound in every second call; with three messages and two threads that do everything, one may
push, pop and poll behind the other's back any number of times within one call (`SingleOwnership`,
`FailedTryPop` and `RingImplementsBag` hold for any number of threads). Cursors modulo twice the capacity reach both "same slot, other lap" and the wrap of
the int. Nothing else bounds ring and pool: their runs are exhaustive, with no limit on the number of calls.
In `runtime` the bound on live workers is reached as in long runs (`NoSpawn`), one may be joined before the
other is spawned, and three operations outlast a pool of two. A third worker, spawned after a join while the second still works, is
beyond the bound.
In `ingress` the sizes are scaled to 1 to 3 bytes, so
that six bytes hold two good records with a rest, or records of wrong sizes before and between them, or one
that does not fit; a queue of one and a pool of two run full and empty within a frame. `feed` and `trading` use the program's own frames and constants; nothing
in them is scaled down except the repetition of the poll loop, which may stop at any point. In `codecs` a block of
one byte and fields of two and three have every case of a string: empty, short, as long as its field, longer. Symmetry
is used over the threads and contents of `pool_watch`, which has no liveness property. `ring_watch` and the proofs, which do
not depend on sizes, agree on the same formulas.

*Deadlock* is checked for ring, pool and runtime, where somebody can always go on. `feed`,
`ingress`, `codecs` and `trading` end.

*Fairness.* Weak fairness of each thread (one conjunct per thread of the program): the operating system
schedules it. In the ring, a popper polls again and again (the consumers do), and nobody is obliged to push.
In the runtime, nobody is obliged to call `start` or `stop`. In the ingress only the
reader is fair: nobody has to poll the market queue, and `IngestReturns` is conditional on room in it. So is `PushReturns` on poppers, and
`ProducersFinish` on a ring as large as the pool: that a phase which only pushes hangs on a full ring is no property here (the
feed phase pushes at most 13 ticks, the 200 ms of the runtime a few hundred messages, for 4096 slots).
In the feed phase, `poll` has a timeout
(multicast_receiver.hpp), so the hub thread always goes on; main's patience is finite but unknown. A
compare-exchange on an empty slot may fail spuriously any number of times, but not for ever while no store
ever succeeds: what processors with load-linked/store-conditional guarantee of a loop around it.

## 4. Findings

* `stop` of the runtime may never return (mpmc_runtime.hpp:192): `consumer_main` does not look at `running_`.
* When `hub.start` succeeds and `sim.start` fails, main publishes by itself although the hub thread runs
  (main.cpp:224, 245). As long as nobody else sends to the groups this is harmless (`OneWriter` holds in
  `feed`); with another sender the two writers overlap and a slot is written while it is read.
* `drain_signals` makes no progress on some orders of signals (main.cpp:107; consumer.hpp:39-42).
  `LeftoversAreStuck` says exactly which: what is left is a multiple of three and no consumer meets its own.
* A negative `msg_len` of an MTBT packet that is no larger than the packet's offset passes the checks of
  `split_mtbt_frame` (mtbt_decode.hpp:78-82) through the wrap of `offset + packet_len`: the loop goes back, hands
  the same packets over again and does not end. Larger negative lengths are refused, as `ingress` shows.

Smaller remarks, which no run is about: on ARM64 `push` may skip an empty slot although the comment of
mpmc.hpp:51 says "Slot occupied" (messages still arrive, `ring_watch`); the encoders and the gateway
(gateway.hpp:75-79) accept a string as long as its field, which the decoders refuse (`RoundTrip` names the case);
a block longer than the compiled one is accepted and its strings are read from within the block; mcx/common.hpp:10
says that a body length is a multiple of 8, `ExecutionReportNew` has 188 bytes; protocols.hpp:147 says
"112-byte body" of a struct of 100.

## 5. Proofs

All proofs are by TLAPS, for every value of the constants that satisfies the named assumptions
(see below). TLC evaluates these in every run that extends the modules. Each inductive invariant was checked
with TLC on the instance of its component's run before it was proved.

* **MpmcRingProofs** `TypeCorrect`; `SingleOwnership` (`Spec => []OneOwner`). `OneOwner` alone is not
  inductive: a pusher between `PushBegin` and `PushStore` must still own its argument. The
  inductive invariant is `OwnershipInv` = `TypeOK` /\ `PusherOwnsArg` /\ `OneOwner`. The cursor arithmetic is
  in lemmas (`ModOfSum`, `ProbesCoverRing`: the probes of `try_pop` are different slots and reach all of them).
* **RingHistoryProofs** `PassedSlots`, `FailedTryPop` and `RingImplementsBag`. `WatchInv` adds what a
  scan has passed: no slot behind it holds a message the scan should have found. At the end of a scan
  `ProbesCoverRing` turns that into "nothing is left" (`EndOfScan`), which is the guard of `EmptyPoll`
  in the bag. The refinement has one lemma per kind of step: a store offers, an exchange takes, the rest
  stutters, under the mapping `bag <- Resident`, `polling <- ` the threads in `try_pop`.
  `RingIsFirstInFirstOut` and `RingMakesNoDetour` (`PhasedSpec` implies `FirstInFirstOut` and `NoDetour`) are about calls that do not
  overlap and rest on `OrderInv`, whose new part is `ArcInv`: from some slot `first` on, the messages lie in consecutive
  slots in the order of their pushes and every other slot is empty. The two cursors point to the ends of that arc,
  except for what the one call under way has still to do: a `push` has moved the post cursor before it stores, a
  `pop` has moved the pop cursor before it takes, and `try_pop` moves it only after it took (`CursorsAtEnds`). The hypothesis `~SpuriousCas` is
  needed: a compare-exchange that fails on an empty slot makes `push` leave a gap in the arc.
* **TaggedPoolProofs** `PoolTypeCorrect`, `OneUserPerBody`, `StateByteTellsTheTruth` from `PoolInv`
  (the two properties need each other: a successful compare-exchange has one user because a free byte has
  none). `FailedAcquire` is proved from `ScanInv` under `~SpuriousCas`; with spurious failures
  it is false.
* **RuntimeProofs** `RuntimeLeaksNoMessage`, `RuntimeReadsEachSequenceOnce`, `RuntimeCountersConserve`,
  `RuntimeStopsQuiet`, for any number of workers, slots, bodies and operations, from `RuntimeInv`. Ring and pool
  are instances over the one variable `held`, so the steps of each must be shown not to disturb the other:
  `OwnerInv` gives every body one place (free, a slot of the ring, or one worker), and `ThreadsInv` says what a
  worker may hold at each `wpc`. `SequenceInv` follows a number from `fetch_add` to the consumer. A late counter
  is a debt of one worker: `CountersConserve` is inductive only with `BudgetInv`, which says how many operations each
  worker still owes and bounds the numbers that will be taken.
* **FeedStartupProofs** `FeedTypes`, `FeedHasOneWriter`, `FeedSlotIsSafeToRead`, `FeedHandsOverInOrder`,
  `FeedLeaksNoHandle`, `FeedThreadsKeepWhatTheyUse`, `FeedMissesNothing` from `FeedInv`, for any channels,
  regions and frames. Its core is `InletInv`: where each side stands between `sequence` and `processed`
  (`ReaderInv`, `WriterInv`), which makes a slot safe only while there is one writer; that there is one comes from
  `ControlInv` (when the hub was joined, on every way out of main) and `DirectInv` (main writes by itself only after
  the join, or when nothing was sent). `DescriptorsInv`, `OpenInv` and `MappedInv` are about the handles; `NextInv`,
  `MulticastInv` and `ReceivedInv` count datagrams and frames, which `NothingMissing` needs. `FeedInletHandsOver`
  (`Spec => ImplementsHandOff`) is the refinement: under `OneWriter` at most one call is under way (`PlaceOf`), and each of
  the program's steps is one of the hand-over or leaves it alone: the begin of `publish` calls, the store of
  `sequence` gives, the reader's ingest handles, the end of the wait returns (`OneWriterFollows`, `InletSteps`).
* **TradingPipelineProofs** `PipelineLosesNoMessage`, `PipelineStatsAddUp`, `PipelineTokensAreUnique`,
  `PipelineConfirmsMatchSignals`, `PipelineLeavesItClean` from `PipelineInv`, for any pool, any arrivals and any number
  of rounds that is not less than what arrives. `SlotsInv` and `KindsInv` say which queue a message is in and what it
  is there; `StatsInv` and `TokensInv` count messages as sets of pool slots, since a message keeps its slot from
  tick to confirm, and `WaitingIsOut` turns that into the positions of a queue; `ContentInv` follows what a
  signal said; `RoundsInv` says for each loop of main that the rounds left are enough for what its queue holds.
  `PipelineLeavesOnlyStuckSignals` is `Spec => [](FewSignals => LeftoversAreStuck)`. While `drain_signals` runs, `DrainInv`
  counts the refusals in a row, `p`, and bounds the polls done by `Cost(n0) - Cost(n) + p`, where `Cost(n)` is n * (n + 2), n the signals now in the queue and n0
  those at the start. A queue whose length is not a multiple of three shows each signal to another consumer in the next
  turn, so after two turns of refusals its head meets its own; when the length is a multiple of three, one turn of
  refusals already means that the queue is stuck for good. With n0 * (n0 + 2) polls either that happens or the queue is emptied. `FewSignals` is that bound; it depends on prices, not only on how
  many ticks arrive, so it is a hypothesis here, and `LeftoversAreStuck` states it of main's arrivals, which TLC checks.
  Of the strategy: `ReferenceFollows` (the reference moves toward the price and never past it),
  `StaysInRange` (while reference and prices are `InRange`, every result on the way through `update_ref_price` and `evaluate`
  fits in 32 bits, the edges of the band included, and the new reference is in range again), `OutOfRangeOverflows` (that range is as wide
  as it can be), `SignalsLeaveTheBand`. `PipelineArithmeticFits` carries `StaysInRange` through the
  pipeline: whatever tick a producer handles next, its arithmetic does not overflow (`NextTickFits`).
* **IngressProofs** `IngressTypeCorrect`, `RecordsStayWithinFrame`, `NoSlotLost`, `SplitTerminates` from
  `IngressInv` = `LoopInv` /\ `TicksInv`, and `RecordsHandledOnce` with `RecordsInv`: what has been handled
  is the chain of headers from the start of the frame up to `offset`, and the counters are its numbers. To count the ticks in the queue as a set, each pushed one must be
  new: the record in hand begins at `offset`, and every tick anybody else has comes from before that.
  `FramesAssumption` (no negative length reaches back into its frame), `ModulusAssumption` and `SizesAssumption`
  (headers are not empty) are what it rests on; `AcceptedLengths` says that under them the checked sum is the true one.
* **CodecsProofs** `DecodersStayWithinBounds`, `EncodersWriteAllOrNothing` and `CodecsMakeTheRoundTrip`
  (`Spec => []WithinBounds`, `[]AllOrNothing`, `[]RoundTrip`) for all layouts with any number of strings, all messages, buffers and wires. `CodecsInv` = `EncoderInv` /\ `DecoderInv` adds
  where the decoder stands: `k` names a string of the layout while one is read, and what is read is numbers. `TripInv` adds
  what has been written (`WrittenInv`: the first k - 1 strings of `Encoding`, and room for the rest), what a partial delivery
  keeps (`CarriedInv`) and what has been read (`ReadInv`: encoded again it is the wire up to `offset`). That the encoders' total is the length of
  what they append, and that encodings of which one continues the other's bytes agree string by string, are inductions over the number of
  strings; they are done with the least counterexample of a set of numbers.

The assumptions, and why the code satisfies them:

* ring and pool: `CapacityAssumption`, `PoolCapAssumption`, `NoMsgAssumption`, `BlankAssumption`,
  `SpuriousAssumption` are types; `CursorModAssumption` says that the cursor range is a multiple of the capacity, as
  2^32 is of 4096.
* runtime: `WorkersAssumption` (finitely many workers, each with a bounded number of operations), `RingAssumption`,
  `PoolAssumption` (the same of its two instances, and a blank body is not a number).
* feed phase: `WritersAssumption`, `EndpointsAssumption`, `MarkersAssumption`, `DescriptorAssumption` (who writes, which
  sockets there are, that markers are no frames); `ChannelsAssumption` (every frame has a channel), `RegionsAssumption`
  (the inlet is one of the mappings), `SimFramesAssumption` (the simulator sends each of its frames once, main.cpp:134-142, and
  the lz4 frame is none of them), `ExpectedAssumption` (main waits for at least as many datagrams of a channel as are
  sent on it, main.cpp:239-243).
* trading: `RoundsAssumption`, `ArrivalsAssumption` and `BbosAssumption`: no more ticks than rounds (main has at most
  13 ticks for 32 rounds, two for 8), each with a price `InRange` (up to 214748364 with main's band; the code checks none, so a larger price overflows in it and is outside the model); `PoolAssumption`: slots are numbers.
* ingress: `FramesAssumption` (no negative length reaches back into its frame: the program's own frames have none),
  `CapsAssumption`, `SizesAssumption`, `ModulusAssumption` (the sizes of `proto/` and of `size_t`).
* codecs: `LayoutsAssumption`, `MessagesAssumption`, `WiresAssumption` are types, and MCX messages have no strings
  (`proto/mcx/` has fixed fields only). That lengths fit the `uint8_t` of the code is not needed.

Model-checked only: liveness (`Delivered`, `PushReturns`, `ProducersFinish`, `MainExits`, `IngestReturns`), which needs fairness
and ENABLED. Every other property of a passing run is a theorem above, under the named hypotheses: `~SpuriousCas` for
`FailedAcquireSawAll`, `FirstInFirstOut` and `NoDetour`, and `FewSignals` for `LeftoversAreStuck`.

## 6. Not modelled

The byte layouts of the messages (`protocols.hpp`, the structs of `proto/sbe` and `proto/mcx`), `read_template_id`
and `align_body_len`; lz4 beyond its failing return; what a socket option does; sizes, alignment and page hints of
mappings and the moves of a region's handle; a datagram that the kernel discards between `poll` and `recv`; a second process on the shared inlet
(`shared_inlet_map.hpp`), which the program never starts; the producers' `poll_once`, which nothing calls;
statistics text. Nothing is persisted, so there is no recovery to model.

## 7. Plan

Done, in this order: ring and its bag, pool, runtime, inlet and feed phase, trading pipeline, strategy,
ingress, the sockets and the clean-up of main, codecs; proofs of ring, pool, strategy, ingress and codecs, then of
runtime, feed phase and trading pipeline, then of the order of the ring, the hand-over of the inlet, the round trip of the codecs and the
signals that `drain_signals` leaves. Open: the producers' `poll_once` and the acquire path of `on_tick`, if a caller ever uses them; a network that
discards a datagram between `poll` and `recv`.
