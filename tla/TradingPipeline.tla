--------------------------- MODULE TradingPipeline ---------------------------
(***************************************************************************)
(* The trading part of src/main.cpp (291-390), which one thread runs once  *)
(* the feed reader is joined: route the ticks of the market queue to the   *)
(* producers (include/trading/producer.hpp), poll the order consumers      *)
(* (consumer.hpp) and the exchange gateway (gateway.hpp) for a fixed       *)
(* number of rounds, count the confirms; then the same for the SBE venue   *)
(* with queues of its own.                                                 *)
(*                                                                         *)
(* One message is handled in place all along: a tick becomes a signal, an  *)
(* order and a confirm in the same pool slot.  A Kind of the code is a     *)
(* pair here, what the message is and the feed it came from: Kind::nnf is  *)
(* an order of the feed mtbt.  One thread calls the queues, so they are    *)
(* first in, first out, and never full (4096 slots): the runs of RingOrder *)
(* show it.                                                                *)
(***************************************************************************)
EXTENDS Strategy, Sequences, FiniteSets

CONSTANTS
  PoolSlots,    \* the pool: a set of slot numbers
  Arrivals,     \* what the feed phase may leave in market_queue: sequences of ticks
  Bbos,         \* the SBE ticks main makes
  Rounds,       \* 32 polls of each stage
  SbeRounds     \* 8 polls of each SBE stage

VARIABLES
  acquired,     \* the pool slots whose state byte is 1
  body,         \* pool slot |-> the message in it
  queue,        \* queue |-> sequence of the pool slots it holds
  phase,        \* the loop of main that is running
  round,        \* its loop variable
  ref_price_, next_token_, signals_,  \* feed |-> of its producer
  submitted_,                         \* feed |-> of its consumer
  next_ref,                           \* feed |-> the gateway's next number for it
  confirmed,                          \* feed |-> main's count of confirms
  emitted,                            \* history: the signals the producers have emitted
  acknowledged                        \* history: the confirms main has counted

pool      == <<acquired, body>>
producers == <<ref_price_, next_token_, signals_, emitted>>
counts    == <<confirmed, acknowledged>>
stats     == <<producers, submitted_, next_ref, counts>>
vars  == <<pool, queue, phase, round, stats>>

Feeds       == {"itch", "mtbt", "mcx", "sbe"}
MarketFeeds == Feeds \ {"sbe"}

Queues == {"market", "signal", "pending", "confirm",
           "sbe_market", "sbe_signal", "sbe_pending", "sbe_confirm"}

Message == [kind : {"tick", "signal", "order", "confirm"}, feed : Feeds, price : Nat,
            ask : Nat, exponent : -8 .. 8, security : Nat, side : {"none", "buy", "sell"},
            token : Nat, ref : Nat]

Blank == [kind |-> "tick", feed |-> "itch", price |-> 0, ask |-> 0, exponent |-> 0,
          security |-> 0, side |-> "none", token |-> 0, ref |-> 0]

(* An order of a depth feed, and a top of book: price is then the bid. *)
Tick(feed, price, security) ==
  [Blank EXCEPT !.feed = feed, !.price = price, !.security = security]

Quote(feed, bid, ask, exponent, security) ==
  [Tick(feed, bid, security) EXCEPT !.ask = ask, !.exponent = exponent]

Init ==
  \E ticks \in Arrivals :
    /\ acquired = 1 .. Len(ticks)
    /\ body = [s \in PoolSlots |-> IF s \in DOMAIN ticks THEN ticks[s] ELSE Blank]
    /\ queue = [q \in Queues |-> IF q = "market" THEN [i \in DOMAIN ticks |-> i] ELSE <<>>]
    /\ phase = "route"
    /\ round = 0
    /\ ref_price_ = [f \in Feeds |-> 0]
    /\ next_token_ = [f \in Feeds |-> 1]
    /\ signals_ = [f \in Feeds |-> 0]
    /\ submitted_ = [f \in Feeds |-> 0]
    /\ next_ref = [f \in Feeds |-> 1]
    /\ confirmed = [f \in Feeds |-> 0]
    /\ emitted = {}
    /\ acknowledged = {}

-----------------------------------------------------------------------------
(* try_pop and push of one thread, and release *)

Popped(q) == [queue EXCEPT ![q] = Tail(@)]

(* Pop from q and push to r. *)
Moved(q, r) == [Popped(q) EXCEPT ![r] = Append(@, Head(queue[q]))]

Drop(q) ==
  /\ acquired' = acquired \ {Head(queue[q])}
  /\ queue' = Popped(q)
  /\ UNCHANGED body

Bump(counter, feed) == [counter EXCEPT ![feed] = @ + 1]

-----------------------------------------------------------------------------
(* on_tick of the producers: what their signals say *)

ItchSignal(tick) == [Blank EXCEPT !.feed = "itch", !.price = tick.price]

MtbtSignal(tick) ==
  [Blank EXCEPT !.feed = "mtbt", !.price = tick.price, !.security = tick.security]

(* Repeated division by ten rounds toward zero like one division. *)
apply_exponent(mantissa, exponent) ==
  IF exponent >= 0 THEN mantissa * 10 ^ exponent ELSE Quotient(mantissa, 10 ^ (-exponent))

SbeSignal(tick) ==
  [Blank EXCEPT !.feed = "sbe", !.security = tick.security,
                !.price = apply_exponent(Quotient(tick.price + tick.ask, 2), tick.exponent)]

McxSignal(tick) ==
  [Blank EXCEPT !.feed = "mcx", !.security = tick.security,
                !.price = Quotient(tick.price + tick.ask, 2)]

SignalOf(tick) ==
  CASE tick.feed = "itch" -> ItchSignal(tick)
    [] tick.feed = "mtbt" -> MtbtSignal(tick)
    [] tick.feed = "sbe"  -> SbeSignal(tick)
    [] tick.feed = "mcx"  -> McxSignal(tick)

(* A tick of one of these feeds, at a price the strategy's 32 bits can do. *)
IsTick(m, feeds) ==
  /\ m \in Message /\ m.kind = "tick" /\ m.feed \in feeds
  /\ InRange(SignalOf(m).price, kDefaultBandBps)

(* The rounds are more than enough for the ticks (main.cpp has 32 for at   *)
(* most 13, and 8 for two), and the pool has room for what arrives.        *)
ASSUME RoundsAssumption   == Rounds \in Nat /\ SbeRounds \in 0 .. Rounds
ASSUME PoolAssumption     == PoolSlots \subseteq Nat
ASSUME ArrivalsAssumption ==
  \A ticks \in Arrivals :
    /\ ticks \in Seq(Message) /\ Len(ticks) <= Rounds
    /\ DOMAIN ticks \subseteq PoolSlots
    /\ \A i \in DOMAIN ticks : IsTick(ticks[i], MarketFeeds)
ASSUME BbosAssumption     ==
  /\ Bbos \in Seq(Message) /\ Len(Bbos) <= SbeRounds
  /\ \A i \in DOMAIN Bbos : IsTick(Bbos[i], {"sbe"})

(* The reference price moves; then the message is dropped, or rewritten as *)
(* a signal with the producer's next token.                                *)
Emit(q, r, tick, bump) ==
  LET feed  == tick.feed
      price == SignalOf(tick).price
      ref   == update_ref_price(ref_price_[feed], price)
      side  == evaluate(ref, price, kDefaultBandBps)
      signal == [SignalOf(tick) EXCEPT !.kind = "signal", !.side = side,
                                       !.token = next_token_[feed]]
  IN  /\ ref_price_' = [ref_price_ EXCEPT ![feed] = ref]
      /\ UNCHANGED <<submitted_, next_ref, counts>>
      /\ IF side = "none"
           THEN Drop(q) /\ UNCHANGED <<next_token_, signals_, emitted>>
           ELSE /\ body' = [body EXCEPT ![Head(queue[q])] = signal]
                /\ queue' = Moved(q, r)
                /\ next_token_' = [next_token_ EXCEPT ![feed] = @ + bump]
                /\ signals_' = Bump(signals_, feed)
                /\ emitted' = emitted \cup {signal}
                /\ UNCHANGED acquired

(* Mutant: the token is read and not advanced. *)
OnTickRepeatsToken(q, r, tick) == Emit(q, r, tick, 0)

OnTick(q, r, tick) == Emit(q, r, tick, 1)

(* The routing loop ends after its rounds or at the first failing try_pop. *)
RouteTicks(here, rounds, q, r, next) ==
  /\ phase = here
  /\ IF round < rounds /\ queue[q] # <<>>
       THEN LET tick == body[Head(queue[q])]
            IN  /\ OnTick(q, r, tick)
                /\ round' = round + 1
                /\ UNCHANGED phase
       ELSE /\ phase' = next
            /\ round' = 0
            /\ UNCHANGED <<pool, queue, stats>>

-----------------------------------------------------------------------------
(* poll_once of the order consumer of a feed *)

(* OUCH, SBE and MCX orders carry the signal's token, an NNF order in its  *)
(* place the security (a security of zero is left out, and zero anyway).   *)
(* SBE and MCX orders are for the security the consumer was made with,     *)
(* whatever the signal's.  next_seq_ follows submitted_ and is left out.   *)
symbol_id_          == 1001
simple_security_id_ == 5001

OuchOrder(signal) == [signal EXCEPT !.kind = "order"]

(* Mutant: the NNF order carries the token like the others. *)
NnfOrderWithToken(signal) == [signal EXCEPT !.kind = "order"]

NnfOrder(signal) == [signal EXCEPT !.kind = "order", !.token = signal.security]

SbeOrder(signal) == [signal EXCEPT !.kind = "order", !.security = symbol_id_]

McxOrder(signal) == [signal EXCEPT !.kind = "order", !.security = simple_security_id_]

OrderOf(signal) ==
  CASE signal.feed = "itch" -> OuchOrder(signal)
    [] signal.feed = "mtbt" -> NnfOrder(signal)
    [] signal.feed = "sbe"  -> SbeOrder(signal)
    [] signal.feed = "mcx"  -> McxOrder(signal)

Submit(feed, q, r) ==
  /\ body' = [body EXCEPT ![Head(queue[q])] = OrderOf(@)]
  /\ queue' = Moved(q, r)
  /\ submitted_' = Bump(submitted_, feed)
  /\ UNCHANGED <<acquired, producers, next_ref, counts>>

(* The poll of a consumer, and what it does with a signal of another feed. *)
Poll(feed, q, r, Refuse) ==
  IF queue[q] = <<>>
    THEN UNCHANGED <<pool, queue, stats>>
    ELSE LET msg == body[Head(queue[q])]
         IN  \/ msg.kind = "signal" /\ msg.feed # feed /\ Refuse /\ UNCHANGED stats
             \/ /\ msg.kind # "signal" \/ (msg.feed = feed /\ msg.side = "none")
                /\ Drop(q)
                /\ UNCHANGED stats
             \/ msg.kind = "signal" /\ msg.feed = feed /\ msg.side # "none" /\ Submit(feed, q, r)

(* Mutants: it is released, or forgotten. *)
PollConsumerDropsOthers(feed, q, r) == Poll(feed, q, r, Drop(q))

PollConsumerLosesOthers(feed, q, r) ==
  Poll(feed, q, r, queue' = Popped(q) /\ UNCHANGED pool)

(* It goes back to the end of the queue. *)
PollConsumer(feed, q, r) ==
  Poll(feed, q, r, queue' = Moved(q, q) /\ UNCHANGED pool)

(* The order in which drain_signals polls the consumers: ouch, nnf, mcx. *)
Turns == <<"itch", "mtbt", "mcx">>

(* drain_signals: three polls in each round. *)
DrainFor(polls) ==
  /\ phase = "signals"
  /\ IF round < polls
       THEN /\ PollConsumer(Turns[(round % Len(Turns)) + 1], "signal", "pending")
            /\ round' = round + 1
            /\ UNCHANGED phase
       ELSE /\ phase' = "gateway"
            /\ round' = 0
            /\ UNCHANGED <<pool, queue, stats>>

(* Mutant: the rounds are counted in polls. *)
DrainSignalsInPolls == DrainFor(Rounds)

DrainSignals == DrainFor(Rounds * Len(Turns))

PollSbeConsumer ==
  /\ phase = "sbe_signals"
  /\ IF round < SbeRounds
       THEN /\ PollConsumer("sbe", "sbe_signal", "sbe_pending")
            /\ round' = round + 1
            /\ UNCHANGED phase
       ELSE /\ phase' = "sbe_gateway"
            /\ round' = 0
            /\ UNCHANGED <<pool, queue, stats>>

-----------------------------------------------------------------------------
(* poll_once of the gateway: the order becomes its confirm. *)

OuchConfirm(order) == [order EXCEPT !.kind = "confirm"]

NnfConfirm(order)  == [order EXCEPT !.kind = "confirm"]

SbeConfirm(order)  == [order EXCEPT !.kind = "confirm"]

(* An MCX execution report repeats neither side nor price. *)
McxConfirm(order)  == [order EXCEPT !.kind = "confirm", !.side = "none", !.price = 0]

ConfirmOf(order) ==
  CASE order.feed = "itch" -> OuchConfirm(order)
    [] order.feed = "mtbt" -> NnfConfirm(order)
    [] order.feed = "sbe"  -> SbeConfirm(order)
    [] order.feed = "mcx"  -> McxConfirm(order)

PollGateway(q, r) ==
  IF queue[q] = <<>>
    THEN UNCHANGED <<pool, queue, stats>>
    ELSE LET order == body[Head(queue[q])]
         IN  IF order.kind = "order"
               THEN /\ body' = [body EXCEPT ![Head(queue[q])] =
                         [ConfirmOf(order) EXCEPT !.ref = next_ref[order.feed]]]
                    /\ queue' = Moved(q, r)
                    /\ next_ref' = Bump(next_ref, order.feed)
                    /\ UNCHANGED <<acquired, producers, submitted_, counts>>
               ELSE Drop(q) /\ UNCHANGED stats

DrainGateway(here, rounds, q, r, next) ==
  /\ phase = here
  /\ IF round < rounds
       THEN PollGateway(q, r) /\ round' = round + 1 /\ UNCHANGED phase
       ELSE phase' = next /\ round' = 0 /\ UNCHANGED <<pool, queue, stats>>

(* main counts the confirm by its kind. *)
CountAndThen(here, rounds, q, next, Dispose) ==
  /\ phase = here
  /\ IF round < rounds /\ queue[q] # <<>>
       THEN LET confirm == body[Head(queue[q])]
            IN  /\ confirmed' = Bump(confirmed, confirm.feed)
                /\ acknowledged' = acknowledged \cup {confirm}
                /\ Dispose
                /\ round' = round + 1
                /\ UNCHANGED <<phase, producers, submitted_, next_ref>>
       ELSE phase' = next /\ round' = 0 /\ UNCHANGED <<pool, queue, stats>>

(* Mutant: a counted confirm is not released. *)
CountConfirmsWithoutRelease(here, rounds, q, next) ==
  CountAndThen(here, rounds, q, next, queue' = Popped(q) /\ UNCHANGED pool)

(* ... and releases it. *)
CountConfirms(here, rounds, q, next) ==
  CountAndThen(here, rounds, q, next, Drop(q))

(* acquire_filled and push of one SBE tick; nothing when the pool is empty. *)
MakeBbo ==
  /\ phase = "sbe_make"
  /\ IF round < Len(Bbos)
       THEN /\ round' = round + 1
            /\ UNCHANGED <<phase, stats>>
            /\ IF PoolSlots \subseteq acquired
                 THEN UNCHANGED <<pool, queue>>
                 ELSE LET s == CHOOSE s \in PoolSlots \ acquired :
                                 \A other \in PoolSlots \ acquired : s <= other
                      IN  /\ acquired' = acquired \cup {s}
                          /\ body' = [body EXCEPT ![s] = Bbos[round + 1]]
                          /\ queue' = [queue EXCEPT !["sbe_market"] = Append(@, s)]
       ELSE /\ phase' = "sbe_route"
            /\ round' = 0
            /\ UNCHANGED <<pool, queue, stats>>

-----------------------------------------------------------------------------

RouteMarket  == RouteTicks("route", Rounds, "market", "signal", "signals")
DrainOrders  == DrainGateway("gateway", Rounds, "pending", "confirm", "confirms")
CountMarket  == CountConfirms("confirms", Rounds, "confirm", "sbe_make")
RouteSbe     == RouteTicks("sbe_route", SbeRounds, "sbe_market", "sbe_signal", "sbe_signals")
DrainSbe     == DrainGateway("sbe_gateway", SbeRounds, "sbe_pending", "sbe_confirm", "sbe_confirms")
CountSbe     == CountConfirms("sbe_confirms", SbeRounds, "sbe_confirm", "runtime")

Next ==
  \/ RouteMarket \/ DrainSignals \/ DrainOrders \/ CountMarket
  \/ MakeBbo \/ RouteSbe \/ PollSbeConsumer \/ DrainSbe \/ CountSbe

Spec == Init /\ [][Next]_vars

-----------------------------------------------------------------------------

TypeOK ==
  /\ acquired \subseteq PoolSlots
  /\ body \in [PoolSlots -> Message]
  /\ queue \in [Queues -> Seq(PoolSlots)]
  /\ phase \in {"route", "signals", "gateway", "confirms", "sbe_make", "sbe_route",
                "sbe_signals", "sbe_gateway", "sbe_confirms", "runtime"}
  /\ round \in 0 .. Rounds * Len(Turns)
  /\ ref_price_ \in [Feeds -> Int]
  /\ \A f \in Feeds : InRange(ref_price_[f], kDefaultBandBps)
  /\ \A counter \in {next_token_, signals_, submitted_, next_ref, confirmed} :
       counter \in [Feeds -> Nat]
  /\ emitted \subseteq Message
  /\ acknowledged \subseteq Message

(* Every variable is in its range, and the pool's slots that are out are   *)
(* exactly those in the queues, each in one place of one queue: no stage   *)
(* loses a message or forwards it twice.                                   *)
PoolAgrees ==
  LET places == UNION {{<<q, i>> : i \in DOMAIN queue[q]} : q \in Queues}
  IN  /\ TypeOK
      /\ acquired = {queue[p[1]][p[2]] : p \in places}
      /\ \A p, r \in places : queue[p[1]][p[2]] = queue[r[1]][r[2]] => p = r

In(q, kind, feed) ==
  {i \in DOMAIN queue[q] : body[queue[q][i]].kind = kind /\ body[queue[q][i]].feed = feed}

(* The queue a feed's messages wait in. *)
SbeQueue == [signal |-> "sbe_signal", pending |-> "sbe_pending", confirm |-> "sbe_confirm"]

Stage(feed, stage) == IF feed = "sbe" THEN SbeQueue[stage] ELSE stage

Waiting(feed, stage, kind) == Cardinality(In(Stage(feed, stage), kind, feed))

(* Feed by feed, what one stage has counted is what the next has counted   *)
(* and what waits between them: the printed statistics can be compared,    *)
(* and every message in a queue is of the kind its reader expects.         *)
StatsAddUp ==
  /\ \A f \in Feeds :
       /\ signals_[f] = submitted_[f] + Waiting(f, "signal", "signal")
       /\ submitted_[f] = Waiting(f, "pending", "order") + next_ref[f] - 1
       /\ next_ref[f] - 1 = Waiting(f, "confirm", "confirm") + confirmed[f]
  /\ \A q \in Queues : \A i \in DOMAIN queue[q] :
       body[queue[q][i]].kind = CASE q \in {"market", "sbe_market"}   -> "tick"
                                  [] q \in {"signal", "sbe_signal"}   -> "signal"
                                  [] q \in {"pending", "sbe_pending"} -> "order"
                                  [] q \in {"confirm", "sbe_confirm"} -> "confirm"

(* Every token a producer has handed out names one message: a signal, an   *)
(* order or a confirm on its way, or a confirm main has counted.  So a     *)
(* confirm tells its sender which order it is for; not so for NNF, whose   *)
(* confirm names the security.                                             *)
TokensNameOneOrder ==
  \A f \in Feeds \ {"mtbt"} :
    LET onTheWay == {s \in acquired : body[s].feed = f /\ body[s].kind # "tick"}
        answered == {m \in acknowledged : m.feed = f}
    IN  /\ {body[s].token : s \in onTheWay} \cup {m.token : m \in answered}
             = 1 .. next_token_[f] - 1
        /\ Cardinality(onTheWay) + Cardinality(answered) = next_token_[f] - 1

(* What an order or a confirm says is what the strategy decided: a signal  *)
(* with that token (for NNF, that security) had the same side and price.   *)
ConfirmsMatchSignals ==
  \A m \in {body[s] : s \in acquired} \cup acknowledged :
    m.kind \in {"order", "confirm"} =>
      \E signal \in emitted :
        /\ signal.feed = m.feed
        /\ m.token = IF m.feed = "mtbt" THEN signal.security ELSE signal.token
        /\ ~(m.feed = "mcx" /\ m.kind = "confirm") =>
             m.side = signal.side /\ m.price = signal.price

(* A queue of n signals turns once in n polls.  The next signal that can   *)
(* be taken is, within two turns; so n * (n + 2) polls are enough for all  *)
(* of n signals, and main's rounds must be as many.                        *)
MarketSignals == signals_["itch"] + signals_["mtbt"] + signals_["mcx"]
FewSignals == MarketSignals * (MarketSignals + 2) <= Rounds * Len(Turns)

(* When drain_signals is over, what it has left in the queue is what more  *)
(* rounds would not move either: as many signals as make every consumer    *)
(* meet the same ones again, none of them its own.                         *)
LeftoversAreStuck ==
  phase \notin {"route", "signals"} =>
    LET left == queue["signal"]
    IN  /\ FewSignals
        /\ Len(left) % Len(Turns) = 0
        /\ \A i \in DOMAIN left : body[left[i]].feed # Turns[((i - 1) % Len(Turns)) + 1]

(* What the runtime inherits (main.cpp:431): an empty market queue, and a  *)
(* pool with nothing out but the stuck signals.                            *)
RuntimeStartsClean ==
  phase = "runtime" =>
    /\ acquired = {queue["signal"][i] : i \in DOMAIN queue["signal"]}
    /\ \A q \in Queues \ {"signal"} : queue[q] = <<>>

(* "strategy ok" (main.cpp:329-339): once the signals are drained every    *)
(* signal the producers emitted has become an order.                       *)
EverySignalSubmitted ==
  phase \notin {"route", "signals"} =>
    \A f \in MarketFeeds : submitted_[f] = signals_[f]
=============================================================================
