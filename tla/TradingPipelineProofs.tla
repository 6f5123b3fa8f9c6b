----------------------- MODULE TradingPipelineProofs -----------------------
(***************************************************************************)
(* What the strategy of include/trading/strategy.hpp computes, for every   *)
(* reference, price and band whose arithmetic fits in 32 bits; and proofs  *)
(* about TradingPipeline, for every pool, every sequence of arriving ticks *)
(* and every number of rounds: no stage loses a message or handles it      *)
(* twice, the statistics add up, tokens are not given out twice, what is   *)
(* confirmed is what the strategy decided, and what drain_signals leaves   *)
(* no further round would move.                                            *)
(***************************************************************************)
EXTENDS TradingPipeline, FiniteSetTheorems, SequenceTheorems, FunctionTheorems, WellFoundedInduction, TLAPS

-----------------------------------------------------------------------------
(* Strategy.                                                               *)

LEMMA QuotientBounds ==
  ASSUME NEW a \in Int
  PROVE  /\ Quotient(a, 8) \in Int
         /\ a >= 0 => Quotient(a, 8) \in 0 .. a
         /\ a <= 0 => Quotient(a, 8) \in a .. 0
BY DEF Quotient

(* The reference price is a price, and moves toward the market without     *)
(* ever passing it: it stays between its old value and the tick.           *)
THEOREM ReferenceFollows ==
  ASSUME NEW ref \in Nat \ {0}, NEW price \in Nat \ {0}
  PROVE  /\ update_ref_price(ref, price) \in Nat \ {0}
         /\ price <= ref => update_ref_price(ref, price) \in price .. ref
         /\ ref <= price => update_ref_price(ref, price) \in ref .. price
<1>1. price - ref \in Int
  OBVIOUS
<1>2. /\ Quotient(price - ref, 8) \in Int
      /\ price - ref >= 0 => Quotient(price - ref, 8) \in 0 .. price - ref
      /\ price - ref <= 0 => Quotient(price - ref, 8) \in price - ref .. 0
  BY <1>1, QuotientBounds
<1>3. update_ref_price(ref, price) = ref + Quotient(price - ref, 8)
  BY DEF update_ref_price
<1>4. QED
  BY <1>2, <1>3

LEMMA MaxIntNat == MaxInt \in Nat
BY SMT DEF MaxInt

LEMMA BandGrows ==
  ASSUME NEW a \in Nat, NEW b \in Nat, a <= b
  PROVE  /\ Quotient(a, 10000) \in Nat /\ Quotient(a, 10000) <= Quotient(b, 10000)
         /\ Quotient(0 - a, 8) \in 0 - a .. 0
BY DEF Quotient

(* Below a price in range every price is. *)
LEMMA RangeIsClosedBelow ==
  ASSUME NEW band_bps \in Nat, NEW q, InRange(q, band_bps), NEW p \in 0 .. q
  PROVE  InRange(p, band_bps)
<1>1. q \in Nat /\ p \in Nat /\ p <= q /\ q <= MaxInt
  BY MaxIntNat DEF InRange
<1>2. p * band_bps \in Nat /\ q * band_bps \in Nat /\ p * band_bps <= q * band_bps
  BY <1>1
<1>3. Band(p, band_bps) \in Nat /\ Band(q, band_bps) \in Nat /\ Band(p, band_bps) <= Band(q, band_bps)
  BY <1>2, BandGrows DEF Band
<1>4. q * band_bps <= MaxInt /\ Band(q, band_bps) <= MaxInt - q
  BY DEF InRange
<1> QED
  BY <1>1, <1>2, <1>3, <1>4, MaxIntNat DEF InRange

(* A price of zero pulls the reference down, and no lower than zero.       *)
LEMMA ReferenceBetween ==
  ASSUME NEW ref \in Nat, NEW price \in Nat
  PROVE  update_ref_price(ref, price) \in 0 .. ref \cup 0 .. price
<1>1. CASE ref = 0
  BY <1>1 DEF update_ref_price
<1>2. CASE ref # 0 /\ price = 0
  <2>1. Quotient(0 - ref, 8) \in 0 - ref .. 0
    BY BandGrows
  <2>2. update_ref_price(ref, price) = ref + Quotient(0 - ref, 8)
    BY <1>2 DEF update_ref_price
  <2> QED
    BY <2>1, <2>2
<1>3. CASE ref # 0 /\ price # 0
  BY <1>3, ReferenceFollows
<1> QED
  BY <1>1, <1>2, <1>3

(* While the reference and the prices are in range, no result that         *)
(* update_ref_price (strategy.hpp:16) or evaluate (25-33) computes on the  *)
(* way leaves the 32 bits: neither the difference, the product, the new    *)
(* reference nor the two edges of the band.  And the new reference is in   *)
(* range again, so that the same holds of the next tick.                   *)
THEOREM StaysInRange ==
  ASSUME NEW band_bps \in Nat, NEW ref, NEW price,
         InRange(ref, band_bps), InRange(price, band_bps)
  PROVE  /\ NoOverflow(ref, price, band_bps)
         /\ InRange(update_ref_price(ref, price), band_bps)
<1> DEFINE new  == update_ref_price(ref, price)
           band == Band(new, band_bps)
<1>1. ref \in 0 .. MaxInt /\ price \in 0 .. MaxInt /\ MaxInt \in Nat
  BY MaxIntNat DEF InRange
<1>2. new \in 0 .. ref \cup 0 .. price
  BY <1>1, ReferenceBetween
<1>3. InRange(new, band_bps)
  BY <1>2, RangeIsClosedBelow
<1> HIDE DEF new
<1>4. new \in 0 .. MaxInt /\ new * band_bps \in 0 .. MaxInt /\ band <= MaxInt - new
  BY <1>1, <1>3 DEF InRange
<1>5. band \in Nat
  BY <1>4, BandGrows DEF Band
<1>6. UpdateFits(ref, price)
  BY <1>1, <1>4, SMT DEF UpdateFits, Int32, new
<1>7. EvaluateFits(new, price, band_bps)
  <2>1. new * band_bps \in Int32
    BY <1>1, <1>4, SMT DEF Int32
  <2> HIDE DEF band
  <2>2. new - band \in Int32 /\ new + band \in Int32
    BY <1>1, <1>4, <1>5 DEF Int32
  <2> QED
    BY <2>1, <2>2 DEF EvaluateFits, band
<1> QED
  BY <1>3, <1>6, <1>7 DEF NoOverflow, new

(* The range is as wide as it can be: a reference outside of it overflows  *)
(* when a tick comes at that price, in the product (strategy.hpp:25) or at *)
(* the upper edge of the band (33).                                        *)
THEOREM OutOfRangeOverflows ==
  ASSUME NEW band_bps \in Nat, NEW ref \in 1 .. MaxInt, ~InRange(ref, band_bps)
  PROVE  ~NoOverflow(ref, ref, band_bps)
<1> DEFINE product == ref * band_bps
           band    == Band(ref, band_bps)
<1>1. MaxInt \in Nat /\ ref \in Nat /\ ref > 0 /\ ref <= MaxInt
  BY MaxIntNat
<1>2. product \in Nat
  BY <1>1
<1>3. band \in Nat
  BY <1>2, BandGrows DEF Band
<1>4. update_ref_price(ref, ref) = ref
  <2>1. Quotient(ref - ref, 8) = 0
    BY <1>1 DEF Quotient
  <2> QED
    BY <1>1, <2>1 DEF update_ref_price
<1>5. product > MaxInt \/ ref + band > MaxInt
  <2> HIDE DEF band, product
  <2>1. ~(product <= MaxInt /\ band <= MaxInt - ref)
    BY <1>1 DEF InRange, band, product
  <2> QED
    BY <1>1, <1>2, <1>3, <2>1
<1>6. SUFFICES ASSUME EvaluateFits(ref, ref, band_bps) PROVE FALSE
  BY <1>4 DEF NoOverflow
<1>7. /\ product \in Int32
      /\ band > 0 /\ ref > ref - band => ref + band \in Int32
  BY <1>1, <1>6 DEF EvaluateFits
<1> HIDE DEF band, product
<1> QED
  BY <1>1, <1>2, <1>3, <1>5, <1>7 DEF Int32

(* A signal is never on the wrong side: the strategy buys only below and   *)
(* sells only above the reference, by a whole band at least, and a         *)
(* reference of which the band is less than one tick never signals.        *)
THEOREM SignalsLeaveTheBand ==
  ASSUME NEW ref \in Int, NEW price \in Int, NEW band_bps \in Nat
  PROVE  /\ evaluate(ref, price, band_bps) \in {"none", "buy", "sell"}
         /\ evaluate(ref, price, band_bps) = "buy" =>
              price > 0 /\ price < ref /\ Band(ref, band_bps) >= 1
         /\ evaluate(ref, price, band_bps) = "sell" =>
              price > ref /\ ref > 0 /\ Band(ref, band_bps) >= 1
         /\ ref * band_bps < 10000 => evaluate(ref, price, band_bps) = "none"
<1>1. ref * band_bps \in Int
  OBVIOUS
<1>2. Band(ref, band_bps) \in Int
  BY <1>1, SMT DEF Band, Quotient
<1>3. ref > 0 /\ ref * band_bps < 10000 => Band(ref, band_bps) <= 0
  BY <1>1, SMT DEF Band, Quotient
<1>4. QED
  BY <1>2, <1>3, SMT DEF evaluate

-----------------------------------------------------------------------------
(* The inductive invariant of the pipeline, part by part.                  *)

SbeQueues == {"sbe_market", "sbe_signal", "sbe_pending", "sbe_confirm"}

KindIn(q) ==
  IF q \in {"market", "sbe_market"} THEN "tick"
  ELSE IF q \in {"signal", "sbe_signal"} THEN "signal"
  ELSE IF q \in {"pending", "sbe_pending"} THEN "order"
  ELSE "confirm"

Holds(q) == Range(queue[q])

(* TypeOK but for main's place in the program. *)
DataOK ==
  /\ acquired \subseteq PoolSlots
  /\ body \in [PoolSlots -> Message]
  /\ queue \in [Queues -> Seq(PoolSlots)]
  /\ ref_price_ \in [Feeds -> Int]
  /\ \A f \in Feeds : InRange(ref_price_[f], kDefaultBandBps)
  /\ next_token_ \in [Feeds -> Nat] /\ signals_ \in [Feeds -> Nat]
  /\ submitted_ \in [Feeds -> Nat] /\ next_ref \in [Feeds -> Nat] /\ confirmed \in [Feeds -> Nat]
  /\ emitted \subseteq Message /\ acknowledged \subseteq Message
  /\ IsFiniteSet(acquired) /\ IsFiniteSet(acknowledged)

PlaceOK ==
  /\ phase \in {"route", "signals", "gateway", "confirms", "sbe_make", "sbe_route",
                "sbe_signals", "sbe_gateway", "sbe_confirms", "runtime"}
  /\ round \in 0 .. Rounds * Len(Turns)

(* A slot that is out is in one place of one queue. *)
SlotsInv ==
  /\ \A q \in Queues : IsInjective(queue[q])
  /\ \A q, r \in Queues : \A s \in Holds(q) : s \in Holds(r) => q = r
  /\ acquired = UNION {Holds(q) : q \in Queues}

(* A queue has messages of one kind, and those of the SBE venue are apart. *)
KindsInv ==
  \A q \in Queues : \A s \in Holds(q) :
    body[s].kind = KindIn(q) /\ (body[s].feed = "sbe" <=> q \in SbeQueues)

OfKind(kind, f) == {s \in acquired : body[s].kind = kind /\ body[s].feed = f}

Out(kind, f) == Cardinality(OfKind(kind, f))

(* What one stage has counted, what the next has, and what is between.     *)
StatsInv ==
  \A f \in Feeds :
    /\ signals_[f] = submitted_[f] + Out("signal", f)
    /\ submitted_[f] = Out("order", f) + next_ref[f] - 1
    /\ next_ref[f] - 1 = Out("confirm", f) + confirmed[f]

OnTheWay(f) == {s \in acquired : body[s].feed = f /\ body[s].kind # "tick"}
Answered(f) == {m \in acknowledged : m.feed = f}

(* A token names one message on its way or one confirm, and every token    *)
(* that was given out names one.                                           *)
TokensOK(f) ==
  /\ \A s, t \in OnTheWay(f) : body[s].token = body[t].token => s = t
  /\ \A s \in OnTheWay(f), m \in Answered(f) : body[s].token # m.token
  /\ {body[s].token : s \in OnTheWay(f)} \cup {m.token : m \in Answered(f)} = 1 .. next_token_[f] - 1
  /\ Cardinality(OnTheWay(f)) + Cardinality(Answered(f)) = next_token_[f] - 1

TokensInv == \A f \in Feeds \ {"mtbt"} : TokensOK(f)

(* Message m says what a signal of the strategy said. *)
FromSignal(m, signal) ==
  /\ signal.feed = m.feed
  /\ m.token = IF m.feed = "mtbt" THEN signal.security ELSE signal.token
  /\ ~(m.feed = "mcx" /\ m.kind = "confirm") => m.side = signal.side /\ m.price = signal.price

ContentInv ==
  /\ \A s \in acquired : body[s].kind = "tick" => IsTick(body[s], Feeds)
  /\ \A s \in acquired : body[s].kind = "signal" => body[s] \in emitted /\ body[s].side # "none"
  /\ \A s \in acquired :
       body[s].kind \in {"order", "confirm"} => \E signal \in emitted : FromSignal(body[s], signal)
  /\ \A m \in acknowledged : m.kind = "confirm" /\ \E signal \in emitted : FromSignal(m, signal)

Size(q) == Len(queue[q])

MarketTotal == Size("market") + Size("signal") + Size("pending") + Size("confirm")
SbeTotal    == Size("sbe_market") + Size("sbe_signal") + Size("sbe_pending") + Size("sbe_confirm")

(* Each loop has rounds enough for what is in its queue when it begins,    *)
(* and leaves the queue empty; not so drain_signals.                       *)
RoundsInv ==
  /\ MarketTotal <= Rounds /\ SbeTotal <= SbeRounds
  /\ phase = "route"    => SbeTotal = 0 /\ Size("market") + round <= Rounds
  /\ phase = "signals"  => SbeTotal = 0 /\ Size("market") = 0
  /\ phase = "gateway"  => SbeTotal = 0 /\ Size("market") = 0 /\ Size("pending") + round <= Rounds
  /\ phase = "confirms" => /\ SbeTotal = 0 /\ Size("market") = 0 /\ Size("pending") = 0
                           /\ Size("confirm") + round <= Rounds
  /\ phase \notin {"route", "signals", "gateway", "confirms"} =>
       Size("market") = 0 /\ Size("pending") = 0 /\ Size("confirm") = 0
  /\ phase = "sbe_make"     => SbeTotal <= round /\ round <= Len(Bbos)
  /\ phase = "sbe_route"    => Size("sbe_market") + round <= SbeRounds
  /\ phase = "sbe_signals"  => Size("sbe_market") = 0 /\ Size("sbe_signal") + round <= SbeRounds
  /\ phase = "sbe_gateway"  => /\ Size("sbe_market") = 0 /\ Size("sbe_signal") = 0
                               /\ Size("sbe_pending") + round <= SbeRounds
  /\ phase = "sbe_confirms" => /\ Size("sbe_market") = 0 /\ Size("sbe_signal") = 0 /\ Size("sbe_pending") = 0
                               /\ Size("sbe_confirm") + round <= SbeRounds
  /\ phase = "runtime"      => SbeTotal = 0

MessageInv == DataOK /\ SlotsInv /\ KindsInv /\ StatsInv /\ TokensInv /\ ContentInv

PipelineInv == MessageInv /\ PlaceOK /\ RoundsInv

USE RoundsAssumption, PoolAssumption

-----------------------------------------------------------------------------
(* The queues: what a pop and a push do to the slots in them.              *)

LEMMA TailKeeps ==
  ASSUME NEW s \in Seq(PoolSlots), s # <<>>, IsInjective(s)
  PROVE  /\ Head(s) \in PoolSlots /\ Tail(s) \in Seq(PoolSlots) /\ Len(Tail(s)) = Len(s) - 1 /\ Len(s) > 0
         /\ Head(s) \in Range(s)
         /\ Range(Tail(s)) = Range(s) \ {Head(s)}
         /\ IsInjective(Tail(s))
<1> DEFINE t == Tail(s)
<1>1. /\ Head(s) = s[1] /\ Len(s) \in Nat /\ Len(s) > 0 /\ DOMAIN s = 1 .. Len(s)
  OBVIOUS
<1>2. /\ t \in Seq(PoolSlots) /\ Len(t) = Len(s) - 1 /\ DOMAIN t = 1 .. Len(s) - 1
      /\ \A i \in 1 .. Len(s) - 1 : t[i] = s[i + 1]
  BY <1>1, HeadTailProperties
<1> HIDE DEF t
<1>3. \A i \in 1 .. Len(s) - 1 : i + 1 \in DOMAIN s /\ i + 1 # 1 /\ t[i] = s[i + 1]
  BY <1>1, <1>2
<1>4. Range(t) = Range(s) \ {Head(s)}
  <2>1. ASSUME NEW i \in DOMAIN t PROVE t[i] \in Range(s) \ {Head(s)}
    BY <1>1, <1>2, <1>3 DEF Range, IsInjective
  <2>2. ASSUME NEW k \in DOMAIN s, s[k] # Head(s) PROVE s[k] \in Range(t)
    <3>1. k # 1 /\ k - 1 \in DOMAIN t /\ t[k - 1] = s[(k - 1) + 1] /\ (k - 1) + 1 = k
      BY <1>1, <1>2, <2>2
    <3> QED
      BY <3>1 DEF Range
  <2> QED
    BY <2>1, <2>2 DEF Range
<1>5. ASSUME NEW i \in DOMAIN t, NEW j \in DOMAIN t, t[i] = t[j] PROVE i = j
  <2>1. /\ i \in Int /\ j \in Int /\ i + 1 \in DOMAIN s /\ j + 1 \in DOMAIN s
        /\ s[i + 1] = s[j + 1]
    BY <1>1, <1>2, <1>3, <1>5
  <2>2. i + 1 = j + 1
    BY <2>1 DEF IsInjective
  <2> QED
    BY <2>1, <2>2
<1>6. IsInjective(t)
  BY <1>5 DEF IsInjective
<1>7. Head(s) \in Range(s) /\ Head(s) \in PoolSlots
  BY <1>1 DEF Range
<1> QED
  BY <1>1, <1>2, <1>4, <1>6, <1>7 DEF t

LEMMA AppendKeeps ==
  ASSUME NEW s \in Seq(PoolSlots), NEW x \in PoolSlots, x \notin Range(s),
         IsInjective(s),
         NEW t, t = Append(s, x)
  PROVE  /\ t \in Seq(PoolSlots) /\ Len(t) = Len(s) + 1
         /\ Range(t) = Range(s) \cup {x}
         /\ IsInjective(t)
<1>1. /\ t \in Seq(PoolSlots) /\ Len(t) = Len(s) + 1
      /\ \A i \in 1 .. Len(s) : t[i] = s[i]
      /\ t[Len(s) + 1] = x
  BY AppendProperties
<1>2. Len(s) \in Nat /\ DOMAIN s = 1 .. Len(s) /\ DOMAIN t = 1 .. Len(s) + 1
  BY <1>1
<1>3. \A i \in DOMAIN t : i \in DOMAIN s \/ i = Len(s) + 1
  BY <1>2
<1>4. Range(t) = Range(s) \cup {x}
  BY <1>1, <1>2, <1>3 DEF Range
<1>5. IsInjective(t)
  BY <1>1, <1>2, <1>3 DEF IsInjective, Range
<1> QED
  BY <1>1, <1>4, <1>5

QueuesOK == queue \in [Queues -> Seq(PoolSlots)]

(* The slot at the head of a queue.                                        *)
LEMMA HeadIsHeld ==
  ASSUME QueuesOK, SlotsInv, NEW q \in Queues, queue[q] # <<>>
  PROVE  Head(queue[q]) \in Holds(q) /\ Head(queue[q]) \in acquired /\ Size(q) > 0
<1>1. Head(queue[q]) \in Holds(q) /\ Size(q) > 0
  BY TailKeeps DEF QueuesOK, SlotsInv, Holds, Size
<1> QED
  BY <1>1 DEF SlotsInv

LEMMA SizeType == ASSUME QueuesOK PROVE \A q \in Queues : Size(q) \in Nat
  BY DEF QueuesOK, Size

LEMMA EmptyHoldsNothing ==
  ASSUME QueuesOK, NEW q \in Queues
  PROVE  (Size(q) = 0 <=> queue[q] = <<>>) /\ (queue[q] = <<>> => Holds(q) = {})
  BY DEF QueuesOK, Size, Holds, Range

LEMMA MoveKeepsSlots ==
  ASSUME QueuesOK, SlotsInv, NEW q \in Queues, NEW r \in Queues, q # r, queue[q] # <<>>,
         queue' = Moved(q, r), acquired' = acquired
  PROVE  /\ QueuesOK' /\ SlotsInv'
         /\ Holds(q)' = Holds(q) \ {Head(queue[q])}
         /\ Holds(r)' = Holds(r) \cup {Head(queue[q])}
         /\ \A p \in Queues \ {q, r} : Holds(p)' = Holds(p) /\ Size(p)' = Size(p)
         /\ Size(q)' = Size(q) - 1 /\ Size(r)' = Size(r) + 1
<1> DEFINE s == Head(queue[q])
<1>1. s \in Holds(q) /\ s \notin Holds(r)
  BY HeadIsHeld DEF SlotsInv
<1>2. queue[q] \in Seq(PoolSlots) /\ queue[r] \in Seq(PoolSlots)
  BY DEF QueuesOK
<1>3. /\ queue'[q] = Tail(queue[q]) /\ queue'[r] = Append(queue[r], s)
      /\ \A p \in Queues \ {q, r} : queue'[p] = queue[p]
      /\ queue' \in [Queues -> Seq(PoolSlots)]
  <2>1. Tail(queue[q]) \in Seq(PoolSlots) /\ s \in PoolSlots
    BY <1>2, TailKeeps DEF SlotsInv
  <2>2. Append(queue[r], s) \in Seq(PoolSlots)
    BY <1>2, <2>1
  <2> HIDE DEF s
  <2>3. queue' = [[queue EXCEPT ![q] = Tail(@)] EXCEPT ![r] = Append(@, s)]
    BY DEF Moved, Popped, s
  <2> QED
    BY <2>1, <2>2, <2>3 DEF QueuesOK
<1>4. /\ Size(q)' = Size(q) - 1 /\ Holds(q)' = Holds(q) \ {s} /\ s \in PoolSlots
      /\ IsInjective(queue'[q])
  <2>1. IsInjective(queue[q])
    BY DEF SlotsInv
  <2>2. /\ Head(queue[q]) \in PoolSlots /\ Len(Tail(queue[q])) = Len(queue[q]) - 1
        /\ Range(Tail(queue[q])) = Holds(q) \ {Head(queue[q])}
        /\ IsInjective(Tail(queue[q]))
    BY <1>2, <2>1, TailKeeps DEF Holds
  <2>3. Holds(q)' = Range(queue'[q])
    BY DEF Holds
  <2> QED
    BY <1>3, <2>2, <2>3 DEF Size
<1>5. /\ Size(r)' = Size(r) + 1 /\ Holds(r)' = Holds(r) \cup {s}
      /\ IsInjective(queue'[r])
  <2> HIDE DEF s
  <2>1. s \notin Range(queue[r]) /\ s \in PoolSlots
    BY <1>1, <1>4 DEF Holds
  <2>2. IsInjective(queue[r])
    BY DEF SlotsInv
  <2>3. /\ Len(queue'[r]) = Len(queue[r]) + 1
        /\ Range(queue'[r]) = Range(queue[r]) \cup {s}
        /\ IsInjective(queue'[r])
    <3>1. queue'[r] = Append(queue[r], s) /\ queue[r] \in Seq(PoolSlots)
      BY <1>2, <1>3
    <3> QED
      BY <2>1, <2>2, <3>1, AppendKeeps
  <2>4. Holds(r)' = Range(queue'[r])
    BY DEF Holds
  <2>5. Holds(r)' = Holds(r) \cup {s}
    BY <2>3, <2>4 DEF Holds
  <2> QED
    BY <2>3, <2>5 DEF Size
<1>6. \A p \in Queues \ {q, r} : Holds(p)' = Holds(p) /\ Size(p)' = Size(p)
  BY <1>3 DEF Holds, Size
<1> HIDE DEF s
<1>7. ASSUME NEW p \in Queues
      PROVE  IsInjective(queue'[p])
  <2>1. CASE p \in {q, r}
    BY <1>4, <1>5, <2>1
  <2>2. CASE p \notin {q, r}
    BY <1>3, <2>2 DEF SlotsInv
  <2> QED
    BY <2>1, <2>2
<1>8. \A p, o \in Queues : \A x \in Holds(p)' : x \in Holds(o)' => p = o
  BY <1>1, <1>4, <1>5, <1>6 DEF SlotsInv
<1>9. acquired' = UNION {Holds(p)' : p \in Queues}
  <2>1. \A x : (\E p \in Queues : x \in Holds(p)') <=> (\E p \in Queues : x \in Holds(p))
    BY <1>1, <1>4, <1>5, <1>6
  <2>2. acquired' = UNION {Holds(p) : p \in Queues}
    BY DEF SlotsInv
  <2> QED
    BY <2>1, <2>2
<1> QED
  BY <1>3, <1>4, <1>5, <1>6, <1>7, <1>8, <1>9 DEF SlotsInv, QueuesOK, s

LEMMA RotateKeepsSlots ==
  ASSUME QueuesOK, SlotsInv, NEW q \in Queues, queue[q] # <<>>,
         queue' = Moved(q, q), acquired' = acquired
  PROVE  /\ QueuesOK' /\ SlotsInv'
         /\ \A p \in Queues : Holds(p)' = Holds(p) /\ Size(p)' = Size(p)
<1> DEFINE s == Head(queue[q])
           t == Tail(queue[q])
<1>1. queue[q] \in Seq(PoolSlots)
  BY DEF QueuesOK
<1>2. /\ s \in PoolSlots /\ t \in Seq(PoolSlots) /\ Len(t) = Size(q) - 1 /\ s \in Holds(q)
      /\ Range(t) = Holds(q) \ {s}
      /\ IsInjective(t)
  BY <1>1, TailKeeps DEF SlotsInv, Size, Holds
<1>3. /\ queue'[q] = Append(t, s) /\ Append(t, s) \in Seq(PoolSlots)
      /\ \A p \in Queues \ {q} : queue'[p] = queue[p]
      /\ queue' \in [Queues -> Seq(PoolSlots)]
  <2>1. queue' = [[queue EXCEPT ![q] = t] EXCEPT ![q] = Append(@, s)]
    BY DEF Moved, Popped
  <2> HIDE DEF s, t
  <2>2. Append(t, s) \in Seq(PoolSlots)
    BY <1>2
  <2> QED
    BY <1>2, <2>1, <2>2 DEF QueuesOK
<1> HIDE DEF s, t
<1>4. /\ Len(queue'[q]) = Len(t) + 1
      /\ Range(queue'[q]) = Range(t) \cup {s}
      /\ IsInjective(queue'[q])
  BY <1>2, <1>3, AppendKeeps
<1>5. Size(q) \in Nat
  BY SizeType
<1>6. ASSUME NEW p \in Queues PROVE Holds(p)' = Holds(p) /\ Size(p)' = Size(p)
  <2>1. CASE p = q
    <3>1. Holds(q)' = Range(queue'[q]) /\ Size(q)' = Len(queue'[q])
      BY DEF Holds, Size
    <3>2. Holds(q)' = Range(t) \cup {s}
      BY <1>4, <3>1
    <3>3. Holds(q)' = (Holds(q) \ {s}) \cup {s}
      BY <1>2, <3>2
    <3>4. Holds(q)' = Holds(q)
      BY <1>2, <3>3
    <3> QED
      BY <1>2, <1>4, <1>5, <2>1, <3>1, <3>4
  <2>2. CASE p # q
    BY <1>3, <2>2 DEF Holds, Size
  <2> QED
    BY <2>1, <2>2
<1>7. \A p \in Queues : IsInjective(queue'[p])
  BY <1>3, <1>4 DEF SlotsInv
<1>8. /\ \A p, o \in Queues : \A x \in Holds(p)' : x \in Holds(o)' => p = o
      /\ acquired' = UNION {Holds(p)' : p \in Queues}
  BY <1>6 DEF SlotsInv
<1> QED
  BY <1>3, <1>6, <1>7, <1>8 DEF SlotsInv, QueuesOK

LEMMA DropKeepsSlots ==
  ASSUME QueuesOK, SlotsInv, NEW q \in Queues, queue[q] # <<>>, Drop(q)
  PROVE  /\ QueuesOK' /\ SlotsInv'
         /\ Holds(q)' = Holds(q) \ {Head(queue[q])}
         /\ \A p \in Queues \ {q} : Holds(p)' = Holds(p) /\ Size(p)' = Size(p)
         /\ Size(q)' = Size(q) - 1
<1> DEFINE s == Head(queue[q])
<1>1. queue[q] \in Seq(PoolSlots)
  BY DEF QueuesOK
<1>2. Tail(queue[q]) \in Seq(PoolSlots) /\ s \in Holds(q)
  BY <1>1, TailKeeps DEF SlotsInv, Holds
<1>3. /\ queue'[q] = Tail(queue[q])
      /\ \A p \in Queues \ {q} : queue'[p] = queue[p]
      /\ queue' \in [Queues -> Seq(PoolSlots)]
  BY <1>2 DEF QueuesOK, Drop, Popped
<1>4. /\ Size(q)' = Size(q) - 1 /\ Holds(q)' = Holds(q) \ {s}
      /\ IsInjective(queue'[q])
  <2>1. IsInjective(queue[q])
    BY DEF SlotsInv
  <2>2. /\ Head(queue[q]) \in PoolSlots /\ Len(Tail(queue[q])) = Len(queue[q]) - 1
        /\ Range(Tail(queue[q])) = Holds(q) \ {Head(queue[q])}
        /\ IsInjective(Tail(queue[q]))
    BY <1>1, <2>1, TailKeeps DEF Holds
  <2>3. Holds(q)' = Range(queue'[q])
    BY DEF Holds
  <2> QED
    BY <1>3, <2>2, <2>3 DEF Size
<1>5. \A p \in Queues \ {q} : Holds(p)' = Holds(p) /\ Size(p)' = Size(p)
  BY <1>3 DEF Holds, Size
<1>6. acquired' = acquired \ {s}
  BY DEF Drop
<1> HIDE DEF s
<1>7. \A p \in Queues : IsInjective(queue'[p])
  BY <1>3, <1>4 DEF SlotsInv
<1>8. \A p, o \in Queues : \A x \in Holds(p)' : x \in Holds(o)' => p = o
  BY <1>4, <1>5 DEF SlotsInv
<1>9. acquired' = UNION {Holds(p)' : p \in Queues}
  <2>1. \A x : (\E p \in Queues : x \in Holds(p)') <=> (x # s /\ \E p \in Queues : x \in Holds(p))
    BY <1>2, <1>4, <1>5 DEF SlotsInv
  <2>2. acquired' = (UNION {Holds(p) : p \in Queues}) \ {s}
    BY <1>6 DEF SlotsInv
  <2> QED
    BY <2>1, <2>2
<1> QED
  BY <1>3, <1>4, <1>5, <1>7, <1>8, <1>9 DEF SlotsInv, QueuesOK, s

LEMMA PushKeepsSlots ==
  ASSUME QueuesOK, SlotsInv, NEW q \in Queues, NEW s \in PoolSlots \ acquired,
         queue' = [queue EXCEPT ![q] = Append(@, s)], acquired' = acquired \cup {s}
  PROVE  /\ QueuesOK' /\ SlotsInv'
         /\ Holds(q)' = Holds(q) \cup {s}
         /\ \A p \in Queues \ {q} : Holds(p)' = Holds(p) /\ Size(p)' = Size(p)
         /\ Size(q)' = Size(q) + 1
<1>1. queue[q] \in Seq(PoolSlots)
  BY DEF QueuesOK
<1>2. \A p \in Queues : s \notin Holds(p)
  BY DEF SlotsInv
<1>3. /\ queue'[q] = Append(queue[q], s)
      /\ \A p \in Queues \ {q} : queue'[p] = queue[p]
      /\ queue' \in [Queues -> Seq(PoolSlots)]
  BY <1>1 DEF QueuesOK
<1>4. /\ Size(q)' = Size(q) + 1 /\ Holds(q)' = Holds(q) \cup {s}
      /\ IsInjective(queue'[q])
  <2>1. s \notin Range(queue[q])
    BY <1>2 DEF Holds
  <2> QED
    BY <1>1, <1>3, <2>1, AppendKeeps DEF SlotsInv, Size, Holds
<1>5. \A p \in Queues \ {q} : Holds(p)' = Holds(p) /\ Size(p)' = Size(p)
  BY <1>3 DEF Holds, Size
<1>6. \A p \in Queues : IsInjective(queue'[p])
  BY <1>3, <1>4 DEF SlotsInv
<1>7. \A p, o \in Queues : \A x \in Holds(p)' : x \in Holds(o)' => p = o
  BY <1>2, <1>4, <1>5 DEF SlotsInv
<1>8. acquired' = UNION {Holds(p)' : p \in Queues}
  <2>1. \A x : (\E p \in Queues : x \in Holds(p)') <=> (x = s \/ \E p \in Queues : x \in Holds(p))
    BY <1>4, <1>5
  <2>2. acquired' = (UNION {Holds(p) : p \in Queues}) \cup {s}
    BY DEF SlotsInv
  <2> QED
    BY <2>1, <2>2
<1> QED
  BY <1>3, <1>4, <1>5, <1>6, <1>7, <1>8 DEF SlotsInv, QueuesOK

-----------------------------------------------------------------------------
(* What becomes of a message: its kind, its feed and what it says.         *)

Kinds == {"tick", "signal", "order", "confirm"}

LEMMA MessageFields ==
  ASSUME NEW m \in Message
  PROVE  /\ m.kind \in Kinds /\ m.feed \in Feeds /\ m.side \in {"none", "buy", "sell"}
         /\ m.price \in Nat /\ m.token \in Nat /\ m.security \in Nat /\ m.ref \in Nat
  BY DEF Message, Kinds

LEMMA SignalFacts ==
  ASSUME NEW tick, IsTick(tick, Feeds)
  PROVE  SignalOf(tick) \in Message /\ SignalOf(tick).feed = tick.feed
<1>1. tick \in Message /\ tick.feed \in Feeds /\ SignalOf(tick).price \in Nat
  BY MaxIntNat DEF IsTick, InRange
<1>2. Blank \in Message /\ tick.price \in Nat /\ tick.security \in Nat
  BY <1>1 DEF Blank, Message, Feeds
<1>3. /\ tick.feed = "itch" => SignalOf(tick) = ItchSignal(tick)
      /\ tick.feed = "mtbt" => SignalOf(tick) = MtbtSignal(tick)
      /\ tick.feed = "sbe" => SignalOf(tick) = SbeSignal(tick)
      /\ tick.feed = "mcx" => SignalOf(tick) = McxSignal(tick)
  BY DEF SignalOf
<1>4. /\ ItchSignal(tick).price \in Nat => ItchSignal(tick) \in Message /\ ItchSignal(tick).feed = "itch"
      /\ MtbtSignal(tick).price \in Nat => MtbtSignal(tick) \in Message /\ MtbtSignal(tick).feed = "mtbt"
  BY <1>2 DEF ItchSignal, MtbtSignal, Blank, Message, Feeds
<1>5. SbeSignal(tick).price \in Nat => SbeSignal(tick) \in Message /\ SbeSignal(tick).feed = "sbe"
  BY <1>2 DEF SbeSignal, Blank, Message, Feeds
<1>6. McxSignal(tick).price \in Nat => McxSignal(tick) \in Message /\ McxSignal(tick).feed = "mcx"
  BY <1>2 DEF McxSignal, Blank, Message, Feeds
<1> QED
  BY <1>1, <1>3, <1>4, <1>5, <1>6 DEF Feeds

(* A signal when its side is known and the producer has given it a token. *)
Emitted(signal, side, token) ==
  [signal EXCEPT !.kind = "signal", !.side = side, !.token = token]

Sides == {"none", "buy", "sell"}

LEMMA EmittedFacts ==
  \A signal \in Message, side \in Sides, token \in Nat :
    /\ Emitted(signal, side, token) \in Message
    /\ Emitted(signal, side, token).kind = "signal"
    /\ Emitted(signal, side, token).feed = signal.feed
    /\ Emitted(signal, side, token).side = side
    /\ Emitted(signal, side, token).token = token
  BY DEF Emitted, Message, Sides

LEMMA OrderFacts ==
  ASSUME NEW signal \in Message, NEW m, m = OrderOf(signal)
  PROVE  /\ m \in Message /\ m.kind = "order" /\ m.feed = signal.feed
         /\ m.side = signal.side /\ m.price = signal.price
         /\ m.token = IF m.feed = "mtbt" THEN signal.security ELSE signal.token
<1>1. /\ signal.feed = "itch" => m = OuchOrder(signal)
      /\ signal.feed = "mtbt" => m = NnfOrder(signal)
      /\ signal.feed = "sbe" => m = SbeOrder(signal)
      /\ signal.feed = "mcx" => m = McxOrder(signal)
  BY DEF OrderOf
<1> USE DEF Message
<1>2. CASE signal.feed = "itch"
  BY <1>1, <1>2 DEF OuchOrder
<1>3. CASE signal.feed = "mtbt"
  BY <1>1, <1>3 DEF NnfOrder
<1>4. CASE signal.feed = "sbe"
  <2>1. symbol_id_ \in Nat
    BY SMT DEF symbol_id_
  <2>2. m = [signal EXCEPT !.kind = "order", !.security = symbol_id_]
    BY <1>1, <1>4 DEF SbeOrder
  <2>3. m.kind = "order" /\ m.feed = signal.feed /\ m.token = signal.token
    BY <2>2
  <2>4. m.side = signal.side /\ m.price = signal.price /\ m \in Message
    BY <2>1, <2>2
  <2> QED
    BY <1>4, <2>3, <2>4
<1>5. CASE signal.feed = "mcx"
  <2>1. simple_security_id_ \in Nat
    BY SMT DEF simple_security_id_
  <2>2. m = [signal EXCEPT !.kind = "order", !.security = simple_security_id_]
    BY <1>1, <1>5 DEF McxOrder
  <2>3. m.kind = "order" /\ m.feed = signal.feed /\ m.token = signal.token
    BY <2>2
  <2>4. m.side = signal.side /\ m.price = signal.price /\ m \in Message
    BY <2>1, <2>2
  <2> QED
    BY <1>5, <2>3, <2>4
<1> QED
  BY <1>2, <1>3, <1>4, <1>5 DEF Feeds

LEMMA ConfirmFacts ==
  ASSUME NEW order \in Message, NEW m, m = ConfirmOf(order)
  PROVE  /\ m \in Message /\ m.kind = "confirm" /\ m.feed = order.feed /\ m.token = order.token
         /\ m.feed # "mcx" => m.side = order.side /\ m.price = order.price
<1>1. /\ order.feed = "itch" => m = OuchConfirm(order)
      /\ order.feed = "mtbt" => m = NnfConfirm(order)
      /\ order.feed = "sbe" => m = SbeConfirm(order)
      /\ order.feed = "mcx" => m = McxConfirm(order)
  BY DEF ConfirmOf
<1> USE DEF Message
<1>2. CASE order.feed = "itch"
  BY <1>1, <1>2 DEF OuchConfirm
<1>3. CASE order.feed = "mtbt"
  BY <1>1, <1>3 DEF NnfConfirm
<1>4. CASE order.feed = "sbe"
  BY <1>1, <1>4 DEF SbeConfirm
<1>5. CASE order.feed = "mcx"
  <2>1. m = [order EXCEPT !.kind = "confirm", !.side = "none", !.price = 0]
    BY <1>1, <1>5 DEF McxConfirm
  <2>2. m.kind = "confirm" /\ m.feed = order.feed /\ m.token = order.token
    BY <2>1
  <2>3. m \in Message
    <3> DEFINE confirm == [order EXCEPT !.kind = "confirm"]
               blind   == [confirm EXCEPT !.side = "none"]
    <3>1. m = [blind EXCEPT !.price = 0]
      BY <2>1
    <3>2. confirm \in Message
      OBVIOUS
    <3> HIDE DEF confirm
    <3>3. blind \in Message
      BY <3>2
    <3> HIDE DEF blind
    <3> QED
      BY <3>1, <3>3
  <2> QED
    BY <1>5, <2>2, <2>3
<1> QED
  BY <1>2, <1>3, <1>4, <1>5 DEF Feeds

(* A confirm when the gateway has given it a number.                      *)
Referenced(confirm, ref) == [confirm EXCEPT !.ref = ref]

LEMMA ReferencedFacts ==
  \A confirm \in Message, ref \in Nat :
    /\ Referenced(confirm, ref) \in Message
    /\ Referenced(confirm, ref).kind = confirm.kind
    /\ Referenced(confirm, ref).feed = confirm.feed
    /\ Referenced(confirm, ref).token = confirm.token
    /\ Referenced(confirm, ref).side = confirm.side
    /\ Referenced(confirm, ref).price = confirm.price
  BY DEF Referenced, Message

-----------------------------------------------------------------------------
(* How many messages of each kind are out.                                 *)

MessagesOK ==
  acquired \subseteq PoolSlots /\ IsFiniteSet(acquired) /\ body \in [PoolSlots -> Message]

LEMMA OutType ==
  ASSUME MessagesOK
  PROVE  \A k, f : IsFiniteSet(OfKind(k, f)) /\ Out(k, f) \in Nat
<1> TAKE k, f
<1>1. OfKind(k, f) \in SUBSET acquired
  BY DEF OfKind
<1> QED
  BY <1>1, FS_Subset, FS_CardinalityType DEF MessagesOK, Out

LEMMA RewriteCounts ==
  ASSUME MessagesOK, NEW s \in acquired, NEW m \in Message,
         m.feed = body[s].feed, m.kind # body[s].kind,
         body' = [body EXCEPT ![s] = m], acquired' = acquired
  PROVE  /\ MessagesOK' /\ body'[s] = m /\ \A t \in PoolSlots \ {s} : body'[t] = body[t]
         /\ \A k \in Kinds, f \in Feeds :
              Out(k, f)' = IF f # m.feed THEN Out(k, f)
                           ELSE IF k = m.kind THEN Out(k, f) + 1
                           ELSE IF k = body[s].kind THEN Out(k, f) - 1 ELSE Out(k, f)
<1>1. body'[s] = m /\ (\A t \in PoolSlots \ {s} : body'[t] = body[t]) /\ MessagesOK'
  BY DEF MessagesOK
<1> SUFFICES ASSUME NEW k \in Kinds, NEW f \in Feeds
    PROVE  Out(k, f)' = IF f # m.feed THEN Out(k, f)
                        ELSE IF k = m.kind THEN Out(k, f) + 1
                        ELSE IF k = body[s].kind THEN Out(k, f) - 1 ELSE Out(k, f)
  BY <1>1
<1>2. \A t \in acquired : t # s => body'[t] = body[t]
  BY <1>1 DEF MessagesOK
<1>3. CASE f # m.feed \/ (k # m.kind /\ k # body[s].kind)
  <2>1. OfKind(k, f)' = OfKind(k, f)
    BY <1>1, <1>2, <1>3 DEF OfKind
  <2> QED
    BY <1>3, <2>1 DEF Out
<1>4. CASE f = m.feed /\ k = m.kind
  <2>1. OfKind(k, f)' = OfKind(k, f) \cup {s} /\ s \notin OfKind(k, f)
    BY <1>1, <1>2, <1>4 DEF OfKind
  <2>2. IsFiniteSet(OfKind(k, f)) /\ Out(k, f) \in Nat
    BY OutType
  <2>3. Cardinality(OfKind(k, f)') = Cardinality(OfKind(k, f)) + 1
    BY <2>1, <2>2, FS_AddElement
  <2> QED
    BY <1>4, <2>3 DEF Out
<1>5. CASE f = m.feed /\ k = body[s].kind
  <2>1. OfKind(k, f)' = OfKind(k, f) \ {s} /\ s \in OfKind(k, f)
    BY <1>1, <1>2, <1>5 DEF OfKind
  <2>2. IsFiniteSet(OfKind(k, f)) /\ Out(k, f) \in Nat
    BY OutType
  <2>3. Cardinality(OfKind(k, f)') = Cardinality(OfKind(k, f)) - 1
    BY <2>1, <2>2, FS_RemoveElement
  <2> QED
    BY <1>5, <2>3 DEF Out
<1> QED
  BY <1>3, <1>4, <1>5

LEMMA ReleaseCounts ==
  ASSUME MessagesOK, NEW s \in acquired, acquired' = acquired \ {s}, body' = body
  PROVE  /\ MessagesOK'
         /\ \A k \in Kinds, f \in Feeds :
              Out(k, f)' = IF k = body[s].kind /\ f = body[s].feed THEN Out(k, f) - 1 ELSE Out(k, f)
<1>1. MessagesOK'
  BY FS_RemoveElement DEF MessagesOK
<1> SUFFICES ASSUME NEW k \in Kinds, NEW f \in Feeds
    PROVE  Out(k, f)' = IF k = body[s].kind /\ f = body[s].feed THEN Out(k, f) - 1 ELSE Out(k, f)
  BY <1>1
<1>2. CASE k = body[s].kind /\ f = body[s].feed
  <2>1. OfKind(k, f)' = OfKind(k, f) \ {s} /\ s \in OfKind(k, f)
    BY <1>2 DEF OfKind
  <2>2. IsFiniteSet(OfKind(k, f)) /\ Out(k, f) \in Nat
    BY OutType
  <2>3. Cardinality(OfKind(k, f)') = Cardinality(OfKind(k, f)) - 1
    BY <2>1, <2>2, FS_RemoveElement
  <2> QED
    BY <1>2, <2>3 DEF Out
<1>3. CASE ~(k = body[s].kind /\ f = body[s].feed)
  <2>1. OfKind(k, f)' = OfKind(k, f)
    BY <1>3 DEF OfKind
  <2> QED
    BY <1>3, <2>1 DEF Out
<1> QED
  BY <1>2, <1>3

LEMMA AcquireCounts ==
  ASSUME MessagesOK, NEW s \in PoolSlots \ acquired, NEW m \in Message, m.kind = "tick",
         acquired' = acquired \cup {s}, body' = [body EXCEPT ![s] = m]
  PROVE  /\ MessagesOK' /\ body'[s] = m /\ \A t \in acquired : body'[t] = body[t]
         /\ \A k \in Kinds \ {"tick"}, f \in Feeds : Out(k, f)' = Out(k, f)
<1>1. IsFiniteSet(acquired \cup {s})
  BY FS_AddElement DEF MessagesOK
<1>2. body'[s] = m /\ (\A t \in acquired : body'[t] = body[t]) /\ MessagesOK'
  BY <1>1 DEF MessagesOK
<1>3. ASSUME NEW k \in Kinds \ {"tick"}, NEW f \in Feeds PROVE Out(k, f)' = Out(k, f)
  <2>1. OfKind(k, f)' = OfKind(k, f)
    BY <1>2, <1>3 DEF OfKind
  <2> QED
    BY <2>1 DEF Out
<1> QED
  BY <1>2, <1>3

-----------------------------------------------------------------------------
(* A message that is moved on keeps its feed and gets the next kind.       *)

LEMMA HeadMessage ==
  ASSUME DataOK, SlotsInv, KindsInv, NEW q \in Queues, queue[q] # <<>>
  PROVE  /\ Head(queue[q]) \in acquired /\ Head(queue[q]) \in PoolSlots
         /\ Head(queue[q]) \in Holds(q) /\ Size(q) > 0
         /\ body[Head(queue[q])] \in Message
         /\ body[Head(queue[q])].kind = KindIn(q)
         /\ body[Head(queue[q])].feed \in Feeds
         /\ body[Head(queue[q])].feed = "sbe" <=> q \in SbeQueues
<1>1. Head(queue[q]) \in Holds(q) /\ Head(queue[q]) \in acquired /\ Size(q) > 0
  BY HeadIsHeld DEF DataOK, QueuesOK
<1>2. Head(queue[q]) \in PoolSlots /\ body[Head(queue[q])] \in Message
  BY <1>1 DEF DataOK
<1>3. body[Head(queue[q])].feed \in Feeds
  BY <1>2, MessageFields
<1> QED
  BY <1>1, <1>2, <1>3 DEF KindsInv

(* The head of q has become message m, and gone on to r. *)
Rewritten(q, r, m) ==
  /\ queue' = Moved(q, r) /\ acquired' = acquired
  /\ body' = [body EXCEPT ![Head(queue[q])] = m]

LEMMA RewriteKeepsKinds ==
  ASSUME DataOK, SlotsInv, KindsInv, NEW q \in Queues, NEW r \in Queues, q # r, queue[q] # <<>>,
         q \in SbeQueues <=> r \in SbeQueues,
         NEW m \in Message, m.kind = KindIn(r), m.feed = body[Head(queue[q])].feed,
         Rewritten(q, r, m)
  PROVE  KindsInv'
<1> DEFINE s == Head(queue[q])
<1>1. /\ s \in Holds(q) /\ s \in PoolSlots
      /\ m.feed = "sbe" <=> r \in SbeQueues
  BY HeadMessage
<1>2. /\ Holds(q)' = Holds(q) \ {s} /\ Holds(r)' = Holds(r) \cup {s}
      /\ \A p \in Queues \ {q, r} : Holds(p)' = Holds(p)
  BY MoveKeepsSlots DEF Rewritten, DataOK, QueuesOK
<1>3. body'[s] = m /\ \A t \in PoolSlots \ {s} : body'[t] = body[t]
  BY <1>1 DEF Rewritten, DataOK
<1>4. \A p \in Queues : Holds(p) \subseteq PoolSlots /\ (p # q => s \notin Holds(p))
  BY <1>1 DEF SlotsInv, DataOK
<1> HIDE DEF s
<1> SUFFICES ASSUME NEW p \in Queues, NEW t \in Holds(p)'
    PROVE  body'[t].kind = KindIn(p) /\ (body'[t].feed = "sbe" <=> p \in SbeQueues)
  BY DEF KindsInv
<1>5. CASE t = s
  <2>1. p = r
    BY <1>2, <1>4, <1>5
  <2> QED
    BY <1>1, <1>3, <1>5, <2>1
<1>6. CASE t # s
  <2>1. t \in Holds(p)
    BY <1>2, <1>6
  <2> QED
    BY <1>3, <1>4, <1>6, <2>1 DEF KindsInv
<1> QED
  BY <1>5, <1>6

LEMMA DropKeepsKinds ==
  ASSUME DataOK, SlotsInv, KindsInv, NEW q \in Queues, queue[q] # <<>>, Drop(q)
  PROVE  KindsInv'
<1>1. \A p \in Queues : Holds(p)' \subseteq Holds(p)
  BY DropKeepsSlots DEF DataOK, QueuesOK
<1>2. body' = body
  BY DEF Drop
<1> QED
  BY <1>1, <1>2 DEF KindsInv

(* The tokens, when a message that has one is rewritten with the same. *)
LEMMA RewriteKeepsTokens ==
  ASSUME DataOK, TokensInv, NEW s \in acquired, NEW m \in Message,
         body[s].kind # "tick", m.kind # "tick", m.feed = body[s].feed,
         m.feed # "mtbt" => m.token = body[s].token,
         body' = [body EXCEPT ![s] = m], acquired' = acquired,
         next_token_' = next_token_, acknowledged' = acknowledged
  PROVE  TokensInv'
<1>1. \A t \in acquired : body'[t] = IF t = s THEN m ELSE body[t]
  BY DEF DataOK
<1> SUFFICES ASSUME NEW f \in Feeds \ {"mtbt"} PROVE TokensOK(f)'
  BY DEF TokensInv
<1>2. OnTheWay(f)' = OnTheWay(f) /\ Answered(f)' = Answered(f)
  BY <1>1 DEF OnTheWay, Answered
<1>3. \A t \in OnTheWay(f) : body'[t].token = body[t].token
  BY <1>1 DEF OnTheWay
<1>4. TokensOK(f)
  BY DEF TokensInv
<1>5. {body'[t].token : t \in OnTheWay(f)} = {body[t].token : t \in OnTheWay(f)}
  BY <1>3
<1>6. (\A s_1, t \in OnTheWay(f) : body'[s_1].token = body'[t].token => s_1 = t)
  BY <1>3, <1>4 DEF TokensOK
<1>7. \A t \in OnTheWay(f), a \in Answered(f) : body'[t].token # a.token
  BY <1>3, <1>4 DEF TokensOK
<1> QED
  BY <1>2, <1>4, <1>5, <1>6, <1>7 DEF TokensOK

(* ... when a tick becomes a signal with the next token ... *)
LEMMA SignalKeepsTokens ==
  ASSUME DataOK, TokensInv, NEW s \in acquired, NEW m \in Message,
         body[s].kind = "tick", m.kind # "tick", m.feed = body[s].feed,
         m.token = next_token_[m.feed],
         body' = [body EXCEPT ![s] = m], acquired' = acquired,
         next_token_' = [next_token_ EXCEPT ![m.feed] = @ + 1], acknowledged' = acknowledged
  PROVE  TokensInv'
<1>1. \A t \in acquired : body'[t] = IF t = s THEN m ELSE body[t]
  BY DEF DataOK
<1>2. m.feed \in Feeds
  BY MessageFields
<1>3. /\ next_token_'[m.feed] = next_token_[m.feed] + 1
      /\ \A f \in Feeds \ {m.feed} : next_token_'[f] = next_token_[f]
      /\ \A f \in Feeds : next_token_[f] \in Nat
  BY <1>2 DEF DataOK
<1> SUFFICES ASSUME NEW f \in Feeds \ {"mtbt"} PROVE TokensOK(f)'
  BY DEF TokensInv
<1> DEFINE n == next_token_[f]
<1>4. TokensOK(f) /\ Answered(f)' = Answered(f) /\ n \in Nat
  BY <1>3 DEF TokensInv, Answered
<1>5. CASE f # m.feed
  <2>1. OnTheWay(f)' = OnTheWay(f) /\ \A t \in OnTheWay(f) : body'[t] = body[t]
    BY <1>1, <1>5 DEF OnTheWay
  <2>2. {body'[t].token : t \in OnTheWay(f)} = {body[t].token : t \in OnTheWay(f)}
    BY <2>1
  <2>3. next_token_'[f] = n
    BY <1>3, <1>5
  <2> QED
    BY <1>4, <2>1, <2>2, <2>3 DEF TokensOK
<1>6. CASE f = m.feed
  <2>1. /\ OnTheWay(f)' = OnTheWay(f) \cup {s} /\ s \notin OnTheWay(f)
        /\ body'[s] = m /\ m.token = n /\ next_token_'[f] = n + 1
        /\ \A t \in OnTheWay(f) : body'[t] = body[t]
    BY <1>1, <1>3, <1>6 DEF OnTheWay
  <2>2. IsFiniteSet(OnTheWay(f)) /\ Cardinality(OnTheWay(f)) \in Nat /\ Cardinality(Answered(f)) \in Nat
    <3>1. OnTheWay(f) \in SUBSET acquired /\ Answered(f) \in SUBSET acknowledged
      BY DEF OnTheWay, Answered
    <3> QED
      BY <3>1, FS_Subset, FS_CardinalityType DEF DataOK
  <2>3. Cardinality(OnTheWay(f)') = Cardinality(OnTheWay(f)) + 1
    BY <2>1, <2>2, FS_AddElement
  <2>4. {body'[t].token : t \in OnTheWay(f)'} = {body[t].token : t \in OnTheWay(f)} \cup {n}
    BY <2>1
  <2>5. n > 0
    BY <1>4, <2>2 DEF TokensOK
  <2>6. /\ \A t \in OnTheWay(f) : body[t].token \in 1 .. n - 1
        /\ \A a \in Answered(f) : a.token \in 1 .. n - 1
    BY <1>4 DEF TokensOK
  <2> HIDE DEF n
  <2>7. \A t \in OnTheWay(f) : body'[t].token # n
    BY <1>4, <2>1, <2>6
  <2>8. \A a \in Answered(f) : a.token # n
    BY <1>4, <2>6
  <2>9. \A t, u \in OnTheWay(f)' : body'[t].token = body'[u].token => t = u
    BY <1>4, <2>1, <2>7 DEF TokensOK
  <2>10. \A t \in OnTheWay(f)', a \in Answered(f) : body'[t].token # a.token
    BY <1>4, <2>1, <2>8 DEF TokensOK
  <2>11. 1 .. n - 1 \cup {n} = 1 .. n
    BY <1>4, <2>5
  <2>12. {body'[t].token : t \in OnTheWay(f)'} \cup {a.token : a \in Answered(f)} = 1 .. n
    <3>1. {body[t].token : t \in OnTheWay(f)} \cup {a.token : a \in Answered(f)} = 1 .. n - 1
      BY <1>4 DEF TokensOK, n
    <3> QED
      BY <2>4, <2>11, <3>1
  <2>13. Cardinality(OnTheWay(f)') + Cardinality(Answered(f)) = n
    <3>1. Cardinality(OnTheWay(f)) + Cardinality(Answered(f)) = n - 1
      BY <1>4 DEF TokensOK, n
    <3> QED
      BY <1>4, <2>2, <2>3, <3>1
  <2>14. next_token_'[f] - 1 = n
    BY <1>4, <2>1
  <2> QED
    BY <1>4, <2>9, <2>10, <2>12, <2>13, <2>14 DEF TokensOK
<1> QED
  BY <1>5, <1>6

(* ... when main counts a confirm and releases its slot ...                *)
LEMMA CountKeepsTokens ==
  ASSUME DataOK, TokensInv, NEW s \in acquired, body[s].kind # "tick",
         body' = body, acquired' = acquired \ {s},
         next_token_' = next_token_, acknowledged' = acknowledged \cup {body[s]}
  PROVE  TokensInv'
<1>1. body[s] \in Message /\ body[s].feed \in Feeds
  BY MessageFields DEF DataOK
<1> SUFFICES ASSUME NEW f \in Feeds \ {"mtbt"} PROVE TokensOK(f)'
  BY DEF TokensInv
<1>2. TokensOK(f)
  BY DEF TokensInv
<1>3. CASE f # body[s].feed
  <2>1. OnTheWay(f)' = OnTheWay(f) /\ Answered(f)' = Answered(f)
    BY <1>3 DEF OnTheWay, Answered
  <2> QED
    BY <1>2, <2>1 DEF TokensOK
<1>4. CASE f = body[s].feed
  <2>1. /\ OnTheWay(f)' = OnTheWay(f) \ {s} /\ s \in OnTheWay(f)
        /\ Answered(f)' = Answered(f) \cup {body[s]}
    BY <1>4 DEF OnTheWay, Answered
  <2>2. body[s] \notin Answered(f)
    BY <1>2, <2>1 DEF TokensOK
  <2>3. /\ IsFiniteSet(OnTheWay(f)) /\ Cardinality(OnTheWay(f)) \in Nat
        /\ IsFiniteSet(Answered(f)) /\ Cardinality(Answered(f)) \in Nat
    <3>1. OnTheWay(f) \in SUBSET acquired /\ Answered(f) \in SUBSET acknowledged
      BY DEF OnTheWay, Answered
    <3> QED
      BY <3>1, FS_Subset, FS_CardinalityType DEF DataOK
  <2>4. Cardinality(OnTheWay(f)') = Cardinality(OnTheWay(f)) - 1
    BY <2>1, <2>3, FS_RemoveElement
  <2>5. Cardinality(Answered(f)') = Cardinality(Answered(f)) + 1
    BY <2>1, <2>2, <2>3, FS_AddElement
  <2>6. Cardinality(OnTheWay(f)') + Cardinality(Answered(f)') = next_token_[f] - 1
    <3>1. Cardinality(OnTheWay(f)) + Cardinality(Answered(f)) = next_token_[f] - 1
      BY <1>2 DEF TokensOK
    <3> QED
      BY <2>3, <2>4, <2>5, <3>1
  <2>7. \A t, u \in OnTheWay(f)' : body[t].token = body[u].token => t = u
    BY <1>2, <2>1 DEF TokensOK
  <2>8. \A t \in OnTheWay(f)', a \in Answered(f)' : body[t].token # a.token
    BY <1>2, <2>1 DEF TokensOK
  <2>9. {body[t].token : t \in OnTheWay(f)'} \cup {a.token : a \in Answered(f)'}
          = {body[t].token : t \in OnTheWay(f)} \cup {a.token : a \in Answered(f)}
    BY <2>1
  <2> QED
    BY <1>2, <2>6, <2>7, <2>8, <2>9 DEF TokensOK
<1> QED
  BY <1>3, <1>4

(* ... and when ticks come and go. *)
LEMMA TicksKeepTokens ==
  ASSUME TokensInv, next_token_' = next_token_, acknowledged' = acknowledged,
         \A f \in Feeds : OnTheWay(f)' = OnTheWay(f),
         \A s \in acquired : body[s].kind # "tick" => body'[s] = body[s]
  PROVE  TokensInv'
<1> SUFFICES ASSUME NEW f \in Feeds \ {"mtbt"} PROVE TokensOK(f)'
  BY DEF TokensInv
<1>1. /\ TokensOK(f) /\ OnTheWay(f)' = OnTheWay(f) /\ Answered(f)' = Answered(f)
      /\ \A s \in OnTheWay(f) : body'[s] = body[s]
  BY DEF TokensInv, OnTheWay, Answered
<1>2. {body'[t].token : t \in OnTheWay(f)'} = {body[t].token : t \in OnTheWay(f)}
  BY <1>1
<1> QED
  BY <1>1, <1>2 DEF TokensOK

-----------------------------------------------------------------------------
(* Each stage keeps the invariant of the messages.                         *)

(* At most one message goes from q to r. *)
Flow(q, r) ==
  /\ Size(q)' = Size(q) - 1
  /\ Size(r)' \in {Size(r), Size(r) + 1}
  /\ \A p \in Queues \ {q, r} : Size(p)' = Size(p)

LEMMA QueuesAndMessages ==
  ASSUME DataOK PROVE QueuesOK /\ MessagesOK
  BY DEF DataOK, QueuesOK, MessagesOK

LEMMA TickIsDropped ==
  ASSUME MessageInv, NEW q \in Queues, queue[q] # <<>>, KindIn(q) = "tick", Drop(q),
         ref_price_' \in [Feeds -> Int],
         \A f \in Feeds : InRange(ref_price_[f], kDefaultBandBps)',
         UNCHANGED <<next_token_, signals_, emitted, submitted_, next_ref, counts>>
  PROVE  MessageInv'
<1> DEFINE s == Head(queue[q])
<1>1. DataOK /\ SlotsInv /\ KindsInv /\ StatsInv /\ TokensInv /\ ContentInv
  BY DEF MessageInv
<1>2. QueuesOK /\ MessagesOK
  BY <1>1, QueuesAndMessages
<1>3. s \in acquired /\ body[s].kind = "tick" /\ body[s].feed \in Feeds
  BY <1>1, HeadMessage
<1>4. /\ acquired' = acquired \ {s} /\ body' = body
      /\ next_token_' = next_token_ /\ signals_' = signals_ /\ emitted' = emitted
      /\ submitted_' = submitted_ /\ next_ref' = next_ref
      /\ confirmed' = confirmed /\ acknowledged' = acknowledged
  BY DEF Drop, counts
<1> HIDE DEF s
<1>5. QueuesOK' /\ SlotsInv'
  BY <1>1, <1>2, DropKeepsSlots
<1>6. KindsInv'
  BY <1>1, DropKeepsKinds
<1>7. /\ MessagesOK'
      /\ \A k \in Kinds \ {"tick"}, f \in Feeds : Out(k, f)' = Out(k, f)
  BY <1>2, <1>3, <1>4, ReleaseCounts
<1>8. DataOK'
  BY <1>1, <1>4, <1>5, <1>7 DEF DataOK, QueuesOK, MessagesOK
<1>9. StatsInv'
  BY <1>1, <1>4, <1>7 DEF StatsInv, Kinds
<1>10. TokensInv'
  <2>1. \A f \in Feeds : OnTheWay(f)' = OnTheWay(f)
    BY <1>3, <1>4 DEF OnTheWay
  <2> QED
    BY <1>1, <1>4, <2>1, TicksKeepTokens
<1>11. ContentInv'
  BY <1>1, <1>4 DEF ContentInv
<1> QED
  BY <1>5, <1>6, <1>8, <1>9, <1>10, <1>11 DEF MessageInv

LEMMA TickBecomesSignal ==
  ASSUME MessageInv, NEW q \in Queues, NEW r \in Queues, queue[q] # <<>>,
         KindIn(q) = "tick", KindIn(r) = "signal", q \in SbeQueues <=> r \in SbeQueues,
         NEW m \in Message, m.kind = "signal", m.feed = body[Head(queue[q])].feed, m.side # "none",
         m.token = next_token_[m.feed], Rewritten(q, r, m),
         ref_price_' \in [Feeds -> Int],
         \A f \in Feeds : InRange(ref_price_[f], kDefaultBandBps)',
         next_token_' = [next_token_ EXCEPT ![m.feed] = @ + 1],
         signals_' = [signals_ EXCEPT ![m.feed] = @ + 1],
         emitted' = emitted \cup {m},
         UNCHANGED <<submitted_, next_ref, counts>>
  PROVE  MessageInv'
<1> DEFINE s == Head(queue[q])
<1>1. DataOK /\ SlotsInv /\ KindsInv /\ StatsInv /\ TokensInv /\ ContentInv
  BY DEF MessageInv
<1>2. QueuesOK /\ MessagesOK
  BY <1>1, QueuesAndMessages
<1>3. s \in acquired /\ body[s].kind = "tick" /\ m.feed = body[s].feed /\ m.feed \in Feeds /\ q # r
  BY <1>1, HeadMessage, MessageFields
<1>4. /\ acquired' = acquired /\ body' = [body EXCEPT ![s] = m] /\ queue' = Moved(q, r)
      /\ submitted_' = submitted_ /\ next_ref' = next_ref
      /\ confirmed' = confirmed /\ acknowledged' = acknowledged
  BY DEF Rewritten, counts
<1>5. KindsInv'
  BY <1>1, <1>3, RewriteKeepsKinds
<1> HIDE DEF s
<1>6. QueuesOK' /\ SlotsInv'
  BY <1>1, <1>2, <1>3, <1>4, MoveKeepsSlots
<1>7. /\ MessagesOK' /\ body'[s] = m /\ \A t \in PoolSlots \ {s} : body'[t] = body[t]
      /\ \A f \in Feeds : /\ Out("signal", f)' = IF f = m.feed THEN Out("signal", f) + 1 ELSE Out("signal", f)
                          /\ Out("order", f)' = Out("order", f)
                          /\ Out("confirm", f)' = Out("confirm", f)
  <2>1. /\ MessagesOK' /\ body'[s] = m /\ \A t \in PoolSlots \ {s} : body'[t] = body[t]
        /\ \A k \in Kinds, f \in Feeds :
             Out(k, f)' = IF f # m.feed THEN Out(k, f)
                          ELSE IF k = m.kind THEN Out(k, f) + 1
                          ELSE IF k = body[s].kind THEN Out(k, f) - 1 ELSE Out(k, f)
    BY <1>2, <1>3, <1>4, RewriteCounts
  <2> QED
    BY <1>3, <2>1 DEF Kinds
<1>8. DataOK'
  <2>1. next_token_' \in [Feeds -> Nat] /\ signals_' \in [Feeds -> Nat]
    <3>1. next_token_ \in [Feeds -> Nat] /\ signals_ \in [Feeds -> Nat]
      BY <1>1 DEF DataOK
    <3>2. next_token_[m.feed] + 1 \in Nat /\ signals_[m.feed] + 1 \in Nat
      BY <1>3, <3>1
    <3>3. next_token_' \in [Feeds -> Nat]
      BY <1>3, <3>1, <3>2
    <3>4. signals_' \in [Feeds -> Nat]
      BY <1>3, <3>1, <3>2
    <3> QED
      BY <3>3, <3>4
  <2>2. emitted' \subseteq Message
    BY <1>1 DEF DataOK
  <2> QED
    BY <1>1, <1>4, <1>6, <1>7, <2>1, <2>2 DEF DataOK, QueuesOK, MessagesOK
<1>9. StatsInv'
  <2> SUFFICES ASSUME NEW f \in Feeds
      PROVE  /\ signals_'[f] = submitted_'[f] + Out("signal", f)'
             /\ submitted_'[f] = Out("order", f)' + next_ref'[f] - 1
             /\ next_ref'[f] - 1 = Out("confirm", f)' + confirmed'[f]
    BY DEF StatsInv
  <2>1. signals_'[f] = IF f = m.feed THEN signals_[f] + 1 ELSE signals_[f]
    BY <1>1, <1>3 DEF DataOK
  <2>2. /\ signals_[f] = submitted_[f] + Out("signal", f)
        /\ submitted_[f] = Out("order", f) + next_ref[f] - 1
        /\ next_ref[f] - 1 = Out("confirm", f) + confirmed[f]
    BY <1>1 DEF StatsInv
  <2>3. signals_[f] \in Nat /\ submitted_[f] \in Nat /\ Out("signal", f) \in Nat
    BY <1>1, <1>2, OutType DEF DataOK
  <2>4. signals_'[f] = submitted_'[f] + Out("signal", f)'
    BY <1>4, <1>7, <2>1, <2>2, <2>3
  <2>5. submitted_'[f] = Out("order", f)' + next_ref'[f] - 1
    BY <1>4, <1>7, <2>2
  <2>6. next_ref'[f] - 1 = Out("confirm", f)' + confirmed'[f]
    BY <1>4, <1>7, <2>2
  <2> QED
    BY <2>4, <2>5, <2>6
<1>10. TokensInv'
  BY <1>1, <1>3, <1>4, SignalKeepsTokens
<1>11. ContentInv'
  <2>1. \A t \in acquired : t \in PoolSlots
    BY <1>1 DEF DataOK
  <2> QED
    BY <1>1, <1>3, <1>4, <1>7, <2>1 DEF ContentInv
<1> QED
  BY <1>5, <1>6, <1>8, <1>9, <1>10, <1>11 DEF MessageInv

(* on_tick: the tick is dropped or becomes a signal. *)
LEMMA OnTickKeeps ==
  ASSUME MessageInv, NEW q \in Queues, NEW r \in Queues, queue[q] # <<>>,
         KindIn(q) = "tick", KindIn(r) = "signal", q \in SbeQueues <=> r \in SbeQueues,
         OnTick(q, r, body[Head(queue[q])])
  PROVE  MessageInv' /\ Flow(q, r)
<1> DEFINE tick   == body[Head(queue[q])]
           feed   == tick.feed
           signal == SignalOf(tick)
           ref    == update_ref_price(ref_price_[feed], signal.price)
           side   == evaluate(ref, signal.price, kDefaultBandBps)
           m      == Emitted(signal, side, next_token_[feed])
<1>1. DataOK /\ SlotsInv /\ KindsInv /\ ContentInv /\ QueuesOK
  BY QueuesAndMessages DEF MessageInv
<1>2. Head(queue[q]) \in acquired /\ tick \in Message /\ tick.kind = "tick" /\ feed \in Feeds
  BY <1>1, HeadMessage
<1>3. IsTick(tick, Feeds)
  BY <1>1, <1>2 DEF ContentInv
<1>4. signal \in Message /\ signal.feed = feed /\ InRange(signal.price, kDefaultBandBps)
  BY <1>3, SignalFacts DEF IsTick
<1>5. /\ ref_price_' = [ref_price_ EXCEPT ![feed] = ref]
      /\ UNCHANGED <<submitted_, next_ref, counts>>
      /\ side = "none" => Drop(q) /\ UNCHANGED <<next_token_, signals_, emitted>>
  BY DEF OnTick, Emit
<1>6. side # "none" => /\ Rewritten(q, r, m)
                       /\ next_token_' = [next_token_ EXCEPT ![feed] = @ + 1]
                       /\ signals_' = [signals_ EXCEPT ![feed] = @ + 1]
                       /\ emitted' = emitted \cup {m}
  BY Zenon DEF OnTick, Emit, Rewritten, Emitted, Bump
<1>7. ref \in Int /\ InRange(ref, kDefaultBandBps)
  <2>1. InRange(ref_price_[feed], kDefaultBandBps) /\ kDefaultBandBps \in Nat
    BY <1>1, <1>2 DEF DataOK, kDefaultBandBps
  <2> HIDE DEF feed, signal
  <2>2. InRange(ref, kDefaultBandBps)
    BY <1>4, <2>1, StaysInRange
  <2> QED
    BY <2>2, MaxIntNat DEF InRange
<1>8. side \in {"none", "buy", "sell"}
  <2>1. signal.price \in Int /\ ref \in Int /\ kDefaultBandBps \in Nat
    BY <1>4, <1>7, MessageFields DEF kDefaultBandBps
  <2> HIDE DEF signal, ref
  <2> QED
    BY <2>1, SignalsLeaveTheBand
<1>9. next_token_[feed] \in Nat
  BY <1>1, <1>2 DEF DataOK
<1>10. m \in Message /\ m.kind = "signal" /\ m.feed = feed /\ m.side = side /\ m.token = next_token_[feed]
  <2>1. /\ signal \in Message /\ side \in Sides /\ next_token_[feed] \in Nat
        /\ m = Emitted(signal, side, next_token_[feed])
    BY <1>4, <1>8, <1>9 DEF Sides
  <2> HIDE DEF signal, side, m
  <2>2. /\ m \in Message /\ m.kind = "signal" /\ m.feed = signal.feed
        /\ m.side = side /\ m.token = next_token_[feed]
    BY <2>1, EmittedFacts
  <2> QED
    BY <1>4, <2>2
<1> HIDE DEF signal, ref, side, m
<1>11. ref_price_' \in [Feeds -> Int] /\ \A f \in Feeds : InRange(ref_price_[f], kDefaultBandBps)'
  <2>1. \A f \in Feeds : ref_price_'[f] = IF f = feed THEN ref ELSE ref_price_[f]
    BY <1>1, <1>2, <1>5 DEF DataOK
  <2>2. ref_price_' \in [Feeds -> Int]
    BY <1>1, <1>2, <1>5, <1>7 DEF DataOK
  <2>3. \A f \in Feeds : InRange(ref_price_'[f], kDefaultBandBps)
    BY <1>1, <1>7, <2>1 DEF DataOK
  <2> QED
    BY <2>2, <2>3
<1>12. q # r
  OBVIOUS
<1>13. CASE side = "none"
  <2>1. Drop(q) /\ UNCHANGED <<next_token_, signals_, emitted>>
    BY <1>5, <1>13
  <2>2. MessageInv'
    BY <1>5, <1>11, <2>1, TickIsDropped
  <2>3. Flow(q, r)
    BY <1>1, <1>12, <2>1, DropKeepsSlots DEF Flow
  <2> QED
    BY <2>2, <2>3
<1>14. CASE side # "none"
  <2>1. MessageInv'
    BY <1>5, <1>6, <1>10, <1>11, <1>14, TickBecomesSignal
  <2>2. queue' = Moved(q, r) /\ acquired' = acquired
    BY <1>6, <1>14 DEF Rewritten
  <2>3. Flow(q, r)
    BY <1>1, <1>12, <2>2, MoveKeepsSlots DEF Flow
  <2> QED
    BY <2>1, <2>3
<1> QED
  BY <1>13, <1>14

(* A poll that finds nothing, and one that puts back what it found.        *)
LEMMA MessagesUnchanged ==
  ASSUME MessageInv, UNCHANGED <<pool, queue, stats>>
  PROVE  MessageInv'
<1>1. UNCHANGED <<acquired, body, queue, ref_price_, next_token_, signals_, emitted, submitted_, next_ref,
                  confirmed, acknowledged>>
  BY DEF pool, stats, producers, counts
<1>2. \A q : Holds(q)' = Holds(q)
  BY <1>1 DEF Holds
<1>3. \A k, f : Out(k, f)' = Out(k, f)
  BY <1>1 DEF Out, OfKind
<1>4. \A f : TokensOK(f)' <=> TokensOK(f)
  BY <1>1 DEF TokensOK, OnTheWay, Answered
<1>5. DataOK' /\ SlotsInv' /\ KindsInv'
  BY <1>1, <1>2 DEF MessageInv, DataOK, SlotsInv, KindsInv
<1>6. StatsInv' /\ TokensInv' /\ ContentInv'
  BY <1>1, <1>3, <1>4 DEF MessageInv, StatsInv, TokensInv, ContentInv
<1> QED
  BY <1>5, <1>6 DEF MessageInv

LEMMA MessagesRotated ==
  ASSUME MessageInv, acquired' = acquired, body' = body, UNCHANGED stats,
         QueuesOK', SlotsInv', \A q \in Queues : Holds(q)' = Holds(q)
  PROVE  MessageInv'
<1>1. UNCHANGED <<acquired, body, ref_price_, next_token_, signals_, emitted, submitted_, next_ref,
                  confirmed, acknowledged>>
  BY DEF stats, producers, counts
<1>2. \A k, f : Out(k, f)' = Out(k, f)
  BY <1>1 DEF Out, OfKind
<1>3. \A f : TokensOK(f)' <=> TokensOK(f)
  BY <1>1 DEF TokensOK, OnTheWay, Answered
<1>4. DataOK' /\ KindsInv'
  BY <1>1 DEF MessageInv, DataOK, QueuesOK, KindsInv
<1>5. StatsInv' /\ TokensInv' /\ ContentInv'
  BY <1>1, <1>2, <1>3 DEF MessageInv, StatsInv, TokensInv, ContentInv
<1> QED
  BY <1>4, <1>5 DEF MessageInv

NextKind(k, next) ==
  \/ k = "signal" /\ next = "order"
  \/ k = "order" /\ next = "confirm"

Counted(counter, feed, is) == IF is THEN [counter EXCEPT ![feed] = @ + 1] ELSE counter

(* A signal becomes an order and an order its confirm: a stage rewrites    *)
(* the message at the head of q with the next kind and counts it.          *)
LEMMA NextKindKeeps ==
  ASSUME MessageInv, NEW q \in Queues, NEW r \in Queues, queue[q] # <<>>,
         q \in SbeQueues <=> r \in SbeQueues,
         NextKind(KindIn(q), KindIn(r)),
         NEW m \in Message, m.kind = KindIn(r), m.feed = body[Head(queue[q])].feed,
         m.feed # "mtbt" => m.token = body[Head(queue[q])].token,
         \E signal \in emitted : FromSignal(m, signal),
         Rewritten(q, r, m),
         submitted_' = Counted(submitted_, m.feed, KindIn(r) = "order"),
         next_ref' = Counted(next_ref, m.feed, KindIn(r) = "confirm"),
         UNCHANGED <<producers, counts>>
  PROVE  MessageInv' /\ Flow(q, r)
<1> DEFINE s == Head(queue[q])
<1>1. DataOK /\ SlotsInv /\ KindsInv /\ StatsInv /\ TokensInv /\ ContentInv
  BY DEF MessageInv
<1>2. QueuesOK /\ MessagesOK
  BY <1>1, QueuesAndMessages
<1>3. s \in acquired /\ body[s].kind = KindIn(q) /\ m.feed = body[s].feed /\ m.feed \in Feeds
  BY <1>1, HeadMessage, MessageFields
<1>4. /\ acquired' = acquired /\ body' = [body EXCEPT ![s] = m] /\ queue' = Moved(q, r)
      /\ ref_price_' = ref_price_ /\ next_token_' = next_token_ /\ signals_' = signals_
      /\ emitted' = emitted /\ confirmed' = confirmed /\ acknowledged' = acknowledged
  BY DEF Rewritten, producers, counts
<1>5. /\ KindIn(q) # "tick" /\ KindIn(r) # "tick" /\ KindIn(q) # KindIn(r) /\ q # r
      /\ KindIn(q) \in Kinds /\ KindIn(r) \in Kinds /\ KindIn(r) # "signal"
  <2>1. /\ KindIn(q) # "tick" /\ KindIn(r) # "tick" /\ KindIn(q) # KindIn(r)
        /\ KindIn(q) \in Kinds /\ KindIn(r) \in Kinds /\ KindIn(r) # "signal"
    BY DEF NextKind, Kinds
  <2> QED
    BY <2>1
<1>6. KindsInv'
  BY <1>1, <1>5, RewriteKeepsKinds
<1> HIDE DEF s
<1>7. /\ QueuesOK' /\ SlotsInv' /\ Flow(q, r)
  BY <1>1, <1>2, <1>4, <1>5, MoveKeepsSlots DEF Flow
<1>8. /\ MessagesOK' /\ body'[s] = m /\ \A t \in PoolSlots \ {s} : body'[t] = body[t]
      /\ \A k \in Kinds, f \in Feeds :
           Out(k, f)' = IF f # m.feed THEN Out(k, f)
                        ELSE IF k = KindIn(r) THEN Out(k, f) + 1
                        ELSE IF k = KindIn(q) THEN Out(k, f) - 1 ELSE Out(k, f)
  <2>1. m.kind # body[s].kind
    BY <1>3, <1>5
  <2>2. /\ MessagesOK' /\ body'[s] = m /\ \A t \in PoolSlots \ {s} : body'[t] = body[t]
        /\ \A k \in Kinds, f \in Feeds :
             Out(k, f)' = IF f # m.feed THEN Out(k, f)
                          ELSE IF k = m.kind THEN Out(k, f) + 1
                          ELSE IF k = body[s].kind THEN Out(k, f) - 1 ELSE Out(k, f)
    BY <1>2, <1>3, <1>4, <2>1, RewriteCounts
  <2> QED
    BY <1>3, <2>2
<1>9. DataOK'
  <2>1. submitted_' \in [Feeds -> Nat] /\ next_ref' \in [Feeds -> Nat]
    <3>1. submitted_ \in [Feeds -> Nat] /\ next_ref \in [Feeds -> Nat]
      BY <1>1 DEF DataOK
    <3>2. /\ [submitted_ EXCEPT ![m.feed] = @ + 1] \in [Feeds -> Nat]
          /\ [next_ref EXCEPT ![m.feed] = @ + 1] \in [Feeds -> Nat]
      BY <1>3, <3>1
    <3>3. submitted_' \in [Feeds -> Nat]
      BY <3>1, <3>2 DEF Counted
    <3>4. next_ref' \in [Feeds -> Nat]
      BY <3>1, <3>2 DEF Counted
    <3> QED
      BY <3>3, <3>4
  <2> QED
    BY <1>1, <1>4, <1>7, <1>8, <2>1 DEF DataOK, QueuesOK, MessagesOK
<1>10. StatsInv'
  <2> SUFFICES ASSUME NEW f \in Feeds
      PROVE  /\ signals_'[f] = submitted_'[f] + Out("signal", f)'
             /\ submitted_'[f] = Out("order", f)' + next_ref'[f] - 1
             /\ next_ref'[f] - 1 = Out("confirm", f)' + confirmed'[f]
    BY DEF StatsInv
  <2>1. /\ signals_[f] = submitted_[f] + Out("signal", f)
        /\ submitted_[f] = Out("order", f) + next_ref[f] - 1
        /\ next_ref[f] - 1 = Out("confirm", f) + confirmed[f]
    BY <1>1 DEF StatsInv
  <2>2. /\ signals_[f] \in Nat /\ submitted_[f] \in Nat /\ next_ref[f] \in Nat /\ confirmed[f] \in Nat
        /\ Out("signal", f) \in Nat /\ Out("order", f) \in Nat /\ Out("confirm", f) \in Nat
    BY <1>1, <1>2, OutType DEF DataOK
  <2>0. signals_'[f] = signals_[f] /\ confirmed'[f] = confirmed[f]
    BY <1>4
  <2>3. CASE f # m.feed
    <3>1. /\ Out("signal", f)' = Out("signal", f) /\ Out("order", f)' = Out("order", f)
          /\ Out("confirm", f)' = Out("confirm", f)
      BY <1>8, <2>3 DEF Kinds
    <3>2. submitted_'[f] = submitted_[f]
      BY <1>1, <2>3 DEF DataOK, Counted
    <3>3. next_ref'[f] = next_ref[f]
      BY <1>1, <2>3 DEF DataOK, Counted
    <3> QED
      BY <1>4, <2>1, <3>1, <3>2, <3>3
  <2>4. CASE f = m.feed /\ KindIn(q) = "signal" /\ KindIn(r) = "order"
    <3>1. /\ Out("signal", f)' = Out("signal", f) - 1 /\ Out("order", f)' = Out("order", f) + 1
          /\ Out("confirm", f)' = Out("confirm", f)
      BY <1>8, <2>4 DEF Kinds
    <3>2. submitted_'[f] = submitted_[f] + 1 /\ next_ref'[f] = next_ref[f]
      BY <1>1, <2>4 DEF DataOK, Counted
    <3>3. signals_'[f] = submitted_'[f] + Out("signal", f)'
      <4>1. signals_'[f] = submitted_[f] + Out("signal", f)
        BY <2>0, <2>1
      <4>2. @ = (submitted_[f] + 1) + (Out("signal", f) - 1)
        BY <2>2
      <4> QED
        BY <4>1, <4>2, <3>1, <3>2
    <3>4. submitted_'[f] = Out("order", f)' + next_ref'[f] - 1
      <4>1. submitted_'[f] = (Out("order", f) + next_ref[f] - 1) + 1
        BY <2>1, <3>2
      <4>2. @ = (Out("order", f) + 1) + next_ref[f] - 1
        BY <2>2
      <4> QED
        BY <4>1, <4>2, <3>1, <3>2
    <3>5. next_ref'[f] - 1 = Out("confirm", f)' + confirmed'[f]
      BY <2>0, <2>1, <3>1, <3>2
    <3> QED
      BY <3>3, <3>4, <3>5
  <2>5. CASE f = m.feed /\ KindIn(q) = "order" /\ KindIn(r) = "confirm"
    <3>1. /\ Out("signal", f)' = Out("signal", f) /\ Out("order", f)' = Out("order", f) - 1
          /\ Out("confirm", f)' = Out("confirm", f) + 1
      BY <1>8, <2>5 DEF Kinds
    <3>2. submitted_'[f] = submitted_[f] /\ next_ref'[f] = next_ref[f] + 1
      BY <1>1, <2>5 DEF DataOK, Counted
    <3>3. signals_'[f] = submitted_'[f] + Out("signal", f)'
      BY <2>0, <2>1, <3>1, <3>2
    <3>4. submitted_'[f] = Out("order", f)' + next_ref'[f] - 1
      <4>1. submitted_'[f] = Out("order", f) + next_ref[f] - 1
        BY <2>1, <3>2
      <4>2. @ = (Out("order", f) - 1) + (next_ref[f] + 1) - 1
        BY <2>2
      <4> QED
        BY <4>1, <4>2, <3>1, <3>2
    <3>5. next_ref'[f] - 1 = Out("confirm", f)' + confirmed'[f]
      <4>1. next_ref'[f] - 1 = (next_ref[f] - 1) + 1
        BY <2>2, <3>2
      <4>2. @ = (Out("confirm", f) + confirmed[f]) + 1
        BY <2>1
      <4>3. @ = (Out("confirm", f) + 1) + confirmed[f]
        BY <2>2
      <4> QED
        BY <4>1, <4>2, <4>3, <2>0, <3>1
    <3> QED
      BY <3>3, <3>4, <3>5
  <2> QED
    BY <2>3, <2>4, <2>5 DEF NextKind
<1>11. TokensInv'
  BY <1>1, <1>3, <1>4, <1>5, RewriteKeepsTokens DEF s
<1>12. ContentInv'
  <2>1. \A t \in acquired : body'[t] = IF t = s THEN m ELSE body[t]
    BY <1>1, <1>8 DEF DataOK
  <2>2. \A t \in acquired : body'[t].kind = "tick" => IsTick(body'[t], Feeds)
    BY <1>1, <1>5, <2>1 DEF ContentInv
  <2>3. \A t \in acquired : body'[t].kind = "signal" => body'[t] \in emitted /\ body'[t].side # "none"
    BY <1>1, <1>5, <2>1 DEF ContentInv
  <2>4. \A t \in acquired :
          body'[t].kind \in {"order", "confirm"} => \E signal \in emitted : FromSignal(body'[t], signal)
    BY <1>1, <2>1 DEF ContentInv
  <2> QED
    BY <1>1, <1>4, <2>2, <2>3, <2>4 DEF ContentInv
<1> QED
  BY <1>6, <1>7, <1>9, <1>10, <1>11, <1>12 DEF MessageInv

(* poll_once of a consumer on the signal queue of its venue: it submits,   *)
(* or puts back what is another's; there is nothing else in the queue.     *)
LEMMA ConsumerKeeps ==
  ASSUME MessageInv, NEW q \in Queues, NEW r \in Queues, NEW feed \in Feeds,
         KindIn(q) = "signal", KindIn(r) = "order", q \in SbeQueues <=> r \in SbeQueues,
         q \in SbeQueues <=> feed = "sbe",
         PollConsumer(feed, q, r)
  PROVE  /\ MessageInv'
         /\ \/ queue[q] # <<>> /\ Flow(q, r)
            \/ (queue[q] = <<>> \/ feed # "sbe") /\ \A p \in Queues : Size(p)' = Size(p)
<1> DEFINE msg == body[Head(queue[q])]
<1>1. DataOK /\ SlotsInv /\ KindsInv /\ ContentInv /\ QueuesOK
  BY QueuesAndMessages DEF MessageInv
<1>2. CASE queue[q] = <<>>
  <2>1. UNCHANGED <<pool, queue, stats>>
    BY <1>2 DEF PollConsumer, Poll
  <2>2. MessageInv'
    BY <2>1, MessagesUnchanged
  <2> QED
    BY <1>2, <2>1, <2>2 DEF Size
<1>3. CASE queue[q] # <<>>
  <2>1. /\ Head(queue[q]) \in acquired /\ msg \in Message /\ msg.kind = "signal"
        /\ msg.feed = "sbe" <=> q \in SbeQueues
    BY <1>1, <1>3, HeadMessage
  <2>2. msg.side # "none" /\ msg \in emitted
    BY <1>1, <2>1 DEF ContentInv
  <2>3. \/ /\ msg.feed # feed /\ queue' = Moved(q, q)
           /\ UNCHANGED pool /\ UNCHANGED stats
        \/ msg.feed = feed /\ Submit(feed, q, r)
    BY <1>3, <2>1, <2>2 DEF PollConsumer, Poll
  <2>4. CASE msg.feed # feed /\ queue' = Moved(q, q) /\ UNCHANGED pool /\ UNCHANGED stats
    <3>1. acquired' = acquired /\ body' = body
      BY <2>4 DEF pool
    <3>2. QueuesOK' /\ SlotsInv' /\ \A p \in Queues : Holds(p)' = Holds(p) /\ Size(p)' = Size(p)
      BY <1>1, <1>3, <2>4, <3>1, RotateKeepsSlots
    <3>3. MessageInv'
      BY <2>4, <3>1, <3>2, MessagesRotated
    <3>4. feed # "sbe"
      BY <2>1, <2>4
    <3> QED
      BY <3>2, <3>3, <3>4
  <2>5. CASE msg.feed = feed /\ Submit(feed, q, r)
    <3> DEFINE m == OrderOf(msg)
    <3>1. /\ Rewritten(q, r, m) /\ submitted_' = [submitted_ EXCEPT ![feed] = @ + 1]
          /\ UNCHANGED <<producers, next_ref, counts>>
      <4>1. body' = [body EXCEPT ![Head(queue[q])] = OrderOf(@)]
        BY <2>5 DEF Submit
      <4>2. body' = [body EXCEPT ![Head(queue[q])] = OrderOf(body[Head(queue[q])])]
        BY <1>1, <2>1, <4>1 DEF DataOK
      <4> QED
        BY <2>5, <4>2 DEF Submit, Rewritten, Bump
    <3>2. /\ m \in Message /\ m.kind = "order" /\ m.feed = feed
          /\ m.side = msg.side /\ m.price = msg.price
          /\ m.token = IF m.feed = "mtbt" THEN msg.security ELSE msg.token
      BY <2>1, <2>5, OrderFacts
    <3> HIDE DEF m
    <3>3. FromSignal(m, msg)
      BY <2>5, <3>2 DEF FromSignal
    <3>4. \E signal \in emitted : FromSignal(m, signal)
      BY <2>2, <3>3
    <3>5. NextKind(KindIn(q), KindIn(r))
      BY DEF NextKind
    <3>6. /\ submitted_' = Counted(submitted_, m.feed, KindIn(r) = "order")
          /\ next_ref' = Counted(next_ref, m.feed, KindIn(r) = "confirm")
          /\ UNCHANGED <<producers, counts>>
      BY <3>1, <3>2 DEF Counted
    <3>7. m.feed = body[Head(queue[q])].feed /\ (m.feed # "mtbt" => m.token = body[Head(queue[q])].token)
      BY <2>5, <3>2
    <3> HIDE DEF msg
    <3> QED
      BY <1>3, <3>1, <3>2, <3>4, <3>5, <3>6, <3>7, NextKindKeeps
  <2> QED
    BY <2>3, <2>4, <2>5
<1> QED
  BY <1>2, <1>3

(* poll_once of the gateway: there is nothing but orders in its queue.     *)
LEMMA GatewayKeeps ==
  ASSUME MessageInv, NEW q \in Queues, NEW r \in Queues,
         KindIn(q) = "order", KindIn(r) = "confirm", q \in SbeQueues <=> r \in SbeQueues,
         PollGateway(q, r)
  PROVE  /\ MessageInv'
         /\ \/ queue[q] # <<>> /\ Flow(q, r)
            \/ queue[q] = <<>> /\ \A p \in Queues : Size(p)' = Size(p)
<1> DEFINE order == body[Head(queue[q])]
           ref   == next_ref[order.feed]
           m     == Referenced(ConfirmOf(order), ref)
<1>1. DataOK /\ SlotsInv /\ KindsInv /\ ContentInv /\ QueuesOK
  BY QueuesAndMessages DEF MessageInv
<1>2. CASE queue[q] = <<>>
  <2>1. UNCHANGED <<pool, queue, stats>>
    BY <1>2 DEF PollGateway
  <2>2. MessageInv'
    BY <2>1, MessagesUnchanged
  <2> QED
    BY <1>2, <2>1, <2>2 DEF Size
<1>3. CASE queue[q] # <<>>
  <2>1. /\ Head(queue[q]) \in acquired /\ order \in Message /\ order.kind = "order"
        /\ order.feed \in Feeds
    BY <1>1, <1>3, HeadMessage
  <2>2. /\ body' = [body EXCEPT ![Head(queue[q])] = m]
        /\ queue' = Moved(q, r) /\ next_ref' = Bump(next_ref, order.feed)
        /\ UNCHANGED <<acquired, producers, submitted_, counts>>
    BY <1>3, <2>1, Zenon DEF PollGateway, Referenced
  <2>3. ref \in Nat
    BY <1>1, <2>1 DEF DataOK
  <2>4. /\ m \in Message /\ m.kind = "confirm" /\ m.feed = order.feed /\ m.token = order.token
        /\ m.feed # "mcx" => m.side = order.side /\ m.price = order.price
    <3> DEFINE confirm == ConfirmOf(order)
    <3>1. /\ confirm \in Message /\ confirm.kind = "confirm" /\ confirm.feed = order.feed
          /\ confirm.token = order.token
          /\ confirm.feed # "mcx" => confirm.side = order.side /\ confirm.price = order.price
      BY <2>1, ConfirmFacts
    <3>2. m = Referenced(confirm, ref)
      OBVIOUS
    <3> HIDE DEF confirm, order, ref, m
    <3>3. /\ m \in Message /\ m.kind = confirm.kind /\ m.feed = confirm.feed /\ m.token = confirm.token
          /\ m.side = confirm.side /\ m.price = confirm.price
      BY <2>3, <3>1, <3>2, ReferencedFacts
    <3> QED
      BY <3>1, <3>3
  <2>5. \E signal \in emitted : FromSignal(order, signal)
    BY <1>1, <2>1 DEF ContentInv
  <2> HIDE DEF m, ref
  <2>6. \E signal \in emitted : FromSignal(m, signal)
    BY <2>1, <2>4, <2>5 DEF FromSignal
  <2>7. Rewritten(q, r, m)
    BY <2>2 DEF Rewritten
  <2>8. /\ submitted_' = Counted(submitted_, m.feed, KindIn(r) = "order")
        /\ next_ref' = Counted(next_ref, m.feed, KindIn(r) = "confirm")
        /\ UNCHANGED <<producers, counts>>
    BY <2>2, <2>4 DEF Bump, Counted
  <2>9. NextKind(KindIn(q), KindIn(r))
    BY DEF NextKind
  <2>10. MessageInv' /\ Flow(q, r)
    BY <1>3, <2>4, <2>6, <2>7, <2>8, <2>9, NextKindKeeps
  <2> QED
    BY <1>3, <2>10
<1> QED
  BY <1>2, <1>3

(* main counts a confirm and releases it. *)
LEMMA CountKeeps ==
  ASSUME MessageInv, NEW q \in Queues, queue[q] # <<>>, KindIn(q) = "confirm", Drop(q),
         confirmed' = Bump(confirmed, body[Head(queue[q])].feed),
         acknowledged' = acknowledged \cup {body[Head(queue[q])]},
         UNCHANGED <<producers, submitted_, next_ref>>
  PROVE  /\ MessageInv'
         /\ Size(q)' = Size(q) - 1 /\ \A p \in Queues \ {q} : Size(p)' = Size(p)
<1> DEFINE s == Head(queue[q])
<1>1. DataOK /\ SlotsInv /\ KindsInv /\ StatsInv /\ TokensInv /\ ContentInv
  BY DEF MessageInv
<1>2. QueuesOK /\ MessagesOK
  BY <1>1, QueuesAndMessages
<1>3. s \in acquired /\ body[s] \in Message /\ body[s].kind = "confirm" /\ body[s].feed \in Feeds
  BY <1>1, HeadMessage
<1>4. /\ acquired' = acquired \ {s} /\ body' = body
      /\ confirmed' = [confirmed EXCEPT ![body[s].feed] = @ + 1]
      /\ acknowledged' = acknowledged \cup {body[s]}
      /\ ref_price_' = ref_price_ /\ next_token_' = next_token_ /\ signals_' = signals_
      /\ emitted' = emitted /\ submitted_' = submitted_ /\ next_ref' = next_ref
  BY DEF Drop, producers, Bump
<1>5. KindsInv' /\ QueuesOK' /\ SlotsInv' /\ Size(q)' = Size(q) - 1 /\ \A p \in Queues \ {q} : Size(p)' = Size(p)
  BY <1>1, <1>2, DropKeepsSlots, DropKeepsKinds
<1> HIDE DEF s
<1>6. /\ MessagesOK'
      /\ \A k \in Kinds, f \in Feeds :
           Out(k, f)' = IF k = body[s].kind /\ f = body[s].feed THEN Out(k, f) - 1 ELSE Out(k, f)
  BY <1>2, <1>3, <1>4, ReleaseCounts
<1>7. DataOK'
  <2>1. confirmed' \in [Feeds -> Nat]
    BY <1>1, <1>3, <1>4 DEF DataOK
  <2>2. acknowledged' \subseteq Message
    BY <1>1, <1>3, <1>4 DEF DataOK
  <2>3. IsFiniteSet(acknowledged)
    BY <1>1 DEF DataOK
  <2>4. IsFiniteSet(acknowledged')
    BY <1>4, <2>3, FS_AddElement
  <2> QED
    BY <1>1, <1>4, <1>5, <1>6, <2>1, <2>2, <2>4 DEF DataOK, Counted, QueuesOK, MessagesOK
<1>8. StatsInv'
  <2> SUFFICES ASSUME NEW f \in Feeds
      PROVE  /\ signals_'[f] = submitted_'[f] + Out("signal", f)'
             /\ submitted_'[f] = Out("order", f)' + next_ref'[f] - 1
             /\ next_ref'[f] - 1 = Out("confirm", f)' + confirmed'[f]
    BY DEF StatsInv
  <2>1. /\ signals_[f] = submitted_[f] + Out("signal", f)
        /\ submitted_[f] = Out("order", f) + next_ref[f] - 1
        /\ next_ref[f] - 1 = Out("confirm", f) + confirmed[f]
    BY <1>1 DEF StatsInv
  <2>2. next_ref[f] \in Nat /\ confirmed[f] \in Nat /\ Out("confirm", f) \in Nat
    BY <1>1, <1>2, OutType DEF DataOK
  <2>3. Out("signal", f)' = Out("signal", f) /\ Out("order", f)' = Out("order", f)
    BY <1>3, <1>6 DEF Kinds
  <2>4. Out("confirm", f)' = IF f = body[s].feed THEN Out("confirm", f) - 1 ELSE Out("confirm", f)
    BY <1>3, <1>6 DEF Kinds
  <2>5. confirmed'[f] = IF f = body[s].feed THEN confirmed[f] + 1 ELSE confirmed[f]
    BY <1>1, <1>4 DEF DataOK
  <2>6. next_ref'[f] - 1 = Out("confirm", f)' + confirmed'[f]
    BY <1>4, <2>1, <2>2, <2>4, <2>5
  <2> QED
    BY <1>4, <2>1, <2>3, <2>6
<1>9. TokensInv'
  BY <1>1, <1>3, <1>4, CountKeepsTokens
<1>10. ContentInv'
  <2>1. \E signal \in emitted : FromSignal(body[s], signal)
    BY <1>1, <1>3 DEF ContentInv
  <2> QED
    BY <1>1, <1>3, <1>4, <2>1 DEF ContentInv
<1> QED
  BY <1>5, <1>7, <1>8, <1>9, <1>10 DEF MessageInv

(* acquire_filled and push of an SBE tick. *)
LEMMA MakeKeeps ==
  ASSUME MessageInv, NEW s \in PoolSlots \ acquired, NEW m, IsTick(m, {"sbe"}),
         acquired' = acquired \cup {s}, body' = [body EXCEPT ![s] = m],
         queue' = [queue EXCEPT !["sbe_market"] = Append(@, s)],
         UNCHANGED stats
  PROVE  /\ MessageInv'
         /\ Size("sbe_market")' = Size("sbe_market") + 1
         /\ \A p \in Queues \ {"sbe_market"} : Size(p)' = Size(p)
<1>1. DataOK /\ SlotsInv /\ KindsInv /\ StatsInv /\ TokensInv /\ ContentInv
  BY DEF MessageInv
<1>2. QueuesOK /\ MessagesOK
  BY <1>1, QueuesAndMessages
<1>3. m \in Message /\ m.kind = "tick" /\ m.feed = "sbe" /\ "sbe_market" \in Queues
  BY DEF IsTick, Queues
<1>4. /\ ref_price_' = ref_price_ /\ next_token_' = next_token_ /\ signals_' = signals_
      /\ emitted' = emitted /\ submitted_' = submitted_ /\ next_ref' = next_ref
      /\ confirmed' = confirmed /\ acknowledged' = acknowledged
  BY DEF stats, producers, counts
<1>5. /\ QueuesOK' /\ SlotsInv'
      /\ Holds("sbe_market")' = Holds("sbe_market") \cup {s}
      /\ \A p \in Queues \ {"sbe_market"} : Holds(p)' = Holds(p) /\ Size(p)' = Size(p)
      /\ Size("sbe_market")' = Size("sbe_market") + 1
  BY <1>1, <1>2, <1>3, PushKeepsSlots
<1>6. /\ MessagesOK' /\ body'[s] = m /\ \A t \in acquired : body'[t] = body[t]
      /\ \A k \in Kinds \ {"tick"}, f \in Feeds : Out(k, f)' = Out(k, f)
  BY <1>2, <1>3, AcquireCounts
<1>7. KindsInv'
  <2> SUFFICES ASSUME NEW p \in Queues, NEW t \in Holds(p)'
      PROVE  body'[t].kind = KindIn(p) /\ (body'[t].feed = "sbe" <=> p \in SbeQueues)
    BY DEF KindsInv
  <2>1. CASE t = s
    <3>1. p = "sbe_market"
      BY <1>1, <1>5, <2>1 DEF SlotsInv
    <3> QED
      BY <1>3, <1>6, <2>1, <3>1 DEF KindIn, SbeQueues
  <2>2. CASE t # s
    <3>1. t \in Holds(p) /\ t \in acquired
      BY <1>1, <1>5, <2>2 DEF SlotsInv
    <3> QED
      BY <1>1, <1>6, <3>1 DEF KindsInv
  <2> QED
    BY <2>1, <2>2
<1>8. DataOK'
  BY <1>1, <1>4, <1>5, <1>6 DEF DataOK, QueuesOK, MessagesOK
<1>9. StatsInv'
  BY <1>1, <1>4, <1>6 DEF StatsInv, Kinds
<1>10. TokensInv'
  <2>1. \A f \in Feeds : OnTheWay(f)' = OnTheWay(f)
    BY <1>3, <1>6 DEF OnTheWay
  <2> QED
    BY <1>1, <1>4, <1>6, <2>1, TicksKeepTokens
<1>11. ContentInv'
  <2>1. IsTick(m, Feeds)
    BY DEF IsTick, Feeds
  <2>2. \A t \in acquired' : t \in acquired \/ t = s
    OBVIOUS
  <2> QED
    BY <1>1, <1>3, <1>4, <1>6, <2>1, <2>2 DEF ContentInv
<1> QED
  BY <1>5, <1>7, <1>8, <1>9, <1>10, <1>11 DEF MessageInv

-----------------------------------------------------------------------------
(* The loops of main, one lemma for each.                                  *)

LEMMA SizesAreNat ==
  ASSUME DataOK
  PROVE  /\ Size("market") \in Nat /\ Size("signal") \in Nat
         /\ Size("pending") \in Nat /\ Size("confirm") \in Nat
         /\ Size("sbe_market") \in Nat /\ Size("sbe_signal") \in Nat
         /\ Size("sbe_pending") \in Nat /\ Size("sbe_confirm") \in Nat
<1>1. \A q \in Queues : Size(q) \in Nat
  BY QueuesAndMessages, SizeType
<1> QED
  BY <1>1 DEF Queues

LEMMA EmptyQueue ==
  ASSUME DataOK, NEW q \in Queues
  PROVE  queue[q] = <<>> <=> Size(q) = 0
  BY QueuesAndMessages, EmptyHoldsNothing

LEMMA PollsOfDrainSignals ==
  /\ Len(Turns) = 3 /\ Rounds * Len(Turns) \in Nat
  /\ Rounds <= Rounds * Len(Turns) /\ SbeRounds <= Rounds * Len(Turns)
<1>1. Len(Turns) = 3
  BY DEF Turns
<1> HIDE DEF Turns
<1>2. Rounds \in Nat /\ SbeRounds \in Nat /\ SbeRounds <= Rounds
  BY DEF RoundsAssumption
<1> QED
  BY <1>1, <1>2

(* A loop that ends touches no message. *)
LEMMA LoopEnds ==
  ASSUME MessageInv, UNCHANGED <<pool, queue, stats>>
  PROVE  MessageInv' /\ \A q \in Queues : Size(q)' = Size(q)
<1>1. MessageInv'
  BY MessagesUnchanged
<1> QED
  BY <1>1 DEF Size

LEMMA RouteMarketKeeps ==
  ASSUME PipelineInv, RouteMarket
  PROVE  PipelineInv'
<1>1. MessageInv /\ DataOK /\ PlaceOK /\ RoundsInv /\ phase = "route"
  BY DEF PipelineInv, MessageInv, RouteMarket, RouteTicks
<1>2. /\ Size("market") \in Nat /\ Size("signal") \in Nat
      /\ Size("pending") \in Nat /\ Size("confirm") \in Nat
      /\ Size("sbe_market") \in Nat /\ Size("sbe_signal") \in Nat
      /\ Size("sbe_pending") \in Nat /\ Size("sbe_confirm") \in Nat
  BY <1>1, SizesAreNat
<1>3. Rounds \in Nat /\ SbeRounds \in Nat /\ SbeRounds <= Rounds /\ round \in Nat
  BY <1>1, PollsOfDrainSignals DEF RoundsAssumption, PlaceOK
<1>0. /\ MarketTotal <= Rounds /\ SbeTotal <= SbeRounds
      /\ SbeTotal = 0 /\ Size("market") + round <= Rounds
  BY <1>1 DEF RoundsInv
<1>4. CASE round < Rounds /\ queue["market"] # <<>>
  <2>1. round < Rounds /\ round' = round + 1 /\ phase' = phase
    BY <1>1, <1>4 DEF RouteMarket, RouteTicks
  <2>2. MessageInv' /\ Flow("market", "signal")
    <3>1. OnTick("market", "signal", body[Head(queue["market"])])
      BY <1>1, <1>4 DEF RouteMarket, RouteTicks
    <3>2. /\ "market" \in Queues /\ "signal" \in Queues
          /\ "market" \in SbeQueues <=> "signal" \in SbeQueues
          /\ KindIn("market") = "tick" /\ KindIn("signal") = "signal"
      BY DEF Queues, SbeQueues, KindIn
    <3> QED
      BY <1>1, <1>4, <3>1, <3>2, OnTickKeeps
  <2>3. /\ Size("market")' = Size("market") - 1 /\ Size("signal")' \in {Size("signal"), Size("signal") + 1}
        /\ Size("pending")' = Size("pending") /\ Size("confirm")' = Size("confirm")
        /\ Size("sbe_market")' = Size("sbe_market") /\ Size("sbe_signal")' = Size("sbe_signal")
        /\ Size("sbe_pending")' = Size("sbe_pending") /\ Size("sbe_confirm")' = Size("sbe_confirm")
    BY <2>2 DEF Flow, Queues
  <2>4. PlaceOK'
    BY <1>1, <1>3, <2>1, PollsOfDrainSignals DEF PlaceOK
  <2>5. RoundsInv'
    <3>1. /\ MarketTotal' <= Rounds /\ SbeTotal' <= SbeRounds
          /\ SbeTotal' = 0 /\ Size("market")' + round' <= Rounds
      BY <1>0, <1>2, <1>3, <2>1, <2>3 DEF MarketTotal, SbeTotal
    <3> QED
      BY <1>1, <2>1, <3>1 DEF RoundsInv
  <2> QED
    BY <2>2, <2>4, <2>5 DEF PipelineInv
<1>5. CASE ~ (round < Rounds /\ queue["market"] # <<>>)
  <2>0. phase' = "signals" /\ round' = 0 /\ UNCHANGED <<pool, queue, stats>>
    BY <1>1, <1>5 DEF RouteMarket, RouteTicks
  <2>1. phase' = "signals" /\ round' = 0 /\ Size("market") = 0
    <3>1. Size("market") + round <= Rounds /\ (queue["market"] = <<>> => Size("market") = 0)
      BY <1>1, EmptyQueue DEF RoundsInv, Queues
    <3> QED
      BY <1>2, <1>3, <1>5, <2>0, <3>1
  <2>2. MessageInv' /\ \A p \in Queues : Size(p)' = Size(p)
    BY <1>1, <2>0, LoopEnds
  <2>3. /\ Size("market")' = Size("market") /\ Size("signal")' = Size("signal")
        /\ Size("pending")' = Size("pending") /\ Size("confirm")' = Size("confirm")
        /\ Size("sbe_market")' = Size("sbe_market") /\ Size("sbe_signal")' = Size("sbe_signal")
        /\ Size("sbe_pending")' = Size("sbe_pending") /\ Size("sbe_confirm")' = Size("sbe_confirm")
    BY <2>2 DEF Queues
  <2>4. PlaceOK'
    BY <1>1, <1>3, <2>1, PollsOfDrainSignals DEF PlaceOK
  <2>5. RoundsInv'
    <3>1. /\ MarketTotal' <= Rounds /\ SbeTotal' <= SbeRounds
          /\ SbeTotal' = 0 /\ Size("market")' = 0
      BY <1>0, <1>2, <1>3, <2>1, <2>3 DEF MarketTotal, SbeTotal
    <3> QED
      BY <1>1, <2>1, <3>1 DEF RoundsInv
  <2> QED
    BY <2>2, <2>4, <2>5 DEF PipelineInv
<1> QED
  BY <1>4, <1>5

LEMMA RouteSbeKeeps ==
  ASSUME PipelineInv, RouteSbe
  PROVE  PipelineInv'
<1>1. MessageInv /\ DataOK /\ PlaceOK /\ RoundsInv /\ phase = "sbe_route"
  BY DEF PipelineInv, MessageInv, RouteSbe, RouteTicks
<1>2. /\ Size("market") \in Nat /\ Size("signal") \in Nat
      /\ Size("pending") \in Nat /\ Size("confirm") \in Nat
      /\ Size("sbe_market") \in Nat /\ Size("sbe_signal") \in Nat
      /\ Size("sbe_pending") \in Nat /\ Size("sbe_confirm") \in Nat
  BY <1>1, SizesAreNat
<1>3. Rounds \in Nat /\ SbeRounds \in Nat /\ SbeRounds <= Rounds /\ round \in Nat
  BY <1>1, PollsOfDrainSignals DEF RoundsAssumption, PlaceOK
<1>0. /\ MarketTotal <= Rounds /\ SbeTotal <= SbeRounds
      /\ Size("market") = 0 /\ Size("pending") = 0 /\ Size("confirm") = 0
      /\ Size("sbe_market") + round <= SbeRounds
  BY <1>1 DEF RoundsInv
<1>4. CASE round < SbeRounds /\ queue["sbe_market"] # <<>>
  <2>1. round < SbeRounds /\ round' = round + 1 /\ phase' = phase
    BY <1>1, <1>4 DEF RouteSbe, RouteTicks
  <2>2. MessageInv' /\ Flow("sbe_market", "sbe_signal")
    <3>1. OnTick("sbe_market", "sbe_signal", body[Head(queue["sbe_market"])])
      BY <1>1, <1>4 DEF RouteSbe, RouteTicks
    <3>2. /\ "sbe_market" \in Queues /\ "sbe_signal" \in Queues
          /\ "sbe_market" \in SbeQueues <=> "sbe_signal" \in SbeQueues
          /\ KindIn("sbe_market") = "tick" /\ KindIn("sbe_signal") = "signal"
      BY DEF Queues, SbeQueues, KindIn
    <3> QED
      BY <1>1, <1>4, <3>1, <3>2, OnTickKeeps
  <2>3. /\ Size("market")' = Size("market") /\ Size("signal")' = Size("signal")
        /\ Size("pending")' = Size("pending") /\ Size("confirm")' = Size("confirm")
        /\ Size("sbe_market")' = Size("sbe_market") - 1 /\ Size("sbe_signal")' \in {Size("sbe_signal"), Size("sbe_signal") + 1}
        /\ Size("sbe_pending")' = Size("sbe_pending") /\ Size("sbe_confirm")' = Size("sbe_confirm")
    BY <2>2 DEF Flow, Queues
  <2>4. PlaceOK'
    BY <1>1, <1>3, <2>1, PollsOfDrainSignals DEF PlaceOK
  <2>5. RoundsInv'
    <3>1. /\ MarketTotal' <= Rounds /\ SbeTotal' <= SbeRounds
          /\ Size("market")' = 0 /\ Size("pending")' = 0 /\ Size("confirm")' = 0
          /\ Size("sbe_market")' + round' <= SbeRounds
      BY <1>0, <1>2, <1>3, <2>1, <2>3 DEF MarketTotal, SbeTotal
    <3> QED
      BY <1>1, <2>1, <3>1 DEF RoundsInv
  <2> QED
    BY <2>2, <2>4, <2>5 DEF PipelineInv
<1>5. CASE ~ (round < SbeRounds /\ queue["sbe_market"] # <<>>)
  <2>0. phase' = "sbe_signals" /\ round' = 0 /\ UNCHANGED <<pool, queue, stats>>
    BY <1>1, <1>5 DEF RouteSbe, RouteTicks
  <2>1. phase' = "sbe_signals" /\ round' = 0 /\ Size("sbe_market") = 0
    <3>1. Size("sbe_market") + round <= SbeRounds /\ (queue["sbe_market"] = <<>> => Size("sbe_market") = 0)
      BY <1>1, EmptyQueue DEF RoundsInv, Queues
    <3> QED
      BY <1>2, <1>3, <1>5, <2>0, <3>1
  <2>2. MessageInv' /\ \A p \in Queues : Size(p)' = Size(p)
    BY <1>1, <2>0, LoopEnds
  <2>3. /\ Size("market")' = Size("market") /\ Size("signal")' = Size("signal")
        /\ Size("pending")' = Size("pending") /\ Size("confirm")' = Size("confirm")
        /\ Size("sbe_market")' = Size("sbe_market") /\ Size("sbe_signal")' = Size("sbe_signal")
        /\ Size("sbe_pending")' = Size("sbe_pending") /\ Size("sbe_confirm")' = Size("sbe_confirm")
    BY <2>2 DEF Queues
  <2>4. PlaceOK'
    BY <1>1, <1>3, <2>1, PollsOfDrainSignals DEF PlaceOK
  <2>5. RoundsInv'
    <3>1. /\ MarketTotal' <= Rounds /\ SbeTotal' <= SbeRounds
          /\ Size("market")' = 0 /\ Size("pending")' = 0 /\ Size("confirm")' = 0
          /\ Size("sbe_market")' = 0 /\ Size("sbe_signal")' + round' <= SbeRounds
      BY <1>0, <1>2, <1>3, <2>1, <2>3 DEF MarketTotal, SbeTotal
    <3> QED
      BY <1>1, <2>1, <3>1 DEF RoundsInv
  <2> QED
    BY <2>2, <2>4, <2>5 DEF PipelineInv
<1> QED
  BY <1>4, <1>5

LEMMA DrainSignalsKeeps ==
  ASSUME PipelineInv, DrainSignals
  PROVE  PipelineInv'
<1>1. MessageInv /\ DataOK /\ PlaceOK /\ RoundsInv /\ phase = "signals"
  BY DEF PipelineInv, MessageInv, DrainSignals, DrainFor
<1>2. /\ Size("market") \in Nat /\ Size("signal") \in Nat
      /\ Size("pending") \in Nat /\ Size("confirm") \in Nat
      /\ Size("sbe_market") \in Nat /\ Size("sbe_signal") \in Nat
      /\ Size("sbe_pending") \in Nat /\ Size("sbe_confirm") \in Nat
  BY <1>1, SizesAreNat
<1>3. Rounds \in Nat /\ SbeRounds \in Nat /\ SbeRounds <= Rounds /\ round \in Nat
  BY <1>1, PollsOfDrainSignals DEF RoundsAssumption, PlaceOK
<1>0. /\ MarketTotal <= Rounds /\ SbeTotal <= SbeRounds
      /\ SbeTotal = 0 /\ Size("market") = 0
  BY <1>1 DEF RoundsInv
<1>4. CASE round < Rounds * Len(Turns)
  <2> DEFINE feed == Turns[(round % Len(Turns)) + 1]
  <2>1. round < Rounds * Len(Turns) /\ round' = round + 1 /\ phase' = phase
    BY <1>1, <1>4 DEF DrainSignals, DrainFor
  <2>2. feed \in Feeds /\ feed # "sbe"
    <3>1. (round % Len(Turns)) + 1 \in 1 .. 3
      BY <1>3, PollsOfDrainSignals
    <3> QED
      BY <3>1 DEF Turns, Feeds
  <2>3. PollConsumer(feed, "signal", "pending")
    BY <1>1, <1>4 DEF DrainSignals, DrainFor
  <2> HIDE DEF feed
  <2>4. /\ MessageInv'
        /\ \/ Flow("signal", "pending")
           \/ \A p \in Queues : Size(p)' = Size(p)
    <3>1. /\ "signal" \in Queues /\ "pending" \in Queues
          /\ "signal" \notin SbeQueues /\ "pending" \notin SbeQueues
          /\ KindIn("signal") = "signal" /\ KindIn("pending") = "order"
      BY DEF Queues, SbeQueues, KindIn
    <3> QED
      BY <1>1, <2>2, <2>3, <3>1, ConsumerKeeps
  <2>5. /\ MarketTotal' <= MarketTotal /\ MarketTotal \in Nat /\ MarketTotal' \in Int
        /\ SbeTotal' = SbeTotal /\ Size("market")' = Size("market")
    <3>1. CASE Flow("signal", "pending")
      <4>1. /\ Size("market")' = Size("market") /\ Size("signal")' = Size("signal") - 1
            /\ Size("pending")' \in {Size("pending"), Size("pending") + 1} /\ Size("confirm")' = Size("confirm")
            /\ Size("sbe_market")' = Size("sbe_market") /\ Size("sbe_signal")' = Size("sbe_signal")
            /\ Size("sbe_pending")' = Size("sbe_pending") /\ Size("sbe_confirm")' = Size("sbe_confirm")
        BY <3>1 DEF Flow, Queues
      <4> QED
        BY <1>2, <4>1 DEF MarketTotal, SbeTotal
    <3>2. CASE \A p \in Queues : Size(p)' = Size(p)
      BY <1>2, <3>2 DEF Queues, MarketTotal, SbeTotal
    <3> QED
      BY <2>4, <3>1, <3>2
  <2>6. PlaceOK'
    BY <1>1, <1>3, <2>1, PollsOfDrainSignals DEF PlaceOK
  <2>7. RoundsInv'
    <3>1. /\ MarketTotal' <= Rounds /\ SbeTotal' <= SbeRounds
          /\ SbeTotal' = 0 /\ Size("market")' = 0
      BY <1>0, <1>3, <2>5
    <3> QED
      BY <1>1, <2>1, <3>1 DEF RoundsInv
  <2> QED
    BY <2>4, <2>6, <2>7 DEF PipelineInv
<1>5. CASE ~ (round < Rounds * Len(Turns))
  <2>0. phase' = "gateway" /\ round' = 0 /\ UNCHANGED <<pool, queue, stats>>
    BY <1>1, <1>5 DEF DrainSignals, DrainFor
  <2>1. phase' = "gateway" /\ round' = 0
    BY <2>0
  <2>2. MessageInv' /\ \A p \in Queues : Size(p)' = Size(p)
    BY <1>1, <2>0, LoopEnds
  <2>3. /\ Size("market")' = Size("market") /\ Size("signal")' = Size("signal")
        /\ Size("pending")' = Size("pending") /\ Size("confirm")' = Size("confirm")
        /\ Size("sbe_market")' = Size("sbe_market") /\ Size("sbe_signal")' = Size("sbe_signal")
        /\ Size("sbe_pending")' = Size("sbe_pending") /\ Size("sbe_confirm")' = Size("sbe_confirm")
    BY <2>2 DEF Queues
  <2>4. PlaceOK'
    BY <1>1, <1>3, <2>1, PollsOfDrainSignals DEF PlaceOK
  <2>5. RoundsInv'
    <3>1. /\ MarketTotal' <= Rounds /\ SbeTotal' <= SbeRounds
          /\ SbeTotal' = 0 /\ Size("market")' = 0 /\ Size("pending")' + round' <= Rounds
      BY <1>0, <1>2, <1>3, <2>1, <2>3 DEF MarketTotal, SbeTotal
    <3> QED
      BY <1>1, <2>1, <3>1 DEF RoundsInv
  <2> QED
    BY <2>2, <2>4, <2>5 DEF PipelineInv
<1> QED
  BY <1>4, <1>5

LEMMA PollSbeConsumerKeeps ==
  ASSUME PipelineInv, PollSbeConsumer
  PROVE  PipelineInv'
<1>1. MessageInv /\ DataOK /\ PlaceOK /\ RoundsInv /\ phase = "sbe_signals"
  BY DEF PipelineInv, MessageInv, PollSbeConsumer
<1>2. /\ Size("market") \in Nat /\ Size("signal") \in Nat
      /\ Size("pending") \in Nat /\ Size("confirm") \in Nat
      /\ Size("sbe_market") \in Nat /\ Size("sbe_signal") \in Nat
      /\ Size("sbe_pending") \in Nat /\ Size("sbe_confirm") \in Nat
  BY <1>1, SizesAreNat
<1>3. Rounds \in Nat /\ SbeRounds \in Nat /\ SbeRounds <= Rounds /\ round \in Nat
  BY <1>1, PollsOfDrainSignals DEF RoundsAssumption, PlaceOK
<1>0. /\ MarketTotal <= Rounds /\ SbeTotal <= SbeRounds
      /\ Size("market") = 0 /\ Size("pending") = 0 /\ Size("confirm") = 0
      /\ Size("sbe_market") = 0 /\ Size("sbe_signal") + round <= SbeRounds
  BY <1>1 DEF RoundsInv
<1>4. CASE round < SbeRounds
  <2>1. round < SbeRounds /\ round' = round + 1 /\ phase' = phase
    BY <1>1, <1>4 DEF PollSbeConsumer
  <2>2. /\ MessageInv'
        /\ \/ Flow("sbe_signal", "sbe_pending")
           \/ Size("sbe_signal") = 0 /\ \A p \in Queues : Size(p)' = Size(p)
    <3>1. PollConsumer("sbe", "sbe_signal", "sbe_pending")
      BY <1>1, <1>4 DEF PollSbeConsumer
    <3>2. /\ "sbe_signal" \in Queues /\ "sbe_pending" \in Queues /\ "sbe" \in Feeds
          /\ "sbe_signal" \in SbeQueues /\ "sbe_pending" \in SbeQueues
          /\ KindIn("sbe_signal") = "signal" /\ KindIn("sbe_pending") = "order"
      BY DEF Queues, SbeQueues, KindIn, Feeds
    <3>3. queue["sbe_signal"] = <<>> => Size("sbe_signal") = 0
      BY <1>1, <3>2, EmptyQueue
    <3> QED
      BY <1>1, <3>1, <3>2, <3>3, ConsumerKeeps
  <2>4. PlaceOK'
    BY <1>1, <1>3, <2>1, PollsOfDrainSignals DEF PlaceOK
  <2>5. CASE Flow("sbe_signal", "sbe_pending")
    <3>1. /\ Size("market")' = Size("market") /\ Size("signal")' = Size("signal")
          /\ Size("pending")' = Size("pending") /\ Size("confirm")' = Size("confirm")
          /\ Size("sbe_market")' = Size("sbe_market") /\ Size("sbe_signal")' = Size("sbe_signal") - 1
          /\ Size("sbe_pending")' \in {Size("sbe_pending"), Size("sbe_pending") + 1} /\ Size("sbe_confirm")' = Size("sbe_confirm")
      BY <2>5 DEF Flow, Queues
    <3>2. RoundsInv'
      <4>1. /\ MarketTotal' <= Rounds /\ SbeTotal' <= SbeRounds
            /\ Size("market")' = 0 /\ Size("pending")' = 0 /\ Size("confirm")' = 0
            /\ Size("sbe_market")' = 0 /\ Size("sbe_signal")' + round' <= SbeRounds
        BY <1>0, <1>2, <1>3, <2>1, <3>1 DEF MarketTotal, SbeTotal
      <4> QED
        BY <1>1, <2>1, <4>1 DEF RoundsInv
    <3> QED
      BY <2>2, <2>4, <3>2 DEF PipelineInv
  <2>6. CASE Size("sbe_signal") = 0 /\ \A p \in Queues : Size(p)' = Size(p)
    <3>1. /\ Size("market")' = Size("market") /\ Size("signal")' = Size("signal")
          /\ Size("pending")' = Size("pending") /\ Size("confirm")' = Size("confirm")
          /\ Size("sbe_market")' = Size("sbe_market") /\ Size("sbe_signal")' = Size("sbe_signal")
          /\ Size("sbe_pending")' = Size("sbe_pending") /\ Size("sbe_confirm")' = Size("sbe_confirm")
      BY <2>6 DEF Queues
    <3>2. RoundsInv'
      <4>1. /\ MarketTotal' <= Rounds /\ SbeTotal' <= SbeRounds
            /\ Size("market")' = 0 /\ Size("pending")' = 0 /\ Size("confirm")' = 0
            /\ Size("sbe_market")' = 0 /\ Size("sbe_signal")' + round' <= SbeRounds
        BY <1>0, <1>2, <1>3, <2>1, <2>6, <3>1 DEF MarketTotal, SbeTotal
      <4> QED
        BY <1>1, <2>1, <4>1 DEF RoundsInv
    <3> QED
      BY <2>2, <2>4, <3>2 DEF PipelineInv
  <2> QED
    BY <2>2, <2>5, <2>6
<1>5. CASE ~ (round < SbeRounds)
  <2>0. phase' = "sbe_gateway" /\ round' = 0 /\ UNCHANGED <<pool, queue, stats>>
    BY <1>1, <1>5 DEF PollSbeConsumer
  <2>1. phase' = "sbe_gateway" /\ round' = 0 /\ Size("sbe_signal") = 0
    <3>1. Size("sbe_signal") + round <= SbeRounds /\ (queue["sbe_signal"] = <<>> => Size("sbe_signal") = 0)
      BY <1>1, EmptyQueue DEF RoundsInv, Queues
    <3> QED
      BY <1>2, <1>3, <1>5, <2>0, <3>1
  <2>2. MessageInv' /\ \A p \in Queues : Size(p)' = Size(p)
    BY <1>1, <2>0, LoopEnds
  <2>3. /\ Size("market")' = Size("market") /\ Size("signal")' = Size("signal")
        /\ Size("pending")' = Size("pending") /\ Size("confirm")' = Size("confirm")
        /\ Size("sbe_market")' = Size("sbe_market") /\ Size("sbe_signal")' = Size("sbe_signal")
        /\ Size("sbe_pending")' = Size("sbe_pending") /\ Size("sbe_confirm")' = Size("sbe_confirm")
    BY <2>2 DEF Queues
  <2>4. PlaceOK'
    BY <1>1, <1>3, <2>1, PollsOfDrainSignals DEF PlaceOK
  <2>5. RoundsInv'
    <3>1. /\ MarketTotal' <= Rounds /\ SbeTotal' <= SbeRounds
          /\ Size("market")' = 0 /\ Size("pending")' = 0 /\ Size("confirm")' = 0
          /\ Size("sbe_market")' = 0 /\ Size("sbe_signal")' = 0 /\ Size("sbe_pending")' + round' <= SbeRounds
      BY <1>0, <1>2, <1>3, <2>1, <2>3 DEF MarketTotal, SbeTotal
    <3> QED
      BY <1>1, <2>1, <3>1 DEF RoundsInv
  <2> QED
    BY <2>2, <2>4, <2>5 DEF PipelineInv
<1> QED
  BY <1>4, <1>5

LEMMA DrainOrdersKeeps ==
  ASSUME PipelineInv, DrainOrders
  PROVE  PipelineInv'
<1>1. MessageInv /\ DataOK /\ PlaceOK /\ RoundsInv /\ phase = "gateway"
  BY DEF PipelineInv, MessageInv, DrainOrders, DrainGateway
<1>2. /\ Size("market") \in Nat /\ Size("signal") \in Nat
      /\ Size("pending") \in Nat /\ Size("confirm") \in Nat
      /\ Size("sbe_market") \in Nat /\ Size("sbe_signal") \in Nat
      /\ Size("sbe_pending") \in Nat /\ Size("sbe_confirm") \in Nat
  BY <1>1, SizesAreNat
<1>3. Rounds \in Nat /\ SbeRounds \in Nat /\ SbeRounds <= Rounds /\ round \in Nat
  BY <1>1, PollsOfDrainSignals DEF RoundsAssumption, PlaceOK
<1>0. /\ MarketTotal <= Rounds /\ SbeTotal <= SbeRounds
      /\ SbeTotal = 0 /\ Size("market") = 0 /\ Size("pending") + round <= Rounds
  BY <1>1 DEF RoundsInv
<1>4. CASE round < Rounds
  <2>1. round < Rounds /\ round' = round + 1 /\ phase' = phase
    BY <1>1, <1>4 DEF DrainOrders, DrainGateway
  <2>2. /\ MessageInv'
        /\ \/ Flow("pending", "confirm")
           \/ Size("pending") = 0 /\ \A p \in Queues : Size(p)' = Size(p)
    <3>1. PollGateway("pending", "confirm")
      BY <1>1, <1>4 DEF DrainOrders, DrainGateway
    <3>2. /\ "pending" \in Queues /\ "confirm" \in Queues
          /\ "pending" \in SbeQueues <=> "confirm" \in SbeQueues
          /\ KindIn("pending") = "order" /\ KindIn("confirm") = "confirm"
      BY DEF Queues, SbeQueues, KindIn
    <3>3. queue["pending"] = <<>> => Size("pending") = 0
      BY <1>1, <3>2, EmptyQueue
    <3> QED
      BY <1>1, <3>1, <3>2, <3>3, GatewayKeeps
  <2>4. PlaceOK'
    BY <1>1, <1>3, <2>1, PollsOfDrainSignals DEF PlaceOK
  <2>5. CASE Flow("pending", "confirm")
    <3>1. /\ Size("market")' = Size("market") /\ Size("signal")' = Size("signal")
          /\ Size("pending")' = Size("pending") - 1 /\ Size("confirm")' \in {Size("confirm"), Size("confirm") + 1}
          /\ Size("sbe_market")' = Size("sbe_market") /\ Size("sbe_signal")' = Size("sbe_signal")
          /\ Size("sbe_pending")' = Size("sbe_pending") /\ Size("sbe_confirm")' = Size("sbe_confirm")
      BY <2>5 DEF Flow, Queues
    <3>2. RoundsInv'
      <4>1. /\ MarketTotal' <= Rounds /\ SbeTotal' <= SbeRounds
            /\ SbeTotal' = 0 /\ Size("market")' = 0 /\ Size("pending")' + round' <= Rounds
        BY <1>0, <1>2, <1>3, <2>1, <3>1 DEF MarketTotal, SbeTotal
      <4> QED
        BY <1>1, <2>1, <4>1 DEF RoundsInv
    <3> QED
      BY <2>2, <2>4, <3>2 DEF PipelineInv
  <2>6. CASE Size("pending") = 0 /\ \A p \in Queues : Size(p)' = Size(p)
    <3>1. /\ Size("market")' = Size("market") /\ Size("signal")' = Size("signal")
          /\ Size("pending")' = Size("pending") /\ Size("confirm")' = Size("confirm")
          /\ Size("sbe_market")' = Size("sbe_market") /\ Size("sbe_signal")' = Size("sbe_signal")
          /\ Size("sbe_pending")' = Size("sbe_pending") /\ Size("sbe_confirm")' = Size("sbe_confirm")
      BY <2>6 DEF Queues
    <3>2. RoundsInv'
      <4>1. /\ MarketTotal' <= Rounds /\ SbeTotal' <= SbeRounds
            /\ SbeTotal' = 0 /\ Size("market")' = 0 /\ Size("pending")' + round' <= Rounds
        BY <1>0, <1>2, <1>3, <2>1, <2>6, <3>1 DEF MarketTotal, SbeTotal
      <4> QED
        BY <1>1, <2>1, <4>1 DEF RoundsInv
    <3> QED
      BY <2>2, <2>4, <3>2 DEF PipelineInv
  <2> QED
    BY <2>2, <2>5, <2>6
<1>5. CASE ~ (round < Rounds)
  <2>0. phase' = "confirms" /\ round' = 0 /\ UNCHANGED <<pool, queue, stats>>
    BY <1>1, <1>5 DEF DrainOrders, DrainGateway
  <2>1. phase' = "confirms" /\ round' = 0 /\ Size("pending") = 0
    <3>1. Size("pending") + round <= Rounds /\ (queue["pending"] = <<>> => Size("pending") = 0)
      BY <1>1, EmptyQueue DEF RoundsInv, Queues
    <3> QED
      BY <1>2, <1>3, <1>5, <2>0, <3>1
  <2>2. MessageInv' /\ \A p \in Queues : Size(p)' = Size(p)
    BY <1>1, <2>0, LoopEnds
  <2>3. /\ Size("market")' = Size("market") /\ Size("signal")' = Size("signal")
        /\ Size("pending")' = Size("pending") /\ Size("confirm")' = Size("confirm")
        /\ Size("sbe_market")' = Size("sbe_market") /\ Size("sbe_signal")' = Size("sbe_signal")
        /\ Size("sbe_pending")' = Size("sbe_pending") /\ Size("sbe_confirm")' = Size("sbe_confirm")
    BY <2>2 DEF Queues
  <2>4. PlaceOK'
    BY <1>1, <1>3, <2>1, PollsOfDrainSignals DEF PlaceOK
  <2>5. RoundsInv'
    <3>1. /\ MarketTotal' <= Rounds /\ SbeTotal' <= SbeRounds
          /\ SbeTotal' = 0 /\ Size("market")' = 0 /\ Size("pending")' = 0 /\ Size("confirm")' + round' <= Rounds
      BY <1>0, <1>2, <1>3, <2>1, <2>3 DEF MarketTotal, SbeTotal
    <3> QED
      BY <1>1, <2>1, <3>1 DEF RoundsInv
  <2> QED
    BY <2>2, <2>4, <2>5 DEF PipelineInv
<1> QED
  BY <1>4, <1>5

LEMMA DrainSbeKeeps ==
  ASSUME PipelineInv, DrainSbe
  PROVE  PipelineInv'
<1>1. MessageInv /\ DataOK /\ PlaceOK /\ RoundsInv /\ phase = "sbe_gateway"
  BY DEF PipelineInv, MessageInv, DrainSbe, DrainGateway
<1>2. /\ Size("market") \in Nat /\ Size("signal") \in Nat
      /\ Size("pending") \in Nat /\ Size("confirm") \in Nat
      /\ Size("sbe_market") \in Nat /\ Size("sbe_signal") \in Nat
      /\ Size("sbe_pending") \in Nat /\ Size("sbe_confirm") \in Nat
  BY <1>1, SizesAreNat
<1>3. Rounds \in Nat /\ SbeRounds \in Nat /\ SbeRounds <= Rounds /\ round \in Nat
  BY <1>1, PollsOfDrainSignals DEF RoundsAssumption, PlaceOK
<1>0. /\ MarketTotal <= Rounds /\ SbeTotal <= SbeRounds
      /\ Size("market") = 0 /\ Size("pending") = 0 /\ Size("confirm") = 0
      /\ Size("sbe_market") = 0 /\ Size("sbe_signal") = 0 /\ Size("sbe_pending") + round <= SbeRounds
  BY <1>1 DEF RoundsInv
<1>4. CASE round < SbeRounds
  <2>1. round < SbeRounds /\ round' = round + 1 /\ phase' = phase
    BY <1>1, <1>4 DEF DrainSbe, DrainGateway
  <2>2. /\ MessageInv'
        /\ \/ Flow("sbe_pending", "sbe_confirm")
           \/ Size("sbe_pending") = 0 /\ \A p \in Queues : Size(p)' = Size(p)
    <3>1. PollGateway("sbe_pending", "sbe_confirm")
      BY <1>1, <1>4 DEF DrainSbe, DrainGateway
    <3>2. /\ "sbe_pending" \in Queues /\ "sbe_confirm" \in Queues
          /\ "sbe_pending" \in SbeQueues <=> "sbe_confirm" \in SbeQueues
          /\ KindIn("sbe_pending") = "order" /\ KindIn("sbe_confirm") = "confirm"
      BY DEF Queues, SbeQueues, KindIn
    <3>3. queue["sbe_pending"] = <<>> => Size("sbe_pending") = 0
      BY <1>1, <3>2, EmptyQueue
    <3> QED
      BY <1>1, <3>1, <3>2, <3>3, GatewayKeeps
  <2>4. PlaceOK'
    BY <1>1, <1>3, <2>1, PollsOfDrainSignals DEF PlaceOK
  <2>5. CASE Flow("sbe_pending", "sbe_confirm")
    <3>1. /\ Size("market")' = Size("market") /\ Size("signal")' = Size("signal")
          /\ Size("pending")' = Size("pending") /\ Size("confirm")' = Size("confirm")
          /\ Size("sbe_market")' = Size("sbe_market") /\ Size("sbe_signal")' = Size("sbe_signal")
          /\ Size("sbe_pending")' = Size("sbe_pending") - 1 /\ Size("sbe_confirm")' \in {Size("sbe_confirm"), Size("sbe_confirm") + 1}
      BY <2>5 DEF Flow, Queues
    <3>2. RoundsInv'
      <4>1. /\ MarketTotal' <= Rounds /\ SbeTotal' <= SbeRounds
            /\ Size("market")' = 0 /\ Size("pending")' = 0 /\ Size("confirm")' = 0
            /\ Size("sbe_market")' = 0 /\ Size("sbe_signal")' = 0 /\ Size("sbe_pending")' + round' <= SbeRounds
        BY <1>0, <1>2, <1>3, <2>1, <3>1 DEF MarketTotal, SbeTotal
      <4> QED
        BY <1>1, <2>1, <4>1 DEF RoundsInv
    <3> QED
      BY <2>2, <2>4, <3>2 DEF PipelineInv
  <2>6. CASE Size("sbe_pending") = 0 /\ \A p \in Queues : Size(p)' = Size(p)
    <3>1. /\ Size("market")' = Size("market") /\ Size("signal")' = Size("signal")
          /\ Size("pending")' = Size("pending") /\ Size("confirm")' = Size("confirm")
          /\ Size("sbe_market")' = Size("sbe_market") /\ Size("sbe_signal")' = Size("sbe_signal")
          /\ Size("sbe_pending")' = Size("sbe_pending") /\ Size("sbe_confirm")' = Size("sbe_confirm")
      BY <2>6 DEF Queues
    <3>2. RoundsInv'
      <4>1. /\ MarketTotal' <= Rounds /\ SbeTotal' <= SbeRounds
            /\ Size("market")' = 0 /\ Size("pending")' = 0 /\ Size("confirm")' = 0
            /\ Size("sbe_market")' = 0 /\ Size("sbe_signal")' = 0 /\ Size("sbe_pending")' + round' <= SbeRounds
        BY <1>0, <1>2, <1>3, <2>1, <2>6, <3>1 DEF MarketTotal, SbeTotal
      <4> QED
        BY <1>1, <2>1, <4>1 DEF RoundsInv
    <3> QED
      BY <2>2, <2>4, <3>2 DEF PipelineInv
  <2> QED
    BY <2>2, <2>5, <2>6
<1>5. CASE ~ (round < SbeRounds)
  <2>0. phase' = "sbe_confirms" /\ round' = 0 /\ UNCHANGED <<pool, queue, stats>>
    BY <1>1, <1>5 DEF DrainSbe, DrainGateway
  <2>1. phase' = "sbe_confirms" /\ round' = 0 /\ Size("sbe_pending") = 0
    <3>1. Size("sbe_pending") + round <= SbeRounds /\ (queue["sbe_pending"] = <<>> => Size("sbe_pending") = 0)
      BY <1>1, EmptyQueue DEF RoundsInv, Queues
    <3> QED
      BY <1>2, <1>3, <1>5, <2>0, <3>1
  <2>2. MessageInv' /\ \A p \in Queues : Size(p)' = Size(p)
    BY <1>1, <2>0, LoopEnds
  <2>3. /\ Size("market")' = Size("market") /\ Size("signal")' = Size("signal")
        /\ Size("pending")' = Size("pending") /\ Size("confirm")' = Size("confirm")
        /\ Size("sbe_market")' = Size("sbe_market") /\ Size("sbe_signal")' = Size("sbe_signal")
        /\ Size("sbe_pending")' = Size("sbe_pending") /\ Size("sbe_confirm")' = Size("sbe_confirm")
    BY <2>2 DEF Queues
  <2>4. PlaceOK'
    BY <1>1, <1>3, <2>1, PollsOfDrainSignals DEF PlaceOK
  <2>5. RoundsInv'
    <3>1. /\ MarketTotal' <= Rounds /\ SbeTotal' <= SbeRounds
          /\ Size("market")' = 0 /\ Size("pending")' = 0 /\ Size("confirm")' = 0
          /\ Size("sbe_market")' = 0 /\ Size("sbe_signal")' = 0 /\ Size("sbe_pending")' = 0
          /\ Size("sbe_confirm")' + round' <= SbeRounds
      BY <1>0, <1>2, <1>3, <2>1, <2>3 DEF MarketTotal, SbeTotal
    <3> QED
      BY <1>1, <2>1, <3>1 DEF RoundsInv
  <2> QED
    BY <2>2, <2>4, <2>5 DEF PipelineInv
<1> QED
  BY <1>4, <1>5

LEMMA CountMarketKeeps ==
  ASSUME PipelineInv, CountMarket
  PROVE  PipelineInv'
<1>1. MessageInv /\ DataOK /\ PlaceOK /\ RoundsInv /\ phase = "confirms"
  BY DEF PipelineInv, MessageInv, CountMarket, CountConfirms, CountAndThen
<1>2. /\ Size("market") \in Nat /\ Size("signal") \in Nat
      /\ Size("pending") \in Nat /\ Size("confirm") \in Nat
      /\ Size("sbe_market") \in Nat /\ Size("sbe_signal") \in Nat
      /\ Size("sbe_pending") \in Nat /\ Size("sbe_confirm") \in Nat
  BY <1>1, SizesAreNat
<1>3. Rounds \in Nat /\ SbeRounds \in Nat /\ SbeRounds <= Rounds /\ round \in Nat
  BY <1>1, PollsOfDrainSignals DEF RoundsAssumption, PlaceOK
<1>0. /\ MarketTotal <= Rounds /\ SbeTotal <= SbeRounds
      /\ SbeTotal = 0 /\ Size("market") = 0 /\ Size("pending") = 0 /\ Size("confirm") + round <= Rounds
  BY <1>1 DEF RoundsInv
<1>4. CASE round < Rounds /\ queue["confirm"] # <<>>
  <2>1. round < Rounds /\ round' = round + 1 /\ phase' = phase
    BY <1>1, <1>4 DEF CountMarket, CountConfirms, CountAndThen
  <2>2. MessageInv' /\ Size("confirm")' = Size("confirm") - 1 /\ \A p \in Queues \ {"confirm"} : Size(p)' = Size(p)
    <3>1. /\ Drop("confirm") /\ confirmed' = Bump(confirmed, body[Head(queue["confirm"])].feed)
          /\ acknowledged' = acknowledged \cup {body[Head(queue["confirm"])]}
          /\ UNCHANGED <<producers, submitted_, next_ref>>
      BY <1>1, <1>4 DEF CountMarket, CountConfirms, CountAndThen
    <3>2. "confirm" \in Queues /\ KindIn("confirm") = "confirm"
      BY DEF Queues, KindIn
    <3> QED
      BY <1>1, <1>4, <3>1, <3>2, CountKeeps
  <2>3. /\ Size("market")' = Size("market") /\ Size("signal")' = Size("signal")
        /\ Size("pending")' = Size("pending") /\ Size("confirm")' = Size("confirm") - 1
        /\ Size("sbe_market")' = Size("sbe_market") /\ Size("sbe_signal")' = Size("sbe_signal")
        /\ Size("sbe_pending")' = Size("sbe_pending") /\ Size("sbe_confirm")' = Size("sbe_confirm")
    BY <2>2 DEF Queues
  <2>4. PlaceOK'
    BY <1>1, <1>3, <2>1, PollsOfDrainSignals DEF PlaceOK
  <2>5. RoundsInv'
    <3>1. /\ MarketTotal' <= Rounds /\ SbeTotal' <= SbeRounds
          /\ SbeTotal' = 0 /\ Size("market")' = 0 /\ Size("pending")' = 0 /\ Size("confirm")' + round' <= Rounds
      BY <1>0, <1>2, <1>3, <2>1, <2>3 DEF MarketTotal, SbeTotal
    <3> QED
      BY <1>1, <2>1, <3>1 DEF RoundsInv
  <2> QED
    BY <2>2, <2>4, <2>5 DEF PipelineInv
<1>5. CASE ~ (round < Rounds /\ queue["confirm"] # <<>>)
  <2>0. phase' = "sbe_make" /\ round' = 0 /\ UNCHANGED <<pool, queue, stats>>
    BY <1>1, <1>5 DEF CountMarket, CountConfirms, CountAndThen
  <2>1. phase' = "sbe_make" /\ round' = 0 /\ Size("confirm") = 0
    <3>1. Size("confirm") + round <= Rounds /\ (queue["confirm"] = <<>> => Size("confirm") = 0)
      BY <1>1, EmptyQueue DEF RoundsInv, Queues
    <3> QED
      BY <1>2, <1>3, <1>5, <2>0, <3>1
  <2>2. MessageInv' /\ \A p \in Queues : Size(p)' = Size(p)
    BY <1>1, <2>0, LoopEnds
  <2>3. /\ Size("market")' = Size("market") /\ Size("signal")' = Size("signal")
        /\ Size("pending")' = Size("pending") /\ Size("confirm")' = Size("confirm")
        /\ Size("sbe_market")' = Size("sbe_market") /\ Size("sbe_signal")' = Size("sbe_signal")
        /\ Size("sbe_pending")' = Size("sbe_pending") /\ Size("sbe_confirm")' = Size("sbe_confirm")
    BY <2>2 DEF Queues
  <2>4. PlaceOK'
    BY <1>1, <1>3, <2>1, PollsOfDrainSignals DEF PlaceOK
  <2>5. RoundsInv'
    <3>1. /\ MarketTotal' <= Rounds /\ SbeTotal' <= SbeRounds
          /\ Size("market")' = 0 /\ Size("pending")' = 0 /\ Size("confirm")' = 0
          /\ SbeTotal' <= round' /\ round' <= Len(Bbos)
      BY <1>0, <1>2, <1>3, <2>1, <2>3 DEF MarketTotal, SbeTotal
    <3> QED
      BY <1>1, <2>1, <3>1 DEF RoundsInv
  <2> QED
    BY <2>2, <2>4, <2>5 DEF PipelineInv
<1> QED
  BY <1>4, <1>5

LEMMA CountSbeKeeps ==
  ASSUME PipelineInv, CountSbe
  PROVE  PipelineInv'
<1>1. MessageInv /\ DataOK /\ PlaceOK /\ RoundsInv /\ phase = "sbe_confirms"
  BY DEF PipelineInv, MessageInv, CountSbe, CountConfirms, CountAndThen
<1>2. /\ Size("market") \in Nat /\ Size("signal") \in Nat
      /\ Size("pending") \in Nat /\ Size("confirm") \in Nat
      /\ Size("sbe_market") \in Nat /\ Size("sbe_signal") \in Nat
      /\ Size("sbe_pending") \in Nat /\ Size("sbe_confirm") \in Nat
  BY <1>1, SizesAreNat
<1>3. Rounds \in Nat /\ SbeRounds \in Nat /\ SbeRounds <= Rounds /\ round \in Nat
  BY <1>1, PollsOfDrainSignals DEF RoundsAssumption, PlaceOK
<1>0. /\ MarketTotal <= Rounds /\ SbeTotal <= SbeRounds
      /\ Size("market") = 0 /\ Size("pending") = 0 /\ Size("confirm") = 0
      /\ Size("sbe_market") = 0 /\ Size("sbe_signal") = 0 /\ Size("sbe_pending") = 0
      /\ Size("sbe_confirm") + round <= SbeRounds
  BY <1>1 DEF RoundsInv
<1>4. CASE round < SbeRounds /\ queue["sbe_confirm"] # <<>>
  <2>1. round < SbeRounds /\ round' = round + 1 /\ phase' = phase
    BY <1>1, <1>4 DEF CountSbe, CountConfirms, CountAndThen
  <2>2. MessageInv' /\ Size("sbe_confirm")' = Size("sbe_confirm") - 1 /\ \A p \in Queues \ {"sbe_confirm"} : Size(p)' = Size(p)
    <3>1. /\ Drop("sbe_confirm") /\ confirmed' = Bump(confirmed, body[Head(queue["sbe_confirm"])].feed)
          /\ acknowledged' = acknowledged \cup {body[Head(queue["sbe_confirm"])]}
          /\ UNCHANGED <<producers, submitted_, next_ref>>
      BY <1>1, <1>4 DEF CountSbe, CountConfirms, CountAndThen
    <3>2. "sbe_confirm" \in Queues /\ KindIn("sbe_confirm") = "confirm"
      BY DEF Queues, KindIn
    <3> QED
      BY <1>1, <1>4, <3>1, <3>2, CountKeeps
  <2>3. /\ Size("market")' = Size("market") /\ Size("signal")' = Size("signal")
        /\ Size("pending")' = Size("pending") /\ Size("confirm")' = Size("confirm")
        /\ Size("sbe_market")' = Size("sbe_market") /\ Size("sbe_signal")' = Size("sbe_signal")
        /\ Size("sbe_pending")' = Size("sbe_pending") /\ Size("sbe_confirm")' = Size("sbe_confirm") - 1
    BY <2>2 DEF Queues
  <2>4. PlaceOK'
    BY <1>1, <1>3, <2>1, PollsOfDrainSignals DEF PlaceOK
  <2>5. RoundsInv'
    <3>1. /\ MarketTotal' <= Rounds /\ SbeTotal' <= SbeRounds
          /\ Size("market")' = 0 /\ Size("pending")' = 0 /\ Size("confirm")' = 0
          /\ Size("sbe_market")' = 0 /\ Size("sbe_signal")' = 0 /\ Size("sbe_pending")' = 0
          /\ Size("sbe_confirm")' + round' <= SbeRounds
      BY <1>0, <1>2, <1>3, <2>1, <2>3 DEF MarketTotal, SbeTotal
    <3> QED
      BY <1>1, <2>1, <3>1 DEF RoundsInv
  <2> QED
    BY <2>2, <2>4, <2>5 DEF PipelineInv
<1>5. CASE ~ (round < SbeRounds /\ queue["sbe_confirm"] # <<>>)
  <2>0. phase' = "runtime" /\ round' = 0 /\ UNCHANGED <<pool, queue, stats>>
    BY <1>1, <1>5 DEF CountSbe, CountConfirms, CountAndThen
  <2>1. phase' = "runtime" /\ round' = 0 /\ Size("sbe_confirm") = 0
    <3>1. Size("sbe_confirm") + round <= SbeRounds /\ (queue["sbe_confirm"] = <<>> => Size("sbe_confirm") = 0)
      BY <1>1, EmptyQueue DEF RoundsInv, Queues
    <3> QED
      BY <1>2, <1>3, <1>5, <2>0, <3>1
  <2>2. MessageInv' /\ \A p \in Queues : Size(p)' = Size(p)
    BY <1>1, <2>0, LoopEnds
  <2>3. /\ Size("market")' = Size("market") /\ Size("signal")' = Size("signal")
        /\ Size("pending")' = Size("pending") /\ Size("confirm")' = Size("confirm")
        /\ Size("sbe_market")' = Size("sbe_market") /\ Size("sbe_signal")' = Size("sbe_signal")
        /\ Size("sbe_pending")' = Size("sbe_pending") /\ Size("sbe_confirm")' = Size("sbe_confirm")
    BY <2>2 DEF Queues
  <2>4. PlaceOK'
    BY <1>1, <1>3, <2>1, PollsOfDrainSignals DEF PlaceOK
  <2>5. RoundsInv'
    <3>1. /\ MarketTotal' <= Rounds /\ SbeTotal' <= SbeRounds
          /\ Size("market")' = 0 /\ Size("pending")' = 0 /\ Size("confirm")' = 0
          /\ SbeTotal' = 0
      BY <1>0, <1>2, <1>3, <2>1, <2>3 DEF MarketTotal, SbeTotal
    <3> QED
      BY <1>1, <2>1, <3>1 DEF RoundsInv
  <2> QED
    BY <2>2, <2>4, <2>5 DEF PipelineInv
<1> QED
  BY <1>4, <1>5

LEMMA LeastElement ==
  ASSUME NEW S \in SUBSET Nat, S # {}
  PROVE  \E d \in S : \A e \in S : d <= e
<1> DEFINE Below == {p \in Nat \X Nat : p[1] < p[2]}
<1>1. IsWellFoundedOn(Below, Nat)
  BY NatLessThanWellFounded DEF OpToRel
<1>2. \E d \in S : \A e \in S : ~ (<<e, d>> \in Below)
  BY <1>1, WFMin
<1>3. PICK d \in S : \A e \in S : ~ (<<e, d>> \in Below)
  BY <1>2
<1>4. ASSUME NEW e \in S PROVE d <= e
  <2>1. e \in Nat /\ d \in Nat /\ <<e, d>> \notin Below
    BY <1>3
  <2> QED
    BY <2>1
<1> QED
  BY <1>4

LEMMA MakeBboKeeps ==
  ASSUME PipelineInv, MakeBbo
  PROVE  PipelineInv'
<1>1. MessageInv /\ DataOK /\ PlaceOK /\ RoundsInv /\ phase = "sbe_make"
  BY DEF PipelineInv, MessageInv, MakeBbo
<1>2. /\ Size("market") \in Nat /\ Size("signal") \in Nat
      /\ Size("pending") \in Nat /\ Size("confirm") \in Nat
      /\ Size("sbe_market") \in Nat /\ Size("sbe_signal") \in Nat
      /\ Size("sbe_pending") \in Nat /\ Size("sbe_confirm") \in Nat
  BY <1>1, SizesAreNat
<1>3. Rounds \in Nat /\ SbeRounds \in Nat /\ SbeRounds <= Rounds /\ round \in Nat
  BY <1>1, PollsOfDrainSignals DEF RoundsAssumption, PlaceOK
<1>0. /\ MarketTotal <= Rounds /\ SbeTotal <= SbeRounds
      /\ Size("market") = 0 /\ Size("pending") = 0 /\ Size("confirm") = 0
      /\ SbeTotal <= round /\ round <= Len(Bbos)
  BY <1>1 DEF RoundsInv
<1>4. Len(Bbos) \in Nat /\ Len(Bbos) <= SbeRounds
  BY BbosAssumption DEF BbosAssumption
<1>5. CASE round < Len(Bbos)
  <2>1. round < Len(Bbos) /\ round' = round + 1 /\ phase' = phase /\ UNCHANGED stats
    BY <1>1, <1>5 DEF MakeBbo
  <2>2. PlaceOK'
    BY <1>1, <1>3, <1>4, <2>1, PollsOfDrainSignals DEF PlaceOK
  <2>3. CASE PoolSlots \subseteq acquired
    <3>1. UNCHANGED <<pool, queue, stats>>
      BY <1>1, <1>5, <2>1, <2>3 DEF MakeBbo
    <3>2. MessageInv' /\ \A p \in Queues : Size(p)' = Size(p)
      BY <1>1, <3>1, LoopEnds
    <3>3. /\ Size("market")' = Size("market") /\ Size("signal")' = Size("signal")
          /\ Size("pending")' = Size("pending") /\ Size("confirm")' = Size("confirm")
          /\ Size("sbe_market")' = Size("sbe_market") /\ Size("sbe_signal")' = Size("sbe_signal")
          /\ Size("sbe_pending")' = Size("sbe_pending") /\ Size("sbe_confirm")' = Size("sbe_confirm")
      BY <3>2 DEF Queues
    <3>4. RoundsInv'
      <4>1. /\ MarketTotal' <= Rounds /\ SbeTotal' <= SbeRounds
            /\ Size("market")' = 0 /\ Size("pending")' = 0 /\ Size("confirm")' = 0
            /\ SbeTotal' <= round' /\ round' <= Len(Bbos)
        BY <1>0, <1>2, <1>3, <1>4, <2>1, <3>3 DEF MarketTotal, SbeTotal
      <4> QED
        BY <1>1, <2>1, <4>1 DEF RoundsInv
    <3> QED
      BY <2>2, <3>2, <3>4 DEF PipelineInv
  <2>4. CASE ~ (PoolSlots \subseteq acquired)
    <3> DEFINE s == CHOOSE s \in PoolSlots \ acquired : \A other \in PoolSlots \ acquired : s <= other
    <3>1. s \in PoolSlots \ acquired
      <4>1. PoolSlots \ acquired \in SUBSET Nat /\ PoolSlots \ acquired # {}
        BY <2>4 DEF PoolAssumption
      <4>2. \E d \in PoolSlots \ acquired : \A e \in PoolSlots \ acquired : d <= e
        BY <4>1, LeastElement
      <4> QED
        BY <4>2
    <3>2. /\ acquired' = acquired \cup {s}
          /\ body' = [body EXCEPT ![s] = Bbos[round + 1]]
          /\ queue' = [queue EXCEPT !["sbe_market"] = Append(@, s)]
      BY <1>1, <1>5, <2>4 DEF MakeBbo
    <3> HIDE DEF s
    <3>3. IsTick(Bbos[round + 1], {"sbe"})
      <4>1. round + 1 \in DOMAIN Bbos
        BY <1>3, <1>4, <2>1, BbosAssumption DEF BbosAssumption
      <4> QED
        BY <4>1, BbosAssumption DEF BbosAssumption
    <3>4. /\ MessageInv' /\ Size("sbe_market")' = Size("sbe_market") + 1
          /\ \A p \in Queues \ {"sbe_market"} : Size(p)' = Size(p)
      BY <1>1, <2>1, <3>1, <3>2, <3>3, MakeKeeps
    <3>5. /\ Size("market")' = Size("market") /\ Size("signal")' = Size("signal")
          /\ Size("pending")' = Size("pending") /\ Size("confirm")' = Size("confirm")
          /\ Size("sbe_market")' = Size("sbe_market") + 1 /\ Size("sbe_signal")' = Size("sbe_signal")
          /\ Size("sbe_pending")' = Size("sbe_pending") /\ Size("sbe_confirm")' = Size("sbe_confirm")
      BY <3>4 DEF Queues
    <3>6. RoundsInv'
      <4>1. /\ MarketTotal' <= Rounds /\ SbeTotal' <= SbeRounds
            /\ Size("market")' = 0 /\ Size("pending")' = 0 /\ Size("confirm")' = 0
            /\ SbeTotal' <= round' /\ round' <= Len(Bbos)
        <5>1. SbeTotal' = SbeTotal + 1 /\ MarketTotal' = MarketTotal
          BY <1>2, <3>5 DEF MarketTotal, SbeTotal
        <5>2. SbeTotal \in Nat /\ round \in Nat /\ Len(Bbos) \in Nat
          BY <1>2, <1>3, <1>4 DEF SbeTotal
        <5>3. round' <= Len(Bbos) /\ SbeTotal' <= round'
          BY <1>0, <2>1, <5>1, <5>2
        <5>4. SbeTotal' <= SbeRounds
          BY <1>3, <1>4, <2>1, <5>1, <5>2, <5>3
        <5> QED
          BY <1>0, <3>5, <5>1, <5>3, <5>4
      <4> QED
        BY <1>1, <2>1, <4>1 DEF RoundsInv
    <3> QED
      BY <2>2, <3>4, <3>6 DEF PipelineInv
  <2> QED
    BY <2>3, <2>4
<1>6. CASE ~ (round < Len(Bbos))
  <2>0. phase' = "sbe_route" /\ round' = 0 /\ UNCHANGED <<pool, queue, stats>>
    BY <1>1, <1>6 DEF MakeBbo
  <2>1. phase' = "sbe_route" /\ round' = 0
    BY <2>0
  <2>2. MessageInv' /\ \A p \in Queues : Size(p)' = Size(p)
    BY <1>1, <2>0, LoopEnds
  <2>3. /\ Size("market")' = Size("market") /\ Size("signal")' = Size("signal")
        /\ Size("pending")' = Size("pending") /\ Size("confirm")' = Size("confirm")
        /\ Size("sbe_market")' = Size("sbe_market") /\ Size("sbe_signal")' = Size("sbe_signal")
        /\ Size("sbe_pending")' = Size("sbe_pending") /\ Size("sbe_confirm")' = Size("sbe_confirm")
    BY <2>2 DEF Queues
  <2>4. PlaceOK'
    BY <1>1, <1>3, <2>1, PollsOfDrainSignals DEF PlaceOK
  <2>5. RoundsInv'
    <3>1. /\ MarketTotal' <= Rounds /\ SbeTotal' <= SbeRounds
          /\ Size("market")' = 0 /\ Size("pending")' = 0 /\ Size("confirm")' = 0
          /\ Size("sbe_market")' + round' <= SbeRounds
      BY <1>0, <1>2, <1>3, <2>1, <2>3 DEF MarketTotal, SbeTotal
    <3> QED
      BY <1>1, <2>1, <3>1 DEF RoundsInv
  <2> QED
    BY <2>2, <2>4, <2>5 DEF PipelineInv
<1> QED
  BY <1>5, <1>6

-----------------------------------------------------------------------------
(* The initial states, and the theorems.                                   *)

LEMMA InitQueues ==
  ASSUME NEW ticks \in Arrivals, acquired = 1 .. Len(ticks),
         queue = [q \in Queues |-> IF q = "market" THEN [i \in DOMAIN ticks |-> i] ELSE <<>>]
  PROVE  /\ QueuesOK /\ SlotsInv /\ IsFiniteSet(acquired)
         /\ Holds("market") = DOMAIN ticks /\ \A q \in Queues \ {"market"} : Holds(q) = {}
         /\ Size("market") = Len(ticks) /\ \A q \in Queues \ {"market"} : Size(q) = 0
<1> DEFINE first == [i \in DOMAIN ticks |-> i]
<1>1. /\ Len(ticks) \in Nat /\ DOMAIN ticks = 1 .. Len(ticks) /\ DOMAIN ticks \subseteq PoolSlots
  BY ArrivalsAssumption DEF ArrivalsAssumption
<1>2. /\ queue["market"] = first /\ \A q \in Queues \ {"market"} : queue[q] = <<>>
      /\ first \in Seq(PoolSlots) /\ Len(first) = Len(ticks)
      /\ DOMAIN first = DOMAIN ticks /\ \A i \in DOMAIN ticks : first[i] = i
  <2>1. first \in [1 .. Len(ticks) -> PoolSlots]
    BY <1>1
  <2>2. first \in Seq(PoolSlots) /\ Len(first) = Len(ticks)
    <3>1. first \in Seq(PoolSlots)
      BY <1>1, <2>1, SeqDef
    <3>2. DOMAIN first = 1 .. Len(first) /\ DOMAIN first = 1 .. Len(ticks) /\ Len(first) \in Nat
      BY <1>1, <2>1, <3>1, LenProperties
    <3> HIDE DEF first
    <3>3. Len(first) = Len(ticks)
      <4>1. Cardinality(1 .. Len(first)) = Len(first) /\ Cardinality(1 .. Len(ticks)) = Len(ticks)
        <5>1. ASSUME NEW n \in Nat PROVE Cardinality(1 .. n) = n
          <6>1. Cardinality(1 .. n) = IF 1 > n THEN 0 ELSE n - 1 + 1
            BY FS_Interval
          <6> QED
            BY <6>1
        <5> QED
          BY <1>1, <3>2, <5>1
      <4> QED
        BY <3>2, <4>1
    <3> QED
      BY <3>1, <3>3
  <2> QED
    BY <2>2 DEF Queues
<1>3. queue \in [Queues -> Seq(PoolSlots)]
  <2>1. <<>> \in Seq(PoolSlots)
    BY EmptySeq
  <2>2. \A q \in Queues : queue[q] \in Seq(PoolSlots)
    BY <1>2, <2>1
  <2> QED
    BY <2>2
<1> HIDE DEF first
<1>4. /\ Holds("market") = DOMAIN ticks /\ \A q \in Queues \ {"market"} : Holds(q) = {}
  <2>1. Range(queue["market"]) = DOMAIN ticks
    <3>1. \A x : x \in Range(first) <=> \E i \in DOMAIN first : x = first[i]
      BY DEF Range
    <3>2. \A x : x \in Range(first) <=> x \in DOMAIN ticks
      BY <1>2, <3>1
    <3> QED
      BY <1>2, <3>2
  <2>2. Range(<<>>) = {}
    BY DEF Range
  <2> QED
    BY <1>2, <2>1, <2>2 DEF Holds
<1>5. \A q \in Queues : IsInjective(queue[q])
  BY <1>2 DEF IsInjective
<1>6. acquired = UNION {Holds(q) : q \in Queues}
  BY <1>1, <1>4 DEF Queues
<1>7. SlotsInv
  BY <1>4, <1>5, <1>6 DEF SlotsInv
<1>8. IsFiniteSet(acquired)
  BY <1>1, FS_Interval
<1> QED
  BY <1>2, <1>3, <1>4, <1>7, <1>8 DEF QueuesOK, Size

LEMMA PipelineInit ==
  ASSUME Init PROVE PipelineInv
<1>1. PICK ticks \in Arrivals :
        /\ acquired = 1 .. Len(ticks)
        /\ body = [s \in PoolSlots |-> IF s \in DOMAIN ticks THEN ticks[s] ELSE Blank]
        /\ queue = [q \in Queues |-> IF q = "market" THEN [i \in DOMAIN ticks |-> i] ELSE <<>>]
  BY DEF Init
<1>2. /\ phase = "route" /\ round = 0
      /\ ref_price_ = [f \in Feeds |-> 0] /\ next_token_ = [f \in Feeds |-> 1]
      /\ signals_ = [f \in Feeds |-> 0] /\ submitted_ = [f \in Feeds |-> 0]
      /\ next_ref = [f \in Feeds |-> 1] /\ confirmed = [f \in Feeds |-> 0]
      /\ emitted = {} /\ acknowledged = {}
  BY DEF Init
<1>3. /\ Len(ticks) \in Nat /\ Len(ticks) <= Rounds /\ DOMAIN ticks = 1 .. Len(ticks)
      /\ DOMAIN ticks \subseteq PoolSlots
      /\ \A i \in DOMAIN ticks : IsTick(ticks[i], MarketFeeds)
  BY ArrivalsAssumption DEF ArrivalsAssumption
<1>4. /\ QueuesOK /\ SlotsInv /\ IsFiniteSet(acquired)
      /\ Holds("market") = DOMAIN ticks /\ \A q \in Queues \ {"market"} : Holds(q) = {}
      /\ Size("market") = Len(ticks) /\ \A q \in Queues \ {"market"} : Size(q) = 0
  BY <1>1, InitQueues
<1>5. Blank \in Message
  BY DEF Blank, Message, Feeds
<1>6. \A s \in acquired : /\ IsTick(body[s], MarketFeeds) /\ body[s].kind = "tick" /\ body[s] \in Message
                          /\ body[s].feed # "sbe" /\ s \in PoolSlots
  BY <1>1, <1>3 DEF IsTick, MarketFeeds
<1>7. body \in [PoolSlots -> Message]
  <2>1. \A i \in DOMAIN ticks : ticks[i] \in Message
    BY <1>3 DEF IsTick
  <2> QED
    BY <1>1, <1>5, <2>1
<1>8. DataOK
  <2>1. /\ ref_price_ \in [Feeds -> Int] /\ next_token_ \in [Feeds -> Nat] /\ signals_ \in [Feeds -> Nat]
        /\ submitted_ \in [Feeds -> Nat] /\ next_ref \in [Feeds -> Nat] /\ confirmed \in [Feeds -> Nat]
    BY <1>2
  <2>2. \A f \in Feeds : InRange(ref_price_[f], kDefaultBandBps)
    <3>1. \A f \in Feeds : ref_price_[f] = 0
      BY <1>2
    <3>2. InRange(0, kDefaultBandBps)
      BY MaxIntNat, SMT DEF InRange, Band, Quotient, kDefaultBandBps
    <3> QED
      BY <3>1, <3>2
  <2>3. IsFiniteSet(acknowledged) /\ emitted \subseteq Message /\ acknowledged \subseteq Message
    BY <1>2, FS_EmptySet
  <2>4. acquired \subseteq PoolSlots
    BY <1>6
  <2> QED
    BY <1>4, <1>7, <2>1, <2>2, <2>3, <2>4 DEF DataOK, QueuesOK
<1>9. KindsInv
  BY <1>1, <1>3, <1>4, <1>6 DEF KindsInv, KindIn, SbeQueues
<1>10. \A f \in Feeds : /\ Out("signal", f) = 0 /\ Out("order", f) = 0 /\ Out("confirm", f) = 0
                        /\ OnTheWay(f) = {} /\ Answered(f) = {}
  <2>1. \A f \in Feeds : /\ OfKind("signal", f) = {} /\ OfKind("order", f) = {} /\ OfKind("confirm", f) = {}
                         /\ OnTheWay(f) = {} /\ Answered(f) = {}
    BY <1>2, <1>6 DEF OfKind, OnTheWay, Answered
  <2> QED
    BY <2>1, FS_EmptySet DEF Out
<1>11. StatsInv
  BY <1>2, <1>10 DEF StatsInv
<1>12. TokensInv
  <2> SUFFICES ASSUME NEW f \in Feeds PROVE TokensOK(f)
    BY DEF TokensInv
  <2>1. next_token_[f] - 1 = 0 /\ 1 .. next_token_[f] - 1 = {}
    BY <1>2
  <2>2. OnTheWay(f) = {} /\ Answered(f) = {} /\ Cardinality({}) = 0
    BY <1>10, FS_EmptySet
  <2>3. Cardinality(OnTheWay(f)) + Cardinality(Answered(f)) = next_token_[f] - 1
    BY <2>1, <2>2
  <2>4. {body[s].token : s \in OnTheWay(f)} \cup {m.token : m \in Answered(f)} = 1 .. next_token_[f] - 1
    BY <2>1, <2>2
  <2> QED
    BY <2>2, <2>3, <2>4 DEF TokensOK
<1>13. ContentInv
  BY <1>2, <1>6 DEF ContentInv, IsTick, MarketFeeds
<1>14. PlaceOK
  BY <1>2, PollsOfDrainSignals DEF PlaceOK
<1>15. RoundsInv
  <2>1. /\ Size("market") <= Rounds /\ Size("market") \in Nat
        /\ Size("signal") = 0 /\ Size("pending") = 0 /\ Size("confirm") = 0
        /\ Size("sbe_market") = 0 /\ Size("sbe_signal") = 0
        /\ Size("sbe_pending") = 0 /\ Size("sbe_confirm") = 0
    BY <1>3, <1>4 DEF Queues
  <2>2. MarketTotal <= Rounds /\ SbeTotal = 0
    BY <2>1 DEF MarketTotal, SbeTotal
  <2>3. 0 <= SbeRounds /\ Size("market") + round <= Rounds
    BY <1>2, <2>1 DEF RoundsAssumption
  <2> QED
    BY <1>2, <2>2, <2>3 DEF RoundsInv
<1> QED
  BY <1>4, <1>8, <1>9, <1>11, <1>12, <1>13, <1>14, <1>15 DEF PipelineInv, MessageInv

LEMMA PipelineStep ==
  ASSUME PipelineInv, [Next]_vars PROVE PipelineInv'
<1>1. CASE RouteMarket
  BY <1>1, RouteMarketKeeps
<1>2. CASE DrainSignals
  BY <1>2, DrainSignalsKeeps
<1>3. CASE DrainOrders
  BY <1>3, DrainOrdersKeeps
<1>4. CASE CountMarket
  BY <1>4, CountMarketKeeps
<1>5. CASE MakeBbo
  BY <1>5, MakeBboKeeps
<1>6. CASE RouteSbe
  BY <1>6, RouteSbeKeeps
<1>7. CASE PollSbeConsumer
  BY <1>7, PollSbeConsumerKeeps
<1>8. CASE DrainSbe
  BY <1>8, DrainSbeKeeps
<1>9. CASE CountSbe
  BY <1>9, CountSbeKeeps
<1>10. CASE UNCHANGED vars
  <2>1. UNCHANGED <<pool, queue, stats>> /\ phase' = phase /\ round' = round
    BY <1>10 DEF vars
  <2>2. MessageInv' /\ queue' = queue
    BY <2>1, MessagesUnchanged DEF PipelineInv
  <2>3. PlaceOK' /\ RoundsInv'
    BY <2>1, <2>2 DEF PipelineInv, PlaceOK, RoundsInv, MarketTotal, SbeTotal, Size
  <2> QED
    BY <2>2, <2>3 DEF PipelineInv
<1> QED
  BY <1>1, <1>2, <1>3, <1>4, <1>5, <1>6, <1>7, <1>8, <1>9, <1>10 DEF Next

(* The invariant holds in every state of main's trading phase              *)
(* (main.cpp:291-390).                                                     *)
THEOREM PipelineInvariant == Spec => []PipelineInv
  BY PipelineInit, PipelineStep, PTL DEF Spec

LEMMA InvImpliesPool ==
  ASSUME PipelineInv PROVE PoolAgrees
<1> DEFINE places == UNION {{<<q, i>> : i \in DOMAIN queue[q]} : q \in Queues}
<1>1. DataOK /\ SlotsInv /\ PlaceOK
  BY DEF PipelineInv, MessageInv
<1>2. TypeOK
  BY <1>1 DEF TypeOK, DataOK, PlaceOK
<1>3. \A p \in places : p = <<p[1], p[2]>> /\ p[1] \in Queues /\ p[2] \in DOMAIN queue[p[1]]
  OBVIOUS
<1>4. \A q \in Queues : \A i \in DOMAIN queue[q] : <<q, i>> \in places
  OBVIOUS
<1> HIDE DEF places
<1>5. acquired = {queue[p[1]][p[2]] : p \in places}
  <2>1. ASSUME NEW s \in acquired PROVE s \in {queue[p[1]][p[2]] : p \in places}
    <3>1. PICK q \in Queues : s \in Holds(q)
      BY <1>1 DEF SlotsInv
    <3>2. PICK i \in DOMAIN queue[q] : s = queue[q][i]
      BY <3>1 DEF Holds, Range
    <3>3. <<q, i>> \in places /\ s = queue[<<q, i>>[1]][<<q, i>>[2]]
      BY <1>4, <3>2
    <3> QED
      BY <3>3
  <2>2. ASSUME NEW p \in places PROVE queue[p[1]][p[2]] \in acquired
    <3>1. queue[p[1]][p[2]] \in Holds(p[1]) /\ p[1] \in Queues
      BY <1>3 DEF Holds, Range
    <3> QED
      BY <1>1, <3>1 DEF SlotsInv
  <2> QED
    BY <2>1, <2>2
<1>6. ASSUME NEW p \in places, NEW r \in places, queue[p[1]][p[2]] = queue[r[1]][r[2]]
      PROVE  p = r
  <2>1. queue[p[1]][p[2]] \in Holds(p[1]) /\ queue[p[1]][p[2]] \in Holds(r[1])
    BY <1>3, <1>6 DEF Holds, Range
  <2>2. p[1] = r[1]
    BY <1>1, <1>3, <2>1 DEF SlotsInv
  <2>3. p[2] = r[2]
    BY <1>1, <1>3, <1>6, <2>2 DEF SlotsInv, IsInjective
  <2> QED
    BY <1>3, <2>2, <2>3
<1> QED
  BY <1>2, <1>5, <1>6 DEF PoolAgrees, places

(* Whatever arrives and however many rounds main polls, no stage           *)
(* (producer.hpp, consumer.hpp, gateway.hpp) loses a message or forwards   *)
(* it twice.                                                               *)
THEOREM PipelineLosesNoMessage == Spec => []PoolAgrees
  BY PipelineInvariant, InvImpliesPool, PTL

(* What on_tick computes of the tick that comes next, with the reference   *)
(* its producer has by then, does not overflow.                            *)
NextTickFits ==
  \A q \in {"market", "sbe_market"} :
    queue[q] # <<>> =>
      LET tick == body[Head(queue[q])]
      IN  NoOverflow(ref_price_[tick.feed], SignalOf(tick).price, kDefaultBandBps)

LEMMA InvImpliesFits ==
  ASSUME PipelineInv PROVE NextTickFits
<1> SUFFICES ASSUME NEW q \in {"market", "sbe_market"}, queue[q] # <<>>
    PROVE  LET tick == body[Head(queue[q])]
           IN  NoOverflow(ref_price_[tick.feed], SignalOf(tick).price, kDefaultBandBps)
  BY DEF NextTickFits
<1> DEFINE tick == body[Head(queue[q])]
<1>1. DataOK /\ SlotsInv /\ KindsInv /\ ContentInv
  BY DEF PipelineInv, MessageInv
<1>2. q \in Queues /\ KindIn(q) = "tick"
  BY DEF Queues, KindIn
<1>3. Head(queue[q]) \in acquired /\ tick.kind = "tick" /\ tick.feed \in Feeds
  BY <1>1, <1>2, HeadMessage
<1>4. IsTick(tick, Feeds)
  BY <1>1, <1>3 DEF ContentInv
<1>5. InRange(SignalOf(tick).price, kDefaultBandBps) /\ InRange(ref_price_[tick.feed], kDefaultBandBps)
  BY <1>1, <1>3, <1>4 DEF IsTick, DataOK
<1>6. kDefaultBandBps \in Nat
  BY DEF kDefaultBandBps
<1> HIDE DEF tick
<1>7. NoOverflow(ref_price_[tick.feed], SignalOf(tick).price, kDefaultBandBps)
  BY <1>5, <1>6, StaysInRange
<1> QED
  BY <1>7 DEF tick

(* From the first tick of a run to the last, the strategy's 32-bit         *)
(* arithmetic (strategy.hpp:16, 25-33) holds what it computes, whichever   *)
(* ticks arrive in range and in whichever order.                           *)
THEOREM PipelineArithmeticFits == Spec => []NextTickFits
  BY PipelineInvariant, InvImpliesFits, PTL

(* The messages of a feed and a kind are in the one queue for them. *)
LEMMA WaitingIsOut ==
  ASSUME DataOK, SlotsInv, KindsInv, NEW f \in Feeds, NEW q \in Queues,
         q \in SbeQueues <=> f = "sbe",
         \A p \in Queues : KindIn(p) = KindIn(q) /\ (p \in SbeQueues <=> q \in SbeQueues) => p = q
  PROVE  Cardinality(In(q, KindIn(q), f)) = Out(KindIn(q), f)
<1> DEFINE k    == KindIn(q)
           I    == In(q, k, f)
           S    == OfKind(k, f)
           slot == [i \in I |-> queue[q][i]]
<1>1. queue[q] \in Seq(PoolSlots) /\ IsInjective(queue[q])
  BY DEF DataOK, SlotsInv
<1>2. \A i \in I : i \in DOMAIN queue[q] /\ body[queue[q][i]].kind = k /\ body[queue[q][i]].feed = f
  BY DEF In
<1>3. slot \in Injection(I, S)
  <2>1. \A i \in I : queue[q][i] \in S
    BY <1>2 DEF OfKind, SlotsInv, Holds, Range
  <2>2. IsInjective(slot)
    BY <1>1, <1>2 DEF IsInjective
  <2> QED
    BY <2>1, <2>2 DEF Injection
<1>4. ASSUME NEW s \in S PROVE \E i \in I : slot[i] = s
  <2>1. s \in acquired /\ body[s].kind = k /\ body[s].feed = f
    BY DEF OfKind
  <2>2. PICK p \in Queues : s \in Holds(p)
    BY <2>1 DEF SlotsInv
  <2>3. KindIn(p) = k /\ (p \in SbeQueues <=> f = "sbe")
    BY <2>1, <2>2 DEF KindsInv
  <2>4. p = q
    BY <2>3
  <2>5. PICK i \in DOMAIN queue[q] : s = queue[q][i]
    BY <2>2, <2>4 DEF Holds, Range
  <2>6. i \in I
    BY <2>1, <2>5 DEF In
  <2> QED
    BY <2>5, <2>6
<1>5. slot \in Surjection(I, S)
  BY <1>3, <1>4 DEF Injection, Surjection
<1>6. IsFiniteSet(S)
  BY FS_Subset DEF DataOK, OfKind
<1> HIDE DEF I, S, slot
<1>7. Cardinality(I) = Cardinality(S)
  BY <1>3, <1>5, <1>6, FS_Injection
<1> QED
  BY <1>7 DEF I, S, Out

LEMMA InvImpliesStats ==
  ASSUME PipelineInv PROVE StatsAddUp
<1>1. DataOK /\ SlotsInv /\ KindsInv /\ StatsInv
  BY DEF PipelineInv, MessageInv
<1>2. ASSUME NEW f \in Feeds
      PROVE  /\ Waiting(f, "signal", "signal") = Out("signal", f)
             /\ Waiting(f, "pending", "order") = Out("order", f)
             /\ Waiting(f, "confirm", "confirm") = Out("confirm", f)
  <2>1. CASE f = "sbe"
    <3>1. /\ Stage(f, "signal") = "sbe_signal" /\ Stage(f, "pending") = "sbe_pending"
          /\ Stage(f, "confirm") = "sbe_confirm"
      BY <2>1 DEF Stage, SbeQueue
    <3>2. ASSUME NEW q \in {"sbe_signal", "sbe_pending", "sbe_confirm"}
          PROVE  Cardinality(In(q, KindIn(q), f)) = Out(KindIn(q), f)
      <4>1. q \in Queues /\ (q \in SbeQueues <=> f = "sbe")
        BY <2>1 DEF Queues, SbeQueues
      <4>2. \A p \in Queues : KindIn(p) = KindIn(q) /\ (p \in SbeQueues <=> q \in SbeQueues) => p = q
        BY DEF Queues, SbeQueues, KindIn
      <4> QED
        BY <1>1, <4>1, <4>2, WaitingIsOut
    <3>3. KindIn("sbe_signal") = "signal" /\ KindIn("sbe_pending") = "order" /\ KindIn("sbe_confirm") = "confirm"
      BY DEF KindIn
    <3> QED
      BY <3>1, <3>2, <3>3 DEF Waiting
  <2>2. CASE f # "sbe"
    <3>1. /\ Stage(f, "signal") = "signal" /\ Stage(f, "pending") = "pending"
          /\ Stage(f, "confirm") = "confirm"
      BY <2>2 DEF Stage
    <3>2. ASSUME NEW q \in {"signal", "pending", "confirm"}
          PROVE  Cardinality(In(q, KindIn(q), f)) = Out(KindIn(q), f)
      <4>1. q \in Queues /\ (q \in SbeQueues <=> f = "sbe")
        BY <2>2 DEF Queues, SbeQueues
      <4>2. \A p \in Queues : KindIn(p) = KindIn(q) /\ (p \in SbeQueues <=> q \in SbeQueues) => p = q
        BY DEF Queues, SbeQueues, KindIn
      <4> QED
        BY <1>1, <4>1, <4>2, WaitingIsOut
    <3>3. KindIn("signal") = "signal" /\ KindIn("pending") = "order" /\ KindIn("confirm") = "confirm"
      BY DEF KindIn
    <3> QED
      BY <3>1, <3>2, <3>3 DEF Waiting
  <2> QED
    BY <2>1, <2>2
<1>3. \A f \in Feeds :
       /\ signals_[f] = submitted_[f] + Waiting(f, "signal", "signal")
       /\ submitted_[f] = Waiting(f, "pending", "order") + next_ref[f] - 1
       /\ next_ref[f] - 1 = Waiting(f, "confirm", "confirm") + confirmed[f]
  BY <1>1, <1>2 DEF StatsInv
<1>4. ASSUME NEW q \in Queues, NEW i \in DOMAIN queue[q]
      PROVE  body[queue[q][i]].kind = KindIn(q)
  BY <1>1 DEF KindsInv, Holds, Range
<1>5. \A q \in Queues : KindIn(q) = CASE q \in {"market", "sbe_market"}   -> "tick"
                                  [] q \in {"signal", "sbe_signal"}   -> "signal"
                                  [] q \in {"pending", "sbe_pending"} -> "order"
                                  [] q \in {"confirm", "sbe_confirm"} -> "confirm"
  BY DEF KindIn, Queues
<1> QED
  BY <1>3, <1>4, <1>5 DEF StatsAddUp

(* Feed by feed the counts of the producers, the consumers, the gateway    *)
(* and main differ by what is in the queue between them: what main.cpp     *)
(* prints of them at 329-339 can be compared.                              *)
THEOREM PipelineStatsAddUp == Spec => []StatsAddUp
  BY PipelineInvariant, InvImpliesStats, PTL

LEMMA InvImpliesTokens ==
  ASSUME PipelineInv PROVE TokensNameOneOrder
<1>1. \A f \in Feeds \ {"mtbt"} : TokensOK(f)
  BY DEF PipelineInv, MessageInv, TokensInv
<1> QED
  BY <1>1 DEF TokensNameOneOrder, TokensOK, OnTheWay, Answered

(* Every token that ITCH, SBE and MCX producers gave out names exactly one *)
(* order, through the consumers and the gateway and back: no confirm can   *)
(* be taken for another's.                                                 *)
THEOREM PipelineTokensAreUnique == Spec => []TokensNameOneOrder
  BY PipelineInvariant, InvImpliesTokens, PTL

LEMMA InvImpliesContent ==
  ASSUME PipelineInv PROVE ConfirmsMatchSignals
<1>1. ContentInv
  BY DEF PipelineInv, MessageInv
<1>2. ASSUME NEW m \in {body[s] : s \in acquired} \cup acknowledged, m.kind \in {"order", "confirm"}
      PROVE  \E signal \in emitted : FromSignal(m, signal)
  <2>1. CASE m \in acknowledged
    BY <1>1, <2>1 DEF ContentInv
  <2>2. CASE \E s \in acquired : m = body[s]
    BY <1>1, <1>2, <2>2 DEF ContentInv
  <2> QED
    BY <2>1, <2>2
<1> QED
  BY <1>2 DEF ConfirmsMatchSignals, FromSignal

(* No order of consumer.hpp and no confirm of gateway.hpp says anything    *)
(* that the strategy did not decide.                                       *)
THEOREM PipelineConfirmsMatchSignals == Spec => []ConfirmsMatchSignals
  BY PipelineInvariant, InvImpliesContent, PTL

LEMMA InvImpliesClean ==
  ASSUME PipelineInv PROVE RuntimeStartsClean
<1> SUFFICES ASSUME phase = "runtime"
    PROVE  /\ acquired = {queue["signal"][i] : i \in DOMAIN queue["signal"]}
           /\ \A q \in Queues \ {"signal"} : queue[q] = <<>>
  BY DEF RuntimeStartsClean
<1>1. DataOK /\ SlotsInv /\ RoundsInv
  BY DEF PipelineInv, MessageInv
<1>2. /\ Size("market") = 0 /\ Size("pending") = 0 /\ Size("confirm") = 0
      /\ Size("sbe_market") = 0 /\ Size("sbe_signal") = 0
      /\ Size("sbe_pending") = 0 /\ Size("sbe_confirm") = 0
  <2>1. Size("market") = 0 /\ Size("pending") = 0 /\ Size("confirm") = 0 /\ SbeTotal = 0
    BY <1>1 DEF RoundsInv
  <2>2. /\ Size("sbe_market") \in Nat /\ Size("sbe_signal") \in Nat
        /\ Size("sbe_pending") \in Nat /\ Size("sbe_confirm") \in Nat
    BY <1>1, SizesAreNat
  <2> QED
    <3>1. Size("sbe_market") + Size("sbe_signal") + Size("sbe_pending") + Size("sbe_confirm") = 0
      BY <2>1 DEF SbeTotal
    <3>2. \A a, b, c, d \in Nat : a + b + c + d = 0 => a = 0 /\ b = 0 /\ c = 0 /\ d = 0
      OBVIOUS
    <3>3. /\ Size("sbe_market") = 0 /\ Size("sbe_signal") = 0
          /\ Size("sbe_pending") = 0 /\ Size("sbe_confirm") = 0
      BY <2>2, <3>1, <3>2, Zenon
    <3> QED
      BY <2>1, <3>3
<1>3. \A q \in Queues \ {"signal"} : Size(q) = 0
  BY <1>2 DEF Queues
<1>4. \A q \in Queues \ {"signal"} : queue[q] = <<>> /\ Holds(q) = {}
  BY <1>1, <1>3, QueuesAndMessages, EmptyHoldsNothing
<1>5. acquired = Holds("signal")
  BY <1>1, <1>4 DEF SlotsInv, Queues
<1> QED
  BY <1>4, <1>5 DEF Holds, Range

(* The rounds of every loop but drain_signals are enough, so the runtime   *)
(* (main.cpp:431) starts with an empty market queue and a pool in which    *)
(* nothing is out but the signals drain_signals left.                      *)
THEOREM PipelineLeavesItClean == Spec => []RuntimeStartsClean
  BY PipelineInvariant, InvImpliesClean, PTL

-----------------------------------------------------------------------------
(* What drain_signals leaves.  One round of the queue is as many polls as  *)
(* it has signals; a consumer that refuses a signal turns the queue.       *)

Consumer(turn) == Turns[(turn % 3) + 1]

(* The feeds of n signals in a queue, in its order; the last p polls       *)
(* refused them, the one at the end of the queue last.                     *)
Refused(f, n, poll, p) == \A j \in 0 .. p - 1 : f[n - (j % n)] # Consumer(poll - 1 - j)

Turned(f, g, n) == g[n] = f[1] /\ \A i \in 1 .. n - 1 : g[i] = f[i + 1]

Stuck(f, n) == n % 3 = 0 /\ \A i \in 1 .. n : f[i] # Consumer(i - 1)

(* Polls enough to find the consumers of n signals.                        *)
Cost(n) == n * (n + 2)

LEMMA CostOfOneMore ==
  /\ Cost(0) = 0
  /\ \A n \in Nat \ {0} : /\ Cost(n) \in Nat /\ Cost(n) = Cost(n - 1) + 2 * n + 1
                          /\ Cost(n) >= 2 * n + 1
<1>1. Cost(0) = 0
  BY DEF Cost
<1>2. ASSUME NEW n \in Nat \ {0}
      PROVE  Cost(n) \in Nat /\ Cost(n) = Cost(n - 1) + 2 * n + 1 /\ Cost(n - 1) \in Nat
  <2>1. n * (n + 2) = n * n + 2 * n
    OBVIOUS
  <2>2. (n - 1) * ((n - 1) + 2) = n * n - 1
    OBVIOUS
  <2>3. n * n \in Nat /\ n * n >= 1
    OBVIOUS
  <2> QED
    BY <2>1, <2>2, <2>3 DEF Cost
<1>3. ASSUME NEW n \in Nat \ {0} PROVE Cost(n) >= 2 * n + 1
  BY <1>2
<1> QED
  BY <1>1, <1>2, <1>3

LEMMA RemainderOfSum ==
  ASSUME NEW n \in Nat \ {0}, NEW q \in Nat, NEW r \in 0 .. n - 1
  PROVE  (n * q + r) % n = r
  OBVIOUS

LEMMA RemainderOfPredecessor ==
  ASSUME NEW n \in Nat \ {0}, NEW j \in Nat \ {0}
  PROVE  /\ j % n \in 0 .. n - 1 /\ (j - 1) % n \in 0 .. n - 1
         /\ j % n = 0 => (j - 1) % n = n - 1
         /\ j % n # 0 => (j - 1) % n = (j % n) - 1
<1> DEFINE q == j \div n
           r == j % n
<1>1. j = n * q + r /\ q \in Nat /\ r \in 0 .. n - 1
  OBVIOUS
<1>2. (j - 1) % n \in 0 .. n - 1
  OBVIOUS
<1> HIDE DEF q, r
<1>3. CASE r = 0
  <2>1. q > 0
    BY <1>1, <1>3
  <2>2. j - 1 = n * (q - 1) + (n - 1)
    BY <1>1, <1>3
  <2>3. q - 1 \in Nat /\ n - 1 \in 0 .. n - 1
    BY <2>1, <1>1
  <2>4. (n * (q - 1) + (n - 1)) % n = n - 1
    BY <2>3, RemainderOfSum
  <2> QED
    BY <1>1, <1>2, <1>3, <2>2, <2>4 DEF r
<1>4. CASE r # 0
  <2>1. j - 1 = n * q + (r - 1) /\ r - 1 \in 0 .. n - 1
    BY <1>1, <1>4
  <2>2. (n * q + (r - 1)) % n = r - 1
    BY <1>1, <2>1, RemainderOfSum
  <2> QED
    BY <1>1, <1>2, <1>4, <2>1, <2>2 DEF r
<1> QED
  BY <1>3, <1>4

LEMMA RefusedOnceMore ==
  ASSUME NEW n \in Nat \ {0}, NEW poll \in Nat, NEW p \in 0 .. poll, NEW f, NEW g,
         Refused(f, n, poll, p), Turned(f, g, n), f[1] # Consumer(poll)
  PROVE  Refused(g, n, poll + 1, p + 1)
<1> SUFFICES ASSUME NEW j \in 0 .. p PROVE g[n - (j % n)] # Consumer(poll - j)
  BY DEF Refused
<1>1. CASE j = 0
  <2>1. n - (j % n) = n /\ poll - j = poll
    BY <1>1
  <2> QED
    BY <2>1 DEF Turned
<1>2. CASE j # 0
  <2> DEFINE k == j - 1
  <2>1. k \in 0 .. p - 1 /\ poll - 1 - k = poll - j /\ j \in Nat \ {0}
    BY <1>2
  <2>2. /\ j % n \in 0 .. n - 1 /\ k % n \in 0 .. n - 1
        /\ j % n = 0 => k % n = n - 1
        /\ j % n # 0 => k % n = (j % n) - 1
    BY <2>1, RemainderOfPredecessor
  <2>3. f[n - (k % n)] # Consumer(poll - j)
    BY <2>1 DEF Refused
  <2> HIDE DEF k
  <2>4. g[n - (j % n)] = f[n - (k % n)]
    <3>1. ASSUME NEW a \in 0 .. n - 1, NEW b \in 0 .. n - 1, a = 0 => b = n - 1, a # 0 => b = a - 1
          PROVE  g[n - a] = f[n - b]
      <4>1. CASE a = 0
        BY <3>1, <4>1 DEF Turned
      <4>2. CASE a # 0
        <5>1. n - a \in 1 .. n - 1 /\ (n - a) + 1 = n - b
          BY <3>1, <4>2
        <5> QED
          BY <5>1 DEF Turned
      <4> QED
        BY <4>1, <4>2
    <3> QED
      BY <2>2, <3>1
  <2> QED
    BY <2>3, <2>4
<1> QED
  BY <1>1, <1>2

(* A signal that three consumers of different feeds refused would be of no *)
(* feed at all; so after two rounds of the queue their number is a         *)
(* multiple of three.                                                      *)
LEMMA TwoRoundsTell ==
  ASSUME NEW n \in Nat \ {0}, NEW poll \in Nat, NEW p \in 0 .. poll, p >= 2 * n + 1, NEW f,
         f[n] \in {"itch", "mtbt", "mcx"}, Refused(f, n, poll, p)
  PROVE  n % 3 = 0
<1>1. 0 \in 0 .. p - 1 /\ n \in 0 .. p - 1 /\ 2 * n \in 0 .. p - 1
  OBVIOUS
<1>2. 0 % n = 0 /\ n % n = 0 /\ (2 * n) % n = 0
  <2>1. (n * 0 + 0) % n = 0 /\ (n * 1 + 0) % n = 0 /\ (n * 2 + 0) % n = 0
    BY RemainderOfSum
  <2>2. n * 0 + 0 = 0 /\ n * 1 + 0 = n /\ n * 2 + 0 = 2 * n
    OBVIOUS
  <2> QED
    BY <2>1, <2>2
<1>3. /\ f[n - (0 % n)] # Consumer(poll - 1 - 0)
      /\ f[n - (n % n)] # Consumer(poll - 1 - n)
      /\ f[n - ((2 * n) % n)] # Consumer(poll - 1 - 2 * n)
  BY <1>1 DEF Refused
<1>4. n - 0 = n /\ poll - 1 - 0 = poll - 1
  OBVIOUS
<1>5. /\ f[n] # Consumer(poll - 1) /\ f[n] # Consumer(poll - 1 - n)
      /\ f[n] # Consumer(poll - 1 - 2 * n)
  BY <1>2, <1>3, <1>4
<1> SUFFICES ASSUME n % 3 # 0 PROVE FALSE
  OBVIOUS
<1>6. /\ (poll - 1) % 3 \in 0 .. 2 /\ (poll - 1 - n) % 3 \in 0 .. 2
      /\ (poll - 1 - 2 * n) % 3 \in 0 .. 2
      /\ (poll - 1) % 3 # (poll - 1 - n) % 3 /\ (poll - 1) % 3 # (poll - 1 - 2 * n) % 3
      /\ (poll - 1 - n) % 3 # (poll - 1 - 2 * n) % 3
  OBVIOUS
<1>7. \A a, b, c \in 0 .. 2 : a # b /\ a # c /\ b # c =>
        \A x \in {"itch", "mtbt", "mcx"} : x \in {Turns[a + 1], Turns[b + 1], Turns[c + 1]}
  BY DEF Turns
<1> QED
  BY <1>5, <1>6, <1>7 DEF Consumer

(* Once round the queue, every signal was refused by one consumer; if      *)
(* their number is a multiple of three, by the one it comes to now.        *)
LEMMA OneRoundTells ==
  ASSUME NEW n \in Nat \ {0}, n % 3 = 0, NEW poll \in Nat, NEW p \in 0 .. poll, p >= n, NEW f,
         Refused(f, n, poll, p), NEW i \in 1 .. n
  PROVE  f[i] # Consumer(poll + i - 1)
<1> DEFINE j == n - i
<1>1. j \in 0 .. p - 1 /\ j \in 0 .. n - 1 /\ poll - 1 - j = poll + i - 1 - n /\ n - j = i
  OBVIOUS
<1>2. j % n = j
  <2>1. (n * 0 + j) % n = j
    BY <1>1, RemainderOfSum
  <2> QED
    BY <1>1, <2>1
<1>3. f[n - (j % n)] # Consumer(poll - 1 - j)
  BY <1>1 DEF Refused
<1>4. (poll + i - 1 - n) % 3 = (poll + i - 1) % 3
  OBVIOUS
<1> HIDE DEF j
<1>5. f[i] # Consumer(poll + i - 1 - n)
  BY <1>1, <1>2, <1>3
<1> QED
  BY <1>4, <1>5 DEF Consumer

(* So a signal that is taken was not refused for longer than two rounds,   *)
(* and what was refused for longer is stuck.                               *)
LEMMA TakenInTime ==
  ASSUME NEW n \in Nat \ {0}, NEW poll \in Nat, NEW p \in 0 .. poll, NEW f,
         f[n] \in {"itch", "mtbt", "mcx"}, Refused(f, n, poll, p), f[1] = Consumer(poll)
  PROVE  p <= 2 * n
<1> SUFFICES ASSUME p >= 2 * n + 1 PROVE FALSE
  OBVIOUS
<1>1. n % 3 = 0
  BY TwoRoundsTell
<1>2. p >= n /\ 1 \in 1 .. n /\ poll + 1 - 1 = poll
  OBVIOUS
<1>3. f[1] # Consumer(poll + 1 - 1)
  BY <1>1, <1>2, OneRoundTells
<1> QED
  BY <1>2, <1>3

LEMMA StuckAfterTwoRounds ==
  ASSUME NEW n \in Nat \ {0}, NEW poll \in Nat, NEW p \in 0 .. poll, p >= 2 * n + 1, NEW f,
         f[n] \in {"itch", "mtbt", "mcx"}, Refused(f, n, poll, p), poll % 3 = 0
  PROVE  Stuck(f, n)
<1>1. n % 3 = 0
  BY TwoRoundsTell
<1> SUFFICES ASSUME NEW i \in 1 .. n PROVE f[i] # Consumer(i - 1)
  BY <1>1 DEF Stuck
<1>2. p >= n
  OBVIOUS
<1>3. f[i] # Consumer(poll + i - 1)
  BY <1>1, <1>2, OneRoundTells
<1>4. (poll + i - 1) % 3 = (i - 1) % 3
  OBVIOUS
<1> QED
  BY <1>3, <1>4 DEF Consumer

-----------------------------------------------------------------------------
(* The feeds of the signals in the market's signal queue.                  *)
LeftFeeds == [i \in 1 .. Size("signal") |-> body[queue["signal"][i]].feed]

DrainInv ==
  /\ phase = "route" => Size("signal") = MarketSignals
  /\ phase = "signals" =>
       \E p \in 0 .. round :
         /\ round + Cost(Size("signal")) <= Cost(MarketSignals) + p
         /\ Size("signal") > 0 => Refused(LeftFeeds, Size("signal"), round, p)
  /\ phase \notin {"route", "signals"} => (FewSignals => Stuck(LeftFeeds, Size("signal")))

LEMMA LeftFeedsType ==
  ASSUME PipelineInv
  PROVE  /\ Size("signal") \in Nat /\ MarketSignals \in Nat
         /\ \A i \in 1 .. Size("signal") :
              /\ queue["signal"][i] \in Holds("signal") /\ queue["signal"][i] \in PoolSlots
              /\ LeftFeeds[i] = body[queue["signal"][i]].feed
              /\ LeftFeeds[i] \in {"itch", "mtbt", "mcx"}
<1>1. DataOK /\ KindsInv /\ SlotsInv
  BY DEF PipelineInv, MessageInv
<1>2. Size("signal") \in Nat /\ queue["signal"] \in Seq(PoolSlots)
  BY <1>1, SizesAreNat DEF DataOK, Queues
<1>3. MarketSignals \in Nat
  <2>1. signals_["itch"] \in Nat /\ signals_["mtbt"] \in Nat /\ signals_["mcx"] \in Nat
    BY <1>1 DEF DataOK, Feeds
  <2> QED
    BY <2>1 DEF MarketSignals
<1>4. ASSUME NEW i \in 1 .. Size("signal")
      PROVE  /\ queue["signal"][i] \in Holds("signal") /\ queue["signal"][i] \in PoolSlots
             /\ LeftFeeds[i] = body[queue["signal"][i]].feed
             /\ LeftFeeds[i] \in {"itch", "mtbt", "mcx"}
  <2>1. queue["signal"][i] \in Holds("signal") /\ queue["signal"][i] \in PoolSlots
    BY <1>2 DEF Holds, Range, Size
  <2>2. LeftFeeds[i] = body[queue["signal"][i]].feed
    BY DEF LeftFeeds
  <2>3. body[queue["signal"][i]] \in Message
    BY <1>1, <2>1 DEF DataOK
  <2>4. body[queue["signal"][i]].feed \in Feeds /\ body[queue["signal"][i]].feed # "sbe"
    <3>1. "signal" \in Queues /\ "signal" \notin SbeQueues
      BY DEF Queues, SbeQueues
    <3> QED
      BY <1>1, <2>1, <2>3, <3>1, MessageFields DEF KindsInv
  <2> QED
    BY <2>1, <2>2, <2>4 DEF Feeds
<1> QED
  BY <1>2, <1>3, <1>4

(* A step that leaves the signal queue and what is in it alone.            *)
SignalsKept ==
  /\ queue'["signal"] = queue["signal"]
  /\ \A s \in Holds("signal") : body'[s] = body[s]
  /\ \A f \in MarketFeeds : signals_'[f] = signals_[f]

LEMMA KeptSignals ==
  ASSUME PipelineInv, SignalsKept
  PROVE  /\ Size("signal")' = Size("signal") /\ LeftFeeds' = LeftFeeds
         /\ MarketSignals' = MarketSignals /\ FewSignals' = FewSignals
<1>1. Size("signal")' = Size("signal")
  BY DEF SignalsKept, Size
<1>2. LeftFeeds' = LeftFeeds
  <2>1. \A i \in 1 .. Size("signal") : body'[queue["signal"][i]] = body[queue["signal"][i]]
    BY LeftFeedsType DEF SignalsKept
  <2>2. LeftFeeds' = [i \in 1 .. Size("signal") |-> body'[queue["signal"][i]].feed]
    BY <1>1 DEF SignalsKept, LeftFeeds
  <2> QED
    BY <2>1, <2>2 DEF LeftFeeds
<1>3. MarketSignals' = MarketSignals
  BY DEF SignalsKept, MarketSignals, MarketFeeds, Feeds
<1> QED
  BY <1>1, <1>2, <1>3 DEF FewSignals

(* What the other stages do to their own queues.                           *)
LEMMA OtherQueues ==
  ASSUME DataOK, SlotsInv, NEW q \in Queues \ {"signal"}, NEW r \in Queues \ {"signal"},
         queue[q] # <<>>,
         \/ Drop(q)
         \/ queue' = Moved(q, r) /\ \E m : body' = [body EXCEPT ![Head(queue[q])] = m],
         \A f \in MarketFeeds : signals_'[f] = signals_[f]
  PROVE  SignalsKept
<1>0. "signal" \in Queues
  BY DEF Queues
<1>1. Head(queue[q]) \in Holds(q)
  BY QueuesAndMessages, HeadIsHeld
<1>2. Head(queue[q]) \notin Holds("signal")
  BY <1>0, <1>1 DEF SlotsInv
<1>3. queue'["signal"] = queue["signal"]
  <2>1. CASE Drop(q)
    BY <1>0, <2>1 DEF Drop, Popped, DataOK
  <2>2. CASE queue' = Moved(q, r)
    <3>1. Popped(q) \in [Queues -> Seq(PoolSlots) \cup {Tail(queue[q])}]
      BY DEF Popped, DataOK
    <3>2. Popped(q)["signal"] = queue["signal"]
      BY <1>0 DEF Popped, DataOK
    <3> QED
      BY <1>0, <2>2, <3>1, <3>2 DEF Moved
  <2> QED
    BY <2>1, <2>2
<1>4. \A s \in Holds("signal") : s \in PoolSlots
  BY <1>0 DEF SlotsInv, DataOK
<1>5. \A s \in Holds("signal") : body'[s] = body[s]
  BY <1>2, <1>4 DEF DataOK, Drop
<1> QED
  BY <1>3, <1>5 DEF SignalsKept

LEMMA NothingElse ==
  ASSUME UNCHANGED <<pool, queue, stats>> PROVE SignalsKept
  BY DEF SignalsKept, pool, stats, producers

(* The stages after drain_signals.                                         *)
LEMMA LaterStagesKeep ==
  ASSUME PipelineInv, DrainOrders \/ CountMarket \/ MakeBbo \/ RouteSbe
                        \/ PollSbeConsumer \/ DrainSbe \/ CountSbe
  PROVE  SignalsKept /\ phase \notin {"route", "signals"} /\ phase' \notin {"route", "signals"}
<1>1. DataOK /\ SlotsInv /\ KindsInv /\ ContentInv
  BY DEF PipelineInv, MessageInv
<1>2. ASSUME NEW q \in Queues \ {"signal"}, NEW r \in Queues \ {"signal"}, NEW here, NEW next, NEW n,
             here \notin {"route", "signals"}, next \notin {"route", "signals"},
             DrainGateway(here, n, q, r, next)
      PROVE  SignalsKept /\ phase \notin {"route", "signals"} /\ phase' \notin {"route", "signals"}
  <2>1. phase \notin {"route", "signals"} /\ phase' \notin {"route", "signals"}
    BY <1>2 DEF DrainGateway
  <2>2. UNCHANGED <<pool, queue, stats>> \/ PollGateway(q, r)
    BY <1>2 DEF DrainGateway
  <2>3. CASE UNCHANGED <<pool, queue, stats>>
    BY <2>1, <2>3, NothingElse
  <2>4. CASE PollGateway(q, r)
    <3>1. CASE queue[q] = <<>>
      BY <2>1, <2>4, <3>1, NothingElse DEF PollGateway
    <3>2. CASE queue[q] # <<>>
      <4>1. \/ Drop(q)
            \/ queue' = Moved(q, r) /\ \E m : body' = [body EXCEPT ![Head(queue[q])] = m]
        BY <2>4, <3>2 DEF PollGateway
      <4>2. signals_' = signals_
        BY <2>4, <3>2 DEF PollGateway, stats, producers
      <4> QED
        BY <1>1, <2>1, <3>2, <4>1, <4>2, OtherQueues
    <3> QED
      BY <3>1, <3>2
  <2> QED
    BY <2>2, <2>3, <2>4
<1>3. ASSUME NEW q \in Queues \ {"signal"}, NEW here, NEW next, NEW n,
             here \notin {"route", "signals"}, next \notin {"route", "signals"},
             CountConfirms(here, n, q, next)
      PROVE  SignalsKept /\ phase \notin {"route", "signals"} /\ phase' \notin {"route", "signals"}
  <2>1. phase \notin {"route", "signals"} /\ phase' \notin {"route", "signals"}
    BY <1>3 DEF CountConfirms, CountAndThen
  <2>2. \/ UNCHANGED <<pool, queue, stats>>
        \/ queue[q] # <<>> /\ Drop(q) /\ UNCHANGED producers
    BY <1>3 DEF CountConfirms, CountAndThen
  <2>3. CASE UNCHANGED <<pool, queue, stats>>
    BY <2>1, <2>3, NothingElse
  <2>4. CASE queue[q] # <<>> /\ Drop(q) /\ UNCHANGED producers
    <3>1. signals_' = signals_
      BY <2>4 DEF producers
    <3> QED
      BY <1>1, <2>1, <2>4, <3>1, OtherQueues
  <2> QED
    BY <2>2, <2>3, <2>4
<1>4. CASE DrainOrders
  <2>1. "pending" \in Queues \ {"signal"} /\ "confirm" \in Queues \ {"signal"}
    BY DEF Queues
  <2> QED
    BY <1>2, <1>4, <2>1 DEF DrainOrders
<1>5. CASE DrainSbe
  <2>1. "sbe_pending" \in Queues \ {"signal"} /\ "sbe_confirm" \in Queues \ {"signal"}
    BY DEF Queues
  <2> QED
    BY <1>2, <1>5, <2>1 DEF DrainSbe
<1>6. CASE CountMarket
  <2>1. "confirm" \in Queues \ {"signal"}
    BY DEF Queues
  <2> QED
    BY <1>3, <1>6, <2>1 DEF CountMarket
<1>7. CASE CountSbe
  <2>1. "sbe_confirm" \in Queues \ {"signal"}
    BY DEF Queues
  <2> QED
    BY <1>3, <1>7, <2>1 DEF CountSbe
<1>8. CASE MakeBbo
  <2>1. phase \notin {"route", "signals"} /\ phase' \notin {"route", "signals"}
    BY <1>8 DEF MakeBbo
  <2>2. CASE UNCHANGED <<pool, queue, stats>>
    BY <2>1, <2>2, NothingElse
  <2>3. CASE ~ UNCHANGED <<pool, queue, stats>>
    <3> DEFINE new == CHOOSE s \in PoolSlots \ acquired : \A other \in PoolSlots \ acquired : s <= other
    <3>1. /\ ~ (PoolSlots \subseteq acquired)
          /\ body' = [body EXCEPT ![new] = Bbos[round + 1]]
          /\ queue' = [queue EXCEPT !["sbe_market"] = Append(@, new)]
          /\ UNCHANGED stats
      <4>1. round < Len(Bbos) /\ ~ (PoolSlots \subseteq acquired)
        BY <1>8, <2>3 DEF MakeBbo
      <4> QED
        BY <1>8, <4>1 DEF MakeBbo
    <3>2. new \notin acquired
      <4>1. \A s \in PoolSlots \ acquired : s \in Nat
        BY PoolAssumption DEF PoolAssumption
      <4>2. \E s \in PoolSlots \ acquired : \A other \in PoolSlots \ acquired : s <= other
        BY <3>1, <4>1, LeastElement
      <4> HIDE DEF new
      <4>3. new \in PoolSlots \ acquired
        BY <4>2, Zenon DEF new
      <4> QED
        BY <4>3
    <3> HIDE DEF new
    <3>3. "signal" \in Queues /\ "sbe_market" \in Queues
      BY DEF Queues
    <3>4. queue'["signal"] = queue["signal"]
      BY <1>1, <3>1, <3>3 DEF DataOK
    <3>5. Holds("signal") \subseteq acquired /\ acquired \subseteq PoolSlots
      BY <1>1, <3>3 DEF SlotsInv, DataOK
    <3>6. \A s \in Holds("signal") : body'[s] = body[s]
      BY <1>1, <3>1, <3>2, <3>5 DEF DataOK
    <3>7. signals_' = signals_
      BY <3>1 DEF stats, producers
    <3> QED
      BY <2>1, <3>4, <3>6, <3>7 DEF SignalsKept
  <2> QED
    BY <2>2, <2>3
<1>9. CASE RouteSbe
  <2>1. phase \notin {"route", "signals"} /\ phase' \notin {"route", "signals"}
    BY <1>9 DEF RouteSbe, RouteTicks
  <2>2. \/ UNCHANGED <<pool, queue, stats>>
        \/ /\ queue["sbe_market"] # <<>>
           /\ OnTick("sbe_market", "sbe_signal", body[Head(queue["sbe_market"])])
    BY <1>9 DEF RouteSbe, RouteTicks
  <2>3. CASE UNCHANGED <<pool, queue, stats>>
    BY <2>1, <2>3, NothingElse
  <2>4. CASE /\ queue["sbe_market"] # <<>>
             /\ OnTick("sbe_market", "sbe_signal", body[Head(queue["sbe_market"])])
    <3>1. /\ "sbe_market" \in Queues \ {"signal"} /\ "sbe_signal" \in Queues \ {"signal"}
          /\ "sbe_market" \in SbeQueues
      BY DEF Queues, SbeQueues
    <3>2. body[Head(queue["sbe_market"])].feed = "sbe"
      BY <1>1, <2>4, <3>1, HeadMessage
    <3>3. /\ \/ Drop("sbe_market")
             \/ /\ queue' = Moved("sbe_market", "sbe_signal")
                /\ \E m : body' = [body EXCEPT ![Head(queue["sbe_market"])] = m]
          /\ signals_' = signals_ \/ signals_' = Bump(signals_, "sbe")
      BY <2>4, <3>2 DEF OnTick, Emit
    <3>4. \A f \in MarketFeeds : signals_'[f] = signals_[f]
      BY <1>1, <3>3 DEF Bump, DataOK, MarketFeeds
    <3> QED
      BY <1>1, <2>1, <2>4, <3>1, <3>3, <3>4, OtherQueues
  <2> QED
    BY <2>2, <2>3, <2>4
<1>10. CASE PollSbeConsumer
  <2>1. phase \notin {"route", "signals"} /\ phase' \notin {"route", "signals"}
    BY <1>10 DEF PollSbeConsumer
  <2>2. \/ UNCHANGED <<pool, queue, stats>>
        \/ queue["sbe_signal"] # <<>> /\ PollConsumer("sbe", "sbe_signal", "sbe_pending")
    BY <1>10 DEF PollSbeConsumer, PollConsumer, Poll
  <2>3. CASE UNCHANGED <<pool, queue, stats>>
    BY <2>1, <2>3, NothingElse
  <2>4. CASE queue["sbe_signal"] # <<>> /\ PollConsumer("sbe", "sbe_signal", "sbe_pending")
    <3>1. /\ "sbe_signal" \in Queues \ {"signal"} /\ "sbe_pending" \in Queues \ {"signal"}
          /\ "sbe_signal" \in SbeQueues
      BY DEF Queues, SbeQueues
    <3>2. body[Head(queue["sbe_signal"])].feed = "sbe"
      BY <1>1, <2>4, <3>1, HeadMessage
    <3>3. /\ \/ Drop("sbe_signal")
             \/ /\ queue' = Moved("sbe_signal", "sbe_pending")
                /\ \E m : body' = [body EXCEPT ![Head(queue["sbe_signal"])] = m]
          /\ signals_' = signals_
      <4>1. \/ Drop("sbe_signal") /\ UNCHANGED stats
            \/ Submit("sbe", "sbe_signal", "sbe_pending")
        BY <2>4, <3>2 DEF PollConsumer, Poll
      <4>2. CASE Drop("sbe_signal") /\ UNCHANGED stats
        BY <4>2 DEF stats, producers
      <4>3. CASE Submit("sbe", "sbe_signal", "sbe_pending")
        BY <4>3 DEF Submit, producers
      <4> QED
        BY <4>1, <4>2, <4>3
    <3> QED
      BY <1>1, <2>1, <2>4, <3>1, <3>3, OtherQueues
  <2> QED
    BY <2>2, <2>3, <2>4
<1> QED
  BY <1>4, <1>5, <1>6, <1>7, <1>8, <1>9, <1>10

(* A signal for every tick that becomes one.                               *)
LEMMA RoutingCounts ==
  ASSUME PipelineInv, DrainInv, RouteMarket
  PROVE  DrainInv'
<1>1. /\ DataOK /\ SlotsInv /\ KindsInv /\ QueuesOK /\ phase = "route"
      /\ Size("signal") = MarketSignals
  BY QueuesAndMessages DEF PipelineInv, MessageInv, RouteMarket, RouteTicks, DrainInv
<1>2. Size("signal") \in Nat /\ MarketSignals \in Nat
  BY LeftFeedsType
<1>3. CASE round < Rounds /\ queue["market"] # <<>>
  <2>1. phase' = "route" /\ OnTick("market", "signal", body[Head(queue["market"])])
    BY <1>1, <1>3 DEF RouteMarket, RouteTicks
  <2>2. /\ "market" \in Queues /\ "signal" \in Queues /\ "market" # "signal"
        /\ "market" \notin SbeQueues
    BY DEF Queues, SbeQueues
  <2>3. body[Head(queue["market"])].feed \in MarketFeeds
    BY <1>1, <1>3, <2>2, HeadMessage DEF MarketFeeds
  <2>4. \/ Drop("market") /\ signals_' = signals_
        \/ /\ queue' = Moved("market", "signal") /\ acquired' = acquired
           /\ signals_' = Bump(signals_, body[Head(queue["market"])].feed)
    BY <2>1 DEF OnTick, Emit
  <2>5. CASE Drop("market") /\ signals_' = signals_
    <3>1. Size("signal")' = Size("signal") /\ MarketSignals' = MarketSignals
      BY <1>1, <1>3, <2>2, <2>5, DropKeepsSlots DEF MarketSignals
    <3> QED
      BY <1>1, <2>1, <3>1 DEF DrainInv
  <2>6. CASE /\ queue' = Moved("market", "signal") /\ acquired' = acquired
             /\ signals_' = Bump(signals_, body[Head(queue["market"])].feed)
    <3>1. Size("signal")' = Size("signal") + 1
      BY <1>1, <1>3, <2>2, <2>6, MoveKeepsSlots
    <3>2. MarketSignals' = MarketSignals + 1
      <4>1. signals_ \in [Feeds -> Nat]
        BY <1>1 DEF DataOK
      <4>2. ASSUME NEW f \in MarketFeeds, signals_' = [signals_ EXCEPT ![f] = @ + 1]
            PROVE  MarketSignals' = MarketSignals + 1
        BY <4>1, <4>2 DEF MarketSignals, MarketFeeds, Feeds
      <4> QED
        BY <2>3, <2>6, <4>2 DEF Bump
    <3> QED
      BY <1>1, <2>1, <3>1, <3>2 DEF DrainInv
  <2> QED
    BY <2>4, <2>5, <2>6
<1>4. CASE ~ (round < Rounds /\ queue["market"] # <<>>)
  <2>1. phase' = "signals" /\ round' = 0 /\ UNCHANGED <<pool, queue, stats>>
    BY <1>1, <1>4 DEF RouteMarket, RouteTicks
  <2>2. Size("signal")' = Size("signal") /\ MarketSignals' = MarketSignals
    BY <2>1, NothingElse, KeptSignals
  <2>3. Refused(LeftFeeds, Size("signal"), round, 0)'
    BY DEF Refused
  <2>4. Cost(MarketSignals) \in Nat
    BY <1>2, CostOfOneMore
  <2>5. 0 + Cost(Size("signal")') <= Cost(MarketSignals') + 0
    BY <1>1, <2>2, <2>4
  <2> QED
    BY <2>1, <2>3, <2>5 DEF DrainInv
<1> QED
  BY <1>3, <1>4

(* The poll of a consumer turns the queue, or takes its first signal.      *)
LEMMA PollTurnsOrTakes ==
  ASSUME PipelineInv, NEW feed \in MarketFeeds, Size("signal") > 0,
         PollConsumer(feed, "signal", "pending")
  PROVE  /\ MarketSignals' = MarketSignals
         /\ \/ /\ Size("signal")' = Size("signal") /\ LeftFeeds[1] # feed
               /\ Turned(LeftFeeds, LeftFeeds', Size("signal"))
            \/ Size("signal")' = Size("signal") - 1 /\ LeftFeeds[1] = feed
<1> DEFINE q == queue["signal"]
           msg == body[Head(q)]
           n == Size("signal")
<1>1. DataOK /\ SlotsInv /\ KindsInv /\ ContentInv /\ QueuesOK /\ n \in Nat /\ n > 0
  BY LeftFeedsType, QueuesAndMessages DEF PipelineInv, MessageInv
<1>2. /\ "signal" \in Queues /\ "pending" \in Queues /\ "signal" # "pending"
      /\ KindIn("signal") = "signal"
  BY DEF Queues, KindIn
<1>3. q # <<>> /\ q \in Seq(PoolSlots) /\ Len(q) = n
  BY <1>1, <1>2, EmptyQueue DEF DataOK, Size
<1>4. Head(q) \in acquired /\ msg.kind = "signal"
  BY <1>1, <1>2, <1>3, HeadMessage
<1>5. msg.side # "none"
  BY <1>1, <1>4 DEF ContentInv
<1>6. LeftFeeds[1] = msg.feed
  BY <1>1, <1>3, LeftFeedsType
<1>7. \/ msg.feed # feed /\ queue' = Moved("signal", "signal") /\ UNCHANGED pool /\ UNCHANGED stats
      \/ msg.feed = feed /\ Submit(feed, "signal", "pending")
  BY <1>3, <1>4, <1>5 DEF PollConsumer, Poll
<1>8. CASE msg.feed # feed /\ queue' = Moved("signal", "signal") /\ UNCHANGED pool /\ UNCHANGED stats
  <2>1. body' = body /\ acquired' = acquired /\ signals_' = signals_
    BY <1>8 DEF pool, stats, producers
  <2>2. Size("signal")' = n
    BY <1>1, <1>2, <1>3, <1>8, <2>1, RotateKeepsSlots
  <2>3. queue'["signal"] = Append(Tail(q), Head(q))
    BY <1>1, <1>2, <1>8 DEF Moved, Popped, DataOK
  <2>4. /\ Len(Tail(q)) = n - 1 /\ Tail(q) \in Seq(PoolSlots) /\ Head(q) \in PoolSlots
        /\ \A i \in 1 .. n - 1 : Tail(q)[i] = q[i + 1]
    BY <1>1, <1>3, HeadTailProperties
  <2>5. /\ queue'["signal"][n] = Head(q)
        /\ \A i \in 1 .. n - 1 : queue'["signal"][i] = q[i + 1]
    <3> DEFINE t == Tail(q)
    <3>1. Len(t) = n - 1 /\ t \in Seq(PoolSlots) /\ \A i \in 1 .. n - 1 : t[i] = q[i + 1]
      BY <2>4
    <3>2. queue'["signal"] = Append(t, Head(q)) /\ Head(q) \in PoolSlots
      BY <2>3, <2>4
    <3> HIDE DEF t, q, n
    <3>3. /\ Append(t, Head(q))[Len(t) + 1] = Head(q)
          /\ \A i \in 1 .. Len(t) : Append(t, Head(q))[i] = t[i]
      BY <3>1, <3>2, AppendProperties
    <3>4. (n - 1) + 1 = n
      BY <1>1
    <3> QED
      BY <3>1, <3>2, <3>3, <3>4
  <2>6. LeftFeeds' = [i \in 1 .. n |-> body[queue'["signal"][i]].feed]
    BY <2>1, <2>2 DEF LeftFeeds
  <2>7. LeftFeeds = [i \in 1 .. n |-> body[q[i]].feed]
    BY DEF LeftFeeds
  <2> HIDE DEF q, n
  <2>8. LeftFeeds'[n] = LeftFeeds[1]
    BY <1>1, <1>6, <2>5, <2>6 DEF q
  <2>9. ASSUME NEW i \in 1 .. n - 1 PROVE LeftFeeds'[i] = LeftFeeds[i + 1]
    <3>1. i \in 1 .. n /\ i + 1 \in 1 .. n
      BY <1>1
    <3> QED
      BY <2>5, <2>6, <2>7, <3>1
  <2>10. Turned(LeftFeeds, LeftFeeds', Size("signal"))
    BY <2>8, <2>9 DEF Turned, n
  <2>11. MarketSignals' = MarketSignals
    BY <2>1 DEF MarketSignals
  <2> QED
    BY <1>6, <1>8, <2>2, <2>10, <2>11 DEF q, n
<1>9. CASE msg.feed = feed /\ Submit(feed, "signal", "pending")
  <2>1. queue' = Moved("signal", "pending") /\ acquired' = acquired /\ signals_' = signals_
    BY <1>9 DEF Submit, producers
  <2>2. Size("signal")' = n - 1
    BY <1>1, <1>2, <1>3, <2>1, MoveKeepsSlots
  <2> QED
    BY <1>6, <1>9, <2>1, <2>2 DEF MarketSignals
<1> QED
  BY <1>7, <1>8, <1>9

LEMMA DrainingCounts ==
  ASSUME PipelineInv, DrainInv, DrainSignals
  PROVE  DrainInv'
<1> DEFINE n == Size("signal")
           total == Cost(MarketSignals)
<1>1. PlaceOK /\ DataOK /\ phase = "signals" /\ round \in Nat
  BY PollsOfDrainSignals DEF PipelineInv, MessageInv, DrainSignals, DrainFor, PlaceOK
<1>2. PICK p \in 0 .. round : /\ round + Cost(n) <= total + p
                              /\ n > 0 => Refused(LeftFeeds, n, round, p)
  BY <1>1 DEF DrainInv
<1>3. n \in Nat /\ MarketSignals \in Nat /\ total \in Nat /\ Cost(n) \in Nat
  <2>1. n \in Nat /\ MarketSignals \in Nat
    BY LeftFeedsType
  <2>2. \A k \in Nat : Cost(k) \in Nat
    BY CostOfOneMore
  <2> QED
    BY <2>1, <2>2
<1>4. n > 0 => LeftFeeds[n] \in {"itch", "mtbt", "mcx"}
  BY <1>3, LeftFeedsType
<1>5. n > 0 => Cost(n) = Cost(n - 1) + 2 * n + 1 /\ Cost(n) >= 2 * n + 1 /\ Cost(n - 1) \in Nat
  <2>1. n > 0 => n \in Nat \ {0}
    BY <1>3
  <2>2. \A k \in Nat : Cost(k) \in Nat
    BY CostOfOneMore
  <2>3. n > 0 => n - 1 \in Nat
    BY <1>3
  <2> QED
    BY <2>1, <2>2, <2>3, CostOfOneMore
<1>6. CASE round < Rounds * Len(Turns)
  <2> DEFINE feed == Consumer(round)
  <2>1. round' = round + 1 /\ phase' = "signals" /\ PollConsumer(feed, "signal", "pending")
    BY <1>1, <1>6, PollsOfDrainSignals DEF DrainSignals, DrainFor, Consumer
  <2>2. feed \in MarketFeeds
    <3>1. round % 3 \in 0 .. 2
      BY <1>1
    <3> QED
      BY <3>1 DEF Consumer, Turns, MarketFeeds, Feeds
  <2>3. SUFFICES \E r \in 0 .. round + 1 :
                   /\ round + 1 + Cost(n') <= total' + r
                   /\ n' > 0 => Refused(LeftFeeds', n', round + 1, r)
    BY <2>1 DEF DrainInv
  <2>4. CASE n = 0
    <3>1. queue["signal"] = <<>>
      BY <1>1, <2>4, EmptyQueue DEF Queues
    <3>2. n' = n /\ MarketSignals' = MarketSignals
      BY <2>1, <3>1, NothingElse, KeptSignals DEF PollConsumer, Poll
    <3>3. p + 1 \in 0 .. round + 1 /\ round + 1 + Cost(n') <= total' + (p + 1) /\ ~ (n' > 0)
      <4> HIDE DEF n, total
      <4>1. total' = total
        BY <3>2 DEF total
      <4> QED
        BY <1>1, <1>2, <1>3, <2>4, <3>2, <4>1
    <3> QED
      BY <3>3
  <2>5. CASE n # 0
    <3>1. n > 0 /\ n \in Nat \ {0}
      BY <1>3, <2>5
    <3>2. /\ MarketSignals' = MarketSignals
          /\ \/ n' = n /\ LeftFeeds[1] # feed /\ Turned(LeftFeeds, LeftFeeds', n)
             \/ n' = n - 1 /\ LeftFeeds[1] = feed
      BY <2>1, <2>2, <3>1, PollTurnsOrTakes
    <3> HIDE DEF n, feed
    <3>3. total' = total
      BY <3>2
    <3> HIDE DEF total
    <3>4. CASE n' = n /\ LeftFeeds[1] # feed /\ Turned(LeftFeeds, LeftFeeds', n)
      <4>1. Refused(LeftFeeds', n, round + 1, p + 1)
        BY <1>1, <1>2, <3>1, <3>4, RefusedOnceMore DEF feed
      <4>2. p + 1 \in 0 .. round + 1 /\ round + 1 + Cost(n') <= total' + (p + 1)
        BY <1>1, <1>2, <1>3, <3>3, <3>4
      <4> QED
        BY <3>4, <4>1, <4>2
    <3>5. CASE n' = n - 1 /\ LeftFeeds[1] = feed
      <4>1. p <= 2 * n
        BY <1>1, <1>2, <1>4, <3>1, <3>5, TakenInTime DEF feed
      <4>2. 0 \in 0 .. round + 1 /\ round + 1 + Cost(n') <= total' + 0
        BY <1>1, <1>2, <1>3, <1>5, <3>1, <3>3, <3>5, <4>1
      <4>3. Refused(LeftFeeds', n', round + 1, 0)
        BY DEF Refused
      <4> QED
        BY <4>2, <4>3
    <3> QED
      BY <3>2, <3>4, <3>5
  <2> QED
    BY <2>4, <2>5
<1>7. CASE ~ (round < Rounds * Len(Turns))
  <2>1. phase' = "gateway" /\ UNCHANGED <<pool, queue, stats>>
    BY <1>1, <1>7 DEF DrainSignals, DrainFor
  <2>2. n' = n /\ LeftFeeds' = LeftFeeds /\ FewSignals' = FewSignals
    BY <2>1, NothingElse, KeptSignals
  <2>3. SUFFICES ASSUME FewSignals PROVE Stuck(LeftFeeds, n)
    BY <2>1, <2>2 DEF DrainInv
  <2>4. round = Rounds * 3 /\ total <= round /\ Rounds \in Nat
    <3>1. total <= Rounds * Len(Turns)
      BY <2>3 DEF FewSignals, Cost
    <3>2. Rounds \in Nat /\ Len(Turns) = 3 /\ round \in 0 .. Rounds * Len(Turns)
      BY <1>1, PollsOfDrainSignals, RoundsAssumption DEF PlaceOK, RoundsAssumption
    <3> HIDE DEF total
    <3>3. round = Rounds * Len(Turns)
      BY <1>1, <1>7, <3>2
    <3> QED
      BY <3>1, <3>2, <3>3
  <2>5. CASE n = 0
    BY <2>5 DEF Stuck
  <2>6. CASE n # 0
    <3>1. n \in Nat \ {0} /\ n > 0
      BY <1>3, <2>6
    <3> HIDE DEF n, total
    <3>2. p >= 2 * n + 1
      BY <1>1, <1>2, <1>3, <1>5, <2>4, <3>1
    <3>3. round % 3 = 0
      BY <2>4
    <3> QED
      BY <1>1, <1>2, <1>4, <3>1, <3>2, <3>3, StuckAfterTwoRounds
  <2> QED
    BY <2>5, <2>6
<1> QED
  BY <1>6, <1>7

LEMMA DrainInit ==
  ASSUME Init PROVE DrainInv
<1>1. /\ phase = "route" /\ queue["signal"] = <<>>
      /\ signals_["itch"] = 0 /\ signals_["mtbt"] = 0 /\ signals_["mcx"] = 0
  BY DEF Init, Queues, Feeds
<1> QED
  BY <1>1 DEF DrainInv, Size, MarketSignals

LEMMA DrainStep ==
  ASSUME PipelineInv, DrainInv, [Next]_vars PROVE DrainInv'
<1>1. CASE SignalsKept /\ phase \notin {"route", "signals"} /\ phase' \notin {"route", "signals"}
  BY <1>1, KeptSignals DEF DrainInv
<1>2. CASE UNCHANGED vars
  <2>1. SignalsKept /\ phase' = phase /\ round' = round
    BY <1>2, NothingElse DEF vars
  <2>2. /\ Size("signal")' = Size("signal") /\ LeftFeeds' = LeftFeeds
        /\ MarketSignals' = MarketSignals /\ FewSignals' = FewSignals
    BY <2>1, KeptSignals
  <2> QED
    BY <2>1, <2>2 DEF DrainInv
<1> QED
  BY <1>1, <1>2, RoutingCounts, DrainingCounts, LaterStagesKeep DEF Next

LEMMA InvImpliesStuck ==
  ASSUME PipelineInv, DrainInv PROVE FewSignals => LeftoversAreStuck
<1> SUFFICES ASSUME FewSignals, phase \notin {"route", "signals"}
    PROVE  /\ Len(queue["signal"]) % Len(Turns) = 0
           /\ \A i \in DOMAIN queue["signal"] :
                body[queue["signal"][i]].feed # Turns[((i - 1) % Len(Turns)) + 1]
  BY DEF LeftoversAreStuck
<1>1. Stuck(LeftFeeds, Size("signal")) /\ Len(Turns) = 3
  BY PollsOfDrainSignals DEF DrainInv
<1>2. DOMAIN queue["signal"] = 1 .. Size("signal")
  BY DEF PipelineInv, MessageInv, DataOK, Size, Queues
<1> QED
  BY <1>1, <1>2, LeftFeedsType DEF Stuck, Consumer, Size

(* drain_signals (main.cpp:323-327) has rounds enough: when the signals    *)
(* are few, as main's are, the ones it leaves in the queue are those that  *)
(* no consumer would ever take.                                            *)
THEOREM PipelineLeavesOnlyStuckSignals == Spec => [](FewSignals => LeftoversAreStuck)
<1>1. Init => PipelineInv /\ DrainInv
  BY PipelineInit, DrainInit
<1>2. (PipelineInv /\ DrainInv) /\ [Next]_vars => (PipelineInv /\ DrainInv)'
  BY PipelineStep, DrainStep
<1>3. PipelineInv /\ DrainInv => (FewSignals => LeftoversAreStuck)
  BY InvImpliesStuck
<1> QED
  BY <1>1, <1>2, <1>3, PTL DEF Spec
=============================================================================
