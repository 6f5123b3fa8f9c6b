---------------------------- MODULE IngressProofs ----------------------------
(***************************************************************************)
(* Splitting stays within the frame, loses no pool slot and handles each   *)
(* record once, for every set of frames, every sizes of headers and        *)
(* records, and every capacity.                                            *)
(***************************************************************************)
EXTENDS Ingress, FiniteSetTheorems, TLAPS

LEMMA IngressInit == Init => IngressInv
<1> SUFFICES ASSUME Init PROVE IngressInv
  OBVIOUS
<1>1. LoopInv
  BY FramesAssumption DEF Init, Begin, LoopInv, WithinFrame, NoRecord, IsFrame
<1>2. TicksInv
  <2>1. PICK queued \in 0 .. QueueCap :
          /\ queued <= PoolCap - free
          /\ queue = -queued .. -1
          /\ held = -(PoolCap - free) .. -(queued + 1)
    BY DEF Init, Begin
  <2>2. free \in 0 .. PoolCap /\ PoolCap \in Nat /\ QueueCap \in Nat /\ pc = "split" /\ offset = 0
    BY CapsAssumption DEF Init, Begin
  <2>3. IsFiniteSet(queue) /\ Cardinality(queue) = queued
    BY <2>1, <2>2, FS_Interval
  <2>4. IsFiniteSet(held) /\ Cardinality(held) = PoolCap - free - queued
    <3> DEFINE low == -(PoolCap - free)
               high == -(queued + 1)
    <3>1. low \in Int /\ high \in Int /\ (low > high => queued = PoolCap - free)
      BY <2>1, <2>2
    <3>2. IsFiniteSet(low .. high) /\ Cardinality(low .. high) = IF low > high THEN 0 ELSE high - low + 1
      BY <3>1, FS_Interval
    <3> QED BY <2>1, <2>2, <3>1, <3>2
  <2> QED BY <2>1, <2>2, <2>3, <2>4 DEF TicksInv, SlotsConserve
<1> QED BY <1>1, <1>2 DEF IngressInv

-----------------------------------------------------------------------------

(* What Append does to the history. *)
LEMMA HandledStep ==
  ASSUME LoopInv, frame' = frame,
         NEW r \in [header : Nat, start : Nat, end : Nat],
         r.end <= frame.len,
         NEW outcome \in {"saved", "malformed", "dropped"},
         Handled(r, outcome)
  PROVE  /\ handled' \in Seq([header : Nat, end : Nat, outcome : {"saved", "malformed", "dropped"}])
         /\ \A i \in DOMAIN handled' : handled'[i].end <= frame'.len
<1> DEFINE Entry == [header : Nat, end : Nat, outcome : {"saved", "malformed", "dropped"}]
           e == [header |-> r.header, end |-> r.end, outcome |-> outcome]
<1>1. handled \in Seq(Entry) /\ e \in Entry /\ handled' = Append(handled, e)
  BY DEF LoopInv, Handled
<1>2. /\ handled' \in Seq(Entry)
      /\ DOMAIN handled' = 1 .. Len(handled) + 1 /\ DOMAIN handled = 1 .. Len(handled)
      /\ \A i \in 1 .. Len(handled) : handled'[i] = handled[i]
      /\ handled'[Len(handled) + 1] = e
      /\ Len(handled) \in Nat
  BY <1>1
<1>3. ASSUME NEW i \in DOMAIN handled'
      PROVE  handled'[i].end <= frame'.len
  <2>1. CASE i \in 1 .. Len(handled)
    BY <1>2, <2>1 DEF LoopInv, WithinFrame
  <2>2. CASE i = Len(handled) + 1
    BY <1>2, <2>2
  <2> QED BY <1>2, <2>1, <2>2
<1> QED BY <1>2, <1>3

(* A record within the frame that begins at the offset keeps the loop's    *)
(* invariant, whatever the handler makes of it.                            *)
LEMMA HandleStep ==
  ASSUME LoopInv, pc = "split", frame.kind # "mcx",
         NEW start \in Nat, NEW end \in Nat, offset < end, end <= frame.len,
         NEW decodes, Handle(offset, start, end, decodes)
  PROVE  /\ LoopInv' /\ Advances
         /\ pc' \in {"split", "acquire"} /\ offset' >= offset
         /\ UNCHANGED <<free, queue, held>>
<1> DEFINE r == [header |-> offset, start |-> start, end |-> end]
<1>1. /\ offset \in Nat /\ frame.len \in Nat /\ offset \in 0 .. frame.len
      /\ r \in [header : Nat, start : Nat, end : Nat]
      /\ r.header = offset /\ r.end = end
  BY FramesAssumption DEF LoopInv, IsFrame
<1>2. /\ record' = r
      /\ UNCHANGED <<frame, saved, free, queue, held>>
      /\ \/ pc' = "acquire" /\ UNCHANGED <<offset, skipped, handled>>
         \/ Skip(r, "malformed")
  BY DEF Handle
<1>3. CASE pc' = "acquire" /\ UNCHANGED <<offset, skipped, handled>>
  BY <1>1, <1>2, <1>3 DEF LoopInv, WithinFrame, Advances
<1>4. CASE Skip(r, "malformed")
  <2>1. /\ handled' \in Seq([header : Nat, end : Nat, outcome : {"saved", "malformed", "dropped"}])
        /\ \A i \in DOMAIN handled' : handled'[i].end <= frame'.len
    <3>1. Handled(r, "malformed")
      BY <1>4 DEF Skip
    <3> QED BY <1>1, <1>2, <3>1, HandledStep
  <2>2. offset' = r.end /\ pc' = "split" /\ skipped' = skipped + 1
    BY <1>4 DEF Skip
  <2> QED BY <1>1, <1>2, <2>1, <2>2 DEF LoopInv, WithinFrame, Advances
<1> QED BY <1>2, <1>3, <1>4

LEMMA FinishStep ==
  ASSUME LoopInv, NEW at \in 0 .. frame.len, Finish(at)
  PROVE  LoopInv' /\ Advances /\ pc' = "done" /\ UNCHANGED <<free, queue, held>>
BY DEF LoopInv, WithinFrame, Finish, Advances

LEMMA ModulusIsLarge ==
  ASSUME LoopInv
  PROVE  SizeModulus \in Int /\ SizeModulus > frame.len
<1>1. IsFrame(frame)
  BY FramesAssumption DEF LoopInv
<1>2. frame.len \in Nat \ {0} /\ 0 \in 0 .. frame.len - 1 /\ frame.field[0] \in Int
  BY <1>1 DEF IsFrame
<1>3. frame.len + frame.field[0] < SizeModulus /\ frame.len - frame.field[0] < SizeModulus
  BY <1>1, <1>2 DEF IsFrame
<1> QED BY <1>2, <1>3, ModulusAssumption

(* A length that passes both checks is not negative, and the end is where  *)
(* it says: the sum has not wrapped.                                       *)
LEMMA AcceptedLengths ==
  ASSUME SizeModulus \in Int, NEW at \in Nat, NEW len \in Nat, NEW length \in Int,
         at < len, len + length < SizeModulus, len - length < SizeModulus,
         length < 0 => at + length < 0,
         Wrapped(length) > 0, Wrapped(at + Wrapped(length)) <= len
  PROVE  Wrapped(at + Wrapped(length)) \in Nat /\ at < Wrapped(at + Wrapped(length))
<1>1. CASE length >= 0
  <2>1. Wrapped(length) = length
    BY <1>1 DEF Wrapped
  <2>2. Wrapped(at + length) = at + length
    BY <1>1 DEF Wrapped
  <2> QED BY <1>1, <2>1, <2>2
<1>2. CASE length < 0
  <2>1. Wrapped(length) = length + SizeModulus
    BY <1>2 DEF Wrapped
  <2>2. Wrapped(at + (length + SizeModulus)) = at + (length + SizeModulus)
    BY <1>2 DEF Wrapped
  <2> QED BY <1>2, <2>1, <2>2
<1> QED BY <1>1, <1>2

(* One iteration of a split loop. *)
LEMMA SplitStep ==
  ASSUME LoopInv, ItchRecord \/ MtbtRecord \/ McxRecord \/ EndOfFrame
  PROVE  /\ LoopInv' /\ Advances
         /\ pc = "split" /\ pc' \in {"split", "acquire", "done"}
         /\ pc' # "done" => offset' >= offset
         /\ UNCHANGED <<free, queue, held>>
<1>1. /\ offset \in Nat /\ frame.len \in Nat \ {0} /\ offset <= frame.len
      /\ \A at \in 0 .. frame.len - 1 : frame.field[at] \in Int
  BY FramesAssumption DEF LoopInv, IsFrame
<1>2. CASE ItchRecord
  <2> DEFINE size == frame.field[offset]
             body == offset + kItchLengthPrefix
             end  == body + size
  <2>1. pc = "split" /\ frame.kind # "mcx" /\ body <= frame.len /\ body \in Nat /\ body > offset
    BY <1>1, <1>2, SizesAssumption DEF ItchRecord
  <2>2. size \in Nat
    BY <1>1, <1>2, <2>1, FramesAssumption DEF ItchRecord, LoopInv, IsFrame
  <2>3. CASE Finish(body)
    BY <1>2, <2>1, <2>3, FinishStep DEF ItchRecord
  <2>4. CASE end <= frame.len /\ Handle(offset, body, end, DecodesItch(body, size))
    <3>1. end \in Nat /\ offset < end
      BY <1>1, <2>1, <2>2
    <3> HIDE DEF size, body, end
    <3> QED BY <2>1, <2>4, <3>1, HandleStep
  <2>5. Finish(body) \/ (end <= frame.len /\ Handle(offset, body, end, DecodesItch(body, size)))
    BY <1>2, <1>1, <2>1, <2>2 DEF ItchRecord
  <2> QED BY <2>3, <2>4, <2>5
<1>3. CASE MtbtRecord
  <2> DEFINE size == Wrapped(frame.field[offset])
             end  == Wrapped(offset + size)
  <2>1. pc = "split" /\ frame.kind # "mcx" /\ offset < frame.len
    BY <1>1, <1>3, SizesAssumption DEF MtbtRecord
  <2>2. \/ Finish(offset)
        \/ size >= MtbtStreamHeaderSize /\ end <= frame.len /\ Handle(offset, offset, end, DecodesMtbt(offset, size))
    <3>1. size \in Int /\ end \in Int /\ MtbtStreamHeaderSize \in Nat
      BY <1>1, <2>1, ModulusIsLarge, SizesAssumption DEF Wrapped
    <3> QED BY <1>1, <1>3, <3>1 DEF MtbtRecord
  <2>3. CASE Finish(offset)
    BY <1>1, <1>3, <2>3, FinishStep DEF MtbtRecord
  <2>4. CASE size >= MtbtStreamHeaderSize /\ end <= frame.len /\ Handle(offset, offset, end, DecodesMtbt(offset, size))
    <3> DEFINE length == frame.field[offset]
    <3>1. /\ length \in Int /\ SizeModulus \in Int
          /\ frame.len + length < SizeModulus /\ frame.len - length < SizeModulus
          /\ length < 0 => offset + length < 0
      <4>1. IsFrame(frame) /\ ~ReachesBack(frame) /\ offset \in 0 .. frame.len - 1
        BY <1>1, <2>1, FramesAssumption DEF LoopInv
      <4> QED BY <1>1, <4>1, ModulusAssumption DEF IsFrame, ReachesBack
    <3>2. Wrapped(length) > 0 /\ Wrapped(offset + Wrapped(length)) <= frame.len
      <4>1. size \in Int
        BY <3>1 DEF Wrapped
      <4> QED BY <2>4, <4>1, SizesAssumption
    <3>3. end \in Nat /\ offset < end
      <4> HIDE DEF length
      <4>1. Wrapped(offset + Wrapped(length)) \in Nat /\ offset < Wrapped(offset + Wrapped(length))
        BY <1>1, <2>1, <3>1, <3>2, AcceptedLengths
      <4> QED BY <4>1 DEF length
    <3> HIDE DEF size, end
    <3> QED BY <1>1, <2>1, <2>4, <3>3, HandleStep
  <2> QED BY <2>2, <2>3, <2>4
<1>4. CASE McxRecord
  <2>1. CASE frame.len # TopOfBookSize
    BY <1>1, <1>4, <2>1, FinishStep DEF McxRecord
  <2>2. CASE frame.len = TopOfBookSize
    <3>1. /\ record' = [header |-> 0, start |-> 0, end |-> frame.len]
          /\ pc = "split" /\ pc' = "acquire"
          /\ UNCHANGED <<frame, offset, saved, skipped, handled, free, queue, held>>
      BY <1>4, <2>2 DEF McxRecord
    <3>2. offset = 0
      BY <1>4, <3>1 DEF LoopInv, McxRecord
    <3> QED BY <1>1, <3>1, <3>2 DEF LoopInv, WithinFrame, Advances
  <2> QED BY <2>1, <2>2
<1>5. CASE EndOfFrame
  BY <1>1, <1>5, FinishStep DEF EndOfFrame
<1> QED BY <1>2, <1>3, <1>4, <1>5

(* The rest of the handler: a slot, or none, and the push. *)
LEMMA HandlerStep ==
  ASSUME LoopInv, Acquire \/ AcquireFails \/ Push
  PROVE  LoopInv' /\ Advances
<1>1. /\ record \in [header : Nat, start : Nat, end : Nat] /\ record.header < record.end
      /\ record.header = offset /\ record.end <= frame.len /\ frame.len \in Nat
  BY FramesAssumption DEF LoopInv, WithinFrame, IsFrame, Acquire, AcquireFails, Push, PushTick
<1>2. CASE Acquire
  BY <1>1, <1>2 DEF Acquire, LoopInv, WithinFrame, Advances
<1>3. ASSUME NEW outcome \in {"saved", "malformed", "dropped"}, Handled(record, outcome), frame' = frame
      PROVE  /\ handled' \in Seq([header : Nat, end : Nat, outcome : {"saved", "malformed", "dropped"}])
             /\ \A i \in DOMAIN handled' : handled'[i].end <= frame'.len
  BY <1>1, <1>3, HandledStep
<1>4. CASE AcquireFails
  <2>1. /\ Handled(record, "dropped") /\ UNCHANGED <<frame, record, saved>>
        /\ \/ pc' = "done" /\ UNCHANGED <<offset, skipped>>
           \/ frame.kind # "mcx" /\ pc' = "split" /\ offset' = record.end /\ skipped' = skipped + 1
    BY <1>4 DEF AcquireFails, Skip
  <2> QED BY <1>1, <1>3, <2>1 DEF LoopInv, WithinFrame, Advances
<1>5. CASE Push
  <2>1. /\ Handled(record, "saved") /\ UNCHANGED <<frame, record, skipped>>
        /\ pc' = (IF frame.kind = "mcx" THEN "done" ELSE "split")
        /\ offset' = record.end /\ saved' = saved + 1
    BY <1>5 DEF Push, PushTick
  <2> QED BY <1>1, <1>3, <2>1 DEF LoopInv, WithinFrame, Advances
<1> QED BY <1>2, <1>4, <1>5

LEMMA LoopStep == LoopInv /\ [Next]_vars => LoopInv' /\ [Advances]_vars
<1> SUFFICES ASSUME LoopInv, [Next]_vars PROVE LoopInv' /\ [Advances]_vars
  OBVIOUS
<1>1. CASE UNCHANGED vars
  BY <1>1 DEF LoopInv, WithinFrame, vars, reader
<1>2. CASE Take \/ Release
  BY <1>2 DEF Take, Release, LoopInv, WithinFrame, reader, Advances
<1>3. CASE ReaderStep
  BY <1>3, SplitStep, HandlerStep DEF ReaderStep
<1> QED BY <1>1, <1>2, <1>3 DEF Next

-----------------------------------------------------------------------------

LEMMA TicksStep == IngressInv /\ LoopInv' /\ [Next]_vars => TicksInv'
<1> SUFFICES ASSUME IngressInv, LoopInv', [Next]_vars PROVE TicksInv'
  OBVIOUS
<1> USE DEF IngressInv
<1>1. /\ PoolCap \in Nat /\ QueueCap \in Nat
      /\ Cardinality(queue) \in Nat /\ Cardinality(held) \in Nat
      /\ offset \in Nat /\ offset' \in Nat
  BY CapsAssumption, FramesAssumption, FS_CardinalityType DEF TicksInv, LoopInv, IsFrame
<1>2. CASE UNCHANGED vars
  BY <1>2 DEF TicksInv, SlotsConserve, vars, reader
<1>3. CASE ItchRecord \/ MtbtRecord \/ McxRecord \/ EndOfFrame
  <2>1. /\ pc = "split" /\ pc' \in {"split", "acquire", "done"}
        /\ pc' # "done" => offset' >= offset
        /\ UNCHANGED <<free, queue, held>>
    BY <1>3, SplitStep
  <2> QED BY <1>1, <2>1 DEF TicksInv, SlotsConserve
<1>4. CASE Acquire
  BY <1>1, <1>4 DEF Acquire, TicksInv, SlotsConserve
<1>5. CASE AcquireFails
  <2>1. /\ pc = "acquire" /\ pc' \in {"split", "done"} /\ UNCHANGED <<free, queue, held>>
        /\ pc' # "done" => offset' = record.end
    BY <1>5 DEF AcquireFails, Skip
  <2>2. record.end > offset
    BY <1>5 DEF AcquireFails, LoopInv
  <2> QED BY <1>1, <2>1, <2>2 DEF TicksInv, SlotsConserve
<1>6. CASE Push
  <2>1. /\ pc = "push" /\ pc' \in {"split", "done"} /\ UNCHANGED <<free, held>>
        /\ queue' = queue \cup {record.header} /\ Cardinality(queue) < QueueCap
        /\ offset' = record.end
    BY <1>6 DEF Push, PushTick
  <2>2. record.header = offset /\ record.end > offset /\ record.end \in Nat
    BY <2>1 DEF LoopInv
  <2>3. offset \notin queue /\ offset \notin held
    BY <1>1, <2>1 DEF TicksInv
  <2>4. IsFiniteSet(queue') /\ Cardinality(queue') = Cardinality(queue) + 1
    BY <2>1, <2>2, <2>3, FS_AddElement DEF TicksInv
  <2> QED BY <1>1, <2>1, <2>2, <2>3, <2>4 DEF TicksInv, SlotsConserve
<1>7. CASE Take
  <2>1. PICK tick \in queue : queue' = queue \ {tick} /\ held' = held \cup {tick}
    BY <1>7 DEF Take
  <2>2. /\ IsFiniteSet(queue') /\ Cardinality(queue') = Cardinality(queue) - 1
        /\ IsFiniteSet(held') /\ Cardinality(held') = Cardinality(held) + 1
    BY <2>1, FS_AddElement, FS_RemoveElement DEF TicksInv
  <2> QED BY <1>1, <1>7, <2>1, <2>2 DEF Take, reader, TicksInv, SlotsConserve
<1>8. CASE Release
  <2>1. PICK tick \in held : held' = held \ {tick}
    BY <1>8 DEF Release
  <2>2. /\ IsFiniteSet(held') /\ Cardinality(held') = Cardinality(held) - 1
        /\ Cardinality(held') \in Nat
    BY <2>1, FS_RemoveElement, FS_CardinalityType DEF TicksInv
  <2> QED BY <1>1, <1>8, <2>1, <2>2 DEF Release, reader, TicksInv, SlotsConserve
<1> QED BY <1>2, <1>3, <1>4, <1>5, <1>6, <1>7, <1>8 DEF Next, ReaderStep

LEMMA IngressStep == IngressInv /\ [Next]_vars => IngressInv'
BY LoopStep, TicksStep DEF IngressInv

LEMMA IngressInvariant == Spec => []IngressInv
BY IngressInit, IngressStep, PTL DEF Spec

(* Type correctness of the ingress path: in particular the offset stays in *)
(* the frame and the queue within its capacity.                            *)
THEOREM IngressTypeCorrect == Spec => []TypeOK
<1>1. IngressInv => TypeOK
  BY DEF IngressInv, LoopInv, TicksInv, TypeOK
<1> QED BY <1>1, IngressInvariant, PTL

(* No record reaches beyond its frame, whatever the length fields say that *)
(* do not reach back (split_itch_frame and split_mtbt_frame).              *)
THEOREM RecordsStayWithinFrame == Spec => []WithinFrame
<1>1. IngressInv => WithinFrame
  BY DEF IngressInv, LoopInv
<1> QED BY <1>1, IngressInvariant, PTL

(* No path through the handlers of frame_ingress.hpp loses a pool slot.    *)
THEOREM NoSlotLost == Spec => []SlotsConserve
<1>1. IngressInv => SlotsConserve
  BY DEF IngressInv, TicksInv
<1> QED BY <1>1, IngressInvariant, PTL

(* Every record the loop is finished with moves it forward, so that a      *)
(* frame of n bytes takes at most n iterations, when its lengths do not    *)
(* reach back (FramesAssumption).                                          *)
THEOREM SplitTerminates == Spec => LoopAdvances
<1>1. IngressInv /\ [Next]_vars => [Advances]_vars
  BY LoopStep DEF IngressInv
<1> QED BY <1>1, IngressInvariant, PTL DEF Spec, LoopAdvances

-----------------------------------------------------------------------------
(* Which records are handled.                                              *)

Headers == {handled[i].header : i \in DOMAIN handled}
Ends    == {handled[i].end : i \in DOMAIN handled}

With(outcome) == {i \in DOMAIN handled : handled[i].outcome = outcome}

(* The loop stands at the beginning of the frame or at the end of a record *)
(* it has handled, and every other such place has been the header of one.  *)
ChainInv ==
  /\ BackToBack
  /\ \A at \in Headers : Whole(at) /\ at \in {0} \cup Ends
  /\ \A i \in DOMAIN handled, at \in Headers :
       handled[i].header = at => (handled[i].outcome = "malformed" <=> ~Expected(at))
  /\ pc # "done" =>
       /\ \A at \in Ends : at <= offset
       /\ offset \in {0} \cup Ends
       /\ \A at \in {0} \cup Ends : at \in Headers \/ at = offset
  /\ pc = "done" => \A at \in {0} \cup Ends : at \in Headers \/ at >= frame.len \/ ~Whole(at)
  /\ pc \in {"acquire", "push"} => \A at \in {offset} : Whole(at) /\ Expected(at)

CountInv ==
  /\ saved = Cardinality(With("saved"))
  /\ frame.kind # "mcx" => skipped = Cardinality(With("malformed")) + Cardinality(With("dropped"))

RecordsInv == ChainInv /\ CountInv

Entries == [header : Nat, end : Nat, outcome : {"saved", "malformed", "dropped"}]

(* What one more entry in the history does. *)
LEMMA OneMoreHandled ==
  ASSUME LoopInv, RecordsInv, pc # "done", frame' = frame,
         NEW r \in [header : Nat, start : Nat, end : Nat], r.header = offset, offset < r.end,
         NEW outcome \in {"saved", "malformed", "dropped"}, Handled(r, outcome),
         Whole(offset), outcome = "malformed" <=> ~Expected(offset)
  PROVE  /\ BackToBack'
         /\ Headers' = Headers \cup {offset} /\ Ends' = Ends \cup {r.end}
         /\ \A at \in Headers' : Whole(at)' /\ at \in {0} \cup Ends'
         /\ \A i \in DOMAIN handled', at \in Headers' :
              handled'[i].header = at => (handled'[i].outcome = "malformed" <=> ~Expected(at)')
         /\ \A at \in Ends' : at <= r.end
         /\ \A at \in {0} \cup Ends' : at \in Headers' \/ at = r.end
         /\ Cardinality(With(outcome)') = Cardinality(With(outcome)) + 1
         /\ \A other \in {"saved", "malformed", "dropped"} \ {outcome} : With(other)' = With(other)
<1> DEFINE e == [header |-> r.header, end |-> r.end, outcome |-> outcome]
           n == Len(handled)
<1>1. /\ handled \in Seq(Entries) /\ e \in Entries /\ handled' = Append(handled, e)
      /\ offset \in Nat /\ e.header = offset /\ e.end = r.end /\ e.outcome = outcome
  BY FramesAssumption DEF LoopInv, Handled, Entries, IsFrame
<1>2. /\ DOMAIN handled' = 1 .. n + 1 /\ DOMAIN handled = 1 .. n /\ n \in Nat
      /\ \A i \in 1 .. n : handled'[i] = handled[i] /\ handled[i] \in Entries
      /\ handled'[n + 1] = e
  BY <1>1
<1> HIDE DEF e, n
<1>3. \A at \in Ends : at <= offset
  BY DEF RecordsInv, ChainInv
<1>4. BackToBack'
  <2> SUFFICES ASSUME NEW i \in DOMAIN handled', NEW j \in DOMAIN handled', i < j
               PROVE  handled'[i].end <= handled'[j].header
    BY DEF BackToBack
  <2>1. i \in 1 .. n
    BY <1>2
  <2>2. CASE j \in 1 .. n
    BY <1>2, <2>1, <2>2 DEF RecordsInv, ChainInv, BackToBack
  <2>3. CASE j = n + 1
    <3>1. handled[i].end \in Ends
      BY <1>2, <2>1 DEF Ends
    <3> QED
      BY <1>1, <1>2, <1>3, <2>1, <2>3, <3>1
  <2> QED
    BY <1>2, <2>2, <2>3
<1>5. Headers' = Headers \cup {offset}
  BY <1>1, <1>2 DEF Headers
<1>6. Ends' = Ends \cup {r.end}
  BY <1>1, <1>2 DEF Ends
<1>7. \A at \in Nat : (Whole(at)' <=> Whole(at)) /\ (Expected(at)' <=> Expected(at))
  BY DEF Whole, Expected
<1>8. Headers \subseteq Nat
  BY <1>2 DEF Headers, Entries
<1>9. \A at \in Headers' : Whole(at)' /\ at \in {0} \cup Ends'
  BY <1>1, <1>5, <1>6, <1>7, <1>8 DEF RecordsInv, ChainInv
<1>10. ASSUME NEW i \in DOMAIN handled', NEW at \in Headers', handled'[i].header = at
       PROVE  handled'[i].outcome = "malformed" <=> ~Expected(at)'
  <2>1. at \in Nat
    BY <1>1, <1>5, <1>8
  <2>2. CASE i \in 1 .. n
    <3>1. at \in Headers /\ handled[i].header = at
      BY <1>2, <1>10, <2>2 DEF Headers
    <3>2. handled[i].outcome = "malformed" <=> ~Expected(at)
      BY <1>2, <2>2, <3>1 DEF RecordsInv, ChainInv
    <3> QED
      BY <1>2, <1>7, <2>1, <2>2, <3>2
  <2>3. CASE i = n + 1
    BY <1>1, <1>2, <1>7, <1>10, <2>1, <2>3
  <2> QED
    BY <1>2, <2>2, <2>3
<1>11. \A at \in Ends' : at <= r.end
  <2>1. Ends \subseteq Nat
    BY <1>2 DEF Ends, Entries
  <2> QED
    BY <1>1, <1>3, <1>6, <2>1
<1>12. \A at \in {0} \cup Ends' : at \in Headers' \/ at = r.end
  BY <1>5, <1>6 DEF RecordsInv, ChainInv
<1>13. /\ Cardinality(With(outcome)') = Cardinality(With(outcome)) + 1
       /\ \A other \in {"saved", "malformed", "dropped"} \ {outcome} : With(other)' = With(other)
  <2>1. With(outcome)' = With(outcome) \cup {n + 1} /\ n + 1 \notin With(outcome)
    BY <1>1, <1>2 DEF With
  <2>2. \A other \in {"saved", "malformed", "dropped"} \ {outcome} : With(other)' = With(other)
    BY <1>1, <1>2 DEF With
  <2>3. IsFiniteSet(With(outcome))
    <3>1. IsFiniteSet(1 .. n)
      BY <1>2, FS_Interval
    <3> QED
      BY <1>2, <3>1, FS_Subset DEF With
  <2> QED
    BY <2>1, <2>2, <2>3, FS_AddElement
<1> QED
  BY <1>4, <1>5, <1>6, <1>9, <1>10, <1>11, <1>12, <1>13

LEMMA WithIsFinite ==
  ASSUME LoopInv, NEW outcome
  PROVE  IsFiniteSet(With(outcome)) /\ Cardinality(With(outcome)) \in Nat
<1>1. DOMAIN handled = 1 .. Len(handled) /\ Len(handled) \in Nat
  BY DEF LoopInv
<1>2. IsFiniteSet(DOMAIN handled)
  BY <1>1, FS_Interval
<1>3. With(outcome) \in SUBSET DOMAIN handled
  BY DEF With
<1> QED
  BY <1>2, <1>3, FS_Subset, FS_CardinalityType

(* The loop goes on behind the record it has just handled. *)
LEMMA GoesOnKeeps ==
  ASSUME LoopInv, LoopInv', RecordsInv, pc # "done", frame' = frame,
         NEW r \in [header : Nat, start : Nat, end : Nat], r.header = offset, offset < r.end,
         NEW outcome \in {"saved", "malformed", "dropped"}, Handled(r, outcome),
         Whole(offset), outcome = "malformed" <=> ~Expected(offset),
         pc' \in {"split", "done"}, pc' = "split" => offset' = r.end,
         pc' = "done" => frame.kind = "mcx",
         saved' = IF outcome = "saved" THEN saved + 1 ELSE saved,
         frame.kind # "mcx" => skipped' = IF outcome = "saved" THEN skipped ELSE skipped + 1
  PROVE  RecordsInv'
<1>1. /\ BackToBack'
      /\ Headers' = Headers \cup {offset} /\ Ends' = Ends \cup {r.end}
      /\ \A at \in Headers' : Whole(at)' /\ at \in {0} \cup Ends'
      /\ \A i \in DOMAIN handled', at \in Headers' :
           handled'[i].header = at => (handled'[i].outcome = "malformed" <=> ~Expected(at)')
      /\ \A at \in Ends' : at <= r.end
      /\ \A at \in {0} \cup Ends' : at \in Headers' \/ at = r.end
      /\ Cardinality(With(outcome)') = Cardinality(With(outcome)) + 1
      /\ \A other \in {"saved", "malformed", "dropped"} \ {outcome} : With(other)' = With(other)
  BY OneMoreHandled
<1>2. pc' = "split" =>
        /\ \A at \in Ends' : at <= offset'
        /\ offset' \in {0} \cup Ends'
        /\ \A at \in {0} \cup Ends' : at \in Headers' \/ at = offset'
  BY <1>1
<1>3. pc' = "done" => \A at \in {0} \cup Ends' : at \in Headers' \/ at >= frame'.len \/ ~Whole(at)'
  <2>1. pc' = "done" => ~Whole(r.end)
    <3>1. offset \in Nat /\ r.end \in Nat
      BY FramesAssumption DEF LoopInv, IsFrame
    <3> QED
      BY <3>1 DEF Whole
  <2>2. \A at : Whole(at)' <=> Whole(at)
    BY DEF Whole
  <2> QED
    BY <1>1, <2>1, <2>2
<1>4. ChainInv'
  BY <1>1, <1>2, <1>3 DEF ChainInv
<1>5. CountInv'
  <2>1. \A any \in {"saved", "malformed", "dropped"} : Cardinality(With(any)) \in Nat
    BY WithIsFinite
  <2>2. /\ saved = Cardinality(With("saved"))
        /\ frame.kind # "mcx" => skipped = Cardinality(With("malformed")) + Cardinality(With("dropped"))
    BY DEF RecordsInv, CountInv
  <2>3. CASE outcome = "saved"
    <3>1. /\ Cardinality(With("saved")') = Cardinality(With("saved")) + 1
          /\ With("malformed")' = With("malformed") /\ With("dropped")' = With("dropped")
      BY <1>1, <2>3
    <3> QED
      BY <2>1, <2>2, <2>3, <3>1 DEF CountInv
  <2>4. CASE outcome = "malformed"
    <3>1. /\ Cardinality(With("malformed")') = Cardinality(With("malformed")) + 1
          /\ With("saved")' = With("saved") /\ With("dropped")' = With("dropped")
      BY <1>1, <2>4
    <3> QED
      BY <2>1, <2>2, <2>4, <3>1 DEF CountInv
  <2>5. CASE outcome = "dropped"
    <3>1. /\ Cardinality(With("dropped")') = Cardinality(With("dropped")) + 1
          /\ With("saved")' = With("saved") /\ With("malformed")' = With("malformed")
      BY <1>1, <2>5
    <3> QED
      BY <2>1, <2>2, <2>5, <3>1 DEF CountInv
  <2> QED
    BY <2>3, <2>4, <2>5
<1> QED
  BY <1>4, <1>5 DEF RecordsInv

(* The loop stops at what is not a whole record. *)
LEMMA FinishKeeps ==
  ASSUME LoopInv, RecordsInv, pc = "split", NEW at, Finish(at), offset >= frame.len \/ ~Whole(offset)
  PROVE  RecordsInv'
<1>1. pc' = "done" /\ UNCHANGED <<frame, saved, skipped, handled>>
  BY DEF Finish
<1>2. /\ Headers' = Headers /\ Ends' = Ends
      /\ \A x : (Whole(x)' <=> Whole(x)) /\ (Expected(x)' <=> Expected(x))
      /\ \A outcome : With(outcome)' = With(outcome)
  BY <1>1 DEF Headers, Ends, Whole, Expected, With
<1>3. \A x \in {0} \cup Ends : x \in Headers \/ x >= frame.len \/ ~Whole(x)
  BY DEF RecordsInv, ChainInv
<1>4. ChainInv'
  BY <1>1, <1>2, <1>3 DEF RecordsInv, ChainInv, BackToBack
<1>5. CountInv'
  BY <1>1, <1>2 DEF RecordsInv, CountInv
<1> QED
  BY <1>4, <1>5 DEF RecordsInv

(* The record is good, and the handler goes for a slot, or pushes it. *)
LEMMA HandlerGoesOnKeeps ==
  ASSUME LoopInv, RecordsInv, pc # "done", pc' \in {"acquire", "push"},
         UNCHANGED <<frame, offset, saved, skipped, handled>>, Whole(offset), Expected(offset)
  PROVE  RecordsInv'
<1>1. /\ Headers' = Headers /\ Ends' = Ends
      /\ \A x : (Whole(x)' <=> Whole(x)) /\ (Expected(x)' <=> Expected(x))
      /\ \A outcome : With(outcome)' = With(outcome)
  BY DEF Headers, Ends, Whole, Expected, With
<1>2. ChainInv'
  BY <1>1 DEF RecordsInv, ChainInv, BackToBack
<1>3. CountInv'
  BY <1>1 DEF RecordsInv, CountInv
<1> QED
  BY <1>2, <1>3 DEF RecordsInv

(* What the split loops make of a record that is whole. *)
LEMMA HandleKeeps ==
  ASSUME LoopInv, LoopInv', RecordsInv, pc = "split", frame.kind # "mcx",
         NEW start \in Nat, NEW end \in Nat, offset < end,
         NEW decodes, Handle(offset, start, end, decodes), Whole(offset), decodes <=> Expected(offset)
  PROVE  RecordsInv'
<1> DEFINE r == [header |-> offset, start |-> start, end |-> end]
<1>1. /\ r \in [header : Nat, start : Nat, end : Nat] /\ r.header = offset /\ r.end = end
  BY FramesAssumption DEF LoopInv, IsFrame
<1>2. /\ UNCHANGED <<frame, saved>>
      /\ \/ decodes /\ pc' = "acquire" /\ UNCHANGED <<offset, skipped, handled>>
         \/ ~decodes /\ Skip(r, "malformed")
  BY DEF Handle
<1> HIDE DEF r
<1>3. CASE decodes /\ pc' = "acquire" /\ UNCHANGED <<offset, skipped, handled>>
  BY <1>2, <1>3, HandlerGoesOnKeeps
<1>4. CASE ~decodes /\ Skip(r, "malformed")
  <2>1. Handled(r, "malformed") /\ skipped' = skipped + 1 /\ offset' = r.end /\ pc' = "split"
    BY <1>4 DEF Skip
  <2> QED
    BY <1>1, <1>2, <1>4, <2>1, GoesOnKeeps
<1> QED
  BY <1>2, <1>3, <1>4

(* One iteration of a split loop handles the record at the offset exactly  *)
(* when it is whole, and decodes it exactly when it is an order.           *)
LEMMA SplitKeeps ==
  ASSUME LoopInv, LoopInv', RecordsInv, ItchRecord \/ MtbtRecord \/ McxRecord \/ EndOfFrame
  PROVE  RecordsInv'
<1>1. /\ IsFrame(frame) /\ ~ReachesBack(frame) /\ pc = "split"
      /\ offset \in 0 .. frame.len /\ frame.len \in Nat \ {0} /\ offset \in Nat
      /\ \A at \in 0 .. frame.len - 1 : frame.field[at] \in Int
  <2>1. pc = "split"
    BY DEF ItchRecord, MtbtRecord, McxRecord, EndOfFrame
  <2>2. frame \in Frames /\ offset \in 0 .. frame.len
    BY DEF LoopInv
  <2>3. IsFrame(frame) /\ ~ReachesBack(frame)
    BY <2>2, FramesAssumption
  <2>4. frame.len \in Nat \ {0} /\ \A at \in 0 .. frame.len - 1 : frame.field[at] \in Int
    BY <2>3 DEF IsFrame
  <2> QED
    BY <2>1, <2>2, <2>3, <2>4
<1>2. CASE ItchRecord
  <2> DEFINE size == frame.field[offset]
             body == offset + kItchLengthPrefix
             end  == body + size
  <2>1. frame.kind = "itch" /\ body <= frame.len /\ body \in Nat /\ body > offset
    BY <1>1, <1>2, SizesAssumption DEF ItchRecord
  <2>2. size \in Nat
    BY <1>1, <2>1 DEF IsFrame
  <2>3. Whole(offset) <=> size > 0 /\ end <= frame.len
    BY <2>1 DEF Whole
  <2>4. CASE size = 0 \/ end > frame.len
    <3>1. Finish(body)
      BY <1>2, <2>4 DEF ItchRecord
    <3>2. ~Whole(offset)
      BY <1>1, <2>1, <2>2, <2>3, <2>4
    <3> QED
      BY <1>1, <3>1, <3>2, FinishKeeps
  <2>5. CASE ~(size = 0 \/ end > frame.len)
    <3>1. Handle(offset, body, end, DecodesItch(body, size))
      BY <1>2, <2>5 DEF ItchRecord
    <3>2. Whole(offset) /\ offset < end /\ end \in Nat
      BY <1>1, <2>1, <2>2, <2>3, <2>5
    <3>3. DecodesItch(body, size) <=> Expected(offset)
      BY <2>1 DEF DecodesItch, Expected
    <3>4. frame.kind # "mcx"
      BY <2>1
    <3> HIDE DEF size, body, end
    <3> QED
      BY <1>1, <2>1, <3>1, <3>2, <3>3, <3>4, HandleKeeps
  <2> QED
    BY <2>4, <2>5
<1>3. CASE MtbtRecord
  <2> DEFINE length == frame.field[offset]
             size   == Wrapped(length)
             end    == Wrapped(offset + size)
  <2>1. frame.kind = "mtbt" /\ offset + MtbtStreamHeaderSize <= frame.len /\ offset < frame.len
    BY <1>1, <1>3, SizesAssumption DEF MtbtRecord
  <2>2. /\ length \in Int /\ SizeModulus \in Int
        /\ frame.len + length < SizeModulus /\ frame.len - length < SizeModulus
        /\ length < 0 => offset + length < 0
    <3>1. offset \in 0 .. frame.len - 1 /\ length \in Int
      BY <1>1, <2>1
    <3>2. frame.len + length < SizeModulus /\ frame.len - length < SizeModulus
      BY <1>1, <3>1 DEF IsFrame
    <3>3. ~(length < 0 /\ offset + length >= 0)
      BY <1>1, <3>1 DEF ReachesBack
    <3>4. offset + length \in Int
      BY <1>1, <3>1
    <3> HIDE DEF length
    <3>5. length < 0 => offset + length < 0
      BY <3>3, <3>4
    <3> QED
      BY <3>1, <3>2, <3>5, ModulusAssumption
  <2>3. Whole(offset) <=> length >= MtbtStreamHeaderSize /\ offset + length <= frame.len
    BY <2>1 DEF Whole
  <2>4. size \in Int /\ end \in Int
    BY <1>1, <2>2 DEF Wrapped
  <2> HIDE DEF length
  <2>5. length >= 0 => size = length
    BY <1>1, <2>2 DEF Wrapped
  <2>6. length >= 0 /\ offset + length <= frame.len => end = offset + length
    <3>1. ASSUME length >= 0, offset + length <= frame.len PROVE Wrapped(offset + length) = offset + length
      BY <1>1, <2>1, <2>2, <3>1 DEF Wrapped
    <3> QED
      BY <2>5, <3>1
  <2>7. CASE size < MtbtStreamHeaderSize \/ end > frame.len
    <3>1. Finish(offset)
      BY <1>3, <2>7 DEF MtbtRecord, length
    <3>2. ~Whole(offset)
      BY <1>1, <2>2, <2>3, <2>5, <2>6, <2>7, SizesAssumption
    <3> QED
      BY <1>1, <3>1, <3>2, FinishKeeps
  <2>8. CASE ~(size < MtbtStreamHeaderSize \/ end > frame.len)
    <3>1. Handle(offset, offset, end, DecodesMtbt(offset, size))
      BY <1>3, <2>8 DEF MtbtRecord, length
    <3>2. length >= 0
      <4> SUFFICES ASSUME length < 0 PROVE FALSE
        BY <2>2
      <4>1. size = length + SizeModulus
        BY <2>2 DEF Wrapped
      <4>2. Wrapped(offset + (length + SizeModulus)) = offset + (length + SizeModulus)
        BY <1>1, <2>1, <2>2 DEF Wrapped
      <4>3. end = offset + (length + SizeModulus)
        BY <4>1, <4>2
      <4> QED
        BY <1>1, <2>1, <2>2, <2>8, <4>3
    <3>3. end = offset + length /\ size = length
      <4>1. Wrapped(offset + length) = offset + length
        <5>1. offset + length >= 0 /\ offset + length < SizeModulus
          BY <1>1, <2>1, <2>2, <3>2
        <5>2. offset + length \in Int
          BY <1>1, <2>2
        <5> QED
          BY <2>2, <5>1, <5>2 DEF Wrapped
      <4> QED
        BY <2>5, <3>2, <4>1
    <3>4. Whole(offset) /\ offset < end /\ end \in Nat
      BY <1>1, <2>2, <2>3, <2>8, <3>2, <3>3, SizesAssumption
    <3>5. DecodesMtbt(offset, size) <=> Expected(offset)
      BY <2>1, <3>3 DEF DecodesMtbt, Expected, length
    <3>6. frame.kind # "mcx"
      BY <2>1
    <3> HIDE DEF size, end
    <3> QED
      BY <1>1, <3>1, <3>4, <3>5, <3>6, HandleKeeps
  <2> QED
    BY <2>7, <2>8
<1>4. CASE McxRecord
  <2>1. frame.kind = "mcx" /\ offset = 0
    BY <1>1, <1>4 DEF McxRecord, LoopInv
  <2>2. CASE frame.len # TopOfBookSize
    <3>1. Finish(0) /\ ~Whole(offset)
      BY <1>4, <2>1, <2>2 DEF McxRecord, Whole
    <3> QED
      BY <1>1, <3>1, FinishKeeps
  <2>3. CASE frame.len = TopOfBookSize
    <3>1. pc' = "acquire" /\ UNCHANGED <<frame, offset, saved, skipped, handled>>
      BY <1>4, <2>3 DEF McxRecord
    <3>2. Whole(offset) /\ Expected(offset)
      BY <2>1, <2>3 DEF Whole, Expected
    <3> QED
      BY <1>1, <3>1, <3>2, HandlerGoesOnKeeps
  <2> QED
    BY <2>2, <2>3
<1>5. CASE EndOfFrame
  <2>1. Finish(offset)
    BY <1>5 DEF EndOfFrame
  <2>2. ~Whole(offset)
    BY <1>1, <1>5, SizesAssumption DEF EndOfFrame, Whole
  <2> QED
    BY <1>1, <2>1, <2>2, FinishKeeps
<1> QED
  BY <1>2, <1>3, <1>4, <1>5

LEMMA HandlerKeeps ==
  ASSUME LoopInv, LoopInv', RecordsInv, Acquire \/ AcquireFails \/ Push
  PROVE  RecordsInv'
<1>1. /\ record \in [header : Nat, start : Nat, end : Nat] /\ record.header = offset
      /\ offset < record.end /\ pc \in {"acquire", "push"}
  BY DEF LoopInv, Acquire, AcquireFails, Push, PushTick
<1>2. Whole(offset) /\ Expected(offset)
  BY <1>1 DEF RecordsInv, ChainInv
<1>3. CASE Acquire
  <2>1. pc' = "push" /\ UNCHANGED <<frame, offset, saved, skipped, handled>>
    BY <1>3 DEF Acquire
  <2> QED
    BY <1>1, <1>2, <2>1, HandlerGoesOnKeeps
<1>4. CASE AcquireFails
  <2>1. /\ Handled(record, "dropped") /\ UNCHANGED <<frame, record, saved>>
        /\ \/ frame.kind = "mcx" /\ pc' = "done"
           \/ frame.kind # "mcx" /\ pc' = "split" /\ offset' = record.end /\ skipped' = skipped + 1
    BY <1>4 DEF AcquireFails, Skip
  <2> QED
    BY <1>1, <1>2, <2>1, GoesOnKeeps
<1>5. CASE Push
  <2>1. /\ Handled(record, "saved") /\ UNCHANGED <<frame, record, skipped>>
        /\ pc' = (IF frame.kind = "mcx" THEN "done" ELSE "split")
        /\ offset' = record.end /\ saved' = saved + 1
    BY <1>5 DEF Push, PushTick
  <2> QED
    BY <1>1, <1>2, <2>1, GoesOnKeeps
<1> QED
  BY <1>3, <1>4, <1>5

LEMMA RecordsInit == Init => RecordsInv
<1> SUFFICES ASSUME Init PROVE RecordsInv
  OBVIOUS
<1>1. handled = <<>> /\ offset = 0 /\ pc = "split" /\ saved = 0 /\ skipped = 0
  BY DEF Init, Begin
<1>2. Headers = {} /\ Ends = {} /\ \A outcome : With(outcome) = {}
  BY <1>1 DEF Headers, Ends, With
<1>3. ChainInv
  BY <1>1, <1>2 DEF ChainInv, BackToBack
<1>4. CountInv
  <2>1. /\ Cardinality(With("saved")) = 0 /\ Cardinality(With("malformed")) = 0
        /\ Cardinality(With("dropped")) = 0
    <3> HIDE DEF With
    <3>1. Cardinality({}) = 0
      BY FS_EmptySet
    <3> QED
      BY <1>2, <3>1
  <2> QED
    BY <1>1, <2>1 DEF CountInv
<1> QED
  BY <1>3, <1>4 DEF RecordsInv

LEMMA RecordsStep == LoopInv /\ LoopInv' /\ RecordsInv /\ [Next]_vars => RecordsInv'
<1> SUFFICES ASSUME LoopInv, LoopInv', RecordsInv, [Next]_vars PROVE RecordsInv'
  OBVIOUS
<1>1. CASE UNCHANGED <<frame, reader>>
  <2>1. UNCHANGED <<frame, pc, offset, saved, skipped, handled>>
    BY <1>1 DEF reader
  <2>2. /\ Headers' = Headers /\ Ends' = Ends
        /\ \A x : (Whole(x)' <=> Whole(x)) /\ (Expected(x)' <=> Expected(x))
        /\ \A outcome : With(outcome)' = With(outcome)
    BY <2>1 DEF Headers, Ends, Whole, Expected, With
  <2> QED
    BY <2>1, <2>2 DEF RecordsInv, ChainInv, CountInv, BackToBack
<1>2. CASE Take \/ Release \/ UNCHANGED vars
  BY <1>1, <1>2 DEF Take, Release, vars
<1>3. CASE ReaderStep
  BY <1>3, SplitKeeps, HandlerKeeps DEF ReaderStep
<1> QED
  BY <1>2, <1>3 DEF Next

(* In the end the records that were handled are those of the frame (whose  *)
(* lengths do not reach back), each once and in order; a good one was      *)
(* pushed unless the pool was empty, and what frame::Stats counts is what  *)
(* was done (frame_ingress.hpp, split_itch_frame, split_mtbt_frame).       *)
THEOREM RecordsHandledOnce == Spec => []EachRecordOnce
<1>1. LoopInv /\ RecordsInv => EachRecordOnce
  <2> SUFFICES ASSUME LoopInv, RecordsInv, pc = "done" PROVE
        /\ \A at \in 0 .. frame.len - 1 : at \in Headers <=> Whole(at) /\ at \in {0} \cup Ends
        /\ BackToBack
        /\ \A i \in DOMAIN handled :
             handled[i].outcome = "malformed" <=> ~Expected(handled[i].header)
        /\ saved = Cardinality(With("saved"))
        /\ frame.kind # "mcx" => skipped = Cardinality(With("malformed")) + Cardinality(With("dropped"))
    BY DEF EachRecordOnce, Headers, Ends, With
  <2>1. frame.len \in Nat
    BY FramesAssumption DEF LoopInv, IsFrame
  <2>2. \A at \in 0 .. frame.len - 1 : at \in Headers <=> Whole(at) /\ at \in {0} \cup Ends
    BY <2>1 DEF RecordsInv, ChainInv
  <2>3. \A i \in DOMAIN handled : handled[i].header \in Headers
    BY DEF Headers
  <2>4. \A i \in DOMAIN handled :
          handled[i].outcome = "malformed" <=> ~Expected(handled[i].header)
    BY <2>3 DEF RecordsInv, ChainInv
  <2> QED
    BY <2>2, <2>4 DEF RecordsInv, ChainInv, CountInv
<1>2. Init => IngressInv /\ RecordsInv
  BY IngressInit, RecordsInit
<1>3. IngressInv /\ RecordsInv /\ [Next]_vars => IngressInv' /\ RecordsInv'
  BY IngressStep, RecordsStep DEF IngressInv
<1>4. IngressInv => LoopInv
  BY DEF IngressInv
<1> QED
  BY <1>1, <1>2, <1>3, <1>4, PTL DEF Spec
=============================================================================
