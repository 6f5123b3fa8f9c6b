------------------------------- MODULE Ingress -------------------------------
(***************************************************************************)
(* What the reader does with the payload of one frame                      *)
(* (include/feed/frame_ingress.hpp): it splits the frame into records      *)
(* (include/proto/itch_decode.hpp, mtbt_decode.hpp), decodes each, puts it *)
(* into a pool slot and pushes it to the market queue, while somebody else *)
(* may pop ticks from that queue and give their slots back.                *)
(*                                                                         *)
(* A frame is known by its kind, its length, the length field that stands  *)
(* at each offset, and the offsets at which a record of a known message    *)
(* type begins.  The reader is the only thread that acquires and pushes    *)
(* here, so that both are one step: MpmcRing and TaggedPool have the rest. *)
(***************************************************************************)
EXTENDS Integers, Sequences, FiniteSets

CONSTANTS
  kItchLengthPrefix,    \* 2 bytes
  ItchAddOrderSize,     \* 36, without the prefix
  MtbtStreamHeaderSize, \* 8
  kMtbtOrderWireSize,   \* 34, with the header
  TopOfBookSize,        \* of an MCX frame, which holds one record
  SizeModulus,          \* 2^64: how many values a std::size_t has
  Frames,               \* the frames that may arrive
  BrokenFrames,         \* frames of a feed that gets its lengths wrong
  PoolCap, QueueCap

(* A length field is small against SizeModulus; msg_len is signed.         *)
IsFrame(f) ==
  /\ f.kind \in {"itch", "mtbt", "mcx"}
  /\ f.len \in Nat \ {0}
  /\ f.field \in [0 .. f.len - 1 -> Int]
  /\ \A at \in 0 .. f.len - 1 :
       /\ f.kind # "mtbt" => f.field[at] >= 0
       /\ f.len + f.field[at] < SizeModulus /\ f.len - f.field[at] < SizeModulus
  /\ f.known \subseteq 0 .. f.len - 1

(* A negative length that is not larger than the offset it stands at.      *)
ReachesBack(f) ==
  \E at \in 0 .. f.len - 1 : f.field[at] < 0 /\ at + f.field[at] >= 0

ASSUME SizesAssumption ==
  /\ kItchLengthPrefix \in Nat \ {0} /\ ItchAddOrderSize \in Nat \ {0}
  /\ MtbtStreamHeaderSize \in Nat \ {0} /\ kMtbtOrderWireSize \in Nat \ {0}
  /\ TopOfBookSize \in Nat \ {0}
ASSUME ModulusAssumption == SizeModulus \in Nat
ASSUME CapsAssumption   == PoolCap \in Nat \ {0} /\ QueueCap \in Nat \ {0}
ASSUME FramesAssumption == \A f \in Frames : IsFrame(f) /\ ~ReachesBack(f)
ASSUME BrokenAssumption == \A f \in BrokenFrames : IsFrame(f)

VARIABLES
  frame,
  pc,           \* where the reader is: split, acquire, push, done
  offset,       \* of the split loop; what is reported as consumed in the end
  record,       \* the record that is being handled: its header, start and end
  saved, skipped,
  free,         \* how many slots of the pool are free
  queue,        \* the ticks in the market queue
  held,         \* the ticks others have popped and not released
  handled       \* history: the records of this frame and what became of them

reader  == <<pc, offset, record, saved, skipped, handled>>
vars    == <<frame, reader, free, queue, held>>

NoRecord == [header |-> 0, start |-> 0, end |-> 0]

(* A tick is known by the offset of its record.  Earlier frames, whose     *)
(* ticks are negative numbers here, may have left any number of them in    *)
(* the queue or with those who popped them.                                *)
Begin(arriving) ==
  /\ frame \in arriving
  /\ pc = "split"
  /\ offset = 0
  /\ record = NoRecord
  /\ saved = 0
  /\ skipped = 0
  /\ handled = <<>>
  /\ free \in 0 .. PoolCap
  /\ \E queued \in 0 .. QueueCap :
       /\ queued <= PoolCap - free
       /\ queue = -queued .. -1
       /\ held = -(PoolCap - free) .. -(queued + 1)

Init == Begin(Frames)

-----------------------------------------------------------------------------

(* Both decoders want one size and a known message type. *)
DecodesItch(start, size) == size = ItchAddOrderSize /\ start \in frame.known

DecodesMtbt(start, size) == size = kMtbtOrderWireSize /\ start \in frame.known

Handled(r, outcome) == handled' = Append(handled, [header |-> r.header, end |-> r.end, outcome |-> outcome])

(* on_message returned false: the loop counts the record and goes on. *)
Skip(r, outcome) ==
  /\ Handled(r, outcome)
  /\ skipped' = skipped + 1
  /\ offset' = r.end
  /\ pc' = "split"

(* The split loop calls the handler, which decodes first. *)
Handle(header, start, end, decodes) ==
  LET r == [header |-> header, start |-> start, end |-> end]
  IN  /\ record' = r
      /\ IF decodes
           THEN pc' = "acquire" /\ UNCHANGED <<offset, skipped, handled>>
           ELSE Skip(r, "malformed")
      /\ UNCHANGED <<frame, saved, free, queue, held>>

Finish(at) ==
  /\ pc' = "done"
  /\ offset' = at
  /\ UNCHANGED <<frame, record, saved, skipped, handled, free, queue, held>>

(* Mutant: the body is not compared with the end of the frame. *)
ItchRecordUnbounded ==
  /\ pc = "split" /\ frame.kind = "itch"
  /\ offset + kItchLengthPrefix <= frame.len
  /\ LET size == frame.field[offset]
         body == offset + kItchLengthPrefix
     IN  IF size = 0
           THEN Finish(body)
           ELSE Handle(offset, body, body + size, DecodesItch(body, size))

(* [length][body], the length counts the body.  A broken record ends the   *)
(* loop with its prefix consumed.                                          *)
ItchRecord ==
  /\ pc = "split" /\ frame.kind = "itch"
  /\ offset + kItchLengthPrefix <= frame.len
  /\ LET size == frame.field[offset]
         body == offset + kItchLengthPrefix
     IN  IF size = 0 \/ body + size > frame.len
           THEN Finish(body)
           ELSE Handle(offset, body, body + size, DecodesItch(body, size))

(* A std::size_t: a negative length that is converted, or a sum. *)
Wrapped(n) ==
  IF n < 0 THEN n + SizeModulus ELSE IF n >= SizeModulus THEN n - SizeModulus ELSE n

(* Mutant: the last packet is refused when it ends with the frame. *)
MtbtRecordOneLess ==
  /\ pc = "split" /\ frame.kind = "mtbt"
  /\ offset + MtbtStreamHeaderSize <= frame.len
  /\ LET size == Wrapped(frame.field[offset])
         end  == Wrapped(offset + size)
     IN  IF size < MtbtStreamHeaderSize \/ end >= frame.len
           THEN Finish(offset)
           ELSE Handle(offset, offset, end, DecodesMtbt(offset, size))

(* Mutant: a length that does not cover the header is not refused. *)
MtbtRecordEmpty ==
  /\ pc = "split" /\ frame.kind = "mtbt"
  /\ offset + MtbtStreamHeaderSize <= frame.len
  /\ LET size == Wrapped(frame.field[offset])
         end  == Wrapped(offset + size)
     IN  IF end > frame.len
           THEN Finish(offset)
           ELSE Handle(offset, offset, end, DecodesMtbt(offset, size))

(* [header][body], the length in the header counts both.  Converted to a   *)
(* size, a negative one is huge, and so is the end, unless the sum wraps.  *)
MtbtRecord ==
  /\ pc = "split" /\ frame.kind = "mtbt"
  /\ offset + MtbtStreamHeaderSize <= frame.len
  /\ LET size == Wrapped(frame.field[offset])
         end  == Wrapped(offset + size)
     IN  IF size < MtbtStreamHeaderSize \/ end > frame.len
           THEN Finish(offset)
           ELSE Handle(offset, offset, end, DecodesMtbt(offset, size))

(* One tick and nothing else.  It has no message type to check. *)
McxRecord ==
  /\ pc = "split" /\ frame.kind = "mcx"
  /\ IF frame.len # TopOfBookSize
       THEN Finish(0)
       ELSE /\ record' = [header |-> 0, start |-> 0, end |-> frame.len]
            /\ pc' = "acquire"
            /\ UNCHANGED <<frame, offset, saved, skipped, handled, free, queue, held>>

(* Less than a header is left. *)
EndOfFrame ==
  /\ pc = "split"
  /\ \/ frame.kind = "itch" /\ offset + kItchLengthPrefix > frame.len
     \/ frame.kind = "mtbt" /\ offset + MtbtStreamHeaderSize > frame.len
  /\ Finish(offset)

Acquire ==
  /\ pc = "acquire"
  /\ free > 0
  /\ free' = free - 1
  /\ pc' = "push"
  /\ UNCHANGED <<frame, offset, record, saved, skipped, handled, queue, held>>

(* Mutant: the reader waits for a slot. *)
AcquireFailsRetries ==
  /\ pc = "acquire"
  /\ free = 0
  /\ UNCHANGED vars

(* The tick is dropped; an MCX frame does not even count it. *)
AcquireFails ==
  /\ pc = "acquire"
  /\ free = 0
  /\ IF frame.kind = "mcx"
       THEN pc' = "done" /\ Handled(record, "dropped") /\ UNCHANGED <<offset, skipped>>
       ELSE Skip(record, "dropped")
  /\ UNCHANGED <<frame, record, saved, free, queue, held>>

(* push has placed the tick; it waits while the queue is full. *)
PushTick(room) ==
  /\ pc = "push"
  /\ room
  /\ queue' = queue \cup {record.header}
  /\ saved' = saved + 1
  /\ offset' = record.end
  /\ pc' = IF frame.kind = "mcx" THEN "done" ELSE "split"
  /\ Handled(record, "saved")
  /\ UNCHANGED <<frame, record, skipped, free, held>>

(* Mutants: push does not wait, or the tick is forgotten when it would. *)
PushOverfull == PushTick(TRUE)

PushOrForget ==
  \/ PushTick(Cardinality(queue) < QueueCap)
  \/ /\ pc = "push"
     /\ Cardinality(queue) = QueueCap
     /\ Skip(record, "dropped")
     /\ UNCHANGED <<frame, record, saved, free, queue, held>>

Push == PushTick(Cardinality(queue) < QueueCap)

-----------------------------------------------------------------------------
(* The other side of queue and pool, whoever calls it and for whatever     *)
(* kind of tick: pop or try_pop takes one, release gives its slot back.    *)
(* main does so only when the reader is joined; here it may happen at any  *)
(* time.                                                                   *)

(* Without the order of the queue: the reader does not look at it. *)
Take ==
  /\ \E tick \in queue : queue' = queue \ {tick} /\ held' = held \cup {tick}
  /\ UNCHANGED <<frame, reader, free>>

Release ==
  /\ \E tick \in held : held' = held \ {tick}
  /\ free' = free + 1
  /\ UNCHANGED <<frame, reader, queue>>

-----------------------------------------------------------------------------

ReaderStep == ItchRecord \/ MtbtRecord \/ McxRecord \/ EndOfFrame \/ Acquire \/ AcquireFails \/ Push

Next == ReaderStep \/ Take \/ Release

Spec == Init /\ [][Next]_vars

(* The same of a feed that gets its lengths wrong. *)
BrokenSpec == Begin(BrokenFrames) /\ [][Next]_vars

(* The reader is scheduled.  Nobody has to poll the queue: main does not   *)
(* while the reader runs.                                                  *)
FairSpec == Spec /\ WF_vars(ReaderStep)

-----------------------------------------------------------------------------

TypeOK ==
  /\ frame \in Frames
  /\ pc \in {"split", "acquire", "push", "done"}
  /\ offset \in 0 .. frame.len
  /\ record \in [header : Nat, start : Nat, end : Nat]
  /\ saved \in Nat /\ skipped \in Nat
  /\ free \in 0 .. PoolCap
  /\ queue \subseteq Int /\ held \subseteq Int
  /\ Cardinality(queue) <= QueueCap
  /\ handled \in Seq([header : Nat, end : Nat, outcome : {"saved", "malformed", "dropped"}])

(* No record reaches beyond its frame, neither the one in hand nor one     *)
(* that was handed on, whatever the length fields say as long as none of   *)
(* them reaches back (FramesAssumption).                                   *)
WithinFrame ==
  /\ record.end <= frame.len
  /\ \A i \in DOMAIN handled : handled[i].end <= frame.len

(* A complete record begins at this offset. *)
Whole(at) ==
  \/ /\ frame.kind = "itch" /\ at + kItchLengthPrefix <= frame.len
     /\ frame.field[at] > 0 /\ at + kItchLengthPrefix + frame.field[at] <= frame.len
  \/ /\ frame.kind = "mtbt" /\ at + MtbtStreamHeaderSize <= frame.len
     /\ frame.field[at] >= MtbtStreamHeaderSize /\ at + frame.field[at] <= frame.len
  \/ frame.kind = "mcx" /\ at = 0 /\ frame.len = TopOfBookSize

Expected(at) ==
  \/ frame.kind = "itch" /\ frame.field[at] = ItchAddOrderSize /\ at + kItchLengthPrefix \in frame.known
  \/ frame.kind = "mtbt" /\ frame.field[at] = kMtbtOrderWireSize /\ at \in frame.known
  \/ frame.kind = "mcx"

(* "Packets back-to-back" (mtbt_decode.hpp:61): a record that is handled   *)
(* begins behind those that were handled before.                           *)
BackToBack ==
  \A i, j \in DOMAIN handled : i < j => handled[i].end <= handled[j].header

(* In the end the records that were handled are those of the frame, each   *)
(* once and in order: the one at its beginning, and each that follows a    *)
(* handled one, up to the first that is not complete.  A good one is       *)
(* pushed unless the pool was empty, and the counters say so.              *)
EachRecordOnce ==
  pc = "done" =>
    LET headers == {handled[i].header : i \in DOMAIN handled}
        ends    == {handled[i].end : i \in DOMAIN handled}
        With(outcome) == Cardinality({i \in DOMAIN handled : handled[i].outcome = outcome})
    IN  /\ \A at \in 0 .. frame.len - 1 : at \in headers <=> Whole(at) /\ at \in {0} \cup ends
        /\ BackToBack
        /\ \A i \in DOMAIN handled :
             handled[i].outcome = "malformed" <=> ~Expected(handled[i].header)
        /\ saved = With("saved")
        /\ frame.kind # "mcx" => skipped = With("malformed") + With("dropped")

(* No path of the handler loses a slot: each is free, in the queue, with   *)
(* somebody who popped it, or in the reader's hands.                       *)
SlotsConserve ==
  free + Cardinality(queue) + Cardinality(held) + (IF pc = "push" THEN 1 ELSE 0) = PoolCap

(* What makes them inductive: the record in hand begins where the loop     *)
(* stands, and every tick anybody else has comes from before that.         *)
LoopInv ==
  /\ frame \in Frames
  /\ pc \in {"split", "acquire", "push", "done"}
  /\ offset \in 0 .. frame.len
  /\ frame.kind = "mcx" /\ pc # "done" => offset = 0
  /\ record \in [header : Nat, start : Nat, end : Nat]
  /\ pc \in {"acquire", "push"} => record.header = offset /\ record.header < record.end
  /\ saved \in Nat /\ skipped \in Nat
  /\ handled \in Seq([header : Nat, end : Nat, outcome : {"saved", "malformed", "dropped"}])
  /\ WithinFrame

TicksInv ==
  /\ free \in 0 .. PoolCap
  /\ queue \subseteq Int /\ held \subseteq Int
  /\ IsFiniteSet(queue) /\ IsFiniteSet(held) /\ queue \cap held = {}
  /\ Cardinality(queue) <= QueueCap
  /\ pc # "done" => \A tick \in queue \cup held : tick < offset
  /\ SlotsConserve

IngressInv == LoopInv /\ TicksInv

(* A record the reader is finished with moves the split loop forward, so   *)
(* that a frame of n bytes takes at most n iterations; of a frame whose    *)
(* lengths reach back this is not so, see BackToBack.                      *)
Advances == handled' # handled => offset' > offset \/ pc' = "done"

LoopAdvances == [][Advances]_vars

(* The reader gets through its frame unless the market queue stays full:   *)
(* an empty pool does not stop it, and no frame makes the loop spin whose  *)
(* lengths do not reach back.                                              *)
IngestReturns ==
  []<>(Cardinality(queue) < QueueCap) => <>(pc = "done")
=============================================================================
