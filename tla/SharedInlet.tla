----------------------------- MODULE SharedInlet -----------------------------
(***************************************************************************)
(* The frame hand-off of include/feed/shared_inlet.hpp and the reader      *)
(* thread of include/feed/feed_reader.hpp: two plain frame slots, an       *)
(* atomic index that says which one is published, an atomic sequence that  *)
(* writers bump after the index, and an atomic count of what the reader    *)
(* has processed.                                                          *)
(*                                                                         *)
(* A writer publishes a frame and then waits until it is processed: every  *)
(* call of publish in the program is followed by that wait.  Nothing in    *)
(* publish excludes a second writer; the modules that compose this one     *)
(* decide who writes.                                                      *)
(***************************************************************************)
EXTENDS Integers, Sequences

CONSTANTS
  Writers,      \* threads that publish
  Frames,       \* the frames they publish, within the capacity of a slot
  NoFrame,      \* what a slot holds before its first frame
  Torn          \* what a slot holds while plain stores are under way

ASSUME MarkersAssumption == NoFrame \notin Frames /\ Torn \notin Frames /\ NoFrame # Torn

VARIABLES
  sequence, processed, published, slots,    \* struct SharedInlet
  writer_pc, frame, write, awaited,         \* of publish and of the wait, per writer
  reader_pc, running_, last_sequence_,      \* class Reader
  seen, read_slot, reading,                 \* locals of run(): sequence, slot, what it read
  log,                                      \* history: the frames, in the order of their sequence
  taken                                     \* history: the frames the reader has handled

writerVars == <<writer_pc, frame, write, awaited>>
readerVars == <<reader_pc, running_, last_sequence_, seen, read_slot, reading>>
inletVars  == <<sequence, processed, published, slots, writerVars, readerVars, log, taken>>

kSlots == 2

InletInit ==
  /\ sequence = 0
  /\ processed = 0
  /\ published = 0
  /\ slots = [i \in 0 .. kSlots - 1 |-> NoFrame]
  /\ writer_pc = [w \in Writers |-> "idle"]
  /\ frame = [w \in Writers |-> NoFrame]
  /\ write = [w \in Writers |-> 0]
  /\ awaited = [w \in Writers |-> 0]
  /\ reader_pc = "off"
  /\ running_ = FALSE
  /\ last_sequence_ = 0
  /\ seen = 0
  /\ read_slot = 0
  /\ reading = NoFrame
  /\ log = <<>>
  /\ taken = <<>>

-----------------------------------------------------------------------------
(* publish *)

PublishBegin(w, f) ==
  /\ writer_pc[w] = "idle"
  /\ writer_pc' = [writer_pc EXCEPT ![w] = "copy"]
  /\ frame' = [frame EXCEPT ![w] = f]
  /\ write' = [write EXCEPT ![w] = 1 - published]
  /\ UNCHANGED <<sequence, processed, published, slots, awaited, readerVars, log, taken>>

(* The plain stores into the slot, from the first to the last one. *)
PublishCopy(w) ==
  /\ \/ /\ writer_pc[w] = "copy"
        /\ slots' = [slots EXCEPT ![write[w]] = Torn]
        /\ writer_pc' = [writer_pc EXCEPT ![w] = "copying"]
     \/ /\ writer_pc[w] = "copying"
        /\ slots' = [slots EXCEPT ![write[w]] = frame[w]]
        /\ writer_pc' = [writer_pc EXCEPT ![w] = "index"]
  /\ UNCHANGED <<sequence, processed, published, frame, write, awaited, readerVars, log, taken>>

PublishIndex(w) ==
  /\ writer_pc[w] = "index"
  /\ published' = write[w]
  /\ writer_pc' = [writer_pc EXCEPT ![w] = "sequence"]
  /\ UNCHANGED <<sequence, processed, slots, frame, write, awaited, readerVars, log, taken>>

PublishSequence(w) ==
  /\ writer_pc[w] = "sequence"
  /\ sequence' = sequence + 1
  /\ log' = Append(log, frame[w])
  /\ writer_pc' = [writer_pc EXCEPT ![w] = "load"]
  /\ UNCHANGED <<processed, published, slots, frame, write, awaited, readerVars, taken>>

(* What follows every publish: load the sequence, wait until processed has *)
(* reached it.                                                             *)
LoadAwaited(w) ==
  /\ writer_pc[w] = "load"
  /\ awaited' = [awaited EXCEPT ![w] = sequence]
  /\ writer_pc' = [writer_pc EXCEPT ![w] = "wait"]
  /\ UNCHANGED <<sequence, processed, published, slots, frame, write, readerVars, log, taken>>

(* Mutant: the writer does not wait. *)
WaitUntilProcessedNever(w) ==
  /\ writer_pc[w] = "wait"
  /\ writer_pc' = [writer_pc EXCEPT ![w] = "idle"]
  /\ UNCHANGED <<sequence, processed, published, slots, frame, write, awaited, readerVars, log, taken>>

WaitUntilProcessed(w) ==
  /\ writer_pc[w] = "wait"
  /\ processed >= awaited[w]
  /\ writer_pc' = [writer_pc EXCEPT ![w] = "idle"]
  /\ UNCHANGED <<sequence, processed, published, slots, frame, write, awaited, readerVars, log, taken>>

PublishStep(w) ==
  PublishCopy(w) \/ PublishIndex(w) \/ PublishSequence(w) \/ LoadAwaited(w) \/ WaitUntilProcessed(w)

-----------------------------------------------------------------------------
(* class Reader *)

(* Called with the reader stopped; it skips what was published before. *)
ReaderStart ==
  /\ reader_pc = "off"
  /\ last_sequence_' = sequence
  /\ running_' = TRUE
  /\ reader_pc' = "check"
  /\ UNCHANGED <<sequence, processed, published, slots, writerVars, seen, read_slot, reading, log, taken>>

(* stop, up to the join of the thread. *)
ReaderStop ==
  /\ running_' = FALSE
  /\ UNCHANGED <<sequence, processed, published, slots, writerVars, reader_pc, last_sequence_,
                 seen, read_slot, reading, log, taken>>

ReaderCheck ==
  /\ reader_pc = "check"
  /\ reader_pc' = IF running_ THEN "load" ELSE "off"
  /\ UNCHANGED <<sequence, processed, published, slots, writerVars, running_, last_sequence_,
                 seen, read_slot, reading, log, taken>>

ReaderLoad ==
  /\ reader_pc = "load"
  /\ seen' = sequence
  /\ reader_pc' = IF sequence = last_sequence_ THEN "check" ELSE "slot"
  /\ UNCHANGED <<sequence, processed, published, slots, writerVars, running_, last_sequence_,
                 read_slot, reading, log, taken>>

ReaderSlot ==
  /\ reader_pc = "slot"
  /\ read_slot' = published
  /\ reader_pc' = "header"
  /\ UNCHANGED <<sequence, processed, published, slots, writerVars, running_, last_sequence_,
                 seen, reading, log, taken>>

(* Mutant: the frame is acknowledged before it is ingested. *)
ReaderHeaderAcknowledges ==
  /\ reader_pc = "header"
  /\ reading' = slots[read_slot]
  /\ processed' = seen
  /\ reader_pc' = "ingest"
  /\ UNCHANGED <<sequence, published, slots, writerVars, running_, last_sequence_,
                 seen, read_slot, log, taken>>

ReaderHeader ==
  /\ reader_pc = "header"
  /\ reading' = slots[read_slot]
  /\ reader_pc' = "ingest"
  /\ UNCHANGED <<sequence, processed, published, slots, writerVars, running_, last_sequence_,
                 seen, read_slot, log, taken>>

(* Mutant: a frame that was skipped is not marked as seen. *)
ReaderIngestForgets ==
  /\ reader_pc = "ingest"
  /\ taken' = Append(taken, IF slots[read_slot] = reading THEN reading ELSE Torn)
  /\ reader_pc' = "store"
  /\ UNCHANGED <<sequence, processed, published, slots, writerVars, running_, last_sequence_,
                 seen, read_slot, reading, log>>

(* The payload is parsed in place: what was ingested is the slot as it is  *)
(* when the last byte has been read.  A frame that is skipped (no magic,   *)
(* no or a wrong length, broken lz4) is taken note of like any other.      *)
ReaderIngest ==
  /\ reader_pc = "ingest"
  /\ taken' = Append(taken, IF slots[read_slot] = reading THEN reading ELSE Torn)
  /\ last_sequence_' = seen
  /\ reader_pc' = "store"
  /\ UNCHANGED <<sequence, processed, published, slots, writerVars, running_,
                 seen, read_slot, reading, log>>

ReaderStore ==
  /\ reader_pc = "store"
  /\ processed' = seen
  /\ reader_pc' = "check"
  /\ UNCHANGED <<sequence, published, slots, writerVars, running_, last_sequence_,
                 seen, read_slot, reading, log, taken>>

ReaderStep ==
  ReaderCheck \/ ReaderLoad \/ ReaderSlot \/ ReaderHeader \/ ReaderIngest \/ ReaderStore

-----------------------------------------------------------------------------

InletTypeOK ==
  /\ sequence \in Nat /\ processed \in Nat /\ last_sequence_ \in Nat /\ seen \in Nat
  /\ published \in 0 .. kSlots - 1 /\ read_slot \in 0 .. kSlots - 1
  /\ slots \in [0 .. kSlots - 1 -> Frames \cup {NoFrame, Torn}]
  /\ writer_pc \in [Writers -> {"idle", "copy", "copying", "index", "sequence", "load", "wait"}]
  /\ frame \in [Writers -> Frames \cup {NoFrame}]
  /\ write \in [Writers -> 0 .. kSlots - 1]
  /\ awaited \in [Writers -> Nat]
  /\ reader_pc \in {"off", "check", "load", "slot", "header", "ingest", "store"}
  /\ running_ \in BOOLEAN
  /\ reading \in Frames \cup {NoFrame, Torn}
  /\ log \in Seq(Frames)
  /\ taken \in Seq(Frames \cup {NoFrame, Torn})

(* "Index of the slot that is safe to read after observing sequence"       *)
(* (shared_inlet.hpp:63): no writer touches the slot the reader is in.     *)
SafeToRead ==
  reader_pc \in {"header", "ingest"} =>
    \A w \in Writers : writer_pc[w] \in {"copy", "copying"} => write[w] # read_slot

(* The reader handles every published frame, whole, once and in order; at  *)
(* most the last one is still to come, and processed never claims a frame  *)
(* the reader has not handled: who stops waiting is told the truth.        *)
HandedOverInOrder ==
  /\ Len(log) = sequence
  /\ Len(taken) \in {Len(log), Len(log) - 1}
  /\ taken = SubSeq(log, 1, Len(taken))
  /\ processed <= Len(taken)
  /\ \A w \in Writers : writer_pc[w] = "wait" /\ processed >= awaited[w] =>
       frame[w] = taken[awaited[w]]

Calling == {w \in Writers : writer_pc[w] # "idle"}

Calls == {[writer |-> w, frame |-> frame[w]] : w \in Calling}

Place ==
  IF Calling = {} THEN "nowhere"
  ELSE IF \E w \in Calling : writer_pc[w] \notin {"load", "wait"} THEN "writer"
  ELSE IF Len(taken) < Len(log) THEN "inlet" ELSE "reader"

OneFrame == INSTANCE HandOff WITH
  calls   <- Calls,
  place   <- Place,
  handled <- taken

(* While one thread writes at a time, two slots and three counters are a   *)
(* hand-over of one frame: it is handled between its call and its return,  *)
(* and nothing else is.                                                    *)
ImplementsHandOff == OneFrame!Spec
=============================================================================
