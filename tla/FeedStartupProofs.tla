-------------------------- MODULE FeedStartupProofs --------------------------
(***************************************************************************)
(* Proofs about FeedStartup and the SharedInlet and Sockets in it, for any *)
(* number of frames, channels and regions, with main alone on its groups:  *)
(* one thread writes at a time, the inlet hands over every frame once, no  *)
(* thread loses what it uses, no handle leaks, and no frame is missing.    *)
(***************************************************************************)
EXTENDS FeedStartup, SequenceTheorems, FiniteSetTheorems, WellFoundedInduction, TLAPS

-----------------------------------------------------------------------------
(* The inductive invariant, part by part.                                  *)

(* Where main is. *)
BeforeHub     == {"map", "abort", "start_hub", "undo_hub", "start_thread"}
Multicast     == {"send", "poll", "decide", "stop_hub", "join_hub"}
BeforeWriting == BeforeHub \cup {"start_sim"} \cup Multicast
ReaderLives   == {"start_hub", "undo_hub", "start_thread", "start_sim", "publish", "lz4", "lz4_wait",
                  "stop_sim", "stop_reader", "join_reader", "quit_reader", "join_quit_reader"} \cup Multicast
SimulatorGone == {"destroy_hub", "join_destroyed_hub", "destroy_reader", "join_destroyed_reader",
                  "unmap", "exit"}
HubGone       == {"destroy_reader", "join_destroyed_reader", "unmap", "exit"}

(* Where a writer is: in the middle of publish, or waiting for the reader. *)
Publishing == {"copy", "copying", "index", "sequence"}
Waiting    == {"load", "wait"}

HubQuiet  == hub_pc \in {"off", "copy", "check", "poll"}
RegionSet == {Regions[i] : i \in DOMAIN Regions}

(* Who may be doing what while main is where it is.  Datagrams wait, and   *)
(* the hub writes, only from the first send to the join.                   *)
ControlInv ==
  /\ writer_pc[Main] # "idle" => main_pc \in {"publish", "lz4_wait"}
  /\ hub_pc \in {"off", "copy", "check", "poll", "recv"} => writer_pc[Hub] = "idle"
  /\ hub_pc = "publish" => writer_pc[Hub] \in Publishing
  /\ hub_pc = "count" => writer_pc[Hub] = "load"
  /\ hub_pc = "wait" => writer_pc[Hub] \in Waiting
  /\ main_pc \notin Multicast => sockets = {} /\ HubQuiet
  /\ hub_pc # "off" => inlet_ /\ main_pc \notin BeforeHub \cup HubGone
  /\ reader_pc # "off" => main_pc \in ReaderLives

(* The reader is at most one frame behind, and not behind at all when      *)
(* nobody waits for it.                                                    *)
ReaderInv ==
  /\ processed \in {sequence, sequence - 1}
  /\ processed = sequence =>
       /\ last_sequence_ = sequence
       /\ reader_pc \in {"off", "check", "load"}
  /\ processed # sequence =>
       /\ \E w \in Writers : writer_pc[w] \in Waiting
       /\ last_sequence_ = IF reader_pc = "store" THEN sequence ELSE sequence - 1
  /\ reader_pc \in {"slot", "header", "ingest", "store"} => seen = sequence
  /\ reader_pc \in {"header", "ingest"} => read_slot = published
  /\ reader_pc = "ingest" => reading = slots[published]

(* What a writer has done so far. *)
WriterInv ==
  \A w \in Writers :
    /\ writer_pc[w] # "idle" => frame[w] \in Frames
    /\ writer_pc[w] \in {"copy", "copying", "index"} => write[w] = 1 - published
    /\ writer_pc[w] \in {"index", "sequence"} => slots[write[w]] = frame[w]
    /\ writer_pc[w] = "sequence" => write[w] = published
    /\ writer_pc[w] \in Waiting =>
         sequence > 0 /\ log[sequence] = frame[w] /\ slots[published] = frame[w]
    /\ writer_pc[w] = "wait" => awaited[w] = sequence

HistoryInv ==
  /\ Len(log) = sequence
  /\ Len(taken) = last_sequence_
  /\ \A i \in 1 .. Len(taken) : taken[i] = log[i]

InletInv == ReaderInv /\ WriterInv /\ HistoryInv

(* Each open descriptor is that of one socket. *)
DescriptorsInv ==
  /\ IsFiniteSet(open_fds)
  /\ open_fds = {fd_[s] : s \in Endpoints} \ {Closed}
  /\ \A s, r \in Endpoints : fd_[s] = fd_[r] /\ IsOpen(s) => s = r

(* Sockets are open as long as somebody uses them, and closed at the end. *)
OpenInv ==
  /\ hub_pc # "off" \/ main_pc = "start_thread" => \A c \in ChannelSet : IsOpen(<<Hub, c>>)
  /\ hub_pc \notin {"off", "copy"} => \A c \in ChannelSet : descriptors[c] = fd_[<<Hub, c>>]
  /\ main_pc \in SimulatorGone => \A c \in ChannelSet : ~ IsOpen(<<Simulator, c>>)
  /\ main_pc \in HubGone => \A c \in ChannelSet : ~ IsOpen(<<Hub, c>>)

(* So are the regions mapped. *)
MappedInv ==
  /\ main_pc = "map" =>
       next > 0 /\ next <= Len(Regions) + 1 /\ mapped = {Regions[i] : i \in 1 .. next - 1}
  /\ main_pc \notin {"map", "abort", "unmap", "exit"} => mapped = RegionSet
  /\ main_pc = "exit" => mapped = {}

(* Main starts each run through its frames at the first. *)
NextInv ==
  /\ main_pc \in {"start_hub", "undo_hub", "start_thread", "start_sim", "poll", "decide", "stop_hub", "join_hub"} =>
       next = 1
  /\ main_pc \in {"send", "publish"} => next > 0 /\ next <= Len(SimFrames) + 1

(* Which frames have got how far: sent, in the hand of a writer, logged. *)
Sent ==
  IF main_pc = "send" THEN {SimFrames[i] : i \in 1 .. next - 1}
  ELSE IF main_pc \in Multicast THEN SimFrameSet ELSE {}

Logged      == {log[i] : i \in DOMAIN log}
InHand(w)   == IF writer_pc[w] \in Publishing THEN {frame[w]} ELSE {}
Counted     == Logged \ (IF hub_pc = "count" THEN {frame[Hub]} ELSE {})
On(c, S)    == {f \in S : Channel[f] = c}
LoggedOnce  == \A i, j \in DOMAIN log : log[i] = log[j] => i = j

(* Until the hub is joined a frame that was sent is lost, or in a socket,  *)
(* or in the hub's hand, or in the log, and there once, and the hub counts *)
(* those of each channel.                                                  *)
MulticastInv ==
  main_pc \in BeforeWriting =>
    /\ LoggedOnce
    /\ sockets \subseteq Sent /\ Logged \subseteq Sent /\ InHand(Hub) \subseteq Sent
    /\ sockets \cap Logged = {} /\ InHand(Hub) \cap (sockets \cup Logged) = {}
    /\ hub_pc = "count" => frame[Hub] \in Logged
    /\ \A c \in ChannelSet : datagrams[c] = Cardinality(On(c, Counted))

(* When main believes that all came by multicast, all have; what it adds   *)
(* by itself it adds to the log.                                           *)
AllReceived ==
  /\ main_pc \notin (BeforeWriting \ {"stop_hub", "join_hub"}) \cup {"publish"}
  /\ main_pc \in {"stop_hub", "join_hub", "lz4"} => Logged = SimFrameSet
  /\ main_pc = "lz4_wait" /\ writer_pc[Main] \in Publishing => Logged = SimFrameSet
  /\ LoggedOnce

ReceivedInv == multicast_received => AllReceived

DirectInv ==
  /\ main_pc = "publish" => \A i \in 1 .. next - 1 : SimFrames[i] \in Logged \cup InHand(Main)
  /\ main_pc \in {"lz4", "lz4_wait", "stop_sim", "stop_reader", "join_reader", "trade"} =>
       SimFrameSet \subseteq Logged
  /\ main_pc = "lz4_wait" => Lz4Frame \in Logged \cup InHand(Main)
  /\ main_pc = "lz4_wait" /\ writer_pc[Main] \in Publishing => frame[Main] = Lz4Frame
  /\ main_pc \in {"stop_sim", "stop_reader", "join_reader", "trade"} => Lz4Frame \in Logged

FeedInv ==
  /\ TypeOK
  /\ ControlInv /\ InletInv
  /\ DescriptorsInv /\ OpenInv /\ MappedInv
  /\ NextInv /\ MulticastInv /\ ReceivedInv /\ DirectInv

-----------------------------------------------------------------------------
(* Sockets.                                                                *)

(* A set of naturals that is not empty has a least element. *)
LEMMA LeastElement ==
  ASSUME NEW S \in SUBSET Nat, S # {}
  PROVE  \E d \in S : \A e \in S : d <= e
<1> DEFINE Below == {p \in Nat \X Nat : p[1] < p[2]}
<1>1. IsWellFoundedOn(Below, Nat)
  BY NatLessThanWellFounded DEF OpToRel
<1>2. \E d \in S : \A e \in S : ~ (<<e, d>> \in Below)
  BY <1>1, WFMin
<1>3. PICK d \in S : \A e \in S : ~ (<<e, d>> \in Below)
  BY <1>2
<1>4. ASSUME NEW e \in S PROVE d <= e
  <2>1. e \in Nat /\ d \in Nat /\ <<e, d>> \notin Below
    BY <1>3
  <2> QED
    BY <2>1
<1> QED
  BY <1>4

(* Of one descriptor more than are held, one is free. *)
LEMMA FreeDescriptorExists ==
  ASSUME NEW held, IsFiniteSet(held)
  PROVE  \E d \in FirstFree .. FirstFree + Cardinality(held) : d \notin held
<1> DEFINE range == FirstFree .. FirstFree + Cardinality(held)
<1>1. FirstFree \in Nat /\ Cardinality(held) \in Nat
  BY DescriptorAssumption, FS_CardinalityType
<1>2. Cardinality(range) = Cardinality(held) + 1
  BY <1>1, FS_Interval
<1>3. SUFFICES ASSUME range \subseteq held PROVE FALSE
  OBVIOUS
<1>4. Cardinality(range) <= Cardinality(held)
  BY <1>3, FS_Subset
<1> QED
  BY <1>1, <1>2, <1>4

(* ::socket returns a descriptor that nobody holds. *)
LEMMA NextDescriptorIsFree ==
  ASSUME NEW held, IsFiniteSet(held)
  PROVE  NextDescriptor(held) \in Nat /\ NextDescriptor(held) \notin held
<1> DEFINE range == FirstFree .. FirstFree + Cardinality(held)
           free  == {d \in range : d \notin held}
<1>1. FirstFree \in Nat /\ Cardinality(held) \in Nat
  BY DescriptorAssumption, FS_CardinalityType
<1>2. free \subseteq Nat /\ free # {}
  BY <1>1, FreeDescriptorExists
<1>3. PICK d \in free : \A e \in free : d <= e
  BY <1>2, LeastElement
<1>4. \A e \in FirstFree .. d - 1 : e \in held
  <2> SUFFICES ASSUME NEW e \in FirstFree .. d - 1, e \notin held PROVE FALSE
    OBVIOUS
  <2>1. d \in range /\ d \in Int /\ e \in range
    BY <1>1
  <2>2. d <= e
    BY <1>3, <2>1
  <2> QED
    BY <1>1, <2>1, <2>2
<1>5. \E x \in range : x \notin held /\ \A e \in FirstFree .. x - 1 : e \in held
  BY <1>3, <1>4
<1>6. NextDescriptor(held) \in range /\ NextDescriptor(held) \notin held
  BY <1>5 DEF NextDescriptor
<1> QED
  BY <1>1, <1>6

LEMMA OpenSucceedsKeeps ==
  ASSUME SocketsTypeOK, DescriptorsInv, NEW s \in Endpoints, OpenSucceeds(s)
  PROVE  SocketsTypeOK' /\ DescriptorsInv' /\ IsOpen(s)' /\ (\A r \in Endpoints \ {s} : fd_'[r] = fd_[r])
<1> DEFINE others == open_fds \ {fd_[s]}
           fd     == NextDescriptor(others)
<1>1. IsFiniteSet(others)
  BY FS_RemoveElement DEF DescriptorsInv
<1>2. fd \in Nat /\ fd \notin others
  BY <1>1, NextDescriptorIsFree
<1>3. fd_' = [fd_ EXCEPT ![s] = fd] /\ open_fds' = others \cup {fd}
  BY DEF OpenSucceeds
<1> HIDE DEF fd
<1>4. SocketsTypeOK'
  BY <1>2, <1>3 DEF SocketsTypeOK
<1>5. fd_'[s] = fd /\ \A r \in Endpoints \ {s} : fd_'[r] = fd_[r]
  BY <1>3 DEF SocketsTypeOK
<1>6. \A r \in Endpoints \ {s} : fd_[r] # Closed => fd_[r] \in others
  BY DEF DescriptorsInv, IsOpen
<1>7. others = {fd_[r] : r \in Endpoints \ {s}} \ {Closed}
  BY <1>6 DEF DescriptorsInv, IsOpen
<1>8. fd # Closed
  BY <1>2 DEF Closed
<1>9. open_fds' = {fd_'[r] : r \in Endpoints} \ {Closed}
  <2>1. open_fds' = ({fd_[r] : r \in Endpoints \ {s}} \ {Closed}) \cup {fd}
    BY <1>3, <1>7
  <2>2. {fd_[r] : r \in Endpoints \ {s}} = {fd_'[r] : r \in Endpoints \ {s}}
    BY <1>5
  <2>3. {fd_'[r] : r \in Endpoints} = {fd_'[r] : r \in Endpoints \ {s}} \cup {fd}
    BY <1>5
  <2> QED
    BY <1>8, <2>1, <2>2, <2>3
<1>10. \A q, r \in Endpoints : fd_'[q] = fd_'[r] /\ fd_'[q] # Closed => q = r
  BY <1>2, <1>5, <1>6 DEF DescriptorsInv, IsOpen
<1>11. IsFiniteSet(open_fds')
  BY <1>1, <1>3, FS_AddElement
<1> QED
  BY <1>4, <1>5, <1>8, <1>9, <1>10, <1>11 DEF DescriptorsInv, IsOpen

LEMMA CloseAllKeeps ==
  ASSUME SocketsTypeOK, DescriptorsInv, NEW S \in SUBSET Endpoints, CloseAll(S)
  PROVE  SocketsTypeOK' /\ DescriptorsInv' /\ \A s \in Endpoints : fd_'[s] = IF s \in S THEN Closed ELSE fd_[s]
<1>1. \A s \in Endpoints : fd_'[s] = IF s \in S THEN Closed ELSE fd_[s]
  BY DEF CloseAll
<1>2. open_fds' = open_fds \ {fd_[s] : s \in S}
  BY DEF CloseAll
<1>3. SocketsTypeOK'
  BY <1>2 DEF SocketsTypeOK, CloseAll
<1>4. \A s \in Endpoints \ S : fd_[s] # Closed => fd_[s] \notin {fd_[r] : r \in S}
  BY DEF DescriptorsInv, IsOpen
<1>5. open_fds' = {fd_'[s] : s \in Endpoints} \ {Closed}
  <2>1. open_fds' = {fd_[s] : s \in Endpoints \ S} \ {Closed}
    BY <1>2, <1>4 DEF DescriptorsInv
  <2>2. ASSUME NEW s \in Endpoints PROVE fd_'[s] # Closed <=> s \notin S /\ fd_[s] # Closed
    BY <1>1
  <2> QED
    BY <1>1, <2>1, <2>2
<1>6. \A q, r \in Endpoints : fd_'[q] = fd_'[r] /\ fd_'[q] # Closed => q = r
  BY <1>1 DEF DescriptorsInv, IsOpen
<1>7. IsFiniteSet(open_fds')
  BY <1>2, FS_Subset DEF DescriptorsInv
<1> QED
  BY <1>1, <1>3, <1>5, <1>6, <1>7 DEF DescriptorsInv, IsOpen

LEMMA OpenFailsKeeps ==
  ASSUME SocketsTypeOK, DescriptorsInv, NEW s \in Endpoints, OpenFails(s)
  PROVE  SocketsTypeOK' /\ DescriptorsInv' /\ (\A r \in Endpoints : fd_'[r] = IF r = s THEN Closed ELSE fd_[r])
<1>1. CloseAll({s})
  BY DEF OpenFails, CloseAll, SocketsTypeOK
<1> QED
  BY <1>1, CloseAllKeeps

-----------------------------------------------------------------------------
(* The inlet.  Each step keeps it in order if no other writer is at work.  *)

Alone(w) == \A v \in Writers \ {w} : writer_pc[v] = "idle"

LEMMA LogFacts ==
  ASSUME InletTypeOK, HistoryInv
  PROVE  /\ Len(log) \in Nat /\ DOMAIN log = 1 .. sequence
         /\ Len(taken) \in Nat /\ DOMAIN taken = 1 .. last_sequence_
<1> QED
  BY LenProperties DEF InletTypeOK, HistoryInv

(* The reader is level with the log while nobody waits for it. *)
LEMMA NothingPending ==
  ASSUME ReaderInv, \A v \in Writers : writer_pc[v] \notin Waiting
  PROVE  processed = sequence /\ last_sequence_ = sequence /\ reader_pc \in {"off", "check", "load"}
<1> QED
  BY DEF ReaderInv

(* What is pending is whole, and in the slot that is published. *)
LEMMA PendingIsPublished ==
  ASSUME ReaderInv, WriterInv, processed # sequence
  PROVE  sequence > 0 /\ slots[published] = log[sequence]
<1> QED
  BY DEF ReaderInv, WriterInv

LEMMA PublishBeginKeeps ==
  ASSUME InletTypeOK, InletInv, NEW w \in Writers, NEW f \in Frames, Alone(w), PublishBegin(w, f)
  PROVE  InletTypeOK' /\ InletInv'
<1> USE DEF PublishBegin, readerVars
<1>1. writer_pc[w] = "idle" /\ writer_pc' = [writer_pc EXCEPT ![w] = "copy"]
  OBVIOUS
<1>2. 1 - published \in 0 .. kSlots - 1
  BY DEF InletTypeOK, kSlots
<1>3. InletTypeOK'
  BY <1>2 DEF InletTypeOK
<1>4. ReaderInv'
  BY <1>1, NothingPending DEF InletInv, ReaderInv, Alone, Waiting, InletTypeOK
<1>5. WriterInv'
  BY DEF InletInv, WriterInv, InletTypeOK, Alone, Waiting
<1>6. HistoryInv'
  BY DEF InletInv, HistoryInv
<1> QED
  BY <1>3, <1>4, <1>5, <1>6 DEF InletInv

LEMMA PublishCopyKeeps ==
  ASSUME InletTypeOK, InletInv, NEW w \in Writers, Alone(w), PublishCopy(w)
  PROVE  InletTypeOK' /\ InletInv'
<1> USE DEF PublishCopy, readerVars
<1>1. \A v \in Writers : writer_pc[v] \notin Waiting
  BY DEF Alone, Waiting
<1>2. processed = sequence /\ last_sequence_ = sequence /\ reader_pc \in {"off", "check", "load"}
  BY <1>1, NothingPending DEF InletInv
<1>3. write[w] = 1 - published /\ frame[w] \in Frames
  BY DEF InletInv, WriterInv
<1>4. \A v \in Writers : writer_pc'[v] \notin Waiting
  BY <1>1 DEF InletTypeOK, Waiting
<1>5. InletTypeOK'
  BY <1>3 DEF InletTypeOK
<1>6. ReaderInv'
  BY <1>2 DEF InletInv, ReaderInv, InletTypeOK
<1>7. WriterInv'
  <2>1. write[w] \in DOMAIN slots
    BY <1>3 DEF InletTypeOK
  <2>2. \A v \in Writers \ {w} : writer_pc'[v] = "idle"
    BY DEF Alone, InletTypeOK
  <2>3. \/ writer_pc'[w] = "copying"
        \/ writer_pc'[w] = "index" /\ slots'[write[w]] = frame[w]
    BY <2>1 DEF InletTypeOK
  <2> QED
    BY <1>3, <2>2, <2>3 DEF WriterInv, Waiting
<1>8. HistoryInv'
  BY DEF InletInv, HistoryInv
<1> QED
  BY <1>5, <1>6, <1>7, <1>8 DEF InletInv

LEMMA PublishIndexKeeps ==
  ASSUME InletTypeOK, InletInv, NEW w \in Writers, Alone(w), PublishIndex(w)
  PROVE  InletTypeOK' /\ InletInv'
<1> USE DEF PublishIndex, readerVars
<1>1. \A v \in Writers : writer_pc[v] \notin Waiting
  BY DEF Alone, Waiting
<1>2. processed = sequence /\ last_sequence_ = sequence /\ reader_pc \in {"off", "check", "load"}
  BY <1>1, NothingPending DEF InletInv
<1>3. \A v \in Writers : writer_pc'[v] \notin Waiting
  BY <1>1 DEF InletTypeOK, Waiting
<1>4. InletTypeOK'
  BY DEF InletTypeOK
<1>5. ReaderInv'
  BY <1>2 DEF InletInv, ReaderInv, InletTypeOK
<1>6. WriterInv'
  BY <1>3 DEF InletInv, WriterInv, InletTypeOK, Alone
<1>7. HistoryInv'
  BY DEF InletInv, HistoryInv
<1> QED
  BY <1>4, <1>5, <1>6, <1>7 DEF InletInv

LEMMA PublishSequenceKeeps ==
  ASSUME InletTypeOK, InletInv, NEW w \in Writers, Alone(w), PublishSequence(w)
  PROVE  InletTypeOK' /\ InletInv'
<1> USE DEF PublishSequence, readerVars
<1>1. \A v \in Writers : writer_pc[v] \notin Waiting
  BY DEF Alone, Waiting
<1>2. processed = sequence /\ last_sequence_ = sequence /\ reader_pc \in {"off", "check", "load"}
  BY <1>1, NothingPending DEF InletInv
<1>3. frame[w] \in Frames /\ slots[published] = frame[w]
  BY DEF InletInv, WriterInv
<1>4. sequence \in Nat /\ Len(log) = sequence /\ log \in Seq(Frames)
  BY DEF InletTypeOK, InletInv, HistoryInv
<1>5. log' \in Seq(Frames) /\ Len(log') = sequence' /\ log'[sequence'] = frame[w]
  BY <1>3, <1>4, AppendProperties
<1>6. \A i \in 1 .. sequence : log'[i] = log[i]
  BY <1>3, <1>4, AppendProperties
<1>7. writer_pc'[w] = "load" /\ \A v \in Writers \ {w} : writer_pc'[v] = "idle"
  BY DEF InletTypeOK, Alone
<1>8. InletTypeOK'
  BY <1>4, <1>5 DEF InletTypeOK
<1>9. ReaderInv'
  BY <1>2, <1>4, <1>7 DEF InletInv, ReaderInv, InletTypeOK, Waiting
<1>10. WriterInv'
  BY <1>3, <1>4, <1>5, <1>7 DEF WriterInv, Waiting
<1>11. HistoryInv'
  BY <1>2, <1>4, <1>5, <1>6 DEF InletInv, HistoryInv
<1> QED
  BY <1>8, <1>9, <1>10, <1>11 DEF InletInv

LEMMA LoadAwaitedKeeps ==
  ASSUME InletTypeOK, InletInv, NEW w \in Writers, Alone(w), LoadAwaited(w)
  PROVE  InletTypeOK' /\ InletInv'
<1> USE DEF LoadAwaited, readerVars
<1>1. writer_pc'[w] = "wait" /\ \A v \in Writers \ {w} : writer_pc'[v] = "idle"
  BY DEF InletTypeOK, Alone
<1>2. InletTypeOK'
  BY DEF InletTypeOK
<1>3. ReaderInv'
  BY <1>1 DEF InletInv, ReaderInv, InletTypeOK, Waiting
<1>4. WriterInv'
  BY <1>1 DEF InletInv, WriterInv, InletTypeOK, Waiting
<1>5. HistoryInv'
  BY DEF InletInv, HistoryInv
<1> QED
  BY <1>2, <1>3, <1>4, <1>5 DEF InletInv

(* Who stops waiting leaves nothing pending. *)
LEMMA WaitUntilProcessedKeeps ==
  ASSUME InletTypeOK, InletInv, NEW w \in Writers, Alone(w), WaitUntilProcessed(w)
  PROVE  InletTypeOK' /\ InletInv' /\ \A v \in Writers : writer_pc'[v] = "idle"
<1> USE DEF WaitUntilProcessed, readerVars
<1>1. awaited[w] = sequence /\ processed >= awaited[w]
  BY DEF InletInv, WriterInv
<1>2. processed = sequence
  BY <1>1 DEF InletInv, ReaderInv, InletTypeOK
<1>3. \A v \in Writers : writer_pc'[v] = "idle"
  BY DEF InletTypeOK, Alone
<1>4. InletTypeOK'
  BY DEF InletTypeOK
<1>5. ReaderInv'
  BY <1>2 DEF InletInv, ReaderInv
<1>6. WriterInv'
  BY <1>3 DEF WriterInv, Waiting
<1>7. HistoryInv'
  BY DEF InletInv, HistoryInv
<1> QED
  BY <1>3, <1>4, <1>5, <1>6, <1>7 DEF InletInv

(* How a writer moves, the other one staying where it is. *)
Moves(w, from, to) ==
  /\ writer_pc[w] \in from /\ writer_pc'[w] \in to
  /\ \A v \in Writers \ {w} : writer_pc'[v] = writer_pc[v]

LEMMA WriterMoves ==
  ASSUME InletTypeOK, NEW w \in Writers
  PROVE  /\ \A f : PublishBegin(w, f) => Moves(w, {"idle"}, {"copy"})
         /\ PublishCopy(w) \/ PublishIndex(w) => Moves(w, Publishing, Publishing)
         /\ PublishSequence(w) => Moves(w, {"sequence"}, {"load"})
         /\ LoadAwaited(w) => Moves(w, {"load"}, {"wait"})
         /\ WaitUntilProcessed(w) => Moves(w, {"wait"}, {"idle"})
<1> USE DEF InletTypeOK, Moves
<1>1. \A f : PublishBegin(w, f) => Moves(w, {"idle"}, {"copy"})
  BY DEF PublishBegin
<1>2. PublishCopy(w) => Moves(w, Publishing, Publishing)
  BY DEF PublishCopy, Publishing
<1>3. PublishIndex(w) => Moves(w, Publishing, Publishing)
  BY DEF PublishIndex, Publishing
<1>4. PublishSequence(w) => Moves(w, {"sequence"}, {"load"})
  BY DEF PublishSequence
<1>5. LoadAwaited(w) => Moves(w, {"load"}, {"wait"})
  BY DEF LoadAwaited
<1>6. WaitUntilProcessed(w) => Moves(w, {"wait"}, {"idle"})
  BY DEF WaitUntilProcessed
<1> QED
  BY <1>1, <1>2, <1>3, <1>4, <1>5, <1>6

LEMMA PublishStepKeeps ==
  ASSUME InletTypeOK, InletInv, NEW w \in Writers, Alone(w), PublishStep(w)
  PROVE  InletTypeOK' /\ InletInv'
<1> QED
  BY PublishCopyKeeps, PublishIndexKeeps, PublishSequenceKeeps, LoadAwaitedKeeps,
     WaitUntilProcessedKeeps DEF PublishStep

LEMMA ReaderStartKeeps ==
  ASSUME InletTypeOK, InletInv, \A v \in Writers : writer_pc[v] = "idle", ReaderStart
  PROVE  InletTypeOK' /\ InletInv'
<1> USE DEF ReaderStart, writerVars
<1>1. processed = sequence /\ last_sequence_ = sequence
  BY NothingPending DEF InletInv, Waiting
<1>2. InletTypeOK'
  BY DEF InletTypeOK
<1>3. ReaderInv'
  BY <1>1 DEF ReaderInv
<1>4. WriterInv' /\ HistoryInv'
  BY <1>1 DEF InletInv, WriterInv, HistoryInv
<1> QED
  BY <1>2, <1>3, <1>4 DEF InletInv

LEMMA ReaderStopKeeps ==
  ASSUME InletTypeOK, InletInv, ReaderStop
  PROVE  InletTypeOK' /\ InletInv'
<1> QED
  BY DEF ReaderStop, writerVars, InletTypeOK, InletInv, ReaderInv, WriterInv, HistoryInv

(* Ingesting takes note of the last frame of the log. *)
LEMMA ReaderIngestKeeps ==
  ASSUME InletTypeOK, InletInv, ReaderIngest
  PROVE  InletTypeOK' /\ InletInv'
<1> USE DEF ReaderIngest, writerVars
<1>1. processed # sequence /\ seen = sequence /\ last_sequence_ = sequence - 1
  BY DEF InletInv, ReaderInv
<1>2. slots[read_slot] = log[sequence] /\ reading = log[sequence] /\ sequence > 0
  BY <1>1, PendingIsPublished DEF InletInv, ReaderInv
<1>3. log[sequence] \in Frames
  BY <1>1, <1>2, ElementOfSeq DEF InletTypeOK, InletInv, HistoryInv
<1>4. taken' = Append(taken, log[sequence]) /\ taken \in Seq(Frames \cup {NoFrame, Torn})
  BY <1>2 DEF InletTypeOK
<1>5. Len(taken) = sequence - 1 /\ sequence \in Nat
  BY <1>1 DEF InletInv, HistoryInv, InletTypeOK
<1>6. /\ taken' \in Seq(Frames \cup {NoFrame, Torn})
      /\ Len(taken') = sequence
      /\ taken'[sequence] = log[sequence]
      /\ \A i \in 1 .. sequence - 1 : taken'[i] = taken[i]
  BY <1>3, <1>4, <1>5, AppendProperties
<1>7. InletTypeOK'
  BY <1>6 DEF InletTypeOK
<1>8. ReaderInv'
  BY <1>1 DEF InletInv, ReaderInv
<1>9. WriterInv'
  BY DEF InletInv, WriterInv
<1>10. HistoryInv'
  BY <1>1, <1>5, <1>6 DEF InletInv, HistoryInv
<1> QED
  BY <1>7, <1>8, <1>9, <1>10 DEF InletInv

LEMMA ReaderStepKeeps ==
  ASSUME InletTypeOK, InletInv, ReaderStep
  PROVE  InletTypeOK' /\ InletInv'
<1>1. CASE ReaderCheck
  BY <1>1 DEF ReaderCheck, writerVars, InletTypeOK, InletInv, ReaderInv, WriterInv, HistoryInv
<1>2. CASE ReaderLoad
  <2>1. InletTypeOK'
    BY <1>2 DEF ReaderLoad, writerVars, InletTypeOK
  <2>2. ReaderInv'
    BY <1>2 DEF ReaderLoad, writerVars, InletInv, ReaderInv, InletTypeOK
  <2>3. WriterInv' /\ HistoryInv'
    BY <1>2 DEF ReaderLoad, writerVars, InletInv, WriterInv, HistoryInv
  <2> QED
    BY <2>1, <2>2, <2>3 DEF InletInv
<1>3. CASE ReaderSlot
  BY <1>3 DEF ReaderSlot, writerVars, InletTypeOK, InletInv, ReaderInv, WriterInv, HistoryInv
<1>4. CASE ReaderHeader
  BY <1>4 DEF ReaderHeader, writerVars, InletTypeOK, InletInv, ReaderInv, WriterInv, HistoryInv
<1>5. CASE ReaderIngest
  BY <1>5, ReaderIngestKeeps
<1>6. CASE ReaderStore
  BY <1>6 DEF ReaderStore, writerVars, InletTypeOK, InletInv, ReaderInv, WriterInv, HistoryInv
<1> QED
  BY <1>1, <1>2, <1>3, <1>4, <1>5, <1>6 DEF ReaderStep

-----------------------------------------------------------------------------
(* Main's steps.                                                           *)

LEMMA StopHubGoes ==
  (\E call \in HubStops : MainGoto(call[1], call[2])) =>
    \/ main_pc = "stop_hub" /\ main_pc' = "join_hub"
    \/ main_pc = "quit_hub" /\ main_pc' = "join_quit_hub"
    \/ main_pc = "destroy_hub" /\ main_pc' = "join_destroyed_hub"
<1> QED
  BY DEF HubStops, MainGoto

LEMMA StopReaderGoes ==
  (\E call \in ReaderStops : MainGoto(call[1], call[2])) =>
    \/ main_pc = "stop_reader" /\ main_pc' = "join_reader"
    \/ main_pc = "quit_reader" /\ main_pc' = "join_quit_reader"
    \/ main_pc = "destroy_reader" /\ main_pc' = "join_destroyed_reader"
<1> QED
  BY DEF ReaderStops, MainGoto

LEMMA StopPcs ==
  UNION {{call[1], call[2]} : call \in HubStops \cup ReaderStops} =
    {"stop_hub", "join_hub", "quit_hub", "join_quit_hub", "destroy_hub", "join_destroyed_hub",
     "stop_reader", "join_reader", "quit_reader", "join_quit_reader", "destroy_reader",
     "join_destroyed_reader"}
<1> QED
  BY DEF HubStops, ReaderStops

(* One writer: main writes only when no datagram can reach the hub. *)
LEMMA OnlyMainWrites ==
  ASSUME ControlInv, main_pc \notin Multicast
  PROVE  Alone(Main)
<1> QED
  BY WritersAssumption DEF ControlInv, HubQuiet, Alone

LEMMA OnlyHubWrites ==
  ASSUME ControlInv, main_pc \in Multicast
  PROVE  Alone(Hub)
<1> QED
  BY WritersAssumption DEF ControlInv, Multicast, Alone

LEMMA HubAtWork ==
  ASSUME ControlInv, hub_pc \in {"recv", "publish", "count", "wait"}
  PROVE  main_pc \in Multicast
<1> QED
  BY DEF ControlInv, HubQuiet

-----------------------------------------------------------------------------
(* Who may be doing what.                                                  *)

LEMMA ControlKeptByMain ==
  ASSUME FeedInv, MainStep
  PROVE  ControlInv'
<1>1. ControlInv /\ InletTypeOK
  BY DEF FeedInv, TypeOK
<1> USE DEF BeforeHub, Multicast, ReaderLives, HubGone, HubQuiet, inletVars, writerVars, readerVars,
            hubVars, netVars, MainGoto
<1>2. CASE MapRegion
  BY <1>1, <1>2 DEF MapRegion, ControlInv
<1>3. CASE StartReader
  BY <1>1, <1>3 DEF StartReader, ReaderStart, ControlInv
<1>4. CASE OpenHub
  BY <1>1, <1>4 DEF OpenHub, OpenNextOf, ControlInv
<1>5. CASE UndoHub
  BY <1>1, <1>5 DEF UndoHub, ControlInv
<1>6. CASE StartHubThread
  BY <1>1, <1>6 DEF StartHubThread, ControlInv
<1>7. CASE OpenSimulator
  BY <1>1, <1>7 DEF OpenSimulator, OpenNextOf, ControlInv
<1>8. CASE SendDatagram \/ AllSent \/ StopPolling \/ Decide
  BY <1>1, <1>8 DEF SendDatagram, AllSent, StopPolling, Decide, ControlInv
<1>9. CASE StopHub
  BY <1>1, <1>9, StopHubGoes DEF StopHub, ControlInv
<1>10. CASE JoinHub
  BY <1>1, <1>10 DEF JoinHub, AfterJoinHub, ControlInv
<1>11. CASE PublishDirectly \/ PublishLz4
  <2>1. PICK f : PublishBegin(Main, f)
    BY <1>11 DEF PublishDirectly, PublishLz4
  <2>2. writer_pc'[Hub] = writer_pc[Hub] /\ reader_pc' = reader_pc
    BY <1>1, <2>1, WritersAssumption, WriterMoves DEF PublishBegin, Moves, Main, Hub
  <2>3. UNCHANGED <<hub_pc, inlet_, sockets>>
    BY <1>11 DEF PublishDirectly, PublishLz4
  <2>4. \/ main_pc = "publish" /\ main_pc' = "publish"
        \/ main_pc = "lz4" /\ main_pc' = "lz4_wait"
    <3>1. CASE PublishDirectly
      BY <3>1 DEF PublishDirectly
    <3>2. CASE PublishLz4
      BY <3>2 DEF PublishLz4
    <3> QED
      BY <1>11, <3>1, <3>2
  <2> QED
    BY <1>1, <2>2, <2>3, <2>4 DEF ControlInv
<1>12. CASE AllPublished \/ Lz4Processed \/ CompressFails
  BY <1>1, <1>12 DEF AllPublished, Lz4Processed, CompressFails, ControlInv
<1>13. CASE StopSimulator \/ Trade \/ DestroySimulator
  BY <1>1, <1>13 DEF StopSimulator, Trade, DestroySimulator, ControlInv
<1>14. CASE StopReader
  BY <1>1, <1>14, StopReaderGoes DEF StopReader, ReaderStop, ControlInv
<1>15. CASE JoinReader
  BY <1>1, <1>15 DEF JoinReader, ControlInv
<1>16. CASE Unmap
  BY <1>1, <1>16 DEF Unmap, ControlInv
<1>17. CASE PublishStep(Main) /\ UNCHANGED <<socketVars, mainVars, hubVars, netVars>>
  <2>1. Moves(Main, {"copy", "copying", "index", "sequence", "load", "wait"},
              {"idle", "copy", "copying", "index", "sequence", "load", "wait"})
    BY <1>1, <1>17, WritersAssumption, WriterMoves DEF PublishStep, Moves, Publishing
  <2>2. writer_pc'[Hub] = writer_pc[Hub] /\ writer_pc[Main] # "idle" /\ reader_pc' = reader_pc
    BY <1>17, <2>1, WritersAssumption DEF Moves, PublishStep, PublishCopy, PublishIndex,
       PublishSequence, LoadAwaited, WaitUntilProcessed, Main, Hub
  <2> QED
    BY <1>1, <1>17, <2>2 DEF ControlInv, mainVars
<1> QED
  BY <1>2, <1>3, <1>4, <1>5, <1>6, <1>7, <1>8, <1>9, <1>10, <1>11, <1>12, <1>13, <1>14, <1>15,
     <1>16, <1>17 DEF MainStep

LEMMA ControlKeptByHub ==
  ASSUME FeedInv, HubStep
  PROVE  ControlInv'
<1>1. ControlInv /\ InletTypeOK /\ Hub \in Writers /\ Main \in Writers \ {Hub}
  BY WritersAssumption DEF FeedInv, TypeOK, Main, Hub
<1> USE DEF HubQuiet, inletVars, writerVars, readerVars, mainVars, netVars, HubGoto
<1>2. CASE HubCopy \/ HubCheck \/ HubCount
  BY <1>1, <1>2 DEF HubCopy, HubCheck, HubCount, ControlInv, Waiting
<1>3. CASE HubPoll
  <2>1. sockets = {} => hub_pc' = "check"
    BY <1>3 DEF HubPoll
  <2> QED
    BY <1>1, <1>3, <2>1 DEF HubPoll, ControlInv
<1>4. CASE HubRecv
  BY <1>1, <1>4 DEF HubRecv, PublishBegin, ControlInv, InletTypeOK, Publishing
<1>5. CASE HubPublish
  <2>1. UNCHANGED <<main_pc, reader_pc, sockets, inlet_>> /\ hub_pc = "publish"
    BY <1>5 DEF HubPublish, PublishCopy, PublishIndex, PublishSequence
  <2>2. CASE (PublishCopy(Hub) \/ PublishIndex(Hub)) /\ UNCHANGED hub_pc
    <3>1. Moves(Hub, Publishing, Publishing)
      BY <1>1, <2>2, WriterMoves
    <3> QED
      BY <1>1, <2>1, <2>2, <3>1, HubAtWork DEF Moves, ControlInv, Publishing
  <2>3. CASE PublishSequence(Hub) /\ hub_pc' = "count"
    <3>1. Moves(Hub, {"sequence"}, {"load"})
      BY <1>1, <2>3, WriterMoves
    <3> QED
      BY <1>1, <2>1, <2>3, <3>1, HubAtWork DEF Moves, ControlInv, Publishing
  <2> QED
    BY <1>5, <2>2, <2>3 DEF HubPublish
<1>6. CASE HubWait
  <2>1. UNCHANGED <<main_pc, reader_pc, sockets, inlet_>> /\ hub_pc = "wait"
    BY <1>6 DEF HubWait, LoadAwaited, WaitUntilProcessed
  <2>2. CASE LoadAwaited(Hub) /\ UNCHANGED <<hub_pc, ready>>
    <3>1. Moves(Hub, {"load"}, {"wait"})
      BY <1>1, <2>2, WriterMoves
    <3> QED
      BY <1>1, <2>1, <2>2, <3>1, HubAtWork DEF Moves, ControlInv, Waiting
  <2>3. CASE WaitUntilProcessed(Hub) /\ hub_pc' \in {"check", "recv"}
    <3>1. Moves(Hub, {"wait"}, {"idle"})
      BY <1>1, <2>3, WriterMoves
    <3> QED
      BY <1>1, <2>1, <2>3, <3>1, HubAtWork DEF Moves, ControlInv
  <2> QED
    BY <1>6, <2>2, <2>3 DEF HubWait
<1> QED
  BY <1>2, <1>3, <1>4, <1>5, <1>6 DEF HubStep

LEMMA ControlKeptByReader ==
  ASSUME FeedInv, ReaderThread
  PROVE  ControlInv'
<1>1. UNCHANGED <<writer_pc, main_pc, hub_pc, sockets, inlet_>> /\ reader_pc # "off"
  BY DEF ReaderThread, ReaderStep, ReaderCheck, ReaderLoad, ReaderSlot, ReaderHeader, ReaderIngest,
         ReaderStore, writerVars, mainVars, hubVars, netVars
<1> QED
  BY <1>1 DEF FeedInv, ControlInv, HubQuiet

-----------------------------------------------------------------------------
(* The inlet, in the steps of the three threads.                           *)

LEMMA InletUnchanged ==
  ASSUME InletTypeOK, InletInv, UNCHANGED inletVars
  PROVE  InletTypeOK' /\ InletInv'
<1> QED
  BY DEF inletVars, writerVars, readerVars, InletTypeOK, InletInv, ReaderInv, WriterInv, HistoryInv

(* What one step of the program is to the inlet. *)
InletStep ==
  \/ UNCHANGED inletVars
  \/ \E w \in Writers : Alone(w) /\ ((\E f \in Frames : PublishBegin(w, f)) \/ PublishStep(w))
  \/ ReaderStart /\ \A w \in Writers : writer_pc[w] = "idle"
  \/ ReaderStop \/ ReaderStep

LEMMA InletSteps ==
  ASSUME FeedInv, Next
  PROVE  InletStep
<1>1. ControlInv /\ InletTypeOK /\ Main \in Writers /\ Hub \in Writers
  BY WritersAssumption DEF FeedInv, TypeOK
<1>2. ASSUME UNCHANGED inletVars PROVE InletStep
  BY <1>2 DEF InletStep
<1>3. CASE StartReader
  <2>1. main_pc = "map" /\ ReaderStart
    BY <1>3 DEF StartReader, MainGoto
  <2>2. \A w \in Writers : writer_pc[w] = "idle"
    BY <1>1, <2>1, WritersAssumption DEF ControlInv, Multicast, HubQuiet
  <2> QED
    BY <2>1, <2>2 DEF InletStep
<1>4. CASE PublishDirectly \/ PublishLz4
  <2>1. main_pc \notin Multicast
    BY <1>4 DEF PublishDirectly, PublishLz4, MainGoto, Multicast
  <2>2. \E f \in Frames : PublishBegin(Main, f)
    BY <1>4, SimFramesAssumption DEF PublishDirectly, PublishLz4
  <2> QED
    BY <1>1, <2>1, <2>2, OnlyMainWrites DEF InletStep
<1>5. CASE StopReader
  BY <1>5 DEF StopReader, InletStep
<1>6. CASE PublishStep(Main)
  <2>1. writer_pc[Main] # "idle"
    BY <1>1, <1>6, WriterMoves DEF PublishStep, Moves, Publishing
  <2>2. main_pc \notin Multicast
    BY <1>1, <2>1 DEF ControlInv, Multicast
  <2> QED
    BY <1>1, <1>6, <2>2, OnlyMainWrites DEF InletStep
<1>7. CASE HubRecv
  <2>1. Alone(Hub) /\ sockets \subseteq Frames
    BY <1>1, <1>7, HubAtWork, OnlyHubWrites DEF HubRecv, HubGoto, FeedInv, TypeOK
  <2>2. \E f \in Frames : PublishBegin(Hub, f)
    BY <1>7, <2>1 DEF HubRecv
  <2> QED
    BY <1>1, <2>1, <2>2 DEF InletStep
<1>8. CASE HubPublish \/ HubWait
  <2>1. Alone(Hub)
    BY <1>1, <1>8, HubAtWork, OnlyHubWrites DEF HubPublish, HubWait
  <2>2. PublishStep(Hub)
    BY <1>8 DEF HubPublish, HubWait, PublishStep
  <2> QED
    BY <1>1, <2>1, <2>2 DEF InletStep
<1>9. CASE ReaderThread
  BY <1>9 DEF ReaderThread, InletStep
<1>10. CASE HubCopy \/ HubCheck \/ HubPoll \/ HubCount
  BY <1>2, <1>10 DEF HubCopy, HubCheck, HubPoll, HubCount
<1>11. CASE MapRegion \/ OpenHub \/ UndoHub \/ StartHubThread \/ OpenSimulator \/ SendDatagram
  BY <1>2, <1>11 DEF MapRegion, OpenHub, UndoHub, StartHubThread, OpenSimulator, SendDatagram
<1>12. CASE AllSent \/ StopPolling \/ Decide \/ StopHub \/ JoinHub \/ AllPublished
  BY <1>2, <1>12 DEF AllSent, StopPolling, Decide, StopHub, JoinHub, AllPublished
<1>13. CASE Lz4Processed \/ CompressFails \/ StopSimulator
  BY <1>2, <1>13 DEF Lz4Processed, CompressFails, StopSimulator
<1>14. CASE JoinReader \/ Trade \/ DestroySimulator \/ Unmap
  BY <1>2, <1>14 DEF JoinReader, Trade, DestroySimulator, Unmap
<1> QED
  BY <1>3, <1>4, <1>5, <1>6, <1>7, <1>8, <1>9, <1>10, <1>11, <1>12, <1>13, <1>14
     DEF Next, MainStep, HubStep

LEMMA InletKept ==
  ASSUME FeedInv, Next
  PROVE  InletTypeOK' /\ InletInv'
<1>1. InletTypeOK /\ InletInv /\ InletStep
  BY InletSteps DEF FeedInv, TypeOK
<1>2. CASE UNCHANGED inletVars
  BY <1>1, <1>2, InletUnchanged
<1>3. ASSUME NEW w \in Writers, Alone(w), (\E f \in Frames : PublishBegin(w, f)) \/ PublishStep(w)
      PROVE  InletTypeOK' /\ InletInv'
  BY <1>1, <1>3, PublishBeginKeeps, PublishStepKeeps
<1>4. CASE ReaderStart /\ \A w \in Writers : writer_pc[w] = "idle"
  BY <1>1, <1>4, ReaderStartKeeps
<1>5. CASE ReaderStop \/ ReaderStep
  BY <1>1, <1>5, ReaderStopKeeps, ReaderStepKeeps
<1> QED
  BY <1>1, <1>2, <1>3, <1>4, <1>5 DEF InletStep

-----------------------------------------------------------------------------
(* Descriptors, and who lives how long.                                    *)

LEMMA EndpointFacts ==
  /\ \A c \in ChannelSet : <<Hub, c>> \in Endpoints /\ <<Simulator, c>> \in Endpoints
  /\ \A c, d : <<Hub, c>> # <<Simulator, d>>
  /\ SocketsOf(Hub) \subseteq Endpoints /\ SocketsOf(Simulator) \subseteq Endpoints
  /\ \A c \in ChannelSet : <<Hub, c>> \in SocketsOf(Hub) /\ <<Hub, c>> \notin SocketsOf(Simulator)
  /\ \A c \in ChannelSet : <<Simulator, c>> \in SocketsOf(Simulator) /\ <<Simulator, c>> \notin SocketsOf(Hub)
<1> QED
  BY EndpointsAssumption DEF SocketsOf, Hub, Simulator

(* Opening one socket after the other touches no socket of another owner,  *)
(* and when it is done all of them are open.                               *)
LEMMA OpenNextKeeps ==
  ASSUME SocketsTypeOK, DescriptorsInv,
         NEW owner \in {Hub, Simulator}, NEW at, NEW done, NEW failed,
         OpenNextOf(owner, at, done, failed)
  PROVE  /\ SocketsTypeOK' /\ DescriptorsInv'
         /\ \A s \in Endpoints : s \notin SocketsOf(owner) => fd_'[s] = fd_[s]
         /\ main_pc = at /\ main_pc' \in {at, done, failed}
         /\ main_pc' \in {at, failed} \/ \A c \in ChannelSet : IsOpen(<<owner, c>>)'
<1>1. PICK i \in DOMAIN Channels :
        /\ \A j \in 1 .. i - 1 : IsOpen(<<owner, Channels[j]>>)
        /\ \/ /\ OpenSucceeds(<<owner, Channels[i]>>)
              /\ main_pc' = IF i = Len(Channels) THEN done ELSE at
           \/ OpenFails(<<owner, Channels[i]>>) /\ main_pc' = failed
  BY DEF OpenNextOf
<1> DEFINE s == <<owner, Channels[i]>>
<1>2. s \in SocketsOf(owner) /\ s \in Endpoints
  BY EndpointsAssumption DEF SocketsOf, ChannelSet
<1>3. main_pc = at /\ main_pc' \in {at, done, failed}
  BY <1>1 DEF OpenNextOf
<1>4. CASE OpenFails(s) /\ main_pc' = failed
  BY <1>2, <1>3, <1>4, OpenFailsKeeps
<1>5. CASE OpenSucceeds(s) /\ main_pc' = IF i = Len(Channels) THEN done ELSE at
  <2>1. SocketsTypeOK' /\ DescriptorsInv' /\ IsOpen(s)' /\ \A r \in Endpoints \ {s} : fd_'[r] = fd_[r]
    BY <1>2, <1>5, OpenSucceedsKeeps
  <2>2. ASSUME main_pc' \notin {at, failed} PROVE \A c \in ChannelSet : IsOpen(<<owner, c>>)'
    <3>1. i = Len(Channels) /\ DOMAIN Channels = 1 .. Len(Channels) /\ Len(Channels) \in Nat
      BY <1>5, <2>2, ChannelsAssumption, LenProperties
    <3> SUFFICES ASSUME NEW j \in DOMAIN Channels PROVE IsOpen(<<owner, Channels[j]>>)'
      BY DEF ChannelSet
    <3>2. CASE <<owner, Channels[j]>> = s
      BY <2>1, <3>2
    <3>3. CASE <<owner, Channels[j]>> # s
      <4>1. j # i
        BY <3>3
      <4>2. j \in 1 .. i - 1
        BY <3>1, <4>1
      <4>3. IsOpen(<<owner, Channels[j]>>)
        BY <1>1, <4>2
      <4>4. <<owner, Channels[j]>> \in Endpoints
        BY EndpointsAssumption DEF SocketsOf, ChannelSet
      <4> QED
        BY <2>1, <3>3, <4>3, <4>4 DEF IsOpen
    <3> QED
      BY <3>2, <3>3
  <2> QED
    BY <1>2, <1>3, <2>1, <2>2
<1> QED
  BY <1>1, <1>4, <1>5

LEMMA DescriptorsUnchanged ==
  ASSUME SocketsTypeOK, DescriptorsInv, UNCHANGED socketVars
  PROVE  SocketsTypeOK' /\ DescriptorsInv'
<1> QED
  BY DEF socketVars, SocketsTypeOK, DescriptorsInv, IsOpen

LEMMA DescriptorsKept ==
  ASSUME FeedInv, Next
  PROVE  SocketsTypeOK' /\ DescriptorsInv'
<1>1. SocketsTypeOK /\ DescriptorsInv
  BY DEF FeedInv, TypeOK
<1>2. ASSUME UNCHANGED socketVars PROVE SocketsTypeOK' /\ DescriptorsInv'
  BY <1>1, <1>2, DescriptorsUnchanged
<1>3. CASE OpenHub \/ OpenSimulator
  BY <1>1, <1>3, OpenNextKeeps DEF OpenHub, OpenSimulator
<1>4. CASE UndoHub \/ JoinHub \/ StopSimulator \/ DestroySimulator
  <2>1. \E S \in SUBSET Endpoints : CloseAll(S)
    BY <1>4, EndpointFacts DEF UndoHub, JoinHub, StopSimulator, DestroySimulator
  <2> QED
    BY <1>1, <2>1, CloseAllKeeps
<1>5. CASE MapRegion \/ StartReader \/ StartHubThread \/ SendDatagram \/ AllSent \/ StopPolling \/ Decide
  BY <1>2, <1>5 DEF MapRegion, StartReader, StartHubThread, SendDatagram, AllSent, StopPolling, Decide
<1>6. CASE StopHub \/ PublishDirectly \/ AllPublished \/ PublishLz4 \/ Lz4Processed \/ CompressFails
  BY <1>2, <1>6 DEF StopHub, PublishDirectly, AllPublished, PublishLz4, Lz4Processed, CompressFails
<1>7. CASE StopReader \/ JoinReader \/ Trade \/ Unmap
  BY <1>2, <1>7 DEF StopReader, JoinReader, Trade, Unmap
<1>8. CASE HubStep
  BY <1>2, <1>8 DEF HubStep, HubCopy, HubCheck, HubPoll, HubRecv, HubPublish, HubCount, HubWait
<1>9. CASE ReaderThread
  BY <1>2, <1>9 DEF ReaderThread
<1>10. CASE PublishStep(Main) /\ UNCHANGED <<socketVars, mainVars, hubVars, netVars>>
  BY <1>2, <1>10
<1> QED
  BY <1>3, <1>4, <1>5, <1>6, <1>7, <1>8, <1>9, <1>10 DEF Next, MainStep

-----------------------------------------------------------------------------
(* Types.                                                                  *)

MainPcs ==
  {"map", "abort", "start_hub", "undo_hub", "start_thread", "start_sim", "send", "poll", "decide",
   "publish", "lz4", "lz4_wait", "stop_sim", "trade", "destroy_sim", "unmap", "exit",
   "stop_hub", "join_hub", "quit_hub", "join_quit_hub", "destroy_hub", "join_destroyed_hub",
   "stop_reader", "join_reader", "quit_reader", "join_quit_reader", "destroy_reader",
   "join_destroyed_reader"}

MainTypeOK ==
  /\ next \in Nat
  /\ multicast_ok \in BOOLEAN /\ multicast_received \in BOOLEAN
  /\ main_pc \in MainPcs
  /\ mapped \subseteq RegionSet

HubTypeOK ==
  /\ hub_running \in BOOLEAN /\ inlet_ \in BOOLEAN
  /\ hub_pc \in {"off", "copy", "check", "poll", "recv", "publish", "count", "wait"}
  /\ descriptors \in [ChannelSet -> Nat \cup {Closed}]
  /\ ready \subseteq ChannelSet
  /\ sockets \subseteq Frames /\ foreign \subseteq Foreign
  /\ datagrams \in [ChannelSet -> Nat]

LEMMA TypeParts == TypeOK <=> InletTypeOK /\ SocketsTypeOK /\ MainTypeOK /\ HubTypeOK
<1>1. main_pc \in MainPcs <=>
        main_pc \in {"map", "abort", "start_hub", "undo_hub", "start_thread", "start_sim", "send", "poll",
                     "decide", "publish", "lz4", "lz4_wait", "stop_sim", "trade", "destroy_sim", "unmap",
                     "exit"}
                    \cup UNION {{call[1], call[2]} : call \in HubStops \cup ReaderStops}
  BY StopPcs DEF MainPcs
<1> QED
  BY <1>1 DEF TypeOK, MainTypeOK, HubTypeOK, RegionSet

LEMMA MainTypeKept ==
  ASSUME FeedInv, Next
  PROVE  MainTypeOK'
<1>1. MainTypeOK
  BY TypeParts DEF FeedInv
<1> USE DEF MainTypeOK, MainPcs, MainGoto, mainVars
<1>2. CASE MapRegion
  BY <1>1, <1>2 DEF MapRegion, RegionSet
<1>3. CASE StartReader \/ StartHubThread \/ UndoHub
  BY <1>1, <1>3 DEF StartReader, StartHubThread, UndoHub
<1>4. CASE OpenHub
  BY <1>1, <1>4 DEF OpenHub, OpenNextOf
<1>5. CASE OpenSimulator
  BY <1>1, <1>5 DEF OpenSimulator, OpenNextOf
<1>6. CASE SendDatagram \/ AllSent \/ StopPolling
  BY <1>1, <1>6 DEF SendDatagram, AllSent, StopPolling
<1>7. CASE Decide
  <2>1. multicast_received' \in BOOLEAN
    BY <1>7 DEF Decide, Enough
  <2> QED
    BY <1>1, <1>7, <2>1 DEF Decide
<1>8. CASE StopHub
  BY <1>1, <1>8, StopHubGoes DEF StopHub
<1>9. CASE JoinHub
  BY <1>1, <1>9 DEF JoinHub, AfterJoinHub
<1>10. CASE PublishDirectly
  BY <1>1, <1>10 DEF PublishDirectly
<1>11. CASE AllPublished \/ PublishLz4 \/ Lz4Processed \/ CompressFails \/ StopSimulator
  BY <1>1, <1>11 DEF AllPublished, PublishLz4, Lz4Processed, CompressFails, StopSimulator
<1>12. CASE StopReader
  BY <1>1, <1>12, StopReaderGoes DEF StopReader
<1>13. CASE JoinReader \/ Trade \/ DestroySimulator
  BY <1>1, <1>13 DEF JoinReader, Trade, DestroySimulator
<1>14. CASE Unmap
  BY <1>1, <1>14 DEF Unmap
<1>15. CASE UNCHANGED mainVars
  BY <1>1, <1>15
<1>16. ASSUME HubStep PROVE UNCHANGED mainVars
  BY <1>16 DEF HubStep, HubCopy, HubCheck, HubPoll, HubRecv, HubPublish, HubCount, HubWait
<1> QED
  BY <1>2, <1>3, <1>4, <1>5, <1>6, <1>7, <1>8, <1>9, <1>10, <1>11, <1>12, <1>13, <1>14, <1>15,
     <1>16 DEF Next, MainStep, ReaderThread

LEMMA HubTypeKept ==
  ASSUME FeedInv, Next
  PROVE  HubTypeOK'
<1>1. HubTypeOK
  BY TypeParts DEF FeedInv
<1>2. SocketsTypeOK
  BY DEF FeedInv, TypeOK
<1>3. {Channel[f] : f \in sockets} \subseteq ChannelSet
  BY <1>1, ChannelsAssumption DEF HubTypeOK
<1> USE DEF HubTypeOK, HubGoto, hubVars, netVars
<1>4. CASE StartHubThread
  BY <1>1, <1>4 DEF StartHubThread
<1>5. CASE SendDatagram
  BY <1>1, <1>5, SimFramesAssumption DEF SendDatagram
<1>6. CASE StopHub
  BY <1>1, <1>6 DEF StopHub
<1>7. CASE JoinHub
  BY <1>1, <1>7 DEF JoinHub
<1>8. CASE HubCopy
  <2>1. \A c \in ChannelSet : fd_[<<Hub, c>>] \in Nat \cup {Closed}
    BY <1>2, EndpointFacts DEF SocketsTypeOK
  <2> QED
    BY <1>1, <1>8, <2>1 DEF HubCopy
<1>9. CASE HubCheck
  BY <1>1, <1>9 DEF HubCheck
<1>10. CASE HubPoll
  BY <1>1, <1>3, <1>10 DEF HubPoll
<1>11. CASE HubRecv
  BY <1>1, <1>11 DEF HubRecv
<1>12. CASE HubPublish
  BY <1>1, <1>12 DEF HubPublish
<1>13. CASE HubCount
  <2>1. frame[Hub] \in Frames
    BY <1>13, WritersAssumption DEF HubCount, FeedInv, ControlInv, InletInv, WriterInv
  <2>2. Channel[frame[Hub]] \in ChannelSet
    BY <2>1, ChannelsAssumption
  <2>3. datagrams' \in [ChannelSet -> Nat]
    BY <1>1, <1>13, <2>2 DEF HubCount
  <2> QED
    BY <1>1, <1>13, <2>3 DEF HubCount
<1>14. CASE HubWait
  BY <1>1, <1>14 DEF HubWait
<1>15. CASE UNCHANGED <<hubVars, netVars>>
  BY <1>1, <1>15
<1>16. CASE MapRegion \/ StartReader \/ OpenHub \/ UndoHub \/ OpenSimulator \/ AllSent \/ StopPolling
  BY <1>15, <1>16 DEF MapRegion, StartReader, OpenHub, UndoHub, OpenSimulator, AllSent, StopPolling
<1>17. CASE Decide \/ PublishDirectly \/ AllPublished \/ PublishLz4 \/ Lz4Processed \/ CompressFails
  BY <1>15, <1>17 DEF Decide, PublishDirectly, AllPublished, PublishLz4, Lz4Processed, CompressFails
<1>18. CASE StopSimulator \/ StopReader \/ JoinReader \/ Trade \/ DestroySimulator \/ Unmap
  BY <1>15, <1>18 DEF StopSimulator, StopReader, JoinReader, Trade, DestroySimulator, Unmap
<1> QED
  BY <1>4, <1>5, <1>6, <1>7, <1>8, <1>9, <1>10, <1>11, <1>12, <1>13, <1>14, <1>15, <1>16, <1>17,
     <1>18 DEF Next, MainStep, HubStep, ReaderThread

LEMMA TypeKept ==
  ASSUME FeedInv, Next
  PROVE  TypeOK'
<1>1. InletTypeOK' /\ SocketsTypeOK' /\ MainTypeOK' /\ HubTypeOK'
  BY InletKept, DescriptorsKept, MainTypeKept, HubTypeKept
<1>2. main_pc' \in MainPcs <=>
        main_pc' \in {"map", "abort", "start_hub", "undo_hub", "start_thread", "start_sim", "send", "poll",
                     "decide", "publish", "lz4", "lz4_wait", "stop_sim", "trade", "destroy_sim", "unmap",
                     "exit"}
                    \cup UNION {{call[1], call[2]} : call \in HubStops \cup ReaderStops}
  BY StopPcs DEF MainPcs
<1> QED
  BY <1>1, <1>2 DEF TypeOK, MainTypeOK, HubTypeOK, RegionSet

-----------------------------------------------------------------------------
(* Lifetimes.                                                              *)

(* A step of main that opens and closes nothing and starts no thread. *)
LEMMA OpenInvCarried ==
  ASSUME OpenInv, UNCHANGED <<fd_, descriptors, hub_pc>>,
         main_pc' = "start_thread" => main_pc = "start_thread",
         main_pc' \in SimulatorGone => main_pc \in SimulatorGone,
         main_pc' \in HubGone => main_pc \in HubGone
  PROVE  OpenInv'
<1> QED
  BY DEF OpenInv, IsOpen

LEMMA OpenKept ==
  ASSUME FeedInv, Next
  PROVE  OpenInv'
<1>1. OpenInv /\ ControlInv /\ SocketsTypeOK /\ DescriptorsInv
  BY DEF FeedInv, TypeOK
<1>2. \A c \in ChannelSet : <<Hub, c>> \in Endpoints /\ <<Simulator, c>> \in Endpoints
  BY EndpointFacts
<1> USE DEF MainGoto, HubGoto, SimulatorGone, HubGone, socketVars, mainVars, hubVars
<1>3. CASE OpenHub
  <2>1. /\ \A c \in ChannelSet : fd_'[<<Simulator, c>>] = fd_[<<Simulator, c>>]
        /\ main_pc' \in {"start_hub", "undo_hub"} \/ \A c \in ChannelSet : IsOpen(<<Hub, c>>)'
    BY <1>1, <1>3, OpenNextKeeps, EndpointFacts DEF OpenHub
  <2>2. main_pc = "start_hub" /\ main_pc' \in {"start_hub", "undo_hub", "start_thread"} /\ hub_pc' = hub_pc
    BY <1>1, <1>3, OpenNextKeeps DEF OpenHub
  <2>3. hub_pc = "off"
    BY <1>1, <2>2 DEF ControlInv, BeforeHub
  <2> QED
    BY <2>1, <2>2, <2>3 DEF OpenInv
<1>4. CASE UndoHub
  <2>1. hub_pc = "off" /\ main_pc' = "publish" /\ hub_pc' = hub_pc
    BY <1>1, <1>4 DEF UndoHub, ControlInv, BeforeHub
  <2> QED
    BY <2>1 DEF OpenInv
<1>5. CASE StartHubThread
  BY <1>1, <1>5 DEF StartHubThread, OpenInv, IsOpen
<1>6. CASE OpenSimulator
  <2>1. main_pc' \in {"start_sim", "send", "publish"} /\ hub_pc' = hub_pc /\ descriptors' = descriptors
    BY <1>1, <1>6, OpenNextKeeps DEF OpenSimulator
  <2>2. \A c \in ChannelSet : fd_'[<<Hub, c>>] = fd_[<<Hub, c>>]
    BY <1>1, <1>6, OpenNextKeeps, EndpointFacts DEF OpenSimulator
  <2> QED
    BY <1>1, <2>1, <2>2 DEF OpenInv, IsOpen
<1>7. CASE JoinHub
  <2>1. hub_pc = "off" /\ hub_pc' = "off"
    BY <1>7 DEF JoinHub
  <2>2. \A s \in Endpoints : fd_'[s] = IF s \in SocketsOf(Hub) THEN Closed ELSE fd_[s]
    BY <1>7 DEF JoinHub, CloseAll
  <2>3. /\ \A c \in ChannelSet : ~ IsOpen(<<Hub, c>>)'
        /\ \A c \in ChannelSet : fd_'[<<Simulator, c>>] = fd_[<<Simulator, c>>]
    BY <2>2, EndpointFacts DEF IsOpen
  <2>4. main_pc' # "start_thread" /\ (main_pc' \in SimulatorGone => main_pc \in SimulatorGone)
    BY <1>7 DEF JoinHub, AfterJoinHub
  <2> QED
    BY <1>1, <2>1, <2>3, <2>4 DEF OpenInv, IsOpen
<1>8. CASE StopSimulator \/ DestroySimulator
  <2>1. main_pc' \in {"stop_reader", "destroy_hub"} /\ UNCHANGED <<hub_pc, descriptors>>
    BY <1>8 DEF StopSimulator, DestroySimulator
  <2>2. \E S \in SUBSET SocketsOf(Simulator) : CloseAll(S)
    BY <1>8 DEF StopSimulator, DestroySimulator
  <2>3. \A c \in ChannelSet : fd_'[<<Hub, c>>] = fd_[<<Hub, c>>]
    BY <2>2, EndpointFacts DEF CloseAll
  <2>4. main_pc' = "destroy_hub" => \A c \in ChannelSet : ~ IsOpen(<<Simulator, c>>)'
    <3>1. CASE StopSimulator
      BY <3>1 DEF StopSimulator
    <3>2. CASE DestroySimulator
      BY <3>2, EndpointFacts DEF DestroySimulator, CloseAll, IsOpen
    <3> QED
      BY <1>8, <3>1, <3>2
  <2> QED
    BY <1>1, <2>1, <2>3, <2>4 DEF OpenInv, IsOpen
<1>9. CASE HubCopy
  BY <1>1, <1>2, <1>9 DEF HubCopy, OpenInv, IsOpen
<1>10. CASE HubCheck \/ HubPoll \/ HubRecv \/ HubPublish \/ HubCount \/ HubWait
  <2>1. UNCHANGED <<fd_, descriptors, main_pc>> /\ hub_pc \notin {"off", "copy"}
    BY <1>10 DEF HubCheck, HubPoll, HubRecv, HubPublish, HubCount, HubWait
  <2> QED
    BY <1>1, <2>1 DEF OpenInv, IsOpen
<1>11. CASE MapRegion \/ StartReader
  BY <1>1, <1>11, OpenInvCarried DEF MapRegion, StartReader
<1>12. CASE SendDatagram \/ AllSent \/ StopPolling \/ Decide
  BY <1>1, <1>12, OpenInvCarried DEF SendDatagram, AllSent, StopPolling, Decide
<1>13. CASE StopHub
  <2>1. UNCHANGED <<fd_, descriptors, hub_pc>>
    BY <1>13 DEF StopHub
  <2> QED
    BY <1>1, <1>13, <2>1, StopHubGoes, OpenInvCarried DEF StopHub
<1>14. CASE PublishDirectly
  BY <1>1, <1>14, OpenInvCarried DEF PublishDirectly
<1>15. CASE AllPublished \/ PublishLz4 \/ Lz4Processed \/ CompressFails \/ Trade
  BY <1>1, <1>15, OpenInvCarried DEF AllPublished, PublishLz4, Lz4Processed, CompressFails, Trade
<1>16. CASE StopReader
  <2>1. UNCHANGED <<fd_, descriptors, hub_pc>>
    BY <1>16 DEF StopReader
  <2> QED
    BY <1>1, <1>16, <2>1, StopReaderGoes, OpenInvCarried DEF StopReader
<1>17. CASE JoinReader \/ Unmap
  BY <1>1, <1>17, OpenInvCarried DEF JoinReader, Unmap
<1>18. CASE UNCHANGED <<socketVars, mainVars, hubVars>>
  BY <1>1, <1>18, OpenInvCarried
<1> QED
  BY <1>3, <1>4, <1>5, <1>6, <1>7, <1>8, <1>9, <1>10, <1>11, <1>12, <1>13, <1>14, <1>15, <1>16,
     <1>17, <1>18 DEF Next, MainStep, HubStep, ReaderThread

(* Regions are mapped one by one before anything starts, and go last. *)
LEMMA MappedKept ==
  ASSUME FeedInv, Next
  PROVE  MappedInv'
<1>1. MappedInv /\ next \in Nat
  BY DEF FeedInv, TypeOK
<1>2. DOMAIN Regions = 1 .. Len(Regions) /\ Len(Regions) \in Nat
  BY RegionsAssumption, LenProperties
<1> USE DEF MainGoto, mainVars
<1>3. CASE MapRegion
  <2>1. main_pc = "map" /\ next \in 1 .. Len(Regions)
    BY <1>2, <1>3 DEF MapRegion
  <2>2. CASE mapped' = mapped \cup {Regions[next]} /\ next' = next + 1 /\ main_pc' = main_pc
    <3>1. 1 .. next' - 1 = (1 .. next - 1) \cup {next}
      BY <1>1, <2>1, <2>2
    <3>2. mapped' = {Regions[i] : i \in 1 .. next' - 1}
      BY <1>1, <2>1, <2>2, <3>1 DEF MappedInv
    <3>3. next' > 0 /\ next' <= Len(Regions) + 1
      BY <1>1, <1>2, <2>1, <2>2
    <3> QED
      BY <2>1, <2>2, <3>2, <3>3 DEF MappedInv
  <2>3. CASE main_pc' = "abort"
    BY <2>3 DEF MappedInv
  <2> QED
    BY <1>3, <2>2, <2>3 DEF MapRegion
<1>4. CASE StartReader
  <2>1. next = Len(Regions) + 1
    BY <1>1, <1>2, <1>4 DEF StartReader, MappedInv
  <2>2. 1 .. next - 1 = DOMAIN Regions
    BY <1>1, <1>2, <2>1
  <2>3. main_pc' = "start_hub" /\ mapped' = RegionSet
    BY <1>1, <1>4, <2>2 DEF StartReader, MappedInv, RegionSet
  <2> QED
    BY <2>3 DEF MappedInv, RegionSet
<1>5. CASE Unmap
  <2>1. main_pc' = (IF mapped' = {} THEN "exit" ELSE "unmap")
    BY <1>5 DEF Unmap
  <2> QED
    BY <2>1 DEF MappedInv
<1>6. ASSUME mapped' = mapped, main_pc \notin {"map", "abort", "unmap", "exit"}, main_pc' \notin {"map", "exit"}
      PROVE  MappedInv'
  BY <1>1, <1>6 DEF MappedInv, RegionSet
<1>7. CASE OpenHub
  BY <1>6, <1>7 DEF OpenHub, OpenNextOf
<1>8. CASE OpenSimulator
  BY <1>6, <1>8 DEF OpenSimulator, OpenNextOf
<1>9. CASE UndoHub \/ StartHubThread \/ SendDatagram \/ AllSent \/ StopPolling \/ Decide
  BY <1>6, <1>9 DEF UndoHub, StartHubThread, SendDatagram, AllSent, StopPolling, Decide
<1>10. CASE StopHub
  BY <1>6, <1>10, StopHubGoes DEF StopHub
<1>11. CASE JoinHub
  BY <1>6, <1>11 DEF JoinHub, AfterJoinHub
<1>12. CASE PublishDirectly
  BY <1>6, <1>12 DEF PublishDirectly
<1>13. CASE AllPublished \/ PublishLz4 \/ Lz4Processed \/ CompressFails \/ StopSimulator
  BY <1>6, <1>13 DEF AllPublished, PublishLz4, Lz4Processed, CompressFails, StopSimulator
<1>14. CASE StopReader
  BY <1>6, <1>14, StopReaderGoes DEF StopReader
<1>15. CASE JoinReader \/ Trade \/ DestroySimulator
  BY <1>6, <1>15 DEF JoinReader, Trade, DestroySimulator
<1>16. CASE UNCHANGED mainVars
  BY <1>1, <1>16 DEF MappedInv, RegionSet
<1>17. ASSUME HubStep PROVE UNCHANGED mainVars
  BY <1>17 DEF HubStep, HubCopy, HubCheck, HubPoll, HubRecv, HubPublish, HubCount, HubWait
<1> QED
  BY <1>3, <1>4, <1>5, <1>7, <1>8, <1>9, <1>10, <1>11, <1>12, <1>13, <1>14, <1>15, <1>16, <1>17
     DEF Next, MainStep, ReaderThread

(* Main runs through its frames twice at most, each time from the first. *)
LEMMA NextKept ==
  ASSUME FeedInv, Next
  PROVE  NextInv'
<1>1. NextInv /\ next \in Nat
  BY DEF FeedInv, TypeOK
<1>2. DOMAIN SimFrames = 1 .. Len(SimFrames) /\ Len(SimFrames) \in Nat
  BY SimFramesAssumption, LenProperties
<1> USE DEF MainGoto, mainVars
<1>3. CASE MapRegion
  BY <1>3 DEF MapRegion, NextInv
<1>4. CASE StartReader
  BY <1>2, <1>4 DEF StartReader, NextInv
<1>5. CASE OpenHub
  BY <1>1, <1>2, <1>5 DEF OpenHub, OpenNextOf, NextInv
<1>6. CASE OpenSimulator
  BY <1>1, <1>2, <1>6 DEF OpenSimulator, OpenNextOf, NextInv
<1>7. CASE UndoHub \/ StartHubThread \/ StopPolling \/ Decide
  BY <1>1, <1>2, <1>7 DEF UndoHub, StartHubThread, StopPolling, Decide, NextInv
<1>8. CASE SendDatagram
  <2>1. main_pc' = "send" /\ next' = next + 1 /\ next \in 1 .. Len(SimFrames)
    BY <1>2, <1>8 DEF SendDatagram
  <2> QED
    BY <1>1, <1>2, <2>1 DEF NextInv
<1>9. CASE AllSent
  BY <1>2, <1>9 DEF AllSent, NextInv
<1>10. CASE StopHub
  <2>1. next' = next
    BY <1>10 DEF StopHub
  <2> QED
    BY <1>1, <1>10, <2>1, StopHubGoes DEF StopHub, NextInv
<1>11. CASE JoinHub
  BY <1>1, <1>2, <1>11 DEF JoinHub, AfterJoinHub, NextInv
<1>12. CASE PublishDirectly
  <2>1. main_pc' = "publish" /\ next' = next + 1 /\ next \in 1 .. Len(SimFrames)
    BY <1>2, <1>12 DEF PublishDirectly
  <2> QED
    BY <1>1, <1>2, <2>1 DEF NextInv
<1>13. CASE AllPublished \/ PublishLz4 \/ Lz4Processed \/ CompressFails \/ StopSimulator
  BY <1>13 DEF AllPublished, PublishLz4, Lz4Processed, CompressFails, StopSimulator, NextInv
<1>14. CASE StopReader
  BY <1>14, StopReaderGoes DEF StopReader, NextInv
<1>15. CASE JoinReader \/ Trade \/ DestroySimulator
  BY <1>15 DEF JoinReader, Trade, DestroySimulator, NextInv
<1>16. CASE Unmap
  BY <1>16 DEF Unmap, NextInv
<1>17. CASE UNCHANGED mainVars
  BY <1>1, <1>17 DEF NextInv
<1>18. ASSUME HubStep PROVE UNCHANGED mainVars
  BY <1>18 DEF HubStep, HubCopy, HubCheck, HubPoll, HubRecv, HubPublish, HubCount, HubWait
<1> QED
  BY <1>3, <1>4, <1>5, <1>6, <1>7, <1>8, <1>9, <1>10, <1>11, <1>12, <1>13, <1>14, <1>15, <1>16,
     <1>17, <1>18 DEF Next, MainStep, ReaderThread

-----------------------------------------------------------------------------
(* Which frames have got how far.                                          *)

LEMMA LogUnchanged ==
  ASSUME UNCHANGED log
  PROVE  Logged' = Logged /\ LoggedOnce' = LoggedOnce
<1> QED
  BY DEF Logged, LoggedOnce

(* The frame in a writer's hand goes to the log with the sequence. *)
LEMMA SequenceLogs ==
  ASSUME InletTypeOK, HistoryInv, WriterInv, NEW w \in Writers, PublishSequence(w)
  PROVE  /\ Logged' = Logged \cup {frame[w]}
         /\ LoggedOnce /\ frame[w] \notin Logged => LoggedOnce'
         /\ InHand(w) = {frame[w]} /\ InHand(w)' = {} /\ frame' = frame
<1>1. writer_pc[w] = "sequence" /\ frame[w] \in Frames /\ frame' = frame /\ log' = Append(log, frame[w])
  BY DEF PublishSequence, WriterInv
<1>2. writer_pc'[w] = "load"
  BY WriterMoves DEF Moves
<1>3. log \in Seq(Frames) /\ Len(log) \in Nat /\ DOMAIN log = 1 .. Len(log)
  BY LenProperties DEF InletTypeOK
<1>4. /\ DOMAIN log' = 1 .. Len(log) + 1
      /\ log'[Len(log) + 1] = frame[w]
      /\ \A i \in 1 .. Len(log) : log'[i] = log[i]
  <2>1. log' \in Seq(Frames) /\ Len(log') = Len(log) + 1
    BY <1>1, <1>3, AppendProperties
  <2>2. DOMAIN log' = 1 .. Len(log')
    BY <2>1, LenProperties
  <2> QED
    BY <1>1, <1>3, <2>1, <2>2, AppendProperties
<1>5. DOMAIN log' = DOMAIN log \cup {Len(log) + 1} /\ Len(log) + 1 \notin DOMAIN log
  BY <1>3, <1>4
<1>6. Logged' = Logged \cup {frame[w]}
  BY <1>3, <1>4, <1>5 DEF Logged
<1>7. ASSUME LoggedOnce, frame[w] \notin Logged PROVE LoggedOnce'
  <2> SUFFICES ASSUME NEW i \in DOMAIN log', NEW j \in DOMAIN log', log'[i] = log'[j] PROVE i = j
    BY DEF LoggedOnce
  <2>1. \A k \in DOMAIN log : log'[k] = log[k] /\ log'[k] # frame[w]
    BY <1>3, <1>4, <1>7 DEF Logged
  <2>2. CASE i \in DOMAIN log /\ j \in DOMAIN log
    BY <1>7, <2>1, <2>2 DEF LoggedOnce
  <2>3. CASE i \notin DOMAIN log \/ j \notin DOMAIN log
    BY <1>4, <1>5, <2>1, <2>3
  <2> QED
    BY <2>2, <2>3
<1> QED
  BY <1>1, <1>2, <1>6, <1>7 DEF InHand, Publishing

LEMMA OtherStepsLogNothing ==
  ASSUME InletTypeOK, NEW w \in Writers,
         PublishCopy(w) \/ PublishIndex(w) \/ LoadAwaited(w) \/ WaitUntilProcessed(w)
  PROVE  log' = log /\ frame' = frame /\ InHand(w)' = InHand(w)
<1>1. log' = log /\ frame' = frame
  BY DEF PublishCopy, PublishIndex, LoadAwaited, WaitUntilProcessed
<1>2. writer_pc'[w] \in Publishing <=> writer_pc[w] \in Publishing
  BY WriterMoves DEF Moves, Publishing
<1> QED
  BY <1>1, <1>2 DEF InHand

LEMMA BeginLogsNothing ==
  ASSUME InletTypeOK, NEW w \in Writers, NEW f, PublishBegin(w, f)
  PROVE  log' = log /\ InHand(w) = {} /\ InHand(w)' = {f} /\ frame'[w] = f
<1>1. log' = log /\ frame'[w] = f
  BY DEF PublishBegin, InletTypeOK
<1>2. writer_pc[w] = "idle" /\ writer_pc'[w] = "copy"
  BY WriterMoves DEF Moves
<1> QED
  BY <1>1, <1>2 DEF InHand, Publishing

LEMMA SimFrameFacts ==
  /\ DOMAIN SimFrames = 1 .. Len(SimFrames) /\ Len(SimFrames) \in Nat
  /\ SimFrameSet \subseteq Frames /\ IsFiniteSet(SimFrameSet)
<1>1. DOMAIN SimFrames = 1 .. Len(SimFrames) /\ Len(SimFrames) \in Nat
  BY SimFramesAssumption, LenProperties
<1>2. IsFiniteSet(DOMAIN SimFrames)
  BY <1>1, FS_Interval
<1>3. SimFrames \in [DOMAIN SimFrames -> SimFrameSet]
  BY SimFramesAssumption DEF SimFrameSet
<1>4. SimFrames \in Surjection(DOMAIN SimFrames, SimFrameSet)
  BY <1>3 DEF SimFrameSet, Surjection
<1>5. IsFiniteSet(SimFrameSet)
  BY <1>2, <1>4, FS_Surjection
<1> QED
  BY <1>1, <1>5, SimFramesAssumption, ElementOfSeq DEF SimFrameSet

LEMMA SentFacts ==
  ASSUME FeedInv
  PROVE  Sent \subseteq SimFrameSet
<1> QED
  BY SimFrameFacts DEF FeedInv, TypeOK, NextInv, Sent, SimFrameSet

(* A step that moves no frame. *)
LEMMA MulticastCarried ==
  ASSUME MulticastInv, UNCHANGED <<log, sockets, datagrams>>,
         InHand(Hub)' = InHand(Hub), frame'[Hub] = frame[Hub],
         hub_pc' = "count" <=> hub_pc = "count",
         main_pc' \in BeforeWriting => main_pc \in BeforeWriting /\ Sent \subseteq Sent'
  PROVE  MulticastInv'
<1> SUFFICES ASSUME main_pc' \in BeforeWriting PROVE MulticastInv'
  BY DEF MulticastInv
<1>1. Logged' = Logged /\ LoggedOnce' = LoggedOnce
  BY LogUnchanged
<1>2. Counted' = Counted
  BY <1>1 DEF Counted
<1>3. \A c : On(c, Counted)' = On(c, Counted)
  BY <1>2 DEF On
<1> QED
  BY <1>1, <1>3 DEF MulticastInv

LEMMA MulticastKeptByMain ==
  ASSUME FeedInv, MainStep
  PROVE  MulticastInv'
<1>1. /\ InletTypeOK /\ InletInv /\ ControlInv /\ MulticastInv /\ NextInv /\ next \in Nat
      /\ Main \in Writers /\ Hub \in Writers /\ Main # Hub
  BY WritersAssumption DEF FeedInv, TypeOK, Main, Hub
<1>2. DOMAIN SimFrames = 1 .. Len(SimFrames) /\ Len(SimFrames) \in Nat
  BY SimFrameFacts
<1>3. ASSUME main_pc' \notin BeforeWriting PROVE MulticastInv'
  BY <1>3 DEF MulticastInv
<1>4. ASSUME UNCHANGED <<log, sockets, datagrams, writer_pc, frame, hub_pc>>,
             main_pc \in BeforeWriting, Sent \subseteq Sent'
      PROVE  MulticastInv'
  BY <1>1, <1>4, MulticastCarried DEF InHand
<1> USE DEF MainGoto, BeforeWriting, BeforeHub, Multicast, inletVars, writerVars, readerVars, hubVars,
            netVars, mainVars
<1>5. CASE MapRegion
  BY <1>3, <1>4, <1>5 DEF MapRegion, Sent
<1>6. CASE StartReader
  BY <1>3, <1>4, <1>6 DEF StartReader, ReaderStart, Sent
<1>7. CASE OpenHub
  BY <1>3, <1>4, <1>7 DEF OpenHub, OpenNextOf, Sent
<1>8. CASE OpenSimulator
  BY <1>3, <1>4, <1>8 DEF OpenSimulator, OpenNextOf, Sent
<1>9. CASE UndoHub
  BY <1>3, <1>9 DEF UndoHub
<1>10. CASE StartHubThread
  <2>1. hub_pc # "count"
    BY <1>1, <1>10 DEF StartHubThread, ControlInv
  <2>2. hub_pc' # "count" /\ Sent = {} /\ UNCHANGED <<log, sockets, datagrams, writer_pc, frame>>
    BY <1>10 DEF StartHubThread, Sent
  <2>3. main_pc \in BeforeWriting
    BY <1>10 DEF StartHubThread
  <2> QED
    BY <1>1, <2>1, <2>2, <2>3, MulticastCarried DEF InHand
<1>11. CASE SendDatagram
  <2> DEFINE f == SimFrames[next]
  <2>1. main_pc = "send" /\ main_pc' = "send" /\ next \in 1 .. Len(SimFrames) /\ next' = next + 1
    BY <1>2, <1>11 DEF SendDatagram
  <2>2. Sent = {SimFrames[i] : i \in 1 .. next - 1} /\ Sent' = {SimFrames[i] : i \in 1 .. next' - 1}
    BY <2>1 DEF Sent
  <2>3. 1 .. next' - 1 = (1 .. next - 1) \cup {next}
    BY <1>1, <2>1
  <2>4. Sent' = Sent \cup {f}
    BY <2>2, <2>3
  <2>5. f \notin Sent
    BY <1>1, <1>2, <2>1, <2>2, SimFramesAssumption
  <2>6. UNCHANGED <<log, datagrams, writer_pc, frame, hub_pc>>
    BY <1>11 DEF SendDatagram
  <2>7. CASE sockets' = sockets
    BY <1>4, <2>1, <2>4, <2>6, <2>7
  <2>8. CASE sockets' = sockets \cup {f}
    <3>1. Logged' = Logged /\ LoggedOnce' = LoggedOnce /\ InHand(Hub)' = InHand(Hub)
      BY <2>6, LogUnchanged DEF InHand
    <3>2. Counted' = Counted
      BY <2>6, <3>1 DEF Counted
    <3>3. \A c : On(c, Counted)' = On(c, Counted)
      BY <3>2 DEF On
    <3>4. sockets' \cap Logged' = {} /\ InHand(Hub)' \cap (sockets' \cup Logged') = {}
      BY <1>1, <2>1, <2>5, <2>8, <3>1 DEF MulticastInv
    <3>5. sockets' \subseteq Sent' /\ Logged' \subseteq Sent' /\ InHand(Hub)' \subseteq Sent'
      BY <1>1, <2>1, <2>4, <2>8, <3>1 DEF MulticastInv
    <3> QED
      BY <1>1, <2>1, <2>6, <3>1, <3>3, <3>4, <3>5 DEF MulticastInv
  <2> QED
    BY <1>11, <2>7, <2>8 DEF SendDatagram
<1>12. CASE AllSent
  <2>1. next = Len(SimFrames) + 1 /\ main_pc = "send" /\ main_pc' = "poll"
    BY <1>1, <1>2, <1>12 DEF AllSent, NextInv
  <2>2. Sent = SimFrameSet /\ Sent' = SimFrameSet
    BY <1>1, <1>2, <2>1 DEF Sent, SimFrameSet
  <2> QED
    BY <1>4, <1>12, <2>2 DEF AllSent
<1>13. CASE StopPolling \/ Decide
  BY <1>4, <1>13 DEF StopPolling, Decide, Sent
<1>14. CASE StopHub
  <2>1. UNCHANGED <<log, sockets, datagrams, writer_pc, frame, hub_pc>>
    BY <1>14 DEF StopHub
  <2> QED
    BY <1>3, <1>4, <1>14, <2>1, StopHubGoes DEF StopHub, Sent
<1>15. CASE JoinHub
  BY <1>3, <1>15 DEF JoinHub, AfterJoinHub
<1>16. CASE PublishDirectly
  BY <1>3, <1>16 DEF PublishDirectly
<1>17. CASE AllPublished \/ PublishLz4 \/ Lz4Processed \/ CompressFails \/ StopSimulator
  BY <1>3, <1>17 DEF AllPublished, PublishLz4, Lz4Processed, CompressFails, StopSimulator
<1>18. CASE StopReader
  BY <1>3, <1>18, StopReaderGoes DEF StopReader
<1>19. CASE JoinReader \/ Trade \/ DestroySimulator
  BY <1>3, <1>19 DEF JoinReader, Trade, DestroySimulator
<1>20. CASE Unmap
  BY <1>3, <1>20 DEF Unmap
<1>21. CASE PublishStep(Main) /\ UNCHANGED <<socketVars, mainVars, hubVars, netVars>>
  <2>1. writer_pc[Main] # "idle"
    BY <1>1, <1>21, WriterMoves DEF PublishStep, Moves, Publishing
  <2>2. main_pc \in {"publish", "lz4_wait"} /\ main_pc' = main_pc
    BY <1>1, <1>21, <2>1 DEF ControlInv
  <2> QED
    BY <1>3, <2>2
<1> QED
  BY <1>5, <1>6, <1>7, <1>8, <1>9, <1>10, <1>11, <1>12, <1>13, <1>14, <1>15, <1>16, <1>17, <1>18,
     <1>19, <1>20, <1>21 DEF MainStep

LEMMA MulticastKeptByHub ==
  ASSUME FeedInv, HubStep
  PROVE  MulticastInv'
<1>1. /\ InletTypeOK /\ InletInv /\ ControlInv /\ MulticastInv
      /\ HistoryInv /\ WriterInv /\ HubTypeOK
      /\ Hub \in Writers
  BY WritersAssumption, TypeParts DEF FeedInv, InletInv
<1>2. main_pc' = main_pc /\ Sent' = Sent
  BY DEF HubStep, HubCopy, HubCheck, HubPoll, HubRecv, HubPublish, HubCount, HubWait, mainVars, Sent
<1> USE DEF HubGoto, inletVars, writerVars, readerVars, netVars
<1>3. CASE HubCopy \/ HubCheck \/ HubPoll
  BY <1>1, <1>2, <1>3, MulticastCarried DEF HubCopy, HubCheck, HubPoll, InHand
<1>4. CASE HubWait
  <2>1. LoadAwaited(Hub) \/ WaitUntilProcessed(Hub)
    BY <1>4 DEF HubWait
  <2>2. UNCHANGED <<sockets, datagrams>> /\ hub_pc # "count" /\ hub_pc' # "count"
    BY <1>4 DEF HubWait
  <2> QED
    BY <1>1, <1>2, <2>1, <2>2, OtherStepsLogNothing, MulticastCarried
<1> SUFFICES ASSUME main_pc \in BeforeWriting, HubRecv \/ HubPublish \/ HubCount PROVE MulticastInv'
  BY <1>2, <1>3, <1>4 DEF HubStep, MulticastInv
<1>5. CASE HubRecv
  <2>1. PICK f \in sockets : sockets' = sockets \ {f} /\ PublishBegin(Hub, f)
    BY <1>5 DEF HubRecv
  <2>2. hub_pc = "recv" /\ hub_pc' = "publish" /\ datagrams' = datagrams
    BY <1>5 DEF HubRecv
  <2>3. log' = log /\ InHand(Hub) = {} /\ InHand(Hub)' = {f}
    BY <1>1, <2>1, BeginLogsNothing
  <2>4. Logged' = Logged /\ LoggedOnce' = LoggedOnce
    BY <2>3, LogUnchanged
  <2>5. Counted' = Counted
    BY <2>2, <2>4 DEF Counted
  <2>6. \A c : On(c, Counted)' = On(c, Counted)
    BY <2>5 DEF On
  <2> QED
    BY <1>1, <1>2, <2>1, <2>2, <2>3, <2>4, <2>6 DEF MulticastInv
<1>6. CASE HubPublish
  <2>1. hub_pc = "publish" /\ UNCHANGED <<sockets, datagrams>>
    BY <1>6 DEF HubPublish
  <2>2. CASE (PublishCopy(Hub) \/ PublishIndex(Hub)) /\ UNCHANGED hub_pc
    BY <1>1, <1>2, <2>1, <2>2, OtherStepsLogNothing, MulticastCarried
  <2>3. CASE PublishSequence(Hub) /\ hub_pc' = "count"
    <3>1. /\ Logged' = Logged \cup {frame[Hub]}
          /\ LoggedOnce /\ frame[Hub] \notin Logged => LoggedOnce'
          /\ InHand(Hub) = {frame[Hub]} /\ InHand(Hub)' = {} /\ frame' = frame
      BY <1>1, <2>3, SequenceLogs
    <3>2. frame[Hub] \notin Logged /\ frame[Hub] \notin sockets /\ frame[Hub] \in Sent
      BY <1>1, <3>1 DEF MulticastInv
    <3>3. Counted = Logged /\ Counted' = Logged
      BY <2>1, <2>3, <3>1, <3>2 DEF Counted
    <3>4. \A c : On(c, Counted)' = On(c, Counted)
      BY <3>3 DEF On
    <3> QED
      BY <1>1, <1>2, <2>1, <3>1, <3>2, <3>4 DEF MulticastInv
  <2> QED
    BY <1>6, <2>2, <2>3 DEF HubPublish
<1>7. CASE HubCount
  <2> DEFINE f == frame[Hub]
             d == Channel[f]
  <2>1. /\ hub_pc = "count" /\ hub_pc' = "wait" /\ UNCHANGED <<log, frame, writer_pc, sockets>>
        /\ datagrams' = [datagrams EXCEPT ![d] = @ + 1]
    BY <1>7 DEF HubCount
  <2>2. Logged' = Logged /\ LoggedOnce' = LoggedOnce /\ InHand(Hub)' = InHand(Hub)
    BY <2>1, LogUnchanged DEF InHand
  <2>3. Counted = Logged \ {f} /\ Counted' = Logged /\ f \in Logged
    BY <1>1, <2>1, <2>2 DEF Counted, MulticastInv
  <2>4. Logged \subseteq SimFrameSet /\ IsFiniteSet(SimFrameSet)
    BY <1>1, SentFacts, SimFrameFacts DEF MulticastInv
  <2>5. ASSUME NEW c \in ChannelSet PROVE datagrams'[c] = Cardinality(On(c, Logged))
    <3>1. On(c, Counted) \subseteq SimFrameSet
      BY <2>3, <2>4 DEF On
    <3>2. IsFiniteSet(On(c, Counted))
      BY <2>4, <3>1, FS_Subset
    <3>3. datagrams[c] = Cardinality(On(c, Counted)) /\ datagrams \in [ChannelSet -> Nat]
      BY <1>1 DEF MulticastInv, HubTypeOK
    <3>4. CASE c = d
      <4>1. On(c, Logged) = On(c, Counted) \cup {f} /\ f \notin On(c, Counted)
        BY <2>3, <3>4 DEF On
      <4>2. Cardinality(On(c, Logged)) = Cardinality(On(c, Counted)) + 1
        BY <3>2, <4>1, FS_AddElement
      <4> QED
        BY <2>1, <3>3, <3>4, <4>2
    <3>5. CASE c # d
      <4>1. On(c, Logged) = On(c, Counted)
        BY <2>3, <3>5 DEF On
      <4> QED
        BY <2>1, <3>3, <3>5, <4>1
    <3> QED
      BY <3>4, <3>5
  <2>6. \A c : On(c, Counted)' = On(c, Logged)
    BY <2>3 DEF On
  <2> QED
    BY <1>1, <1>2, <2>1, <2>2, <2>5, <2>6 DEF MulticastInv
<1> QED
  BY <1>5, <1>6, <1>7

LEMMA ReaderLogsNothing ==
  ASSUME ReaderThread
  PROVE  /\ UNCHANGED <<log, frame, writer_pc, mainVars, hubVars, netVars>>
         /\ Logged' = Logged /\ LoggedOnce' = LoggedOnce /\ \A w : InHand(w)' = InHand(w)
<1>1. UNCHANGED <<log, frame, writer_pc, mainVars, hubVars, netVars>>
  BY DEF ReaderThread, ReaderStep, ReaderCheck, ReaderLoad, ReaderSlot, ReaderHeader, ReaderIngest,
         ReaderStore, writerVars
<1> QED
  BY <1>1, LogUnchanged DEF InHand

LEMMA MulticastKept ==
  ASSUME FeedInv, Next
  PROVE  MulticastInv'
<1>1. CASE ReaderThread
  <2>1. Sent' = Sent
    BY <1>1, ReaderLogsNothing DEF mainVars, Sent
  <2> QED
    BY <1>1, <2>1, ReaderLogsNothing, MulticastCarried DEF FeedInv, mainVars, hubVars, netVars
<1> QED
  BY <1>1, MulticastKeptByMain, MulticastKeptByHub DEF Next

-----------------------------------------------------------------------------
(* What the decision is worth, and what main adds to it.                   *)

(* Counters that are high enough mean every frame is in the log: the hub   *)
(* counts on each channel no frame twice and none but main's.              *)
LEMMA EnoughMeansAll ==
  ASSUME FeedInv, main_pc = "decide", Enough
  PROVE  Logged = SimFrameSet
<1>1. /\ Logged \subseteq SimFrameSet
      /\ \A c \in ChannelSet : datagrams[c] = Cardinality(On(c, Counted))
  BY SentFacts DEF FeedInv, MulticastInv, BeforeWriting, Multicast
<1> SUFFICES ASSUME NEW f \in SimFrameSet PROVE f \in Logged
  BY <1>1
<1> DEFINE c == Channel[f]
           all == {g \in SimFrameSet : Channel[g] = c}
<1>2. c \in ChannelSet /\ IsFiniteSet(all) /\ f \in all
  BY SimFrameFacts, ChannelsAssumption, FS_Subset
<1>3. On(c, Counted) \subseteq all
  BY <1>1 DEF On, Counted
<1>4. IsFiniteSet(On(c, Counted)) /\ Cardinality(On(c, Counted)) <= Cardinality(all)
  BY <1>2, <1>3, FS_Subset
<1>5. Cardinality(On(c, Counted)) \in Nat /\ Cardinality(all) \in Nat
  BY <1>2, <1>4, FS_CardinalityType
<1>6. Cardinality(On(c, Counted)) >= Expected[c] /\ Expected[c] \in Nat
  BY <1>1, <1>2, ExpectedAssumption DEF Enough
<1>7. Expected[c] >= Cardinality(all)
  BY <1>2, ExpectedAssumption
<1>8. Cardinality(On(c, Counted)) = Cardinality(all)
  BY <1>4, <1>5, <1>6, <1>7
<1>9. On(c, Counted) = all
  BY <1>2, <1>3, <1>8, FS_Subset
<1> QED
  BY <1>2, <1>9 DEF On, Counted

LEMMA ReceivedKept ==
  ASSUME FeedInv, Next
  PROVE  ReceivedInv'
<1>1. /\ InletTypeOK /\ InletInv /\ HistoryInv /\ WriterInv /\ ControlInv /\ MulticastInv /\ ReceivedInv
      /\ DirectInv /\ Main \in Writers /\ Hub \in Writers /\ Main # Hub
  BY WritersAssumption DEF FeedInv, TypeOK, InletInv, Main, Hub
<1> USE DEF MainGoto, BeforeWriting, BeforeHub, Multicast, mainVars
<1> SUFFICES ASSUME multicast_received' PROVE AllReceived'
  BY DEF ReceivedInv
<1>2. CASE Decide
  <2>1. main_pc = "decide" /\ main_pc' = "stop_hub" /\ Enough /\ log' = log
    BY <1>2 DEF Decide, inletVars
  <2>2. Logged' = SimFrameSet /\ LoggedOnce'
    BY <1>1, <2>1, EnoughMeansAll, LogUnchanged DEF MulticastInv
  <2> QED
    BY <2>1, <2>2 DEF AllReceived
<1>3. SUFFICES ASSUME ~ Decide PROVE AllReceived'
  BY <1>2
<1>4. multicast_received
  <2>1. CASE MainStep
    BY <1>3, <2>1 DEF MainStep, MapRegion, StartReader, OpenHub, UndoHub, StartHubThread, OpenSimulator,
       SendDatagram, AllSent, StopPolling, StopHub, JoinHub, PublishDirectly, AllPublished, PublishLz4,
       Lz4Processed, CompressFails, StopSimulator, StopReader, JoinReader, Trade, DestroySimulator, Unmap
  <2>2. CASE HubStep \/ ReaderThread
    BY <2>2 DEF HubStep, HubCopy, HubCheck, HubPoll, HubRecv, HubPublish, HubCount, HubWait, ReaderThread
  <2> QED
    BY <2>1, <2>2 DEF Next
<1>5. AllReceived
  BY <1>1, <1>4 DEF ReceivedInv
(* Where main may be, its frames are all there already. *)
<1>6. ASSUME UNCHANGED <<log, main_pc, writer_pc>> PROVE AllReceived'
  BY <1>5, <1>6, LogUnchanged DEF AllReceived
<1>7. ASSUME log' = log,
             main_pc' \notin {"map", "abort", "start_hub", "undo_hub", "start_thread", "start_sim",
                              "send", "poll", "decide", "stop_hub", "join_hub", "publish", "lz4", "lz4_wait"}
      PROVE  AllReceived'
  BY <1>5, <1>7, LogUnchanged DEF AllReceived
<1>8. CASE MapRegion \/ StartReader \/ OpenHub \/ UndoHub \/ StartHubThread \/ OpenSimulator
  BY <1>5, <1>8 DEF MapRegion, StartReader, OpenHub, UndoHub, StartHubThread, OpenSimulator, OpenNextOf,
     AllReceived
<1>9. CASE SendDatagram \/ AllSent \/ StopPolling \/ PublishDirectly \/ AllPublished
  BY <1>5, <1>9 DEF SendDatagram, AllSent, StopPolling, PublishDirectly, AllPublished, AllReceived
<1>10. CASE StopHub
  <2>1. UNCHANGED <<log, writer_pc>>
    BY <1>10 DEF StopHub, inletVars, writerVars
  <2>2. CASE main_pc = "stop_hub" /\ main_pc' = "join_hub"
    BY <1>5, <2>1, <2>2, LogUnchanged DEF AllReceived
  <2> QED
    BY <1>7, <1>10, <2>1, <2>2, StopHubGoes DEF StopHub
<1>11. CASE JoinHub
  <2>1. UNCHANGED <<log, writer_pc>>
    BY <1>11 DEF JoinHub, inletVars, writerVars
  <2>2. CASE main_pc = "join_hub"
    <3>1. main_pc' = "lz4"
      BY <1>4, <1>11, <2>2 DEF JoinHub, AfterJoinHub
    <3> QED
      BY <1>5, <2>1, <2>2, <3>1, LogUnchanged DEF AllReceived
  <2>3. CASE main_pc # "join_hub"
    BY <1>7, <1>11, <2>1, <2>3 DEF JoinHub, AfterJoinHub
  <2> QED
    BY <2>2, <2>3
<1>12. CASE PublishLz4
  <2>1. log' = log /\ main_pc = "lz4" /\ main_pc' = "lz4_wait"
    BY <1>12 DEF PublishLz4, PublishBegin
  <2> QED
    BY <1>5, <2>1, LogUnchanged DEF AllReceived
<1>13. CASE Lz4Processed \/ CompressFails \/ StopSimulator
  BY <1>7, <1>13 DEF Lz4Processed, CompressFails, StopSimulator, inletVars
<1>14. CASE StopReader
  <2>1. log' = log
    BY <1>14 DEF StopReader, ReaderStop
  <2> QED
    BY <1>7, <1>14, <2>1, StopReaderGoes DEF StopReader
<1>15. CASE JoinReader \/ Trade \/ DestroySimulator
  BY <1>7, <1>15 DEF JoinReader, Trade, DestroySimulator, inletVars
<1>16. CASE Unmap
  BY <1>7, <1>16 DEF Unmap, inletVars
<1>17. CASE PublishStep(Main) /\ UNCHANGED <<socketVars, mainVars, hubVars, netVars>>
  <2>1. writer_pc[Main] # "idle" /\ main_pc' = main_pc
    BY <1>1, <1>17, WriterMoves DEF PublishStep, Moves, Publishing
  <2>2. main_pc = "lz4_wait"
    BY <1>1, <1>5, <2>1 DEF ControlInv, AllReceived
  <2>3. CASE PublishSequence(Main)
    <3>1. /\ LoggedOnce /\ frame[Main] \notin Logged => LoggedOnce'
          /\ writer_pc[Main] \in Publishing /\ writer_pc'[Main] \notin Publishing
      BY <1>1, <2>3, SequenceLogs, WriterMoves DEF Moves, Publishing
    <3>2. Logged = SimFrameSet /\ frame[Main] = Lz4Frame
      BY <1>1, <1>5, <2>2, <3>1 DEF AllReceived, DirectInv
    <3> QED
      BY <1>5, <2>1, <2>2, <3>1, <3>2, SimFramesAssumption DEF AllReceived
  <2>4. CASE PublishCopy(Main) \/ PublishIndex(Main) \/ LoadAwaited(Main) \/ WaitUntilProcessed(Main)
    <3>1. log' = log
      BY <1>1, <2>4, OtherStepsLogNothing
    <3>2. writer_pc'[Main] \in Publishing => writer_pc[Main] \in Publishing
      BY <1>1, <2>4, WriterMoves DEF Moves, Publishing
    <3> QED
      BY <1>5, <2>1, <2>2, <3>1, <3>2, LogUnchanged DEF AllReceived
  <2> QED
    BY <1>17, <2>3, <2>4 DEF PublishStep
<1>18. CASE ReaderThread
  BY <1>6, <1>18, ReaderLogsNothing
<1>19. CASE HubCopy \/ HubCheck \/ HubPoll \/ HubCount
  BY <1>6, <1>19 DEF HubCopy, HubCheck, HubPoll, HubCount, inletVars, writerVars
(* Once all frames are there the hub has none in its hand to log. *)
<1>20. CASE HubRecv \/ HubPublish \/ HubWait
  <2>1. main_pc' = main_pc /\ main_pc \in {"stop_hub", "join_hub"}
    BY <1>1, <1>5, <1>20, HubAtWork DEF HubRecv, HubPublish, HubWait, HubGoto, AllReceived
  <2>2. Logged = SimFrameSet
    BY <1>5, <2>1 DEF AllReceived
  <2>3. log' = log
    <3>1. CASE PublishSequence(Hub)
      <4>1. InHand(Hub) = {frame[Hub]}
        BY <1>1, <3>1, SequenceLogs
      <4>2. frame[Hub] \in Sent /\ frame[Hub] \notin Logged
        BY <1>1, <2>1, <4>1 DEF MulticastInv
      <4> QED
        BY <2>2, <4>2, SentFacts
    <3> QED
      BY <1>1, <1>20, <3>1, OtherStepsLogNothing, BeginLogsNothing DEF HubRecv, HubPublish, HubWait
  <2> QED
    BY <1>5, <2>1, <2>3, LogUnchanged DEF AllReceived
<1> QED
  BY <1>3, <1>8, <1>9, <1>10, <1>11, <1>12, <1>13, <1>14, <1>15, <1>16, <1>17, <1>18, <1>19, <1>20
     DEF Next, MainStep, HubStep

DirectPcs == {"publish", "lz4", "lz4_wait", "stop_sim", "stop_reader", "join_reader", "trade"}

LEMMA IdleHandIsEmpty ==
  ASSUME NEW w, writer_pc[w] = "idle"
  PROVE  InHand(w) = {}
<1> QED
  BY DEF InHand, Publishing

LEMMA DirectKept ==
  ASSUME FeedInv, Next
  PROVE  DirectInv'
<1>1. /\ InletTypeOK /\ HistoryInv /\ WriterInv /\ ControlInv /\ NextInv /\ ReceivedInv /\ DirectInv
      /\ next \in Nat /\ Main \in Writers /\ Hub \in Writers
  BY WritersAssumption DEF FeedInv, TypeOK, InletInv
<1>2. DOMAIN SimFrames = 1 .. Len(SimFrames) /\ Len(SimFrames) \in Nat
  BY SimFrameFacts
<1> USE DEF MainGoto, mainVars, DirectPcs
<1>3. ASSUME main_pc' \notin DirectPcs PROVE DirectInv'
  BY <1>3 DEF DirectInv
<1>4. ASSUME UNCHANGED <<log, writer_pc, frame, main_pc, next>> PROVE DirectInv'
  <2>1. Logged' = Logged /\ InHand(Main)' = InHand(Main)
    BY <1>4, LogUnchanged DEF InHand
  <2> QED
    BY <1>1, <1>4, <2>1 DEF DirectInv
<1>5. ASSUME main_pc' = "publish", next' = 1 PROVE DirectInv'
  BY <1>5 DEF DirectInv
<1>6. ASSUME log' = log, main_pc \in DirectPcs \ {"publish", "lz4", "lz4_wait"},
             main_pc' \in DirectPcs \ {"publish", "lz4", "lz4_wait"}
      PROVE  DirectInv'
  BY <1>1, <1>6, LogUnchanged DEF DirectInv
<1>7. CASE MapRegion \/ StartReader \/ StartHubThread \/ SendDatagram \/ AllSent
  BY <1>3, <1>7 DEF MapRegion, StartReader, StartHubThread, SendDatagram, AllSent
<1>8. CASE OpenHub \/ StopPolling \/ Decide
  BY <1>3, <1>8 DEF OpenHub, OpenNextOf, StopPolling, Decide
<1>9. CASE UndoHub
  BY <1>1, <1>5, <1>9 DEF UndoHub, NextInv
<1>10. CASE OpenSimulator
  BY <1>1, <1>3, <1>5, <1>10 DEF OpenSimulator, OpenNextOf, NextInv
<1>11. CASE StopHub
  BY <1>3, <1>11, StopHubGoes DEF StopHub
<1>12. CASE JoinHub
  <2>1. CASE main_pc = "join_hub" /\ multicast_received
    <3>1. main_pc' = "lz4" /\ log' = log
      BY <1>12, <2>1 DEF JoinHub, AfterJoinHub, inletVars
    <3>2. Logged = SimFrameSet
      BY <1>1, <2>1 DEF ReceivedInv, AllReceived
    <3> QED
      BY <3>1, <3>2, LogUnchanged DEF DirectInv
  <2>2. CASE main_pc = "join_hub" /\ ~ multicast_received
    BY <1>1, <1>5, <1>12, <2>2 DEF JoinHub, AfterJoinHub, NextInv
  <2>3. CASE main_pc # "join_hub"
    BY <1>3, <1>12, <2>3 DEF JoinHub, AfterJoinHub
  <2> QED
    BY <2>1, <2>2, <2>3
<1>13. CASE PublishDirectly
  <2> DEFINE f == SimFrames[next]
  <2>1. /\ main_pc = "publish" /\ main_pc' = "publish" /\ next' = next + 1
        /\ next \in DOMAIN SimFrames /\ PublishBegin(Main, f)
    BY <1>13 DEF PublishDirectly
  <2>2. log' = log /\ InHand(Main) = {} /\ InHand(Main)' = {f}
    BY <1>1, <2>1, BeginLogsNothing
  <2>3. \A i \in 1 .. next - 1 : SimFrames[i] \in Logged
    BY <1>1, <2>1, <2>2 DEF DirectInv
  <2>4. ASSUME NEW i \in 1 .. next' - 1 PROVE SimFrames[i] \in Logged' \cup InHand(Main)'
    <3>1. i \in 1 .. next - 1 \/ i = next
      BY <1>1, <2>1
    <3> QED
      BY <2>2, <2>3, <3>1, LogUnchanged
  <2> QED
    BY <2>1, <2>4 DEF DirectInv
<1>14. CASE AllPublished
  <2>1. next = Len(SimFrames) + 1 /\ main_pc = "publish" /\ main_pc' = "lz4" /\ log' = log
    BY <1>1, <1>2, <1>14 DEF AllPublished, NextInv, inletVars
  <2>2. InHand(Main) = {}
    BY <1>14, IdleHandIsEmpty DEF AllPublished
  <2>3. SimFrameSet \subseteq Logged
    BY <1>1, <1>2, <2>1, <2>2 DEF DirectInv, SimFrameSet
  <2> QED
    BY <2>1, <2>3, LogUnchanged DEF DirectInv
<1>15. CASE PublishLz4
  <2>1. main_pc = "lz4" /\ main_pc' = "lz4_wait" /\ PublishBegin(Main, Lz4Frame)
    BY <1>15 DEF PublishLz4
  <2>2. log' = log /\ InHand(Main)' = {Lz4Frame} /\ frame'[Main] = Lz4Frame
    BY <1>1, <2>1, BeginLogsNothing
  <2> QED
    BY <1>1, <2>1, <2>2, LogUnchanged DEF DirectInv
<1>16. CASE Lz4Processed
  <2>1. main_pc = "lz4_wait" /\ main_pc' = "stop_sim" /\ log' = log /\ InHand(Main) = {}
    BY <1>16, IdleHandIsEmpty DEF Lz4Processed, inletVars
  <2> QED
    BY <1>1, <2>1, LogUnchanged DEF DirectInv
<1>17. CASE CompressFails \/ DestroySimulator \/ Trade
  BY <1>3, <1>17 DEF CompressFails, DestroySimulator, Trade
<1>18. CASE StopSimulator
  BY <1>6, <1>18 DEF StopSimulator, inletVars
<1>19. CASE StopReader
  <2>1. log' = log
    BY <1>19 DEF StopReader, ReaderStop
  <2> QED
    BY <1>3, <1>6, <1>19, <2>1, StopReaderGoes DEF StopReader
<1>20. CASE JoinReader
  BY <1>3, <1>6, <1>20 DEF JoinReader, inletVars
<1>21. CASE Unmap
  BY <1>3, <1>21 DEF Unmap
<1>22. CASE PublishStep(Main) /\ UNCHANGED <<socketVars, mainVars, hubVars, netVars>>
  <2>1. writer_pc[Main] # "idle" /\ main_pc' = main_pc /\ next' = next
    BY <1>1, <1>22, WriterMoves DEF PublishStep, Moves, Publishing
  <2>2. main_pc \in {"publish", "lz4_wait"}
    BY <1>1, <2>1 DEF ControlInv
  <2>3. /\ Logged' \cup InHand(Main)' = Logged \cup InHand(Main)
        /\ Logged \subseteq Logged' /\ frame' = frame
        /\ writer_pc'[Main] \in Publishing => writer_pc[Main] \in Publishing
    <3>1. CASE PublishSequence(Main)
      BY <1>1, <3>1, SequenceLogs, WriterMoves DEF Moves, Publishing
    <3>2. CASE PublishCopy(Main) \/ PublishIndex(Main) \/ LoadAwaited(Main) \/ WaitUntilProcessed(Main)
      BY <1>1, <3>2, OtherStepsLogNothing, LogUnchanged, WriterMoves DEF Moves, Publishing
    <3> QED
      BY <1>22, <3>1, <3>2 DEF PublishStep
  <2> QED
    BY <1>1, <2>1, <2>2, <2>3 DEF DirectInv
<1>23. CASE ReaderThread
  BY <1>4, <1>23, ReaderLogsNothing
<1>24. CASE HubStep
  <2>1. main_pc' = main_pc /\ next' = next
    BY <1>24 DEF HubStep, HubCopy, HubCheck, HubPoll, HubRecv, HubPublish, HubCount, HubWait
  <2>2. CASE HubCopy \/ HubCheck \/ HubPoll \/ HubCount
    BY <1>4, <2>1, <2>2 DEF HubCopy, HubCheck, HubPoll, HubCount, inletVars, writerVars
  <2>3. CASE HubRecv \/ HubPublish \/ HubWait
    <3>1. main_pc \in Multicast
      BY <1>1, <2>3, HubAtWork DEF HubRecv, HubPublish, HubWait, HubGoto
    <3> QED
      BY <1>3, <2>1, <3>1 DEF Multicast
  <2> QED
    BY <1>24, <2>2, <2>3 DEF HubStep
<1> QED
  BY <1>7, <1>8, <1>9, <1>10, <1>11, <1>12, <1>13, <1>14, <1>15, <1>16, <1>17, <1>18, <1>19, <1>20,
     <1>21, <1>22, <1>23, <1>24 DEF Next, MainStep

-----------------------------------------------------------------------------
(* The invariant is inductive.                                             *)

LEMMA FeedInvInit == Init => FeedInv
<1> SUFFICES ASSUME Init PROVE FeedInv
  OBVIOUS
<1> USE DEF Init, InletInit, SocketsInit
<1>1. InletTypeOK
  <2>1. log \in Seq(Frames) /\ taken \in Seq(Frames \cup {NoFrame, Torn})
    BY EmptySeq
  <2>2. slots \in [0 .. kSlots - 1 -> Frames \cup {NoFrame, Torn}] /\ 0 \in 0 .. kSlots - 1
    BY DEF kSlots
  <2>3. /\ writer_pc \in [Writers -> {"idle", "copy", "copying", "index", "sequence", "load", "wait"}]
        /\ frame \in [Writers -> Frames \cup {NoFrame}]
        /\ write \in [Writers -> 0 .. kSlots - 1] /\ awaited \in [Writers -> Nat]
    BY <2>2
  <2> QED
    BY <2>1, <2>2, <2>3 DEF InletTypeOK
<1>2. SocketsTypeOK /\ MainTypeOK /\ HubTypeOK
  BY DEF SocketsTypeOK, MainTypeOK, MainPcs, HubTypeOK, Closed
<1>3. TypeOK
  BY <1>1, <1>2, TypeParts
<1>4. ControlInv
  BY WritersAssumption DEF ControlInv, HubQuiet, BeforeHub, HubGone
<1>5. ReaderInv /\ WriterInv
  BY DEF ReaderInv, WriterInv, Waiting
<1>6. HistoryInv
  BY DEF HistoryInv
<1>7. DescriptorsInv
  <2>1. \A s \in Endpoints : fd_[s] = Closed
    OBVIOUS
  <2> QED
    BY <2>1, FS_EmptySet DEF DescriptorsInv, IsOpen
<1>8. OpenInv /\ MappedInv
  <2>1. Len(Regions) \in Nat /\ {Regions[i] : i \in 1 .. next - 1} = {}
    BY RegionsAssumption, LenProperties
  <2> QED
    BY <2>1 DEF OpenInv, MappedInv, SimulatorGone, HubGone
<1>9. NextInv
  BY DEF NextInv
<1>10. MulticastInv
  <2>1. Logged = {} /\ LoggedOnce
    BY DEF Logged, LoggedOnce
  <2>2. InHand(Hub) = {}
    BY WritersAssumption, IdleHandIsEmpty
  <2>3. \A c : On(c, Counted) = {}
    BY <2>1 DEF Counted, On
  <2> QED
    BY <2>1, <2>2, <2>3, FS_EmptySet DEF MulticastInv
<1>11. ReceivedInv /\ DirectInv
  BY DEF ReceivedInv, DirectInv
<1> QED
  BY <1>3, <1>4, <1>5, <1>6, <1>7, <1>8, <1>9, <1>10, <1>11 DEF FeedInv, InletInv

LEMMA FeedInvStutters == FeedInv /\ UNCHANGED vars => FeedInv'
<1> SUFFICES ASSUME FeedInv, UNCHANGED vars PROVE FeedInv'
  OBVIOUS
<1> USE DEF vars, inletVars, writerVars, readerVars, socketVars, mainVars, hubVars, netVars
<1>1. TypeOK' /\ ControlInv' /\ InletInv'
  BY DEF FeedInv, TypeOK, InletTypeOK, SocketsTypeOK, ControlInv, HubQuiet, InletInv, ReaderInv,
         WriterInv, HistoryInv
<1>2. DescriptorsInv' /\ OpenInv' /\ MappedInv' /\ NextInv'
  BY DEF FeedInv, DescriptorsInv, OpenInv, MappedInv, NextInv, IsOpen, RegionSet
<1>3. Logged' = Logged /\ LoggedOnce' = LoggedOnce /\ (\A w : InHand(w)' = InHand(w)) /\ Sent' = Sent
  BY LogUnchanged DEF InHand, Sent
<1>4. \A c : On(c, Counted)' = On(c, Counted)
  BY <1>3 DEF Counted, On
<1>5. MulticastInv' /\ ReceivedInv' /\ DirectInv'
  BY <1>3, <1>4 DEF FeedInv, MulticastInv, ReceivedInv, DirectInv, AllReceived
<1> QED
  BY <1>1, <1>2, <1>5 DEF FeedInv

(* Every step of main, the hub and the reader keeps every part of it. *)
THEOREM FeedInvariant == Spec => []FeedInv
<1>1. FeedInv /\ Next => FeedInv'
  <2> SUFFICES ASSUME FeedInv, Next PROVE FeedInv'
    OBVIOUS
  <2>1. TypeOK'
    BY TypeKept
  <2>2. ControlInv'
    BY ControlKeptByMain, ControlKeptByHub, ControlKeptByReader DEF Next
  <2>3. InletInv'
    BY InletKept
  <2>4. DescriptorsInv' /\ OpenInv' /\ MappedInv' /\ NextInv'
    BY DescriptorsKept, OpenKept, MappedKept, NextKept
  <2>5. MulticastInv'
    BY MulticastKept
  <2>6. ReceivedInv' /\ DirectInv'
    BY ReceivedKept, DirectKept
  <2> QED
    BY <2>1, <2>2, <2>3, <2>4, <2>5, <2>6 DEF FeedInv
<1>2. FeedInv /\ [Next]_vars => FeedInv'
  BY <1>1, FeedInvStutters
<1> QED
  BY <1>2, FeedInvInit, PTL DEF Spec

-----------------------------------------------------------------------------
(* The properties.                                                         *)

(* Every variable of the feed phase keeps its type. *)
THEOREM FeedTypes == Spec => []TypeOK
<1>1. FeedInv => TypeOK
  BY DEF FeedInv
<1> QED
  BY <1>1, FeedInvariant, PTL

LEMMA OneWriterFollows ==
  ASSUME FeedInv
  PROVE  OneWriter
<1>1. CASE main_pc \in Multicast
  BY <1>1, OnlyHubWrites DEF FeedInv, Alone, OneWriter
<1>2. CASE main_pc \notin Multicast
  BY <1>2, OnlyMainWrites DEF FeedInv, Alone, OneWriter
<1> QED
  BY <1>1, <1>2

(* Main and the hub never write at the same time, although nothing in      *)
(* publish keeps them apart: the hub is joined before main writes, or, if  *)
(* the simulator did not start, has no datagram to write.                  *)
THEOREM FeedHasOneWriter == Spec => []OneWriter
<1>1. FeedInv => OneWriter
  BY OneWriterFollows
<1> QED
  BY <1>1, FeedInvariant, PTL

(* shared_inlet.hpp's promise of the slot that is safe to read: while the  *)
(* reader is in a slot its writer waits, and there is no other.            *)
THEOREM FeedSlotIsSafeToRead == Spec => []SafeToRead
<1>1. FeedInv => SafeToRead
  <2> SUFFICES ASSUME FeedInv, reader_pc \in {"header", "ingest"},
                      NEW w \in Writers, writer_pc[w] \in {"copy", "copying"}
               PROVE  write[w] # read_slot
    BY DEF SafeToRead
  <2>1. read_slot = published /\ write[w] = 1 - published /\ published \in 0 .. 1
    BY DEF FeedInv, TypeOK, InletTypeOK, InletInv, ReaderInv, WriterInv, kSlots
  <2> QED
    BY <2>1
<1> QED
  BY <1>1, FeedInvariant, PTL

(* The reader handles every frame that was published, whole, once and in   *)
(* order, and who stops waiting finds its own frame handled.               *)
THEOREM FeedHandsOverInOrder == Spec => []HandedOverInOrder
<1>1. FeedInv => HandedOverInOrder
  <2> SUFFICES ASSUME FeedInv PROVE HandedOverInOrder
    OBVIOUS
  <2>1. InletTypeOK /\ ReaderInv /\ WriterInv /\ HistoryInv
    BY DEF FeedInv, TypeOK, InletInv
  <2>2. sequence \in Nat /\ processed \in Nat /\ Len(log) = sequence /\ Len(taken) = last_sequence_
    BY <2>1 DEF InletTypeOK, HistoryInv
  <2>3. last_sequence_ \in {sequence, sequence - 1} /\ processed <= last_sequence_
    BY <2>1, <2>2 DEF ReaderInv
  <2>4. taken = SubSeq(log, 1, Len(taken))
    <3> DEFINE n == Len(taken)
               T == Frames \cup {NoFrame, Torn}
    <3>1. n \in Nat /\ n <= Len(log) /\ Len(log) \in Nat
      BY <2>2, <2>3 DEF InletTypeOK, FeedInv, TypeOK
    <3>2. log \in Seq(T) /\ taken \in Seq(T)
      BY <2>1, SeqMonotonic DEF InletTypeOK
    <3>3. /\ SubSeq(log, 1, n) \in Seq(T)
          /\ Len(SubSeq(log, 1, n)) = n
          /\ \A i \in 1 .. n : SubSeq(log, 1, n)[i] = log[i]
      BY <3>1, <3>2, SubSeqProperties
    <3>4. \A i \in 1 .. n : taken[i] = SubSeq(log, 1, n)[i]
      BY <2>1, <3>3 DEF HistoryInv
    <3> QED
      BY <3>2, <3>3, <3>4, SeqEqual
  <2>5. ASSUME NEW w \in Writers, writer_pc[w] = "wait", processed >= awaited[w]
        PROVE  frame[w] = taken[awaited[w]]
    <3>1. awaited[w] = sequence /\ sequence > 0 /\ frame[w] = log[sequence]
      BY <2>1, <2>5 DEF WriterInv, Waiting
    <3>2. sequence \in 1 .. Len(taken)
      BY <2>2, <2>3, <2>5, <3>1
    <3> QED
      BY <2>1, <3>1, <3>2 DEF HistoryInv
  <2> QED
    BY <2>2, <2>3, <2>4, <2>5 DEF HandedOverInOrder
<1> QED
  BY <1>1, FeedInvariant, PTL

(* Each open descriptor has one owner, through every start that fails half *)
(* way, and main returns with none open and nothing mapped.                *)
THEOREM FeedLeaksNoHandle == Spec => []NoHandleLeaks
<1>1. FeedInv => NoHandleLeaks
  <2> SUFFICES ASSUME FeedInv PROVE NoHandleLeaks
    OBVIOUS
  <2>1. DescriptorsInv /\ OpenInv /\ MappedInv
    BY DEF FeedInv
  <2>2. ASSUME main_pc = "exit" PROVE open_fds = {} /\ mapped = {}
    <3>1. \A s \in Endpoints : fd_[s] = Closed
      BY <2>1, <2>2, EndpointsAssumption DEF OpenInv, SimulatorGone, HubGone, IsOpen, SocketsOf
    <3> QED
      BY <2>1, <2>2, <3>1 DEF DescriptorsInv, MappedInv
  <2> QED
    BY <2>1, <2>2 DEF NoHandleLeaks, DescriptorsInv
<1> QED
  BY <1>1, FeedInvariant, PTL

(* What the hub and the reader use outlives them on every way out of main. *)
THEOREM FeedThreadsKeepWhatTheyUse == Spec => []ThreadsKeepWhatTheyUse
<1>1. FeedInv => ThreadsKeepWhatTheyUse
  <2> SUFFICES ASSUME FeedInv PROVE ThreadsKeepWhatTheyUse
    OBVIOUS
  <2>1. ControlInv /\ DescriptorsInv /\ OpenInv /\ MappedInv
    BY DEF FeedInv
  <2>2. ASSUME hub_pc \notin {"off", "copy"}, NEW c \in ChannelSet
        PROVE  descriptors[c] = fd_[<<Hub, c>>] /\ descriptors[c] \in open_fds
    <3>1. descriptors[c] = fd_[<<Hub, c>>] /\ fd_[<<Hub, c>>] # Closed
      BY <2>1, <2>2 DEF OpenInv, IsOpen
    <3>2. fd_[<<Hub, c>>] \in open_fds
      BY <2>1, <3>1, EndpointFacts DEF DescriptorsInv
    <3> QED
      BY <3>1, <3>2
  <2>3. ASSUME hub_pc # "off" PROVE inlet_ /\ "inlet" \in mapped
    <3>1. inlet_ /\ main_pc \notin {"map", "abort", "unmap", "exit"}
      BY <2>1, <2>3 DEF ControlInv, BeforeHub, HubGone
    <3> QED
      BY <2>1, <3>1, RegionsAssumption DEF MappedInv, RegionSet
  <2>4. ASSUME reader_pc # "off" PROVE mapped = RegionSet
    <3>1. main_pc \notin {"map", "abort", "unmap", "exit"}
      BY <2>1, <2>4 DEF ControlInv, ReaderLives, Multicast
    <3> QED
      BY <2>1, <3>1 DEF MappedInv
  <2> QED
    BY <2>2, <2>3, <2>4 DEF ThreadsKeepWhatTheyUse, RegionSet
<1> QED
  BY <1>1, FeedInvariant, PTL

(* When trading begins no frame is missing, whatever the network lost and  *)
(* whenever main lost patience, and none came twice if multicast brought   *)
(* them all.                                                               *)
THEOREM FeedMissesNothing == Spec => []NothingMissing
<1>1. FeedInv => NothingMissing
  <2> SUFFICES ASSUME FeedInv, main_pc = "trade" PROVE NothingMissing
    BY DEF NothingMissing
  <2>1. InletTypeOK /\ ReaderInv /\ HistoryInv /\ ControlInv /\ ReceivedInv /\ DirectInv
    BY DEF FeedInv, TypeOK, InletInv
  <2>2. \A w \in Writers : writer_pc[w] = "idle"
    BY <2>1, WritersAssumption DEF ControlInv, Multicast, HubQuiet
  <2>3. processed = sequence /\ last_sequence_ = sequence
    BY <2>1, <2>2, NothingPending DEF Waiting
  <2>4. DOMAIN taken = 1 .. sequence /\ DOMAIN log = 1 .. sequence /\ \A i \in DOMAIN taken : taken[i] = log[i]
    BY <2>1, <2>3, LogFacts DEF HistoryInv
  <2>5. IsFiniteSet(DOMAIN taken) /\ sequence \in Nat
    BY <2>1, <2>4, FS_Interval DEF InletTypeOK
  <2>6. ASSUME NEW f \in Logged PROVE Times(f) >= 1 /\ (multicast_received => Times(f) = 1)
    <3> DEFINE times == {i \in DOMAIN taken : taken[i] = f}
    <3>1. PICK k \in DOMAIN taken : taken[k] = f
      BY <2>4, <2>6 DEF Logged
    <3>2. IsFiniteSet(times) /\ k \in times /\ Cardinality(times) \in Nat
      BY <2>5, <3>1, FS_Subset, FS_CardinalityType
    <3>3. Cardinality(times) # 0
      BY <3>2, FS_EmptySet
    <3>4. ASSUME multicast_received PROVE Cardinality(times) = 1
      <4>1. LoggedOnce
        BY <2>1, <3>4 DEF ReceivedInv, AllReceived
      <4>2. times = {k}
        BY <2>4, <3>1, <4>1 DEF LoggedOnce
      <4> QED
        BY <4>2, FS_Singleton
    <3> QED
      BY <3>2, <3>3, <3>4 DEF Times
  <2>7. SimFrameSet \subseteq Logged /\ Lz4Frame \in Logged
    BY <2>1 DEF DirectInv
  <2> QED
    BY <2>3, <2>6, <2>7 DEF NothingMissing
<1> QED
  BY <1>1, FeedInvariant, PTL

-----------------------------------------------------------------------------
(* The inlet hands over one frame at a time.                               *)

(* Where the frame of the call is, by where its writer is; and after a     *)
(* step.                                                                   *)
Behind == IF Len(taken) < Len(log) THEN "inlet" ELSE "reader"

CallOf(w) == {[writer |-> w, frame |-> frame[w]]}

LEMMA PlaceOf ==
  ASSUME NEW w \in Writers, Alone(w)
  PROVE  /\ writer_pc[w] = "idle" => Calls = {} /\ Place = "nowhere"
         /\ writer_pc[w] \in Publishing => Calls = CallOf(w) /\ Place = "writer"
         /\ writer_pc[w] \in Waiting => Calls = CallOf(w) /\ Place = Behind
<1>1. writer_pc[w] = "idle" => Calling = {}
  BY DEF Alone, Calling
<1>2. writer_pc[w] # "idle" => Calling = {w}
  BY DEF Alone, Calling
<1>3. Calling = {} => Calls = {} /\ Place = "nowhere"
  BY DEF Calls, Place
<1>4. Calling = {w} => Calls = CallOf(w)
  BY DEF Calls, CallOf
<1>5. Calling = {w} /\ writer_pc[w] \in Publishing => Place = "writer"
  BY DEF Place, Publishing
<1>6. Calling = {w} /\ writer_pc[w] \in Waiting => Place = Behind
  BY DEF Place, Waiting, Behind
<1> QED
  BY <1>1, <1>2, <1>3, <1>4, <1>5, <1>6 DEF Publishing, Waiting

LEMMA PlaceAfter ==
  ASSUME NEW w \in Writers, Alone(w)'
  PROVE  /\ writer_pc'[w] = "idle" => Calls' = {} /\ Place' = "nowhere"
         /\ writer_pc'[w] \in Publishing => Calls' = CallOf(w)' /\ Place' = "writer"
         /\ writer_pc'[w] \in Waiting => Calls' = CallOf(w)' /\ Place' = Behind'
<1>1. writer_pc'[w] = "idle" => Calling' = {}
  BY DEF Alone, Calling
<1>2. writer_pc'[w] # "idle" => Calling' = {w}
  BY DEF Alone, Calling
<1>3. Calling' = {} => Calls' = {} /\ Place' = "nowhere"
  BY DEF Calls, Place
<1>4. Calling' = {w} => Calls' = CallOf(w)'
  BY DEF Calls, CallOf
<1>5. Calling' = {w} /\ writer_pc'[w] \in Publishing => Place' = "writer"
  BY DEF Place, Publishing
<1>6. Calling' = {w} /\ writer_pc'[w] \in Waiting => Place' = Behind'
  BY DEF Place, Waiting, Behind
<1> QED
  BY <1>1, <1>2, <1>3, <1>4, <1>5, <1>6 DEF Publishing, Waiting

LEMMA WritingHandsOver ==
  ASSUME InletTypeOK, InletInv, NEW w \in Writers, Alone(w),
         (\E f \in Frames : PublishBegin(w, f)) \/ PublishStep(w)
  PROVE  OneFrame!Next \/ UNCHANGED OneFrame!vars
<1>1. /\ sequence \in Nat /\ Len(log) = sequence /\ Len(taken) = last_sequence_
      /\ log \in Seq(Frames) /\ frame \in [Writers -> Frames \cup {NoFrame}]
  BY DEF InletTypeOK, InletInv, HistoryInv
<1>2. ASSUME NEW from, NEW to, Moves(w, from, to) PROVE Alone(w)'
  BY <1>2 DEF Moves, Alone
<1>3. ASSUME NEW f \in Frames, PublishBegin(w, f) PROVE OneFrame!Call(w, f)
  <2>1. Moves(w, {"idle"}, {"copy"})
    BY <1>3, WriterMoves
  <2>2. Calls = {} /\ Calls' = CallOf(w)' /\ Place' = "writer"
    BY <1>2, <2>1, PlaceOf, PlaceAfter DEF Moves, Publishing
  <2>3. frame'[w] = f /\ taken' = taken
    BY <1>1, <1>3 DEF PublishBegin
  <2> QED
    BY <2>2, <2>3 DEF OneFrame!Call, CallOf
<1>4. CASE PublishCopy(w) \/ PublishIndex(w)
  <2>1. Moves(w, Publishing, Publishing)
    BY <1>4, WriterMoves
  <2>2. Calls = CallOf(w) /\ Place = "writer" /\ Calls' = CallOf(w)' /\ Place' = "writer"
    BY <1>2, <2>1, PlaceOf, PlaceAfter DEF Moves
  <2>3. frame' = frame /\ taken' = taken
    BY <1>4 DEF PublishCopy, PublishIndex
  <2> QED
    BY <2>2, <2>3 DEF OneFrame!vars, CallOf
<1>5. CASE PublishSequence(w)
  <2>1. Moves(w, {"sequence"}, {"load"})
    BY <1>5, WriterMoves
  <2>2. Calls = CallOf(w) /\ Place = "writer" /\ Calls' = CallOf(w)' /\ Place' = Behind'
    BY <1>2, <2>1, PlaceOf, PlaceAfter DEF Moves, Publishing, Waiting
  <2>3. last_sequence_ = sequence
    <3>1. \A v \in Writers : writer_pc[v] \notin Waiting
      BY <2>1 DEF Alone, Moves, Waiting
    <3> QED
      BY <3>1, NothingPending DEF InletInv
  <2>4. frame' = frame /\ taken' = taken /\ log' = Append(log, frame[w])
    BY <1>5 DEF PublishSequence
  <2>5. Len(log') = sequence + 1
    <3>1. frame[w] \in Frames
      BY <2>1 DEF InletInv, WriterInv, Moves
    <3> QED
      BY <1>1, <2>4, <3>1, AppendProperties
  <2>6. Behind' = "inlet"
    BY <1>1, <2>3, <2>4, <2>5 DEF Behind
  <2> QED
    BY <2>2, <2>4, <2>6 DEF OneFrame!Next, OneFrame!Give, CallOf
<1>6. CASE LoadAwaited(w)
  <2>1. Moves(w, {"load"}, {"wait"})
    BY <1>6, WriterMoves
  <2>2. Calls = CallOf(w) /\ Place = Behind /\ Calls' = CallOf(w)' /\ Place' = Behind'
    BY <1>2, <2>1, PlaceOf, PlaceAfter DEF Moves, Waiting
  <2>3. frame' = frame /\ taken' = taken /\ log' = log
    BY <1>6 DEF LoadAwaited
  <2> QED
    BY <2>2, <2>3 DEF OneFrame!vars, CallOf, Behind
<1>7. CASE WaitUntilProcessed(w)
  <2>1. Moves(w, {"wait"}, {"idle"})
    BY <1>7, WriterMoves
  <2>2. Calls = CallOf(w) /\ Place = Behind /\ Calls' = {} /\ Place' = "nowhere"
    BY <1>2, <2>1, PlaceOf, PlaceAfter DEF Moves, Waiting
  <2>3. processed >= awaited[w] /\ taken' = taken
    BY <1>7 DEF WaitUntilProcessed
  <2>4. awaited[w] = sequence
    BY <2>1 DEF InletInv, WriterInv, Moves
  <2>5. processed = sequence
    BY <2>3, <2>4 DEF InletInv, ReaderInv, InletTypeOK
  <2>6. last_sequence_ = sequence
    BY <2>5 DEF InletInv, ReaderInv
  <2>7. Behind = "reader"
    BY <1>1, <2>6 DEF Behind
  <2> QED
    BY <2>2, <2>3, <2>7 DEF OneFrame!Next, OneFrame!Return
<1> QED
  BY <1>3, <1>4, <1>5, <1>6, <1>7 DEF PublishStep, OneFrame!Next

LEMMA IngestingHandles ==
  ASSUME InletTypeOK, InletInv, OneWriter, ReaderIngest
  PROVE  OneFrame!Handle
<1>1. processed # sequence /\ seen = sequence /\ last_sequence_ = sequence - 1
  BY DEF InletInv, ReaderInv, ReaderIngest
<1>2. PICK w \in Writers : writer_pc[w] \in Waiting
  BY <1>1 DEF InletInv, ReaderInv
<1>3. Alone(w)
  BY <1>2 DEF OneWriter, Alone, Waiting
<1>4. UNCHANGED <<writer_pc, frame, log>> /\ Alone(w)'
  BY <1>3 DEF ReaderIngest, writerVars, Alone
<1>5. Calls = CallOf(w) /\ Place = Behind /\ Calls' = CallOf(w) /\ Place' = Behind'
  BY <1>2, <1>3, <1>4, PlaceOf, PlaceAfter DEF CallOf
<1>6. slots[read_slot] = log[sequence] /\ reading = log[sequence] /\ sequence > 0
  BY <1>1, PendingIsPublished DEF InletInv, ReaderInv, ReaderIngest
<1>7. taken' = Append(taken, frame[w])
  BY <1>2, <1>6 DEF ReaderIngest, InletInv, WriterInv
<1>8. sequence \in Nat /\ Len(log) = sequence /\ Len(taken) = sequence - 1
  BY <1>1 DEF InletTypeOK, InletInv, HistoryInv
<1>9. Len(taken') = sequence
  <2>1. taken \in Seq(Frames \cup {NoFrame, Torn}) /\ frame[w] \in Frames \cup {NoFrame, Torn}
    BY DEF InletTypeOK
  <2> QED
    BY <1>7, <1>8, <2>1, AppendProperties
<1>10. Behind = "inlet" /\ Behind' = "reader"
  BY <1>4, <1>8, <1>9 DEF Behind
<1>11. \E call \in CallOf(w) : taken' = Append(taken, call.frame)
  BY <1>7 DEF CallOf
<1> QED
  BY <1>5, <1>10, <1>11 DEF OneFrame!Handle

(* What neither writes nor ingests changes nothing. *)
LEMMA OthersHandNothingOver ==
  ASSUME UNCHANGED <<writer_pc, frame, log, taken>>
  PROVE  UNCHANGED OneFrame!vars
<1>1. Calling' = Calling
  BY DEF Calling
<1> QED
  BY <1>1 DEF OneFrame!vars, Calls, Place

(* With one writer at a time, which the feed phase sees to, the shared     *)
(* inlet is a hand-over of one frame after the other.                      *)
THEOREM FeedInletHandsOver == Spec => ImplementsHandOff
<1>1. Init => OneFrame!Init
  <2> SUFFICES ASSUME Init PROVE OneFrame!Init
    OBVIOUS
  <2>1. Calling = {} /\ taken = <<>>
    BY DEF Init, InletInit, Calling
  <2> QED
    BY <2>1 DEF OneFrame!Init, Calls, Place
<1>2. FeedInv /\ [Next]_vars => OneFrame!Next \/ UNCHANGED OneFrame!vars
  <2> SUFFICES ASSUME FeedInv, [Next]_vars PROVE OneFrame!Next \/ UNCHANGED OneFrame!vars
    OBVIOUS
  <2>1. InletTypeOK /\ InletInv /\ OneWriter
    BY OneWriterFollows DEF FeedInv, TypeOK
  <2>2. InletStep
    BY InletSteps DEF InletStep, vars
  <2>3. CASE UNCHANGED inletVars \/ ReaderStart \/ ReaderStop
    <3>1. UNCHANGED <<writer_pc, frame, log, taken>>
      BY <2>3 DEF inletVars, writerVars, ReaderStart, ReaderStop
    <3> QED
      BY <3>1, OthersHandNothingOver
  <2>4. ASSUME NEW w \in Writers, Alone(w), (\E f \in Frames : PublishBegin(w, f)) \/ PublishStep(w)
        PROVE  OneFrame!Next \/ UNCHANGED OneFrame!vars
    BY <2>1, <2>4, WritingHandsOver
  <2>5. CASE ReaderIngest
    BY <2>1, <2>5, IngestingHandles DEF OneFrame!Next
  <2>6. CASE ReaderCheck \/ ReaderLoad \/ ReaderSlot \/ ReaderHeader \/ ReaderStore
    <3>1. UNCHANGED <<writer_pc, frame, log, taken>>
      BY <2>6 DEF ReaderCheck, ReaderLoad, ReaderSlot, ReaderHeader, ReaderStore, writerVars
    <3> QED
      BY <3>1, OthersHandNothingOver
  <2> QED
    BY <2>2, <2>3, <2>4, <2>5, <2>6 DEF InletStep, ReaderStep
<1> QED
  BY <1>1, <1>2, FeedInvariant, PTL DEF Spec, ImplementsHandOff, OneFrame!Spec
=============================================================================
