----------------------------- MODULE FeedStartup -----------------------------
(***************************************************************************)
(* The feed phase of src/main.cpp (203-289) and what main leaves behind:   *)
(* main maps its memory, starts the reader, the multicast hub and the      *)
(* simulator, sends its frames over UDP, polls the hub's counters, gives   *)
(* up after a while, stops the hub, publishes by itself whatever multicast *)
(* is not known to have brought, publishes one lz4 frame, and stops the    *)
(* reader.  The hub thread (include/feed/multicast_receiver.hpp) and main  *)
(* are the two writers of a SharedInlet.  When main returns, early or not, *)
(* its objects go in the reverse order of their declaration.               *)
(*                                                                         *)
(* The network may lose a datagram, or give those of a channel in another  *)
(* order; it does not duplicate one.  Other senders of the same groups may *)
(* be present (Foreign).                                                   *)
(***************************************************************************)
EXTENDS SharedInlet, Sockets

CONSTANTS
  SimFrames,    \* the sequence of frames main publishes, over UDP or directly
  Lz4Frame,     \* the frame main always publishes directly
  Foreign,      \* frames other senders put on the wire, each at most once
  Channels,     \* the sequence of channels, in the order of the poll array
  Channel,      \* frame |-> its channel
  Expected,     \* channel |-> how many datagrams main waits for
  Regions       \* the sequence of regions main's objects map, in that order

Main == "main"
Hub  == "hub"
Simulator == "simulator"

ChannelSet == {Channels[i] : i \in DOMAIN Channels}

SocketsOf(owner) == {<<owner, c>> : c \in ChannelSet}

ASSUME WritersAssumption   == Writers = {Main, Hub}
ASSUME EndpointsAssumption == Endpoints = SocketsOf(Hub) \cup SocketsOf(Simulator)
ASSUME ChannelsAssumption  == Channels \in Seq(STRING) /\ Channel \in [Frames -> ChannelSet]

(* main builds its regions before its threads, the inlet among them. *)
ASSUME RegionsAssumption == Regions \in Seq(STRING) /\ "inlet" \in {Regions[i] : i \in DOMAIN Regions}

VARIABLES
  main_pc,
  next,             \* index of the next of SimFrames to publish
  multicast_ok, multicast_received,
  mapped,           \* the regions that are mapped
  hub_pc, hub_running,
  inlet_,           \* whether the hub's pointer to the inlet is set
  descriptors,      \* the hub thread's copy of its sockets' descriptors, to poll
  ready,            \* the channels the poll reported and the hub has not yet read
  sockets,          \* the datagrams that wait in the hub's sockets
  foreign,          \* what other senders have not sent yet
  datagrams         \* channel |-> the hub's counter

mainVars == <<main_pc, next, multicast_ok, multicast_received, mapped>>
hubVars  == <<hub_pc, hub_running, inlet_, descriptors, ready, datagrams>>
netVars  == <<sockets, foreign>>
vars     == <<inletVars, socketVars, mainVars, hubVars, netVars>>

SimFrameSet == {SimFrames[i] : i \in DOMAIN SimFrames}

(* The frames of main differ from each other, and main waits for no fewer  *)
(* datagrams than it sends.                                                *)
ASSUME SimFramesAssumption ==
  /\ SimFrames \in Seq(Frames)
  /\ \A i, j \in DOMAIN SimFrames : SimFrames[i] = SimFrames[j] => i = j
  /\ Lz4Frame \in Frames \ SimFrameSet

ASSUME ExpectedAssumption ==
  \A c \in ChannelSet :
    Expected[c] \in Nat /\ Expected[c] >= Cardinality({f \in SimFrameSet : Channel[f] = c})

Init ==
  /\ InletInit
  /\ SocketsInit
  /\ main_pc = "map"
  /\ next = 1
  /\ multicast_ok = FALSE
  /\ multicast_received = FALSE
  /\ mapped = {}
  /\ hub_pc = "off"
  /\ hub_running = FALSE
  /\ inlet_ = FALSE
  /\ descriptors = [c \in ChannelSet |-> Closed]
  /\ ready = {}
  /\ sockets = {}
  /\ foreign = Foreign
  /\ datagrams = [c \in ChannelSet |-> 0]

-----------------------------------------------------------------------------
(* main starts everything *)

MainGoto(from, to) == main_pc = from /\ main_pc' = to

(* map and map_shared return a mapping or end the program. *)
MapRegion ==
  /\ main_pc = "map"
  /\ next \in DOMAIN Regions
  /\ \/ /\ mapped' = mapped \cup {Regions[next]}
        /\ next' = next + 1
        /\ UNCHANGED main_pc
     \/ main_pc' = "abort" /\ UNCHANGED <<mapped, next>>
  /\ UNCHANGED <<inletVars, socketVars, multicast_ok, multicast_received, hubVars, netVars>>

StartReader ==
  /\ MainGoto("map", "start_hub")
  /\ next \notin DOMAIN Regions
  /\ next' = 1
  /\ ReaderStart
  /\ UNCHANGED <<socketVars, multicast_ok, multicast_received, mapped, hubVars, netVars>>

(* The next of an owner's sockets is opened.  After the last one, or one   *)
(* that fails, main goes on elsewhere.                                     *)
OpenNextOf(owner, at, done, failed) ==
  /\ main_pc = at
  /\ \E i \in DOMAIN Channels :
       /\ ~ IsOpen(<<owner, Channels[i]>>)
       /\ \A j \in 1 .. i - 1 : IsOpen(<<owner, Channels[j]>>)
       /\ \/ /\ OpenSucceeds(<<owner, Channels[i]>>)
             /\ main_pc' = IF i = Len(Channels) THEN done ELSE at
          \/ OpenFails(<<owner, Channels[i]>>) /\ main_pc' = failed

(* The hub closes what it had opened. *)
OpenHub ==
  /\ OpenNextOf(Hub, "start_hub", "start_thread", "undo_hub")
  /\ UNCHANGED <<inletVars, next, multicast_ok, multicast_received, mapped, hubVars, netVars>>

UndoHub ==
  /\ MainGoto("undo_hub", "publish")
  /\ CloseAll(SocketsOf(Hub))
  /\ UNCHANGED <<inletVars, next, multicast_ok, multicast_received, mapped, hubVars, netVars>>

StartHubThread ==
  /\ MainGoto("start_thread", "start_sim")
  /\ inlet_' = TRUE
  /\ hub_running' = TRUE
  /\ hub_pc' = "copy"
  /\ UNCHANGED <<inletVars, socketVars, next, multicast_ok, multicast_received, mapped,
                 descriptors, ready, datagrams, netVars>>

(* The simulator keeps what it had opened; and the hub thread goes on,     *)
(* although multicast_ok stays false, until main returns.                  *)
OpenSimulator ==
  /\ OpenNextOf(Simulator, "start_sim", "send", "publish")
  /\ multicast_ok' = (main_pc' = "send")
  /\ UNCHANGED <<inletVars, next, multicast_received, mapped, hubVars, netVars>>

-----------------------------------------------------------------------------
(* main feeds *)

(* MulticastSimulator::send: after three failed attempts, or on the way,   *)
(* the datagram is lost.                                                   *)
SendDatagram ==
  /\ main_pc = "send"
  /\ next \in DOMAIN SimFrames
  /\ next' = next + 1
  /\ \/ /\ \A owner \in {Simulator, Hub} : IsOpen(<<owner, Channel[SimFrames[next]]>>)
        /\ sockets' = sockets \cup {SimFrames[next]}
     \/ UNCHANGED sockets
  /\ UNCHANGED <<inletVars, socketVars, main_pc, multicast_ok, multicast_received, mapped,
                 hubVars, foreign>>

AllSent ==
  /\ MainGoto("send", "poll")
  /\ next \notin DOMAIN SimFrames
  /\ next' = 1
  /\ UNCHANGED <<inletVars, socketVars, multicast_ok, multicast_received, mapped, hubVars, netVars>>

(* Mutant: one datagram of each channel is taken for all of them. *)
EnoughOfEach == \A c \in ChannelSet : datagrams[c] >= 1

Enough == \A c \in ChannelSet : datagrams[c] >= Expected[c]

(* The polling loop ends when the counters are high enough, or after a     *)
(* hundred rounds: main may lose patience at any point.                    *)
StopPolling ==
  /\ MainGoto("poll", "decide")
  /\ UNCHANGED <<inletVars, socketVars, next, multicast_ok, multicast_received, mapped, hubVars, netVars>>

(* The counters are read once more, before the hub is told to stop. *)
Decide ==
  /\ MainGoto("decide", "stop_hub")
  /\ multicast_received' = Enough
  /\ UNCHANGED <<inletVars, socketVars, next, multicast_ok, mapped, hubVars, netVars>>

(* MulticastHub::stop is called in the feed phase, when main gives up, and *)
(* by the hub's destructor.                                                *)
HubStops == {<<"stop_hub", "join_hub">>, <<"quit_hub", "join_quit_hub">>,
             <<"destroy_hub", "join_destroyed_hub">>}

(* Mutant: the hub closes its sockets before it joins its thread. *)
StopHubClosing ==
  /\ \E call \in HubStops : MainGoto(call[1], call[2])
  /\ hub_running' = FALSE
  /\ CloseAll(SocketsOf(Hub))
  /\ UNCHANGED <<inletVars, next, multicast_ok, multicast_received, mapped, hub_pc, inlet_,
                 descriptors, ready, datagrams, netVars>>

StopHub ==
  /\ \E call \in HubStops : MainGoto(call[1], call[2])
  /\ hub_running' = FALSE
  /\ UNCHANGED <<inletVars, socketVars, next, multicast_ok, multicast_received, mapped, hub_pc,
                 inlet_, descriptors, ready, datagrams, netVars>>

AfterJoinHub ==
  \/ MainGoto("join_hub", IF multicast_received THEN "lz4" ELSE "publish")
  \/ MainGoto("join_quit_hub", "destroy_sim")
  \/ MainGoto("join_destroyed_hub", "destroy_reader")

(* Mutant: the hub thread is told to stop and not joined. *)
JoinHubWithoutWait ==
  /\ AfterJoinHub
  /\ UNCHANGED <<inletVars, socketVars, next, multicast_ok, multicast_received, mapped, hubVars, netVars>>

(* The sockets are closed with whatever they still hold. *)
JoinHub ==
  /\ AfterJoinHub
  /\ hub_pc = "off"
  /\ CloseAll(SocketsOf(Hub))
  /\ inlet_' = FALSE
  /\ sockets' = {}
  /\ UNCHANGED <<inletVars, next, multicast_ok, multicast_received, mapped, hub_pc, hub_running,
                 descriptors, ready, datagrams, foreign>>

(* publish_and_wait, frame by frame *)
PublishDirectly ==
  /\ main_pc = "publish"
  /\ next \in DOMAIN SimFrames
  /\ PublishBegin(Main, SimFrames[next])
  /\ next' = next + 1
  /\ UNCHANGED <<socketVars, main_pc, multicast_ok, multicast_received, mapped, hubVars, netVars>>

AllPublished ==
  /\ MainGoto("publish", "lz4")
  /\ next \notin DOMAIN SimFrames
  /\ writer_pc[Main] = "idle"
  /\ UNCHANGED <<inletVars, socketVars, next, multicast_ok, multicast_received, mapped, hubVars, netVars>>

PublishLz4 ==
  /\ MainGoto("lz4", "lz4_wait")
  /\ PublishBegin(Main, Lz4Frame)
  /\ UNCHANGED <<socketVars, next, multicast_ok, multicast_received, mapped, hubVars, netVars>>

Lz4Processed ==
  /\ MainGoto("lz4_wait", "stop_sim")
  /\ writer_pc[Main] = "idle"
  /\ UNCHANGED <<inletVars, socketVars, next, multicast_ok, multicast_received, mapped, hubVars, netVars>>

(* compress fails: main stops the reader, then the hub, and returns 2. *)
CompressFails ==
  /\ MainGoto("lz4", "quit_reader")
  /\ UNCHANGED <<inletVars, socketVars, next, multicast_ok, multicast_received, mapped, hubVars, netVars>>

-----------------------------------------------------------------------------
(* main cleans up *)

StopSimulator ==
  /\ MainGoto("stop_sim", "stop_reader")
  /\ CloseAll(IF multicast_ok THEN SocketsOf(Simulator) ELSE {})
  /\ UNCHANGED <<inletVars, next, multicast_ok, multicast_received, mapped, hubVars, netVars>>

ReaderStops == {<<"stop_reader", "join_reader">>, <<"quit_reader", "join_quit_reader">>,
                <<"destroy_reader", "join_destroyed_reader">>}

StopReader ==
  /\ \E call \in ReaderStops : MainGoto(call[1], call[2])
  /\ ReaderStop
  /\ UNCHANGED <<socketVars, next, multicast_ok, multicast_received, mapped, hubVars, netVars>>

JoinReader ==
  /\ \/ MainGoto("join_reader", "trade")
     \/ MainGoto("join_quit_reader", "quit_hub")
     \/ MainGoto("join_destroyed_reader", "unmap")
  /\ reader_pc = "off"
  /\ UNCHANGED <<inletVars, socketVars, next, multicast_ok, multicast_received, mapped, hubVars, netVars>>

(* Everything after the feed phase. *)
Trade ==
  /\ MainGoto("trade", "destroy_sim")
  /\ UNCHANGED <<inletVars, socketVars, next, multicast_ok, multicast_received, mapped, hubVars, netVars>>

DestroySimulator ==
  /\ MainGoto("destroy_sim", "destroy_hub")
  /\ CloseAll(SocketsOf(Simulator))
  /\ UNCHANGED <<inletVars, next, multicast_ok, multicast_received, mapped, hubVars, netVars>>

(* The regions are released from the last to the first. *)
Unmap ==
  /\ main_pc = "unmap"
  /\ \E i \in DOMAIN Regions :
       /\ Regions[i] \in mapped
       /\ \A j \in DOMAIN Regions : Regions[j] \in mapped => j <= i
       /\ mapped' = mapped \ {Regions[i]}
  /\ main_pc' = IF mapped' = {} THEN "exit" ELSE "unmap"
  /\ UNCHANGED <<inletVars, socketVars, next, multicast_ok, multicast_received, hubVars, netVars>>

MainStep ==
  \/ MapRegion \/ StartReader \/ OpenHub \/ UndoHub \/ StartHubThread \/ OpenSimulator
  \/ SendDatagram \/ AllSent \/ StopPolling \/ Decide \/ StopHub \/ JoinHub
  \/ PublishDirectly \/ AllPublished \/ PublishLz4 \/ Lz4Processed \/ CompressFails
  \/ StopSimulator \/ StopReader \/ JoinReader \/ Trade \/ DestroySimulator \/ Unmap
  \/ PublishStep(Main) /\ UNCHANGED <<socketVars, mainVars, hubVars, netVars>>

-----------------------------------------------------------------------------
(* the hub thread *)

HubGoto(from, to) == hub_pc = from /\ hub_pc' = to

(* The descriptors to poll are copied once, when the thread begins. *)
HubCopy ==
  /\ HubGoto("copy", "check")
  /\ descriptors' = [c \in ChannelSet |-> fd_[<<Hub, c>>]]
  /\ UNCHANGED <<inletVars, socketVars, mainVars, hub_running, inlet_, ready, datagrams, netVars>>

HubCheck ==
  /\ HubGoto("check", IF hub_running THEN "poll" ELSE "off")
  /\ UNCHANGED <<inletVars, socketVars, mainVars, hub_running, inlet_, descriptors, ready, datagrams, netVars>>

(* Mutant: poll without a timeout. *)
HubPollForever ==
  /\ sockets # {}
  /\ ready' = {Channel[f] : f \in sockets}
  /\ HubGoto("poll", "recv")
  /\ UNCHANGED <<inletVars, socketVars, mainVars, hub_running, inlet_, descriptors, datagrams, netVars>>

(* poll returns the readable channels, or times out with none. *)
HubPoll ==
  /\ ready' = {Channel[f] : f \in sockets}
  /\ HubGoto("poll", IF ready' = {} THEN "check" ELSE "recv")
  /\ UNCHANGED <<inletVars, socketVars, mainVars, hub_running, inlet_, descriptors, datagrams, netVars>>

(* One datagram of the first channel that poll reported; running_ is not   *)
(* looked at before the round is over.                                     *)
HubRecv ==
  /\ HubGoto("recv", "publish")
  /\ \E f \in sockets :
       /\ Channel[f] \in ready
       /\ \A i, j \in DOMAIN Channels :
            Channels[i] \in ready /\ Channels[j] = Channel[f] => j <= i
       /\ sockets' = sockets \ {f}
       /\ PublishBegin(Hub, f)
  /\ UNCHANGED <<socketVars, mainVars, hub_running, inlet_, descriptors, ready, datagrams, foreign>>

HubPublish ==
  /\ hub_pc = "publish"
  /\ \/ (PublishCopy(Hub) \/ PublishIndex(Hub)) /\ UNCHANGED hub_pc
     \/ PublishSequence(Hub) /\ hub_pc' = "count"
  /\ UNCHANGED <<socketVars, mainVars, hub_running, inlet_, descriptors, ready, datagrams, netVars>>

HubCount ==
  /\ HubGoto("count", "wait")
  /\ datagrams' = [datagrams EXCEPT ![Channel[frame[Hub]]] = @ + 1]
  /\ UNCHANGED <<inletVars, socketVars, mainVars, hub_running, inlet_, descriptors, ready, netVars>>

HubWait ==
  /\ hub_pc = "wait"
  /\ \/ LoadAwaited(Hub) /\ UNCHANGED <<hub_pc, ready>>
     \/ /\ WaitUntilProcessed(Hub)
        /\ ready' = ready \ {Channel[frame[Hub]]}
        /\ hub_pc' = IF ready' = {} THEN "check" ELSE "recv"
  /\ UNCHANGED <<socketVars, mainVars, hub_running, inlet_, descriptors, datagrams, netVars>>

HubStep == HubCopy \/ HubCheck \/ HubPoll \/ HubRecv \/ HubPublish \/ HubCount \/ HubWait

-----------------------------------------------------------------------------

ReaderThread == ReaderStep /\ UNCHANGED <<socketVars, mainVars, hubVars, netVars>>

(* Another sender of the group reaches the hub's sockets while they are    *)
(* open.                                                                   *)
ForeignDatagram ==
  /\ \E f \in foreign :
       /\ IsOpen(<<Hub, Channel[f]>>)
       /\ foreign' = foreign \ {f}
       /\ sockets' = sockets \cup {f}
  /\ UNCHANGED <<inletVars, socketVars, mainVars, hubVars>>

(* The program alone on its groups, and with other senders. *)
Next == MainStep \/ HubStep \/ ReaderThread

OpenNext == Next \/ ForeignDatagram

Spec     == Init /\ [][Next]_vars
OpenSpec == Init /\ [][OpenNext]_vars

(* The three threads are scheduled; poll times out, so the hub goes on. *)
Fairness == WF_vars(MainStep) /\ WF_vars(HubStep) /\ WF_vars(ReaderThread)

FairSpec == Spec /\ Fairness

-----------------------------------------------------------------------------

TypeOK ==
  /\ InletTypeOK /\ SocketsTypeOK
  /\ next \in Nat
  /\ multicast_ok \in BOOLEAN /\ multicast_received \in BOOLEAN
  /\ hub_running \in BOOLEAN /\ inlet_ \in BOOLEAN
  /\ main_pc \in {"map", "abort", "start_hub", "undo_hub", "start_thread", "start_sim", "send", "poll",
                  "decide", "publish", "lz4", "lz4_wait", "stop_sim", "trade", "destroy_sim", "unmap", "exit"}
                 \cup UNION {{call[1], call[2]} : call \in HubStops \cup ReaderStops}
  /\ mapped \subseteq {Regions[i] : i \in DOMAIN Regions}
  /\ hub_pc \in {"off", "copy", "check", "poll", "recv", "publish", "count", "wait"}
  /\ descriptors \in [ChannelSet -> Nat \cup {Closed}]
  /\ ready \subseteq ChannelSet
  /\ sockets \subseteq Frames /\ foreign \subseteq Foreign
  /\ datagrams \in [ChannelSet -> Nat]

Times(f) == Cardinality({i \in DOMAIN taken : taken[i] = f})

(* When trading begins every frame has been ingested, whatever the network *)
(* lost: main takes multicast's word for it only when the counters cover   *)
(* all of them, and else publishes all of them again.                      *)
NothingMissing ==
  main_pc = "trade" =>
    /\ \A f \in SimFrameSet \cup {Lz4Frame} : Times(f) >= 1
    /\ multicast_received => \A f \in SimFrameSet : Times(f) = 1
    /\ processed = sequence

(* Main never overlaps the hub: what the hub has counted it has also seen  *)
(* processed once it is joined, so the reader's backlog is empty when main *)
(* starts to write.                                                        *)
OneWriter ==
  \A w, v \in Writers : writer_pc[w] # "idle" /\ writer_pc[v] # "idle" => w = v

(* What a thread uses outlives it, on every way out of main: the hub polls *)
(* descriptors that are open and still its own, its pointer is not reset,  *)
(* and the memory both threads work on stays mapped until they have ended. *)
ThreadsKeepWhatTheyUse ==
  /\ hub_pc \notin {"off", "copy"} =>
       \A c \in ChannelSet : descriptors[c] = fd_[<<Hub, c>>] /\ descriptors[c] \in open_fds
  /\ hub_pc # "off" => inlet_ /\ "inlet" \in mapped
  /\ reader_pc # "off" => mapped = {Regions[i] : i \in DOMAIN Regions}

(* Each open descriptor belongs to one socket object, through every        *)
(* partial start, and nothing is left open or mapped when main returns.    *)
NoHandleLeaks ==
  /\ open_fds = {fd_[s] : s \in Endpoints} \ {Closed}
  /\ \A s, r \in Endpoints : fd_[s] = fd_[r] /\ IsOpen(s) => s = r
  /\ main_pc = "exit" => open_fds = {} /\ mapped = {}

(* Neither the hub's wait nor main's waits nor the joins hang: the program *)
(* returns unless it ends itself for want of memory.                       *)
MainExits == <>(main_pc \in {"exit", "abort"})
=============================================================================
