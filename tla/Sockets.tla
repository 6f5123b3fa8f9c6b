------------------------------- MODULE Sockets -------------------------------
(***************************************************************************)
(* The sockets of src/udp_multicast.cpp over the process's table of        *)
(* descriptors: each UdpMulticastSocket keeps one descriptor in fd_, or -1,*)
(* and the kernel gives out the lowest number that is free, so that one    *)
(* that was closed soon names another socket.                              *)
(***************************************************************************)
EXTENDS Integers, FiniteSets

CONSTANTS
  Endpoints,    \* the UdpMulticastSocket objects of the process
  FirstFree     \* the lowest descriptor that is free when the program starts

ASSUME DescriptorAssumption == FirstFree \in Nat

VARIABLES
  fd_,          \* socket object |-> its descriptor, or Closed
  open_fds      \* the descriptors the kernel holds open for these sockets

socketVars == <<fd_, open_fds>>

Closed == -1

SocketsInit ==
  /\ fd_ = [s \in Endpoints |-> Closed]
  /\ open_fds = {}

IsOpen(s) == fd_[s] # Closed

(* What ::socket returns. *)
NextDescriptor(held) ==
  CHOOSE d \in FirstFree .. FirstFree + Cardinality(held) :
    d \notin held /\ \A e \in FirstFree .. d - 1 : e \in held

(* open_receiver and open_sender close what the object had, take a new     *)
(* descriptor, set it up and only then keep it.                            *)
OpenSucceeds(s) ==
  LET others == open_fds \ {fd_[s]}
      fd     == NextDescriptor(others)
  IN /\ fd_' = [fd_ EXCEPT ![s] = fd]
     /\ open_fds' = others \cup {fd}

(* Mutant: a descriptor that could not be set up is forgotten, not closed. *)
OpenFailsOpen(s) ==
  LET others == open_fds \ {fd_[s]}
  IN /\ fd_' = [fd_ EXCEPT ![s] = Closed]
     /\ open_fds' = others \cup {NextDescriptor(others)}

(* There is no descriptor left, or an option, the port or the group is     *)
(* refused and the new descriptor closed again.                            *)
OpenFails(s) ==
  /\ fd_' = [fd_ EXCEPT ![s] = Closed]
  /\ open_fds' = open_fds \ {fd_[s]}

CloseAll(S) ==
  /\ fd_' = [s \in Endpoints |-> IF s \in S THEN Closed ELSE fd_[s]]
  /\ open_fds' = open_fds \ {fd_[s] : s \in S}

SocketsTypeOK ==
  /\ fd_ \in [Endpoints -> Nat \cup {Closed}]
  /\ open_fds \subseteq Nat
=============================================================================
