------------------------------- MODULE HandOff -------------------------------
(***************************************************************************)
(* What include/feed/shared_inlet.hpp is for, with no slots and no counts: *)
(* a writer gives the reader one frame and goes on when it was handled.    *)
(* From its call to its return, handing over and handling are one          *)
(* indivisible step each, and nobody else calls in between.                *)
(***************************************************************************)
EXTENDS Sequences

CONSTANTS Writers, Frames

VARIABLES
  calls,    \* the call under way, if there is one: who, and its frame
  place,    \* where that frame is
  handled   \* the frames the reader has handled, in order

vars == <<calls, place, handled>>

Init == calls = {} /\ place = "nowhere" /\ handled = <<>>

Call(w, f) ==
  /\ calls = {}
  /\ calls' = {[writer |-> w, frame |-> f]}
  /\ place' = "writer"
  /\ UNCHANGED handled

Give ==
  /\ place = "writer"
  /\ place' = "inlet"
  /\ UNCHANGED <<calls, handled>>

Handle ==
  /\ place = "inlet"
  /\ place' = "reader"
  /\ \E call \in calls : handled' = Append(handled, call.frame)
  /\ UNCHANGED calls

Return ==
  /\ place = "reader"
  /\ place' = "nowhere"
  /\ calls' = {}
  /\ UNCHANGED handled

Next == (\E w \in Writers, f \in Frames : Call(w, f)) \/ Give \/ Handle \/ Return

Spec == Init /\ [][Next]_vars
=============================================================================
