------------------------------ MODULE PoolWatch ------------------------------
(***************************************************************************)
(* TaggedPool with a history variable: for every acquire that is under     *)
(* way, the slots that have been free without interruption since it began. *)
(* It records what a null pointer tells the caller of acquire, which drops *)
(* the message it wanted to send (producer.hpp, frame_ingress.hpp).        *)
(***************************************************************************)
EXTENDS TaggedPool

VARIABLE untouched

watchVars == <<vars, untouched>>

FreeSlots == {s \in PoolSlots : state[s] = Free}

WatchInit == Init /\ untouched = [t \in Threads |-> {}]

WatchNext ==
  \E t \in Threads :
    \/ AcquireBegin(t) /\ untouched' = [untouched EXCEPT ![t] = FreeSlots]
    \/ AcquireTake(t) /\ untouched' =
         [u \in Threads |-> IF u = t THEN {} ELSE untouched[u] \ {scan[t]}]
    \/ (AcquireSkip(t) \/ AcquireClear(t) \/ AcquireFail(t)) /\ UNCHANGED untouched
    \/ /\ ppc[t] = "idle"
       /\ \E s \in PoolSlots :
            \/ \E v \in Payloads : Fill(t, s, v)
            \/ Release(t, s)
            \/ \E u \in Threads \ {t} : HandOver(t, u, s)
       /\ UNCHANGED untouched

WatchSpec == WatchInit /\ [][WatchNext]_watchVars

(* acquire returns null only when every slot that was free as it began has *)
(* been acquired by somebody since; it does not mean that the pool was     *)
(* exhausted at any one moment.  It takes a compare-exchange that does not *)
(* fail spuriously (x86_64).                                               *)
FailedAcquireSawAll ==
  [][\A t \in Threads : ppc[t] = "scan" /\ ppc'[t] = "idle" => untouched[t] = {}]_watchVars

(* The slots a scan has passed were not free all along. *)
PassedSlotsWereUsed ==
  \A t \in Threads :
    /\ untouched[t] \subseteq FreeSlots
    /\ \A s \in PoolSlots : ppc[t] = "scan" /\ s < scan[t] => s \notin untouched[t]
=============================================================================
