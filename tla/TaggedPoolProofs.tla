-------------------------- MODULE TaggedPoolProofs --------------------------
(***************************************************************************)
(* Proofs about TaggedPool and PoolWatch, for every number of slots and    *)
(* every set of threads.                                                   *)
(***************************************************************************)
EXTENDS PoolWatch, TLAPS

USE PoolCapAssumption DEF Free, Acquired, PoolSlots

LEMMA PoolTypeInit == Init => TypeOK
  BY DEF Init, TypeOK

LEMMA PoolTypeStep == TypeOK /\ [Next]_vars => TypeOK'
<1> SUFFICES ASSUME TypeOK, [Next]_vars PROVE TypeOK'
  OBVIOUS
<1> USE DEF TypeOK
<1>1. ASSUME NEW t \in Threads, AcquireBegin(t) PROVE TypeOK'
  BY <1>1 DEF AcquireBegin
<1>2. ASSUME NEW t \in Threads, AcquireTake(t) PROVE TypeOK'
  BY <1>2 DEF AcquireTake
<1>3. ASSUME NEW t \in Threads, AcquireSkip(t) PROVE TypeOK'
  BY <1>3 DEF AcquireSkip
<1>4. ASSUME NEW t \in Threads, AcquireClear(t) PROVE TypeOK'
  BY <1>4 DEF AcquireClear
<1>5. ASSUME NEW t \in Threads, AcquireFail(t) PROVE TypeOK'
  BY <1>5 DEF AcquireFail
<1>6. ASSUME NEW t \in Threads, NEW s \in PoolSlots, NEW v \in Payloads, Fill(t, s, v) PROVE TypeOK'
  BY <1>6 DEF Fill
<1>7. ASSUME NEW t \in Threads, NEW s \in PoolSlots, Release(t, s) PROVE TypeOK'
  BY <1>7 DEF Release
<1>8. ASSUME NEW t \in Threads, NEW u \in Threads \ {t}, NEW s \in PoolSlots, HandOver(t, u, s)
      PROVE  TypeOK'
  BY <1>8 DEF HandOver
<1>9. CASE UNCHANGED vars
  BY <1>9 DEF vars
<1> QED
  BY <1>1, <1>2, <1>3, <1>4, <1>5, <1>6, <1>7, <1>8, <1>9 DEF Next, Acquire

(* The state byte, the body and the scan index keep their types. *)
THEOREM PoolTypeCorrect == Spec => []TypeOK
  BY PoolTypeInit, PoolTypeStep, PTL DEF Spec

-----------------------------------------------------------------------------
(* One user per body.                                                      *)

LEMMA PoolInvInit == Init => PoolInv
<1> SUFFICES ASSUME Init PROVE BodyHasOneUser /\ AcquiredIffUsed
  BY PoolTypeInit DEF PoolInv
<1> QED
  BY DEF Init, BodyHasOneUser, AcquiredIffUsed, Uses

LEMMA PoolInvStep == PoolInv /\ [Next]_vars => PoolInv'
<1> SUFFICES ASSUME PoolInv, [Next]_vars, TypeOK' PROVE (BodyHasOneUser /\ AcquiredIffUsed)'
  BY PoolTypeStep DEF PoolInv
<1> USE DEF PoolInv, TypeOK, BodyHasOneUser, AcquiredIffUsed, Uses
<1>1. ASSUME NEW t \in Threads, AcquireBegin(t) \/ AcquireSkip(t) \/ AcquireFail(t)
      PROVE  (BodyHasOneUser /\ AcquiredIffUsed)'
  <2>1. state' = state /\ held' = held
    BY <1>1 DEF AcquireBegin, AcquireSkip, AcquireFail
  <2>2. \A u \in Threads : /\ ppc[u] = "clear" <=> ppc'[u] = "clear"
                           /\ ppc[u] = "clear" => scan'[u] = scan[u]
    BY <1>1 DEF AcquireBegin, AcquireSkip, AcquireFail
  <2> QED
    BY <2>1, <2>2
<1>2. ASSUME NEW t \in Threads, AcquireTake(t) PROVE (BodyHasOneUser /\ AcquiredIffUsed)'
  <2> PICK s \in PoolSlots : s = scan[t]
    BY <1>2 DEF AcquireTake
  <2>1. /\ state[s] = Free
        /\ state' = [state EXCEPT ![s] = Acquired] /\ held' = held
        /\ ppc[t] = "scan" /\ ppc' = [ppc EXCEPT ![t] = "clear"] /\ scan' = scan
    BY <1>2 DEF AcquireTake
  <2>2. \A u \in Threads : ~Uses(u, s)
    BY <2>1
  <2>3. BodyHasOneUser'
    BY <2>1, <2>2
  <2>4. AcquiredIffUsed'
    BY <2>1, <2>2
  <2> QED
    BY <2>3, <2>4
<1>3. ASSUME NEW t \in Threads, AcquireClear(t) PROVE (BodyHasOneUser /\ AcquiredIffUsed)'
  <2> PICK s \in PoolSlots : s = scan[t]
    BY <1>3 DEF AcquireClear
  <2>1. /\ state' = state
        /\ held' = [held EXCEPT ![t] = @ \cup {s}]
        /\ ppc[t] = "clear" /\ ppc' = [ppc EXCEPT ![t] = "idle"]
        /\ scan' = [scan EXCEPT ![t] = 0]
    BY <1>3 DEF AcquireClear
  <2>2. \A u \in Threads, x \in PoolSlots : Uses(u, x)' <=> Uses(u, x)
    BY <2>1
  <2>3. \A u \in Threads : ppc'[u] = "clear" => scan'[u] \notin held'[u]
    BY <2>1
  <2> QED
    BY <2>1, <2>2, <2>3
<1>4. ASSUME NEW t \in Threads, NEW s \in PoolSlots, NEW v \in Payloads, Fill(t, s, v)
      PROVE  (BodyHasOneUser /\ AcquiredIffUsed)'
  BY <1>4 DEF Fill
<1>5. ASSUME NEW t \in Threads, NEW s \in PoolSlots, Release(t, s)
      PROVE  (BodyHasOneUser /\ AcquiredIffUsed)'
  <2>1. /\ s \in held[t] /\ ppc' = ppc /\ scan' = scan
        /\ held' = [held EXCEPT ![t] = @ \ {s}]
        /\ state' = [state EXCEPT ![s] = Free]
    BY <1>5 DEF Release
  <2>2. \A u \in Threads : held'[u] \subseteq held[u]
    BY <2>1
  <2>3. BodyHasOneUser'
    BY <2>1, <2>2
  <2>4. AcquiredIffUsed'
    BY <2>1
  <2> QED
    BY <2>3, <2>4
<1>6. ASSUME NEW t \in Threads, NEW u \in Threads \ {t}, NEW s \in PoolSlots, HandOver(t, u, s)
      PROVE  (BodyHasOneUser /\ AcquiredIffUsed)'
  <2>1. /\ s \in held[t] /\ ppc[u] = "idle"
        /\ state' = state /\ ppc' = ppc /\ scan' = scan
        /\ held' = [held EXCEPT ![t] = @ \ {s}, ![u] = @ \cup {s}]
    BY <1>6 DEF HandOver
  <2>2. \A w \in Threads, x \in PoolSlots :
          Uses(w, x)' <=> IF x = s THEN w = u ELSE Uses(w, x)
    BY <2>1
  <2>3. \A w \in Threads : ppc'[w] = "clear" => scan'[w] \notin held'[w]
    BY <2>1
  <2>4. Uses(t, s)
    BY <2>1
  <2> HIDE DEF Uses
  <2>5. BodyHasOneUser'
    BY <2>2, <2>3
  <2>6. AcquiredIffUsed'
    BY <2>1, <2>2, <2>4
  <2> QED
    BY <2>5, <2>6
<1>7. CASE UNCHANGED vars
  BY <1>7 DEF vars
<1> QED
  BY <1>1, <1>2, <1>3, <1>4, <1>5, <1>6, <1>7 DEF Next, Acquire

LEMMA PoolInvariant == Spec => []PoolInv
  BY PoolInvInit, PoolInvStep, PTL DEF Spec

(* Whoever holds the pointer has the body to itself: the plain stores of   *)
(* acquire and of its callers race with nothing.                           *)
THEOREM OneUserPerBody == Spec => []BodyHasOneUser
<1>1. PoolInv => BodyHasOneUser
  BY DEF PoolInv
<1> QED
  BY <1>1, PoolInvariant, PTL

(* No slot leaks and none is handed out twice. *)
THEOREM StateByteTellsTheTruth == Spec => []AcquiredIffUsed
<1>1. PoolInv => AcquiredIffUsed
  BY DEF PoolInv
<1> QED
  BY <1>1, PoolInvariant, PTL

-----------------------------------------------------------------------------
(* What a null pointer tells the caller of acquire.                        *)

ScanInv == PassedSlotsWereUsed /\ TypeOK /\ untouched \in [Threads -> SUBSET PoolSlots]

LEMMA ScanInvInit == WatchInit => ScanInv
<1> SUFFICES ASSUME WatchInit PROVE ScanInv
  OBVIOUS
<1> QED
  BY PoolTypeInit DEF WatchInit, Init, ScanInv, PassedSlotsWereUsed, TypeOK

LEMMA WatchStepIsStep == [WatchNext]_watchVars => [Next]_vars
  BY DEF WatchNext, watchVars, Next, Acquire

LEMMA ScanInvStep ==
  ASSUME ~SpuriousCas
  PROVE  ScanInv /\ [WatchNext]_watchVars => ScanInv'
<1> SUFFICES ASSUME ScanInv, [WatchNext]_watchVars, TypeOK' PROVE ScanInv'
  BY WatchStepIsStep, PoolTypeStep DEF ScanInv
<1> USE DEF ScanInv, TypeOK, FreeSlots
<1>1. ASSUME NEW t \in Threads, AcquireBegin(t), untouched' = [untouched EXCEPT ![t] = FreeSlots]
      PROVE  ScanInv'
  <2>1. FreeSlots' = FreeSlots
    BY <1>1 DEF AcquireBegin
  <2>2. PassedSlotsWereUsed'
    BY <1>1, <2>1 DEF AcquireBegin, PassedSlotsWereUsed
  <2> QED
    BY <1>1, <2>2
<1>2. ASSUME NEW t \in Threads, AcquireTake(t),
             untouched' = [u \in Threads |-> IF u = t THEN {} ELSE untouched[u] \ {scan[t]}]
      PROVE  ScanInv'
  <2>1. PassedSlotsWereUsed'
    BY <1>2 DEF AcquireTake, PassedSlotsWereUsed
  <2> QED
    BY <1>2, <2>1
<1>3. ASSUME NEW t \in Threads, AcquireSkip(t), UNCHANGED untouched PROVE ScanInv'
  <2>1. state[scan[t]] = Acquired /\ scan[t] \in PoolSlots
    BY <1>3 DEF AcquireSkip
  <2>2. scan[t] \notin untouched[t]
    BY <2>1 DEF PassedSlotsWereUsed
  <2>3. PassedSlotsWereUsed'
    BY <1>3, <2>2 DEF AcquireSkip, PassedSlotsWereUsed
  <2> QED
    BY <1>3, <2>3
<1>4. ASSUME NEW t \in Threads, AcquireClear(t) \/ AcquireFail(t), UNCHANGED untouched
      PROVE  ScanInv'
  BY <1>4 DEF AcquireClear, AcquireFail, PassedSlotsWereUsed
<1>5. ASSUME NEW t \in Threads, NEW s \in PoolSlots, UNCHANGED untouched,
             \/ \E v \in Payloads : Fill(t, s, v)
             \/ Release(t, s)
             \/ \E u \in Threads \ {t} : HandOver(t, u, s)
      PROVE  ScanInv'
  <2>1. ppc' = ppc /\ scan' = scan /\ FreeSlots \subseteq FreeSlots'
    BY <1>5 DEF Fill, Release, HandOver
  <2>2. PassedSlotsWereUsed'
    BY <1>5, <2>1 DEF PassedSlotsWereUsed
  <2> QED
    BY <1>5, <2>2
<1>6. CASE UNCHANGED watchVars
  BY <1>6 DEF watchVars, vars, PassedSlotsWereUsed
<1> QED
  BY <1>1, <1>2, <1>3, <1>4, <1>5, <1>6 DEF WatchNext

(* Where the compare-exchange does not fail spuriously, acquire returns    *)
(* null only when every slot it could have taken was taken meanwhile.      *)
THEOREM FailedAcquire ==
  ASSUME ~SpuriousCas
  PROVE  WatchSpec => FailedAcquireSawAll
<1>1. ScanInv /\ [WatchNext]_watchVars =>
        [\A t \in Threads : ppc[t] = "scan" /\ ppc'[t] = "idle" => untouched[t] = {}]_watchVars
  <2> SUFFICES ASSUME ScanInv, WatchNext, NEW t \in Threads, ppc[t] = "scan", ppc'[t] = "idle"
               PROVE  untouched[t] = {}
    OBVIOUS
  <2>1. scan[t] = PoolCap
    BY DEF WatchNext, AcquireBegin, AcquireTake, AcquireSkip, AcquireClear, AcquireFail,
           Fill, Release, HandOver, ScanInv, TypeOK
  <2> QED
    BY <2>1 DEF ScanInv, PassedSlotsWereUsed, FreeSlots
<1>2. ScanInv /\ [WatchNext]_watchVars => ScanInv'
  BY ScanInvStep
<1> QED
  BY <1>1, <1>2, ScanInvInit, PTL DEF WatchSpec, FailedAcquireSawAll
=============================================================================
