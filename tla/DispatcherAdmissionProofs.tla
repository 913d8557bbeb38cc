---------------------- MODULE DispatcherAdmissionProofs ----------------------
(***************************************************************************)
(* Proofs about what the dispatcher admits and enqueues: the order of the  *)
(* queues, and the action properties that rest on it.  They hold for every *)
(* set of requests, every policy and every settings row, and through every *)
(* hot swap of the two.                                                    *)
(***************************************************************************)
EXTENDS DispatcherProofs, WellFoundedInduction

-----------------------------------------------------------------------------
(* Least and greatest numbers. *)

(* A set of naturals that is not empty has a least element. *)
LEMMA NatMin ==
  ASSUME NEW T \in SUBSET Nat, T # {}
  PROVE  \E x \in T : \A y \in T : x <= y
<1>1. PICK R : R = OpToRel(<, Nat)
  OBVIOUS
<1>2. R = {ss \in Nat \X Nat : ss[1] < ss[2]}
  BY <1>1 DEF OpToRel
<1>3. IsWellFoundedOn(R, Nat)
  BY <1>1, NatLessThanWellFounded
<1>4. PICK x \in T : \A y \in T : ~(<<y, x>> \in R)
  BY <1>3, WFMin
<1>5. ASSUME NEW y \in T PROVE x <= y
  <2>1. x \in Nat /\ y \in Nat
    OBVIOUS
  <2>2. <<y, x>> \notin R
    BY <1>4
  <2>3. ~(y < x)
    BY <1>2, <2>1, <2>2
  <2> QED
    BY <2>1, <2>3
<1> QED
  BY <1>5

(* A bounded one has a greatest element. *)
LEMMA NatMax ==
  ASSUME NEW n \in Nat, NEW T \in SUBSET (0..n), T # {}
  PROVE  \E x \in T : \A y \in T : y <= x
<1> DEFINE B == {m \in Nat : \A y \in T : y <= m}
<1>1. B \in SUBSET Nat /\ n \in B
  OBVIOUS
<1>2. PICK m \in B : \A k \in B : m <= k
  BY <1>1, NatMin
<1>3. m \in Nat /\ \A y \in T : y \in Nat /\ y <= m
  OBVIOUS
<1>4. m \in T
  <2> SUFFICES ASSUME m \notin T PROVE FALSE
    OBVIOUS
  <2>1. \A y \in T : y <= m - 1
    BY <1>3
  <2>2. m - 1 \in Nat
    <3>1. PICK y \in T : TRUE
      OBVIOUS
    <3>2. y \in Nat /\ y <= m - 1
      BY <1>3, <2>1
    <3> QED
      BY <1>3, <3>2
  <2>3. m - 1 \in B
    BY <2>1, <2>2
  <2> QED
    BY <1>2, <1>3, <2>3
<1> QED
  BY <1>3, <1>4

-----------------------------------------------------------------------------
(* The order of arrival. *)

(* Inside a class the waiters are in a strict total order, whoever joined,
   left, was handed a lease or was drained in between. *)
QueueOrder ==
    /\ \A r \in Requests : ahead[r] \subseteq Queued(class(r)) \ {r}
    /\ \A r \in Requests : phase[r] # "queued" => ahead[r] = {}
    /\ \A q, r \in Requests :
          /\ phase[q] = "queued" /\ phase[r] = "queued" /\ class(q) = class(r) /\ q # r
          => q \in ahead[r] \/ r \in ahead[q]
    /\ \A q, r \in Requests : q \in ahead[r] => ahead[q] \subseteq ahead[r]

(* The wake loop of a target with slots goes through all ranks, and it goes by
   the slots and the order in force unless a swap has come in between. *)
ScanOK ==
    wake = "scan" =>
      /\ scan.slots > 0 => scan.from = 1
      /\ ~swapped => scan.slots = slotsLocked /\ scan.order = settings.order

(* A set of waiters leaves the queues. *)
Removes(G) ==
    /\ \A r \in Requests : phase'[r] = "queued" <=> phase[r] = "queued" /\ r \notin G
    /\ ahead' = [r \in Requests |-> IF r \in G THEN {} ELSE ahead[r] \ G]

(* A waiter that joins stands behind everyone of its class. *)
LEMMA PushOrder ==
  ASSUME QueueTypeOK, QueueOrder, NEW r \in Requests, phase[r] = "idle", Push(r)
  PROVE  QueueOrder'
<1>1. /\ \A q \in Requests : phase'[q] = "queued" <=> phase[q] = "queued" \/ q = r
      /\ \A q \in Requests : ahead'[q] = IF q = r THEN Queued(class(r)) ELSE ahead[q]
  BY DEF QueueTypeOK, Push
<1>2. r \notin Queued(class(r)) /\ Queued(class(r)) \subseteq Requests
  BY DEF Queued
<1>3. ASSUME NEW q \in Requests PROVE ahead'[q] \subseteq Queued(class(q))' \ {q}
  <2>1. Queued(class(q)) \subseteq Queued(class(q))'
    BY <1>1 DEF Queued
  <2> QED
    BY <1>1, <1>2, <2>1 DEF QueueOrder
<1>4. \A q \in Requests : phase'[q] # "queued" => ahead'[q] = {}
  BY <1>1 DEF QueueOrder
<1>5. ASSUME NEW p \in Requests, NEW q \in Requests,
             phase'[p] = "queued", phase'[q] = "queued", class(p) = class(q), p # q
      PROVE  p \in ahead'[q] \/ q \in ahead'[p]
  <2>1. CASE p = r
    BY <1>1, <1>5, <2>1 DEF Queued
  <2>2. CASE q = r
    BY <1>1, <1>5, <2>2 DEF Queued
  <2>3. CASE p # r /\ q # r
    <3>1. phase[p] = "queued" /\ phase[q] = "queued"
      BY <1>1, <1>5, <2>3
    <3>2. p \in ahead[q] \/ q \in ahead[p]
      BY <1>5, <3>1 DEF QueueOrder
    <3> QED
      BY <1>1, <2>3, <3>2
  <2> QED
    BY <2>1, <2>2, <2>3
<1>6. ASSUME NEW p \in Requests, NEW q \in Requests, p \in ahead'[q]
      PROVE  ahead'[p] \subseteq ahead'[q]
  <2>1. r \notin ahead[p] /\ r \notin ahead[q]
    BY <1>2 DEF QueueOrder, Queued
  <2>2. CASE q = r
    <3>1. p \in Queued(class(r)) /\ p # r
      BY <1>1, <1>2, <1>6, <2>2
    <3>2. ahead[p] \subseteq Queued(class(r))
      BY <3>1 DEF QueueOrder, Queued
    <3> QED
      BY <1>1, <2>2, <3>1, <3>2
  <2>3. CASE q # r
    BY <1>1, <1>6, <2>1, <2>3 DEF QueueOrder
  <2> QED
    BY <2>2, <2>3
<1> QED
  BY <1>3, <1>4, <1>5, <1>6 DEF QueueOrder

(* Those who stay keep their places. *)
LEMMA RemoveOrder ==
  ASSUME QueueTypeOK, QueueOrder, NEW G, Removes(G)
  PROVE  QueueOrder'
<1>1. /\ \A q \in Requests : phase'[q] = "queued" <=> (phase[q] = "queued" /\ q \notin G)
      /\ \A q \in Requests : \A x : x \in ahead'[q] <=> (q \notin G /\ x \in ahead[q] /\ x \notin G)
  BY DEF Removes
<1>2. ASSUME NEW q \in Requests, NEW x \in ahead'[q]
      PROVE  x \in Queued(class(q))' \ {q}
  <2>1. x \in ahead[q] /\ x \notin G
    BY <1>1, <1>2
  <2>2. x \in Requests /\ phase[x] = "queued" /\ class(x) = class(q) /\ x # q
    BY <2>1 DEF QueueOrder, Queued
  <2>3. phase'[x] = "queued"
    BY <1>1, <2>1, <2>2
  <2> QED
    BY <2>2, <2>3 DEF Queued
<1>3. ASSUME NEW q \in Requests, phase'[q] # "queued", NEW x \in ahead'[q]
      PROVE  FALSE
  <2>1. q \notin G /\ x \in ahead[q]
    BY <1>1, <1>3
  <2>2. phase[q] # "queued"
    BY <1>1, <1>3, <2>1
  <2> QED
    BY <2>1, <2>2 DEF QueueOrder
<1>4. ASSUME NEW p \in Requests, NEW q \in Requests,
             phase'[p] = "queued", phase'[q] = "queued", class(p) = class(q), p # q
      PROVE  p \in ahead'[q] \/ q \in ahead'[p]
  <2>1. phase[p] = "queued" /\ phase[q] = "queued" /\ p \notin G /\ q \notin G
    BY <1>1, <1>4
  <2>2. p \in ahead[q] \/ q \in ahead[p]
    BY <1>4, <2>1 DEF QueueOrder
  <2> QED
    BY <1>1, <2>1, <2>2
<1>5. ASSUME NEW p \in Requests, NEW q \in Requests, p \in ahead'[q], NEW x \in ahead'[p]
      PROVE  x \in ahead'[q]
  <2>1. p \in ahead[q] /\ x \in ahead[p] /\ q \notin G /\ x \notin G
    BY <1>1, <1>5
  <2>2. x \in ahead[q]
    BY <2>1 DEF QueueOrder
  <2> QED
    BY <1>1, <2>1, <2>2
<1> QED
  BY <1>2, <1>3, <1>4, <1>5 DEF QueueOrder

(* The first of some waiters of a class: there is one, and only one. *)
LEMMA FirstExists ==
  ASSUME QueueOrder, NEW c, NEW S \in SUBSET Queued(c), S # {}
  PROVE  FirstArrived(S) # {}
<1> DEFINE size(r) == Cardinality(ahead[r] \cap S)
           T == {n \in Nat : \E r \in S : n = size(r)}
<1>1. IsFiniteSet(S) /\ S \subseteq Requests
  BY FS_Subset, RequestsAssumption DEF Queued
<1>2. \A r \in S : IsFiniteSet(ahead[r] \cap S) /\ size(r) \in Nat
  BY <1>1, FS_Subset, FS_CardinalityType
<1>3. T \in SUBSET Nat /\ T # {}
  BY <1>2
<1>4. PICK n \in T : \A m \in T : n <= m
  BY <1>3, NatMin
<1>5. PICK r \in S : n = size(r)
  OBVIOUS
<1>6. ASSUME NEW q \in ahead[r] \cap S PROVE FALSE
  <2>1. ahead[q] \subseteq ahead[r] /\ q \notin ahead[q]
    BY <1>1 DEF QueueOrder
  <2>2. (ahead[q] \cap S) \subseteq (ahead[r] \cap S) /\ ahead[q] \cap S # ahead[r] \cap S
    BY <2>1
  <2>3. Cardinality(ahead[q] \cap S) < Cardinality(ahead[r] \cap S)
    <3>1. /\ Cardinality(ahead[q] \cap S) <= Cardinality(ahead[r] \cap S)
          /\ Cardinality(ahead[q] \cap S) = Cardinality(ahead[r] \cap S)
               => ahead[q] \cap S = ahead[r] \cap S
      BY <1>2, <2>2, FS_Subset
    <3> QED
      BY <1>2, <2>2, <3>1
  <2>4. size(q) \in T
    BY <1>2
  <2> HIDE DEF T
  <2> QED
    BY <1>2, <1>4, <1>5, <2>3, <2>4
<1> QED
  BY <1>6 DEF FirstArrived

(* Two waiters of a class cannot both be first. *)
LEMMA FirstUnique ==
  ASSUME QueueOrder, NEW c, NEW S \in SUBSET Queued(c),
         NEW q \in FirstArrived(S), NEW r \in FirstArrived(S)
  PROVE  q = r
BY DEF QueueOrder, FirstArrived, Queued

-----------------------------------------------------------------------------
(* Every step leaves the queues alone, lets one waiter join or some leave. *)

(* Nobody joins or leaves. *)
LEMMA StillRemoves ==
  ASSUME QueueTypeOK, ahead' = ahead,
         \A r \in Requests : phase'[r] = "queued" <=> phase[r] = "queued"
  PROVE  Removes({})
<1>1. ahead' = [r \in Requests |-> IF r \in {} THEN {} ELSE ahead[r] \ {}]
  <2>1. \A r \in Requests : (IF r \in {} THEN {} ELSE ahead[r] \ {}) = ahead[r]
    OBVIOUS
  <2>2. ahead = [r \in Requests |-> ahead[r]]
    BY DEF QueueTypeOK
  <2> QED
    BY <2>1, <2>2
<1> QED
  BY <1>1 DEF Removes

(* One caller leaves, or is answered without having waited. *)
LEMMA OutRemoves ==
  ASSUME QueueTypeOK, NEW r \in Requests, NEW ph, ph # "queued",
         phase' = [phase EXCEPT ![r] = ph], Dequeue(r)
  PROVE  Removes({r})
<1>1. \A q \in Requests : phase'[q] = IF q = r THEN ph ELSE phase[q]
  BY DEF QueueTypeOK
<1>2. ahead' = [q \in Requests |-> IF q \in {r} THEN {} ELSE ahead[q] \ {r}]
  BY DEF Dequeue
<1> QED
  BY <1>1, <1>2 DEF Removes

QueueStep ==
    \/ \E r \in Requests : phase[r] = "idle" /\ Push(r)
    \/ \E G : Removes(G)

(* The doors. *)
LEMMA DoorQueueStep ==
  ASSUME IInv, NEW r \in Requests, Door(r)
  PROVE  QueueStep
<1>0. QueueTypeOK
  BY DEF IInv, TypeOK
<1> PICK now : Acquire(r, now) \/ TryAcquire(r, now)
  BY DEF Door
<1>1. phase[r] = "idle"
  BY DEF Door, AtDoor
<1>2. CASE AdmitPassThrough(r) \/ AdmitNow(r, now)
  <2>1. phase' = [phase EXCEPT ![r] = "running"] /\ Dequeue(r)
    BY <1>2 DEF AdmitPassThrough, AdmitNow, admitLocked
  <2>2. Removes({r})
    BY <1>0, <2>1, OutRemoves
  <2> QED
    BY <2>2 DEF QueueStep
<1>3. CASE EnqueueInHouse(r, now) \/ EnqueueExternal(r, now)
  BY <1>1, <1>3 DEF QueueStep, EnqueueInHouse, EnqueueExternal
<1>4. CASE yieldToEscapeLocked
  <2>1. phase' = phase /\ ahead' = ahead
    BY <1>4 DEF yieldToEscapeLocked, queueVars
  <2>2. Removes({})
    BY <1>0, <2>1, StillRemoves
  <2> QED
    BY <2>2 DEF QueueStep
<1> QED
  BY <1>2, <1>3, <1>4 DEF Acquire, TryAcquire, Refuse, WouldBlock

(* The section that holds the mutex. *)
LEMMA SectionQueueStep ==
  ASSUME IInv, Section
  PROVE  QueueStep
<1>0. QueueTypeOK
  BY DEF IInv, TypeOK
<1>1. CASE WakeDrain
  <2> DEFINE G == {r \in Queued("XU") \cup Queued("XB") : ~Offered(r)}
  <2>1. \A r \in G : phase[r] = "queued"
    BY DEF Queued
  <2>2. /\ phase' = [r \in Requests |-> IF r \in G THEN "failed" ELSE phase[r]]
        /\ ahead' = [r \in Requests |-> IF r \in G THEN {} ELSE ahead[r] \ G]
    BY <1>1 DEF WakeDrain
  <2> HIDE DEF G
  <2>3. Removes(G)
    BY <2>1, <2>2 DEF Removes
  <2> QED
    BY <2>3 DEF QueueStep
<1>2. ASSUME NEW r \in Requests, WakeHandoff(r)
      PROVE  QueueStep
  <2>1. phase' = [phase EXCEPT ![r] = "granted"] /\ Dequeue(r)
    BY <1>2 DEF WakeHandoff, admitLocked
  <2>2. Removes({r})
    BY <1>0, <2>1, OutRemoves
  <2> QED
    BY <2>2 DEF QueueStep
<1>3. CASE WakeEnd \/ ReapWake \/ \E r \in reaping : ReapLease(r)
  <2>1. phase' = phase /\ ahead' = ahead
    BY <1>3 DEF WakeEnd, ReapWake, ReapLease, finishLocked, queueVars
  <2>2. Removes({})
    BY <1>0, <2>1, StillRemoves
  <2> QED
    BY <2>2 DEF QueueStep
<1> QED
  BY <1>1, <1>2, <1>3 DEF Section, In

(* The callers behind the doors. *)
LEMMA CallerQueueStep ==
  ASSUME IInv, NEW r \in Requests, Waiter(r) \/ Release(r)
  PROVE  QueueStep
<1>0. QueueTypeOK
  BY DEF IInv, TypeOK
<1>1. CASE dropWaiterLocked(r)
  <2>1. phase' = [phase EXCEPT ![r] = "idle"] /\ Dequeue(r)
    BY <1>1 DEF dropWaiterLocked
  <2>2. Removes({r})
    BY <1>0, <2>1, OutRemoves
  <2> QED
    BY <2>2 DEF QueueStep
<1>2. CASE \/ ReturnLease(r) \/ ReturnError(r)
           \/ (phase[r] \in {"granted", "running"} /\ EndRun(r))
  <2>1. PICK ph \in {"idle", "running"} : phase' = [phase EXCEPT ![r] = ph]
    BY <1>2 DEF ReturnLease, ReturnError, EndRun
  <2>2. ahead' = ahead /\ phase[r] # "queued"
    BY <1>2 DEF ReturnLease, ReturnError, EndRun, finishLocked
  <2>3. \A q \in Requests : phase'[q] = "queued" <=> phase[q] = "queued"
    BY <1>0, <2>1, <2>2 DEF QueueTypeOK
  <2>4. Removes({})
    BY <1>0, <2>2, <2>3, StillRemoves
  <2> QED
    BY <2>4 DEF QueueStep
<1> QED
  BY <1>1, <1>2 DEF Waiter, Release, CtxDone, ExpireWaiter

(* All steps together. *)
LEMMA NextQueueStep ==
  ASSUME IInv, [Next]_vars
  PROVE  QueueStep
<1>0. QueueTypeOK /\ inflight \subseteq Requests /\ preempting \subseteq Requests
  BY DEF IInv, TypeOK, LeaseTypeOK
<1>1. CASE phase' = phase /\ ahead' = ahead
  <2>1. Removes({})
    BY <1>0, <1>1, StillRemoves
  <2> QED
    BY <2>1 DEF QueueStep
<1>2. ASSUME UNCHANGED vars \/ ReapNow \/ Swap \/ Timer PROVE phase' = phase /\ ahead' = ahead
  <2>1. UNCHANGED vars \/ ReapNow => phase' = phase /\ ahead' = ahead
    BY DEF vars, queueVars, ReapNow
  <2>2. Swap => phase' = phase /\ ahead' = ahead
    BY DEF Swap, InteractiveArrived, InteractiveDone, WakeAll, UpdateSettings, UpdatePolicy, queueVars
  <2>3. Timer => phase' = phase /\ ahead' = ahead
    BY DEF Timer, Age, PassReapDeadline, PreemptWatchdog, finishLocked, queueVars
  <2> QED
    BY <1>2, <2>1, <2>2, <2>3
<1>3. CASE Caller
  BY <1>3, DoorQueueStep, CallerQueueStep DEF Caller, In
<1> QED
  BY <1>1, <1>2, <1>3, SectionQueueStep DEF Next

-----------------------------------------------------------------------------
(* What the wake loop has read. *)

(* A swap is marked by the store that makes it; wakeAll takes the mark away. *)
CfgStep == \/ swapped' = TRUE
           \/ UNCHANGED <<settings, policy>> /\ (swapped => swapped' = TRUE)

(* The callers' steps never start the scan themselves. *)
LEMMA CallerNoScan ==
  ASSUME Caller
  PROVE  UNCHANGED cfgVars /\ (wake' \in {"no", "drain"} \/ UNCHANGED <<wake, scan>>)
<1>1. ASSUME NEW r, Door(r)
      PROVE  UNCHANGED cfgVars /\ (wake' \in {"no", "drain"} \/ UNCHANGED <<wake, scan>>)
  <2> PICK now : Acquire(r, now) \/ TryAcquire(r, now)
    BY <1>1 DEF Door
  <2>1. CASE AdmitPassThrough(r) \/ AdmitNow(r, now)
    BY <2>1 DEF AdmitPassThrough, AdmitNow, sectionVars
  <2>2. CASE EnqueueInHouse(r, now) \/ EnqueueExternal(r, now)
    BY <2>2 DEF EnqueueInHouse, EnqueueExternal, sectionVars
  <2>3. CASE yieldToEscapeLocked
    BY <2>3 DEF yieldToEscapeLocked
  <2> QED
    BY <2>1, <2>2, <2>3 DEF Acquire, TryAcquire, Refuse, WouldBlock
<1>2. ASSUME NEW r, Waiter(r) \/ Release(r)
      PROVE  UNCHANGED cfgVars /\ (wake' \in {"no", "drain"} \/ UNCHANGED <<wake, scan>>)
  <2>1. CASE dropWaiterLocked(r)
    BY <2>1 DEF dropWaiterLocked
  <2>2. CASE ReturnLease(r) \/ ReturnError(r)
    BY <2>2 DEF ReturnLease, ReturnError, sectionVars
  <2>3. CASE EndRun(r)
    BY <2>3 DEF EndRun, finishLocked
  <2> QED
    BY <1>2, <2>1, <2>2, <2>3 DEF Waiter, Release, CtxDone, ExpireWaiter
<1> QED
  BY <1>1, <1>2 DEF Caller

(* A scan is started by the drain, moved on by a handoff, and otherwise left. *)
LEMMA NextScanStep ==
  ASSUME IInv, [Next]_vars
  PROVE  \/ wake' # "scan" \/ WakeDrain \/ (\E r \in Requests : WakeHandoff(r))
         \/ UNCHANGED <<wake, scan>> /\ CfgStep
<1>1. CASE UNCHANGED vars \/ ReapNow
  BY <1>1 DEF vars, cfgVars, sectionVars, ReapNow, CfgStep
<1>2. CASE Swap
  <2>1. CASE InteractiveArrived \/ InteractiveDone
    BY <2>1 DEF InteractiveArrived, InteractiveDone, sectionVars, CfgStep
  <2>2. CASE WakeAll
    BY <2>2 DEF WakeAll
  <2>3. CASE (\E x \in SettingsSet : UpdateSettings(x)) \/ (\E x \in PolicySet : UpdatePolicy(x))
    BY <2>3 DEF UpdateSettings, UpdatePolicy, sectionVars, CfgStep
  <2> QED
    BY <1>2, <2>1, <2>2, <2>3 DEF Swap
<1>3. CASE Timer
  BY <1>3 DEF Timer, Age, PassReapDeadline, PreemptWatchdog, finishLocked, cfgVars,
              sectionVars, CfgStep
<1>4. CASE Caller
  BY <1>4, CallerNoScan DEF cfgVars, CfgStep
<1>5. CASE Section
  BY <1>5 DEF Section, In, WakeEnd, ReapWake, ReapLease, finishLocked
<1> QED
  BY <1>1, <1>2, <1>3, <1>4, <1>5 DEF Next

(* ScanOK is kept. *)
LEMMA ScanStays ==
  ASSUME IInv, ScanOK, [Next]_vars
  PROVE  ScanOK'
<1>0. /\ swapped \in BOOLEAN /\ slotsLocked \in Nat
      /\ scan \in [slots : Nat, order : RankOrders, rr : BOOLEAN, from : 1..4]
  BY SlotsType DEF IInv, TypeOK, CfgTypeOK, SectionTypeOK
<1>1. CASE WakeDrain
  <2>1. scan'.slots = slotsLocked /\ scan'.order = settings.order /\ scan'.from = 1
    BY <1>1 DEF WakeDrain
  <2>2. slotsLocked' = slotsLocked /\ settings' = settings
    BY <1>1 DEF WakeDrain, cfgVars, slotsLocked
  <2> QED
    BY <2>1, <2>2 DEF ScanOK
<1>2. ASSUME NEW r \in Requests, WakeHandoff(r)
      PROVE  ScanOK'
  <2>1. /\ wake = "scan" /\ UNCHANGED <<settings, policy, swapped>>
        /\ scan'.slots = scan.slots /\ scan'.order = scan.order
        /\ scan.slots > 0 => scan'.from = 1
    BY <1>0, <1>2 DEF WakeHandoff, cfgVars
  <2>2. slotsLocked' = slotsLocked
    BY <2>1 DEF slotsLocked
  <2> QED
    BY <2>1, <2>2 DEF ScanOK
<1>3. CASE UNCHANGED <<wake, scan>> /\ CfgStep
  <2>1. CASE swapped' = TRUE
    BY <1>3, <2>1 DEF ScanOK
  <2>2. CASE UNCHANGED <<settings, policy>> /\ (swapped => swapped' = TRUE)
    <3>1. slotsLocked' = slotsLocked
      BY <2>2 DEF slotsLocked
    <3> QED
      BY <1>0, <1>3, <2>2, <3>1 DEF ScanOK
  <2> QED
    BY <1>3, <2>1, <2>2 DEF CfgStep
<1> QED
  BY <1>1, <1>2, <1>3, NextScanStep DEF ScanOK

AInv == IInv /\ QueueOrder /\ ScanOK

(* The order of the queues and the reads of the wake loop are kept by every
   step, on top of the invariant of the counters. *)
THEOREM NextAInv == AInv /\ [Next]_vars => AInv'
<1> SUFFICES ASSUME AInv, [Next]_vars PROVE AInv'
  OBVIOUS
<1>1. IInv'
  BY NextIInv DEF AInv
<1>2. QueueOrder'
  <2>1. QueueTypeOK /\ QueueOrder
    BY DEF AInv, IInv, TypeOK
  <2>2. QueueStep
    BY NextQueueStep DEF AInv
  <2> QED
    BY <2>1, <2>2, PushOrder, RemoveOrder DEF QueueStep
<1>3. ScanOK'
  BY ScanStays DEF AInv
<1> QED
  BY <1>1, <1>2, <1>3 DEF AInv

(* A dispatcher as New returns it has empty queues and no scan. *)
LEMMA InitAInv == Init => AInv
<1> SUFFICES ASSUME Init PROVE AInv
  OBVIOUS
<1>1. QueueOrder
  BY DEF Init, QueueOrder
<1>2. ScanOK
  BY DEF Init, ScanOK
<1> QED
  BY <1>1, <1>2, InitIInv DEF AInv

(* It holds in every reachable state. *)
THEOREM AdmissionInvariance == Spec => []AInv
BY InitAInv, NextAInv, PTL DEF Spec

(* The waiters of a class stand in one order of arrival, a strict total one, in
   every reachable state: whatever joins, is cancelled, expires, is drained by a
   swap or is handed a lease, nobody changes place and no place is shared. *)
THEOREM QueuesOrdered == Spec => []QueueOrder
<1>1. AInv => QueueOrder
  BY DEF AInv
<1> QED
  BY <1>1, AdmissionInvariance, PTL

-----------------------------------------------------------------------------
(* How a request comes to hold units. *)

(* The two ways: at the door, by eligibleNowLocked, or from the wake loop, by
   ScanPick. *)
AdmittedAtDoor(r) ==
    /\ Unlocked /\ phase[r] = "idle" /\ ~refusePrincipal(r)
    /\ Managed(r) /\ eligibleNowLocked(r, slotsLocked)
AdmittedByWake(r) == wake = "scan" /\ ~PassThroughLeft /\ r \in ScanPick

(* The doors admit at most their caller. *)
LEMMA DoorAdmits ==
  ASSUME NEW q \in Requests, Door(q), NEW r \in Admitted
  PROVE  r = q /\ admitLocked(r, TRUE) /\ UNCHANGED cfgVars /\ AdmittedAtDoor(r)
<1>1. PICK now \in {Managed(q) /\ eligibleNowLocked(q, slotsLocked)} :
         Acquire(q, now) \/ TryAcquire(q, now)
  BY DEF Door
<1>2. AdmitNow(q, now)
  <2>1. AdmitPassThrough(q) => slotHeld' = slotHeld
    BY DEF AdmitPassThrough, admitLocked
  <2>2. EnqueueInHouse(q, now) => slotHeld' = slotHeld
    BY DEF EnqueueInHouse, slotVars
  <2>3. EnqueueExternal(q, now) => slotHeld' = slotHeld
    BY DEF EnqueueExternal, leaseVars, slotVars
  <2>4. yieldToEscapeLocked => slotHeld' = slotHeld
    BY DEF yieldToEscapeLocked, leaseVars, slotVars
  <2> QED
    BY <1>1, <2>1, <2>2, <2>3, <2>4 DEF Acquire, TryAcquire, Refuse, WouldBlock, Admitted
<1>3. now /\ admitLocked(q, TRUE) /\ UNCHANGED cfgVars
  BY <1>2 DEF AdmitNow
<1>4. slotHeld' = slotHeld \cup {q}
  BY <1>3 DEF admitLocked
<1>5. r = q
  BY <1>4 DEF Admitted
<1> QED
  BY <1>1, <1>3, <1>5 DEF AdmittedAtDoor, Door, AtDoor

(* The end of a lease admits nobody by itself. *)
LEMMA FinishAdmitsNobody ==
  ASSUME NEW q, finishLocked(q) PROVE Admitted = {}
BY DEF finishLocked, Admitted

(* Nothing else hands out units. *)
LEMMA AdmittedHow ==
  ASSUME IInv, [Next]_vars, NEW r \in Admitted
  PROVE  /\ r \in Requests /\ admitLocked(r, TRUE) /\ UNCHANGED cfgVars
         /\ AdmittedAtDoor(r) \/ AdmittedByWake(r)
<1>0. slotHeld' # slotHeld
  BY DEF Admitted
<1>1. ASSUME NEW q \in Requests, Door(q)
      PROVE  /\ r \in Requests /\ admitLocked(r, TRUE) /\ UNCHANGED cfgVars
             /\ AdmittedAtDoor(r) \/ AdmittedByWake(r)
  BY <1>1, DoorAdmits
<1>2. ASSUME NEW q \in Requests, WakeHandoff(q)
      PROVE  /\ r \in Requests /\ admitLocked(r, TRUE) /\ UNCHANGED cfgVars
             /\ AdmittedAtDoor(r) \/ AdmittedByWake(r)
  <2>1. ~PassThroughLeft /\ q \in ScanPick /\ admitLocked(q, TRUE)
    <3>1. CASE PassThroughLeft
      BY <1>0, <1>2, <3>1 DEF WakeHandoff, admitLocked
    <3> QED
      BY <1>2, <3>1 DEF WakeHandoff
  <2>2. slotHeld' = slotHeld \cup {q}
    BY <2>1 DEF admitLocked
  <2>3. r = q
    BY <2>2 DEF Admitted
  <2> QED
    BY <1>2, <2>1, <2>3 DEF AdmittedByWake, WakeHandoff
<1>3. ASSUME NEW q, Waiter(q) \/ Release(q)
      PROVE  FALSE
  <2>1. dropWaiterLocked(q) => slotHeld' = slotHeld
    BY DEF dropWaiterLocked, leaseVars, slotVars
  <2>2. ReturnLease(q) \/ ReturnError(q) => slotHeld' = slotHeld
    BY DEF ReturnLease, ReturnError, leaseVars, slotVars
  <2>3. EndRun(q) => slotHeld' = slotHeld \/ finishLocked(q)
    BY DEF EndRun, slotVars
  <2> QED
    BY <1>0, <1>3, <2>1, <2>2, <2>3, FinishAdmitsNobody DEF Waiter, Release, CtxDone, ExpireWaiter
<1>4. ~Section \/ \E q \in Requests : WakeHandoff(q)
  <2>1. WakeDrain \/ WakeEnd \/ ReapWake => slotHeld' = slotHeld
    BY DEF WakeDrain, WakeEnd, ReapWake, leaseVars, slotVars
  <2>2. (\E q \in reaping : ReapLease(q)) => \E q : finishLocked(q)
    BY DEF ReapLease
  <2> QED
    BY <1>0, <2>1, <2>2, FinishAdmitsNobody DEF Section, In
<1>5. ~ReapNow /\ ~Swap /\ ~UNCHANGED vars
  BY <1>0 DEF ReapNow, Swap, InteractiveArrived, InteractiveDone, WakeAll, UpdateSettings,
              UpdatePolicy, vars, leaseVars, slotVars
<1>6. ~Timer
  <2>1. (\E q \in In("queued") : Age(q)) \/ (\E q \in inflight : PassReapDeadline(q))
           => slotHeld' = slotHeld
    BY DEF Age, PassReapDeadline, leaseVars, slotVars
  <2>2. (\E q \in preempting : PreemptWatchdog(q)) => \E q : finishLocked(q)
    BY DEF PreemptWatchdog
  <2> QED
    BY <1>0, <2>1, <2>2, FinishAdmitsNobody DEF Timer
<1> QED
  BY <1>1, <1>2, <1>3, <1>4, <1>5, <1>6 DEF Next, Caller, In

(* What the wake loop picks is the pick of its class, and the classes it looked
   at before had none. *)
LEMMA ScanPickHow ==
  ASSUME AInv, NEW r \in ScanPick
  PROVE  /\ r \in Requests /\ phase[r] = "queued"
         /\ r \in pickAdmissibleLocked(class(r), scan.rr, scan.slots)
         /\ scan.slots > 0 \/ External(class(r))
         /\ \A g \in Above(scan.order, class(r)) :
               Rank(scan.order, g) >= scan.from /\ (scan.slots > 0 \/ External(g)) =>
                  pickAdmissibleLocked(g, scan.rr, scan.slots) = {}
<1> DEFINE scanned == {c \in Classes : /\ Rank(scan.order, c) >= scan.from
                                       /\ scan.slots > 0 \/ External(c)}
<1>1. PICK c \in scanned :
        /\ r \in pickAdmissibleLocked(c, scan.rr, scan.slots)
        /\ \A g \in Above(scan.order, c) \cap scanned :
              pickAdmissibleLocked(g, scan.rr, scan.slots) = {}
  BY DEF ScanPick
<1>2. r \in Queued(c)
  BY <1>1, PickWaits
<1>3. class(r) = c /\ r \in Requests /\ phase[r] = "queued"
  BY <1>2 DEF Queued
<1> QED
  BY <1>1, <1>3 DEF Above

-----------------------------------------------------------------------------
(* The units an external pick takes. *)

(* The external capacity is a number. *)
LEMMA OfferType ==
  ASSUME CfgTypeOK
  PROVE  externalOffer.capacity \in Nat
<1>1. /\ policy.slots \in Nat /\ policy.reserved \in Nat /\ policy.extMax \in Nat
  BY DEF CfgTypeOK, TargetPolicy
<1>2. externalCapacity(policy).capacity \in Nat
  BY <1>1 DEF externalCapacity, NoOffer
<1> QED
  BY <1>2 DEF externalOffer, NoOffer

(* The lightest of some requests weighs what one of them weighs, at most what
   any of them does. *)
LEMMA MinWeight ==
  ASSUME NEW S \in SUBSET Requests, S # {}
  PROVE  /\ Min({requestWeight(r) : r \in S}) \in 1..MaxWeight
         /\ \A r \in S : Min({requestWeight(q) : q \in S}) <= requestWeight(r)
         /\ \E r \in S : Min({requestWeight(q) : q \in S}) = requestWeight(r)
<1> DEFINE W == {requestWeight(r) : r \in S}
<1>1. W \in SUBSET Nat /\ W # {} /\ W \subseteq 1..MaxWeight
  BY WeightType, BoundsAssumption
<1>2. \E x \in W : \A y \in W : x <= y
  BY <1>1, NatMin
<1> HIDE DEF W
<1>3. Min(W) \in W /\ \A y \in W : Min(W) <= y
  BY <1>2 DEF Min
<1> QED
  BY <1>1, <1>3 DEF W

(* headMinWeight is the weight of one of the waiting heads. *)
LEMMA HeadMinType ==
  ASSUME QueueOrder, NEW c, Conts(c) # {} \/ Heads(c) # {}
  PROVE  headMinWeight(c) \in 1..MaxWeight
<1> DEFINE S == IF Conts(c) # {} THEN FirstArrived(Conts(c)) ELSE Heads(c)
<1>1. Conts(c) \in SUBSET Queued(c)
  BY DEF Conts
<1>2. S # {} /\ S \subseteq Requests
  <2>1. CASE Conts(c) # {}
    BY <1>1, <2>1, FirstExists DEF FirstArrived, Queued
  <2>2. CASE Conts(c) = {}
    BY <2>2 DEF Heads, Queued
  <2> QED
    BY <2>1, <2>2
<1>3. headMinWeight(c) = Min({requestWeight(r) : r \in S})
  BY DEF headMinWeight
<1> HIDE DEF S
<1>4. Min({requestWeight(r) : r \in S}) \in 1..MaxWeight
  BY <1>2, MinWeight
<1> QED
  BY <1>3, <1>4

(* A sum over the classes of natural numbers is one. *)
LEMMA ClassSumType ==
  ASSUME NEW S, NEW n, \A c \in S \cap Classes : n[c] \in Nat
  PROVE  ClassSum(S, n) \in Nat
BY DEF ClassSum, Classes

(* The need of a class is a number of units. *)
LEMMA NeedType ==
  ASSUME QueueOrder, NEW h, NEW slots, NEW capacity
  PROVE  externalNeedLocked(h, slots, capacity) \in 0..MaxWeight
<1>1. CASE Conts(h) # {}
  BY <1>1, HeadMinType, BoundsAssumption DEF externalNeedLocked
<1>2. CASE Conts(h) = {}
  <2> DEFINE first == externalFirst(h, slots, capacity)
             of(f) == IF \/ externalFits(requestWeight(f), slots, capacity)
                         \/ externalHeadHoldsLocked(h, f, slots, capacity, 0)
                      THEN requestWeight(f) ELSE headMinWeight(h)
             T == {0} \cup {of(f) : f \in first}
  <2>1. first \subseteq Heads(h) /\ Heads(h) \subseteq Requests
    BY DEF externalFirst, FairnessFirst, Heads, Queued
  <2>2. \A f \in first : of(f) \in 0..MaxWeight
    <3> SUFFICES ASSUME NEW f \in first PROVE of(f) \in 0..MaxWeight
      OBVIOUS
    <3>1. headMinWeight(h) \in 1..MaxWeight
      BY <2>1, HeadMinType
    <3>2. requestWeight(f) \in 1..MaxWeight
      BY <2>1, WeightType
    <3> QED
      BY <3>1, <3>2, BoundsAssumption
  <2>3. externalNeedLocked(h, slots, capacity) = Max(T)
    BY <1>2 DEF externalNeedLocked
  <2>4. T \in SUBSET (0..MaxWeight) /\ T # {}
    BY <2>2, BoundsAssumption
  <2> HIDE DEF T
  <2>5. \E x \in T : \A y \in T : y <= x
    BY <2>4, NatMax, BoundsAssumption
  <2>6. \A x \in T, y \in T : y <= x <=> x >= y
    BY <2>4, BoundsAssumption
  <2>7. Max(T) \in T
    BY <2>5, <2>6 DEF Max
  <2> QED
    BY <2>3, <2>4, <2>7
<1> QED
  BY <1>1, <1>2

(* So is the claim of the classes ranked above. *)
LEMMA ClaimType ==
  ASSUME QueueOrder, NEW c, NEW slots, NEW capacity
  PROVE  externalClaimLocked(c, slots, capacity) \in Nat
<1> DEFINE D == {x \in AboveNow(c) : External(x) /\ Queued(x) # {}}
           need == [h \in D |-> externalNeedLocked(h, slots, capacity)]
           S == {h \in DOMAIN need : ~keptOutLocked(h, need[h], slots, capacity)}
<1>1. \A h \in D : need[h] \in Nat
  BY NeedType, BoundsAssumption
<1>2. S \subseteq D
  OBVIOUS
<1>3. externalClaimLocked(c, slots, capacity) = ClassSum(S, need)
  BY DEF externalClaimLocked
<1> HIDE DEF S, need, D
<1> QED
  BY <1>1, <1>2, <1>3, ClassSumType

(* What fits on top of a claim fits. *)
LEMMA FitsWithClaim ==
  ASSUME held \in Nat, heldExt \in Nat, NEW w \in Nat, NEW claim \in Nat,
         NEW slots \in Nat, NEW capacity \in Nat, externalFits(w + claim, slots, capacity)
  PROVE  externalFits(w, slots, capacity)
BY DEF externalFits

(* The pick of an external class: the first continuation, or a bucket head; and
   it fits the slots and the external capacity. *)
LEMMA ExternalPick ==
  ASSUME AInv, NEW c, NEW slots \in Nat, NEW r \in externalPickLocked(c, slots)
  PROVE  /\ externalOffer.offered /\ r \in Requests
         /\ externalFits(requestWeight(r), slots, externalOffer.capacity)
         /\ cont(r) \/ r \in Heads(c)
<1> DEFINE cap == externalOffer.capacity
           first == externalFirst(c, slots, cap)
           claim == externalClaimLocked(c, slots, cap)
           fits(q) == externalFits(requestWeight(q) + claim, slots, cap)
<1>1. /\ held \in Nat /\ heldExt \in Nat /\ cap \in Nat /\ QueueOrder /\ claim \in Nat
  BY OfferType, ClaimType DEF AInv, IInv, TypeOK, LeaseTypeOK
<1>2. /\ externalOffer.offered
      /\ externalFits(headMinWeight(c) + claim, slots, cap)
      /\ \/ Conts(c) # {} /\ r \in FirstArrived(Conts(c))
         \/ Conts(c) = {} /\ (\A f \in first : fits(f)) /\ r \in first
         \/ Conts(c) = {} /\ r \in FairnessFirst({h \in Heads(c) : fits(h)}, cap)
  BY DEF externalPickLocked
<1>3. first \subseteq Heads(c) /\ FairnessFirst({h \in Heads(c) : fits(h)}, cap) \subseteq {h \in Heads(c) : fits(h)}
  BY DEF externalFirst, FairnessFirst
<1>4. CASE Conts(c) # {} /\ r \in FirstArrived(Conts(c))
  <2>1. r \in Requests /\ cont(r) /\ Conts(c) \in SUBSET Queued(c)
    BY <1>4 DEF FirstArrived, Conts, Queued
  <2>2. FirstArrived(Conts(c)) = {r}
    BY <1>1, <1>4, <2>1, FirstUnique
  <2>3. headMinWeight(c) = requestWeight(r)
    <3>1. PICK S \in SUBSET Requests : S = {r}
      BY <2>1
    <3>2. headMinWeight(c) = Min({requestWeight(q) : q \in S})
      BY <1>4, <2>2, <3>1 DEF headMinWeight
    <3>3. \E q \in S : Min({requestWeight(x) : x \in S}) = requestWeight(q)
      BY <3>1, MinWeight
    <3> QED
      BY <3>1, <3>2, <3>3
  <2>4. requestWeight(r) \in Nat
    BY <2>1, WeightType, BoundsAssumption
  <2> HIDE DEF cap, claim
  <2>5. externalFits(requestWeight(r), slots, cap)
    BY <1>1, <1>2, <2>3, <2>4, FitsWithClaim
  <2> QED
    BY <1>2, <2>1, <2>5 DEF cap
<1>5. CASE r \in Heads(c) /\ fits(r)
  <2>1. r \in Requests
    BY <1>5 DEF Heads, Queued
  <2>2. requestWeight(r) \in Nat
    BY <2>1, WeightType, BoundsAssumption
  <2>3. externalFits(requestWeight(r) + claim, slots, cap)
    BY <1>5
  <2> HIDE DEF cap, claim
  <2>4. externalFits(requestWeight(r), slots, cap)
    BY <1>1, <2>2, <2>3, FitsWithClaim
  <2> QED
    BY <1>2, <1>5, <2>1, <2>4 DEF cap
<1> QED
  BY <1>2, <1>3, <1>4, <1>5

-----------------------------------------------------------------------------
(* The action properties. *)

(* In-house requests weigh one unit. *)
LEMMA InHouseWeight ==
  ASSUME NEW r \in Requests, ~External(class(r))
  PROVE  requestWeight(r) = 1
BY DEF requestWeight

(* What an admission leaves in the counters. *)
LEMMA AdmittedUnits ==
  ASSUME NEW r \in Requests, admitLocked(r, TRUE)
  PROVE  /\ held' = held + requestWeight(r)
         /\ External(class(r)) => heldExt' = heldExt + requestWeight(r)
BY DEF admitLocked

(* An admission fits what its decision has read. *)
LEMMA AdmittedFits ==
  ASSUME AInv, [Next]_vars, NEW r \in Admitted
  PROVE  LET slots == IF wake = "scan" THEN scan.slots ELSE slotsLocked
         IN  /\ slots > 0 => held' <= slots
             /\ External(class(r)) =>
                   /\ externalOffer.offered
                   /\ externalOffer.capacity > 0 => heldExt' <= externalOffer.capacity
<1> DEFINE slots == IF wake = "scan" THEN scan.slots ELSE slotsLocked
           w == requestWeight(r)
<1>1. /\ r \in Requests /\ admitLocked(r, TRUE) /\ (AdmittedAtDoor(r) \/ AdmittedByWake(r))
  BY AdmittedHow DEF AInv
<1>2. /\ slotsLocked \in Nat /\ scan.slots \in Nat /\ held \in Nat /\ heldExt \in Nat
      /\ externalOffer.capacity \in Nat
  BY SlotsType, OfferType DEF AInv, IInv, TypeOK, LeaseTypeOK, SectionTypeOK
<1>3. w \in Nat /\ class(r) \in Classes
  BY <1>1, WeightType, ClassType, BoundsAssumption
<1>4. /\ held' = held + w /\ (External(class(r)) => heldExt' = heldExt + w)
  BY <1>1, AdmittedUnits
<1>5. External(class(r)) =>
         externalOffer.offered /\ externalFits(w, slots, externalOffer.capacity)
  <2>1. CASE AdmittedAtDoor(r)
    <3>1. wake # "scan" /\ slots = slotsLocked
      BY <2>1 DEF AdmittedAtDoor, Unlocked
    <3>2. admissibleLocked(class(r), w, slotsLocked)
      BY <2>1 DEF AdmittedAtDoor, eligibleNowLocked
    <3> QED
      BY <3>1, <3>2 DEF admissibleLocked, externalAdmissibleLocked, External
  <2>2. CASE AdmittedByWake(r)
    <3>1. wake = "scan" /\ slots = scan.slots /\ r \in ScanPick
      BY <2>2 DEF AdmittedByWake
    <3>2. r \in pickAdmissibleLocked(class(r), scan.rr, scan.slots)
      BY <3>1, ScanPickHow
    <3>3. External(class(r)) => r \in externalPickLocked(class(r), scan.slots)
      BY <3>2 DEF pickAdmissibleLocked, External
    <3> QED
      BY <1>2, <3>1, <3>3, ExternalPick
  <2> QED
    BY <1>1, <2>1, <2>2
<1>6. ~External(class(r)) => held + w <= slots
  <2> HAVE ~External(class(r))
  <2>0. w = 1 /\ class(r) \in {"I", "B"}
    BY <1>1, <1>3, InHouseWeight DEF Classes, External
  <2>1. CASE AdmittedAtDoor(r)
    <3>1. wake # "scan" /\ slots = slotsLocked
      BY <2>1 DEF AdmittedAtDoor, Unlocked
    <3>2. admissibleLocked(class(r), w, slotsLocked)
      BY <2>1 DEF AdmittedAtDoor, eligibleNowLocked
    <3> QED
      BY <2>0, <3>1, <3>2 DEF admissibleLocked, backgroundFits, External
  <2>2. CASE AdmittedByWake(r)
    <3>1. wake = "scan" /\ slots = scan.slots /\ r \in ScanPick
      BY <2>2 DEF AdmittedByWake
    <3>2. r \in pickAdmissibleLocked(class(r), scan.rr, scan.slots)
      BY <3>1, ScanPickHow
    <3> QED
      BY <1>2, <2>0, <3>1, <3>2 DEF pickAdmissibleLocked, backgroundHeadGoes, backgroundFits, External
  <2> QED
    BY <1>1, <2>1, <2>2
<1>7. slots \in Nat
  BY <1>2
<1> HIDE DEF slots, w
<1>8. slots > 0 => held' <= slots
  BY <1>2, <1>3, <1>4, <1>5, <1>6, <1>7 DEF externalFits
<1>9. External(class(r)) =>
         externalOffer.offered /\ (externalOffer.capacity > 0 => heldExt' <= externalOffer.capacity)
  BY <1>2, <1>3, <1>4, <1>5, <1>7 DEF externalFits
<1> QED
  BY <1>8, <1>9 DEF slots

(* No over-admission: whatever path hands out units (a newcomer at a door, a
   handoff of the wake loop, a backfill, the aging escape), they fit the slots
   that decision read and, for an external lease, the external capacity in
   force, whatever swaps of policy and settings come between the steps of the
   loop. *)
THEOREM NeverOverAdmits == Spec => NoOverAdmission
<1>1. AInv /\ [Next]_vars =>
        [\A r \in Admitted :
          LET slots == IF wake = "scan" THEN scan.slots ELSE slotsLocked
          IN  /\ slots > 0 => held' <= slots
              /\ External(class(r)) =>
                    /\ externalOffer.offered
                    /\ externalOffer.capacity > 0 => heldExt' <= externalOffer.capacity]_vars
  BY AdmittedFits
<1> QED
  BY <1>1, AdmissionInvariance, PTL DEF Spec, NoOverAdmission

(* Nobody of the same bucket is passed by an admission. *)
LEMMA AdmittedInOrder ==
  ASSUME AInv, [Next]_vars, NEW r \in Admitted, ~cont(r),
         NEW q \in Bucket(class(r), bucketKey(r)) \ {r}
  PROVE  phase[r] = "queued" /\ r \in ahead[q]
<1>1. /\ r \in Requests /\ (AdmittedAtDoor(r) \/ AdmittedByWake(r))
  BY AdmittedHow DEF AInv
<1>2. /\ q \in Requests /\ phase[q] = "queued" /\ class(q) = class(r) /\ q # r
      /\ q \in Queued(class(r)) /\ q \notin Conts(class(r)) /\ bucketKey(q) = bucketKey(r)
  BY DEF Bucket, Queued
<1>3. class(r) \in Classes
  BY <1>1, ClassType
<1>4. ~AdmittedAtDoor(r)
  <2> SUFFICES ASSUME AdmittedAtDoor(r) PROVE FALSE
    OBVIOUS
  <2>1. eligibleNowLocked(r, slotsLocked)
    BY DEF AdmittedAtDoor
  <2>2. CASE External(class(r))
    BY <1>2, <2>1, <2>2 DEF eligibleNowLocked, externalEligibleNowLocked
  <2>3. CASE ~External(class(r))
    BY <1>2, <2>1, <2>3 DEF eligibleNowLocked
  <2> QED
    BY <2>2, <2>3
<1>5. r \in ScanPick
  BY <1>1, <1>4 DEF AdmittedByWake
<1>6. phase[r] = "queued" /\ r \in pickAdmissibleLocked(class(r), scan.rr, scan.slots)
  BY <1>5, ScanPickHow
<1>7. q \notin ahead[r]
  <2>1. CASE External(class(r))
    <3>1. r \in externalPickLocked(class(r), scan.slots) /\ scan.slots \in Nat
      BY <1>6, <2>1 DEF pickAdmissibleLocked, External, AInv, IInv, TypeOK, SectionTypeOK
    <3>2. r \in Heads(class(r))
      BY <3>1, ExternalPick
    <3> QED
      BY <3>2 DEF Heads
  <2>2. CASE class(r) = "I"
    <3>1. r \in Heads("I") \/ r \in FirstArrived(Queued("I"))
      BY <1>6, <2>2 DEF pickAdmissibleLocked, External
    <3> QED
      BY <1>2, <2>2, <3>1 DEF Heads, FirstArrived
  <2>3. CASE class(r) = "B"
    <3>1. r \in FirstArrived(Queued("B"))
      BY <1>6, <2>3 DEF pickAdmissibleLocked, External
    <3> QED
      BY <1>2, <2>3, <3>1 DEF FirstArrived
  <2> QED
    BY <1>3, <2>1, <2>2, <2>3 DEF Classes, External
<1>8. q \in ahead[r] \/ r \in ahead[q]
  BY <1>1, <1>2, <1>6 DEF AInv, QueueOrder
<1> QED
  BY <1>6, <1>7, <1>8

(* No barging: no admission, at a door or from the queue, under the ring of
   principal_rr or the fairness order, goes past an earlier waiter of the same
   class and bucket. *)
THEOREM NeverBarges == Spec => NoBarging
<1>1. AInv /\ [Next]_vars =>
        [\A r \in Admitted : ~cont(r) =>
          \A q \in Bucket(class(r), bucketKey(r)) \ {r} :
             phase[r] = "queued" /\ r \in ahead[q]]_vars
  BY AdmittedInOrder
<1> QED
  BY <1>1, AdmissionInvariance, PTL DEF Spec, NoBarging

(* Interactive is ranked above every other class. *)
LEMMA InteractiveFirst ==
  ASSUME NEW o \in RankOrders, NEW c \in Classes, c # "I"
  PROVE  "I" \in Above(o, c) /\ Rank(o, "I") = 1
<1>1. "I" \in Classes
  BY DEF Classes
<1>2. /\ Rank(o, "I") \in 1..4 /\ o[Rank(o, "I")] = "I" /\ Rank(o, c) \in 1..4 /\ o[Rank(o, c)] = c
  BY <1>1, RankType
<1>3. o[1] = "I" /\ \A i, j \in 1..4 : o[i] = o[j] => i = j
  BY DEF RankOrders, validRankOrder
<1>4. Rank(o, "I") = 1
  BY <1>2, <1>3
<1>5. Rank(o, c) # 1
  BY <1>2, <1>3
<1> QED
  BY <1>1, <1>2, <1>4, <1>5 DEF Above

(* A class with waiters yields one to the wake loop whenever its head is
   admissible. *)
LEMMA AdmissiblePicks ==
  ASSUME AInv, NEW c \in Classes, NEW rr, NEW slots \in Nat, headAdmissibleLocked(c, slots)
  PROVE  pickAdmissibleLocked(c, rr, slots) # {}
<1>0. QueueOrder /\ Queued(c) # {}
  BY DEF AInv, headAdmissibleLocked
<1>1. FirstArrived(Queued(c)) # {}
  BY <1>0, FirstExists
<1>2. CASE External(c)
  BY <1>2 DEF headAdmissibleLocked, pickAdmissibleLocked, External
<1>3. CASE c = "B"
  BY <1>1, <1>3 DEF headAdmissibleLocked, pickAdmissibleLocked, External
<1>4. CASE c = "I"
  <2>1. held + 1 <= slots /\ held \in Nat
    BY <1>4 DEF headAdmissibleLocked, External, AInv, IInv, TypeOK, LeaseTypeOK
  <2>2. Heads("I") # {}
    <3>1. PICK r : r \in FirstArrived(Queued("I"))
      BY <1>1, <1>4
    <3>2. Conts("I") = {}
      BY DEF Conts, cont, Queued, External
    <3> QED
      BY <3>1, <3>2 DEF FirstArrived, Heads, Bucket
  <2>3. ~(held + 1 > slots)
    BY <2>1
  <2>4. pickAdmissibleLocked("I", rr, slots)
          = IF rr THEN Heads("I") ELSE FirstArrived(Queued("I"))
    BY <2>3 DEF pickAdmissibleLocked, External
  <2>5. CASE rr
    BY <1>4, <2>2, <2>4, <2>5
  <2>6. CASE ~rr
    BY <1>1, <1>4, <2>4, <2>6
  <2> QED
    BY <2>5, <2>6
<1> QED
  BY <1>2, <1>3, <1>4 DEF Classes, External

(* A background admission. *)
LEMMA AdmittedBackground ==
  ASSUME AInv, [Next]_vars, NEW r \in Admitted, class(r) = "B"
  PROVE  Queued("I") = {} /\ (demand = 0 \/ r \in old)
<1>1. /\ r \in Requests /\ (AdmittedAtDoor(r) \/ AdmittedByWake(r))
  BY AdmittedHow DEF AInv
<1>2. /\ slotsLocked \in Nat /\ scan.slots \in Nat /\ held \in Nat
      /\ settings.order \in RankOrders /\ scan.order \in RankOrders /\ scan.from \in 1..4
  BY SlotsType DEF AInv, IInv, TypeOK, LeaseTypeOK, SectionTypeOK, CfgTypeOK, Settings
<1>3. "B" \in Classes /\ "B" # "I" /\ "I" \in Classes
  BY DEF Classes
<1>4. CASE AdmittedAtDoor(r)
  <2>1. /\ admissibleLocked("B", requestWeight(r), slotsLocked)
        /\ rankClearLocked("B", slotsLocked) /\ requestWeight(r) = 1
    BY <1>1, <1>4, InHouseWeight DEF AdmittedAtDoor, eligibleNowLocked, External
  <2>2. held + 1 <= slotsLocked /\ demand = 0
    BY <2>1 DEF admissibleLocked, backgroundFits, External
  <2>3. ~headAdmissibleLocked("I", slotsLocked)
    BY <1>2, <1>3, <2>1, InteractiveFirst DEF rankClearLocked, AboveNow
  <2> QED
    BY <2>2, <2>3 DEF headAdmissibleLocked, External
<1>5. CASE AdmittedByWake(r)
  <2>1. r \in ScanPick /\ wake = "scan"
    BY <1>5 DEF AdmittedByWake
  <2>2. /\ r \in pickAdmissibleLocked("B", scan.rr, scan.slots) /\ scan.slots > 0
        /\ \A g \in Above(scan.order, "B") :
               Rank(scan.order, g) >= scan.from /\ (scan.slots > 0 \/ External(g)) =>
                  pickAdmissibleLocked(g, scan.rr, scan.slots) = {}
    BY <2>1, ScanPickHow DEF External
  <2>3. backgroundHeadGoes(scan.slots) /\ r \in FirstArrived(Queued("B"))
    BY <2>2 DEF pickAdmissibleLocked, External
  <2>4. held + 1 <= scan.slots /\ (demand = 0 \/ agingEscapeLocked)
    BY <2>3 DEF backgroundHeadGoes, backgroundFits
  <2>5. demand = 0 \/ r \in old
    <3>1. CASE agingEscapeLocked
      <4>1. PICK q \in FirstArrived(Queued("B")) : q \in old
        BY <3>1 DEF agingEscapeLocked
      <4>2. q = r
        BY <2>3, <4>1, FirstUnique DEF AInv
      <4> QED
        BY <4>1, <4>2
    <3> QED
      BY <2>4, <3>1
  <2>6. scan.from = 1
    BY <2>1, <2>2 DEF AInv, ScanOK
  <2>7. pickAdmissibleLocked("I", scan.rr, scan.slots) = {}
    <3>1. "I" \in Above(scan.order, "B") /\ Rank(scan.order, "I") = 1
      BY <1>2, <1>3, InteractiveFirst
    <3> QED
      BY <2>2, <2>6, <3>1
  <2>8. ~headAdmissibleLocked("I", scan.slots)
    BY <1>2, <1>3, <2>7, AdmissiblePicks
  <2> QED
    BY <2>4, <2>5, <2>8 DEF headAdmissibleLocked, External
<1> QED
  BY <1>1, <1>4, <1>5

(* Background takes a slot, the aging escape included, only while no interactive
   acquire waits, and only an aged head takes one against the herald. *)
THEOREM BackgroundAlwaysYields == Spec => BackgroundYields
<1>1. AInv /\ [Next]_vars =>
        [\A r \in Admitted : class(r) = "B" =>
          Queued("I") = {} /\ (demand = 0 \/ r \in old)]_vars
  BY AdmittedBackground
<1> QED
  BY <1>1, AdmissionInvariance, PTL DEF Spec, BackgroundYields

-----------------------------------------------------------------------------
(* The caps of the queues. *)

(* One more waiter counts as one more. *)
LEMMA OneMore ==
  ASSUME NEW S \in SUBSET Requests, NEW r \in Requests, NEW T, T \subseteq S \cup {r},
         NEW n \in Nat, Cardinality(S) < n
  PROVE  Cardinality(T) <= n
<1>1. IsFiniteSet(S) /\ Cardinality(S) \in Nat
  BY FS_Subset, FS_CardinalityType, RequestsAssumption
<1>2. IsFiniteSet(S \cup {r}) /\ Cardinality(S \cup {r}) <= Cardinality(S) + 1
  <2>1. /\ IsFiniteSet(S \cup {r})
        /\ Cardinality(S \cup {r}) = IF r \in S THEN Cardinality(S) ELSE Cardinality(S) + 1
    BY <1>1, FS_AddElement, Zenon
  <2>2. Cardinality(S \cup {r}) <= Cardinality(S) + 1
    BY <1>1, <2>1
  <2> QED
    BY <2>1, <2>2
<1>3. IsFiniteSet(T) /\ Cardinality(T) <= Cardinality(S \cup {r}) /\ Cardinality(S \cup {r}) \in Nat
  BY <1>2, FS_Subset, FS_CardinalityType
<1>4. Cardinality(T) \in Nat
  BY <1>3, FS_CardinalityType
<1> QED
  BY <1>1, <1>2, <1>3, <1>4

(* The cap ladder lets nobody join beyond a cap. *)
LEMMA LadderHolds ==
  ASSUME IInv, NEW r \in Requests, phase[r] = "idle", Push(r), NEW caps \in Caps,
         capLadder(r, caps)
  PROVE  WithinCaps(r, caps)'
<1> DEFINE q == Queued(class(r))
           n == Queued(class(r))' \ Conts(class(r))'
           ten == Principal[r].tenant
<1>1. q \in SUBSET Requests /\ n \subseteq q \cup {r}
  <2>1. \A x \in Requests : phase'[x] = "queued" => phase[x] = "queued" \/ x = r
    BY DEF IInv, TypeOK, QueueTypeOK, Push
  <2> QED
    BY <2>1 DEF Queued
<1>2. caps.principal \in Nat /\ caps.tenant \in Nat /\ caps.total \in Nat
  BY DEF Caps
<1>3. ASSUME caps.total > 0 PROVE Cardinality(n) <= caps.total
  <2>1. Cardinality(q) < caps.total
    BY <1>3 DEF capLadder
  <2> HIDE DEF q, n
  <2> QED
    BY <1>1, <1>2, <2>1, OneMore
<1>4. ASSUME caps.principal > 0
      PROVE  Cardinality({x \in n : capKey(x) = capKey(r)}) <= caps.principal
  <2>1. Cardinality({x \in q : capKey(x) = capKey(r)}) < caps.principal
    BY <1>4 DEF capLadder
  <2> HIDE DEF q, n
  <2>2. /\ {x \in q : capKey(x) = capKey(r)} \in SUBSET Requests
        /\ {x \in n : capKey(x) = capKey(r)} \subseteq {x \in q : capKey(x) = capKey(r)} \cup {r}
    BY <1>1
  <2> QED
    BY <1>2, <2>1, <2>2, OneMore
<1>5. ASSUME caps.tenant > 0, ten # ""
      PROVE  Cardinality({x \in n : Principal[x].tenant = ten}) <= caps.tenant
  <2>1. Cardinality({x \in q : Principal[x].tenant = ten}) < caps.tenant
    BY <1>5 DEF capLadder
  <2> HIDE DEF q, n
  <2>2. /\ {x \in q : Principal[x].tenant = ten} \in SUBSET Requests
        /\ {x \in n : Principal[x].tenant = ten} \subseteq {x \in q : Principal[x].tenant = ten} \cup {r}
    BY <1>1
  <2> QED
    BY <1>2, <2>1, <2>2, OneMore
<1> QED
  BY <1>3, <1>4, <1>5 DEF WithinCaps

(* Who joins a queue comes through a door and its caps. *)
LEMMA JoinsHow ==
  ASSUME IInv, [Next]_vars, NEW r \in Requests, phase[r] # "queued", phase'[r] = "queued"
  PROVE  /\ phase[r] = "idle" /\ Push(r) /\ UNCHANGED cfgVars /\ Unlocked
         /\ \E now : EnqueueInHouse(r, now) \/ EnqueueExternal(r, now)
         /\ class(r) = "I" => capLadder(r, settings.iCaps)
         /\ class(r) = "B" /\ settings.bMax > 0 => Cardinality(Queued("B")) < settings.bMax
         /\ External(class(r)) => cont(r) \/ capLadder(r, settings.xCaps)
<1>0. QueueTypeOK
  BY DEF IInv, TypeOK
<1>1. ASSUME NEW q \in Requests, Door(q)
      PROVE  q = r /\ \E now : EnqueueInHouse(r, now) \/ EnqueueExternal(r, now)
  <2> PICK now : Acquire(q, now) \/ TryAcquire(q, now)
    BY <1>1 DEF Door
  <2>1. CASE AdmitPassThrough(q) \/ AdmitNow(q, now)
    BY <1>0, <2>1 DEF AdmitPassThrough, AdmitNow, QueueTypeOK
  <2>2. CASE yieldToEscapeLocked
    BY <2>2 DEF yieldToEscapeLocked, queueVars
  <2>3. CASE EnqueueInHouse(q, now) \/ EnqueueExternal(q, now)
    <3>1. phase' = [phase EXCEPT ![q] = "queued"]
      BY <2>3 DEF EnqueueInHouse, EnqueueExternal, Push
    <3>2. q = r
      BY <1>0, <3>1 DEF QueueTypeOK
    <3> QED
      BY <2>3, <3>2
  <2> QED
    BY <2>1, <2>2, <2>3 DEF Acquire, TryAcquire, Refuse, WouldBlock
<1>2. ASSUME NEW q \in Requests, Waiter(q) \/ Release(q) PROVE FALSE
  <2>1. \E ph \in {"idle", "running"} : phase' = [phase EXCEPT ![q] = ph]
    BY <1>2 DEF Waiter, Release, CtxDone, ExpireWaiter, dropWaiterLocked, ReturnLease,
                ReturnError, EndRun
  <2> QED
    BY <1>0, <2>1 DEF QueueTypeOK
<1>3. ~Section
  <2>1. ~WakeDrain
    BY <1>0 DEF WakeDrain, QueueTypeOK
  <2>2. ~\E q \in In("queued") : WakeHandoff(q)
    BY <1>0 DEF WakeHandoff, QueueTypeOK
  <2>3. WakeEnd \/ ReapWake \/ (\E q \in reaping : ReapLease(q)) => phase' = phase
    BY DEF WakeEnd, ReapWake, ReapLease, queueVars
  <2> QED
    BY <2>1, <2>2, <2>3 DEF Section
<1>4. ~ReapNow /\ ~Swap /\ ~UNCHANGED vars
  BY DEF ReapNow, Swap, InteractiveArrived, InteractiveDone, WakeAll, UpdateSettings,
         UpdatePolicy, vars, queueVars
<1>5. ~Timer
  BY DEF Timer, Age, PassReapDeadline, PreemptWatchdog, queueVars
<1>6. \E q \in Requests : Door(q)
  BY <1>2, <1>3, <1>4, <1>5 DEF Next, Caller, In
<1>7. PICK now : EnqueueInHouse(r, now) \/ EnqueueExternal(r, now)
  BY <1>1, <1>6
<1>8. phase[r] = "idle" /\ Unlocked
  BY <1>1, <1>6 DEF Door, AtDoor
<1> QED
  BY <1>7, <1>8 DEF EnqueueInHouse, EnqueueExternal, External

(* The caps in force bound the queue a waiter has just joined. *)
LEMMA JoinsWithin ==
  ASSUME IInv, [Next]_vars, NEW r \in Requests, phase[r] # "queued", phase'[r] = "queued",
         ~cont(r)
  PROVE  CASE class(r) = "I" -> WithinCaps(r, settings.iCaps)'
           [] class(r) \in {"XU", "XB"} -> WithinCaps(r, settings.xCaps)'
           [] class(r) = "B" -> settings.bMax > 0 =>
                                   Cardinality(Queued("B")') <= settings.bMax
<1>1. /\ phase[r] = "idle" /\ Push(r) /\ UNCHANGED cfgVars
      /\ class(r) = "I" => capLadder(r, settings.iCaps)
      /\ class(r) = "B" /\ settings.bMax > 0 => Cardinality(Queued("B")) < settings.bMax
      /\ External(class(r)) => cont(r) \/ capLadder(r, settings.xCaps)
  BY JoinsHow
<1>2. settings.iCaps \in Caps /\ settings.xCaps \in Caps /\ settings.bMax \in Nat
  BY DEF IInv, TypeOK, CfgTypeOK, Settings
<1>3. settings' = settings
  BY <1>1 DEF cfgVars
<1>4. CASE class(r) = "I"
  <2>1. PICK caps \in Caps : caps = settings.iCaps
    BY <1>2
  <2>2. WithinCaps(r, caps)'
    BY <1>1, <1>4, <2>1, LadderHolds
  <2> QED
    BY <1>3, <1>4, <2>1, <2>2 DEF WithinCaps
<1>5. CASE class(r) \in {"XU", "XB"}
  <2>1. PICK caps \in Caps : caps = settings.xCaps
    BY <1>2
  <2>2. WithinCaps(r, caps)'
    BY <1>1, <1>5, <2>1, LadderHolds DEF External
  <2> QED
    BY <1>3, <1>5, <2>1, <2>2 DEF WithinCaps
<1>6. CASE class(r) = "B"
  <2>1. Queued("B") \in SUBSET Requests /\ Queued("B")' \subseteq Queued("B") \cup {r}
    BY <1>1 DEF Queued, Push, IInv, TypeOK, QueueTypeOK
  <2>2. settings.bMax > 0 => Cardinality(Queued("B")') <= settings.bMax
    BY <1>1, <1>2, <1>6, <2>1, OneMore
  <2> QED
    BY <1>6, <2>2
<1>7. class(r) \in Classes
  BY ClassType
<1> QED
  BY <1>4, <1>5, <1>6, <1>7 DEF Classes

(* The admission caps bound the queues: whoever joins one leaves it within the
   caps in force at that moment, however the settings are switched while others
   wait; only continuations skip them. *)
THEOREM QueuesStayBounded == Spec => QueuesBounded
<1>1. AInv /\ [Next]_vars =>
        [\A r \in Requests : phase[r] # "queued" /\ phase'[r] = "queued" /\ ~cont(r) =>
         CASE class(r) = "I" -> WithinCaps(r, settings.iCaps)'
           [] class(r) \in {"XU", "XB"} -> WithinCaps(r, settings.xCaps)'
           [] class(r) = "B" -> settings.bMax > 0 =>
                                   Cardinality(Queued("B")') <= settings.bMax]_vars
  BY JoinsWithin DEF AInv
<1> QED
  BY <1>1, AdmissionInvariance, PTL DEF Spec, QueuesBounded

=============================================================================
