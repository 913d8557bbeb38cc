-------------------------- MODULE DispatcherProofs --------------------------
(***************************************************************************)
(* Proofs about Dispatcher for every set of requests, every policy and     *)
(* every settings row.                                                     *)
(***************************************************************************)
EXTENDS Dispatcher, FiniteSetTheorems, TLAPS

-----------------------------------------------------------------------------
(* Requests. *)

(* B8 and the class table: every request is served in one of the classes. *)
LEMMA ClassType == \A r \in Requests : class(r) \in Classes
  BY RequestsAssumption DEF class, Classes

(* requestWeight: a request takes at least one unit and at most the bound. *)
LEMMA WeightType == \A r \in Requests : requestWeight(r) \in 1..MaxWeight
  BY RequestsAssumption, BoundsAssumption DEF requestWeight

-----------------------------------------------------------------------------
(* The unit sums behind held, heldExt and classHeld. *)

UnitsOf(S) == {u \in S \X (1..MaxWeight) : u[2] <= requestWeight(u[1])}

(* The slot units of a set of requests are finitely many. *)
LEMMA UnitsFinite ==
  ASSUME NEW S \in SUBSET Requests
  PROVE  IsFiniteSet(UnitsOf(S)) /\ Units(S) \in Nat
<1>1. IsFiniteSet(S)
  BY FS_Subset, RequestsAssumption
<1>2. IsFiniteSet(1..MaxWeight)
  BY FS_Interval, BoundsAssumption
<1>3. IsFiniteSet(S \X (1..MaxWeight))
  BY <1>1, <1>2, FS_Product
<1>4. UnitsOf(S) \subseteq S \X (1..MaxWeight)
  BY DEF UnitsOf
<1>5. IsFiniteSet(UnitsOf(S))
  BY <1>3, <1>4, FS_Subset
<1>6. Units(S) = Cardinality(UnitsOf(S))
  BY DEF Units, UnitsOf
<1> QED
  BY <1>5, <1>6, FS_CardinalityType

(* Nobody holds nothing. *)
LEMMA UnitsEmpty == Units({}) = 0
<1>1. {u \in {} \X (1..MaxWeight) : u[2] <= requestWeight(u[1])} = {}
  OBVIOUS
<1> QED
  BY <1>1, FS_EmptySet DEF Units

(* One more lease adds its weight. *)
LEMMA UnitsAdd ==
  ASSUME NEW S \in SUBSET Requests, NEW r \in Requests, r \notin S
  PROVE  Units(S \cup {r}) = Units(S) + requestWeight(r)
<1> DEFINE own == {r} \X (1..requestWeight(r))
<1>1. requestWeight(r) \in 1..MaxWeight
  BY WeightType
<1>2. UnitsOf(S \cup {r}) = UnitsOf(S) \cup own
  BY <1>1, BoundsAssumption DEF UnitsOf
<1>3. UnitsOf(S) \cap own = {}
  BY DEF UnitsOf
<1>4. IsFiniteSet(own) /\ Cardinality(own) = requestWeight(r)
  <2>1. IsFiniteSet({r}) /\ Cardinality({r}) = 1
    BY FS_Singleton
  <2>2. /\ IsFiniteSet(1..requestWeight(r))
        /\ Cardinality(1..requestWeight(r)) = requestWeight(r)
    BY <1>1, FS_Interval
  <2>3. /\ IsFiniteSet(own)
        /\ Cardinality(own) = Cardinality({r}) * Cardinality(1..requestWeight(r))
    BY <2>1, <2>2, FS_Product
  <2> QED
    BY <2>1, <2>2, <2>3, <1>1
<1>5. IsFiniteSet(UnitsOf(S)) /\ Cardinality(UnitsOf(S)) \in Nat
  BY UnitsFinite, FS_CardinalityType
<1>6. Cardinality(UnitsOf(S) \cap own) = 0
  BY <1>3, FS_EmptySet
<1>7. Cardinality(UnitsOf(S) \cup own)
        = Cardinality(UnitsOf(S)) + Cardinality(own) - Cardinality(UnitsOf(S) \cap own)
  BY <1>4, <1>5, FS_Union
<1> HIDE DEF own
<1>8. Cardinality(UnitsOf(S) \cup own) = Cardinality(UnitsOf(S)) + requestWeight(r)
  BY <1>1, <1>4, <1>5, <1>6, <1>7
<1>9. Cardinality(UnitsOf(S \cup {r})) = Cardinality(UnitsOf(S)) + requestWeight(r)
  BY <1>2, <1>8, Zenon
<1> QED
  BY <1>9 DEF Units, UnitsOf

(* One lease less gives its weight back. *)
LEMMA UnitsRemove ==
  ASSUME NEW S \in SUBSET Requests, NEW r \in S
  PROVE  /\ Units(S \ {r}) = Units(S) - requestWeight(r)
         /\ Units(S) >= requestWeight(r)
<1>1. Units((S \ {r}) \cup {r}) = Units(S \ {r}) + requestWeight(r)
  BY UnitsAdd
<1>2. (S \ {r}) \cup {r} = S
  OBVIOUS
<1>3. Units(S \ {r}) \in Nat /\ Units(S) \in Nat
  BY UnitsFinite
<1>4. requestWeight(r) \in Nat
  BY WeightType, BoundsAssumption
<1>5. Units(S) = Units(S \ {r}) + requestWeight(r)
  BY <1>1, <1>2, Zenon
<1> QED
  BY <1>3, <1>4, <1>5

-----------------------------------------------------------------------------
(* The two places that move units. *)

OfClass(S, c) == {r \in S : class(r) = c}

(* A new lease keeps the counters equal to what they count. *)
LEMMA AdmitKeepsAccounting ==
  ASSUME TypeOK, Accounting,
         NEW r \in Requests, r \notin slotHeld, NEW b \in BOOLEAN, admitLocked(r, b)
  PROVE  /\ Accounting'
         /\ held' \in Nat /\ heldExt' \in Nat /\ classHeld' \in [Classes -> Nat]
<1> DEFINE w == requestWeight(r)
           cl == class(r)
<1>0. /\ w \in Nat /\ cl \in Classes
      /\ held \in Nat /\ heldExt \in Nat /\ classHeld \in [Classes -> Nat]
      /\ slotHeld \in SUBSET Requests /\ extCancel \in SUBSET Requests
  BY WeightType, BoundsAssumption, ClassType DEF TypeOK, LeaseTypeOK
<1>1. CASE ~b
  <2>1. UNCHANGED <<slotHeld, held, heldExt, classHeld, cancelable, extCancel>>
    BY <1>1 DEF admitLocked
  <2> QED
    BY <2>1, <1>0 DEF Accounting
<1>2. CASE b
  <2>1. /\ slotHeld' = slotHeld \cup {r}
        /\ held' = held + w
        /\ classHeld' = [classHeld EXCEPT ![cl] = @ + w]
        /\ heldExt' = IF External(cl) THEN heldExt + w ELSE heldExt
        /\ cancelable' = IF cl = "B" THEN cancelable \cup {r} ELSE cancelable
        /\ extCancel' = IF External(cl) THEN extCancel \cup {r} ELSE extCancel
    BY <1>2 DEF admitLocked, bookClassHeld
  <2> HIDE DEF w, cl
  <2>2. held' = Units(slotHeld')
    <3>1. Units(slotHeld \cup {r}) = Units(slotHeld) + w
      BY <1>0, UnitsAdd DEF w
    <3> QED
      BY <2>1, <3>1 DEF Accounting
  <2>3. heldExt' = Units(extCancel')
    <3>1. CASE External(cl)
      <4>1. r \notin extCancel
        BY DEF Accounting
      <4>2. Units(extCancel \cup {r}) = Units(extCancel) + w
        BY <1>0, <4>1, UnitsAdd DEF w
      <4> QED
        BY <2>1, <3>1, <4>2 DEF Accounting
    <3>2. CASE ~External(cl)
      BY <2>1, <3>2 DEF Accounting
    <3> QED
      BY <3>1, <3>2
  <2>4. ASSUME NEW c \in Classes
        PROVE  classHeld'[c] = Units(OfClass(slotHeld', c))
    <3>0. classHeld[c] = Units(OfClass(slotHeld, c))
      BY DEF Accounting, OfClass
    <3>1. CASE c = cl
      <4>1. OfClass(slotHeld', c) = OfClass(slotHeld, c) \cup {r}
        BY <2>1, <3>1 DEF OfClass, cl
      <4>2. OfClass(slotHeld, c) \in SUBSET Requests /\ r \notin OfClass(slotHeld, c)
        BY <1>0 DEF OfClass
      <4>3. Units(OfClass(slotHeld, c) \cup {r}) = Units(OfClass(slotHeld, c)) + w
        BY <4>2, UnitsAdd DEF w
      <4>4. classHeld'[c] = classHeld[c] + w
        BY <2>1, <1>0, <3>1
      <4>5. Units(OfClass(slotHeld', c)) = Units(OfClass(slotHeld, c)) + w
        BY <4>1, <4>3, Zenon
      <4> QED
        BY <4>4, <4>5, <3>0, Zenon
    <3>2. CASE c # cl
      <4>1. OfClass(slotHeld', c) = OfClass(slotHeld, c)
        BY <2>1, <3>2 DEF OfClass, cl
      <4>2. classHeld'[c] = classHeld[c]
        BY <2>1, <1>0, <3>2
      <4> QED
        BY <4>1, <4>2, <3>0, Zenon
    <3> QED
      BY <3>1, <3>2
  <2>5. cancelable' = {q \in slotHeld' : class(q) = "B"}
    BY <2>1 DEF Accounting, cl
  <2>6. extCancel' = {q \in slotHeld' : External(class(q))}
    BY <2>1 DEF Accounting, cl
  <2>7. Accounting'
    BY <2>2, <2>3, <2>4, <2>5, <2>6 DEF Accounting, OfClass
  <2>8. held' \in Nat /\ heldExt' \in Nat /\ classHeld' \in [Classes -> Nat]
    BY <2>1, <1>0
  <2> QED
    BY <2>7, <2>8
<1> QED
  BY <1>1, <1>2

(* A lease that ends gives back exactly what it took. *)
LEMMA FinishKeepsAccounting ==
  ASSUME TypeOK, Accounting, NEW r \in Requests, finishLocked(r)
  PROVE  /\ Accounting'
         /\ held' \in Nat /\ heldExt' \in Nat /\ classHeld' \in [Classes -> Nat]
<1> DEFINE w == requestWeight(r)
           cl == class(r)
<1>0. /\ w \in Nat /\ cl \in Classes
      /\ held \in Nat /\ heldExt \in Nat /\ classHeld \in [Classes -> Nat]
      /\ slotHeld \in SUBSET Requests /\ extCancel \in SUBSET Requests
  BY WeightType, BoundsAssumption, ClassType DEF TypeOK, LeaseTypeOK
<1>1. CASE r \notin slotHeld
  <2>1. UNCHANGED <<slotHeld, held, heldExt, classHeld, cancelable, extCancel>>
    BY <1>1 DEF finishLocked, Accounting
  <2> QED
    BY <2>1, <1>0 DEF Accounting
<1>2. CASE r \in slotHeld
  <2>1. /\ slotHeld' = slotHeld \ {r}
        /\ held' = held - w
        /\ classHeld' = [classHeld EXCEPT ![cl] = @ + (-w)]
        /\ heldExt' = IF External(cl) THEN heldExt - w ELSE heldExt
        /\ cancelable' = cancelable \ {r}
        /\ extCancel' = extCancel \ {r}
    BY <1>2 DEF finishLocked, bookClassHeld
  <2> HIDE DEF w, cl
  <2>2. held' = Units(slotHeld') /\ held' \in Nat
    <3>1. Units(slotHeld \ {r}) = Units(slotHeld) - w
      BY <1>0, <1>2, UnitsRemove DEF w
    <3>2. Units(slotHeld \ {r}) \in Nat
      BY <1>0, UnitsFinite
    <3> QED
      BY <2>1, <3>1, <3>2 DEF Accounting
  <2>3. heldExt' = Units(extCancel') /\ heldExt' \in Nat
    <3>1. CASE External(cl)
      <4>1. r \in extCancel
        BY <1>2, <3>1 DEF Accounting, cl
      <4>2. Units(extCancel \ {r}) = Units(extCancel) - w
        BY <1>0, <4>1, UnitsRemove DEF w
      <4>3. Units(extCancel \ {r}) \in Nat
        BY <1>0, UnitsFinite
      <4> QED
        BY <2>1, <3>1, <4>2, <4>3 DEF Accounting
    <3>2. CASE ~External(cl)
      <4>1. extCancel' = extCancel
        BY <2>1, <3>2 DEF Accounting, cl
      <4> QED
        BY <2>1, <3>2, <4>1, <1>0 DEF Accounting
    <3> QED
      BY <3>1, <3>2
  <2>4. ASSUME NEW c \in Classes
        PROVE  classHeld'[c] = Units(OfClass(slotHeld', c)) /\ classHeld'[c] \in Nat
    <3>0. /\ classHeld[c] = Units(OfClass(slotHeld, c))
          /\ OfClass(slotHeld, c) \in SUBSET Requests
      BY <1>0 DEF Accounting, OfClass
    <3>1. CASE c = cl
      <4>1. OfClass(slotHeld', c) = OfClass(slotHeld, c) \ {r}
        BY <2>1, <3>1 DEF OfClass, cl
      <4>2. r \in OfClass(slotHeld, c)
        BY <1>2, <3>1 DEF OfClass, cl
      <4>3. Units(OfClass(slotHeld, c) \ {r}) = Units(OfClass(slotHeld, c)) - w
        BY <3>0, <4>2, UnitsRemove DEF w
      <4>4. classHeld'[c] = classHeld[c] - w
        BY <2>1, <1>0, <3>1
      <4>5. Units(OfClass(slotHeld', c)) = Units(OfClass(slotHeld, c)) - w
        BY <4>1, <4>3, Zenon
      <4>6. Units(OfClass(slotHeld, c) \ {r}) \in Nat
        BY <3>0, UnitsFinite
      <4>7. Units(OfClass(slotHeld', c)) \in Nat
        BY <4>1, <4>6, Zenon
      <4> QED
        BY <4>4, <4>5, <4>7, <3>0, Zenon
    <3>2. CASE c # cl
      <4>1. OfClass(slotHeld', c) = OfClass(slotHeld, c)
        BY <2>1, <3>2 DEF OfClass, cl
      <4>2. classHeld'[c] = classHeld[c] /\ classHeld[c] \in Nat
        BY <2>1, <1>0, <3>2
      <4> QED
        BY <4>1, <4>2, <3>0, Zenon
    <3> QED
      BY <3>1, <3>2
  <2>5. cancelable' = {q \in slotHeld' : class(q) = "B"}
    BY <2>1 DEF Accounting
  <2>6. extCancel' = {q \in slotHeld' : External(class(q))}
    BY <2>1 DEF Accounting
  <2>7. Accounting'
    BY <2>2, <2>3, <2>4, <2>5, <2>6 DEF Accounting, OfClass
  <2>8. classHeld' \in [Classes -> Nat]
    <3>1. DOMAIN classHeld' = Classes /\ classHeld' = [c \in Classes |-> classHeld'[c]]
      BY <2>1, <1>0
    <3> QED
      BY <2>4, <3>1
  <2> QED
    BY <2>2, <2>3, <2>7, <2>8
<1> QED
  BY <1>1, <1>2

-----------------------------------------------------------------------------
(* What the wake loop may pick. *)

(* The default order is a valid one. *)
LEMMA DefaultOrder == o1 \in RankOrders
<1>1. o1 \in [1..4 -> Classes]
  BY DEF o1, Classes
<1>2. \A i, j \in 1..4 : o1[i] = o1[j] => i = j
  BY DEF o1
<1>3. o1[1] = "I"
  BY DEF o1
<1> QED
  BY <1>1, <1>2, <1>3 DEF RankOrders, validRankOrder

(* The scan of a section without a wake loop has the type of a scan. *)
LEMMA NoScanType ==
  NoScan \in [slots : Nat, order : RankOrders, rr : BOOLEAN, from : 1..4]
<1>1. 0 \in Nat /\ 1 \in 1..4
  OBVIOUS
<1> QED
  BY <1>1, DefaultOrder, Zenon DEF NoScan

(* A valid rank order ranks every class. *)
LEMMA RankType ==
  ASSUME NEW o \in RankOrders, NEW c \in Classes
  PROVE  Rank(o, c) \in 1..4 /\ o[Rank(o, c)] = c
<1>1. \E i \in 1..4 : o[i] = c
  <2>1. o[1] \in Classes /\ o[2] \in Classes /\ o[3] \in Classes /\ o[4] \in Classes
    BY DEF RankOrders
  <2>2. /\ o[1] # o[2] /\ o[1] # o[3] /\ o[1] # o[4]
        /\ o[2] # o[3] /\ o[2] # o[4] /\ o[3] # o[4]
    BY DEF RankOrders, validRankOrder
  <2>3. c = o[1] \/ c = o[2] \/ c = o[3] \/ c = o[4]
    BY <2>1, <2>2 DEF Classes
  <2> QED
    BY <2>3
<1> QED
  BY <1>1 DEF Rank

(* Every pick is a waiter of its class. *)
LEMMA PickWaits ==
  ASSUME NEW c \in Classes, NEW rr, NEW slots,
         NEW r \in pickAdmissibleLocked(c, rr, slots)
  PROVE  r \in Queued(c)
<1>1. CASE c = "I"
  BY <1>1 DEF pickAdmissibleLocked, Heads, FirstArrived, External
<1>2. CASE c = "B"
  BY <1>2 DEF pickAdmissibleLocked, FirstArrived, External
<1>3. CASE External(c)
  <2>1. r \in externalPickLocked(c, slots)
    BY <1>3 DEF pickAdmissibleLocked, External
  <2>2. \A cap : externalFirst(c, slots, cap) \subseteq Heads(c)
    BY DEF externalFirst, FairnessFirst
  <2>3. \A S, cap : FairnessFirst(S, cap) \subseteq S
    BY DEF FairnessFirst
  <2>4. r \in FirstArrived(Conts(c)) \/ r \in Heads(c)
    BY <2>1, <2>2, <2>3 DEF externalPickLocked
  <2> QED
    BY <2>4 DEF FirstArrived, Conts, Heads
<1> QED
  BY <1>1, <1>2, <1>3 DEF Classes, External

(* handoffLocked is only given a waiter, and passes only in-house ones
   through without a slot. *)
LEMMA HandoffWaits ==
  ASSUME NEW r \in DrainPick \cup ScanPick
  PROVE  /\ r \in Requests /\ phase[r] = "queued"
         /\ r \in DrainPick => ~External(class(r))
<1>1. r \in DrainPick => r \in Queued("I") \cup Queued("B")
  BY DEF DrainPick, FirstArrived
<1>2. r \in ScanPick => \E c \in Classes : r \in Queued(c)
  <2> SUFFICES ASSUME r \in ScanPick PROVE \E c \in Classes : r \in Queued(c)
    OBVIOUS
  <2>1. PICK c \in Classes : r \in pickAdmissibleLocked(c, scan.rr, scan.slots)
    BY DEF ScanPick
  <2> QED
    BY <2>1, PickWaits
<1> QED
  BY <1>1, <1>2 DEF Queued, External

-----------------------------------------------------------------------------
(* The inductive invariant: the counters, the owners and the cancel causes
   need each other.  Only a lease that the registries list is finished or
   cancelled, and only an owner outside them is admitted. *)

IInv == TypeOK /\ Accounting /\ LeaseOwned /\ CancelCauses

(* A dispatcher as New returns it satisfies the invariant. *)
THEOREM InitIInv == Init => IInv
<1> SUFFICES ASSUME Init PROVE IInv
  OBVIOUS
<1>1. CfgTypeOK
  <2>1. settings \in Settings /\ policy \in TargetPolicy /\ swapped \in BOOLEAN
    BY PolicyAssumption, SettingsAssumption, Zenon DEF Init
  <2>2. demand \in 0..MaxDemand
    BY BoundsAssumption DEF Init
  <2> QED
    BY <2>1, <2>2 DEF CfgTypeOK
<1>2. QueueTypeOK
  <2>1. slotTime \in SlotTimes
    <3>1. 0 \in 0..MaxSlotTime
      BY BoundsAssumption
    <3> QED
      BY <3>1 DEF Init, SlotTimes
  <2> QED
    BY <2>1, BoundsAssumption DEF Init, QueueTypeOK
<1>3. LeaseTypeOK
  BY DEF Init, LeaseTypeOK
<1>4. SectionTypeOK
  BY NoScanType, Zenon DEF Init, SectionTypeOK
<1>5. Accounting
  <2>1. /\ slotHeld = {} /\ extCancel = {} /\ cancelable = {}
        /\ held = 0 /\ heldExt = 0 /\ \A c \in Classes : classHeld[c] = 0
    BY DEF Init
  <2>2. \A c \in Classes : {r \in slotHeld : class(r) = c} = {}
    BY <2>1
  <2>3. \A c \in Classes : Units({r \in slotHeld : class(r) = c}) = 0
    BY <2>2, UnitsEmpty, Zenon
  <2> QED
    BY <2>1, <2>3, UnitsEmpty DEF Accounting
<1>6. LeaseOwned
  BY DEF Init, LeaseOwned
<1>7. CancelCauses
  BY DEF Init, CancelCauses
<1> QED
  BY <1>1, <1>2, <1>3, <1>4, <1>5, <1>6, <1>7 DEF IInv, TypeOK

(* An admission of a caller that holds no lease. *)
LEMMA AdmitKeepsIInv ==
  ASSUME IInv, NEW r \in Requests, NEW b \in BOOLEAN, NEW ph \in {"granted", "running"},
         phase[r] \in {"idle", "queued"}, admitLocked(r, b), External(class(r)) => b,
         phase' = [phase EXCEPT ![r] = ph], UNCHANGED reaping
  PROVE  QueueTypeOK' /\ LeaseTypeOK' /\ Accounting' /\ LeaseOwned' /\ CancelCauses'
<1> USE DEF IInv, TypeOK
<1>0. r \notin inflight /\ r \notin slotHeld
  BY DEF LeaseOwned
<1>1. /\ Accounting'
      /\ held' \in Nat /\ heldExt' \in Nat /\ classHeld' \in [Classes -> Nat]
  BY <1>0, AdmitKeepsAccounting
<1>2. QueueTypeOK'
  <2>1. phase' \in [Requests -> {"idle", "queued", "granted", "running", "failed"}]
    BY DEF QueueTypeOK
  <2>2. ahead' \in [Requests -> SUBSET Requests]
    BY DEF QueueTypeOK, admitLocked, Dequeue
  <2>3. passed' \in [Requests -> 0..MaxPassed]
    <3>1. ASSUME NEW q \in Requests
          PROVE  Saturated(passed[q] + requestWeight(r)) \in 0..MaxPassed
      BY WeightType, BoundsAssumption DEF QueueTypeOK, Saturated
    <3> QED
      BY <3>1, BoundsAssumption DEF QueueTypeOK, admitLocked
  <2>4. old' \subseteq Requests /\ viewOld' \subseteq Requests
    BY DEF QueueTypeOK, admitLocked
  <2>5. slotTime' \in SlotTimes
    BY DEF QueueTypeOK, admitLocked
  <2> QED
    BY <2>1, <2>2, <2>3, <2>4, <2>5 DEF QueueTypeOK, SlotTimes
<1>3. LeaseTypeOK'
  BY <1>1 DEF LeaseTypeOK, admitLocked
<1>4. LeaseOwned'
  <2>1. slotHeld' \subseteq inflight' /\ late' \subseteq inflight' /\ reaping' \subseteq late'
    BY DEF LeaseOwned, admitLocked
  <2>2. preempting' \subseteq cancelable'
    BY DEF LeaseOwned, admitLocked
  <2>3. \A q \in inflight' : phase'[q] \in {"granted", "running"}
    BY DEF LeaseOwned, admitLocked, QueueTypeOK
  <2>4. \A q \in inflight' : External(class(q)) => q \in slotHeld'
    BY DEF LeaseOwned, admitLocked
  <2> QED
    BY <2>1, <2>2, <2>3, <2>4 DEF LeaseOwned
<1>5. CancelCauses'
  BY DEF CancelCauses, admitLocked
<1> QED
  BY <1>1, <1>2, <1>3, <1>4, <1>5

(* The end of a lease, by its caller, the reaper or the watchdog; the caller
   is then gone or runs on without it. *)
LEMMA FinishKeepsIInv ==
  ASSUME IInv, NEW r \in inflight, finishLocked(r),
         phase' = phase \/ phase' = [phase EXCEPT ![r] = "idle"],
         reaping' \subseteq reaping \ {r}
  PROVE  /\ QueueTypeOK' /\ Accounting' /\ LeaseOwned'
         /\ cause' \in [Requests -> {"none", "preempted", "reaped"}] => LeaseTypeOK'
<1> USE DEF IInv, TypeOK
<1>0. r \in Requests
  BY DEF LeaseTypeOK
<1>1. /\ Accounting'
      /\ held' \in Nat /\ heldExt' \in Nat /\ classHeld' \in [Classes -> Nat]
  BY <1>0, FinishKeepsAccounting
<1>2. QueueTypeOK'
  BY BoundsAssumption DEF QueueTypeOK, finishLocked, SlotTimes
<1>3. cause' \in [Requests -> {"none", "preempted", "reaped"}] => LeaseTypeOK'
  BY <1>1 DEF LeaseTypeOK, finishLocked
<1>4. LeaseOwned'
  <2>1. /\ slotHeld' \subseteq inflight' /\ late' \subseteq inflight'
        /\ preempting' \subseteq cancelable' /\ reaping' \subseteq late'
    BY DEF LeaseOwned, finishLocked
  <2>2. \A q \in inflight' : phase'[q] \in {"granted", "running"}
    BY <1>0 DEF LeaseOwned, finishLocked, QueueTypeOK, LeaseTypeOK
  <2>3. \A q \in inflight' : External(class(q)) => q \in slotHeld'
    BY DEF LeaseOwned, finishLocked
  <2> QED
    BY <2>1, <2>2, <2>3 DEF LeaseOwned
<1> QED
  BY <1>1, <1>2, <1>3, <1>4

(* Steps that leave the leases alone. *)
LEMMA LeasesUnchanged ==
  ASSUME IInv, UNCHANGED leaseVars
  PROVE  LeaseTypeOK' /\ Accounting' /\ CancelCauses'
  BY DEF IInv, TypeOK, LeaseTypeOK, Accounting, CancelCauses, leaseVars, slotVars

(* A step that leaves the leases and their callers alone keeps LeaseOwned. *)
LEMMA OwnersUnchanged ==
  ASSUME IInv, UNCHANGED leaseVars, UNCHANGED reaping,
         \A r \in Requests : phase[r] \in {"granted", "running"} =>
                             phase'[r] \in {"granted", "running"}
  PROVE  LeaseOwned'
  BY DEF IInv, TypeOK, LeaseTypeOK, LeaseOwned, leaseVars, slotVars

(* slotsLocked is a number of slots. *)
LEMMA SlotsType ==
  ASSUME CfgTypeOK
  PROVE  slotsLocked \in Nat
  BY DEF CfgTypeOK, Settings, TargetPolicy, slotsLocked

(* The doors. *)
LEMMA DoorKeepsIInv ==
  ASSUME IInv, NEW r \in Requests, Door(r)
  PROVE  IInv'
<1> USE DEF IInv, TypeOK
<1> PICK now : Acquire(r, now) \/ TryAcquire(r, now)
  BY DEF Door
<1>0. phase[r] = "idle"
  BY DEF Door, AtDoor
<1>1. CASE AdmitPassThrough(r)
  <2>1. QueueTypeOK' /\ LeaseTypeOK' /\ Accounting' /\ LeaseOwned' /\ CancelCauses'
    <3>1. /\ phase[r] = "idle" /\ admitLocked(r, FALSE) /\ ~External(class(r))
          /\ phase' = [phase EXCEPT ![r] = "running"] /\ UNCHANGED reaping
      BY <1>0, <1>1 DEF AdmitPassThrough, sectionVars
    <3> QED
      BY <3>1, AdmitKeepsIInv
  <2>2. CfgTypeOK' /\ SectionTypeOK'
    BY <1>1 DEF AdmitPassThrough, cfgVars, sectionVars, CfgTypeOK, SectionTypeOK
  <2> QED
    BY <2>1, <2>2
<1>2. CASE AdmitNow(r, now)
  <2>1. QueueTypeOK' /\ LeaseTypeOK' /\ Accounting' /\ LeaseOwned' /\ CancelCauses'
    <3>1. /\ phase[r] = "idle" /\ admitLocked(r, TRUE)
          /\ phase' = [phase EXCEPT ![r] = "running"] /\ UNCHANGED reaping
      BY <1>0, <1>2 DEF AdmitNow
    <3> QED
      BY <3>1, AdmitKeepsIInv
  <2>2. CfgTypeOK' /\ SectionTypeOK'
    BY <1>2 DEF AdmitNow, cfgVars, CfgTypeOK, SectionTypeOK
  <2> QED
    BY <2>1, <2>2
<1>3. CASE EnqueueInHouse(r, now)
  <2>1. phase[r] = "idle" /\ Push(r) /\ UNCHANGED <<cfgVars, inflight, slotVars, late, sectionVars>>
    BY <1>0, <1>3 DEF EnqueueInHouse
  <2>2. /\ preempting' \subseteq cancelable
        /\ cause' \in [Requests -> {"none", "preempted", "reaped"}]
        /\ \A q \in Requests : cause'[q] # cause[q] =>
              cause'[q] = "preempted" /\ q \in cancelable
    <3>1. CASE maybePreemptLocked(slotsLocked)
      <4>1. PICK victims \in SUBSET cancelable :
               /\ preempting' = preempting \cup victims
               /\ cause' = [q \in Requests |-> IF q \in victims THEN "preempted" ELSE cause[q]]
        BY <3>1 DEF maybePreemptLocked, pickVictimsLocked
      <4> QED
        BY <4>1 DEF LeaseOwned, LeaseTypeOK
    <3>2. CASE UNCHANGED <<preempting, cause>>
      BY <3>2 DEF LeaseOwned, LeaseTypeOK
    <3> QED
      BY <1>3, <3>1, <3>2 DEF EnqueueInHouse
  <2>3. CfgTypeOK' /\ SectionTypeOK'
    BY <2>1 DEF cfgVars, sectionVars, CfgTypeOK, SectionTypeOK
  <2>4. QueueTypeOK'
    BY <2>1 DEF Push, QueueTypeOK, Queued
  <2>5. LeaseTypeOK' /\ Accounting'
    BY <2>1, <2>2 DEF slotVars, LeaseTypeOK, Accounting
  <2>6. LeaseOwned'
    BY <2>1, <2>2 DEF slotVars, sectionVars, LeaseOwned, Push, QueueTypeOK, LeaseTypeOK
  <2>7. CancelCauses'
    BY <2>2 DEF CancelCauses, Accounting
  <2> QED
    BY <2>3, <2>4, <2>5, <2>6, <2>7
<1>4. CASE EnqueueExternal(r, now)
  <2>1. /\ phase[r] = "idle" /\ Push(r) /\ wake' = "drain"
        /\ UNCHANGED <<cfgVars, leaseVars, scan, reaping, rewake>>
    BY <1>0, <1>4 DEF EnqueueExternal
  <2>2. CfgTypeOK' /\ SectionTypeOK' /\ QueueTypeOK'
    BY <2>1 DEF cfgVars, CfgTypeOK, SectionTypeOK, Push, QueueTypeOK, Queued
  <2>3. LeaseOwned'
    BY <2>1, OwnersUnchanged DEF Push, QueueTypeOK
  <2> QED
    BY <2>1, <2>2, <2>3, LeasesUnchanged
<1>5. CASE yieldToEscapeLocked
  <2>1. wake' = "drain" /\ UNCHANGED <<cfgVars, queueVars, leaseVars, scan, reaping, rewake>>
    BY <1>5 DEF yieldToEscapeLocked
  <2>2. CfgTypeOK' /\ SectionTypeOK' /\ QueueTypeOK'
    BY <2>1 DEF cfgVars, queueVars, CfgTypeOK, SectionTypeOK, QueueTypeOK, SlotTimes
  <2>3. LeaseOwned'
    BY <2>1, OwnersUnchanged DEF queueVars
  <2> QED
    BY <2>1, <2>2, <2>3, LeasesUnchanged
<1> QED
  BY <1>1, <1>2, <1>3, <1>4, <1>5 DEF Acquire, TryAcquire, Refuse, WouldBlock

(* The wake loop. *)
LEMMA WakeKeepsIInv ==
  ASSUME IInv, WakeDrain \/ (\E r \in Requests : WakeHandoff(r)) \/ WakeEnd
  PROVE  IInv'
<1> USE DEF IInv, TypeOK
<1>1. CASE WakeDrain
  <2>1. UNCHANGED <<cfgVars, leaseVars, reaping, rewake>>
    BY <1>1 DEF WakeDrain
  <2>2. CfgTypeOK'
    BY <2>1 DEF cfgVars, CfgTypeOK
  <2>3. QueueTypeOK'
    BY <1>1, BoundsAssumption DEF WakeDrain, QueueTypeOK, SlotTimes
  <2>4. SectionTypeOK'
    <3>1. slotsLocked \in Nat /\ settings.order \in RankOrders /\ settings.rr \in BOOLEAN
      BY SlotsType DEF CfgTypeOK, Settings
    <3>2. 1 \in 1..4
      OBVIOUS
    <3>3. scan' \in [slots : Nat, order : RankOrders, rr : BOOLEAN, from : 1..4]
      BY <1>1, <3>1, <3>2, Zenon DEF WakeDrain
    <3> QED
      BY <1>1, <2>1, <3>3 DEF WakeDrain, SectionTypeOK
  <2>5. LeaseOwned'
    <3>1. \A r \in Requests : phase[r] \in {"granted", "running"} => phase'[r] = phase[r]
      BY <1>1 DEF WakeDrain, Queued
    <3> QED
      BY <2>1, <3>1, OwnersUnchanged
  <2> QED
    BY <2>1, <2>2, <2>3, <2>4, <2>5, LeasesUnchanged
<1>2. ASSUME NEW r \in Requests, WakeHandoff(r)
      PROVE  IInv'
  <2>1. /\ r \in DrainPick \cup ScanPick
        /\ admitLocked(r, TRUE) \/ (admitLocked(r, FALSE) /\ r \in DrainPick)
    BY <1>2 DEF WakeHandoff
  <2>2. /\ phase[r] = "queued"
        /\ admitLocked(r, TRUE) \/ (admitLocked(r, FALSE) /\ ~External(class(r)))
    BY <2>1, HandoffWaits
  <2>3. /\ phase' = [phase EXCEPT ![r] = "granted"]
        /\ UNCHANGED <<cfgVars, wake, rewake>> /\ UNCHANGED reaping
    BY <1>2 DEF WakeHandoff
  <2>4. QueueTypeOK' /\ LeaseTypeOK' /\ Accounting' /\ LeaseOwned' /\ CancelCauses'
    BY <2>2, <2>3, AdmitKeepsIInv
  <2>5. CfgTypeOK'
    BY <2>3 DEF cfgVars, CfgTypeOK
  <2>6. SectionTypeOK'
    <3>1. Rank(scan.order, class(r)) \in 1..4
      BY RankType, ClassType DEF SectionTypeOK
    <3>2. PICK n \in 1..4 : scan' = [scan EXCEPT !.from = n]
      BY <1>2, <3>1 DEF WakeHandoff
    <3> QED
      BY <2>3, <3>2 DEF SectionTypeOK
  <2> QED
    BY <2>4, <2>5, <2>6
<1>3. CASE WakeEnd
  <2>1. /\ UNCHANGED <<cfgVars, queueVars, leaseVars, reaping, rewake>>
        /\ wake' = "no" /\ scan' = NoScan
    BY <1>3 DEF WakeEnd
  <2>2. CfgTypeOK' /\ QueueTypeOK'
    BY <2>1 DEF cfgVars, queueVars, CfgTypeOK, QueueTypeOK, SlotTimes
  <2>3. SectionTypeOK'
    BY <2>1, NoScanType DEF SectionTypeOK
  <2>4. LeaseOwned'
    BY <2>1, OwnersUnchanged DEF queueVars
  <2> QED
    BY <2>1, <2>2, <2>3, <2>4, LeasesUnchanged
<1> QED
  BY <1>1, <1>2, <1>3

(* The callers behind the doors. *)
LEMMA DropKeepsIInv ==
  ASSUME IInv, NEW r \in Requests, dropWaiterLocked(r)
  PROVE  IInv'
<1> USE DEF IInv, TypeOK
<1>1. /\ phase[r] = "queued" /\ phase' = [phase EXCEPT ![r] = "idle"]
      /\ UNCHANGED <<cfgVars, leaseVars, scan, reaping, rewake>>
  BY DEF dropWaiterLocked
<1>2. CfgTypeOK' /\ SectionTypeOK'
  BY <1>1 DEF dropWaiterLocked, cfgVars, CfgTypeOK, SectionTypeOK
<1>3. QueueTypeOK'
  BY BoundsAssumption DEF dropWaiterLocked, Dequeue, QueueTypeOK, SlotTimes
<1>4. LeaseOwned'
  BY <1>1, OwnersUnchanged DEF QueueTypeOK
<1> QED
  BY <1>1, <1>2, <1>3, <1>4, LeasesUnchanged

(* The end of a run, with a lease or after it was settled by another. *)
LEMMA EndRunKeepsIInv ==
  ASSUME IInv, NEW r \in Requests, EndRun(r), reaping = {}
  PROVE  IInv'
<1> USE DEF IInv, TypeOK
<1>1. /\ phase' = [phase EXCEPT ![r] = "idle"] /\ cause' = [cause EXCEPT ![r] = "none"]
      /\ UNCHANGED <<cfgVars, reaping, rewake>>
  BY DEF EndRun
<1>2. /\ cause' \in [Requests -> {"none", "preempted", "reaped"}]
      /\ CfgTypeOK' /\ CancelCauses'
  BY <1>1 DEF LeaseTypeOK, cfgVars, CfgTypeOK, CancelCauses
<1>3. CASE r \in inflight
  <2>1. finishLocked(r)
    BY <1>3 DEF EndRun
  <2>2. reaping' \subseteq reaping \ {r}
    BY <1>1
  <2>3. QueueTypeOK' /\ Accounting' /\ LeaseOwned' /\ LeaseTypeOK'
    BY <1>1, <1>2, <1>3, <2>1, <2>2, FinishKeepsIInv
  <2>4. SectionTypeOK'
    BY <1>1, <2>1 DEF finishLocked, SectionTypeOK
  <2> QED
    BY <1>2, <2>3, <2>4
<1>4. CASE r \notin inflight
  <2>1. UNCHANGED <<ahead, passed, old, viewOld, slotTime, inflight, slotVars,
                    preempting, late, wake, scan>>
    BY <1>4 DEF EndRun
  <2>2. QueueTypeOK' /\ SectionTypeOK'
    BY <1>1, <2>1 DEF QueueTypeOK, SectionTypeOK, SlotTimes
  <2>3. LeaseTypeOK' /\ Accounting'
    BY <1>2, <2>1 DEF slotVars, LeaseTypeOK, Accounting
  <2>4. LeaseOwned'
    BY <1>1, <1>4, <2>1 DEF slotVars, LeaseOwned, QueueTypeOK, LeaseTypeOK
  <2> QED
    BY <1>2, <2>2, <2>3, <2>4
<1> QED
  BY <1>3, <1>4

(* The steps of a caller after its door: answered, cancelled, expired,
   released. *)
LEMMA CallerKeepsIInv ==
  ASSUME IInv, NEW r \in Requests,
         \/ ReturnLease(r) \/ ReturnError(r) \/ CtxDone(r) \/ ExpireWaiter(r) \/ Release(r)
  PROVE  IInv'
<1>1. ASSUME NEW ph \in {"idle", "running"},
             phase[r] = IF ph = "idle" THEN "failed" ELSE "granted",
             phase' = [phase EXCEPT ![r] = ph],
             UNCHANGED <<cfgVars, ahead, passed, old, viewOld, slotTime, leaseVars, sectionVars>>
      PROVE  IInv'
  <2> USE DEF IInv, TypeOK
  <2>1. CfgTypeOK' /\ SectionTypeOK'
    BY <1>1 DEF cfgVars, sectionVars, CfgTypeOK, SectionTypeOK
  <2>2. QueueTypeOK'
    BY <1>1 DEF QueueTypeOK, SlotTimes
  <2>3. LeaseOwned'
    BY <1>1, OwnersUnchanged DEF QueueTypeOK, sectionVars
  <2> QED
    BY <1>1, <2>1, <2>2, <2>3, LeasesUnchanged
<1>2. CASE ReturnLease(r)
  BY <1>1, <1>2 DEF ReturnLease
<1>3. CASE ReturnError(r)
  BY <1>1, <1>3 DEF ReturnError
<1>4. CASE CtxDone(r)
  BY <1>4, DropKeepsIInv, EndRunKeepsIInv DEF CtxDone, Unlocked
<1>5. CASE ExpireWaiter(r)
  BY <1>5, DropKeepsIInv DEF ExpireWaiter
<1>6. CASE Release(r)
  BY <1>6, EndRunKeepsIInv DEF Release, Unlocked
<1> QED
  BY <1>2, <1>3, <1>4, <1>5, <1>6

(* Reaper and watchdog. *)
LEMMA ReaperKeepsIInv ==
  ASSUME IInv,
         \/ ReapNow \/ ReapWake
         \/ \E r \in Requests : ReapLease(r) \/ PreemptWatchdog(r)
  PROVE  IInv'
<1> USE DEF IInv, TypeOK
<1>1. CASE ReapNow
  <2>1. /\ reaping' = late /\ rewake' = settings.aging
        /\ UNCHANGED <<cfgVars, queueVars, leaseVars, wake, scan>>
    BY <1>1 DEF ReapNow
  <2>2. CfgTypeOK' /\ QueueTypeOK'
    BY <2>1 DEF cfgVars, queueVars, CfgTypeOK, QueueTypeOK, SlotTimes
  <2>3. SectionTypeOK'
    <3>1. settings.aging \in BOOLEAN
      BY DEF CfgTypeOK, Settings
    <3> QED
      BY <2>1, <3>1 DEF SectionTypeOK, LeaseTypeOK
  <2>4. LeaseOwned'
    BY <2>1 DEF LeaseOwned, leaseVars, slotVars, queueVars
  <2> QED
    BY <2>1, <2>2, <2>3, <2>4, LeasesUnchanged
<1>2. CASE ReapWake
  <2>1. /\ wake' = "drain" /\ rewake' = FALSE
        /\ UNCHANGED <<cfgVars, queueVars, leaseVars, scan, reaping>>
    BY <1>2 DEF ReapWake
  <2>2. CfgTypeOK' /\ QueueTypeOK' /\ SectionTypeOK'
    BY <2>1 DEF cfgVars, queueVars, CfgTypeOK, QueueTypeOK, SlotTimes, SectionTypeOK
  <2>3. LeaseOwned'
    BY <2>1, OwnersUnchanged DEF queueVars
  <2> QED
    BY <2>1, <2>2, <2>3, LeasesUnchanged
<1>3. ASSUME NEW r \in Requests, ReapLease(r)
      PROVE  IInv'
  <2>1. /\ r \in inflight /\ finishLocked(r) /\ phase' = phase
        /\ reaping' \subseteq reaping \ {r} /\ UNCHANGED <<cfgVars, rewake>>
    BY <1>3 DEF ReapLease, LeaseOwned
  <2>2. /\ cause' \in [Requests -> {"none", "preempted", "reaped"}]
        /\ CancelCauses'
    <3>1. r \in cancelable \cup extCancel => class(r) # "I"
      BY DEF Accounting, External
    <3> QED
      BY <1>3, <3>1 DEF ReapLease, LeaseTypeOK, CancelCauses
  <2>3. QueueTypeOK' /\ Accounting' /\ LeaseOwned' /\ LeaseTypeOK'
    BY <2>1, <2>2, FinishKeepsIInv
  <2>4. CfgTypeOK' /\ SectionTypeOK'
    BY <2>1 DEF cfgVars, CfgTypeOK, finishLocked, SectionTypeOK
  <2> QED
    BY <2>2, <2>3, <2>4
<1>4. ASSUME NEW r \in Requests, PreemptWatchdog(r)
      PROVE  IInv'
  <2>1. /\ r \in inflight /\ finishLocked(r) /\ phase' = phase
        /\ reaping' \subseteq reaping \ {r} /\ UNCHANGED <<cfgVars, cause, reaping, rewake>>
    BY <1>4 DEF PreemptWatchdog, LeaseOwned, Accounting, Unlocked
  <2>2. cause' \in [Requests -> {"none", "preempted", "reaped"}] /\ CancelCauses'
    BY <2>1 DEF LeaseTypeOK, CancelCauses
  <2>3. QueueTypeOK' /\ Accounting' /\ LeaseOwned' /\ LeaseTypeOK'
    BY <2>1, <2>2, FinishKeepsIInv
  <2>4. CfgTypeOK' /\ SectionTypeOK'
    BY <2>1 DEF cfgVars, CfgTypeOK, finishLocked, SectionTypeOK
  <2> QED
    BY <2>2, <2>3, <2>4
<1> QED
  BY <1>1, <1>2, <1>3, <1>4

(* Stores and time. *)
LEMMA SwapKeepsIInv ==
  ASSUME IInv, Swap
  PROVE  IInv'
<1> USE DEF IInv, TypeOK
<1>1. /\ UNCHANGED <<queueVars, leaseVars, scan, reaping, rewake>>
      /\ wake' = wake \/ wake' = "drain"
  BY DEF Swap, InteractiveArrived, InteractiveDone, WakeAll, UpdateSettings, UpdatePolicy,
         sectionVars
<1>2. CfgTypeOK'
  <2>1. CASE InteractiveArrived
    BY <2>1, BoundsAssumption DEF InteractiveArrived, CfgTypeOK
  <2>2. CASE InteractiveDone
    BY <2>2, BoundsAssumption DEF InteractiveDone, CfgTypeOK
  <2>3. CASE WakeAll
    BY <2>3 DEF WakeAll, CfgTypeOK
  <2>4. ASSUME NEW s \in SettingsSet, UpdateSettings(s) PROVE CfgTypeOK'
    BY <2>4, SettingsAssumption DEF UpdateSettings, CfgTypeOK
  <2>5. ASSUME NEW p \in PolicySet, UpdatePolicy(p) PROVE CfgTypeOK'
    BY <2>5, PolicyAssumption DEF UpdatePolicy, CfgTypeOK
  <2> QED
    BY <2>1, <2>2, <2>3, <2>4, <2>5 DEF Swap
<1>3. QueueTypeOK' /\ SectionTypeOK'
  BY <1>1 DEF queueVars, QueueTypeOK, SlotTimes, SectionTypeOK
<1>4. LeaseOwned'
  BY <1>1, OwnersUnchanged DEF queueVars
<1> QED
  BY <1>1, <1>2, <1>3, <1>4, LeasesUnchanged

(* The passing of time. *)
LEMMA TimeKeepsIInv ==
  ASSUME IInv, NEW r \in Requests, Age(r) \/ PassReapDeadline(r)
  PROVE  IInv'
<1> USE DEF IInv, TypeOK
<1>1. CASE Age(r)
  <2>1. /\ UNCHANGED <<cfgVars, phase, ahead, passed, viewOld, slotTime, leaseVars, sectionVars>>
        /\ old' = old \cup {r}
    BY <1>1 DEF Age
  <2>2. CfgTypeOK' /\ QueueTypeOK' /\ SectionTypeOK'
    BY <2>1 DEF cfgVars, CfgTypeOK, QueueTypeOK, SlotTimes, sectionVars, SectionTypeOK
  <2>3. LeaseOwned'
    BY <2>1, OwnersUnchanged DEF sectionVars
  <2> QED
    BY <2>1, <2>2, <2>3, LeasesUnchanged
<1>2. CASE PassReapDeadline(r)
  <2>1. /\ UNCHANGED <<cfgVars, queueVars, inflight, slotVars, preempting, cause, sectionVars>>
        /\ late' = late \cup {r} /\ r \in inflight
    BY <1>2 DEF PassReapDeadline
  <2>2. CfgTypeOK' /\ QueueTypeOK' /\ SectionTypeOK'
    BY <2>1 DEF cfgVars, CfgTypeOK, queueVars, QueueTypeOK, SlotTimes, sectionVars, SectionTypeOK
  <2>3. LeaseTypeOK' /\ Accounting' /\ CancelCauses'
    BY <2>1 DEF slotVars, LeaseTypeOK, Accounting, CancelCauses
  <2>4. LeaseOwned'
    BY <2>1 DEF slotVars, queueVars, sectionVars, LeaseOwned
  <2> QED
    BY <2>2, <2>3, <2>4
<1> QED
  BY <1>1, <1>2

(* Every step keeps the inductive invariant. *)
THEOREM NextIInv == IInv /\ [Next]_vars => IInv'
<1> SUFFICES ASSUME IInv, [Next]_vars PROVE IInv'
  OBVIOUS
<1>1. CASE Section
  <2>1. reaping \subseteq Requests
    BY DEF IInv, TypeOK, SectionTypeOK
  <2> QED
    BY <1>1, <2>1, WakeKeepsIInv, ReaperKeepsIInv DEF Section, In
<1>2. CASE ReapNow
  BY <1>2, ReaperKeepsIInv
<1>3. CASE Swap
  BY <1>3, SwapKeepsIInv
<1>4. CASE Caller
  BY <1>4, DoorKeepsIInv, CallerKeepsIInv DEF Caller, Waiter, In
<1>5. CASE Timer
  <2>1. inflight \subseteq Requests /\ preempting \subseteq Requests
    BY DEF IInv, TypeOK, LeaseTypeOK
  <2> QED
    BY <1>5, <2>1, TimeKeepsIInv, ReaperKeepsIInv DEF Timer, In
<1>6. CASE UNCHANGED vars
  <2>1. UNCHANGED <<cfgVars, queueVars, leaseVars, sectionVars>>
    BY <1>6 DEF vars
  <2>2. CfgTypeOK' /\ QueueTypeOK' /\ SectionTypeOK'
    BY <2>1 DEF IInv, TypeOK, cfgVars, CfgTypeOK, queueVars, QueueTypeOK, SlotTimes,
                sectionVars, SectionTypeOK
  <2>3. LeaseOwned'
    BY <2>1, OwnersUnchanged DEF queueVars, sectionVars
  <2> QED
    BY <2>1, <2>2, <2>3, LeasesUnchanged DEF IInv, TypeOK
<1> QED
  BY <1>1, <1>2, <1>3, <1>4, <1>5, <1>6 DEF Next

-----------------------------------------------------------------------------
(* The results. *)

(* Every state of the dispatcher satisfies the inductive invariant. *)
THEOREM Invariance == Spec => []IInv
<1>1. Init => IInv
  BY InitIInv
<1>2. IInv /\ [Next]_vars => IInv'
  BY NextIInv
<1> QED
  BY <1>1, <1>2, PTL DEF Spec

(* Type correctness of the dispatcher's state; no unit counter underflows
   whatever release, cancel, reaper and watchdog do (finishLocked). *)
THEOREM TypeCorrect == Spec => []TypeOK
<1>1. IInv => TypeOK
  BY DEF IInv
<1> QED
  BY <1>1, Invariance, PTL

(* held, heldExt and classHeld are the sums of the weights of the leases, and
   the cancel registries hold exactly the leases they should (targetState). *)
THEOREM CountersExact == Spec => []Accounting
<1>1. IInv => Accounting
  BY DEF IInv
<1> QED
  BY <1>1, Invariance, PTL

(* A registered lease has a caller that ends it: a handoff that races a cancel
   leaks no slot, and no lease is settled twice (finishLocked's registry check). *)
THEOREM LeasesOwned == Spec => []LeaseOwned
<1>1. IInv => LeaseOwned
  BY DEF IInv
<1> QED
  BY <1>1, Invariance, PTL

(* I-D1, I-03-3: no interactive run is ever cancelled by the dispatcher and
   external runs only by the reaper. *)
THEOREM CancelsOnlyAllowed == Spec => []CancelCauses
<1>1. IInv => CancelCauses
  BY DEF IInv
<1> QED
  BY <1>1, Invariance, PTL
=============================================================================
