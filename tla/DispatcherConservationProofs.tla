-------------------- MODULE DispatcherConservationProofs --------------------
(***************************************************************************)
(* Proofs that the dispatcher leaves no unit idle and inverts no priority: *)
(* once a section is over no waiter is left that the rank scan would       *)
(* admit, for every set of requests, policies and settings, for every      *)
(* valid rank order, every fairness order and through every hot swap.      *)
(***************************************************************************)
EXTENDS DispatcherAdmissionProofs

(* Nobody waits whom the scan would admit, or who can never be. *)
NobodyLeft ==
    /\ \A c \in {"I", "XU", "XB"} : ~headAdmissibleLocked(c, slotsLocked)
    /\ Queued("B") # {} /\ demand = 0 => ~backgroundFits(1, slotsLocked)
    /\ slotsLocked <= 0 => Queued("I") \cup Queued("B") = {}
    /\ \A r \in Queued("XU") \cup Queued("XB") : Offered(r)

(* It holds whenever no wake loop is running, between the leases of a reaper
   pass too, unless a swap waits for its wakeAll. *)
Conserved == wake = "no" /\ ~swapped => NobodyLeft

(* What the wake loop relies on: the first half has ended the waiters that
   cannot be served; without slots, the external classes the scan has gone
   past are empty. *)
ScanRest ==
    wake = "scan" /\ ~swapped =>
      /\ \A r \in Queued("XU") \cup Queued("XB") : Offered(r)
      /\ scan.slots <= 0 =>
            \A c \in Classes : External(c) /\ Rank(scan.order, c) < scan.from => Queued(c) = {}

CInv == AInv /\ Conserved /\ ScanRest

-----------------------------------------------------------------------------
(* The fairness order has a first head. *)

(* The values of f on a set of requests that is not empty have a least one. *)
LEMMA LeastValue ==
  ASSUME NEW S, S # {}, NEW f, \A h \in S : f[h] \in Nat
  PROVE  \E h \in S : \A g \in S : f[h] <= f[g]
<1> DEFINE T == {f[h] : h \in S}
<1>1. T \in SUBSET Nat /\ T # {}
  OBVIOUS
<1> HIDE DEF T
<1>2. PICK x \in T : \A y \in T : x <= y
  BY <1>1, NatMin
<1> QED
  BY <1>2 DEF T

(* A key of the fairness order is four numbers. *)
LEMMA KeyType ==
  ASSUME QueueTypeOK, NEW r \in Requests, External(class(r)), NEW isAged, NEW capacity
  PROVE  \A i \in 1..4 : key(r, isAged, capacity)[i] \in Nat
<1>1. r \in {q \in Requests : External(Asked[q])}
  BY DEF class, External
<1>2. Principal[r].tenant \in Tenants /\ Principal[r].consumer \in Consumers
  BY <1>1 DEF Tenants, Consumers
<1>3. /\ slotTime.tenant[Principal[r].tenant] \in Nat
      /\ slotTime.consumer[Principal[r].consumer] \in Nat
  BY <1>2, BoundsAssumption DEF QueueTypeOK, SlotTimes
<1> QED
  BY <1>3 DEF key

(* Numbers in four places are ordered lexicographically, arrival decides the
   rest. *)
LEMMA LexFirst ==
  ASSUME QueueOrder, NEW c, NEW S \in SUBSET Queued(c), S # {}, NEW hk,
         \A h \in S : \A i \in 1..4 : hk[h][i] \in Nat,
         \A h \in S : hk[h] = <<hk[h][1], hk[h][2], hk[h][3], hk[h][4]>>
  PROVE  \E h \in S : \A g \in S \ {h} :
            less(hk[h], hk[g]) \/ (hk[h] = hk[g] /\ h \in ahead[g])
<1> DEFINE f(i) == [h \in S |-> hk[h][i]]
<1>1. PICK h1 \in S : \A g \in S : hk[h1][1] <= hk[g][1]
  <2>1. \A h \in S : f(1)[h] \in Nat
    OBVIOUS
  <2>2. \E h \in S : \A g \in S : f(1)[h] <= f(1)[g]
    BY <2>1, LeastValue
  <2> QED
    BY <2>2
<1> DEFINE S1 == {h \in S : hk[h][1] = hk[h1][1]}
<1>2. PICK h2 \in S1 : \A g \in S1 : hk[h2][2] <= hk[g][2]
  <2>1. S1 # {} /\ \A h \in S1 : f(2)[h] \in Nat
    OBVIOUS
  <2>2. \E h \in S1 : \A g \in S1 : f(2)[h] <= f(2)[g]
    BY <2>1, LeastValue
  <2> QED
    BY <2>2
<1> DEFINE S2 == {h \in S1 : hk[h][2] = hk[h2][2]}
<1>3. PICK h3 \in S2 : \A g \in S2 : hk[h3][3] <= hk[g][3]
  <2>1. S2 # {} /\ \A h \in S2 : f(3)[h] \in Nat
    OBVIOUS
  <2>2. \E h \in S2 : \A g \in S2 : f(3)[h] <= f(3)[g]
    BY <2>1, LeastValue
  <2> QED
    BY <2>2
<1> DEFINE S3 == {h \in S2 : hk[h][3] = hk[h3][3]}
<1>4. PICK h4 \in S3 : \A g \in S3 : hk[h4][4] <= hk[g][4]
  <2>1. S3 # {} /\ \A h \in S3 : f(4)[h] \in Nat
    OBVIOUS
  <2>2. \E h \in S3 : \A g \in S3 : f(4)[h] <= f(4)[g]
    BY <2>1, LeastValue
  <2> QED
    BY <2>2
<1> DEFINE S4 == {h \in S3 : hk[h][4] = hk[h4][4]}
<1>5. S4 \in SUBSET Queued(c) /\ S4 # {}
  OBVIOUS
<1>6. PICK h \in FirstArrived(S4) : TRUE
  <2> HIDE DEF S4
  <2> QED
    BY <1>5, FirstExists
<1>7. h \in S4 /\ ahead[h] \cap S4 = {}
  BY <1>6 DEF FirstArrived
<1>8. ASSUME NEW g \in S \ {h}
      PROVE  less(hk[h], hk[g]) \/ (hk[h] = hk[g] /\ h \in ahead[g])
  <2>0. /\ hk[h][1] = hk[h1][1] /\ hk[h][2] = hk[h2][2] /\ hk[h][3] = hk[h3][3]
        /\ hk[h][4] = hk[h4][4]
    BY <1>7
  <2>n. \A i \in 1..4 : hk[h][i] \in Nat /\ hk[g][i] \in Nat
    BY <1>7
  <2>1. CASE g \notin S1
    <3>1. hk[h][1] < hk[g][1]
      BY <1>1, <2>0, <2>n, <2>1
    <3> QED
      BY <3>1 DEF less
  <2>2. CASE g \in S1 /\ g \notin S2
    <3>1. hk[h][1] = hk[g][1] /\ hk[h][2] < hk[g][2]
      BY <1>2, <2>0, <2>n, <2>2
    <3> QED
      BY <3>1 DEF less
  <2>3. CASE g \in S2 /\ g \notin S3
    <3>1. hk[h][1] = hk[g][1] /\ hk[h][2] = hk[g][2] /\ hk[h][3] < hk[g][3]
      BY <1>3, <2>0, <2>n, <2>3
    <3> QED
      BY <3>1 DEF less
  <2>4. CASE g \in S3 /\ g \notin S4
    <3>1. /\ hk[h][1] = hk[g][1] /\ hk[h][2] = hk[g][2] /\ hk[h][3] = hk[g][3]
          /\ hk[h][4] < hk[g][4]
      BY <1>4, <2>0, <2>n, <2>4
    <3>2. \A j \in 1..(4 - 1) : hk[h][j] = hk[g][j]
      BY <3>1
    <3> QED
      BY <3>1, <3>2 DEF less
  <2>5. CASE g \in S4
    <3>1. hk[h] = hk[g]
      BY <1>7, <2>0, <2>5
    <3>2. h \in ahead[g]
      BY <1>5, <1>7, <2>5 DEF QueueOrder, Queued
    <3> QED
      BY <3>1, <3>2
  <2> QED
    BY <2>1, <2>2, <2>3, <2>4, <2>5
<1> QED
  BY <1>7, <1>8

(* Among the heads of an external class one is first. *)
LEMMA FairnessExists ==
  ASSUME AInv, NEW c, External(c), NEW S \in SUBSET Queued(c), S # {}, NEW capacity
  PROVE  FairnessFirst(S, capacity) # {}
<1>1. QueueOrder /\ QueueTypeOK
  BY DEF AInv, IInv, TypeOK
<1> DEFINE hk == [h \in S |-> key(h, aged(h, capacity), capacity)]
<1>2. \A h \in S : h \in Requests /\ External(class(h))
  BY DEF Queued
<1>3. \A h \in S : \A i \in 1..4 : hk[h][i] \in Nat
  BY <1>1, <1>2, KeyType
<1>4. \A h \in S : hk[h] = <<hk[h][1], hk[h][2], hk[h][3], hk[h][4]>>
  BY DEF key
<1> HIDE DEF hk
<1>5. PICK h \in S : \A g \in S \ {h} :
            less(hk[h], hk[g]) \/ (hk[h] = hk[g] /\ h \in ahead[g])
  BY <1>1, <1>3, <1>4, LexFirst
<1>6. h \in FairnessFirst(S, capacity)
  BY <1>5 DEF FairnessFirst, hk
<1> QED
  BY <1>6

(* The sum of the fair weights is a matter of who is active. *)
LEMMA SumFrame ==
  ASSUME activeConsumers' = activeConsumers, NEW t
  PROVE  sumFW(t)' = sumFW(t)
BY DEF sumFW

-----------------------------------------------------------------------------
(* What the picks of the external classes depend on. *)

(* A step that leaves the external waiters and leases, their fairness view
   and the configuration alone. *)
ExternalStill ==
    /\ \A x \in Requests : External(class(x)) =>
          /\ phase'[x] = "queued" <=> phase[x] = "queued"
          /\ ahead'[x] = ahead[x] /\ passed'[x] = passed[x]
          /\ x \in viewOld' <=> x \in viewOld
          /\ x \in slotHeld' <=> x \in slotHeld
    /\ UNCHANGED <<slotTime, settings, policy>>

(* Such a step leaves the external queues as they are. *)
LEMMA QueueFrame ==
  ASSUME ExternalStill, NEW c, External(c)
  PROVE  /\ Queued(c)' = Queued(c) /\ Conts(c)' = Conts(c) /\ Heads(c)' = Heads(c)
         /\ headMinWeight(c)' = headMinWeight(c)
<1>1. Queued(c)' = Queued(c)
  BY DEF ExternalStill, Queued
<1>2. Conts(c)' = Conts(c)
  BY <1>1 DEF Conts
<1>3. \A k : Bucket(c, k)' = Bucket(c, k)
  BY <1>1, <1>2 DEF Bucket
<1>4. \A x \in Queued(c) : ahead'[x] = ahead[x]
  BY DEF ExternalStill, Queued
<1>5. Heads(c)' = Heads(c)
  BY <1>1, <1>2, <1>3, <1>4 DEF Heads
<1>6. FirstArrived(Conts(c))' = FirstArrived(Conts(c))
  BY <1>2, <1>4 DEF FirstArrived, Conts
<1> QED
  BY <1>1, <1>2, <1>5, <1>6 DEF headMinWeight

(* And the keys of the external waiters. *)
LEMMA KeyFrame ==
  ASSUME IInv, IInv', ExternalStill, NEW r \in Requests, External(class(r)), NEW capacity
  PROVE  key(r, aged(r, capacity), capacity)' = key(r, aged(r, capacity), capacity)
<1>0. slotHeld \subseteq Requests /\ slotHeld' \subseteq Requests
  BY DEF IInv, TypeOK, LeaseTypeOK
<1>1. \A k : heldBy(k)' = heldBy(k)
  <2> TAKE k
  <2>1. {x \in slotHeld : External(class(x)) /\ Principal[x].consumer = k}'
          = {x \in slotHeld : External(class(x)) /\ Principal[x].consumer = k}
    BY <1>0 DEF ExternalStill
  <2> QED
    BY <2>1 DEF heldBy, Units
<1>2. \A t : tenantHeld(t)' = tenantHeld(t)
  <2> TAKE t
  <2>1. {x \in slotHeld : External(class(x)) /\ Principal[x].tenant = t}'
          = {x \in slotHeld : External(class(x)) /\ Principal[x].tenant = t}
    BY <1>0 DEF ExternalStill
  <2> QED
    BY <2>1 DEF tenantHeld, Units
<1>3. activeConsumers' = activeConsumers
  <2>1. {x \in Requests : External(class(x)) /\ (phase[x] = "queued" \/ x \in slotHeld)}'
          = {x \in Requests : External(class(x)) /\ (phase[x] = "queued" \/ x \in slotHeld)}
    BY DEF ExternalStill
  <2> QED
    BY <2>1 DEF activeConsumers
<1>4. activeTenants' = activeTenants /\ \A t : sumFW(t)' = sumFW(t)
  BY <1>3, SumFrame DEF activeTenants
<1>5. tenantShare(capacity)' = tenantShare(capacity)
  BY <1>4 DEF tenantShare
<1>6. aged(r, capacity)' = aged(r, capacity)
  BY <1>1 DEF aged, ExternalStill
<1>7. slotTime' = slotTime
  BY DEF ExternalStill
<1> QED
  BY <1>1, <1>2, <1>4, <1>5, <1>6, <1>7 DEF key

(* So the fairness order is the same before and after. *)
LEMMA FairFrame ==
  ASSUME IInv, IInv', ExternalStill, NEW c, External(c), NEW S, S \subseteq Queued(c),
         NEW capacity
  PROVE  FairnessFirst(S, capacity)' = FairnessFirst(S, capacity)
<1>1. \A h \in S : h \in Requests /\ External(class(h)) /\ ahead'[h] = ahead[h]
  BY DEF Queued, ExternalStill
<1>2. \A h \in S : key(h, aged(h, capacity), capacity)' = key(h, aged(h, capacity), capacity)
  BY <1>1, KeyFrame
<1>3. [h \in S |-> key(h, aged(h, capacity), capacity)]'
        = [h \in S |-> key(h, aged(h, capacity), capacity)]
  BY <1>2
<1> QED
  BY <1>1, <1>3 DEF FairnessFirst

(* The fairness-first head of a class. *)
LEMMA FirstFrame ==
  ASSUME IInv, IInv', ExternalStill, NEW c, External(c), NEW slots, NEW capacity
  PROVE  externalFirst(c, slots, capacity)' = externalFirst(c, slots, capacity)
<1> DEFINE within(h) == /\ slots > 0 => requestWeight(h) <= slots
                        /\ capacity > 0 => requestWeight(h) <= capacity
<1>1. PICK S : S = {h \in Heads(c) : within(h)}
  OBVIOUS
<1>2. S \subseteq Queued(c)
  BY <1>1 DEF Heads
<1>3. Heads(c)' = Heads(c)
  BY QueueFrame
<1>4. {h \in Heads(c) : within(h)}' = S
  BY <1>1, <1>3
<1>5. FairnessFirst(S, capacity)' = FairnessFirst(S, capacity)
  BY <1>2, FairFrame
<1> QED
  BY <1>1, <1>4, <1>5 DEF externalFirst

-----------------------------------------------------------------------------
(* The counters of the classes add up. *)

(* Disjoint sets of leases. *)
LEMMA UnitsUnion ==
  ASSUME NEW A \in SUBSET Requests, NEW B \in SUBSET Requests, A \cap B = {}
  PROVE  Units(A \cup B) = Units(A) + Units(B)
<1>1. UnitsOf(A \cup B) = UnitsOf(A) \cup UnitsOf(B)
  BY DEF UnitsOf
<1>2. UnitsOf(A) \cap UnitsOf(B) = {}
  BY DEF UnitsOf
<1>3. IsFiniteSet(UnitsOf(A)) /\ IsFiniteSet(UnitsOf(B))
  BY UnitsFinite
<1>4. Cardinality(UnitsOf(A) \cup UnitsOf(B))
        = Cardinality(UnitsOf(A)) + Cardinality(UnitsOf(B))
          - Cardinality(UnitsOf(A) \cap UnitsOf(B))
  BY <1>3, FS_Union
<1>5. Cardinality(UnitsOf(A) \cap UnitsOf(B)) = 0
  BY <1>2, FS_EmptySet
<1>6. Cardinality(UnitsOf(A)) \in Nat /\ Cardinality(UnitsOf(B)) \in Nat
  BY <1>3, FS_CardinalityType
<1>7. Cardinality(UnitsOf(A \cup B)) = Cardinality(UnitsOf(A)) + Cardinality(UnitsOf(B))
  <2>1. Cardinality(UnitsOf(A \cup B))
          = Cardinality(UnitsOf(A)) + Cardinality(UnitsOf(B)) - 0
    BY <1>1, <1>4, <1>5, Zenon
  <2> QED
    BY <1>6, <2>1
<1> QED
  BY <1>7 DEF Units, UnitsOf

(* classHeld sums up to held and, over the external classes, to heldExt. *)
LEMMA CountersAddUp ==
  ASSUME IInv
  PROVE  /\ held = classHeld["I"] + classHeld["B"] + classHeld["XU"] + classHeld["XB"]
         /\ heldExt = classHeld["XU"] + classHeld["XB"]
<1> DEFINE P(c) == {r \in slotHeld : class(r) = c}
<1>0. slotHeld \subseteq Requests /\ \A r \in slotHeld : class(r) \in {"I", "B", "XU", "XB"}
  BY ClassType DEF IInv, TypeOK, LeaseTypeOK, Classes
<1>1. /\ \A c : P(c) \in SUBSET Requests
      /\ slotHeld = (P("I") \cup P("B")) \cup (P("XU") \cup P("XB"))
      /\ P("I") \cap P("B") = {} /\ P("XU") \cap P("XB") = {}
      /\ (P("I") \cup P("B")) \cap (P("XU") \cup P("XB")) = {}
  BY <1>0
<1>2. extCancel = P("XU") \cup P("XB")
  BY <1>0 DEF IInv, Accounting, External
<1>3. \A c \in {"I", "B", "XU", "XB"} : classHeld[c] = Units(P(c)) /\ classHeld[c] \in Nat
  BY DEF IInv, TypeOK, LeaseTypeOK, Accounting, Classes
<1> HIDE DEF P
<1>4. /\ Units(P("I") \cup P("B")) = Units(P("I")) + Units(P("B"))
      /\ Units(P("XU") \cup P("XB")) = Units(P("XU")) + Units(P("XB"))
  BY <1>1, UnitsUnion
<1>5. Units(slotHeld) = Units(P("I") \cup P("B")) + Units(P("XU") \cup P("XB"))
  BY <1>1, UnitsUnion
<1>6. held = Units(slotHeld) /\ heldExt = Units(extCancel)
  BY DEF IInv, Accounting
<1> QED
  BY <1>2, <1>3, <1>4, <1>5, <1>6

(* Some classes hold no more than all. *)
LEMMA SumBounded ==
  ASSUME IInv, NEW S
  PROVE  /\ ClassSum(S, classHeld) \in Nat /\ ClassSum(S, classHeld) <= held
         /\ (S \cap Classes \subseteq {"XU", "XB"}) => ClassSum(S, classHeld) <= heldExt
<1>1. /\ classHeld["I"] \in Nat /\ classHeld["B"] \in Nat
      /\ classHeld["XU"] \in Nat /\ classHeld["XB"] \in Nat
  BY DEF IInv, TypeOK, LeaseTypeOK, Classes
<1>2. ClassSum(S, classHeld) \in Nat /\ ClassSum(S, classHeld) <= held
  BY <1>1, CountersAddUp DEF ClassSum
<1>3. ASSUME S \cap Classes \subseteq {"XU", "XB"} PROVE ClassSum(S, classHeld) <= heldExt
  <2>1. "I" \notin S /\ "B" \notin S
    BY <1>3 DEF Classes
  <2> QED
    BY <1>1, <2>1, CountersAddUp DEF ClassSum
<1> QED
  BY <1>2, <1>3

(* What fits is not kept out by the classes above. *)
LEMMA FitsNotKeptOut ==
  ASSUME IInv, NEW c, NEW w \in Nat, NEW slots \in Nat, NEW capacity \in Nat,
         externalFits(w, slots, capacity)
  PROVE  ~keptOutLocked(c, w, slots, capacity)
<1> DEFINE ext == {h \in AboveNow(c) : External(h)}
<1>1. ext \cap Classes \subseteq {"XU", "XB"}
  BY DEF External
<1> HIDE DEF ext
<1>2. /\ ClassSum(AboveNow(c), classHeld) \in Nat /\ ClassSum(AboveNow(c), classHeld) <= held
      /\ ClassSum(ext, classHeld) \in Nat /\ ClassSum(ext, classHeld) <= heldExt
  BY <1>1, SumBounded
<1>3. held \in Nat /\ heldExt \in Nat
  BY DEF IInv, TypeOK, LeaseTypeOK
<1> QED
  BY <1>2, <1>3 DEF keptOutLocked, externalFits, ext

(* The need of a class does not depend on what is free: its first head counts
   unless the classes above keep it out. *)
headUnits(h, slots, capacity) ==
    {IF ~keptOutLocked(h, requestWeight(f), slots, capacity)
     THEN requestWeight(f) ELSE headMinWeight(h) : f \in externalFirst(h, slots, capacity)}
NeedByRank(h, slots, capacity) ==
    externalNeedLocked(h, slots, capacity) =
      IF Conts(h) # {} THEN headMinWeight(h) ELSE Max({0} \cup headUnits(h, slots, capacity))

(* externalNeedLocked asks whether the head fits or holds; that comes down to
   whether it is kept out. *)
LEMMA NeedIs ==
  ASSUME IInv, NEW h, NEW slots \in Nat, NEW capacity \in Nat
  PROVE  NeedByRank(h, slots, capacity)
<1>1. \A f \in externalFirst(h, slots, capacity) : requestWeight(f) \in Nat
  BY WeightType, BoundsAssumption DEF externalFirst, FairnessFirst, Heads, Queued
<1>2. held \in Nat /\ heldExt \in Nat
  BY DEF IInv, TypeOK, LeaseTypeOK
<1>3. ASSUME NEW f \in externalFirst(h, slots, capacity)
      PROVE  (\/ externalFits(requestWeight(f), slots, capacity)
              \/ externalHeadHoldsLocked(h, f, slots, capacity, 0))
             <=> ~keptOutLocked(h, requestWeight(f), slots, capacity)
  <2>1. requestWeight(f) + 0 = requestWeight(f)
    BY <1>1
  <2>2. externalHeadHoldsLocked(h, f, slots, capacity, 0) <=>
          /\ ~externalFits(requestWeight(f), slots, capacity)
          /\ ~keptOutLocked(h, requestWeight(f), slots, capacity)
    BY <2>1 DEF externalHeadHoldsLocked
  <2>3. externalFits(requestWeight(f), slots, capacity) =>
          ~keptOutLocked(h, requestWeight(f), slots, capacity)
    BY <1>1, FitsNotKeptOut
  <2> QED
    BY <2>2, <2>3
<1>4. {IF \/ externalFits(requestWeight(f), slots, capacity)
          \/ externalHeadHoldsLocked(h, f, slots, capacity, 0)
       THEN requestWeight(f) ELSE headMinWeight(h) : f \in externalFirst(h, slots, capacity)}
      = {IF ~keptOutLocked(h, requestWeight(f), slots, capacity)
         THEN requestWeight(f) ELSE headMinWeight(h) : f \in externalFirst(h, slots, capacity)}
  BY <1>3
<1> QED
  BY <1>4 DEF externalNeedLocked, NeedByRank, headUnits

(* The same of the next state. *)
LEMMA NeedIsNext ==
  ASSUME NEW h, NEW slots \in Nat, NEW capacity \in Nat
  PROVE  IInv' => NeedByRank(h, slots, capacity)'
<1>1. IInv => NeedByRank(h, slots, capacity)
  BY NeedIs
<1> QED
  BY <1>1, PTL

-----------------------------------------------------------------------------
(* The pick of an external class. *)

(* The classes above c hold what they held. *)
AboveStill(c) == \A h \in AboveNow(c) : classHeld'[h] = classHeld[h]

(* Then they keep out what they kept out. *)
LEMMA KeptFrame ==
  ASSUME ExternalStill, NEW c, AboveStill(c), NEW w, NEW slots, NEW capacity
  PROVE  keptOutLocked(c, w, slots, capacity)' <=> keptOutLocked(c, w, slots, capacity)
<1>1. AboveNow(c)' = AboveNow(c)
  BY DEF AboveNow, ExternalStill
<1>2. ClassSum(AboveNow(c), classHeld)' = ClassSum(AboveNow(c), classHeld)
  BY <1>1 DEF ClassSum, AboveStill
<1>3. ClassSum({h \in AboveNow(c) : External(h)}, classHeld)'
        = ClassSum({h \in AboveNow(c) : External(h)}, classHeld)
  BY <1>1 DEF ClassSum, AboveStill
<1> QED
  BY <1>2, <1>3 DEF keptOutLocked

(* And the class needs what it needed. *)
LEMMA NeedFrame ==
  ASSUME IInv, IInv', ExternalStill, NEW h, External(h), AboveStill(h),
         NEW slots \in Nat, NEW capacity \in Nat
  PROVE  externalNeedLocked(h, slots, capacity)' = externalNeedLocked(h, slots, capacity)
<1>1. Conts(h)' = Conts(h) /\ headMinWeight(h)' = headMinWeight(h)
  BY QueueFrame
<1>2. externalFirst(h, slots, capacity)' = externalFirst(h, slots, capacity)
  BY FirstFrame
<1>3. \A w : keptOutLocked(h, w, slots, capacity)' <=> keptOutLocked(h, w, slots, capacity)
  BY KeptFrame
<1>4. headUnits(h, slots, capacity)' = headUnits(h, slots, capacity)
  BY <1>1, <1>2, <1>3 DEF headUnits
<1>5. NeedByRank(h, slots, capacity) /\ NeedByRank(h, slots, capacity)'
  BY NeedIs, NeedIsNext
<1> QED
  BY <1>1, <1>4, <1>5 DEF NeedByRank

(* What the heads of the higher external classes claim stays the same. *)
LEMMA ClaimFrame ==
  ASSUME IInv, IInv', ExternalStill, NEW c, NEW slots \in Nat, NEW capacity \in Nat,
         \A h \in AboveNow(c) : External(h) /\ Queued(h) # {} => AboveStill(h)
  PROVE  externalClaimLocked(c, slots, capacity)' = externalClaimLocked(c, slots, capacity)
<1> DEFINE W == {x \in AboveNow(c) : External(x) /\ Queued(x) # {}}
           need == [h \in W |-> externalNeedLocked(h, slots, capacity)]
           S == {h \in DOMAIN need : ~keptOutLocked(h, need[h], slots, capacity)}
<1>1. AboveNow(c)' = AboveNow(c)
  BY DEF AboveNow, ExternalStill
<1>2. W' = W
  BY <1>1, QueueFrame
<1>3. \A h \in W : /\ externalNeedLocked(h, slots, capacity)' = externalNeedLocked(h, slots, capacity)
                   /\ \A w : keptOutLocked(h, w, slots, capacity)' <=>
                               keptOutLocked(h, w, slots, capacity)
  BY NeedFrame, KeptFrame
<1>4. need' = need
  BY <1>2, <1>3
<1>5. S' = S
  <2>1. DOMAIN need = W /\ DOMAIN need' = W
    BY <1>2
  <2> HIDE DEF need
  <2> QED
    BY <1>3, <1>4, <2>1
<1>6. externalClaimLocked(c, slots, capacity) = ClassSum(S, need)
  BY DEF externalClaimLocked
<1>7. externalClaimLocked(c, slots, capacity)' = ClassSum(S', need')
  BY DEF externalClaimLocked
<1> HIDE DEF need, S
<1> QED
  BY <1>4, <1>5, <1>6, <1>7

(* A waiting class without continuations has bucket heads, and the lightest head
   is one of them. *)
LEMMA LightestHead ==
  ASSUME AInv, NEW c, Queued(c) # {}
  PROVE  /\ headMinWeight(c) \in 1..MaxWeight
         /\ Conts(c) = {} => \E h \in Heads(c) : requestWeight(h) = headMinWeight(c)
         /\ Conts(c) = {} => \A h \in Heads(c) : headMinWeight(c) <= requestWeight(h)
<1>0. QueueOrder
  BY DEF AInv
<1>1. CASE Conts(c) # {}
  BY <1>0, <1>1, HeadMinType
<1>2. CASE Conts(c) = {}
  <2>1. PICK r : r \in FirstArrived(Queued(c))
    BY <1>0, FirstExists
  <2>2. r \in Heads(c)
    BY <1>2, <2>1 DEF FirstArrived, Heads, Bucket
  <2>3. Heads(c) \in SUBSET Requests
    BY DEF Heads, Queued
  <2>4. headMinWeight(c) = Min({requestWeight(q) : q \in Heads(c)})
    BY <1>2 DEF headMinWeight
  <2>5. PICK H : H = Heads(c)
    OBVIOUS
  <2>6. /\ Min({requestWeight(q) : q \in H}) \in 1..MaxWeight
        /\ \A q \in H : Min({requestWeight(x) : x \in H}) <= requestWeight(q)
        /\ \E q \in H : Min({requestWeight(x) : x \in H}) = requestWeight(q)
    BY <2>2, <2>3, <2>5, MinWeight
  <2> QED
    BY <2>4, <2>5, <2>6
<1> QED
  BY <1>1, <1>2

(* An external class has no pick exactly if its lightest head does not fit beside
   the claim, or if its first head does not fit and holds the class. *)
NoPick(c, slots, cap, claim) ==
    \/ ~externalFits(headMinWeight(c) + claim, slots, cap)
    \/ /\ Conts(c) = {}
       /\ \E f \in externalFirst(c, slots, cap) :
             externalHeadHoldsLocked(c, f, slots, cap, claim)

(* externalPickLocked finds a head whenever there is one to find. *)
LEMMA PickEmpty ==
  ASSUME AInv, NEW c, External(c), NEW slots \in Nat, externalOffer.offered, Queued(c) # {},
         NEW cap, cap = externalOffer.capacity,
         NEW claim, claim = externalClaimLocked(c, slots, cap)
  PROVE  externalPickLocked(c, slots) = {} <=> NoPick(c, slots, cap, claim)
<1> DEFINE fits(r) == externalFits(requestWeight(r) + claim, slots, cap)
           first == externalFirst(c, slots, cap)
           hold == \E f \in first : externalHeadHoldsLocked(c, f, slots, cap, claim)
<1>0. QueueOrder /\ held \in Nat /\ heldExt \in Nat /\ cap \in Nat /\ claim \in Nat
  BY OfferType, ClaimType DEF AInv, IInv, TypeOK, LeaseTypeOK
<1>1. externalPickLocked(c, slots) =
        IF ~externalFits(headMinWeight(c) + claim, slots, cap) THEN {}
        ELSE IF Conts(c) # {} THEN FirstArrived(Conts(c))
        ELSE IF \A f \in first : fits(f) THEN first
        ELSE IF hold THEN {}
        ELSE FairnessFirst({h \in Heads(c) : fits(h)}, cap)
  BY DEF externalPickLocked
<1>2. CASE ~externalFits(headMinWeight(c) + claim, slots, cap)
  BY <1>1, <1>2 DEF NoPick
<1>3. CASE externalFits(headMinWeight(c) + claim, slots, cap) /\ Conts(c) # {}
  <2>1. Conts(c) \in SUBSET Queued(c)
    BY DEF Conts
  <2>2. FirstArrived(Conts(c)) # {}
    BY <1>0, <1>3, <2>1, FirstExists
  <2> QED
    BY <1>1, <1>3, <2>2 DEF NoPick
<1>4. CASE externalFits(headMinWeight(c) + claim, slots, cap) /\ Conts(c) = {}
  <2>1. PICK m \in Heads(c) : requestWeight(m) = headMinWeight(c)
    BY <1>4, LightestHead
  <2>2. headMinWeight(c) \in Nat
    BY LightestHead, BoundsAssumption
  <2>3. fits(m) /\ externalFits(requestWeight(m), slots, cap)
    BY <1>0, <1>4, <2>1, <2>2, FitsWithClaim
  <2>4. first # {}
    <3>1. PICK S : S = {h \in Heads(c) : /\ slots > 0 => requestWeight(h) <= slots
                                         /\ cap > 0 => requestWeight(h) <= cap}
      OBVIOUS
    <3>2. m \in S
      BY <1>0, <2>1, <2>2, <2>3, <3>1 DEF externalFits
    <3>3. S \in SUBSET Queued(c)
      BY <3>1 DEF Heads
    <3>4. FairnessFirst(S, cap) # {}
      BY <3>2, <3>3, FairnessExists
    <3> QED
      BY <3>1, <3>4 DEF externalFirst
  <2>5. FairnessFirst({h \in Heads(c) : fits(h)}, cap) # {}
    <3>1. PICK S : S = {h \in Heads(c) : fits(h)}
      OBVIOUS
    <3>2. m \in S
      BY <2>3, <3>1
    <3>3. S \in SUBSET Queued(c)
      BY <3>1 DEF Heads
    <3>4. FairnessFirst(S, cap) # {}
      BY <3>2, <3>3, FairnessExists
    <3> QED
      BY <3>1, <3>4
  <2>6. hold => ~(\A f \in first : fits(f))
    BY DEF externalHeadHoldsLocked
  <2> HIDE DEF first, hold, fits
  <2>7. externalPickLocked(c, slots) = {} <=> hold
    <3>1. CASE \A f \in first : fits(f)
      BY <1>1, <1>4, <2>4, <2>6, <3>1
    <3>2. CASE ~(\A f \in first : fits(f)) /\ hold
      BY <1>1, <1>4, <3>2
    <3>3. CASE ~(\A f \in first : fits(f)) /\ ~hold
      BY <1>1, <1>4, <2>5, <3>3
    <3> QED
      BY <3>1, <3>2, <3>3
  <2> QED
    BY <1>4, <2>7 DEF hold, first, NoPick
<1> QED
  BY <1>2, <1>3, <1>4

(* The same of the next state. *)
PickByFit(c, slots, cap, claim) ==
    /\ AInv /\ External(c) /\ externalOffer.offered /\ Queued(c) # {}
    /\ cap = externalOffer.capacity /\ claim = externalClaimLocked(c, slots, cap)
    => (externalPickLocked(c, slots) = {} <=> NoPick(c, slots, cap, claim))

(* Nothing in PickEmpty is about one state only. *)
LEMMA PickEmptyNext ==
  ASSUME NEW c, NEW slots \in Nat, NEW cap, NEW claim
  PROVE  PickByFit(c, slots, cap, claim)'
<1>1. PickByFit(c, slots, cap, claim)
  BY PickEmpty DEF PickByFit
<1> QED
  BY <1>1, PTL

(* Ranks are transitive. *)
LEMMA AboveTransitive ==
  ASSUME CfgTypeOK, NEW c \in Classes, NEW h \in AboveNow(c)
  PROVE  h \in Classes /\ AboveNow(h) \subseteq AboveNow(c)
<1>1. settings.order \in RankOrders
  BY DEF CfgTypeOK, Settings
<1>2. h \in Classes /\ Rank(settings.order, h) < Rank(settings.order, c)
  BY DEF AboveNow, Above
<1>3. \A g \in Classes : Rank(settings.order, g) \in Nat
  BY <1>1, RankType
<1> QED
  BY <1>2, <1>3 DEF AboveNow, Above

(* With more held less is free. *)
LEMMA LessFree ==
  ASSUME NEW a \in Nat, NEW b \in Nat, a <= b, NEW w \in Nat, NEW n \in Nat, b + w <= n
  PROVE  a + w <= n
OBVIOUS

(* A class without a pick gets none from a step that frees nothing and leaves the
   external classes and the ones above it alone. *)
LEMMA PickStays ==
  ASSUME AInv, AInv', ExternalStill, NEW c \in Classes, External(c), AboveStill(c),
         held <= held', heldExt <= heldExt', NEW slots \in Nat,
         externalPickLocked(c, slots) = {}
  PROVE  externalPickLocked(c, slots)' = {}
<1>0. /\ IInv /\ IInv' /\ CfgTypeOK /\ held \in Nat /\ heldExt \in Nat
      /\ held' \in Nat /\ heldExt' \in Nat
  BY DEF AInv, IInv, TypeOK, LeaseTypeOK
<1>1. externalOffer' = externalOffer
  BY DEF externalOffer, ExternalStill
<1>2. Queued(c)' = Queued(c) /\ Conts(c)' = Conts(c) /\ headMinWeight(c)' = headMinWeight(c)
  BY QueueFrame
<1>3. CASE ~externalOffer.offered \/ Queued(c) = {}
  BY <1>1, <1>2, <1>3 DEF externalPickLocked
<1>4. CASE externalOffer.offered /\ Queued(c) # {}
  <2>1. PICK cap : cap = externalOffer.capacity
    OBVIOUS
  <2>2. PICK claim : claim = externalClaimLocked(c, slots, cap)
    OBVIOUS
  <2>3. cap \in Nat /\ claim \in Nat
    BY <1>0, <2>1, <2>2, OfferType, ClaimType DEF AInv
  <2>4. externalClaimLocked(c, slots, cap)' = claim
    <3>1. \A h \in AboveNow(c) : AboveStill(h)
      BY <1>0, AboveTransitive DEF AboveStill
    <3> QED
      BY <1>0, <2>2, <2>3, <3>1, ClaimFrame
  <2>5. NoPick(c, slots, cap, claim)
    BY <1>4, <2>1, <2>2, PickEmpty
  <2>6. headMinWeight(c) \in Nat
    BY <1>4, LightestHead, BoundsAssumption
  <2>7. \A w \in Nat : ~externalFits(w + claim, slots, cap) =>
                         ~externalFits(w + claim, slots, cap)'
    <3> SUFFICES ASSUME NEW w \in Nat, externalFits(w + claim, slots, cap)'
                 PROVE  externalFits(w + claim, slots, cap)
      OBVIOUS
    <3>1. slots <= 0 \/ held' + (w + claim) <= slots
      BY DEF externalFits
    <3>2. cap = 0 \/ heldExt' + (w + claim) <= cap
      BY DEF externalFits
    <3>n. w + claim \in Nat
      BY <2>3
    <3>3. slots <= 0 \/ held + (w + claim) <= slots
      BY <1>0, <3>1, <3>n, LessFree
    <3>4. cap = 0 \/ heldExt + (w + claim) <= cap
      BY <1>0, <2>3, <3>2, <3>n, LessFree
    <3> QED
      BY <3>3, <3>4 DEF externalFits
  <2>8. externalFirst(c, slots, cap)' = externalFirst(c, slots, cap)
    BY <1>0, FirstFrame
  <2>9. ASSUME NEW f \in externalFirst(c, slots, cap),
               externalHeadHoldsLocked(c, f, slots, cap, claim)
        PROVE  externalHeadHoldsLocked(c, f, slots, cap, claim)'
    <3>1. requestWeight(f) \in Nat
      BY WeightType, BoundsAssumption DEF externalFirst, FairnessFirst, Heads, Queued
    <3>2. PICK w : w = requestWeight(f)
      OBVIOUS
    <3>3. keptOutLocked(c, w, slots, cap)' <=> keptOutLocked(c, w, slots, cap)
      BY KeptFrame
    <3> QED
      BY <2>7, <2>9, <3>1, <3>2, <3>3 DEF externalHeadHoldsLocked
  <2>10. NoPick(c, slots, cap, claim)'
    <3>1. CASE ~externalFits(headMinWeight(c) + claim, slots, cap)
      BY <1>2, <2>6, <2>7, <3>1 DEF NoPick
    <3>2. CASE /\ Conts(c) = {}
               /\ \E f \in externalFirst(c, slots, cap) :
                     externalHeadHoldsLocked(c, f, slots, cap, claim)
      BY <1>2, <2>8, <2>9, <3>2 DEF NoPick
    <3> QED
      BY <2>5, <3>1, <3>2 DEF NoPick
  <2> QED
    <3>1. PickByFit(c, slots, cap, claim)'
      BY PickEmptyNext
    <3> QED
      BY <1>1, <1>2, <1>4, <2>1, <2>4, <2>10, <3>1 DEF PickByFit
<1> QED
  BY <1>3, <1>4

-----------------------------------------------------------------------------
(* Steps that wake nobody. *)

(* Where nothing is freed, the reservation against background stays. *)
LEMMA ReservedFrame ==
  ASSUME IInv, IInv', ExternalStill, UNCHANGED <<held, heldExt, classHeld>>, NEW w,
         NEW slots \in Nat
  PROVE  externalReservedLocked(w, slots)' <=> externalReservedLocked(w, slots)
<1>1. externalOffer' = externalOffer /\ AboveNow("B")' = AboveNow("B")
  BY DEF externalOffer, AboveNow, ExternalStill
<1>2. PICK cap : cap = externalOffer.capacity
  OBVIOUS
<1>3. cap \in Nat
  BY <1>2, OfferType DEF IInv, TypeOK
<1>4. \A h : AboveStill(h)
  BY DEF AboveStill
<1>5. \A h : External(h) =>
        /\ Queued(h)' = Queued(h)
        /\ externalNeedLocked(h, slots, cap)' = externalNeedLocked(h, slots, cap)
        /\ \A n : keptOutLocked(h, n, slots, cap)' <=> keptOutLocked(h, n, slots, cap)
  BY <1>3, <1>4, QueueFrame, NeedFrame, KeptFrame
<1> DEFINE reserved(h) == LET need == externalNeedLocked(h, slots, cap)
                          IN  /\ need > 0 /\ held + w + need > slots
                              /\ cap = 0 \/ heldExt + need <= cap
                              /\ ~keptOutLocked(h, need, slots, cap)
<1>6. externalReservedLocked(w, slots) <=>
        /\ slots > 0 /\ externalOffer.offered
        /\ \E h \in AboveNow("B") : External(h) /\ Queued(h) # {} /\ reserved(h)
  BY <1>2 DEF externalReservedLocked
<1>7. externalReservedLocked(w, slots)' <=>
        /\ slots > 0 /\ externalOffer'.offered
        /\ \E h \in AboveNow("B")' : External(h) /\ Queued(h)' # {} /\ reserved(h)'
  BY <1>1, <1>2 DEF externalReservedLocked
<1>8. ASSUME NEW h, External(h) PROVE reserved(h)' <=> reserved(h)
  <2>1. PICK n : n = externalNeedLocked(h, slots, cap)
    OBVIOUS
  <2>2. externalNeedLocked(h, slots, cap)' = n
    BY <1>5, <1>8, <2>1
  <2>3. keptOutLocked(h, n, slots, cap)' <=> keptOutLocked(h, n, slots, cap)
    BY <1>5, <1>8
  <2> QED
    BY <2>1, <2>2, <2>3
<1> HIDE DEF reserved
<1> QED
  BY <1>1, <1>5, <1>6, <1>7, <1>8

(* A step that moves no unit and leaves the external waiters alone keeps the scan
   without a head, if whoever joins in-house could not be admitted. *)
LEMMA QuietKeeps ==
  ASSUME AInv, AInv', NobodyLeft, ExternalStill, UNCHANGED <<held, heldExt, classHeld>>,
         Queued("I")' # {} => slotsLocked > 0 /\ ~(held + 1 <= slotsLocked),
         Queued("B")' # {} => slotsLocked > 0,
         Queued("B")' # {} /\ demand' = 0 => ~backgroundFits(1, slotsLocked)
  PROVE  NobodyLeft'
<1>0. IInv /\ IInv' /\ CfgTypeOK
  BY DEF AInv, IInv, TypeOK
<1>1. PICK slots : slots = slotsLocked
  OBVIOUS
<1>2. slots \in Nat /\ slotsLocked' = slots
  BY <1>0, <1>1, SlotsType DEF slotsLocked, ExternalStill
<1>3. ~headAdmissibleLocked("I", slots)'
  BY <1>1, <1>2 DEF headAdmissibleLocked, External
<1>4. ASSUME NEW c \in {"XU", "XB"} PROVE ~headAdmissibleLocked(c, slots)'
  <2>1. External(c) /\ c \in Classes /\ AboveStill(c)
    BY DEF External, Classes, AboveStill
  <2>2. ~headAdmissibleLocked(c, slots)
    BY <1>1 DEF NobodyLeft
  <2>3. externalPickLocked(c, slots) = {}
    BY <2>1, <2>2 DEF headAdmissibleLocked, externalPickLocked
  <2>4. held <= held' /\ heldExt <= heldExt'
    BY <1>0 DEF IInv, TypeOK, LeaseTypeOK
  <2>5. externalPickLocked(c, slots)' = {}
    BY <1>2, <2>1, <2>3, <2>4, PickStays
  <2> QED
    BY <2>1, <2>5 DEF headAdmissibleLocked
<1>5. backgroundFits(1, slots)' <=> backgroundFits(1, slots)
  BY <1>0, <1>2, ReservedFrame DEF backgroundFits
<1>6. ASSUME NEW r \in Queued("XU")' \cup Queued("XB")' PROVE Offered(r)'
  <2>1. externalOffer' = externalOffer
    BY DEF externalOffer, ExternalStill
  <2>2. r \in Queued("XU") \cup Queued("XB")
    BY QueueFrame DEF External
  <2> QED
    BY <2>1, <2>2 DEF NobodyLeft, Offered
<1>7. slots <= 0 => Queued("I")' \cup Queued("B")' = {}
  BY <1>1, <1>2
<1> QED
  BY <1>1, <1>2, <1>3, <1>4, <1>5, <1>6, <1>7 DEF NobodyLeft

(* The same of a step in which nobody joins in-house. *)
LEMMA LeaveKeeps ==
  ASSUME AInv, AInv', NobodyLeft, ExternalStill, UNCHANGED <<held, heldExt, classHeld>>,
         \A x \in Requests : ~External(class(x)) /\ phase'[x] = "queued" => phase[x] = "queued",
         demand' = 0 => demand = 0
  PROVE  NobodyLeft'
<1>1. Queued("I")' \subseteq Queued("I") /\ Queued("B")' \subseteq Queued("B")
  BY DEF Queued, External
<1>2. slotsLocked \in Nat
  BY SlotsType DEF AInv, IInv, TypeOK
<1>3. Queued("I")' # {} => slotsLocked > 0 /\ ~(held + 1 <= slotsLocked)
  <2>1. Queued("I") # {} => ~headAdmissibleLocked("I", slotsLocked) /\ slotsLocked > 0
    BY <1>2 DEF NobodyLeft
  <2> QED
    BY <1>1, <2>1 DEF headAdmissibleLocked, External
<1>4. Queued("B")' # {} => slotsLocked > 0
  BY <1>1, <1>2 DEF NobodyLeft
<1>5. Queued("B")' # {} /\ demand' = 0 => ~backgroundFits(1, slotsLocked)
  BY <1>1 DEF NobodyLeft
<1> QED
  BY <1>3, <1>4, <1>5, QuietKeeps

(* A step that touches no waiter and no unit. *)
LEMMA IdleKeeps ==
  ASSUME AInv, AInv', NobodyLeft,
         \A x \in Requests : phase'[x] = "queued" <=> phase[x] = "queued",
         UNCHANGED <<ahead, passed, viewOld, slotHeld, slotTime, settings, policy>>,
         UNCHANGED <<held, heldExt, classHeld>>, demand' = 0 => demand = 0
  PROVE  NobodyLeft'
<1>1. ExternalStill
  BY DEF ExternalStill
<1> QED
  BY <1>1, LeaveKeeps

(* A lease without a slot frees nothing. *)
LEMMA FinishIdle ==
  ASSUME IInv, NEW r \in Requests, finishLocked(r), wake' = "no"
  PROVE  /\ r \notin slotHeld
         /\ UNCHANGED <<ahead, passed, viewOld, slotHeld, slotTime, held, heldExt, classHeld>>
<1>1. r \notin slotHeld
  BY DEF finishLocked
<1>2. r \notin extCancel
  BY <1>1 DEF IInv, Accounting
<1>3. UNCHANGED <<ahead, slotHeld, slotTime, held, heldExt, classHeld>>
  BY <1>1 DEF finishLocked
<1>4. passed' = passed /\ viewOld' = viewOld
  BY <1>2 DEF finishLocked, IInv, TypeOK, QueueTypeOK
<1> QED
  BY <1>1, <1>3, <1>4

(* A request that is not queued stands in nobody's way, an in-house one not in
   that of an external one. *)
LEMMA NotAhead ==
  ASSUME AInv, NEW r \in Requests, NEW x \in Requests, External(class(x)),
         ~External(class(r))
  PROVE  r \notin ahead[x]
BY DEF AInv, QueueOrder, Queued

(* A pass-through at the door of a target without slots. *)
LEMMA PassThroughKeeps ==
  ASSUME AInv, AInv', NobodyLeft, NEW r \in Requests, phase[r] = "idle", AdmitPassThrough(r)
  PROVE  NobodyLeft'
<1>0. QueueTypeOK
  BY DEF AInv, IInv, TypeOK
<1>1. /\ ~External(class(r)) /\ slotHeld' = slotHeld /\ slotTime' = slotTime
      /\ UNCHANGED <<held, heldExt, classHeld>> /\ UNCHANGED cfgVars
      /\ viewOld' = viewOld \ {r} /\ Dequeue(r)
      /\ \A x \in Requests : x # r => passed'[x] = passed[x]
      /\ phase' = [phase EXCEPT ![r] = "running"]
  BY DEF AdmitPassThrough, admitLocked
<1>2. \A x \in Requests : phase'[x] = "queued" <=> phase[x] = "queued"
  BY <1>0, <1>1 DEF QueueTypeOK
<1>3. \A x \in Requests : External(class(x)) => x # r /\ ahead'[x] = ahead[x]
  BY <1>1, NotAhead DEF Dequeue
<1>4. ExternalStill
  BY <1>1, <1>2, <1>3 DEF ExternalStill, cfgVars
<1> QED
  BY <1>1, <1>2, <1>4, LeaveKeeps DEF cfgVars

(* An in-house waiter joins because it could not be admitted. *)
LEMMA EnqueueKeeps ==
  ASSUME AInv, AInv', NobodyLeft, NEW r \in Requests, phase[r] = "idle",
         EnqueueInHouse(r, Managed(r) /\ eligibleNowLocked(r, slotsLocked))
  PROVE  NobodyLeft'
<1>0. QueueTypeOK /\ CfgTypeOK /\ IInv
  BY DEF AInv, IInv, TypeOK
<1>1. /\ ~External(class(r)) /\ Managed(r) /\ ~eligibleNowLocked(r, slotsLocked)
      /\ Push(r) /\ UNCHANGED cfgVars /\ UNCHANGED <<slotHeld, held, heldExt, classHeld>>
  BY DEF EnqueueInHouse, slotVars
<1>2. \A x \in Requests : x # r => (phase'[x] = "queued" <=> phase[x] = "queued")
  BY <1>0, <1>1 DEF QueueTypeOK, Push
<1>3. \A x \in Requests : x # r => ahead'[x] = ahead[x]
  BY <1>0, <1>1 DEF QueueTypeOK, Push
<1>4. ExternalStill
  BY <1>1, <1>2, <1>3 DEF ExternalStill, Push, cfgVars
<1>5. slotsLocked \in Nat /\ slotsLocked > 0 /\ held \in Nat
  BY <1>0, <1>1, SlotsType DEF Managed, IInv, TypeOK, LeaseTypeOK
<1>6. class(r) \in {"I", "B"} /\ requestWeight(r) = 1 /\ ~cont(r)
  BY <1>1, ClassType, InHouseWeight DEF Classes, External, cont
<1>7. Queued("I")' # {} => ~(held + 1 <= slotsLocked)
  <2>1. CASE Queued("I") # {}
    BY <2>1 DEF NobodyLeft, headAdmissibleLocked, External
  <2>2. CASE Queued("I") = {} /\ class(r) = "I"
    <3>1. AboveNow("I") = {}
      <4>1. settings.order \in RankOrders /\ "I" \in Classes
        BY <1>0 DEF CfgTypeOK, Settings, Classes
      <4>2. \A h \in Classes : Rank(settings.order, h) \in 1..4
        BY <4>1, RankType
      <4>3. Rank(settings.order, "I") = 1
        BY <4>1, InteractiveFirst DEF Classes
      <4> QED
        BY <4>2, <4>3 DEF AboveNow, Above
    <3>2. rankClearLocked("I", slotsLocked)
      BY <3>1 DEF rankClearLocked
    <3>3. ~admissibleLocked("I", 1, slotsLocked)
      BY <1>1, <1>6, <2>2, <3>2 DEF eligibleNowLocked, External
    <3> QED
      BY <3>3 DEF admissibleLocked, External
  <2>3. CASE Queued("I") = {} /\ class(r) # "I"
    BY <1>2, <2>3 DEF Queued
  <2> QED
    BY <2>1, <2>2, <2>3
<1>8. Queued("B")' # {} /\ demand' = 0 => ~backgroundFits(1, slotsLocked)
  <2>0. demand' = demand
    BY <1>1 DEF cfgVars
  <2>1. CASE Queued("B") # {}
    BY <2>0, <2>1 DEF NobodyLeft
  <2>2. CASE Queued("B") = {} /\ class(r) = "B"
    <3>1. rankClearLocked("B", slotsLocked)
      <4>1. AboveNow("B") \subseteq {"I", "XU", "XB"}
        <5>1. Rank(settings.order, "B") \in Nat
          BY <1>0, RankType DEF CfgTypeOK, Settings, Classes
        <5> QED
          BY <5>1 DEF AboveNow, Above, Classes
      <4> QED
        BY <4>1 DEF rankClearLocked, NobodyLeft
    <3>2. ~admissibleLocked("B", 1, slotsLocked)
      BY <1>1, <1>6, <2>2, <3>1 DEF eligibleNowLocked, External
    <3> QED
      BY <2>0, <3>2 DEF admissibleLocked, External
  <2>3. CASE Queued("B") = {} /\ class(r) # "B"
    BY <1>2, <2>3 DEF Queued
  <2> QED
    BY <2>1, <2>2, <2>3
<1> QED
  BY <1>1, <1>4, <1>5, <1>7, <1>8, QuietKeeps

(* What did not fit before an admission does not fit after it. *)
LEMMA NoRoom ==
  ASSUME NEW a \in Nat, NEW b \in Nat, a < b, NEW n \in Nat, ~(a + 1 <= n)
  PROVE  ~(b + 1 <= n)
OBVIOUS

(* An admission at the door that wakes nobody moves no external class. *)
LEMMA AdmitNowKeeps ==
  ASSUME AInv, AInv', NobodyLeft, NEW r \in Requests, phase[r] = "idle", wake' = "no",
         AdmitNow(r, Managed(r) /\ eligibleNowLocked(r, slotsLocked))
  PROVE  NobodyLeft'
<1>0. /\ QueueTypeOK /\ CfgTypeOK /\ IInv /\ held \in Nat /\ heldExt \in Nat
      /\ classHeld \in [Classes -> Nat]
  BY DEF AInv, IInv, TypeOK, LeaseTypeOK
<1>1. /\ Managed(r) /\ eligibleNowLocked(r, slotsLocked) /\ admitLocked(r, TRUE)
      /\ phase' = [phase EXCEPT ![r] = "running"] /\ UNCHANGED cfgVars
      /\ ~admissionMovesExternalLocked(class(r))
  BY DEF AdmitNow
<1>2. \A x \in Requests : phase'[x] = "queued" <=> phase[x] = "queued"
  BY <1>0, <1>1 DEF QueueTypeOK
<1>3. \A c : Queued(c)' = Queued(c)
  BY <1>2 DEF Queued
<1>4. /\ slotsLocked' = slotsLocked /\ slotsLocked \in Nat /\ externalOffer' = externalOffer
      /\ demand' = demand
  BY <1>0, <1>1, SlotsType DEF slotsLocked, externalOffer, cfgVars
<1>5. requestWeight(r) \in Nat /\ requestWeight(r) >= 1
  BY WeightType, BoundsAssumption
<1>h. held \in Nat
  BY <1>0
<1>6. held' \in Nat /\ held < held'
  <2>1. held' = held + requestWeight(r)
    BY <1>1, AdmittedUnits
  <2> QED
    BY <1>h, <1>5, <2>1
<1>7. ~headAdmissibleLocked("I", slotsLocked)'
  <2>1. Queued("I") # {} => ~(held + 1 <= slotsLocked)
    BY DEF NobodyLeft, headAdmissibleLocked, External
  <2>2. Queued("I") # {} => ~(held' + 1 <= slotsLocked)
    BY <1>h, <1>4, <1>6, <2>1, NoRoom
  <2> QED
    BY <1>3, <1>4, <2>2 DEF headAdmissibleLocked, External
<1>8. \A x \in Queued("XU")' \cup Queued("XB")' : Offered(x)'
  BY <1>3, <1>4 DEF NobodyLeft, Offered
<1>9. slotsLocked' <= 0 => Queued("I")' \cup Queued("B")' = {}
  BY <1>3, <1>4 DEF NobodyLeft
<1>10. CASE \A h \in Classes : External(h) => Queued(h) = {}
  <2>1. \A c \in {"XU", "XB"} : ~headAdmissibleLocked(c, slotsLocked)'
    BY <1>3, <1>10 DEF headAdmissibleLocked, Classes, External
  <2>2. \A h : External(h) => Queued(h) = {}
    BY <1>10 DEF External, Classes
  <2>3. ~externalReservedLocked(1, slotsLocked)
    BY <2>2 DEF externalReservedLocked
  <2>4. Queued("B") # {} /\ demand = 0 => ~(held + 1 <= slotsLocked)
    BY <2>3 DEF NobodyLeft, backgroundFits
  <2>5. Queued("B")' # {} /\ demand' = 0 => ~(held' + 1 <= slotsLocked')
    <3>1. ~(held + 1 <= slotsLocked) => ~(held' + 1 <= slotsLocked)
      BY <1>h, <1>4, <1>6, NoRoom
    <3> QED
      BY <1>3, <1>4, <2>4, <3>1
  <2> QED
    BY <1>7, <1>8, <1>9, <2>1, <2>5 DEF NobodyLeft, backgroundFits
<1>11. CASE class(r) = "B"
  <2>1. ~External(class(r)) /\ ~cont(r) /\ Queued("B") = {}
    BY <1>1, <1>11 DEF External, cont, eligibleNowLocked
  <2>2. /\ slotTime' = slotTime /\ viewOld' = viewOld \ {r} /\ slotHeld' = slotHeld \cup {r}
        /\ heldExt' = heldExt /\ Dequeue(r)
        /\ \A x \in Requests : x # r => passed'[x] = passed[x]
        /\ \A h \in Classes : h # "B" => classHeld'[h] = classHeld[h]
    BY <1>0, <1>1, <1>11, <2>1 DEF admitLocked, bookClassHeld
  <2>3. \A x \in Requests : External(class(x)) => x # r /\ ahead'[x] = ahead[x]
    BY <2>1, <2>2, NotAhead DEF Dequeue
  <2>4. ExternalStill
    BY <1>1, <1>2, <2>2, <2>3 DEF ExternalStill, cfgVars
  <2>5. ASSUME NEW c \in {"XU", "XB"} PROVE ~headAdmissibleLocked(c, slotsLocked)'
    <3>1. External(c) /\ c \in Classes
      BY DEF External, Classes
    <3>2. CASE Queued(c) = {}
      BY <1>3, <3>2 DEF headAdmissibleLocked
    <3>3. CASE Queued(c) # {}
      <4>1. AboveStill(c)
        <5>1. "B" \notin AboveNow(c)
          BY <1>1, <1>11, <3>1, <3>3 DEF admissionMovesExternalLocked
        <5> QED
          BY <2>2, <5>1 DEF AboveStill, AboveNow, Above
      <4>2. PICK slots : slots = slotsLocked
        OBVIOUS
      <4>3. externalPickLocked(c, slots) = {}
        BY <3>1, <3>3, <4>2 DEF NobodyLeft, headAdmissibleLocked
      <4>4. held <= held' /\ heldExt <= heldExt'
        BY <1>0, <1>6, <2>2
      <4>5. externalPickLocked(c, slots)' = {}
        BY <1>4, <2>4, <3>1, <4>1, <4>2, <4>3, <4>4, PickStays
      <4> QED
        BY <1>4, <3>1, <4>2, <4>5 DEF headAdmissibleLocked
    <3> QED
      BY <3>2, <3>3
  <2>6. Queued("B")' = {}
    BY <1>3, <2>1
  <2> QED
    BY <1>7, <1>8, <1>9, <2>5, <2>6 DEF NobodyLeft
<1> QED
  <2>1. CASE External(class(r))
    BY <1>1, <1>10, <2>1 DEF admissionMovesExternalLocked
  <2>2. CASE class(r) = "I"
    <3>1. \A h \in Classes : External(h) => "I" \in AboveNow(h)
      BY <1>0, InteractiveFirst DEF External, AboveNow, CfgTypeOK, Settings
    <3> QED
      BY <1>1, <1>10, <2>2, <3>1 DEF admissionMovesExternalLocked
  <2> QED
    BY <1>11, <2>1, <2>2, ClassType DEF Classes, External

(* The doors. *)
LEMMA DoorConserves ==
  ASSUME CInv, AInv', NEW r \in Requests, Door(r)
  PROVE  Conserved'
<1> SUFFICES ASSUME wake' = "no", ~swapped' PROVE NobodyLeft'
  BY DEF Conserved
<1>1. /\ AtDoor(r) /\ phase[r] = "idle" /\ wake = "no"
  BY DEF Door, AtDoor, Unlocked
<1>2. PICK now \in {Managed(r) /\ eligibleNowLocked(r, slotsLocked)} :
         Acquire(r, now) \/ TryAcquire(r, now)
  BY DEF Door
<1>3. now = (Managed(r) /\ eligibleNowLocked(r, slotsLocked))
  OBVIOUS
<1>4. UNCHANGED cfgVars
  BY CallerNoScan, <1>1 DEF Caller, In, Door, AtDoor
<1>5. AInv /\ NobodyLeft
  BY <1>1, <1>4 DEF CInv, Conserved, cfgVars
<1>6. ~EnqueueExternal(r, now) /\ ~yieldToEscapeLocked
  BY DEF EnqueueExternal, yieldToEscapeLocked
<1>7. CASE AdmitPassThrough(r)
  BY <1>1, <1>5, <1>7, PassThroughKeeps
<1>8. CASE AdmitNow(r, now)
  BY <1>1, <1>3, <1>5, <1>8, AdmitNowKeeps
<1>9. CASE EnqueueInHouse(r, now)
  BY <1>1, <1>3, <1>5, <1>9, EnqueueKeeps
<1> QED
  BY <1>2, <1>6, <1>7, <1>8, <1>9 DEF Acquire, TryAcquire, WouldBlock, Refuse

(* A run that ends without having held a slot. *)
LEMMA EndRunKeeps ==
  ASSUME AInv, AInv', NobodyLeft, NEW r \in Requests, phase[r] # "queued", EndRun(r),
         wake' = "no"
  PROVE  NobodyLeft'
<1>0. IInv /\ QueueTypeOK
  BY DEF AInv, IInv, TypeOK
<1>1. /\ UNCHANGED <<ahead, passed, viewOld, slotHeld, slotTime, held, heldExt, classHeld>>
      /\ UNCHANGED cfgVars /\ phase' = [phase EXCEPT ![r] = "idle"]
  <2>1. CASE r \in inflight
    BY <1>0, <2>1, FinishIdle DEF EndRun
  <2>2. CASE r \notin inflight
    BY <2>2 DEF EndRun, slotVars
  <2> QED
    BY <2>1, <2>2
<1>2. \A x \in Requests : phase'[x] = "queued" <=> phase[x] = "queued"
  BY <1>0, <1>1 DEF QueueTypeOK
<1> QED
  BY <1>1, <1>2, IdleKeeps DEF cfgVars

(* An in-house waiter that gives up. *)
LEMMA DropKeeps ==
  ASSUME AInv, AInv', NobodyLeft, NEW r \in Requests, dropWaiterLocked(r), wake' = "no"
  PROVE  NobodyLeft'
<1>0. QueueTypeOK
  BY DEF AInv, IInv, TypeOK
<1>1. /\ ~External(class(r)) /\ UNCHANGED <<slotHeld, slotTime, held, heldExt, classHeld>>
      /\ UNCHANGED cfgVars /\ viewOld' = viewOld \ {r} /\ Dequeue(r)
      /\ passed' = [passed EXCEPT ![r] = 0] /\ phase' = [phase EXCEPT ![r] = "idle"]
  BY DEF dropWaiterLocked, leaseVars, slotVars
<1>2. \A x \in Requests : x # r => phase'[x] = phase[x] /\ passed'[x] = passed[x]
  BY <1>0, <1>1 DEF QueueTypeOK
<1>3. \A x \in Requests : External(class(x)) => x # r /\ ahead'[x] = ahead[x]
  BY <1>1, NotAhead DEF Dequeue
<1>4. ExternalStill
  BY <1>1, <1>2, <1>3 DEF ExternalStill, cfgVars
<1>5. phase'[r] = "idle"
  BY <1>0, <1>1 DEF QueueTypeOK
<1> QED
  BY <1>1, <1>2, <1>4, <1>5, LeaveKeeps DEF cfgVars

(* The callers inside and behind the doors. *)
LEMMA CallerConserves ==
  ASSUME CInv, AInv', NEW r \in Requests, Waiter(r) \/ Release(r)
  PROVE  Conserved'
<1> SUFFICES ASSUME wake' = "no", ~swapped' PROVE NobodyLeft'
  BY DEF Conserved
<1>0. QueueTypeOK
  BY DEF CInv, AInv, IInv, TypeOK
<1>1. CASE ReturnLease(r) \/ ReturnError(r)
  <2>1. /\ UNCHANGED <<ahead, passed, viewOld, slotTime>> /\ UNCHANGED cfgVars
        /\ UNCHANGED <<slotHeld, held, heldExt, classHeld>> /\ wake = "no"
    BY <1>1 DEF ReturnLease, ReturnError, leaseVars, slotVars, sectionVars
  <2>2. \A x \in Requests : phase'[x] = "queued" <=> phase[x] = "queued"
    BY <1>0, <1>1 DEF ReturnLease, ReturnError, QueueTypeOK
  <2>3. AInv /\ NobodyLeft
    BY <2>1 DEF CInv, Conserved, cfgVars
  <2> QED
    BY <2>1, <2>2, <2>3, IdleKeeps DEF cfgVars
<1>2. CASE dropWaiterLocked(r) /\ Unlocked
  <2>1. AInv /\ NobodyLeft
    BY <1>2 DEF CInv, Conserved, cfgVars, dropWaiterLocked, Unlocked
  <2> QED
    BY <1>2, <2>1, DropKeeps
<1>3. CASE EndRun(r) /\ phase[r] # "queued" /\ Unlocked
  <2>1. AInv /\ NobodyLeft
    BY <1>3 DEF CInv, Conserved, cfgVars, EndRun, Unlocked
  <2> QED
    BY <1>3, <2>1, EndRunKeeps
<1> QED
  BY <1>1, <1>2, <1>3 DEF Waiter, Release, CtxDone, ExpireWaiter

(* Reaper, watchdog, clocks and swaps. *)
LEMMA OthersConserve ==
  ASSUME CInv, AInv',
         \/ ReapNow \/ ReapWake \/ Swap
         \/ \E r \in Requests : ReapLease(r) \/ PreemptWatchdog(r) \/ Age(r) \/ PassReapDeadline(r)
  PROVE  Conserved'
<1> SUFFICES ASSUME wake' = "no", ~swapped' PROVE NobodyLeft'
  BY DEF Conserved
<1>0. IInv /\ QueueTypeOK /\ CfgTypeOK /\ AInv
  BY DEF CInv, AInv, IInv, TypeOK
<1>1. CASE ReapNow
  <2>1. NobodyLeft
    BY <1>1 DEF CInv, Conserved, ReapNow, cfgVars
  <2> QED
    BY <1>0, <1>1, <2>1, IdleKeeps DEF ReapNow, cfgVars, queueVars, leaseVars, slotVars
<1>2. CASE ReapWake \/ WakeAll
  BY <1>2 DEF ReapWake, WakeAll
<1>3. CASE InteractiveArrived \/ InteractiveDone
  <2>1. /\ UNCHANGED <<settings, policy>> /\ UNCHANGED queueVars /\ UNCHANGED leaseVars
        /\ wake = "no"
    BY <1>3 DEF InteractiveArrived, InteractiveDone, sectionVars
  <2>2. ~swapped /\ (demand' = 0 => demand = 0)
    <3>0. demand \in Nat
      BY <1>0, BoundsAssumption DEF CfgTypeOK
    <3>1. CASE InteractiveArrived
      BY <3>0, <3>1 DEF InteractiveArrived
    <3>2. CASE InteractiveDone
      <4>1. swapped' = (swapped \/ demand = 1) /\ demand > 0 /\ demand' = demand - 1
        BY <3>2 DEF InteractiveDone
      <4>2. ~swapped /\ demand # 1
        BY <4>1, Zenon
      <4> QED
        BY <3>0, <4>1, <4>2
    <3> QED
      BY <1>3, <3>1, <3>2
  <2>3. NobodyLeft
    BY <2>1, <2>2 DEF CInv, Conserved
  <2> QED
    BY <1>0, <2>1, <2>2, <2>3, IdleKeeps DEF queueVars, leaseVars, slotVars
<1>4. CASE \E s \in SettingsSet : UpdateSettings(s)
  BY <1>4 DEF UpdateSettings
<1>5. CASE \E p \in PolicySet : UpdatePolicy(p)
  BY <1>5 DEF UpdatePolicy
<1>6. ASSUME NEW r \in Requests, ReapLease(r) PROVE NobodyLeft'
  <2>1. /\ finishLocked(r) /\ UNCHANGED cfgVars /\ phase' = phase /\ wake = "no"
    BY <1>6 DEF ReapLease
  <2>2. NobodyLeft
    BY <2>1 DEF CInv, Conserved, cfgVars
  <2>3. UNCHANGED <<ahead, passed, viewOld, slotHeld, slotTime, held, heldExt, classHeld>>
    BY <1>0, <2>1, FinishIdle
  <2> QED
    BY <1>0, <2>1, <2>2, <2>3, IdleKeeps DEF cfgVars
<1>7. ASSUME NEW r \in Requests, PreemptWatchdog(r) PROVE NobodyLeft'
  <2>1. r \in slotHeld /\ finishLocked(r)
    BY <1>0, <1>7 DEF PreemptWatchdog, IInv, LeaseOwned, Accounting
  <2> QED
    BY <2>1 DEF finishLocked
<1>8. ASSUME NEW r \in Requests, Age(r) PROVE NobodyLeft'
  <2>1. NobodyLeft
    BY <1>8 DEF CInv, Conserved, Age, cfgVars, sectionVars
  <2> QED
    BY <1>0, <1>8, <2>1, IdleKeeps DEF Age, cfgVars, leaseVars, slotVars
<1>9. ASSUME NEW r \in Requests, PassReapDeadline(r) PROVE NobodyLeft'
  <2>1. NobodyLeft
    BY <1>9 DEF CInv, Conserved, PassReapDeadline, cfgVars, sectionVars
  <2> QED
    BY <1>0, <1>9, <2>1, IdleKeeps DEF PassReapDeadline, cfgVars, queueVars, slotVars
<1> QED
  BY <1>1, <1>2, <1>3, <1>4, <1>5, <1>6, <1>7, <1>8, <1>9 DEF Swap

-----------------------------------------------------------------------------
(* The wake loop. *)

(* The loop ends when the units are out or no class it scans yields a head. *)
LEMMA ScanNoPick ==
  ASSUME AInv, ScanPick = {}
  PROVE  \/ scan.slots > 0 /\ held >= scan.slots
         \/ \A c \in Classes : /\ Rank(scan.order, c) >= scan.from
                               /\ scan.slots > 0 \/ External(c)
                               => pickAdmissibleLocked(c, scan.rr, scan.slots) = {}
<1> SUFFICES ASSUME ~(scan.slots > 0 /\ held >= scan.slots)
             PROVE  \A c \in Classes : /\ Rank(scan.order, c) >= scan.from
                                       /\ scan.slots > 0 \/ External(c)
                                       => pickAdmissibleLocked(c, scan.rr, scan.slots) = {}
  OBVIOUS
<1> DEFINE scanned == {c \in Classes : /\ Rank(scan.order, c) >= scan.from
                                       /\ scan.slots > 0 \/ External(c)}
           picks == [c \in scanned |-> pickAdmissibleLocked(c, scan.rr, scan.slots)]
           bad == {c \in scanned : picks[c] # {}}
<1>1. ScanPick = UNION {picks[c] : c \in {h \in scanned :
                           \A g \in Above(scan.order, h) \cap scanned : picks[g] = {}}}
  BY DEF ScanPick
<1>2. \A c \in Classes : Rank(scan.order, c) \in Nat
  BY RankType DEF AInv, IInv, TypeOK, SectionTypeOK
<1>3. bad = {}
  <2> SUFFICES ASSUME bad # {} PROVE FALSE
    OBVIOUS
  <2> DEFINE f == [c \in bad |-> Rank(scan.order, c)]
  <2>1. \A c \in bad : f[c] \in Nat
    BY <1>2
  <2>2. PICK h \in bad : \A g \in bad : f[h] <= f[g]
    <3> HIDE DEF bad, f
    <3> QED
      BY <2>1, LeastValue
  <2>3. h \in scanned /\ picks[h] # {}
    OBVIOUS
  <2>4. \A g \in Above(scan.order, h) \cap scanned : picks[g] = {}
    <3> SUFFICES ASSUME NEW g \in Above(scan.order, h), g \in bad PROVE FALSE
      OBVIOUS
    <3>1. Rank(scan.order, g) < Rank(scan.order, h) /\ g \in Classes /\ h \in Classes
      BY DEF Above
    <3>2. Rank(scan.order, h) <= Rank(scan.order, g)
      BY <2>2
    <3> QED
      BY <1>2, <3>1, <3>2
  <2> HIDE DEF picks, scanned
  <2> QED
    BY <1>1, <2>3, <2>4
<1>4. \A c \in scanned : picks[c] = {}
  BY <1>3
<1> QED
  BY <1>4

(* With all units out no external class has a pick. *)
LEMMA FullNoPick ==
  ASSUME AInv, NEW c, External(c), NEW slots \in Nat, slots > 0, held >= slots
  PROVE  externalPickLocked(c, slots) = {}
<1>1. CASE ~externalOffer.offered \/ Queued(c) = {}
  BY <1>1 DEF externalPickLocked
<1>2. CASE externalOffer.offered /\ Queued(c) # {}
  <2>1. PICK cap : cap = externalOffer.capacity
    OBVIOUS
  <2>2. PICK claim : claim = externalClaimLocked(c, slots, cap)
    OBVIOUS
  <2>3. claim \in Nat /\ held \in Nat
    BY <2>2, ClaimType DEF AInv, IInv, TypeOK, LeaseTypeOK
  <2>4. headMinWeight(c) \in 1..MaxWeight
    BY <1>2, LightestHead
  <2>5. PICK m : m = headMinWeight(c)
    OBVIOUS
  <2>6. m \in Nat /\ m >= 1
    BY <2>4, <2>5, BoundsAssumption
  <2>7. ~(held + (m + claim) <= slots)
    BY <2>3, <2>6
  <2>8. ~externalFits(m + claim, slots, cap)
    BY <2>7 DEF externalFits
  <2>9. NoPick(c, slots, cap, claim)
    BY <2>5, <2>8 DEF NoPick
  <2> QED
    BY <1>2, <2>1, <2>2, <2>9, PickEmpty
<1> QED
  BY <1>1, <1>2

(* So the end of the loop leaves nobody behind. *)
LEMMA WakeEndConserves ==
  ASSUME CInv, AInv', WakeEnd
  PROVE  Conserved'
<1> SUFFICES ASSUME ~swapped' PROVE NobodyLeft'
  BY DEF Conserved
<1>0. AInv /\ IInv /\ CfgTypeOK /\ ~swapped /\ wake = "scan"
  BY DEF CInv, AInv, IInv, TypeOK, WakeEnd, cfgVars
<1>1. /\ scan.slots = slotsLocked /\ (scan.slots > 0 => scan.from = 1) /\ slotsLocked \in Nat
      /\ scan.order \in RankOrders /\ held \in Nat
  BY <1>0, SlotsType DEF AInv, ScanOK, IInv, TypeOK, SectionTypeOK, LeaseTypeOK
<1>2. PICK slots : slots = slotsLocked
  OBVIOUS
<1>3. slots \in Nat /\ scan.slots = slots
  BY <1>1, <1>2
<1>4. /\ \A c \in {"I", "XU", "XB"} : ~headAdmissibleLocked(c, slots)
      /\ Queued("B") # {} /\ demand = 0 => ~backgroundFits(1, slots)
  <2>1. CASE slots > 0 /\ held >= slots
    <3>1. ~(held + 1 <= slots)
      BY <1>1, <1>3, <2>1
    <3>2. \A c \in {"XU", "XB"} : ~headAdmissibleLocked(c, slots)
      BY <1>0, <1>3, <2>1, FullNoPick DEF headAdmissibleLocked, External
    <3>3. ~headAdmissibleLocked("I", slots) /\ ~backgroundFits(1, slots)
      BY <3>1 DEF headAdmissibleLocked, External, backgroundFits
    <3> QED
      BY <3>2, <3>3
  <2>2. CASE slots > 0 /\ ~(held >= slots)
    <3>1. \A c \in Classes : Rank(scan.order, c) >= 1
      BY <1>1, RankType
    <3>2. ScanPick = {}
      BY DEF WakeEnd
    <3>3. \A c \in Classes : pickAdmissibleLocked(c, scan.rr, slots) = {}
      BY <1>0, <1>1, <1>3, <2>2, <3>1, <3>2, ScanNoPick
    <3>4. \A c \in Classes : ~headAdmissibleLocked(c, slots)
      BY <1>0, <1>3, <3>3, AdmissiblePicks
    <3>5. Queued("B") # {} /\ demand = 0 /\ backgroundFits(1, slots) =>
            headAdmissibleLocked("B", slots)
      BY DEF headAdmissibleLocked, backgroundHeadGoes, External
    <3> QED
      BY <3>4, <3>5 DEF Classes
  <2>3. CASE slots = 0
    <3>1. ~(held + 1 <= slots)
      BY <1>1, <2>3
    <3>2. ~headAdmissibleLocked("I", slots) /\ ~backgroundFits(1, slots)
      BY <3>1 DEF headAdmissibleLocked, External, backgroundFits
    <3>3. ASSUME NEW c \in {"XU", "XB"} PROVE ~headAdmissibleLocked(c, slots)
      <4>1. External(c) /\ c \in Classes
        BY DEF External, Classes
      <4>2. CASE Rank(scan.order, c) < scan.from
        <5>1. Queued(c) = {}
          BY <1>0, <1>3, <2>3, <4>1, <4>2 DEF CInv, ScanRest
        <5> QED
          BY <5>1 DEF headAdmissibleLocked
      <4>3. CASE ~(Rank(scan.order, c) < scan.from)
        <5>1. Rank(scan.order, c) >= scan.from
          BY <1>0, <1>1, <4>1, <4>3, RankType DEF IInv, TypeOK, SectionTypeOK
        <5>2. pickAdmissibleLocked(c, scan.rr, slots) = {}
          BY <1>0, <1>3, <2>3, <4>1, <5>1, ScanNoPick DEF WakeEnd
        <5> QED
          BY <1>0, <1>3, <4>1, <5>2, AdmissiblePicks
      <4> QED
        BY <4>2, <4>3
    <3> QED
      BY <3>2, <3>3
  <2> QED
    BY <1>3, <2>1, <2>2, <2>3
<1>5. slots <= 0 => Queued("I") \cup Queued("B") = {}
  BY <1>3 DEF WakeEnd, PassThroughLeft
<1>6. \A r \in Queued("XU") \cup Queued("XB") : Offered(r)
  BY <1>0 DEF CInv, ScanRest
<1>7. NobodyLeft
  BY <1>2, <1>4, <1>5, <1>6 DEF NobodyLeft
<1> QED
  BY <1>0, <1>7, IdleKeeps DEF WakeEnd, cfgVars, queueVars, leaseVars, slotVars

-----------------------------------------------------------------------------
(* Without slots the loop never has to go back. *)

(* The weight of the lightest head is that of a waiter. *)
LEMMA HeadMinAttained ==
  ASSUME AInv, NEW c, Queued(c) # {}
  PROVE  \E r \in Queued(c) : headMinWeight(c) = requestWeight(r)
<1>0. QueueOrder
  BY DEF AInv
<1>1. CASE Conts(c) = {}
  BY <1>1, LightestHead DEF Heads
<1>2. CASE Conts(c) # {}
  <2>1. PICK S : S = FirstArrived(Conts(c))
    OBVIOUS
  <2>2. S \in SUBSET Queued(c) /\ S \in SUBSET Requests
    BY <2>1 DEF FirstArrived, Conts, Queued
  <2>3. S # {}
    BY <1>0, <1>2, <2>1, FirstExists DEF Conts
  <2>4. \E r \in S : Min({requestWeight(q) : q \in S}) = requestWeight(r)
    BY <2>2, <2>3, MinWeight
  <2>5. headMinWeight(c) = Min({requestWeight(q) : q \in S})
    BY <1>2, <2>1 DEF headMinWeight
  <2> QED
    BY <2>2, <2>4, <2>5
<1> QED
  BY <1>1, <1>2

(* Max is attained and is a bound. *)
LEMMA MaxIs ==
  ASSUME NEW n \in Nat, NEW T \in SUBSET (0..n), T # {}
  PROVE  Max(T) \in T /\ \A y \in T : y <= Max(T)
<1>1. PICK x \in T : \A y \in T : y <= x
  BY NatMax
<1>2. \A y \in T : y \in Nat
  OBVIOUS
<1>3. \A y \in T : x >= y
  BY <1>1, <1>2
<1>4. Max(T) \in T /\ \A y \in T : Max(T) >= y
  BY <1>3 DEF Max
<1> QED
  BY <1>2, <1>4

(* The first external class on a target without slots: where it has waiters and
   no pick, its need is beyond what is free, though within the capacity. *)
LEMMA TopNeed ==
  ASSUME AInv, NEW x \in Classes, External(x), externalOffer.offered, Queued(x) # {},
         {h \in AboveNow(x) : External(h)} = {},
         \A r \in Queued(x) : Offered(r),
         externalPickLocked(x, 0) = {},
         NEW cap, cap = externalOffer.capacity
  PROVE  LET n == externalNeedLocked(x, 0, cap)
         IN  n \in Nat /\ cap > 0 /\ heldExt + n > cap /\ n <= cap
<1>0. IInv /\ QueueOrder /\ heldExt \in Nat /\ cap \in Nat /\ 0 \in Nat
  BY OfferType DEF AInv, IInv, TypeOK, LeaseTypeOK
<1>1. externalClaimLocked(x, 0, cap) = 0
  <2>1. {h \in AboveNow(x) : External(h) /\ Queued(h) # {}} = {}
    OBVIOUS
  <2> QED
    BY <2>1 DEF externalClaimLocked, ClassSum
<1>2. NoPick(x, 0, cap, 0)
  BY <1>0, <1>1, PickEmpty
<1>3. \A r \in Queued(x) : requestWeight(r) \in Nat /\ requestWeight(r) <= MaxWeight
  BY WeightType, BoundsAssumption DEF Queued
<1>4. PICK m : m = headMinWeight(x)
  OBVIOUS
<1>5. m \in Nat /\ \E r \in Queued(x) : m = requestWeight(r)
  BY <1>3, <1>4, HeadMinAttained
<1>6. \A w \in Nat : ~externalFits(w + 0, 0, cap) => cap > 0 /\ heldExt + w > cap
  <2> SUFFICES ASSUME NEW w \in Nat, ~externalFits(w + 0, 0, cap)
               PROVE  cap > 0 /\ heldExt + w > cap
    OBVIOUS
  <2>1. w + 0 = w
    OBVIOUS
  <2> QED
    BY <1>0, <2>1 DEF externalFits
<1>7. cap > 0
  <2>1. CASE ~externalFits(headMinWeight(x) + 0, 0, cap)
    BY <1>4, <1>5, <1>6, <2>1
  <2>2. CASE \E f \in externalFirst(x, 0, cap) : externalHeadHoldsLocked(x, f, 0, cap, 0)
    <3>1. PICK f \in externalFirst(x, 0, cap) : externalHeadHoldsLocked(x, f, 0, cap, 0)
      BY <2>2
    <3>2. f \in Queued(x)
      BY DEF externalFirst, FairnessFirst, Heads
    <3> QED
      BY <1>3, <1>6, <3>1, <3>2 DEF externalHeadHoldsLocked
  <2> QED
    BY <1>2, <2>1, <2>2 DEF NoPick
<1>8. \A r \in Queued(x) : requestWeight(r) <= cap
  BY <1>7 DEF Offered
<1>9. PICK n : n = externalNeedLocked(x, 0, cap)
  OBVIOUS
<1>10. NeedByRank(x, 0, cap)
  BY <1>0, NeedIs
<1>11. n \in Nat /\ heldExt + n > cap /\ n <= cap
  <2>1. CASE Conts(x) # {}
    <3>1. n = m
      BY <1>4, <1>9, <1>10, <2>1 DEF NeedByRank
    <3>2. ~externalFits(m + 0, 0, cap)
      BY <1>2, <1>4, <2>1 DEF NoPick
    <3> QED
      BY <1>5, <1>6, <1>8, <3>1, <3>2
  <2>2. CASE Conts(x) = {}
    <3>0. externalFirst(x, 0, cap) \subseteq Heads(x) /\ Heads(x) \subseteq Queued(x)
      BY DEF externalFirst, FairnessFirst, Heads
    <3>1. ASSUME NEW w \in Nat, w <= cap PROVE ~keptOutLocked(x, w, 0, cap)
      <4>1. ClassSum({h \in AboveNow(x) : External(h)}, classHeld) = 0
        BY DEF ClassSum
      <4> QED
        BY <1>0, <3>1, <4>1 DEF keptOutLocked
    <3>2. PICK T : T = {requestWeight(f) : f \in externalFirst(x, 0, cap)}
      OBVIOUS
    <3>3. headUnits(x, 0, cap) = T
      BY <1>3, <1>8, <3>0, <3>1, <3>2 DEF headUnits
    <3>4. n = Max({0} \cup T)
      BY <1>9, <1>10, <2>2, <3>3 DEF NeedByRank
    <3>5. {0} \cup T \in SUBSET (0..cap)
      BY <1>0, <1>3, <1>8, <3>0, <3>2
    <3>6. n \in {0} \cup T /\ \A y \in {0} \cup T : y <= n
      BY <1>0, <3>4, <3>5, MaxIs
    <3>7. n \in Nat /\ n <= cap
      BY <1>0, <3>5, <3>6
    <3>8. \E f \in externalFirst(x, 0, cap) : heldExt + requestWeight(f) > cap
      <4>1. CASE ~externalFits(headMinWeight(x) + 0, 0, cap)
        <5>1. heldExt + m > cap
          BY <1>4, <1>5, <1>6, <4>1
        <5>2. PICK S : S = {h \in Heads(x) : /\ 0 > 0 => requestWeight(h) <= 0
                                             /\ cap > 0 => requestWeight(h) <= cap}
          OBVIOUS
        <5>3. S = Heads(x)
          BY <1>8, <3>0, <5>2
        <5>4. S # {} /\ S \in SUBSET Queued(x)
          BY <2>2, <3>0, <5>3, LightestHead
        <5>5. FairnessFirst(S, cap) # {}
          BY <5>4, FairnessExists
        <5>6. PICK f : f \in externalFirst(x, 0, cap)
          BY <5>2, <5>5 DEF externalFirst
        <5>7. m <= requestWeight(f) /\ requestWeight(f) \in Nat
          BY <1>3, <1>4, <2>2, <3>0, <5>6, LightestHead
        <5>8. heldExt + requestWeight(f) > cap
          BY <1>0, <1>5, <5>1, <5>7
        <5> QED
          BY <5>6, <5>8
      <4>2. CASE \E f \in externalFirst(x, 0, cap) : externalHeadHoldsLocked(x, f, 0, cap, 0)
        BY <1>3, <1>6, <3>0, <4>2 DEF externalHeadHoldsLocked
      <4> QED
        BY <1>2, <4>1, <4>2 DEF NoPick
    <3>9. PICK w \in T : heldExt + w > cap
      BY <3>2, <3>8
    <3>10. w \in Nat /\ w <= n
      BY <1>3, <3>0, <3>2, <3>6
    <3> QED
      BY <1>0, <3>7, <3>9, <3>10
  <2> QED
    BY <2>1, <2>2
<1> QED
  BY <1>7, <1>9, <1>11

(* Then the class below has no pick either: the claim of the first one takes all
   that is left. *)
LEMMA ClaimBlocks ==
  ASSUME AInv, NEW x \in Classes, NEW y \in Classes, External(x), External(y),
         x \in AboveNow(y), \A r \in Queued(x) : Offered(r),
         externalPickLocked(x, 0) = {}, externalPickLocked(y, 0) # {}
  PROVE  Queued(x) = {}
<1> SUFFICES ASSUME Queued(x) # {} PROVE FALSE
  OBVIOUS
<1>0. IInv /\ QueueOrder /\ heldExt \in Nat /\ CfgTypeOK /\ 0 \in Nat
  BY DEF AInv, IInv, TypeOK, LeaseTypeOK
<1>1. externalOffer.offered /\ Queued(y) # {}
  BY DEF externalPickLocked
<1>2. /\ x # y /\ {h \in AboveNow(x) : External(h)} = {}
      /\ {h \in AboveNow(y) : External(h) /\ Queued(h) # {}} = {x}
  <2>1. Rank(settings.order, x) \in Nat /\ Rank(settings.order, y) \in Nat
    BY <1>0, RankType DEF CfgTypeOK, Settings
  <2>2. Rank(settings.order, x) < Rank(settings.order, y)
    BY DEF AboveNow, Above
  <2>3. \A h : External(h) => h = x \/ h = y
    BY <2>1, <2>2 DEF External
  <2> QED
    BY <2>1, <2>2, <2>3 DEF AboveNow, Above
<1>3. PICK cap : cap = externalOffer.capacity
  OBVIOUS
<1>4. PICK n : n = externalNeedLocked(x, 0, cap)
  OBVIOUS
<1>5. n \in Nat /\ cap > 0 /\ heldExt + n > cap /\ n <= cap /\ cap \in Nat
  <2>1. cap \in Nat
    BY <1>0, <1>3, OfferType
  <2> QED
    BY <1>1, <1>2, <1>3, <1>4, <2>1, TopNeed
<1>6. ~keptOutLocked(x, n, 0, cap)
  <2>1. ClassSum({h \in AboveNow(x) : External(h)}, classHeld) = 0
    BY <1>2 DEF ClassSum
  <2> QED
    BY <1>5, <2>1 DEF keptOutLocked
<1>7. externalClaimLocked(y, 0, cap) = n
  <2> DEFINE need == [h \in {x} |-> externalNeedLocked(h, 0, cap)]
  <2>1. DOMAIN need = {x} /\ need[x] = n
    BY <1>4
  <2>2. externalClaimLocked(y, 0, cap)
          = ClassSum({h \in DOMAIN need : ~keptOutLocked(h, need[h], 0, cap)}, need)
    BY <1>2 DEF externalClaimLocked
  <2> HIDE DEF need
  <2>3. {h \in DOMAIN need : ~keptOutLocked(h, need[h], 0, cap)} = {x}
    BY <1>6, <2>1
  <2>4. ClassSum({x}, need) = n
    BY <1>5, <2>1 DEF ClassSum, External
  <2> QED
    BY <2>2, <2>3, <2>4
<1>8. PICK m : m = headMinWeight(y)
  OBVIOUS
<1>9. m \in Nat
  BY <1>1, <1>8, LightestHead, BoundsAssumption
<1>10. ~(cap = 0 \/ heldExt + (m + n) <= cap)
  BY <1>0, <1>5, <1>9
<1>11. ~externalFits(m + n, 0, cap)
  BY <1>10 DEF externalFits
<1>12. NoPick(y, 0, cap, n)
  BY <1>8, <1>11 DEF NoPick
<1> QED
  BY <1>0, <1>1, <1>3, <1>7, <1>12, PickEmpty

(* One iteration keeps what the loop relies on. *)
LEMMA HandoffRest ==
  ASSUME CInv, NEW r \in Requests, WakeHandoff(r)
  PROVE  ScanRest'
<1> SUFFICES ASSUME ~swapped' PROVE ScanRest'
  BY DEF ScanRest
<1>0. AInv /\ IInv /\ CfgTypeOK /\ QueueTypeOK /\ ~swapped /\ wake = "scan" /\ UNCHANGED cfgVars
  BY DEF CInv, AInv, IInv, TypeOK, WakeHandoff, cfgVars
<1>1. \A c : Queued(c)' \subseteq Queued(c)
  BY <1>0 DEF Queued, WakeHandoff, QueueTypeOK
<1>2. /\ \A q \in Queued("XU") \cup Queued("XB") : Offered(q)
      /\ scan.slots <= 0 =>
            \A c \in Classes : External(c) /\ Rank(scan.order, c) < scan.from => Queued(c) = {}
  BY <1>0 DEF CInv, ScanRest
<1>3. /\ scan.slots = slotsLocked /\ scan.order = settings.order /\ scan.order \in RankOrders
      /\ scan.from \in 1..4 /\ slotsLocked \in Nat
      /\ scan \in [slots : Nat, order : RankOrders, rr : BOOLEAN, from : 1..4]
  BY <1>0, SlotsType DEF AInv, ScanOK, IInv, TypeOK, SectionTypeOK
<1>4. \A q \in Queued("XU")' \cup Queued("XB")' : Offered(q)'
  <2>1. externalOffer' = externalOffer
    BY <1>0 DEF externalOffer, cfgVars
  <2> QED
    BY <1>1, <1>2, <2>1 DEF Offered
<1>5. scan'.slots = scan.slots /\ scan'.order = scan.order
  BY <1>3 DEF WakeHandoff
<1>6. ASSUME scan.slots <= 0, NEW c \in Classes, External(c), Rank(scan.order, c) < scan'.from
      PROVE  Queued(c) = {}
  <2>0. Rank(scan.order, c) \in 1..4
    BY <1>3, RankType
  <2>1. ~PassThroughLeft /\ scan'.from = Rank(scan.order, class(r))
    <3>1. scan'.from # 1
      BY <1>6, <2>0
    <3> QED
      BY <1>3, <3>1 DEF WakeHandoff
  <2>2. r \in ScanPick
    BY <2>1 DEF WakeHandoff
  <2>3. /\ r \in pickAdmissibleLocked(class(r), scan.rr, scan.slots)
        /\ scan.slots > 0 \/ External(class(r))
        /\ \A g \in Above(scan.order, class(r)) :
              Rank(scan.order, g) >= scan.from /\ (scan.slots > 0 \/ External(g)) =>
                 pickAdmissibleLocked(g, scan.rr, scan.slots) = {}
    BY <1>0, <2>2, ScanPickHow
  <2>4. scan.slots = 0 /\ External(class(r)) /\ class(r) \in Classes
    BY <1>3, <1>6, <2>3, ClassType
  <2>5. c \in AboveNow(class(r)) /\ c \in Above(scan.order, class(r))
    BY <1>3, <1>6, <2>1 DEF AboveNow, Above
  <2>6. CASE Rank(scan.order, c) < scan.from
    BY <1>2, <1>6, <2>6
  <2>7. CASE ~(Rank(scan.order, c) < scan.from)
    <3>1. Rank(scan.order, c) >= scan.from
      BY <1>3, <2>0, <2>7
    <3>2. pickAdmissibleLocked(c, scan.rr, 0) = {}
      BY <1>6, <2>3, <2>4, <2>5, <3>1
    <3>3. externalPickLocked(c, 0) = {}
      BY <1>6, <3>2 DEF pickAdmissibleLocked, External
    <3>4. externalPickLocked(class(r), 0) # {}
      BY <2>3, <2>4 DEF pickAdmissibleLocked, External
    <3>5. \A q \in Queued(c) : Offered(q)
      BY <1>2, <1>6 DEF External
    <3> QED
      BY <1>0, <1>6, <2>4, <2>5, <3>3, <3>4, <3>5, ClaimBlocks
  <2> QED
    BY <2>6, <2>7
<1>7. scan'.slots <= 0 =>
        \A c \in Classes : External(c) /\ Rank(scan'.order, c) < scan'.from => Queued(c)' = {}
  BY <1>1, <1>5, <1>6
<1> QED
  BY <1>4, <1>7 DEF ScanRest

(* While the loop runs nobody else moves a waiter. *)
LEMMA LoopAlone ==
  ASSUME IInv, [Next]_vars, wake = "scan", wake' = "scan"
  PROVE  \/ \E r \in Requests : WakeHandoff(r)
         \/ \A c : Queued(c)' = Queued(c)
<1>0. QueueTypeOK /\ LeaseTypeOK /\ SectionTypeOK
  BY DEF IInv, TypeOK
<1>1. CASE UNCHANGED vars
  BY <1>1 DEF vars, queueVars, Queued
<1>2. CASE Section
  BY <1>0, <1>2 DEF Section, WakeDrain, WakeEnd, ReapWake, ReapLease, In, SectionTypeOK
<1>3. CASE Swap
  <2>1. phase' = phase
    BY <1>3 DEF Swap, InteractiveArrived, InteractiveDone, WakeAll, UpdateSettings, UpdatePolicy,
                queueVars
  <2> QED
    BY <2>1 DEF Queued
<1>4. CASE ReapNow \/ \E r \in preempting : PreemptWatchdog(r)
  BY <1>4 DEF ReapNow, PreemptWatchdog, Unlocked
<1>5. ASSUME NEW r \in Requests, Door(r) \/ Release(r) \/ CtxDone(r) \/ ExpireWaiter(r)
      PROVE  FALSE
  BY <1>5 DEF Door, AtDoor, Release, CtxDone, ExpireWaiter, Unlocked
<1>6. ASSUME NEW r \in Requests, ReturnLease(r) \/ ReturnError(r)
      PROVE  \A c : Queued(c)' = Queued(c)
  BY <1>0, <1>6 DEF ReturnLease, ReturnError, Queued, QueueTypeOK
<1>7. CASE (\E r \in In("queued") : Age(r)) \/ (\E r \in inflight : PassReapDeadline(r))
  <2>1. phase' = phase
    BY <1>7 DEF Age, PassReapDeadline, queueVars
  <2> QED
    BY <2>1 DEF Queued
<1> QED
  BY <1>1, <1>2, <1>3, <1>4, <1>5, <1>6, <1>7 DEF Next, Caller, Waiter, Timer, In

(* What the loop relies on is kept by every step. *)
LEMMA RestStays ==
  ASSUME CInv, [Next]_vars
  PROVE  ScanRest'
<1> SUFFICES ASSUME wake' = "scan", ~swapped' PROVE ScanRest'
  BY DEF ScanRest
<1>0. IInv /\ AInv /\ QueueTypeOK /\ CfgTypeOK
  BY DEF CInv, AInv, IInv, TypeOK
<1>1. CASE WakeDrain
  <2>1. scan'.from = 1 /\ scan'.order = settings.order /\ UNCHANGED cfgVars
    BY <1>1 DEF WakeDrain
  <2>2. \A c \in Classes : ~(Rank(scan'.order, c) < scan'.from)
    <3>1. \A c \in Classes : Rank(settings.order, c) \in 1..4
      BY <1>0, RankType DEF CfgTypeOK, Settings
    <3> QED
      BY <2>1, <3>1
  <2>3. \A r \in Queued("XU")' \cup Queued("XB")' : Offered(r)'
    <3>1. externalOffer' = externalOffer
      BY <2>1 DEF externalOffer, cfgVars
    <3>2. \A r \in Queued("XU")' \cup Queued("XB")' : Offered(r)
      BY <1>1 DEF WakeDrain, Queued
    <3> QED
      BY <3>1, <3>2 DEF Offered
  <2> QED
    BY <2>2, <2>3 DEF ScanRest
<1>2. CASE \E r \in Requests : WakeHandoff(r)
  BY <1>2, HandoffRest
<1>3. CASE /\ ~WakeDrain /\ ~(\E r \in Requests : WakeHandoff(r))
           /\ UNCHANGED <<wake, scan>> /\ CfgStep
  <2>1. /\ wake = "scan" /\ ~swapped /\ UNCHANGED <<settings, policy>>
    BY <1>3 DEF CfgStep, cfgVars
  <2>2. \A c : Queued(c)' = Queued(c)
    BY <1>0, <1>3, <2>1, LoopAlone
  <2>3. externalOffer' = externalOffer
    BY <2>1 DEF externalOffer
  <2> QED
    BY <1>3, <2>1, <2>2, <2>3 DEF CInv, ScanRest, Offered
<1> QED
  BY <1>0, <1>1, <1>2, <1>3, NextScanStep

-----------------------------------------------------------------------------
(* The inductive invariant and what follows. *)

(* An untouched state stays conserved. *)
LEMMA StutterConserves ==
  ASSUME CInv, AInv', UNCHANGED vars
  PROVE  Conserved'
<1>1. /\ wake' = wake /\ swapped' = swapped /\ UNCHANGED <<settings, policy, demand>>
      /\ UNCHANGED queueVars /\ UNCHANGED leaseVars
  BY DEF vars, cfgVars, sectionVars
<1>2. ASSUME NobodyLeft PROVE NobodyLeft'
  BY <1>1, <1>2, IdleKeeps DEF CInv, queueVars, leaseVars, slotVars
<1> QED
  BY <1>1, <1>2 DEF CInv, Conserved

(* The invariant is kept by every step of every actor. *)
THEOREM NextCInv == CInv /\ [Next]_vars => CInv'
<1> SUFFICES ASSUME CInv, [Next]_vars PROVE CInv'
  OBVIOUS
<1>1. AInv'
  BY NextAInv DEF CInv
<1>2. ScanRest'
  BY RestStays
<1>0. preempting \subseteq Requests /\ inflight \subseteq Requests /\ reaping \subseteq Requests
  BY DEF CInv, AInv, IInv, TypeOK, LeaseTypeOK, SectionTypeOK
<1>3. Conserved'
  <2>1. CASE UNCHANGED vars
    BY <1>1, <2>1, StutterConserves
  <2>2. CASE Section
    <3>1. CASE WakeDrain \/ \E r \in In("queued") : WakeHandoff(r)
      BY <3>1 DEF WakeDrain, WakeHandoff, Conserved
    <3>2. CASE WakeEnd
      BY <1>1, <3>2, WakeEndConserves
    <3>3. CASE ReapWake \/ \E r \in reaping : ReapLease(r)
      BY <1>0, <1>1, <3>3, OthersConserve
    <3> QED
      BY <2>2, <3>1, <3>2, <3>3 DEF Section
  <2>3. CASE ReapNow \/ Swap
    BY <1>1, <2>3, OthersConserve
  <2>4. CASE Caller
    BY <1>1, <2>4, DoorConserves, CallerConserves DEF Caller, In
  <2>5. CASE Timer
    BY <1>0, <1>1, <2>5, OthersConserve DEF Timer, In
  <2> QED
    BY <2>1, <2>2, <2>3, <2>4, <2>5 DEF Next
<1> QED
  BY <1>1, <1>2, <1>3 DEF CInv

(* Initially nobody waits. *)
LEMMA InitCInv == Init => CInv
<1> SUFFICES ASSUME Init PROVE CInv
  OBVIOUS
<1>1. AInv
  BY InitAInv
<1>2. \A c : Queued(c) = {}
  BY DEF Init, Queued
<1>3. NobodyLeft
  BY <1>2 DEF NobodyLeft, headAdmissibleLocked
<1> QED
  BY <1>1, <1>3 DEF CInv, Conserved, ScanRest, Init

(* CInv holds in every reachable state. *)
THEOREM ConservationInvariance == Spec => []CInv
BY InitCInv, NextCInv, PTL DEF Spec

(* Work conservation for every set of callers and weights, every fairness order,
   every rank order and every swap: when a section has released the mutex and no
   swap waits for its wakeAll, no waiter is left that the rank scan would admit,
   and none that can never be. *)
THEOREM NoUnitIdles == Spec => []WorkConserving
<1>1. CInv => WorkConserving
  BY DEF CInv, Conserved, NobodyLeft, WorkConserving, Settled, Unlocked
<1> QED
  BY <1>1, ConservationInvariance, PTL

(* An admission of one class while a higher one could take the slot. *)
LEMMA AdmittedByRank ==
  ASSUME CInv, [Next]_vars, NEW r \in Admitted, ~swapped, NEW h \in AboveNow(class(r))
  PROVE  ~headAdmissibleLocked(h, slotsLocked)
<1>0. AInv /\ IInv /\ CfgTypeOK /\ held \in Nat
  BY DEF CInv, AInv, IInv, TypeOK, LeaseTypeOK
<1>1. r \in Requests /\ (AdmittedAtDoor(r) \/ AdmittedByWake(r))
  BY <1>0, AdmittedHow
<1>2. CASE AdmittedAtDoor(r)
  BY <1>2 DEF AdmittedAtDoor, eligibleNowLocked, rankClearLocked
<1>3. CASE AdmittedByWake(r)
  <2>1. wake = "scan" /\ r \in ScanPick
    BY <1>3 DEF AdmittedByWake
  <2>2. /\ scan.slots = slotsLocked /\ scan.order = settings.order /\ slotsLocked \in Nat
        /\ (scan.slots > 0 => scan.from = 1) /\ scan.from \in 1..4
        /\ scan.order \in RankOrders
    BY <1>0, <2>1, SlotsType DEF AInv, ScanOK, IInv, TypeOK, SectionTypeOK
  <2>3. /\ h \in Above(scan.order, class(r)) /\ h \in Classes
        /\ Rank(scan.order, h) \in 1..4
    BY <2>2, RankType DEF AboveNow, Above
  <2>4. Rank(scan.order, h) >= scan.from /\ (scan.slots > 0 \/ External(h)) =>
          pickAdmissibleLocked(h, scan.rr, scan.slots) = {}
    BY <1>0, <2>1, <2>3, ScanPickHow
  <2>5. CASE Rank(scan.order, h) >= scan.from /\ (scan.slots > 0 \/ External(h))
    BY <1>0, <2>2, <2>3, <2>4, <2>5, AdmissiblePicks
  <2>6. CASE scan.slots = 0 /\ ~External(h)
    <3>1. ~(held + 1 <= slotsLocked)
      BY <1>0, <2>2, <2>6
    <3>2. h \in {"I", "B"}
      BY <2>3, <2>6 DEF Classes, External
    <3> QED
      BY <3>1, <3>2 DEF headAdmissibleLocked, External, backgroundHeadGoes, backgroundFits
  <2>7. CASE scan.slots = 0 /\ External(h) /\ ~(Rank(scan.order, h) >= scan.from)
    <3>1. Rank(scan.order, h) < scan.from
      BY <2>2, <2>3, <2>7
    <3>2. Queued(h) = {}
      BY <2>1, <2>3, <2>7, <3>1 DEF CInv, ScanRest
    <3> QED
      BY <3>2 DEF headAdmissibleLocked
  <2>8. scan.slots > 0 => Rank(scan.order, h) >= scan.from
    BY <2>2, <2>3
  <2> QED
    BY <2>2, <2>5, <2>6, <2>7, <2>8
<1> QED
  BY <1>1, <1>2, <1>3

(* No priority inversion: whether the door, the wake loop, the escape or a
   backfill admits, no class ranked above has a head that could take the slot. *)
THEOREM RanksRespected == Spec => NoInversion
<1>1. CInv /\ [Next]_vars =>
        [\A r \in Admitted : ~swapped =>
          \A h \in AboveNow(class(r)) : ~headAdmissibleLocked(h, slotsLocked)]_vars
  BY AdmittedByRank
<1> QED
  BY <1>1, ConservationInvariance, PTL DEF Spec, NoInversion

-----------------------------------------------------------------------------
(* The internal partition, on a target whose policy no reload changes. *)

(* Every reload stores the same policy. *)
SamePolicy == \A p, q \in PolicySet : p = q

(* The external leases of a target with slots stay within S - R, the enabled
   switch and every swap of the settings notwithstanding. *)
ExternalWithin ==
    /\ policy \in PolicySet
    /\ policy.slots > 0 => heldExt <= externalCapacity(policy).capacity

(* A smaller set of leases holds no more units. *)
LEMMA UnitsMonotone ==
  ASSUME NEW A \in SUBSET Requests, NEW B \in SUBSET A
  PROVE  Units(B) <= Units(A)
<1>1. UnitsOf(B) \subseteq UnitsOf(A)
  BY DEF UnitsOf
<1>2. IsFiniteSet(UnitsOf(A))
  BY UnitsFinite
<1>3. Cardinality(UnitsOf(B)) <= Cardinality(UnitsOf(A))
  BY <1>1, <1>2, FS_Subset
<1> QED
  BY <1>3 DEF Units, UnitsOf

(* Only the admission of an external request raises heldExt. *)
LEMMA OnlyExternalRaises ==
  ASSUME IInv, IInv', \A r \in Admitted : ~External(class(r))
  PROVE  heldExt' <= heldExt
<1>1. extCancel \in SUBSET Requests
  BY DEF IInv, TypeOK, LeaseTypeOK
<1>2. extCancel' \in SUBSET extCancel
  BY DEF IInv, Accounting, Admitted
<1>3. heldExt = Units(extCancel) /\ heldExt' = Units(extCancel')
  BY DEF IInv, Accounting
<1> QED
  BY <1>1, <1>2, <1>3, UnitsMonotone

(* A policy leaves its partition to the in-house classes. *)
LEMMA CapacityLeaves ==
  ASSUME NEW p \in PolicySet, p.slots > 0
  PROVE  /\ externalCapacity(p).capacity \in Nat
         /\ externalCapacity(p).capacity + p.reserved <= p.slots
         /\ externalCapacity(p).offered => externalCapacity(p).capacity > 0
<1>1. p.slots \in Nat /\ p.reserved \in Nat /\ p.extMax \in Nat
  BY PolicyAssumption DEF TargetPolicy
<1>2. p.reserved <= p.slots
  BY <1>1, PartitionAssumption
<1> QED
  BY <1>1, <1>2 DEF externalCapacity, NoOffer

(* Only a reload stores a policy. *)
LEMMA PolicyStep ==
  ASSUME [Next]_vars
  PROVE  policy' = policy \/ \E p \in PolicySet : UpdatePolicy(p)
<1>1. CASE UNCHANGED vars
  BY <1>1 DEF vars, cfgVars
<1>2. CASE Section \/ ReapNow
  BY <1>2 DEF Section, ReapNow, WakeDrain, WakeEnd, ReapWake, WakeHandoff, ReapLease, cfgVars
<1>3. CASE Swap
  BY <1>3 DEF Swap, InteractiveArrived, InteractiveDone, WakeAll, UpdateSettings
<1>4. CASE \E r \in In("idle") : Door(r)
  BY <1>4 DEF Door, Acquire, TryAcquire, AdmitPassThrough, AdmitNow, EnqueueInHouse,
              EnqueueExternal, Refuse, WouldBlock, yieldToEscapeLocked, cfgVars
<1>5. CASE (\E r \in In("queued") \cup In("granted") \cup In("failed") : Waiter(r))
           \/ \E r \in In("running") : Release(r)
  BY <1>5 DEF Waiter, ReturnLease, ReturnError, CtxDone, ExpireWaiter, Release,
              dropWaiterLocked, EndRun, cfgVars
<1>6. CASE Timer
  BY <1>6 DEF Timer, Age, PassReapDeadline, PreemptWatchdog, cfgVars
<1> QED
  BY <1>1, <1>2, <1>3, <1>4, <1>5, <1>6 DEF Next, Caller

(* The policy in force stays the one of the start. *)
LEMMA PolicyStays ==
  ASSUME SamePolicy, policy \in PolicySet, [Next]_vars
  PROVE  policy' = policy
<1>1. CASE \E p \in PolicySet : UpdatePolicy(p)
  BY <1>1 DEF UpdatePolicy, SamePolicy
<1> QED
  BY <1>1, PolicyStep

(* A step keeps the external leases within their part. *)
LEMMA WithinStays ==
  ASSUME SamePolicy, CInv, ExternalWithin, [Next]_vars, CInv'
  PROVE  ExternalWithin'
<1>0. AInv /\ IInv /\ IInv' /\ heldExt \in Nat /\ heldExt' \in Nat
  BY DEF CInv, AInv, IInv, TypeOK, LeaseTypeOK
<1>1. policy \in PolicySet
  BY DEF ExternalWithin
<1>2. policy' = policy
  BY <1>1, PolicyStays
<1>3. PICK cap : cap = externalCapacity(policy).capacity
  OBVIOUS
<1>4. externalCapacity(policy').capacity = cap
  BY <1>2, <1>3
<1>5. policy.slots > 0 => cap \in Nat /\ heldExt <= cap
  BY <1>3, CapacityLeaves DEF ExternalWithin
<1>6. CASE \A r \in Admitted : ~External(class(r))
  <2>1. heldExt' <= heldExt
    BY <1>0, <1>6, OnlyExternalRaises
  <2>2. policy.slots > 0 => heldExt' <= cap
    BY <1>0, <1>5, <2>1
  <2> QED
    BY <1>1, <1>2, <1>4, <2>2 DEF ExternalWithin
<1>7. CASE \E r \in Admitted : External(class(r))
  <2>1. PICK r \in Admitted : External(class(r))
    BY <1>7
  <2>2. /\ externalOffer.offered
        /\ externalOffer.capacity > 0 => heldExt' <= externalOffer.capacity
    BY <1>0, <2>1, AdmittedFits
  <2>3. externalOffer = externalCapacity(policy)
    BY <2>2 DEF externalOffer, NoOffer
  <2>4. policy.slots > 0 => cap > 0
    BY <1>3, <2>2, <2>3, CapacityLeaves DEF ExternalWithin
  <2>5. policy.slots > 0 => heldExt' <= cap
    BY <1>3, <2>2, <2>3, <2>4
  <2> QED
    BY <1>1, <1>2, <1>4, <2>5 DEF ExternalWithin
<1> QED
  BY <1>6, <1>7

(* Whatever a background request is refused for while units are free leaves the
   partition to the in-house classes. *)
LEMMA ReserveFollows ==
  ASSUME CInv, ExternalWithin
  PROVE  ReserveKept
<1> SUFFICES ASSUME Settled, settings.enabled,
                    Queued("I") # {} \/ (Queued("B") # {} /\ demand = 0)
             PROVE  held - heldExt >= policy.reserved
  BY DEF ReserveKept
<1>1. /\ CfgTypeOK /\ held \in Nat /\ heldExt \in Nat /\ AInv /\ IInv /\ WorkConserving
  BY DEF CInv, AInv, IInv, TypeOK, LeaseTypeOK, Conserved, NobodyLeft, WorkConserving, Settled, Unlocked
<1>2. slotsLocked = policy.slots /\ externalOffer = externalCapacity(policy)
  BY DEF slotsLocked, externalOffer
<1>3. policy.slots \in Nat /\ policy.reserved \in Nat
  BY <1>1 DEF CfgTypeOK, TargetPolicy
<1>4. policy.slots > 0
  <2>1. ~(slotsLocked <= 0)
    BY <1>1 DEF WorkConserving
  <2> QED
    BY <1>2, <1>3, <2>1
<1>5. PICK cap : cap = externalCapacity(policy).capacity
  OBVIOUS
<1>6. cap \in Nat /\ cap + policy.reserved <= policy.slots /\ heldExt <= cap
      /\ (externalCapacity(policy).offered => cap > 0)
  BY <1>4, <1>5, CapacityLeaves DEF ExternalWithin
<1>7. CASE held + 1 > policy.slots
  BY <1>1, <1>3, <1>6, <1>7
<1>8. CASE externalReservedLocked(1, policy.slots)
  <2>1. /\ externalOffer.offered /\ externalOffer.capacity = cap /\ cap > 0
    BY <1>2, <1>5, <1>6, <1>8 DEF externalReservedLocked
  <2>2. PICK h \in AboveNow("B") :
             /\ External(h) /\ Queued(h) # {}
             /\ LET need == externalNeedLocked(h, policy.slots, cap)
                IN  need > 0 /\ held + 1 + need > policy.slots /\ (cap = 0 \/ heldExt + need <= cap)
    BY <1>8, <2>1 DEF externalReservedLocked
  <2>3. PICK need : need = externalNeedLocked(h, policy.slots, cap)
    OBVIOUS
  <2>4. need \in Nat
    BY <1>1, <2>3, NeedType, BoundsAssumption DEF AInv
  <2>5. held + 1 + need > policy.slots /\ heldExt + need <= cap
    BY <1>6, <2>1, <2>2, <2>3
  <2> QED
    BY <1>1, <1>3, <1>6, <2>4, <2>5
<1>9. held + 1 > policy.slots \/ externalReservedLocked(1, policy.slots)
  <2>1. CASE Queued("I") # {}
    <3>1. ~headAdmissibleLocked("I", policy.slots)
      BY <1>1, <1>2 DEF WorkConserving
    <3> QED
      BY <1>1, <1>3, <2>1, <3>1 DEF headAdmissibleLocked, External
  <2>2. CASE Queued("B") # {} /\ demand = 0
    <3>1. ~backgroundFits(1, policy.slots)
      BY <1>1, <1>2, <2>2 DEF WorkConserving
    <3> QED
      BY <1>1, <1>3, <3>1 DEF backgroundFits
  <2> QED
    BY <2>1, <2>2
<1> QED
  BY <1>7, <1>8, <1>9

(* The reserve, for every valid partition and every load: while a target's policy
   stays what it was at start, in-house work that could run waits only behind R
   units of in-house leases; neither external leases nor a unit kept free for
   an external head reach into them. *)
THEOREM PartitionKept == SamePolicy => (Spec => []ReserveKept)
<1> SUFFICES ASSUME SamePolicy PROVE Spec => []ReserveKept
  OBVIOUS
<1>1. Init => ExternalWithin
  <2> SUFFICES ASSUME Init PROVE ExternalWithin
    OBVIOUS
  <2>1. policy \in PolicySet /\ heldExt = 0
    BY DEF Init
  <2> QED
    BY <2>1, CapacityLeaves DEF ExternalWithin
<1>2. CInv /\ ExternalWithin /\ [Next]_vars /\ CInv' => ExternalWithin'
  BY WithinStays
<1>3. CInv /\ ExternalWithin => ReserveKept
  BY ReserveFollows
<1> QED
  BY <1>1, <1>2, <1>3, ConservationInvariance, PTL DEF Spec

-----------------------------------------------------------------------------
(* Preemption. *)

(* The background leases are in the order of their admission. *)
OlderOrder ==
    /\ \A r \in Requests : older[r] \subseteq cancelable \ {r}
    /\ \A v, q, x \in Requests : v \in older[q] /\ q \in older[x] => v \in older[x]

(* A step admits somebody, ends a lease, counts one more interactive waiter, or
   leaves the leases and the evictions alone. *)
LEMMA LeaseStep ==
  ASSUME IInv, [Next]_vars
  PROVE  \/ Admitted # {} /\ preempting' = preempting
         \/ \E r \in inflight : finishLocked(r)
         \/ UNCHANGED slotVars /\ preempting' = preempting
         \/ /\ UNCHANGED slotVars
            /\ \E r \in Requests : class(r) = "I" /\ phase[r] # "queued" /\ phase'[r] = "queued"
<1> DEFINE Still == UNCHANGED slotVars /\ preempting' = preempting
<1>0. inflight \subseteq Requests /\ preempting \subseteq inflight /\ reaping \subseteq inflight
      /\ cancelable \subseteq slotHeld /\ slotHeld \subseteq inflight
      /\ \A r \in Requests : phase[r] \in {"idle", "queued"} => r \notin inflight
      /\ QueueTypeOK
  BY DEF IInv, TypeOK, LeaseTypeOK, LeaseOwned, Accounting
<1>1. ASSUME NEW r, admitLocked(r, FALSE) PROVE Still
  BY <1>1 DEF admitLocked, slotVars
<1>2. ASSUME NEW r \in Requests, r \notin slotHeld, admitLocked(r, TRUE)
      PROVE  Admitted # {} /\ preempting' = preempting
  BY <1>2 DEF admitLocked, Admitted
<1>3. CASE UNCHANGED vars \/ ReapNow \/ Swap
  <2>1. UNCHANGED leaseVars
    BY <1>3 DEF vars, ReapNow, Swap, InteractiveArrived, InteractiveDone, WakeAll,
                UpdateSettings, UpdatePolicy
  <2> QED
    BY <2>1 DEF leaseVars
<1>4. CASE Timer
  <2>1. CASE \E r \in preempting : PreemptWatchdog(r)
    BY <1>0, <2>1 DEF PreemptWatchdog
  <2>2. CASE (\E r \in In("queued") : Age(r)) \/ (\E r \in inflight : PassReapDeadline(r))
    BY <2>2 DEF Age, PassReapDeadline, leaseVars
  <2> QED
    BY <1>4, <2>1, <2>2 DEF Timer
<1>5. CASE Section
  <2>1. CASE WakeDrain \/ WakeEnd \/ ReapWake
    BY <2>1 DEF WakeDrain, WakeEnd, ReapWake, leaseVars
  <2>2. ASSUME NEW r \in In("queued"), WakeHandoff(r)
        PROVE  Still \/ (Admitted # {} /\ preempting' = preempting)
    <3>1. r \in Requests /\ r \notin slotHeld
      BY <1>0 DEF In
    <3>2. admitLocked(r, TRUE) \/ admitLocked(r, FALSE)
      BY <2>2 DEF WakeHandoff
    <3> QED
      BY <1>1, <1>2, <3>1, <3>2
  <2>3. CASE \E r \in reaping : ReapLease(r)
    BY <1>0, <2>3 DEF ReapLease
  <2> QED
    BY <1>5, <2>1, <2>2, <2>3 DEF Section
<1>6. ASSUME NEW r \in In("idle"), Door(r)
      PROVE  \/ Still \/ (Admitted # {} /\ preempting' = preempting)
             \/ UNCHANGED slotVars /\ class(r) = "I" /\ phase[r] # "queued" /\ phase'[r] = "queued"
  <2>0. r \in Requests /\ phase[r] = "idle" /\ r \notin slotHeld
    BY <1>0, <1>6 DEF In
  <2> PICK now : Acquire(r, now) \/ TryAcquire(r, now)
    BY <1>6 DEF Door
  <2>1. CASE AdmitPassThrough(r)
    BY <1>1, <2>1 DEF AdmitPassThrough
  <2>2. CASE AdmitNow(r, now)
    BY <1>2, <2>0, <2>2 DEF AdmitNow
  <2>3. CASE EnqueueInHouse(r, now)
    BY <1>0, <2>0, <2>3 DEF EnqueueInHouse, Push, QueueTypeOK
  <2>4. CASE EnqueueExternal(r, now)
    BY <2>4 DEF EnqueueExternal, leaseVars
  <2>5. CASE yieldToEscapeLocked
    BY <2>5 DEF yieldToEscapeLocked, leaseVars
  <2> QED
    BY <2>1, <2>2, <2>3, <2>4, <2>5 DEF Acquire, TryAcquire, Refuse, WouldBlock
<1>7. ASSUME NEW r, Waiter(r) \/ Release(r)
      PROVE  Still \/ \E q \in inflight : finishLocked(q)
  <2>1. CASE dropWaiterLocked(r) \/ ReturnLease(r) \/ ReturnError(r)
    BY <2>1 DEF dropWaiterLocked, ReturnLease, ReturnError, leaseVars
  <2>2. CASE EndRun(r)
    BY <2>2 DEF EndRun
  <2> QED
    BY <1>7, <2>1, <2>2 DEF Waiter, Release, CtxDone, ExpireWaiter
<1> HIDE DEF Still
<1>8. CASE Caller
  BY <1>6, <1>7, <1>8 DEF Caller, Still, In
<1> QED
  BY <1>3, <1>4, <1>5, <1>8 DEF Next, Still

(* A step keeps that order: whoever is admitted is the youngest, whoever ends is
   forgotten by the rest. *)
LEMMA OlderStays ==
  ASSUME IInv, OlderOrder, [Next]_vars
  PROVE  OlderOrder'
<1>0. /\ slotHeld \subseteq Requests /\ cancelable \subseteq Requests
      /\ older \in [Requests -> SUBSET Requests]
  BY DEF IInv, TypeOK, LeaseTypeOK
<1>1. CASE UNCHANGED <<cancelable, older>>
  BY <1>1 DEF OlderOrder
<1>2. ASSUME NEW r \in Admitted PROVE OlderOrder'
  <2>1. r \in Requests /\ admitLocked(r, TRUE) /\ r \notin slotHeld
    BY <1>2, AdmittedHow DEF Admitted
  <2>2. r \notin cancelable
    BY <2>1 DEF IInv, Accounting
  <2>3. CASE class(r) # "B"
    <3>1. UNCHANGED <<cancelable, older>>
      BY <2>1, <2>3 DEF admitLocked
    <3> QED
      BY <1>1, <3>1
  <2>4. CASE class(r) = "B"
    <3>1. /\ cancelable' = cancelable \cup {r}
          /\ \A q \in Requests : older'[q] = IF q = r THEN cancelable ELSE older[q]
      BY <1>0, <2>1, <2>4 DEF admitLocked
    <3>2. \A q \in Requests : older'[q] \subseteq cancelable' \ {q}
      BY <1>0, <2>2, <3>1 DEF OlderOrder
    <3>3. ASSUME NEW v \in Requests, NEW q \in Requests, NEW x \in Requests,
                 v \in older'[q], q \in older'[x]
          PROVE  v \in older'[x]
      <4>1. q # r
        BY <2>2, <3>1, <3>3 DEF OlderOrder
      <4>2. v \in older[q]
        BY <3>1, <3>3, <4>1
      <4>3. v \in cancelable
        BY <4>2 DEF OlderOrder
      <4> QED
        BY <3>1, <3>3, <4>2, <4>3 DEF OlderOrder
    <3> QED
      BY <3>2, <3>3 DEF OlderOrder
  <2> QED
    BY <2>3, <2>4
<1>3. ASSUME NEW r, finishLocked(r) PROVE OlderOrder'
  <2>1. /\ cancelable' = cancelable \ {r}
        /\ \A q \in Requests : older'[q] = IF q = r THEN {} ELSE older[q] \ {r}
    BY <1>3 DEF finishLocked
  <2>2. \A q \in Requests : older'[q] \subseteq older[q] /\ r \notin older'[q]
    BY <2>1
  <2>3. \A q \in Requests : older'[q] \subseteq cancelable' \ {q}
    BY <2>1, <2>2 DEF OlderOrder
  <2>4. ASSUME NEW v \in Requests, NEW q \in Requests, NEW x \in Requests,
               v \in older'[q], q \in older'[x]
        PROVE  v \in older'[x]
    <3>1. v \in older[q] /\ q \in older[x] /\ v # r /\ x # r
      BY <2>1, <2>2, <2>4
    <3>2. v \in older[x]
      BY <3>1 DEF OlderOrder
    <3> QED
      BY <2>1, <3>1, <3>2
  <2> QED
    BY <2>3, <2>4 DEF OlderOrder
<1>4. Admitted # {} \/ (\E r \in inflight : finishLocked(r)) \/ UNCHANGED <<cancelable, older>>
  BY LeaseStep DEF slotVars
<1> QED
  BY <1>1, <1>2, <1>3, <1>4

(* The victims are as many as are asked for, or all there are: a lease that is
   spared is older than that many victims. *)
LEMMA VictimsEnough ==
  ASSUME IInv, OlderOrder, NEW need \in Int, pickVictimsLocked(need) # cancelable \ preempting
  PROVE  Cardinality(pickVictimsLocked(need)) >= need
<1> DEFINE C == cancelable \ preempting
           Y(v) == {q \in C : v \in older[q]}
           V == pickVictimsLocked(need)
<1>0. C \subseteq Requests /\ IsFiniteSet(C)
  <2>1. C \subseteq Requests
    BY DEF IInv, TypeOK, LeaseTypeOK
  <2> QED
    BY <2>1, FS_Subset, RequestsAssumption
<1>1. V = {v \in C : Cardinality(Y(v)) < need}
  BY DEF pickVictimsLocked
<1>2. \A v : IsFiniteSet(Y(v)) /\ Cardinality(Y(v)) \in Nat
  BY <1>0, FS_Subset, FS_CardinalityType
<1>3. C \ V # {}
  BY <1>1
<1> DEFINE T == {Cardinality(Y(v)) : v \in C \ V}
<1>4. T \in SUBSET Nat /\ T # {}
  BY <1>2, <1>3
<1>5. PICK k \in T : \A j \in T : k <= j
  <2> HIDE DEF T
  <2> QED
    BY <1>4, NatMin
<1>6. PICK v \in C \ V : k = Cardinality(Y(v))
  OBVIOUS
<1>7. ASSUME NEW q \in Y(v) PROVE q \in V
  <2>1. q \in C /\ v \in older[q] /\ v \in C
    BY <1>7
  <2>2. Y(q) \subseteq Y(v) /\ q \notin Y(q)
    BY <1>0, <2>1 DEF OlderOrder
  <2>3. Y(q) # Y(v) /\ Y(q) \in SUBSET Y(v)
    BY <1>7, <2>2
  <2> HIDE DEF Y
  <2>4. Cardinality(Y(q)) <= Cardinality(Y(v)) /\ Cardinality(Y(q)) # Cardinality(Y(v))
    BY <1>2, <2>3, FS_Subset
  <2>5. Cardinality(Y(q)) < k
    BY <1>2, <1>6, <2>4
  <2>6. q \in V \/ Cardinality(Y(q)) \in T
    BY <2>1 DEF T
  <2>7. Cardinality(Y(q)) \notin T
    BY <1>2, <1>4, <1>5, <2>5
  <2> QED
    BY <2>6, <2>7
<1>8. Y(v) \in SUBSET V /\ IsFiniteSet(V)
  <2>1. V \subseteq C
    BY <1>1
  <2>2. IsFiniteSet(V)
    BY <1>0, <2>1, FS_Subset
  <2> QED
    BY <1>7, <2>2
<1>9. Cardinality(Y(v)) <= Cardinality(V) /\ Cardinality(V) \in Nat
  <2> HIDE DEF Y, V
  <2> QED
    BY <1>8, FS_Subset, FS_CardinalityType
<1>10. ~(Cardinality(Y(v)) < need)
  BY <1>1, <1>6
<1> QED
  BY <1>2, <1>9, <1>10

(* The units held never exceed the slots of a policy that stays, because a loop
   that took the target for switched off has no external waiter left to admit
   when it is switched on again. *)
SlotsKept ==
    /\ policy \in PolicySet
    /\ policy.slots > 0 =>
         /\ held <= policy.slots
         /\ wake = "scan" => /\ scan.slots \in {0, policy.slots}
                             /\ scan.slots = 0 => Queued("XU") \cup Queued("XB") = {}

(* Without an admission the units held do not grow. *)
LEMMA OnlyAdmissionRaises ==
  ASSUME IInv, IInv', Admitted = {}
  PROVE  held' <= held
<1>1. slotHeld \in SUBSET Requests /\ slotHeld' \in SUBSET slotHeld
  BY DEF IInv, TypeOK, LeaseTypeOK, Admitted
<1>2. held = Units(slotHeld) /\ held' = Units(slotHeld')
  BY DEF IInv, Accounting
<1> QED
  BY <1>1, <1>2, UnitsMonotone

(* A decision on a target with slots reads all of them. *)
LEMMA AdmittedReads ==
  ASSUME AInv, SlotsKept, policy.slots > 0, [Next]_vars, NEW r \in Admitted
  PROVE  (IF wake = "scan" THEN scan.slots ELSE slotsLocked) = policy.slots
<1>1. r \in Requests /\ (AdmittedAtDoor(r) \/ AdmittedByWake(r))
  BY AdmittedHow DEF AInv
<1>2. policy.slots \in Nat
  BY DEF AInv, IInv, TypeOK, CfgTypeOK, TargetPolicy
<1>3. CASE AdmittedAtDoor(r)
  <2>1. wake # "scan" /\ Managed(r)
    BY <1>3 DEF AdmittedAtDoor, Unlocked
  <2>2. settings.enabled
    <3>1. CASE External(class(r))
      BY <2>1, <3>1 DEF Managed, Offered, externalOffer, NoOffer
    <3>2. CASE ~External(class(r))
      BY <2>1, <3>2 DEF Managed, slotsLocked
    <3> QED
      BY <3>1, <3>2
  <2> QED
    BY <2>1, <2>2 DEF slotsLocked
<1>4. CASE AdmittedByWake(r)
  <2>1. wake = "scan" /\ r \in ScanPick
    BY <1>4 DEF AdmittedByWake
  <2>2. phase[r] = "queued" /\ (scan.slots > 0 \/ External(class(r)))
    BY <2>1, ScanPickHow
  <2>3. External(class(r)) => r \in Queued("XU") \cup Queued("XB")
    BY <1>1, <2>2 DEF External, Queued
  <2> QED
    BY <2>1, <2>2, <2>3 DEF SlotsKept
<1> QED
  BY <1>1, <1>3, <1>4

(* A step keeps the slots. *)
LEMMA SlotsKeptStays ==
  ASSUME SamePolicy, CInv, SlotsKept, [Next]_vars, CInv'
  PROVE  SlotsKept'
<1>0. /\ AInv /\ IInv /\ IInv' /\ QueueTypeOK /\ held \in Nat /\ held' \in Nat
      /\ policy.slots \in Nat
  BY DEF CInv, AInv, IInv, TypeOK, LeaseTypeOK, CfgTypeOK, TargetPolicy
<1>1. policy' = policy /\ policy \in PolicySet
  BY PolicyStays DEF SlotsKept
<1>2. policy.slots > 0 => held' <= policy.slots
  <2> HAVE policy.slots > 0
  <2>1. CASE Admitted = {}
    <3>1. held' <= held
      BY <1>0, <2>1, OnlyAdmissionRaises
    <3> QED
      BY <1>0, <3>1 DEF SlotsKept
  <2>2. CASE Admitted # {}
    <3>1. PICK r : r \in Admitted
      BY <2>2
    <3>2. (IF wake = "scan" THEN scan.slots ELSE slotsLocked) = policy.slots
      BY <1>0, <3>1, AdmittedReads
    <3> QED
      BY <1>0, <3>1, <3>2, AdmittedFits
  <2> QED
    BY <2>1, <2>2
<1>3. ASSUME policy.slots > 0, wake' = "scan"
      PROVE  /\ scan'.slots \in {0, policy.slots}
             /\ scan'.slots = 0 => Queued("XU")' \cup Queued("XB")' = {}
  <2>1. CASE WakeDrain
    <3>1. scan'.slots = slotsLocked
      BY <2>1 DEF WakeDrain
    <3>2. CASE settings.enabled
      BY <1>3, <3>1, <3>2 DEF slotsLocked
    <3>3. CASE ~settings.enabled
      <4>1. \A r \in Requests : ~Offered(r)
        BY <3>3 DEF Offered, externalOffer, NoOffer
      <4>2. \A r \in Queued("XU") \cup Queued("XB") : phase'[r] # "queued"
        BY <2>1, <4>1 DEF WakeDrain, Queued
      <4>3. \A r \in Requests : phase'[r] = "queued" => phase[r] = "queued"
        BY <1>0, <2>1 DEF WakeDrain, QueueTypeOK
      <4>4. Queued("XU")' \cup Queued("XB")' = {}
        BY <4>2, <4>3 DEF Queued
      <4> QED
        BY <3>1, <3>3, <4>4 DEF slotsLocked
    <3> QED
      BY <3>2, <3>3
  <2>2. ASSUME NEW r \in Requests, WakeHandoff(r)
        PROVE  /\ scan'.slots \in {0, policy.slots}
               /\ scan'.slots = 0 => Queued("XU")' \cup Queued("XB")' = {}
    <3>1. wake = "scan" /\ scan'.slots = scan.slots
      BY <1>0, <2>2 DEF WakeHandoff, IInv, TypeOK, SectionTypeOK
    <3>2. \A q \in Requests : phase'[q] = "queued" => phase[q] = "queued"
      BY <1>0, <2>2 DEF WakeHandoff, QueueTypeOK
    <3>3. Queued("XU")' \subseteq Queued("XU") /\ Queued("XB")' \subseteq Queued("XB")
      BY <3>2 DEF Queued
    <3> QED
      BY <1>3, <3>1, <3>3 DEF SlotsKept
  <2>3. CASE UNCHANGED <<wake, scan>> /\ ~\E r \in Requests : WakeHandoff(r)
    <3>1. Queued("XU")' = Queued("XU") /\ Queued("XB")' = Queued("XB")
      BY <1>0, <1>3, <2>3, LoopAlone
    <3> QED
      BY <1>3, <2>3, <3>1 DEF SlotsKept
  <2> QED
    BY <1>0, <1>3, <2>1, <2>2, <2>3, NextScanStep
<1> QED
  BY <1>1, <1>2, <1>3 DEF SlotsKept

(* An admission of another class, or at a door, finds no interactive waiter. *)
LEMMA AdmittedPasses ==
  ASSUME AInv, SlotsKept, policy.slots > 0, [Next]_vars, NEW r \in Admitted,
         ~(class(r) = "I" /\ AdmittedByWake(r))
  PROVE  Queued("I") = {}
<1>1. r \in Requests /\ (AdmittedAtDoor(r) \/ AdmittedByWake(r)) /\ admitLocked(r, TRUE)
  BY AdmittedHow DEF AInv
<1>2. /\ slotsLocked \in Nat /\ scan.slots \in Nat /\ held \in Nat /\ policy.slots \in Nat
      /\ settings.order \in RankOrders /\ scan.order \in RankOrders /\ scan.from \in 1..4
  BY SlotsType DEF AInv, IInv, TypeOK, LeaseTypeOK, SectionTypeOK, CfgTypeOK, Settings, TargetPolicy
<1>3. class(r) \in Classes /\ "I" \in Classes /\ requestWeight(r) \in 1..MaxWeight
  BY <1>1, ClassType, WeightType DEF Classes
<1>4. (IF wake = "scan" THEN scan.slots ELSE slotsLocked) = policy.slots
  BY AdmittedReads
<1>5. held + 1 <= policy.slots
  <2>1. held' <= policy.slots /\ held' = held + requestWeight(r)
    BY <1>1, <1>4, AdmittedFits, AdmittedUnits
  <2> QED
    BY <1>2, <1>3, <2>1, BoundsAssumption
<1>6. CASE AdmittedAtDoor(r)
  <2>1. eligibleNowLocked(r, slotsLocked) /\ slotsLocked = policy.slots
    BY <1>4, <1>6 DEF AdmittedAtDoor, Unlocked
  <2>2. CASE class(r) = "I"
    BY <2>1, <2>2 DEF eligibleNowLocked, cont, External
  <2>3. CASE class(r) # "I"
    <3>1. ~headAdmissibleLocked("I", slotsLocked)
      BY <1>2, <1>3, <2>1, <2>3, InteractiveFirst DEF eligibleNowLocked, rankClearLocked, AboveNow
    <3> QED
      BY <1>5, <2>1, <3>1 DEF headAdmissibleLocked, External
  <2> QED
    BY <2>2, <2>3
<1>7. CASE AdmittedByWake(r)
  <2>1. wake = "scan" /\ r \in ScanPick /\ scan.slots = policy.slots /\ class(r) # "I"
    BY <1>4, <1>7 DEF AdmittedByWake
  <2>2. scan.from = 1
    BY <2>1 DEF AInv, ScanOK
  <2>3. "I" \in Above(scan.order, class(r)) /\ Rank(scan.order, "I") = 1
    BY <1>2, <1>3, <2>1, InteractiveFirst
  <2>4. pickAdmissibleLocked("I", scan.rr, scan.slots) = {}
    BY <2>1, <2>2, <2>3, ScanPickHow
  <2>5. ~headAdmissibleLocked("I", scan.slots)
    BY <1>2, <1>3, <2>4, AdmissiblePicks
  <2> QED
    BY <1>5, <2>1, <2>5 DEF headAdmissibleLocked, External
<1> QED
  BY <1>1, <1>6, <1>7

(* The units the interactive waiters could take, and their cover: what is free
   and what is being taken back, unless nothing is left to take back. *)
InteractiveWant ==
    LET waiting == Cardinality(Queued("I"))
    IN  IF waiting > policy.slots THEN policy.slots ELSE waiting
Covered ==
    policy.slots > 0 /\ policy.preempt /\ Queued("I") # {} =>
        \/ cancelable \subseteq preempting
        \/ InteractiveWant <= (policy.slots - held) + Cardinality(preempting)

(* Every lease holds a unit at least. *)
LEMMA CountUnits ==
  ASSUME NEW S \in SUBSET Requests
  PROVE  Cardinality(S) <= Units(S)
<1> DEFINE f == [r \in S |-> <<r, 1>>]
<1>1. \A r \in S : <<r, 1>> \in UnitsOf(S)
  <2>1. \A r \in S : requestWeight(r) \in 1..MaxWeight
    BY WeightType
  <2> QED
    BY <2>1, BoundsAssumption DEF UnitsOf
<1>2. f \in [S -> UnitsOf(S)] /\ DOMAIN f = S /\ \A a, b \in S : f[a] = f[b] => a = b
  BY <1>1
<1> HIDE DEF f
<1>3. f \in Injection(S, UnitsOf(S))
  BY <1>2 DEF Injection, IsInjective
<1>4. IsFiniteSet(UnitsOf(S))
  BY UnitsFinite
<1>5. Cardinality(S) <= Cardinality(UnitsOf(S))
  BY <1>3, <1>4, FS_Injection
<1> QED
  BY <1>5 DEF Units, UnitsOf

(* The finite sets of the cover. *)
LEMMA CoverType ==
  ASSUME IInv
  PROVE  /\ IsFiniteSet(preempting) /\ Cardinality(preempting) \in Nat
         /\ IsFiniteSet(cancelable) /\ Cardinality(cancelable) \in Nat
         /\ IsFiniteSet(Queued("I")) /\ Cardinality(Queued("I")) \in Nat
         /\ policy.slots \in Nat /\ held \in Nat /\ InteractiveWant \in Nat
         /\ preempting \subseteq cancelable /\ cancelable \subseteq slotHeld
         /\ slotHeld \subseteq Requests
<1>1. /\ preempting \subseteq cancelable /\ cancelable \subseteq slotHeld
      /\ slotHeld \subseteq Requests /\ Queued("I") \subseteq Requests
  BY DEF IInv, TypeOK, LeaseTypeOK, LeaseOwned, Accounting, Queued
<1>2. /\ IsFiniteSet(preempting) /\ IsFiniteSet(cancelable) /\ IsFiniteSet(Queued("I"))
  BY <1>1, FS_Subset, RequestsAssumption
<1>3. /\ Cardinality(preempting) \in Nat /\ Cardinality(cancelable) \in Nat
      /\ Cardinality(Queued("I")) \in Nat
  BY <1>2, FS_CardinalityType
<1>4. policy.slots \in Nat /\ held \in Nat
  BY DEF IInv, TypeOK, LeaseTypeOK, CfgTypeOK, TargetPolicy
<1> QED
  BY <1>1, <1>2, <1>3, <1>4 DEF InteractiveWant

(* When the evictions make up all that is held, there is nobody left to evict. *)
LEMMA AllEvicted ==
  ASSUME IInv, held <= Cardinality(preempting)
  PROVE  cancelable \subseteq preempting
<1>1. /\ Cardinality(preempting) \in Nat /\ IsFiniteSet(cancelable) /\ Cardinality(cancelable) \in Nat
      /\ preempting \in SUBSET cancelable /\ cancelable \in SUBSET slotHeld
      /\ slotHeld \in SUBSET Requests /\ held \in Nat
  BY CoverType
<1>2. Cardinality(cancelable) <= Units(cancelable) /\ Units(cancelable) <= Units(slotHeld)
  BY <1>1, CountUnits, UnitsMonotone
<1>3. Units(slotHeld) = held
  BY DEF IInv, Accounting
<1>4. Units(cancelable) \in Nat
  <2>1. IsFiniteSet(UnitsOf(cancelable))
    BY <1>1, UnitsFinite
  <2> QED
    BY <2>1, FS_CardinalityType DEF Units, UnitsOf
<1>5. Cardinality(preempting) <= Cardinality(cancelable)
  BY <1>1, FS_Subset
<1>6. Cardinality(cancelable) = Cardinality(preempting)
  BY <1>1, <1>2, <1>3, <1>4, <1>5
<1> QED
  BY <1>1, <1>6, FS_Subset

(* Fewer waiters want no more. *)
LEMMA WantShrinks ==
  ASSUME IInv, IInv', policy' = policy, Queued("I")' \subseteq Queued("I")
  PROVE  InteractiveWant' <= InteractiveWant
<1>1. PICK n, m : n = Cardinality(Queued("I")) /\ m = Cardinality(Queued("I"))'
  OBVIOUS
<1>2. n \in Nat /\ policy.slots \in Nat /\ IsFiniteSet(Queued("I"))
  BY <1>1, CoverType
<1>3. m = Cardinality(Queued("I")')
  BY <1>1
<1>4. m <= n /\ IsFiniteSet(Queued("I")')
  BY <1>1, <1>2, <1>3, FS_Subset
<1>5. m \in Nat
  BY <1>3, <1>4, FS_CardinalityType
<1>6. /\ InteractiveWant = IF n > policy.slots THEN policy.slots ELSE n
      /\ InteractiveWant' = IF m > policy.slots THEN policy.slots ELSE m
  BY <1>1 DEF InteractiveWant
<1> QED
  BY <1>2, <1>4, <1>5, <1>6

(* The end of a lease: an evicted one was counted, another one is a gain. *)
LEMMA FinishCovers ==
  ASSUME IInv, IInv', Covered, policy' = policy, NEW r \in inflight, finishLocked(r),
         Queued("I")' \subseteq Queued("I")
  PROVE  Covered'
<1> SUFFICES ASSUME policy.slots > 0, policy.preempt, Queued("I")' # {}
             PROVE  \/ cancelable' \subseteq preempting'
                    \/ InteractiveWant' <= (policy'.slots - held') + Cardinality(preempting')
  BY DEF Covered
<1>1. InteractiveWant' <= InteractiveWant
  BY WantShrinks
<1>2. /\ IsFiniteSet(preempting) /\ Cardinality(preempting) \in Nat /\ InteractiveWant \in Nat
      /\ policy.slots \in Nat /\ held \in Nat /\ preempting \subseteq cancelable
      /\ cancelable \subseteq slotHeld /\ slotHeld \subseteq Requests
  BY CoverType
<1>3. /\ cancelable' = cancelable \ {r} /\ preempting' = preempting \ {r}
      /\ held' = IF r \in slotHeld THEN held - requestWeight(r) ELSE held
  BY DEF finishLocked
<1>4. CASE cancelable \subseteq preempting
  BY <1>3, <1>4
<1>5. CASE InteractiveWant <= (policy.slots - held) + Cardinality(preempting)
  <2>0. InteractiveWant' \in Nat
    <3>1. (InteractiveWant \in Nat)'
      BY CoverType, PTL
    <3> QED
      BY <3>1
  <2>1. CASE r \in preempting
    <3>1. r \in Requests /\ class(r) = "B"
      BY <1>2, <2>1 DEF IInv, Accounting
    <3>2. requestWeight(r) = 1
      BY <3>1, InHouseWeight DEF External
    <3>3. held' = held - 1
      BY <1>2, <1>3, <2>1, <3>2
    <3>4. Cardinality(preempting') = Cardinality(preempting) - 1
      BY <1>2, <1>3, <2>1, FS_RemoveElement
    <3> QED
      BY <1>1, <1>2, <1>5, <2>0, <3>3, <3>4
  <2>2. CASE r \notin preempting
    <3>1. preempting' = preempting
      BY <1>3, <2>2
    <3>2. held' <= held /\ held' \in Nat
      <4>1. r \in slotHeld => requestWeight(r) \in Nat
        BY <1>2, WeightType, BoundsAssumption
      <4>2. held' \in Nat
        BY DEF IInv, TypeOK, LeaseTypeOK
      <4> QED
        BY <1>2, <1>3, <4>1, <4>2
    <3>3. Cardinality(preempting') = Cardinality(preempting)
      BY <3>1
    <3> QED
      BY <1>1, <1>2, <1>5, <2>0, <3>2, <3>3
  <2> QED
    BY <2>1, <2>2
<1>6. Queued("I") # {}
  OBVIOUS
<1> QED
  BY <1>4, <1>5, <1>6 DEF Covered

(* A handoff to an interactive waiter: it is counted out where it takes its unit. *)
LEMMA HandoffCovers ==
  ASSUME IInv, Covered, policy' = policy, NEW r \in Queued("I"), admitLocked(r, TRUE),
         Queued("I")' \subseteq Queued("I") \ {r}
  PROVE  Covered'
<1> SUFFICES ASSUME policy.slots > 0, policy.preempt
             PROVE  \/ cancelable' \subseteq preempting'
                    \/ InteractiveWant' <= (policy'.slots - held') + Cardinality(preempting')
  BY DEF Covered
<1>1. /\ IsFiniteSet(Queued("I")) /\ Cardinality(Queued("I")) \in Nat
      /\ Cardinality(preempting) \in Nat /\ policy.slots \in Nat /\ held \in Nat
  BY CoverType
<1>2. r \in Requests /\ class(r) = "I" /\ requestWeight(r) = 1
  BY InHouseWeight DEF Queued, External
<1>3. cancelable' = cancelable /\ preempting' = preempting /\ held' = held + 1
  BY <1>2 DEF admitLocked
<1>4. PICK n, m : n = Cardinality(Queued("I")) /\ m = Cardinality(Queued("I"))'
  OBVIOUS
<1>5. m <= n - 1 /\ n \in Nat /\ m \in Nat
  <2>1. m = Cardinality(Queued("I")')
    BY <1>4
  <2>2. IsFiniteSet(Queued("I") \ {r}) /\ Cardinality(Queued("I") \ {r}) = n - 1
    BY <1>1, <1>4, FS_RemoveElement
  <2>3. IsFiniteSet(Queued("I")') /\ Cardinality(Queued("I")') <= Cardinality(Queued("I") \ {r})
    BY <2>2, FS_Subset
  <2> QED
    BY <1>1, <1>4, <2>1, <2>2, <2>3, FS_CardinalityType
<1>6. /\ InteractiveWant = IF n > policy.slots THEN policy.slots ELSE n
      /\ InteractiveWant' = IF m > policy.slots THEN policy.slots ELSE m
  BY <1>4 DEF InteractiveWant
<1>7. CASE cancelable \subseteq preempting
  BY <1>3, <1>7
<1>8. CASE InteractiveWant <= (policy.slots - held) + Cardinality(preempting)
  <2>1. CASE n > policy.slots
    <3>1. held <= Cardinality(preempting)
      BY <1>1, <1>5, <1>6, <1>8, <2>1
    <3> QED
      BY <1>3, <3>1, AllEvicted
  <2>2. CASE ~(n > policy.slots)
    <3>1. Cardinality(preempting') = Cardinality(preempting)
      BY <1>3
    <3> QED
      BY <1>1, <1>3, <1>5, <1>6, <1>8, <2>2, <3>1
  <2> QED
    BY <2>1, <2>2
<1> QED
  BY <1>7, <1>8 DEF Covered

(* A waiter that joins cancels what is missing for all of them. *)
LEMMA JoinCovers ==
  ASSUME IInv, IInv', OlderOrder, SlotsKept, policy' = policy, NEW r \in Requests,
         r \notin Queued("I"), Queued("I")' = Queued("I") \cup {r},
         slotsLocked > 0, maybePreemptLocked(slotsLocked), UNCHANGED slotVars
  PROVE  Covered'
<1> SUFFICES ASSUME policy.preempt
             PROVE  \/ cancelable' \subseteq preempting'
                    \/ InteractiveWant' <= (policy'.slots - held') + Cardinality(preempting')
  BY DEF Covered
<1>1. /\ IsFiniteSet(Queued("I")) /\ Cardinality(Queued("I")) \in Nat
      /\ IsFiniteSet(preempting) /\ IsFiniteSet(cancelable)
      /\ Cardinality(preempting) \in Nat /\ policy.slots \in Nat /\ held \in Nat
      /\ preempting \subseteq cancelable
  BY CoverType
<1>2. slotsLocked = policy.slots
  BY DEF slotsLocked
<1>3. cancelable' = cancelable /\ held' = held
  BY DEF slotVars
<1>4. held <= policy.slots
  BY <1>2 DEF SlotsKept
<1>5. PICK n, want : /\ n = Cardinality(Queued("I")) + 1
                     /\ want = IF n > policy.slots THEN policy.slots ELSE n
  OBVIOUS
<1>6. InteractiveWant' = want
  <2>1. Cardinality(Queued("I"))' = n
    BY <1>1, <1>5, FS_AddElement
  <2> QED
    BY <1>5, <2>1 DEF InteractiveWant
<1>7. PICK need : need = want - (policy.slots - held) - Cardinality(preempting)
  OBVIOUS
<1>8. want \in Nat /\ need \in Int
  BY <1>1, <1>5, <1>7
<1>9. (IF policy.slots > held THEN policy.slots - held ELSE 0) = policy.slots - held
  BY <1>1, <1>4
<1>10. preempting' = preempting \cup pickVictimsLocked(need)
  BY <1>2, <1>5, <1>7, <1>9 DEF maybePreemptLocked
<1>11. PICK V : V = pickVictimsLocked(need)
  OBVIOUS
<1>12. V \subseteq cancelable \ preempting
  BY <1>11 DEF pickVictimsLocked
<1>13. CASE V = cancelable \ preempting
  BY <1>3, <1>10, <1>11, <1>13
<1>14. CASE V # cancelable \ preempting
  <2>1. Cardinality(V) >= need
    BY <1>8, <1>11, <1>14, VictimsEnough
  <2>2. IsFiniteSet(V) /\ preempting \cap V = {}
    BY <1>1, <1>12, FS_Subset
  <2>3. Cardinality(V) \in Nat
    BY <2>2, FS_CardinalityType
  <2>4. Cardinality(preempting \cup V) = Cardinality(preempting) + Cardinality(V)
    <3>1. Cardinality(preempting \cup V) =
            Cardinality(preempting) + Cardinality(V) - Cardinality(preempting \cap V)
      BY <1>1, <2>2, FS_Union
    <3>2. Cardinality(preempting \cap V) = 0
      BY <2>2, FS_EmptySet
    <3>3. Cardinality(preempting \cup V) = Cardinality(preempting) + Cardinality(V) - 0
      BY <3>1, <3>2, Zenon
    <3> QED
      BY <1>1, <2>3, <3>3
  <2>5. Cardinality(preempting') = Cardinality(preempting) + Cardinality(V)
    BY <1>10, <1>11, <2>4
  <2> QED
    BY <1>1, <1>3, <1>6, <1>7, <1>8, <2>1, <2>3, <2>5
<1> QED
  BY <1>13, <1>14

(* Every step keeps the cover. *)
LEMMA CoveredStays ==
  ASSUME SamePolicy, AInv, IInv', OlderOrder, SlotsKept, Covered, [Next]_vars
  PROVE  Covered'
<1>0. /\ IInv /\ QueueTypeOK
  BY DEF AInv, IInv, TypeOK
<1>1. policy' = policy
  BY PolicyStays DEF SlotsKept
<1>2. ASSUME NEW r \in Requests, class(r) = "I", phase[r] # "queued", phase'[r] = "queued"
      PROVE  Covered'
  <2>1. PICK now : EnqueueInHouse(r, now)
    <3>1. PICK now : EnqueueInHouse(r, now) \/ EnqueueExternal(r, now)
      BY <1>0, <1>2, JoinsHow
    <3> QED
      BY <1>2, <3>1 DEF EnqueueExternal, External
  <2>2. /\ slotsLocked > 0 /\ maybePreemptLocked(slotsLocked) /\ UNCHANGED slotVars /\ Push(r)
    BY <1>2, <2>1 DEF EnqueueInHouse, Managed, External
  <2>3. \A q \in Requests : phase'[q] = "queued" <=> phase[q] = "queued" \/ q = r
    BY <1>0, <2>2 DEF Push, QueueTypeOK
  <2>4. r \notin Queued("I") /\ Queued("I")' = Queued("I") \cup {r}
    BY <1>2, <2>3 DEF Queued
  <2> QED
    BY <1>0, <1>1, <2>2, <2>4, JoinCovers
<1>3. ASSUME ~\E r \in Requests : class(r) = "I" /\ phase[r] # "queued" /\ phase'[r] = "queued"
      PROVE  Covered'
  <2>1. Queued("I")' \subseteq Queued("I")
    BY <1>3 DEF Queued
  <2>2. CASE \E r \in inflight : finishLocked(r)
    BY <1>0, <1>1, <2>1, <2>2, FinishCovers
  <2>3. CASE UNCHANGED slotVars /\ preempting' = preempting
    <3>1. InteractiveWant' <= InteractiveWant
      BY <1>0, <1>1, <2>1, WantShrinks
    <3>2. /\ InteractiveWant \in Nat /\ policy.slots \in Nat /\ held \in Nat
          /\ Cardinality(preempting) \in Nat
      BY <1>0, CoverType
    <3>3. (InteractiveWant \in Nat)'
      BY CoverType, PTL
    <3>4. cancelable' = cancelable /\ held' = held /\ Cardinality(preempting') = Cardinality(preempting)
      BY <2>3 DEF slotVars
    <3>5. \/ cancelable \subseteq preempting
          \/ InteractiveWant <= (policy.slots - held) + Cardinality(preempting) =>
             InteractiveWant' <= (policy.slots - held') + Cardinality(preempting')
      BY <3>1, <3>2, <3>3, <3>4
    <3> QED
      BY <1>1, <2>1, <2>3, <3>4, <3>5 DEF Covered
  <2>4. ASSUME NEW r \in Admitted PROVE Covered'
    <3>1. r \in Requests /\ admitLocked(r, TRUE)
      BY <1>0, <2>4, AdmittedHow
    <3>2. CASE ~(policy.slots > 0)
      BY <1>1, <3>2 DEF Covered
    <3>3. CASE policy.slots > 0 /\ ~(class(r) = "I" /\ AdmittedByWake(r))
      <4>1. Queued("I") = {}
        BY <2>4, <3>3, AdmittedPasses
      <4> QED
        BY <2>1, <4>1 DEF Covered
    <3>4. CASE class(r) = "I" /\ AdmittedByWake(r)
      <4>1. r \in Queued("I")
        BY <3>1, <3>4, ScanPickHow DEF AdmittedByWake, Queued
      <4>2. r \in inflight'
        BY <3>1 DEF admitLocked
      <4>3. phase'[r] # "queued"
        BY <4>2 DEF IInv, LeaseOwned
      <4>4. Queued("I")' \subseteq Queued("I") \ {r}
        BY <2>1, <4>3 DEF Queued
      <4> QED
        BY <1>0, <1>1, <3>1, <4>1, <4>4, HandoffCovers
    <3> QED
      BY <3>2, <3>3, <3>4
  <2> QED
    BY <1>0, <1>3, <2>2, <2>3, <2>4, LeaseStep
<1> QED
  BY <1>2, <1>3

(* The cover holds in the empty house. *)
LEMMA InitCover == Init => OlderOrder /\ SlotsKept /\ Covered
<1> SUFFICES ASSUME Init PROVE OlderOrder /\ SlotsKept /\ Covered
  OBVIOUS
<1>1. OlderOrder
  BY DEF Init, OlderOrder
<1>2. policy \in PolicySet /\ held = 0 /\ wake = "no"
  BY DEF Init
<1>3. policy.slots \in Nat
  BY <1>2, PolicyAssumption DEF TargetPolicy
<1>4. SlotsKept
  BY <1>2, <1>3 DEF SlotsKept
<1>5. Queued("I") = {}
  BY DEF Init, Queued
<1> QED
  BY <1>1, <1>4, <1>5 DEF Covered

(* What preemption promises, for every number of callers, slots and units: on a
   preempting target whose policy stays, at every moment at which an interactive
   acquire waits, the units that are free and those being taken back serve every
   interactive waiter the target could serve, or every background lease is in
   eviction, however arrivals, evictions, releases and handoffs interleave and
   however often the layer is switched off and on. *)
THEOREM PreemptionCovers == SamePolicy => (Spec => []PreemptCovers)
<1> SUFFICES ASSUME SamePolicy PROVE Spec => []PreemptCovers
  OBVIOUS
<1>1. CInv /\ OlderOrder /\ SlotsKept /\ Covered /\ [Next]_vars /\ CInv' =>
         (OlderOrder /\ SlotsKept /\ Covered)'
  <2> SUFFICES ASSUME CInv, OlderOrder, SlotsKept, Covered, [Next]_vars, CInv'
               PROVE  OlderOrder' /\ SlotsKept' /\ Covered'
    OBVIOUS
  <2>1. AInv /\ IInv /\ IInv'
    BY DEF CInv, AInv
  <2> QED
    BY <2>1, OlderStays, SlotsKeptStays, CoveredStays
<1>2. CInv /\ Covered => PreemptCovers
  <2> SUFFICES ASSUME CInv, Covered, Settled, settings.enabled, policy.preempt,
                      Cardinality(Queued("I")) > 0
               PROVE  \/ cancelable \subseteq preempting
                      \/ InteractiveWant <= (policy.slots - held) + Cardinality(preempting)
    BY DEF PreemptCovers, InteractiveWant
  <2>1. Queued("I") # {}
    BY FS_EmptySet
  <2>2. policy.slots > 0
    <3>1. WorkConserving /\ policy.slots \in Nat
      BY DEF CInv, AInv, IInv, TypeOK, CfgTypeOK, TargetPolicy, Conserved, NobodyLeft,
             WorkConserving, Settled, Unlocked
    <3>2. slotsLocked = policy.slots
      BY DEF slotsLocked
    <3> QED
      BY <2>1, <3>1, <3>2 DEF WorkConserving
  <2> QED
    BY <2>1, <2>2 DEF Covered
<1> QED
  BY <1>1, <1>2, InitCover, ConservationInvariance, PTL DEF Spec
=============================================================================
