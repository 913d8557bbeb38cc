----------------------------- MODULE Dispatcher -----------------------------
(***************************************************************************)
(* The admission layer of ctxd (internal/dispatch) on one target: the two  *)
(* admission doors Acquire and TryAcquire, the wait queues of the four     *)
(* classes, direct handoff on every lease end, preemption of background    *)
(* leases, the aging escape, the reaper, the herald count and the hot      *)
(* swaps of settings and policy.                                           *)
(*                                                                         *)
(* Every operation runs under one mutex.  An operation whose section ends  *)
(* in the wake loop keeps the mutex over several steps (wake, reaping,     *)
(* rewake): one step per loop iteration, because the loop re-reads the     *)
(* herald count, the settings and the policy, which other goroutines store *)
(* without the mutex.                                                      *)
(*                                                                         *)
(* Time is abstracted to the facts the code derives from it: a waiter is   *)
(* old (aged past its threshold), a lease is late (past its reap           *)
(* deadline), the slot time of a consumer is a rank that only an event of  *)
(* the fairness order may change.                                          *)
(***************************************************************************)
EXTENDS DispatchPolicy, FiniteSetsExt

CONSTANTS
    Requests,        \* callers of the doors; each has one request at a time
    Asked,           \* Request.Class
    Principal,       \* what the request context resolves to
    Weight,          \* Request.Weight, 0 reads as 1
    Continuation,    \* Request.Continuation
    FairWeight,      \* fair weight per consumer
    PolicySet,       \* the target policies a reload may store
    SettingsSet,     \* the settings a reload may store
    MaxDemand,       \* bound of the herald count
    MaxWeight,       \* bound of the request weights
    MaxPassed,       \* saturation of the turnover count, at least every capacity
    MaxSlotTime,     \* bound of the slot-time ranks
    Overrunning,     \* callers whose lease may outlive its reap deadline
    WarmWindow       \* the lease-duration window is warm: heads age by time

(* What the proofs ask of the parameters; the last three say that a policy and a
   settings row are the records the code decodes, the internal partition R of a
   policy valid against its slots or absent (partitionViolation). *)
ASSUME RequestsAssumption ==
    /\ IsFiniteSet(Requests) /\ Overrunning \subseteq Requests
    /\ Asked \in [Requests -> Classes]
    /\ Weight \in [Requests -> 0..MaxWeight]
    /\ Continuation \in [Requests -> BOOLEAN]
ASSUME BoundsAssumption ==
    /\ MaxWeight \in Nat \ {0} /\ MaxDemand \in Nat
    /\ MaxPassed \in Nat /\ MaxSlotTime \in Nat
ASSUME PolicyAssumption == \A p \in PolicySet : p \in TargetPolicy
ASSUME PartitionAssumption ==
    \A p \in PolicySet : p.reserved = 0 \/ p.reserved < p.slots
ASSUME SettingsAssumption ==
    \A s \in SettingsSet : resolvedSettings(s) \in Settings

VARIABLES
    settings, policy,  \* the two atomic pointers
    swapped,           \* a store (or demand -> 0) whose wakeAll is still to come
    demand,            \* interactive requests in the house
    phase,             \* where each caller is in its door
    ahead,             \* the waiters of its class with a smaller arrival seq
    passed,            \* units admitted past a waiting external head, saturated
    old, viewOld,      \* waiters past their aging threshold: now, and as of the view
    slotTime,          \* slot-time ranks of consumers and tenants, as of the view
    inflight,          \* registry of all leases
    slotHeld,          \* the leases that hold units
    held, heldExt, classHeld,
    cancelable, extCancel,   \* the leases whose cancel func is registered
    older,             \* background leases admitted before a background lease
    preempting,        \* victims whose release is outstanding
    cause,             \* cancel cause of a caller's run context
    late,              \* leases past their reap deadline
    wake, scan,        \* the wake loop of the section holding the mutex
    reaping, rewake    \* the rest of a reaper pass

cfgVars == <<settings, policy, swapped, demand>>
queueVars == <<phase, ahead, passed, old, viewOld, slotTime>>
slotVars == <<slotHeld, held, heldExt, classHeld, cancelable, extCancel, older>>
leaseVars == <<inflight, slotVars, preempting, cause, late>>
sectionVars == <<wake, scan, reaping, rewake>>
vars == <<cfgVars, queueVars, leaseVars, sectionVars>>

NoScan == [slots |-> 0, order |-> o1, rr |-> FALSE, from |-> 1]
Unlocked == wake = "no" /\ reaping = {} /\ ~rewake

-----------------------------------------------------------------------------
(* Requests and principals. *)

(* B8: an interactive request whose context carries no API key is served as
   background. *)
class(r) == IF Asked[r] = "I" /\ Principal[r].key = "" THEN "B" ELSE Asked[r]

refusePrincipal(r) ==
    LET p == Principal[r]
    IN  \/ p.conflict
        \/ p.consumer # "" /\ ~External(Asked[r])
        \/ External(Asked[r]) /\ (p.consumer = "" \/ p.key # "" \/ p.tenant = "")

requestWeight(r) == IF ~External(class(r)) \/ Weight[r] = 0 THEN 1 ELSE Weight[r]
cont(r) == Continuation[r] /\ External(class(r))

fairKey(p) == IF p.scope # "" THEN p.scope ELSE p.key
bucketKey(r) ==
    IF External(class(r)) THEN Principal[r].consumer ELSE fairKey(Principal[r])
capKey(r) == IF External(class(r)) THEN Principal[r].consumer ELSE Principal[r].key

Consumers == {Principal[r].consumer : r \in {q \in Requests : External(Asked[q])}}
Tenants == {Principal[r].tenant : r \in {q \in Requests : External(Asked[q])}}
tenantOf(c) == Principal[CHOOSE r \in Requests : Principal[r].consumer = c].tenant

(* The weight of a set of requests, counted as their slot units. *)
Units(S) == Cardinality({u \in S \X (1..MaxWeight) : u[2] <= requestWeight(u[1])})

-----------------------------------------------------------------------------
(* Queues.  A class queue is the set of its waiters with their arrival order;
   a bucket is the part of one principal, a continuation stands before every
   bucket. *)

Queued(c) == {r \in Requests : phase[r] = "queued" /\ class(r) = c}
Conts(c) == {r \in Queued(c) : cont(r)}
Bucket(c, k) == {r \in Queued(c) \ Conts(c) : bucketKey(r) = k}
(* Mutant: the queue is served from its tail. *)
FirstArrived_Last(S) == {r \in S : S \ {r} \subseteq ahead[r]}
FirstArrived(S) == {r \in S : ahead[r] \cap S = {}}
Heads(c) == {r \in Queued(c) \ Conts(c) : ahead[r] \cap Bucket(c, bucketKey(r)) = {}}

(* Weight of the head the freed units serve first: the oldest continuation,
   else the lightest bucket head. *)
headMinWeight(c) ==
    LET S == IF Conts(c) # {} THEN FirstArrived(Conts(c)) ELSE Heads(c)
    IN  Min({requestWeight(r) : r \in S})

(* Mutant: the caps are checked against the queue after the push. *)
capLadder_OffByOne(r, caps) ==
    caps.total > 0 => Cardinality(Queued(class(r))) <= caps.total

capLadder(r, caps) ==
    LET q == Queued(class(r))
        ten == Principal[r].tenant
    IN  /\ caps.principal > 0 =>
              Cardinality({x \in q : capKey(x) = capKey(r)}) < caps.principal
        /\ caps.tenant > 0 /\ ten # "" =>
              Cardinality({x \in q : Principal[x].tenant = ten}) < caps.tenant
        /\ caps.total > 0 => Cardinality(q) < caps.total

-----------------------------------------------------------------------------
(* Policy reads. *)

slotsLocked == IF settings.enabled THEN policy.slots ELSE 0
externalOffer == IF settings.enabled THEN externalCapacity(policy) ELSE NoOffer
AboveNow(c) == Above(settings.order, c)

(* Units free for w more, under the slots and under the external capacity
   (each absent at 0). *)
(* Mutant: one unit too many. *)
externalFits_OffByOne(w, slots, capacity) ==
    /\ slots <= 0 \/ held + w <= slots + 1
    /\ capacity = 0 \/ heldExt + w <= capacity + 1

externalFits(w, slots, capacity) ==
    /\ slots <= 0 \/ held + w <= slots
    /\ capacity = 0 \/ heldExt + w <= capacity

externalAdmissibleLocked(w, slots) ==
    externalOffer.offered /\ externalFits(w, slots, externalOffer.capacity)

-----------------------------------------------------------------------------
(* The fairness order of the external classes: not over its share first, then
   the tenant's slot time, aged heads, the consumer's slot time, arrival. *)

heldBy(k) == Units({r \in slotHeld : External(class(r)) /\ Principal[r].consumer = k})
tenantHeld(t) == Units({r \in slotHeld : External(class(r)) /\ Principal[r].tenant = t})
activeConsumers ==
    {Principal[r].consumer :
        r \in {x \in Requests : External(class(x)) /\ (phase[x] = "queued" \/ x \in slotHeld)}}
activeTenants == Cardinality({tenantOf(k) : k \in activeConsumers})
fairWeights(S) == FoldSet(LAMBDA k, n : n + FairWeight[k], 0, S)
sumFW(t) == fairWeights({k \in activeConsumers : tenantOf(k) = t})

(* A head whose consumer holds nothing has aged once E units of its class
   went past it, or once it is old on the view clock. *)
aged(h, capacity) ==
    /\ capacity > 0
    /\ heldBy(Principal[h].consumer) = 0
    /\ passed[h] >= capacity \/ h \in viewOld

tenantShare(capacity) ==
    IF capacity > 0 /\ activeTenants > 0 THEN shareOf(capacity, 1, activeTenants) ELSE 0

key(r, isAged, capacity) ==
    LET k == Principal[r].consumer
        t == Principal[r].tenant
        w == requestWeight(r)
        over(share) ==
            CASE share = 0 -> TRUE
              [] share > 0 /\ isAged -> overShare(tenantHeld(t), 1, share)
              [] OTHER -> \/ overShare(heldBy(k), w, shareOf(share, FairWeight[k], sumFW(t)))
                          \/ overShare(tenantHeld(t), w, share)
    IN  <<IF over(tenantShare(capacity)) THEN 1 ELSE 0, slotTime.tenant[t],
          IF isAged THEN 0 ELSE 1, slotTime.consumer[k]>>

less(a, b) == \E i \in 1..4 : a[i] < b[i] /\ \A j \in 1..(i - 1) : a[j] = b[j]

(* The head of S that ranks before every other one; {} when S is empty. *)
FairnessFirst(S, capacity) ==
    LET first(hk) == {h \in S : \A g \in S \ {h} :
                         less(hk[h], hk[g]) \/ (hk[h] = hk[g] /\ h \in ahead[g])}
    IN  first([h \in S |-> key(h, aged(h, capacity), capacity)])

(* The fairness-first bucket head within the policy, whether it fits or not. *)
externalFirst(c, slots, capacity) ==
    FairnessFirst({h \in Heads(c) : /\ slots > 0 => requestWeight(h) <= slots
                                    /\ capacity > 0 => requestWeight(h) <= capacity},
                  capacity)

(* What the classes of S add up to. *)
ClassSum(S, n) ==
    LET of(c) == IF c \in S THEN n[c] ELSE 0 IN of("I") + of("B") + of("XU") + of("XB")

(* The classes ranked above c keep w units out on their own. *)
keptOutLocked(c, w, slots, capacity) ==
    LET ext == {h \in AboveNow(c) : External(h)}
    IN  \/ slots > 0 /\ ClassSum(AboveNow(c), classHeld) + w > slots
        \/ capacity > 0 /\ ClassSum(ext, classHeld) + w > capacity

(* A fairness-first head that does not fit holds its class for itself unless
   the classes above keep it out anyway. *)
(* Mutant: a head that does not fit never holds its class. *)
externalHeadHoldsLocked_Never(c, first, slots, capacity, claim) == FALSE

externalHeadHoldsLocked(c, first, slots, capacity, claim) ==
    /\ ~externalFits(requestWeight(first) + claim, slots, capacity)
    /\ ~keptOutLocked(c, requestWeight(first), slots, capacity)

(* What the head of class h would take; 0 when no head of it is servable. *)
externalNeedLocked(h, slots, capacity) ==
    LET need(first) ==
            Max({0} \cup {IF \/ externalFits(requestWeight(f), slots, capacity)
                             \/ externalHeadHoldsLocked(h, f, slots, capacity, 0)
                          THEN requestWeight(f) ELSE headMinWeight(h) : f \in first})
    IN  IF Conts(h) # {} THEN headMinWeight(h)
        ELSE need(externalFirst(h, slots, capacity))

(* The units waiting heads of higher-ranked external classes claim. *)
externalClaimLocked(c, slots, capacity) ==
    LET claim(need) ==
            ClassSum({h \in DOMAIN need : ~keptOutLocked(h, need[h], slots, capacity)}, need)
    IN  claim([h \in {x \in AboveNow(c) : External(x) /\ Queued(x) # {}} |->
                  externalNeedLocked(h, slots, capacity)])

(* d2: the w units background would take are reserved for a waiting external
   head ranked above it. *)
externalReservedLocked(w, slots) ==
    LET cap == externalOffer.capacity
        reserved(h, need) == /\ need > 0 /\ held + w + need > slots
                             /\ cap = 0 \/ heldExt + need <= cap
                             /\ ~keptOutLocked(h, need, slots, cap)
    IN  /\ slots > 0 /\ externalOffer.offered
        /\ \E h \in AboveNow("B") : /\ External(h) /\ Queued(h) # {}
                                    /\ reserved(h, externalNeedLocked(h, slots, cap))

externalPickLocked(c, slots) ==
    LET cap == externalOffer.capacity
        pick(first, claim) ==
            LET fits(r) == externalFits(requestWeight(r) + claim, slots, cap)
            IN  IF ~externalFits(headMinWeight(c) + claim, slots, cap) THEN {}
                ELSE IF Conts(c) # {} THEN FirstArrived(Conts(c))
                ELSE IF \A f \in first : fits(f) THEN first
                ELSE IF \E f \in first : externalHeadHoldsLocked(c, f, slots, cap, claim) THEN {}
                ELSE FairnessFirst({h \in Heads(c) : fits(h)}, cap)
    IN  IF Queued(c) = {} \/ ~externalOffer.offered THEN {}
        ELSE pick(externalFirst(c, slots, cap), externalClaimLocked(c, slots, cap))

-----------------------------------------------------------------------------
(* The rank scan: admission terms per class, the picked head, the newcomer. *)

(* The external bulk class leaves the units a waiting urgent head claims. *)
externalClaimBlocksLocked(c, w, slots) ==
    LET cap == externalOffer.capacity
        blocks(claim) == claim > 0 /\ ~externalFits(w + claim, slots, cap)
    IN  blocks(externalClaimLocked(c, slots, cap))

backgroundFits(w, slots) == held + w <= slots /\ ~externalReservedLocked(w, slots)

admissibleLocked(c, w, slots) ==
    CASE c = "I" -> held + w <= slots
      [] c = "B" -> backgroundFits(w, slots) /\ demand = 0
      [] External(c) -> /\ externalAdmissibleLocked(w, slots)
                        /\ ~externalClaimBlocksLocked(c, w, slots)

(* The aging escape: the head of the background queue is old and the slot can
   be taken back where the target also serves interactive roles. *)
(* Mutants: the age is not read; an interactive role ends the escape even where
   the slot could be taken back. *)
agingEscapeLocked_Unaged ==
    settings.aging /\ Queued("B") # {} /\ (policy.interactiveRole => policy.preempt)
agingEscapeLocked_NoPreempt ==
    settings.aging /\ FirstArrived(Queued("B")) \cap old # {} /\ ~policy.interactiveRole

agingEscapeLocked ==
    /\ settings.aging
    /\ FirstArrived(Queued("B")) \cap old # {}
    /\ policy.interactiveRole => policy.preempt

backgroundEscapesLocked(slots) == backgroundFits(1, slots) /\ agingEscapeLocked

(* The background head is admissible or escapes; only the herald term differs. *)
backgroundHeadGoes(slots) == backgroundFits(1, slots) /\ (demand = 0 \/ agingEscapeLocked)

(* The head(s) the wake may dequeue for class c; {} is "none".  Under
   principal_rr the interactive pick follows the ring over the buckets. *)
pickAdmissibleLocked(c, rr, slots) ==
    CASE c = "I" -> IF held + 1 > slots THEN {}
                    ELSE IF rr THEN Heads("I") ELSE FirstArrived(Queued("I"))
      [] c = "B" -> IF backgroundHeadGoes(slots) THEN FirstArrived(Queued("B")) ELSE {}
      [] External(c) -> externalPickLocked(c, slots)

headAdmissibleLocked(c, slots) ==
    /\ Queued(c) # {}
    /\ CASE External(c) -> externalPickLocked(c, slots) # {}
         [] c = "B" -> backgroundHeadGoes(slots)
         [] c = "I" -> held + 1 <= slots

(* Mutant: a newcomer looks at its own class only. *)
rankClearLocked_OwnClass(c, slots) == TRUE

rankClearLocked(c, slots) == \A h \in AboveNow(c) : ~headAdmissibleLocked(h, slots)

(* While the fairness-first head holds the class, a newcomer is admitted only
   if it ranks before that head. *)
externalNewcomerBackfillsLocked(r, slots) ==
    LET c == class(r)
        cap == externalOffer.capacity
        backfills(claim) ==
            \A f \in externalFirst(c, slots, cap) :
               externalHeadHoldsLocked(c, f, slots, cap, claim) =>
                  less(key(r, FALSE, cap), key(f, aged(f, cap), cap))
    IN  backfills(externalClaimLocked(c, slots, cap))

(* Inside its class an external newcomer passes only heads of other consumers
   that do not fit. *)
externalEligibleNowLocked(r, slots) ==
    LET c == class(r)
    IN  Queued(c) # {} => /\ Conts(c) = {} /\ Bucket(c, bucketKey(r)) = {}
                          /\ externalPickLocked(c, slots) = {}
                          /\ externalNewcomerBackfillsLocked(r, slots)

(* A newcomer is admitted at once: a continuation as the head of its class,
   an in-house request only into an empty queue. *)
eligibleNowLocked(r, slots) ==
    LET c == class(r)
    IN  /\ admissibleLocked(c, requestWeight(r), slots)
        /\ CASE cont(r) -> Conts(c) = {}
             [] External(c) /\ ~cont(r) -> externalEligibleNowLocked(r, slots)
             [] OTHER -> Queued(c) = {}
        /\ rankClearLocked(c, slots)

(* The target offers the external classes and r fits its capacity at all. *)
Offered(r) ==
    /\ externalOffer.offered
    /\ externalOffer.capacity > 0 => requestWeight(r) <= externalOffer.capacity

(* An admission of class c can change the pick of a waiting external class. *)
admissionMovesExternalLocked(c) ==
    \E h \in Classes : External(h) /\ Queued(h) # {} /\ (External(c) \/ c \in AboveNow(h))

-----------------------------------------------------------------------------
(* Effects shared by the actions. *)

SlotTimes == [consumer : [Consumers -> 0..MaxSlotTime], tenant : [Tenants -> 0..MaxSlotTime]]
Saturated(n) == IF n > MaxPassed THEN MaxPassed ELSE n

(* r leaves the queue of its class. *)
Dequeue(r) == ahead' = [q \in Requests |-> IF q = r THEN {} ELSE ahead[q] \ {r}]

(* r joins it behind everyone of its class. *)
Push(r) ==
    /\ phase' = [phase EXCEPT ![r] = "queued"]
    /\ ahead' = [ahead EXCEPT ![r] = Queued(class(r))]
    /\ UNCHANGED <<passed, old, viewOld, slotTime>>

(* Mutant: the units of a class are booked on admission only. *)
bookClassHeld_AdmitOnly(c, dw) == [classHeld EXCEPT ![c] = IF dw > 0 THEN @ + dw ELSE @]

bookClassHeld(c, dw) == [classHeld EXCEPT ![c] = @ + dw]

(* r becomes a lease, with or without a slot; an external admission moves the
   view of the fairness order and counts against the heads it passes. *)
admitLocked(r, withSlot) ==
    LET w == requestWeight(r)
        ext == withSlot /\ External(class(r))
        bg == withSlot /\ class(r) = "B"
    IN  /\ inflight' = inflight \cup {r}
        /\ slotHeld' = IF withSlot THEN slotHeld \cup {r} ELSE slotHeld
        /\ held' = IF withSlot THEN held + w ELSE held
        /\ classHeld' = IF withSlot THEN bookClassHeld(class(r), w) ELSE classHeld
        /\ heldExt' = IF ext THEN heldExt + w ELSE heldExt
        /\ cancelable' = IF bg THEN cancelable \cup {r} ELSE cancelable
        /\ extCancel' = IF ext THEN extCancel \cup {r} ELSE extCancel
        /\ older' = IF bg THEN [older EXCEPT ![r] = cancelable] ELSE older
        /\ passed' = [q \in Requests |->
              IF q = r THEN 0
              ELSE IF /\ ext /\ phase[q] = "queued" /\ class(q) = class(r)
                      /\ Principal[q].consumer # Principal[r].consumer
              THEN Saturated(passed[q] + w) ELSE passed[q]]
        /\ old' = old \ {r}
        /\ viewOld' = IF ext THEN old \ {r} ELSE viewOld \ {r}
        /\ IF ext THEN slotTime' \in SlotTimes ELSE UNCHANGED slotTime
        /\ Dequeue(r)
        /\ UNCHANGED <<preempting, cause, late>>

(* A lease ends: registry out, units back, then the wake.  The age of the
   waiters of a consumer that holds nothing any more starts over. *)
finishLocked(r) ==
    LET w == requestWeight(r)
        slot == r \in slotHeld
        k == Principal[r].consumer
        zero == /\ r \in extCancel
                /\ \A q \in extCancel \ {r} : Principal[q].consumer # k
        reset == IF zero THEN {q \in Requests : phase[q] = "queued" /\ External(class(q))
                                                /\ Principal[q].consumer = k}
                 ELSE {}
    IN  /\ inflight' = inflight \ {r}
        /\ slotHeld' = slotHeld \ {r}
        /\ held' = IF slot THEN held - w ELSE held
        /\ classHeld' = IF slot THEN bookClassHeld(class(r), -w) ELSE classHeld
        /\ heldExt' = IF slot /\ External(class(r)) THEN heldExt - w ELSE heldExt
        /\ cancelable' = cancelable \ {r}
        /\ extCancel' = extCancel \ {r}
        /\ older' = [q \in Requests |-> IF q = r THEN {} ELSE older[q] \ {r}]
        /\ preempting' = preempting \ {r}
        /\ late' = late \ {r}
        /\ passed' = [q \in Requests |-> IF q \in reset THEN 0 ELSE passed[q]]
        /\ old' = old \ reset
        /\ viewOld' = viewOld \ reset
        /\ wake' = IF slot THEN "drain" ELSE "no"
        /\ UNCHANGED <<ahead, slotTime, scan>>

(* A refusal leaves no unit idle behind an escape-capable background head. *)
yieldToEscapeLocked ==
    /\ Queued("B") # {} /\ backgroundEscapesLocked(slotsLocked)
    /\ wake' = "drain"
    /\ UNCHANGED <<cfgVars, queueVars, leaseVars, scan, reaping, rewake>>

-----------------------------------------------------------------------------
(* The doors. *)

AtDoor(r) == Unlocked /\ phase[r] = "idle" /\ ~refusePrincipal(r)

(* Slots managed for r's class right now, so the rank scan decides. *)
Managed(r) == IF External(class(r)) THEN Offered(r) ELSE slotsLocked > 0

AdmitPassThrough(r) ==
    /\ ~External(class(r)) /\ slotsLocked <= 0
    /\ admitLocked(r, FALSE)
    /\ phase' = [phase EXCEPT ![r] = "running"]
    /\ UNCHANGED <<cfgVars, sectionVars>>

AdmitNow(r, now) ==
    /\ now
    /\ admitLocked(r, TRUE)
    /\ phase' = [phase EXCEPT ![r] = "running"]
    /\ wake' = IF admissionMovesExternalLocked(class(r)) THEN "drain" ELSE "no"
    /\ UNCHANGED <<cfgVars, scan, reaping, rewake>>

(* An interactive waiter that has to wait cancels as many of the youngest
   background leases as units are missing for the waiting interactive
   acquires, the victims already in eviction counted as coming free. *)
pickVictimsLocked(need) ==
    LET cands == cancelable \ preempting
        younger(v) == Cardinality({q \in cands : v \in older[q]})
    IN  {v \in cands : younger(v) < need}

(* Mutant: the acquires that wait already are not counted. *)
maybePreemptLocked_OwnNeed(slots) ==
    LET free == IF slots > held THEN slots - held ELSE 0
        victims == IF policy.preempt
                   THEN pickVictimsLocked(1 - free - Cardinality(preempting)) ELSE {}
    IN  /\ preempting' = preempting \cup victims
        /\ cause' = [q \in Requests |-> IF q \in victims THEN "preempted" ELSE cause[q]]

maybePreemptLocked(slots) ==
    LET waiting == Cardinality(Queued("I")) + 1
        want == IF waiting > slots THEN slots ELSE waiting
        free == IF slots > held THEN slots - held ELSE 0
        victims == IF policy.preempt
                   THEN pickVictimsLocked(want - free - Cardinality(preempting)) ELSE {}
    IN  /\ preempting' = preempting \cup victims
        /\ cause' = [q \in Requests |-> IF q \in victims THEN "preempted" ELSE cause[q]]

EnqueueInHouse(r, now) ==
    /\ ~now /\ ~External(class(r)) /\ Managed(r)
    /\ \/ /\ class(r) = "I" /\ capLadder(r, settings.iCaps)
          /\ maybePreemptLocked(slotsLocked)
       \/ /\ class(r) = "B"
          /\ settings.bMax > 0 => Cardinality(Queued("B")) < settings.bMax
          /\ UNCHANGED <<preempting, cause>>
    /\ Push(r)
    /\ UNCHANGED <<cfgVars, inflight, slotVars, late, sectionVars>>

(* An external enqueue changes the shares, so it ends in a wake; a
   continuation skips the caps and the wait budget. *)
EnqueueExternal(r, now) ==
    /\ ~now /\ External(class(r)) /\ Managed(r)
    /\ cont(r) \/ capLadder(r, settings.xCaps)
    /\ Push(r)
    /\ wake' = "drain"
    /\ UNCHANGED <<cfgVars, leaseVars, scan, reaping, rewake>>

(* A refusal by a cap, or of an external request by its wait budget or the
   prediction (both quantities of time, so any of them may be spent). *)
Refuse(r, now) ==
    /\ ~now /\ Managed(r)
    /\ CASE class(r) = "I" -> ~capLadder(r, settings.iCaps)
         [] class(r) = "B" -> settings.bMax > 0 /\ Cardinality(Queued("B")) >= settings.bMax
         [] OTHER -> ~cont(r)
    /\ yieldToEscapeLocked

Acquire(r, now) ==
    \/ AdmitPassThrough(r) \/ AdmitNow(r, now)
    \/ EnqueueInHouse(r, now) \/ EnqueueExternal(r, now) \/ Refuse(r, now)

(* The non-blocking door; also ErrExternalNotOffered yields here. *)
WouldBlock(r, now) == ~now /\ (External(class(r)) \/ Managed(r)) /\ yieldToEscapeLocked

TryAcquire(r, now) == AdmitPassThrough(r) \/ AdmitNow(r, now) \/ WouldBlock(r, now)

(* Both doors first ask whether r is admitted at once. *)
Door(r) ==
    /\ AtDoor(r)
    /\ \E now \in {Managed(r) /\ eligibleNowLocked(r, slotsLocked)} :
          Acquire(r, now) \/ TryAcquire(r, now)

-----------------------------------------------------------------------------
(* The wake loop, one step per iteration, the mutex held throughout. *)

(* First half: the view moves, the external waiters the target can never
   admit end with ErrExternalNotOffered; slots and rank order are read. *)
WakeDrain ==
    /\ wake = "drain"
    /\ LET gone == {r \in Queued("XU") \cup Queued("XB") : ~Offered(r)}
       IN  /\ phase' = [r \in Requests |-> IF r \in gone THEN "failed" ELSE phase[r]]
           /\ ahead' = [r \in Requests |-> IF r \in gone THEN {} ELSE ahead[r] \ gone]
           /\ passed' = [r \in Requests |-> IF r \in gone THEN 0 ELSE passed[r]]
           /\ old' = old \ gone
           /\ viewOld' = old \ gone
    /\ slotTime' \in SlotTimes
    /\ wake' = "scan"
    /\ scan' = [slots |-> slotsLocked, order |-> settings.order,
               rr |-> settings.rr, from |-> 1]
    /\ UNCHANGED <<cfgVars, leaseVars, reaping, rewake>>

(* Without slots every in-house waiter passes through, interactive first, and
   then each external class in rank order once, never going back; with slots
   every free unit goes to the first class that yields a head. *)
DrainPick == IF Queued("I") # {} THEN FirstArrived(Queued("I")) ELSE FirstArrived(Queued("B"))
PassThroughLeft == scan.slots <= 0 /\ Queued("I") \cup Queued("B") # {}
ScanPick ==
    LET scanned == {c \in Classes : /\ Rank(scan.order, c) >= scan.from
                                    /\ scan.slots > 0 \/ External(c)}
        first(picks) ==
            UNION {picks[c] : c \in {h \in scanned :
                      \A g \in Above(scan.order, h) \cap scanned : picks[g] = {}}}
    IN  IF scan.slots > 0 /\ held >= scan.slots THEN {}
        ELSE first([c \in scanned |-> pickAdmissibleLocked(c, scan.rr, scan.slots)])

(* handoffLocked: the waiter owns a lease before its goroutine runs again. *)
WakeHandoff(r) ==
    /\ wake = "scan"
    /\ IF PassThroughLeft THEN r \in DrainPick /\ admitLocked(r, FALSE)
                          ELSE r \in ScanPick /\ admitLocked(r, TRUE)
    /\ phase' = [phase EXCEPT ![r] = "granted"]
    /\ scan' = [scan EXCEPT !.from = IF scan.slots <= 0 /\ ~PassThroughLeft
                                     THEN Rank(scan.order, class(r)) ELSE 1]
    /\ UNCHANGED <<cfgVars, wake, reaping, rewake>>

(* Mutant: the loop may end before the last admissible head. *)
WakeEnd_Early ==
    /\ wake = "scan" /\ ~PassThroughLeft
    /\ wake' = "no"
    /\ scan' = NoScan
    /\ UNCHANGED <<cfgVars, queueVars, leaseVars, reaping, rewake>>

WakeEnd ==
    /\ wake = "scan" /\ ~PassThroughLeft /\ ScanPick = {}
    /\ wake' = "no"
    /\ scan' = NoScan
    /\ UNCHANGED <<cfgVars, queueVars, leaseVars, reaping, rewake>>

-----------------------------------------------------------------------------
(* A caller waiting in Acquire: handed a lease, ended with an error, its
   context done, its wait budget spent. *)

ReturnLease(r) ==
    /\ phase[r] = "granted"
    /\ phase' = [phase EXCEPT ![r] = "running"]
    /\ UNCHANGED <<cfgVars, ahead, passed, old, viewOld, slotTime, leaseVars, sectionVars>>

ReturnError(r) ==
    /\ phase[r] = "failed"
    /\ phase' = [phase EXCEPT ![r] = "idle"]
    /\ UNCHANGED <<cfgVars, ahead, passed, old, viewOld, slotTime, leaseVars, sectionVars>>

(* Leaving the queue wakes the target for an external waiter only. *)
(* Mutant: no waiter that leaves wakes the target. *)
dropWaiterLocked_NoWake(r) ==
    /\ phase[r] = "queued"
    /\ phase' = [phase EXCEPT ![r] = "idle"]
    /\ Dequeue(r)
    /\ passed' = [passed EXCEPT ![r] = 0]
    /\ old' = old \ {r}
    /\ viewOld' = viewOld \ {r}
    /\ UNCHANGED <<cfgVars, slotTime, leaseVars, sectionVars>>

dropWaiterLocked(r) ==
    /\ phase[r] = "queued"
    /\ phase' = [phase EXCEPT ![r] = "idle"]
    /\ Dequeue(r)
    /\ passed' = [passed EXCEPT ![r] = 0]
    /\ old' = old \ {r}
    /\ viewOld' = viewOld \ {r}
    /\ wake' = IF External(class(r)) THEN "drain" ELSE "no"
    /\ UNCHANGED <<cfgVars, slotTime, leaseVars, scan, reaping, rewake>>

(* The run ends and its lease with it: nothing happens to a lease that the
   reaper or the watchdog has settled before. *)
EndRun(r) ==
    /\ phase' = [phase EXCEPT ![r] = "idle"]
    /\ cause' = [cause EXCEPT ![r] = "none"]
    /\ IF r \in inflight THEN finishLocked(r)
       ELSE UNCHANGED <<ahead, passed, old, viewOld, slotTime, inflight, slotVars,
                        preempting, late, wake, scan>>
    /\ UNCHANGED <<cfgVars, reaping, rewake>>

(* Mutant: a cancelled caller forgets the lease it was handed meanwhile. *)
CtxDone_Forgets(r) ==
    /\ Unlocked
    /\ \/ dropWaiterLocked(r)
       \/ /\ phase[r] = "granted"
          /\ phase' = [phase EXCEPT ![r] = "idle"]
          /\ UNCHANGED <<cfgVars, ahead, passed, old, viewOld, slotTime, leaseVars, sectionVars>>

(* The handoff may have raced the cancel; then the slot is settled. *)
CtxDone(r) == Unlocked /\ (dropWaiterLocked(r) \/ (phase[r] = "granted" /\ EndRun(r)))

ExpireWaiter(r) ==
    Unlocked /\ External(class(r)) /\ ~cont(r) /\ dropWaiterLocked(r)

Release(r) == Unlocked /\ phase[r] = "running" /\ EndRun(r)

-----------------------------------------------------------------------------
(* Reaper and preemption watchdog. *)

(* Mutant: the reaper passes over leases it cannot cancel. *)
ReapNow_CancelableOnly ==
    /\ Unlocked
    /\ late # {} \/ settings.aging
    /\ reaping' = late \cap (cancelable \cup extCancel)
    /\ rewake' = settings.aging
    /\ UNCHANGED <<cfgVars, queueVars, leaseVars, wake, scan>>

ReapNow ==
    /\ Unlocked
    /\ late # {} \/ settings.aging
    /\ reaping' = late
    /\ rewake' = settings.aging
    /\ UNCHANGED <<cfgVars, queueVars, leaseVars, wake, scan>>

(* Mutant: every reaped run is cancelled. *)
ReapLease_CancelsAll(r) ==
    /\ wake = "no" /\ r \in reaping
    /\ cause' = IF cause[r] = "none" THEN [cause EXCEPT ![r] = "reaped"] ELSE cause
    /\ finishLocked(r)
    /\ reaping' = reaping \ {r}
    /\ UNCHANGED <<cfgVars, phase, rewake>>

(* Interactive and pass-through leases leave the registry uncancelled. *)
ReapLease(r) ==
    /\ wake = "no" /\ r \in reaping
    /\ cause' = IF r \in cancelable \cup extCancel /\ cause[r] = "none"
                THEN [cause EXCEPT ![r] = "reaped"] ELSE cause
    /\ finishLocked(r)
    /\ reaping' = reaping \ {r}
    /\ UNCHANGED <<cfgVars, phase, rewake>>

ReapWake ==
    /\ wake = "no" /\ reaping = {} /\ rewake
    /\ rewake' = FALSE
    /\ wake' = "drain"
    /\ UNCHANGED <<cfgVars, queueVars, leaseVars, scan, reaping>>

PreemptWatchdog(r) ==
    /\ Unlocked /\ r \in preempting
    /\ finishLocked(r)
    /\ UNCHANGED <<cfgVars, phase, cause, reaping, rewake>>

-----------------------------------------------------------------------------
(* Stores without the mutex, each followed by wakeAll. *)

InteractiveArrived ==
    /\ demand < MaxDemand
    /\ demand' = demand + 1
    /\ UNCHANGED <<settings, policy, swapped, queueVars, leaseVars, sectionVars>>

(* Mutant: the done function counts again on a second call. *)
InteractiveDone_Repeated ==
    /\ demand' = demand - 1
    /\ swapped' = (swapped \/ demand = 1)
    /\ UNCHANGED <<settings, policy, queueVars, leaseVars, sectionVars>>

InteractiveDone ==
    /\ demand > 0
    /\ demand' = demand - 1
    /\ swapped' = (swapped \/ demand = 1)
    /\ UNCHANGED <<settings, policy, queueVars, leaseVars, sectionVars>>

UpdateSettings(s) ==
    /\ settings' = resolvedSettings(s)
    /\ swapped' = TRUE
    /\ UNCHANGED <<policy, demand, queueVars, leaseVars, sectionVars>>

(* Mutant: the swap does not wake the targets. *)
UpdatePolicy_NoWake(p) ==
    /\ policy' = p
    /\ UNCHANGED <<settings, swapped, demand, queueVars, leaseVars, sectionVars>>

UpdatePolicy(p) ==
    /\ policy' = p
    /\ swapped' = TRUE
    /\ UNCHANGED <<settings, demand, queueVars, leaseVars, sectionVars>>

WakeAll ==
    /\ Unlocked /\ swapped
    /\ swapped' = FALSE
    /\ wake' = "drain"
    /\ UNCHANGED <<settings, policy, demand, queueVars, leaseVars, scan, reaping, rewake>>

-----------------------------------------------------------------------------
(* Time. *)

(* A waiter passes its aging threshold: a background head for the escape, an
   external head only on a warm lease-duration window. *)
Age(r) ==
    /\ phase[r] = "queued" /\ r \notin old
    /\ class(r) = "B" \/ (External(class(r)) /\ WarmWindow)
    /\ old' = old \cup {r}
    /\ UNCHANGED <<cfgVars, phase, ahead, passed, viewOld, slotTime, leaseVars, sectionVars>>

(* A lease passes its reap deadline. *)
PassReapDeadline(r) ==
    /\ r \in (inflight \cap Overrunning) \ late
    /\ late' = late \cup {r}
    /\ UNCHANGED <<cfgVars, queueVars, inflight, slotVars, preempting, cause, sectionVars>>

-----------------------------------------------------------------------------
Init ==
    /\ settings \in {resolvedSettings(s) : s \in SettingsSet}
    /\ policy \in PolicySet
    /\ swapped = FALSE /\ demand = 0
    /\ phase = [r \in Requests |-> "idle"]
    /\ ahead = [r \in Requests |-> {}]
    /\ passed = [r \in Requests |-> 0]
    /\ old = {} /\ viewOld = {}
    /\ slotTime = [consumer |-> [k \in Consumers |-> 0], tenant |-> [t \in Tenants |-> 0]]
    /\ inflight = {} /\ slotHeld = {} /\ held = 0 /\ heldExt = 0
    /\ classHeld = [c \in Classes |-> 0]
    /\ cancelable = {} /\ extCancel = {} /\ preempting = {} /\ late = {}
    /\ older = [r \in Requests |-> {}]
    /\ cause = [r \in Requests |-> "none"]
    /\ wake = "no" /\ scan = NoScan /\ reaping = {} /\ rewake = FALSE

In(p) == {r \in Requests : phase[r] = p}
Section == \/ WakeDrain \/ WakeEnd \/ ReapWake
           \/ \E r \in In("queued") : WakeHandoff(r)
           \/ \E r \in reaping : ReapLease(r)
Swap == \/ InteractiveArrived \/ InteractiveDone \/ WakeAll
        \/ \E s \in SettingsSet : UpdateSettings(s)
        \/ \E p \in PolicySet : UpdatePolicy(p)
Waiter(r) == \/ ReturnLease(r) \/ ReturnError(r) \/ CtxDone(r) \/ ExpireWaiter(r)
Caller == \/ \E r \in In("idle") : Door(r)
          \/ \E r \in In("queued") \cup In("granted") \cup In("failed") : Waiter(r)
          \/ \E r \in In("running") : Release(r)
Timer == \/ \E r \in In("queued") : Age(r)
         \/ \E r \in inflight : PassReapDeadline(r)
         \/ \E r \in preempting : PreemptWatchdog(r)
Next == Section \/ ReapNow \/ Swap \/ Caller \/ Timer

Spec == Init /\ [][Next]_vars

(* Fairness.  A section runs to its unlock (its next step is enabled exactly
   while it holds the mutex, so this is its weak fairness); a caller that was answered returns;
   time passes.  An operation waiting for the mutex gets it although others
   keep taking it (the starvation mode of sync.Mutex), hence SF: the release
   of a caller that does end its run, the ticker of the reaper, the timer
   of the watchdog, the wakeAll after a store.  The doors, a cancelled context
   and the wait budget are not fair: nobody has to call, and no waiter is
   answered by giving up. *)
Fairness ==
    /\ []<>Unlocked \/ []<><<Section>>_vars
    /\ SF_vars(ReapNow) /\ SF_vars(WakeAll)
    /\ \A r \in Requests : WF_vars(ReturnLease(r)) /\ WF_vars(ReturnError(r)) /\ WF_vars(Age(r))
    /\ \A r \in {q \in Requests : class(q) = "B"} : SF_vars(PreemptWatchdog(r))
    /\ \A r \in Overrunning : WF_vars(PassReapDeadline(r))
    /\ \A r \in Requests \ Overrunning : SF_vars(Release(r))

-----------------------------------------------------------------------------
(* Properties. *)

CfgTypeOK ==
    /\ settings \in Settings /\ policy \in TargetPolicy
    /\ swapped \in BOOLEAN /\ demand \in 0..MaxDemand
QueueTypeOK ==
    /\ phase \in [Requests -> {"idle", "queued", "granted", "running", "failed"}]
    /\ ahead \in [Requests -> SUBSET Requests]
    /\ passed \in [Requests -> 0..MaxPassed]
    /\ old \subseteq Requests /\ viewOld \subseteq Requests
    /\ slotTime \in SlotTimes
LeaseTypeOK ==
    /\ inflight \subseteq Requests /\ slotHeld \subseteq Requests
    /\ held \in Nat /\ heldExt \in Nat /\ classHeld \in [Classes -> Nat]
    /\ cancelable \subseteq Requests /\ extCancel \subseteq Requests
    /\ older \in [Requests -> SUBSET Requests]
    /\ preempting \subseteq Requests /\ late \subseteq Requests
    /\ cause \in [Requests -> {"none", "preempted", "reaped"}]
SectionTypeOK ==
    /\ wake \in {"no", "drain", "scan"}
    /\ scan \in [slots : Nat, order : RankOrders, rr : BOOLEAN, from : 1..4]
    /\ reaping \subseteq Requests /\ rewake \in BOOLEAN

(* Every variable keeps its type, the counters never go below zero. *)
TypeOK == CfgTypeOK /\ QueueTypeOK /\ LeaseTypeOK /\ SectionTypeOK

(* The unit counters equal the weight of the leases they count, and the cancel
   registries hold exactly the background and the external slot leases
   (targetState: "classHeld[XU] + classHeld[XB] == heldExt,
   classHeld[background] == len(cancelable)"). *)
Accounting ==
    /\ held = Units(slotHeld)
    /\ heldExt = Units(extCancel)
    /\ \A c \in Classes : classHeld[c] = Units({r \in slotHeld : class(r) = c})
    /\ cancelable = {r \in slotHeld : class(r) = "B"}
    /\ extCancel = {r \in slotHeld : External(class(r))}

(* No slot leaks and no lease is shared: a registered lease has a caller that
   will end it, whatever cancel, handoff, expiry, reaper and watchdog race. *)
LeaseOwned ==
    /\ slotHeld \subseteq inflight /\ preempting \subseteq cancelable
    /\ late \subseteq inflight /\ reaping \subseteq late
    /\ \A r \in inflight : phase[r] \in {"granted", "running"}
    /\ \A r \in inflight : External(class(r)) => r \in slotHeld

(* I-D1 and I-03-3: no interactive run is ever cancelled, an external one only
   by the reaper. *)
CancelCauses ==
    \A r \in Requests : /\ cause[r] = "preempted" => class(r) = "B"
                        /\ cause[r] = "reaped" => class(r) # "I"

(* Settled: no section is running and no swap is waiting for its wakeAll. *)
Settled == Unlocked /\ ~swapped

(* Work conservation: once an operation has released the mutex, no waiter is
   left that the rank scan would admit (the aging escape, which comes with
   time, aside), and no external waiter that never can be. *)
WorkConserving ==
    Settled =>
        /\ \A c \in {"I", "XU", "XB"} : ~headAdmissibleLocked(c, slotsLocked)
        /\ Queued("B") # {} /\ demand = 0 => ~backgroundFits(1, slotsLocked)
        /\ slotsLocked <= 0 => Queued("I") \cup Queued("B") = {}
        /\ \A r \in Queued("XU") \cup Queued("XB") : Offered(r)

(* Preemption covers every interactive waiter it can: while one waits on a
   preempting target, either enough victims are in eviction or no background
   lease is left to cancel. *)
PreemptCovers ==
    LET waiting == Cardinality(Queued("I"))
        want == IF waiting > policy.slots THEN policy.slots ELSE waiting
    IN  Settled /\ settings.enabled /\ policy.preempt /\ waiting > 0 =>
            \/ cancelable \subseteq preempting
            \/ want <= (policy.slots - held) + Cardinality(preempting)

(* The internal partition is really ctx's own: on a target whose policy was
   never swapped, in-house work that could run now (interactive, or background
   without a herald) waits only while in-house leases fill the R reserved
   slots, so no external load and no reservation for an external head
   reaches into them (externalReservedLocked: "Background keeps ... its floor
   R - heldI"). *)
ReserveKept ==
    LET waits == Queued("I") # {} \/ (Queued("B") # {} /\ demand = 0)
    IN  Settled /\ settings.enabled /\ waits => held - heldExt >= policy.reserved

(* Whoever has just joined a queue leaves it within the caps. *)
WithinCaps(r, caps) ==
    LET q == Queued(class(r)) \ Conts(class(r))
    IN  /\ caps.total > 0 => Cardinality(q) <= caps.total
        /\ caps.principal > 0 => Cardinality({x \in q : capKey(x) = capKey(r)}) <= caps.principal
        /\ caps.tenant > 0 /\ Principal[r].tenant # "" =>
              Cardinality({x \in q : Principal[x].tenant = Principal[r].tenant}) <= caps.tenant

(* The admission caps of the queues: nobody joins one beyond the caps in force,
   however the settings are switched; only continuations skip them. *)
QueuesBounded ==
    [][\A r \in Requests : phase[r] # "queued" /\ phase'[r] = "queued" /\ ~cont(r) =>
         CASE class(r) = "I" -> WithinCaps(r, settings.iCaps)'
           [] class(r) \in {"XU", "XB"} -> WithinCaps(r, settings.xCaps)'
           [] class(r) = "B" -> settings.bMax > 0 =>
                                   Cardinality(Queued("B")') <= settings.bMax]_vars

Admitted == slotHeld' \ slotHeld

(* No over-admission: whatever path admits (newcomer, handoff, backfill,
   escape), the units fit the slots the decision read and, for an external
   lease, the external capacity, also while a swap is under way. *)
NoOverAdmission ==
    [][\A r \in Admitted :
          LET slots == IF wake = "scan" THEN scan.slots ELSE slotsLocked
          IN  /\ slots > 0 => held' <= slots
              /\ External(class(r)) =>
                    /\ externalOffer.offered
                    /\ externalOffer.capacity > 0 => heldExt' <= externalOffer.capacity]_vars

(* No priority inversion: no class is given a slot, escape and backfill
   included, while the head of a class ranked above it could take it. *)
NoInversion ==
    [][\A r \in Admitted : ~swapped =>
          \A h \in AboveNow(class(r)) : ~headAdmissibleLocked(h, slotsLocked)]_vars

(* No barging: a slot never goes to a request while an earlier waiter of the
   same class and bucket is still queued. *)
NoBarging ==
    [][\A r \in Admitted : ~cont(r) =>
          \A q \in Bucket(class(r), bucketKey(r)) \ {r} :
             phase[r] = "queued" /\ r \in ahead[q]]_vars

(* The aging escape included, background takes a slot only while no
   interactive acquire waits, and only the escape breaks the herald term. *)
BackgroundYields ==
    [][\A r \in Admitted : class(r) = "B" =>
          Queued("I") = {} /\ (demand = 0 \/ r \in old)]_vars

-----------------------------------------------------------------------------
(* Liveness, under Fairness. *)

(* No unit is lost for good: every lease ends, a hung caller's through the
   reaper and a preempted background run's through the watchdog. *)
LeasesEnd == \A r \in Requests : r \in inflight ~> r \notin inflight

(* An interactive acquire does not wait for ever, whatever the others do. *)
InteractiveAnswered ==
    \A r \in {q \in Requests : class(q) = "I"} : phase[r] = "queued" ~> phase[r] # "queued"

(* The aging escape ends the starvation of background behind the herald. *)
BackgroundAnswered ==
    \A r \in {q \in Requests : class(q) = "B"} : phase[r] = "queued" ~> phase[r] # "queued"

(* No consumer starves inside the external class, its wait budget aside: a
   heavy head is not passed for ever by light ones, and an aged head not by
   consumers with less slot time. *)
ExternalAnswered ==
    \A r \in {q \in Requests : External(class(q)) /\ ~cont(q)} :
        phase[r] = "queued" ~> phase[r] # "queued"
=============================================================================
