--------------------------- MODULE KeyQuotaProofs ---------------------------
(***************************************************************************)
(* Proofs about the meter for every set of requests, estimates, usages and *)
(* limits: the type invariant and the bounds of L1, joined because the     *)
(* bulk count stays a natural number only as long as it is the number of   *)
(* open bulk reservations; the exactness of Retry-After; and what the      *)
(* buckets owe to the history of the charges: the refund rule is exact, no *)
(* refund lets a consumer over its rate, the urgent reserve is kept.       *)
(***************************************************************************)
EXTENDS KeyQuota, FiniteSetTheorems, SequenceTheorems, WellFoundedInduction, TLAPS

BulkOpen == {r \in open : res[r].lane = "bulk"}

(* A charge is made under a limit of at least one. *)
TpmPositive == \A r \in Requests : res[r].tpm >= 1

IInv == TypeOK /\ TpmPositive /\ SlotsBounded

(* The products of the arithmetic stay natural numbers (mulDiv). *)
LEMMA MulDivNat ==
    ASSUME NEW a \in Nat, NEW b \in Nat, NEW c \in Nat \ {0}
    PROVE  mulDiv(a, b, c) \in Nat
<1>1. a * b \in Nat
  OBVIOUS
<1>2. \A p \in Nat : p \div c \in Nat
  OBVIOUS
<1> QED
  BY <1>1, <1>2, WindowAssumption DEF mulDiv, min

(* The cost of a number of units under a positive limit is a time (dim.cost). *)
LEMMA CostNat ==
    ASSUME NEW limit \in Nat \ {0}, NEW n \in Nat
    PROVE  cost(limit, n) \in Nat
BY MulDivNat, WindowAssumption DEF cost, max

(* The lane's view of a positive limit holds at least one unit (newDim). *)
LEMMA ChargeNat ==
    ASSUME NEW l \in LimitsSet, l.TPM >= 1, NEW lane \in Lanes, NEW n \in Nat
    PROVE  Charge(l, lane, n) \in Nat
<1>1. /\ l.TPM \in Nat \ {0} /\ l.XUReserve \in 0..reserveScale
      /\ reserveScale - l.XUReserve \in Nat
  BY LimitsAssumption, WindowAssumption
<1>2. (window * (reserveScale - l.XUReserve)) \div reserveScale \in Nat
  <2>1. window * (reserveScale - l.XUReserve) \in Nat
    BY <1>1, WindowAssumption
  <2>2. \A p \in Nat : p \div reserveScale \in Nat
    BY WindowAssumption
  <2> QED BY <2>1, <2>2
<1>3. cost(l.TPM, 1) \in Nat
  BY <1>1, CostNat
<1>4. \A tol \in Nat : mulDiv(tol, l.TPM, window) \in Nat
  BY <1>1, MulDivNat, WindowAssumption
<1>5. newDim(l.TPM, lane, l.XUReserve).cap \in Nat
  <2>1. CASE lane = "bulk" /\ l.XUReserve > 0
    BY <1>2, <1>3, <1>4, <2>1 DEF newDim, max
  <2>2. CASE ~(lane = "bulk" /\ l.XUReserve > 0)
    BY <1>4, <2>2, WindowAssumption DEF newDim, max
  <2> QED BY <2>1, <2>2
<1> QED
  BY <1>5 DEF Charge, min

(* Raising the shadows changes nothing else of a reservation (raise). *)
LEMMA RaiseType ==
    ASSUME NEW rs \in [Requests -> Reservation], NEW held, NEW c \in Nat, now \in Nat
    PROVE  /\ raise(rs, held, c) \in [Requests -> Reservation]
           /\ \A r \in Requests : /\ raise(rs, held, c)[r].phase = rs[r].phase
                                  /\ raise(rs, held, c)[r].lane = rs[r].lane
                                  /\ raise(rs, held, c)[r].tpm = rs[r].tpm
<1>1. ASSUME NEW r \in Requests
      PROVE  satAdd(max(rs[r].shadow, now), c) \in Nat
  <2>1. rs[r].shadow \in Nat
    BY DEF Reservation
  <2> QED BY <2>1, WindowAssumption DEF satAdd, max, min
<1> QED
  BY <1>1 DEF raise, Reservation

(* A refund is a time and never moves a bucket forward (refund). *)
LEMMA RefundNat ==
    ASSUME NEW tat \in Nat, NEW t \in Nat, NEW from \in Nat, NEW d \in Nat
    PROVE  refund(tat, t, from, d) \in Nat /\ refund(tat, t, from, d) <= max(tat, t)
BY DEF refund, max, min

(* What the end of a reservation does to the others: only their shadows move
   (Meter.end). *)
LEMMA ShadowsType ==
    ASSUME NEW r \in Requests, NEW delta \in Int, NEW held,
           res \in [Requests -> Reservation], now \in Nat
    PROVE  /\ Shadows(r, delta, held) \in [Requests -> Reservation]
           /\ \A o \in Requests : /\ Shadows(r, delta, held)[o].phase = res[o].phase
                                  /\ Shadows(r, delta, held)[o].lane = res[o].lane
                                  /\ Shadows(r, delta, held)[o].tpm = res[o].tpm
<1>1. CASE delta > 0
  BY <1>1, RaiseType DEF Shadows
<1>2. CASE delta < 0
  <2>1. max(res[r].shadow, now) \in Nat /\ -delta \in Nat
    BY <1>2 DEF Reservation, max
  <2>2. \A o \in Requests : refund(res[o].shadow, now, max(res[r].shadow, now), -delta) \in Nat
    BY <2>1, RefundNat DEF Reservation
  <2>3. Shadows(r, delta, held) =
          [o \in Requests |->
             IF delta < 0 /\ o \in held /\ res[o].seq < res[r].seq
             THEN [res[o] EXCEPT !.shadow = refund(@, now, max(res[r].shadow, now), -delta)]
             ELSE res[o]]
    BY <1>2 DEF Shadows
  <2> QED
    BY <2>2, <2>3 DEF Reservation
<1>3. CASE delta = 0
  <2>1. Shadows(r, delta, held) = [o \in Requests |-> res[o]]
    BY <1>3 DEF Shadows
  <2> QED BY <2>1
<1> QED
  BY <1>1, <1>2, <1>3

(* An admission moves a bucket forward to a time that an int64 holds
   (dim.admit). *)
LEMMA AdmitForward ==
    ASSUME NEW limit \in Nat \ {0}, NEW lane, NEW r0, NEW tat \in 0..MaxInt64,
           NEW t \in 0..MaxInt64, NEW n \in Nat,
           admit(newDim(limit, lane, r0), tat, t, n).ok
    PROVE  /\ admit(newDim(limit, lane, r0), tat, t, n).next \in 0..MaxInt64
           /\ admit(newDim(limit, lane, r0), tat, t, n).next - max(tat, t) \in Nat
<1>1. newDim(limit, lane, r0).limit = limit
  BY DEF newDim
<1>2. cost(limit, n) \in Nat
  BY CostNat
<1>3. admit(newDim(limit, lane, r0), tat, t, n).next = satAdd(max(tat, t), cost(limit, n))
  BY <1>1 DEF admit
<1>4. max(tat, t) \in 0..MaxInt64
  BY WindowAssumption DEF max
<1> QED
  BY <1>2, <1>3, <1>4, WindowAssumption DEF satAdd, min

(* The bulk share of a limit is a number (bulkSlots). *)
LEMMA SlotsNat ==
    ASSUME NEW l \in LimitsSet
    PROVE  bulkSlots(l.Concurrency, l.XUReserve) \in Nat
<1>1. l.Concurrency \in Nat /\ l.XUReserve \in Nat /\ reserveScale - l.XUReserve \in Nat
  BY LimitsAssumption, WindowAssumption
<1>2. mulDiv(l.Concurrency, reserveScale - l.XUReserve, reserveScale) \in Nat
  BY <1>1, MulDivNat, WindowAssumption
<1> QED
  BY <1>1, <1>2 DEF bulkSlots, max

(* Both open sets are finite. *)
LEMMA OpenFinite ==
    ASSUME TypeOK
    PROVE  /\ open \subseteq Requests
           /\ IsFiniteSet(open) /\ Cardinality(open) \in Nat
           /\ IsFiniteSet(BulkOpen) /\ Cardinality(BulkOpen) \in Nat
<1>1. open \subseteq Requests /\ BulkOpen \subseteq open
  BY DEF TypeOK, BulkOpen
<1>2. IsFiniteSet(open)
  BY <1>1, RequestAssumption, FS_Subset
<1>3. IsFiniteSet(BulkOpen)
  BY <1>1, <1>2, FS_Subset
<1> QED
  BY <1>1, <1>2, <1>3, FS_CardinalityType

(* The empty meter satisfies the invariant. *)
LEMMA InitInv == Init => IInv
<1> SUFFICES ASSUME Init PROVE IInv
  OBVIOUS
<1>1. NoReservation \in Reservation /\ NoReservation.phase = "none" /\ NoReservation.tpm = 1
  BY DEF NoReservation, Reservation, Lanes
<1>3. \A r \in Requests : res[r] = NoReservation
  BY DEF Init
<1>4. TypeOK
  <2>1. open = {r \in Requests : res[r].phase = "open"}
    BY <1>1, <1>3 DEF Init
  <2>2. res \in [Requests -> Reservation]
    BY <1>1 DEF Init
  <2>3. seeded \in BOOLEAN
    BY DEF Init
  <2>4. now \in 0..MaxTime /\ req \in 0..MaxInt64 /\ tok \in 0..MaxInt64 /\ bulk \in Nat /\ seq \in Nat
    BY WindowAssumption DEF Init
  <2> QED BY <2>1, <2>2, <2>3, <2>4 DEF TypeOK
<1>5. TpmPositive
  BY <1>1, <1>3 DEF TpmPositive
<1>2. {r \in open : res[r].lane = "bulk"} = {} /\ Cardinality({}) = 0
  BY FS_EmptySet DEF Init
<1> QED
  BY <1>2, <1>4, <1>5 DEF Init, IInv, SlotsBounded

(* An admission enters one reservation, within the limits it was made under
   (Meter.Admit, buckets.l1 and buckets.add). *)
LEMMA AdmitInv ==
    ASSUME IInv, NEW r \in Requests, NEW lane \in Lanes, NEW l \in LimitsSet,
           NEW n \in Estimates, Admit(r, lane, l, n)
    PROVE  IInv'
<1> DEFINE charged == cost(l.TPM, Charge(l, lane, n))
           shift == TokAt(l, lane, n, now).next - max(tok, now)
<1>1. /\ TypeOK /\ TpmPositive /\ SlotsBounded /\ n \in Nat
      /\ r \notin open
  BY RequestAssumption DEF IInv, Admit, TypeOK
<1>2. l1(lane, l) /\ valid(l) /\ ReqAt(l, lane, now).ok /\ TokAt(l, lane, n, now).ok
  BY DEF Admit, Decision, Answer
<1>3. l.RPM \in Nat \ {0} /\ l.TPM \in Nat \ {0} /\ l.Concurrency \in Nat
  BY <1>2, LimitsAssumption DEF valid
<1>4. Charge(l, lane, n) \in Nat /\ charged \in Nat
  BY <1>1, <1>3, ChargeNat, CostNat
<1>5. req' \in 0..MaxInt64 /\ tok' \in 0..MaxInt64 /\ shift \in Nat
  <2>1. now \in 0..MaxInt64 /\ req \in 0..MaxInt64 /\ tok \in 0..MaxInt64
    BY <1>1, WindowAssumption DEF TypeOK
  <2>2. ReqAt(l, lane, now).next \in 0..MaxInt64
    BY <1>2, <1>3, <2>1, AdmitForward DEF ReqAt
  <2>3. TokAt(l, lane, n, now).next \in 0..MaxInt64 /\ shift \in Nat
    BY <1>2, <1>3, <1>4, <2>1, AdmitForward DEF TokAt
  <2> QED BY <2>2, <2>3 DEF Admit
<1>6. /\ raise(res, open, shift) \in [Requests -> Reservation]
      /\ \A o \in Requests : /\ raise(res, open, shift)[o].phase = res[o].phase
                             /\ raise(res, open, shift)[o].lane = res[o].lane
                             /\ raise(res, open, shift)[o].tpm = res[o].tpm
  <2>1. now \in Nat /\ res \in [Requests -> Reservation]
    BY <1>1, WindowAssumption DEF TypeOK
  <2>2. shift \in Nat
    BY <1>5
  <2> HIDE DEF shift
  <2> QED BY <2>1, <2>2, RaiseType
<1>7. res' = [raise(res, open, shift) EXCEPT
                ![r] = [phase |-> "open", lane |-> lane, tpm |-> l.TPM,
                        charged |-> charged, shadow |-> now, seq |-> seq + 1]]
  BY DEF Admit
<1>8. /\ res' \in [Requests -> Reservation]
      /\ \A o \in Requests \ {r} : /\ res'[o].phase = res[o].phase
                                    /\ res'[o].lane = res[o].lane
                                    /\ res'[o].tpm = res[o].tpm
      /\ res'[r].phase = "open" /\ res'[r].lane = lane /\ res'[r].tpm = l.TPM
  <2>1. now \in Nat /\ seq + 1 \in Nat
    BY <1>1, WindowAssumption DEF TypeOK
  <2>2. charged \in Nat
    BY <1>4
  <2> HIDE DEF shift, charged
  <2> QED BY <1>3, <1>6, <1>7, <2>1, <2>2 DEF Reservation
<1>9. open' = open \cup {r} /\ seq' = seq + 1 /\ now' = now /\ seeded' = seeded
      /\ bulk' = IF lane = "bulk" THEN bulk + 1 ELSE bulk
  BY DEF Admit
<1>10. open' = {o \in Requests : res'[o].phase = "open"}
  BY <1>1, <1>8, <1>9 DEF TypeOK
<1>11. TypeOK'
  BY <1>1, <1>5, <1>8, <1>9, <1>10 DEF TypeOK
<1>12. TpmPositive'
  BY <1>1, <1>3, <1>8 DEF TpmPositive
<1>13. SlotsBounded'
  <2>1. /\ IsFiniteSet(open) /\ Cardinality(open) \in Nat
        /\ IsFiniteSet(BulkOpen) /\ Cardinality(BulkOpen) \in Nat /\ open \subseteq Requests
    BY <1>1, OpenFinite
  <2>2. Cardinality(open') = Cardinality(open) + 1
    BY <1>1, <1>9, <2>1, FS_AddElement
  <2>3. Cardinality(open') <= l.Concurrency
    BY <1>2, <1>3, <2>1, <2>2 DEF l1
  <2>4. BulkOpen' = IF lane = "bulk" THEN BulkOpen \cup {r} ELSE BulkOpen
    BY <1>1, <1>8, <1>9, <2>1 DEF BulkOpen
  <2>5. r \notin BulkOpen
    BY <1>1 DEF BulkOpen
  <2>6. bulk = Cardinality(BulkOpen)
    BY <1>1 DEF SlotsBounded, BulkOpen
  <2>7. bulk' = Cardinality(BulkOpen')
    BY <1>9, <2>1, <2>4, <2>5, <2>6, FS_AddElement
  <2>8. CASE lane = "bulk"
    <3>1. bulk' <= bulkSlots(l.Concurrency, l.XUReserve)
      BY <1>2, <1>9, <2>1, <2>6, <2>8, SlotsNat DEF l1
    <3> QED BY <2>3, <2>7, <3>1 DEF SlotsBounded, BulkOpen
  <2>9. CASE lane # "bulk"
    <3>1. bulk' = bulk
      BY <1>9, <2>9
    <3> QED BY <1>1, <2>3, <2>7, <3>1 DEF SlotsBounded, BulkOpen
  <2> QED BY <2>8, <2>9
<1> QED
  BY <1>11, <1>12, <1>13 DEF IInv

(* The end of a reservation gives its slot back to its lane, whatever it
   books (Meter.end and buckets.drop). *)
LEMMA EndInv ==
    ASSUME IInv, NEW r \in Requests, NEW delta \in Int, end(r, delta)
    PROVE  IInv'
<1>1. TypeOK /\ TpmPositive /\ SlotsBounded
  BY DEF IInv
<1>2. /\ open' = open \ {r} /\ now' = now /\ seeded' = seeded /\ req' = req /\ seq' = seq
      /\ bulk' = IF res[r].lane = "bulk" THEN bulk - 1 ELSE bulk
      /\ r \in open
  BY <1>1 DEF end, drop, TypeOK
<1>3. tok' \in 0..MaxInt64
  <2>1. /\ max(res[r].shadow, now) \in Nat /\ tok \in 0..MaxInt64 /\ now \in 0..MaxInt64
        /\ tok \in Nat /\ now \in Nat /\ max(tok, now) <= MaxInt64
    BY <1>1, WindowAssumption DEF TypeOK, Reservation, max
  <2>2. CASE delta > 0
    BY <2>1, <2>2, WindowAssumption DEF end, satAdd, max, min
  <2>3. CASE delta < 0
    <3>1. -delta \in Nat
      BY <2>3
    <3>2. tok' = refund(tok, now, max(res[r].shadow, now), -delta)
      BY <2>3 DEF end
    <3>3. tok' \in Nat /\ tok' <= max(tok, now)
      BY <2>1, <3>1, <3>2, RefundNat
    <3> QED BY <2>1, <3>3, WindowAssumption DEF max
  <2>4. CASE delta = 0
    BY <2>1, <2>4 DEF end
  <2> QED BY <2>2, <2>3, <2>4
<1>4. /\ Shadows(r, delta, open \ {r}) \in [Requests -> Reservation]
      /\ \A o \in Requests : /\ Shadows(r, delta, open \ {r})[o].phase = res[o].phase
                             /\ Shadows(r, delta, open \ {r})[o].lane = res[o].lane
                             /\ Shadows(r, delta, open \ {r})[o].tpm = res[o].tpm
  BY <1>1, ShadowsType DEF TypeOK
<1>5. res' = [Shadows(r, delta, open \ {r}) EXCEPT ![r] = Ended]
  BY DEF end
<1>6. /\ Ended \in Reservation /\ Ended.phase = "ended" /\ Ended.tpm = 1
  BY DEF Ended, NoReservation, Reservation, Lanes
<1>7. /\ res' \in [Requests -> Reservation]
      /\ \A o \in Requests \ {r} : /\ res'[o].phase = res[o].phase
                                    /\ res'[o].lane = res[o].lane
                                    /\ res'[o].tpm = res[o].tpm
      /\ res'[r].phase = "ended" /\ res'[r].tpm = 1
  BY <1>4, <1>5, <1>6
<1>8. open' = {o \in Requests : res'[o].phase = "open"}
  BY <1>1, <1>2, <1>7 DEF TypeOK
<1>9. TpmPositive'
  BY <1>1, <1>7 DEF TpmPositive
<1>10. /\ IsFiniteSet(open) /\ Cardinality(open) \in Nat
       /\ IsFiniteSet(BulkOpen) /\ Cardinality(BulkOpen) \in Nat /\ open \subseteq Requests
  BY <1>1, OpenFinite
<1>11. bulk = Cardinality(BulkOpen)
  BY <1>1 DEF SlotsBounded, BulkOpen
<1>12. BulkOpen' = BulkOpen \ {r}
  BY <1>2, <1>7, <1>10 DEF BulkOpen
<1>13. bulk' = Cardinality(BulkOpen') /\ bulk' \in Nat /\ bulk' <= bulk
  <2>1. CASE res[r].lane = "bulk"
    <3>1. r \in BulkOpen
      BY <1>2, <2>1 DEF BulkOpen
    <3>2. Cardinality(BulkOpen \ {r}) = Cardinality(BulkOpen) - 1 /\ IsFiniteSet(BulkOpen \ {r})
      BY <1>10, <3>1, FS_RemoveElement
    <3>3. Cardinality(BulkOpen \ {r}) \in Nat
      BY <3>2, FS_CardinalityType
    <3> QED BY <1>2, <1>10, <1>11, <1>12, <2>1, <3>2, <3>3
  <2>2. CASE res[r].lane # "bulk"
    <3>1. BulkOpen \ {r} = BulkOpen
      BY <2>2 DEF BulkOpen
    <3> QED BY <1>2, <1>10, <1>11, <1>12, <2>2, <3>1
  <2> QED BY <2>1, <2>2
<1>14. Cardinality(open') <= Cardinality(open) /\ Cardinality(open') \in Nat
  <2>1. Cardinality(open \ {r}) = Cardinality(open) - 1 /\ IsFiniteSet(open \ {r})
    BY <1>2, <1>10, FS_RemoveElement
  <2> QED BY <1>2, <1>10, <2>1, FS_CardinalityType
<1>15. SlotsBounded'
  <2>1. /\ \E l \in LimitsSet : Cardinality(open) <= l.Concurrency
        /\ bulk = 0 \/ \E l \in LimitsSet : bulk <= bulkSlots(l.Concurrency, l.XUReserve)
    BY <1>1, <1>2 DEF SlotsBounded
  <2>2. \E l \in LimitsSet : Cardinality(open') <= l.Concurrency
    <3>1. PICK l \in LimitsSet : Cardinality(open) <= l.Concurrency
      BY <2>1
    <3>2. l.Concurrency \in Nat
      BY LimitsAssumption
    <3> QED BY <1>10, <1>14, <3>1, <3>2
  <2>3. bulk' = 0 \/ \E l \in LimitsSet : bulk' <= bulkSlots(l.Concurrency, l.XUReserve)
    <3>1. CASE bulk = 0
      BY <1>13, <3>1
    <3>2. CASE \E l \in LimitsSet : bulk <= bulkSlots(l.Concurrency, l.XUReserve)
      <4>1. PICK l \in LimitsSet : bulk <= bulkSlots(l.Concurrency, l.XUReserve)
        BY <3>2
      <4>2. bulkSlots(l.Concurrency, l.XUReserve) \in Nat
        BY SlotsNat
      <4> QED BY <1>10, <1>11, <1>13, <4>1, <4>2
    <3> QED BY <2>1, <3>1, <3>2
  <2> QED BY <1>13, <2>2, <2>3 DEF SlotsBounded, BulkOpen
<1>16. TypeOK'
  BY <1>1, <1>2, <1>3, <1>7, <1>8, <1>13 DEF TypeOK
<1> QED
  BY <1>9, <1>15, <1>16 DEF IInv

(* Every step of the meter preserves the invariant. *)
LEMMA NextInv == IInv /\ [Next]_vars => IInv'
<1> SUFFICES ASSUME IInv, [Next]_vars PROVE IInv'
  OBVIOUS
<1>1. CASE MarkSeeded
  BY <1>1 DEF MarkSeeded, IInv, TypeOK, TpmPositive, SlotsBounded
<1>2. CASE Tick
  BY <1>2, WindowAssumption DEF Tick, IInv, TypeOK, TpmPositive, SlotsBounded
<1>3. ASSUME NEW r \in Requests \ open, NEW lane \in Lanes, NEW l \in LimitsSet,
             NEW n \in Estimates, Admit(r, lane, l, n)
      PROVE  IInv'
  BY <1>3, AdmitInv
<1>4. ASSUME NEW r \in open
      PROVE  r \in Requests /\ res[r].charged \in Nat /\ res[r].tpm \in Nat \ {0}
  BY DEF IInv, TypeOK, TpmPositive, Reservation
<1>5. ASSUME NEW r \in open, NEW u \in Usages, Settle(r, u) PROVE IInv'
  <2>1. cost(res[r].tpm, u) \in Nat
    BY <1>4, <1>5, CostNat, RequestAssumption
  <2>2. cost(res[r].tpm, u) - res[r].charged \in Int
    BY <1>4, <1>5, <2>1
  <2> QED BY <1>4, <1>5, <2>2, EndInv DEF Settle
<1>6. ASSUME NEW r \in open, Keep(r) PROVE IInv'
  BY <1>4, <1>6, EndInv DEF Keep
<1>7. ASSUME NEW r \in open, Abort(r) PROVE IInv'
  <2>1. -res[r].charged \in Int
    BY <1>4, <1>7
  <2> QED BY <1>4, <1>7, <2>1, EndInv DEF Abort
<1>8. CASE UNCHANGED vars
  BY <1>8 DEF vars, IInv, TypeOK, TpmPositive, SlotsBounded
<1> QED
  BY <1>1, <1>2, <1>3, <1>5, <1>6, <1>7, <1>8 DEF Next

(* For every consumer and every limits the settings may hold, the open set is
   the set of reservations Admit entered and no end took out, and all buckets
   and shadows stay times. *)
THEOREM MeterTypeCorrect == Spec => []TypeOK
<1>1. IInv => TypeOK
  BY DEF IInv
<1> QED
  BY <1>1, InitInv, NextInv, PTL DEF Spec

(* L1 for every set of requests: the bulk count is exact, the open requests
   stay within the concurrency limit and the bulk ones within their share. *)
THEOREM ConcurrencyBounded == Spec => []SlotsBounded
<1>1. IInv => SlotsBounded
  BY DEF IInv
<1> QED
  BY <1>1, InitInv, NextInv, PTL DEF Spec

-----------------------------------------------------------------------------
(* Retry-After.  A refusal names the excess over the tolerance, and that is the
   exact wait only if an empty bucket takes the request: its cost fits the
   tolerance of its lane, however the divisions round. *)

(* Integer division rounds down. *)
LEMMA DivBounds ==
    ASSUME NEW a \in Nat, NEW c \in Nat \ {0}
    PROVE  a \div c \in Nat /\ c * (a \div c) <= a
OBVIOUS

(* The quotient of at most c * q is at most q. *)
LEMMA DivAtMost ==
    ASSUME NEW a \in Nat, NEW c \in Nat \ {0}, NEW q \in Nat, a <= c * q
    PROVE  a \div c <= q
<1>1. a \div c \in Nat /\ c * (a \div c) <= a
  BY DivBounds
<1>2. c * (a \div c) <= c * q
  <2>1. c * (a \div c) \in Nat /\ c * q \in Nat
    BY <1>1
  <2> QED BY <1>1, <2>1
<1>3. \A x \in Nat : c * x <= c * q => x <= q
  OBVIOUS
<1> QED
  BY <1>1, <1>2, <1>3

(* One unit costs at most the window (dim.cost). *)
LEMMA UnitCost ==
    ASSUME NEW limit \in Nat \ {0}
    PROVE  cost(limit, 1) \in Nat /\ cost(limit, 1) <= window
<1>1. window <= limit * window
  BY WindowAssumption
<1>2. (1 * window) \div limit <= window
  BY <1>1, DivAtMost, WindowAssumption
<1>3. (1 * window) \div limit \in Nat
  BY DivBounds, WindowAssumption
<1>4. mulDiv(1, window, limit) <= window /\ mulDiv(1, window, limit) \in Nat
  BY <1>2, <1>3, WindowAssumption DEF mulDiv, min
<1> QED
  BY <1>4, WindowAssumption DEF cost, max

(* What a lane sees of a limit: a tolerance between the cost of one unit and the
   window, and the units it holds (newDim). *)
LEMMA DimBounds ==
    ASSUME NEW limit \in Nat \ {0}, NEW lane, NEW r \in 0..reserveScale
    PROVE  LET d == newDim(limit, lane, r)
           IN  /\ d.limit = limit
               /\ d.tol \in Nat /\ cost(limit, 1) <= d.tol /\ d.tol <= window
               /\ d.cap = max(mulDiv(d.tol, limit, window), 1)
<1>1. cost(limit, 1) \in Nat /\ cost(limit, 1) <= window
  BY UnitCost
<1>2. CASE lane = "bulk" /\ r > 0
  <2>1. reserveScale - r \in Nat /\ reserveScale - r <= reserveScale
    BY WindowAssumption
  <2>2. window * (reserveScale - r) \in Nat /\ window * (reserveScale - r) <= reserveScale * window
    BY <2>1, WindowAssumption
  <2>3. PICK s : s = (window * (reserveScale - r)) \div reserveScale
    OBVIOUS
  <2>4. s \in Nat /\ s <= window
    BY <2>2, <2>3, DivBounds, DivAtMost, WindowAssumption
  <2>5. PICK tol : tol = max(s, cost(limit, 1))
    OBVIOUS
  <2>6. newDim(limit, lane, r) =
          [limit |-> limit, tol |-> tol, cap |-> max(mulDiv(tol, limit, window), 1)]
    BY <1>2, <2>3, <2>5 DEF newDim
  <2>7. tol \in Nat /\ cost(limit, 1) <= tol /\ tol <= window
    BY <1>1, <2>4, <2>5, WindowAssumption DEF max
  <2> QED BY <2>6, <2>7
<1>3. CASE ~(lane = "bulk" /\ r > 0)
  <2>1. newDim(limit, lane, r) =
          [limit |-> limit, tol |-> window, cap |-> max(mulDiv(window, limit, window), 1)]
    BY <1>3 DEF newDim
  <2> QED BY <1>1, <2>1, WindowAssumption
<1> QED
  BY <1>2, <1>3

(* A full bucket's worth of units costs no more than the tolerance, although
   capacity and cost are both rounded (newDim, dim.cost). *)
LEMMA CapacityFits ==
    ASSUME NEW limit \in Nat \ {0}, NEW tol \in Nat, cost(limit, 1) <= tol,
           NEW n \in Nat, n <= max(mulDiv(tol, limit, window), 1)
    PROVE  cost(limit, n) \in Nat /\ cost(limit, n) <= tol
<1>1. cost(limit, n) \in Nat /\ cost(limit, 1) \in Nat
  BY CostNat
<1>2. CASE n <= 1
  <2>1. n = 0 \/ n = 1
    BY <1>2
  <2>2. cost(limit, 0) = 0
    BY DEF cost
  <2> QED BY <1>1, <2>1, <2>2
<1>3. CASE n > 1
  <2>1. PICK q : q = (tol * limit) \div window
    OBVIOUS
  <2>2. tol * limit \in Nat
    OBVIOUS
  <2>3. q \in Nat /\ window * q <= tol * limit
    BY <2>1, <2>2, DivBounds, WindowAssumption
  <2>4. n <= q
    <3>1. mulDiv(tol, limit, window) \in Nat /\ mulDiv(tol, limit, window) <= q
      BY <2>1, <2>3, WindowAssumption DEF mulDiv, min
    <3> QED BY <1>3, <2>3, <3>1 DEF max
  <2>5. n * window \in Nat /\ n * window <= limit * tol
    <3>1. window * n <= window * q
      BY <2>3, <2>4, WindowAssumption
    <3>2. window * n = n * window /\ tol * limit = limit * tol
      BY WindowAssumption
    <3>3. window * n \in Nat /\ window * q \in Nat
      BY <2>3, WindowAssumption
    <3> QED BY <2>2, <2>3, <3>1, <3>2, <3>3
  <2>6. (n * window) \div limit <= tol /\ (n * window) \div limit \in Nat
    BY <2>5, DivAtMost, DivBounds
  <2>7. mulDiv(n, window, limit) <= tol /\ mulDiv(n, window, limit) \in Nat
    BY <2>6, WindowAssumption DEF mulDiv, min
  <2>8. 1 <= tol
    <3>1. cost(limit, 1) >= 1
      <4>1. mulDiv(1, window, limit) \in Nat
        BY MulDivNat, WindowAssumption
      <4> QED BY <4>1 DEF cost, max
    <3> QED BY <1>1, <3>1
  <2> QED BY <1>1, <1>3, <2>7, <2>8 DEF cost, max
<1> QED
  BY <1>2, <1>3

(* One bucket: a request whose cost fits the tolerance passes as soon as its
   wait is over, and not a moment earlier (dim.admit). *)
LEMMA WaitExact ==
    ASSUME NEW d, NEW n, d.tol \in Nat, cost(d.limit, n) \in Nat, cost(d.limit, n) <= d.tol,
           NEW tat \in Nat, tat + d.tol <= MaxInt64, NEW t \in Nat
    PROVE  LET w == admit(d, tat, t, n).wait
           IN  /\ w \in Nat
               /\ admit(d, tat, t, n).ok <=> w = 0
               /\ \A x \in Nat : x >= w => admit(d, tat, t + x, n).ok
               /\ w > 0 => ~admit(d, tat, t + w - 1, n).ok
<1>1. PICK c, tol : c = cost(d.limit, n) /\ tol = d.tol
  OBVIOUS
<1>2. c \in Nat /\ tol \in Nat /\ c <= tol /\ MaxInt64 \in Nat /\ tat + tol <= MaxInt64
  BY <1>1, WindowAssumption
<1> DEFINE need(s) == (max(tat, s) - s) + c
<1>3. ASSUME NEW s \in Nat
      PROVE  /\ need(s) \in Nat
             /\ (admit(d, tat, s, n).ok <=> need(s) <= tol)
             /\ admit(d, tat, s, n).wait = IF need(s) > tol THEN need(s) - tol ELSE 0
  <2>1. need(s) \in Nat /\ need(s) <= MaxInt64
    BY <1>2 DEF max
  <2>2. satAdd(backlog(tat, s), cost(d.limit, n)) = need(s)
    BY <1>1, <1>2, <2>1 DEF satAdd, backlog, min
  <2> HIDE DEF need
  <2>3. CASE need(s) > tol
    <3>1. admit(d, tat, s, n) = [next |-> tat, wait |-> need(s) - tol, ok |-> FALSE]
      BY <1>1, <2>2, <2>3 DEF admit
    <3> QED BY <1>2, <2>1, <2>3, <3>1
  <2>4. CASE ~(need(s) > tol)
    <3>1. admit(d, tat, s, n) = [next |-> satAdd(max(tat, s), c), wait |-> 0, ok |-> TRUE]
      BY <1>1, <2>2, <2>4 DEF admit
    <3> QED BY <1>2, <2>1, <2>4, <3>1
  <2> QED BY <2>1, <2>3, <2>4
<1>4. PICK w : w = admit(d, tat, t, n).wait
  OBVIOUS
<1>5. w = IF need(t) > tol THEN need(t) - tol ELSE 0
  BY <1>3, <1>4
<1>6. w \in Nat /\ (admit(d, tat, t, n).ok <=> w = 0)
  <2>1. need(t) \in Nat /\ (admit(d, tat, t, n).ok <=> need(t) <= tol)
    BY <1>3
  <2> HIDE DEF need
  <2> QED BY <1>2, <1>5, <2>1
<1>7. ASSUME NEW x \in Nat, x >= w PROVE admit(d, tat, t + x, n).ok
  <2>1. need(t + x) <= tol
    BY <1>2, <1>5, <1>7 DEF max
  <2>2. t + x \in Nat
    OBVIOUS
  <2> HIDE DEF need
  <2> QED BY <1>3, <2>1, <2>2
<1>8. ASSUME w > 0 PROVE ~admit(d, tat, t + w - 1, n).ok
  <2>1. ~(need(t + w - 1) <= tol) /\ t + w - 1 \in Nat
    BY <1>2, <1>5, <1>6, <1>8 DEF max
  <2> HIDE DEF need
  <2> QED BY <1>3, <2>1
<1> QED
  BY <1>4, <1>6, <1>7, <1>8

(* Both buckets are a window away from the end of the int64 clock; the additions
   saturate only beyond. *)
FarFromSaturation == req + window <= MaxInt64 /\ tok + window <= MaxInt64

(* The wait of a refusal is that of the slower of the two buckets. *)
LEMMA RetryFollows ==
    ASSUME TypeOK, FarFromSaturation
    PROVE  RetryAfterExact
<1> SUFFICES ASSUME NEW lane \in Lanes, NEW l \in LimitsSet, NEW n \in Estimates,
                    Decision(l, lane, n).reason = "rate"
             PROVE  LET d == Decision(l, lane, n)
                    IN  Passes(l, lane, n, now + d.retry) /\ ~Passes(l, lane, n, now + d.retry - 1)
  BY DEF RetryAfterExact
<1>1. /\ now \in Nat /\ req \in Nat /\ tok \in Nat /\ MaxInt64 \in Nat /\ window \in Nat
      /\ req + window <= MaxInt64 /\ tok + window <= MaxInt64
  BY WindowAssumption DEF TypeOK, FarFromSaturation
<1>2. /\ valid(l)
      /\ ~ReqAt(l, lane, now).ok \/ ~TokAt(l, lane, n, now).ok
      /\ Decision(l, lane, n).retry = max(ReqAt(l, lane, now).wait, TokAt(l, lane, n, now).wait)
  BY DEF Decision, Answer
<1>3. l.RPM \in Nat \ {0} /\ l.TPM \in Nat \ {0} /\ l.XUReserve \in 0..reserveScale
  BY <1>2, LimitsAssumption DEF valid
<1>4. PICK dr, dt, ch : /\ dr = newDim(l.RPM, lane, l.XUReserve)
                        /\ dt = newDim(l.TPM, lane, l.XUReserve)
                        /\ ch = Charge(l, lane, n)
  OBVIOUS
<1>5. /\ dr.tol \in Nat /\ dr.tol <= window /\ dr.limit = l.RPM
      /\ cost(dr.limit, 1) \in Nat /\ cost(dr.limit, 1) <= dr.tol
  BY <1>3, <1>4, DimBounds, UnitCost
<1>6. /\ dt.tol \in Nat /\ dt.tol <= window /\ dt.limit = l.TPM
      /\ cost(l.TPM, 1) <= dt.tol /\ dt.cap = max(mulDiv(dt.tol, l.TPM, window), 1)
  BY <1>3, <1>4, DimBounds
<1>7. cost(dt.limit, ch) \in Nat /\ cost(dt.limit, ch) <= dt.tol
  <2>1. ch \in Nat
    BY <1>3, <1>4, ChargeNat, RequestAssumption
  <2>2. mulDiv(dt.tol, l.TPM, window) \in Nat
    BY <1>3, <1>6, MulDivNat, WindowAssumption
  <2>3. dt.cap \in Nat
    BY <1>6, <2>2 DEF max
  <2>4. ch = min(n, dt.cap)
    BY <1>4 DEF Charge
  <2>5. n \in Nat
    BY RequestAssumption
  <2>6. ch <= dt.cap
    BY <2>3, <2>4, <2>5 DEF min
  <2> QED BY <1>3, <1>6, <2>1, <2>6, CapacityFits
<1>8. /\ \A t : ReqAt(l, lane, t) = admit(dr, req, t, 1)
      /\ \A t : TokAt(l, lane, n, t) = admit(dt, tok, t, ch)
  BY <1>4 DEF ReqAt, TokAt
<1>9. PICK wr, wt : wr = admit(dr, req, now, 1).wait /\ wt = admit(dt, tok, now, ch).wait
  OBVIOUS
<1>10. /\ wr \in Nat /\ (admit(dr, req, now, 1).ok <=> wr = 0)
       /\ \A x \in Nat : x >= wr => admit(dr, req, now + x, 1).ok
       /\ wr > 0 => ~admit(dr, req, now + wr - 1, 1).ok
  <2>1. req + dr.tol <= MaxInt64
    BY <1>1, <1>5
  <2> QED BY <1>1, <1>5, <1>9, <2>1, WaitExact
<1>11. /\ wt \in Nat /\ (admit(dt, tok, now, ch).ok <=> wt = 0)
       /\ \A x \in Nat : x >= wt => admit(dt, tok, now + x, ch).ok
       /\ wt > 0 => ~admit(dt, tok, now + wt - 1, ch).ok
  <2>1. tok + dt.tol <= MaxInt64
    BY <1>1, <1>6
  <2> QED BY <1>1, <1>6, <1>7, <1>9, <2>1, WaitExact
<1>12. PICK w : w = Decision(l, lane, n).retry
  OBVIOUS
<1>13. w = max(wr, wt)
  BY <1>2, <1>8, <1>9, <1>12
<1>14. /\ w \in Nat /\ w >= wr /\ w >= wt /\ w > 0 /\ (w = wr \/ w = wt)
  <2>1. wr > 0 \/ wt > 0
    BY <1>2, <1>8, <1>10, <1>11
  <2> QED BY <1>10, <1>11, <1>13, <2>1 DEF max
<1>15. Passes(l, lane, n, now + w)
  BY <1>8, <1>10, <1>11, <1>14 DEF Passes
<1>16. ~Passes(l, lane, n, now + w - 1)
  BY <1>8, <1>10, <1>11, <1>14 DEF Passes
<1> QED
  BY <1>12, <1>15, <1>16

(* Retry-After is exact for every limit, lane, estimate and window: a rate
   refusal names the earliest moment the same request would pass, and that
   moment exists, while the buckets stay a window below the saturation of an
   int64 clock (292 years of nanoseconds). *)
THEOREM RetryAfterProved == Spec => [](FarFromSaturation => RetryAfterExact)
<1>1. TypeOK => (FarFromSaturation => RetryAfterExact)
  BY RetryFollows
<1> QED
  BY <1>1, MeterTypeCorrect, PTL

-----------------------------------------------------------------------------
(* The history.  Replay and Since are recursive functions over it; what they
   compute is shown by climbing: a set of indices that holds the first and with
   each the next holds them all. *)

(* A set of naturals that is not empty has a least element. *)
LEMMA NatMin ==
    ASSUME NEW T \in SUBSET Nat, T # {}
    PROVE  \E x \in T : \A y \in T : x <= y
<1>1. PICK R : R = OpToRel(<, Nat)
  OBVIOUS
<1>2. R = {ss \in Nat \X Nat : ss[1] < ss[2]}
  BY <1>1 DEF OpToRel
<1>3. IsWellFoundedOn(R, Nat)
  BY <1>1, NatLessThanWellFounded
<1>4. PICK x \in T : \A y \in T : ~(<<y, x>> \in R)
  BY <1>3, WFMin
<1>5. ASSUME NEW y \in T PROVE x <= y
  <2>1. x \in Nat /\ y \in Nat /\ <<y, x>> \notin R
    BY <1>4
  <2> QED BY <1>2, <2>1
<1> QED
  BY <1>5

(* Climbing from j to n. *)
LEMMA Climb ==
    ASSUME NEW j \in Nat, NEW n \in Nat, NEW P,
           j \in P, \A k \in j..n : k \in P /\ k < n => k + 1 \in P
    PROVE  \A k \in j..n : k \in P
<1> DEFINE Bad == {k \in j..n : k \notin P}
<1>1. SUFFICES ASSUME Bad # {} PROVE FALSE
  OBVIOUS
<1>2. Bad \in SUBSET Nat
  OBVIOUS
<1>3. PICK m \in Bad : \A y \in Bad : m <= y
  <2> HIDE DEF Bad
  <2> QED BY <1>1, <1>2, NatMin
<1>4. m \in j..n /\ m \notin P
  OBVIOUS
<1>5. m - 1 \in j..n /\ ~(m <= m - 1)
  BY <1>4
<1>6. m - 1 \in P
  <2>1. m - 1 \notin Bad
    <3> HIDE DEF Bad
    <3> QED BY <1>3, <1>5
  <2> QED BY <1>5, <2>1
<1> QED
  BY <1>4, <1>5, <1>6

(* A recursion upwards from 0 at j has a solution. *)
LEMMA Recursion ==
    ASSUME NEW j \in Nat, NEW n \in Nat, j <= n, NEW H \in [j..n -> [Nat -> Nat]]
    PROVE  \E f \in [j..n -> Nat] : f[j] = 0 /\ \A k \in (j + 1)..n : f[k] = H[k][f[k - 1]]
<1> DEFINE Solves(f, m) == f[j] = 0 /\ \A k \in (j + 1)..m : f[k] = H[k][f[k - 1]]
           P == {m \in j..n : \E f \in [j..n -> Nat] : Solves(f, m)}
<1>1. j \in P
  <2>1. PICK z : z = [k \in j..n |-> 0]
    OBVIOUS
  <2>2. z \in [j..n -> Nat] /\ j \in j..n
    BY <2>1
  <2>3. Solves(z, j)
    BY <2>1, <2>2
  <2> QED BY <2>2, <2>3
<1>2. ASSUME NEW m \in j..n, m \in P, m < n PROVE m + 1 \in P
  <2>1. PICK f \in [j..n -> Nat] : Solves(f, m)
    BY <1>2
  <2> DEFINE g == [f EXCEPT ![m + 1] = H[m + 1][f[m]]]
  <2>2. m + 1 \in j..n /\ H[m + 1][f[m]] \in Nat
    <3>1. m + 1 \in j..n
      BY <1>2
    <3>2. f[m] \in Nat /\ H[m + 1] \in [Nat -> Nat]
      BY <2>1, <3>1
    <3> QED BY <3>1, <3>2
  <2>3. g \in [j..n -> Nat]
    BY <2>2
  <2>4. g[j] = 0
    BY <2>1, <2>2
  <2>5. ASSUME NEW k \in (j + 1)..(m + 1) PROVE g[k] = H[k][g[k - 1]]
    <3>1. CASE k = m + 1
      BY <2>2, <3>1
    <3>2. CASE k # m + 1
      <4>1. k \in (j + 1)..m /\ k \in j..n /\ k - 1 \in j..n /\ k - 1 # m + 1
        BY <2>2, <3>2
      <4>2. g[k] = f[k] /\ g[k - 1] = f[k - 1]
        BY <2>2, <3>2, <4>1
      <4> QED BY <2>1, <4>1, <4>2
    <3> QED BY <3>1, <3>2
  <2> HIDE DEF g
  <2> QED BY <2>2, <2>3, <2>4, <2>5
<1>3. n \in P
  <2> HIDE DEF P
  <2>1. \A k \in j..n : k \in P
    BY <1>1, <1>2, Climb
  <2> QED BY <2>1
<1> QED
  BY <1>3

(* A charge of the history. *)
Entry == [seq : Nat, lane : Charges, at : Nat, tokens : Nat, request : Nat]

(* One charge, if it is of one of the lanes. *)
Apply(x, e, lanes) == IF e.lane \in lanes THEN max(x, e.at) + e.tokens ELSE x

(* f[k] is the bucket of the charges behind j up to k. *)
Follows(f, b, j, lanes) ==
    /\ f \in [j..Len(b) -> Nat] /\ f[j] = 0
    /\ \A k \in (j + 1)..Len(b) : f[k] = Apply(f[k - 1], b[k], lanes)

(* A charge moves a bucket forward. *)
LEMMA ApplyNat ==
    ASSUME NEW x \in Nat, NEW e \in Entry, NEW lanes
    PROVE  Apply(x, e, lanes) \in Nat /\ x <= Apply(x, e, lanes)
BY DEF Apply, Entry, max

(* Replay is what its recursion says. *)
LEMMA ReplayIs ==
    ASSUME NEW b \in Seq(Entry), NEW j \in 0..Len(b), NEW lanes
    PROVE  \E f : Follows(f, b, j, lanes) /\ Replay(b, j, lanes) = f[Len(b)]
<1> DEFINE n == Len(b)
           Step(q) == [i \in j..n |->
                         IF i = j THEN 0
                         ELSE IF b[i].lane \in lanes THEN max(q[i - 1], b[i].at) + b[i].tokens
                         ELSE q[i - 1]]
           f == CHOOSE q : q = Step(q)
           H == [k \in j..n |-> [x \in Nat |-> IF k = 0 THEN 0 ELSE Apply(x, b[k], lanes)]]
<1>1. n \in Nat /\ j \in Nat /\ j <= n /\ \A k \in 1..n : b[k] \in Entry
  OBVIOUS
<1>2. H \in [j..n -> [Nat -> Nat]]
  <2>1. ASSUME NEW k \in j..n, NEW x \in Nat
        PROVE  (IF k = 0 THEN 0 ELSE Apply(x, b[k], lanes)) \in Nat
    <3>1. CASE k = 0
      BY <3>1
    <3>2. CASE k # 0
      BY <1>1, <3>2, ApplyNat
    <3> QED BY <3>1, <3>2
  <2> QED BY <2>1
<1>3. PICK g \in [j..n -> Nat] : g[j] = 0 /\ \A k \in (j + 1)..n : g[k] = H[k][g[k - 1]]
  <2> HIDE DEF H
  <2> QED BY <1>1, <1>2, Recursion
<1>4. ASSUME NEW k \in (j + 1)..n PROVE g[k] = Apply(g[k - 1], b[k], lanes)
  <2>1. k \in j..n /\ k # 0 /\ k - 1 \in j..n
    BY <1>1
  <2>2. g[k - 1] \in Nat
    BY <2>1
  <2> QED BY <1>3, <2>1, <2>2
<1> HIDE DEF H
<1>5. g = Step(g)
  <2>1. ASSUME NEW i \in j..n
        PROVE  g[i] = IF i = j THEN 0
                      ELSE IF b[i].lane \in lanes THEN max(g[i - 1], b[i].at) + b[i].tokens
                      ELSE g[i - 1]
    <3>1. CASE i = j
      BY <1>3, <3>1
    <3>2. CASE i # j
      <4>1. i \in (j + 1)..n
        BY <1>1, <3>2
      <4> QED BY <1>4, <3>2, <4>1 DEF Apply
    <3> QED BY <3>1, <3>2
  <2> QED BY <2>1
<1>6. f = Step(f)
  BY <1>5, Zenon
<1>7. Replay(b, j, lanes) = f[n]
  BY Zenon DEF Replay
<1>8. \A i \in j..n : f[i] = IF i = j THEN 0
                             ELSE IF b[i].lane \in lanes THEN max(f[i - 1], b[i].at) + b[i].tokens
                             ELSE f[i - 1]
  <2> HIDE DEF f
  <2> QED BY <1>6
<1>9. DOMAIN f = j..n /\ f = [i \in j..n |-> f[i]]
  <2> HIDE DEF f
  <2> QED BY <1>6
<1> HIDE DEF f
<1>10. \A k \in (j + 1)..n : f[k] = Apply(f[k - 1], b[k], lanes)
  <2> SUFFICES ASSUME NEW k \in (j + 1)..n PROVE f[k] = Apply(f[k - 1], b[k], lanes)
    OBVIOUS
  <2>1. k \in j..n /\ k # j
    BY <1>1
  <2> QED BY <1>8, <2>1 DEF Apply
<1>11. f[j] = 0
  BY <1>1, <1>8
<1> DEFINE P == {k \in j..n : f[k] \in Nat}
<1>12. \A k \in j..n : k \in P
  <2>1. j \in P
    BY <1>1, <1>11
  <2>2. ASSUME NEW k \in j..n, k \in P, k < n PROVE k + 1 \in P
    <3>1. k + 1 \in (j + 1)..n /\ k + 1 \in 1..n /\ (k + 1) - 1 = k
      BY <1>1, <2>2
    <3>2. f[k + 1] = Apply(f[k], b[k + 1], lanes)
      BY <1>10, <3>1
    <3>3. f[k + 1] \in Nat
      BY <1>1, <2>2, <3>1, <3>2, ApplyNat
    <3> QED BY <1>1, <3>1, <3>3
  <2> HIDE DEF P
  <2> QED BY <1>1, <2>1, <2>2, Climb
<1>13. f \in [j..n -> Nat]
  BY <1>9, <1>12
<1> QED
  BY <1>7, <1>10, <1>11, <1>13 DEF Follows

(* The histories b and c agree behind j up to m. *)
Agree(b, c, j, m) ==
    /\ b \in Seq(Entry) /\ c \in Seq(Entry)
    /\ j \in Nat /\ m \in Nat /\ j <= m /\ m <= Len(b) /\ m <= Len(c)
    /\ \A k \in (j + 1)..m : b[k] = c[k]

(* They leave the same bucket at m. *)
LEMMA FollowsSame ==
    ASSUME NEW b, NEW c, NEW j, NEW m, Agree(b, c, j, m), NEW lanes,
           NEW f, Follows(f, b, j, lanes), NEW g, Follows(g, c, j, lanes)
    PROVE  f[m] = g[m]
<1> DEFINE P == {k \in j..m : f[k] = g[k]}
<1>0. /\ Len(b) \in Nat /\ Len(c) \in Nat /\ j \in Nat /\ m \in Nat /\ j <= m
      /\ m <= Len(b) /\ m <= Len(c) /\ \A k \in (j + 1)..m : b[k] = c[k]
  BY DEF Agree
<1>1. j \in P
  BY <1>0 DEF Follows
<1>2. ASSUME NEW k \in j..m, k \in P, k < m PROVE k + 1 \in P
  <2>1. /\ k + 1 \in (j + 1)..m /\ (k + 1) - 1 = k
        /\ k + 1 \in (j + 1)..Len(b) /\ k + 1 \in (j + 1)..Len(c)
    BY <1>0, <1>2
  <2>2. f[k + 1] = Apply(f[k], b[k + 1], lanes) /\ g[k + 1] = Apply(g[k], c[k + 1], lanes)
    BY <2>1 DEF Follows
  <2>3. f[k + 1] = g[k + 1]
    BY <1>0, <1>2, <2>1, <2>2
  <2> QED BY <1>0, <2>1, <2>3
<1>3. \A k \in j..m : k \in P
  <2> HIDE DEF P
  <2> QED BY <1>0, <1>1, <1>2, Climb
<1> QED
  BY <1>0, <1>3

(* A charge keeps the order of two buckets. *)
LEMMA ApplyMonotone ==
    ASSUME NEW e, e.at \in Nat, e.tokens \in Nat, NEW x \in Nat, NEW y \in Nat, x <= y, NEW lanes
    PROVE  Apply(x, e, lanes) <= Apply(y, e, lanes)
<1>1. PICK a, t : a = e.at /\ t = e.tokens /\ a \in Nat /\ t \in Nat
  OBVIOUS
<1>2. max(x, a) + t <= max(y, a) + t
  BY <1>1 DEF max
<1> QED
  BY <1>1, <1>2 DEF Apply

(* A later charge on a refunded bucket is the refund of the later bucket. *)
LEMMA ApplyRefund ==
    ASSUME NEW e, e.at \in Nat, e.tokens \in Nat, NEW x \in Nat, NEW y \in Nat, NEW d \in Nat,
           NEW lanes
    PROVE  Apply(max(x - d, y), e, lanes) = max(Apply(x, e, lanes) - d, Apply(y, e, lanes))
<1>1. PICK a, t : a = e.at /\ t = e.tokens /\ a \in Nat /\ t \in Nat
  OBVIOUS
<1>2. max(max(x - d, y), a) + t = max((max(x, a) + t) - d, max(y, a) + t)
  BY <1>1 DEF max
<1> QED
  BY <1>1, <1>2 DEF Apply

(* No charge, no bucket. *)
LEMMA ReplayNone ==
    ASSUME NEW b \in Seq(Entry), NEW lanes
    PROVE  Replay(b, Len(b), lanes) = 0
<1>1. Len(b) \in 0..Len(b)
  OBVIOUS
<1> QED
  BY <1>1, ReplayIs DEF Follows

(* The bucket of a history is a time. *)
LEMMA ReplayNat ==
    ASSUME NEW b \in Seq(Entry), NEW j \in 0..Len(b), NEW lanes
    PROVE  Replay(b, j, lanes) \in Nat
<1>1. Len(b) \in j..Len(b)
  OBVIOUS
<1> QED
  BY <1>1, ReplayIs DEF Follows

(* A charge at the end moves the bucket as the meter does. *)
LEMMA ReplayAppend ==
    ASSUME NEW b \in Seq(Entry), NEW e \in Entry, NEW j \in 0..Len(b), NEW lanes
    PROVE  Replay(Append(b, e), j, lanes) = Apply(Replay(b, j, lanes), e, lanes)
<1>1. PICK c : c = Append(b, e)
  OBVIOUS
<1>2. /\ c \in Seq(Entry) /\ Len(c) = Len(b) + 1 /\ c[Len(c)] = e
      /\ \A k \in 1..Len(b) : c[k] = b[k]
  BY <1>1
<1>3. Len(b) \in Nat /\ j \in Nat /\ j <= Len(b) /\ j \in 0..Len(c)
  BY <1>2
<1>4. PICK f : Follows(f, b, j, lanes) /\ Replay(b, j, lanes) = f[Len(b)]
  BY ReplayIs
<1>5. PICK g : Follows(g, c, j, lanes) /\ Replay(c, j, lanes) = g[Len(c)]
  BY <1>2, <1>3, ReplayIs
<1>6. f[Len(b)] = g[Len(b)]
  <2>1. Agree(b, c, j, Len(b))
    BY <1>2, <1>3 DEF Agree
  <2> QED BY <1>4, <1>5, <2>1, FollowsSame
<1>7. g[Len(c)] = Apply(g[Len(b)], e, lanes)
  <2>1. Len(c) \in (j + 1)..Len(c) /\ Len(c) - 1 = Len(b)
    BY <1>2, <1>3
  <2> QED BY <1>2, <1>5, <2>1 DEF Follows
<1> QED
  BY <1>1, <1>4, <1>5, <1>6, <1>7

(* Histories that agree behind j leave the same bucket. *)
LEMMA ReplaySame ==
    ASSUME NEW b \in Seq(Entry), NEW c \in Seq(Entry), Len(c) = Len(b), NEW j \in 0..Len(b),
           NEW lanes, \A k \in (j + 1)..Len(b) : b[k] = c[k]
    PROVE  Replay(c, j, lanes) = Replay(b, j, lanes)
<1>1. Len(b) \in Nat /\ j \in Nat /\ j <= Len(b) /\ Len(b) <= Len(b) /\ Len(b) <= Len(c)
  OBVIOUS
<1>2. PICK f : Follows(f, b, j, lanes) /\ Replay(b, j, lanes) = f[Len(b)]
  BY ReplayIs
<1>3. PICK g : Follows(g, c, j, lanes) /\ Replay(c, j, lanes) = g[Len(c)]
  BY ReplayIs
<1>4. f[Len(b)] = g[Len(b)]
  <2>1. Agree(b, c, j, Len(b))
    BY <1>1 DEF Agree
  <2> QED BY <1>2, <1>3, <2>1, FollowsSame
<1> QED
  BY <1>2, <1>3, <1>4

(* The more charges, the fuller the bucket. *)
LEMMA ReplayShorter ==
    ASSUME NEW b \in Seq(Entry), NEW j \in 0..Len(b), NEW i \in j..Len(b), NEW lanes
    PROVE  Replay(b, i, lanes) <= Replay(b, j, lanes)
<1>1. Len(b) \in Nat /\ j \in Nat /\ i \in Nat /\ i \in 0..Len(b) /\ j <= i /\ i <= Len(b)
  OBVIOUS
<1>2. PICK f : Follows(f, b, j, lanes) /\ Replay(b, j, lanes) = f[Len(b)]
  BY ReplayIs
<1>3. PICK h : Follows(h, b, i, lanes) /\ Replay(b, i, lanes) = h[Len(b)]
  BY <1>1, ReplayIs
<1> DEFINE P == {k \in i..Len(b) : h[k] <= f[k]}
<1>4. i \in P
  <2>1. h[i] = 0 /\ f[i] \in Nat
    BY <1>1, <1>2, <1>3 DEF Follows
  <2> QED BY <1>1, <2>1
<1>5. ASSUME NEW k \in i..Len(b), k \in P, k < Len(b) PROVE k + 1 \in P
  <2>1. /\ k + 1 \in (j + 1)..Len(b) /\ k + 1 \in (i + 1)..Len(b) /\ k + 1 \in 1..Len(b)
        /\ k \in j..Len(b) /\ k \in i..Len(b) /\ (k + 1) - 1 = k
    BY <1>1, <1>5
  <2>2. /\ f[k + 1] = Apply(f[k], b[k + 1], lanes) /\ h[k + 1] = Apply(h[k], b[k + 1], lanes)
        /\ f[k] \in Nat /\ h[k] \in Nat
    BY <1>2, <1>3, <2>1 DEF Follows
  <2>3. b[k + 1] \in Entry /\ h[k] <= f[k]
    BY <1>5, <2>1
  <2>4. b[k + 1].at \in Nat /\ b[k + 1].tokens \in Nat
    BY <2>3 DEF Entry
  <2>5. h[k + 1] <= f[k + 1]
    BY <2>2, <2>3, <2>4, ApplyMonotone
  <2> QED BY <2>1, <2>5
<1>6. \A k \in i..Len(b) : k \in P
  <2> HIDE DEF P
  <2> QED BY <1>1, <1>4, <1>5, Climb
<1>7. Len(b) \in P
  <2> HIDE DEF P
  <2> QED BY <1>1, <1>6
<1> QED
  BY <1>2, <1>3, <1>7

(* c is b with d taken off the i-th charge. *)
Refunded(b, c, i, d) ==
    /\ c \in Seq(Entry) /\ Len(c) = Len(b)
    /\ d <= b[i].tokens
    /\ c[i].seq = b[i].seq /\ c[i].lane = b[i].lane /\ c[i].at = b[i].at
    /\ c[i].request = b[i].request
    /\ c[i].tokens = b[i].tokens - d
    /\ \A k \in 1..Len(b) : k # i => c[k] = b[k]

(* A refund in the past lowers the bucket by as much, but never below the bucket
   of the charges that came after the refunded one: the rule of refund. *)
LEMMA ReplayRefund ==
    ASSUME NEW b \in Seq(Entry), NEW c, NEW i \in 1..Len(b), NEW d \in Nat, Refunded(b, c, i, d),
           NEW j \in 0..(i - 1), NEW lanes, b[i].lane \in lanes
    PROVE  Replay(c, j, lanes) = max(Replay(b, j, lanes) - d, Replay(b, i, lanes))
<1>1. /\ Len(b) \in Nat /\ j \in Nat /\ i \in Nat /\ i \in 0..Len(b) /\ j \in 0..Len(b) /\ j < i
      /\ i <= Len(b) /\ c \in Seq(Entry) /\ Len(c) = Len(b)
  BY DEF Refunded
<1>2. PICK f : Follows(f, b, j, lanes) /\ Replay(b, j, lanes) = f[Len(b)]
  BY <1>1, ReplayIs
<1>3. PICK h : Follows(h, b, i, lanes) /\ Replay(b, i, lanes) = h[Len(b)]
  BY <1>1, ReplayIs
<1>4. PICK g : Follows(g, c, j, lanes) /\ Replay(c, j, lanes) = g[Len(c)]
  BY <1>1, ReplayIs
<1> DEFINE P == {k \in i..Len(b) : g[k] = max(f[k] - d, h[k])}
<1>5. i \in P
  <2>1. \A k \in (j + 1)..(i - 1) : b[k] = c[k]
    BY <1>1 DEF Refunded
  <2>2. Agree(b, c, j, i - 1)
    BY <1>1, <2>1 DEF Agree
  <2>3. f[i - 1] = g[i - 1]
    BY <1>2, <1>4, <2>2, FollowsSame
  <2>4. i \in (j + 1)..Len(b) /\ i \in (j + 1)..Len(c) /\ i - 1 \in j..Len(b)
    BY <1>1
  <2>5. /\ f[i] = Apply(f[i - 1], b[i], lanes) /\ g[i] = Apply(g[i - 1], c[i], lanes)
        /\ h[i] = 0 /\ f[i - 1] \in Nat
    BY <1>2, <1>3, <1>4, <2>4 DEF Follows
  <2>6. /\ b[i] \in Entry /\ d <= b[i].tokens /\ c[i].lane = b[i].lane /\ c[i].at = b[i].at
        /\ c[i].tokens = b[i].tokens - d
    BY DEF Refunded
  <2>7. b[i].at \in Nat /\ b[i].tokens \in Nat
    BY <2>6 DEF Entry
  <2>8. f[i] = max(f[i - 1], b[i].at) + b[i].tokens
    BY <2>5 DEF Apply
  <2>9. g[i] = max(f[i - 1], b[i].at) + (b[i].tokens - d)
    BY <2>3, <2>5, <2>6 DEF Apply
  <2>10. g[i] = max(f[i] - d, h[i])
    <3>1. PICK x, t, n : x = f[i - 1] /\ t = b[i].at /\ n = b[i].tokens
      OBVIOUS
    <3>2. x \in Nat /\ t \in Nat /\ n \in Nat /\ d <= n
      BY <2>5, <2>6, <2>7, <3>1
    <3>3. max(x, t) + (n - d) = max((max(x, t) + n) - d, 0)
      BY <3>2 DEF max
    <3> QED BY <2>5, <2>8, <2>9, <3>1, <3>3, Zenon
  <2> QED BY <1>1, <2>10
<1>6. ASSUME NEW k \in i..Len(b), k \in P, k < Len(b) PROVE k + 1 \in P
  <2>1. /\ k + 1 \in (j + 1)..Len(b) /\ k + 1 \in (j + 1)..Len(c) /\ k + 1 \in (i + 1)..Len(b)
        /\ k + 1 \in 1..Len(b) /\ k + 1 # i
        /\ k \in j..Len(b) /\ k \in i..Len(b) /\ (k + 1) - 1 = k
    BY <1>1, <1>6
  <2>2. c[k + 1] = b[k + 1] /\ b[k + 1] \in Entry
    BY <2>1 DEF Refunded
  <2>3. /\ f[k + 1] = Apply(f[k], b[k + 1], lanes) /\ h[k + 1] = Apply(h[k], b[k + 1], lanes)
        /\ g[k + 1] = Apply(g[k], b[k + 1], lanes)
        /\ f[k] \in Nat /\ h[k] \in Nat
    BY <1>2, <1>3, <1>4, <2>1, <2>2 DEF Follows
  <2>4. g[k] = max(f[k] - d, h[k])
    BY <1>6
  <2>5. b[k + 1].at \in Nat /\ b[k + 1].tokens \in Nat
    BY <2>2 DEF Entry
  <2>6. Apply(max(f[k] - d, h[k]), b[k + 1], lanes) =
          max(Apply(f[k], b[k + 1], lanes) - d, Apply(h[k], b[k + 1], lanes))
    <3>1. PICK x, y, e : x = f[k] /\ y = h[k] /\ e = b[k + 1]
      OBVIOUS
    <3>2. x \in Nat /\ y \in Nat /\ e.at \in Nat /\ e.tokens \in Nat
      BY <2>3, <2>5, <3>1
    <3>3. Apply(max(x - d, y), e, lanes) = max(Apply(x, e, lanes) - d, Apply(y, e, lanes))
      BY <3>2, ApplyRefund
    <3> QED BY <3>1, <3>3
  <2>7. g[k + 1] = max(f[k + 1] - d, h[k + 1])
    BY <2>3, <2>4, <2>6, Zenon
  <2> QED BY <2>1, <2>7
<1>7. \A k \in i..Len(b) : k \in P
  <2> HIDE DEF P
  <2> QED BY <1>1, <1>5, <1>6, Climb
<1>8. Len(b) \in P
  <2> HIDE DEF P
  <2> QED BY <1>1, <1>7
<1> QED
  BY <1>1, <1>2, <1>3, <1>4, <1>8

(* A refund of a charge of another lane changes nothing. *)
LEMMA ReplayOther ==
    ASSUME NEW b \in Seq(Entry), NEW c, NEW i \in 1..Len(b), NEW d \in Nat, Refunded(b, c, i, d),
           NEW j \in 0..Len(b), NEW lanes, b[i].lane \notin lanes
    PROVE  Replay(c, j, lanes) = Replay(b, j, lanes)
<1>1. Len(b) \in Nat /\ j \in Nat /\ j <= Len(b) /\ c \in Seq(Entry) /\ Len(c) = Len(b)
  BY DEF Refunded
<1>2. PICK f : Follows(f, b, j, lanes) /\ Replay(b, j, lanes) = f[Len(b)]
  BY ReplayIs
<1>3. PICK g : Follows(g, c, j, lanes) /\ Replay(c, j, lanes) = g[Len(c)]
  BY <1>1, ReplayIs
<1> DEFINE P == {k \in j..Len(b) : g[k] = f[k]}
<1>4. j \in P
  BY <1>1, <1>2, <1>3 DEF Follows
<1>5. ASSUME NEW k \in j..Len(b), k \in P, k < Len(b) PROVE k + 1 \in P
  <2>1. /\ k + 1 \in (j + 1)..Len(b) /\ k + 1 \in (j + 1)..Len(c) /\ k + 1 \in 1..Len(b)
        /\ k + 1 \in j..Len(b) /\ (k + 1) - 1 = k
    BY <1>1, <1>5
  <2>2. f[k + 1] = Apply(f[k], b[k + 1], lanes) /\ g[k + 1] = Apply(g[k], c[k + 1], lanes)
    BY <1>2, <1>3, <2>1 DEF Follows
  <2>3. c[k + 1] = b[k + 1] \/ (k + 1 = i /\ c[k + 1].lane = b[i].lane)
    BY <2>1 DEF Refunded
  <2>4. g[k] = f[k]
    BY <1>5
  <2>5. g[k + 1] = f[k + 1]
    BY <2>2, <2>3, <2>4 DEF Apply
  <2> QED BY <2>1, <2>5
<1>6. \A k \in j..Len(b) : k \in P
  <2> HIDE DEF P
  <2> QED BY <1>1, <1>4, <1>5, Climb
<1>7. Len(b) \in P
  <2> HIDE DEF P
  <2> QED BY <1>1, <1>6
<1> QED
  BY <1>1, <1>2, <1>3, <1>7

Units == {"tokens", "request"}

(* One admission, if it is one. *)
Plus(x, e, unit) == IF e.lane \in Lanes THEN x + e[unit] ELSE x

(* f[k] is the cost of the admissions from the i-th to the k-th. *)
Sums(f, b, i, unit) ==
    /\ f \in [(i - 1)..Len(b) -> Nat] /\ f[i - 1] = 0
    /\ \A k \in i..Len(b) : f[k] = Plus(f[k - 1], b[k], unit)

(* What a charge costs is a number. *)
LEMMA UnitNat ==
    ASSUME NEW e \in Entry, NEW unit \in Units
    PROVE  e[unit] \in Nat /\ (unit = "tokens" => e[unit] = e.tokens)
                           /\ (unit = "request" => e[unit] = e.request)
<1>1. CASE unit = "tokens"
  BY <1>1 DEF Entry
<1>2. CASE unit = "request"
  BY <1>2 DEF Entry
<1> QED
  BY <1>1, <1>2 DEF Units

(* The fields of a charge. *)
LEMMA EntryFacts ==
    ASSUME NEW e \in Entry
    PROVE  /\ e.at \in Nat /\ e.tokens \in Nat /\ e.request \in Nat /\ e.seq \in Nat
           /\ e.lane \in Charges /\ e["tokens"] = e.tokens
BY DEF Entry

(* Sums stay numbers and grow. *)
LEMMA PlusNat ==
    ASSUME NEW e \in Entry, NEW unit \in Units, NEW x \in Nat
    PROVE  Plus(x, e, unit) \in Nat /\ x <= Plus(x, e, unit)
<1>1. e[unit] \in Nat
  BY UnitNat
<1> QED
  BY <1>1 DEF Plus

(* Since is what its recursion says. *)
LEMMA SinceIs ==
    ASSUME NEW b \in Seq(Entry), NEW i \in 1..(Len(b) + 1), NEW unit \in Units
    PROVE  \E f : Sums(f, b, i, unit) /\ Since(b, i, unit) = f[Len(b)]
<1> DEFINE n == Len(b)
           j == i - 1
           Step(q) == [k \in j..n |->
                         IF k = j THEN 0
                         ELSE IF b[k].lane \in Lanes THEN q[k - 1] + b[k][unit]
                         ELSE q[k - 1]]
           f == CHOOSE q : q = Step(q)
           H == [k \in j..n |-> [x \in Nat |-> IF k = 0 THEN 0 ELSE Plus(x, b[k], unit)]]
<1>1. n \in Nat /\ j \in Nat /\ j <= n /\ j + 1 = i /\ \A k \in 1..n : b[k] \in Entry
  OBVIOUS
<1>2. H \in [j..n -> [Nat -> Nat]]
  <2>1. ASSUME NEW k \in j..n, NEW x \in Nat
        PROVE  (IF k = 0 THEN 0 ELSE Plus(x, b[k], unit)) \in Nat
    <3>1. CASE k = 0
      BY <3>1
    <3>2. CASE k # 0
      <4>1. k \in 1..n
        BY <1>1, <3>2
      <4>2. b[k] \in Entry
        BY <1>1, <4>1
      <4>3. Plus(x, b[k], unit) \in Nat
        BY <4>2, PlusNat
      <4> QED BY <3>2, <4>3
    <3> QED BY <3>1, <3>2
  <2> QED BY <2>1
<1>3. PICK g \in [j..n -> Nat] : g[j] = 0 /\ \A k \in (j + 1)..n : g[k] = H[k][g[k - 1]]
  <2> HIDE DEF H, j
  <2> QED BY <1>1, <1>2, Recursion
<1>4. ASSUME NEW k \in (j + 1)..n PROVE g[k] = Plus(g[k - 1], b[k], unit)
  <2>1. k \in j..n /\ k # 0 /\ k - 1 \in j..n
    BY <1>1
  <2>2. g[k - 1] \in Nat
    BY <2>1
  <2> QED BY <1>3, <2>1, <2>2
<1> HIDE DEF H
<1>5. g = Step(g)
  <2>1. ASSUME NEW k \in j..n
        PROVE  g[k] = IF k = j THEN 0
                      ELSE IF b[k].lane \in Lanes THEN g[k - 1] + b[k][unit]
                      ELSE g[k - 1]
    <3>1. CASE k = j
      BY <1>3, <3>1
    <3>2. CASE k # j
      <4>1. k \in (j + 1)..n
        BY <1>1, <3>2
      <4> QED BY <1>4, <3>2, <4>1 DEF Plus
    <3> QED BY <3>1, <3>2
  <2> QED BY <2>1
<1>6. f = Step(f)
  BY <1>5, Zenon
<1>7. Since(b, i, unit) = f[n]
  BY Zenon DEF Since
<1>8. \A k \in j..n : f[k] = IF k = j THEN 0
                             ELSE IF b[k].lane \in Lanes THEN f[k - 1] + b[k][unit]
                             ELSE f[k - 1]
  <2> HIDE DEF f, j
  <2> QED BY <1>6
<1>9. DOMAIN f = j..n /\ f = [k \in j..n |-> f[k]]
  <2> HIDE DEF f, j
  <2> QED BY <1>6
<1> HIDE DEF f
<1>10. \A k \in i..n : f[k] = Plus(f[k - 1], b[k], unit)
  <2> SUFFICES ASSUME NEW k \in i..n PROVE f[k] = Plus(f[k - 1], b[k], unit)
    OBVIOUS
  <2>1. k \in j..n /\ k # j
    BY <1>1
  <2> QED BY <1>8, <2>1 DEF Plus
<1>11. f[j] = 0
  BY <1>1, <1>8
<1> DEFINE P == {k \in j..n : f[k] \in Nat}
<1>12. \A k \in j..n : k \in P
  <2>1. j \in P
    BY <1>1, <1>11
  <2>2. ASSUME NEW k \in j..n, k \in P, k < n PROVE k + 1 \in P
    <3>1. k + 1 \in i..n /\ k + 1 \in 1..n /\ k + 1 \in j..n /\ (k + 1) - 1 = k
      BY <1>1, <2>2
    <3>2. f[k + 1] = Plus(f[k], b[k + 1], unit)
      BY <1>10, <3>1
    <3>3. f[k + 1] \in Nat
      BY <1>1, <2>2, <3>1, <3>2, PlusNat
    <3> QED BY <3>1, <3>3
  <2> HIDE DEF P, j
  <2> QED BY <1>1, <2>1, <2>2, Climb
<1>13. f \in [j..n -> Nat]
  BY <1>9, <1>12
<1> QED
  BY <1>7, <1>10, <1>11, <1>13 DEF Sums

(* The cost of a stretch is a number. *)
LEMMA SinceNat ==
    ASSUME NEW b \in Seq(Entry), NEW i \in 1..(Len(b) + 1), NEW unit \in Units
    PROVE  Since(b, i, unit) \in Nat
<1>1. Len(b) \in (i - 1)..Len(b)
  OBVIOUS
<1>2. PICK f : Sums(f, b, i, unit) /\ Since(b, i, unit) = f[Len(b)]
  BY SinceIs
<1> QED
  BY <1>1, <1>2 DEF Sums

(* Nothing is admitted behind the end. *)
LEMMA SinceNone ==
    ASSUME NEW b \in Seq(Entry), NEW unit \in Units
    PROVE  Since(b, Len(b) + 1, unit) = 0
<1>1. Len(b) + 1 \in 1..(Len(b) + 1) /\ (Len(b) + 1) - 1 = Len(b)
  OBVIOUS
<1>2. PICK f : Sums(f, b, Len(b) + 1, unit) /\ Since(b, Len(b) + 1, unit) = f[Len(b)]
  BY <1>1, SinceIs
<1> QED
  BY <1>1, <1>2 DEF Sums

(* A charge at the end adds its cost, if it is an admission. *)
LEMMA SinceAppend ==
    ASSUME NEW b \in Seq(Entry), NEW e \in Entry, NEW i \in 1..(Len(b) + 1), NEW unit \in Units
    PROVE  Since(Append(b, e), i, unit) = Plus(Since(b, i, unit), e, unit)
<1>1. PICK c : c = Append(b, e)
  OBVIOUS
<1>2. /\ c \in Seq(Entry) /\ Len(c) = Len(b) + 1 /\ c[Len(c)] = e
      /\ \A k \in 1..Len(b) : c[k] = b[k]
  BY <1>1
<1>3. Len(b) \in Nat /\ i \in Nat /\ i - 1 \in Nat /\ i - 1 <= Len(b) /\ i \in 1..(Len(c) + 1)
  BY <1>2
<1>4. PICK f : Sums(f, b, i, unit) /\ Since(b, i, unit) = f[Len(b)]
  BY SinceIs
<1>5. PICK g : Sums(g, c, i, unit) /\ Since(c, i, unit) = g[Len(c)]
  BY <1>2, <1>3, SinceIs
<1> DEFINE P == {k \in (i - 1)..Len(b) : g[k] = f[k]}
<1>6. i - 1 \in P
  BY <1>3, <1>4, <1>5 DEF Sums
<1>7. ASSUME NEW k \in (i - 1)..Len(b), k \in P, k < Len(b) PROVE k + 1 \in P
  <2>1. /\ k + 1 \in i..Len(b) /\ k + 1 \in i..Len(c) /\ k + 1 \in 1..Len(b)
        /\ k + 1 \in (i - 1)..Len(b) /\ (k + 1) - 1 = k
    BY <1>2, <1>3, <1>7
  <2>2. f[k + 1] = Plus(f[k], b[k + 1], unit) /\ g[k + 1] = Plus(g[k], c[k + 1], unit)
    BY <1>4, <1>5, <2>1 DEF Sums
  <2>3. g[k + 1] = f[k + 1]
    BY <1>2, <1>7, <2>1, <2>2
  <2> QED BY <2>1, <2>3
<1>8. \A k \in (i - 1)..Len(b) : k \in P
  <2> HIDE DEF P
  <2> QED BY <1>3, <1>6, <1>7, Climb
<1>9. g[Len(b)] = f[Len(b)]
  BY <1>3, <1>8
<1>10. g[Len(c)] = Plus(g[Len(b)], e, unit)
  <2>1. Len(c) \in i..Len(c) /\ Len(c) - 1 = Len(b)
    BY <1>2, <1>3
  <2> QED BY <1>2, <1>5, <2>1 DEF Sums
<1> QED
  BY <1>1, <1>4, <1>5, <1>9, <1>10

(* A refund makes no stretch more expensive. *)
LEMMA SinceRefund ==
    ASSUME NEW b \in Seq(Entry), NEW c, NEW p \in 1..Len(b), NEW d \in Nat, Refunded(b, c, p, d),
           NEW i \in 1..Len(b), NEW unit \in Units
    PROVE  Since(c, i, unit) <= Since(b, i, unit)
<1>1. /\ Len(b) \in Nat /\ i \in Nat /\ i - 1 \in Nat /\ i - 1 <= Len(b) /\ c \in Seq(Entry)
      /\ Len(c) = Len(b) /\ i \in 1..(Len(b) + 1)
  BY DEF Refunded
<1>2. PICK f : Sums(f, b, i, unit) /\ Since(b, i, unit) = f[Len(b)]
  BY <1>1, SinceIs
<1>3. PICK g : Sums(g, c, i, unit) /\ Since(c, i, unit) = g[Len(c)]
  BY <1>1, SinceIs
<1> DEFINE P == {k \in (i - 1)..Len(b) : g[k] <= f[k]}
<1>4. i - 1 \in P
  BY <1>1, <1>2, <1>3 DEF Sums
<1>5. ASSUME NEW k \in (i - 1)..Len(b), k \in P, k < Len(b) PROVE k + 1 \in P
  <2>1. /\ k + 1 \in i..Len(b) /\ k + 1 \in i..Len(c) /\ k + 1 \in 1..Len(b)
        /\ k + 1 \in (i - 1)..Len(b) /\ (k + 1) - 1 = k
    BY <1>1, <1>5
  <2>2. /\ f[k + 1] = Plus(f[k], b[k + 1], unit) /\ g[k + 1] = Plus(g[k], c[k + 1], unit)
        /\ f[k] \in Nat /\ g[k] \in Nat
    BY <1>1, <1>2, <1>3, <2>1 DEF Sums
  <2>3. /\ b[k + 1] \in Entry /\ c[k + 1] \in Entry
    BY <1>1, <2>1
  <2>4. c[k + 1].lane = b[k + 1].lane /\ c[k + 1].tokens <= b[k + 1].tokens
        /\ c[k + 1].request = b[k + 1].request
    <3>1. CASE k + 1 = p
      <4>1. b[k + 1].tokens \in Nat
        BY <2>3 DEF Entry
      <4> QED BY <3>1, <4>1 DEF Refunded
    <3>2. CASE k + 1 # p
      <4>1. c[k + 1] = b[k + 1] /\ b[k + 1].tokens \in Nat
        BY <2>1, <2>3, <3>2 DEF Refunded, Entry
      <4> QED BY <4>1
    <3> QED BY <3>1, <3>2
  <2>5. c[k + 1][unit] <= b[k + 1][unit] /\ c[k + 1][unit] \in Nat /\ b[k + 1][unit] \in Nat
    <3>1. /\ c[k + 1][unit] \in Nat /\ b[k + 1][unit] \in Nat
          /\ unit = "tokens" => c[k + 1][unit] = c[k + 1].tokens /\ b[k + 1][unit] = b[k + 1].tokens
          /\ unit = "request" => c[k + 1][unit] = c[k + 1].request /\ b[k + 1][unit] = b[k + 1].request
      BY <2>3, UnitNat
    <3>2. CASE unit = "tokens"
      BY <2>4, <3>1, <3>2
    <3>3. CASE unit = "request"
      BY <2>4, <3>1, <3>3
    <3> QED BY <3>2, <3>3 DEF Units
  <2>6. g[k] <= f[k]
    BY <1>5
  <2>7. g[k + 1] <= f[k + 1]
    BY <2>2, <2>4, <2>5, <2>6, SMTT(30) DEF Plus
  <2> QED BY <2>1, <2>7
<1>6. \A k \in (i - 1)..Len(b) : k \in P
  <2> HIDE DEF P
  <2> QED BY <1>1, <1>4, <1>5, Climb
<1>7. Len(b) \in P
  <2> HIDE DEF P
  <2> QED BY <1>1, <1>6
<1> QED
  BY <1>1, <1>2, <1>3, <1>7

(* The token bucket is ahead of every charge by what was admitted since. *)
LEMMA SinceReplay ==
    ASSUME NEW b \in Seq(Entry), NEW i \in 1..Len(b)
    PROVE  b[i].at + Since(b, i, "tokens") <= Replay(b, 0, Charges)
<1>1. /\ Len(b) \in Nat /\ i \in Nat /\ i - 1 \in Nat /\ i - 1 <= Len(b)
      /\ i \in 1..(Len(b) + 1) /\ 0 \in 0..Len(b) /\ "tokens" \in Units
  BY DEF Units
<1>2. PICK f : Follows(f, b, 0, Charges) /\ Replay(b, 0, Charges) = f[Len(b)]
  BY <1>1, ReplayIs
<1>3. PICK g : Sums(g, b, i, "tokens") /\ Since(b, i, "tokens") = g[Len(b)]
  BY <1>1, SinceIs
<1>4. PICK a : a = b[i].at
  OBVIOUS
<1>5. a \in Nat /\ b[i] \in Entry
  BY <1>4, EntryFacts
<1> DEFINE P == {k \in i..Len(b) : a + g[k] <= f[k]}
<1>6. i \in P
  <2>1. /\ i \in 1..Len(b) /\ i \in (0 + 1)..Len(b) /\ i - 1 \in 0..Len(b)
        /\ i - 1 \in (i - 1)..Len(b) /\ i \in i..Len(b)
    BY <1>1
  <2>2. /\ f[i] = Apply(f[i - 1], b[i], Charges) /\ f[i - 1] \in Nat
        /\ g[i] = Plus(g[i - 1], b[i], "tokens") /\ g[i - 1] = 0
    BY <1>2, <1>3, <2>1 DEF Follows, Sums
  <2>3. b[i].tokens \in Nat /\ b[i]["tokens"] = b[i].tokens /\ b[i].lane \in Charges
    BY <1>5, EntryFacts
  <2>4. f[i] = max(f[i - 1], a) + b[i].tokens /\ g[i] \in Nat /\ g[i] <= b[i].tokens
    BY <1>4, <2>2, <2>3 DEF Apply, Plus
  <2>5. a + g[i] <= f[i]
    BY <1>5, <2>2, <2>3, <2>4 DEF max
  <2> QED BY <1>1, <2>5
<1>7. ASSUME NEW k \in i..Len(b), k \in P, k < Len(b) PROVE k + 1 \in P
  <2>1. /\ k + 1 \in i..Len(b) /\ k + 1 \in (0 + 1)..Len(b) /\ k + 1 \in 1..Len(b)
        /\ k \in (i - 1)..Len(b) /\ k \in 0..Len(b) /\ (k + 1) - 1 = k
    BY <1>1, <1>7
  <2>2. /\ f[k + 1] = Apply(f[k], b[k + 1], Charges) /\ f[k] \in Nat
        /\ g[k + 1] = Plus(g[k], b[k + 1], "tokens") /\ g[k] \in Nat
    BY <1>2, <1>3, <2>1 DEF Follows, Sums
  <2>3. /\ b[k + 1] \in Entry /\ b[k + 1].tokens \in Nat /\ b[k + 1].at \in Nat
        /\ b[k + 1]["tokens"] = b[k + 1].tokens /\ b[k + 1].lane \in Charges
    <3>1. b[k + 1] \in Entry
      BY <2>1
    <3> QED BY <3>1, EntryFacts
  <2>4. f[k + 1] = max(f[k], b[k + 1].at) + b[k + 1].tokens
    BY <2>2, <2>3 DEF Apply
  <2>5. g[k + 1] <= g[k] + b[k + 1].tokens /\ g[k + 1] \in Nat
    BY <2>2, <2>3, SMTT(30) DEF Plus
  <2>6. a + g[k] <= f[k]
    BY <1>7
  <2>7. a + g[k + 1] <= f[k + 1]
    <3>1. f[k] + b[k + 1].tokens <= f[k + 1]
      BY <2>2, <2>3, <2>4, SMTT(30) DEF max
    <3>2. f[k + 1] \in Nat
      BY <2>2, <2>3, <2>4 DEF max
    <3> QED BY <1>5, <2>2, <2>3, <2>5, <2>6, <3>1, <3>2, SMTT(30)
  <2> QED BY <2>1, <2>7
<1>8. \A k \in i..Len(b) : k \in P
  <2> HIDE DEF P
  <2> QED BY <1>1, <1>6, <1>7, Climb
<1>9. Len(b) \in P
  <2> HIDE DEF P
  <2> QED BY <1>1, <1>8
<1> QED
  BY <1>2, <1>3, <1>4, <1>9

-----------------------------------------------------------------------------
(* The inductive invariant of the history. *)

(* The history is in the order of the admissions. *)
BookOK ==
    /\ book \in Seq(Entry)
    /\ \A i \in DOMAIN book : book[i].at <= now /\ book[i].seq <= seq
    /\ \A i, k \in DOMAIN book : i < k /\ book[k].seq # 0 => book[i].seq < book[k].seq

(* An open reservation stands in it, with what it was charged; no other has its
   number. *)
Booking ==
    /\ \A r \in open : \E i \in DOMAIN book :
         book[i].seq = res[r].seq /\ book[i].seq # 0 /\ book[i].tokens = res[r].charged
    /\ \A r, o \in open : res[r].seq = res[o].seq => r = o

(* Its shadow is the bucket of the charges after its own. *)
ShadowsExact ==
    \A r \in open, i \in DOMAIN book :
      book[i].seq = res[r].seq =>
        max(res[r].shadow, now) = max(Replay(book, i, Charges), now)

(* The bulk lane's share bounds every suffix of the history. *)
SuffixesKept ==
    \A j \in 0..Len(book) :
      max(Replay(book, j, Charges), now) <=
        BulkTolerance + max(Replay(book, j, Charges \ {"bulk"}), now)

(* The request bucket is ahead of what was admitted; it is never refunded. *)
RequestsCovered == \A i \in DOMAIN book : book[i].at + Since(book, i, "request") <= max(req, now)

QInv == /\ IInv /\ BookOK /\ Booking /\ ShadowsExact /\ OracleExact
        /\ SuffixesKept /\ RequestsCovered /\ RateBound

(* Dividing undoes multiplying. *)
LEMMA DivExact ==
    ASSUME NEW w \in Nat, NEW c \in Nat \ {0}
    PROVE  (w * c) \div c = w
<1>1. PICK a : a = w * c
  OBVIOUS
<1>2. a \in Nat /\ a = c * w
  BY <1>1
<1>3. PICK q : q = a \div c
  OBVIOUS
<1>4. q \in Nat /\ c * q <= a /\ a < c * (q + 1)
  BY <1>2, <1>3
<1>5. q <= w /\ w <= q
  <2>1. q <= w
    BY <1>2, <1>3, DivAtMost
  <2>2. c * w < c * (q + 1)
    BY <1>2, <1>4
  <2>3. w < q + 1
    BY <1>4, <2>2
  <2> QED BY <1>4, <2>1, <2>3
<1> QED
  BY <1>1, <1>3, <1>4, <1>5

(* BulkTolerance is the widest tolerance of the bulk lane (newDim). *)
LEMMA WidestTolerance ==
    /\ BulkTolerance \in Nat
    /\ \A l \in LimitsSet : valid(l) => newDim(l.TPM, "bulk", l.XUReserve).tol <= BulkTolerance
<1> DEFINE share(l) == max((window * (reserveScale - l.XUReserve)) \div reserveScale, cost(l.TPM, 1))
           tols == {share(l) : l \in {k \in LimitsSet : valid(k)}}
           all == {0} \cup tols
           T == {window - x : x \in all}
<1>1. ASSUME NEW l \in LimitsSet, valid(l)
      PROVE  share(l) = newDim(l.TPM, "bulk", l.XUReserve).tol
  <2>1. l.TPM \in Nat \ {0} /\ l.XUReserve \in 0..reserveScale
    BY <1>1, LimitsAssumption DEF valid
  <2>2. CASE l.XUReserve > 0
    BY <2>2 DEF newDim
  <2>3. CASE l.XUReserve = 0
    <3>1. (window * reserveScale) \div reserveScale = window
      BY DivExact, WindowAssumption
    <3>2. reserveScale - l.XUReserve = reserveScale
      BY <2>3, WindowAssumption
    <3>3. cost(l.TPM, 1) \in Nat /\ cost(l.TPM, 1) <= window
      BY <2>1, UnitCost
    <3>4. share(l) = window
      BY <3>1, <3>2, <3>3, WindowAssumption DEF max
    <3>5. newDim(l.TPM, "bulk", l.XUReserve).tol = window
      BY <2>3 DEF newDim
    <3> QED BY <3>4, <3>5
  <2> QED BY <2>1, <2>2, <2>3
<1>2. ASSUME NEW l \in LimitsSet, valid(l) PROVE share(l) \in 0..window
  <2>1. l.TPM \in Nat \ {0} /\ l.XUReserve \in 0..reserveScale
    BY <1>2, LimitsAssumption DEF valid
  <2>2. newDim(l.TPM, "bulk", l.XUReserve).tol \in 0..window
    BY <2>1, DimBounds, WindowAssumption
  <2> HIDE DEF share
  <2> QED BY <1>1, <1>2, <2>2
<1> HIDE DEF share
<1>3. \A x \in all : x \in 0..window
  BY <1>2, WindowAssumption
<1>4. T \in SUBSET Nat /\ T # {}
  BY <1>3, WindowAssumption
<1>5. PICK m \in T : \A y \in T : m <= y
  <2> HIDE DEF T
  <2> QED BY <1>4, NatMin
<1>6. PICK t \in all : m = window - t
  OBVIOUS
<1>7. \A x \in all : x <= t
  <2> SUFFICES ASSUME NEW x \in all PROVE x <= t
    OBVIOUS
  <2>1. window - t <= window - x
    BY <1>5, <1>6
  <2>2. x \in 0..window /\ t \in 0..window
    BY <1>3
  <2> QED BY <2>1, <2>2, WindowAssumption
<1>8. \E s \in all : \A x \in tols : x <= s
  BY <1>7
<1>9. BulkTolerance = CHOOSE s \in all : \A x \in tols : x <= s
  BY Zenon DEF BulkTolerance, share
<1>10. BulkTolerance \in all /\ \A x \in tols : x <= BulkTolerance
  <2> HIDE DEF all, tols
  <2> QED BY <1>8, <1>9
<1>11. \A l \in LimitsSet : valid(l) => share(l) <= BulkTolerance
  BY <1>10
<1> QED
  BY <1>1, <1>3, <1>10, <1>11

(* What an admission does to one bucket: it moves forward by the cost, and stands
   at most the tolerance ahead of the clock (dim.admit). *)
LEMMA AdmitExact ==
    ASSUME NEW d, NEW n, d.tol \in Nat, cost(d.limit, n) \in Nat,
           NEW tat \in Nat, NEW t \in Nat, admit(d, tat, t, n).ok,
           admit(d, tat, t, n).next < MaxInt64
    PROVE  /\ admit(d, tat, t, n).next = max(tat, t) + cost(d.limit, n)
           /\ admit(d, tat, t, n).next <= t + d.tol
<1>1. PICK c, tol, need : /\ c = cost(d.limit, n) /\ tol = d.tol
                          /\ need = satAdd(backlog(tat, t), c)
  OBVIOUS
<1>2. c \in Nat /\ tol \in Nat /\ MaxInt64 \in Nat
  BY <1>1, WindowAssumption
<1>3. ~(need > tol) /\ admit(d, tat, t, n).next = satAdd(max(tat, t), c)
  BY <1>1 DEF admit
<1>4. satAdd(max(tat, t), c) < MaxInt64
  BY <1>3
<1>5. satAdd(max(tat, t), c) = max(tat, t) + c /\ max(tat, t) + c < MaxInt64
  BY <1>2, <1>4 DEF satAdd, min, max
<1>6. need = (max(tat, t) - t) + c
  BY <1>1, <1>2, <1>5 DEF satAdd, backlog, min, max
<1>7. max(tat, t) + c <= t + tol
  BY <1>2, <1>3, <1>6 DEF max
<1> QED
  BY <1>1, <1>3, <1>5, <1>7

(* A reservation with a number stands at one place of the history only. *)
LEMMA OnePlace ==
    ASSUME BookOK, NEW i \in DOMAIN book, NEW k \in DOMAIN book,
           book[i].seq = book[k].seq, book[i].seq # 0
    PROVE  i = k
<1>1. i \in Nat /\ k \in Nat /\ book[i].seq \in Nat /\ book[k].seq \in Nat
  BY EntryFacts DEF BookOK
<1>2. ~(i < k) /\ ~(k < i)
  BY <1>1 DEF BookOK
<1> QED
  BY <1>1, <1>2

(* What the invariant says of the numbers. *)
LEMMA QuotaTypes ==
    ASSUME QInv
    PROVE  /\ now \in Nat /\ tok \in Nat /\ req \in Nat /\ seq \in Nat /\ MaxInt64 \in Nat
           /\ BulkTolerance \in Nat /\ window \in Nat
           /\ book \in Seq(Entry) /\ Len(book) \in Nat /\ DOMAIN book = 1..Len(book)
           /\ open \subseteq Requests /\ res \in [Requests -> Reservation]
<1>1. TypeOK /\ BookOK
  BY DEF QInv, IInv
<1> QED
  BY <1>1, WindowAssumption, WidestTolerance DEF TypeOK, BookOK

(* A reservation is a record of numbers. *)
LEMMA ReservationFacts ==
    ASSUME NEW x \in Reservation
    PROVE  x.shadow \in Nat /\ x.charged \in Nat /\ x.seq \in Nat /\ x.tpm \in Nat
BY DEF Reservation

(* No shadow is ahead of the bucket. *)
LEMMA ShadowBehind ==
    ASSUME QInv, NEW r \in open
    PROVE  max(res[r].shadow, now) <= max(tok, now)
<1>1. /\ now \in Nat /\ tok \in Nat /\ book \in Seq(Entry) /\ Len(book) \in Nat
      /\ DOMAIN book = 1..Len(book)
  BY QuotaTypes
<1>2. PICK i \in DOMAIN book : book[i].seq = res[r].seq
  BY DEF QInv, Booking
<1>3. i \in 0..Len(book) /\ 0 \in 0..Len(book)
  BY <1>1, <1>2
<1>4. max(res[r].shadow, now) = max(Replay(book, i, Charges), now)
  BY <1>2 DEF QInv, ShadowsExact
<1>5. max(tok, now) = max(Replay(book, 0, Charges), now)
  BY DEF QInv, OracleExact
<1>6. /\ Replay(book, i, Charges) <= Replay(book, 0, Charges)
      /\ Replay(book, i, Charges) \in Nat /\ Replay(book, 0, Charges) \in Nat
  BY <1>1, <1>3, ReplayShorter, ReplayNat
<1> QED
  BY <1>1, <1>4, <1>5, <1>6 DEF max

(* A charge made now, in the bucket and in the history. *)
ChargedNow(e) ==
    /\ e \in Entry /\ e.at = now /\ now' = now
    /\ book' = Append(book, e)
    /\ tok' = max(tok, now) + e.tokens
    /\ e.lane = "bulk" => tok' <= now + BulkTolerance

(* It moves the bucket of every stretch of the history alike. *)
LEMMA ChargeReplays ==
    ASSUME QInv, NEW e, ChargedNow(e), NEW j \in 0..Len(book), NEW lanes
    PROVE  Replay(book', j, lanes) =
             IF e.lane \in lanes THEN max(Replay(book, j, lanes), now) + e.tokens
             ELSE Replay(book, j, lanes)
<1>1. book \in Seq(Entry)
  BY QuotaTypes
<1>2. Replay(Append(book, e), j, lanes) = Apply(Replay(book, j, lanes), e, lanes)
  BY <1>1, ReplayAppend DEF ChargedNow
<1> QED
  BY <1>2 DEF ChargedNow, Apply

(* It keeps the oracle and the bulk share. *)
LEMMA ChargeKeeps ==
    ASSUME QInv, NEW e, ChargedNow(e)
    PROVE  OracleExact' /\ SuffixesKept'
<1>1. /\ now \in Nat /\ tok \in Nat /\ book \in Seq(Entry) /\ Len(book) \in Nat
      /\ BulkTolerance \in Nat
  BY QuotaTypes
<1>2. /\ e \in Entry /\ e.tokens \in Nat /\ e.lane \in Charges /\ now' = now
      /\ book' = Append(book, e) /\ tok' = max(tok, now) + e.tokens
  BY EntryFacts DEF ChargedNow
<1>3. book' \in Seq(Entry) /\ Len(book') = Len(book) + 1
  BY <1>1, <1>2
<1>4. 0 \in 0..Len(book)
  BY <1>1
<1>5. max(tok, now) = max(Replay(book, 0, Charges), now)
  BY DEF QInv, OracleExact
<1>6. OracleExact'
  <2>1. Replay(book', 0, Charges) = max(Replay(book, 0, Charges), now) + e.tokens
    BY <1>2, <1>4, ChargeReplays
  <2>2. Replay(book', 0, Charges) = tok'
    BY <1>2, <1>5, <2>1
  <2>3. max(tok', now') = max(Replay(book', 0, Charges), now')
    BY <2>2
  <2> QED BY <2>3 DEF OracleExact
<1>7. ASSUME NEW j \in 0..Len(book')
      PROVE  max(Replay(book', j, Charges), now) <=
               BulkTolerance + max(Replay(book', j, Charges \ {"bulk"}), now)
  <2>1. CASE j = Len(book')
    <3>1. Replay(book', j, Charges) = 0 /\ Replay(book', j, Charges \ {"bulk"}) = 0
      BY <1>3, <2>1, ReplayNone
    <3> QED BY <1>1, <3>1 DEF max
  <2>2. CASE j # Len(book')
    <3>1. j \in 0..Len(book)
      BY <1>1, <1>3, <2>2
    <3>2. PICK R, U : R = Replay(book, j, Charges) /\ U = Replay(book, j, Charges \ {"bulk"})
      OBVIOUS
    <3>3. R \in Nat /\ U \in Nat
      BY <1>1, <3>1, <3>2, ReplayNat
    <3>4. max(R, now) <= BulkTolerance + max(U, now)
      BY <3>1, <3>2 DEF QInv, SuffixesKept
    <3>5. Replay(book', j, Charges) = max(R, now) + e.tokens
      BY <1>2, <3>1, <3>2, ChargeReplays
    <3>6. CASE e.lane = "bulk"
      <4>1. Replay(book', j, Charges \ {"bulk"}) = U
        BY <3>1, <3>2, <3>6, ChargeReplays
      <4>2. tok' <= now + BulkTolerance
        BY <3>6 DEF ChargedNow
      <4>3. R <= Replay(book, 0, Charges) /\ Replay(book, 0, Charges) \in Nat
        <5>1. j \in 0..Len(book)
          BY <3>1
        <5> QED BY <1>1, <1>4, <3>2, <5>1, ReplayShorter, ReplayNat
      <4>4. max(R, now) <= max(tok, now)
        BY <1>1, <1>5, <3>3, <4>3 DEF max
      <4>5. max(R, now) + e.tokens <= now + BulkTolerance
        BY <1>1, <1>2, <3>3, <4>2, <4>4 DEF max
      <4> QED BY <1>1, <1>2, <3>3, <3>5, <4>1, <4>5 DEF max
    <3>7. CASE e.lane # "bulk"
      <4>1. Replay(book', j, Charges \ {"bulk"}) = max(U, now) + e.tokens
        BY <1>2, <3>1, <3>2, <3>7, ChargeReplays
      <4> QED BY <1>1, <1>2, <3>3, <3>4, <3>5, <4>1, SMTT(30) DEF max
    <3> QED BY <3>6, <3>7
  <2> QED BY <2>1, <2>2
<1>8. SuffixesKept'
  <2>1. BulkTolerance' = BulkTolerance
    OBVIOUS
  <2> QED BY <1>2, <1>7 DEF SuffixesKept
<1> QED
  BY <1>6, <1>8

(* The rule of refund is a maximum. *)
LEMMA RefundIs ==
    ASSUME NEW x \in Nat, NEW t \in Nat, NEW y \in Nat, y <= max(x, t), NEW d \in Nat
    PROVE  refund(x, t, y, d) = max(max(x, t) - d, y)
BY DEF refund, max, min

(* A bucket x that shows R, refunded behind y that shows S, shows the refunded R. *)
LEMMA RefundShows ==
    ASSUME NEW x \in Nat, NEW y \in Nat, NEW t \in Nat, NEW d \in Nat, NEW R \in Nat, NEW S \in Nat,
           max(x, t) = max(R, t), max(y, t) = max(S, t), S <= R
    PROVE  max(refund(x, t, max(y, t), d), t) = max(max(R - d, S), t)
<1>1. max(y, t) \in Nat /\ max(y, t) <= max(x, t)
  BY DEF max
<1>2. refund(x, t, max(y, t), d) = max(max(x, t) - d, max(y, t))
  BY <1>1, RefundIs
<1>3. max(max(max(R, t) - d, max(S, t)), t) = max(max(R - d, S), t)
  BY DEF max
<1> QED
  BY <1>2, <1>3

(* A refund of d to r, which stands at p, in the bucket and in the history. *)
RefundedNow(r, p, d) ==
    /\ r \in open /\ p \in DOMAIN book /\ book[p].seq = res[r].seq /\ d \in Nat
    /\ now' = now /\ Refunded(book, book', p, d)
    /\ max(tok', now) = max(refund(tok, now, max(res[r].shadow, now), d), now)

(* The bucket of a stretch that holds the refunded charge, and of one that does
   not. *)
LEMMA RefundReplays ==
    ASSUME QInv, NEW r, NEW p, NEW d, RefundedNow(r, p, d), NEW j \in 0..Len(book), NEW lanes
    PROVE  Replay(book', j, lanes) =
             IF j < p /\ book[p].lane \in lanes
             THEN max(Replay(book, j, lanes) - d, Replay(book, p, lanes))
             ELSE Replay(book, j, lanes)
<1>1. /\ book \in Seq(Entry) /\ Len(book) \in Nat /\ p \in 1..Len(book) /\ d \in Nat
      /\ Refunded(book, book', p, d)
  BY QuotaTypes DEF RefundedNow
<1>2. CASE j < p /\ book[p].lane \in lanes
  <2>1. j \in 0..(p - 1)
    BY <1>1, <1>2
  <2> QED BY <1>1, <1>2, <2>1, ReplayRefund
<1>3. CASE book[p].lane \notin lanes
  BY <1>1, <1>3, ReplayOther
<1>4. CASE ~(j < p)
  <2>1. \A k \in (j + 1)..Len(book) : book[k] = book'[k]
    BY <1>1, <1>4 DEF Refunded
  <2>2. Replay(book', j, lanes) = Replay(book, j, lanes)
    BY <1>1, <2>1, ReplaySame DEF Refunded
  <2> QED BY <1>4, <2>2
<1> QED
  BY <1>2, <1>3, <1>4

(* A refund keeps the oracle and the bulk share. *)
LEMMA RefundKeeps ==
    ASSUME QInv, NEW r, NEW p, NEW d, RefundedNow(r, p, d)
    PROVE  OracleExact' /\ SuffixesKept'
<1>1. /\ now \in Nat /\ tok \in Nat /\ book \in Seq(Entry) /\ Len(book) \in Nat
      /\ BulkTolerance \in Nat /\ p \in 1..Len(book) /\ d \in Nat /\ now' = now
      /\ 0 \in 0..Len(book) /\ p \in 0..Len(book) /\ 0 < p
      /\ r \in open /\ res[r] \in Reservation /\ book[p] \in Entry
  BY QuotaTypes DEF RefundedNow
<1>2. Len(book') = Len(book) /\ book[p].lane \in Charges /\ res[r].shadow \in Nat
  BY <1>1, EntryFacts, ReservationFacts DEF RefundedNow, Refunded
<1>3. OracleExact'
  <2>1. PICK R, S : R = Replay(book, 0, Charges) /\ S = Replay(book, p, Charges)
    OBVIOUS
  <2>2. R \in Nat /\ S \in Nat /\ S <= R
    BY <1>1, <2>1, ReplayNat, ReplayShorter
  <2>3. max(tok, now) = max(R, now) /\ max(res[r].shadow, now) = max(S, now)
    BY <2>1 DEF QInv, OracleExact, ShadowsExact, RefundedNow
  <2>4. max(refund(tok, now, max(res[r].shadow, now), d), now) = max(max(R - d, S), now)
    <3>1. PICK y : y = res[r].shadow /\ y \in Nat
      BY <1>2
    <3>2. max(y, now) = max(S, now)
      BY <2>3, <3>1
    <3>3. tok \in Nat /\ now \in Nat /\ d \in Nat /\ max(tok, now) = max(R, now)
      BY <1>1, <2>3
    <3>4. max(refund(tok, now, max(y, now), d), now) = max(max(R - d, S), now)
      BY <2>2, <3>1, <3>2, <3>3, RefundShows
    <3> QED BY <3>1, <3>4
  <2>5. Replay(book', 0, Charges) = max(R - d, S)
    BY <1>1, <1>2, <2>1, RefundReplays
  <2>6. max(tok', now) = max(Replay(book', 0, Charges), now)
    BY <2>4, <2>5 DEF RefundedNow
  <2> QED BY <1>1, <2>6 DEF OracleExact
<1>4. ASSUME NEW j \in 0..Len(book)
      PROVE  max(Replay(book', j, Charges), now) <=
               BulkTolerance + max(Replay(book', j, Charges \ {"bulk"}), now)
  <2>1. PICK R, U, S, V : /\ R = Replay(book, j, Charges) /\ U = Replay(book, j, Charges \ {"bulk"})
                          /\ S = Replay(book, p, Charges) /\ V = Replay(book, p, Charges \ {"bulk"})
    OBVIOUS
  <2>2. R \in Nat /\ U \in Nat /\ S \in Nat /\ V \in Nat
    BY <1>1, <2>1, ReplayNat
  <2>3. max(R, now) <= BulkTolerance + max(U, now) /\ max(S, now) <= BulkTolerance + max(V, now)
    BY <1>1, <2>1 DEF QInv, SuffixesKept
  <2>4. Replay(book', j, Charges) = IF j < p THEN max(R - d, S) ELSE R
    BY <1>2, <2>1, RefundReplays
  <2>5. CASE ~(j < p)
    <3>1. Replay(book', j, Charges \ {"bulk"}) = U
      BY <2>1, <2>5, RefundReplays
    <3> QED BY <2>3, <2>4, <2>5, <3>1
  <2>6. CASE j < p /\ book[p].lane # "bulk"
    <3>1. Replay(book', j, Charges \ {"bulk"}) = max(U - d, V)
      BY <1>2, <2>1, <2>6, RefundReplays
    <3>2. max(max(R - d, S), now) <= BulkTolerance + max(max(U - d, V), now)
      BY <1>1, <2>2, <2>3 DEF max
    <3> QED BY <2>4, <2>6, <3>1, <3>2
  <2>7. CASE j < p /\ book[p].lane = "bulk"
    <3>1. Replay(book', j, Charges \ {"bulk"}) = U
      BY <2>1, <2>7, RefundReplays
    <3>2. S <= R
      <4>1. p \in j..Len(book)
        BY <1>1, <2>7
      <4> QED BY <1>1, <2>1, <4>1, ReplayShorter
    <3>3. max(max(R - d, S), now) <= max(R, now)
      BY <1>1, <2>2, <3>2 DEF max
    <3>4. max(max(R - d, S), now) \in Nat /\ max(R, now) \in Nat /\ max(U, now) \in Nat
      BY <1>1, <2>2 DEF max
    <3>5. max(max(R - d, S), now) <= BulkTolerance + max(U, now)
      BY <1>1, <2>3, <3>3, <3>4
    <3> QED BY <2>4, <2>7, <3>1, <3>5
  <2> QED BY <2>5, <2>6, <2>7
<1>5. SuffixesKept'
  <2>1. BulkTolerance' = BulkTolerance
    OBVIOUS
  <2> QED BY <1>1, <1>2, <1>4 DEF SuffixesKept
<1> QED
  BY <1>3, <1>5

(* What an admission does, without saturation (Meter.Admit). *)
LEMMA AdmitFacts ==
    ASSUME QInv, NEW r \in Requests, NEW lane \in Lanes, NEW l \in LimitsSet, NEW n \in Estimates,
           Admit(r, lane, l, n), tok' < MaxInt64, req' < MaxInt64
    PROVE  \E e \in Entry :
             /\ e.lane = lane /\ e.seq = seq + 1 /\ e.at = now
             /\ book' = Append(book, e)
             /\ tok' = max(tok, now) + e.tokens /\ tok' <= now + window
             /\ lane = "bulk" => tok' <= now + BulkTolerance
             /\ req' = max(req, now) + e.request /\ req' <= now + window
             /\ now' = now /\ seq' = seq + 1 /\ r \notin open /\ open' = open \cup {r}
             /\ res'[r].seq = seq + 1 /\ res'[r].charged = e.tokens /\ res'[r].shadow = now
             /\ \A o \in open : /\ res'[o].seq = res[o].seq /\ res'[o].charged = res[o].charged
                                /\ res'[o].shadow = max(res[o].shadow, now) + e.tokens
<1>1. /\ now \in Nat /\ tok \in Nat /\ req \in Nat /\ seq \in Nat /\ MaxInt64 \in Nat
      /\ BulkTolerance \in Nat /\ window \in Nat /\ open \subseteq Requests
      /\ res \in [Requests -> Reservation]
  BY QuotaTypes
<1>2. valid(l) /\ ReqAt(l, lane, now).ok /\ TokAt(l, lane, n, now).ok
  BY DEF Admit, Decision, Answer
<1>3. l.RPM \in Nat \ {0} /\ l.TPM \in Nat \ {0} /\ l.XUReserve \in 0..reserveScale /\ l.TPM >= 1
  BY <1>2, LimitsAssumption DEF valid
<1>4. PICK dr, dt, ch : /\ dr = newDim(l.RPM, lane, l.XUReserve)
                        /\ dt = newDim(l.TPM, lane, l.XUReserve)
                        /\ ch = Charge(l, lane, n)
  OBVIOUS
<1>5. PICK c, cr : c = cost(l.TPM, ch) /\ cr = cost(l.RPM, 1)
  OBVIOUS
<1>6. ch \in Nat /\ c \in Nat /\ cr \in Nat
  BY <1>3, <1>4, <1>5, ChargeNat, CostNat, RequestAssumption
<1>7. /\ dr.tol \in Nat /\ dr.tol <= window /\ dr.limit = l.RPM
      /\ dt.tol \in Nat /\ dt.tol <= window /\ dt.limit = l.TPM
  BY <1>3, <1>4, DimBounds
<1>8. ReqAt(l, lane, now) = admit(dr, req, now, 1) /\ TokAt(l, lane, n, now) = admit(dt, tok, now, ch)
  BY <1>4 DEF ReqAt, TokAt
<1>9. req' = admit(dr, req, now, 1).next /\ tok' = admit(dt, tok, now, ch).next
  BY <1>8 DEF Admit
<1>10. req' = max(req, now) + cr /\ req' <= now + dr.tol
  BY <1>1, <1>2, <1>5, <1>6, <1>7, <1>8, <1>9, AdmitExact
<1>11. tok' = max(tok, now) + c /\ tok' <= now + dt.tol
  BY <1>1, <1>2, <1>5, <1>6, <1>7, <1>8, <1>9, AdmitExact
<1>12. req' \in Nat /\ tok' \in Nat /\ max(tok, now) \in Nat
  BY <1>1, <1>6, <1>10, <1>11 DEF max
<1>13. req' <= now + window /\ tok' <= now + window
  BY <1>1, <1>7, <1>10, <1>11, <1>12
<1>14. lane = "bulk" => tok' <= now + BulkTolerance
  <2> SUFFICES ASSUME lane = "bulk" PROVE tok' <= now + BulkTolerance
    OBVIOUS
  <2>1. dt.tol <= BulkTolerance
    BY <1>2, <1>4, WidestTolerance
  <2> QED BY <1>1, <1>7, <1>11, <1>12, <2>1
<1>15. r \notin open
  BY DEF Admit, QInv, IInv, TypeOK
<1>16. PICK e : e = [seq |-> seq + 1, lane |-> lane, at |-> now, tokens |-> c, request |-> cr]
  OBVIOUS
<1>17. /\ e \in Entry /\ e.lane = lane /\ e.seq = seq + 1 /\ e.at = now /\ e.tokens = c
       /\ e.request = cr
  BY <1>1, <1>6, <1>16 DEF Entry, Charges
<1>18. book' = Append(book, e) /\ now' = now /\ seq' = seq + 1 /\ open' = open \cup {r}
  BY <1>4, <1>5, <1>16 DEF Admit
<1>19. TokAt(l, lane, n, now).next - max(tok, now) = c
  BY <1>6, <1>8, <1>9, <1>11, <1>12
<1>20. res' = [raise(res, open, c) EXCEPT
                 ![r] = [phase |-> "open", lane |-> lane, tpm |-> l.TPM,
                         charged |-> c, shadow |-> now, seq |-> seq + 1]]
  BY <1>4, <1>5, <1>19 DEF Admit
<1>21. DOMAIN raise(res, open, c) = Requests
  BY DEF raise
<1>22. res'[r].seq = seq + 1 /\ res'[r].charged = c /\ res'[r].shadow = now
  BY <1>20, <1>21
<1>23. ASSUME NEW o \in open
       PROVE  /\ res'[o].seq = res[o].seq /\ res'[o].charged = res[o].charged
              /\ res'[o].shadow = max(res[o].shadow, now) + c
  <2>1. o # r /\ o \in Requests /\ res[o] \in Reservation
    BY <1>1, <1>15
  <2>2. res'[o] = [res[o] EXCEPT !.shadow = satAdd(max(@, now), c)]
    BY <1>20, <1>21, <2>1 DEF raise
  <2>3. satAdd(max(res[o].shadow, now), c) = max(res[o].shadow, now) + c
    <3>1. max(res[o].shadow, now) <= max(tok, now) /\ max(res[o].shadow, now) \in Nat
      BY <1>1, <2>1, ShadowBehind, ReservationFacts DEF max
    <3>2. max(res[o].shadow, now) + c <= MaxInt64
      BY <1>1, <1>6, <1>11, <1>12, <3>1
    <3> QED BY <1>1, <1>6, <3>1, <3>2 DEF satAdd, min
  <2> QED BY <2>1, <2>2, <2>3 DEF Reservation
<1> QED
  BY <1>10, <1>11, <1>13, <1>14, <1>15, <1>17, <1>18, <1>22, <1>23

(* No bucket has reached the end of the int64 clock, where the additions saturate
   (satAdd). *)
Unsaturated == tok < MaxInt64 /\ req < MaxInt64

(* A charge made now keeps the shadow of a reservation exact. *)
LEMMA ChargeShadow ==
    ASSUME QInv, NEW e, ChargedNow(e), e.lane \in Charges, NEW o \in open,
           NEW i \in DOMAIN book, book[i].seq = res[o].seq,
           res'[o].shadow = max(res[o].shadow, now) + e.tokens
    PROVE  max(res'[o].shadow, now') = max(Replay(book', i, Charges), now')
<1>1. /\ i \in 0..Len(book) /\ now' = now /\ res[o] \in Reservation
  BY QuotaTypes DEF ChargedNow
<1>2. Replay(book', i, Charges) = max(Replay(book, i, Charges), now) + e.tokens
  BY <1>1, ChargeReplays
<1>3. max(res[o].shadow, now) = max(Replay(book, i, Charges), now)
  BY DEF QInv, ShadowsExact
<1> QED
  BY <1>1, <1>2, <1>3

(* An admission keeps the invariant (Meter.Admit). *)
LEMMA AdmitQuota ==
    ASSUME QInv, NEW r \in Requests, NEW lane \in Lanes, NEW l \in LimitsSet, NEW n \in Estimates,
           Admit(r, lane, l, n), Unsaturated'
    PROVE  QInv'
<1>1. /\ now \in Nat /\ tok \in Nat /\ req \in Nat /\ seq \in Nat /\ window \in Nat
      /\ book \in Seq(Entry) /\ Len(book) \in Nat /\ DOMAIN book = 1..Len(book)
  BY QuotaTypes
<1>2. tok' < MaxInt64 /\ req' < MaxInt64
  BY DEF Unsaturated
<1>3. PICK e \in Entry :
             /\ e.lane = lane /\ e.seq = seq + 1 /\ e.at = now
             /\ book' = Append(book, e)
             /\ tok' = max(tok, now) + e.tokens /\ tok' <= now + window
             /\ lane = "bulk" => tok' <= now + BulkTolerance
             /\ req' = max(req, now) + e.request /\ req' <= now + window
             /\ now' = now /\ seq' = seq + 1 /\ r \notin open /\ open' = open \cup {r}
             /\ res'[r].seq = seq + 1 /\ res'[r].charged = e.tokens /\ res'[r].shadow = now
             /\ \A o \in open : /\ res'[o].seq = res[o].seq /\ res'[o].charged = res[o].charged
                                /\ res'[o].shadow = max(res[o].shadow, now) + e.tokens
  BY <1>2, AdmitFacts
<1>4. ChargedNow(e) /\ e.lane \in Charges /\ e.lane \in Lanes
  BY <1>3 DEF ChargedNow, Charges
<1>5. OracleExact' /\ SuffixesKept'
  BY <1>4, ChargeKeeps
<1>6. IInv'
  BY AdmitInv DEF QInv
<1>7. /\ book' \in Seq(Entry) /\ Len(book') = Len(book) + 1 /\ DOMAIN book' = 1..(Len(book) + 1)
      /\ book'[Len(book) + 1] = e /\ \A i \in 1..Len(book) : book'[i] = book[i]
      /\ \A i \in 1..(Len(book) + 1) : i \in 1..Len(book) \/ i = Len(book) + 1
  BY <1>1, <1>3
<1>8. \A i \in DOMAIN book : book[i].seq \in Nat /\ book[i].seq <= seq /\ book[i].at <= now
  BY <1>1, EntryFacts DEF QInv, BookOK
<1>9. BookOK'
  <2>1. \A i \in DOMAIN book' : book'[i].at <= now' /\ book'[i].seq <= seq'
    BY <1>1, <1>3, <1>7, <1>8
  <2>2. ASSUME NEW i \in DOMAIN book', NEW k \in DOMAIN book', i < k, book'[k].seq # 0
        PROVE  book'[i].seq < book'[k].seq
    <3>1. CASE k = Len(book) + 1
      <4>1. i \in 1..Len(book)
        BY <1>7, <2>2, <3>1
      <4> QED BY <1>1, <1>3, <1>7, <1>8, <3>1, <4>1
    <3>2. CASE k \in 1..Len(book)
      <4>1. i \in 1..Len(book)
        BY <1>1, <1>7, <2>2, <3>2
      <4> QED BY <1>1, <1>7, <2>2, <3>2, <4>1 DEF QInv, BookOK
    <3> QED BY <1>7, <3>1, <3>2
  <2> QED BY <1>7, <2>1, <2>2 DEF BookOK
<1>10. ASSUME NEW o \in open
       PROVE  \E i \in 1..Len(book) : /\ book[i].seq = res[o].seq /\ book[i].seq # 0
                                      /\ book[i].tokens = res[o].charged
  BY <1>1 DEF QInv, Booking
<1>11. \A o \in open : res'[o].seq <= seq /\ res'[o].seq # seq + 1
  <2> SUFFICES ASSUME NEW o \in open PROVE res'[o].seq <= seq /\ res'[o].seq # seq + 1
    OBVIOUS
  <2>1. PICK i \in 1..Len(book) : book[i].seq = res[o].seq
    BY <1>10
  <2> QED BY <1>1, <1>3, <1>8, <2>1, SMTT(30)
<1>12. Booking'
  <2>1. ASSUME NEW o \in open'
        PROVE  \E i \in DOMAIN book' : /\ book'[i].seq = res'[o].seq /\ book'[i].seq # 0
                                       /\ book'[i].tokens = res'[o].charged
    <3>1. CASE o = r
      <4>1. Len(book) + 1 \in DOMAIN book'
        BY <1>1, <1>7
      <4> QED BY <1>1, <1>3, <1>7, <3>1, <4>1
    <3>2. CASE o \in open
      <4>1. PICK i \in 1..Len(book) : /\ book[i].seq = res[o].seq /\ book[i].seq # 0
                                      /\ book[i].tokens = res[o].charged
        BY <1>10, <3>2
      <4>2. i \in DOMAIN book' /\ book'[i] = book[i]
        BY <1>1, <1>7
      <4> QED BY <1>3, <3>2, <4>1, <4>2
    <3> QED BY <1>3, <3>1, <3>2
  <2>2. ASSUME NEW o \in open', NEW q \in open', res'[o].seq = res'[q].seq PROVE o = q
    <3>1. CASE o \in open /\ q \in open
      BY <1>3, <2>2, <3>1 DEF QInv, Booking
    <3>2. CASE ~(o \in open /\ q \in open)
      BY <1>3, <1>11, <2>2, <3>2
    <3> QED BY <3>1, <3>2
  <2> QED BY <2>1, <2>2 DEF Booking
<1>13. ShadowsExact'
  <2> SUFFICES ASSUME NEW o \in open', NEW i \in DOMAIN book', book'[i].seq = res'[o].seq
               PROVE  max(res'[o].shadow, now') = max(Replay(book', i, Charges), now')
    BY DEF ShadowsExact
  <2>1. CASE o = r
    <3>1. i = Len(book')
      <4>1. i \in 1..Len(book) => book'[i].seq # seq + 1
        BY <1>1, <1>7, <1>8
      <4> QED BY <1>3, <1>7, <2>1, <4>1
    <3>2. Replay(book', i, Charges) = 0
      BY <1>7, <3>1, ReplayNone
    <3> QED BY <1>1, <1>3, <2>1, <3>2 DEF max
  <2>2. CASE o \in open
    <3>1. i \in 1..Len(book)
      BY <1>3, <1>7, <1>11, <2>2
    <3>2. i \in DOMAIN book /\ book[i].seq = res[o].seq
      BY <1>1, <1>3, <1>7, <2>2, <3>1
    <3> QED BY <1>3, <1>4, <2>2, <3>2, ChargeShadow
  <2> QED BY <1>3, <2>1, <2>2
<1>14. \A unit \in Units : e[unit] \in Nat
  BY UnitNat
<1>15. ASSUME NEW i \in DOMAIN book', NEW unit \in Units
       PROVE  /\ Since(book', i, unit) = Since(book, i, unit) + e[unit]
              /\ Since(book, i, unit) \in Nat
  <2>1. i \in 1..(Len(book) + 1)
    BY <1>7
  <2>2. Since(Append(book, e), i, unit) = Plus(Since(book, i, unit), e, unit)
    BY <1>1, <2>1, SinceAppend
  <2>3. Since(book, i, unit) \in Nat
    BY <1>1, <2>1, SinceNat
  <2> QED BY <1>3, <1>4, <2>2, <2>3 DEF Plus
<1>16. /\ e["tokens"] = e.tokens /\ e["request"] = e.request /\ e.tokens \in Nat /\ e.request \in Nat
       /\ "tokens" \in Units /\ "request" \in Units
  BY UnitNat, EntryFacts DEF Units
<1>17. ASSUME NEW i \in DOMAIN book'
       PROVE  /\ book'[i].at \in Nat
              /\ book'[i].at + Since(book, i, "request") <= max(req, now)
              /\ book'[i].at + Since(book, i, "tokens") <= max(tok, now)
  <2>1. CASE i = Len(book) + 1
    <3>1. book'[i].at = now
      BY <1>3, <1>7, <2>1
    <3>2. Since(book, i, "request") = 0 /\ Since(book, i, "tokens") = 0
      BY <1>1, <1>16, <2>1, SinceNone
    <3> QED BY <1>1, <3>1, <3>2 DEF max
  <2>2. CASE i \in 1..Len(book)
    <3>1. book'[i] = book[i] /\ book[i] \in Entry
      BY <1>1, <1>7, <2>2
    <3>2. book[i].at + Since(book, i, "request") <= max(req, now)
      BY <1>1, <2>2 DEF QInv, RequestsCovered
    <3>3. book[i].at + Since(book, i, "tokens") <= Replay(book, 0, Charges)
      BY <1>1, <2>2, SinceReplay
    <3>4. max(tok, now) = max(Replay(book, 0, Charges), now)
      BY DEF QInv, OracleExact
    <3>5. Replay(book, 0, Charges) \in Nat /\ book[i].at \in Nat /\ Since(book, i, "tokens") \in Nat
      <4>1. 0 \in 0..Len(book)
        BY <1>1
      <4> QED BY <1>1, <1>15, <1>16, <2>2, <3>1, <4>1, ReplayNat, EntryFacts, <1>7
    <3>6. Replay(book, 0, Charges) <= max(tok, now)
      BY <1>1, <3>4, <3>5 DEF max
    <3>7. book[i].at + Since(book, i, "tokens") <= max(tok, now)
      BY <1>1, <3>3, <3>5, <3>6 DEF max
    <3> QED BY <3>1, <3>2, <3>5, <3>7
  <2> QED BY <1>7, <2>1, <2>2
<1>18. ASSUME NEW i \in DOMAIN book'
       PROVE  /\ book'[i].at + Since(book', i, "request") <= req'
              /\ book'[i].at + Since(book', i, "tokens") <= tok'
  <2>1. /\ Since(book', i, "request") = Since(book, i, "request") + e.request
        /\ Since(book', i, "tokens") = Since(book, i, "tokens") + e.tokens
        /\ Since(book, i, "request") \in Nat /\ Since(book, i, "tokens") \in Nat
    BY <1>15, <1>16
  <2>2. max(req, now) \in Nat /\ max(tok, now) \in Nat
    BY <1>1 DEF max
  <2>3. req' = max(req, now) + e.request /\ tok' = max(tok, now) + e.tokens
    BY <1>3
  <2>4. /\ book'[i].at \in Nat /\ book'[i].at + Since(book, i, "request") <= max(req, now)
        /\ book'[i].at + Since(book, i, "tokens") <= max(tok, now)
    BY <1>17
  <2>5. e.tokens \in Nat /\ e.request \in Nat
    BY <1>16
  <2>6. book'[i].at + (Since(book, i, "request") + e.request) <= max(req, now) + e.request
    BY <2>1, <2>2, <2>4, <2>5
  <2>7. book'[i].at + (Since(book, i, "tokens") + e.tokens) <= max(tok, now) + e.tokens
    BY <2>1, <2>2, <2>4, <2>5
  <2> QED BY <2>1, <2>3, <2>6, <2>7
<1>19. req' \in Nat /\ tok' \in Nat
  <2>1. req' = max(req, now) + e.request /\ tok' = max(tok, now) + e.tokens
    BY <1>3
  <2>2. e.tokens \in Nat /\ e.request \in Nat
    BY <1>16
  <2>3. max(req, now) \in Nat /\ max(tok, now) \in Nat
    BY <1>1 DEF max
  <2> QED BY <2>1, <2>2, <2>3
<1>20. RequestsCovered'
  <2>1. \A i \in DOMAIN book' : Since(book', i, "request") \in Nat /\ book'[i].at \in Nat
    BY <1>15, <1>16, <1>17
  <2>2. req' <= max(req', now') /\ max(req', now') \in Nat
    BY <1>1, <1>3, <1>19 DEF max
  <2>3. \A i \in DOMAIN book' : book'[i].at + Since(book', i, "request") <= max(req', now')
    BY <1>18, <1>19, <2>1, <2>2
  <2> QED BY <2>3 DEF RequestsCovered
<1>21. RateBound'
  <2> SUFFICES ASSUME NEW i \in DOMAIN book', NEW unit \in Units
               PROVE  Since(book', i, unit) <= window + now' - book'[i].at
    BY DEF RateBound, Units
  <2>1. Since(book', i, unit) \in Nat /\ book'[i].at \in Nat
    BY <1>14, <1>15, <1>17
  <2>2. book'[i].at + Since(book', i, unit) <= now + window
    <3>1. CASE unit = "tokens"
      BY <1>1, <1>3, <1>18, <1>19, <2>1, <3>1, SMTT(30)
    <3>2. CASE unit = "request"
      BY <1>1, <1>3, <1>18, <1>19, <2>1, <3>2, SMTT(30)
    <3> QED BY <3>1, <3>2 DEF Units
  <2> QED BY <1>1, <1>3, <2>1, <2>2
<1> QED
  BY <1>5, <1>6, <1>9, <1>12, <1>13, <1>20, <1>21 DEF QInv

(* An end with an overrun keeps the invariant: a charge of its own, made now
   (Meter.end with delta > 0). *)
LEMMA DebtQuota ==
    ASSUME QInv, NEW r \in open, NEW delta \in Int, delta > 0, end(r, delta), Unsaturated'
    PROVE  QInv'
<1>1. /\ now \in Nat /\ tok \in Nat /\ req \in Nat /\ seq \in Nat /\ window \in Nat
      /\ book \in Seq(Entry) /\ Len(book) \in Nat /\ DOMAIN book = 1..Len(book)
      /\ MaxInt64 \in Nat /\ open \subseteq Requests /\ res \in [Requests -> Reservation]
  BY QuotaTypes
<1>2. /\ now' = now /\ req' = req /\ seq' = seq /\ open' = open \ {r}
      /\ tok' = satAdd(max(tok, now), delta)
      /\ res' = [raise(res, open \ {r}, delta) EXCEPT ![r] = Ended]
  BY DEF end, drop, Shadows
<1>3. max(tok, now) \in Nat /\ delta \in Nat
  BY <1>1 DEF max
<1>4. tok' = max(tok, now) + delta /\ tok' < MaxInt64 /\ tok' \in Nat
  BY <1>1, <1>2, <1>3 DEF Unsaturated, satAdd, min
<1>5. PICK e : e = [seq |-> 0, lane |-> "debt", at |-> now, tokens |-> delta, request |-> 0]
  OBVIOUS
<1>6. /\ e \in Entry /\ e.seq = 0 /\ e.lane = "debt" /\ e.at = now /\ e.tokens = delta
      /\ e.lane \in Charges /\ e.lane \notin Lanes
  BY <1>1, <1>3, <1>5 DEF Entry, Charges, Lanes
<1>7. book' = Append(book, e)
  BY <1>5 DEF end, Booked
<1>8. ChargedNow(e)
  BY <1>2, <1>4, <1>6, <1>7 DEF ChargedNow
<1>9. OracleExact' /\ SuffixesKept'
  BY <1>8, ChargeKeeps
<1>10. IInv'
  BY <1>1, EndInv DEF QInv
<1>11. ASSUME NEW o \in open'
       PROVE  /\ o \in open /\ res'[o].seq = res[o].seq /\ res'[o].charged = res[o].charged
              /\ res'[o].shadow = max(res[o].shadow, now) + e.tokens
  <2>1. o # r /\ o \in open /\ o \in Requests /\ res[o] \in Reservation /\ o \in open \ {r}
    BY <1>1, <1>2
  <2>2. res'[o] = [res[o] EXCEPT !.shadow = satAdd(max(@, now), delta)]
    BY <1>2, <2>1 DEF raise
  <2>3. satAdd(max(res[o].shadow, now), delta) = max(res[o].shadow, now) + delta
    <3>1. max(res[o].shadow, now) <= max(tok, now) /\ max(res[o].shadow, now) \in Nat
      BY <1>1, <2>1, ShadowBehind, ReservationFacts DEF max
    <3>2. max(res[o].shadow, now) + delta <= MaxInt64
      BY <1>1, <1>3, <1>4, <3>1
    <3> QED BY <1>1, <1>3, <3>1, <3>2 DEF satAdd, min
  <2> QED BY <1>6, <2>1, <2>2, <2>3 DEF Reservation
<1>12. /\ book' \in Seq(Entry) /\ Len(book') = Len(book) + 1 /\ DOMAIN book' = 1..(Len(book) + 1)
       /\ book'[Len(book) + 1] = e /\ \A i \in 1..Len(book) : book'[i] = book[i]
       /\ \A i \in 1..(Len(book) + 1) : i \in 1..Len(book) \/ i = Len(book) + 1
  BY <1>1, <1>6, <1>7
<1>13. \A i \in DOMAIN book : book[i].seq \in Nat /\ book[i].seq <= seq /\ book[i].at <= now
  BY <1>1, EntryFacts DEF QInv, BookOK
<1>14. BookOK'
  <2>1. \A i \in DOMAIN book' : book'[i].at <= now' /\ book'[i].seq <= seq'
    BY <1>1, <1>2, <1>6, <1>12, <1>13
  <2>2. ASSUME NEW i \in DOMAIN book', NEW k \in DOMAIN book', i < k, book'[k].seq # 0
        PROVE  book'[i].seq < book'[k].seq
    <3>1. k \in 1..Len(book)
      BY <1>6, <1>12, <2>2
    <3>2. i \in 1..Len(book)
      BY <1>1, <1>12, <2>2, <3>1
    <3> QED BY <1>1, <1>12, <2>2, <3>1, <3>2 DEF QInv, BookOK
  <2> QED BY <1>12, <2>1, <2>2 DEF BookOK
<1>15. ASSUME NEW o \in open'
       PROVE  \E i \in 1..Len(book) : /\ book[i].seq = res[o].seq /\ book[i].seq # 0
                                      /\ book[i].tokens = res[o].charged
  BY <1>1, <1>11 DEF QInv, Booking
<1>16. Booking'
  <2>1. ASSUME NEW o \in open'
        PROVE  \E i \in DOMAIN book' : /\ book'[i].seq = res'[o].seq /\ book'[i].seq # 0
                                       /\ book'[i].tokens = res'[o].charged
    <3>1. PICK i \in 1..Len(book) : /\ book[i].seq = res[o].seq /\ book[i].seq # 0
                                    /\ book[i].tokens = res[o].charged
      BY <1>15
    <3>2. i \in DOMAIN book' /\ book'[i] = book[i]
      BY <1>1, <1>12
    <3> QED BY <1>11, <3>1, <3>2
  <2>2. \A o, q \in open' : res'[o].seq = res'[q].seq => o = q
    BY <1>11 DEF QInv, Booking
  <2> QED BY <2>1, <2>2 DEF Booking
<1>17. ShadowsExact'
  <2> SUFFICES ASSUME NEW o \in open', NEW i \in DOMAIN book', book'[i].seq = res'[o].seq
               PROVE  max(res'[o].shadow, now') = max(Replay(book', i, Charges), now')
    BY DEF ShadowsExact
  <2>1. PICK k \in 1..Len(book) : book[k].seq = res[o].seq /\ book[k].seq # 0
    BY <1>15
  <2>2. res'[o].seq # 0
    BY <1>11, <2>1
  <2>3. i \in 1..Len(book)
    BY <1>6, <1>12, <2>2
  <2>4. i \in DOMAIN book /\ book[i].seq = res[o].seq
    BY <1>1, <1>11, <1>12, <2>3
  <2> QED BY <1>6, <1>8, <1>11, <2>4, ChargeShadow
<1>18. ASSUME NEW i \in DOMAIN book', NEW unit \in Units
       PROVE  Since(book', i, unit) = Since(book, i, unit)
  <2>1. i \in 1..(Len(book) + 1)
    BY <1>12
  <2>2. Since(Append(book, e), i, unit) = Plus(Since(book, i, unit), e, unit)
    BY <1>1, <1>6, <2>1, SinceAppend
  <2> QED BY <1>6, <1>7, <2>2 DEF Plus
<1>19. "tokens" \in Units /\ "request" \in Units
  BY DEF Units
<1>20. ASSUME NEW i \in DOMAIN book'
       PROVE  book'[i].at + Since(book', i, "request") <= max(req', now')
  <2>1. CASE i = Len(book) + 1
    <3>1. book'[i].at = now /\ Since(book', i, "request") = 0
      BY <1>1, <1>6, <1>12, <1>18, <1>19, <2>1, SinceNone
    <3> QED BY <1>1, <1>2, <3>1 DEF max
  <2>2. CASE i \in 1..Len(book)
    <3>1. book[i].at + Since(book, i, "request") <= max(req, now)
      BY <1>1, <2>2 DEF QInv, RequestsCovered
    <3> QED BY <1>2, <1>12, <1>18, <1>19, <2>2, <3>1
  <2> QED BY <1>12, <2>1, <2>2
<1>21. RequestsCovered'
  BY <1>20 DEF RequestsCovered
<1>22. RateBound'
  <2> SUFFICES ASSUME NEW i \in DOMAIN book', NEW unit \in Units
               PROVE  Since(book', i, unit) <= window + now' - book'[i].at
    BY DEF RateBound, Units
  <2>1. CASE i = Len(book) + 1
    <3>1. book'[i].at = now /\ Since(book', i, unit) = 0
      BY <1>1, <1>6, <1>12, <1>18, <2>1, SinceNone
    <3> QED BY <1>1, <1>2, <3>1
  <2>2. CASE i \in 1..Len(book)
    <3>1. Since(book, i, unit) <= window + now - book[i].at
      BY <1>1, <2>2 DEF QInv, RateBound, Units
    <3> QED BY <1>2, <1>12, <1>18, <2>2, <3>1
  <2> QED BY <1>12, <2>1, <2>2
<1> QED
  BY <1>9, <1>10, <1>14, <1>16, <1>17, <1>21, <1>22 DEF QInv

(* What an end without an overrun does: a refund where the reservation stands,
   and to the shadows of the older ones (Meter.end with delta <= 0). *)
LEMMA RefundFacts ==
    ASSUME QInv, NEW r \in open, NEW delta \in Int, delta <= 0, -delta <= res[r].charged,
           end(r, delta)
    PROVE  \E p \in DOMAIN book :
             /\ RefundedNow(r, p, -delta)
             /\ \A k \in DOMAIN book : book'[k].seq = book[k].seq /\ book'[k].at = book[k].at
             /\ \A k \in DOMAIN book : k # p => book'[k] = book[k]
             /\ \A o \in open \ {r} :
                  /\ res'[o].seq = res[o].seq /\ res'[o].charged = res[o].charged
                  /\ max(res'[o].shadow, now) =
                       IF res[o].seq < res[r].seq
                       THEN max(refund(res[o].shadow, now, max(res[r].shadow, now), -delta), now)
                       ELSE max(res[o].shadow, now)
<1>1. /\ now \in Nat /\ tok \in Nat /\ book \in Seq(Entry) /\ Len(book) \in Nat
      /\ DOMAIN book = 1..Len(book) /\ open \subseteq Requests /\ res \in [Requests -> Reservation]
  BY QuotaTypes
<1>2. PICK d : d = -delta
  OBVIOUS
<1>3. d \in Nat /\ d <= res[r].charged /\ delta + d = 0 /\ (delta < 0 <=> d # 0)
  BY <1>2
<1>4. PICK p \in DOMAIN book : book[p].seq = res[r].seq /\ book[p].seq # 0
                               /\ book[p].tokens = res[r].charged
  BY DEF QInv, Booking
<1>5. /\ now' = now /\ open' = open \ {r}
      /\ tok' = IF delta < 0 THEN refund(tok, now, max(res[r].shadow, now), d) ELSE tok
      /\ res' = [Shadows(r, delta, open \ {r}) EXCEPT ![r] = Ended]
      /\ book' = [i \in DOMAIN book |->
                    IF book[i].seq = res[r].seq THEN [book[i] EXCEPT !.tokens = @ + delta] ELSE book[i]]
  <2>1. ~(delta > 0)
    OBVIOUS
  <2>2. /\ now' = now /\ open' = open \ {r}
        /\ res' = [Shadows(r, delta, open \ {r}) EXCEPT ![r] = Ended]
        /\ book' = Booked(r, delta)
    BY DEF end, drop
  <2>3. tok' = IF delta < 0 THEN refund(tok, now, max(res[r].shadow, now), d) ELSE tok
    BY <1>2, <2>1 DEF end
  <2>4. book' = [i \in DOMAIN book |->
                   IF book[i].seq = res[r].seq THEN [book[i] EXCEPT !.tokens = @ + delta] ELSE book[i]]
    BY <2>1, <2>2 DEF Booked
  <2> QED BY <2>2, <2>3, <2>4
<1>6. \A i \in DOMAIN book : book[i].seq = res[r].seq <=> i = p
  BY <1>4, OnePlace DEF QInv
<1>7. book[p] \in Entry /\ book[p].tokens \in Nat
  BY <1>1, EntryFacts
<1>8. book'[p] = [book[p] EXCEPT !.tokens = @ + delta]
  BY <1>4, <1>5
<1>9. /\ book'[p].seq = book[p].seq /\ book'[p].lane = book[p].lane /\ book'[p].at = book[p].at
      /\ book'[p].request = book[p].request /\ book'[p].tokens = book[p].tokens + delta
      /\ book'[p] \in Entry
  <2>1. book[p].tokens + delta \in Nat
    BY <1>3, <1>4, <1>7
  <2> QED BY <1>7, <1>8, <2>1 DEF Entry
<1>10. \A k \in DOMAIN book : k # p => book'[k] = book[k]
  BY <1>5, <1>6
<1>11. book' \in Seq(Entry) /\ Len(book') = Len(book)
  <2>1. DOMAIN book' = 1..Len(book)
    BY <1>1, <1>5
  <2>2. \A k \in 1..Len(book) : book'[k] \in Entry
    BY <1>1, <1>9, <1>10
  <2>3. book' = [k \in 1..Len(book) |-> book'[k]]
    BY <1>1, <1>5
  <2>4. book' \in [1..Len(book) -> Entry]
    BY <2>1, <2>2, <2>3
  <2> QED BY <1>1, <2>4
<1>12. Refunded(book, book', p, d)
  <2>1. book'[p].tokens = book[p].tokens - d /\ d <= book[p].tokens
    BY <1>3, <1>4, <1>7, <1>9
  <2> QED BY <1>1, <1>9, <1>10, <1>11, <2>1 DEF Refunded
<1>13. res[r].shadow \in Nat /\ max(res[r].shadow, now) \in Nat
  BY <1>1, ReservationFacts DEF max
<1>14. ASSUME NEW x \in Nat, max(res[r].shadow, now) <= max(x, now), d = 0
       PROVE  max(refund(x, now, max(res[r].shadow, now), d), now) = max(x, now)
  <2>1. refund(x, now, max(res[r].shadow, now), d) = max(max(x, now) - d, max(res[r].shadow, now))
    BY <1>1, <1>3, <1>13, <1>14, RefundIs
  <2> QED BY <1>1, <1>13, <1>14, <2>1 DEF max
<1>15. max(tok', now) = max(refund(tok, now, max(res[r].shadow, now), d), now)
  <2>1. CASE delta < 0
    BY <1>5, <2>1
  <2>2. CASE ~(delta < 0)
    <3>1. d = 0 /\ tok' = tok
      BY <1>3, <1>5, <2>2
    <3> QED BY <1>1, <1>14, <3>1, ShadowBehind
  <2> QED BY <2>1, <2>2
<1>16. RefundedNow(r, p, -delta)
  BY <1>2, <1>3, <1>4, <1>5, <1>12, <1>15 DEF RefundedNow
<1>17. ASSUME NEW o \in open \ {r}
       PROVE  /\ res'[o].seq = res[o].seq /\ res'[o].charged = res[o].charged
              /\ max(res'[o].shadow, now) =
                   IF res[o].seq < res[r].seq
                   THEN max(refund(res[o].shadow, now, max(res[r].shadow, now), -delta), now)
                   ELSE max(res[o].shadow, now)
  <2>1. o # r /\ o \in Requests /\ r \in Requests /\ res[o] \in Reservation /\ o \in open
    BY <1>1
  <2>2. Shadows(r, delta, open \ {r}) =
          [q \in Requests |->
             IF delta < 0 /\ q \in open \ {r} /\ res[q].seq < res[r].seq
             THEN [res[q] EXCEPT !.shadow = refund(@, now, max(res[r].shadow, now), -delta)]
             ELSE res[q]]
    BY DEF Shadows
  <2>3. res'[o] = IF delta < 0 /\ res[o].seq < res[r].seq
                  THEN [res[o] EXCEPT !.shadow = refund(@, now, max(res[r].shadow, now), -delta)]
                  ELSE res[o]
    BY <1>5, <2>1, <2>2
  <2>4. CASE delta < 0 /\ res[o].seq < res[r].seq
    BY <2>1, <2>3, <2>4 DEF Reservation
  <2>5. CASE ~(res[o].seq < res[r].seq)
    BY <2>3, <2>5
  <2>6. CASE ~(delta < 0) /\ res[o].seq < res[r].seq
    <3>1. d = 0 /\ res'[o] = res[o] /\ res[o].shadow \in Nat
      BY <1>3, <2>1, <2>3, <2>6, ReservationFacts
    <3>2. max(res[r].shadow, now) <= max(res[o].shadow, now)
      <4>1. PICK i \in DOMAIN book : book[i].seq = res[o].seq
        BY <2>1 DEF QInv, Booking
      <4>2. i <= p
        <5>1. ~(p < i)
          <6>1. book[i].seq \in Nat /\ book[p].seq \in Nat /\ book[i].seq < book[p].seq
            BY <1>1, <1>4, <2>6, <4>1, EntryFacts
          <6>2. CASE book[i].seq # 0
            BY <6>1, <6>2 DEF QInv, BookOK
          <6>3. CASE book[i].seq = 0
            <7>1. PICK k \in DOMAIN book : book[k].seq = res[o].seq /\ book[k].seq # 0
              BY <2>1 DEF QInv, Booking
            <7> QED BY <4>1, <6>3, <7>1
          <6> QED BY <6>2, <6>3
        <5> QED BY <1>1, <5>1
      <4>3. /\ Replay(book, p, Charges) <= Replay(book, i, Charges)
            /\ Replay(book, p, Charges) \in Nat /\ Replay(book, i, Charges) \in Nat
        <5>1. i \in 0..Len(book) /\ p \in 0..Len(book) /\ p \in i..Len(book)
          BY <1>1, <4>2
        <5> QED BY <1>1, <5>1, ReplayShorter, ReplayNat
      <4>4. /\ max(res[r].shadow, now) = max(Replay(book, p, Charges), now)
            /\ max(res[o].shadow, now) = max(Replay(book, i, Charges), now)
        BY <1>4, <2>1, <4>1 DEF QInv, ShadowsExact
      <4> QED BY <1>1, <4>3, <4>4 DEF max
    <3>3. max(refund(res[o].shadow, now, max(res[r].shadow, now), d), now) = max(res[o].shadow, now)
      BY <1>14, <3>1, <3>2
    <3> QED BY <1>2, <2>6, <3>1, <3>3
  <2> QED BY <2>4, <2>5, <2>6
<1>18. \A k \in DOMAIN book : book'[k].seq = book[k].seq /\ book'[k].at = book[k].at
  BY <1>9, <1>10
<1> QED
  BY <1>10, <1>16, <1>17, <1>18

(* An end without an overrun keeps the invariant. *)
LEMMA RefundQuota ==
    ASSUME QInv, NEW r \in open, NEW delta \in Int, delta <= 0, -delta <= res[r].charged,
           end(r, delta)
    PROVE  QInv'
<1>1. /\ now \in Nat /\ tok \in Nat /\ req \in Nat /\ seq \in Nat /\ window \in Nat
      /\ book \in Seq(Entry) /\ Len(book) \in Nat /\ DOMAIN book = 1..Len(book)
      /\ open \subseteq Requests /\ res \in [Requests -> Reservation]
  BY QuotaTypes
<1>2. now' = now /\ req' = req /\ seq' = seq /\ open' = open \ {r}
  BY DEF end, drop
<1>3. PICK p \in DOMAIN book :
             /\ RefundedNow(r, p, -delta)
             /\ \A k \in DOMAIN book : book'[k].seq = book[k].seq /\ book'[k].at = book[k].at
             /\ \A k \in DOMAIN book : k # p => book'[k] = book[k]
             /\ \A o \in open \ {r} :
                  /\ res'[o].seq = res[o].seq /\ res'[o].charged = res[o].charged
                  /\ max(res'[o].shadow, now) =
                       IF res[o].seq < res[r].seq
                       THEN max(refund(res[o].shadow, now, max(res[r].shadow, now), -delta), now)
                       ELSE max(res[o].shadow, now)
  BY RefundFacts
<1>4. PICK d : d = -delta
  OBVIOUS
<1>5. /\ RefundedNow(r, p, d) /\ d \in Nat /\ Refunded(book, book', p, d)
      /\ book[p].seq = res[r].seq
  BY <1>3, <1>4 DEF RefundedNow
<1>6. OracleExact' /\ SuffixesKept'
  BY <1>5, RefundKeeps
<1>7. IInv'
  BY <1>1, EndInv DEF QInv
<1>8. book' \in Seq(Entry) /\ Len(book') = Len(book) /\ DOMAIN book' = DOMAIN book
  BY <1>1, <1>5 DEF Refunded
<1>9. BookOK'
  <2>1. \A i \in DOMAIN book' : book'[i].at <= now' /\ book'[i].seq <= seq'
    BY <1>2, <1>3, <1>8 DEF QInv, BookOK
  <2>2. \A i, k \in DOMAIN book' : i < k /\ book'[k].seq # 0 => book'[i].seq < book'[k].seq
    BY <1>3, <1>8 DEF QInv, BookOK
  <2> QED BY <1>8, <2>1, <2>2 DEF BookOK
<1>10. ASSUME NEW o \in open'
       PROVE  \E i \in DOMAIN book : /\ book[i].seq = res[o].seq /\ book[i].seq # 0
                                     /\ book[i].tokens = res[o].charged /\ i # p
  <2>1. o \in open /\ o # r
    BY <1>2
  <2>2. PICK i \in DOMAIN book : /\ book[i].seq = res[o].seq /\ book[i].seq # 0
                                 /\ book[i].tokens = res[o].charged
    BY <2>1 DEF QInv, Booking
  <2>3. res[o].seq # res[r].seq
    BY <2>1 DEF QInv, Booking
  <2> QED BY <1>5, <2>2, <2>3
<1>11. Booking'
  <2>1. ASSUME NEW o \in open'
        PROVE  \E i \in DOMAIN book' : /\ book'[i].seq = res'[o].seq /\ book'[i].seq # 0
                                       /\ book'[i].tokens = res'[o].charged
    <3>1. PICK i \in DOMAIN book : /\ book[i].seq = res[o].seq /\ book[i].seq # 0
                                   /\ book[i].tokens = res[o].charged /\ i # p
      BY <1>10
    <3>2. i \in DOMAIN book' /\ book'[i] = book[i]
      BY <1>3, <1>8, <3>1
    <3>3. res'[o].seq = res[o].seq /\ res'[o].charged = res[o].charged
      BY <1>2, <1>3
    <3> QED BY <3>1, <3>2, <3>3
  <2>2. \A o, q \in open' : res'[o].seq = res'[q].seq => o = q
    BY <1>2, <1>3 DEF QInv, Booking
  <2> QED BY <2>1, <2>2 DEF Booking
<1>12. ShadowsExact'
  <2> SUFFICES ASSUME NEW o \in open', NEW i \in DOMAIN book', book'[i].seq = res'[o].seq
               PROVE  max(res'[o].shadow, now') = max(Replay(book', i, Charges), now')
    BY DEF ShadowsExact
  <2>1. o \in open \ {r} /\ o \in open /\ i \in DOMAIN book /\ res'[o].seq = res[o].seq
    BY <1>2, <1>3, <1>8
  <2>2. book[i].seq = res[o].seq
    BY <1>3, <2>1
  <2>3. book[i].seq # 0
    <3>1. PICK k \in DOMAIN book : book[k].seq = res[o].seq /\ book[k].seq # 0
      BY <1>10
    <3> QED BY <2>2, <3>1
  <2>4. book[p].seq # 0 /\ book[p].seq # book[i].seq
    <3>1. PICK k \in DOMAIN book : book[k].seq = res[r].seq /\ book[k].seq # 0
      BY DEF QInv, Booking
    <3>2. res[o].seq # res[r].seq
      BY <2>1 DEF QInv, Booking
    <3> QED BY <1>5, <2>2, <3>1, <3>2
  <2>5. PICK x, y, R, S : /\ x = res[o].shadow /\ y = res[r].shadow
                          /\ R = Replay(book, i, Charges) /\ S = Replay(book, p, Charges)
    OBVIOUS
  <2>6. x \in Nat /\ y \in Nat
    <3>1. res[o] \in Reservation /\ res[r] \in Reservation
      BY <1>1, <2>1
    <3> QED BY <2>5, <3>1, ReservationFacts
  <2>7. /\ i \in Nat /\ p \in Nat /\ i \in 0..Len(book) /\ p \in 0..Len(book)
        /\ book[i].seq \in Nat /\ book[p].seq \in Nat /\ book[p].lane \in Charges
    BY <1>1, <2>1, EntryFacts
  <2>8. R \in Nat /\ S \in Nat
    BY <1>1, <2>5, <2>7, ReplayNat
  <2>9. max(x, now) = max(R, now) /\ max(y, now) = max(S, now)
    BY <1>5, <2>1, <2>2, <2>5 DEF QInv, ShadowsExact
  <2>10. Replay(book', i, Charges) = IF i < p THEN max(R - d, S) ELSE R
    BY <1>5, <2>5, <2>7, RefundReplays
  <2>11. CASE res[o].seq < res[r].seq
    <3>1. i < p
      <4>1. ~(p < i) /\ i # p
        BY <1>5, <2>1, <2>2, <2>3, <2>4, <2>7, <2>11 DEF QInv, BookOK
      <4> QED BY <2>7, <4>1
    <3>2. S <= R
      <4>1. p \in i..Len(book)
        BY <1>1, <2>7, <3>1
      <4> QED BY <1>1, <2>5, <2>7, <4>1, ReplayShorter
    <3>3. max(refund(x, now, max(y, now), d), now) = max(max(R - d, S), now)
      <4>1. now \in Nat /\ d \in Nat
        BY <1>1, <1>5
      <4> QED BY <2>6, <2>8, <2>9, <3>2, <4>1, RefundShows, SMTT(30)
    <3>4. max(res'[o].shadow, now) = max(refund(x, now, max(y, now), d), now)
      BY <1>3, <1>4, <2>1, <2>5, <2>11
    <3> QED BY <1>2, <2>10, <3>1, <3>3, <3>4
  <2>12. CASE ~(res[o].seq < res[r].seq)
    <3>1. ~(i < p)
      BY <1>5, <2>1, <2>2, <2>4, <2>12 DEF QInv, BookOK
    <3>2. max(res'[o].shadow, now) = max(x, now)
      BY <1>3, <2>1, <2>5, <2>12
    <3> QED BY <1>2, <2>9, <2>10, <3>1, <3>2
  <2> QED BY <2>11, <2>12
<1>13. ASSUME NEW i \in DOMAIN book, NEW unit \in Units
       PROVE  /\ Since(book', i, unit) <= Since(book, i, unit)
              /\ Since(book', i, unit) \in Nat /\ Since(book, i, unit) \in Nat
              /\ book[i].at \in Nat
  <2>1. i \in 1..Len(book) /\ i \in 1..(Len(book) + 1) /\ i \in 1..(Len(book') + 1) /\ p \in 1..Len(book)
    BY <1>1, <1>8
  <2>2. book[i] \in Entry
    BY <1>1
  <2> QED BY <1>1, <1>5, <1>8, <2>1, <2>2, SinceRefund, SinceNat, EntryFacts
<1>14. RequestsCovered'
  <2> SUFFICES ASSUME NEW i \in DOMAIN book
               PROVE  book'[i].at + Since(book', i, "request") <= max(req', now')
    BY <1>8 DEF RequestsCovered
  <2>1. book[i].at + Since(book, i, "request") <= max(req, now)
    BY DEF QInv, RequestsCovered
  <2>2. /\ Since(book', i, "request") <= Since(book, i, "request")
        /\ Since(book', i, "request") \in Nat /\ Since(book, i, "request") \in Nat
        /\ book[i].at \in Nat
    BY <1>13 DEF Units
  <2>3. book'[i].at = book[i].at
    BY <1>3
  <2>4. max(req, now) \in Nat
    BY <1>1 DEF max
  <2> QED BY <1>2, <2>1, <2>2, <2>3, <2>4
<1>15. RateBound'
  <2> SUFFICES ASSUME NEW i \in DOMAIN book, NEW unit \in Units
               PROVE  Since(book', i, unit) <= window + now' - book'[i].at
    BY <1>8 DEF RateBound, Units
  <2>1. Since(book, i, unit) <= window + now - book[i].at
    BY DEF QInv, RateBound, Units
  <2>2. book'[i].at = book[i].at
    BY <1>3
  <2> QED BY <1>1, <1>2, <1>13, <2>1, <2>2
<1> QED
  BY <1>6, <1>7, <1>9, <1>11, <1>12, <1>14, <1>15 DEF QInv

(* The clock keeps the invariant: what is behind it counts as empty. *)
LEMMA TickQuota ==
    ASSUME QInv, Tick
    PROVE  QInv'
<1>1. /\ now \in Nat /\ tok \in Nat /\ req \in Nat /\ seq \in Nat /\ window \in Nat
      /\ book \in Seq(Entry) /\ Len(book) \in Nat /\ DOMAIN book = 1..Len(book)
      /\ BulkTolerance \in Nat /\ open \subseteq Requests /\ res \in [Requests -> Reservation]
  BY QuotaTypes
<1>2. /\ now' = now + 1 /\ req' = req /\ tok' = tok /\ open' = open /\ seq' = seq /\ res' = res
      /\ book' = book
  BY DEF Tick
<1>3. IInv'
  BY NextInv DEF QInv, Next
<1>4. BookOK'
  <2>1. \A i \in DOMAIN book : book[i].at <= now + 1
    <3> SUFFICES ASSUME NEW i \in DOMAIN book PROVE book[i].at <= now + 1
      OBVIOUS
    <3>1. book[i].at \in Nat /\ book[i].at <= now
      BY <1>1, EntryFacts DEF QInv, BookOK
    <3> QED BY <1>1, <3>1
  <2> QED BY <1>2, <2>1 DEF QInv, BookOK
<1>5. Booking'
  BY <1>2 DEF QInv, Booking
<1>6. ASSUME NEW x \in Nat, NEW y \in Nat, max(x, now) = max(y, now)
      PROVE  max(x, now + 1) = max(y, now + 1)
  BY <1>1, <1>6 DEF max
<1>7. ShadowsExact'
  <2> SUFFICES ASSUME NEW r \in open, NEW i \in DOMAIN book, book[i].seq = res[r].seq
               PROVE  max(res[r].shadow, now + 1) = max(Replay(book, i, Charges), now + 1)
    BY <1>2 DEF ShadowsExact
  <2>1. i \in 0..Len(book) /\ res[r] \in Reservation
    BY <1>1
  <2>2. res[r].shadow \in Nat /\ Replay(book, i, Charges) \in Nat
    BY <1>1, <2>1, ReservationFacts, ReplayNat
  <2>3. max(res[r].shadow, now) = max(Replay(book, i, Charges), now)
    BY DEF QInv, ShadowsExact
  <2> QED BY <1>6, <2>2, <2>3
<1>8. OracleExact'
  <2>1. 0 \in 0..Len(book)
    BY <1>1
  <2>2. Replay(book, 0, Charges) \in Nat
    BY <1>1, <2>1, ReplayNat
  <2>3. max(tok, now + 1) = max(Replay(book, 0, Charges), now + 1)
    BY <1>1, <1>6, <2>2 DEF QInv, OracleExact
  <2> QED BY <1>2, <2>3 DEF OracleExact
<1>9. SuffixesKept'
  <2> SUFFICES ASSUME NEW j \in 0..Len(book)
               PROVE  max(Replay(book, j, Charges), now + 1) <=
                        BulkTolerance + max(Replay(book, j, Charges \ {"bulk"}), now + 1)
    BY <1>2 DEF SuffixesKept
  <2>1. PICK R, U : R = Replay(book, j, Charges) /\ U = Replay(book, j, Charges \ {"bulk"})
    OBVIOUS
  <2>2. R \in Nat /\ U \in Nat
    BY <1>1, <2>1, ReplayNat
  <2>3. max(R, now) <= BulkTolerance + max(U, now)
    BY <2>1 DEF QInv, SuffixesKept
  <2>4. max(R, now + 1) <= BulkTolerance + max(U, now + 1)
    BY <1>1, <2>2, <2>3 DEF max
  <2> QED BY <2>1, <2>4
<1>10. ASSUME NEW i \in DOMAIN book, NEW unit \in Units
       PROVE  Since(book, i, unit) \in Nat /\ book[i].at \in Nat
  <2>1. i \in 1..(Len(book) + 1) /\ book[i] \in Entry
    BY <1>1
  <2> QED BY <1>1, <2>1, SinceNat, EntryFacts
<1>11. RequestsCovered'
  <2> SUFFICES ASSUME NEW i \in DOMAIN book
               PROVE  book[i].at + Since(book, i, "request") <= max(req, now + 1)
    BY <1>2 DEF RequestsCovered
  <2>1. book[i].at + Since(book, i, "request") <= max(req, now)
    BY DEF QInv, RequestsCovered
  <2>2. Since(book, i, "request") \in Nat /\ book[i].at \in Nat
    BY <1>10 DEF Units
  <2> QED BY <1>1, <2>1, <2>2 DEF max
<1>12. RateBound'
  <2> SUFFICES ASSUME NEW i \in DOMAIN book, NEW unit \in Units
               PROVE  Since(book, i, unit) <= window + (now + 1) - book[i].at
    BY <1>2 DEF RateBound, Units
  <2>1. Since(book, i, unit) <= window + now - book[i].at
    BY DEF QInv, RateBound, Units
  <2> QED BY <1>1, <1>10, <2>1
<1> QED
  BY <1>3, <1>4, <1>5, <1>7, <1>8, <1>9, <1>11, <1>12 DEF QInv

(* The empty meter has an empty history. *)
LEMMA InitQuota == Init => QInv
<1> SUFFICES ASSUME Init PROVE QInv
  OBVIOUS
<1>1. /\ book = <<>> /\ now = 0 /\ tok = 0 /\ open = {} /\ book \in Seq(Entry) /\ Len(book) = 0
      /\ DOMAIN book = {}
  BY DEF Init
<1>2. Replay(book, 0, Charges) = 0 /\ Replay(book, 0, Charges \ {"bulk"}) = 0
  BY <1>1, ReplayNone
<1>3. SuffixesKept
  <2>1. \A j \in 0..Len(book) : j = 0
    BY <1>1
  <2> QED BY <1>1, <1>2, <2>1, WidestTolerance DEF SuffixesKept, max
<1>4. OracleExact
  BY <1>1, <1>2 DEF OracleExact
<1>5. BookOK /\ Booking /\ ShadowsExact /\ RequestsCovered /\ RateBound
  BY <1>1 DEF BookOK, Booking, ShadowsExact, RequestsCovered, RateBound
<1> QED
  BY <1>3, <1>4, <1>5, InitInv DEF QInv

(* Every step that does not saturate a bucket keeps the invariant. *)
LEMMA NextQuota == QInv /\ Unsaturated' /\ [Next]_vars => QInv'
<1> SUFFICES ASSUME QInv, Unsaturated', [Next]_vars PROVE QInv'
  OBVIOUS
<1>1. CASE MarkSeeded
  <2>1. IInv'
    BY <1>1, NextInv DEF QInv, Next
  <2> QED
    BY <1>1, <2>1 DEF MarkSeeded, QInv, BookOK, Booking, ShadowsExact, OracleExact,
                      SuffixesKept, RequestsCovered, RateBound
<1>2. CASE Tick
  BY <1>2, TickQuota
<1>3. ASSUME NEW r \in Requests \ open, NEW lane \in Lanes, NEW l \in LimitsSet,
             NEW n \in Estimates, Admit(r, lane, l, n)
      PROVE  QInv'
  BY <1>3, AdmitQuota
<1>4. ASSUME NEW r \in open
      PROVE  r \in Requests /\ res[r].charged \in Nat /\ res[r].tpm \in Nat \ {0}
  BY DEF QInv, IInv, TypeOK, TpmPositive, Reservation
<1>5. ASSUME NEW r \in open, NEW delta \in Int, -delta <= res[r].charged, end(r, delta)
      PROVE  QInv'
  <2>1. CASE delta > 0
    BY <1>5, <2>1, DebtQuota
  <2>2. CASE delta <= 0
    BY <1>5, <2>2, RefundQuota
  <2> QED BY <2>1, <2>2
<1>6. ASSUME NEW r \in open, NEW u \in Usages, Settle(r, u) PROVE QInv'
  <2>1. PICK c, h : c = cost(res[r].tpm, u) /\ h = res[r].charged
    OBVIOUS
  <2>2. c \in Nat /\ h \in Nat
    BY <1>4, <2>1, CostNat, RequestAssumption
  <2>3. c - h \in Int /\ -(c - h) <= h /\ end(r, c - h)
    BY <1>6, <2>1, <2>2 DEF Settle
  <2> QED BY <1>5, <2>1, <2>3
<1>7. ASSUME NEW r \in open, Keep(r) PROVE QInv'
  <2>1. end(r, 0) /\ 0 \in Int /\ -0 <= res[r].charged
    BY <1>4, <1>7 DEF Keep
  <2> QED BY <1>5, <2>1
<1>8. ASSUME NEW r \in open, Abort(r) PROVE QInv'
  <2>1. PICK h : h = res[r].charged
    OBVIOUS
  <2>2. h \in Nat /\ -h \in Int /\ -(-h) <= h /\ end(r, -h)
    BY <1>4, <1>8, <2>1 DEF Abort
  <2> QED BY <1>5, <2>1, <2>2
<1>9. CASE UNCHANGED vars
  BY <1>9 DEF vars, QInv, IInv, TypeOK, TpmPositive, SlotsBounded, BookOK, Booking, ShadowsExact,
              OracleExact, SuffixesKept, RequestsCovered, RateBound
<1> QED
  BY <1>1, <1>2, <1>3, <1>6, <1>7, <1>8, <1>9 DEF Next

(* While no bucket reaches the end of the int64 clock, the history invariant
   holds. *)
THEOREM QuotaInvariance == Spec /\ []Unsaturated => []QInv
BY InitQuota, NextQuota, PTL DEF Spec

(* The refund rule is exact for every number of overlapping reservations, every
   order of their ends, every limit and usage: while the buckets are below the
   saturation of an int64 clock, the token bucket is the one that would have been
   charged with full knowledge (Meter.end, refund, the shadows). *)
THEOREM RefundsExact == Spec /\ []Unsaturated => []OracleExact
<1>1. QInv => OracleExact
  BY DEF QInv
<1> QED
  BY <1>1, QuotaInvariance, PTL

(* No refund lets a consumer over its rate in any interval (Meter.Admit,
   Meter.end). *)
THEOREM RateNeverExceeded == Spec /\ []Unsaturated => []RateBound
<1>1. QInv => RateBound
  BY DEF QInv
<1> QED
  BY <1>1, QuotaInvariance, PTL

(* Bulk traffic fills the token bucket at most to its share on top of what the
   urgent lane and the overruns took, whatever is refunded when (newDim). *)
THEOREM UrgentReserveKept == Spec /\ []Unsaturated => []UrgentKept
<1>1. QInv => UrgentKept
  <2> SUFFICES ASSUME QInv PROVE UrgentKept
    OBVIOUS
  <2>1. /\ now \in Nat /\ tok \in Nat /\ BulkTolerance \in Nat /\ book \in Seq(Entry)
        /\ 0 \in 0..Len(book)
    BY QuotaTypes
  <2>2. PICK R, U : R = Replay(book, 0, Charges) /\ U = Replay(book, 0, Charges \ {"bulk"})
    OBVIOUS
  <2>3. R \in Nat /\ U \in Nat
    BY <2>1, <2>2, ReplayNat
  <2>4. max(R, now) <= BulkTolerance + max(U, now) /\ max(tok, now) = max(R, now)
    BY <2>1, <2>2 DEF QInv, SuffixesKept, OracleExact
  <2>5. backlog(tok, now) <= BulkTolerance + backlog(U, now)
    BY <2>1, <2>3, <2>4 DEF backlog, max
  <2> QED BY <2>2, <2>5 DEF UrgentKept
<1> QED
  BY <1>1, QuotaInvariance, PTL
=============================================================================
