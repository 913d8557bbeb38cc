------------------------------ MODULE KeyQuota ------------------------------
(***************************************************************************)
(* The meter of the model API (internal/keyquota) for one consumer and one *)
(* operation: a GCRA bucket of requests, one of tokens, and the count of   *)
(* open requests (L1), each with a share the bulk lane may not exceed.     *)
(* Admit, Settle, Keep and Abort (Reject is Abort) run under one mutex, so *)
(* each is one step; requests overlap between their admission and their    *)
(* end.  Limits are read from hot settings and may differ per admission.   *)
(*                                                                         *)
(* book is a history variable: the charges in the order they arose, each   *)
(* at the moment and with the cost it would have had if the real usage had *)
(* been known at the admission.  No action reads it.                       *)
(***************************************************************************)
EXTENDS Integers, Sequences, FiniteSets

CONSTANTS
    Requests,      \* requests of the consumer, each made at most once
    Estimates,     \* Estimate.Tokens of a request
    Usages,        \* tokens an answer reports
    LimitsSet,     \* the Limits the hot settings may hold
    window,        \* W, the length of a minute in clock units
    reserveScale,  \* the resolution of XUReserve
    MaxInt64,      \* where additions and products saturate
    MaxTime        \* bound of the clock

ASSUME WindowAssumption ==
    /\ window \in Nat \ {0} /\ reserveScale \in Nat \ {0} /\ MaxInt64 \in Nat
    /\ MaxTime \in 0..MaxInt64
ASSUME LimitsAssumption ==
    LimitsSet \subseteq [RPM : Nat, TPM : Nat, Concurrency : Nat, XUReserve : 0..reserveScale]
ASSUME RequestAssumption ==
    IsFiniteSet(Requests) /\ Estimates \subseteq Nat /\ Usages \subseteq Nat

VARIABLES
    seeded,    \* Meter.seeded
    now,       \* the meter's clock
    req, tok,  \* theoretical arrival times of the two buckets
    open,      \* the reservations that have not ended
    bulk,      \* how many of them are on the bulk lane
    seq,       \* admission order
    res,       \* the reservation of each request
    book       \* history: the charges with full knowledge

vars == <<seeded, now, req, tok, open, bulk, seq, res, book>>

Lanes == {"urgent", "bulk"}
max(a, b) == IF a >= b THEN a ELSE b
min(a, b) == IF a <= b THEN a ELSE b

satAdd(a, b) == min(a + b, MaxInt64)
mulDiv(a, b, c) == min((a * b) \div c, MaxInt64)
-----------------------------------------------------------------------------
(* The arithmetic of one bucket. *)

(* The emission time of n units under a limit per window. *)
cost(limit, n) == IF n <= 0 THEN 0 ELSE max(mulDiv(n, window, limit), 1)

(* Mutant: the bulk lane gets the whole tolerance. *)
newDim_NoReserve(limit, lane, r) ==
    [limit |-> limit, tol |-> window, cap |-> max(mulDiv(window, limit, window), 1)]

(* A limit as a lane sees it: the bulk lane's tolerance is the share 1 - r of
   the window, at least one unit; cap is what the tolerance holds. *)
newDim(limit, lane, r) ==
    LET d(tol) == [limit |-> limit, tol |-> tol, cap |-> max(mulDiv(tol, limit, window), 1)]
    IN  IF lane = "bulk" /\ r > 0
        THEN d(max((window * (reserveScale - r)) \div reserveScale, cost(limit, 1)))
        ELSE d(window)

backlog(tat, t) == max(tat, t) - t

(* Mutant: the wait of a refusal ends one unit too early. *)
admit_ShortWait(d, tat, t, n) ==
    LET need == satAdd(backlog(tat, t), cost(d.limit, n))
    IN  IF need > d.tol
        THEN [next |-> tat, wait |-> max(need - d.tol - 1, 0), ok |-> FALSE]
        ELSE [next |-> satAdd(max(tat, t), cost(d.limit, n)), wait |-> 0, ok |-> TRUE]

(* GCRA for n units at t; the wait of a refusal is the excess. *)
admit(d, tat, t, n) ==
    LET need == satAdd(backlog(tat, t), cost(d.limit, n))
    IN  IF need > d.tol
        THEN [next |-> tat, wait |-> need - d.tol, ok |-> FALSE]
        ELSE [next |-> satAdd(max(tat, t), cost(d.limit, n)), wait |-> 0, ok |-> TRUE]

(* Mutant: the charges after the refunded reservation are not spared. *)
refund_Plain(tat, t, from, d) == max(max(tat, t) - d, t)

(* Takes d out of the bucket tat, never below the bucket from of the charges
   that came after the refunded one. *)
refund(tat, t, from, d) == max(tat, t) - min(d, max(max(tat, t) - from, 0))

(* The bulk lane's share of C concurrent requests, at least one. *)
bulkSlots(c, r) == IF r > 0 THEN max(mulDiv(c, reserveScale - r, reserveScale), 1) ELSE c

(* Mutant: the bulk share is one too large. *)
l1_OffByOne(lane, l) ==
    /\ Cardinality(open) < l.Concurrency
    /\ lane = "bulk" => bulk <= bulkSlots(l.Concurrency, l.XUReserve)

l1(lane, l) ==
    /\ Cardinality(open) < l.Concurrency
    /\ lane = "bulk" => bulk < bulkSlots(l.Concurrency, l.XUReserve)
-----------------------------------------------------------------------------
NoReservation ==
    [phase |-> "none", lane |-> "urgent", tpm |-> 1, charged |-> 0, shadow |-> 0, seq |-> 0]
Ended == [NoReservation EXCEPT !.phase = "ended"]

Init ==
    /\ seeded = FALSE /\ now = 0
    /\ req = 0 /\ tok = 0 /\ open = {} /\ bulk = 0 /\ seq = 0
    /\ res = [r \in Requests |-> NoReservation]
    /\ book = <<>>

(* MarkSeeded opens the meter; until then every Admit answers warming. *)
MarkSeeded == ~seeded /\ seeded' = TRUE /\ UNCHANGED <<now, req, tok, open, bulk, seq, res, book>>

(* The monotonic clock. *)
Tick == now < MaxTime /\ now' = now + 1 /\ UNCHANGED <<seeded, req, tok, open, bulk, seq, res, book>>

(* Limits below one are a wiring defect and refused. *)
valid(l) == l.RPM >= 1 /\ l.TPM >= 1 /\ l.Concurrency >= 1

(* A reservation above what the lane's bucket holds is charged at that. *)
Charge(l, lane, n) == min(n, newDim(l.TPM, lane, l.XUReserve).cap)
ReqAt(l, lane, t) == admit(newDim(l.RPM, lane, l.XUReserve), req, t, 1)
TokAt(l, lane, n, t) ==
    admit(newDim(l.TPM, lane, l.XUReserve), tok, t, Charge(l, lane, n))

(* The answer of Admit: both buckets, then L1; the retry of a rate refusal is
   the longer of the two waits. *)
Answer(l, lane, rq, tk) ==
    IF ~valid(l) THEN [reason |-> "invalid", retry |-> 0]
    ELSE IF ~seeded THEN [reason |-> "warming", retry |-> 0]
    ELSE IF ~rq.ok \/ ~tk.ok THEN [reason |-> "rate", retry |-> max(rq.wait, tk.wait)]
    ELSE [reason |-> IF l1(lane, l) THEN "allowed" ELSE "concurrency", retry |-> 0]

Decision(l, lane, n) == Answer(l, lane, ReqAt(l, lane, now), TokAt(l, lane, n, now))

(* raise: every open shadow sees a charge of c made now. *)
raise(rs, held, c) ==
    [r \in Requests |->
       IF r \in held THEN [rs[r] EXCEPT !.shadow = satAdd(max(@, now), c)] ELSE rs[r]]

(* A refusal changes no state, so only the admission is a step. *)
Admit(r, lane, l, n) ==
    /\ res[r].phase = "none"
    /\ Decision(l, lane, n).reason = "allowed"
    /\ LET charged == cost(l.TPM, Charge(l, lane, n))
       IN  /\ req' = ReqAt(l, lane, now).next
           /\ tok' = TokAt(l, lane, n, now).next
           /\ open' = open \cup {r}
           /\ bulk' = IF lane = "bulk" THEN bulk + 1 ELSE bulk
           /\ seq' = seq + 1
           /\ res' = [raise(res, open, TokAt(l, lane, n, now).next - max(tok, now)) EXCEPT
                        ![r] = [phase |-> "open", lane |-> lane, tpm |-> l.TPM,
                                charged |-> charged, shadow |-> now, seq |-> seq + 1]]
           /\ book' = Append(book, [seq |-> seq + 1, lane |-> lane, at |-> now,
                                    tokens |-> charged, request |-> cost(l.RPM, 1)])
    /\ UNCHANGED <<seeded, now>>

(* The history with the real cost of r: a refund corrects the charge where it
   was made, an overrun is a charge of its own at the settle. *)
Booked(r, delta) ==
    IF delta > 0
    THEN Append(book, [seq |-> 0, lane |-> "debt", at |-> now, tokens |-> delta, request |-> 0])
    ELSE [i \in DOMAIN book |->
            IF book[i].seq = res[r].seq THEN [book[i] EXCEPT !.tokens = @ + delta] ELSE book[i]]

(* Mutant: the shadows of the older reservations keep the refunded charge. *)
Shadows_KeepOlder(r, delta, held) == IF delta > 0 THEN raise(res, held, delta) ELSE res

(* The shadows after r ends with delta: a debt raises every open one, a refund
   lowers those of the older reservations. *)
Shadows(r, delta, held) ==
    IF delta > 0 THEN raise(res, held, delta)
    ELSE [o \in Requests |->
            IF delta < 0 /\ o \in held /\ res[o].seq < res[r].seq
            THEN [res[o] EXCEPT !.shadow = refund(@, now, max(res[r].shadow, now), -delta)]
            ELSE res[o]]

(* Mutant: a reservation that ends stays in the open set. *)
drop_Stays(r) == open' = open /\ bulk' = IF res[r].lane = "bulk" THEN bulk - 1 ELSE bulk

(* drop takes r out of the open set; its lane gets the slot back. *)
drop(r) ==
    /\ open' = open \ {r}
    /\ bulk' = IF res[r].lane = "bulk" THEN bulk - 1 ELSE bulk

(* end closes r and moves the token bucket by delta.  The sync.Once of the
   reservation lets the first end through. *)
end(r, delta) ==
    /\ res[r].phase = "open"
    /\ drop(r)
    /\ tok' = IF delta > 0 THEN satAdd(max(tok, now), delta)
              ELSE IF delta < 0 THEN refund(tok, now, max(res[r].shadow, now), -delta)
              ELSE tok
    /\ res' = [Shadows(r, delta, open \ {r}) EXCEPT ![r] = Ended]
    /\ book' = Booked(r, delta)
    /\ UNCHANGED <<seeded, now, req, seq>>

Settle(r, u) == end(r, cost(res[r].tpm, u) - res[r].charged)

(* A wire call without usage keeps the charge. *)
Keep(r) == end(r, 0)

(* No wire call: the charge goes back. *)
Abort(r) == end(r, -res[r].charged)

Next ==
    \/ MarkSeeded
    \/ Tick
    \/ \E r \in Requests \ open :
         \E lane \in Lanes, l \in LimitsSet, n \in Estimates : Admit(r, lane, l, n)
    \/ \E r \in open : \E u \in Usages : Settle(r, u)
    \/ \E r \in open : Keep(r)
    \/ \E r \in open : Abort(r)

Spec == Init /\ [][Next]_vars
-----------------------------------------------------------------------------
Reservation ==
    [phase : {"none", "open", "ended"}, lane : Lanes, tpm : Nat, charged : Nat,
     shadow : Nat, seq : Nat]

(* Every bucket is a time an int64 holds, and the open set is the set of the
   reservations Admit entered and no end took out. *)
TypeOK ==
    /\ seeded \in BOOLEAN /\ now \in 0..MaxTime
    /\ req \in 0..MaxInt64 /\ tok \in 0..MaxInt64
    /\ open = {r \in Requests : res[r].phase = "open"}
    /\ bulk \in Nat /\ seq \in Nat
    /\ res \in [Requests -> Reservation]

(* The bucket the charges of some lanes leave, counted from behind the from-th. *)
Replay(b, from, lanes) ==
    LET tat[i \in from..Len(b)] ==
          IF i = from THEN 0
          ELSE IF b[i].lane \in lanes THEN max(tat[i - 1], b[i].at) + b[i].tokens
          ELSE tat[i - 1]
    IN  tat[Len(b)]

(* An overrun is a charge of no lane. *)
Charges == Lanes \cup {"debt"}

(* The oracle of the refund rule: whatever the overlap of the reservations and
   the order they end in, the token bucket stands where it would stand had the
   real usage been booked at the admission and every overrun at its settle. *)
OracleExact == max(tok, now) = max(Replay(book, 0, Charges), now)

(* The cost of the admissions from the i-th on; overruns are left out. *)
Since(b, i, unit) ==
    LET sum[k \in (i - 1)..Len(b)] ==
          IF k = i - 1 THEN 0
          ELSE IF b[k].lane \in Lanes THEN sum[k - 1] + b[k][unit] ELSE sum[k - 1]
    IN  sum[Len(b)]

(* No refund lets a consumer over its rate: what was admitted in any interval
   up to now cost at most its length and one burst, requests and tokens alike
   (overruns aside, which the next request waits off). *)
RateBound ==
    \A i \in DOMAIN book, unit \in {"tokens", "request"} :
      Since(book, i, unit) <= window + now - book[i].at

(* The widest share 1 - r any of the limits gives the bulk lane. *)
BulkTolerance ==
    LET tols == {max((window * (reserveScale - l.XUReserve)) \div reserveScale, cost(l.TPM, 1)) :
                   l \in {k \in LimitsSet : valid(k)}}
    IN  CHOOSE t \in {0} \cup tols : \A x \in tols : x <= t

(* The urgent reserve: whatever the bulk lane sends, it fills the token bucket
   at most to its share on top of what the urgent lane and the overruns booked
   themselves. *)
UrgentKept ==
    backlog(tok, now) <= BulkTolerance + backlog(Replay(book, 0, Charges \ {"bulk"}), now)

(* Would the same request pass both buckets at t if nothing else arrived? *)
Passes(l, lane, n, t) == ReqAt(l, lane, t).ok /\ TokAt(l, lane, n, t).ok

(* Retry-After is exact: a rate refusal names the earliest time the same
   request could pass, and such a time exists for every request. *)
RetryAfterExact ==
    \A lane \in Lanes, l \in LimitsSet, n \in Estimates :
      LET exact(d) == d.reason = "rate" => /\ Passes(l, lane, n, now + d.retry)
                                           /\ ~Passes(l, lane, n, now + d.retry - 1)
      IN  exact(Decision(l, lane, n))

(* L1: the bulk count is the number of open bulk reservations, the open
   requests stay within the concurrency limit and the bulk ones within their
   share of it, under the largest limits the settings held. *)
SlotsBounded ==
    /\ bulk = Cardinality({r \in open : res[r].lane = "bulk"})
    /\ \/ open = {}
       \/ \E l \in LimitsSet : Cardinality(open) <= l.Concurrency
    /\ \/ bulk = 0
       \/ \E l \in LimitsSet : bulk <= bulkSlots(l.Concurrency, l.XUReserve)
=============================================================================
