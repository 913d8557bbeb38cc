----------------------------- MODULE EmbedCache -----------------------------
(***************************************************************************)
(* The embed cache (internal/embedcache) with the two guards that keep its *)
(* vectors in one vector space: the listener's diff of the coupled set     *)
(* (internal/events/listener.go) and the fingerprint on record that boot   *)
(* compares (internal/events/coupled_fingerprint.go).                      *)
(*                                                                         *)
(* A topology is the embed chain the backend rows give; its coupled set is *)
(* the set of hosts of its operator backends, and the fingerprint of a set *)
(* is the set.  The cache is the sequence of its rows by last access, the  *)
(* least recent first.  The database serialises single statements; what    *)
(* lies between two statements interleaves with everything else.           *)
(*                                                                         *)
(* History: of a row, whether its host was in the listener's baseline of a *)
(* stamped cache and whether baseline and stamp agreed when it entered.   *)
(***************************************************************************)
EXTENDS Integers, Sequences, FiniteSets, SequencesExt

CONSTANTS
    Callers, Texts,
    Backends, Host, ModelFor, Global,  \* of a backend: host, model ("" without), operator row
    Topologies,       \* the chains the backend rows may give
    Edits,            \* the edits of the backend rows that may happen: pairs of topologies
    Boot0,            \* the topology of the first boot
    TTL, MaxRows,     \* eviction by age switched on; the size cap, 0 is none
    MaxFaults,        \* bound of failing statements
    MaxCrashes        \* bound of process deaths

ASSUME BackendAssumption ==
    /\ Global \in [Backends -> BOOLEAN]
    /\ Topologies \subseteq Seq(Backends) /\ Boot0 \in Topologies
    /\ Edits \subseteq Topologies \X Topologies
    /\ MaxRows \in Nat /\ MaxFaults \in Nat /\ MaxCrashes \in Nat /\ TTL \in BOOLEAN

VARIABLES
    topo,         \* the backend rows in the database
    cache,        \* context_embed_cache by last access
    stamp,        \* the fingerprint on record as a singleton, Unstamped before the first
    proc,         \* the process: down, reconcile, stamp, up
    pool,         \* the pool snapshot of the process
    read,         \* what the running reloads have read: of the API and of the listener
    coupledPrev,  \* SettingsWriteHandler.coupledPrev
    linked,       \* the listener is connected
    notice,       \* a notification (or the backlog) waits for the handler
    handler,      \* the handler: idle, store, diff, stamp
    call,         \* each caller inside EmbedChain
    janitor,      \* the eviction: idle, size
    faults, crashes

listener == <<coupledPrev, linked, notice, handler>>
bounds == <<faults, crashes>>
vars == <<topo, cache, stamp, proc, pool, read, listener, call, janitor, bounds>>

Unstamped == {}
NoCall == [at |-> "out", text |-> "", chain |-> <<>>, i |-> 0]
NothingRead == [api |-> {}, listener |-> {}]

(* Only the operator's rows read or feed the shared cache. *)
cacheable(b) == Global[b]

coupledSetOf(p) == {Host[p[i]] : i \in {j \in DOMAIN p : Global[p[j]]}}

Init ==
    /\ topo = Boot0 /\ cache = <<>>
    /\ stamp \in {Unstamped, {coupledSetOf(Boot0)}}
    /\ proc = "down" /\ pool = <<>> /\ read = NothingRead
    /\ coupledPrev = {} /\ linked = FALSE /\ notice = FALSE
    /\ handler = "idle" /\ call = [c \in Callers |-> NoCall] /\ janitor = "idle"
    /\ faults = 0 /\ crashes = 0

Fault == faults < MaxFaults /\ faults' = faults + 1 /\ UNCHANGED crashes
-----------------------------------------------------------------------------
(* Boot. *)

(* The initial reload of the pool; without it the pool starts empty and the
   reconcile is skipped.  The listener's baseline is the pool as loaded. *)
bootLoadBackendPool ==
    /\ proc = "down"
    /\ \/ pool' = topo /\ proc' = "reconcile" /\ UNCHANGED bounds
       \/ Fault /\ pool' = <<>> /\ proc' = "up"
    /\ coupledPrev' = {} /\ linked' = FALSE /\ notice' = FALSE /\ handler' = "idle"
    /\ UNCHANGED <<topo, cache, stamp, read, call, janitor>>

(* The listener is built on the loaded pool once the boot step is over. *)
BootDone == proc' = "up" /\ coupledPrev' = coupledSetOf(pool)

(* The boot compares the pool with the fingerprint on record: none is seeded,
   an equal one is enough, another one flushes before it is replaced.  A read, a
   seed or a flush that fails leaves everything as it is and the boot goes on. *)
reconcileCoupledFingerprint ==
    /\ proc = "reconcile"
    /\ \/ /\ stamp = Unstamped
          /\ BootDone
          /\ stamp' = {coupledSetOf(pool)} /\ UNCHANGED <<cache, bounds>>
       \/ /\ stamp = {coupledSetOf(pool)}
          /\ BootDone /\ UNCHANGED <<cache, stamp, bounds>>
       \/ Fault /\ BootDone /\ UNCHANGED <<cache, stamp>>
       \/ /\ stamp \notin {Unstamped, {coupledSetOf(pool)}}
          /\ cache' = <<>> /\ proc' = "stamp" /\ UNCHANGED <<coupledPrev, bounds>>
          /\ stamp' = stamp
    /\ UNCHANGED <<topo, pool, read, linked, notice, handler, call, janitor>>

(* storeCoupledFingerprint at the end of the boot flush. *)
BootStamp ==
    /\ proc = "stamp"
    /\ BootDone
    /\ \/ stamp' = {coupledSetOf(pool)} /\ UNCHANGED bounds
       \/ Fault /\ stamp' = stamp
    /\ UNCHANGED <<topo, cache, pool, read, linked, notice, handler, call, janitor>>

(* The process dies: calls, pool and listener are gone, the tables stay. *)
Crash ==
    /\ proc # "down" /\ crashes < MaxCrashes
    /\ crashes' = crashes + 1
    /\ proc' = "down" /\ pool' = <<>> /\ read' = NothingRead /\ coupledPrev' = {}
    /\ linked' = FALSE
    /\ notice' = FALSE /\ handler' = "idle"
    /\ call' = [c \in Callers |-> NoCall] /\ janitor' = "idle"
    /\ UNCHANGED <<topo, cache, stamp, faults>>
-----------------------------------------------------------------------------
(* Edits of the backend rows and the listener. *)

(* A backend row is edited, through the API or by psql, also while the process
   is down; a connected listener is notified. *)
EditBackends(t) ==
    /\ <<topo, t>> \in Edits
    /\ topo' = t
    /\ notice' = (notice \/ linked)
    /\ UNCHANGED <<cache, stamp, proc, pool, read, coupledPrev, linked, handler, call,
                   janitor, bounds>>

(* The API handler's own reload after a write, to any backend row: Pool.Reload
   reads the rows and stores the snapshot later.  No diff follows, and the
   notification of the write may long be handled by then.  One such reload at a
   time is enough to overtake the listener's. *)
reloadAfterMutation ==
    /\ proc = "up"
    /\ \/ read.api = {} /\ read' = [read EXCEPT !.api = {topo}] /\ pool' = pool
       \/ \E t \in read.api : pool' = t /\ read' = [read EXCEPT !.api = {}]
    /\ UNCHANGED <<topo, cache, stamp, proc, listener, call, janitor, bounds>>

(* A connect ends in the backlog, which the handler serves like a notification. *)
Connect ==
    /\ proc = "up" /\ ~linked
    /\ linked' = TRUE /\ notice' = TRUE
    /\ UNCHANGED <<topo, cache, stamp, proc, pool, read, coupledPrev, handler, call,
                   janitor, bounds>>

Disconnect ==
    /\ linked /\ handler = "idle"
    /\ Fault
    /\ linked' = FALSE /\ notice' = FALSE
    /\ UNCHANGED <<topo, cache, stamp, proc, pool, read, coupledPrev, handler, call,
                   janitor>>

(* The handler reloads the pool; a failed reload keeps the previous one. *)
HandleNotification ==
    /\ proc = "up" /\ handler = "idle" /\ notice
    /\ notice' = FALSE
    /\ \/ handler' = "store" /\ read' = [read EXCEPT !.listener = {topo}] /\ UNCHANGED bounds
       \/ handler' = "diff" /\ Fault /\ read' = read
    /\ UNCHANGED <<topo, cache, stamp, proc, pool, coupledPrev, linked, call, janitor>>

(* The listener's reload publishes what it read. *)
Reload ==
    /\ handler = "store"
    /\ handler' = "diff"
    /\ \E t \in read.listener : pool' = t /\ read' = [read EXCEPT !.listener = {}]
    /\ UNCHANGED <<topo, cache, stamp, proc, coupledPrev, linked, notice, call, janitor,
                   bounds>>

(* Mutant: the baseline moves on although the flush failed. *)
flushIfCoupledChanged_Forgets ==
    /\ handler = "diff"
    /\ \/ /\ coupledPrev = coupledSetOf(pool)
          /\ handler' = "idle" /\ UNCHANGED <<cache, coupledPrev, bounds>>
       \/ /\ coupledPrev # coupledSetOf(pool)
          /\ coupledPrev' = coupledSetOf(pool) /\ handler' = "stamp"
          /\ \/ cache' = <<>> /\ UNCHANGED bounds
             \/ Fault /\ cache' = cache
    /\ UNCHANGED <<topo, stamp, proc, pool, read, linked, notice, call, janitor>>

(* A coupled set other than the last flushed one flushes the cache; the
   baseline advances only after a successful flush. *)
flushIfCoupledChanged ==
    /\ handler = "diff"
    /\ \/ /\ coupledPrev = coupledSetOf(pool)
          /\ handler' = "idle" /\ UNCHANGED <<cache, coupledPrev, bounds>>
       \/ /\ coupledPrev # coupledSetOf(pool)
          /\ cache' = <<>> /\ coupledPrev' = coupledSetOf(pool) /\ handler' = "stamp"
          /\ UNCHANGED bounds
       \/ /\ coupledPrev # coupledSetOf(pool)
          /\ Fault /\ handler' = "idle" /\ UNCHANGED <<cache, coupledPrev>>
    /\ UNCHANGED <<topo, stamp, proc, pool, read, linked, notice, call, janitor>>

(* The flushed set goes on record; a failed stamp is only logged. *)
ListenerStamp ==
    /\ handler = "stamp"
    /\ handler' = "idle"
    /\ \/ stamp' = {coupledPrev} /\ UNCHANGED bounds
       \/ Fault /\ stamp' = stamp
    /\ UNCHANGED <<topo, cache, proc, pool, read, coupledPrev, linked, notice, call,
                   janitor>>
-----------------------------------------------------------------------------
(* EmbedChain. *)

Rows(text, model) == {i \in DOMAIN cache : cache[i].text = text /\ cache[i].model = model}
Touch(i) == Append(RemoveAt(cache, i), cache[i])

(* A caller takes the chain from the pool snapshot. *)
Begin(c, text) ==
    /\ proc = "up" /\ call[c].at = "out" /\ pool # <<>>
    /\ call' = [call EXCEPT ![c] = [at |-> "probe", text |-> text, chain |-> pool, i |-> 1]]
    /\ UNCHANGED <<topo, cache, stamp, proc, pool, read, listener, janitor, bounds>>

(* The cache fast path, keyed on the model of the chain's head: a hit touches
   the row and ends the call without a wire attempt; a failed probe is a miss. *)
cacheProbe(c) ==
    LET head == call[c].chain[1]
        hits == IF cacheable(head) /\ ModelFor[head] # ""
                THEN Rows(call[c].text, ModelFor[head]) ELSE {}
    IN  /\ call[c].at = "probe"
        /\ \/ \E i \in hits : /\ cache' = Touch(i) /\ call' = [call EXCEPT ![c] = NoCall]
                              /\ UNCHANGED bounds
           \/ /\ IF hits = {} THEN UNCHANGED bounds ELSE Fault
              /\ cache' = cache /\ call' = [call EXCEPT ![c].at = "wire"]
        /\ UNCHANGED <<topo, stamp, proc, pool, read, listener, janitor>>

(* The attempt at the i-th backend: it answers; or it fails with a class that
   goes on (a backend without a model for the role is skipped the same way); or
   the call ends with an error (admission refused, the dispatcher's abort, a
   class that stops, the chain exhausted). *)
WireAttempt(c) ==
    LET b == call[c].chain[call[c].i]
        last == call[c].i = Len(call[c].chain)
    IN  /\ call[c].at = "wire"
        /\ \/ ModelFor[b] # "" /\ call' = [call EXCEPT ![c].at = "insert"]
           \/ ~last /\ call' = [call EXCEPT ![c].i = @ + 1]
           \/ (ModelFor[b] # "" \/ last) /\ call' = [call EXCEPT ![c] = NoCall]
        /\ UNCHANGED <<topo, cache, stamp, proc, pool, read, listener, janitor, bounds>>

(* Mutant: the row is keyed on the chain's preferred model. *)
RowKey_Head(c) == ModelFor[call[c].chain[1]]
(* The model the row is keyed on: the answering backend's. *)
RowKey(c) == ModelFor[call[c].chain[call[c].i]]

(* Mutant: rows of another backend do not conflict. *)
Conflicting_SameBackend(c) ==
    {i \in Rows(call[c].text, RowKey(c)) : cache[i].by = call[c].chain[call[c].i]}
(* ON CONFLICT (text_hash, model). *)
Conflicting(c) == Rows(call[c].text, RowKey(c))

(* The answer is written back unless the backend is a tenant's; an existing row
   keeps its vector and is only touched. *)
Insert(c) ==
    LET b == call[c].chain[call[c].i]
        old == Conflicting(c)
        row == [text |-> call[c].text, model |-> RowKey(c), by |-> b,
                known |-> stamp # Unstamped /\ Host[b] \in coupledPrev, agreed |-> stamp = {coupledPrev}]
    IN  /\ call[c].at = "insert"
        /\ \/ ~cacheable(b) /\ cache' = cache /\ UNCHANGED bounds
           \/ cacheable(b) /\ old = {} /\ cache' = Append(cache, row) /\ UNCHANGED bounds
           \/ cacheable(b) /\ (\E i \in old : cache' = Touch(i)) /\ UNCHANGED bounds
           \/ cacheable(b) /\ Fault /\ cache' = cache
        /\ call' = [call EXCEPT ![c] = NoCall]
        /\ UNCHANGED <<topo, stamp, proc, pool, read, listener, janitor>>
-----------------------------------------------------------------------------
(* Evict, the janitor's two statements. *)

(* Rows not accessed within the TTL go: some of the least recent ones. *)
EvictTTL ==
    /\ proc = "up" /\ janitor = "idle"
    /\ \/ /\ \E k \in 0..(IF TTL THEN Len(cache) ELSE 0) : cache' = SubSeq(cache, k + 1, Len(cache))
          /\ janitor' = "size" /\ UNCHANGED bounds
       \/ TTL /\ Fault /\ UNCHANGED <<cache, janitor>>
    /\ UNCHANGED <<topo, stamp, proc, pool, read, listener, call>>

(* ORDER BY last_access ASC OFFSET maxRows: the rows behind the first MaxRows
   are deleted. *)
EvictSize ==
    /\ janitor = "size"
    /\ janitor' = "idle"
    /\ \/ /\ MaxRows > 0 /\ Len(cache) > MaxRows
          /\ cache' = SubSeq(cache, 1, MaxRows)
          /\ UNCHANGED bounds
       \/ /\ MaxRows = 0 \/ Len(cache) <= MaxRows
          /\ UNCHANGED <<cache, bounds>>
       \/ MaxRows > 0 /\ Fault /\ UNCHANGED cache
    /\ UNCHANGED <<topo, stamp, proc, pool, read, listener, call>>

Next ==
    \/ bootLoadBackendPool \/ reconcileCoupledFingerprint \/ BootStamp \/ Crash
    \/ \E t \in Topologies : EditBackends(t)
    \/ reloadAfterMutation
    \/ Connect \/ Disconnect \/ HandleNotification \/ Reload
    \/ flushIfCoupledChanged \/ ListenerStamp
    \/ \E c \in Callers : \/ \E text \in Texts : Begin(c, text)
                          \/ cacheProbe(c) \/ WireAttempt(c) \/ Insert(c)
    \/ EvictTTL \/ EvictSize

Spec == Init /\ [][Next]_vars
-----------------------------------------------------------------------------
Models == {ModelFor[b] : b \in Backends} \ {""}

(* The state is well formed and (text, model) is a key of the cache. *)
TypeOK ==
    /\ topo \in Topologies /\ pool \in Topologies \cup {<<>>}
    /\ \A i \in DOMAIN cache :
         /\ cache[i] \in [text : Texts, model : Models, by : Backends,
                       known : BOOLEAN, agreed : BOOLEAN]
         /\ Rows(cache[i].text, cache[i].model) = {i}
    /\ proc \in {"down", "reconcile", "stamp", "up"}
    /\ \A t \in read.api \cup read.listener : t \in Topologies
    /\ (read.listener # {}) = (handler = "store")
    /\ handler \in {"idle", "store", "diff", "stamp"} /\ janitor \in {"idle", "size"}
    /\ {linked, notice} \subseteq BOOLEAN
    /\ \A c \in Callers : call[c].at \in {"out", "probe", "wire", "insert"}
    /\ faults \in 0..MaxFaults /\ crashes \in 0..MaxCrashes

(* The cache is the operator's: whatever chain a call walked and wherever it
   failed over to, a row holds a vector an operator backend computed with the
   model the row is keyed on. *)
RowsGenuine ==
    \A i \in DOMAIN cache : Global[cache[i].by] /\ ModelFor[cache[i].by] = cache[i].model

(* The fingerprint on record can be trusted by the next boot: whatever edits are
   made online, during a lost connection or while the process is down, whatever
   reloads overtake each other and whatever reload, flush or stamp fails or is
   cut off by a crash, no row is left that was written by a host of the stamped
   set of its time and whose host is not in the set stamped now. *)
StampTruthful ==
    \A i \in DOMAIN cache, S \in stamp : cache[i].known /\ cache[i].agreed => Host[cache[i].by] \in S
=============================================================================
