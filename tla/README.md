# Verification of ctx

ctx is a knowledge store for people and agents: a daemon (`ctxd`, Go) on top of
PostgreSQL that stores text blocks, embeds and links them, answers queries with
local and remote language models, and serves a model API to outside consumers.
This directory holds TLA+ models of the parts of the daemon whose correctness
depends on order, concurrency or failure, the TLC runs that check them on small
instances, and TLAPS proofs of the properties that hold for every instance.

## The system and its parts

| part (`src/go/internal/...`) | state | operations | hard behaviour | what makes it correct |
|---|---|---|---|---|
| `dispatch` | per target: queues of four classes, leases, unit counters, cancel registries; settings and policy behind atomic pointers | `Acquire`, `TryAcquire`, `Release`, wake loop, preemption, reaper, herald, hot swap | handoff against cancel, expiry, reaper and watchdog; stores without the mutex; starvation between classes and consumers | exact units, no over-admission, no leaked lease, no stranded waiter, rank order, every waiter answered |
| `keyquota` | two GCRA buckets and the open reservations per (consumer, op) | `Admit`, `Settle`, `Keep`, `Abort` | refunds of overlapping requests in any order, boundary arithmetic | the buckets stand where the real costs would have put them, Retry-After is exact, bulk never fills the urgent reserve |
| `embedcache`, `embed` | rows (text hash, model) -> vector | chain call, probe, insert, flush, evict | flush and config change during a wire call, crash between flush and stamp | rows are keyed by the model that made them, the stamp on record is true of them |
| `graphcache` | published snapshot, dirty mark, running build, failure count | `MarkDirty`, `BeginBuild`, `CommitBuild`, `FailBuild`, `State` | writes during a build, lost notifications | no write is forgotten, staleness never under-reported |
| `embedmigration`, `events/embed_*` | migration rows, the `_next` and `_old` vector columns, failure memos, `model_map` of the embed backend | `Create`, transitions, worker cycle, verify, cutover, rollback, cleanup, purge | operators, worker, verify run and text writers on the same rows; crash between steps | one active migration, moves along the edges only, a cutover installs vectors of the target model and of the current text |
| `backends` | pool snapshot, cooldowns, quota windows | resolve chain, report outcome, reload | late reports after a reload, half-open probes | a failing backend is rested and comes back |
| `events/distill*`, `distillsource` | journal (`distill_run`), ledger (`distill_seen`), shards of insight blocks, wake window | wait, tick, read, extract, write, roll, mark, advance, boot sweep | crash between write, mark and advance; full shards and caps; lost notifications | what journal and ledger claim is held by a block, nothing twice, nothing taken back, everything covered in the end |
| `events` (scheduler, listener) | timers, LISTEN/NOTIFY connection, coupled fingerprint | arms of the scheduler | lost notifications, restart between change and flush | every change is eventually acted on |
| `dream` | links, recurrence counters, claims | keyword, evaluate, decide, write | concurrent cycles on one block | a link is decided once |
| `forge` | mirrored issues, push queue, throttle | pull, apply, push | conflicting edits on both sides | no edit is lost silently |
| `llm`, `oai`, `chat` | none of their own beyond a call | failover walk over a chain, streaming, tool loop | partial answers, aborted leases | one answer, an abort never fails over |
| `overview`, `rrf`, `recall`, `derived` | tables of clusters, scores, run journal | batch jobs and pure ranking | long numeric work | results follow from their inputs |
| `handler`, `store`, `config`, `auth`, `oidc`, `cli`, web UI, scripts | SQL rows, sessions, settings | request handlers, statements, commands | transactions of PostgreSQL | access rules, one row per intent |

The parts meet in few places. Every call to a model runs under a lease of
`dispatch`: `llm`, `embedcache`, `oai` and the arms of `events` call `Acquire`
on the physical origin of the backend that the pool of `backends` chose, run
the call on the lease's context and release it. A request of the HTTP surface
raises the herald (`InteractiveArrived`) for as long as it is in the house. A
reload of the configuration stores a new policy and new settings in the
dispatcher while calls are running. `oai` asks `keyquota` before it asks the
dispatcher; only the dispatcher lets a request wait. Every write to a settings or
backend row and to the link tables raises a PostgreSQL notification; the listener
of `events` turns it into a pool reload with a flush of the embed cache, or into
the dirty mark of the graph cache, and runs the same code once after every
reconnect because notifications of the meantime are lost. An inserted block wakes
the distiller the same way. The vector columns of a block are shared: the write
paths of `store` clear them, the backfill of the scheduler and of the query
handler fills the serving pair, the migration arm the `_next` pair, and a cutover
renames them under a lock of the whole table.

## Modules

| module | role |
|---|---|
| `DispatchPolicy` | stateless half of `dispatch`: class table, rank orders, resolved policy, external capacity, share arithmetic |
| `Dispatcher` | the state machine of one target: doors, queues, wake loop, leases, preemption, aging, reaper, watchdog, herald, hot swaps; its properties |
| `DispatcherProofs` | inductive invariant and theorems about `Dispatcher` |
| `DispatcherAdmissionProofs` | order of the queues; what a door or a wake may admit and enqueue |
| `DispatcherConservationProofs` | no idle unit, no inverted rank, the partition, the reach of a preemption |
| `KeyQuota` | the meter of one consumer and operation: admission, settlement, refund; its properties |
| `KeyQuotaProofs` | L1, Retry-After, and the history of the charges behind the buckets |
| `GraphCache` | writes, NOTIFY connection, snapshot manager, rebuild loop and consumer gate |
| `GraphCacheProofs` | no write is forgotten, what is served is fresh, a snapshot only grows |
| `EmbedCache` | embed calls, cache rows, pool reloads, the listener's coupled diff, the boot reconcile, eviction |
| `EmbedCacheProofs` | rows are genuine, the stamp is truthful |
| `EmbedMigration` | migration rows and vector columns under operator commands, arm, verify run, cutover, rollback, purge, backfill and text writers |
| `MigrationLifecycle` | abstract: what the migration rows, the serving space and the rollback columns do as the operator sees it; `EmbedMigration` implements it |
| `EmbedMigrationProofs` | types, the refinement of `MigrationLifecycle`, what a cutover installs |
| `Distill` | the distiller for one root session: wake window, tick, reader, calls, shards, ledger, journal |
| `DistillProofs` | nothing lost, nothing twice, nothing withdrawn, no wake lost |
| `MCClasses`, `MCSwap`, `MCLive` | instances of `Dispatcher` |
| `MCKeyQuota`, `MCGraphCache`, `MCGraphCacheLive`, `MCEmbedCache`, `MCMigration`, `MCDistill` | instances of the others; `MCMigration` and `MCDistill` have configurations of their own for the findings (`MCMigrationFresh`, `MCMigrationRollback`, `MCDistillBrake`) |

### The dispatcher model

The variables of `Dispatcher` are the fields of `targetState` and of the
`Dispatcher` struct. A waiter or a lease is named by the caller it belongs to
(`Requests`), each caller has one request at a time and may call again, so
`phase` says where it is in its door: idle, queued, granted (the lease was
handed over, the goroutine has not run yet), running, failed (ended through the
waiter's error channel). A class queue is the set of its waiters with `ahead`,
the waiters of the class that arrived before; buckets, the continuation queue
and the heads are derived from it.

One action is one critical section, or one step of a longer one. A section that
ends in `wakeLocked` sets `wake` and keeps the mutex (`Unlocked` is false) while
the loop runs: `WakeDrain` is its first half (the fairness view moves, external
waiters the target can never serve are ended, slots, rank order and scheduling
mode are read once), each `WakeHandoff` is one iteration, `WakeEnd` the unlock.
The steps are separate because the loop re-reads the herald count, settings and
policy, which other goroutines store without the mutex; a swap in the middle of
a loop is therefore part of every behaviour. A reaper pass is the same: `ReapNow`
collects the late leases under the mutex, `ReapLease` settles them one by one,
each with its own wake, `ReapWake` is the tick's last wake.

Time is reduced to what the code derives from it. `old` holds the waiters past
their aging threshold, `viewOld` what the fairness order knew of it when its
view last moved, `late` the leases past their reap deadline; slot times are
ranks (`slotTime`) that may change to any value whenever the view moves, so
every order the meters can produce is covered. A wait-budget or prediction
refusal may happen whenever the code computes one. `Door(r)` is the decision
of `Acquire` and `TryAcquire`: refuse, admit at once, or queue.

### The meter

`KeyQuota` keeps the two theoretical arrival times (`req`, `tok`), the open
reservations and the bulk count. Each method runs under one mutex and is one
action; between them requests overlap, the clock moves and the limits in the hot
settings change. The shadow of an open reservation is the bucket of the charges
made after it, the floor of its own refund. A `Settle` above the estimate charges
and raises every open shadow; one below refunds and lowers the shadows of the
reservations admitted earlier (`Shadows`). The history variable `book` lists what
every request would have been charged had its usage been known; replaying it is
the reference `OracleExact` compares the bucket with. Division truncates, as
the code's does, and additions and products saturate at `MaxInt64`.

### The graph cache

A write is a committed transaction and names the tables it changes. A build reads
three tables in three transactions (`BuildRead`), so it may see half of what a
concurrent write did; `Swap` publishes and `Consume` clears the mark, two steps
because readers go past the manager's mutex between them. `MarkDirty` during a
build sets the carry mark. The listener connection can be lost at any time; a
reconnect first listens, then handles the backlog. A consumer judges the state
and takes the snapshot in two steps. Time is ages that saturate at `MaxAge`.

### The embed cache

The cache is the sequence of its rows by last access. A call takes its chain from
the pool, probes, walks the chain and inserts, each a step; every SQL statement is
one step and may fail. `Pool.Reload` is its read and its store, so the reload of
an API handler and the listener's may overtake each other. `coupledPrev` is the
listener's baseline, `stamp` the fingerprint on record, which boot compares
(`reconcileCoupledFingerprint`); flush and stamp are two statements, and the
process can die between any two steps while the backend rows go on changing.

### The migration

`EmbedMigration` keeps the block texts as versions and a vector as the model and
the version it was made of. Arm, verify goroutine, cutover request, create
request, purge and backfill each have a program counter; a statement or a
transaction is one step. A transaction that holds a row lock across a wire call
(arm, scheduler backfill) is two steps, and `Locked` keeps other writers of the
row and the renames of the cutover out in between; the backfill of the query
handler takes no lock. The arm acts on the row it read at the start of its cycle,
the verify run on the row and watermark it was started with; every status change
is the compare-and-swap `Transition`. The confirm is its preflight, the
re-check that opens its transaction, and the swap, which waits for the table;
reload, the two statements of the sweep (`SweepForeign`, `SweepMemos`) and the memo
copy follow after the commit and may fail or be lost with the process. `Create` is
its checks of the rows, the probe of left-over data (whose queries are taken as
one) and the INSERT. A failed wire call leaves a backoff or, when the text exceeds
the model's context, an `infinity` memo; of the backfill's memos only the
`infinity` ones are kept (`parked`), since a block under a finite backoff is one
the backfill picks later. One cutover or rollback request runs at a time.
`ApplyCycleDelta` writes the cursor at the end of a batch; only the arm reads the
cursor, so the write is part of the step before it.

Texts change by three paths, given per block by `Paths`: the upsert clears both
vector pairs in its transaction, the update by id clears them afterwards
(`FinishBlockUpdate`, lost with a crash), the pull of an issue nulls the serving
vector alone. `Create` is called with the serving model as `from_model`, as the
operator's guide has it; registration of the models and disk space are taken for
granted.

`MigrationLifecycle` has three variables and no actors: a history of migrations,
the serving space, whether the rollback columns exist. The refinement mapping
reads them from `rows`, `modelMap.embed` and `anchor.kept`; `LifecycleKept` is its
`Spec` but for one step. It is what an operator relies on: one active migration, status changes
along `allowedTransitions` only, and status, space and anchor of a cutover or a
rollback changing in one step, although its checks, the arm's snapshots and the
work after the commit are spread over many. Its `Rollback` undoes the last cutover
(`LastCutover`) and returns to that cutover's `from`. The code does not refuse the
rollback of an older migration, so `LifecycleKept` leaves exactly that step out,
and the run `rollback_follow_up` is about it.

### The distiller

A chunk of a checkpoint stands for the hash of its text; `Yield` says which
claims the model returns for it. Lengths are counted in claims: `RunRoom` is what
the render and the rune meter admit into a shard, the seed's shorter frame admits
`SeedSlack` more. The arm is one goroutine with the program counter `at`; the
order of its durable steps is the order of the code: the block is written, a full
shard handed over, the ledger marked, the row advanced. A crash between any two
leaves the journal row `running` (`orphans`), which counts for the watermark once
the boot sweep has closed it. A batch without items ends the run when the
range is exhausted, or, partial and with the watermark where it was, when the
reader cut the last group of its window (`Exhausted`). `window` is the wake window
with its id cap, its overflow flag and the channel's token; the listener fills it,
the arm drains it.
`gone` and `excused` are history: which chunks were given up by a failed call (the
arm is fail-open) or a brake, and whether the last tick left material behind
knowingly. One root session is modelled; sessions share the wake window and
the spend only. `distillSeedBlock` reads the whole shard chain of the range: the
row limit of the code's group read (`distillShardGroupLimit`) follows the cap, and
`LiftCap` only ever lifts it, so the limit never binds. Where an operator lowers
the cap under a longer chain it does, and the comment at distill_block.go:259-262
admits a duplicate claim there; `OncePerRange` does not speak of that case.

## Runs

| run | instance | shows |
|---|---|---|
| `classes` | two interactive, two background, an urgent caller of weight 2 that is a continuation and a bulk caller, S = 3, R = 1, preemption and aging on, round-robin, caps of 1; the rank order is switched under load | `TypeOK`, `Accounting`, `PreemptCovers`, `WorkConserving`, `ReserveKept`, `NoBarging`, `NoInversion`, `NoOverAdmission`, `BackgroundYields`, `QueuesBounded` |
| `swap` | four policies (partitioned, more reserved, slots cleared, self-admitting with an offer) and dispatch on or off, swapped at any time; one interactive and three external callers, one of weight 2, leases that overrun | `LeaseOwned`, `WorkConserving`, `NoOverAdmission` |
| `progress` | a behaviour chooses one of two targets: S = 1 with preemption and aging and an interactive and two background callers, one of each able to hang; or S - R = 2 with a weight-2 consumer against two light ones of its tenant, slot times free | `CancelCauses`, `LeasesEnd`, `InteractiveAnswered`, `BackgroundAnswered`, `ExternalAnswered` |
| `key_quota` | three requests, estimates around the capacity, two limits, both lanes | `TypeOK`, `OracleExact`, `RateBound`, `UrgentKept`, `RetryAfterExact`, `SlotsBounded` |
| `graph_cache` | two writes, one of them on two tables; lost connections, failing builds, hot switch, a restart | `TypeOK`, `NoForgottenWrite`, `ServedFresh` |
| `graph_cache_progress` | one write, the hard rebuild interval out of reach | `WritesArrive` |
| `embed_cache` | two chains edited into each other, an operator, a tenant and a model-less backend, one failing statement, one crash | `TypeOK`, `RowsGenuine`, `StampTruthful` |
| `embed_migration` | two blocks, one of them created later, written by the other paths and too long for one model; two target models; up to two migrations | `TypeOK` (with at most one active migration), `LifecycleKept` (the refinement), `CutoverGenuine` |
| `distill` | three manifests, two of one watermark, five chunks, one repeated, one discarded; shards of two claims, no cap or a cap of one that is lifted later | `TypeOK`, `NothingLost`, `OncePerRange`, `WakeKept`, `PublishedKept`, `AllCovered` |

Three runs state what a comment or a guide of the repository says and find that the
code does not do it.

| run | claim | what the code does |
|---|---|---|
| `migration_fresh` | `CutoverFresh`: no vector of an older text becomes a serving one by the cutover (comment of `ClearEmbeddingTx`, store/blocks.go) | the issue and comment pulls of the forge null the serving vector only, the `_next` vector of the old text is installed |
| `rollback_follow_up` | `FollowUpRefused`: a rollback refuses if a follow-up migration exists (docs/operations.md:652) | `rollbackPreflight` refuses an active one only. After m0 to m1 (cleaned up) and m1 to m2, the rollback of the first installs the second's `_old` vectors, leaves `model_map.embed` at m2 (there is nothing to un-flip), and its sweep clears every serving vector, because none is of m0 |
| `distill_brake` | `CoveredIsHeld`: material whose insights nothing holds is readable again (comment of `distillBatch`) | when the breaker, the GPU ceiling or the call clamp ends the batch in which the shard overflowed, the chunks are marked seen and the claims that did not fit are in no block |

`CutoverGenuine` and `NothingLost` are what does hold there: the first asks for
the current text only of blocks whose writes clear with the text, the second
leaves the claims given up by a brake out. `LifecycleKept` is
the counterpart of `FollowUpRefused`. `CutoverGenuine` says nothing of vectors that a purge took, which
the backfill embeds anew, and leaves histories with
a rollback out, because a rollback may overlap the checks of a `Create` and hand
it columns full of vectors. `StampTruthful` of the embed cache says that a row
written by a host of the stamped set, while baseline and stamp agreed, never
outlives its host's leaving that set.

### Known limits of the code

Met while modelling, and left as they are; the models contain the behaviour, no
run claims its absence.

- An embed call that took its chain before an edit of the backend rows inserts
  its vector after the flush of that edit (embedcache.go:249). Two pool reloads
  may overtake each other and leave the older rows in the pool (pool.go:157).
- The size prune of the embed cache deletes what `ORDER BY last_access ASC
  OFFSET maxRows` selects: the most recent rows, where the comment of `Evict`
  says the least recently accessed ones.
- A finite failure memo of a migration is never deleted. After one transient
  wire failure every gate run of that migration is red ("unresolved finite
  failure memo(s)", embed_verify.go), although its block was embedded since.
- `copyInfinityMemosToBackfill` parks a block whose text has changed since its
  memo was written. The backfill of the query path stores without a lock, so a
  text changed during its call gets the old text's vector. A backfill that chose
  its model before the cutover's reload may store after the sweep.
- The update by id clears the vectors after its commit; a failure of that
  statement is logged, and the vectors of the old text stay.
- A rollback installs `_old` vectors that edits since the cutover have not
  cleared.
- When the manifests the reader keeps of its window yield no item and the last
  group of the window was cut, the batch is empty and incomplete: the run ends
  partial without advancing (distill.go:1060-1065), and every later tick reads the
  same window, where the comment of `Read` (ctxcheckpoint.go:406-408) says such a
  manifest "is covered even when it produced no item at all". `Exhausted` has the
  case; the instance of `distill` has no manifest without chunks, so `AllCovered`
  does not speak of it.
- A manifest whose transaction commits after one with a later `created_at` lies
  below a watermark that has moved on (not modelled: commits are in order). The
  frame of a shard grows with its counters (not modelled: it is fixed). A claim
  can be written again in the next range; `OncePerRange` is about one range.
- The tolerance of a lane is `int64(float64(window) * (1 - r))` in keyquota.go:551.
  `newDim` floors the exact product; floating-point rounding can move the code's
  tolerance by a nanosecond (not modelled).

Bounds. Two callers per in-house class make a queue with an order and a victim
choice possible; weights of one and two on a partition of two units make a head
that does not fit, a backfill and a hold happen; a herald count of one tells
"some" from "none". `MaxPassed` saturates the turnover count at the external
capacity, beyond which the code no longer distinguishes it. Slot-time ranks
stay at 0 where a property does not depend on the order of consumers. In
`progress`, `SameKind` keeps a behaviour on the target it chose and
each target to its own callers, which restricts who calls (nobody has to) and no
action that is fair.

Three requests let a refund pass over a later and an earlier reservation;
capacities of two and three units in a window of a few clock units reach every
boundary, and the clock runs long enough for a bucket to drain. `MaxInt64` is far
above what the run reaches: saturation is covered by the type theorem only.
Consumers and operations share no state, so one is enough. Two writes on
different tables distinguish a build that saw one, half of one or both; ages
saturate above the largest interval. In `embed_cache` one caller is enough for a
call to span every other step (rows conflict with those of the caller's earlier
calls), and one API reload at a time is enough to overtake the listener's.

In `embed_migration` and `distill` what the environment does is bounded by a
budget chosen in `Init` (`Budgets`): a set of records that say how often it may
create a migration, arm a model, edit, fail, crash and so on. Each record allows
one kind of trouble in full and little of the others; a product of all would be
out of reach. The four of `MCMigration` are two migrations in a row with both
models; one with an edit and a new block; one with an edit, a failure and a
crash; one with an edit and a second verification. Two blocks are enough for a
batch that is half done and for a watermark that excludes one; two models tell a
leftover of another migration from one's own. The three of `MCDistill` are a
failure and a crash, a brake and a crash, a lost connection and a foreign insert.
Five chunks and shards of two claims make a call that overflows, a handover, a
hold at the cap, a re-read and a seed of a full shard happen; two manifests of one
watermark behind a window of two make the reader cut and keep a group; a wake cap
of one overflows.

Fairness of the dispatcher (`KindSpec`). A critical section runs to its unlock. A caller that was
answered returns. Timers fire: the reaper's ticker, the watchdog armed by a
preemption, the aging threshold, the reap deadline. An operation that waits for
the mutex gets it although others keep taking it, which is what the starvation
mode of Go's `sync.Mutex` gives, hence strong fairness for `Release`, `ReapNow`,
`WakeAll` and `PreemptWatchdog`. A caller in `Overrunning` need not release. The
doors, a cancelled context and the wait budget are not fair: nobody has to call,
and a waiter is not answered by giving up.

`FairSpec` of the graph cache: the loops and the listener keep running (weak
fairness), and what can fail or be interrupted again and again (the backlog after
a reconnect, each read of a build, the swap) succeeds in the end if it is tried
for ever (strong fairness). Writes, switches and restarts are not fair.

`FairSpec` of the distiller: the arm's goroutine keeps running, its fallback timer
included (weak fairness of the arm as a whole, `Tick` and `Run`), and a cap is
lifted some day; the listener, arrivals, failures and crashes are not fair, and
the budget ends the failures. Brakes that never end allow no progress, and the
code promises none.

## Proofs

Every safety invariant and every action property the passing runs check is also a
theorem, for every value of the constants that meets the named assumptions of the
module. The theorems are listed in `PROJECT.json`; this is the argument behind
each.

Induction over data is outside the provers, so facts about sequences and recursive
functions rest on one device: a set of naturals that is not empty has a least
element (`NatMin`, from the library's `WFMin` and `NatLessThanWellFounded`). A set
of counterexamples with a least member that cannot be least is empty; that is how
`FlattenSeq`, `Replay`, `Since`, a lexicographic minimum and the maximum of a
finite set are reasoned about.

### The dispatcher

`IInv` (`DispatcherProofs`) is the conjunction of `TypeOK`, `Accounting`,
`LeaseOwned` and `CancelCauses`. None of the last three is inductive alone:

- the counters stay exact only if a lease is admitted once and ended once,
  which `LeaseOwned` gives (an admitted caller was idle or queued, hence not
  registered);
- `CancelCauses` needs the cancel registries to hold exactly the background and
  external slot leases, which is part of `Accounting`;
- `LeaseOwned` needs `preempting` and `reaping` to name live leases only.

The units of a set of leases are a cardinality (`Units`), so the arithmetic rests
on the lemmas `UnitsAdd` and `UnitsRemove`.

`AInv` (`DispatcherAdmissionProofs`) adds that the waiters of a class are in a
strict total order of arrival (`QueueOrder`) and that what the wake loop keeps
between its steps is what the settings in force gave it (`ScanOK`). From it follow
the action properties `NoOverAdmission`, `NoBarging`, `BackgroundYields` and
`QueuesBounded`, each by a case distinction over the doors and the wake step.

`CInv` (`DispatcherConservationProofs`) adds `Conserved` (outside a wake loop
nobody waits whom the rank scan would admit) and `ScanRest` (the external waiters
have been offered their lease, and once the slots are gone the external classes the
scan has gone past are empty). The hard step is the end of a scan: the
fairness order over tenants and consumers is lexicographic over four numbers and
the arrival, and it has a first head (`FairnessExists`); the head that blocks,
blocks for the rest of the section. `WorkConserving` and `NoInversion` follow.

`ReserveKept` and `PreemptCovers` are about a target whose policy no reload
changes, because a shrunken policy may find more leases than it allows; their
theorems have the hypothesis `SamePolicy`, settings remain free. `ReserveKept`
rests on `PartitionAssumption` (a reserve is below the slots, which the resolution
of a policy enforces). `PreemptCovers` needs the order of the background leases
(`OlderOrder`), that the units never exceed the slots (`SlotsKept`) and a stronger
form without the exception for unsettled states (`Covered`); that the victims
taken suffice is a count by least elements (`VictimsEnough`).

### The meter

`IInv` (`KeyQuotaProofs`) adds to `TypeOK` and `SlotsBounded` that a reservation
remembers a positive token limit (`TpmPositive`), which the division of a
settlement needs. `RetryAfterExact` is arithmetic: although capacity and cost are
both rounded, a full bucket's worth of units costs no more than the tolerance
(`CapacityFits`), so the wait of a refusal is exact in each bucket (`WaitExact`).

`QInv` ties the buckets to the history `book`: every open reservation stands in it
once, with what it was charged (`Booking`); its shadow is the bucket of the
charges after its own (`ShadowsExact`); the token bucket is the bucket of all
(`OracleExact`); every suffix of the history keeps the bulk share
(`SuffixesKept`), because a refund may make any suffix the decisive one; and the
request bucket covers what was admitted (`RequestsCovered`). The core is
`ReplayRefund`: taking d off a charge in the past lowers the bucket by d, but never
below the bucket of the charges that came after it, which is the rule of
`refund`. Where the addition saturates the rule is not exact, so `RetryAfterExact`
assumes buckets a window below `MaxInt64`, and the theorems from `QInv` assume
`[]Unsaturated`: no bucket has reached `MaxInt64`, 292 years of nanoseconds.

### The caches

Graph cache: `NoForgottenWrite` and `ServedFresh` are inductive together with four
facts: only committed writes are published or read (`Committed`), a build that will
replace the snapshot keeps what that one holds (`Grows`), a signal during a build
leaves the carry mark unless the build reads the write (`CarryCovers`), and a
reader's verdict still holds of the snapshot it then takes (`JudgedFresh`).
`SnapshotGrows` is a by-product: no rebuild takes a write back.

Embed cache: the rows keep their key unique and their model (`CacheOK`) through
touches, evictions and inserts, which `KeepsSome` describes; calls, reloads and
process have their ranges; where the stamp is about to be replaced, the rows are
already what it will say (`StampOK`).

### The migration

`Types` joins the ranges with two facts about ids: an actor at work holds the id of
a row, and at most one row is active (`SingleActive`). The refinement needs
more, because a rollback takes its space from the row and its vectors from the
anchor: an active migration is the last row (`ActiveLast`), while the rollback
columns exist the serving space is the target of the last row that is done
(`AnchorSpace`), and what a rollback's preflight read of the backend row is still
so at its swap (`FlipExact`). With these (`Spaces`) every step maps to
a step of `MigrationLifecycle` or to a stutter (`LifecycleRefined`), except the
rollback under a follow-up, which `LifecycleKept` names. `Genuine` is
for `CutoverGenuine`, in the histories without a rollback: once a migration has
reached its verify gate, the arm works for no other (`ArmOnEntered`), the `_next`
vectors are of live blocks and of the current text where the writers clear them,
those of another model lie behind the watermark (`ForeignBehind`), and a verdict
that is not red stays true of the vectors (`VerdictHolds`).

### The distiller

Four layers, each on top of the others:

- `TInv`: the ranges of corpus, journal, ledger, run, window and arm.
- `SInv`: the shards of a range hold every claim once, and the accumulator of a run
  belongs to the last shard of its range or to the one after it: its dedup set is
  what the shards below hold, and the shard holds what was carried and what the
  last render wrote (`RunAttached`). `OncePerRange` and `PublishedKept` follow from
  it, because a render of grown insights extends the one before (`RenderGrows`).
- `LInv`: what the ledger marks is durable unless given up (`SeenHeld`), what a row
  covers is marked (`RowsSeen`), a batch has all rows up to its watermark
  (`BatchWhole`), and what its calls bought is on its way to a block
  (`BatchBought`, one clause per step of the batch). `NothingLost` follows.
- `WInv`: `WakeKept`, and its form while a run closes: nothing visible is left, or
  somebody will announce it.

The assumptions of `Distill` say that the corpus is a sequence with watermarks that
do not fall and that two different chunks yield different claims.

### Only model-checked

The liveness properties (`LeasesEnd`, `InteractiveAnswered`, `BackgroundAnswered`,
`ExternalAnswered`, `WritesArrive`, `AllCovered`): fairness and ENABLED are outside
the prover. `CutoverFresh`, `FollowUpRefused` and `CoveredIsHeld` are violated by the code and have runs of their own.

## Not modelled

In `dispatch`: the predicted time and Retry-After (arithmetic on durations, the
refusal itself is modelled), the `maxWeight` shortcut of the wake, re-weighing
of a consumer's fair weight, several targets at once (they share only the mutex,
the herald, settings and policy), usage charging, statistics, warnings and
`Close`. In `keyquota`: the response headers and messages. In `graphcache`: the
adjacency lists, traversals and the status block. In `embedcache`: `PeekByHash`,
health reports, ties of `last_access`, and the lease around a wire attempt, which
`Dispatcher` models. The seeding of the stamp at the first boot does not flush;
rows from before it are outside `StampTruthful`, as docs/operations.md
("Migration 132") says. In `embedmigration`: the index, quality and guard
stages of the verify gate, the disk estimate, counters, archived blocks, and the
flush of the embed cache inside the cutover. In the distiller: the gates on a
claim's text and selection by substance, the spend plan, retention and reset,
parallel calls, a switch of the arm, archived manifests, several roots. The other
parts of the daemon are listed in
`PROJECT.json` with their status and reason.

## Plan

1. Refinements that the theorems above prepare: an abstract token bucket that
   `KeyQuota` implements under `QInv`, and the bounded shards of `Distill` as an
   append-only set of claims.
2. An abstract slot pool (units out, units back, never more than the capacity)
   that `Dispatcher` implements while its policy is constant; the class queue of
   `queue.go` (buckets, ring, counters) as an implementation of the ordered set
   used here; the derivation of a policy from backend rows.
3. The health circuit of `backends` with its late reports and half-open probes;
   the block claims of `dream`; the three-way direction decision of `forge`.
