--------------------------- MODULE EmbedMigration ---------------------------
(* The supervised change of the embedding model: embedmigration (row, Create,
   Purge), the migration arm and the verify run of the scheduler, the cutover,
   its rollback and cleanup, and the writers that share the vector columns: block
   upserts and the regular backfill on its two paths.

   Each actor (arm, verify goroutine, cutover request, create request, purge
   request, backfill) has a program counter of its own; the statements and
   transactions of the code are the atomic steps. A transaction that holds a row
   lock over a wire call also keeps the cutover's ACCESS EXCLUSIVE lock out.
   Blocks are numbered in the order of created_at, and a watermark is the set of
   blocks created before it. *)
EXTENDS Integers, Sequences, FiniteSets

CONSTANTS Models,       \* embedding models
          NoModel,      \* an absent model_map key, the label of a NULL vector
          Serving,      \* the model that serves before the first migration
          Targets,      \* what the operator arms as embed_next
          NBlocks,      \* blocks, those still to be created included
          Later,        \* the ones created while the system runs
          TooLong,      \* <<block, version, model>>: the text exceeds the window
          Paths,        \* <<block, path>>: the write paths its text changes by
          Budgets       \* bounds: how often what the environment does may happen

Blocks == 1..NBlocks

ASSUME ModelsAssumption ==
    /\ NoModel \notin Models /\ Serving \in Models /\ Targets \subseteq Models
ASSUME BoundsAssumption ==
    /\ NBlocks \in Nat /\ Later \subseteq Blocks
    /\ Paths \subseteq Blocks \X {"upsert", "update", "pull"}
    /\ Budgets \subseteq [{"migrations", "arms", "edits", "blocks", "faults", "crashes",
                             "reruns"} -> Nat]

VARIABLES live,       \* blocks that exist
          content,    \* version of each block's text
          embedding, embeddingNext,   \* the serving and the _next column pair
          anchor,     \* the _old pair of columns: [kept, vec]
          rows,       \* context_embed_migrations, oldest first
          parked,     \* blocks under an infinity memo of the regular backfill
          uncleared,  \* blocks whose new text is committed, their clear still to come
          modelMap,   \* the embed backend's model_map row
          pool,       \* the copy of it in the backend pool
          worker, verify, cutover, creating, purging, backfill,
          left        \* what is left of the chosen budget

blockVars == <<live, content, uncleared>>
vectorVars == <<embedding, embeddingNext, anchor>>
mapVars == <<modelMap, pool>>
opVars == <<cutover, creating, purging>>
vars == <<blockVars, vectorVars, rows, parked, mapVars, worker, verify, opVars, backfill, left>>

(* The state machine the migrations promise to follow. *)
Lifecycle ==
    INSTANCE MigrationLifecycle
    WITH history <- [i \in DOMAIN rows |->
                        [status |-> rows[i].status, from |-> rows[i].from, to |-> rows[i].to]],
         space <- modelMap.embed, anchored <- anchor.kept

Active == Lifecycle!ActiveOf(rows)

Vector(m, v) == [model |-> m, ver |-> v]
Null == Vector(NoModel, 0)
AllNull == [b \in Blocks |-> Null]
Has(col) == {b \in live : col[b] # Null}

(* ModelFor(embed_next): a missing key falls back to the serving model. *)
ModelForNext(m) == IF m.next = NoModel THEN m.embed ELSE m.next

NoWork == [at |-> "idle", id |-> 0, status |-> "paused", cursor |-> 0,
           block |-> 0, model |-> NoModel, ver |-> 0]
NoVerify == [at |-> "idle", id |-> 0, wm |-> {}, red |-> FALSE]
NoCutover == [at |-> "idle", op |-> "confirm", id |-> 0, wm |-> {}, flip |-> FALSE,
              swept |-> {}]
NoCreate == [at |-> "idle", from |-> NoModel, to |-> NoModel, reuse |-> FALSE]
NoFill == [block |-> 0, model |-> NoModel, ver |-> 0, locked |-> FALSE]

(* One of the bounded happenings of the environment. *)
Spend(what) == left[what] > 0 /\ left' = [left EXCEPT ![what] = @ - 1]

(* Row locks held over a wire call. *)
Locked == (IF worker.at = "wire" THEN {worker.block} ELSE {})
          \cup (IF backfill.locked THEN {backfill.block} ELSE {})

Init ==
    /\ live = Blocks \ Later /\ content = [b \in Blocks |-> 0] /\ uncleared = {}
    /\ modelMap = [embed |-> Serving, next |-> NoModel] /\ pool = modelMap
    /\ embedding = [b \in Blocks |-> IF b \in live THEN Vector(Serving, 0) ELSE Null]
    /\ embeddingNext = AllNull
    /\ anchor = [kept |-> FALSE, vec |-> AllNull]
    /\ rows = <<>> /\ parked = {}
    /\ worker = NoWork /\ verify = NoVerify /\ cutover = NoCutover
    /\ creating = NoCreate /\ purging = FALSE /\ backfill = NoFill
    /\ left \in Budgets
-----------------------------------------------------------------------------
(* The row and its compare-and-swap (state.go). *)

(* Mutant: the UPDATE does not compare the status. *)
Transition_NoCAS(i, from, to, row) ==
    [rows EXCEPT ![i] = [row EXCEPT !.status = to]]

(* UPDATE ... SET status = to, and the columns of row, WHERE status = from. *)
Transition(i, from, to, row) ==
    IF Lifecycle!IsAllowedTransition(from, to) /\ rows[i].status = from
    THEN [rows EXCEPT ![i] = [row EXCEPT !.status = to]] ELSE rows

(* pause moves a running row; resume and abort read the status, whatever it is,
   and swap it. A lost race changes nothing, so the two statements are one step. *)
OperatorTo(i, to) ==
    /\ to = "paused" => rows[i].status = "running"
    /\ Lifecycle!IsAllowedTransition(rows[i].status, to)
    /\ IF to = "running" /\ rows[i].status = "verifying" THEN Spend("reruns") ELSE UNCHANGED left
    /\ rows' = Transition(i, rows[i].status, to, rows[i])
    /\ UNCHANGED <<blockVars, vectorVars, parked, mapVars, worker, verify, opVars, backfill>>

(* Create: the backend row is looked at, then the _next pair, then the row is
   inserted under the single-active index. The operator names the serving model as
   from_model; that the models are registered and the disk is large enough is taken
   for granted. *)
CreateCheck(to, reuse) ==
    /\ creating = NoCreate /\ Spend("migrations")
    /\ to # modelMap.embed /\ modelMap.next = to
    /\ creating' = [at |-> "probe", from |-> modelMap.embed, to |-> to, reuse |-> reuse]
    /\ UNCHANGED <<blockVars, vectorVars, rows, parked, mapVars, worker, verify, cutover, purging,
                   backfill>>

(* Left-over _next data is refused unless it is reused: all of the same model,
   and the last migration aborted. Its queries are taken as one. *)
NoLeftover(to, reuse) ==
    \/ Has(embeddingNext) = {}
    \/ /\ reuse
       /\ \A b \in Has(embeddingNext) : embeddingNext[b].model = to
       /\ rows # <<>> /\ rows[Len(rows)].status = "aborted"

CreateProbe ==
    /\ creating.at = "probe"
    /\ creating' = IF NoLeftover(creating.to, creating.reuse)
                   THEN [creating EXCEPT !.at = "insert"] ELSE NoCreate
    /\ UNCHANGED <<blockVars, vectorVars, rows, parked, mapVars, worker, verify, cutover, purging,
                   backfill, left>>

(* Mutant: without the single-active index. *)
CreateInsert_NoIndex ==
    /\ creating.at = "insert"
    /\ rows' = Append(rows, [status |-> "pending", from |-> creating.from, to |-> creating.to,
                             wm |-> {}, report |-> "none", cursor |-> 0,
                             memo |-> [b \in Blocks |-> "none"]])
    /\ creating' = NoCreate
    /\ UNCHANGED <<blockVars, vectorVars, parked, mapVars, worker, verify, cutover, purging,
                   backfill, left>>

CreateInsert ==
    /\ creating.at = "insert"
    /\ rows' = IF Active # {} THEN rows
               ELSE Append(rows, [status |-> "pending", from |-> creating.from, to |-> creating.to,
                                  wm |-> {}, report |-> "none", cursor |-> 0,
                                  memo |-> [b \in Blocks |-> "none"]])
    /\ creating' = NoCreate
    /\ UNCHANGED <<blockVars, vectorVars, parked, mapVars, worker, verify, cutover, purging,
                   backfill, left>>

(* Purge looks for an active migration once and then nulls batch after batch
   until a batch finds nothing. *)
PurgeStart ==
    /\ ~purging /\ Active = {} /\ Has(embeddingNext) # {}
    /\ purging' = TRUE
    /\ UNCHANGED <<blockVars, vectorVars, rows, parked, mapVars, worker, verify, cutover, creating,
                   backfill, left>>

PurgeBatch ==
    /\ purging
    /\ \/ /\ Has(embeddingNext) = {} /\ purging' = FALSE
          /\ UNCHANGED embeddingNext
       \/ /\ \E b \in Has(embeddingNext) \ Locked :
                embeddingNext' = [embeddingNext EXCEPT ![b] = Null]
          /\ UNCHANGED purging
    /\ UNCHANGED <<blockVars, embedding, anchor, rows, parked, mapVars, worker, verify, cutover,
                   creating, backfill, left>>

(* An operator edits embed_next of the backend row; the pool follows with the
   reload of the request or of the NOTIFY. *)
Arm(m) ==
    /\ m # modelMap.next /\ Spend("arms")
    /\ modelMap' = [modelMap EXCEPT !.next = m]
    /\ UNCHANGED <<blockVars, vectorVars, rows, parked, pool, worker, verify, opVars, backfill>>

Reload ==
    /\ pool # modelMap /\ pool' = modelMap
    /\ UNCHANGED <<blockVars, vectorVars, rows, parked, modelMap, worker, verify, opVars, backfill,
                   left>>
-----------------------------------------------------------------------------
(* The migration arm: one goroutine, cycle after cycle (embed_migrate.go). *)

(* migratePendingWhere, and with the exception of the completeness count. *)
MigratePending == {b \in live : embedding[b] # Null /\ embeddingNext[b] = Null}
Missing(i) == {b \in MigratePending : rows[i].memo[b] # "infinity"}
FiniteMemos(i) == {b \in Blocks : rows[i].memo[b] \in {"backoff", "due"}}

(* The rows behind the cursor that no outstanding memo excludes. *)
Pickable == {b \in MigratePending : /\ b > worker.cursor
                                    /\ rows[worker.id].memo[b] \notin {"backoff", "infinity"}}

(* The cycle reads the active row once. The Model-Guard compares what the chain
   head resolves for embed_next with to_model and pauses; a verifying row without
   a verdict starts the one verify run. *)
CycleStart ==
    /\ worker.at = "idle"
    /\ \E i \in Active :
        LET row == rows[i]
        IN  /\ row.status \in {"running", "verifying"}
            /\ \/ /\ ModelForNext(pool) # row.to
                  /\ rows' = Transition(i, row.status, "paused", row)
                  /\ UNCHANGED <<worker, verify>>
               \/ /\ ModelForNext(pool) = row.to
                  /\ worker' = [NoWork EXCEPT !.at = "batch", !.id = i, !.status = row.status,
                                              !.cursor = row.cursor]
                  /\ verify' = IF row.status = "verifying" /\ row.report = "none"
                                  /\ verify.at = "idle"
                               THEN [at |-> "count", id |-> i, wm |-> row.wm, red |-> FALSE]
                               ELSE verify
                  /\ UNCHANGED rows
    /\ UNCHANGED <<blockVars, vectorVars, parked, mapVars, opVars, backfill, left>>

(* migrateOneEmbedding: the transaction picks the oldest row that is not locked,
   resolves its chain, and memoizes a text that does not fit; otherwise it goes
   on the wire with the row locked. *)
MigratePick ==
    /\ worker.at = "batch"
    /\ Pickable \ Locked # {}
    /\ LET b == CHOOSE x \in Pickable \ Locked : \A y \in Pickable \ Locked : x <= y
       IN  IF <<b, content[b], ModelForNext(pool)>> \in TooLong
           THEN /\ rows' = [rows EXCEPT ![worker.id].memo[b] = "infinity"]
                /\ worker' = [worker EXCEPT !.cursor = b]
           ELSE /\ worker' = [worker EXCEPT !.at = "wire", !.block = b, !.ver = content[b],
                                            !.model = ModelForNext(pool)]
                /\ UNCHANGED rows
    /\ UNCHANGED <<blockVars, vectorVars, parked, mapVars, verify, opVars, backfill, left>>

(* ApplyCycleDelta at the end of a batch writes the cursor without looking at
   the status. Only the arm reads it, so the write joins the step before it. *)
ApplyCycleDelta(cursor) == rows' = [rows EXCEPT ![worker.id].cursor = cursor]

(* The peek finds nothing behind the cursor: the cursor wraps, and a running
   migration may be drained. *)
MigrateQueueEnd ==
    /\ worker.at = "batch" /\ Pickable = {}
    /\ ApplyCycleDelta(0)
    /\ worker' = IF worker.status = "running"
                 THEN [worker EXCEPT !.at = "probe", !.cursor = 0] ELSE NoWork
    /\ UNCHANGED <<blockVars, vectorVars, parked, mapVars, verify, opVars, backfill, left>>

(* The batch is used up, interactive demand, a lost pick or a busy target ends
   it; an open transaction rolls back. *)
MigrateStop ==
    /\ worker.at \in {"batch", "wire"}
    /\ ApplyCycleDelta(worker.cursor)
    /\ worker' = NoWork
    /\ UNCHANGED <<blockVars, vectorVars, parked, mapVars, verify, opVars, backfill, left>>

(* An answer of another model pauses the migration; the status is the one of
   the snapshot. *)
MigrateStore ==
    /\ worker.at = "wire"
    /\ IF worker.model = rows[worker.id].to
       THEN /\ embeddingNext' =
                 [embeddingNext EXCEPT ![worker.block] = Vector(worker.model, worker.ver)]
            /\ worker' = [worker EXCEPT !.at = "batch", !.cursor = worker.block,
                                        !.block = 0, !.model = NoModel, !.ver = 0]
            /\ UNCHANGED rows
       ELSE /\ LET paused == Transition(worker.id, worker.status, "paused", rows[worker.id])
               IN  rows' = [paused EXCEPT ![worker.id].cursor = worker.cursor]
            /\ worker' = NoWork
            /\ UNCHANGED embeddingNext
    /\ UNCHANGED <<blockVars, embedding, anchor, parked, mapVars, verify, opVars, backfill, left>>

(* migrateWireFailure: the memo is committed although the embed failed, and a
   text the backend finds too long is parked. *)
MigrateWireFailure ==
    /\ worker.at = "wire" /\ Spend("faults")
    /\ \E memo \in {"backoff", "infinity"} :
          rows' = [rows EXCEPT ![worker.id].memo[worker.block] = memo]
    /\ worker' = [worker EXCEPT !.at = "batch", !.cursor = worker.block,
                                !.block = 0, !.model = NoModel, !.ver = 0]
    /\ UNCHANGED <<blockVars, vectorVars, parked, mapVars, verify, opVars, backfill>>

(* next_attempt_at passes; the memo row stays. *)
BackoffElapses ==
    /\ \E i \in DOMAIN rows : \E b \in Blocks :
          /\ rows[i].memo[b] = "backoff"
          /\ rows' = [rows EXCEPT ![i].memo[b] = "due"]
    /\ UNCHANGED <<blockVars, vectorVars, parked, mapVars, worker, verify, opVars, backfill, left>>

(* maybeEnterVerifying: the count, then the swap with a fresh watermark and a
   cleared report. *)
ProbePending ==
    /\ worker.at = "probe"
    /\ worker' = IF Missing(worker.id) = {} THEN [worker EXCEPT !.at = "enter"] ELSE NoWork
    /\ UNCHANGED <<blockVars, vectorVars, rows, parked, mapVars, verify, opVars, backfill, left>>

EnterVerifying ==
    /\ worker.at = "enter"
    /\ rows' = Transition(worker.id, "running", "verifying",
                          [rows[worker.id] EXCEPT !.wm = live, !.report = "none"])
    /\ worker' = NoWork
    /\ UNCHANGED <<blockVars, vectorVars, parked, mapVars, verify, opVars, backfill, left>>
-----------------------------------------------------------------------------
(* The verify run, beside the arm, on the row and watermark it started with
   (embed_verify.go). *)
VerifyCompleteness ==
    /\ verify.at = "count"
    /\ verify' = [verify EXCEPT !.at = "scan",
                                !.red = \/ Missing(verify.id) \cap verify.wm # {}
                                        \/ FiniteMemos(verify.id) # {}]
    /\ UNCHANGED <<blockVars, vectorVars, rows, parked, mapVars, worker, opVars, backfill, left>>

VerifyScanPass ==
    /\ verify.at = "scan"
    /\ verify' = [verify EXCEPT !.at = "verdict",
                    !.red = @ \/ \E b \in verify.wm \cap Has(embeddingNext) :
                                   embeddingNext[b].model # rows[verify.id].to]
    /\ UNCHANGED <<blockVars, vectorVars, rows, parked, mapVars, worker, opVars, backfill, left>>

(* Either verdict lands only on a row that is verifying. *)
FinishVerify ==
    /\ verify.at = "verdict"
    /\ LET row == rows[verify.id]
       IN  rows' = IF verify.red
                   THEN Transition(verify.id, "verifying", "paused", [row EXCEPT !.report = "red"])
                   ELSE IF row.status = "verifying"
                        THEN [rows EXCEPT ![verify.id].report = "green"] ELSE rows
    /\ verify' = NoVerify
    /\ UNCHANGED <<blockVars, vectorVars, parked, mapVars, worker, opVars, backfill, left>>

(* A statement of the run, or its index build, fails: no verdict, or a red one. *)
VerifyFails ==
    /\ verify.at # "idle" /\ Spend("faults")
    /\ verify' = IF verify.at = "verdict" /\ ~verify.red
                 THEN [verify EXCEPT !.red = TRUE] ELSE NoVerify
    /\ UNCHANGED <<blockVars, vectorVars, rows, parked, mapVars, worker, opVars, backfill>>
-----------------------------------------------------------------------------
(* Confirm, rollback and cleanup (embed_cutover.go). *)
ConfirmPreflight(i) ==
    /\ cutover.at = "idle"
    /\ rows[i].status = "verifying" /\ rows[i].report = "green"
    /\ modelMap.next = rows[i].to
    /\ cutover' = [NoCutover EXCEPT !.at = "check", !.id = i, !.wm = rows[i].wm, !.flip = TRUE]
    /\ UNCHANGED <<blockVars, vectorVars, rows, parked, mapVars, worker, verify, creating, purging,
                   backfill, left>>

(* The completeness re-check opens the transaction of the swap; the renames
   wait for the table, and other writers commit in between. *)
ConfirmRecheck ==
    /\ cutover.at = "check"
    /\ Missing(cutover.id) \cap cutover.wm = {}
    /\ cutover' = [cutover EXCEPT !.at = "swap"]
    /\ UNCHANGED <<blockVars, vectorVars, rows, parked, mapVars, worker, verify, creating, purging,
                   backfill, left>>

(* Renames, fresh _next pair, model_map flip and compare-and-swap, at once. *)
ConfirmSwap ==
    /\ cutover.at = "swap" /\ cutover.op = "confirm"
    /\ Locked = {} /\ ~anchor.kept
    /\ rows[cutover.id].status = "verifying"
    /\ rows' = Transition(cutover.id, "verifying", "done", rows[cutover.id])
    /\ anchor' = [kept |-> TRUE, vec |-> embedding]
    /\ embedding' = embeddingNext /\ embeddingNext' = AllNull
    /\ modelMap' = [embed |-> rows[cutover.id].to, next |-> NoModel]
    /\ cutover' = [cutover EXCEPT !.at = "reload"]
    /\ UNCHANGED <<blockVars, parked, pool, worker, verify, creating, purging, backfill, left>>

(* Completeness, lock_timeout, a lost compare-and-swap: all is rolled back. *)
CutoverRefused ==
    /\ cutover.at \in {"check", "swap"}
    /\ cutover' = NoCutover
    /\ UNCHANGED <<blockVars, vectorVars, rows, parked, mapVars, worker, verify, creating, purging,
                   backfill, left>>

RollbackPreflight(i) ==
    /\ cutover.at = "idle"
    /\ rows[i].status = "done" /\ Active = {} /\ anchor.kept /\ Has(embeddingNext) = {}
    /\ cutover' = [NoCutover EXCEPT !.at = "swap", !.op = "rollback", !.id = i,
                                     !.flip = (modelMap.embed = rows[i].to)]
    /\ UNCHANGED <<blockVars, vectorVars, rows, parked, mapVars, worker, verify, creating, purging,
                   backfill, left>>

RollbackSwap ==
    /\ cutover.at = "swap" /\ cutover.op = "rollback"
    /\ Locked = {} /\ anchor.kept
    /\ rows[cutover.id].status = "done"
    /\ rows' = Transition(cutover.id, "done", "rolled_back", rows[cutover.id])
    /\ embeddingNext' = embedding /\ embedding' = anchor.vec
    /\ anchor' = [kept |-> FALSE, vec |-> AllNull]
    /\ modelMap' = IF cutover.flip
                   THEN [embed |-> rows[cutover.id].from, next |-> rows[cutover.id].to] ELSE modelMap
    /\ cutover' = [cutover EXCEPT !.at = "reload"]
    /\ UNCHANGED <<blockVars, parked, pool, worker, verify, creating, purging, backfill, left>>

(* After the commit: reload, then the sweep of the foreign labels and of the
   memos of the blocks it cleared, then the parks of the migration. *)
CutoverReload ==
    /\ cutover.at = "reload"
    /\ pool' = modelMap
    /\ cutover' = [cutover EXCEPT !.at = "sweep"]
    /\ UNCHANGED <<blockVars, vectorVars, rows, parked, modelMap, worker, verify, creating, purging,
                   backfill, left>>

AfterSweep == IF cutover.op = "confirm"
              THEN [cutover EXCEPT !.at = "memos", !.swept = {}] ELSE NoCutover

SweepForeign ==
    /\ cutover.at = "sweep"
    /\ LET want == IF cutover.op = "confirm" THEN rows[cutover.id].to ELSE rows[cutover.id].from
           foreign == {b \in Has(embedding) : embedding[b].model # want}
           Cleared(col) == [b \in Blocks |-> IF b \in foreign THEN Null ELSE col[b]]
       IN  /\ foreign \cap Locked = {}
           /\ embedding' = Cleared(embedding) /\ embeddingNext' = Cleared(embeddingNext)
           /\ cutover' = IF foreign # {} THEN [cutover EXCEPT !.at = "unpark", !.swept = foreign]
                         ELSE AfterSweep
    /\ UNCHANGED <<blockVars, anchor, rows, parked, mapVars, worker, verify, creating, purging,
                   backfill, left>>

SweepMemos ==
    /\ cutover.at = "unpark"
    /\ parked' = parked \ cutover.swept
    /\ cutover' = AfterSweep
    /\ UNCHANGED <<blockVars, vectorVars, rows, mapVars, worker, verify, creating, purging,
                   backfill, left>>

CopyInfinityMemos ==
    /\ cutover.at = "memos"
    /\ parked' = parked \cup {b \in Blocks : rows[cutover.id].memo[b] = "infinity"}
    /\ cutover' = NoCutover
    /\ UNCHANGED <<blockVars, vectorVars, rows, mapVars, worker, verify, creating, purging, backfill,
                   left>>

(* One of them fails: the error is collected and the next one follows. *)
PostCommitFails ==
    /\ Spend("faults")
    /\ \/ cutover.at = "reload" /\ cutover' = [cutover EXCEPT !.at = "sweep"]
       \/ cutover.at \in {"sweep", "unpark"} /\ cutover' = AfterSweep
       \/ cutover.at = "memos" /\ cutover' = NoCutover
    /\ UNCHANGED <<blockVars, vectorVars, rows, parked, mapVars, worker, verify, creating, purging,
                   backfill>>

CleanupEmbedMigration ==
    /\ anchor.kept /\ Locked = {}
    /\ \E i \in DOMAIN rows : rows[i].status = "done"
    /\ anchor' = [kept |-> FALSE, vec |-> AllNull]
    /\ UNCHANGED <<blockVars, embedding, embeddingNext, rows, parked, mapVars, worker, verify,
                   opVars, backfill, left>>
-----------------------------------------------------------------------------
(* The writers beside the migration (store/blocks.go, scheduler.go, query.go). *)
NewBlock(b) ==
    /\ b \notin live /\ \A x \in Later : x < b => x \in live
    /\ Spend("blocks")
    /\ live' = live \cup {b}
    /\ UNCHANGED <<content, uncleared, vectorVars, rows, parked, mapVars, worker, verify, opVars,
                   backfill>>

NewText(b, path) ==
    /\ b \in live \ Locked /\ <<b, path>> \in Paths /\ Spend("edits")
    /\ content' = [content EXCEPT ![b] = @ + 1]
    /\ UNCHANGED <<live, anchor, rows, mapVars, worker, verify, opVars, backfill>>

(* Mutant: only the serving pair is cleared. *)
ClearEmbeddingTx_ServingOnly(b) ==
    /\ embedding' = [embedding EXCEPT ![b] = Null] /\ UNCHANGED embeddingNext
    /\ parked' = parked \ {b}

(* Both pairs and the park of the regular backfill. *)
ClearEmbeddingTx(b) ==
    /\ embedding' = [embedding EXCEPT ![b] = Null]
    /\ embeddingNext' = [embeddingNext EXCEPT ![b] = Null]
    /\ parked' = parked \ {b}

(* The upsert clears in the transaction of the new text. *)
UpsertBlock(b) ==
    NewText(b, "upsert") /\ ClearEmbeddingTx(b) /\ UNCHANGED uncleared

(* The update by id commits the text and clears as afterwork ... *)
UpdateBlock(b) ==
    /\ NewText(b, "update") /\ uncleared' = uncleared \cup {b}
    /\ UNCHANGED <<embedding, embeddingNext, parked>>

(* ... in a transaction of its own. *)
FinishBlockUpdate(b) ==
    /\ b \in uncleared \ Locked
    /\ ClearEmbeddingTx(b) /\ uncleared' = uncleared \ {b}
    /\ UNCHANGED <<live, content, anchor, rows, mapVars, worker, verify, opVars, backfill, left>>

(* The issue paths null the serving vector and nothing else. *)
PullUpdateIssueBlock(b) ==
    /\ NewText(b, "pull") /\ embedding' = [embedding EXCEPT ![b] = Null]
    /\ UNCHANGED <<uncleared, embeddingNext, parked>>

(* The arm's backfill locks its row over the wire call, the one of the query
   handler does not. *)
BackfillPick(b, locked) ==
    /\ backfill = NoFill
    /\ b \in live \ parked /\ embedding[b] = Null
    /\ locked => b \notin Locked
    /\ IF <<b, content[b], pool.embed>> \in TooLong
       THEN parked' = parked \cup {b} /\ UNCHANGED backfill
       ELSE /\ backfill' = [block |-> b, model |-> pool.embed, ver |-> content[b], locked |-> locked]
            /\ UNCHANGED parked
    /\ UNCHANGED <<blockVars, vectorVars, rows, mapVars, worker, verify, opVars, left>>

(* The answer is stored, or the call failed; the backoff of its memo may be over
   by the next pick. *)
BackfillStore(stored) ==
    /\ backfill # NoFill
    /\ backfill.locked \/ backfill.block \notin Locked
    /\ embedding' = IF stored
                    THEN [embedding EXCEPT ![backfill.block] = Vector(backfill.model, backfill.ver)]
                    ELSE embedding
    /\ backfill' = NoFill
    /\ UNCHANGED <<blockVars, embeddingNext, anchor, rows, parked, mapVars, worker, verify, opVars,
                   left>>

(* The backend finds the text too long: the memo parks the block. *)
BackfillOversize ==
    /\ backfill # NoFill /\ Spend("faults")
    /\ parked' = parked \cup {backfill.block} /\ backfill' = NoFill
    /\ UNCHANGED <<blockVars, vectorVars, rows, mapVars, worker, verify, opVars>>

(* The process ends between any two steps: open transactions roll back, what
   was still to be done after a commit is lost, the pool is read anew. *)
Crash ==
    /\ Spend("crashes")
    /\ worker' = NoWork /\ verify' = NoVerify /\ cutover' = NoCutover
    /\ creating' = NoCreate /\ purging' = FALSE /\ backfill' = NoFill
    /\ pool' = modelMap
    /\ uncleared' = {}
    /\ UNCHANGED <<live, content, vectorVars, rows, parked, modelMap>>
-----------------------------------------------------------------------------
Operator ==
    \/ \E i \in DOMAIN rows :
          \/ \E s \in {"paused", "running", "aborted"} : OperatorTo(i, s)
          \/ ConfirmPreflight(i) \/ RollbackPreflight(i)
    \/ \E m \in Targets : \E reuse \in BOOLEAN : CreateCheck(m, reuse)
    \/ \E m \in Targets \cup {NoModel} : Arm(m)
    \/ CreateProbe \/ CreateInsert \/ PurgeStart \/ PurgeBatch \/ CleanupEmbedMigration
CutoverStep == \/ ConfirmRecheck \/ ConfirmSwap \/ CutoverRefused \/ RollbackSwap
               \/ CutoverReload \/ SweepForeign \/ SweepMemos \/ CopyInfinityMemos \/ PostCommitFails
ArmStep == \/ CycleStart \/ MigratePick \/ MigrateQueueEnd \/ MigrateStop \/ MigrateStore
           \/ MigrateWireFailure \/ ProbePending \/ EnterVerifying
VerifyStep == VerifyCompleteness \/ VerifyScanPass \/ FinishVerify \/ VerifyFails
Writer ==
    \/ \E b \in Later : NewBlock(b)
    \/ \E b \in Blocks : \/ UpsertBlock(b) \/ UpdateBlock(b) \/ FinishBlockUpdate(b)
                         \/ PullUpdateIssueBlock(b)
                         \/ \E locked \in BOOLEAN : BackfillPick(b, locked)
    \/ \E stored \in BOOLEAN : BackfillStore(stored)
    \/ BackfillOversize

Next == Operator \/ CutoverStep \/ ArmStep \/ VerifyStep \/ Writer \/ Reload \/ BackoffElapses \/ Crash

Spec == Init /\ [][Next]_vars
-----------------------------------------------------------------------------
Vectors == [model : Models \cup {NoModel}, ver : Nat]
Columns == [Blocks -> Vectors]
Row == [status : Lifecycle!Statuses, from : Models, to : Models, wm : SUBSET Blocks,
        report : {"none", "green", "red"}, cursor : 0..NBlocks,
        memo : [Blocks -> {"none", "backoff", "due", "infinity"}]]
ModelMap == [embed : Models, next : Models \cup {NoModel}]
Ids == 0..Len(rows)

(* At most one migration is active, whatever creates, resumes and rollbacks
   overlap; and everything has its type. *)
TypeOK ==
    /\ live \subseteq Blocks /\ content \in [Blocks -> Nat]
    /\ uncleared \subseteq live
    /\ embedding \in Columns /\ embeddingNext \in Columns
    /\ anchor \in [kept : BOOLEAN, vec : Columns]
    /\ \A i \in DOMAIN rows : rows[i] \in Row
    /\ Cardinality(Active) <= 1
    /\ parked \subseteq Blocks /\ modelMap \in ModelMap /\ pool \in ModelMap
    /\ worker.at \in {"idle", "batch", "wire", "probe", "enter"} /\ worker.id \in Ids
    /\ verify.at \in {"idle", "count", "scan", "verdict"} /\ verify.id \in Ids
    /\ cutover.at \in {"idle", "check", "swap", "reload", "sweep", "unpark", "memos"}
    /\ cutover.id \in Ids
    /\ purging \in BOOLEAN /\ creating.at \in {"idle", "probe", "insert"}
    /\ backfill.block \in 0..NBlocks

(* A rollback commits, and it is of a migration under a follow-up one that was
   cut over. *)
RollingBack == cutover.op = "rollback" /\ cutover.at = "swap" /\ cutover'.at = "reload"
FollowedUp(i) == \E j \in DOMAIN rows : j > i /\ rows[j].status = "done"

(* Whatever snapshots the arm, the verify run and the requests act on, the rows
   move as the operator is promised: one active migration, only along the edges,
   the serving space changes in the very step of a cutover or rollback, and a
   rollback returns to the space its cutover left. The rollback of a migration
   that was followed up is the one step left out: FollowUpRefused is about it. *)
LifecycleKept ==
    /\ Lifecycle!Init
    /\ [][Lifecycle!Next \/ (RollingBack /\ FollowedUp(cutover.id))]_(Lifecycle!vars)

(* What the operations guide says of the rollback: it refuses if a follow-up
   migration exists. Asked here only of one that was cut over. *)
FollowUpRefused == [][RollingBack => ~FollowedUp(cutover.id)]_vars

(* The cutover: the step that makes the _next pair the serving one. *)
Swapping == cutover.op = "confirm" /\ cutover.at = "swap" /\ cutover'.at = "reload"

(* The cutover installs vectors of the target model only, and where every write
   of the text clears both pairs with it, only vectors of the current text:
   whatever an older batch, a purge, another migration's leftovers or a verdict
   on an older watermark did. A rollback may overlap the create of the next
   migration and hand it the columns; those histories are left out. *)
CutoverGenuine ==
    [][Swapping /\ (\A i \in DOMAIN rows : rows[i].status # "rolled_back") =>
         \A b \in Has(embeddingNext) :
            /\ embeddingNext[b].model = rows[cutover.id].to
            /\ (\A p \in Paths : p[1] = b => p[2] = "upsert") => embeddingNext[b].ver = content[b]
      ]_vars

(* The convergence invariant the code states for the content-change path: no
   vector of an older text becomes a serving one by the cutover. *)
CutoverFresh ==
    [][Swapping => \A b \in Has(embeddingNext) : embeddingNext[b].ver = content[b]]_vars
=============================================================================
