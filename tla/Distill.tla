------------------------------ MODULE Distill ------------------------------
(* The distiller arm of the scheduler for one root session: its wake window, the
   tick, the reader of checkpoint manifests, the run over their chunks and the
   shards of insight blocks it writes, with the journal (distill_run) and the
   dedup ledger (distill_seen) a crash leaves behind.

   A chunk stands for the hash of its text, and Yield says which claims the model
   returns for it; lengths are counted in insights, so a shard has room for
   RunRoom of them by the render's and the rune meter's arithmetic and for
   SeedSlack more by the seed's, whose frame is shorter. Of the journal only what
   the watermark derivation reads is kept. *)
EXTENDS Integers, Sequences, SequencesExt, FiniteSetsExt

CONSTANTS Source,         \* the manifests in the order of created_at: [wm, chunks]
          Yield,          \* chunk -> sequence of the claims in it
          Dropped,        \* chunks the selection discards
          MaxManifests, RowsPerRead, RowsPerCall,
          FirstRoom, NextRoom, SeedSlack,   \* room of shard 1, of the later ones
          Caps,           \* what max_blocks_per_root may be at the start (0: no cap)
          GroupMaxRows,   \* the hard bound of a chain without a cap
          WakeIDCap,
          Budgets         \* bounds: how often what the environment does may happen

Chunks == DOMAIN Yield
Manifests == 1..Len(Source)
Foreign == 0              \* the id of a block that is no checkpoint
Watermarks == {0} \cup {Source[i].wm : i \in Manifests}

ASSUME SourceAssumption ==
    /\ Source \in Seq([wm : Nat \ {0}, chunks : Seq(Chunks)])
    /\ \A c \in Chunks : Yield[c] \in Seq(ToSet(Yield[c]))
    /\ \A i, j \in Manifests : i < j => Source[i].wm <= Source[j].wm
    /\ \A c, d \in Chunks : c # d => ToSet(Yield[c]) \cap ToSet(Yield[d]) = {}
ASSUME SizesAssumption ==
    /\ {MaxManifests, RowsPerRead, RowsPerCall, GroupMaxRows, WakeIDCap} \subseteq Nat \ {0}
    /\ {FirstRoom, NextRoom, SeedSlack} \cup Caps \subseteq Nat
    /\ Caps # {} /\ IsFiniteSet(Caps)
    /\ Budgets \subseteq [{"faults", "brakes", "crashes", "drops", "foreign"} -> Nat]

VARIABLES arrived,        \* committed manifests
          closed,         \* max(watermark_to) over the journal's finished rows
          orphans,        \* watermark_to of rows still 'running' without a run
          seen,           \* distill_seen
          blocks,         \* watermark_from -> the shards, each a sequence of claims
          link, wire,     \* the listener connection, notifications on their way
          window,         \* distillWakeIDs, distillWakeOverflow, the channel's token
          maxShards,      \* the setting distill.max_blocks_per_root
          at,             \* where the arm is
          run,            \* distillBlockState, the batch and the loop's variables
          excused,        \* history: the last tick left material behind knowingly
          gone,           \* history: how a chunk's claims were given up
          left            \* what is left of the chosen budget

journal == <<closed, orphans>>
around == <<link, wire, window, maxShards>>
vars == <<arrived, journal, seen, blocks, around, at, run, excused, gone, left>>

Quiet == [ids |-> {}, overflow |-> FALSE, token |-> FALSE]

NoBatch == [kept |-> <<>>, done |-> 0, bought |-> <<>>, wm |-> 0, complete |-> TRUE,
            called |-> FALSE, stop |-> FALSE, marks |-> {}, covered |-> 0, rolled |-> FALSE]
NoRun == [from |-> 0, to |-> 0, wm |-> 0, cap |-> 0, ordinal |-> 1, carry |-> <<>>, group |-> {},
          insights |-> <<>>, written |-> <<>>, overflow |-> <<>>, called |-> FALSE,
          batch |-> NoBatch]

Spend(what) == left[what] > 0 /\ left' = [left EXCEPT ![what] = @ - 1]

Init ==
    /\ arrived = 0 /\ closed = 0 /\ orphans = {} /\ seen = {}
    /\ blocks = [w \in Watermarks |-> <<>>]
    /\ link = "down" /\ wire = {} /\ window = Quiet /\ maxShards \in Caps
    /\ at = "boot" /\ run = NoRun
    /\ excused = FALSE /\ gone = [c \in Chunks |-> "no"]
    /\ left \in Budgets
-----------------------------------------------------------------------------
(* The corpus and the listener. *)

(* The next manifests are committed: all those of one created_at. *)
Arrive ==
    /\ arrived < Len(Source)
    /\ arrived' = Max({i \in Manifests : Source[i].wm = Source[arrived + 1].wm})
    /\ wire' = IF link = "down" THEN wire ELSE wire \cup (arrived + 1)..arrived'
    /\ UNCHANGED <<journal, seen, blocks, link, window, maxShards, at, run, excused, gone, left>>

(* Some other block is inserted. *)
InsertForeign ==
    /\ Spend("foreign") /\ link # "down"
    /\ wire' = wire \cup {Foreign}
    /\ UNCHANGED <<arrived, journal, seen, blocks, link, window, maxShards, at, run, excused, gone>>

Disconnect ==
    /\ Spend("drops") /\ link # "down"
    /\ link' = "down" /\ wire' = {}
    /\ UNCHANGED <<arrived, journal, seen, blocks, window, maxShards, at, run, excused, gone>>

Listen ==
    /\ link = "down"
    /\ link' = "listening"
    /\ UNCHANGED <<arrived, journal, seen, blocks, wire, window, maxShards, at, run, excused, gone, left>>

(* Mutant: an id beyond the cap is dropped. *)
NotifyBlockInsert_Forgets(id) ==
    IF Cardinality(window.ids) < WakeIDCap
    THEN [window EXCEPT !.ids = @ \cup {id}, !.token = TRUE]
    ELSE [window EXCEPT !.token = TRUE]

(* An inserted id enters the window, beyond its cap only the fact; the token is
   set under the same lock. *)
NotifyBlockInsert(id) ==
    IF Cardinality(window.ids) < WakeIDCap
    THEN [window EXCEPT !.ids = @ \cup {id}, !.token = TRUE]
    ELSE [window EXCEPT !.overflow = TRUE, !.token = TRUE]

HandleNotification(id) ==
    /\ link = "up" /\ id \in wire
    /\ wire' = wire \ {id} /\ window' = NotifyBlockInsert(id)
    /\ UNCHANGED <<arrived, journal, seen, blocks, link, maxShards, at, run, excused, gone, left>>

NotifyDistillBacklog ==
    /\ link = "listening" /\ link' = "up"
    /\ window' = [window EXCEPT !.overflow = TRUE, !.token = TRUE]
    /\ UNCHANGED <<arrived, journal, seen, blocks, wire, maxShards, at, run, excused, gone, left>>
-----------------------------------------------------------------------------
(* runDistiller: the wait for a settled window or the fallback, and the tick. *)

(* The first signal of a burst takes the token and opens the settle window. *)
Settle ==
    /\ at = "await" /\ window.token
    /\ at' = "settle" /\ window' = [window EXCEPT !.token = FALSE]
    /\ UNCHANGED <<arrived, journal, seen, blocks, link, wire, maxShards, run, excused, gone, left>>

(* drainDistillWake empties the window and the token; the filter asks whether one
   of the ids is a checkpoint, and a filter that fails counts as a hit. *)
DrainDistillWake ==
    /\ at = "settle"
    /\ window' = Quiet
    /\ \/ /\ at' = IF window.overflow \/ window.ids \cap Manifests # {} THEN "tick" ELSE "await"
          /\ UNCHANGED left
       \/ Spend("faults") /\ window.ids # {} /\ ~window.overflow /\ at' = "tick"
    /\ UNCHANGED <<arrived, journal, seen, blocks, link, wire, maxShards, run, excused, gone>>

Fallback ==
    /\ at = "await" /\ at' = "tick"
    /\ UNCHANGED <<arrived, journal, seen, blocks, around, run, excused, gone, left>>

(* Gate 2: a tick that meets interactive demand stays owed. *)
DemandDeferred ==
    /\ at = "tick" /\ Spend("brakes")
    /\ UNCHANGED <<arrived, journal, seen, blocks, around, at, run, excused, gone>>

(* A tick that ends in front of its run: the spend guard, an open breaker, a
   journal, a source or a target block that cannot be read, a row not inserted. *)
SessionRefused ==
    /\ at = "tick" /\ Spend("brakes")
    /\ at' = "await" /\ excused' = TRUE
    /\ UNCHANGED <<arrived, journal, seen, blocks, around, run, gone>>

(* distillStartupSweep, which may fail, then the boot tick. *)
distillStartupSweep ==
    /\ at = "boot" /\ at' = "tick"
    /\ \/ closed' = Max({closed} \cup orphans) /\ orphans' = {} /\ UNCHANGED left
       \/ orphans # {} /\ Spend("faults") /\ UNCHANGED journal
    /\ UNCHANGED <<arrived, seen, blocks, around, run, excused, gone>>
-----------------------------------------------------------------------------
(* Shards. *)

RunRoom(o) == IF o = 1 THEN FirstRoom ELSE NextRoom

distillShardCapReached(cap, o) == cap > 0 /\ o >= cap
distillShardMaxOrdinal == 9999   \* the form limit of a shard title
distillShardHardBound(cap) == Min({Max({GroupMaxRows, cap}), distillShardMaxOrdinal})
NoFurtherShard(cap, o) == distillShardCapReached(cap, o) \/ o >= distillShardHardBound(cap)

(* The carried lines alone leave the seed no room for one more. *)
SeedFull(carry, o) == carry # <<>> /\ Len(carry) + 1 > RunRoom(o) + SeedSlack

AllOf(shards) == UNION {ToSet(shards[n]) : n \in DOMAIN shards}

(* Mutant: the dedup set does not grow. *)
rollover_NoGroup(r) ==
    [r EXCEPT !.ordinal = @ + 1, !.carry = <<>>,
              !.insights = r.overflow, !.written = <<>>, !.overflow = <<>>, !.called = FALSE]

(* Seal the running shard: what it holds becomes dedup material, what it could not
   take opens the next one. *)
rollover(r) ==
    [r EXCEPT !.group = @ \cup ToSet(r.carry) \cup ToSet(r.written),
              !.ordinal = @ + 1, !.carry = <<>>,
              !.insights = r.overflow, !.written = <<>>, !.overflow = <<>>, !.called = FALSE]

(* Mutant: what an earlier run made durable is not loaded. *)
distillSeedBlock_Empty(w) ==
    [NoRun EXCEPT !.from = w, !.to = w, !.wm = w, !.cap = maxShards,
                  !.ordinal = Max({1, Len(blocks[w])})]

(* The accumulator of a run that starts at watermark w: the highest shard of the
   range as carry, the lower ones as dedup set; a full shard is a sealed one. The
   group read is taken to see the whole chain: a cap is never lowered here, and
   distillShardGroupLimit cuts only a chain that is longer than the cap allows. *)
distillSeedBlock(w) ==
    LET chain == blocks[w]
        o == Max({1, Len(chain)})
        st == [NoRun EXCEPT !.from = w, !.to = w, !.wm = w, !.cap = maxShards,
                            !.ordinal = o,
                            !.carry = IF chain = <<>> THEN <<>> ELSE chain[o],
                            !.group = AllOf(SubSeq(chain, 1, o - 1))]
    IN IF SeedFull(st.carry, o) THEN rollover(st) ELSE st

Capped(w) ==
    LET o == Max({1, Len(blocks[w])})
    IN blocks[w] # <<>> /\ SeedFull(blocks[w][o], o) /\ NoFurtherShard(maxShards, o)

(* The elements of s that are not in known, each once, in the order of s. *)
Fresh(s, known) ==
    FlattenSeq([i \in DOMAIN s |->
                  IF s[i] \in known \/ \E j \in 1..(i - 1) : s[j] = s[i] THEN <<>> ELSE <<s[i]>>])

(* Mutant: the carried lines are not counted. *)
Render_CarryFree(r) ==
    LET lines == Fresh(r.insights, r.group \cup ToSet(r.carry))
        n == Min({Len(lines), RunRoom(r.ordinal)})
    IN [r EXCEPT !.written = SubSeq(lines, 1, n), !.overflow = SubSeq(lines, n + 1, Len(lines))]

(* distillRenderBlock: the new lines in their order, as far as they fit behind the
   carried ones, which are never dropped. *)
Render(r) ==
    LET lines == Fresh(r.insights, r.group \cup ToSet(r.carry))
        n == Min({Len(lines), Max({0, RunRoom(r.ordinal) - Len(r.carry)})})
    IN [r EXCEPT !.written = SubSeq(lines, 1, n), !.overflow = SubSeq(lines, n + 1, Len(lines))]

(* The upsert replaces the content of the running shard, or inserts it. *)
Upserted(r) ==
    [blocks EXCEPT ![r.from] =
        IF r.ordinal > Len(@) THEN Append(@, r.carry \o r.written)
        ELSE [@ EXCEPT ![r.ordinal] = r.carry \o r.written]]
-----------------------------------------------------------------------------
(* The reader. *)

(* The committed manifests above a watermark, and the rows of those from i to j. *)
Visible(after) == {i \in 1..arrived : Source[i].wm > after}
ItemsOf ==
    [i \in Manifests |-> [j \in Manifests |->
        FlattenSeq([k \in 1..(j - i + 1) |-> Source[i + k - 1].chunks])]]

(* The window of manifests: it ends in front of a watermark group it would split,
   unless that group is all there is in it. *)
manifestHeads(after) ==
    LET first == Min(Visible(after))
        n == first + MaxManifests - 1
    IN IF n >= arrived THEN [last |-> arrived, cut |-> FALSE]
       ELSE IF Source[n].wm # Source[n + 1].wm THEN [last |-> n, cut |-> FALSE]
       ELSE IF Source[first].wm # Source[n].wm
            THEN [last |-> Max({i \in first..n : Source[i].wm # Source[n].wm}), cut |-> TRUE]
       ELSE [last |-> Max({i \in first..arrived : Source[i].wm = Source[n].wm}), cut |-> FALSE]

(* The batch above a watermark: manifests are taken whole, and once RowsPerRead is
   reached up to the end of their watermark group. *)
Read(after) ==
    LET first == Min(Visible(after))
        w == manifestHeads(after)
        ends == {k \in first..(w.last - 1) : /\ Len(ItemsOf[first][k]) >= RowsPerRead
                                            /\ Source[k].wm # Source[k + 1].wm}
        last == Min(ends \cup {w.last})
    IN IF Visible(after) = {} THEN [items |-> <<>>, wm |-> after, complete |-> TRUE]
       ELSE [items |-> ItemsOf[first][last], wm |-> Source[last].wm,
             complete |-> ends # {} \/ ~w.cut]
-----------------------------------------------------------------------------
(* distillSession and distillBatches: the run. *)

(* Nothing above the watermark, or a range that may not grow. *)
SessionSkipped ==
    /\ at = "tick" /\ at' = "await"
    /\ excused' = (Visible(closed) # {})
    /\ Visible(closed) = {} \/ Capped(closed)
    /\ UNCHANGED <<arrived, journal, seen, blocks, around, run, gone, left>>

distillStartRun ==
    /\ at = "tick" /\ Visible(closed) # {} /\ ~Capped(closed)
    /\ at' = "read" /\ run' = distillSeedBlock(closed) /\ excused' = FALSE
    /\ UNCHANGED <<arrived, journal, seen, blocks, around, gone, left>>

(* A batch is read, its chunks selected and those in the ledger or met before in
   the batch dropped. *)
ReadBatch ==
    /\ at = "read" /\ at' = "extract"
    /\ \E b \in {Read(run.wm)} :
         /\ b.wm > run.wm /\ (b.items # <<>> \/ b.complete)
         /\ run' = [run EXCEPT !.batch = [NoBatch EXCEPT !.kept = Fresh(b.items, Dropped \cup seen),
                                                         !.wm = b.wm, !.complete = b.complete]]
    /\ UNCHANGED <<arrived, journal, seen, blocks, around, excused, gone, left>>

(* Nothing above the watermark; or nothing in the manifests in front of a watermark
   group that the window cuts, and a cut batch is not advanced past. *)
Exhausted ==
    /\ at = "read" /\ at' = "close"
    /\ \E b \in {Read(run.wm)} :
         /\ b.items = <<>> /\ (b.complete => b.wm = run.wm)
         /\ excused' = ~b.complete
    /\ UNCHANGED <<arrived, journal, seen, blocks, around, run, gone, left>>
-----------------------------------------------------------------------------
(* distillExtract: one call after the other. *)

(* What the rune meter has booked: every insight bought, duplicates included. *)
Metered == Len(run.carry) + Len(run.insights) + Len(run.batch.bought)
MeterExhausted == Metered + 1 > RunRoom(run.ordinal)
Pending == run.batch.done < Len(run.batch.kept) /\ ~run.batch.stop
BlockFull == Pending /\ MeterExhausted

(* The end of the next group, sized to the room that is left. *)
GroupEnd == Min({run.batch.done + Min({RowsPerCall, RunRoom(run.ordinal) - Metered}),
                 Len(run.batch.kept)})
Group == SubSeq(run.batch.kept, run.batch.done + 1, GroupEnd)

Call ==
    /\ at = "extract" /\ Pending /\ ~MeterExhausted
    /\ run' = [run EXCEPT !.batch.done = GroupEnd, !.batch.called = TRUE,
                          !.batch.bought = @ \o FlattenSeq([i \in DOMAIN Group |-> Yield[Group[i]]])]
    /\ gone' = [c \in Chunks |-> IF c \in ToSet(Group) THEN "no" ELSE gone[c]]
    /\ UNCHANGED <<arrived, journal, seen, blocks, around, at, excused, left>>

(* A call fails, or its answer cannot be read: the arm is fail-open and counts the
   group as processed, unless this failure opens the breaker. *)
CallFails ==
    /\ at = "extract" /\ Pending /\ ~MeterExhausted /\ Spend("faults")
    /\ \/ /\ run' = [run EXCEPT !.batch.done = GroupEnd, !.batch.called = TRUE]
          /\ gone' = [c \in Chunks |-> IF c \in ToSet(Group) THEN "call" ELSE gone[c]]
       \/ run' = [run EXCEPT !.batch.stop = TRUE, !.batch.called = TRUE] /\ gone' = gone
    /\ UNCHANGED <<arrived, journal, seen, blocks, around, at, excused>>

(* The breaker, the GPU ceiling or the call clamp, asked before the rune meter. *)
Brake ==
    /\ at = "extract" /\ Pending /\ Spend("brakes")
    /\ run' = [run EXCEPT !.batch.stop = TRUE]
    /\ UNCHANGED <<arrived, journal, seen, blocks, around, at, excused, gone>>

(* The batch joins the accumulator: what a brake or the meter left over is neither
   marked nor covered. *)
AddBatch(r) ==
    [r EXCEPT !.insights = @ \o r.batch.bought, !.called = @ \/ r.batch.called,
              !.batch.marks = ToSet(SubSeq(r.batch.kept, 1, r.batch.done)),
              !.batch.covered = IF r.batch.done < Len(r.batch.kept) THEN 0 ELSE r.batch.wm]

(* distillWriteBlock: the accumulated block is durable before anything claims that
   its material was handled. *)
distillWriteBlock ==
    /\ at = "extract" /\ (~Pending \/ BlockFull)
    /\ at' = "roll"
    /\ \E added \in {AddBatch(run)} : run' = Render(added)
    /\ blocks' = Upserted(run')
    /\ UNCHANGED <<arrived, journal, seen, around, excused, gone, left>>
-----------------------------------------------------------------------------
(* distillRollShard: what becomes of a full shard. *)

(* The meter refused the next call, or the render a line. *)
ShardFull == Pending \/ run.overflow # <<>>

(* How many of the kept chunks come before the first one with a claim in over. *)
distillHeldFrom(over) ==
    LET shown == SubSeq(run.batch.kept, 1, run.batch.done)
        held == {i \in DOMAIN shown : ToSet(Yield[shown[i]]) \cap ToSet(over) # {}}
    IN IF held = {} THEN 0 ELSE Min(held) - 1

Marked(n) == ToSet(SubSeq(run.batch.kept, 1, n))

(* Mutant: material without a place is booked all the same. *)
HeldBack_Booked(r) == [r EXCEPT !.batch.stop = TRUE]

(* Material without a place: the run ends, the batch is cut at the first chunk of
   it and covers nothing. *)
HeldBack(r) ==
    [r EXCEPT !.batch.stop = TRUE,
              !.batch.marks = IF r.overflow = <<>> THEN @ ELSE Marked(distillHeldFrom(r.overflow)),
              !.batch.covered = IF r.overflow = <<>> THEN @ ELSE 0]

(* The shard has room, or another brake has ended the tick. *)
ShardStays ==
    /\ at = "roll" /\ (~ShardFull \/ run.batch.stop)
    /\ at' = "mark"
    /\ gone' = [c \in Chunks |->
                  IF c \in run.batch.marks /\ ToSet(Yield[c]) \cap ToSet(run.overflow) # {}
                  THEN "brake" ELSE gone[c]]
    /\ UNCHANGED <<arrived, journal, seen, blocks, around, run, excused, left>>

(* Mutant: only a shard that was called may be left. *)
MayRoll_CallOnly(r) == ~NoFurtherShard(r.cap, r.ordinal) /\ NextRoom > 0 /\ r.called

(* A further shard is allowed, could take something, and this one is not full
   without ever having held or been given anything. *)
MayRoll(r) == ~NoFurtherShard(r.cap, r.ordinal) /\ NextRoom > 0 /\ (r.called \/ r.carry # <<>>)

ShardRests ==
    /\ at = "roll" /\ ShardFull /\ ~run.batch.stop /\ ~MayRoll(run)
    /\ at' = "mark" /\ run' = HeldBack(run)
    /\ UNCHANGED <<arrived, journal, seen, blocks, around, excused, gone, left>>

(* The handover is a second durable write; what the fresh shard cannot take either
   is held back. *)
ShardRolls ==
    /\ at = "roll" /\ ShardFull /\ ~run.batch.stop /\ MayRoll(run)
    /\ at' = "mark"
    /\ \E r \in {Render(rollover(run))} :
         /\ blocks' = Upserted(r)
         /\ run' = IF r.overflow # <<>> THEN HeldBack(r) ELSE [r EXCEPT !.batch.rolled = TRUE]
    /\ UNCHANGED <<arrived, journal, seen, around, excused, gone, left>>
-----------------------------------------------------------------------------
(* Ledger, watermark and the end of the run. *)

(* A read, a write of a shard, the ledger or the journal fails: the run ends. *)
RunFails ==
    /\ at \in {"read", "extract", "roll", "mark", "advance"} /\ Spend("faults")
    /\ at = "extract" => ~Pending \/ MeterExhausted
    /\ at' = "close" /\ excused' = TRUE
    /\ UNCHANGED <<arrived, journal, seen, blocks, around, run, gone>>

distillMarkSeen ==
    /\ at = "mark" /\ at' = "advance"
    /\ seen' = seen \cup run.batch.marks
    /\ UNCHANGED <<arrived, journal, blocks, around, run, excused, gone, left>>

(* The row's watermark only moves forward. A rollover inside the batch reads the
   same range again; a brake, a batch without progress or an incomplete one ends
   the run. *)
distillAdvance ==
    LET b == run.batch
        again == ~b.stop /\ (IF b.covered > run.wm THEN b.complete ELSE b.rolled)
    IN /\ at = "advance"
       /\ run' = [run EXCEPT !.to = Max({@, b.covered}), !.wm = Max({@, b.covered}),
                             !.batch = NoBatch]
       /\ at' = IF again THEN "read" ELSE "close"
       /\ excused' = ~again
       /\ UNCHANGED <<arrived, journal, seen, blocks, around, gone, left>>

(* distillFinishRun; a row that cannot be closed stays 'running'. *)
distillClose ==
    /\ at = "close" /\ at' = "await" /\ run' = NoRun
    /\ \/ closed' = Max({closed, run.to}) /\ UNCHANGED <<orphans, excused, left>>
       \/ /\ Spend("faults")
          /\ orphans' = orphans \cup {run.to} /\ excused' = TRUE /\ closed' = closed
    /\ UNCHANGED <<arrived, seen, blocks, around, gone>>

(* The process ends, by a shutdown or a crash: the row stays as it is. *)
Crash ==
    /\ at # "boot" /\ Spend("crashes")
    /\ at' = "boot" /\ run' = NoRun /\ excused' = FALSE
    /\ orphans' = IF at \in {"read", "extract", "roll", "mark", "advance", "close"}
                  THEN orphans \cup {run.to} ELSE orphans
    /\ link' = "down" /\ wire' = {} /\ window' = Quiet
    /\ UNCHANGED <<arrived, closed, seen, blocks, maxShards, gone>>

(* The operator lifts the cap; a run keeps the value its tick has read. *)
LiftCap ==
    /\ maxShards # 0 /\ maxShards' = 0
    /\ UNCHANGED <<arrived, journal, seen, blocks, link, wire, window, at, run, excused, gone, left>>

(* The surroundings, the listener, and the arm's own goroutine. *)
Environment ==
    \/ LiftCap \/ Arrive \/ InsertForeign \/ Disconnect \/ Crash

Listener ==
    \/ Listen \/ NotifyDistillBacklog \/ (\E id \in wire : HandleNotification(id))

Tick ==
    \/ distillStartupSweep \/ Settle \/ DrainDistillWake \/ Fallback
    \/ DemandDeferred \/ SessionRefused \/ SessionSkipped \/ distillStartRun

Run ==
    \/ ReadBatch \/ Exhausted
    \/ Call \/ CallFails \/ Brake \/ distillWriteBlock
    \/ ShardStays \/ ShardRests \/ ShardRolls
    \/ distillMarkSeen \/ distillAdvance
    \/ RunFails \/ distillClose

Next == Environment \/ Listener \/ Tick \/ Run

Spec == Init /\ [][Next]_vars

(* The goroutine of the arm runs, its fallback timer included; brakes, failures and
   crashes are bounded by the budget, and a cap is lifted at some point. *)
Fairness == WF_vars(Tick \/ Run) /\ WF_vars(LiftCap)

FairSpec == Spec /\ Fairness
-----------------------------------------------------------------------------
Durable == UNION {AllOf(blocks[w]) : w \in Watermarks}
Rows == {closed, run.to} \cup orphans

(* What the journal or the ledger says was handled. *)
Covered ==
    seen \cup {c \in UNION {ToSet(Source[i].chunks) : i \in 1..arrived} :
                 \E i \in 1..arrived : Source[i].wm <= Max(Rows) /\ c \in ToSet(Source[i].chunks)}

TypeOK ==
    /\ arrived \in 0..Len(Source) /\ Rows \subseteq Watermarks
    /\ seen \subseteq Chunks \ Dropped
    /\ \A w \in Watermarks : \A n \in DOMAIN blocks[w] :
         /\ ToSet(blocks[w][n]) \subseteq UNION {ToSet(Yield[c]) : c \in Chunks}
         /\ Len(blocks[w][n]) <= RunRoom(n)
         /\ n <= distillShardHardBound(Max(Caps))
    /\ link \in {"down", "listening", "up"} /\ wire \subseteq Manifests \cup {Foreign}
    /\ window.ids \subseteq Manifests \cup {Foreign}
    /\ Cardinality(window.ids) <= WakeIDCap
    /\ at \in {"boot", "await", "settle", "tick", "read", "extract", "roll", "mark", "advance",
               "close"}
    /\ run.batch.done \in 0..Len(run.batch.kept)

(* The watermark and the ledger stand for material that is held (distillBatch): a
   chunk either of them covers has its claims in a durable block, whatever crashed,
   failed, was braked or handed over to another shard, unless its call failed. A
   chunk whose claims found no room while another brake ended the tick is left
   out; see CoveredIsHeld. *)
NothingLost ==
    \A c \in Covered \ Dropped : gone[c] = "no" => ToSet(Yield[c]) \subseteq Durable

(* The same with no exception but the failed call: "material whose insights nothing
   holds must be readable again" (distillBatch). *)
CoveredIsHeld ==
    \A c \in Covered \ Dropped : gone[c] # "call" => ToSet(Yield[c]) \subseteq Durable

(* A re-extraction after a crash or a hold writes no claim into its range a second
   time, be it into another shard (the group dedup set). *)
OncePerRange ==
    \A w \in Watermarks :
      /\ \A n \in DOMAIN blocks[w] : Len(blocks[w][n]) = Cardinality(ToSet(blocks[w][n]))
      /\ \A n, k \in DOMAIN blocks[w] :
           n # k => ToSet(blocks[w][n]) \cap ToSet(blocks[w][k]) = {}

(* What was published stays published: no write of a later batch, run or shard
   takes a claim out of the corpus again. *)
PublishedKept == [][Durable \subseteq Durable']_vars

(* While the arm waits, a manifest above the watermark is one the window knows of,
   or one whose notification or backlog is still to come; only after a tick that
   knowingly left material behind does it take the fallback. *)
WakeKept ==
    at \in {"await", "settle"} /\ Visible(closed) # {} /\ ~excused =>
      \/ (window.token \/ at = "settle")
         /\ (window.overflow \/ window.ids \cap Manifests # {})
      \/ wire \cap Manifests # {} \/ link # "up"

(* What was committed is covered in the end, again and again: no full shard, hold, rollover or
   cap that was lifted again leaves the arm standing still. Asked of
   manifests that yield chunks: an empty batch of a cut window is read for ever. *)
AllCovered == []<>(Visible(closed) = {})
=============================================================================
