------------------------ MODULE EmbedMigrationProofs ------------------------
(***************************************************************************)
(* Proofs about EmbedMigration for every set of models and blocks, every   *)
(* choice of write paths and windows, and every budget of happenings: the  *)
(* types, the refinement of MigrationLifecycle, and what a cutover         *)
(* installs.                                                               *)
(***************************************************************************)
EXTENDS EmbedMigration, SequenceTheorems, FiniteSetTheorems,
        WellFoundedInduction, TLAPS

(* The parts of the type invariant. What an actor remembers between its steps
   has its type, and an actor at work is at work on a migration that exists. *)
BlocksOK == /\ live \subseteq Blocks /\ content \in [Blocks -> Nat] /\ uncleared \subseteq live
            /\ parked \subseteq Blocks
VectorsOK == /\ embedding \in Columns /\ embeddingNext \in Columns
             /\ anchor \in [kept : BOOLEAN, vec : Columns]
MapsOK == modelMap \in ModelMap /\ pool \in ModelMap /\ purging \in BOOLEAN
WorkerRec ==
    [at : {"idle", "batch", "wire", "probe", "enter"}, id : Nat, status : Lifecycle!Statuses,
     cursor : 0..NBlocks, block : 0..NBlocks, model : Models \cup {NoModel}, ver : Nat]
WorkerOK ==
    /\ worker \in WorkerRec
    /\ worker = NoWork \/ worker.id \in DOMAIN rows
    /\ worker.at = "wire" => worker.block \in Blocks
VerifyOK ==
    /\ verify \in [at : {"idle", "count", "scan", "verdict"}, id : Nat, wm : SUBSET Blocks,
                   red : BOOLEAN]
    /\ verify = NoVerify \/ verify.id \in DOMAIN rows
CutoverOK ==
    /\ cutover \in [at : {"idle", "check", "swap", "reload", "sweep", "unpark", "memos"},
                    op : {"confirm", "rollback"}, id : Nat, wm : SUBSET Blocks, flip : BOOLEAN,
                    swept : SUBSET Blocks]
    /\ cutover = NoCutover \/ cutover.id \in DOMAIN rows
CreateOK ==
    /\ creating \in [at : {"idle", "probe", "insert"}, from : Models \cup {NoModel},
                     to : Models \cup {NoModel}, reuse : BOOLEAN]
    /\ creating.at # "idle" => creating.from \in Models /\ creating.to \in Models
FillOK ==
    /\ backfill \in [block : 0..NBlocks, model : Models \cup {NoModel}, ver : Nat,
                     locked : BOOLEAN]
    /\ backfill = NoFill \/ backfill.block \in Blocks
LeftOK ==
    left \in [{"migrations", "arms", "edits", "blocks", "faults", "crashes", "reruns"} -> Nat]

(* The single-active index of context_embed_migrations. *)
SingleActive == \A i, j \in Active : i = j
RowsOK == rows \in Seq(Row) /\ SingleActive

Types == /\ BlocksOK /\ VectorsOK /\ MapsOK /\ RowsOK
         /\ WorkerOK /\ VerifyOK /\ CutoverOK /\ CreateOK /\ FillOK /\ LeftOK

-----------------------------------------------------------------------------
(* What a rollback relies on. *)

(* The active migration is the newest one. *)
ActiveLast == \A i \in Active : i = Len(rows)

(* While the anchor is kept, the serving space is the one the last migration that
   was cut over, and not rolled back, brought. *)
AnchorSpace ==
    anchor.kept => \A i \in DOMAIN rows :
                      rows[i].status = "done" /\ ~FollowedUp(i) => modelMap.embed = rows[i].to

(* What the preflight of a rollback read of the backend row is still so. *)
FlipExact ==
    cutover.at \in {"check", "swap"} /\ cutover.op = "rollback" =>
      (cutover.flip <=> modelMap.embed = rows[cutover.id].to)

Spaces == ActiveLast /\ AnchorSpace /\ FlipExact
-----------------------------------------------------------------------------
(* What a cutover relies on, in the histories without a rollback. *)

NoRollback == \A i \in DOMAIN rows : rows[i].status # "rolled_back"

(* The migration has reached its verify gate at least once, or somebody acts on
   that it has. *)
Confirming(i) == cutover.at \in {"check", "swap"} /\ cutover.op = "confirm" /\ cutover.id = i
Entered(i) == \/ rows[i].status = "verifying" \/ rows[i].report # "none"
              \/ verify.at # "idle" /\ verify.id = i
              \/ Confirming(i)

(* From there on the arm works for no other migration. *)
ArmOnEntered == \A i \in Active : Entered(i) /\ worker.at # "idle" => worker.id = i

(* The blocks of the _next pair, and those that hold another model's vector. *)
Filled == {b \in Blocks : embeddingNext[b] # Null}
Foreign(i) == {b \in Filled : embeddingNext[b].model # rows[i].to}

FilledLive == Filled \subseteq live /\ (worker.at = "wire" => worker.block \in live)

(* Blocks whose text changes only together with both vectors. *)
ClearedWithText(b) == \A p \in Paths : p[1] = b => p[2] = "upsert"

(* Their _next vectors, the one on the wire included, are of the current text. *)
FilledCurrent ==
    \A b \in Blocks :
      ClearedWithText(b) =>
        /\ b \in Filled => embeddingNext[b].ver = content[b]
        /\ worker.at = "wire" /\ worker.block = b => worker.ver = content[b]

(* A foreign vector is older than the watermark the verify run looks behind. *)
ForeignBehind ==
    \A i \in Active :
      /\ rows[i].status = "verifying" => Foreign(i) \subseteq rows[i].wm
      /\ verify.at \in {"count", "scan"} /\ verify.id = i => Foreign(i) \subseteq verify.wm

(* A verdict that is not red stays true of the vectors. *)
Vouched(i) == \/ verify.at = "verdict" /\ verify.id = i /\ ~verify.red
              \/ rows[i].report = "green"
              \/ Confirming(i)
VerdictHolds == \A i \in Active : Vouched(i) => Foreign(i) = {}

Genuine == /\ ArmOnEntered
           /\ NoRollback => FilledLive /\ FilledCurrent /\ ForeignBehind /\ VerdictHolds

IInv == Types /\ Genuine
-----------------------------------------------------------------------------
(* The rows. *)

(* Row i becomes r: one migration moves along an edge, or only its columns
   beside the status change. *)
RowStep(i, r) ==
    /\ i \in DOMAIN rows /\ r \in Row
    /\ rows' = [rows EXCEPT ![i] = r]
    /\ r.from = rows[i].from /\ r.to = rows[i].to
    /\ r.status = rows[i].status \/ Lifecycle!IsAllowedTransition(rows[i].status, r.status)

(* allowedTransitions leads into the active statuses only from there, and
   leaves the set of statuses nowhere. *)
LEMMA EdgesType ==
  ASSUME NEW s \in Lifecycle!Statuses, NEW t, Lifecycle!IsAllowedTransition(s, t)
  PROVE  /\ t \in Lifecycle!Statuses
         /\ t \in Lifecycle!NonTerminal => s \in Lifecycle!NonTerminal
  BY DEF Lifecycle!IsAllowedTransition, Lifecycle!Edges, Lifecycle!Statuses,
         Lifecycle!NonTerminal

(* Such a step leaves a row in place of each row, of the types of a row, and
   makes none active. *)
LEMMA RowStepKeeps ==
  ASSUME RowsOK, NEW i, NEW r, RowStep(i, r)
  PROVE  /\ rows' \in Seq(Row) /\ Len(rows') = Len(rows) /\ DOMAIN rows' = DOMAIN rows
         /\ \A j \in DOMAIN rows : rows'[j] = IF j = i THEN r ELSE rows[j]
         /\ Active' \subseteq Active
         /\ RowsOK'
<1>1. rows \in Seq(Row) /\ i \in 1..Len(rows) /\ r \in Row /\ rows[i] \in Row
  BY DEF RowsOK, RowStep
<1>2. /\ rows' \in Seq(Row) /\ Len(rows') = Len(rows)
      /\ \A j \in 1..Len(rows) : rows'[j] = IF j = i THEN r ELSE rows[j]
  BY <1>1, ExceptSeq DEF RowStep
<1>3. DOMAIN rows' = DOMAIN rows /\ DOMAIN rows = 1..Len(rows)
  BY <1>1, <1>2
<1>4. Active' \subseteq Active
  <2>1. rows[i].status \in Lifecycle!Statuses
    BY <1>1 DEF Row
  <2>2. r.status \in Lifecycle!NonTerminal => rows[i].status \in Lifecycle!NonTerminal
    BY <2>1, EdgesType DEF RowStep
  <2> QED
    BY <1>2, <1>3, <2>2 DEF Active, Lifecycle!ActiveOf
<1> QED
  BY <1>1, <1>2, <1>3, <1>4 DEF RowsOK, SingleActive

(* Transition either changes nothing or moves the row along an edge. *)
LEMMA TransitionStep ==
  ASSUME RowsOK, NEW i \in DOMAIN rows, NEW from, NEW to, NEW row \in Row,
         row.from = rows[i].from, row.to = rows[i].to,
         rows' = Transition(i, from, to, row)
  PROVE  \/ rows' = rows
         \/ /\ rows[i].status = from
            /\ Lifecycle!IsAllowedTransition(from, to)
            /\ [row EXCEPT !.status = to] \in Row
            /\ RowStep(i, [row EXCEPT !.status = to])
<1> SUFFICES ASSUME Lifecycle!IsAllowedTransition(from, to), rows[i].status = from
             PROVE  /\ [row EXCEPT !.status = to] \in Row
                    /\ RowStep(i, [row EXCEPT !.status = to])
  BY DEF Transition
<1>1. rows[i] \in Row
  BY DEF RowsOK
<1>2. to \in Lifecycle!Statuses
  BY <1>1, EdgesType DEF Row
<1>3. [row EXCEPT !.status = to] \in Row
  BY <1>2 DEF Row
<1> QED
  BY <1>3 DEF RowStep, Transition, Row

-----------------------------------------------------------------------------
(* Types. *)

(* What a step leaves alone keeps its type. *)
LEMMA Frame ==
  ASSUME Types
  PROVE  /\ UNCHANGED <<live, content, uncleared, parked>> => BlocksOK'
         /\ UNCHANGED <<embedding, embeddingNext, anchor>> => VectorsOK'
         /\ UNCHANGED <<modelMap, pool, purging>> => MapsOK'
         /\ UNCHANGED rows => RowsOK' /\ DOMAIN rows' = DOMAIN rows
         /\ UNCHANGED worker /\ DOMAIN rows \subseteq DOMAIN rows' => WorkerOK'
         /\ UNCHANGED verify /\ DOMAIN rows \subseteq DOMAIN rows' => VerifyOK'
         /\ UNCHANGED cutover /\ DOMAIN rows \subseteq DOMAIN rows' => CutoverOK'
         /\ UNCHANGED creating => CreateOK'
         /\ UNCHANGED backfill => FillOK'
         /\ UNCHANGED left => LeftOK'
<1>1. UNCHANGED <<live, content, uncleared, parked>> => BlocksOK'
  BY DEF Types, BlocksOK
<1>2. UNCHANGED <<embedding, embeddingNext, anchor>> => VectorsOK'
  BY DEF Types, VectorsOK
<1>3. UNCHANGED <<modelMap, pool, purging>> => MapsOK'
  BY DEF Types, MapsOK
<1>4. UNCHANGED rows => RowsOK' /\ DOMAIN rows' = DOMAIN rows
  BY DEF Types, RowsOK, SingleActive, Active, Lifecycle!ActiveOf
<1>5. UNCHANGED worker /\ DOMAIN rows \subseteq DOMAIN rows' => WorkerOK'
  BY DEF Types, WorkerOK
<1>6. UNCHANGED verify /\ DOMAIN rows \subseteq DOMAIN rows' => VerifyOK'
  BY DEF Types, VerifyOK
<1>7. UNCHANGED cutover /\ DOMAIN rows \subseteq DOMAIN rows' => CutoverOK'
  BY DEF Types, CutoverOK
<1>8. UNCHANGED <<creating>> => CreateOK'
  BY DEF Types, CreateOK
<1>9. UNCHANGED <<backfill>> => FillOK'
  BY DEF Types, FillOK
<1>10. UNCHANGED left => LeftOK'
  BY DEF Types, LeftOK
<1> QED
  BY <1>1, <1>2, <1>3, <1>4, <1>5, <1>6, <1>7, <1>8, <1>9, <1>10

(* A set of block numbers has a smallest one. *)
LEMMA SmallestNat ==
  ASSUME NEW S \in SUBSET Nat, S # {}
  PROVE  \E x \in S : \A y \in S : x <= y
<1>1. PICK x \in S : \A y \in S : <<y, x>> \notin OpToRel(<, Nat)
  BY WFMin, NatLessThanWellFounded
<1>2. \A y \in S : ~(y < x)
  BY <1>1 DEF OpToRel
<1> QED
  BY <1>2

(* A bounded happening takes one from its budget. *)
LEMMA SpendType ==
  ASSUME LeftOK, NEW what, Spend(what),
         what \in {"migrations", "arms", "edits", "blocks", "faults", "crashes", "reruns"}
  PROVE  LeftOK'
  BY DEF LeftOK, Spend

(* The models a wire call is made with. *)
LEMMA ModelForNextType == ASSUME NEW m \in ModelMap PROVE ModelForNext(m) \in Models
  BY DEF ModelForNext, ModelMap

(* NULL is a vector of no model, and a column of NULLs a column. *)
LEMMA NullType == AllNull \in Columns /\ Null \in Vectors
  BY DEF AllNull, Null, Vector, Columns, Vectors

(* An actor that stops forgets its work. *)
LEMMA IdleTypes ==
  /\ worker' = NoWork => WorkerOK'
  /\ verify' = NoVerify => VerifyOK'
  /\ cutover' = NoCutover => CutoverOK'
  /\ creating' = NoCreate => CreateOK'
  /\ backfill' = NoFill => FillOK'
<1> USE BoundsAssumption
<1>1. worker' = NoWork => WorkerOK'
  BY DEF NoWork, WorkerOK, WorkerRec, Lifecycle!Statuses, Lifecycle!NonTerminal
<1>2. verify' = NoVerify => VerifyOK'
  BY DEF NoVerify, VerifyOK
<1>3. cutover' = NoCutover => CutoverOK'
  BY DEF NoCutover, CutoverOK
<1>4. creating' = NoCreate => CreateOK'
  BY DEF NoCreate, CreateOK
<1>5. backfill' = NoFill => FillOK'
  BY DEF NoFill, FillOK
<1> QED
  BY <1>1, <1>2, <1>3, <1>4, <1>5

(* An actor that is not idle is at work on a migration that exists. *)
LEMMA AtWork ==
  ASSUME Types
  PROVE  /\ worker.at # "idle" => worker.id \in DOMAIN rows
         /\ verify.at # "idle" => verify.id \in DOMAIN rows
         /\ cutover.at # "idle" => cutover.id \in DOMAIN rows
  BY DEF Types, WorkerOK, VerifyOK, CutoverOK, NoWork, NoVerify, NoCutover

(* Zero stands for no block and for the start of the queue. *)
LEMMA ZeroBlock == 0 \in 0..NBlocks
  BY BoundsAssumption

(* Between its steps the arm remembers where it is. *)
LEMMA WorkerStep ==
  ASSUME Types, worker' \in WorkerRec, worker'.id = worker.id, worker.at # "idle",
         DOMAIN rows' = DOMAIN rows, worker'.at = "wire" => worker'.block \in Blocks
  PROVE  WorkerOK'
  BY AtWork DEF WorkerOK

-----------------------------------------------------------------------------
(* What the actions do to the rows. *)

(* Nothing that the operator, the verify gate or the cutover looks at: a cursor
   or a memo at most. *)
QuietRows ==
    /\ rows' \in Seq(Row) /\ DOMAIN rows' = DOMAIN rows
    /\ \A j \in DOMAIN rows :
          /\ rows'[j].status = rows[j].status
          /\ rows'[j].from = rows[j].from /\ rows'[j].to = rows[j].to
          /\ rows'[j].wm = rows[j].wm /\ rows'[j].report = rows[j].report

(* A quiet step leaves the active migration the active one. *)
LEMMA QuietKeeps ==
  ASSUME RowsOK, QuietRows
  PROVE  RowsOK' /\ Active' = Active
  BY DEF RowsOK, QuietRows, SingleActive, Active, Lifecycle!ActiveOf

(* A row step that leaves status, watermark and report alone is quiet. *)
LEMMA QuietStep ==
  ASSUME RowsOK, NEW i, NEW r, RowStep(i, r),
         r.status = rows[i].status, r.wm = rows[i].wm, r.report = rows[i].report
  PROVE  QuietRows
  BY RowStepKeeps DEF QuietRows, RowStep

(* No change is quiet. *)
LEMMA QuietStutter == ASSUME RowsOK, rows' = rows PROVE QuietRows
  BY DEF QuietRows, RowsOK

(* The delta of a batch writes the cursor. *)
LEMMA CursorQuiet ==
  ASSUME Types, worker.at # "idle", NEW c \in 0..NBlocks, ApplyCycleDelta(c)
  PROVE  QuietRows
<1> DEFINE i == worker.id
           r == [rows[i] EXCEPT !.cursor = c]
<1>1. i \in DOMAIN rows /\ RowsOK
  BY AtWork DEF Types
<1>2. rows[i] \in Row
  BY <1>1 DEF RowsOK
<1>3. r \in Row /\ r.status = rows[i].status /\ r.from = rows[i].from /\ r.to = rows[i].to
      /\ r.wm = rows[i].wm /\ r.report = rows[i].report
  BY <1>2 DEF Row
<1>4. rows' = [rows EXCEPT ![i] = r]
  BY DEF ApplyCycleDelta
<1>5. RowStep(i, r)
  BY <1>1, <1>3, <1>4 DEF RowStep
<1> QED
  BY <1>1, <1>3, <1>5, QuietStep

(* A memo is one cell of one row. *)
LEMMA MemoQuiet ==
  ASSUME Types, NEW i \in DOMAIN rows, NEW b \in Blocks, NEW m \in {"backoff", "due", "infinity"},
         rows' = [rows EXCEPT ![i].memo[b] = m]
  PROVE  QuietRows
<1> DEFINE r == [rows[i] EXCEPT !.memo[b] = m]
<1>1. RowsOK
  BY DEF Types
<1>2. rows[i] \in Row
  BY <1>1 DEF RowsOK
<1>3. r \in Row /\ r.status = rows[i].status /\ r.from = rows[i].from /\ r.to = rows[i].to
      /\ r.wm = rows[i].wm /\ r.report = rows[i].report
  BY <1>2 DEF Row
<1>4. rows' = [rows EXCEPT ![i] = r]
  OBVIOUS
<1>5. RowStep(i, r)
  BY <1>1, <1>3, <1>4 DEF RowStep
<1> QED
  BY <1>1, <1>3, <1>5, QuietStep

(* The block the arm picks is one of the live ones. *)
LEMMA PickedType ==
  ASSUME Types, worker.at = "batch", Pickable \ Locked # {},
         NEW b, b = CHOOSE x \in Pickable \ Locked : \A y \in Pickable \ Locked : x <= y
  PROVE  b \in Pickable \ Locked /\ b \in live /\ b \in Blocks
<1>1. Pickable \subseteq live /\ live \subseteq Blocks /\ Blocks \subseteq Nat
  BY BoundsAssumption DEF Pickable, MigratePending, Types, BlocksOK, Blocks
<1>2. \E x \in Pickable \ Locked : \A y \in Pickable \ Locked : x <= y
  <2> DEFINE S == Pickable \ Locked
  <2>1. S # {} /\ S \subseteq Nat
    BY <1>1
  <2> QED
    BY <2>1, SmallestNat
<1> QED
  BY <1>1, <1>2

(* MigratePick memoizes a text that does not fit, or goes on the wire. *)
LEMMA MigratePickRows == ASSUME Types, MigratePick PROVE QuietRows
<1>1. RowsOK /\ worker.id \in DOMAIN rows
  BY AtWork DEF Types, MigratePick
<1> DEFINE b == CHOOSE x \in Pickable \ Locked : \A y \in Pickable \ Locked : x <= y
<1>2. b \in Blocks
  BY PickedType DEF MigratePick
<1>3. CASE rows' = [rows EXCEPT ![worker.id].memo[b] = "infinity"]
  <2> HIDE DEF b
  <2> QED
    BY <1>1, <1>2, <1>3, MemoQuiet
<1>4. CASE rows' = rows
  BY <1>1, <1>4, QuietStutter
<1> QED
  BY <1>3, <1>4 DEF MigratePick

(* The row the INSERT of a create request adds. *)
NewRow == [status |-> "pending", from |-> creating.from, to |-> creating.to, wm |-> {},
           report |-> "none", cursor |-> 0, memo |-> [b \in Blocks |-> "none"]]

(* The INSERT: with the single-active index the new row is the only active one. *)
LEMMA InsertRows ==
  ASSUME RowsOK, CreateInsert, creating.from \in Models, creating.to \in Models
  PROVE  /\ RowsOK' /\ DOMAIN rows \subseteq DOMAIN rows'
         /\ \/ rows' = rows
            \/ Active = {} /\ NewRow \in Row /\ rows' = Append(rows, NewRow)
<1>1. CASE rows' = rows
  BY <1>1, QuietStutter, QuietKeeps DEF QuietRows
<1>2. CASE Active = {} /\ rows' = Append(rows, NewRow)
  <2>1. rows \in Seq(Row)
    BY DEF RowsOK
  <2>2. NewRow \in Row
    BY BoundsAssumption DEF NewRow, Row, Lifecycle!Statuses, Lifecycle!NonTerminal
  <2>3. /\ rows' \in Seq(Row) /\ Len(rows') = Len(rows) + 1
        /\ \A j \in 1..Len(rows) : rows'[j] = rows[j]
    BY <1>2, <2>1, <2>2, AppendProperties
  <2>4. DOMAIN rows = 1..Len(rows) /\ DOMAIN rows' = 1..(Len(rows) + 1) /\ Len(rows) \in Nat
    BY <2>1, <2>3
  <2>5. \A j \in Active' : j = Len(rows) + 1
    BY <1>2, <2>3, <2>4 DEF Active, Lifecycle!ActiveOf
  <2>6. RowsOK'
    BY <2>3, <2>5 DEF RowsOK, SingleActive
  <2>7. DOMAIN rows \subseteq DOMAIN rows'
    BY <2>4
  <2> QED
    BY <1>2, <2>2, <2>6, <2>7
<1> QED
  BY <1>1, <1>2 DEF CreateInsert, NewRow

(* One cycle of the arm on row i. *)
CycleOf(i) ==
    LET row == rows[i]
    IN  /\ row.status \in {"running", "verifying"}
        /\ \/ /\ ModelForNext(pool) # row.to
              /\ rows' = Transition(i, row.status, "paused", row)
              /\ UNCHANGED <<worker, verify>>
           \/ /\ ModelForNext(pool) = row.to
              /\ worker' = [NoWork EXCEPT !.at = "batch", !.id = i, !.status = row.status,
                                          !.cursor = row.cursor]
              /\ verify' = IF row.status = "verifying" /\ row.report = "none"
                              /\ verify.at = "idle"
                           THEN [at |-> "count", id |-> i, wm |-> row.wm, red |-> FALSE]
                           ELSE verify
              /\ UNCHANGED rows

(* A cycle is about the active row. *)
LEMMA CycleStartOf == ASSUME CycleStart PROVE \E i \in Active : CycleOf(i)
  BY DEF CycleStart, CycleOf

(* MigrateStore moves the row only to pause it, and writes the cursor then. *)
LEMMA MigrateStoreRows ==
  ASSUME Types, MigrateStore
  PROVE  \/ rows' = rows
         \/ \E r : /\ RowStep(worker.id, r) /\ r.status \in {rows[worker.id].status, "paused"}
                   /\ r.wm = rows[worker.id].wm /\ r.report = rows[worker.id].report
<1> DEFINE i == worker.id
           c == worker.cursor
<1>1. RowsOK /\ i \in DOMAIN rows /\ c \in 0..NBlocks /\ rows[i] \in Row
  BY AtWork DEF Types, RowsOK, WorkerOK, WorkerRec, MigrateStore
<1>2. CASE rows' = rows
  BY <1>2
<1>3. CASE rows' = [rows EXCEPT ![i].cursor = c]
  <2>1. [rows[i] EXCEPT !.cursor = c] \in Row
    BY <1>1 DEF Row
  <2>2. RowStep(i, [rows[i] EXCEPT !.cursor = c])
    BY <1>1, <1>3, <2>1 DEF RowStep, Row
  <2> QED
    BY <1>1, <2>2 DEF Row
<1>4. CASE /\ Lifecycle!IsAllowedTransition(rows[i].status, "paused")
           /\ rows' = [[rows EXCEPT ![i] = [rows[i] EXCEPT !.status = "paused"]]
                          EXCEPT ![i].cursor = c]
  <2> DEFINE r == [rows[i] EXCEPT !.status = "paused", !.cursor = c]
  <2>1. r \in Row
    BY <1>1 DEF Row, Lifecycle!Statuses, Lifecycle!NonTerminal
  <2>2. rows' = [rows EXCEPT ![i] = r]
    BY <1>1, <1>4 DEF Row
  <2>3. /\ r.status = "paused" /\ r.from = rows[i].from /\ r.to = rows[i].to
        /\ r.wm = rows[i].wm /\ r.report = rows[i].report
    BY <1>1 DEF Row
  <2> HIDE DEF r
  <2>4. RowStep(i, r)
    BY <1>1, <1>4, <2>1, <2>2, <2>3 DEF RowStep
  <2> QED
    BY <2>3, <2>4
<1> QED
  BY <1>2, <1>3, <1>4 DEF MigrateStore, Transition

(* EnterVerifying changes nothing, or gives the row a watermark of live blocks
   and no report. *)
LEMMA EnterRows ==
  ASSUME Types, EnterVerifying
  PROVE  \/ rows' = rows
         \/ \E r : /\ RowStep(worker.id, r) /\ r.status = "verifying"
                   /\ rows[worker.id].status = "running"
                   /\ r.wm = live /\ r.report = "none"
<1> DEFINE i == worker.id
           row == [rows[i] EXCEPT !.wm = live, !.report = "none"]
<1>1. RowsOK /\ i \in DOMAIN rows /\ rows[i] \in Row /\ live \subseteq Blocks
  BY AtWork DEF Types, RowsOK, BlocksOK, EnterVerifying
<1>2. row \in Row /\ row.from = rows[i].from /\ row.to = rows[i].to
  BY <1>1 DEF Row
<1>3. rows' = Transition(i, "running", "verifying", row)
  BY DEF EnterVerifying
<1>4. [row EXCEPT !.status = "verifying"].status = "verifying"
      /\ [row EXCEPT !.status = "verifying"].wm = live
      /\ [row EXCEPT !.status = "verifying"].report = "none"
  BY <1>1 DEF Row
<1> HIDE DEF row
<1> QED
  BY <1>1, <1>2, <1>3, <1>4, TransitionStep

(* FinishVerify pauses with a red report or reports green, each only on a row
   that is verifying. *)
LEMMA FinishRows ==
  ASSUME Types, FinishVerify
  PROVE  \/ rows' = rows
         \/ \E r : /\ RowStep(verify.id, r) /\ rows[verify.id].status = "verifying"
                   /\ r.wm = rows[verify.id].wm
                   /\ \/ verify.red /\ r.status = "paused" /\ r.report = "red"
                      \/ ~verify.red /\ r.status = "verifying" /\ r.report = "green"
<1> DEFINE i == verify.id
           red == [rows[i] EXCEPT !.report = "red"]
           green == [rows[i] EXCEPT !.report = "green"]
<1>1. RowsOK /\ i \in DOMAIN rows /\ rows[i] \in Row
  BY AtWork DEF Types, RowsOK, FinishVerify
<1>2. /\ red \in Row /\ red.from = rows[i].from /\ red.to = rows[i].to
      /\ green \in Row /\ green.from = rows[i].from /\ green.to = rows[i].to
      /\ green.status = rows[i].status /\ green.wm = rows[i].wm /\ green.report = "green"
  BY <1>1 DEF Row
<1>3. CASE verify.red
  <2>1. rows' = Transition(i, "verifying", "paused", red)
    BY <1>3 DEF FinishVerify
  <2>2. /\ [red EXCEPT !.status = "paused"].status = "paused"
        /\ [red EXCEPT !.status = "paused"].wm = rows[i].wm
        /\ [red EXCEPT !.status = "paused"].report = "red"
    BY <1>1 DEF Row
  <2> HIDE DEF red
  <2> QED
    BY <1>1, <1>2, <1>3, <2>1, <2>2, TransitionStep
<1>4. CASE ~verify.red
  <2>1. \/ rows' = rows
        \/ rows[i].status = "verifying" /\ rows' = [rows EXCEPT ![i] = green]
    BY <1>4 DEF FinishVerify
  <2> HIDE DEF green
  <2>2. rows' = [rows EXCEPT ![i] = green] => RowStep(i, green)
    BY <1>1, <1>2 DEF RowStep
  <2> QED
    BY <1>2, <1>4, <2>1, <2>2
<1> QED
  BY <1>3, <1>4

(* Whatever the run looks at, its verdict is one of the two colours. *)
LEMMA VerifyRed ==
  ASSUME Types, VerifyCompleteness \/ VerifyScanPass
  PROVE  verify'.red \in BOOLEAN
  BY DEF Types, VerifyOK, VerifyCompleteness, VerifyScanPass

-----------------------------------------------------------------------------
(* Types, action by action. *)

(* Pause, resume and abort move one row. *)
LEMMA OperatorToTypes == ASSUME Types, NEW i \in DOMAIN rows, NEW s \in {"paused", "running", "aborted"}, OperatorTo(i, s) PROVE Types'
<1>1. RowsOK /\ rows[i] \in Row
  BY DEF Types, RowsOK
<1>2. RowsOK' /\ DOMAIN rows' = DOMAIN rows
  BY <1>1, TransitionStep, RowStepKeeps, QuietStutter, QuietKeeps, ZenonT(30) DEF OperatorTo, QuietRows
<1>3. LeftOK'
  BY SpendType DEF Types, OperatorTo, LeftOK
<1> QED
  BY <1>1, <1>2, <1>3, Frame
     DEF Types, OperatorTo, blockVars, vectorVars, mapVars, opVars

(* The checks remember the models of the row to be. *)
LEMMA CreateCheckTypes == ASSUME Types, NEW m \in Targets, NEW reuse \in BOOLEAN, CreateCheck(m, reuse) PROVE Types'
<1>1. CreateOK'
  BY ModelsAssumption DEF Types, MapsOK, ModelMap, CreateOK, CreateCheck
<1>2. LeftOK'
  BY SpendType DEF Types, CreateCheck
<1> QED
  BY <1>1, <1>2, Frame
     DEF Types, CreateCheck, blockVars, vectorVars, mapVars, opVars

(* The probe goes on with them or gives up. *)
LEMMA CreateProbeTypes == ASSUME Types, CreateProbe PROVE Types'
<1>1. CreateOK'
  BY IdleTypes DEF Types, CreateOK, CreateProbe
<1> QED
  BY <1>1, Frame
     DEF Types, CreateProbe, blockVars, vectorVars, mapVars, opVars

(* The INSERT appends a row only while none is active. *)
LEMMA CreateInsertTypes == ASSUME Types, CreateInsert PROVE Types'
<1>1. CreateOK' /\ creating.from \in Models /\ creating.to \in Models
  BY IdleTypes DEF Types, CreateOK, CreateInsert
<1>2. RowsOK' /\ DOMAIN rows \subseteq DOMAIN rows'
  BY <1>1, InsertRows DEF Types
<1> QED
  BY <1>1, <1>2, Frame
     DEF Types, CreateInsert, blockVars, vectorVars, mapVars, opVars

(* A purge batch nulls vectors of the _next pair. *)
LEMMA PurgeTypes == ASSUME Types, PurgeStart \/ PurgeBatch PROVE Types'
<1>1. VectorsOK'
  BY NullType DEF Types, VectorsOK, PurgeStart, PurgeBatch, vectorVars, Columns
<1>2. MapsOK'
  BY DEF Types, MapsOK, PurgeStart, PurgeBatch, mapVars
<1> QED
  BY <1>1, <1>2, Frame
     DEF Types, PurgeStart, PurgeBatch, blockVars, vectorVars, mapVars, opVars

(* An edit of embed_next names a target or nothing. *)
LEMMA ArmTypes == ASSUME Types, NEW m \in Targets \cup {NoModel}, Arm(m) PROVE Types'
<1>1. MapsOK'
  BY ModelsAssumption DEF Types, MapsOK, ModelMap, Arm, opVars
<1>2. LeftOK'
  BY SpendType DEF Types, Arm
<1> QED
  BY <1>1, <1>2, Frame
     DEF Types, Arm, blockVars, vectorVars, mapVars, opVars

(* The pool copies the row. *)
LEMMA ReloadTypes == ASSUME Types, Reload PROVE Types'
<1>1. MapsOK'
  BY DEF Types, MapsOK, Reload, opVars
<1> QED
  BY <1>1, Frame
     DEF Types, Reload, blockVars, vectorVars, mapVars, opVars

(* A cycle takes the active row as it finds it, or pauses it. *)
LEMMA CycleStartTypes == ASSUME Types, CycleStart PROVE Types'
<1>1. PICK i \in Active : CycleOf(i)
  BY CycleStartOf
<1>2. RowsOK /\ i \in DOMAIN rows /\ rows[i] \in Row
  BY DEF Types, RowsOK, Active, Lifecycle!ActiveOf
<1>3. RowsOK' /\ DOMAIN rows' = DOMAIN rows
  BY <1>1, <1>2, TransitionStep, RowStepKeeps, QuietStutter, QuietKeeps, ZenonT(30) DEF CycleOf, QuietRows
<1>4. WorkerOK'
  <2>1. CASE UNCHANGED worker
    BY <1>3, <2>1, Frame
  <2>2. CASE worker' = [NoWork EXCEPT !.at = "batch", !.id = i, !.status = rows[i].status,
                                      !.cursor = rows[i].cursor]
    <3>1. i \in Nat
      BY <1>2 DEF RowsOK
    <3>2. rows[i].status \in Lifecycle!Statuses /\ rows[i].cursor \in 0..NBlocks
      BY <1>2 DEF Row
    <3>3. worker' \in WorkerRec /\ worker'.id = i /\ worker'.at = "batch"
      BY <2>2, <3>1, <3>2, ZeroBlock DEF NoWork, WorkerRec
    <3> QED
      BY <1>2, <1>3, <3>3 DEF WorkerOK
  <2> QED
    BY <1>1, <2>1, <2>2 DEF CycleOf
<1>5. VerifyOK'
  <2>1. CASE UNCHANGED verify
    BY <1>3, <2>1, Frame
  <2>2. CASE verify' = [at |-> "count", id |-> i, wm |-> rows[i].wm, red |-> FALSE]
    <3>1. i \in Nat /\ rows[i].wm \subseteq Blocks
      BY <1>2 DEF RowsOK, Row
    <3> QED
      BY <1>2, <1>3, <2>2, <3>1 DEF VerifyOK
  <2> QED
    BY <1>1, <2>1, <2>2 DEF CycleOf
<1> QED
  BY <1>1, <1>2, <1>3, <1>4, <1>5, Frame
     DEF Types, CycleStart, blockVars, vectorVars, mapVars, opVars

(* A pick puts a live block on the wire. *)
LEMMA MigratePickTypes == ASSUME Types, MigratePick PROVE Types'
<1>1. QuietRows
  BY MigratePickRows
<1>2. RowsOK' /\ DOMAIN rows' = DOMAIN rows
  BY <1>1, QuietKeeps DEF Types, QuietRows
<1>3. WorkerOK'
  <2> DEFINE b == CHOOSE x \in Pickable \ Locked : \A y \in Pickable \ Locked : x <= y
  <2>1. b \in Blocks
    BY PickedType DEF MigratePick
  <2>2. worker.id \in DOMAIN rows
    BY AtWork DEF MigratePick
  <2>3. content[b] \in Nat /\ ModelForNext(pool) \in Models
    BY <2>1, ModelForNextType DEF Types, BlocksOK, MapsOK
  <2>4. \/ worker' = [worker EXCEPT !.cursor = b]
        \/ worker' = [worker EXCEPT !.at = "wire", !.block = b, !.ver = content[b],
                                    !.model = ModelForNext(pool)]
    BY DEF MigratePick
  <2>5. b \in 0..NBlocks
    BY <2>1, BoundsAssumption DEF Blocks
  <2> HIDE DEF b
  <2>6. /\ worker' \in WorkerRec /\ worker'.id = worker.id
        /\ worker'.at = "wire" => worker'.block = b
    BY <2>3, <2>4, <2>5 DEF Types, WorkerOK, WorkerRec, MigratePick
  <2> QED
    BY <1>2, <2>1, <2>6, WorkerStep DEF MigratePick
<1> QED
  BY <1>1, <1>2, <1>3, Frame
     DEF Types, MigratePick, blockVars, vectorVars, mapVars, opVars

(* The end of the queue wraps the cursor. *)
LEMMA MigrateQueueEndTypes == ASSUME Types, MigrateQueueEnd PROVE Types'
<1>1. QuietRows
  BY CursorQuiet, BoundsAssumption DEF MigrateQueueEnd
<1>2. RowsOK' /\ DOMAIN rows' = DOMAIN rows
  BY <1>1, QuietKeeps DEF Types, QuietRows
<1>3. WorkerOK'
  <2>1. CASE worker' = [worker EXCEPT !.at = "probe", !.cursor = 0]
    <3>1. worker' \in WorkerRec /\ worker'.id = worker.id /\ worker'.at = "probe"
      BY <2>1, ZeroBlock DEF Types, WorkerOK, WorkerRec
    <3> QED
      BY <1>2, <3>1, WorkerStep DEF MigrateQueueEnd
  <2> QED
    BY <2>1, IdleTypes DEF MigrateQueueEnd
<1> QED
  BY <1>1, <1>2, <1>3, Frame
     DEF Types, MigrateQueueEnd, blockVars, vectorVars, mapVars, opVars

(* A batch that ends writes its cursor. *)
LEMMA MigrateStopTypes == ASSUME Types, MigrateStop PROVE Types'
<1>1. QuietRows
  BY CursorQuiet DEF Types, WorkerOK, WorkerRec, MigrateStop
<1>2. RowsOK' /\ DOMAIN rows' = DOMAIN rows
  BY <1>1, QuietKeeps DEF Types, QuietRows
<1>3. WorkerOK'
  BY IdleTypes DEF MigrateStop
<1> QED
  BY <1>1, <1>2, <1>3, Frame
     DEF Types, MigrateStop, blockVars, vectorVars, mapVars, opVars

(* An answer is stored, or pauses the migration. *)
LEMMA MigrateStoreTypes == ASSUME Types, MigrateStore PROVE Types'
<1>1. RowsOK /\ worker.id \in DOMAIN rows /\ worker.block \in Blocks
  BY AtWork DEF Types, WorkerOK, MigrateStore
<1>2. RowsOK' /\ DOMAIN rows' = DOMAIN rows
  BY <1>1, MigrateStoreRows, QuietStutter, QuietKeeps, RowStepKeeps DEF QuietRows
<1>3. WorkerOK'
  <2>1. CASE worker' = [worker EXCEPT !.at = "batch", !.cursor = worker.block, !.block = 0,
                                     !.model = NoModel, !.ver = 0]
    <3>1. worker' \in WorkerRec /\ worker'.id = worker.id /\ worker'.at = "batch"
      BY <2>1, ZeroBlock DEF Types, WorkerOK, WorkerRec
    <3> QED
      BY <1>2, <3>1, WorkerStep DEF MigrateStore
  <2> QED
    BY <2>1, IdleTypes DEF MigrateStore
<1>4. VectorsOK'
  BY <1>1 DEF Types, VectorsOK, WorkerOK, WorkerRec, MigrateStore, Columns, Vectors, Vector
<1> QED
  BY <1>1, <1>2, <1>3, <1>4, Frame
     DEF Types, MigrateStore, blockVars, vectorVars, mapVars, opVars

(* A failed embed leaves a memo. *)
LEMMA MigrateWireFailureTypes == ASSUME Types, MigrateWireFailure PROVE Types'
<1>1. QuietRows
  BY AtWork, MemoQuiet DEF Types, WorkerOK, MigrateWireFailure
<1>2. RowsOK' /\ DOMAIN rows' = DOMAIN rows
  BY <1>1, QuietKeeps DEF Types, QuietRows
<1>3. WorkerOK'
  <2>1. CASE worker' = [worker EXCEPT !.at = "batch", !.cursor = worker.block, !.block = 0,
                                     !.model = NoModel, !.ver = 0]
    <3>1. worker' \in WorkerRec /\ worker'.id = worker.id /\ worker'.at = "batch"
      BY <2>1, ZeroBlock DEF Types, WorkerOK, WorkerRec
    <3> QED
      BY <1>2, <3>1, WorkerStep DEF MigrateWireFailure
  <2> QED
    BY <2>1, IdleTypes DEF MigrateWireFailure
<1>4. LeftOK'
  BY SpendType DEF Types, MigrateWireFailure
<1> QED
  BY <1>1, <1>2, <1>3, <1>4, Frame
     DEF Types, MigrateWireFailure, blockVars, vectorVars, mapVars, opVars

(* A memo falls due. *)
LEMMA BackoffElapsesTypes == ASSUME Types, BackoffElapses PROVE Types'
<1>1. QuietRows
  BY MemoQuiet DEF BackoffElapses
<1>2. RowsOK' /\ DOMAIN rows' = DOMAIN rows
  BY <1>1, QuietKeeps DEF Types, QuietRows
<1> QED
  BY <1>1, <1>2, Frame
     DEF Types, BackoffElapses, blockVars, vectorVars, mapVars, opVars

(* The probe decides whether to enter the gate. *)
LEMMA ProbePendingTypes == ASSUME Types, ProbePending PROVE Types'
<1>1. WorkerOK'
  <2>1. CASE worker' = [worker EXCEPT !.at = "enter"]
    <3>1. worker' \in WorkerRec /\ worker'.id = worker.id /\ worker'.at = "enter"
      BY <2>1 DEF Types, WorkerOK, WorkerRec
    <3> QED
      BY <3>1, WorkerStep DEF ProbePending
  <2> QED
    BY <2>1, IdleTypes DEF ProbePending
<1> QED
  BY <1>1, Frame
     DEF Types, ProbePending, blockVars, vectorVars, mapVars, opVars

(* The gate is entered with a watermark of live blocks. *)
LEMMA EnterVerifyingTypes == ASSUME Types, EnterVerifying PROVE Types'
<1>1. RowsOK /\ worker.id \in DOMAIN rows
  BY AtWork DEF Types, EnterVerifying
<1>2. RowsOK' /\ DOMAIN rows' = DOMAIN rows
  BY <1>1, EnterRows, RowStepKeeps, QuietStutter, QuietKeeps DEF QuietRows
<1>3. WorkerOK'
  BY IdleTypes DEF EnterVerifying
<1> QED
  BY <1>1, <1>2, <1>3, Frame
     DEF Types, EnterVerifying, blockVars, vectorVars, mapVars, opVars

(* The run counts, then scans. *)
LEMMA VerifyScanTypes == ASSUME Types, VerifyCompleteness \/ VerifyScanPass PROVE Types'
<1>1. VerifyOK'
  BY AtWork, VerifyRed DEF Types, VerifyOK, VerifyCompleteness, VerifyScanPass
<1> QED
  BY <1>1, Frame
     DEF Types, VerifyCompleteness, VerifyScanPass, blockVars, vectorVars, mapVars, opVars

(* The verdict is written to the row it is about. *)
LEMMA FinishVerifyTypes == ASSUME Types, FinishVerify PROVE Types'
<1>1. RowsOK /\ verify.id \in DOMAIN rows
  BY AtWork DEF Types, FinishVerify
<1>2. RowsOK' /\ DOMAIN rows' = DOMAIN rows
  BY <1>1, FinishRows, RowStepKeeps, QuietStutter, QuietKeeps DEF QuietRows
<1>3. VerifyOK'
  BY IdleTypes DEF FinishVerify
<1> QED
  BY <1>1, <1>2, <1>3, Frame
     DEF Types, FinishVerify, blockVars, vectorVars, mapVars, opVars

(* A failed run leaves no verdict, or a red one. *)
LEMMA VerifyFailsTypes == ASSUME Types, VerifyFails PROVE Types'
<1>1. VerifyOK'
  BY IdleTypes, AtWork DEF Types, VerifyOK, VerifyFails
<1>2. LeftOK'
  BY SpendType DEF Types, VerifyFails
<1> QED
  BY <1>1, <1>2, Frame
     DEF Types, VerifyFails, blockVars, vectorVars, mapVars, opVars

(* A request remembers the row it is about. *)
LEMMA PreflightTypes == ASSUME Types, NEW i \in DOMAIN rows, ConfirmPreflight(i) \/ RollbackPreflight(i) PROVE Types'
<1>1. rows[i] \in Row
  BY DEF Types, RowsOK
<1>2. i \in Nat
  BY DEF Types, RowsOK
<1>3. (modelMap.embed = rows[i].to) \in BOOLEAN
  OBVIOUS
<1>4. CutoverOK'
  <2>1. CASE ConfirmPreflight(i)
    BY <1>1, <1>2, <2>1 DEF CutoverOK, ConfirmPreflight, NoCutover, Row
  <2>2. CASE RollbackPreflight(i)
    <3> DEFINE f == modelMap.embed = rows[i].to
    <3>1. /\ cutover' = [at |-> "swap", op |-> "rollback", id |-> i, wm |-> {}, flip |-> f,
                         swept |-> {}]
          /\ UNCHANGED rows
      BY <2>2 DEF RollbackPreflight, NoCutover
    <3> HIDE DEF f
    <3>2. f \in BOOLEAN
      BY <1>3 DEF f
    <3> QED
      BY <1>2, <3>1, <3>2 DEF CutoverOK
  <2> QED
    BY <2>1, <2>2
<1> QED
  BY <1>1, <1>2, <1>3, <1>4, Frame
     DEF Types, ConfirmPreflight, RollbackPreflight, blockVars, vectorVars, mapVars, opVars

(* The re-check passes or the request ends. *)
LEMMA CutoverMovesTypes == ASSUME Types, ConfirmRecheck \/ CutoverRefused PROVE Types'
<1>1. CutoverOK'
  BY AtWork, IdleTypes DEF Types, CutoverOK, ConfirmRecheck, CutoverRefused
<1> QED
  BY <1>1, Frame
     DEF Types, ConfirmRecheck, CutoverRefused, blockVars, vectorVars, mapVars, opVars

(* The cutover turns the pairs of columns around. *)
LEMMA ConfirmSwapTypes == ASSUME Types, ConfirmSwap PROVE Types'
<1>1. RowsOK /\ cutover.id \in DOMAIN rows /\ rows[cutover.id] \in Row
  BY AtWork DEF Types, RowsOK, ConfirmSwap
<1>2. RowsOK' /\ DOMAIN rows' = DOMAIN rows
  <2>1. rows' = rows \/ \E r : RowStep(cutover.id, r)
    BY <1>1, TransitionStep, ZenonT(30) DEF ConfirmSwap
  <2> QED
    BY <1>1, <2>1, RowStepKeeps, QuietStutter, QuietKeeps DEF QuietRows
<1>3. CutoverOK'
  BY <1>1, <1>2 DEF Types, CutoverOK, ConfirmSwap
<1>4. VectorsOK'
  BY NullType DEF Types, VectorsOK, ConfirmSwap
<1>5. MapsOK'
  BY <1>1 DEF Types, MapsOK, ModelMap, Row, ConfirmSwap
<1> QED
  BY <1>1, <1>2, <1>3, <1>4, <1>5, Frame
     DEF Types, ConfirmSwap, blockVars, vectorVars, mapVars, opVars

(* The rollback turns them back. *)
LEMMA RollbackSwapTypes == ASSUME Types, RollbackSwap PROVE Types'
<1>1. RowsOK /\ cutover.id \in DOMAIN rows /\ rows[cutover.id] \in Row
  BY AtWork DEF Types, RowsOK, RollbackSwap
<1>2. RowsOK' /\ DOMAIN rows' = DOMAIN rows
  <2>1. rows' = rows \/ \E r : RowStep(cutover.id, r)
    BY <1>1, TransitionStep DEF RollbackSwap
  <2> QED
    BY <1>1, <2>1, RowStepKeeps, QuietStutter, QuietKeeps DEF QuietRows
<1>3. CutoverOK'
  BY <1>1, <1>2 DEF Types, CutoverOK, RollbackSwap
<1>4. VectorsOK'
  BY NullType DEF Types, VectorsOK, RollbackSwap
<1>5. MapsOK'
  BY <1>1 DEF Types, MapsOK, ModelMap, Row, RollbackSwap
<1> QED
  BY <1>1, <1>2, <1>3, <1>4, <1>5, Frame
     DEF Types, RollbackSwap, blockVars, vectorVars, mapVars, opVars

(* The pool follows the commit. *)
LEMMA CutoverReloadTypes == ASSUME Types, CutoverReload PROVE Types'
<1>1. CutoverOK'
  BY AtWork DEF Types, CutoverOK, CutoverReload
<1>2. MapsOK'
  BY DEF Types, MapsOK, CutoverReload
<1> QED
  BY <1>1, <1>2, Frame
     DEF Types, CutoverReload, blockVars, vectorVars, mapVars, opVars

(* Past the sweep the request ends, or goes on to the parks of its migration. *)
LEMMA AfterSweepType ==
  ASSUME Types, cutover.at # "idle", cutover' = AfterSweep, UNCHANGED rows
  PROVE  CutoverOK'
  BY AtWork, IdleTypes DEF Types, CutoverOK, AfterSweep

(* The sweep nulls foreign vectors. *)
LEMMA SweepForeignTypes == ASSUME Types, SweepForeign PROVE Types'
<1>1. CutoverOK'
  <2>1. CASE cutover' = AfterSweep
    BY <2>1, AfterSweepType DEF SweepForeign
  <2>2. ASSUME NEW foreign \in SUBSET Blocks,
               cutover' = [cutover EXCEPT !.at = "unpark", !.swept = foreign]
        PROVE  CutoverOK'
    BY <2>2, AtWork DEF Types, CutoverOK, SweepForeign
  <2>3. Has(embedding) \subseteq Blocks
    BY DEF Has, Types, BlocksOK
  <2> QED
    BY <2>1, <2>2, <2>3 DEF SweepForeign
<1>2. VectorsOK'
  BY NullType DEF Types, VectorsOK, Columns, SweepForeign
<1> QED
  BY <1>1, <1>2, Frame
     DEF Types, SweepForeign, blockVars, vectorVars, mapVars, opVars

(* The memos of the swept blocks go. *)
LEMMA SweepMemosTypes == ASSUME Types, SweepMemos PROVE Types'
<1>1. CutoverOK'
  BY AfterSweepType DEF SweepMemos
<1>2. BlocksOK'
  BY DEF Types, BlocksOK, SweepMemos, blockVars
<1> QED
  BY <1>1, <1>2, Frame
     DEF Types, SweepMemos, blockVars, vectorVars, mapVars, opVars

(* The parks of the migration become parks of the backfill. *)
LEMMA CopyInfinityMemosTypes == ASSUME Types, CopyInfinityMemos PROVE Types'
<1>1. CutoverOK'
  BY IdleTypes DEF CopyInfinityMemos
<1>2. BlocksOK'
  BY DEF Types, BlocksOK, CopyInfinityMemos, blockVars
<1> QED
  BY <1>1, <1>2, Frame
     DEF Types, CopyInfinityMemos, blockVars, vectorVars, mapVars, opVars

(* A step after the commit that fails is skipped. *)
LEMMA PostCommitFailsTypes == ASSUME Types, PostCommitFails PROVE Types'
<1>1. CutoverOK'
  <2>1. CASE cutover.at \in {"sweep", "unpark"} /\ cutover' = AfterSweep
    BY <2>1, AfterSweepType DEF PostCommitFails
  <2>2. CASE cutover.at = "reload" /\ cutover' = [cutover EXCEPT !.at = "sweep"]
    BY <2>2, AtWork DEF Types, CutoverOK, PostCommitFails
  <2> QED
    BY <2>1, <2>2, IdleTypes DEF PostCommitFails
<1>2. LeftOK'
  BY SpendType DEF Types, PostCommitFails
<1> QED
  BY <1>1, <1>2, Frame
     DEF Types, PostCommitFails, blockVars, vectorVars, mapVars, opVars

(* The cleanup drops the anchor. *)
LEMMA CleanupTypes == ASSUME Types, CleanupEmbedMigration PROVE Types'
<1>1. VectorsOK'
  BY NullType DEF Types, VectorsOK, CleanupEmbedMigration
<1> QED
  BY <1>1, Frame
     DEF Types, CleanupEmbedMigration, blockVars, vectorVars, mapVars, opVars

(* A block is created. *)
LEMMA NewBlockTypes == ASSUME Types, NEW b \in Later, NewBlock(b) PROVE Types'
<1>1. BlocksOK'
  BY BoundsAssumption DEF Types, BlocksOK, NewBlock
<1>2. LeftOK'
  BY SpendType DEF Types, NewBlock
<1> QED
  BY <1>1, <1>2, Frame
     DEF Types, NewBlock, blockVars, vectorVars, mapVars, opVars

(* A write changes the text and nulls what its path nulls. *)
LEMMA TextTypes == ASSUME Types, NEW b \in Blocks, UpsertBlock(b) \/ UpdateBlock(b) \/ PullUpdateIssueBlock(b) PROVE Types'
<1>1. BlocksOK'
  BY DEF Types, BlocksOK, UpsertBlock, UpdateBlock, PullUpdateIssueBlock, NewText, ClearEmbeddingTx
<1>2. VectorsOK'
  BY NullType DEF Types, VectorsOK, Columns, UpsertBlock, UpdateBlock, PullUpdateIssueBlock, NewText,
         ClearEmbeddingTx
<1>3. LeftOK'
  BY SpendType DEF Types, UpsertBlock, UpdateBlock, PullUpdateIssueBlock, NewText
<1> QED
  BY <1>1, <1>2, <1>3, Frame
     DEF Types, UpsertBlock, UpdateBlock, PullUpdateIssueBlock, NewText, blockVars, vectorVars, mapVars, opVars

(* The clear that follows an update. *)
LEMMA FinishBlockUpdateTypes == ASSUME Types, NEW b \in Blocks, FinishBlockUpdate(b) PROVE Types'
<1>1. BlocksOK'
  BY DEF Types, BlocksOK, FinishBlockUpdate, ClearEmbeddingTx
<1>2. VectorsOK'
  BY NullType DEF Types, VectorsOK, Columns, FinishBlockUpdate, ClearEmbeddingTx
<1> QED
  BY <1>1, <1>2, Frame
     DEF Types, FinishBlockUpdate, blockVars, vectorVars, mapVars, opVars

(* The backfill takes a block without a vector. *)
LEMMA BackfillPickTypes == ASSUME Types, NEW b \in Blocks, NEW locked \in BOOLEAN, BackfillPick(b, locked) PROVE Types'
<1>1. FillOK'
  BY BoundsAssumption DEF Types, FillOK, BlocksOK, MapsOK, ModelMap, BackfillPick, Blocks
<1>2. BlocksOK'
  BY DEF Types, BlocksOK, BackfillPick, blockVars
<1> QED
  BY <1>1, <1>2, Frame
     DEF Types, BackfillPick, blockVars, vectorVars, mapVars, opVars

(* The backfill stores what it embedded. *)
LEMMA BackfillStoreTypes == ASSUME Types, NEW stored \in BOOLEAN, BackfillStore(stored) PROVE Types'
<1>1. FillOK'
  BY IdleTypes DEF BackfillStore
<1>2. VectorsOK'
  BY DEF Types, VectorsOK, FillOK, Columns, Vectors, Vector, BackfillStore
<1> QED
  BY <1>1, <1>2, Frame
     DEF Types, BackfillStore, blockVars, vectorVars, mapVars, opVars

(* A text the backend finds too long is parked. *)
LEMMA BackfillOversizeTypes == ASSUME Types, BackfillOversize PROVE Types'
<1>1. FillOK'
  BY IdleTypes DEF BackfillOversize
<1>2. BlocksOK'
  BY DEF Types, BlocksOK, FillOK, BackfillOversize, blockVars
<1>3. LeftOK'
  BY SpendType DEF Types, BackfillOversize
<1> QED
  BY <1>1, <1>2, <1>3, Frame
     DEF Types, BackfillOversize, blockVars, vectorVars, mapVars, opVars

(* A crash forgets every actor's work. *)
LEMMA CrashTypes == ASSUME Types, Crash PROVE Types'
<1>1. WorkerOK' /\ VerifyOK' /\ CutoverOK' /\ CreateOK' /\ FillOK'
  BY IdleTypes DEF Crash
<1>2. BlocksOK' /\ MapsOK'
  BY DEF Types, BlocksOK, MapsOK, Crash
<1>3. LeftOK'
  BY SpendType DEF Types, Crash
<1> QED
  BY <1>1, <1>2, <1>3, Frame
     DEF Types, Crash, blockVars, vectorVars, mapVars, opVars

(* Before the first migration nothing is at work and nothing is recorded. *)
LEMMA InitTypes == Init => Types
<1> SUFFICES ASSUME Init PROVE Types
  OBVIOUS
<1> USE BoundsAssumption, ModelsAssumption
<1>1. BlocksOK
  BY DEF Init, BlocksOK
<1>2. VectorsOK
  <2>1. Vector(Serving, 0) \in Vectors
    BY DEF Vector, Vectors
  <2> QED
    BY <2>1, NullType DEF Init, VectorsOK, Columns
<1>3. MapsOK
  BY DEF Init, MapsOK, ModelMap
<1>4. RowsOK
  BY DEF Init, RowsOK, SingleActive, Active, Lifecycle!ActiveOf
<1>5. WorkerOK
  BY DEF Init, WorkerOK, WorkerRec, NoWork, Lifecycle!Statuses, Lifecycle!NonTerminal
<1>6. VerifyOK /\ CutoverOK
  BY DEF Init, VerifyOK, CutoverOK, NoVerify, NoCutover
<1>7. CreateOK /\ FillOK
  BY DEF Init, CreateOK, FillOK, NoCreate, NoFill
<1>8. LeftOK
  BY DEF Init, LeftOK
<1> QED
  BY <1>1, <1>2, <1>3, <1>4, <1>5, <1>6, <1>7, <1>8 DEF Types

(* Every step of every actor keeps the types and the single active row. *)
LEMMA NextTypes == Types /\ [Next]_vars => Types'
<1> SUFFICES ASSUME Types, [Next]_vars PROVE Types'
  OBVIOUS
<1>1. CASE Operator
  BY <1>1, OperatorToTypes, PreflightTypes, CreateCheckTypes, CreateProbeTypes, ArmTypes,
     CreateInsertTypes, PurgeTypes, CleanupTypes DEF Operator
<1>2. CASE CutoverStep
  BY <1>2, CutoverMovesTypes, ConfirmSwapTypes, RollbackSwapTypes, CutoverReloadTypes,
     SweepForeignTypes, SweepMemosTypes, CopyInfinityMemosTypes, PostCommitFailsTypes
     DEF CutoverStep
<1>3. CASE ArmStep
  BY <1>3, CycleStartTypes, MigratePickTypes, MigrateQueueEndTypes, MigrateStopTypes,
     MigrateStoreTypes, MigrateWireFailureTypes, ProbePendingTypes, EnterVerifyingTypes
     DEF ArmStep
<1>4. CASE VerifyStep
  BY <1>4, VerifyScanTypes, FinishVerifyTypes, VerifyFailsTypes DEF VerifyStep
<1>5. CASE Writer
  BY <1>5, NewBlockTypes, TextTypes, FinishBlockUpdateTypes, BackfillPickTypes,
     BackfillStoreTypes, BackfillOversizeTypes DEF Writer
<1>6. CASE Reload \/ BackoffElapses \/ Crash
  BY <1>6, ReloadTypes, BackoffElapsesTypes, CrashTypes
<1>7. CASE UNCHANGED vars
  BY <1>7, Frame DEF Types, vars, blockVars, vectorVars, mapVars, opVars
<1> QED
  BY <1>1, <1>2, <1>3, <1>4, <1>5, <1>6, <1>7 DEF Next

(* The parts are an invariant. *)
LEMMA TypesInvariant == Spec => []Types
  BY InitTypes, NextTypes, PTL DEF Spec

(* They give the type invariant, the single-active index as a count included. *)
LEMMA TypesGiveTypeOK == Types => TypeOK
<1> SUFFICES ASSUME Types PROVE TypeOK
  OBVIOUS
<1>1. rows \in Seq(Row) /\ DOMAIN rows = 1..Len(rows) /\ Len(rows) \in Nat
  BY DEF Types, RowsOK
<1>2. Cardinality(Active) <= 1
  <2>1. CASE Active = {}
    BY <2>1, FS_EmptySet
  <2>2. CASE Active # {}
    <3>1. PICK i \in Active : TRUE
      BY <2>2
    <3>2. Active = {i}
      BY <3>1 DEF Types, RowsOK, SingleActive
    <3>3. Cardinality({i}) = 1
      BY FS_Singleton
    <3>4. Cardinality(Active) = 1
      BY <3>2, <3>3, Zenon
    <3> QED
      BY <3>4
  <2> QED
    BY <2>1, <2>2
<1>3. worker.at \in {"idle", "batch", "wire", "probe", "enter"} /\ worker.id \in Ids
  BY <1>1 DEF Types, WorkerOK, WorkerRec, NoWork, Ids
<1>4. verify.at \in {"idle", "count", "scan", "verdict"} /\ verify.id \in Ids
  BY <1>1 DEF Types, VerifyOK, NoVerify, Ids
<1>5. /\ cutover.at \in {"idle", "check", "swap", "reload", "sweep", "unpark", "memos"}
      /\ cutover.id \in Ids
  BY <1>1 DEF Types, CutoverOK, NoCutover, Ids
<1>6. creating.at \in {"idle", "probe", "insert"} /\ backfill.block \in 0..NBlocks
  BY DEF Types, CreateOK, FillOK
<1> QED
  BY <1>1, <1>2, <1>3, <1>4, <1>5, <1>6 DEF TypeOK, Types, BlocksOK, VectorsOK, MapsOK

(* At most one migration is ever active, whatever Create, resume, the arm, the
   verify run and a rollback overlap, and every column and row has its type. *)
THEOREM MigrationTypeCorrect == Spec => []TypeOK
  BY TypesInvariant, TypesGiveTypeOK, PTL

-----------------------------------------------------------------------------
(* The refinement of MigrationLifecycle. *)

(* A migration as its operator sees it. *)
Brief(row) == [status |-> row.status, from |-> row.from, to |-> row.to]
Hist(rs) == [i \in DOMAIN rs |-> Brief(rs[i])]

(* A step that is quiet on the rows and leaves the maps and the anchor alone
   stutters. *)
LEMMA QuietStutters ==
  ASSUME Types, QuietRows, modelMap'.embed = modelMap.embed, anchor'.kept = anchor.kept
  PROVE  UNCHANGED Lifecycle!vars
  BY DEF QuietRows, Lifecycle!vars

(* A row step changes one entry of the abstract history. *)
LEMMA RowStepHistory ==
  ASSUME RowsOK, NEW i, NEW r, RowStep(i, r)
  PROVE  Hist(rows)' = [Hist(rows) EXCEPT ![i].status = r.status]
<1>1. /\ rows \in Seq(Row) /\ i \in DOMAIN rows /\ DOMAIN rows' = DOMAIN rows
      /\ \A j \in DOMAIN rows : rows'[j] = IF j = i THEN r ELSE rows[j]
  BY RowStepKeeps DEF RowsOK, RowStep
<1>2. r.from = rows[i].from /\ r.to = rows[i].to
  BY DEF RowStep
<1> QED
  BY <1>1, <1>2 DEF Hist, Brief

(* Pausing, resuming, aborting and entering the gate are moves of the abstract
   machine; a row step that keeps the status stutters. *)
LEMMA RowStepMoves ==
  ASSUME Types, NEW i, NEW r, RowStep(i, r), r.status \notin {"done", "rolled_back"},
         modelMap'.embed = modelMap.embed, anchor'.kept = anchor.kept
  PROVE  [Lifecycle!Next]_(Lifecycle!vars)
<1>1. Hist(rows)' = [Hist(rows) EXCEPT ![i].status = r.status]
  BY RowStepHistory DEF Types
<1>2. i \in DOMAIN rows /\ rows \in Seq(Row) /\ rows[i] \in Row
  BY DEF Types, RowsOK, RowStep
<1>3. CASE r.status = rows[i].status
  <2>1. Hist(rows)' = Hist(rows)
    BY <1>2, <1>3, RowStepKeeps DEF Hist, Brief, Types, RowStep
  <2> QED
    BY <2>1 DEF Hist, Brief, Lifecycle!vars
<1>4. CASE Lifecycle!IsAllowedTransition(rows[i].status, r.status)
  <2>1. r.status \in Lifecycle!NonTerminal \cup {"aborted"}
    BY <1>2 DEF RowStep, Row, Lifecycle!Statuses
  <2>2. Lifecycle!Move(i)
    BY <1>1, <1>2, <1>4, <2>1 DEF Hist, Brief, Lifecycle!Move, Lifecycle!To
  <2> QED
    BY <1>2, <2>2 DEF Lifecycle!Next
<1> QED
  BY <1>3, <1>4 DEF RowStep

(* CreateInsert begins a migration, and only while none is active. *)
LEMMA InsertBegins ==
  ASSUME Types, CreateInsert
  PROVE  [Lifecycle!Next]_(Lifecycle!vars)
<1>1. creating.from \in Models /\ creating.to \in Models /\ RowsOK /\ rows \in Seq(Row)
  BY DEF Types, RowsOK, CreateOK, CreateInsert
<1>2. UNCHANGED <<modelMap, anchor>>
  BY DEF CreateInsert, mapVars, vectorVars
<1>3. CASE rows' = rows
  BY <1>1, <1>2, <1>3, QuietStutter, QuietStutters
<1>4. CASE Active = {} /\ NewRow \in Row /\ rows' = Append(rows, NewRow)
  <2>1. /\ Len(rows') = Len(rows) + 1 /\ rows' \in Seq(Row) /\ Len(rows) \in Nat
        /\ rows'[Len(rows) + 1] = NewRow
        /\ \A j \in 1..Len(rows) : rows'[j] = rows[j]
    BY <1>1, <1>4, AppendProperties
  <2>2. /\ Hist(rows) \in Seq([status : Lifecycle!Statuses, from : Models, to : Models])
        /\ Len(Hist(rows)) = Len(rows)
    <3>1. \A j \in 1..Len(rows) :
             Brief(rows[j]) \in [status : Lifecycle!Statuses, from : Models, to : Models]
      <4>1. \A row \in Row : Brief(row) \in [status : Lifecycle!Statuses, from : Models, to : Models]
        BY DEF Brief, Row
      <4> QED
        BY <1>1, <4>1
    <3>2. Hist(rows) = [j \in 1..Len(rows) |-> Brief(rows[j])] /\ Len(rows) \in Nat
      BY <1>1 DEF Hist
    <3> QED
      BY <3>1, <3>2
  <2>3. Hist(rows)' = Append(Hist(rows), Brief(NewRow))
    BY <1>1, <2>1, <2>2 DEF Hist
  <2>4. Brief(NewRow) = [status |-> "pending", from |-> creating.from, to |-> creating.to]
    BY DEF Brief, NewRow
  <2>5. Lifecycle!ActiveOf(Hist(rows)) = {}
    BY <1>4 DEF Active, Lifecycle!ActiveOf, Hist, Brief
  <2>6. Lifecycle!Begin
    BY <1>1, <1>2, <2>3, <2>4, <2>5 DEF Lifecycle!Begin, Hist, Brief
  <2> QED
    BY <2>6 DEF Lifecycle!Next
<1> QED
  BY <1>1, <1>3, <1>4, InsertRows

(* The cutover: status, serving space and anchor in one step. *)
LEMMA SwapCutsOver == ASSUME Types, ConfirmSwap PROVE Lifecycle!Next
<1>0. PICK i : i = cutover.id
  OBVIOUS
<1> DEFINE r == [rows[i] EXCEPT !.status = "done"]
<1>1. i \in DOMAIN rows /\ rows[i] \in Row /\ RowsOK /\ rows[i].status = "verifying"
  BY <1>0, AtWork DEF Types, RowsOK, ConfirmSwap
<1>2. Lifecycle!IsAllowedTransition("verifying", "done")
  BY DEF Lifecycle!IsAllowedTransition, Lifecycle!Edges, Lifecycle!Statuses, Lifecycle!NonTerminal
<1>3. RowStep(i, r) /\ r.status = "done"
  <2>1. rows' = [rows EXCEPT ![i] = r]
    BY <1>0, <1>1, <1>2 DEF ConfirmSwap, Transition
  <2>2. /\ r \in Row /\ r.status = "done" /\ r.from = rows[i].from /\ r.to = rows[i].to
    BY <1>1 DEF Row, Lifecycle!Statuses
  <2> HIDE DEF r
  <2> QED
    BY <1>1, <1>2, <2>1, <2>2 DEF RowStep
<1>4. Hist(rows)' = [Hist(rows) EXCEPT ![i].status = "done"]
  BY <1>1, <1>3, RowStepHistory
<1>5. ~anchor.kept /\ anchor'.kept = TRUE /\ modelMap'.embed = rows[i].to
  BY <1>0 DEF ConfirmSwap
<1> HIDE DEF r
<1>6. Lifecycle!Cutover(i)
  BY <1>1, <1>2, <1>4, <1>5 DEF Hist, Brief, Lifecycle!Cutover, Lifecycle!To
<1> QED
  BY <1>1, <1>6 DEF Lifecycle!Next

(* The rollback of the last cutover takes the anchor back and the space with it;
   of an older one it is the step the refinement leaves out. *)
LEMMA SwapRollsBack ==
  ASSUME Types, Spaces, RollbackSwap
  PROVE  Lifecycle!Next \/ (RollingBack /\ FollowedUp(cutover.id))
<1>0. PICK i : i = cutover.id
  OBVIOUS
<1> DEFINE r == [rows[i] EXCEPT !.status = "rolled_back"]
<1>1. i \in DOMAIN rows /\ rows[i] \in Row /\ RowsOK /\ rows[i].status = "done"
  BY <1>0, AtWork DEF Types, RowsOK, RollbackSwap
<1>2. Lifecycle!IsAllowedTransition("done", "rolled_back")
  BY DEF Lifecycle!IsAllowedTransition, Lifecycle!Edges, Lifecycle!Statuses, Lifecycle!NonTerminal
<1>3. RowStep(i, r) /\ r.status = "rolled_back"
  <2>1. rows' = [rows EXCEPT ![i] = r]
    BY <1>0, <1>1, <1>2 DEF RollbackSwap, Transition
  <2>2. /\ r \in Row /\ r.status = "rolled_back" /\ r.from = rows[i].from /\ r.to = rows[i].to
    BY <1>1 DEF Row, Lifecycle!Statuses
  <2> HIDE DEF r
  <2> QED
    BY <1>1, <1>2, <2>1, <2>2 DEF RowStep
<1>4. Hist(rows)' = [Hist(rows) EXCEPT ![i].status = "rolled_back"]
  BY <1>1, <1>3, RowStepHistory
<1>5. anchor.kept /\ anchor'.kept = FALSE
  BY DEF RollbackSwap
<1> HIDE DEF r
<1>6. CASE FollowedUp(i)
  <2>1. RollingBack
    BY DEF RollingBack, RollbackSwap, Types, CutoverOK
  <2> QED
    BY <1>0, <1>6, <2>1
<1>7. CASE ~FollowedUp(i)
  <2>1. cutover.flip
    BY <1>0, <1>1, <1>5, <1>7 DEF Spaces, AnchorSpace, FlipExact, RollbackSwap
  <2>2. modelMap'.embed = rows[i].from
    BY <1>0, <2>1 DEF RollbackSwap
  <2>3. \A j \in DOMAIN rows : j > i => rows[j].status # "done"
    BY <1>7 DEF FollowedUp
  <2>4. Lifecycle!Rollback(i)
    BY <1>1, <1>2, <1>4, <1>5, <2>2, <2>3
       DEF Hist, Brief, Lifecycle!Rollback, Lifecycle!LastCutover, Lifecycle!To
  <2> QED
    BY <1>1, <2>4 DEF Lifecycle!Next
<1> QED
  BY <1>6, <1>7

(* What a step of the remaining actions does to the rows: nothing the operator
   sees, or one migration moves, and to no end but an abort. *)
Moves ==
    /\ modelMap'.embed = modelMap.embed /\ anchor'.kept = anchor.kept
    /\ \/ QuietRows
       \/ \E i, r : RowStep(i, r) /\ r.status \notin {"done", "rolled_back"}

(* All but four actions are of that kind. *)
LEMMA NextMoves ==
  ASSUME Types, [Next]_vars
  PROVE  Moves \/ CreateInsert \/ ConfirmSwap \/ RollbackSwap \/ CleanupEmbedMigration
<1>0. RowsOK
  BY DEF Types
<1> DEFINE Still == modelMap'.embed = modelMap.embed /\ anchor'.kept = anchor.kept
<1>1. ASSUME rows' = rows, Still PROVE Moves
  BY <1>0, <1>1, QuietStutter DEF Moves
<1>2. CASE MigratePick \/ MigrateQueueEnd \/ MigrateStop \/ MigrateWireFailure \/ BackoffElapses
  <2>1. QuietRows
    BY <1>2, MigratePickRows, CursorQuiet, MemoQuiet, AtWork, ZeroBlock
       DEF MigrateQueueEnd, MigrateStop, MigrateWireFailure, BackoffElapses, Types, WorkerOK,
           WorkerRec
  <2>2. Still
    BY <1>2 DEF MigratePick, MigrateQueueEnd, MigrateStop, MigrateWireFailure, BackoffElapses,
       mapVars, vectorVars
  <2> QED
    BY <2>1, <2>2 DEF Moves
<1>3. ASSUME NEW i \in DOMAIN rows, NEW s \in {"paused", "running", "aborted"}, OperatorTo(i, s)
      PROVE  Moves
  <2>1. rows[i] \in Row
    BY <1>0 DEF RowsOK
  <2>2. [rows[i] EXCEPT !.status = s].status = s
    BY <2>1 DEF Row
  <2>3. rows' = rows \/ RowStep(i, [rows[i] EXCEPT !.status = s])
    BY <1>0, <1>3, <2>1, TransitionStep DEF OperatorTo
  <2>4. Still
    BY <1>3 DEF OperatorTo, mapVars, vectorVars
  <2> QED
    BY <1>0, <2>2, <2>3, <2>4, QuietStutter DEF Moves
<1>4. CASE CycleStart
  <2>1. PICK i \in Active : CycleOf(i)
    BY <1>4, CycleStartOf
  <2>2. i \in DOMAIN rows /\ rows[i] \in Row
    BY <1>0 DEF RowsOK, Active, Lifecycle!ActiveOf
  <2>3. [rows[i] EXCEPT !.status = "paused"].status = "paused"
    BY <2>2 DEF Row
  <2>4. rows' = rows \/ RowStep(i, [rows[i] EXCEPT !.status = "paused"])
    BY <1>0, <2>1, <2>2, TransitionStep DEF CycleOf
  <2>5. Still
    BY <1>4 DEF CycleStart, mapVars, vectorVars
  <2> QED
    BY <1>0, <2>3, <2>4, <2>5, QuietStutter DEF Moves
<1>5. CASE MigrateStore
  <2>1. Still
    BY <1>5 DEF MigrateStore, mapVars
  <2>2. ASSUME NEW r, RowStep(worker.id, r), r.status \in {rows[worker.id].status, "paused"},
               r.wm = rows[worker.id].wm, r.report = rows[worker.id].report
        PROVE  Moves
    <3>1. CASE r.status = rows[worker.id].status
      BY <1>0, <2>1, <2>2, <3>1, QuietStep DEF Moves
    <3>2. CASE r.status = "paused"
      BY <2>1, <2>2, <3>2 DEF Moves
    <3> QED
      BY <2>2, <3>1, <3>2
  <2> QED
    BY <1>0, <1>5, <2>1, <2>2, MigrateStoreRows, QuietStutter DEF Moves
<1>6. CASE EnterVerifying
  <2>1. Still
    BY <1>6 DEF EnterVerifying, mapVars, vectorVars
  <2> QED
    BY <1>0, <1>6, <2>1, EnterRows, QuietStutter DEF Moves
<1>7. CASE FinishVerify
  <2>1. Still
    BY <1>7 DEF FinishVerify, mapVars, vectorVars
  <2> QED
    BY <1>0, <1>7, <2>1, FinishRows, QuietStutter DEF Moves
<1>8. CASE CreateProbe \/ PurgeStart \/ PurgeBatch \/ Reload \/ Crash \/ UNCHANGED vars
  BY <1>1, <1>8 DEF CreateProbe, PurgeStart, PurgeBatch, Reload, Crash, vars, mapVars, vectorVars
<1>9. ASSUME NEW m, NEW reuse, Arm(m) \/ CreateCheck(m, reuse)
      PROVE  Moves
  BY <1>1, <1>9 DEF Arm, CreateCheck, mapVars, vectorVars, Types, MapsOK, ModelMap
<1>10. CASE ProbePending \/ VerifyCompleteness \/ VerifyScanPass \/ VerifyFails
  BY <1>1, <1>10 DEF ProbePending, VerifyCompleteness, VerifyScanPass, VerifyFails, mapVars,
     vectorVars
<1>11. ASSUME NEW i, ConfirmPreflight(i) \/ RollbackPreflight(i)
       PROVE  Moves
  BY <1>1, <1>11 DEF ConfirmPreflight, RollbackPreflight, mapVars, vectorVars
<1>12. CASE ConfirmRecheck \/ CutoverRefused \/ CutoverReload \/ SweepForeign \/ SweepMemos
            \/ CopyInfinityMemos \/ PostCommitFails
  BY <1>1, <1>12 DEF ConfirmRecheck, CutoverRefused, CutoverReload, SweepForeign, SweepMemos,
     CopyInfinityMemos, PostCommitFails, mapVars, vectorVars
<1>13. CASE Writer
  BY <1>1, <1>13 DEF Writer, NewBlock, UpsertBlock, UpdateBlock, FinishBlockUpdate,
     PullUpdateIssueBlock, NewText, BackfillPick, BackfillStore, BackfillOversize, mapVars,
     vectorVars
<1> QED
  BY <1>2, <1>3, <1>4, <1>5, <1>6, <1>7, <1>8, <1>9, <1>10, <1>11, <1>12, <1>13
     DEF Next, Operator, CutoverStep, ArmStep, VerifyStep

(* A rollback request keeps its migration and what its preflight read. *)
FlipKept ==
    cutover'.at \in {"check", "swap"} /\ cutover'.op = "rollback" =>
      \/ /\ cutover.at \in {"check", "swap"} /\ cutover.op = "rollback"
         /\ cutover'.id = cutover.id /\ cutover'.flip = cutover.flip
      \/ \E i \in DOMAIN rows : RollbackPreflight(i)

(* Only its own steps touch it. *)
LEMMA NextFlip == ASSUME Types, [Next]_vars PROVE FlipKept
<1>1. CASE cutover' = cutover
  BY <1>1 DEF FlipKept
<1>2. CASE cutover'.at \notin {"check", "swap"}
  BY <1>2 DEF FlipKept
<1>3. CASE Operator
  <2>1. ASSUME NEW i \in DOMAIN rows, ConfirmPreflight(i) PROVE FlipKept
    BY <2>1 DEF ConfirmPreflight, NoCutover, FlipKept
  <2>2. ASSUME NEW i \in DOMAIN rows, RollbackPreflight(i) PROVE FlipKept
    BY <2>2 DEF FlipKept
  <2> QED
    BY <1>1, <1>3, <2>1, <2>2 DEF Operator, OperatorTo, CreateCheck, Arm, CreateProbe,
       CreateInsert, PurgeStart, PurgeBatch, CleanupEmbedMigration, opVars
<1>4. CASE CutoverStep
  <2>1. CASE ConfirmRecheck
    BY <2>1 DEF ConfirmRecheck, Types, CutoverOK, FlipKept
  <2>2. CASE AfterSweep = cutover'
    BY <2>2 DEF AfterSweep, NoCutover, Types, CutoverOK, FlipKept
  <2>3. CASE CutoverRefused \/ CopyInfinityMemos
    BY <2>3, <1>2 DEF CutoverRefused, CopyInfinityMemos, NoCutover
  <2>4. CASE ConfirmSwap \/ RollbackSwap \/ CutoverReload
    BY <2>4, <1>2 DEF ConfirmSwap, RollbackSwap, CutoverReload, Types, CutoverOK
  <2>5. CASE SweepForeign
    BY <1>2, <2>2, <2>5 DEF SweepForeign, Types, CutoverOK
  <2>6. CASE SweepMemos
    BY <2>2, <2>6 DEF SweepMemos
  <2>7. CASE PostCommitFails
    BY <1>2, <2>2, <2>7 DEF PostCommitFails, NoCutover, Types, CutoverOK
  <2> QED
    BY <1>4, <2>1, <2>3, <2>4, <2>5, <2>6, <2>7 DEF CutoverStep
<1>5. CASE ArmStep
  BY <1>1, <1>5 DEF ArmStep, CycleStart, MigratePick, MigrateQueueEnd, MigrateStop, MigrateStore,
     MigrateWireFailure, ProbePending, EnterVerifying, opVars
<1>6. CASE VerifyStep
  BY <1>1, <1>6 DEF VerifyStep, VerifyCompleteness, VerifyScanPass, FinishVerify, VerifyFails,
     opVars
<1>7. CASE Writer
  BY <1>1, <1>7 DEF Writer, NewBlock, UpsertBlock, UpdateBlock, FinishBlockUpdate,
     PullUpdateIssueBlock, NewText, BackfillPick, BackfillStore, BackfillOversize, opVars
<1>8. CASE Reload \/ BackoffElapses \/ Crash \/ UNCHANGED vars
  BY <1>1, <1>2, <1>8 DEF Reload, BackoffElapses, Crash, NoCutover, vars, opVars
<1> QED
  BY <1>3, <1>4, <1>5, <1>6, <1>7, <1>8 DEF Next

(* No migration comes to its cutover or goes back on it. *)
DoneKept ==
    /\ rows \in Seq(Row) /\ DOMAIN rows \subseteq DOMAIN rows'
    /\ \A j \in DOMAIN rows :
          /\ rows'[j].to = rows[j].to
          /\ rows'[j].status = "done" <=> rows[j].status = "done"
    /\ \A j \in DOMAIN rows' \ DOMAIN rows : rows'[j].status # "done"

(* Moves are of that kind: from done only a rollback leads on. *)
LEMMA MovesKeepDone == ASSUME Types, ActiveLast, Moves PROVE DoneKept /\ ActiveLast'
<1>0. RowsOK /\ rows \in Seq(Row)
  BY DEF Types, RowsOK
<1>1. CASE QuietRows
  <2>1. Active' = Active /\ Len(rows') = Len(rows)
    BY <1>0, <1>1, QuietKeeps DEF QuietRows
  <2> QED
    BY <1>0, <1>1, <2>1 DEF DoneKept, QuietRows, ActiveLast
<1>2. ASSUME NEW i, NEW r, RowStep(i, r), r.status \notin {"done", "rolled_back"}
      PROVE  DoneKept /\ ActiveLast'
  <2>1. /\ Len(rows') = Len(rows) /\ DOMAIN rows' = DOMAIN rows /\ Active' \subseteq Active
        /\ \A j \in DOMAIN rows : rows'[j] = IF j = i THEN r ELSE rows[j]
    BY <1>0, <1>2, RowStepKeeps
  <2>2. rows[i].status # "done"
    BY <1>2 DEF RowStep, Lifecycle!IsAllowedTransition, Lifecycle!Edges, Lifecycle!Statuses,
       Lifecycle!NonTerminal
  <2>3. DoneKept
    BY <1>0, <1>2, <2>1, <2>2 DEF DoneKept, RowStep
  <2> QED
    BY <2>1, <2>3 DEF ActiveLast
<1> QED
  BY <1>1, <1>2 DEF Moves

(* So is the INSERT, and the row it adds is the newest. *)
LEMMA InsertKeepsDone == ASSUME Types, ActiveLast, CreateInsert PROVE DoneKept /\ ActiveLast'
<1>0. RowsOK /\ rows \in Seq(Row) /\ creating.from \in Models /\ creating.to \in Models
  BY DEF Types, RowsOK, CreateOK, CreateInsert
<1>1. CASE rows' = rows
  BY <1>0, <1>1 DEF DoneKept, ActiveLast, Active, Lifecycle!ActiveOf
<1>2. CASE Active = {} /\ NewRow \in Row /\ rows' = Append(rows, NewRow)
  <2>1. /\ Len(rows') = Len(rows) + 1 /\ rows' \in Seq(Row) /\ Len(rows) \in Nat
        /\ rows'[Len(rows) + 1] = NewRow
        /\ \A j \in 1..Len(rows) : rows'[j] = rows[j]
    BY <1>0, <1>2, AppendProperties
  <2>2. DOMAIN rows = 1..Len(rows) /\ DOMAIN rows' = 1..(Len(rows) + 1)
    BY <1>0, <2>1
  <2>3. NewRow.status # "done"
    BY DEF NewRow
  <2>4. DoneKept
    BY <1>0, <2>1, <2>2, <2>3 DEF DoneKept
  <2>5. ActiveLast'
    BY <1>2, <2>1, <2>2 DEF ActiveLast, Active, Lifecycle!ActiveOf
  <2> QED
    BY <2>4, <2>5
<1> QED
  BY <1>0, <1>1, <1>2, InsertRows

(* Where no cutover, rollback or cleanup happens, the space stays the right one. *)
LEMMA AnchorSpaceKept ==
  ASSUME AnchorSpace, DoneKept, modelMap'.embed = modelMap.embed, anchor'.kept = anchor.kept
  PROVE  AnchorSpace'
<1> SUFFICES ASSUME anchor'.kept, NEW i \in DOMAIN rows', rows'[i].status = "done", ~FollowedUp(i)'
             PROVE  modelMap'.embed = rows'[i].to
  BY DEF AnchorSpace
<1>1. i \in DOMAIN rows /\ rows[i].status = "done" /\ rows'[i].to = rows[i].to
  BY DEF DoneKept
<1>2. ~FollowedUp(i)
  BY DEF FollowedUp, DoneKept
<1> QED
  BY <1>1, <1>2 DEF AnchorSpace

(* Nor does what a rollback read become stale. *)
LEMMA FlipExactKept ==
  ASSUME Types, FlipExact, FlipKept, modelMap'.embed = modelMap.embed,
         \A j \in DOMAIN rows : rows'[j].to = rows[j].to
  PROVE  FlipExact'
<1> SUFFICES ASSUME cutover'.at \in {"check", "swap"}, cutover'.op = "rollback"
             PROVE  cutover'.flip <=> modelMap'.embed = rows'[cutover'.id].to
  BY DEF FlipExact
<1>1. CASE /\ cutover.at \in {"check", "swap"} /\ cutover.op = "rollback"
           /\ cutover'.id = cutover.id /\ cutover'.flip = cutover.flip
  <2>1. cutover.id \in DOMAIN rows
    BY <1>1, AtWork
  <2> QED
    BY <1>1, <2>1 DEF FlipExact
<1>2. ASSUME NEW i \in DOMAIN rows, RollbackPreflight(i)
      PROVE  cutover'.flip <=> modelMap'.embed = rows'[cutover'.id].to
  <2>1. cutover'.id = i /\ cutover'.flip = (modelMap.embed = rows[i].to)
    BY <1>2 DEF RollbackPreflight, NoCutover
  <2> QED
    BY <2>1
<1> QED
  BY <1>1, <1>2 DEF FlipKept

(* The cutover of the active migration, the newest, makes it the last one. *)
LEMMA ConfirmSwapSpaces == ASSUME Types, Spaces, ConfirmSwap PROVE Spaces'
<1>0. PICK i : i = cutover.id
  OBVIOUS
<1> DEFINE r == [rows[i] EXCEPT !.status = "done"]
<1>1. i \in DOMAIN rows /\ rows[i] \in Row /\ RowsOK /\ rows[i].status = "verifying"
  BY <1>0, AtWork DEF Types, RowsOK, ConfirmSwap
<1>2. i = Len(rows) /\ DOMAIN rows = 1..Len(rows) /\ Len(rows) \in Nat
  BY <1>1 DEF Spaces, ActiveLast, Active, Lifecycle!ActiveOf, Lifecycle!NonTerminal, RowsOK
<1>3. rows' = rows \/ RowStep(i, r)
  BY <1>0, <1>1, TransitionStep DEF ConfirmSwap
<1>4. r.status = "done" /\ r.to = rows[i].to
  BY <1>1 DEF Row
<1>5. modelMap'.embed = rows[i].to /\ cutover'.at = "reload"
  BY <1>0 DEF ConfirmSwap, Types, CutoverOK
<1> HIDE DEF r
<1>6. /\ DOMAIN rows' = DOMAIN rows /\ Len(rows') = Len(rows) /\ Active' \subseteq Active
      /\ rows'[i].to = rows[i].to
  BY <1>1, <1>3, <1>4, RowStepKeeps, QuietStutter, QuietKeeps DEF QuietRows
<1>7. ActiveLast'
  BY <1>6 DEF Spaces, ActiveLast
<1>8. AnchorSpace'
  <2> SUFFICES ASSUME NEW j \in DOMAIN rows', rows'[j].status = "done", ~FollowedUp(j)'
               PROVE  modelMap'.embed = rows'[j].to
    BY DEF AnchorSpace
  <2>1. rows'[i].status = "done"
    BY <1>0, <1>1 DEF ConfirmSwap, Transition, Lifecycle!IsAllowedTransition, Lifecycle!Edges,
       Lifecycle!Statuses, Lifecycle!NonTerminal, RowsOK, Row
  <2>2. j = i
    BY <1>1, <1>2, <1>6, <2>1 DEF FollowedUp
  <2> QED
    BY <1>5, <1>6, <2>2
<1>9. FlipExact'
  BY <1>5 DEF FlipExact
<1> QED
  BY <1>7, <1>8, <1>9 DEF Spaces

(* Rollback and cleanup give up the anchor. *)
LEMMA AnchorGoneSpaces ==
  ASSUME Types, Spaces, RollbackSwap \/ CleanupEmbedMigration
  PROVE  Spaces'
<1>1. ~anchor'.kept
  BY DEF RollbackSwap, CleanupEmbedMigration
<1>2. CASE RollbackSwap
  <2>1. RowsOK /\ cutover.id \in DOMAIN rows /\ rows[cutover.id] \in Row
    BY <1>2, AtWork DEF Types, RowsOK, RollbackSwap
  <2>2. rows' = rows \/ \E r : RowStep(cutover.id, r)
    BY <1>2, <2>1, TransitionStep DEF RollbackSwap
  <2>3. Active' \subseteq Active /\ Len(rows') = Len(rows)
    BY <2>1, <2>2, RowStepKeeps, QuietStutter, QuietKeeps DEF QuietRows
  <2>4. cutover'.at = "reload"
    BY <1>2 DEF RollbackSwap, Types, CutoverOK
  <2> QED
    BY <1>1, <2>3, <2>4 DEF Spaces, ActiveLast, AnchorSpace, FlipExact
<1>3. CASE CleanupEmbedMigration
  <2>1. UNCHANGED <<rows, modelMap, cutover>>
    BY <1>3 DEF CleanupEmbedMigration, mapVars, opVars
  <2> QED
    BY <1>1, <2>1 DEF Spaces, ActiveLast, Active, Lifecycle!ActiveOf, AnchorSpace, FlipExact
<1> QED
  BY <1>2, <1>3

(* Every step of every actor keeps what a rollback relies on. *)
LEMMA NextSpaces == Types /\ Spaces /\ [Next]_vars => Spaces'
<1> SUFFICES ASSUME Types, Spaces, [Next]_vars PROVE Spaces'
  OBVIOUS
<1>1. CASE Moves \/ CreateInsert
  <2>1. DoneKept /\ ActiveLast'
    BY <1>1, MovesKeepDone, InsertKeepsDone DEF Spaces
  <2>2. modelMap'.embed = modelMap.embed /\ anchor'.kept = anchor.kept
    BY <1>1 DEF Moves, CreateInsert, mapVars, vectorVars
  <2>3. AnchorSpace'
    BY <2>1, <2>2, AnchorSpaceKept DEF Spaces
  <2>4. FlipExact'
    BY <2>1, <2>2, NextFlip, FlipExactKept DEF Spaces, DoneKept
  <2> QED
    BY <2>1, <2>3, <2>4 DEF Spaces
<1> QED
  BY <1>1, NextMoves, ConfirmSwapSpaces, AnchorGoneSpaces

(* Before the first migration there is nothing to roll back. *)
LEMMA InitSpaces == Init => Spaces
  BY DEF Init, Spaces, ActiveLast, AnchorSpace, FlipExact, Active, Lifecycle!ActiveOf, NoCutover

(* Every step of the detailed machine is a step of the abstract one or none, or
   the rollback of a migration that was followed up. *)
LEMMA NextRefines ==
  Types /\ Spaces /\ [Next]_vars =>
    [Lifecycle!Next \/ (RollingBack /\ FollowedUp(cutover.id))]_(Lifecycle!vars)
<1> SUFFICES ASSUME Types, Spaces, [Next]_vars
             PROVE  [Lifecycle!Next \/ (RollingBack /\ FollowedUp(cutover.id))]_(Lifecycle!vars)
  OBVIOUS
<1>1. CASE Moves
  BY <1>1, QuietStutters, RowStepMoves DEF Moves
<1>2. CASE CreateInsert
  BY <1>2, InsertBegins
<1>3. CASE ConfirmSwap \/ RollbackSwap
  BY <1>3, SwapCutsOver, SwapRollsBack
<1>4. CASE CleanupEmbedMigration
  <2>1. Lifecycle!Cleanup
    BY <1>4 DEF CleanupEmbedMigration, mapVars, Lifecycle!Cleanup
  <2> QED
    BY <2>1 DEF Lifecycle!Next
<1> QED
  BY <1>1, <1>2, <1>3, <1>4, NextMoves

(* The detailed machine implements the promise to the operator: one active
   migration, only along the edges of allowedTransitions, the serving space and
   the anchor change in the very step of a cutover, rollback or cleanup, and a
   rollback of the last cutover returns to the space that cutover left. *)
THEOREM LifecycleRefined == Spec => LifecycleKept
<1>1. Init => Lifecycle!Init
  BY ModelsAssumption DEF Init, Lifecycle!Init
<1>2. Spec => [](Types /\ Spaces)
  BY InitTypes, InitSpaces, NextTypes, NextSpaces, PTL DEF Spec
<1> QED
  BY <1>1, <1>2, NextRefines, PTL DEF Spec, LifecycleKept

-----------------------------------------------------------------------------
(* What a cutover installs. *)

(* Steps that put nothing into the _next pair, and change a text only where they
   take its vector out. *)
OnlyTakes ==
    /\ live \subseteq live'
    /\ \A b \in Blocks : embeddingNext'[b] \in {embeddingNext[b], Null}
    /\ \A b \in Blocks :
          ClearedWithText(b) =>
            \/ content'[b] = content[b]
            \/ embeddingNext'[b] = Null /\ ~(worker'.at = "wire" /\ worker'.block = b)

(* The arm stays where it is, or goes on with its migration without a call. *)
ArmRests ==
    \/ worker' = worker
    \/ worker'.at = "idle"
    \/ worker'.at # "wire" /\ worker.at # "idle" /\ worker'.id = worker.id

(* The verify run and the requests come to no new conclusion. *)
VerifyRests ==
    \/ verify'.at = "idle"
    \/ /\ verify'.at = verify.at /\ verify'.id = verify.id /\ verify'.wm = verify.wm
       /\ verify.red => verify'.red
CutoverRests == \A j \in DOMAIN rows : Confirming(j)' => Confirming(j)

(* Nothing is claimed of an active row that was not claimed of it before. *)
ClaimsLess ==
    \A j \in Active' :
      Entered(j)' =>
        /\ j \in Active /\ Entered(j) /\ rows'[j].to = rows[j].to
        /\ Vouched(j)' => Vouched(j)
        /\ rows'[j].status = "verifying" =>
             rows[j].status = "verifying" /\ rows'[j].wm = rows[j].wm
        /\ verify'.at \in {"count", "scan"} /\ verify'.id = j =>
             verify.at \in {"count", "scan"} /\ verify.id = j /\ verify'.wm = verify.wm

(* Everything a claim rests on has entered the gate. *)
LEMMA ClaimsEnter ==
  \A j : /\ Vouched(j) => Entered(j)
         /\ Vouched(j)' => Entered(j)'
  BY DEF Vouched, Entered, Confirming

(* Quiet rows and idle judges claim less. *)
LEMMA QuietClaimsLess ==
  ASSUME Types, QuietRows, VerifyRests, CutoverRests
  PROVE  ClaimsLess /\ (NoRollback' => NoRollback)
<1>1. Active' = Active /\ Active \subseteq DOMAIN rows
  BY QuietKeeps DEF Types, Active, Lifecycle!ActiveOf
<1>2. \A j \in Active : Entered(j)' => Entered(j)
  BY <1>1 DEF QuietRows, VerifyRests, CutoverRests, Entered
<1>3. \A j \in Active : Vouched(j)' => Vouched(j)
  BY <1>1 DEF QuietRows, VerifyRests, CutoverRests, Vouched, Types, VerifyOK
<1>4. ClaimsLess
  BY <1>1, <1>2, <1>3 DEF ClaimsLess, QuietRows, VerifyRests
<1> QED
  BY <1>4 DEF NoRollback, QuietRows

(* The arm keeps to the migration that has entered the gate. *)
LEMMA ArmKept ==
  ASSUME Genuine, ClaimsLess, ArmRests
  PROVE  ArmOnEntered'
  BY DEF Genuine, ArmOnEntered, ClaimsLess, ArmRests

(* Vectors that are only taken out stay live and current. *)
LEMMA FilledKept ==
  ASSUME Types, FilledLive, FilledCurrent, OnlyTakes, ArmRests
  PROVE  FilledLive' /\ FilledCurrent'
<1>1. Filled' \subseteq Filled /\ \A b \in Filled' : embeddingNext'[b] = embeddingNext[b]
  BY DEF Filled, OnlyTakes
<1>2. worker'.at = "wire" => worker' = worker
  BY DEF ArmRests
<1>3. FilledLive'
  BY <1>1, <1>2 DEF FilledLive, OnlyTakes
<1>4. FilledCurrent'
  <2> SUFFICES ASSUME NEW b \in Blocks, ClearedWithText(b)
               PROVE  /\ b \in Filled' => embeddingNext'[b].ver = content'[b]
                      /\ worker'.at = "wire" /\ worker'.block = b => worker'.ver = content'[b]
    BY DEF FilledCurrent, ClearedWithText
  <2>1. CASE content'[b] = content[b]
    BY <1>1, <1>2, <2>1 DEF FilledCurrent
  <2>2. CASE embeddingNext'[b] = Null /\ ~(worker'.at = "wire" /\ worker'.block = b)
    BY <2>2 DEF Filled
  <2> QED
    BY <2>1, <2>2 DEF OnlyTakes
<1> QED
  BY <1>3, <1>4

(* No vector is foreign to a row that was not foreign to it before. *)
ForeignLess == \A j \in Active' : Entered(j)' => Foreign(j)' \subseteq Foreign(j)

(* A step that only takes vectors out makes none foreign. *)
LEMMA TakesForeignLess ==
  ASSUME ClaimsLess, OnlyTakes
  PROVE  ForeignLess
  BY DEF ForeignLess, ClaimsLess, OnlyTakes, Foreign, Filled

(* Then what was claimed stays true. *)
LEMMA VerdictKept ==
  ASSUME ForeignBehind, VerdictHolds, ClaimsLess, ForeignLess
  PROVE  ForeignBehind' /\ VerdictHolds'
<1>1. ASSUME NEW j \in Active', rows'[j].status = "verifying"
      PROVE  Foreign(j)' \subseteq rows'[j].wm
  <2>1. Entered(j)'
    BY <1>1 DEF Entered
  <2> QED
    BY <1>1, <2>1 DEF ClaimsLess, ForeignLess, ForeignBehind
<1>2. ASSUME NEW j \in Active', verify'.at \in {"count", "scan"}, verify'.id = j
      PROVE  Foreign(j)' \subseteq verify'.wm
  <2>1. Entered(j)'
    BY <1>2 DEF Entered
  <2> QED
    BY <1>2, <2>1 DEF ClaimsLess, ForeignLess, ForeignBehind
<1>3. ASSUME NEW j \in Active', Vouched(j)'
      PROVE  Foreign(j)' = {}
  <2>1. Entered(j)'
    BY <1>3, ClaimsEnter
  <2>2. j \in Active /\ Vouched(j) /\ Foreign(j)' \subseteq Foreign(j)
    BY <1>3, <2>1 DEF ClaimsLess, ForeignLess
  <2> QED
    BY <2>2 DEF VerdictHolds
<1> QED
  BY <1>1, <1>2, <1>3 DEF ForeignBehind, VerdictHolds

(* Together: a step that claims less and only takes keeps it all. *)
LEMMA GenuineKept ==
  ASSUME IInv, ClaimsLess, NoRollback' => NoRollback, OnlyTakes, ArmRests
  PROVE  Genuine'
<1>1. ArmOnEntered'
  BY ArmKept DEF IInv
<1>2. ASSUME NoRollback' PROVE FilledLive' /\ FilledCurrent' /\ ForeignBehind' /\ VerdictHolds'
  BY <1>2, FilledKept, TakesForeignLess, VerdictKept DEF IInv, Genuine
<1> QED
  BY <1>1, <1>2 DEF Genuine

(* The same for quiet rows. *)
LEMMA QuietGenuine ==
  ASSUME IInv, QuietRows, VerifyRests, CutoverRests, OnlyTakes, ArmRests
  PROVE  Genuine'
  BY QuietClaimsLess, GenuineKept DEF IInv

(* Actions that come to no new conclusion. *)

(* The checks of Create read only. *)
LEMMA CreateCheckGenuine ==
  ASSUME IInv, NEW m, NEW reuse, CreateCheck(m, reuse) \/ CreateProbe
  PROVE  Genuine'
<1>1. QuietRows
  BY QuietStutter DEF IInv, Types, CreateCheck, CreateProbe
<1>2. VerifyRests /\ CutoverRests
  BY DEF VerifyRests, CutoverRests, Confirming, IInv, Types, VerifyOK, CutoverOK, NoVerify, NoCutover,
         CreateCheck, CreateProbe, opVars
<1>3. ArmRests
  BY DEF ArmRests, IInv, Types, WorkerOK, WorkerRec, NoWork, CreateCheck, CreateProbe
<1>4. OnlyTakes
  BY DEF OnlyTakes, IInv, Types, BlocksOK, VectorsOK, Columns, CreateCheck, CreateProbe,
         blockVars, vectorVars
<1> QED
  BY <1>1, <1>2, <1>3, <1>4, QuietGenuine

(* A purge takes vectors out. *)
LEMMA PurgeGenuine == ASSUME IInv, PurgeStart \/ PurgeBatch PROVE Genuine'
<1>1. QuietRows
  BY QuietStutter DEF IInv, Types, PurgeStart, PurgeBatch
<1>2. VerifyRests /\ CutoverRests
  BY DEF VerifyRests, CutoverRests, Confirming, IInv, Types, VerifyOK, CutoverOK, NoVerify, NoCutover,
         PurgeStart, PurgeBatch, opVars
<1>3. ArmRests
  BY DEF ArmRests, IInv, Types, WorkerOK, WorkerRec, NoWork, PurgeStart, PurgeBatch
<1>4. OnlyTakes
  BY DEF OnlyTakes, IInv, Types, BlocksOK, VectorsOK, Columns, PurgeStart, PurgeBatch,
         blockVars, vectorVars
<1> QED
  BY <1>1, <1>2, <1>3, <1>4, QuietGenuine

(* An edit of the map moves no vector. *)
LEMMA ArmGenuine == ASSUME IInv, NEW m, Arm(m) \/ Reload PROVE Genuine'
<1>1. QuietRows
  BY QuietStutter DEF IInv, Types, Arm, Reload
<1>2. VerifyRests /\ CutoverRests
  BY DEF VerifyRests, CutoverRests, Confirming, IInv, Types, VerifyOK, CutoverOK, NoVerify, NoCutover,
         Arm, Reload, opVars
<1>3. ArmRests
  BY DEF ArmRests, IInv, Types, WorkerOK, WorkerRec, NoWork, Arm, Reload
<1>4. OnlyTakes
  BY DEF OnlyTakes, IInv, Types, BlocksOK, VectorsOK, Columns, Arm, Reload,
         blockVars, vectorVars
<1> QED
  BY <1>1, <1>2, <1>3, <1>4, QuietGenuine

(* The end of the queue only moves the cursor. *)
LEMMA MigrateQueueEndGenuine == ASSUME IInv, MigrateQueueEnd PROVE Genuine'
<1>1. QuietRows
  BY CursorQuiet, ZeroBlock DEF IInv, MigrateQueueEnd
<1>2. VerifyRests /\ CutoverRests
  BY DEF VerifyRests, CutoverRests, Confirming, IInv, Types, VerifyOK, CutoverOK, NoVerify, NoCutover,
         MigrateQueueEnd, opVars
<1>3. ArmRests
  BY DEF ArmRests, IInv, Types, WorkerOK, WorkerRec, NoWork, MigrateQueueEnd
<1>4. OnlyTakes
  BY DEF OnlyTakes, IInv, Types, BlocksOK, VectorsOK, Columns, MigrateQueueEnd,
         blockVars, vectorVars
<1> QED
  BY <1>1, <1>2, <1>3, <1>4, QuietGenuine

(* The end of a batch drops the call. *)
LEMMA MigrateStopGenuine == ASSUME IInv, MigrateStop PROVE Genuine'
<1>1. QuietRows
  BY CursorQuiet DEF IInv, Types, WorkerOK, WorkerRec, MigrateStop
<1>2. VerifyRests /\ CutoverRests
  BY DEF VerifyRests, CutoverRests, Confirming, IInv, Types, VerifyOK, CutoverOK, NoVerify, NoCutover,
         MigrateStop, opVars
<1>3. ArmRests
  BY DEF ArmRests, IInv, Types, WorkerOK, WorkerRec, NoWork, MigrateStop
<1>4. OnlyTakes
  BY DEF OnlyTakes, IInv, Types, BlocksOK, VectorsOK, Columns, MigrateStop,
         blockVars, vectorVars
<1> QED
  BY <1>1, <1>2, <1>3, <1>4, QuietGenuine

(* A failed call stores nothing. *)
LEMMA MigrateWireFailureGenuine == ASSUME IInv, MigrateWireFailure PROVE Genuine'
<1>1. QuietRows
  BY AtWork, MemoQuiet DEF IInv, Types, WorkerOK, MigrateWireFailure
<1>2. VerifyRests /\ CutoverRests
  BY DEF VerifyRests, CutoverRests, Confirming, IInv, Types, VerifyOK, CutoverOK, NoVerify, NoCutover,
         MigrateWireFailure, opVars
<1>3. ArmRests
  BY DEF ArmRests, IInv, Types, WorkerOK, WorkerRec, NoWork, MigrateWireFailure
<1>4. OnlyTakes
  BY DEF OnlyTakes, IInv, Types, BlocksOK, VectorsOK, Columns, MigrateWireFailure,
         blockVars, vectorVars
<1> QED
  BY <1>1, <1>2, <1>3, <1>4, QuietGenuine

(* A memo that falls due moves no vector. *)
LEMMA BackoffElapsesGenuine == ASSUME IInv, BackoffElapses PROVE Genuine'
<1>1. QuietRows
  BY MemoQuiet DEF IInv, BackoffElapses
<1>2. VerifyRests /\ CutoverRests
  BY DEF VerifyRests, CutoverRests, Confirming, IInv, Types, VerifyOK, CutoverOK, NoVerify, NoCutover,
         BackoffElapses, opVars
<1>3. ArmRests
  BY DEF ArmRests, IInv, Types, WorkerOK, WorkerRec, NoWork, BackoffElapses
<1>4. OnlyTakes
  BY DEF OnlyTakes, IInv, Types, BlocksOK, VectorsOK, Columns, BackoffElapses,
         blockVars, vectorVars
<1> QED
  BY <1>1, <1>2, <1>3, <1>4, QuietGenuine

(* The probe reads only. *)
LEMMA ProbePendingGenuine == ASSUME IInv, ProbePending PROVE Genuine'
<1>1. QuietRows
  BY QuietStutter DEF IInv, Types, ProbePending
<1>2. VerifyRests /\ CutoverRests
  BY DEF VerifyRests, CutoverRests, Confirming, IInv, Types, VerifyOK, CutoverOK, NoVerify, NoCutover,
         ProbePending, opVars
<1>3. ArmRests
  BY DEF ArmRests, IInv, Types, WorkerOK, WorkerRec, NoWork, ProbePending
<1>4. OnlyTakes
  BY DEF OnlyTakes, IInv, Types, BlocksOK, VectorsOK, Columns, ProbePending,
         blockVars, vectorVars
<1> QED
  BY <1>1, <1>2, <1>3, <1>4, QuietGenuine

(* A failed verify run leaves no green verdict. *)
LEMMA VerifyFailsGenuine == ASSUME IInv, VerifyFails PROVE Genuine'
<1>1. QuietRows
  BY QuietStutter DEF IInv, Types, VerifyFails
<1>2. VerifyRests /\ CutoverRests
  BY DEF VerifyRests, CutoverRests, Confirming, IInv, Types, VerifyOK, CutoverOK, NoVerify, NoCutover,
         VerifyFails, opVars
<1>3. ArmRests
  BY DEF ArmRests, IInv, Types, WorkerOK, WorkerRec, NoWork, VerifyFails
<1>4. OnlyTakes
  BY DEF OnlyTakes, IInv, Types, BlocksOK, VectorsOK, Columns, VerifyFails,
         blockVars, vectorVars
<1> QED
  BY <1>1, <1>2, <1>3, <1>4, QuietGenuine

(* A request that rolls back, goes on or is refused vouches for no new row. *)
LEMMA CutoverRequestGenuine ==
  ASSUME IInv, NEW i, RollbackPreflight(i) \/ ConfirmRecheck \/ CutoverRefused
  PROVE  Genuine'
<1>1. QuietRows
  BY QuietStutter DEF IInv, Types, RollbackPreflight, ConfirmRecheck, CutoverRefused
<1>2. VerifyRests /\ CutoverRests
  <2>1. UNCHANGED verify
    BY DEF RollbackPreflight, ConfirmRecheck, CutoverRefused
  <2>2. CASE RollbackPreflight(i)
    <3>1. cutover'.op = "rollback"
      BY <2>2 DEF RollbackPreflight, NoCutover
    <3> QED
      BY <2>1, <3>1 DEF VerifyRests, CutoverRests, Confirming
  <2>3. CASE ConfirmRecheck \/ CutoverRefused
    BY <2>1, <2>3 DEF VerifyRests, CutoverRests, Confirming, IInv, Types, CutoverOK, NoCutover,
       ConfirmRecheck, CutoverRefused
  <2> QED
    BY <2>2, <2>3
<1>3. ArmRests
  BY DEF ArmRests, IInv, Types, WorkerOK, WorkerRec, NoWork, RollbackPreflight, ConfirmRecheck, CutoverRefused
<1>4. OnlyTakes
  BY DEF OnlyTakes, IInv, Types, BlocksOK, VectorsOK, Columns, RollbackPreflight, ConfirmRecheck, CutoverRefused,
         blockVars, vectorVars
<1> QED
  BY <1>1, <1>2, <1>3, <1>4, QuietGenuine

(* What follows the commit takes vectors out at most. *)
LEMMA PostCommitGenuine ==
  ASSUME IInv, CutoverReload \/ SweepForeign \/ SweepMemos \/ CopyInfinityMemos \/ PostCommitFails
  PROVE  Genuine'
<1>1. UNCHANGED <<rows, worker, verify>>
  BY DEF CutoverReload, SweepForeign, SweepMemos, CopyInfinityMemos, PostCommitFails
<1>2. QuietRows
  BY <1>1, QuietStutter DEF IInv, Types
<1>3. VerifyRests /\ ArmRests
  BY <1>1 DEF VerifyRests, ArmRests
<1>4. CutoverRests
  <2>1. ASSUME cutover'.at \notin {"check", "swap"} PROVE CutoverRests
    BY <2>1 DEF CutoverRests, Confirming
  <2>2. cutover' = AfterSweep => cutover'.at \notin {"check", "swap"}
    BY DEF AfterSweep, NoCutover, IInv, Types, CutoverOK
  <2>3. CASE CutoverReload \/ CopyInfinityMemos
    BY <2>1, <2>3 DEF CutoverReload, CopyInfinityMemos, NoCutover, IInv, Types, CutoverOK
  <2>4. CASE SweepForeign
    BY <2>1, <2>2, <2>4 DEF SweepForeign, IInv, Types, CutoverOK
  <2>5. CASE SweepMemos
    BY <2>1, <2>2, <2>5 DEF SweepMemos
  <2>6. CASE PostCommitFails
    BY <2>1, <2>2, <2>6 DEF PostCommitFails, NoCutover, IInv, Types, CutoverOK
  <2> QED
    BY <2>3, <2>4, <2>5, <2>6
<1>5. OnlyTakes
  BY DEF OnlyTakes, IInv, Types, BlocksOK, VectorsOK, Columns, CutoverReload, SweepForeign,
         SweepMemos, CopyInfinityMemos, PostCommitFails, blockVars, vectorVars
<1> QED
  BY <1>2, <1>3, <1>4, <1>5, QuietGenuine

(* The cleanup touches the anchor only. *)
LEMMA CleanupGenuine == ASSUME IInv, CleanupEmbedMigration PROVE Genuine'
<1>1. QuietRows
  BY QuietStutter DEF IInv, Types, CleanupEmbedMigration
<1>2. VerifyRests /\ CutoverRests
  BY DEF VerifyRests, CutoverRests, Confirming, IInv, Types, VerifyOK, CutoverOK, NoVerify, NoCutover,
         CleanupEmbedMigration, opVars
<1>3. ArmRests
  BY DEF ArmRests, IInv, Types, WorkerOK, WorkerRec, NoWork, CleanupEmbedMigration
<1>4. OnlyTakes
  BY DEF OnlyTakes, IInv, Types, BlocksOK, VectorsOK, Columns, CleanupEmbedMigration,
         blockVars, vectorVars
<1> QED
  BY <1>1, <1>2, <1>3, <1>4, QuietGenuine

(* A new block has no vector. *)
LEMMA NewBlockGenuine == ASSUME IInv, NEW b, NewBlock(b) PROVE Genuine'
<1>1. QuietRows
  BY QuietStutter DEF IInv, Types, NewBlock
<1>2. VerifyRests /\ CutoverRests
  BY DEF VerifyRests, CutoverRests, Confirming, IInv, Types, VerifyOK, CutoverOK, NoVerify, NoCutover,
         NewBlock, opVars
<1>3. ArmRests
  BY DEF ArmRests, IInv, Types, WorkerOK, WorkerRec, NoWork, NewBlock
<1>4. OnlyTakes
  BY DEF OnlyTakes, IInv, Types, BlocksOK, VectorsOK, Columns, NewBlock,
         blockVars, vectorVars
<1> QED
  BY <1>1, <1>2, <1>3, <1>4, QuietGenuine

(* The late clear takes vectors out. *)
LEMMA FinishBlockUpdateGenuine == ASSUME IInv, NEW b \in Blocks, FinishBlockUpdate(b) PROVE Genuine'
<1>1. QuietRows
  BY QuietStutter DEF IInv, Types, FinishBlockUpdate, ClearEmbeddingTx
<1>2. VerifyRests /\ CutoverRests
  BY DEF VerifyRests, CutoverRests, Confirming, IInv, Types, VerifyOK, CutoverOK, NoVerify, NoCutover,
         FinishBlockUpdate, ClearEmbeddingTx, opVars
<1>3. ArmRests
  BY DEF ArmRests, IInv, Types, WorkerOK, WorkerRec, NoWork, FinishBlockUpdate, ClearEmbeddingTx
<1>4. OnlyTakes
  BY DEF OnlyTakes, IInv, Types, BlocksOK, VectorsOK, Columns, FinishBlockUpdate, ClearEmbeddingTx,
         blockVars, vectorVars
<1> QED
  BY <1>1, <1>2, <1>3, <1>4, QuietGenuine

(* The backfill writes the serving pair. *)
LEMMA BackfillGenuine ==
  ASSUME IInv, NEW b, NEW locked, NEW stored,
         BackfillPick(b, locked) \/ BackfillStore(stored) \/ BackfillOversize
  PROVE  Genuine'
<1>1. QuietRows
  BY QuietStutter DEF IInv, Types, BackfillPick, BackfillStore, BackfillOversize
<1>2. VerifyRests /\ CutoverRests
  BY DEF VerifyRests, CutoverRests, Confirming, IInv, Types, VerifyOK, CutoverOK, NoVerify, NoCutover,
         BackfillPick, BackfillStore, BackfillOversize, opVars
<1>3. ArmRests
  BY DEF ArmRests, IInv, Types, WorkerOK, WorkerRec, NoWork, BackfillPick, BackfillStore, BackfillOversize
<1>4. OnlyTakes
  BY DEF OnlyTakes, IInv, Types, BlocksOK, VectorsOK, Columns, BackfillPick, BackfillStore, BackfillOversize,
         blockVars, vectorVars
<1> QED
  BY <1>1, <1>2, <1>3, <1>4, QuietGenuine

(* A crash ends every actor's work. *)
LEMMA CrashGenuine == ASSUME IInv, Crash PROVE Genuine'
<1>1. QuietRows
  BY QuietStutter DEF IInv, Types, Crash, NoWork, NoVerify, NoCutover
<1>2. VerifyRests /\ CutoverRests
  BY DEF VerifyRests, CutoverRests, Confirming, IInv, Types, VerifyOK, CutoverOK, NoVerify, NoCutover,
         Crash, NoWork, NoVerify, NoCutover, opVars
<1>3. ArmRests
  BY DEF ArmRests, IInv, Types, WorkerOK, WorkerRec, NoWork, Crash, NoWork, NoVerify, NoCutover
<1>4. OnlyTakes
  BY DEF OnlyTakes, IInv, Types, BlocksOK, VectorsOK, Columns, Crash, NoWork, NoVerify, NoCutover,
         blockVars, vectorVars
<1> QED
  BY <1>1, <1>2, <1>3, <1>4, QuietGenuine

(* Nothing happens. *)
LEMMA StutterGenuine == ASSUME IInv, UNCHANGED vars PROVE Genuine'
<1>1. QuietRows
  BY QuietStutter DEF IInv, Types, vars
<1>2. VerifyRests /\ CutoverRests
  BY DEF VerifyRests, CutoverRests, Confirming, IInv, Types, VerifyOK, CutoverOK, NoVerify, NoCutover,
         vars, opVars
<1>3. ArmRests
  BY DEF ArmRests, IInv, Types, WorkerOK, WorkerRec, NoWork, vars
<1>4. OnlyTakes
  BY DEF OnlyTakes, IInv, Types, BlocksOK, VectorsOK, Columns, vars,
         blockVars, vectorVars
<1> QED
  BY <1>1, <1>2, <1>3, <1>4, QuietGenuine

(* A text is changed together with its _next vector, or by a path that leaves its
   block outside the claim; the block on the wire is locked. *)
LEMMA TextGenuine == ASSUME IInv, NEW b \in Blocks, UpsertBlock(b) \/ UpdateBlock(b) \/ PullUpdateIssueBlock(b) PROVE Genuine'
<1>1. QuietRows
  BY QuietStutter DEF IInv, Types, UpsertBlock, UpdateBlock, PullUpdateIssueBlock, NewText, ClearEmbeddingTx
<1>2. VerifyRests /\ CutoverRests
  BY DEF VerifyRests, CutoverRests, Confirming, IInv, Types, VerifyOK, CutoverOK, NoVerify, NoCutover,
         UpsertBlock, UpdateBlock, PullUpdateIssueBlock, NewText, ClearEmbeddingTx, opVars
<1>3. ArmRests
  BY DEF ArmRests, IInv, Types, WorkerOK, WorkerRec, NoWork, UpsertBlock, UpdateBlock, PullUpdateIssueBlock, NewText, ClearEmbeddingTx
<1>4. OnlyTakes
  <2>1. live' = live /\ worker' = worker /\ b \notin Locked
    BY DEF UpsertBlock, UpdateBlock, PullUpdateIssueBlock, NewText
  <2>2. \A x \in Blocks : x # b => content'[x] = content[x] /\ embeddingNext'[x] = embeddingNext[x]
    BY DEF IInv, Types, BlocksOK, VectorsOK, Columns, UpsertBlock, UpdateBlock,
           PullUpdateIssueBlock, NewText, ClearEmbeddingTx
  <2>3. ~(worker'.at = "wire" /\ worker'.block = b)
    BY <2>1 DEF Locked
  <2>4. CASE UpsertBlock(b)
    <3>1. embeddingNext'[b] = Null
      BY <2>4 DEF IInv, Types, VectorsOK, Columns, UpsertBlock, ClearEmbeddingTx
    <3> QED
      BY <2>1, <2>2, <2>3, <3>1 DEF OnlyTakes
  <2>5. CASE UpdateBlock(b) \/ PullUpdateIssueBlock(b)
    <3>1. ~ClearedWithText(b)
      BY <2>5 DEF ClearedWithText, UpdateBlock, PullUpdateIssueBlock, NewText
    <3>2. embeddingNext' = embeddingNext
      BY <2>5 DEF UpdateBlock, PullUpdateIssueBlock
    <3> QED
      BY <2>1, <2>2, <3>1, <3>2 DEF OnlyTakes
  <2> QED
    BY <2>4, <2>5
<1> QED
  BY <1>1, <1>2, <1>3, <1>4, QuietGenuine

(* Moves of a row that claim less of it. *)

(* A row that leaves the gate, or is told its report there, is claimed less of. *)
LEMMA RowStepClaimsLess ==
  ASSUME Types, NEW i, NEW r, RowStep(i, r), VerifyRests, CutoverRests,
         r.status = "verifying" => rows[i].status = "verifying" /\ r.wm = rows[i].wm,
         r.report \in {rows[i].report, "none"}
  PROVE  ClaimsLess /\ (NoRollback' => NoRollback)
<1>0. RowsOK
  BY DEF Types
<1>1. /\ DOMAIN rows' = DOMAIN rows /\ Active' \subseteq Active /\ Active \subseteq DOMAIN rows
      /\ i \in DOMAIN rows /\ rows[i] \in Row
      /\ \A j \in DOMAIN rows : rows'[j] = IF j = i THEN r ELSE rows[j]
  <2>1. i \in DOMAIN rows /\ rows[i] \in Row /\ Active \subseteq DOMAIN rows
    BY <1>0 DEF RowsOK, RowStep, Active, Lifecycle!ActiveOf
  <2> QED
    BY <1>0, <2>1, RowStepKeeps
<1>2. \A j \in Active' : Entered(j)' => Entered(j)
  BY <1>1 DEF VerifyRests, CutoverRests, Entered
<1>3. \A j \in Active' : Vouched(j)' => Vouched(j)
  BY <1>1 DEF VerifyRests, CutoverRests, Vouched, Types, VerifyOK
<1>4. ClaimsLess
  BY <1>1, <1>2, <1>3 DEF ClaimsLess, VerifyRests, RowStep
<1>5. NoRollback' => NoRollback
  <2>1. rows[i].status # "rolled_back" \/ r.status = "rolled_back"
    BY DEF RowStep, Lifecycle!IsAllowedTransition, Lifecycle!Edges, Lifecycle!Statuses,
           Lifecycle!NonTerminal
  <2> QED
    BY <1>1, <2>1 DEF NoRollback
<1> QED
  BY <1>4, <1>5

(* Pause, resume and abort. *)
LEMMA OperatorToGenuine ==
  ASSUME IInv, NEW i \in DOMAIN rows, NEW s \in {"paused", "running", "aborted"}, OperatorTo(i, s)
  PROVE  Genuine'
<1> DEFINE r == [rows[i] EXCEPT !.status = s]
<1>1. RowsOK /\ rows[i] \in Row
  BY DEF IInv, Types, RowsOK
<1>2. r.status = s /\ r.report = rows[i].report
  BY <1>1 DEF Row
<1>3. rows' = rows \/ RowStep(i, r)
  BY <1>1, TransitionStep DEF OperatorTo
<1> HIDE DEF r
<1>4. VerifyRests /\ CutoverRests /\ ArmRests /\ OnlyTakes
  BY DEF VerifyRests, CutoverRests, Confirming, ArmRests, OnlyTakes, OperatorTo, blockVars,
         vectorVars, opVars
<1>5. CASE rows' = rows
  BY <1>1, <1>4, <1>5, QuietStutter, QuietGenuine
<1>6. CASE RowStep(i, r)
  BY <1>2, <1>4, <1>6, RowStepClaimsLess, GenuineKept DEF IInv
<1> QED
  BY <1>3, <1>5, <1>6

(* The cycle pauses the active row, or the arm takes it up: then the arm is with
   the one active row, and a verify run starts on its own watermark. *)
LEMMA CycleStartGenuine == ASSUME IInv, CycleStart PROVE Genuine'
<1>1. PICK i \in Active : CycleOf(i)
  BY CycleStartOf
<1>2. RowsOK /\ i \in DOMAIN rows /\ rows[i] \in Row
  BY DEF IInv, Types, RowsOK, Active, Lifecycle!ActiveOf
<1>3. CutoverRests /\ OnlyTakes
  BY DEF CutoverRests, Confirming, OnlyTakes, CycleStart, blockVars, vectorVars, opVars
<1>4. CASE UNCHANGED <<worker, verify>> /\ rows' = Transition(i, rows[i].status, "paused", rows[i])
  <2> DEFINE r == [rows[i] EXCEPT !.status = "paused"]
  <2>1. r.status = "paused" /\ r.report = rows[i].report
    BY <1>2 DEF Row
  <2>2. rows' = rows \/ RowStep(i, r)
    BY <1>2, <1>4, TransitionStep
  <2> HIDE DEF r
  <2>3. VerifyRests /\ ArmRests
    BY <1>4 DEF VerifyRests, ArmRests
  <2>4. CASE rows' = rows
    BY <1>2, <1>3, <2>3, <2>4, QuietStutter, QuietGenuine
  <2>5. CASE RowStep(i, r)
    BY <1>3, <2>1, <2>3, <2>5, RowStepClaimsLess, GenuineKept DEF IInv
  <2> QED
    BY <2>2, <2>4, <2>5
<1>5. CASE rows' = rows /\ worker'.at = "batch" /\ worker'.id = i
  <2>1. Active' = Active /\ \A j \in Active : j = i
    BY <1>1, <1>2, <1>5 DEF RowsOK, SingleActive, Active, Lifecycle!ActiveOf
  <2>2. ArmOnEntered'
    BY <1>5, <2>1 DEF ArmOnEntered
  <2>3. ASSUME NoRollback' PROVE FilledLive' /\ FilledCurrent' /\ ForeignBehind' /\ VerdictHolds'
    <3>1. FilledLive /\ FilledCurrent /\ ForeignBehind /\ VerdictHolds
      BY <1>5, <2>3 DEF IInv, Genuine, NoRollback
    <3>2. UNCHANGED <<embeddingNext, live, content, cutover>>
      BY DEF CycleStart, blockVars, vectorVars, opVars
    <3>3. FilledLive' /\ FilledCurrent'
      BY <1>5, <3>1, <3>2 DEF FilledLive, FilledCurrent, Filled
    <3>4. Foreign(i)' = Foreign(i)
      BY <1>5, <3>2 DEF Foreign, Filled
    <3>5. \/ verify' = verify
          \/ verify'.at = "count" /\ verify'.wm = rows[i].wm /\ rows[i].status = "verifying"
      BY <1>1, <1>5 DEF CycleOf
    <3>6. ForeignBehind'
      BY <1>5, <2>1, <3>1, <3>4, <3>5 DEF ForeignBehind
    <3>7. Vouched(i)' => Vouched(i)
      BY <1>5, <3>2, <3>5 DEF Vouched, Confirming
    <3>8. VerdictHolds'
      BY <2>1, <3>1, <3>4, <3>7 DEF VerdictHolds
    <3> QED
      BY <3>3, <3>6, <3>8
  <2> QED
    BY <2>2, <2>3 DEF Genuine
<1> QED
  BY <1>1, <1>2, <1>4, <1>5 DEF CycleOf, NoWork

(* A pick that goes on the wire takes the current text of a live block. *)
LEMMA MigratePickGenuine == ASSUME IInv, MigratePick PROVE Genuine'
<1> DEFINE b == CHOOSE x \in Pickable \ Locked : \A y \in Pickable \ Locked : x <= y
<1>1. QuietRows
  BY MigratePickRows DEF IInv
<1>2. VerifyRests /\ CutoverRests
  BY DEF VerifyRests, CutoverRests, Confirming, MigratePick, opVars
<1>3. ClaimsLess /\ (NoRollback' => NoRollback)
  BY <1>1, <1>2, QuietClaimsLess DEF IInv
<1>4. b \in live /\ b \in Blocks
  BY PickedType DEF IInv, MigratePick
<1>5. UNCHANGED <<embeddingNext, live, content>>
  BY DEF MigratePick, blockVars, vectorVars
<1>6. OnlyTakes
  BY <1>5 DEF OnlyTakes
<1>7. CASE worker' = [worker EXCEPT !.cursor = b]
  <2>1. ArmRests
    BY <1>7 DEF ArmRests, IInv, Types, WorkerOK, WorkerRec, MigratePick
  <2> QED
    BY <1>3, <1>6, <2>1, GenuineKept
<1>8. CASE worker' = [worker EXCEPT !.at = "wire", !.block = b, !.ver = content[b],
                                    !.model = ModelForNext(pool)]
  <2> HIDE DEF b
  <2>1. worker'.id = worker.id /\ worker'.block = b /\ worker'.ver = content[b]
    BY <1>8 DEF IInv, Types, WorkerOK, WorkerRec
  <2>2. ArmOnEntered'
    BY <1>3, <2>1 DEF ClaimsLess, ArmOnEntered, IInv, Genuine, MigratePick
  <2>3. ASSUME NoRollback' PROVE FilledLive' /\ FilledCurrent' /\ ForeignBehind' /\ VerdictHolds'
    <3>1. FilledLive /\ FilledCurrent /\ ForeignBehind /\ VerdictHolds
      BY <1>3, <2>3 DEF IInv, Genuine
    <3>2. FilledLive'
      BY <1>4, <1>5, <2>1, <3>1 DEF FilledLive, Filled
    <3>3. FilledCurrent'
      BY <1>5, <2>1, <3>1 DEF FilledCurrent, Filled, ClearedWithText
    <3> QED
      BY <1>3, <1>6, <3>1, <3>2, <3>3, TakesForeignLess, VerdictKept
  <2> QED
    BY <2>2, <2>3 DEF Genuine
<1> QED
  BY <1>7, <1>8 DEF MigratePick

(* A stored answer is of the arm's own target and of the text that was locked. *)
LEMMA MigrateStoreGenuine == ASSUME IInv, MigrateStore PROVE Genuine'
<1> DEFINE i == worker.id
           b == worker.block
<1>1. RowsOK /\ i \in DOMAIN rows /\ rows[i] \in Row /\ b \in Blocks
  BY AtWork DEF IInv, Types, RowsOK, WorkerOK, MigrateStore
<1>2. VerifyRests /\ CutoverRests
  BY DEF VerifyRests, CutoverRests, Confirming, MigrateStore, opVars
<1>3. UNCHANGED <<live, content>>
  BY DEF MigrateStore, blockVars
<1>4. CASE worker.model # rows[i].to
  <2>1. OnlyTakes
    BY <1>3, <1>4 DEF OnlyTakes, MigrateStore
  <2>2. ArmRests
    BY <1>4 DEF ArmRests, MigrateStore, NoWork
  <2>3. CASE rows' = rows
    BY <1>1, <1>2, <2>1, <2>2, <2>3, QuietStutter, QuietGenuine
  <2>4. ASSUME NEW r, RowStep(i, r), r.status \in {rows[i].status, "paused"},
               r.wm = rows[i].wm, r.report = rows[i].report
        PROVE  Genuine'
    BY <1>2, <2>1, <2>2, <2>4, RowStepClaimsLess, GenuineKept DEF IInv
  <2> QED
    BY <2>3, <2>4, MigrateStoreRows DEF IInv
<1>5. CASE worker.model = rows[i].to
  <2>1. /\ embeddingNext' = [embeddingNext EXCEPT ![b] = Vector(worker.model, worker.ver)]
        /\ worker' = [worker EXCEPT !.at = "batch", !.cursor = b, !.block = 0, !.model = NoModel,
                                    !.ver = 0]
        /\ rows' = rows
    BY <1>5 DEF MigrateStore
  <2>2. worker'.at = "batch" /\ worker'.id = i
    BY <2>1 DEF IInv, Types, WorkerOK, WorkerRec
  <2>3. ArmRests
    BY <2>2 DEF ArmRests, MigrateStore
  <2>4. ClaimsLess /\ (NoRollback' => NoRollback)
    BY <1>1, <1>2, <2>1, QuietStutter, QuietClaimsLess DEF IInv
  <2>5. ArmOnEntered'
    BY <2>3, <2>4, ArmKept DEF IInv
  <2>6. ASSUME NoRollback' PROVE FilledLive' /\ FilledCurrent' /\ ForeignBehind' /\ VerdictHolds'
    <3>1. FilledLive /\ FilledCurrent /\ ForeignBehind /\ VerdictHolds
      BY <2>4, <2>6 DEF IInv, Genuine
    <3>2. /\ \A x \in Blocks : x # b => embeddingNext'[x] = embeddingNext[x]
          /\ embeddingNext'[b].model = rows[i].to /\ embeddingNext'[b].ver = worker.ver
      BY <1>1, <1>5, <2>1 DEF IInv, Types, VectorsOK, Columns, Vector
    <3>3. Filled' \subseteq Filled \cup {b}
      BY <3>2 DEF Filled
    <3>4. FilledLive'
      BY <1>3, <2>2, <3>1, <3>3 DEF FilledLive, MigrateStore
    <3>5. FilledCurrent'
      BY <1>3, <2>2, <3>1, <3>2 DEF FilledCurrent, Filled, ClearedWithText, MigrateStore
    <3>6. ForeignLess
      <4> SUFFICES ASSUME NEW j \in Active', Entered(j)' PROVE Foreign(j)' \subseteq Foreign(j)
        BY DEF ForeignLess
      <4>1. j \in Active /\ Entered(j)
        BY <2>4 DEF ClaimsLess
      <4>2. j = i
        BY <4>1 DEF IInv, Genuine, ArmOnEntered, MigrateStore
      <4> QED
        BY <2>1, <3>2, <4>2 DEF Foreign, Filled
    <3> QED
      BY <2>4, <3>1, <3>4, <3>5, <3>6, VerdictKept
  <2> QED
    BY <2>5, <2>6 DEF Genuine
<1> QED
  BY <1>4, <1>5

(* The gate is entered with every filled block behind the watermark. *)
LEMMA EnterVerifyingGenuine == ASSUME IInv, EnterVerifying PROVE Genuine'
<1> DEFINE i == worker.id
<1>1. RowsOK /\ i \in DOMAIN rows
  BY AtWork DEF IInv, Types, EnterVerifying
<1>2. VerifyRests /\ CutoverRests /\ OnlyTakes
  BY DEF VerifyRests, CutoverRests, Confirming, OnlyTakes, EnterVerifying, blockVars, vectorVars,
         opVars
<1>3. worker'.at = "idle"
  BY DEF EnterVerifying, NoWork
<1>4. CASE rows' = rows
  BY <1>1, <1>2, <1>3, <1>4, QuietStutter, QuietGenuine DEF ArmRests
<1>5. ASSUME NEW r, RowStep(i, r), r.status = "verifying", rows[i].status = "running",
             r.wm = live, r.report = "none"
      PROVE  Genuine'
  <2>1. /\ DOMAIN rows' = DOMAIN rows /\ Active' \subseteq Active /\ Active \subseteq DOMAIN rows
        /\ \A j \in DOMAIN rows : rows'[j] = IF j = i THEN r ELSE rows[j]
    BY <1>1, <1>5, RowStepKeeps DEF Active, Lifecycle!ActiveOf
  <2>2. ArmOnEntered'
    BY <1>3 DEF ArmOnEntered
  <2>3. UNCHANGED <<embeddingNext, live, content, verify, cutover>>
    BY DEF EnterVerifying, blockVars, vectorVars, opVars
  <2>4. ASSUME NoRollback' PROVE FilledLive' /\ FilledCurrent' /\ ForeignBehind' /\ VerdictHolds'
    <3>1. NoRollback
      BY <1>5, <2>1, <2>4 DEF NoRollback
    <3>2. FilledLive /\ FilledCurrent /\ ForeignBehind /\ VerdictHolds
      BY <3>1 DEF IInv, Genuine
    <3>3. FilledLive' /\ FilledCurrent'
      BY <1>2, <1>3, <3>2, FilledKept DEF IInv, ArmRests
    <3>4. \A j \in Active' : Foreign(j)' = Foreign(j) /\ Foreign(j) \subseteq live
      BY <1>5, <2>1, <2>3, <3>2 DEF Foreign, Filled, FilledLive, RowStep
    <3>5. ForeignBehind'
      BY <1>5, <2>1, <2>3, <3>2, <3>4 DEF ForeignBehind
    <3>6. \A j \in Active' : Vouched(j)' => Vouched(j)
      BY <1>5, <2>1, <2>3 DEF Vouched, Confirming
    <3>7. VerdictHolds'
      BY <2>1, <3>2, <3>4, <3>6 DEF VerdictHolds
    <3> QED
      BY <3>3, <3>5, <3>7
  <2> QED
    BY <2>2, <2>4 DEF Genuine
<1> QED
  BY <1>4, <1>5, EnterRows DEF IInv

(* The count moves the verify run on; the scan vouches for what it saw: nothing
   foreign behind the watermark, so nothing foreign at all. *)
LEMMA VerifyScanGenuine == ASSUME IInv, VerifyCompleteness \/ VerifyScanPass PROVE Genuine'
<1> DEFINE i == verify.id
<1>1. UNCHANGED <<embeddingNext, live, content, cutover, worker, rows>>
  BY DEF VerifyCompleteness, VerifyScanPass, blockVars, vectorVars, opVars
<1>2. Active' = Active /\ Active \subseteq DOMAIN rows /\ i \in DOMAIN rows /\ NoRollback' = NoRollback
  BY <1>1, AtWork DEF Active, Lifecycle!ActiveOf, NoRollback, IInv, VerifyCompleteness, VerifyScanPass
<1>3. /\ verify.at \in {"count", "scan"} /\ verify'.at \in {"scan", "verdict"}
      /\ verify'.id = i /\ verify'.wm = verify.wm
      /\ verify'.at = "scan" \/ verify.at = "scan"
  BY DEF IInv, Types, VerifyOK, VerifyCompleteness, VerifyScanPass
<1>4. \A j \in Active : Entered(j)' = Entered(j)
  BY <1>1, <1>3 DEF Entered, Confirming
<1>5. ArmOnEntered'
  BY <1>1, <1>2, <1>4 DEF IInv, Genuine, ArmOnEntered
<1>6. ASSUME NoRollback' PROVE FilledLive' /\ FilledCurrent' /\ ForeignBehind' /\ VerdictHolds'
  <2>1. FilledLive /\ FilledCurrent /\ ForeignBehind /\ VerdictHolds
    BY <1>2, <1>6 DEF IInv, Genuine
  <2>2. FilledLive' /\ FilledCurrent'
    BY <1>1, <2>1 DEF FilledLive, FilledCurrent, Filled
  <2>3. \A j \in Active : Foreign(j)' = Foreign(j)
    BY <1>1 DEF Foreign, Filled
  <2>4. ForeignBehind'
    BY <1>1, <1>2, <1>3, <2>1, <2>3 DEF ForeignBehind
  <2>5. ASSUME NEW j \in Active, Vouched(j)', ~Vouched(j) PROVE Foreign(j) = {}
    <3>1. verify'.at = "verdict" /\ i = j /\ ~verify'.red
      BY <1>1, <1>3, <2>5 DEF Vouched, Confirming
    <3>2. VerifyScanPass
      BY <3>1 DEF IInv, Types, VerifyOK, VerifyCompleteness
    <3>3. ~\E b \in verify.wm \cap Has(embeddingNext) : embeddingNext[b].model # rows[i].to
      BY <3>1, <3>2 DEF VerifyScanPass, IInv, Types, VerifyOK
    <3>4. Foreign(j) \subseteq verify.wm
      BY <1>3, <2>1, <3>1 DEF ForeignBehind
    <3>5. Foreign(j) \subseteq Has(embeddingNext)
      BY <2>1 DEF Foreign, FilledLive, Filled, Has
    <3> QED
      BY <3>1, <3>3, <3>4, <3>5 DEF Foreign
  <2>6. VerdictHolds'
    BY <1>2, <2>1, <2>3, <2>5 DEF VerdictHolds
  <2> QED
    BY <2>2, <2>4, <2>6
<1> QED
  BY <1>5, <1>6 DEF Genuine

(* The verdict becomes the report of the row; a green one says what the run
   vouched for already. *)
LEMMA FinishVerifyGenuine == ASSUME IInv, FinishVerify PROVE Genuine'
<1> DEFINE i == verify.id
<1>1. RowsOK /\ i \in DOMAIN rows /\ verify.at = "verdict" /\ verify'.at = "idle"
  BY AtWork DEF IInv, Types, FinishVerify, NoVerify
<1>2. UNCHANGED <<embeddingNext, live, content, cutover, worker>>
  BY DEF FinishVerify, blockVars, vectorVars, opVars
<1>3. VerifyRests /\ CutoverRests /\ ArmRests /\ OnlyTakes
  BY <1>1, <1>2 DEF VerifyRests, CutoverRests, Confirming, ArmRests, OnlyTakes
<1>4. CASE rows' = rows
  BY <1>1, <1>3, <1>4, QuietStutter, QuietGenuine
<1>5. ASSUME NEW r, RowStep(i, r), rows[i].status = "verifying", r.wm = rows[i].wm,
             \/ verify.red /\ r.status = "paused" /\ r.report = "red"
             \/ ~verify.red /\ r.status = "verifying" /\ r.report = "green"
      PROVE  Genuine'
  <2>1. /\ DOMAIN rows' = DOMAIN rows /\ Active' \subseteq Active /\ Active \subseteq DOMAIN rows
        /\ \A j \in DOMAIN rows : rows'[j] = IF j = i THEN r ELSE rows[j]
    BY <1>1, <1>5, RowStepKeeps DEF Active, Lifecycle!ActiveOf
  <2>2. \A j \in Active' : Entered(j)' => Entered(j)
    BY <1>1, <1>2, <2>1 DEF Entered, Confirming
  <2>3. \A j \in Active' : Vouched(j)' => Vouched(j)
    BY <1>1, <1>2, <1>5, <2>1 DEF Vouched, Confirming
  <2>4. ClaimsLess
    BY <1>1, <1>5, <2>1, <2>2, <2>3 DEF ClaimsLess, RowStep
  <2>5. NoRollback' => NoRollback
    BY <1>5, <2>1 DEF NoRollback
  <2> QED
    BY <1>3, <2>4, <2>5, GenuineKept
<1> QED
  BY <1>4, <1>5, FinishRows DEF IInv

(* A confirm that passes its preflight found a green report. *)
LEMMA ConfirmPreflightGenuine ==
  ASSUME IInv, NEW i \in DOMAIN rows, ConfirmPreflight(i)
  PROVE  Genuine'
<1>1. /\ rows[i].report = "green" /\ rows[i].status = "verifying"
      /\ cutover'.id = i /\ RowsOK
      /\ UNCHANGED <<embeddingNext, live, content, rows, worker, verify>>
  BY DEF ConfirmPreflight, NoCutover, IInv, Types, blockVars, vectorVars
<1>2. Active' = Active
  BY <1>1 DEF Active, Lifecycle!ActiveOf
<1>3. \A j \in Active : (Entered(j)' => Entered(j)) /\ (Vouched(j)' => Vouched(j))
  BY <1>1 DEF Entered, Vouched, Confirming
<1>4. ClaimsLess /\ (NoRollback' => NoRollback)
  BY <1>1, <1>2, <1>3 DEF ClaimsLess, NoRollback
<1>5. OnlyTakes /\ ArmRests
  BY <1>1 DEF OnlyTakes, ArmRests
<1> QED
  BY <1>4, <1>5, GenuineKept

(* The cutover empties the _next pair and ends the claims on its row. *)
LEMMA ConfirmSwapGenuine == ASSUME IInv, ConfirmSwap PROVE Genuine'
<1> DEFINE i == cutover.id
           r == [rows[i] EXCEPT !.status = "done"]
<1>1. RowsOK /\ i \in DOMAIN rows /\ rows[i] \in Row
  BY AtWork DEF IInv, Types, RowsOK, ConfirmSwap
<1>2. r.status = "done" /\ r.report = rows[i].report
  BY <1>1 DEF Row
<1>3. rows' = rows \/ RowStep(i, r)
  BY <1>1, TransitionStep DEF ConfirmSwap
<1> HIDE DEF r
<1>4. VerifyRests /\ CutoverRests /\ ArmRests
  BY DEF VerifyRests, CutoverRests, Confirming, ArmRests, ConfirmSwap, IInv, Types, CutoverOK
<1>5. OnlyTakes
  BY DEF OnlyTakes, ConfirmSwap, AllNull, blockVars
<1>6. CASE rows' = rows
  BY <1>1, <1>4, <1>5, <1>6, QuietStutter, QuietGenuine
<1>7. CASE RowStep(i, r)
  BY <1>2, <1>4, <1>5, <1>7, RowStepClaimsLess, GenuineKept DEF IInv
<1> QED
  BY <1>3, <1>6, <1>7

(* A rollback ends the histories that are spoken of. *)
LEMMA RollbackSwapGenuine == ASSUME IInv, RollbackSwap PROVE Genuine'
<1> DEFINE i == cutover.id
           r == [rows[i] EXCEPT !.status = "rolled_back"]
<1>1. RowsOK /\ i \in DOMAIN rows /\ rows[i] \in Row /\ rows[i].status = "done"
  BY AtWork DEF IInv, Types, RowsOK, RollbackSwap
<1>2. r.status = "rolled_back" /\ r.report = rows[i].report
  BY <1>1 DEF Row
<1>3. Lifecycle!IsAllowedTransition("done", "rolled_back")
  BY DEF Lifecycle!IsAllowedTransition, Lifecycle!Edges, Lifecycle!Statuses, Lifecycle!NonTerminal
<1>4. rows' = [rows EXCEPT ![i] = r]
  BY <1>1, <1>3 DEF RollbackSwap, Transition
<1>5. rows' = rows \/ RowStep(i, r)
  BY <1>1, TransitionStep DEF RollbackSwap
<1> HIDE DEF r
<1>6. VerifyRests /\ CutoverRests /\ ArmRests
  BY DEF VerifyRests, CutoverRests, Confirming, ArmRests, RollbackSwap, IInv, Types, CutoverOK
<1>7. ClaimsLess
  BY <1>1, <1>2, <1>5, <1>6, RowStepClaimsLess, QuietStutter, QuietClaimsLess DEF IInv
<1>8. ~NoRollback'
  BY <1>1, <1>2, <1>4 DEF NoRollback, RowsOK
<1> QED
  BY <1>6, <1>7, <1>8, ArmKept DEF IInv, Genuine

(* A new migration has not entered the gate, and nobody acts on it yet. *)
LEMMA CreateInsertGenuine == ASSUME IInv, CreateInsert PROVE Genuine'
<1>1. creating.from \in Models /\ creating.to \in Models /\ RowsOK /\ rows \in Seq(Row)
  BY DEF IInv, Types, RowsOK, CreateOK, CreateInsert
<1>2. UNCHANGED <<embeddingNext, live, content, verify, cutover, worker>>
  BY DEF CreateInsert, blockVars, vectorVars
<1>3. VerifyRests /\ CutoverRests /\ ArmRests /\ OnlyTakes
  BY <1>2 DEF VerifyRests, CutoverRests, Confirming, ArmRests, OnlyTakes
<1>4. CASE rows' = rows
  BY <1>1, <1>3, <1>4, QuietStutter, QuietGenuine
<1>5. CASE Active = {} /\ NewRow \in Row /\ rows' = Append(rows, NewRow)
  <2>0. PICK n : n = Len(rows) + 1
    OBVIOUS
  <2>1. /\ rows'[n] = NewRow /\ Len(rows') = n /\ rows' \in Seq(Row) /\ Len(rows) \in Nat
        /\ \A j \in 1..Len(rows) : rows'[j] = rows[j]
    BY <1>1, <1>5, <2>0, AppendProperties
  <2>2. DOMAIN rows = 1..Len(rows) /\ DOMAIN rows' = 1..n
    BY <1>1, <2>1
  <2>3. \A j \in Active' : j = n
    BY <1>5, <2>0, <2>1, <2>2 DEF Active, Lifecycle!ActiveOf
  <2>4. verify.at # "idle" => verify.id # n
    BY <2>0, <2>1, <2>2, AtWork DEF IInv
  <2>5. cutover.at # "idle" => cutover.id # n
    BY <2>0, <2>1, <2>2, AtWork DEF IInv
  <2>6. rows'[n].status = "pending" /\ rows'[n].report = "none"
    BY <2>1 DEF NewRow
  <2>7. ~Entered(n)'
    BY <1>2, <2>4, <2>5, <2>6 DEF Entered, Confirming
  <2>8. ClaimsLess
    BY <2>3, <2>7 DEF ClaimsLess
  <2>9. NoRollback' => NoRollback
    BY <2>0, <2>1, <2>2 DEF NoRollback
  <2> QED
    BY <1>3, <2>8, <2>9, GenuineKept
<1> QED
  BY <1>1, <1>4, <1>5, InsertRows

-----------------------------------------------------------------------------
(* The invariant. *)

(* Before the first migration nothing is claimed and nothing is filled. *)
LEMMA InitGenuine == Init => Genuine
<1> SUFFICES ASSUME Init PROVE Genuine
  OBVIOUS
<1>1. Active = {} /\ Filled = {} /\ worker.at = "idle"
  BY DEF Init, Active, Lifecycle!ActiveOf, Filled, AllNull, NoWork
<1> QED
  BY <1>1 DEF Genuine, ArmOnEntered, FilledLive, FilledCurrent, ForeignBehind, VerdictHolds

(* Every step of every actor keeps what a cutover relies on. *)
LEMMA NextGenuine == IInv /\ [Next]_vars => Genuine'
<1> SUFFICES ASSUME IInv, [Next]_vars PROVE Genuine'
  OBVIOUS
<1>1. CASE Operator
  BY <1>1, OperatorToGenuine, ConfirmPreflightGenuine, CutoverRequestGenuine, CreateCheckGenuine,
     ArmGenuine, CreateInsertGenuine, PurgeGenuine, CleanupGenuine DEF Operator
<1>2. CASE CutoverStep
  BY <1>2, CutoverRequestGenuine, ConfirmSwapGenuine, RollbackSwapGenuine, PostCommitGenuine
     DEF CutoverStep
<1>3. CASE ArmStep
  BY <1>3, CycleStartGenuine, MigratePickGenuine, MigrateQueueEndGenuine, MigrateStopGenuine,
     MigrateStoreGenuine, MigrateWireFailureGenuine, ProbePendingGenuine, EnterVerifyingGenuine
     DEF ArmStep
<1>4. CASE VerifyStep
  BY <1>4, VerifyScanGenuine, FinishVerifyGenuine, VerifyFailsGenuine DEF VerifyStep
<1>5. CASE Writer
  BY <1>5, NewBlockGenuine, TextGenuine, FinishBlockUpdateGenuine, BackfillGenuine DEF Writer
<1>6. CASE Reload \/ BackoffElapses \/ Crash
  BY <1>6, ArmGenuine, BackoffElapsesGenuine, CrashGenuine
<1>7. CASE UNCHANGED vars
  BY <1>7, StutterGenuine
<1> QED
  BY <1>1, <1>2, <1>3, <1>4, <1>5, <1>6, <1>7 DEF Next

(* IInv is an invariant of the migration and of the writers beside it. *)
LEMMA Invariance == Spec => []IInv
<1>1. Init => IInv
  BY InitTypes, InitGenuine DEF IInv
<1>2. IInv /\ [Next]_vars => IInv'
  BY NextTypes, NextGenuine DEF IInv
<1> QED
  BY <1>1, <1>2, PTL DEF Spec

(* Only ConfirmSwap takes a confirm from its swap to the reload. *)
LEMMA SwapIsConfirm == ASSUME Types, [Next]_vars, Swapping PROVE ConfirmSwap
<1>1. cutover.at = "swap" /\ cutover.op = "confirm" /\ cutover'.at = "reload" /\ cutover' # cutover
  BY DEF Swapping
<1>2. ~UNCHANGED vars /\ ~Reload /\ ~BackoffElapses /\ ~Crash
  BY <1>1 DEF vars, opVars, Reload, BackoffElapses, Crash, NoCutover
<1>3. ~ArmStep /\ ~VerifyStep
  BY <1>1 DEF ArmStep, CycleStart, MigratePick, MigrateQueueEnd, MigrateStop, MigrateStore,
     MigrateWireFailure, ProbePending, EnterVerifying, VerifyStep, VerifyCompleteness,
     VerifyScanPass, FinishVerify, VerifyFails, opVars
<1>4. ~Writer
  BY <1>1 DEF Writer, NewBlock, UpsertBlock, UpdateBlock, FinishBlockUpdate,
     PullUpdateIssueBlock, NewText, BackfillPick, BackfillStore, BackfillOversize, opVars
<1>5. ~Operator
  BY <1>1 DEF Operator, OperatorTo, ConfirmPreflight, RollbackPreflight, CreateCheck, Arm,
     CreateProbe, CreateInsert, PurgeStart, PurgeBatch, CleanupEmbedMigration, NoCutover, opVars
<1>6. CASE CutoverStep
  BY <1>1, <1>6 DEF CutoverStep, ConfirmRecheck, CutoverRefused, RollbackSwap, CutoverReload,
     SweepForeign, SweepMemos, CopyInfinityMemos, PostCommitFails, NoCutover
<1> QED
  BY <1>2, <1>3, <1>4, <1>5, <1>6 DEF Next

(* The cutover installs vectors of the target model only and, where every write
   of the text clears both pairs with it, only vectors of the current text,
   whatever batches, purges, leftovers, re-runs and late verdicts came before. *)
THEOREM CutoverInstallsGenuine == Spec => CutoverGenuine
<1>1. ASSUME IInv, [Next]_vars, Swapping, NoRollback, NEW b \in Has(embeddingNext)
      PROVE  /\ embeddingNext[b].model = rows[cutover.id].to
             /\ ClearedWithText(b) => embeddingNext[b].ver = content[b]
  <2> DEFINE i == cutover.id
  <2>1. Confirming(i)
    BY <1>1 DEF Swapping, Confirming
  <2>2. ConfirmSwap
    BY <1>1, SwapIsConfirm DEF IInv
  <2>3. i \in Active
    BY <1>1, <2>2, AtWork DEF IInv, ConfirmSwap, Active, Lifecycle!ActiveOf, Lifecycle!NonTerminal
  <2>4. FilledCurrent /\ VerdictHolds /\ b \in Filled
    BY <1>1 DEF IInv, Genuine, Has, Filled, Types, BlocksOK
  <2>5. Foreign(i) = {}
    BY <2>1, <2>3, <2>4 DEF VerdictHolds, Vouched
  <2> QED
    BY <2>4, <2>5 DEF Foreign, FilledCurrent, Filled
<1>2. IInv /\ [Next]_vars
        => [Swapping /\ (\A i \in DOMAIN rows : rows[i].status # "rolled_back") =>
              \A b \in Has(embeddingNext) :
                 /\ embeddingNext[b].model = rows[cutover.id].to
                 /\ (\A p \in Paths : p[1] = b => p[2] = "upsert") =>
                       embeddingNext[b].ver = content[b]]_vars
  BY <1>1 DEF NoRollback, ClearedWithText
<1> QED
  BY <1>2, Invariance, PTL DEF Spec, CutoverGenuine
=============================================================================
