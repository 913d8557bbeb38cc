------------------------- MODULE MigrationLifecycle -------------------------
(* What the re-embed state machine promises its operator, without the worker,
   the verify gate and the vectors behind it: a history of migrations of which
   at most one is active, each moving along the edges of allowedTransitions; the
   serving space changes with a cutover or its rollback and with nothing else,
   and the columns a rollback returns to exist from the cutover on until they
   are used or cleaned up. *)
EXTENDS Sequences, Naturals

CONSTANT Models

VARIABLES history,   \* the migrations, oldest first: [status, from, to]
          space,     \* the model the serving vectors are asked of
          anchored   \* the _old columns exist

vars == <<history, space, anchored>>

NonTerminal == {"pending", "running", "paused", "verifying"}
Statuses == NonTerminal \cup {"done", "aborted", "rolled_back"}

(* state.go: allowedTransitions *)
Edges ==
    [s \in Statuses |->
        CASE s = "pending" -> {"running", "aborted"}
          [] s = "running" -> {"paused", "verifying", "aborted"}
          [] s = "paused" -> {"running", "aborted"}
          [] s = "verifying" -> {"running", "paused", "done", "aborted"}
          [] s = "done" -> {"rolled_back"}
          [] s \in {"aborted", "rolled_back"} -> {}]

IsAllowedTransition(from, to) == to \in Edges[from]

ActiveOf(rows) == {i \in DOMAIN rows : rows[i].status \in NonTerminal}

Init == history = <<>> /\ space \in Models /\ anchored = FALSE

(* A migration is created only while none is active. *)
Begin ==
    /\ ActiveOf(history) = {}
    /\ \E from, to \in Models :
          history' = Append(history, [status |-> "pending", from |-> from, to |-> to])
    /\ UNCHANGED <<space, anchored>>

To(i, s) ==
    /\ IsAllowedTransition(history[i].status, s)
    /\ history' = [history EXCEPT ![i].status = s]

Move(i) ==
    /\ \E s \in NonTerminal \cup {"aborted"} : To(i, s)
    /\ UNCHANGED <<space, anchored>>

(* The cutover is one step: status, serving space and anchor together. *)
Cutover(i) ==
    /\ To(i, "done")
    /\ ~anchored /\ anchored' = TRUE
    /\ space' = history[i].to

(* The rollback, too: it undoes the last cutover, the one the anchor is of. *)
LastCutover(i) == \A j \in DOMAIN history : j > i => history[j].status # "done"

Rollback(i) ==
    /\ LastCutover(i) /\ To(i, "rolled_back")
    /\ anchored /\ anchored' = FALSE
    /\ space' = history[i].from

Cleanup ==
    /\ anchored /\ anchored' = FALSE
    /\ UNCHANGED <<history, space>>

Next == \/ Begin \/ Cleanup
        \/ \E i \in DOMAIN history : Move(i) \/ Cutover(i) \/ Rollback(i)

Spec == Init /\ [][Next]_vars
=============================================================================
