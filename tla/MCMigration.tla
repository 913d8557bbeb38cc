---------------------------- MODULE MCMigration -----------------------------
(* One block whose writes clear with the text and one, created while a migration
   runs, that is written by the other paths and is at first too long for a model. *)
EXTENDS EmbedMigration

CONSTANTS m0, m1, m2, none

All == {m0, m1, m2}
Next2 == {m1, m2}
Long == {<<2, 0, m1>>}
Written == {<<1, "upsert">>, <<2, "update">>, <<2, "pull">>}
Pulled == {<<1, "pull">>}

Budget(mi, ar, ed, bl, fa, cr, re) ==
    [migrations |-> mi, arms |-> ar, edits |-> ed, blocks |-> bl, faults |-> fa, crashes |-> cr,
     reruns |-> re]
Chosen == {Budget(2, 2, 0, 0, 0, 0, 0), Budget(1, 1, 1, 1, 0, 0, 0), Budget(1, 1, 1, 0, 1, 1, 0),
           Budget(1, 1, 1, 0, 0, 0, 1)}
OneEdit == {Budget(1, 1, 1, 0, 0, 0, 0)}
TwoMigrations == {Budget(2, 2, 0, 0, 0, 0, 0)}
=============================================================================
