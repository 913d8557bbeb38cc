----------------------------- MODULE MCDistill ------------------------------
(* Three manifests, two of them in one watermark group that the window of the
   reader would split. The first call, over k1 and k2, yields more than its shard takes
   and leaves k3; k1 comes a second time, and k4 is discarded. *)
EXTENDS Distill

CONSTANTS k1, k2, k3, k4, k5

Three == << [wm |-> 1, chunks |-> <<k1, k2, k3>>], [wm |-> 2, chunks |-> <<k4, k1>>],
            [wm |-> 2, chunks |-> <<k5>>] >>
Found == [x \in {k1, k2, k3, k4, k5} |->
            CASE x = k1 -> <<1, 2>> [] x = k2 -> <<3>> [] x = k3 -> <<4>>
              [] x = k4 -> <<>> [] x = k5 -> <<5>>]
Budget(fa, br, cr, dr, fo) ==
    [faults |-> fa, brakes |-> br, crashes |-> cr, drops |-> dr, foreign |-> fo]
Chosen == {Budget(1, 0, 1, 0, 0), Budget(0, 1, 1, 0, 0), Budget(0, 0, 0, 1, 1)}
=============================================================================
