-------------------------- MODULE MCGraphCacheLive --------------------------
(* One write whose signal alone must bring it into the snapshot: the hard
   interval lies beyond the horizon of the ages. *)
EXTENDS GraphCache

CONSTANT w1

One == {w1}
OneNeeds == [w \in One |-> {"universe", "dream"}]
=============================================================================
