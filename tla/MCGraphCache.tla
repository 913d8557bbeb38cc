---------------------------- MODULE MCGraphCache ----------------------------
(* A link between known blocks and one that arrives with its new block, a
   restart, lost connections, failing builds and a hot switch. *)
EXTENDS GraphCache

CONSTANTS w1, w2

Two == {w1, w2}
TwoNeeds == [w \in Two |-> IF w = w1 THEN {"struct"} ELSE {"universe", "dream"}]
=============================================================================
