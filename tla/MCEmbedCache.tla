---------------------------- MODULE MCEmbedCache ----------------------------
(* Two topologies that are edited into each other: an operator's row before one
   without a model, and a tenant's row before two operator's rows, the last one
   with another model. *)
EXTENDS EmbedCache

CONSTANTS c1, ba, bb, bc, tenant, nomodel

Rowset == {ba, bb, bc, tenant, nomodel}
Hosts == [r \in Rowset |-> r]
ModelNames == [r \in Rowset |-> IF r = nomodel THEN "" ELSE IF r \in {bc, tenant} THEN "m2" ELSE "m1"]
Operator == [r \in Rowset |-> r # tenant]
First == <<ba, nomodel>>
Second == <<tenant, bb, bc>>
Chains == {First, Second}
BackAndForth == {<<First, Second>>, <<Second, First>>}
=============================================================================
