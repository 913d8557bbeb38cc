------------------------------ MODULE MCClasses -------------------------------
(* All four classes on a partitioned, preempting target (S = 3, R = 1) with a
   weighted external request that is a continuation, and the aging escape: under
   queue caps of one with principal round-robin, and with the interactive queue
   open and the other rank order; the settings change under load. *)
EXTENDS Dispatcher

CONSTANTS i1, i2, b1, b2, u1, x1

Mixed == {i1, i2, b1, b2, u1, x1}
Nobody == {}
MixedAsked == [r \in Mixed |-> CASE r \in {i1, i2} -> "I" [] r \in {b1, b2} -> "B"
                                 [] r = u1 -> "XU" [] r = x1 -> "XB"]
Knowledge(k) == [conflict |-> FALSE, consumer |-> "", key |-> k, scope |-> "", tenant |-> "t1"]
Model(k, t) == [conflict |-> FALSE, consumer |-> k, key |-> "", scope |-> "", tenant |-> t]
MixedPrincipal == [r \in Mixed |-> CASE r \in {i1, i2} -> Knowledge("k1")
                                     [] r \in {b1, b2} -> Knowledge("")
                                     [] r = u1 -> Model("c1", "t1") [] r = x1 -> Model("c2", "t1")]
MixedWeight == [r \in Mixed |-> IF r = u1 THEN 2 ELSE 0]
Continued == [r \in Mixed |-> r = u1]
Equal == [k \in {"c1", "c2"} |-> 1]

Base == [slots |-> 3, reserved |-> 1, extMax |-> 0, offer |-> FALSE,
         preempt |-> TRUE, interactiveRole |-> TRUE]
Fixed == {Base}
OneEach == [principal |-> 1, tenant |-> 1, total |-> 1]
Capped == [enabled |-> TRUE, order |-> o2, aging |-> TRUE, rr |-> TRUE,
           iCaps |-> OneEach, xCaps |-> OneEach, bMax |-> 1]
Open == [Capped EXCEPT !.order = o1, !.iCaps = NoCaps, !.rr = FALSE]
Steady == {Capped, Open}
=============================================================================
