------------------------------- MODULE MCSwap -------------------------------
(* Hot swaps of policy and settings under load. *)
EXTENDS Dispatcher

CONSTANTS i1, u1, u2, x1

Mixed == {i1, u1, u2, x1}
Overrun == {i1, x1}
MixedAsked == [r \in Mixed |-> CASE r = i1 -> "I"
                                 [] r \in {u1, u2} -> "XU" [] r = x1 -> "XB"]
Knowledge(k) == [conflict |-> FALSE, consumer |-> "", key |-> k, scope |-> "", tenant |-> "t1"]
Model(k, t) == [conflict |-> FALSE, consumer |-> k, key |-> "", scope |-> "", tenant |-> t]
MixedPrincipal == [r \in Mixed |-> CASE r = i1 -> Knowledge("k1")
                                     [] r = u1 -> Model("c1", "t1") [] r = u2 -> Model("c2", "t2")
                                     [] r = x1 -> Model("c1", "t1")]
MixedWeight == [r \in Mixed |-> IF r = u1 THEN 2 ELSE 0]
Never == [r \in Mixed |-> FALSE]
Equal == [k \in {"c1", "c2"} |-> 1]

Base == [slots |-> 3, reserved |-> 1, extMax |-> 0, offer |-> FALSE,
         preempt |-> FALSE, interactiveRole |-> TRUE]
SelfAdmitting == [Base EXCEPT !.slots = 0, !.reserved = 0, !.offer = TRUE, !.extMax = 3]
Cleared == [Base EXCEPT !.slots = 0, !.reserved = 0]
Shrunk == [Base EXCEPT !.reserved = 2]
Policies == {Base, SelfAdmitting, Cleared, Shrunk}
Plain == [enabled |-> TRUE, order |-> o1, aging |-> FALSE, rr |-> FALSE,
          iCaps |-> NoCaps, xCaps |-> NoCaps, bMax |-> 0]
Steady == {Plain, [Plain EXCEPT !.enabled = FALSE]}
=============================================================================
