------------------------------- MODULE MCLive -------------------------------
(* Progress on two kinds of target, one of which a behaviour chooses at its
   start. A preempting one of a single slot serves an interactive caller whose
   herald never has to fall and two background callers, one of each able to
   hang; a partitioned one serves a heavy external consumer beside two light
   ones of its tenant, whose slot times move freely. *)
EXTENDS Dispatcher

CONSTANTS i1, b1, b2, u1, u2, u3

InHouse == {i1, b1, b2}
Urgent == {u1, u2, u3}
Hanging == {i1, b2}
Callers == InHouse \cup Urgent
CallersAsked == [r \in Callers |-> IF r = i1 THEN "I" ELSE IF r \in Urgent THEN "XU" ELSE "B"]
Who(consumer, k) == [conflict |-> FALSE, consumer |-> consumer, key |-> k, scope |-> "",
                     tenant |-> "t1"]
CallersPrincipal ==
    [r \in Callers |-> CASE r = i1 -> Who("", "k1") [] r = u1 -> Who("c1", "")
                         [] r = u2 -> Who("c2", "") [] r = u3 -> Who("c3", "")
                         [] OTHER -> Who("", "")]
CallersWeight == [r \in Callers |-> CASE r = u1 -> 2 [] r \in {u2, u3} -> 1 [] OTHER -> 0]
Never == [r \in Callers |-> FALSE]
Equal == [k \in {"c1", "c2", "c3"} |-> 1]

Preempting == [slots |-> 1, reserved |-> 0, extMax |-> 0, offer |-> FALSE,
               preempt |-> TRUE, interactiveRole |-> TRUE]
Partitioned == [slots |-> 3, reserved |-> 1, extMax |-> 0, offer |-> FALSE,
                preempt |-> FALSE, interactiveRole |-> TRUE]
Kinds == {Preempting, Partitioned}
Aging == [enabled |-> TRUE, order |-> o1, aging |-> TRUE, rr |-> FALSE,
          iCaps |-> NoCaps, xCaps |-> NoCaps, bMax |-> 0]
Steady == {Aging}

(* Each kind of target has its own visitors; the single tenant of the external
   ones needs no slot time. *)
Visitors == IF policy = Preempting THEN InHouse ELSE Urgent
SameKind ==
    /\ UNCHANGED policy
    /\ \A r \in Callers \ Visitors : phase'[r] = "idle"
    /\ IF policy = Preempting THEN UNCHANGED slotTime ELSE demand' = 0 /\ UNCHANGED slotTime.tenant

KindSpec == Init /\ [][Next /\ SameKind]_vars /\ Fairness
=============================================================================
