--------------------------- MODULE DispatchPolicy ---------------------------
(***************************************************************************)
(* The stateless half of internal/dispatch: the class table, the rank      *)
(* orders, the resolved policy of one target and the share arithmetic of   *)
(* the external fairness order.                                            *)
(***************************************************************************)
EXTENDS Integers, Sequences, FiniteSets

(* The class table: interactive, background, external (urgent) and external
   bulk.  An external class serves consumers outside the house. *)
Classes == {"I", "B", "XU", "XB"}
External(c) == c \in {"XU", "XB"}

(* The two named rank orders; interactive holds rank 1 in every valid one. *)
o1 == <<"I", "XU", "B", "XB">>
o2 == <<"I", "B", "XU", "XB">>

validRankOrder(order) ==
    /\ order \in [1..4 -> Classes]
    /\ order[1] = "I"
    /\ \A i, j \in 1..4 : order[i] = order[j] => i = j

RankOrders == {o \in [1..4 -> Classes] : validRankOrder(o)}

(* An order that is not valid is replaced by the default when it is stored. *)
resolveRankOrder(order) == IF validRankOrder(order) THEN order ELSE o1

Rank(order, c) == CHOOSE i \in 1..4 : order[i] = c
(* Mutant: the comparison is turned round. *)
Above_Below(order, c) == {h \in Classes : Rank(order, h) > Rank(order, c)}
Above(order, c) == {h \in Classes : Rank(order, h) < Rank(order, c)}

(* What the dispatcher reads of one target's policy: the slots S, the
   internal partition R, the external cap, the offer of a target without
   slots, and the two switches of the background class. *)
TargetPolicy ==
    [slots : Nat, reserved : Nat, extMax : Nat, offer : BOOLEAN,
     preempt : BOOLEAN, interactiveRole : BOOLEAN]

NoOffer == [offered |-> FALSE, capacity |-> 0]

(* Mutant: the internal partition is not taken off. *)
externalCapacity_WholeTarget(p) ==
    IF p.slots > 0
    THEN [offered |-> p.reserved >= 1, capacity |-> p.slots]
    ELSE [offered |-> p.offer, capacity |-> p.extMax]

(* A slot-managed target offers its external classes S - R units, a target
   without slots offers by its flag; capacity 0 on an offered target is "no
   external cap". *)
externalCapacity(p) ==
    LET rest == p.slots - p.reserved
    IN  IF p.slots > 0
        THEN IF p.reserved >= 1 /\ rest >= 1
             THEN [offered |-> TRUE,
                   capacity |-> IF p.extMax > 0 /\ p.extMax < rest THEN p.extMax ELSE rest]
             ELSE NoOffer
        ELSE [offered |-> p.offer, capacity |-> p.extMax]

(* The cap ladder of one class queue, each step off at 0. *)
Caps == [principal : Nat, tenant : Nat, total : Nat]
NoCaps == [principal |-> 0, tenant |-> 0, total |-> 0]

Settings ==
    [enabled : BOOLEAN, order : RankOrders,
     aging : BOOLEAN, rr : BOOLEAN, iCaps : Caps, xCaps : Caps, bMax : Nat]

(* A settings row as it is stored. *)
resolvedSettings(s) == [s EXCEPT !.order = resolveRankOrder(s.order)]

(* num/den of n units, rounded up, at least one. *)
shareOf(n, num, den) ==
    LET d == IF den > 1 THEN den ELSE 1
        q == (n * num + d - 1) \div d
    IN  IF q > 1 THEN q ELSE 1

(* A holder of nothing is never over its share. *)
overShare(units, w, share) == units > 0 /\ units + w > share
=============================================================================
