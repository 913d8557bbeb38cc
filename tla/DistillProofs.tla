---------------------------- MODULE DistillProofs ----------------------------
(***************************************************************************)
(* Proofs about Distill for every corpus of manifests, every yield of their *)
(* chunks, every size of windows, calls and shards and every sequence of   *)
(* failures, brakes, crashes and lost notifications.                       *)
(***************************************************************************)
EXTENDS Distill, SequenceTheorems, FiniteSetTheorems, WellFoundedInduction, TLAPS

-----------------------------------------------------------------------------
(* Numbers. *)

(* A set of naturals that is not empty has a least element. *)
LEMMA NatMin ==
  ASSUME NEW T \in SUBSET Nat, T # {}
  PROVE  \E x \in T : \A y \in T : x <= y
<1>1. PICK R : R = OpToRel(<, Nat)
  OBVIOUS
<1>2. R = {ss \in Nat \X Nat : ss[1] < ss[2]}
  BY <1>1 DEF OpToRel
<1>3. IsWellFoundedOn(R, Nat)
  BY <1>1, NatLessThanWellFounded
<1>4. PICK x \in T : \A y \in T : ~(<<y, x>> \in R)
  BY <1>3, WFMin
<1>5. ASSUME NEW y \in T PROVE x <= y
  <2>1. x \in Nat /\ y \in Nat
    OBVIOUS
  <2>2. <<y, x>> \notin R
    BY <1>4
  <2>3. ~(y < x)
    BY <1>2, <2>1, <2>2
  <2> QED
    BY <2>1, <2>3
<1> QED
  BY <1>5

(* Min is that element. *)
LEMMA MinIs ==
  ASSUME NEW T \in SUBSET Nat, T # {}
  PROVE  Min(T) \in T /\ \A y \in T : Min(T) <= y
  BY NatMin DEF Min

(* Max is the greatest of a set of naturals with a bound. *)
LEMMA MaxIs ==
  ASSUME NEW b \in Nat, NEW T \in SUBSET (0..b), T # {}
  PROVE  Max(T) \in T /\ \A y \in T : y <= Max(T)
<1> DEFINE D == {b - x : x \in T}
<1>0. \A x \in T : x \in Nat /\ x <= b
  OBVIOUS
<1>1. D \in SUBSET Nat /\ D # {}
  BY <1>0
<1>2. PICK d \in D : \A y \in D : d <= y
  <2> HIDE DEF D
  <2> QED
    BY <1>1, NatMin
<1>3. PICK x \in T : d = b - x
  OBVIOUS
<1>4. \A y \in T : b - x <= b - y
  BY <1>2, <1>3
<1>5. \A y \in T : y <= x
  BY <1>0, <1>3, <1>4
<1>6. \E z \in T : \A y \in T : z >= y
  BY <1>3, <1>5
<1> QED
  BY <1>6 DEF Max

(* The greater of two numbers. *)
LEMMA MaxTwo ==
  ASSUME NEW a \in Int, NEW b \in Int
  PROVE  Max({a, b}) = IF a >= b THEN a ELSE b
<1>1. \E z \in {a, b} : \A y \in {a, b} : z >= y
  OBVIOUS
<1> QED
  BY <1>1 DEF Max

(* The lesser of two numbers. *)
LEMMA MinTwo ==
  ASSUME NEW a \in Int, NEW b \in Int
  PROVE  Min({a, b}) = IF a <= b THEN a ELSE b
<1>1. \E z \in {a, b} : \A y \in {a, b} : z <= y
  OBVIOUS
<1> QED
  BY <1>1 DEF Min
-----------------------------------------------------------------------------
(* Sequences. *)

(* g[i] is what the first i of n pieces make when they are put together. *)
Glued(g, p, n, S) ==
    /\ g \in [0..n -> Seq(S)] /\ g[0] = <<>>
    /\ \A i \in 1..n : g[i] = g[i - 1] \o p[i]

(* Pieces can be put together one after the other. *)
LEMMA Pieces ==
  ASSUME NEW S, NEW n \in Nat, NEW p \in [1..n -> Seq(S)]
  PROVE  \E g : Glued(g, p, n, S)
<1> DEFINE Good(m) == \E g : Glued(g, p, m, S)
           Bad == {m \in 0..n : ~Good(m)}
<1>0. n \in 0..n /\ Bad \in SUBSET Nat
  <2> HIDE DEF Good
  <2> QED
    OBVIOUS
<1>1. SUFFICES ASSUME Bad # {} PROVE FALSE
  <2>1. CASE n \in Bad
    BY <1>1, <2>1
  <2>2. CASE n \notin Bad
    BY <1>0, <2>2
  <2> QED
    BY <2>1, <2>2
<1>2. PICK m \in Bad : \A y \in Bad : m <= y
  <2> HIDE DEF Bad
  <2> QED
    BY <1>0, <1>1, NatMin
<1>3. m \in 0..n /\ ~Good(m)
  OBVIOUS
<1>4. m # 0
  <2>1. ASSUME m = 0 PROVE FALSE
    <3> DEFINE g == [i \in 0..0 |-> <<>>]
    <3>1. g \in [0..0 -> Seq(S)] /\ g[0] = <<>>
      BY EmptySeq
    <3>2. \A i \in 1..0 : g[i] = g[i - 1] \o p[i]
      OBVIOUS
    <3> HIDE DEF g
    <3> QED
      BY <1>3, <2>1, <3>1, <3>2 DEF Glued
  <2> QED
    BY <2>1
<1>5. m - 1 \in 0..n /\ Good(m - 1)
  <2>1. m - 1 \in 0..n /\ ~(m <= m - 1)
    BY <1>3, <1>4
  <2>2. m - 1 \notin Bad
    <3> HIDE DEF Bad
    <3> QED
      BY <1>2, <2>1
  <2> QED
    BY <2>1, <2>2
<1>6. PICK g \in [0..(m - 1) -> Seq(S)] :
         g[0] = <<>> /\ \A i \in 1..(m - 1) : g[i] = g[i - 1] \o p[i]
  BY <1>5 DEF Glued
<1> DEFINE h == [i \in 0..m |-> IF i = m THEN g[m - 1] \o p[m] ELSE g[i]]
<1>7. g[m - 1] \o p[m] \in Seq(S)
  <2>1. g[m - 1] \in Seq(S) /\ p[m] \in Seq(S)
    BY <1>3, <1>4, <1>6
  <2> QED
    BY <2>1, ConcatProperties
<1>8. h \in [0..m -> Seq(S)] /\ h[0] = <<>>
  BY <1>3, <1>4, <1>6, <1>7, SMTT(30)
<1>9. ASSUME NEW i \in 1..m PROVE h[i] = h[i - 1] \o p[i]
  <2>1. /\ i \in 0..m /\ i - 1 \in 0..m /\ i - 1 # m
        /\ h[i - 1] = g[i - 1]
    BY <1>3
  <2>2. CASE i = m
    BY <2>1, <2>2
  <2>3. CASE i # m
    <3>1. i \in 1..(m - 1)
      BY <1>3, <2>3
    <3>2. h[i] = g[i]
      BY <2>1, <2>3
    <3> HIDE DEF h
    <3> QED
      BY <1>6, <2>1, <3>1, <3>2
  <2> QED
    BY <2>2, <2>3
<1>10. Good(m)
  <2> HIDE DEF h
  <2> QED
    BY <1>8, <1>9 DEF Glued
<1> QED
  BY <1>3, <1>10

(* What is in a concatenation. *)
LEMMA ConcatSet ==
  ASSUME NEW S, NEW s \in Seq(S), NEW t \in Seq(S)
  PROVE  ToSet(s \o t) = ToSet(s) \cup ToSet(t)
<1>1. /\ Len(s) \in Nat /\ Len(t) \in Nat /\ DOMAIN s = 1..Len(s) /\ DOMAIN t = 1..Len(t)
      /\ s \o t \in Seq(S) /\ Len(s \o t) = Len(s) + Len(t)
      /\ DOMAIN (s \o t) = 1..(Len(s) + Len(t))
  BY LenProperties, ConcatProperties
<1>2. \A i \in 1..(Len(s) + Len(t)) :
         (s \o t)[i] = IF i <= Len(s) THEN s[i] ELSE t[i - Len(s)]
  BY ConcatProperties
<1>3. ASSUME NEW i \in 1..Len(s) PROVE i \in 1..(Len(s) + Len(t)) /\ (s \o t)[i] = s[i]
  BY <1>1, <1>2
<1>4. ASSUME NEW i \in 1..Len(t)
      PROVE  Len(s) + i \in 1..(Len(s) + Len(t)) /\ (s \o t)[Len(s) + i] = t[i]
  BY <1>1, <1>2
<1>5. ASSUME NEW i \in 1..(Len(s) + Len(t)) PROVE (s \o t)[i] \in ToSet(s) \cup ToSet(t)
  BY <1>1, <1>2 DEF ToSet
<1>6. ToSet(s) \cup ToSet(t) \subseteq ToSet(s \o t)
  BY <1>1, <1>3, <1>4 DEF ToSet
<1>7. ToSet(s \o t) \subseteq ToSet(s) \cup ToSet(t)
  <2>1. \A x \in ToSet(s \o t) : \E i \in 1..(Len(s) + Len(t)) : x = (s \o t)[i]
    BY <1>1 DEF ToSet
  <2> QED
    BY <1>5, <2>1
<1> QED
  BY <1>6, <1>7

(* FlattenSeq puts the members of a sequence of sequences one after the other:
   the partial results of its recursion. *)
LEMMA FlattenIs ==
  ASSUME NEW S, NEW ss \in Seq(Seq(S))
  PROVE  \E g : Glued(g, ss, Len(ss), S) /\ FlattenSeq(ss) = g[Len(ss)]
<1>1. Len(ss) \in Nat /\ ss \in [1..Len(ss) -> Seq(S)]
  BY LenProperties
<1>2. PICK g \in [0..Len(ss) -> Seq(S)] :
         g[0] = <<>> /\ \A i \in 1..Len(ss) : g[i] = g[i - 1] \o ss[i]
  <2>1. \E g : Glued(g, ss, Len(ss), S)
    BY <1>1, Pieces
  <2> QED
    BY <2>1 DEF Glued
<1>3. CASE Len(ss) = 0
  <2>1. ss = <<>>
    BY <1>3, EmptySeq
  <2>2. FlattenSeq(ss) = <<>>
    BY <1>3, <2>1, Zenon DEF FlattenSeq
  <2> QED
    BY <1>2, <1>3, <2>2 DEF Glued
<1>4. CASE Len(ss) # 0
  <2> DEFINE n == Len(ss)
             Step(f) == [i \in 1..n |-> IF i = 1 THEN ss[i] ELSE f[i - 1] \o ss[i]]
             f == CHOOSE q : q = Step(q)
             h == [i \in 1..n |-> g[i]]
  <2>1. h = Step(h)
    <3>1. ASSUME NEW i \in 1..n PROVE h[i] = IF i = 1 THEN ss[i] ELSE h[i - 1] \o ss[i]
      <4>1. h[i] = g[i - 1] \o ss[i] /\ ss[i] \in Seq(S)
        BY <1>1, <1>2
      <4>2. CASE i = 1
        <5>1. g[i - 1] = <<>>
          BY <1>2, <4>2
        <5> QED
          BY <4>1, <4>2, <5>1, ConcatEmptySeq
      <4>3. CASE i # 1
        <5>1. i - 1 \in 1..n
          BY <1>1, <4>3
        <5>2. h[i - 1] = g[i - 1]
          BY <5>1
        <5> QED
          BY <4>1, <4>3, <5>2
      <4> QED
        BY <4>2, <4>3
    <3> QED
      BY <3>1
  <2>2. f = Step(f)
    <3> HIDE DEF h
    <3> QED
      BY <2>1, Zenon
  <2>3. FlattenSeq(ss) = f[n]
    BY <1>4, Zenon DEF FlattenSeq
  <2>4. \A i \in 1..n : f[i] = IF i = 1 THEN ss[i] ELSE f[i - 1] \o ss[i]
    <3> HIDE DEF f
    <3> QED
      BY <2>2
  <2> HIDE DEF f, h
  <2> DEFINE Bad == {i \in 1..n : f[i] # g[i]}
  <2>5. Bad = {}
    <3>1. SUFFICES ASSUME Bad # {} PROVE FALSE
      OBVIOUS
    <3>2. Bad \in SUBSET Nat
      OBVIOUS
    <3>3. PICK m \in Bad : \A y \in Bad : m <= y
      <4> HIDE DEF Bad
      <4> QED
        BY <3>1, <3>2, NatMin
    <3>4. m \in 1..n /\ f[m] # g[m]
      OBVIOUS
    <3>5. g[m] = g[m - 1] \o ss[m] /\ ss[m] \in Seq(S)
      BY <1>1, <1>2, <3>4
    <3>6. CASE m = 1
      <4>1. g[m - 1] = <<>>
        BY <1>2, <3>6
      <4>2. g[m] = ss[m]
        BY <3>5, <4>1, ConcatEmptySeq
      <4> QED
        BY <2>4, <3>4, <3>6, <4>2
    <3>7. CASE m # 1
      <4>1. m - 1 \in 1..n /\ ~(m <= m - 1)
        BY <1>1, <3>4, <3>7
      <4>2. m - 1 \notin Bad
        <5> HIDE DEF Bad
        <5> QED
          BY <3>3, <4>1
      <4>3. f[m - 1] = g[m - 1]
        BY <4>1, <4>2
      <4> QED
        BY <2>4, <3>4, <3>5, <3>7, <4>3
    <3> QED
      BY <3>6, <3>7
  <2>6. n \in 1..n
    BY <1>1, <1>4
  <2>7. f[n] = g[n]
    BY <2>5, <2>6
  <2> QED
    BY <1>2, <2>3, <2>7 DEF Glued
<1> QED
  BY <1>3, <1>4

(* A flattened sequence holds what its members hold. *)
LEMMA FlattenHolds ==
  ASSUME NEW S, NEW ss \in Seq(Seq(S))
  PROVE  /\ FlattenSeq(ss) \in Seq(S)
         /\ ToSet(FlattenSeq(ss)) = UNION {ToSet(ss[i]) : i \in 1..Len(ss)}
<1>1. Len(ss) \in Nat /\ ss \in [1..Len(ss) -> Seq(S)]
  BY LenProperties
<1>2. PICK g \in [0..Len(ss) -> Seq(S)] :
         /\ g[0] = <<>> /\ \A i \in 1..Len(ss) : g[i] = g[i - 1] \o ss[i]
         /\ FlattenSeq(ss) = g[Len(ss)]
  <2>1. \E g : Glued(g, ss, Len(ss), S) /\ FlattenSeq(ss) = g[Len(ss)]
    BY FlattenIs
  <2> QED
    BY <2>1 DEF Glued
<1> DEFINE Right(k) == \A x : x \in ToSet(g[k]) <=> \E i \in 1..k : x \in ToSet(ss[i])
           Bad == {k \in 0..Len(ss) : ~Right(k)}
<1>3. Bad = {}
  <2>1. SUFFICES ASSUME Bad # {} PROVE FALSE
    OBVIOUS
  <2>2. Bad \in SUBSET Nat
    <3> HIDE DEF Right
    <3> QED
      OBVIOUS
  <2>3. PICK m \in Bad : \A y \in Bad : m <= y
    <3> HIDE DEF Bad
    <3> QED
      BY <2>1, <2>2, NatMin
  <2>4. m \in 0..Len(ss) /\ ~Right(m)
    <3> HIDE DEF Right
    <3> QED
      OBVIOUS
  <2>5. CASE m = 0
    <3>1. ToSet(g[0]) = {}
      BY <1>2 DEF ToSet
    <3> QED
      BY <2>4, <2>5, <3>1
  <2>6. CASE m # 0
    <3>1. m - 1 \in 0..Len(ss) /\ ~(m <= m - 1) /\ m \in 1..Len(ss)
      BY <1>1, <2>4, <2>6
    <3>2. m - 1 \notin Bad
      <4> HIDE DEF Bad
      <4> QED
        BY <2>3, <3>1
    <3>3. Right(m - 1)
      <4> HIDE DEF Right
      <4> QED
        BY <3>1, <3>2
    <3>4. g[m] = g[m - 1] \o ss[m] /\ ss[m] \in Seq(S) /\ g[m - 1] \in Seq(S)
      BY <1>1, <1>2, <3>1
    <3>5. ToSet(g[m]) = ToSet(g[m - 1]) \cup ToSet(ss[m])
      BY <3>4, ConcatSet
    <3>6. \A i : i \in 1..m <=> i \in 1..(m - 1) \/ i = m
      BY <3>1
    <3>7. Right(m)
      BY <3>3, <3>5, <3>6, Zenon
    <3> QED
      BY <2>4, <3>7
  <2> QED
    BY <2>5, <2>6
<1>4. Len(ss) \in 0..Len(ss)
  BY <1>1
<1>5. Right(Len(ss))
  <2> HIDE DEF Right
  <2> QED
    BY <1>3, <1>4
<1>6. g[Len(ss)] \in Seq(S)
  BY <1>2, <1>4
<1>7. ToSet(g[Len(ss)]) = UNION {ToSet(ss[i]) : i \in 1..Len(ss)}
  BY <1>5
<1>8. FlattenSeq(ss) \in Seq(S)
  BY <1>2, <1>6
<1>9. ToSet(FlattenSeq(ss)) = UNION {ToSet(ss[i]) : i \in 1..Len(ss)}
  BY <1>2, <1>7
<1> QED
  BY <1>8, <1>9

-----------------------------------------------------------------------------
(* What the dedup keeps. *)

(* The piece that place i of s contributes to Fresh(s, known): nothing if the
   element is known or stands at an earlier place. *)
Old(s, known, i) == s[i] \in known \/ \E j \in 1..(i - 1) : s[j] = s[i]
Piece(s, known, i) == IF Old(s, known, i) THEN <<>> ELSE <<s[i]>>

(* No element stands at two places. *)
Once(s) == \A i, j \in DOMAIN s : i # j => s[i] # s[j]

(* g holds the partial results of the dedup of s against known. *)
Sifted(g, s, known, S) ==
    /\ g \in [0..Len(s) -> Seq(S)] /\ g[0] = <<>>
    /\ \A i \in 1..Len(s) : g[i] = g[i - 1] \o Piece(s, known, i)
    /\ Fresh(s, known) = g[Len(s)]

(* The partial results of the dedup: after i elements, those of the first i that
   are not known, each once. *)
LEMMA FreshSteps ==
  ASSUME NEW S, NEW s \in Seq(S), NEW known
  PROVE  \E g : Sifted(g, s, known, S)
<1> DEFINE ss == [i \in DOMAIN s |-> Piece(s, known, i)]
<1>1. Len(s) \in Nat /\ DOMAIN s = 1..Len(s) /\ \A i \in 1..Len(s) : s[i] \in S
  BY LenProperties, ElementOfSeq
<1>2. \A i \in 1..Len(s) : Piece(s, known, i) \in Seq(S)
  <2>1. <<>> \in Seq(S)
    BY EmptySeq
  <2>2. \A x \in S : <<x>> \in Seq(S)
    OBVIOUS
  <2> QED
    BY <1>1, <2>1, <2>2, Zenon DEF Piece
<1>3. ss \in Seq(Seq(S)) /\ Len(ss) = Len(s)
  BY <1>1, <1>2
<1>4. Fresh(s, known) = FlattenSeq(ss)
  BY Zenon DEF Fresh, Piece, Old
<1>5. \A i \in 1..Len(s) : ss[i] = Piece(s, known, i)
  BY <1>1
<1> HIDE DEF ss
<1>6. PICK g \in [0..Len(ss) -> Seq(S)] :
           /\ g[0] = <<>> /\ \A i \in 1..Len(ss) : g[i] = g[i - 1] \o ss[i]
           /\ FlattenSeq(ss) = g[Len(ss)]
  <2>1. \E g : Glued(g, ss, Len(ss), S) /\ FlattenSeq(ss) = g[Len(ss)]
    BY <1>3, FlattenIs
  <2> QED
    BY <2>1 DEF Glued
<1>7. \A i \in 1..Len(s) : g[i] = g[i - 1] \o Piece(s, known, i)
  BY <1>3, <1>5, <1>6
<1> QED
  BY <1>3, <1>4, <1>6, <1>7 DEF Sifted

(* One piece more: either nothing or one element. *)
LEMMA PieceAdds ==
  ASSUME NEW S, NEW s \in Seq(S), NEW known, NEW i \in 1..Len(s), NEW g \in Seq(S)
  PROVE  /\ Old(s, known, i) => g \o Piece(s, known, i) = g
         /\ ~Old(s, known, i) => g \o Piece(s, known, i) = Append(g, s[i])
<1>1. s[i] \in S
  BY ElementOfSeq
<1>2. CASE Old(s, known, i)
  <2>1. Piece(s, known, i) = <<>>
    BY <1>2, Zenon DEF Piece
  <2> QED
    BY <1>2, <2>1, ConcatEmptySeq
<1>3. CASE ~Old(s, known, i)
  <2>1. Piece(s, known, i) = <<s[i]>>
    BY <1>3, Zenon DEF Piece
  <2>2. g \o <<s[i]>> = Append(g, s[i])
    BY <1>1, AppendIsConcat
  <2> QED
    BY <1>3, <2>1, <2>2
<1> QED
  BY <1>2, <1>3

(* An element more at the end. *)
LEMMA AppendFacts ==
  ASSUME NEW S, NEW s \in Seq(S), NEW e \in S
  PROVE  /\ Append(s, e) \in Seq(S) /\ Len(Append(s, e)) = Len(s) + 1
         /\ ToSet(Append(s, e)) = ToSet(s) \cup {e}
         /\ Once(s) /\ e \notin ToSet(s) => Once(Append(s, e))
<1>1. Len(s) \in Nat /\ DOMAIN s = 1..Len(s)
  BY LenProperties
<1>2. /\ Append(s, e) \in Seq(S) /\ Len(Append(s, e)) = Len(s) + 1
      /\ DOMAIN Append(s, e) = 1..(Len(s) + 1)
      /\ \A i \in 1..Len(s) : Append(s, e)[i] = s[i]
      /\ Append(s, e)[Len(s) + 1] = e
  BY AppendProperties
<1>3. \A i : i \in 1..(Len(s) + 1) <=> i \in 1..Len(s) \/ i = Len(s) + 1
  BY <1>1
<1>4. ToSet(Append(s, e)) = ToSet(s) \cup {e}
  <2>1. \A x : x \in ToSet(Append(s, e)) <=> \E i \in 1..(Len(s) + 1) : x = Append(s, e)[i]
    BY <1>2 DEF ToSet
  <2>2. \A x : x \in ToSet(s) <=> \E i \in 1..Len(s) : x = s[i]
    BY <1>1 DEF ToSet
  <2> QED
    BY <1>2, <1>3, <2>1, <2>2
<1>5. ASSUME Once(s), e \notin ToSet(s), NEW i \in 1..(Len(s) + 1), NEW j \in 1..(Len(s) + 1),
             i # j
      PROVE  Append(s, e)[i] # Append(s, e)[j]
  <2>1. \A k \in 1..Len(s) : s[k] # e
    BY <1>1, <1>5 DEF ToSet
  <2> QED
    BY <1>1, <1>2, <1>3, <1>5, <2>1 DEF Once
<1>6. Once(s) /\ e \notin ToSet(s) => Once(Append(s, e))
  BY <1>2, <1>5 DEF Once
<1> QED
  BY <1>2, <1>4, <1>6

(* The dedup: the result has no duplicates, nothing known, and all the rest. *)
LEMMA FreshFacts ==
  ASSUME NEW S, NEW s \in Seq(S), NEW known
  PROVE  /\ Fresh(s, known) \in Seq(S)
         /\ Once(Fresh(s, known))
         /\ ToSet(Fresh(s, known)) = ToSet(s) \ known
<1>1. Len(s) \in Nat /\ DOMAIN s = 1..Len(s) /\ \A i \in 1..Len(s) : s[i] \in S
  BY LenProperties, ElementOfSeq
<1>2. PICK g \in [0..Len(s) -> Seq(S)] :
           /\ g[0] = <<>>
           /\ \A i \in 1..Len(s) : g[i] = g[i - 1] \o Piece(s, known, i)
           /\ Fresh(s, known) = g[Len(s)]
  <2>1. \E g : Sifted(g, s, known, S)
    BY FreshSteps
  <2> QED
    BY <2>1 DEF Sifted
<1> DEFINE Holds(k) == \A x : x \in ToSet(g[k]) <=> x \notin known /\ \E i \in 1..k : s[i] = x
           Right(k) == Once(g[k]) /\ Holds(k)
           Bad == {k \in 0..Len(s) : ~Right(k)}
<1>3. Bad = {}
  <2>1. SUFFICES ASSUME Bad # {} PROVE FALSE
    OBVIOUS
  <2>2. Bad \in SUBSET Nat
    <3> HIDE DEF Right
    <3> QED
      OBVIOUS
  <2>3. PICK m \in Bad : \A y \in Bad : m <= y
    <3> HIDE DEF Bad
    <3> QED
      BY <2>1, <2>2, NatMin
  <2>4. m \in 0..Len(s) /\ ~Right(m)
    <3> HIDE DEF Right
    <3> QED
      OBVIOUS
  <2>5. CASE m = 0
    <3>1. ToSet(g[0]) = {} /\ Once(g[0])
      BY <1>2 DEF ToSet, Once
    <3> QED
      BY <2>4, <2>5, <3>1
  <2>6. CASE m # 0
    <3>1. m - 1 \in 0..Len(s) /\ ~(m <= m - 1) /\ m \in 1..Len(s)
      BY <1>1, <2>4, <2>6
    <3>2. m - 1 \notin Bad
      <4> HIDE DEF Bad
      <4> QED
        BY <2>3, <3>1
    <3>3. Right(m - 1)
      <4> HIDE DEF Right
      <4> QED
        BY <3>1, <3>2
    <3>4. g[m] = g[m - 1] \o Piece(s, known, m) /\ g[m - 1] \in Seq(S) /\ s[m] \in S
      BY <1>1, <1>2, <3>1
    <3>5. \A i : i \in 1..m <=> i \in 1..(m - 1) \/ i = m
      BY <3>1
    <3>6. \/ (s[m] \in known \/ \E j \in 1..(m - 1) : s[j] = s[m]) /\ g[m] = g[m - 1]
          \/ /\ s[m] \notin known /\ \A j \in 1..(m - 1) : s[j] # s[m]
             /\ g[m] = Append(g[m - 1], s[m])
      <4>1. PICK u \in Seq(S) : u = g[m - 1]
        BY <3>4
      <4>2. /\ Old(s, known, m) => u \o Piece(s, known, m) = u
            /\ ~Old(s, known, m) => u \o Piece(s, known, m) = Append(u, s[m])
        BY <3>1, PieceAdds
      <4> QED
        BY <3>4, <4>1, <4>2 DEF Old
    <3>7. CASE (s[m] \in known \/ \E j \in 1..(m - 1) : s[j] = s[m]) /\ g[m] = g[m - 1]
      <4>1. Holds(m)
        BY <3>3, <3>5, <3>7
      <4> QED
        BY <2>4, <3>3, <3>7, <4>1
    <3>8. CASE /\ s[m] \notin known /\ \A j \in 1..(m - 1) : s[j] # s[m]
               /\ g[m] = Append(g[m - 1], s[m])
      <4>1. s[m] \notin ToSet(g[m - 1])
        BY <3>3, <3>8
      <4>2. ToSet(g[m]) = ToSet(g[m - 1]) \cup {s[m]} /\ Once(g[m])
        BY <3>3, <3>4, <3>8, <4>1, AppendFacts
      <4>3. Holds(m)
        BY <3>3, <3>5, <3>8, <4>2
      <4> QED
        BY <2>4, <4>2, <4>3
    <3> QED
      BY <3>6, <3>7, <3>8
  <2> QED
    BY <2>5, <2>6
<1>4. Len(s) \in 0..Len(s)
  BY <1>1
<1>5. Right(Len(s)) /\ g[Len(s)] \in Seq(S)
  <2> HIDE DEF Right
  <2> QED
    BY <1>2, <1>3, <1>4
<1>6. \A x : x \in ToSet(s) <=> \E i \in 1..Len(s) : s[i] = x
  BY <1>1 DEF ToSet
<1>7. ToSet(g[Len(s)]) = ToSet(s) \ known
  BY <1>5, <1>6
<1> HIDE DEF Right, Bad
<1> QED
  BY <1>2, <1>5, <1>7 DEF Right

(* More material at the end leaves what was kept of the rest in its place. *)
LEMMA FreshGrows ==
  ASSUME NEW S, NEW s \in Seq(S), NEW t \in Seq(S), NEW known
  PROVE  /\ Len(Fresh(s, known)) <= Len(Fresh(s \o t, known))
         /\ \A k \in 1..Len(Fresh(s, known)) : Fresh(s \o t, known)[k] = Fresh(s, known)[k]
<1> DEFINE u == s \o t
<1>1. /\ Len(s) \in Nat /\ Len(t) \in Nat /\ u \in Seq(S) /\ Len(u) = Len(s) + Len(t)
      /\ \A i \in 1..Len(s) : u[i] = s[i]
  BY LenProperties, ConcatProperties
<1> HIDE DEF u
<1>2. PICK g \in [0..Len(s) -> Seq(S)] :
           /\ g[0] = <<>>
           /\ \A i \in 1..Len(s) : g[i] = g[i - 1] \o Piece(s, known, i)
           /\ Fresh(s, known) = g[Len(s)]
  <2>1. \E g : Sifted(g, s, known, S)
    BY FreshSteps
  <2> QED
    BY <2>1 DEF Sifted
<1>3. PICK h \in [0..Len(u) -> Seq(S)] :
           /\ h[0] = <<>>
           /\ \A i \in 1..Len(u) : h[i] = h[i - 1] \o Piece(u, known, i)
           /\ Fresh(u, known) = h[Len(u)]
  <2>1. \E h : Sifted(h, u, known, S)
    BY <1>1, FreshSteps
  <2> QED
    BY <2>1 DEF Sifted
<1>4. ASSUME NEW i \in 1..Len(s) PROVE Piece(u, known, i) = Piece(s, known, i)
  <2>1. \A j \in 1..i : u[j] = s[j]
    BY <1>1
  <2>2. i \in 1..i /\ \A j \in 1..(i - 1) : j \in 1..i
    BY <1>1
  <2>3. (u[i] \in known \/ \E j \in 1..(i - 1) : u[j] = u[i])
          <=> (s[i] \in known \/ \E j \in 1..(i - 1) : s[j] = s[i])
    BY <2>1, <2>2
  <2> QED
    BY <2>1, <2>2, <2>3, Zenon DEF Piece, Old
<1> DEFINE Same(k) == IF k <= Len(s) THEN h[k] = g[k]
                      ELSE /\ Len(g[Len(s)]) <= Len(h[k])
                           /\ \A x \in 1..Len(g[Len(s)]) : h[k][x] = g[Len(s)][x]
           Bad == {k \in 0..Len(u) : ~Same(k)}
<1>5. Bad = {}
  <2>1. SUFFICES ASSUME Bad # {} PROVE FALSE
    OBVIOUS
  <2>2. Bad \in SUBSET Nat
    <3> HIDE DEF Same
    <3> QED
      OBVIOUS
  <2>3. PICK m \in Bad : \A y \in Bad : m <= y
    <3> HIDE DEF Bad
    <3> QED
      BY <2>1, <2>2, NatMin
  <2>4. m \in 0..Len(u) /\ ~Same(m)
    <3> HIDE DEF Same
    <3> QED
      OBVIOUS
  <2>5. m # 0
    <3>1. h[0] = g[0] /\ 0 <= Len(s)
      BY <1>1, <1>2, <1>3
    <3> QED
      BY <2>4, <3>1
  <2>6. m - 1 \in 0..Len(u) /\ ~(m <= m - 1) /\ m \in 1..Len(u)
    BY <1>1, <2>4, <2>5
  <2>7. m - 1 \notin Bad
    <3> HIDE DEF Bad
    <3> QED
      BY <2>3, <2>6
  <2>8. Same(m - 1)
    <3> HIDE DEF Same
    <3> QED
      BY <2>6, <2>7
  <2>9. h[m] = h[m - 1] \o Piece(u, known, m)
    BY <1>3, <2>6
  <2>10. CASE m <= Len(s)
    <3>1. m \in 1..Len(s) /\ m - 1 <= Len(s)
      BY <1>1, <2>6, <2>10
    <3>2. h[m - 1] = g[m - 1]
      BY <2>8, <3>1
    <3>3. g[m] = g[m - 1] \o Piece(s, known, m) /\ Piece(u, known, m) = Piece(s, known, m)
      BY <1>2, <1>4, <3>1
    <3>4. h[m] = g[m]
      BY <2>9, <3>2, <3>3
    <3> QED
      BY <2>4, <2>10, <3>4
  <2>11. CASE ~(m <= Len(s))
    <3>1. PICK a, b : a = h[m - 1] /\ b = g[Len(s)]
      OBVIOUS
    <3>2. a \in Seq(S) /\ b \in Seq(S) /\ Len(s) \in 0..Len(s)
      <4>1. a \in Seq(S)
        BY <1>3, <2>6, <3>1
      <4>2. Len(s) \in 0..Len(s)
        BY <1>1
      <4>3. b \in Seq(S)
        BY <1>2, <3>1, <4>2
      <4> QED
        BY <4>1, <4>2, <4>3
    <3>3. Len(a) \in Nat /\ Len(b) \in Nat
      BY <3>2, LenProperties
    <3>4. Len(b) <= Len(a) /\ \A x \in 1..Len(b) : a[x] = b[x]
      <4>1. CASE m - 1 <= Len(s)
        <5>1. m - 1 = Len(s)
          BY <1>1, <2>6, <2>11, <4>1
        <5>2. a = b
          BY <2>8, <3>1, <4>1, <5>1
        <5> QED
          BY <3>3, <5>2
      <4>2. CASE ~(m - 1 <= Len(s))
        BY <2>8, <3>1, <4>2
      <4> QED
        BY <4>1, <4>2
    <3>5. \/ h[m] = a
          \/ h[m] = Append(a, u[m])
      <4>1. /\ Old(u, known, m) => a \o Piece(u, known, m) = a
            /\ ~Old(u, known, m) => a \o Piece(u, known, m) = Append(a, u[m])
        <5>1. u \in Seq(S) /\ m \in 1..Len(u) /\ a \in Seq(S)
          BY <1>1, <2>6, <3>2
        <5>2. ASSUME NEW w \in Seq(S), NEW i \in 1..Len(w), NEW q \in Seq(S)
              PROVE  /\ Old(w, known, i) => q \o Piece(w, known, i) = q
                     /\ ~Old(w, known, i) => q \o Piece(w, known, i) = Append(q, w[i])
          BY PieceAdds, SMTT(30)
        <5> QED
          BY <5>1, <5>2, Zenon
      <4> QED
        BY <2>9, <3>1, <4>1
    <3>6. u[m] \in S
      BY <1>1, <2>6, ElementOfSeq
    <3>7. /\ Len(Append(a, u[m])) = Len(a) + 1
          /\ \A x \in 1..Len(a) : Append(a, u[m])[x] = a[x]
      BY <3>2, <3>6, AppendProperties
    <3>8. Len(b) <= Len(h[m]) /\ \A x \in 1..Len(b) : h[m][x] = b[x]
      <4>1. CASE h[m] = a
        BY <3>4, <4>1
      <4>2. CASE h[m] = Append(a, u[m])
        BY <3>3, <3>4, <3>7, <4>2
      <4> QED
        BY <3>5, <4>1, <4>2
    <3> QED
      BY <2>4, <2>11, <3>1, <3>8
  <2> QED
    BY <2>10, <2>11
<1>6. Len(u) \in 0..Len(u) /\ (Len(u) <= Len(s) => Len(u) = Len(s)) /\ Len(s) \in 0..Len(s)
  BY <1>1
<1>7. Same(Len(u))
  <2> HIDE DEF Same
  <2> QED
    BY <1>5, <1>6
<1>8. g[Len(s)] \in Seq(S) /\ Len(g[Len(s)]) \in Nat
  <2>1. g[Len(s)] \in Seq(S)
    BY <1>2, <1>6
  <2> QED
    BY <2>1, LenProperties
<1>9. /\ Len(g[Len(s)]) <= Len(h[Len(u)])
      /\ \A x \in 1..Len(g[Len(s)]) : h[Len(u)][x] = g[Len(s)][x]
  <2>1. CASE Len(u) <= Len(s)
    <3>1. h[Len(u)] = g[Len(s)]
      BY <1>6, <1>7, <2>1
    <3> QED
      BY <1>8, <3>1
  <2>2. CASE ~(Len(u) <= Len(s))
    BY <1>7, <2>2
  <2> QED
    BY <2>1, <2>2
<1> HIDE DEF Same, Bad
<1> QED
  BY <1>2, <1>3, <1>9 DEF u

(* A part of a sequence. *)
LEMMA SubSeqFacts ==
  ASSUME NEW S, NEW s \in Seq(S), NEW m \in Nat \ {0}, NEW n \in 0..Len(s)
  PROVE  /\ SubSeq(s, m, n) \in Seq(S)
         /\ Len(SubSeq(s, m, n)) = IF m <= n THEN n - m + 1 ELSE 0
         /\ \A k \in 1..(n - m + 1) : SubSeq(s, m, n)[k] = s[m + k - 1]
         /\ \A x : x \in ToSet(SubSeq(s, m, n)) <=> \E i \in m..n : x = s[i]
         /\ Once(s) => Once(SubSeq(s, m, n))
<1>1. Len(s) \in Nat /\ DOMAIN s = 1..Len(s) /\ \A i \in m..n : s[i] \in S
  BY LenProperties, ElementOfSeq
<1>2. /\ SubSeq(s, m, n) \in Seq(S)
      /\ Len(SubSeq(s, m, n)) = IF m <= n THEN n - m + 1 ELSE 0
      /\ \A k \in 1..(n - m + 1) : SubSeq(s, m, n)[k] = s[m + k - 1]
  BY <1>1, SubSeqProperties
<1>3. PICK u \in Seq(S) : u = SubSeq(s, m, n)
  BY <1>2
<1>4. DOMAIN u = 1..(n - m + 1) /\ \A k \in 1..(n - m + 1) : u[k] = s[m + k - 1]
  <2>1. DOMAIN u = 1..Len(u)
    BY LenProperties
  <2>2. 1..Len(u) = 1..(n - m + 1)
    BY <1>1, <1>2, <1>3
  <2> QED
    BY <1>2, <1>3, <2>1, <2>2
<1>5. ASSUME NEW i \in m..n PROVE i - m + 1 \in 1..(n - m + 1) /\ u[i - m + 1] = s[i]
  <2>1. i - m + 1 \in 1..(n - m + 1) /\ m + (i - m + 1) - 1 = i
    BY <1>1
  <2> QED
    BY <1>4, <2>1
<1>6. ASSUME NEW k \in 1..(n - m + 1) PROVE m + k - 1 \in m..n /\ m + k - 1 \in 1..Len(s)
  BY <1>1
<1>7. \A x : x \in ToSet(u) <=> \E i \in m..n : x = s[i]
  <2>1. \A x : x \in ToSet(u) <=> \E k \in 1..(n - m + 1) : x = u[k]
    BY <1>4 DEF ToSet
  <2> QED
    BY <1>4, <1>5, <1>6, <2>1
<1>8. ASSUME Once(s), NEW j \in 1..(n - m + 1), NEW k \in 1..(n - m + 1), j # k
      PROVE  u[j] # u[k]
  <2>1. m + j - 1 # m + k - 1
    BY <1>8
  <2> QED
    BY <1>1, <1>4, <1>6, <1>8, <2>1 DEF Once
<1>9. Once(s) => Once(u)
  BY <1>4, <1>8 DEF Once
<1> QED
  BY <1>2, <1>3, <1>7, <1>9
-----------------------------------------------------------------------------
(* The accumulator of a run and its render. *)

(* The claims the chunks of the corpus yield. *)
Claims == UNION {ToSet(Yield[c]) : c \in Chunks}

Batches == [kept : Seq(Chunks), done : Nat, bought : Seq(Claims), wm : Nat,
            complete : BOOLEAN, called : BOOLEAN, stop : BOOLEAN,
            marks : SUBSET Chunks, covered : Nat, rolled : BOOLEAN]
Accumulators ==
    [from : Watermarks, to : Watermarks, wm : Watermarks, cap : Nat, ordinal : Nat \ {0},
     carry : Seq(Claims), group : SUBSET Claims, insights : Seq(Claims),
     written : Seq(Claims), overflow : Seq(Claims), called : BOOLEAN, batch : Batches]

(* What the render takes from, and how much of it fits. *)
Lines(r) == Fresh(r.insights, r.group \cup ToSet(r.carry))
Room(r) == Max({0, RunRoom(r.ordinal) - Len(r.carry)})
Fit(r) == Min({Len(Lines(r)), Room(r)})

(* The sizes are naturals. *)
LEMMA Sizes ==
  /\ MaxManifests \in Nat \ {0} /\ RowsPerRead \in Nat \ {0} /\ RowsPerCall \in Nat \ {0}
  /\ GroupMaxRows \in Nat \ {0} /\ WakeIDCap \in Nat \ {0}
  /\ SeedSlack \in Nat /\ Caps \subseteq Nat /\ \A o : RunRoom(o) \in Nat
  BY SizesAssumption DEF RunRoom

(* How much fits: no more lines than there are, no more than the room. *)
LEMMA FitFacts ==
  ASSUME NEW r \in Accumulators
  PROVE  /\ Lines(r) \in Seq(Claims) /\ Len(Lines(r)) \in Nat
         /\ Room(r) \in Nat
         /\ Len(r.carry) <= RunRoom(r.ordinal) => Len(r.carry) + Room(r) = RunRoom(r.ordinal)
         /\ Fit(r) \in 0..Len(Lines(r)) /\ Fit(r) <= Room(r)
         /\ Fit(r) = Len(Lines(r)) \/ Fit(r) = Room(r)
<1>1. r.carry \in Seq(Claims) /\ r.insights \in Seq(Claims)
  BY DEF Accumulators
<1>2. Len(r.carry) \in Nat /\ RunRoom(r.ordinal) \in Nat
  BY <1>1, LenProperties, Sizes
<1>3. Room(r) = IF 0 >= RunRoom(r.ordinal) - Len(r.carry) THEN 0
                ELSE RunRoom(r.ordinal) - Len(r.carry)
  BY <1>2, MaxTwo DEF Room
<1>4. Lines(r) \in Seq(Claims)
  BY <1>1, FreshFacts DEF Lines
<1>5. Len(Lines(r)) \in Nat
  BY <1>4, LenProperties
<1>6. Room(r) \in Nat
  BY <1>2, <1>3
<1>7. Fit(r) = IF Len(Lines(r)) <= Room(r) THEN Len(Lines(r)) ELSE Room(r)
  BY <1>5, <1>6, MinTwo DEF Fit
<1> QED
  BY <1>2, <1>3, <1>4, <1>5, <1>6, <1>7

(* The render changes two fields; it writes only what neither the shard nor the
   group holds yet, each claim once, and what it cannot write overflows. *)
LEMMA RenderFacts ==
  ASSUME NEW r \in Accumulators
  PROVE  /\ Render(r) \in Accumulators
         /\ \A f \in {"from", "to", "wm", "cap", "ordinal", "carry", "group", "insights",
                      "called", "batch"} : Render(r)[f] = r[f]
         /\ Render(r).written = SubSeq(Lines(r), 1, Fit(r))
         /\ Len(Render(r).written) <= Room(r) /\ Once(Render(r).written)
         /\ ToSet(Render(r).written) \cup ToSet(Render(r).overflow)
              = ToSet(r.insights) \ (r.group \cup ToSet(r.carry))
<1> DEFINE lines == Lines(r)
           n == Fit(r)
           w == SubSeq(lines, 1, n)
           v == SubSeq(lines, n + 1, Len(lines))
<1>1. Render(r) = [r EXCEPT !.written = w, !.overflow = v]
  BY DEF Render, Lines, Fit, Room
<1>2. lines \in Seq(Claims) /\ Len(lines) \in Nat /\ n \in 0..Len(lines) /\ n <= Room(r)
      /\ Room(r) \in Nat
  BY FitFacts
<1>3. Once(lines) /\ ToSet(lines) = ToSet(r.insights) \ (r.group \cup ToSet(r.carry))
  BY FreshFacts DEF Lines, Accumulators
<1> HIDE DEF lines, n
<1>4. 1 \in Nat \ {0} /\ n + 1 \in Nat \ {0} /\ Len(lines) \in 0..Len(lines)
  BY <1>2
<1>5. /\ w \in Seq(Claims) /\ Len(w) = (IF 1 <= n THEN n - 1 + 1 ELSE 0)
      /\ \A x : x \in ToSet(w) <=> \E i \in 1..n : x = lines[i]
      /\ Once(w)
  BY <1>2, <1>3, <1>4, SubSeqFacts
<1>6. /\ v \in Seq(Claims)
      /\ \A x : x \in ToSet(v) <=> \E i \in (n + 1)..Len(lines) : x = lines[i]
  BY <1>2, <1>4, SubSeqFacts
<1>7. Len(w) <= Room(r)
  BY <1>2, <1>5
<1>8. \A x : x \in ToSet(lines) <=> \E i \in 1..Len(lines) : x = lines[i]
  <2>1. DOMAIN lines = 1..Len(lines)
    BY <1>2, LenProperties
  <2> QED
    BY <2>1 DEF ToSet
<1>9. \A i : i \in 1..Len(lines) <=> i \in 1..n \/ i \in (n + 1)..Len(lines)
  BY <1>2
<1>10. ToSet(w) \cup ToSet(v) = ToSet(lines)
  BY <1>5, <1>6, <1>8, <1>9
<1> HIDE DEF w, v
<1>11. Render(r) \in Accumulators
  BY <1>1, <1>5, <1>6 DEF Accumulators
<1>12. Render(r).written = w /\ Render(r).overflow = v
  BY <1>1 DEF Accumulators
<1>13. \A f \in {"from", "to", "wm", "cap", "ordinal", "carry", "group", "insights",
                "called", "batch"} : Render(r)[f] = r[f]
  BY <1>1 DEF Accumulators
<1> QED
  BY <1>3, <1>5, <1>7, <1>10, <1>11, <1>12, <1>13 DEF w, lines, n

(* The members of a prefix. *)
LEMMA PrefixMembers ==
  ASSUME NEW S, NEW s \in Seq(S), NEW n \in 0..Len(s)
  PROVE  \A x : x \in ToSet(SubSeq(s, 1, n)) <=> \E i \in 1..n : x = s[i]
<1>1. 1 \in Nat \ {0}
  OBVIOUS
<1>2. ASSUME NEW m \in Nat \ {0}
      PROVE  \A x : x \in ToSet(SubSeq(s, m, n)) <=> \E i \in m..n : x = s[i]
  BY SubSeqFacts
<1> QED
  BY <1>1, <1>2, Zenon

(* A later render of the same shard keeps what an earlier one wrote. *)
LEMMA RenderGrows ==
  ASSUME NEW r \in Accumulators, NEW q \in Accumulators, NEW t \in Seq(Claims),
         q.group = r.group, q.carry = r.carry, q.ordinal = r.ordinal,
         q.insights = r.insights \o t
  PROVE  ToSet(Render(r).written) \subseteq ToSet(Render(q).written)
<1>1. PICK known : known = r.group \cup ToSet(r.carry)
  OBVIOUS
<1>2. Lines(r) = Fresh(r.insights, known) /\ Lines(q) = Fresh(r.insights \o t, known)
  BY <1>1 DEF Lines
<1>3. PICK a, b : a = Lines(r) /\ b = Lines(q)
  OBVIOUS
<1>4. r.insights \in Seq(Claims)
  BY DEF Accumulators
<1>5. Len(a) <= Len(b) /\ \A k \in 1..Len(a) : b[k] = a[k]
  BY <1>2, <1>3, <1>4, FreshGrows
<1>6. Room(q) = Room(r)
  BY DEF Room
<1>7. PICK m, n : m = Fit(r) /\ n = Fit(q)
  OBVIOUS
<1>8. /\ a \in Seq(Claims) /\ Len(a) \in Nat /\ m \in 0..Len(a) /\ m <= Room(r)
      /\ b \in Seq(Claims) /\ Len(b) \in Nat /\ n \in 0..Len(b)
      /\ n = Len(b) \/ n = Room(r)
  BY <1>3, <1>6, <1>7, FitFacts
<1>9. Room(r) \in Nat
  BY FitFacts
<1>10. m <= n
  BY <1>5, <1>8, <1>9
<1>11. Render(r).written = SubSeq(a, 1, m) /\ Render(q).written = SubSeq(b, 1, n)
  BY <1>3, <1>7, RenderFacts
<1>12. \A x : x \in ToSet(SubSeq(a, 1, m)) <=> \E i \in 1..m : x = a[i]
  BY <1>8, PrefixMembers, Zenon
<1>13. \A x : x \in ToSet(SubSeq(b, 1, n)) <=> \E i \in 1..n : x = b[i]
  BY <1>8, PrefixMembers, Zenon
<1>14. \A i \in 1..m : i \in 1..n /\ b[i] = a[i]
  <2>1. PICK l \in Nat : l = Len(a)
    BY <1>8
  <2>2. l \in Nat /\ m \in 0..l /\ n \in Nat /\ m <= n
    BY <1>8, <1>10, <2>1
  <2>3. \A i \in 1..m : i \in 1..n /\ i \in 1..l
    BY <2>2
  <2> QED BY <1>5, <2>1, <2>3, Zenon
<1>15. ASSUME NEW x, x \in ToSet(SubSeq(a, 1, m)) PROVE x \in ToSet(SubSeq(b, 1, n))
  <2>1. PICK i \in 1..m : x = a[i]
    BY <1>12, <1>15, Zenon
  <2>2. i \in 1..n /\ x = b[i]
    BY <1>14, <2>1, Zenon
  <2> QED BY <1>13, <2>2, Zenon
<1> QED
  BY <1>11, <1>15, Zenon
-----------------------------------------------------------------------------
(* The reader. *)

(* A manifest has a positive watermark and a sequence of chunks; watermarks never
   decrease. *)
LEMMA SourceFacts ==
  /\ Len(Source) \in Nat
  /\ \A i \in Manifests : Source[i].wm \in Nat \ {0} /\ Source[i].chunks \in Seq(Chunks)
  /\ \A i, j \in Manifests : i <= j => Source[i].wm <= Source[j].wm
<1>1. Len(Source) \in Nat
  BY SourceAssumption, LenProperties
<1>2. \A i \in Manifests : Source[i] \in [wm : Nat \ {0}, chunks : Seq(Chunks)]
  BY SourceAssumption, ElementOfSeq DEF Manifests
<1>3. \A i \in Manifests : Source[i].wm \in Nat \ {0} /\ Source[i].chunks \in Seq(Chunks)
  BY <1>2
<1>4. ASSUME NEW i \in Manifests, NEW j \in Manifests, i <= j PROVE Source[i].wm <= Source[j].wm
  <2>1. i \in Int /\ j \in Int
    BY <1>1 DEF Manifests
  <2>2. CASE i = j
    BY <1>3, <2>2
  <2>3. CASE i < j
    BY <2>3, SourceAssumption
  <2> QED
    BY <1>4, <2>1, <2>2, <2>3
<1> QED
  BY <1>1, <1>3, <1>4

(* The rows of the manifests i..j are the chunks of these manifests. *)
LEMMA ItemsFacts ==
  ASSUME NEW i \in Manifests, NEW j \in Manifests, i <= j
  PROVE  /\ ItemsOf[i][j] \in Seq(Chunks)
         /\ \A k \in i..j : ToSet(Source[k].chunks) \subseteq ToSet(ItemsOf[i][j])
<1> DEFINE n == j - i + 1
           ss == [k \in 1..n |-> Source[i + k - 1].chunks]
<1>1. ItemsOf[i][j] = FlattenSeq(ss)
  BY DEF ItemsOf
<1>2. i \in Nat /\ j \in Nat /\ n \in Nat /\ \A k \in 1..n : i + k - 1 \in Manifests
  BY SourceFacts DEF Manifests
<1>3. \A k \in 1..n : Source[i + k - 1].chunks \in Seq(Chunks)
  BY <1>2, SourceFacts
<1>4. ss \in Seq(Seq(Chunks)) /\ Len(ss) = n
  <2> HIDE DEF n
  <2> QED
    BY <1>2, <1>3
<1>5. ASSUME NEW k \in i..j PROVE k - i + 1 \in 1..n /\ ss[k - i + 1] = Source[k].chunks
  <2>1. k - i + 1 \in 1..n /\ i + (k - i + 1) - 1 = k
    BY <1>2
  <2> QED
    BY <2>1
<1> HIDE DEF ss
<1>6. /\ FlattenSeq(ss) \in Seq(Chunks)
      /\ ToSet(FlattenSeq(ss)) = UNION {ToSet(ss[x]) : x \in 1..Len(ss)}
  BY <1>4, FlattenHolds
<1>7. ASSUME NEW k \in i..j PROVE ToSet(Source[k].chunks) \subseteq ToSet(FlattenSeq(ss))
  <2>1. k - i + 1 \in 1..Len(ss) /\ ToSet(ss[k - i + 1]) = ToSet(Source[k].chunks)
    BY <1>4, <1>5
  <2>2. ToSet(ss[k - i + 1]) \in {ToSet(ss[x]) : x \in 1..Len(ss)}
    BY <2>1
  <2> QED
    BY <1>6, <2>1, <2>2, Zenon
<1> QED
  BY <1>1, <1>6, <1>7

(* Where a watermark group ends, or the committed manifests do. *)
GroupEnds(k) == k = arrived \/ (k + 1 \in 1..arrived /\ Source[k].wm # Source[k + 1].wm)

(* What is above a watermark is a tail of the committed manifests. *)
LEMMA VisibleTail ==
  ASSUME NEW after \in Nat, arrived \in 0..Len(Source), Visible(after) # {}
  PROVE  /\ Min(Visible(after)) \in 1..arrived
         /\ Visible(after) = Min(Visible(after))..arrived
<1>1. Visible(after) \in SUBSET Nat /\ Visible(after) \in SUBSET (1..arrived)
  BY SourceFacts DEF Visible
<1>2. PICK m : m = Min(Visible(after))
  OBVIOUS
<1>3. m \in Visible(after) /\ \A y \in Visible(after) : m <= y
  BY <1>1, <1>2, MinIs
<1>4. m \in 1..arrived /\ Source[m].wm > after
  BY <1>3 DEF Visible
<1>5. ASSUME NEW i \in m..arrived PROVE i \in Visible(after)
  <2>1. i \in 1..arrived /\ i \in Manifests /\ m \in Manifests /\ m <= i
    BY <1>4, SourceFacts DEF Manifests
  <2>2. Source[m].wm <= Source[i].wm /\ Source[m].wm \in Nat /\ Source[i].wm \in Nat
    BY <2>1, SourceFacts
  <2> QED
    BY <1>4, <2>1, <2>2 DEF Visible
<1>6. ASSUME NEW i \in Visible(after) PROVE i \in m..arrived
  BY <1>1, <1>3, <1>4, SourceFacts
<1> QED
  BY <1>2, <1>4, <1>5, <1>6

(* The window ends where a watermark group ends. *)
LEMMA WindowEnds ==
  ASSUME NEW after \in Nat, arrived \in 0..Len(Source), Visible(after) # {}
  PROVE  /\ manifestHeads(after).last \in Min(Visible(after))..arrived
         /\ GroupEnds(manifestHeads(after).last)
<1>1. PICK m : m = Min(Visible(after))
  OBVIOUS
<1>2. m \in 1..arrived /\ arrived \in Nat /\ \A i \in 1..arrived : i \in Manifests
  BY <1>1, VisibleTail, SourceFacts DEF Manifests
<1>3. PICK n : n = m + MaxManifests - 1
  OBVIOUS
<1>4. n \in Nat /\ m <= n
  BY <1>2, <1>3, Sizes
<1> DEFINE short == {i \in m..n : Source[i].wm # Source[n].wm}
           whole == {i \in m..arrived : Source[i].wm = Source[n].wm}
<1>5. manifestHeads(after) =
        IF n >= arrived THEN [last |-> arrived, cut |-> FALSE]
        ELSE IF Source[n].wm # Source[n + 1].wm THEN [last |-> n, cut |-> FALSE]
        ELSE IF Source[m].wm # Source[n].wm THEN [last |-> Max(short), cut |-> TRUE]
        ELSE [last |-> Max(whole), cut |-> FALSE]
  BY <1>1, <1>3 DEF manifestHeads
<1>6. CASE n >= arrived
  <2>1. manifestHeads(after).last = arrived
    BY <1>5, <1>6
  <2> QED
    BY <1>1, <1>2, <2>1 DEF GroupEnds
<1>7. CASE n < arrived /\ Source[n].wm # Source[n + 1].wm
  <2>1. manifestHeads(after).last = n /\ n + 1 \in 1..arrived
    BY <1>2, <1>4, <1>5, <1>7
  <2> QED
    BY <1>1, <1>2, <1>4, <1>7, <2>1 DEF GroupEnds
<1>8. CASE n < arrived /\ Source[n].wm = Source[n + 1].wm /\ Source[m].wm # Source[n].wm
  <2>1. manifestHeads(after).last = Max(short)
    BY <1>2, <1>4, <1>5, <1>8
  <2>2. short \in SUBSET (0..n) /\ short # {}
    BY <1>2, <1>4, <1>8
  <2> HIDE DEF short
  <2>3. Max(short) \in short /\ \A y \in short : y <= Max(short)
    BY <1>4, <2>2, MaxIs
  <2>4. PICK k : k = Max(short)
    OBVIOUS
  <2>5. k \in m..n /\ Source[k].wm # Source[n].wm
    BY <2>3, <2>4 DEF short
  <2>6. k # n
    BY <2>5
  <2>7. k + 1 \in m..n /\ k + 1 \in 1..arrived /\ ~(k + 1 <= k) /\ k \in m..arrived
    BY <1>2, <1>4, <1>8, <2>5, <2>6
  <2>8. k + 1 \notin short
    BY <2>3, <2>4, <2>7
  <2>9. Source[k + 1].wm = Source[n].wm
    BY <2>7, <2>8 DEF short
  <2> QED
    BY <1>1, <2>1, <2>4, <2>5, <2>7, <2>9 DEF GroupEnds
<1>9. CASE n < arrived /\ Source[n].wm = Source[n + 1].wm /\ Source[m].wm = Source[n].wm
  <2>1. manifestHeads(after).last = Max(whole)
    BY <1>2, <1>4, <1>5, <1>9
  <2>2. whole \in SUBSET (0..arrived) /\ whole # {}
    <3>1. m \in whole
      BY <1>2, <1>9
    <3> QED
      BY <1>2, <3>1
  <2> HIDE DEF whole
  <2>3. Max(whole) \in whole /\ \A y \in whole : y <= Max(whole)
    BY <1>2, <2>2, MaxIs
  <2>4. PICK k : k = Max(whole)
    OBVIOUS
  <2>5. k \in m..arrived /\ Source[k].wm = Source[n].wm
    BY <2>3, <2>4 DEF whole
  <2>6. CASE k = arrived
    BY <1>1, <2>1, <2>4, <2>5, <2>6 DEF GroupEnds
  <2>7. CASE k # arrived
    <3>1. k + 1 \in m..arrived /\ k + 1 \in 1..arrived /\ ~(k + 1 <= k)
      BY <1>2, <2>5, <2>7
    <3>2. k + 1 \notin whole
      BY <2>3, <2>4, <3>1
    <3>3. Source[k + 1].wm # Source[n].wm
      BY <3>1, <3>2 DEF whole
    <3> QED
      BY <1>1, <2>1, <2>4, <2>5, <3>1, <3>3 DEF GroupEnds
  <2> QED
    BY <2>6, <2>7
<1> QED
  BY <1>2, <1>4, <1>6, <1>7, <1>8, <1>9

(* The batch: its watermark is that of a manifest above the old one, and its items
   hold every row up to that watermark, so no watermark group is split. *)
LEMMA ReadFacts ==
  ASSUME NEW after \in Nat, arrived \in 0..Len(Source), Visible(after) # {}
  PROVE  /\ \E i \in 1..arrived : Read(after).wm = Source[i].wm
         /\ Read(after).wm \in Nat /\ Read(after).wm > after
         /\ Read(after).items \in Seq(Chunks) /\ Read(after).complete \in BOOLEAN
         /\ \A i \in 1..arrived : after < Source[i].wm /\ Source[i].wm <= Read(after).wm =>
                ToSet(Source[i].chunks) \subseteq ToSet(Read(after).items)
<1>1. PICK m : m = Min(Visible(after))
  OBVIOUS
<1>2. /\ m \in 1..arrived /\ arrived \in Nat /\ Visible(after) = m..arrived
      /\ \A i \in 1..arrived : i \in Manifests
  BY <1>1, VisibleTail, SourceFacts DEF Manifests
<1>3. PICK w : w = manifestHeads(after)
  OBVIOUS
<1>4. w.last \in m..arrived /\ GroupEnds(w.last)
  BY <1>1, <1>3, WindowEnds
<1> DEFINE ends == {k \in m..(w.last - 1) : /\ Len(ItemsOf[m][k]) >= RowsPerRead
                                            /\ Source[k].wm # Source[k + 1].wm}
<1>5. PICK k : k = Min(ends \cup {w.last})
  OBVIOUS
<1>6. k \in m..arrived /\ GroupEnds(k)
  <2>1. \A e \in ends : e \in m..arrived /\ GroupEnds(e)
    BY <1>2, <1>4 DEF GroupEnds
  <2>2. ends \cup {w.last} \in SUBSET Nat /\ ends \cup {w.last} # {}
    BY <1>2, <1>4
  <2>3. k \in ends \cup {w.last}
    <3> HIDE DEF ends
    <3> QED
      BY <1>5, <2>2, MinIs
  <2> QED
    BY <1>4, <2>1, <2>3
<1>7. Read(after) = [items |-> ItemsOf[m][k], wm |-> Source[k].wm,
                     complete |-> ends # {} \/ ~w.cut]
  BY <1>1, <1>3, <1>5 DEF Read
<1>8. /\ Read(after).items = ItemsOf[m][k] /\ Read(after).wm = Source[k].wm
      /\ Read(after).complete \in BOOLEAN
  <2> HIDE DEF ends
  <2>1. (ends # {} \/ ~w.cut) \in BOOLEAN
    OBVIOUS
  <2> QED
    BY <1>7, <2>1
<1> HIDE DEF ends
<1>9. k \in 1..arrived /\ k \in Visible(after)
  BY <1>2, <1>6
<1>10. Source[k].wm \in Nat /\ Source[k].wm > after
  BY <1>2, <1>9, SourceFacts DEF Visible
<1>11. m \in Manifests /\ k \in Manifests /\ m <= k
  BY <1>2, <1>6, <1>9
<1>12. ItemsOf[m][k] \in Seq(Chunks)
       /\ \A i \in m..k : ToSet(Source[i].chunks) \subseteq ToSet(ItemsOf[m][k])
  BY <1>11, ItemsFacts
<1>13. ASSUME NEW i \in 1..arrived, after < Source[i].wm, Source[i].wm <= Source[k].wm
       PROVE  i \in m..k
  <2>1. i \in Visible(after)
    BY <1>13 DEF Visible
  <2>2. i \in m..arrived
    BY <1>2, <2>1
  <2>3. CASE k = arrived
    BY <2>2, <2>3
  <2>4. CASE k + 1 \in 1..arrived /\ Source[k].wm # Source[k + 1].wm
    <3>1. ASSUME k + 1 <= i PROVE FALSE
      <4>1. i \in Manifests /\ k + 1 \in Manifests /\ k \in Manifests /\ k <= k + 1
        BY <1>2, <1>9, <2>4
      <4>2. Source[k].wm <= Source[k + 1].wm /\ Source[k + 1].wm <= Source[i].wm
        BY <3>1, <4>1, SourceFacts
      <4>3. Source[k].wm \in Nat /\ Source[k + 1].wm \in Nat /\ Source[i].wm \in Nat
        BY <4>1, SourceFacts
      <4> QED
        BY <1>13, <2>4, <4>2, <4>3
    <3> QED
      BY <1>2, <1>6, <2>2, <3>1
  <2> QED
    BY <1>6, <2>3, <2>4 DEF GroupEnds
<1> QED
  BY <1>8, <1>9, <1>10, <1>12, <1>13
-----------------------------------------------------------------------------
(* The inductive invariant. *)

(* The watermarks of the committed manifests. *)
Reached == {0} \cup {Source[i].wm : i \in 1..arrived}

(* Whole watermark groups are committed. *)
CorpusOK ==
    /\ arrived \in 0..Len(Source)
    /\ \A i \in 1..arrived, j \in (arrived + 1)..Len(Source) : Source[i].wm < Source[j].wm

(* No row is ahead of the corpus. *)
JournalOK ==
    /\ closed \in Reached /\ orphans \subseteq Reached
    /\ run.to \in Reached /\ run.wm = run.to

LedgerOK ==
    /\ seen \subseteq Chunks \ Dropped
    /\ gone \in [Chunks -> {"no", "call", "brake"}]
    /\ blocks \in [Watermarks -> Seq(Seq(Claims))]

BatchOK(b) ==
    /\ b.done <= Len(b.kept)
    /\ ToSet(b.kept) \cap Dropped = {} /\ b.marks \cap Dropped = {}
    /\ b.wm \in Reached /\ b.covered \in {0, b.wm}

RunOK == run \in Accumulators /\ run.cap \in Caps \cup {0} /\ BatchOK(run.batch)

WakeOK ==
    /\ link \in {"down", "listening", "up"} /\ wire \subseteq Manifests \cup {Foreign}
    /\ window \in [ids : SUBSET (Manifests \cup {Foreign}), overflow : BOOLEAN, token : BOOLEAN]
    /\ Cardinality(window.ids) <= WakeIDCap

Kinds == {"faults", "brakes", "crashes", "drops", "foreign"}

ArmOK ==
    /\ at \in {"boot", "await", "settle", "tick", "read", "extract", "roll", "mark", "advance",
               "close"}
    /\ excused \in BOOLEAN /\ maxShards \in Caps \cup {0} /\ left \in [Kinds -> Nat]

TInv == CorpusOK /\ JournalOK /\ LedgerOK /\ RunOK /\ WakeOK /\ ArmOK

(* The states of a run that may still write. *)
InRun == at \in {"read", "extract", "roll", "mark", "advance"}
Bound == distillShardHardBound(Max(Caps))

(* What the first m shards of a chain hold. *)
Below(chain, m) == UNION {ToSet(chain[n]) : n \in 1..m}

(* The accumulator belongs to the last shard of its range or to the one after it:
   its dedup set is what the shards below hold, and the shard itself holds what was
   carried and what the last render wrote. *)
Attached(chain, r) ==
    /\ r.ordinal \in {Len(chain), Len(chain) + 1}
    /\ r.group = Below(chain, r.ordinal - 1)
    /\ r.ordinal = Len(chain) => chain[r.ordinal] = r.carry \o r.written
    /\ r.ordinal = Len(chain) + 1 => r.carry = <<>> /\ r.written = <<>>

(* The shards of a range hold every claim once. *)
Sound(chain) ==
    /\ \A n \in 1..Len(chain) : Once(chain[n]) /\ Len(chain[n]) <= RunRoom(n) /\ n <= Bound
    /\ \A n, k \in 1..Len(chain) : n # k => ToSet(chain[n]) \cap ToSet(chain[k]) = {}

RunAttached ==
    /\ InRun => /\ Attached(blocks[run.from], run)
                /\ run.ordinal <= Bound /\ Render(run).written = run.written
    /\ at = "roll" => run.ordinal = Len(blocks[run.from])

SInv == (\A w \in Watermarks : Sound(blocks[w])) /\ RunAttached

(* A chunk's claims are durable unless they were given up. *)
Held(c) == gone[c] = "no" => ToSet(Yield[c]) \subseteq Durable
SeenHeld == \A c \in seen : Held(c)

(* What a row covers is in the ledger. *)
RowsSeen ==
    \A i \in 1..arrived : \A w \in Rows :
        Source[i].wm <= w => ToSet(Source[i].chunks) \subseteq seen \cup Dropped

(* The batch has all the rows up to its watermark, except those in the ledger. *)
Busy == {"extract", "roll", "mark", "advance"}
BatchWhole ==
    at \in Busy =>
      \A i \in 1..arrived : run.wm < Source[i].wm /\ Source[i].wm <= run.batch.wm =>
          ToSet(Source[i].chunks) \subseteq ToSet(run.batch.kept) \cup seen \cup Dropped

(* What the calls of a batch have bought. *)
Bought(b) ==
    /\ Once(b.kept) /\ ToSet(b.kept) \cap seen = {}
    /\ \A i \in 1..b.done : gone[b.kept[i]] = "no" => ToSet(Yield[b.kept[i]]) \subseteq ToSet(b.bought)

(* It is durable or overflows once the block is written. *)
Placed(b) ==
    /\ b.marks = Marked(b.done)
    /\ \A c \in b.marks : gone[c] = "no" => ToSet(Yield[c]) \subseteq Durable \cup ToSet(run.overflow)

(* What the calls have bought, step by step on its way to a block. *)
BatchBought ==
    /\ at = "extract" => Bought(run.batch)
    /\ at = "roll" => Placed(run.batch)
    /\ at = "mark" => \A c \in run.batch.marks : Held(c)
    /\ at = "advance" => run.batch.marks \subseteq seen
    /\ at \in {"roll", "mark", "advance"} /\ run.batch.covered # 0 =>
          ToSet(run.batch.kept) \subseteq run.batch.marks

LInv == SeenHeld /\ RowsSeen /\ BatchWhole /\ BatchBought

(* Somebody will tell the arm of new material. *)
Announced ==
    \/ window.token /\ (window.overflow \/ window.ids \cap Manifests # {})
    \/ wire \cap Manifests # {} \/ link # "up"

WInv ==
    /\ WakeKept
    /\ at = "close" /\ ~excused => Visible(Max({closed, run.to})) = {} \/ Announced
-----------------------------------------------------------------------------
(* What the operations on the accumulator and on the shards do. *)

(* A finite set of naturals has a greatest element. *)
LEMMA CapsMax ==
  Max(Caps) \in Nat /\ \A c \in Caps : c <= Max(Caps)
<1>1. Caps # {} /\ IsFiniteSet(Caps) /\ Caps \subseteq Nat
  BY SizesAssumption
<1>2. PICK n \in Nat : ExistsBijection(1..n, Caps)
  BY <1>1, FS_NatBijection
<1>3. PICK f \in [1..n -> Caps] : \A c \in Caps : \E i \in 1..n : f[i] = c
  BY <1>2 DEF ExistsBijection, Bijection, Surjection
<1>0. \A j \in 1..n : f[j] \in Nat
  BY <1>1, <1>3
<1> DEFINE Low(i) == \E b \in Nat : \A j \in 1..i : f[j] <= b
           High == {i \in 0..n : ~Low(i)}
<1>4. High = {}
  <2>1. SUFFICES ASSUME High # {} PROVE FALSE
    OBVIOUS
  <2>2. High \in SUBSET Nat
    OBVIOUS
  <2>3. PICK k \in High : \A y \in High : k <= y
    <3> HIDE DEF High
    <3> QED  BY <2>1, <2>2, NatMin
  <2>4. k \in 0..n /\ ~Low(k)
    OBVIOUS
  <2>5. k # 0
    BY <2>4
  <2>6. Low(k - 1)
    <3> HIDE DEF Low
    <3>1. k - 1 \in 0..n /\ ~(k <= k - 1)
      BY <2>4, <2>5
    <3> QED
      BY <2>3, <3>1
  <2>7. PICK b \in Nat : \A j \in 1..(k - 1) : f[j] <= b
    BY <2>6
  <2>8. k \in 1..n /\ f[k] \in Nat
    BY <1>0, <2>4, <2>5
  <2>9. \A j \in 1..k : f[j] \in Nat /\ (j = k \/ j \in 1..(k - 1))
    BY <1>0, <2>8
  <2>10. \A j \in 1..k : f[j] <= b + f[k]
    BY <2>7, <2>8, <2>9
  <2> QED
    BY <2>4, <2>8, <2>10
<1>5. Low(n)
  <2> HIDE DEF Low
  <2> QED
    BY <1>4
<1>7. PICK b \in Nat : \A j \in 1..n : f[j] <= b
  BY <1>5
<1>6. Caps \in SUBSET (0..b)
  BY <1>1, <1>3, <1>7
<1> QED
  BY <1>1, <1>6, MaxIs

(* The bound of a chain is at least one, and covers the bound of every cap. *)
LEMMA BoundFacts ==
  /\ Bound \in Nat /\ 1 <= Bound
  /\ \A cap \in Caps \cup {0}, o \in Nat : ~NoFurtherShard(cap, o) => o + 1 <= Bound
<1>1. GroupMaxRows \in Nat \ {0} /\ Caps \subseteq Nat /\ Max(Caps) \in Nat
  BY Sizes, CapsMax
<1> DEFINE larger(c) == IF GroupMaxRows >= c THEN GroupMaxRows ELSE c
           clamped(c) == IF larger(c) <= 9999 THEN larger(c) ELSE 9999
<1>2. \A c \in Nat : distillShardHardBound(c) = clamped(c)
  <2> SUFFICES ASSUME NEW c \in Nat PROVE distillShardHardBound(c) = clamped(c)
    OBVIOUS
  <2>1. Max({GroupMaxRows, c}) = larger(c) /\ larger(c) \in Nat
    BY <1>1, MaxTwo
  <2> HIDE DEF larger
  <2> QED
    BY <2>1, MinTwo DEF distillShardHardBound, distillShardMaxOrdinal
<1>4. Bound = clamped(Max(Caps))
  BY <1>1, <1>2 DEF Bound
<1>3. ASSUME NEW cap \in Caps \cup {0}, NEW o \in Nat, ~NoFurtherShard(cap, o)
      PROVE  o + 1 <= Bound
  <2>1. cap \in Nat /\ cap <= Max(Caps)
    BY <1>1, CapsMax
  <2>2. distillShardHardBound(cap) = clamped(cap)
    BY <1>2, <2>1
  <2>3. ~(o >= distillShardHardBound(cap))
    BY <1>3 DEF NoFurtherShard
  <2> QED
    BY <1>1, <1>4, <2>1, <2>2, <2>3
<1> QED
  BY <1>1, <1>3, <1>4

(* A sequence without duplicates is as long as its set is large. *)
LEMMA OnceCounts ==
  ASSUME NEW S, NEW s \in Seq(S), Once(s)
  PROVE  Len(s) = Cardinality(ToSet(s))
<1>1. Len(s) \in Nat /\ DOMAIN s = 1..Len(s) /\ s \in [1..Len(s) -> S]
  BY LenProperties
<1>2. s \in Bijection(1..Len(s), ToSet(s))
  <2>1. s \in [1..Len(s) -> ToSet(s)]
    BY <1>1 DEF ToSet
  <2>2. s \in Injection(1..Len(s), ToSet(s))
    BY <1>1, <2>1 DEF Injection, IsInjective, Once
  <2>3. s \in Surjection(1..Len(s), ToSet(s))
    BY <1>1, <2>1 DEF Surjection, ToSet
  <2> QED
    BY <2>2, <2>3 DEF Bijection
<1>3. IsFiniteSet(1..Len(s)) /\ Cardinality(1..Len(s)) = Len(s)
  BY <1>1, FS_Interval
<1>4. ExistsBijection(1..Len(s), ToSet(s))
  BY <1>2 DEF ExistsBijection
<1> QED
  BY <1>1, <1>3, <1>4, FS_Bijection

(* The render looks at four fields only. *)
LEMMA RenderSame ==
  ASSUME NEW r \in Accumulators, NEW q \in Accumulators,
         q.group = r.group, q.carry = r.carry, q.ordinal = r.ordinal, q.insights = r.insights
  PROVE  Render(q).written = Render(r).written
<1>1. Lines(q) = Lines(r) /\ Fit(q) = Fit(r)
  BY DEF Lines, Fit, Room
<1> QED
  BY <1>1, RenderFacts, ZenonT(30)

(* An accumulator that has been given nothing renders nothing. *)
LEMMA RenderNothing ==
  ASSUME NEW r \in Accumulators, r.insights = <<>>
  PROVE  Render(r).written = <<>>
<1>1. ToSet(r.insights) = {}
  BY DEF ToSet
<1>2. ToSet(Render(r).written) = {}
  BY <1>1, RenderFacts
<1>3. Render(r).written \in Seq(Claims)
  BY RenderFacts DEF Accumulators
<1>4. PICK w \in Seq(Claims) : w = Render(r).written
  BY <1>3
<1>5. w # <<>> => w[1] \in ToSet(w)
  BY <1>4, LenProperties DEF ToSet
<1> QED
  BY <1>2, <1>4, <1>5

(* The empty batch and the idle run. *)
LEMMA IdleFacts ==
  NoBatch \in Batches /\ NoRun \in Accumulators /\ 0 \in Watermarks
<1>1. NoBatch \in Batches
  BY DEF NoBatch, Batches
<1>2. 0 \in Watermarks
  BY DEF Watermarks
<1> QED
  BY <1>1, <1>2 DEF NoRun, Accumulators

(* The rollover opens the next shard with what the last one could not take. *)
LEMMA RolloverFacts ==
  ASSUME NEW r \in Accumulators
  PROVE  /\ rollover(r) \in Accumulators
         /\ \A f \in {"from", "to", "wm", "cap", "batch"} : rollover(r)[f] = r[f]
         /\ rollover(r).ordinal = r.ordinal + 1
         /\ rollover(r).group = r.group \cup ToSet(r.carry) \cup ToSet(r.written)
         /\ rollover(r).carry = <<>> /\ rollover(r).written = <<>>
         /\ rollover(r).insights = r.overflow
<1>1. ToSet(r.carry) \subseteq Claims /\ ToSet(r.written) \subseteq Claims
  BY LenProperties DEF Accumulators, ToSet
<1>2. PICK g \in SUBSET Claims : g = r.group \cup ToSet(r.carry) \cup ToSet(r.written)
  BY <1>1 DEF Accumulators
<1>3. PICK o \in Nat \ {0} : o = r.ordinal + 1
  BY DEF Accumulators
<1>4. PICK v \in Seq(Claims) : v = r.overflow
  BY DEF Accumulators
<1>5. rollover(r) = [r EXCEPT !.group = g, !.ordinal = o, !.carry = <<>>, !.insights = v,
                              !.written = <<>>, !.overflow = <<>>, !.called = FALSE]
  BY <1>2, <1>3, <1>4 DEF rollover, Accumulators
<1>6. <<>> \in Seq(Claims)
  OBVIOUS
<1>7. rollover(r) \in Accumulators
  BY <1>2, <1>3, <1>4, <1>5, <1>6, ZenonT(30) DEF Accumulators
<1>8. \A f \in {"from", "to", "wm", "cap", "batch"} : rollover(r)[f] = r[f]
  BY <1>5 DEF Accumulators
<1>9. /\ rollover(r).group = g /\ rollover(r).ordinal = o /\ rollover(r).carry = <<>>
      /\ rollover(r).insights = v /\ rollover(r).written = <<>>
  BY <1>5 DEF Accumulators
<1> QED
  BY <1>2, <1>3, <1>4, <1>7, <1>8, <1>9

(* The batch joins the accumulator. *)
LEMMA AddBatchFacts ==
  ASSUME NEW r \in Accumulators, r.batch.done <= Len(r.batch.kept)
  PROVE  /\ AddBatch(r) \in Accumulators
         /\ \A f \in {"from", "to", "wm", "cap", "ordinal", "carry", "group", "written",
                      "overflow"} : AddBatch(r)[f] = r[f]
         /\ AddBatch(r).insights = r.insights \o r.batch.bought
         /\ \A f \in {"kept", "done", "wm", "stop", "complete", "rolled"} :
                AddBatch(r).batch[f] = r.batch[f]
         /\ AddBatch(r).batch.marks = ToSet(SubSeq(r.batch.kept, 1, r.batch.done))
         /\ AddBatch(r).batch.covered = IF r.batch.done < Len(r.batch.kept) THEN 0 ELSE r.batch.wm
<1>1. r.batch \in Batches /\ r.batch.kept \in Seq(Chunks) /\ r.batch.done \in Nat
  BY DEF Accumulators, Batches
<1>2. Len(r.batch.kept) \in Nat /\ r.batch.done \in 0..Len(r.batch.kept)
  BY <1>1, LenProperties
<1>3. SubSeq(r.batch.kept, 1, r.batch.done) \in Seq(Chunks)
  BY <1>1, <1>2, SubSeqFacts
<1>4. PICK m \in SUBSET Chunks : m = ToSet(SubSeq(r.batch.kept, 1, r.batch.done))
  <2>1. PICK t \in Seq(Chunks) : t = SubSeq(r.batch.kept, 1, r.batch.done)
    BY <1>3
  <2>2. ToSet(t) \subseteq Chunks
    BY <2>1, LenProperties DEF ToSet
  <2> QED
    BY <2>1, <2>2
<1>5. PICK w \in Nat : w = IF r.batch.done < Len(r.batch.kept) THEN 0 ELSE r.batch.wm
  BY <1>1 DEF Batches
<1>6. r.insights \o r.batch.bought \in Seq(Claims)
  BY <1>1 DEF Accumulators, Batches
<1>7. AddBatch(r) = [r EXCEPT !.insights = @ \o r.batch.bought, !.called = @ \/ r.batch.called,
                              !.batch.marks = m, !.batch.covered = w]
  BY <1>4, <1>5 DEF AddBatch
<1>8. (r.called \/ r.batch.called) \in BOOLEAN
  BY <1>1 DEF Accumulators, Batches
<1>9. PICK b : b = [r.batch EXCEPT !.marks = m, !.covered = w]
  OBVIOUS
<1>10. /\ b \in Batches /\ b.marks = m /\ b.covered = w
       /\ \A f \in {"kept", "done", "wm", "stop", "complete", "rolled"} : b[f] = r.batch[f]
  BY <1>1, <1>4, <1>5, <1>9 DEF Batches
<1>11. PICK ins \in Seq(Claims) : ins = r.insights \o r.batch.bought
  BY <1>6
<1>12. PICK call \in BOOLEAN : call = (r.called \/ r.batch.called)
  BY <1>8
<1>13. AddBatch(r) = [r EXCEPT !.insights = ins, !.called = call, !.batch = b]
  BY <1>1, <1>7, <1>9, <1>11, <1>12 DEF Accumulators, Batches
<1>14. AddBatch(r) \in Accumulators
  BY <1>10, <1>11, <1>12, <1>13 DEF Accumulators
<1>15. \A f \in {"from", "to", "wm", "cap", "ordinal", "carry", "group", "written",
                 "overflow"} : AddBatch(r)[f] = r[f]
  BY <1>13 DEF Accumulators
<1>16. AddBatch(r).insights = ins /\ AddBatch(r).batch = b
  BY <1>13 DEF Accumulators
<1> QED
  BY <1>4, <1>5, <1>10, <1>11, <1>14, <1>15, <1>16

(* Material without a place: only the batch changes. *)
LEMMA HeldBackFacts ==
  ASSUME NEW r \in Accumulators, NEW m \in SUBSET Chunks,
         m = Marked(distillHeldFrom(r.overflow))
  PROVE  /\ HeldBack(r) \in Accumulators
         /\ \A f \in {"from", "to", "wm", "cap", "ordinal", "carry", "group", "insights",
                      "written", "overflow", "called"} : HeldBack(r)[f] = r[f]
         /\ \A f \in {"kept", "done", "wm"} : HeldBack(r).batch[f] = r.batch[f]
         /\ HeldBack(r).batch.marks = IF r.overflow = <<>> THEN r.batch.marks ELSE m
         /\ HeldBack(r).batch.covered = IF r.overflow = <<>> THEN r.batch.covered ELSE 0
<1>1. HeldBack(r) = [r EXCEPT !.batch.stop = TRUE,
                              !.batch.marks = IF r.overflow = <<>> THEN @ ELSE m,
                              !.batch.covered = IF r.overflow = <<>> THEN @ ELSE 0]
  BY DEF HeldBack
<1>2. r.batch \in Batches
  BY DEF Accumulators
<1>3. PICK k \in SUBSET Chunks : k = IF r.overflow = <<>> THEN r.batch.marks ELSE m
  BY <1>2 DEF Batches
<1>4. PICK w \in Nat : w = IF r.overflow = <<>> THEN r.batch.covered ELSE 0
  BY <1>2 DEF Batches
<1>5. PICK b : b = [r.batch EXCEPT !.stop = TRUE, !.marks = k, !.covered = w]
  OBVIOUS
<1>6. /\ b \in Batches /\ b.marks = k /\ b.covered = w
      /\ \A f \in {"kept", "done", "wm"} : b[f] = r.batch[f]
  BY <1>2, <1>3, <1>4, <1>5 DEF Batches
<1>7. HeldBack(r) = [r EXCEPT !.batch = b]
  BY <1>1, <1>2, <1>3, <1>4, <1>5 DEF Accumulators, Batches
<1>8. HeldBack(r) \in Accumulators
  BY <1>6, <1>7 DEF Accumulators
<1>9. \A f \in {"from", "to", "wm", "cap", "ordinal", "carry", "group", "insights",
                "written", "overflow", "called"} : HeldBack(r)[f] = r[f]
  BY <1>7 DEF Accumulators
<1>10. HeldBack(r).batch = b
  BY <1>7 DEF Accumulators
<1> QED
  BY <1>3, <1>4, <1>6, <1>8, <1>9, <1>10

(* The marks of a batch that holds material back: those in front of the first chunk
   of it. *)
LEMMA HeldFromFacts ==
  ASSUME RunOK, NEW over \in Seq(Claims)
  PROVE  /\ Marked(distillHeldFrom(over)) \subseteq Marked(run.batch.done)
         /\ Marked(run.batch.done) \subseteq ToSet(run.batch.kept)
         /\ ToSet(run.batch.kept) \subseteq Chunks
         /\ \A c \in Marked(distillHeldFrom(over)) : ToSet(Yield[c]) \cap ToSet(over) = {}
<1> DEFINE kept == run.batch.kept
           done == run.batch.done
           shown == SubSeq(kept, 1, done)
           held == {i \in DOMAIN shown : ToSet(Yield[shown[i]]) \cap ToSet(over) # {}}
<1>1. kept \in Seq(Chunks) /\ done \in Nat /\ done <= Len(kept) /\ Len(kept) \in Nat
  BY LenProperties DEF RunOK, BatchOK, Accumulators, Batches
<1>2. shown \in Seq(Chunks) /\ Len(shown) = done /\ \A i \in 1..done : shown[i] = kept[i]
  <2>1. done \in 0..Len(kept) /\ 1 \in Nat \ {0}
    BY <1>1
  <2>2. /\ SubSeq(kept, 1, done) \in Seq(Chunks)
        /\ Len(SubSeq(kept, 1, done)) = IF 1 <= done THEN done - 1 + 1 ELSE 0
        /\ \A k \in 1..(done - 1 + 1) : SubSeq(kept, 1, done)[k] = kept[1 + k - 1]
    BY <1>1, <2>1, SubSeqFacts
  <2> QED
    BY <1>1, <2>2
<1>3. DOMAIN shown = 1..done
  BY <1>2, LenProperties
<1>4. \A n \in 0..done : \A x : x \in Marked(n) <=> \E i \in 1..n : x = kept[i]
  <2>1. \A n \in 0..done : n \in 0..Len(kept)
    BY <1>1
  <2> QED
    BY <1>1, <2>1, SubSeqFacts DEF Marked
<1>5. distillHeldFrom(over) = IF held = {} THEN 0 ELSE Min(held) - 1
  BY DEF distillHeldFrom
<1>6. distillHeldFrom(over) \in 0..done
      /\ \A i \in 1..distillHeldFrom(over) : i \notin held
  <2>1. held \in SUBSET Nat /\ held \subseteq 1..done
    BY <1>1, <1>3
  <2> HIDE DEF held
  <2>2. CASE held = {}
    BY <1>1, <1>5, <2>2
  <2>3. CASE held # {}
    <3>1. Min(held) \in held /\ \A y \in held : Min(held) <= y
      BY <2>1, <2>3, MinIs
    <3>2. PICK m \in held : m = Min(held)
      BY <3>1
    <3>3. m \in 1..done /\ distillHeldFrom(over) = m - 1 /\ \A y \in held : m <= y
      BY <1>5, <2>1, <2>3, <3>1, <3>2
    <3> QED
      BY <1>1, <3>3
  <2> QED
    BY <2>2, <2>3
<1>7. PICK n \in 0..done : n = distillHeldFrom(over)
  BY <1>6
<1>8. Marked(n) \subseteq Marked(done)
  BY <1>1, <1>4, <1>7
<1>9. ASSUME NEW c \in Marked(n) PROVE ToSet(Yield[c]) \cap ToSet(over) = {}
  <2>1. PICK i \in 1..n : c = kept[i]
    BY <1>4, <1>7, <1>9
  <2>2. i \in 1..done /\ i \notin held
    BY <1>1, <1>6, <1>7, <2>1
  <2> QED
    BY <1>2, <1>3, <2>1, <2>2
<1>10. Marked(done) \subseteq ToSet(kept) /\ ToSet(kept) \subseteq Chunks
  <2>1. DOMAIN kept = 1..Len(kept) /\ \A i \in 1..Len(kept) : kept[i] \in Chunks
    BY <1>1, LenProperties
  <2>2. \A x \in Marked(done) : \E i \in 1..done : x = kept[i]
    BY <1>1, <1>4
  <2>3. \A i \in 1..done : i \in 1..Len(kept)
    BY <1>1
  <2> QED
    BY <2>1, <2>2, <2>3 DEF ToSet
<1> QED
  BY <1>7, <1>8, <1>9, <1>10

(* The upsert replaces the last shard of a range or adds one behind it. *)
LEMMA UpsertedFacts ==
  ASSUME blocks \in [Watermarks -> Seq(Seq(Claims))], NEW r \in Accumulators,
         r.ordinal \in {Len(blocks[r.from]), Len(blocks[r.from]) + 1}
  PROVE  /\ Upserted(r) \in [Watermarks -> Seq(Seq(Claims))]
         /\ \A w \in Watermarks \ {r.from} : Upserted(r)[w] = blocks[w]
         /\ Len(Upserted(r)[r.from]) = r.ordinal
         /\ Upserted(r)[r.from][r.ordinal] = r.carry \o r.written
         /\ \A n \in 1..(r.ordinal - 1) : Upserted(r)[r.from][n] = blocks[r.from][n]
<1>1. /\ r.from \in Watermarks /\ r.ordinal \in Nat \ {0}
      /\ r.carry \in Seq(Claims) /\ r.written \in Seq(Claims)
  BY DEF Accumulators
<1>2. PICK w \in Watermarks : w = r.from
  BY <1>1
<1>3. PICK o \in Nat \ {0} : o = r.ordinal
  BY <1>1
<1>4. PICK c \in Seq(Seq(Claims)) : c = blocks[w]
  BY <1>2
<1>5. PICK t \in Seq(Claims) : t = r.carry \o r.written
  BY <1>1, ConcatProperties
<1>6. PICK d : d = IF o > Len(c) THEN Append(c, t) ELSE [c EXCEPT ![o] = t]
  OBVIOUS
<1>7. Upserted(r) = [blocks EXCEPT ![w] = d]
  BY <1>2, <1>3, <1>4, <1>5, <1>6 DEF Upserted
<1>8. Len(c) \in Nat /\ DOMAIN c = 1..Len(c) /\ o \in {Len(c), Len(c) + 1}
  BY <1>2, <1>3, <1>4, LenProperties
<1>9. d \in Seq(Seq(Claims)) /\ Len(d) = o /\ d[o] = t /\ \A n \in 1..(o - 1) : d[n] = c[n]
  <2>1. CASE o = Len(c)
    <3>0. PICK l \in Nat : l = Len(c) /\ l = o
      BY <1>8, <2>1
    <3>5. o \in 1..l /\ ~(o > l) /\ \A n \in 1..(o - 1) : n \in 1..l /\ n # o
      BY <3>0
    <3>1. o \in 1..Len(c) /\ ~(o > Len(c)) /\ \A n \in 1..(o - 1) : n \in 1..Len(c) /\ n # o
      BY <3>0, <3>5, Zenon
    <3>2. d = [c EXCEPT ![o] = t]
      BY <1>6, <3>1, Zenon
    <3>3. /\ [c EXCEPT ![o] = t] \in Seq(Seq(Claims))
          /\ Len([c EXCEPT ![o] = t]) = Len(c)
          /\ \A j \in 1..Len(c) : [c EXCEPT ![o] = t][j] = IF j = o THEN t ELSE c[j]
      BY <3>1, ExceptSeq
    <3>4. /\ d \in Seq(Seq(Claims)) /\ Len(d) = Len(c)
          /\ \A j \in 1..Len(c) : d[j] = IF j = o THEN t ELSE c[j]
      BY <3>2, <3>3, Zenon
    <3> QED
      BY <2>1, <3>1, <3>4
  <2>2. CASE o = Len(c) + 1
    <3>0. o > Len(c)
      BY <1>8, <2>2
    <3>1. d = Append(c, t)
      BY <1>6, <3>0, Zenon
    <3>2. /\ Append(c, t) \in Seq(Seq(Claims)) /\ Len(Append(c, t)) = Len(c) + 1
          /\ \A i \in 1..Len(c) : Append(c, t)[i] = c[i]
          /\ Append(c, t)[Len(c) + 1] = t
      BY AppendProperties
    <3>3. \A n \in 1..(o - 1) : n \in 1..Len(c)
      BY <1>8, <2>2
    <3> QED
      BY <2>2, <3>1, <3>2, <3>3
  <2> QED
    BY <1>8, <2>1, <2>2
<1>10. Upserted(r) \in [Watermarks -> Seq(Seq(Claims))] /\ Upserted(r)[w] = d
       /\ \A x \in Watermarks \ {w} : Upserted(r)[x] = blocks[x]
  BY <1>7, <1>9
<1> QED
  BY <1>2, <1>3, <1>4, <1>5, <1>9, <1>10

(* A number is not its successor. *)
LEMMA NotNext == \A n \in Nat : n # n + 1
  OBVIOUS

(* What the lower shards of a chain hold, and what one more adds. *)
LEMMA BelowFacts ==
  ASSUME NEW c \in Seq(Seq(Claims)), c # <<>>
  PROVE  /\ AllOf(SubSeq(c, 1, Len(c) - 1)) = Below(c, Len(c) - 1)
         /\ Below(c, Len(c) + 1 - 1) = Below(c, Len(c) - 1) \cup ToSet(c[Len(c)])
         /\ Below(c, Len(c) - 1) \subseteq Claims
<1>1. Len(c) \in Nat /\ Len(c) # 0 /\ DOMAIN c = 1..Len(c)
  BY LenProperties, EmptySeq
<1>0. PICK l \in Nat : l = Len(c)
  BY <1>1
<1>2. PICK m \in Nat : m = Len(c) - 1
  <2>1. l - 1 \in Nat
    BY <1>0, <1>1
  <2> QED
    BY <1>0, <2>1
<1>3. PICK t \in Seq(Seq(Claims)) : t = SubSeq(c, 1, m)
  <2>1. m \in 0..Len(c) /\ 1 \in Nat \ {0}
    BY <1>1, <1>2
  <2> QED
    BY <2>1, SubSeqFacts
<1>4. DOMAIN t = 1..m /\ \A n \in 1..m : t[n] = c[n]
  <2>1. m \in 0..Len(c) /\ 1 \in Nat \ {0}
    BY <1>1, <1>2
  <2>2. /\ Len(SubSeq(c, 1, m)) = IF 1 <= m THEN m - 1 + 1 ELSE 0
        /\ \A k \in 1..(m - 1 + 1) : SubSeq(c, 1, m)[k] = c[1 + k - 1]
    BY <2>1, SubSeqFacts
  <2>3. DOMAIN t = 1..Len(t)
    BY LenProperties
  <2> QED
    BY <1>2, <1>3, <2>2, <2>3
<1>5. AllOf(t) = Below(c, m)
  BY <1>4 DEF AllOf, Below
<1>6. \A n : n \in 1..(Len(c) + 1 - 1) <=> n \in 1..m \/ n = Len(c)
  BY <1>1, <1>2
<1>7. Below(c, Len(c) + 1 - 1) = Below(c, m) \cup ToSet(c[Len(c)])
  BY <1>6 DEF Below
<1>8. Below(c, m) \subseteq Claims
  <2>1. \A s \in Seq(Claims) : ToSet(s) \subseteq Claims
    BY LenProperties DEF ToSet
  <2>2. \A n \in 1..m : c[n] \in Seq(Claims)
    BY <1>1, <1>2
  <2> QED
    BY <2>1, <2>2 DEF Below
<1> QED
  BY <1>2, <1>3, <1>5, <1>7, <1>8

(* A run starts at the end of the chain of its range. *)
LEMMA SeedFacts ==
  ASSUME LedgerOK, NEW w \in Watermarks, maxShards \in Caps \cup {0}, Sound(blocks[w]),
         ~Capped(w)
  PROVE  LET r == distillSeedBlock(w)
         IN /\ r \in Accumulators /\ r.from = w /\ r.to = w /\ r.wm = w /\ r.cap = maxShards
            /\ r.batch = NoBatch /\ r.insights = <<>> /\ r.written = <<>>
            /\ Attached(blocks[w], r) /\ r.ordinal <= Bound
<1> DEFINE o == Max({1, Len(blocks[w])})
<1>1. PICK c \in Seq(Seq(Claims)) : c = blocks[w]
  BY DEF LedgerOK
<1>2. Len(c) \in Nat /\ DOMAIN c = 1..Len(c) /\ Len(<<>>) = 0
  BY LenProperties
<1>3. o = IF 1 >= Len(c) THEN 1 ELSE Len(c)
  BY <1>1, <1>2, MaxTwo
<1>4. c # <<>> => Len(c) # 0
  BY EmptySeq
<1>5. maxShards \in Nat
  BY Sizes
<1> DEFINE st == [NoRun EXCEPT !.from = w, !.to = w, !.wm = w, !.cap = maxShards,
                               !.ordinal = o,
                               !.carry = IF c = <<>> THEN <<>> ELSE c[o],
                               !.group = AllOf(SubSeq(c, 1, o - 1))]
<1>6. distillSeedBlock(w) = IF SeedFull(st.carry, o) THEN rollover(st) ELSE st
  BY <1>1 DEF distillSeedBlock
<1>7. PICK g : g = AllOf(SubSeq(c, 1, o - 1))
  OBVIOUS
<1>8. PICK k : k = IF c = <<>> THEN <<>> ELSE c[o]
  OBVIOUS
<1>9. PICK p : p = o
  OBVIOUS
<1>10. st = [NoRun EXCEPT !.from = w, !.to = w, !.wm = w, !.cap = maxShards,
                          !.ordinal = p, !.carry = k, !.group = g]
  BY <1>7, <1>8, <1>9
<1>11. p \in Nat \ {0} /\ k \in Seq(Claims) /\ g \in SUBSET Claims
       /\ g = Below(c, p - 1)
       /\ (c = <<>> => p = 1 /\ k = <<>>)
       /\ (c # <<>> => p = Len(c) /\ k = c[p])
  <2>1. CASE c = <<>>
    <3>1. p = 1 /\ k = <<>>
      BY <1>2, <1>3, <1>8, <1>9, <2>1
    <3>2. g = AllOf(SubSeq(c, 1, 0))
      BY <1>7, <1>9, <3>1
    <3>3. SubSeq(c, 1, 0) = <<>>
      BY <2>1
    <3>4. g = {}
      BY <3>2, <3>3 DEF AllOf
    <3>5. Below(c, p - 1) = {}
      BY <3>1 DEF Below
    <3> QED
      BY <2>1, <3>1, <3>4, <3>5
  <2>2. CASE c # <<>>
    <3>1. p = Len(c) /\ p \in Nat \ {0} /\ k = c[p]
      BY <1>2, <1>3, <1>4, <1>8, <1>9, <2>2
    <3>2. k \in Seq(Claims)
      BY <1>2, <3>1
    <3>3. g = AllOf(SubSeq(c, 1, Len(c) - 1))
      BY <1>7, <1>9, <3>1
    <3> QED
      BY <2>2, <3>1, <3>2, <3>3, BelowFacts
  <2> QED
    BY <2>1, <2>2
<1>12. /\ st \in Accumulators
       /\ st.from = w /\ st.to = w /\ st.wm = w /\ st.cap = maxShards /\ st.batch = NoBatch
       /\ st.insights = <<>> /\ st.written = <<>> /\ st.overflow = <<>>
       /\ st.ordinal = p /\ st.carry = k /\ st.group = g
  <2>1. NoRun \in Accumulators
    BY IdleFacts
  <2>2. st \in Accumulators
    BY <1>5, <1>10, <1>11, <2>1, ZenonT(30) DEF Accumulators
  <2> QED
    BY <1>10, <2>1, <2>2 DEF NoRun
<1> HIDE DEF st, o
<1>13. \A n \in 1..Len(c) : n <= Bound
  BY <1>1 DEF Sound
<1>14. CASE ~SeedFull(k, p)
  <2>1. distillSeedBlock(w) = st
    BY <1>6, <1>9, <1>12, <1>14
  <2>2. p <= Bound
    <3>1. CASE c = <<>>
      BY <1>11, <3>1, BoundFacts
    <3>2. CASE c # <<>>
      <4>1. p \in 1..Len(c)
        BY <1>2, <1>11, <3>2
      <4> QED
        BY <1>13, <4>1
    <3> QED
      BY <3>1, <3>2
  <2>3. Attached(c, st)
    <3>1. CASE c = <<>>
      BY <1>2, <1>11, <1>12, <3>1 DEF Attached
    <3>2. CASE c # <<>>
      <4>1. k \o <<>> = k
        BY <1>11, ConcatEmptySeq
      <4>2. /\ st.ordinal = Len(c) /\ Len(c) # Len(c) + 1
            /\ st.group = Below(c, st.ordinal - 1)
            /\ c[st.ordinal] = st.carry \o st.written
        <5>1. st.ordinal = Len(c) /\ st.carry = k /\ st.written = <<>> /\ k = c[p] /\ st.ordinal = p
          BY <1>11, <1>12, <3>2, Zenon
        <5>2. Len(c) # Len(c) + 1
          BY <1>2, NotNext, Zenon
        <5>3. st.group = Below(c, p - 1)
          BY <1>11, <1>12, Zenon
        <5> QED
          BY <4>1, <5>1, <5>2, <5>3, Zenon
      <4> QED
        BY <4>2, Zenon DEF Attached
    <3> QED
      BY <3>1, <3>2
  <2> QED
    BY <1>1, <1>12, <2>1, <2>2, <2>3
<1>15. CASE SeedFull(k, p)
  <2>1. distillSeedBlock(w) = rollover(st)
    BY <1>6, <1>9, <1>12, <1>15
  <2>2. k # <<>> /\ c # <<>>
    BY <1>11, <1>15 DEF SeedFull
  <2>3. ~NoFurtherShard(maxShards, p)
    <3>1. SeedFull(blocks[w][o], o)
      BY <1>1, <1>9, <1>11, <1>15, <2>2
    <3> QED
      BY <1>1, <1>9, <2>2, <3>1 DEF Capped, o
  <2>4. p + 1 <= Bound
    BY <1>11, <2>3, BoundFacts
  <2>5. PICK q \in Accumulators : q = rollover(st)
    BY <1>12, RolloverFacts
  <2>6. /\ q.from = w /\ q.to = w /\ q.wm = w /\ q.cap = maxShards /\ q.batch = NoBatch
        /\ q.ordinal = p + 1 /\ q.group = g \cup ToSet(k) \cup ToSet(<<>>)
        /\ q.carry = <<>> /\ q.written = <<>> /\ q.insights = <<>>
    <3>1. /\ \A f \in {"from", "to", "wm", "cap", "batch"} : q[f] = st[f]
          /\ q.ordinal = st.ordinal + 1
          /\ q.group = st.group \cup ToSet(st.carry) \cup ToSet(st.written)
          /\ q.carry = <<>> /\ q.written = <<>> /\ q.insights = st.overflow
      BY <1>12, <2>5, RolloverFacts
    <3> QED
      BY <1>12, <3>1
  <2>7. q.group = Below(c, q.ordinal - 1)
    <3>1. ToSet(<<>>) = {}
      BY DEF ToSet
    <3>2. Below(c, Len(c) + 1 - 1) = Below(c, Len(c) - 1) \cup ToSet(c[Len(c)])
      BY <2>2, BelowFacts
    <3>3. p = Len(c) /\ k = c[Len(c)]
      BY <1>11, <2>2, Zenon
    <3>4. q.ordinal = Len(c) + 1 /\ g = Below(c, Len(c) - 1)
      BY <1>11, <2>6, <3>3, Zenon
    <3>5. q.group = g \cup ToSet(c[Len(c)])
      <4>1. q.group = g \cup ToSet(c[Len(c)]) \cup {}
        BY <2>6, <3>1, <3>3, Zenon
      <4> QED
        BY <4>1
    <3> QED
      BY <3>2, <3>4, <3>5
  <2>8. Attached(c, q)
    <3>1. q.ordinal = Len(c) + 1
      BY <1>11, <2>2, <2>6, Zenon
    <3>2. Len(c) # Len(c) + 1
      BY <1>2, NotNext, Zenon
    <3> QED
      BY <2>6, <2>7, <3>1, <3>2, Zenon DEF Attached
  <2> QED
    BY <1>1, <2>1, <2>4, <2>5, <2>6, <2>8
<1> QED
  BY <1>14, <1>15

-----------------------------------------------------------------------------
(* Writes of a shard. *)

(* Duplicates in a concatenation. *)
LEMMA OnceConcat ==
  ASSUME NEW S, NEW s \in Seq(S), NEW t \in Seq(S)
  PROVE  /\ Once(s \o t) => Once(s)
         /\ Once(s) /\ Once(t) /\ ToSet(s) \cap ToSet(t) = {} => Once(s \o t)
<1>1. /\ Len(s) \in Nat /\ Len(t) \in Nat /\ DOMAIN s = 1..Len(s) /\ DOMAIN t = 1..Len(t)
      /\ s \o t \in Seq(S) /\ DOMAIN (s \o t) = 1..Len(s \o t) /\ Len(s \o t) = Len(s) + Len(t)
  BY LenProperties, ConcatProperties
<1>2. \A i \in 1..(Len(s) + Len(t)) :
        (s \o t)[i] = IF i <= Len(s) THEN s[i] ELSE t[i - Len(s)]
  BY <1>1, ConcatProperties
<1>3. PICK m \in Nat : m = Len(s)
  BY <1>1
<1>4. PICK n \in Nat : n = Len(t)
  BY <1>1
<1>5. PICK u : u = s \o t
  OBVIOUS
<1>6. /\ DOMAIN s = 1..m /\ DOMAIN t = 1..n /\ DOMAIN u = 1..(m + n)
      /\ \A i \in 1..(m + n) : u[i] = IF i <= m THEN s[i] ELSE t[i - m]
  BY <1>1, <1>2, <1>3, <1>4, <1>5
<1>7. ASSUME Once(u) PROVE Once(s)
  <2>1. SUFFICES ASSUME NEW i \in 1..m, NEW j \in 1..m, i # j PROVE s[i] # s[j]
    BY <1>6 DEF Once
  <2>2. i \in 1..(m + n) /\ j \in 1..(m + n) /\ u[i] = s[i] /\ u[j] = s[j]
    BY <1>6
  <2> QED
    BY <1>6, <1>7, <2>1, <2>2 DEF Once
<1>8. ASSUME Once(s), Once(t), ToSet(s) \cap ToSet(t) = {} PROVE Once(u)
  <2>1. SUFFICES ASSUME NEW i \in 1..(m + n), NEW j \in 1..(m + n), i # j PROVE u[i] # u[j]
    BY <1>6 DEF Once
  <2>2. \A a \in 1..m, b \in 1..n : s[a] # t[b]
    BY <1>6, <1>8 DEF ToSet
  <2>3. CASE i <= m /\ j <= m
    <3>1. i \in 1..m /\ j \in 1..m /\ u[i] = s[i] /\ u[j] = s[j]
      BY <1>6, <2>3
    <3> QED
      BY <1>6, <1>8, <2>1, <3>1 DEF Once
  <2>4. CASE ~(i <= m) /\ ~(j <= m)
    <3>1. i - m \in 1..n /\ j - m \in 1..n /\ i - m # j - m /\ u[i] = t[i - m] /\ u[j] = t[j - m]
      BY <1>6, <2>1, <2>4
    <3> QED
      BY <1>6, <1>8, <3>1 DEF Once
  <2>5. CASE i <= m /\ ~(j <= m)
    <3>1. i \in 1..m /\ j - m \in 1..n /\ u[i] = s[i] /\ u[j] = t[j - m]
      BY <1>6, <2>5
    <3> QED
      BY <2>2, <3>1
  <2>6. CASE ~(i <= m) /\ j <= m
    <3>1. j \in 1..m /\ i - m \in 1..n /\ u[j] = s[j] /\ u[i] = t[i - m]
      BY <1>6, <2>6
    <3> QED
      BY <2>2, <3>1
  <2> QED
    BY <2>3, <2>4, <2>5, <2>6
<1> QED
  BY <1>5, <1>7, <1>8

(* d is the chain c with shard o written. *)
Written(c, d, o) ==
    /\ c \in Seq(Seq(Claims)) /\ d \in Seq(Seq(Claims)) /\ o \in Nat \ {0}
    /\ o \in {Len(c), Len(c) + 1} /\ Len(d) = o
    /\ \A n \in 1..(o - 1) : d[n] = c[n]

(* A write of the last shard keeps a chain sound if the shard is within its room,
   free of duplicates and of what the shards below hold; what the chain held stays
   in it if the shard keeps what it had. *)
LEMMA ChainWritten ==
  ASSUME NEW c, NEW d, NEW o, Written(c, d, o), Sound(c), o <= Bound,
         Once(d[o]), Len(d[o]) <= RunRoom(o), ToSet(d[o]) \cap Below(c, o - 1) = {}
  PROVE  /\ Sound(d) /\ Below(d, o - 1) = Below(c, o - 1)
         /\ Below(c, o - 1) \subseteq Below(d, Len(d)) /\ ToSet(d[o]) \subseteq Below(d, Len(d))
         /\ (o = Len(c) => ToSet(c[o]) \subseteq ToSet(d[o])) =>
              Below(c, Len(c)) \subseteq Below(d, Len(d))
<1>1. /\ c \in Seq(Seq(Claims)) /\ d \in Seq(Seq(Claims)) /\ o \in Nat \ {0}
      /\ o \in {Len(c), Len(c) + 1} /\ Len(d) = o
      /\ \A n \in 1..(o - 1) : d[n] = c[n]
  BY DEF Written
<1>2. PICK l \in Nat : l = Len(c)
  BY <1>1, LenProperties
<1>3. /\ \A n : n \in 1..o <=> n \in 1..(o - 1) \/ n = o
      /\ \A n : n \in 1..l => n \in 1..(o - 1) \/ (n = o /\ o = l)
      /\ \A n \in 1..(o - 1) : n \in 1..l /\ n # o
  BY <1>1, <1>2
<1>4. Below(d, o - 1) = Below(c, o - 1)
  BY <1>1 DEF Below
<1>5. \A n \in 1..(o - 1) : ToSet(c[n]) \subseteq Below(c, o - 1)
  BY DEF Below
<1>6. /\ \A n \in 1..l : Once(c[n]) /\ Len(c[n]) <= RunRoom(n) /\ n <= Bound
      /\ \A n, k \in 1..l : n # k => ToSet(c[n]) \cap ToSet(c[k]) = {}
  BY <1>2 DEF Sound
<1>7. \A n \in 1..o : Once(d[n]) /\ Len(d[n]) <= RunRoom(n) /\ n <= Bound
  BY <1>1, <1>3, <1>6
<1>8. ASSUME NEW n \in 1..o, NEW k \in 1..o, n # k
      PROVE  ToSet(d[n]) \cap ToSet(d[k]) = {}
  <2>1. CASE n \in 1..(o - 1) /\ k \in 1..(o - 1)
    <3>1. d[n] = c[n] /\ d[k] = c[k] /\ n \in 1..l /\ k \in 1..l
      BY <1>1, <1>3, <2>1
    <3> QED
      BY <1>6, <1>8, <3>1
  <2>2. CASE n \in 1..(o - 1) /\ k = o
    <3>1. d[n] = c[n] /\ ToSet(c[n]) \subseteq Below(c, o - 1)
      BY <1>1, <1>5, <2>2
    <3> QED
      BY <2>2, <3>1
  <2>3. CASE n = o /\ k \in 1..(o - 1)
    <3>1. d[k] = c[k] /\ ToSet(c[k]) \subseteq Below(c, o - 1)
      BY <1>1, <1>5, <2>3
    <3> QED
      BY <2>3, <3>1
  <2> QED
    BY <1>3, <1>8, <2>1, <2>2, <2>3
<1>9. Sound(d)
  BY <1>1, <1>7, <1>8 DEF Sound
<1>10. \A x : x \in Below(d, o) <=> x \in Below(c, o - 1) \/ x \in ToSet(d[o])
  <2>1. \A x : x \in Below(d, o) <=> \E n \in 1..o : x \in ToSet(d[n])
    BY DEF Below
  <2>2. \A x : x \in Below(d, o - 1) <=> \E n \in 1..(o - 1) : x \in ToSet(d[n])
    BY DEF Below
  <2> QED
    BY <1>3, <1>4, <2>1, <2>2
<1>11. ASSUME o = Len(c) => ToSet(c[o]) \subseteq ToSet(d[o])
       PROVE  Below(c, Len(c)) \subseteq Below(d, Len(d))
  <2>1. SUFFICES ASSUME NEW x \in Below(c, l) PROVE x \in Below(d, o)
    BY <1>1, <1>2
  <2>2. PICK n \in 1..l : x \in ToSet(c[n])
    BY <2>1 DEF Below
  <2>3. CASE n \in 1..(o - 1)
    BY <1>5, <1>10, <2>2, <2>3
  <2>4. CASE n = o /\ o = l
    BY <1>2, <1>10, <1>11, <2>2, <2>4
  <2> QED
    BY <1>3, <2>3, <2>4
<1> QED
  BY <1>1, <1>4, <1>9, <1>10, <1>11

(* The accumulator r belongs to a sound chain c, and has rendered all it has. *)
Running(c, r) ==
    /\ r \in Accumulators /\ Sound(c) /\ Attached(c, r)
    /\ r.ordinal <= Bound /\ Render(r).written = r.written

(* A write that appends to what the accumulator has: the running shard grows. *)
LEMMA ShardRewritten ==
  ASSUME NEW c, NEW d, NEW r, NEW q \in Accumulators, NEW t \in Seq(Claims), Running(c, r),
         q.group = r.group, q.carry = r.carry, q.ordinal = r.ordinal,
         q.insights = r.insights \o t,
         Written(c, d, q.ordinal), d[q.ordinal] = q.carry \o Render(q).written
  PROVE  /\ Running(d, Render(q)) /\ Len(d) = q.ordinal
         /\ Below(c, Len(c)) \subseteq Below(d, Len(d))
         /\ q.group \cup ToSet(q.carry) \cup ToSet(Render(q).written) \subseteq Below(d, Len(d))
<1>1. /\ r \in Accumulators /\ Sound(c) /\ Attached(c, r)
      /\ r.ordinal <= Bound /\ Render(r).written = r.written
  BY DEF Running
<1>2. PICK o \in Nat \ {0} : o = q.ordinal /\ o = r.ordinal
  BY DEF Accumulators
<1>3. PICK k \in Seq(Claims) : k = q.carry /\ k = r.carry
  BY DEF Accumulators
<1>4. PICK v : v = Render(q)
  OBVIOUS
<1>5. /\ v \in Accumulators /\ v.ordinal = o /\ v.carry = k /\ v.group = q.group
      /\ v.insights = q.insights
      /\ Len(v.written) <= Room(q) /\ Once(v.written)
      /\ ToSet(v.written) \cup ToSet(v.overflow) = ToSet(q.insights) \ (q.group \cup ToSet(k))
  BY <1>2, <1>3, <1>4, RenderFacts
<1>6. v.written \in Seq(Claims) /\ Len(v.written) \in Nat /\ Len(k) \in Nat
  BY <1>3, <1>5, LenProperties DEF Accumulators
<1>7. /\ c \in Seq(Seq(Claims)) /\ Len(c) \in Nat /\ o \in {Len(c), Len(c) + 1} /\ Len(d) = o
      /\ d[o] = k \o v.written
  BY <1>2, <1>3, <1>4, LenProperties DEF Written
<1>8. q.group = Below(c, o - 1)
  BY <1>1, <1>2 DEF Attached
<1>9. /\ Once(k) /\ Len(k) <= RunRoom(o) /\ ToSet(k) \cap Below(c, o - 1) = {}
      /\ o = Len(c) => ToSet(c[o]) = ToSet(k) \cup ToSet(r.written)
  <2>1. CASE o = Len(c)
    <3>1. c[o] = k \o r.written /\ r.written \in Seq(Claims)
      BY <1>1, <1>2, <1>3, <2>1 DEF Attached, Accumulators
    <3>2. o \in 1..Len(c)
      BY <1>7, <2>1
    <3>3. Once(c[o]) /\ Len(c[o]) <= RunRoom(o)
      BY <1>1, <3>2 DEF Sound
    <3>4. Once(k) /\ ToSet(c[o]) = ToSet(k) \cup ToSet(r.written)
      BY <1>3, <3>1, <3>3, OnceConcat, ConcatSet
    <3>5. Len(k) <= RunRoom(o)
      <4>1. Len(c[o]) = Len(k) + Len(r.written) /\ Len(r.written) \in Nat
        BY <1>3, <3>1, ConcatProperties, LenProperties
      <4>2. RunRoom(o) \in Nat
        BY Sizes
      <4> QED
        BY <1>6, <3>3, <4>1, <4>2
    <3>6. \A n \in 1..(o - 1) : ToSet(c[n]) \cap ToSet(c[o]) = {}
      <4>1. \A n \in 1..(o - 1) : n \in 1..Len(c) /\ n # o
        BY <1>7, <2>1
      <4> QED
        BY <1>1, <3>2, <4>1 DEF Sound
    <3>7. ToSet(c[o]) \cap Below(c, o - 1) = {}
      BY <3>6 DEF Below
    <3> QED
      BY <3>4, <3>5, <3>7
  <2>2. CASE o # Len(c)
    <3>1. o = Len(c) + 1
      BY <1>7, <2>2
    <3>2. k = <<>>
      BY <1>1, <1>2, <1>3, <3>1 DEF Attached
    <3>3. Once(<<>>) /\ ToSet(<<>>) = {} /\ Len(<<>>) = 0 /\ RunRoom(o) \in Nat
      BY Sizes DEF Once, ToSet
    <3> QED
      BY <2>2, <3>2, <3>3
  <2> QED
    BY <2>1, <2>2
<1>10. /\ Once(d[o]) /\ Len(d[o]) <= RunRoom(o) /\ ToSet(d[o]) = ToSet(k) \cup ToSet(v.written)
       /\ ToSet(d[o]) \cap Below(c, o - 1) = {}
  <2>1. ToSet(v.written) \cap (Below(c, o - 1) \cup ToSet(k)) = {}
    BY <1>5, <1>8
  <2>2. Once(d[o]) /\ ToSet(d[o]) = ToSet(k) \cup ToSet(v.written)
    <3>1. ToSet(k) \cap ToSet(v.written) = {}
      BY <2>1
    <3> QED
      BY <1>3, <1>5, <1>6, <1>7, <1>9, <3>1, OnceConcat, ConcatSet
  <2>3. Len(d[o]) <= RunRoom(o)
    <3>1. Len(d[o]) = Len(k) + Len(v.written)
      BY <1>3, <1>6, <1>7, ConcatProperties
    <3>2. Room(q) \in Nat /\ Len(k) + Room(q) = RunRoom(o) /\ RunRoom(o) \in Nat
      BY <1>2, <1>3, <1>9, FitFacts, Sizes
    <3> QED
      BY <1>5, <1>6, <3>1, <3>2
  <2> QED
    BY <1>9, <2>1, <2>2, <2>3
<1>11. Written(c, d, o) /\ o <= Bound /\ Sound(c)
  BY <1>1, <1>2
<1>12. /\ Sound(d) /\ Below(d, o - 1) = Below(c, o - 1)
       /\ Below(c, o - 1) \subseteq Below(d, Len(d)) /\ ToSet(d[o]) \subseteq Below(d, Len(d))
       /\ (o = Len(c) => ToSet(c[o]) \subseteq ToSet(d[o])) =>
            Below(c, Len(c)) \subseteq Below(d, Len(d))
  BY <1>10, <1>11, ChainWritten
<1>13. ToSet(r.written) \subseteq ToSet(v.written)
  BY <1>1, <1>4, RenderGrows
<1>14. Below(c, Len(c)) \subseteq Below(d, Len(d))
  BY <1>9, <1>10, <1>12, <1>13
<1>15. Attached(d, v)
  <2>1. v.ordinal = Len(d) /\ v.group = Below(d, v.ordinal - 1) /\ d[v.ordinal] = v.carry \o v.written
    BY <1>5, <1>7, <1>8, <1>12
  <2>2. Len(d) # Len(d) + 1
    BY <1>7, NotNext
  <2> QED
    BY <2>1, <2>2, Zenon DEF Attached
<1>16. Render(v).written = v.written
  BY <1>2, <1>3, <1>4, <1>5, RenderSame
<1>17. Running(d, v)
  BY <1>2, <1>5, <1>11, <1>12, <1>15, <1>16 DEF Running
<1> QED
  BY <1>2, <1>3, <1>4, <1>7, <1>8, <1>10, <1>12, <1>14, <1>17

(* q is the render of the fresh shard behind that of r. *)
RolledTo(r, q) == q = Render(rollover(r))

(* A rollover adds a shard behind the last one. *)
LEMMA ShardAdded ==
  ASSUME NEW c, NEW d, NEW r, NEW q, Running(c, r), r.ordinal = Len(c),
         RolledTo(r, q), q.ordinal <= Bound,
         Written(c, d, q.ordinal), d[q.ordinal] = q.carry \o q.written
  PROVE  /\ Running(d, q) /\ Len(d) = q.ordinal
         /\ Below(c, Len(c)) \subseteq Below(d, Len(d))
         /\ q.group \cup ToSet(q.written) \subseteq Below(d, Len(d))
         /\ ToSet(r.overflow) \subseteq q.group \cup ToSet(q.written) \cup ToSet(q.overflow)
<1>1. /\ r \in Accumulators /\ Sound(c) /\ Attached(c, r)
  BY DEF Running
<1>2. PICK p \in Accumulators : p = rollover(r)
  BY <1>1, RolloverFacts
<1>3. /\ p.ordinal = r.ordinal + 1 /\ p.carry = <<>> /\ p.insights = r.overflow
      /\ p.group = r.group \cup ToSet(r.carry) \cup ToSet(r.written)
  BY <1>1, <1>2, RolloverFacts
<1>4. /\ q \in Accumulators /\ q.ordinal = p.ordinal /\ q.carry = p.carry /\ q.group = p.group
      /\ q.insights = p.insights
      /\ Len(q.written) <= Room(p) /\ Once(q.written)
      /\ ToSet(q.written) \cup ToSet(q.overflow) = ToSet(p.insights) \ (p.group \cup ToSet(p.carry))
  BY <1>2, RenderFacts DEF RolledTo
<1>5. PICK l \in Nat : l = Len(c)
  BY LenProperties DEF Written
<1>6. PICK o \in Nat \ {0} : o = q.ordinal /\ o = l + 1
  BY <1>1, <1>3, <1>4, <1>5 DEF Accumulators
<1>7. q.written \in Seq(Claims) /\ d[o] = q.written /\ Len(d) = o /\ c \in Seq(Seq(Claims))
  <2>1. q.written \in Seq(Claims)
    BY <1>4 DEF Accumulators
  <2>2. <<>> \o q.written = q.written
    BY <2>1, ConcatEmptySeq
  <2>3. d[o] = <<>> \o q.written
    BY <1>3, <1>4, <1>6
  <2> QED
    BY <1>6, <2>1, <2>2, <2>3 DEF Written
<1>8. ToSet(<<>>) = {} /\ Len(<<>>) = 0
  BY DEF ToSet
<1>9. Len(d[o]) <= RunRoom(o)
  <2>1. RunRoom(o) \in Nat
    BY Sizes
  <2>2. Len(p.carry) = 0 /\ p.ordinal = o
    BY <1>3, <1>4, <1>6, <1>8
  <2>3. Room(p) \in Nat /\ Len(p.carry) + Room(p) = RunRoom(p.ordinal)
    BY <1>2, <2>1, <2>2, FitFacts
  <2>4. Room(p) = RunRoom(o)
    BY <2>1, <2>2, <2>3
  <2> QED
    BY <1>4, <1>7, <2>4
<1>10. q.group = Below(c, o - 1)
  <2>1. r.ordinal = l /\ r.ordinal \in Nat \ {0}
    BY <1>1, <1>5 DEF Accumulators
  <2>2. r.group = Below(c, l - 1) /\ c[l] = r.carry \o r.written
    BY <1>1, <1>5, <2>1 DEF Attached
  <2>3. ToSet(c[l]) = ToSet(r.carry) \cup ToSet(r.written)
    BY <1>1, <2>2, ConcatSet DEF Accumulators
  <2>4. c # <<>>
    BY <1>5, <1>8, <2>1
  <2>5. Below(c, Len(c) + 1 - 1) = Below(c, Len(c) - 1) \cup ToSet(c[Len(c)])
    BY <1>7, <2>4, BelowFacts
  <2>6. Below(c, o - 1) = Below(c, l - 1) \cup ToSet(c[l])
    BY <1>5, <1>6, <2>5
  <2> QED
    BY <1>3, <1>4, <2>2, <2>3, <2>6
<1>11. Once(d[o]) /\ ToSet(d[o]) \cap Below(c, o - 1) = {}
  BY <1>4, <1>7, <1>10
<1>12. Written(c, d, o) /\ o <= Bound
  BY <1>6
<1>13. o # Len(c)
  BY <1>5, <1>6
<1>14. /\ Sound(d) /\ Below(d, o - 1) = Below(c, o - 1)
       /\ Below(c, o - 1) \subseteq Below(d, Len(d)) /\ ToSet(d[o]) \subseteq Below(d, Len(d))
       /\ (o = Len(c) => ToSet(c[o]) \subseteq ToSet(d[o])) =>
            Below(c, Len(c)) \subseteq Below(d, Len(d))
  BY <1>1, <1>9, <1>11, <1>12, ChainWritten
<1>15. Attached(d, q)
  <2>1. q.ordinal = Len(d) /\ q.group = Below(d, q.ordinal - 1) /\ d[q.ordinal] = q.carry \o q.written
    BY <1>6, <1>7, <1>10, <1>14
  <2>2. Len(d) # Len(d) + 1
    BY <1>7, NotNext
  <2> QED
    BY <2>1, <2>2, Zenon DEF Attached
<1>16. Render(q).written = q.written
  BY <1>2, <1>4, RenderSame DEF RolledTo
<1>17. Running(d, q)
  BY <1>4, <1>14, <1>15, <1>16 DEF Running
<1> QED
  BY <1>3, <1>4, <1>6, <1>7, <1>8, <1>10, <1>13, <1>14, <1>17

-----------------------------------------------------------------------------
(* The steps: the corpus, the listener, the arm. *)

(* The steps that touch neither the journal nor the ledger, the shards or a run. *)
Aside ==
    \/ LiftCap \/ Arrive \/ InsertForeign \/ Disconnect
    \/ Listen \/ NotifyDistillBacklog \/ (\E id \in wire : HandleNotification(id))
    \/ Settle \/ DrainDistillWake \/ Fallback
    \/ DemandDeferred \/ SessionRefused \/ SessionSkipped
Waiting == {"await", "settle", "tick"}

(* What such a step leaves as it is. *)
LEMMA AsideFrame ==
  ASSUME Aside
  PROVE  /\ UNCHANGED <<closed, orphans, seen, blocks, run, gone>>
         /\ at' = at \/ (at \in Waiting /\ at' \in Waiting)
<1>1. CASE LiftCap \/ Arrive \/ InsertForeign \/ Disconnect
  BY <1>1 DEF LiftCap, Arrive, InsertForeign, Disconnect, journal
<1>2. CASE Listen \/ NotifyDistillBacklog \/ (\E id \in wire : HandleNotification(id))
  BY <1>2 DEF Listen, NotifyDistillBacklog, HandleNotification, journal
<1>3. CASE Settle \/ Fallback \/ DemandDeferred
  BY <1>3 DEF Settle, Fallback, DemandDeferred, journal, Waiting
<1>4. CASE DrainDistillWake
  BY <1>4 DEF DrainDistillWake, journal, Waiting
<1>5. CASE SessionRefused \/ SessionSkipped
  BY <1>5 DEF SessionRefused, SessionSkipped, journal, Waiting
<1> QED
  BY <1>1, <1>2, <1>3, <1>4, <1>5 DEF Aside

(* The other steps leave the corpus alone. *)
LEMMA OnlyArrive ==
  ASSUME [Next]_vars
  PROVE  Arrive \/ arrived' = arrived
<1>1. CASE Environment
  BY <1>1 DEF Environment, LiftCap, InsertForeign, Disconnect, Crash
<1>2. CASE Listener
  BY <1>2 DEF Listener, Listen, NotifyDistillBacklog, HandleNotification
<1>3. CASE Tick
  BY <1>3 DEF Tick, distillStartupSweep, Settle, DrainDistillWake, Fallback, DemandDeferred,
              SessionRefused, SessionSkipped, distillStartRun
<1>4. CASE Run
  BY <1>4 DEF Run, ReadBatch, Exhausted, Call, CallFails, Brake, distillWriteBlock, ShardStays,
              ShardRests, ShardRolls, distillMarkSeen, distillAdvance, RunFails, distillClose
<1>5. CASE UNCHANGED vars
  BY <1>5 DEF vars
<1> QED
  BY <1>1, <1>2, <1>3, <1>4, <1>5 DEF Next

(* The corpus grows by whole watermark groups, which lie above all it had. *)
LEMMA CorpusStep ==
  ASSUME CorpusOK, [Next]_vars
  PROVE  /\ CorpusOK' /\ arrived <= arrived' /\ Reached \subseteq Reached'
         /\ \A i \in (arrived + 1)..arrived' : \A w \in Reached : w < Source[i].wm
<1>1. Len(Source) \in Nat /\ arrived \in 0..Len(Source) /\ arrived \in Nat
  BY SourceFacts DEF CorpusOK
<1>2. CASE arrived' = arrived
  BY <1>1, <1>2 DEF CorpusOK, Reached
<1>3. CASE Arrive
  <2> DEFINE T == {i \in Manifests : Source[i].wm = Source[arrived + 1].wm}
  <2>1. arrived + 1 \in 1..Len(Source)
    BY <1>1, <1>3 DEF Arrive
  <2>2. T \in SUBSET (0..Len(Source)) /\ arrived + 1 \in T
    BY <1>1, <2>1 DEF Manifests
  <2>3. arrived' = Max(T)
    BY <1>3 DEF Arrive
  <2>4. Max(T) \in T /\ \A y \in T : y <= Max(T)
    <3> HIDE DEF T
    <3> QED
      BY <1>1, <2>2, MaxIs
  <2>5. PICK m \in 1..Len(Source) : /\ m = arrived' /\ Source[m].wm = Source[arrived + 1].wm
                                    /\ \A y \in T : y <= m
    BY <2>3, <2>4 DEF Manifests
  <2>6. arrived < m /\ m \in Nat
    BY <1>1, <2>2, <2>5
  <2>7. ASSUME NEW i \in 1..m, NEW j \in (m + 1)..Len(Source) PROVE Source[i].wm < Source[j].wm
    <3>1. i \in Manifests /\ j \in Manifests /\ m \in Manifests /\ arrived + 1 \in Manifests
          /\ i <= m /\ arrived + 1 <= j /\ ~(j <= m)
      <4>1. PICK l \in Nat : l = Len(Source)
        BY <1>1
      <4>2. PICK a \in Nat : a = arrived
        BY <1>1
      <4>3. i \in 1..m /\ j \in (m + 1)..l /\ m \in 1..l /\ a < m
        BY <2>5, <2>6, <2>7, <4>1, <4>2
      <4>4. i \in 1..l /\ j \in 1..l /\ a + 1 \in 1..l /\ i <= m /\ a + 1 <= j /\ ~(j <= m)
        BY <4>3
      <4> QED
        BY <4>1, <4>2, <4>3, <4>4 DEF Manifests
    <3>2. Source[i].wm <= Source[m].wm /\ Source[arrived + 1].wm <= Source[j].wm
      BY <3>1, SourceFacts
    <3>3. Source[j].wm # Source[arrived + 1].wm
      BY <2>5, <3>1
    <3>4. /\ Source[i].wm \in Nat /\ Source[j].wm \in Nat /\ Source[m].wm \in Nat
          /\ Source[arrived + 1].wm \in Nat
      BY <3>1, SourceFacts
    <3> QED
      BY <2>5, <3>2, <3>3, <3>4
  <2>8. CorpusOK'
    <3>1. m \in 0..Len(Source)
      BY <1>1, <2>5
    <3>2. \A i \in 1..m, j \in (m + 1)..Len(Source) : Source[i].wm < Source[j].wm
      BY <2>7
    <3> QED
      BY <2>5, <3>1, <3>2, Zenon DEF CorpusOK
  <2>9. Reached \subseteq Reached'
    <3>1. \A i \in 1..arrived : i \in 1..m
      BY <1>1, <2>6
    <3> QED
      BY <2>5, <3>1 DEF Reached
  <2>10. \A i \in (arrived + 1)..m : \A w \in Reached : w < Source[i].wm
    <3>1. SUFFICES ASSUME NEW i \in (arrived + 1)..m, NEW w \in Reached PROVE w < Source[i].wm
      OBVIOUS
    <3>2. i \in (arrived + 1)..Len(Source) /\ i \in Manifests
      BY <1>1, <2>5, <2>6 DEF Manifests
    <3>3. Source[i].wm \in Nat \ {0}
      BY <3>2, SourceFacts
    <3>4. CASE w = 0
      BY <3>3, <3>4
    <3>5. CASE w # 0
      <4>1. PICK j \in 1..arrived : w = Source[j].wm
        BY <3>5 DEF Reached
      <4> QED
        BY <3>2, <4>1 DEF CorpusOK
    <3> QED
      BY <3>4, <3>5
  <2> QED
    BY <1>1, <2>5, <2>6, <2>8, <2>9, <2>10
<1> QED
  BY <1>2, <1>3, OnlyArrive

(* A watermark of the corpus is a number, and there is a greatest one. *)
LEMMA ReachedFacts ==
  ASSUME CorpusOK
  PROVE  /\ 0 \in Reached /\ Reached \subseteq Nat /\ Reached \subseteq Watermarks
         /\ \E b \in Nat : Reached \subseteq 0..b
         /\ \A i \in 1..arrived : Source[i].wm \in Reached /\ i \in Manifests
<1>1. Len(Source) \in Nat /\ arrived \in 0..Len(Source) /\ arrived \in Nat
  BY SourceFacts DEF CorpusOK
<1>2. \A i \in 1..arrived : i \in Manifests /\ Source[i].wm \in Nat
  BY <1>1, SourceFacts DEF Manifests
<1>3. Reached \subseteq Nat /\ Reached \subseteq Watermarks
  BY <1>2 DEF Reached, Watermarks
<1>4. CASE arrived = 0
  BY <1>1, <1>2, <1>3, <1>4 DEF Reached
<1>5. CASE arrived # 0
  <2>1. PICK b \in Nat : b = Source[arrived].wm
    BY <1>1, <1>2, <1>5
  <2>2. ASSUME NEW i \in 1..arrived PROVE Source[i].wm <= b /\ Source[i].wm \in Nat
    <3>1. i \in Manifests /\ arrived \in Manifests /\ i <= arrived
      BY <1>1, <1>2, <1>5
    <3> QED
      BY <2>1, <3>1, SourceFacts
  <2>3. Reached \subseteq 0..b
    BY <2>1, <2>2 DEF Reached
  <2> QED
    BY <1>2, <1>3, <2>3 DEF Reached
<1> QED
  BY <1>4, <1>5

(* An id enters the window as long as it is below its cap. *)
LEMMA InsertFacts ==
  ASSUME WakeOK, NEW id \in wire
  PROVE  /\ NotifyBlockInsert(id) \in [ids : SUBSET (Manifests \cup {Foreign}),
                                       overflow : BOOLEAN, token : BOOLEAN]
         /\ Cardinality(NotifyBlockInsert(id).ids) <= WakeIDCap
         /\ NotifyBlockInsert(id).token = TRUE
         /\ window.overflow => NotifyBlockInsert(id).overflow
         /\ window.ids \subseteq NotifyBlockInsert(id).ids
         /\ id \in NotifyBlockInsert(id).ids \/ NotifyBlockInsert(id).overflow
<1> DEFINE Ids == Manifests \cup {Foreign}
<1>1. /\ window \in [ids : SUBSET Ids, overflow : BOOLEAN, token : BOOLEAN] /\ id \in Ids
      /\ Cardinality(window.ids) <= WakeIDCap /\ window.ids \subseteq Ids
  BY DEF WakeOK
<1>2. IsFiniteSet(window.ids)
  <2>1. IsFiniteSet(Manifests)
    BY SourceFacts, FS_Interval DEF Manifests
  <2>2. IsFiniteSet(Manifests \cup {Foreign})
    BY <2>1, FS_AddElement
  <2> QED
    BY <1>1, <2>2, FS_Subset
<1>3. Cardinality(window.ids) \in Nat /\ WakeIDCap \in Nat
  BY <1>2, FS_CardinalityType, Sizes
<1>4. IsFiniteSet(window.ids \cup {id}) /\
      Cardinality(window.ids \cup {id})
        = IF id \in window.ids THEN Cardinality(window.ids) ELSE Cardinality(window.ids) + 1
  BY <1>2, FS_AddElement
<1>5. CASE Cardinality(window.ids) < WakeIDCap
  <2>1. NotifyBlockInsert(id) = [window EXCEPT !.ids = @ \cup {id}, !.token = TRUE]
    BY <1>5 DEF NotifyBlockInsert
  <2>2. PICK s \in SUBSET Ids : s = window.ids \cup {id}
    BY <1>1
  <2>3. Cardinality(s) <= WakeIDCap
    BY <1>3, <1>4, <1>5, <2>2
  <2>4. NotifyBlockInsert(id) = [window EXCEPT !.ids = s, !.token = TRUE]
    BY <1>1, <2>1, <2>2
  <2> QED
    BY <1>1, <2>2, <2>3, <2>4
<1>6. CASE ~(Cardinality(window.ids) < WakeIDCap)
  <2>1. NotifyBlockInsert(id) = [window EXCEPT !.overflow = TRUE, !.token = TRUE]
    BY <1>6 DEF NotifyBlockInsert
  <2> QED
    BY <1>1, <2>1
<1> QED
  BY <1>5, <1>6

(* The empty window. *)
LEMMA QuietFacts ==
  /\ Quiet \in [ids : SUBSET (Manifests \cup {Foreign}), overflow : BOOLEAN, token : BOOLEAN]
  /\ Cardinality(Quiet.ids) <= WakeIDCap
<1>1. Quiet.ids = {} /\ Cardinality({}) = 0
  BY FS_EmptySet DEF Quiet
<1> QED
  BY <1>1, Sizes DEF Quiet

(* The other steps leave the listener, the window and the cap alone. *)
LEMMA AroundFrame ==
  ASSUME Next
  PROVE  \/ UNCHANGED <<link, wire, window>>
         \/ Arrive \/ InsertForeign \/ Disconnect \/ Crash \/ Listen \/ NotifyDistillBacklog
         \/ (\E id \in wire : HandleNotification(id)) \/ Settle \/ DrainDistillWake
<1>1. CASE Environment
  BY <1>1 DEF Environment, LiftCap
<1>2. CASE Listener
  BY <1>2 DEF Listener
<1>3. CASE Tick
  BY <1>3 DEF Tick, distillStartupSweep, Fallback, DemandDeferred, SessionRefused,
              SessionSkipped, distillStartRun, around
<1>4. CASE Run
  BY <1>4 DEF Run, ReadBatch, Exhausted, Call, CallFails, Brake, distillWriteBlock, ShardStays,
              ShardRests, ShardRolls, distillMarkSeen, distillAdvance, RunFails, distillClose, around
<1> QED
  BY <1>1, <1>2, <1>3, <1>4 DEF Next

(* The listener and the window keep their types, the window its cap. *)
LEMMA WakeStep ==
  ASSUME CorpusOK, WakeOK, [Next]_vars
  PROVE  WakeOK'
<1> DEFINE Windows == [ids : SUBSET (Manifests \cup {Foreign}), overflow : BOOLEAN, token : BOOLEAN]
<1>1. /\ link \in {"down", "listening", "up"} /\ wire \subseteq Manifests \cup {Foreign}
      /\ window \in Windows /\ Cardinality(window.ids) <= WakeIDCap
  BY DEF WakeOK
<1>2. CASE UNCHANGED <<link, wire, window>>
  BY <1>2 DEF WakeOK
<1>3. CASE Arrive
  <2>1. arrived \in 0..Len(Source) /\ arrived' \in 0..Len(Source) /\ Len(Source) \in Nat
    BY CorpusStep, SourceFacts DEF CorpusOK
  <2>2. (arrived + 1)..arrived' \subseteq Manifests
    BY <2>1 DEF Manifests
  <2> QED
    BY <1>1, <1>3, <2>2 DEF Arrive, WakeOK
<1>4. CASE InsertForeign
  BY <1>1, <1>4 DEF InsertForeign, WakeOK
<1>5. CASE Disconnect
  BY <1>1, <1>5 DEF Disconnect, WakeOK
<1>6. CASE Crash
  BY <1>6, QuietFacts DEF Crash, WakeOK
<1>7. CASE Listen
  BY <1>1, <1>7 DEF Listen, WakeOK
<1>8. CASE NotifyDistillBacklog
  <2>1. window' \in Windows /\ window'.ids = window.ids
    BY <1>1, <1>8 DEF NotifyDistillBacklog
  <2>2. link' = "up" /\ wire' = wire
    BY <1>8 DEF NotifyDistillBacklog
  <2> QED
    BY <1>1, <2>1, <2>2 DEF WakeOK
<1>9. ASSUME NEW id \in wire, HandleNotification(id) PROVE WakeOK'
  <2>1. link' = link /\ wire' = wire \ {id} /\ window' = NotifyBlockInsert(id)
    BY <1>9 DEF HandleNotification
  <2>2. window' \in Windows /\ Cardinality(window'.ids) <= WakeIDCap
    BY <2>1, InsertFacts
  <2> QED
    BY <1>1, <2>1, <2>2 DEF WakeOK
<1>10. CASE Settle
  <2>1. window' \in Windows /\ window'.ids = window.ids /\ link' = link /\ wire' = wire
    BY <1>1, <1>10 DEF Settle
  <2> QED
    BY <1>1, <2>1 DEF WakeOK
<1>11. CASE DrainDistillWake
  <2>1. window' = Quiet /\ link' = link /\ wire' = wire
    BY <1>11 DEF DrainDistillWake
  <2> QED
    BY <1>1, <2>1, QuietFacts DEF WakeOK
<1>12. CASE UNCHANGED vars
  BY <1>12 DEF WakeOK, vars, around
<1> QED
  BY <1>2, <1>3, <1>4, <1>5, <1>6, <1>7, <1>8, <1>9, <1>10, <1>11, <1>12, AroundFrame

(* A step spends one of a kind or nothing. *)
LEMMA SpendFacts ==
  ASSUME left \in [Kinds -> Nat], NEW k \in Kinds, Spend(k)
  PROVE  left' \in [Kinds -> Nat]
  BY DEF Spend, Kinds

(* The arm is in one of its places, and the setting is one of the caps or lifted. *)
LEMMA ArmStep ==
  ASSUME ArmOK, [Next]_vars
  PROVE  ArmOK'
<1>1. left \in [Kinds -> Nat] /\ excused \in BOOLEAN /\ maxShards \in Caps \cup {0}
  BY DEF ArmOK
<1>2. left' = left \/ \E k \in Kinds : Spend(k)
  <2>1. CASE Environment
    BY <2>1 DEF Environment, LiftCap, Arrive, InsertForeign, Disconnect, Crash, Kinds
  <2>2. CASE Listener
    BY <2>2 DEF Listener, Listen, NotifyDistillBacklog, HandleNotification
  <2>3. CASE Tick
    BY <2>3 DEF Tick, distillStartupSweep, Settle, DrainDistillWake, Fallback, DemandDeferred,
                SessionRefused, SessionSkipped, distillStartRun, Kinds
  <2>4. CASE Run
    BY <2>4 DEF Run, ReadBatch, Exhausted, Call, CallFails, Brake, distillWriteBlock, ShardStays,
                ShardRests, ShardRolls, distillMarkSeen, distillAdvance, RunFails, distillClose, Kinds
  <2>5. CASE UNCHANGED vars
    BY <2>5 DEF vars
  <2> QED
    BY <2>1, <2>2, <2>3, <2>4, <2>5 DEF Next
<1>3. left' \in [Kinds -> Nat]
  BY <1>1, <1>2, SpendFacts
<1>4. CASE Environment
  BY <1>1, <1>3, <1>4 DEF Environment, LiftCap, Arrive, InsertForeign, Disconnect, Crash, ArmOK
<1>5. CASE Listener
  BY <1>1, <1>3, <1>5 DEF Listener, Listen, NotifyDistillBacklog, HandleNotification, ArmOK
<1>6. CASE Tick
  <2>1. maxShards' = maxShards /\ at' \in {"tick", "settle", "await", "read"}
    BY <1>6 DEF Tick, distillStartupSweep, Settle, DrainDistillWake, Fallback, DemandDeferred,
                SessionRefused, SessionSkipped, distillStartRun, around
  <2>2. excused' \in BOOLEAN
    BY <1>1, <1>6 DEF Tick, distillStartupSweep, Settle, DrainDistillWake, Fallback, DemandDeferred,
                SessionRefused, SessionSkipped, distillStartRun, around
  <2> QED
    BY <1>1, <1>3, <2>1, <2>2 DEF ArmOK
<1>7. CASE Run
  <2>1. maxShards' = maxShards
        /\ at' \in {"read", "extract", "roll", "mark", "advance", "close", "await"}
    BY <1>7 DEF Run, ReadBatch, Exhausted, Call, CallFails, Brake, distillWriteBlock, ShardStays,
                ShardRests, ShardRolls, distillMarkSeen, distillAdvance, RunFails, distillClose, around
  <2>2. excused' \in BOOLEAN
    <3>1. CASE distillAdvance
      BY <3>1 DEF distillAdvance
    <3>2. CASE ~distillAdvance
      BY <1>1, <1>7, <3>2
      DEF Run, ReadBatch, Exhausted, Call, CallFails, Brake, distillWriteBlock, ShardStays,
          ShardRests, ShardRolls, distillMarkSeen, RunFails, distillClose
    <3> QED
      BY <3>1, <3>2
  <2> QED
    BY <1>1, <1>3, <2>1, <2>2 DEF ArmOK
<1>8. CASE UNCHANGED vars
  BY <1>8 DEF ArmOK, vars, around
<1> QED
  BY <1>4, <1>5, <1>6, <1>7, <1>8 DEF Next

-----------------------------------------------------------------------------
(* The steps of a run. *)

(* An accumulator that differs in its batch and its watermarks only. *)
LEMMA RunningSame ==
  ASSUME NEW c, NEW r, NEW q \in Accumulators, Running(c, r), q.ordinal = r.ordinal,
         q.carry = r.carry, q.group = r.group, q.insights = r.insights, q.written = r.written
  PROVE  Running(c, q)
<1>1. /\ r \in Accumulators /\ Sound(c) /\ Attached(c, r)
      /\ r.ordinal <= Bound /\ Render(r).written = r.written
  BY DEF Running
<1>2. Render(q).written = Render(r).written
  BY <1>1, RenderSame
<1>3. Attached(c, q)
  BY <1>1 DEF Attached
<1> QED
  BY <1>1, <1>2, <1>3 DEF Running

(* What SInv says of a run that may still write. *)
LEMMA RunningNow ==
  ASSUME TInv, SInv, InRun
  PROVE  run.from \in Watermarks /\ Running(blocks[run.from], run)
  BY DEF TInv, SInv, RunOK, RunAttached, Running, Accumulators

(* How SInv is shown for the next state. *)
LEMMA ShardsNext ==
  ASSUME \A w \in Watermarks : Sound(blocks'[w]),
         InRun' => Running(blocks'[run'.from], run'),
         at' = "roll" => run'.ordinal = Len(blocks'[run'.from])
  PROVE  SInv'
  BY DEF SInv, RunAttached, Running, InRun

(* What is durable is what the chains of all ranges hold. *)
LEMMA DurableIs ==
  ASSUME NEW B \in [Watermarks -> Seq(Seq(Claims))]
  PROVE  \A w \in Watermarks : AllOf(B[w]) = Below(B[w], Len(B[w]))
<1>1. SUFFICES ASSUME NEW w \in Watermarks PROVE AllOf(B[w]) = Below(B[w], Len(B[w]))
  OBVIOUS
<1>2. DOMAIN B[w] = 1..Len(B[w])
  BY LenProperties
<1> QED
  BY <1>2 DEF AllOf, Below

(* If no range loses anything then nothing durable is lost, and what a range holds
   is durable. *)
LEMMA DurableGrows ==
  ASSUME blocks \in [Watermarks -> Seq(Seq(Claims))],
         blocks' \in [Watermarks -> Seq(Seq(Claims))], NEW f \in Watermarks,
         \A w \in Watermarks \ {f} : blocks'[w] = blocks[w],
         Below(blocks[f], Len(blocks[f])) \subseteq Below(blocks'[f], Len(blocks'[f]))
  PROVE  Durable \subseteq Durable' /\ Below(blocks'[f], Len(blocks'[f])) \subseteq Durable'
<1>1. \A w \in Watermarks : AllOf(blocks[w]) = Below(blocks[w], Len(blocks[w]))
  BY DurableIs
<1>2. \A w \in Watermarks : AllOf(blocks'[w]) = Below(blocks'[w], Len(blocks'[w]))
  BY DurableIs
<1>3. \A w \in Watermarks : AllOf(blocks[w]) \subseteq AllOf(blocks'[w])
  <2>1. SUFFICES ASSUME NEW w \in Watermarks PROVE AllOf(blocks[w]) \subseteq AllOf(blocks'[w])
    OBVIOUS
  <2>2. CASE w = f
    BY <1>1, <1>2, <2>2
  <2>3. CASE w # f
    BY <2>3
  <2> QED
    BY <2>2, <2>3
<1>4. Durable = UNION {AllOf(blocks[w]) : w \in Watermarks}
  BY DEF Durable
<1>5. Durable' = UNION {AllOf(blocks'[w]) : w \in Watermarks}
  BY DEF Durable
<1> QED
  BY <1>2, <1>3, <1>4, <1>5

(* The upsert writes the shard of the accumulator. *)
LEMMA UpsertWrites ==
  ASSUME blocks \in [Watermarks -> Seq(Seq(Claims))], NEW r \in Accumulators,
         r.ordinal \in {Len(blocks[r.from]), Len(blocks[r.from]) + 1},
         blocks' = Upserted(r)
  PROVE  /\ blocks' \in [Watermarks -> Seq(Seq(Claims))]
         /\ \A w \in Watermarks \ {r.from} : blocks'[w] = blocks[w]
         /\ Written(blocks[r.from], blocks'[r.from], r.ordinal)
         /\ blocks'[r.from][r.ordinal] = r.carry \o r.written
<1>1. r.from \in Watermarks /\ r.ordinal \in Nat \ {0}
  BY DEF Accumulators
<1>2. /\ blocks' \in [Watermarks -> Seq(Seq(Claims))]
      /\ \A w \in Watermarks \ {r.from} : blocks'[w] = blocks[w]
      /\ Len(blocks'[r.from]) = r.ordinal
      /\ blocks'[r.from][r.ordinal] = r.carry \o r.written
      /\ \A n \in 1..(r.ordinal - 1) : blocks'[r.from][n] = blocks[r.from][n]
  BY UpsertedFacts
<1> QED
  BY <1>1, <1>2 DEF Written

(* The write of the accumulated block: the batch is in it or overflows, and nothing
   that was durable is lost. *)
LEMMA WriteFacts ==
  ASSUME TInv, SInv, distillWriteBlock
  PROVE  /\ run' \in Accumulators /\ blocks' \in [Watermarks -> Seq(Seq(Claims))]
         /\ run'.from = run.from /\ run'.to = run.to /\ run'.wm = run.wm /\ run'.cap = run.cap
         /\ run'.batch = AddBatch(run).batch
         /\ \A w \in Watermarks : Sound(blocks'[w])
         /\ Running(blocks'[run.from], run') /\ run'.ordinal = Len(blocks'[run.from])
         /\ Durable \subseteq Durable'
         /\ ToSet(run.batch.bought) \subseteq Durable' \cup ToSet(run'.overflow)
<1>1. /\ run \in Accumulators /\ run.batch.done <= Len(run.batch.kept)
      /\ blocks \in [Watermarks -> Seq(Seq(Claims))]
      /\ \A w \in Watermarks : Sound(blocks[w])
  BY DEF TInv, SInv, LedgerOK, RunOK, BatchOK
<1>2. PICK f \in Watermarks : f = run.from
  BY <1>1 DEF Accumulators
<1>3. Running(blocks[f], run)
  <2>1. InRun
    BY DEF distillWriteBlock, InRun
  <2> QED
    BY <1>2, <2>1, RunningNow
<1>4. PICK q \in Accumulators : q = AddBatch(run)
  BY <1>1, AddBatchFacts
<1>5. PICK t \in Seq(Claims) : t = run.batch.bought
  BY <1>1 DEF Accumulators, Batches
<1>6. /\ q.from = f /\ q.to = run.to /\ q.wm = run.wm /\ q.cap = run.cap
      /\ q.ordinal = run.ordinal /\ q.carry = run.carry /\ q.group = run.group
      /\ q.insights = run.insights \o t
  BY <1>1, <1>2, <1>4, <1>5, AddBatchFacts
<1>7. PICK r : r = Render(q) /\ r = run' /\ blocks' = Upserted(r)
  BY <1>4 DEF distillWriteBlock
<1>8. /\ r \in Accumulators
      /\ r.from = f /\ r.to = run.to /\ r.wm = run.wm /\ r.cap = run.cap
      /\ r.ordinal = q.ordinal /\ r.carry = q.carry /\ r.batch = q.batch
      /\ ToSet(r.written) \cup ToSet(r.overflow) = ToSet(q.insights) \ (q.group \cup ToSet(q.carry))
  BY <1>6, <1>7, RenderFacts
<1>9. r.ordinal \in {Len(blocks[f]), Len(blocks[f]) + 1}
  BY <1>3, <1>6, <1>8 DEF Running, Attached
<1>10. PICK c, d : c = blocks[f] /\ d = blocks'[f]
  OBVIOUS
<1>11. /\ blocks' \in [Watermarks -> Seq(Seq(Claims))]
       /\ \A w \in Watermarks \ {f} : blocks'[w] = blocks[w]
       /\ Written(c, d, q.ordinal) /\ d[q.ordinal] = q.carry \o r.written
  BY <1>1, <1>7, <1>8, <1>9, <1>10, UpsertWrites
<1>12. Running(c, run) /\ d[q.ordinal] = q.carry \o Render(q).written
  BY <1>3, <1>7, <1>10, <1>11
<1>13. /\ Running(d, r) /\ Len(d) = q.ordinal
       /\ Below(c, Len(c)) \subseteq Below(d, Len(d))
       /\ q.group \cup ToSet(q.carry) \cup ToSet(r.written) \subseteq Below(d, Len(d))
  <2>1. PICK u : u = run
    OBVIOUS
  <2>2. /\ Running(c, u) /\ q.group = u.group /\ q.carry = u.carry /\ q.ordinal = u.ordinal
        /\ q.insights = u.insights \o t
        /\ Written(c, d, q.ordinal) /\ d[q.ordinal] = q.carry \o Render(q).written
    BY <1>6, <1>11, <1>12, <2>1
  <2>3. /\ Running(d, Render(q)) /\ Len(d) = q.ordinal
        /\ Below(c, Len(c)) \subseteq Below(d, Len(d))
        /\ q.group \cup ToSet(q.carry) \cup ToSet(Render(q).written) \subseteq Below(d, Len(d))
    BY <2>2, ShardRewritten, Zenon
  <2> QED
    BY <1>7, <2>3
<1>14. Durable \subseteq Durable' /\ Below(d, Len(d)) \subseteq Durable'
  BY <1>1, <1>10, <1>11, <1>13, DurableGrows
<1>15. \A w \in Watermarks : Sound(blocks'[w])
  BY <1>1, <1>10, <1>11, <1>13 DEF Running
<1>16. ToSet(t) \subseteq ToSet(q.insights)
  <2>1. run.insights \in Seq(Claims)
    BY <1>1 DEF Accumulators
  <2> QED
    BY <1>6, <2>1, ConcatSet
<1>17. ToSet(t) \subseteq Durable' \cup ToSet(r.overflow)
  BY <1>8, <1>13, <1>14, <1>16
<1> QED
  BY <1>2, <1>4, <1>5, <1>7, <1>8, <1>10, <1>11, <1>13, <1>14, <1>15, <1>17

(* The rollover: what overflowed is in the new shard or overflows again, and nothing
   that was durable is lost. *)
LEMMA RollFacts ==
  ASSUME TInv, SInv, ShardRolls
  PROVE  \E r \in Accumulators :
         /\ run' = IF r.overflow # <<>> THEN HeldBack(r) ELSE [r EXCEPT !.batch.rolled = TRUE]
         /\ blocks' \in [Watermarks -> Seq(Seq(Claims))]
         /\ r.from = run.from /\ r.to = run.to /\ r.wm = run.wm /\ r.cap = run.cap
         /\ r.batch = run.batch
         /\ \A w \in Watermarks : Sound(blocks'[w])
         /\ Running(blocks'[run.from], r) /\ r.ordinal = Len(blocks'[run.from])
         /\ Durable \subseteq Durable'
         /\ ToSet(run.overflow) \subseteq Durable' \cup ToSet(r.overflow)
<1>1. /\ run \in Accumulators /\ run.cap \in Caps \cup {0}
      /\ blocks \in [Watermarks -> Seq(Seq(Claims))]
      /\ \A w \in Watermarks : Sound(blocks[w])
  BY DEF TInv, SInv, LedgerOK, RunOK
<1>2. PICK f \in Watermarks : f = run.from
  BY <1>1 DEF Accumulators
<1>3. Running(blocks[f], run) /\ run.ordinal = Len(blocks[f])
  <2>1. InRun /\ at = "roll"
    BY DEF ShardRolls, InRun
  <2> QED
    BY <1>2, <2>1, RunningNow DEF SInv, RunAttached
<1>4. PICK r : /\ r = Render(rollover(run)) /\ blocks' = Upserted(r)
               /\ run' = IF r.overflow # <<>> THEN HeldBack(r) ELSE [r EXCEPT !.batch.rolled = TRUE]
  BY DEF ShardRolls
<1>5. PICK p \in Accumulators : p = rollover(run)
  BY <1>1, RolloverFacts
<1>6. /\ p.from = f /\ p.to = run.to /\ p.wm = run.wm /\ p.cap = run.cap /\ p.batch = run.batch
      /\ p.ordinal = run.ordinal + 1
  BY <1>1, <1>2, <1>5, RolloverFacts
<1>7. /\ r \in Accumulators
      /\ r.from = f /\ r.to = run.to /\ r.wm = run.wm /\ r.cap = run.cap /\ r.batch = run.batch
      /\ r.ordinal = run.ordinal + 1
  BY <1>4, <1>5, <1>6, RenderFacts
<1>8. r.ordinal \in {Len(blocks[f]), Len(blocks[f]) + 1}
  BY <1>3, <1>7
<1>9. r.ordinal <= Bound
  <2>1. ~NoFurtherShard(run.cap, run.ordinal)
    BY DEF ShardRolls, MayRoll
  <2>2. run.ordinal \in Nat
    BY <1>1 DEF Accumulators
  <2> QED
    BY <1>1, <1>7, <2>1, <2>2, BoundFacts
<1>10. PICK c, d : c = blocks[f] /\ d = blocks'[f]
  OBVIOUS
<1>11. /\ blocks' \in [Watermarks -> Seq(Seq(Claims))]
       /\ \A w \in Watermarks \ {f} : blocks'[w] = blocks[w]
       /\ Written(c, d, r.ordinal) /\ d[r.ordinal] = r.carry \o r.written
  BY <1>1, <1>4, <1>7, <1>8, <1>10, UpsertWrites
<1>12. Running(c, run) /\ run.ordinal = Len(c)
  BY <1>3, <1>10
<1>13. /\ Running(d, r) /\ Len(d) = r.ordinal
       /\ Below(c, Len(c)) \subseteq Below(d, Len(d))
       /\ r.group \cup ToSet(r.written) \subseteq Below(d, Len(d))
       /\ ToSet(run.overflow) \subseteq r.group \cup ToSet(r.written) \cup ToSet(r.overflow)
  <2>1. PICK u : u = run
    OBVIOUS
  <2>2. /\ Running(c, u) /\ u.ordinal = Len(c) /\ RolledTo(u, r) /\ r.ordinal <= Bound
        /\ Written(c, d, r.ordinal) /\ d[r.ordinal] = r.carry \o r.written
    BY <1>4, <1>9, <1>11, <1>12, <2>1 DEF RolledTo
  <2>3. /\ Running(d, r) /\ Len(d) = r.ordinal
        /\ Below(c, Len(c)) \subseteq Below(d, Len(d))
        /\ r.group \cup ToSet(r.written) \subseteq Below(d, Len(d))
        /\ ToSet(u.overflow) \subseteq r.group \cup ToSet(r.written) \cup ToSet(r.overflow)
    BY <2>2, ShardAdded, Zenon
  <2> QED
    BY <2>1, <2>3
<1>14. Durable \subseteq Durable' /\ Below(d, Len(d)) \subseteq Durable'
  BY <1>1, <1>10, <1>11, <1>13, DurableGrows
<1>15. \A w \in Watermarks : Sound(blocks'[w])
  BY <1>1, <1>10, <1>11, <1>13 DEF Running
<1>16. ToSet(run.overflow) \subseteq Durable' \cup ToSet(r.overflow)
  BY <1>13, <1>14
<1> QED
  BY <1>2, <1>4, <1>7, <1>10, <1>11, <1>13, <1>14, <1>15, <1>16

Fates == {"no", "call", "brake"}
Core == JournalOK /\ LedgerOK /\ RunOK /\ SInv

(* A step that leaves the shards alone. *)
LEMMA ShardsStay ==
  ASSUME SInv, blocks' = blocks, ~InRun'
  PROVE  SInv'
<1>1. \A w \in Watermarks : Sound(blocks'[w])
  BY DEF SInv
<1>2. at' # "roll"
  BY DEF InRun
<1> QED
  BY <1>1, <1>2, ShardsNext

(* A step beside the run. *)
LEMMA AsideStep ==
  ASSUME TInv, SInv, Aside, [Next]_vars
  PROVE  Core'
<1>1. /\ UNCHANGED <<closed, orphans, seen, blocks, run, gone>>
      /\ at' = at \/ (at \in Waiting /\ at' \in Waiting)
  BY AsideFrame
<1>2. Reached \subseteq Reached'
  BY CorpusStep DEF TInv
<1>3. JournalOK'
  BY <1>1, <1>2 DEF TInv, JournalOK
<1>4. LedgerOK'
  BY <1>1 DEF TInv, LedgerOK
<1>5. RunOK'
  BY <1>1, <1>2 DEF TInv, RunOK, BatchOK
<1>6. SInv'
  <2>1. CASE at' = at
    BY <1>1, <2>1 DEF SInv, RunAttached, InRun
  <2>2. CASE at \in Waiting /\ at' \in Waiting
    <3>1. ~InRun'
      BY <2>2 DEF Waiting, InRun
    <3> QED
      BY <1>1, <3>1, ShardsStay
  <2> QED
    BY <1>1, <2>1, <2>2
<1> QED
  BY <1>3, <1>4, <1>5, <1>6 DEF Core

(* A step that changes only the batch of the run. *)
LEMMA BatchStep ==
  ASSUME TInv, SInv, InRun, NEW b \in Batches, BatchOK(b), run' = [run EXCEPT !.batch = b],
         UNCHANGED <<arrived, closed, orphans, seen, blocks>>, gone' \in [Chunks -> Fates],
         at' # "roll"
  PROVE  Core'
<1>1. /\ run \in Accumulators /\ run.cap \in Caps \cup {0}
      /\ closed \in Reached /\ orphans \subseteq Reached /\ run.to \in Reached /\ run.wm = run.to
      /\ seen \subseteq Chunks \ Dropped /\ blocks \in [Watermarks -> Seq(Seq(Claims))]
  BY DEF TInv, RunOK, JournalOK, LedgerOK
<1>2. /\ run' \in Accumulators /\ run'.batch = b
      /\ run'.from = run.from /\ run'.to = run.to /\ run'.wm = run.wm /\ run'.cap = run.cap
      /\ run'.ordinal = run.ordinal /\ run'.carry = run.carry /\ run'.group = run.group
      /\ run'.insights = run.insights /\ run'.written = run.written
  BY <1>1 DEF Accumulators
<1>3. Reached' = Reached
  BY DEF Reached
<1>4. JournalOK'
  BY <1>1, <1>2, <1>3 DEF JournalOK
<1>5. LedgerOK'
  BY <1>1 DEF LedgerOK, Fates
<1>6. RunOK'
  BY <1>1, <1>2, <1>3 DEF RunOK, BatchOK
<1>7. SInv'
  <2>1. Running(blocks[run.from], run)
    BY RunningNow
  <2>2. Running(blocks[run.from], run')
    BY <1>2, <2>1, RunningSame
  <2>3. \A w \in Watermarks : Sound(blocks'[w])
    BY DEF SInv
  <2>4. Running(blocks'[run'.from], run')
    BY <1>2, <2>2
  <2> QED
    BY <2>3, <2>4, ShardsNext
<1> QED
  BY <1>4, <1>5, <1>6, <1>7 DEF Core

(* The group of a call: it starts where the last one ended and stays in the batch. *)
LEMMA GroupFacts ==
  ASSUME TInv, Pending, ~MeterExhausted
  PROVE  /\ GroupEnd \in Nat /\ run.batch.done <= GroupEnd /\ GroupEnd <= Len(run.batch.kept)
         /\ Group \in Seq(Chunks)
         /\ \A x : x \in ToSet(Group) <=> \E i \in (run.batch.done + 1)..GroupEnd : x = run.batch.kept[i]
         /\ FlattenSeq([i \in DOMAIN Group |-> Yield[Group[i]]]) \in Seq(Claims)
         /\ \A c \in ToSet(Group) :
              ToSet(Yield[c]) \subseteq ToSet(FlattenSeq([i \in DOMAIN Group |-> Yield[Group[i]]]))
<1>1. /\ run.batch.kept \in Seq(Chunks) /\ run.batch.done \in Nat /\ run.batch.bought \in Seq(Claims)
      /\ run.carry \in Seq(Claims) /\ run.insights \in Seq(Claims)
  BY DEF TInv, RunOK, Accumulators, Batches
<1>2. PICK k \in Seq(Chunks) : k = run.batch.kept
  BY <1>1
<1>3. PICK d \in Nat : d = run.batch.done
  BY <1>1
<1>4. PICK l \in Nat : l = Len(k) /\ d < l
  BY <1>2, <1>3, LenProperties DEF Pending
<1>5. PICK m \in Nat : m = Metered
  <2>1. PICK x \in Nat : x = Len(run.carry)
    BY <1>1, LenProperties
  <2>2. PICK y \in Nat : y = Len(run.insights)
    BY <1>1, LenProperties
  <2>3. PICK z \in Nat : z = Len(run.batch.bought)
    BY <1>1, LenProperties
  <2>4. x + y + z \in Nat
    OBVIOUS
  <2>5. Metered = x + y + z
    BY <2>1, <2>2, <2>3, Zenon DEF Metered
  <2> QED
    BY <2>4, <2>5
<1>6. PICK rr \in Nat : rr = RunRoom(run.ordinal)
  BY Sizes
<1>7. PICK c \in Nat \ {0} : c = RowsPerCall
  BY Sizes
<1>8. m + 1 <= rr
  BY <1>5, <1>6 DEF MeterExhausted
<1>9. PICK u : u = Min({c, rr - m})
  OBVIOUS
<1>10. u \in Nat \ {0}
  <2>1. rr - m \in Int /\ c \in Int
    BY <1>5, <1>6, <1>7
  <2> QED
    BY <1>5, <1>6, <1>7, <1>8, <1>9, <2>1, MinTwo
<1>11. GroupEnd = Min({d + u, l})
  BY <1>2, <1>3, <1>4, <1>5, <1>6, <1>7, <1>9 DEF GroupEnd
<1>12. PICK e \in Nat : e = GroupEnd /\ d <= e /\ e <= l
  <2>1. Min({d + u, l}) = IF d + u <= l THEN d + u ELSE l
    BY <1>10, MinTwo
  <2> QED
    BY <1>4, <1>10, <1>11, <2>1
<1>13. PICK g : g = SubSeq(k, d + 1, e)
  OBVIOUS
<1>14. Group = g
  BY <1>2, <1>3, <1>12, <1>13 DEF Group
<1>15. g \in Seq(Chunks) /\ \A x : x \in ToSet(g) <=> \E i \in (d + 1)..e : x = k[i]
  <2>1. d + 1 \in Nat \ {0} /\ e \in 0..Len(k)
    BY <1>4, <1>12
  <2> QED
    BY <1>13, <2>1, SubSeqFacts
<1>16. PICK n \in Nat : n = Len(g) /\ DOMAIN g = 1..n
  BY <1>15, LenProperties
<1>17. PICK ss : ss = [i \in DOMAIN g |-> Yield[g[i]]]
  OBVIOUS
<1>18. \A i \in 1..n : g[i] \in Chunks /\ Yield[g[i]] \in Seq(Claims)
  <2>1. \A i \in 1..n : g[i] \in Chunks
    BY <1>15, <1>16
  <2>2. ASSUME NEW x \in Chunks PROVE Yield[x] \in Seq(Claims)
    <3>1. Yield[x] \in Seq(ToSet(Yield[x]))
      BY SourceAssumption
    <3>2. ToSet(Yield[x]) \subseteq Claims
      BY DEF Claims
    <3> QED
      BY <3>1, <3>2
  <2> QED
    BY <2>1, <2>2
<1>19. ss \in Seq(Seq(Claims)) /\ Len(ss) = n /\ \A i \in 1..n : ss[i] = Yield[g[i]]
  <2>1. ss \in [1..n -> Seq(Claims)]
    BY <1>16, <1>17, <1>18
  <2>2. ss \in Seq(Seq(Claims))
    BY <2>1, IsASeq
  <2>3. DOMAIN ss = 1..n
    BY <2>1
  <2>4. Len(ss) = n
    BY <2>2, <2>3, LenProperties
  <2> QED
    BY <1>16, <1>17, <2>2, <2>4
<1>20. /\ FlattenSeq(ss) \in Seq(Claims)
       /\ ToSet(FlattenSeq(ss)) = UNION {ToSet(ss[i]) : i \in 1..Len(ss)}
  BY <1>19, FlattenHolds
<1>21. ASSUME NEW x \in ToSet(g) PROVE ToSet(Yield[x]) \subseteq ToSet(FlattenSeq(ss))
  <2>1. PICK i \in 1..n : x = g[i]
    BY <1>16 DEF ToSet
  <2>2. ss[i] = Yield[x] /\ i \in 1..Len(ss)
    BY <1>19, <2>1
  <2> QED
    BY <1>20, <2>2
<1> QED
  BY <1>2, <1>3, <1>4, <1>12, <1>14, <1>15, <1>17, <1>20, <1>21

(* The boot sweep takes over the watermarks of the rows a crash left behind. *)
LEMMA SweepFacts ==
  ASSUME TInv, distillStartupSweep
  PROVE  /\ UNCHANGED <<arrived, seen, blocks, run, gone>> /\ at' = "tick"
         /\ closed' \in {closed} \cup orphans /\ orphans' \subseteq orphans
<1>1. UNCHANGED <<arrived, seen, blocks, run, gone>> /\ at' = "tick"
  BY DEF distillStartupSweep
<1>2. CASE closed' = Max({closed} \cup orphans) /\ orphans' = {}
  <2>1. PICK T : T = {closed} \cup orphans
    OBVIOUS
  <2>2. PICK b \in Nat : Reached \subseteq 0..b
    BY ReachedFacts DEF TInv
  <2>3. T \in SUBSET (0..b) /\ T # {}
    BY <2>1, <2>2 DEF TInv, JournalOK
  <2>4. Max(T) \in T
    BY <2>3, MaxIs
  <2> QED
    BY <1>1, <1>2, <2>1, <2>4
<1>3. CASE UNCHANGED journal
  BY <1>1, <1>3 DEF journal
<1> QED
  BY <1>2, <1>3 DEF distillStartupSweep

(* The boot sweep. *)
LEMMA SweepStep ==
  ASSUME TInv, SInv, distillStartupSweep
  PROVE  Core'
<1>1. /\ UNCHANGED <<arrived, seen, blocks, run, gone>> /\ at' = "tick"
      /\ closed' \in {closed} \cup orphans /\ orphans' \subseteq orphans
  BY SweepFacts
<1>2. Reached' = Reached
  BY <1>1 DEF Reached
<1>3. JournalOK'
  BY <1>1, <1>2 DEF TInv, JournalOK
<1>4. LedgerOK' /\ RunOK'
  BY <1>1, <1>2 DEF TInv, LedgerOK, RunOK, BatchOK
<1>5. SInv'
  BY <1>1, ShardsStay DEF InRun
<1> QED
  BY <1>3, <1>4, <1>5 DEF Core

(* The start of a run. *)
LEMMA StartStep ==
  ASSUME TInv, SInv, distillStartRun
  PROVE  Core'
<1>1. /\ UNCHANGED <<arrived, closed, orphans, seen, blocks, gone>> /\ at' = "read"
      /\ run' = distillSeedBlock(closed) /\ ~Capped(closed)
  BY DEF distillStartRun, journal
<1>2. closed \in Reached /\ closed \in Watermarks /\ 0 \in Reached
  BY ReachedFacts DEF TInv, JournalOK
<1>3. LedgerOK /\ maxShards \in Caps \cup {0} /\ Sound(blocks[closed])
  BY <1>2 DEF TInv, ArmOK, SInv
<1>4. PICK r : r = distillSeedBlock(closed)
  OBVIOUS
<1>5. /\ r \in Accumulators /\ r.from = closed /\ r.to = closed /\ r.wm = closed
      /\ r.cap = maxShards /\ r.batch = NoBatch /\ r.insights = <<>> /\ r.written = <<>>
      /\ Attached(blocks[closed], r) /\ r.ordinal <= Bound
  BY <1>1, <1>2, <1>3, <1>4, SeedFacts
<1>6. Render(r).written = <<>>
  BY <1>5, RenderNothing
<1>7. Running(blocks[closed], r)
  BY <1>3, <1>5, <1>6 DEF Running
<1>8. SInv'
  <2>1. \A w \in Watermarks : Sound(blocks'[w])
    BY <1>1 DEF SInv
  <2>2. Running(blocks'[run'.from], run')
    BY <1>1, <1>4, <1>5, <1>7
  <2> QED
    BY <1>1, <2>1, <2>2, ShardsNext
<1>9. Reached' = Reached
  BY <1>1 DEF Reached
<1>10. JournalOK'
  BY <1>1, <1>2, <1>4, <1>5, <1>9 DEF TInv, JournalOK
<1>11. LedgerOK'
  BY <1>1 DEF TInv, LedgerOK
<1>12. RunOK'
  <2>1. NoBatch.done = 0 /\ NoBatch.kept = <<>> /\ NoBatch.marks = {} /\ NoBatch.wm = 0
        /\ NoBatch.covered = 0 /\ Len(<<>>) = 0 /\ ToSet(<<>>) = {}
    BY DEF NoBatch, ToSet
  <2> QED
    BY <1>1, <1>2, <1>3, <1>4, <1>5, <1>9, <2>1 DEF RunOK, BatchOK
<1> QED
  BY <1>8, <1>10, <1>11, <1>12 DEF Core

(* What a read batch is. *)
LEMMA ReadBatchFacts ==
  ASSUME TInv, ReadBatch
  PROVE  \E b \in Batches :
         /\ run' = [run EXCEPT !.batch = b]
         /\ b.done = 0 /\ b.marks = {} /\ b.covered = 0 /\ b.wm \in Reached
         /\ Once(b.kept) /\ ToSet(b.kept) \cap (Dropped \cup seen) = {}
         /\ \A i \in 1..arrived : run.wm < Source[i].wm /\ Source[i].wm <= b.wm =>
              ToSet(Source[i].chunks) \subseteq ToSet(b.kept) \cup seen \cup Dropped
<1>1. run.wm \in Nat /\ arrived \in 0..Len(Source) /\ CorpusOK
  BY ReachedFacts DEF TInv, JournalOK, CorpusOK
<1>2. PICK rd : rd = Read(run.wm)
  OBVIOUS
<1>3. Visible(run.wm) # {}
  <2>1. Read(run.wm).wm > run.wm
    BY DEF ReadBatch
  <2>2. Visible(run.wm) = {} => Read(run.wm).wm = run.wm
    BY DEF Read
  <2> QED
    BY <1>1, <2>1, <2>2
<1>4. PICK w \in Nat : w = run.wm
  BY <1>1
<1>5. /\ \E i \in 1..arrived : rd.wm = Source[i].wm
      /\ rd.wm \in Nat /\ rd.items \in Seq(Chunks) /\ rd.complete \in BOOLEAN
      /\ \A i \in 1..arrived : w < Source[i].wm /\ Source[i].wm <= rd.wm =>
           ToSet(Source[i].chunks) \subseteq ToSet(rd.items)
  BY <1>1, <1>2, <1>3, <1>4, ReadFacts
<1>6. PICK k : k = Fresh(rd.items, Dropped \cup seen)
  OBVIOUS
<1>7. k \in Seq(Chunks) /\ Once(k) /\ ToSet(k) = ToSet(rd.items) \ (Dropped \cup seen)
  BY <1>5, <1>6, FreshFacts
<1>8. PICK b : b = [NoBatch EXCEPT !.kept = k, !.wm = rd.wm, !.complete = rd.complete]
  OBVIOUS
<1>9. run' = [run EXCEPT !.batch = b]
  BY <1>2, <1>6, <1>8 DEF ReadBatch
<1>10. /\ b \in Batches /\ b.kept = k /\ b.wm = rd.wm /\ b.done = 0 /\ b.marks = {} /\ b.covered = 0
  <2>1. NoBatch \in Batches
    BY IdleFacts
  <2>2. b \in Batches
    BY <1>5, <1>7, <1>8, <2>1 DEF Batches
  <2> QED
    BY <1>8, <2>2 DEF NoBatch
<1>11. rd.wm \in Reached
  BY <1>1, <1>5, ReachedFacts
<1>12. \A i \in 1..arrived : w < Source[i].wm /\ Source[i].wm <= b.wm =>
         ToSet(Source[i].chunks) \subseteq ToSet(b.kept) \cup seen \cup Dropped
  BY <1>5, <1>7, <1>10
<1>13. ToSet(b.kept) \cap (Dropped \cup seen) = {}
  BY <1>7, <1>10
<1> QED
  BY <1>4, <1>7, <1>9, <1>10, <1>11, <1>12, <1>13

(* A batch is read. *)
LEMMA ReadStep ==
  ASSUME TInv, SInv, ReadBatch
  PROVE  Core'
<1>1. PICK b \in Batches :
         /\ run' = [run EXCEPT !.batch = b]
         /\ b.done = 0 /\ b.marks = {} /\ b.covered = 0 /\ b.wm \in Reached
         /\ Once(b.kept) /\ ToSet(b.kept) \cap (Dropped \cup seen) = {}
  BY ReadBatchFacts
<1>2. BatchOK(b)
  <2>1. Len(b.kept) \in Nat
    BY LenProperties DEF Batches
  <2> QED
    BY <1>1, <2>1 DEF BatchOK
<1>3. /\ UNCHANGED <<arrived, closed, orphans, seen, blocks>> /\ gone' \in [Chunks -> Fates]
      /\ InRun /\ at' # "roll"
  BY DEF ReadBatch, journal, TInv, LedgerOK, Fates, InRun
<1> QED
  BY <1>1, <1>2, <1>3, BatchStep

(* What a call makes of the batch. *)
LEMMA CallFacts ==
  ASSUME TInv, Call
  PROVE  \E b \in Batches :
         /\ run' = [run EXCEPT !.batch = b] /\ BatchOK(b)
         /\ b.kept = run.batch.kept /\ b.wm = run.batch.wm /\ b.done = GroupEnd
         /\ ToSet(b.bought)
              = ToSet(run.batch.bought) \cup ToSet(FlattenSeq([i \in DOMAIN Group |-> Yield[Group[i]]]))
<1>1. run \in Accumulators /\ run.batch \in Batches /\ BatchOK(run.batch)
  BY DEF TInv, RunOK, Accumulators
<1>2. PICK e \in Nat : e = GroupEnd /\ e <= Len(run.batch.kept)
  BY GroupFacts DEF Call
<1>3. PICK t \in Seq(Claims) : t = FlattenSeq([i \in DOMAIN Group |-> Yield[Group[i]]])
  BY GroupFacts DEF Call
<1>4. PICK s \in Seq(Claims) : s = run.batch.bought
  BY <1>1 DEF Batches
<1>5. PICK u \in Seq(Claims) : u = s \o t
  BY ConcatProperties
<1>6. ToSet(u) = ToSet(s) \cup ToSet(t)
  BY <1>5, ConcatSet
<1>7. PICK b : b = [run.batch EXCEPT !.done = e, !.called = TRUE, !.bought = u]
  OBVIOUS
<1>8. /\ b \in Batches /\ b.done = e /\ b.kept = run.batch.kept /\ b.bought = u
      /\ b.wm = run.batch.wm /\ b.marks = run.batch.marks /\ b.covered = run.batch.covered
  BY <1>1, <1>7 DEF Batches
<1>9. run' = [run EXCEPT !.batch = b]
  <2>1. run' = [run EXCEPT !.batch.done = e, !.batch.called = TRUE, !.batch.bought = @ \o t]
    BY <1>2, <1>3 DEF Call
  <2> QED
    BY <1>1, <1>4, <1>5, <1>7, <2>1 DEF Accumulators, Batches
<1>10. BatchOK(b)
  BY <1>1, <1>2, <1>8 DEF BatchOK
<1> QED
  BY <1>2, <1>3, <1>4, <1>6, <1>8, <1>9, <1>10

(* A call. *)
LEMMA CallStep ==
  ASSUME TInv, SInv, Call
  PROVE  Core'
<1>1. PICK b \in Batches : run' = [run EXCEPT !.batch = b] /\ BatchOK(b)
  BY CallFacts
<1>2. /\ UNCHANGED <<arrived, closed, orphans, seen, blocks>> /\ gone' \in [Chunks -> Fates]
      /\ InRun /\ at' # "roll"
  BY DEF Call, journal, TInv, LedgerOK, Fates, InRun
<1> QED
  BY <1>1, <1>2, BatchStep

(* A call that fails counts its group as processed, or stops the tick. *)
LEMMA CallFailsFacts ==
  ASSUME TInv, CallFails
  PROVE  \E b \in Batches :
         /\ run' = [run EXCEPT !.batch = b] /\ BatchOK(b)
         /\ b.kept = run.batch.kept /\ b.wm = run.batch.wm /\ b.bought = run.batch.bought
         /\ \/ /\ b.done = GroupEnd
               /\ gone' = [c \in Chunks |-> IF c \in ToSet(Group) THEN "call" ELSE gone[c]]
            \/ b.done = run.batch.done /\ gone' = gone
<1>1. run \in Accumulators /\ run.batch \in Batches /\ BatchOK(run.batch)
  BY DEF TInv, RunOK, Accumulators
<1>2. PICK e \in Nat : e = GroupEnd /\ e <= Len(run.batch.kept)
  BY GroupFacts DEF CallFails
<1>3. CASE /\ run' = [run EXCEPT !.batch.done = e, !.batch.called = TRUE]
           /\ gone' = [c \in Chunks |-> IF c \in ToSet(Group) THEN "call" ELSE gone[c]]
  <2>1. PICK b : b = [run.batch EXCEPT !.done = e, !.called = TRUE]
    OBVIOUS
  <2>2. /\ b \in Batches /\ b.done = e /\ b.kept = run.batch.kept /\ b.bought = run.batch.bought
        /\ b.wm = run.batch.wm /\ b.marks = run.batch.marks /\ b.covered = run.batch.covered
    BY <1>1, <2>1 DEF Batches
  <2>3. run' = [run EXCEPT !.batch = b]
    BY <1>1, <1>3, <2>1 DEF Accumulators, Batches
  <2>4. BatchOK(b)
    BY <1>1, <1>2, <2>2 DEF BatchOK
  <2> QED
    BY <1>2, <1>3, <2>2, <2>3, <2>4
<1>4. CASE run' = [run EXCEPT !.batch.stop = TRUE, !.batch.called = TRUE] /\ gone' = gone
  <2>1. PICK b : b = [run.batch EXCEPT !.stop = TRUE, !.called = TRUE]
    OBVIOUS
  <2>2. /\ b \in Batches /\ b.done = run.batch.done /\ b.kept = run.batch.kept
        /\ b.bought = run.batch.bought
        /\ b.wm = run.batch.wm /\ b.marks = run.batch.marks /\ b.covered = run.batch.covered
    BY <1>1, <2>1 DEF Batches
  <2>3. run' = [run EXCEPT !.batch = b]
    BY <1>1, <1>4, <2>1 DEF Accumulators, Batches
  <2>4. BatchOK(b)
    BY <1>1, <2>2 DEF BatchOK
  <2> QED
    BY <1>4, <2>2, <2>3, <2>4
<1> QED
  BY <1>2, <1>3, <1>4 DEF CallFails

(* A failed call. *)
LEMMA CallFailsStep ==
  ASSUME TInv, SInv, CallFails
  PROVE  Core'
<1>1. PICK b \in Batches : run' = [run EXCEPT !.batch = b] /\ BatchOK(b)
  BY CallFailsFacts
<1>2. /\ UNCHANGED <<arrived, closed, orphans, seen, blocks>> /\ gone' \in [Chunks -> Fates]
      /\ InRun /\ at' # "roll"
  BY DEF CallFails, journal, TInv, LedgerOK, Fates, InRun
<1> QED
  BY <1>1, <1>2, BatchStep

(* A brake only stops the batch. *)
LEMMA BrakeFacts ==
  ASSUME TInv, Brake
  PROVE  \E b \in Batches :
         /\ run' = [run EXCEPT !.batch = b] /\ BatchOK(b)
         /\ b.kept = run.batch.kept /\ b.wm = run.batch.wm /\ b.bought = run.batch.bought
         /\ b.done = run.batch.done
<1>1. run \in Accumulators /\ run.batch \in Batches /\ BatchOK(run.batch)
  BY DEF TInv, RunOK, Accumulators
<1>2. PICK b : b = [run.batch EXCEPT !.stop = TRUE]
  OBVIOUS
<1>3. /\ b \in Batches /\ b.done = run.batch.done /\ b.kept = run.batch.kept
      /\ b.bought = run.batch.bought
      /\ b.wm = run.batch.wm /\ b.marks = run.batch.marks /\ b.covered = run.batch.covered
  BY <1>1, <1>2 DEF Batches
<1>4. run' = [run EXCEPT !.batch = b]
  BY <1>1, <1>2 DEF Accumulators, Batches, Brake
<1>5. BatchOK(b)
  BY <1>1, <1>3 DEF BatchOK
<1> QED
  BY <1>3, <1>4, <1>5

(* A brake. *)
LEMMA BrakeStep ==
  ASSUME TInv, SInv, Brake
  PROVE  Core'
<1>1. PICK b \in Batches : run' = [run EXCEPT !.batch = b] /\ BatchOK(b)
  BY BrakeFacts
<1>2. /\ UNCHANGED <<arrived, closed, orphans, seen, blocks>> /\ gone' \in [Chunks -> Fates]
      /\ InRun /\ at' # "roll"
  BY DEF Brake, journal, TInv, LedgerOK, Fates, InRun
<1> QED
  BY <1>1, <1>2, BatchStep

(* The marks of a batch are chunks it kept. *)
LEMMA MarkedFacts ==
  ASSUME TInv
  PROVE  /\ Marked(run.batch.done) \subseteq ToSet(run.batch.kept)
         /\ ToSet(run.batch.kept) \subseteq Chunks
         /\ \A x : x \in Marked(run.batch.done) <=> \E i \in 1..run.batch.done : x = run.batch.kept[i]
         /\ run.batch.done = Len(run.batch.kept) => ToSet(run.batch.kept) \subseteq Marked(run.batch.done)
<1>1. PICK k \in Seq(Chunks) : k = run.batch.kept
  BY DEF TInv, RunOK, Accumulators, Batches
<1>2. PICK l \in Nat : l = Len(k) /\ DOMAIN k = 1..l
  BY LenProperties
<1>3. PICK d \in 0..l : d = run.batch.done
  BY <1>1, <1>2 DEF TInv, RunOK, BatchOK, Accumulators, Batches
<1>4. Marked(d) = ToSet(SubSeq(k, 1, d))
  BY <1>1 DEF Marked
<1>5. \A x : x \in ToSet(SubSeq(k, 1, d)) <=> \E i \in 1..d : x = k[i]
  <2>1. 1 \in Nat \ {0} /\ d \in 0..Len(k)
    BY <1>2
  <2> QED
    BY <2>1, SubSeqFacts
<1>6. \A x : x \in ToSet(k) <=> \E i \in 1..l : x = k[i]
  BY <1>2 DEF ToSet
<1>7. \A i \in 1..d : i \in 1..l
  BY <1>2
<1>8. \A i \in 1..l : k[i] \in Chunks
  BY <1>2
<1> QED
  BY <1>1, <1>2, <1>3, <1>4, <1>5, <1>6, <1>7, <1>8

(* The write of the block. *)
LEMMA WriteStep ==
  ASSUME TInv, SInv, distillWriteBlock
  PROVE  Core'
<1>1. /\ run' \in Accumulators /\ blocks' \in [Watermarks -> Seq(Seq(Claims))]
      /\ run'.from = run.from /\ run'.to = run.to /\ run'.wm = run.wm /\ run'.cap = run.cap
      /\ run'.batch = AddBatch(run).batch
      /\ \A w \in Watermarks : Sound(blocks'[w])
      /\ Running(blocks'[run.from], run') /\ run'.ordinal = Len(blocks'[run.from])
  BY WriteFacts
<1>2. /\ UNCHANGED <<arrived, closed, orphans, seen, gone>>
  BY DEF distillWriteBlock, journal
<1>3. Reached' = Reached
  BY <1>2 DEF Reached
<1>4. JournalOK' /\ LedgerOK'
  BY <1>1, <1>2, <1>3 DEF TInv, JournalOK, LedgerOK
<1>5. SInv'
  BY <1>1, ShardsNext
<1>6. run \in Accumulators /\ BatchOK(run.batch) /\ run.batch \in Batches
  BY DEF TInv, RunOK, Accumulators
<1>7. /\ run'.batch.kept = run.batch.kept /\ run'.batch.done = run.batch.done
      /\ run'.batch.wm = run.batch.wm
      /\ run'.batch.marks = Marked(run.batch.done)
      /\ run'.batch.covered = IF run.batch.done < Len(run.batch.kept) THEN 0 ELSE run.batch.wm
  <2>1. run.batch.done <= Len(run.batch.kept)
    BY <1>6 DEF BatchOK
  <2>2. PICK b : b = AddBatch(run).batch
    OBVIOUS
  <2>3. /\ \A f \in {"kept", "done", "wm", "stop", "complete", "rolled"} : b[f] = run.batch[f]
        /\ b.marks = ToSet(SubSeq(run.batch.kept, 1, run.batch.done))
        /\ b.covered = IF run.batch.done < Len(run.batch.kept) THEN 0 ELSE run.batch.wm
    BY <1>6, <2>1, <2>2, AddBatchFacts
  <2>4. b.kept = run.batch.kept /\ b.done = run.batch.done /\ b.wm = run.batch.wm
    BY <2>3
  <2>5. run'.batch = b
    BY <1>1, <2>2
  <2> QED
    BY <2>3, <2>4, <2>5, Zenon DEF Marked
<1>8. run'.batch.marks \cap Dropped = {}
  BY <1>6, <1>7, MarkedFacts DEF BatchOK
<1>9. RunOK'
  BY <1>1, <1>3, <1>6, <1>7, <1>8 DEF TInv, RunOK, BatchOK
<1> QED
  BY <1>4, <1>5, <1>9 DEF Core

(* A batch that is held back is still a good one, and what stays marked has none of
   its claims in the overflow. *)
LEMMA HoldFacts ==
  ASSUME TInv, NEW r \in Accumulators, r.batch = run.batch
  PROVE  /\ HeldBack(r) \in Accumulators /\ BatchOK(HeldBack(r).batch)
         /\ \A f \in {"from", "to", "wm", "cap", "ordinal", "carry", "group", "insights",
                      "written"} : HeldBack(r)[f] = r[f]
         /\ HeldBack(r).batch.kept = run.batch.kept /\ HeldBack(r).batch.wm = run.batch.wm
         /\ r.overflow = <<>> => /\ HeldBack(r).batch.marks = run.batch.marks
                                 /\ HeldBack(r).batch.covered = run.batch.covered
         /\ r.overflow # <<>> =>
              /\ HeldBack(r).batch.covered = 0
              /\ HeldBack(r).batch.marks \subseteq Marked(run.batch.done)
              /\ \A c \in HeldBack(r).batch.marks : ToSet(Yield[c]) \cap ToSet(r.overflow) = {}
<1>1. RunOK /\ r.overflow \in Seq(Claims) /\ BatchOK(run.batch)
  BY DEF TInv, RunOK, Accumulators
<1>2. PICK m : m = Marked(distillHeldFrom(r.overflow))
  OBVIOUS
<1>3. /\ m \subseteq Marked(run.batch.done) /\ Marked(run.batch.done) \subseteq ToSet(run.batch.kept)
      /\ ToSet(run.batch.kept) \subseteq Chunks
      /\ \A c \in m : ToSet(Yield[c]) \cap ToSet(r.overflow) = {}
  BY <1>1, <1>2, HeldFromFacts
<1>4. m \in SUBSET Chunks
  BY <1>3
<1>5. PICK h : h = HeldBack(r)
  OBVIOUS
<1>6. /\ h \in Accumulators
      /\ \A f \in {"from", "to", "wm", "cap", "ordinal", "carry", "group", "insights",
                   "written", "overflow", "called"} : h[f] = r[f]
      /\ \A f \in {"kept", "done", "wm"} : h.batch[f] = r.batch[f]
      /\ h.batch.marks = IF r.overflow = <<>> THEN r.batch.marks ELSE m
      /\ h.batch.covered = IF r.overflow = <<>> THEN r.batch.covered ELSE 0
  BY <1>2, <1>4, <1>5, HeldBackFacts
<1>7. h.batch.kept = run.batch.kept /\ h.batch.done = run.batch.done /\ h.batch.wm = run.batch.wm
  BY <1>6
<1>8. BatchOK(h.batch)
  <2>1. h.batch.marks \cap Dropped = {}
    BY <1>1, <1>3, <1>6 DEF BatchOK
  <2>2. h.batch.covered \in {0, h.batch.wm}
    BY <1>1, <1>6, <1>7 DEF BatchOK
  <2> QED
    BY <1>1, <1>7, <2>1, <2>2 DEF BatchOK
<1>9. \A f \in {"from", "to", "wm", "cap", "ordinal", "carry", "group", "insights",
                   "written"} : h[f] = r[f]
  BY <1>6
<1>10. r.overflow = <<>> => h.batch.marks = run.batch.marks /\ h.batch.covered = run.batch.covered
  BY <1>6
<1>11. r.overflow # <<>> => h.batch.marks = m /\ h.batch.covered = 0
  BY <1>6
<1> QED
  BY <1>3, <1>5, <1>6, <1>7, <1>8, <1>9, <1>10, <1>11

(* The shard stays: only the history of what was given up changes. *)
LEMMA StaysStep ==
  ASSUME TInv, SInv, ShardStays
  PROVE  Core'
<1>1. /\ UNCHANGED <<arrived, closed, orphans, seen, blocks, run>> /\ at = "roll" /\ at' = "mark"
      /\ gone' \in [Chunks -> Fates]
  BY DEF ShardStays, journal, TInv, LedgerOK, Fates
<1>2. Reached' = Reached
  BY <1>1 DEF Reached
<1>3. JournalOK' /\ LedgerOK' /\ RunOK'
  BY <1>1, <1>2 DEF TInv, JournalOK, LedgerOK, RunOK, BatchOK, Fates
<1>4. SInv'
  <2>1. Running(blocks[run.from], run)
    BY <1>1, RunningNow DEF InRun
  <2> QED
    BY <1>1, <2>1, ShardsNext DEF SInv
<1> QED
  BY <1>3, <1>4 DEF Core

(* The shard rests: the batch is held back. *)
LEMMA RestsStep ==
  ASSUME TInv, SInv, ShardRests
  PROVE  Core'
<1>1. /\ UNCHANGED <<arrived, closed, orphans, seen, blocks, gone>> /\ at = "roll" /\ at' = "mark"
      /\ run' = HeldBack(run)
  BY DEF ShardRests, journal
<1>2. run \in Accumulators
  BY DEF TInv, RunOK
<1>3. PICK h : h = HeldBack(run)
  OBVIOUS
<1>4. /\ h \in Accumulators /\ BatchOK(h.batch)
      /\ h.from = run.from /\ h.to = run.to /\ h.wm = run.wm /\ h.cap = run.cap
      /\ h.ordinal = run.ordinal /\ h.carry = run.carry /\ h.group = run.group
      /\ h.insights = run.insights /\ h.written = run.written
  BY <1>2, <1>3, HoldFacts
<1>5. Reached' = Reached
  BY <1>1 DEF Reached
<1>6. JournalOK' /\ LedgerOK'
  BY <1>1, <1>3, <1>4, <1>5 DEF TInv, JournalOK, LedgerOK
<1>7. RunOK'
  BY <1>1, <1>3, <1>4, <1>5 DEF TInv, RunOK, BatchOK
<1>8. SInv'
  <2>1. Running(blocks[run.from], run)
    BY <1>1, RunningNow DEF InRun
  <2>2. Running(blocks[run.from], h)
    BY <1>4, <2>1, RunningSame
  <2>3. Running(blocks'[run'.from], run')
    BY <1>1, <1>3, <1>4, <2>2
  <2>4. \A w \in Watermarks : Sound(blocks'[w])
    BY <1>1 DEF SInv
  <2> QED
    BY <1>1, <2>3, <2>4, ShardsNext
<1> QED
  BY <1>6, <1>7, <1>8 DEF Core

(* What a rollover leaves in the run. *)
LEMMA RolledFacts ==
  ASSUME TInv, NEW r \in Accumulators, r.batch = run.batch,
         run' = IF r.overflow # <<>> THEN HeldBack(r) ELSE [r EXCEPT !.batch.rolled = TRUE]
  PROVE  /\ run' \in Accumulators /\ BatchOK(run'.batch)
         /\ \A f \in {"from", "to", "wm", "cap", "ordinal", "carry", "group", "insights",
                      "written"} : run'[f] = r[f]
         /\ run'.batch.kept = run.batch.kept /\ run'.batch.wm = run.batch.wm
         /\ r.overflow = <<>> => /\ run'.batch.marks = run.batch.marks
                                 /\ run'.batch.covered = run.batch.covered
         /\ r.overflow # <<>> =>
              /\ run'.batch.covered = 0
              /\ run'.batch.marks \subseteq Marked(run.batch.done)
              /\ \A c \in run'.batch.marks : ToSet(Yield[c]) \cap ToSet(r.overflow) = {}
<1>1. CASE r.overflow # <<>>
  <2>1. run' = HeldBack(r)
    BY <1>1
  <2> QED
    BY <1>1, <2>1, HoldFacts, ZenonT(30)
<1>2. CASE r.overflow = <<>>
  <2>1. PICK b : b = [r.batch EXCEPT !.rolled = TRUE]
    OBVIOUS
  <2>2. r.batch \in Batches /\ BatchOK(r.batch)
    BY DEF Accumulators, TInv, RunOK
  <2>3. /\ b \in Batches /\ b.done = r.batch.done /\ b.kept = r.batch.kept /\ b.wm = r.batch.wm
        /\ b.marks = r.batch.marks /\ b.covered = r.batch.covered
    BY <2>1, <2>2 DEF Batches
  <2>4. run' = [r EXCEPT !.batch = b]
    BY <1>2, <2>1
  <2>5. run' \in Accumulators /\ run'.batch = b
    BY <2>3, <2>4 DEF Accumulators
  <2>6. \A f \in {"from", "to", "wm", "cap", "ordinal", "carry", "group", "insights",
                  "written"} : run'[f] = r[f]
    BY <2>4 DEF Accumulators
  <2>7. BatchOK(b)
    BY <2>2, <2>3 DEF BatchOK
  <2> QED
    BY <1>2, <2>3, <2>5, <2>6, <2>7
<1> QED
  BY <1>1, <1>2

(* The rollover. *)
LEMMA RollsStep ==
  ASSUME TInv, SInv, ShardRolls
  PROVE  Core'
<1>1. PICK r \in Accumulators :
         /\ run' = IF r.overflow # <<>> THEN HeldBack(r) ELSE [r EXCEPT !.batch.rolled = TRUE]
         /\ blocks' \in [Watermarks -> Seq(Seq(Claims))]
         /\ r.from = run.from /\ r.to = run.to /\ r.wm = run.wm /\ r.cap = run.cap
         /\ r.batch = run.batch
         /\ \A w \in Watermarks : Sound(blocks'[w])
         /\ Running(blocks'[run.from], r)
  BY RollFacts
<1>2. UNCHANGED <<arrived, closed, orphans, seen, gone>> /\ at' = "mark"
  BY DEF ShardRolls, journal
<1>3. /\ run' \in Accumulators /\ BatchOK(run'.batch)
      /\ run'.from = r.from /\ run'.to = r.to /\ run'.wm = r.wm /\ run'.cap = r.cap
      /\ run'.ordinal = r.ordinal /\ run'.carry = r.carry /\ run'.group = r.group
      /\ run'.insights = r.insights /\ run'.written = r.written
  BY <1>1, RolledFacts
<1>4. Reached' = Reached
  BY <1>2 DEF Reached
<1>5. JournalOK' /\ LedgerOK'
  BY <1>1, <1>2, <1>3, <1>4 DEF TInv, JournalOK, LedgerOK
<1>6. RunOK'
  BY <1>1, <1>3, <1>4 DEF TInv, RunOK, BatchOK
<1>7. SInv'
  <2>1. Running(blocks'[run'.from], run')
    <3>1. PICK c, u : c = blocks'[run.from] /\ u = run'
      OBVIOUS
    <3>2. Running(c, r) /\ u \in Accumulators
          /\ u.ordinal = r.ordinal /\ u.carry = r.carry /\ u.group = r.group
          /\ u.insights = r.insights /\ u.written = r.written
      BY <1>1, <1>3, <3>1
    <3>3. Running(c, u)
      BY <3>2, RunningSame, Zenon
    <3> QED
      BY <1>1, <1>3, <3>1, <3>3
  <2> QED
    BY <1>1, <1>2, <2>1, ShardsNext
<1> QED
  BY <1>5, <1>6, <1>7 DEF Core

(* The ledger takes the marks. *)
LEMMA MarkStep ==
  ASSUME TInv, SInv, distillMarkSeen
  PROVE  Core'
<1>1. /\ UNCHANGED <<arrived, closed, orphans, blocks, run, gone>> /\ at = "mark" /\ at' = "advance"
      /\ seen' = seen \cup run.batch.marks
  BY DEF distillMarkSeen, journal
<1>2. Reached' = Reached
  BY <1>1 DEF Reached
<1>3. JournalOK' /\ RunOK'
  BY <1>1, <1>2 DEF TInv, JournalOK, RunOK, BatchOK
<1>4. LedgerOK'
  <2>1. run.batch.marks \subseteq Chunks \ Dropped
    BY DEF TInv, RunOK, BatchOK, Accumulators, Batches
  <2> QED
    BY <1>1, <2>1 DEF TInv, LedgerOK
<1>5. SInv'
  <2>1. Running(blocks[run.from], run)
    BY <1>1, RunningNow DEF InRun
  <2> QED
    BY <1>1, <2>1, ShardsNext DEF SInv
<1> QED
  BY <1>3, <1>4, <1>5 DEF Core

(* What becomes of the run when its watermark advances. *)
LEMMA AdvanceFacts ==
  ASSUME TInv, distillAdvance
  PROVE  /\ run' \in Accumulators /\ run'.batch = NoBatch
         /\ \A f \in {"from", "cap", "ordinal", "carry", "group", "insights",
                      "written"} : run'[f] = run[f]
         /\ run'.wm = run'.to /\ run'.to \in {run.to, run.batch.covered} /\ run'.to \in Reached
         /\ run.to <= run'.to
<1>1. run \in Accumulators /\ BatchOK(run.batch) /\ run.batch \in Batches
      /\ run.to \in Reached /\ run.wm = run.to
  BY DEF TInv, RunOK, JournalOK, Accumulators
<1>2. 0 \in Reached /\ Reached \subseteq Nat /\ Reached \subseteq Watermarks
  BY ReachedFacts DEF TInv
<1>3. run.batch.covered \in Reached
  BY <1>1, <1>2 DEF BatchOK
<1>4. PICK t \in Nat : t = run.to
  BY <1>1, <1>2
<1>5. PICK v \in Nat : v = run.batch.covered
  BY <1>2, <1>3
<1>6. PICK m : m = Max({t, v})
  OBVIOUS
<1>7. m = IF t >= v THEN t ELSE v
  <2>1. t \in Int /\ v \in Int
    OBVIOUS
  <2> QED
    BY <1>6, <2>1, MaxTwo
<1>8. run' = [run EXCEPT !.to = m, !.wm = m, !.batch = NoBatch]
  BY <1>1, <1>4, <1>5, <1>6 DEF distillAdvance, Accumulators
<1>9. m \in {t, v} /\ t <= m /\ m \in Reached /\ m \in Watermarks
  <2>1. m \in {t, v} /\ t <= m
    BY <1>7
  <2> QED
    BY <1>1, <1>2, <1>3, <1>4, <1>5, <2>1
<1>10. run' \in Accumulators
  BY <1>1, <1>8, <1>9, IdleFacts DEF Accumulators
<1>11. run'.to = m /\ run'.wm = m /\ run'.batch = NoBatch
  BY <1>1, <1>8 DEF Accumulators
<1>12. \A f \in {"from", "cap", "ordinal", "carry", "group", "insights",
                 "written"} : run'[f] = run[f]
  BY <1>1, <1>8 DEF Accumulators
<1> QED
  BY <1>4, <1>5, <1>9, <1>10, <1>11, <1>12

(* An empty batch is a good one. *)
LEMMA NoBatchOK ==
  ASSUME CorpusOK
  PROVE  BatchOK(NoBatch)
<1>1. NoBatch.done = 0 /\ NoBatch.kept = <<>> /\ NoBatch.marks = {} /\ NoBatch.wm = 0
      /\ NoBatch.covered = 0 /\ Len(<<>>) = 0 /\ ToSet(<<>>) = {} /\ 0 \in Reached
  BY ReachedFacts DEF NoBatch, ToSet
<1> QED
  BY <1>1 DEF BatchOK

(* The watermark advances. *)
LEMMA AdvanceStep ==
  ASSUME TInv, SInv, distillAdvance
  PROVE  Core'
<1>1. /\ UNCHANGED <<arrived, closed, orphans, seen, blocks, gone>> /\ at = "advance"
      /\ at' # "roll"
  BY DEF distillAdvance, journal
<1>2. PICK u : u = run'
  OBVIOUS
<1>3. /\ u \in Accumulators /\ u.batch = NoBatch
      /\ u.from = run.from /\ u.cap = run.cap
      /\ u.ordinal = run.ordinal /\ u.carry = run.carry /\ u.group = run.group
      /\ u.insights = run.insights /\ u.written = run.written
      /\ u.wm = u.to /\ u.to \in Reached
  BY <1>2, AdvanceFacts
<1>4. Reached' = Reached
  BY <1>1 DEF Reached
<1>5. JournalOK' /\ LedgerOK'
  BY <1>1, <1>2, <1>3, <1>4 DEF TInv, JournalOK, LedgerOK
<1>6. RunOK'
  <2>1. BatchOK(NoBatch)
    BY NoBatchOK DEF TInv
  <2> QED
    BY <1>2, <1>3, <1>4, <2>1 DEF TInv, RunOK, BatchOK
<1>7. SInv'
  <2>1. Running(blocks[run.from], run)
    BY <1>1, RunningNow DEF InRun
  <2>2. Running(blocks[run.from], u)
    BY <1>3, <2>1, RunningSame
  <2>3. Running(blocks'[run'.from], run')
    BY <1>1, <1>2, <1>3, <2>2
  <2>4. \A w \in Watermarks : Sound(blocks'[w])
    BY <1>1 DEF SInv
  <2> QED
    BY <1>1, <2>3, <2>4, ShardsNext
<1> QED
  BY <1>5, <1>6, <1>7 DEF Core

(* A run that fails or is done with its material. *)
LEMMA EndStep ==
  ASSUME TInv, SInv, RunFails \/ Exhausted
  PROVE  Core'
<1>1. UNCHANGED <<arrived, closed, orphans, seen, blocks, gone, run>> /\ at' = "close"
  BY DEF RunFails, Exhausted, journal
<1>2. Reached' = Reached
  BY <1>1 DEF Reached
<1>3. JournalOK' /\ RunOK' /\ LedgerOK'
  BY <1>1, <1>2 DEF TInv, JournalOK, LedgerOK, RunOK, BatchOK
<1>4. SInv'
  BY <1>1, ShardsStay DEF InRun
<1> QED
  BY <1>3, <1>4 DEF Core

(* A step after which there is no run, and the rows are among those there were. *)
LEMMA IdleStep ==
  ASSUME TInv, SInv, UNCHANGED <<arrived, seen, blocks, gone>>, run' = NoRun, ~InRun',
         closed' \in {closed, run.to}, orphans' \subseteq orphans \cup {run.to}
  PROVE  Core'
<1>1. Reached' = Reached
  BY DEF Reached
<1>2. NoRun.to = 0 /\ NoRun.wm = 0 /\ NoRun.cap = 0 /\ NoRun.batch = NoBatch
  BY DEF NoRun
<1>3. 0 \in Reached /\ BatchOK(NoBatch) /\ NoRun \in Accumulators
  BY ReachedFacts, NoBatchOK, IdleFacts DEF TInv
<1>4. JournalOK' /\ LedgerOK'
  BY <1>1, <1>2, <1>3 DEF TInv, JournalOK, LedgerOK
<1>5. RunOK'
  BY <1>1, <1>2, <1>3 DEF RunOK, BatchOK
<1>6. SInv'
  BY ShardsStay
<1> QED
  BY <1>4, <1>5, <1>6 DEF Core

(* The end of a run: its row is closed with its watermark, or stays open. *)
LEMMA CloseFacts ==
  ASSUME TInv, distillClose
  PROVE  /\ UNCHANGED <<arrived, seen, blocks, gone>> /\ run' = NoRun /\ at' = "await"
         /\ closed' \in {closed, run.to} /\ orphans' \subseteq orphans \cup {run.to}
         /\ (closed' = Max({closed, run.to}) /\ excused' = excused) \/ excused'
<1>1. UNCHANGED <<arrived, seen, blocks, gone>> /\ run' = NoRun /\ at' = "await"
  BY DEF distillClose
<1>2. closed \in Nat /\ run.to \in Nat
  BY ReachedFacts DEF TInv, JournalOK
<1>3. Max({closed, run.to}) \in {closed, run.to}
  <2>1. closed \in Int /\ run.to \in Int
    BY <1>2
  <2>2. Max({closed, run.to}) = IF closed >= run.to THEN closed ELSE run.to
    BY <2>1, MaxTwo
  <2> QED
    BY <2>2
<1>4. CASE closed' = Max({closed, run.to}) /\ UNCHANGED <<orphans, excused, left>>
  BY <1>1, <1>3, <1>4
<1>5. CASE orphans' = orphans \cup {run.to} /\ excused' = TRUE /\ closed' = closed
  BY <1>1, <1>5
<1> QED
  BY <1>4, <1>5 DEF distillClose

(* The end of a run. *)
LEMMA CloseStep ==
  ASSUME TInv, SInv, distillClose
  PROVE  Core'
<1>1. /\ UNCHANGED <<arrived, seen, blocks, gone>> /\ run' = NoRun /\ at' = "await"
      /\ closed' \in {closed, run.to} /\ orphans' \subseteq orphans \cup {run.to}
  BY CloseFacts
<1>2. ~InRun'
  BY <1>1 DEF InRun
<1> QED
  BY <1>1, <1>2, IdleStep

(* A crash. *)
LEMMA CrashStep ==
  ASSUME TInv, SInv, Crash
  PROVE  Core'
<1>1. /\ UNCHANGED <<arrived, seen, blocks, gone>> /\ run' = NoRun /\ at' = "boot"
      /\ closed' = closed /\ orphans' \subseteq orphans \cup {run.to}
  BY DEF Crash
<1>2. ~InRun'
  BY <1>1 DEF InRun
<1> QED
  BY <1>1, <1>2, IdleStep

-----------------------------------------------------------------------------
(* Types and shards. *)

(* The steps, sorted for the proofs. *)
LEMMA NextCases ==
  ASSUME Next
  PROVE  \/ Aside \/ distillStartupSweep \/ distillStartRun \/ ReadBatch
         \/ Call \/ CallFails \/ Brake \/ distillWriteBlock
         \/ ShardStays \/ ShardRests \/ ShardRolls
         \/ distillMarkSeen \/ distillAdvance \/ RunFails \/ Exhausted \/ distillClose \/ Crash
  BY DEF Next, Environment, Listener, Tick, Run, Aside

(* The initial states. *)
LEMMA InitTS ==
  ASSUME Init
  PROVE  TInv /\ SInv
<1>1. CorpusOK
  BY SourceFacts DEF Init, CorpusOK
<1>2. 0 \in Reached /\ BatchOK(NoBatch) /\ NoRun \in Accumulators
  BY <1>1, ReachedFacts, NoBatchOK, IdleFacts
<1>3. NoRun.to = 0 /\ NoRun.wm = 0 /\ NoRun.cap = 0 /\ NoRun.batch = NoBatch
  BY DEF NoRun
<1>4. JournalOK
  BY <1>2, <1>3 DEF Init, JournalOK
<1>5. <<>> \in Seq(Seq(Claims))
  OBVIOUS
<1>6. LedgerOK
  BY <1>5 DEF Init, LedgerOK
<1>7. RunOK
  BY <1>2, <1>3 DEF Init, RunOK
<1>8. WakeOK
  BY QuietFacts DEF Init, WakeOK
<1>9. ArmOK
  BY SizesAssumption DEF Init, ArmOK, Kinds
<1>10. Sound(<<>>)
  BY DEF Sound
<1>11. SInv
  BY <1>10 DEF Init, SInv, RunAttached, InRun
<1> QED
  BY <1>1, <1>4, <1>6, <1>7, <1>8, <1>9, <1>11 DEF TInv

(* Every step keeps the types and the shards in order. *)
LEMMA StepTS ==
  ASSUME TInv, SInv, [Next]_vars
  PROVE  (TInv /\ SInv)'
<1>1. CorpusOK' /\ WakeOK' /\ ArmOK'
  BY CorpusStep, WakeStep, ArmStep DEF TInv
<1>2. Core'
  <2>1. CASE UNCHANGED vars
    <3>1. UNCHANGED <<arrived, closed, orphans, seen, blocks, at, run, gone>>
      BY <2>1 DEF vars, journal
    <3>2. Reached' = Reached
      BY <3>1 DEF Reached
    <3>3. JournalOK' /\ LedgerOK' /\ RunOK'
      BY <3>1, <3>2 DEF TInv, JournalOK, LedgerOK, RunOK, BatchOK
    <3>4. SInv'
      BY <3>1 DEF SInv, RunAttached, InRun
    <3> QED
      BY <3>3, <3>4 DEF Core
  <2>2. CASE Aside
    BY <2>2, AsideStep
  <2>3. CASE distillStartupSweep
    BY <2>3, SweepStep
  <2>4. CASE distillStartRun
    BY <2>4, StartStep
  <2>5. CASE ReadBatch
    BY <2>5, ReadStep
  <2>6. CASE Call
    BY <2>6, CallStep
  <2>7. CASE CallFails
    BY <2>7, CallFailsStep
  <2>8. CASE Brake
    BY <2>8, BrakeStep
  <2>9. CASE distillWriteBlock
    BY <2>9, WriteStep
  <2>10. CASE ShardStays
    BY <2>10, StaysStep
  <2>11. CASE ShardRests
    BY <2>11, RestsStep
  <2>12. CASE ShardRolls
    BY <2>12, RollsStep
  <2>13. CASE distillMarkSeen
    BY <2>13, MarkStep
  <2>14. CASE distillAdvance
    BY <2>14, AdvanceStep
  <2>15. CASE RunFails \/ Exhausted
    BY <2>15, EndStep
  <2>16. CASE distillClose
    BY <2>16, CloseStep
  <2>17. CASE Crash
    BY <2>17, CrashStep
  <2> QED
    BY <2>1, <2>2, <2>3, <2>4, <2>5, <2>6, <2>7, <2>8, <2>9, <2>10, <2>11, <2>12, <2>13, <2>14,
       <2>15, <2>16, <2>17, NextCases
<1> QED
  BY <1>1, <1>2 DEF TInv, Core

(* The types and the order of the shards are invariant. *)
LEMMA ShardsInvariant == Spec => [](TInv /\ SInv)
<1>1. Init => TInv /\ SInv
  BY InitTS
<1>2. TInv /\ SInv /\ [Next]_vars => (TInv /\ SInv)'
  BY StepTS
<1> QED
  BY <1>1, <1>2, PTL DEF Spec

(* The invariant implies the type invariant of the model. *)
LEMMA TypesFollow ==
  ASSUME TInv, SInv
  PROVE  TypeOK
<1>1. Reached \subseteq Watermarks
  BY ReachedFacts DEF TInv
<1>2. Rows \subseteq Watermarks
  BY <1>1 DEF TInv, JournalOK, Rows
<1>3. ASSUME NEW w \in Watermarks, NEW n \in DOMAIN blocks[w]
      PROVE  /\ ToSet(blocks[w][n]) \subseteq UNION {ToSet(Yield[c]) : c \in Chunks}
             /\ Len(blocks[w][n]) <= RunRoom(n)
             /\ n <= distillShardHardBound(Max(Caps))
  <2>1. blocks[w] \in Seq(Seq(Claims)) /\ Sound(blocks[w])
    BY DEF TInv, LedgerOK, SInv
  <2>2. n \in 1..Len(blocks[w]) /\ blocks[w][n] \in Seq(Claims)
    BY <1>3, <2>1, LenProperties
  <2>3. \A s \in Seq(Claims) : ToSet(s) \subseteq Claims
    BY LenProperties DEF ToSet
  <2>4. ToSet(blocks[w][n]) \subseteq Claims
    BY <2>2, <2>3
  <2>5. Len(blocks[w][n]) <= RunRoom(n) /\ n <= Bound
    BY <2>1, <2>2 DEF Sound
  <2> QED
    BY <2>4, <2>5 DEF Claims, Bound
<1>4. run.batch.done \in 0..Len(run.batch.kept)
  <2>1. run.batch.done \in Nat /\ Len(run.batch.kept) \in Nat
    BY LenProperties DEF TInv, RunOK, Accumulators, Batches
  <2> QED
    BY <2>1 DEF TInv, RunOK, BatchOK
<1>5. arrived \in 0..Len(Source) /\ seen \subseteq Chunks \ Dropped
  BY DEF TInv, CorpusOK, LedgerOK
<1>6. /\ link \in {"down", "listening", "up"} /\ wire \subseteq Manifests \cup {Foreign}
      /\ window.ids \subseteq Manifests \cup {Foreign} /\ Cardinality(window.ids) <= WakeIDCap
  BY DEF TInv, WakeOK
<1>7. at \in {"boot", "await", "settle", "tick", "read", "extract", "roll", "mark", "advance",
              "close"}
  BY DEF TInv, ArmOK
<1> QED
  BY <1>2, <1>3, <1>4, <1>5, <1>6, <1>7 DEF TypeOK

(* Type correctness: no row of the journal is off the corpus' watermarks, the ledger
   holds no discarded chunk, no shard exceeds its room and no chain its bound
   (distillShardHardBound), the window stays within its cap, whatever the run, the
   reader, a crash or a failed write does. *)
THEOREM TypesHold == Spec => []TypeOK
<1>1. TInv /\ SInv => TypeOK
  BY TypesFollow
<1> QED
  BY <1>1, ShardsInvariant, PTL

(* No shard holds a claim twice and no two shards of a range hold the same one: the
   dedup against carry, group and the insights of the run (distillRenderBlock,
   rollover, distillSeedBlock), across re-reads, crashes and rollovers. *)
THEOREM NoClaimTwice == Spec => []OncePerRange
<1>1. ASSUME TInv, SInv PROVE OncePerRange
  <2>1. SUFFICES ASSUME NEW w \in Watermarks
                 PROVE  /\ \A n \in DOMAIN blocks[w] :
                             Len(blocks[w][n]) = Cardinality(ToSet(blocks[w][n]))
                        /\ \A n, k \in DOMAIN blocks[w] :
                             n # k => ToSet(blocks[w][n]) \cap ToSet(blocks[w][k]) = {}
    BY DEF OncePerRange
  <2>2. blocks[w] \in Seq(Seq(Claims)) /\ Sound(blocks[w])
    BY <1>1 DEF TInv, LedgerOK, SInv
  <2>3. DOMAIN blocks[w] = 1..Len(blocks[w]) /\ \A n \in 1..Len(blocks[w]) : blocks[w][n] \in Seq(Claims)
    BY <2>2, LenProperties
  <2>4. \A n \in 1..Len(blocks[w]) : Once(blocks[w][n])
    BY <2>2 DEF Sound
  <2>5. \A n \in 1..Len(blocks[w]) : Len(blocks[w][n]) = Cardinality(ToSet(blocks[w][n]))
    BY <2>3, <2>4, OnceCounts
  <2> QED
    BY <2>2, <2>3, <2>5 DEF Sound
<1> QED
  BY <1>1, ShardsInvariant, PTL

(* Only two steps write a shard. *)
LEMMA OnlyWrites ==
  ASSUME [Next]_vars
  PROVE  distillWriteBlock \/ ShardRolls \/ blocks' = blocks
<1>1. CASE Aside
  BY <1>1, AsideFrame
<1>2. CASE UNCHANGED vars
  BY <1>2 DEF vars
<1>3. CASE ~Aside
  BY <1>2, <1>3, NextCases
  DEF distillStartupSweep, distillStartRun, ReadBatch, Call, CallFails, Brake, ShardStays,
      ShardRests, distillMarkSeen, distillAdvance, RunFails, Exhausted, distillClose, Crash
<1> QED
  BY <1>1, <1>2, <1>3

(* No step takes a claim out of the durable blocks. *)
LEMMA DurableKept ==
  ASSUME TInv, SInv, [Next]_vars
  PROVE  Durable \subseteq Durable'
<1>1. CASE distillWriteBlock
  BY <1>1, WriteFacts
<1>2. CASE ShardRolls
  BY <1>2, RollFacts
<1>3. CASE blocks' = blocks
  BY <1>3 DEF Durable
<1> QED
  BY <1>1, <1>2, <1>3, OnlyWrites

(* What was published stays published: every write of a shard (distillWriteBlock, the
   handover of distillRollShard) contains what the shard held, because the insights
   of a run only grow and the render keeps their order. *)
THEOREM NothingWithdrawn == Spec => PublishedKept
<1>1. TInv /\ SInv /\ [Next]_vars => [Durable \subseteq Durable']_vars
  BY DurableKept
<1> QED
  BY <1>1, ShardsInvariant, PTL DEF Spec, PublishedKept

-----------------------------------------------------------------------------
(* Wakes. *)

(* Somebody tells the arm, which has taken the token if taken is true. *)
Hint(taken) ==
    \/ (window.token \/ taken) /\ (window.overflow \/ window.ids \cap Manifests # {})
    \/ wire \cap Manifests # {} \/ link # "up"

(* The steps of the corpus and of the listener. *)
Outside ==
    \/ LiftCap \/ Arrive \/ InsertForeign \/ Disconnect
    \/ Listen \/ NotifyDistillBacklog \/ (\E id \in wire : HandleNotification(id))

(* They do not touch the arm, keep a hint, and give one for every arrival. *)
LEMMA OutsideFacts ==
  ASSUME CorpusOK, WakeOK, Outside, NEW p \in BOOLEAN
  PROVE  /\ UNCHANGED <<closed, at, run, excused>>
         /\ Hint(p) => Hint(p)'
         /\ arrived' # arrived => Hint(p)'
<1>1. window \in [ids : SUBSET (Manifests \cup {Foreign}), overflow : BOOLEAN, token : BOOLEAN]
      /\ 0 \notin Manifests
  BY SourceFacts DEF WakeOK, Manifests
<1>2. CASE LiftCap
  BY <1>2 DEF LiftCap, Hint, journal
<1>3. CASE Arrive
  <2>1. /\ UNCHANGED <<closed, at, run, excused, link, window>>
        /\ wire' = IF link = "down" THEN wire ELSE wire \cup (arrived + 1)..arrived'
    BY <1>3 DEF Arrive, journal
  <2>2. arrived + 1 \in Manifests
    BY <1>3, SourceFacts DEF CorpusOK, Arrive, Manifests
  <2>3. arrived' # arrived => arrived + 1 \in (arrived + 1)..arrived'
    <3>1. arrived \in Nat /\ arrived' \in Nat /\ arrived <= arrived'
      <4>1. [Next]_vars
        BY <1>3 DEF Next, Environment
      <4>2. CorpusOK' /\ arrived <= arrived'
        BY <4>1, CorpusStep
      <4> QED
        BY <4>2, SourceFacts DEF CorpusOK
    <3> QED
      BY <3>1
  <2>4. arrived' # arrived => wire' \cap Manifests # {} \/ link' # "up"
    BY <2>1, <2>2, <2>3
  <2>5. wire \subseteq wire'
    BY <2>1
  <2>6. Hint(p) => Hint(p)'
    BY <2>1, <2>5 DEF Hint
  <2> QED
    BY <2>1, <2>4, <2>6 DEF Hint
<1>4. CASE InsertForeign
  <2>1. UNCHANGED <<arrived, closed, at, run, excused, link, window>> /\ wire \subseteq wire'
    BY <1>4 DEF InsertForeign, journal
  <2> QED
    BY <2>1 DEF Hint
<1>5. CASE Disconnect \/ Listen
  <2>1. UNCHANGED <<arrived, closed, at, run, excused>> /\ link' # "up"
    BY <1>5 DEF Disconnect, Listen, journal
  <2> QED
    BY <2>1 DEF Hint
<1>6. CASE NotifyDistillBacklog
  <2>1. UNCHANGED <<arrived, closed, at, run, excused>> /\ window'.token = TRUE /\ window'.overflow = TRUE
    BY <1>1, <1>6 DEF NotifyDistillBacklog, journal
  <2> QED
    BY <2>1 DEF Hint
<1>7. ASSUME NEW id \in wire, HandleNotification(id)
      PROVE  UNCHANGED <<arrived, closed, at, run, excused>> /\ (Hint(p) => Hint(p)')
  <2>1. /\ UNCHANGED <<arrived, closed, at, run, excused, link>> /\ wire' = wire \ {id}
        /\ window' = NotifyBlockInsert(id)
    BY <1>7 DEF HandleNotification, journal
  <2>2. /\ window'.token = TRUE /\ (window.overflow => window'.overflow)
        /\ window.ids \subseteq window'.ids /\ (id \in window'.ids \/ window'.overflow)
    BY <2>1, InsertFacts
  <2>3. CASE id \in Manifests
    <3>1. window'.overflow \/ window'.ids \cap Manifests # {}
      BY <2>2, <2>3
    <3> QED
      BY <2>1, <2>2, <3>1 DEF Hint
  <2>4. CASE id \notin Manifests
    <3>1. wire \cap Manifests # {} => wire' \cap Manifests # {}
      BY <2>1, <2>4
    <3>2. window.ids \cap Manifests # {} => window'.ids \cap Manifests # {}
      BY <2>2
    <3> QED
      BY <2>1, <2>2, <3>1, <3>2 DEF Hint
  <2> QED
    BY <2>1, <2>3, <2>4
<1> QED
  BY <1>2, <1>3, <1>4, <1>5, <1>6, <1>7 DEF Outside

(* A higher watermark hides more. *)
LEMMA VisibleShrinks ==
  ASSUME CorpusOK, NEW v \in Nat, NEW w \in Nat, v <= w
  PROVE  Visible(w) \subseteq Visible(v)
<1>1. \A i \in 1..arrived : Source[i].wm \in Nat
  BY ReachedFacts
<1> QED
  BY <1>1 DEF Visible

(* Nothing above the watermark is the end of a run (distillBatches), and the only end
   that is not excused. *)
LEMMA ExhaustedFacts ==
  ASSUME TInv, Exhausted, ~excused'
  PROVE  Visible(Max({closed, run.to})) = {}
<1>1. run.wm \in Nat /\ run.wm = run.to /\ closed \in Nat /\ CorpusOK /\ arrived \in 0..Len(Source)
  BY ReachedFacts DEF TInv, JournalOK, CorpusOK
<1>2. Visible(run.wm) = {}
  <2>1. SUFFICES ASSUME Visible(run.wm) # {} PROVE FALSE
    OBVIOUS
  <2>2. PICK w \in Nat : w = run.wm
    BY <1>1
  <2>3. Read(w).wm > w /\ Read(w).wm \in Nat
    BY <1>1, <2>1, <2>2, ReadFacts
  <2>4. Read(w).wm = w
    BY <2>2 DEF Exhausted
  <2> QED
    BY <2>3, <2>4
<1>3. PICK m \in Nat : m = Max({closed, run.to}) /\ run.wm <= m
  <2>1. closed \in Int /\ run.to \in Int
    BY <1>1
  <2>2. Max({closed, run.to}) = IF closed >= run.to THEN closed ELSE run.to
    BY <2>1, MaxTwo
  <2> QED
    BY <1>1, <2>2
<1>4. Visible(m) \subseteq Visible(run.wm)
  BY <1>1, <1>3, VisibleShrinks
<1> QED
  BY <1>2, <1>3, <1>4

(* Every step keeps the wakes. *)
LEMMA WakesStep ==
  ASSUME TInv, WInv, [Next]_vars
  PROVE  WInv'
<1>1. CASE Outside
  <2>1. CorpusOK /\ WakeOK
    BY DEF TInv
  <2>2. UNCHANGED <<closed, at, run, excused>>
    BY <1>1, <2>1, OutsideFacts
  <2>3. PICK p \in BOOLEAN : p = (at = "settle")
    OBVIOUS
  <2>4. /\ (Hint(p) => Hint(p)') /\ (Hint(FALSE) => Hint(FALSE)')
        /\ (arrived' # arrived => Hint(p)' /\ Hint(FALSE)')
    BY <1>1, <2>1, OutsideFacts
  <2>5. WakeKept'
    <3>1. SUFFICES ASSUME at \in {"await", "settle"}, Visible(closed)' # {}, ~excused
                   PROVE  Hint(p)'
      BY <2>2, <2>3 DEF WakeKept, Hint
    <3>2. CASE arrived' = arrived
      <4>1. Visible(closed)' = Visible(closed)
        BY <2>2, <3>2 DEF Visible
      <4>2. Hint(p)
        BY <2>3, <3>1, <4>1 DEF WInv, WakeKept, Hint
      <4> QED
        BY <2>4, <4>2
    <3> QED
      BY <2>4, <3>2
  <2>6. ASSUME at = "close", ~excused
        PROVE  Visible(Max({closed, run.to}))' = {} \/ Announced'
    <3>1. CASE arrived' = arrived
      <4>1. Visible(Max({closed, run.to}))' = Visible(Max({closed, run.to}))
        BY <2>2, <3>1 DEF Visible
      <4>2. Announced => Announced'
        BY <2>4 DEF Announced, Hint
      <4> QED
        BY <2>6, <4>1, <4>2 DEF WInv
    <3>2. CASE arrived' # arrived
      BY <2>4, <3>2 DEF Announced, Hint
    <3> QED
      BY <3>1, <3>2
  <2> QED
    BY <2>2, <2>5, <2>6 DEF WInv
<1>2. CASE at' \in {"boot", "tick", "read", "extract", "roll", "mark", "advance"}
  BY <1>2 DEF WInv, WakeKept
<1>3. CASE excused' = TRUE
  BY <1>3 DEF WInv, WakeKept
<1>4. CASE Settle
  <2>1. /\ at = "await" /\ at' = "settle" /\ UNCHANGED <<arrived, closed, link, wire, excused>>
        /\ window' = [window EXCEPT !.token = FALSE]
    BY <1>4 DEF Settle, journal
  <2>2. window'.ids = window.ids /\ window'.overflow = window.overflow
    BY <2>1 DEF TInv, WakeOK
  <2>3. Visible(closed)' = Visible(closed)
    BY <2>1 DEF Visible
  <2> QED
    BY <2>1, <2>2, <2>3 DEF WInv, WakeKept
<1>5. CASE DrainDistillWake
  <2>1. /\ at = "settle" /\ UNCHANGED <<arrived, closed, link, wire, excused>>
        /\ at' = "tick" \/ (at' = "await" /\ ~(window.overflow \/ window.ids \cap Manifests # {}))
    BY <1>5 DEF DrainDistillWake, journal
  <2>2. Visible(closed)' = Visible(closed)
    BY <2>1 DEF Visible
  <2> QED
    BY <2>1, <2>2 DEF WInv, WakeKept
<1>6. CASE SessionSkipped
  <2>1. at' = "await" /\ closed' = closed /\ arrived' = arrived /\ excused' = (Visible(closed) # {})
    BY <1>6 DEF SessionSkipped, journal
  <2>2. Visible(closed)' = Visible(closed)
    BY <2>1 DEF Visible
  <2> QED
    BY <2>1, <2>2 DEF WInv, WakeKept
<1>7. CASE Exhausted
  <2>1. /\ at' = "close" /\ UNCHANGED <<arrived, closed, run>>
    BY <1>7 DEF Exhausted, journal
  <2>2. Visible(Max({closed, run.to}))' = Visible(Max({closed, run.to}))
    BY <2>1 DEF Visible
  <2>3. ~excused' => Visible(Max({closed, run.to})) = {}
    BY <1>7, ExhaustedFacts
  <2> QED
    BY <2>1, <2>2, <2>3 DEF WInv, WakeKept
<1>8. CASE distillAdvance
  <2>1. at' = "read" \/ (at' = "close" /\ excused' = TRUE)
    BY <1>8 DEF distillAdvance
  <2> QED
    BY <1>2, <1>3, <2>1
<1>9. CASE distillClose
  <2>1. at = "close" /\ UNCHANGED <<link, wire, window>>
    BY <1>9 DEF distillClose, around
  <2>2. /\ at' = "await" /\ arrived' = arrived
        /\ (closed' = Max({closed, run.to}) /\ excused' = excused) \/ excused'
    BY <1>9, CloseFacts DEF TInv
  <2>3. CASE closed' = Max({closed, run.to}) /\ excused' = excused
    <3>1. Visible(closed)' = Visible(Max({closed, run.to}))
      BY <2>2, <2>3 DEF Visible
    <3>2. Announced' <=> Announced
      BY <2>1 DEF Announced
    <3>3. ~excused => Visible(Max({closed, run.to})) = {} \/ Announced
      BY <2>1 DEF WInv
    <3> QED
      BY <2>2, <2>3, <3>1, <3>2, <3>3 DEF WInv, WakeKept, Announced
  <2>4. CASE excused'
    BY <2>2, <2>4 DEF WInv, WakeKept
  <2> QED
    BY <2>2, <2>3, <2>4
<1>10. CASE UNCHANGED vars
  <2>1. UNCHANGED <<arrived, closed, at, run, excused, link, wire, window>>
    BY <1>10 DEF vars, journal, around
  <2>2. Visible(closed)' = Visible(closed)
        /\ Visible(Max({closed, run.to}))' = Visible(Max({closed, run.to}))
    BY <2>1 DEF Visible
  <2> QED
    BY <2>1, <2>2 DEF WInv, WakeKept, Announced
<1>11. CASE Tick /\ ~Settle /\ ~DrainDistillWake /\ ~SessionSkipped
  <2>1. at' \in {"tick", "read"} \/ excused' = TRUE
    BY <1>11 DEF Tick, distillStartupSweep, Fallback, DemandDeferred, SessionRefused, distillStartRun
  <2> QED
    BY <1>2, <1>3, <2>1
<1>12. CASE Run /\ ~Exhausted /\ ~distillAdvance /\ ~distillClose
  <2>1. at' \in {"extract", "roll", "mark", "advance"} \/ excused' = TRUE
    BY <1>12 DEF Run, ReadBatch, Call, CallFails, Brake, distillWriteBlock, ShardStays, ShardRests,
                 ShardRolls, distillMarkSeen, RunFails
  <2> QED
    BY <1>2, <1>3, <2>1
<1>13. CASE Crash
  BY <1>2, <1>13 DEF Crash
<1> QED
  BY <1>1, <1>4, <1>5, <1>6, <1>7, <1>8, <1>9, <1>10, <1>11, <1>12, <1>13
  DEF Next, Environment, Listener, Outside

(* No lost wakeup: while the arm waits, every manifest above the watermark is known
   to the window, announced on the wire or covered by the backlog signal of a
   connection still to come, unless the last tick has left it behind knowingly;
   through drops of the listener, a full window, the settle pause and arrivals
   during a run (NotifyBlockInsert, NotifyDistillBacklog, drainDistillWake,
   runDistiller). *)
THEOREM NoLostWakeup == Spec => []WakeKept
<1>1. Init => WInv
  <2>1. ASSUME Init PROVE WInv
    BY <2>1 DEF Init, WInv, WakeKept
  <2> QED
    BY <2>1
<1>2. TInv /\ WInv /\ [Next]_vars => WInv'
  BY WakesStep
<1>3. WInv => WakeKept
  BY DEF WInv
<1> QED
  BY <1>1, <1>2, <1>3, ShardsInvariant, PTL DEF Spec

-----------------------------------------------------------------------------
(* The ledger. *)

(* What is held stays held as long as nothing durable is lost and no chunk that was
   given up counts as sound again. *)
LEMMA HeldKept ==
  ASSUME Durable \subseteq Durable', NEW c, Held(c), gone'[c] = "no" => gone[c] = "no"
  PROVE  Held(c)'
  BY DEF Held

(* A step out of a batch, or beside one: the rows are among those there were. *)
LEMMA RestLedger ==
  ASSUME TInv, LInv, UNCHANGED <<arrived, seen, blocks, gone>>,
         Rows' \subseteq Rows \cup {0}, at' \notin Busy
  PROVE  LInv'
<1>1. Durable' = Durable
  BY DEF Durable
<1>2. SeenHeld'
  BY <1>1 DEF LInv, SeenHeld, Held
<1>3. RowsSeen'
  <2>1. SUFFICES ASSUME NEW i \in 1..arrived, NEW w \in Rows', Source[i].wm <= w
                 PROVE  ToSet(Source[i].chunks) \subseteq seen \cup Dropped
    BY DEF RowsSeen
  <2>2. arrived \in 0..Len(Source) /\ Len(Source) \in Nat
    BY SourceFacts DEF TInv, CorpusOK
  <2>3. i \in Manifests
    BY <2>2 DEF Manifests
  <2>4. w # 0
    BY <2>1, <2>3, SourceFacts
  <2> QED
    BY <2>1, <2>4 DEF LInv, RowsSeen
<1>4. BatchWhole' /\ BatchBought'
  BY DEF BatchWhole, BatchBought, Busy
<1> QED
  BY <1>2, <1>3, <1>4 DEF LInv

(* New manifests are above every row. *)
LEMMA AsideLedger ==
  ASSUME TInv, LInv, Aside, [Next]_vars
  PROVE  LInv'
<1>1. /\ UNCHANGED <<closed, orphans, seen, blocks, run, gone>>
      /\ at' = at \/ (at \in Waiting /\ at' \in Waiting)
  BY AsideFrame
<1>2. /\ arrived <= arrived' /\ arrived \in Nat /\ arrived' \in Nat
      /\ \A i \in (arrived + 1)..arrived' : \A w \in Reached : w < Source[i].wm
  <2>1. CorpusOK' /\ arrived <= arrived'
        /\ \A i \in (arrived + 1)..arrived' : \A w \in Reached : w < Source[i].wm
    BY CorpusStep DEF TInv
  <2> QED
    BY <2>1, SourceFacts DEF TInv, CorpusOK
<1>3. \A i \in 1..arrived' : i \in 1..arrived \/ \A w \in Reached : ~(Source[i].wm <= w)
  <2>1. SUFFICES ASSUME NEW i \in 1..arrived', i \notin 1..arrived, NEW w \in Reached
                 PROVE  ~(Source[i].wm <= w)
    OBVIOUS
  <2>2. i \in (arrived + 1)..arrived'
    BY <1>2, <2>1
  <2>3. w \in Nat /\ Source[i].wm \in Nat
    <3>1. i \in Manifests
      <4>1. CorpusOK'
        BY CorpusStep DEF TInv
      <4> QED
        BY <4>1, ReachedFacts, SourceFacts DEF CorpusOK, Manifests
    <3> QED
      BY <3>1, ReachedFacts, SourceFacts DEF TInv
  <2> QED
    BY <1>2, <2>2, <2>3
<1>4. Durable' = Durable /\ Rows' = Rows
  BY <1>1 DEF Durable, Rows
<1>5. Rows \subseteq Reached /\ run.batch.wm \in Reached
  BY DEF TInv, JournalOK, RunOK, BatchOK, Rows
<1>6. SeenHeld'
  BY <1>1, <1>4 DEF LInv, SeenHeld, Held
<1>7. RowsSeen'
  BY <1>1, <1>3, <1>4, <1>5 DEF LInv, RowsSeen
<1>8. BatchWhole'
  <2>1. CASE at' = at
    BY <1>1, <1>3, <1>5, <2>1 DEF LInv, BatchWhole
  <2>2. CASE at' \in Waiting
    BY <2>2 DEF BatchWhole, Busy, Waiting
  <2> QED
    BY <1>1, <2>1, <2>2
<1>9. BatchBought'
  <2>1. CASE at' = at
    BY <1>1, <1>4, <2>1 DEF LInv, BatchBought, Bought, Placed, Held, Marked
  <2>2. CASE at' \in Waiting
    BY <2>2 DEF BatchBought, Waiting
  <2> QED
    BY <1>1, <2>1, <2>2
<1> QED
  BY <1>6, <1>7, <1>8, <1>9 DEF LInv

(* A batch is read: it has every row up to its watermark that is not in the ledger. *)
LEMMA ReadLedger ==
  ASSUME TInv, LInv, ReadBatch
  PROVE  LInv'
<1>1. PICK b \in Batches :
         /\ run' = [run EXCEPT !.batch = b]
         /\ b.done = 0 /\ b.marks = {} /\ b.covered = 0 /\ b.wm \in Reached
         /\ Once(b.kept) /\ ToSet(b.kept) \cap (Dropped \cup seen) = {}
         /\ \A i \in 1..arrived : run.wm < Source[i].wm /\ Source[i].wm <= b.wm =>
              ToSet(Source[i].chunks) \subseteq ToSet(b.kept) \cup seen \cup Dropped
  BY ReadBatchFacts
<1>2. UNCHANGED <<arrived, closed, orphans, seen, blocks, gone>> /\ at' = "extract"
  BY DEF ReadBatch, journal
<1>3. run'.batch = b /\ run'.wm = run.wm /\ run'.to = run.to
  BY <1>1 DEF TInv, RunOK, Accumulators
<1>4. Durable' = Durable /\ Rows' = Rows
  BY <1>2, <1>3 DEF Durable, Rows
<1>5. SeenHeld' /\ RowsSeen'
  BY <1>2, <1>4 DEF LInv, SeenHeld, Held, RowsSeen
<1>6. BatchWhole'
  BY <1>1, <1>2, <1>3 DEF BatchWhole
<1>7. BatchBought'
  <2>1. Bought(run.batch)'
    BY <1>1, <1>2, <1>3 DEF Bought
  <2> QED
    BY <1>2, <2>1 DEF BatchBought
<1> QED
  BY <1>5, <1>6, <1>7 DEF LInv

(* A step inside a batch leaves the rows and the extent of the batch alone. *)
LEMMA BatchExtent ==
  ASSUME LInv, UNCHANGED <<arrived, closed, orphans, seen>>, at \in Busy,
         run'.to = run.to, run'.wm = run.wm, run'.batch.kept = run.batch.kept,
         run'.batch.wm = run.batch.wm
  PROVE  RowsSeen' /\ BatchWhole'
<1>1. Rows' = Rows
  BY DEF Rows
<1>2. RowsSeen'
  BY <1>1 DEF LInv, RowsSeen
<1>3. BatchWhole'
  BY DEF LInv, BatchWhole
<1> QED
  BY <1>2, <1>3

(* Whatever the calls of a batch bought is in the batch. *)
LEMMA CallLedger ==
  ASSUME TInv, LInv, Call
  PROVE  LInv'
<1>1. /\ UNCHANGED <<arrived, closed, orphans, seen, blocks, at>> /\ at = "extract"
      /\ Pending /\ ~MeterExhausted
      /\ gone' = [c \in Chunks |-> IF c \in ToSet(Group) THEN "no" ELSE gone[c]]
  BY DEF Call, journal
<1>2. PICK b \in Batches :
         /\ run' = [run EXCEPT !.batch = b] /\ BatchOK(b)
         /\ b.kept = run.batch.kept /\ b.wm = run.batch.wm /\ b.done = GroupEnd
         /\ ToSet(b.bought)
              = ToSet(run.batch.bought) \cup ToSet(FlattenSeq([i \in DOMAIN Group |-> Yield[Group[i]]]))
  BY CallFacts
<1>3. run'.batch = b /\ run'.wm = run.wm /\ run'.to = run.to
  BY <1>2 DEF TInv, RunOK, Accumulators
<1>4. RowsSeen' /\ BatchWhole'
  BY <1>1, <1>2, <1>3, BatchExtent DEF Busy
<1>5. PICK k \in Seq(Chunks) : k = run.batch.kept
  BY DEF TInv, RunOK, Accumulators, Batches
<1>6. PICK d \in Nat : d = run.batch.done
  BY DEF TInv, RunOK, Accumulators, Batches
<1>7. PICK e \in Nat : e = GroupEnd /\ d <= e /\ e <= Len(k)
  BY <1>1, <1>5, <1>6, GroupFacts
<1>8. /\ \A x : x \in ToSet(Group) <=> \E i \in (d + 1)..e : x = k[i]
      /\ \A c \in ToSet(Group) : ToSet(Yield[c]) \subseteq ToSet(b.bought)
  BY <1>1, <1>2, <1>5, <1>6, <1>7, GroupFacts
<1>9. Once(k) /\ ToSet(k) \cap seen = {} /\ DOMAIN k = 1..Len(k) /\ Len(k) \in Nat
  BY <1>1, <1>5, LenProperties DEF LInv, BatchBought, Bought
<1>10. \A i \in 1..e : k[i] \in Chunks /\ i \in DOMAIN k
  BY <1>7, <1>9
<1>11. ToSet(Group) \subseteq ToSet(k)
  <2>1. \A i \in (d + 1)..e : i \in DOMAIN k
    BY <1>7, <1>9
  <2> QED
    BY <1>8, <2>1 DEF ToSet
<1>12. SeenHeld'
  <2>1. SUFFICES ASSUME NEW c \in seen PROVE Held(c)'
    BY <1>1 DEF SeenHeld
  <2>2. c \in Chunks /\ c \notin ToSet(Group) /\ Held(c)
    BY <1>9, <1>11 DEF TInv, LedgerOK, LInv, SeenHeld
  <2>3. gone'[c] = gone[c]
    BY <1>1, <2>2
  <2>4. Durable' = Durable
    BY <1>1 DEF Durable
  <2> QED
    BY <2>2, <2>3, <2>4 DEF Held
<1>13. ASSUME NEW i \in 1..e, gone'[k[i]] = "no" PROVE ToSet(Yield[k[i]]) \subseteq ToSet(b.bought)
  <2>1. CASE i \in (d + 1)..e
    BY <1>8, <2>1
  <2>2. CASE i \notin (d + 1)..e
    <3>1. i \in 1..d
      BY <1>7, <2>2
    <3>2. k[i] \notin ToSet(Group)
      <4>1. SUFFICES ASSUME NEW j \in (d + 1)..e, k[i] = k[j] PROVE FALSE
        BY <1>8
      <4>2. i # j /\ j \in 1..e
        BY <1>7, <3>1
      <4> QED
        BY <1>9, <1>10, <4>1, <4>2 DEF Once
    <3>3. gone[k[i]] = "no"
      BY <1>1, <1>10, <1>13, <3>2
    <3>4. ToSet(Yield[k[i]]) \subseteq ToSet(run.batch.bought)
      BY <1>1, <1>5, <1>6, <3>1, <3>3 DEF LInv, BatchBought, Bought
    <3> QED
      BY <1>2, <3>4
  <2> QED
    BY <2>1, <2>2
<1>14. Bought(run.batch)'
  BY <1>1, <1>2, <1>3, <1>5, <1>7, <1>9, <1>13 DEF Bought
<1>15. BatchBought'
  BY <1>1, <1>14 DEF BatchBought
<1> QED
  BY <1>4, <1>12, <1>15 DEF LInv

(* A failed call gives its group up, in the history too. *)
LEMMA CallFailsLedger ==
  ASSUME TInv, LInv, CallFails
  PROVE  LInv'
<1>1. /\ UNCHANGED <<arrived, closed, orphans, seen, blocks, at>> /\ at = "extract"
      /\ Pending /\ ~MeterExhausted
  BY DEF CallFails, journal
<1>2. PICK b \in Batches :
         /\ run' = [run EXCEPT !.batch = b] /\ BatchOK(b)
         /\ b.kept = run.batch.kept /\ b.wm = run.batch.wm /\ b.bought = run.batch.bought
         /\ \/ /\ b.done = GroupEnd
               /\ gone' = [c \in Chunks |-> IF c \in ToSet(Group) THEN "call" ELSE gone[c]]
            \/ b.done = run.batch.done /\ gone' = gone
  BY CallFailsFacts
<1>3. run'.batch = b /\ run'.wm = run.wm /\ run'.to = run.to
  BY <1>2 DEF TInv, RunOK, Accumulators
<1>4. RowsSeen' /\ BatchWhole'
  BY <1>1, <1>2, <1>3, BatchExtent DEF Busy
<1>5. \A c \in Chunks : gone'[c] = "no" => gone[c] = "no"
  BY <1>2
<1>6. SeenHeld'
  <2>1. SUFFICES ASSUME NEW c \in seen PROVE Held(c)'
    BY <1>1 DEF SeenHeld
  <2>2. c \in Chunks /\ Held(c)
    BY DEF TInv, LedgerOK, LInv, SeenHeld
  <2>3. Durable \subseteq Durable'
    BY <1>1 DEF Durable
  <2> QED
    BY <1>5, <2>2, <2>3, HeldKept
<1>7. PICK k \in Seq(Chunks) : k = run.batch.kept
  BY DEF TInv, RunOK, Accumulators, Batches
<1>8. PICK d \in Nat : d = run.batch.done
  BY DEF TInv, RunOK, Accumulators, Batches
<1>9. Bought(run.batch)
  BY <1>1 DEF LInv, BatchBought
<1>10. ASSUME NEW i \in 1..b.done, gone'[k[i]] = "no"
       PROVE  ToSet(Yield[k[i]]) \subseteq ToSet(b.bought)
  <2>1. i \in 1..d /\ k[i] \in Chunks
    <3>1. CASE b.done = d
      <4>1. d <= Len(k) /\ Len(k) \in Nat
        BY <1>7, <1>8, LenProperties DEF TInv, RunOK, BatchOK
      <4> QED
        BY <3>1, <4>1
    <3>2. CASE /\ b.done = GroupEnd
               /\ gone' = [c \in Chunks |-> IF c \in ToSet(Group) THEN "call" ELSE gone[c]]
      <4>1. PICK e \in Nat : e = GroupEnd /\ d <= e /\ e <= Len(k)
        BY <1>1, <1>7, <1>8, GroupFacts
      <4>2. \A x : x \in ToSet(Group) <=> \E j \in (d + 1)..e : x = k[j]
        BY <1>1, <1>7, <1>8, <4>1, GroupFacts
      <4>3. i \in 1..e /\ Len(k) \in Nat
        BY <3>2, <4>1, LenProperties
      <4>4. k[i] \in Chunks
        BY <4>1, <4>3
      <4>5. k[i] \notin ToSet(Group)
        BY <1>10, <3>2, <4>4
      <4>6. i \notin (d + 1)..e
        BY <4>2, <4>5
      <4>7. i \in 1..d
        BY <4>1, <4>3, <4>6
      <4> QED
        BY <4>4, <4>7
    <3> QED
      BY <1>2, <1>8, <3>1, <3>2
  <2>2. gone[k[i]] = "no"
    BY <1>5, <1>10, <2>1
  <2> QED
    BY <1>2, <1>7, <1>8, <1>9, <2>1, <2>2 DEF Bought
<1>11. Bought(run.batch)'
  BY <1>1, <1>2, <1>3, <1>7, <1>9, <1>10 DEF Bought
<1>12. BatchBought'
  BY <1>1, <1>11 DEF BatchBought
<1> QED
  BY <1>4, <1>6, <1>12 DEF LInv

(* A brake changes nothing the ledger depends on. *)
LEMMA BrakeLedger ==
  ASSUME TInv, LInv, Brake
  PROVE  LInv'
<1>1. UNCHANGED <<arrived, closed, orphans, seen, blocks, at, gone>> /\ at = "extract"
  BY DEF Brake, journal
<1>2. PICK b \in Batches :
         /\ run' = [run EXCEPT !.batch = b]
         /\ b.kept = run.batch.kept /\ b.wm = run.batch.wm /\ b.bought = run.batch.bought
         /\ b.done = run.batch.done
  BY BrakeFacts
<1>3. run'.batch = b /\ run'.wm = run.wm /\ run'.to = run.to
  BY <1>2 DEF TInv, RunOK, Accumulators
<1>4. RowsSeen' /\ BatchWhole'
  BY <1>1, <1>2, <1>3, BatchExtent DEF Busy
<1>5. Durable' = Durable
  BY <1>1 DEF Durable
<1>6. SeenHeld'
  BY <1>1, <1>5 DEF LInv, SeenHeld, Held
<1>7. BatchBought'
  BY <1>1, <1>2, <1>3 DEF LInv, BatchBought, Bought
<1> QED
  BY <1>4, <1>6, <1>7 DEF LInv

(* The write: what was bought is durable or overflows. *)
LEMMA WriteLedger ==
  ASSUME TInv, SInv, LInv, distillWriteBlock
  PROVE  LInv'
<1>1. UNCHANGED <<arrived, closed, orphans, seen, gone>> /\ at = "extract" /\ at' = "roll"
  BY DEF distillWriteBlock, journal
<1>2. /\ run'.to = run.to /\ run'.wm = run.wm /\ run'.batch = AddBatch(run).batch
      /\ Durable \subseteq Durable'
      /\ ToSet(run.batch.bought) \subseteq Durable' \cup ToSet(run'.overflow)
  BY WriteFacts
<1>3. /\ run'.batch.kept = run.batch.kept /\ run'.batch.done = run.batch.done
      /\ run'.batch.wm = run.batch.wm
      /\ run'.batch.marks = Marked(run.batch.done)
      /\ run'.batch.covered = IF run.batch.done < Len(run.batch.kept) THEN 0 ELSE run.batch.wm
  <2>1. run \in Accumulators /\ run.batch.done <= Len(run.batch.kept)
    BY DEF TInv, RunOK, BatchOK
  <2>2. PICK b : b = AddBatch(run).batch
    OBVIOUS
  <2>3. /\ \A f \in {"kept", "done", "wm", "stop", "complete", "rolled"} : b[f] = run.batch[f]
        /\ b.marks = ToSet(SubSeq(run.batch.kept, 1, run.batch.done))
        /\ b.covered = IF run.batch.done < Len(run.batch.kept) THEN 0 ELSE run.batch.wm
    BY <2>1, <2>2, AddBatchFacts
  <2>4. b.kept = run.batch.kept /\ b.done = run.batch.done /\ b.wm = run.batch.wm
    BY <2>3
  <2>5. run'.batch = b
    BY <1>2, <2>2
  <2> QED
    BY <2>3, <2>4, <2>5, Zenon DEF Marked
<1>4. RowsSeen' /\ BatchWhole'
  BY <1>1, <1>2, <1>3, BatchExtent DEF Busy
<1>5. SeenHeld'
  BY <1>1, <1>2, HeldKept DEF LInv, SeenHeld
<1>6. Placed(run.batch)'
  <2>1. Marked(run.batch.done)' = Marked(run.batch.done)
    BY <1>3 DEF Marked
  <2>2. ASSUME NEW c \in Marked(run.batch.done), gone[c] = "no"
        PROVE  ToSet(Yield[c]) \subseteq ToSet(run.batch.bought)
    <3>1. PICK i \in 1..run.batch.done : c = run.batch.kept[i]
      BY <2>2, MarkedFacts
    <3> QED
      BY <1>1, <2>2, <3>1 DEF LInv, BatchBought, Bought
  <2>3. \A c \in Marked(run.batch.done) : gone'[c] = "no" =>
          ToSet(Yield[c]) \subseteq Durable' \cup ToSet(run'.overflow)
    BY <1>1, <1>2, <2>2
  <2> QED
    BY <1>3, <2>1, <2>3 DEF Placed
<1>7. run'.batch.covered # 0 => ToSet(run'.batch.kept) \subseteq run'.batch.marks
  <2>1. SUFFICES ASSUME ~(run.batch.done < Len(run.batch.kept))
                 PROVE  ToSet(run.batch.kept) \subseteq Marked(run.batch.done)
    BY <1>3
  <2>2. run.batch.done \in Nat /\ run.batch.done <= Len(run.batch.kept) /\ Len(run.batch.kept) \in Nat
    BY LenProperties DEF TInv, RunOK, BatchOK, Accumulators, Batches
  <2>3. run.batch.done = Len(run.batch.kept)
    BY <2>1, <2>2
  <2> QED
    BY <2>3, MarkedFacts
<1>8. BatchBought'
  BY <1>1, <1>6, <1>7 DEF BatchBought
<1> QED
  BY <1>4, <1>5, <1>8 DEF LInv

(* A shard that stays although it overflows gives the overflowing chunks up. *)
LEMMA StaysLedger ==
  ASSUME TInv, LInv, ShardStays
  PROVE  LInv'
<1>1. /\ UNCHANGED <<arrived, closed, orphans, seen, blocks, run>> /\ at = "roll" /\ at' = "mark"
      /\ gone' = [c \in Chunks |->
                  IF c \in run.batch.marks /\ ToSet(Yield[c]) \cap ToSet(run.overflow) # {}
                  THEN "brake" ELSE gone[c]]
  BY DEF ShardStays, journal
<1>2. Durable' = Durable
  BY <1>1 DEF Durable
<1>3. RowsSeen' /\ BatchWhole'
  BY <1>1, BatchExtent DEF Busy
<1>4. SeenHeld'
  <2>1. SUFFICES ASSUME NEW c \in seen PROVE Held(c)'
    BY <1>1 DEF SeenHeld
  <2>2. c \in Chunks /\ Held(c)
    BY DEF TInv, LedgerOK, LInv, SeenHeld
  <2>3. gone'[c] = "no" => gone[c] = "no"
    BY <1>1, <2>2
  <2> QED
    BY <1>2, <2>2, <2>3, HeldKept
<1>5. ASSUME NEW c \in run.batch.marks PROVE Held(c)'
  <2>1. c \in Chunks
    BY DEF TInv, RunOK, Accumulators, Batches
  <2>2. gone[c] = "no" => ToSet(Yield[c]) \subseteq Durable \cup ToSet(run.overflow)
    BY <1>1 DEF LInv, BatchBought, Placed
  <2>3. gone'[c] = "no" => gone[c] = "no" /\ ToSet(Yield[c]) \cap ToSet(run.overflow) = {}
    BY <1>1, <2>1
  <2>4. gone'[c] = "no" => ToSet(Yield[c]) \subseteq Durable'
    BY <1>2, <2>2, <2>3
  <2> QED
    BY <2>4 DEF Held
<1>6. BatchBought'
  BY <1>1, <1>5 DEF LInv, BatchBought
<1> QED
  BY <1>3, <1>4, <1>6 DEF LInv

(* A shard that rests: what stays marked has nothing in the overflow. *)
LEMMA RestsLedger ==
  ASSUME TInv, LInv, ShardRests
  PROVE  LInv'
<1>1. /\ UNCHANGED <<arrived, closed, orphans, seen, blocks, gone>> /\ at = "roll" /\ at' = "mark"
      /\ run' = HeldBack(run) /\ run \in Accumulators
  BY DEF ShardRests, journal, TInv, RunOK
<1>2. PICK h : h = HeldBack(run)
  OBVIOUS
<1>3. /\ h.to = run.to /\ h.wm = run.wm
      /\ h.batch.kept = run.batch.kept /\ h.batch.wm = run.batch.wm
      /\ run.overflow = <<>> => h.batch.marks = run.batch.marks /\ h.batch.covered = run.batch.covered
      /\ run.overflow # <<>> =>
           /\ h.batch.covered = 0 /\ h.batch.marks \subseteq Marked(run.batch.done)
           /\ \A c \in h.batch.marks : ToSet(Yield[c]) \cap ToSet(run.overflow) = {}
  BY <1>1, <1>2, HoldFacts
<1>4. Durable' = Durable
  BY <1>1 DEF Durable
<1>5. RowsSeen' /\ BatchWhole'
  BY <1>1, <1>2, <1>3, BatchExtent DEF Busy
<1>6. SeenHeld'
  BY <1>1, <1>4 DEF LInv, SeenHeld, Held
<1>7. Placed(run.batch)
  BY <1>1 DEF LInv, BatchBought
<1>8. ASSUME NEW c \in h.batch.marks PROVE Held(c)'
  <2>1. c \in run.batch.marks /\ ToSet(Yield[c]) \cap ToSet(run.overflow) = {}
    <3>1. ToSet(<<>>) = {}
      BY DEF ToSet
    <3> QED
      BY <1>3, <1>7, <3>1 DEF Placed
  <2>2. gone[c] = "no" => ToSet(Yield[c]) \subseteq Durable
    BY <1>7, <2>1 DEF Placed
  <2> QED
    BY <1>1, <1>4, <2>2 DEF Held
<1>9. h.batch.covered # 0 => ToSet(h.batch.kept) \subseteq h.batch.marks
  BY <1>1, <1>3 DEF LInv, BatchBought
<1>10. BatchBought'
  BY <1>1, <1>2, <1>8, <1>9 DEF BatchBought
<1> QED
  BY <1>5, <1>6, <1>10 DEF LInv

(* A rollover: what overflowed is durable, or the marks are cut in front of it. *)
LEMMA RollsLedger ==
  ASSUME TInv, SInv, LInv, ShardRolls
  PROVE  LInv'
<1>1. UNCHANGED <<arrived, closed, orphans, seen, gone>> /\ at = "roll" /\ at' = "mark"
  BY DEF ShardRolls, journal
<1>2. PICK r \in Accumulators :
         /\ run' = IF r.overflow # <<>> THEN HeldBack(r) ELSE [r EXCEPT !.batch.rolled = TRUE]
         /\ r.to = run.to /\ r.wm = run.wm /\ r.batch = run.batch
         /\ Durable \subseteq Durable'
         /\ ToSet(run.overflow) \subseteq Durable' \cup ToSet(r.overflow)
  BY RollFacts
<1>3. /\ run'.to = run.to /\ run'.wm = run.wm
      /\ run'.batch.kept = run.batch.kept /\ run'.batch.wm = run.batch.wm
      /\ r.overflow = <<>> => /\ run'.batch.marks = run.batch.marks
                              /\ run'.batch.covered = run.batch.covered
      /\ r.overflow # <<>> =>
           /\ run'.batch.covered = 0 /\ run'.batch.marks \subseteq Marked(run.batch.done)
           /\ \A c \in run'.batch.marks : ToSet(Yield[c]) \cap ToSet(r.overflow) = {}
  BY <1>2, RolledFacts
<1>4. RowsSeen' /\ BatchWhole'
  BY <1>1, <1>3, BatchExtent DEF Busy
<1>5. SeenHeld'
  BY <1>1, <1>2, HeldKept DEF LInv, SeenHeld
<1>6. Placed(run.batch)
  BY <1>1 DEF LInv, BatchBought
<1>7. ASSUME NEW c \in run'.batch.marks PROVE Held(c)'
  <2>1. c \in run.batch.marks /\ ToSet(Yield[c]) \cap ToSet(r.overflow) = {}
    <3>1. ToSet(<<>>) = {}
      BY DEF ToSet
    <3> QED
      BY <1>3, <1>6, <3>1 DEF Placed
  <2>2. gone[c] = "no" => ToSet(Yield[c]) \subseteq Durable \cup ToSet(run.overflow)
    BY <1>6, <2>1 DEF Placed
  <2>3. gone[c] = "no" => ToSet(Yield[c]) \subseteq Durable'
    BY <1>2, <2>1, <2>2
  <2> QED
    BY <1>1, <2>3 DEF Held
<1>8. run'.batch.covered # 0 => ToSet(run'.batch.kept) \subseteq run'.batch.marks
  BY <1>1, <1>3 DEF LInv, BatchBought
<1>9. BatchBought'
  BY <1>1, <1>7, <1>8 DEF BatchBought
<1> QED
  BY <1>4, <1>5, <1>9 DEF LInv

(* The ledger takes what is held. *)
LEMMA MarkLedger ==
  ASSUME TInv, LInv, distillMarkSeen
  PROVE  LInv'
<1>1. /\ UNCHANGED <<arrived, closed, orphans, blocks, run, gone>> /\ at = "mark" /\ at' = "advance"
      /\ seen' = seen \cup run.batch.marks
  BY DEF distillMarkSeen, journal
<1>2. Durable' = Durable /\ Rows' = Rows
  BY <1>1 DEF Durable, Rows
<1>3. \A c \in run.batch.marks : Held(c)
  BY <1>1 DEF LInv, BatchBought
<1>4. SeenHeld'
  BY <1>1, <1>2, <1>3 DEF LInv, SeenHeld, Held
<1>5. RowsSeen'
  BY <1>1, <1>2 DEF LInv, RowsSeen
<1>6. BatchWhole'
  BY <1>1 DEF LInv, BatchWhole, Busy
<1>7. BatchBought'
  BY <1>1 DEF LInv, BatchBought
<1> QED
  BY <1>4, <1>5, <1>6, <1>7 DEF LInv

(* The watermark advances over a batch whose chunks are all in the ledger. *)
LEMMA AdvanceLedger ==
  ASSUME TInv, LInv, distillAdvance
  PROVE  LInv'
<1>1. /\ UNCHANGED <<arrived, closed, orphans, seen, blocks, gone>> /\ at = "advance"
      /\ at' \in {"read", "close"}
  BY DEF distillAdvance, journal
<1>2. run'.to \in {run.to, run.batch.covered}
  BY AdvanceFacts
<1>3. Durable' = Durable /\ Rows' = {closed, run'.to} \cup orphans
  BY <1>1 DEF Durable, Rows
<1>4. SeenHeld'
  BY <1>1, <1>3 DEF LInv, SeenHeld, Held
<1>5. ASSUME NEW i \in 1..arrived, Source[i].wm <= run.batch.covered
      PROVE  ToSet(Source[i].chunks) \subseteq seen \cup Dropped
  <2>1. i \in Manifests /\ Source[i].wm \in Nat /\ Source[i].wm # 0
    BY ReachedFacts, SourceFacts DEF TInv
  <2>2. run.wm \in Nat /\ run.wm = run.to /\ run.batch.covered \in {0, run.batch.wm}
        /\ run.batch.covered \in Nat
    BY ReachedFacts DEF TInv, JournalOK, RunOK, BatchOK, Accumulators, Batches
  <2>3. run.batch.covered # 0 /\ run.batch.covered = run.batch.wm
    BY <1>5, <2>1, <2>2
  <2>4. CASE Source[i].wm <= run.wm
    BY <2>2, <2>4 DEF LInv, RowsSeen, Rows
  <2>5. CASE ~(Source[i].wm <= run.wm)
    <3>1. run.wm < Source[i].wm /\ Source[i].wm <= run.batch.wm
      BY <1>5, <2>1, <2>2, <2>3, <2>5
    <3>2. ToSet(Source[i].chunks) \subseteq ToSet(run.batch.kept) \cup seen \cup Dropped
      BY <1>1, <3>1 DEF LInv, BatchWhole, Busy
    <3>3. ToSet(run.batch.kept) \subseteq run.batch.marks /\ run.batch.marks \subseteq seen
      BY <1>1, <2>3 DEF LInv, BatchBought
    <3> QED
      BY <3>2, <3>3
  <2> QED
    BY <2>4, <2>5
<1>6. RowsSeen'
  <2>1. SUFFICES ASSUME NEW i \in 1..arrived, NEW w \in {closed, run'.to} \cup orphans,
                        Source[i].wm <= w
                 PROVE  ToSet(Source[i].chunks) \subseteq seen \cup Dropped
    BY <1>1, <1>3 DEF RowsSeen
  <2>2. CASE w = run.batch.covered
    BY <1>5, <2>1, <2>2
  <2>3. CASE w # run.batch.covered
    <3>1. w \in Rows
      BY <1>2, <2>1, <2>3 DEF Rows
    <3> QED
      BY <2>1, <3>1 DEF LInv, RowsSeen
  <2> QED
    BY <2>2, <2>3
<1>7. BatchWhole' /\ BatchBought'
  BY <1>1 DEF BatchWhole, BatchBought, Busy
<1> QED
  BY <1>4, <1>6, <1>7 DEF LInv

(* Every step keeps the ledger. *)
LEMMA LedgerStep ==
  ASSUME TInv, SInv, LInv, [Next]_vars
  PROVE  LInv'
<1>1. CASE UNCHANGED vars
  <2>1. UNCHANGED <<arrived, closed, orphans, seen, blocks, at, run, gone>>
    BY <1>1 DEF vars, journal
  <2>2. Durable' = Durable /\ Rows' = Rows
    BY <2>1 DEF Durable, Rows
  <2>3. SeenHeld' /\ RowsSeen' /\ BatchWhole'
    BY <2>1, <2>2 DEF LInv, SeenHeld, Held, RowsSeen, BatchWhole
  <2>4. BatchBought'
    BY <2>1, <2>2 DEF LInv, BatchBought, Bought, Placed, Held, Marked
  <2> QED
    BY <2>3, <2>4 DEF LInv
<1>2. CASE Aside
  BY <1>2, AsideLedger
<1>3. CASE distillStartupSweep
  <2>1. /\ UNCHANGED <<arrived, seen, blocks, run, gone>> /\ at' = "tick"
        /\ closed' \in {closed} \cup orphans /\ orphans' \subseteq orphans
    BY <1>3, SweepFacts
  <2>2. Rows' \subseteq Rows \cup {0}
    BY <2>1 DEF Rows
  <2> QED
    BY <2>1, <2>2, RestLedger DEF Busy
<1>4. CASE distillStartRun
  <2>1. /\ UNCHANGED <<arrived, closed, orphans, seen, blocks, gone>> /\ at' = "read"
        /\ run' = distillSeedBlock(closed) /\ ~Capped(closed)
    BY <1>4 DEF distillStartRun, journal
  <2>2. closed \in Watermarks /\ LedgerOK /\ maxShards \in Caps \cup {0}
    BY ReachedFacts DEF TInv, JournalOK, ArmOK
  <2>3. Sound(blocks[closed])
    BY <2>2 DEF SInv
  <2>4. distillSeedBlock(closed).to = closed
    BY <2>1, <2>2, <2>3, SeedFacts
  <2>5. Rows' \subseteq Rows \cup {0}
    BY <2>1, <2>4 DEF Rows
  <2> QED
    BY <2>1, <2>5, RestLedger DEF Busy
<1>5. CASE ReadBatch
  BY <1>5, ReadLedger
<1>6. CASE Call
  BY <1>6, CallLedger
<1>7. CASE CallFails
  BY <1>7, CallFailsLedger
<1>8. CASE Brake
  BY <1>8, BrakeLedger
<1>9. CASE distillWriteBlock
  BY <1>9, WriteLedger
<1>10. CASE ShardStays
  BY <1>10, StaysLedger
<1>11. CASE ShardRests
  BY <1>11, RestsLedger
<1>12. CASE ShardRolls
  BY <1>12, RollsLedger
<1>13. CASE distillMarkSeen
  BY <1>13, MarkLedger
<1>14. CASE distillAdvance
  BY <1>14, AdvanceLedger
<1>15. CASE RunFails \/ Exhausted
  <2>1. UNCHANGED <<arrived, closed, orphans, seen, blocks, gone, run>> /\ at' = "close"
    BY <1>15 DEF RunFails, Exhausted, journal
  <2>2. Rows' \subseteq Rows \cup {0}
    BY <2>1 DEF Rows
  <2> QED
    BY <2>1, <2>2, RestLedger DEF Busy
<1>16. NoRun.to = 0
  BY DEF NoRun
<1>17. CASE distillClose
  <2>1. /\ UNCHANGED <<arrived, seen, blocks, gone>> /\ run' = NoRun /\ at' = "await"
        /\ closed' \in {closed, run.to} /\ orphans' \subseteq orphans \cup {run.to}
    BY <1>17, CloseFacts
  <2>2. Rows' \subseteq Rows \cup {0}
    BY <1>16, <2>1 DEF Rows
  <2> QED
    BY <2>1, <2>2, RestLedger DEF Busy
<1>18. CASE Crash
  <2>1. /\ UNCHANGED <<arrived, seen, blocks, gone>> /\ run' = NoRun /\ at' = "boot"
        /\ closed' = closed /\ orphans' \subseteq orphans \cup {run.to}
    BY <1>18 DEF Crash
  <2>2. Rows' \subseteq Rows \cup {0}
    BY <1>16, <2>1 DEF Rows
  <2> QED
    BY <2>1, <2>2, RestLedger DEF Busy
<1> QED
  BY <1>1, <1>2, <1>3, <1>4, <1>5, <1>6, <1>7, <1>8, <1>9, <1>10, <1>11, <1>12, <1>13, <1>14,
     <1>15, <1>17, <1>18, NextCases

(* What the ledger or a row covers is in the ledger, and so is held. *)
LEMMA LossesFollow ==
  ASSUME TInv, LInv
  PROVE  NothingLost
<1>1. SUFFICES ASSUME NEW c \in Covered \ Dropped, gone[c] = "no"
               PROVE  ToSet(Yield[c]) \subseteq Durable
  BY DEF NothingLost
<1>2. Max(Rows) \in Rows
  <2>1. PICK b \in Nat : Reached \subseteq 0..b
    BY ReachedFacts DEF TInv
  <2>2. PICK R : R = Rows
    OBVIOUS
  <2>3. R \in SUBSET (0..b) /\ R # {}
    BY <2>1, <2>2 DEF TInv, JournalOK, Rows
  <2> QED
    BY <2>2, <2>3, MaxIs
<1>3. c \in seen
  <2>1. CASE c \notin seen
    <3>1. PICK i \in 1..arrived : Source[i].wm <= Max(Rows) /\ c \in ToSet(Source[i].chunks)
      BY <1>1, <2>1 DEF Covered
    <3> QED
      BY <1>1, <1>2, <3>1 DEF LInv, RowsSeen
  <2> QED
    BY <2>1
<1> QED
  BY <1>1, <1>3 DEF LInv, SeenHeld, Held

(* No silent loss: a chunk the ledger or a row of the journal covers has its claims
   in a durable block, unless its call failed or another brake ended the tick while
   they overflowed; the order of write, ledger and watermark (distillBatch), the
   cut of the marks (distillHeldFrom) and the reader's whole watermark groups, with
   a crash or a failure between any two of them. *)
THEOREM NoSilentLoss == Spec => []NothingLost
<1>1. Init => LInv
  <2>1. ASSUME Init PROVE LInv
    BY <2>1 DEF Init, LInv, SeenHeld, RowsSeen, BatchWhole, BatchBought, Busy
  <2> QED
    BY <2>1
<1>2. TInv /\ SInv /\ LInv /\ [Next]_vars => LInv'
  BY LedgerStep
<1>3. TInv /\ LInv => NothingLost
  BY LossesFollow
<1> QED
  BY <1>1, <1>2, <1>3, ShardsInvariant, PTL DEF Spec
=============================================================================
