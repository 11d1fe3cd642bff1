-------------------------- MODULE Shrinker_proofs ---------------------------
(***************************************************************************)
(* Proofs about the shrink loop, for every strategy and every test: what   *)
(* it returns belongs together, the origins it meets on the way are kept   *)
(* with examples that have them, where it ends by itself nothing it tries  *)
(* is left, and it implements the descent to simpler failing examples.     *)
(*                                                                         *)
(* Replaying a sequence of choices is a function, Canon, whose value is    *)
(* chosen: the first lemmas show that there is exactly one, by taking the  *)
(* shortest sequence or the first position for which there would not be.   *)
(***************************************************************************)
EXTENDS Shrinker, TLAPS, NaturalsInduction, WellFoundedInduction, SequenceTheorems

Choice == Kinds \X Nat
Node == [kind : Kinds, max : Nat, forced : Nat \cup {NoForce}]

-----------------------------------------------------------------------------
(* Least elements                                                          *)

(* A property of some natural number has a least one.                      *)
LEMMA LeastNat ==
  ASSUME NEW S \in SUBSET Nat, S # {}
  PROVE  \E n \in S : \A m \in S : n <= m
<1>1. PICK n \in S : \A m \in S : ~ (<<m, n>> \in OpToRel(<, Nat))
  BY WFMin, NatLessThanWellFounded
<1>2. \A m \in S : ~(m < n)
  BY <1>1 DEF OpToRel
<1>3. n \in Nat /\ \A m \in S : m \in Nat
  OBVIOUS
<1> QED
  BY <1>2, <1>3

(* The minimum of some numbers is one of them.                             *)
LEMMA MinFacts ==
  ASSUME NEW S \in SUBSET Nat, S # {}
  PROVE  Min(S) \in S /\ \A m \in S : Min(S) <= m
BY LeastNat DEF Min

(* So is the maximum of some positions of a sequence.                      *)
LEMMA MaxFacts ==
  ASSUME NEW n \in Nat, NEW S \in SUBSET (1 .. n), S # {}
  PROVE  Max(S) \in S /\ \A m \in S : m <= Max(S)
<1> DEFINE D == {n - m : m \in S}
<1>1. D \in SUBSET Nat /\ D # {}
  <2>1. \A m \in S : n - m \in Nat
    OBVIOUS
  <2> QED
    BY <2>1
<1>2. PICK d \in D : \A c \in D : d <= c
  BY <1>1, LeastNat
<1>3. PICK x \in S : d = n - x
  OBVIOUS
<1>4. \A m \in S : x >= m
  BY <1>2, <1>3
<1> QED
  BY <1>3, <1>4 DEF Max

-----------------------------------------------------------------------------
(* What a strategy draws                                                   *)

(* A strategy draws the prefixes of its examples, and the examples are     *)
(* where it stops.                                                         *)
LEMMA DrawableFacts ==
  ASSUME NEW s \in Strategies, NEW p \in Drawable[s]
  PROVE  /\ p \in Seq(Choice)
         /\ NodeAt(s, p) = End => p \in Examples(s)
         /\ NodeAt(s, p) # End => /\ p \notin Examples(s)
                                  /\ NodeAt(s, p) \in Node
                                  /\ \A v \in Draws(NodeAt(s, p)) : Append(p, v) \in Drawable[s]
<1>1. PICK e \in Examples(s) : \E n \in 0 .. Len(e) : p = SubSeq(e, 1, n)
  BY DEF Drawable, Prefixes
<1>2. PICK n \in 0 .. Len(e) : p = SubSeq(e, 1, n)
  BY <1>1
<1>3. e \in Seq(Choice)
  BY StrategiesAssumption DEF Choice
<1>4. p \in Seq(Choice)
  BY <1>2, <1>3
<1>5. CASE n = Len(e)
  <2>1. p = e
    BY <1>2, <1>3, <1>5
  <2>2. NodeAt(s, p) = End
    BY <2>1, StrategiesAssumption
  <2> QED
    BY <1>4, <2>1, <2>2
<1>6. CASE n < Len(e)
  <2>1. n + 1 \in DOMAIN e /\ (n + 1) - 1 = n
    BY <1>3, <1>6
  <2>2. /\ NodeAt(s, p) # End
        /\ NodeAt(s, p) \in Node
        /\ \A v \in Draws(NodeAt(s, p)) : Append(p, v) \in Drawable[s]
    BY <1>2, <2>1, StrategiesAssumption DEF Node
  <2>3. p \notin Examples(s)
    BY <2>2, StrategiesAssumption
  <2> QED
    BY <1>4, <2>2, <2>3
<1> QED
  BY <1>3, <1>5, <1>6

(* The prefixes of an example are drawn, and draw on.                      *)
LEMMA ExampleFacts ==
  ASSUME NEW s \in Strategies, NEW e \in Examples(s)
  PROVE  /\ e \in Seq(Choice) /\ e \in Drawable[s] /\ NodeAt(s, e) = End
         /\ \A n \in 0 .. Len(e) : SubSeq(e, 1, n) \in Drawable[s]
         /\ \A i \in DOMAIN e :
              LET node == NodeAt(s, SubSeq(e, 1, i - 1))
              IN  /\ node # End /\ node \in Node
                  /\ e[i] \in Draws(node) /\ e[i] = Drawn(e[i], node)
<1>1. e \in Seq(Choice) /\ NodeAt(s, e) = End
  BY StrategiesAssumption DEF Choice
<1>2. \A n \in 0 .. Len(e) : SubSeq(e, 1, n) \in Drawable[s]
  BY DEF Drawable, Prefixes
<1>3. e \in Drawable[s]
  <2>1. SubSeq(e, 1, Len(e)) = e /\ Len(e) \in 0 .. Len(e)
    BY <1>1
  <2> QED
    BY <1>2, <2>1
<1>4. ASSUME NEW i \in DOMAIN e
      PROVE  LET node == NodeAt(s, SubSeq(e, 1, i - 1))
             IN  /\ node # End /\ node \in Node
                 /\ e[i] \in Draws(node) /\ e[i] = Drawn(e[i], node)
  <2> DEFINE node == NodeAt(s, SubSeq(e, 1, i - 1))
  <2>1. node # End /\ node \in Node /\ e[i] \in Draws(node)
    BY StrategiesAssumption DEF Node
  <2>2. e[i] = Drawn(e[i], node)
    <3> HIDE DEF node
    <3> QED
      BY <2>1 DEF Draws, Drawn, Permitted, Node
  <2> QED
    BY <2>1, <2>2
<1> QED
  BY <1>1, <1>2, <1>3, <1>4

(* A draw makes a choice that its node can make.                           *)
LEMMA DrawnFacts ==
  ASSUME NEW node \in Node, NEW v \in Choice
  PROVE  Drawn(v, node) \in Draws(node)
BY DEF Drawn, Draws, Permitted, Node, Choice

-----------------------------------------------------------------------------
(* Replaying                                                               *)

\* c is what s makes of the first n choices of raw.
Replays(s, raw, n, c) ==
  /\ Len(c) = n \/ (Len(c) < n /\ NodeAt(s, c) = End)
  /\ \A i \in DOMAIN c : c[i] = Drawn(raw[i], NodeAt(s, SubSeq(c, 1, i - 1)))

(* Every sequence of choices can be replayed.                              *)
LEMMA ReplayExists ==
  ASSUME NEW s \in Strategies, Examples(s) # {}, NEW raw \in Seq(Choice),
         NEW n \in 0 .. Len(raw)
  PROVE  \E c \in Drawable[s] : Replays(s, raw, n, c)
<1> DEFINE Stuck == {m \in 0 .. Len(raw) : ~\E c \in Drawable[s] : Replays(s, raw, m, c)}
<1> SUFFICES ASSUME Stuck # {} PROVE FALSE
  OBVIOUS
<1>1. PICK m \in Stuck : \A k \in Stuck : m <= k
  <2>1. Stuck \in SUBSET Nat
    OBVIOUS
  <2> QED
    BY <2>1, LeastNat
<1>2. m # 0
  <2>1. PICK e \in Examples(s) : e \in Seq(Choice) /\ SubSeq(e, 1, 0) \in Drawable[s]
    BY ExampleFacts
  <2>2. SubSeq(e, 1, 0) = <<>>
    BY <2>1
  <2>3. Replays(s, raw, 0, <<>>)
    BY DEF Replays
  <2> QED
    BY <2>1, <2>2, <2>3
<1>3. m - 1 \in 0 .. Len(raw) /\ m - 1 \notin Stuck /\ m \in 1 .. Len(raw)
  BY <1>1, <1>2
<1>4. PICK c \in Drawable[s] : Replays(s, raw, m - 1, c)
  BY <1>3
<1>5. c \in Seq(Choice) /\ Len(c) \in Nat /\ DOMAIN c = 1 .. Len(c)
  BY DrawableFacts
<1>6. CASE NodeAt(s, c) = End
  <2>1. Len(c) < m
    BY <1>3, <1>4, <1>5 DEF Replays
  <2>2. Replays(s, raw, m, c)
    BY <1>4, <1>6, <2>1 DEF Replays
  <2> QED
    BY <2>2
<1>7. CASE NodeAt(s, c) # End
  <2> DEFINE v == Drawn(raw[m], NodeAt(s, c))
             d == Append(c, v)
  <2>1. Len(c) = m - 1
    BY <1>4, <1>7 DEF Replays
  <2>2. NodeAt(s, c) \in Node /\ raw[m] \in Choice
    BY <1>3, <1>7, DrawableFacts
  <2>3. v \in Draws(NodeAt(s, c))
    BY <2>2, DrawnFacts
  <2>4. d \in Drawable[s]
    BY <1>7, <2>3, DrawableFacts
  <2>5. Len(d) = m /\ DOMAIN d = 1 .. m /\ d[m] = v
    <3>1. d \in Seq(Choice)
      BY <2>4, DrawableFacts
    <3> QED
      BY <1>5, <2>1, <3>1, AppendProperties
  <2>6. \A i \in 1 .. m : SubSeq(d, 1, i - 1) = SubSeq(c, 1, i - 1)
    <3>1. ASSUME NEW i \in 1 .. m
          PROVE  SubSeq(d, 1, i - 1) = SubSeq(c, 1, i - 1)
      BY <1>5, <2>1
    <3> QED
      BY <3>1
  <2>7. SubSeq(d, 1, m - 1) = c
    BY <1>3, <1>5, <2>1, <2>6
  <2>8. \A i \in 1 .. m - 1 : d[i] = c[i]
    BY <1>5, <2>1
  <2>9. ASSUME NEW i \in DOMAIN d
        PROVE  d[i] = Drawn(raw[i], NodeAt(s, SubSeq(d, 1, i - 1)))
    <3>1. CASE i = m
      BY <2>5, <2>7, <3>1
    <3>2. CASE i # m
      <4>1. i \in 1 .. m - 1 /\ i \in DOMAIN c
        BY <1>3, <1>5, <2>1, <2>5, <3>2
      <4>2. c[i] = Drawn(raw[i], NodeAt(s, SubSeq(c, 1, i - 1)))
        BY <1>4, <4>1 DEF Replays
      <4> QED
        BY <2>5, <2>6, <2>8, <4>1, <4>2
    <3> QED
      BY <3>1, <3>2
  <2>10. Replays(s, raw, m, d)
    <3> HIDE DEF d
    <3> QED
      BY <2>5, <2>9 DEF Replays
  <2> QED
    BY <2>4, <2>10
<1> QED
  BY <1>6, <1>7

(* What is drawn has been drawn on from every shorter prefix.              *)
LEMMA PrefixDrawn ==
  ASSUME NEW s \in Strategies, NEW p \in Drawable[s], NEW k \in 0 .. Len(p)
  PROVE  SubSeq(p, 1, k) \in Drawable[s] /\ (k < Len(p) => NodeAt(s, SubSeq(p, 1, k)) # End)
<1>1. PICK e \in Examples(s) : \E n \in 0 .. Len(e) : p = SubSeq(e, 1, n)
  BY DEF Drawable, Prefixes
<1>2. PICK n \in 0 .. Len(e) : p = SubSeq(e, 1, n)
  BY <1>1
<1>3. e \in Seq(Choice)
  BY ExampleFacts
<1>4. Len(p) = n /\ SubSeq(p, 1, k) = SubSeq(e, 1, k) /\ k \in 0 .. Len(e)
  BY <1>2, <1>3
<1>5. SubSeq(p, 1, k) \in Drawable[s]
  BY <1>4, ExampleFacts
<1>6. k < Len(p) => NodeAt(s, SubSeq(e, 1, k)) # End
  <2> SUFFICES ASSUME k < Len(p) PROVE NodeAt(s, SubSeq(e, 1, k)) # End
    OBVIOUS
  <2>1. k + 1 \in DOMAIN e /\ (k + 1) - 1 = k
    BY <1>3, <1>4
  <2> QED
    BY <2>1, ExampleFacts
<1> QED
  BY <1>4, <1>5, <1>6

(* Two sequences that first differ at i have the same prefix there.        *)
LEMMA SamePrefix ==
  ASSUME NEW c \in Seq(Choice), NEW d \in Seq(Choice), NEW i \in DOMAIN c,
         i \in DOMAIN d, \A j \in 1 .. i - 1 : c[j] = d[j]
  PROVE  SubSeq(c, 1, i - 1) = SubSeq(d, 1, i - 1)
<1>1. Len(SubSeq(c, 1, i - 1)) = i - 1 /\ Len(SubSeq(d, 1, i - 1)) = i - 1
  OBVIOUS
<1>2. SubSeq(c, 1, i - 1) \in Seq(Choice) /\ SubSeq(d, 1, i - 1) \in Seq(Choice)
  OBVIOUS
<1>3. \A j \in 1 .. i - 1 : SubSeq(c, 1, i - 1)[j] = SubSeq(d, 1, i - 1)[j]
  OBVIOUS
<1> QED
  BY <1>1, <1>2, <1>3, SeqEqual

(* There is only one replay of a sequence of choices.                      *)
LEMMA ReplayUnique ==
  ASSUME NEW s \in Strategies, NEW raw, NEW n \in Nat,
         NEW c \in Drawable[s], NEW d \in Drawable[s],
         Replays(s, raw, n, c), Replays(s, raw, n, d)
  PROVE  c = d
<1> DEFINE Differ == {i \in DOMAIN c \cap DOMAIN d : c[i] # d[i]}
<1>1. /\ c \in Seq(Choice) /\ Len(c) \in Nat /\ DOMAIN c = 1 .. Len(c)
      /\ d \in Seq(Choice) /\ Len(d) \in Nat /\ DOMAIN d = 1 .. Len(d)
  BY DrawableFacts
<1>2. Differ = {}
  <2> SUFFICES ASSUME Differ # {} PROVE FALSE
    OBVIOUS
  <2>1. PICK i \in Differ : \A j \in Differ : i <= j
    <3>1. Differ \in SUBSET Nat
      BY <1>1
    <3> QED
      BY <3>1, LeastNat
  <2>2. \A j \in 1 .. i - 1 : c[j] = d[j]
    BY <1>1, <2>1
  <2>3. SubSeq(c, 1, i - 1) = SubSeq(d, 1, i - 1)
    BY <1>1, <2>2, SamePrefix
  <2>4. c[i] = d[i]
    BY <2>3 DEF Replays
  <2> QED
    BY <2>4
<1>3. \A i \in DOMAIN c \cap DOMAIN d : c[i] = d[i]
  BY <1>2
<1> HIDE DEF Differ
<1>4. \A k \in Nat, m \in Nat : (k < m \/ m < k) \/ k = m
  OBVIOUS
<1>5. /\ Len(c) = n \/ (Len(c) < n /\ NodeAt(s, c) = End)
      /\ Len(d) = n \/ (Len(d) < n /\ NodeAt(s, d) = End)
  BY DEF Replays
<1>6. ~(Len(c) < Len(d))
  <2> SUFFICES ASSUME Len(c) < Len(d) PROVE FALSE
    OBVIOUS
  <2>1. Len(c) \in Nat /\ Len(d) \in Nat
    BY <1>1
  <2>2. Len(d) = n \/ Len(d) < n
    BY <1>5
  <2>3. Len(c) # n
    BY <2>1, <2>2
  <2>4. NodeAt(s, c) = End
    BY <2>3, <1>5
  <2>5. SubSeq(d, 1, Len(c)) = c
    <3>1. Len(SubSeq(d, 1, Len(c))) = Len(c) /\ SubSeq(d, 1, Len(c)) \in Seq(Choice)
      BY <1>1
    <3>2. \A j \in 1 .. Len(c) : SubSeq(d, 1, Len(c))[j] = c[j]
      BY <1>1, <1>3
    <3> QED
      BY <1>1, <3>1, <3>2, SeqEqual
  <2>6. NodeAt(s, SubSeq(d, 1, Len(c))) # End
    BY <1>1, PrefixDrawn
  <2> QED
    BY <2>4, <2>5, <2>6
<1>7. ~(Len(d) < Len(c))
  <2> SUFFICES ASSUME Len(d) < Len(c) PROVE FALSE
    OBVIOUS
  <2>1. Len(c) \in Nat /\ Len(d) \in Nat
    BY <1>1
  <2>2. Len(c) = n \/ Len(c) < n
    BY <1>5
  <2>3. Len(d) # n
    BY <2>1, <2>2
  <2>4. NodeAt(s, d) = End
    BY <2>3, <1>5
  <2>5. SubSeq(c, 1, Len(d)) = d
    <3>1. Len(SubSeq(c, 1, Len(d))) = Len(d) /\ SubSeq(c, 1, Len(d)) \in Seq(Choice)
      BY <1>1
    <3>2. \A j \in 1 .. Len(d) : SubSeq(c, 1, Len(d))[j] = d[j]
      BY <1>1, <1>3
    <3> QED
      BY <1>1, <3>1, <3>2, SeqEqual
  <2>6. NodeAt(s, SubSeq(c, 1, Len(d))) # End
    BY <1>1, PrefixDrawn, SMTT(30)
  <2> QED
    BY <2>4, <2>5, <2>6
<1>8. Len(c) = Len(d)
  BY <1>1, <1>6, <1>7, <1>4
<1> QED
  BY <1>1, <1>3, <1>8, SeqEqual

(* Canon is that replay.                                                   *)
LEMMA CanonFacts ==
  ASSUME NEW s \in Strategies, Examples(s) # {}, NEW raw \in Seq(Choice)
  PROVE  /\ Canon(s, raw) \in Drawable[s]
         /\ Replays(s, raw, Len(raw), Canon(s, raw))
         /\ Canon(s, raw) \in Seq(Choice)
         /\ Len(Canon(s, raw)) <= Len(raw)
<1>1. Len(raw) \in 0 .. Len(raw) /\ Len(raw) \in Nat
  OBVIOUS
<1>2. \E c \in Drawable[s] : Replays(s, raw, Len(raw), c)
  BY <1>1, ReplayExists
<1>3. Canon(s, raw) = CHOOSE c \in Drawable[s] : Replays(s, raw, Len(raw), c)
  BY DEF Canon, Replays
<1>4. Canon(s, raw) \in Drawable[s] /\ Replays(s, raw, Len(raw), Canon(s, raw))
  BY <1>2, <1>3
<1>5. Canon(s, raw) \in Seq(Choice)
  BY <1>4, DrawableFacts
<1>6. Len(Canon(s, raw)) <= Len(raw)
  BY <1>1, <1>4, <1>5 DEF Replays
<1> QED
  BY <1>4, <1>5, <1>6

(* An example, or a prefix of one, replays to itself.                      *)
LEMMA CanonOfPrefix ==
  ASSUME NEW s \in Strategies, NEW e \in Examples(s), NEW k \in 0 .. Len(e)
  PROVE  Canon(s, SubSeq(e, 1, k)) = SubSeq(e, 1, k)
<1> DEFINE p == SubSeq(e, 1, k)
<1>1. e \in Seq(Choice) /\ p \in Drawable[s] /\ p \in Seq(Choice) /\ Len(p) = k
  <2>1. e \in Seq(Choice) /\ p \in Drawable[s]
    BY ExampleFacts
  <2> QED
    BY <2>1
<1>2. ASSUME NEW i \in DOMAIN p
      PROVE  p[i] = Drawn(p[i], NodeAt(s, SubSeq(p, 1, i - 1)))
  <2>1. i \in DOMAIN e /\ p[i] = e[i] /\ SubSeq(p, 1, i - 1) = SubSeq(e, 1, i - 1)
    BY <1>1
  <2> QED
    BY <2>1, ExampleFacts
<1>3. Replays(s, p, Len(p), p)
  BY <1>2 DEF Replays
<1> HIDE DEF p
<1>4. Canon(s, p) \in Drawable[s] /\ Replays(s, p, Len(p), Canon(s, p)) /\ Len(p) \in Nat
  BY <1>1, CanonFacts
<1> QED
  BY <1>1, <1>3, <1>4, ReplayUnique DEF p

LEMMA CanonOfExample ==
  ASSUME NEW s \in Strategies, NEW e \in Examples(s)
  PROVE  Canon(s, e) = e
<1>1. e \in Seq(Choice) /\ Len(e) \in 0 .. Len(e) /\ SubSeq(e, 1, Len(e)) = e
  <2>1. e \in Seq(Choice)
    BY ExampleFacts
  <2> QED
    BY <2>1
<1> QED
  BY <1>1, CanonOfPrefix

(* Lowering choices of an example, whichever of them are forced, replays   *)
(* to something simpler or to the example itself.                          *)
LEMMA LoweredReplays ==
  ASSUME NEW s \in Strategies, NEW e \in Examples(s),
         NEW raw \in Seq(Choice), Len(raw) = Len(e),
         \A i \in DOMAIN e : \/ raw[i] = e[i]
                             \/ raw[i][1] = e[i][1] /\ raw[i][2] < e[i][2]
  PROVE  Canon(s, raw) = e \/ Simpler(Canon(s, raw), e)
<1> DEFINE c == Canon(s, raw)
<1>1. e \in Seq(Choice) /\ Len(e) \in Nat /\ DOMAIN e = 1 .. Len(e)
  BY ExampleFacts
<1>2. /\ c \in Seq(Choice) /\ Len(c) \in Nat /\ DOMAIN c = 1 .. Len(c)
      /\ Len(c) <= Len(e) /\ Replays(s, raw, Len(raw), c)
  BY CanonFacts
<1> HIDE DEF c
<1>3. CASE Len(c) < Len(e)
  BY <1>3 DEF Simpler, c
<1>4. CASE Len(c) = Len(e)
  <2> DEFINE Differ == {i \in DOMAIN e : c[i] # e[i]}
  <2>1. CASE Differ = {}
    <3>1. c = e
      BY <1>1, <1>2, <1>4, <2>1, SeqEqual
    <3> QED
      BY <3>1 DEF c
  <2>2. CASE Differ # {}
    <3>1. PICK i \in Differ : \A j \in Differ : i <= j
      <4>1. Differ \in SUBSET Nat
        BY <1>1
      <4> QED
        BY <2>2, <4>1, LeastNat
    <3> DEFINE node == NodeAt(s, SubSeq(e, 1, i - 1))
    <3>2. i \in DOMAIN e /\ i \in DOMAIN c /\ \A j \in 1 .. i - 1 : c[j] = e[j]
      <4>1. i \in DOMAIN e /\ i \in DOMAIN c /\ i \in Nat
        BY <1>1, <1>2, <1>4
      <4>2. ASSUME NEW j \in 1 .. i - 1
            PROVE  c[j] = e[j]
        <5>1. j \in DOMAIN e /\ ~(i <= j)
          BY <1>1, <4>1
        <5>2. j \notin Differ
          BY <3>1, <5>1
        <5> QED
          BY <5>1, <5>2
      <4> QED
        BY <4>1, <4>2
    <3>3. SubSeq(c, 1, i - 1) = SubSeq(e, 1, i - 1)
      BY <1>1, <1>2, <3>2, SamePrefix
    <3>4. c[i] = Drawn(raw[i], node)
      BY <1>2, <3>2, <3>3 DEF Replays
    <3>5. e[i] = Drawn(e[i], node) /\ e[i] \in Draws(node) /\ node \in Node
      BY <3>2, ExampleFacts
    <3>6. raw[i][1] = e[i][1] /\ raw[i][2] < e[i][2] /\ raw[i] \in Choice /\ e[i] \in Choice
      BY <1>1, <3>1, <3>2, <3>4, <3>5
    <3> HIDE DEF node
    <3>7. node.forced = NoForce
      BY <3>1, <3>4, <3>5 DEF Drawn
    <3>8. e[i][1] = node.kind /\ e[i][2] <= node.max
      BY <3>5, <3>7 DEF Draws, Node
    <3>9. c[i] = raw[i]
      <4>1. raw[i][2] \in Nat /\ e[i][2] \in Nat /\ node.max \in Nat
        BY <3>5, <3>6 DEF Node, Choice
      <4>2. Permitted(raw[i], node)
        BY <3>6, <3>8, <4>1 DEF Permitted
      <4> QED
        BY <3>4, <3>7, <4>2 DEF Drawn
    <3>10. c[i][2] < e[i][2] /\ \A j \in 1 .. i - 1 : c[j] = e[j]
      BY <3>2, <3>6, <3>9
    <3>11. Simpler(c, e)
      BY <1>4, <3>2, <3>10 DEF Simpler
    <3> QED
      BY <3>11 DEF c
  <2> QED
    BY <2>1, <2>2
<1> QED
  BY <1>1, <1>2, <1>3, <1>4

-----------------------------------------------------------------------------
(* Trials                                                                  *)

(* There is a first one among some groups of positions.                    *)
LEMMA FirstFacts ==
  ASSUME NEW n \in Nat, NEW groups, groups # {},
         \A g \in groups : g \in SUBSET (1 .. n) /\ g # {}
  PROVE  First(groups) \in groups
<1>1. \A g \in groups : Min(g) \in Nat
  <2>1. \A g \in groups : g \in SUBSET Nat /\ g # {} /\ g \in SUBSET (1 .. n)
    OBVIOUS
  <2> QED
    BY <2>1, MinFacts
<1>2. ASSUME NEW g \in groups
      PROVE  Max(g) \in Nat
  <2>1. g \in SUBSET (1 .. n) /\ g # {}
    OBVIOUS
  <2>2. Max(g) \in g
    BY <2>1, MaxFacts
  <2>3. Max(g) \in 1 .. n
    BY <2>1, <2>2
  <2> QED
    BY <2>3
<1> DEFINE Mins == {Min(g) : g \in groups}
<1>3. PICK m \in Mins : \A k \in Mins : m <= k
  <2>1. Mins \in SUBSET Nat /\ Mins # {}
    BY <1>1
  <2> QED
    BY <2>1, LeastNat
<1> DEFINE Lefts == {g \in groups : Min(g) = m}
           Maxs == {Max(g) : g \in Lefts}
<1>4. PICK x \in Maxs : \A k \in Maxs : x <= k
  <2>1. Lefts # {}
    BY <1>3
  <2>2. Maxs \in SUBSET Nat /\ Maxs # {}
    BY <1>2, <2>1
  <2> QED
    BY <2>2, LeastNat
<1>5. PICK f \in groups : Min(f) = m /\ Max(f) = x
  BY <1>4
<1>6. ASSUME NEW h \in groups
      PROVE  Min(f) < Min(h) \/ (Min(f) = Min(h) /\ Max(f) <= Max(h))
  <2>1. Min(f) <= Min(h)
    BY <1>3, <1>5
  <2>2. Min(f) = Min(h) => Max(f) <= Max(h)
    BY <1>4, <1>5
  <2> QED
    BY <1>1, <2>1, <2>2
<1> QED
  BY <1>5, <1>6 DEF First

(* Deleting a block that fits shortens; at the end, it leaves a prefix.    *)
LEMMA WithoutFacts ==
  ASSUME NEW c \in Seq(Choice), NEW i \in DOMAIN c, NEW size \in Nat \ {0}
  PROVE  /\ Without(c, i, size) \in Seq(Choice)
         /\ Len(Without(c, i, size)) < Len(c)
         /\ i + size - 1 > Len(c) => Without(c, i, size) = SubSeq(c, 1, i - 1)
<1> DEFINE head == SubSeq(c, 1, i - 1)
           tail == SubSeq(c, i + size, Len(c))
<1>1. i \in 1 .. Len(c) /\ Len(c) \in Nat
  OBVIOUS
<1>2. head \in Seq(Choice) /\ Len(head) = i - 1
  BY <1>1
<1>3. tail \in Seq(Choice)
  BY <1>1
<1>4. Len(tail) = IF i + size <= Len(c) THEN Len(c) - (i + size) + 1 ELSE 0
  BY <1>1
<1>5. Without(c, i, size) = head \o tail
  BY DEF Without
<1> HIDE DEF head, tail
<1>6. head \o tail \in Seq(Choice) /\ Len(head \o tail) = Len(head) + Len(tail)
  BY <1>2, <1>3
<1>7. Len(head) + Len(tail) < Len(c)
  BY <1>1, <1>2, <1>4
<1>8. ASSUME i + size - 1 > Len(c)
      PROVE  head \o tail = head
  <2>1. Len(tail) = 0
    BY <1>1, <1>4, <1>8
  <2>2. tail = <<>>
    BY <1>3, <2>1, EmptySeq
  <2> QED
    BY <1>2, <2>2, ConcatEmptySeq
<1> QED
  BY <1>5, <1>6, <1>7, <1>8 DEF head

(* A proper prefix of an example is not one.                               *)
LEMMA ProperPrefix ==
  ASSUME NEW s \in Strategies, NEW e \in Examples(s), NEW i \in DOMAIN e
  PROVE  Canon(s, SubSeq(e, 1, i - 1)) \notin Examples(s)
<1>1. e \in Seq(Choice) /\ i - 1 \in 0 .. Len(e)
  <2>1. e \in Seq(Choice)
    BY ExampleFacts
  <2> QED
    BY <2>1
<1>2. SubSeq(e, 1, i - 1) \in Drawable[s] /\ NodeAt(s, SubSeq(e, 1, i - 1)) # End
  BY <1>1, ExampleFacts
<1>3. SubSeq(e, 1, i - 1) \notin Examples(s)
  BY <1>2, DrawableFacts
<1> QED
  BY <1>1, <1>3, CanonOfPrefix

(* Zeroing some choices above zero lowers them.                            *)
LEMMA SimplestFacts ==
  ASSUME NEW c \in Seq(Choice), NEW g \in SUBSET (DOMAIN c),
         \A i \in g : c[i][2] > 0
  PROVE  /\ Simplest(c, g) \in Seq(Choice) /\ Len(Simplest(c, g)) = Len(c)
         /\ \A i \in DOMAIN c :
              \/ Simplest(c, g)[i] = c[i]
              \/ Simplest(c, g)[i][1] = c[i][1] /\ Simplest(c, g)[i][2] < c[i][2]
<1> DEFINE raw == Simplest(c, g)
<1>1. Len(c) \in Nat /\ DOMAIN c = 1 .. Len(c) /\ \A i \in 1 .. Len(c) : c[i] \in Choice
  OBVIOUS
<1>2. raw = [i \in 1 .. Len(c) |-> IF i \in g THEN <<c[i][1], 0>> ELSE c[i]]
  BY <1>1 DEF Simplest
<1>3. \A i \in 1 .. Len(c) : raw[i] \in Choice
  BY <1>1, <1>2 DEF Choice
<1>4. \A i \in 1 .. Len(c) : raw[i] = c[i] \/ (raw[i][1] = c[i][1] /\ raw[i][2] < c[i][2])
  BY <1>1, <1>2
<1>5. raw \in Seq(Choice) /\ Len(raw) = Len(c)
  <2>1. raw \in [1 .. Len(c) -> Choice]
    BY <1>2, <1>3
  <2> HIDE DEF raw
  <2> QED
    BY <1>1, <2>1, SeqDef, LenProperties
<1> QED
  BY <1>1, <1>4, <1>5

(* So does giving equal choices a lower index.                             *)
LEMMA LoweredFacts ==
  ASSUME canonical \in Seq(Choice), NEW g \in SUBSET (DOMAIN canonical), g # {},
         \A i \in g : canonical[i] = canonical[Min(g)],
         NEW v \in Nat, v < Index(g)
  PROVE  /\ Lowered(g, v) \in Seq(Choice) /\ Len(Lowered(g, v)) = Len(canonical)
         /\ \A i \in DOMAIN canonical :
              \/ Lowered(g, v)[i] = canonical[i]
              \/ /\ Lowered(g, v)[i][1] = canonical[i][1]
                 /\ Lowered(g, v)[i][2] < canonical[i][2]
<1> DEFINE raw == Lowered(g, v)
           c == canonical
<1>1. Len(c) \in Nat /\ DOMAIN c = 1 .. Len(c) /\ \A i \in 1 .. Len(c) : c[i] \in Choice
  OBVIOUS
<1>2. Min(g) \in 1 .. Len(c)
  BY <1>1, MinFacts
<1>3. raw = [i \in 1 .. Len(c) |-> IF i \in g THEN <<c[Min(g)][1], v>> ELSE c[i]]
  BY <1>1 DEF Lowered
<1>4. \A i \in 1 .. Len(c) : raw[i] \in Choice
  BY <1>1, <1>2, <1>3 DEF Choice
<1>5. \A i \in 1 .. Len(c) : raw[i] = c[i] \/ (raw[i][1] = c[i][1] /\ raw[i][2] < c[i][2])
  BY <1>1, <1>2, <1>3 DEF Index
<1>6. raw \in Seq(Choice) /\ Len(raw) = Len(c)
  <2>1. raw \in [1 .. Len(c) -> Choice]
    BY <1>3, <1>4
  <2> HIDE DEF raw
  <2> QED
    BY <1>1, <2>1, SeqDef, LenProperties
<1> QED
  BY <1>1, <1>5, <1>6

(* What fails with the target is an example that does.                     *)
LEMMA RunTarget ==
  ASSUME NEW raw, Target \in Run(raw)
  PROVE  /\ Canon(strategy, raw) \in DOMAIN test
         /\ Target \in test[Canon(strategy, raw)]
BY OriginsAssumption DEF Run

(* A deterministic trial does one thing.                                   *)
LEMMA RunDeterministic ==
  ASSUME Deterministic, NEW raw, NEW o \in Run(raw)
  PROVE  Run(raw) = {o}
<1> DEFINE c == Canon(strategy, raw)
<1>1. CASE c \in DOMAIN test
  BY <1>1 DEF Run, Deterministic
<1>2. CASE c \notin DOMAIN test
  BY <1>2 DEF Run
<1> QED
  BY <1>1, <1>2

-----------------------------------------------------------------------------
(* The invariant                                                           *)

InPass == pc \in {"delete", "values", "duplicates", "pairs"}
InValues == pc \in {"values", "duplicates", "pairs"}

\* What is returned fails with the target, and what a pass works on is what
\* replaying it gave.
Current ==
  /\ strategy \in Strategies /\ DOMAIN test = Examples(strategy)
  /\ choices \in Seq(Choice) /\ Target \in Run(choices)
  /\ pc \in {"top", "delete", "values", "duplicates", "pairs", "done"}
  /\ InPass => /\ canonical \in Examples(strategy)
               /\ canonical = Canon(strategy, choices)
               /\ best = canonical

\* A trial does not fail with the target, and what other bug it met is kept.
InVain(raw) == Run(raw) \subseteq {"pass"} \cup Remembered

\* Deletions of c that come before the block size k and position i.
Before(k, i, size, start) == k < size \/ (k = size /\ i < start)
NoDeletion(c, size, start) ==
  \A k \in DOMAIN BlockSizes, i \in DOMAIN c :
    Before(k, i, size, start) => InVain(Without(c, i, BlockSizes[k]))

\* A deletion pass has shortened its example, or has tried in vain.
Deletion ==
  pc = "delete" =>
    /\ del \in [cur : Seq(Choice), size : 1 .. 6, start : Nat \ {0}, improved : BOOLEAN]
    /\ del.improved => Target \in Run(del.cur) /\ Len(del.cur) < Len(canonical)
    /\ ~del.improved => del.cur = canonical
    /\ Deterministic /\ ~del.improved => NoDeletion(canonical, del.size, del.start)

\* The groups a pass works on, and the bounds of the search in the first.
Groups ==
  CASE pc = "values"     -> ValueWork(canonical)
    [] pc = "duplicates" -> DuplicateWork(canonical)
    [] pc = "pairs"      -> PairWork(canonical)
Search ==
  InValues =>
    /\ work \subseteq Groups
    /\ probe \in [stage : {"zero", "bisect", "confirm"}, lo : Nat, hi : Nat]
    /\ probe.stage # "zero" => work # {} /\ probe.hi <= Index(First(work))
    /\ pc = "pairs" => probe.stage = "zero"

\* What a pass, and the passes before it, have tried in vain.
NoZero(c, groups) == \A g \in groups : InVain(Simplest(c, g))
TriedInVain ==
  InValues /\ Deterministic =>
    /\ runDelete => NoDeletion(canonical, 6, 1)
    /\ pc = "values" => NoZero(canonical, ValueWork(canonical) \ work)
    /\ pc = "values" /\ probe.stage # "zero" => NoZero(canonical, {First(work)})
    /\ pc # "values" => NoZero(canonical, ValueWork(canonical))
    /\ pc = "pairs" => NoZero(canonical, PairWork(canonical) \ work)

\* The target is not among the other bugs met.
Slips == slipped \in Seq(Origins \X Seq(Choice)) /\ Target \notin Remembered

\* What holds at the end.
EndFacts == LocalMinimum /\ NearbyBugsRemembered /\ ReportMatchesChoices

Inv ==
  /\ Current /\ Deletion /\ Search /\ TriedInVain
  /\ EndFacts /\ Slips

-----------------------------------------------------------------------------
(* Origins met on the way                                                  *)

(* A trial forgets no bug, and remembers the one it met.                   *)
LEMMA SlipKept ==
  ASSUME Slips, NEW raw \in Seq(Choice), NEW o \in Outcomes, Slip(raw, o)
  PROVE  /\ Slips' /\ Remembered \subseteq Remembered'
         /\ o \in {"pass", Target} \cup Remembered'
<1>1. CASE ~NewSlip(o)
  BY <1>1 DEF Slips, Slip, NewSlip, Remembered
<1>2. CASE NewSlip(o)
  <2>1. slipped' = Append(slipped, <<o, raw>>)
    BY <1>2 DEF Slip
  <2>2. o \in Origins /\ o # Target /\ <<o, raw>> \in Origins \X Seq(Choice)
    BY <1>2 DEF NewSlip, Outcomes
  <2>3. /\ Len(slipped) \in Nat /\ DOMAIN slipped = 1 .. Len(slipped)
        /\ slipped' \in Seq(Origins \X Seq(Choice))
        /\ DOMAIN slipped' = 1 .. Len(slipped) + 1
        /\ slipped'[Len(slipped) + 1] = <<o, raw>>
        /\ \A i \in 1 .. Len(slipped) : slipped'[i] = slipped[i]
    BY <2>1, <2>2 DEF Slips
  <2>4. Len(slipped) + 1 \in DOMAIN slipped' /\ slipped'[Len(slipped) + 1][1] = o
    BY <2>3
  <2>5. \A i \in DOMAIN slipped : i \in DOMAIN slipped' /\ slipped'[i] = slipped[i]
    BY <2>3
  <2>6. \A i \in DOMAIN slipped' : i \in DOMAIN slipped \/ i = Len(slipped) + 1
    BY <2>3
  <2>7. Remembered' = Remembered \cup {o}
    <3>1. Remembered' \subseteq Remembered \cup {o}
      BY <2>4, <2>5, <2>6 DEF Remembered
    <3>2. Remembered \subseteq Remembered'
      BY <2>5 DEF Remembered
    <3>3. o \in Remembered'
      BY <2>4 DEF Remembered
    <3> QED
      BY <3>1, <3>2, <3>3
  <2> QED
    BY <2>2, <2>3, <2>7 DEF Slips
<1> QED
  BY <1>1, <1>2

-----------------------------------------------------------------------------
(* The groups a pass works on                                              *)

(* Every group is of choices above zero, and of equal ones when they are   *)
(* lowered to a common value.                                              *)
LEMMA GroupFacts ==
  ASSUME canonical \in Seq(Choice), InValues, NEW g \in Groups
  PROVE  /\ g \in SUBSET (DOMAIN canonical) /\ g # {}
         /\ \A i \in g : canonical[i][2] > 0
         /\ pc # "pairs" => \A i \in g : canonical[i] = canonical[Min(g)]
         /\ pc = "values" => \E i \in DOMAIN canonical : g = {i} /\ Min(g) = i
<1>1. DOMAIN canonical \subseteq Nat
  OBVIOUS
<1>2. CASE pc = "values"
  <2>1. g \in ValueWork(canonical)
    BY <1>2 DEF Groups
  <2>2. PICK i \in DOMAIN canonical : g = {i} /\ canonical[i][2] > 0
    BY <2>1 DEF ValueWork
  <2>3. Min(g) = i
    <3>1. {i} \in SUBSET Nat /\ {i} # {}
      BY <1>1
    <3>2. Min({i}) \in {i}
      BY <3>1, MinFacts
    <3> QED
      BY <2>2, <3>2
  <2> QED
    BY <1>2, <2>2, <2>3
<1>3. CASE pc = "duplicates"
  <2>1. g \in DuplicateWork(canonical)
    BY <1>3 DEF Groups
  <2>2. PICK i \in DOMAIN canonical :
          g = {j \in DOMAIN canonical : canonical[j] = canonical[i]} /\ canonical[i][2] > 0
    BY <2>1 DEF DuplicateWork, Grouped
  <2>3. g \in SUBSET (DOMAIN canonical) /\ g # {} /\ g \in SUBSET Nat
    BY <1>1, <2>2
  <2>4. Min(g) \in g
    BY <2>3, MinFacts
  <2> QED
    BY <1>3, <2>2, <2>3, <2>4
<1>4. CASE pc = "pairs"
  <2>1. g \in PairWork(canonical)
    BY <1>4 DEF Groups
  <2>2. \E i, j \in DOMAIN canonical :
          g = {i, j} /\ canonical[i][2] > 0 /\ canonical[j][2] > 0
    BY <2>1 DEF PairWork, Grouped
  <2> QED
    BY <1>4, <2>2
<1> QED
  BY <1>2, <1>3, <1>4 DEF InValues

(* So is the first group of those left, and the next value to try for it   *)
(* is below its own.                                                       *)
LEMMA FirstGroup ==
  ASSUME canonical \in Seq(Choice), InValues, Search, work # {}
  PROVE  First(work) \in work /\ First(work) \in Groups
<1>1. \A g \in work : g \in Groups
  BY DEF Search
<1>2. \A g \in work : g \in SUBSET (1 .. Len(canonical)) /\ g # {}
  <2>1. DOMAIN canonical = 1 .. Len(canonical)
    OBVIOUS
  <2> QED
    BY <1>1, <2>1, GroupFacts
<1>3. Len(canonical) \in Nat
  OBVIOUS
<1>4. First(work) \in work
  BY <1>2, <1>3, FirstFacts
<1> QED
  BY <1>1, <1>4

LEMMA ProbeFacts ==
  ASSUME canonical \in Seq(Choice), Search, Lowering
  PROVE  /\ Index(First(work)) \in Nat /\ Index(First(work)) > 0
         /\ Searching => ProbeValue \in Nat /\ ProbeValue < Index(First(work))
<1> DEFINE g == First(work)
<1>1. InValues /\ work # {}
  BY DEF Lowering, InValues
<1>2. g \in Groups
  BY <1>1, FirstGroup
<1>3. g \in SUBSET (DOMAIN canonical) /\ g # {} /\ \A i \in g : canonical[i][2] > 0
  BY <1>1, <1>2, GroupFacts
<1>4. Min(g) \in g /\ Min(g) \in DOMAIN canonical
  <2>1. DOMAIN canonical \subseteq Nat
    OBVIOUS
  <2> QED
    BY <1>3, <2>1, MinFacts
<1>5. Index(g) \in Nat /\ Index(g) > 0
  <2>1. canonical[Min(g)] \in Choice
    BY <1>4
  <2> QED
    BY <1>3, <1>4, <2>1 DEF Index, Choice
<1>6. /\ probe.stage \in {"zero", "bisect", "confirm"} /\ probe.lo \in Nat /\ probe.hi \in Nat
      /\ probe.stage # "zero" => probe.hi <= Index(g)
  BY <1>1 DEF Search
<1> HIDE DEF g
<1>7. CASE probe.stage = "zero"
  BY <1>5, <1>7 DEF ProbeValue, g
<1>8. CASE probe.stage = "bisect"
  <2> DEFINE mid == (probe.lo + probe.hi) \div 2
  <2>1. \A l \in Nat, h \in Nat : h - l > 1 => /\ (l + h) \div 2 \in Nat
                                               /\ (l + h) \div 2 < h
    OBVIOUS
  <2>2. ProbeValue = mid /\ Searching <=> (ProbeValue = mid /\ probe.hi - probe.lo > 1)
    BY <1>8 DEF ProbeValue, Searching
  <2>3. probe.hi - probe.lo > 1 => mid \in Nat /\ mid < probe.hi
    BY <1>6, <2>1
  <2>4. probe.hi - probe.lo > 1 => mid < Index(g)
    BY <1>5, <1>6, <1>8, <2>3
  <2>5. ProbeValue = mid
    BY <1>8 DEF ProbeValue
  <2>6. Searching => probe.hi - probe.lo > 1
    BY <1>8 DEF Searching
  <2> HIDE DEF mid
  <2> QED
    BY <1>5, <2>3, <2>4, <2>5, <2>6 DEF g
<1>9. CASE probe.stage = "confirm"
  BY <1>5, <1>6, <1>9 DEF ProbeValue, Searching, g
<1> QED
  BY <1>6, <1>7, <1>8, <1>9

(* Trying zero for a single choice is zeroing it.                          *)
LEMMA LoweredToZero ==
  ASSUME canonical \in Seq(Choice), NEW i \in DOMAIN canonical
  PROVE  Lowered({i}, 0) = Simplest(canonical, {i})
<1>1. Min({i}) = i
  <2>1. {i} \in SUBSET Nat /\ {i} # {}
    OBVIOUS
  <2>2. Min({i}) \in {i}
    BY <2>1, MinFacts
  <2> QED
    BY <2>2
<1> QED
  BY <1>1 DEF Lowered, Simplest

-----------------------------------------------------------------------------
(* Trials keep what they should                                            *)

(* A trial of the value passes replays to the example worked on or to      *)
(* something simpler.                                                      *)
LEMMA LowerTrialFacts ==
  ASSUME Current, Search, Lowering, Searching
  PROVE  LET trial == Lowered(First(work), ProbeValue)
         IN  /\ trial \in Seq(Choice)
             /\ \/ Canon(strategy, trial) = canonical
                \/ Simpler(Canon(strategy, trial), canonical)
<1> DEFINE g == First(work)
           trial == Lowered(g, ProbeValue)
<1>1. InPass /\ InValues /\ work # {} /\ pc # "pairs"
  BY DEF Lowering, InPass, InValues
<1>2. /\ strategy \in Strategies /\ canonical \in Examples(strategy)
      /\ canonical \in Seq(Choice)
  BY <1>1, ExampleFacts DEF Current
<1>3. g \in Groups
  BY <1>1, <1>2, FirstGroup
<1>4. /\ g \in SUBSET (DOMAIN canonical) /\ g # {}
      /\ \A i \in g : canonical[i] = canonical[Min(g)]
  BY <1>1, <1>2, <1>3, GroupFacts
<1>5. ProbeValue \in Nat /\ ProbeValue < Index(g)
  BY <1>2, ProbeFacts
<1> HIDE DEF g
<1>6. /\ trial \in Seq(Choice) /\ Len(trial) = Len(canonical)
      /\ \A i \in DOMAIN canonical :
           \/ trial[i] = canonical[i]
           \/ trial[i][1] = canonical[i][1] /\ trial[i][2] < canonical[i][2]
  BY <1>2, <1>4, <1>5, LoweredFacts
<1> HIDE DEF trial
<1>7. Canon(strategy, trial) = canonical \/ Simpler(Canon(strategy, trial), canonical)
  BY <1>2, <1>6, LoweredReplays
<1> QED
  BY <1>6, <1>7 DEF trial, g

LEMMA PairTrialFacts ==
  ASSUME Current, Search, pc = "pairs", work # {}
  PROVE  LET trial == Simplest(canonical, First(work))
         IN  /\ trial \in Seq(Choice)
             /\ \/ Canon(strategy, trial) = canonical
                \/ Simpler(Canon(strategy, trial), canonical)
<1> DEFINE g == First(work)
           trial == Simplest(canonical, g)
<1>1. InPass /\ InValues
  BY DEF InPass, InValues
<1>2. /\ strategy \in Strategies /\ canonical \in Examples(strategy)
      /\ canonical \in Seq(Choice)
  BY <1>1, ExampleFacts DEF Current
<1>3. g \in Groups
  BY <1>1, <1>2, FirstGroup
<1>4. g \in SUBSET (DOMAIN canonical) /\ \A i \in g : canonical[i][2] > 0
  BY <1>1, <1>2, <1>3, GroupFacts
<1> HIDE DEF g
<1>5. /\ trial \in Seq(Choice) /\ Len(trial) = Len(canonical)
      /\ \A i \in DOMAIN canonical :
           \/ trial[i] = canonical[i]
           \/ trial[i][1] = canonical[i][1] /\ trial[i][2] < canonical[i][2]
  BY <1>2, <1>4, SimplestFacts
<1> HIDE DEF trial
<1>6. Canon(strategy, trial) = canonical \/ Simpler(Canon(strategy, trial), canonical)
  BY <1>2, <1>5, LoweredReplays
<1> QED
  BY <1>5, <1>6 DEF trial, g

(* A deletion shortens what is left of the example.                        *)
LEMMA DeleteTrialFacts ==
  ASSUME Current, Deletion, Deleting, BlockFits
  PROVE  LET trial == Without(del.cur, del.start, BlockSizes[del.size])
         IN  trial \in Seq(Choice) /\ Len(trial) < Len(del.cur)
<1>1. /\ del.cur \in Seq(Choice) /\ del.size \in 1 .. 5 /\ del.start \in Nat \ {0}
  BY DEF Deletion, Deleting, BlockSizes
<1>2. BlockSizes[del.size] \in Nat \ {0}
  BY <1>1 DEF BlockSizes
<1>3. del.start \in DOMAIN del.cur
  BY <1>1, <1>2 DEF BlockFits
<1> QED
  BY <1>1, <1>2, <1>3, WithoutFacts

-----------------------------------------------------------------------------
(* The steps                                                               *)

(* The program under test stays the same, and so does what it does.        *)
LEMMA Frame ==
  ASSUME UNCHANGED <<strategy, test>>
  PROVE  /\ \A r : Run(r)' = Run(r)
         /\ Deterministic' = Deterministic
         /\ \A c : ValueWork(c)' = ValueWork(c)
<1>1. \A r : Run(r)' = Run(r)
  BY DEF Run
<1>2. Deterministic' = Deterministic
  BY DEF Deterministic
<1>3. \A c : ValueWork(c)' = ValueWork(c)
  BY DEF ValueWork, Forced
<1> QED
  BY <1>1, <1>2, <1>3

(* What was tried in vain stays so, as no bug met is forgotten.            *)
LEMMA StaysInVain ==
  ASSUME UNCHANGED <<strategy, test>>, Remembered \subseteq Remembered'
  PROVE  /\ \A c, size, start : NoDeletion(c, size, start) => NoDeletion(c, size, start)'
         /\ \A c, groups : NoZero(c, groups) => NoZero(c, groups)'
         /\ \A r : InVain(r) => InVain(r)'
         /\ \A r : Run(r) \subseteq {"pass"} \cup Remembered' => InVain(r)'
<1>1. \A r : InVain(r) => InVain(r)'
  BY Frame DEF InVain
<1>4. \A r : Run(r) \subseteq {"pass"} \cup Remembered' => InVain(r)'
  BY Frame DEF InVain
<1>2. \A c, size, start : NoDeletion(c, size, start) => NoDeletion(c, size, start)'
  BY <1>1 DEF NoDeletion
<1>3. \A c, groups : NoZero(c, groups) => NoZero(c, groups)'
  BY <1>1 DEF NoZero
<1> QED
  BY <1>1, <1>2, <1>3, <1>4

(* A deterministic trial without the target was in vain.                   *)
LEMMA TrialInVain ==
  ASSUME Slips, Deterministic, NEW raw \in Seq(Choice), NEW o \in Outcomes, o \in Run(raw),
         ~Accepts(o), Slip(raw, o)
  PROVE  Run(raw) \subseteq {"pass"} \cup Remembered'
<1>1. Run(raw) = {o}
  BY RunDeterministic
<1>2. o \in {"pass"} \cup Remembered'
  BY SlipKept DEF Accepts
<1> QED
  BY <1>1, <1>2

(* Until the end, or when a limit ended it, nothing is promised of the end.*)
LEMMA NotSettled ==
  ASSUME pc' # "done" \/ limited'
  PROVE  EndFacts'
BY DEF EndFacts, LocalMinimum, NearbyBugsRemembered, ReportMatchesChoices, Settled

LEMMA LimitStep ==
  ASSUME Inv, Limit
  PROVE  Inv'
<1>1. /\ pc' = "done" /\ limited' /\ UNCHANGED <<strategy, test, choices, slipped>>
  BY DEF Limit, given
<1>2. Current'
  <2>1. \A r : Run(r)' = Run(r)
    BY <1>1, Frame
  <2> QED
    BY <1>1, <2>1 DEF Inv, Current, InPass
<1>3. Deletion' /\ Search' /\ TriedInVain'
  BY <1>1 DEF Deletion, Search, TriedInVain, InValues
<1>4. EndFacts'
  BY <1>1, NotSettled
<1>5. Slips'
  BY <1>1 DEF Inv, Slips, Remembered
<1> QED
  BY <1>1, <1>2, <1>3, <1>4, <1>5 DEF Inv

LEMMA ReplayStep ==
  ASSUME Inv, NEW o \in Outcomes, Replay(o)
  PROVE  Inv'
<1> DEFINE c == Canon(strategy, choices)
<1>1. /\ o \in Run(choices) /\ pc = "top"
      /\ UNCHANGED <<strategy, test, choices, slipped, limited>>
  BY DEF Replay, given
<1>2. /\ strategy \in Strategies /\ DOMAIN test = Examples(strategy)
      /\ choices \in Seq(Choice) /\ Target \in Run(choices)
  BY DEF Inv, Current
<1>3. c \in Examples(strategy) /\ c \in Seq(Choice)
  <2>1. c \in Examples(strategy)
    BY <1>2, RunTarget
  <2> QED
    BY <1>2, <2>1, ExampleFacts
<1> HIDE DEF c
<1>4. /\ \A r : Run(r)' = Run(r)
      /\ Deterministic' = Deterministic
      /\ \A d : ValueWork(d)' = ValueWork(d)
      /\ \A d, size, start : NoDeletion(d, size, start) => NoDeletion(d, size, start)'
      /\ \A d, groups : NoZero(d, groups) => NoZero(d, groups)'
  BY <1>1, Frame, StaysInVain DEF Remembered
<1>5. Slips'
  BY <1>1 DEF Inv, Slips, Remembered
<1>6. CASE o = "pass"
  <2>1. pc' = "done"
    BY <1>6 DEF Replay
  <2>2. ~Deterministic'
    <3>1. Deterministic => Run(choices) = {"pass"}
      BY <1>1, <1>6, RunDeterministic, OriginsAssumption
    <3> QED
      BY <1>2, <1>4, <3>1, OriginsAssumption
  <2>3. EndFacts'
    BY <2>2 DEF EndFacts, LocalMinimum, NearbyBugsRemembered, ReportMatchesChoices, Settled
  <2>4. Current'
    BY <1>1, <1>2, <1>4, <2>1 DEF Current, InPass
  <2>5. Deletion' /\ Search' /\ TriedInVain'
    BY <2>1 DEF Deletion, Search, TriedInVain, InValues
  <2> QED
    BY <1>5, <2>3, <2>4, <2>5 DEF Inv
<1>7. CASE o # "pass" /\ (lastDeleteLen # Len(c) \/ retryDelete)
  <2>1. /\ pc' = "delete" /\ best' = c /\ canonical' = c
        /\ del' = [NoDelete EXCEPT !.cur = c]
    BY <1>7 DEF Replay, c
  <2>2. del' = [cur |-> c, size |-> 1, start |-> 1, improved |-> FALSE]
    BY <2>1 DEF NoDelete
  <2>3. Current'
    BY <1>1, <1>2, <1>3, <1>4, <2>1 DEF Current, InPass, c
  <2>4. Deletion'
    <3>1. NoDeletion(c, 1, 1)
      <4>1. \A k \in 1 .. 5, i \in DOMAIN c : ~Before(k, i, 1, 1)
        BY <1>3 DEF Before
      <4> QED
        BY <4>1 DEF NoDeletion, BlockSizes
    <3>2. del' \in [cur : Seq(Choice), size : 1 .. 6, start : Nat \ {0}, improved : BOOLEAN]
      BY <1>3, <2>2
    <3>3. del'.cur = c /\ del'.size = 1 /\ del'.start = 1 /\ ~del'.improved
      BY <2>2
    <3> QED
      BY <1>4, <2>1, <3>1, <3>2, <3>3 DEF Deletion
  <2>5. Search' /\ TriedInVain'
    BY <2>1 DEF Search, TriedInVain, InValues
  <2>6. EndFacts'
    BY <2>1, NotSettled
  <2> QED
    BY <1>5, <2>3, <2>4, <2>5, <2>6 DEF Inv
<1>8. CASE o # "pass" /\ ~(lastDeleteLen # Len(c) \/ retryDelete)
  <2>1. /\ pc' = "values" /\ best' = c /\ canonical' = c /\ runDelete' = FALSE
        /\ work' = ValueWork(c) /\ probe' = NoProbe
    BY <1>8 DEF Replay, StartValues, c
  <2>2. Current'
    BY <1>1, <1>2, <1>3, <1>4, <2>1 DEF Current, InPass, c
  <2>3. Deletion'
    BY <2>1 DEF Deletion
  <2>4. Search'
    <3>1. Groups' = ValueWork(c)
      BY <1>4, <2>1 DEF Groups
    <3> QED
      BY <2>1, <3>1 DEF Search, NoProbe
  <2>5. TriedInVain'
    <3>1. NoZero(c, {})
      BY DEF NoZero
    <3>2. ValueWork(c) \ work' = {}
      BY <2>1
    <3> QED
      BY <1>4, <2>1, <3>1, <3>2 DEF TriedInVain, NoProbe
  <2>6. EndFacts'
    BY <2>1, NotSettled
  <2> QED
    BY <1>5, <2>2, <2>3, <2>4, <2>5, <2>6 DEF Inv
<1> QED
  BY <1>6, <1>7, <1>8

(* One more deletion tried.                                                *)
LEMMA BeforeNext ==
  ASSUME NEW size \in 1 .. 5, NEW start \in Nat \ {0}, NEW k \in 1 .. 5, NEW i \in Nat,
         Before(k, i, size, start + 1)
  PROVE  Before(k, i, size, start) \/ (k = size /\ i = start)
BY DEF Before

(* Where blocks of a size no longer fit, all of them have been tried, for  *)
(* what a block at the end leaves is no example.                           *)
LEMMA DeletionsTried ==
  ASSUME Current, canonical \in Examples(strategy), NEW size \in 1 .. 5, NEW start \in Nat \ {0},
         NoDeletion(canonical, size, start), start + BlockSizes[size] - 1 > Len(canonical)
  PROVE  NoDeletion(canonical, size + 1, 1)
<1>1. DOMAIN BlockSizes = 1 .. 5 /\ BlockSizes[size] \in Nat \ {0}
  BY DEF BlockSizes
<1>2. /\ canonical \in Seq(Choice) /\ strategy \in Strategies
      /\ DOMAIN test = Examples(strategy) /\ DOMAIN canonical = 1 .. Len(canonical)
  <2>1. canonical \in Seq(Choice)
    BY ExampleFacts DEF Current
  <2> QED
    BY <2>1 DEF Current
<1> SUFFICES ASSUME NEW k \in DOMAIN BlockSizes, NEW i \in DOMAIN canonical,
                    Before(k, i, size + 1, 1)
             PROVE  InVain(Without(canonical, i, BlockSizes[k]))
  BY DEF NoDeletion
<1>3. k < size \/ k = size
  BY <1>1, <1>2 DEF Before
<1>4. CASE Before(k, i, size, start)
  BY <1>4 DEF NoDeletion
<1>5. CASE ~Before(k, i, size, start)
  <2>1. k = size /\ i >= start
    BY <1>1, <1>2, <1>3, <1>5 DEF Before
  <2>2. i + BlockSizes[k] - 1 > Len(canonical)
    <3>1. i \in Nat /\ Len(canonical) \in Nat
      BY <1>2
    <3> QED
      BY <1>1, <2>1, <3>1
  <2>3. Without(canonical, i, BlockSizes[k]) = SubSeq(canonical, 1, i - 1)
    BY <1>1, <1>2, <2>1, <2>2, WithoutFacts
  <2>4. Canon(strategy, SubSeq(canonical, 1, i - 1)) \notin DOMAIN test
    BY <1>2, ProperPrefix
  <2> QED
    BY <2>3, <2>4 DEF InVain, Run
<1> QED
  BY <1>4, <1>5

LEMMA DeleteTrialStep ==
  ASSUME Inv, NEW o \in Outcomes, DeleteTrial(o)
  PROVE  Inv'
<1> DEFINE trial == Without(del.cur, del.start, BlockSizes[del.size])
<1>1. /\ Deleting /\ BlockFits /\ o \in Run(trial) /\ Slip(trial, o)
      /\ del' = IF Accepts(o) THEN [del EXCEPT !.cur = trial, !.improved = TRUE]
                              ELSE [del EXCEPT !.start = @ + 1]
      /\ UNCHANGED <<strategy, test, pc, choices, best, canonical>>
  BY DEF DeleteTrial, given, loopVars
<1>2. /\ pc = "delete" /\ InPass
      /\ canonical \in Examples(strategy) /\ canonical \in Seq(Choice)
  <2>1. pc = "delete" /\ InPass
    BY <1>1 DEF Deleting, InPass
  <2>2. strategy \in Strategies /\ canonical \in Examples(strategy)
    BY <2>1 DEF Inv, Current
  <2> QED
    BY <2>1, <2>2, ExampleFacts
<1>3. /\ del \in [cur : Seq(Choice), size : 1 .. 6, start : Nat \ {0}, improved : BOOLEAN]
      /\ del.size \in 1 .. 5
      /\ del.improved => Target \in Run(del.cur) /\ Len(del.cur) < Len(canonical)
      /\ ~del.improved => del.cur = canonical
      /\ Deterministic /\ ~del.improved => NoDeletion(canonical, del.size, del.start)
  BY <1>1, <1>2 DEF Inv, Deletion, Deleting, BlockSizes
<1>4. trial \in Seq(Choice) /\ Len(trial) < Len(del.cur)
  BY <1>1, DeleteTrialFacts DEF Inv
<1> HIDE DEF trial
<1>5. /\ \A r : Run(r)' = Run(r)
      /\ Deterministic' = Deterministic
      /\ \A r : InVain(r) => InVain(r)'
      /\ \A r : Run(r) \subseteq {"pass"} \cup Remembered' => InVain(r)'
  <2>1. Remembered \subseteq Remembered'
    BY <1>1, <1>4, SlipKept DEF Inv
  <2> QED
    BY <1>1, <2>1, Frame, StaysInVain
<1>6. Current'
  BY <1>1, <1>5 DEF Inv, Current, InPass
<1>7. Deletion'
  <2>1. CASE Accepts(o)
    <3>1. del' = [del EXCEPT !.cur = trial, !.improved = TRUE]
      BY <1>1, <2>1
    <3>2. /\ del' \in [cur : Seq(Choice), size : 1 .. 6, start : Nat \ {0}, improved : BOOLEAN]
          /\ del'.cur = trial /\ del'.improved
      BY <1>3, <1>4, <3>1
    <3>3. Len(trial) < Len(canonical)
      <4>1. Len(trial) \in Nat /\ Len(del.cur) \in Nat /\ Len(canonical) \in Nat
        BY <1>2, <1>3, <1>4
      <4>2. Len(del.cur) <= Len(canonical)
        BY <1>3, <4>1
      <4> QED
        BY <1>4, <4>1, <4>2
    <3>4. Target \in Run(trial)
      BY <1>1, <2>1 DEF Accepts
    <3> QED
      BY <1>1, <1>5, <3>2, <3>3, <3>4 DEF Deletion
  <2>2. CASE ~Accepts(o)
    <3>1. del' = [del EXCEPT !.start = @ + 1]
      BY <1>1, <2>2
    <3>2. /\ del' \in [cur : Seq(Choice), size : 1 .. 6, start : Nat \ {0}, improved : BOOLEAN]
          /\ del'.cur = del.cur /\ del'.improved = del.improved
          /\ del'.size = del.size /\ del'.start = del.start + 1
      BY <1>3, <3>1
    <3>3. ASSUME Deterministic, ~del.improved
          PROVE  NoDeletion(canonical, del.size, del.start)'
      <4>1. Run(trial) \subseteq {"pass"} \cup Remembered'
        BY <1>1, <1>4, <2>2, <3>3, TrialInVain DEF Inv
      <4>2. NoDeletion(canonical, del.size, del.start) /\ del.cur = canonical
        BY <1>3, <3>3
      <4>3. \A k \in DOMAIN BlockSizes, i \in DOMAIN canonical :
              Before(k, i, del.size, del.start) => InVain(Without(canonical, i, BlockSizes[k]))
        BY <4>2 DEF NoDeletion
      <4>4. DOMAIN BlockSizes = 1 .. 5 /\ DOMAIN canonical \subseteq Nat
        BY <1>2 DEF BlockSizes
      <4>5. ASSUME NEW k \in DOMAIN BlockSizes, NEW i \in DOMAIN canonical,
                   Before(k, i, del.size, del.start + 1)
            PROVE  InVain(Without(canonical, i, BlockSizes[k]))'
        <5>1. Before(k, i, del.size, del.start) \/ (k = del.size /\ i = del.start)
          BY <1>3, <4>4, <4>5, BeforeNext
        <5>2. \/ InVain(Without(canonical, i, BlockSizes[k]))
              \/ Run(Without(canonical, i, BlockSizes[k])) \subseteq {"pass"} \cup Remembered'
          BY <4>1, <4>2, <4>3, <5>1 DEF trial
        <5> QED
          BY <1>1, <1>5, <5>2
      <4>6. del'.size = del.size /\ del'.start = del.start + 1
        BY <3>2
      <4> QED
        BY <1>1, <4>5, <4>6 DEF NoDeletion
    <3> QED
      BY <1>1, <1>3, <1>5, <3>2, <3>3 DEF Deletion
  <2> QED
    BY <2>1, <2>2
<1>8. Search' /\ TriedInVain' /\ EndFacts'
  BY <1>1, <1>2, NotSettled DEF Search, TriedInVain, InValues
<1>9. Slips'
  BY <1>1, <1>4, SlipKept DEF Inv
<1> QED
  BY <1>6, <1>7, <1>8, <1>9 DEF Inv

LEMMA DeleteNextSizeStep ==
  ASSUME Inv, DeleteNextSize
  PROVE  Inv'
<1>1. /\ Deleting /\ ~BlockFits /\ del' = [del EXCEPT !.size = @ + 1, !.start = 1]
      /\ UNCHANGED <<strategy, test, pc, choices, best, canonical, slipped>>
  BY DEF DeleteNextSize, given, loopVars
<1>2. /\ pc = "delete" /\ Current /\ canonical \in Examples(strategy)
      /\ canonical \in Seq(Choice)
  <2>1. pc = "delete" /\ InPass
    BY <1>1 DEF Deleting, InPass
  <2>2. Current /\ strategy \in Strategies /\ canonical \in Examples(strategy)
    BY <2>1 DEF Inv, Current
  <2> QED
    BY <2>1, <2>2, ExampleFacts
<1>3. /\ del \in [cur : Seq(Choice), size : 1 .. 6, start : Nat \ {0}, improved : BOOLEAN]
      /\ del.size \in 1 .. 5
      /\ del.improved => Target \in Run(del.cur) /\ Len(del.cur) < Len(canonical)
      /\ ~del.improved => del.cur = canonical
      /\ Deterministic /\ ~del.improved => NoDeletion(canonical, del.size, del.start)
  BY <1>1, <1>2 DEF Inv, Deletion, Deleting, BlockSizes
<1>4. /\ \A r : Run(r)' = Run(r)
      /\ Deterministic' = Deterministic
      /\ \A d, size, start : NoDeletion(d, size, start) => NoDeletion(d, size, start)'
  BY <1>1, Frame, StaysInVain DEF Remembered
<1>5. Current'
  BY <1>1, <1>4 DEF Inv, Current, InPass
<1>6. Deletion'
  <2>1. /\ del' \in [cur : Seq(Choice), size : 1 .. 6, start : Nat \ {0}, improved : BOOLEAN]
        /\ del'.cur = del.cur /\ del'.improved = del.improved
        /\ del'.size = del.size + 1 /\ del'.start = 1
    <3>1. del' = [del EXCEPT !.size = del.size + 1, !.start = 1]
      BY <1>1
    <3>2. del.size + 1 \in 1 .. 6
      BY <1>3
    <3>3. del' = [cur |-> del.cur, size |-> del.size + 1, start |-> 1,
                  improved |-> del.improved]
      BY <1>3, <3>1
    <3>4. del.cur \in Seq(Choice) /\ del.improved \in BOOLEAN
      BY <1>3
    <3> QED
      BY <3>2, <3>3, <3>4
  <2>2. ASSUME Deterministic, ~del.improved
        PROVE  NoDeletion(canonical, del.size + 1, 1)
    <3>1. del.cur = canonical /\ NoDeletion(canonical, del.size, del.start)
      BY <1>3, <2>2
    <3>2. BlockSizes[del.size] \in Nat /\ Len(canonical) \in Nat /\ del.start \in Nat \ {0}
      BY <1>2, <1>3 DEF BlockSizes
    <3>3. del.start + BlockSizes[del.size] - 1 > Len(canonical)
      BY <1>1, <3>1, <3>2 DEF BlockFits
    <3> QED
      BY <1>2, <1>3, <3>1, <3>2, <3>3, DeletionsTried
  <2> QED
    BY <1>1, <1>3, <1>4, <2>1, <2>2 DEF Deletion
<1>7. Search' /\ TriedInVain' /\ EndFacts'
  BY <1>1, <1>2, NotSettled DEF Search, TriedInVain, InValues
<1>8. Slips'
  BY <1>1 DEF Inv, Slips, Remembered
<1> QED
  BY <1>5, <1>6, <1>7, <1>8 DEF Inv

LEMMA DeleteDoneStep ==
  ASSUME Inv, DeleteDone
  PROVE  Inv'
<1>1. /\ pc = "delete" /\ ~Deleting
      /\ UNCHANGED <<strategy, test, best, canonical, runDelete, slipped>>
  BY DEF DeleteDone, given, loopVars
<1>2. /\ Current /\ strategy \in Strategies /\ canonical \in Examples(strategy)
      /\ canonical = Canon(strategy, choices) /\ best = canonical
      /\ choices \in Seq(Choice) /\ Target \in Run(choices) /\ DOMAIN test = Examples(strategy)
  BY <1>1 DEF Inv, Current, InPass
<1>3. /\ del \in [cur : Seq(Choice), size : 1 .. 6, start : Nat \ {0}, improved : BOOLEAN]
      /\ del.improved => Target \in Run(del.cur)
      /\ Deterministic /\ ~del.improved => NoDeletion(canonical, del.size, del.start)
  BY <1>1 DEF Inv, Deletion
<1>4. del.size = 6 /\ del.start \in Nat \ {0}
  <2>1. del.size \in 1 .. 6 /\ ~(del.size <= 5)
    BY <1>1, <1>3 DEF Deleting, BlockSizes
  <2> QED
    BY <1>3, <2>1
<1>5. /\ \A r : Run(r)' = Run(r)
      /\ Deterministic' = Deterministic
      /\ \A d : ValueWork(d)' = ValueWork(d)
      /\ \A d, size, start : NoDeletion(d, size, start) => NoDeletion(d, size, start)'
      /\ \A d, groups : NoZero(d, groups) => NoZero(d, groups)'
  BY <1>1, Frame, StaysInVain DEF Remembered
<1>6. Slips'
  BY <1>1 DEF Inv, Slips, Remembered
<1>7. CASE del.improved
  <2>1. pc' = "top" /\ choices' = del.cur
    BY <1>7 DEF DeleteDone, Shrunk
  <2>2. Current'
    BY <1>1, <1>2, <1>3, <1>5, <1>7, <2>1 DEF Current, InPass
  <2>3. Deletion' /\ Search' /\ TriedInVain' /\ EndFacts'
    BY <2>1, NotSettled DEF Deletion, Search, TriedInVain, InValues
  <2> QED
    BY <1>6, <2>2, <2>3 DEF Inv
<1>8. CASE ~del.improved
  <2>1. /\ pc' = "values" /\ choices' = choices
        /\ work' = ValueWork(canonical) /\ probe' = NoProbe
    BY <1>8 DEF DeleteDone, StartValues
  <2>2. Current'
    BY <1>1, <1>2, <1>5, <2>1 DEF Current, InPass
  <2>3. Deletion' /\ EndFacts'
    BY <2>1, NotSettled DEF Deletion
  <2>4. Search'
    <3>1. Groups' = ValueWork(canonical)
      BY <1>1, <1>5, <2>1 DEF Groups
    <3> QED
      BY <2>1, <3>1 DEF Search, NoProbe
  <2>5. TriedInVain'
    <3>1. NoZero(canonical, {})
      BY DEF NoZero
    <3>2. ValueWork(canonical) \ work' = {}
      BY <2>1
    <3>3. Deterministic => NoDeletion(canonical, 6, 1)
      <4>1. \A k \in 1 .. 5, i \in DOMAIN canonical : Before(k, i, 6, del.start)
        BY DEF Before
      <4> QED
        BY <1>3, <1>4, <1>8, <4>1 DEF NoDeletion, BlockSizes
    <3> QED
      BY <1>1, <1>5, <2>1, <3>1, <3>2, <3>3 DEF TriedInVain, NoProbe
  <2> QED
    BY <1>6, <2>2, <2>3, <2>4, <2>5 DEF Inv
<1> QED
  BY <1>7, <1>8

(* A step of a value pass that stays in the passes: what is left to show.  *)
LEMMA StaysInPass ==
  ASSUME Current, InPass, InValues', UNCHANGED <<strategy, test, choices, best, canonical>>,
         Slips', Search', TriedInVain'
  PROVE  Inv'
<1>1. \A r : Run(r)' = Run(r)
  BY Frame
<1>2. Current'
  BY <1>1 DEF Current, InPass, InValues
<1>3. Deletion'
  BY DEF Deletion, InValues
<1>4. EndFacts'
  BY NotSettled DEF InValues
<1> QED
  BY <1>2, <1>3, <1>4 DEF Inv

(* A step that accepts a trial: back to the head of the loop.              *)
LEMMA AcceptedStep ==
  ASSUME Current, NEW raw \in Seq(Choice), Target \in Run(raw), Shrunk(raw),
         UNCHANGED <<strategy, test>>,
         Slips'
  PROVE  Inv'
<1>1. \A r : Run(r)' = Run(r)
  BY Frame
<1>2. pc' = "top" /\ choices' = raw
  BY DEF Shrunk
<1>3. Current'
  BY <1>1, <1>2 DEF Current, InPass
<1>4. Deletion' /\ Search' /\ TriedInVain' /\ EndFacts'
  BY <1>2, NotSettled DEF Deletion, Search, TriedInVain, InValues
<1> QED
  BY <1>3, <1>4 DEF Inv

(* Setting the first group aside once zero has been tried for it.          *)
LEMMA NextGroupKeeps ==
  ASSUME Inv, Lowering, probe.stage # "zero", NextGroup,
         UNCHANGED <<strategy, test, pc, choices, best, canonical, runDelete>>,
         Remembered \subseteq Remembered'
  PROVE  Search' /\ TriedInVain'
<1>1. /\ pc \in {"values", "duplicates"} /\ InValues
      /\ work \subseteq Groups /\ work' = work \ {First(work)} /\ probe' = NoProbe
  BY DEF Lowering, InValues, Inv, Search, NextGroup
<1>2. /\ Deterministic' = Deterministic
      /\ \A d : ValueWork(d)' = ValueWork(d)
      /\ \A d, size, start : NoDeletion(d, size, start) => NoDeletion(d, size, start)'
      /\ \A d, groups : NoZero(d, groups) => NoZero(d, groups)'
  BY Frame, StaysInVain
<1>3. Search'
  <2>1. Groups' = Groups
    BY <1>1, <1>2 DEF Groups, DuplicateWork
  <2> QED
    BY <1>1, <2>1 DEF Search, NoProbe
<1>4. ASSUME Deterministic
      PROVE  /\ runDelete => NoDeletion(canonical, 6, 1)
             /\ pc = "values" => NoZero(canonical, ValueWork(canonical) \ work')
             /\ pc # "values" => NoZero(canonical, ValueWork(canonical))
  <2>1. /\ runDelete => NoDeletion(canonical, 6, 1)
        /\ pc = "values" => NoZero(canonical, ValueWork(canonical) \ work)
        /\ pc = "values" => NoZero(canonical, {First(work)})
        /\ pc # "values" => NoZero(canonical, ValueWork(canonical))
    BY <1>1, <1>4 DEF Inv, TriedInVain
  <2>2. pc = "values" => NoZero(canonical, ValueWork(canonical) \ work')
    BY <1>1, <2>1 DEF NoZero
  <2> QED
    BY <2>1, <2>2
<1>5. TriedInVain'
  BY <1>1, <1>2, <1>4 DEF TriedInVain, NoProbe
<1> QED
  BY <1>3, <1>5

LEMMA LowerTrialStep ==
  ASSUME Inv, NEW o \in Outcomes, LowerTrial(o)
  PROVE  Inv'
<1> DEFINE g == First(work)
           trial == Lowered(First(work), ProbeValue)
<1>1. /\ Lowering /\ Searching /\ o \in Run(trial) /\ Slip(trial, o)
      /\ UNCHANGED <<strategy, test, best, canonical, runDelete>>
  BY DEF LowerTrial, given, loopVars, deleteVars
<1>2. /\ Current /\ Search /\ InPass /\ InValues /\ pc \in {"values", "duplicates"}
      /\ work # {} /\ canonical \in Examples(strategy) /\ canonical \in Seq(Choice)
  <2>1. /\ Current /\ Search /\ InPass /\ InValues /\ pc \in {"values", "duplicates"}
        /\ work # {}
    BY <1>1 DEF Inv, Lowering, InPass, InValues
  <2>2. canonical \in Examples(strategy) /\ strategy \in Strategies
    BY <2>1 DEF Current
  <2> QED
    BY <2>1, <2>2, ExampleFacts
<1>3. trial \in Seq(Choice)
  BY <1>1, <1>2, LowerTrialFacts
<1>4. Slips' /\ Remembered \subseteq Remembered'
  BY <1>1, <1>3, SlipKept DEF Inv
<1>5. /\ Index(g) \in Nat
      /\ ProbeValue \in Nat /\ ProbeValue < Index(g)
  BY <1>1, <1>2, ProbeFacts
<1>6. /\ Deterministic' = Deterministic
      /\ \A d : ValueWork(d)' = ValueWork(d)
      /\ \A d, size, start : NoDeletion(d, size, start) => NoDeletion(d, size, start)'
      /\ \A d, groups : NoZero(d, groups) => NoZero(d, groups)'
      /\ \A r : Run(r) \subseteq {"pass"} \cup Remembered' => InVain(r)'
  BY <1>1, <1>4, Frame, StaysInVain
<1>7. /\ work \subseteq Groups
      /\ probe \in [stage : {"zero", "bisect", "confirm"}, lo : Nat, hi : Nat]
      /\ probe.stage # "zero" => probe.hi <= Index(g)
  BY <1>2 DEF Search
<1>8. ASSUME Deterministic
      PROVE  /\ runDelete => NoDeletion(canonical, 6, 1)
             /\ pc = "values" => NoZero(canonical, ValueWork(canonical) \ work)
             /\ pc = "values" /\ probe.stage # "zero" => NoZero(canonical, {g})
             /\ pc # "values" => NoZero(canonical, ValueWork(canonical))
  BY <1>2, <1>8 DEF Inv, TriedInVain
<1>9. CASE /\ probe.stage = "bisect"
           /\ probe' = IF Accepts(o) THEN [probe EXCEPT !.hi = ProbeValue]
                                     ELSE [probe EXCEPT !.lo = ProbeValue]
           /\ UNCHANGED <<pc, choices, shrinks, work>>
  <2>1. /\ probe' \in [stage : {"zero", "bisect", "confirm"}, lo : Nat, hi : Nat]
        /\ probe'.stage = "bisect" /\ (probe'.hi = probe.hi \/ probe'.hi = ProbeValue)
    <3>1. CASE Accepts(o)
      <4>1. probe' = [probe EXCEPT !.hi = ProbeValue]
        BY <1>9, <3>1
      <4> QED
        BY <1>5, <1>7, <1>9, <4>1
    <3>2. CASE ~Accepts(o)
      <4>1. probe' = [probe EXCEPT !.lo = ProbeValue]
        BY <1>9, <3>2
      <4> QED
        BY <1>5, <1>7, <1>9, <4>1
    <3> QED
      BY <3>1, <3>2
  <2>2. UNCHANGED <<pc, choices, work, canonical>>
    BY <1>1, <1>9
  <2>3. Groups' = Groups /\ Index(First(work))' = Index(First(work))
    <3>1. Groups' = Groups
      BY <1>2, <1>6, <2>2 DEF Groups, DuplicateWork
    <3>2. Index(First(work))' = Index(First(work))
      BY <2>2 DEF Index, First
    <3> QED
      BY <3>1, <3>2
  <2>4. probe'.hi <= Index(g)
    BY <1>5, <1>7, <1>9, <2>1
  <2>5. Search'
    BY <1>2, <1>7, <2>1, <2>2, <2>3, <2>4 DEF Search
  <2>6. TriedInVain'
    BY <1>1, <1>2, <1>6, <1>8, <1>9, <2>1, <2>2 DEF TriedInVain
  <2> QED
    BY <1>1, <1>2, <1>4, <2>2, <2>5, <2>6, StaysInPass DEF InValues
<1>10. CASE Accepts(o) /\ Shrunk(trial)
  <2>1. Target \in Run(trial)
    BY <1>1, <1>10 DEF Accepts
  <2> QED
    BY <1>1, <1>2, <1>3, <1>4, <1>10, <2>1, AcceptedStep
<1>11. CASE /\ probe.stage = "zero" /\ ~Accepts(o)
            /\ probe' = [stage |-> "bisect", lo |-> 0, hi |-> Index(First(work))]
            /\ UNCHANGED <<pc, choices, shrinks, work>>
  <2>1. UNCHANGED <<pc, choices, work, canonical>>
    BY <1>1, <1>11
  <2>2. Groups' = Groups /\ Index(First(work))' = Index(First(work))
    <3>1. Groups' = Groups
      BY <1>2, <1>6, <2>1 DEF Groups, DuplicateWork
    <3>2. Index(First(work))' = Index(First(work))
      BY <2>1 DEF Index, First
    <3> QED
      BY <3>1, <3>2
  <2>3. Search'
    BY <1>2, <1>5, <1>7, <1>11, <2>1, <2>2 DEF Search
  <2>4. ASSUME Deterministic, pc = "values"
        PROVE  NoZero(canonical, {g})'
    <3>1. Run(trial) \subseteq {"pass"} \cup Remembered'
      BY <1>1, <1>3, <1>11, <2>4, TrialInVain DEF Inv
    <3>2. ProbeValue = 0
      BY <1>11 DEF ProbeValue
    <3>3. PICK i \in DOMAIN canonical : g = {i}
      <4>1. g \in Groups
        BY <1>2, FirstGroup
      <4> QED
        BY <1>2, <2>4, <4>1, GroupFacts
    <3>4. trial = Simplest(canonical, g)
      BY <1>2, <3>2, <3>3, LoweredToZero
    <3>5. First(work)' = First(work)
      BY <2>1 DEF First
    <3>6. InVain(Simplest(canonical, g))'
      BY <1>6, <2>1, <3>1, <3>4, <3>5
    <3> QED
      BY <3>6 DEF NoZero
  <2>5. TriedInVain'
    BY <1>1, <1>2, <1>6, <1>8, <2>1, <2>4 DEF TriedInVain
  <2> QED
    BY <1>1, <1>2, <1>4, <2>1, <2>3, <2>5, StaysInPass DEF InValues
<1>12. CASE /\ probe.stage = "confirm" /\ NextGroup
            /\ UNCHANGED <<pc, choices, shrinks>>
  <2>1. Search' /\ TriedInVain'
    BY <1>1, <1>4, <1>12, NextGroupKeeps
  <2> QED
    BY <1>1, <1>2, <1>4, <1>12, <2>1, StaysInPass DEF InValues
<1> QED
  BY <1>9, <1>10, <1>11, <1>12 DEF LowerTrial

LEMMA LowerNextStageStep ==
  ASSUME Inv, LowerNextStage
  PROVE  Inv'
<1>1. /\ Lowering /\ ~Searching
      /\ UNCHANGED <<strategy, test, pc, choices, best, canonical, runDelete, slipped>>
  BY DEF LowerNextStage, given, loopVars, deleteVars
<1>2. /\ Current /\ Search /\ InPass /\ InValues /\ pc \in {"values", "duplicates"}
  BY <1>1 DEF Inv, Lowering, InPass, InValues
<1>3. /\ \A r : Run(r)' = Run(r)
      /\ Deterministic' = Deterministic
      /\ \A d : ValueWork(d)' = ValueWork(d)
      /\ \A d, size, start : NoDeletion(d, size, start) => NoDeletion(d, size, start)'
      /\ \A d, groups : NoZero(d, groups) => NoZero(d, groups)'
  BY <1>1, Frame, StaysInVain DEF Remembered
<1>4. Slips'
  BY <1>1 DEF Inv, Slips, Remembered
<1>5. InValues'
  BY <1>1, <1>2 DEF InValues
<1>6. CASE probe.stage = "bisect"
  <2>1. probe' = [probe EXCEPT !.stage = "confirm"] /\ work' = work
    BY <1>6 DEF LowerNextStage
  <2>2. /\ work \subseteq Groups /\ work # {} /\ probe.hi <= Index(First(work))
        /\ probe \in [stage : {"zero", "bisect", "confirm"}, lo : Nat, hi : Nat]
    BY <1>2, <1>6 DEF Search
  <2>3. /\ probe' \in [stage : {"zero", "bisect", "confirm"}, lo : Nat, hi : Nat]
        /\ probe'.hi = probe.hi /\ probe'.stage = "confirm"
    BY <2>1, <2>2
  <2>4. Groups' = Groups
    BY <1>1, <1>2, <1>3, <2>1 DEF Groups, DuplicateWork
  <2>5. Index(First(work))' = Index(First(work))
    BY <1>1, <2>1 DEF Index, First
  <2>6. Search'
    BY <1>1, <1>2, <2>1, <2>2, <2>3, <2>4, <2>5 DEF Search
  <2>7. ASSUME Deterministic
        PROVE  /\ runDelete => NoDeletion(canonical, 6, 1)
               /\ pc = "values" => NoZero(canonical, ValueWork(canonical) \ work)
               /\ pc = "values" => NoZero(canonical, {First(work)})
               /\ pc # "values" => NoZero(canonical, ValueWork(canonical))
    BY <1>2, <1>6, <2>7 DEF Inv, TriedInVain
  <2>8. TriedInVain'
    BY <1>1, <1>2, <1>3, <2>1, <2>7 DEF TriedInVain
  <2> QED
    BY <1>1, <1>2, <1>4, <1>5, <2>6, <2>8, StaysInPass
<1>7. CASE probe.stage # "bisect"
  <2>1. NextGroup
    BY <1>7 DEF LowerNextStage
  <2>2. probe.stage # "zero"
    BY <1>1 DEF Searching
  <2>3. Search' /\ TriedInVain'
    BY <1>1, <2>1, <2>2, NextGroupKeeps DEF Remembered
  <2> QED
    BY <1>1, <1>2, <1>4, <1>5, <2>3, StaysInPass
<1> QED
  BY <1>6, <1>7

LEMMA ValuesDoneStep ==
  ASSUME Inv, ValuesDone
  PROVE  Inv'
<1>1. /\ pc = "values" /\ work = {} /\ pc' = "duplicates"
      /\ work' = DuplicateWork(canonical) /\ probe' = NoProbe
      /\ UNCHANGED <<strategy, test, choices, best, canonical, runDelete, slipped>>
  BY DEF ValuesDone, given, loopVars, deleteVars
<1>2. Current /\ InPass /\ InValues /\ InValues'
  BY <1>1 DEF Inv, InPass, InValues
<1>3. /\ \A r : Run(r)' = Run(r)
      /\ Deterministic' = Deterministic
      /\ \A d : ValueWork(d)' = ValueWork(d)
      /\ \A d, size, start : NoDeletion(d, size, start) => NoDeletion(d, size, start)'
      /\ \A d, groups : NoZero(d, groups) => NoZero(d, groups)'
  BY <1>1, Frame, StaysInVain DEF Remembered
<1>4. Slips'
  BY <1>1 DEF Inv, Slips, Remembered
<1>5. Search'
  <2>1. Groups' = DuplicateWork(canonical)
    BY <1>1 DEF Groups, DuplicateWork
  <2> QED
    BY <1>1, <2>1 DEF Search, NoProbe
<1>6. ASSUME Deterministic
      PROVE  /\ runDelete => NoDeletion(canonical, 6, 1)
             /\ NoZero(canonical, ValueWork(canonical))
  <2>1. /\ runDelete => NoDeletion(canonical, 6, 1)
        /\ NoZero(canonical, ValueWork(canonical) \ work)
    BY <1>1, <1>2, <1>6 DEF Inv, TriedInVain
  <2>2. ValueWork(canonical) \ work = ValueWork(canonical)
    BY <1>1
  <2> QED
    BY <2>1, <2>2
<1>7. TriedInVain'
  BY <1>1, <1>3, <1>6 DEF TriedInVain
<1> QED
  BY <1>1, <1>2, <1>4, <1>5, <1>7, StaysInPass

LEMMA DuplicatesDoneStep ==
  ASSUME Inv, DuplicatesDone
  PROVE  Inv'
<1>1. /\ pc = "duplicates" /\ work = {} /\ pc' = "pairs"
      /\ work' = PairWork(canonical) /\ probe' = NoProbe
      /\ UNCHANGED <<strategy, test, choices, best, canonical, runDelete, slipped>>
  BY DEF DuplicatesDone, given, loopVars, deleteVars
<1>2. Current /\ InPass /\ InValues /\ InValues'
  BY <1>1 DEF Inv, InPass, InValues
<1>3. /\ \A r : Run(r)' = Run(r)
      /\ Deterministic' = Deterministic
      /\ \A d : ValueWork(d)' = ValueWork(d)
      /\ \A d, size, start : NoDeletion(d, size, start) => NoDeletion(d, size, start)'
      /\ \A d, groups : NoZero(d, groups) => NoZero(d, groups)'
  BY <1>1, Frame, StaysInVain DEF Remembered
<1>4. Slips'
  BY <1>1 DEF Inv, Slips, Remembered
<1>5. Groups' = PairWork(canonical) /\ PairWork(canonical)' = PairWork(canonical)
  BY <1>1 DEF Groups, PairWork
<1>6. Search'
  BY <1>1, <1>5 DEF Search, NoProbe
<1>7. ASSUME Deterministic
      PROVE  /\ runDelete => NoDeletion(canonical, 6, 1)
             /\ NoZero(canonical, ValueWork(canonical))
  BY <1>1, <1>2, <1>7 DEF Inv, TriedInVain
<1>8. TriedInVain'
  <2>1. NoZero(canonical, {})
    BY DEF NoZero
  <2>2. (PairWork(canonical) \ work)' = {}
    BY <1>1, <1>5
  <2> QED
    BY <1>1, <1>3, <1>7, <2>1, <2>2 DEF TriedInVain
<1> QED
  BY <1>1, <1>2, <1>4, <1>6, <1>8, StaysInPass

LEMMA PairTrialStep ==
  ASSUME Inv, NEW o \in Outcomes, PairTrial(o)
  PROVE  Inv'
<1> DEFINE g == First(work)
           trial == Simplest(canonical, g)
<1>1. /\ pc = "pairs" /\ work # {} /\ o \in Run(trial) /\ Slip(trial, o)
      /\ UNCHANGED <<strategy, test, best, canonical, runDelete, probe>>
  BY DEF PairTrial, given, loopVars, deleteVars
<1>2. Current /\ Search /\ InPass /\ InValues
  BY <1>1 DEF Inv, InPass, InValues
<1>3. trial \in Seq(Choice)
  BY <1>1, <1>2, PairTrialFacts
<1>4. Slips' /\ Remembered \subseteq Remembered'
  BY <1>1, <1>3, SlipKept DEF Inv
<1>5. /\ Deterministic' = Deterministic
      /\ \A d : ValueWork(d)' = ValueWork(d)
      /\ \A d, size, start : NoDeletion(d, size, start) => NoDeletion(d, size, start)'
      /\ \A d, groups : NoZero(d, groups) => NoZero(d, groups)'
      /\ \A r : InVain(r) => InVain(r)'
      /\ \A r : Run(r) \subseteq {"pass"} \cup Remembered' => InVain(r)'
  BY <1>1, <1>4, Frame, StaysInVain
<1>6. CASE Accepts(o)
  <2>1. Shrunk(trial) /\ Target \in Run(trial)
    BY <1>1, <1>6 DEF PairTrial, Accepts
  <2> QED
    BY <1>1, <1>2, <1>3, <1>4, <2>1, AcceptedStep
<1>7. CASE ~Accepts(o)
  <2>1. work' = work \ {g} /\ UNCHANGED <<pc, choices>>
    BY <1>7 DEF PairTrial
  <2>2. Groups' = PairWork(canonical) /\ PairWork(canonical)' = PairWork(canonical)
    BY <1>1, <2>1 DEF Groups, PairWork
  <2>3. /\ work \subseteq PairWork(canonical) /\ probe.stage = "zero"
        /\ probe \in [stage : {"zero", "bisect", "confirm"}, lo : Nat, hi : Nat]
    BY <1>1, <1>2 DEF Search, Groups
  <2>4. Search'
    BY <1>1, <2>1, <2>2, <2>3 DEF Search
  <2>5. ASSUME Deterministic
        PROVE  /\ runDelete => NoDeletion(canonical, 6, 1)
               /\ NoZero(canonical, ValueWork(canonical))
               /\ NoZero(canonical, PairWork(canonical) \ work)'
    <3>1. /\ runDelete => NoDeletion(canonical, 6, 1)
          /\ NoZero(canonical, ValueWork(canonical))
          /\ NoZero(canonical, PairWork(canonical) \ work)
      BY <1>1, <1>2, <2>5 DEF Inv, TriedInVain
    <3>2. Run(trial) \subseteq {"pass"} \cup Remembered'
      BY <1>1, <1>3, <1>7, <2>5, TrialInVain DEF Inv
    <3>3. ASSUME NEW h \in (PairWork(canonical) \ work)'
          PROVE  InVain(Simplest(canonical, h))'
      <4>1. h = g \/ h \in PairWork(canonical) \ work
        BY <2>1, <2>2, <3>3
      <4>2. \/ InVain(Simplest(canonical, h))
            \/ Run(Simplest(canonical, h)) \subseteq {"pass"} \cup Remembered'
        BY <3>1, <3>2, <4>1 DEF NoZero
      <4> QED
        BY <1>1, <1>5, <4>2
    <3> QED
      BY <3>1, <3>3 DEF NoZero
  <2>6. TriedInVain'
    BY <1>1, <1>5, <2>1, <2>2, <2>5 DEF TriedInVain
  <2>7. InValues'
    BY <1>1, <2>1 DEF InValues
  <2> QED
    BY <1>1, <1>2, <1>4, <2>1, <2>4, <2>6, <2>7, StaysInPass
<1> QED
  BY <1>6, <1>7

LEMMA FixpointStep ==
  ASSUME Inv, Fixpoint
  PROVE  Inv'
<1>1. /\ pc = "pairs" /\ work = {} /\ pc' \in {"done", "top"}
      /\ pc' = "done" => runDelete
      /\ UNCHANGED <<strategy, test, choices, best, canonical, slipped>>
  BY DEF Fixpoint, given, loopVars
<1>2. /\ Current /\ InValues /\ canonical \in Examples(strategy)
      /\ canonical = Canon(strategy, choices) /\ best = canonical
  BY <1>1 DEF Inv, Current, InPass, InValues
<1>3. /\ \A r : Run(r)' = Run(r)
      /\ Deterministic' = Deterministic
      /\ \A d : ValueWork(d)' = ValueWork(d)
  BY <1>1, Frame
<1>4. Current'
  BY <1>1, <1>2, <1>3 DEF Current, InPass
<1>5. Deletion' /\ Search' /\ TriedInVain'
  BY <1>1 DEF Deletion, Search, TriedInVain, InValues
<1>6. Slips'
  BY <1>1 DEF Inv, Slips, Remembered
<1>7. ReportMatchesChoices'
  BY <1>1, <1>2 DEF ReportMatchesChoices, Canon
<1>8. ASSUME Deterministic, runDelete, NEW raw \in OneStep(canonical)
      PROVE  InVain(raw)
  <2>1. /\ NoDeletion(canonical, 6, 1) /\ NoZero(canonical, ValueWork(canonical))
        /\ NoZero(canonical, PairWork(canonical))
    <3>1. /\ NoDeletion(canonical, 6, 1) /\ NoZero(canonical, ValueWork(canonical))
          /\ NoZero(canonical, PairWork(canonical) \ work)
      BY <1>1, <1>2, <1>8 DEF Inv, TriedInVain
    <3>2. PairWork(canonical) \ work = PairWork(canonical)
      BY <1>1
    <3> QED
      BY <3>1, <3>2
  <2>2. CASE \E h \in ValueWork(canonical) \cup PairWork(canonical) :
               raw = Simplest(canonical, h)
    BY <2>1, <2>2 DEF NoZero
  <2>3. CASE \E size \in Range(BlockSizes), i \in DOMAIN canonical :
               raw = Without(canonical, i, size)
    <3>1. PICK k \in DOMAIN BlockSizes, i \in DOMAIN canonical :
            raw = Without(canonical, i, BlockSizes[k])
      BY <2>3 DEF Range
    <3>2. Before(k, i, 6, 1)
      BY DEF Before, BlockSizes
    <3> QED
      BY <2>1, <3>1, <3>2 DEF NoDeletion
  <2> QED
    BY <2>2, <2>3 DEF OneStep
<1>9. LocalMinimum' /\ NearbyBugsRemembered'
  <2>1. \A c : OneStep(c)' = OneStep(c)
    BY <1>3 DEF OneStep
  <2>2. Canon(strategy, choices)' = canonical
    BY <1>1, <1>2 DEF Canon
  <2>3. ASSUME Settled'
        PROVE  \A raw \in OneStep(canonical) : Run(raw) \subseteq {"pass"} \cup Remembered
    <3>1. Deterministic /\ runDelete
      BY <1>1, <1>3, <2>3 DEF Settled
    <3> QED
      BY <1>8, <3>1 DEF InVain
  <2>4. Remembered' = Remembered /\ Target \notin {"pass"} \cup Remembered
    BY <1>1, OriginsAssumption DEF Inv, Slips, Remembered
  <2>5. LocalMinimum'
    BY <1>3, <2>1, <2>2, <2>3, <2>4 DEF LocalMinimum
  <2>6. NearbyBugsRemembered'
    BY <1>3, <2>1, <2>2, <2>3, <2>4 DEF NearbyBugsRemembered
  <2> QED
    BY <2>5, <2>6
<1> QED
  BY <1>4, <1>5, <1>6, <1>7, <1>9 DEF Inv, EndFacts

-----------------------------------------------------------------------------
(* What every behaviour keeps                                              *)

LEMMA InitInv == Init => Inv
<1> SUFFICES ASSUME Init PROVE Inv
  OBVIOUS
<1>1. /\ strategy \in Strategies /\ DOMAIN test = Examples(strategy)
      /\ choices \in Examples(strategy) /\ Target \in test[choices]
      /\ pc = "top" /\ slipped = <<>>
  BY DEF Init
<1>2. choices \in Seq(Choice) /\ Canon(strategy, choices) = choices
  BY <1>1, ExampleFacts, CanonOfExample
<1>3. Target \in Run(choices)
  BY <1>1, <1>2 DEF Run
<1>4. Current
  BY <1>1, <1>2, <1>3 DEF Current, InPass
<1>5. Deletion /\ Search /\ TriedInVain /\ EndFacts
  BY <1>1 DEF Deletion, Search, TriedInVain, InValues, EndFacts, LocalMinimum,
              NearbyBugsRemembered, ReportMatchesChoices, Settled
<1>6. Slips
  BY <1>1 DEF Slips, Remembered
<1> QED
  BY <1>4, <1>5, <1>6 DEF Inv

LEMMA StepInv == Inv /\ [Next]_vars => Inv'
<1> SUFFICES ASSUME Inv, [Next]_vars PROVE Inv'
  OBVIOUS
<1>1. CASE Limit
  BY <1>1, LimitStep
<1>2. CASE DeleteNextSize
  BY <1>2, DeleteNextSizeStep
<1>3. CASE DeleteDone
  BY <1>3, DeleteDoneStep
<1>4. CASE LowerNextStage
  BY <1>4, LowerNextStageStep
<1>5. CASE ValuesDone
  BY <1>5, ValuesDoneStep
<1>6. CASE DuplicatesDone
  BY <1>6, DuplicatesDoneStep
<1>7. CASE Fixpoint
  BY <1>7, FixpointStep
<1>8. ASSUME NEW o \in Outcomes, Replay(o) \/ DeleteTrial(o) \/ LowerTrial(o) \/ PairTrial(o)
      PROVE  Inv'
  BY <1>8, ReplayStep, DeleteTrialStep, LowerTrialStep, PairTrialStep
<1>9. CASE UNCHANGED vars
  <2>1. UNCHANGED <<strategy, test, pc, choices, best, canonical, limited, runDelete, del,
                    work, probe, slipped>>
    BY <1>9 DEF vars, given, loopVars, deleteVars, valueVars
  <2>2. /\ \A r : Run(r)' = Run(r)
        /\ Deterministic' = Deterministic
        /\ \A d : ValueWork(d)' = ValueWork(d)
        /\ \A d, size, start : NoDeletion(d, size, start) => NoDeletion(d, size, start)'
        /\ \A d, groups : NoZero(d, groups) => NoZero(d, groups)'
    BY <2>1, Frame, StaysInVain DEF Remembered
  <2>3. Current'
    BY <2>1, <2>2 DEF Inv, Current, InPass
  <2>4. Deletion'
    BY <2>1, <2>2 DEF Inv, Deletion
  <2>5. Search'
    <3>1. InValues => Groups' = Groups
      BY <2>1, <2>2 DEF InValues, Groups, DuplicateWork, PairWork
    <3>2. Index(First(work))' = Index(First(work))
      BY <2>1 DEF Index, First
    <3> QED
      BY <2>1, <3>1, <3>2 DEF Inv, Search, InValues
  <2>6. TriedInVain'
    <3>1. PairWork(canonical)' = PairWork(canonical)
      BY <2>1 DEF PairWork
    <3> QED
      BY <2>1, <2>2, <3>1 DEF Inv, TriedInVain, InValues, First
  <2>7. LocalMinimum' /\ NearbyBugsRemembered'
    <3>1. OneStep(Canon(strategy, choices))' = OneStep(Canon(strategy, choices))
      BY <2>1 DEF OneStep, ValueWork, Forced, Canon
    <3> QED
      BY <2>1, <2>2, <3>1 DEF Inv, EndFacts, LocalMinimum, NearbyBugsRemembered, Settled,
                                 Remembered
  <2>8. ReportMatchesChoices' /\ Slips'
    BY <2>1, <2>2 DEF Inv, EndFacts, ReportMatchesChoices, Settled, Slips, Remembered, Canon
  <2> QED
    BY <2>1, <2>3, <2>4, <2>5, <2>6, <2>7, <2>8 DEF Inv, EndFacts
<1> QED
  BY <1>1, <1>2, <1>3, <1>4, <1>5, <1>6, <1>7, <1>8, <1>9 DEF Next

(* The invariant holds in every state the shrink loop reaches.             *)
THEOREM Invariance == Spec => []Inv
<1> QED
  BY InitInv, StepInv, PTL DEF Spec

(* Shrinking that ends by itself, with a deterministic test, ends where no *)
(* deletion and no zeroed choice would still fail, nor a zeroed pair of    *)
(* scalars when there are at most MaxGrouped choices.                      *)
THEOREM EndsAtLocalMinimum == Spec => []LocalMinimum
<1>1. Inv => LocalMinimum
  BY DEF Inv, EndFacts
<1> QED
  BY <1>1, Invariance, PTL

(* There, the arguments and the exception returned are those of the        *)
(* choices returned.                                                       *)
THEOREM ReportIsOfChoices == Spec => []ReportMatchesChoices
<1>1. Inv => ReportMatchesChoices
  BY DEF Inv, EndFacts
<1> QED
  BY <1>1, Invariance, PTL

(* There, every other bug that a deletion, a zeroed choice or a zeroed     *)
(* pair meets is remembered.                                               *)
THEOREM NoNearbyBugIsLost == Spec => []NearbyBugsRemembered
<1>1. Inv => NearbyBugsRemembered
  BY DEF Inv, EndFacts
<1> QED
  BY <1>1, Invariance, PTL

-----------------------------------------------------------------------------
(* The refinement of Descent                                               *)

(* Accepting a trial that replays to the example worked on changes nothing *)
(* there; otherwise it is a step of the descent.                           *)
LEMMA ShrunkDescends ==
  ASSUME Inv, InPass, NEW raw \in Seq(Choice), Target \in Run(raw), Shrunk(raw),
         UNCHANGED <<strategy, test>>,
         Canon(strategy, raw) = canonical \/ Simpler(Canon(strategy, raw), canonical)
  PROVE  [Descends!Next]_(Descends!vars)
<1> DEFINE fails == {c \in DOMAIN test : Target \in test[c]}
           current == Canon(strategy, choices)
<1>1. pc # "done" /\ pc' = "top" /\ choices' = raw
  BY DEF InPass, Shrunk
<1>2. current = canonical /\ current' = Canon(strategy, raw) /\ fails' = fails
  BY <1>1 DEF Inv, Current, Canon
<1>3. Canon(strategy, raw) \in fails
  BY RunTarget
<1>4. CASE Canon(strategy, raw) = canonical
  BY <1>1, <1>2, <1>4 DEF Descends!vars
<1>5. CASE Simpler(Canon(strategy, raw), canonical)
  <2>1. Descends!Descend
    BY <1>1, <1>2, <1>3, <1>5 DEF Descends!Descend
  <2> QED
    BY <2>1 DEF Descends!Next
<1> QED
  BY <1>4, <1>5

(* A step that keeps the choices stays where it is, or ends the descent.   *)
LEMMA KeptDescends ==
  ASSUME UNCHANGED <<strategy, test, choices>>, pc' = pc \/ pc # "done"
  PROVE  [Descends!Next]_(Descends!vars)
<1>1. /\ {c \in DOMAIN test : Target \in test[c]}' = {c \in DOMAIN test : Target \in test[c]}
      /\ Canon(strategy, choices)' = Canon(strategy, choices)
  BY DEF Canon
<1>2. CASE (pc = "done") = (pc' = "done")
  BY <1>1, <1>2 DEF Descends!vars
<1>3. CASE pc # "done" /\ pc' = "done"
  BY <1>1, <1>3 DEF Descends!Next, Descends!Finish
<1> QED
  BY <1>2, <1>3

LEMMA InitDescends == Init => Descends!Init
<1> SUFFICES ASSUME Init PROVE Descends!Init
  OBVIOUS
<1>1. /\ strategy \in Strategies /\ DOMAIN test = Examples(strategy)
      /\ choices \in Examples(strategy) /\ Target \in test[choices] /\ pc = "top"
  BY DEF Init
<1>2. Canon(strategy, choices) = choices
  BY <1>1, CanonOfExample
<1> QED
  BY <1>1, <1>2 DEF Descends!Init

LEMMA StepDescends == Inv /\ [Next]_vars => [Descends!Next]_(Descends!vars)
<1> SUFFICES ASSUME Inv, [Next]_vars PROVE [Descends!Next]_(Descends!vars)
  OBVIOUS
<1>1. CASE Limit \/ DeleteNextSize \/ LowerNextStage \/ ValuesDone \/ DuplicatesDone \/ Fixpoint
  <2>1. UNCHANGED <<strategy, test, choices>> /\ pc # "done"
    BY <1>1 DEF Limit, DeleteNextSize, LowerNextStage, ValuesDone, DuplicatesDone, Fixpoint,
                given, Deleting, Lowering
  <2> QED
    BY <2>1, KeptDescends
<1>2. CASE DeleteDone
  <2>1. pc = "delete" /\ InPass /\ UNCHANGED <<strategy, test>>
    BY <1>2 DEF DeleteDone, InPass, given
  <2>2. CASE ~del.improved
    <3>1. UNCHANGED choices
      BY <1>2, <2>2 DEF DeleteDone
    <3> QED
      BY <2>1, <3>1, KeptDescends
  <2>3. CASE del.improved
    <3>1. /\ Shrunk(del.cur) /\ del.cur \in Seq(Choice) /\ Target \in Run(del.cur)
          /\ Len(del.cur) < Len(canonical)
      BY <1>2, <2>1, <2>3 DEF DeleteDone, Inv, Deletion
    <3>2. /\ strategy \in Strategies /\ canonical \in Examples(strategy)
          /\ canonical \in Seq(Choice)
      <4>1. strategy \in Strategies /\ canonical \in Examples(strategy)
        BY <2>1 DEF Inv, Current
      <4> QED
        BY <4>1, ExampleFacts
    <3>3. Canon(strategy, del.cur) \in Seq(Choice) /\ Len(Canon(strategy, del.cur)) <= Len(del.cur)
      BY <3>1, <3>2, CanonFacts
    <3>4. Len(Canon(strategy, del.cur)) < Len(canonical)
      <4>1. /\ Len(Canon(strategy, del.cur)) \in Nat /\ Len(del.cur) \in Nat
            /\ Len(canonical) \in Nat
        BY <3>1, <3>2, <3>3
      <4> QED
        BY <3>1, <3>3, <4>1
    <3>5. Simpler(Canon(strategy, del.cur), canonical)
      BY <3>4 DEF Simpler
    <3> QED
      BY <2>1, <3>1, <3>5, ShrunkDescends
  <2> QED
    BY <2>2, <2>3
<1>3. ASSUME NEW o \in Outcomes, Replay(o) \/ DeleteTrial(o)
      PROVE  [Descends!Next]_(Descends!vars)
  <2>1. UNCHANGED <<strategy, test, choices>> /\ pc # "done"
    BY <1>3 DEF Replay, DeleteTrial, Deleting, given
  <2> QED
    BY <2>1, KeptDescends
<1>4. ASSUME NEW o \in Outcomes, LowerTrial(o)
      PROVE  [Descends!Next]_(Descends!vars)
  <2> DEFINE trial == Lowered(First(work), ProbeValue)
  <2>1. /\ Lowering /\ Searching /\ InPass /\ pc # "done" /\ o \in Run(trial)
        /\ UNCHANGED <<strategy, test>>
    BY <1>4 DEF LowerTrial, Lowering, InPass, given
  <2>2. /\ trial \in Seq(Choice)
        /\ Canon(strategy, trial) = canonical \/ Simpler(Canon(strategy, trial), canonical)
    BY <2>1, LowerTrialFacts DEF Inv
  <2> HIDE DEF trial
  <2>3. UNCHANGED <<pc, choices>> \/ (Accepts(o) /\ Shrunk(trial))
    BY <1>4 DEF LowerTrial, trial
  <2>4. CASE UNCHANGED <<pc, choices>>
    BY <2>1, <2>4, KeptDescends
  <2>5. CASE Accepts(o) /\ Shrunk(trial)
    <3>1. Target \in Run(trial)
      BY <2>1, <2>5 DEF Accepts
    <3> QED
      BY <2>1, <2>2, <2>5, <3>1, ShrunkDescends
  <2> QED
    BY <2>3, <2>4, <2>5
<1>5. ASSUME NEW o \in Outcomes, PairTrial(o)
      PROVE  [Descends!Next]_(Descends!vars)
  <2> DEFINE trial == Simplest(canonical, First(work))
  <2>1. /\ pc = "pairs" /\ work # {} /\ InPass /\ o \in Run(trial)
        /\ UNCHANGED <<strategy, test>>
    BY <1>5 DEF PairTrial, InPass, given
  <2>2. /\ trial \in Seq(Choice)
        /\ Canon(strategy, trial) = canonical \/ Simpler(Canon(strategy, trial), canonical)
    BY <2>1, PairTrialFacts DEF Inv
  <2> HIDE DEF trial
  <2>3. UNCHANGED <<pc, choices>> \/ (Accepts(o) /\ Shrunk(trial))
    BY <1>5 DEF PairTrial, trial
  <2>4. CASE UNCHANGED <<pc, choices>>
    BY <2>1, <2>4, KeptDescends
  <2>5. CASE Accepts(o) /\ Shrunk(trial)
    <3>1. Target \in Run(trial)
      BY <2>1, <2>5 DEF Accepts
    <3> QED
      BY <2>1, <2>2, <2>5, <3>1, ShrunkDescends
  <2> QED
    BY <2>3, <2>4, <2>5
<1>6. CASE UNCHANGED vars
  <2>1. UNCHANGED <<strategy, test, choices, pc>>
    BY <1>6 DEF vars, given
  <2> QED
    BY <2>1, KeptDescends
<1> QED
  BY <1>1, <1>2, <1>3, <1>4, <1>5, <1>6 DEF Next

(* Shrinking, even of a flaky test, only ever moves to a strictly simpler  *)
(* example with the same origin.                                           *)
THEOREM ShrinkingIsDescent == Spec => ShrinkingDescends
<1>1. Spec => []Inv
  BY Invariance
<1>2. Spec => Init /\ [][Next]_vars
  BY PTL DEF Spec
<1> QED
  BY <1>1, <1>2, InitDescends, StepDescends, PTL DEF ShrinkingDescends, Descends!Spec
=============================================================================
