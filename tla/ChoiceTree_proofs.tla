--------------------------- MODULE ChoiceTree_proofs ---------------------------
(* What is concluded from an exhausted tree is true, for every test whose     *)
(* choices are finite where they are counted, and every limit.                *)
EXTENDS ChoiceTree, FiniteSetTheorems, SequenceTheorems, WellFoundedInduction, TLAPS

--------------------------------------------------------------------------------
(* Prefixes. *)

\* Before(s, i) is what comes before the i-th choice of s, and so are its own prefixes.
LEMMA BeforeFacts ==
    ASSUME NEW s \in Seq(Values), NEW i \in 1 .. Len(s) + 1
    PROVE  /\ Before(s, i) \in Seq(Values) /\ Len(Before(s, i)) = i - 1
           /\ \A j \in 1 .. i - 1 : Before(s, i)[j] = s[j]
<1>1. \A j \in 1 .. i - 1 : s[j] \in Values
  BY ElementOfSeq, LenProperties
<1> QED BY <1>1, LenProperties, SubSeqProperties, SMT DEF Before

LEMMA BeforeBefore ==
    ASSUME NEW s \in Seq(Values), NEW i \in 1 .. Len(s) + 1, NEW j \in 1 .. i
    PROVE  Before(Before(s, i), j) = Before(s, j)
<1> DEFINE p == Before(s, i)
           q == Before(p, j)
           r == Before(s, j)
<1>1. p \in Seq(Values) /\ Len(p) = i - 1 /\ \A k \in 1 .. i - 1 : p[k] = s[k]
  BY BeforeFacts
<1>2. Len(s) \in Nat /\ j \in 1 .. Len(s) + 1 /\ j \in 1 .. Len(p) + 1
  BY <1>1, LenProperties
<1>3. r \in Seq(Values) /\ Len(r) = j - 1 /\ \A k \in 1 .. j - 1 : r[k] = s[k]
  BY <1>2, BeforeFacts
<1>4. q \in Seq(Values) /\ Len(q) = j - 1 /\ \A k \in 1 .. j - 1 : q[k] = p[k]
  <2> HIDE DEF p
  <2> QED BY <1>1, <1>2, BeforeFacts
<1> HIDE DEF p, q, r
<1>5. \A k \in 1 .. Len(q) : q[k] = r[k]
  BY <1>1, <1>2, <1>3, <1>4
<1>6. q = r
  BY <1>3, <1>4, <1>5, SeqEqual
<1> QED BY <1>6 DEF q, r, p

\* A prefix of an example is drawable, and a choice follows it.
LEMMA PrefixDrawable ==
    ASSUME NEW t \in Tests, NEW s \in Paths, Drawable(t, s), NEW i \in 1 .. Len(s) + 1
    PROVE  /\ Before(s, i) \in Paths /\ Drawable(t, Before(s, i))
           /\ i <= Len(s) => /\ ~NodeAt(t, Before(s, i)).end
                             /\ s[i] \in NodeAt(t, Before(s, i)).values
<1>1. s \in Seq(Values) /\ Len(s) \in Nat
  BY ChoiceTreeAssumption, LenProperties
<1>2. Before(s, Len(s) + 1) = s
  BY <1>1, SubSeqFull, SMT DEF Before
<1>3. Before(s, i) \in Paths
  BY <1>1, <1>2, ChoiceTreeAssumption
<1>4. Drawable(t, Before(s, i))
  <2> SUFFICES ASSUME NEW j \in 1 .. Len(Before(s, i))
               PROVE  /\ ~NodeAt(t, Before(Before(s, i), j)).end
                      /\ Before(s, i)[j] \in NodeAt(t, Before(Before(s, i), j)).values
    BY DEF Drawable
  <2>1. j \in 1 .. i - 1 /\ j \in 1 .. i /\ j \in 1 .. Len(s)
    BY <1>1, BeforeFacts
  <2>2. Before(Before(s, i), j) = Before(s, j) /\ Before(s, i)[j] = s[j]
    BY <1>1, <2>1, BeforeFacts, BeforeBefore
  <2> QED BY <2>1, <2>2 DEF Drawable
<1> QED BY <1>1, <1>3, <1>4 DEF Drawable

--------------------------------------------------------------------------------
(* Trees. *)

\* A tree holds nothing but paths of the test, counted as the test counts them.
Sound(tree) ==
    /\ <<>> \in DOMAIN tree
    /\ \A p \in DOMAIN tree :
          /\ p \in Paths /\ Drawable(test, p)
          /\ tree[p].max # None => tree[p].max = NodeAt(test, p).max
          /\ tree[p].terminal => NodeAt(test, p).end

LEMMA ChildFacts ==
    ASSUME test \in Tests, NEW tree, Sound(tree), NEW p \in Paths, NEW q \in Children(tree, p)
    PROVE  /\ q \in DOMAIN tree /\ q \in Seq(Values) /\ Len(p) \in Nat
           /\ Len(q) = Len(p) + 1 /\ Before(q, Len(q)) = p
           /\ ~NodeAt(test, p).end /\ q[Len(q)] \in NodeAt(test, p).values
           /\ \A i \in 1 .. Len(p) : q[i] = p[i]
<1>1. /\ q \in DOMAIN tree /\ q \in Paths /\ Drawable(test, q)
      /\ Len(q) = Len(p) + 1 /\ Before(q, Len(q)) = p
  BY DEF Children, Sound
<1>2. q \in Seq(Values) /\ Len(p) \in Nat
  BY <1>1, ChoiceTreeAssumption, LenProperties
<1>3. Len(q) \in 1 .. Len(q) /\ Len(q) \in 1 .. Len(q) + 1
  BY <1>1, <1>2
<1>4. ~NodeAt(test, p).end /\ q[Len(q)] \in NodeAt(test, p).values
  BY <1>1, <1>3 DEF Drawable
<1>5. \A i \in 1 .. Len(q) - 1 : Before(q, Len(q))[i] = q[i]
  BY <1>2, <1>3, BeforeFacts
<1> QED BY <1>1, <1>2, <1>4, <1>5

\* Children that differ, differ in their last choice.
LEMMA ChildrenDiffer ==
    ASSUME test \in Tests, NEW tree, Sound(tree), NEW p \in Paths,
           NEW q \in Children(tree, p), NEW r \in Children(tree, p), q[Len(q)] = r[Len(r)]
    PROVE  q = r
<1>1. /\ q \in Seq(Values) /\ Len(q) = Len(p) + 1 /\ \A i \in 1 .. Len(p) : q[i] = p[i]
      /\ r \in Seq(Values) /\ Len(r) = Len(p) + 1 /\ \A i \in 1 .. Len(p) : r[i] = p[i]
      /\ Len(p) \in Nat
  BY ChildFacts
<1>2. \A i \in 1 .. Len(q) : q[i] = r[i]
  BY <1>1
<1> QED BY <1>1, <1>2, SeqEqual

\* In an exhausted tree every value of every choice has been taken.
LEMMA ChildrenComplete ==
    ASSUME test \in Tests, NEW tree, Sound(tree), Exhausted(tree),
           NEW p \in DOMAIN tree, ~NodeAt(test, p).end, NEW v \in NodeAt(test, p).values
    PROVE  \E q \in Children(tree, p) : q[Len(q)] = v
<1> DEFINE C == Children(tree, p)
           V == NodeAt(test, p).values
           last == [q \in C |-> q[Len(q)]]
<1>1. p \in Paths /\ (tree[p].max # None => tree[p].max = NodeAt(test, p).max)
  BY DEF Sound
<1>2. C # {}
  BY DEF Exhausted, Sound
<1>3. NodeAt(test, p).max # None /\ Cardinality(C) >= NodeAt(test, p).max
  BY <1>1, <1>2 DEF Exhausted
<1>4. IsFiniteSet(V) /\ NodeAt(test, p).max \in Nat /\ Cardinality(V) <= NodeAt(test, p).max
  BY <1>1, <1>3, ChoiceTreeAssumption DEF IsChoice, IsEnd
<1>5. last \in [C -> V]
  BY <1>1, ChildFacts
<1>6. \A q, r \in C : last[q] = last[r] => q = r
  BY <1>1, ChildrenDiffer
<1>7. last \in Injection(C, V)
  BY <1>5, <1>6 DEF Injection, IsInjective
<1>8. /\ IsFiniteSet(C) /\ Cardinality(C) <= Cardinality(V)
      /\ Cardinality(C) = Cardinality(V) => last \in Surjection(C, V)
  BY <1>4, <1>7, FS_Injection
<1>9. Cardinality(C) \in Nat /\ Cardinality(V) \in Nat
  BY <1>4, <1>8, FS_CardinalityType
<1>10. last \in Surjection(C, V)
  BY <1>3, <1>4, <1>8, <1>9
<1> QED BY <1>10 DEF Surjection

\* engine.rs, exhausted: when it answers yes, every example of the test is in the tree.
THEOREM ExhaustedHoldsAll ==
    ASSUME test \in Tests, NEW tree, Sound(tree), Exhausted(tree), NEW s \in Examples(test)
    PROVE  HasTerminal(tree, s)
<1> DEFINE Missing == {i \in 1 .. Len(s) + 1 : Before(s, i) \notin DOMAIN tree}
<1>1. s \in Paths /\ s \in Seq(Values) /\ Len(s) \in Nat /\ Drawable(test, s) /\ NodeAt(test, s).end
  BY ChoiceTreeAssumption, LenProperties DEF Examples
<1>2. Missing = {}
  <2> SUFFICES ASSUME Missing # {} PROVE FALSE
    OBVIOUS
  <2>1. Missing \subseteq Nat
    BY <1>1
  <2>2. PICK i \in Missing : \A j \in Missing : ~(<<j, i>> \in OpToRel(<, Nat))
    BY <2>1, WFMin, NatLessThanWellFounded, ZenonT(60)
  <2>3. \A j \in Missing : ~(j < i)
    BY <2>1, <2>2 DEF OpToRel
  <2>4. Before(s, 1) = <<>>
    BY SubSeqEmpty DEF Before
  <2>5. i \in 1 .. Len(s) + 1 /\ i # 1 /\ i - 1 \in 1 .. Len(s)
    BY <1>1, <2>4 DEF Sound
  <2> DEFINE p == Before(s, i - 1)
  <2>6. p \in DOMAIN tree
    BY <1>1, <2>3, <2>5
  <2>7. ~NodeAt(test, p).end /\ s[i - 1] \in NodeAt(test, p).values
    BY <1>1, <2>5, PrefixDrawable
  <2>8. PICK q \in Children(tree, p) : q[Len(q)] = s[i - 1]
    <3> HIDE DEF p
    <3> QED BY <2>6, <2>7, ChildrenComplete
  <2>9. p \in Paths
    BY <2>6 DEF Sound
  <2>10. /\ q \in DOMAIN tree /\ q \in Seq(Values) /\ Len(q) = Len(p) + 1
         /\ \A j \in 1 .. Len(p) : q[j] = p[j]
    BY <2>9, ChildFacts
  <2>11. Len(p) = i - 2 /\ \A j \in 1 .. i - 2 : p[j] = s[j]
    <3>1. i - 1 \in 1 .. Len(s) + 1 /\ (i - 1) - 1 = i - 2
      BY <1>1, <2>5
    <3> QED BY <1>1, <3>1, BeforeFacts
  <2>12. /\ Before(s, i) \in Seq(Values) /\ Len(Before(s, i)) = i - 1
         /\ \A j \in 1 .. i - 1 : Before(s, i)[j] = s[j]
    BY <1>1, <2>5, BeforeFacts
  <2> HIDE DEF p
  <2>13. q = Before(s, i)
    <3>1. Len(q) = i - 1
      BY <1>1, <2>5, <2>10, <2>11
    <3>2. ASSUME NEW j \in 1 .. Len(q) PROVE q[j] = Before(s, i)[j]
      <4>1. j \in 1 .. i - 2 \/ j = i - 1
        BY <1>1, <2>5, <3>1
      <4>2. Before(s, i)[j] = s[j]
        BY <2>12, <3>1
      <4>3. CASE j = i - 1
        BY <2>8, <3>1, <4>2, <4>3
      <4>4. CASE j \in 1 .. i - 2
        BY <2>10, <2>11, <4>2, <4>4
      <4> QED BY <4>1, <4>3, <4>4
    <3> QED BY <2>10, <2>12, <3>1, <3>2, SeqEqual
  <2> QED BY <2>10, <2>13
<1>3. Before(s, Len(s) + 1) = s
  BY <1>1, SubSeqFull, SMT DEF Before
<1>4. s \in DOMAIN tree
  BY <1>1, <1>2, <1>3
<1>5. Children(tree, s) = {}
  BY <1>1, ChildFacts
<1> QED BY <1>4, <1>5 DEF Exhausted, HasTerminal

\* Adding an example keeps a tree sound and adds that example only.
LEMMA AddSound ==
    ASSUME test \in Tests, NEW tree, Sound(tree), NEW s \in Examples(test)
    PROVE  /\ Sound(Add(tree, s))
           /\ \A r : HasTerminal(Add(tree, s), r) => r = s \/ HasTerminal(tree, r)
<1> DEFINE new == Add(tree, s)
<1>1. s \in Paths /\ s \in Seq(Values) /\ Len(s) \in Nat /\ Drawable(test, s) /\ NodeAt(test, s).end
  BY ChoiceTreeAssumption, LenProperties DEF Examples
<1>2. DOMAIN new = DOMAIN tree \cup Prefixes(s)
  BY DEF Add
<1>3. \A p \in DOMAIN new :
         /\ new[p].terminal <=> OldNode(tree, p).terminal \/ p = s
         /\ new[p].max \in {OldNode(tree, p).max, NodeAt(test, p).max}
  BY DEF Add
<1> HIDE DEF new
<1>4. \A p \in DOMAIN new \ DOMAIN tree : p \in Paths /\ Drawable(test, p)
  BY <1>1, <1>2, PrefixDrawable DEF Prefixes
<1>5. ASSUME NEW p \in DOMAIN new
      PROVE  /\ p \in Paths /\ Drawable(test, p)
             /\ new[p].max # None => new[p].max = NodeAt(test, p).max
             /\ new[p].terminal => NodeAt(test, p).end
             /\ new[p].terminal => p = s \/ HasTerminal(tree, p)
  <2>1. CASE p \in DOMAIN tree
    BY <1>1, <1>3, <2>1 DEF Sound, OldNode, HasTerminal
  <2>2. CASE p \notin DOMAIN tree
    BY <1>1, <1>3, <1>4, <2>2 DEF OldNode, NewNode
  <2> QED BY <2>1, <2>2
<1>6. <<>> \in DOMAIN new
  BY <1>2 DEF Sound
<1>7. Sound(new) /\ \A r : HasTerminal(new, r) => r = s \/ HasTerminal(tree, r)
  BY <1>5, <1>6 DEF Sound, HasTerminal
<1> QED BY <1>7 DEF new

--------------------------------------------------------------------------------
(* The search. *)

Fails(s) == Outcome(s) \in {"invalid", "overrun"}

\* The trees are sound and hold what their names say; the verdict is the tree's.
Inv ==
    /\ test \in Tests
    /\ Sound(all) /\ Sound(rejected)
    /\ \A s : HasTerminal(all, s) /\ Outcome(s) = "interesting" => bug
    /\ \A s : HasTerminal(rejected, s) => Fails(s)
    /\ verdict = "unsatisfiable" => \A s \in Examples(test) : Fails(s)

LEMMA InvInit == Init => Inv
<1> SUFFICES ASSUME Init PROVE Inv
  OBVIOUS
<1>1. Sound(EmptyTree) /\ \A s : ~HasTerminal(EmptyTree, s)
  <2>1. <<>> \in Paths /\ Drawable(test, <<>>)
    BY ChoiceTreeAssumption, EmptySeq DEF Drawable
  <2> QED BY <2>1 DEF Sound, HasTerminal, EmptyTree, NewNode
<1>2. verdict # "unsatisfiable"
  BY ChoiceTreeAssumption DEF Init, Verdicts
<1> QED BY <1>1, <1>2 DEF Init, Inv

\* The invariant implies the property.
LEMMA InvImplies == Inv => ExhaustionIsTrue
<1> SUFFICES ASSUME Inv PROVE ExhaustionIsTrue
  OBVIOUS
<1>1. ASSUME Exhausted(all), ~bug, NEW s \in Examples(test)
      PROVE  Outcome(s) # "interesting"
  BY <1>1, ExhaustedHoldsAll DEF Inv
<1> QED BY <1>1 DEF Inv, Fails, ExhaustionIsTrue

\* track_example keeps all_tree sound, and adds nothing but the example.
LEMMA TrackKeeps ==
    ASSUME Inv, test' = test, NEW s \in Examples(test), TrackExample(s)
    PROVE  /\ Sound(all)'
           /\ \A r : HasTerminal(all, r)' => r = s \/ HasTerminal(all, r)
<1>1. CASE all' = all
  BY <1>1 DEF Inv, Sound, Drawable, HasTerminal
<1>2. CASE all' = Add(all, s)
  <2> DEFINE new == Add(all, s)
  <2>1. Sound(new) /\ \A r : HasTerminal(new, r) => r = s \/ HasTerminal(all, r)
    BY AddSound DEF Inv
  <2>2. all' = new
    BY <1>2
  <2> HIDE DEF new
  <2> QED BY <2>1, <2>2 DEF Sound, Drawable, HasTerminal
<1> QED BY <1>1, <1>2 DEF TrackExample

\* An executed example goes into the trees its outcome allows.
LEMMA ExecuteKeeps ==
    ASSUME Inv, test' = test, verdict' = verdict, NEW s \in Examples(test), Execute(s)
    PROVE  Inv'
<1>1. /\ bug' = (bug \/ Outcome(s) = "interesting")
      /\ TrackExample(s)
      /\ rejected' = IF Fails(s) /\ valid = 0 THEN Add(rejected, s) ELSE rejected
  BY DEF Execute, Outcome, Fails
<1>2. /\ Sound(all)'
      /\ \A r : HasTerminal(all, r)' => r = s \/ HasTerminal(all, r)
  BY <1>1, TrackKeeps
<1>3. \A r : HasTerminal(all, r)' /\ Outcome(r)' = "interesting" => bug'
  BY <1>1, <1>2 DEF Inv, Outcome
<1>4. Sound(rejected)' /\ \A r : HasTerminal(rejected, r)' => Fails(r)'
  <2>1. CASE rejected' = rejected
    BY <2>1 DEF Inv, Sound, Drawable, HasTerminal, Fails, Outcome
  <2>2. CASE Fails(s) /\ rejected' = Add(rejected, s)
    <3> DEFINE new == Add(rejected, s)
    <3>1. Sound(new) /\ \A r : HasTerminal(new, r) => r = s \/ HasTerminal(rejected, r)
      BY AddSound DEF Inv
    <3>2. rejected' = new
      BY <2>2
    <3>3. \A r : HasTerminal(new, r) => Fails(r)
      BY <2>2, <3>1 DEF Inv
    <3> HIDE DEF new
    <3> QED BY <3>1, <3>2, <3>3 DEF Sound, Drawable, HasTerminal, Fails, Outcome
  <2> QED BY <1>1, <2>1, <2>2
<1>5. (verdict = "unsatisfiable" => \A r \in Examples(test) : Fails(r))'
  BY DEF Inv, Examples, Drawable, Fails, Outcome
<1> QED BY <1>2, <1>3, <1>4, <1>5 DEF Inv

LEMMA InvNext == Inv /\ [Next]_vars => Inv'
<1> SUFFICES ASSUME Inv, [Next]_vars PROVE Inv'
  OBVIOUS
<1>1. CASE RunSimplest
  <2>1. PICK s \in Simplest : Execute(s)
    BY <1>1 DEF RunSimplest
  <2>2. s \in Examples(test)
    BY DEF Simplest
  <2> QED BY <1>1, <2>1, <2>2, ExecuteKeeps DEF RunSimplest
<1>2. CASE Generate
  <2>1. PICK s \in Examples(test) : Execute(s)
    BY <1>2 DEF Generate
  <2> QED BY <1>2, <2>1, ExecuteKeeps DEF Generate, Iterated
<1>3. CASE GenerateRedundant
  <2>1. PICK s \in Examples(test) : Redundant(s) /\ TrackExample(ArgumentsOf(s))
    BY <1>3 DEF GenerateRedundant
  <2> DEFINE a == ArgumentsOf(s)
  <2>2. HasTerminal(all, a)
    BY <2>1 DEF Redundant
  <2> HIDE DEF a
  <2>3. a \in Examples(test)
    BY <2>2 DEF Inv, Sound, HasTerminal, Examples
  <2>4. test' = test /\ verdict' = verdict /\ rejected' = rejected /\ bug' = bug
    BY <1>3 DEF GenerateRedundant, Iterated, counts
  <2>5. /\ Sound(all)'
        /\ \A r : HasTerminal(all, r)' => r = a \/ HasTerminal(all, r)
    BY <2>1, <2>3, <2>4, TrackKeeps DEF a
  <2>6. \A r : HasTerminal(all, r)' /\ Outcome(r)' = "interesting" => bug'
    BY <2>2, <2>4, <2>5 DEF Inv, Outcome
  <2> QED BY <2>4, <2>5, <2>6 DEF Inv, Sound, Examples, Drawable, HasTerminal, Fails, Outcome
<1>4. CASE Judge
  <2>1. UNCHANGED <<test, all, rejected, bug>>
    BY <1>4 DEF Judge, trees, counts
  <2>2. verdict' = "unsatisfiable" => Exhausted(rejected)
    BY <1>4 DEF Judge
  <2>3. verdict' = "unsatisfiable" => \A s \in Examples(test) : Fails(s)
    BY <2>2, ExhaustedHoldsAll DEF Inv
  <2> QED BY <2>1, <2>3 DEF Inv, Sound, Examples, Drawable, HasTerminal, Fails, Outcome
<1>5. CASE UNCHANGED vars
  BY <1>5 DEF vars, trees, counts, Inv, Sound, Examples, Drawable, HasTerminal, Fails, Outcome
<1> QED BY <1>1, <1>2, <1>3, <1>4, <1>5 DEF Next

\* engine.rs, run_native: "unsatisfiable", and a pass for want of new examples, are true
\* of every example of the test, with any limits.
THEOREM Exhaustion == Spec => []ExhaustionIsTrue
<1>1. Inv => ExhaustionIsTrue
  BY InvImplies
<1> QED BY <1>1, InvInit, InvNext, PTL DEF Spec

--------------------------------------------------------------------------------
(* The search implements Novelty. *)

\* A tree grown from examples has their paths and no others, and counts every choice
\* on them.
Grown(tree) ==
    /\ \A p \in DOMAIN tree : p = <<>> \/ \E s : HasTerminal(tree, s) /\ p \in Prefixes(s)
    /\ \A s : HasTerminal(tree, s) =>
          /\ Prefixes(s) \subseteq DOMAIN tree
          /\ \A p \in Prefixes(s) \ {s} : tree[p].max # None /\ tree[p].max = NodeAt(test, p).max

Known(tree) == {s \in DOMAIN tree : tree[s].terminal}

LEMMA PrefixFacts ==
    ASSUME NEW t \in Tests, NEW s \in Examples(t)
    PROVE  /\ s \in Paths /\ s \in Seq(Values) /\ Len(s) \in Nat /\ Drawable(t, s) /\ NodeAt(t, s).end
           /\ s \in Prefixes(s) /\ <<>> \in Prefixes(s)
           /\ \A p \in Prefixes(s) \ {s} : \E i \in 1 .. Len(s) : p = Before(s, i)
<1>1. s \in Paths /\ s \in Seq(Values) /\ Len(s) \in Nat /\ Drawable(t, s) /\ NodeAt(t, s).end
  BY ChoiceTreeAssumption, LenProperties DEF Examples
<1>2. Before(s, Len(s) + 1) = s
  BY <1>1, SubSeqFull, SMT DEF Before
<1>3. Before(s, 1) = <<>>
  BY SubSeqEmpty DEF Before
<1>4. Len(s) + 1 \in 1 .. Len(s) + 1 /\ 1 \in 1 .. Len(s) + 1
  BY <1>1
<1>5. s \in Prefixes(s) /\ <<>> \in Prefixes(s)
  BY <1>2, <1>3, <1>4 DEF Prefixes
<1>6. ASSUME NEW p \in Prefixes(s) \ {s}
      PROVE  \E i \in 1 .. Len(s) : p = Before(s, i)
  <2>1. PICK i \in 1 .. Len(s) + 1 : p = Before(s, i)
    BY DEF Prefixes
  <2>2. i # Len(s) + 1
    BY <1>2, <2>1
  <2> QED BY <1>1, <2>1, <2>2
<1> QED BY <1>1, <1>5, <1>6

\* Adding a counted example grows the tree by it.
LEMMA AddGrown ==
    ASSUME test \in Tests, NEW tree, Sound(tree), Grown(tree), NEW s \in Examples(test), ~Uncounted(s)
    PROVE  Grown(Add(tree, s)) /\ Known(Add(tree, s)) = Known(tree) \cup {s}
<1> DEFINE new == Add(tree, s)
<1>1. DOMAIN new = DOMAIN tree \cup Prefixes(s)
  BY DEF Add
<1>2. \A p \in DOMAIN new :
         /\ new[p].terminal <=> OldNode(tree, p).terminal \/ p = s
         /\ new[p].max = IF p \in Prefixes(s) \ {s} /\ OldNode(tree, p).max = None
                         THEN NodeAt(test, p).max ELSE OldNode(tree, p).max
  BY DEF Add
<1>3. \A r : HasTerminal(new, r) => r = s \/ HasTerminal(tree, r)
  BY AddSound
<1> HIDE DEF new
<1>4. s \in Prefixes(s)
  BY PrefixFacts
<1>5. HasTerminal(new, s) /\ \A r : HasTerminal(tree, r) => HasTerminal(new, r)
  BY <1>1, <1>2, <1>4 DEF HasTerminal, OldNode
<1>6. ASSUME NEW p \in Prefixes(s) \ {s}
      PROVE  new[p].max # None /\ new[p].max = NodeAt(test, p).max
  <2>1. PICK i \in 1 .. Len(s) : p = Before(s, i)
    BY PrefixFacts
  <2>2. NodeAt(test, p).max # None
    BY <2>1 DEF Uncounted
  <2>3. OldNode(tree, p).max # None => OldNode(tree, p).max = NodeAt(test, p).max
    BY DEF Sound, OldNode, NewNode
  <2> QED BY <1>1, <1>2, <2>2, <2>3
<1>7. ASSUME NEW r, HasTerminal(new, r)
      PROVE  /\ Prefixes(r) \subseteq DOMAIN new
             /\ \A p \in Prefixes(r) \ {r} : new[p].max # None /\ new[p].max = NodeAt(test, p).max
  <2>1. CASE r = s
    BY <1>1, <1>6, <2>1
  <2>2. CASE HasTerminal(tree, r)
    <3>1. /\ Prefixes(r) \subseteq DOMAIN tree
          /\ \A p \in Prefixes(r) \ {r} : tree[p].max # None /\ tree[p].max = NodeAt(test, p).max
      BY <2>2 DEF Grown
    <3> QED BY <1>1, <1>2, <3>1 DEF OldNode
  <2> QED BY <1>3, <1>7, <2>1, <2>2
<1>8. ASSUME NEW p \in DOMAIN new
      PROVE  p = <<>> \/ \E r : HasTerminal(new, r) /\ p \in Prefixes(r)
  <2>1. CASE p \in Prefixes(s)
    BY <1>5, <2>1
  <2>2. CASE p \in DOMAIN tree
    BY <1>5, <2>2 DEF Grown
  <2> QED BY <1>1, <2>1, <2>2
<1>9. Known(new) = Known(tree) \cup {s}
  BY <1>3, <1>5 DEF Known, HasTerminal
<1> QED BY <1>7, <1>8, <1>9 DEF Grown, new

\* A value that is drawn leads to a child, where every example is in the tree.
LEMMA ChildExists ==
    ASSUME test \in Tests, NEW tree, Grown(tree), \A e \in Examples(test) : HasTerminal(tree, e),
           NEW p \in Paths, Drawable(test, p), ~NodeAt(test, p).end, NEW v \in NodeAt(test, p).values
    PROVE  \E q \in Children(tree, p) : q[Len(q)] = v
<1>1. PICK e \in Examples(test) : Len(p) < Len(e) /\ Before(e, Len(p) + 1) = p /\ e[Len(p) + 1] = v
  BY EveryDrawEnds
<1>2. /\ e \in Seq(Values) /\ Len(e) \in Nat
      /\ Prefixes(e) \subseteq DOMAIN tree
  BY PrefixFacts DEF Grown
<1>3. p \in Seq(Values) /\ Len(p) \in Nat
  BY ChoiceTreeAssumption, LenProperties
<1> DEFINE i == Len(p) + 2
           q == Before(e, i)
<1>4. i \in 1 .. Len(e) + 1 /\ Len(p) + 1 \in 1 .. i /\ Len(p) + 1 = i - 1
  BY <1>1, <1>2, <1>3
<1>5. q \in DOMAIN tree
  BY <1>2, <1>4 DEF Prefixes
<1>6. Len(q) = Len(p) + 1 /\ q[Len(p) + 1] = e[Len(p) + 1]
  <2>1. Len(p) + 1 \in 1 .. i - 1
    BY <1>3
  <2> QED BY <1>2, <1>4, <2>1, BeforeFacts
<1>7. Before(q, Len(p) + 1) = p
  BY <1>1, <1>2, <1>4, BeforeBefore
<1> HIDE DEF q, i
<1>8. q \in Children(tree, p)
  BY <1>5, <1>6, <1>7 DEF Children
<1> QED BY <1>1, <1>6, <1>8

\* Where every value counted can be drawn, a tree of all examples is exhausted.
LEMMA AllExhausted ==
    ASSUME test \in Tests, NEW tree, Sound(tree), Grown(tree), Countable(test),
           \A e \in Examples(test) : HasTerminal(tree, e), NEW z, HasTerminal(tree, z)
    PROVE  Exhausted(tree)
<1> SUFFICES ASSUME NEW p \in DOMAIN tree
             PROVE  IF Children(tree, p) = {} THEN tree[p].terminal
                    ELSE tree[p].max # None /\ Cardinality(Children(tree, p)) >= tree[p].max
  BY DEF Exhausted
<1>1. \A s : HasTerminal(tree, s) => s \in Examples(test)
  BY DEF Sound, HasTerminal, Examples
<1>2. PICK s : HasTerminal(tree, s) /\ p \in Prefixes(s)
  <2>1. <<>> \in Prefixes(z)
    BY <1>1, PrefixFacts
  <2> QED BY <2>1 DEF Grown
<1>3. s \in Examples(test) /\ p \in Paths /\ Drawable(test, p)
  BY <1>1, <1>2 DEF Sound
<1>4. CASE p = s
  <2>1. tree[p].terminal /\ NodeAt(test, p).end
    BY <1>2, <1>4 DEF HasTerminal, Sound
  <2>2. Children(tree, p) = {}
    BY <1>3, <2>1, ChildFacts
  <2> QED BY <2>1, <2>2
<1>5. CASE p # s
  <2> DEFINE C == Children(tree, p)
             V == NodeAt(test, p).values
             last == [q \in C |-> q[Len(q)]]
  <2>1. PICK i \in 1 .. Len(s) : p = Before(s, i)
    BY <1>2, <1>3, <1>5, PrefixFacts
  <2>2. ~NodeAt(test, p).end /\ s[i] \in V
    <3>1. s \in Paths /\ Drawable(test, s) /\ i \in 1 .. Len(s) + 1 /\ i <= Len(s)
      BY <1>3, <2>1, PrefixFacts
    <3> QED BY <2>1, <3>1, PrefixDrawable
  <2>3. tree[p].max # None /\ tree[p].max = NodeAt(test, p).max
    BY <1>2, <1>5 DEF Grown
  <2>4. NodeAt(test, p).max = Cardinality(V)
    BY <1>3, <2>1 DEF Countable
  <2>5. IsFiniteSet(V)
    BY <1>3, <2>2, <2>3, ChoiceTreeAssumption DEF IsChoice, IsEnd
  <2>6. \A v \in V : \E q \in C : q[Len(q)] = v
    BY <1>3, <2>2, ChildExists
  <2>7. C # {}
    BY <2>2, <2>6
  <2>8. last \in [C -> V]
    BY <1>3, ChildFacts
  <2>9. \A q, r \in C : last[q] = last[r] => q = r
    BY <1>3, ChildrenDiffer
  <2>10. last \in Injection(C, V)
    BY <2>8, <2>9 DEF Injection, IsInjective
  <2>11. last \in Surjection(C, V)
    BY <2>6, <2>8 DEF Surjection
  <2> HIDE DEF C, V, last
  <2>12. IsFiniteSet(C)
    BY <2>5, <2>10, FS_Injection
  <2>13. Cardinality(V) <= Cardinality(C)
    BY <2>11, <2>12, FS_Surjection
  <2>14. Cardinality(V) \in Nat /\ Cardinality(C) \in Nat
    BY <2>5, <2>12, FS_CardinalityType
  <2> QED BY <2>3, <2>4, <2>7, <2>13, <2>14 DEF C
<1> QED BY <1>4, <1>5

\* So what the search knows is everything, as far as that can be counted, exactly when
\* the tree is exhausted.
LEMMA KnowsAll ==
    ASSUME test \in Tests, NEW tree, Sound(tree), Grown(tree)
    PROVE  /\ Exhausted(tree) => Known(tree) = Examples(test)
           /\ Countable(test) /\ Known(tree) = Examples(test) /\ Known(tree) # {} => Exhausted(tree)
<1>1. \A s : HasTerminal(tree, s) <=> s \in Known(tree)
  BY DEF HasTerminal, Known
<1>2. Known(tree) \subseteq Examples(test)
  BY DEF Known, Sound, Examples
<1>3. Exhausted(tree) => Known(tree) = Examples(test)
  BY <1>1, <1>2, ExhaustedHoldsAll
<1>4. ASSUME Countable(test), Known(tree) = Examples(test), Known(tree) # {}
      PROVE  Exhausted(tree)
  <2>1. PICK z : HasTerminal(tree, z)
    BY <1>1, <1>4
  <2> QED BY <1>1, <1>4, <2>1, AllExhausted
<1> QED BY <1>3, <1>4

\* At first nothing is known, and an example is remembered as long as the tree is kept.
NoveltyInv ==
    /\ Inv /\ Grown(all)
    /\ track \in BOOLEAN /\ keep_going \in BOOLEAN
    /\ phase = "simplest" => track = TRUE /\ keep_going = TRUE /\ ran = 0 /\ Known(all) = {}

Same == test' = test

LEMMA InitNovel == Init => NoveltyInv /\ N!Init
<1> SUFFICES ASSUME Init PROVE NoveltyInv /\ N!Init
  OBVIOUS
<1>1. \A s : ~HasTerminal(EmptyTree, s)
  BY DEF HasTerminal, EmptyTree, NewNode
<1>2. Grown(EmptyTree) /\ Known(EmptyTree) = {}
  BY <1>1 DEF Grown, Known, EmptyTree, HasTerminal
<1>3. ~Exhausted(EmptyTree)
  <2>1. Children(EmptyTree, <<>>) = {}
    BY EmptySeq DEF Children, EmptyTree
  <2>2. <<>> \in DOMAIN EmptyTree /\ ~EmptyTree[<<>>].terminal
    BY DEF EmptyTree, NewNode
  <2> QED BY <2>1, <2>2 DEF Exhausted
<1>4. NoveltyInv
  BY <1>2, InvInit DEF Init, NoveltyInv
<1>5. N!Init
  BY <1>2, <1>3 DEF Init, N!Init, Known
<1> QED BY <1>4, <1>5

\* What track_example does to what is known.
LEMMA TrackGrows ==
    ASSUME NoveltyInv, NEW s \in Examples(test), TrackExample(s)
    PROVE  /\ Sound(all') /\ Grown(all') /\ track' \in BOOLEAN /\ (track' = TRUE => track = TRUE)
           /\ track = FALSE => all' = all
           /\ Known(all') = Known(all) \cup {s} \/ (all' = all /\ track' = FALSE)
<1>1. CASE all' = all /\ track' = FALSE
  BY <1>1 DEF NoveltyInv, Inv
<1>2. CASE track /\ ~Uncounted(s) /\ all' = Add(all, s) /\ track' \in BOOLEAN
  <2> DEFINE new == Add(all, s)
  <2>1. Sound(new)
    BY AddSound DEF NoveltyInv, Inv
  <2>2. Grown(new) /\ Known(new) = Known(all) \cup {s}
    BY <1>2, AddGrown DEF NoveltyInv, Inv
  <2>3. all' = new
    BY <1>2
  <2> HIDE DEF new
  <2> QED BY <1>2, <2>1, <2>2, <2>3 DEF NoveltyInv
<1>3. CASE ~track \/ Len(s) > MAX_TRACKED_NODES \/ Uncounted(s)
  BY <1>1, <1>3 DEF TrackExample
<1>4. CASE ~(~track \/ Len(s) > MAX_TRACKED_NODES \/ Uncounted(s))
  <2>1. all' = Add(all, s) /\ track' = (tracked_nodes' <= MAX_TOTAL_TRACKED_NODES)
    BY <1>4 DEF TrackExample
  <2>2. track' \in BOOLEAN
    BY <2>1
  <2> QED BY <1>2, <1>4, <2>1, <2>2
<1> QED BY <1>3, <1>4

\* The invariant goes on where the tree changed like that.
LEMMA NovelKept ==
    ASSUME Inv', Same, Grown(all'), track' \in BOOLEAN, keep_going' \in BOOLEAN, phase' # "simplest"
    PROVE  NoveltyInv'
<1>1. Grown(all)'
  BY DEF Grown, Same, HasTerminal, Prefixes
<1> QED BY <1>1 DEF NoveltyInv

\* What may be concluded from the tree.
LEMMA Concludes ==
    ASSUME NoveltyInv, Same, Sound(all'), Grown(all'), track' \in BOOLEAN, track' = TRUE => track = TRUE,
           track' = TRUE => Known(all') # {},
           keep_going' /\ phase' # "judged" => ran' = 1 \/ ~(track' /\ Exhausted(all'))
    PROVE  N!Conclude
<1>1. test \in Tests /\ test' = test
  BY DEF NoveltyInv, Inv, Same
<1>2. /\ Exhausted(all') => Known(all') = Examples(test)
      /\ Countable(test) /\ Known(all') = Examples(test) /\ Known(all') # {} => Exhausted(all')
  BY <1>1, KnowsAll
<1> QED BY <1>1, <1>2 DEF N!Conclude, Known

\* An example that is executed is new or could not be recognised.
LEMMA ExecuteTries ==
    ASSUME NoveltyInv, Same, Inv', NEW s \in Examples(test), Execute(s), keep_going = TRUE,
           phase # "judged", track = TRUE => s \notin Known(all) \/ s \in Repeatable(test),
           keep_going' \in BOOLEAN, phase' = "generate",
           keep_going' => ran' = 1 \/ ~(track' /\ Exhausted(all'))
    PROVE  NoveltyInv' /\ (N!Try \/ N!TryUnaware)
<1>1. TrackExample(s) /\ ran' = ran + 1
  BY DEF Execute
<1>2. /\ Sound(all') /\ Grown(all') /\ track' \in BOOLEAN /\ (track' = TRUE => track = TRUE)
      /\ track = FALSE => all' = all
      /\ Known(all') = Known(all) \cup {s} \/ (all' = all /\ track' = FALSE)
  BY <1>1, TrackGrows
<1>3. NoveltyInv'
  BY <1>2, NovelKept
<1>4. CASE track = TRUE
  <2>1. N!Conclude
    <3>1. track' = TRUE => Known(all') # {}
      BY <1>2
    <3> QED BY <1>2, <3>1, Concludes
  <2>2. N!Try
    BY <1>1, <1>2, <1>4, <2>1 DEF N!Try, Known, Same
  <2> QED BY <1>3, <2>2
<1>5. CASE track = FALSE
  <2>1. all' = all /\ track' = FALSE
    BY <1>2, <1>5
  <2>2. N!TryUnaware
    BY <1>1, <1>5, <2>1 DEF N!TryUnaware, Same
  <2> QED BY <1>3, <2>2
<1> QED BY <1>3, <1>4, <1>5 DEF NoveltyInv

LEMMA NovelStep == NoveltyInv /\ [Next]_vars =>
    /\ NoveltyInv'
    /\ [N!Next]_<<test, Known(all), ran, track, track /\ Exhausted(all), keep_going /\ phase # "judged">>
<1> SUFFICES ASSUME NoveltyInv, [Next]_vars
             PROVE  /\ NoveltyInv'
                    /\ [N!Next]_<<test, Known(all), ran, track, track /\ Exhausted(all),
                                  keep_going /\ phase # "judged">>
  OBVIOUS
<1>1. Inv'
  BY InvNext DEF NoveltyInv
<1>2. CASE RunSimplest
  <2>1. PICK s \in Simplest : Execute(s)
    BY <1>2 DEF RunSimplest
  <2>2. s \in Examples(test)
    BY DEF Simplest
  <2>3. /\ Same /\ keep_going' \in BOOLEAN /\ phase' = "generate" /\ phase = "simplest"
    BY <1>2 DEF RunSimplest, Same
  <2>4. keep_going = TRUE /\ ran = 0 /\ Known(all) = {} /\ ran' = ran + 1
    BY <2>1, <2>3 DEF NoveltyInv, Execute
  <2>5. NoveltyInv' /\ (N!Try \/ N!TryUnaware)
    BY <1>1, <2>1, <2>2, <2>3, <2>4, ExecuteTries
  <2> QED BY <2>5 DEF N!Next
<1>3. CASE Generate
  <2>1. PICK s \in Examples(test) : ~Redundant(s) /\ Execute(s)
    BY <1>3 DEF Generate
  <2>2. /\ Same /\ keep_going' \in BOOLEAN /\ phase' = "generate" /\ phase = "generate"
        /\ keep_going' => ~(track' /\ Exhausted(all'))
    BY <1>3 DEF Generate, Iterated, Same
  <2>3. keep_going = TRUE
    BY <1>3 DEF NoveltyInv, Generate, MayGenerate
  <2>4. track = TRUE => s \notin Known(all) \/ s \in Repeatable(test)
    BY <2>1 DEF Redundant, HasTerminal, Known, Repeatable, ArgumentsOf
  <2>5. NoveltyInv' /\ (N!Try \/ N!TryUnaware)
    BY <1>1, <2>1, <2>2, <2>3, <2>4, ExecuteTries
  <2> QED BY <2>5 DEF N!Next
<1>4. CASE GenerateRedundant
  <2>1. PICK s \in Examples(test) : Redundant(s) /\ TrackExample(ArgumentsOf(s))
    BY <1>4 DEF GenerateRedundant
  <2> DEFINE a == ArgumentsOf(s)
  <2>2. HasTerminal(all, a) /\ track = TRUE /\ TrackExample(a)
    BY <2>1 DEF Redundant, NoveltyInv
  <2> HIDE DEF a
  <2>3. a \in Examples(test) /\ a \in Known(all)
    BY <2>2 DEF NoveltyInv, Inv, Sound, HasTerminal, Examples, Known
  <2>4. /\ Sound(all') /\ Grown(all') /\ track' \in BOOLEAN
        /\ Known(all') = Known(all) \cup {a} \/ (all' = all /\ track' = FALSE)
    BY <2>2, <2>3, TrackGrows
  <2>5. Known(all') = Known(all) /\ Known(all') # {}
    BY <2>3, <2>4
  <2>6. /\ Same /\ keep_going' \in BOOLEAN /\ phase' = "generate" /\ phase = "generate" /\ ran' = ran
        /\ keep_going' => ~(track' /\ Exhausted(all'))
    BY <1>4 DEF GenerateRedundant, Iterated, Same, counts
  <2>7. keep_going = TRUE
    BY <1>4 DEF NoveltyInv, GenerateRedundant, MayGenerate
  <2>8. NoveltyInv'
    BY <1>1, <2>4, <2>6, NovelKept
  <2>9. N!Conclude
    BY <2>2, <2>4, <2>5, <2>6, Concludes
  <2>10. N!Recognise
    BY <2>2, <2>5, <2>6, <2>7, <2>9 DEF N!Recognise, Known, Same
  <2> QED BY <2>8, <2>10 DEF N!Next
<1>5. CASE Judge
  <2>1. /\ UNCHANGED <<test, all, track, ran, keep_going>> /\ phase = "generate" /\ phase' = "judged"
    BY <1>5 DEF Judge, trees, counts
  <2>2. NoveltyInv'
    BY <1>1, <2>1, NovelKept DEF NoveltyInv, Same
  <2>3. CASE keep_going
    <3>1. N!GiveUp
      BY <2>1, <2>3 DEF N!GiveUp
    <3> QED BY <2>2, <3>1 DEF N!Next
  <2>4. CASE ~keep_going
    BY <2>1, <2>2, <2>4
  <2> QED BY <2>3, <2>4
<1>6. CASE UNCHANGED vars
  <2>1. UNCHANGED <<test, all, track, ran, keep_going, phase>>
    BY <1>6 DEF vars, trees, counts
  <2>2. Grown(all)'
    BY <2>1 DEF NoveltyInv, Grown
  <2> QED BY <1>1, <2>1, <2>2 DEF NoveltyInv
<1> QED BY <1>2, <1>3, <1>4, <1>5, <1>6 DEF Next

\* engine.rs: whatever the test and the limits, no body runs twice on choices that are
\* remembered and can be recognised, and the search ends for want of new examples when,
\* and as far as they are countable only when, all have run.
THEOREM Searching == Spec => SearchesForNew
<1>1. Init => NoveltyInv /\ N!Init
  BY InitNovel
<1>2. NoveltyInv /\ [Next]_vars =>
    /\ NoveltyInv'
    /\ [N!Next]_<<test, Known(all), ran, track, track /\ Exhausted(all), keep_going /\ phase # "judged">>
  BY NovelStep
<1> QED BY <1>1, <1>2, PTL DEF Spec, SearchesForNew, N!Spec, Known

================================================================================
