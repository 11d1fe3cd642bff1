----------------------------- MODULE Example_proofs -----------------------------
(***************************************************************************)
(* Proofs about Example, for every set of choices, constraints, kernels,   *)
(* lists, prefixes and bodies that satisfies ExampleAssumption.            *)
(***************************************************************************)
EXTENDS Example, SequenceTheorems, TLAPS

Constraints == {ElementC, ContinueC}

(* What a draw leaves as it is.                                            *)
SameFrame(d, e) == /\ e.max_length = d.max_length /\ e.max_choices = d.max_choices
                   /\ e.length = d.length /\ e.nodes = d.nodes

(* Frozen data keeps its depth; freezing closes the open spans.             *)
SpansKept(d, e) == /\ d.frozen => e.frozen /\ e.depth = d.depth
                   /\ ~d.frozen /\ d.depth >= 0 /\ e.frozen => e.depth = -1

(* Finished by a mark: frozen, with at most its spans and its status changed. *)
Ends(d, e) == /\ DataOK(e) /\ SameFrame(d, e)
              /\ e.frozen /\ e.status # VALID
              /\ SpansKept(d, e)

-----------------------------------------------------------------------------
(* Spans, marks and construction.                                          *)

LEMMA StartSpanFacts ==
  ASSUME NEW d, DataOK(d)
  PROVE  /\ DataOK(StartSpan(d)) /\ SameFrame(d, StartSpan(d))
         /\ StartSpan(d).depth = d.depth + 1 /\ StartSpan(d).frozen = d.frozen
         /\ StartSpan(d).status = d.status
<1>. DEFINE m == IF d.depth + 1 > d.max_depth THEN d.depth + 1 ELSE d.max_depth
<1>1. d \in ConjectureData
  BY DEF DataOK
<1>2. m \in Int /\ d.depth + 1 \in Int
  BY <1>1 DEF ConjectureData
<1>3. StartSpan(d) = [d EXCEPT !.depth = d.depth + 1, !.max_depth = m]
  BY DEF StartSpan
<1>. HIDE DEF m
<1>4. \A k, l \in Int : [d EXCEPT !.depth = k, !.max_depth = l] \in ConjectureData
  BY <1>1 DEF ConjectureData
<1>5. StartSpan(d) \in ConjectureData
  BY <1>2, <1>3, <1>4
<1>6. /\ StartSpan(d).prefix = d.prefix /\ StartSpan(d).depth = d.depth + 1
      /\ SameFrame(d, StartSpan(d)) /\ StartSpan(d).status = d.status
  BY <1>1, <1>3 DEF ConjectureData, SameFrame
<1>7. StartSpan(d).frozen = d.frozen
  BY <1>1, <1>3 DEF ConjectureData
<1>. QED  BY <1>5, <1>6, <1>7 DEF DataOK

LEMMA StopSpanFacts ==
  ASSUME NEW d, DataOK(d)
  PROVE  /\ DataOK(StopSpan(d, FALSE)) /\ SameFrame(d, StopSpan(d, FALSE))
         /\ StopSpan(d, FALSE).frozen = d.frozen /\ StopSpan(d, FALSE).status = d.status
         /\ StopSpan(d, FALSE).depth = IF d.frozen THEN d.depth ELSE d.depth - 1
<1>1. CASE d.frozen
  BY <1>1 DEF StopSpan, SameFrame
<1>2. CASE ~d.frozen
  <2>1. d \in ConjectureData
    BY DEF DataOK
  <2>2. StopSpan(d, FALSE) = [d EXCEPT !.depth = d.depth - 1]
    BY <1>2, <2>1 DEF StopSpan, ConjectureData
  <2>3. d.depth - 1 \in Int
    BY <2>1 DEF ConjectureData
  <2>4. \A k \in Int : [d EXCEPT !.depth = k] \in ConjectureData
    BY <2>1 DEF ConjectureData
  <2>5. /\ StopSpan(d, FALSE).prefix = d.prefix /\ StopSpan(d, FALSE).depth = d.depth - 1
        /\ SameFrame(d, StopSpan(d, FALSE)) /\ StopSpan(d, FALSE).status = d.status
    BY <2>1, <2>2 DEF ConjectureData, SameFrame
  <2>6. StopSpan(d, FALSE).frozen = d.frozen
    BY <2>1, <2>2 DEF ConjectureData
  <2>. QED  BY <1>2, <2>2, <2>3, <2>4, <2>5, <2>6 DEF DataOK
<1>. QED  BY <1>1, <1>2

LEMMA FreezeFacts ==
  ASSUME NEW d, DataOK(d)
  PROVE  /\ DataOK(Freeze(d)) /\ SameFrame(d, Freeze(d))
         /\ Freeze(d).frozen /\ Freeze(d).status = d.status
         /\ SpansKept(d, Freeze(d))
<1>1. CASE d.frozen
  BY <1>1 DEF Freeze, SameFrame, SpansKept
<1>2. CASE ~d.frozen
  <2>. DEFINE k == IF d.depth >= 0 THEN -1 ELSE d.depth
  <2>1. d \in ConjectureData
    BY DEF DataOK
  <2>2. Freeze(d) = [d EXCEPT !.depth = k, !.frozen = TRUE]
    BY <1>2 DEF Freeze
  <2>3. k \in Int /\ (d.depth >= 0 => k = -1)
    BY <2>1 DEF ConjectureData
  <2>. HIDE DEF k
  <2>4. \A l \in Int : [d EXCEPT !.depth = l, !.frozen = TRUE] \in ConjectureData
    BY <2>1 DEF ConjectureData
  <2>5. /\ Freeze(d).prefix = d.prefix /\ Freeze(d).depth = k
        /\ SameFrame(d, Freeze(d)) /\ Freeze(d).status = d.status
    BY <2>1, <2>2 DEF ConjectureData, SameFrame
  <2>6. Freeze(d).frozen
    BY <2>1, <2>2 DEF ConjectureData
  <2>7. SpansKept(d, Freeze(d))
    BY <1>2, <2>3, <2>5 DEF SpansKept
  <2>. QED  BY <2>2, <2>3, <2>4, <2>5, <2>6, <2>7 DEF DataOK
<1>. QED  BY <1>1, <1>2

LEMMA MarkFacts ==
  ASSUME NEW d, DataOK(d), NEW s \in {OVERRUN, INVALID, INTERESTING},
         NEW origin \in {None, "origin"}
  PROVE  Ends(d, Mark(d, s, origin))
<1>. DEFINE e == [d EXCEPT !.interesting_origin = origin, !.status = s]
<1>1. DataOK(e) /\ SameFrame(d, e) /\ e.status = s /\ e.depth = d.depth /\ e.frozen = d.frozen
  <2>1. d \in ConjectureData /\ s \in OVERRUN .. INTERESTING
    BY DEF DataOK, OVERRUN, INVALID, INTERESTING
  <2>2. e \in ConjectureData
    BY <2>1 DEF ConjectureData
  <2>3. e.prefix = d.prefix /\ SameFrame(d, e) /\ e.status = s /\ e.depth = d.depth
    BY <2>1 DEF ConjectureData, SameFrame
  <2>4. e.frozen = d.frozen
    BY <2>1 DEF ConjectureData
  <2>. QED  BY <2>2, <2>3, <2>4 DEF DataOK
<1>2. Mark(d, s, origin) = Freeze(e)
  BY DEF Mark
<1>3. s # VALID
  BY DEF OVERRUN, INVALID, INTERESTING, VALID
<1>. HIDE DEF e
<1>4. SpansKept(d, Freeze(e))
  BY <1>1, FreezeFacts DEF SpansKept
<1>. QED  BY <1>1, <1>2, <1>3, <1>4, FreezeFacts DEF Ends, SameFrame

LEMMA StoppedFacts ==
  ASSUME NEW d, DataOK(d), NEW s \in {OVERRUN, INVALID, INTERESTING}
  PROVE  Stopped(d, s).stop /\ Ends(d, Stopped(d, s).cd)
BY MarkFacts DEF Stopped

(* A new data is of its type, unfrozen, within its limits, its top span open. *)
LEMMA BuildFacts ==
  ASSUME NEW prefix \in Seq(Entry), NEW n \in Nat \cup {None},
         \A i \in DOMAIN prefix : ~prefix[i].template => prefix[i].value \in ChoiceValues
  PROVE  /\ DataOK(Build(prefix, n)) /\ WithinLimits(Build(prefix, n))
         /\ ~Build(prefix, n).frozen /\ Build(prefix, n).depth = 0
         /\ Build(prefix, n).nodes = <<>>
<1>. DEFINE d == [max_length |-> BUFFER_SIZE, max_choices |-> n,
               length |-> 0, index |-> 0, status |-> VALID, frozen |-> FALSE,
               depth |-> -1, max_depth |-> 0, has_discards |-> FALSE,
               prefix |-> prefix, nodes |-> <<>>, misaligned |-> FALSE,
               interesting_origin |-> None]
<1>1. BUFFER_SIZE \in Nat /\ VALID \in OVERRUN .. INTERESTING
  BY ExampleAssumption DEF VALID, OVERRUN, INTERESTING
<1>2. d \in ConjectureData
  BY <1>1 DEF ConjectureData
<1>3. DataOK(d) /\ d.depth = -1 /\ ~d.frozen /\ d.nodes = <<>> /\ d.length = 0
      /\ d.max_choices = n /\ d.max_length = BUFFER_SIZE
  BY <1>2 DEF DataOK
<1>4. Build(prefix, n) = StartSpan(d)
  BY DEF Build
<1>. HIDE DEF d
<1>5. SameFrame(d, StartSpan(d))
  BY <1>3, StartSpanFacts
<1>. QED  BY <1>1, <1>3, <1>4, <1>5, StartSpanFacts DEF WithinLimits, SameFrame

-----------------------------------------------------------------------------
(* Draws.                                                                  *)

(* The data goes on: what a draw may change short of recording the choice.  *)
Passes(d, e) == /\ DataOK(e) /\ SameFrame(d, e)
                /\ e.status = d.status /\ e.frozen = d.frozen /\ e.depth = d.depth

LEMMA PassesEnds ==
  ASSUME NEW d, NEW e, NEW f, Passes(d, e), Ends(e, f)
  PROVE  Ends(d, f)
BY DEF Passes, Ends, SameFrame, SpansKept

LEMMA PassesPasses ==
  ASSUME NEW d, NEW e, NEW f, Passes(d, e), Passes(e, f)
  PROVE  Passes(d, f)
BY DEF Passes, SameFrame

LEMMA PassesFields ==
  ASSUME NEW d, DataOK(d)
  PROVE  /\ Passes(d, d)
         /\ Passes(d, [d EXCEPT !.misaligned = TRUE])
         /\ Passes(d, [d EXCEPT !.index = @ + 1])
<1>1. d \in ConjectureData /\ d.index + 1 \in Nat
  BY DEF DataOK, ConjectureData
<1>2. Passes(d, d)
  BY DEF Passes, SameFrame
<1>3. Passes(d, [d EXCEPT !.misaligned = TRUE])
  <2>. DEFINE e == [d EXCEPT !.misaligned = TRUE]
  <2>1. e \in ConjectureData
    BY <1>1 DEF ConjectureData
  <2>2. e.prefix = d.prefix /\ SameFrame(d, e) /\ e.status = d.status /\ e.depth = d.depth
    BY <1>1 DEF ConjectureData, SameFrame
  <2>3. e.frozen = d.frozen
    BY <1>1 DEF ConjectureData
  <2>. QED  BY <2>1, <2>2, <2>3 DEF Passes, DataOK
<1>4. Passes(d, [d EXCEPT !.index = @ + 1])
  <2>. DEFINE e == [d EXCEPT !.index = @ + 1]
  <2>1. e \in ConjectureData
    BY <1>1 DEF ConjectureData
  <2>2. e.prefix = d.prefix /\ SameFrame(d, e) /\ e.status = d.status /\ e.depth = d.depth
    BY <1>1 DEF ConjectureData, SameFrame
  <2>3. e.frozen = d.frozen
    BY <1>1 DEF ConjectureData
  <2>. QED  BY <2>1, <2>2, <2>3 DEF Passes, DataOK
<1>. QED  BY <1>2, <1>3, <1>4

(* A step of a draw stops, or goes on with a value: the forced one, or one  *)
(* the constraints permit.                                                  *)
Fits(d, c, forced, o) ==
  \/ o.stop = TRUE /\ Ends(d, o.cd)
  \/ /\ o.stop = FALSE /\ Passes(d, o.cd) /\ o.value \in ChoiceValues
     /\ forced = {} => Permits(o.value, c)

LEMMA SimplestFacts ==
  ASSUME NEW d, DataOK(d), NEW c \in Constraints, NEW o \in SimplestOr(d, c)
  PROVE  \/ o.stop = TRUE /\ Ends(d, o.cd)
         \/ o.stop = FALSE /\ o.cd = d /\ o.value \in ChoiceValues /\ Permits(o.value, c)
<1>1. CASE Simplest(c) = {}
  <2>1. o = Stopped(d, OVERRUN)
    BY <1>1 DEF SimplestOr
  <2>. QED  BY <2>1, StoppedFacts DEF Stopped
<1>2. CASE Simplest(c) # {}
  <2>1. PICK v \in Simplest(c) : o = Got(d, v)
    BY <1>2 DEF SimplestOr
  <2>2. v \in ChoiceValues /\ Permits(v, c)
    BY ExampleAssumption DEF Constraints
  <2>. QED  BY <2>1, <2>2 DEF Got
<1>. QED  BY <1>1, <1>2

LEMMA FromValueFacts ==
  ASSUME NEW d, DataOK(d), d.index < Len(d.prefix), ~d.prefix[d.index + 1].template,
         NEW c \in Constraints, NEW forced, NEW o \in FromValue(d, c)
  PROVE  Fits(d, c, forced, o)
<1>. DEFINE raw == d.prefix[d.index + 1].value
            e   == [d EXCEPT !.misaligned = TRUE]
            Used(p) == IF p.stop THEN p ELSE Got([p.cd EXCEPT !.index = @ + 1], p.value)
<1>1. raw \in ChoiceValues
  BY DEF DataOK, ConjectureData
<1>2. CASE Permits(raw, c)
  <2>1. o = Used(Got(d, raw))
    BY <1>2 DEF FromValue
  <2>2. o = Got([d EXCEPT !.index = @ + 1], raw)
    BY <2>1 DEF Got
  <2>. QED  BY <1>1, <1>2, <2>2, PassesFields DEF Fits, Got
<1>3. CASE ~Permits(raw, c)
  <2>1. PICK p \in SimplestOr(e, c) : o = Used(p)
    BY <1>3 DEF FromValue
  <2>2. Passes(d, e)
    BY PassesFields
  <2>. HIDE DEF e
  <2>3. DataOK(e)
    BY <2>2 DEF Passes
  <2>4. CASE p.stop = TRUE /\ Ends(e, p.cd)
    <3>1. o = p
      BY <2>1, <2>4
    <3>. QED  BY <2>2, <2>4, <3>1, PassesEnds DEF Fits
  <2>5. CASE p.stop = FALSE /\ p.cd = e /\ p.value \in ChoiceValues /\ Permits(p.value, c)
    <3>1. o = Got([e EXCEPT !.index = @ + 1], p.value)
      BY <2>1, <2>5
    <3>2. Passes(d, [e EXCEPT !.index = @ + 1])
      BY <2>2, <2>3, PassesFields, PassesPasses
    <3>. QED  BY <2>5, <3>1, <3>2 DEF Fits, Got
  <2>. QED  BY <2>3, <2>4, <2>5, SimplestFacts, ZenonT(60)
<1>. QED  BY <1>2, <1>3

(* Spending one of the choices a template stands for.                      *)
LEMMA SpentFacts ==
  ASSUME NEW d, DataOK(d), NEW i \in DOMAIN d.prefix, d.prefix[i].template,
         d.prefix[i].count # None
  PROVE  Passes(d, [d EXCEPT !.prefix[i].count = @ - 1])
<1>. DEFINE entry == [d.prefix[i] EXCEPT !.count = d.prefix[i].count - 1]
            p     == [d.prefix EXCEPT ![i] = entry]
            e     == [d EXCEPT !.prefix = p]
<1>1. d \in ConjectureData /\ d.prefix \in Seq(Entry) /\ i \in 1 .. Len(d.prefix)
  BY DEF DataOK, ConjectureData
<1>2. entry \in Entry /\ entry.template
  <2>1. d.prefix[i] \in Entry
    BY <1>1
  <2>2. d.prefix[i].count - 1 \in Int
    BY <2>1 DEF Entry
  <2>3. \A x \in Entry, k \in Int : [x EXCEPT !.count = k] \in Entry
    BY DEF Entry
  <2>4. \A x \in Entry, k \in Int : [x EXCEPT !.count = k].template = x.template
    BY DEF Entry
  <2>. QED  BY <2>1, <2>2, <2>3, <2>4
<1>3. [d EXCEPT !.prefix[i].count = @ - 1] = e
  BY <1>1 DEF ConjectureData, Entry
<1>. HIDE DEF entry
<1>4. /\ p \in Seq(Entry) /\ Len(p) = Len(d.prefix)
      /\ \A j \in 1 .. Len(d.prefix) : p[j] = IF j = i THEN entry ELSE d.prefix[j]
  BY <1>1, <1>2, ExceptSeq
<1>. HIDE DEF p
<1>5. e \in ConjectureData
  BY <1>1, <1>4 DEF ConjectureData
<1>6. e.prefix = p /\ SameFrame(d, e) /\ e.status = d.status /\ e.depth = d.depth
  BY <1>1 DEF ConjectureData, SameFrame
<1>7. e.frozen = d.frozen
  BY <1>1 DEF ConjectureData
<1>8. \A j \in DOMAIN p : ~p[j].template => p[j].value \in ChoiceValues
  BY <1>1, <1>2, <1>4 DEF DataOK
<1>. QED  BY <1>3, <1>5, <1>6, <1>7, <1>8 DEF Passes, DataOK

LEMMA FromTemplateFacts ==
  ASSUME NEW d, DataOK(d), d.index + 1 \in DOMAIN d.prefix, d.prefix[d.index + 1].template,
         NEW c \in Constraints, NEW forced \in SUBSET ChoiceValues,
         NEW o \in FromTemplate(d, c, forced)
  PROVE  Fits(d, c, forced, o)
<1>. DEFINE entry == d.prefix[d.index + 1]
            spent == IF entry.count = None THEN d
                     ELSE [d EXCEPT !.prefix[d.index + 1].count = @ - 1]
            Spend(p) == IF p.stop THEN p
                        ELSE IF entry.count # None /\ entry.count - 1 < 0
                             THEN Stopped(spent, OVERRUN)
                             ELSE Got(spent, p.value)
<1>1. PICK p \in (IF forced # {} THEN {Got(d, v) : v \in forced} ELSE SimplestOr(d, c)) :
        o = Spend(p)
  BY DEF FromTemplate
<1>2. Passes(d, spent)
  <2>1. CASE entry.count = None
    BY <2>1, PassesFields
  <2>2. CASE entry.count # None
    BY <2>2, SpentFacts
  <2>. QED  BY <2>1, <2>2
<1>. HIDE DEF spent
<1>3. DataOK(spent)
  BY <1>2 DEF Passes
<1>4. \/ p.stop = TRUE /\ Ends(d, p.cd)
      \/ /\ p.stop = FALSE /\ p.value \in ChoiceValues
         /\ forced = {} => Permits(p.value, c)
  <2>1. CASE forced # {}
    BY <1>1, <2>1 DEF Got
  <2>2. CASE forced = {}
    BY <1>1, <2>2, SimplestFacts
  <2>. QED  BY <2>1, <2>2
<1>5. CASE p.stop = TRUE
  BY <1>1, <1>4, <1>5 DEF Fits
<1>6. CASE p.stop = FALSE
  <2>1. CASE o = Stopped(spent, OVERRUN)
    <3>1. o.stop /\ Ends(spent, o.cd)
      BY <1>3, <2>1, StoppedFacts
    <3>. QED  BY <1>2, <2>1, <3>1, PassesEnds DEF Fits, Stopped
  <2>2. CASE o = Got(spent, p.value)
    BY <1>2, <1>4, <1>6, <2>2 DEF Fits, Got
  <2>. QED  BY <1>1, <1>6, <2>1, <2>2
<1>. QED  BY <1>4, <1>5, <1>6

LEMMA PopFacts ==
  ASSUME NEW d, DataOK(d), d.index < Len(d.prefix),
         NEW c \in Constraints, NEW forced \in SUBSET ChoiceValues,
         NEW o \in PopChoice(d, c, forced)
  PROVE  Fits(d, c, forced, o)
<1>1. d.index + 1 \in DOMAIN d.prefix
  BY DEF DataOK, ConjectureData
<1>2. CASE d.prefix[d.index + 1].template
  BY <1>1, <1>2, FromTemplateFacts DEF PopChoice
<1>3. CASE ~d.prefix[d.index + 1].template
  BY <1>3, FromValueFacts DEF PopChoice
<1>. QED  BY <1>2, <1>3

(* What a recorded draw does to the data: the limits hold on, the spans are *)
(* as before unless the example ended, and a stop freezes.                  *)
Draws(d, o) ==
  /\ DataOK(o.cd)
  /\ WithinLimits(d) => WithinLimits(o.cd)
  /\ SpansKept(d, o.cd)
  /\ ~o.cd.frozen => ~d.frozen /\ o.cd.depth = d.depth
  /\ o.stop => o.cd.frozen

LEMMA EndsDraws ==
  ASSUME NEW d, NEW o, Ends(d, o.cd)
  PROVE  Draws(d, o)
BY DEF Ends, Draws, SameFrame, WithinLimits

(* Recording a choice where there is room for one.                         *)
LEMMA RecordFacts ==
  ASSUME NEW d, DataOK(d), ~Full(d), NEW v \in ChoiceValues, NEW c \in Constraints, NEW forced
  PROVE  LET e == RecordNode(d, v, c, forced)
         IN  /\ DataOK(e) /\ e.status = d.status /\ e.frozen = d.frozen /\ e.depth = d.depth
             /\ e.max_length = d.max_length /\ e.max_choices = d.max_choices
             /\ WithinLimits(d) => (e.max_choices # None => Len(e.nodes) <= e.max_choices)
<1>. DEFINE node == [value |-> v, constraints |-> c, was_forced |-> forced # {}]
            nodes == Append(d.nodes, node)
            n == d.length + SizeOf(v)
            e == [d EXCEPT !.length = n, !.nodes = nodes]
<1>1. d \in ConjectureData /\ d.nodes \in Seq(Node) /\ node \in Node
  BY DEF DataOK, ConjectureData, Node, Constraints
<1>2. nodes \in Seq(Node) /\ Len(nodes) = Len(d.nodes) + 1
  BY <1>1, AppendProperties
<1>3. n \in Nat
  BY <1>1, ExampleAssumption DEF ConjectureData
<1>4. RecordNode(d, v, c, forced) = e
  BY DEF RecordNode
<1>. HIDE DEF nodes, n
<1>5. e \in ConjectureData
  BY <1>1, <1>2, <1>3 DEF ConjectureData
<1>6. /\ e.prefix = d.prefix /\ e.status = d.status /\ e.depth = d.depth
      /\ e.max_length = d.max_length /\ e.max_choices = d.max_choices /\ e.nodes = nodes
  BY <1>1 DEF ConjectureData
<1>7. e.frozen = d.frozen
  BY <1>1 DEF ConjectureData
<1>8. WithinLimits(d) => (e.max_choices # None => Len(e.nodes) <= e.max_choices)
  <2>1. d.max_choices # None => d.max_choices \in Nat /\ Len(d.nodes) # d.max_choices
    BY <1>1 DEF ConjectureData, Full
  <2>2. Len(d.nodes) \in Nat
    BY <1>1
  <2>. QED  BY <1>2, <1>6, <2>1, <2>2 DEF WithinLimits
<1>. QED  BY <1>4, <1>5, <1>6, <1>7, <1>8 DEF DataOK

(* A draw that goes on has the forced value, or one the constraints permit. *)
Answers(c, forced, o) ==
  o.stop = FALSE /\ o.value \in ChoiceValues
  /\ (forced = {} => Permits(o.value, c)) /\ (forced # {} => o.value \in forced)

Keeps(o, q) == o.stop = TRUE \/ (o.stop = FALSE /\ o.value = q.value)

LEMMA ObserveFacts ==
  ASSUME NEW d, DataOK(d), ~Full(d), NEW c \in Constraints, NEW forced,
         NEW q, q.stop = FALSE, Passes(d, q.cd), q.value \in ChoiceValues,
         NEW o, o = Observe(q, c, forced)
  PROVE  Draws(d, o) /\ Keeps(o, q)
<1>. DEFINE e == RecordNode(q.cd, q.value, c, forced)
<1>1. DataOK(q.cd) /\ ~Full(q.cd)
  BY DEF Passes, SameFrame, Full
<1>2. /\ DataOK(e) /\ e.status = d.status /\ e.frozen = d.frozen /\ e.depth = d.depth
      /\ WithinLimits(d) => (e.max_choices # None => Len(e.nodes) <= e.max_choices)
  <2>1. WithinLimits(d) => WithinLimits(q.cd)
    BY DEF Passes, SameFrame, WithinLimits
  <2>. QED  BY <1>1, <2>1, RecordFacts DEF Passes
<1>. HIDE DEF e
<1>3. CASE e.length > e.max_length
  <2>1. o = Stopped(e, OVERRUN)
    BY <1>3 DEF Observe, e
  <2>2. o.stop = TRUE /\ Ends(e, o.cd)
    BY <1>2, <2>1, StoppedFacts DEF Stopped
  <2>3. WithinLimits(d) => WithinLimits(o.cd)
    BY <1>2, <2>2 DEF Ends, SameFrame, WithinLimits
  <2>4. SpansKept(d, o.cd)
    BY <1>2, <2>2 DEF Ends, SpansKept
  <2>5. DataOK(o.cd) /\ o.cd.frozen
    BY <2>2 DEF Ends
  <2>6. Draws(d, o)
    BY <2>3, <2>4, <2>5 DEF Draws
  <2>. QED  BY <2>2, <2>6 DEF Keeps
<1>4. CASE ~(e.length > e.max_length)
  <2>1. o = Got(e, q.value)
    BY <1>4 DEF Observe, e
  <2>2. o.cd = e /\ o.stop = FALSE /\ o.value = q.value
    BY <2>1 DEF Got
  <2>3. e.length <= e.max_length
    BY <1>2, <1>4 DEF DataOK, ConjectureData
  <2>4. WithinLimits(d) => WithinLimits(o.cd)
    BY <1>2, <2>2, <2>3 DEF WithinLimits
  <2>5. Draws(d, o)
    BY <1>2, <2>2, <2>4 DEF Draws, SpansKept
  <2>. QED  BY <2>2, <2>5 DEF Keeps
<1>. QED  BY <1>3, <1>4

LEMMA DrawFacts ==
  ASSUME NEW d, DataOK(d), NEW c \in Constraints, NEW forced \in SUBSET ChoiceValues,
         NEW o \in DrawInner(d, c, TRUE, forced)
  PROVE  Draws(d, o) /\ (o.stop = TRUE \/ Answers(c, forced, o))
<1>1. CASE Full(d)
  <2>1. o = Stopped(d, OVERRUN)
    BY <1>1 DEF DrawInner
  <2>. QED  BY <2>1, StoppedFacts, EndsDraws DEF Stopped
<1>2. CASE ~Full(d)
  <2>. DEFINE in_prefix == TRUE /\ d.index < Len(d.prefix)
              raw == IF in_prefix THEN PopChoice(d, c, forced)
                     ELSE IF forced = {} THEN {Got(d, v) : v \in Samples(c)}
                     ELSE {Got(d, v) : v \in forced}
              settled == UNION {Override(r, forced) : r \in raw}
  <2>1. DrawInner(d, c, TRUE, forced) = {Observe(q, c, forced) : q \in settled}
    BY <1>2 DEF DrawInner
  <2>2. PICK r \in raw : \E q \in Override(r, forced) : o = Observe(q, c, forced)
    BY <2>1
  <2>3. PICK q \in Override(r, forced) : o = Observe(q, c, forced)
    BY <2>2
  <2>4. Fits(d, c, forced, r)
    <3>1. CASE in_prefix
      BY <3>1, PopFacts
    <3>2. CASE ~in_prefix /\ forced = {}
      <4>1. PICK v \in Samples(c) : r = Got(d, v)
        BY <3>2
      <4>2. v \in ChoiceValues /\ Permits(v, c)
        BY ExampleAssumption DEF Constraints
      <4>. QED  BY <4>1, <4>2, PassesFields DEF Fits, Got
    <3>3. CASE ~in_prefix /\ forced # {}
      <4>1. PICK v \in forced : r = Got(d, v)
        BY <3>3
      <4>. QED  BY <3>3, <4>1, PassesFields DEF Fits, Got
    <3>. QED  BY <3>1, <3>2, <3>3
  <2>. HIDE DEF raw, settled, in_prefix
  <2>5. CASE r.stop = TRUE
    <3>1. q = r
      BY <2>3, <2>5 DEF Override
    <3>2. o = r
      BY <2>3, <2>5, <3>1 DEF Observe
    <3>. QED  BY <2>4, <2>5, <3>2, EndsDraws DEF Fits
  <2>6. CASE r.stop = FALSE
    <3>1. Passes(d, r.cd) /\ r.value \in ChoiceValues /\ (forced = {} => Permits(r.value, c))
      BY <2>4, <2>6 DEF Fits
    <3>2. /\ q.stop = FALSE /\ q.cd = r.cd /\ q.value \in ChoiceValues
          /\ (forced = {} => Permits(q.value, c)) /\ (forced # {} => q.value \in forced)
      <4>1. CASE forced = {}
        BY <2>6, <3>1, <4>1 DEF Override
      <4>2. CASE forced # {}
        BY <2>6, <3>1, <4>2 DEF Override, Got
      <4>. QED  BY <4>1, <4>2
    <3>3. Passes(d, q.cd)
      BY <3>1, <3>2
    <3>4. Draws(d, o) /\ Keeps(o, q)
      <4>1. q.stop = FALSE /\ q.value \in ChoiceValues
        BY <3>2
      <4>. QED  BY <1>2, <2>3, <3>3, <4>1, ObserveFacts
    <3>5. o.stop = FALSE /\ o.value = q.value => Answers(c, forced, o)
      BY <3>2 DEF Answers
    <3>. QED  BY <3>4, <3>5 DEF Keeps
  <2>. QED  BY <2>4, <2>5, <2>6 DEF Fits
<1>. QED  BY <1>1, <1>2

-----------------------------------------------------------------------------
(* The inductive invariant. What the state of the list has to do with the   *)
(* count of its Many, and the size bounds with the forced answers.          *)

Distinct(list) == \A i, j \in DOMAIN list : list[i] = list[j] => i = j

ListInv ==
  /\ many.min_size = wanted.min_size /\ many.max_size = wanted.max_size
  /\ many.count <= many.max_size
  /\ many.force_stop => many.count >= many.min_size
  /\ pc = "arguments" => result = <<>>
  /\ pc \in {"arguments", "more"} => many.count = Len(result)
  /\ pc = "element" => many.count = Len(result) + 1 /\ ~many.force_stop
  /\ pc \in {"body", "finished"} => Len(result) \in wanted.min_size .. wanted.max_size
  /\ wanted.unique => Distinct(result)
  /\ Ended => cd.frozen

IInv == TypeOK /\ LimitsHold /\ SpansBalanced /\ ListInv

(* A state of the data after a step of the program, n the spans opened on   *)
(* frozen data.                                                            *)
Nested(d, n) == IF d.frozen THEN d.depth = n - 1 ELSE n = 0 /\ d.depth >= 0

Sound(d, n) == DataOK(d) /\ WithinLimits(d) /\ Nested(d, n)

LEMMA InvSound ==
  ASSUME IInv
  PROVE  Sound(cd, late) /\ late \in Nat /\ (Ended => cd.frozen)
<1>1. cd \in ConjectureData
  BY DEF IInv, TypeOK, DataOK
<1>2. Nested(cd, late)
  BY <1>1 DEF IInv, SpansBalanced, ConjectureData, Nested
<1>. QED  BY <1>2 DEF IInv, TypeOK, LimitsHold, ListInv, Sound

LEMMA StartSound ==
  ASSUME NEW d, NEW n \in Nat, Sound(d, n)
  PROVE  Sound(StartSpan(d), IF d.frozen THEN n + 1 ELSE n)
<1>1. d.depth \in Int
  BY DEF Sound, DataOK, ConjectureData
<1>2. /\ DataOK(StartSpan(d)) /\ SameFrame(d, StartSpan(d)) /\ StartSpan(d).status = d.status
      /\ StartSpan(d).depth = d.depth + 1 /\ StartSpan(d).frozen = d.frozen
  BY StartSpanFacts DEF Sound
<1>3. WithinLimits(StartSpan(d))
  BY <1>2 DEF Sound, SameFrame, WithinLimits
<1>4. CASE d.frozen
  <2>1. Nested(StartSpan(d), n + 1)
    BY <1>1, <1>2, <1>4 DEF Sound, Nested
  <2>. QED  BY <1>2, <1>3, <1>4, <2>1 DEF Sound
<1>5. CASE ~d.frozen
  <2>1. Nested(StartSpan(d), n)
    BY <1>1, <1>2, <1>5 DEF Sound, Nested
  <2>. QED  BY <1>2, <1>3, <1>5, <2>1 DEF Sound
<1>. QED  BY <1>4, <1>5

(* Ending leaves the data nested.                                          *)
LEMMA KeptNested ==
  ASSUME NEW d, NEW e, NEW n \in Nat, Nested(d, n), SpansKept(d, e), e.frozen
  PROVE  Nested(e, n)
<1>1. CASE d.frozen
  BY <1>1 DEF Nested, SpansKept
<1>2. CASE ~d.frozen
  BY <1>2 DEF Nested, SpansKept
<1>. QED  BY <1>1, <1>2

(* A draw leaves the data sound, and an unfinished one at its depth.        *)
LEMMA DrawSound ==
  ASSUME NEW d, NEW n \in Nat, Sound(d, n), NEW c \in Constraints, NEW forced \in SUBSET ChoiceValues,
         NEW o \in DrawInner(d, c, TRUE, forced)
  PROVE  /\ Sound(o.cd, n)
         /\ ~o.cd.frozen => ~d.frozen /\ o.cd.depth = d.depth
         /\ o.stop => o.cd.frozen
         /\ o.stop = TRUE \/ Answers(c, forced, o)
<1>1. DataOK(d)
  BY DEF Sound
<1>2. Draws(d, o)
  BY <1>1, DrawFacts, Zenon
<1>3. o.stop = TRUE \/ Answers(c, forced, o)
  BY <1>1, DrawFacts, Zenon
<1>4. Nested(o.cd, n)
  <2>1. CASE o.cd.frozen
    BY <1>2, <2>1, KeptNested DEF Sound, Draws
  <2>2. CASE ~o.cd.frozen
    BY <1>2, <2>2 DEF Sound, Draws, Nested
  <2>. QED  BY <2>1, <2>2
<1>5. /\ Sound(o.cd, n)
      /\ ~o.cd.frozen => ~d.frozen /\ o.cd.depth = d.depth
      /\ o.stop => o.cd.frozen
  BY <1>2, <1>4 DEF Sound, Draws
<1>. QED  BY ONLY <1>3, <1>5, Zenon

LEMMA MarkedSound ==
  ASSUME NEW d, NEW e, NEW n \in Nat, Sound(d, n), Ends(d, e)
  PROVE  Sound(e, n) /\ e.frozen
BY KeptNested DEF Ends, Sound, SameFrame, WithinLimits

-----------------------------------------------------------------------------
(* The ways an example ends.                                               *)

LEMMA UnwindStep ==
  ASSUME IInv, NEW d, Sound(d, late), d.frozen, Unwind(d)
  PROVE  IInv' /\ result' = result /\ wanted' = wanted /\ pc' = "abandoned"
<1>. DEFINE e == StopSpan(d, FALSE)
            f == Freeze(e)
<1>1. /\ DataOK(e) /\ SameFrame(d, e) /\ e.status = d.status
      /\ e.depth = d.depth /\ e.frozen
  BY StopSpanFacts DEF Sound
<1>. HIDE DEF e
<1>2. /\ DataOK(f) /\ SameFrame(e, f) /\ f.frozen /\ f.status = e.status
      /\ f.depth = late - 1
  BY <1>1, FreezeFacts DEF Sound, Nested, SpansKept
<1>3. WithinLimits(f)
  BY <1>1, <1>2 DEF Sound, SameFrame, WithinLimits
<1>. HIDE DEF f
<1>4. /\ cd' = f /\ pc' = "abandoned" /\ outcome' = "Invalid"
      /\ UNCHANGED <<wanted, many, result, step, script, earlier, late>>
  BY DEF Unwind, e, f
<1>5. TypeOK'
  BY <1>2, <1>4 DEF IInv, TypeOK
<1>6. LimitsHold' /\ SpansBalanced'
  BY <1>2, <1>3, <1>4 DEF LimitsHold, SpansBalanced
<1>7. ListInv'
  BY <1>2, <1>4 DEF IInv, ListInv, Ended
<1>. QED  BY <1>4, <1>5, <1>6, <1>7 DEF IInv

LEMMA EndStep ==
  ASSUME IInv, pc = "body", NEW d, NEW n \in Nat, Sound(d, n), late' = n,
         NEW what \in {"Valid", "Invalid", "Interesting"}, End(d, what)
  PROVE  IInv' /\ result' = result /\ wanted' = wanted /\ pc' = "finished"
<1>. DEFINE f == Freeze(d)
<1>1. /\ DataOK(f) /\ SameFrame(d, f) /\ f.frozen /\ f.status = d.status
      /\ SpansKept(d, f)
  BY FreezeFacts DEF Sound
<1>2. WithinLimits(f) /\ f.depth = n - 1
  <2>1. Nested(f, n)
    BY <1>1, KeptNested DEF Sound
  <2>. QED  BY <1>1, <2>1 DEF Sound, SameFrame, WithinLimits, Nested
<1>. HIDE DEF f
<1>3. /\ cd' = f /\ pc' = "finished" /\ outcome' = what
      /\ UNCHANGED <<wanted, many, result, step, script, earlier>>
  BY DEF End, f
<1>4. TypeOK'
  BY <1>1, <1>3 DEF IInv, TypeOK
<1>5. LimitsHold' /\ SpansBalanced'
  BY <1>1, <1>2, <1>3 DEF LimitsHold, SpansBalanced
<1>6. ListInv'
  BY <1>1, <1>3 DEF IInv, ListInv, Ended
<1>. QED  BY <1>3, <1>4, <1>5, <1>6 DEF IInv

LEMMA ContinueStep ==
  ASSUME IInv, pc = "body", NEW d, NEW n \in Nat, Sound(d, n), late' = n, ~d.frozen => d.depth = 0, Continue(d)
  PROVE  IInv' /\ result' = result /\ wanted' = wanted /\ pc' = "body"
<1>1. /\ cd' = d /\ step' = step + 1 /\ pc' = "body"
      /\ UNCHANGED <<wanted, many, result, script, outcome, earlier>>
  BY DEF Continue
<1>2. TypeOK'
  BY <1>1 DEF Sound, IInv, TypeOK
<1>3. LimitsHold' /\ SpansBalanced'
  BY <1>1 DEF Sound, Nested, LimitsHold, SpansBalanced, Ended
<1>4. ListInv'
  BY <1>1 DEF IInv, ListInv, Ended
<1>. QED  BY <1>1, <1>2, <1>3, <1>4 DEF IInv

-----------------------------------------------------------------------------
(* The invariant is inductive: one lemma per action.                       *)

LEMMA InitInv == Init => IInv
<1>. SUFFICES ASSUME Init  PROVE IInv
  OBVIOUS
<1>1. DataOK(cd) /\ WithinLimits(cd) /\ ~cd.frozen /\ cd.depth = 0
  <2>1. CASE cd = NewGenerate
    <3>1. <<>> \in Seq(Entry) /\ DOMAIN <<>> = {}
      OBVIOUS
    <3>. QED  BY <2>1, <3>1, BuildFacts DEF NewGenerate
  <2>2. CASE cd = NewSimplest
    <3>1. Template(None) \in Entry /\ Template(None).template
      BY DEF Template, Entry
    <3>. DEFINE prefix == <<Template(None)>>
    <3>2. prefix \in Seq(Entry) /\ \A i \in DOMAIN prefix : prefix[i] = Template(None)
      BY <3>1
    <3>3. cd = Build(prefix, None)
      BY <2>2 DEF NewSimplest
    <3>. HIDE DEF prefix
    <3>. QED  BY <3>1, <3>2, <3>3, BuildFacts
  <2>3. ASSUME NEW prefix \in Handed, cd = ForChoices(prefix)
        PROVE  DataOK(cd) /\ WithinLimits(cd) /\ ~cd.frozen /\ cd.depth = 0
    BY <2>3, ExampleAssumption, BuildFacts DEF ForChoices, Entry
  <2>. QED  BY <2>1, <2>2, <2>3 DEF Init, Starts
<1>2. /\ wanted \in Wanted /\ wanted.min_size \in Nat /\ wanted.max_size \in Nat
      /\ wanted.min_size <= wanted.max_size
  BY ExampleAssumption DEF Init
<1>3. many \in [min_size : Nat, max_size : Nat, count : Nat, rejections : Nat, force_stop : BOOLEAN]
  BY <1>2 DEF Init, NewMany
<1>4. TypeOK
  BY <1>1, <1>2, <1>3 DEF Init, TypeOK
<1>5. LimitsHold /\ SpansBalanced
  BY <1>1 DEF Init, LimitsHold, SpansBalanced, Ended
<1>6. ListInv
  BY <1>1, <1>2 DEF Init, NewMany, ListInv, Distinct, Ended
<1>. QED  BY <1>4, <1>5, <1>6 DEF IInv

LEMMA DrawArgumentStep == IInv /\ DrawArgument => IInv'
<1>. SUFFICES ASSUME IInv, DrawArgument  PROVE IInv'
  OBVIOUS
<1>. DEFINE d == StartSpan(cd)
            n == IF cd.frozen THEN late + 1 ELSE late
<1>1. Sound(cd, late) /\ late \in Nat /\ n \in Nat
  BY InvSound
<1>2. Sound(d, n) /\ d.frozen = cd.frozen /\ d.depth = cd.depth + 1
  BY <1>1, StartSound, StartSpanFacts DEF Sound
<1>3. cd' = d /\ late' = n /\ pc' = "more"
  BY DEF DrawArgument, LateOpened
<1>. HIDE DEF d, n
<1>4. TypeOK'
  BY <1>1, <1>2, <1>3 DEF IInv, DrawArgument, TypeOK, Sound
<1>5. ~d.frozen => d.depth = 1
  <2>1. ~cd.frozen => cd.depth = 0
    BY DEF IInv, SpansBalanced, DrawArgument
  <2>. QED  BY <1>2, <2>1
<1>6. LimitsHold' /\ SpansBalanced'
  BY <1>2, <1>3, <1>5 DEF LimitsHold, SpansBalanced, Sound, Nested, Ended
<1>7. ListInv'
  BY DEF IInv, ListInv, DrawArgument, Ended
<1>. QED  BY <1>4, <1>6, <1>7 DEF IInv

(* What the decision to go on does to the list, given the count.            *)
LEMMA MoreFacts ==
  ASSUME IInv, pc = "more", NEW o \in MoreOutcomes(many, cd)
  PROVE  /\ Sound(o.cd, late)
         /\ ~o.cd.frozen => ~cd.frozen /\ o.cd.depth = cd.depth
         /\ o.stop => o.cd.frozen
         /\ ~o.stop /\ o.value = True => many.count < many.max_size /\ ~many.force_stop
         /\ ~o.stop /\ o.value # True => many.count \in many.min_size .. many.max_size
<1>. DEFINE n == many.count
<1>1. /\ n \in Nat /\ many.min_size \in Nat /\ many.max_size \in Nat
      /\ many.min_size <= many.max_size /\ n <= many.max_size
      /\ (many.force_stop => n >= many.min_size) /\ many.force_stop \in BOOLEAN
  BY ExampleAssumption DEF IInv, TypeOK, ListInv
<1>2. Sound(cd, late) /\ late \in Nat /\ True # False /\ True \in ChoiceValues /\ False \in ChoiceValues
  BY InvSound, ExampleAssumption
<1>3. CASE many.min_size = many.max_size
  <2>1. o.cd = cd /\ o.stop = FALSE /\ o.value = IF n < many.min_size THEN True ELSE False
    BY <1>3 DEF MoreOutcomes, Got
  <2>. QED  BY <1>1, <1>2, <1>3, <2>1
<1>4. CASE many.min_size # many.max_size
  <2>. DEFINE forced == ForcedMore(many)
  <2>1. o \in DrawInner(cd, ContinueC, TRUE, forced)
    BY <1>4 DEF MoreOutcomes
  <2>2. forced \in SUBSET ChoiceValues
    BY <1>2 DEF ForcedMore
  <2>3. /\ many.force_stop => forced = {False}
        /\ ~many.force_stop /\ n < many.min_size => forced = {True}
        /\ ~many.force_stop /\ ~(n < many.min_size) /\ n >= many.max_size => forced = {False}
    BY DEF ForcedMore
  <2>. HIDE DEF forced
  <2>4. /\ Sound(o.cd, late) /\ (~o.cd.frozen => ~cd.frozen /\ o.cd.depth = cd.depth)
        /\ (o.stop => o.cd.frozen)
    BY <1>2, <2>1, <2>2, DrawSound DEF Constraints
  <2>5. ASSUME ~o.stop  PROVE forced # {} => o.value \in forced
    <3>1. o.stop = TRUE \/ Answers(ContinueC, forced, o)
      BY <1>2, <2>1, <2>2, DrawSound, Zenon DEF Constraints
    <3>. QED  BY <2>5, <3>1, Zenon DEF Answers
  <2>6. ASSUME ~o.stop, o.value = True
        PROVE  n < many.max_size /\ ~many.force_stop
    BY <1>1, <1>2, <2>3, <2>5, <2>6
  <2>7. ASSUME ~o.stop, o.value # True
        PROVE  n \in many.min_size .. many.max_size
    BY <1>1, <1>2, <2>3, <2>5, <2>7
  <2>. QED  BY <2>4, <2>6, <2>7
<1>. QED  BY <1>3, <1>4

LEMMA MoreStep == IInv /\ More => IInv'
<1>. SUFFICES ASSUME IInv, More  PROVE IInv'
  OBVIOUS
<1>1. PICK o \in MoreOutcomes(many, cd) :
         \/ o.stop /\ Unwind(o.cd)
         \/ /\ ~o.stop /\ o.value = True
            /\ many' = Counted(many) /\ cd' = o.cd /\ pc' = "element"
            /\ UNCHANGED <<wanted, result, step, script, outcome, earlier, late>>
         \/ /\ ~o.stop /\ o.value # True
            /\ cd' = StopSpan(o.cd, FALSE) /\ pc' = "body"
            /\ IF earlier = None THEN script' \in Scripts ELSE UNCHANGED script
            /\ UNCHANGED <<wanted, many, result, step, outcome, earlier, late>>
  BY DEF More
<1>2. pc = "more"
  BY DEF More
<1>3. /\ Sound(o.cd, late) /\ (o.stop => o.cd.frozen)
      /\ ~o.cd.frozen => ~cd.frozen /\ o.cd.depth = cd.depth
  BY <1>2, MoreFacts
<1>4. ~cd.frozen => cd.depth = 1
  BY <1>2 DEF IInv, SpansBalanced
<1>5. CASE o.stop /\ Unwind(o.cd)
  BY <1>3, <1>5, UnwindStep
<1>6. CASE /\ ~o.stop /\ o.value = True
           /\ many' = Counted(many) /\ cd' = o.cd /\ pc' = "element"
           /\ UNCHANGED <<wanted, result, step, script, outcome, earlier, late>>
  <2>. DEFINE n == many.count + 1
  <2>1. many.count < many.max_size /\ ~many.force_stop
    BY <1>2, <1>6, MoreFacts
  <2>2. /\ many \in [min_size : Nat, max_size : Nat, count : Nat, rejections : Nat, force_stop : BOOLEAN]
        /\ many' = [many EXCEPT !.count = n] /\ n \in Nat
    BY <1>6 DEF IInv, TypeOK, Counted
  <2>3. TypeOK'
    BY <1>3, <1>6, <2>2 DEF IInv, TypeOK, Sound
  <2>4. LimitsHold' /\ SpansBalanced'
    BY <1>3, <1>4, <1>6 DEF LimitsHold, SpansBalanced, Sound, Nested, Ended
  <2>5. many'.force_stop = many.force_stop
    BY <2>2
  <2>6. ListInv'
    BY <1>2, <1>6, <2>1, <2>2, <2>5 DEF IInv, ListInv, Ended
  <2>. QED  BY <2>3, <2>4, <2>6 DEF IInv
<1>7. CASE /\ ~o.stop /\ o.value # True
           /\ cd' = StopSpan(o.cd, FALSE) /\ pc' = "body"
           /\ IF earlier = None THEN script' \in Scripts ELSE UNCHANGED script
           /\ UNCHANGED <<wanted, many, result, step, outcome, earlier, late>>
  <2>. DEFINE e == StopSpan(o.cd, FALSE)
  <2>1. many.count \in many.min_size .. many.max_size
    BY <1>2, <1>7, MoreFacts
  <2>2. /\ DataOK(e) /\ SameFrame(o.cd, e) /\ e.frozen = o.cd.frozen /\ e.status = o.cd.status
        /\ e.depth = IF o.cd.frozen THEN o.cd.depth ELSE o.cd.depth - 1
    BY <1>3, StopSpanFacts DEF Sound
  <2>. HIDE DEF e
  <2>3. WithinLimits(e)
    BY <1>3, <2>2 DEF SameFrame, WithinLimits, Sound
  <2>4. cd' = e
    BY <1>7 DEF e
  <2>5. TypeOK'
    BY <1>7, <2>2, <2>4 DEF IInv, TypeOK
  <2>6. LimitsHold' /\ SpansBalanced'
    <3>1. CASE o.cd.frozen
      <4>1. e.frozen /\ e.depth = late - 1
        BY <1>3, <2>2, <3>1 DEF Sound, Nested
      <4>. QED  BY <1>7, <2>3, <2>4, <4>1 DEF LimitsHold, SpansBalanced
    <3>2. CASE ~o.cd.frozen
      <4>1. ~e.frozen /\ e.depth = 0 /\ late = 0
        BY <1>3, <1>4, <2>2, <3>2 DEF Sound, Nested
      <4>. QED  BY <1>7, <2>3, <2>4, <4>1 DEF LimitsHold, SpansBalanced, Ended
    <3>. QED  BY <3>1, <3>2
  <2>7. ListInv'
    BY <1>2, <1>7, <2>1 DEF IInv, ListInv, Ended
  <2>. QED  BY <2>5, <2>6, <2>7 DEF IInv
<1>. QED  BY <1>1, <1>5, <1>6, <1>7

(* An element: drawn, or the fixed one of just().                          *)
LEMMA ElementFacts ==
  ASSUME IInv, pc = "element", NEW o \in Elements(cd)
  PROVE  /\ Sound(o.cd, late) /\ (o.stop => o.cd.frozen)
         /\ ~o.cd.frozen => o.cd.depth = 1
         /\ ~o.stop => o.value \in {v \in ChoiceValues : v = Fixed \/ Permits(v, ElementC)}
<1>1. Sound(cd, late) /\ late \in Nat /\ (~cd.frozen => cd.depth = 1) /\ Fixed \in ChoiceValues
  BY InvSound, ExampleAssumption DEF IInv, SpansBalanced
<1>2. CASE wanted.just
  BY <1>1, <1>2 DEF Elements, Got
<1>3. CASE ~wanted.just
  <2>1. o \in DrawInner(cd, ElementC, TRUE, {})
    BY <1>3 DEF Elements, Draw
  <2>2. /\ Sound(o.cd, late) /\ (o.stop => o.cd.frozen)
        /\ ~o.cd.frozen => ~cd.frozen /\ o.cd.depth = cd.depth
    BY <1>1, <2>1, DrawSound DEF Constraints
  <2>3. o.stop = TRUE \/ Answers(ElementC, {}, o)
    BY <1>1, <2>1, DrawSound, Zenon DEF Constraints
  <2>4. ~o.stop => o.value \in ChoiceValues /\ Permits(o.value, ElementC)
    BY <2>3, Zenon DEF Answers
  <2>. QED  BY <1>1, <2>2, <2>4
<1>. QED  BY <1>2, <1>3

LEMMA KeepStep ==
  ASSUME IInv, pc = "element", NEW o \in Elements(cd), Keep(o)
  PROVE  IInv'
<1>1. /\ Sound(o.cd, late) /\ (~o.cd.frozen => o.cd.depth = 1) /\ o.value \in ChoiceValues
  BY ElementFacts DEF Keep
<1>2. /\ result' = Append(result, o.value) /\ cd' = o.cd /\ pc' = "more" /\ ~Collides(o.value)
      /\ UNCHANGED <<wanted, many, step, script, outcome, earlier, late>>
  BY DEF Keep
<1>3. result \in Seq(ChoiceValues)
  BY DEF IInv, TypeOK
<1>4. /\ result' \in Seq(ChoiceValues) /\ Len(result') = Len(result) + 1
      /\ \A i \in DOMAIN result' : i \in DOMAIN result \/ i = Len(result) + 1
      /\ \A i \in DOMAIN result : result'[i] = result[i]
      /\ result'[Len(result) + 1] = o.value
  BY <1>1, <1>2, <1>3, AppendProperties
<1>5. TypeOK'
  BY <1>1, <1>2, <1>4 DEF IInv, TypeOK, Sound
<1>6. LimitsHold' /\ SpansBalanced'
  BY <1>1, <1>2 DEF LimitsHold, SpansBalanced, Sound, Nested, Ended
<1>7. wanted.unique => Distinct(result')
  BY <1>2, <1>4 DEF IInv, ListInv, Collides, Distinct
<1>8. ListInv'
  BY <1>2, <1>4, <1>7 DEF IInv, ListInv, Ended
<1>. QED  BY <1>5, <1>6, <1>8 DEF IInv

LEMMA RejectStep ==
  ASSUME IInv, pc = "element", NEW o \in Elements(cd), Reject(o)
  PROVE  IInv'
<1>1. /\ Sound(o.cd, late) /\ (~o.cd.frozen => o.cd.depth = 1) /\ ~o.stop
  BY ElementFacts DEF Reject
<1>2. CASE Hopeless(Rejected(many))
  <2>. DEFINE d == Mark(o.cd, INVALID, None)
  <2>1. Ends(o.cd, d)
    BY <1>1, MarkFacts DEF Sound
  <2>2. Sound(d, late) /\ d.frozen
    BY <1>1, <2>1, InvSound, MarkedSound
  <2>3. Unwind(d)
    BY <1>2 DEF Reject
  <2>. HIDE DEF d
  <2>. QED  BY <2>2, <2>3, UnwindStep
<1>3. CASE ~Hopeless(Rejected(many))
  <2>. DEFINE n == many.count - 1
              r == many.rejections + 1
              m == [many EXCEPT !.count = n, !.rejections = r]
  <2>1. /\ many' = Settled(Rejected(many)) /\ cd' = o.cd /\ pc' = "more"
        /\ UNCHANGED <<wanted, result, step, script, outcome, earlier, late>>
    BY <1>3 DEF Reject
  <2>2. /\ many \in [min_size : Nat, max_size : Nat, count : Nat, rejections : Nat, force_stop : BOOLEAN]
        /\ result \in Seq(ChoiceValues) /\ many.count = Len(result) + 1 /\ ~many.force_stop
        /\ many.count <= many.max_size
    BY DEF IInv, TypeOK, ListInv
  <2>3. Rejected(many) = m
    BY DEF Rejected
  <2>4. n \in Nat /\ r \in Nat /\ n = Len(result)
    BY <2>2
  <2>5. /\ m \in [min_size : Nat, max_size : Nat, count : Nat, rejections : Nat, force_stop : BOOLEAN]
        /\ m.count = n /\ m.min_size = many.min_size /\ m.max_size = many.max_size
    BY <2>2, <2>4
  <2>6. m.force_stop = many.force_stop
    BY <2>2
  <2>. HIDE DEF m, n, r
  <2>7. /\ many' \in [min_size : Nat, max_size : Nat, count : Nat, rejections : Nat, force_stop : BOOLEAN]
        /\ many'.count = n /\ many'.min_size = many.min_size /\ many'.max_size = many.max_size
    <3>1. [m EXCEPT !.force_stop = TRUE] \in
              [min_size : Nat, max_size : Nat, count : Nat, rejections : Nat, force_stop : BOOLEAN]
      BY <2>5
    <3>2. /\ [m EXCEPT !.force_stop = TRUE].count = n
          /\ [m EXCEPT !.force_stop = TRUE].min_size = many.min_size
          /\ [m EXCEPT !.force_stop = TRUE].max_size = many.max_size
      BY <2>5
    <3>. QED  BY <2>1, <2>3, <2>5, <3>1, <3>2 DEF Settled
  <2>8. many'.force_stop => n >= many'.min_size
    <3>1. CASE TooMany(m) /\ m.count >= m.min_size
      BY <2>5, <2>7, <3>1
    <3>2. CASE ~(TooMany(m) /\ m.count >= m.min_size)
      BY <2>1, <2>2, <2>3, <2>6, <3>2 DEF Settled
    <3>. QED  BY <3>1, <3>2
  <2>9. TypeOK'
    BY <1>1, <2>1, <2>7 DEF IInv, TypeOK, Sound
  <2>10. LimitsHold' /\ SpansBalanced'
    BY <1>1, <2>1 DEF LimitsHold, SpansBalanced, Sound, Nested, Ended
  <2>11. ListInv'
    BY <2>1, <2>2, <2>4, <2>7, <2>8 DEF IInv, ListInv, Ended
  <2>. QED  BY <2>9, <2>10, <2>11 DEF IInv
<1>. QED  BY <1>2, <1>3

LEMMA ElementStep == IInv /\ Element => IInv'
<1>. SUFFICES ASSUME IInv, Element  PROVE IInv'
  OBVIOUS
<1>1. pc = "element"
  BY DEF Element
<1>2. PICK o \in Elements(cd) : (o.stop /\ Unwind(o.cd)) \/ Keep(o) \/ Reject(o)
  BY DEF Element
<1>3. CASE o.stop /\ Unwind(o.cd)
  BY <1>1, <1>3, ElementFacts, UnwindStep
<1>4. CASE Keep(o)
  BY <1>1, <1>4, KeepStep
<1>5. CASE Reject(o)
  BY <1>1, <1>5, RejectStep
<1>. QED  BY <1>2, <1>3, <1>4, <1>5

(* Every step of the body continues it or ends the example.                *)
Body == \/ BodyDraw \/ BodyMark \/ BodyReject \/ BodyNote \/ BodyRaise \/ BodyReturn

LEMMA BodyStep ==
  ASSUME IInv, Body
  PROVE  IInv' /\ result' = result /\ wanted' = wanted /\ pc = "body" /\ pc' \in {"body", "finished"}
<1>1. pc = "body"
  BY DEF Body, BodyDraw, BodyMark, BodyReject, BodyNote, BodyRaise, BodyReturn, Now
<1>2. Sound(cd, late) /\ late \in Nat /\ (~cd.frozen => cd.depth = 0)
  BY <1>1, InvSound DEF IInv, SpansBalanced
<1>3. CASE BodyDraw
  <2>1. PICK o \in Draw(StartSpan(cd), ContinueC) :
           IF ~o.stop \/ Now("draw_caught") THEN Continue(StopSpan(o.cd, FALSE))
           ELSE End(StopSpan(o.cd, FALSE),
                    IF StopSpan(o.cd, FALSE).status = VALID THEN "Valid" ELSE "Invalid")
    BY <1>3 DEF BodyDraw
  <2>. DEFINE d == StopSpan(o.cd, FALSE)
              e == StartSpan(cd)
              n == IF cd.frozen THEN late + 1 ELSE late
  <2>2. Sound(e, n) /\ (~e.frozen => e.depth = 1)
    <3>1. Sound(e, n)
      BY <1>2, StartSound
    <3>2. e.depth = cd.depth + 1 /\ e.frozen = cd.frozen
      BY <1>2, StartSpanFacts DEF Sound
    <3>. QED  BY <1>2, <3>1, <3>2
  <2>3. o \in DrawInner(e, ContinueC, TRUE, {})
    BY DEF Draw
  <2>10. n \in Nat /\ late' = n
    BY <1>2, <1>3 DEF BodyDraw, LateOpened
  <2>. HIDE DEF e, n
  <2>4. Sound(o.cd, n) /\ (~o.cd.frozen => o.cd.depth = 1)
    BY <2>2, <2>3, <2>10, DrawSound DEF Constraints
  <2>5. /\ DataOK(d) /\ SameFrame(o.cd, d) /\ d.frozen = o.cd.frozen /\ d.status = o.cd.status
        /\ d.depth = IF o.cd.frozen THEN o.cd.depth ELSE o.cd.depth - 1
    BY <2>4, StopSpanFacts DEF Sound
  <2>. HIDE DEF d
  <2>6. WithinLimits(d)
    BY <2>4, <2>5 DEF SameFrame, WithinLimits, Sound
  <2>7. Nested(d, n) /\ (~d.frozen => d.depth = 0)
    BY <2>4, <2>5 DEF Sound, Nested
  <2>8. Sound(d, n)
    BY <2>5, <2>6, <2>7 DEF Sound
  <2>9. Continue(d) \/ End(d, "Valid") \/ End(d, "Invalid")
    BY <2>1 DEF d
  <2>. QED  BY <1>1, <2>7, <2>8, <2>9, <2>10, ContinueStep, EndStep
<1>4. CASE BodyMark
  <2>1. /\ Sound(Mark(cd, INVALID, None), late) /\ Mark(cd, INVALID, None).frozen
        /\ Sound(Mark(cd, INTERESTING, "origin"), late) /\ late' = late
    <3>1. Ends(cd, Mark(cd, INVALID, None)) /\ Ends(cd, Mark(cd, INTERESTING, "origin"))
      BY <1>2, MarkFacts DEF Sound
    <3>. QED  BY <1>2, <1>4, <3>1, MarkedSound DEF BodyMark
  <2>2. \/ End(Mark(cd, INVALID, None), "Invalid")
        \/ End(Mark(cd, INTERESTING, "origin"), "Invalid")
        \/ Continue(Mark(cd, INVALID, None))
    BY <1>4 DEF BodyMark
  <2>. QED  BY <1>1, <1>2, <2>1, <2>2, ContinueStep, EndStep
<1>5. CASE BodyReject
  BY <1>1, <1>2, <1>5, EndStep DEF BodyReject
<1>6. CASE BodyNote
  BY <1>1, <1>2, <1>6, ContinueStep, EndStep DEF BodyNote
<1>7. CASE BodyRaise
  BY <1>1, <1>2, <1>7, EndStep DEF BodyRaise
<1>8. CASE BodyReturn
  BY <1>1, <1>2, <1>8, EndStep DEF BodyReturn
<1>. QED  BY <1>3, <1>4, <1>5, <1>6, <1>7, <1>8 DEF Body

LEMMA ReplayStep == IInv /\ Replay => IInv'
<1>. SUFFICES ASSUME IInv, Replay  PROVE IInv'
  OBVIOUS
<1>. DEFINE choices == ChoicesOf(cd)
            prefix == [i \in DOMAIN choices |-> Replayed(choices[i])]
<1>1. /\ choices \in Seq(ChoiceValues) /\ prefix \in Seq(Entry) /\ Len(choices) \in Nat
      /\ \A i \in DOMAIN prefix : prefix[i].value \in ChoiceValues
  <2>1. cd.nodes \in Seq(Node)
    BY DEF IInv, TypeOK, DataOK, ConjectureData
  <2>2. \A i \in DOMAIN cd.nodes : cd.nodes[i].value \in ChoiceValues
    <3>1. \A node \in Node : node.value \in ChoiceValues
      BY DEF Node
    <3>2. \A i \in DOMAIN cd.nodes : cd.nodes[i] \in Node
      BY <2>1
    <3>. QED  BY <3>1, <3>2
  <2>3. choices \in Seq(ChoiceValues)
    BY <2>1, <2>2 DEF ChoicesOf
  <2>. HIDE DEF choices
  <2>4. \A v \in ChoiceValues : Replayed(v) \in Entry /\ Replayed(v).value = v
    BY DEF Replayed, Entry
  <2>. QED  BY <2>3, <2>4
<1>2. cd' = Build(prefix, Len(choices))
  BY DEF Replay, NewForChoices
<1>. HIDE DEF choices, prefix
<1>3. DataOK(cd') /\ WithinLimits(cd') /\ ~cd'.frozen /\ cd'.depth = 0
  BY <1>1, <1>2, BuildFacts
<1>4. /\ result' = <<>> /\ pc' = "arguments" /\ step' = 1 /\ outcome' = None
      /\ many' = NewMany(wanted.min_size, wanted.max_size)
      /\ earlier'.cd = cd /\ earlier'.result = result /\ UNCHANGED <<wanted, script>>
      /\ late' = 0
  BY DEF Replay
<1>5. /\ wanted.min_size \in Nat /\ wanted.max_size \in Nat /\ wanted \in Wanted
      /\ wanted.min_size <= wanted.max_size
  BY ExampleAssumption DEF IInv, TypeOK
<1>6. many' \in [min_size : Nat, max_size : Nat, count : Nat, rejections : Nat, force_stop : BOOLEAN]
  BY <1>4, <1>5 DEF NewMany
<1>7. TypeOK'
  BY <1>3, <1>4, <1>6 DEF IInv, TypeOK
<1>8. LimitsHold' /\ SpansBalanced'
  BY <1>3, <1>4 DEF LimitsHold, SpansBalanced, Ended
<1>9. ListInv'
  BY <1>4, <1>5 DEF NewMany, ListInv, Distinct, Ended
<1>. QED  BY <1>7, <1>8, <1>9 DEF IInv

LEMMA StutterStep == IInv /\ UNCHANGED vars => IInv'
BY DEF IInv, vars, TypeOK, LimitsHold, SpansBalanced, ListInv, Ended

LEMMA StepInv == IInv /\ [Next]_vars => IInv'
BY DrawArgumentStep, MoreStep, ElementStep, BodyStep, ReplayStep, StutterStep DEF Next, Body

-----------------------------------------------------------------------------
LEMMA InvariantHolds == Spec => []IInv
<1>. QED  BY InitInv, StepInv, PTL DEF Spec

(* An example keeps within its types, whatever is drawn, replayed or raised. *)
THEOREM TypeCorrect == Spec => []TypeOK
BY InvariantHolds, PTL DEF IInv

(* Neither limit of the data is passed, whatever prefix is replayed: the    *)
(* tests before and after a draw in data.rs suffice.                        *)
THEOREM WithinItsLimits == Spec => []LimitsHold
BY InvariantHolds, PTL DEF IInv

(* Until the data is frozen exactly the spans of the draws under way are    *)
(* open; freezing closes them all, none is closed again, and only the spans *)
(* opened on frozen data stay open.                                        *)
THEOREM SpansNest == Spec => []SpansBalanced
BY InvariantHolds, PTL DEF IInv

-----------------------------------------------------------------------------
(* The lists drawn implement Collection.                                   *)

LEMMA InitMaps == Init => C!Init
BY DEF Init, C!Init, Stage

LEMMA KeepMaps ==
  ASSUME IInv, pc = "element", NEW o \in Elements(cd), Keep(o), IInv'
  PROVE  C!Add
<1>1. /\ result' = Append(result, o.value) /\ pc' = "more" /\ UNCHANGED wanted /\ ~o.stop
      /\ ~Collides(o.value)
  BY DEF Keep
<1>2. o.value \in {v \in ChoiceValues : v = Fixed \/ Permits(v, ElementC)}
  BY <1>1, ElementFacts
<1>3. /\ wanted.unique => Distinct(result')
      /\ Len(result) < wanted.max_size
  <2>1. wanted.unique => Distinct(result')
    BY <1>1 DEF IInv, ListInv, Distinct
  <2>2. result \in Seq(ChoiceValues) /\ wanted.max_size \in Nat
    BY ExampleAssumption DEF IInv, TypeOK
  <2>. QED  BY <2>1, <2>2 DEF IInv, ListInv
<1>. QED  BY <1>1, <1>2, <1>3 DEF C!Add, Stage, Distinct

LEMMA StepMaps == IInv /\ IInv' /\ [Next]_vars => [C!Next]_<<result, Stage, wanted>>
<1>. SUFFICES ASSUME IInv, IInv', [Next]_vars
              PROVE  [C!Next]_<<result, Stage, wanted>>
  OBVIOUS
<1>1. CASE DrawArgument
  BY <1>1 DEF DrawArgument, Stage
<1>2. ASSUME NEW d, Unwind(d), pc \in {"more", "element"}
      PROVE  C!Abandon
  BY <1>2 DEF Unwind, C!Abandon, Stage
<1>3. CASE More
  <2>1. CASE pc' = "element"
    BY <1>3, <2>1 DEF More, Unwind, Stage
  <2>2. CASE pc' = "abandoned"
    BY <1>2, <1>3, <2>2 DEF More, C!Next
  <2>3. CASE pc' = "body"
    <3>1. UNCHANGED <<result, wanted>> /\ pc = "more"
      BY <1>3, <2>3 DEF More, Unwind
    <3>2. Len(result) \in wanted.min_size .. wanted.max_size
      BY <2>3, <3>1 DEF IInv, ListInv
    <3>. QED  BY <2>3, <3>1, <3>2 DEF C!Next, C!Complete, Stage
  <2>. QED  BY <1>3, <2>1, <2>2, <2>3 DEF More, Unwind
<1>4. CASE Element
  <2>1. pc = "element"
    BY <1>4 DEF Element
  <2>2. PICK o \in Elements(cd) : (o.stop /\ Unwind(o.cd)) \/ Keep(o) \/ Reject(o)
    BY <1>4 DEF Element
  <2>3. CASE Keep(o)
    BY <2>1, <2>3, KeepMaps DEF C!Next
  <2>4. CASE \E d : Unwind(d)
    BY <1>2, <2>1, <2>4 DEF C!Next
  <2>5. CASE Reject(o)
    BY <2>1, <2>4, <2>5 DEF Reject, Stage
  <2>. QED  BY <2>2, <2>3, <2>4, <2>5
<1>5. CASE Body
  BY <1>5, BodyStep DEF Stage
<1>6. CASE Replay
  BY <1>6 DEF Replay, Ended, C!Next, C!Again, Stage
<1>7. CASE UNCHANGED vars
  BY <1>7 DEF vars, Stage
<1>. QED  BY <1>1, <1>3, <1>4, <1>5, <1>6, <1>7 DEF Next, Body

(* Every list is drawn as lists() promises, with every answer of the        *)
(* provider and of the prefix: within its sizes, its items permitted,       *)
(* unique where that was asked for.                                         *)
THEOREM Refinement == Spec => ListsAsPromised
<1>. QED  BY InitMaps, StepMaps, InvariantHolds, PTL DEF Spec, ListsAsPromised, C!Spec

-----------------------------------------------------------------------------
(* The replay. What decides how an example goes on: the list, the place in  *)
(* the body and, of the data, the choices, the length, the status and       *)
(* whether it is frozen. blocked tells that a draw was stopped.             *)

Core(l, m, r, p, n, w, data, b) ==
  [wanted |-> l, many |-> m, result |-> r, pc |-> p, step |-> n, outcome |-> w, data |-> data, blocked |-> b]

Data(d) == [nodes |-> d.nodes, length |-> d.length, status |-> d.status, frozen |-> d.frozen]

Here(b)     == Core(wanted, many, result, pc, step, outcome, Data(cd), b)
HereNext(b) == Core(wanted', many', result', pc', step', outcome', Data(cd'), b)

Frozen(data) ==
  [nodes |-> data.nodes, length |-> data.length, status |-> data.status, frozen |-> TRUE]
Marked(data, s) ==
  [nodes |-> data.nodes, length |-> data.length, status |-> s, frozen |-> TRUE]
Longer(data, v, c, forced) ==
  [nodes  |-> Append(data.nodes, [value |-> v, constraints |-> c, was_forced |-> forced # {}]),
   length |-> data.length + SizeOf(v), status |-> data.status, frozen |-> data.frozen]

(* What the body does at its step.                                         *)
What(s, body) == IF s.step <= Len(body) THEN body[s.step] ELSE "return"

(* Whether a state draws next, and with which constraints and forced value. *)
Asking(s, body) ==
  \/ s.pc = "more" /\ s.many.min_size # s.many.max_size
  \/ s.pc = "element" /\ ~s.wanted.just
  \/ s.pc = "body" /\ What(s, body) \in {"draw", "draw_caught"}

ConstraintsOf(s) == IF s.pc = "element" THEN ElementC ELSE ContinueC
ForcedOf(s)      == IF s.pc = "more" THEN ForcedMore(s.many) ELSE {}

(* The answer of a draw: a choice is recorded, or the draw is refused.      *)
Answer(o) == [stop |-> o.stop, value |-> o.value, data |-> Data(o.cd)]

Recorded(data, a, v, c, forced) ==
  /\ v \in ChoiceValues /\ Permits(v, c) /\ (forced # {} => v \in forced)
  /\ data.length < BUFFER_SIZE
  /\ LET longer == Longer(data, v, c, forced)
     IN  IF longer.length > BUFFER_SIZE
         THEN a.stop = TRUE /\ a.data = Marked(longer, OVERRUN)
         ELSE a.stop = FALSE /\ a.value = v /\ a.data = longer

Refused(data, a) == a.stop = TRUE /\ a.data = Marked(data, OVERRUN)

Asked(s, a) == \/ Refused(s.data, a)
               \/ /\ s.blocked = FALSE
                  /\ \E v : Recorded(s.data, a, v, ConstraintsOf(s), ForcedOf(s))

(* Where nothing is drawn.                                                 *)
Silent(s, a) ==
  /\ a.stop = FALSE /\ a.data = s.data
  /\ s.pc = "more" => a.value = IF s.many.count < s.many.min_size THEN True ELSE False
  /\ s.pc = "element" => a.value = Fixed

(* The state that follows, given the answer.                               *)
Repeats(s, v) == s.wanted.unique /\ \E i \in DOMAIN s.result : s.result[i] = v

Abandons(s, data, b) ==
  Core(s.wanted, s.many, s.result, "abandoned", s.step, "Invalid", Frozen(data), b)
Finishes(s, data, what, b) ==
  Core(s.wanted, s.many, s.result, "finished", s.step, what, Frozen(data), b)
Continues(s, data, b) ==
  Core(s.wanted, s.many, s.result, "body", s.step + 1, s.outcome, data, b)

FollowsInList(s, a, t, b) ==
  \/ /\ s.pc = "arguments"
     /\ t = Core(s.wanted, s.many, s.result, "more", s.step, s.outcome, a.data, b)
  \/ /\ s.pc \in {"more", "element"} /\ a.stop = TRUE
     /\ t = Abandons(s, a.data, b)
  \/ /\ s.pc = "more" /\ a.stop = FALSE /\ a.value = True
     /\ t = Core(s.wanted, Counted(s.many), s.result, "element", s.step, s.outcome, a.data, b)
  \/ /\ s.pc = "more" /\ a.stop = FALSE /\ a.value # True
     /\ t = Core(s.wanted, s.many, s.result, "body", s.step, s.outcome, a.data, b)
  \/ /\ s.pc = "element" /\ a.stop = FALSE /\ ~Repeats(s, a.value)
     /\ t = Core(s.wanted, s.many, Append(s.result, a.value), "more", s.step, s.outcome, a.data, b)
  \/ /\ s.pc = "element" /\ a.stop = FALSE /\ Repeats(s, a.value) /\ Hopeless(Rejected(s.many))
     /\ t = Abandons(s, Marked(a.data, INVALID), b)
  \/ /\ s.pc = "element" /\ a.stop = FALSE /\ Repeats(s, a.value) /\ ~Hopeless(Rejected(s.many))
     /\ t = Core(s.wanted, Settled(Rejected(s.many)), s.result, "more", s.step, s.outcome, a.data, b)

FollowsInBody(s, a, t, b, what) ==
  \/ /\ what = "draw_caught" \/ (what = "draw" /\ a.stop = FALSE)
     /\ t = Continues(s, a.data, b)
  \/ /\ what = "draw" /\ a.stop = TRUE
     /\ t = Finishes(s, a.data, IF a.data.status = VALID THEN "Valid" ELSE "Invalid", b)
  \/ what = "mark_invalid"     /\ t = Finishes(s, Marked(a.data, INVALID), "Invalid", b)
  \/ what = "mark_interesting" /\ t = Finishes(s, Marked(a.data, INTERESTING), "Invalid", b)
  \/ what = "invalid_caught"   /\ t = Continues(s, Marked(a.data, INVALID), b)
  \/ what = "reject"           /\ t = Finishes(s, a.data, "Invalid", b)
  \/ what = "note"             /\ t = IF a.data.frozen THEN Finishes(s, a.data, "Interesting", b)
                                      ELSE Continues(s, a.data, b)
  \/ what = "raise"            /\ t = Finishes(s, a.data, "Interesting", b)
  \/ what = "return"           /\ t = Finishes(s, a.data, "Valid", b)

Follows(s, a, t, body) ==
  LET b == IF a.stop THEN TRUE ELSE s.blocked
  IN  \/ FollowsInList(s, a, t, b)
      \/ s.pc = "body" /\ FollowsInBody(s, a, t, b, What(s, body))

Moves(s, t, body) ==
  \E a : /\ IF Asking(s, body) THEN Asked(s, a) ELSE Silent(s, a)
         /\ Follows(s, a, t, body)

(* The same state and the same answer are followed by the same state.       *)
SameAnswer(s, a, e) ==
  /\ a.stop = e.stop /\ a.data = e.data
  /\ a.stop = FALSE /\ s.pc \in {"more", "element"} => a.value = e.value

LEMMA OneFollows ==
  ASSUME NEW s, NEW body, NEW a, NEW e, NEW t, NEW u,
         Follows(s, a, t, body), Follows(s, e, u, body), SameAnswer(s, a, e)
  PROVE  t = u
<1>. DEFINE b == IF a.stop THEN TRUE ELSE s.blocked
            what == What(s, body)
<1>1. /\ FollowsInList(s, a, t, b) \/ (s.pc = "body" /\ FollowsInBody(s, a, t, b, what))
      /\ FollowsInList(s, e, u, b) \/ (s.pc = "body" /\ FollowsInBody(s, e, u, b, what))
      /\ a.stop = e.stop /\ a.data = e.data
      /\ (a.stop = FALSE /\ s.pc \in {"more", "element"} => a.value = e.value)
  BY DEF Follows, SameAnswer
<1>. HIDE DEF b, what
<1>2. CASE s.pc = "arguments"
  BY <1>1, <1>2 DEF FollowsInList
<1>3. CASE s.pc = "more"
  BY <1>1, <1>3 DEF FollowsInList
<1>4. CASE s.pc = "element"
  BY <1>1, <1>4 DEF FollowsInList
<1>5. CASE s.pc = "body"
  <2>1. FollowsInBody(s, a, t, b, what) /\ FollowsInBody(s, e, u, b, what)
    BY <1>1, <1>5 DEF FollowsInList
  <2>. QED  BY <1>1, <2>1 DEF FollowsInBody
<1>. QED  BY <1>1, <1>2, <1>3, <1>4, <1>5 DEF FollowsInList

(* What spans, freezing and marks leave alone.                             *)
SameView(d, e) ==
  /\ e.nodes = d.nodes /\ e.length = d.length /\ e.max_length = d.max_length
  /\ e.max_choices = d.max_choices /\ e.prefix = d.prefix /\ e.index = d.index
  /\ e.misaligned = d.misaligned

LEMMA ViewTransitive ==
  ASSUME NEW d, NEW e, NEW f, SameView(d, e), SameView(e, f)
  PROVE  SameView(d, f)
BY DEF SameView

LEMMA SpanViews ==
  ASSUME NEW d, DataOK(d)
  PROVE  /\ SameView(d, StartSpan(d)) /\ Data(StartSpan(d)) = Data(d)
         /\ SameView(d, StopSpan(d, FALSE)) /\ Data(StopSpan(d, FALSE)) = Data(d)
<1>1. d \in ConjectureData
  BY DEF DataOK
<1>. DEFINE m == IF d.depth + 1 > d.max_depth THEN d.depth + 1 ELSE d.max_depth
            e == [d EXCEPT !.depth = d.depth + 1, !.max_depth = m]
<1>2. StartSpan(d) = e
  BY DEF StartSpan
<1>. HIDE DEF m
<1>3. SameView(d, e)
  BY <1>1 DEF SameView, ConjectureData
<1>4. Data(e) = Data(d)
  <2>1. e.nodes = d.nodes /\ e.length = d.length /\ e.status = d.status
    BY <1>1 DEF ConjectureData
  <2>2. e.frozen = d.frozen
    BY <1>1 DEF ConjectureData
  <2>. HIDE DEF e
  <2>. QED  BY <2>1, <2>2 DEF Data
<1>. HIDE DEF e
<1>5. SameView(d, StopSpan(d, FALSE)) /\ Data(StopSpan(d, FALSE)) = Data(d)
  <2>1. CASE d.frozen
    BY <2>1 DEF StopSpan, SameView
  <2>2. CASE ~d.frozen
    <3>. DEFINE f == [d EXCEPT !.depth = d.depth - 1]
    <3>1. StopSpan(d, FALSE) = f
      BY <1>1, <2>2 DEF StopSpan, ConjectureData
    <3>2. SameView(d, f)
      BY <1>1 DEF SameView, ConjectureData
    <3>3. f.nodes = d.nodes /\ f.length = d.length /\ f.status = d.status
      BY <1>1 DEF ConjectureData
    <3>4. f.frozen = d.frozen
      BY <1>1 DEF ConjectureData
    <3>. HIDE DEF f
    <3>5. Data(f) = Data(d)
      BY <3>3, <3>4 DEF Data
    <3>. QED  BY <3>1, <3>2, <3>5
  <2>. QED  BY <2>1, <2>2
<1>. QED  BY <1>2, <1>3, <1>4, <1>5

LEMMA FreezeViews ==
  ASSUME NEW d, DataOK(d)
  PROVE  SameView(d, Freeze(d)) /\ Data(Freeze(d)) = Frozen(Data(d))
<1>1. d \in ConjectureData
  BY DEF DataOK
<1>2. CASE d.frozen
  <2>1. d.frozen = TRUE
    BY <1>1, <1>2 DEF ConjectureData
  <2>2. Freeze(d) = d
    BY <1>2 DEF Freeze
  <2>. QED  BY <2>1, <2>2 DEF SameView, Data, Frozen
<1>3. CASE ~d.frozen
  <2>. DEFINE k == IF d.depth >= 0 THEN -1 ELSE d.depth
              f == [d EXCEPT !.depth = k, !.frozen = TRUE]
  <2>1. Freeze(d) = f
    BY <1>3 DEF Freeze
  <2>. HIDE DEF k
  <2>2. SameView(d, f)
    BY <1>1 DEF SameView, ConjectureData
  <2>3. f.nodes = d.nodes /\ f.length = d.length /\ f.status = d.status
    BY <1>1 DEF ConjectureData
  <2>4. f.frozen = TRUE
    BY <1>1 DEF ConjectureData
  <2>. HIDE DEF f
  <2>5. Data(f) = Frozen(Data(d))
    BY <2>3, <2>4 DEF Data, Frozen
  <2>. QED  BY <2>1, <2>2, <2>5
<1>. QED  BY <1>2, <1>3

LEMMA MarkViews ==
  ASSUME NEW d, DataOK(d), NEW s \in {OVERRUN, INVALID, INTERESTING},
         NEW origin \in {None, "origin"}
  PROVE  /\ DataOK(Mark(d, s, origin)) /\ SameView(d, Mark(d, s, origin))
         /\ Data(Mark(d, s, origin)) = Marked(Data(d), s)
<1>. DEFINE e == [d EXCEPT !.interesting_origin = origin, !.status = s]
<1>1. d \in ConjectureData /\ s \in OVERRUN .. INTERESTING
  BY DEF DataOK, OVERRUN, INVALID, INTERESTING
<1>2. e \in ConjectureData
  BY <1>1 DEF ConjectureData
<1>3. SameView(d, e) /\ e.status = s
  BY <1>1 DEF SameView, ConjectureData
<1>4. Mark(d, s, origin) = Freeze(e)
  BY DEF Mark
<1>. HIDE DEF e
<1>5. DataOK(e)
  BY <1>2, <1>3 DEF DataOK, SameView
<1>6. SameView(e, Freeze(e)) /\ Data(Freeze(e)) = Frozen(Data(e)) /\ DataOK(Freeze(e))
  BY <1>5, FreezeViews, FreezeFacts
<1>7. Frozen(Data(e)) = Marked(Data(d), s)
  BY <1>3 DEF Frozen, Marked, Data, SameView
<1>. QED  BY <1>3, <1>4, <1>6, <1>7, ViewTransitive

LEMMA StoppedViews ==
  ASSUME NEW d, DataOK(d)
  PROVE  /\ Stopped(d, OVERRUN).stop = TRUE /\ DataOK(Stopped(d, OVERRUN).cd)
         /\ SameView(d, Stopped(d, OVERRUN).cd)
         /\ Data(Stopped(d, OVERRUN).cd) = Marked(Data(d), OVERRUN)
<1>1. Stopped(d, OVERRUN) = [cd |-> Mark(d, OVERRUN, None), stop |-> TRUE, value |-> None]
  BY DEF Stopped
<1>. QED  BY <1>1, MarkViews

(* Why a draw of the body was refused: no choice fits any more, or the      *)
(* prefix gives none. It stays so.                                          *)
Stuck(d) ==
  \/ Full(d)
  \/ /\ d.index < Len(d.prefix)
     /\ LET e == d.prefix[d.index + 1]
        IN  IF e.template
            THEN Simplest(ContinueC) = {} \/ (e.count # None /\ e.count - 1 < 0)
            ELSE Simplest(ContinueC) = {} /\ ~Permits(e.value, ContinueC)

LEMMA StuckViews ==
  ASSUME NEW d, NEW e, SameView(d, e), Stuck(d)
  PROVE  Stuck(e)
BY DEF SameView, Stuck, Full

(* A choice is popped from the prefix without a change to what is recorded, *)
(* or the draw is refused.                                                  *)
Pops(d, c, forced, r) ==
  \/ /\ r.stop = TRUE /\ Data(r.cd) = Marked(Data(d), OVERRUN)
     /\ c = ContinueC /\ forced = {} => Stuck(r.cd)
  \/ r.stop = FALSE /\ Data(r.cd) = Data(d)

LEMMA FromValuePops ==
  ASSUME NEW d, DataOK(d), d.index < Len(d.prefix), ~d.prefix[d.index + 1].template,
         NEW c \in Constraints, NEW forced, NEW r \in FromValue(d, c)
  PROVE  /\ Pops(d, c, forced, r)
         /\ Stuck(d) /\ ~Full(d) /\ c = ContinueC => r.stop = TRUE
<1>. DEFINE raw == d.prefix[d.index + 1].value
            e   == [d EXCEPT !.misaligned = TRUE]
            Used(p) == IF p.stop THEN p ELSE Got([p.cd EXCEPT !.index = @ + 1], p.value)
<1>0. \A x \in ConjectureData : Data([x EXCEPT !.index = @ + 1]) = Data(x)
  <2>. SUFFICES ASSUME NEW x \in ConjectureData
                PROVE  Data([x EXCEPT !.index = @ + 1]) = Data(x)
    OBVIOUS
  <2>. DEFINE y == [x EXCEPT !.index = @ + 1]
  <2>1. y.nodes = x.nodes /\ y.length = x.length /\ y.status = x.status
    BY DEF ConjectureData
  <2>2. y.frozen = x.frozen
    BY DEF ConjectureData
  <2>. HIDE DEF y
  <2>3. Data(y) = Data(x)
    BY <2>1, <2>2 DEF Data
  <2>. QED  BY <2>3 DEF y
<1>1. CASE Permits(raw, c)
  <2>1. r = Used(Got(d, raw))
    BY <1>1 DEF FromValue
  <2>2. r = Got([d EXCEPT !.index = @ + 1], raw)
    BY <2>1 DEF Got
  <2>3. r.stop = FALSE /\ r.cd = [d EXCEPT !.index = @ + 1]
    BY <2>2 DEF Got
  <2>4. ~(Stuck(d) /\ ~Full(d) /\ c = ContinueC)
    BY <1>1 DEF Stuck
  <2>. QED  BY <1>0, <2>3, <2>4 DEF Pops, DataOK
<1>2. CASE ~Permits(raw, c)
  <2>1. PICK p \in SimplestOr(e, c) : r = Used(p)
    BY <1>2 DEF FromValue
  <2>2. DataOK(e)
    BY PassesFields DEF Passes
  <2>3. /\ Data(e) = Data(d) /\ e.max_choices = d.max_choices /\ e.max_length = d.max_length
        /\ e.index = d.index /\ e.prefix = d.prefix
    <3>1. d \in ConjectureData
      BY DEF DataOK
    <3>2. /\ e.nodes = d.nodes /\ e.length = d.length /\ e.status = d.status
          /\ e.max_choices = d.max_choices /\ e.max_length = d.max_length
          /\ e.index = d.index /\ e.prefix = d.prefix
      BY <3>1 DEF ConjectureData
    <3>3. e.frozen = d.frozen
      BY <3>1 DEF ConjectureData
    <3>. HIDE DEF e
    <3>. QED  BY <3>2, <3>3 DEF Data
  <2>. HIDE DEF e
  <2>4. CASE Simplest(c) = {}
    <3>1. p = Stopped(e, OVERRUN)
      BY <2>1, <2>4 DEF SimplestOr
    <3>2. p.stop = TRUE /\ SameView(e, p.cd) /\ Data(p.cd) = Marked(Data(e), OVERRUN)
      BY <2>2, <3>1, StoppedViews
    <3>3. r = p
      BY <2>1, <3>2
    <3>4. c = ContinueC => Stuck(e)
      BY <1>2, <2>3, <2>4 DEF Stuck
    <3>5. c = ContinueC => Stuck(r.cd)
      BY <3>2, <3>3, <3>4, StuckViews
    <3>. QED  BY <2>3, <3>2, <3>3, <3>5 DEF Pops
  <2>5. CASE Simplest(c) # {}
    <3>1. PICK v \in Simplest(c) : p = Got(e, v)
      BY <2>1, <2>5 DEF SimplestOr
    <3>2. r = Got([e EXCEPT !.index = @ + 1], v)
      BY <2>1, <3>1 DEF Got
    <3>3. r.stop = FALSE /\ r.cd = [e EXCEPT !.index = @ + 1]
      BY <3>2 DEF Got
    <3>4. Data(r.cd) = Data(d)
      BY <1>0, <2>2, <2>3, <3>3 DEF DataOK
    <3>5. ~(Stuck(d) /\ ~Full(d) /\ c = ContinueC)
      BY <2>5 DEF Stuck
    <3>. QED  BY <3>3, <3>4, <3>5 DEF Pops
  <2>. QED  BY <2>4, <2>5
<1>. QED  BY <1>1, <1>2

LEMMA FromTemplatePops ==
  ASSUME NEW d, DataOK(d), d.index < Len(d.prefix), d.prefix[d.index + 1].template,
         NEW c \in Constraints, NEW forced \in SUBSET ChoiceValues,
         NEW r \in FromTemplate(d, c, forced)
  PROVE  /\ Pops(d, c, forced, r)
         /\ Stuck(d) /\ ~Full(d) /\ c = ContinueC /\ forced = {} => r.stop = TRUE
<1>. DEFINE i == d.index + 1
            entry == d.prefix[i]
            spent == IF entry.count = None THEN d
                     ELSE [d EXCEPT !.prefix[i].count = @ - 1]
            Spend(p) == IF p.stop THEN p
                        ELSE IF entry.count # None /\ entry.count - 1 < 0
                             THEN Stopped(spent, OVERRUN)
                             ELSE Got(spent, p.value)
<1>1. PICK p \in (IF forced # {} THEN {Got(d, v) : v \in forced} ELSE SimplestOr(d, c)) :
        r = Spend(p)
  BY DEF FromTemplate
<1>2. i \in DOMAIN d.prefix /\ d.prefix \in Seq(Entry) /\ d \in ConjectureData
  BY DEF DataOK, ConjectureData
<1>3. Passes(d, spent)
  <2>1. CASE entry.count = None
    BY <2>1, PassesFields
  <2>2. CASE entry.count # None
    BY <1>2, <2>2, SpentFacts
  <2>. QED  BY <2>1, <2>2
<1>4. Data(spent) = Data(d) /\ DataOK(spent)
  <2>. HIDE DEF spent
  <2>. QED  BY <1>3 DEF Passes, SameFrame, Data
<1>5. CASE p.stop = TRUE
  <2>1. forced = {} /\ Simplest(c) = {} /\ p = Stopped(d, OVERRUN)
    BY <1>1, <1>5 DEF Got, SimplestOr
  <2>2. r = p /\ SameView(d, p.cd) /\ Data(p.cd) = Marked(Data(d), OVERRUN)
    BY <1>1, <1>5, <2>1, StoppedViews
  <2>3. c = ContinueC => Stuck(d)
    BY <2>1 DEF Stuck
  <2>4. c = ContinueC => Stuck(r.cd)
    BY <2>2, <2>3, StuckViews
  <2>. QED  BY <1>5, <2>2, <2>4 DEF Pops
<1>6. CASE p.stop = FALSE
  <2>1. forced = {} => Simplest(c) # {}
    BY <1>1, <1>6 DEF SimplestOr, Stopped
  <2>2. CASE entry.count # None /\ entry.count - 1 < 0
    <3>1. r = Stopped(spent, OVERRUN)
      BY <1>1, <1>6, <2>2, SMTT(30)
    <3>2. r.stop = TRUE /\ SameView(spent, r.cd) /\ Data(r.cd) = Marked(Data(d), OVERRUN)
      BY <1>4, <3>1, StoppedViews
    <3>3. Stuck(spent)
      <4>1. /\ spent.index = d.index /\ Len(spent.prefix) = Len(d.prefix)
            /\ spent.prefix[i].template = entry.template
            /\ spent.prefix[i].count = entry.count - 1
        <5>. DEFINE x == [entry EXCEPT !.count = entry.count - 1]
        <5>1. entry \in Entry
          BY <1>2
        <5>2. x.count = entry.count - 1
          BY <5>1 DEF Entry
        <5>3. x.template = entry.template
          BY <5>1 DEF Entry
        <5>4. x \in Entry
          <6>1. entry.count - 1 \in Int
            BY <2>2, <5>1 DEF Entry
          <6>. QED  BY <5>1, <6>1 DEF Entry
        <5>5. spent = [d EXCEPT !.prefix = [d.prefix EXCEPT ![i] = x]]
          BY <1>2, <2>2 DEF ConjectureData, Entry
        <5>. HIDE DEF x
        <5>6. spent.prefix = [d.prefix EXCEPT ![i] = x] /\ spent.index = d.index
          BY <1>2, <5>5 DEF ConjectureData
        <5>. HIDE DEF spent
        <5>7. Len(spent.prefix) = Len(d.prefix) /\ spent.prefix[i] = x
          BY <1>2, <5>4, <5>6, ExceptSeq
        <5>. QED  BY <5>2, <5>3, <5>6, <5>7
      <4>2. entry.count - 1 \in Int /\ entry.count - 1 # None
        <5>1. entry \in Entry
          BY <1>2
        <5>2. entry.count - 1 \in Int
          BY <2>2, <5>1 DEF Entry
        <5>. QED  BY <5>2, ExampleAssumption
      <4>3. (entry.count - 1) - 1 < 0
        BY <2>2, <4>2
      <4>. HIDE DEF spent
      <4>. QED  BY <4>1, <4>2, <4>3 DEF Stuck
    <3>4. Stuck(r.cd)
      BY <3>2, <3>3, StuckViews
    <3>. QED  BY <3>2, <3>4 DEF Pops
  <2>3. CASE ~(entry.count # None /\ entry.count - 1 < 0)
    <3>1. r = Got(spent, p.value)
      BY <1>1, <1>6, <2>3
    <3>2. r.stop = FALSE /\ r.cd = spent
      BY <3>1 DEF Got
    <3>3. ~(Stuck(d) /\ ~Full(d) /\ c = ContinueC /\ forced = {})
      BY <2>1, <2>3 DEF Stuck
    <3>. QED  BY <1>4, <3>2, <3>3 DEF Pops
  <2>. QED  BY <2>2, <2>3
<1>7. p.stop = TRUE \/ p.stop = FALSE
  BY <1>1 DEF Got, SimplestOr, Stopped
<1>. QED  BY <1>5, <1>6, <1>7

LEMMA PopPops ==
  ASSUME NEW d, DataOK(d), d.index < Len(d.prefix),
         NEW c \in Constraints, NEW forced \in SUBSET ChoiceValues,
         NEW r \in PopChoice(d, c, forced)
  PROVE  /\ Pops(d, c, forced, r)
         /\ Stuck(d) /\ ~Full(d) /\ c = ContinueC /\ forced = {} => r.stop = TRUE
<1>1. CASE d.prefix[d.index + 1].template
  BY <1>1, FromTemplatePops DEF PopChoice
<1>2. CASE ~d.prefix[d.index + 1].template
  BY <1>2, FromValuePops DEF PopChoice
<1>. QED  BY <1>1, <1>2

LEMMA RecordViews ==
  ASSUME NEW d, DataOK(d), NEW v, NEW c, NEW forced
  PROVE  LET e == RecordNode(d, v, c, forced)
         IN  /\ Data(e) = Longer(Data(d), v, c, forced)
             /\ e.max_length = d.max_length /\ e.max_choices = d.max_choices
             /\ e.prefix = d.prefix /\ e.index = d.index /\ e.misaligned = d.misaligned
<1>. DEFINE nodes == Append(d.nodes, [value |-> v, constraints |-> c, was_forced |-> forced # {}])
            n == d.length + SizeOf(v)
            e == [d EXCEPT !.length = n, !.nodes = nodes]
<1>1. d \in ConjectureData
  BY DEF DataOK
<1>2. RecordNode(d, v, c, forced) = e
  BY DEF RecordNode
<1>3. Longer(Data(d), v, c, forced) =
        [nodes |-> nodes, length |-> n, status |-> d.status, frozen |-> d.frozen]
  BY DEF Longer, Data
<1>. HIDE DEF nodes, n
<1>4. /\ e.nodes = nodes /\ e.length = n /\ e.status = d.status
      /\ e.max_length = d.max_length /\ e.max_choices = d.max_choices
      /\ e.prefix = d.prefix /\ e.index = d.index
  BY <1>1 DEF ConjectureData
<1>5. e.frozen = d.frozen
  BY <1>1 DEF ConjectureData
<1>6. e.misaligned = d.misaligned
  BY <1>1 DEF ConjectureData
<1>. HIDE DEF e
<1>7. Data(e) = Longer(Data(d), v, c, forced)
  BY <1>3, <1>4, <1>5 DEF Data
<1>. QED  BY <1>2, <1>4, <1>6, <1>7

(* Observing a value that was settled on records it.                       *)
Observes(d, o, v, c, forced) ==
  /\ Recorded(Data(d), Answer(o), v, c, forced)
  /\ o.cd.max_length = BUFFER_SIZE /\ o.cd.max_choices = d.max_choices
  /\ o.cd.prefix = d.prefix /\ o.cd.index = d.index /\ o.cd.misaligned = d.misaligned
  /\ o.stop = TRUE => Stuck(o.cd)

LEMMA ObserveViews ==
  ASSUME NEW d, DataOK(d), d.max_length = BUFFER_SIZE, ~Full(d),
         NEW c \in Constraints, NEW forced,
         NEW v \in ChoiceValues, Permits(v, c), forced # {} => v \in forced,
         NEW q, q.stop = FALSE, q.cd = d, q.value = v,
         NEW o, o = Observe(q, c, forced)
  PROVE  Observes(d, o, v, c, forced)
<1>. DEFINE e == RecordNode(d, v, c, forced)
            longer == Longer(Data(d), v, c, forced)
<1>1. /\ Data(e) = longer /\ e.max_length = BUFFER_SIZE /\ e.max_choices = d.max_choices
      /\ e.prefix = d.prefix /\ e.index = d.index /\ e.misaligned = d.misaligned
  BY RecordViews
<1>2. DataOK(e)
  BY RecordFacts
<1>3. Data(d).length < BUFFER_SIZE
  <2>1. d.length \in Nat /\ d.max_length \in Nat
    BY DEF DataOK, ConjectureData
  <2>. QED  BY <2>1 DEF Full, Data
<1>4. longer.length = e.length /\ e.length \in Nat /\ BUFFER_SIZE \in Nat
  <2>. HIDE DEF e, longer
  <2>1. Data(e).length = e.length
    BY DEF Data
  <2>. QED  BY <1>1, <1>2, <2>1, ExampleAssumption DEF DataOK, ConjectureData
<1>5. o = IF e.length > e.max_length THEN Stopped(e, OVERRUN) ELSE Got(e, v)
  BY DEF Observe
<1>. HIDE DEF e
<1>6. CASE e.length > BUFFER_SIZE
  <2>1. o = Stopped(e, OVERRUN)
    BY <1>1, <1>5, <1>6
  <2>2. o.stop = TRUE /\ SameView(e, o.cd) /\ Data(o.cd) = Marked(Data(e), OVERRUN)
    BY <1>2, <2>1, StoppedViews
  <2>3. Answer(o).stop = TRUE /\ Answer(o).data = Marked(longer, OVERRUN)
    BY <1>1, <2>2 DEF Answer
  <2>4. longer.length > BUFFER_SIZE
    BY <1>4, <1>6
  <2>5. Recorded(Data(d), Answer(o), v, c, forced)
    <3>. HIDE DEF longer
    <3>1. IF longer.length > BUFFER_SIZE
          THEN Answer(o).stop = TRUE /\ Answer(o).data = Marked(longer, OVERRUN)
          ELSE Answer(o).stop = FALSE /\ Answer(o).value = v /\ Answer(o).data = longer
      BY <2>3, <2>4
    <3>. QED  BY <1>3, <3>1 DEF Recorded, longer
  <2>6. Full(e)
    BY <1>1, <1>4, <1>6 DEF Full
  <2>7. Stuck(o.cd)
    BY <2>2, <2>6, StuckViews DEF Stuck
  <2>. QED  BY <1>1, <2>2, <2>5, <2>7 DEF SameView, Observes
<1>7. CASE ~(e.length > BUFFER_SIZE)
  <2>1. o = Got(e, v)
    BY <1>1, <1>5, <1>7
  <2>2. o.stop = FALSE /\ o.cd = e /\ o.value = v
    BY <2>1 DEF Got
  <2>3. Answer(o).stop = FALSE /\ Answer(o).data = longer /\ Answer(o).value = v
    BY <1>1, <2>2 DEF Answer
  <2>4. ~(longer.length > BUFFER_SIZE)
    BY <1>4, <1>7
  <2>5. Recorded(Data(d), Answer(o), v, c, forced)
    <3>. HIDE DEF longer
    <3>1. IF longer.length > BUFFER_SIZE
          THEN Answer(o).stop = TRUE /\ Answer(o).data = Marked(longer, OVERRUN)
          ELSE Answer(o).stop = FALSE /\ Answer(o).value = v /\ Answer(o).data = longer
      BY <2>3, <2>4
    <3>. QED  BY <1>3, <3>1 DEF Recorded, longer
  <2>. QED  BY <1>1, <2>2, <2>5 DEF Observes
<1>. QED  BY <1>6, <1>7

(* Every draw is refused, or records a choice. One that is stopped leaves   *)
(* the data stuck, and the draws of a stuck data are refused.               *)
Traced(d, c, forced, o) ==
  /\ \/ Refused(Data(d), Answer(o))
     \/ /\ \E v : Recorded(Data(d), Answer(o), v, c, forced)
        /\ c = ContinueC /\ forced = {} => ~Stuck(d)
  /\ o.cd.max_length = BUFFER_SIZE
  /\ c = ContinueC /\ forced = {} /\ o.stop = TRUE => Stuck(o.cd)

LEMMA DrawTraces ==
  ASSUME NEW d, DataOK(d), d.max_length = BUFFER_SIZE,
         NEW c \in Constraints, NEW forced \in SUBSET ChoiceValues,
         \A v \in forced : Permits(v, c),
         NEW o \in DrawInner(d, c, TRUE, forced)
  PROVE  Traced(d, c, forced, o)
<1>. SUFFICES /\ \/ Refused(Data(d), Answer(o))
                 \/ /\ \E v : Recorded(Data(d), Answer(o), v, c, forced)
                    /\ c = ContinueC /\ forced = {} => ~Stuck(d)
              /\ o.cd.max_length = BUFFER_SIZE
              /\ c = ContinueC /\ forced = {} /\ o.stop = TRUE => Stuck(o.cd)
  BY DEF Traced
<1>1. CASE Full(d)
  <2>1. o = Stopped(d, OVERRUN)
    BY <1>1 DEF DrawInner
  <2>2. o.stop = TRUE /\ SameView(d, o.cd) /\ Data(o.cd) = Marked(Data(d), OVERRUN)
    BY <2>1, StoppedViews
  <2>3. Refused(Data(d), Answer(o))
    BY <2>2 DEF Refused, Answer
  <2>4. Stuck(o.cd)
    BY <1>1, <2>2, StuckViews DEF Stuck
  <2>. QED  BY <2>2, <2>3, <2>4 DEF SameView
<1>2. CASE ~Full(d)
  <2>. DEFINE in_prefix == TRUE /\ d.index < Len(d.prefix)
              raw == IF in_prefix THEN PopChoice(d, c, forced)
                     ELSE IF forced = {} THEN {Got(d, v) : v \in Samples(c)}
                     ELSE {Got(d, v) : v \in forced}
              settled == UNION {Override(r, forced) : r \in raw}
  <2>1. DrawInner(d, c, TRUE, forced) = {Observe(q, c, forced) : q \in settled}
    BY <1>2 DEF DrawInner
  <2>2. PICK r \in raw : \E q \in Override(r, forced) : o = Observe(q, c, forced)
    BY <2>1
  <2>3. PICK q \in Override(r, forced) : o = Observe(q, c, forced)
    BY <2>2
  <2>4. /\ Fits(d, c, forced, r) /\ Pops(d, c, forced, r)
        /\ Stuck(d) /\ c = ContinueC /\ forced = {} => r.stop = TRUE
    <3>1. CASE in_prefix
      BY <1>2, <3>1, PopFacts, PopPops
    <3>2. CASE ~in_prefix /\ forced = {}
      <4>1. PICK v \in Samples(c) : r = Got(d, v)
        BY <3>2
      <4>2. v \in ChoiceValues /\ Permits(v, c)
        BY ExampleAssumption DEF Constraints
      <4>3. r.stop = FALSE /\ r.cd = d /\ r.value = v
        BY <4>1 DEF Got
      <4>4. Fits(d, c, forced, r) /\ Pops(d, c, forced, r)
        BY <4>2, <4>3, PassesFields DEF Fits, Pops
      <4>5. ~Stuck(d)
        BY <1>2, <3>2 DEF Stuck
      <4>. QED  BY <4>4, <4>5
    <3>3. CASE ~in_prefix /\ forced # {}
      <4>1. PICK v \in forced : r = Got(d, v)
        BY <3>3
      <4>2. r.stop = FALSE /\ r.cd = d /\ r.value = v
        BY <4>1 DEF Got
      <4>. QED  BY <3>3, <4>2, PassesFields DEF Fits, Pops
    <3>. QED  BY <3>1, <3>2, <3>3
  <2>. HIDE DEF raw, settled, in_prefix
  <2>5. CASE r.stop = TRUE
    <3>1. q = r
      BY <2>3, <2>5 DEF Override
    <3>2. o = r
      BY <2>3, <2>5, <3>1 DEF Observe
    <3>3. /\ Data(r.cd) = Marked(Data(d), OVERRUN)
          /\ c = ContinueC /\ forced = {} => Stuck(r.cd)
      BY <2>4, <2>5 DEF Pops
    <3>4. Refused(Data(d), Answer(o))
      BY <2>5, <3>2, <3>3 DEF Refused, Answer
    <3>5. o.cd.max_length = BUFFER_SIZE
      BY <2>4, <2>5, <3>2 DEF Fits, Ends, SameFrame
    <3>. QED  BY <3>2, <3>3, <3>4, <3>5
  <2>6. CASE r.stop = FALSE
    <3>1. /\ Passes(d, r.cd) /\ r.value \in ChoiceValues /\ (forced = {} => Permits(r.value, c))
          /\ Data(r.cd) = Data(d)
      BY <2>4, <2>6 DEF Fits, Pops
    <3>2. /\ q.stop = FALSE /\ q.cd = r.cd /\ q.value \in ChoiceValues
          /\ (forced = {} => Permits(q.value, c)) /\ (forced # {} => q.value \in forced)
      <4>1. CASE forced = {}
        BY <2>6, <3>1, <4>1 DEF Override
      <4>2. CASE forced # {}
        BY <2>6, <3>1, <4>2 DEF Override, Got
      <4>. QED  BY <4>1, <4>2
    <3>3. Permits(q.value, c)
      BY <3>2
    <3>4. DataOK(r.cd) /\ r.cd.max_length = BUFFER_SIZE /\ ~Full(r.cd)
      BY <1>2, <3>1 DEF Passes, SameFrame, Full
    <3>5. /\ Recorded(Data(r.cd), Answer(o), q.value, c, forced)
          /\ o.cd.max_length = BUFFER_SIZE
          /\ o.stop = TRUE => Stuck(o.cd)
      <4>1. q.value \in ChoiceValues /\ (forced # {} => q.value \in forced)
        BY <3>2
      <4>2. q.stop = FALSE /\ q.cd = r.cd /\ o = Observe(q, c, forced)
        BY <2>3, <3>2
      <4>3. Observes(r.cd, o, q.value, c, forced)
        BY <3>3, <3>4, <4>1, <4>2, ObserveViews, Zenon
      <4>. QED  BY <4>3 DEF Observes
    <3>. QED  BY <2>4, <2>6, <3>1, <3>5
  <2>. QED  BY <2>4, <2>5, <2>6 DEF Fits
<1>. QED  BY <1>1, <1>2

(* The data replays these nodes: it has recorded as many as it has used up. *)
Replaying(d, nodes) ==
  /\ d.prefix = [i \in DOMAIN nodes |-> Replayed(nodes[i].value)]
  /\ d.index = Len(d.nodes) /\ d.max_choices = Len(nodes)
  /\ d.max_length = BUFFER_SIZE /\ d.misaligned = FALSE

LEMMA ReplayingViews ==
  ASSUME NEW d, NEW e, NEW nodes, SameView(d, e), Replaying(d, nodes)
  PROVE  Replaying(e, nodes)
BY DEF SameView, Replaying

(* A choice of the earlier example is drawn again...                        *)
LEMMA ChoiceReplays ==
  ASSUME NEW d, DataOK(d), NEW nodes \in Seq(Node), Replaying(d, nodes),
         NEW c \in Constraints, NEW forced \in SUBSET ChoiceValues,
         NEW w, forced \subseteq {w},
         NEW e, NEW v, Recorded(Data(d), e, v, c, forced),
         Len(d.nodes) < Len(nodes), nodes[Len(d.nodes) + 1].value = v,
         NEW o \in DrawInner(d, c, TRUE, forced)
  PROVE  /\ Answer(o).stop = e.stop /\ Answer(o).data = e.data
         /\ e.stop = FALSE => Answer(o).value = e.value
         /\ Replaying(o.cd, nodes)
<1>1. /\ v \in ChoiceValues /\ Permits(v, c) /\ (forced # {} => forced = {v})
      /\ d.length < BUFFER_SIZE
  BY DEF Recorded, Data
<1>2. /\ d.nodes \in Seq(Node) /\ d.index \in Nat /\ d.index = Len(d.nodes) /\ d.length \in Nat
      /\ BUFFER_SIZE \in Nat /\ d.max_length = BUFFER_SIZE /\ d.max_choices = Len(nodes)
  BY ExampleAssumption DEF DataOK, ConjectureData, Replaying
<1>3. ~Full(d)
  BY <1>1, <1>2 DEF Full
<1>4. d.index + 1 \in DOMAIN nodes
  BY <1>2
<1>5. d.prefix[d.index + 1] = Replayed(v) /\ d.index < Len(d.prefix)
  <2>1. d.prefix[d.index + 1] = Replayed(nodes[d.index + 1].value)
    BY <1>4 DEF Replaying
  <2>2. d.prefix \in Seq(Entry) /\ DOMAIN d.prefix = DOMAIN nodes
    BY DEF DataOK, ConjectureData, Replaying
  <2>. QED  BY <1>2, <2>1, <2>2
<1>. DEFINE f == [d EXCEPT !.index = @ + 1]
<1>6. /\ DataOK(f) /\ f.index = d.index + 1 /\ Data(f) = Data(d) /\ f.nodes = d.nodes
      /\ f.length = d.length /\ f.max_length = d.max_length /\ f.max_choices = d.max_choices
      /\ f.prefix = d.prefix /\ f.misaligned = d.misaligned
  <2>1. Passes(d, f)
    BY PassesFields
  <2>2. d \in ConjectureData
    BY DEF DataOK
  <2>3. f.index = d.index + 1 /\ f.prefix = d.prefix
    BY <2>2 DEF ConjectureData
  <2>4. f.misaligned = d.misaligned
    BY <2>2 DEF ConjectureData
  <2>. HIDE DEF f
  <2>. QED  BY <2>1, <2>3, <2>4 DEF Passes, SameFrame, Data
<1>7. PopChoice(d, c, forced) = {Got(f, v)}
  <2>1. FromValue(d, c) = {Got(f, v)}
    <3>1. d.prefix[d.index + 1].value = v
      BY <1>5 DEF Replayed
    <3>. QED  BY <1>1, <3>1 DEF FromValue, Got
  <2>2. ~d.prefix[d.index + 1].template
    BY <1>5 DEF Replayed
  <2>. QED  BY <2>1, <2>2 DEF PopChoice
<1>. HIDE DEF f
<1>8. Override(Got(f, v), forced) = {Got(f, v)}
  <2>1. CASE forced = {}
    BY <2>1 DEF Override
  <2>2. CASE forced # {}
    <3>1. forced = {v}
      BY <1>1, <2>2
    <3>. QED  BY <2>2, <3>1 DEF Override, Got
  <2>. QED  BY <2>1, <2>2
<1>9. o = Observe(Got(f, v), c, forced)
  <2>1. DrawInner(d, c, TRUE, forced) =
          {Observe(q, c, forced) : q \in UNION {Override(r, forced) : r \in PopChoice(d, c, forced)}}
    BY <1>3, <1>5 DEF DrawInner
  <2>. QED  BY <1>7, <1>8, <2>1
<1>10. /\ Recorded(Data(d), Answer(o), v, c, forced)
       /\ o.cd.max_length = BUFFER_SIZE /\ o.cd.max_choices = d.max_choices
       /\ o.cd.prefix = d.prefix /\ o.cd.index = d.index + 1 /\ o.cd.misaligned = d.misaligned
  <2>. DEFINE q == Got(f, v)
  <2>1. q.stop = FALSE /\ q.cd = f /\ q.value = v
    BY DEF Got
  <2>2. ~Full(f) /\ f.max_length = BUFFER_SIZE
    BY <1>2, <1>3, <1>6 DEF Full
  <2>3. forced # {} => v \in forced
    BY <1>1
  <2>4. o = Observe(q, c, forced)
    BY <1>9
  <2>. HIDE DEF q
  <2>5. DataOK(f) /\ Permits(v, c) /\ v \in ChoiceValues
    BY <1>1, <1>6
  <2>6. Observes(f, o, v, c, forced)
    BY <2>1, <2>2, <2>3, <2>4, <2>5, ObserveViews, Zenon
  <2>. QED  BY <1>6, <2>6 DEF Observes
<1>11. /\ Answer(o).stop = e.stop /\ Answer(o).data = e.data
       /\ e.stop = FALSE => Answer(o).value = e.value
  BY <1>10 DEF Recorded
<1>12. o.cd.index = Len(o.cd.nodes)
  <2>1. o.cd.nodes = Answer(o).data.nodes
    BY DEF Answer, Data
  <2>2. Answer(o).data.nodes = Longer(Data(d), v, c, forced).nodes
    BY <1>10 DEF Recorded, Marked
  <2>3. Longer(Data(d), v, c, forced).nodes =
          Append(d.nodes, [value |-> v, constraints |-> c, was_forced |-> forced # {}])
    BY DEF Longer, Data
  <2>4. \A x : Len(Append(d.nodes, x)) = Len(d.nodes) + 1
    BY <1>2
  <2>. QED  BY <1>2, <1>10, <2>1, <2>2, <2>3, <2>4
<1>. QED  BY <1>10, <1>11, <1>12 DEF Replaying

(* ...and past the last one every draw is refused.                          *)
LEMMA EndReplays ==
  ASSUME NEW d, DataOK(d), NEW nodes, Replaying(d, nodes), Len(d.nodes) = Len(nodes),
         NEW c, NEW forced, NEW o \in DrawInner(d, c, TRUE, forced)
  PROVE  Refused(Data(d), Answer(o)) /\ Replaying(o.cd, nodes)
<1>1. Full(d)
  BY DEF Full, Replaying
<1>2. o = Stopped(d, OVERRUN)
  BY <1>1 DEF DrawInner
<1>3. o.stop = TRUE /\ SameView(d, o.cd) /\ Data(o.cd) = Marked(Data(d), OVERRUN)
  BY <1>2, StoppedViews
<1>4. Refused(Data(d), Answer(o))
  BY <1>3 DEF Refused, Answer
<1>. QED  BY <1>3, <1>4, ReplayingViews

-----------------------------------------------------------------------------
(* A step of the program is a move: what is drawn is answered, and the state *)
(* that follows from the answer comes next.                                 *)

Stepped(b) ==
  IF Asking(Here(b), script)
  THEN \E d : \E o \in DrawInner(d, ConstraintsOf(Here(b)), TRUE, ForcedOf(Here(b))) :
         /\ DataOK(d) /\ SameView(cd, d) /\ Data(d) = Data(cd)
         /\ Follows(Here(b), Answer(o), HereNext(IF o.stop THEN TRUE ELSE b), script)
         /\ SameView(o.cd, cd')
  ELSE \E a : /\ Silent(Here(b), a) /\ Follows(Here(b), a, HereNext(b), script)
              /\ SameView(cd, cd')

LEMMA HereFields ==
  ASSUME NEW b
  PROVE  /\ Here(b).wanted = wanted /\ Here(b).many = many /\ Here(b).result = result /\ Here(b).pc = pc
         /\ Here(b).step = step /\ Here(b).outcome = outcome /\ Here(b).data = Data(cd)
         /\ Here(b).blocked = b
BY DEF Here, Core

LEMMA UnwindFollows ==
  ASSUME NEW d, DataOK(d), Unwind(d), NEW b, NEW x
  PROVE  SameView(d, cd') /\ HereNext(x) = Abandons(Here(b), Data(d), x)
<1>. DEFINE e == StopSpan(d, FALSE)
<1>1. DataOK(e) /\ SameView(d, e) /\ Data(e) = Data(d)
  BY SpanViews, StopSpanFacts
<1>2. cd' = Freeze(e)
  BY DEF Unwind
<1>. HIDE DEF e
<1>3. SameView(e, cd') /\ Data(cd') = Frozen(Data(d))
  BY <1>1, <1>2, FreezeViews
<1>4. SameView(d, cd')
  BY <1>1, <1>3, ViewTransitive
<1>5. /\ pc' = "abandoned" /\ outcome' = "Invalid" /\ many' = many /\ wanted' = wanted /\ result' = result
      /\ step' = step
  BY DEF Unwind
<1>. QED  BY <1>3, <1>4, <1>5, HereFields DEF HereNext, Abandons

LEMMA EndFollows ==
  ASSUME NEW d, DataOK(d), NEW what, End(d, what), NEW b, NEW x
  PROVE  SameView(d, cd') /\ HereNext(x) = Finishes(Here(b), Data(d), what, x)
<1>1. cd' = Freeze(d)
  BY DEF End
<1>2. SameView(d, cd') /\ Data(cd') = Frozen(Data(d))
  BY <1>1, FreezeViews
<1>3. /\ pc' = "finished" /\ outcome' = what /\ many' = many /\ wanted' = wanted /\ result' = result
      /\ step' = step
  BY DEF End
<1>. QED  BY <1>2, <1>3, HereFields DEF HereNext, Finishes

LEMMA ContinueFollows ==
  ASSUME pc = "body", NEW d, Continue(d), NEW b, NEW x
  PROVE  SameView(d, cd') /\ HereNext(x) = Continues(Here(b), Data(d), x)
<1>1. /\ cd' = d /\ pc' = "body" /\ outcome' = outcome /\ many' = many /\ wanted' = wanted /\ result' = result
      /\ step' = step + 1
  BY DEF Continue
<1>. QED  BY <1>1, HereFields DEF HereNext, Continues, SameView

LEMMA DrawArgumentMoves ==
  ASSUME DataOK(cd), DrawArgument, NEW b
  PROVE  Stepped(b)
<1>. DEFINE s == Here(b)
            a == [stop |-> FALSE, value |-> None, data |-> Data(cd)]
<1>1. /\ s.pc = "arguments" /\ s.many = many /\ s.wanted = wanted /\ s.result = result /\ s.step = step
      /\ s.outcome = outcome /\ s.data = Data(cd) /\ s.blocked = b
  BY HereFields DEF DrawArgument
<1>2. SameView(cd, cd') /\ Data(cd') = Data(cd)
  BY SpanViews DEF DrawArgument
<1>3. HereNext(b) = Core(wanted, many, result, "more", step, outcome, Data(cd), b)
  BY <1>2 DEF HereNext, DrawArgument
<1>. HIDE DEF s
<1>4. ~Asking(s, script) /\ Silent(s, a)
  BY <1>1 DEF Asking, Silent
<1>5. Follows(s, a, HereNext(b), script)
  BY <1>1, <1>3 DEF Follows, FollowsInList
<1>. HIDE DEF a
<1>. QED  BY <1>2, <1>4, <1>5 DEF Stepped, s

(* The three ways to go on after the decision.                             *)
GoesOn(o) ==
  \/ o.stop /\ Unwind(o.cd)
  \/ /\ ~o.stop /\ o.value = True
     /\ many' = Counted(many) /\ cd' = o.cd /\ pc' = "element"
     /\ UNCHANGED <<wanted, result, step, script, outcome, earlier>>
  \/ /\ ~o.stop /\ o.value # True
     /\ cd' = StopSpan(o.cd, FALSE) /\ pc' = "body"
     /\ IF earlier = None THEN script' \in Scripts ELSE UNCHANGED script
     /\ UNCHANGED <<wanted, many, result, step, outcome, earlier>>

WentOn(o, b) ==
  /\ Follows(Here(b), Answer(o), HereNext(IF o.stop THEN TRUE ELSE b), script)
  /\ SameView(o.cd, cd')

LEMMA MoreFollows ==
  ASSUME pc = "more", NEW o, (o.stop = TRUE \/ o.stop = FALSE), DataOK(o.cd), GoesOn(o), NEW b
  PROVE  WentOn(o, b)
<1>. DEFINE s == Here(b)
            a == Answer(o)
            x == IF o.stop THEN TRUE ELSE b
<1>1. /\ s.pc = "more" /\ s.many = many /\ s.wanted = wanted /\ s.result = result /\ s.step = step
      /\ s.outcome = outcome /\ s.blocked = b
  BY HereFields
<1>2. a.stop = o.stop /\ a.value = o.value /\ a.data = Data(o.cd)
  BY DEF Answer
<1>3. x = IF a.stop THEN TRUE ELSE s.blocked
  BY <1>1, <1>2
<1>. HIDE DEF s, a, x
<1>4. SUFFICES FollowsInList(s, a, HereNext(x), x) /\ SameView(o.cd, cd')
  BY <1>3 DEF WentOn, Follows, s, a, x
<1>5. CASE o.stop /\ Unwind(o.cd)
  <2>1. SameView(o.cd, cd') /\ HereNext(x) = Abandons(s, a.data, x)
    BY <1>2, <1>5, UnwindFollows DEF s
  <2>2. a.stop = TRUE
    BY <1>2, <1>5
  <2>. QED  BY <1>1, <2>1, <2>2 DEF FollowsInList
<1>6. CASE /\ ~o.stop /\ o.value = True
           /\ many' = Counted(many) /\ cd' = o.cd /\ pc' = "element"
           /\ UNCHANGED <<wanted, result, step, script, outcome, earlier>>
  <2>1. HereNext(x) = Core(wanted, Counted(many), result, "element", step, outcome, Data(o.cd), x)
    BY <1>6 DEF HereNext
  <2>2. a.stop = FALSE
    BY <1>2, <1>6
  <2>. QED  BY <1>1, <1>2, <1>6, <2>1, <2>2 DEF FollowsInList, SameView
<1>7. CASE /\ ~o.stop /\ o.value # True
           /\ cd' = StopSpan(o.cd, FALSE) /\ pc' = "body"
           /\ IF earlier = None THEN script' \in Scripts ELSE UNCHANGED script
           /\ UNCHANGED <<wanted, many, result, step, outcome, earlier>>
  <2>1. SameView(o.cd, cd') /\ Data(cd') = Data(o.cd)
    BY <1>7, SpanViews
  <2>2. HereNext(x) = Core(wanted, many, result, "body", step, outcome, Data(o.cd), x)
    BY <1>7, <2>1 DEF HereNext
  <2>3. a.stop = FALSE
    BY <1>2, <1>7
  <2>. QED  BY <1>1, <1>2, <1>7, <2>1, <2>2, <2>3 DEF FollowsInList
<1>. QED  BY <1>5, <1>6, <1>7 DEF GoesOn

LEMMA MoreMoves ==
  ASSUME IInv, More, NEW b
  PROVE  Stepped(b)
<1>1. PICK o \in MoreOutcomes(many, cd) : GoesOn(o)
  BY DEF More, GoesOn
<1>2. pc = "more" /\ DataOK(cd)
  BY DEF More, IInv, TypeOK
<1>3. DataOK(o.cd)
  BY <1>2, MoreFacts DEF Sound
<1>4. ASSUME o.stop = TRUE \/ o.stop = FALSE
      PROVE  /\ Follows(Here(b), Answer(o), HereNext(IF o.stop THEN TRUE ELSE b), script)
             /\ SameView(o.cd, cd')
  <2>1. WentOn(o, b)
    <3>1. GoesOn(o)
      BY <1>1, Zenon
    <3>2. pc = "more" /\ DataOK(o.cd) /\ (o.stop = TRUE \/ o.stop = FALSE)
      BY <1>2, <1>3, <1>4, Zenon
    <3>. QED  BY ONLY <3>1, <3>2, MoreFollows, Zenon
  <2>. QED  BY <2>1 DEF WentOn
<1>. DEFINE s == Here(b)
<1>5. s.pc = "more" /\ s.many = many /\ s.data = Data(cd)
  BY <1>2, HereFields
<1>6. CASE many.min_size = many.max_size
  <2>1. o = Got(cd, IF many.count < many.min_size THEN True ELSE False)
    BY <1>6 DEF MoreOutcomes
  <2>2. /\ o.stop = FALSE /\ o.cd = cd
        /\ o.value = IF many.count < many.min_size THEN True ELSE False
    BY <2>1 DEF Got
  <2>3. Follows(s, Answer(o), HereNext(b), script) /\ SameView(cd, cd')
    BY <1>4, <2>2
  <2>. HIDE DEF s
  <2>4. ~Asking(s, script)
    BY <1>5, <1>6 DEF Asking
  <2>5. Silent(s, Answer(o))
    BY <1>5, <2>2 DEF Silent, Answer
  <2>. QED  BY <2>3, <2>4, <2>5 DEF Stepped, s
<1>7. CASE many.min_size # many.max_size
  <2>1. o \in DrawInner(cd, ContinueC, TRUE, ForcedMore(many))
    BY <1>7 DEF MoreOutcomes
  <2>. HIDE DEF s
  <2>2. Asking(s, script) /\ ConstraintsOf(s) = ContinueC /\ ForcedOf(s) = ForcedMore(many)
    BY <1>5, <1>7 DEF Asking, ConstraintsOf, ForcedOf
  <2>3. o.stop = TRUE \/ o.stop = FALSE
    <3>1. ForcedMore(many) \in SUBSET ChoiceValues
      BY ExampleAssumption DEF ForcedMore
    <3>. HIDE DEF s
    <3>2. o.stop = TRUE \/ o.stop = FALSE
      BY <1>2, <2>1, <3>1, DrawFacts DEF Constraints, Answers
    <3>. QED  BY <3>2
  <2>4. SameView(cd, cd)
    BY DEF SameView
  <2>. QED  BY <1>2, <1>4, <2>1, <2>2, <2>3, <2>4 DEF Stepped, s
<1>. QED  BY <1>6, <1>7

LEMMA ElementMoves ==
  ASSUME IInv, Element, NEW b
  PROVE  Stepped(b)
<1>1. PICK o \in Elements(cd) : (o.stop /\ Unwind(o.cd)) \/ Keep(o) \/ Reject(o)
  BY DEF Element
<1>2. pc = "element" /\ DataOK(cd)
  BY DEF Element, IInv, TypeOK
<1>3. DataOK(o.cd)
  BY <1>2, ElementFacts DEF Sound
<1>. DEFINE s == Here(b)
            a == Answer(o)
            x == IF o.stop THEN TRUE ELSE b
<1>4. /\ s.pc = "element" /\ s.many = many /\ s.wanted = wanted /\ s.result = result /\ s.step = step
      /\ s.outcome = outcome /\ s.blocked = b /\ s.data = Data(cd)
  BY <1>2, HereFields
<1>5. a.stop = o.stop /\ a.value = o.value /\ a.data = Data(o.cd)
  BY DEF Answer
<1>6. x = IF a.stop THEN TRUE ELSE s.blocked
  BY <1>4, <1>5
<1>7. Repeats(s, a.value) <=> Collides(o.value)
  <2>. HIDE DEF s, a
  <2>. QED  BY <1>4, <1>5 DEF Repeats, Collides
<1>. HIDE DEF s, a, x
<1>8. ASSUME o.stop \in BOOLEAN
      PROVE  Follows(s, a, HereNext(x), script) /\ SameView(o.cd, cd')
  <2>1. SUFFICES FollowsInList(s, a, HereNext(x), x) /\ SameView(o.cd, cd')
    BY <1>6 DEF Follows
  <2>2. CASE o.stop /\ Unwind(o.cd)
    <3>1. SameView(o.cd, cd') /\ HereNext(x) = Abandons(s, a.data, x)
      BY <1>3, <1>5, <2>2, UnwindFollows DEF s
    <3>2. a.stop = TRUE
      BY <1>5, <1>8, <2>2
    <3>. QED  BY <1>4, <3>1, <3>2 DEF FollowsInList
  <2>3. CASE Keep(o)
    <3>1. /\ ~o.stop /\ ~Collides(o.value) /\ cd' = o.cd
          /\ HereNext(x) = Core(wanted, many, Append(result, o.value), "more", step, outcome, Data(o.cd), x)
      BY <2>3 DEF Keep, HereNext
    <3>2. a.stop = FALSE
      BY <1>5, <1>8, <3>1
    <3>. QED  BY <1>4, <1>5, <1>7, <3>1, <3>2 DEF FollowsInList, SameView
  <2>4. CASE Reject(o)
    <3>1. ~o.stop /\ Collides(o.value)
      BY <2>4 DEF Reject
    <3>2. a.stop = FALSE
      BY <1>5, <1>8, <3>1
    <3>3. CASE Hopeless(Rejected(many))
      <4>. DEFINE e == Mark(o.cd, INVALID, None)
      <4>1. Unwind(e)
        BY <2>4, <3>3 DEF Reject
      <4>2. DataOK(e) /\ SameView(o.cd, e) /\ Data(e) = Marked(Data(o.cd), INVALID)
        BY <1>3, MarkViews
      <4>. HIDE DEF e
      <4>3. SameView(e, cd') /\ HereNext(x) = Abandons(s, Data(e), x)
        BY <4>1, <4>2, UnwindFollows DEF s
      <4>4. SameView(o.cd, cd')
        BY <4>2, <4>3, ViewTransitive
      <4>. QED  BY <1>4, <1>5, <1>7, <3>1, <3>2, <3>3, <4>2, <4>3, <4>4 DEF FollowsInList
    <3>4. CASE ~Hopeless(Rejected(many))
      <4>1. /\ many' = Settled(Rejected(many)) /\ cd' = o.cd /\ pc' = "more" /\ result' = result
            /\ step' = step /\ outcome' = outcome /\ wanted' = wanted
        BY <2>4, <3>4 DEF Reject
      <4>2. HereNext(x) = Core(wanted, Settled(Rejected(many)), result, "more", step, outcome, Data(o.cd), x)
        BY <4>1 DEF HereNext
      <4>. QED  BY <1>4, <1>5, <1>7, <3>1, <3>2, <3>4, <4>1, <4>2 DEF FollowsInList, SameView
    <3>. QED  BY <3>3, <3>4
  <2>. QED  BY <1>1, <2>2, <2>3, <2>4
<1>9. CASE wanted.just
  <2>1. o.stop = FALSE /\ o.cd = cd /\ o.value = Fixed
    BY <1>1, <1>9 DEF Elements, Got
  <2>2. Follows(s, a, HereNext(b), script) /\ SameView(cd, cd')
    BY <1>8, <2>1 DEF x
  <2>3. ~Asking(s, script)
    BY <1>4, <1>9 DEF Asking
  <2>4. Silent(s, a)
    BY <1>4, <1>5, <2>1 DEF Silent
  <2>. QED  BY <2>2, <2>3, <2>4 DEF Stepped, s
<1>10. CASE ~wanted.just
  <2>1. o \in DrawInner(cd, ElementC, TRUE, {})
    BY <1>1, <1>10 DEF Elements, Draw
  <2>2. Asking(s, script) /\ ConstraintsOf(s) = ElementC /\ ForcedOf(s) = {}
    BY <1>4, <1>10 DEF Asking, ConstraintsOf, ForcedOf
  <2>3. o.stop = TRUE \/ o.stop = FALSE
    BY <1>2, <2>1, DrawFacts DEF Constraints, Answers
  <2>4. SameView(cd, cd)
    BY DEF SameView
  <2>5. Follows(s, a, HereNext(x), script) /\ SameView(o.cd, cd')
    BY <1>8, <2>3
  <2>. QED  BY <1>2, <2>1, <2>2, <2>4, <2>5 DEF Stepped, s, a, x
<1>. QED  BY <1>9, <1>10

(* A step of the body that draws nothing.                                  *)
LEMMA QuietMoves ==
  ASSUME pc = "body", NEW b, What(Here(b), script) \notin {"draw", "draw_caught"},
         FollowsInBody(Here(b), [stop |-> FALSE, value |-> None, data |-> Data(cd)],
                       HereNext(b), b, What(Here(b), script)),
         SameView(cd, cd')
  PROVE  Stepped(b)
<1>. DEFINE s == Here(b)
            a == [stop |-> FALSE, value |-> None, data |-> Data(cd)]
<1>1. s.pc = "body" /\ s.blocked = b /\ s.data = Data(cd)
  BY HereFields
<1>2. a.stop = FALSE /\ a.data = Data(cd)
  OBVIOUS
<1>3. FollowsInBody(s, a, HereNext(b), b, What(s, script))
  OBVIOUS
<1>4. What(s, script) \notin {"draw", "draw_caught"}
  OBVIOUS
<1>. HIDE DEF s, a
<1>5. ~Asking(s, script) /\ Silent(s, a)
  BY <1>1, <1>2, <1>4 DEF Asking, Silent
<1>6. Follows(s, a, HereNext(b), script)
  BY <1>1, <1>2, <1>3 DEF Follows
<1>. QED  BY <1>5, <1>6 DEF Stepped, s

LEMMA BodyDrawMoves ==
  ASSUME IInv, pc = "body", BodyDraw, NEW b
  PROVE  Stepped(b)
<1>. DEFINE s == Here(b)
            d == StartSpan(cd)
            what == script[step]
<1>1. /\ s.pc = "body" /\ s.step = step /\ s.blocked = b /\ s.data = Data(cd)
  BY HereFields
<1>2. what \in {"draw", "draw_caught"} /\ step <= Len(script)
  BY DEF BodyDraw, Now
<1>3. PICK o \in Draw(d, ContinueC) :
         IF ~o.stop \/ Now("draw_caught") THEN Continue(StopSpan(o.cd, FALSE))
         ELSE End(StopSpan(o.cd, FALSE),
                  IF StopSpan(o.cd, FALSE).status = VALID THEN "Valid" ELSE "Invalid")
  BY DEF BodyDraw
<1>4. DataOK(cd)
  BY DEF IInv, TypeOK
<1>5. DataOK(d) /\ SameView(cd, d) /\ Data(d) = Data(cd)
  BY <1>4, StartSpanFacts, SpanViews
<1>6. o \in DrawInner(d, ContinueC, TRUE, {})
  BY DEF Draw
<1>. HIDE DEF d
<1>7. DataOK(o.cd) /\ (o.stop = TRUE \/ o.stop = FALSE)
  <2>1. Draws(d, o) /\ (o.stop = TRUE \/ Answers(ContinueC, {}, o))
    <3>1. ContinueC \in Constraints /\ {} \in SUBSET ChoiceValues
      BY DEF Constraints
    <3>. QED  BY <1>5, <1>6, <3>1, DrawFacts, Zenon
  <2>. QED  BY <2>1 DEF Draws, Answers
<1>. DEFINE e == StopSpan(o.cd, FALSE)
            a == Answer(o)
            x == IF o.stop THEN TRUE ELSE b
<1>8. DataOK(e) /\ SameView(o.cd, e) /\ Data(e) = Data(o.cd)
  BY <1>7, StopSpanFacts, SpanViews
<1>9. a.stop = o.stop /\ a.data = Data(e)
  BY <1>8 DEF Answer
<1>10. IF ~o.stop \/ what = "draw_caught" THEN Continue(e)
       ELSE End(e, IF Data(e).status = VALID THEN "Valid" ELSE "Invalid")
  <2>1. Now("draw_caught") <=> what = "draw_caught"
    BY <1>2 DEF Now
  <2>2. Data(e).status = e.status
    BY DEF Data
  <2>. QED  BY <1>3, <2>1, <2>2
<1>11. What(s, script) = what
  BY <1>1, <1>2 DEF What
<1>. HIDE DEF s, e, a, x, what
<1>12. FollowsInBody(s, a, HereNext(x), x, what) /\ SameView(e, cd')
  <2>1. CASE Continue(e) /\ (o.stop = FALSE \/ what = "draw_caught")
    <3>1. SameView(e, cd') /\ HereNext(x) = Continues(s, a.data, x)
      BY <1>9, <2>1, ContinueFollows DEF s
    <3>. QED  BY <1>2, <1>9, <2>1, <3>1 DEF FollowsInBody
  <2>2. CASE /\ o.stop = TRUE /\ what = "draw"
             /\ End(e, IF Data(e).status = VALID THEN "Valid" ELSE "Invalid")
    <3>1. /\ SameView(e, cd')
          /\ HereNext(x) = Finishes(s, a.data, IF a.data.status = VALID THEN "Valid" ELSE "Invalid", x)
      BY <1>8, <1>9, <2>2, EndFollows DEF s
    <3>. QED  BY <1>9, <2>2, <3>1 DEF FollowsInBody
  <2>. QED  BY <1>2, <1>7, <1>10, <2>1, <2>2
<1>13. SameView(o.cd, cd')
  BY <1>8, <1>12, ViewTransitive
<1>14. Asking(s, script) /\ ConstraintsOf(s) = ContinueC /\ ForcedOf(s) = {}
  BY <1>1, <1>2, <1>11 DEF Asking, ConstraintsOf, ForcedOf
<1>15. x = IF a.stop THEN TRUE ELSE s.blocked
  BY <1>1, <1>9 DEF x
<1>16. Follows(s, a, HereNext(x), script)
  BY <1>1, <1>11, <1>12, <1>15 DEF Follows
<1>. QED  BY <1>5, <1>6, <1>13, <1>14, <1>16 DEF Stepped, s, a, x

LEMMA BodyMoves ==
  ASSUME IInv, Body, NEW b
  PROVE  Stepped(b)
<1>. DEFINE s == Here(b)
            a == [stop |-> FALSE, value |-> None, data |-> Data(cd)]
            what == What(s, script)
<1>1. pc = "body" /\ DataOK(cd) /\ s.step = step
  BY HereFields DEF IInv, TypeOK, Body, BodyDraw, BodyMark, BodyReject, BodyNote, BodyRaise,
     BodyReturn, Now
<1>2. \A w : Now(w) => what = w
  <2>. HIDE DEF s
  <2>. QED  BY <1>1 DEF Now, What
<1>3. a.data = Data(cd)
  OBVIOUS
<1>4. ASSUME what \notin {"draw", "draw_caught"}, SameView(cd, cd'),
             FollowsInBody(s, a, HereNext(b), b, what)
      PROVE  Stepped(b)
  BY <1>1, <1>4, QuietMoves
<1>. HIDE DEF s, a, what
<1>5. CASE BodyDraw
  BY <1>1, <1>5, BodyDrawMoves
<1>6. CASE BodyMark
  <2>. DEFINE d == Mark(cd, INVALID, None)
              e == Mark(cd, INTERESTING, "origin")
  <2>1. /\ DataOK(d) /\ SameView(cd, d) /\ Data(d) = Marked(Data(cd), INVALID)
        /\ DataOK(e) /\ SameView(cd, e) /\ Data(e) = Marked(Data(cd), INTERESTING)
    BY <1>1, MarkViews
  <2>2. \/ what = "mark_invalid" /\ End(d, "Invalid")
        \/ what = "mark_interesting" /\ End(e, "Invalid")
        \/ what = "invalid_caught" /\ Continue(d)
    BY <1>2, <1>6 DEF BodyMark
  <2>. HIDE DEF d, e
  <2>3. CASE what = "mark_invalid" /\ End(d, "Invalid")
    <3>1. SameView(d, cd') /\ HereNext(b) = Finishes(s, Data(d), "Invalid", b)
      BY <2>1, <2>3, EndFollows DEF s
    <3>2. SameView(cd, cd')
      BY <2>1, <3>1, ViewTransitive
    <3>. QED  BY <1>3, <1>4, <2>1, <2>3, <3>1, <3>2 DEF FollowsInBody
  <2>4. CASE what = "mark_interesting" /\ End(e, "Invalid")
    <3>1. SameView(e, cd') /\ HereNext(b) = Finishes(s, Data(e), "Invalid", b)
      BY <2>1, <2>4, EndFollows DEF s
    <3>2. SameView(cd, cd')
      BY <2>1, <3>1, ViewTransitive
    <3>. QED  BY <1>3, <1>4, <2>1, <2>4, <3>1, <3>2 DEF FollowsInBody
  <2>5. CASE what = "invalid_caught" /\ Continue(d)
    <3>1. SameView(d, cd') /\ HereNext(b) = Continues(s, Data(d), b)
      BY <1>1, <2>5, ContinueFollows DEF s
    <3>2. SameView(cd, cd')
      BY <2>1, <3>1, ViewTransitive
    <3>. QED  BY <1>3, <1>4, <2>1, <2>5, <3>1, <3>2 DEF FollowsInBody
  <2>. QED  BY <2>2, <2>3, <2>4, <2>5
<1>7. ASSUME NEW w, End(cd, w), \/ what = "reject" /\ w = "Invalid"
                                \/ what = "raise" /\ w = "Interesting"
                                \/ what = "return" /\ w = "Valid"
                                \/ what = "note" /\ w = "Interesting" /\ Data(cd).frozen
      PROVE  Stepped(b)
  <2>1. SameView(cd, cd') /\ HereNext(b) = Finishes(s, Data(cd), w, b)
    BY <1>1, <1>7, EndFollows DEF s
  <2>2. FollowsInBody(s, a, HereNext(b), b, what)
    BY <1>3, <1>7, <2>1 DEF FollowsInBody
  <2>3. what \notin {"draw", "draw_caught"}
    BY <1>7
  <2>. QED  BY <1>4, <2>1, <2>2, <2>3
<1>8. CASE BodyReject
  <2>1. what = "reject" /\ End(cd, "Invalid")
    BY <1>2, <1>8 DEF BodyReject
  <2>. QED  BY <1>7, <2>1
<1>9. CASE BodyNote
  <2>1. what = "note" /\ IF Data(cd).frozen THEN End(cd, "Interesting") ELSE Continue(cd)
    BY <1>2, <1>9 DEF BodyNote, Data
  <2>2. CASE Data(cd).frozen
    BY <1>7, <2>1, <2>2
  <2>3. CASE ~Data(cd).frozen
    <3>1. SameView(cd, cd') /\ HereNext(b) = Continues(s, Data(cd), b)
      BY <1>1, <2>1, <2>3, ContinueFollows DEF s
    <3>. QED  BY <1>3, <1>4, <2>1, <2>3, <3>1 DEF FollowsInBody
  <2>. QED  BY <2>2, <2>3
<1>10. CASE BodyRaise
  <2>1. what = "raise" /\ End(cd, "Interesting")
    BY <1>2, <1>10 DEF BodyRaise
  <2>. QED  BY <1>7, <2>1
<1>11. CASE BodyReturn
  <2>1. what = "return"
    <3>1. step > Len(script) /\ step \in Nat /\ Len(script) \in Nat
      <4>1. script \in Scripts \cup {<<>>}
        BY DEF IInv, TypeOK
      <4>2. script \in Seq(Steps)
        <5>1. <<>> \in Seq(Steps) /\ Scripts \subseteq Seq(Steps)
          BY ExampleAssumption
        <5>. QED  BY <4>1, <5>1, Zenon
      <4>. QED  BY <1>11, <4>2 DEF BodyReturn, IInv, TypeOK
    <3>2. ~(step <= Len(script))
      BY <3>1
    <3>. QED  BY <1>1, <3>2 DEF What, what
  <2>. QED  BY <1>7, <1>11, <2>1 DEF BodyReturn
<1>. QED  BY <1>5, <1>6, <1>8, <1>9, <1>10, <1>11 DEF Body

Work == DrawArgument \/ More \/ Element \/ Body

LEMMA StepMoves ==
  ASSUME IInv, Work, NEW b
  PROVE  Stepped(b)
<1>1. DataOK(cd)
  BY DEF IInv, TypeOK
<1>. QED  BY <1>1, DrawArgumentMoves, MoreMoves, ElementMoves, BodyMoves DEF Work

-----------------------------------------------------------------------------
(* The trail of an example: the states it has been in, from the first one,  *)
(* each a move after the last. What was recorded stays recorded, and after  *)
(* a draw was stopped nothing is recorded any more.                         *)

Begin(w) ==
  Core(w, NewMany(w.min_size, w.max_size), <<>>, "arguments", 1, None,
       [nodes |-> <<>>, length |-> 0, status |-> VALID, frozen |-> FALSE], FALSE)

Behind(s, t) ==
  /\ s.data.nodes \in Seq(Node) /\ t.data.nodes \in Seq(Node)
  /\ Len(s.data.nodes) <= Len(t.data.nodes)
  /\ \A i \in DOMAIN s.data.nodes : t.data.nodes[i] = s.data.nodes[i]
  /\ s.blocked = TRUE => t.blocked = TRUE /\ t.data.nodes = s.data.nodes
  /\ s.pc = "body" => t.pc \in {"body", "finished"}
  /\ s.pc = "finished" => t.pc = "finished"

Trail(n, tr, w, body) ==
  /\ tr[1] = Begin(w)
  /\ \A j \in 1 .. n - 1 : Moves(tr[j], tr[j + 1], body)
  /\ \A j \in 1 .. n : Behind(tr[j], tr[n])

Over(s) == s.pc \in {"abandoned", "finished"}

LEMMA BehindTransitive ==
  ASSUME NEW s, NEW t, NEW u, Behind(s, t), Behind(t, u)
  PROVE  Behind(s, u)
<1>1. /\ s.data.nodes \in Seq(Node) /\ t.data.nodes \in Seq(Node) /\ u.data.nodes \in Seq(Node)
      /\ Len(s.data.nodes) <= Len(t.data.nodes) /\ Len(t.data.nodes) <= Len(u.data.nodes)
  BY DEF Behind
<1>2. \A i \in DOMAIN s.data.nodes : u.data.nodes[i] = s.data.nodes[i]
  <2>1. \A i \in DOMAIN s.data.nodes : i \in DOMAIN t.data.nodes
    BY <1>1
  <2>. QED  BY <2>1 DEF Behind
<1>3. Len(s.data.nodes) <= Len(u.data.nodes)
  BY <1>1
<1>. QED  BY <1>1, <1>2, <1>3 DEF Behind

LEMMA FollowsFacts ==
  ASSUME NEW s, NEW a, NEW t, NEW body, Follows(s, a, t, body)
  PROVE  /\ t.data.nodes = a.data.nodes /\ t.blocked = (IF a.stop THEN TRUE ELSE s.blocked)
         /\ ~Over(s)
         /\ s.pc = "body" => t.pc \in {"body", "finished"}
         /\ s.pc \in {"more", "element"} /\ a.stop = TRUE => t.pc = "abandoned"
<1>. DEFINE b == IF a.stop THEN TRUE ELSE s.blocked
<1>1. FollowsInList(s, a, t, b) \/ (s.pc = "body" /\ FollowsInBody(s, a, t, b, What(s, body)))
  BY DEF Follows
<1>. HIDE DEF b
<1>. USE DEF Core, Abandons, Finishes, Continues, Frozen, Marked
<1>2. CASE FollowsInList(s, a, t, b)
  <2>1. t.data.nodes = a.data.nodes /\ t.blocked = b
    BY <1>2 DEF FollowsInList
  <2>2. /\ s.pc \in {"arguments", "more", "element"}
        /\ s.pc \in {"more", "element"} /\ a.stop = TRUE => t.pc = "abandoned"
    BY <1>2 DEF FollowsInList
  <2>. QED  BY <2>1, <2>2 DEF Over, b
<1>3. CASE s.pc = "body" /\ FollowsInBody(s, a, t, b, What(s, body))
  <2>. DEFINE what == What(s, body)
  <2>. HIDE DEF what
  <2>1. t.data.nodes = a.data.nodes /\ t.blocked = b /\ t.pc \in {"body", "finished"}
    BY <1>3 DEF FollowsInBody, what
  <2>. QED  BY <1>3, <2>1 DEF Over, b
<1>. QED  BY <1>1, <1>2, <1>3

LEMMA MovesAhead ==
  ASSUME NEW s, NEW t, NEW body, Moves(s, t, body), s.data.nodes \in Seq(Node)
  PROVE  Behind(s, t)
<1>1. PICK a : /\ IF Asking(s, body) THEN Asked(s, a) ELSE Silent(s, a)
               /\ Follows(s, a, t, body)
  BY DEF Moves
<1>2. /\ t.data.nodes = a.data.nodes /\ t.blocked = (IF a.stop THEN TRUE ELSE s.blocked)
      /\ s.pc = "body" => t.pc \in {"body", "finished"}
      /\ s.pc # "finished"
  BY <1>1, FollowsFacts, ZenonT(60) DEF Over
<1>3. CASE a.data.nodes = s.data.nodes
  <2>1. Len(s.data.nodes) \in Nat
    OBVIOUS
  <2>. QED  BY <1>2, <1>3, <2>1 DEF Behind
<1>4. ASSUME NEW v, Recorded(s.data, a, v, ConstraintsOf(s), ForcedOf(s)), s.blocked = FALSE
      PROVE  Behind(s, t)
  <2>. DEFINE node == [value |-> v, constraints |-> ConstraintsOf(s),
                       was_forced |-> ForcedOf(s) # {}]
  <2>1. node \in Node
    <3>1. v \in ChoiceValues
      BY <1>4 DEF Recorded
    <3>. QED  BY <3>1 DEF Node, ConstraintsOf
  <2>2. a.data.nodes = Append(s.data.nodes, node)
    BY <1>4 DEF Recorded, Longer, Marked
  <2>. HIDE DEF node
  <2>3. /\ Append(s.data.nodes, node) \in Seq(Node)
        /\ Len(Append(s.data.nodes, node)) = Len(s.data.nodes) + 1
        /\ \A i \in DOMAIN s.data.nodes : Append(s.data.nodes, node)[i] = s.data.nodes[i]
    BY <2>1, AppendProperties
  <2>4. Len(s.data.nodes) \in Nat
    OBVIOUS
  <2>. QED  BY <1>2, <1>4, <2>2, <2>3, <2>4 DEF Behind
<1>5. CASE Asking(s, body)
  <2>1. CASE Refused(s.data, a)
    <3>1. a.data.nodes = s.data.nodes
      BY <2>1 DEF Refused, Marked
    <3>. QED  BY <1>3, <3>1
  <2>2. ASSUME s.blocked = FALSE,
               NEW v, Recorded(s.data, a, v, ConstraintsOf(s), ForcedOf(s))
        PROVE  Behind(s, t)
    BY <1>4, <2>2
  <2>. QED  BY <1>1, <1>5, <2>1, <2>2 DEF Asked
<1>6. CASE ~Asking(s, body)
  BY <1>1, <1>3, <1>6 DEF Silent
<1>. QED  BY <1>5, <1>6

(* Away from the body it is not looked at.                                 *)
LEMMA MovesElsewhere ==
  ASSUME NEW s, NEW t, NEW body, NEW other, s.pc # "body", Moves(s, t, body)
  PROVE  Moves(s, t, other)
<1>1. PICK a : /\ IF Asking(s, body) THEN Asked(s, a) ELSE Silent(s, a)
               /\ Follows(s, a, t, body)
  BY DEF Moves
<1>2. Asking(s, body) <=> Asking(s, other)
  BY DEF Asking
<1>3. Follows(s, a, t, other)
  BY <1>1 DEF Follows
<1>. QED  BY <1>1, <1>2, <1>3 DEF Moves

LEMMA LongerTrail ==
  ASSUME NEW n \in Nat \ {0}, NEW tr, NEW w, NEW body, Trail(n, tr, w, body),
         NEW t, Moves(tr[n], t, body)
  PROVE  LET long == [j \in 1 .. n + 1 |-> IF j = n + 1 THEN t ELSE tr[j]]
         IN  Trail(n + 1, long, w, body) /\ long[n + 1] = t
<1>. DEFINE long == [j \in 1 .. n + 1 |-> IF j = n + 1 THEN t ELSE tr[j]]
<1>1. long[n + 1] = t /\ \A j \in 1 .. n : long[j] = tr[j] /\ j + 1 \in 1 .. n + 1
  OBVIOUS
<1>. HIDE DEF long
<1>2. long[1] = Begin(w)
  BY <1>1 DEF Trail
<1>3. Behind(tr[n], tr[n])
  BY DEF Trail
<1>4. Behind(tr[n], t)
  BY <1>3, MovesAhead DEF Behind
<1>5. ASSUME NEW j \in 1 .. n + 1
      PROVE  Behind(long[j], long[n + 1])
  <2>1. CASE j = n + 1
    <3>1. Behind(t, t)
      <4>1. t.data.nodes \in Seq(Node)
        BY <1>4 DEF Behind
      <4>2. Len(t.data.nodes) \in Nat
        BY <4>1
      <4>. QED  BY <4>1, <4>2 DEF Behind
    <3>. QED  BY <1>1, <2>1, <3>1
  <2>2. CASE j \in 1 .. n
    <3>1. Behind(tr[j], tr[n])
      BY <2>2 DEF Trail
    <3>. QED  BY <1>1, <1>4, <2>2, <3>1, BehindTransitive
  <2>. QED  BY <2>1, <2>2
<1>6. ASSUME NEW j \in 1 .. (n + 1) - 1
      PROVE  Moves(long[j], long[j + 1], body)
  <2>1. CASE j = n
    BY <1>1, <2>1
  <2>2. CASE j \in 1 .. n - 1
    <3>1. Moves(tr[j], tr[j + 1], body)
      BY <2>2 DEF Trail
    <3>2. j \in 1 .. n /\ j + 1 \in 1 .. n
      BY <2>2
    <3>. QED  BY <1>1, <3>1, <3>2
  <2>. QED  BY <2>1, <2>2
<1>7. Trail(n + 1, long, w, body)
  BY <1>2, <1>5, <1>6 DEF Trail
<1>. QED  BY <1>1, <1>7 DEF long

-----------------------------------------------------------------------------
(* The example leaves a trail. A draw that was stopped ended it, or left    *)
(* the body with a data that is stuck.                                      *)
IsTrail(n, tr, b) ==
  /\ Trail(n, tr, wanted, script) /\ tr[n] = Here(b)
  /\ b \in BOOLEAN /\ cd.max_length = BUFFER_SIZE
  /\ b = TRUE => Ended \/ (pc = "body" /\ Stuck(cd))

LeavesTrail == \E n \in Nat \ {0} : \E tr, b : IsTrail(n, tr, b)

(* The replay is at a state of the trail of the earlier example.            *)
OnTrail(n, tr, j, b) ==
  /\ Trail(n, tr, wanted, script) /\ Over(tr[n])
  /\ tr[n].result = earlier.result /\ tr[n].outcome = earlier.outcome
  /\ tr[n].data.nodes = earlier.cd.nodes /\ tr[n].data.status = earlier.cd.status
  /\ tr[j] = Here(b) /\ Replaying(cd, tr[n].data.nodes)

FollowsTrail == \E n \in Nat \ {0} : \E tr, b : \E j \in 1 .. n : OnTrail(n, tr, j, b)

ReplayInv == /\ earlier = None => LeavesTrail
             /\ earlier # None => FollowsTrail

LEMMA NextFields ==
  ASSUME NEW b
  PROVE  /\ HereNext(b) = Here(b)' /\ HereNext(b).pc = pc' /\ HereNext(b).data = Data(cd')
BY DEF Here, HereNext, Core

LEMMA ForcedFacts ==
  ASSUME NEW s
  PROVE  /\ ForcedOf(s) \in SUBSET ChoiceValues /\ ConstraintsOf(s) \in Constraints
         /\ \A v \in ForcedOf(s) : Permits(v, ConstraintsOf(s))
         /\ \E w : ForcedOf(s) \subseteq {w}
<1>1. CASE s.pc = "more"
  <2>. DEFINE f == ForcedMore(s.many)
  <2>1. f = {} \/ f = {True} \/ f = {False}
    BY DEF ForcedMore
  <2>2. ForcedOf(s) = f /\ ConstraintsOf(s) = ContinueC
    BY <1>1 DEF ForcedOf, ConstraintsOf
  <2>. HIDE DEF f
  <2>3. f \in SUBSET ChoiceValues /\ \A v \in f : Permits(v, ContinueC)
    BY <2>1, ExampleAssumption
  <2>4. \E w : f \subseteq {w}
    BY <2>1
  <2>. QED  BY <2>2, <2>3, <2>4 DEF Constraints
<1>2. CASE s.pc # "more"
  BY <1>2 DEF ForcedOf, ConstraintsOf, Constraints
<1>. QED  BY <1>1, <1>2

(* What stays and what changes in a step of the program.                   *)
LEMMA WorkFrame ==
  ASSUME Work
  PROVE  /\ UNCHANGED <<wanted, earlier>> /\ ~Ended
         /\ script' = script \/ (earlier = None /\ pc = "more")
<1>1. CASE DrawArgument
  BY <1>1 DEF DrawArgument, Ended
<1>2. CASE More
  BY <1>2 DEF More, Unwind, Ended
<1>3. CASE Element
  BY <1>3 DEF Element, Keep, Reject, Unwind, Ended
<1>4. CASE Body
  BY <1>4 DEF Body, BodyDraw, BodyMark, BodyReject, BodyNote, BodyRaise, BodyReturn,
     Now, Continue, End, Ended
<1>. QED  BY <1>1, <1>2, <1>3, <1>4 DEF Work

(* A body that is chosen late changes none of the moves before it.          *)
LEMMA SameTrail ==
  ASSUME NEW n \in Nat \ {0}, NEW tr, NEW w, NEW body, Trail(n, tr, w, body),
         tr[n].pc = "more", NEW other
  PROVE  Trail(n, tr, w, other)
<1>1. ASSUME NEW j \in 1 .. n - 1
      PROVE  Moves(tr[j], tr[j + 1], other)
  <2>1. Moves(tr[j], tr[j + 1], body) /\ j \in 1 .. n
    BY DEF Trail
  <2>2. tr[j].pc # "body"
    BY <2>1 DEF Trail, Behind
  <2>. QED  BY <2>1, <2>2, MovesElsewhere
<1>. QED  BY <1>1 DEF Trail

(* The move of a step of the first example.                                *)
LEMMA StepLeaves ==
  ASSUME IInv, Work, NEW b \in BOOLEAN, cd.max_length = BUFFER_SIZE,
         b = TRUE => Ended \/ (pc = "body" /\ Stuck(cd))
  PROVE  \E x \in BOOLEAN :
           /\ Moves(Here(b), HereNext(x), script)
           /\ cd'.max_length = BUFFER_SIZE
           /\ x = TRUE => pc' \in {"abandoned", "finished"} \/ (pc' = "body" /\ Stuck(cd'))
<1>. DEFINE s == Here(b)
<1>1. /\ s.pc = pc /\ s.data = Data(cd) /\ s.blocked = b /\ ~Ended
      /\ b = TRUE => pc = "body" /\ Stuck(cd)
  BY HereFields, WorkFrame
<1>2. Stepped(b)
  BY StepMoves
<1>. HIDE DEF s
<1>3. CASE Asking(s, script)
  <2>. DEFINE c == ConstraintsOf(s)
              forced == ForcedOf(s)
  <2>1. PICK d : \E o \in DrawInner(d, c, TRUE, forced) :
         /\ DataOK(d) /\ SameView(cd, d) /\ Data(d) = Data(cd)
         /\ Follows(s, Answer(o), HereNext(IF o.stop THEN TRUE ELSE b), script)
         /\ SameView(o.cd, cd')
    BY <1>2, <1>3 DEF Stepped, s
  <2>2. PICK o \in DrawInner(d, c, TRUE, forced) :
         /\ DataOK(d) /\ SameView(cd, d) /\ Data(d) = Data(cd)
         /\ Follows(s, Answer(o), HereNext(IF o.stop THEN TRUE ELSE b), script)
         /\ SameView(o.cd, cd')
    BY <2>1
  <2>3. /\ c \in Constraints /\ forced \in SUBSET ChoiceValues
        /\ \A v \in forced : Permits(v, c)
    BY ForcedFacts
  <2>4. s.pc = "body" => c = ContinueC /\ forced = {}
    BY DEF ConstraintsOf, ForcedOf
  <2>5. d.max_length = BUFFER_SIZE /\ (Stuck(cd) => Stuck(d))
    BY <2>2, StuckViews DEF SameView
  <2>. DEFINE a == Answer(o)
              x == IF o.stop THEN TRUE ELSE b
  <2>. HIDE DEF c, forced
  <2>6. /\ \/ Refused(Data(d), a)
           \/ /\ \E v : Recorded(Data(d), a, v, c, forced)
              /\ c = ContinueC /\ forced = {} => ~Stuck(d)
        /\ o.cd.max_length = BUFFER_SIZE
        /\ c = ContinueC /\ forced = {} /\ o.stop = TRUE => Stuck(o.cd)
    <3>1. Traced(d, c, forced, o)
      <4>1. DataOK(d) /\ d.max_length = BUFFER_SIZE /\ o \in DrawInner(d, c, TRUE, forced)
        BY <2>2, <2>5
      <4>2. c \in Constraints /\ forced \in SUBSET ChoiceValues /\ \A v \in forced : Permits(v, c)
        BY <2>3
      <4>. QED  BY <4>1, <4>2, DrawTraces, Zenon
    <3>. QED  BY <3>1 DEF Traced
  <2>7. a.stop = o.stop
    BY DEF Answer
  <2>8. Follows(s, a, HereNext(x), script) /\ SameView(o.cd, cd')
    BY <2>2
  <2>. HIDE DEF a
  <2>9. a.stop = TRUE \/ a.stop = FALSE
    BY <2>6 DEF Refused, Recorded
  <2>10. Asked(s, a)
    <3>1. CASE Refused(Data(d), a)
      BY <1>1, <2>2, <3>1 DEF Asked
    <3>2. CASE /\ \E v : Recorded(Data(d), a, v, c, forced)
               /\ c = ContinueC /\ forced = {} => ~Stuck(d)
      <4>1. b = FALSE
        BY <1>1, <2>4, <2>5, <3>2
      <4>. QED  BY <1>1, <2>2, <3>2, <4>1 DEF Asked, c, forced
    <3>. QED  BY <2>6, <3>1, <3>2
  <2>11. x \in BOOLEAN /\ (x = TRUE => a.stop = TRUE \/ b = TRUE)
    BY <2>7, <2>9
  <2>. HIDE DEF x
  <2>12. Moves(s, HereNext(x), script)
    BY <1>3, <2>8, <2>10 DEF Moves
  <2>13. cd'.max_length = BUFFER_SIZE
    BY <2>6, <2>8 DEF SameView
  <2>14. ASSUME x = TRUE
         PROVE  pc' \in {"abandoned", "finished"} \/ (pc' = "body" /\ Stuck(cd'))
    <3>1. a.stop = TRUE
      <4>1. CASE b = TRUE
        <5>1. Refused(Data(d), a)
          BY <1>1, <2>4, <2>5, <2>6, <4>1
        <5>. QED  BY <5>1 DEF Refused
      <4>. QED  BY <2>11, <2>14, <4>1
    <3>2. HereNext(x).pc = pc'
      BY NextFields
    <3>3. s.pc \in {"more", "element", "body"}
      BY <1>3 DEF Asking
    <3>4. CASE s.pc \in {"more", "element"}
      BY <2>8, <3>1, <3>2, <3>4, FollowsFacts
    <3>5. CASE s.pc = "body"
      <4>1. Stuck(cd')
        BY <2>4, <2>6, <2>7, <2>8, <3>1, <3>5, StuckViews
      <4>2. pc' \in {"body", "finished"}
        BY <2>8, <3>2, <3>5, FollowsFacts
      <4>. QED  BY <4>1, <4>2
    <3>. QED  BY <3>3, <3>4, <3>5
  <2>. QED  BY <2>11, <2>12, <2>13, <2>14 DEF s
<1>4. CASE ~Asking(s, script)
  <2>1. PICK a : /\ Silent(s, a) /\ Follows(s, a, HereNext(b), script)
                 /\ SameView(cd, cd')
    BY <1>2, <1>4 DEF Stepped, s
  <2>2. Moves(s, HereNext(b), script)
    BY <1>4, <2>1 DEF Moves
  <2>3. cd'.max_length = BUFFER_SIZE
    BY <2>1 DEF SameView
  <2>4. ASSUME b = TRUE
        PROVE  pc' \in {"abandoned", "finished"} \/ (pc' = "body" /\ Stuck(cd'))
    <3>1. s.pc = "body" /\ Stuck(cd')
      BY <1>1, <2>1, <2>4, StuckViews
    <3>2. HereNext(b).pc = pc'
      BY NextFields
    <3>3. pc' \in {"body", "finished"}
      BY <2>1, <3>1, <3>2, FollowsFacts
    <3>. QED  BY <3>1, <3>3
  <2>. QED  BY <2>2, <2>3, <2>4 DEF s
<1>. QED  BY <1>3, <1>4

LEMMA WorkLeaves ==
  ASSUME IInv, Work, LeavesTrail
  PROVE  LeavesTrail'
<1>1. PICK n \in Nat \ {0} : \E tr, b : IsTrail(n, tr, b)
  BY DEF LeavesTrail
<1>2. PICK tr, b : IsTrail(n, tr, b)
  BY <1>1
<1>3. PICK x \in BOOLEAN :
           /\ Moves(Here(b), HereNext(x), script)
           /\ cd'.max_length = BUFFER_SIZE
           /\ x = TRUE => pc' \in {"abandoned", "finished"} \/ (pc' = "body" /\ Stuck(cd'))
  BY <1>2, StepLeaves DEF IsTrail
<1>4. /\ UNCHANGED wanted
      /\ script' = script \/ pc = "more"
  BY WorkFrame
<1>5. tr[n].pc = pc /\ Trail(n, tr, wanted, script) /\ tr[n] = Here(b)
  BY <1>2, HereFields DEF IsTrail
<1>6. PICK t : t = HereNext(x)
  OBVIOUS
<1>7. PICK w, body : w = wanted' /\ body = script'
  OBVIOUS
<1>8. Trail(n, tr, w, body) /\ Moves(tr[n], t, body)
  <2>1. CASE script' = script
    BY <1>3, <1>4, <1>5, <1>6, <1>7, <2>1
  <2>2. CASE pc = "more"
    <3>1. Trail(n, tr, wanted, body)
      BY <1>5, <2>2, SameTrail
    <3>2. Moves(tr[n], t, script)
      BY <1>3, <1>5, <1>6
    <3>3. Moves(tr[n], t, body)
      BY <1>5, <2>2, <3>2, MovesElsewhere
    <3>. QED  BY <1>4, <1>7, <3>1, <3>3
  <2>. QED  BY <1>4, <2>1, <2>2
<1>. DEFINE long == [j \in 1 .. n + 1 |-> IF j = n + 1 THEN t ELSE tr[j]]
<1>9. Trail(n + 1, long, w, body) /\ long[n + 1] = t
  BY <1>8, LongerTrail
<1>. HIDE DEF long
<1>10. PICK l : Trail(n + 1, l, w, body) /\ l[n + 1] = t
  BY <1>9
<1>11. IsTrail(n + 1, l, x)'
  <2>1. Trail(n + 1, l, wanted', script') /\ l[n + 1] = Here(x)'
    BY <1>6, <1>7, <1>10, NextFields
  <2>. QED  BY <1>3, <2>1 DEF IsTrail, Ended
<1>12. n + 1 \in Nat \ {0}
  OBVIOUS
<1>. QED  BY <1>11, <1>12 DEF LeavesTrail

(* A recorded choice is the last of the nodes.                             *)
LEMMA RecordedNodes ==
  ASSUME NEW data, data.nodes \in Seq(Node), NEW a, NEW v, NEW c \in Constraints, NEW forced,
         Recorded(data, a, v, c, forced)
  PROVE  /\ Len(a.data.nodes) = Len(data.nodes) + 1
         /\ a.data.nodes[Len(data.nodes) + 1].value = v
<1>. DEFINE node == [value |-> v, constraints |-> c, was_forced |-> forced # {}]
<1>1. node \in Node /\ node.value = v
  BY DEF Recorded, Node, Constraints
<1>2. a.data.nodes = Append(data.nodes, node)
  BY DEF Recorded, Longer, Marked
<1>. HIDE DEF node
<1>. QED  BY <1>1, <1>2, AppendProperties

(* A step of the replay makes the move that the earlier example made.       *)
Retraces(t, nodes) == \E x : HereNext(x) = t /\ Replaying(cd', nodes)

LEMMA StepRetraces ==
  ASSUME IInv, Work, NEW b, NEW t, NEW u, Moves(Here(b), t, script),
         Behind(Here(b), u), Behind(t, u), Replaying(cd, u.data.nodes)
  PROVE  Retraces(t, u.data.nodes)
<1>. DEFINE s == Here(b)
            nodes == u.data.nodes
<1>1. s.data = Data(cd) /\ s.blocked = b
  BY HereFields
<1>2. PICK e : /\ IF Asking(s, script) THEN Asked(s, e) ELSE Silent(s, e)
               /\ Follows(s, e, t, script)
  BY DEF Moves
<1>3. t.data.nodes = e.data.nodes /\ t.blocked = (IF e.stop THEN TRUE ELSE s.blocked)
  <2>1. Follows(s, e, t, script)
    BY <1>2
  <2>. HIDE DEF s
  <2>. QED  BY <2>1, FollowsFacts, ZenonT(60) DEF Over
<1>4. /\ nodes \in Seq(Node) /\ s.data.nodes \in Seq(Node) /\ t.data.nodes \in Seq(Node)
      /\ Len(s.data.nodes) <= Len(nodes) /\ Len(t.data.nodes) <= Len(nodes)
      /\ \A i \in DOMAIN t.data.nodes : nodes[i] = t.data.nodes[i]
      /\ t.blocked = TRUE => nodes = t.data.nodes
  BY DEF Behind
<1>5. Stepped(b)
  BY StepMoves
<1>. HIDE DEF s
<1>6. CASE Asking(s, script)
  <2>. DEFINE c == ConstraintsOf(s)
              forced == ForcedOf(s)
  <2>1. PICK d : \E o \in DrawInner(d, c, TRUE, forced) :
         /\ DataOK(d) /\ SameView(cd, d) /\ Data(d) = Data(cd)
         /\ Follows(s, Answer(o), HereNext(IF o.stop THEN TRUE ELSE b), script)
         /\ SameView(o.cd, cd')
    BY <1>5, <1>6 DEF Stepped, s
  <2>2. PICK o \in DrawInner(d, c, TRUE, forced) :
         /\ DataOK(d) /\ SameView(cd, d) /\ Data(d) = Data(cd)
         /\ Follows(s, Answer(o), HereNext(IF o.stop THEN TRUE ELSE b), script)
         /\ SameView(o.cd, cd')
    BY <2>1
  <2>. DEFINE x == IF o.stop THEN TRUE ELSE b
              a == Answer(o)
  <2>3. /\ c \in Constraints /\ forced \in SUBSET ChoiceValues
        /\ \E w : forced \subseteq {w}
    BY ForcedFacts
  <2>4. Replaying(d, nodes) /\ d.nodes = s.data.nodes /\ Data(d) = s.data /\ DataOK(d)
    <3>1. Replaying(d, nodes)
      BY <2>2, ReplayingViews
    <3>2. Data(d).nodes = d.nodes
      BY DEF Data
    <3>. QED  BY <1>1, <2>2, <3>1, <3>2
  <2>5. \/ Refused(s.data, e)
        \/ \E v : Recorded(s.data, e, v, c, forced)
    BY <1>2, <1>6 DEF Asked
  <2>6. Follows(s, a, HereNext(x), script) /\ SameView(o.cd, cd')
    BY <2>2
  <2>. HIDE DEF c, forced, x, nodes
  <2>7. SUFFICES SameAnswer(s, a, e) /\ Replaying(o.cd, nodes)
    <3>1. ASSUME SameAnswer(s, a, e), Replaying(o.cd, nodes)
          PROVE  HereNext(x) = t /\ Replaying(cd', nodes)
      <4>1. HereNext(x) = t
        BY <1>2, <2>6, <3>1, OneFollows
      <4>. QED  BY <2>6, <3>1, <4>1, ReplayingViews
    <3>. QED  BY <3>1 DEF Retraces, nodes
  <2>8. CASE Len(s.data.nodes) = Len(nodes)
    <3>1. Refused(Data(d), a) /\ Replaying(o.cd, nodes)
      BY <2>4, <2>8, EndReplays
    <3>2. Refused(s.data, e)
      <4>1. ASSUME NEW v, Recorded(s.data, e, v, c, forced)
            PROVE  FALSE
        <5>1. Len(e.data.nodes) = Len(s.data.nodes) + 1
          BY <1>4, <2>3, <4>1, RecordedNodes
        <5>. QED  BY <1>3, <1>4, <2>8, <5>1
      <4>. QED  BY <2>5, <4>1
    <3>. HIDE DEF a
    <3>3. SameAnswer(s, a, e)
      BY <2>4, <3>1, <3>2 DEF Refused, SameAnswer
    <3>. QED  BY <3>1, <3>3
  <2>9. CASE Len(s.data.nodes) < Len(nodes)
    <3>1. ~Refused(s.data, e)
      <4>1. SUFFICES ASSUME Refused(s.data, e)  PROVE FALSE
        OBVIOUS
      <4>2. t.blocked = TRUE /\ e.data.nodes = s.data.nodes
        BY <1>3, <4>1 DEF Refused, Marked
      <4>. QED  BY <1>3, <1>4, <2>9, <4>2
    <3>2. PICK v : Recorded(s.data, e, v, c, forced)
      BY <2>5, <3>1
    <3>3. nodes[Len(d.nodes) + 1].value = v
      <4>1. /\ Len(e.data.nodes) = Len(s.data.nodes) + 1
            /\ e.data.nodes[Len(s.data.nodes) + 1].value = v
        BY <1>4, <2>3, <3>2, RecordedNodes
      <4>2. Len(s.data.nodes) + 1 \in DOMAIN t.data.nodes
        BY <1>3, <1>4, <4>1
      <4>. QED  BY <1>3, <1>4, <2>4, <4>1, <4>2
    <3>4. PICK w : forced \subseteq {w}
      BY <2>3
    <3>5. Recorded(Data(d), e, v, c, forced) /\ Len(d.nodes) < Len(nodes)
      BY <2>4, <2>9, <3>2
    <3>6. /\ a.stop = e.stop /\ a.data = e.data
          /\ e.stop = FALSE => a.value = e.value
          /\ Replaying(o.cd, nodes)
      BY <1>4, <2>3, <2>4, <3>3, <3>4, <3>5, ChoiceReplays, Zenon DEF nodes
    <3>. HIDE DEF a
    <3>. QED  BY <3>6 DEF SameAnswer
  <2>. QED  BY <1>4, <2>8, <2>9 DEF nodes
<1>7. CASE ~Asking(s, script)
  <2>1. PICK a : /\ Silent(s, a) /\ Follows(s, a, HereNext(b), script)
                 /\ SameView(cd, cd')
    BY <1>5, <1>7 DEF Stepped, s
  <2>2. SameAnswer(s, a, e)
    BY <1>2, <1>7, <2>1 DEF Silent, SameAnswer
  <2>3. HereNext(b) = t
    BY <1>2, <2>1, <2>2, OneFollows
  <2>4. Replaying(cd', nodes)
    BY <2>1, ReplayingViews
  <2>. QED  BY <2>3, <2>4 DEF Retraces
<1>. QED  BY <1>6, <1>7

LEMMA WorkFollows ==
  ASSUME IInv, Work, earlier # None, FollowsTrail
  PROVE  FollowsTrail'
<1>1. PICK n \in Nat \ {0} : \E tr, b : \E j \in 1 .. n : OnTrail(n, tr, j, b)
  BY DEF FollowsTrail
<1>2. PICK tr, b : \E j \in 1 .. n : OnTrail(n, tr, j, b)
  BY <1>1
<1>3. PICK j \in 1 .. n : OnTrail(n, tr, j, b)
  BY <1>2
<1>4. UNCHANGED <<wanted, earlier, script>> /\ ~Ended
  BY WorkFrame
<1>5. tr[j] = Here(b) /\ Trail(n, tr, wanted, script) /\ Over(tr[n])
  BY <1>3 DEF OnTrail
<1>6. j + 1 \in 1 .. n /\ j \in 1 .. n - 1
  <2>1. tr[j].pc = pc
    BY <1>5, HereFields
  <2>2. j # n
    BY <1>4, <1>5, <2>1 DEF Over, Ended
  <2>. QED  BY <2>2
<1>7. /\ Moves(Here(b), tr[j + 1], script) /\ Behind(Here(b), tr[n])
      /\ Behind(tr[j + 1], tr[n])
  BY <1>5, <1>6 DEF Trail
<1>8. Retraces(tr[j + 1], tr[n].data.nodes)
  BY <1>3, <1>7, StepRetraces DEF OnTrail
<1>9. PICK x : HereNext(x) = tr[j + 1] /\ Replaying(cd', tr[n].data.nodes)
  BY <1>8 DEF Retraces
<1>10. OnTrail(n, tr, j + 1, x)'
  BY <1>3, <1>4, <1>9, NextFields DEF OnTrail
<1>. QED  BY <1>6, <1>10 DEF FollowsTrail

-----------------------------------------------------------------------------
(* The first state of an example.                                          *)

LEMMA BuildViews ==
  ASSUME NEW prefix \in Seq(Entry), NEW n \in Nat \cup {None},
         \A i \in DOMAIN prefix : ~prefix[i].template => prefix[i].value \in ChoiceValues
  PROVE  LET d == Build(prefix, n)
         IN  /\ Data(d) = [nodes |-> <<>>, length |-> 0, status |-> VALID, frozen |-> FALSE]
             /\ d.max_length = BUFFER_SIZE /\ d.prefix = prefix /\ d.index = 0
             /\ d.max_choices = n /\ d.misaligned = FALSE
<1>. DEFINE d == [max_length |-> BUFFER_SIZE, max_choices |-> n,
                  length |-> 0, index |-> 0, status |-> VALID, frozen |-> FALSE,
                  depth |-> -1, max_depth |-> 0, has_discards |-> FALSE,
                  prefix |-> prefix, nodes |-> <<>>, misaligned |-> FALSE,
                  interesting_origin |-> None]
<1>1. BUFFER_SIZE \in Nat /\ VALID \in OVERRUN .. INTERESTING
  BY ExampleAssumption DEF VALID, OVERRUN, INTERESTING
<1>2. d \in ConjectureData
  BY <1>1 DEF ConjectureData
<1>3. DataOK(d)
  BY <1>2 DEF DataOK
<1>4. /\ Data(d) = [nodes |-> <<>>, length |-> 0, status |-> VALID, frozen |-> FALSE]
      /\ d.max_length = BUFFER_SIZE /\ d.prefix = prefix /\ d.index = 0
      /\ d.max_choices = n /\ d.misaligned = FALSE
  BY DEF Data
<1>5. Build(prefix, n) = StartSpan(d)
  BY DEF Build
<1>. HIDE DEF d
<1>6. SameView(d, StartSpan(d)) /\ Data(StartSpan(d)) = Data(d)
  BY <1>3, SpanViews
<1>. QED  BY <1>4, <1>5, <1>6 DEF SameView

LEMMA FirstTrail ==
  ASSUME NEW w, NEW body
  PROVE  \E tr : Trail(1, tr, w, body) /\ tr[1] = Begin(w)
<1>. DEFINE tr == [j \in {1} |-> Begin(w)]
<1>1. tr[1] = Begin(w)
  OBVIOUS
<1>. HIDE DEF tr
<1>2. Behind(Begin(w), Begin(w))
  <2>. DEFINE s == Begin(w)
  <2>1. s.data.nodes = <<>> /\ s.blocked = FALSE /\ s.pc = "arguments"
    BY DEF Begin, Core
  <2>2. <<>> \in Seq(Node) /\ Len(<<>>) = 0
    OBVIOUS
  <2>. HIDE DEF s
  <2>3. Behind(s, s)
    BY <2>1, <2>2 DEF Behind
  <2>. QED  BY <2>3 DEF s
<1>3. \A j \in 1 .. 1 : j = 1
  OBVIOUS
<1>4. 1 .. 1 - 1 = {}
  OBVIOUS
<1>5. Trail(1, tr, w, body)
  BY <1>1, <1>2, <1>3, <1>4 DEF Trail
<1>. QED  BY <1>1, <1>5

(* A new data starts a trail of its own.                                   *)
LEMMA FirstLeaves ==
  ASSUME cd.max_length = BUFFER_SIZE, Here(FALSE) = Begin(wanted)
  PROVE  LeavesTrail
<1>1. PICK w, body : w = wanted /\ body = script
  OBVIOUS
<1>2. PICK tr : Trail(1, tr, w, body) /\ tr[1] = Begin(w)
  BY FirstTrail
<1>3. IsTrail(1, tr, FALSE)
  BY <1>1, <1>2 DEF IsTrail
<1>4. 1 \in Nat \ {0}
  OBVIOUS
<1>. QED  BY <1>3, <1>4 DEF LeavesTrail

LEMMA InitLeaves ==
  ASSUME Init
  PROVE  LeavesTrail
<1>1. \A prefix \in Seq(Entry), n \in Nat \cup {None} :
        (\A i \in DOMAIN prefix : ~prefix[i].template => prefix[i].value \in ChoiceValues)
          => /\ Data(Build(prefix, n)) = [nodes |-> <<>>, length |-> 0, status |-> VALID, frozen |-> FALSE]
             /\ Build(prefix, n).max_length = BUFFER_SIZE
  BY BuildViews, ZenonT(60)
<1>2. /\ Data(cd) = [nodes |-> <<>>, length |-> 0, status |-> VALID, frozen |-> FALSE]
      /\ cd.max_length = BUFFER_SIZE
  <2>1. CASE cd = NewGenerate
    <3>1. <<>> \in Seq(Entry) /\ \A i \in DOMAIN <<>> : FALSE
      OBVIOUS
    <3>2. cd = Build(<<>>, None) /\ None \in Nat \cup {None}
      BY <2>1 DEF NewGenerate
    <3>. QED  BY <1>1, <3>1, <3>2
  <2>2. CASE cd = NewSimplest
    <3>1. Template(None) \in Entry /\ Template(None).template
      BY ExampleAssumption DEF Template, Entry
    <3>2. /\ <<Template(None)>> \in Seq(Entry)
          /\ \A i \in DOMAIN <<Template(None)>> : <<Template(None)>>[i].template
      BY <3>1
    <3>. QED  BY <1>1, <2>2, <3>2 DEF NewSimplest
  <2>3. CASE \E prefix \in Handed : cd = ForChoices(prefix)
    <3>1. PICK prefix \in Handed : cd = Build(prefix, PrefixChoiceCount(prefix))
      BY <2>3 DEF ForChoices
    <3>2. /\ prefix \in Seq(Entry) /\ PrefixChoiceCount(prefix) \in Nat \cup {None}
          /\ \A i \in DOMAIN prefix : ~prefix[i].template => prefix[i].value \in ChoiceValues
      BY ExampleAssumption DEF Entry
    <3>. QED  BY <1>1, <3>1, <3>2
  <2>. QED  BY <2>1, <2>2, <2>3 DEF Init, Starts
<1>3. Here(FALSE) = Begin(wanted)
  BY <1>2 DEF Init, Here, Begin, Core
<1>. QED  BY <1>2, <1>3, FirstLeaves

(* The replay starts at the first state of the trail.                      *)
LEMMA ReplayStarts ==
  ASSUME IInv, Replay
  PROVE  /\ Replaying(cd', cd.nodes) /\ cd'.max_length = BUFFER_SIZE
         /\ Here(FALSE)' = Begin(wanted)
<1>. DEFINE choices == ChoicesOf(cd)
            prefix  == [i \in DOMAIN choices |-> Replayed(choices[i])]
<1>1. cd.nodes \in Seq(Node)
  BY DEF IInv, TypeOK, DataOK, ConjectureData
<1>2. /\ prefix = [i \in DOMAIN cd.nodes |-> Replayed(cd.nodes[i].value)]
      /\ DOMAIN choices = DOMAIN cd.nodes
  BY <1>1 DEF ChoicesOf
<1>3. choices \in Seq(ChoiceValues) /\ Len(choices) = Len(cd.nodes)
  <2>1. choices = [i \in 1 .. Len(cd.nodes) |-> cd.nodes[i].value]
    BY <1>1 DEF ChoicesOf
  <2>2. \A i \in 1 .. Len(cd.nodes) : cd.nodes[i].value \in ChoiceValues
    <3>1. \A node \in Node : node.value \in ChoiceValues
      BY DEF Node
    <3>2. \A i \in 1 .. Len(cd.nodes) : cd.nodes[i] \in Node
      BY <1>1
    <3>. QED  BY <3>1, <3>2
  <2>. HIDE DEF choices
  <2>. QED  BY <1>1, <2>1, <2>2
<1>4. prefix \in Seq(Entry)
  <2>. HIDE DEF choices
  <2>1. prefix = [i \in 1 .. Len(choices) |-> Replayed(choices[i])]
    BY <1>3
  <2>2. \A i \in 1 .. Len(choices) : Replayed(choices[i]) \in Entry
    BY <1>3 DEF Replayed, Entry
  <2>. HIDE DEF prefix
  <2>. QED  BY <1>3, <2>1, <2>2
<1>5. \A i \in DOMAIN prefix : prefix[i].value \in ChoiceValues
  BY <1>3 DEF Replayed
<1>6. cd' = Build(prefix, Len(choices)) /\ Len(choices) \in Nat \cup {None}
  BY <1>3 DEF Replay, NewForChoices
<1>. HIDE DEF choices, prefix
<1>7. /\ Data(cd') = [nodes |-> <<>>, length |-> 0, status |-> VALID, frozen |-> FALSE]
      /\ cd'.max_length = BUFFER_SIZE /\ cd'.prefix = prefix /\ cd'.index = 0
      /\ cd'.max_choices = Len(choices) /\ cd'.misaligned = FALSE
  BY <1>4, <1>5, <1>6, BuildViews, ZenonT(60)
<1>8. cd'.nodes = <<>>
  BY <1>7 DEF Data
<1>9. Replaying(cd', cd.nodes)
  BY <1>2, <1>3, <1>7, <1>8 DEF Replaying
<1>10. Here(FALSE)' = Begin(wanted)
  BY <1>7 DEF Replay, Here, Begin, Core
<1>. QED  BY <1>7, <1>9, <1>10

LEMMA ReplayFollows ==
  ASSUME IInv, Replay, LeavesTrail
  PROVE  ReplayInv'
<1>1. /\ Replaying(cd', cd.nodes) /\ cd'.max_length = BUFFER_SIZE
      /\ Here(FALSE)' = Begin(wanted)
  BY ReplayStarts
<1>2. UNCHANGED <<wanted, script>> /\ Ended
  BY DEF Replay
<1>3. LeavesTrail'
  <2>1. PICK w, body : w = wanted' /\ body = script'
    OBVIOUS
  <2>2. PICK tr : Trail(1, tr, w, body) /\ tr[1] = Begin(w)
    BY FirstTrail
  <2>3. IsTrail(1, tr, FALSE)'
    BY <1>1, <1>2, <2>1, <2>2 DEF IsTrail
  <2>4. 1 \in Nat \ {0}
    OBVIOUS
  <2>. QED  BY <2>3, <2>4 DEF LeavesTrail
<1>4. FollowsTrail'
  <2>1. PICK n \in Nat \ {0} : \E tr, b : IsTrail(n, tr, b)
    BY DEF LeavesTrail
  <2>2. PICK tr, b : IsTrail(n, tr, b)
    BY <2>1
  <2>3. Trail(n, tr, wanted, script) /\ tr[n] = Here(b)
    BY <2>2 DEF IsTrail
  <2>4. /\ tr[n].pc = pc /\ tr[n].result = result /\ tr[n].outcome = outcome
        /\ tr[n].data.nodes = cd.nodes /\ tr[n].data.status = cd.status
    BY <2>3, HereFields DEF Data
  <2>5. tr[1] = Here(FALSE)' /\ 1 \in 1 .. n
    <3>1. tr[1] = Begin(wanted)
      BY <2>3 DEF Trail
    <3>2. tr[1] = Here(FALSE)'
      BY <1>1, <3>1, Zenon
    <3>. QED  BY <3>2
  <2>6. /\ earlier'.result = result /\ earlier'.outcome = outcome
        /\ earlier'.cd = cd
    BY DEF Replay
  <2>7. OnTrail(n, tr, 1, FALSE)'
    BY <1>1, <1>2, <2>3, <2>4, <2>5, <2>6 DEF OnTrail, Over, Ended
  <2>. QED  BY <2>5, <2>7 DEF FollowsTrail
<1>. QED  BY <1>3, <1>4 DEF ReplayInv

-----------------------------------------------------------------------------
(* The invariant of the replay is inductive.                               *)

LEMMA StepReplays == IInv /\ ReplayInv /\ [Next]_vars => ReplayInv'
<1>. SUFFICES ASSUME IInv, ReplayInv, [Next]_vars  PROVE ReplayInv'
  OBVIOUS
<1>1. CASE Work
  <2>1. earlier' = earlier
    BY <1>1, WorkFrame
  <2>. QED  BY <1>1, <2>1, WorkLeaves, WorkFollows DEF ReplayInv
<1>2. CASE Replay
  <2>1. LeavesTrail
    BY <1>2 DEF Replay, ReplayInv
  <2>. QED  BY <1>2, <2>1, ReplayFollows
<1>3. CASE UNCHANGED vars
  <2>1. UNCHANGED <<cd, wanted, many, result, pc, step, script, outcome, earlier>>
    BY <1>3 DEF vars
  <2>2. \A b : Here(b)' = Here(b)
    BY <2>1 DEF Here
  <2>3. \A n, tr, b : IsTrail(n, tr, b) => IsTrail(n, tr, b)'
    BY <2>1, <2>2 DEF IsTrail, Ended
  <2>4. \A n, tr, j, b : OnTrail(n, tr, j, b) => OnTrail(n, tr, j, b)'
    BY <2>1, <2>2 DEF OnTrail
  <2>. QED  BY <2>1, <2>3, <2>4 DEF ReplayInv, LeavesTrail, FollowsTrail
<1>. QED  BY <1>1, <1>2, <1>3 DEF Next, Work, Body

(* At its end the replay is at the end of the trail: nothing moves on from  *)
(* where the program ends.                                                 *)
LEMMA FollowedToTheEnd == ReplayInv => ReplayReproduces
<1>. SUFFICES ASSUME ReplayInv, Ended, earlier # None
              PROVE  /\ result = earlier.result /\ outcome = earlier.outcome
                     /\ cd.nodes = earlier.cd.nodes /\ cd.status = earlier.cd.status
                     /\ ~cd.misaligned
  BY DEF ReplayReproduces
<1>1. PICK n \in Nat \ {0} : \E tr, b : \E j \in 1 .. n : OnTrail(n, tr, j, b)
  BY DEF ReplayInv, FollowsTrail
<1>2. PICK tr, b : \E j \in 1 .. n : OnTrail(n, tr, j, b)
  BY <1>1
<1>3. PICK j \in 1 .. n : OnTrail(n, tr, j, b)
  BY <1>2
<1>4. /\ tr[j].pc = pc /\ tr[j].result = result /\ tr[j].outcome = outcome
      /\ tr[j].data.nodes = cd.nodes /\ tr[j].data.status = cd.status
  BY <1>3, HereFields DEF OnTrail, Data
<1>5. Over(tr[j])
  BY <1>4 DEF Over, Ended
<1>6. j = n
  <2>1. SUFFICES ASSUME j \in 1 .. n - 1  PROVE FALSE
    OBVIOUS
  <2>2. Moves(tr[j], tr[j + 1], script)
    BY <1>3, <2>1 DEF OnTrail, Trail
  <2>3. PICK a : Follows(tr[j], a, tr[j + 1], script)
    BY <2>2 DEF Moves
  <2>. QED  BY <1>5, <2>3, FollowsFacts
<1>. QED  BY <1>3, <1>4, <1>6 DEF OnTrail, Replaying

LEMMA ReplayInvariant == Spec => []ReplayInv
<1>1. Init => ReplayInv
  BY InitLeaves DEF ReplayInv, Init
<1>. QED  BY <1>1, StepReplays, InvariantHolds, PTL DEF Spec

(* The recorded choices reproduce the example, whatever the provider drew,  *)
(* the body did and the prefix of the first example was: the same list, the *)
(* same outcome and status, the same nodes, and no misalignment.            *)
THEOREM ReplaysReproduce == Spec => []ReplayReproduces
BY ReplayInvariant, FollowedToTheEnd, PTL

=============================================================================
