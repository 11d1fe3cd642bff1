------------------------------- MODULE Strategies -------------------------------
(* draw.rs: drawing a value from a strategy node, with the choices of Data and *)
(* the collections of Many. Drawn gives every outcome; an InvalidArgument, or  *)
(* what drawing from something that is no strategy raises, stops the draw      *)
(* without marking the data. env tells a foreign draw (of a                    *)
(* native node with the ConjectureData of hypothesis itself, whose draws are   *)
(* taken to be those of Data) and the depth of deferred strategies.            *)
(* The functions of the user, and what their values are, come in as constants. *)
EXTENDS Rewriting

CONSTANTS Apply(_, _),          \* what a mapped function or a builds target returns
          Holds(_, _),          \* whether a value passes a predicate
          Expand(_, _),         \* the strategy a flatmap makes of a value
          KeyOf(_, _),          \* what a key function of unique_by returns
          FILTER_TRIES,         \* 51: the draws a filter makes before it gives up
          FOREIGN_TRIES,        \* 3: the same for a foreign draw
          FILTER_CALLS,         \* 9997: the elements a filtered sample looks at
          MATERIALISED,         \* 1000000: the longest range that is made a list of
          DEFERRED_DRAW_LIMIT,
          MAX_UUID, MAX_V4, MAX_V6

SAMPLE_TRIES == 3

Native  == [foreign |-> FALSE, depth |-> 0]
Foreign == [foreign |-> TRUE, depth |-> 0]

\* The dictionary of the data also keeps the values of shared strategies.
Fresh(cd) == cd @@ [shared |-> {}]

RECURSIVE Drawn(_, _, _)

--------------------------------------------------------------------------------
(* Outcomes in sequence. *)

Then(outcomes, F(_)) == UNION {IF o.stop THEN {o} ELSE F(o) : o \in outcomes}

Yield(outcomes, F(_)) == {IF o.stop THEN o ELSE Got(o.cd, F(o.value)) : o \in outcomes}

InvalidArgument == <<"InvalidArgument">>
Raised(cd)      == [cd |-> cd, stop |-> TRUE, value |-> InvalidArgument]
Rejection(cd)   == Stopped(cd, INVALID)

\* The values of F in sequence, one for each of s.
Each(s, cd, F(_, _)) ==
    FoldLeft(LAMBDA outcomes, e :
                Then(outcomes, LAMBDA o : Yield(F(e, o.cd), LAMBDA v : Append(o.value, v))),
             {Got(cd, <<>>)}, s)

--------------------------------------------------------------------------------
(* Children. *)

\* ConjectureData.draw: in a span, which a stop closes too.
DataDraw(node, cd, env) ==
    {[o EXCEPT !.cd = StopSpan(@, FALSE)] :
        o \in Drawn(IF node.kind = "subclass" THEN node.inner ELSE node, StartSpan(cd), env)}

\* The node of a subclass is a placeholder: it draws through the data.
Child(node, cd, env) ==
    IF node.kind = "subclass" THEN DataDraw(node, cd, env) ELSE Drawn(node, cd, env)

Children(nodes, cd, env) == Each(nodes, cd, LAMBDA node, d : Child(node, d, env))

--------------------------------------------------------------------------------
(* Single choices. *)

IntC(min, max, towards) == [type |-> "int", min |-> min, max |-> max, towards |-> towards]
TextC(letters, min, max) == [type |-> "text", letters |-> letters, min |-> min, max |-> max]
BytesC(min, max) == [type |-> "bytes", min |-> min, max |-> max]

MILLENNIUM_ORDINAL == 730120

DrawInt(cd, min, max) == Draw(cd, IntC(min, max, 0))
Flip(cd) == Draw(cd, ContinueC)

\* Mutant: the index is drawn without being recorded.
DrawIndexUnseen(cd, n) == DrawInner(cd, IntC(0, n - 1, 0), FALSE, {})

DrawIndex(cd, n) == DrawInt(cd, 0, n - 1)

DrawIntegers(node, cd) == DrawInt(cd, node.min, node.max)

DrawSampled(node, cd) ==
    IF node.elements = <<>> THEN {Rejection(cd)}
    ELSE Yield(DrawIndex(cd, Len(node.elements)), LAMBDA i : node.elements[i[2] + 1])

RangeElement(node, i) == <<"int", node.start + i * node.step>>

DrawRange(node, cd) ==
    IF node.len <= 0 THEN {Rejection(cd)}
    ELSE Yield(DrawIndex(cd, node.len), LAMBDA i : RangeElement(node, i[2]))

DrawOneOf(node, cd, env) ==
    IF node.children = <<>> THEN {Rejection(cd)}
    ELSE Then(DrawIndex(cd, Len(node.children)),
              LAMBDA i : Child(node.children[i.value[2] + 1], i.cd, env))

DrawTuples(node, cd, env) ==
    Yield(Children(node.children, cd, env), LAMBDA vs : <<"tuple", vs>>)

DrawText(node, cd)       == Draw(cd, TextC(node.letters, node.min, node.max))
DrawCharacters(node, cd) == Draw(cd, TextC(node.letters, 1, 1))
DrawBinary(node, cd)     == Draw(cd, BytesC(node.min, node.max))

--------------------------------------------------------------------------------
(* Collections. *)

RECURSIVE Gather(_, _, _, _, _, _)

WithoutReplacement(node) == node.kind = "lists" /\ node.domain # None

\* Vec::swap_remove: the last element takes the place of the removed one.
SwapRemove(s, i) == Front([s EXCEPT ![i] = s[Len(s)]])

\* The next item, and what is left of the domain.
DrawItem(node, left, cd, env) ==
    CASE WithoutReplacement(node) ->
            Yield(DrawIndex(cd, Len(left)),
                  LAMBDA j : [item |-> left[j[2] + 1], left |-> SwapRemove(left, j[2] + 1)])
      [] node.kind = "dictionaries" ->
            Yield(Children(<<node.keys, node.values>>, cd, env),
                  LAMBDA kv : [item |-> kv, left |-> left])
      [] OTHER -> Yield(Child(node.elem, cd, env), LAMBDA v : [item |-> v, left |-> left])

Collides(node, items, item) ==
    LET Same(key) == \E i \in DOMAIN items : KeyOf(key, items[i]) = KeyOf(key, item)
    IN  CASE node.kind = "sets" \/ WithoutReplacement(node) -> \E i \in DOMAIN items : items[i] = item
          [] node.kind = "dictionaries" -> \E i \in DOMAIN items : items[i][1] = item[1]
          [] OTHER -> \E k \in DOMAIN node.keys : Same(node.keys[k])

\* An exhausted domain ends the list without another boolean.
Gather(node, many, items, left, cd, env) ==
    LET Place(drawn) ==
            LET item     == drawn.value.item
                rejected == Rejected(Counted(many))
            IN  IF ~Collides(node, items, item)
                THEN Gather(node, Counted(many), Append(items, item), drawn.value.left, drawn.cd, env)
                ELSE IF Hopeless(rejected) THEN {Rejection(drawn.cd)}
                ELSE Gather(node, Settled(rejected), items, drawn.value.left, drawn.cd, env)
    IN  IF WithoutReplacement(node) /\ left = <<>> THEN {Got(cd, items)}
        ELSE Then(MoreOutcomes(many, cd), LAMBDA more :
                IF more.value = True THEN Then(DrawItem(node, left, more.cd, env), Place)
                ELSE {Got(more.cd, items)})

Collected(node, items) ==
    CASE node.kind = "lists"        -> <<"list", items>>
      [] node.kind = "sets"         -> <<IF node.frozen THEN "frozenset" ELSE "set", ToSet(items)>>
      [] node.kind = "dictionaries" -> <<"dict", ToSet(items)>>

DrawCollection(node, cd, env) ==
    Yield(Gather(node, NewMany(node.min, node.max), <<>>,
                 IF WithoutReplacement(node) THEN node.domain ELSE <<>>, cd, env),
          LAMBDA items : Collected(node, items))

DrawFixed(node, cd, env) ==
    Yield(Children([i \in DOMAIN node.items |-> node.items[i][2]], cd, env),
          LAMBDA vs : <<"dict", {<<node.items[i][1], vs[i]>> : i \in DOMAIN vs}>>)

\* Fisher-Yates.
DrawPermutation(node, cd) ==
    LET n == Len(node.values)
        Swap(s, i, j) == [s EXCEPT ![i] = s[j], ![j] = s[i]]
    IN  FoldLeft(LAMBDA outcomes, i :
                    Then(outcomes, LAMBDA o :
                        Yield(DrawInt(o.cd, i - 1, n - 1), LAMBDA j : Swap(o.value, i, j[2] + 1))),
                 {Got(cd, node.values)}, [i \in 1 .. n - 1 |-> i])

--------------------------------------------------------------------------------
(* Functions of the user: map, builds, composite, flatmap and filter. *)

DrawMapped(node, cd, env) ==
    Yield(Child(node.base, cd, env), LAMBDA v : Apply(node.func, v))

DrawBuilds(node, cd, env) ==
    Yield(Children(node.args, cd, env), LAMBDA vs : Apply(node.target, <<"tuple", vs>>))

\* The body of the function: here it draws parts with the draw it is given.
DrawComposite(node, cd, env) ==
    Yield(Each(node.parts, cd, LAMBDA part, d : DataDraw(part, d, env)), LAMBDA vs : <<"tuple", vs>>)

DrawFlatmapped(node, cd, env) ==
    Then(Child(node.base, cd, env), LAMBDA o :
        LET strat == Expand(node.func, o.value)
        IN  IF strat = NotStrategy THEN {Raised(o.cd)} ELSE Child(strat, o.cd, env))

RECURSIVE FilterTries(_, _, _, _), FilterTriesLast(_, _, _, _)

\* Mutant: the value of the last try is returned whatever it is.
FilterTriesLast(node, left, cd, env) ==
    Then(Child(node.base, cd, env), LAMBDA o :
        IF Holds(node.cond, o.value) \/ (env.foreign /\ left = 1) THEN {o}
        ELSE LET noted == IF env.foreign THEN o.cd ELSE NoteDiscard(o.cd)
             IN  IF left = 1 THEN {Rejection(noted)}
                 ELSE FilterTriesLast(node, left - 1, noted, env))

\* left: the tries that are left. Only a native rejection notes a discard.
FilterTries(node, left, cd, env) ==
    Then(Child(node.base, cd, env), LAMBDA o :
        IF Holds(node.cond, o.value) THEN {o}
        ELSE LET noted == IF env.foreign THEN o.cd ELSE NoteDiscard(o.cd)
             IN  IF left = 1 THEN {Rejection(noted)}
                 ELSE FilterTries(node, left - 1, noted, env))

\* The elements of a sample that is filtered by index; None for other nodes.
SampledElements(node) ==
    CASE node.kind = "sampled" /\ node.elements # <<>> -> node.elements
      [] node.kind = "range" /\ node.len \in 1 .. MATERIALISED ->
            [i \in 1 .. node.len |-> RangeElement(node, i - 1)]
      [] OTHER -> None

\* Of the elements not known to be bad: the speculative-th, or one of those there
\* are when there are not as many.
Speculate(elements, cond, bad, cd) ==
    LET n       == Len(elements)
        Bounded(k) == MinOf(k, FILTER_CALLS)
        allowed == SelectSeq([i \in 1 .. Bounded(n) |-> i],
                             LAMBDA i : i \notin bad /\ Holds(cond, elements[i]))
        Nth(k)  == elements[allowed[k + 1]]
    IN  IF Cardinality(bad) = n THEN {Rejection(cd)}
        ELSE Then(DrawIndex(cd, Bounded(n - Cardinality(bad))), LAMBDA s :
                CASE s.value[2] < Len(allowed) -> {Got(s.cd, Nth(s.value[2]))}
                  [] allowed = <<>> -> {Rejection(s.cd)}
                  [] OTHER -> Yield(DrawIndex(s.cd, Len(allowed)), LAMBDA j : Nth(j[2])))

RECURSIVE SampleTries(_, _, _, _, _)

SampleTries(elements, cond, left, bad, cd) ==
    IF left = 0 THEN Speculate(elements, cond, bad, cd)
    ELSE Then(DrawIndex(cd, Len(elements)), LAMBDA o :
            LET i == o.value[2] + 1
            IN  CASE i \in bad -> SampleTries(elements, cond, left - 1, bad, o.cd)
                  [] i \notin bad /\ Holds(cond, elements[i]) -> {Got(o.cd, elements[i])}
                  [] OTHER -> SampleTries(elements, cond, left - 1, bad \cup {i}, NoteDiscard(o.cd)))

DrawFiltered(node, cd, env) ==
    CASE env.foreign -> FilterTries(node, FOREIGN_TRIES, cd, env)
      [] ~env.foreign /\ SampledElements(node.base) # None ->
            SampleTries(SampledElements(node.base), node.cond, SAMPLE_TRIES, {}, cd)
      [] OTHER -> FilterTries(node, FILTER_TRIES, cd, env)

--------------------------------------------------------------------------------
(* deferred and shared. *)

\* The definition's own node is drawn, also that of a subclass.
DrawDeferred(node, cd, env) ==
    LET definition == Definition(node.thunk)
    IN  IF definition = NotStrategy \/ definition = node THEN {Raised(cd)}
        ELSE IF env.depth >= DEFERRED_DRAW_LIMIT THEN {Rejection(cd)}
        ELSE Drawn(definition, cd, [env EXCEPT !.depth = @ + 1])

\* A foreign draw keeps nothing.
DrawShared(node, cd, env) ==
    LET known == {kv[2] : kv \in {kv \in cd.shared : kv[1] = node.key}}
        Keep(o) == {Got([o.cd EXCEPT !.shared = @ \cup {<<node.key, o.value>>}], o.value)}
    IN  CASE env.foreign -> Child(node.base, cd, env)
          [] ~env.foreign /\ known # {} -> {Got(cd, v) : v \in known}
          [] OTHER -> Then(Child(node.base, cd, env), Keep)

--------------------------------------------------------------------------------
(* Values made of several choices. *)

\* A version takes the place of some bits: here, of the number modulo 6.
DrawUuid(node, cd) ==
    Yield(DrawInt(cd, IF node.allow_nil THEN 0 ELSE 1, MAX_UUID),
          LAMBDA n : <<"uuid", IF node.version = None THEN n[2]
                               ELSE 6 * (n[2] \div 6) + node.version>>)

DrawDate(node, cd) ==
    Yield(Draw(cd, IntC(node.min, node.max, MILLENNIUM_ORDINAL)), LAMBDA n : <<"date", n[2]>>)

\* The fold that is drawn last makes no difference to the value here.
DrawTime(node, cd) ==
    Yield(Each(<<IntC(node.min, node.max, 0), ContinueC>>, cd, LAMBDA c, d : Draw(d, c)),
          LAMBDA us : <<"time", us[1][2]>>)

DrawDatetime(node, cd) ==
    Yield(Each(<<IntC(node.min, node.max, MILLENNIUM_ORDINAL), IntC(0, US_PER_DAY - 1, 0), ContinueC>>,
               cd, LAMBDA c, d : Draw(d, c)),
          LAMBDA us : <<"datetime", us[1][2] * US_PER_DAY + us[2][2]>>)

\* Whole days first, then the microseconds within the day.
DrawTimedelta(node, cd) ==
    LET min_days == node.min \div US_PER_DAY
        max_days == node.max \div US_PER_DAY
        Within(o) ==
            LET days == o.value[2]
                lo == IF days = min_days THEN node.min % US_PER_DAY ELSE 0
                hi == IF days = max_days THEN node.max % US_PER_DAY ELSE US_PER_DAY - 1
                Delta(us) == <<"timedelta", days * US_PER_DAY + us>>
            IN  IF lo > hi THEN {Got(o.cd, Delta(0))}
                ELSE Yield(DrawInt(o.cd, lo, hi), LAMBDA us : Delta(us[2]))
    IN  Then(DrawInt(cd, min_days, max_days), Within)

DrawIp(node, cd) ==
    Then(IF node.v6 = None THEN Flip(cd) ELSE {Got(cd, IF node.v6 THEN True ELSE False)}, LAMBDA o :
        LET v6 == o.value = True
            lo == IF node.net = None THEN 0 ELSE node.net.lo
            hi == IF node.net # None THEN node.net.hi ELSE IF v6 THEN MAX_V6 ELSE MAX_V4
        IN  Yield(DrawInt(o.cd, lo, hi), LAMBDA n : <<"ip", v6, n[2]>>))

\* None, or an integer of 0 .. hi.
DrawOptional(cd, hi) ==
    Then(Flip(cd), LAMBDA o : IF o.value = True THEN {Got(o.cd, None)}
                              ELSE Yield(DrawInt(o.cd, 0, hi), LAMBDA n : n[2]))

OrZero(n) == IF n = None THEN 0 ELSE n

\* The longest step, from the ends that are given.
MaxStep(size, start, stop) ==
    CASE start = None /\ stop = None -> size
      [] start = None /\ stop # None -> stop
      [] start # None /\ stop = None -> start
      [] OTHER -> MaxOf(start - stop, stop - start)

SliceOf(size, start, stop, step, flips) ==
    LET reversed == (flips[1] /\ start = stop) \/ OrZero(stop) < OrZero(start)
        signed   == IF reversed THEN -step ELSE step
        FromEnd(n, flip) == IF flip /\ n # None THEN n - size ELSE n
    IN  <<"slice", FromEnd(start, flips[2]), FromEnd(stop, flips[3]),
          IF ~flips[4] /\ signed = 1 THEN None ELSE signed>>

DrawEmptySlice(cd) ==
    Then(Flip(cd), LAMBDA o :
        IF o.value = True
        THEN Yield(DrawInt(o.cd, None, None),
                   LAMBDA n : <<"slice", None, None, IF n[2] = 0 THEN 1 ELSE n[2]>>)
        ELSE {Got(o.cd, <<"slice", None, None, None>>)})

DrawSlice(node, cd) ==
    LET FlipsFor(start, stop, o) ==
            Yield(Each(<<ContinueC, ContinueC, ContinueC, ContinueC>>, o.cd, LAMBDA c, d : Draw(d, c)),
                  LAMBDA flips : SliceOf(node.size, start, stop, o.value[2],
                                         [i \in DOMAIN flips |-> flips[i] = True]))
    IN  IF node.size = 0 THEN DrawEmptySlice(cd)
        ELSE Then(DrawOptional(cd, node.size - 1), LAMBDA start :
             Then(DrawOptional(start.cd, node.size), LAMBDA stop :
             Then(DrawInt(stop.cd, 1, MaxOf(MaxStep(node.size, start.value, stop.value), 1)),
                  LAMBDA step : FlipsFor(start.value, stop.value, step))))

Reduced(n, d) == LET g == Max({k \in 1 .. d : n % k = 0 /\ d % k = 0})
                 IN  <<"fraction", n \div g, d \div g>>

\* The denominator first, then a numerator within the bounds.
DrawFraction(node, cd) ==
    LET Numerator(o) ==
            LET d  == o.value[2]
                lo == IF node.min = None THEN None ELSE -((-node.min[1] * d) \div node.min[2])
                hi == IF node.max = None THEN None ELSE (node.max[1] * d) \div node.max[2]
            IN  IF lo # None /\ hi # None /\ lo > hi THEN {Rejection(o.cd)}
                ELSE Yield(DrawInt(o.cd, lo, hi), LAMBDA n : Reduced(n[2], d))
    IN  Then(DrawInt(cd, 1, node.max_denom), Numerator)

--------------------------------------------------------------------------------
(* draw_node, and draw_node_foreign for the kinds it knows. *)

ForeignKinds == {"none", "just", "nothing", "integers", "booleans", "sampled", "range", "one_of",
                 "tuples", "map", "filter", "shared", "binary", "text", "lists", "sets",
                 "dictionaries", "composite", "subclass"}

Drawn(node, cd, env) ==
    IF env.foreign /\ node.kind \notin ForeignKinds THEN {Raised(cd)}
    ELSE
    CASE node.kind \in {"none", "subclass"} -> {Got(cd, <<"None">>)}
      [] node.kind = "just"        -> {Got(cd, node.value)}
      [] node.kind = "nothing"     -> {Rejection(cd)}
      [] node.kind = "integers"    -> DrawIntegers(node, cd)
      [] node.kind = "booleans"    -> Flip(cd)
      [] node.kind = "sampled"     -> DrawSampled(node, cd)
      [] node.kind = "range"       -> DrawRange(node, cd)
      [] node.kind = "one_of"      -> DrawOneOf(node, cd, env)
      [] node.kind = "tuples"      -> DrawTuples(node, cd, env)
      [] node.kind \in {"lists", "sets", "dictionaries"} -> DrawCollection(node, cd, env)
      [] node.kind = "fixed" -> DrawFixed(node, cd, env)
      [] node.kind = "text"        -> DrawText(node, cd)
      [] node.kind = "binary"      -> DrawBinary(node, cd)
      [] node.kind = "map"         -> DrawMapped(node, cd, env)
      [] node.kind = "filter"      -> DrawFiltered(node, cd, env)
      [] node.kind = "composite"   -> DrawComposite(node, cd, env)
      [] node.kind = "shared"      -> DrawShared(node, cd, env)
      [] node.kind = "characters" -> DrawCharacters(node, cd)
      [] node.kind = "builds" -> DrawBuilds(node, cd, env)
      [] node.kind = "flatmap" -> DrawFlatmapped(node, cd, env)
      [] node.kind = "deferred" -> DrawDeferred(node, cd, env)
      [] node.kind = "permutations" ->
            Yield(DrawPermutation(node, cd), LAMBDA s : <<"list", s>>)
      [] node.kind = "uuids" -> DrawUuid(node, cd)
      [] node.kind = "dates" -> DrawDate(node, cd)
      [] node.kind = "times" -> DrawTime(node, cd)
      [] node.kind = "datetimes" -> DrawDatetime(node, cd)
      [] node.kind = "timedeltas" -> DrawTimedelta(node, cd)
      [] node.kind = "ip" -> DrawIp(node, cd)
      [] node.kind = "slices" -> DrawSlice(node, cd)
      [] node.kind = "fractions" -> DrawFraction(node, cd)
      [] node.kind \in {"invalid", "not_strategy"} -> {Raised(cd)}

================================================================================
