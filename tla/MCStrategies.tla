------------------------------ MODULE MCStrategies ------------------------------
(* A strategy is asked for, filtered once or twice, perhaps flattened, drawn   *)
(* and replayed, with the data of the engine or with that of hypothesis. What  *)
(* was asked for is a request [op, args, p]: Made builds its node with the     *)
(* constructors, Meant is the set of the values it promises.                   *)
EXTENDS Strategies

CONSTANTS Corpus,       \* the requests a behaviour starts from
          MAX_FILTERS,  \* the filters put on a request
          DRAWN_FILTERS, \* and those on a request that is drawn step by step
          FILTERABLE,   \* the outcomes of a strategy that filters are put on
          WIDEST        \* integers without bounds range over -WIDEST .. WIDEST

VARIABLES request,  \* what was asked for, filters included
          node,     \* the strategy at hand
          phase,    \* "asked", "drawn", "replayed"
          drawn,    \* the outcome of the draw
          replayed  \* the outcome of the replay

vars == <<request, node, phase, drawn, replayed>>

--------------------------------------------------------------------------------
(* Choices. *)

BoolC == [type |-> "bool"]
Yes == <<"bool", TRUE>>
No  == <<"bool", FALSE>>

Within(n, min, max) == (min # None => n >= min) /\ (max # None => n <= max)

Sequences_(S, min, max) == UNION {[1 .. k -> S] : k \in min .. max}

PermitsV(v, c) ==
    CASE c.type = "bool" -> v \in {Yes, No}
      [] c.type = "int"  -> v[1] = "int" /\ Within(v[2], c.min, c.max)
      [] c.type \in {"text", "bytes"} -> v[1] = c.type /\ Len(v[2]) \in c.min .. c.max

Integers_In(min, max) == (IF min = None THEN -WIDEST ELSE min) .. (IF max = None THEN WIDEST ELSE max)

SamplesOf(c) ==
    CASE c.type = "bool"  -> {Yes, No}
      [] c.type = "int"   -> {<<"int", n>> : n \in Integers_In(c.min, c.max)}
      [] c.type = "text"  -> {<<"text", s>> : s \in Sequences_(1 .. c.letters, c.min, c.max)}
      [] c.type = "bytes" -> {<<"bytes", s>> : s \in Sequences_(0 .. 1, c.min, c.max)}

SimplestOf(c) ==
    CASE c.type = "bool" -> {No}
      [] c.type = "int"  -> {<<"int", IF Within(0, c.min, c.max) THEN 0
                                      ELSE IF c.min # None /\ c.min > 0 THEN c.min ELSE c.max>>}
      [] c.type = "text"  -> {<<"text", [i \in 1 .. c.min |-> 1]>>}
      [] c.type = "bytes" -> {<<"bytes", [i \in 1 .. c.min |-> 0]>>}

OneByte(v) == 1

--------------------------------------------------------------------------------
(* Functions of the user. *)

SizeOfValue(v) == IF v[1] \in {"set", "frozenset", "dict"} THEN Cardinality(v[2]) ELSE Len(v[2])

Sized_ == {"text", "bytes", "list", "set", "frozenset", "dict", "tuple"}

HoldsOf(cond, v) ==
    CASE cond.about = "value" -> Within(v[2], cond.min, cond.max) /\ (cond.rest => v[2] % 2 = 0)
      [] cond.about = "isfinite" -> TRUE
      [] cond.about = "isinf" -> FALSE
      [] cond.about = "len" -> LET n == SizeOfValue(v)
                               IN  Within(n, cond.min, cond.max) /\ (cond.rest => n % 2 = 0)
      [] cond.about = "nonempty" -> SizeOfValue(v) > 0
      [] cond.about = "content" -> v[2] # <<>> /\ \A i \in DOMAIN v[2] : v[2][i] = 1
      [] cond.about = "lt" -> cond.arg < v[2]
      [] cond.about = "le" -> cond.arg <= v[2]
      [] cond.about = "eq" -> cond.arg = v[2]
      [] cond.about = "ge" -> cond.arg >= v[2]
      [] cond.about = "gt" -> cond.arg > v[2]
      [] cond.about = "truth" -> v \notin {<<"int", 0>>, No, <<"None">>}
      [] cond.about = "never" -> FALSE

ApplyOf(func, v) ==
    CASE func = "set"  -> <<"set", ToSet(v[2])>>
      [] func = "list" -> v
      [] func = "pair" -> <<"tuple", <<v, v>>>>

KeyOfValue(key, v) ==
    CASE key = "identity" -> v
      [] key = "parity" -> v[2] % 2
      [] key = "half" -> v[2] \div 2

--------------------------------------------------------------------------------
(* Requests. *)

R(op, args, p) == [op |-> op, args |-> args, p |-> p]
Leaf(op, p)    == R(op, <<>>, p)

Ints(min, max) == Leaf("integers", <<min, max>>)
Bools == Leaf("booleans", <<>>)

\* flatmap: what the function makes of a value.
Expansion(func, v) ==
    CASE func = "upto"   -> Ints(0, v[2])
      [] func = "listed" -> R("lists", <<Bools>>, <<v[2], v[2], FALSE, <<>>>>)

RECURSIVE Made(_)

Made(r) ==
    LET A == [i \in DOMAIN r.args |-> Made(r.args[i])]
        p == r.p
    IN  CASE r.op = "integers"  -> Integers_(p[1], p[2])
          [] r.op = "booleans"  -> Booleans
          [] r.op = "none"      -> NoneNode
          [] r.op = "just"      -> Just(p)
          [] r.op = "nothing"   -> Nothing
          [] r.op = "sampled"   -> SampledFrom(p)
          [] r.op = "range"     -> SampledFromRange(p[1], p[2], p[3])
          [] r.op = "text"      -> Text(p[1], p[2], p[3])
          [] r.op = "binary"    -> Binary(p[1], p[2])
          [] r.op = "characters" -> Characters(p)
          [] r.op = "uuids"     -> Uuids(p[1], p[2])
          [] r.op = "dates"     -> Dates(p[1], p[2])
          [] r.op = "times"     -> Times(p[1], p[2])
          [] r.op = "datetimes" -> Datetimes(p[1], p[2])
          [] r.op = "timedeltas" -> Timedeltas(p[1], p[2])
          [] r.op = "ip"        -> IpAddresses(p[1], p[2])
          [] r.op = "slices"    -> Slices(p)
          [] r.op = "fractions" -> Fractions(p[1], p[2], p[3])
          [] r.op = "permutations" -> Permuted(p)
          [] r.op = "deferred"  -> Deferred(p)
          [] r.op = "subclass"  -> Subclass(A[1])
          [] r.op = "tuples"    -> Tuples(A)
          [] r.op = "one_of"    -> OneOf(A)
          [] r.op = "or"        -> Or(A[1], A[2])
          [] r.op = "lists"     -> Lists(A[1], p[1], p[2], p[3], p[4])
          [] r.op = "sets"      -> Sets(A[1], p[1], p[2], p[3])
          [] r.op = "dictionaries" -> Dictionaries(A[1], A[2], p[1], p[2])
          [] r.op = "fixed"     -> FixedDictionaries([i \in DOMAIN A |-> <<i, A[i]>>], <<>>)
          [] r.op = "map"       -> Mapped(A[1], p)
          [] r.op = "flatmap"   -> Flatmapped(A[1], p)
          [] r.op = "builds"    -> Builds("pair", A)
          [] r.op = "other"     -> NotStrategy
          [] r.op = "composite" -> Composite(A)
          [] r.op = "twins"     -> Tuples(<<Shared(A[1], p), Shared(A[1], p)>>)
          [] r.op = "recursive" -> Recursive(A[1], LAMBDA s : Tuples(<<s>>), p)
          [] r.op = "filter"    -> Filtered(A[1], p)

DefinitionOf(thunk) ==
    CASE thunk = "tree"   -> OneOf(<<Booleans, Tuples(<<Deferred("tree"), Deferred("leaf")>>)>>)
      [] thunk = "leaf"   -> Just(<<"int", 0>>)
      [] thunk = "void"   -> Tuples(<<Booleans, Deferred("void")>>)
      [] thunk = "itself" -> Deferred("itself")
      [] thunk = "other"  -> NotStrategy

ExpandOf(func, v) == IF func = "other" THEN NotStrategy ELSE Made(Expansion(func, v))

--------------------------------------------------------------------------------
(* What a request promises, as a set of values. A deferred strategy promises   *)
(* the values that nest less than fuel deep.                                   *)

Default(max) == IF max = None THEN DEFAULT_MAX_SIZE ELSE max

Distinct(s, keys) ==
    \A k \in DOMAIN keys : \A i, j \in DOMAIN s : KeyOfValue(keys[k], s[i]) = KeyOfValue(keys[k], s[j]) => i = j

Tagged(tag, S) == {<<tag, x>> : x \in S}

\* One element of each of the sets.
Product(sets) == {s \in [DOMAIN sets -> UNION Range(sets)] : \A i \in DOMAIN sets : s[i] \in sets[i]}

\* Indices that select from a sequence of this size, and a step.
SlicePromise(size) ==
    LET Index(hi) == {None} \cup (-size .. hi)
        Steps == {None} \cup ((-WIDEST .. WIDEST) \ {0})
    IN  {<<"slice">> \o s : s \in Index(size - 1) \X Index(size) \X Steps}

RECURSIVE Meant(_, _), Nested(_, _)

MeantThunk(thunk, fuel) ==
    CASE thunk = "tree" /\ fuel > 0 ->
            {Yes, No} \cup {<<"tuple", <<v, <<"int", 0>>>>>> : v \in Meant(Leaf("deferred", "tree"), fuel - 1)}
      [] thunk = "leaf" /\ fuel > 0 -> {<<"int", 0>>}
      [] OTHER -> {}

\* recursive(base, lambda s: tuples(s)): base in at most depth tuples.
Nested(S, depth) == IF depth = 0 THEN S
                    ELSE S \cup {<<"tuple", <<v>>>> : v \in Nested(S, depth - 1)}

Meant(r, fuel) ==
    LET A == [i \in DOMAIN r.args |-> Meant(r.args[i], fuel)]
        p == r.p
    IN  CASE r.op = "integers"  -> Tagged("int", Integers_In(p[1], p[2]))
          [] r.op = "booleans"  -> {Yes, No}
          [] r.op = "none"      -> {<<"None">>}
          [] r.op = "just"      -> {p}
          [] r.op \in {"nothing", "other"} -> {}
          [] r.op = "sampled"   -> ToSet(p)
          [] r.op = "range"     -> {<<"int", p[1] + i * p[2]>> : i \in 0 .. p[3] - 1}
          [] r.op = "text"      -> Tagged("text", Sequences_(1 .. p[1], p[2], Default(p[3])))
          [] r.op = "binary"    -> Tagged("bytes", Sequences_(0 .. 1, p[1], Default(p[2])))
          [] r.op = "characters" -> Tagged("text", Sequences_(1 .. p, 1, 1))
          [] r.op = "uuids"     -> Tagged("uuid", {n \in 0 .. MAX_UUID :
                                      IF p[1] = None THEN n > 0 \/ p[2] ELSE n % 6 = p[1] /\ ~p[2]})
          [] r.op = "dates"     -> Tagged("date", p[1] .. p[2])
          [] r.op = "times"     -> Tagged("time", p[1] .. p[2])
          [] r.op = "datetimes" -> Tagged("datetime", p[1] .. p[2])
          [] r.op = "timedeltas" -> Tagged("timedelta", p[1] .. p[2])
          [] r.op = "ip"        -> {<<"ip", v6, n>> : v6 \in BOOLEAN, n \in 0 .. MAX_V6} \cap
                                   {<<"ip", v6, n>> : v6 \in IF p[1] # None THEN {p[1]}
                                                             ELSE IF p[2] # None THEN {p[2].v6} ELSE BOOLEAN,
                                                      n \in IF p[2] # None THEN p[2].lo .. p[2].hi
                                                            ELSE 0 .. MAX_V6}
          [] r.op = "slices"    -> SlicePromise(p)
          [] r.op = "fractions" -> {Reduced(n, d) : <<n, d>> \in
                                      {nd \in (-9 .. 9) \X (1 .. p[3]) :
                                          /\ p[1][1] * nd[2] <= nd[1] * p[1][2]
                                          /\ nd[1] * p[2][2] <= p[2][1] * nd[2]}}
          [] r.op = "permutations" -> Tagged("list", {s \in [DOMAIN p -> Range(p)] : Range(s) = Range(p)})
          [] r.op = "deferred"  -> MeantThunk(p, fuel)
          [] r.op = "subclass"  -> A[1]
          [] r.op = "tuples"    -> Tagged("tuple", Product(A))
          [] r.op = "composite" -> Tagged("tuple", Product(A))
          [] r.op = "builds"    -> {ApplyOf("pair", <<"tuple", s>>) : s \in Product(A)}
          [] r.op \in {"one_of", "or"} -> UNION Range(A)
          [] r.op = "lists"     -> Tagged("list", {s \in Sequences_(A[1], p[1], Default(p[2])) :
                                      Distinct(s, IF p[3] THEN <<"identity">> ELSE p[4])})
          [] r.op = "sets"      -> Tagged(IF p[3] THEN "frozenset" ELSE "set",
                                      {S \in SUBSET A[1] : Cardinality(S) \in p[1] .. Default(p[2])})
          [] r.op = "dictionaries" -> Tagged("dict", UNION {{{<<k, d[k]>> : k \in K} : d \in [K -> A[2]]} :
                                      K \in {K \in SUBSET A[1] : Cardinality(K) \in p[1] .. Default(p[2])}})
          [] r.op = "fixed"     -> {<<"dict", {<<i, s[i]>> : i \in DOMAIN s}>> : s \in Product(A)}
          [] r.op = "map"       -> {ApplyOf(p, v) : v \in A[1]}
          [] r.op = "flatmap"   -> IF p = "other" THEN {} ELSE UNION {Meant(Expansion(p, v), fuel) : v \in A[1]}
          [] r.op = "twins"     -> {<<"tuple", <<v, v>>>> : v \in A[1]}
          [] r.op = "recursive" -> Nested(A[1], CHOOSE d \in 1 .. p : 2 ^ d >= p /\ (d = 1 \/ 2 ^ (d - 1) < p))
          [] r.op = "filter"    -> {v \in A[1] : HoldsOf(p, v)}

Promise(r) == Meant(r, DEFERRED_DRAW_LIMIT)

--------------------------------------------------------------------------------
(* The machine. *)

Conditions ==
    {Predicate("value", 1, None, FALSE), Predicate("value", None, 1, FALSE),
     Predicate("value", 0, 2, TRUE), Predicate("value", 2, 1, FALSE),
     Predicate("isfinite", None, None, FALSE), Predicate("isinf", None, None, FALSE),
     Predicate("len", 1, None, FALSE), Predicate("len", None, 1, FALSE),
     Predicate("len", 1, 2, TRUE), Predicate("len", None, None, TRUE),
     Predicate("nonempty", None, None, FALSE), Predicate("content", None, None, TRUE),
     Predicate("truth", None, None, TRUE), Predicate("never", None, None, TRUE)}
    \cup {DateIs(op, 3) : op \in Comparisons}

\* The predicate is defined for these values.
Applies(cond, values) ==
    LET Tags == CASE cond.about \in {"value", "isfinite", "isinf"} -> {"int"}
                  [] cond.about \in {"len", "nonempty"} -> Sized_
                  [] cond.about = "content" -> {"text"}
                  [] cond.about \in Comparisons -> {"date"}
                  [] OTHER -> {v[1] : v \in values}
    IN  \A v \in values : v[1] \in Tags

RECURSIVE Filters(_)
Filters(r) == IF r.op = "filter" THEN 1 + Filters(r.args[1]) ELSE 0

Undrawn == [by |-> Native, outcome |-> Got(None, None)]

Init ==
    /\ request \in Corpus
    /\ node = Made(request)
    /\ phase = "asked"
    /\ drawn = Undrawn
    /\ replayed = None

PutFilter ==
    /\ phase = "asked"
    /\ Filters(request) < MAX_FILTERS
    /\ Cardinality(DataDraw(node, Fresh(NewGenerate), Native)) <= FILTERABLE
    /\ \E cond \in Conditions :
          /\ Applies(cond, Promise(request))
          /\ request' = R("filter", <<request>>, cond)
          /\ node' = Filtered(node, cond)
    /\ UNCHANGED <<phase, drawn, replayed>>

Unwrap ==
    /\ phase = "asked"
    /\ node' = Wrapped(node)
    /\ node' # node
    /\ UNCHANGED <<request, phase, drawn, replayed>>

DrawValue ==
    /\ phase = "asked"
    /\ Filters(request) <= DRAWN_FILTERS
    /\ \E env \in {Native, Foreign} :
          \E o \in DataDraw(node, Fresh(NewGenerate), env) : drawn' = [by |-> env, outcome |-> o]
    /\ phase' = "drawn"
    /\ UNCHANGED <<request, node, replayed>>

Replay ==
    /\ phase = "drawn"
    /\ \E o \in DataDraw(node, Fresh(NewForChoices(ChoicesOf(drawn.outcome.cd))), drawn.by) : replayed' = o
    /\ phase' = "replayed"
    /\ UNCHANGED <<request, node, drawn>>

Next ==
    \/ PutFilter
    \/ Unwrap
    \/ DrawValue
    \/ Replay

Spec == Init /\ [][Next]_vars

--------------------------------------------------------------------------------
(* Properties. *)

Outcomes(env) == DataDraw(node, Fresh(NewGenerate), env)
Values(outcomes) == {o.value : o \in {o \in outcomes : ~o.stop}}

RECURSIVE Mentions(_, _)
Mentions(r, ops) == r.op \in ops \/ \E i \in DOMAIN r.args : Mentions(r.args[i], ops)

\* A strategy draws the values that were asked for and no other, however its
\* filters were rewritten, folded, pushed through a map or flattened, and every
\* one of them can be drawn. (Of the slices, some steps are never drawn.)
AsPromised ==
    phase = "asked" =>
        \A values \in {Values(Outcomes(Native))}, promise \in {Promise(request)} :
            /\ values \subseteq promise
            /\ Mentions(request, {"slices"}) \/ promise \subseteq values

\* The data of hypothesis draws no value from a native strategy that was not
\* asked for, and all of them unless it refuses a kind of node. (It forgets the
\* values of shared strategies, so those are left out.)
ForeignAsPromised ==
    phase = "asked" /\ ~Mentions(request, {"twins"}) =>
        \A outcomes \in {Outcomes(Foreign)}, promise \in {Promise(request)} :
            /\ Values(outcomes) \subseteq promise
            /\ \/ Mentions(request, {"slices"})
               \/ \E o \in outcomes : o.value = InvalidArgument
               \/ promise \subseteq Values(outcomes)

\* The recorded choices replay to the same value or the same rejection, through
\* every retry, collision and cache of the draw, without a misaligned choice and
\* with all spans closed.
ReplaysAlike ==
    phase = "replayed" =>
        LET first == drawn.outcome
        IN  /\ replayed.value = first.value
            /\ replayed.stop = first.stop
            /\ replayed.cd.status = first.cd.status
            /\ replayed.cd.nodes = first.cd.nodes
            /\ replayed.cd.has_discards = first.cd.has_discards
            /\ ~replayed.cd.misaligned
            /\ replayed.cd.depth = IF first.cd.frozen THEN -1 ELSE 0

RECURSIVE HoldsMutable(_)
HoldsMutable(v) ==
    CASE v[1] \in {"list", "set", "dict"} -> TRUE
      [] v[1] = "tuple" -> \E i \in DOMAIN v[2] : HoldsMutable(v[2][i])
      [] OTHER -> FALSE

\* What a node says of itself without drawing is true: an empty one draws
\* nothing, a reusable one draws no mutable value, and one that validates never
\* raises (if its deferred parts do not and flatmap gets strategies; the
\* arguments of builds are looked into).
NodeFacts ==
    phase = "asked" => \A outcomes \in {Outcomes(Native)} :
        /\ IsEmpty(node) => Values(outcomes) = {}
        /\ IsReusable(node) => \A v \in Values(outcomes) : ~HoldsMutable(v)
        /\ Validates(node) /\ ~Mentions(request, {"deferred", "flatmap", "composite"}) =>
              \A o \in outcomes : o.value # InvalidArgument

\* A datetime lies between the bounds that were given, as
\* test_strategies.py:126 asserts.
DatetimesWithinBounds ==
    phase = "asked" /\ request.op = "datetimes" =>
        \A v \in Values(Outcomes(Native)) : v[2] \in request.p[1] .. request.p[2]

--------------------------------------------------------------------------------
(* Instances. *)

Some == Leaf("sampled", <<<<"int", 1>>, <<"int", 5>>>>)
Pairs == {<<0, 2>>, <<1, None>>, <<2, 2>>}

Leaves ==
    {Ints(0, 2), Ints(None, 1), Ints(None, None), Ints(2, 1), Bools, Leaf("none", <<>>),
     Leaf("just", <<"int", 7>>), Leaf("nothing", <<>>), Some, Leaf("sampled", <<>>),
     Leaf("sampled", [i \in 1 .. 5 |-> <<"int", i>>]), Leaf("range", <<1, 2, 3>>), Leaf("range", <<0, 1, 0>>),
     Leaf("range", <<0, -1, 6>>), Leaf("text", <<2, 0, 2>>), Leaf("text", <<2, 1, None>>),
     Leaf("text", <<0, 1, None>>), Leaf("text", <<2, 5, None>>), Leaf("binary", <<0, 2>>), Leaf("binary", <<2, 1>>),
     Leaf("characters", 2), Leaf("uuids", <<None, FALSE>>), Leaf("uuids", <<None, TRUE>>),
     Leaf("uuids", <<4, FALSE>>), Leaf("uuids", <<4, TRUE>>), Leaf("dates", <<2, 5>>), Leaf("dates", <<3, 3>>),
     Leaf("times", <<0, 2>>), Leaf("datetimes", <<3, 8>>), Leaf("timedeltas", <<-4, 4>>),
     Leaf("timedeltas", <<-2, 1>>), Leaf("timedeltas", <<4, 5>>), Leaf("ip", <<None, None>>), Leaf("ip", <<TRUE, None>>),
     Leaf("ip", <<None, [v6 |-> TRUE, lo |-> 1, hi |-> 2]>>),
     Leaf("ip", <<FALSE, [v6 |-> FALSE, lo |-> 1, hi |-> 1]>>),
     Leaf("slices", 0), Leaf("slices", 2), Leaf("fractions", <<<<-1, 2>>, <<2, 3>>, 3>>),
     Leaf("fractions", <<<<1, 3>>, <<1, 2>>, 3>>), Leaf("fractions", <<<<1, 2>>, <<1, 3>>, 3>>),
     Leaf("permutations", [i \in 1 .. 3 |-> <<"int", i>>]), Leaf("permutations", <<>>)}
    \cup {Leaf("deferred", thunk) : thunk \in {"tree", "leaf", "void", "itself", "other"}}

Small == {Ints(0, 1), Bools, Some, R("subclass", <<Ints(0, 1)>>, <<>>), Leaf("deferred", "leaf")}

Lists_(S) ==
    {R("lists", <<s>>, <<mm[1], mm[2], u, <<>>>>) : s \in S, mm \in Pairs, u \in BOOLEAN}

Combined ==
    Lists_(Small)
    \cup {R("lists", <<Ints(0, 3)>>, <<0, 2, FALSE, keys>>) : keys \in {<<"parity">>, <<"parity", "half">>}}
    \cup {R("lists", <<Leaf("nothing", <<>>)>>, <<0, None, FALSE, <<>>>>),
          R("lists", <<Leaf("nothing", <<>>)>>, <<1, None, FALSE, <<>>>>),
          R("lists", <<Ints(-1, 1)>>, <<1, 3, TRUE, <<>>>>),
          R("lists", <<Some>>, <<0, 2, FALSE, <<"parity">>>>)}
    \cup {R("sets", <<s>>, <<mm[1], mm[2], f>>) : s \in Small, mm \in Pairs, f \in BOOLEAN}
    \cup {R("dictionaries", <<s, Bools>>, <<0, 2>>) : s \in Small}
    \cup {R("fixed", <<s, t>>, <<>>) : s \in Small, t \in Small}
    \cup {R("tuples", <<s, t>>, <<>>) : s \in Small, t \in Small}
    \cup {R(op, <<s, t>>, <<>>) : op \in {"one_of", "or"}, s \in Small, t \in Small \cup {Leaf("nothing", <<>>)}}
    \cup {R("one_of", <<s>>, <<>>) : s \in Small}
    \cup {R("builds", <<s>>, <<>>) : s \in Small \cup {Ints(2, 1), Leaf("other", <<>>)}}
    \cup {R("composite", <<s, t>>, <<>>) : s \in Small, t \in Small}
    \cup {R("twins", <<s>>, "key") : s \in Small}
    \cup {R("recursive", <<s>>, n) : s \in Small, n \in {2, 3, 4}}
    \cup {R("flatmap", <<Ints(0, 2)>>, f) : f \in {"upto", "listed", "other"}}
    \cup {R("map", <<s>>, "pair") : s \in Small}
    \cup {R("map", <<l>>, f) : l \in {R("lists", <<Bools>>, <<0, None, FALSE, <<>>>>),
                                     R("lists", <<Bools>>, <<1, 2, FALSE, <<>>>>)}, f \in {"set", "list", "pair"}}

Everything == Leaves \cup Combined \cup {R("subclass", <<Leaf("text", <<2, 0, 1>>)>>, <<>>)}

\* Bounds within a day.
Datetimes_ == {Leaf("datetimes", <<min, max>>) : min \in 3 .. 5, max \in 6 .. 9}

================================================================================
