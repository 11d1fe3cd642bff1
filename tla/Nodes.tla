---------------------------------- MODULE Nodes ----------------------------------
(* The strategy nodes of strategy/mod.rs and the constructors of scalars.rs   *)
(* and constructors.rs that make them. A node is a record whose kind is the   *)
(* variant of StrategyNode; typed tells a collection of a pyclass of its own  *)
(* (ListStrategy) from a bare one. A value is a tuple that starts with its    *)
(* type. Errors of a constructor, raised or deferred, are the invalid node.   *)
(* None, of Data, is also no bound, no key, no definition.                    *)
EXTENDS Many, FiniteSetsExt

CONSTANTS DEFAULT_MAX_SIZE,  \* COLLECTION_DEFAULT_MAX_SIZE
          LARGEST_MIN_SIZE,  \* the buffer size of collection_sizes
          FINITE_DOMAIN,     \* 255: the widest range drawn without replacement
          MAX_ORDINAL,       \* 3652059: the ordinal of date.max
          US_PER_DAY,
          MAX_DENOMINATOR,   \* 65536: the cap where none is asked for
          CollectionPacks,   \* the functions pack_is_collection_ish accepts
          Definition(_)      \* what the thunk of a deferred strategy returns

MaxOf(a, b) == IF a >= b THEN a ELSE b
MinOf(a, b) == IF a <= b THEN a ELSE b

\* The bounds a and b together; None bounds nothing.
Tighter(a, b, Pick(_, _)) == CASE a = None -> b [] b = None -> a [] OTHER -> Pick(a, b)

--------------------------------------------------------------------------------
(* Constructors. *)

Invalid  == [kind |-> "invalid"]
Nothing  == [kind |-> "nothing"]
NoneNode == [kind |-> "none"]
Booleans == [kind |-> "booleans"]
Just(v)  == [kind |-> "just", value |-> v]

IntegersNode(min, max) == [kind |-> "integers", min |-> min, max |-> max]

Integers_(min, max) == IF min # None /\ max # None /\ min > max THEN Invalid
                       ELSE IntegersNode(min, max)

SampledFrom(elements) ==
    IF elements = <<>> THEN Invalid ELSE [kind |-> "sampled", elements |-> elements]

\* sampled_from(range(...)): the range stays a range.
SampledFromRange(start, step, len) ==
    [kind |-> "range", start |-> start, step |-> step, len |-> len]

OneOf(children) == IF Len(children) = 1 THEN children[1]
                   ELSE [kind |-> "one_of", children |-> children]

Tuples(children) == [kind |-> "tuples", children |-> children]

\* a | b takes the branches of both.
Or(a, b) ==
    LET Branches(s) == IF s.kind = "one_of" THEN s.children ELSE <<s>>
    IN  [kind |-> "one_of", children |-> Branches(a) \o Branches(b)]

Filter(base, cond) == [kind |-> "filter", base |-> base, cond |-> cond, typed |-> FALSE]
Mapped(base, func) == [kind |-> "map", base |-> base, func |-> func]
Flatmapped(base, func) == [kind |-> "flatmap", base |-> base, func |-> func]
Shared(base, key)  == [kind |-> "shared", base |-> base, key |-> key]
Deferred(thunk)    == [kind |-> "deferred", thunk |-> thunk]
Composite(parts)   == [kind |-> "composite", parts |-> parts]
Builds(target, args) == [kind |-> "builds", target |-> target, args |-> args]
Characters(letters)  == [kind |-> "characters", letters |-> letters]
Permuted(values)   == [kind |-> "permutations", values |-> values]
Slices(size)       == [kind |-> "slices", size |-> size]

\* What a thunk returns that is no strategy.
NotStrategy == [kind |-> "not_strategy"]

\* A subclass in Python that overrides do_draw: its own node is a placeholder.
Subclass(inner) == [kind |-> "subclass", inner |-> inner]

\* optional is checked and then dropped.
FixedDictionaries(items, optional) == [kind |-> "fixed", items |-> items]

Uuids(version, allow_nil) ==
    IF allow_nil /\ version # None THEN Invalid
    ELSE [kind |-> "uuids", version |-> version, allow_nil |-> allow_nil]

Fractions(min, max, max_denominator) ==
    LET Wide(f) == max_denominator # None /\ f # None /\ f[2] > max_denominator
    IN  IF Wide(min) \/ Wide(max) \/ (min # None /\ max # None /\ min[1] * max[2] > max[1] * min[2])
        THEN Invalid
        ELSE [kind |-> "fractions", min |-> min, max |-> max,
              max_denom |-> IF max_denominator = None THEN MAX_DENOMINATOR ELSE max_denominator]

\* dates, times, datetimes and timedeltas check the interval alike.
Interval(tag, min, max, node) ==
    CASE max < min -> Invalid [] min = max -> Just(<<tag, min>>) [] OTHER -> node

Times(min, max) == Interval("time", min, max, [kind |-> "times", min |-> min, max |-> max])

Dates(min, max) == Interval("date", min, max, [kind |-> "dates", min |-> min, max |-> max])

Timedeltas(min, max) ==
    Interval("timedelta", min, max, [kind |-> "timedeltas", min |-> min, max |-> max])

\* Datetimes count microseconds; the node keeps the days only.
Datetimes(min, max) ==
    Interval("datetime", min, max, [kind |-> "datetimes", min |-> min \div US_PER_DAY,
                                                          max |-> max \div US_PER_DAY])

\* A network is [v6, lo, hi]; it decides the version where none is asked for.
IpAddresses(v6, network) ==
    IF network # None /\ v6 \notin {None, network.v6} THEN Invalid
    ELSE [kind |-> "ip", net |-> network, v6 |-> IF network = None THEN v6 ELSE network.v6]

\* base, or what extend makes of a strategy one level less deep.
Recursive(base, Extend(_), max_leaves) ==
    LET depth == CHOOSE d \in 1 .. MaxOf(max_leaves, 2) :
                    /\ 2 ^ d >= max_leaves
                    /\ d = 1 \/ 2 ^ (d - 1) < max_leaves
    IN  FoldLeft(LAMBDA s, i : OneOf(<<base, Extend(s)>>), base, [i \in 1 .. depth |-> i])

--------------------------------------------------------------------------------
(* What nodes.rs finds out about a node without drawing from it. *)

\* deferred_is_empty and deferred_has_reusable answer TRUE when they re-enter the
\* thunk they come from: resolving is the set of the thunks in progress.
RECURSIVE IsEmptyIn(_, _), IsReusableIn(_, _)

\* base.filter(cond) that no integer of the base passes. One that only bounds is
\* rewritten; what reaches this point is known by its bounds alone.
FilterMakesEmpty(base, cond) ==
    /\ base.kind = "integers"
    /\ \/ cond.about = "isinf"
       \/ cond.about = "value" /\ ~cond.rest
          /\ LET lo == Tighter(base.min, cond.min, MaxOf)
                 hi == Tighter(base.max, cond.max, MinOf)
             IN  lo # None /\ hi # None /\ lo > hi

\* Mutant: a collection is empty when its elements are.
IsEmptyByElements(node, resolving) ==
    CASE node.kind = "nothing" -> TRUE
      [] node.kind \in {"lists", "sets"} -> IsEmptyIn(node.elem, resolving)
      [] OTHER -> FALSE

IsEmptyIn(node, resolving) ==
    CASE node.kind = "nothing" -> TRUE
      [] node.kind = "sampled" -> node.elements = <<>>
      [] node.kind = "one_of" ->
            \A i \in DOMAIN node.children : IsEmptyIn(node.children[i], resolving)
      [] node.kind = "tuples" ->
            \E i \in DOMAIN node.children : IsEmptyIn(node.children[i], resolving)
      [] node.kind = "fixed" ->
            \E i \in DOMAIN node.items : IsEmptyIn(node.items[i][2], resolving)
      [] node.kind \in {"map", "flatmap"} -> IsEmptyIn(node.base, resolving)
      [] node.kind = "filter" -> \/ IsEmptyIn(node.base, resolving)
                                 \/ FilterMakesEmpty(node.base, node.cond)
      [] node.kind \in {"lists", "sets"} -> node.min > 0 /\ IsEmptyIn(node.elem, resolving)
      [] node.kind = "deferred" ->
            \/ node.thunk \in resolving
            \/ IsEmptyIn(Definition(node.thunk), resolving \cup {node.thunk})
      [] OTHER -> FALSE

IsEmpty(node) == IsEmptyIn(node, {})

Mutable == {"lists", "sets", "dictionaries", "fixed", "permutations", "map", "filter",
            "flatmap", "composite", "builds", "not_strategy"}

IsReusableIn(node, resolving) ==
    CASE node.kind \in {"tuples", "one_of"} ->
            \A i \in DOMAIN node.children : IsReusableIn(node.children[i], resolving)
      [] node.kind = "deferred" ->
            \/ node.thunk \in resolving
            \/ IsReusableIn(Definition(node.thunk), resolving \cup {node.thunk})
      [] node.kind = "shared" -> IsReusableIn(node.base, resolving)
      [] OTHER -> node.kind \notin Mutable

IsReusable(node) == IsReusableIn(node, {})

\* node_validate: no invalid node is found, nor an argument of builds that is no
\* strategy; deferred, shared, composite and subclass nodes are not looked into.
RECURSIVE Validates(_)
Validates(node) ==
    CASE node.kind = "invalid" -> FALSE
      [] node.kind \in {"map", "filter", "flatmap"} -> Validates(node.base)
      [] node.kind \in {"lists", "sets"} -> Validates(node.elem)
      [] node.kind = "dictionaries" -> Validates(node.keys) /\ Validates(node.values)
      [] node.kind \in {"tuples", "one_of"} ->
            \A i \in DOMAIN node.children : Validates(node.children[i])
      [] node.kind = "fixed" -> \A i \in DOMAIN node.items : Validates(node.items[i][2])
      [] node.kind = "builds" ->
            \A i \in DOMAIN node.args : node.args[i].kind # "not_strategy" /\ Validates(node.args[i])
      [] OTHER -> TRUE

--------------------------------------------------------------------------------
(* Collections. lists, sets, dictionaries, text and binary check their sizes  *)
(* alike; max_size None is the default.                                       *)

SizesFit(min, max_size, empty) ==
    /\ min <= (IF max_size = None THEN DEFAULT_MAX_SIZE ELSE max_size)
    /\ min <= LARGEST_MIN_SIZE
    /\ empty => min = 0 /\ max_size \in {None, 0}

Sized(node, min, max_size, empty) ==
    IF ~SizesFit(min, max_size, empty) THEN Invalid
    ELSE node @@ [min |-> min, max |-> IF max_size = None THEN DEFAULT_MAX_SIZE ELSE max_size,
                  typed |-> FALSE]

Binary(min, max_size) == Sized([kind |-> "binary"], min, max_size, FALSE)

\* text() over an alphabet of so many letters: without one, the empty text is left.
Text(letters, min, max_size) ==
    IF letters = 0 /\ min > 0 THEN Invalid
    ELSE Sized([kind |-> "text", letters |-> letters], min, max_size, FALSE)

Sets(elem, min, max_size, frozen) ==
    Sized([kind |-> "sets", elem |-> elem, frozen |-> frozen], min, max_size, IsEmpty(elem))

Dictionaries(keys, values, min, max_size) ==
    Sized([kind |-> "dictionaries", keys |-> keys, values |-> values], min, max_size,
          IsEmpty(keys) \/ IsEmpty(values))

\* a .. b by size, the positive before the negative.
OrderedIntDomain(a, b) ==
    LET Up(n)   == [i \in 1 .. b - n + 1 |-> n + i - 1]
        Down(n) == [i \in 1 .. n - a + 1 |-> n - i + 1]
    IN  CASE a > 0 -> Up(a) [] b < 0 -> Down(b) [] OTHER -> Up(0) \o Down(-1)

\* The values of a small domain, which a unique list takes without replacement.
FiniteUniqueDomain(elem) ==
    CASE elem.kind = "sampled" -> elem.elements
      [] elem.kind = "integers" /\ elem.min # None /\ elem.max # None
            /\ elem.max - elem.min <= FINITE_DOMAIN ->
               LET ints == OrderedIntDomain(elem.min, elem.max)
               IN  [i \in DOMAIN ints |-> <<"int", ints[i]>>]
      [] OTHER -> None

\* keys are the key functions of unique_by; unique alone has the identity.
Lists(elem, min, max_size, unique, unique_by) ==
    LET keys   == IF unique_by # <<>> THEN unique_by ELSE IF unique THEN <<"identity">> ELSE <<>>
        domain == IF unique /\ unique_by = <<>> THEN FiniteUniqueDomain(elem) ELSE None
        card   == IF domain # None THEN Len(domain)
                  ELSE IF keys # <<>> /\ elem.kind = "sampled" THEN Len(elem.elements) ELSE None
        list   == Sized([kind |-> "lists", elem |-> elem, keys |-> keys, domain |-> domain],
                        min, max_size, IsEmpty(elem))
    IN  IF list = Invalid \/ (unique /\ unique_by # <<>>) \/ (card # None /\ min > card) THEN Invalid
        ELSE IF card = None THEN list ELSE [list EXCEPT !.max = MinOf(@, card)]

================================================================================
