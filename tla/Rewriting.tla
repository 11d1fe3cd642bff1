-------------------------------- MODULE Rewriting --------------------------------
(* SearchStrategy.filter: predicates that are rewritten into the bounds of    *)
(* the node, and chains of filters that are flattened. A predicate is         *)
(*   [about, min, max, rest, arg]                                             *)
(* where about is what it looks at, min and max are the bounds that           *)
(* hypothesis's analysis (external) finds on the value or on its length, and  *)
(* rest says that it demands more than them; arg is the date of a comparison. *)
EXTENDS Nodes

Predicate(about, min, max, rest) ==
    [about |-> about, min |-> min, max |-> max, rest |-> rest, arg |-> None]

DateIs(op, arg) == [about |-> op, min |-> None, max |-> None, rest |-> FALSE, arg |-> arg]

Comparisons == {"lt", "le", "eq", "ge", "gt"}

\* Of a predicate that bounds nothing, all is left to check.
Remains(node, cond) == IF cond.rest THEN Filter(node, cond) ELSE node

\* Of an unchanged node the same object is returned.
IntegerFilter(node, cond) ==
    LET min == Tighter(node.min, cond.min, MaxOf)
        max == Tighter(node.max, cond.max, MinOf)
    IN  CASE cond.about = "isfinite" -> node
          [] cond.about = "isinf" -> Nothing
          [] cond.about = "value" ->
                IF min # None /\ max # None /\ min > max THEN Nothing
                ELSE Remains(IntegersNode(min, max), cond)

\* op(arg, x): the reverse of how it reads. Past the last date there is none.
DateFilter(node, cond) ==
    LET arg == cond.arg + CASE cond.about = "lt" -> 1 [] cond.about = "gt" -> -1 [] OTHER -> 0
        lo  == MaxOf(node.min, IF cond.about \in {"lt", "le", "eq"} THEN arg ELSE node.min)
        hi  == MinOf(node.max, IF cond.about \in {"eq", "ge", "gt"} THEN arg ELSE node.max)
    IN  IF arg \notin 1 .. MAX_ORDINAL \/ hi < lo THEN Nothing
        ELSE IF lo = node.min /\ hi = node.max THEN node
        ELSE Dates(lo, hi)

--------------------------------------------------------------------------------
(* Collections: the length. What becomes of the node: "self", "empty",        *)
(* "plain" or "resize" to min .. max, keeping the predicate or not.           *)

Kept(what)             == [what |-> what, min |-> 0, max |-> 0, keep |-> FALSE]
Resize(min, max, keep) == [what |-> "resize", min |-> min, max |-> max, keep |-> keep]

CollectionRewrite(node, cond) ==
    LET min  == Tighter(node.min, cond.min, MaxOf)
        max  == Tighter(node.max, cond.max, MinOf)
        text == node.kind \in {"text", "binary"}
    IN  CASE cond.about = "nonempty" ->
               IF node.max < 1 THEN Kept("empty")
               ELSE IF node.min >= 1 THEN Kept("self")
               ELSE Resize(1, node.max, FALSE)
          [] cond.about = "len" /\ ~(cond.min = None /\ cond.max = None) ->
               IF min > max THEN Kept("plain")
               ELSE IF min = node.min /\ max = node.max /\ ~cond.rest THEN Kept("self")
               ELSE Resize(min, max, cond.rest)
          [] cond.about = "content" /\ text /\ node.max >= 1 ->
               Resize(MaxOf(1, node.min), node.max, TRUE)
          [] OTHER -> Kept("plain")

Resized(node, how) == [node EXCEPT !.min = how.min, !.max = how.max, !.typed = TRUE]

CollectionFilter(node, cond) ==
    LET how == CollectionRewrite(node, cond)
    IN  CASE how.what = "self"  -> node
          [] how.what = "empty" -> Nothing
          [] how.what = "plain" -> Filter(node, cond)
          [] how.what = "resize" ->
               IF how.keep THEN [Filter(Resized(node, how), cond) EXCEPT !.typed = TRUE]
               ELSE Resized(node, how)

Collections == {"text", "binary", "lists", "sets", "dictionaries"}

\* Mutant: the outer filter is dropped once the list is resized.
MapFilterInner(node, cond) == Mapped(CollectionFilter(node.base, cond), node.func)

\* A predicate on the length passes through the map to the list; the map may
\* still change the length, so the filter stays outside too. The list was not
\* rewritten when what comes back is a bare strategy.
MapFilter(node, cond) ==
    LET new == CollectionFilter(node.base, cond)
    IN  IF node.base.kind = "lists" /\ node.func \in CollectionPacks /\ new # Nothing /\ new.typed
        THEN [Filter(Mapped(new, node.func), cond) EXCEPT !.typed = TRUE]
        ELSE Filter(node, cond)

Filtered(node, cond) ==
    CASE node.kind = "integers" /\ cond.about \in {"value", "isfinite", "isinf"} ->
            IntegerFilter(node, cond)
      [] node.kind = "dates" /\ cond.about \in Comparisons -> DateFilter(node, cond)
      [] node.kind \in Collections -> CollectionFilter(node, cond)
      [] node.kind = "map" /\ node.base.kind = "lists" -> MapFilter(node, cond)
      [] OTHER -> Filter(node, cond)

--------------------------------------------------------------------------------
(* wrapped_strategy: a chain of filters is replayed on its base, one by one.  *)

RECURSIVE Chain(_), Wrapped(_)

\* The base under the filters, and their predicates from the inside out.
Chain(node) == IF node.kind # "filter" THEN [base |-> node, conds |-> <<>>]
               ELSE LET inner == Chain(node.base)
                    IN  [inner EXCEPT !.conds = Append(@, node.cond)]

\* A predicate that did not fold entirely is left over.
Replayed_(acc, cond) ==
    LET result == Filtered(acc.base, cond)
    IN  IF result.kind = "filter"
        THEN [base |-> result.base, conds |-> Append(acc.conds, result.cond)]
        ELSE [acc EXCEPT !.base = result]

Flattened(node) ==
    LET chain == Chain(node)
        acc   == FoldLeft(Replayed_, [base |-> chain.base, conds |-> <<>>], chain.conds)
    IN  IF acc.conds = <<>> THEN Wrapped(acc.base)
        ELSE [FoldLeft(Filter, acc.base, acc.conds) EXCEPT !.typed = TRUE]

Wrapped(node) ==
    CASE node.kind \in Collections -> [node EXCEPT !.typed = TRUE]
      [] node.kind = "filter" -> IF node.base.kind = "filter" THEN Flattened(node)
                                 ELSE [node EXCEPT !.typed = TRUE]
      [] node.kind = "map" -> [node EXCEPT !.base = Wrapped(node.base)]
      [] OTHER -> node

================================================================================
