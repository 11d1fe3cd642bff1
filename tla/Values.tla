--------------------------------- MODULE Values ---------------------------------
(* choice.rs, data.rs and provider.rs over all five types of choice: index,  *)
(* permission and sampling. A choice is [type, value]; the value of a string *)
(* is a sequence of code points, of bytes a sequence of 0 .. BYTES - 1.      *)
EXTENDS Choices, IntervalSets, Floats

CONSTANTS BYTES,        \* the number of values of a byte (256)
          FAR,          \* how far sampling goes where there is no bound (2^128)
          WIDE,         \* the widest range integers() draws without weights (127)
          Surrogates    \* the code points no String of Rust holds

ASSUME ValuesAssumption == BYTES \in Nat \ {0} /\ FAR \in Nat \ {0} /\ WIDE \in Nat

\* extract::<String>() fails on a string with a lone surrogate.
Extracts(s) == \A i \in DOMAIN s : s[i] \notin Surrogates

Orders(s, intervals) == [i \in DOMAIN s |-> ShrinkIndexOf(intervals, s[i])]

\* The index of a choice, none for a string that does not extract.
ChoiceToIndex(choice, c) ==
    LET v == choice.value
    IN  CASE choice.type = "boolean" -> {BoolToIndex(v, c)}
          [] choice.type = "integer" -> {IntToIndex(v, c)}
          [] choice.type = "bytes"   -> {CollectionToIndex(v, c.min_size, BYTES)}
          [] choice.type = "string"  ->
                IF Extracts(v)
                THEN {CollectionToIndex(Orders(v, c.intervals), c.min_size, Size(c.intervals))}
                ELSE {}
          [] choice.type = "float"   ->
                {(IF IsNegative(v) THEN 2 * NegBit ELSE 0) + FloatToLex(Mag(v))}

\* The values an index may stand for: one, several for a float that
\* has to be clamped, none for a collection that is too large.
ChoiceFromIndex(n, type, c) ==
    CASE type = "boolean" -> {BoolFromIndex(n, c)}
      [] type = "integer" -> {IntFromIndex(n, c)}
      [] type = "bytes"   -> CollectionFromIndex(n, c.min_size, BYTES)
      [] type = "string"  ->
            {[i \in DOMAIN orders |-> CharInShrinkOrder(c.intervals, orders[i])] :
                orders \in CollectionFromIndex(n, c.min_size, Size(c.intervals))}
      [] type = "float"   ->
            LET f == LexToFloat(n % (2 * NegBit))
            IN  FloatClamp(IF n >= 2 * NegBit THEN Neg(f) ELSE f, c)

\* A failure to tell counts as not permitted (pop_choice).
ChoicePermitted(choice, c) ==
    LET v == choice.value
    IN  CASE choice.type = "boolean" -> BoolPermitted(v, c)
          [] choice.type = "integer" -> IntPermitted(v, c)
          [] choice.type = "float"   -> PermittedFloat(v, c)
          [] choice.type = "bytes"   -> Len(v) \in c.min_size .. c.max_size
          [] choice.type = "string"  -> /\ Extracts(v)
                                        /\ Len(v) \in c.min_size .. c.max_size
                                        /\ \A i \in DOMAIN v : v[i] \in Members(c.intervals)

--------------------------------------------------------------------------------
(* Sampling: the values a draw may produce. *)

\* A missing bound is FAR away, or twice as far as the other one.
Range128(c) ==
    LET Beyond(b) == Greater(FAR, 2 * Abs(b))
        low  == IF c.has_min THEN c.min_value
                ELSE IF c.has_max THEN -Beyond(c.max_value) ELSE -FAR
        high == IF c.has_max THEN c.max_value
                ELSE IF c.has_min THEN Beyond(c.min_value) ELSE FAR
    IN  low .. high

\* Over a wide range integers() prefers the bounds and their neighbours.
EdgeWeights(c) ==
    IF c.has_min /\ c.has_max /\ c.max_value - c.min_value > WIDE
    THEN {c.min_value, c.min_value + 1, c.max_value - 1, c.max_value} ELSE {}

\* Mutant: armed candidates are not held to the bounds.
SampledIntegersLoose(c, weights, candidates) == candidates \cup weights \cup Range128(c)

\* Armed candidates in the bounds, the keys of the weights, else the distribution.
SampledIntegers(c, weights, candidates) ==
    {v \in candidates : IntPermitted(v, c)} \cup weights \cup Range128(c)

\* The geometric loop stops anywhere from min to max.
CollectionSizes(min, max) == IF min = max THEN {min} ELSE min .. max

SampledStrings(c) ==
    IF Size(c.intervals) = 0 THEN {<<>>}
    ELSE UNION {[1 .. n -> {CharInShrinkOrder(c.intervals, i) : i \in 0 .. Size(c.intervals) - 1}] :
                n \in CollectionSizes(c.min_size, c.max_size)}

Sampled(type, c) ==
    CASE type = "boolean" -> {b \in BOOLEAN : BoolPermitted(b, c)}
      [] type = "integer" -> SampledIntegers(c, IF c.weighted THEN EdgeWeights(c) ELSE {}, c.candidates)
      [] type = "float"   -> SampledFloats(c)
      [] type = "string"  -> SampledStrings(c)
      [] type = "bytes"   -> UNION {[1 .. n -> 0 .. BYTES - 1] : n \in CollectionSizes(c.min_size, c.max_size)}

================================================================================
