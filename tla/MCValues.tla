------------------------------- MODULE MCValues -------------------------------
(* One call of a kernel of Values or Codec with every argument of a small     *)
(* set, and what its answer must satisfy.                                     *)
EXTENDS Values, Codec

VARIABLES at,   \* the call at hand
          db    \* the in-memory database

vars == <<at, db>>

\* The collections below are of two elements at most.
ASSUME MCAssumption == BUFFER_SIZE > 2

--------------------------------------------------------------------------------
(* Arguments. *)

Ints       == -2 .. 3        \* bounds and targets of integers
CodePoints == 0 .. 5         \* of the alphabets
Indices    == 0 .. 30        \* asked for
Keys       == {"k", "l"}
DbValues   == {"v", "w"}

\* One character of one byte, one of two, a lone surrogate of three.
SomeUtf8 == "a" :> <<1>> @@ "e" :> <<ByteSize - 2, 16>> @@ "s" :> <<ByteSize - 1, 16, 17>>

\* The maximal intervals of a set of code points, in order: those of the members below n,
\* for every n.
Canonical(S) ==
    LET Below[n \in 0 .. 6] ==
            LET ivs == Below[n - 1]
                cp  == n - 1
            IN  IF n = 0 THEN <<>>
                ELSE CASE cp \notin S -> ivs
                       [] cp \in S /\ cp - 1 \in S ->
                             Append(Front(ivs), [Last(ivs) EXCEPT !.hi = cp])
                       [] OTHER -> Append(ivs, [lo |-> cp, hi |-> cp])
    IN  Below[6]

SomeIntConstraints ==
    {c \in [has_min : BOOLEAN, min_value : Ints, has_max : BOOLEAN, max_value : Ints,
            shrink_towards : Ints, weighted : BOOLEAN, candidates : {Ints}] :
        Sensible(c) /\ (~c.has_min => c.min_value = 0) /\ (~c.has_max => c.max_value = 0)}

SomeCollections(kinds) ==
    {c \in [intervals : kinds, min_size : 0 .. 2, max_size : 0 .. 2] :
        c.min_size <= c.max_size /\ (Size(c.intervals) = 0 => c.min_size = 0)}

Alphabets == {Canonical(S) : S \in SUBSET CodePoints}

SomeConstraints(type) ==
    CASE type = "boolean" -> [p : {"0", "tiny", "mid", "almost1", "1"}]
      [] type = "integer" -> SomeIntConstraints
      [] type = "string"  -> SomeCollections({a \in Alphabets : Size(a) < 5})
      [] type = "bytes"   -> SomeCollections({<<[lo |-> 0, hi |-> BYTES - 1]>>})

Endpoints == {{}} \cup {{f} : f \in {0, NegBit, 1, NegBit + 1, Hidden, NegBit + Hidden,
                                     MaxFinite["narrow"], MaxFinite["wide"], Inf, Neg(Inf)}}
Flags == {{}, {TRUE}, {FALSE}}

SomeFloatArgs ==
    [min : Endpoints, max : Endpoints, allow_nan : {{}}, allow_infinity : Flags,
     allow_subnormal : Flags, exclude_min : BOOLEAN, exclude_max : BOOLEAN,
     width : {"wide", "narrow"}]
    \cup [min : {{}, {0}}, max : {{}, {0}}, allow_nan : Flags, allow_infinity : Flags,
          allow_subnormal : {{}}, exclude_min : {FALSE}, exclude_max : {FALSE},
          width : {"wide", "narrow"}]

SomeChoices ==
    [type : {"boolean"}, value : BOOLEAN]
    \cup [type : {"integer"}, value : -40 .. 40]
    \cup [type : {"float"}, value : [1 .. FloatBytes -> {0, 1, ByteSize - 1}]]
    \cup [type : {"bytes"}, value : (UNION {[1 .. n -> {0, ByteSize - 1}] : n \in 0 .. 4})
                                   \cup {[i \in 1 .. GroupSize + k |-> 0] : k \in {-1, 0, 1}}]
    \cup [type : {"string"}, value : UNION {[1 .. n -> DOMAIN Utf8] : n \in 0 .. 3}]

FewChoices ==
    {[type |-> "boolean", value |-> TRUE], [type |-> "integer", value |-> -33],
     [type |-> "float", value |-> [i \in 1 .. FloatBytes |-> 1]],
     [type |-> "bytes", value |-> <<0, 1, 2, 3>>]}
    \cup [type : {"string"}, value : {<<c>> : c \in DOMAIN Utf8}]

SomeBuffers == UNION {[1 .. n -> 0 .. ByteSize - 1] : n \in 0 .. 2}

--------------------------------------------------------------------------------
(* The calls. *)

Idle == [call |-> "none"]

Init == at = Idle /\ db = << >>

Index == \E type \in {"boolean", "integer", "string", "bytes"} :
            \E c \in SomeConstraints(type), n \in Indices :
               at' = [call |-> "index", type |-> type, c |-> c, n |-> n]

Floating == \E args \in SomeFloatArgs : at' = [call |-> "floats", args |-> args]

Lex == \E f \in 0 .. NegBit - 1 : at' = [call |-> "lex", f |-> f]

NextFloat == \E f \in AllFloats, width \in {"wide", "narrow"} :
                /\ f \in Representable(width)
                /\ at' = [call |-> "next", f |-> f, width |-> width]

Algebra == \E s, t \in SUBSET CodePoints :
              at' = [call |-> "algebra", x |-> Canonical(s), y |-> Canonical(t)]

FromString == \E n \in 0 .. 3 : \E cps \in [1 .. n -> CodePoints] :
                 at' = [call |-> "chars", cps |-> cps]

Encoding == \E x \in SomeChoices, y \in FewChoices :
               at' = [call |-> "encode", choices |-> <<x, y>>]

Decoding == \E b \in SomeBuffers : at' = [call |-> "decode", buffer |-> b]

Pure == /\ at = Idle /\ db = << >>
        /\ Index \/ Floating \/ Lex \/ NextFloat \/ Algebra \/ FromString \/ Encoding \/ Decoding
        /\ UNCHANGED db

DbSave   == \E k \in Keys, v \in DbValues : db' = Save(db, k, v)
DbDelete == \E k \in Keys, v \in DbValues : db' = Delete(db, k, v)
DbMove   == \E k, l \in Keys, v \in DbValues :
               /\ db' = MoveValue(db, k, l, v)
               /\ at' = [call |-> "move", src |-> k, dest |-> l, value |-> v]

Database == /\ at.call \in {"none", "move"}
            /\ \/ DbSave /\ at' = Idle
               \/ DbDelete /\ at' = Idle
               \/ DbMove

Next == Pure \/ Database

Spec == Init /\ [][Next]_vars

--------------------------------------------------------------------------------
(* Properties. *)

Calls(name) == at.call = name

Choice(type, v) == [type |-> type, value |-> v]

\* The parameters of the floats() called, unless it refused, and the draw's constraints.
Params     == {p \in {FloatsParams(at.args)} : p.valid}
Drawing(p) == {DrawBounds(p)}

\* How many choices the constraints permit, as far as Indices reach.
Permits(type, c, n) ==
    CASE type = "boolean" -> n < (IF c.p = "mid" THEN 2 ELSE 1)
      [] type = "integer" -> c.has_min /\ c.has_max => n <= c.max_value - c.min_value
      [] OTHER ->
            LET a == IF type = "bytes" THEN BYTES ELSE Size(c.intervals)
            IN  n < SizeToIndex(c.max_size + 1, a) - SizeToIndex(c.min_size, a)
                    + (IF a = 0 THEN 1 ELSE 0)

\* No string with a lone surrogate.
Readable(type, v) == type = "string" => Extracts(v)

\* choice.rs: index and value are inverse to each other over the permitted choices,
\* whatever bounds and alphabet: every index below their number has one, and its index is
\* that one again. (A string with a lone surrogate has an index it is made from, and no
\* way back.)
IndexInverse ==
    Calls("index") /\ Permits(at.type, at.c, at.n) =>
        /\ ChoiceFromIndex(at.n, at.type, at.c) # {}
        /\ \A v \in ChoiceFromIndex(at.n, at.type, at.c) :
              Readable(at.type, v) =>
                 /\ ChoicePermitted(Choice(at.type, v), at.c)
                 /\ ChoiceToIndex(Choice(at.type, v), at.c) = {at.n}

\* "0 = simplest": a smaller index is never further from the integer's target, never a
\* longer collection, and among characters '0' to 'Z' come first.
SimplerFirst ==
    Calls("index") /\ at.n > 0 /\ Permits(at.type, at.c, at.n) =>
        LET Value(n) == CHOOSE v \in ChoiceFromIndex(n, at.type, at.c) : TRUE
            x == Value(at.n - 1)
            y == Value(at.n)
            Plain(s) == s # <<>> => s[1] \in ASCII_ZERO .. ASCII_Z
        IN  CASE at.type = "boolean" -> y
              [] at.type = "integer" -> Abs(x - ShrinkTowards(at.c)) <= Abs(y - ShrinkTowards(at.c))
              [] OTHER -> /\ Len(x) <= Len(y)
                          /\ Len(x) = Len(y) /\ at.type = "string" /\ Plain(y) => Plain(x)

\* data.rs: what a draw samples, armed candidates and weighted edges included, and the
\* simplest value it falls back to, are permitted, so that what is recorded replays
\* without misalignment. Not so a string with a lone surrogate, which an alphabet may
\* hold and a draw sample but no replay accepts; and floats only unless a bound is itself
\* a subnormal and subnormals are not allowed.
DrawsArePermitted ==
    /\ Calls("index") /\ at.n = 0 =>
          \A v \in Sampled(at.type, at.c) \cup ChoiceFromIndex(0, at.type, at.c) :
             Readable(at.type, v) => ChoicePermitted(Choice(at.type, v), at.c)
    /\ Calls("floats") => \A p \in Params : \A c \in Drawing(p) :
          (\A b \in {c.min, c.max} : Mag(b) = 0 \/ Mag(b) >= c.snm) =>
             \A v \in SampledFloats(c) \cup ChoiceFromIndex(0, "float", c) : PermittedFloat(v, c)

\* scalars.rs, draw.rs: what floats() returns is representable in its width and lies where
\* the arguments say, excluded endpoints and signed zeros included.
Asked(f, args) ==
    IF IsNan(f) THEN args.allow_nan = {TRUE} \/ (args.allow_nan = {} /\ args.min \cup args.max = {})
    ELSE /\ f \in Representable(args.width)
         /\ args.allow_infinity = {FALSE} => IsFinite(f)
         /\ \A b \in args.min : IF args.exclude_min THEN Num(b) < Num(f) ELSE SignAwareLte(b, f)
         /\ \A b \in args.max : IF args.exclude_max THEN Num(f) < Num(b) ELSE SignAwareLte(f, b)

FloatsAsAsked ==
    Calls("floats") => \A p \in Params : \A c \in Drawing(p) :
        \A f \in AllFloats : PermittedFloat(f, c) => Asked(DrawnFloat(f, p), at.args)

\* Every float asked for can be drawn: no value between the arguments is lost.
FloatsAreComplete ==
    Calls("floats") => \A p \in Params : \A c \in Drawing(p) :
        \A f \in Representable(p.width) :
           Asked(f, at.args) /\ ~(0 < Mag(f) /\ Mag(f) < p.snm)
              /\ (IsFinite(f) \/ IsNan(f) \/ p.allow_inf) =>
           PermittedFloat(f, c) /\ DrawnFloat(f, p) = f

\* floats.rs: the code of a float is its own and decodes to it; whole numbers below the
\* limit come before all others, in their order.
LexRoundTrips ==
    Calls("lex") =>
        /\ LexToFloat(FloatToLex(at.f)) = at.f
        /\ at.f > 0 /\ IsSimple(at.f) =>
              \A g \in 0 .. at.f - 1 : FloatToLex(g) < FloatToLex(at.f) <=> IsSimple(g)

\* next_up_width: the smallest value of the width strictly above the argument.
NextIsAdjacent ==
    Calls("next") /\ ~IsNan(at.f) /\ at.f # Inf =>
        LET up == NextUpWidth(at.f, at.width)
        IN  /\ up \in Representable(at.width) /\ Num(at.f) < Num(up)
            /\ \A g \in Representable(at.width) : ~(Num(at.f) < Num(g) /\ Num(g) < Num(up))

\* floats.rs: the order floats shrink in and the order of their values are both kept by
\* the bit patterns they are computed on.
FloatOrders == LexRoundTrips /\ NextIsAdjacent

\* intervalset.rs: union, difference and intersection are those of the sets, and stay in
\* the form of ascending disjoint intervals that every lookup relies on.
Ascending(ivs) == \A k \in DOMAIN ivs : /\ ivs[k].lo <= ivs[k].hi
                                        /\ k > 1 => ivs[k - 1].hi < ivs[k].lo
AlgebraOfSets ==
    /\ Calls("algebra") =>
          LET s == Members(at.x)
              t == Members(at.y)
          IN  /\ Union(at.x, at.y) = Canonical(s \cup t)
              /\ Members(Difference[<<at.x, at.y>>]) = s \ t
              /\ Members(Intersection[<<at.x, at.y>>]) = s \cap t
              /\ Ascending(Difference[<<at.x, at.y>>]) /\ Ascending(Intersection[<<at.x, at.y>>])
    /\ Calls("chars") => OfChars(at.cps) = Canonical({at.cps[i] : i \in DOMAIN at.cps})

\* Positions, ordinals and the shrink order are bijections with the members, and agree
\* with iteration; what is no member has none.
PositionsAgree ==
    Calls("algebra") =>
        LET x == at.x
            n == Size(x)
        IN  /\ \A i \in 0 .. n - 1 :
                  /\ GetItem(x, i) = Elements(x)[i + 1] /\ GetItem(x, i - n) = GetItem(x, i)
                  /\ OrdinalOf(x, GetItem(x, i)) = i /\ IndexAbove(x, GetItem(x, i)) = i
                  /\ ShrinkIndexOf(x, CharInShrinkOrder(x, i)) = i
            /\ \A v \in CodePoints \ Members(x) : OrdinalOf(x, v) = NotInList

\* intervalset.rs: interval sets behave as sets, and every way to number their members agrees.
SetsAgree == AlgebraOfSets /\ PositionsAgree

\* What a choice reads as when it is cut inside the bytes of its size and those that are
\* left say 0: the empty payload.
Emptied(c) == {[type |-> t, value |-> IF t = "integer" THEN 0 ELSE <<>>] :
                  t \in {c.type} \cap {"integer", "bytes", "string"}}

\* database.rs: what was encoded decodes to itself, its size is the one the draws account
\* for, and cut off anywhere it decodes to the choices before the cut, at most followed by
\* the simplest of the type that was cut, or to nothing.
CodecInverse ==
    Calls("encode") =>
        LET bytes == EncodeChoices(at.choices)
            whole == Decode[bytes]
        IN  /\ whole.ok /\ whole.choices = at.choices
            /\ OneChoiceSize(at.choices[1]) = Len(EncodeChoice(at.choices[1]))
            /\ \A n \in 0 .. Len(bytes) - 1 :
                  LET part == Decode[SubSeq(bytes, 1, n)]
                      x    == at.choices[1]
                      y    == at.choices[2]
                  IN  part.ok => part.choices \in {<<>>, <<x>>} \cup {<<e>> : e \in Emptied(x)}
                                                  \cup {<<x, e>> : e \in Emptied(y)}

\* Any bytes that decode at all stand for choices whose own encoding decodes to them: an
\* entry that is replayed and saved again stays the same example.
DecodingSettles ==
    Calls("decode") =>
        LET d == Decode[at.buffer]
        IN  d.ok => Decode[EncodeChoices(d.choices)] = d

\* database.rs: encoding and decoding are inverse, whichever comes first.
CodecAgrees == CodecInverse /\ DecodingSettles

\* move never loses the value and leaves it under no key but the destination and others.
MoveKeeps ==
    Calls("move") => /\ at.value \in Fetch(db, at.dest)
                     /\ at.src # at.dest => at.value \notin Fetch(db, at.src)

================================================================================
