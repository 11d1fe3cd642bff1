-------------------------------- MODULE Floats --------------------------------
(* floats.rs and what scalars.rs, data.rs and draw.rs make of a float: its   *)
(* simplicity code, bounds and clamping, narrower widths, sampling.          *)
(*                                                                           *)
(* A float is its bit pattern, sign then exponent then mantissa, of a format *)
(* with E exponent and M mantissa bits in the place of 11 and 52. The values *)
(* a narrower width can represent are those of the format NE, NM. Magnitudes *)
(* are counted in units of the smallest subnormal.                           *)
EXTENDS Numbers, FiniteSets, FiniteSetsExt, Functions

CONSTANTS E, M,         \* exponent and mantissa bits
          NE, NM,       \* the same of the narrow width
          SimpleBits    \* an integer below 2^SimpleBits is its own code

ASSUME FormatAssumption ==
    /\ {E, M, NE, NM, SimpleBits} \subseteq Nat \ {0}
    /\ NE <= E /\ NM <= M
    /\ E <= 11                                \* as many exponents as their keys tell apart
    /\ M < SimpleBits /\ SimpleBits < E + M   \* 52 < 56 < 63

Bias   == Power(2, E - 1) - 1
MaxExp == Power(2, E) - 1
Hidden == Power(2, M)
Inf    == MaxExp * Hidden
NegBit == Power(2, E + M)
AllFloats == 0 .. 2 * NegBit - 1

Neg(f) == IF f >= NegBit THEN f - NegBit ELSE f + NegBit
IsNegative(f) == f >= NegBit
Mag(f)  == f % NegBit
Exp(f)  == Mag(f) \div Hidden
Mant(f) == f % Hidden
IsNan(f)    == Mag(f) > Inf
IsFinite(f) == Mag(f) < Inf

\* Numeric order of floats that are no NaN: both zeros are 0.
Num(f) == IF IsNegative(f) THEN -Mag(f) ELSE Mag(f)

\* A finite magnitude in units, and the units of the number 1.
Units(f) == IF Exp(f) = 0 THEN Mant(f) ELSE (Hidden + Mant(f)) * Power(2, Exp(f) - 1)
One      == Power(2, Bias + M - 1)

--------------------------------------------------------------------------------
(* The widths. *)

\* The subnormal unit of the narrow format.
NarrowUnit == Power(2, (Bias + M) - (Power(2, NE - 1) - 1 + NM))

NarrowUnits ==
    {m * NarrowUnit : m \in 0 .. Power(2, NM) - 1} \cup
    {(Power(2, NM) + m) * NarrowUnit * Power(2, e - 1) : m \in 0 .. Power(2, NM) - 1, e \in 1 .. Power(2, NE) - 2}

\* Magnitudes of a width; what would follow its largest finite one is infinity.
WideMags   == 0 .. Inf
NarrowMags == {f \in 0 .. Inf - 1 : Units(f) \in NarrowUnits} \cup {Inf}
Magnitudes(width) == IF width = "wide" THEN WideMags ELSE NarrowMags

Overflow(width) == IF width = "wide" THEN Units(Inf)
                   ELSE NarrowUnit * Power(2, NM + Power(2, NE) - 2)

Representable(width) == Magnitudes(width) \cup {Neg(m) : m \in Magnitudes(width)}
MaxFinite == [w \in {"wide", "narrow"} |-> Max(Magnitudes(w) \ {Inf})]
SmallestNormal(width) ==
    IF width = "wide" THEN Hidden ELSE (Bias - (Power(2, NE - 1) - 1) + 1) * Hidden

\* Round half to even: the magnitude nearest to u units.
Nearest(u, width) ==
    LET Far(f) == Abs(u - (IF f = Inf THEN Overflow(width) ELSE Units(f)))
        least  == Min({Far(f) : f \in Magnitudes(width)})
        best   == {f \in Magnitudes(width) : Far(f) = least}
        Even(f) == Cardinality({g \in Magnitudes(width) : g < f}) % 2 = 0
    IN  CHOOSE f \in best : Cardinality(best) = 1 \/ Even(f)

Narrowed == [f \in WideMags \ {Inf} |-> Nearest(Units(f), "narrow")]

NarrowToWidth(f, width) == IF ~IsFinite(f) \/ width = "wide" THEN f
                           ELSE IF IsNegative(f) THEN Neg(Narrowed[Mag(f)]) ELSE Narrowed[f]

--------------------------------------------------------------------------------
(* The lexical code: simpler-looking floats get smaller codes. *)

\* The order of exponents: whole numbers ascending, fractions descending, infinity.
ExponentKey(e) == IF e = MaxExp THEN 20000
                  ELSE IF e < Bias THEN 10000 - (e - Bias) ELSE e - Bias

\* The two tables.
EncodeExponent == [e \in 0 .. MaxExp |->
                     Cardinality({d \in 0 .. MaxExp : ExponentKey(d) < ExponentKey(e)})]
DecodeExponent == Inverse(EncodeExponent, 0 .. MaxExp, 0 .. MaxExp)

\* The low n bits of x, the lowest first.
ReverseBits(x, n) ==
    LET reversed[k \in Nat] == IF k = 0 THEN 0
                               ELSE 2 * reversed[k - 1] + ((x \div Power(2, k - 1)) % 2)
    IN  reversed[n]

\* The fractional bits of the mantissa, reversed in their place.
UpdateMantissa(unbiased, m) ==
    LET n == IF unbiased <= 0 THEN M ELSE M - unbiased
    IN  IF n <= 0 THEN m ELSE (m - (m % Power(2, n))) + ReverseBits(m % Power(2, n), n)

\* Mutant: every whole number is its own code.
IsWhole(f) == IsFinite(f) /\ Units(f) % One = 0

IsSimple(f) == /\ IsFinite(f)
               /\ Units(f) % One = 0
               /\ Units(f) \div One < Power(2, SimpleBits)

BaseFloatToLex(f) ==
    NegBit + EncodeExponent[Exp(f)] * Hidden + UpdateMantissa(Exp(f) - Bias, Mant(f))

FloatToLex(f) == IF IsSimple(f) THEN Units(f) \div One ELSE BaseFloatToLex(f)

LexToFloat(i) ==
    IF i >= NegBit
    THEN LET e == DecodeExponent[(i \div Hidden) % Power(2, E)]
         IN  e * Hidden + UpdateMantissa(e - Bias, i % Hidden)
    ELSE Nearest((i % Power(2, SimpleBits)) * One, "wide")

--------------------------------------------------------------------------------
(* Bounds. Constraints: min, max, allow_nan, snm (smallest nonzero magnitude). *)

SignAwareLte(x, y) == IF Mag(x) = 0 /\ Mag(y) = 0
                      THEN IsNegative(x) \/ ~IsNegative(y)
                      ELSE Num(x) <= Num(y)

PermittedFloat(f, c) ==
    IF IsNan(f) THEN c.allow_nan
    ELSE /\ ~(0 < Mag(f) /\ Mag(f) < c.snm)
         /\ SignAwareLte(c.min, f)
         /\ SignAwareLte(f, c.max)

ClampFloat(lower, f, upper) ==
    IF ~SignAwareLte(lower, f) THEN lower
    ELSE IF ~SignAwareLte(f, upper) THEN upper ELSE f

\* min + range * mantissa, rounded: somewhere in the range. An infinite min absorbs it.
Spread(fraction, c) ==
    IF fraction = 0 \/ ~IsFinite(c.min) THEN {c.min}
    ELSE {x \in AllFloats : ~IsNan(x) /\ Num(c.min) <= Num(x) /\ Num(x) <= Num(c.max)}

Raised(x, c) == IF ~(0 < Mag(x) /\ Mag(x) < c.snm) THEN x
                ELSE IF c.snm > Num(c.max) THEN Neg(c.snm) ELSE c.snm

\* make_float_clamper: the values f may be moved to.
Moved(fraction, c) == {ClampFloat(c.min, Raised(x, c), c.max) : x \in Spread(fraction, c)}
FloatClamp(f, c)   == IF PermittedFloat(f, c) THEN {f} ELSE Moved(Mant(f), c)

NextUp(f) == CASE IsNan(f) \/ f = Inf  -> f
               [] f = NegBit           -> 0
               [] IsNegative(f) /\ f # NegBit /\ ~IsNan(f) -> f - 1
               [] OTHER                -> f + 1
NextDown(f) == Neg(NextUp(Neg(f)))

\* One step up within the width; both zeros step to the smallest subnormal.
StepUpAtWidth(f, width) ==
    IF width = "wide" THEN NextUp(f)
    ELSE IF f = Inf THEN f
    ELSE IF Mag(f) = 0 THEN Min(Magnitudes(width) \ {0})
    ELSE IF IsNegative(f) THEN Neg(Max({m \in Magnitudes(width) : m < Mag(f)}))
    ELSE Min({m \in Magnitudes(width) : f < m})

\* Mutant: one step only.
NextUpOnce(f, width) == StepUpAtWidth(NarrowToWidth(f, width), width)

\* A second step when the first only changed the sign of a zero, or rounding went down.
SecondStep(step, f, width) ==
    IF IsFinite(step) /\ Num(step) <= Num(f) THEN StepUpAtWidth(step, width) ELSE step
NextUpWidth(f, width) == SecondStep(StepUpAtWidth(NarrowToWidth(f, width), width), f, width)
NextDownWidth(f, width) == Neg(NextUpWidth(Neg(f), width))

--------------------------------------------------------------------------------
(* floats(): the arguments, and the constraints and limits made of them.     *)
(* None, True and False of an optional argument are sets: {}, {TRUE}, {FALSE}*)
(* and an optional bound is {} or {f}.                                       *)

Invalid == [valid |-> FALSE]

\* The bound after an endpoint was excluded; an infinite one is as good as none.
Bound(bound, exclude, Step(_, _), width, open) ==
    {f \in {IF exclude THEN Step(b, width) ELSE b : b \in bound} : f # open}

Validated(args, min, max) ==
    LET closed == min # {} /\ max # {}
        inexact == \E b \in args.min \cup args.max :
                      Num(NarrowToWidth(b, args.width)) # Num(b)
        crossed == \E lo \in min, hi \in max : ~SignAwareLte(lo, hi)
        norm == SmallestNormal(args.width)
        subnormal ==
            IF args.allow_subnormal # {} THEN args.allow_subnormal = {TRUE}
            ELSE (\A lo \in min : Num(lo) < norm) /\ (\A hi \in max : Num(hi) > -norm)
    IN  IF \/ inexact
           \/ args.allow_nan = {TRUE} /\ args.min \cup args.max # {}
           \/ args.exclude_min /\ args.min \in {{}, {Inf}}
           \/ args.exclude_max /\ args.max \in {{}, {Neg(Inf)}}
           \/ crossed
           \/ args.allow_infinity = {TRUE} /\ closed
           \/ args.allow_infinity = {FALSE} /\ (min = {Inf} \/ max = {Neg(Inf)})
           \/ subnormal /\ \/ \E lo \in min : Num(lo) >= norm
                           \/ \E hi \in max : Num(hi) <= -norm
        THEN Invalid
        ELSE [valid |-> TRUE,
              min |-> IF min = {} THEN Neg(Inf) ELSE CHOOSE lo \in min : TRUE,
              max |-> IF max = {} THEN Inf ELSE CHOOSE hi \in max : TRUE,
              allow_nan |-> IF args.allow_nan = {} THEN args.min \cup args.max = {}
                            ELSE args.allow_nan = {TRUE},
              allow_inf |-> IF args.allow_infinity = {} THEN ~closed
                            ELSE args.allow_infinity = {TRUE},
              snm |-> IF subnormal THEN 1 ELSE norm,
              width |-> args.width]

FloatsParams(args) ==
    Validated(args, Bound(args.min, args.exclude_min, NextUpWidth, args.width, Neg(Inf)),
                    Bound(args.max, args.exclude_max, NextDownWidth, args.width, Inf))

\* A permitted float, one of the preferred candidates or not, or what a random one
\* that is not permitted is moved to, by the fraction its mantissa is.
Weird(c) == {0, NegBit, Inf, Neg(Inf), Inf + 1, Neg(Inf + 1), 1, Neg(1),
             c.min, NextUp(c.min), NextDown(c.max), c.max}
SampledFloats(c) ==
    {f \in AllFloats \cup Weird(c) : PermittedFloat(f, c)} \cup
    UNION {Moved(m, c) : m \in {Lesser(Mant(f), 1) : f \in {g \in AllFloats : ~PermittedFloat(g, c)}}}

\* Mutant: open bounds always close.
DrawBoundsClosed(p) ==
    LET top == MaxFinite[p.width]
    IN  [min |-> IF Num(p.min) < -top THEN Neg(top) ELSE p.min,
         max |-> IF Num(p.max) > top THEN top ELSE p.max,
         allow_nan |-> p.allow_nan, snm |-> p.snm]

\* The effective constraints of a draw: open bounds close when infinity is disallowed.
DrawBounds(p) ==
    LET top == MaxFinite[p.width]
    IN  [min |-> IF p.min = Neg(Inf) THEN IF p.allow_inf THEN p.min ELSE Neg(top)
                 ELSE IF Num(p.min) < -top THEN Neg(top) ELSE p.min,
         max |-> IF p.max = Inf THEN IF p.allow_inf THEN p.max ELSE top
                 ELSE IF Num(p.max) > top THEN top ELSE p.max,
         allow_nan |-> p.allow_nan, snm |-> p.snm]

\* The value returned for the one recorded: narrowed, then back into the bounds.
DrawnFloat(v, p) ==
    LET c == DrawBounds(p)
        n == NarrowToWidth(v, p.width)
    IN  IF p.width = "wide" \/ ~IsFinite(v) THEN v
        ELSE IF Num(n) < Num(c.min) THEN c.min
        ELSE IF Num(n) > Num(c.max) THEN c.max ELSE n

================================================================================
