-------------------------------- MODULE Choices --------------------------------
(* choice.rs: what makes a choice permitted, and its complexity index.       *)
(*                                                                           *)
(* A choice is [type, value]; its constraints are a record of the fields the *)
(* code reads from the dict. An optional bound of an integer is a pair of    *)
(* fields, has_min and min_value (None is has_min = FALSE). The value of a   *)
(* string or of bytes is its sequence of orders: the places of its           *)
(* characters in the alphabet, counted in shrink order (IntervalSets).       *)
EXTENDS Numbers, Sequences, SequencesExt

CONSTANTS BUFFER_SIZE   \* the longest collection an index may decode to

ASSUME BufferAssumption == BUFFER_SIZE \in Nat \ {0}

--------------------------------------------------------------------------------
(* Integers. *)

IntConstraints == [has_min : BOOLEAN, min_value : Int,
                   has_max : BOOLEAN, max_value : Int, shrink_towards : Int]

\* Validated where the constraints are made: the bounds are not crossed.
Sensible(c) == c.has_min /\ c.has_max => c.min_value <= c.max_value

IntPermitted(v, c) == /\ c.has_min => c.min_value <= v
                      /\ c.has_max => v <= c.max_value

Zigzag(v, st) == 2 * Abs(st - v) - (IF v > st THEN 1 ELSE 0)

Unzigzag(n, st) == st + (IF n % 2 = 0 THEN -((n + 1) \div 2) ELSE (n + 1) \div 2)

ShrinkTowards(c) ==
    LET raised == IF c.has_min /\ c.min_value > c.shrink_towards
                  THEN c.min_value ELSE c.shrink_towards
    IN  IF c.has_max /\ c.max_value < raised THEN c.max_value ELSE raised

\* Which bound ends the zigzag around the target: the nearer one.
LowerEnds(c) == c.has_min /\ (c.has_max => ShrinkTowards(c) - c.min_value
                                            < c.max_value - ShrinkTowards(c))

IntToIndex(v, c) ==
    LET st == ShrinkTowards(c)
    IN  IF LowerEnds(c)
          THEN IF Abs(v - st) <= st - c.min_value THEN Zigzag(v, st) ELSE v - c.min_value
        ELSE IF c.has_max
          THEN IF Abs(v - st) <= c.max_value - st THEN Zigzag(v, st) ELSE c.max_value - v
        ELSE Zigzag(v, st)

\* Mutant: the zigzag ends one index too early.
IntFromIndexEarly(n, c) ==
    LET st == ShrinkTowards(c)
    IN  IF LowerEnds(c)
          THEN IF n < Zigzag(c.min_value, st) THEN Unzigzag(n, st) ELSE n + c.min_value
        ELSE IF c.has_max
          THEN IF n < Zigzag(c.max_value, st) THEN Unzigzag(n, st) ELSE c.max_value - n
        ELSE Unzigzag(n, st)

IntFromIndex(n, c) ==
    LET st == ShrinkTowards(c)
    IN  IF LowerEnds(c)
          THEN IF n <= Zigzag(c.min_value, st) THEN Unzigzag(n, st) ELSE n + c.min_value
        ELSE IF c.has_max
          THEN IF n <= Zigzag(c.max_value, st) THEN Unzigzag(n, st) ELSE c.max_value - n
        ELSE Unzigzag(n, st)

--------------------------------------------------------------------------------
(* Strings and bytes: shortlex over an alphabet of a letters. *)

\* How many collections are shorter than size.
SizeToIndex(size, a) == IF a = 0 THEN 0
                        ELSE IF a = 1 THEN size
                        ELSE (Power(a, size) - 1) \div (a - 1)

IndexToSize(n, a) ==
    LET log[total \in Nat] == IF total < a THEN 0 ELSE 1 + log[total \div a]
    IN  IF a = 0 THEN 0 ELSE IF a = 1 THEN n ELSE log[n * (a - 1) + 1]

\* The number whose digits in base a the orders are, the last the lowest.
Digits(orders, a) == FoldLeft(LAMBDA acc, d : acc * a + d, 0, orders)

CollectionToIndex(orders, min_size, a) ==
    SizeToIndex(Len(orders), a) - SizeToIndex(min_size, a) + Digits(orders, a)

\* The one collection of an index; none (ChoiceTooLarge) from BUFFER_SIZE elements on.
CollectionFromIndex(n, min_size, a) ==
    LET index == n + SizeToIndex(min_size, a)
        size  == IndexToSize(index, a)
        rest  == index - SizeToIndex(size, a)
    IN  IF size >= BUFFER_SIZE THEN {}
        ELSE {[i \in 1 .. size |->
                 IF rest = 0 THEN 0 ELSE (rest % Power(a, size - i + 1)) \div Power(a, size - i)]}

--------------------------------------------------------------------------------
(* Booleans: p is "0", "1", "tiny" or "almost1" (within 2^-64 of them), "mid". *)

BoolToIndex(b, c) == IF c.p = "mid" /\ b THEN 1 ELSE 0

BoolFromIndex(n, c) == CASE c.p \in {"0", "tiny"}    -> FALSE
                         [] c.p \in {"1", "almost1"} -> TRUE
                         [] OTHER                    -> n # 0

BoolPermitted(b, c) == (c.p = "0" => ~b) /\ (c.p = "1" => b)

================================================================================
