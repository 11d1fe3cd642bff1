----------------------------- MODULE IntervalSets -----------------------------
(* intervalset.rs: a set of code points as a sequence of intervals           *)
(* [lo, hi], ascending. Positions count from 0, as in the code.              *)
EXTENDS Numbers, Sequences, SequencesExt

CONSTANTS ASCII_ZERO, ASCII_Z   \* the code points of '0' and 'Z'

ASSUME AsciiAssumption == ASCII_ZERO \in Nat /\ ASCII_Z \in Nat /\ ASCII_ZERO <= ASCII_Z

\* The two exceptions, in the place of a position and of a code point.
NotInList == -1
BadIndex  == -1

Intervals == Seq([lo : Int, hi : Int])

Width(iv) == iv.hi - iv.lo + 1

\* What a sequence of intervals stands for.
Members(ivs) == UNION {ivs[k].lo .. ivs[k].hi : k \in DOMAIN ivs}

\* offsets[k] : the number of members before interval k.
Offset(ivs, k) == FoldLeft(LAMBDA acc, iv : acc + Width(iv), 0, SubSeq(ivs, 1, k - 1))

Size(ivs) == Offset(ivs, Len(ivs) + 1)

\* The first interval not wholly below v, if any.
Reaches(ivs, v) == {k \in DOMAIN ivs : v <= ivs[k].hi}
FirstReach(ivs, v) == CHOOSE k \in Reaches(ivs, v) : \A j \in Reaches(ivs, v) : k <= j

IndexAbove(ivs, v) ==
    IF Reaches(ivs, v) = {} THEN Size(ivs)
    ELSE LET k == FirstReach(ivs, v)
         IN  Offset(ivs, k) + Greater(0, v - ivs[k].lo)

OrdinalOf(ivs, v) ==
    IF Reaches(ivs, v) = {} \/ ivs[FirstReach(ivs, v)].lo > v THEN NotInList
    ELSE Offset(ivs, FirstReach(ivs, v)) + v - ivs[FirstReach(ivs, v)].lo

\* Mutant: the shrink order starts at the first character.
IdxOfFirst(ivs) == 0

IdxOfZero(ivs) == IndexAbove(ivs, ASCII_ZERO)
IdxOfZ(ivs)    == Lesser(IndexAbove(ivs, ASCII_Z), Greater(Size(ivs) - 1, 0))

\* The interval of position i: the last, or found by bisection between lo and hi.
Segment(ivs, i) ==
    LET Bisect[ends \in (1 .. Len(ivs)) \X (1 .. Len(ivs))] ==
            LET lo  == ends[1]
                hi  == ends[2]
                mid == (lo + hi) \div 2
            IN  IF lo + 1 >= hi THEN lo
                ELSE IF Offset(ivs, mid) <= i THEN Bisect[<<mid, hi>>] ELSE Bisect[<<lo, mid>>]
    IN  IF Offset(ivs, Len(ivs)) > i THEN Bisect[<<1, Len(ivs)>>] ELSE Len(ivs)

GetItem(ivs, index) ==
    LET i == IF index < 0 THEN index + Size(ivs) ELSE index
    IN  IF i \notin 0 .. Size(ivs) - 1 THEN BadIndex
        ELSE ivs[Segment(ivs, i)].lo + i - Offset(ivs, Segment(ivs, i))

\* Shrink order: '0' to 'Z' first, then what lies below '0' downwards, then the rest.
ShrinkIndexOf(ivs, cp) ==
    LET i == OrdinalOf(ivs, cp)
        zero == IdxOfZero(ivs)
        z == IdxOfZ(ivs)
    IN  IF i = NotInList THEN NotInList
        ELSE IF i > z THEN i
        ELSE IF zero <= i THEN i - zero
        ELSE zero - i + (z - zero)

CharInShrinkOrder(ivs, i) ==
    LET zero == IdxOfZero(ivs)
        z == IdxOfZ(ivs)
    IN  IF i > z THEN GetItem(ivs, i)
        ELSE IF i <= z - zero THEN GetItem(ivs, i + zero)
        ELSE GetItem(ivs, zero - (i - (z - zero)))

--------------------------------------------------------------------------------
(* The algebra. *)

\* The order of intervals: by lower end, then by upper end.
Before(x, y) == x.lo < y.lo \/ (x.lo = y.lo /\ x.hi < y.hi)

Insert(sorted, iv) ==
    LET after == {k \in DOMAIN sorted : Before(iv, sorted[k])}
    IN  IF after = {} THEN Append(sorted, iv) ELSE InsertAt(sorted, Min(after), iv)

\* all.sort_unstable(): what is equal is the same interval, so any sort gives this.
Sorted(ivs) == FoldLeft(Insert, <<>>, ivs)

\* Mutant: an interval inside the last one cuts it short.
MergeToLast(merged, iv) ==
    IF merged # <<>> /\ iv.lo <= Last(merged).hi + 1
    THEN Append(Front(merged), [Last(merged) EXCEPT !.hi = iv.hi])
    ELSE Append(merged, iv)

\* One interval merged into those already merged: overlapping or adjacent ones grow.
Merge(merged, iv) ==
    IF merged # <<>> /\ iv.lo <= Last(merged).hi + 1
    THEN Append(Front(merged), [Last(merged) EXCEPT !.hi = Greater(iv.hi, @)])
    ELSE Append(merged, iv)

Union(x, y) == IF x = <<>> THEN y
               ELSE IF y = <<>> THEN x
               ELSE FoldLeft(Merge, <<>>, Sorted(x \o y))

\* from_string: the sorted characters, merged by a union with themselves.
OfChars(cps) ==
    LET single == Sorted([k \in DOMAIN cps |-> [lo |-> cps[k], hi |-> cps[k]]])
    IN  Union(single, single)

\* What the two pointers have still to pass: of this set, and of the one taken from it.
Difference[rest \in Intervals \X Intervals] ==
    LET x == rest[1]
        y == rest[2]
        a == Head(x)
        b == Head(y)
        before == IF b.lo > a.lo THEN <<[lo |-> a.lo, hi |-> b.lo - 1]>> ELSE <<>>
    IN  IF x = <<>> \/ y = <<>> THEN x
        ELSE IF b.hi < a.lo THEN Difference[<<x, Tail(y)>>]
        ELSE IF b.lo > a.hi THEN <<a>> \o Difference[<<Tail(x), y>>]
        ELSE before \o (IF b.hi >= a.hi THEN Difference[<<Tail(x), y>>]
                        ELSE Difference[<<<<[a EXCEPT !.lo = b.hi + 1]>> \o Tail(x), Tail(y)>>])

\* Likewise of two sets.
Intersection[rest \in Intervals \X Intervals] ==
    LET x == rest[1]
        y == rest[2]
        a == Head(x)
        b == Head(y)
    IN  IF x = <<>> \/ y = <<>> THEN <<>>
        ELSE IF a.lo > b.hi THEN Intersection[<<x, Tail(y)>>]
        ELSE IF b.lo > a.hi THEN Intersection[<<Tail(x), y>>]
        ELSE <<[lo |-> Greater(a.lo, b.lo), hi |-> Lesser(a.hi, b.hi)]>> \o
             (IF a.hi < b.hi THEN Intersection[<<Tail(x), y>>] ELSE Intersection[<<x, Tail(y)>>])

\* __iter__: the members in the order of the intervals.
Elements(ivs) ==
    FlattenSeq([k \in DOMAIN ivs |-> [n \in 1 .. Width(ivs[k]) |-> ivs[k].lo + n - 1]])

================================================================================
