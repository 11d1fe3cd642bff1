----------------------------- MODULE MCShrinker -----------------------------
(* Shrinker for TLC: every test of a few small strategies.                  *)
EXTENDS Shrinker

CONSTANTS A, B, C

Node(kind, max, forced) == [kind |-> kind, max |-> max, forced |-> forced]

IntNode(max) == Node("integer", max, NoForce)

\* The strategies, by name:
\*   one   - integers(0, 3)
\*   two   - tuples(integers(0, 2), integers(0, 1))
\*   flat  - integers(0, 1).flatmap(lambda n: tuples(integers(0, 1), integers(0, 2))
\*             if n else tuples(integers(0, 2)))
\*   blob  - tuples(binary(), booleans()), of three byte strings
\*   list  - lists(integers(0, 1), max_size=2)
\*   pairs - lists(integers(0, 1), min_size=2, max_size=3)
\* A list draws a boolean before each element, forced while the list is too
\* short and once it is full.
List(p, min, max) ==
  LET count == Len(p) \div 2
      force == CASE count < min -> 1 [] count >= max -> 0 [] OTHER -> NoForce
  IN  IF p # <<>> /\ p[Len(p)] = <<"boolean", 0>> THEN End
      ELSE IF Len(p) % 2 = 0 THEN Node("boolean", 1, force) ELSE IntNode(1)

Tuple(p, maxes) ==
  IF Len(p) = Len(maxes) THEN End ELSE IntNode(maxes[Len(p) + 1])

Flat(p) ==
  Tuple(p, IF p = <<>> THEN <<1>> ELSE IF p[1][2] = 1 THEN <<1, 1, 2>> ELSE <<1, 2>>)

Blob(p) ==
  CASE Len(p) = 0 -> Node("bytes", 2, NoForce)
    [] Len(p) = 1 -> Node("boolean", 1, NoForce)
    [] OTHER      -> End

MCNodeAt(s, p) ==
  CASE s = "one"   -> Tuple(p, <<3>>)
    [] s = "two"   -> Tuple(p, <<2, 1>>)
    [] s = "flat"  -> Flat(p)
    [] s = "blob"  -> Blob(p)
    [] s = "list"  -> List(p, 0, 2)
    [] s = "pairs" -> List(p, 2, 3)

\* The complete examples of each strategy.
Ints(max) == {"integer"} \X (0 .. max)

ListOf(xs) ==
  FlattenSeq([i \in DOMAIN xs |-> << <<"boolean", 1>>, xs[i] >>]) \o << <<"boolean", 0>> >>
Lists(min, max) == {ListOf(xs) : xs \in UNION {[1 .. n -> Ints(1)] : n \in min .. max}}

MCExamples(s) ==
  CASE s = "one"   -> {<<x>> : x \in Ints(3)}
    [] s = "two"   -> {<<x, y>> : x \in Ints(2), y \in Ints(1)}
    [] s = "flat"  -> {<< <<"integer", 0>>, x >> : x \in Ints(2)} \cup
                        {<< <<"integer", 1>>, x, y >> : x \in Ints(1), y \in Ints(2)}
    [] s = "blob"  -> {<< <<"bytes", x>>, <<"boolean", y>> >> : x \in 0 .. 2, y \in 0 .. 1}
    [] s = "list"  -> Lists(0, 2)
    [] s = "pairs" -> Lists(2, 3)

\* Deterministic tests; for one integer also flaky and slipping ones, and for
\* two integers tests with three bugs.
MCResults(s) ==
  CASE s = "one" -> {{"pass"}, {A}, {B}, {"pass", A}, {A, B}}
    [] s = "two" -> {{A}, {B}, {C}}
    [] OTHER     -> {{"pass"}, {A}}

\* The test that always fails.
MCFails(s) == {{A}}
=============================================================================
