-------------------------------- MODULE MCExample --------------------------------
(* Small instances of Example: two elements, lists of up to three.            *)
EXTENDS Example

CONSTANTS MAX_LIST,     \* the longest list asked for
          MAX_SCRIPT,   \* the longest body
          MAX_HANDED    \* the longest prefix handed to for_choices

\* The choices: a boolean, and an integer of one, of two and of three bytes.
MCChoiceValues == {"true", "false", "i1", "i2", "i3"}

\* ElementC permits i1 and i2.
MCPermits(v, c) == IF c = "boolean" THEN v \in {"true", "false"} ELSE v \in {"i1", "i2"}
MCSimplest(c)   == IF c = "boolean" THEN {"false"} ELSE {"i1"}
MCSamples(c)    == IF c = "boolean" THEN {"true", "false"} ELSE {"i1", "i2"}
MCSizeOf(v)     == CASE v = "i2" -> 2 [] v = "i3" -> 3 [] OTHER -> 1

MCWanted == {w \in [min_size : 0 .. MAX_LIST, max_size : 0 .. MAX_LIST,
                    unique : BOOLEAN, just : BOOLEAN] : w.min_size <= w.max_size}

MCScripts == UNION {[1 .. n -> Steps] : n \in 0 .. MAX_SCRIPT}

MCHanded ==
    UNION {[1 .. n -> {Replayed(v) : v \in {"true", "i2", "i3"}} \cup
                      {Template(count) : count \in {0, 2, None}}] : n \in 1 .. MAX_HANDED}

================================================================================
