------------------------------ MODULE MCChoiceTree ------------------------------
(* ChoiceTree for TLC: tests that draw up to three small choices, the later    *)
(* ones depending on the earlier, where one example may end unlike the others. *)
EXTENDS ChoiceTree

MCValues == 0 .. 2
MCPaths  == UNION {[1 .. n -> MCValues] : n \in 0 .. 3}

\* A boolean, a forced one, integers(5, 5), integers(0, 2), and a float.
Kinds == {"boolean", "forced", "single", "range", "float"}

Drawn(kind) == CASE kind = "boolean" -> {0, 1}
                 [] kind = "forced"  -> {1}
                 [] kind = "single"  -> {0}
                 [] kind = "range"   -> {0, 1, 2}
                 [] kind = "float"   -> {0, 1}

Counted(kind) == CASE kind \in {"boolean", "forced"} -> 2
                   [] kind = "single" -> 1
                   [] kind = "range"  -> 3
                   [] kind = "float"  -> None

\* What is drawn first, and what after each value of it, if anything.
Flat   == {[p \in {<<>>} |-> k] : k \in Kinds}
Nested == UNION {{[p \in {<<>>} \cup {<<v>> : v \in V} |-> IF p = <<>> THEN k ELSE f[p[1]]] :
                     f \in [V -> Kinds \ (IF k = "range" THEN {"range", "float"} ELSE {})]} :
                  <<k, V>> \in {kv \in (Kinds \ {"float"}) \X SUBSET MCValues :
                                  /\ kv[2] # {} /\ kv[2] \subseteq Drawn(kv[1])
                                  /\ kv[1] = "range" => Cardinality(kv[2]) = 1}}
Deep   == {[p \in {<<>>, <<1>>, <<1, 0>>} |-> IF p = <<>> THEN k ELSE "boolean"] : k \in {"boolean", "forced"}}
Shapes == {<<>>} \cup Flat \cup Nested \cup Deep

ExamplesOf(shape) ==
    {s \in MCPaths \ DOMAIN shape : \A i \in 1 .. Len(s) :
        Before(s, i) \in DOMAIN shape /\ s[i] \in Drawn(shape[Before(s, i)])}

\* Where the body starts matters only up to the end of the examples; rejected ones may
\* be so while drawing, where some are rejected.
MCTests ==
    UNION {{t \in [shape : {shape}, usual : {"valid", "invalid"}, odd : ExamplesOf(shape),
                   other : {"valid", "interesting", "overrun"},
                   arguments : IF Cardinality(DOMAIN shape) > 2 THEN {0, 3}
                               ELSE {0, 1 + Cardinality(DOMAIN shape)},
                   early : BOOLEAN] :
              /\ t.early => t.arguments > 0 /\ (t.usual = "invalid" \/ t.other = "overrun")
              /\ t.usual # t.other} : shape \in Shapes}

MCNodeAt(t, p) ==
    IF p \in DOMAIN t.shape
    THEN LET values == Drawn(t.shape[p])
         IN  [end |-> FALSE, values |-> values, simplest |-> CHOOSE v \in values : \A w \in values : v <= w,
              max |-> Counted(t.shape[p]), body |-> Len(p) >= t.arguments]
    ELSE LET outcome == IF p = t.odd THEN t.other ELSE t.usual
         IN  [end |-> TRUE, outcome |-> outcome,
              drawing |-> t.early /\ outcome \in {"invalid", "overrun"} /\ Len(p) <= t.arguments]

================================================================================
