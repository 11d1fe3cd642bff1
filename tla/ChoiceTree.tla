------------------------------- MODULE ChoiceTree -------------------------------
(* The two trees of choice sequences in run_native (engine.rs) and the search *)
(* they steer: all_tree recognises examples that already ran and the end of a *)
(* finite space, invalid_tree tells an unsatisfiable test from one that only  *)
(* filters much. A tree is flat here, a function from its paths to its nodes. *)
(*                                                                            *)
(* A test, with its strategies, is what comes after each sequence of choices: *)
(* another choice, whose values are those a draw may give, or an end.         *)
EXTENDS Integers, Sequences, FiniteSets

CONSTANTS Tests,
          Values,
          Paths,         \* the sequences of choices, at most so long
          NodeAt(_, _),  \* [end: FALSE, values, simplest, max, body] after a path of a
                         \* test, or [end: TRUE, outcome, drawing]
          None,
          MAX_EXAMPLES, CAP, INVALID_GIVE_UP,
          MAX_TRACKED_NODES, MAX_TOTAL_TRACKED_NODES

Outcomes == {"valid", "invalid", "overrun", "interesting"}
Verdicts == {"failed", "passed", "too_large", "unsatisfiable", "filter_too_much"}

Before(s, i) == SubSeq(s, 1, i - 1)

\* max counts the values a choice could have; forced ones have fewer.
IsChoice(n) == /\ n.end = FALSE /\ n.body \in BOOLEAN /\ n.simplest \in n.values
               /\ n.max \in Nat \cup {None}
               /\ n.max # None => IsFiniteSet(n.values) /\ Cardinality(n.values) <= n.max

IsEnd(n) == n.end = TRUE /\ n.outcome \in Outcomes /\ n.drawing \in BOOLEAN

ASSUME ChoiceTreeAssumption ==
    /\ <<>> \in Paths
    /\ Paths \subseteq Seq(Values)
    /\ \A s \in Paths : \A i \in 1 .. Len(s) : Before(s, i) \in Paths
    /\ \A t \in Tests, s \in Paths : IsChoice(NodeAt(t, s)) \/ IsEnd(NodeAt(t, s))
    /\ None \notin Nat \cup Verdicts
    /\ {MAX_EXAMPLES, CAP, INVALID_GIVE_UP, MAX_TRACKED_NODES, MAX_TOTAL_TRACKED_NODES} \subseteq Nat

VARIABLES test,
          multiple,       \* report_multiple_bugs
          phase,          \* "simplest", "generate", "judged"
          all,            \* all_tree
          rejected,       \* invalid_tree
          track,          \* track_tree
          tracked_nodes,
          valid, invalid, overrun, iters,
          bug,            \* bugs is not empty
          keep_going,
          ran,            \* the examples executed to an outcome
          verdict

counts == <<valid, invalid, overrun, bug, ran>>
trees  == <<all, track, tracked_nodes>>
vars   == <<test, multiple, phase, trees, rejected, counts, iters, keep_going, verdict>>

--------------------------------------------------------------------------------
(* Examples. *)

\* The sequences along which the test t draws.
Drawable(t, s) == \A i \in 1 .. Len(s) : LET n == NodeAt(t, Before(s, i))
                                         IN  ~n.end /\ s[i] \in n.values
Examples(t) == {s \in Paths : Drawable(t, s) /\ NodeAt(t, s).end}

\* Whatever is drawn, the example goes on and ends: by the test or by an overrun.
ASSUME EveryDrawEnds ==
    \A t \in Tests :
        LET examples == Examples(t)
        IN  \A s \in Paths : Drawable(t, s) /\ ~NodeAt(t, s).end =>
               \A v \in NodeAt(t, s).values :
                  \E e \in examples : Len(s) < Len(e) /\ Before(e, Len(s) + 1) = s /\ e[Len(s) + 1] = v

\* new_simplest: every choice at its simplest.
Simplest == {s \in Examples(test) : \A i \in 1 .. Len(s) : s[i] = NodeAt(test, Before(s, i)).simplest}

\* The choices of the arguments: all before the first one of the body.
InBody(t, s) == {i \in 1 .. Len(s) : NodeAt(t, Before(s, i)).body}
ArgumentsOf(s) == LET body == InBody(test, s)
                  IN  IF body = {} THEN s
                      ELSE Before(s, CHOOSE i \in body : \A j \in body : i <= j)

--------------------------------------------------------------------------------
(* TreeNode. *)

NewNode   == [max |-> None, terminal |-> FALSE]
EmptyTree == [p \in {<<>>} |-> NewNode]

Prefixes(s) == {Before(s, i) : i \in 1 .. Len(s) + 1}

OldNode(tree, p) == IF p \in DOMAIN tree THEN tree[p] ELSE NewNode

Add(tree, s) ==
    [p \in DOMAIN tree \cup Prefixes(s) |->
        LET old == OldNode(tree, p)
        IN  [max      |-> IF p \in Prefixes(s) \ {s} /\ old.max = None THEN NodeAt(test, p).max ELSE old.max,
             terminal |-> old.terminal \/ p = s]]

HasTerminal(tree, s) == s \in DOMAIN tree /\ tree[s].terminal

Children(tree, p) == {q \in DOMAIN tree : Len(q) = Len(p) + 1 /\ Before(q, Len(q)) = p}

\* Mutant: a choice with no count of its values does not matter.
ExhaustedUncounted(tree) ==
    \A p \in DOMAIN tree :
        IF Children(tree, p) = {} THEN tree[p].terminal
        ELSE tree[p].max = None \/ Cardinality(Children(tree, p)) >= tree[p].max

\* Mutant: only the first choice is looked at.
ExhaustedAtRoot(tree) ==
    IF Children(tree, <<>>) = {} THEN tree[<<>>].terminal
    ELSE tree[<<>>].max # None /\ Cardinality(Children(tree, <<>>)) >= tree[<<>>].max

Exhausted(tree) ==
    \A p \in DOMAIN tree :
        IF Children(tree, p) = {} THEN tree[p].terminal
        ELSE tree[p].max # None /\ Cardinality(Children(tree, p)) >= tree[p].max

Uncounted(s) == \E i \in 1 .. Len(s) : NodeAt(test, Before(s, i)).max = None

\* track_example, of what was recorded.
TrackExample(s) ==
    IF ~track \/ Len(s) > MAX_TRACKED_NODES \/ Uncounted(s)
    THEN track' = FALSE /\ UNCHANGED <<all, tracked_nodes>>
    ELSE /\ all' = Add(all, s)
         /\ tracked_nodes' = tracked_nodes + Len(s)
         /\ track' = (tracked_nodes' <= MAX_TOTAL_TRACKED_NODES)

--------------------------------------------------------------------------------
(* The search. *)

\* An example is executed to its outcome. Invalid ones go into invalid_tree, while
\* none was valid.
Execute(s) ==
    LET outcome == NodeAt(test, s).outcome
        fails   == outcome \in {"invalid", "overrun"}
    IN  /\ valid'   = IF outcome = "valid" THEN valid + 1 ELSE valid
        /\ invalid' = IF fails THEN invalid + 1 ELSE invalid
        /\ overrun' = IF outcome = "overrun" THEN overrun + 1 ELSE overrun
        /\ bug'     = (bug \/ outcome = "interesting")
        /\ rejected' = IF fails /\ valid = 0 THEN Add(rejected, s) ELSE rejected
        /\ ran' = ran + 1
        /\ TrackExample(s)

RunSimplest ==
    /\ phase = "simplest"
    /\ \E s \in Simplest : Execute(s)
    /\ keep_going' = (~bug' \/ multiple)
    /\ phase' = "generate"
    /\ UNCHANGED <<test, multiple, iters, verdict>>

MayGenerate == keep_going /\ valid < MAX_EXAMPLES /\ iters < CAP

\* The stopping rules at the end of an iteration. When the search for more bugs has
\* gone on for long enough is left open here, Runner counts it out.
Iterated ==
    LET stops == \/ bug' /\ ~multiple
                 \/ track' /\ Exhausted(all')
                 \/ valid' = 0 /\ invalid' >= INVALID_GIVE_UP
    IN  /\ keep_going' \in IF stops THEN {FALSE} ELSE IF bug' THEN BOOLEAN ELSE {TRUE}
        /\ iters' = iters + 1
        /\ UNCHANGED <<test, multiple, phase, verdict>>

\* An example is recognised when its arguments are drawn; then its body does not run.
Redundant(s) == /\ track
                /\ ~NodeAt(test, s).drawing
                /\ HasTerminal(all, ArgumentsOf(s))

Generate ==
    /\ phase = "generate" /\ MayGenerate
    /\ \E s \in Examples(test) : ~Redundant(s) /\ Execute(s)
    /\ Iterated

GenerateRedundant ==
    /\ phase = "generate" /\ MayGenerate
    /\ \E s \in Examples(test) : Redundant(s) /\ TrackExample(ArgumentsOf(s))
    /\ UNCHANGED <<rejected, counts>>
    /\ Iterated

\* What is said of a search that found no bug.
Judge ==
    /\ phase = "generate" /\ ~MayGenerate
    /\ verdict' = IF bug THEN "failed"
                  ELSE IF valid > 0 \/ invalid = 0 THEN "passed"
                  ELSE IF overrun = invalid THEN "too_large"
                  ELSE IF Exhausted(rejected) THEN "unsatisfiable" ELSE "filter_too_much"
    /\ phase' = "judged"
    /\ UNCHANGED <<test, multiple, trees, rejected, counts, iters, keep_going>>

Init ==
    /\ test \in Tests /\ multiple \in BOOLEAN
    /\ phase = "simplest" /\ verdict = None
    /\ all = EmptyTree /\ rejected = EmptyTree
    /\ track = TRUE /\ tracked_nodes = 0
    /\ valid = 0 /\ invalid = 0 /\ overrun = 0 /\ iters = 0 /\ ran = 0
    /\ bug = FALSE /\ keep_going = TRUE

Next == RunSimplest \/ Generate \/ GenerateRedundant \/ Judge

Spec == Init /\ [][Next]_vars

--------------------------------------------------------------------------------
(* Properties. *)

Outcome(s) == NodeAt(test, s).outcome

\* engine.rs: what is concluded from an exhausted tree is true of all the examples
\* there are: when a test is called unsatisfiable each of them is rejected, and when
\* the search ends for want of new ones without a bug, none of them fails.
ExhaustionIsTrue ==
    /\ verdict = "unsatisfiable" => \A s \in Examples(test) : Outcome(s) \in {"invalid", "overrun"}
    /\ verdict # None /\ ~bug /\ track /\ Exhausted(all) =>
          \A s \in Examples(test) : Outcome(s) # "interesting"

\* Examples that end while their arguments are drawn, or draw on in the body, run
\* again before they are recognised.
Repeatable(t) == {s \in Examples(t) : NodeAt(t, s).drawing \/ InBody(t, s) # {}}

\* No draw is forced, no space infinite: every value counted can be drawn.
Countable(t) == \A s \in Examples(t) : \A i \in 1 .. Len(s) :
                   LET n == NodeAt(t, Before(s, i)) IN n.max = Cardinality(n.values)

N == INSTANCE Novelty WITH
        explored  <- {s \in DOMAIN all : all[s].terminal},
        remembers <- track,
        exhausted <- track /\ Exhausted(all),
        searching <- keep_going /\ phase # "judged"

\* "so a finite strategy like booleans() yields each value once" (engine.rs): the search
\* implements Novelty.
SearchesForNew == N!Spec

================================================================================
