------------------------------ MODULE Shrinker ------------------------------
(***************************************************************************)
(* The shrink loop of engine.rs (shrink, delete_pass, the per-node pass,   *)
(* minimize_duplicated_choices, minimize_pairs_to_zero), one trial a step. *)
(*                                                                         *)
(* A choice is <<kind, index>>: its type and its complexity index under    *)
(* its constraints, 0 being the simplest.  A strategy says, from the       *)
(* choices made so far, which choice comes next.  The test under run maps  *)
(* every complete example to the outcomes executing it can have.  Left out *)
(* are the extra candidates tried for floats, and text: strings have a     *)
(* pass of their own, which lowers them character by character.            *)
(***************************************************************************)
EXTENDS Integers, Sequences, FiniteSets, SequencesExt, FiniteSetsExt

CONSTANTS
  NodeAt(_, _),   \* the next choice of a strategy after some choices, or End
  End,            \* the strategy draws no more
  NoForce,        \* a choice that is not forced
  MaxPasses,      \* iterations of the loop (300)
  MaxGrouped,     \* choices beyond which none are grouped or paired (256)
  ShrinkCaps,     \* the values of MAX_SHRINKS (500) explored
  Origins,        \* interesting origins
  Target,         \* the one being shrunk
  Strategies,     \* BOUND: the strategies explored
  Examples(_),    \* the complete examples of a strategy
  Results(_)      \* BOUND: what executing an example of a strategy can do

Outcomes == Origins \cup {"pass"}
ASSUME OriginsAssumption == Target \in Origins /\ "pass" \notin Origins
ASSUME GroupedAssumption == MaxGrouped \in Nat

\* The types of choices, and those that are lowered in pairs.
Scalars == {"integer", "float", "boolean"}
Kinds == Scalars \cup {"bytes"}

VARIABLES
  strategy, test, \* the program under test
  shrinkCap,      \* MAX_SHRINKS
  pc,             \* which pass of the loop is running
  choices,        \* what the next iteration replays, what is returned
  best,           \* the example best_args and best_exc were captured from
  canonical,      \* the choices of the last replay
  passes,         \* iterations begun
  shrinks,        \* total_shrinks
  limited,        \* the loop ended at a limit: the cap or the passes
  lastDeleteLen, retryDelete, runDelete, \* when deletion runs
  del,            \* delete_pass: cur, block size, start, improved
  work, probe,    \* groups of choices still to lower; the search in the first
  slipped         \* SLIPPED: <<origin, choices>>

given == <<strategy, test, shrinkCap>>
deleteVars == <<lastDeleteLen, retryDelete, runDelete, del>>
valueVars == <<work, probe>>
loopVars == <<best, canonical, passes, limited>>
vars == <<given, pc, choices, shrinks, loopVars, deleteVars, valueVars, slipped>>

-----------------------------------------------------------------------------
(* Replay: ConjectureData::draw_inner and pop_choice over a prefix.        *)

Permitted(v, node) == v[1] = node.kind /\ v[2] <= node.max

\* What a draw makes of the next prefix value: the forced value, the value
\* itself, or the simplest one if the value does not fit (misaligned).
Drawn(v, node) ==
  IF node.forced # NoForce THEN <<node.kind, node.forced>>
  ELSE IF Permitted(v, node) THEN v ELSE <<node.kind, 0>>

Drawable == [s \in Strategies |-> UNION {Prefixes(e) : e \in Examples(s)}]

\* The choices a draw at a node can make.
Draws(node) ==
  IF node.forced # NoForce THEN {<<node.kind, node.forced>>}
                           ELSE {node.kind} \X (0 .. node.max)

\* The examples of a strategy are all that it can draw, from the first choice
\* until it draws no more.
ASSUME StrategiesAssumption ==
  \A s \in Strategies :
    /\ Examples(s) \subseteq Seq(Kinds \X Nat)
    /\ \A e \in Examples(s) :
         /\ NodeAt(s, e) = End
         /\ \A i \in DOMAIN e :
              LET p == SubSeq(e, 1, i - 1)
                  node == NodeAt(s, p)
              IN  /\ node # End
                  /\ node \in [kind : Kinds, max : Nat, forced : Nat \cup {NoForce}]
                  /\ e[i] \in Draws(node)
                  /\ \A v \in Draws(node) : Append(p, v) \in Drawable[s]

\* The choices recorded when s replays raw: as many as it draws or raw holds.
Canon(s, raw) ==
  CHOOSE c \in Drawable[s] :
    /\ Len(c) = Len(raw) \/ (Len(c) < Len(raw) /\ NodeAt(s, c) = End)
    /\ \A i \in DOMAIN c : c[i] = Drawn(raw[i], NodeAt(s, SubSeq(c, 1, i - 1)))

\* One more draw than the prefix holds is an overrun, which is no failure.
Run(raw) ==
  LET c == Canon(strategy, raw)
  IN  IF c \in DOMAIN test THEN test[c] ELSE {"pass"}

Forced(c, i) == NodeAt(strategy, SubSeq(c, 1, i - 1)).forced # NoForce

\* choices_lt: shorter first, then the first difference decides.
Simpler(c, d) ==
  \/ Len(c) < Len(d)
  \/ /\ Len(c) = Len(d)
     /\ \E i \in DOMAIN c : c[i][2] < d[i][2] /\ \A j \in 1 .. i - 1 : c[j] = d[j]

-----------------------------------------------------------------------------

\* trial_fails: a trial counts when it fails with the origin being shrunk.
AcceptsAnyFailure(o) == o # "pass"
Accepts(o) == o = Target

\* A trial with another origin is remembered, once per origin.
Remembered == {slipped[i][1] : i \in DOMAIN slipped}
IsFirstSlip(o) == o \notin {"pass", Target} /\ slipped = <<>>
NewSlip(o) == o \notin {"pass", Target} \cup Remembered
Slip(raw, o) ==
  slipped' = IF NewSlip(o) THEN Append(slipped, <<o, raw>>) ELSE slipped

NoProbe == [stage |-> "zero", lo |-> 0, hi |-> 0]
NoDelete == [cur |-> <<>>, size |-> 1, start |-> 1, improved |-> FALSE]
BlockSizes == <<8, 4, 3, 2, 1>>

Init ==
  /\ strategy \in Strategies /\ shrinkCap \in ShrinkCaps
  /\ test \in [Examples(strategy) -> Results(strategy)]
  /\ choices \in {c \in Examples(strategy) : Target \in test[c]}
  /\ best = choices /\ canonical = <<>>
  /\ pc = "top" /\ passes = 0 /\ shrinks = 0 /\ limited = FALSE
  /\ lastDeleteLen = -1 /\ retryDelete = FALSE /\ runDelete = FALSE
  /\ del = NoDelete /\ work = {} /\ probe = NoProbe /\ slipped = <<>>

-----------------------------------------------------------------------------
(* The head of the loop: the limits, then a replay that recaptures what    *)
(* is reported and the choices to work on.                                 *)

Limit ==
  /\ pc = "top"
  /\ passes >= MaxPasses \/ shrinks >= shrinkCap
  /\ pc' = "done" /\ limited' = TRUE
  /\ UNCHANGED <<given, choices, shrinks, best, canonical, passes, deleteVars,
                 valueVars, slipped>>

\* Groups of choices to lower, each to one common value.
ValueWorkAtZero(c) == {{i} : i \in {j \in DOMAIN c : ~Forced(c, j)}}
ValueWork(c) == {{i} : i \in {j \in DOMAIN c : c[j][2] > 0 /\ ~Forced(c, j)}}

\* Choices are grouped and paired in examples that are not too long.
Grouped(c) == IF Len(c) <= MaxGrouped THEN DOMAIN c ELSE {}

DuplicateWork(c) ==
  LET Same(i) == {j \in DOMAIN c : c[j] = c[i]}
  IN  {Same(i) : i \in {j \in Grouped(c) : c[j][2] > 0 /\ Same(j) # {j}}}

PairWindow == 8
PairWork(c) ==
  LET above == {i \in Grouped(c) : c[i][1] \in Scalars /\ c[i][2] > 0}
  IN  UNION {{{i, j} : j \in above \cap (i + 1 .. i + PairWindow)} : i \in above}

\* Groups are worked on from left to right.
First(groups) ==
  CHOOSE g \in groups :
    \A h \in groups : \/ Min(g) < Min(h)
                      \/ Min(g) = Min(h) /\ Max(g) <= Max(h)

StartValues(c) == pc' = "values" /\ work' = ValueWork(c) /\ probe' = NoProbe

\* Deletion runs once per length, and once more at the values' fixpoint.
Replay(o) ==
  /\ pc = "top" /\ passes < MaxPasses /\ shrinks < shrinkCap
  /\ o \in Run(choices)
  /\ passes' = passes + 1
  /\ IF o = "pass"
       THEN /\ pc' = "done"
            /\ UNCHANGED <<best, canonical, deleteVars, valueVars>>
       ELSE LET c == Canon(strategy, choices)
                run == lastDeleteLen # Len(c) \/ retryDelete
            IN  /\ best' = c /\ canonical' = c
                /\ runDelete' = run
                /\ IF run
                     THEN /\ lastDeleteLen' = Len(c) /\ retryDelete' = FALSE
                          /\ del' = [NoDelete EXCEPT !.cur = c]
                          /\ pc' = "delete" /\ UNCHANGED valueVars
                     ELSE StartValues(c) /\ UNCHANGED <<lastDeleteLen, retryDelete, del>>
  /\ UNCHANGED <<given, choices, shrinks, limited, slipped>>

\* A pass that shrank: back to the head of the loop with the new choices.
ShrunkAndStops(c) == choices' = c /\ shrinks' = shrinks + 1 /\ pc' = "done"
Shrunk(c) == choices' = c /\ shrinks' = shrinks + 1 /\ pc' = "top"

-----------------------------------------------------------------------------
(* PASS 1, adaptive deletion of blocks of choices.                         *)

Without(c, start, size) == SubSeq(c, 1, start - 1) \o SubSeq(c, start + size, Len(c))

Deleting == pc = "delete" /\ del.size <= Len(BlockSizes)
BlockFits == del.start + BlockSizes[del.size] - 1 <= Len(del.cur)

DeleteTrial(o) ==
  /\ Deleting /\ BlockFits
  /\ LET trial == Without(del.cur, del.start, BlockSizes[del.size])
     IN  /\ o \in Run(trial)
         /\ Slip(trial, o)
         /\ del' = IF Accepts(o) THEN [del EXCEPT !.cur = trial, !.improved = TRUE]
                                 ELSE [del EXCEPT !.start = @ + 1]
  /\ UNCHANGED <<given, pc, choices, shrinks, loopVars, lastDeleteLen,
                 retryDelete, runDelete, valueVars>>

DeleteNextSize ==
  /\ Deleting /\ ~BlockFits
  /\ del' = [del EXCEPT !.size = @ + 1, !.start = 1]
  /\ UNCHANGED <<given, pc, choices, shrinks, loopVars, lastDeleteLen,
                 retryDelete, runDelete, valueVars, slipped>>

DeleteDone ==
  /\ pc = "delete" /\ ~Deleting
  /\ IF del.improved
       THEN Shrunk(del.cur) /\ UNCHANGED valueVars
       ELSE StartValues(canonical) /\ UNCHANGED <<choices, shrinks>>
  /\ del' = NoDelete
  /\ UNCHANGED <<given, loopVars, lastDeleteLen, retryDelete, runDelete, slipped>>

-----------------------------------------------------------------------------
(* PASSES 2 and 3, single choices and groups of equal choices: try the     *)
(* simplest value, then search by bisection, then make sure of the result. *)

Lowering == pc \in {"values", "duplicates"} /\ work # {}

\* canonical with the choices of group g at complexity index v.
Lowered(g, v) ==
  [i \in DOMAIN canonical |->
     IF i \in g THEN <<canonical[Min(g)][1], v>> ELSE canonical[i]]

Index(g) == canonical[Min(g)][2]

\* The next value to try, if there is one.
ProbeValue ==
  CASE probe.stage = "zero"   -> 0
    [] probe.stage = "bisect" -> (probe.lo + probe.hi) \div 2
    [] OTHER                  -> probe.hi
Searching ==
  CASE probe.stage = "zero"   -> TRUE
    [] probe.stage = "bisect" -> probe.hi - probe.lo > 1
    [] OTHER                  -> probe.hi < Index(First(work))

NextGroup == work' = work \ {First(work)} /\ probe' = NoProbe

LowerTrial(o) ==
  /\ Lowering /\ Searching
  /\ LET trial == Lowered(First(work), ProbeValue)
     IN  /\ o \in Run(trial)
         /\ Slip(trial, o)
         /\ \/ /\ probe.stage = "bisect"
               /\ probe' = IF Accepts(o) THEN [probe EXCEPT !.hi = ProbeValue]
                                         ELSE [probe EXCEPT !.lo = ProbeValue]
               /\ UNCHANGED <<pc, choices, shrinks, work>>
            \/ /\ probe.stage # "bisect" /\ Accepts(o)
               /\ Shrunk(trial) /\ work' = {} /\ probe' = NoProbe
            \/ /\ probe.stage = "zero" /\ ~Accepts(o)
               /\ probe' = [stage |-> "bisect", lo |-> 0, hi |-> Index(First(work))]
               /\ UNCHANGED <<pc, choices, shrinks, work>>
            \/ /\ probe.stage = "confirm" /\ ~Accepts(o)
               /\ NextGroup /\ UNCHANGED <<pc, choices, shrinks>>
  /\ UNCHANGED <<given, loopVars, deleteVars>>

LowerNextStage ==
  /\ Lowering /\ ~Searching
  /\ IF probe.stage = "bisect"
       THEN probe' = [probe EXCEPT !.stage = "confirm"] /\ UNCHANGED work
       ELSE NextGroup
  /\ UNCHANGED <<given, pc, choices, shrinks, loopVars, deleteVars, slipped>>

ValuesDone ==
  /\ pc = "values" /\ work = {}
  /\ pc' = "duplicates" /\ work' = DuplicateWork(canonical) /\ probe' = NoProbe
  /\ UNCHANGED <<given, choices, shrinks, loopVars, deleteVars, slipped>>

DuplicatesDone ==
  /\ pc = "duplicates" /\ work = {}
  /\ pc' = "pairs" /\ work' = PairWork(canonical) /\ probe' = NoProbe
  /\ UNCHANGED <<given, choices, shrinks, loopVars, deleteVars, slipped>>

-----------------------------------------------------------------------------
(* PASS 4, two choices to their simplest values together.                  *)

Simplest(c, g) == [i \in DOMAIN c |-> IF i \in g THEN <<c[i][1], 0>> ELSE c[i]]

PairTrial(o) ==
  /\ pc = "pairs" /\ work # {}
  /\ LET trial == Simplest(canonical, First(work))
     IN  /\ o \in Run(trial)
         /\ Slip(trial, o)
         /\ IF Accepts(o)
              THEN Shrunk(trial) /\ work' = {}
              ELSE work' = work \ {First(work)} /\ UNCHANGED <<pc, choices, shrinks>>
  /\ UNCHANGED <<given, loopVars, deleteVars, probe>>

\* Nothing moved: stop, unless deletion was skipped this time round.
FixpointAtOnce ==
  /\ pc = "pairs" /\ work = {}
  /\ pc' = "done"
  /\ UNCHANGED <<given, choices, shrinks, loopVars, deleteVars, valueVars, slipped>>
Fixpoint ==
  /\ pc = "pairs" /\ work = {}
  /\ IF runDelete THEN pc' = "done" /\ UNCHANGED retryDelete
                  ELSE pc' = "top" /\ retryDelete' = TRUE
  /\ UNCHANGED <<given, choices, shrinks, loopVars, lastDeleteLen, runDelete,
                 del, valueVars, slipped>>

-----------------------------------------------------------------------------

Next ==
  \/ Limit \/ DeleteNextSize \/ DeleteDone \/ LowerNextStage
  \/ ValuesDone \/ DuplicatesDone \/ Fixpoint
  \/ \E o \in Outcomes : Replay(o) \/ DeleteTrial(o) \/ LowerTrial(o) \/ PairTrial(o)

Spec == Init /\ [][Next]_vars /\ WF_vars(Next)

-----------------------------------------------------------------------------
(* Properties                                                              *)

Descends == INSTANCE Descent WITH
  fails <- {c \in DOMAIN test : Target \in test[c]},
  current <- Canon(strategy, choices),
  finished <- (pc = "done")

(* Shrinking is a descent, even of a flaky test: every sequence a pass     *)
(* accepts replays to a strictly simpler example with the same origin.     *)
ShrinkingDescends == Descends!Spec

(* Shrinking ends, and when MAX_SHRINKS is not set low, far from the       *)
(* limits on passes and shrinks.                                           *)
ShrinkingEnds == <>(pc = "done" /\ (limited => shrinkCap # Max(ShrinkCaps)))

Deterministic == \A c \in DOMAIN test : \E o \in Outcomes : test[c] = {o}
Settled == pc = "done" /\ ~limited /\ Deterministic

\* Examples one trial away from c that a pass would have tried.
OneStep(c) ==
  {Simplest(c, g) : g \in ValueWork(c) \cup PairWork(c)}
  \cup {Without(c, i, size) : size \in Range(BlockSizes), i \in DOMAIN c}

(* Shrinking that ends by itself ends at a local minimum: although a       *)
(* deletion is skipped while the length has not changed, no deletion and   *)
(* no zeroed choice is left that would still fail, nor a zeroed pair of    *)
(* scalars within the window unless there are more than MaxGrouped choices.*)
LocalMinimum ==
  Settled => \A raw \in OneStep(Canon(strategy, choices)) : Target \notin Run(raw)

(* No bug next to the minimal example is lost: whatever other origin a     *)
(* deletion, a zeroed choice or such a pair meets there is remembered, for *)
(* the run to report it too.                                               *)
NearbyBugsRemembered ==
  Settled => \A raw \in OneStep(Canon(strategy, choices)) :
               Run(raw) \subseteq {"pass", Target} \cup Remembered

(* When shrinking ends by itself, the arguments and the exception it       *)
(* returns are those of the choices it returns.                            *)
ReportMatchesChoices == Settled => best = Canon(strategy, choices)

(* "The exception comes from replaying the minimal choice sequence."       *)
ExceptionOfMinimal == pc = "done" => best = Canon(strategy, choices)

(* "Intrinsically reducing": what a pass accepts replays to something      *)
(* simpler.                                                                *)
Reducing ==
  [][choices' # choices => Simpler(Canon(strategy, choices'), Canon(strategy, choices))]_vars
=============================================================================
