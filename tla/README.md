# Verifying hypothesis-fast

hypothesis-fast is a property-based testing engine: `@given` draws examples of a
strategy, runs the test on them, and when one fails shrinks it to a minimal
failing example, saves it and reports it. The engine is Rust (`src/src/`), the
wrapper around it and the strategies' API are Python
(`src/python/hypothesis_fast/`). This directory holds TLA+ models of it, the TLC
runs that check them and proofs about them.

Run `tlc -config <Run>.cfg <Module>` for a run, `tlapm <Module>_proofs.tla` for
the proofs. `PROJECT.json` maps every definition to the lines it models, lists
the runs, the findings, the hazards and the theorems.

## 1. The system

| part | state | operations | interacts with |
|---|---|---|---|
| the run, `run_native` (engine.rs) | bugs found, counters, choice trees, slipped bugs, results | reuse, simplest example, generate, verify, shrink, confirm, save, report | calls the test body, the database, the shrinker; called by the wrapper |
| the shrinker (`shrink` and its passes) | choices, captured example, deletion and search state, caps | replay, delete blocks, lower single / equal / paired choices | re-runs the test through `trial_fails`; records slips |
| `RunNativeGuard` and the thread-locals | eleven thread-locals, two published copies | snapshot, reset, publish, restore | every nested run |
| the `@given` wrapper (core.py) | flags on `_TLS` and `_stats_tls`, managed PRNGs | prepare, finally, report with a final replay, push statistics | calls `run_native`, reads the published results |
| `ConjectureData` (data.rs) | nodes, prefix and index, spans, length, status, frozen | draw, pop_choice, start/stop span, mark, freeze | drawn from by strategies and `data()` |
| choice tree (`TreeNode`, engine.rs) | children per choice, terminals, `tracked_nodes` | track_example, has_terminal, exhausted | decides duplicates, exhaustion, one verdict |
| `Many` (draw.rs) | count, rejections, force_stop | more, reject | lists, sets, dictionaries |
| choices and codec (choice.rs, floats.rs, database.rs) | none | value to index and back, permitted, bytes to choices and back | shrinker, database |
| state machines (stateful.rs, stateful.py) | rules, bundles, steps, teardown | select and run a step, check invariants, teardown | draws through `ConjectureData` |
| example context (control.py) | context stack and pool, note slots, targets | assume, reject, note, event, target | body and draw-time callbacks |
| strategies (strategy/*.rs) | the node, caches of shared values and element verdicts | construct, validate, filter, draw, draw with hypothesis' data | `ConjectureData`, `Many`, user functions |
| interval sets (intervalset.rs) | ascending disjoint ranges | union, difference, intersection, positions, shrink order | `characters()`, string choices |
| type resolution, numpy | per-run resolution caches | resolve | strategies |

What is hard in it: failures of several origins in one run, each of which must be
filed with its own choices and reported once; tests that are flaky, so that any
execution can answer differently; a database that outlives edits of the test,
changes of settings and killed workers; a shrink loop that restarts itself and
skips work it believes useless; sequences that replay misaligned after an edit;
and runs nested inside runs on the same thread-locals. There is no threading
inside a run: it is one call, so interleaving means nesting, and, for the
process-wide PRNGs only, other threads.

What makes each part correct, in a sentence: the *run* loses no bug and reports
none twice, saves only what fails and prunes only what does not; the *shrinker*
only descends, ends by itself and at a local minimum, and returns an exception
that matches its choices; the *guard* gives every run its state back and its own
results; the *tree* says exhausted only when it is; *replay* of recorded choices
reproduces them; *Many* respects its bounds; the *codec* decodes what it encoded
and rejects the rest; a *strategy* draws exactly the values its construction and
its filters promise, whichever code draws it; an *index* and its value are
inverse to each other; a *state machine* always tears down and shows the program
that failed.

## 2. Modules

### Runner

`run_native` phase by phase. `pc` is the phase; each action is one iteration or
one decision of the code. `Init` allows any database contents.

* Reuse: `ReuseUndecodable`, `ReuseFails`, `ReuseStale`, `ReuseAborts`,
  `ReuseDone` replay the saved values, in whatever order the database yields them.
* Search: `Simplest`, `Generate`, `GenerateRedundant` and their aborts. `count`
  holds the code's counters, `WindowClosed` and `GoOn` its stopping rules.
* Judgement: `JudgeNoBug` (the four ways a run without a bug ends),
  `JudgeOneBug`, `JudgeManyBugs`, `Verify`.
* Shrinking, abstractly: `ShrinkReplay`, `ShrinkTrial` (some sequence not more
  complex), `ShrinkPassDone`, `ShrinkLimit`, then `Confirm` and `Save`.
* Slips: `DrainSlips`, `NextSlip`, `SlipsDone`; `Report` ends the run.
* Around it: `StartRun`, `Edit` (the test or its settings change) and `Crash`
  (the worker is killed; only the database survives).

A choice sequence is its rank in the sort-key order. The test maps each rank to
the set of outcomes executing it can have; a deterministic test has singletons.
What is abstracted: the choice tree is the set of ranks it holds (`ChoiceTree`
takes it apart); the raw and
the canonical form of a saved sequence are one rank; `too_slow` may fire whenever
the code could measure it. A duplicate is `Recognised` once its arguments are
drawn: one whose arguments are rejected or overrun (`EndsDrawing`) is not, and is
counted again. Tests that draw interactively in their body, for which a duplicate
is executed before it is recognised, are not modelled. `witnessed` and
`promised` are history variables for the properties.

### ChoiceTree, Novelty

`TreeNode` and the search that asks it. A tree is a function from its paths to
`[max, terminal]`; `Add`, `HasTerminal` and `Exhausted` are its methods,
`TrackExample` is `track_example` with both of its caps. `RunSimplest`,
`Generate`, `GenerateRedundant` (recognised after its arguments were drawn) and
`Judge` are the loop of `run_native` around `all_tree` and `invalid_tree`. A test
with its strategies is what comes after each sequence of choices (`NodeAt`): a
further choice, with the values a draw may give and the number the code counts,
or an end with its outcome. `Novelty` is the abstract specification: no example
that is remembered runs again, unless it is recognised only after it ran, and
the search says it has seen everything exactly when it has. `ChoiceTree`
implements it with `explored` the terminal paths. Where an example overruns is
decided by its path, as the limits are the same for every example of a run. The
window that closes a search for more bugs is left open here; `Runner` counts it
out.

### Shrinker, Descent

`Shrinker` takes the shrink loop apart, one trial a step, over an explicit
model of replay: a strategy says from the choices so far which choice comes
next (`NodeAt`), `Canon` is what replaying a raw sequence records (values that
do not fit become the simplest one, forced values stay, missing ones overrun).
`work` is the set of groups of choices still to lower, taken from the left
(`First`).
`DeleteTrial`/`DeleteNextSize` are the block deletion, `LowerTrial` and
`LowerNextStage` the zero / bisect / confirm search over single choices and over
groups of equal ones, `PairTrial` the pairs, `Replay`, `Fixpoint` and `Limit`
the loop around them. Groups and pairs are tried only of up to `MaxGrouped`
choices (256 in the code, `Grouped`), and pairs only of scalars: integers, floats
and booleans, not bytes or text. `Descent` is the abstract specification, a strictly
descending walk among failing examples; `Shrinker` implements it under the
mapping `current <- Canon(choices)`. The extra candidates for floats and the
lowering of text by characters are left out.

### NestedRuns

Runs nested on one thread. Each thread-local, flag and published result holds
the number of the run that wrote it, so that "whose is it" can be asked. `Call`,
`Finally`, `Report`, `EndReplay`, `NoReport` and `Return` are the wrapper
in core.py, `Enter` and `Leave` the guard's snapshot and drop, `Write` any
recording in between. Which thread-locals are taken (emptied) and which copied
are constants. Two things happen past the guard. A wrapper that collects
statistics sets `USE_PY_CLOCK` before the guard is up and clears it after it is
gone (`Call`, `ClockOff`). `reproduce_native` has no guard: the final replay of a
failure with interactive draws and `@reproduce_failure` (`CallReproduce`) draw
over the run outside (`DrawUnguarded`), which writes its `LAST_DRAW_SECS` and its
caches. `left`, `touched` (the cells written past the guard) and `own` are
history variables.

### Data, Many, Collection, Example

`Data` is `ConjectureData` as a value (a record) and its operations as operators:
constructors, `StartSpan`/`StopSpan`, `Mark`, `Freeze`, `PopChoice` with its
templates, `Draw` with the three limits. An operator that may end in several
ways returns the set of its outcomes. `Many` is `more` and `reject` of
variable-size collections on such data. `Collection` is the abstract
specification of a collection draw: it grows by admissible elements, completes
with a size within its bounds, or is abandoned.

`Example` is one example as `run_one` takes it: a list argument drawn with
`Many` (`DrawArgument`, `More`, `Element`), then a body of any script of draws,
marks, rejections, notes and exceptions, with and without catching what a draw
raises (`BodyDraw`, `BodyMark`, `BodyReject`, `BodyNote`, `BodyRaise`,
`BodyReturn`), then `Replay` from the choices it recorded. It starts from
generated data, from the simplest data or from a handed prefix. `Example`
implements `Collection`. `late` is a history variable: the spans opened when the
data was frozen already, by an argument or a body that goes on drawing.
`start_span` does not ask, `stop_span` does, so those are never closed.

### Numbers, Choices, IntervalSets, Floats, Codec, Values

Pure kernels. `Choices` has the complexity indices of booleans, integers and
collections; `Floats` the bit patterns of a small IEEE format (`E` exponent and
`M` mantissa bits, a narrow one of `NE` and `NM`), `next_up`, `next_down`, the
lexicographic code, clamping, and `floats()` with its validation and its draw;
`IntervalSets` the set algebra and the shrink order of alphabets; `Codec` the
encoding of choices and the in-memory database; `Values` the dispatch over the
five types and what a draw samples. Two floats are compared through `Num`, an
order of their values. A string with one of the `Surrogates` is a value Python
has and Rust's `String` has not: it is sampled, and it does not extract
(`Extracts`), so that it has no index and is never permitted. `EdgeWeights` are the
weights `integers()` draws a range wider than `WIDE` (127) with. The modules are
written to be proved about: loops are recursive
functions and folds, the two pointers of `difference_rs` and `intersection_rs` the
pair of what is left to pass, `sort_unstable` an insertion sort (equal intervals are
the same interval, so every sort gives the same), powers `Power`. That the encodings
of characters are prefix-free, as those of UTF-8 are, is an assumption of `Codec`.

### Nodes, Rewriting, Strategies

`Nodes` builds strategy nodes, records, with the constructors' validation and
defaults, and says when a node is empty or has reusable values. `Rewriting` is
`filter` on a node (integers, dates, collections by length, pushed through a map,
into `sampled_from`) and the flattening of chains of filters. `Strategies` draws
a node: `Drawn(node, cd, env)` is the set of outcomes `[cd, env, ...]` of
`draw_node` and, when the data is foreign, of `draw_node_foreign`. User
functions, predicates and deferred definitions are constants.

### Stateful

`StatefulRunner` step by step: `Begin`, `Construct`, `CheckInvariants`, `DrawStop`
(`_must_stop` and the draw of stopping), `SelectInitializer`, `SelectRule`,
`DrawArgument`, `RunRule`, `Teardown`, then `NextExample`, `FinalReplay` of the
failure and `Finish`, the classification in `run_state_machine_as_test`. The
machine's constructor, invariants and their preconditions, the preconditions of
rules, the strategies around a bundle, rules and teardown do as they like in each
example, and raise any of `UserErrors`: an assertion, `FlakyStrategyDefinition` or
`StopTest`. The path of several distinct failures, an `ExceptionGroup` without a
final replay or a program, is left out. A value
is what its bundle, its name and its identity are; what is printed is recorded
in `printed`, what is called in `calls` with the line it is shown on, only in
examples that are shown.

### The MC modules, and the proof modules

`MCRunner`, `MCChoiceTree`, `MCShrinker`, `MCExample`, `MCValues`, `MCStrategies`
and `MCStateful` define what TLC explores; `NestedRuns` needs none. Two of them have
behaviours of their own. `MCValues` calls the kernels of `Values` and `Codec`
with every small input, one action for each kind of call, and keeps an
in-memory database. `MCStrategies` starts from each request of a corpus, filters
it up to twice in any spelling, draws it, with either kind of data, and replays
it; `Meant` is the set of values a request promises, defined from the request
and never from the node. The proof modules are described in section 4.

## 3. Runs

| run | asks | states bound by |
|---|---|---|
| RunnerSearch | is any bug lost or reported twice; are all, slipped ones too, saved; are verdicts about the whole space true | every deterministic test of 3 sequences over valid, invalid and two origins; every setting; 1 run |
| RunnerReplay | is what was reported reported again; does a replay of the whole database leave only what can still fail | 2 sequences, 3 runs, any initial database, edits and crashes between and during runs |
| RunnerFlaky | types; are bugs real and saves failing for tests that are flaky, abort or overrun; does a run end | 2 sequences, 8 kinds of behaviour each, 1 run, fairness |
| ChoiceTree | is what an exhausted tree is taken to mean true of every example; does an example run twice, does the search stop early or miss that it is done (refinement) | tests of up to three dependent choices over 3 values, counted, forced or uncounted, one example ending unlike the others; 6 examples |
| ShrinkerDescends | descent (refinement), termination short of the caps, local minimum, matching exception, other bugs nearby remembered | tests of five strategies: one integer, two, an integer that decides what follows (flatmap), bytes and a boolean, a list; flaky and slipping for the first, three bugs for the second; MAX_SHRINKS 1 and 8 |
| NestedRuns | does each run find its state as it left it, but for what is written past the guard, read its own results, leave nothing behind | 3 runs, 3 deep, with and without a collector |
| ExampleReplay | do the limits hold and the spans nest however an example ends; is a replay the same example; does a list implement `Collection`; does a draw end | lists of at most 3, bodies of 2 steps, handed prefixes of 1, a buffer of 9 bytes, fairness |
| Values | are indices inverse and ordered; are samples permitted; does floats() give exactly what was asked; do interval sets agree with sets; does the codec decode what it encoded | floats of 3 exponent and 2 mantissa bits (1 each when narrow), code points 0..5 with one surrogate, indices up to 30, integers within a few of 0, with and without weights, buffers of 2 bytes |
| Strategies | are the values those promised; are foreign draws and replays alike; is what is said of validity, emptiness and reuse true | a corpus of requests of every kind, filtered up to twice |
| Stateful | does the program shown make the calls made; are the notes and the classification of a failure true | 4 rules, 2 bundles, 3 steps, 2 generated examples and the final replay |
| ShrinkerForced, DatetimeBounds | one statement each of the documentation or the tests that the code does not keep | as the passing runs |

Bounds. *Runner*: two origins are enough to tell "the same bug" from "another"
and, with slips, to have one found early and one late; three sequences give a
shrink two steps and leave room for a slip below or above. The engine's limits are
constants and are given small values (`MinTestCalls` 2, `SearchWindow` 3,
`InvalidGiveUp` 3, a factor 1 and base 0 or 1 for the iteration cap) so that
every one of them is reached. *ChoiceTree*: `MAX_TRACKED_NODES` 2 (256 in the
code) is passed by the deepest tests, `MAX_TOTAL_TRACKED_NODES` 7 (500000) by
repeats, `INVALID_GIVE_UP` 4, `MAX_EXAMPLES` 4 and `CAP` 5 before and after the
tree is full. *Runner* again: three runs are one that saves, one that is killed
or edited, one that must still report. *Shrinker*: lists of two elements and
blocks up to 8 let every deletion size succeed, miss and overshoot; `MaxGrouped` 3
is met by the tuples and passed by the lists, which have up to 5 choices. *NestedRuns*:
`MaxRuns` and `MaxDepth` give siblings, children and grandchildren.
*ExampleReplay*: a buffer of 9 is overrun by the longest lists and not by the
shorter ones, three elements give `Many` room to reject up to its limit, two
steps let one be caught and the next one meet frozen data.
*Values*: the float format has zeros, subnormals, normals, infinities and a NaN
in each width, the alphabets miss or have each of '0' and 'Z', the collections
overflow the size classes of the index; `WIDE` 3 (127) is met and passed by the
bounded ranges, and 4 is a surrogate (`Surrogates`). *Strategies*: `FILTER_TRIES` (51 in the
code, here 2), `FOREIGN_TRIES` (3, 2), `FILTER_CALLS` (9997, 3), `MATERIALISED`
(1000000, 5), `DEFERRED_DRAW_LIMIT` (100, 3), `US_PER_DAY` 3, `FINITE_DOMAIN` 2,
`DEFAULT_MAX_SIZE` 3, `LARGEST_MIN_SIZE` 4 are the code's limits scaled down so
that each is met and missed; unbounded integers range over -3..3; filters are put
twice on a strategy (`MAX_FILTERS`), a drawn one has at most one more
(`DRAWN_FILTERS`) and at most ten outcomes (`FILTERABLE`). *Stateful*: two
bundles let a rule consume from one and add to the other, two objects and one
singleton let a value be printed by its name or not, three steps let a value be
made, consumed and made again; `BUFFER_SIZE` 12 lets an example overrun in any
of its draws.
`CHECK_DEADLOCK FALSE` is set where a program simply finishes.

Left out of the corpus of `Strategies`, because the code and the promise part
there for reasons named below or because only the wording differs: domains with
duplicate values drawn without replacement, `datetimes` with bounds at a time of
the day (a run of their own), `deferred` of a Python subclass, shared strategies
drawn with foreign data, negative bounds on `len`, subclasses that draw mutable
values, `fixed_dictionaries` with optional keys, `str` as a pack of a collection,
`just` and `sampled_from` of mutable values, `lists(nothing())` with a positive
maximum.

Fairness. `Runner!FairSpec` is weak fairness of the run's own steps:
`run_native` is one uninterrupted call, so it takes its next step unless the
process is killed. Nothing is assumed of `StartRun`, `Edit` or `Crash`.
`Shrinker` assumes the same of its loop and `Example!FairSpec` of one call of
`run_one`. A test body that never returns is outside all three. That a draw
ends (`DrawsEnd`) rests on the limits alone, not on the luck of a draw: no
fairness among the values a choice may have is assumed.

Disagreements found by a run that is expected to end in a violation:

* **ShrinkerForced**: two forced `more` booleans of a list with `min_size` are
  lowered together without end, until the cap; the single-choice pass guards
  against exactly this. `ShrinkerDescends` therefore leaves out such lists: its
  descent is a statement about strategies whose forced choices are zero or alone.
* **DatetimeBounds**: `datetimes()` keeps only the days of its bounds and draws
  any time of the last one.

Further configurations, which TLC refutes in the same way:

* `RunnerOneBug.cfg` (MCRunner): with `report_multiple_bugs` off, replaying a
  database of two bugs reports both (engine.rs:1620, core.py:260).
* `RunnerBlob.cfg` (MCRunner): with `report_multiple_bugs` off a smaller slipped
  bug is reported, but the `@reproduce_failure` blob is the primary's
  (engine.rs:1578).
* `RunnerExecutor.cfg` (MCRunner): verifying, shrinking and confirming run the
  test without `setup_example` and `teardown_example` (engine.rs:1563,
  core.py:1306).
* `ShrinkerCapped.cfg` (MCShrinker): stopped by `MAX_SHRINKS`, shrinking returns
  choices whose exception was never captured (engine.rs:1026).
* `NestedStatistics.cfg` (NestedRuns): a nested run discards the statistics of
  the one it interrupts, and the push of the outer one fails on `None`
  (core.py:1424).
* `ExampleFrozen.cfg` (MCExample): errors.py says of `Frozen` that it is raised
  on drawing from frozen data; a body that swallowed `StopTest` goes on drawing
  and recording.

Seen while modelling, without a run:

* floats: `floats(allow_subnormal=False)` with a subnormal bound samples the
  bound, which it does not permit; `next_up_width` of a value the width cannot
  represent may skip a value; `rewrite_float_filter` loses
  `allow_infinity=False` on a one-sided filter, and for widths below 64 sets a
  bound the width cannot represent.
* filters: a `len` filter with a negative bound raises `OverflowError`;
  `lists(...).map(str).filter(len...)` is pushed through `str` as if the text had
  the length of the list.
* collections: `lists` over a `sampled_from` with duplicates, unique, may end
  below `min_size`; the optional part of `fixed_dictionaries` is checked, then
  ignored; some steps of `slices` are never drawn.
* emptiness and reuse: `has_reusable_values` of a Python subclass of
  `SearchStrategy` is that of a placeholder; `deferred()` of one draws the
  placeholder's node.
* foreign draws: shared strategies are drawn twice, `floats` ignore the width and
  `allow_infinity`.
* data: a body that swallows `StopTest` is returned as valid although its data
  is marked invalid, and the spans it opens afterwards are never closed; labels and
  trail of the spans are written and never read.
* strings: `characters()` and `text()` over an alphabet with surrogates (category
  `Cs`) sample strings that `choice_permitted` and `choice_to_index` fail to extract
  (choice.rs:455, 325). `pop_choice` takes that as not permitted, so that such a
  string replays as the simplest one, misaligned. `IndexInverse` and
  `DrawsArePermitted` speak of the strings that extract (`Readable`).
* integers: weights are not held to the bounds (data.rs:645). Those of `integers()`
  are within them, by construction; those a foreign strategy hands in may not be.
* shrinking: beyond 256 choices equal choices are not lowered together and pairs not
  zeroed (engine.rs:768, 855), so the minimum is local only to deletions and single
  choices; `LocalMinimum` says so.
* runs inside runs: a `reproduce_native` inside a run, a nested stateful failure's
  final replay or a nested `@reproduce_failure`, changes the `LAST_DRAW_SECS` of the run
  outside, which its deadline is computed from (core.py:964, 1014), and its
  resolution caches. That a nested run "can't corrupt the outer run" (engine.rs:1272)
  is true of `run_native`. A nested wrapper under a statistics collector leaves
  `USE_PY_CLOCK` off for the rest of the outer run (core.py:1412). `Undisturbed`
  names these cells and no other, and only where such a write has happened.
* state machines: `selecting_rule` is reset neither between examples nor by
  initialize rules. When an earlier example ended while selecting, a definition error
  of the replay's constructor, first invariants, initialize rules or of the teardown
  after them is noted "while selecting a rule", until an ordinary rule is selected
  there; and so is that of a teardown that follows a selection that failed.
  `FailureToldTruly` allows these cases, by name (`Initializing`, `SelectionFailed`),
  and no other.
* nodes: a comment says of callback nodes, `builds` among them, that they are "NOT
  recursed" in validation (nodes.rs); the code validates each argument of `builds`
  (740-748), and so does the model.

## 4. Proofs

`Runner_proofs` proves for every number of ranks, every set of origins, tests and
settings, every limit and any number of runs:

* `TypeCorrect`: `Spec => []TypeOK`
* `BugsStayReal`: `Spec => []BugsAreReal`
* `OnlyFailuresSaved`: `Spec => SavesOnlyFailures`
* `OnlyLiveStays`: `Spec => []OnlyLiveKept`

The inductive invariant is `Inv == TypeOK /\ BugsAreReal /\ JobUnderWay`.
`BugsAreReal` alone is not enough to save safely: a save reads the job at hand,
so the invariant must say that there is one in every phase from verification to
saving, and that its origin is an outcome of its current choices, which every
accepted trial keeps. `OnlyLiveStays` has an invariant of its own, `Live`: when the
database is used, every value in it that cannot fail is still in the queue to be
replayed. It needs `SavesOnlyFailures`, as a save must add no other (`LiveStep`), and
that each value leaves the queue by failing, by being pruned or with the run
(`QueueSteps`). The assumption is `ConstantsAssumption`: constants have
their types, the names of outcomes are not origins, a test has an outcome for
every sequence.

It goes on from there to what a run returns, for the same constants:

* `EverythingReportedIsSaved`: `Spec => []ReportedIsSaved`
* `NoBugLostOrRepeated`: `Spec => []EveryBugReportedOnce`
* `PromisesAreKept`: `Spec => []ReportedAgain`
* `VerdictsStayTrue`: `Spec => []VerdictsAreTrue`

The invariant is `Reports`, `Inv` with seven parts, each kept by every step given
the ones before it. `FromDatabase`: a failure among the saved values ends the
search, nothing is shrunk, so no slip comes up. `SavedSoFar`: a value that failed
has left the queue that prunes, and a result was saved just before. `NoRepeats`:
the bug in hand and those pending are of origins not yet reported. `NothingLost`:
an origin met is the origin of a bug, a slip or the bug in hand until it is
reported, and slips are drained only when all bugs are. `Endings`: how each end of
a run comes about. `PromiseKept`: an origin promised has a value in the database
that always fails with it, queued until its failure is among the bugs.
`SoundVerdicts`: the tree holds a failing sequence only once there is a bug.

`Shrinker_proofs` proves for every strategy, every length and every test:

* `EndsAtLocalMinimum`: `Spec => []LocalMinimum`
* `ReportIsOfChoices`: `Spec => []ReportMatchesChoices`
* `NoNearbyBugIsLost`: `Spec => []NearbyBugsRemembered`
* `ShrinkingIsDescent`: the initial states and the steps of `Shrinker` are those of
  `Descent`, for flaky tests too. `Descent` states no fairness, so this is the
  refinement; that it ends is `ShrinkingEnds`, which TLC checks.

It rests on `StrategiesAssumption`: the examples of a strategy are all that its
draws can make (a forced choice one, another any value up to its maximum), from the
first draw until it draws no more. That is what replaying does (`draw_inner`, which
never leaves what the strategy draws), and TLC evaluates it for the strategies of
the runs. From it follows that replay is a function: the lemmas `ReplayExists` and
`ReplayUnique` take the shortest sequence, or the first choice, for which it would
not be. `LoweredReplays` says that lowering choices that are not forced gives what
was asked as far as the strategy draws alike, and `CanonOfExample` that an example
replays to itself. The invariant `Inv` says of each phase what it has tried in vain:
`Deletion` and `TriedInVain` that no deletion before the present one, and no group
of choices already worked on, would still fail. This is why skipping deletion while
the length has not changed is sound: it is tried again before the loop stops. What
was tried in vain passed, or failed otherwise and is remembered, which is
`NoNearbyBugIsLost`. Both theorems hold for every cutoff `MaxGrouped`, and say of
longer sequences only what the passes without a cutoff do. That groups of choices that include a forced one are lowered is no obstacle to these
theorems (the trial is accepted and replays to the same example); it is to
`Reducing`, which `ShrinkerForced` refutes.

`NestedRuns_proofs` proves for every depth, every number of runs and every
division of the thread-locals:

* `TypeCorrect`: `Spec => []TypeOK`
* `GuardRestores`: `Spec => []Undisturbed`
* `ReadsOwnResult`: `Spec => []ResultIsOwn`
* `LeavesNothing`: `Spec => []NothingLeaks`

The invariant `IInv` adds four facts. `GuardHolds`: inside the guard the saved
copy agrees with what the level below left, except where that level was written past
its guard (`Agree`); before and after, the level has nothing of its own, and what is
written is written over the one below. `Suspended`: every level below the one in
control is in user code, which is why nobody can publish between a run's end
and its wrapper's reading. `ResultsKept`: the published results are the run's
own from its end to the reading, and the wrapper's from then on. `FlagsClear`: while
no wrapper is before its finally block the flags and the clock are clear, and
without a collector the clock never was replaced (`NoClock`). The lemma
`OneLevelMoves` says that no step touches a level below the one in control, and
`OnlyCallsNest` that only a call goes deeper. The assumptions are that published
thread-locals are among the taken ones, that no cell is both taken and copied, that
`SLIP_ENABLED` and `USE_PY_CLOCK` are two of the copied ones, and that no draw writes
`USE_PY_CLOCK`.

`Example_proofs` proves for every buffer, list, prefix and body, and every set of
values, constraints and kernels that `ExampleAssumption` admits:

* `TypeCorrect`: `Spec => []TypeOK`
* `WithinItsLimits`: `Spec => []LimitsHold`
* `SpansNest`: `Spec => []SpansBalanced`
* `Refinement`: `Spec => ListsAsPromised`, that a list draw implements
  `Collection`; `InitMaps` and `StepMaps` are its two halves.
* `ReplaysReproduce`: `Spec => []ReplayReproduces`

The inductive invariant is `IInv == TypeOK /\ LimitsHold /\ SpansBalanced /\
ListInv`. `ListInv` relates the counters of `Many` to the list drawn so far: while
it grows, `count` is the number of its elements, one more while an element is
being drawn, and a forced stop is not below the minimum. Without it nothing says
that a list that stops has its minimum size. `SpansBalanced` is inductive as it
stands: each operation on data keeps a depth that is `Sound`, what is `Nested` while the
data is not frozen and what is left open when it is (`KeptNested`, `MarkedSound`). The
lemmas say of each operator of
`Data` and `Many` what it leaves alone and what it may end with; the steps of
`Next` then follow from them.

That a replay reproduces the example relates two executions, and the first one is
over when the second begins. `ReplayInv` therefore keeps what the first one leaves:
its `Trail`, the states it has been in, each a move (`Moves`) after the last. A
state of a trail (`Core`) has only what decides how an example goes on, and not the
prefix, the spans or the limits, in which the two differ. A move is an answer of
the data, a choice recorded (`Recorded`) or a draw refused (`Refused`), and what
follows from it (`Follows`), which is a function (`OneFollows`). `StepMoves`: every
step of the program is a move. `StepRetraces`: the replay, at a state of the trail,
makes the move the first example made there: a choice that was recorded is next in
the prefix and is drawn again, forced or not (`ChoiceReplays`), and where a draw was
refused nothing was recorded afterwards, so that the replay has used up its choices
and is refused too (`EndReplays`). That last fact is the one to prove about the first
example, whose body may catch the refusal and draw again: a data that has refused
an unforced boolean is `Stuck`, full or at an entry of its prefix that has no value
to give, and stays so. This needs that both answers are permitted to the boolean
that goes on, an assumption that `calc_p_continue` justifies: its probability is
neither 0 nor 1 where the sizes differ.

`ChoiceTree_proofs` proves, for every deterministic test, whatever its
choices, and for every limit:

* `ExhaustedHoldsAll`: an exhausted tree holds every example of the test
* `Exhaustion`: `Spec => []ExhaustionIsTrue`
* `Searching`: `Spec => SearchesForNew`, that the search implements `Novelty`;
  `InitNovel` and `NovelStep` are its two halves

The first is about trees alone: an example whose path left an exhausted tree
would leave it at a first choice, whose node has as many children as values and,
children being distinct values, has that one too. It needs `Sound`: paths are
drawable, and counted as the test counts them. `Inv` adds that `all_tree` holds a
failing example only when there is a bug, and `invalid_tree` none that is not
rejected. That a forced choice counts more values than it has only makes
exhaustion rarer; the assumption is `max >= Cardinality(values)`, not equality.

For the refinement the converse is needed too: a tree that has every example is
exhausted, where each value counted can be drawn (`AllExhausted`). `Grown` says what
`track_example` keeps up for that: the tree has the paths of its examples and no
others, each choice on them counted. It rests on `EveryDrawEnds`: whatever value a
draw gives, an example goes on with it and ends, if only by an overrun; otherwise a
value that leads nowhere would keep the tree open for ever. `NoveltyInv` adds that
nothing is known before the simplest example. That an example in the tree whose
arguments are all its choices is recognised is what makes a step of `Generate` a
`Try` of something new.

`Values_proofs` proves what the kernels of values compute, for every alphabet, bound,
index and set of intervals:

* `ValueOfIndex`, `IndexOfValue`: integers, for all constraints whose bounds are not
  crossed: the zig-zag around `shrink_towards` and its one-sided continuation never
  meet.
* `IndexOfCollection`: strings and bytes: below the number of collections of the
  permitted sizes, every index stands for exactly one, and is its index.
* `PositionsAreBijective`: positions from both ends, by bisection, ordinals, the shrink
  order and iteration number the members of an interval set alike.
* `UnionOfSets`, `FromCharacters`, `DifferenceOfSets`, `IntersectionOfSets`: the
  algebra is that of the sets; `FormIsUnique`: equal sets have equal intervals.
* `SetsCorrect`: `Spec => []SetsAgree`
* `IndicesAreInverse`: `Spec => []IndexInverse`
* `SimplestComeFirst`: `Spec => []SimplerFirst`
* `CodeDecodes`, `NextUpIsAdjacent`: the lexical code of floats and their neighbours
* `FloatOrdersKept`: `Spec => []FloatOrders`
* `DrawnAsAsked`, `AskedIsDrawn`: what `floats()` returns is what its arguments ask for,
  and all that they ask for
* `FloatsDrawnAsAsked`: `Spec => []FloatsAsAsked`
* `FloatsDrawnComplete`: `Spec => []FloatsAreComplete`
* `SampledFloatsPermitted`: what is sampled or clamped is permitted
* `DrawnPermitted`: `Spec => []DrawsArePermitted`

What is said of strings is said of those that extract; a string with a lone surrogate
has no index and is never permitted.

The library's induction theorems cannot be used (they take an operator), so the module
begins with what replaces them. That the order of the naturals is well-founded and
that every nonempty set has a least element are facts without operators;
`NatSetInduction` is induction over a set of naturals, and `Recursion`, from it, that
the equation of a recursive function has a solution and only one, by the approximations
of any length. It holds for functions over any set with a measure that descends, such as
the length of what two pointers have left. `FoldLeft` and the sums of the community
modules are such functions. On these rest powers and division (`DivisionUnique`,
`SizeToIndexStep`: the collections of a size are as many as a power of the letters),
digits (`DigitsOf`), and offsets, which ascend.

The invariants of the algebra are loops' invariants. Sorting keeps `ByLow`. Merging
represents, after each interval, the union of those passed, with a gap before the next
(`MergeStep`). Of the two pointers: what is left of a set loses to the other one's first
interval only members below what follows it (`Cut`, `Spared`), so that what is put out
is final. That the intervals of a set are determined by it (`FormIsUnique`) is what
makes the union *equal* to the intervals TLC builds one member at a time, and not only
of the same members. For `SimplerFirst`, a smaller index has no more digits, and with
as many no greater first digit (`ShorterFirst`, `FirstDigit`), and of what comes before
a character from '0' to 'Z' in the shrink order all is (`PlainComeFirst`).

Floats are proved about for every format whose exponents `exponent_key` tells apart (at
most 11 bits, `FormatAssumption`: its keys of fractions begin at 10000, below that of
infinity at 20000). Reversing bits twice changes nothing (`ReversedTwice`: a number is
its bits, `SameBits`); the table of exponents is a permutation, as a rank by distinct
keys. The units a float stands for grow with its bit pattern (`UnitsGrow`), so that
rounding leaves alone what a width can represent (`RoundedToItself`, `NarrowedToItself`)
and the neighbours of a float are those of its bit pattern.

The two theorems of draws put the floats that are no NaN on one line, -0 just before 0
(`Place`). `sign_aware_lte` is the order of the places (`LteIsPlaces`), so that what the
arguments ask for is an interval of places (`AboveMin`, `BelowMax`), an endpoint that is
excluded moves to the next place of the width (`UpByPlace`, `DownByPlace`: no zero is
skipped or kept by mistake), and what is permitted is that interval without the
subnormals below `snm` and, when infinity is disallowed, closed at the largest finite
value (`ParamsGood`, `DrawBoundsOf`). A permitted float of another width is rounded
(`NearestIn`: of two nearest values of the width one is even, so that there is always a
value to round to) and moved back between the bounds, which are of the width. Clamping
picks a bound or leaves a float where it is, so that what it ends on is permitted if
both bounds and the float, raised to `snm` if it was a disallowed subnormal, are normal
(`ClampPermitted`); `floats_params` does not exclude a subnormal bound with subnormals
disallowed, which is why `DrawsArePermitted` does.

`Codec_proofs` proves of the database's encoding, for every size field, group size and
length of a float, and every encoding of characters that is prefix-free:

* `RoundTrip`: every sequence of choices decodes from its encoding to itself
* `SizeIsLength`: `one_choice_size` is the number of bytes
* `CutAnywhere`: cut off at any byte, an encoding decodes to the choices before the cut,
  at most followed by the simplest of the type that was cut, or to nothing
* `CodecCorrect`: `Spec => []CodecAgrees`
* `MoveCorrect`: `Spec => []MoveKeeps`

`CutAnywhere` was found by its proof. A cut inside the bytes of a long size, where those
that are left say zero, decodes to an empty payload; the statement checked before allowed
nothing after the choices before the cut, and the payloads TLC had were too short to
refute it. `CodecInverse` now says so (`Emptied`), and the run has payloads just below, at and
above the size of a group.

`Stateful_proofs` proves for every machine, every number of rules, targets, values
and steps, and bodies that do as they like:

* `TheProgramRunsAgain`: `Spec => []TraceReproduces`
* `ToldTheTruth`: `Spec => []FailureToldTruly`

Storing the values of a step is a loop over targets and values, a recursive
function: `StoringExists` shows that there is one, by its shortest part, and
`AddResultsStored` what it holds after each value. `PlaceFacts` and `PlaceExists`
number the values (the only nonlinear arithmetic), so that `AssignedFacts` can say
that the slices of `_last_names` shown are the names of the values stored. The
invariant has four parts. `Holding`: the machine is `Sound` (names are numbered
below their bundle's counter, none twice; they outlive the bundles; an object prints
as a name that has it), and each argument drawn is shown as what it is. `Showing`:
the lines and the calls of an example that is shown are a `Trace`, in which what is
held is exactly what the lines assign, each name by one place. Without it, nothing
ties a name printed as an argument to an earlier line. `Telling`: what the flag
`selecting_rule` and the notes are in each phase; in particular a rule that is run
and is no initialize rule was selected, so that the flag is down. `Flag`: in the final
replay the steps begun and the calls made tell whether a selection has failed
(`Counting`), and the flag is up wherever that selection or an earlier example left it
(`Marked`); nothing more is assumed of the code of the user, which may raise anything
anywhere. The assumption is `StatefulAssumption`: rules name bundles, results are values.

Only model-checked, and why:

* liveness: `RunsEnd`, `ShrinkingEnds`, `DrawsEnd`: fairness is out of the prover's
  reach;
* `Strategies`: `AsPromised`, `ForeignAsPromised`, `ReplaysAlike`, `NodeFacts`. Its draws
  are RECURSIVE operators, which the prover does not take, and its promises are stated
  over the corpus that `MCStrategies` enumerates.

## 5. Not modelled

* Choices that differ and print alike: a node of the choice tree is keyed by the
  `repr` of the value. Only booleans and bounded integers are counted, whose
  `repr` tells them apart.
* The `@given` wrapper beyond the frame around `run_native`: explicit examples,
  phases, deadlines, and how each exit is turned into an outcome; with it the
  context stack and the note slots of control.py.
* Threads: the managed PRNGs are process-wide and saved per run; what two
  threads do to each other is not modelled.
* Type resolution (typeres.rs): a case distinction over Python's type system.
* `characters()` by category and codec, `from_regex`; `decimals`, `complex`,
  `functions`, `randoms`, `data()`; the rewriting of float filters.
* Overflow of the sizes in a corrupt database entry, and errors of a database.
* How long the search for further bugs goes on, to the example: no document says it, so
  `EveryBugReportedOnce` and `RunsEnd` only say that it ends and loses no bug it met.
  Hazards that no property covers carry a note in `PROJECT.json` that says why.
* Reports, statistics, settings, error classes, NumPy strategies and the
  extension module's glue: they keep no state between calls or only format it.

What would come next: the wrapper's exits over `Runner`'s results; the PRNGs
under threads. Proofs: draws of strategies as recursive functions.
