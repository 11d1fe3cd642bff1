------------------------------- MODULE Runner -------------------------------
(***************************************************************************)
(* One @given run of the native engine (run_native in engine.rs) and the   *)
(* example database it shares with the runs before and after it.           *)
(*                                                                         *)
(* A choice sequence is its rank in the sort_key order (shorter first,     *)
(* then simpler), so 0 is what the all-simplest template draws and a       *)
(* shrink goes to a smaller rank.  The test under run maps each sequence   *)
(* to the set of outcomes executing it can have: a singleton for a         *)
(* deterministic test, more for a flaky one.  The choice tree is           *)
(* abstracted to the set of sequences it holds (module DataTree), the      *)
(* shrinker's passes to "some trial at most as complex" (module Shrinker). *)
(***************************************************************************)
EXTENDS Integers, Sequences, FiniteSets

CONSTANTS
  MaxRank,        \* the most complex choice sequence there is
  Origins,        \* interesting origins: exception type and line
  NoOrigin,       \* "no origin", and the exception of a result that is flaky
  Junk,           \* a database value that does not decode
  MaxExamples,    \* settings.max_examples
  IterFactor, IterBase, \* cap = max_examples * IterFactor + IterBase (10, 100)
  MinTestCalls,   \* MIN_TEST_CALLS (10)
  SearchWindow,   \* calls the search for further bugs may last (1000)
  InvalidGiveUp,  \* INVALID_THRESHOLD_BASE + 1
  MaxPasses,      \* iterations of the shrink loop (300)
  MaxRuns,        \* BOUND: runs of the program explored
  Tests,          \* BOUND: the tests explored
  Configs         \* BOUND: the settings explored

Ranks == 0 .. MaxRank
Entries == Ranks \cup {Junk}
Failures == Origins
Outcomes == {"valid", "invalid", "overrun", "abort"} \cup Failures

(* What the caller passes: report_multiple_bugs, whether a database is     *)
(* set, MAX_SHRINKS, the suppressed health checks, and what the choice     *)
(* tree can make of the strategies: "finite" (all choices finite, none     *)
(* forced), "forced" (finite, but a forced boolean keeps the tree from     *)
(* ever being exhausted) or "infinite" (tracking is switched off).         *)
ConfigType ==
  [multi : BOOLEAN, useDb : BOOLEAN, maxShrinks : Nat,
   filterSuppressed : BOOLEAN, slowChecked : BOOLEAN,
   space : {"finite", "forced", "infinite"}]

ASSUME ConstantsAssumption ==
  /\ MaxRank \in Nat
  /\ {MaxExamples, IterFactor, IterBase, MinTestCalls, SearchWindow,
      InvalidGiveUp, MaxPasses, MaxRuns} \subseteq Nat
  /\ NoOrigin \notin Origins
  /\ Junk \notin Ranks
  /\ {"valid", "invalid", "overrun", "abort"} \cap Origins = {}
  /\ Tests \subseteq [Ranks -> (SUBSET Outcomes) \ {{}}]
  /\ Configs \subseteq ConfigType

VARIABLES
  pc,         \* where run_native is
  runs,       \* runs started so far
  test,       \* the outcomes of each choice sequence under the current test
  cfg,        \* the settings of this run
  db,         \* the values saved under the test's key
  queue,      \* fetched values the reuse phase has still to replay
  bugs,       \* bugs: <<origin, choices, exception>> in the order found
  fromDb,     \* from_db
  count,      \* valid, invalid, overrun, iters, calls, firstBug, lastBug
  seen,       \* all_tree
  track,      \* track_tree
  rejected,   \* invalid_tree
  keepGoing,  \* keep_going
  job,        \* the bug being shrunk, confirmed and saved
  pending,    \* bugs and drained slips still to be minimised
  slipOn,     \* SLIP_ENABLED
  slipped,    \* SLIPPED
  results,    \* what run_native will return
  minimal,    \* MINIMAL_CHOICES
  verdict,    \* how the run ended
  executed,   \* how the test body last ran: in or out of the executor
  witnessed,  \* history: the origins this run saw while it collected bugs
  promised    \* history: the origins an earlier run reported for this test

searchVars == <<queue, bugs, fromDb, count, seen, track, rejected, keepGoing>>
shrinkVars == <<job, pending, slipOn, slipped>>
reportVars == <<results, minimal, verdict>>
givenVars  == <<runs, test, cfg>>
history    == <<witnessed, promised>>
vars == <<pc, givenVars, db, searchVars, shrinkVars, reportVars, executed,
          history>>

Bug == [origin : Origins, choice : Ranks, exc : Origins]
NoJob == [kind |-> "none"]
Job == [kind : {"single", "multi", "slip"}, origin : Origins, choice : Ranks,
        exc : Origins \cup {NoOrigin}, shrinks : Nat, passes : Nat,
        improved : BOOLEAN]
Result == [origin : Origins, exc : Origins \cup {NoOrigin}, choice : Ranks]
Counts == [valid : Nat, invalid : Nat, overrun : Nat, iters : Nat,
           calls : Nat, firstBug : Nat, lastBug : Nat]

Phases == {"idle", "reuse", "simplest", "generate", "verify", "collect",
           "replay", "passes", "confirm", "save", "drain", "slips", "report",
           "done"}
Verdicts == {"none", "pass", "bugs", "flaky", "abort", "too_slow",
             "too_large", "exhausted", "unsatisfiable", "filter_too_much"}

TypeOK ==
  /\ pc \in Phases
  /\ runs \in Nat
  /\ test \in [Ranks -> (SUBSET Outcomes) \ {{}}]
  /\ cfg \in ConfigType
  /\ db \subseteq Entries
  /\ queue \subseteq Entries
  /\ bugs \in Seq(Bug)
  /\ fromDb \in BOOLEAN
  /\ count \in Counts
  /\ seen \subseteq Ranks
  /\ track \in BOOLEAN
  /\ rejected \subseteq Ranks
  /\ keepGoing \in BOOLEAN
  /\ job \in Job \cup {NoJob}
  /\ pending \in Seq(Bug)
  /\ slipOn \in BOOLEAN
  /\ slipped \in Seq(Bug)
  /\ results \in Seq(Result)
  /\ minimal \in Ranks \cup {-1}
  /\ verdict \in Verdicts
  /\ executed \in {"none", "wrapped", "bare"}
  /\ witnessed \subseteq Origins
  /\ promised \subseteq Origins

-----------------------------------------------------------------------------
(* Helpers *)

NoCounts == [valid |-> 0, invalid |-> 0, overrun |-> 0, iters |-> 0,
             calls |-> 0, firstBug |-> 0, lastBug |-> 0]

OriginsOf(s) == {s[i].origin : i \in DOMAIN s}

NewBugFlaky(o, c) == [origin |-> o, choice |-> c, exc |-> NoOrigin]
NewBug(o, c) == [origin |-> o, choice |-> c, exc |-> o]

\* bugs.iter().any(|b| b.0 == o): one bug per interesting origin.
NotDeduped(s, o, c) == Append(s, NewBug(o, c))
OnlyFirst(s, o, c) == IF s = <<>> THEN <<NewBug(o, c)>> ELSE s
Deduped(s, o, c) == IF o \in OriginsOf(s) THEN s ELSE Append(s, NewBug(o, c))

IterCap == MaxExamples * IterFactor + IterBase

\* The loop's own bound; the search is over once it is FALSE.
MayGenerate == keepGoing /\ count.valid < MaxExamples /\ count.iters < IterCap

\* TreeNode::exhausted on a tree that holds exactly the sequences S.
ExhaustedEarly(S) == cfg.space = "finite" /\ Cardinality(S) >= MaxRank
Exhausted(S) == cfg.space = "finite" /\ S = Ranks

\* track_example: the tree after an example, and whether it is still kept.
Tracked(c) == IF track /\ cfg.space # "infinite" THEN seen \cup {c} ELSE seen
StillTracking == track /\ cfg.space # "infinite"

\* db.save: nothing without a database.
SavedUnlessSlip(c) == IF cfg.useDb /\ job.kind # "slip" THEN db \cup {c} ELSE db
Saved(c) == IF cfg.useDb THEN db \cup {c} ELSE db

\* run_native leaves by `?` or by an early return: no phase follows.
Leave(v) == pc' = "done" /\ verdict' = v

-----------------------------------------------------------------------------
(* The run starts.  RunNativeGuard and the resets that follow it make the  *)
(* working state fresh; the database is fetched before anything else.      *)

Init ==
  /\ pc = "idle" /\ runs = 0
  /\ test \in Tests /\ cfg \in Configs
  /\ db \in SUBSET Entries
  /\ queue = {} /\ bugs = <<>> /\ fromDb = FALSE /\ count = NoCounts
  /\ seen = {} /\ track = TRUE /\ rejected = {} /\ keepGoing = TRUE
  /\ job = NoJob /\ pending = <<>> /\ slipOn = FALSE /\ slipped = <<>>
  /\ results = <<>> /\ minimal = -1 /\ verdict = "none"
  /\ executed = "none" /\ witnessed = {} /\ promised = {}

Promise ==
  IF verdict = "bugs" /\ cfg.useDb THEN OriginsOf(results) ELSE promised

StartRun ==
  /\ pc \in {"idle", "done"} /\ runs < MaxRuns
  /\ runs' = runs + 1
  /\ pc' = "reuse"
  /\ queue' = IF cfg.useDb THEN db ELSE {}
  /\ bugs' = <<>> /\ fromDb' = FALSE /\ count' = NoCounts
  /\ seen' = {} /\ track' = TRUE /\ rejected' = {} /\ keepGoing' = TRUE
  /\ job' = NoJob /\ pending' = <<>> /\ slipOn' = TRUE /\ slipped' = <<>>
  /\ results' = <<>> /\ minimal' = -1 /\ verdict' = "none"
  /\ executed' = "none"
  /\ witnessed' = {} /\ promised' = Promise
  /\ UNCHANGED <<test, cfg, db>>

\* Between two runs the test may be edited and its settings changed.
Edit ==
  /\ pc \in {"idle", "done"} /\ runs \in 1 .. MaxRuns - 1
  /\ test' \in Tests /\ cfg' \in Configs
  /\ pc' = "idle" /\ verdict' = "none"
  /\ promised' = IF test' = test THEN Promise ELSE {}
  /\ UNCHANGED <<runs, db, searchVars, shrinkVars, results, minimal, executed,
                 witnessed>>

(* The worker is killed: what it held is lost, the database is not.        *)
Crash ==
  /\ pc \notin {"idle", "done"}
  /\ pc' = "idle"
  /\ UNCHANGED <<givenVars, db, searchVars, shrinkVars, reportVars, executed,
                 history>>

-----------------------------------------------------------------------------
(* Database reuse: every saved value is replayed before anything is        *)
(* generated; each distinct failure is kept, everything else is pruned.    *)

ReuseUndecodable ==
  /\ pc = "reuse" /\ Junk \in queue
  /\ queue' = queue \ {Junk}
  /\ db' = db \ {Junk}
  /\ UNCHANGED <<pc, givenVars, bugs, fromDb, count, seen, track, rejected,
                 keepGoing, shrinkVars, reportVars, executed, history>>

ReuseFails(c, o) ==
  /\ pc = "reuse" /\ c \in queue \ {Junk} /\ o \in test[c] \cap Failures
  /\ queue' = queue \ {c}
  /\ bugs' = Deduped(bugs, o, c)
  /\ fromDb' = TRUE
  /\ count' = [count EXCEPT !.calls = @ + 1]
  /\ witnessed' = witnessed \cup {o}
  /\ executed' = "wrapped"
  /\ UNCHANGED <<pc, givenVars, db, seen, track, rejected, keepGoing,
                 shrinkVars, reportVars, promised>>

\* Replaying c can end without a failure.
Stale(c) == test[c] \cap {"valid", "invalid", "overrun"} # {}

ReuseStale(c) ==
  /\ pc = "reuse" /\ c \in queue \ {Junk} /\ Stale(c)
  /\ queue' = queue \ {c}
  /\ db' = db \ {c}
  /\ executed' = "wrapped"
  /\ UNCHANGED <<pc, givenVars, bugs, fromDb, count, seen, track, rejected,
                 keepGoing, shrinkVars, reportVars, history>>

ReuseAborts(c) ==
  /\ pc = "reuse" /\ c \in queue \ {Junk} /\ "abort" \in test[c]
  /\ Leave("abort")
  /\ executed' = "wrapped"
  /\ UNCHANGED <<givenVars, db, searchVars, shrinkVars, results, minimal,
                 history>>

\* With a failure in hand the simplest example is not tried, and a failure
\* from the database ends the search.
ReuseDoneAtFirst ==
  /\ pc = "reuse"
  /\ queue = {} \/ bugs # <<>>
  /\ queue' = {}
  /\ pc' = IF bugs = <<>> THEN "simplest" ELSE "generate"
  /\ keepGoing' = (bugs = <<>>)
  /\ UNCHANGED <<givenVars, db, bugs, fromDb, count, seen, track,
                 rejected, shrinkVars, reportVars, executed, history>>
ReuseDone ==
  /\ pc = "reuse" /\ queue = {}
  /\ pc' = IF bugs = <<>> THEN "simplest" ELSE "generate"
  /\ keepGoing' = (bugs = <<>>)
  /\ UNCHANGED <<givenVars, db, queue, bugs, fromDb, count, seen, track,
                 rejected, shrinkVars, reportVars, executed, history>>

-----------------------------------------------------------------------------
(* The all-simplest example, then random ones.                             *)

\* The counters after an example that ended with outcome o.
Tally(n, o) ==
  CASE o = "valid"   -> [n EXCEPT !.valid = @ + 1]
    [] o = "invalid" -> [n EXCEPT !.invalid = @ + 1]
    [] o = "overrun" -> [n EXCEPT !.invalid = @ + 1, !.overrun = @ + 1]
    [] OTHER         -> n

\* first_bug_at and last_bug_at: the call that found a new bug.
Found(n, o, call) ==
  IF o \in Failures /\ o \notin OriginsOf(bugs)
    THEN [n EXCEPT !.firstBug = IF @ = 0 THEN call ELSE @, !.lastBug = call]
    ELSE n

\* What an example with choices c and outcome o leaves behind.
Absorb(c, o) ==
  /\ bugs' = IF o \in Failures THEN Deduped(bugs, o, c) ELSE bugs
  /\ rejected' = IF o \in {"invalid", "overrun"} /\ count.valid = 0
                   THEN rejected \cup {c} ELSE rejected
  /\ witnessed' = witnessed \cup ({o} \cap Failures)
  /\ seen' = Tracked(c) /\ track' = StillTracking
  /\ executed' = "wrapped"

Simplest(o) ==
  /\ pc = "simplest" /\ o \in test[0] \ {"abort"}
  /\ count' = Found(Tally([count EXCEPT !.calls = @ + 1], o), o,
                    count.calls + 1)
  /\ Absorb(0, o)
  /\ pc' = "generate"
  /\ keepGoing' = (o \notin Failures \/ cfg.multi)
  /\ UNCHANGED <<givenVars, db, queue, fromDb, shrinkVars, reportVars,
                 promised>>

SimplestAborts ==
  /\ pc = "simplest" /\ "abort" \in test[0]
  /\ Leave("abort") /\ executed' = "wrapped"
  /\ UNCHANGED <<givenVars, db, searchVars, shrinkVars, results, minimal,
                 history>>

(* The tail of the loop body: stop when the space is exhausted, when the   *)
(* search for further bugs has had its window, or when nothing was valid.  *)
WindowClosed(n, bs) ==
  /\ cfg.multi /\ bs # <<>>
  /\ n.calls >= MinTestCalls
  /\ n.calls >= n.firstBug + SearchWindow \/ n.calls >= 2 * n.lastBug

GoOn(n, bs, o) ==
  /\ o \notin Failures \/ cfg.multi
  /\ ~(track' /\ Exhausted(seen'))
  /\ ~WindowClosed(n, bs)
  /\ ~(n.valid = 0 /\ n.invalid >= InvalidGiveUp)

\* HealthCheck.too_slow may fire within the first 10 valid examples.
EndExample(n) ==
  \/ UNCHANGED <<pc, verdict>>
  \/ cfg.slowChecked /\ n.valid < 10 /\ bugs' = <<>> /\ Leave("too_slow")

\* A duplicate of an example in the tree is recognised once its arguments are
\* drawn: unless the draws reject it, overrun or raise, its body does not run.
Recognised(c) == track /\ c \in seen
EndsDrawing(o) == o \in {"invalid", "overrun"}

GenerateRedundant(c) ==
  /\ pc = "generate" /\ MayGenerate /\ Recognised(c) /\ test[c] # {"overrun"}
  /\ count' = [count EXCEPT !.iters = @ + 1, !.calls = @ + 1]
  /\ seen' = Tracked(c) /\ track' = StillTracking
  /\ keepGoing' = GoOn(count', bugs, "valid")
  /\ UNCHANGED <<bugs, rejected, witnessed, executed>>
  /\ EndExample(count')
  /\ UNCHANGED <<givenVars, db, queue, fromDb, shrinkVars, results, minimal,
                 promised>>

Generate(c, o) ==
  /\ pc = "generate" /\ MayGenerate /\ (~Recognised(c) \/ EndsDrawing(o))
  /\ o \in test[c] \ {"abort"}
  /\ count' = Found(Tally([count EXCEPT !.iters = @ + 1, !.calls = @ + 1], o),
                    o, count.calls + 1)
  /\ Absorb(c, o)
  /\ keepGoing' = GoOn(count', bugs', o)
  /\ EndExample(count')
  /\ UNCHANGED <<givenVars, db, queue, fromDb, shrinkVars, results, minimal,
                 promised>>

GenerateAborts(c) ==
  /\ pc = "generate" /\ MayGenerate /\ "abort" \in test[c]
  /\ Leave("abort") /\ executed' = "wrapped"
  /\ UNCHANGED <<givenVars, db, searchVars, shrinkVars, results, minimal,
                 history>>

-----------------------------------------------------------------------------
(* The search is over: judge a run without a bug, or minimise what it has. *)

Searched == pc = "generate" /\ ~MayGenerate

NewJob(k, b) ==
  [kind |-> k, origin |-> b.origin, choice |-> b.choice, exc |-> b.exc,
   shrinks |-> 0, passes |-> 0, improved |-> FALSE]

\* A run without a bug and without one valid example is an error: too large,
\* unsatisfiable, or filtered too much.
NoBugVerdict ==
  IF count.valid > 0 \/ count.invalid = 0 THEN "pass"
  ELSE IF count.overrun = count.invalid THEN "too_large"
  ELSE IF Exhausted(rejected) THEN "exhausted"
  ELSE IF cfg.filterSuppressed THEN "unsatisfiable"
  ELSE "filter_too_much"

JudgeNoBug ==
  /\ Searched /\ bugs = <<>>
  /\ Leave(NoBugVerdict)
  /\ UNCHANGED <<givenVars, db, searchVars, shrinkVars, results, minimal,
                 executed, history>>

\* One bug: verify it first, unless it comes from the database or shrinking
\* is off.
JudgeOneBug ==
  /\ Searched /\ Len(bugs) = 1
  /\ pc' = IF fromDb THEN "save"
           ELSE IF cfg.maxShrinks = 0 THEN "replay" ELSE "verify"
  /\ job' = NewJob("single", bugs[1])
  /\ UNCHANGED <<givenVars, db, searchVars, pending, slipOn, slipped,
                 reportVars, executed, history>>

JudgeManyBugs ==
  /\ Searched /\ Len(bugs) > 1
  /\ pc' = "collect"
  /\ pending' = bugs
  /\ UNCHANGED <<givenVars, db, searchVars, job, slipOn, slipped, reportVars,
                 executed, history>>

\* The verifying run: only a failure of another origin is flaky here.
Verify(o) ==
  /\ pc = "verify" /\ o \in test[job.choice]
  /\ CASE o = "abort"                       -> Leave("abort")
       [] o \in Failures \ {job.origin}     -> Leave("flaky")
       [] OTHER -> pc' = "replay" /\ UNCHANGED verdict
  /\ executed' = "bare"
  /\ UNCHANGED <<givenVars, db, searchVars, shrinkVars, results, minimal,
                 history>>

\* The next bug of several: from the database as it is, otherwise shrunk.
CollectFromDb ==
  /\ pc = "collect" /\ pending # <<>> /\ fromDb
  /\ results' = Append(results, [origin |-> Head(pending).origin,
                                 exc |-> Head(pending).exc,
                                 choice |-> Head(pending).choice])
  /\ pending' = Tail(pending)
  /\ UNCHANGED <<pc, givenVars, db, searchVars, job, slipOn, slipped, minimal,
                 verdict, executed, history>>

CollectShrink ==
  /\ pc = "collect" /\ pending # <<>> /\ ~fromDb
  /\ job' = NewJob("multi", Head(pending))
  /\ pending' = Tail(pending)
  /\ pc' = "replay"
  /\ UNCHANGED <<givenVars, db, searchVars, slipOn, slipped, reportVars,
                 executed, history>>

Collected ==
  /\ pc = "collect" /\ pending = <<>>
  /\ pc' = IF fromDb THEN "report" ELSE "drain"
  /\ UNCHANGED <<givenVars, db, searchVars, shrinkVars, reportVars, executed,
                 history>>

-----------------------------------------------------------------------------
(* The shrink loop: replay, then passes of trials, then again.             *)

AfterShrink == IF job.kind = "single" THEN "save" ELSE "confirm"

\* MAX_SHRINKS or the limit on passes stops the loop before the replay.
ShrinkLimit ==
  /\ pc = "replay"
  /\ job.passes >= MaxPasses \/ job.shrinks >= cfg.maxShrinks
  /\ pc' = AfterShrink
  /\ UNCHANGED <<givenVars, db, searchVars, shrinkVars, reportVars, executed,
                 history>>

\* A replay that fails begins a pass and recaptures the exception, whatever
\* its origin.
PassUncounted(o) == [job EXCEPT !.exc = o, !.improved = FALSE]
Pass(o) == [job EXCEPT !.passes = @ + 1, !.exc = o, !.improved = FALSE]

ShrinkReplay(o) ==
  /\ pc = "replay" /\ o \in test[job.choice]
  /\ job.passes < MaxPasses /\ job.shrinks < cfg.maxShrinks
  /\ executed' = "bare"
  /\ CASE o \in Failures ->
            job' = Pass(o) /\ pc' = "passes" /\ UNCHANGED verdict
       [] o = "abort" -> Leave("abort") /\ UNCHANGED job
       [] OTHER       -> pc' = AfterShrink /\ UNCHANGED <<job, verdict>>
  /\ UNCHANGED <<givenVars, db, searchVars, pending, slipOn, slipped, results,
                 minimal, history>>

AcceptsAnyFailure(o) == o \in Failures
AcceptsAll(o) == o # "abort"
Accepts(o) == o = job.origin

\* trial_fails: a trial counts when it reproduces the same origin; another
\* origin is a slip, remembered once while slips are collected.
ShrinkTrial(d, o) ==
  /\ pc = "passes" /\ d <= job.choice /\ o \in test[d]
  /\ executed' = "bare"
  /\ IF o = "abort" THEN Leave("abort") ELSE UNCHANGED <<pc, verdict>>
  /\ job' = IF Accepts(o)
              THEN [job EXCEPT !.choice = d, !.improved = TRUE] ELSE job
  /\ IF slipOn /\ o \in Failures \ {job.origin}
       THEN /\ slipped' = Deduped(slipped, o, d)
            /\ witnessed' = witnessed \cup {o}
       ELSE UNCHANGED <<slipped, witnessed>>
  /\ UNCHANGED <<givenVars, db, searchVars, pending, slipOn, results, minimal,
                 promised>>

\* A pass that shrank starts the loop again; at the fixpoint the loop may
\* start once more to retry the deletions, or end.
ShrinkPassDone ==
  /\ pc = "passes"
  /\ IF job.improved
       THEN pc' = "replay" /\ job' = [job EXCEPT !.shrinks = @ + 1]
       ELSE pc' \in {"replay", AfterShrink} /\ UNCHANGED job
  /\ UNCHANGED <<givenVars, db, searchVars, pending, slipOn, slipped,
                 reportVars, executed, history>>

\* shrink_confirmed: a minimal example that does not fail again is flaky.
Confirm(o) ==
  /\ pc = "confirm" /\ o \in test[job.choice]
  /\ executed' = "bare"
  /\ IF o = "abort"
       THEN Leave("abort") /\ UNCHANGED job
       ELSE /\ pc' = "save"
            /\ job' = [job EXCEPT !.exc = IF o = job.origin THEN @ ELSE NoOrigin]
            /\ UNCHANGED verdict
  /\ UNCHANGED <<givenVars, db, searchVars, pending, slipOn, slipped, results,
                 minimal, history>>

\* The minimal sequence is saved and becomes a result; the primary failure's
\* is also published for @reproduce_failure.
Save ==
  /\ pc = "save"
  /\ db' = Saved(job.choice)
  /\ results' = Append(results, [origin |-> job.origin, exc |-> job.exc,
                                 choice |-> job.choice])
  /\ minimal' = IF job.kind = "single" THEN job.choice ELSE minimal
  /\ pc' = CASE job.kind = "single" -> "drain"
             [] job.kind = "multi"  -> "collect"
             [] OTHER               -> "slips"
  /\ UNCHANGED <<givenVars, searchVars, shrinkVars, verdict, executed, history>>

-----------------------------------------------------------------------------
(* shrink_slipped: the other bugs met while shrinking, with the collection *)
(* of further slips switched off.                                          *)

DrainSlips ==
  /\ pc = "drain"
  /\ pending' = slipped /\ slipped' = <<>> /\ slipOn' = FALSE
  /\ pc' = "slips"
  /\ UNCHANGED <<givenVars, db, searchVars, job, reportVars, executed, history>>

NextSlip ==
  /\ pc = "slips" /\ pending # <<>>
  /\ pending' = Tail(pending)
  /\ IF Head(pending).origin \in OriginsOf(bugs) \cup OriginsOf(results)
       THEN UNCHANGED <<pc, job>>
       ELSE pc' = "replay" /\ job' = NewJob("slip", Head(pending))
  /\ UNCHANGED <<givenVars, db, searchVars, slipOn, slipped, reportVars,
                 executed, history>>

SlipsDone ==
  /\ pc = "slips" /\ pending = <<>>
  /\ slipOn' = TRUE
  /\ pc' = "report"
  /\ UNCHANGED <<givenVars, db, searchVars, job, pending, slipped, reportVars,
                 executed, history>>

\* choices_lt over the candidates, the first of equals.
IsSmallest(i) ==
  \A j \in DOMAIN results :
    \/ results[i].choice < results[j].choice
    \/ results[i].choice = results[j].choice /\ i <= j

\* With report_multiple_bugs off a single bug and its slips are reported as
\* the simplest of them; several bugs are reported as they are.
Report ==
  /\ pc = "report"
  /\ IF Len(bugs) = 1 /\ ~cfg.multi
       THEN \E i \in DOMAIN results : IsSmallest(i) /\ results' = <<results[i]>>
       ELSE UNCHANGED results
  /\ Leave("bugs")
  /\ UNCHANGED <<givenVars, db, searchVars, shrinkVars, minimal, executed,
                 history>>

-----------------------------------------------------------------------------

RunStep ==
  \/ ReuseUndecodable \/ ReuseDone
  \/ \E c \in Ranks :
       \/ ReuseStale(c) \/ ReuseAborts(c)
       \/ GenerateRedundant(c) \/ GenerateAborts(c)
       \/ \E o \in Failures : ReuseFails(c, o)
       \/ \E o \in Outcomes : Generate(c, o) \/ ShrinkTrial(c, o)
  \/ SimplestAborts
  \/ \E o \in Outcomes :
       Simplest(o) \/ Verify(o) \/ ShrinkReplay(o) \/ Confirm(o)
  \/ JudgeNoBug \/ JudgeOneBug \/ JudgeManyBugs
  \/ CollectFromDb \/ CollectShrink \/ Collected
  \/ ShrinkLimit \/ ShrinkPassDone \/ Save
  \/ DrainSlips \/ NextSlip \/ SlipsDone \/ Report

Next == StartRun \/ Edit \/ Crash \/ RunStep

Spec == Init /\ [][Next]_vars

\* run_native is one uninterrupted call: it takes its next step unless killed.
FairSpec == Spec /\ WF_vars(RunStep)

-----------------------------------------------------------------------------
(* Properties                                                              *)

Deterministic == \A c \in Ranks : \E o \in Outcomes : test[c] = {o}
Returned == pc = "done" /\ verdict = "bugs"

CanFail(c) == test[c] \cap Failures # {}

AllReal(s) == \A i \in DOMAIN s : s[i].origin \in test[s[i].choice]

(* A bug never parts from a choice sequence that really produces it:       *)
(* through deduplication, shrinking, slipping and draining, the origin a   *)
(* bug is filed under is a possible outcome of the choices filed with it.  *)
BugsAreReal ==
  pc # "idle" =>
    /\ AllReal(bugs) /\ AllReal(pending) /\ AllReal(slipped)
    /\ job # NoJob => job.origin \in test[job.choice]

(* Only choice sequences that can fail enter the database, whatever the    *)
(* path that saves them (primary, one of several, slipped, from the        *)
(* database) and however the shrinker got to them.                         *)
SavesOnlyFailures ==
  [][\A c \in db' \ db : c \in Ranks /\ CanFail(c)]_vars

(* A run that has replayed the whole database, several values failing and  *)
(* others not, leaves in it only values that can fail, its own included:   *)
(* none outlives the edit of the test that made it pass or undecodable.    *)
OnlyLiveKept ==
  pc = "done" /\ cfg.useDb /\ queue = {} => \A e \in db : e \in Ranks /\ CanFail(e)

(* No bug is lost and none is reported twice: for a deterministic test and *)
(* report_multiple_bugs, every origin met while generating, replaying the  *)
(* database or shrinking is reported, once.                                *)
EveryBugReportedOnce ==
  Returned /\ Deterministic =>
    /\ cfg.multi => witnessed \subseteq OriginsOf(results)
    /\ \A i, j \in DOMAIN results :
         results[i].origin = results[j].origin => i = j

(* The bug under way when one is being verified, shrunk or saved.          *)
JobUnderWay == pc \in {"verify", "replay", "passes", "confirm", "save"} => job # NoJob

(* What is reported is in the database, so that the next run replays it.   *)
ReportedIsSaved ==
  Returned /\ cfg.useDb =>
    \A i \in DOMAIN results : results[i].choice \in db

(* A bug an earlier run reported is reported again by every later run of   *)
(* the same deterministic test that ends on its own, whatever crashed in   *)
(* between and whatever settings it runs under.                            *)
ReportedAgain ==
  pc = "done" /\ verdict # "abort" /\ cfg.useDb /\ Deterministic =>
    promised \subseteq OriginsOf(results)

(* The verdicts that speak of the whole choice space are true of it: a run *)
(* that passes by exhaustion leaves no failing sequence behind, and        *)
(* "all possible values were rejected" means just that.                    *)
VerdictsAreTrue ==
  pc = "done" /\ Deterministic =>
    /\ verdict = "pass" /\ track /\ Exhausted(seen) => ~\E c \in Ranks : CanFail(c)
    /\ verdict = "exhausted" =>
         \A c \in Ranks : test[c] \subseteq {"invalid", "overrun"}

(* Every run that is not killed comes back to its caller.                  *)
RunsEnd == (pc = "reuse") ~> (pc \in {"idle", "done"})

(* settings.report_multiple_bugs off: one failure is reported.             *)
OneBugUnlessAsked == Returned /\ ~cfg.multi => Len(results) = 1

(* The @reproduce_failure blob published with a single reported failure is *)
(* the choice sequence of that failure.                                    *)
BlobReproducesReport ==
  Returned /\ Len(results) = 1 => minimal = results[1].choice

(* setup_example and teardown_example run around each example.             *)
RunsInExecutor == executed # "bare"
=============================================================================
