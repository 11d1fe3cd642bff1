---------------------------- MODULE Runner_proofs ---------------------------
(***************************************************************************)
(* Proofs about Runner, for every set of origins, tests, settings, bounds  *)
(* and number of runs.                                                     *)
(***************************************************************************)
EXTENDS Runner, SequenceTheorems, TLAPS

(* The inductive invariant: types, bugs filed under what they really do,   *)
(* and a bug at hand whenever one is being verified, shrunk or saved.      *)
Inv == TypeOK /\ BugsAreReal /\ JobUnderWay

-----------------------------------------------------------------------------
(* What the helpers return.                                                *)

(* A bug made of an origin and choices is a bug.                           *)
LEMMA NewBugType ==
  ASSUME NEW o \in Origins, NEW c \in Ranks
  PROVE  NewBug(o, c) \in Bug
BY DEF NewBug, Bug

(* Deduplication keeps a sequence of bugs a sequence of bugs.              *)
LEMMA DedupedType ==
  ASSUME NEW s \in Seq(Bug), NEW o \in Origins, NEW c \in Ranks
  PROVE  Deduped(s, o, c) \in Seq(Bug)
BY NewBugType DEF Deduped

(* Deduplication keeps every bug with choices that produce it.             *)
LEMMA DedupedReal ==
  ASSUME NEW s \in Seq(Bug), NEW o \in Origins, NEW c \in Ranks,
         AllReal(s), o \in test[c]
  PROVE  AllReal(Deduped(s, o, c))
<1>1. CASE o \in OriginsOf(s)
  BY <1>1 DEF Deduped
<1>2. CASE o \notin OriginsOf(s)
  <2>1. Deduped(s, o, c) = Append(s, NewBug(o, c))
    BY <1>2 DEF Deduped
  <2>2. NewBug(o, c).origin = o /\ NewBug(o, c).choice = c
    BY DEF NewBug
  <2>3. SUFFICES ASSUME NEW i \in 1 .. Len(s) + 1
                 PROVE  Append(s, NewBug(o, c))[i].origin
                          \in test[Append(s, NewBug(o, c))[i].choice]
    BY <2>1, NewBugType DEF AllReal
  <2>4. CASE i = Len(s) + 1
    BY <2>2, <2>4, NewBugType
  <2>5. CASE i \in 1 .. Len(s)
    BY <2>5, NewBugType DEF AllReal
  <2>. QED  BY <2>4, <2>5
<1>. QED  BY <1>1, <1>2

(* A job under way is not the absence of one.                              *)
LEMMA JobIsNotNoJob ==
  ASSUME NEW j \in Job
  PROVE  j # NoJob
BY DEF Job, NoJob

(* A new job is a job, for the bug it was made of.                         *)
LEMMA NewJobType ==
  ASSUME NEW k \in {"single", "multi", "slip"}, NEW b \in Bug
  PROVE  /\ NewJob(k, b) \in Job
         /\ NewJob(k, b).origin = b.origin /\ NewJob(k, b).choice = b.choice
BY DEF NewJob, Job, Bug

(* Counting an example keeps the counters natural numbers.                 *)
LEMMA TallyType ==
  ASSUME NEW n \in Counts, NEW o
  PROVE  Tally(n, o) \in Counts
<1>1. CASE o = "valid"
  BY <1>1 DEF Tally, Counts
<1>2. CASE o = "invalid"
  BY <1>2 DEF Tally, Counts
<1>3. CASE o = "overrun"
  <2>1. Tally(n, o) = [n EXCEPT !.invalid = @ + 1, !.overrun = @ + 1]
    BY <1>3 DEF Tally
  <2>2. /\ [n EXCEPT !.invalid = @ + 1] \in Counts
        /\ n.overrun + 1 \in Nat
    BY DEF Counts
  <2>3. \A m \in Counts, k \in Nat : [m EXCEPT !.overrun = k] \in Counts
    BY DEF Counts
  <2>4. Tally(n, o) = [[n EXCEPT !.invalid = @ + 1] EXCEPT !.overrun = n.overrun + 1]
    BY <2>1 DEF Counts
  <2>. QED  BY <2>2, <2>3, <2>4
<1>4. CASE o \notin {"valid", "invalid", "overrun"}
  BY <1>4 DEF Tally
<1>. QED  BY <1>1, <1>2, <1>3, <1>4

(* So does counting an iteration of the generation loop.                   *)
LEMMA CountedType ==
  ASSUME NEW n \in Counts
  PROVE  /\ [n EXCEPT !.calls = @ + 1] \in Counts
         /\ [n EXCEPT !.iters = @ + 1, !.calls = @ + 1] \in Counts
<1>1. [n EXCEPT !.iters = @ + 1] \in Counts /\ n.calls + 1 \in Nat
  BY DEF Counts
<1>2. \A m \in Counts, k \in Nat : [m EXCEPT !.calls = k] \in Counts
  BY DEF Counts
<1>3. [n EXCEPT !.iters = @ + 1, !.calls = @ + 1]
        = [[n EXCEPT !.iters = @ + 1] EXCEPT !.calls = n.calls + 1]
  BY DEF Counts
<1>. QED  BY <1>1, <1>2, <1>3 DEF Counts

(* So does noting the call that found a bug.                               *)
LEMMA FoundType ==
  ASSUME NEW n \in Counts, NEW o, NEW call \in Nat
  PROVE  Found(n, o, call) \in Counts
BY DEF Found, Counts

(* The origins of bugs and of results are origins.                         *)
LEMMA OriginsType ==
  /\ \A s \in Seq(Bug) : OriginsOf(s) \subseteq Origins
  /\ \A s \in Seq(Result) : OriginsOf(s) \subseteq Origins
<1>1. ASSUME NEW s \in Seq(Bug)
      PROVE  OriginsOf(s) \subseteq Origins
  <2>1. \A i \in DOMAIN s : s[i] \in Bug
    OBVIOUS
  <2>2. \A b \in Bug : b.origin \in Origins
    BY DEF Bug
  <2>. QED  BY <2>1, <2>2 DEF OriginsOf
<1>2. ASSUME NEW s \in Seq(Result)
      PROVE  OriginsOf(s) \subseteq Origins
  <2>1. \A i \in DOMAIN s : s[i] \in Result
    OBVIOUS
  <2>2. \A b \in Result : b.origin \in Origins
    BY DEF Result
  <2>. QED  BY <2>1, <2>2 DEF OriginsOf
<1>. QED  BY <1>1, <1>2

(* The head and the tail of a sequence of bugs.                            *)
LEMMA HeadTailBugs ==
  ASSUME NEW s \in Seq(Bug), s # <<>>
  PROVE  /\ Head(s) \in Bug /\ Tail(s) \in Seq(Bug)
         /\ AllReal(s) => /\ Head(s).origin \in test[Head(s).choice]
                          /\ AllReal(Tail(s))
<1>1. Head(s) \in Bug /\ Tail(s) \in Seq(Bug) /\ Head(s) = s[1] /\ Len(s) > 0
  BY HeadTailProperties
<1>2. \A i \in 1 .. Len(Tail(s)) : i + 1 \in 1 .. Len(s) /\ Tail(s)[i] = s[i + 1]
  BY HeadTailProperties
<1>. QED  BY <1>1, <1>2 DEF AllReal

(* What the shrinker does to its job leaves it a job for the same bug.     *)
LEMMA JobUpdates ==
  ASSUME NEW j \in Job
  PROVE  /\ \A o \in Origins :
              LET k == [j EXCEPT !.passes = @ + 1, !.exc = o, !.improved = FALSE]
              IN  k \in Job /\ k.origin = j.origin /\ k.choice = j.choice
         /\ \A d \in Ranks :
              LET k == [j EXCEPT !.choice = d, !.improved = TRUE]
              IN  k \in Job /\ k.origin = j.origin /\ k.choice = d
         /\ \A e \in Origins \cup {NoOrigin} :
              LET k == [j EXCEPT !.exc = e]
              IN  k \in Job /\ k.origin = j.origin /\ k.choice = j.choice
         /\ LET k == [j EXCEPT !.shrinks = @ + 1]
            IN  k \in Job /\ k.origin = j.origin /\ k.choice = j.choice
<1>. USE DEF Job
<1>1. ASSUME NEW o \in Origins
      PROVE  LET k == [j EXCEPT !.passes = @ + 1, !.exc = o, !.improved = FALSE]
             IN  k \in Job /\ k.origin = j.origin /\ k.choice = j.choice
  <2>. DEFINE k1 == [j EXCEPT !.passes = @ + 1]
              k2 == [k1 EXCEPT !.exc = o]
              k3 == [k2 EXCEPT !.improved = FALSE]
  <2>1. k1 \in Job /\ k1.origin = j.origin /\ k1.choice = j.choice
    OBVIOUS
  <2>2. k2 \in Job /\ k2.origin = j.origin /\ k2.choice = j.choice
    BY <2>1
  <2>3. k3 \in Job /\ k3.origin = j.origin /\ k3.choice = j.choice
    BY <2>2
  <2>. QED  BY <2>3
<1>2. ASSUME NEW d \in Ranks
      PROVE  LET k == [j EXCEPT !.choice = d, !.improved = TRUE]
             IN  k \in Job /\ k.origin = j.origin /\ k.choice = d
  <2>. DEFINE k1 == [j EXCEPT !.choice = d]
              k2 == [k1 EXCEPT !.improved = TRUE]
  <2>1. k1 \in Job /\ k1.origin = j.origin /\ k1.choice = d
    OBVIOUS
  <2>2. k2 \in Job /\ k2.origin = j.origin /\ k2.choice = d
    BY <2>1
  <2>. QED  BY <2>2
<1>3. ASSUME NEW e \in Origins \cup {NoOrigin}
      PROVE  LET k == [j EXCEPT !.exc = e]
             IN  k \in Job /\ k.origin = j.origin /\ k.choice = j.choice
  OBVIOUS
<1>4. LET k == [j EXCEPT !.shrinks = @ + 1]
      IN  k \in Job /\ k.origin = j.origin /\ k.choice = j.choice
  OBVIOUS
<1>. QED  BY <1>1, <1>2, <1>3, <1>4

-----------------------------------------------------------------------------
(* Every step keeps the invariant, action by action.                       *)

(* Editing the test between two runs.                                      *)
LEMMA EditKeeps ==
  ASSUME Inv, Edit
  PROVE  Inv'
<1>. USE DEF searchVars, shrinkVars
<1>1. Promise \subseteq Origins
  BY OriginsType DEF Inv, TypeOK, Promise
<1>2. promised' \subseteq Origins
  BY <1>1 DEF Edit
<1>3. test' \in [Ranks -> (SUBSET Outcomes) \ {{}}] /\ cfg' \in ConfigType
  BY ConstantsAssumption DEF Edit
<1>4. TypeOK'
  BY <1>2, <1>3 DEF Edit, Inv, TypeOK, Phases, Verdicts
<1>5. BugsAreReal' /\ JobUnderWay'
  BY DEF Edit, BugsAreReal, JobUnderWay
<1>. QED  BY <1>4, <1>5 DEF Inv

(* Starting a run forgets the bugs of the one before it.                   *)
LEMMA StartRunKeeps ==
  ASSUME Inv, StartRun
  PROVE  Inv'
<1>1. promised' \subseteq Origins
  BY OriginsType DEF Inv, TypeOK, StartRun, Promise
<1>2. count' \in Counts
  BY DEF StartRun, NoCounts, Counts
<1>3. /\ bugs' = <<>> /\ pending' = <<>> /\ slipped' = <<>> /\ results' = <<>>
      /\ job' = NoJob /\ pc' = "reuse"
  BY DEF StartRun
<1>a. <<>> \in Seq(Bug) /\ <<>> \in Seq(Result)
  OBVIOUS
<1>b. runs' \in Nat /\ queue' \subseteq Entries
  BY ConstantsAssumption DEF StartRun, Inv, TypeOK
<1>4. TypeOK'
  BY <1>1, <1>2, <1>3, <1>a, <1>b DEF StartRun, Inv, TypeOK, Phases, Verdicts
<1>5. BugsAreReal' /\ JobUnderWay'
  BY <1>3 DEF BugsAreReal, AllReal, JobUnderWay
<1>. QED  BY <1>4, <1>5 DEF Inv

(* Filing a failure under its origin keeps the bugs typed and real.        *)
LEMMA FilingKeeps ==
  ASSUME Inv, pc # "idle", NEW c \in Ranks, NEW o \in Origins, o \in test[c]
  PROVE  /\ Deduped(bugs, o, c) \in Seq(Bug) /\ AllReal(Deduped(bugs, o, c))
         /\ Deduped(slipped, o, c) \in Seq(Bug) /\ AllReal(Deduped(slipped, o, c))
BY DedupedType, DedupedReal DEF Inv, TypeOK, BugsAreReal

(* So does what an example leaves behind.                                  *)
LEMMA AbsorbKeeps ==
  ASSUME Inv, pc # "idle", NEW c \in Ranks, NEW o \in Outcomes, o \in test[c],
         Absorb(c, o)
  PROVE  /\ bugs' \in Seq(Bug) /\ AllReal(bugs')
         /\ rejected' \subseteq Ranks /\ seen' \subseteq Ranks
         /\ witnessed' \subseteq Origins
         /\ track' \in BOOLEAN /\ executed' = "wrapped"
<1>1. bugs' \in Seq(Bug) /\ AllReal(bugs')
  BY FilingKeeps DEF Absorb, Failures, Inv, TypeOK, BugsAreReal
<1>. QED  BY <1>1 DEF Absorb, Failures, Tracked, StillTracking, Inv, TypeOK

(* A value of the database that still fails.                               *)
LEMMA ReuseFailsKeeps ==
  ASSUME Inv, NEW c \in Ranks, NEW o \in Failures, ReuseFails(c, o)
  PROVE  Inv'
<1>. USE DEF searchVars, shrinkVars, reportVars, givenVars, history
<1>1. bugs' \in Seq(Bug) /\ AllReal(bugs')
  BY FilingKeeps DEF ReuseFails, Failures
<1>2. count' \in Counts
  BY CountedType DEF ReuseFails, Inv, TypeOK
<1>a. witnessed' \subseteq Origins /\ queue' \subseteq Entries
  BY DEF ReuseFails, Failures, Inv, TypeOK
<1>3. TypeOK'
  BY <1>1, <1>2, <1>a DEF ReuseFails, Inv, TypeOK
<1>4. BugsAreReal' /\ JobUnderWay'
  BY <1>1 DEF ReuseFails, Inv, BugsAreReal, AllReal, JobUnderWay
<1>. QED  BY <1>3, <1>4 DEF Inv

(* The all-simplest example.                                               *)
LEMMA SimplestKeeps ==
  ASSUME Inv, NEW o \in Outcomes, Simplest(o)
  PROVE  Inv'
<1>. USE DEF searchVars, shrinkVars, reportVars, givenVars, history
<1>1. pc # "idle" /\ o \in test[0] /\ 0 \in Ranks /\ Absorb(0, o)
  BY ConstantsAssumption DEF Simplest, Ranks
<1>2. /\ bugs' \in Seq(Bug) /\ AllReal(bugs')
      /\ rejected' \subseteq Ranks /\ seen' \subseteq Ranks
      /\ witnessed' \subseteq Origins
      /\ track' \in BOOLEAN /\ executed' = "wrapped"
  BY <1>1, AbsorbKeeps
<1>3. count' \in Counts
  <2>. DEFINE n == [count EXCEPT !.calls = @ + 1]
  <2>1. n \in Counts /\ count.calls + 1 \in Nat
    BY CountedType DEF Inv, TypeOK, Counts
  <2>2. Tally(n, o) \in Counts
    BY <2>1, TallyType
  <2>3. Found(Tally(n, o), o, count.calls + 1) \in Counts
    BY <2>1, <2>2, FoundType
  <2>4. count' = Found(Tally(n, o), o, count.calls + 1)
    BY DEF Simplest
  <2>. QED  BY <2>3, <2>4
<1>4. TypeOK'
  BY <1>2, <1>3 DEF Simplest, Inv, TypeOK, Phases
<1>5. BugsAreReal' /\ JobUnderWay'
  BY <1>2 DEF Simplest, Inv, BugsAreReal, AllReal, JobUnderWay
<1>. QED  BY <1>4, <1>5 DEF Inv

(* A random example.                                                       *)
LEMMA GenerateKeeps ==
  ASSUME Inv, NEW c \in Ranks, NEW o \in Outcomes, Generate(c, o)
  PROVE  Inv'
<1>. USE DEF searchVars, shrinkVars, reportVars, givenVars, history
<1>1. pc # "idle" /\ o \in test[c] /\ Absorb(c, o)
  BY DEF Generate
<1>2. /\ bugs' \in Seq(Bug) /\ AllReal(bugs')
      /\ rejected' \subseteq Ranks /\ seen' \subseteq Ranks
      /\ witnessed' \subseteq Origins
      /\ track' \in BOOLEAN /\ executed' = "wrapped"
  BY <1>1, AbsorbKeeps
<1>3. count' \in Counts
  <2>. DEFINE n == [count EXCEPT !.iters = @ + 1, !.calls = @ + 1]
  <2>1. n \in Counts /\ count.calls + 1 \in Nat
    BY CountedType DEF Inv, TypeOK, Counts
  <2>. QED  BY <2>1, TallyType, FoundType DEF Generate
<1>4. pc' \in {"generate", "done"} /\ verdict' \in Verdicts
  BY DEF Generate, EndExample, Leave, Verdicts, Inv, TypeOK
<1>5. TypeOK'
  <2>1. keepGoing' \in BOOLEAN
    BY DEF Generate, GoOn
  <2>. QED  BY <1>2, <1>3, <1>4, <2>1 DEF Generate, Inv, TypeOK, Phases
<1>6. BugsAreReal' /\ JobUnderWay'
  BY <1>2, <1>4 DEF Generate, Inv, BugsAreReal, AllReal, JobUnderWay
<1>. QED  BY <1>5, <1>6 DEF Inv

(* A duplicate example.                                                    *)
LEMMA GenerateRedundantKeeps ==
  ASSUME Inv, NEW c \in Ranks, GenerateRedundant(c)
  PROVE  Inv'
<1>. USE DEF searchVars, shrinkVars, reportVars, givenVars, history
<1>1. count' \in Counts
  BY CountedType DEF GenerateRedundant, Inv, TypeOK
<1>2. pc' \in {"generate", "done"} /\ verdict' \in Verdicts
  BY DEF GenerateRedundant, EndExample, Leave, Verdicts, Inv, TypeOK
<1>3. keepGoing' \in BOOLEAN /\ seen' \subseteq Ranks /\ track' \in BOOLEAN
  BY DEF GenerateRedundant, GoOn, Tracked, StillTracking, Inv, TypeOK
<1>4. TypeOK'
  BY <1>1, <1>2, <1>3 DEF GenerateRedundant, Inv, TypeOK, Phases
<1>5. BugsAreReal' /\ JobUnderWay'
  BY <1>2 DEF GenerateRedundant, Inv, BugsAreReal, AllReal, JobUnderWay
<1>. QED  BY <1>4, <1>5 DEF Inv

(* Judging what the search found.                                          *)
LEMMA JudgeKeeps ==
  ASSUME Inv, JudgeNoBug \/ JudgeOneBug \/ JudgeManyBugs
  PROVE  Inv'
<1>. USE DEF searchVars, shrinkVars, reportVars, givenVars, history
<1>1. CASE JudgeNoBug
  <2>1. NoBugVerdict \in Verdicts
    BY DEF NoBugVerdict, Verdicts
  <2>2. TypeOK'
    BY <1>1, <2>1 DEF JudgeNoBug, Leave, Inv, TypeOK, Phases
  <2>3. BugsAreReal' /\ JobUnderWay'
    BY <1>1 DEF JudgeNoBug, Leave, Searched, Inv, BugsAreReal, AllReal, JobUnderWay
  <2>. QED  BY <2>2, <2>3 DEF Inv
<1>2. CASE JudgeOneBug
  <2>a. pc # "idle" /\ bugs \in Seq(Bug) /\ Len(bugs) = 1
    BY <1>2 DEF JudgeOneBug, Searched, Inv, TypeOK
  <2>b. AllReal(bugs)
    BY <2>a DEF Inv, BugsAreReal
  <2>1. bugs[1] \in Bug /\ bugs[1].origin \in test[bugs[1].choice]
    BY <2>a, <2>b, SMTT(30) DEF AllReal
  <2>2. /\ job' \in Job /\ job' # NoJob
        /\ job'.origin \in test[job'.choice]
    BY <1>2, <2>1, NewJobType, JobIsNotNoJob DEF JudgeOneBug
  <2>3. TypeOK'
    BY <1>2, <2>2 DEF JudgeOneBug, Inv, TypeOK, Phases
  <2>4. BugsAreReal' /\ JobUnderWay'
    BY <1>2, <2>2 DEF JudgeOneBug, Searched, Inv, BugsAreReal, AllReal, JobUnderWay
  <2>. QED  BY <2>3, <2>4 DEF Inv
<1>3. CASE JudgeManyBugs
  <2>1. TypeOK'
    BY <1>3 DEF JudgeManyBugs, Inv, TypeOK, Phases
  <2>2. BugsAreReal' /\ JobUnderWay'
    BY <1>3 DEF JudgeManyBugs, Searched, Inv, BugsAreReal, AllReal, JobUnderWay
  <2>. QED  BY <2>1, <2>2 DEF Inv
<1>. QED  BY <1>1, <1>2, <1>3

(* Reporting a bug that comes from the database.                           *)
LEMMA CollectKeeps ==
  ASSUME Inv, CollectFromDb
  PROVE  Inv'
<1>. USE DEF searchVars, shrinkVars, reportVars, givenVars, history
<1>. DEFINE b == Head(pending)
            r == [origin |-> b.origin, exc |-> b.exc, choice |-> b.choice]
<1>1. b \in Bug /\ pending' \in Seq(Bug) /\ AllReal(Tail(pending))
  BY HeadTailBugs DEF CollectFromDb, Inv, TypeOK, BugsAreReal
<1>2. r \in Result
  BY <1>1 DEF Bug, Result
<1>3. results' \in Seq(Result)
  BY <1>2 DEF CollectFromDb, Inv, TypeOK
<1>4. TypeOK'
  BY <1>1, <1>3 DEF CollectFromDb, Inv, TypeOK
<1>5. BugsAreReal' /\ JobUnderWay'
  BY <1>1 DEF CollectFromDb, Inv, BugsAreReal, AllReal, JobUnderWay
<1>. QED  BY <1>4, <1>5 DEF Inv

(* The replay that begins a pass of the shrinker.                          *)
LEMMA ShrinkReplayKeeps ==
  ASSUME Inv, NEW o \in Outcomes, ShrinkReplay(o)
  PROVE  Inv'
<1>. USE DEF searchVars, shrinkVars, reportVars, givenVars, history
<1>1. job \in Job /\ pc # "idle" /\ job.origin \in test[job.choice]
  BY DEF ShrinkReplay, Inv, TypeOK, JobUnderWay, BugsAreReal
<1>2. ASSUME o \in Failures
      PROVE  /\ Pass(o) \in Job
             /\ Pass(o).origin = job.origin /\ Pass(o).choice = job.choice
  BY <1>1, <1>2, JobUpdates DEF Pass, Failures
<1>3. job' \in Job /\ job'.origin \in test[job'.choice]
  BY <1>1, <1>2 DEF ShrinkReplay
<1>4. /\ pc' \in {"passes", "done", "save", "confirm"}
      /\ verdict' \in Verdicts
  BY DEF ShrinkReplay, AfterShrink, Leave, Verdicts, Inv, TypeOK
<1>5. TypeOK'
  BY <1>3, <1>4 DEF ShrinkReplay, Inv, TypeOK, Phases
<1>6. BugsAreReal' /\ JobUnderWay'
  BY <1>1, <1>3, JobIsNotNoJob DEF ShrinkReplay, Inv, BugsAreReal, AllReal, JobUnderWay
<1>. QED  BY <1>5, <1>6 DEF Inv

(* A trial of the shrinker: the heart of the argument, since only a trial  *)
(* with the job's own origin replaces its choices.                         *)
LEMMA ShrinkTrialKeeps ==
  ASSUME Inv, NEW d \in Ranks, NEW o \in Outcomes, ShrinkTrial(d, o)
  PROVE  Inv'
<1>. USE DEF searchVars, shrinkVars, reportVars, givenVars, history
<1>1. /\ job \in Job /\ job.origin \in test[job.choice]
      /\ pc # "idle" /\ o \in test[d]
  BY DEF ShrinkTrial, Inv, TypeOK, JobUnderWay, BugsAreReal
<1>2. job' \in Job /\ job'.origin \in test[job'.choice]
  BY <1>1, JobUpdates DEF ShrinkTrial, Accepts
<1>3. /\ slipped' \in Seq(Bug) /\ AllReal(slipped')
      /\ witnessed' \subseteq Origins
  BY <1>1, FilingKeeps DEF ShrinkTrial, Failures, Inv, TypeOK, BugsAreReal
<1>4. pc' \in {"passes", "done"} /\ verdict' \in Verdicts
  BY DEF ShrinkTrial, Leave, Verdicts, Inv, TypeOK
<1>5. TypeOK'
  BY <1>2, <1>3, <1>4 DEF ShrinkTrial, Inv, TypeOK, Phases
<1>6. BugsAreReal' /\ JobUnderWay'
  BY <1>1, <1>2, <1>3, JobIsNotNoJob
     DEF ShrinkTrial, Inv, BugsAreReal, AllReal, JobUnderWay
<1>. QED  BY <1>5, <1>6 DEF Inv

(* The end of a pass.                                                      *)
LEMMA ShrinkPassDoneKeeps ==
  ASSUME Inv, ShrinkPassDone
  PROVE  Inv'
<1>. USE DEF searchVars, shrinkVars, reportVars, givenVars, history
<1>1. job \in Job /\ pc # "idle" /\ job.origin \in test[job.choice]
  BY DEF ShrinkPassDone, Inv, TypeOK, JobUnderWay, BugsAreReal
<1>2. job' \in Job /\ job'.origin \in test[job'.choice]
  <2>1. CASE job.improved
    <3>1. job' = [job EXCEPT !.shrinks = @ + 1]
      BY <2>1 DEF ShrinkPassDone
    <3>. QED  BY <1>1, <3>1, JobUpdates
  <2>2. CASE ~job.improved
    BY <1>1, <2>2 DEF ShrinkPassDone
  <2>. QED  BY <2>1, <2>2
<1>3. pc' \in {"replay", "save", "confirm"}
  BY DEF ShrinkPassDone, AfterShrink
<1>4. TypeOK'
  BY <1>2, <1>3 DEF ShrinkPassDone, Inv, TypeOK, Phases
<1>5. BugsAreReal' /\ JobUnderWay'
  BY <1>1, <1>2, JobIsNotNoJob
     DEF ShrinkPassDone, Inv, BugsAreReal, AllReal, JobUnderWay
<1>. QED  BY <1>4, <1>5 DEF Inv

(* The confirming run.                                                     *)
LEMMA ConfirmKeeps ==
  ASSUME Inv, NEW o \in Outcomes, Confirm(o)
  PROVE  Inv'
<1>. USE DEF searchVars, shrinkVars, reportVars, givenVars, history
<1>1. job \in Job /\ pc # "idle" /\ job.origin \in test[job.choice]
  BY DEF Confirm, Inv, TypeOK, JobUnderWay, BugsAreReal
<1>2. job.exc \in Origins \cup {NoOrigin}
  BY <1>1 DEF Job
<1>3. job' \in Job /\ job'.origin \in test[job'.choice]
  <2>1. CASE o = "abort"
    BY <1>1, <2>1 DEF Confirm
  <2>2. CASE o # "abort"
    <3>1. PICK e \in Origins \cup {NoOrigin} : job' = [job EXCEPT !.exc = e]
      BY <1>2, <2>2 DEF Confirm
    <3>. QED  BY <1>1, <3>1, JobUpdates
  <2>. QED  BY <2>1, <2>2
<1>4. pc' \in {"save", "done"} /\ verdict' \in Verdicts
  BY DEF Confirm, Leave, Verdicts, Inv, TypeOK
<1>5. TypeOK'
  BY <1>3, <1>4 DEF Confirm, Inv, TypeOK, Phases
<1>6. BugsAreReal' /\ JobUnderWay'
  BY <1>1, <1>3, JobIsNotNoJob DEF Confirm, Inv, BugsAreReal, AllReal, JobUnderWay
<1>. QED  BY <1>5, <1>6 DEF Inv

(* Saving a minimal example.                                               *)
LEMMA SaveKeeps ==
  ASSUME Inv, Save
  PROVE  Inv'
<1>. USE DEF searchVars, shrinkVars, reportVars, givenVars, history
<1>. DEFINE r == [origin |-> job.origin, exc |-> job.exc, choice |-> job.choice]
<1>1. job \in Job
  BY DEF Save, Inv, TypeOK, JobUnderWay
<1>2. job.choice \in Ranks /\ r \in Result
  BY <1>1 DEF Job, Result
<1>3. results' \in Seq(Result) /\ db' \subseteq Entries /\ minimal' \in Ranks \cup {-1}
  BY <1>2 DEF Save, Saved, Entries, Inv, TypeOK
<1>4. TypeOK'
  BY <1>3 DEF Save, Inv, TypeOK, Phases
<1>5. BugsAreReal' /\ JobUnderWay'
  BY DEF Save, Inv, BugsAreReal, AllReal, JobUnderWay
<1>. QED  BY <1>4, <1>5 DEF Inv

(* Draining the slips and taking up the next one.                          *)
LEMMA SlipsKeep ==
  ASSUME Inv, DrainSlips \/ NextSlip
  PROVE  Inv'
<1>. USE DEF searchVars, shrinkVars, reportVars, givenVars, history
<1>1. CASE DrainSlips
  <2>a. <<>> \in Seq(Bug)
    OBVIOUS
  <2>1. TypeOK'
    BY <1>1, <2>a DEF DrainSlips, Inv, TypeOK, Phases
  <2>2. BugsAreReal' /\ JobUnderWay'
    BY <1>1 DEF DrainSlips, Inv, BugsAreReal, AllReal, JobUnderWay
  <2>. QED  BY <2>1, <2>2 DEF Inv
<1>2. CASE NextSlip
  <2>. DEFINE b == Head(pending)
  <2>1. /\ b \in Bug /\ b.origin \in test[b.choice]
        /\ pending' \in Seq(Bug) /\ AllReal(Tail(pending))
    BY <1>2, HeadTailBugs DEF NextSlip, Inv, TypeOK, BugsAreReal
  <2>2. /\ NewJob("slip", b) \in Job /\ NewJob("slip", b) # NoJob
        /\ NewJob("slip", b).origin \in test[NewJob("slip", b).choice]
    BY <2>1, NewJobType, JobIsNotNoJob
  <2>3. /\ job' \in Job \cup {NoJob}
        /\ job' # NoJob => job'.origin \in test[job'.choice]
        /\ pc' \in {"slips", "replay"} /\ (pc' = "replay" => job' # NoJob)
    BY <1>2, <2>2 DEF NextSlip, Inv, TypeOK, BugsAreReal
  <2>4. TypeOK'
    BY <1>2, <2>1, <2>3 DEF NextSlip, Inv, TypeOK, Phases
  <2>5. BugsAreReal' /\ JobUnderWay'
    BY <1>2, <2>1, <2>3 DEF NextSlip, Inv, BugsAreReal, AllReal, JobUnderWay
  <2>. QED  BY <2>4, <2>5 DEF Inv
<1>. QED  BY <1>1, <1>2

(* Reporting.                                                              *)
LEMMA ReportKeeps ==
  ASSUME Inv, Report
  PROVE  Inv'
<1>. USE DEF searchVars, shrinkVars, reportVars, givenVars, history
<1>a. results \in Seq(Result) /\ \A i \in DOMAIN results : results[i] \in Result
  BY DEF Inv, TypeOK
<1>b. \A x \in Result : <<x>> \in Seq(Result)
  OBVIOUS
<1>1. results' \in Seq(Result)
  BY <1>a, <1>b DEF Report
<1>2. TypeOK'
  BY <1>1 DEF Report, Leave, Inv, TypeOK, Phases, Verdicts
<1>3. BugsAreReal' /\ JobUnderWay'
  BY DEF Report, Leave, Inv, BugsAreReal, AllReal, JobUnderWay
<1>. QED  BY <1>2, <1>3 DEF Inv

(* The steps that move on without touching a bug.                          *)
LEMMA MovesKeep ==
  ASSUME Inv,
         \/ Crash \/ ReuseUndecodable \/ ReuseDone \/ SimplestAborts
         \/ Collected \/ ShrinkLimit \/ SlipsDone
         \/ \E c \in Ranks : ReuseStale(c) \/ ReuseAborts(c) \/ GenerateAborts(c)
  PROVE  Inv'
<1>. USE DEF Inv, TypeOK, JobUnderWay, BugsAreReal, AllReal, Phases, Verdicts, Leave,
             searchVars, shrinkVars, reportVars, givenVars, history
<1>1. CASE Crash
  BY <1>1 DEF Crash
<1>2. CASE ReuseUndecodable
  BY <1>2 DEF ReuseUndecodable
<1>3. CASE ReuseDone
  BY <1>3 DEF ReuseDone
<1>4. CASE SimplestAborts
  BY <1>4 DEF SimplestAborts
<1>5. CASE Collected
  BY <1>5 DEF Collected
<1>6. CASE ShrinkLimit
  BY <1>6 DEF ShrinkLimit, AfterShrink
<1>7. CASE SlipsDone
  BY <1>7 DEF SlipsDone
<1>8. ASSUME NEW c \in Ranks, ReuseStale(c)
      PROVE  Inv'
  BY <1>8 DEF ReuseStale
<1>9. ASSUME NEW c \in Ranks, ReuseAborts(c)
      PROVE  Inv'
  BY <1>9 DEF ReuseAborts
<1>10. ASSUME NEW c \in Ranks, GenerateAborts(c)
       PROVE  Inv'
  BY <1>10 DEF GenerateAborts
<1>. QED  BY <1>1, <1>2, <1>3, <1>4, <1>5, <1>6, <1>7, <1>8, <1>9, <1>10

(* The verifying run and taking up one bug of several.                     *)
LEMMA BeginsKeep ==
  ASSUME Inv, CollectShrink \/ \E o \in Outcomes : Verify(o)
  PROVE  Inv'
<1>. USE DEF searchVars, shrinkVars, reportVars, givenVars, history
<1>1. CASE CollectShrink
  BY <1>1, HeadTailBugs, NewJobType, JobIsNotNoJob
     DEF CollectShrink, Inv, TypeOK, Phases, BugsAreReal, AllReal, JobUnderWay
<1>2. ASSUME NEW o \in Outcomes, Verify(o)
      PROVE  Inv'
  BY <1>2 DEF Verify, Leave, Inv, TypeOK, Phases, Verdicts, BugsAreReal, AllReal,
              JobUnderWay
<1>. QED  BY <1>1, <1>2

-----------------------------------------------------------------------------
(* The theorems.                                                           *)

(* The invariant holds of every state a first run can start from.          *)
THEOREM InitInv == Init => Inv
<1>. SUFFICES ASSUME Init PROVE Inv
  OBVIOUS
<1>1. count \in Counts
  BY DEF Init, NoCounts, Counts
<1>2. <<>> \in Seq(Bug) /\ <<>> \in Seq(Result)
  OBVIOUS
<1>3. test \in [Ranks -> (SUBSET Outcomes) \ {{}}] /\ cfg \in ConfigType
  BY ConstantsAssumption DEF Init
<1>4. TypeOK
  BY <1>1, <1>2, <1>3 DEF Init, TypeOK, Phases, Verdicts
<1>5. BugsAreReal /\ JobUnderWay
  BY DEF Init, BugsAreReal, JobUnderWay
<1>. QED  BY <1>4, <1>5 DEF Inv

(* Every step keeps the invariant.                                         *)
THEOREM StepInv == Inv /\ [Next]_vars => Inv'
<1>. SUFFICES ASSUME Inv, [Next]_vars PROVE Inv'
  OBVIOUS
<1>1. CASE StartRun
  BY <1>1, StartRunKeeps
<1>2. CASE Edit
  BY <1>2, EditKeeps
<1>3. CASE Crash
  BY <1>3, MovesKeep
<1>4. CASE RunStep
  <2>1. CASE \/ ReuseUndecodable \/ ReuseDone \/ SimplestAborts
             \/ Collected \/ ShrinkLimit \/ SlipsDone
             \/ \E c \in Ranks : ReuseStale(c) \/ ReuseAborts(c) \/ GenerateAborts(c)
    BY <2>1, MovesKeep
  <2>2. CASE CollectShrink \/ \E o \in Outcomes : Verify(o)
    BY <2>2, BeginsKeep
  <2>3. CASE JudgeNoBug \/ JudgeOneBug \/ JudgeManyBugs
    BY <2>3, JudgeKeeps
  <2>4. CASE CollectFromDb \/ ShrinkPassDone \/ Save \/ Report
    BY <2>4, CollectKeeps, ShrinkPassDoneKeeps, SaveKeeps, ReportKeeps
  <2>5. CASE DrainSlips \/ NextSlip
    BY <2>5, SlipsKeep
  <2>6. CASE \E o \in Outcomes : Simplest(o) \/ ShrinkReplay(o) \/ Confirm(o)
    BY <2>6, SimplestKeeps, ShrinkReplayKeeps, ConfirmKeeps
  <2>7. CASE \E c \in Ranks : \E o \in Outcomes : Generate(c, o) \/ ShrinkTrial(c, o)
    BY <2>7, GenerateKeeps, ShrinkTrialKeeps
  <2>8. CASE \E c \in Ranks : GenerateRedundant(c) \/ \E o \in Failures : ReuseFails(c, o)
    BY <2>8, GenerateRedundantKeeps, ReuseFailsKeeps
  <2>. QED  BY <1>4, <2>1, <2>2, <2>3, <2>4, <2>5, <2>6, <2>7, <2>8 DEF RunStep
<1>5. CASE UNCHANGED vars
  BY <1>5 DEF vars, searchVars, shrinkVars, reportVars, givenVars, history,
              Inv, TypeOK, BugsAreReal, AllReal, JobUnderWay
<1>. QED  BY <1>1, <1>2, <1>3, <1>4, <1>5 DEF Next

(* The invariant holds throughout every behaviour.                         *)
THEOREM Invariance == Spec => []Inv
BY InitInv, StepInv, PTL DEF Spec

(* Every variable of run_native keeps its type, whatever the test does.    *)
THEOREM TypeCorrect == Spec => []TypeOK
<1>1. Inv => TypeOK
  BY DEF Inv
<1>. QED  BY Invariance, <1>1, PTL

(* A bug never parts from a choice sequence that really produces it, for   *)
(* every test, flaky or not, every setting and any number of runs.         *)
THEOREM BugsStayReal == Spec => []BugsAreReal
<1>1. Inv => BugsAreReal
  BY DEF Inv
<1>. QED  BY Invariance, <1>1, PTL

(* What a step does to the database: only saving adds to it, and only the  *)
(* reuse phase takes from it.                                              *)
LEMMA DatabaseSteps ==
  ASSUME [Next]_vars
  PROVE  \/ db' = db
         \/ Save
         \/ ReuseUndecodable
         \/ \E c \in Ranks : ReuseStale(c)
<1>. USE DEF searchVars, shrinkVars, reportVars, givenVars, history
<1>1. CASE StartRun \/ Edit \/ Crash
  BY <1>1 DEF StartRun, Edit, Crash
<1>2. CASE RunStep
  <2>1. CASE ReuseDone \/ \E c \in Ranks : ReuseAborts(c) \/ \E o \in Failures : ReuseFails(c, o)
    BY <2>1 DEF ReuseDone, ReuseAborts, ReuseFails
  <2>2. CASE SimplestAborts \/ \E o \in Outcomes : Simplest(o) \/ Verify(o)
    BY <2>2 DEF SimplestAborts, Simplest, Verify
  <2>3. CASE \E c \in Ranks : GenerateRedundant(c) \/ GenerateAborts(c)
    BY <2>3 DEF GenerateRedundant, GenerateAborts
  <2>4. CASE \E c \in Ranks : \E o \in Outcomes : Generate(c, o) \/ ShrinkTrial(c, o)
    BY <2>4 DEF Generate, ShrinkTrial
  <2>5. CASE \E o \in Outcomes : ShrinkReplay(o) \/ Confirm(o)
    BY <2>5 DEF ShrinkReplay, Confirm
  <2>6. CASE JudgeNoBug \/ JudgeOneBug \/ JudgeManyBugs
    BY <2>6 DEF JudgeNoBug, JudgeOneBug, JudgeManyBugs
  <2>7. CASE CollectFromDb \/ CollectShrink \/ Collected \/ ShrinkLimit \/ ShrinkPassDone
    BY <2>7 DEF CollectFromDb, CollectShrink, Collected, ShrinkLimit, ShrinkPassDone
  <2>8. CASE DrainSlips \/ NextSlip \/ SlipsDone \/ Report
    BY <2>8 DEF DrainSlips, NextSlip, SlipsDone, Report
  <2>. QED
    BY <1>2, <2>1, <2>2, <2>3, <2>4, <2>5, <2>6, <2>7, <2>8 DEF RunStep
<1>3. CASE UNCHANGED vars
  BY <1>3 DEF vars
<1>. QED  BY <1>1, <1>2, <1>3 DEF Next

(* Only choice sequences that can fail enter the database, whichever path  *)
(* of run_native saves them.                                               *)
THEOREM OnlyFailuresSaved == Spec => SavesOnlyFailures
<1>. DEFINE A == \A c \in db' \ db : c \in Ranks /\ CanFail(c)
<1>1. ASSUME Inv, [Next]_vars
      PROVE  [A]_vars
  <2>1. CASE Save
    <3>1. job \in Job /\ job.origin \in test[job.choice]
      BY <1>1, <2>1 DEF Save, Inv, TypeOK, JobUnderWay, BugsAreReal
    <3>2. job.origin \in Failures /\ job.choice \in Ranks
      BY <3>1 DEF Job, Failures
    <3>3. db' \ db \subseteq {job.choice}
      BY <2>1 DEF Save, Saved
    <3>. QED  BY <3>1, <3>2, <3>3 DEF CanFail
  <2>2. CASE ReuseUndecodable \/ \E c \in Ranks : ReuseStale(c)
    BY <2>2 DEF ReuseUndecodable, ReuseStale
  <2>3. CASE db' = db
    BY <2>3
  <2>. QED  BY <1>1, <2>1, <2>2, <2>3, DatabaseSteps
<1>. QED  BY <1>1, Invariance, PTL DEF Spec, SavesOnlyFailures

(* What has been replayed and kept, and what has been saved since, fails.  *)
Live == cfg.useDb /\ pc # "idle" => \A e \in db \ queue : e \in Ranks /\ CanFail(e)

(* The steps that touch neither the test, its settings nor the queue.      *)
LEMMA QueueSteps ==
  ASSUME [Next]_vars
  PROVE  \/ UNCHANGED <<test, cfg, queue>> /\ (pc = "idle" => pc' = "idle")
         \/ StartRun \/ Edit
         \/ ReuseUndecodable
         \/ \E c \in Ranks : ReuseStale(c) \/ \E o \in Failures : ReuseFails(c, o)
<1>. USE DEF searchVars, shrinkVars, reportVars, givenVars, history
<1>1. CASE Crash
  BY <1>1 DEF Crash
<1>2. CASE RunStep
  <2>1. CASE ReuseDone \/ \E c \in Ranks : ReuseAborts(c)
    BY <2>1 DEF ReuseDone, ReuseAborts
  <2>2. CASE SimplestAborts \/ \E o \in Outcomes : Simplest(o) \/ Verify(o)
    BY <2>2 DEF SimplestAborts, Simplest, Verify
  <2>3. CASE \E c \in Ranks : GenerateRedundant(c) \/ GenerateAborts(c)
    BY <2>3 DEF GenerateRedundant, GenerateAborts
  <2>4. CASE \E c \in Ranks : \E o \in Outcomes : Generate(c, o) \/ ShrinkTrial(c, o)
    BY <2>4 DEF Generate, ShrinkTrial
  <2>5. CASE \E o \in Outcomes : ShrinkReplay(o) \/ Confirm(o)
    BY <2>5 DEF ShrinkReplay, Confirm
  <2>6. CASE JudgeNoBug \/ JudgeOneBug \/ JudgeManyBugs
    BY <2>6 DEF JudgeNoBug, JudgeOneBug, JudgeManyBugs, Searched
  <2>7. CASE CollectFromDb \/ CollectShrink \/ Collected \/ ShrinkLimit \/ ShrinkPassDone
    BY <2>7 DEF CollectFromDb, CollectShrink, Collected, ShrinkLimit, ShrinkPassDone
  <2>8. CASE DrainSlips \/ NextSlip \/ SlipsDone \/ Report \/ Save
    BY <2>8 DEF DrainSlips, NextSlip, SlipsDone, Report, Save
  <2>. QED
    BY <1>2, <2>1, <2>2, <2>3, <2>4, <2>5, <2>6, <2>7, <2>8 DEF RunStep
<1>3. CASE UNCHANGED vars
  BY <1>3 DEF vars
<1>. QED  BY <1>1, <1>2, <1>3 DEF Next

(* A save adds what can fail, and the reuse phase takes out of the queue   *)
(* what it takes out of the database or has just seen failing.             *)
LEMMA LiveStep ==
  ASSUME Inv, Live, [Next]_vars
  PROVE  Live'
<1>. USE DEF searchVars, shrinkVars, reportVars, givenVars, history
<1>1. CASE UNCHANGED <<test, cfg, queue>> /\ (pc = "idle" => pc' = "idle")
  <2>1. \A e : CanFail(e)' <=> CanFail(e)
    BY <1>1 DEF CanFail
  <2>2. db' \subseteq db \/ Save
    BY DatabaseSteps DEF ReuseUndecodable, ReuseStale
  <2>3. CASE db' \subseteq db
    BY <1>1, <2>1, <2>3 DEF Live
  <2>4. CASE Save
    <3>1. job \in Job /\ job.origin \in test[job.choice]
      BY <2>4 DEF Save, Inv, TypeOK, JobUnderWay, BugsAreReal
    <3>2. job.choice \in Ranks /\ CanFail(job.choice)
      BY <3>1 DEF Job, Failures, CanFail
    <3>3. db' \subseteq db \cup {job.choice}
      BY <2>4 DEF Save, Saved
    <3>. QED  BY <1>1, <2>1, <3>2, <3>3 DEF Live
  <2>. QED  BY <2>2, <2>3, <2>4
<1>2. CASE StartRun
  BY <1>2 DEF StartRun, Live
<1>3. CASE Edit
  BY <1>3 DEF Edit, Live
<1>4. CASE ReuseUndecodable
  BY <1>4 DEF ReuseUndecodable, Live, CanFail
<1>5. ASSUME NEW c \in Ranks, ReuseStale(c)
      PROVE  Live'
  BY <1>5 DEF ReuseStale, Live, CanFail
<1>6. ASSUME NEW c \in Ranks, NEW o \in Failures, ReuseFails(c, o)
      PROVE  Live'
  BY <1>6 DEF ReuseFails, Live, CanFail
<1>. QED  BY <1>1, <1>2, <1>3, <1>4, <1>5, <1>6, QueueSteps

(* Once a run has replayed the whole database, it leaves there only values *)
(* that can fail, whatever was in it, however flaky the test and wherever  *)
(* earlier runs were killed.                                               *)
THEOREM OnlyLiveStays == Spec => []OnlyLiveKept
<1>1. Init => Live
  BY DEF Init, Live
<1>2. Live => OnlyLiveKept
  BY DEF Live, OnlyLiveKept
<1>. QED  BY <1>1, <1>2, LiveStep, Invariance, PTL DEF Spec

-----------------------------------------------------------------------------
(***************************************************************************)
(* What a run returns: that what it reports is saved, that every bug is    *)
(* reported and none twice, that what an earlier run reported is reported  *)
(* again, and that its verdicts are true.                                  *)
(***************************************************************************)

(* The choices of a sequence of bugs or results, and one without two of    *)
(* the same origin.                                                        *)
ChoicesOf(s) == {s[i].choice : i \in DOMAIN s}
Distinct(s) == \A i, j \in DOMAIN s : s[i].origin = s[j].origin => i = j

(* The phases before the bugs are known, and those with a bug in hand.     *)
Searching == pc \in {"reuse", "simplest", "generate"}
UnderWay == pc \in {"verify", "replay", "passes", "confirm", "save"}
InHand(k) == UnderWay /\ job.kind = k

-----------------------------------------------------------------------------
(* Sequences of bugs and of results.                                       *)

(* The empty sequence.                                                     *)
LEMMA EmptyFacts ==
  /\ OriginsOf(<<>>) = {} /\ ChoicesOf(<<>>) = {}
  /\ Distinct(<<>>) /\ AllReal(<<>>)
BY DEF OriginsOf, ChoicesOf, Distinct, AllReal

(* A sequence of one element.                                              *)
LEMMA SingletonFacts ==
  ASSUME NEW S, NEW s \in Seq(S), Len(s) = 1
  PROVE  /\ OriginsOf(s) = {s[1].origin} /\ ChoicesOf(s) = {s[1].choice}
         /\ Distinct(s) /\ s[1] \in S /\ s # <<>>
<1>1. DOMAIN s = {1} /\ s[1] \in S /\ s # <<>>
  OBVIOUS
<1>2. OriginsOf(s) = {s[1].origin} /\ ChoicesOf(s) = {s[1].choice}
  BY <1>1 DEF OriginsOf, ChoicesOf
<1>3. Distinct(s)
  BY <1>1 DEF Distinct
<1>. QED  BY <1>1, <1>2, <1>3

(* Appending an element.                                                   *)
LEMMA AppendFacts ==
  ASSUME NEW S, NEW s \in Seq(S), NEW x \in S
  PROVE  /\ OriginsOf(Append(s, x)) = OriginsOf(s) \cup {x.origin}
         /\ ChoicesOf(Append(s, x)) = ChoicesOf(s) \cup {x.choice}
         /\ Distinct(s) /\ x.origin \notin OriginsOf(s) => Distinct(Append(s, x))
         /\ AllReal(s) /\ x.origin \in test[x.choice] => AllReal(Append(s, x))
         /\ Append(s, x) # <<>>
<1>1. /\ DOMAIN Append(s, x) = DOMAIN s \cup {Len(s) + 1}
      /\ Append(s, x)[Len(s) + 1] = x
      /\ \A i \in DOMAIN s : Append(s, x)[i] = s[i]
  OBVIOUS
<1>2. Len(s) + 1 \notin DOMAIN s
  OBVIOUS
<1>3. OriginsOf(Append(s, x)) = OriginsOf(s) \cup {x.origin}
  BY <1>1 DEF OriginsOf
<1>4. ChoicesOf(Append(s, x)) = ChoicesOf(s) \cup {x.choice}
  BY <1>1 DEF ChoicesOf
<1>5. Distinct(s) /\ x.origin \notin OriginsOf(s) => Distinct(Append(s, x))
  BY <1>1, <1>2 DEF Distinct, OriginsOf
<1>6. AllReal(s) /\ x.origin \in test[x.choice] => AllReal(Append(s, x))
  BY <1>1 DEF AllReal
<1>7. Append(s, x) # <<>>
  <2>1. Len(Append(s, x)) = Len(s) + 1 /\ Len(s) \in Nat
    OBVIOUS
  <2>2. Len(s) + 1 # 0 /\ Len(<<>>) = 0
    BY <2>1
  <2>. QED  BY <2>1, <2>2, Zenon
<1>. QED  BY <1>3, <1>4, <1>5, <1>6, <1>7

(* Taking the first element.                                               *)
LEMMA HeadTailFacts ==
  ASSUME NEW S, NEW s \in Seq(S), s # <<>>
  PROVE  /\ Head(s) \in S /\ Tail(s) \in Seq(S)
         /\ OriginsOf(s) = {Head(s).origin} \cup OriginsOf(Tail(s))
         /\ ChoicesOf(s) = {Head(s).choice} \cup ChoicesOf(Tail(s))
         /\ Distinct(s) => /\ Distinct(Tail(s))
                           /\ Head(s).origin \notin OriginsOf(Tail(s))
<1>1. /\ Head(s) \in S /\ Tail(s) \in Seq(S) /\ Head(s) = s[1]
      /\ Len(s) \in Nat \ {0} /\ Len(Tail(s)) = Len(s) - 1
      /\ DOMAIN s = 1 .. Len(s) /\ DOMAIN Tail(s) = 1 .. Len(s) - 1
      /\ \A i \in 1 .. Len(s) - 1 : Tail(s)[i] = s[i + 1]
  BY HeadTailProperties, EmptySeq, LenProperties
<1>2. \A i \in DOMAIN s : i = 1 \/ (i - 1 \in DOMAIN Tail(s) /\ Tail(s)[i - 1] = s[i])
  <2>1. SUFFICES ASSUME NEW i \in 1 .. Len(s), i # 1
                 PROVE  /\ i - 1 \in 1 .. Len(s) - 1
                        /\ Tail(s)[i - 1] = s[i]
    BY <1>1
  <2>2. i - 1 \in 1 .. Len(s) - 1 /\ (i - 1) + 1 = i
    BY <1>1, <2>1
  <2>3. Tail(s)[i - 1] = s[(i - 1) + 1]
    BY <1>1, <2>2
  <2>. QED  BY <2>2, <2>3
<1>3. \A i \in DOMAIN Tail(s) : i + 1 \in DOMAIN s /\ i + 1 # 1 /\ Tail(s)[i] = s[i + 1]
  BY <1>1
<1>4. 1 \in DOMAIN s
  BY <1>1
<1>5. OriginsOf(s) = {Head(s).origin} \cup OriginsOf(Tail(s))
  <2>1. ASSUME NEW o \in OriginsOf(s)
        PROVE  o \in {Head(s).origin} \cup OriginsOf(Tail(s))
    <3>1. PICK i \in DOMAIN s : o = s[i].origin
      BY DEF OriginsOf
    <3>2. CASE i = 1
      BY <1>1, <3>1, <3>2
    <3>3. CASE i # 1
      BY <1>2, <3>1, <3>3 DEF OriginsOf
    <3>. QED  BY <3>2, <3>3
  <2>2. ASSUME NEW o \in {Head(s).origin} \cup OriginsOf(Tail(s))
        PROVE  o \in OriginsOf(s)
    BY <1>1, <1>3, <1>4 DEF OriginsOf
  <2>. QED  BY <2>1, <2>2
<1>6. ChoicesOf(s) = {Head(s).choice} \cup ChoicesOf(Tail(s))
  <2>1. ASSUME NEW c \in ChoicesOf(s)
        PROVE  c \in {Head(s).choice} \cup ChoicesOf(Tail(s))
    <3>1. PICK i \in DOMAIN s : c = s[i].choice
      BY DEF ChoicesOf
    <3>2. CASE i = 1
      BY <1>1, <3>1, <3>2
    <3>3. CASE i # 1
      BY <1>2, <3>1, <3>3 DEF ChoicesOf
    <3>. QED  BY <3>2, <3>3
  <2>2. ASSUME NEW c \in {Head(s).choice} \cup ChoicesOf(Tail(s))
        PROVE  c \in ChoicesOf(s)
    BY <1>1, <1>3, <1>4 DEF ChoicesOf
  <2>. QED  BY <2>1, <2>2
<1>7. Distinct(s) => Distinct(Tail(s)) /\ Head(s).origin \notin OriginsOf(Tail(s))
  BY <1>1, <1>3, <1>4 DEF Distinct, OriginsOf
<1>. QED  BY <1>1, <1>5, <1>6, <1>7

(* Filing a failure under its origin.                                      *)
LEMMA DedupedFacts ==
  ASSUME NEW s \in Seq(Bug), NEW o \in Origins, NEW c \in Ranks
  PROVE  /\ OriginsOf(Deduped(s, o, c)) = OriginsOf(s) \cup {o}
         /\ ChoicesOf(s) \subseteq ChoicesOf(Deduped(s, o, c))
         /\ ChoicesOf(Deduped(s, o, c)) \subseteq ChoicesOf(s) \cup {c}
         /\ Distinct(s) => Distinct(Deduped(s, o, c))
         /\ Deduped(s, o, c) # <<>>
<1>1. NewBug(o, c) \in Bug /\ NewBug(o, c).origin = o /\ NewBug(o, c).choice = c
  BY NewBugType DEF NewBug
<1>2. CASE o \in OriginsOf(s)
  <2>1. Deduped(s, o, c) = s /\ s # <<>>
    BY <1>2, EmptyFacts DEF Deduped
  <2>. QED  BY <1>2, <2>1
<1>3. CASE o \notin OriginsOf(s)
  <2>1. Deduped(s, o, c) = Append(s, NewBug(o, c))
    BY <1>3 DEF Deduped
  <2>. QED  BY <1>1, <1>3, <2>1, AppendFacts
<1>. QED  BY <1>2, <1>3

(* One of the results, by itself.                                          *)
LEMMA SomeResult ==
  ASSUME NEW s \in Seq(Result), NEW i \in DOMAIN s
  PROVE  /\ <<s[i]>> \in Seq(Result)
         /\ OriginsOf(<<s[i]>>) = {s[i].origin} /\ s[i].origin \in OriginsOf(s)
         /\ ChoicesOf(<<s[i]>>) = {s[i].choice} /\ s[i].choice \in ChoicesOf(s)
         /\ Distinct(<<s[i]>>) /\ (AllReal(s) => AllReal(<<s[i]>>))
<1>1. s[i] \in Result /\ <<s[i]>> \in Seq(Result) /\ Len(<<s[i]>>) = 1 /\ <<s[i]>>[1] = s[i]
  OBVIOUS
<1>2. s[i].origin \in OriginsOf(s) /\ s[i].choice \in ChoicesOf(s)
  BY DEF OriginsOf, ChoicesOf
<1>3. AllReal(s) => AllReal(<<s[i]>>)
  BY DEF AllReal
<1>. HIDE DEF Result
<1>. QED  BY <1>1, <1>2, <1>3, SingletonFacts

(* The type facts the steps below use.                                     *)
LEMMA Typed ==
  ASSUME Inv
  PROVE  /\ bugs \in Seq(Bug) /\ pending \in Seq(Bug) /\ slipped \in Seq(Bug)
         /\ results \in Seq(Result)
         /\ bugs = <<>> => Len(bugs) = 0
         /\ UnderWay => /\ job \in Job /\ job.origin \in Origins
                        /\ job.choice \in Ranks
                        /\ job.origin \in test[job.choice]
                        /\ job.kind \in {"single", "multi", "slip"}
         /\ pc \in Phases
BY DEF Inv, TypeOK, JobUnderWay, BugsAreReal, UnderWay, Job

-----------------------------------------------------------------------------
(* What the steps that matter do, once and for all.                        *)

(* Verifying, shrinking and confirming a bug: the bug stays the same bug,  *)
(* and the only thing left behind is a slip, while slips are collected.    *)
LEMMA ShrinkSteps ==
  ASSUME Inv, NEW o \in Outcomes,
         \/ Verify(o) \/ ShrinkReplay(o) \/ Confirm(o)
         \/ ShrinkLimit \/ ShrinkPassDone \/ \E d \in Ranks : ShrinkTrial(d, o)
  PROVE  /\ pc \in {"verify", "replay", "passes", "confirm"}
         /\ pc' \in {"verify", "replay", "passes", "confirm", "save", "done"}
         /\ pc' = "done" => /\ verdict' \in {"abort", "flaky"}
                            /\ verdict' = "flaky" =>
                                 pc = "verify" /\ o \in test[job.choice] /\ o # job.origin
         /\ pc' # "done" => verdict' = verdict
         /\ job'.kind = job.kind /\ job'.origin = job.origin
         /\ UNCHANGED <<test, cfg, db, queue, bugs, fromDb, seen, rejected, keepGoing,
                        pending, slipOn, results, promised>>
         /\ \/ UNCHANGED <<slipped, witnessed>>
            \/ \E f \in Origins :
                 /\ slipOn /\ OriginsOf(slipped') = OriginsOf(slipped) \cup {f}
                 /\ witnessed' = witnessed \cup {f}
<1>. USE DEF searchVars, shrinkVars, reportVars, givenVars, history, Leave
<1>a. pc \in {"verify", "replay", "passes", "confirm"} => job \in Job
  BY Typed DEF UnderWay
<1>1. CASE Verify(o)
  BY <1>1 DEF Verify
<1>2. CASE ShrinkReplay(o)
  <2>1. \A e : Pass(e).kind = job.kind /\ Pass(e).origin = job.origin
    BY <1>2, <1>a DEF ShrinkReplay, Pass, Job
  <2>. QED  BY <1>2, <2>1 DEF ShrinkReplay, AfterShrink
<1>3. CASE Confirm(o)
  <2>1. job'.kind = job.kind /\ job'.origin = job.origin
    BY <1>3, <1>a DEF Confirm, Job
  <2>2. \/ pc' = "done" /\ verdict' = "abort"
        \/ pc' = "save" /\ verdict' = verdict
    BY <1>3 DEF Confirm
  <2>3. /\ pc = "confirm"
        /\ UNCHANGED <<givenVars, db, searchVars, pending, slipOn, slipped, results,
                       minimal, history>>
    <3>. HIDE DEF searchVars, givenVars, history
    <3>. QED  BY <1>3 DEF Confirm
  <2>. QED  BY <2>1, <2>2, <2>3
<1>4. CASE ShrinkLimit
  BY <1>4 DEF ShrinkLimit, AfterShrink
<1>5. CASE ShrinkPassDone
  <2>1. job'.kind = job.kind /\ job'.origin = job.origin
    BY <1>5, <1>a DEF ShrinkPassDone, Job
  <2>. QED  BY <1>5, <2>1 DEF ShrinkPassDone, AfterShrink
<1>6. ASSUME NEW d \in Ranks, ShrinkTrial(d, o)
      PROVE  /\ pc = "passes" /\ pc' \in {"passes", "done"}
             /\ pc' = "done" => verdict' = "abort"
             /\ pc' # "done" => verdict' = verdict
             /\ job'.kind = job.kind /\ job'.origin = job.origin
             /\ UNCHANGED <<test, cfg, db, queue, bugs, fromDb, seen, rejected, keepGoing,
                            pending, slipOn, results, promised>>
             /\ \/ UNCHANGED <<slipped, witnessed>>
                \/ /\ slipOn /\ OriginsOf(slipped') = OriginsOf(slipped) \cup {o}
                   /\ o \in Origins /\ witnessed' = witnessed \cup {o}
  <2>1. job'.kind = job.kind /\ job'.origin = job.origin
    BY <1>6, <1>a DEF ShrinkTrial, Job
  <2>2. \/ UNCHANGED <<slipped, witnessed>>
        \/ /\ slipOn /\ OriginsOf(slipped') = OriginsOf(slipped) \cup {o}
           /\ o \in Origins /\ witnessed' = witnessed \cup {o}
    <3>1. \/ UNCHANGED <<slipped, witnessed>>
          \/ /\ slipOn /\ o \in Origins /\ witnessed' = witnessed \cup {o}
             /\ slipped' = Deduped(slipped, o, d)
      BY <1>6 DEF ShrinkTrial, Failures
    <3>. QED  BY <3>1, Typed, DedupedFacts
  <2>. QED  BY <1>6, <2>1, <2>2 DEF ShrinkTrial
<1>. QED  BY <1>1, <1>2, <1>3, <1>4, <1>5, <1>6

(* An example that was generated: its failure is among the bugs after it.  *)
LEMMA ExampleSteps ==
  ASSUME Inv, NEW c \in Ranks, NEW o \in Outcomes,
         Generate(c, o) \/ (c = 0 /\ Simplest(o))
  PROVE  /\ pc \in {"simplest", "generate"} /\ pc' \in {"generate", "done"}
         /\ pc = "generate" => keepGoing
         /\ pc' = "done" => verdict' = "too_slow" /\ bugs' = <<>>
         /\ pc' # "done" => verdict' = verdict
         /\ o \in test[c]
         /\ UNCHANGED <<test, cfg, db, queue, fromDb, job, pending, slipOn, slipped,
                        results, promised>>
         /\ \/ o \in Origins /\ bugs' # <<>> /\ witnessed' = witnessed \cup {o}
               /\ OriginsOf(bugs') = OriginsOf(bugs) \cup {o}
               /\ (Distinct(bugs) => Distinct(bugs'))
            \/ o \notin Origins /\ bugs' = bugs /\ witnessed' = witnessed
         /\ seen' \subseteq seen \cup {c}
         /\ rejected' \subseteq rejected \cup ({c} \cap {x \in Ranks : o \in {"invalid", "overrun"}})
<1>. USE DEF searchVars, shrinkVars, reportVars, givenVars, history, Leave
<1>1. /\ Absorb(c, o) /\ o \in test[c] /\ pc \in {"simplest", "generate"}
      /\ pc' \in {"generate", "done"} /\ (pc = "generate" => keepGoing)
      /\ (pc' = "done" => verdict' = "too_slow" /\ bugs' = <<>>)
      /\ (pc' # "done" => verdict' = verdict)
      /\ UNCHANGED <<test, cfg, db, queue, fromDb, job, pending, slipOn, slipped,
                     results, promised>>
  BY DEF Generate, Simplest, EndExample, MayGenerate
<1>2. \/ /\ o \in Origins /\ bugs' # <<>> /\ witnessed' = witnessed \cup {o}
         /\ OriginsOf(bugs') = OriginsOf(bugs) \cup {o}
         /\ (Distinct(bugs) => Distinct(bugs'))
      \/ o \notin Origins /\ bugs' = bugs /\ witnessed' = witnessed
  BY <1>1, Typed, DedupedFacts DEF Absorb, Failures
<1>3. /\ seen' \subseteq seen \cup {c}
      /\ rejected' \subseteq rejected \cup ({c} \cap {x \in Ranks : o \in {"invalid", "overrun"}})
  BY <1>1 DEF Absorb, Tracked
<1>. QED  BY <1>1, <1>2, <1>3

(* A step of the search that leaves the bugs and what was seen as they are.*)
LEMMA DuplicateSteps ==
  ASSUME Inv, NEW c \in Ranks,
         GenerateRedundant(c) \/ GenerateAborts(c) \/ SimplestAborts
  PROVE  /\ pc \in {"simplest", "generate"} /\ pc' \in {"generate", "done"}
         /\ pc = "generate" => keepGoing
         /\ pc' = "done" => \/ verdict' = "abort"
                            \/ verdict' = "too_slow" /\ bugs' = <<>>
         /\ pc' # "done" => verdict' = verdict /\ pc' = pc
         /\ UNCHANGED <<test, cfg, db, queue, fromDb, job, pending, slipOn, slipped,
                        results, promised, bugs, witnessed, rejected, seen>>
<1>. USE DEF searchVars, shrinkVars, reportVars, givenVars, history, Leave
<1>1. CASE GenerateRedundant(c)
  <2>1. /\ pc = "generate" /\ keepGoing /\ seen' = seen
        /\ EndExample(count')
        /\ UNCHANGED <<test, cfg, db, queue, fromDb, job, pending, slipOn, slipped,
                       results, promised, bugs, witnessed, rejected>>
    BY <1>1, Zenon DEF GenerateRedundant, MayGenerate, Recognised, Tracked
  <2>2. \/ UNCHANGED <<pc, verdict>>
        \/ pc' = "done" /\ verdict' = "too_slow" /\ bugs' = <<>>
    BY <2>1, Zenon DEF EndExample
  <2>. QED  BY <2>1, <2>2
<1>2. CASE GenerateAborts(c)
  BY <1>2, Typed DEF GenerateAborts, MayGenerate
<1>3. CASE SimplestAborts
  BY <1>3, Typed DEF SimplestAborts
<1>. QED  BY <1>1, <1>2, <1>3

(* The result a bug in hand becomes, and the one a bug from the database   *)
(* becomes.                                                                *)
LEMMA ResultSteps ==
  ASSUME Inv
  PROVE  /\ Save =>
              /\ UnderWay /\ results' # <<>>
              /\ OriginsOf(results') = OriginsOf(results) \cup {job.origin}
              /\ ChoicesOf(results') = ChoicesOf(results) \cup {job.choice}
              /\ Distinct(results) /\ job.origin \notin OriginsOf(results)
                   => Distinct(results')
              /\ AllReal(results) => AllReal(results')
         /\ CollectFromDb =>
              /\ OriginsOf(results') = OriginsOf(results) \cup {Head(pending).origin}
              /\ ChoicesOf(results') = ChoicesOf(results) \cup {Head(pending).choice}
              /\ Distinct(results) /\ Head(pending).origin \notin OriginsOf(results)
                   => Distinct(results')
              /\ AllReal(results) => AllReal(results')
<1>1. ASSUME Save
      PROVE  /\ UnderWay /\ results' # <<>>
             /\ OriginsOf(results') = OriginsOf(results) \cup {job.origin}
             /\ ChoicesOf(results') = ChoicesOf(results) \cup {job.choice}
             /\ Distinct(results) /\ job.origin \notin OriginsOf(results)
                  => Distinct(results')
             /\ AllReal(results) => AllReal(results')
  <2>. DEFINE r == [origin |-> job.origin, exc |-> job.exc, choice |-> job.choice]
  <2>1. /\ UnderWay /\ r \in Result /\ r.origin = job.origin /\ r.choice = job.choice
        /\ job.origin \in test[job.choice]
    BY <1>1, Typed DEF Save, UnderWay, Job, Result
  <2>2. results' = Append(results, r) /\ test' = test /\ results \in Seq(Result)
    BY <1>1, Typed DEF Save, givenVars
  <2>. HIDE DEF r
  <2>. QED  BY <2>1, <2>2, AppendFacts
<1>2. ASSUME CollectFromDb
      PROVE  /\ OriginsOf(results') = OriginsOf(results) \cup {Head(pending).origin}
             /\ ChoicesOf(results') = ChoicesOf(results) \cup {Head(pending).choice}
             /\ Distinct(results) /\ Head(pending).origin \notin OriginsOf(results)
                  => Distinct(results')
             /\ AllReal(results) => AllReal(results')
  <2>. DEFINE b == Head(pending)
              r == [origin |-> b.origin, exc |-> b.exc, choice |-> b.choice]
  <2>1. b \in Bug /\ b.origin \in test[b.choice]
    BY <1>2, Typed, HeadTailBugs DEF CollectFromDb, Inv, BugsAreReal
  <2>2. r \in Result /\ r.origin = b.origin /\ r.choice = b.choice
    BY <2>1 DEF Bug, Result
  <2>3. results' = Append(results, r) /\ results \in Seq(Result)
    BY <1>2, Typed DEF CollectFromDb
  <2>. HIDE DEF b, r
  <2>4. /\ OriginsOf(results') = OriginsOf(results) \cup {b.origin}
        /\ ChoicesOf(results') = ChoicesOf(results) \cup {b.choice}
        /\ Distinct(results) /\ b.origin \notin OriginsOf(results) => Distinct(results')
        /\ AllReal(results) => AllReal(results')
    BY <2>1, <2>2, <2>3, AppendFacts
  <2>. QED  BY <2>4 DEF b
<1>. QED  BY <1>1, <1>2

(* The steps of a run, grouped the way the proofs below take them.         *)
LEMMA StepCases ==
  ASSUME [Next]_vars
  PROVE  \/ StartRun \/ Edit \/ Crash \/ UNCHANGED vars
         \/ ReuseUndecodable \/ ReuseDone
         \/ \E c \in Ranks : ReuseStale(c) \/ ReuseAborts(c)
         \/ \E c \in Ranks : \E o \in Failures : ReuseFails(c, o)
         \/ \E c \in Ranks : \E o \in Outcomes : Generate(c, o) \/ (c = 0 /\ Simplest(o))
         \/ \E c \in Ranks : GenerateRedundant(c) \/ GenerateAborts(c) \/ SimplestAborts
         \/ JudgeNoBug \/ JudgeOneBug \/ JudgeManyBugs
         \/ \E o \in Outcomes :
              \/ Verify(o) \/ ShrinkReplay(o) \/ Confirm(o)
              \/ ShrinkLimit \/ ShrinkPassDone \/ \E d \in Ranks : ShrinkTrial(d, o)
         \/ CollectFromDb \/ CollectShrink \/ Collected \/ Save
         \/ DrainSlips \/ NextSlip \/ SlipsDone \/ Report
<1>1. 0 \in Ranks /\ "valid" \in Outcomes
  BY ConstantsAssumption DEF Ranks, Outcomes
<1>. QED  BY <1>1 DEF Next, RunStep

-----------------------------------------------------------------------------
(* A run whose bugs come from the database.                                *)

(* Failures from the database end the search: the bugs are those the reuse *)
(* phase found, nothing is shrunk, so there are no slips, and what is      *)
(* reported is among them.                                                 *)
FromDatabase ==
  /\ Searching => results = <<>> /\ slipped = <<>>
  /\ pc = "reuse" => bugs = <<>> \/ fromDb
  /\ pc # "idle" /\ fromDb =>
       /\ bugs # <<>>
       /\ pc \notin {"simplest", "verify", "replay", "passes", "confirm"}
       /\ pc = "generate" => ~keepGoing
       /\ pc = "save" => job.kind = "single" /\ job.origin \in OriginsOf(bugs)
       /\ pc = "collect" => OriginsOf(pending) \subseteq OriginsOf(bugs)
       /\ pc = "slips" => pending = <<>>
       /\ slipped = <<>>
       /\ OriginsOf(results) \subseteq OriginsOf(bugs)

(* Every step keeps a run from the database one.                           *)
LEMMA FromDatabaseKept ==
  ASSUME Inv, FromDatabase, [Next]_vars
  PROVE  FromDatabase'
<1>. USE Typed, EmptyFacts
     DEF FromDatabase, Searching, searchVars, shrinkVars, reportVars,
         givenVars, history, Leave, Failures
<1>1. CASE StartRun
  BY <1>1 DEF StartRun
<1>2. CASE Edit \/ Crash
  BY <1>2 DEF Edit, Crash
<1>3. CASE UNCHANGED vars
  BY <1>3 DEF vars
<1>4. CASE ReuseUndecodable
  BY <1>4 DEF ReuseUndecodable
<1>5. CASE ReuseDone
  BY <1>5 DEF ReuseDone
<1>6. ASSUME NEW c \in Ranks, ReuseStale(c)
      PROVE  FromDatabase'
  BY <1>6 DEF ReuseStale
<1>7. ASSUME NEW c \in Ranks, ReuseAborts(c)
      PROVE  FromDatabase'
  BY <1>7 DEF ReuseAborts
<1>8. ASSUME NEW c \in Ranks, NEW o \in Failures, ReuseFails(c, o)
      PROVE  FromDatabase'
  BY <1>8, DedupedFacts DEF ReuseFails
<1>9. ASSUME NEW c \in Ranks, GenerateRedundant(c) \/ GenerateAborts(c)
      PROVE  FromDatabase'
  BY <1>9 DEF GenerateRedundant, GenerateAborts, EndExample, MayGenerate
<1>10. ASSUME NEW c \in Ranks, NEW o \in Outcomes, Generate(c, o)
       PROVE  FromDatabase'
  BY <1>10 DEF Generate, EndExample, MayGenerate
<1>11. ASSUME NEW o \in Outcomes, Simplest(o)
       PROVE  FromDatabase'
  BY <1>11 DEF Simplest
<1>12. CASE SimplestAborts
  BY <1>12 DEF SimplestAborts
<1>13. CASE JudgeNoBug
  BY <1>13 DEF JudgeNoBug, Searched
<1>14. CASE JudgeOneBug
  <2>1. bugs[1].origin \in OriginsOf(bugs)
    BY <1>14, SingletonFacts DEF JudgeOneBug
  <2>2. job'.kind = "single" /\ job'.origin = bugs[1].origin
    BY <1>14 DEF JudgeOneBug, NewJob
  <2>. QED  BY <1>14, <2>1, <2>2 DEF JudgeOneBug, Searched
<1>15. CASE JudgeManyBugs
  BY <1>15 DEF JudgeManyBugs, Searched
<1>16. ASSUME NEW o \in Outcomes, Verify(o) \/ ShrinkReplay(o) \/ Confirm(o)
       PROVE  FromDatabase'
  BY <1>16 DEF Verify, ShrinkReplay, Confirm, AfterShrink
<1>17. CASE CollectFromDb
  <2>. DEFINE b == Head(pending)
              r == [origin |-> b.origin, exc |-> b.exc, choice |-> b.choice]
  <2>1. b \in Bug /\ OriginsOf(pending) = {b.origin} \cup OriginsOf(Tail(pending))
    BY <1>17, HeadTailFacts DEF CollectFromDb
  <2>2. r \in Result /\ r.origin = b.origin
    BY <2>1 DEF Bug, Result
  <2>3. OriginsOf(results') = OriginsOf(results) \cup {b.origin}
    BY <1>17, <2>2, AppendFacts DEF CollectFromDb
  <2>. HIDE DEF b, r
  <2>. QED  BY <1>17, <2>1, <2>3 DEF CollectFromDb
<1>18. CASE CollectShrink
  BY <1>18 DEF CollectShrink
<1>19. CASE Collected
  BY <1>19 DEF Collected
<1>20. CASE ShrinkLimit \/ ShrinkPassDone
  <2>1. /\ pc' \in {"replay", "save", "confirm"} /\ ~fromDb
        /\ fromDb' = fromDb
    BY <1>20 DEF ShrinkLimit, ShrinkPassDone, AfterShrink
  <2>. QED  BY <2>1
<1>21. ASSUME NEW d \in Ranks, NEW o \in Outcomes, ShrinkTrial(d, o)
       PROVE  FromDatabase'
  BY <1>21 DEF ShrinkTrial
<1>22. CASE Save
  <2>. DEFINE r == [origin |-> job.origin, exc |-> job.exc, choice |-> job.choice]
  <2>1. r \in Result /\ r.origin = job.origin
    BY <1>22 DEF Save, UnderWay, Job, Result
  <2>2. OriginsOf(results') = OriginsOf(results) \cup {job.origin}
    BY <1>22, <2>1, AppendFacts DEF Save
  <2>. HIDE DEF r
  <2>. QED  BY <1>22, <2>2 DEF Save
<1>23. CASE DrainSlips \/ SlipsDone
  BY <1>23 DEF DrainSlips, SlipsDone
<1>24. CASE NextSlip
  BY <1>24 DEF NextSlip
<1>25. CASE Report
  <2>1. OriginsOf(results') \subseteq OriginsOf(results)
    BY <1>25, SomeResult DEF Report
  <2>. QED  BY <1>25, <2>1 DEF Report
<1>. QED
  BY <1>1, <1>2, <1>3, <1>4, <1>5, <1>6, <1>7, <1>8, <1>9, <1>10, <1>11, <1>12,
     <1>13, <1>14, <1>15, <1>16, <1>17, <1>18, <1>19, <1>20, <1>21, <1>22, <1>23,
     <1>24, <1>25 DEF Next, RunStep
-----------------------------------------------------------------------------
(* What is reported is in the database.                                    *)

(* While the database is replayed, a value that has failed is no longer    *)
(* queued, so nothing prunes it; with a database, whatever becomes a       *)
(* result is saved just before or comes from the database.                 *)
SavedSoFar ==
  /\ pc = "reuse" => /\ queue \subseteq db
                     /\ ChoicesOf(bugs) \cap queue = {}
  /\ pc # "idle" /\ fromDb =>
       /\ ChoicesOf(bugs) \subseteq db
       /\ pc = "collect" => ChoicesOf(pending) \subseteq db
  /\ pc # "idle" /\ cfg.useDb => ChoicesOf(results) \subseteq db

(* Every step keeps the results saved.                                     *)
LEMMA SavedSoFarKept ==
  ASSUME Inv, FromDatabase, SavedSoFar, [Next]_vars
  PROVE  SavedSoFar'
<1>. USE Typed, EmptyFacts
     DEF FromDatabase, Searching, SavedSoFar, searchVars, shrinkVars, reportVars,
         givenVars, history, Leave, Failures, UnderWay
<1>1. CASE StartRun
  BY <1>1 DEF StartRun
<1>2. CASE Edit \/ Crash
  BY <1>2 DEF Edit, Crash
<1>3. CASE UNCHANGED vars
  BY <1>3 DEF vars
<1>4. CASE ReuseUndecodable \/ ReuseDone
  BY <1>4 DEF ReuseUndecodable, ReuseDone
<1>5. ASSUME NEW c \in Ranks, ReuseStale(c) \/ ReuseAborts(c)
      PROVE  SavedSoFar'
  BY <1>5 DEF ReuseStale, ReuseAborts
<1>6. ASSUME NEW c \in Ranks, NEW o \in Failures, ReuseFails(c, o)
      PROVE  SavedSoFar'
  BY <1>6, DedupedFacts DEF ReuseFails
<1>7. ASSUME NEW c \in Ranks, NEW o \in Outcomes,
             Generate(c, o) \/ (c = 0 /\ Simplest(o))
      PROVE  SavedSoFar'
  BY <1>7, ExampleSteps
<1>8. ASSUME NEW c \in Ranks, GenerateRedundant(c) \/ GenerateAborts(c) \/ SimplestAborts
      PROVE  SavedSoFar'
  BY <1>8, DuplicateSteps
<1>9. CASE JudgeNoBug
  BY <1>9 DEF JudgeNoBug, Searched
<1>10. CASE JudgeOneBug
  BY <1>10, SingletonFacts DEF JudgeOneBug, Searched, NewJob
<1>11. CASE JudgeManyBugs
  BY <1>11 DEF JudgeManyBugs, Searched
<1>12. ASSUME NEW o \in Outcomes,
              \/ Verify(o) \/ ShrinkReplay(o) \/ Confirm(o)
              \/ ShrinkLimit \/ ShrinkPassDone \/ \E d \in Ranks : ShrinkTrial(d, o)
       PROVE  SavedSoFar'
  BY <1>12, ShrinkSteps
<1>13. CASE CollectFromDb
  BY <1>13, ResultSteps, HeadTailFacts DEF CollectFromDb
<1>14. CASE CollectShrink
  BY <1>14, HeadTailFacts DEF CollectShrink, NewJob
<1>15. CASE Collected
  BY <1>15 DEF Collected
<1>16. CASE Save
  <2>1. ChoicesOf(results') = ChoicesOf(results) \cup {job.choice}
    BY <1>16, ResultSteps
  <2>. QED  BY <1>16, <2>1 DEF Save, Saved
<1>17. CASE DrainSlips
  BY <1>17 DEF DrainSlips
<1>18. CASE NextSlip
  BY <1>18, HeadTailFacts DEF NextSlip, NewJob
<1>19. CASE SlipsDone
  BY <1>19 DEF SlipsDone
<1>20. CASE Report
  BY <1>20, SomeResult DEF Report
<1>. QED
  BY StepCases, <1>1, <1>2, <1>3, <1>4, <1>5, <1>6, <1>7, <1>8, <1>9, <1>10,
     <1>11, <1>12, <1>13, <1>14, <1>15, <1>16, <1>17, <1>18, <1>19, <1>20

-----------------------------------------------------------------------------
(* No bug twice, no bug lost.                                              *)

(* The bugs have different origins, and one still to be shrunk or in hand  *)
(* is not among the results; a slip is checked when it is taken up.        *)
NoRepeats ==
  /\ Distinct(results)
  /\ pc # "idle" => Distinct(bugs)
  /\ InHand("single") => results = <<>>
  /\ UnderWay => job.origin \notin OriginsOf(results)
  /\ pc = "collect" \/ InHand("multi") =>
       /\ Distinct(pending)
       /\ OriginsOf(pending) \cap OriginsOf(results) = {}
       /\ InHand("multi") => job.origin \notin OriginsOf(pending)

(* Every step keeps the origins apart.                                     *)
LEMMA NoRepeatsKept ==
  ASSUME Inv, FromDatabase, NoRepeats, [Next]_vars
  PROVE  NoRepeats'
<1>. USE Typed, EmptyFacts
     DEF FromDatabase, Searching, NoRepeats, searchVars, shrinkVars, reportVars,
         givenVars, history, Leave, Failures, UnderWay, InHand
<1>1. CASE StartRun
  BY <1>1 DEF StartRun
<1>2. CASE Edit \/ Crash
  BY <1>2 DEF Edit, Crash
<1>3. CASE UNCHANGED vars
  BY <1>3 DEF vars
<1>4. CASE ReuseUndecodable \/ ReuseDone
  BY <1>4 DEF ReuseUndecodable, ReuseDone
<1>5. ASSUME NEW c \in Ranks, ReuseStale(c) \/ ReuseAborts(c)
      PROVE  NoRepeats'
  BY <1>5 DEF ReuseStale, ReuseAborts
<1>6. ASSUME NEW c \in Ranks, NEW o \in Failures, ReuseFails(c, o)
      PROVE  NoRepeats'
  BY <1>6, DedupedFacts DEF ReuseFails
<1>7. ASSUME NEW c \in Ranks, NEW o \in Outcomes,
             Generate(c, o) \/ (c = 0 /\ Simplest(o))
      PROVE  NoRepeats'
  BY <1>7, ExampleSteps
<1>8. ASSUME NEW c \in Ranks, GenerateRedundant(c) \/ GenerateAborts(c) \/ SimplestAborts
      PROVE  NoRepeats'
  BY <1>8, DuplicateSteps
<1>9. CASE JudgeNoBug
  BY <1>9 DEF JudgeNoBug, Searched
<1>10. CASE JudgeOneBug
  BY <1>10, SingletonFacts DEF JudgeOneBug, Searched, NewJob
<1>11. CASE JudgeManyBugs
  BY <1>11 DEF JudgeManyBugs, Searched
<1>12. ASSUME NEW o \in Outcomes,
              \/ Verify(o) \/ ShrinkReplay(o) \/ Confirm(o)
              \/ ShrinkLimit \/ ShrinkPassDone \/ \E d \in Ranks : ShrinkTrial(d, o)
       PROVE  NoRepeats'
  BY <1>12, ShrinkSteps
<1>13. CASE CollectFromDb
  BY <1>13, ResultSteps, HeadTailFacts DEF CollectFromDb
<1>14. CASE CollectShrink
  BY <1>14, HeadTailFacts DEF CollectShrink, NewJob
<1>15. CASE Collected
  BY <1>15 DEF Collected
<1>16. CASE Save
  BY <1>16, ResultSteps DEF Save
<1>17. CASE DrainSlips
  BY <1>17 DEF DrainSlips
<1>18. CASE NextSlip
  BY <1>18, HeadTailFacts DEF NextSlip, NewJob
<1>19. CASE SlipsDone
  BY <1>19 DEF SlipsDone
<1>20. CASE Report
  BY <1>20, SomeResult DEF Report
<1>. QED
  BY StepCases, <1>1, <1>2, <1>3, <1>4, <1>5, <1>6, <1>7, <1>8, <1>9, <1>10,
     <1>11, <1>12, <1>13, <1>14, <1>15, <1>16, <1>17, <1>18, <1>19, <1>20

(* An origin this run has met is, until it is reported, the origin of a    *)
(* bug, of a slip, or of the bug in hand; every bug is reported before the *)
(* slips are drained, and slips are not collected after that.              *)
NothingLost ==
  /\ Searching => witnessed \subseteq OriginsOf(bugs)
  /\ pc \in {"collect", "drain"} \/ InHand("single") \/ InHand("multi") =>
       witnessed \subseteq OriginsOf(bugs) \cup OriginsOf(slipped)
  /\ InHand("single") => OriginsOf(bugs) = {job.origin}
  /\ pc = "collect" =>
       OriginsOf(bugs) \subseteq OriginsOf(results) \cup OriginsOf(pending)
  /\ InHand("multi") =>
       OriginsOf(bugs) \subseteq
         OriginsOf(results) \cup OriginsOf(pending) \cup {job.origin}
  /\ pc \in {"drain", "slips", "report"} \/ InHand("slip") =>
       OriginsOf(bugs) \subseteq OriginsOf(results)
  /\ pc = "slips" \/ InHand("slip") => ~slipOn
  /\ pc = "slips" => witnessed \subseteq OriginsOf(results) \cup OriginsOf(pending)
  /\ InHand("slip") =>
       witnessed \subseteq
         OriginsOf(results) \cup OriginsOf(pending) \cup {job.origin}
  /\ pc = "report" => witnessed \subseteq OriginsOf(results)
  /\ Returned /\ cfg.multi => witnessed \subseteq OriginsOf(results)

(* Every step keeps track of every origin met.                             *)
LEMMA NothingLostKept ==
  ASSUME Inv, FromDatabase, NothingLost, [Next]_vars
  PROVE  NothingLost'
<1>. USE Typed, EmptyFacts
     DEF FromDatabase, Searching, NothingLost, Returned, searchVars, shrinkVars, reportVars,
         givenVars, history, Leave, Failures, UnderWay, InHand
<1>1. CASE StartRun
  BY <1>1 DEF StartRun
<1>2. CASE Edit \/ Crash
  BY <1>2 DEF Edit, Crash
<1>3. CASE UNCHANGED vars
  BY <1>3 DEF vars
<1>4. CASE ReuseUndecodable \/ ReuseDone
  BY <1>4 DEF ReuseUndecodable, ReuseDone
<1>5. ASSUME NEW c \in Ranks, ReuseStale(c) \/ ReuseAborts(c)
      PROVE  NothingLost'
  BY <1>5 DEF ReuseStale, ReuseAborts
<1>6. ASSUME NEW c \in Ranks, NEW o \in Failures, ReuseFails(c, o)
      PROVE  NothingLost'
  BY <1>6, DedupedFacts DEF ReuseFails
<1>7. ASSUME NEW c \in Ranks, NEW o \in Outcomes,
             Generate(c, o) \/ (c = 0 /\ Simplest(o))
      PROVE  NothingLost'
  BY <1>7, ExampleSteps
<1>8. ASSUME NEW c \in Ranks, GenerateRedundant(c) \/ GenerateAborts(c) \/ SimplestAborts
      PROVE  NothingLost'
  BY <1>8, DuplicateSteps
<1>9. CASE JudgeNoBug
  BY <1>9 DEF JudgeNoBug, Searched
<1>10. CASE JudgeOneBug
  BY <1>10, SingletonFacts DEF JudgeOneBug, Searched, NewJob
<1>11. CASE JudgeManyBugs
  BY <1>11 DEF JudgeManyBugs, Searched
<1>12. ASSUME NEW o \in Outcomes,
              \/ Verify(o) \/ ShrinkReplay(o) \/ Confirm(o)
              \/ ShrinkLimit \/ ShrinkPassDone \/ \E d \in Ranks : ShrinkTrial(d, o)
       PROVE  NothingLost'
  BY <1>12, ShrinkSteps
<1>13. CASE CollectFromDb
  BY <1>13, ResultSteps, HeadTailFacts DEF CollectFromDb
<1>14. CASE CollectShrink
  BY <1>14, HeadTailFacts DEF CollectShrink, NewJob
<1>15. CASE Collected
  BY <1>15 DEF Collected
<1>16. CASE Save
  BY <1>16, ResultSteps DEF Save
<1>17. CASE DrainSlips
  BY <1>17 DEF DrainSlips
<1>18. CASE NextSlip
  BY <1>18, HeadTailFacts DEF NextSlip, NewJob
<1>19. CASE SlipsDone
  BY <1>19 DEF SlipsDone
<1>20. CASE Report
  BY <1>20, SomeResult DEF Report
<1>. QED
  BY StepCases, <1>1, <1>2, <1>3, <1>4, <1>5, <1>6, <1>7, <1>8, <1>9, <1>10,
     <1>11, <1>12, <1>13, <1>14, <1>15, <1>16, <1>17, <1>18, <1>19, <1>20

-----------------------------------------------------------------------------
(* Reported again, and nothing claimed that is not so.                     *)

(* Whether the test is deterministic changes only when it is edited.       *)
LEMMA SameTest ==
  ASSUME test' = test
  PROVE  Deterministic' <=> Deterministic
BY DEF Deterministic

(* How a run that was not killed ends: by an abort, by a report, as flaky, *)
(* or without a bug.                                                       *)
Endings ==
  /\ verdict # "none" => pc = "done"
  /\ pc # "idle" => AllReal(results)
  /\ pc = "done" =>
       \/ verdict = "abort"
       \/ verdict = "bugs" /\ (fromDb => OriginsOf(bugs) \subseteq OriginsOf(results))
       \/ verdict = "flaky" /\ ~Deterministic
       \/ bugs = <<>> /\ verdict \notin {"bugs", "abort", "flaky"}

(* Every step keeps the endings what they are.                             *)
LEMMA EndingsKept ==
  ASSUME Inv, FromDatabase, NothingLost, Endings, [Next]_vars
  PROVE  Endings'
<1>. USE Typed, EmptyFacts, SameTest
     DEF Endings, AllReal, searchVars, shrinkVars, reportVars,
         givenVars, history, Leave, Failures, UnderWay, InHand
<1>1. CASE StartRun
  BY <1>1 DEF StartRun
<1>2. CASE Edit \/ Crash
  BY <1>2 DEF Edit, Crash
<1>3. CASE UNCHANGED vars
  BY <1>3 DEF vars
<1>4. CASE ReuseUndecodable \/ ReuseDone
  BY <1>4 DEF ReuseUndecodable, ReuseDone
<1>5. ASSUME NEW c \in Ranks, ReuseStale(c) \/ ReuseAborts(c)
      PROVE  Endings'
  BY <1>5 DEF ReuseStale, ReuseAborts
<1>6. ASSUME NEW c \in Ranks, NEW o \in Failures, ReuseFails(c, o)
      PROVE  Endings'
  BY <1>6, DedupedFacts DEF ReuseFails
<1>7. ASSUME NEW c \in Ranks, NEW o \in Outcomes,
             Generate(c, o) \/ (c = 0 /\ Simplest(o))
      PROVE  Endings'
  BY <1>7, ExampleSteps
<1>8. ASSUME NEW c \in Ranks, GenerateRedundant(c) \/ GenerateAborts(c) \/ SimplestAborts
      PROVE  Endings'
  BY <1>8, DuplicateSteps
<1>9. CASE JudgeNoBug
  <2>1. NoBugVerdict \notin {"bugs", "abort", "flaky", "none"}
    BY DEF NoBugVerdict
  <2>. QED  BY <1>9, <2>1 DEF JudgeNoBug, Searched
<1>10. CASE JudgeOneBug
  BY <1>10, SingletonFacts DEF JudgeOneBug, Searched, NewJob
<1>11. CASE JudgeManyBugs
  BY <1>11 DEF JudgeManyBugs, Searched
<1>12. ASSUME NEW o \in Outcomes,
              \/ Verify(o) \/ ShrinkReplay(o) \/ Confirm(o)
              \/ ShrinkLimit \/ ShrinkPassDone \/ \E d \in Ranks : ShrinkTrial(d, o)
       PROVE  Endings'
  <2>1. ASSUME pc' = "done", verdict' = "flaky"
        PROVE  ~Deterministic
    <3>1. /\ o \in test[job.choice] /\ o # job.origin
          /\ job.origin \in test[job.choice] /\ job.choice \in Ranks
      BY <1>12, <2>1, ShrinkSteps
    <3>. QED  BY <3>1 DEF Deterministic
  <2>. QED  BY <1>12, <2>1, ShrinkSteps
<1>13. CASE CollectFromDb
  BY <1>13, ResultSteps, HeadTailFacts DEF CollectFromDb
<1>14. CASE CollectShrink
  BY <1>14, HeadTailFacts DEF CollectShrink, NewJob
<1>15. CASE Collected
  BY <1>15 DEF Collected
<1>16. CASE Save
  BY <1>16, ResultSteps DEF Save
<1>17. CASE DrainSlips
  BY <1>17 DEF DrainSlips
<1>18. CASE NextSlip
  BY <1>18, HeadTailFacts DEF NextSlip, NewJob
<1>19. CASE SlipsDone
  BY <1>19 DEF SlipsDone
<1>20. CASE Report
  <2>1. /\ pc = "report" /\ pc' = "done" /\ verdict' = "bugs"
        /\ UNCHANGED <<test, bugs, fromDb, cfg>>
    BY <1>20 DEF Report
  <2>2. CASE results' = results
    BY <2>1, <2>2 DEF NothingLost
  <2>3. CASE Len(bugs) = 1 /\ \E i \in DOMAIN results : results' = <<results[i]>>
    <3>1. PICK i \in DOMAIN results : results' = <<results[i]>>
      BY <2>3
    <3>2. OriginsOf(results') = {results[i].origin} /\ AllReal(results')
      BY <2>1, <3>1, SomeResult
    <3>3. fromDb => results[i].origin \in OriginsOf(bugs)
      BY <2>1, SomeResult DEF FromDatabase
    <3>4. OriginsOf(bugs) = {bugs[1].origin}
      BY <2>3, SingletonFacts
    <3>5. fromDb => OriginsOf(bugs) \subseteq OriginsOf(results')
      BY <3>2, <3>3, <3>4
    <3>. QED  BY <2>1, <3>2, <3>5
  <2>. QED  BY <1>20, <2>2, <2>3 DEF Report
<1>. QED
  BY StepCases, <1>1, <1>2, <1>3, <1>4, <1>5, <1>6, <1>7, <1>8, <1>9, <1>10,
     <1>11, <1>12, <1>13, <1>14, <1>15, <1>16, <1>17, <1>18, <1>19, <1>20

(* Each of these origins has a value in D that fails with it and nothing   *)
(* else.                                                                   *)
Held(t, D, O) == \A o \in O : \E c \in Ranks : c \in D /\ t[c] = {o}

(* For a deterministic test, an origin an earlier run reported has a value *)
(* in the database that fails with it.  The reuse phase finds it: the      *)
(* value is queued until its failure is among the bugs.                    *)
PromiseKept ==
  Deterministic =>
    /\ Held(test, db, promised)
    /\ pc = "reuse" /\ cfg.useDb =>
         Held(test, queue, promised \ OriginsOf(bugs))
    /\ pc \notin {"idle", "reuse"} /\ verdict # "abort" /\ cfg.useDb =>
         /\ promised \subseteq OriginsOf(bugs)
         /\ promised # {} => fromDb

(* A value that is no failure, or that does not decode, holds no promise;  *)
(* one whose failure is filed is not needed any more.                      *)
LEMMA HeldWithout ==
  ASSUME NEW t, NEW D, NEW O \in SUBSET Origins, Held(t, D, O)
  PROVE  /\ Held(t, D \ {Junk}, O)
         /\ \A c \in Ranks : t[c] \cap {"valid", "invalid", "overrun"} # {} =>
              Held(t, D \ {c}, O)
         /\ \A c \in Ranks : \A o : o \in t[c] => Held(t, D \ {c}, O \ {o})
         /\ D = {} => O = {}
<1>1. Held(t, D \ {Junk}, O)
  BY ConstantsAssumption DEF Held
<1>2. \A c \in Ranks : t[c] \cap {"valid", "invalid", "overrun"} # {} =>
        Held(t, D \ {c}, O)
  BY ConstantsAssumption DEF Held
<1>3. \A c \in Ranks : \A o : o \in t[c] => Held(t, D \ {c}, O \ {o})
  BY DEF Held
<1>4. D = {} => O = {}
  BY DEF Held
<1>. QED  BY <1>1, <1>2, <1>3, <1>4

(* What a run reported and saved is held by the database.                  *)
LEMMA PromiseHeld ==
  ASSUME Inv, SavedSoFar, Endings, PromiseKept, Deterministic
  PROVE  Held(test, db, Promise) /\ Promise \in SUBSET Origins
<1>1. CASE verdict = "bugs" /\ cfg.useDb
  <2>1. /\ AllReal(results) /\ ChoicesOf(results) \subseteq db
        /\ Promise = OriginsOf(results) /\ results \in Seq(Result)
    BY <1>1, Typed DEF Endings, SavedSoFar, Promise
  <2>2. \A i \in DOMAIN results :
          /\ results[i].choice \in Ranks /\ results[i].origin \in Origins
          /\ results[i].choice \in db
          /\ results[i].origin \in test[results[i].choice]
    <3>1. \A i \in DOMAIN results : results[i] \in Result
      BY <2>1
    <3>. QED  BY <2>1, <3>1 DEF AllReal, ChoicesOf, Result
  <2>3. \A i \in DOMAIN results : test[results[i].choice] = {results[i].origin}
    BY <2>2 DEF Deterministic
  <2>. QED  BY <2>1, <2>2, <2>3 DEF Held, OriginsOf
<1>2. CASE ~(verdict = "bugs" /\ cfg.useDb)
  BY <1>2 DEF Promise, PromiseKept, Inv, TypeOK
<1>. QED  BY <1>1, <1>2

(* Every step keeps the promise.                                           *)
LEMMA PromiseStaysKept ==
  ASSUME Inv, FromDatabase, SavedSoFar, Endings, PromiseKept, [Next]_vars
  PROVE  PromiseKept'
<1>. USE Typed, EmptyFacts, SameTest
     DEF PromiseKept, searchVars, shrinkVars, reportVars,
         givenVars, history, Leave, Failures, UnderWay, InHand
<1>1. CASE StartRun
  <2>1. Deterministic => Held(test, db, Promise)
    BY PromiseHeld
  <2>. QED  BY <1>1, <2>1 DEF StartRun
<1>2. CASE Edit \/ Crash
  <2>1. Deterministic => Held(test, db, Promise)
    BY PromiseHeld
  <2>2. Held(test', db, {})
    BY DEF Held
  <2>. QED  BY <1>2, <2>1, <2>2 DEF Edit, Crash
<1>3. CASE UNCHANGED vars
  BY <1>3 DEF vars
<1>4. CASE ReuseUndecodable \/ ReuseDone
  <2>1. promised \in SUBSET Origins
    BY DEF Inv, TypeOK
  <2>2. CASE ReuseUndecodable
    BY <2>1, <2>2, HeldWithout DEF ReuseUndecodable
  <2>3. CASE ReuseDone
    <3>1. Deterministic /\ cfg.useDb => promised \ OriginsOf(bugs) = {}
      BY <2>1, <2>3, HeldWithout DEF ReuseDone
    <3>. QED  BY <2>3, <3>1 DEF ReuseDone, FromDatabase
  <2>. QED  BY <1>4, <2>2, <2>3
<1>5. ASSUME NEW c \in Ranks, ReuseStale(c) \/ ReuseAborts(c)
      PROVE  PromiseKept'
  <2>1. promised \in SUBSET Origins
    BY DEF Inv, TypeOK
  <2>2. CASE ReuseStale(c)
    BY <2>1, <2>2, HeldWithout DEF ReuseStale, Stale
  <2>3. CASE ReuseAborts(c)
    BY <2>3 DEF ReuseAborts
  <2>. QED  BY <1>5, <2>2, <2>3
<1>6. ASSUME NEW c \in Ranks, NEW o \in Failures, ReuseFails(c, o)
      PROVE  PromiseKept'
  <2>1. promised \ OriginsOf(bugs) \in SUBSET Origins
    BY DEF Inv, TypeOK
  <2>2. /\ OriginsOf(bugs') = OriginsOf(bugs) \cup {o}
        /\ pc = "reuse" /\ pc' = "reuse" /\ o \in test[c] /\ queue' = queue \ {c}
        /\ UNCHANGED <<test, cfg, db, promised>>
    BY <1>6, DedupedFacts DEF ReuseFails
  <2>3. promised \ OriginsOf(bugs') = (promised \ OriginsOf(bugs)) \ {o}
    BY <2>2
  <2>4. Deterministic /\ cfg.useDb =>
          Held(test, queue \ {c}, (promised \ OriginsOf(bugs)) \ {o})
    BY <2>1, <2>2, HeldWithout
  <2>. HIDE DEF PromiseKept
  <2>5. Deterministic => Held(test, db, promised)
    BY DEF PromiseKept
  <2>. QED  BY <2>2, <2>3, <2>4, <2>5 DEF PromiseKept
<1>7. ASSUME NEW c \in Ranks, NEW o \in Outcomes,
             Generate(c, o) \/ (c = 0 /\ Simplest(o))
      PROVE  PromiseKept'
  <2>1. /\ pc \notin {"idle", "reuse"} /\ pc' \notin {"idle", "reuse"}
        /\ verdict # "abort" /\ OriginsOf(bugs) \subseteq OriginsOf(bugs')
        /\ UNCHANGED <<test, cfg, db, promised, fromDb>>
    BY <1>7, ExampleSteps DEF Endings
  <2>. QED  BY <2>1
<1>8. ASSUME NEW c \in Ranks, GenerateRedundant(c) \/ GenerateAborts(c) \/ SimplestAborts
      PROVE  PromiseKept'
  <2>1. /\ pc \notin {"idle", "reuse"} /\ pc' \notin {"idle", "reuse"}
        /\ verdict # "abort"
        /\ UNCHANGED <<test, cfg, db, promised, fromDb, bugs>>
    BY <1>8, DuplicateSteps DEF Endings
  <2>. QED  BY <2>1
<1>9. CASE JudgeNoBug
  <2>1. /\ pc \notin {"idle", "reuse"} /\ pc' = "done" /\ verdict # "abort"
        /\ UNCHANGED <<test, cfg, db, promised, fromDb, bugs>>
    BY <1>9 DEF JudgeNoBug, Searched, Endings
  <2>. QED  BY <2>1
<1>10. CASE JudgeOneBug
  BY <1>10, SingletonFacts DEF JudgeOneBug, Searched, NewJob
<1>11. CASE JudgeManyBugs
  BY <1>11 DEF JudgeManyBugs, Searched
<1>12. ASSUME NEW o \in Outcomes,
              \/ Verify(o) \/ ShrinkReplay(o) \/ Confirm(o)
              \/ ShrinkLimit \/ ShrinkPassDone \/ \E d \in Ranks : ShrinkTrial(d, o)
       PROVE  PromiseKept'
  <2>1. /\ pc \notin {"idle", "reuse"} /\ pc' \notin {"idle", "reuse"}
        /\ verdict # "abort"
        /\ UNCHANGED <<test, cfg, db, promised, fromDb, bugs>>
    BY <1>12, ShrinkSteps DEF Endings
  <2>. QED  BY <2>1
<1>13. CASE CollectFromDb
  BY <1>13, ResultSteps, HeadTailFacts DEF CollectFromDb
<1>14. CASE CollectShrink
  BY <1>14, HeadTailFacts DEF CollectShrink, NewJob
<1>15. CASE Collected
  BY <1>15 DEF Collected
<1>16. CASE Save
  <2>1. /\ pc = "save" /\ pc' \notin {"idle", "reuse"} /\ verdict' = verdict
        /\ db \subseteq db'
        /\ UNCHANGED <<test, cfg, promised, fromDb, bugs>>
    BY <1>16 DEF Save, Saved
  <2>2. Deterministic => Held(test, db', promised)
    BY <2>1 DEF Held
  <2>. QED  BY <2>1, <2>2
<1>17. CASE DrainSlips
  BY <1>17 DEF DrainSlips
<1>18. CASE NextSlip
  BY <1>18, HeadTailFacts DEF NextSlip, NewJob
<1>19. CASE SlipsDone
  BY <1>19 DEF SlipsDone
<1>20. CASE Report
  <2>1. /\ pc = "report" /\ pc' = "done" /\ verdict # "abort"
        /\ UNCHANGED <<test, cfg, db, promised, fromDb, bugs>>
    BY <1>20 DEF Report, Endings
  <2>. QED  BY <2>1
<1>. QED
  BY StepCases, <1>1, <1>2, <1>3, <1>4, <1>5, <1>6, <1>7, <1>8, <1>9, <1>10,
     <1>11, <1>12, <1>13, <1>14, <1>15, <1>16, <1>17, <1>18, <1>19, <1>20

(* For a deterministic test, the tree holds a failing sequence only once   *)
(* there is a bug, and rejected sequences are rejected by every example.   *)
SoundVerdicts ==
  /\ Deterministic /\ pc # "idle" =>
       /\ \A c \in seen : CanFail(c) => bugs # <<>>
       /\ \A c \in rejected : test[c] \subseteq {"invalid", "overrun"}
  /\ pc = "done" /\ verdict = "pass" => bugs = <<>>
  /\ pc = "done" /\ verdict = "exhausted" => Exhausted(rejected)

(* Every step keeps the verdicts sound.                                    *)
LEMMA SoundVerdictsKept ==
  ASSUME Inv, Endings, SoundVerdicts, [Next]_vars
  PROVE  SoundVerdicts'
<1>. USE Typed, EmptyFacts, SameTest
     DEF SoundVerdicts, CanFail, Exhausted, searchVars, shrinkVars, reportVars,
         givenVars, history, Leave, Failures, UnderWay, InHand
<1>1. CASE StartRun
  BY <1>1 DEF StartRun
<1>2. CASE Edit \/ Crash
  BY <1>2 DEF Edit, Crash
<1>3. CASE UNCHANGED vars
  BY <1>3 DEF vars
<1>4. CASE ReuseUndecodable \/ ReuseDone
  BY <1>4 DEF ReuseUndecodable, ReuseDone
<1>5. ASSUME NEW c \in Ranks, ReuseStale(c) \/ ReuseAborts(c)
      PROVE  SoundVerdicts'
  BY <1>5 DEF ReuseStale, ReuseAborts
<1>6. ASSUME NEW c \in Ranks, NEW o \in Failures, ReuseFails(c, o)
      PROVE  SoundVerdicts'
  <2>1. /\ bugs' # <<>> /\ pc = "reuse" /\ pc' = "reuse"
        /\ UNCHANGED <<test, seen, rejected>>
    BY <1>6, DedupedFacts DEF ReuseFails
  <2>. QED  BY <2>1
<1>7. ASSUME NEW c \in Ranks, NEW o \in Outcomes,
             Generate(c, o) \/ (c = 0 /\ Simplest(o))
      PROVE  SoundVerdicts'
  <2>1. /\ pc # "idle" /\ test' = test /\ o \in test[c]
        /\ pc' = "done" => verdict' = "too_slow"
        /\ seen' \subseteq seen \cup {c}
        /\ rejected' \subseteq rejected \cup ({c} \cap {x \in Ranks : o \in {"invalid", "overrun"}})
        /\ bugs # <<>> => bugs' # <<>>
        /\ o \in Origins => bugs' # <<>>
    BY <1>7, ExampleSteps
  <2>2. ASSUME Deterministic
        PROVE  test[c] = {o}
    BY <2>1, <2>2 DEF Deterministic
  <2>3. ASSUME Deterministic, NEW d \in seen', CanFail(d)
        PROVE  bugs' # <<>>
    <3>1. CASE d \in seen
      BY <2>1, <2>3, <3>1
    <3>2. CASE d = c
      BY <2>1, <2>2, <2>3, <3>2
    <3>. QED  BY <2>1, <3>1, <3>2
  <2>4. ASSUME Deterministic, NEW d \in rejected'
        PROVE  test[d] \subseteq {"invalid", "overrun"}
    <3>1. CASE d \in rejected
      BY <2>1, <2>4, <3>1
    <3>2. CASE d = c /\ o \in {"invalid", "overrun"}
      BY <2>2, <2>4, <3>2
    <3>. QED  BY <2>1, <3>1, <3>2
  <2>. QED  BY <2>1, <2>3, <2>4
<1>8. ASSUME NEW c \in Ranks, GenerateRedundant(c) \/ GenerateAborts(c) \/ SimplestAborts
      PROVE  SoundVerdicts'
  BY <1>8, DuplicateSteps
<1>9. CASE JudgeNoBug
  <2>1. /\ pc = "generate" /\ pc' = "done" /\ verdict' = NoBugVerdict /\ bugs = <<>>
        /\ UNCHANGED <<test, seen, rejected, bugs, cfg>>
    BY <1>9 DEF JudgeNoBug, Searched
  <2>2. NoBugVerdict = "exhausted" => Exhausted(rejected)
    BY DEF NoBugVerdict
  <2>. QED  BY <2>1, <2>2
<1>10. CASE JudgeOneBug
  BY <1>10, SingletonFacts DEF JudgeOneBug, Searched, NewJob
<1>11. CASE JudgeManyBugs
  BY <1>11 DEF JudgeManyBugs, Searched
<1>12. ASSUME NEW o \in Outcomes,
              \/ Verify(o) \/ ShrinkReplay(o) \/ Confirm(o)
              \/ ShrinkLimit \/ ShrinkPassDone \/ \E d \in Ranks : ShrinkTrial(d, o)
       PROVE  SoundVerdicts'
  BY <1>12, ShrinkSteps
<1>13. CASE CollectFromDb
  BY <1>13, ResultSteps, HeadTailFacts DEF CollectFromDb
<1>14. CASE CollectShrink
  BY <1>14, HeadTailFacts DEF CollectShrink, NewJob
<1>15. CASE Collected
  BY <1>15 DEF Collected
<1>16. CASE Save
  BY <1>16, ResultSteps DEF Save
<1>17. CASE DrainSlips
  BY <1>17 DEF DrainSlips
<1>18. CASE NextSlip
  BY <1>18, HeadTailFacts DEF NextSlip, NewJob
<1>19. CASE SlipsDone
  BY <1>19 DEF SlipsDone
<1>20. CASE Report
  BY <1>20, SomeResult DEF Report
<1>. QED
  BY StepCases, <1>1, <1>2, <1>3, <1>4, <1>5, <1>6, <1>7, <1>8, <1>9, <1>10,
     <1>11, <1>12, <1>13, <1>14, <1>15, <1>16, <1>17, <1>18, <1>19, <1>20

-----------------------------------------------------------------------------
(* The theorems.                                                           *)

(* The inductive invariant: Runner's own and the clauses above.            *)
Reports ==
  /\ Inv /\ FromDatabase /\ SavedSoFar /\ NoRepeats /\ NothingLost
  /\ Endings /\ PromiseKept /\ SoundVerdicts

(* It holds of every state a first run can start from.                     *)
THEOREM ReportsInit == Init => Reports
<1>. SUFFICES ASSUME Init PROVE Reports
  OBVIOUS
<1>1. /\ pc = "idle" /\ results = <<>> /\ verdict = "none" /\ promised = {}
  BY DEF Init
<1>. QED
  BY <1>1, InitInv, EmptyFacts
     DEF Reports, FromDatabase, SavedSoFar, NoRepeats, NothingLost, Endings, PromiseKept,
         SoundVerdicts, Searching, UnderWay, InHand, Returned, Held

(* Every step keeps it.                                                    *)
THEOREM ReportsStep == Reports /\ [Next]_vars => Reports'
BY StepInv, FromDatabaseKept, SavedSoFarKept, NoRepeatsKept, NothingLostKept,
   EndingsKept, PromiseStaysKept, SoundVerdictsKept DEF Reports

(* It holds throughout every behaviour.                                    *)
THEOREM ReportsInvariance == Spec => []Reports
BY ReportsInit, ReportsStep, PTL DEF Spec

(* With a database, every choice sequence a run reports is in it when the  *)
(* run returns, for every test, flaky or not, and every setting.           *)
THEOREM EverythingReportedIsSaved == Spec => []ReportedIsSaved
<1>1. Reports => ReportedIsSaved
  BY DEF Reports, SavedSoFar, ReportedIsSaved, Returned, ChoicesOf
<1>. QED  BY <1>1, ReportsInvariance, PTL

(* No bug a run meets is lost on the way to its report and none is         *)
(* reported twice, however it was found and whatever happened to it.       *)
THEOREM NoBugLostOrRepeated == Spec => []EveryBugReportedOnce
<1>1. Reports => EveryBugReportedOnce
  BY DEF Reports, NothingLost, NoRepeats, EveryBugReportedOnce, Returned, Distinct
<1>. QED  BY <1>1, ReportsInvariance, PTL

(* What an earlier run of a deterministic test reported is reported again, *)
(* through crashes, edits of the settings and any number of runs.          *)
THEOREM PromisesAreKept == Spec => []ReportedAgain
<1>1. Reports => ReportedAgain
  <2>. SUFFICES ASSUME Reports, pc = "done", verdict # "abort", cfg.useDb, Deterministic
                PROVE  promised \subseteq OriginsOf(results)
    BY DEF ReportedAgain
  <2>1. promised \subseteq OriginsOf(bugs) /\ (promised # {} => fromDb)
    BY DEF Reports, PromiseKept
  <2>2. CASE bugs = <<>>
    BY <2>1, <2>2, EmptyFacts
  <2>3. CASE verdict = "bugs" /\ (fromDb => OriginsOf(bugs) \subseteq OriginsOf(results))
    BY <2>1, <2>3
  <2>. QED  BY <2>2, <2>3 DEF Reports, Endings
<1>. QED  BY <1>1, ReportsInvariance, PTL

(* A run that passes by exhausting the choice space leaves no failing      *)
(* sequence behind, and one that says everything was rejected is right.    *)
THEOREM VerdictsStayTrue == Spec => []VerdictsAreTrue
<1>1. Reports => VerdictsAreTrue
  <2>. SUFFICES ASSUME Reports, pc = "done", Deterministic
                PROVE  /\ verdict = "pass" /\ track /\ Exhausted(seen) =>
                            ~\E c \in Ranks : CanFail(c)
                       /\ verdict = "exhausted" =>
                            \A c \in Ranks : test[c] \subseteq {"invalid", "overrun"}
    BY DEF VerdictsAreTrue
  <2>1. SoundVerdicts
    BY DEF Reports
  <2>. QED  BY <2>1 DEF SoundVerdicts, Exhausted
<1>. QED  BY <1>1, ReportsInvariance, PTL
=============================================================================
