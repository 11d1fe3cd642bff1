----------------------------- MODULE NestedRuns -----------------------------
(***************************************************************************)
(* Runs inside runs.  A test body, or a callback called while a value is   *)
(* drawn, may itself call a @given test or find(): a second run_native     *)
(* starts on the same thread while the first is suspended in the middle of *)
(* an example.  The engine keeps its working state in thread-locals, which *)
(* RunNativeGuard saves on entry and restores on exit; the wrapper in      *)
(* core.py keeps flags of its own around the call.                         *)
(*                                                                         *)
(* Two things reach the thread-locals of a suspended run past the guard:   *)
(* the wrapper of a nested run turns USE_PY_CLOCK on before the guard is   *)
(* up and off after it is gone, and reproduce_native - the final replay of *)
(* a failure with interactive draws, or @reproduce_failure - draws without *)
(* any guard.                                                              *)
(*                                                                         *)
(* Every place holds the number of the run that wrote it, 0 for nobody.    *)
(***************************************************************************)
EXTENDS Integers

(* The guard takes the contents of some thread-locals, so that the new run *)
(* finds them empty, and copies the others, which the new run inherits.    *)
CONSTANTS
  MaxDepth,    \* BOUND: how deep runs nest
  MaxRuns,     \* BOUND: how many runs are started
  Taken,       \* SLIPPED, SHRINK_REPORT, MINIMAL_CHOICES, the caches, ...
  Published,   \* those of them that core.py reads after the run
  Copied,      \* SLIP_ENABLED, LAST_DRAW_SECS, SHRINK_CALLS, USE_PY_CLOCK
  SlipEnabled, \* the one run_native sets as it starts
  Clock,       \* USE_PY_CLOCK, which only the wrapper writes
  Drawn        \* those a draw writes: LAST_DRAW_SECS and the caches

ASSUME BoundsAssumption == MaxDepth \in Nat /\ MaxRuns \in Nat
ASSUME CellsAssumption == /\ Published \subseteq Taken /\ SlipEnabled \in Copied
                          /\ Clock \in Copied /\ Clock # SlipEnabled
                          /\ Drawn \subseteq (Taken \cup Copied) \ {Clock}
                          /\ Taken \cap Copied = {}

Levels == 1 .. MaxDepth
Cells == Taken \cup Copied

Phases == {"called", "drawing", "body", "left", "returned", "replay", "push",
           "reproducing"}
NobodyIn(S) == [c \in S |-> 0]

VARIABLES
  depth,        \* runs under way on this thread
  started,      \* runs started so far
  collecting,   \* a statistics collector is active
  run,          \* number of the run at each level
  phase,        \* where it is
  cells,        \* the working thread-locals
  saved,        \* RunNativeGuard of each level: its copy of them
  published,    \* SHRINK_REPORT_RESULT, MINIMAL_CHOICES_RESULT
  result,       \* what the wrapper of each level read of them
  active,       \* _TLS.engine_active
  targets,      \* _TLS.targets
  cases,        \* _stats_tls.cases
  stats,        \* the cases each level keeps for _push_statistics
  finalReplay,  \* _stats_tls.final_replay
  left,         \* history: the cells as the run at each level left them
  touched,      \* history: those of them written past the guard since
  own           \* history: the results of the run at each level

levels == <<depth, started, collecting, run, phase>>
engine == <<cells, saved, published>>
python == <<result, active, targets, cases, stats, finalReplay>>
history == <<left, touched, own>>
vars == <<levels, engine, python, history>>

TypeOK ==
  /\ depth \in 0 .. MaxDepth /\ started \in Nat /\ collecting \in BOOLEAN
  /\ run \in [Levels -> Nat] /\ phase \in [Levels -> Phases]
  /\ cells \in [Cells -> Nat] /\ saved \in [Levels -> [Cells -> Nat]]
  /\ published \in [Published -> Nat] /\ result \in [Levels -> [Published -> Nat]]
  /\ active \in BOOLEAN /\ targets \in Nat /\ cases \in Nat
  /\ stats \in [Levels -> Nat] /\ finalReplay \in BOOLEAN
  /\ left \in [0 .. MaxDepth -> [Cells -> Nat]]
  /\ touched \in [0 .. MaxDepth -> SUBSET (Drawn \cup {Clock})]
  /\ own \in [Levels -> [Published -> Nat]]

Init ==
  /\ depth = 0 /\ started = 0 /\ collecting \in BOOLEAN
  /\ run = [d \in Levels |-> 0] /\ phase = [d \in Levels |-> "called"]
  /\ cells = NobodyIn(Cells) /\ saved = [d \in Levels |-> NobodyIn(Cells)]
  /\ published = NobodyIn(Published)
  /\ result = [d \in Levels |-> NobodyIn(Published)]
  /\ active = FALSE /\ targets = 0 /\ cases = 0 /\ stats = [d \in Levels |-> 0]
  /\ finalReplay = FALSE
  /\ left = [d \in 0 .. MaxDepth |-> NobodyIn(Cells)]
  /\ touched = [d \in 0 .. MaxDepth |-> {}]
  /\ own = [d \in Levels |-> NobodyIn(Published)]

-----------------------------------------------------------------------------

In(p) == depth > 0 /\ phase[depth] = p
Move(p) == phase' = [phase EXCEPT ![depth] = p]

\* The user's code runs: outside any run, in a body or while drawing.
UserCode == depth = 0 \/ In("drawing") \/ In("body") \/ In("replay")
                      \/ In("reproducing")

\* Collecting statistics, the wrapper replaces the clock of whoever is there.
ClockIfCollecting == IF collecting THEN {Clock} ELSE {}

\* The wrapper prepares a run.
Call ==
  /\ UserCode /\ depth < MaxDepth /\ started < MaxRuns
  /\ depth' = depth + 1 /\ started' = started + 1
  /\ run' = [run EXCEPT ![depth + 1] = started + 1]
  /\ phase' = [phase EXCEPT ![depth + 1] = "called"]
  /\ targets' = started + 1
  /\ cases' = IF collecting THEN started + 1 ELSE cases
  /\ cells' = IF collecting THEN [cells EXCEPT ![Clock] = started + 1] ELSE cells
  /\ active' = TRUE
  /\ left' = [left EXCEPT ![depth + 1] = left[depth]]
  /\ LET t == touched[depth] \cup ClockIfCollecting
     IN touched' = [touched EXCEPT ![depth] = t, ![depth + 1] = t]
  /\ UNCHANGED <<collecting, saved, published, result, stats, finalReplay, own>>

\* @reproduce_failure: the wrapper replays one example, and starts no run.
CallReproduce ==
  /\ UserCode /\ depth < MaxDepth /\ started < MaxRuns
  /\ depth' = depth + 1 /\ started' = started + 1
  /\ run' = [run EXCEPT ![depth + 1] = started + 1]
  /\ phase' = [phase EXCEPT ![depth + 1] = "reproducing"]
  /\ left' = [left EXCEPT ![depth + 1] = left[depth]]
  /\ touched' = [touched EXCEPT ![depth + 1] = touched[depth]]
  /\ UNCHANGED <<collecting, engine, python, own>>

\* RunNativeGuard::snapshot, what the guard keeps for the outer run ...
SnapshotOfCopied == [c \in Cells |-> IF c \in Taken THEN 0 ELSE cells[c]]
Snapshot == cells

\* ... and what the new run finds, once run_native has set SLIP_ENABLED.
Fresh(r) ==
  [c \in Cells |-> IF c \in Taken THEN 0
                   ELSE IF c = SlipEnabled THEN r ELSE cells[c]]

Enter ==
  /\ In("called")
  /\ saved' = [saved EXCEPT ![depth] = Snapshot]
  /\ cells' = Fresh(run[depth])
  /\ left' = [left EXCEPT ![depth] = Fresh(run[depth])]
  /\ touched' = [touched EXCEPT ![depth] = {}]
  /\ Move("drawing")
  /\ UNCHANGED <<depth, started, collecting, run, published, python, own>>

\* The run records, caches or consumes something.
Write(c, v) ==
  /\ In("drawing") \/ In("body")
  /\ c # Clock /\ v \in {0, run[depth]}
  /\ cells' = [cells EXCEPT ![c] = v]
  /\ left' = [left EXCEPT ![depth][c] = v]
  /\ touched' = [touched EXCEPT ![depth] = @ \ {c}]
  /\ UNCHANGED <<levels, saved, published, python, own>>

\* reproduce_native draws: the cells are those of the run outside.
DrawUnguarded(c) ==
  /\ In("replay") \/ In("reproducing")
  /\ c \in Drawn
  /\ cells' = [cells EXCEPT ![c] = run[depth]]
  /\ touched' = [touched EXCEPT ![depth] = @ \cup {c}]
  /\ UNCHANGED <<levels, saved, published, python, left, own>>

StartBody == In("drawing") /\ Move("body")
             /\ UNCHANGED <<depth, started, collecting, run, engine, python, history>>
EndBody == In("body") /\ Move("drawing")
           /\ UNCHANGED <<depth, started, collecting, run, engine, python, history>>

\* Drop of the guard, on a return as on an error: publish, then restore.
PublishedAfterRestore == [c \in Published |-> saved[depth][c]]
PublishedByDrop == [c \in Published |-> cells[c]]

Leave ==
  /\ In("drawing")
  /\ published' = PublishedByDrop
  /\ own' = [own EXCEPT ![depth] = [c \in Published |-> cells[c]]]
  /\ cells' = saved[depth]
  /\ left' = [left EXCEPT ![depth] = left[depth - 1]]
  /\ touched' = [touched EXCEPT ![depth] = touched[depth - 1]]
  /\ Move("left")
  /\ UNCHANGED <<depth, started, collecting, run, saved, python>>

\* The finally block around run_native.
ClockKept == cells
ClockOff == IF collecting THEN [cells EXCEPT ![Clock] = 0] ELSE cells

Finally ==
  /\ In("left")
  /\ active' = FALSE
  /\ cells' = ClockOff
  /\ touched' = [touched EXCEPT ![depth] = @ \cup ClockIfCollecting]
  /\ targets' = 0
  /\ IF collecting
       THEN stats' = [stats EXCEPT ![depth] = cases] /\ cases' = 0
       ELSE UNCHANGED <<stats, cases>>
  /\ Move("returned")
  /\ UNCHANGED <<depth, started, collecting, run, saved, published, result,
                 finalReplay, left, own>>

\* A failure to report: read the published results, then replay the example.
Report ==
  /\ In("returned")
  /\ result' = [result EXCEPT ![depth] = published]
  /\ finalReplay' = TRUE
  /\ Move("replay")
  /\ UNCHANGED <<depth, started, collecting, run, engine, active, targets,
                 cases, stats, history>>

EndReplay ==
  /\ In("replay")
  /\ finalReplay' = FALSE
  /\ Move("push")
  /\ UNCHANGED <<depth, started, collecting, run, engine, result, active,
                 targets, cases, stats, history>>

\* No failure, or run_native raised.
NoReport ==
  /\ In("returned") /\ Move("push")
  /\ UNCHANGED <<depth, started, collecting, run, engine, python, history>>

\* The statistics are pushed and the wrapper returns to the user's code.
Return ==
  /\ In("push") \/ In("reproducing")
  /\ depth' = depth - 1
  /\ run' = [run EXCEPT ![depth] = 0] /\ phase' = [phase EXCEPT ![depth] = "called"]
  /\ saved' = [saved EXCEPT ![depth] = NobodyIn(Cells)]
  /\ result' = [result EXCEPT ![depth] = NobodyIn(Published)]
  /\ stats' = [stats EXCEPT ![depth] = 0]
  /\ left' = [left EXCEPT ![depth] = NobodyIn(Cells)]
  /\ touched' = [touched EXCEPT ![depth - 1] = touched[depth], ![depth] = {}]
  /\ own' = [own EXCEPT ![depth] = NobodyIn(Published)]
  /\ UNCHANGED <<started, collecting, cells, published, active, targets, cases,
                 finalReplay>>

Next ==
  \/ Call \/ CallReproduce \/ Enter \/ StartBody \/ EndBody \/ Leave \/ Finally
  \/ Report \/ EndReplay \/ NoReport \/ Return
  \/ \E c \in Cells, v \in 0 .. MaxRuns : Write(c, v)
  \/ \E c \in Drawn : DrawUnguarded(c)

Spec == Init /\ [][Next]_vars

-----------------------------------------------------------------------------
(* Properties                                                              *)

(* However many runs were nested in the meantime, whoever is in control -  *)
(* a run, or the code outside any run - finds the engine's working state   *)
(* as it left it.  Only what reproduce_native drew over it (the draw time, *)
(* the caches) and the clock that a wrapper replaced may differ, and those *)
(* only where that has happened since: the guard itself loses nothing.     *)
Undisturbed ==
  \A c \in Cells :
    cells[c] = left[depth][c] \/ c \in touched[depth] \cap (Drawn \cup {Clock})

(* The shrink report and the minimal choices a wrapper reports are those   *)
(* of its own run, never those of a run nested in it or before it.         *)
ResultIsOwn == In("replay") => result[depth] = own[depth]

(* Once the outermost wrapper has returned, nothing is left behind: no     *)
(* flag is set, no target or case is collected, no clock is replaced.      *)
Quiet == ~active /\ targets = 0 /\ cases = 0 /\ cells[Clock] = 0
NothingLeaks == depth = 0 => Quiet /\ ~finalReplay

(* "Must still emit one statistics record": the cases a wrapper pushes are *)
(* those of its own run.                                                   *)
StatisticsPushed == In("push") /\ collecting => stats[depth] = run[depth]
=============================================================================
