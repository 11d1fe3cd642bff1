-------------------------- MODULE NestedRuns_proofs -------------------------
(***************************************************************************)
(* Proofs about NestedRuns: however deep and however often runs nest, and  *)
(* whatever thread-locals the guard takes and copies.                      *)
(***************************************************************************)
EXTENDS NestedRuns, TLAPS

(* Two contents of the cells that differ only where somebody wrote past    *)
(* the guard.                                                              *)
Agree(f, g, T) == \A c \in Cells : f[c] = g[c] \/ c \in T

(* While a run is inside its guard, the guard holds what the run outside   *)
(* it left; before and after, the run has nothing of its own, and what is  *)
(* written then past the guard is written over the run outside.            *)
GuardOf(d) ==
  IF phase[d] \in {"drawing", "body"}
    THEN Agree(saved[d], left[d - 1], touched[d - 1])
    ELSE /\ left[d] = left[d - 1] /\ touched[d - 1] \subseteq touched[d]
         /\ phase[d] = "called" => touched[d] = touched[d - 1]
GuardHolds == \A d \in 1 .. depth : GuardOf(d)

(* A run with another one inside it is suspended in the user's code.       *)
Calling == {"drawing", "body", "replay", "reproducing"}
Suspended == \A d \in 1 .. depth - 1 : phase[d] \in Calling

(* Between the end of a run and its wrapper's reading of them, and in that *)
(* wrapper from then on, the published results are those of the run.       *)
ResultsKept ==
  /\ depth > 0 /\ phase[depth] \in {"left", "returned"} => published = own[depth]
  /\ \A d \in 1 .. depth : phase[d] = "replay" => result[d] = own[d]

(* With no wrapper before its finally block the flags are clear; a thread  *)
(* without a collector never sets the clock or collects a case.            *)
Past == {"returned", "replay", "push", "reproducing"}
NoClock == cells[Clock] = 0 /\ cases = 0 /\ \A d \in Levels : saved[d][Clock] = 0
FlagsClear ==
  /\ (\A d \in 1 .. depth : phase[d] \in Past) => Quiet
  /\ ~collecting => NoClock
  /\ finalReplay => \E d \in 1 .. depth : phase[d] = "replay"

(* The inductive invariant.                                                *)
IInv == TypeOK /\ Undisturbed /\ GuardHolds /\ Suspended /\ ResultsKept /\ FlagsClear

-----------------------------------------------------------------------------

(* The invariant holds before any run has started.                         *)
LEMMA InitIInv == Init => IInv
<1>. SUFFICES ASSUME Init PROVE IInv
  OBVIOUS
<1>1. TypeOK
  <2>1. NobodyIn(Cells) \in [Cells -> Nat] /\ NobodyIn(Published) \in [Published -> Nat]
    BY DEF NobodyIn
  <2>2. /\ run \in [Levels -> Nat] /\ phase \in [Levels -> Phases]
        /\ stats \in [Levels -> Nat]
    BY DEF Init, Phases
  <2>3. saved \in [Levels -> [Cells -> Nat]] /\ left \in [0 .. MaxDepth -> [Cells -> Nat]]
    BY <2>1 DEF Init
  <2>4. result \in [Levels -> [Published -> Nat]] /\ own \in [Levels -> [Published -> Nat]]
    BY <2>1 DEF Init
  <2>5. touched \in [0 .. MaxDepth -> SUBSET (Drawn \cup {Clock})]
    BY DEF Init
  <2>6. depth \in 0 .. MaxDepth /\ started \in Nat /\ targets \in Nat /\ cases \in Nat
    BY BoundsAssumption DEF Init
  <2>7. collecting \in BOOLEAN /\ active \in BOOLEAN /\ finalReplay \in BOOLEAN
    BY DEF Init
  <2>8. cells \in [Cells -> Nat] /\ published \in [Published -> Nat]
    BY <2>1 DEF Init
  <2>. QED  BY <2>2, <2>3, <2>4, <2>5, <2>6, <2>7, <2>8 DEF TypeOK
<1>2. Undisturbed
  BY BoundsAssumption DEF Init, Undisturbed
<1>3. GuardHolds /\ Suspended /\ ResultsKept
  BY DEF Init, GuardHolds, Suspended, ResultsKept
<1>4. FlagsClear
  BY CellsAssumption DEF Init, FlagsClear, NoClock, Quiet, NobodyIn, Cells
<1>. QED  BY <1>1, <1>2, <1>3, <1>4 DEF IInv

(* The level in control is one of the levels.                              *)
LEMMA DepthInLevels ==
  ASSUME TypeOK, depth > 0
  PROVE  depth \in Levels
BY BoundsAssumption DEF TypeOK, Levels

(* So is the one a new run gets.                                           *)
LEMMA NextDepthInLevels ==
  ASSUME TypeOK, depth < MaxDepth
  PROVE  depth + 1 \in Levels /\ depth + 1 \in 0 .. MaxDepth
BY BoundsAssumption DEF TypeOK, Levels

(* Every step keeps the variables in their types.                          *)
LEMMA StepTypeOK ==
  ASSUME TypeOK, [Next]_vars
  PROVE  TypeOK'
<1>. USE DEF TypeOK, Phases, levels, engine, python, history, In, Move
<1>0. depth \in Nat /\ depth <= MaxDepth /\ 0 \in Nat /\ MaxDepth \in Nat
  BY BoundsAssumption
<1>1. CASE Call
  <2>1. depth + 1 \in Levels /\ depth + 1 \in 0 .. MaxDepth
    BY <1>1, NextDepthInLevels DEF Call
  <2>2. started + 1 \in Nat /\ depth \in 0 .. MaxDepth
    OBVIOUS
  <2>3. run' \in [Levels -> Nat] /\ phase' \in [Levels -> Phases]
    BY <1>1, <2>1, <2>2 DEF Call
  <2>4. left' \in [0 .. MaxDepth -> [Cells -> Nat]]
    BY <1>1, <2>1, <2>2 DEF Call
  <2>5. active' \in BOOLEAN /\ cases' \in Nat /\ targets' \in Nat
    BY <1>1, <2>2 DEF Call
  <2>6. UNCHANGED <<collecting, saved, published, result,
                    stats, finalReplay, own>> /\ depth' = depth + 1 /\ started' = started + 1
    BY <1>1 DEF Call
  <2>7. cells' \in [Cells -> Nat]
    BY <1>1, <2>2 DEF Call
  <2>8. touched' \in [0 .. MaxDepth -> SUBSET (Drawn \cup {Clock})]
    <3>1. touched[depth] \cup ClockIfCollecting \in SUBSET (Drawn \cup {Clock})
      BY <2>2 DEF ClockIfCollecting
    <3>. QED  BY <1>1, <2>1, <2>2, <3>1 DEF Call
  <2>. QED  BY <2>1, <2>2, <2>3, <2>4, <2>5, <2>6, <2>7, <2>8 DEF Levels
<1>1a. CASE CallReproduce
  <2>1. depth + 1 \in Levels /\ depth + 1 \in 0 .. MaxDepth
    BY <1>1a, NextDepthInLevels DEF CallReproduce
  <2>2. started + 1 \in Nat /\ depth \in 0 .. MaxDepth
    OBVIOUS
  <2>3. run' \in [Levels -> Nat] /\ phase' \in [Levels -> Phases]
    BY <1>1a, <2>1, <2>2 DEF CallReproduce
  <2>4. /\ left' \in [0 .. MaxDepth -> [Cells -> Nat]]
        /\ touched' \in [0 .. MaxDepth -> SUBSET (Drawn \cup {Clock})]
    BY <1>1a, <2>1, <2>2 DEF CallReproduce
  <2>5. /\ UNCHANGED <<collecting, engine, python, own>>
        /\ depth' = depth + 1 /\ started' = started + 1
    BY <1>1a DEF CallReproduce
  <2>. QED  BY <2>1, <2>2, <2>3, <2>4, <2>5 DEF Levels
<1>2. CASE Enter
  <2>1. depth \in Levels /\ depth \in 0 .. MaxDepth
    BY <1>2, DepthInLevels DEF Enter
  <2>2. run[depth] \in Nat /\ Fresh(run[depth]) \in [Cells -> Nat]
    BY <1>0, <2>1 DEF Fresh
  <2>3. saved' \in [Levels -> [Cells -> Nat]]
    BY <1>2, <2>1 DEF Enter, Snapshot
  <2>4. touched' \in [0 .. MaxDepth -> SUBSET (Drawn \cup {Clock})]
    BY <1>2, <2>1 DEF Enter
  <2>5. cells' \in [Cells -> Nat] /\ left' \in [0 .. MaxDepth -> [Cells -> Nat]]
    BY <1>2, <2>1, <2>2 DEF Enter
  <2>6. phase' \in [Levels -> Phases]
    BY <1>2, <2>1 DEF Enter
  <2>. QED  BY <1>2, <2>3, <2>4, <2>5, <2>6 DEF Enter
<1>3. CASE StartBody  BY <1>3 DEF StartBody
<1>4. CASE EndBody  BY <1>4 DEF EndBody
<1>5. CASE Leave
  <2>1. depth \in Levels /\ depth \in 0 .. MaxDepth /\ depth - 1 \in 0 .. MaxDepth
    BY <1>0, <1>5, DepthInLevels DEF Leave
  <2>2. [c \in Published |-> cells[c]] \in [Published -> Nat]
    BY CellsAssumption DEF Cells
  <2>3. own' \in [Levels -> [Published -> Nat]] /\ published' \in [Published -> Nat]
    BY <1>5, <2>1, <2>2 DEF Leave, PublishedByDrop
  <2>4. cells' \in [Cells -> Nat]
    BY <1>5, <2>1 DEF Leave
  <2>5. /\ left' \in [0 .. MaxDepth -> [Cells -> Nat]]
        /\ touched' \in [0 .. MaxDepth -> SUBSET (Drawn \cup {Clock})]
    BY <1>5, <2>1 DEF Leave
  <2>6. phase' \in [Levels -> Phases]
    BY <1>5, <2>1 DEF Leave
  <2>. QED  BY <1>5, <2>3, <2>4, <2>5, <2>6 DEF Leave
<1>6. CASE Finally
  <2>1. depth \in Levels
    BY <1>6, DepthInLevels DEF Finally
  <2>2. stats' \in [Levels -> Nat] /\ cases' \in Nat
    <3>1. CASE collecting
      BY <1>6, <2>1, <3>1 DEF Finally
    <3>2. CASE ~collecting
      BY <1>6, <3>2 DEF Finally
    <3>. QED  BY <3>1, <3>2
  <2>3. phase' \in [Levels -> Phases]
    BY <1>6, <2>1 DEF Finally
  <2>4. cells' \in [Cells -> Nat]
    BY <1>0, <1>6 DEF Finally, ClockOff
  <2>5. touched' \in [0 .. MaxDepth -> SUBSET (Drawn \cup {Clock})]
    <3>1. touched[depth] \cup ClockIfCollecting \in SUBSET (Drawn \cup {Clock})
      BY DEF ClockIfCollecting
    <3>. QED  BY <1>6, <3>1 DEF Finally
  <2>. QED  BY <1>6, <2>2, <2>3, <2>4, <2>5 DEF Finally
<1>7. CASE Report  BY <1>7 DEF Report
<1>8. CASE EndReplay  BY <1>8 DEF EndReplay
<1>9. CASE NoReport  BY <1>9 DEF NoReport
<1>10. CASE Return
  <2>1. depth \in Levels /\ depth \in 0 .. MaxDepth /\ depth - 1 \in 0 .. MaxDepth
    BY <1>0, <1>10, DepthInLevels DEF Return
  <2>2. run' \in [Levels -> Nat] /\ phase' \in [Levels -> Phases]
    BY <1>10, <2>1 DEF Return
  <2>3. NobodyIn(Cells) \in [Cells -> Nat] /\ NobodyIn(Published) \in [Published -> Nat]
    BY DEF NobodyIn
  <2>4. saved' \in [Levels -> [Cells -> Nat]] /\ left' \in [0 .. MaxDepth -> [Cells -> Nat]]
    BY <1>10, <2>1, <2>3 DEF Return
  <2>5. result' \in [Levels -> [Published -> Nat]] /\ own' \in [Levels -> [Published -> Nat]]
    BY <1>10, <2>1, <2>3 DEF Return
  <2>6. touched' \in [0 .. MaxDepth -> SUBSET (Drawn \cup {Clock})]
    BY <1>10, <2>1 DEF Return
  <2>7. stats' \in [Levels -> Nat]
    BY <1>10, <2>1 DEF Return
  <2>. QED  BY <1>10, <2>1, <2>2, <2>4, <2>5, <2>6, <2>7 DEF Return
<1>11. ASSUME NEW c \in Cells, NEW v \in 0 .. MaxRuns, Write(c, v)
       PROVE  TypeOK'
  <2>1. cells' \in [Cells -> Nat] /\ left' \in [0 .. MaxDepth -> [Cells -> Nat]]
    <3>1. v \in Nat /\ depth \in 0 .. MaxDepth
      BY <1>0
    <3>2. [left[depth] EXCEPT ![c] = v] \in [Cells -> Nat]
      BY <3>1
    <3>. QED  BY <1>11, <3>1, <3>2 DEF Write
  <2>2. touched' \in [0 .. MaxDepth -> SUBSET (Drawn \cup {Clock})]
    BY <1>11 DEF Write
  <2>. QED  BY <1>11, <2>1, <2>2 DEF Write
<1>11a. ASSUME NEW c \in Drawn, DrawUnguarded(c)
        PROVE  TypeOK'
  <2>1. depth \in Levels
    BY <1>11a, DepthInLevels DEF DrawUnguarded
  <2>2. run[depth] \in Nat
    BY <2>1
  <2>3. cells' \in [Cells -> Nat]
    BY <1>11a, <2>2 DEF DrawUnguarded
  <2>4. touched' \in [0 .. MaxDepth -> SUBSET (Drawn \cup {Clock})]
    BY <1>11a DEF DrawUnguarded
  <2>. QED  BY <1>11a, <2>3, <2>4 DEF DrawUnguarded
<1>12. CASE UNCHANGED vars  BY <1>12 DEF vars
<1>. QED  BY <1>1, <1>1a, <1>2, <1>3, <1>4, <1>5, <1>6, <1>7, <1>8, <1>9, <1>10,
             <1>11, <1>11a, <1>12 DEF Next

-----------------------------------------------------------------------------

(* A step moves one level at most: it starts a run, or ends one, or moves  *)
(* the run in control, and touches nothing of the levels below.            *)
LEMMA OneLevelMoves ==
  ASSUME TypeOK, [Next]_vars
  PROVE  /\ depth' \in {depth - 1, depth, depth + 1} /\ depth' \in 0 .. MaxDepth
         /\ \A d \in 1 .. depth - 1 :
              /\ phase'[d] = phase[d] /\ saved'[d] = saved[d]
              /\ result'[d] = result[d] /\ own'[d] = own[d]
         /\ \A d \in 0 .. depth - 1 : left'[d] = left[d]
         /\ \A d \in 0 .. depth - 1 :
              touched'[d] = IF Return /\ d = depth - 1 THEN touched[depth] ELSE touched[d]
<1>0. depth \in Nat /\ depth <= MaxDepth /\ MaxDepth \in Nat
  BY BoundsAssumption DEF TypeOK
<1>1. ASSUME NEW d \in 1 .. depth - 1
      PROVE  /\ phase'[d] = phase[d] /\ saved'[d] = saved[d]
             /\ result'[d] = result[d] /\ own'[d] = own[d]
  <2>0. d \in Levels /\ d # depth /\ d # depth + 1
    BY <1>0 DEF Levels
  <2>. USE DEF TypeOK, Move, levels, engine, python, history
  <2>1. CASE Call  BY <2>0, <2>1 DEF Call
  <2>1a. CASE CallReproduce  BY <2>0, <2>1a DEF CallReproduce
  <2>1b. CASE \E c \in Drawn : DrawUnguarded(c)  BY <2>1b DEF DrawUnguarded
  <2>2. CASE Enter  BY <2>0, <2>2 DEF Enter
  <2>3. CASE StartBody \/ EndBody  BY <2>0, <2>3 DEF StartBody, EndBody
  <2>4. CASE Leave  BY <2>0, <2>4 DEF Leave
  <2>5. CASE Finally  BY <2>0, <2>5 DEF Finally
  <2>6. CASE Report  BY <2>0, <2>6 DEF Report
  <2>7. CASE EndReplay \/ NoReport  BY <2>0, <2>7 DEF EndReplay, NoReport
  <2>8. CASE Return  BY <2>0, <2>8 DEF Return
  <2>9. CASE \E c \in Cells, v \in 0 .. MaxRuns : Write(c, v)  BY <2>9 DEF Write
  <2>10. CASE UNCHANGED vars  BY <2>10 DEF vars
  <2>. QED  BY <2>1, <2>1a, <2>1b, <2>2, <2>3, <2>4, <2>5, <2>6, <2>7, <2>8, <2>9,
               <2>10 DEF Next
<1>2. ASSUME NEW d \in 0 .. depth - 1
      PROVE  /\ left'[d] = left[d]
             /\ touched'[d] = IF Return /\ d = depth - 1 THEN touched[depth]
                                                         ELSE touched[d]
  <2>0. d \in 0 .. MaxDepth /\ d # depth /\ d # depth + 1
    BY <1>0
  <2>. USE DEF TypeOK, levels, engine, python, history
  <2>a. CASE ~Return
    <3>. SUFFICES left'[d] = left[d] /\ touched'[d] = touched[d]
      BY <2>a
    <3>1. CASE Call  BY <2>0, <3>1 DEF Call
    <3>2. CASE CallReproduce  BY <2>0, <3>2 DEF CallReproduce
    <3>3. CASE Enter  BY <2>0, <3>3 DEF Enter
    <3>4. CASE Leave  BY <2>0, <3>4 DEF Leave
    <3>5. CASE \E c \in Cells, v \in 0 .. MaxRuns : Write(c, v)
      BY <2>0, <3>5 DEF Write
    <3>6. CASE \E c \in Drawn : DrawUnguarded(c)
      BY <2>0, <3>6 DEF DrawUnguarded
    <3>7. CASE Finally  BY <2>0, <3>7 DEF Finally
    <3>8. CASE StartBody \/ EndBody \/ Report \/ EndReplay \/ NoReport
      BY <3>8 DEF StartBody, EndBody, Report, EndReplay, NoReport
    <3>9. CASE UNCHANGED vars  BY <3>9 DEF vars
    <3>. QED  BY <2>a, <3>1, <3>2, <3>3, <3>4, <3>5, <3>6, <3>7, <3>8, <3>9 DEF Next
  <2>b. CASE Return
    <3>1. left'[d] = left[d]
      BY <2>0, <2>b DEF Return
    <3>2. touched' = [touched EXCEPT ![depth - 1] = touched[depth], ![depth] = {}]
      BY <2>b DEF Return
    <3>3. CASE d = depth - 1  BY <2>0, <2>b, <3>1, <3>2, <3>3
    <3>4. CASE d # depth - 1  BY <2>0, <2>b, <3>1, <3>2, <3>4
    <3>. QED  BY <3>3, <3>4
  <2>. QED  BY <2>a, <2>b
<1>3. depth' \in {depth - 1, depth, depth + 1} /\ depth' \in 0 .. MaxDepth
  BY <1>0, StepTypeOK
     DEF Next, Call, CallReproduce, Enter, StartBody, EndBody, Leave, Finally,
         Report, EndReplay, NoReport, Return, Write, DrawUnguarded, vars, levels,
         TypeOK
<1>. QED  BY <1>1, <1>2, <1>3

(* A level is added only by a wrapper that is called.                      *)
LEMMA OnlyCallsNest ==
  ASSUME TypeOK, [Next]_vars, depth' = depth + 1
  PROVE  Call \/ CallReproduce
<1>1. depth \in Nat
  BY BoundsAssumption DEF TypeOK
<1>. QED  BY <1>1 DEF Next, Enter, StartBody, EndBody, Leave, Finally, Report, EndReplay,
              NoReport, Return, Write, DrawUnguarded, vars, levels

(* The state Undisturbed speaks of, in the words of GuardOf.               *)
LEMMA UndisturbedAgrees ==
  ASSUME TypeOK
  PROVE  Undisturbed <=> Agree(cells, left[depth], touched[depth])
<1>1. touched[depth] \subseteq Drawn \cup {Clock}
  BY DEF TypeOK
<1>. QED  BY <1>1 DEF Undisturbed, Agree

(* Leaving a run, and returning from its wrapper, gives the cells back.    *)
LEMMA StepUndisturbed ==
  ASSUME TypeOK, TypeOK', Undisturbed, GuardHolds, [Next]_vars
  PROVE  Undisturbed'
<1>0. depth \in 0 .. MaxDepth /\ depth - 1 # depth /\ depth + 1 # depth
  BY DEF TypeOK
<1>1. Agree(cells, left[depth], touched[depth])
  BY UndisturbedAgrees
<1>2. SUFFICES Agree(cells', left'[depth'], touched'[depth'])
  <2>1. touched'[depth'] \subseteq Drawn \cup {Clock}
    BY DEF TypeOK
  <2>. QED  BY <1>2, <2>1 DEF Undisturbed, Agree
<1>. USE DEF TypeOK, levels, engine, history
<1>3. CASE Call
  <2>1. depth + 1 \in 0 .. MaxDepth
    BY <1>3, NextDepthInLevels DEF Call
  <2>2. /\ left'[depth + 1] = left[depth]
        /\ touched'[depth + 1] = touched[depth] \cup ClockIfCollecting
        /\ depth' = depth + 1
    BY <1>0, <1>3, <2>1 DEF Call
  <2>3. \A c \in Cells : cells'[c] = cells[c] \/ c \in ClockIfCollecting
    BY <1>3 DEF Call, ClockIfCollecting
  <2>. QED  BY <1>1, <2>2, <2>3 DEF Agree
<1>3a. CASE CallReproduce
  <2>1. depth + 1 \in 0 .. MaxDepth
    BY <1>3a, NextDepthInLevels DEF CallReproduce
  <2>. QED  BY <1>0, <1>1, <1>3a, <2>1 DEF CallReproduce, Agree
<1>4. CASE Enter
  BY <1>0, <1>4 DEF Enter, Agree
<1>5. CASE Leave
  <2>1. depth \in 1 .. depth /\ phase[depth] = "drawing"
    BY <1>0, <1>5 DEF Leave, In
  <2>2. Agree(saved[depth], left[depth - 1], touched[depth - 1])
    BY <2>1 DEF GuardHolds, GuardOf
  <2>3. /\ cells' = saved[depth] /\ left'[depth] = left[depth - 1]
        /\ touched'[depth] = touched[depth - 1] /\ depth' = depth
    BY <1>0, <1>5 DEF Leave
  <2>. QED  BY <2>2, <2>3
<1>6. CASE Return
  <2>1. depth \in 1 .. depth /\ phase[depth] \notin {"drawing", "body"}
        /\ depth - 1 \in 0 .. depth - 1
    BY <1>0, <1>6 DEF Return, In
  <2>2. left[depth] = left[depth - 1]
    BY <2>1 DEF GuardHolds, GuardOf
  <2>3. left'[depth - 1] = left[depth - 1] /\ touched'[depth - 1] = touched[depth]
    BY <1>6, <2>1, OneLevelMoves
  <2>. QED  BY <1>1, <1>6, <2>2, <2>3 DEF Return
<1>7. ASSUME NEW c \in Cells, NEW v \in 0 .. MaxRuns, Write(c, v)
      PROVE  Agree(cells', left'[depth'], touched'[depth'])
  <2>1. /\ cells' = [cells EXCEPT ![c] = v] /\ depth' = depth
        /\ left'[depth] = [left[depth] EXCEPT ![c] = v]
        /\ touched'[depth] = touched[depth] \ {c}
    BY <1>0, <1>7 DEF Write
  <2>. QED  BY <1>0, <1>1, <2>1 DEF Agree
<1>8. ASSUME NEW c \in Drawn, DrawUnguarded(c)
      PROVE  Agree(cells', left'[depth'], touched'[depth'])
  <2>1. /\ cells' = [cells EXCEPT ![c] = run[depth]] /\ depth' = depth
        /\ left' = left /\ touched'[depth] = touched[depth] \cup {c}
    BY <1>0, <1>8 DEF DrawUnguarded
  <2>. QED  BY <1>1, <2>1 DEF Agree
<1>9. CASE Finally
  <2>1. /\ depth' = depth /\ left' = left
        /\ touched'[depth] = touched[depth] \cup ClockIfCollecting
    BY <1>0, <1>9 DEF Finally
  <2>2. \A c \in Cells : cells'[c] = cells[c] \/ c \in ClockIfCollecting
    BY <1>9 DEF Finally, ClockOff, ClockIfCollecting
  <2>. QED  BY <1>1, <2>1, <2>2 DEF Agree
<1>10. CASE StartBody \/ EndBody \/ Report \/ EndReplay \/ NoReport
  BY <1>1, <1>10 DEF StartBody, EndBody, Report, EndReplay, NoReport
<1>11. CASE UNCHANGED vars
  BY <1>1, <1>11 DEF vars
<1>. QED  BY <1>3, <1>3a, <1>4, <1>5, <1>6, <1>7, <1>8, <1>9, <1>10, <1>11 DEF Next

(* A guard is filled with what the run outside left, and stays so.         *)
LEMMA StepGuardHolds ==
  ASSUME TypeOK, Undisturbed, GuardHolds, Suspended, [Next]_vars
  PROVE  GuardHolds'
<1>0. depth \in 0 .. MaxDepth /\ MaxDepth \in Nat
  BY BoundsAssumption DEF TypeOK
<1>a. Agree(cells, left[depth], touched[depth])
  BY UndisturbedAgrees
<1>1. ASSUME NEW d \in 1 .. depth - 1, d # depth - 1 \/ ~Return
      PROVE  GuardOf(d)'
  <2>1. GuardOf(d)
    BY <1>0 DEF GuardHolds
  <2>2. d - 1 \in 0 .. depth - 1 /\ d \in 0 .. depth - 1 /\ d - 1 # depth - 1
    BY <1>0
  <2>3. /\ left'[d] = left[d] /\ left'[d - 1] = left[d - 1] /\ saved'[d] = saved[d]
        /\ touched'[d] = touched[d] /\ touched'[d - 1] = touched[d - 1]
        /\ phase'[d] = phase[d]
    BY <1>1, <2>2, OneLevelMoves
  <2>. QED  BY <2>1, <2>3 DEF GuardOf, Agree
<1>1a. ASSUME Return, NEW d \in 1 .. depth - 1, d = depth - 1
       PROVE  GuardOf(d)'
  <2>1. GuardOf(d) /\ GuardOf(depth) /\ phase[d] \in Calling
    BY <1>0 DEF GuardHolds, Suspended
  <2>2. d - 1 \in 0 .. depth - 1 /\ d \in 0 .. depth - 1 /\ d - 1 # depth - 1
    BY <1>0, <1>1a
  <2>3. /\ left'[d] = left[d] /\ left'[d - 1] = left[d - 1] /\ saved'[d] = saved[d]
        /\ touched'[d] = touched[depth] /\ touched'[d - 1] = touched[d - 1]
        /\ phase'[d] = phase[d]
    BY <1>1a, <2>2, OneLevelMoves
  <2>4. touched[d] \subseteq touched[depth]
    BY <1>1a, <2>1 DEF Return, In, GuardOf
  <2>. QED  BY <2>1, <2>3, <2>4 DEF GuardOf, Agree, Calling
<1>2. ASSUME NEW d, d = depth, d > 0, depth' >= d
      PROVE  GuardOf(d)'
  <2>0. d \in Levels /\ d \in 1 .. depth /\ d \in 0 .. MaxDepth /\ d - 1 \in 0 .. depth - 1
    BY <1>0, <1>2, DepthInLevels
  <2>1. GuardOf(d)
    BY <1>2, <2>0 DEF GuardHolds
  <2>a. ~Return
    BY <1>0, <1>2 DEF Return
  <2>2. left'[d - 1] = left[d - 1] /\ touched'[d - 1] = touched[d - 1]
    BY <1>2, <2>0, <2>a, OneLevelMoves
  <2>b. d + 1 # d
    BY <1>0, <1>2
  <2>. USE DEF TypeOK, In, Move, levels, engine, history, GuardOf, Agree
  <2>3. CASE Call
    <3>1. d + 1 \in 0 .. MaxDepth /\ phase[d] # "called"
      BY <1>2, <2>3, NextDepthInLevels DEF Call, UserCode
    <3>2. /\ phase'[d] = phase[d] /\ saved'[d] = saved[d] /\ left'[d] = left[d]
          /\ touched[d] \subseteq touched'[d]
      BY <1>2, <2>0, <2>b, <2>3, <3>1 DEF Call
    <3>. QED  BY <2>1, <2>2, <3>1, <3>2
  <2>3a. CASE CallReproduce
    <3>1. /\ phase'[d] = phase[d] /\ saved'[d] = saved[d] /\ left'[d] = left[d]
          /\ touched'[d] = touched[d]
      BY <1>2, <2>0, <2>b, <2>3a DEF CallReproduce
    <3>. QED  BY <2>1, <2>2, <3>1
  <2>4. CASE Enter
    <3>1. left[d] = left[d - 1] /\ touched[d] = touched[d - 1]
      BY <1>2, <2>1, <2>4 DEF Enter
    <3>2. saved'[d] = cells /\ phase'[d] = "drawing"
      BY <1>2, <2>0, <2>4 DEF Enter, Snapshot
    <3>. QED  BY <1>2, <1>a, <2>2, <3>1, <3>2
  <2>5. CASE Leave
    BY <1>2, <2>0, <2>2, <2>5 DEF Leave
  <2>6. ASSUME NEW c \in Cells, NEW v \in 0 .. MaxRuns, Write(c, v)
        PROVE  GuardOf(d)'
    BY <1>2, <2>0, <2>1, <2>2, <2>6 DEF Write
  <2>6a. ASSUME NEW c \in Drawn, DrawUnguarded(c)
         PROVE  GuardOf(d)'
    BY <1>2, <2>0, <2>1, <2>2, <2>6a DEF DrawUnguarded
  <2>7. CASE StartBody \/ EndBody
    BY <1>2, <2>0, <2>1, <2>2, <2>7 DEF StartBody, EndBody
  <2>8. CASE Finally
    BY <1>2, <2>0, <2>1, <2>2, <2>8 DEF Finally
  <2>8a. CASE Report \/ EndReplay \/ NoReport
    BY <1>2, <2>0, <2>1, <2>2, <2>8a DEF Report, EndReplay, NoReport
  <2>9. CASE UNCHANGED vars
    BY <1>2, <2>1, <2>9 DEF vars
  <2>. QED  BY <1>2, <2>a, <2>3, <2>3a, <2>4, <2>5, <2>6, <2>6a, <2>7, <2>8, <2>8a, <2>9
            DEF Next
<1>3. ASSUME NEW d, d = depth + 1, depth' = d
      PROVE  GuardOf(d)'
  <2>1. Call \/ CallReproduce
    BY <1>3, OnlyCallsNest
  <2>2. d \in Levels /\ d \in 0 .. MaxDepth /\ d - 1 = depth /\ d # depth
    BY <1>0, <1>3, <2>1, NextDepthInLevels DEF Call, CallReproduce
  <2>3. phase'[d] \in {"called", "reproducing"} /\ left'[d] = left[depth]
    BY <1>3, <2>1, <2>2 DEF Call, CallReproduce, TypeOK
  <2>4. left'[d - 1] = left[depth]
    BY <1>0, <1>3, <2>1, <2>2 DEF Call, CallReproduce, TypeOK
  <2>5. touched'[d] = touched'[d - 1]
    BY <1>0, <1>3, <2>1, <2>2 DEF Call, CallReproduce, TypeOK
  <2>. QED  BY <2>3, <2>4, <2>5 DEF GuardOf
<1>4. SUFFICES ASSUME NEW d \in 1 .. depth'
               PROVE  GuardOf(d)'
  BY DEF GuardHolds
<1>5. \/ d \in 1 .. depth - 1
      \/ d = depth /\ d > 0 /\ depth' >= d
      \/ d = depth + 1 /\ depth' = d
  <2>1. depth' \in {depth - 1, depth, depth + 1}
    BY OneLevelMoves
  <2>. QED  BY <1>0, <2>1
<1>. QED  BY <1>1, <1>1a, <1>2, <1>3, <1>5

(* A run starts only in the user's code of the run outside.                *)
LEMMA StepSuspended ==
  ASSUME TypeOK, Suspended, [Next]_vars
  PROVE  Suspended'
<1>0. depth \in 0 .. MaxDepth /\ MaxDepth \in Nat
  BY BoundsAssumption DEF TypeOK
<1>1. \A d \in 1 .. depth - 1 : phase'[d] \in Calling
  BY <1>0, OneLevelMoves DEF Suspended
<1>2. ASSUME depth' = depth + 1, depth > 0
      PROVE  phase'[depth] \in Calling
  <2>1. Call \/ CallReproduce
    BY <1>2, OnlyCallsNest
  <2>2. depth \in Levels /\ depth + 1 # depth
    BY <1>0, <1>2, DepthInLevels
  <2>. QED  BY <1>2, <2>1, <2>2 DEF Call, CallReproduce, UserCode, In, TypeOK, Calling
<1>3. SUFFICES ASSUME NEW d \in 1 .. depth' - 1
               PROVE  phase'[d] \in Calling
  BY DEF Suspended
<1>4. \/ d \in 1 .. depth - 1
      \/ d = depth /\ depth > 0 /\ depth' = depth + 1
  <2>1. CASE depth' = depth + 1
    <3>1. d \in 1 .. depth
      BY <1>0, <2>1
    <3>. QED  BY <1>0, <2>1, <3>1
  <2>2. CASE depth' = depth
    BY <1>0, <2>2
  <2>3. CASE depth' = depth - 1
    <3>1. d \in 1 .. depth - 1 - 1
      BY <2>3
    <3>. QED  BY <1>0, <3>1
  <2>. QED  BY <2>1, <2>2, <2>3, OneLevelMoves
<1>5. CASE d \in 1 .. depth - 1  BY <1>1, <1>5
<1>6. CASE d = depth /\ depth > 0 /\ depth' = depth + 1  BY <1>2, <1>6
<1>. QED  BY <1>4, <1>5, <1>6

(* A nested run publishes before its wrapper returns to the user's code,   *)
(* so nobody publishes between the end of a run and its wrapper's reading. *)
LEMMA StepResultsKept ==
  ASSUME TypeOK, ResultsKept, Suspended, [Next]_vars
  PROVE  ResultsKept'
<1>0. depth \in 0 .. MaxDepth /\ MaxDepth \in Nat
  BY BoundsAssumption DEF TypeOK
<1>1. ASSUME depth' > 0, phase'[depth'] \in {"left", "returned"}
      PROVE  published' = own'[depth']
  <2>. USE DEF TypeOK, In, Move, levels, engine, python, history
  <2>1. CASE Call \/ CallReproduce
    BY <1>1, <2>1, NextDepthInLevels DEF Call, CallReproduce
  <2>2. CASE Leave
    BY <2>2, DepthInLevels DEF Leave, PublishedByDrop
  <2>3. CASE Finally
    BY <2>3, DepthInLevels DEF Finally, ResultsKept
  <2>4. CASE Return
    <3>1. depth' = depth - 1 /\ depth' \in 1 .. depth - 1
      BY <1>0, <1>1, <2>4 DEF Return
    <3>2. phase'[depth'] \in Calling
      BY <3>1, OneLevelMoves DEF Suspended
    <3>. QED  BY <1>1, <3>2 DEF Calling
  <2>5. CASE Enter \/ StartBody \/ EndBody \/ Report \/ EndReplay \/ NoReport
    BY <1>1, <2>5, DepthInLevels
       DEF Enter, StartBody, EndBody, Report, EndReplay, NoReport
  <2>6. ASSUME NEW c \in Cells, NEW v \in 0 .. MaxRuns, Write(c, v)
        PROVE  published' = own'[depth']
    BY <1>1, <2>6 DEF Write
  <2>6a. ASSUME NEW c \in Drawn, DrawUnguarded(c)
         PROVE  published' = own'[depth']
    BY <1>1, <2>6a DEF DrawUnguarded
  <2>7. CASE UNCHANGED vars
    BY <1>1, <2>7 DEF vars, ResultsKept
  <2>. QED  BY <2>1, <2>2, <2>3, <2>4, <2>5, <2>6, <2>6a, <2>7 DEF Next
<1>2. ASSUME NEW d \in 1 .. depth', phase'[d] = "replay"
      PROVE  result'[d] = own'[d]
  <2>1. CASE d \in 1 .. depth - 1
    <3>1. d \in 1 .. depth
      BY <1>0, <2>1
    <3>. QED  BY <1>2, <2>1, <3>1, OneLevelMoves DEF ResultsKept
  <2>2. CASE d = depth /\ d > 0
    <3>0. d \in Levels /\ d \in 1 .. depth
      BY <1>0, <2>2, DepthInLevels
    <3>. USE DEF TypeOK, In, Move, levels, engine, python, history
    <3>1. CASE Report
      BY <2>2, <3>0, <3>1 DEF Report, ResultsKept
    <3>2. CASE Call
      <4>1. depth + 1 # depth
        BY <1>0
      <4>. QED  BY <1>2, <2>2, <3>0, <3>2, <4>1 DEF Call, ResultsKept
    <3>2a. CASE CallReproduce
      <4>1. depth + 1 # depth
        BY <1>0
      <4>. QED  BY <1>2, <2>2, <3>0, <3>2a, <4>1 DEF CallReproduce, ResultsKept
    <3>3. CASE Enter \/ StartBody \/ EndBody \/ Leave \/ Finally \/ EndReplay
               \/ NoReport
      BY <1>2, <2>2, <3>0, <3>3
         DEF Enter, StartBody, EndBody, Leave, Finally, EndReplay, NoReport
    <3>4. CASE Return
      BY <1>0, <1>2, <2>2, <3>4 DEF Return
    <3>5. ASSUME NEW c \in Cells, NEW v \in 0 .. MaxRuns, Write(c, v)
          PROVE  result'[d] = own'[d]
      BY <1>2, <3>0, <3>5 DEF Write, ResultsKept
    <3>5a. ASSUME NEW c \in Drawn, DrawUnguarded(c)
           PROVE  result'[d] = own'[d]
      BY <1>2, <3>0, <3>5a DEF DrawUnguarded, ResultsKept
    <3>6. CASE UNCHANGED vars
      BY <1>2, <3>0, <3>6 DEF vars, ResultsKept
    <3>. QED  BY <3>1, <3>2, <3>2a, <3>3, <3>4, <3>5, <3>5a, <3>6 DEF Next
  <2>3. CASE d = depth + 1 /\ depth' = d
    <3>1. Call \/ CallReproduce
      BY <2>3, OnlyCallsNest
    <3>. QED  BY <1>2, <2>3, <3>1, NextDepthInLevels DEF Call, CallReproduce, TypeOK
  <2>4. \/ d \in 1 .. depth - 1
        \/ d = depth /\ d > 0
        \/ d = depth + 1 /\ depth' = d
    <3>1. depth' \in {depth - 1, depth, depth + 1}
      BY OneLevelMoves
    <3>. QED  BY <1>0, <3>1
  <2>. QED  BY <2>1, <2>2, <2>3, <2>4
<1>. QED  BY <1>1, <1>2 DEF ResultsKept

(* The flags are cleared in the finally block, and the guard puts the      *)
(* clock back as it was: off, unless a collector had it replaced.          *)
LEMMA StepFlagsClear ==
  ASSUME TypeOK, TypeOK', FlagsClear, [Next]_vars
  PROVE  FlagsClear'
<1>0. depth \in 0 .. MaxDepth /\ MaxDepth \in Nat
  BY BoundsAssumption DEF TypeOK
<1>a. Clock \in Cells /\ Clock \notin Drawn /\ Clock \notin Taken /\ Clock # SlipEnabled
  BY CellsAssumption DEF Cells
<1>1. ASSUME ~collecting'
      PROVE  NoClock'
  <2>0. ~collecting
    BY <1>1 DEF Next, Call, CallReproduce, Enter, StartBody, EndBody, Leave, Finally,
       Report, EndReplay, NoReport, Return, Write, DrawUnguarded, vars, levels
  <2>00. NoClock
    BY <2>0 DEF FlagsClear
  <2>. USE DEF TypeOK, In, Move, levels, engine, python, NoClock
  <2>1. CASE Call \/ CallReproduce
    BY <2>0, <2>00, <2>1 DEF Call, CallReproduce
  <2>2. CASE Enter
    BY <1>a, <2>00, <2>2 DEF Enter, Snapshot, Fresh
  <2>3. CASE Leave
    BY <2>00, <2>3, DepthInLevels DEF Leave
  <2>4. CASE Finally
    BY <2>0, <2>00, <2>4 DEF Finally, ClockOff
  <2>5. CASE Return
    BY <1>a, <2>00, <2>5 DEF Return, NobodyIn
  <2>6. CASE StartBody \/ EndBody \/ Report \/ EndReplay \/ NoReport
    BY <2>00, <2>6 DEF StartBody, EndBody, Report, EndReplay, NoReport
  <2>7. CASE \E c \in Cells, v \in 0 .. MaxRuns : Write(c, v)
    BY <2>00, <2>7 DEF Write
  <2>7a. CASE \E c \in Drawn : DrawUnguarded(c)
    BY <1>a, <2>00, <2>7a DEF DrawUnguarded
  <2>8. CASE UNCHANGED vars
    BY <2>00, <2>8 DEF vars
  <2>. QED  BY <2>1, <2>2, <2>3, <2>4, <2>5, <2>6, <2>7, <2>7a, <2>8 DEF Next
<1>2. ASSUME \A d \in 1 .. depth' : phase'[d] \in Past
      PROVE  Quiet'
  <2>a. ASSUME depth' > 0 PROVE phase'[depth'] \in Past
    <3>1. depth' \in 1 .. depth'
      BY <2>a DEF TypeOK
    <3>. QED  BY <1>2, <3>1
  <2>. USE DEF TypeOK, In, Move, levels, engine, python, Quiet, Past
  <2>1. CASE Call
    BY <1>0, <2>a, <2>1, NextDepthInLevels DEF Call
  <2>2. CASE Enter \/ StartBody \/ EndBody \/ Leave
    BY <1>0, <2>a, <2>2, DepthInLevels DEF Enter, StartBody, EndBody, Leave
  <2>3. CASE Finally
    <3>1. ~active' /\ targets' = 0
      BY <2>3 DEF Finally
    <3>2. cases' = 0
      BY <2>3 DEF Finally, FlagsClear, NoClock
    <3>3. cells'[Clock] = 0
      BY <1>a, <2>3 DEF Finally, ClockOff, FlagsClear, NoClock
    <3>. QED  BY <3>1, <3>2, <3>3
  <2>4. CASE CallReproduce \/ Report \/ EndReplay \/ NoReport \/ Return
    <3>1. depth > 0 => phase[depth] \in Past
      <4>1. CASE CallReproduce
        <5>1. depth + 1 \in Levels /\ depth' = depth + 1
          BY <4>1, NextDepthInLevels DEF CallReproduce
        <5>2. ASSUME depth > 0 PROVE phase'[depth] = phase[depth] /\ depth \in 1 .. depth'
          BY <1>0, <4>1, <5>1, <5>2, DepthInLevels DEF CallReproduce
        <5>. QED  BY <1>2, <5>2
      <4>2. CASE Report \/ EndReplay \/ NoReport \/ Return
        BY <4>2 DEF Report, EndReplay, NoReport, Return
      <4>. QED  BY <2>4, <4>1, <4>2
    <3>2. \A d \in 1 .. depth : phase[d] \in Past
      <4>1. ASSUME NEW d \in 1 .. depth, d # depth PROVE phase[d] \in Past
        <5>1. d \in 1 .. depth - 1 /\ d \in 1 .. depth'
          BY <1>0, <4>1, OneLevelMoves
        <5>. QED  BY <1>2, <5>1, OneLevelMoves
      <4>. QED  BY <1>0, <3>1, <4>1
    <3>3. Quiet
      BY <3>2 DEF FlagsClear
    <3>. QED  BY <2>4, <3>3 DEF CallReproduce, Report, EndReplay, NoReport, Return
  <2>5. CASE \E c \in Cells, v \in 0 .. MaxRuns : Write(c, v)
    BY <1>0, <2>a, <2>5 DEF Write
  <2>6. ASSUME NEW c \in Drawn, DrawUnguarded(c)
        PROVE  Quiet'
    <3>1. depth' = depth /\ phase' = phase
      BY <2>6 DEF DrawUnguarded
    <3>2. Quiet
      BY <1>2, <3>1 DEF FlagsClear
    <3>. QED  BY <1>a, <2>6, <3>2 DEF DrawUnguarded
  <2>7. CASE UNCHANGED vars
    <3>1. Quiet
      BY <1>2, <2>7 DEF vars, FlagsClear
    <3>. QED  BY <2>7, <3>1 DEF vars
  <2>. QED  BY <2>1, <2>2, <2>3, <2>4, <2>5, <2>6, <2>7 DEF Next
<1>3. ASSUME finalReplay'
      PROVE  \E d \in 1 .. depth' : phase'[d] = "replay"
  <2>1. CASE Report
    BY <1>0, <2>1, DepthInLevels DEF Report, In, Move, TypeOK
  <2>2. CASE ~Report
    <3>1. finalReplay /\ ~EndReplay
      BY <1>3, <2>2 DEF Next, Call, CallReproduce, Enter, StartBody, EndBody, Leave,
         Finally, EndReplay, NoReport, Return, Write, DrawUnguarded, vars, python
    <3>2. PICK d \in 1 .. depth : phase[d] = "replay"
      BY <3>1 DEF FlagsClear
    <3>3. CASE d \in 1 .. depth - 1
      <4>1. d \in 1 .. depth'
        BY <1>0, <3>3, OneLevelMoves
      <4>. QED  BY <3>2, <3>3, <4>1, OneLevelMoves
    <3>4. CASE d = depth /\ depth > 0
      <4>0. phase[depth] = "replay"
        BY <3>2, <3>4
      <4>a. (\E c \in Drawn : DrawUnguarded(c)) => UNCHANGED <<depth, phase>>
        BY DEF DrawUnguarded, levels
      <4>b. ~(Enter \/ StartBody \/ EndBody \/ Leave \/ Finally \/ NoReport \/ Return)
        BY <4>0 DEF In, Enter, StartBody, EndBody, Leave, Finally, NoReport, Return
      <4>c. ~(\E c \in Cells, v \in 0 .. MaxRuns : Write(c, v))
        BY <4>0 DEF In, Write
      <4>1. Call \/ CallReproduce \/ UNCHANGED <<depth, phase>>
        BY <2>2, <3>1, <4>a, <4>b, <4>c DEF Next, levels, vars
      <4>2. CASE Call \/ CallReproduce
        <5>1. depth' = depth + 1 /\ phase'[depth] = phase[depth] /\ depth \in Levels
          BY <1>0, <3>4, <4>2, DepthInLevels DEF Call, CallReproduce, TypeOK
        <5>2. depth \in 1 .. depth'
          BY <1>0, <3>4, <5>1
        <5>. QED  BY <4>0, <5>1, <5>2
      <4>3. CASE UNCHANGED <<depth, phase>>
        BY <3>2, <4>3
      <4>. QED  BY <4>1, <4>2, <4>3
    <3>. QED  BY <1>0, <3>3, <3>4
  <2>. QED  BY <2>1, <2>2
<1>. QED  BY <1>1, <1>2, <1>3 DEF FlagsClear

-----------------------------------------------------------------------------

(* Every step keeps the invariant.                                         *)
LEMMA StepIInv == IInv /\ [Next]_vars => IInv'
BY StepTypeOK, StepUndisturbed, StepGuardHolds, StepSuspended, StepResultsKept,
   StepFlagsClear DEF IInv

(* The invariant holds throughout.                                         *)
LEMMA Invariance == Spec => []IInv
BY InitIInv, StepIInv, PTL DEF Spec

(* The variables of nested runs stay within their types.                   *)
THEOREM TypeCorrect == Spec => []TypeOK
<1>1. IInv => TypeOK
  BY DEF IInv
<1>. QED  BY <1>1, Invariance, PTL

(* RunNativeGuard does its job: a run suspended in user code finds its     *)
(* thread-locals as it left them, however deep the runs inside it nested   *)
(* and whichever thread-locals are taken or copied, except that a replay   *)
(* without a guard may have drawn over the draw time and the caches, and a *)
(* nested wrapper may have switched the clock.                             *)
THEOREM GuardRestores == Spec => []Undisturbed
<1>1. IInv => Undisturbed
  BY DEF IInv
<1>. QED  BY <1>1, Invariance, PTL

(* A wrapper reads the shrink report and the minimal choices its own run   *)
(* published.                                                              *)
THEOREM ReadsOwnResult == Spec => []ResultIsOwn
<1>1. IInv => ResultIsOwn
  <2>. SUFFICES ASSUME IInv, In("replay") PROVE result[depth] = own[depth]
    BY DEF ResultIsOwn
  <2>1. depth \in 1 .. depth
    BY DEF IInv, TypeOK, In
  <2>. QED  BY <2>1 DEF IInv, ResultsKept, In
<1>. QED  BY <1>1, Invariance, PTL

(* The outermost wrapper leaves no flag set, no target, no case and no     *)
(* replaced clock behind.                                                  *)
THEOREM LeavesNothing == Spec => []NothingLeaks
<1>1. IInv => NothingLeaks
  <2>. SUFFICES ASSUME IInv, depth = 0 PROVE Quiet /\ ~finalReplay
    BY DEF NothingLeaks
  <2>1. 1 .. depth = {}
    OBVIOUS
  <2>. QED  BY <2>1 DEF IInv, FlagsClear
<1>. QED  BY <1>1, Invariance, PTL
=============================================================================
