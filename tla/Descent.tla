------------------------------- MODULE Descent ------------------------------
(***************************************************************************)
(* What shrinking promises: from a failing example it only ever moves to a *)
(* strictly simpler example that fails in the same way, and in the end it   *)
(* stops.                                                                  *)
(***************************************************************************)
CONSTANT Simpler(_, _)  \* a well-founded order on examples

VARIABLES
  fails,     \* the examples that fail with the origin being shrunk
  current,   \* the simplest failing example found so far
  finished   \* shrinking is over

vars == <<fails, current, finished>>

Init == current \in fails /\ finished = FALSE

Descend ==
  /\ ~finished
  /\ \E e \in fails : current' = e /\ Simpler(e, current)
  /\ UNCHANGED <<fails, finished>>

Finish == ~finished /\ finished' = TRUE /\ UNCHANGED <<fails, current>>

Next == Descend \/ Finish

Spec == Init /\ [][Next]_vars
=============================================================================
