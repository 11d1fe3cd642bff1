------------------------------- MODULE Collection -------------------------------
(* What lists() promises of one example: the items come one by one, unique    *)
(* ones never twice, and the list is complete only within its size bounds;    *)
(* otherwise the example is abandoned.                                        *)
EXTENDS Integers, Sequences

CONSTANT Items   \* what the elements may be

VARIABLES items,   \* the list so far
          stage,   \* "growing", "complete" or "abandoned"
          wanted   \* [min_size, max_size, unique]

Init == items = <<>> /\ stage = "growing"

Add == /\ stage = "growing"
       /\ Len(items) < wanted.max_size
       /\ \E item \in Items : items' = Append(items, item)
       /\ wanted.unique => \A i, j \in DOMAIN items' : items'[i] = items'[j] => i = j
       /\ UNCHANGED <<stage, wanted>>

Complete == /\ stage = "growing"
            /\ Len(items) \in wanted.min_size .. wanted.max_size
            /\ stage' = "complete"
            /\ UNCHANGED <<items, wanted>>

Abandon == stage = "growing" /\ stage' = "abandoned" /\ UNCHANGED <<items, wanted>>

\* The next example starts over.
Again == stage # "growing" /\ items' = <<>> /\ stage' = "growing" /\ UNCHANGED wanted

Next == Add \/ Complete \/ Abandon \/ Again

Spec == Init /\ [][Next]_<<items, stage, wanted>>

================================================================================
