-------------------------------- MODULE Novelty --------------------------------
(* What the search for examples promises while it remembers them: no test     *)
(* body runs twice on the same choices, and a search that ends because there  *)
(* is nothing new has tried every example there is.                           *)
EXTENDS Naturals

CONSTANTS Examples(_),    \* the examples of a test
          Repeatable(_),  \* those that are only recognised after they ran
          Countable(_)    \* whether a test's examples can be counted off

VARIABLES test,
          explored,   \* the examples remembered
          ran,        \* how many ran
          remembers,  \* the search still remembers examples
          exhausted,  \* it found that there is nothing new
          searching

Init == /\ explored = {} /\ ran = 0
        /\ remembers = TRUE /\ exhausted = FALSE /\ searching = TRUE

\* What the search may conclude after an example; after the first, it goes on.
Conclude ==
    /\ remembers' => remembers
    /\ exhausted' => explored' = Examples(test)
    /\ remembers' /\ Countable(test) /\ explored' = Examples(test) => exhausted'
    /\ searching' => ran' = 1 \/ ~exhausted'

Try == /\ searching /\ remembers
       /\ \E s \in Examples(test) :
             /\ s \notin explored \/ s \in Repeatable(test)
             /\ explored' = explored \cup {s} \/ (explored' = explored /\ ~remembers')
       /\ ran' = ran + 1
       /\ Conclude
       /\ UNCHANGED test

Recognise == searching /\ remembers /\ Conclude /\ UNCHANGED <<test, explored, ran>>

TryUnaware == /\ searching /\ ~remembers
              /\ ran' = ran + 1 /\ searching' \in BOOLEAN
              /\ UNCHANGED <<test, explored, remembers, exhausted>>

GiveUp == searching /\ searching' = FALSE /\ UNCHANGED <<test, explored, ran, remembers, exhausted>>

Next == Try \/ Recognise \/ TryUnaware \/ GiveUp

Spec == Init /\ [][Next]_<<test, explored, ran, remembers, exhausted, searching>>

================================================================================
