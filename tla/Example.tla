--------------------------------- MODULE Example ---------------------------------
(* One example run and run again: run_one of engine.rs draws the argument, a  *)
(* list, from a ConjectureData with the Many of draw.rs, calls the body of    *)
(* the test, and freezes the data; then the choices recorded are replayed, as *)
(* reuse, verification and every shrink trial do. The body is a script: it    *)
(* draws through data(), rejects, marks, raises, and may catch the StopTest   *)
(* that ends the example.                                                     *)
EXTENDS Many

CONSTANTS ChoiceValues,    \* every value a choice may have
          ElementC,   \* the constraints of an element
          Fixed,      \* the element of just(Fixed), which draws no choice
          Wanted,     \* the lists asked for: [min_size, max_size, unique, just]
          Handed,     \* the prefixes handed to for_choices
          Scripts     \* the bodies: sequences of Steps

Steps == {"draw", "draw_caught", "reject", "mark_invalid", "invalid_caught",
          "mark_interesting", "note", "raise"}

ASSUME ExampleAssumption ==
    /\ Wanted \subseteq [min_size : Nat, max_size : Nat, unique : BOOLEAN, just : BOOLEAN]
    /\ \A w \in Wanted : w.min_size <= w.max_size
    /\ Scripts \subseteq Seq(Steps)
    /\ BUFFER_SIZE \in Nat \ {0}
    /\ {Fixed, True, False} \subseteq ChoiceValues /\ True # False /\ None \notin Int
    /\ Handed \subseteq Seq([template : BOOLEAN, value : ChoiceValues \cup {None}, count : Int \cup {None}])
    /\ \A prefix \in Handed : \A i \in DOMAIN prefix : ~prefix[i].template => prefix[i].value \in ChoiceValues
    /\ \A prefix \in Handed : PrefixChoiceCount(prefix) \in Nat \cup {None}
    /\ \A v \in ChoiceValues : SizeOf(v) \in Nat
    \* p_continue is neither 0 nor 1 where it decides (calc_p_continue)
    /\ Permits(True, ContinueC) /\ Permits(False, ContinueC)
    /\ \A c \in {ElementC, ContinueC} :
          Samples(c) \cup Simplest(c) \subseteq {v \in ChoiceValues : Permits(v, c)}

VARIABLES cd,        \* the ConjectureData
          wanted,    \* the list strategy of the argument
          many,      \* the Many of the list under way
          result,    \* the list so far
          pc,        \* "arguments", "more", "element", "body", "abandoned", "finished"
          step,      \* the next step of the script
          script,    \* the body: anything, and on the replay the same
          outcome,   \* what run_one returns
          earlier,   \* the finished example whose choices are replayed
          late       \* history: the spans opened on frozen data

vars == <<cd, wanted, many, result, pc, step, script, outcome, earlier, late>>

--------------------------------------------------------------------------------
Starts == {NewGenerate, NewSimplest} \cup {ForChoices(prefix) : prefix \in Handed}

Init == /\ cd \in Starts
        /\ wanted \in Wanted
        /\ script = <<>>
        /\ many = NewMany(wanted.min_size, wanted.max_size)
        /\ result = <<>>
        /\ pc = "arguments"
        /\ step = 1
        /\ outcome = None
        /\ earlier = None
        /\ late = 0

Ended == pc \in {"abandoned", "finished"}

\* StopTest leaves draw(), which closes its span, and run_one, which freezes.
Unwind(data) == /\ cd' = Freeze(StopSpan(data, FALSE))
                /\ pc' = "abandoned" /\ outcome' = "Invalid"
                /\ UNCHANGED <<wanted, many, result, step, script, earlier, late>>

\* start_span_pub opens a span on frozen data too, which stop_span never closes.
LateOpened == IF cd.frozen THEN late + 1 ELSE late

\* cd.draw(lists(...)) opens its span.
DrawArgument == /\ pc = "arguments"
                /\ cd' = StartSpan(cd) /\ late' = LateOpened
                /\ pc' = "more"
                /\ UNCHANGED <<wanted, many, result, step, script, outcome, earlier>>

More == /\ pc = "more"
        /\ \E o \in MoreOutcomes(many, cd) :
              \/ o.stop /\ Unwind(o.cd)
              \/ /\ ~o.stop /\ o.value = True
                 /\ many' = Counted(many) /\ cd' = o.cd /\ pc' = "element"
                 /\ UNCHANGED <<wanted, result, step, script, outcome, earlier, late>>
              \/ /\ ~o.stop /\ o.value # True
                 /\ cd' = StopSpan(o.cd, FALSE) /\ pc' = "body"
                 /\ IF earlier = None THEN script' \in Scripts ELSE UNCHANGED script
                 /\ UNCHANGED <<wanted, many, result, step, outcome, earlier, late>>

Elements(data) == IF wanted.just THEN {Got(data, Fixed)} ELSE Draw(data, ElementC)

\* An element already in a unique list.
Collides(v) == wanted.unique /\ \E i \in DOMAIN result : result[i] = v

Keep(o) == /\ ~o.stop /\ ~Collides(o.value)
           /\ result' = Append(result, o.value)
           /\ cd' = o.cd /\ pc' = "more"
           /\ UNCHANGED <<wanted, many, step, script, outcome, earlier, late>>

Reject(o) == /\ ~o.stop /\ Collides(o.value)
             /\ IF Hopeless(Rejected(many)) THEN Unwind(Mark(o.cd, INVALID, None))
                ELSE /\ many' = Settled(Rejected(many))
                     /\ cd' = o.cd /\ pc' = "more"
                     /\ UNCHANGED <<wanted, result, step, script, outcome, earlier, late>>

Element == /\ pc = "element"
           /\ \E o \in Elements(cd) : (o.stop /\ Unwind(o.cd)) \/ Keep(o) \/ Reject(o)

--------------------------------------------------------------------------------
(* The body. *)

Now(what) == pc = "body" /\ step <= Len(script) /\ script[step] = what

Continue(data) == /\ cd' = data /\ step' = step + 1
                  /\ UNCHANGED <<wanted, many, result, pc, script, outcome, earlier>>

\* run_one freezes the data whatever became of the example.
End(data, what) == /\ cd' = Freeze(data)
                   /\ pc' = "finished" /\ outcome' = what
                   /\ UNCHANGED <<wanted, many, result, step, script, earlier>>

\* data.draw(booleans()): its span is closed on the error path too.
BodyDraw == /\ Now("draw") \/ Now("draw_caught")
            /\ late' = LateOpened
            /\ \E o \in Draw(StartSpan(cd), ContinueC) :
                  LET data == StopSpan(o.cd, FALSE)
                  IN  IF ~o.stop \/ Now("draw_caught") THEN Continue(data)
                      ELSE End(data, IF data.status = VALID THEN "Valid" ELSE "Invalid")

\* A StopTest of this example counts by the status of its data.
BodyMark == /\ UNCHANGED late
            /\ \/ /\ Now("mark_invalid")
                  /\ End(Mark(cd, INVALID, None), "Invalid")
               \/ /\ Now("mark_interesting")
                  /\ End(Mark(cd, INTERESTING, "origin"), "Invalid")
               \/ /\ Now("invalid_caught")
                  /\ Continue(Mark(cd, INVALID, None))

\* assume(False) is an exception of its own and marks nothing.
BodyReject == Now("reject") /\ End(cd, "Invalid") /\ UNCHANGED late

\* note() of the data refuses when it is frozen, and the test fails with that error.
BodyNote == /\ Now("note") /\ UNCHANGED late
            /\ IF cd.frozen THEN End(cd, "Interesting") ELSE Continue(cd)

BodyRaise == Now("raise") /\ End(cd, "Interesting") /\ UNCHANGED late

BodyReturn == pc = "body" /\ step > Len(script) /\ End(cd, "Valid") /\ UNCHANGED late

\* Once more with the recorded choices, the test being the same.
Replay == /\ Ended /\ earlier = None
          /\ earlier' = [cd |-> cd, result |-> result, outcome |-> outcome]
          /\ cd' = NewForChoices(ChoicesOf(cd))
          /\ many' = NewMany(wanted.min_size, wanted.max_size)
          /\ result' = <<>> /\ pc' = "arguments" /\ step' = 1 /\ outcome' = None
          /\ late' = 0
          /\ UNCHANGED <<wanted, script>>

Next == \/ DrawArgument \/ More \/ Element
        \/ BodyDraw \/ BodyMark \/ BodyReject \/ BodyNote \/ BodyRaise \/ BodyReturn
        \/ Replay

Spec == Init /\ [][Next]_vars

FairSpec == Spec /\ WF_vars(Next)

--------------------------------------------------------------------------------
(* Properties. *)

Node == [value : ChoiceValues, constraints : {ElementC, ContinueC}, was_forced : BOOLEAN]

Entry == [template : BOOLEAN, value : ChoiceValues \cup {None}, count : Int \cup {None}]

ConjectureData ==
    [max_length : Nat, max_choices : Nat \cup {None}, length : Nat, index : Nat,
     status : OVERRUN .. INTERESTING, frozen : BOOLEAN, depth : Int, max_depth : Int,
     has_discards : BOOLEAN, prefix : Seq(Entry), nodes : Seq(Node),
     misaligned : BOOLEAN, interesting_origin : {None, "origin"}]

DataOK(data) ==
    /\ data \in ConjectureData
    /\ \A i \in DOMAIN data.prefix : ~data.prefix[i].template => data.prefix[i].value \in ChoiceValues

\* The state stays within its types.
TypeOK ==
    /\ DataOK(cd)
    /\ wanted \in Wanted /\ script \in Scripts \cup {<<>>}
    /\ many \in [min_size : Nat, max_size : Nat, count : Nat, rejections : Nat, force_stop : BOOLEAN]
    /\ result \in Seq(ChoiceValues)
    /\ pc \in {"arguments", "more", "element", "body", "abandoned", "finished"}
    /\ step \in Nat \ {0} /\ late \in Nat
    /\ outcome \in {None, "Valid", "Invalid", "Interesting"}
    /\ earlier # None => DataOK(earlier.cd) /\ earlier.result \in Seq(ChoiceValues)

WithinLimits(data) == /\ data.max_choices # None => Len(data.nodes) <= data.max_choices
                      /\ data.status = VALID => data.length <= data.max_length

\* Tested before a draw and again after it, the two limits hold whatever is
\* replayed: a prefix never yields more choices than it stands for, and an
\* example that is still valid fits the buffer.
LimitsHold == WithinLimits(cd)

\* Spans nest: until the data is frozen exactly the spans of the draws under way
\* are open. Whichever call froze it has closed them all, the callers that unwind
\* close none again, and no example ends before. A span opened on frozen data
\* stays open: those count, and nothing else moves the depth.
SpansBalanced ==
    IF cd.frozen THEN cd.depth = late - 1
    ELSE late = 0 /\ ~Ended /\ cd.depth = IF pc \in {"more", "element"} THEN 1 ELSE 0

\* The recorded choices reproduce the example, without a misalignment: forced
\* answers, rejected elements and the choices of an unfinished draw included.
ReplayReproduces ==
    Ended /\ earlier # None =>
        /\ result = earlier.result /\ outcome = earlier.outcome
        /\ cd.nodes = earlier.cd.nodes /\ cd.status = earlier.cd.status
        /\ ~cd.misaligned

Stage == CASE pc \in {"arguments", "more", "element"} -> "growing"
           [] pc \in {"body", "finished"} -> "complete"
           [] OTHER -> "abandoned"

C == INSTANCE Collection WITH
        items <- result, stage <- Stage,
        Items <- {v \in ChoiceValues : v = Fixed \/ Permits(v, ElementC)}

\* Every list is drawn as lists() promises: items one by one, none twice in a
\* unique list, and complete only within the size bounds.
ListsAsPromised == C!Spec

\* The draw of a list ends: by its maximal size, by the limits of the data or,
\* where no choice is drawn, by the count of the rejections.
DrawsEnd == <>(earlier # None /\ Ended)

\* errors.py: Frozen is raised "when an operation (draw/note/mark) is attempted on
\* a frozen ConjectureData": no draw adds to it.
FrozenRefusesDraws == [][cd.frozen /\ ~Ended => cd'.nodes = cd.nodes]_vars

================================================================================
