--------------------------------- MODULE Stateful ---------------------------------
(* Rule-based state machines: the step loop of StatefulRunner (stateful.rs)   *)
(* with the helpers of stateful.py it calls, and run_state_machine_as_test    *)
(* around the examples of one test: some are generated, the failure found is  *)
(* replayed with is_final, and the error raised is annotated.                 *)
(*                                                                            *)
(* What the user writes, the machine's constructor, the strategies, the       *)
(* bodies of the rules, the invariants, the preconditions and teardown, does  *)
(* as it likes in each example and raises what it likes, so that a test may   *)
(* be flaky. A choice has size 1.                                             *)
EXTENDS Integers, Sequences, SequencesExt, FiniteSetsExt

CONSTANTS Bundles,
          Rules,          \* [targets, arguments, initialize, conditional]
          Invariants,     \* [check_during_init, conditional]
          Objects,        \* the values that are told apart by their id
          Singletons,     \* the values that are not: small integers, None
          Results,        \* what bodies return: Single(v) or Multiple(values)
          NoValue,        \* the None among Singletons
          None,           \* no error, no rule
          verbose,        \* the verbosity is debug
          ReturnChecked,  \* HealthCheck.return_value is not suppressed
          BUFFER_SIZE, min_steps, max_steps,
          MAX_EXAMPLES    \* bounds the examples generated

Single(v)        == [multiple |-> FALSE, values |-> <<v>>]
Multiple(values) == [multiple |-> TRUE, values |-> values]

Error(kind, at) == [kind |-> kind, at |-> at]

\* What the user's code raises: an exception of its own, a FlakyStrategyDefinition,
\* or one that gives the example up.
UserErrors == {"assertion", "flaky", "stop"}

\* A test failing, as opposed to an example given up.
Failing(error) == error # None /\ error.kind # "stop"

ASSUME StatefulAssumption ==
    /\ \A r \in Rules : /\ r.targets \in Seq(Bundles)
                        /\ r.arguments \in Seq([bundle : Bundles, consume : BOOLEAN, reference : BOOLEAN])
                        /\ r.initialize => ~r.conditional
    /\ \E r \in Rules : ~r.initialize
    /\ Invariants \in Seq([check_during_init : BOOLEAN, conditional : BOOLEAN])
    /\ NoValue \in Singletons /\ Objects \cap Singletons = {}
    /\ \A result \in Results : result.values \in Seq(Objects \cup Singletons)
    /\ {min_steps, max_steps, BUFFER_SIZE, MAX_EXAMPLES} \subseteq Nat

VARIABLES pc,          \* where the step loop or its caller is
          machine,     \* the machine of the example
          length,      \* the length of the ConjectureData
          steps_run,
          rule,        \* the rule of the step, None between steps
          argdata,     \* its arguments so far: [value, shown]
          body,        \* the error that left the body of the loop
          printed,     \* the program shown: lines of rules, invariants and teardown
          calls,       \* what a shown example called: [rule, arguments, values, line]
          is_final,
          examples,    \* the examples begun
          selecting_rule,  \* the flag shared by all examples of the test
          failure,     \* the type of the error the test is failing with
          reported,    \* what run_state_machine_as_test ends with: [error, notes, selecting]
          attached     \* the notes the example's error got

example == <<machine, length, steps_run, rule, argdata, body, printed, calls, attached>>
run     == <<is_final, examples, failure, reported>>
vars    == <<pc, example, run, selecting_rule>>

--------------------------------------------------------------------------------
(* The machine: bundles of names, names of values. *)

NewMachine == [bundles   |-> [b \in Bundles |-> <<>>],
               counters  |-> [b \in Bundles |-> 0],
               names     |-> <<>>,
               values    |-> <<>>,    \* a function from names
               printers  |-> <<>>,    \* a function from objects to names
               initializers |-> {r \in Rules : r.initialize}]

With(f, x, y) == [z \in DOMAIN f \cup {x} |-> IF z = x THEN y ELSE f[z]]

\* Mutant: names are numbered by the bundle's size, which consuming shrinks.
NewNameBySize(m, target) == <<target, Len(m.bundles[target])>>

NewName(m, target) == <<target, m.counters[target]>>

\* An object keeps the name it was first given.
AddResult(m, target, value) ==
    LET name == NewName(m, target)
    IN  [m EXCEPT !.counters[target] = @ + 1,
                  !.names = Append(@, name),
                  !.values = With(@, name, value),
                  !.printers = IF value \in Singletons \cup DOMAIN @ THEN @
                               ELSE With(@, value, name),
                  !.bundles[target] = Append(@, name)]

\* All the values are stored in one target after the other.
AddResultsToTargets(m, targets, values) ==
    LET n == Len(values)
        after[k \in 0 .. Len(targets) * n] ==
            IF k = 0 THEN m
            ELSE AddResult(after[k - 1], targets[((k - 1) \div n) + 1], values[((k - 1) % n) + 1])
    IN  after[Len(targets) * n]

LastNames(m, n) == SubSeq(m.names, Len(m.names) - n + 1, Len(m.names))

\* The names a step assigns, target by target: nothing when there are no values.
Assigned(m, targets, values) ==
    LET n    == Len(values)
        last == LastNames(m, Len(targets) * n)
    IN  IF n = 0 THEN <<>> ELSE [t \in DOMAIN targets |-> SubSeq(last, (t - 1) * n + 1, t * n)]

PrettyPrint(m, value) ==
    IF value \in DOMAIN m.printers THEN [name |-> m.printers[value]] ELSE [literal |-> value]

IsValid(m, r, held) ==
    /\ \A i \in DOMAIN r.arguments : r.arguments[i].reference => m.bundles[r.arguments[i].bundle] # <<>>
    /\ r.conditional => r \in held

CanShow == is_final \/ verbose
Output(line) == IF CanShow THEN Append(printed, line) ELSE printed
Recorded(call) == IF CanShow THEN Append(calls, call) ELSE calls

--------------------------------------------------------------------------------
(* One example. *)

Begin(final) == /\ machine' = NewMachine
                /\ length' = 0 /\ steps_run' = 0 /\ rule' = None /\ argdata' = <<>>
                /\ body' = None /\ printed' = <<>> /\ calls' = <<>> /\ attached' = <<>>
                /\ is_final' = final
                /\ pc' = "factory"

Raise(error) == body' = error /\ pc' = "teardown"

\* The machine is made outside the finally clause: an error of its constructor
\* gets no teardown and no notes.
Construct ==
    /\ pc = "factory"
    /\ \/ pc' = "invariants" /\ UNCHANGED body
       \/ pc' = "ended" /\ \E kind \in UserErrors : body' = Error(kind, "factory")
    /\ UNCHANGED <<machine, length, steps_run, rule, argdata, printed, calls, attached,
                   run, selecting_rule>>

\* A draw overruns when the buffer is full, and may be rejected.
Overrun == Error("stop", "draw")
Drawn   == length < BUFFER_SIZE /\ length' = length + 1

Applicable(i) == machine.initializers = {} \/ Invariants[i].check_during_init

\* check_invariants: the invariants that apply and whose preconditions hold, up
\* to one that fails, or to one whose precondition raises before it is shown.
CheckInvariants ==
    /\ pc = "invariants"
    /\ \E held \in SUBSET {i \in DOMAIN Invariants : Invariants[i].conditional} :
         LET run_ == {i \in DOMAIN Invariants : Applicable(i) /\ (Invariants[i].conditional => i \in held)}
             Lines(upto) == IF CanShow THEN [j \in 1 .. Cardinality({i \in run_ : i <= upto}) |->
                                                 [invariant |-> TRUE]]
                            ELSE <<>>
         IN  \/ /\ printed' = printed \o Lines(Len(Invariants))
                /\ pc' = "loop" /\ UNCHANGED body
             \/ \E failed \in run_, kind \in UserErrors \cup IF ReturnChecked THEN {"health"} ELSE {} :
                    /\ printed' = printed \o Lines(failed)
                    /\ Raise(Error(kind, "invariant"))
             \/ \E i \in DOMAIN Invariants, kind \in UserErrors :
                    /\ Applicable(i) /\ Invariants[i].conditional
                    /\ printed' = printed \o Lines(i - 1)
                    /\ Raise(Error(kind, "invariant"))
    /\ rule' = None /\ argdata' = <<>>
    /\ UNCHANGED <<machine, length, steps_run, calls, attached, run, selecting_rule>>

\* The forced values of the boolean that stops the loop, both when it is free.
MustStop == CASE steps_run >= max_steps -> {TRUE}
              [] steps_run < max_steps /\ steps_run <= min_steps -> {FALSE}
              [] OTHER -> IF 10 * length > 8 * BUFFER_SIZE THEN {TRUE} ELSE BOOLEAN

DrawStop ==
    /\ pc = "loop"
    /\ \/ /\ Drawn
          /\ \E stop \in MustStop : /\ pc' = IF stop THEN "teardown" ELSE "select"
                                    /\ steps_run' = IF stop THEN steps_run ELSE steps_run + 1
          /\ UNCHANGED body
       \/ length >= BUFFER_SIZE /\ Raise(Overrun) /\ UNCHANGED <<length, steps_run>>
    /\ UNCHANGED <<machine, rule, argdata, printed, calls, attached, run, selecting_rule>>

\* An outstanding initialize rule is drawn and struck off; the flag is left alone.
SelectInitializer ==
    /\ pc = "select" /\ machine.initializers # {}
    /\ \/ /\ Drawn
          /\ \E r \in machine.initializers :
                /\ rule' = r
                /\ machine' = [machine EXCEPT !.initializers = @ \ {r}]
          /\ pc' = "arguments" /\ UNCHANGED body
       \/ length >= BUFFER_SIZE /\ Raise(Overrun) /\ UNCHANGED <<length, rule, machine>>
    /\ UNCHANGED <<steps_run, argdata, printed, calls, attached, run, selecting_rule>>

\* Mutant: the flag is cleared however the selection ends.
SelectingFinally(succeeded) == FALSE

\* The value of selecting_rule once the selection has succeeded or not.
Selecting(succeeded) == ~succeeded

\* Otherwise a valid rule is drawn, the flag set meanwhile: a precondition may
\* raise, no rule may be valid, and the filtered draw may be given up.
SelectRule ==
    /\ pc = "select" /\ machine.initializers = {}
    /\ \E held \in SUBSET {r \in Rules : r.conditional} :
         LET valid == {r \in Rules : ~r.initialize /\ IsValid(machine, r, held)}
         IN  \/ /\ valid = {}
                /\ Raise(Error(IF is_final THEN "flaky" ELSE "definition", "select"))
                /\ selecting_rule' = Selecting(FALSE)
                /\ UNCHANGED <<length, rule>>
             \/ /\ valid # {} /\ Drawn
                /\ rule' \in valid
                /\ selecting_rule' = Selecting(TRUE)
                /\ pc' = "arguments" /\ UNCHANGED body
             \/ /\ valid # {}
                /\ Raise(Overrun) /\ selecting_rule' = Selecting(FALSE)
                /\ UNCHANGED <<length, rule>>
             \/ /\ \E r \in Rules : r.conditional /\ IsValid(machine, r, {r})
                /\ \E kind \in UserErrors : Raise(Error(kind, "select"))
                /\ selecting_rule' = Selecting(FALSE)
                /\ UNCHANGED <<length, rule>>
    /\ UNCHANGED <<machine, steps_run, argdata, printed, calls, attached, run>>

\* Where an error of the rule being run is raised.
AtRule == IF rule.initialize THEN "initializer" ELSE "rule"

\* _draw_args, argument by argument: a reference, or the value of one, that
\* consuming takes out of its bundle. A strategy around it may raise.
DrawArgument ==
    /\ pc = "arguments" /\ Len(argdata) < Len(rule.arguments)
    /\ LET argument == rule.arguments[Len(argdata) + 1]
           b        == machine.bundles[argument.bundle]
       IN  \/ /\ b # <<>> /\ Drawn
              /\ \E position \in DOMAIN b :
                   LET value == machine.values[b[position]]
                   IN  /\ argdata' = Append(argdata,
                              [value |-> value,
                               shown |-> IF argument.reference THEN [name |-> b[position]]
                                         ELSE PrettyPrint(machine, value)])
                       /\ machine' = IF argument.consume
                                     THEN [machine EXCEPT !.bundles[argument.bundle] = RemoveAt(@, position)]
                                     ELSE machine
              /\ UNCHANGED <<pc, body>>
           \/ /\ b = <<>> \/ length >= BUFFER_SIZE
              /\ Raise(Overrun) /\ UNCHANGED <<length, argdata, machine>>
           \/ /\ ~argument.reference
              /\ \E kind \in UserErrors : Raise(Error(kind, AtRule))
              /\ UNCHANGED <<length, argdata, machine>>
    /\ UNCHANGED <<steps_run, rule, printed, calls, attached, run, selecting_rule>>

Line(m, values) == [targets |-> Assigned(m, rule.targets, values),
                    arguments |-> [i \in DOMAIN argdata |-> argdata[i].shown]]

Call(values) == [rule |-> rule, arguments |-> [i \in DOMAIN argdata |-> argdata[i].value],
                 values |-> values, line |-> Len(printed) + 1]

\* _run_step: the body returns, and its values are stored or, without a target,
\* checked to be None; or it raises. The line is shown either way.
RunRule ==
    /\ pc = "arguments" /\ Len(argdata) = Len(rule.arguments)
    /\ \/ \E result \in Results :
            LET stored == rule.targets # <<>>
                m == IF stored THEN AddResultsToTargets(machine, rule.targets, result.values) ELSE machine
                unwanted == ~stored /\ ReturnChecked /\ result # Single(NoValue)
            IN  /\ machine' = m
                /\ calls' = Recorded(Call(result.values))
                /\ printed' = Output(Line(m, result.values))
                /\ IF unwanted THEN Raise(Error("health", "rule"))
                               ELSE pc' = "invariants" /\ UNCHANGED body
       \/ \E kind \in UserErrors :
                /\ calls' = Recorded(Call(<<>>))
                /\ printed' = Output(Line(machine, <<>>))
                /\ Raise(Error(kind, AtRule))
                /\ UNCHANGED machine
    /\ UNCHANGED <<length, steps_run, rule, argdata, attached, run, selecting_rule>>

\* The notes an error leaves with.
Notes(error, final, program) == IF error # None /\ final THEN program ELSE <<>>

\* The finally clause: an error of teardown replaces the body's and goes without notes.
Teardown ==
    /\ pc = "teardown"
    /\ printed' = Output([teardown |-> TRUE])
    /\ \/ \E kind \in UserErrors : body' = Error(kind, "teardown") /\ UNCHANGED attached
       \/ attached' = Notes(body, is_final, printed') /\ UNCHANGED body
    /\ pc' = "ended"
    /\ UNCHANGED <<machine, length, steps_run, rule, argdata, calls, run, selecting_rule>>

--------------------------------------------------------------------------------
(* The examples of the test and what it raises. *)

\* The engine goes on generating or shrinking; a failure met may replace the one kept.
NextExample ==
    /\ pc = "ended" /\ ~is_final /\ examples < MAX_EXAMPLES
    /\ failure' \in IF Failing(body) THEN {body.kind} \cup ({failure} \ {None}) ELSE {failure}
    /\ Begin(FALSE)
    /\ examples' = examples + 1
    /\ UNCHANGED <<reported, selecting_rule>>

\* The failure kept is replayed.
FinalReplay ==
    /\ pc = "ended" /\ ~is_final
    /\ failure' \in IF Failing(body) THEN {body.kind} \cup ({failure} \ {None}) ELSE {failure} \ {None}
    /\ Begin(TRUE)
    /\ UNCHANGED <<examples, reported, selecting_rule>>

Report(error, notes) ==
    [error |-> error, notes |-> notes,
     selecting |-> error.kind = "flaky" /\ selecting_rule]

\* The replay's FlakyStrategyDefinition goes out as it is; a replay that passes
\* or raises another type is a flaky failure; otherwise the failure takes the
\* notes of the replay's error.
Outcome ==
    IF ~Failing(body) THEN Report(Error("flaky failure", "engine"), <<>>)
    ELSE IF body.kind = "flaky" /\ failure # "definition" THEN Report(body, attached)
    ELSE IF body.kind # "flaky" /\ body.kind # failure
         THEN Report(Error("flaky failure", "engine"), <<>>)
    ELSE Report(Error(failure, "generation"), attached)

Finish ==
    /\ pc = "ended" /\ (is_final \/ (failure = None /\ ~Failing(body)))
    /\ reported' = IF is_final THEN Outcome ELSE None
    /\ pc' = "done"
    /\ UNCHANGED <<example, is_final, examples, failure, selecting_rule>>

Init == /\ machine = NewMachine
        /\ length = 0 /\ steps_run = 0 /\ rule = None /\ argdata = <<>>
        /\ body = None /\ printed = <<>> /\ calls = <<>> /\ attached = <<>>
        /\ is_final = FALSE
        /\ examples = 1
        /\ selecting_rule = FALSE
        /\ failure = None
        /\ reported = None
        /\ pc = "factory"

Next == \/ Construct \/ CheckInvariants \/ DrawStop \/ SelectInitializer \/ SelectRule
        \/ DrawArgument \/ RunRule \/ Teardown
        \/ NextExample \/ FinalReplay \/ Finish

Spec == Init /\ [][Next]_vars

--------------------------------------------------------------------------------
(* Properties. *)

\* What the line shown for a call assigns: names, by target and value.
Shown(i)      == printed[calls[i].line]
Places(i)     == UNION {{t} \X DOMAIN Shown(i).targets[t] : t \in DOMAIN Shown(i).targets}
NameAt(i, p)  == Shown(i).targets[p[1]][p[2]]
ValueAt(i, p) == calls[i].values[p[2]]

\* The program shown for an example, run as Python, makes the calls that were
\* made: no name is assigned twice, and each argument shown is a literal or a
\* name that an earlier line gave the very value the argument had. Names must
\* outlive what consuming takes out of the bundles, and the slices of names
\* shown must match how the results were stored (_new_name,
\* _add_results_to_targets, _repr_step, _pretty_print, _run_step).
TraceReproduces ==
    CanShow =>
        /\ {k \in DOMAIN printed : "targets" \in DOMAIN printed[k]}
             = {calls[i].line : i \in DOMAIN calls}
        /\ \A i, j \in DOMAIN calls :
             /\ i < j => calls[i].line < calls[j].line
             /\ \A p \in Places(i), o \in Places(j) : NameAt(i, p) = NameAt(j, o) => i = j /\ p = o
        /\ \A i \in DOMAIN calls :
             /\ DOMAIN Shown(i).arguments = DOMAIN calls[i].arguments
             /\ \A k \in DOMAIN calls[i].arguments :
                  LET shown == Shown(i).arguments[k]
                      value == calls[i].arguments[k]
                  IN  IF "name" \in DOMAIN shown
                      THEN \E j \in 1 .. i - 1 : \E p \in Places(j) :
                             NameAt(j, p) = shown.name /\ ValueAt(j, p) = value
                      ELSE value \in Singletons /\ shown.literal = value

\* No ordinary rule was selected yet; the step's selection has failed.
Initializing    == /\ rule = None \/ rule.initialize
                   /\ \A i \in DOMAIN calls : calls[i].rule.initialize
SelectionFailed == rule = None /\ steps_run > Len(calls)

\* What the user is told of a failure is true. The note that a rule was being
\* selected is on every FlakyStrategyDefinition raised while selecting. It is on
\* none of an ordinary rule, of an invariant after one or of a teardown after
\* one, but that teardown's that follows a failed selection: only until an
\* ordinary rule was selected in the replay is the flag as an earlier example left it.
\* The program attached ends with teardown, it was collected by a final replay,
\* and it is missing from an error that replay reproduced only when teardown
\* itself or the machine's constructor failed in it.
FailureToldTruly ==
    (pc = "done" /\ reported # None) =>
        /\ reported.error.kind = "flaky" =>
              /\ reported.error.at = "select" => reported.selecting
              /\ reported.selecting => \/ reported.error.at = "select"
                                       \/ reported.error.at = "teardown" /\ SelectionFailed
                                       \/ Initializing
        /\ reported.notes # <<>> => /\ Failing(body)
                                    /\ Last(reported.notes) = [teardown |-> TRUE]
                                    /\ body.at \notin {"teardown", "factory"}
        /\ reported.notes = <<>> => reported.error.at = "engine" \/ body.at \in {"teardown", "factory"}

================================================================================
