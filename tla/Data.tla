---------------------------------- MODULE Data ----------------------------------
(* data.rs: ConjectureData, the execution context of one example, as a value. *)
(* An operator takes the data before a call and gives the data after it; one  *)
(* that draws gives the set of outcomes the call may have. An outcome is      *)
(* [cd, stop, value]: stop is TRUE when the call raised StopTest.             *)
(*                                                                            *)
(* A choice is whatever Samples gives, its constraints are whatever the       *)
(* caller passes: the kernels of choice.rs come in as constant operators. The *)
(* trail and the labels of the spans, which nothing reads, are left out.      *)
EXTENDS Integers, Sequences, SequencesExt

CONSTANTS BUFFER_SIZE,       \* the limit on the length of an example
          None,              \* no limit, no origin, no value
          Permits(_, _),     \* Permits(v, c): v has the type of c and c permits it
          Simplest(_),       \* the values of index 0, none when too large
          Samples(_),        \* the values the provider may sample
          SizeOf(_)          \* the encoded size of a value

OVERRUN     == 0
INVALID     == 1
VALID       == 2
INTERESTING == 3

--------------------------------------------------------------------------------
(* Spans and the end of the example. *)

StartSpan(cd) == [cd EXCEPT !.depth = @ + 1,
                            !.max_depth = IF cd.depth + 1 > @ THEN cd.depth + 1 ELSE @]

\* Mutant: spans are closed again after freeze closed them.
StopSpanAlways(cd, discard) == [cd EXCEPT !.has_discards = @ \/ discard, !.depth = @ - 1]

StopSpan(cd, discard) ==
    IF cd.frozen THEN cd
    ELSE [cd EXCEPT !.has_discards = @ \/ discard, !.depth = @ - 1]

\* Every open span is closed.
Freeze(cd) == IF cd.frozen THEN cd
              ELSE [cd EXCEPT !.depth = IF @ >= 0 THEN -1 ELSE @, !.frozen = TRUE]

Mark(cd, status, origin) ==
    Freeze([cd EXCEPT !.interesting_origin = origin, !.status = status])

NoteDiscard(cd) == [cd EXCEPT !.has_discards = TRUE]

Got(cd, value)      == [cd |-> cd, stop |-> FALSE, value |-> value]
Stopped(cd, status) == [cd |-> Mark(cd, status, None), stop |-> TRUE, value |-> None]

--------------------------------------------------------------------------------
(* Construction. An entry of the prefix is a value to replay or a template    *)
(* that stands for count (or any number of) simplest choices.                 *)

Replayed(v)     == [template |-> FALSE, value |-> v, count |-> None]
Template(count) == [template |-> TRUE, value |-> None, count |-> count]

Build(prefix, max_choices) ==
    StartSpan([max_length |-> BUFFER_SIZE, max_choices |-> max_choices,
               length |-> 0, index |-> 0, status |-> VALID, frozen |-> FALSE,
               depth |-> -1, max_depth |-> 0, has_discards |-> FALSE,
               prefix |-> prefix, nodes |-> <<>>, misaligned |-> FALSE,
               interesting_origin |-> None])

NewGenerate == Build(<<>>, None)
NewSimplest == Build(<<Template(None)>>, None)

NewForChoices(choices) == Build([i \in DOMAIN choices |-> Replayed(choices[i])], Len(choices))

\* for_choices of a prefix with templates: an unbounded one lifts the limit.
PrefixChoiceCount(prefix) ==
    IF \E i \in DOMAIN prefix : prefix[i].template /\ prefix[i].count = None THEN None
    ELSE FoldLeft(LAMBDA n, e : n + (IF ~e.template THEN 1
                                     ELSE IF e.count > 0 THEN e.count ELSE 0), 0, prefix)

ForChoices(prefix) == Build(prefix, PrefixChoiceCount(prefix))

ChoicesOf(cd) == [i \in DOMAIN cd.nodes |-> cd.nodes[i].value]

--------------------------------------------------------------------------------
(* Drawing a choice. forced is the set of the forced value, if there is one.  *)

RecordNode(cd, value, c, forced) ==
    [cd EXCEPT !.length = @ + SizeOf(value),
               !.nodes = Append(@, [value |-> value, constraints |-> c,
                                    was_forced |-> forced # {}])]

\* index_0 of the constraints, or an overrun where there is none.
SimplestOr(cd, c) ==
    IF Simplest(c) = {} THEN {Stopped(cd, OVERRUN)} ELSE {Got(cd, v) : v \in Simplest(c)}

\* A template is never used up: only its count stops it.
FromTemplate(cd, c, forced) ==
    LET entry == cd.prefix[cd.index + 1]
        spent == IF entry.count = None THEN cd
                 ELSE [cd EXCEPT !.prefix[cd.index + 1].count = @ - 1]
        Spend(o) == IF o.stop THEN o
                    ELSE IF entry.count # None /\ entry.count - 1 < 0
                         THEN Stopped(spent, OVERRUN)
                         ELSE Got(spent, o.value)
    IN  {Spend(o) : o \in IF forced # {} THEN {Got(cd, v) : v \in forced}
                          ELSE SimplestOr(cd, c)}

\* A value that is not permitted gives way to the simplest one, and is used up.
FromValue(cd, c) ==
    LET raw     == cd.prefix[cd.index + 1].value
        Used(o) == IF o.stop THEN o ELSE Got([o.cd EXCEPT !.index = @ + 1], o.value)
    IN  IF Permits(raw, c) THEN {Used(Got(cd, raw))}
        ELSE {Used(o) : o \in SimplestOr([cd EXCEPT !.misaligned = TRUE], c)}

\* Mutant: a forced draw leaves the prefix alone.
PopUnforced(cd, c, forced) ==
    IF forced # {} THEN {Got(cd, v) : v \in forced}
    ELSE IF cd.prefix[cd.index + 1].template THEN FromTemplate(cd, c, forced) ELSE FromValue(cd, c)

PopChoice(cd, c, forced) ==
    IF cd.prefix[cd.index + 1].template THEN FromTemplate(cd, c, forced) ELSE FromValue(cd, c)

\* A forced value replaces the replayed one, whose place in the prefix is used up.
Override(o, forced) == IF o.stop \/ forced = {} THEN {o} ELSE {Got(o.cd, v) : v \in forced}

Observe(o, c, forced) ==
    LET recorded == RecordNode(o.cd, o.value, c, forced)
    IN  IF o.stop THEN o
        ELSE IF recorded.length > recorded.max_length THEN Stopped(recorded, OVERRUN)
        ELSE Got(recorded, o.value)

\* Mutant: only the length is limited.
FullByLength(cd) == cd.length >= cd.max_length

Full(cd) == cd.length >= cd.max_length \/ Len(cd.nodes) = cd.max_choices

DrawInner(cd, c, observe, forced) ==
    LET in_prefix == observe /\ cd.index < Len(cd.prefix)
        raw == IF in_prefix THEN PopChoice(cd, c, forced)
               ELSE IF forced = {} THEN {Got(cd, v) : v \in Samples(c)}
               ELSE {Got(cd, v) : v \in forced}
        settled == UNION {Override(o, forced) : o \in raw}
    IN  IF Full(cd) THEN {Stopped(cd, OVERRUN)}
        ELSE IF observe THEN {Observe(o, c, forced) : o \in settled} ELSE settled

Draw(cd, c) == DrawInner(cd, c, TRUE, {})

================================================================================
