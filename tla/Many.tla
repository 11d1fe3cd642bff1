---------------------------------- MODULE Many ----------------------------------
(* draw.rs: Many, which decides when a collection of variable size goes on.   *)
EXTENDS Data

CONSTANTS ContinueC,    \* the constraints of the boolean that goes on (p_continue)
          True, False   \* the two boolean choices

NewMany(min_size, max_size) ==
    [min_size |-> min_size, max_size |-> max_size, count |-> 0,
     rejections |-> 0, force_stop |-> FALSE]

\* Mutant: one element too many.
ForcedMoreOpen(many) == IF many.force_stop                   THEN {False}
                        ELSE IF many.count < many.min_size THEN {True}
                        ELSE IF many.count > many.max_size THEN {False}
                        ELSE {}

\* The answer that is forced on the boolean, if any.
ForcedMore(many) == IF many.force_stop                    THEN {False}
                    ELSE IF many.count < many.min_size  THEN {True}
                    ELSE IF many.count >= many.max_size THEN {False}
                    ELSE {}

\* Whether the collection goes on. One of a fixed size draws nothing to decide.
MoreOutcomes(many, cd) ==
    IF many.min_size = many.max_size THEN {Got(cd, IF many.count < many.min_size THEN True ELSE False)}
    ELSE DrawInner(cd, ContinueC, TRUE, ForcedMore(many))

Counted(many) == [many EXCEPT !.count = @ + 1]

\* Mutant: a rejected element is taken off twice.
RejectedTwice(many) == [many EXCEPT !.count = @ - 2, !.rejections = @ + 1]

\* Mutant: the rejections are not counted.
RejectedForgotten(many) == [many EXCEPT !.count = @ - 1]

Rejected(many) == [many EXCEPT !.count = @ - 1, !.rejections = @ + 1]

\* rejections > max(3, 2 * count), of the counts after the rejection
TooMany(many) == many.rejections > 3 /\ many.rejections > 2 * many.count

\* After too many rejections: the example is invalid below the minimal size,
\* complete from it on.
Hopeless(many) == TooMany(many) /\ many.count < many.min_size

Settled(many) == IF TooMany(many) /\ many.count >= many.min_size
                 THEN [many EXCEPT !.force_stop = TRUE] ELSE many

================================================================================
