-------------------------------- MODULE MCStateful --------------------------------
(* A small machine: a bundle that is filled, consumed and shown.               *)
EXTENDS Stateful

CONSTANTS x, y

Reference(b) == [bundle |-> b, consume |-> FALSE, reference |-> TRUE]
Consumed(b)  == [bundle |-> b, consume |-> TRUE, reference |-> TRUE]
Nested(b)    == [bundle |-> b, consume |-> FALSE, reference |-> FALSE]

ARule(targets, arguments, initialize, conditional) ==
    [targets |-> targets, arguments |-> arguments, initialize |-> initialize, conditional |-> conditional]

\* One rule fills both bundles at the start, one moves a value from a to b while
\* a precondition holds, one shows two.
MCRules == {ARule(<<"a", "b">>, <<>>, TRUE, FALSE),
            ARule(<<"b">>, <<Consumed("a")>>, FALSE, TRUE),
            ARule(<<"a">>, <<Nested("b"), Consumed("b")>>, FALSE, FALSE),
            ARule(<<>>, <<Reference("b")>>, FALSE, FALSE)}

MCInvariants == <<[check_during_init |-> FALSE, conditional |-> TRUE]>>

MCResults == {Single("zero"), Single(x), Multiple(<<>>), Multiple(<<x, y>>)}

================================================================================
