------------------------------ MODULE MCRunner ------------------------------
(* Runner for TLC: two origins, three choice sequences, chosen tests.      *)
EXTENDS Runner

CONSTANTS A, B

\* Deterministic tests with the given outcomes.
Det(S) == { [c \in Ranks |-> {f[c]}] : f \in [Ranks -> S] }

\* All settings whose fields are in the given sets.
Settings(multi, useDb, shrinks, suppress, slow, space) ==
  [multi : multi, useDb : useDb, maxShrinks : shrinks,
   filterSuppressed : suppress, slowChecked : slow, space : space]

\* One run under every setting.
SearchTests == Det({"valid", "invalid", A, B})
SearchConfigs == Settings(BOOLEAN, {TRUE}, {0, 3}, BOOLEAN, {TRUE},
                          {"finite", "forced", "infinite"})

\* Several runs of a test that may be edited in between.
ReplayTests == Det({"valid", A, B})
ReplayConfigs == Settings(BOOLEAN, BOOLEAN, {3}, {FALSE}, {FALSE}, {"forced"})

\* Every kind of test, flaky ones and ones that abort included.
FlakyTests ==
  [Ranks -> {{o} : o \in {"valid", "invalid", "overrun", "abort", A, B}}
            \cup {{"valid", A}, {A, B}}]
FlakyConfigs == Settings(BOOLEAN, {TRUE}, {0, 1}, {FALSE}, {FALSE}, {"infinite"})
=============================================================================
