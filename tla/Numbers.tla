-------------------------------- MODULE Numbers --------------------------------
(* The few operations on numbers that the modules of values share.           *)
EXTENDS Integers

Abs(n) == IF n < 0 THEN -n ELSE n

Lesser(a, b)  == IF a < b THEN a ELSE b
Greater(a, b) == IF a < b THEN b ELSE a

\* b to the n, by recursion: what proofs about it need is then proved, not assumed.
Power(b, n) == LET power[k \in Nat] == IF k = 0 THEN 1 ELSE b * power[k - 1] IN power[n]

================================================================================
