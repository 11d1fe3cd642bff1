----------------------------- MODULE Values_proofs -----------------------------
(* The kernels of Values, for every constraint, alphabet and index: what the *)
(* recursive helpers compute, that interval sets behave as sets, and that     *)
(* positions, orders, indices and values are inverse to each other.           *)
EXTENDS MCValues, WellFoundedInduction, FiniteSetTheorems, SequenceTheorems, FiniteSetsExt, TLAPS

--------------------------------------------------------------------------------
(* Induction and recursion. *)

\* Induction over the naturals, for a set: a set that holds 0 and with n also n + 1 holds
\* them all. Otherwise the least number outside it would have a predecessor outside it.
LEMMA NatSetInduction ==
  ASSUME NEW T, 0 \in T, \A n \in Nat : n \in T => n + 1 \in T
  PROVE  Nat \subseteq T
<1> DEFINE S == Nat \ T
<1>1. CASE S # {}
  <2>1. PICK x \in S : \A y \in S : ~ (<<y, x>> \in OpToRel(<, Nat))
    <3> HIDE DEF S
    <3>1. S \subseteq Nat
      BY DEF S
    <3> QED BY <1>1, <3>1, WFMin, NatLessThanWellFounded
  <2>2. x # 0 /\ x - 1 \in Nat /\ x - 1 \notin T
    BY SMT
  <2>3. <<x - 1, x>> \in OpToRel(<, Nat)
    BY <2>2 DEF OpToRel
  <2> QED BY <2>1, <2>2, <2>3
<1> QED BY <1>1

\* A recursion on S with values in V: where it goes down to, getting smaller; where it does
\* not (down is the argument itself) the base is the value.
Descends(S, V, size, down, base, step) ==
    /\ size \in [S -> Nat] /\ down \in [S -> S] /\ base \in [S -> V] /\ step \in [S \X V -> V]
    /\ \A x \in S : down[x] # x => size[down[x]] < size[x]

Typed(p, S, V) == \A x \in S : p[x] \in V

Follows(p, S, V, base, step, down) ==
    /\ \A x \in S : down[x] = x => p[x] = base[x]
    /\ \A x \in S : down[x] # x /\ p[down[x]] \in V => p[x] = step[<<x, p[down[x]]>>]

Recurses(f, S, base, step, down) ==
    \A x \in S : f[x] = IF down[x] = x THEN base[x] ELSE step[<<x, f[down[x]]>>]

\* A recursive definition whose argument gets smaller defines a function.
LEMMA Recursion ==
  ASSUME NEW S, NEW V, NEW size, NEW down, NEW base, NEW step,
         Descends(S, V, size, down, base, step)
  PROVE  \E f \in [S -> V] : Recurses(f, S, base, step, down)
<1>0. /\ size \in [S -> Nat] /\ down \in [S -> S] /\ base \in [S -> V] /\ step \in [S \X V -> V]
      /\ \A x \in S : down[x] # x => size[down[x]] < size[x]
  BY DEF Descends
<1> USE <1>0
<1> DEFINE Below(n) == {x \in S : size[x] < n}
           Good(n)  == {g \in [Below(n) -> V] : Recurses(g, Below(n), base, step, down)}
           T == {n \in Nat : Good(n) # {}}
<1>1. 0 \in T
  <2>1. Below(0) = {}
    BY SMT
  <2>2. [x \in Below(0) |-> base[x]] \in Good(0)
    BY <2>1 DEF Recurses
  <2> QED BY <2>2
<1>2. ASSUME NEW n \in Nat, n \in T PROVE n + 1 \in T
  <2>1. PICK g : g \in Good(n)
    BY <1>2
  <2> DEFINE h == [x \in Below(n + 1) |-> IF x \in Below(n) THEN g[x]
                                ELSE IF down[x] = x THEN base[x] ELSE step[<<x, g[down[x]]>>]]
  <2>2. ASSUME NEW x \in Below(n + 1), down[x] # x PROVE down[x] \in Below(n)
    BY <2>2, SMT
  <2>3. \A x \in Below(n) : x \in Below(n + 1)
    BY SMT
  <2>4. g \in [Below(n) -> V] /\ Recurses(g, Below(n), base, step, down)
    BY <2>1
  <2>6. h \in [Below(n + 1) -> V]
    <3>1. ASSUME NEW x \in Below(n + 1) PROVE h[x] \in V
      BY <2>2, <2>4
    <3> QED BY <3>1
  <2>7. Recurses(h, Below(n + 1), base, step, down)
    <3>1. ASSUME NEW x \in Below(n + 1)
          PROVE  h[x] = IF down[x] = x THEN base[x] ELSE step[<<x, h[down[x]]>>]
      <4>1. down[x] # x => down[x] \in Below(n) /\ h[down[x]] = g[down[x]]
        BY <2>2, <2>3
      <4>2. x \in Below(n) => g[x] = IF down[x] = x THEN base[x] ELSE step[<<x, g[down[x]]>>]
        BY <2>4 DEF Recurses
      <4> QED BY <4>1, <4>2
    <3> HIDE DEF h
    <3> QED BY <3>1 DEF Recurses
  <2>8. h \in Good(n + 1)
    <3> HIDE DEF h
    <3> QED BY <2>6, <2>7
  <2>9. Good(n + 1) # {} /\ n + 1 \in Nat
    <3> HIDE DEF h, Good
    <3> QED BY <2>8
  <2> HIDE DEF h, Good
  <2> QED BY <2>9
<1>3. ASSUME NEW m \in Nat, NEW n \in Nat, NEW g \in Good(m), NEW h \in Good(n), NEW y \in Below(m) \cap Below(n)
      PROVE  g[y] = h[y]
  <2> DEFINE U == {k \in Nat : \A x \in Below(m) \cap Below(n) : size[x] < k => g[x] = h[x]}
  <2>1. 0 \in U
    BY SMT
  <2>2. ASSUME NEW k \in Nat, k \in U PROVE k + 1 \in U
    <3>1. ASSUME NEW x \in Below(m) \cap Below(n), size[x] < k + 1 PROVE g[x] = h[x]
      <4>1. /\ g[x] = IF down[x] = x THEN base[x] ELSE step[<<x, g[down[x]]>>]
            /\ h[x] = IF down[x] = x THEN base[x] ELSE step[<<x, h[down[x]]>>]
        BY DEF Recurses
      <4>2. down[x] # x => down[x] \in Below(m) \cap Below(n) /\ size[down[x]] < k
        BY <3>1, SMT
      <4>3. down[x] # x => g[down[x]] = h[down[x]]
        BY <2>2, <4>2
      <4> QED BY <4>1, <4>3
    <3> QED BY <3>1
  <2>3. Nat \subseteq U
    <3> HIDE DEF U
    <3> QED BY <2>1, <2>2, NatSetInduction
  <2>4. size[y] + 1 \in Nat /\ size[y] < size[y] + 1
    BY SMT
  <2> QED BY <2>3, <2>4
<1>4. \A n \in Nat : Good(n) # {}
  <2>1. Nat \subseteq T
    <3> HIDE DEF T
    <3> QED BY <1>1, <1>2, NatSetInduction
  <2> QED BY <2>1
<1> DEFINE Pick(x) == CHOOSE g : g \in Good(size[x] + 1)
           f == [x \in S |-> Pick(x)[x]]
<1>5. ASSUME NEW x \in S PROVE Pick(x) \in Good(size[x] + 1) /\ x \in Below(size[x] + 1)
  <2>1. size[x] + 1 \in Nat /\ size[x] < size[x] + 1
    BY SMT
  <2> HIDE DEF Good
  <2> QED BY <1>4, <2>1
<1>6. f \in [S -> V]
  BY <1>5
<1>7. ASSUME NEW x \in S
      PROVE  f[x] = IF down[x] = x THEN base[x] ELSE step[<<x, f[down[x]]>>]
  <2>1. Pick(x)[x] = IF down[x] = x THEN base[x] ELSE step[<<x, Pick(x)[down[x]]>>]
    BY <1>5 DEF Recurses
  <2>2. down[x] # x => Pick(x)[down[x]] = Pick(down[x])[down[x]]
    <3>1. down[x] # x => down[x] \in Below(size[x] + 1) \cap Below(size[down[x]] + 1)
      BY SMT
    <3>2. size[x] + 1 \in Nat /\ size[down[x]] + 1 \in Nat /\ down[x] \in S
      BY SMT
    <3>3. Pick(x) \in Good(size[x] + 1) /\ Pick(down[x]) \in Good(size[down[x]] + 1)
      BY <1>5, <3>2
    <3> HIDE DEF Pick, Good, Below
    <3> QED BY <1>3, <3>1, <3>2, <3>3
  <2>3. f[x] = Pick(x)[x] /\ f[down[x]] = Pick(down[x])[down[x]]
    <3> HIDE DEF Pick
    <3> QED OBVIOUS
  <2> HIDE DEF f, Pick
  <2> QED BY <2>1, <2>2, <2>3
<1> HIDE DEF f
<1> QED BY <1>6, <1>7 DEF Recurses

\* What satisfies the equation of a recursion as far as its values are of the type, is.
LEMMA RecursionType ==
  ASSUME NEW S, NEW V, NEW size, NEW down, NEW base, NEW step,
         Descends(S, V, size, down, base, step),
         NEW p, Follows(p, S, V, base, step, down)
  PROVE  Typed(p, S, V)
<1>0. /\ size \in [S -> Nat] /\ down \in [S -> S] /\ base \in [S -> V] /\ step \in [S \X V -> V]
      /\ \A x \in S : down[x] # x => size[down[x]] < size[x]
      /\ \A x \in S : down[x] = x => p[x] = base[x]
      /\ \A x \in S : down[x] # x /\ p[down[x]] \in V => p[x] = step[<<x, p[down[x]]>>]
  BY DEF Descends, Follows
<1> USE <1>0
<1> DEFINE T == {n \in Nat : \A x \in S : size[x] < n => p[x] \in V}
<1>1. 0 \in T
  BY SMT
<1>2. ASSUME NEW n \in Nat, n \in T PROVE n + 1 \in T
  <2>1. ASSUME NEW x \in S, size[x] < n + 1 PROVE p[x] \in V
    <3>1. CASE down[x] = x
      BY <3>1
    <3>2. CASE down[x] # x
      <4>1. size[down[x]] < n
        BY <2>1, <3>2, SMT
      <4>2. p[down[x]] \in V
        BY <1>2, <4>1
      <4> QED BY <3>2, <4>2
    <3> QED BY <3>1, <3>2
  <2> QED BY <2>1
<1>3. Nat \subseteq T
  <2> HIDE DEF T
  <2> QED BY <1>1, <1>2, NatSetInduction
<1>4. \A x \in S : size[x] + 1 \in Nat /\ size[x] < size[x] + 1
  BY <1>0, SMT
<1> QED BY <1>3, <1>4 DEF Typed

\* Power is the function its recursion describes.
LEMMA PowerRec ==
  ASSUME NEW b \in Int, NEW n \in Nat
  PROVE  Power(b, 0) = 1 /\ Power(b, n + 1) = b * Power(b, n)
<1> DEFINE base == [k \in Nat |-> 1]
           step == [kv \in Nat \X Int |-> b * kv[2]]
           down == [k \in Nat |-> IF k = 0 THEN 0 ELSE k - 1]
           size == [k \in Nat |-> k]
           Is(p) == p = [k \in Nat |-> IF k = 0 THEN 1 ELSE b * p[k - 1]]
<1>1. PICK f \in [Nat -> Int] : Recurses(f, Nat, base, step, down)
  <2>1. base \in [Nat -> Int] /\ step \in [Nat \X Int -> Int] /\ down \in [Nat -> Nat] /\ size \in [Nat -> Nat]
    BY SMT
  <2>2. \A k \in Nat : down[k] # k => size[down[k]] < size[k]
    BY SMT
  <2>3. Descends(Nat, Int, size, down, base, step)
    BY <2>1, <2>2 DEF Descends
  <2> HIDE DEF base, step, down, size
  <2> QED BY <2>3, Recursion
<1>2. Is(f)
  <2>1. ASSUME NEW k \in Nat PROVE f[k] = IF k = 0 THEN 1 ELSE b * f[k - 1]
    <3>1. f[k] = IF down[k] = k THEN base[k] ELSE step[<<k, f[down[k]]>>]
      BY <1>1 DEF Recurses
    <3> QED BY <3>1, SMT
  <2> QED BY <2>1, <1>1
<1> DEFINE p == CHOOSE q : Is(q)
<1>3. Is(p)
  <2> HIDE DEF Is
  <2> QED BY <1>2
<1>4. \A k \in Nat : Power(b, k) = p[k]
  BY DEF Power
<1> HIDE DEF p
<1>5. p[0] = 1 /\ p[n + 1] = b * p[n]
  BY <1>3, SMT
<1> QED BY <1>4, <1>5, SMT


--------------------------------------------------------------------------------
(* Powers. *)
LEMMA PowerNat ==
  ASSUME NEW b \in Nat PROVE \A n \in Nat : Power(b, n) \in Nat
<1> DEFINE T == {n \in Nat : Power(b, n) \in Nat}
<1>1. 0 \in T
  BY PowerRec
<1>2. ASSUME NEW n \in Nat, n \in T PROVE n + 1 \in T
  <2>1. Power(b, n + 1) = b * Power(b, n)
    BY PowerRec
  <2> QED BY <1>2, <2>1
<1>3. Nat \subseteq T
  <2> HIDE DEF T
  <2> QED BY <1>1, <1>2, NatSetInduction
<1> QED BY <1>3

\* A power of a positive number is positive.
LEMMA PowerPositive ==
  ASSUME NEW b \in Nat \ {0} PROVE \A n \in Nat : Power(b, n) \in Nat \ {0}
<1> DEFINE T == {n \in Nat : Power(b, n) \in Nat \ {0}}
<1>1. 0 \in T
  BY PowerRec
<1>2. ASSUME NEW n \in Nat, n \in T PROVE n + 1 \in T
  <2>1. Power(b, n + 1) = b * Power(b, n) /\ Power(b, n) > 0 /\ Power(b, n) \in Nat
    BY <1>2, PowerRec
  <2>2. b * Power(b, n) > 0 /\ b * Power(b, n) \in Nat
    BY <2>1, SMT
  <2> QED BY <2>1, <2>2
<1>3. Nat \subseteq T
  <2> HIDE DEF T
  <2> QED BY <1>1, <1>2, NatSetInduction
<1> QED BY <1>3

\* Exponents add up.
LEMMA PowerSum ==
  ASSUME NEW b \in Nat, NEW m \in Nat PROVE \A n \in Nat : Power(b, m + n) = Power(b, m) * Power(b, n)
<1> DEFINE T == {n \in Nat : Power(b, m + n) = Power(b, m) * Power(b, n)}
<1>1. 0 \in T
  <2>1. Power(b, 0) = 1 /\ Power(b, m) \in Nat
    BY PowerRec, PowerNat
  <2> QED BY <2>1
<1>2. ASSUME NEW n \in Nat, n \in T PROVE n + 1 \in T
  <2>1. Power(b, (m + n) + 1) = b * Power(b, m + n)
    BY PowerRec
  <2>2. Power(b, n + 1) = b * Power(b, n)
    BY PowerRec
  <2>6. Power(b, m) \in Nat /\ Power(b, n) \in Nat
    BY PowerNat
  <2>7. (m + n) + 1 = m + (n + 1)
    BY SMT
  <2>3. (m + n) + 1 = m + (n + 1) /\ Power(b, m) \in Nat /\ Power(b, n) \in Nat
    BY <2>6, <2>7
  <2>4. ASSUME NEW x \in Nat, NEW y \in Nat PROVE b * (x * y) = x * (b * y)
    BY SMT
  <2>5. Power(b, m + (n + 1)) = Power(b, m) * Power(b, n + 1)
    BY <1>2, <2>1, <2>2, <2>3, <2>4
  <2> QED BY <2>5
<1>3. Nat \subseteq T
  <2> HIDE DEF T
  <2> QED BY <1>1, <1>2, NatSetInduction
<1> QED BY <1>3

\* A power outgrows its exponent.
LEMMA TwoGrows ==
  ASSUME NEW b \in Nat, b > 1 PROVE \A n \in Nat : Power(b, n) > n
<1> DEFINE T == {n \in Nat : Power(b, n) > n}
<1>1. 0 \in T
  BY PowerRec
<1>2. ASSUME NEW n \in Nat, n \in T PROVE n + 1 \in T
  <2>1. Power(b, n + 1) = b * Power(b, n) /\ Power(b, n) > n /\ Power(b, n) \in Nat
    BY <1>2, PowerRec, PowerNat
  <2>2. b * Power(b, n) > n + 1
    BY <2>1, SMT
  <2> QED BY <2>1, <2>2
<1>3. Nat \subseteq T
  <2> HIDE DEF T
  <2> QED BY <1>1, <1>2, NatSetInduction
<1> QED BY <1>3

--------------------------------------------------------------------------------
(* Division. *)
LEMMA Division ==
  ASSUME NEW n \in Nat, NEW d \in Nat \ {0}
  PROVE  n \div d \in Nat /\ n % d \in 0 .. d - 1 /\ n = d * (n \div d) + (n % d)
  BY SMT

\* There is only one quotient and one remainder.
LEMMA DivisionUnique ==
  ASSUME NEW d \in Nat \ {0}, NEW q \in Int, NEW r \in 0 .. d - 1, NEW n \in Int, n = d * q + r
  PROVE  n \div d = q /\ n % d = r
  BY SMT

--------------------------------------------------------------------------------
(* Least and greatest. *)
LEMMA LeastNat ==
  ASSUME NEW S \in SUBSET Nat, S # {}
  PROVE  \E n \in S : \A m \in S : n <= m
<1>1. PICK n \in S : \A m \in S : ~ (<<m, n>> \in OpToRel(<, Nat))
  BY WFMin, NatLessThanWellFounded
<1>2. \A m \in S : ~(m < n)
  BY <1>1 DEF OpToRel
<1> QED BY <1>2

\* Min is the least element.
LEMMA MinOf ==
  ASSUME NEW S \in SUBSET Nat, S # {}
  PROVE  Min(S) \in S /\ \A m \in S : Min(S) <= m
BY LeastNat DEF Min

\* Max is the greatest element of a bounded set.
LEMMA MaxOf ==
  ASSUME NEW S \in SUBSET Int, S # {}, NEW bound \in Int, \A m \in S : m <= bound
  PROVE  Max(S) \in S /\ \A m \in S : m <= Max(S)
<1> DEFINE T == {bound - m : m \in S}
<1>1. T \in SUBSET Nat /\ T # {}
  <2>1. \A m \in S : bound - m \in Nat
    BY SMT
  <2> QED BY <2>1
<1>2. PICK t \in T : \A u \in T : t <= u
  <2> HIDE DEF T
  <2> QED BY <1>1, LeastNat
<1>3. PICK n \in S : t = bound - n
  BY <1>2
<1>4. ASSUME NEW m \in S PROVE n >= m
  <2>1. bound - m \in T
    OBVIOUS
  <2>2. t <= bound - m
    BY <1>2, <2>1
  <2> QED BY <1>3, <2>2, SMT
<1>5. Max(S) \in S /\ \A m \in S : Max(S) >= m
  BY <1>4 DEF Max
<1>6. Max(S) \in Int
  BY <1>5
<1> QED BY <1>5, <1>6, SMT

--------------------------------------------------------------------------------
(* Folds over the positions of a sequence. *)
Folds(g, n, base, step) ==
    \A s \in SUBSET (1 .. n) : g[s] = IF s = {} THEN base ELSE step[<<g[s \ {Max(s)}], Max(s)>>]

\* The last of some positions.
LEMMA MaxPosition ==
  ASSUME NEW n \in Nat, NEW s \in SUBSET (1 .. n), s # {}
  PROVE  Max(s) \in s /\ \A m \in s : m <= Max(s)
<1>1. s \in SUBSET Int /\ \A m \in s : m <= n
  BY SMT
<1>2. n \in Int
  OBVIOUS
<1> QED BY <1>1, <1>2, MaxOf

\* A fold from the last position down, the way MapThenFoldSet recurses, is a function.
LEMMA FoldExists ==
  ASSUME NEW n \in Nat, NEW V, NEW base \in V, NEW step \in [V \X (1 .. n) -> V]
  PROVE  \E g \in [SUBSET (1 .. n) -> V] : Folds(g, n, base, step)
<1> DEFINE Good(k) == {g \in [SUBSET (1 .. k) -> V] : Folds(g, k, base, step)}
           T == {k \in Nat : k <= n => Good(k) # {}}
<1>1. 0 \in T
  <2>1. 1 .. 0 = {}
    BY SMT
  <2>2. [s \in SUBSET (1 .. 0) |-> base] \in Good(0)
    BY <2>1 DEF Folds
  <2> QED BY <2>2
<1>2. ASSUME NEW k \in Nat, k \in T PROVE k + 1 \in T
  <2> SUFFICES ASSUME k + 1 <= n PROVE Good(k + 1) # {}
    <3> HIDE DEF Good
    <3> QED BY <1>2
  <2>0. Good(k) # {}
    <3>1. k <= n
      BY SMT
    <3> HIDE DEF Good
    <3> QED BY <1>2, <3>1
  <2>1. PICK g : g \in [SUBSET (1 .. k) -> V] /\ Folds(g, k, base, step)
    BY <2>0
  <2> DEFINE h == [s \in SUBSET (1 .. k + 1) |->
                     IF k + 1 \in s THEN step[<<g[s \ {k + 1}], k + 1>>] ELSE g[s]]
  <2>2. ASSUME NEW s \in SUBSET (1 .. k + 1)
        PROVE  (k + 1 \notin s => s \in SUBSET (1 .. k)) /\ s \ {k + 1} \in SUBSET (1 .. k)
    BY SMT
  <2>3. k + 1 \in 1 .. n /\ \A s \in SUBSET (1 .. k) : k + 1 \notin s /\ s \in SUBSET (1 .. k + 1)
    BY SMT
  <2>8. k + 1 \in Nat
    BY SMT
  <2>4. h \in [SUBSET (1 .. k + 1) -> V]
    <3>1. ASSUME NEW s \in SUBSET (1 .. k + 1) PROVE h[s] \in V
      BY <2>1, <2>2, <2>3
    <3> QED BY <3>1
  <2>5. ASSUME NEW s \in SUBSET (1 .. k + 1)
        PROVE  h[s] = IF s = {} THEN base ELSE step[<<h[s \ {Max(s)}], Max(s)>>]
    <3>1. CASE k + 1 \in s
      <4>1. Max(s) = k + 1
        <5>1. Max(s) \in s /\ \A m \in s : m <= Max(s)
          BY <2>8, <3>1, MaxPosition
        <5>2. Max(s) \in 1 .. k + 1 /\ k + 1 <= Max(s)
          BY <3>1, <5>1
        <5> QED BY <5>2, SMT
      <4>2. h[s \ {k + 1}] = g[s \ {k + 1}]
        BY <2>2, <2>3
      <4> QED BY <3>1, <4>1, <4>2
    <3>2. CASE k + 1 \notin s /\ s # {}
      <4>1. Max(s) \in s
        BY <2>8, <3>2, MaxPosition
      <4>2. s \in SUBSET (1 .. k) /\ s \ {Max(s)} \in SUBSET (1 .. k)
        BY <2>2, <3>2
      <4>3. h[s] = g[s] /\ h[s \ {Max(s)}] = g[s \ {Max(s)}]
        BY <2>3, <3>2, <4>2
      <4> QED BY <2>1, <3>2, <4>2, <4>3 DEF Folds
    <3>3. CASE s = {}
      BY <2>1, <2>2, <2>3, <3>3 DEF Folds
    <3> QED BY <3>1, <3>2, <3>3
  <2>6. Folds(h, k + 1, base, step)
    <3> HIDE DEF h
    <3> QED BY <2>5 DEF Folds
  <2> HIDE DEF h
  <2>7. h \in Good(k + 1)
    BY <2>4, <2>6
  <2> HIDE DEF Good
  <2> QED BY <2>7
<1>3. Nat \subseteq T
  <2> HIDE DEF T
  <2> QED BY <1>1, <1>2, NatSetInduction
<1>4. Good(n) # {}
  <2> HIDE DEF Good
  <2> QED BY <1>3
<1> QED BY <1>4

\* What a fold has made of a prefix.
LEMMA FoldPrefix ==
  ASSUME NEW n \in Nat, NEW base, NEW step, NEW g, Folds(g, n, base, step)
  PROVE  /\ g[1 .. 0] = base
         /\ \A k \in 1 .. n : g[1 .. k] = step[<<g[1 .. k - 1], k>>]
<1>1. g[1 .. 0] = base
  <2>1. 1 .. 0 = {} /\ {} \in SUBSET (1 .. n)
    BY SMT
  <2> QED BY <2>1 DEF Folds
<1>2. ASSUME NEW k \in 1 .. n PROVE g[1 .. k] = step[<<g[1 .. k - 1], k>>]
  <2>1. 1 .. k \in SUBSET (1 .. n) /\ k \in 1 .. k /\ \A m \in 1 .. k : m <= k
    BY SMT
  <2>2. Max(1 .. k) \in 1 .. k /\ \A m \in 1 .. k : m <= Max(1 .. k)
    BY <2>1, MaxPosition
  <2>3. Max(1 .. k) = k
    BY <2>1, <2>2, SMT
  <2>4. (1 .. k) \ {k} = 1 .. k - 1
    BY SMT
  <2>5. 1 .. k # {}
    BY <2>1
  <2> QED BY <2>1, <2>3, <2>4, <2>5 DEF Folds
<1> QED BY <1>1, <1>2

\* The positions up to k, and the last of them.
LEMMA Positions ==
  ASSUME NEW n \in Nat, NEW k \in 1 .. n
  PROVE  1 .. k \in SUBSET (1 .. n) /\ 1 .. k # {} /\ Max(1 .. k) = k /\ (1 .. k) \ {k} = 1 .. k - 1
<1>1. 1 .. k \in SUBSET (1 .. n) /\ k \in 1 .. k /\ \A m \in 1 .. k : m <= k
  BY SMT
<1>2. Max(1 .. k) \in 1 .. k /\ \A m \in 1 .. k : m <= Max(1 .. k)
  BY <1>1, MaxPosition
<1>3. Max(1 .. k) = k
  BY <1>1, <1>2, SMT
<1>4. (1 .. k) \ {k} = 1 .. k - 1
  BY SMT
<1> QED BY <1>1, <1>3, <1>4

--------------------------------------------------------------------------------
(* Sequences. *)

\* Flattening n sequences step by step.
Flattens(f, F, n) == f[1] = F[1] /\ \A i \in 2 .. n : f[i] = f[i - 1] \o F[i]

\* FlattenSeq appends one sequence after the other.
LEMMA FlattenSteps ==
  ASSUME NEW S, NEW n \in Nat \ {0}, NEW F \in [1 .. n -> Seq(S)]
  PROVE  \E f \in [1 .. n -> Seq(S)] : Flattens(f, F, n) /\ FlattenSeq(F) = f[n]
<1> DEFINE base == [i \in 1 .. n |-> F[1]]
           step == [iv \in (1 .. n) \X Seq(S) |-> iv[2] \o F[iv[1]]]
           down == [i \in 1 .. n |-> IF i = 1 THEN 1 ELSE i - 1]
           size == [i \in 1 .. n |-> i]
           Is(f) == f = [i \in 1 .. n |-> IF i = 1 THEN F[i] ELSE f[i - 1] \o F[i]]
<1>1. 1 \in 1 .. n /\ n \in 1 .. n
  BY SMT
<1>2. base \in [1 .. n -> Seq(S)]
  BY <1>1
<1>3. step \in [(1 .. n) \X Seq(S) -> Seq(S)]
  <2>1. ASSUME NEW i \in 1 .. n, NEW v \in Seq(S) PROVE v \o F[i] \in Seq(S)
    <3>1. F[i] \in Seq(S)
      OBVIOUS
    <3> QED BY <3>1, ConcatProperties
  <2> QED BY <2>1
<1>4. down \in [1 .. n -> 1 .. n] /\ size \in [1 .. n -> Nat] /\ \A i \in 1 .. n : down[i] # i => size[down[i]] < size[i]
  <2>1. \A i \in 1 .. n : i \in Nat /\ (i # 1 => i - 1 \in 1 .. n /\ i - 1 < i)
    BY SMT
  <2> QED BY <1>1, <2>1
<1>5. Descends(1 .. n, Seq(S), size, down, base, step)
  BY <1>2, <1>3, <1>4 DEF Descends
<1>6. PICK g \in [1 .. n -> Seq(S)] : Recurses(g, 1 .. n, base, step, down)
  <2> HIDE DEF base, step, down, size
  <2> QED BY <1>5, Recursion
<1>7. Is(g)
  <2>1. ASSUME NEW i \in 1 .. n PROVE g[i] = IF i = 1 THEN F[i] ELSE g[i - 1] \o F[i]
    <3>1. g[i] = IF down[i] = i THEN base[i] ELSE step[<<i, g[down[i]]>>]
      BY <1>6 DEF Recurses
    <3>2. CASE i = 1
      BY <3>1, <3>2
    <3>3. CASE i # 1
      <4>1. i - 1 \in 1 .. n /\ i - 1 # i
        BY <3>3, SMT
      <4>2. down[i] = i - 1 /\ g[i - 1] \in Seq(S)
        BY <3>3, <4>1
      <4> QED BY <3>1, <3>3, <4>1, <4>2
    <3> QED BY <3>2, <3>3
  <2> QED BY <1>6, <2>1
<1> DEFINE f == CHOOSE q : Is(q)
<1>8. Is(f)
  <2> HIDE DEF Is
  <2> QED BY <1>7
<1>9. Len(F) = n
  BY <1>1
<1>10. FlattenSeq(F) = f[n]
  BY <1>1, <1>9, n # 0 DEF FlattenSeq
<1> HIDE DEF f
<1>11. f[1] = F[1] /\ \A i \in 2 .. n : f[i] = f[i - 1] \o F[i]
  <2>1. \A i \in 2 .. n : i \in 1 .. n /\ i # 1
    BY SMT
  <2> QED BY <1>1, <1>8, <2>1
<1>12. \A i \in 1 .. n : f[i] \in Seq(S)
  <2> DEFINE T == {k \in Nat : k + 1 \in 1 .. n => f[k + 1] \in Seq(S)}
  <2>1. 0 \in T
    BY <1>1, <1>11
  <2>2. ASSUME NEW k \in Nat, k \in T PROVE k + 1 \in T
    <3> SUFFICES ASSUME (k + 1) + 1 \in 1 .. n PROVE f[(k + 1) + 1] \in Seq(S)
      OBVIOUS
    <3>1. k + 1 \in 1 .. n /\ (k + 1) + 1 \in 2 .. n /\ ((k + 1) + 1) - 1 = k + 1
      BY SMT
    <3>2. f[k + 1] \in Seq(S) /\ F[(k + 1) + 1] \in Seq(S)
      BY <2>2, <3>1
    <3>3. f[(k + 1) + 1] = f[k + 1] \o F[(k + 1) + 1]
      BY <1>11, <3>1
    <3> QED BY <3>2, <3>3, ConcatProperties
  <2>3. Nat \subseteq T
    <3> HIDE DEF T
    <3> QED BY <2>1, <2>2, NatSetInduction
  <2>4. \A i \in 1 .. n : i - 1 \in Nat /\ (i - 1) + 1 = i
    BY SMT
  <2> QED BY <2>3, <2>4
<1>13. f \in [1 .. n -> Seq(S)]
  BY <1>8, <1>12
<1> QED BY <1>10, <1>11, <1>13 DEF Flattens

\* Nothing flattens to nothing.
LEMMA FlattenEmpty ==
  ASSUME NEW F, DOMAIN F = 1 .. 0, F = [i \in 1 .. 0 |-> F[i]] PROVE FlattenSeq(F) = <<>>
<1>1. F = <<>>
  BY SMT
<1> QED BY <1>1 DEF FlattenSeq

\* The first sequence comes first.
LEMMA FlattenCons ==
  ASSUME NEW S, NEW n \in Nat, NEW F \in [1 .. n + 1 -> Seq(S)]
  PROVE  FlattenSeq(F) = F[1] \o FlattenSeq([i \in 1 .. n |-> F[i + 1]])
         /\ FlattenSeq([i \in 1 .. n |-> F[i + 1]]) \in Seq(S)
<1> DEFINE G == [i \in 1 .. n |-> F[i + 1]]
<1>0. \A i \in 1 .. n : i + 1 \in 1 .. n + 1
  BY SMT
<1>1. G \in [1 .. n -> Seq(S)]
  BY <1>0
<1>2. 1 \in 1 .. n + 1 /\ n + 1 \in Nat \ {0} /\ F[1] \in Seq(S)
  <2>1. 1 \in 1 .. n + 1 /\ n + 1 \in Nat \ {0}
    BY SMT
  <2> QED BY <2>1
<1>3. PICK f \in [1 .. n + 1 -> Seq(S)] : Flattens(f, F, n + 1) /\ FlattenSeq(F) = f[n + 1]
  BY <1>2, FlattenSteps
<1>4. CASE n = 0
  <2>1. FlattenSeq(G) = <<>>
    <3>1. DOMAIN G = 1 .. 0 /\ G = [i \in 1 .. 0 |-> G[i]]
      BY <1>4
    <3> HIDE DEF G
    <3> QED BY <3>1, FlattenEmpty
  <2>2. F[1] \o <<>> = F[1] /\ <<>> \in Seq(S)
    BY <1>2, ConcatEmptySeq, EmptySeq
  <2>3. FlattenSeq(F) = F[1]
    BY <1>3, <1>4 DEF Flattens
  <2> QED BY <2>1, <2>2, <2>3
<1>5. CASE n # 0
  <2>0. n \in Nat \ {0}
    BY <1>5
  <2>1. PICK g \in [1 .. n -> Seq(S)] : Flattens(g, G, n) /\ FlattenSeq(G) = g[n]
    <3> HIDE DEF G
    <3> QED BY <1>1, <2>0, FlattenSteps
  <2> DEFINE T == {k \in Nat : k + 1 \in 1 .. n => f[(k + 1) + 1] = F[1] \o g[k + 1]}
  <2>2. 0 \in T
    <3>1. 2 \in 2 .. n + 1 /\ 1 \in 1 .. n /\ 2 - 1 = 1 /\ 0 + 1 = 1 /\ 1 + 1 = 2
      BY <2>0, SMT
    <3>2. f[2] = f[1] \o F[2] /\ f[1] = F[1]
      BY <1>3, <3>1 DEF Flattens
    <3>3. g[1] = F[2]
      BY <2>1, <3>1 DEF Flattens
    <3> QED BY <3>1, <3>2, <3>3
  <2>3. ASSUME NEW k \in Nat, k \in T PROVE k + 1 \in T
    <3> SUFFICES ASSUME (k + 1) + 1 \in 1 .. n PROVE f[((k + 1) + 1) + 1] = F[1] \o g[(k + 1) + 1]
      <4>1. k + 1 \in Nat
        BY SMT
      <4> HIDE DEF G
      <4> QED BY <4>1, Zenon
    <3>1. /\ k + 1 \in 1 .. n /\ (k + 1) + 1 \in 2 .. n /\ ((k + 1) + 1) - 1 = k + 1
          /\ ((k + 1) + 1) + 1 \in 2 .. n + 1 /\ (((k + 1) + 1) + 1) - 1 = (k + 1) + 1
      BY SMT
    <3>2. f[(k + 1) + 1] = F[1] \o g[k + 1]
      BY <2>3, <3>1
    <3>3. f[((k + 1) + 1) + 1] = f[(k + 1) + 1] \o F[((k + 1) + 1) + 1]
      BY <1>3, <3>1 DEF Flattens
    <3>4. g[(k + 1) + 1] = g[k + 1] \o G[(k + 1) + 1]
      BY <2>1, <3>1 DEF Flattens
    <3>5. G[(k + 1) + 1] = F[((k + 1) + 1) + 1]
      BY <3>1
    <3>6. g[k + 1] \in Seq(S) /\ F[((k + 1) + 1) + 1] \in Seq(S)
      <4>1. ((k + 1) + 1) + 1 \in 1 .. n + 1
        BY <3>1, SMT
      <4> QED BY <2>1, <3>1, <4>1
    <3>7. (F[1] \o g[k + 1]) \o F[((k + 1) + 1) + 1] = F[1] \o (g[k + 1] \o F[((k + 1) + 1) + 1])
      <4> DEFINE a == F[1]
                 b == g[k + 1]
                 c == F[((k + 1) + 1) + 1]
      <4>1. a \in Seq(S) /\ b \in Seq(S) /\ c \in Seq(S)
        BY <1>2, <3>6
      <4>2. (a \o b) \o c = a \o (b \o c)
        <5> HIDE DEF a, b, c, G
        <5> QED BY ONLY <4>1, ConcatAssociative, SMTT(30)
      <4> QED BY <4>2
    <3> QED BY <3>2, <3>3, <3>4, <3>5, <3>7
  <2>4. Nat \subseteq T
    <3> HIDE DEF T
    <3> QED BY <2>2, <2>3, NatSetInduction
  <2>5. n - 1 \in Nat /\ (n - 1) + 1 = n /\ n \in 1 .. n
    BY <2>0, SMT
  <2>6. f[n + 1] = F[1] \o g[n]
    BY <2>4, <2>5
  <2> QED BY <1>3, <2>1, <2>5, <2>6
<1> QED BY <1>4, <1>5

\* Cutting a concatenation where it was joined.
LEMMA CutAtJoint ==
  ASSUME NEW S, NEW s \in Seq(S), NEW t \in Seq(S)
  PROVE  /\ SubSeq(s \o t, 1, Len(s)) = s
         /\ SubSeq(s \o t, Len(s) + 1, Len(s \o t)) = t
<1>1. s \o t \in Seq(S) /\ Len(s \o t) = Len(s) + Len(t) /\ Len(s) \in Nat /\ Len(t) \in Nat
  BY ConcatProperties, LenProperties
<1>2. SubSeq(s \o t, 1, Len(s)) = s
  <2>1. CASE Len(s) = 0
    <3>1. s = <<>>
      BY <2>1, EmptySeq
    <3>2. SubSeq(s \o t, 1, 0) = <<>>
      BY SubSeqEmpty
    <3> QED BY <2>1, <3>1, <3>2
  <2>2. CASE Len(s) # 0
    <3>1. 1 \in 1 .. Len(s) /\ Len(s) \in 1 .. Len(s)
      BY <1>1, <2>2, SMT
    <3>2. SubSeq(s \o t, 1, Len(s)) = SubSeq(s, 1, Len(s))
      BY <3>1, SubSeqOfConcat1
    <3> QED BY <3>2, SubSeqFull
  <2> QED BY <2>1, <2>2
<1>3. SubSeq(s \o t, Len(s) + 1, Len(s \o t)) = t
  <2>1. CASE Len(t) = 0
    <3>1. t = <<>>
      BY <2>1, EmptySeq
    <3>2. Len(s) + 1 \in Int /\ Len(s \o t) \in Int /\ Len(s \o t) < Len(s) + 1
      BY <1>1, <2>1, SMT
    <3>3. SubSeq(s \o t, Len(s) + 1, Len(s \o t)) = <<>>
      BY <3>2, SubSeqEmpty
    <3> QED BY <3>1, <3>3
  <2>2. CASE Len(t) # 0
    <3>1. Len(s) + 1 \in Len(s) + 1 .. Len(s) + Len(t) /\ Len(s) + Len(t) \in Len(s) + 1 .. Len(s) + Len(t)
          /\ (Len(s) + 1) - Len(s) = 1 /\ (Len(s) + Len(t)) - Len(s) = Len(t)
      BY <1>1, <2>2, SMT
    <3>2. SubSeq(s \o t, Len(s) + 1, Len(s) + Len(t))
          = SubSeq(t, (Len(s) + 1) - Len(s), (Len(s) + Len(t)) - Len(s))
      BY <3>1, SubSeqOfConcat2
    <3>3. SubSeq(t, 1, Len(t)) = t
      BY SubSeqFull
    <3> QED BY <1>1, <3>1, <3>2, <3>3
  <2> QED BY <2>1, <2>2
<1> QED BY <1>2, <1>3

\* Induction on the length of sequences, for sets of sequences.
LEMMA SeqSetInduction ==
  ASSUME NEW S, NEW T, <<>> \in T,
         \A x \in S, s \in Seq(S) : s \in T => <<x>> \o s \in T
  PROVE  Seq(S) \subseteq T
<1> DEFINE U == {n \in Nat : \A s \in Seq(S) : Len(s) = n => s \in T}
<1>1. 0 \in U
  BY EmptySeq
<1>2. ASSUME NEW n \in Nat, n \in U PROVE n + 1 \in U
  <2> SUFFICES ASSUME NEW s \in Seq(S), Len(s) = n + 1 PROVE s \in T
    BY SMT
  <2>1. s # <<>>
    BY SMT
  <2>2. Head(s) \in S /\ Tail(s) \in Seq(S) /\ Len(Tail(s)) = n
    <3>1. Head(s) \in S /\ Tail(s) \in Seq(S) /\ Len(Tail(s)) = Len(s) - 1
      BY <2>1, HeadTailProperties
    <3> QED BY <3>1, SMT
  <2>3. <<Head(s)>> \o Tail(s) = s
    <3>1. 1 \in 1 .. Len(s) /\ Len(s) \in 1 .. Len(s) /\ 1 + 1 = 2
      BY SMT
    <3>2. SubSeq(s, 1, Len(s)) = <<s[1]>> \o SubSeq(s, 1 + 1, Len(s))
      BY <3>1, SubSeqRecursiveFirst
    <3>3. SubSeq(s, 1, Len(s)) = s /\ Tail(s) = SubSeq(s, 2, Len(s)) /\ Head(s) = s[1]
      BY <2>1, SubSeqFull, TailIsSubSeq
    <3> QED BY <3>1, <3>2, <3>3
  <2>4. Tail(s) \in T
    BY <1>2, <2>2
  <2> QED BY <2>2, <2>3, <2>4
<1>3. Nat \subseteq U
  <2> HIDE DEF U
  <2> QED BY <1>1, <1>2, NatSetInduction
<1> QED BY <1>3, LenProperties

\* A cut behind the first part cuts the second.
LEMMA CutAfterJoint ==
  ASSUME NEW S, NEW s \in Seq(S), NEW t \in Seq(S), NEW n \in Len(s) .. Len(s) + Len(t)
  PROVE  SubSeq(s \o t, 1, n) = s \o SubSeq(t, 1, n - Len(s))
<1> DEFINE x == s \o t
<1>1. x \in Seq(S) /\ Len(x) = Len(s) + Len(t) /\ Len(s) \in Nat /\ Len(t) \in Nat
  BY ConcatProperties, LenProperties
<1>2. SubSeq(x, 1, Len(s)) = s
  BY CutAtJoint
<1>3. n \in Int /\ 1 \in 1 .. Len(x) + 1 /\ Len(s) \in 1 - 1 .. Len(x) /\ n \in Len(s) .. Len(x)
  BY <1>1, SMT
<1>4. SubSeq(x, Len(s) + 1, n) = SubSeq(t, 1, n - Len(s))
  <2>1. CASE n = Len(s)
    <3>1. Len(s) + 1 \in Int /\ n < Len(s) + 1 /\ n - Len(s) = 0
      BY <1>1, <2>1, SMT
    <3> HIDE DEF x
    <3>2. SubSeq(x, Len(s) + 1, n) = <<>>
      BY <1>3, <3>1, SubSeqEmpty
    <3>3. SubSeq(t, 1, 0) = <<>>
      BY SubSeqEmpty
    <3> QED BY <3>1, <3>2, <3>3
  <2>2. CASE n # Len(s)
    <3>1. Len(s) + 1 \in Len(s) + 1 .. Len(s) + Len(t) /\ n \in Len(s) + 1 .. Len(s) + Len(t) /\ (Len(s) + 1) - Len(s) = 1
      BY <1>1, <1>3, <2>2, SMT
    <3>2. SubSeq(s \o t, Len(s) + 1, n) = SubSeq(t, (Len(s) + 1) - Len(s), n - Len(s))
      BY <3>1, SubSeqOfConcat2
    <3> QED BY <3>1, <3>2
  <2> QED BY <2>1, <2>2
<1> HIDE DEF x
<1>5. SubSeq(x, 1, Len(s)) \o SubSeq(x, Len(s) + 1, n) = SubSeq(x, 1, n)
  BY <1>1, <1>3, ConcatAdjacentSubSeq
<1> QED BY <1>2, <1>4, <1>5 DEF x

\* The beginning of a sequence.
LEMMA Beginning ==
  ASSUME NEW S, NEW s \in Seq(S), NEW n \in 0 .. Len(s)
  PROVE  SubSeq(s, 1, n) \in Seq(S) /\ Len(SubSeq(s, 1, n)) = n /\ \A i \in 1 .. n : SubSeq(s, 1, n)[i] = s[i]
<1>1. Len(s) \in Nat /\ \A i \in 1 .. Len(s) : s[i] \in S
  BY LenProperties, ElementOfSeq
<1>2. 1 \in Int /\ n \in Int /\ \A i \in 1 .. n : i \in 1 .. Len(s)
  BY <1>1, SMT
<1>3. SubSeq(s, 1, n) \in Seq(S) /\ Len(SubSeq(s, 1, n)) = (IF 1 <= n THEN n - 1 + 1 ELSE 0)
      /\ \A i \in 1 .. n - 1 + 1 : SubSeq(s, 1, n)[i] = s[1 + i - 1]
  BY <1>1, <1>2, SubSeqProperties
<1>4. n - 1 + 1 = n /\ (\A i \in 1 .. n : 1 + i - 1 = i) /\ (IF 1 <= n THEN n - 1 + 1 ELSE 0) = n
  BY <1>1, SMT
<1> DEFINE x == SubSeq(s, 1, n)
<1>5. x \in Seq(S) /\ Len(x) = (IF 1 <= n THEN n - 1 + 1 ELSE 0) /\ \A i \in 1 .. n - 1 + 1 : x[i] = s[1 + i - 1]
  BY <1>3
<1> HIDE DEF x
<1>6. x \in Seq(S) /\ Len(x) = n /\ \A i \in 1 .. n : x[i] = s[i]
  BY <1>4, <1>5
<1> QED BY <1>6 DEF x

--------------------------------------------------------------------------------
(* Numbers. *)

\* A function over 1 .. n is a sequence of length n.
LEMMA FunctionIsSeq ==
  ASSUME NEW S, NEW n \in Nat, NEW f \in [1 .. n -> S]
  PROVE  f \in Seq(S) /\ Len(f) = n
BY SMT

\* Products of naturals: nonlinear facts, each on its own.
LEMMA ProductNat ==
  ASSUME NEW a \in Nat, NEW b \in Nat PROVE a * b \in Nat
BY SMT

\* A product of positive numbers is positive.
LEMMA ProductPositive ==
  ASSUME NEW a \in Nat \ {0}, NEW b \in Nat \ {0} PROVE a * b \in Nat \ {0}
BY SMT

\* A product grows with its factors.
LEMMA ProductMonotone ==
  ASSUME NEW a \in Nat, NEW b \in Nat, NEW c \in Nat, a <= b PROVE c * a <= c * b /\ a * c <= b * c
BY SMT

\* Dividing twice is dividing by the product.
LEMMA DivDiv ==
  ASSUME NEW n \in Nat, NEW p \in Nat \ {0}, NEW d \in Nat \ {0}
  PROVE  (n \div p) \div d = n \div (p * d)
<1> DEFINE q == n \div p
           r == n % p
           q2 == q \div d
           r2 == q % d
<1>1. q \in Nat /\ r \in 0 .. p - 1 /\ n = p * q + r
  BY Division
<1> HIDE DEF q, r
<1>2. q2 \in Nat /\ r2 \in 0 .. d - 1 /\ q = d * q2 + r2
  BY <1>1, Division
<1> HIDE DEF q2, r2
<1>3. p * d \in Nat \ {0}
  BY ProductPositive
<1>4. p * r2 + r \in 0 .. p * d - 1
  <2>1. p * r2 <= p * (d - 1) /\ p * r2 \in Nat
    <3>1. r2 \in Nat /\ d - 1 \in Nat /\ r2 <= d - 1
      BY <1>2, SMT
    <3> QED BY <3>1, ProductMonotone, ProductNat
  <2>2. p * (d - 1) = p * d - p
    BY SMT
  <2> QED BY <1>1, <1>3, <2>1, <2>2, SMT
<1>5. n = (p * d) * q2 + (p * r2 + r)
  <2>1. p * (d * q2 + r2) = (p * d) * q2 + p * r2
    <3>1. r2 \in Nat
      BY <1>2, SMT
    <3>2. ASSUME NEW x \in Nat, NEW y \in Nat PROVE p * (d * x + y) = (p * d) * x + p * y
      BY SMT
    <3> QED BY <1>2, <3>1, <3>2
  <2>2. p * r2 \in Nat /\ (p * d) * q2 \in Nat
    <3>1. r2 \in Nat
      BY <1>2, SMT
    <3> QED BY <1>2, <1>3, <3>1, ProductNat
  <2> QED BY <1>1, <1>2, <2>1, <2>2, SMT
<1>6. n \div (p * d) = q2
  <2> DEFINE m == p * d
             s == p * r2 + r
  <2>1. m \in Nat \ {0} /\ q2 \in Int /\ s \in 0 .. m - 1 /\ n \in Int /\ n = m * q2 + s
    BY <1>2, <1>3, <1>4, <1>5
  <2> HIDE DEF m, s
  <2>2. n \div m = q2
    BY <2>1, DivisionUnique
  <2> QED BY <2>2 DEF m
<1> QED BY <1>6 DEF q2, q

\* A quotient is below, or from, where the product is.
LEMMA QuotientLess ==
  ASSUME NEW n \in Nat, NEW p \in Nat \ {0}, NEW h \in Nat
  PROVE  (n \div p < h <=> n < h * p) /\ (n \div p >= h <=> n >= h * p)
<1> DEFINE q == n \div p
           r == n % p
<1>1. q \in Nat /\ r \in 0 .. p - 1 /\ n = p * q + r
  BY Division
<1> HIDE DEF q, r
<1>2. ASSUME q < h PROVE n < h * p
  <2>1. q + 1 <= h /\ q + 1 \in Nat
    BY <1>1, <1>2, SMT
  <2>2. (q + 1) * p <= h * p
    BY <2>1, ProductMonotone
  <2>3. (q + 1) * p = p * q + p
    BY <1>1, SMT
  <2>4. p * q \in Nat /\ h * p \in Nat
    BY <1>1, ProductNat
  <2> QED BY <1>1, <2>2, <2>3, <2>4, SMT
<1>3. ASSUME q >= h PROVE n >= h * p
  <2>1. h * p <= q * p
    BY <1>1, <1>3, ProductMonotone
  <2>2. q * p = p * q
    BY <1>1, SMT
  <2>4. p * q \in Nat /\ h * p \in Nat
    BY <1>1, ProductNat
  <2> QED BY <1>1, <2>1, <2>2, <2>4, SMT
<1>4. h * p \in Nat
  BY ProductNat
<1>5. (q < h <=> n < h * p) /\ (q >= h <=> n >= h * p)
  BY <1>1, <1>2, <1>3, <1>4, SMT
<1> QED BY <1>5 DEF q

\* A power grows with its exponent.
LEMMA PowerMonotone ==
  ASSUME NEW b \in Nat \ {0}, NEW m \in Nat, NEW n \in Nat, m <= n PROVE Power(b, m) <= Power(b, n)
<1>1. n - m \in Nat /\ m + (n - m) = n
  BY SMT
<1>2. Power(b, m + (n - m)) = Power(b, m) * Power(b, n - m)
  BY <1>1, PowerSum
<1>3. Power(b, m) \in Nat \ {0} /\ Power(b, n - m) \in Nat \ {0}
  BY <1>1, PowerPositive
<1>4. ASSUME NEW x \in Nat \ {0}, NEW y \in Nat \ {0} PROVE x <= x * y
  BY SMT
<1>5. Power(b, m) <= Power(b, m) * Power(b, n - m)
  BY <1>3, <1>4
<1> QED BY <1>1, <1>2, <1>5

\* Exponents multiply.
LEMMA PowerPower ==
  ASSUME NEW b \in Nat, NEW m \in Nat PROVE \A n \in Nat : Power(Power(b, m), n) = Power(b, m * n)
<1> DEFINE T == {n \in Nat : Power(Power(b, m), n) = Power(b, m * n)}
<1>0. Power(b, m) \in Nat
  BY PowerNat
<1>1. 0 \in T
  <2>1. m * 0 = 0
    BY SMT
  <2>2. Power(Power(b, m), 0) = 1 /\ Power(b, 0) = 1
    BY <1>0, PowerRec
  <2> QED BY <2>1, <2>2
<1>2. ASSUME NEW n \in Nat, n \in T PROVE n + 1 \in T
  <2>1. Power(Power(b, m), n + 1) = Power(b, m) * Power(Power(b, m), n)
    BY <1>0, PowerRec
  <2>2. m * n \in Nat /\ m + m * n = m * (n + 1)
    BY SMT
  <2>3. Power(b, m + m * n) = Power(b, m) * Power(b, m * n)
    BY <2>2, PowerSum
  <2> QED BY <1>2, <2>1, <2>2, <2>3
<1>3. Nat \subseteq T
  <2> HIDE DEF T
  <2> QED BY <1>1, <1>2, NatSetInduction
<1> QED BY <1>3

--------------------------------------------------------------------------------
(* Numbers as digits, the lowest last. *)
Number(B, s) == FoldLeft(LAMBDA acc, d : acc * B + d, 0, s)

IsNumber(P, B, s) == P[0] = 0 /\ \A k \in 1 .. Len(s) : P[k] = P[k - 1] * B + s[k]

\* The number its digits stand for, read digit by digit.
LEMMA NumberFold ==
  ASSUME NEW B \in Nat, NEW s \in Seq(Nat)
  PROVE  \E P : IsNumber(P, B, s) /\ P[Len(s)] = Number(B, s)
<1> DEFINE n == Len(s)
           step == [vk \in Nat \X (1 .. n) |-> vk[1] * B + s[vk[2]]]
           Is(h) == h = [t \in SUBSET DOMAIN s |-> IF t = {} THEN 0
                           ELSE LET x == Max(t) IN h[t \ {x}] * B + s[x]]
<1>1. n \in Nat /\ DOMAIN s = 1 .. n /\ \A k \in 1 .. n : s[k] \in Nat
  BY LenProperties, ElementOfSeq
<1> HIDE DEF n
<1>2. PICK g \in [SUBSET (1 .. n) -> Nat] : Folds(g, n, 0, step)
  <2>1. step \in [Nat \X (1 .. n) -> Nat]
    <3>1. ASSUME NEW v \in Nat, NEW k \in 1 .. n PROVE v * B + s[k] \in Nat
      <4>1. v * B \in Nat /\ s[k] \in Nat
        BY <1>1, ProductNat
      <4> QED BY <4>1, SMT
    <3> QED BY <3>1
  <2> HIDE DEF step
  <2> QED BY <1>1, <2>1, FoldExists
<1>3. Is(g)
  <2>1. ASSUME NEW t \in SUBSET (1 .. n), t # {}
        PROVE  g[t] = g[t \ {Max(t)}] * B + s[Max(t)]
    <3>1. Max(t) \in 1 .. n /\ t \ {Max(t)} \in SUBSET (1 .. n)
      BY <1>1, <2>1, MaxPosition
    <3>2. g[t] = step[<<g[t \ {Max(t)}], Max(t)>>]
      BY <1>2, <2>1 DEF Folds
    <3> QED BY <3>1, <3>2
  <2>2. g[{}] = 0
    BY <1>2 DEF Folds
  <2> QED BY <1>1, <1>2, <2>1, <2>2
<1> DEFINE h == CHOOSE q : Is(q)
<1>4. Is(h)
  <2> HIDE DEF Is
  <2> QED BY <1>3
<1>5. Number(B, s) = h[DOMAIN s]
  BY Zenon DEF Number, FoldLeft, MapThenFoldSet
<1> HIDE DEF h
<1> DEFINE P == [k \in 0 .. n |-> h[1 .. k]]
<1>6. P[0] = 0
  <2>1. 1 .. 0 = {} /\ 0 \in 0 .. n /\ {} \in SUBSET (1 .. n)
    BY <1>1, SMT
  <2> QED BY <1>1, <1>4, <2>1
<1>7. ASSUME NEW k \in 1 .. n PROVE P[k] = P[k - 1] * B + s[k]
  <2>1. 1 .. k \in SUBSET (1 .. n) /\ 1 .. k # {} /\ Max(1 .. k) = k /\ (1 .. k) \ {k} = 1 .. k - 1
    BY <1>1, Positions
  <2>2. h[1 .. k] = h[1 .. k - 1] * B + s[k]
    BY <1>1, <1>4, <2>1
  <2>3. k \in 0 .. n /\ k - 1 \in 0 .. n
    BY <1>1, SMT
  <2> QED BY <2>2, <2>3
<1>8. P[n] = h[1 .. n]
  BY <1>1, SMT
<1> HIDE DEF P
<1>9. IsNumber(P, B, s)
  BY <1>6, <1>7 DEF IsNumber, n
<1> QED BY <1>1, <1>5, <1>8, <1>9 DEF n

\* The digits of u in base B, highest first.
DigitsOf(u, B, n) == [i \in 1 .. n |-> (u \div Power(B, n - i)) % B]

\* The digits of a number are digits.
LEMMA DigitsType ==
  ASSUME NEW u \in Nat, NEW B \in Nat \ {0}, NEW n \in Nat
  PROVE  DigitsOf(u, B, n) \in [1 .. n -> 0 .. B - 1] /\ DigitsOf(u, B, n) \in Seq(Nat) /\ Len(DigitsOf(u, B, n)) = n
<1>1. ASSUME NEW i \in 1 .. n PROVE (u \div Power(B, n - i)) % B \in 0 .. B - 1
  <2>1. n - i \in Nat
    BY SMT
  <2>2. Power(B, n - i) \in Nat \ {0}
    BY <2>1, PowerPositive
  <2>3. u \div Power(B, n - i) \in Nat
    BY <2>2, Division
  <2> QED BY <2>3, Division
<1>2. DigitsOf(u, B, n) \in [1 .. n -> 0 .. B - 1]
  BY <1>1 DEF DigitsOf
<1>3. DigitsOf(u, B, n) \in [1 .. n -> Nat]
  <2>1. 0 .. B - 1 \subseteq Nat
    BY SMT
  <2> QED BY <1>2, <2>1
<1> HIDE DEF DigitsOf
<1>4. DigitsOf(u, B, n) \in Seq(Nat) /\ Len(DigitsOf(u, B, n)) = n
  <2> DEFINE d == DigitsOf(u, B, n)
  <2>1. d \in [1 .. n -> Nat]
    BY <1>3
  <2> HIDE DEF d
  <2>2. d \in Seq(Nat) /\ Len(d) = n
    BY <2>1, SMT
  <2> QED BY <2>2 DEF d
<1> QED BY <1>2, <1>4

\* A number is what its digits stand for.
LEMMA NumberOfDigits ==
  ASSUME NEW u \in Nat, NEW B \in Nat \ {0}, NEW n \in Nat, u < Power(B, n)
  PROVE  Number(B, DigitsOf(u, B, n)) = u
<1> DEFINE d == DigitsOf(u, B, n)
<1>1. d \in Seq(Nat) /\ Len(d) = n
  BY DigitsType
<1>2. PICK P : IsNumber(P, B, d) /\ P[n] = Number(B, d)
  <2> HIDE DEF d
  <2>1. \E P : IsNumber(P, B, d) /\ P[Len(d)] = Number(B, d)
    BY <1>1, NumberFold
  <2> QED BY <1>1, <2>1
<1> DEFINE T == {k \in Nat : k <= n => P[k] = u \div Power(B, n - k)}
<1>3. 0 \in T
  <2>1. P[0] = 0
    BY <1>2 DEF IsNumber
  <2>2. n - 0 = n /\ Power(B, n) \in Nat \ {0}
    BY PowerPositive
  <2>3. u \div Power(B, n) = 0
    <3>1. u \in 0 .. Power(B, n) - 1 /\ 0 \in Int /\ u \in Int /\ u = Power(B, n) * 0 + u
      BY <2>2, SMT
    <3> QED BY <2>2, <3>1, DivisionUnique
  <2> QED BY <2>1, <2>2, <2>3
<1>4. ASSUME NEW k \in Nat, k \in T PROVE k + 1 \in T
  <2> SUFFICES ASSUME k + 1 <= n PROVE P[k + 1] = u \div Power(B, n - (k + 1))
    BY SMT
  <2>1. /\ k + 1 \in 1 .. n /\ (k + 1) - 1 = k /\ n - (k + 1) \in Nat /\ (n - (k + 1)) + 1 = n - k /\ n - k \in Nat
        /\ k <= n
    BY SMT
  <2>2. P[k + 1] = P[k] * B + d[k + 1]
    BY <1>1, <1>2, <2>1 DEF IsNumber
  <2>3. d[k + 1] = (u \div Power(B, n - (k + 1))) % B
    BY <2>1 DEF DigitsOf
  <2>4. P[k] = u \div Power(B, n - k)
    BY <1>4, <2>1
  <2> DEFINE p == Power(B, n - (k + 1))
             x == u \div p
  <2>5. p \in Nat \ {0} /\ Power(B, n - k) = B * p
    <3>1. Power(B, (n - (k + 1)) + 1) = B * Power(B, n - (k + 1))
      BY <2>1, PowerRec
    <3>2. Power(B, n - (k + 1)) \in Nat \ {0}
      BY <2>1, PowerPositive
    <3> QED BY <2>1, <3>1, <3>2
  <2>6. d[k + 1] = x % B
    BY <2>3
  <2> HIDE DEF p
  <2>7. x \div B = u \div (p * B) /\ p * B = B * p
    <3>1. p * B = B * p
      BY <2>5, SMT
    <3>2. x \div B = u \div (p * B)
      BY <2>5, DivDiv
    <3> QED BY <3>1, <3>2
  <2>8. x \in Nat
    BY <2>5, Division
  <2> HIDE DEF x
  <2>9. x = B * (x \div B) + (x % B)
    BY <2>8, Division
  <2>10. P[k] = x \div B
    BY <2>4, <2>5, <2>7
  <2>11. x \div B \in Nat /\ (x \div B) * B = B * (x \div B)
    <3>1. x \div B \in Nat
      BY <2>8, Division
    <3>2. ASSUME NEW y \in Nat PROVE y * B = B * y
      BY SMT
    <3> QED BY <3>1, <3>2
  <2>12. P[k + 1] = x
    BY <2>2, <2>6, <2>9, <2>10, <2>11
  <2> QED BY <2>12 DEF x, p
<1>5. Nat \subseteq T
  <2> HIDE DEF T
  <2> QED BY <1>3, <1>4, NatSetInduction
<1>6. P[n] = u \div Power(B, 0)
  <2>1. n - n = 0 /\ n <= n
    BY SMT
  <2> QED BY <1>5, <2>1
<1>7. Power(B, 0) = 1 /\ u \div 1 = u
  BY PowerRec, SMT
<1> QED BY <1>2, <1>6, <1>7

--------------------------------------------------------------------------------
(* Integers. *)

\* Division by two, the only nonlinear step.
LEMMA Halves ==
    ASSUME NEW n \in Nat
    PROVE  /\ n % 2 \in {0, 1} /\ (n + 1) \div 2 \in Nat
           /\ n % 2 = 0 => n = 2 * ((n + 1) \div 2)
           /\ n % 2 = 1 => n = 2 * ((n + 1) \div 2) - 1
  BY SMT

\* zigzag_index and zigzag_value are inverse.
LEMMA ZigzagOfUnzigzag ==
    ASSUME NEW n \in Nat, NEW st \in Int
    PROVE  Unzigzag(n, st) \in Int /\ Zigzag(Unzigzag(n, st), st) = n
  BY Halves, SMT DEF Zigzag, Unzigzag, Abs

\* The same the other way round.
LEMMA UnzigzagOfZigzag ==
    ASSUME NEW v \in Int, NEW st \in Int
    PROVE  Zigzag(v, st) \in Nat /\ Unzigzag(Zigzag(v, st), st) = v
  BY SMT DEF Zigzag, Unzigzag, Abs

\* shrink_towards, clamped, is between the bounds.
LEMMA TargetPermitted ==
    ASSUME NEW c \in IntConstraints, Sensible(c)
    PROVE  ShrinkTowards(c) \in Int /\ IntPermitted(ShrinkTowards(c), c)
  BY SMT DEF IntConstraints, Sensible, IntPermitted, ShrinkTowards

\* What the nearer bound is, as numbers.
LEMMA NearerBound ==
    ASSUME NEW c \in IntConstraints, Sensible(c),
           NEW st \in Int, st = ShrinkTowards(c)
    PROVE  /\ LowerEnds(c) => /\ c.has_min /\ c.min_value <= st
                              /\ c.has_max => st - c.min_value < c.max_value - st
           /\ ~LowerEnds(c) /\ c.has_max => /\ st <= c.max_value
                                            /\ c.has_min => c.max_value - st <= st - c.min_value
           /\ ~LowerEnds(c) /\ ~c.has_max => ~c.has_min
  BY TargetPermitted, SMT DEF IntConstraints, Sensible, IntPermitted, LowerEnds

\* int_from_index after int_to_index: no two permitted values share an index.
THEOREM ValueOfIndex ==
    ASSUME NEW c \in IntConstraints, Sensible(c), NEW v \in Int, IntPermitted(v, c)
    PROVE  IntToIndex(v, c) \in Nat /\ IntFromIndex(IntToIndex(v, c), c) = v
<1> DEFINE st == ShrinkTowards(c)
<1>1. st \in Int /\ IntPermitted(st, c)
  BY TargetPermitted
<1>2. Zigzag(v, st) \in Nat /\ Unzigzag(Zigzag(v, st), st) = v
  BY <1>1, UnzigzagOfZigzag
<1>3. c.min_value \in Int /\ c.max_value \in Int /\ c.has_min \in BOOLEAN /\ c.has_max \in BOOLEAN
  BY DEF IntConstraints
<1> HIDE DEF st
<1>4. CASE LowerEnds(c)
  <2>1. c.has_min /\ c.min_value <= st /\ c.min_value <= v
    BY <1>1, <1>4, NearerBound DEF IntPermitted, st
  <2>2. CASE Abs(v - st) <= st - c.min_value
    <3>1. Zigzag(v, st) <= Zigzag(c.min_value, st)
      BY <1>1, <1>3, <2>1, <2>2, SMT DEF Zigzag, Abs
    <3> QED BY <1>2, <1>4, <2>2, <3>1 DEF IntToIndex, IntFromIndex, st
  <2>3. CASE ~(Abs(v - st) <= st - c.min_value)
    <3>1. v - c.min_value > Zigzag(c.min_value, st) /\ v - c.min_value \in Nat
      BY <1>1, <1>3, <2>1, <2>3, SMT DEF Zigzag, Abs
    <3>2. IntToIndex(v, c) = v - c.min_value
      BY <1>4, <2>3 DEF IntToIndex, st
    <3>3. IntFromIndex(v - c.min_value, c) = v - c.min_value + c.min_value
      <4>1. Zigzag(c.min_value, st) \in Int
        BY <1>1, <1>3, SMT DEF Zigzag, Abs
      <4>2. ~(v - c.min_value <= Zigzag(c.min_value, st))
        BY <1>3, <3>1, <4>1, SMT
      <4> QED BY <1>4, <4>2 DEF IntFromIndex, st
    <3> QED BY <1>3, <3>1, <3>2, <3>3, SMT
  <2> QED BY <2>2, <2>3
<1>5. CASE ~LowerEnds(c) /\ c.has_max
  <2>1. st <= c.max_value /\ v <= c.max_value
    BY <1>1, <1>5, NearerBound DEF IntPermitted, st
  <2>2. CASE Abs(v - st) <= c.max_value - st
    <3>1. IntToIndex(v, c) = Zigzag(v, st)
      BY <1>5, <2>2 DEF IntToIndex, st
    <3>2. CASE Zigzag(v, st) <= Zigzag(c.max_value, st)
      BY <1>2, <1>5, <3>1, <3>2 DEF IntFromIndex, st
    <3>3. CASE ~(Zigzag(v, st) <= Zigzag(c.max_value, st))
      \* Only the value as far below the target as the bound is above it.
      <4>1. c.max_value - Zigzag(v, st) = v
        BY <1>1, <1>3, <2>1, <2>2, <3>3, SMT DEF Zigzag, Abs
      <4> QED BY <1>2, <1>5, <3>1, <3>3, <4>1 DEF IntFromIndex, st
    <3> QED BY <3>2, <3>3
  <2>3. CASE ~(Abs(v - st) <= c.max_value - st)
    <3>1. c.max_value - v > Zigzag(c.max_value, st) /\ c.max_value - v \in Nat
      BY <1>1, <1>3, <2>1, <2>3, SMT DEF Zigzag, Abs
    <3>2. IntToIndex(v, c) = c.max_value - v
      BY <1>5, <2>3 DEF IntToIndex, st
    <3>3. IntFromIndex(c.max_value - v, c) = c.max_value - (c.max_value - v)
      <4>1. Zigzag(c.max_value, st) \in Int
        BY <1>1, <1>3, SMT DEF Zigzag, Abs
      <4>2. ~(c.max_value - v <= Zigzag(c.max_value, st))
        BY <1>3, <3>1, <4>1, SMT
      <4> QED BY <1>5, <4>2 DEF IntFromIndex, st
    <3> QED BY <1>3, <3>1, <3>2, <3>3, SMT
  <2> QED BY <2>2, <2>3
<1>6. CASE ~LowerEnds(c) /\ ~c.has_max
  BY <1>2, <1>6 DEF IntToIndex, IntFromIndex, st
<1> QED BY <1>3, <1>4, <1>5, <1>6

\* int_to_index after int_from_index: every index below the number of permitted values
\* stands for one of them, and is its index.
THEOREM IndexOfValue ==
    ASSUME NEW c \in IntConstraints, Sensible(c), NEW n \in Nat,
           c.has_min /\ c.has_max => n <= c.max_value - c.min_value
    PROVE  /\ IntFromIndex(n, c) \in Int
           /\ IntPermitted(IntFromIndex(n, c), c)
           /\ IntToIndex(IntFromIndex(n, c), c) = n
<1> DEFINE st == ShrinkTowards(c)
           v == Unzigzag(n, st)
<1>1. st \in Int /\ IntPermitted(st, c)
  BY TargetPermitted
<1>2. v \in Int /\ Zigzag(v, st) = n
  BY <1>1, ZigzagOfUnzigzag
<1>3. c.min_value \in Int /\ c.max_value \in Int /\ c.has_min \in BOOLEAN /\ c.has_max \in BOOLEAN
  BY DEF IntConstraints
<1> HIDE DEF st, v
<1>4. CASE LowerEnds(c)
  <2>1. /\ c.has_min /\ c.min_value <= st
        /\ c.has_max => st - c.min_value < c.max_value - st /\ n <= c.max_value - c.min_value
    BY <1>1, <1>4, NearerBound DEF st
  <2>2. Zigzag(c.min_value, st) = 2 * (st - c.min_value)
    BY <1>1, <1>3, <2>1, SMT DEF Zigzag, Abs
  <2>3. CASE n <= Zigzag(c.min_value, st)
    <3>1. Abs(v - st) <= st - c.min_value
      BY <1>1, <1>2, <1>3, <2>1, <2>2, <2>3, SMT DEF Zigzag, Abs
    <3>2. IntPermitted(v, c)
      BY <1>1, <1>2, <1>3, <2>1, <3>1, SMT DEF Abs, IntPermitted
    <3>3. IntFromIndex(n, c) = v
      BY <1>4, <2>3 DEF IntFromIndex, v, st
    <3>4. IntToIndex(v, c) = Zigzag(v, st)
      BY <1>4, <3>1 DEF IntToIndex, st
    <3> QED BY <1>2, <3>2, <3>3, <3>4
  <2>4. CASE ~(n <= Zigzag(c.min_value, st))
    <3>1. IntFromIndex(n, c) = n + c.min_value
      BY <1>4, <2>4 DEF IntFromIndex, st
    <3>2. ~(Abs((n + c.min_value) - st) <= st - c.min_value)
      BY <1>1, <1>3, <2>1, <2>2, <2>4, SMT DEF Abs
    <3>3. IntToIndex(n + c.min_value, c) = (n + c.min_value) - c.min_value
      BY <1>4, <3>2 DEF IntToIndex, st
    <3>4. IntPermitted(n + c.min_value, c)
      BY <1>3, <2>1, SMT DEF IntPermitted
    <3> QED BY <1>3, <3>1, <3>3, <3>4, SMT
  <2> QED BY <2>3, <2>4
<1>5. CASE ~LowerEnds(c) /\ c.has_max
  <2>1. /\ st <= c.max_value
        /\ c.has_min => c.max_value - st <= st - c.min_value /\ n <= c.max_value - c.min_value
    BY <1>1, <1>5, NearerBound DEF st
  <2>2. Zigzag(c.max_value, st) \in Int /\ Zigzag(c.max_value, st) <= 2 * (c.max_value - st)
        /\ Zigzag(c.max_value, st) >= 2 * (c.max_value - st) - 1
        /\ (c.max_value > st => Zigzag(c.max_value, st) = 2 * (c.max_value - st) - 1)
    BY <1>1, <1>3, <2>1, SMT DEF Zigzag, Abs
  <2>3. CASE n <= Zigzag(c.max_value, st)
    <3>1. Abs(v - st) <= c.max_value - st
      BY <1>1, <1>2, <1>3, <2>1, <2>2, <2>3, SMT DEF Zigzag, Abs
    <3>2. IntPermitted(v, c)
      BY <1>1, <1>2, <1>3, <2>1, <3>1, SMT DEF Abs, IntPermitted
    <3>3. IntFromIndex(n, c) = v
      BY <1>5, <2>3 DEF IntFromIndex, v, st
    <3>4. IntToIndex(v, c) = Zigzag(v, st)
      BY <1>5, <3>1 DEF IntToIndex, st
    <3> QED BY <1>2, <3>2, <3>3, <3>4
  <2>4. CASE ~(n <= Zigzag(c.max_value, st))
    <3>1. IntFromIndex(n, c) = c.max_value - n
      BY <1>5, <2>4 DEF IntFromIndex, st
    <3>2. IntToIndex(c.max_value - n, c) = n
      <4>1. CASE n = 2 * (c.max_value - st)
        <5>1. Abs((c.max_value - n) - st) <= c.max_value - st /\ Zigzag(c.max_value - n, st) = n
          BY <1>1, <1>3, <2>1, <4>1, SMT DEF Abs, Zigzag
        <5> QED BY <1>5, <5>1 DEF IntToIndex, st
      <4>2. CASE n # 2 * (c.max_value - st)
        <5>1. ~(Abs((c.max_value - n) - st) <= c.max_value - st)
          BY <1>1, <1>3, <2>1, <2>2, <2>4, <4>2, SMT DEF Abs
        <5>2. IntToIndex(c.max_value - n, c) = c.max_value - (c.max_value - n)
          BY <1>5, <5>1 DEF IntToIndex, st
        <5> QED BY <1>3, <5>2, SMT
      <4> QED BY <4>1, <4>2
    <3>4. IntPermitted(c.max_value - n, c)
      BY <1>3, <2>1, SMT DEF IntPermitted
    <3> QED BY <1>3, <3>1, <3>2, <3>4, SMT
  <2> QED BY <2>3, <2>4
<1>6. CASE ~LowerEnds(c) /\ ~c.has_max
  <2>1. ~c.has_min
    BY <1>1, <1>6, NearerBound DEF st
  <2>2. IntFromIndex(n, c) = v /\ IntToIndex(v, c) = Zigzag(v, st)
    BY <1>6 DEF IntFromIndex, IntToIndex, v, st
  <2> QED BY <1>2, <1>6, <2>1, <2>2 DEF IntPermitted
<1> QED BY <1>3, <1>4, <1>5, <1>6

--------------------------------------------------------------------------------
(* Collections: shortlex over an alphabet of a letters. *)


\* The count of the shorter collections: none, and with every size all those of that size.
LEMMA SizeToIndexStep ==
  ASSUME NEW a \in Nat \ {0}
  PROVE  \A k \in Nat : /\ SizeToIndex(k, a) \in Nat
                        /\ k = 0 => SizeToIndex(k, a) = 0
                        /\ SizeToIndex(k + 1, a) = SizeToIndex(k, a) + Power(a, k)
                        /\ (a - 1) * SizeToIndex(k, a) = Power(a, k) - 1
<1>1. CASE a = 1
  <2> DEFINE T == {k \in Nat : Power(1, k) = 1}
  <2>1. 0 \in T
    BY PowerRec
  <2>2. ASSUME NEW k \in Nat, k \in T PROVE k + 1 \in T
    <3>1. Power(1, k + 1) = 1 * Power(1, k)
      BY PowerRec
    <3> QED BY <2>2, <3>1
  <2>3. Nat \subseteq T
    <3> HIDE DEF T
    <3> QED BY <2>1, <2>2, NatSetInduction
  <2>4. \A k : SizeToIndex(k, a) = k
    BY <1>1 DEF SizeToIndex
  <2>5. \A k \in Nat : Power(a, k) = 1
    BY <1>1, <2>3
  <2>6. \A k \in Nat : (a - 1) * k = 0
    BY <1>1, SMT
  <2> QED BY <2>4, <2>5, <2>6
<1>2. CASE a # 1
  <2>0. a - 1 \in Nat \ {0}
    BY <1>2, SMT
  <2> DEFINE Good(k) == \E q \in Nat : Power(a, k) - 1 = (a - 1) * q
             T == {k \in Nat : Good(k)}
  <2>1. 0 \in T
    <3>1. Power(a, 0) - 1 = (a - 1) * 0
      BY PowerRec, SMT
    <3> QED BY <3>1
  <2>2. ASSUME NEW k \in Nat, NEW q \in Nat, Power(a, k) - 1 = (a - 1) * q
        PROVE  Power(a, k + 1) - 1 = (a - 1) * (q + Power(a, k)) /\ q + Power(a, k) \in Nat
    <3>1. Power(a, k) \in Nat /\ Power(a, k + 1) = a * Power(a, k)
      BY PowerNat, PowerRec
    <3> DEFINE p == Power(a, k)
    <3>2. p \in Nat /\ p - 1 = (a - 1) * q
      BY <2>2, <3>1
    <3> HIDE DEF p
    <3>3. (a - 1) * (q + p) = (a - 1) * q + (a - 1) * p /\ (a - 1) * p = a * p - p
      BY <2>0, <3>2, SMT
    <3>4. a * p \in Int /\ (a - 1) * q \in Int /\ (a - 1) * p \in Int
      BY <2>0, <3>2, SMT
    <3>5. (a - 1) * (q + p) = a * p - 1
      BY <3>2, <3>3, <3>4, SMT
    <3>6. q + p \in Nat
      BY <3>2, SMT
    <3> QED BY <3>1, <3>5, <3>6 DEF p
  <2>3. ASSUME NEW k \in Nat, k \in T PROVE k + 1 \in T
    <3>1. PICK q \in Nat : Power(a, k) - 1 = (a - 1) * q
      BY <2>3
    <3>2. Power(a, k + 1) - 1 = (a - 1) * (q + Power(a, k)) /\ q + Power(a, k) \in Nat
      BY <2>2, <3>1
    <3> DEFINE r == q + Power(a, k)
    <3> HIDE DEF r
    <3>3. r \in Nat /\ Power(a, k + 1) - 1 = (a - 1) * r
      BY <3>2 DEF r
    <3>4. Good(k + 1)
      BY <3>3, Zenon
    <3>5. k + 1 \in Nat
      OBVIOUS
    <3> QED BY <3>4, <3>5, Zenon
  <2>4. Nat \subseteq T
    <3> HIDE DEF T
    <3> QED BY <2>1, <2>3, NatSetInduction
  <2>5. ASSUME NEW k \in Nat, NEW q \in Nat, Power(a, k) - 1 = (a - 1) * q PROVE SizeToIndex(k, a) = q
    <3>1. Power(a, k) - 1 \in Int /\ 0 \in 0 .. (a - 1) - 1 /\ Power(a, k) - 1 = (a - 1) * q + 0
      <4>1. Power(a, k) \in Nat /\ (a - 1) * q \in Int
        BY <2>0, PowerNat, SMT
      <4> QED BY <2>0, <2>5, <4>1, SMT
    <3> DEFINE n == Power(a, k) - 1
               d == a - 1
    <3> HIDE DEF n, d
    <3>3. d \in Nat \ {0} /\ n \in Int /\ 0 \in 0 .. d - 1 /\ n = d * q + 0
      BY <2>0, <3>1 DEF n, d
    <3>4. n \div d = q
      BY <3>3, DivisionUnique
    <3>2. (Power(a, k) - 1) \div (a - 1) = q
      BY <3>4 DEF n, d
    <3> QED BY <1>2, <3>2 DEF SizeToIndex
  <2>6. ASSUME NEW k \in Nat
        PROVE  /\ SizeToIndex(k, a) \in Nat
               /\ k = 0 => SizeToIndex(k, a) = 0
               /\ SizeToIndex(k + 1, a) = SizeToIndex(k, a) + Power(a, k)
               /\ (a - 1) * SizeToIndex(k, a) = Power(a, k) - 1
    <3>1. PICK q \in Nat : Power(a, k) - 1 = (a - 1) * q
      BY <2>4
    <3>2. SizeToIndex(k, a) = q
      BY <2>5, <3>1
    <3>3. SizeToIndex(k + 1, a) = q + Power(a, k)
      <4>1. k + 1 \in Nat
        OBVIOUS
      <4> QED BY <2>2, <2>5, <3>1, <4>1
    <3>4. k = 0 => q = 0
      <4> SUFFICES ASSUME k = 0 PROVE q = 0
        OBVIOUS
      <4>1. Power(a, k) - 1 = (a - 1) * 0
        BY PowerRec, SMT
      <4>2. SizeToIndex(k, a) = 0
        BY <2>5, <4>1
      <4> QED BY <3>2, <4>2
    <3> QED BY <3>1, <3>2, <3>3, <3>4
  <2> QED BY <2>6
<1> QED BY <1>1, <1>2

\* Longer collections come later.
LEMMA SizeToIndexGrows ==
  ASSUME NEW a \in Nat \ {0}, NEW m \in Nat
  PROVE  \A n \in Nat : m < n => SizeToIndex(m, a) < SizeToIndex(n, a)
<1> DEFINE T == {n \in Nat : m < n => SizeToIndex(m, a) < SizeToIndex(n, a)}
<1>1. 0 \in T
  OBVIOUS
<1>2. ASSUME NEW n \in Nat, n \in T PROVE n + 1 \in T
  <2> DEFINE x == SizeToIndex(m, a)
             y == SizeToIndex(n, a)
             z == SizeToIndex(n + 1, a)
             p == Power(a, n)
  <2>1. x \in Nat /\ y \in Nat /\ z = y + p
    BY SizeToIndexStep
  <2>2. p \in Nat \ {0}
    BY PowerPositive
  <2>3. m < n => x < y
    BY <1>2
  <2>4. m = n => x = y
    OBVIOUS
  <2> HIDE DEF x, y, z, p
  <2>5. m < n + 1 => x < z
    BY <2>1, <2>2, <2>3, <2>4, SMT
  <2> QED BY <2>5 DEF x, z
<1> HIDE DEF T
<1>3. Nat \subseteq T
  BY <1>1, <1>2, NatSetInduction
<1> QED BY <1>3 DEF T

\* The logarithm of index_to_size, by repeated division: the size whose powers enclose a number.
LEMMA Logarithm ==
  ASSUME NEW a \in Nat, a > 1, NEW log,
         log = CHOOSE f : f = [total \in Nat |-> IF total < a THEN 0 ELSE 1 + f[total \div a]]
  PROVE  \A t \in Nat \ {0} : log[t] \in Nat /\ Power(a, log[t]) <= t /\ t < Power(a, log[t] + 1)
<1> DEFINE base == [v \in Nat |-> 0]
           step == [vr \in Nat \X Nat |-> 1 + vr[2]]
           down == [v \in Nat |-> IF v < a THEN v ELSE v \div a]
           size == [v \in Nat |-> v]
           Is(f) == f = [n \in Nat |-> IF n < a THEN 0 ELSE 1 + f[n \div a]]
<1>1. ASSUME NEW v \in Nat, ~(v < a)
      PROVE  v \div a \in Nat \ {0} /\ v \div a < v /\ a * (v \div a) <= v /\ v < a * (v \div a) + a
  <2> DEFINE q == v \div a
             r == v % a
  <2>1. q \in Nat /\ r \in 0 .. a - 1 /\ v = a * q + r
    <3>1. a \in Nat \ {0}
      BY SMT
    <3> QED BY <3>1, Division
  <2> HIDE DEF q, r
  <2>2. q # 0
    <3>1. q = 0 => a * q = 0
      BY SMT
    <3> QED BY <1>1, <2>1, <3>1, SMT
  <2>3. 2 * q <= a * q /\ a * q \in Nat
    BY <2>1, SMT
  <2>4. q < v /\ a * q <= v /\ v < a * q + a
    BY <2>1, <2>2, <2>3, SMT
  <2> QED BY <2>1, <2>2, <2>4 DEF q
<1>2. Descends(Nat, Nat, size, down, base, step)
  <2>1. base \in [Nat -> Nat] /\ size \in [Nat -> Nat]
    OBVIOUS
  <2>2. step \in [Nat \X Nat -> Nat]
    <3>1. \A r \in Nat : 1 + r \in Nat
      BY SMT
    <3> QED BY <3>1
  <2>3. down \in [Nat -> Nat] /\ \A v \in Nat : down[v] # v => size[down[v]] < size[v]
    BY <1>1
  <2> QED BY <2>1, <2>2, <2>3 DEF Descends
<1>3. PICK f \in [Nat -> Nat] : Recurses(f, Nat, base, step, down)
  <2> HIDE DEF base, step, down, size
  <2> QED BY <1>2, Recursion
<1>4. Is(f)
  <2>1. ASSUME NEW v \in Nat PROVE f[v] = IF v < a THEN 0 ELSE 1 + f[v \div a]
    <3>1. f[v] = IF down[v] = v THEN base[v] ELSE step[<<v, f[down[v]]>>]
      BY <1>3 DEF Recurses
    <3>2. CASE v < a
      BY <3>1, <3>2
    <3>3. CASE ~(v < a)
      <4>0. v \div a \in Nat /\ v \div a < v
        BY <1>1, <3>3
      <4>3. v \div a # v
        BY <4>0, SMT
      <4>1. down[v] = v \div a /\ v \div a \in Nat /\ v \div a # v
        BY <3>3, <4>0, <4>3
      <4>2. f[v \div a] \in Nat
        BY <1>3, <4>1
      <4> QED BY <3>1, <3>3, <4>1, <4>2
    <3> QED BY <3>2, <3>3
  <2> QED BY <1>3, <2>1
<1>5. Is(log)
  <2>1. log = CHOOSE q : Is(q)
    OBVIOUS
  <2> HIDE DEF Is
  <2> QED BY <1>4, <2>1
<1> DEFINE Encloses(t) == log[t] \in Nat /\ Power(a, log[t]) <= t /\ t < Power(a, log[t] + 1)
           T == {k \in Nat : \A t \in 1 .. k : Encloses(t)}
<1>6. 0 \in T
  <2>1. 1 .. 0 = {}
    BY SMT
  <2> QED BY <2>1
<1>7. ASSUME NEW k \in Nat, k \in T PROVE k + 1 \in T
  <2>1. ASSUME NEW t \in 1 .. k + 1 PROVE Encloses(t)
    <3>1. t \in Nat \ {0}
      BY SMT
    <3>2. CASE t < a
      <4>1. log[t] = 0
        BY <1>5, <3>1, <3>2
      <4>2. Power(a, 0) = 1 /\ Power(a, 0 + 1) = a * Power(a, 0) /\ a * 1 = a
        BY PowerRec, SMT
      <4> HIDE DEF Is
      <4> QED BY <3>1, <3>2, <4>1, <4>2, SMT
    <3>3. CASE ~(t < a)
      <4> DEFINE q == t \div a
                 l == log[q]
      <4>1. q \in Nat \ {0} /\ q < t /\ a * q <= t /\ t < a * q + a
        BY <1>1, <3>1, <3>3
      <4>2. log[t] = 1 + l
        BY <1>5, <3>1, <3>3
      <4> HIDE DEF q
      <4>3. Encloses(q)
        <5>1. q \in 1 .. k
          BY <4>1, SMT
        <5> QED BY <1>7, <5>1
      <4>4. l \in Nat /\ Power(a, l) <= q /\ q < Power(a, l + 1)
        BY <4>3
      <4> HIDE DEF l, Is
      <4>5. Power(a, l + 1) = a * Power(a, l) /\ Power(a, (l + 1) + 1) = a * Power(a, l + 1)
            /\ Power(a, l) \in Nat /\ Power(a, l + 1) \in Nat /\ l + 1 \in Nat
        <5>1. l + 1 \in Nat
          BY <4>4, SMT
        <5> QED BY <4>4, <5>1, PowerRec, PowerNat
      <4>6. a * Power(a, l) <= a * q /\ a * (q + 1) <= a * Power(a, l + 1)
        <5>1. q + 1 \in Nat /\ q + 1 <= Power(a, l + 1)
          BY <4>1, <4>4, <4>5, SMT
        <5> QED BY <4>1, <4>4, <4>5, <5>1, ProductMonotone
      <4>7. a * (q + 1) = a * q + a /\ a * q \in Nat
        BY <4>1, SMT
      <4>8. Power(a, l + 1) <= t /\ t < Power(a, (l + 1) + 1)
        <5> DEFINE u == a * Power(a, l)
                   v == a * Power(a, l + 1)
                   w == a * q
                   x == a * (q + 1)
        <5>1. u <= w /\ x <= v /\ x = w + a /\ w \in Nat /\ w <= t /\ t < w + a
          BY <4>1, <4>6, <4>7
        <5>2. u \in Int /\ v \in Int
          BY <4>5, SMT
        <5> HIDE DEF u, v, w, x
        <5>3. u <= t /\ t < v
          BY <3>1, <5>1, <5>2, SMT
        <5> QED BY <4>5, <5>3 DEF u, v
      <4>9. 1 + l = l + 1 /\ 1 + l \in Nat
        BY <4>4, SMT
      <4> QED BY <4>2, <4>8, <4>9
    <3> QED BY <3>2, <3>3
  <2> QED BY <2>1
<1>8. Nat \subseteq T
  <2> HIDE DEF T
  <2> QED BY <1>6, <1>7, NatSetInduction
<1>9. ASSUME NEW t \in Nat \ {0} PROVE Encloses(t)
  <2>2. t \in 1 .. t
    BY SMT
  <2>1. t \in 1 .. t /\ t \in T
    <3> HIDE DEF T
    <3> QED BY <1>8, <2>2
  <2> HIDE DEF Encloses
  <2> QED BY <2>1
<1> QED BY <1>9

\* index_to_size: the size that encloses an index.
LEMMA SizeOfIndex ==
  ASSUME NEW a \in Nat \ {0}, NEW n \in Nat
  PROVE  /\ IndexToSize(n, a) \in Nat
         /\ SizeToIndex(IndexToSize(n, a), a) <= n
         /\ n < SizeToIndex(IndexToSize(n, a) + 1, a)
<1>1. CASE a = 1
  <2>1. IndexToSize(n, a) = n /\ \A k : SizeToIndex(k, a) = k
    BY <1>1 DEF IndexToSize, SizeToIndex
  <2> QED BY <2>1, SMT
<1>2. CASE a # 1
  <2> DEFINE log == CHOOSE f : f = [total \in Nat |-> IF total < a THEN 0 ELSE 1 + f[total \div a]]
             d == a - 1
             t == n * d + 1
             k == log[t]
  <2>1. IndexToSize(n, a) = k
    BY <1>2 DEF IndexToSize
  <2>2. d \in Nat \ {0} /\ a > 1 /\ a \in Nat
    BY <1>2, SMT
  <2>3. n * d \in Nat /\ t \in Nat \ {0}
    <3>1. n * d \in Nat
      BY <2>2, ProductNat
    <3> QED BY <3>1
  <2>4. \A u \in Nat \ {0} : log[u] \in Nat /\ Power(a, log[u]) <= u /\ u < Power(a, log[u] + 1)
    <3> HIDE DEF log
    <3>1. log = CHOOSE f : f = [total \in Nat |-> IF total < a THEN 0 ELSE 1 + f[total \div a]]
      BY DEF log
    <3> QED BY <2>2, <3>1, Logarithm
  <2> HIDE DEF log
  <2>5. k \in Nat /\ Power(a, k) <= t /\ t < Power(a, k + 1)
    BY <2>3, <2>4
  <2> HIDE DEF k
  <2>6. /\ SizeToIndex(k, a) \in Nat /\ d * SizeToIndex(k, a) = Power(a, k) - 1
        /\ SizeToIndex(k + 1, a) \in Nat /\ d * SizeToIndex(k + 1, a) = Power(a, k + 1) - 1
        /\ Power(a, k) \in Nat /\ Power(a, k + 1) \in Nat
    <3>1. k + 1 \in Nat
      BY <2>5
    <3> QED BY <2>2, <2>5, <3>1, SizeToIndexStep, PowerNat
  <2> DEFINE x == SizeToIndex(k, a)
             y == SizeToIndex(k + 1, a)
  <2>7. d * x <= n * d /\ n * d < d * y
    <3> DEFINE u == n * d
    <3>1. u \in Nat /\ t = u + 1
      BY <2>3
    <3> HIDE DEF u, t
    <3>2. d * x <= u /\ u < d * y
      BY <2>5, <2>6, <3>1, SMT
    <3> QED BY <3>2 DEF u
  <2>8. x \in Nat /\ y \in Nat
    BY <2>6
  <2> HIDE DEF x, y, d
  <2>9. x <= n
    <3>1. ASSUME ~(x <= n) PROVE FALSE
      <4>1. d * (n + 1) <= d * x
        <5>1. n + 1 \in Nat /\ n + 1 <= x
          BY <2>8, <3>1, SMT
        <5> QED BY <2>2, <2>8, <5>1, ProductMonotone
      <4>2. d * (n + 1) = n * d + d
        BY <2>2, SMT
      <4>3. d * x \in Int /\ n * d \in Int
        BY <2>2, <2>8, SMT
      <4> QED BY <2>2, <2>7, <4>1, <4>2, <4>3, SMT
    <3> QED BY <3>1
  <2>10. n < y
    <3>1. ASSUME ~(n < y) PROVE FALSE
      <4>1. d * y <= n * d
        <5>1. y <= n
          BY <2>8, <3>1, SMT
        <5>2. d * y <= d * n
          BY <2>2, <2>8, <5>1, ProductMonotone
        <5>3. d * n = n * d
          BY <2>2, SMT
        <5> QED BY <5>2, <5>3
      <4>2. d * y \in Int /\ n * d \in Int
        BY <2>2, <2>8, SMT
      <4> QED BY <2>7, <4>1, <4>2, SMT
    <3> QED BY <3>1
  <2> QED BY <2>1, <2>5, <2>9, <2>10 DEF x, y
<1> QED BY <1>1, <1>2

\* One digit, by a remainder then a quotient or the other way round.
LEMMA RemainderThenQuotient ==
  ASSUME NEW x \in Nat, NEW p \in Nat \ {0}, NEW d \in Nat \ {0}
  PROVE  (x % (d * p)) \div p = (x \div p) % d
<1> DEFINE q == x \div p
           r == x % p
           s == q \div d
           t == q % d
           m == d * p
<1>1. q \in Nat /\ r \in 0 .. p - 1 /\ x = p * q + r
  BY Division
<1> HIDE DEF q, r
<1>2. s \in Nat /\ t \in 0 .. d - 1 /\ q = d * s + t
  BY <1>1, Division
<1> HIDE DEF s, t
<1>3. m \in Nat \ {0}
  BY ProductPositive
<1>4. p * t + r \in 0 .. m - 1
  <2>1. p * t \in Nat
    BY <1>2, SMT
  <2>2. p * (t + 1) <= p * d
    <3>1. t + 1 \in Nat /\ t + 1 <= d /\ p \in Nat /\ d \in Nat
      BY <1>2, SMT
    <3> QED BY <3>1, ProductMonotone
  <2>3. p * (t + 1) = p * t + p /\ p * d = m
    BY <1>2, SMT
  <2> DEFINE u == p * t
  <2> HIDE DEF u, m
  <2>4. u \in Nat /\ u + p <= m
    BY <2>1, <2>2, <2>3 DEF u
  <2>5. u + r \in 0 .. m - 1
    BY <1>1, <1>3, <2>4, SMT
  <2> QED BY <2>5 DEF u
<1>5. x = m * s + (p * t + r)
  <2>1. p * q = p * (d * s) + p * t
    BY <1>2, SMT
  <2>2. p * (d * s) = (d * p) * s
    <3>1. p * (d * s) = (p * d) * s /\ p * d = d * p
      BY <1>2, SMT
    <3> QED BY <3>1
  <2>3. p * t \in Int /\ (d * p) * s \in Int
    BY <1>2, SMT
  <2> DEFINE u == p * t
             v == m * s
             w == p * q
  <2>4. w = v + u /\ u \in Int /\ v \in Int /\ x = w + r
    BY <1>1, <2>1, <2>2, <2>3
  <2> HIDE DEF u, v, w
  <2>5. x = v + (u + r)
    BY <1>1, <2>4, SMT
  <2> QED BY <2>5 DEF u, v
<1>6. x % m = p * t + r
  <2> DEFINE z == p * t + r
  <2>1. z \in 0 .. m - 1 /\ x = m * s + z /\ s \in Int /\ x \in Int
    BY <1>2, <1>4, <1>5
  <2> HIDE DEF z, m
  <2>2. x % m = z
    BY <1>3, <2>1, DivisionUnique
  <2> QED BY <2>2 DEF z
<1>7. (p * t + r) \div p = t
  <2> DEFINE z == p * t + r
  <2>1. z \in Int /\ t \in Int /\ z = p * t + r
    BY <1>1, <1>2, SMT
  <2> HIDE DEF z
  <2>2. z \div p = t
    BY <1>1, <2>1, DivisionUnique
  <2> QED BY <2>2 DEF z
<1> QED BY <1>6, <1>7 DEF m, t, q

\* What collection_from_index and collection_to_index compute, by size and digits.
Shifted(n, min_size, a) == n + SizeToIndex(min_size, a)
SizeFor(n, min_size, a) == IndexToSize(Shifted(n, min_size, a), a)
Remaining(n, min_size, a) == Shifted(n, min_size, a) - SizeToIndex(SizeFor(n, min_size, a), a)

\* An index is the collections that are shorter and the digits that remain.
LEMMA CollectionParts ==
  ASSUME NEW a \in Nat \ {0}, NEW min_size \in Nat, NEW n \in Nat
  PROVE  LET size == SizeFor(n, min_size, a)
             rest == Remaining(n, min_size, a)
         IN  /\ Shifted(n, min_size, a) \in Nat
             /\ size \in Nat /\ min_size <= size /\ rest \in Nat /\ rest < Power(a, size)
             /\ size < BUFFER_SIZE => CollectionFromIndex(n, min_size, a) = {DigitsOf(rest, a, size)}
             /\ n = SizeToIndex(size, a) - SizeToIndex(min_size, a) + rest
<1> DEFINE b == Shifted(n, min_size, a)
           size == SizeFor(n, min_size, a)
           rest == Remaining(n, min_size, a)
           low == SizeToIndex(size, a)
           m == SizeToIndex(min_size, a)
<1>1. m \in Nat
  BY SizeToIndexStep
<1>2. b \in Nat /\ b = n + m
  BY <1>1 DEF Shifted
<1> HIDE DEF b
<1>3. size \in Nat /\ low <= b /\ b < SizeToIndex(size + 1, a)
  <2>1. size = IndexToSize(b, a)
    BY DEF SizeFor, b
  <2> HIDE DEF size
  <2> QED BY <1>2, <2>1, SizeOfIndex
<1>4. rest = b - low
  BY DEF Remaining, b
<1> HIDE DEF size, rest
<1>5. low \in Nat /\ SizeToIndex(size + 1, a) = low + Power(a, size) /\ Power(a, size) \in Nat
  BY <1>3, SizeToIndexStep, PowerNat
<1>6. rest \in Nat /\ rest < Power(a, size)
  <2> HIDE DEF low
  <2> QED BY <1>2, <1>3, <1>4, <1>5, SMT
<1>7. n = low - m + rest
  <2> HIDE DEF low, m
  <2> QED BY <1>1, <1>2, <1>4, <1>5, SMT
<1>8. min_size <= size
  <2>1. ASSUME ~(min_size <= size) PROVE FALSE
    <3>1. size + 1 \in Nat /\ (size + 1 < min_size \/ size + 1 = min_size)
      BY <1>3, <2>1, SMT
    <3>2. SizeToIndex(size + 1, a) <= m
      <4>1. SizeToIndex(size + 1, a) \in Nat
        BY <3>1, SizeToIndexStep
      <4>2. size + 1 < min_size => SizeToIndex(size + 1, a) < m
        BY <3>1, SizeToIndexGrows
      <4> HIDE DEF m
      <4>3. size + 1 = min_size => SizeToIndex(size + 1, a) = m
        BY DEF m
      <4> QED BY <1>1, <3>1, <4>1, <4>2, <4>3, SMT
    <3> HIDE DEF low, m
    <3>3. SizeToIndex(size + 1, a) \in Nat
      BY <3>1, SizeToIndexStep
    <3> QED BY <1>1, <1>2, <1>3, <3>2, <3>3, SMT
  <2> QED BY <2>1
<1>9. ASSUME size < BUFFER_SIZE PROVE CollectionFromIndex(n, min_size, a) = {DigitsOf(rest, a, size)}
  <2> DEFINE digit(i) == IF rest = 0 THEN 0 ELSE (rest % Power(a, size - i + 1)) \div Power(a, size - i)
  <2>1. ~(size >= BUFFER_SIZE)
    BY <1>3, <1>9, BufferAssumption, SMT
  <2>2. CollectionFromIndex(n, min_size, a) = {[i \in 1 .. size |-> digit(i)]}
    BY <2>1, <1>4 DEF CollectionFromIndex, size, b, low, Shifted, SizeFor, rest, Remaining
  <2>3. ASSUME NEW i \in 1 .. size PROVE digit(i) = (rest \div Power(a, size - i)) % a
    <3>1. size - i \in Nat /\ size - i + 1 = (size - i) + 1
      BY <1>3, SMT
    <3> DEFINE p == Power(a, size - i)
    <3>5. Power(a, (size - i) + 1) = a * p
      BY <3>1, PowerRec
    <3>2. p \in Nat \ {0} /\ Power(a, size - i + 1) = a * p
      BY <3>1, <3>5, PowerPositive
    <3> HIDE DEF p
    <3>3. (rest % (a * p)) \div p = (rest \div p) % a
      BY <1>6, <3>2, RemainderThenQuotient
    <3>4. rest = 0 => (rest \div p) % a = 0
      <4> SUFFICES ASSUME rest = 0 PROVE (rest \div p) % a = 0
        OBVIOUS
      <4>1. 0 \in 0 .. p - 1 /\ 0 = p * 0 + 0 /\ 0 \in 0 .. a - 1 /\ 0 = a * 0 + 0
        BY <3>2, SMT
      <4>2. 0 \div p = 0
        BY <3>2, <4>1, DivisionUnique
      <4>3. 0 % a = 0
        BY <4>1, DivisionUnique
      <4> QED BY <4>2, <4>3
    <3> QED BY <3>2, <3>3, <3>4 DEF p
  <2> HIDE DEF digit
  <2> QED BY <2>2, <2>3 DEF DigitsOf
<1> QED BY <1>2, <1>3, <1>6, <1>7, <1>8, <1>9 DEF b, size, rest, low, m

\* The number of collections of the permitted sizes.
CollectionsWithin(min_size, max_size, a) ==
    SizeToIndex(max_size + 1, a) - SizeToIndex(min_size, a) + (IF a = 0 THEN 1 ELSE 0)

\* collection_to_index after collection_from_index: every index below the number of the
\* collections permitted stands for one of them, and is its index.
THEOREM IndexOfCollection ==
  ASSUME NEW a \in Nat, NEW min_size \in Nat, NEW max_size \in Nat, NEW n \in Nat,
         min_size <= max_size, max_size < BUFFER_SIZE, a = 0 => min_size = 0,
         n < CollectionsWithin(min_size, max_size, a)
  PROVE  \E orders \in Seq(0 .. a - 1) :
            /\ CollectionFromIndex(n, min_size, a) = {orders}
            /\ Len(orders) \in min_size .. max_size
            /\ CollectionToIndex(orders, min_size, a) = n
<1>1. CASE a = 0
  <2>1. min_size = 0 /\ n = 0
    <3>1. CollectionsWithin(min_size, max_size, a) = 1
      BY <1>1 DEF CollectionsWithin, SizeToIndex
    <3> QED BY <1>1, <3>1, SMT
  <2>2. ~(0 >= BUFFER_SIZE)
    BY BufferAssumption, SMT
  <2>3. CollectionFromIndex(n, min_size, a) = {<<>>}
    <3>1. 1 .. 0 = {}
      BY SMT
    <3>2. CollectionFromIndex(n, min_size, a) = {[i \in 1 .. 0 |->
                 IF 0 = 0 THEN 0 ELSE (0 % Power(a, 0 - i + 1)) \div Power(a, 0 - i)]}
      BY <1>1, <2>1, <2>2 DEF CollectionFromIndex, SizeToIndex, IndexToSize
    <3> QED BY <3>1, <3>2
  <2>4. <<>> \in Seq(0 .. a - 1) /\ Len(<<>>) = 0 /\ <<>> \in Seq(Nat)
    BY EmptySeq
  <2>5. Digits(<<>>, a) = 0
    <3>1. Digits(<<>>, a) = Number(a, <<>>)
      BY Zenon DEF Digits, Number
    <3>2. PICK P : IsNumber(P, a, <<>>) /\ P[0] = Number(a, <<>>)
      BY <2>4, NumberFold
    <3> QED BY <3>1, <3>2 DEF IsNumber
  <2>6. CollectionToIndex(<<>>, min_size, a) = 0
    BY <1>1, <2>5 DEF CollectionToIndex, SizeToIndex
  <2>7. 0 \in min_size .. max_size
    BY <2>1, SMT
  <2> QED BY <2>1, <2>3, <2>4, <2>6, <2>7
<1>2. CASE a # 0
  <2>0. a \in Nat \ {0}
    BY <1>2
  <2> DEFINE size == SizeFor(n, min_size, a)
             rest == Remaining(n, min_size, a)
             m == SizeToIndex(min_size, a)
             orders == DigitsOf(rest, a, size)
  <2>1. /\ size \in Nat /\ min_size <= size /\ rest \in Nat /\ rest < Power(a, size)
        /\ size < BUFFER_SIZE => CollectionFromIndex(n, min_size, a) = {orders}
        /\ n = SizeToIndex(size, a) - m + rest
    BY <2>0, CollectionParts
  <2> HIDE DEF size, rest
  <2>2. size <= max_size
    <3>1. ASSUME ~(size <= max_size) PROVE FALSE
      <4>1. max_size + 1 \in Nat /\ (max_size + 1 < size \/ max_size + 1 = size)
        BY <2>1, <3>1, SMT
      <4> DEFINE x == SizeToIndex(max_size + 1, a)
                 y == SizeToIndex(size, a)
      <4>2. x \in Nat /\ y \in Nat /\ m \in Nat
        BY <2>0, <2>1, <4>1, SizeToIndexStep
      <4>3. max_size + 1 < size => x < y
        BY <2>0, <2>1, <4>1, SizeToIndexGrows
      <4>4. max_size + 1 = size => x = y
        OBVIOUS
      <4>5. n < x - m
        BY <1>2, <4>2 DEF CollectionsWithin
      <4> HIDE DEF x, y, m
      <4>6. n >= y - m
        BY <2>1, <4>2, SMT DEF y
      <4> QED BY <4>1, <4>2, <4>3, <4>4, <4>5, <4>6, SMT
    <3> QED BY <3>1
  <2>3. size < BUFFER_SIZE
    BY <2>1, <2>2, BufferAssumption, SMT
  <2>4. orders \in [1 .. size -> 0 .. a - 1] /\ orders \in Seq(Nat) /\ Len(orders) = size
    BY <2>0, <2>1, DigitsType
  <2>5. Digits(orders, a) = rest
    <3>1. Digits(orders, a) = Number(a, orders)
      BY Zenon DEF Digits, Number
    <3>2. Number(a, orders) = rest
      BY <2>0, <2>1, NumberOfDigits
    <3> QED BY <3>1, <3>2
  <2> HIDE DEF orders
  <2>6. orders \in Seq(0 .. a - 1)
    BY <2>1, <2>4, FunctionIsSeq
  <2>7. CollectionToIndex(orders, min_size, a) = n
    BY <2>1, <2>4, <2>5 DEF CollectionToIndex
  <2>8. size \in min_size .. max_size
    BY <2>1, <2>2, SMT
  <2> QED BY <2>1, <2>3, <2>4, <2>6, <2>7, <2>8
<1> QED BY <1>1, <1>2

--------------------------------------------------------------------------------
(* Interval sets: the positions of their members. *)


Interval == [lo : Int, hi : Int]

\* Ascending disjoint intervals, none of them empty.
InOrder(ivs) == \A k \in 1 .. Len(ivs) : /\ ivs[k].lo <= ivs[k].hi
                                         /\ k > 1 => ivs[k - 1].hi < ivs[k].lo

TotalWidth(s) == FoldLeft(LAMBDA acc, iv : acc + Width(iv), 0, s)

Totals(P, s, n) == P[0] = 0 /\ \A k \in 1 .. n : P[k] = P[k - 1] + Width(s[k])

\* The total width, interval by interval.
LEMMA WidthFold ==
  ASSUME NEW s \in Intervals
  PROVE  \E P : Totals(P, s, Len(s)) /\ P[Len(s)] = TotalWidth(s)
<1> DEFINE n == Len(s)
           step == [vk \in Int \X (1 .. n) |-> vk[1] + Width(s[vk[2]])]
           Is(h) == h = [t \in SUBSET DOMAIN s |-> IF t = {} THEN 0
                           ELSE LET x == Max(t) IN h[t \ {x}] + Width(s[x])]
<1>1. n \in Nat /\ DOMAIN s = 1 .. n /\ \A k \in 1 .. n : Width(s[k]) \in Int
  <2>1. s \in Seq(Interval)
    BY DEF Intervals, Interval
  <2>2. n \in Nat /\ DOMAIN s = 1 .. n /\ \A k \in 1 .. n : s[k] \in Interval
    <3> HIDE DEF Interval
    <3> QED BY <2>1, LenProperties, ElementOfSeq
  <2>3. ASSUME NEW k \in 1 .. n PROVE Width(s[k]) \in Int
    <3>1. s[k].lo \in Int /\ s[k].hi \in Int
      BY <2>2 DEF Interval
    <3> QED BY <3>1, SMT DEF Width
  <2> QED BY <2>2, <2>3
<1> HIDE DEF n
<1>2. PICK g \in [SUBSET (1 .. n) -> Int] : Folds(g, n, 0, step)
  <2>1. step \in [Int \X (1 .. n) -> Int]
    <3>1. ASSUME NEW v \in Int, NEW k \in 1 .. n PROVE v + Width(s[k]) \in Int
      <4>1. Width(s[k]) \in Int
        BY <1>1
      <4> QED BY <4>1, SMT
    <3> QED BY <3>1
  <2>2. 0 \in Int
    OBVIOUS
  <2> HIDE DEF step
  <2> QED BY <1>1, <2>1, <2>2, FoldExists
<1>3. Is(g)
  <2>1. ASSUME NEW t \in SUBSET (1 .. n), t # {}
        PROVE  g[t] = g[t \ {Max(t)}] + Width(s[Max(t)])
    <3>1. Max(t) \in 1 .. n /\ t \ {Max(t)} \in SUBSET (1 .. n)
      BY <1>1, <2>1, MaxPosition
    <3>2. g[t] = step[<<g[t \ {Max(t)}], Max(t)>>]
      BY <1>2, <2>1 DEF Folds
    <3> QED BY <3>1, <3>2
  <2>2. g[{}] = 0
    BY <1>2 DEF Folds
  <2> QED BY <1>1, <1>2, <2>1, <2>2
<1> DEFINE h == CHOOSE q : Is(q)
<1>4. Is(h)
  <2> HIDE DEF Is
  <2> QED BY <1>3
<1>5. TotalWidth(s) = h[DOMAIN s]
  BY Zenon DEF TotalWidth, FoldLeft, MapThenFoldSet
<1> HIDE DEF h
<1> DEFINE P == [k \in 0 .. n |-> h[1 .. k]]
<1>6. P[0] = 0
  <2>1. 1 .. 0 = {} /\ 0 \in 0 .. n /\ {} \in SUBSET (1 .. n)
    BY <1>1, SMT
  <2> QED BY <1>1, <1>4, <2>1
<1>7. ASSUME NEW k \in 1 .. n PROVE P[k] = P[k - 1] + Width(s[k])
  <2>1. 1 .. k \in SUBSET (1 .. n) /\ 1 .. k # {} /\ Max(1 .. k) = k /\ (1 .. k) \ {k} = 1 .. k - 1
    BY <1>1, Positions
  <2>2. h[1 .. k] = h[1 .. k - 1] + Width(s[k])
    BY <1>1, <1>4, <2>1
  <2>3. k \in 0 .. n /\ k - 1 \in 0 .. n
    BY <1>1, SMT
  <2> QED BY <2>2, <2>3
<1>8. P[n] = h[1 .. n]
  BY <1>1, SMT
<1> HIDE DEF P
<1>9. Totals(P, s, n)
  BY <1>6, <1>7 DEF Totals
<1> QED BY <1>1, <1>5, <1>8, <1>9 DEF n

\* The same intervals are as wide.
LEMMA TotalsUnique ==
  ASSUME NEW n \in Nat, NEW s, NEW t, NEW P, NEW Q, Totals(P, s, n), Totals(Q, t, n),
         \A k \in 1 .. n : s[k] = t[k] /\ Width(s[k]) \in Int
  PROVE  P[n] = Q[n] /\ P[n] \in Int
<1> DEFINE T == {k \in Nat : k <= n => P[k] = Q[k] /\ P[k] \in Int}
<1>1. 0 \in T
  BY DEF Totals
<1>2. ASSUME NEW k \in Nat, k \in T PROVE k + 1 \in T
  <2> SUFFICES ASSUME k + 1 <= n PROVE P[k + 1] = Q[k + 1] /\ P[k + 1] \in Int
    BY SMT
  <2>1. k + 1 \in 1 .. n /\ (k + 1) - 1 = k /\ k <= n
    BY SMT
  <2>2. P[k + 1] = P[k] + Width(s[k + 1]) /\ Q[k + 1] = Q[k] + Width(t[k + 1])
    BY <2>1 DEF Totals
  <2>3. P[k] = Q[k] /\ P[k] \in Int /\ Width(s[k + 1]) \in Int /\ s[k + 1] = t[k + 1]
    BY <1>2, <2>1
  <2>4. \A x, y \in Int : x + y \in Int
    BY SMT
  <2> QED BY <2>2, <2>3, <2>4
<1>3. Nat \subseteq T
  <2> HIDE DEF T
  <2> QED BY <1>1, <1>2, NatSetInduction
<1> QED BY <1>3

\* What an interval of a sequence of them is.
LEMMA IntervalType ==
  ASSUME NEW ivs \in Intervals
  PROVE  /\ Len(ivs) \in Nat /\ DOMAIN ivs = 1 .. Len(ivs)
         /\ \A k \in 1 .. Len(ivs) : /\ ivs[k] \in Interval /\ ivs[k].lo \in Int /\ ivs[k].hi \in Int
                                     /\ Width(ivs[k]) \in Int /\ Width(ivs[k]) = ivs[k].hi - ivs[k].lo + 1
<1>1. ivs \in Seq(Interval)
  BY DEF Intervals, Interval
<1>2. Len(ivs) \in Nat /\ DOMAIN ivs = 1 .. Len(ivs) /\ \A k \in 1 .. Len(ivs) : ivs[k] \in Interval
  <2> HIDE DEF Interval
  <2> QED BY <1>1, LenProperties, ElementOfSeq
<1>3. ASSUME NEW k \in 1 .. Len(ivs)
      PROVE  ivs[k].lo \in Int /\ ivs[k].hi \in Int /\ Width(ivs[k]) \in Int /\ Width(ivs[k]) = ivs[k].hi - ivs[k].lo + 1
  <2>1. ivs[k].lo \in Int /\ ivs[k].hi \in Int
    BY <1>2 DEF Interval
  <2> QED BY <2>1, SMT DEF Width
<1> QED BY <1>2, <1>3

\* The table of offsets: each adds the width of one interval.
LEMMA OffsetSteps ==
  ASSUME NEW ivs \in Intervals
  PROVE  /\ Offset(ivs, 1) = 0
         /\ \A k \in 1 .. Len(ivs) + 1 : Offset(ivs, k) \in Int
         /\ \A k \in 1 .. Len(ivs) : Offset(ivs, k + 1) = Offset(ivs, k) + Width(ivs[k])
<1> DEFINE n == Len(ivs)
           cut(k) == SubSeq(ivs, 1, k)
<1>1. n \in Nat /\ ivs \in Seq(Interval) /\ \A k \in 1 .. n : Width(ivs[k]) \in Int
  BY IntervalType DEF Intervals, Interval
<1>2. \A k : Offset(ivs, k) = TotalWidth(cut(k - 1))
  BY DEF Offset, TotalWidth
<1>3. ASSUME NEW k \in 0 .. n
      PROVE  cut(k) \in Intervals /\ Len(cut(k)) = k /\ \A i \in 1 .. k : cut(k)[i] = ivs[i] /\ i \in 1 .. n
  <2>1. k \in 0 .. Len(ivs)
    OBVIOUS
  <2>2. cut(k) \in Seq(Interval) /\ Len(cut(k)) = k /\ \A i \in 1 .. k : cut(k)[i] = ivs[i]
    <3> HIDE DEF Interval
    <3> QED BY <1>1, <2>1, Beginning
  <2>3. \A i \in 1 .. k : i \in 1 .. n
    BY <1>1, SMT
  <2> QED BY <2>2, <2>3 DEF Intervals, Interval
<1> HIDE DEF n, cut
<1>4. ASSUME NEW k \in 0 .. n
      PROVE  \E P : Totals(P, ivs, k) /\ P[k] = TotalWidth(cut(k))
  <2>1. PICK P : Totals(P, cut(k), k) /\ P[k] = TotalWidth(cut(k))
    BY <1>3, WidthFold
  <2>2. Totals(P, ivs, k)
    BY <1>3, <2>1 DEF Totals
  <2> QED BY <2>1, <2>2
<1>5. ASSUME NEW k \in 0 .. n PROVE TotalWidth(cut(k)) \in Int
  <2>1. PICK P : Totals(P, ivs, k) /\ P[k] = TotalWidth(cut(k))
    BY <1>4
  <2>2. k \in Nat /\ \A i \in 1 .. k : Width(ivs[i]) \in Int
    <3>1. k \in Nat /\ \A i \in 1 .. k : i \in 1 .. n
      BY <1>1, SMT
    <3> QED BY <1>1, <3>1
  <2> QED BY <2>1, <2>2, TotalsUnique
<1>6. ASSUME NEW k \in 1 .. n PROVE TotalWidth(cut(k)) = TotalWidth(cut(k - 1)) + Width(ivs[k])
  <2>1. k \in 0 .. n /\ k - 1 \in 0 .. n /\ k - 1 \in Nat /\ k \in 1 .. k /\ \A i \in 1 .. k - 1 : i \in 1 .. k /\ i \in 1 .. n
    BY <1>1, SMT
  <2>2. PICK P : Totals(P, ivs, k) /\ P[k] = TotalWidth(cut(k))
    BY <1>4, <2>1
  <2>3. PICK Q : Totals(Q, ivs, k - 1) /\ Q[k - 1] = TotalWidth(cut(k - 1))
    BY <1>4, <2>1
  <2>4. Totals(P, ivs, k - 1)
    BY <2>1, <2>2 DEF Totals
  <2>5. P[k - 1] = Q[k - 1]
    BY <1>1, <2>1, <2>3, <2>4, TotalsUnique
  <2>6. P[k] = P[k - 1] + Width(ivs[k])
    BY <2>1, <2>2 DEF Totals
  <2> QED BY <2>2, <2>3, <2>5, <2>6
<1>7. TotalWidth(cut(0)) = 0
  <2>1. 0 \in 0 .. n
    BY <1>1, SMT
  <2>2. PICK P : Totals(P, ivs, 0) /\ P[0] = TotalWidth(cut(0))
    BY <1>4, <2>1
  <2> QED BY <2>2 DEF Totals
<1>8. Offset(ivs, 1) = 0
  <2>1. 1 - 1 = 0
    OBVIOUS
  <2> QED BY <1>2, <1>7, <2>1
<1>9. ASSUME NEW k \in 1 .. n + 1 PROVE Offset(ivs, k) \in Int
  <2>1. k - 1 \in 0 .. n
    BY <1>1, SMT
  <2> QED BY <1>2, <1>5, <2>1
<1>10. ASSUME NEW k \in 1 .. n PROVE Offset(ivs, k + 1) = Offset(ivs, k) + Width(ivs[k])
  <2>1. (k + 1) - 1 = k
    BY <1>1, SMT
  <2>2. Offset(ivs, k + 1) = TotalWidth(cut(k)) /\ Offset(ivs, k) = TotalWidth(cut(k - 1))
    BY <1>2, <2>1
  <2> QED BY <1>6, <2>2
<1> QED BY <1>8, <1>9, <1>10 DEF n

IntervalsInOrder == {ivs \in Intervals : InOrder(ivs)}

\* Position i lies in interval k.
At(ivs, k, i) == k \in 1 .. Len(ivs) /\ Offset(ivs, k) <= i /\ i < Offset(ivs, k) + Width(ivs[k])

\* What is before another interval is below it and counted before it.
LEMMA EarlierIsLower ==
  ASSUME NEW ivs \in IntervalsInOrder
  PROVE  /\ \A k \in 1 .. Len(ivs) : /\ Width(ivs[k]) \in Nat \ {0} /\ ivs[k].lo <= ivs[k].hi
                                     /\ \A j \in 1 .. k - 1 : /\ ivs[j].hi < ivs[k].lo
                                                              /\ Offset(ivs, j) + Width(ivs[j]) <= Offset(ivs, k)
         /\ \A k \in 1 .. Len(ivs) + 1 : /\ Offset(ivs, k) \in Nat /\ Offset(ivs, k) <= Size(ivs)
                                         /\ \A j \in 1 .. k - 1 : Offset(ivs, j) + Width(ivs[j]) <= Offset(ivs, k)
<1> DEFINE n == Len(ivs)
           o(k) == Offset(ivs, k)
           w(k) == Width(ivs[k])
<1>1. ivs \in Intervals /\ InOrder(ivs)
  BY DEF IntervalsInOrder
<1>2. n \in Nat /\ \A k \in 1 .. n : ivs[k].lo \in Int /\ ivs[k].hi \in Int /\ w(k) = ivs[k].hi - ivs[k].lo + 1
  BY <1>1, IntervalType
<1>3. \A k \in 1 .. n : w(k) \in Nat \ {0} /\ ivs[k].lo <= ivs[k].hi
  <2>1. ASSUME NEW k \in 1 .. n PROVE w(k) \in Nat \ {0} /\ ivs[k].lo <= ivs[k].hi
    <3>1. ivs[k].lo <= ivs[k].hi
      BY <1>1 DEF InOrder
    <3> HIDE DEF w
    <3> QED BY <1>2, <3>1, SMT
  <2> QED BY <2>1
<1>4. o(1) = 0 /\ (\A k \in 1 .. n + 1 : o(k) \in Int) /\ \A k \in 1 .. n : o(k + 1) = o(k) + w(k)
  BY <1>1, OffsetSteps
<1>5. \A k \in 1 .. n : k > 1 => ivs[k - 1].hi < ivs[k].lo
  BY <1>1 DEF InOrder
<1> HIDE DEF n, o, w
<1> DEFINE Low(k) == \A j \in 1 .. k - 1 : o(j) + w(j) <= o(k) /\ (k <= n => ivs[j].hi < ivs[k].lo)
           T == {m \in Nat : m + 1 <= n + 1 => o(m + 1) \in Nat /\ Low(m + 1)}
<1>6. 0 \in T
  <2>1. 1 .. (0 + 1) - 1 = {} /\ 0 + 1 = 1
    BY SMT
  <2> QED BY <1>4, <2>1
<1>7. ASSUME NEW m \in Nat, m \in T PROVE m + 1 \in T
  <2> SUFFICES ASSUME (m + 1) + 1 <= n + 1 PROVE o((m + 1) + 1) \in Nat /\ Low((m + 1) + 1)
    BY SMT
  <2> DEFINE k == m + 1
  <2>1. k \in 1 .. n /\ k \in 1 .. n + 1 /\ k <= n /\ k + 1 > 1 /\ (k + 1) - 1 = k
    BY <1>2, SMT
  <2>2. o(k) \in Nat /\ Low(k)
    <3>1. m + 1 <= n + 1
      BY <1>2, SMT
    <3> QED BY <1>7, <3>1
  <2> HIDE DEF k
  <2>3. o(k + 1) = o(k) + w(k) /\ w(k) \in Nat \ {0} /\ ivs[k].lo <= ivs[k].hi
        /\ ivs[k].lo \in Int /\ ivs[k].hi \in Int
    BY <1>2, <1>3, <1>4, <2>1
  <2>4. o(k + 1) \in Nat
    BY <2>2, <2>3, SMT
  <2>5. ASSUME NEW j \in 1 .. k PROVE o(j) + w(j) <= o(k + 1) /\ (k + 1 <= n => ivs[j].hi < ivs[k + 1].lo)
    <3>1. CASE j = k
      <4>1. k + 1 <= n => k + 1 \in 1 .. n
        BY <1>2, <2>1, SMT
      <4>2. k + 1 <= n => ivs[k].hi < ivs[k + 1].lo
        BY <1>5, <2>1, <4>1
      <4> QED BY <2>2, <2>3, <3>1, <4>2
    <3>2. CASE j # k
      <4>1. j \in 1 .. k - 1 /\ j \in 1 .. n /\ j \in 1 .. n + 1
        BY <2>1, <3>2, <1>2, SMT
      <4>2. o(j) + w(j) <= o(k) /\ ivs[j].hi < ivs[k].lo
        BY <2>1, <2>2, <4>1
      <4>3. o(j) \in Int /\ w(j) \in Nat /\ ivs[j].hi \in Int
        BY <1>2, <1>3, <1>4, <4>1
      <4>4. o(j) + w(j) <= o(k + 1)
        BY <2>2, <2>3, <4>2, <4>3, SMT
      <4>5. k + 1 <= n => ivs[j].hi < ivs[k + 1].lo
        <5>1. k + 1 <= n => k + 1 \in 1 .. n
          BY <1>2, <2>1, SMT
        <5>2. k + 1 <= n => ivs[k].hi < ivs[k + 1].lo /\ ivs[k + 1].lo \in Int
          BY <1>2, <1>5, <2>1, <5>1
        <5> QED BY <2>3, <4>2, <4>3, <5>2, SMT
      <4> QED BY <4>4, <4>5
    <3> QED BY <3>1, <3>2
  <2>6. Low(k + 1)
    BY <2>1, <2>5
  <2> QED BY <2>4, <2>6 DEF k
<1>8. Nat \subseteq T
  <2> HIDE DEF T
  <2> QED BY <1>6, <1>7, NatSetInduction
<1>9. ASSUME NEW k \in 1 .. n + 1 PROVE o(k) \in Nat /\ Low(k)
  <2>1. k - 1 \in Nat /\ (k - 1) + 1 = k /\ k <= n + 1
    BY <1>2, SMT
  <2>2. k - 1 \in T
    <3> HIDE DEF T
    <3> QED BY <1>8, <2>1
  <2> QED BY <2>1, <2>2
<1>10. ASSUME NEW k \in 1 .. n + 1 PROVE o(k) <= o(n + 1)
  <2>1. n + 1 \in 1 .. n + 1
    BY <1>2, SMT
  <2>2. CASE k = n + 1
    BY <1>9, <2>1, <2>2
  <2>3. CASE k # n + 1
    <3>1. k \in 1 .. (n + 1) - 1 /\ k \in 1 .. n
      BY <1>2, <2>3, SMT
    <3>2. o(k) + w(k) <= o(n + 1)
      BY <1>9, <2>1, <3>1
    <3>3. w(k) \in Nat /\ o(k) \in Nat /\ o(n + 1) \in Nat
      BY <1>3, <1>9, <2>1, <3>1
    <3> QED BY <3>2, <3>3, SMT
  <2> QED BY <2>2, <2>3
<1>11. Size(ivs) = o(n + 1)
  BY DEF Size, o, n
<1>12. ASSUME NEW k \in 1 .. n PROVE k \in 1 .. n + 1 /\ k <= n
  BY <1>2, SMT
<1>13. ASSUME NEW k \in 1 .. n + 1
       PROVE  o(k) \in Nat /\ o(k) <= Size(ivs) /\ \A j \in 1 .. k - 1 : o(j) + w(j) <= o(k)
  BY <1>9, <1>10, <1>11
<1>14. ASSUME NEW k \in 1 .. n
       PROVE  /\ w(k) \in Nat \ {0} /\ ivs[k].lo <= ivs[k].hi
              /\ \A j \in 1 .. k - 1 : ivs[j].hi < ivs[k].lo /\ o(j) + w(j) <= o(k)
  BY <1>3, <1>9, <1>12
<1> HIDE DEF Low, T
<1> QED BY <1>13, <1>14 DEF n, o, w

\* Every position lies in one interval.
LEMMA PositionFound ==
  ASSUME NEW ivs \in IntervalsInOrder, NEW i \in 0 .. Size(ivs) - 1
  PROVE  \E k \in 1 .. Len(ivs) : At(ivs, k, i) /\ \A j : At(ivs, j, i) => j = k
<1> DEFINE n == Len(ivs)
           o(k) == Offset(ivs, k)
           w(k) == Width(ivs[k])
<1>1. n \in Nat /\ ivs \in Intervals
  BY IntervalType DEF IntervalsInOrder
<1>2. /\ o(1) = 0 /\ (\A k \in 1 .. n : o(k + 1) = o(k) + w(k))
  BY <1>1, OffsetSteps
<1>3. /\ \A k \in 1 .. n + 1 : o(k) \in Nat
      /\ \A k \in 1 .. n : w(k) \in Nat /\ \A j \in 1 .. k - 1 : o(j) + w(j) <= o(k)
  BY EarlierIsLower
<1>4. Size(ivs) = o(n + 1)
  BY DEF Size
<1>5. i \in Nat /\ i < o(n + 1)
  <2>1. Size(ivs) \in Nat
    <3>1. n + 1 \in 1 .. n + 1
      BY <1>1, SMT
    <3> QED BY <1>3, <1>4, <3>1
  <2> QED BY <1>4, <2>1, SMT
<1>6. \A k : At(ivs, k, i) <=> k \in 1 .. n /\ o(k) <= i /\ i < o(k) + w(k)
  BY DEF At
<1> HIDE DEF n, o, w
<1> DEFINE S == {k \in 1 .. n + 1 : i < o(k)}
<1>7. S \in SUBSET Nat /\ S # {}
  <2>1. n + 1 \in 1 .. n + 1
    BY <1>1, SMT
  <2> QED BY <1>5, <2>1
<1>8. PICK m \in S : \A q \in S : m <= q
  BY <1>7, LeastNat
<1> DEFINE k == m - 1
<1>9. m # 1
  BY <1>2, <1>5, <1>8, SMT
<1>10. k \in 1 .. n /\ k \in 1 .. n + 1 /\ k + 1 = m /\ ~(m <= k)
  <2>1. m \in 1 .. n + 1
    BY <1>8
  <2> QED BY <1>1, <1>9, <2>1, SMT
<1> HIDE DEF k
<1>11. ~(i < o(k))
  BY <1>8, <1>10
<1>12. o(k) <= i /\ i < o(k) + w(k)
  <2>1. i < o(m) /\ o(m) = o(k) + w(k) /\ o(k) \in Nat
    BY <1>2, <1>3, <1>8, <1>10
  <2> QED BY <1>5, <1>11, <2>1, SMT
<1>13. ASSUME NEW j \in 1 .. n, o(j) <= i, i < o(j) + w(j) PROVE j = k
  <2>1. ASSUME j < k PROVE FALSE
    <3>1. j \in 1 .. k - 1 /\ j \in 1 .. n + 1
      BY <1>1, <1>10, <2>1, SMT
    <3>2. o(j) + w(j) <= o(k) /\ o(j) \in Nat /\ w(j) \in Nat /\ o(k) \in Nat
      BY <1>3, <1>10, <3>1
    <3> QED BY <1>5, <1>12, <1>13, <3>2, SMT
  <2>2. ASSUME k < j PROVE FALSE
    <3>1. k \in 1 .. j - 1 /\ j \in 1 .. n + 1
      BY <1>1, <1>10, <2>2, SMT
    <3>2. o(k) + w(k) <= o(j) /\ o(k) \in Nat /\ w(k) \in Nat /\ o(j) \in Nat
      BY <1>3, <1>10, <3>1
    <3> QED BY <1>5, <1>12, <1>13, <3>2, SMT
  <2> QED BY <1>1, <1>10, <2>1, <2>2, SMT
<1> HIDE DEF S
<1> QED BY <1>6, <1>10, <1>12, <1>13 DEF n

\* The bisection of _segment finds the interval of a position.
LEMMA SegmentFound ==
  ASSUME NEW ivs \in IntervalsInOrder, NEW i \in Int, NEW k \in 1 .. Len(ivs), At(ivs, k, i)
  PROVE  Segment(ivs, i) = k
<1> DEFINE n == Len(ivs)
           K == 1 .. n
           o(m) == Offset(ivs, m)
           mid(lo, hi) == (lo + hi) \div 2
           Near(lo, hi) == IF k < lo THEN lo ELSE IF k < hi THEN k ELSE hi - 1
           Is(f) == f = [ends \in (1 .. n) \X (1 .. n) |->
             IF ends[1] + 1 >= ends[2] THEN ends[1]
             ELSE IF o(mid(ends[1], ends[2])) <= i THEN f[<<mid(ends[1], ends[2]), ends[2]>>]
             ELSE f[<<ends[1], mid(ends[1], ends[2])>>]]
<1>1. n \in Nat /\ k \in K /\ \A m \in K : m \in Int /\ 1 <= m /\ m <= n
  BY IntervalType DEF IntervalsInOrder
<1>2. ASSUME NEW m \in K PROVE o(m) \in Int /\ (o(m) <= i <=> m <= k)
  <2> DEFINE w(j) == Width(ivs[j])
  <2>1. /\ \A j \in 1 .. n : w(j) \in Nat /\ \A q \in 1 .. j - 1 : o(q) + w(q) <= o(j)
        /\ \A j \in 1 .. n + 1 : o(j) \in Nat
    BY EarlierIsLower
  <2>2. m \in 1 .. n + 1 /\ k \in 1 .. n + 1 /\ m \in 1 .. n /\ k \in 1 .. n
    BY <1>1, SMT
  <2>3. o(k) <= i /\ i < o(k) + w(k)
    BY DEF At
  <2> HIDE DEF o, w
  <2>4. o(m) \in Nat /\ o(k) \in Nat /\ w(m) \in Nat /\ w(k) \in Nat
    BY <2>1, <2>2
  <2>5. CASE m = k
    BY <2>3, <2>4, <2>5, <1>1
  <2>6. CASE m < k
    <3>1. m \in 1 .. k - 1
      BY <1>1, <2>2, <2>6, SMT
    <3>2. o(m) + w(m) <= o(k)
      BY <2>1, <2>2, <3>1
    <3> QED BY <1>1, <2>2, <2>3, <2>4, <2>6, <3>2, SMT
  <2>7. CASE k < m
    <3>1. k \in 1 .. m - 1
      BY <1>1, <2>2, <2>7, SMT
    <3>2. o(k) + w(k) <= o(m)
      BY <2>1, <2>2, <3>1
    <3> QED BY <1>1, <2>2, <2>3, <2>4, <2>7, <3>2, SMT
  <2> QED BY <1>1, <2>2, <2>5, <2>6, <2>7, SMT
<1>3. ASSUME NEW lo \in K, NEW hi \in K, ~(lo + 1 >= hi)
      PROVE  mid(lo, hi) \in K /\ lo < mid(lo, hi) /\ mid(lo, hi) < hi
  <2>1. n \in Nat /\ lo \in Int /\ hi \in Int /\ 1 <= lo /\ hi <= n
    BY <1>1
  <2> QED BY <1>3, <2>1, SMT
<1>4. ASSUME NEW lo \in K, NEW hi \in K, ~(lo + 1 >= hi)
      PROVE  /\ o(mid(lo, hi)) <= i => Near(lo, hi) = Near(mid(lo, hi), hi)
             /\ ~(o(mid(lo, hi)) <= i) => Near(lo, hi) = Near(lo, mid(lo, hi))
  <2> DEFINE m == mid(lo, hi)
  <2>1. m \in K /\ lo < m /\ m < hi
    BY <1>3, <1>4
  <2> HIDE DEF m
  <2>2. m \in Int /\ lo \in Int /\ hi \in Int /\ k \in Int
    BY <1>1, <2>1
  <2>3. o(m) <= i <=> m <= k
    BY <1>2, <2>1
  <2>4. m <= k => Near(lo, hi) = Near(m, hi)
    BY <2>1, <2>2, SMT
  <2>5. ~(m <= k) => Near(lo, hi) = Near(lo, m)
    BY <2>1, <2>2, SMT
  <2> HIDE DEF Near
  <2> QED BY <2>3, <2>4, <2>5 DEF m
<1>5. ASSUME NEW lo \in K, NEW hi \in K, lo + 1 >= hi PROVE (IF hi <= lo THEN lo ELSE Near(lo, hi)) = lo
  <2>1. lo \in Int /\ hi \in Int /\ k \in Int
    BY <1>1
  <2> QED BY <1>5, <2>1, SMT
<1> DEFINE f == [p \in K \X K |-> IF p[2] <= p[1] THEN p[1] ELSE Near(p[1], p[2])]
<1>6. Is(f)
  <2>1. ASSUME NEW lo \in K, NEW hi \in K PROVE f[<<lo, hi>>] = IF hi <= lo THEN lo ELSE Near(lo, hi)
    OBVIOUS
  <2>2. ASSUME NEW lo \in K, NEW hi \in K
        PROVE  f[<<lo, hi>>] = IF lo + 1 >= hi THEN lo
                           ELSE IF o(mid(lo, hi)) <= i THEN f[<<mid(lo, hi), hi>>] ELSE f[<<lo, mid(lo, hi)>>]
    <3>1. CASE lo + 1 >= hi
      <4> HIDE DEF Near, f
      <4> QED BY <1>5, <2>1, <3>1
    <3>2. CASE ~(lo + 1 >= hi)
      <4> DEFINE m == mid(lo, hi)
      <4>1. m \in K /\ lo < m /\ m < hi
        BY <1>3, <3>2
      <4>2. (o(m) <= i => Near(lo, hi) = Near(m, hi)) /\ (~(o(m) <= i) => Near(lo, hi) = Near(lo, m))
        BY <1>4, <3>2
      <4> HIDE DEF m
      <4>3. m \in Int /\ lo \in Int /\ hi \in Int
        BY <1>1, <4>1
      <4>4. ~(hi <= lo) /\ ~(hi <= m) /\ ~(m <= lo)
        BY <4>1, <4>3, SMT
      <4> HIDE DEF Near, f, o
      <4>5. f[<<lo, hi>>] = Near(lo, hi) /\ f[<<m, hi>>] = Near(m, hi) /\ f[<<lo, m>>] = Near(lo, m)
        BY <2>1, <4>1, <4>4
      <4>6. f[<<lo, hi>>] = IF o(m) <= i THEN f[<<m, hi>>] ELSE f[<<lo, m>>]
        BY <4>2, <4>5
      <4> QED BY <3>2, <4>6 DEF m
    <3> QED BY <3>1, <3>2
  <2>3. f = [p \in K \X K |-> f[p]] /\ \A p \in K \X K : p[1] \in K /\ p[2] \in K /\ p = <<p[1], p[2]>>
    OBVIOUS
  <2> HIDE DEF f, o, mid
  <2>4. \A p \in K \X K : f[p] = IF p[1] + 1 >= p[2] THEN p[1]
             ELSE IF o(mid(p[1], p[2])) <= i THEN f[<<mid(p[1], p[2]), p[2]>>]
             ELSE f[<<p[1], mid(p[1], p[2])>>]
    <3> SUFFICES ASSUME NEW p \in K \X K
                 PROVE f[p] = IF p[1] + 1 >= p[2] THEN p[1]
                              ELSE IF o(mid(p[1], p[2])) <= i THEN f[<<mid(p[1], p[2]), p[2]>>]
                              ELSE f[<<p[1], mid(p[1], p[2])>>]
      OBVIOUS
    <3> DEFINE lo == p[1]
               hi == p[2]
    <3>1. lo \in K /\ hi \in K /\ f[p] = f[<<lo, hi>>]
      BY <2>3
    <3> HIDE DEF lo, hi
    <3>2. f[p] = IF lo + 1 >= hi THEN lo
                 ELSE IF o(mid(lo, hi)) <= i THEN f[<<mid(lo, hi), hi>>] ELSE f[<<lo, mid(lo, hi)>>]
      BY <2>2, <3>1
    <3> QED BY <3>2 DEF lo, hi
  <2> QED BY <2>3, <2>4
<1> HIDE DEF f
<1> DEFINE Bisect == CHOOSE q : Is(q)
<1>7. Is(Bisect)
  <2> HIDE DEF Is
  <2> QED BY <1>6
<1> HIDE DEF Bisect
<1>8. ASSUME NEW lo \in K, NEW hi \in K
      PROVE  Bisect[<<lo, hi>>] = IF lo + 1 >= hi THEN lo
             ELSE IF o(mid(lo, hi)) <= i THEN Bisect[<<mid(lo, hi), hi>>] ELSE Bisect[<<lo, mid(lo, hi)>>]
  <2> HIDE DEF o, mid
  <2> QED BY <1>7
<1>9. Segment(ivs, i) = IF o(n) > i THEN Bisect[<<1, n>>] ELSE n
  BY DEF Segment, Bisect
<1> HIDE DEF Is, o, mid, n, K
<1> DEFINE T == {d \in Nat : \A lo, hi \in K : hi - lo <= d /\ lo <= k /\ k < hi => Bisect[<<lo, hi>>] = k}
<1>10. 0 \in T
  <2>1. \A lo, hi \in K : ~(hi - lo <= 0 /\ lo <= k /\ k < hi)
    BY <1>1, SMT
  <2> QED BY <2>1
<1>11. ASSUME NEW d \in Nat, d \in T PROVE d + 1 \in T
  <2>1. ASSUME NEW lo \in K, NEW hi \in K, hi - lo <= d + 1, lo <= k, k < hi
        PROVE  Bisect[<<lo, hi>>] = k
    <3>0. lo \in Int /\ hi \in Int /\ k \in Int
      BY <1>1
    <3>1. CASE lo + 1 >= hi
      <4>1. lo = k
        BY <2>1, <3>0, <3>1, SMT
      <4> QED BY <1>8, <3>1, <4>1
    <3>2. CASE ~(lo + 1 >= hi)
      <4> DEFINE m == mid(lo, hi)
      <4>1. m \in K /\ lo < m /\ m < hi
        BY <1>3, <3>2
      <4>2. Bisect[<<lo, hi>>] = IF o(m) <= i THEN Bisect[<<m, hi>>] ELSE Bisect[<<lo, m>>]
        BY <1>8, <3>2
      <4> HIDE DEF m
      <4>3. m \in Int /\ (o(m) <= i <=> m <= k)
        BY <1>1, <1>2, <4>1
      <4>4. hi - m <= d /\ m - lo <= d
        BY <2>1, <3>0, <4>1, <4>3, SMT
      <4>5. CASE m <= k
        BY <1>11, <2>1, <4>1, <4>2, <4>3, <4>4, <4>5
      <4>6. CASE ~(m <= k)
        <5>1. k < m
          BY <3>0, <4>3, <4>6, SMT
        <5> QED BY <1>11, <2>1, <4>1, <4>2, <4>3, <4>4, <4>6, <5>1
      <4> QED BY <4>5, <4>6
    <3> QED BY <3>1, <3>2
  <2>2. d + 1 \in Nat
    OBVIOUS
  <2> QED BY <2>1, <2>2
<1>12. Nat \subseteq T
  <2> HIDE DEF T
  <2> QED BY <1>10, <1>11, NatSetInduction
<1>13. ASSUME NEW lo \in K, NEW hi \in K, lo <= k, k < hi PROVE Bisect[<<lo, hi>>] = k
  <2>1. hi - lo \in Nat /\ hi - lo <= hi - lo
    BY <1>1, <1>13, SMT
  <2>2. hi - lo \in T
    <3> HIDE DEF T
    <3> QED BY <1>12, <2>1
  <2> QED BY <1>13, <2>1, <2>2
<1>14. 1 \in K /\ n \in K /\ 1 <= k /\ k <= n /\ k \in Int
  BY <1>1, SMT DEF K, n
<1>15. o(n) \in Int /\ (o(n) <= i <=> n <= k)
  BY <1>2, <1>14
<1>16. CASE n <= k
  <2>1. n = k /\ ~(o(n) > i)
    BY <1>1, <1>14, <1>15, <1>16, SMT
  <2> QED BY <1>9, <2>1
<1>17. CASE ~(n <= k)
  <2>1. k < n /\ o(n) > i
    BY <1>1, <1>14, <1>15, <1>17, SMT
  <2> QED BY <1>9, <1>13, <1>14, <2>1
<1> QED BY <1>16, <1>17

\* How the intervals and the positions before them are laid out.
LEMMA Layout ==
  ASSUME NEW ivs \in IntervalsInOrder
  PROVE  /\ Len(ivs) \in Nat /\ Size(ivs) \in Nat /\ DOMAIN ivs = 1 .. Len(ivs)
         /\ \A k \in 1 .. Len(ivs) :
              /\ k \in Int /\ ivs[k].lo \in Int /\ ivs[k].hi \in Int /\ ivs[k].lo <= ivs[k].hi
              /\ Offset(ivs, k) \in Nat /\ Width(ivs[k]) = ivs[k].hi - ivs[k].lo + 1
              /\ Offset(ivs, k) + Width(ivs[k]) <= Size(ivs)
              /\ \A j \in 1 .. Len(ivs) : j < k => /\ ivs[j].hi < ivs[k].lo
                                                   /\ Offset(ivs, j) + Width(ivs[j]) <= Offset(ivs, k)
<1>1. ivs \in Intervals
  BY DEF IntervalsInOrder
<1>2. /\ Len(ivs) \in Nat /\ DOMAIN ivs = 1 .. Len(ivs)
      /\ \A k \in 1 .. Len(ivs) : /\ ivs[k].lo \in Int /\ ivs[k].hi \in Int
                                  /\ Width(ivs[k]) = ivs[k].hi - ivs[k].lo + 1
  BY <1>1, IntervalType
<1>3. Size(ivs) = Offset(ivs, Len(ivs) + 1)
  BY DEF Size
<1> DEFINE n == Len(ivs)
           o(k) == Offset(ivs, k)
           w(k) == Width(ivs[k])
<1>4. n + 1 \in 1 .. n + 1 /\ (n + 1) - 1 = n /\ \A k \in 1 .. n : k \in Int /\ k \in 1 .. n + 1
  BY <1>2, SMT
<1>5. /\ \A k \in 1 .. n : ivs[k].lo <= ivs[k].hi /\ \A j \in 1 .. k - 1 : ivs[j].hi < ivs[k].lo /\ o(j) + w(j) <= o(k)
      /\ \A k \in 1 .. n + 1 : o(k) \in Nat /\ \A j \in 1 .. k - 1 : o(j) + w(j) <= o(k)
  BY EarlierIsLower
<1>6. ASSUME NEW k \in 1 .. n, NEW j \in 1 .. n, j < k PROVE j \in 1 .. k - 1
  BY <1>2, <1>6, SMT
<1>7. Size(ivs) \in Nat /\ \A k \in 1 .. n : o(k) + w(k) <= Size(ivs) /\ o(k) \in Nat
  BY <1>3, <1>4, <1>5
<1> HIDE DEF n, o, w
<1> QED BY <1>2, <1>4, <1>5, <1>6, <1>7 DEF n, o, w

\* __getitem__: the value at a position, in the interval the position lies in.
LEMMA ItemAt ==
  ASSUME NEW ivs \in IntervalsInOrder, NEW i \in 0 .. Size(ivs) - 1
  PROVE  \E k \in 1 .. Len(ivs) : /\ At(ivs, k, i) /\ GetItem(ivs, i) = ivs[k].lo + i - Offset(ivs, k)
                                  /\ GetItem(ivs, i) \in ivs[k].lo .. ivs[k].hi
<1>1. Size(ivs) \in Nat /\ i \in Int /\ ~(i < 0)
  BY Layout, SMT
<1>2. PICK k \in 1 .. Len(ivs) : At(ivs, k, i)
  BY PositionFound
<1>3. Segment(ivs, i) = k
  BY <1>1, <1>2, SegmentFound
<1>4. GetItem(ivs, i) = ivs[k].lo + i - Offset(ivs, k)
  BY <1>1, <1>3 DEF GetItem
<1>5. /\ ivs[k].lo \in Int /\ ivs[k].hi \in Int /\ Offset(ivs, k) \in Nat
      /\ Width(ivs[k]) = ivs[k].hi - ivs[k].lo + 1
  BY Layout
<1>6. Offset(ivs, k) <= i /\ i < Offset(ivs, k) + Width(ivs[k])
  BY <1>2 DEF At
<1>7. ivs[k].lo + i - Offset(ivs, k) \in ivs[k].lo .. ivs[k].hi
  BY <1>1, <1>5, <1>6, SMTT(30)
<1> QED BY <1>2, <1>4, <1>7

\* Members and positions of the one interval a value lies in.
LEMMA MemberOf ==
  ASSUME NEW ivs \in IntervalsInOrder
  PROVE  \A v : v \in Members(ivs) <=> \E k \in 1 .. Len(ivs) : v \in ivs[k].lo .. ivs[k].hi
BY Layout DEF Members

\* What a position holds is a member.
LEMMA ItemIsMember ==
  ASSUME NEW ivs \in IntervalsInOrder, NEW i \in 0 .. Size(ivs) - 1
  PROVE  GetItem(ivs, i) \in Members(ivs) /\ GetItem(ivs, i) \in Int
<1>1. PICK k \in 1 .. Len(ivs) : GetItem(ivs, i) \in ivs[k].lo .. ivs[k].hi
  BY ItemAt
<1>2. GetItem(ivs, i) \in Int
  <2>1. ivs[k].lo \in Int /\ ivs[k].hi \in Int
    BY Layout
  <2> QED BY <1>1, <2>1, SMT
<1> QED BY <1>1, <1>2, MemberOf

\* A negative position counts from the end.
LEMMA ItemFromEnd ==
  ASSUME NEW ivs \in IntervalsInOrder, NEW i \in 0 .. Size(ivs) - 1
  PROVE  GetItem(ivs, i - Size(ivs)) = GetItem(ivs, i)
<1>1. Size(ivs) \in Nat /\ i \in Int /\ ~(i < 0) /\ i - Size(ivs) < 0 /\ (i - Size(ivs)) + Size(ivs) = i
  BY Layout, SMT
<1> QED BY <1>1 DEF GetItem

\* Later positions hold greater values.
LEMMA ItemsAscend ==
  ASSUME NEW ivs \in IntervalsInOrder, NEW i \in 0 .. Size(ivs) - 1, NEW j \in 0 .. Size(ivs) - 1, i < j
  PROVE  GetItem(ivs, i) < GetItem(ivs, j)
<1>1. Size(ivs) \in Nat /\ i \in Int /\ j \in Int
  BY Layout, SMT
<1>2. PICK k \in 1 .. Len(ivs) : /\ At(ivs, k, i) /\ GetItem(ivs, i) = ivs[k].lo + i - Offset(ivs, k)
                                 /\ GetItem(ivs, i) \in ivs[k].lo .. ivs[k].hi
  BY ItemAt
<1>3. PICK m \in 1 .. Len(ivs) : /\ At(ivs, m, j) /\ GetItem(ivs, j) = ivs[m].lo + j - Offset(ivs, m)
                                 /\ GetItem(ivs, j) \in ivs[m].lo .. ivs[m].hi
  BY ItemAt
<1> DEFINE lo(q) == ivs[q].lo
           hi(q) == ivs[q].hi
           o(q) == Offset(ivs, q)
           w(q) == Width(ivs[q])
           x == GetItem(ivs, i)
           y == GetItem(ivs, j)
<1>4. /\ k \in Int /\ m \in Int /\ lo(k) \in Int /\ hi(k) \in Int /\ lo(m) \in Int /\ hi(m) \in Int
      /\ o(k) \in Int /\ o(m) \in Int /\ w(k) \in Int /\ w(m) \in Int
      /\ (k < m => hi(k) < lo(m)) /\ (m < k => o(m) + w(m) <= o(k))
  <2>1. /\ k \in Int /\ m \in Int /\ lo(k) \in Int /\ hi(k) \in Int /\ lo(m) \in Int /\ hi(m) \in Int
        /\ o(k) \in Nat /\ o(m) \in Nat /\ w(k) = hi(k) - lo(k) + 1 /\ w(m) = hi(m) - lo(m) + 1
        /\ (k < m => hi(k) < lo(m)) /\ (m < k => o(m) + w(m) <= o(k))
    BY Layout
  <2> HIDE DEF lo, hi, o, w
  <2> QED BY <2>1, SMT
<1>5. o(k) <= i /\ i < o(k) + w(k) /\ o(m) <= j /\ j < o(m) + w(m)
  BY <1>2, <1>3 DEF At
<1>6. x = lo(k) + i - o(k) /\ x \in lo(k) .. hi(k) /\ y = lo(m) + j - o(m) /\ y \in lo(m) .. hi(m)
  BY <1>2, <1>3
<1> HIDE DEF lo, hi, o, w, x, y
<1>7. ~(m < k)
  BY <1>1, <1>4, <1>5, SMTT(30)
<1>8. CASE k = m
  <2>1. x = lo(k) + i - o(k) /\ y = lo(k) + j - o(k)
    BY <1>6, <1>8
  <2> QED BY <1>1, <1>4, <2>1, SMTT(30) DEF x, y
<1>9. CASE k < m
  BY <1>4, <1>6, <1>9, SMTT(30) DEF x, y
<1> QED BY <1>4, <1>7, <1>8, <1>9, SMT

\* Every member is at a position.
LEMMA MemberHasPosition ==
  ASSUME NEW ivs \in IntervalsInOrder, NEW v \in Members(ivs)
  PROVE  \E i \in 0 .. Size(ivs) - 1 : GetItem(ivs, i) = v
<1>1. PICK k \in 1 .. Len(ivs) : v \in ivs[k].lo .. ivs[k].hi
  BY MemberOf
<1> DEFINE lo == ivs[k].lo
           hi == ivs[k].hi
           o == Offset(ivs, k)
           w == Width(ivs[k])
           i == o + (v - lo)
<1>2. lo \in Int /\ hi \in Int /\ o \in Nat /\ w = hi - lo + 1 /\ o + w <= Size(ivs) /\ Size(ivs) \in Nat
  BY Layout
<1>3. v \in lo .. hi
  BY <1>1
<1> HIDE DEF lo, hi, o, w
<1>4. i \in 0 .. Size(ivs) - 1 /\ i \in Int /\ ~(i < 0) /\ o <= i /\ i < o + w /\ lo + i - o = v
  BY <1>2, <1>3, SMT
<1> HIDE DEF i
<1>5. At(ivs, k, i)
  BY <1>4 DEF At, o, w
<1>6. Segment(ivs, i) = k
  BY <1>4, <1>5, SegmentFound
<1>7. GetItem(ivs, i) = v
  BY <1>4, <1>6 DEF GetItem, lo, o
<1> QED BY <1>4, <1>7

\* bisect_left over the ends: the first interval that is not wholly below a value.
LEMMA FirstReached ==
  ASSUME NEW ivs \in IntervalsInOrder, NEW v \in Int
  PROVE  /\ Reaches(ivs, v) = {} => \A k \in 1 .. Len(ivs) : ivs[k].hi < v
         /\ Reaches(ivs, v) # {} => /\ FirstReach(ivs, v) \in 1 .. Len(ivs)
                                    /\ v <= ivs[FirstReach(ivs, v)].hi
                                    /\ \A j \in 1 .. Len(ivs) : j < FirstReach(ivs, v) => ivs[j].hi < v
<1>1. /\ Len(ivs) \in Nat /\ DOMAIN ivs = 1 .. Len(ivs)
      /\ \A k \in 1 .. Len(ivs) : k \in Int /\ ivs[k].hi \in Int
  BY Layout
<1>2. ASSUME NEW k \in 1 .. Len(ivs), k \notin Reaches(ivs, v) PROVE ivs[k].hi < v
  <2>1. ~(v <= ivs[k].hi) /\ ivs[k].hi \in Int
    BY <1>1, <1>2 DEF Reaches
  <2> QED BY <2>1, SMT
<1>3. ASSUME Reaches(ivs, v) # {}
      PROVE  FirstReach(ivs, v) \in Reaches(ivs, v) /\ \A j \in Reaches(ivs, v) : FirstReach(ivs, v) <= j
  <2>1. Reaches(ivs, v) \in SUBSET Nat
    <3>1. \A k \in 1 .. Len(ivs) : k \in Nat
      BY <1>1, SMT
    <3> QED BY <1>1, <3>1 DEF Reaches
  <2>2. \E k \in Reaches(ivs, v) : \A j \in Reaches(ivs, v) : k <= j
    BY <1>3, <2>1, LeastNat
  <2> QED BY <2>2 DEF FirstReach
<1>4. ASSUME Reaches(ivs, v) # {}, NEW j \in 1 .. Len(ivs), j < FirstReach(ivs, v) PROVE ivs[j].hi < v
  <2> DEFINE f == FirstReach(ivs, v)
  <2>1. f \in 1 .. Len(ivs) /\ \A q \in Reaches(ivs, v) : f <= q
    BY <1>1, <1>3, <1>4 DEF Reaches
  <2>2. f \in Int /\ j \in Int /\ j < f
    BY <1>1, <1>4, <2>1
  <2> HIDE DEF f
  <2>3. ~(f <= j)
    BY <2>2, SMT
  <2>4. j \notin Reaches(ivs, v)
    BY <2>1, <2>3
  <2> QED BY <1>2, <2>4
<1>5. Reaches(ivs, v) # {} => FirstReach(ivs, v) \in 1 .. Len(ivs) /\ v <= ivs[FirstReach(ivs, v)].hi
  BY <1>1, <1>3 DEF Reaches
<1> QED BY <1>2, <1>4, <1>5

\* The interval a value lies in is the first that reaches it.
LEMMA FirstReachOfMember ==
  ASSUME NEW ivs \in IntervalsInOrder, NEW k \in 1 .. Len(ivs), NEW v \in ivs[k].lo .. ivs[k].hi
  PROVE  Reaches(ivs, v) # {} /\ FirstReach(ivs, v) = k /\ v \in Int
<1>1. ivs[k].lo \in Int /\ ivs[k].hi \in Int /\ k \in Int /\ k \in DOMAIN ivs
  BY Layout
<1>2. v \in Int /\ ivs[k].lo <= v /\ v <= ivs[k].hi
  BY <1>1, SMT
<1>3. Reaches(ivs, v) # {}
  BY <1>1, <1>2 DEF Reaches
<1> DEFINE f == FirstReach(ivs, v)
<1>4. f \in 1 .. Len(ivs) /\ v <= ivs[f].hi /\ \A j \in 1 .. Len(ivs) : j < f => ivs[j].hi < v
  BY <1>2, <1>3, FirstReached
<1> HIDE DEF f
<1>5. f \in Int /\ ivs[f].hi \in Int /\ (f < k => ivs[f].hi < ivs[k].lo)
  BY <1>4, Layout
<1>6. ~(k < f)
  <2>1. ~(ivs[k].hi < v)
    BY <1>1, <1>2, SMT
  <2> QED BY <1>4, <2>1
<1>7. ~(f < k)
  BY <1>1, <1>2, <1>4, <1>5, SMT
<1>8. f = k
  BY <1>1, <1>5, <1>6, <1>7, SMT
<1> QED BY <1>2, <1>3, <1>8 DEF f

\* The ordinal of the value at a position is the position.
LEMMA OrdinalOfItem ==
  ASSUME NEW ivs \in IntervalsInOrder, NEW i \in 0 .. Size(ivs) - 1
  PROVE  OrdinalOf(ivs, GetItem(ivs, i)) = i /\ IndexAbove(ivs, GetItem(ivs, i)) = i
<1> DEFINE v == GetItem(ivs, i)
<1>1. PICK k \in 1 .. Len(ivs) : /\ At(ivs, k, i) /\ v = ivs[k].lo + i - Offset(ivs, k)
                                 /\ v \in ivs[k].lo .. ivs[k].hi
  BY ItemAt
<1> HIDE DEF v
<1>2. Reaches(ivs, v) # {} /\ FirstReach(ivs, v) = k /\ v \in Int
  BY <1>1, FirstReachOfMember
<1> DEFINE lo == ivs[k].lo
           o == Offset(ivs, k)
<1>3. lo \in Int /\ ivs[k].hi \in Int /\ o \in Nat /\ Size(ivs) \in Nat
  BY Layout
<1>4. v = lo + i - o
  BY <1>1
<1>5. v \in lo .. ivs[k].hi
  BY <1>1
<1> HIDE DEF lo, o
<1>6. i \in Int /\ ~(lo > v) /\ o + v - lo = i /\ o + Greater(0, v - lo) = i
  BY <1>3, <1>4, <1>5, SMT DEF Greater
<1>7. OrdinalOf(ivs, v) = o + v - lo
  BY <1>2, <1>6 DEF OrdinalOf, lo, o
<1>8. IndexAbove(ivs, v) = o + Greater(0, v - lo)
  BY <1>2 DEF IndexAbove, lo, o
<1> QED BY <1>6, <1>7, <1>8 DEF v

\* What is no member has no ordinal.
LEMMA NoOrdinal ==
  ASSUME NEW ivs \in IntervalsInOrder, NEW v \in Int, v \notin Members(ivs)
  PROVE  OrdinalOf(ivs, v) = NotInList
<1> SUFFICES ASSUME Reaches(ivs, v) # {}, ~(ivs[FirstReach(ivs, v)].lo > v) PROVE FALSE
  BY DEF OrdinalOf
<1> DEFINE k == FirstReach(ivs, v)
<1>1. k \in 1 .. Len(ivs) /\ v <= ivs[k].hi
  BY FirstReached
<1>2. ~(ivs[k].lo > v)
  OBVIOUS
<1> HIDE DEF k
<1>3. ivs[k].lo \in Int /\ ivs[k].hi \in Int
  BY <1>1, Layout
<1>4. v \in ivs[k].lo .. ivs[k].hi
  BY <1>1, <1>2, <1>3, SMT
<1> QED BY <1>1, <1>4, MemberOf

\* idx_of: the members below a value are those at the positions below its index.
LEMMA AboveSplits ==
  ASSUME NEW ivs \in IntervalsInOrder, NEW v \in Int
  PROVE  /\ IndexAbove(ivs, v) \in 0 .. Size(ivs)
         /\ \A i \in 0 .. Size(ivs) - 1 : GetItem(ivs, i) < v <=> i < IndexAbove(ivs, v)
<1> DEFINE a == IndexAbove(ivs, v)
           lo(q) == ivs[q].lo
           hi(q) == ivs[q].hi
           o(q) == Offset(ivs, q)
           w(q) == Width(ivs[q])
           f == FirstReach(ivs, v)
<1>1. Size(ivs) \in Nat /\ \A i \in 0 .. Size(ivs) - 1 : i \in Int
  BY Layout, SMT
<1>2. ASSUME NEW k \in 1 .. Len(ivs)
      PROVE  /\ k \in Int /\ lo(k) \in Int /\ hi(k) \in Int /\ o(k) \in Nat
             /\ w(k) = hi(k) - lo(k) + 1 /\ o(k) + w(k) <= Size(ivs) /\ lo(k) <= hi(k)
             /\ \A j \in 1 .. Len(ivs) : j < k => hi(j) < lo(k) /\ o(j) + w(j) <= o(k)
  BY Layout
<1>3. ASSUME NEW i \in 0 .. Size(ivs) - 1
      PROVE  \E k \in 1 .. Len(ivs) : /\ o(k) <= i /\ i < o(k) + w(k)
                                      /\ GetItem(ivs, i) = lo(k) + i - o(k) /\ GetItem(ivs, i) \in lo(k) .. hi(k)
  BY ItemAt DEF At
<1>4. CASE Reaches(ivs, v) = {}
  <2>1. a = Size(ivs)
    BY <1>4 DEF IndexAbove
  <2>2. ASSUME NEW i \in 0 .. Size(ivs) - 1 PROVE GetItem(ivs, i) < v /\ i < Size(ivs)
    <3>1. PICK k \in 1 .. Len(ivs) : GetItem(ivs, i) \in lo(k) .. hi(k)
      BY <1>3
    <3>2. hi(k) < v
      BY <1>4, FirstReached
    <3>3. lo(k) \in Int /\ hi(k) \in Int
      BY <1>2
    <3> HIDE DEF lo, hi
    <3>4. GetItem(ivs, i) < v
      BY <3>1, <3>2, <3>3, SMT
    <3>5. i < Size(ivs)
      BY <1>1, SMT
    <3> QED BY <3>4, <3>5
  <2> HIDE DEF a
  <2>3. a \in 0 .. Size(ivs)
    BY <1>1, <2>1, SMT
  <2> QED BY <2>1, <2>2, <2>3 DEF a
<1>5. CASE Reaches(ivs, v) # {}
  <2>1. a = o(f) + Greater(0, v - lo(f))
    BY <1>5 DEF IndexAbove
  <2>2. f \in 1 .. Len(ivs) /\ v <= hi(f) /\ \A j \in 1 .. Len(ivs) : j < f => hi(j) < v
    BY <1>5, FirstReached
  <2> HIDE DEF a, lo, hi, o, w, f
  <2>3. /\ f \in Int /\ lo(f) \in Int /\ hi(f) \in Int /\ o(f) \in Nat /\ lo(f) <= hi(f)
        /\ w(f) = hi(f) - lo(f) + 1 /\ o(f) + w(f) <= Size(ivs)
    BY <1>2, <2>2
  <2>4. /\ a \in Int /\ o(f) <= a /\ a < o(f) + w(f)
        /\ (v <= lo(f) => a = o(f)) /\ (lo(f) <= v => a = o(f) + v - lo(f))
    BY <2>1, <2>2, <2>3, SMT DEF Greater
  <2>5. a \in 0 .. Size(ivs)
    BY <1>1, <2>3, <2>4, SMT
  <2>6. ASSUME NEW i \in 0 .. Size(ivs) - 1 PROVE GetItem(ivs, i) < v <=> i < a
    <3> DEFINE x == GetItem(ivs, i)
    <3>1. PICK k \in 1 .. Len(ivs) : o(k) <= i /\ i < o(k) + w(k) /\ x = lo(k) + i - o(k) /\ x \in lo(k) .. hi(k)
      BY <1>3
    <3>2. /\ k \in Int /\ lo(k) \in Int /\ hi(k) \in Int /\ o(k) \in Nat /\ w(k) \in Int /\ w(f) \in Int /\ i \in Int
          /\ (k < f => hi(k) < v /\ o(k) + w(k) <= o(f))
          /\ (f < k => hi(f) < lo(k) /\ o(f) + w(f) <= o(k))
      <4>1. /\ k \in Int /\ lo(k) \in Int /\ hi(k) \in Int /\ o(k) \in Nat /\ w(k) = hi(k) - lo(k) + 1
            /\ (k < f => hi(k) < v /\ o(k) + w(k) <= o(f))
            /\ (f < k => hi(f) < lo(k) /\ o(f) + w(f) <= o(k))
        BY <1>2, <2>2
      <4>2. w(k) \in Int /\ w(f) \in Int
        BY <2>3, <4>1, SMTT(30)
      <4> QED BY <1>1, <4>1, <4>2
    <3> HIDE DEF x
    <3>3. CASE k < f
      <4>1. x < v
        BY <3>1, <3>2, <3>3, SMT
      <4>2. o(k) + w(k) <= o(f) /\ i < o(k) + w(k) /\ o(f) <= a
        BY <2>4, <3>1, <3>2, <3>3
      <4>3. i < a
        BY <2>3, <2>4, <3>2, <4>2, SMTT(30)
      <4> QED BY <4>1, <4>3 DEF x
    <3>4. CASE f < k
      <4>1. ~(x < v)
        BY <2>2, <2>3, <3>1, <3>2, <3>4, SMT
      <4>2. o(f) + w(f) <= o(k) /\ o(k) <= i /\ a < o(f) + w(f)
        BY <2>4, <3>1, <3>2, <3>4
      <4>3. ~(i < a)
        BY <2>3, <2>4, <3>2, <4>2, SMTT(30)
      <4> QED BY <4>1, <4>3 DEF x
    <3>5. CASE k = f
      <4>1. x = lo(f) + i - o(f) /\ o(f) <= i
        BY <3>1, <3>5
      <4>2. CASE v <= lo(f)
        <5>1. a = o(f)
          BY <2>4, <4>2
        <5>2. i \in Int /\ lo(f) \in Int /\ o(f) \in Int
          BY <2>3, <3>2
        <5>3. ~(i < o(f))
          BY <4>1, <5>2, SMT
        <5>4. ~(lo(f) + i - o(f) < v)
          BY <4>1, <4>2, <5>2, SMT
        <5> QED BY <4>1, <5>1, <5>3, <5>4 DEF x
      <4>3. CASE lo(f) <= v
        <5>1. a = o(f) + v - lo(f)
          BY <2>4, <4>3
        <5>2. i \in Int /\ lo(f) \in Int /\ o(f) \in Int
          BY <2>3, <3>2
        <5>3. lo(f) + i - o(f) < v <=> i < o(f) + v - lo(f)
          BY <5>2, SMT
        <5> QED BY <4>1, <5>1, <5>3 DEF x
      <4> QED BY <2>3, <4>2, <4>3, SMT
    <3> QED BY <2>3, <3>2, <3>3, <3>4, <3>5, SMT
  <2> QED BY <2>5, <2>6 DEF a
<1> QED BY <1>4, <1>5

--------------------------------------------------------------------------------
(* The shrink order. *)

\* The position of the character with an order.
Position(ivs, i) ==
    IF i > IdxOfZ(ivs) THEN i
    ELSE IF i <= IdxOfZ(ivs) - IdxOfZero(ivs) THEN i + IdxOfZero(ivs)
    ELSE IdxOfZero(ivs) - (i - (IdxOfZ(ivs) - IdxOfZero(ivs)))

\* The two pivots: '0' is not after 'Z', or both fall behind the last character.
LEMMA Pivots ==
  ASSUME NEW ivs \in IntervalsInOrder
  PROVE  /\ IdxOfZero(ivs) \in 0 .. Size(ivs) /\ IdxOfZ(ivs) \in Int /\ Size(ivs) \in Nat
         /\ Size(ivs) > 0 => /\ IdxOfZ(ivs) \in 0 .. Size(ivs) - 1
                             /\ IdxOfZero(ivs) <= IdxOfZ(ivs) \/ (IdxOfZero(ivs) = Size(ivs) /\ IdxOfZ(ivs) = Size(ivs) - 1)
<1> DEFINE n == Size(ivs)
           a == IndexAbove(ivs, ASCII_ZERO)
           b == IndexAbove(ivs, ASCII_Z)
<1>1. n \in Nat
  BY Layout
<1>2. ASCII_ZERO \in Int /\ ASCII_Z \in Int /\ ASCII_ZERO <= ASCII_Z
  BY AsciiAssumption
<1>3. /\ a \in 0 .. n /\ b \in 0 .. n
      /\ \A i \in 0 .. n - 1 : (GetItem(ivs, i) < ASCII_ZERO <=> i < a) /\ (GetItem(ivs, i) < ASCII_Z <=> i < b)
  BY <1>2, AboveSplits
<1>4. \A i \in 0 .. n - 1 : GetItem(ivs, i) \in Int
  BY ItemIsMember
<1> HIDE DEF n, a, b
<1>5. a <= b
  <2> SUFFICES ASSUME b < a PROVE FALSE
    BY <1>1, <1>3, SMT
  <2>1. b \in 0 .. n - 1 /\ b \in Int
    BY <1>1, <1>3, SMT
  <2>2. GetItem(ivs, b) < ASCII_ZERO /\ ~(GetItem(ivs, b) < ASCII_Z)
    <3>1. ~(b < b)
      BY <2>1, SMT
    <3> QED BY <1>3, <2>1, <3>1
  <2>3. GetItem(ivs, b) \in Int
    BY <1>4, <2>1
  <2> QED BY <1>2, <2>2, <2>3, SMT
<1>6. IdxOfZero(ivs) = a /\ IdxOfZ(ivs) = Lesser(b, Greater(n - 1, 0))
  BY DEF IdxOfZero, IdxOfZ, a, b, n
<1>7. Lesser(b, Greater(n - 1, 0)) \in Int
  BY <1>1, <1>3, SMT DEF Lesser, Greater
<1>8. n > 0 => LET z == Lesser(b, Greater(n - 1, 0)) IN z \in 0 .. n - 1 /\ (a <= z \/ (a = n /\ z = n - 1))
  BY <1>1, <1>3, <1>5, SMT DEF Lesser, Greater
<1> QED BY <1>1, <1>3, <1>6, <1>7, <1>8 DEF n

\* char_in_shrink_order is the character at the position of its order, which is one.
LEMMA CharAtPosition ==
  ASSUME NEW ivs \in IntervalsInOrder, NEW i \in 0 .. Size(ivs) - 1
  PROVE  Position(ivs, i) \in 0 .. Size(ivs) - 1 /\ CharInShrinkOrder(ivs, i) = GetItem(ivs, Position(ivs, i))
<1> DEFINE n == Size(ivs)
           zero == IdxOfZero(ivs)
           z == IdxOfZ(ivs)
<1>1. n \in Nat /\ i \in 0 .. n - 1 /\ zero \in 0 .. n /\ z \in Int
      /\ (n > 0 => z \in 0 .. n - 1 /\ (zero <= z \/ (zero = n /\ z = n - 1)))
  BY Pivots
<1>2. CharInShrinkOrder(ivs, i) = GetItem(ivs, Position(ivs, i))
  BY DEF CharInShrinkOrder, Position
<1>3. Position(ivs, i) = IF i > z THEN i ELSE IF i <= z - zero THEN i + zero ELSE zero - (i - (z - zero))
  BY DEF Position
<1> HIDE DEF n, zero, z
<1>4. (IF i > z THEN i ELSE IF i <= z - zero THEN i + zero ELSE zero - (i - (z - zero))) \in 0 .. n - 1
  <2>1. n > 0
    BY <1>1, SMT
  <2>2. /\ n \in Int /\ i \in Int /\ zero \in Int /\ z \in Int /\ 0 <= i /\ i <= n - 1 /\ 0 <= zero /\ zero <= n
        /\ 0 <= z /\ z <= n - 1 /\ (zero <= z \/ (zero = n /\ z = n - 1))
    BY <1>1, <2>1, SMT
  <2> QED BY <2>2, SMT
<1> QED BY <1>2, <1>3, <1>4 DEF n

\* index_from_char_in_shrink_order after char_in_shrink_order.
LEMMA OrderOfChar ==
  ASSUME NEW ivs \in IntervalsInOrder, NEW i \in 0 .. Size(ivs) - 1
  PROVE  ShrinkIndexOf(ivs, CharInShrinkOrder(ivs, i)) = i /\ CharInShrinkOrder(ivs, i) \in Members(ivs)
<1> DEFINE n == Size(ivs)
           zero == IdxOfZero(ivs)
           z == IdxOfZ(ivs)
           p == Position(ivs, i)
           c == CharInShrinkOrder(ivs, i)
<1>1. n \in Nat /\ i \in 0 .. n - 1 /\ zero \in 0 .. n /\ z \in Int
      /\ (n > 0 => z \in 0 .. n - 1 /\ (zero <= z \/ (zero = n /\ z = n - 1)))
  BY Pivots
<1>2. p \in 0 .. n - 1 /\ c = GetItem(ivs, p)
  BY CharAtPosition
<1>3. OrdinalOf(ivs, c) = p /\ c \in Members(ivs)
  BY <1>2, OrdinalOfItem, ItemIsMember
<1>4. p = IF i > z THEN i ELSE IF i <= z - zero THEN i + zero ELSE zero - (i - (z - zero))
  BY DEF Position
<1>5. p # NotInList
  <2>1. p # -1
    BY <1>1, <1>2, SMT
  <2> QED BY <2>1 DEF NotInList
<1>6. ShrinkIndexOf(ivs, c) = IF p > z THEN p ELSE IF zero <= p THEN p - zero ELSE zero - p + (z - zero)
  BY <1>3, <1>5 DEF ShrinkIndexOf
<1> HIDE DEF n, zero, z, p, c
<1>7. (IF p > z THEN p ELSE IF zero <= p THEN p - zero ELSE zero - p + (z - zero)) = i
  <2>1. n > 0
    BY <1>1, SMT
  <2>2. /\ n \in Int /\ i \in Int /\ zero \in Int /\ z \in Int /\ 0 <= i /\ i <= n - 1 /\ 0 <= zero /\ zero <= n
        /\ 0 <= z /\ z <= n - 1 /\ (zero <= z \/ (zero = n /\ z = n - 1)) /\ p \in Int /\ 0 <= p /\ p <= n - 1
    BY <1>1, <1>2, <2>1, SMT
  <2> QED BY <1>4, <2>2, SMT
<1> QED BY <1>3, <1>6, <1>7 DEF c

\* __iter__: interval after interval, the values come in the order of their positions.
LEMMA ElementsInOrder ==
  ASSUME NEW ivs \in IntervalsInOrder, NEW i \in 0 .. Size(ivs) - 1
  PROVE  Elements(ivs)[i + 1] = GetItem(ivs, i)
<1> DEFINE n == Len(ivs)
           lo(k) == ivs[k].lo
           o(k) == Offset(ivs, k)
           w(k) == Width(ivs[k])
           Run(k) == [m \in 1 .. w(k) |-> lo(k) + m - 1]
           F == [k \in 1 .. n |-> Run(k)]
<1>1. /\ n \in Nat /\ Size(ivs) \in Nat /\ DOMAIN ivs = 1 .. n
      /\ \A k \in 1 .. n : /\ k \in Int /\ lo(k) \in Int /\ ivs[k].hi \in Int /\ lo(k) <= ivs[k].hi
                           /\ o(k) \in Nat /\ w(k) = ivs[k].hi - lo(k) + 1
  BY Layout
<1>2. ASSUME NEW k \in 1 .. n PROVE w(k) \in Nat
  <2>1. lo(k) \in Int /\ ivs[k].hi \in Int /\ lo(k) <= ivs[k].hi /\ w(k) = ivs[k].hi - lo(k) + 1
    BY <1>1
  <2> HIDE DEF lo, w
  <2> QED BY <2>1, SMT
<1>3. o(1) = 0 /\ \A k \in 1 .. n : o(k + 1) = o(k) + w(k)
  <2>1. ivs \in Intervals
    BY DEF IntervalsInOrder
  <2> QED BY <2>1, OffsetSteps
<1>4. Elements(ivs) = FlattenSeq(F)
  BY <1>1 DEF Elements
<1>5. PICK k \in 1 .. n : /\ o(k) <= i /\ i < o(k) + w(k) /\ GetItem(ivs, i) = lo(k) + i - o(k)
  BY ItemAt DEF At
<1>6. n \in Nat \ {0}
  BY <1>1, <1>5, SMT
<1>7. i \in Nat
  BY <1>1, SMT
<1> HIDE DEF n, lo, o, w
<1>8. ASSUME NEW q \in 1 .. n
      PROVE  /\ Run(q) \in Seq(Int) /\ Len(Run(q)) = w(q)
             /\ \A m \in 1 .. w(q) : Run(q)[m] = lo(q) + m - 1
  <2>1. w(q) \in Nat /\ lo(q) \in Int
    BY <1>1, <1>2
  <2>2. Run(q) \in [1 .. w(q) -> Int]
    <3>1. \A m \in 1 .. w(q) : lo(q) + m - 1 \in Int
      BY <2>1, SMT
    <3> QED BY <3>1
  <2>3. \A m \in 1 .. w(q) : Run(q)[m] = lo(q) + m - 1
    OBVIOUS
  <2> HIDE DEF Run
  <2> QED BY <2>1, <2>2, <2>3, FunctionIsSeq
<1>9. F \in [1 .. n -> Seq(Int)] /\ \A q \in 1 .. n : F[q] = Run(q)
  <2> HIDE DEF Run
  <2> QED BY <1>8
<1> HIDE DEF Run, F
<1>10. PICK f \in [1 .. n -> Seq(Int)] : Flattens(f, F, n) /\ FlattenSeq(F) = f[n]
  BY <1>6, <1>9, FlattenSteps
<1>11. f[1] = Run(1) /\ \A q \in 2 .. n : f[q] = f[q - 1] \o Run(q)
  <2>1. 1 \in 1 .. n /\ \A q \in 2 .. n : q \in 1 .. n
    BY <1>6, SMT
  <2> QED BY <1>9, <1>10, <2>1 DEF Flattens
<1> DEFINE Good(q) == /\ Len(f[q]) = o(q + 1)
                      /\ q >= k => f[q][i + 1] = lo(k) + i - o(k)
           T == {q \in Nat : q + 1 <= n => Good(q + 1)}
<1>12. ASSUME NEW q \in 1 .. n, NEW s \in Seq(Int), Len(s) = o(q), f[q] = s \o Run(q),
              q > k => s[i + 1] = lo(k) + i - o(k)
       PROVE  Good(q)
  <2>1. Run(q) \in Seq(Int) /\ Len(Run(q)) = w(q) /\ o(q) \in Nat /\ w(q) \in Nat /\ o(q + 1) = o(q) + w(q)
    BY <1>1, <1>2, <1>3, <1>8
  <2>2. Len(f[q]) = o(q + 1)
    <3>1. Len(s \o Run(q)) = Len(s) + Len(Run(q))
      BY <2>1, ConcatProperties
    <3> QED BY <1>12, <2>1, <3>1
  <2>3. \A m \in 1 .. Len(s) + Len(Run(q)) :
           (s \o Run(q))[m] = IF m <= Len(s) THEN s[m] ELSE Run(q)[m - Len(s)]
    BY <2>1, ConcatProperties
  <2>4. CASE q = k
    <3>1. i + 1 \in 1 .. o(q) + w(q) /\ ~(i + 1 <= o(q)) /\ (i + 1) - o(q) \in 1 .. w(q)
          /\ lo(k) + ((i + 1) - o(q)) - 1 = lo(k) + i - o(k)
      <4> DEFINE a == o(q)
                 b == w(q)
                 l == lo(q)
      <4>1. a \in Nat /\ b \in Nat /\ l \in Int /\ a <= i /\ i < a + b
        BY <1>1, <1>5, <2>1, <2>4
      <4> HIDE DEF a, b, l
      <4>2. i + 1 \in 1 .. a + b /\ ~(i + 1 <= a)
        BY <1>7, <4>1
      <4>3. (i + 1) - a \in 1 .. b
        BY <1>7, <4>1
      <4>4. l + ((i + 1) - a) - 1 = l + i - a
        BY <1>7, <4>1
      <4> QED BY <2>4, <4>2, <4>3, <4>4 DEF a, b, l
    <3>2. f[q][i + 1] = Run(q)[(i + 1) - o(q)]
      BY <1>12, <2>1, <2>3, <3>1
    <3>3. f[q][i + 1] = lo(q) + ((i + 1) - o(q)) - 1
      BY <1>8, <3>1, <3>2
    <3>4. f[q][i + 1] = lo(k) + i - o(k)
      BY <2>4, <3>1, <3>3
    <3> QED BY <2>2, <3>4
  <2>5. CASE q > k
    <3>1. o(k) + w(k) <= o(q)
      <4>1. k < q
        BY <1>1, <2>5, SMT
      <4> QED BY <4>1, Layout DEF o, w, n
    <3>2. i + 1 \in 1 .. o(q) + w(q) /\ i + 1 <= o(q)
      <4>1. i < o(k) + w(k) /\ o(k) \in Nat /\ w(k) \in Nat
        BY <1>1, <1>2, <1>5
      <4> QED BY <1>7, <2>1, <3>1, <4>1, SMT
    <3>3. f[q][i + 1] = s[i + 1]
      BY <1>12, <2>1, <2>3, <3>2
    <3> QED BY <1>12, <2>2, <2>5, <3>3
  <2>6. CASE q < k
    <3>1. ~(q >= k)
      BY <1>1, <2>6, SMT
    <3> QED BY <2>2, <3>1
  <2> QED BY <1>1, <2>4, <2>5, <2>6, SMT
<1>13. 0 \in T
  <2>1. 1 \in 1 .. n /\ 0 + 1 = 1 /\ ~(1 > k)
    BY <1>1, <1>6, SMT
  <2>2. <<>> \in Seq(Int) /\ Len(<<>>) = 0
    OBVIOUS
  <2>3. f[1] = <<>> \o Run(1)
    <3>1. Run(1) \in Seq(Int)
      BY <1>8, <2>1
    <3> QED BY <1>11, <3>1
  <2>4. Good(1)
    <3> HIDE DEF Good
    <3> QED BY <1>3, <1>12, <2>1, <2>2, <2>3
  <2> QED BY <2>1, <2>4
<1>14. ASSUME NEW m \in Nat, m \in T PROVE m + 1 \in T
  <2> SUFFICES ASSUME (m + 1) + 1 <= n PROVE Good((m + 1) + 1)
    OBVIOUS
  <2> DEFINE q == (m + 1) + 1
  <2>1. q \in 1 .. n /\ q \in 2 .. n /\ q - 1 = m + 1 /\ m + 1 <= n /\ m + 1 \in 1 .. n /\ (q > k => m + 1 >= k)
    BY <1>1, SMT
  <2>2. Good(m + 1)
    BY <1>14, <2>1
  <2>3. f[m + 1] \in Seq(Int) /\ Len(f[m + 1]) = o(q) /\ f[q] = f[m + 1] \o Run(q)
        /\ (q > k => f[m + 1][i + 1] = lo(k) + i - o(k))
    BY <1>10, <1>11, <2>1, <2>2
  <2> HIDE DEF q, Good
  <2>4. Good(q)
    BY <1>12, <2>1, <2>3
  <2> QED BY <2>4 DEF q
<1>15. Nat \subseteq T
  <2> HIDE DEF T
  <2> QED BY <1>13, <1>14, NatSetInduction
<1>16. Good(n)
  <2>1. n - 1 \in Nat /\ (n - 1) + 1 = n /\ n <= n
    BY <1>6, SMT
  <2>2. n - 1 \in T
    <3> HIDE DEF T
    <3> QED BY <1>15, <2>1
  <2> HIDE DEF Good
  <2> QED BY <2>1, <2>2
<1>17. n >= k
  BY <1>1, SMT
<1> QED BY <1>4, <1>5, <1>10, <1>16, <1>17

--------------------------------------------------------------------------------
(* Interval sets: intervals with a gap between any two. *)


Gapped(ivs) == /\ ivs \in Intervals
               /\ \A k \in 1 .. Len(ivs) : /\ ivs[k].lo <= ivs[k].hi
                                           /\ k > 1 => ivs[k - 1].hi + 1 < ivs[k].lo

\* Intervals with gaps are in order.
LEMMA GappedInOrder ==
  ASSUME NEW ivs, Gapped(ivs)
  PROVE  ivs \in IntervalsInOrder
<1>1. ivs \in Intervals
  BY DEF Gapped
<1>2. ASSUME NEW k \in 1 .. Len(ivs), k > 1 PROVE ivs[k - 1].hi < ivs[k].lo
  <2>1. Len(ivs) \in Nat
    BY <1>1, IntervalType
  <2>2. k - 1 \in 1 .. Len(ivs)
    BY <1>2, <2>1, SMT
  <2>3. ivs[k - 1].hi \in Int /\ ivs[k].lo \in Int
    BY <1>1, <2>2, IntervalType
  <2>4. ivs[k - 1].hi + 1 < ivs[k].lo
    BY <1>2 DEF Gapped
  <2> QED BY <2>3, <2>4, SMT
<1> QED BY <1>1, <1>2 DEF Gapped, IntervalsInOrder, InOrder

\* An interval put after the first m of others.
LEMMA PutAfter ==
  ASSUME NEW ivs \in Intervals, NEW m \in 0 .. Len(ivs), NEW iv \in Interval
  PROVE  LET r == Append(SubSeq(ivs, 1, m), iv)
         IN  /\ r \in Intervals /\ Len(r) = m + 1 /\ r[m + 1] = iv
             /\ \A k \in 1 .. m : r[k] = ivs[k] /\ k \in 1 .. Len(ivs)
             /\ \A v : v \in Members(r) <=> v \in iv.lo .. iv.hi \/ \E k \in 1 .. m : v \in ivs[k].lo .. ivs[k].hi
<1> DEFINE s == SubSeq(ivs, 1, m)
           r == Append(s, iv)
<1>1. ivs \in Seq(Interval) /\ Len(ivs) \in Nat
  BY IntervalType DEF Intervals, Interval
<1>2. s \in Seq(Interval) /\ Len(s) = m /\ \A k \in 1 .. m : s[k] = ivs[k]
  <2> HIDE DEF Interval
  <2> QED BY <1>1, Beginning
<1>3. m \in Nat /\ m + 1 \in 1 .. m + 1 /\ (\A k \in 1 .. m : k \in 1 .. m + 1 /\ k # m + 1 /\ k \in 1 .. Len(ivs))
      /\ \A k \in 1 .. m + 1 : k = m + 1 \/ k \in 1 .. m
  BY <1>1, SMT
<1> HIDE DEF s
<1>4. r \in Seq(Interval) /\ Len(r) = m + 1 /\ r[m + 1] = iv /\ \A k \in 1 .. m : r[k] = s[k]
  <2> HIDE DEF Interval
  <2> QED BY <1>2, SMT
<1> HIDE DEF r
<1>5. DOMAIN r = 1 .. m + 1
  <2> HIDE DEF Interval
  <2> QED BY <1>4, LenProperties
<1>6. \A v : v \in Members(r) <=> v \in iv.lo .. iv.hi \/ \E k \in 1 .. m : v \in ivs[k].lo .. ivs[k].hi
  <2>1. \A v : v \in Members(r) <=> \E k \in 1 .. m + 1 : v \in r[k].lo .. r[k].hi
    BY <1>5 DEF Members
  <2> QED BY <1>2, <1>3, <1>4, <2>1
<1>7. r \in Intervals
  BY <1>4 DEF Intervals, Interval
<1> QED BY <1>2, <1>3, <1>4, <1>6, <1>7 DEF r, s

\* Put after a gap, it keeps the gaps.
LEMMA PutAfterGap ==
  ASSUME NEW ivs, Gapped(ivs), NEW m \in 0 .. Len(ivs), NEW iv \in Interval, iv.lo <= iv.hi,
         m > 0 => ivs[m].hi + 1 < iv.lo
  PROVE  Gapped(Append(SubSeq(ivs, 1, m), iv))
<1> DEFINE r == Append(SubSeq(ivs, 1, m), iv)
<1>1. ivs \in Intervals /\ Len(ivs) \in Nat
  BY IntervalType DEF Gapped
<1>2. r \in Intervals /\ Len(r) = m + 1 /\ r[m + 1] = iv /\ \A k \in 1 .. m : r[k] = ivs[k] /\ k \in 1 .. Len(ivs)
  BY <1>1, PutAfter
<1> HIDE DEF r
<1>3. ASSUME NEW k \in 1 .. Len(r) PROVE r[k].lo <= r[k].hi /\ (k > 1 => r[k - 1].hi + 1 < r[k].lo)
  <2>1. CASE k = m + 1
    <3>1. m \in Nat /\ (k > 1 => k - 1 = m /\ m > 0 /\ m \in 1 .. m)
      BY <1>1, <2>1, SMT
    <3>2. k > 1 => r[k - 1] = ivs[m]
      BY <1>2, <3>1
    <3> QED BY <1>2, <2>1, <3>1, <3>2
  <2>2. CASE k # m + 1
    <3>1. k \in 1 .. m /\ (k > 1 => k - 1 \in 1 .. m)
      BY <1>1, <1>2, <2>2, SMT
    <3>2. r[k] = ivs[k] /\ k \in 1 .. Len(ivs) /\ (k > 1 => r[k - 1] = ivs[k - 1])
      BY <1>2, <3>1
    <3>3. ivs[k].lo <= ivs[k].hi /\ (k > 1 => ivs[k - 1].hi + 1 < ivs[k].lo)
      BY <3>2 DEF Gapped
    <3> QED BY <3>2, <3>3
  <2> QED BY <2>1, <2>2
<1> QED BY <1>2, <1>3 DEF Gapped, r

\* Appending is putting after all, changing the last putting after all but it.
LEMMA AppendIsPut ==
  ASSUME NEW ivs \in Intervals
  PROVE  \A iv : /\ Append(ivs, iv) = Append(SubSeq(ivs, 1, Len(ivs)), iv)
                 /\ Append(Front(ivs), iv) = Append(SubSeq(ivs, 1, Len(ivs) - 1), iv)
<1>1. ivs \in Seq(Interval)
  BY DEF Intervals, Interval
<1>2. SubSeq(ivs, 1, Len(ivs)) = ivs
  <2> HIDE DEF Interval
  <2> QED BY <1>1, SubSeqFull
<1> QED BY <1>2 DEF Front

\* What the members of intervals in order are below.
LEMMA LastIsGreatest ==
  ASSUME NEW ivs \in IntervalsInOrder, ivs # <<>>
  PROVE  /\ Len(ivs) \in 1 .. Len(ivs) /\ Last(ivs) = ivs[Len(ivs)] /\ Last(ivs) \in Interval
         /\ Last(ivs).lo \in Int /\ Last(ivs).hi \in Int /\ Last(ivs).lo <= Last(ivs).hi
         /\ Last(ivs).hi \in Members(ivs) /\ Last(ivs).lo \in Members(ivs)
         /\ \A v \in Members(ivs) : v \in Int /\ v <= Last(ivs).hi
<1> DEFINE n == Len(ivs)
<1>1. ivs \in Intervals /\ n \in Nat /\ ivs \in Seq(Interval)
  BY IntervalType DEF IntervalsInOrder, Intervals, Interval
<1>2. n \in 1 .. n
  <2>1. n # 0
    <3> HIDE DEF Interval
    <3> QED BY <1>1, EmptySeq
  <2> QED BY <1>1, <2>1, SMT
<1>3. Last(ivs) = ivs[n] /\ Last(ivs) \in Interval /\ Last(ivs).lo \in Int /\ Last(ivs).hi \in Int
  BY <1>1, <1>2, IntervalType DEF Last
<1>4. Last(ivs).lo <= Last(ivs).hi
  BY <1>2, <1>3, Layout
<1>5. Last(ivs).hi \in Last(ivs).lo .. Last(ivs).hi /\ Last(ivs).lo \in Last(ivs).lo .. Last(ivs).hi
  BY <1>3, <1>4, SMT
<1>6. ASSUME NEW v \in Members(ivs) PROVE v \in Int /\ v <= Last(ivs).hi
  <2>1. PICK k \in 1 .. n : v \in ivs[k].lo .. ivs[k].hi
    BY MemberOf
  <2>2. ivs[k].lo \in Int /\ ivs[k].hi \in Int /\ k \in Int /\ (k < n => ivs[k].hi < ivs[n].lo)
    BY <1>2, Layout
  <2>3. v \in Int /\ v <= ivs[k].hi
    BY <2>1, <2>2, SMT
  <2>4. CASE k = n
    BY <1>3, <2>3, <2>4
  <2>5. CASE k # n
    <3>1. k < n
      BY <1>1, <2>5, SMT
    <3>2. ivs[k].hi < Last(ivs).lo
      BY <1>3, <2>2, <3>1
    <3> QED BY <1>3, <1>4, <2>2, <2>3, <3>2, SMT
  <2> QED BY <2>4, <2>5
<1>7. Last(ivs).hi \in Members(ivs) /\ Last(ivs).lo \in Members(ivs)
  BY <1>2, <1>3, <1>5, MemberOf
<1> QED BY <1>2, <1>3, <1>4, <1>6, <1>7

\* An interval after a gap: one more, and its values.
LEMMA Appended ==
  ASSUME NEW ivs, Gapped(ivs), NEW iv \in Interval, iv.lo <= iv.hi, ivs # <<>> => Last(ivs).hi + 1 < iv.lo
  PROVE  /\ Gapped(Append(ivs, iv)) /\ Append(ivs, iv) # <<>> /\ Last(Append(ivs, iv)) = iv
         /\ Members(Append(ivs, iv)) = Members(ivs) \cup (iv.lo .. iv.hi)
<1> DEFINE n == Len(ivs)
           r == Append(SubSeq(ivs, 1, n), iv)
<1>1. ivs \in Intervals /\ ivs \in IntervalsInOrder /\ n \in Nat
  BY GappedInOrder, IntervalType DEF Gapped
<1>2. Append(ivs, iv) = r
  BY <1>1, AppendIsPut
<1>3. n \in 0 .. n
  BY <1>1, SMT
<1>4. n > 0 => ivs[n].hi + 1 < iv.lo
  <2>1. n > 0 => ivs # <<>>
    OBVIOUS
  <2> QED BY <2>1 DEF Last
<1>5. Gapped(r)
  BY <1>3, <1>4, PutAfterGap
<1>6. /\ r \in Intervals /\ Len(r) = n + 1 /\ r[n + 1] = iv
      /\ \A v : v \in Members(r) <=> v \in iv.lo .. iv.hi \/ \E k \in 1 .. n : v \in ivs[k].lo .. ivs[k].hi
  BY <1>1, <1>3, PutAfter
<1> HIDE DEF r, n
<1>7. r # <<>> /\ Last(r) = iv
  <2>1. n + 1 # 0
    BY <1>1, SMT
  <2>2. Len(<<>>) = 0
    OBVIOUS
  <2> QED BY <1>6, <2>1, <2>2 DEF Last
<1>8. Members(r) = Members(ivs) \cup (iv.lo .. iv.hi)
  BY <1>1, <1>6, MemberOf DEF n
<1> QED BY <1>2, <1>5, <1>7, <1>8

\* The last interval grown: the values it gains.
LEMMA Grown ==
  ASSUME NEW ivs, Gapped(ivs), ivs # <<>>, NEW h \in Int, Last(ivs).hi <= h
  PROVE  LET r == Append(Front(ivs), [Last(ivs) EXCEPT !.hi = h])
         IN  /\ Gapped(r) /\ r # <<>> /\ Last(r) = [lo |-> Last(ivs).lo, hi |-> h]
             /\ Members(r) = Members(ivs) \cup (Last(ivs).lo .. h)
<1> DEFINE n == Len(ivs)
           iv == [lo |-> Last(ivs).lo, hi |-> h]
           r == Append(SubSeq(ivs, 1, n - 1), iv)
<1>1. ivs \in Intervals /\ ivs \in IntervalsInOrder /\ n \in Nat
  BY GappedInOrder, IntervalType DEF Gapped
<1>2. /\ n \in 1 .. n /\ Last(ivs) = ivs[n] /\ Last(ivs) \in Interval
      /\ Last(ivs).lo \in Int /\ Last(ivs).hi \in Int /\ Last(ivs).lo <= Last(ivs).hi
  BY <1>1, LastIsGreatest
<1>3. [Last(ivs) EXCEPT !.hi = h] = iv
  BY <1>2 DEF Interval
<1>4. Append(Front(ivs), [Last(ivs) EXCEPT !.hi = h]) = r
  BY <1>1, <1>3, AppendIsPut
<1>5. iv \in Interval /\ iv.lo = Last(ivs).lo /\ iv.hi = h /\ iv.lo <= iv.hi
  <2>1. Last(ivs).lo <= h
    BY <1>2, SMT
  <2> QED BY <1>2, <2>1 DEF Interval
<1>6. n - 1 \in 0 .. n /\ (n - 1) + 1 = n /\ (n - 1 > 0 => n > 1)
  BY <1>1, <1>2, SMT
<1>7. n - 1 > 0 => ivs[n - 1].hi + 1 < iv.lo
  BY <1>2, <1>5, <1>6 DEF Gapped
<1> HIDE DEF iv
<1>8. Gapped(r)
  BY <1>5, <1>6, <1>7, PutAfterGap
<1>9. /\ r \in Intervals /\ Len(r) = (n - 1) + 1 /\ r[(n - 1) + 1] = iv
      /\ \A v : v \in Members(r) <=> v \in iv.lo .. iv.hi \/ \E k \in 1 .. n - 1 : v \in ivs[k].lo .. ivs[k].hi
  <2> DEFINE m == n - 1
  <2>1. m \in 0 .. Len(ivs) /\ iv \in Interval
    BY <1>5, <1>6
  <2> HIDE DEF m
  <2>2. LET q == Append(SubSeq(ivs, 1, m), iv)
        IN  /\ q \in Intervals /\ Len(q) = m + 1 /\ q[m + 1] = iv
            /\ \A v : v \in Members(q) <=> v \in iv.lo .. iv.hi \/ \E k \in 1 .. m : v \in ivs[k].lo .. ivs[k].hi
    BY <1>1, <2>1, PutAfter
  <2> QED BY <2>2 DEF m
<1> HIDE DEF r, n
<1>10. r # <<>> /\ Last(r) = iv
  <2>1. n # 0
    BY <1>2, SMT
  <2>2. Len(<<>>) = 0
    OBVIOUS
  <2> QED BY <1>6, <1>9, <2>1, <2>2 DEF Last
<1>11. Members(r) = Members(ivs) \cup (Last(ivs).lo .. h)
  <2>1. \A v : v \in Members(ivs) <=> \E k \in 1 .. n : v \in ivs[k].lo .. ivs[k].hi
    BY <1>1, MemberOf DEF n
  <2>2. \A k : k \in 1 .. n <=> k \in 1 .. n - 1 \/ k = n
    BY <1>1, <1>2, SMT
  <2>3. \A v : v \in ivs[n].lo .. ivs[n].hi => v \in Last(ivs).lo .. h
    BY <1>2, SMT
  <2>4. \A v : v \in Members(r) <=> v \in Last(ivs).lo .. h \/ \E k \in 1 .. n - 1 : v \in ivs[k].lo .. ivs[k].hi
    BY <1>5, <1>9
  <2>5. \A v : v \in Members(r) <=> v \in Last(ivs).lo .. h \/ v \in Members(ivs)
    BY <2>1, <2>2, <2>3, <2>4
  <2> QED BY <2>5
<1> QED BY <1>4, <1>8, <1>10, <1>11 DEF iv


\* Those of the members below n, from those of the members below n - 1.
NextBelow(S, n, ivs) ==
    CASE n - 1 \notin S -> ivs
      [] n - 1 \in S /\ (n - 1) - 1 \in S -> Append(Front(ivs), [Last(ivs) EXCEPT !.hi = n - 1])
      [] OTHER -> Append(ivs, [lo |-> n - 1, hi |-> n - 1])

Represents(ivs, S) == Gapped(ivs) /\ Members(ivs) = S

\* No interval stands for no value.
LEMMA EmptyRepresents == Represents(<<>>, {})
<1>1. <<>> \in Intervals /\ Len(<<>>) = 0 /\ 1 .. 0 = {}
  <2>1. <<>> \in Seq(Interval)
    <3> HIDE DEF Interval
    <3> QED BY EmptySeq
  <2> QED BY <2>1, SMT DEF Intervals, Interval
<1>2. Gapped(<<>>)
  BY <1>1 DEF Gapped
<1>3. Members(<<>>) = {}
  <2>1. <<>> \in IntervalsInOrder
    BY <1>2, GappedInOrder
  <2>2. \A v : v \in Members(<<>>) <=> \E k \in 1 .. Len(<<>>) : v \in <<>>[k].lo .. <<>>[k].hi
    BY <2>1, MemberOf
  <2> QED BY <1>1, <2>2
<1> QED BY <1>2, <1>3 DEF Represents

\* One more code point.
LEMMA BelowStep ==
  ASSUME NEW S \in SUBSET Nat, NEW n \in Nat \ {0}, NEW ivs, Represents(ivs, S \cap (0 .. (n - 1) - 1))
  PROVE  Represents(NextBelow(S, n, ivs), S \cap (0 .. n - 1))
<1> DEFINE cp == n - 1
           old == S \cap (0 .. cp - 1)
           new == S \cap (0 .. cp)
<1>1. cp \in Nat /\ Gapped(ivs) /\ Members(ivs) = old /\ ivs \in IntervalsInOrder
  BY GappedInOrder, SMT DEF Represents
<1> HIDE DEF cp
<1>2. \A v : v \in new <=> v \in old \/ (v = cp /\ cp \in S)
  BY <1>1, SMT
<1> HIDE DEF old, new
<1>3. ASSUME ivs # <<>>
      PROVE  /\ Last(ivs).lo \in Int /\ Last(ivs).hi \in Int /\ Last(ivs).lo <= Last(ivs).hi
             /\ Last(ivs).hi \in S /\ Last(ivs).hi \in 0 .. cp - 1
             /\ \A v \in old : v <= Last(ivs).hi
             /\ \A v \in Last(ivs).lo .. Last(ivs).hi : v \in old
  <2>1. /\ Last(ivs).hi \in Members(ivs) /\ \A v \in Members(ivs) : v <= Last(ivs).hi
        /\ Last(ivs).lo \in Int /\ Last(ivs).hi \in Int /\ Last(ivs).lo <= Last(ivs).hi
        /\ Len(ivs) \in 1 .. Len(ivs) /\ Last(ivs) = ivs[Len(ivs)]
    BY <1>1, <1>3, LastIsGreatest
  <2>2. \A v \in Last(ivs).lo .. Last(ivs).hi : v \in Members(ivs)
    BY <1>1, <2>1, MemberOf
  <2> QED BY <1>1, <2>1, <2>2 DEF old
<1>4. CASE cp \notin S
  <2>1. NextBelow(S, n, ivs) = ivs
    BY <1>4 DEF NextBelow, cp
  <2>2. new = old
    BY <1>2, <1>4
  <2> QED BY <1>1, <2>1, <2>2 DEF Represents, new, cp
<1>5. CASE cp \in S /\ cp - 1 \in S
  <2>1. NextBelow(S, n, ivs) = Append(Front(ivs), [Last(ivs) EXCEPT !.hi = cp])
    BY <1>5 DEF NextBelow, cp
  <2>2. cp - 1 \in old
    <3>1. cp - 1 \in Nat
      BY <1>5
    <3>2. cp - 1 \in 0 .. cp - 1
      BY <1>1, <3>1, SMT
    <3> QED BY <1>5, <3>2 DEF old
  <2>3. ivs # <<>>
    BY <1>1, <2>2, EmptyRepresents DEF Represents
  <2>4. Last(ivs).hi = cp - 1 /\ Last(ivs).hi <= cp /\ cp \in Int
    <3>1. cp - 1 <= Last(ivs).hi /\ Last(ivs).hi \in 0 .. cp - 1
      BY <1>3, <2>2, <2>3
    <3> QED BY <1>1, <3>1, SMT
  <2> DEFINE r == Append(Front(ivs), [Last(ivs) EXCEPT !.hi = cp])
  <2>5. Gapped(r) /\ Members(r) = Members(ivs) \cup (Last(ivs).lo .. cp)
    BY <1>1, <2>3, <2>4, Grown
  <2> HIDE DEF r
  <2>6. \A v : v \in Last(ivs).lo .. cp <=> v \in Last(ivs).lo .. Last(ivs).hi \/ v = cp
    <3>1. Last(ivs).lo \in Int /\ Last(ivs).lo <= Last(ivs).hi
      BY <1>3, <2>3
    <3> DEFINE lo == Last(ivs).lo
               hi == Last(ivs).hi
    <3>2. lo \in Int /\ hi = cp - 1 /\ lo <= hi
      BY <2>4, <3>1
    <3> HIDE DEF lo, hi
    <3>3. \A v : v \in lo .. cp <=> v \in lo .. hi \/ v = cp
      BY <1>1, <3>2, SMT
    <3> QED BY <3>3 DEF lo, hi
  <2>7. Members(r) = new
    BY <1>1, <1>2, <1>3, <1>5, <2>3, <2>5, <2>6
  <2> QED BY <2>1, <2>5, <2>7 DEF Represents, new, cp, r
<1>6. CASE cp \in S /\ cp - 1 \notin S
  <2> DEFINE iv == [lo |-> cp, hi |-> cp]
             r == Append(ivs, iv)
  <2>1. NextBelow(S, n, ivs) = r
    BY <1>6 DEF NextBelow, cp
  <2>2. iv \in Interval /\ iv.lo = cp /\ iv.hi = cp /\ cp <= cp /\ cp .. cp = {cp}
    BY <1>1, SMT DEF Interval
  <2>3. ivs # <<>> => Last(ivs).hi + 1 < cp
    <3> SUFFICES ASSUME ivs # <<>> PROVE Last(ivs).hi + 1 < cp
      OBVIOUS
    <3>1. Last(ivs).hi \in S /\ Last(ivs).hi \in 0 .. cp - 1
      BY <1>3
    <3>2. Last(ivs).hi # cp - 1
      BY <1>6, <3>1
    <3> QED BY <1>1, <3>1, <3>2, SMT
  <2> HIDE DEF iv
  <2>4. Gapped(r) /\ Members(r) = Members(ivs) \cup (iv.lo .. iv.hi)
    BY <1>1, <2>2, <2>3, Appended
  <2>5. Members(r) = new
    BY <1>1, <1>2, <1>6, <2>2, <2>4
  <2> QED BY <2>1, <2>4, <2>5 DEF Represents, new, cp
<1> QED BY <1>4, <1>5, <1>6

\* Canonical stands for its set, with gaps.
LEMMA CanonicalRepresents ==
  ASSUME NEW S \in SUBSET CodePoints
  PROVE  Represents(Canonical(S), S)
<1> DEFINE D == 0 .. 6
           V == {ivs \in Intervals : Gapped(ivs)}
           Is(f) == f = [n \in D |-> IF n = 0 THEN <<>>
                      ELSE CASE n - 1 \notin S -> f[n - 1]
                             [] n - 1 \in S /\ (n - 1) - 1 \in S ->
                                   Append(Front(f[n - 1]), [Last(f[n - 1]) EXCEPT !.hi = n - 1])
                             [] OTHER -> Append(f[n - 1], [lo |-> n - 1, hi |-> n - 1])]
           base == [n \in D |-> <<>>]
           down == [n \in D |-> IF n = 0 THEN 0 ELSE n - 1]
           size == [n \in D |-> n]
           step == [nv \in D \X V |-> IF NextBelow(S, nv[1], nv[2]) \in V THEN NextBelow(S, nv[1], nv[2]) ELSE <<>>]
           Upto(n) == S \cap (0 .. n - 1)
<1>1. S \in SUBSET Nat /\ S \cap (0 .. 5) = S
  <2>1. \A v \in 0 .. 5 : v \in Nat
    BY SMT
  <2>2. S \in SUBSET (0 .. 5)
    BY DEF CodePoints
  <2> QED BY <2>1, <2>2
<1>2. <<>> \in V
  BY EmptyRepresents DEF Represents, Gapped
<1>3. Descends(D, V, size, down, base, step)
  <2>1. size \in [D -> Nat] /\ down \in [D -> D] /\ base \in [D -> V]
        /\ \A n \in D : down[n] # n => size[down[n]] < size[n]
    BY <1>2, SMT
  <2>2. step \in [D \X V -> V]
    BY <1>2
  <2> HIDE DEF size, down, base, step, D, V
  <2> QED BY <2>1, <2>2 DEF Descends
<1>4. PICK f \in [D -> V] : Recurses(f, D, base, step, down)
  <2> HIDE DEF size, down, base, step, D, V
  <2> QED BY <1>3, Recursion
<1>5. f[0] = <<>> /\ \A n \in D : n # 0 => f[n] = IF NextBelow(S, n, f[n - 1]) \in V THEN NextBelow(S, n, f[n - 1]) ELSE <<>>
  <2>1. ASSUME NEW n \in D PROVE f[n] = IF down[n] = n THEN base[n] ELSE step[<<n, f[down[n]]>>]
    BY <1>4 DEF Recurses
  <2>2. 0 \in D /\ down[0] = 0 /\ base[0] = <<>>
    OBVIOUS
  <2>3. ASSUME NEW n \in D, n # 0
        PROVE f[n] = IF NextBelow(S, n, f[n - 1]) \in V THEN NextBelow(S, n, f[n - 1]) ELSE <<>>
    <3>1. down[n] = n - 1 /\ n - 1 \in D /\ n - 1 # n
      BY <2>3, SMT
    <3>2. f[n - 1] \in V
      BY <1>4, <3>1
    <3> HIDE DEF V, D, down
    <3>3. step[<<n, f[n - 1]>>] = IF NextBelow(S, n, f[n - 1]) \in V THEN NextBelow(S, n, f[n - 1]) ELSE <<>>
      BY <3>2
    <3> QED BY <2>1, <3>1, <3>3
  <2> QED BY <2>1, <2>2, <2>3
<1> DEFINE Goes(g) == /\ g[0] = <<>>
                      /\ \A n \in 1 .. 6 : Represents(g[n - 1], Upto(n - 1)) => g[n] = NextBelow(S, n, g[n - 1])
<1>6. ASSUME NEW g, Goes(g), NEW n \in D PROVE Represents(g[n], Upto(n))
  <2> DEFINE T == {m \in Nat : m <= 6 => Represents(g[m], Upto(m))}
  <2>1. 0 \in T
    <3>1. Upto(0) = {}
      BY SMT
    <3>2. Represents(g[0], Upto(0))
      BY <1>6, <3>1, EmptyRepresents
    <3> QED BY <3>2
  <2>2. ASSUME NEW m \in Nat, m \in T PROVE m + 1 \in T
    <3> SUFFICES ASSUME m + 1 <= 6 PROVE Represents(g[m + 1], Upto(m + 1))
      OBVIOUS
    <3>1. m + 1 \in 1 .. 6 /\ (m + 1) - 1 = m /\ m <= 6 /\ m + 1 \in Nat \ {0}
      BY SMT
    <3>2. Represents(g[m], Upto(m))
      BY <2>2, <3>1
    <3>3. g[m + 1] = NextBelow(S, m + 1, g[m])
      BY <1>6, <3>1, <3>2
    <3>4. Represents(NextBelow(S, m + 1, g[m]), S \cap (0 .. (m + 1) - 1))
      <4>1. Represents(g[m], S \cap (0 .. ((m + 1) - 1) - 1))
        BY <3>1, <3>2
      <4> QED BY <1>1, <3>1, <4>1, BelowStep
    <3> QED BY <3>3, <3>4
  <2>3. Nat \subseteq T
    <3> HIDE DEF T
    <3> QED BY <2>1, <2>2, NatSetInduction
  <2>4. n \in Nat /\ n <= 6
    BY SMT
  <2> QED BY <2>3, <2>4
<1>7. ASSUME NEW n \in 1 .. 6, NEW ivs, Represents(ivs, Upto(n - 1)) PROVE NextBelow(S, n, ivs) \in V
  <2>1. n \in Nat \ {0}
    BY SMT
  <2>2. Represents(NextBelow(S, n, ivs), S \cap (0 .. n - 1))
    BY <1>1, <1>7, <2>1, BelowStep
  <2> QED BY <2>2 DEF Represents, Gapped
<1>8. Goes(f)
  <2>1. \A n \in 1 .. 6 : n \in D /\ n # 0
    BY SMT
  <2> HIDE DEF V, D, Upto
  <2> QED BY <1>5, <1>7, <2>1
<1>9. ASSUME NEW n \in 1 .. 6 PROVE f[n] = NextBelow(S, n, f[n - 1])
  <2>1. n - 1 \in D
    BY SMT
  <2> QED BY <1>6, <1>8, <2>1
<1>10. Is(f)
  <2>1. ASSUME NEW n \in D PROVE f[n] = IF n = 0 THEN <<>> ELSE NextBelow(S, n, f[n - 1])
    <3>1. n # 0 => n \in 1 .. 6
      BY SMT
    <3> QED BY <1>5, <1>9, <3>1
  <2>2. f = [n \in D |-> f[n]]
    BY <1>4
  <2> HIDE DEF D
  <2>3. f = [n \in D |-> IF n = 0 THEN <<>> ELSE NextBelow(S, n, f[n - 1])]
    BY <2>1, <2>2
  <2> QED BY Zenon, <2>3 DEF NextBelow
<1> DEFINE Below == CHOOSE g : Is(g)
<1>11. Is(Below)
  <2> HIDE DEF Is
  <2> QED BY <1>10
<1> HIDE DEF Below
<1>12. Goes(Below)
  <2>1. Below = [n \in D |-> IF n = 0 THEN <<>> ELSE NextBelow(S, n, Below[n - 1])]
    BY Zenon, <1>11 DEF NextBelow
  <2>2. 0 \in D /\ \A n \in 1 .. 6 : n \in D /\ n # 0
    BY SMT
  <2> HIDE DEF D
  <2> QED BY <2>1, <2>2
<1>13. Canonical(S) = Below[6]
  BY Zenon DEF Canonical, Below
<1>14. 6 \in D /\ Upto(6) = S
  <2>1. 6 - 1 = 5 /\ 6 \in D
    BY SMT
  <2> QED BY <1>1, <2>1
<1> QED BY <1>6, <1>12, <1>13, <1>14

--------------------------------------------------------------------------------
(* The calls of MCValues. *)


\* What the calls of kernels are made with.
Arguments ==
    /\ Calls("index") => /\ at.type \in {"boolean", "integer", "string", "bytes"}
                         /\ at.c \in SomeConstraints(at.type) /\ at.n \in Indices
    /\ Calls("floats") => at.args \in SomeFloatArgs
    /\ Calls("lex") => at.f \in 0 .. NegBit - 1
    /\ Calls("next") => at.width \in {"wide", "narrow"} /\ at.f \in Representable(at.width)
    /\ Calls("algebra") => \E s, t \in SUBSET CodePoints : at.x = Canonical(s) /\ at.y = Canonical(t)
    /\ Calls("chars") => \E n \in 0 .. 3 : at.cps \in [1 .. n -> CodePoints]

\* No step makes a call with others.
LEMMA ArgumentsStay == Spec => []Arguments
<1>1. Init => Arguments
  <2>1. Init => at.call = "none"
    BY DEF Init, Idle
  <2> QED BY <2>1 DEF Arguments, Calls
<1>2. Arguments /\ [Next]_vars => Arguments'
  <2> SUFFICES ASSUME Arguments, [Next]_vars PROVE Arguments'
    OBVIOUS
  <2>1. CASE UNCHANGED vars
    BY <2>1 DEF Arguments, Calls, vars
  <2>2. CASE Index
    <3>1. PICK type \in {"boolean", "integer", "string", "bytes"} : \E c \in SomeConstraints(type), n \in Indices :
             at' = [call |-> "index", type |-> type, c |-> c, n |-> n]
      BY <2>2 DEF Index
    <3>2. PICK c \in SomeConstraints(type), n \in Indices : at' = [call |-> "index", type |-> type, c |-> c, n |-> n]
      BY <3>1
    <3>3. at'.call = "index" /\ at'.type = type /\ at'.c = c /\ at'.n = n
      BY <3>2
    <3> QED BY <3>1, <3>2, <3>3 DEF Arguments, Calls
  <2>3. CASE Floating
    <3>1. PICK args \in SomeFloatArgs : at' = [call |-> "floats", args |-> args]
      BY <2>3 DEF Floating
    <3>2. at'.call = "floats" /\ at'.args = args
      BY <3>1
    <3> QED BY <3>1, <3>2 DEF Arguments, Calls
  <2>4. CASE Lex
    <3>1. PICK f \in 0 .. NegBit - 1 : at' = [call |-> "lex", f |-> f]
      BY <2>4 DEF Lex
    <3>2. at'.call = "lex" /\ at'.f = f
      BY <3>1
    <3> QED BY <3>1, <3>2 DEF Arguments, Calls
  <2>5. CASE NextFloat
    <3>1. PICK f \in AllFloats, width \in {"wide", "narrow"} :
             f \in Representable(width) /\ at' = [call |-> "next", f |-> f, width |-> width]
      BY <2>5 DEF NextFloat
    <3>2. at'.call = "next" /\ at'.f = f /\ at'.width = width
      BY <3>1
    <3> QED BY <3>1, <3>2 DEF Arguments, Calls
  <2>6. CASE Algebra
    <3>1. PICK s \in SUBSET CodePoints, t \in SUBSET CodePoints :
             at' = [call |-> "algebra", x |-> Canonical(s), y |-> Canonical(t)]
      BY <2>6 DEF Algebra
    <3>2. at'.call = "algebra" /\ at'.x = Canonical(s) /\ at'.y = Canonical(t)
      BY <3>1
    <3> QED BY <3>1, <3>2 DEF Arguments, Calls
  <2>7. CASE FromString
    <3>1. PICK n \in 0 .. 3 : \E cps \in [1 .. n -> CodePoints] : at' = [call |-> "chars", cps |-> cps]
      BY <2>7 DEF FromString
    <3>2. PICK cps \in [1 .. n -> CodePoints] : at' = [call |-> "chars", cps |-> cps]
      BY <3>1
    <3>3. at'.call = "chars" /\ at'.cps = cps
      BY <3>2
    <3> QED BY <3>1, <3>2, <3>3 DEF Arguments, Calls
  <2>8. CASE Encoding \/ Decoding \/ Database
    <3>1. at'.call \in {"encode", "decode", "none", "move"}
      BY <2>8 DEF Encoding, Decoding, Database, DbMove, Idle
    <3> QED BY <3>1 DEF Arguments, Calls
  <2> QED BY <2>1, <2>2, <2>3, <2>4, <2>5, <2>6, <2>7, <2>8 DEF Next, Pure
<1> QED BY <1>1, <1>2, PTL DEF Spec

\* Positions, ordinals, orders and iteration agree for sets of every size.
THEOREM PositionsAreBijective ==
  ASSUME NEW ivs \in IntervalsInOrder
  PROVE  /\ \A i \in 0 .. Size(ivs) - 1 :
              /\ GetItem(ivs, i) = Elements(ivs)[i + 1] /\ GetItem(ivs, i - Size(ivs)) = GetItem(ivs, i)
              /\ OrdinalOf(ivs, GetItem(ivs, i)) = i /\ IndexAbove(ivs, GetItem(ivs, i)) = i
              /\ ShrinkIndexOf(ivs, CharInShrinkOrder(ivs, i)) = i
         /\ \A v \in Int \ Members(ivs) : OrdinalOf(ivs, v) = NotInList
BY ElementsInOrder, ItemFromEnd, OrdinalOfItem, OrderOfChar, NoOrdinal

\* Whatever the two sets.
LEMMA PositionsHold == Arguments => PositionsAgree
<1> SUFFICES ASSUME Arguments, Calls("algebra") PROVE PositionsAgree
  BY DEF PositionsAgree
<1>1. PICK s \in SUBSET CodePoints : at.x = Canonical(s)
  BY DEF Arguments
<1>2. at.x \in IntervalsInOrder
  BY <1>1, CanonicalRepresents, GappedInOrder DEF Represents
<1>3. CodePoints \subseteq Int
  BY SMT DEF CodePoints
<1> DEFINE x == at.x
<1> HIDE DEF x
<1>4. x \in IntervalsInOrder
  BY <1>2 DEF x
<1> QED BY <1>3, <1>4, PositionsAreBijective DEF PositionsAgree, x

--------------------------------------------------------------------------------
(* Interval sets: union, by sorting and merging. *)


\* Intervals in the order of their lower ends, none of them empty.
ByLow(ivs) == \A k \in 1 .. Len(ivs) : /\ ivs[k].lo <= ivs[k].hi
                                       /\ \A j \in 1 .. Len(ivs) : j < k => ivs[j].lo <= ivs[k].lo

IntervalsByLow == {ivs \in Intervals : ByLow(ivs)}

\* r is s with x put before its place m.
PutAt(r, s, m, x) == /\ Len(r) = Len(s) + 1
                     /\ \A k \in 1 .. Len(s) : k < m => r[k] = s[k]
                     /\ r[m] = x
                     /\ \A k \in 1 .. Len(s) : k >= m => r[k + 1] = s[k]

\* What InsertAt does.
LEMMA InsertedAt ==
  ASSUME NEW S, NEW s \in Seq(S), NEW m \in 1 .. Len(s), NEW x \in S
  PROVE  InsertAt(s, m, x) \in Seq(S) /\ PutAt(InsertAt(s, m, x), s, m, x)
<1> DEFINE n == Len(s)
           p == SubSeq(s, 1, m - 1)
           q == SubSeq(s, m, n)
           u == p \o <<x>>
<1>1. n \in Nat /\ m \in Int /\ m >= 1 /\ m <= n
  BY LenProperties, SMT
<1>2. p \in Seq(S) /\ Len(p) = m - 1 /\ \A k \in 1 .. m - 1 : p[k] = s[k]
  <2>1. m - 1 \in 0 .. Len(s)
    BY <1>1, SMT
  <2> QED BY <2>1, Beginning
<1>3. q \in Seq(S) /\ Len(q) = n - m + 1 /\ \A k \in 1 .. n - m + 1 : q[k] = s[m + k - 1]
  BY <1>1, SMT
<1>4. <<x>> \in Seq(S) /\ Len(<<x>>) = 1 /\ <<x>>[1] = x
  BY SMT
<1> HIDE DEF p, q
<1>5. u \in Seq(S) /\ Len(u) = m /\ (\A k \in 1 .. m - 1 : u[k] = s[k]) /\ u[m] = x
  <2>1. u \in Seq(S) /\ Len(u) = Len(p) + Len(<<x>>)
        /\ \A k \in 1 .. Len(p) + Len(<<x>>) : u[k] = IF k <= Len(p) THEN p[k] ELSE <<x>>[k - Len(p)]
    BY <1>2, <1>4, ConcatProperties
  <2>2. Len(u) = m /\ \A k \in 1 .. m : u[k] = IF k <= m - 1 THEN p[k] ELSE <<x>>[k - (m - 1)]
    <3>1. Len(p) + Len(<<x>>) = m
      BY <1>1, <1>2, <1>4, SMT
    <3> QED BY <1>2, <2>1, <3>1
  <2>3. m \in 1 .. m /\ ~(m <= m - 1) /\ m - (m - 1) = 1 /\ \A k \in 1 .. m - 1 : k \in 1 .. m /\ k <= m - 1
    BY <1>1, SMT
  <2> HIDE DEF u
  <2> QED BY <1>2, <1>4, <2>1, <2>2, <2>3
<1> HIDE DEF u
<1> DEFINE r == u \o q
<1>6. r \in Seq(S) /\ Len(r) = n + 1 /\ \A k \in 1 .. n + 1 : r[k] = IF k <= m THEN u[k] ELSE q[k - m]
  <2>1. r \in Seq(S) /\ Len(r) = Len(u) + Len(q)
        /\ \A k \in 1 .. Len(u) + Len(q) : r[k] = IF k <= Len(u) THEN u[k] ELSE q[k - Len(u)]
    BY <1>3, <1>5, ConcatProperties
  <2>2. Len(u) + Len(q) = n + 1
    BY <1>1, <1>3, <1>5, SMT
  <2> QED BY <1>5, <2>1, <2>2
<1>7. InsertAt(s, m, x) = r
  BY DEF InsertAt, r, u, p, q
<1> HIDE DEF r
<1>8. ASSUME NEW k \in 1 .. n, k < m PROVE r[k] = s[k]
  <2>1. k \in 1 .. n + 1 /\ k <= m /\ k \in 1 .. m - 1
    BY <1>1, <1>8, SMT
  <2> QED BY <1>5, <1>6, <2>1
<1>9. r[m] = x
  <2>1. m \in 1 .. n + 1 /\ m <= m
    BY <1>1, SMT
  <2> QED BY <1>5, <1>6, <2>1
<1>10. ASSUME NEW k \in 1 .. n, k >= m PROVE r[k + 1] = s[k]
  <2>1. k + 1 \in 1 .. n + 1 /\ ~(k + 1 <= m) /\ (k + 1) - m \in 1 .. n - m + 1 /\ m + ((k + 1) - m) - 1 = k
    BY <1>1, <1>10, SMT
  <2> QED BY <1>3, <1>6, <2>1
<1> QED BY <1>6, <1>7, <1>8, <1>9, <1>10 DEF PutAt

\* A new interval is put where the order stays.
LEMMA InsertKeepsOrder ==
  ASSUME NEW s \in IntervalsByLow, NEW iv \in Interval, iv.lo <= iv.hi
  PROVE  /\ Insert(s, iv) \in IntervalsByLow /\ Insert(s, iv) # <<>>
         /\ Members(Insert(s, iv)) = Members(s) \cup (iv.lo .. iv.hi)
<1> DEFINE n == Len(s)
           after == {k \in DOMAIN s : Before(iv, s[k])}
           r == Insert(s, iv)
<1>1. s \in Intervals /\ s \in Seq(Interval) /\ n \in Nat /\ DOMAIN s = 1 .. n
      /\ \A k \in 1 .. n : s[k] \in Interval /\ s[k].lo \in Int /\ s[k].hi \in Int
  BY IntervalType DEF IntervalsByLow, Intervals, Interval
<1>2. iv.lo \in Int /\ iv.hi \in Int
  BY DEF Interval
<1>3. \A k \in 1 .. n : s[k].lo <= s[k].hi /\ \A j \in 1 .. n : j < k => s[j].lo <= s[k].lo
  BY DEF IntervalsByLow, ByLow
<1>4. ASSUME NEW k \in 1 .. n, ~Before(iv, s[k]) PROVE s[k].lo <= iv.lo
  <2>1. ~(iv.lo < s[k].lo) /\ s[k].lo \in Int
    BY <1>1, <1>4 DEF Before
  <2> QED BY <1>2, <2>1, SMT
<1>5. ASSUME NEW k \in 1 .. n, Before(iv, s[k]) PROVE iv.lo <= s[k].lo
  <2>1. iv.lo < s[k].lo \/ iv.lo = s[k].lo
    BY <1>5 DEF Before
  <2>2. s[k].lo \in Int
    BY <1>1
  <2> QED BY <1>2, <2>1, <2>2, SMT
<1>6. \E m \in 1 .. n + 1 : /\ r \in Seq(Interval) /\ PutAt(r, s, m, iv)
                            /\ \A k \in 1 .. n : (k < m => s[k].lo <= iv.lo) /\ (k >= m => iv.lo <= s[k].lo)
  <2>1. CASE after = {}
    <3>1. r = Append(s, iv)
      BY <2>1 DEF Insert
    <3>2. n + 1 \in 1 .. n + 1 /\ \A k \in 1 .. n : k < n + 1 /\ ~(k >= n + 1)
      BY <1>1, SMT
    <3>3. Append(s, iv) \in Seq(Interval) /\ Len(Append(s, iv)) = n + 1 /\ Append(s, iv)[n + 1] = iv
          /\ \A k \in 1 .. n : Append(s, iv)[k] = s[k]
      <4> HIDE DEF Interval
      <4> QED BY <1>1, AppendProperties
    <3>4. PutAt(r, s, n + 1, iv)
      BY <3>1, <3>2, <3>3 DEF PutAt
    <3>5. \A k \in 1 .. n : s[k].lo <= iv.lo
      BY <1>1, <1>4, <2>1
    <3> QED BY <3>1, <3>2, <3>3, <3>4, <3>5
  <2>2. CASE after # {}
    <3> DEFINE m == Min(after)
    <3>1. after \in SUBSET Nat
      <4>1. \A k \in 1 .. n : k \in Nat
        BY <1>1, SMT
      <4> QED BY <1>1, <4>1
    <3>2. m \in after /\ \A k \in after : m <= k
      BY <2>2, <3>1, MinOf
    <3>3. m \in 1 .. n /\ Before(iv, s[m])
      BY <1>1, <3>2
    <3>4. r = InsertAt(s, m, iv)
      BY <2>2 DEF Insert
    <3> HIDE DEF m, r
    <3>5. InsertAt(s, m, iv) \in Seq(Interval) /\ PutAt(InsertAt(s, m, iv), s, m, iv)
      <4> HIDE DEF Interval
      <4> QED BY <1>1, <3>3, InsertedAt
    <3>6. ASSUME NEW k \in 1 .. n, k < m PROVE s[k].lo <= iv.lo
      <4>1. m \in Int /\ k \in Int /\ ~(m <= k)
        BY <1>1, <3>3, <3>6, SMT
      <4>2. k \notin after
        BY <3>2, <4>1
      <4>3. ~Before(iv, s[k])
        BY <1>1, <4>2
      <4> QED BY <1>4, <4>3
    <3>7. ASSUME NEW k \in 1 .. n, k >= m PROVE iv.lo <= s[k].lo
      <4>1. iv.lo <= s[m].lo
        BY <1>5, <3>3
      <4>2. m \in Int /\ k \in Int
        BY <1>1, <3>3, SMT
      <4>3. CASE k = m
        BY <4>1, <4>3
      <4>4. CASE k # m
        <5>1. m < k
          BY <3>7, <4>2, <4>4, SMT
        <5>2. s[m].lo <= s[k].lo /\ s[m].lo \in Int /\ s[k].lo \in Int
          BY <1>1, <1>3, <3>3, <5>1
        <5> QED BY <1>2, <4>1, <5>2, SMT
      <4> QED BY <4>3, <4>4
    <3>8. m \in 1 .. n + 1
      BY <1>1, <3>3, SMT
    <3> QED BY <3>4, <3>5, <3>6, <3>7, <3>8
  <2> QED BY <2>1, <2>2
<1> HIDE DEF r
<1>7. PICK m \in 1 .. n + 1 : /\ r \in Seq(Interval) /\ PutAt(r, s, m, iv)
                              /\ \A k \in 1 .. n : (k < m => s[k].lo <= iv.lo) /\ (k >= m => iv.lo <= s[k].lo)
  BY <1>6
<1>8. /\ Len(r) = n + 1 /\ r[m] = iv
      /\ \A k \in 1 .. n : k < m => r[k] = s[k]
      /\ \A k \in 1 .. n : k >= m => r[k + 1] = s[k]
  BY <1>7 DEF PutAt
<1>9. m \in Int /\ m >= 1 /\ m <= n + 1
  BY <1>1, SMT
\* Every place is that of the new interval or of an old one.
<1>10. ASSUME NEW k \in 1 .. n + 1
       PROVE  \/ k = m
              \/ k < m /\ k \in 1 .. n /\ r[k] = s[k]
              \/ k > m /\ k - 1 \in 1 .. n /\ k - 1 >= m /\ r[k] = s[k - 1]
  <2>1. CASE k < m
    <3>1. k \in 1 .. n
      BY <1>1, <1>9, <2>1, SMT
    <3> QED BY <1>8, <2>1, <3>1
  <2>2. CASE k > m
    <3>1. k - 1 \in 1 .. n /\ k - 1 >= m /\ (k - 1) + 1 = k
      BY <1>1, <1>9, <2>2, SMT
    <3> QED BY <1>8, <2>2, <3>1
  <2>3. k = m \/ k < m \/ k > m
    BY <1>1, <1>9, SMT
  <2> QED BY <2>1, <2>2, <2>3
<1>11. ASSUME NEW k \in 1 .. n + 1 PROVE r[k].lo <= r[k].hi
  BY <1>3, <1>8, <1>10
<1>12. ASSUME NEW k \in 1 .. n + 1, NEW j \in 1 .. n + 1, j < k PROVE r[j].lo <= r[k].lo
  <2>1. k \in Int /\ j \in Int
    BY <1>1, SMT
  <2>2. CASE k = m
    <3>1. ~(j = m) /\ ~(j > m)
      BY <1>9, <1>12, <2>1, <2>2, SMT
    <3> QED BY <1>7, <1>8, <1>10, <2>2, <3>1
  <2>3. CASE k < m /\ k \in 1 .. n /\ r[k] = s[k]
    <3>1. ~(j = m) /\ ~(j > m)
      BY <1>9, <1>12, <2>1, <2>3, SMT
    <3>2. j \in 1 .. n /\ r[j] = s[j]
      BY <1>10, <3>1
    <3> QED BY <1>3, <1>12, <2>3, <3>2
  <2>4. CASE k > m /\ k - 1 \in 1 .. n /\ k - 1 >= m /\ r[k] = s[k - 1]
    <3>1. CASE j = m
      BY <1>7, <1>8, <2>4, <3>1
    <3>2. CASE j < m /\ j \in 1 .. n /\ r[j] = s[j]
      <4>1. j < k - 1
        BY <1>9, <2>1, <2>4, <3>2, SMT
      <4> QED BY <1>3, <2>4, <3>2, <4>1
    <3>3. CASE j > m /\ j - 1 \in 1 .. n /\ r[j] = s[j - 1]
      <4>1. j - 1 < k - 1
        BY <1>12, <2>1, SMT
      <4> QED BY <1>3, <2>4, <3>3, <4>1
    <3> QED BY <1>10, <3>1, <3>2, <3>3
  <2> QED BY <1>10, <2>2, <2>3, <2>4
<1>13. r \in IntervalsByLow
  <2>1. r \in Intervals
    BY <1>7 DEF Intervals, Interval
  <2> QED BY <1>8, <1>11, <1>12, <2>1 DEF IntervalsByLow, ByLow
<1>14. Members(r) = Members(s) \cup (iv.lo .. iv.hi)
  <2>1. DOMAIN r = 1 .. n + 1
    <3>1. r \in Intervals
      BY <1>13 DEF IntervalsByLow
    <3> QED BY <1>8, <3>1, IntervalType
  <2>2. \A v : v \in Members(r) <=> \E k \in 1 .. n + 1 : v \in r[k].lo .. r[k].hi
    BY <2>1 DEF Members
  <2>3. \A v : v \in Members(s) <=> \E k \in 1 .. n : v \in s[k].lo .. s[k].hi
    BY <1>1 DEF Members
  <2>4. \A k \in 1 .. n + 1 : r[k] = iv \/ \E j \in 1 .. n : r[k] = s[j]
    BY <1>8, <1>10
  <2>5. ASSUME NEW j \in 1 .. n PROVE \E k \in 1 .. n + 1 : r[k] = s[j]
    <3>1. j \in 1 .. n + 1 /\ j + 1 \in 1 .. n + 1 /\ (j < m \/ j >= m)
      BY <1>1, <1>9, SMT
    <3> QED BY <1>8, <3>1
  <2>6. \A v : v \in Members(r) => v \in Members(s) \/ v \in iv.lo .. iv.hi
    BY <2>2, <2>3, <2>4
  <2>7. \A v : v \in Members(s) \/ v \in iv.lo .. iv.hi => v \in Members(r)
    BY <1>8, <2>2, <2>3, <2>5
  <2> QED BY <2>6, <2>7
<1>15. r # <<>>
  <2>1. n + 1 # 0 /\ Len(<<>>) = 0
    BY <1>1, SMT
  <2> QED BY <1>8, <2>1
<1> QED BY <1>13, <1>14, <1>15 DEF r


\* Any intervals that are not empty.
SomeIntervals == {ivs \in Intervals : \A k \in 1 .. Len(ivs) : ivs[k].lo <= ivs[k].hi}

\* The values of the first k intervals.
MembersUpTo(ivs, k) == UNION {ivs[j].lo .. ivs[j].hi : j \in 1 .. k}

\* The members, one interval after the other.
LEMMA MembersGrow ==
  ASSUME NEW ivs \in Intervals
  PROVE  /\ MembersUpTo(ivs, 0) = {} /\ MembersUpTo(ivs, Len(ivs)) = Members(ivs)
         /\ \A k \in 1 .. Len(ivs) : MembersUpTo(ivs, k) = MembersUpTo(ivs, k - 1) \cup (ivs[k].lo .. ivs[k].hi)
<1>1. Len(ivs) \in Nat /\ DOMAIN ivs = 1 .. Len(ivs) /\ 1 .. 0 = {}
  BY IntervalType, SMT
<1>2. ASSUME NEW k \in 1 .. Len(ivs)
      PROVE  MembersUpTo(ivs, k) = MembersUpTo(ivs, k - 1) \cup (ivs[k].lo .. ivs[k].hi)
  <2>1. 1 .. k = (1 .. k - 1) \cup {k}
    BY <1>1, SMT
  <2> QED BY <2>1 DEF MembersUpTo
<1> QED BY <1>1, <1>2 DEF MembersUpTo, Members

\* Sorting keeps the members and puts the intervals in order.
LEMMA SortedByLow ==
  ASSUME NEW s \in SomeIntervals
  PROVE  /\ Sorted(s) \in IntervalsByLow /\ Members(Sorted(s)) = Members(s)
         /\ s = <<>> => Sorted(s) = <<>>
<1> DEFINE n == Len(s)
           V == IntervalsByLow
           step == [vk \in V \X (1 .. n) |-> Insert(vk[1], s[vk[2]])]
           Is(h) == h = [t \in SUBSET DOMAIN s |-> IF t = {} THEN <<>>
                           ELSE LET x == Max(t) IN Insert(h[t \ {x}], s[x])]
<1>1. s \in Intervals /\ n \in Nat /\ DOMAIN s = 1 .. n
      /\ \A k \in 1 .. n : s[k] \in Interval /\ s[k].lo <= s[k].hi
  BY IntervalType DEF SomeIntervals
<1> HIDE DEF n
<1>2. <<>> \in V /\ Members(<<>>) = {}
  <2>1. <<>> \in Intervals /\ Members(<<>>) = {} /\ Len(<<>>) = 0 /\ 1 .. 0 = {}
    BY EmptyRepresents, SMT DEF Represents, Gapped
  <2> QED BY <2>1 DEF IntervalsByLow, ByLow
<1>3. ASSUME NEW v \in V, NEW k \in 1 .. n
      PROVE  Insert(v, s[k]) \in V /\ Members(Insert(v, s[k])) = Members(v) \cup (s[k].lo .. s[k].hi)
  <2>1. s[k] \in Interval /\ s[k].lo <= s[k].hi
    BY <1>1
  <2> QED BY <2>1, InsertKeepsOrder
<1> HIDE DEF V
<1>4. PICK g \in [SUBSET (1 .. n) -> V] : Folds(g, n, <<>>, step)
  <2>1. step \in [V \X (1 .. n) -> V]
    BY <1>3
  <2> HIDE DEF step
  <2> QED BY <1>1, <1>2, <2>1, FoldExists
<1>5. Is(g)
  <2>1. ASSUME NEW t \in SUBSET (1 .. n), t # {}
        PROVE  g[t] = Insert(g[t \ {Max(t)}], s[Max(t)])
    <3>1. Max(t) \in 1 .. n /\ t \ {Max(t)} \in SUBSET (1 .. n)
      BY <1>1, <2>1, MaxPosition
    <3>2. g[t] = step[<<g[t \ {Max(t)}], Max(t)>>]
      BY <1>4, <2>1 DEF Folds
    <3> QED BY <3>1, <3>2
  <2>2. g[{}] = <<>>
    BY <1>4 DEF Folds
  <2> QED BY <1>1, <1>4, <2>1, <2>2
<1> DEFINE h == CHOOSE q : Is(q)
<1>6. Is(h)
  <2> HIDE DEF Is
  <2> QED BY <1>5
<1>7. Sorted(s) = h[1 .. n]
  <2>1. Sorted(s) = h[DOMAIN s]
    BY Zenon DEF Sorted, FoldLeft, MapThenFoldSet
  <2> QED BY <1>1, <2>1
<1> HIDE DEF h
<1>8. h[1 .. 0] = <<>>
  <2>1. 1 .. 0 = {} /\ {} \in SUBSET (1 .. n)
    BY SMT
  <2> QED BY <1>1, <1>6, <2>1
<1>9. ASSUME NEW k \in 1 .. n PROVE h[1 .. k] = Insert(h[1 .. k - 1], s[k])
  <2>1. 1 .. k \in SUBSET (1 .. n) /\ 1 .. k # {} /\ Max(1 .. k) = k /\ (1 .. k) \ {k} = 1 .. k - 1
    BY <1>1, Positions
  <2> QED BY <1>1, <1>6, <2>1
<1> DEFINE T == {k \in Nat : k <= n => h[1 .. k] \in V /\ Members(h[1 .. k]) = MembersUpTo(s, k)}
<1>10. 0 \in T
  BY <1>1, <1>2, <1>8, MembersGrow
<1>11. ASSUME NEW k \in Nat, k \in T PROVE k + 1 \in T
  <2> SUFFICES ASSUME k + 1 <= n
               PROVE  h[1 .. k + 1] \in V /\ Members(h[1 .. k + 1]) = MembersUpTo(s, k + 1)
    OBVIOUS
  <2>1. k + 1 \in 1 .. n /\ (k + 1) - 1 = k /\ k <= n
    BY <1>1, SMT
  <2>2. h[1 .. k] \in V /\ Members(h[1 .. k]) = MembersUpTo(s, k)
    BY <1>11, <2>1
  <2>3. h[1 .. k + 1] = Insert(h[1 .. k], s[k + 1])
    BY <1>9, <2>1
  <2>4. MembersUpTo(s, k + 1) = MembersUpTo(s, k) \cup (s[k + 1].lo .. s[k + 1].hi)
    BY <1>1, <2>1, MembersGrow DEF n
  <2> QED BY <1>3, <2>1, <2>2, <2>3, <2>4
<1>12. n \in T
  <2> HIDE DEF T
  <2> QED BY <1>1, <1>10, <1>11, NatSetInduction
<1>13. h[1 .. n] \in V /\ Members(h[1 .. n]) = Members(s)
  <2>1. n <= n
    BY <1>1, SMT
  <2> QED BY <1>1, <1>12, <2>1, MembersGrow DEF n
<1>14. ASSUME s = <<>> PROVE Sorted(s) = <<>>
  <2>1. n = 0
    BY <1>14 DEF n
  <2> QED BY <1>7, <1>8, <2>1
<1> QED BY <1>7, <1>13, <1>14 DEF V

\* Merging one more interval, of those in order.
LEMMA MergeStep ==
  ASSUME NEW m, Gapped(m), NEW iv \in Interval, iv.lo <= iv.hi
  PROVE  /\ Gapped(Merge(m, iv)) /\ Merge(m, iv) # <<>>
         /\ (m # <<>> => Last(m).lo <= iv.lo) =>
               /\ Members(Merge(m, iv)) = Members(m) \cup (iv.lo .. iv.hi)
               /\ Last(Merge(m, iv)).lo <= iv.lo
<1> DEFINE r == Merge(m, iv)
           old == Last(m)
<1>1. m \in IntervalsInOrder
  BY GappedInOrder
<1>2. iv.lo \in Int /\ iv.hi \in Int
  BY DEF Interval
<1>3. CASE m # <<>> /\ iv.lo <= Last(m).hi + 1
  <2> DEFINE h == Greater(iv.hi, old.hi)
  <2>1. old.lo \in Int /\ old.hi \in Int /\ old.lo <= old.hi /\ Len(m) \in 1 .. Len(m) /\ old = m[Len(m)]
    BY <1>1, <1>3, LastIsGreatest
  <2>2. \A a, b \in Int : Greater(a, b) \in Int /\ a <= Greater(a, b) /\ b <= Greater(a, b) /\ Greater(a, b) \in {a, b}
    BY SMT DEF Greater
  <2>3. h \in Int /\ old.hi <= h /\ iv.hi <= h /\ h \in {iv.hi, old.hi}
    BY <1>2, <2>1, <2>2
  <2>4. r = Append(Front(m), [Last(m) EXCEPT !.hi = h])
    BY <1>3 DEF Merge
  <2> HIDE DEF h
  <2>5. Gapped(r) /\ r # <<>> /\ Last(r) = [lo |-> Last(m).lo, hi |-> h]
        /\ Members(r) = Members(m) \cup (Last(m).lo .. h)
    BY <1>3, <2>3, <2>4, Grown
  <2> HIDE DEF r
  <2>6. ASSUME old.lo <= iv.lo PROVE Members(r) = Members(m) \cup (iv.lo .. iv.hi)
    <3>1. \A v : v \in old.lo .. old.hi => v \in Members(m)
      BY <1>1, <2>1, MemberOf
    <3>2. ASSUME NEW v PROVE v \in old.lo .. h <=> v \in old.lo .. old.hi \/ v \in iv.lo .. iv.hi
      <4> DEFINE a == old.lo
                 b == old.hi
                 c == iv.lo
                 d == iv.hi
      <4>1. a \in Int /\ b \in Int /\ c \in Int /\ d \in Int /\ h \in Int /\ a <= b /\ a <= c /\ c <= d /\ c <= b + 1
            /\ b <= h /\ d <= h /\ (h = d \/ h = b)
        BY <1>2, <1>3, <2>1, <2>3, <2>6
      <4> HIDE DEF a, b, c, d
      <4>2. v \in a .. h <=> v \in a .. b \/ v \in c .. d
        BY <4>1, SMT
      <4> QED BY <4>2 DEF a, b, c, d
    <3> QED BY <2>5, <3>1, <3>2
  <2>7. Last(r).lo = old.lo
    BY <2>5
  <2> QED BY <1>3, <2>5, <2>6, <2>7 DEF r
<1>4. CASE ~(m # <<>> /\ iv.lo <= Last(m).hi + 1)
  <2>1. r = Append(m, iv)
    BY <1>4 DEF Merge
  <2>2. m # <<>> => Last(m).hi + 1 < iv.lo
    <3> SUFFICES ASSUME m # <<>> PROVE old.hi + 1 < iv.lo
      OBVIOUS
    <3>1. ~(iv.lo <= old.hi + 1)
      BY <1>4
    <3>2. old.hi \in Int
      BY <1>1, LastIsGreatest
    <3> QED BY <1>2, <3>1, <3>2, SMT
  <2>3. Gapped(r) /\ r # <<>> /\ Last(r) = iv /\ Members(r) = Members(m) \cup (iv.lo .. iv.hi)
    BY <2>1, <2>2, Appended
  <2>4. iv.lo <= iv.lo
    BY <1>2, SMT
  <2> QED BY <2>3, <2>4
<1> QED BY <1>3, <1>4

\* Merging all of them: maximal intervals of the same members.
LEMMA MergedRepresents ==
  ASSUME NEW s \in IntervalsByLow
  PROVE  Represents(FoldLeft(Merge, <<>>, s), Members(s))
<1> DEFINE n == Len(s)
           V == {ivs \in Intervals : Gapped(ivs)}
           step == [vk \in V \X (1 .. n) |-> Merge(vk[1], s[vk[2]])]
           Is(h) == h = [t \in SUBSET DOMAIN s |-> IF t = {} THEN <<>>
                           ELSE LET x == Max(t) IN Merge(h[t \ {x}], s[x])]
<1>1. /\ s \in Intervals /\ n \in Nat /\ DOMAIN s = 1 .. n
      /\ \A k \in 1 .. n : s[k] \in Interval /\ s[k].lo <= s[k].hi /\ \A j \in 1 .. n : j < k => s[j].lo <= s[k].lo
  BY IntervalType DEF IntervalsByLow, ByLow
<1> HIDE DEF n
<1>2. <<>> \in V /\ Members(<<>>) = {} /\ Gapped(<<>>)
  BY EmptyRepresents DEF Represents, Gapped
<1>3. ASSUME NEW v, Gapped(v), NEW k \in 1 .. n
      PROVE  /\ Merge(v, s[k]) \in V /\ Gapped(Merge(v, s[k])) /\ Merge(v, s[k]) # <<>>
             /\ (v # <<>> => Last(v).lo <= s[k].lo) =>
                    /\ Members(Merge(v, s[k])) = Members(v) \cup (s[k].lo .. s[k].hi)
                    /\ Last(Merge(v, s[k])).lo <= s[k].lo
  <2>1. s[k] \in Interval /\ s[k].lo <= s[k].hi
    BY <1>1
  <2>2. \A r : Gapped(r) => r \in Intervals
    BY DEF Gapped
  <2> QED BY <1>3, <2>1, <2>2, MergeStep
<1>4. PICK g \in [SUBSET (1 .. n) -> V] : Folds(g, n, <<>>, step)
  <2>1. step \in [V \X (1 .. n) -> V]
    BY <1>3
  <2> HIDE DEF step, V
  <2> QED BY <1>1, <1>2, <2>1, FoldExists
<1> HIDE DEF V
<1>5. Is(g)
  <2>1. ASSUME NEW t \in SUBSET (1 .. n), t # {}
        PROVE  g[t] = Merge(g[t \ {Max(t)}], s[Max(t)])
    <3>1. Max(t) \in 1 .. n /\ t \ {Max(t)} \in SUBSET (1 .. n)
      BY <1>1, <2>1, MaxPosition
    <3>2. g[t] = step[<<g[t \ {Max(t)}], Max(t)>>]
      BY <1>4, <2>1 DEF Folds
    <3> QED BY <3>1, <3>2
  <2>2. g[{}] = <<>>
    BY <1>4 DEF Folds
  <2> QED BY <1>1, <1>4, <2>1, <2>2
<1> DEFINE h == CHOOSE q : Is(q)
           out == FoldLeft(Merge, <<>>, s)
<1>6. Is(h)
  <2> HIDE DEF Is
  <2> QED BY <1>5
<1>7. out = h[1 .. n]
  <2>1. out = h[DOMAIN s]
    BY Zenon DEF FoldLeft, MapThenFoldSet
  <2> QED BY <1>1, <2>1
<1> HIDE DEF h, out
<1>8. h[1 .. 0] = <<>>
  <2>1. 1 .. 0 = {} /\ {} \in SUBSET (1 .. n)
    BY SMT
  <2> QED BY <1>1, <1>6, <2>1
<1>9. ASSUME NEW k \in 1 .. n PROVE h[1 .. k] = Merge(h[1 .. k - 1], s[k])
  <2>1. 1 .. k \in SUBSET (1 .. n) /\ 1 .. k # {} /\ Max(1 .. k) = k /\ (1 .. k) \ {k} = 1 .. k - 1
    BY <1>1, Positions
  <2> QED BY <1>1, <1>6, <2>1
<1> DEFINE Good(k) == /\ Gapped(h[1 .. k]) /\ Members(h[1 .. k]) = MembersUpTo(s, k)
                      /\ h[1 .. k] # <<>> => k \in 1 .. n /\ Last(h[1 .. k]).lo <= s[k].lo
           T == {k \in Nat : k <= n => Good(k)}
<1>10. 0 \in T
  BY <1>1, <1>2, <1>8, MembersGrow
<1>11. ASSUME NEW k \in Nat, k \in T PROVE k + 1 \in T
  <2> SUFFICES ASSUME k + 1 <= n PROVE Good(k + 1)
    OBVIOUS
  <2> DEFINE old == h[1 .. k]
             new == h[1 .. k + 1]
  <2>1. k + 1 \in 1 .. n /\ (k + 1) - 1 = k /\ k <= n /\ k < k + 1
    BY <1>1, SMT
  <2>2. Gapped(old) /\ Members(old) = MembersUpTo(s, k) /\ (old # <<>> => k \in 1 .. n /\ Last(old).lo <= s[k].lo)
    BY <1>11, <2>1
  <2>3. new = Merge(old, s[k + 1])
    BY <1>9, <2>1
  <2>4. MembersUpTo(s, k + 1) = MembersUpTo(s, k) \cup (s[k + 1].lo .. s[k + 1].hi)
    BY <1>1, <2>1, MembersGrow DEF n
  <2>5. old # <<>> => Last(old).lo <= s[k + 1].lo
    <3> SUFFICES ASSUME old # <<>> PROVE Last(old).lo <= s[k + 1].lo
      OBVIOUS
    <3>1. old \in IntervalsInOrder
      BY <2>2, GappedInOrder
    <3>2. Last(old).lo \in Int
      BY <3>1, LastIsGreatest
    <3>3. k \in 1 .. n /\ Last(old).lo <= s[k].lo
      BY <2>2
    <3>4. s[k].lo \in Int /\ s[k + 1].lo \in Int /\ s[k].lo <= s[k + 1].lo
      BY <1>1, <2>1, <3>3 DEF Interval
    <3> HIDE DEF old
    <3> QED BY <3>2, <3>3, <3>4, SMT
  <2> HIDE DEF old, new
  <2>6. Gapped(new) /\ Members(new) = Members(old) \cup (s[k + 1].lo .. s[k + 1].hi) /\ Last(new).lo <= s[k + 1].lo
    BY <1>3, <2>1, <2>2, <2>3, <2>5
  <2> QED BY <2>1, <2>2, <2>4, <2>6 DEF new
<1>12. n \in T
  <2> HIDE DEF T
  <2> QED BY <1>1, <1>10, <1>11, NatSetInduction
<1>13. Gapped(h[1 .. n]) /\ Members(h[1 .. n]) = Members(s)
  <2>1. n <= n
    BY <1>1, SMT
  <2> QED BY <1>1, <1>12, <2>1, MembersGrow DEF n
<1> QED BY <1>7, <1>13 DEF Represents, out

\* Some intervals after others.
LEMMA JoinedIntervals ==
  ASSUME NEW x \in SomeIntervals, NEW y \in SomeIntervals
  PROVE  x \o y \in SomeIntervals /\ Members(x \o y) = Members(x) \cup Members(y)
<1> DEFINE r == x \o y
           m == Len(x)
           n == Len(y)
<1>1. /\ x \in Seq(Interval) /\ y \in Seq(Interval) /\ m \in Nat /\ n \in Nat
      /\ DOMAIN x = 1 .. m /\ DOMAIN y = 1 .. n
      /\ (\A k \in 1 .. m : x[k].lo <= x[k].hi) /\ (\A k \in 1 .. n : y[k].lo <= y[k].hi)
  BY IntervalType DEF SomeIntervals, Intervals, Interval
<1>2. r \in Seq(Interval) /\ Len(r) = m + n /\ \A k \in 1 .. m + n : r[k] = IF k <= m THEN x[k] ELSE y[k - m]
  <2> HIDE DEF Interval
  <2> QED BY <1>1, ConcatProperties
<1> HIDE DEF r, m, n
<1>3. ASSUME NEW k \in 1 .. m + n
      PROVE  (\E j \in 1 .. m : r[k] = x[j]) \/ (\E j \in 1 .. n : r[k] = y[j])
  <2>1. (k <= m => k \in 1 .. m) /\ (~(k <= m) => k - m \in 1 .. n)
    BY <1>1, SMT
  <2> QED BY <1>2, <2>1
<1>4. ASSUME NEW j \in 1 .. m PROVE \E k \in 1 .. m + n : r[k] = x[j]
  <2>1. j \in 1 .. m + n /\ j <= m
    BY <1>1, SMT
  <2> QED BY <1>2, <2>1
<1>5. ASSUME NEW j \in 1 .. n PROVE \E k \in 1 .. m + n : r[k] = y[j]
  <2>1. j + m \in 1 .. m + n /\ ~(j + m <= m) /\ (j + m) - m = j
    BY <1>1, SMT
  <2> QED BY <1>2, <2>1
<1>6. r \in Intervals /\ DOMAIN r = 1 .. m + n
  <2>1. r \in Intervals
    BY <1>2 DEF Intervals, Interval
  <2> QED BY <1>2, <2>1, IntervalType
<1>7. r \in SomeIntervals
  BY <1>1, <1>2, <1>3, <1>6 DEF SomeIntervals
<1>8. /\ \A v : v \in Members(r) <=> \E k \in 1 .. m + n : v \in r[k].lo .. r[k].hi
      /\ \A v : v \in Members(x) <=> \E k \in 1 .. m : v \in x[k].lo .. x[k].hi
      /\ \A v : v \in Members(y) <=> \E k \in 1 .. n : v \in y[k].lo .. y[k].hi
  BY <1>1, <1>6 DEF Members
<1>9. \A v : v \in Members(r) => v \in Members(x) \/ v \in Members(y)
  BY <1>3, <1>8
<1>10. \A v : v \in Members(x) \/ v \in Members(y) => v \in Members(r)
  BY <1>4, <1>5, <1>8
<1> QED BY <1>7, <1>9, <1>10 DEF r

\* Sorting and merging whatever intervals: the maximal ones of their members.
LEMMA NormalForm ==
  ASSUME NEW s \in SomeIntervals
  PROVE  Represents(FoldLeft(Merge, <<>>, Sorted(s)), Members(s))
BY SortedByLow, MergedRepresents

\* The union of two interval sets.
THEOREM UnionOfSets ==
  ASSUME NEW x, Gapped(x), NEW y, Gapped(y)
  PROVE  Represents(Union(x, y), Members(x) \cup Members(y))
<1>1. x \in SomeIntervals /\ y \in SomeIntervals
  BY DEF Gapped, SomeIntervals
<1>2. Members(<<>>) = {}
  BY EmptyRepresents DEF Represents
<1>3. CASE x = <<>>
  <2>1. Union(x, y) = y /\ Members(x) \cup Members(y) = Members(y)
    BY <1>2, <1>3 DEF Union
  <2> QED BY <2>1 DEF Represents
<1>4. CASE x # <<>> /\ y = <<>>
  <2>1. Union(x, y) = x /\ Members(x) \cup Members(y) = Members(x)
    BY <1>2, <1>4 DEF Union
  <2> QED BY <2>1 DEF Represents
<1>5. CASE x # <<>> /\ y # <<>>
  <2>1. Union(x, y) = FoldLeft(Merge, <<>>, Sorted(x \o y))
    BY <1>5 DEF Union
  <2>2. x \o y \in SomeIntervals /\ Members(x \o y) = Members(x) \cup Members(y)
    BY <1>1, JoinedIntervals
  <2> QED BY <2>1, <2>2, NormalForm
<1> QED BY <1>3, <1>4, <1>5

--------------------------------------------------------------------------------
(* Interval sets: every set has one form. *)


\* Between any two intervals with gaps there is a gap.
LEMMA GapBetween ==
  ASSUME NEW ivs, Gapped(ivs), NEW k \in 1 .. Len(ivs), NEW j \in 1 .. Len(ivs), j < k
  PROVE  ivs[j].hi + 1 < ivs[k].lo
<1>1. ivs \in IntervalsInOrder
  BY GappedInOrder
<1>2. Len(ivs) \in Nat
  BY <1>1, Layout
<1>3. k - 1 \in 1 .. Len(ivs) /\ k > 1 /\ (j = k - 1 \/ j < k - 1)
  BY <1>2, SMT
<1>4. ivs[k - 1].hi + 1 < ivs[k].lo
  BY <1>3 DEF Gapped
<1>5. CASE j = k - 1
  BY <1>4, <1>5
<1>6. CASE j < k - 1
  <2>1. ivs[j].hi < ivs[k - 1].lo /\ ivs[k - 1].lo <= ivs[k - 1].hi
    BY <1>1, <1>3, <1>6, Layout
  <2>2. ivs[j].hi \in Int /\ ivs[k - 1].lo \in Int /\ ivs[k - 1].hi \in Int /\ ivs[k].lo \in Int
    BY <1>1, <1>3, Layout
  <2> QED BY <1>4, <2>1, <2>2, SMT
<1> QED BY <1>3, <1>5, <1>6

\* What follows an interval is no member.
LEMMA GapAfter ==
  ASSUME NEW ivs, Gapped(ivs), NEW k \in 1 .. Len(ivs)
  PROVE  ivs[k].hi + 1 \notin Members(ivs)
<1>1. ivs \in IntervalsInOrder
  BY GappedInOrder
<1>2. ivs[k].lo \in Int /\ ivs[k].hi \in Int /\ k \in Int /\ Len(ivs) \in Nat
  BY <1>1, Layout
<1> SUFFICES ASSUME NEW j \in 1 .. Len(ivs), ivs[k].hi + 1 \in ivs[j].lo .. ivs[j].hi PROVE FALSE
  BY <1>1, MemberOf
<1>3. ivs[j].lo \in Int /\ ivs[j].hi \in Int /\ j \in Int
  BY <1>1, Layout
<1>4. ivs[j].lo <= ivs[k].hi + 1 /\ ivs[k].hi + 1 <= ivs[j].hi
  BY <1>2, <1>3, SMT
<1>5. CASE j = k
  BY <1>2, <1>4, <1>5, SMT
<1>6. CASE j < k
  <2>1. ivs[j].hi < ivs[k].lo /\ ivs[k].lo <= ivs[k].hi
    BY <1>1, <1>6, Layout
  <2> QED BY <1>2, <1>3, <1>4, <2>1, SMT
<1>7. CASE k < j
  <2>1. ivs[k].hi + 1 < ivs[j].lo
    BY <1>7, GapBetween
  <2> QED BY <1>2, <1>3, <1>4, <2>1, SMT
<1> QED BY <1>2, <1>3, <1>5, <1>6, <1>7, SMT

\* Where the first k - 1 intervals agree, the next of one begins no lower than that of the other.
LEMMA NextBegins ==
  ASSUME NEW a, Gapped(a), NEW b, Gapped(b), Members(a) \subseteq Members(b),
         NEW k \in 1 .. Len(a), \A j \in 1 .. k - 1 : j \in 1 .. Len(b) /\ a[j] = b[j]
  PROVE  k \in 1 .. Len(b) /\ b[k].lo <= a[k].lo
<1>1. a \in IntervalsInOrder /\ b \in IntervalsInOrder
  BY GappedInOrder
<1>2. /\ Len(a) \in Nat /\ Len(b) \in Nat /\ k \in Int
      /\ a[k].lo \in Int /\ a[k].hi \in Int /\ a[k].lo <= a[k].hi
  BY <1>1, Layout
<1>3. a[k].lo \in Members(b)
  <2>1. a[k].lo \in a[k].lo .. a[k].hi
    BY <1>2, SMT
  <2> QED BY <1>1, <2>1, MemberOf
<1>4. PICK j \in 1 .. Len(b) : a[k].lo \in b[j].lo .. b[j].hi
  BY <1>1, <1>3, MemberOf
<1>5. /\ j \in Int /\ b[j].lo \in Int /\ b[j].hi \in Int
      /\ b[j].lo <= a[k].lo /\ a[k].lo <= b[j].hi
  <2>1. j \in Int /\ b[j].lo \in Int /\ b[j].hi \in Int
    BY <1>1, Layout
  <2> QED BY <1>2, <1>4, <2>1, SMT
<1>6. ~(j < k)
  <2> SUFFICES ASSUME j < k PROVE FALSE
    OBVIOUS
  <2>1. j \in 1 .. k - 1
    BY <1>2, <1>5, SMT
  <2>2. a[j] = b[j] /\ j \in 1 .. Len(a)
    BY <1>2, <2>1, SMT
  <2>3. a[j].hi < a[k].lo
    BY <1>1, <2>2, Layout
  <2> QED BY <1>2, <1>5, <2>2, <2>3, SMT
<1>7. k \in 1 .. Len(b)
  BY <1>2, <1>5, <1>6, SMT
<1>8. b[k].lo <= b[j].lo
  <2>1. b[k].lo \in Int /\ b[k].hi \in Int /\ b[k].lo <= b[k].hi
    BY <1>1, <1>7, Layout
  <2>2. CASE k < j
    <3>1. b[k].hi < b[j].lo
      BY <1>1, <1>7, <2>2, Layout
    <3> QED BY <1>5, <2>1, <3>1, SMT
  <2>3. CASE k = j
    BY <2>1, <2>3, SMT
  <2> QED BY <1>2, <1>5, <1>6, <2>2, <2>3, SMT
<1>9. b[k].lo \in Int
  BY <1>1, <1>7, Layout
<1> QED BY <1>2, <1>5, <1>7, <1>8, <1>9, SMT

\* An interval that begins like another does not end before it.
LEMMA NextEnds ==
  ASSUME NEW a, Gapped(a), NEW b, Gapped(b), Members(b) \subseteq Members(a),
         NEW k \in 1 .. Len(a), k \in 1 .. Len(b), a[k].lo = b[k].lo
  PROVE  b[k].hi <= a[k].hi
<1>1. a \in IntervalsInOrder /\ b \in IntervalsInOrder
  BY GappedInOrder
<1>2. a[k].lo \in Int /\ a[k].hi \in Int /\ b[k].hi \in Int /\ a[k].lo <= a[k].hi
  BY <1>1, Layout
<1> SUFFICES ASSUME a[k].hi < b[k].hi PROVE FALSE
  BY <1>2, SMT
<1>3. a[k].hi + 1 \in a[k].lo .. b[k].hi
  BY <1>2, SMT
<1>4. a[k].hi + 1 \in Members(a)
  BY <1>1, <1>3, MemberOf
<1> QED BY <1>4, GapAfter

\* Of two with the same members, the one goes on as the other does.
LEMMA SameForm ==
  ASSUME NEW a, Gapped(a), NEW b, Gapped(b), Members(a) = Members(b)
  PROVE  \A k \in 1 .. Len(a) : k \in 1 .. Len(b) /\ a[k] = b[k]
<1>1. a \in IntervalsInOrder /\ b \in IntervalsInOrder
  BY GappedInOrder
<1>2. Len(a) \in Nat /\ Len(b) \in Nat
  BY <1>1, Layout
<1> DEFINE T == {n \in Nat : n <= Len(a) => \A k \in 1 .. n : k \in 1 .. Len(b) /\ a[k] = b[k]}
<1>3. 0 \in T
  BY SMT
<1>4. ASSUME NEW n \in Nat, n \in T PROVE n + 1 \in T
  <2> SUFFICES ASSUME n + 1 <= Len(a) PROVE \A k \in 1 .. n + 1 : k \in 1 .. Len(b) /\ a[k] = b[k]
    OBVIOUS
  <2> DEFINE m == n + 1
  <2>1. m \in 1 .. Len(a) /\ m - 1 = n /\ n <= Len(a)
    BY <1>2, SMT
  <2>2. \A j \in 1 .. m - 1 : j \in 1 .. Len(b) /\ a[j] = b[j]
    BY <1>4, <2>1
  <2>3. \A k \in 1 .. n + 1 : k \in 1 .. m - 1 \/ k = m
    BY SMT
  <2> HIDE DEF m
  <2>4. m \in 1 .. Len(b) /\ b[m].lo <= a[m].lo
    BY <2>1, <2>2, NextBegins
  <2>5. a[m].lo <= b[m].lo
    <3>1. \A j \in 1 .. m - 1 : j \in 1 .. Len(a) /\ b[j] = a[j]
      <4>1. \A j \in 1 .. m - 1 : j \in 1 .. Len(a)
        BY <1>2, <2>1, SMT
      <4> QED BY <2>2, <4>1
    <3> QED BY <2>4, <3>1, NextBegins
  <2>6. /\ a[m].lo \in Int /\ b[m].lo \in Int /\ a[m].hi \in Int /\ b[m].hi \in Int
        /\ a[m] \in Interval /\ b[m] \in Interval
    <3>1. a \in Intervals /\ b \in Intervals
      BY DEF Gapped
    <3> QED BY <2>1, <2>4, <3>1, IntervalType
  <2>7. a[m].lo = b[m].lo
    BY <2>4, <2>5, <2>6, SMT
  <2>8. a[m].hi <= b[m].hi /\ b[m].hi <= a[m].hi
    BY <2>1, <2>4, <2>7, NextEnds
  <2>9. a[m].hi = b[m].hi
    BY <2>6, <2>8, SMT
  <2>10. a[m] = b[m]
    BY <2>6, <2>7, <2>9 DEF Interval
  <2> QED BY <2>2, <2>3, <2>4, <2>10
<1>5. Len(a) \in T
  <2> HIDE DEF T
  <2> QED BY <1>2, <1>3, <1>4, NatSetInduction
<1>6. Len(a) <= Len(a)
  BY <1>2, SMT
<1> QED BY <1>5, <1>6

\* What represents a set is the only such sequence.
THEOREM FormIsUnique ==
  ASSUME NEW S, NEW a, Represents(a, S), NEW b, Represents(b, S)
  PROVE  a = b
<1>1. Gapped(a) /\ Gapped(b) /\ Members(a) = Members(b)
  BY DEF Represents
<1>2. a \in Seq(Interval) /\ b \in Seq(Interval)
  BY <1>1 DEF Gapped, Intervals, Interval
<1>3. /\ \A k \in 1 .. Len(a) : k \in 1 .. Len(b) /\ a[k] = b[k]
      /\ \A k \in 1 .. Len(b) : k \in 1 .. Len(a)
  BY <1>1, SameForm
<1>4. Len(a) \in Nat /\ Len(b) \in Nat
  <2> HIDE DEF Interval
  <2> QED BY <1>2, LenProperties
<1>5. Len(a) = Len(b)
  <2>1. Len(a) \in 1 .. Len(a) \/ Len(a) = 0
    BY <1>4, SMT
  <2>2. Len(b) \in 1 .. Len(b) \/ Len(b) = 0
    BY <1>4, SMT
  <2>3. Len(a) = 0 \/ Len(a) \in 1 .. Len(b)
    BY <1>3, <2>1
  <2>4. Len(b) = 0 \/ Len(b) \in 1 .. Len(a)
    BY <1>3, <2>2
  <2> QED BY <1>4, <2>3, <2>4, SMT
<1> QED
  <2> HIDE DEF Interval
  <2> QED BY <1>2, <1>3, <1>5, SeqEqual

\* from_string: the characters, whatever their order and number.
THEOREM FromCharacters ==
  ASSUME NEW n \in Nat, NEW cps \in [1 .. n -> Int]
  PROVE  Represents(OfChars(cps), {cps[i] : i \in DOMAIN cps})
<1> DEFINE chars == {cps[i] : i \in DOMAIN cps}
           s == [k \in DOMAIN cps |-> [lo |-> cps[k], hi |-> cps[k]]]
           single == Sorted(s)
<1>1. s \in [1 .. n -> Interval] /\ \A k \in 1 .. n : s[k].lo = cps[k] /\ s[k].hi = cps[k]
  BY DEF Interval
<1>2. s \in Seq(Interval) /\ Len(s) = n
  <2> HIDE DEF s, Interval
  <2> QED BY <1>1, FunctionIsSeq
<1>3. s \in SomeIntervals
  <2>1. s \in Intervals
    BY <1>2 DEF Intervals, Interval
  <2>2. \A k \in 1 .. n : s[k].lo <= s[k].hi
    <3>1. \A k \in 1 .. n : cps[k] \in Int /\ cps[k] <= cps[k]
      BY SMT
    <3> QED BY <1>1, <3>1
  <2> QED BY <1>2, <2>1, <2>2 DEF SomeIntervals
<1>4. Members(s) = chars
  <2>1. \A k \in 1 .. n : s[k].lo .. s[k].hi = {cps[k]}
    <3>1. \A v \in Int : v .. v = {v}
      BY SMT
    <3> QED BY <1>1, <3>1
  <2>2. DOMAIN s = 1 .. n /\ DOMAIN cps = 1 .. n
    OBVIOUS
  <2> HIDE DEF s
  <2>3. \A v : v \in Members(s) <=> \E k \in 1 .. n : v \in {cps[k]}
    BY <2>1, <2>2 DEF Members
  <2> QED BY <2>2, <2>3
<1>5. OfChars(cps) = Union(single, single)
  BY DEF OfChars
<1> HIDE DEF s
<1>6. single \in IntervalsByLow /\ Members(single) = chars
  BY <1>3, <1>4, SortedByLow
<1>7. single \in SomeIntervals
  BY <1>6 DEF IntervalsByLow, ByLow, SomeIntervals
<1> HIDE DEF single, chars
<1>8. CASE single = <<>>
  <2>1. Union(single, single) = <<>>
    BY <1>8 DEF Union
  <2>2. Represents(<<>>, chars)
    BY <1>6, <1>8, EmptyRepresents DEF Represents
  <2> QED BY <1>5, <2>1, <2>2 DEF chars
<1>9. CASE single # <<>>
  <2>1. Union(single, single) = FoldLeft(Merge, <<>>, Sorted(single \o single))
    BY <1>9 DEF Union
  <2>2. single \o single \in SomeIntervals /\ Members(single \o single) = chars
    BY <1>6, <1>7, JoinedIntervals
  <2> QED BY <1>5, <2>1, <2>2, NormalForm DEF chars
<1> QED BY <1>8, <1>9

--------------------------------------------------------------------------------
(* Interval sets: difference and intersection, with two pointers. *)


\* The first of some intervals and the others.
LEMMA HeadAndTail ==
  ASSUME NEW x \in Intervals, x # <<>>
  PROVE  /\ Head(x) \in Interval /\ Head(x) = x[1] /\ Tail(x) \in Intervals
         /\ Len(x) \in Nat /\ Len(x) >= 1 /\ Len(Tail(x)) = Len(x) - 1
         /\ \A k \in 1 .. Len(x) - 1 : Tail(x)[k] = x[k + 1]
<1>1. x \in Seq(Interval)
  BY DEF Intervals, Interval
<1>2. /\ Head(x) \in Interval /\ Head(x) = x[1] /\ Tail(x) \in Seq(Interval)
      /\ Len(x) \in Nat /\ Len(x) >= 1 /\ Len(Tail(x)) = Len(x) - 1
      /\ \A k \in 1 .. Len(x) - 1 : Tail(x)[k] = x[k + 1]
  <2> HIDE DEF Interval
  <2>1. Head(x) \in Interval /\ Tail(x) \in Seq(Interval)
    BY <1>1, HeadTailProperties
  <2>2. Len(x) \in Nat /\ Len(x) # 0
    BY <1>1, EmptySeq, LenProperties
  <2>3. Head(x) = x[1]
    BY <1>1, SMT
  <2>4. Len(Tail(x)) = Len(x) - 1
    BY <1>1, HeadTailProperties
  <2>5. \A k \in 1 .. Len(x) - 1 : Tail(x)[k] = x[k + 1]
    BY <1>1, <2>2, <2>4, SMT
  <2> QED BY <2>1, <2>2, <2>3, <2>4, <2>5, SMT
<1> QED BY <1>2 DEF Intervals, Interval

\* Of intervals in order, the others lie above the first.
LEMMA TailAbove ==
  ASSUME NEW x \in IntervalsInOrder, x # <<>>
  PROVE  /\ Head(x) \in Interval /\ Head(x).lo \in Int /\ Head(x).hi \in Int /\ Head(x).lo <= Head(x).hi
         /\ Tail(x) \in IntervalsInOrder /\ Len(x) \in Nat /\ Len(Tail(x)) = Len(x) - 1 /\ Len(x) >= 1
         /\ Members(x) = (Head(x).lo .. Head(x).hi) \cup Members(Tail(x))
         /\ \A v \in Members(Tail(x)) : v \in Int /\ Head(x).hi < v
<1> DEFINE n == Len(x)
           t == Tail(x)
<1>1. x \in Intervals
  BY DEF IntervalsInOrder
<1>2. /\ Head(x) \in Interval /\ Head(x) = x[1] /\ t \in Intervals
      /\ n \in Nat /\ n >= 1 /\ Len(t) = n - 1
      /\ \A k \in 1 .. n - 1 : t[k] = x[k + 1]
  BY <1>1, HeadAndTail
<1>3. 1 \in 1 .. n /\ (\A k \in 1 .. n - 1 : k + 1 \in 1 .. n /\ 1 < k + 1)
      /\ \A k \in 1 .. n : k = 1 \/ (k - 1 \in 1 .. n - 1 /\ (k - 1) + 1 = k)
  BY <1>2, SMT
<1>4. /\ \A k \in 1 .. n : /\ x[k].lo \in Int /\ x[k].hi \in Int /\ x[k].lo <= x[k].hi
                           /\ \A j \in 1 .. n : j < k => x[j].hi < x[k].lo
  BY Layout
<1> HIDE DEF n, t
<1>5. ASSUME NEW k \in 1 .. n - 1 PROVE t[k].lo <= t[k].hi /\ (k > 1 => t[k - 1].hi < t[k].lo)
  <2>1. t[k] = x[k + 1] /\ t[k].lo <= t[k].hi
    BY <1>2, <1>3, <1>4
  <2>2. ASSUME k > 1 PROVE t[k - 1].hi < t[k].lo
    <3>1. k - 1 \in 1 .. n - 1 /\ (k - 1) + 1 = k /\ k \in 1 .. n /\ k + 1 \in 1 .. n /\ k < k + 1
      BY <1>2, <2>2, SMT
    <3>2. t[k - 1] = x[k]
      BY <1>2, <3>1
    <3> QED BY <1>4, <2>1, <3>1, <3>2
  <2> QED BY <2>1, <2>2
<1>6. t \in IntervalsInOrder
  BY <1>2, <1>5 DEF IntervalsInOrder, InOrder
<1>7. /\ \A v : v \in Members(x) <=> \E k \in 1 .. n : v \in x[k].lo .. x[k].hi
      /\ \A v : v \in Members(t) <=> \E k \in 1 .. n - 1 : v \in t[k].lo .. t[k].hi
  BY <1>2, <1>6, MemberOf DEF n
<1>8. \A v : v \in Members(x) <=> v \in Head(x).lo .. Head(x).hi \/ v \in Members(t)
  <2>1. \A v : v \in Members(x) => v \in Head(x).lo .. Head(x).hi \/ v \in Members(t)
    <3> SUFFICES ASSUME NEW v, NEW k \in 1 .. n, v \in x[k].lo .. x[k].hi
                 PROVE  v \in Head(x).lo .. Head(x).hi \/ v \in Members(t)
      BY <1>7
    <3>1. CASE k = 1
      BY <1>2, <3>1
    <3>2. CASE k # 1
      <4>1. k - 1 \in 1 .. n - 1 /\ (k - 1) + 1 = k
        BY <1>3, <3>2
      <4>2. t[k - 1] = x[k]
        BY <1>2, <4>1
      <4> QED BY <1>7, <4>1, <4>2
    <3> QED BY <3>1, <3>2
  <2>2. \A v : v \in Head(x).lo .. Head(x).hi \/ v \in Members(t) => v \in Members(x)
    BY <1>2, <1>3, <1>7
  <2> QED BY <2>1, <2>2
<1>9. ASSUME NEW v \in Members(t) PROVE v \in Int /\ Head(x).hi < v
  <2>1. PICK k \in 1 .. n - 1 : v \in t[k].lo .. t[k].hi
    BY <1>7
  <2> DEFINE a == x[1].hi
             b == x[k + 1].lo
             c == x[k + 1].hi
  <2>2. a \in Int /\ b \in Int /\ c \in Int /\ a < b /\ v \in b .. c
    BY <1>2, <1>3, <1>4, <2>1
  <2> HIDE DEF a, b, c
  <2>3. v \in Int /\ a < v
    BY <2>2, SMT
  <2> QED BY <1>2, <2>3 DEF a
<1> QED BY <1>2, <1>3, <1>4, <1>6, <1>8, <1>9 DEF n, t

\* An interval put before others.
LEMMA Prepended ==
  ASSUME NEW r \in IntervalsInOrder, NEW iv \in Interval, iv.lo <= iv.hi, \A v \in Members(r) : iv.hi < v
  PROVE  /\ <<iv>> \o r \in IntervalsInOrder
         /\ Members(<<iv>> \o r) = (iv.lo .. iv.hi) \cup Members(r)
<1> DEFINE n == Len(r)
           q == <<iv>> \o r
<1>1. r \in Seq(Interval) /\ r \in Intervals
  BY DEF IntervalsInOrder, Intervals, Interval
<1>2. n \in Nat /\ DOMAIN r = 1 .. n
      /\ \A k \in 1 .. n : r[k].lo \in Int /\ r[k].hi \in Int /\ r[k].lo <= r[k].hi
                           /\ \A j \in 1 .. n : j < k => r[j].hi < r[k].lo
  BY Layout
<1>3. q \in Seq(Interval) /\ Len(q) = n + 1 /\ q[1] = iv /\ \A k \in 1 .. n : q[k + 1] = r[k]
  <2> HIDE DEF Interval
  <2>1. <<iv>> \in Seq(Interval) /\ Len(<<iv>>) = 1 /\ <<iv>>[1] = iv
    BY SMT
  <2>2. q \in Seq(Interval) /\ Len(q) = 1 + n /\ \A k \in 1 .. 1 + n : q[k] = IF k <= 1 THEN <<iv>>[k] ELSE r[k - 1]
    BY <1>1, <2>1, ConcatProperties
  <2>3. 1 + n = n + 1 /\ 1 \in 1 .. 1 + n /\ 1 <= 1
        /\ \A k \in 1 .. n : k + 1 \in 1 .. 1 + n /\ ~(k + 1 <= 1) /\ (k + 1) - 1 = k
    BY <1>2, SMT
  <2> HIDE DEF q
  <2> QED BY <2>1, <2>2, <2>3
<1> HIDE DEF q, n
<1>4. q \in Intervals
  BY <1>3 DEF Intervals, Interval
<1>5. ASSUME NEW k \in 1 .. n + 1 PROVE k = 1 \/ (k - 1 \in 1 .. n /\ (k - 1) + 1 = k /\ q[k] = r[k - 1])
  <2>1. k = 1 \/ (k - 1 \in 1 .. n /\ (k - 1) + 1 = k)
    BY <1>2, SMT
  <2> QED BY <1>3, <2>1
<1>6. ASSUME NEW k \in 1 .. n + 1 PROVE q[k].lo <= q[k].hi /\ (k > 1 => q[k - 1].hi < q[k].lo)
  <2>1. q[k].lo <= q[k].hi
    BY <1>2, <1>3, <1>5
  <2>2. ASSUME k > 1 PROVE q[k - 1].hi < q[k].lo
    <3>1. k # 1 /\ (k - 1 = 1 \/ (k - 1 \in 1 .. n + 1 /\ (k - 1) - 1 < k - 1 /\ k - 1 # 1))
      BY <1>2, <2>2, SMT
    <3>2. k - 1 \in 1 .. n /\ q[k] = r[k - 1]
      BY <1>5, <3>1
    <3>3. CASE k - 1 = 1
      <4>1. r[1].lo \in r[1].lo .. r[1].hi /\ 1 \in 1 .. n
        BY <1>2, <3>2, <3>3, SMT
      <4>2. r[1].lo \in Members(r)
        BY <1>2, <4>1 DEF Members
      <4> QED BY <1>3, <3>2, <3>3, <4>2
    <3>4. CASE k - 1 # 1
      <4>1. (k - 1) - 1 \in 1 .. n /\ q[k - 1] = r[(k - 1) - 1] /\ (k - 1) - 1 < k - 1
        BY <1>5, <3>1, <3>4
      <4> QED BY <1>2, <3>2, <4>1
    <3> QED BY <3>3, <3>4
  <2> QED BY <2>1, <2>2
<1>7. q \in IntervalsInOrder
  BY <1>3, <1>4, <1>6 DEF IntervalsInOrder, InOrder
<1>8. \A v : v \in Members(q) <=> v \in iv.lo .. iv.hi \/ v \in Members(r)
  <2>1. \A v : v \in Members(q) <=> \E k \in 1 .. n + 1 : v \in q[k].lo .. q[k].hi
    BY <1>3, <1>7, MemberOf
  <2>2. \A v : v \in Members(r) <=> \E k \in 1 .. n : v \in r[k].lo .. r[k].hi
    BY <1>2 DEF Members
  <2>3. \A k \in 1 .. n : k + 1 \in 1 .. n + 1
    BY <1>2, SMT
  <2>4. 1 \in 1 .. n + 1
    BY <1>2, SMT
  <2>5. \A v : v \in iv.lo .. iv.hi \/ v \in Members(r) => v \in Members(q)
    BY <1>3, <2>1, <2>2, <2>3, <2>4
  <2>6. \A v : v \in Members(q) => v \in iv.lo .. iv.hi \/ v \in Members(r)
    BY <1>3, <1>5, <2>1, <2>2
  <2> QED BY <2>5, <2>6
<1> QED BY <1>7, <1>8 DEF q

Pairs == Intervals \X Intervals

\* Nothing before some intervals, or one.
LEMMA PutBefore ==
  ASSUME NEW v \in Intervals
  PROVE  /\ <<>> \in Intervals /\ <<>> \o v = v
         /\ \A iv \in Interval : <<iv>> \in Intervals /\ <<iv>> \o v \in Intervals /\ Len(<<iv>> \o v) = Len(v) + 1
<1>1. v \in Seq(Interval)
  BY DEF Intervals, Interval
<1>2. /\ <<>> \in Seq(Interval) /\ <<>> \o v = v
      /\ \A iv \in Interval : <<iv>> \in Seq(Interval) /\ <<iv>> \o v \in Seq(Interval) /\ Len(<<iv>> \o v) = Len(v) + 1
  <2> HIDE DEF Interval
  <2>1. <<>> \in Seq(Interval) /\ <<>> \o v = v
    BY <1>1, EmptySeq, ConcatEmptySeq
  <2>2. ASSUME NEW iv \in Interval
        PROVE  <<iv>> \in Seq(Interval) /\ <<iv>> \o v \in Seq(Interval) /\ Len(<<iv>> \o v) = Len(v) + 1
    <3>1. <<iv>> \in Seq(Interval) /\ Len(<<iv>>) = 1
      BY SMT
    <3>2. <<iv>> \o v \in Seq(Interval) /\ Len(<<iv>> \o v) = Len(<<iv>>) + Len(v)
      BY <1>1, <3>1, ConcatProperties
    <3>3. Len(v) \in Nat
      BY <1>1, LenProperties
    <3> QED BY <3>1, <3>2, <3>3, SMT
  <2> QED BY <2>1, <2>2
<1> QED BY <1>2 DEF Intervals, Interval

\* The two intervals at hand, in the three ways they can lie.
Below(x, y)  == Head(y).hi < Head(x).lo
Above(x, y)  == Head(y).lo > Head(x).hi
Beyond(x, y) == Head(y).hi >= Head(x).hi

Cut(x, y) == <<[Head(x) EXCEPT !.lo = Head(y).hi + 1]>> \o Tail(x)
Spared(x, y) == IF Head(y).lo > Head(x).lo THEN <<[lo |-> Head(x).lo, hi |-> Head(y).lo - 1]>> ELSE <<>>

DifferenceBody(g, x, y) ==
    IF x = <<>> \/ y = <<>> THEN x
    ELSE IF Below(x, y) THEN g[<<x, Tail(y)>>]
    ELSE IF Above(x, y) THEN <<Head(x)>> \o g[<<Tail(x), y>>]
    ELSE Spared(x, y) \o (IF Beyond(x, y) THEN g[<<Tail(x), y>>] ELSE g[<<Cut(x, y), Tail(y)>>])

DifferenceRest(x, y) ==
    IF Below(x, y) THEN <<x, Tail(y)>>
    ELSE IF Above(x, y) \/ Beyond(x, y) THEN <<Tail(x), y>>
    ELSE <<Cut(x, y), Tail(y)>>

DifferencePut(x, y) ==
    IF Below(x, y) THEN <<>> ELSE IF Above(x, y) THEN <<Head(x)>> ELSE Spared(x, y)

\* What is left after a step is shorter, and what is put before it are intervals.
LEMMA DifferenceShrinks ==
  ASSUME NEW x \in Intervals, NEW y \in Intervals, x # <<>>, y # <<>>
  PROVE  /\ Cut(x, y) \in Intervals /\ Tail(x) \in Intervals /\ Tail(y) \in Intervals
         /\ Len(x) \in Nat /\ Len(y) \in Nat /\ Len(Tail(x)) = Len(x) - 1 /\ Len(Tail(y)) = Len(y) - 1
         /\ Len(Cut(x, y)) = Len(x)
         /\ \A v \in Intervals : <<Head(x)>> \o v \in Intervals /\ Spared(x, y) \o v \in Intervals
<1>1. /\ Head(x) \in Interval /\ Tail(x) \in Intervals /\ Len(x) \in Nat /\ Len(x) >= 1 /\ Len(Tail(x)) = Len(x) - 1
      /\ Head(y) \in Interval /\ Tail(y) \in Intervals /\ Len(y) \in Nat /\ Len(Tail(y)) = Len(y) - 1
  BY HeadAndTail
<1>2. /\ [Head(x) EXCEPT !.lo = Head(y).hi + 1] \in Interval
      /\ [lo |-> Head(x).lo, hi |-> Head(y).lo - 1] \in Interval
  <2>1. Head(x).lo \in Int /\ Head(y).lo \in Int /\ Head(y).hi \in Int
    BY <1>1 DEF Interval
  <2>2. Head(y).hi + 1 \in Int /\ Head(y).lo - 1 \in Int
    BY <2>1, SMT
  <2> QED BY <1>1, <2>1, <2>2 DEF Interval
<1>3. Cut(x, y) \in Intervals /\ Len(Cut(x, y)) = Len(Tail(x)) + 1
  BY <1>1, <1>2, PutBefore DEF Cut
<1>4. ASSUME NEW v \in Intervals PROVE <<Head(x)>> \o v \in Intervals /\ Spared(x, y) \o v \in Intervals
  <2>1. Spared(x, y) = <<[lo |-> Head(x).lo, hi |-> Head(y).lo - 1]>> \/ Spared(x, y) = <<>>
    BY DEF Spared
  <2> QED BY <1>1, <1>2, <2>1, PutBefore
<1>5. Len(Tail(x)) + 1 = Len(x)
  BY <1>1, SMT
<1> QED BY <1>1, <1>3, <1>4, <1>5

\* Difference is the function its recursion describes.
LEMMA DifferenceDef ==
  \A x, y \in Intervals : Difference[<<x, y>>] = DifferenceBody(Difference, x, y)
<1> DEFINE Is(f) == f = [rest \in Pairs |-> DifferenceBody(f, rest[1], rest[2])]
           Stops(p) == p[1] = <<>> \/ p[2] = <<>>
           base == [p \in Pairs |-> p[1]]
           step == [pv \in Pairs \X Intervals |->
                      IF Stops(pv[1]) THEN <<>> ELSE DifferencePut(pv[1][1], pv[1][2]) \o pv[2]]
           down == [p \in Pairs |-> IF Stops(p) THEN p ELSE DifferenceRest(p[1], p[2])]
           size == [p \in Pairs |-> Len(p[1]) + Len(p[2])]
<1>1. \A p \in Pairs : p[1] \in Intervals /\ p[2] \in Intervals /\ p = <<p[1], p[2]>>
  BY DEF Pairs
<1>2. <<>> \in Intervals
  BY EmptyRepresents DEF Represents, Gapped
<1>3. ASSUME NEW x \in Intervals, NEW y \in Intervals, x # <<>>, y # <<>>
      PROVE  /\ DifferenceRest(x, y) \in Pairs /\ DifferenceRest(x, y) # <<x, y>>
             /\ Len(DifferenceRest(x, y)[1]) + Len(DifferenceRest(x, y)[2]) < Len(x) + Len(y)
             /\ \A v \in Intervals : DifferencePut(x, y) \o v \in Intervals
  <2>1. /\ Cut(x, y) \in Intervals /\ Tail(x) \in Intervals /\ Tail(y) \in Intervals
        /\ Len(x) \in Nat /\ Len(y) \in Nat /\ Len(Tail(x)) = Len(x) - 1 /\ Len(Tail(y)) = Len(y) - 1
        /\ Len(Cut(x, y)) = Len(x)
        /\ \A v \in Intervals : <<Head(x)>> \o v \in Intervals /\ Spared(x, y) \o v \in Intervals
    BY <1>3, DifferenceShrinks
  <2>2. ASSUME NEW v \in Intervals PROVE DifferencePut(x, y) \o v \in Intervals
    BY <2>1, PutBefore DEF DifferencePut
  <2>3. DifferenceRest(x, y) \in {<<x, Tail(y)>>, <<Tail(x), y>>, <<Cut(x, y), Tail(y)>>}
    BY DEF DifferenceRest
  <2> DEFINE r == DifferenceRest(x, y)
  <2>4. r \in Pairs /\ Len(r[1]) + Len(r[2]) = Len(x) + Len(y) - 1
    <3> HIDE DEF r
    <3>1. r \in {<<x, Tail(y)>>, <<Tail(x), y>>, <<Cut(x, y), Tail(y)>>}
      BY <2>3 DEF r
    <3>2. Len(x) + (Len(y) - 1) = Len(x) + Len(y) - 1 /\ (Len(x) - 1) + Len(y) = Len(x) + Len(y) - 1
      BY <2>1, SMT
    <3>3. CASE r = <<x, Tail(y)>>
      <4>1. r \in Pairs /\ r[1] = x /\ r[2] = Tail(y)
        BY <2>1, <3>3 DEF Pairs
      <4> QED BY <2>1, <3>2, <4>1
    <3>4. CASE r = <<Tail(x), y>>
      <4>1. r \in Pairs /\ r[1] = Tail(x) /\ r[2] = y
        BY <2>1, <3>4 DEF Pairs
      <4> QED BY <2>1, <3>2, <4>1
    <3>5. CASE r = <<Cut(x, y), Tail(y)>>
      <4>1. r \in Pairs /\ r[1] = Cut(x, y) /\ r[2] = Tail(y)
        BY <2>1, <3>5 DEF Pairs
      <4> QED BY <2>1, <3>2, <4>1
    <3> QED BY <3>1, <3>3, <3>4, <3>5
  <2>5. Len(x) + Len(y) - 1 < Len(x) + Len(y)
    BY <2>1, SMT
  <2>6. r # <<x, y>>
    <3> SUFFICES ASSUME r = <<x, y>> PROVE FALSE
      OBVIOUS
    <3>1. Len(x) + Len(y) = Len(x) + Len(y) - 1
      BY <2>4
    <3> QED BY <2>1, <3>1, SMT
  <2> QED BY <2>2, <2>4, <2>5, <2>6
<1>4. base \in [Pairs -> Intervals]
  BY <1>1
<1>5. step \in [Pairs \X Intervals -> Intervals]
  <2>1. ASSUME NEW p \in Pairs, NEW v \in Intervals
        PROVE (IF Stops(p) THEN <<>> ELSE DifferencePut(p[1], p[2]) \o v) \in Intervals
    <3>1. p[1] \in Intervals /\ p[2] \in Intervals
      BY <1>1
    <3>2. CASE Stops(p)
      BY <1>2, <3>2
    <3>3. CASE ~Stops(p)
      <4>1. DifferencePut(p[1], p[2]) \o v \in Intervals
        BY <1>3, <3>1, <3>3
      <4> QED BY <3>3, <4>1
    <3> QED BY <3>2, <3>3
  <2> HIDE DEF Pairs, Stops
  <2> QED BY <2>1
<1>6. /\ size \in [Pairs -> Nat] /\ down \in [Pairs -> Pairs]
      /\ \A p \in Pairs : down[p] # p => size[down[p]] < size[p]
  <2>1. \A p \in Pairs : Len(p[1]) + Len(p[2]) \in Nat
    <3>1. \A x \in Intervals : Len(x) \in Nat
      BY IntervalType
    <3>2. \A m, n \in Nat : m + n \in Nat
      BY SMT
    <3> QED BY <1>1, <3>1, <3>2
  <2>2. \A p \in Pairs : ~Stops(p) => /\ DifferenceRest(p[1], p[2]) \in Pairs
                                      /\ Len(DifferenceRest(p[1], p[2])[1]) + Len(DifferenceRest(p[1], p[2])[2])
                                           < Len(p[1]) + Len(p[2])
    BY <1>1, <1>3
  <2> HIDE DEF Stops, Pairs
  <2> QED BY <2>1, <2>2
<1>7. Descends(Pairs, Intervals, size, down, base, step)
  <2> HIDE DEF base, step, down, size
  <2> QED BY <1>4, <1>5, <1>6 DEF Descends
<1>8. PICK f \in [Pairs -> Intervals] : Recurses(f, Pairs, base, step, down)
  <2> HIDE DEF base, step, down, size
  <2> QED BY <1>7, Recursion
<1>9. ASSUME NEW p \in Pairs PROVE f[p] = DifferenceBody(f, p[1], p[2])
  <2> DEFINE x == p[1]
             y == p[2]
  <2>1. x \in Intervals /\ y \in Intervals /\ p = <<x, y>>
    BY <1>1, SMTT(30)
  <2>2. f[p] = IF down[p] = p THEN base[p] ELSE step[<<p, f[down[p]]>>]
    BY <1>8 DEF Recurses
  <2>3. CASE Stops(p)
    <3>1. down[p] = p /\ base[p] = x
      BY <2>3
    <3> QED BY <2>2, <2>3, <3>1 DEF DifferenceBody
  <2>4. CASE ~Stops(p)
    <3> DEFINE r == DifferenceRest(x, y)
    <3>1. r \in Pairs /\ r # p /\ down[p] = r
      BY <1>3, <2>1, <2>4
    <3>2. f[r] \in Intervals
      BY <1>8, <3>1
    <3>3. step[<<p, f[r]>>] = DifferencePut(x, y) \o f[r]
      BY <2>4, <3>2
    <3>4. f[p] = DifferencePut(x, y) \o f[r]
      <4> HIDE DEF step, down, base
      <4> QED BY <2>2, <3>1, <3>3
    <3>5. <<>> \o f[r] = f[r]
      BY <3>2, PutBefore
    <3>6. ~(x = <<>> \/ y = <<>>)
      BY <2>4
    <3>7. f[p] = DifferenceBody(f, x, y)
      <4> HIDE DEF x, y
      <4>1. CASE Below(x, y)
        BY <3>4, <3>5, <3>6, <4>1 DEF DifferenceBody, DifferenceRest, DifferencePut
      <4>2. CASE ~Below(x, y) /\ Above(x, y)
        BY <3>4, <3>6, <4>2 DEF DifferenceBody, DifferenceRest, DifferencePut
      <4>3. CASE ~Below(x, y) /\ ~Above(x, y) /\ Beyond(x, y)
        BY <3>4, <3>6, <4>3 DEF DifferenceBody, DifferenceRest, DifferencePut
      <4>4. CASE ~Below(x, y) /\ ~Above(x, y) /\ ~Beyond(x, y)
        BY <3>4, <3>6, <4>4 DEF DifferenceBody, DifferenceRest, DifferencePut
      <4> QED BY <4>1, <4>2, <4>3, <4>4
    <3> QED BY <3>7
  <2> QED BY <2>3, <2>4
<1>10. Is(f)
  <2> HIDE DEF Pairs
  <2> QED BY <1>8, <1>9
<1>11. Is(Difference)
  <2>1. Difference = CHOOSE q : Is(q)
    BY Zenon DEF Difference, DifferenceBody, Below, Above, Beyond, Cut, Spared, Pairs
  <2> HIDE DEF Is
  <2> QED BY <1>10, <2>1
<1>12. ASSUME NEW x \in Intervals, NEW y \in Intervals PROVE Difference[<<x, y>>] = DifferenceBody(Difference, x, y)
  <2>1. <<x, y>> \in Pairs /\ <<x, y>>[1] = x /\ <<x, y>>[2] = y
    BY DEF Pairs
  <2> DEFINE p == <<x, y>>
  <2>2. p \in Pairs /\ p[1] = x /\ p[2] = y
    BY <2>1
  <2> HIDE DEF p, Pairs
  <2>3. Difference[p] = DifferenceBody(Difference, p[1], p[2])
    BY <1>11, <2>2
  <2> QED BY <2>2, <2>3 DEF p
<1> QED BY <1>12

\* Every member of intervals in order is no lower than the first begins.
LEMMA MembersFrom ==
  ASSUME NEW x \in IntervalsInOrder, x # <<>>
  PROVE  \A v \in Members(x) : v \in Int /\ Head(x).lo <= v
<1>1. /\ Head(x).lo \in Int /\ Head(x).hi \in Int /\ Head(x).lo <= Head(x).hi
      /\ Members(x) = (Head(x).lo .. Head(x).hi) \cup Members(Tail(x))
      /\ \A v \in Members(Tail(x)) : v \in Int /\ Head(x).hi < v
  BY TailAbove
<1>2. ASSUME NEW v \in Members(Tail(x)) PROVE v \in Int /\ Head(x).lo <= v
  <2>1. v \in Int /\ Head(x).hi < v
    BY <1>1
  <2> QED BY <1>1, <2>1, SMT
<1>3. ASSUME NEW v \in Head(x).lo .. Head(x).hi PROVE v \in Int /\ Head(x).lo <= v
  BY <1>1, SMT
<1> QED BY <1>1, <1>2, <1>3

\* What is left of the first interval, before the others.
LEMMA CutInOrder ==
  ASSUME NEW x \in IntervalsInOrder, x # <<>>, NEW y \in IntervalsInOrder, y # <<>>,
         ~Below(x, y), ~Beyond(x, y)
  PROVE  /\ Cut(x, y) \in IntervalsInOrder
         /\ Members(Cut(x, y)) = (Head(y).hi + 1 .. Head(x).hi) \cup Members(Tail(x))
<1> DEFINE iv == [Head(x) EXCEPT !.lo = Head(y).hi + 1]
<1>1. /\ Head(x) \in Interval /\ Head(x).hi \in Int /\ Tail(x) \in IntervalsInOrder /\ Head(y).hi \in Int
      /\ \A v \in Members(Tail(x)) : Head(x).hi < v
  BY TailAbove
<1>2. Head(y).hi + 1 \in Int /\ Head(y).hi + 1 <= Head(x).hi
  <2>1. ~(Head(y).hi >= Head(x).hi)
    BY DEF Beyond
  <2> QED BY <1>1, <2>1, SMT
<1>3. iv \in Interval /\ iv.lo = Head(y).hi + 1 /\ iv.hi = Head(x).hi
  BY <1>1, <1>2 DEF Interval
<1>4. Cut(x, y) = <<iv>> \o Tail(x)
  BY DEF Cut
<1> HIDE DEF iv
<1> QED BY <1>1, <1>2, <1>3, <1>4, Prepended

\* One step of the pointers, the rest being as it should.
LEMMA DifferenceStep ==
  ASSUME NEW x \in IntervalsInOrder, x # <<>>, NEW y \in IntervalsInOrder, y # <<>>,
         NEW g,
         \A u, w \in IntervalsInOrder :
            Len(u) + Len(w) < Len(x) + Len(y) =>
               g[<<u, w>>] \in IntervalsInOrder /\ Members(g[<<u, w>>]) = Members(u) \ Members(w)
  PROVE  /\ DifferenceBody(g, x, y) \in IntervalsInOrder
         /\ Members(DifferenceBody(g, x, y)) = Members(x) \ Members(y)
<1> DEFINE a == Head(x).lo
           b == Head(x).hi
           c == Head(y).lo
           d == Head(y).hi
           X == Members(Tail(x))
           Y == Members(Tail(y))
           r == DifferenceBody(g, x, y)
<1>1. /\ Head(x) \in Interval /\ a \in Int /\ b \in Int /\ a <= b /\ c \in Int /\ d \in Int /\ c <= d
      /\ Tail(x) \in IntervalsInOrder /\ Tail(y) \in IntervalsInOrder
      /\ Len(x) \in Nat /\ Len(y) \in Nat /\ Len(Tail(x)) = Len(x) - 1 /\ Len(Tail(y)) = Len(y) - 1
      /\ Members(x) = (a .. b) \cup X /\ Members(y) = (c .. d) \cup Y
      /\ (\A v \in X : v \in Int /\ b < v) /\ (\A v \in Y : v \in Int /\ d < v)
  BY TailAbove
<1>2. /\ Len(x) + Len(Tail(y)) < Len(x) + Len(y) /\ Len(Tail(x)) + Len(y) < Len(x) + Len(y)
  BY <1>1, SMT
<1>3. ASSUME NEW u \in IntervalsInOrder, NEW w \in IntervalsInOrder, Len(u) + Len(w) < Len(x) + Len(y)
      PROVE  g[<<u, w>>] \in IntervalsInOrder /\ Members(g[<<u, w>>]) = Members(u) \ Members(w)
  BY <1>3
<1> DEFINE gx == g[<<Tail(x), y>>]
           gy == g[<<x, Tail(y)>>]
<1>4. gx \in IntervalsInOrder /\ Members(gx) = X \ Members(y)
  BY <1>1, <1>2, <1>3
<1>5. gy \in IntervalsInOrder /\ Members(gy) = Members(x) \ Y
  BY <1>1, <1>2, <1>3
<1>6. CASE Below(x, y)
  <2>1. r = gy
    BY <1>6 DEF DifferenceBody
  <2>2. d < a
    BY <1>6 DEF Below
  <2> HIDE DEF r, gy, gx, a, b, c, d, X, Y
  <2>3. \A v \in Members(x) : v \notin c .. d
    <3>1. \A v \in a .. b : v \notin c .. d
      BY <1>1, <2>2, SMT
    <3>2. \A v \in X : v \notin c .. d
      BY <1>1, <2>2, SMT
    <3> QED BY <1>1, <3>1, <3>2
  <2> QED BY <1>1, <1>5, <2>1, <2>3 DEF r
<1>7. CASE ~Below(x, y) /\ Above(x, y)
  <2>1. r = <<Head(x)>> \o gx
    BY <1>7 DEF DifferenceBody
  <2>2. c > b
    BY <1>7 DEF Above
  <2>3. \A v \in Members(gx) : Head(x).hi < v
    BY <1>1, <1>4
  <2>4. r \in IntervalsInOrder /\ Members(r) = (a .. b) \cup Members(gx)
    <3> HIDE DEF gx, r
    <3> QED BY <1>1, <1>4, <2>1, <2>3, Prepended
  <2> HIDE DEF r, gy, gx, a, b, c, d, X, Y
  <2>5. \A v \in a .. b : v \notin c .. d /\ v \notin Y
    <3>1. \A v \in a .. b : v \in Int /\ v < c /\ v < d /\ v \notin c .. d
      BY <1>1, <2>2, SMT
    <3>2. \A v \in Int : v < d => v \notin Y
      BY <1>1, SMT
    <3> QED BY <3>1, <3>2
  <2> QED BY <1>1, <1>4, <2>4, <2>5 DEF r
<1>8. CASE ~Below(x, y) /\ ~Above(x, y)
  <2> DEFINE rest == IF Beyond(x, y) THEN gx ELSE g[<<Cut(x, y), Tail(y)>>]
             iv == [lo |-> a, hi |-> c - 1]
             e == IF c > a THEN a .. c - 1 ELSE {}
  <2>1. r = Spared(x, y) \o rest
    BY <1>8 DEF DifferenceBody
  <2>2. ~(d < a) /\ ~(c > b)
    BY <1>8 DEF Below, Above
  \* What is left of the first set above the second's first interval.
  <2>3. /\ rest \in IntervalsInOrder
        /\ \A v : v \in Members(rest) <=> (v \in a .. b \/ v \in X) /\ d < v /\ v \notin Y
    <3>1. CASE Beyond(x, y)
      <4>1. d >= b /\ rest = gx
        BY <3>1 DEF Beyond
      <4> HIDE DEF rest, gx, gy, a, b, c, d, X, Y
      <4>2. \A v \in a .. b : ~(d < v)
        BY <1>1, <4>1, SMT
      <4>3. \A v \in X : v \notin c .. d <=> d < v
        BY <1>1, <2>2, SMT
      <4> QED BY <1>1, <1>4, <4>1, <4>2, <4>3
    <3>2. CASE ~Beyond(x, y)
      <4>1. ~(d >= b) /\ rest = g[<<Cut(x, y), Tail(y)>>]
        BY <3>2 DEF Beyond
      <4>2. Cut(x, y) \in IntervalsInOrder /\ Members(Cut(x, y)) = (d + 1 .. b) \cup X
        BY <1>8, <3>2, CutInOrder
      <4>3. Len(Cut(x, y)) = Len(x)
        <5>1. x \in Intervals /\ y \in Intervals
          BY DEF IntervalsInOrder
        <5> QED BY <5>1, DifferenceShrinks
      <4>4. rest \in IntervalsInOrder /\ Members(rest) = ((d + 1 .. b) \cup X) \ Y
        <5>1. Len(Cut(x, y)) + Len(Tail(y)) < Len(x) + Len(y)
          BY <1>2, <4>3
        <5>2. g[<<Cut(x, y), Tail(y)>>] \in IntervalsInOrder
              /\ Members(g[<<Cut(x, y), Tail(y)>>]) = Members(Cut(x, y)) \ Members(Tail(y))
          BY <1>1, <1>3, <4>2, <5>1
        <5> HIDE DEF rest
        <5> QED BY <4>1, <4>2, <5>2
      <4> HIDE DEF rest, gx, gy, a, b, c, d, X, Y
      <4>5. \A v : v \in d + 1 .. b <=> v \in a .. b /\ d < v
        BY <1>1, <2>2, <4>1, SMT
      <4>6. \A v \in X : d < v
        BY <1>1, <4>1, SMT
      <4> QED BY <4>4, <4>5, <4>6
    <3> QED BY <3>1, <3>2
  <2>4. r \in IntervalsInOrder /\ Members(r) = e \cup Members(rest)
    <3>1. CASE c > a
      <4>1. Spared(x, y) = <<iv>> /\ e = a .. c - 1
        BY <3>1 DEF Spared
      <4>2. iv \in Interval /\ iv.lo = a /\ iv.hi = c - 1 /\ a <= c - 1
        <5>1. c - 1 \in Int /\ a <= c - 1
          <6> HIDE DEF a, c
          <6> QED BY <1>1, <3>1, SMT
        <5> QED BY <1>1, <5>1 DEF Interval
      <4>3. \A v \in Members(rest) : c - 1 < v
        <5>1. \A v \in Members(rest) : v \in Int /\ d < v
          <6> HIDE DEF rest, a, b, d, X, Y
          <6>1. \A v \in a .. b : v \in Int
            BY <1>1, SMT
          <6> QED BY <1>1, <2>3, <6>1
        <5> HIDE DEF rest, c, d
        <5> QED BY <1>1, <5>1, SMT
      <4>4. r = <<iv>> \o rest
        BY <2>1, <4>1
      <4> HIDE DEF r, iv, rest, e, a, c
      <4>5. r \in IntervalsInOrder /\ Members(r) = (iv.lo .. iv.hi) \cup Members(rest)
        BY <2>3, <4>2, <4>3, <4>4, Prepended
      <4> QED BY <4>1, <4>2, <4>5
    <3>2. CASE ~(c > a)
      <4>1. Spared(x, y) = <<>> /\ e = {}
        BY <3>2 DEF Spared
      <4>2. rest \in Intervals
        BY <2>3 DEF IntervalsInOrder
      <4>3. <<>> \o rest = rest
        BY <4>2, PutBefore
      <4> HIDE DEF r, rest, e
      <4> QED BY <2>1, <2>3, <4>1, <4>3
    <3> QED BY <3>1, <3>2
  <2> HIDE DEF r, rest, gx, gy, a, b, c, d, X, Y
  <2>5. \A v : v \in e <=> v \in a .. b /\ v < c
    BY <1>1, <2>2, SMT
  <2>6. \A v : v \in a .. b => v \in Int
    BY <1>1, SMT
  <2>7. \A v \in Int : v < c => v \notin c .. d /\ v \notin Y
    BY <1>1, SMT
  <2>8. \A v \in Int : v \notin c .. d /\ ~(d < v) => v < c
    BY <1>1, SMT
  <2>9. \A v \in Int : d < v => v \notin c .. d
    BY <1>1, SMT
  <2>10. \A v \in X : v \in Int /\ ~(v < c)
    BY <1>1, <2>2, SMT
  <2> HIDE DEF e
  <2>11. \A v : v \in Members(r) <=> v \in Members(x) /\ v \notin Members(y)
    <3>1. ASSUME NEW v PROVE v \in Members(r) <=> (v \in a .. b /\ v < c) \/ ((v \in a .. b \/ v \in X) /\ d < v /\ v \notin Y)
      BY <2>3, <2>4, <2>5
    <3>2. ASSUME NEW v PROVE (v \in Members(x) <=> v \in a .. b \/ v \in X) /\ (v \in Members(y) <=> v \in c .. d \/ v \in Y)
      BY <1>1
    <3>3. ASSUME NEW v, v \in Members(r) PROVE v \in Members(x) /\ v \notin Members(y)
      BY <1>1, <2>6, <2>7, <2>9, <3>1, <3>2, <3>3
    <3>4. ASSUME NEW v, v \in Members(x), v \notin Members(y) PROVE v \in Members(r)
      BY <1>1, <2>6, <2>8, <2>10, <3>1, <3>2, <3>4
    <3> QED BY <3>3, <3>4
  <2> QED BY <2>4, <2>11 DEF r
<1> QED BY <1>6, <1>7, <1>8

\* Each set without the members of the other, in intervals in order.
THEOREM DifferenceOfSets ==
  ASSUME NEW x \in IntervalsInOrder, NEW y \in IntervalsInOrder
  PROVE  /\ Difference[<<x, y>>] \in IntervalsInOrder
         /\ Members(Difference[<<x, y>>]) = Members(x) \ Members(y)
<1> DEFINE Right(u, w) == /\ Difference[<<u, w>>] \in IntervalsInOrder
                          /\ Members(Difference[<<u, w>>]) = Members(u) \ Members(w)
           T == {n \in Nat : \A u, w \in IntervalsInOrder : Len(u) + Len(w) < n => Right(u, w)}
<1>1. \A u \in IntervalsInOrder : Len(u) \in Nat /\ u \in Intervals
  BY IntervalType DEF IntervalsInOrder
<1>2. 0 \in T
  <2>1. \A u, w \in IntervalsInOrder : ~(Len(u) + Len(w) < 0)
    BY <1>1, SMT
  <2> QED BY <2>1
<1>3. ASSUME NEW n \in Nat, n \in T PROVE n + 1 \in T
  <2> SUFFICES ASSUME NEW u \in IntervalsInOrder, NEW w \in IntervalsInOrder, Len(u) + Len(w) < n + 1
               PROVE  Right(u, w)
    OBVIOUS
  <2>1. Difference[<<u, w>>] = DifferenceBody(Difference, u, w)
    BY <1>1, DifferenceDef
  <2>2. CASE u = <<>> \/ w = <<>>
    <3>1. DifferenceBody(Difference, u, w) = u
      BY <2>2 DEF DifferenceBody
    <3>2. Members(u) \ Members(w) = Members(u)
      BY <2>2, EmptyRepresents DEF Represents
    <3> QED BY <2>1, <3>1, <3>2
  <2>3. CASE ~(u = <<>> \/ w = <<>>)
    <3>1. ASSUME NEW p \in IntervalsInOrder, NEW q \in IntervalsInOrder, Len(p) + Len(q) < Len(u) + Len(w)
          PROVE  Right(p, q)
      <4>1. Len(p) \in Nat /\ Len(q) \in Nat /\ Len(u) \in Nat /\ Len(w) \in Nat
        BY <1>1
      <4>2. Len(p) + Len(q) < n
        BY <3>1, <4>1, SMT
      <4> QED BY <1>3, <4>2
    <3>2. /\ DifferenceBody(Difference, u, w) \in IntervalsInOrder
          /\ Members(DifferenceBody(Difference, u, w)) = Members(u) \ Members(w)
      BY <2>3, <3>1, DifferenceStep
    <3> QED BY <2>1, <3>2
  <2> QED BY <2>2, <2>3
<1>4. Nat \subseteq T
  <2> HIDE DEF T
  <2> QED BY <1>2, <1>3, NatSetInduction
<1>5. Len(x) + Len(y) + 1 \in Nat /\ Len(x) + Len(y) < Len(x) + Len(y) + 1
  BY <1>1, SMT
<1> QED BY <1>4, <1>5

\* What two intervals share.
Shared(x, y) == [lo |-> Greater(Head(x).lo, Head(y).lo), hi |-> Lesser(Head(x).hi, Head(y).hi)]

EndsFirst(x, y) == Head(x).hi < Head(y).hi

IntersectionBody(g, x, y) ==
    IF x = <<>> \/ y = <<>> THEN <<>>
    ELSE IF Head(x).lo > Head(y).hi THEN g[<<x, Tail(y)>>]
    ELSE IF Head(y).lo > Head(x).hi THEN g[<<Tail(x), y>>]
    ELSE <<Shared(x, y)>> \o (IF EndsFirst(x, y) THEN g[<<Tail(x), y>>] ELSE g[<<x, Tail(y)>>])

PassesSecond(x, y) == Head(x).lo > Head(y).hi \/ (~(Head(y).lo > Head(x).hi) /\ ~EndsFirst(x, y))

IntersectionRest(x, y) == IF PassesSecond(x, y) THEN <<x, Tail(y)>> ELSE <<Tail(x), y>>

IntersectionPut(x, y) ==
    IF Head(x).lo > Head(y).hi \/ Head(y).lo > Head(x).hi THEN <<>> ELSE <<Shared(x, y)>>

\* What two intervals share is an interval.
LEMMA SharedIs ==
  ASSUME NEW x \in Intervals, NEW y \in Intervals, x # <<>>, y # <<>>
  PROVE  /\ Shared(x, y) \in Interval
         /\ Head(x).lo \in Int /\ Head(x).hi \in Int /\ Head(y).lo \in Int /\ Head(y).hi \in Int
         /\ Shared(x, y).lo = Greater(Head(x).lo, Head(y).lo) /\ Shared(x, y).hi = Lesser(Head(x).hi, Head(y).hi)
<1>1. Head(x) \in Interval /\ Head(y) \in Interval
  BY HeadAndTail
<1>2. Head(x).lo \in Int /\ Head(x).hi \in Int /\ Head(y).lo \in Int /\ Head(y).hi \in Int
  BY <1>1 DEF Interval
<1>3. \A a, b \in Int : Greater(a, b) \in Int /\ Lesser(a, b) \in Int
  BY DEF Greater, Lesser
<1>4. Greater(Head(x).lo, Head(y).lo) \in Int /\ Lesser(Head(x).hi, Head(y).hi) \in Int
  BY <1>2, <1>3
<1> QED BY <1>2, <1>4 DEF Shared, Interval

\* Intersection is the function its recursion describes.
LEMMA IntersectionDef ==
  \A x, y \in Intervals : Intersection[<<x, y>>] = IntersectionBody(Intersection, x, y)
<1> DEFINE Is(f) == f = [rest \in Pairs |-> IntersectionBody(f, rest[1], rest[2])]
           Stops(p) == p[1] = <<>> \/ p[2] = <<>>
           base == [p \in Pairs |-> <<>>]
           step == [pv \in Pairs \X Intervals |->
                      IF Stops(pv[1]) THEN <<>> ELSE IntersectionPut(pv[1][1], pv[1][2]) \o pv[2]]
           down == [p \in Pairs |-> IF Stops(p) THEN p ELSE IntersectionRest(p[1], p[2])]
           size == [p \in Pairs |-> Len(p[1]) + Len(p[2])]
<1>1. \A p \in Pairs : p[1] \in Intervals /\ p[2] \in Intervals /\ p = <<p[1], p[2]>>
  BY DEF Pairs
<1>2. <<>> \in Intervals
  BY EmptyRepresents DEF Represents, Gapped
<1>3. ASSUME NEW x \in Intervals, NEW y \in Intervals, x # <<>>, y # <<>>
      PROVE  /\ IntersectionRest(x, y) \in Pairs /\ IntersectionRest(x, y) # <<x, y>>
             /\ Len(IntersectionRest(x, y)[1]) + Len(IntersectionRest(x, y)[2]) < Len(x) + Len(y)
             /\ \A v \in Intervals : IntersectionPut(x, y) \o v \in Intervals
  <2>1. /\ Tail(x) \in Intervals /\ Tail(y) \in Intervals
        /\ Len(x) \in Nat /\ Len(y) \in Nat /\ Len(Tail(x)) = Len(x) - 1 /\ Len(Tail(y)) = Len(y) - 1
    BY <1>3, HeadAndTail
  <2>2. ASSUME NEW v \in Intervals PROVE IntersectionPut(x, y) \o v \in Intervals
    <3>1. Shared(x, y) \in Interval
      BY <1>3, SharedIs
    <3> QED BY <3>1, PutBefore DEF IntersectionPut
  <2> DEFINE r == IntersectionRest(x, y)
  <2>3. r \in {<<x, Tail(y)>>, <<Tail(x), y>>}
    BY DEF IntersectionRest
  <2> HIDE DEF r
  <2>4. Len(x) + (Len(y) - 1) = Len(x) + Len(y) - 1 /\ (Len(x) - 1) + Len(y) = Len(x) + Len(y) - 1
    BY <2>1, SMT
  <2>5. r \in Pairs /\ Len(r[1]) + Len(r[2]) = Len(x) + Len(y) - 1
    <3>1. CASE r = <<x, Tail(y)>>
      <4>1. r \in Pairs /\ r[1] = x /\ r[2] = Tail(y)
        BY <2>1, <3>1 DEF Pairs
      <4> QED BY <2>1, <2>4, <4>1
    <3>2. CASE r = <<Tail(x), y>>
      <4>1. r \in Pairs /\ r[1] = Tail(x) /\ r[2] = y
        BY <2>1, <3>2 DEF Pairs
      <4> QED BY <2>1, <2>4, <4>1
    <3> QED BY <2>3, <3>1, <3>2
  <2>6. Len(x) + Len(y) - 1 < Len(x) + Len(y)
    BY <2>1, SMT
  <2>7. r # <<x, y>>
    <3> SUFFICES ASSUME r = <<x, y>> PROVE FALSE
      OBVIOUS
    <3>1. Len(x) + Len(y) = Len(x) + Len(y) - 1
      BY <2>5
    <3> QED BY <2>1, <3>1, SMT
  <2> QED BY <2>2, <2>5, <2>6, <2>7 DEF r
<1>4. base \in [Pairs -> Intervals]
  BY <1>2
<1>5. step \in [Pairs \X Intervals -> Intervals]
  <2>1. ASSUME NEW p \in Pairs, NEW v \in Intervals
        PROVE (IF Stops(p) THEN <<>> ELSE IntersectionPut(p[1], p[2]) \o v) \in Intervals
    <3>1. p[1] \in Intervals /\ p[2] \in Intervals
      BY <1>1
    <3>2. CASE Stops(p)
      BY <1>2, <3>2
    <3>3. CASE ~Stops(p)
      <4>1. IntersectionPut(p[1], p[2]) \o v \in Intervals
        BY <1>3, <3>1, <3>3
      <4> QED BY <3>3, <4>1
    <3> QED BY <3>2, <3>3
  <2> HIDE DEF Pairs, Stops
  <2> QED BY <2>1
<1>6. /\ size \in [Pairs -> Nat] /\ down \in [Pairs -> Pairs]
      /\ \A p \in Pairs : down[p] # p => size[down[p]] < size[p]
  <2>1. \A p \in Pairs : Len(p[1]) + Len(p[2]) \in Nat
    <3>1. \A x \in Intervals : Len(x) \in Nat
      BY IntervalType
    <3>2. \A m, n \in Nat : m + n \in Nat
      BY SMT
    <3> QED BY <1>1, <3>1, <3>2
  <2>2. \A p \in Pairs : ~Stops(p) => /\ IntersectionRest(p[1], p[2]) \in Pairs
                                      /\ Len(IntersectionRest(p[1], p[2])[1]) + Len(IntersectionRest(p[1], p[2])[2])
                                           < Len(p[1]) + Len(p[2])
    BY <1>1, <1>3
  <2> HIDE DEF Stops, Pairs
  <2> QED BY <2>1, <2>2
<1>7. Descends(Pairs, Intervals, size, down, base, step)
  <2> HIDE DEF base, step, down, size
  <2> QED BY <1>4, <1>5, <1>6 DEF Descends
<1>8. PICK f \in [Pairs -> Intervals] : Recurses(f, Pairs, base, step, down)
  <2> HIDE DEF base, step, down, size
  <2> QED BY <1>7, Recursion
<1>9. ASSUME NEW p \in Pairs PROVE f[p] = IntersectionBody(f, p[1], p[2])
  <2> DEFINE x == p[1]
             y == p[2]
  <2>1. x \in Intervals /\ y \in Intervals /\ p = <<x, y>>
    BY <1>1
  <2>2. f[p] = IF down[p] = p THEN base[p] ELSE step[<<p, f[down[p]]>>]
    BY <1>8 DEF Recurses
  <2>3. CASE Stops(p)
    <3>1. down[p] = p /\ base[p] = <<>>
      BY <2>3
    <3> QED BY <2>2, <2>3, <3>1 DEF IntersectionBody
  <2>4. CASE ~Stops(p)
    <3> DEFINE r == IntersectionRest(x, y)
    <3>1. r \in Pairs /\ r # p /\ down[p] = r
      BY <1>3, <2>1, <2>4
    <3>2. f[r] \in Intervals
      BY <1>8, <3>1
    <3>3. step[<<p, f[r]>>] = IntersectionPut(x, y) \o f[r]
      BY <2>4, <3>2
    <3>4. f[p] = IntersectionPut(x, y) \o f[r]
      <4> HIDE DEF step, down, base
      <4> QED BY <2>2, <3>1, <3>3
    <3>5. <<>> \o f[r] = f[r]
      BY <3>2, PutBefore
    <3>6. ~(x = <<>> \/ y = <<>>)
      BY <2>4
    <3>7. f[p] = IntersectionBody(f, x, y)
      <4> HIDE DEF x, y
      <4>1. CASE Head(x).lo > Head(y).hi
        BY <3>4, <3>5, <3>6, <4>1 DEF IntersectionBody, IntersectionRest, IntersectionPut, PassesSecond
      <4>2. CASE ~(Head(x).lo > Head(y).hi) /\ Head(y).lo > Head(x).hi
        BY <3>4, <3>5, <3>6, <4>2 DEF IntersectionBody, IntersectionRest, IntersectionPut, PassesSecond
      <4>3. CASE ~(Head(x).lo > Head(y).hi) /\ ~(Head(y).lo > Head(x).hi) /\ EndsFirst(x, y)
        BY <3>4, <3>6, <4>3 DEF IntersectionBody, IntersectionRest, IntersectionPut, PassesSecond
      <4>4. CASE ~(Head(x).lo > Head(y).hi) /\ ~(Head(y).lo > Head(x).hi) /\ ~EndsFirst(x, y)
        BY <3>4, <3>6, <4>4 DEF IntersectionBody, IntersectionRest, IntersectionPut, PassesSecond
      <4> QED BY <4>1, <4>2, <4>3, <4>4
    <3> QED BY <3>7
  <2> QED BY <2>3, <2>4
<1>10. Is(f)
  <2> HIDE DEF Pairs
  <2> QED BY <1>8, <1>9
<1>11. Is(Intersection)
  <2>1. Intersection = CHOOSE q : Is(q)
    BY Zenon DEF Intersection, IntersectionBody, Shared, EndsFirst, Pairs
  <2> HIDE DEF Is
  <2> QED BY <1>10, <2>1
<1>12. ASSUME NEW x \in Intervals, NEW y \in Intervals PROVE Intersection[<<x, y>>] = IntersectionBody(Intersection, x, y)
  <2> DEFINE p == <<x, y>>
  <2>1. p \in Pairs /\ p[1] = x /\ p[2] = y
    BY DEF Pairs
  <2> HIDE DEF p, Pairs
  <2>2. Intersection[p] = IntersectionBody(Intersection, p[1], p[2])
    BY <1>11, <2>1
  <2> QED BY <2>1, <2>2 DEF p
<1> QED BY <1>12

\* One step of the pointers, the rest being as it should.
LEMMA IntersectionStep ==
  ASSUME NEW x \in IntervalsInOrder, x # <<>>, NEW y \in IntervalsInOrder, y # <<>>,
         NEW g,
         \A u, w \in IntervalsInOrder :
            Len(u) + Len(w) < Len(x) + Len(y) =>
               g[<<u, w>>] \in IntervalsInOrder /\ Members(g[<<u, w>>]) = Members(u) \cap Members(w)
  PROVE  /\ IntersectionBody(g, x, y) \in IntervalsInOrder
         /\ Members(IntersectionBody(g, x, y)) = Members(x) \cap Members(y)
<1> DEFINE a == Head(x).lo
           b == Head(x).hi
           c == Head(y).lo
           d == Head(y).hi
           X == Members(Tail(x))
           Y == Members(Tail(y))
           r == IntersectionBody(g, x, y)
           gx == g[<<Tail(x), y>>]
           gy == g[<<x, Tail(y)>>]
<1>1. /\ a \in Int /\ b \in Int /\ a <= b /\ c \in Int /\ d \in Int /\ c <= d
      /\ Tail(x) \in IntervalsInOrder /\ Tail(y) \in IntervalsInOrder
      /\ Len(x) \in Nat /\ Len(y) \in Nat /\ Len(Tail(x)) = Len(x) - 1 /\ Len(Tail(y)) = Len(y) - 1
      /\ Members(x) = (a .. b) \cup X /\ Members(y) = (c .. d) \cup Y
      /\ (\A v \in X : v \in Int /\ b < v) /\ (\A v \in Y : v \in Int /\ d < v)
  BY TailAbove
<1>2. /\ Len(x) + Len(Tail(y)) < Len(x) + Len(y) /\ Len(Tail(x)) + Len(y) < Len(x) + Len(y)
  BY <1>1, SMT
<1>3. gx \in IntervalsInOrder /\ Members(gx) = X \cap Members(y)
  BY <1>1, <1>2
<1>4. gy \in IntervalsInOrder /\ Members(gy) = Members(x) \cap Y
  BY <1>1, <1>2
<1>5. CASE a > d
  <2>1. r = gy
    BY <1>5 DEF IntersectionBody
  <2> HIDE DEF r, gy, gx, a, b, c, d, X, Y
  <2>2. (\A v \in a .. b : v \notin c .. d) /\ (\A v \in X : v \notin c .. d)
    BY <1>1, <1>5, SMT
  <2> QED BY <1>1, <1>4, <2>1, <2>2 DEF r
<1>6. CASE ~(a > d) /\ c > b
  <2>1. r = gx
    BY <1>6 DEF IntersectionBody
  <2> HIDE DEF r, gy, gx, a, b, c, d, X, Y
  <2>2. (\A v \in a .. b : v \notin c .. d) /\ (\A v \in Y : v \notin a .. b)
    BY <1>1, <1>6, SMT
  <2> QED BY <1>1, <1>3, <2>1, <2>2 DEF r
<1>7. CASE ~(a > d) /\ ~(c > b)
  <2> DEFINE rest == IF EndsFirst(x, y) THEN gx ELSE gy
             iv == Shared(x, y)
             l == Greater(a, c)
             h == Lesser(b, d)
  <2>1. r = <<iv>> \o rest
    BY <1>7 DEF IntersectionBody
  <2>2. iv \in Interval /\ iv.lo = l /\ iv.hi = h
    <3>1. x \in Intervals /\ y \in Intervals
      BY DEF IntervalsInOrder
    <3> QED BY <3>1, SharedIs
  <2>3. (EndsFirst(x, y) => b < d) /\ (~EndsFirst(x, y) => ~(b < d))
    BY DEF EndsFirst
  <2> HIDE DEF r, iv, rest, gx, gy, a, b, c, d, X, Y
  <2>4. l \in Int /\ h \in Int /\ l <= h /\ \A v \in Int : (l <= v <=> a <= v /\ c <= v) /\ (v <= h <=> v <= b /\ v <= d)
    BY <1>1, <1>7, SMT DEF Greater, Lesser
  <2> HIDE DEF l, h
  <2>5. \A v : v \in l .. h <=> v \in a .. b /\ v \in c .. d
    <3>1. \A i, j \in Int : \A v : v \in i .. j <=> v \in Int /\ i <= v /\ v <= j
      BY SMT
    <3> QED BY <1>1, <2>4, <3>1
  <2>6. /\ rest \in IntervalsInOrder
        /\ \A v \in Members(rest) : h < v
        /\ \A v : v \in l .. h \/ v \in Members(rest) <=> v \in Members(x) /\ v \in Members(y)
    <3>1. CASE EndsFirst(x, y)
      <4>1. rest = gx /\ h = b /\ b < d
        <5>1. b < d
          BY <2>3, <3>1
        <5> QED BY <3>1, <5>1 DEF rest, h, Lesser
      <4>2. \A v \in a .. b : v \notin Y
        BY <1>1, <4>1, SMT
      <4>3. \A v \in Members(rest) : h < v
        BY <1>1, <1>3, <4>1
      <4>4. \A v : v \in l .. h \/ v \in Members(rest) <=> v \in Members(x) /\ v \in Members(y)
        BY <1>1, <1>3, <2>5, <4>1, <4>2
      <4> QED BY <1>3, <4>1, <4>3, <4>4
    <3>2. CASE ~EndsFirst(x, y)
      <4>1. rest = gy /\ h = d /\ ~(b < d)
        <5>1. ~(b < d)
          BY <2>3, <3>2
        <5> QED BY <3>2, <5>1 DEF rest, h, Lesser
      <4>2. \A v \in c .. d : v \notin X
        BY <1>1, <4>1, SMT
      <4>3. \A v \in Members(rest) : h < v
        BY <1>1, <1>4, <4>1
      <4>4. \A v : v \in l .. h \/ v \in Members(rest) <=> v \in Members(x) /\ v \in Members(y)
        BY <1>1, <1>4, <2>5, <4>1, <4>2
      <4> QED BY <1>4, <4>1, <4>3, <4>4
    <3> QED BY <3>1, <3>2
  <2>7. r \in IntervalsInOrder /\ Members(r) = (l .. h) \cup Members(rest)
    BY <2>1, <2>2, <2>4, <2>6, Prepended
  <2> QED BY <2>6, <2>7 DEF r
<1> QED BY <1>5, <1>6, <1>7

\* The members of both, in intervals in order.
THEOREM IntersectionOfSets ==
  ASSUME NEW x \in IntervalsInOrder, NEW y \in IntervalsInOrder
  PROVE  /\ Intersection[<<x, y>>] \in IntervalsInOrder
         /\ Members(Intersection[<<x, y>>]) = Members(x) \cap Members(y)
<1> DEFINE Right(u, w) == /\ Intersection[<<u, w>>] \in IntervalsInOrder
                          /\ Members(Intersection[<<u, w>>]) = Members(u) \cap Members(w)
           T == {n \in Nat : \A u, w \in IntervalsInOrder : Len(u) + Len(w) < n => Right(u, w)}
<1>1. \A u \in IntervalsInOrder : Len(u) \in Nat /\ u \in Intervals
  BY IntervalType DEF IntervalsInOrder
<1>2. 0 \in T
  <2>1. \A u, w \in IntervalsInOrder : ~(Len(u) + Len(w) < 0)
    BY <1>1, SMT
  <2> QED BY <2>1
<1>3. ASSUME NEW n \in Nat, n \in T PROVE n + 1 \in T
  <2> SUFFICES ASSUME NEW u \in IntervalsInOrder, NEW w \in IntervalsInOrder, Len(u) + Len(w) < n + 1
               PROVE  Right(u, w)
    OBVIOUS
  <2>1. Intersection[<<u, w>>] = IntersectionBody(Intersection, u, w)
    BY <1>1, IntersectionDef
  <2>2. CASE u = <<>> \/ w = <<>>
    <3>1. IntersectionBody(Intersection, u, w) = <<>>
      BY <2>2 DEF IntersectionBody
    <3>2. <<>> \in IntervalsInOrder /\ Members(<<>>) = {}
      BY EmptyRepresents, GappedInOrder DEF Represents
    <3> QED BY <2>1, <2>2, <3>1, <3>2
  <2>3. CASE ~(u = <<>> \/ w = <<>>)
    <3>1. ASSUME NEW p \in IntervalsInOrder, NEW q \in IntervalsInOrder, Len(p) + Len(q) < Len(u) + Len(w)
          PROVE  Right(p, q)
      <4>1. Len(p) \in Nat /\ Len(q) \in Nat /\ Len(u) \in Nat /\ Len(w) \in Nat
        BY <1>1
      <4>2. Len(p) + Len(q) < n
        BY <3>1, <4>1, SMT
      <4> QED BY <1>3, <4>2
    <3>2. /\ IntersectionBody(Intersection, u, w) \in IntervalsInOrder
          /\ Members(IntersectionBody(Intersection, u, w)) = Members(u) \cap Members(w)
      BY <2>3, <3>1, IntersectionStep
    <3> QED BY <2>1, <3>2
  <2> QED BY <2>2, <2>3
<1>4. Nat \subseteq T
  <2> HIDE DEF T
  <2> QED BY <1>2, <1>3, NatSetInduction
<1>5. Len(x) + Len(y) + 1 \in Nat /\ Len(x) + Len(y) < Len(x) + Len(y) + 1
  BY <1>1, SMT
<1> QED BY <1>4, <1>5

\* The calls of the algebra answer as sets would.
LEMMA AlgebraHolds == Arguments => AlgebraOfSets
<1> SUFFICES ASSUME Arguments PROVE AlgebraOfSets
  OBVIOUS
<1>1. ASSUME NEW ivs \in IntervalsInOrder PROVE Ascending(ivs)
  <2>1. DOMAIN ivs = 1 .. Len(ivs)
    BY Layout
  <2> QED BY <2>1 DEF Ascending, IntervalsInOrder, InOrder
<1>2. ASSUME Calls("algebra")
      PROVE  LET s == Members(at.x)
                 t == Members(at.y)
             IN  /\ Union(at.x, at.y) = Canonical(s \cup t)
                 /\ Members(Difference[<<at.x, at.y>>]) = s \ t
                 /\ Members(Intersection[<<at.x, at.y>>]) = s \cap t
                 /\ Ascending(Difference[<<at.x, at.y>>]) /\ Ascending(Intersection[<<at.x, at.y>>])
  <2> DEFINE x == at.x
             y == at.y
  <2>1. PICK s \in SUBSET CodePoints, t \in SUBSET CodePoints : x = Canonical(s) /\ y = Canonical(t)
    BY <1>2 DEF Arguments
  <2> HIDE DEF x, y
  <2>2. Represents(x, s) /\ Represents(y, t)
    BY <2>1, CanonicalRepresents
  <2>3. Gapped(x) /\ Gapped(y) /\ Members(x) = s /\ Members(y) = t
    BY <2>2 DEF Represents
  <2>4. x \in IntervalsInOrder /\ y \in IntervalsInOrder
    BY <2>3, GappedInOrder
  <2>5. Union(x, y) = Canonical(Members(x) \cup Members(y))
    <3>1. Represents(Union(x, y), Members(x) \cup Members(y))
      BY <2>3, UnionOfSets
    <3>2. Represents(Canonical(s \cup t), s \cup t)
      BY CanonicalRepresents
    <3> QED BY <2>3, <3>1, <3>2, FormIsUnique
  <2>6. Members(Difference[<<x, y>>]) = Members(x) \ Members(y) /\ Ascending(Difference[<<x, y>>])
    BY <1>1, <2>4, DifferenceOfSets
  <2>7. Members(Intersection[<<x, y>>]) = Members(x) \cap Members(y) /\ Ascending(Intersection[<<x, y>>])
    BY <1>1, <2>4, IntersectionOfSets
  <2> QED BY <2>5, <2>6, <2>7 DEF x, y
<1>3. ASSUME Calls("chars") PROVE OfChars(at.cps) = Canonical({at.cps[i] : i \in DOMAIN at.cps})
  <2>1. PICK n \in 0 .. 3 : at.cps \in [1 .. n -> CodePoints]
    BY <1>3 DEF Arguments
  <2> DEFINE cps == at.cps
             chars == {cps[i] : i \in DOMAIN cps}
  <2>2. cps \in [1 .. n -> CodePoints]
    BY <2>1
  <2> HIDE DEF cps
  <2>3. chars \in SUBSET CodePoints
    BY <2>2
  <2>4. n \in Nat /\ cps \in [1 .. n -> Int]
    <3>1. n \in Nat
      BY SMT
    <3>2. CodePoints \subseteq Int
      BY SMT DEF CodePoints
    <3> QED BY <2>2, <3>1, <3>2
  <2>5. Represents(OfChars(cps), chars)
    BY <2>4, FromCharacters
  <2>6. Represents(Canonical(chars), chars)
    BY <2>3, CanonicalRepresents
  <2> HIDE DEF chars
  <2>7. OfChars(cps) = Canonical(chars)
    BY <2>5, <2>6, FormIsUnique
  <2> QED BY <2>7 DEF chars, cps
<1> QED BY <1>2, <1>3 DEF AlgebraOfSets

\* intervalset.rs: interval sets behave as sets, and every way to number their members
\* agrees, in every call.
THEOREM SetsCorrect == Spec => []SetsAgree
<1>1. Arguments => SetsAgree
  BY AlgebraHolds, PositionsHold DEF SetsAgree
<1> QED BY <1>1, ArgumentsStay, PTL

--------------------------------------------------------------------------------
(* Indices of choices. *)


\* The bounds and the target of an integer's constraints.
Bounds(c) == [has_min |-> c.has_min, min_value |-> c.min_value, has_max |-> c.has_max,
              max_value |-> c.max_value, shrink_towards |-> c.shrink_towards]

\* Nothing else of them is read.
LEMMA OnlyBounds ==
  ASSUME NEW c \in SomeIntConstraints
  PROVE  /\ Bounds(c) \in IntConstraints /\ Sensible(Bounds(c))
         /\ ShrinkTowards(Bounds(c)) = ShrinkTowards(c) /\ LowerEnds(Bounds(c)) = LowerEnds(c)
         /\ \A n : IntFromIndex(n, Bounds(c)) = IntFromIndex(n, c) /\ IntToIndex(n, Bounds(c)) = IntToIndex(n, c)
                   /\ (IntPermitted(n, Bounds(c)) <=> IntPermitted(n, c))
         /\ c.candidates = Ints
         /\ Bounds(c).has_min = c.has_min /\ Bounds(c).has_max = c.has_max
         /\ Bounds(c).min_value = c.min_value /\ Bounds(c).max_value = c.max_value
<1> DEFINE d == Bounds(c)
<1>1. /\ d.has_min = c.has_min /\ d.min_value = c.min_value /\ d.has_max = c.has_max
      /\ d.max_value = c.max_value /\ d.shrink_towards = c.shrink_towards
  BY DEF Bounds
<1>2. /\ c \in [has_min : BOOLEAN, min_value : Ints, has_max : BOOLEAN, max_value : Ints,
                shrink_towards : Ints, weighted : BOOLEAN, candidates : {Ints}]
      /\ Sensible(c)
  BY DEF SomeIntConstraints
<1>3. Ints \subseteq Int
  BY SMT DEF Ints
<1>4. d \in IntConstraints
  BY <1>2, <1>3 DEF Bounds, IntConstraints
<1>5. c.candidates = Ints
  BY <1>2
<1> HIDE DEF d
<1>6. Sensible(d)
  BY <1>1, <1>2 DEF Sensible
<1>7. ShrinkTowards(d) = ShrinkTowards(c)
  BY <1>1 DEF ShrinkTowards
<1>8. LowerEnds(d) = LowerEnds(c)
  BY <1>1, <1>7 DEF LowerEnds
<1>9. ASSUME NEW n PROVE IntFromIndex(n, d) = IntFromIndex(n, c) /\ IntToIndex(n, d) = IntToIndex(n, c)
  <2>1. (LowerEnds(d) <=> LowerEnds(c)) /\ d.min_value = c.min_value /\ (d.has_max <=> c.has_max)
        /\ d.max_value = c.max_value /\ ShrinkTowards(d) = ShrinkTowards(c)
    BY <1>1, <1>7, <1>8
  <2> QED BY <2>1 DEF IntFromIndex, IntToIndex
<1>10. ASSUME NEW n PROVE IntPermitted(n, d) <=> IntPermitted(n, c)
  BY <1>1 DEF IntPermitted
<1> QED BY <1>1, <1>4, <1>5, <1>6, <1>7, <1>8, <1>9, <1>10 DEF d

\* Index and value of booleans.
LEMMA BooleanIndex ==
  ASSUME NEW c \in SomeConstraints("boolean"), NEW n \in Nat, Permits("boolean", c, n)
  PROVE  /\ BoolPermitted(BoolFromIndex(n, c), c) /\ BoolToIndex(BoolFromIndex(n, c), c) = n
         /\ n > 0 => BoolFromIndex(n, c)
<1>1. c.p \in {"0", "tiny", "mid", "almost1", "1"}
  BY DEF SomeConstraints
<1>2. n < IF c.p = "mid" THEN 2 ELSE 1
  BY DEF Permits
<1>3. CASE c.p = "mid"
  <2>1. n \in {0, 1}
    BY <1>2, <1>3, SMT
  <2>2. BoolFromIndex(n, c) = (n # 0)
    BY <1>3 DEF BoolFromIndex
  <2>3. CASE n = 0
    <3>1. BoolFromIndex(n, c) = FALSE /\ ~(n > 0)
      <4>1. ~(n > 0)
        BY <2>3, SMT
      <4> QED BY <2>2, <2>3, <4>1, Zenon
    <3> QED BY <1>3, <2>3, <3>1 DEF BoolPermitted, BoolToIndex
  <2>4. CASE n = 1
    <3>1. BoolFromIndex(n, c) = TRUE
      <4>1. n # 0
        BY <2>4, SMT
      <4> QED BY <2>2, <4>1, Zenon
    <3> QED BY <1>3, <2>4, <3>1 DEF BoolPermitted, BoolToIndex
  <2> QED BY <2>1, <2>3, <2>4
<1>4. CASE c.p # "mid"
  <2>1. n = 0 /\ ~(n > 0)
    BY <1>2, <1>4, SMT
  <2>2. c.p \in {"0", "tiny"} => BoolFromIndex(n, c) = FALSE
    BY DEF BoolFromIndex
  <2>3. c.p \in {"1", "almost1"} => BoolFromIndex(n, c) = TRUE
    BY DEF BoolFromIndex
  <2> QED BY <1>1, <1>4, <2>1, <2>2, <2>3 DEF BoolPermitted, BoolToIndex
<1> QED BY <1>3, <1>4

\* Index and value of integers.
LEMMA IntegerIndex ==
  ASSUME NEW c \in SomeIntConstraints, NEW n \in Nat, Permits("integer", c, n)
  PROVE  IntPermitted(IntFromIndex(n, c), c) /\ IntToIndex(IntFromIndex(n, c), c) = n
<1>1. c.has_min /\ c.has_max => n <= c.max_value - c.min_value
  BY DEF Permits
<1> DEFINE d == Bounds(c)
<1>2. d \in IntConstraints /\ Sensible(d) /\ (d.has_min /\ d.has_max => n <= d.max_value - d.min_value)
  BY <1>1, OnlyBounds
<1> HIDE DEF d
<1>3. IntPermitted(IntFromIndex(n, d), d) /\ IntToIndex(IntFromIndex(n, d), d) = n
  BY <1>2, IndexOfValue
<1> QED BY <1>3, OnlyBounds DEF d

\* How many letters the alphabet of a collection has.
Letters(type, c) == IF type = "bytes" THEN BYTES ELSE Size(c.intervals)

\* The sizes and the alphabet of the collections asked for, as numbers.
LEMMA CollectionConstraints ==
  ASSUME NEW type \in {"string", "bytes"}, NEW c \in SomeConstraints(type)
  PROVE  /\ c.min_size \in Nat /\ c.max_size \in Nat /\ c.min_size <= c.max_size /\ c.max_size < BUFFER_SIZE
         /\ Letters(type, c) \in Nat /\ (Letters(type, c) = 0 => c.min_size = 0)
         /\ type = "string" => c.intervals \in IntervalsInOrder
<1>1. \A kinds : \A d \in SomeCollections(kinds) : /\ d.intervals \in kinds
                                                   /\ d.min_size \in 0 .. 2 /\ d.max_size \in 0 .. 2 /\ d.min_size <= d.max_size
                                                   /\ (Size(d.intervals) = 0 => d.min_size = 0)
  BY DEF SomeCollections
<1>2. \E kinds : c \in SomeCollections(kinds) /\ (type = "string" => kinds \subseteq Alphabets)
  <2>1. CASE type = "string"
    <3>1. c \in SomeCollections({a \in Alphabets : Size(a) < 5})
      BY <2>1 DEF SomeConstraints
    <3>2. {a \in Alphabets : Size(a) < 5} \subseteq Alphabets
      OBVIOUS
    <3> QED BY <3>1, <3>2
  <2>2. CASE type = "bytes"
    <3>1. c \in SomeCollections({<<[lo |-> 0, hi |-> BYTES - 1]>>})
      BY <2>2 DEF SomeConstraints
    <3>2. type # "string"
      BY <2>2
    <3> QED BY <3>1, <3>2
  <2> QED BY <2>1, <2>2
<1>3. /\ c.min_size \in 0 .. 2 /\ c.max_size \in 0 .. 2 /\ c.min_size <= c.max_size
      /\ (Size(c.intervals) = 0 => c.min_size = 0) /\ (type = "string" => c.intervals \in Alphabets)
  BY <1>1, <1>2
<1>4. c.min_size \in Nat /\ c.max_size \in Nat /\ c.max_size < BUFFER_SIZE
  BY <1>3, MCAssumption, BufferAssumption, SMT
<1>5. type = "string" => c.intervals \in IntervalsInOrder
  BY <1>3, CanonicalRepresents, GappedInOrder DEF Represents, Alphabets
<1>6. Letters(type, c) \in Nat
  <2>1. type = "string" => Size(c.intervals) \in Nat
    BY <1>5, Layout
  <2> QED BY <2>1, ValuesAssumption DEF Letters
<1>7. Letters(type, c) = 0 => c.min_size = 0
  <2>1. BYTES # 0
    BY ValuesAssumption
  <2> QED BY <1>3, <2>1 DEF Letters
<1> QED BY <1>3, <1>4, <1>5, <1>6, <1>7

\* Permitted, in terms of the number of collections.
LEMMA PermitsCollection ==
  ASSUME NEW type \in {"string", "bytes"}, NEW c, NEW n
  PROVE  Permits(type, c, n) <=> n < CollectionsWithin(c.min_size, c.max_size, Letters(type, c))
<1>1. CASE type = "string"
  BY <1>1 DEF Permits, Letters, CollectionsWithin
<1>2. CASE type = "bytes"
  BY <1>2 DEF Permits, Letters, CollectionsWithin
<1> QED BY <1>1, <1>2

\* The characters of the orders of a string.
CharsOf(orders, ivs) == [i \in DOMAIN orders |-> CharInShrinkOrder(ivs, orders[i])]

\* Those characters have these orders, and are of the alphabet.
LEMMA OrdersOfChars ==
  ASSUME NEW ivs \in IntervalsInOrder, NEW orders \in Seq(0 .. Size(ivs) - 1)
  PROVE  /\ Orders(CharsOf(orders, ivs), ivs) = orders
         /\ Len(CharsOf(orders, ivs)) = Len(orders) /\ DOMAIN CharsOf(orders, ivs) = DOMAIN orders
         /\ \A i \in DOMAIN orders : CharsOf(orders, ivs)[i] \in Members(ivs)
<1> DEFINE n == Len(orders)
           s == CharsOf(orders, ivs)
<1>1. n \in Nat /\ DOMAIN orders = 1 .. n /\ orders \in [1 .. n -> 0 .. Size(ivs) - 1]
  BY LenProperties
<1>2. ASSUME NEW i \in 1 .. n
      PROVE  s[i] \in Members(ivs) /\ ShrinkIndexOf(ivs, s[i]) = orders[i]
  <2>1. orders[i] \in 0 .. Size(ivs) - 1
    BY <1>1
  <2>2. s[i] = CharInShrinkOrder(ivs, orders[i])
    BY <1>1 DEF CharsOf
  <2> QED BY <2>1, <2>2, OrderOfChar
<1>3. DOMAIN s = 1 .. n /\ s = [i \in 1 .. n |-> s[i]]
  BY <1>1 DEF CharsOf
<1>4. Len(s) = n
  <2>1. s \in [1 .. n -> Members(ivs)]
    <3> HIDE DEF s
    <3> QED BY <1>2, <1>3
  <2> QED BY <1>1, <2>1, FunctionIsSeq
<1>5. Orders(s, ivs) = orders
  <2>1. Orders(s, ivs) = [i \in 1 .. n |-> ShrinkIndexOf(ivs, s[i])]
    BY <1>3 DEF Orders
  <2>2. orders = [i \in 1 .. n |-> orders[i]]
    BY <1>1
  <2> HIDE DEF s
  <2> QED BY <1>2, <2>1, <2>2
<1> QED BY <1>1, <1>2, <1>4, <1>5, <1>3

\* The value these orders are of, and that it is what the index stands for.
AsValue(type, c, orders) == IF type = "bytes" THEN orders ELSE CharsOf(orders, c.intervals)

StandsFor(n, type, c, orders) ==
    /\ CollectionFromIndex(n, c.min_size, Letters(type, c)) = {orders}
    /\ ChoiceFromIndex(n, type, c) = {AsValue(type, c, orders)}
    /\ Readable(type, AsValue(type, c, orders)) =>
          /\ ChoicePermitted(Choice(type, AsValue(type, c, orders)), c)
          /\ ChoiceToIndex(Choice(type, AsValue(type, c, orders)), c) = {n}

\* The one collection of an index, of either type.
LEMMA CollectionIndex ==
  ASSUME NEW type \in {"string", "bytes"}, NEW c \in SomeConstraints(type), NEW n \in Nat, Permits(type, c, n)
  PROVE  \E orders \in Seq(0 .. Letters(type, c) - 1) : StandsFor(n, type, c, orders)
<1> DEFINE a == Letters(type, c)
<1>1. /\ c.min_size \in Nat /\ c.max_size \in Nat /\ c.min_size <= c.max_size /\ c.max_size < BUFFER_SIZE
      /\ a \in Nat /\ (a = 0 => c.min_size = 0) /\ (type = "string" => c.intervals \in IntervalsInOrder)
  BY CollectionConstraints
<1>2. n < CollectionsWithin(c.min_size, c.max_size, a)
  BY PermitsCollection
<1> HIDE DEF a
<1>3. PICK orders \in Seq(0 .. a - 1) :
            /\ CollectionFromIndex(n, c.min_size, a) = {orders}
            /\ Len(orders) \in c.min_size .. c.max_size
            /\ CollectionToIndex(orders, c.min_size, a) = n
  <2> DEFINE min == c.min_size
             max == c.max_size
  <2>1. min \in Nat /\ max \in Nat /\ min <= max /\ max < BUFFER_SIZE /\ a \in Nat /\ (a = 0 => min = 0)
        /\ n < CollectionsWithin(min, max, a)
    BY <1>1, <1>2
  <2> HIDE DEF min, max
  <2>2. \E orders \in Seq(0 .. a - 1) :
            /\ CollectionFromIndex(n, min, a) = {orders}
            /\ Len(orders) \in min .. max
            /\ CollectionToIndex(orders, min, a) = n
    BY <2>1, IndexOfCollection
  <2> QED BY <2>2 DEF min, max
<1>4. CASE type = "bytes"
  <2>1. a = BYTES
    BY <1>4 DEF a, Letters
  <2> DEFINE ch == Choice(type, orders)
  <2>2. ch.type = "bytes" /\ ch.value = orders
    BY <1>4 DEF Choice
  <2> HIDE DEF ch
  <2>3. ChoiceFromIndex(n, type, c) = {orders}
    BY <1>3, <1>4, <2>1 DEF ChoiceFromIndex
  <2>4. ChoicePermitted(ch, c)
    BY <1>3, <2>2 DEF ChoicePermitted
  <2>5. ChoiceToIndex(ch, c) = {n}
    BY <1>3, <2>1, <2>2 DEF ChoiceToIndex
  <2>6. AsValue(type, c, orders) = orders
    BY <1>4 DEF AsValue
  <2>7. StandsFor(n, type, c, orders)
    BY <1>3, <2>3, <2>4, <2>5, <2>6 DEF StandsFor, a, ch
  <2> QED BY <2>7 DEF a
<1>5. CASE type = "string"
  <2> DEFINE ivs == c.intervals
             v == CharsOf(orders, ivs)
             ch == Choice(type, v)
  <2>1. a = Size(ivs) /\ ivs \in IntervalsInOrder /\ type # "bytes"
    BY <1>1, <1>5 DEF a, Letters
  <2>2. ch.type = "string" /\ ch.value = v
    BY <1>5 DEF Choice
  <2>3. Orders(v, ivs) = orders /\ Len(v) = Len(orders) /\ \A i \in DOMAIN v : v[i] \in Members(ivs)
    BY <1>3, <2>1, OrdersOfChars
  <2>4. ChoiceFromIndex(n, type, c) = {v}
    <3>1. ChoiceFromIndex(n, type, c) = {CharsOf(o, ivs) : o \in CollectionFromIndex(n, c.min_size, Size(ivs))}
      BY <1>5 DEF ChoiceFromIndex, CharsOf
    <3> HIDE DEF v
    <3> QED BY <1>3, <2>1, <3>1 DEF v
  <2> HIDE DEF ch
  <2>5. Extracts(v) => ChoicePermitted(ch, c)
    <3> HIDE DEF v
    <3> QED BY <1>3, <2>2, <2>3 DEF ChoicePermitted
  <2>6. Extracts(v) => ChoiceToIndex(ch, c) = {n}
    <3> HIDE DEF v
    <3> QED BY <1>3, <2>1, <2>2, <2>3 DEF ChoiceToIndex
  <2>9. Readable(type, v) <=> Extracts(v)
    BY <1>5 DEF Readable
  <2>7. AsValue(type, c, orders) = v
    BY <2>1 DEF AsValue
  <2>8. StandsFor(n, type, c, orders)
    <3> HIDE DEF v
    <3> QED BY <1>3, <2>4, <2>5, <2>6, <2>7, <2>9 DEF StandsFor, a, ch
  <2> QED BY <2>8 DEF a
<1> QED BY <1>4, <1>5

\* choice.rs: index and value are inverse to each other in every call.
LEMMA IndexHolds == Arguments => IndexInverse
<1> SUFFICES ASSUME Arguments, Calls("index"), Permits(at.type, at.c, at.n)
             PROVE  /\ ChoiceFromIndex(at.n, at.type, at.c) # {}
                    /\ \A v \in ChoiceFromIndex(at.n, at.type, at.c) :
                          Readable(at.type, v) =>
                             /\ ChoicePermitted(Choice(at.type, v), at.c)
                             /\ ChoiceToIndex(Choice(at.type, v), at.c) = {at.n}
  BY DEF IndexInverse
<1> DEFINE type == at.type
           c == at.c
           n == at.n
<1>1. type \in {"boolean", "integer", "string", "bytes"} /\ c \in SomeConstraints(type) /\ n \in Nat
      /\ Permits(type, c, n)
  <2>1. Indices \subseteq Nat
    BY SMT DEF Indices
  <2> QED BY <2>1 DEF Arguments
<1> HIDE DEF type, c, n
<1>2. \A t, v : Choice(t, v).type = t /\ Choice(t, v).value = v
  BY DEF Choice
<1>3. CASE type = "boolean"
  <2>1. ChoiceFromIndex(n, type, c) = {BoolFromIndex(n, c)}
    BY <1>3 DEF ChoiceFromIndex
  <2>2. BoolPermitted(BoolFromIndex(n, c), c) /\ BoolToIndex(BoolFromIndex(n, c), c) = n
    BY <1>1, <1>3, BooleanIndex
  <2>3. ASSUME NEW v PROVE /\ ChoicePermitted(Choice(type, v), c) <=> BoolPermitted(v, c)
                           /\ ChoiceToIndex(Choice(type, v), c) = {BoolToIndex(v, c)}
    <3> DEFINE ch == Choice(type, v)
    <3>1. ch.type = "boolean" /\ ch.value = v
      BY <1>2, <1>3
    <3> HIDE DEF ch
    <3>2. ChoicePermitted(ch, c) <=> BoolPermitted(v, c)
      BY <3>1 DEF ChoicePermitted
    <3>3. ChoiceToIndex(ch, c) = {BoolToIndex(v, c)}
      BY <3>1 DEF ChoiceToIndex
    <3> QED BY <3>2, <3>3 DEF ch
  <2> QED BY <2>1, <2>2, <2>3 DEF type, c, n
<1>4. CASE type = "integer"
  <2>1. ChoiceFromIndex(n, type, c) = {IntFromIndex(n, c)}
    BY <1>4 DEF ChoiceFromIndex
  <2>2. IntPermitted(IntFromIndex(n, c), c) /\ IntToIndex(IntFromIndex(n, c), c) = n
    <3>1. c \in SomeIntConstraints
      BY <1>1, <1>4 DEF SomeConstraints
    <3> QED BY <1>1, <1>4, <3>1, IntegerIndex
  <2>3. ASSUME NEW v PROVE /\ ChoicePermitted(Choice(type, v), c) <=> IntPermitted(v, c)
                           /\ ChoiceToIndex(Choice(type, v), c) = {IntToIndex(v, c)}
    <3> DEFINE ch == Choice(type, v)
    <3>1. ch.type = "integer" /\ ch.value = v
      BY <1>2, <1>4
    <3> HIDE DEF ch
    <3>2. ChoicePermitted(ch, c) <=> IntPermitted(v, c)
      BY <3>1 DEF ChoicePermitted
    <3>3. ChoiceToIndex(ch, c) = {IntToIndex(v, c)}
      BY <3>1 DEF ChoiceToIndex
    <3> QED BY <3>2, <3>3 DEF ch
  <2> QED BY <2>1, <2>2, <2>3 DEF type, c, n
<1>5. CASE type \in {"string", "bytes"}
  <2>1. PICK orders \in Seq(0 .. Letters(type, c) - 1) : StandsFor(n, type, c, orders)
    BY <1>1, <1>5, CollectionIndex
  <2> DEFINE v == AsValue(type, c, orders)
  <2>2. ChoiceFromIndex(n, type, c) = {v}
    BY <2>1, Zenon DEF StandsFor
  <2>3. Readable(type, v) =>
           ChoicePermitted(Choice(type, v), c) /\ ChoiceToIndex(Choice(type, v), c) = {n}
    BY <2>1, Zenon DEF StandsFor
  <2> HIDE DEF v
  <2> QED BY <2>2, <2>3 DEF type, c, n
<1> QED BY <1>1, <1>3, <1>4, <1>5

\* choice.rs: for every call, index and value are inverse to each other, strings with a
\* lone surrogate apart.
THEOREM IndicesAreInverse == Spec => []IndexInverse
BY IndexHolds, ArgumentsStay, PTL

\* A smaller index is no further from the target.
LEMMA NearerFirst ==
  ASSUME NEW c \in IntConstraints, Sensible(c), NEW n \in Nat, n > 0,
         c.has_min /\ c.has_max => n <= c.max_value - c.min_value
  PROVE  Abs(IntFromIndex(n - 1, c) - ShrinkTowards(c)) <= Abs(IntFromIndex(n, c) - ShrinkTowards(c))
<1> DEFINE st == ShrinkTowards(c)
           lo == c.min_value
           hi == c.max_value
           dist(k) == Abs(IntFromIndex(k, c) - st)
<1>1. st \in Int /\ lo \in Int /\ hi \in Int /\ c.has_min \in BOOLEAN /\ c.has_max \in BOOLEAN
  BY TargetPermitted DEF IntConstraints
<1>2. /\ LowerEnds(c) => lo <= st
      /\ ~LowerEnds(c) /\ c.has_max => st <= hi
  BY <1>1, NearerBound
<1>3. ASSUME NEW k \in Nat
      PROVE  /\ LowerEnds(c) => IntFromIndex(k, c) = IF k <= Zigzag(lo, st) THEN Unzigzag(k, st) ELSE k + lo
             /\ ~LowerEnds(c) /\ c.has_max => IntFromIndex(k, c) = IF k <= Zigzag(hi, st) THEN Unzigzag(k, st) ELSE hi - k
             /\ ~LowerEnds(c) /\ ~c.has_max => IntFromIndex(k, c) = Unzigzag(k, st)
  BY DEF IntFromIndex
<1> HIDE DEF st, lo, hi
<1>4. ASSUME NEW k \in Nat PROVE /\ Abs(Unzigzag(k, st) - st) = (k + 1) \div 2
                                 /\ (k + 1) \div 2 \in Nat /\ 2 * ((k + 1) \div 2) \in k .. k + 1
                                 /\ Unzigzag(k, st) \in Int
  BY <1>1, SMT DEF Unzigzag, Abs
<1>5. n - 1 \in Nat /\ n \in Int
  BY SMT
<1> DEFINE p == (n + 1) \div 2
           q == ((n - 1) + 1) \div 2
<1>6. /\ Abs(Unzigzag(n, st) - st) = p /\ Abs(Unzigzag(n - 1, st) - st) = q
      /\ p \in Nat /\ 2 * p \in n .. n + 1 /\ q \in Nat /\ 2 * q \in (n - 1) .. (n - 1) + 1
  BY <1>4, <1>5
<1> HIDE DEF p, q
<1>7. q <= p
  BY <1>6, SMT
<1>8. CASE LowerEnds(c)
  <2>1. lo <= st
    BY <1>2, <1>8
  <2>2. Zigzag(lo, st) = 2 * (st - lo)
    BY <1>1, <2>1, SMT DEF Zigzag, Abs
  <2> DEFINE Z == Zigzag(lo, st)
             beyond(k) == k + lo
  <2>3. ASSUME NEW k \in Nat
        PROVE  dist(k) = IF k <= 2 * (st - lo) THEN Abs(Unzigzag(k, st) - st) ELSE Abs(beyond(k) - st)
    <3>1. IntFromIndex(k, c) = IF k <= Z THEN Unzigzag(k, st) ELSE beyond(k)
      BY <1>3, <1>8 DEF Z, beyond
    <3>2. Z = 2 * (st - lo)
      BY <2>2 DEF Z
    <3> HIDE DEF Z, beyond
    <3>3. CASE k <= Z
      BY <3>1, <3>2, <3>3
    <3>4. CASE ~(k <= Z)
      BY <3>1, <3>2, <3>4
    <3> QED BY <3>3, <3>4
  <2>4. ASSUME NEW k \in Nat, ~(k <= 2 * (st - lo)) PROVE Abs(beyond(k) - st) = k + lo - st
    BY <1>1, <2>1, <2>4, SMT DEF Abs
  <2> HIDE DEF beyond
  <2> HIDE DEF dist
  <2>5. CASE n <= 2 * (st - lo)
    <3>1. n - 1 <= 2 * (st - lo)
      BY <1>1, <2>5, SMT
    <3>2. dist(n) = p /\ dist(n - 1) = q
      BY <1>5, <1>6, <2>3, <2>5, <3>1
    <3> QED BY <1>7, <3>2 DEF dist, st
  <2>6. CASE ~(n <= 2 * (st - lo)) /\ n - 1 <= 2 * (st - lo)
    <3>1. dist(n) = n + lo - st /\ dist(n - 1) = q
      BY <1>5, <1>6, <2>3, <2>4, <2>6
    <3>2. q <= n + lo - st
      BY <1>1, <1>6, <2>6, SMT
    <3> QED BY <3>1, <3>2 DEF dist, st
  <2>7. CASE ~(n <= 2 * (st - lo)) /\ ~(n - 1 <= 2 * (st - lo))
    <3>1. dist(n) = n + lo - st /\ dist(n - 1) = (n - 1) + lo - st
      BY <1>5, <2>3, <2>4, <2>7
    <3>2. (n - 1) + lo - st <= n + lo - st
      BY <1>1, SMT
    <3> QED BY <3>1, <3>2 DEF dist, st
  <2>8. n <= 2 * (st - lo) \/ ~(n <= 2 * (st - lo))
    OBVIOUS
  <2> QED BY <2>5, <2>6, <2>7
<1>9. CASE ~LowerEnds(c) /\ c.has_max
  <2> DEFINE Z == Zigzag(hi, st)
  <2>1. st <= hi
    BY <1>2, <1>9
  <2>2. Z \in Int /\ Z >= 2 * (hi - st) - 1
    BY <1>1, <2>1, SMT DEF Zigzag, Abs
  <2> HIDE DEF Z
  <2>3. ASSUME NEW k \in Nat PROVE dist(k) = IF k <= Z THEN Abs(Unzigzag(k, st) - st) ELSE Abs(hi - k - st)
    <3>1. IntFromIndex(k, c) = IF k <= Z THEN Unzigzag(k, st) ELSE hi - k
      BY <1>3, <1>9 DEF Z
    <3> QED BY <3>1
  <2>4. ASSUME NEW k \in Nat, ~(k <= Z) PROVE Abs(hi - k - st) = st - hi + k
    <3>1. k > 2 * (hi - st) - 1
      BY <1>1, <2>2, <2>4, SMT
    <3>2. hi - k - st <= 0
      BY <1>1, <2>1, <3>1, SMT
    <3> QED BY <1>1, <3>2, SMT DEF Abs
  <2> HIDE DEF dist
  <2>5. CASE n <= Z
    <3>1. n - 1 <= Z
      BY <1>5, <2>2, <2>5, SMT
    <3>2. dist(n) = p /\ dist(n - 1) = q
      BY <1>5, <1>6, <2>3, <2>5, <3>1
    <3> QED BY <1>7, <3>2 DEF dist, st
  <2>6. CASE ~(n <= Z) /\ n - 1 <= Z
    <3>1. dist(n) = st - hi + n /\ dist(n - 1) = q
      BY <1>5, <1>6, <2>3, <2>4, <2>6
    <3>2. q <= st - hi + n
      BY <1>1, <1>6, <2>2, <2>6, SMT
    <3> QED BY <3>1, <3>2 DEF dist, st
  <2>7. CASE ~(n <= Z) /\ ~(n - 1 <= Z)
    <3>1. dist(n) = st - hi + n /\ dist(n - 1) = st - hi + (n - 1)
      BY <1>5, <2>3, <2>4, <2>7
    <3>2. st - hi + (n - 1) <= st - hi + n
      BY <1>1, SMT
    <3> QED BY <3>1, <3>2 DEF dist, st
  <2> QED BY <2>5, <2>6, <2>7
<1>10. CASE ~LowerEnds(c) /\ ~c.has_max
  <2>1. dist(n) = p /\ dist(n - 1) = q
    BY <1>3, <1>5, <1>6, <1>10
  <2> QED BY <1>7, <2>1 DEF st
<1> QED BY <1>8, <1>9, <1>10

\* The one collection of an index: its size, and its digits.
LEMMA CollectionAt ==
  ASSUME NEW a \in Nat \ {0}, NEW min \in Nat, NEW max \in Nat, NEW n \in Nat,
         min <= max, max < BUFFER_SIZE, n < CollectionsWithin(min, max, a)
  PROVE  CollectionFromIndex(n, min, a) = {DigitsOf(Remaining(n, min, a), a, SizeFor(n, min, a))}
<1> DEFINE size == SizeFor(n, min, a)
           rest == Remaining(n, min, a)
<1>1. size \in Nat /\ (size < BUFFER_SIZE => CollectionFromIndex(n, min, a) = {DigitsOf(rest, a, size)})
  BY CollectionParts
<1>2. CollectionFromIndex(n, min, a) # {}
  <2>1. a \in Nat /\ a # 0
    OBVIOUS
  <2>2. \E orders \in Seq(0 .. a - 1) :
            /\ CollectionFromIndex(n, min, a) = {orders}
            /\ Len(orders) \in min .. max
            /\ CollectionToIndex(orders, min, a) = n
    BY <2>1, IndexOfCollection
  <2> QED BY <2>2
<1>3. size >= BUFFER_SIZE => CollectionFromIndex(n, min, a) = {}
  BY DEF CollectionFromIndex, SizeFor, Shifted
<1> HIDE DEF size, rest
<1>4. size < BUFFER_SIZE
  BY <1>1, <1>2, <1>3, BufferAssumption, SMT
<1> QED BY <1>1, <1>4 DEF size, rest

\* A smaller index is of no longer a collection, and among those as long its first element
\* is no greater.
LEMMA ShorterFirst ==
  ASSUME NEW a \in Nat \ {0}, NEW min \in Nat, NEW n \in Nat, n > 0
  PROVE  LET size(k) == SizeFor(k, min, a)
             rest(k) == Remaining(k, min, a)
         IN  /\ size(n - 1) <= size(n)
             /\ size(n - 1) = size(n) => rest(n - 1) = rest(n) - 1
<1> DEFINE size(k) == SizeFor(k, min, a)
           rest(k) == Remaining(k, min, a)
           low(k) == SizeToIndex(size(k), a)
           m == SizeToIndex(min, a)
<1>1. n - 1 \in Nat /\ n \in Nat
  BY SMT
<1>2. ASSUME NEW k \in Nat
      PROVE  /\ size(k) \in Nat /\ rest(k) \in Nat /\ rest(k) < Power(a, size(k))
             /\ k = low(k) - m + rest(k)
             /\ low(k) \in Nat /\ m \in Nat /\ SizeToIndex(size(k) + 1, a) = low(k) + Power(a, size(k))
             /\ Power(a, size(k)) \in Nat
  <2>1. /\ size(k) \in Nat /\ rest(k) \in Nat /\ rest(k) < Power(a, size(k))
        /\ k = low(k) - m + rest(k)
    BY CollectionParts
  <2>2. low(k) \in Nat /\ m \in Nat /\ SizeToIndex(size(k) + 1, a) = low(k) + Power(a, size(k))
    BY <2>1, SizeToIndexStep
  <2>3. Power(a, size(k)) \in Nat
    BY <2>1, PowerNat
  <2> QED BY <2>1, <2>2, <2>3
<1> DEFINE s == size(n)
           t == size(n - 1)
           ls == low(n)
           lt == low(n - 1)
           rs == rest(n)
           rt == rest(n - 1)
           ps == Power(a, s)
<1>3. /\ s \in Nat /\ t \in Nat /\ rs \in Nat /\ rt \in Nat /\ rs < ps /\ ps \in Nat
      /\ n = ls - m + rs /\ n - 1 = lt - m + rt /\ ls \in Nat /\ lt \in Nat /\ m \in Nat
      /\ SizeToIndex(s + 1, a) = ls + ps
  BY <1>1, <1>2
<1>4. s + 1 < t => SizeToIndex(s + 1, a) < lt
  <2>1. s + 1 \in Nat
    BY <1>3, SMT
  <2> QED BY <1>3, <2>1, SizeToIndexGrows
<1>5. s + 1 = t => SizeToIndex(s + 1, a) = lt
  OBVIOUS
<1>6. s = t => ls = lt
  OBVIOUS
<1> HIDE DEF s, t, ls, lt, rs, rt, ps, m
<1>7. t <= s
  BY <1>3, <1>4, <1>5, SMT
<1>8. t = s => rt = rs - 1
  BY <1>3, <1>6, SMT
<1> QED BY <1>7, <1>8 DEF s, t, rs, rt

\* Of two numbers of as many digits, the smaller does not begin with a greater digit.
LEMMA FirstDigit ==
  ASSUME NEW a \in Nat \ {0}, NEW size \in Nat \ {0}, NEW r \in Nat, NEW q \in Nat, r <= q, q < Power(a, size)
  PROVE  /\ DigitsOf(r, a, size)[1] \in Nat /\ DigitsOf(r, a, size)[1] <= DigitsOf(q, a, size)[1]
         /\ DigitsOf(q, a, size)[1] \in 0 .. a - 1 /\ DigitsOf(r, a, size)[1] \in 0 .. a - 1
<1> DEFINE p == Power(a, size - 1)
<1>1. size - 1 \in Nat /\ (size - 1) + 1 = size /\ 1 \in 1 .. size
  BY SMT
<1>2. p \in Nat \ {0} /\ Power(a, size) = a * p
  <2>1. Power(a, (size - 1) + 1) = a * p
    BY <1>1, PowerRec
  <2> QED BY <1>1, <2>1, PowerPositive
<1> HIDE DEF p
<1>3. ASSUME NEW u \in Nat, u < a * p PROVE /\ u \div p \in Nat /\ u \div p < a /\ (u \div p) % a = u \div p
  <2>1. u \div p \in Nat
    BY <1>2, Division
  <2>2. u \div p < a
    BY <1>2, <1>3, <2>1, QuotientLess
  <2>3. (u \div p) % a = u \div p
    <3> DEFINE d == u \div p
    <3>1. d \in Nat /\ d < a
      BY <2>1, <2>2
    <3> HIDE DEF d
    <3>2. d \in 0 .. a - 1 /\ d = a * 0 + d /\ 0 \in Int
      BY <3>1, SMT
    <3>3. d % a = d
      BY <3>1, <3>2, DivisionUnique
    <3> QED BY <3>3 DEF d
  <2> QED BY <2>1, <2>2, <2>3
<1>4. r < a * p /\ q < a * p
  <2>1. a * p \in Nat
    BY <1>2, ProductNat
  <2> DEFINE z == a * p
  <2>2. z \in Nat /\ q < z
    BY <1>2, <2>1
  <2> HIDE DEF z
  <2>3. r < z
    BY <2>2, SMT
  <2> QED BY <2>2, <2>3 DEF z
<1>5. DigitsOf(r, a, size)[1] = r \div p /\ DigitsOf(q, a, size)[1] = q \div p
  BY <1>1, <1>3, <1>4 DEF DigitsOf, p
<1>6. r \div p <= q \div p
  <2> DEFINE x == r \div p
             y == q \div p
  <2>1. x \in Nat /\ y \in Nat /\ y + 1 \in Nat
    BY <1>3, <1>4
  <2>2. q < (y + 1) * p
    <3>1. (q \div p < y + 1) <=> (q < (y + 1) * p)
      BY <1>2, <2>1, QuotientLess
    <3>2. y < y + 1
      BY <2>1, SMT
    <3> QED BY <3>1, <3>2
  <2>3. r < (y + 1) * p
    <3> DEFINE z == (y + 1) * p
    <3>1. z \in Nat
      BY <1>2, <2>1, ProductNat
    <3>2. q < z
      BY <2>2
    <3> HIDE DEF z
    <3>3. r < z
      BY <3>1, <3>2, SMT
    <3> QED BY <3>3 DEF z
  <2>4. r \div p < y + 1
    BY <1>2, <2>1, <2>3, QuotientLess
  <2> HIDE DEF x, y
  <2>5. x < y + 1
    BY <2>4 DEF x
  <2>6. x <= y
    BY <2>1, <2>5, SMT
  <2> QED BY <2>6 DEF x, y
<1>7. ASSUME NEW u \in Nat, u < a PROVE u \in 0 .. a - 1
  BY <1>7, SMT
<1> QED BY <1>3, <1>4, <1>5, <1>6, <1>7

\* A character from '0' to 'Z', the condition of SimplerFirst.
IsPlain(cp) == cp \in ASCII_ZERO .. ASCII_Z

\* A character that comes before one from '0' to 'Z' is one of them.
LEMMA PlainComeFirst ==
  ASSUME NEW ivs \in IntervalsInOrder, NEW d \in 0 .. Size(ivs) - 1, NEW e \in 0 .. Size(ivs) - 1,
         e <= d, IsPlain(CharInShrinkOrder(ivs, d))
  PROVE  IsPlain(CharInShrinkOrder(ivs, e))
<1> DEFINE n == Size(ivs)
           zero == IdxOfZero(ivs)
           z == IdxOfZ(ivs)
           above == IndexAbove(ivs, ASCII_Z)
           pd == Position(ivs, d)
           pe == Position(ivs, e)
           item(i) == GetItem(ivs, i)
<1>1. /\ n \in Nat /\ d \in Int /\ e \in Int /\ 0 <= d /\ d <= n - 1 /\ 0 <= e
      /\ zero \in 0 .. n /\ z \in Int /\ ASCII_ZERO \in Int /\ ASCII_Z \in Int
  BY Pivots, AsciiAssumption, SMT
<1>2. /\ pd \in 0 .. n - 1 /\ CharInShrinkOrder(ivs, d) = item(pd)
      /\ pe \in 0 .. n - 1 /\ CharInShrinkOrder(ivs, e) = item(pe)
  BY CharAtPosition
<1>3. /\ above \in 0 .. n
      /\ \A i \in 0 .. n - 1 : item(i) < ASCII_Z <=> i < above
      /\ \A i \in 0 .. n - 1 : item(i) < ASCII_ZERO <=> i < zero
  BY <1>1, AboveSplits DEF IdxOfZero
<1>4. \A i \in 0 .. n - 1 : item(i) \in Int
  BY ItemIsMember
<1>5. \A i, j \in 0 .. n - 1 : i < j => item(i) < item(j)
  BY ItemsAscend
<1>6. z = Lesser(above, Greater(n - 1, 0))
  BY DEF IdxOfZ
<1>7. /\ pd = IF d > z THEN d ELSE IF d <= z - zero THEN d + zero ELSE zero - (d - (z - zero))
      /\ pe = IF e > z THEN e ELSE IF e <= z - zero THEN e + zero ELSE zero - (e - (z - zero))
  BY DEF Position
<1> HIDE DEF n, zero, z, above, pd, pe, item
<1>8. item(pd) \in Int /\ ASCII_ZERO <= item(pd) /\ item(pd) <= ASCII_Z
  <2>1. item(pd) \in ASCII_ZERO .. ASCII_Z
    BY <1>2 DEF IsPlain
  <2> QED BY <1>1, <2>1, SMT
<1>9. ~(d > z)
  <2>1. ASSUME d > z PROVE FALSE
    <3>1. z = above /\ z \in 0 .. n - 1 /\ pd = d
      BY <1>1, <1>3, <1>6, <1>7, <2>1, SMT DEF Lesser, Greater
    <3>2. ~(z < above) /\ z < pd
      BY <1>1, <2>1, <3>1, SMT
    <3>3. ~(item(z) < ASCII_Z) /\ item(z) < item(pd) /\ item(z) \in Int
      BY <1>2, <1>3, <1>4, <1>5, <3>1, <3>2
    <3> QED BY <1>1, <1>8, <3>3, SMT
  <2> QED BY <2>1
<1>10. ~(pd < zero)
  <2>1. ~(item(pd) < ASCII_ZERO)
    BY <1>1, <1>8, SMT
  <2> QED BY <1>2, <1>3, <2>1
<1>11. d <= z - zero /\ pd = d + zero
  BY <1>1, <1>7, <1>9, <1>10, SMT
<1>12. ~(e > z) /\ e <= z - zero
  BY <1>1, <1>9, <1>11, SMT
<1>13. pe = e + zero /\ ~(pe < zero) /\ (pe < pd \/ pe = pd)
  <2>1. pe = e + zero
    BY <1>7, <1>12
  <2> QED BY <1>1, <1>11, <2>1, SMT
<1>14. ~(item(pe) < ASCII_ZERO) /\ (item(pe) < item(pd) \/ item(pe) = item(pd)) /\ item(pe) \in Int
  BY <1>2, <1>3, <1>4, <1>5, <1>13
<1>15. item(pe) \in ASCII_ZERO .. ASCII_Z
  BY <1>1, <1>8, <1>14, SMT
<1> QED BY <1>2, <1>15 DEF IsPlain

\* The condition on a string: its first character, if any.
PlainString(s) == s # <<>> => IsPlain(s[1])

\* Of the collections of two indices that follow each other, the first is no longer, and
\* among strings of one length it begins plainly if the second does.
LEMMA CollectionsInOrder ==
  ASSUME NEW type \in {"string", "bytes"}, NEW c \in SomeConstraints(type), NEW n \in Nat, n > 0, Permits(type, c, n)
  PROVE  \E x, y : /\ ChoiceFromIndex(n - 1, type, c) = {x} /\ ChoiceFromIndex(n, type, c) = {y}
                   /\ Len(x) <= Len(y)
                   /\ Len(x) = Len(y) /\ type = "string" /\ PlainString(y) => PlainString(x)
<1> DEFINE a == Letters(type, c)
           min == c.min_size
           max == c.max_size
           ivs == c.intervals
           k == n - 1
<1>1. /\ min \in Nat /\ max \in Nat /\ min <= max /\ max < BUFFER_SIZE
      /\ a \in Nat /\ (a = 0 => min = 0) /\ (type = "string" => ivs \in IntervalsInOrder)
  BY CollectionConstraints
<1>2. n < CollectionsWithin(min, max, a)
  BY PermitsCollection
<1>3. a # 0
  <2>1. ASSUME a = 0 PROVE FALSE
    <3>1. CollectionsWithin(min, max, a) = 1
      BY <2>1, SMT DEF CollectionsWithin, SizeToIndex
    <3> QED BY <1>2, <3>1, SMT
  <2> QED BY <2>1
<1>4. CollectionsWithin(min, max, a) \in Int
  <2>1. max + 1 \in Nat
    BY <1>1, SMT
  <2>2. SizeToIndex(max + 1, a) \in Nat /\ SizeToIndex(min, a) \in Nat
    <3> HIDE DEF a, min, max
    <3> QED BY <1>1, <1>3, <2>1, SizeToIndexStep
  <2> QED BY <2>2, SMT DEF CollectionsWithin
<1>5. k \in Nat /\ k < CollectionsWithin(min, max, a)
  <2> DEFINE w == CollectionsWithin(min, max, a)
  <2>1. w \in Int /\ n < w
    BY <1>2, <1>4
  <2> HIDE DEF w
  <2>2. k \in Nat /\ k < w
    BY <2>1, SMT
  <2> QED BY <2>2 DEF w
<1>6. Permits(type, c, k)
  BY <1>5, PermitsCollection
<1> HIDE DEF k
<1>7. PICK oy \in Seq(0 .. a - 1) : StandsFor(n, type, c, oy)
  BY CollectionIndex
<1>8. PICK ox \in Seq(0 .. a - 1) : StandsFor(k, type, c, ox)
  BY <1>5, <1>6, CollectionIndex
<1> DEFINE sy == SizeFor(n, min, a)
           sx == SizeFor(k, min, a)
           ry == Remaining(n, min, a)
           rx == Remaining(k, min, a)
<1>9. oy = DigitsOf(ry, a, sy) /\ ox = DigitsOf(rx, a, sx)
  <2> HIDE DEF min, max, a, sx, sy, rx, ry
  <2>1. CollectionFromIndex(n, min, a) = {DigitsOf(ry, a, sy)}
    BY <1>1, <1>2, <1>3, CollectionAt DEF ry, sy
  <2>2. CollectionFromIndex(k, min, a) = {DigitsOf(rx, a, sx)}
    BY <1>1, <1>5, <1>3, CollectionAt DEF rx, sx
  <2>3. CollectionFromIndex(n, min, a) = {oy} /\ CollectionFromIndex(k, min, a) = {ox}
    BY <1>7, <1>8 DEF StandsFor, min, a
  <2> QED BY <2>1, <2>2, <2>3
<1>10. /\ sx \in Nat /\ sy \in Nat /\ rx \in Nat /\ ry \in Nat /\ ry < Power(a, sy)
  <2> HIDE DEF min, max, a
  <2> QED BY <1>1, <1>5, <1>3, CollectionParts
<1>11. sx <= sy /\ (sx = sy => rx = ry - 1)
  <2> HIDE DEF min, max, a
  <2> QED BY <1>1, <1>3, ShorterFirst DEF k
<1> HIDE DEF min, max, a, ivs, sx, sy, rx, ry
<1>12. Len(ox) = sx /\ Len(oy) = sy /\ DOMAIN ox = 1 .. sx /\ DOMAIN oy = 1 .. sy
  <2>1. \A r, s : s \in Nat => Len(DigitsOf(r, a, s)) = s /\ DOMAIN DigitsOf(r, a, s) = 1 .. s
    BY DEF DigitsOf
  <2> QED BY <1>9, <1>10, <2>1
<1>13. CASE type = "bytes"
  <2>1. ChoiceFromIndex(k, type, c) = {ox} /\ ChoiceFromIndex(n, type, c) = {oy} /\ type # "string"
    BY <1>7, <1>8, <1>13 DEF StandsFor, AsValue
  <2>2. Len(ox) <= Len(oy)
    BY <1>11, <1>12
  <2> QED BY <2>1, <2>2 DEF k
<1>14. CASE type = "string"
  <2> DEFINE x == CharsOf(ox, ivs)
             y == CharsOf(oy, ivs)
  <2>1. ChoiceFromIndex(k, type, c) = {x} /\ ChoiceFromIndex(n, type, c) = {y}
    <3>1. AsValue(type, c, ox) = x /\ AsValue(type, c, oy) = y
      BY <1>14 DEF AsValue, ivs
    <3> HIDE DEF x, y
    <3> QED BY <1>7, <1>8, <3>1 DEF StandsFor
  <2>2. ivs \in IntervalsInOrder /\ a = Size(ivs)
    BY <1>1, <1>14 DEF a, Letters, ivs
  <2>3. Len(x) = sx /\ Len(y) = sy /\ DOMAIN x = 1 .. sx /\ DOMAIN y = 1 .. sy
    BY <1>12, <2>2, OrdersOfChars
  <2>4. ASSUME sx = sy, PlainString(y), x # <<>> PROVE IsPlain(x[1])
    <3>1. sx # 0
      <4>1. ASSUME sx = 0 PROVE FALSE
        <5> HIDE DEF x
        <5>1. x \in Seq(Members(ivs)) /\ Len(x) = 0
          <6>1. x = [i \in 1 .. sx |-> x[i]]
            BY <1>12 DEF x, CharsOf
          <6>2. \A i \in 1 .. sx : x[i] \in Members(ivs)
            BY <1>12, <2>2, OrdersOfChars DEF x
          <6>3. x \in [1 .. sx -> Members(ivs)]
            BY <6>1, <6>2
          <6> QED BY <1>10, <2>3, <4>1, <6>3, FunctionIsSeq
        <5>2. x = <<>>
          BY <5>1, EmptySeq
        <5> QED BY <2>4, <5>2
      <4> QED BY <4>1
    <3>2. sy \in Nat \ {0} /\ 1 \in 1 .. sy
      BY <1>10, <2>4, <3>1, SMT
    <3>3. y # <<>>
      <4>1. DOMAIN <<>> = {}
        OBVIOUS
      <4> HIDE DEF y
      <4> QED BY <2>3, <3>2, <4>1
    <3>4. IsPlain(y[1])
      BY <2>4, <3>3 DEF PlainString
    <3>5. rx <= ry
      BY <1>10, <1>11, <2>4, SMT
    <3>6. /\ ox[1] \in Nat /\ ox[1] <= oy[1] /\ oy[1] \in 0 .. a - 1 /\ ox[1] \in 0 .. a - 1
      BY <1>1, <1>3, <1>9, <1>10, <2>4, <3>2, <3>5, FirstDigit DEF a
    <3>7. x[1] = CharInShrinkOrder(ivs, ox[1]) /\ y[1] = CharInShrinkOrder(ivs, oy[1])
      BY <1>12, <2>4, <3>2 DEF CharsOf
    <3> QED BY <2>2, <3>4, <3>6, <3>7, PlainComeFirst
  <2>5. Len(x) <= Len(y)
    BY <1>11, <2>3
  <2>6. Len(x) = Len(y) /\ PlainString(y) => PlainString(x)
    BY <2>3, <2>4 DEF PlainString
  <2> QED BY <2>1, <2>5, <2>6 DEF k
<1> QED BY <1>13, <1>14

\* The value SimplerFirst compares.
ValueAt(n, type, c) == CHOOSE v \in ChoiceFromIndex(n, type, c) : TRUE

\* Of an index that stands for one value, that one.
LEMMA OnlyValue ==
  ASSUME NEW n, NEW type, NEW c, NEW w, ChoiceFromIndex(n, type, c) = {w}
  PROVE  ValueAt(n, type, c) = w
<1>1. ValueAt(n, type, c) = CHOOSE v \in {w} : TRUE
  BY DEF ValueAt
<1>2. (CHOOSE v \in {w} : TRUE) \in {w}
  OBVIOUS
<1> QED BY <1>1, <1>2

\* choice.rs: a smaller index is of a simpler value, in every call.
LEMMA SimplerHolds == Arguments => SimplerFirst
<1> SUFFICES ASSUME Arguments, Calls("index"), at.n > 0, Permits(at.type, at.c, at.n)
             PROVE  LET x == ValueAt(at.n - 1, at.type, at.c)
                        y == ValueAt(at.n, at.type, at.c)
                    IN  CASE at.type = "boolean" -> y
                          [] at.type = "integer" -> Abs(x - ShrinkTowards(at.c)) <= Abs(y - ShrinkTowards(at.c))
                          [] OTHER -> /\ Len(x) <= Len(y)
                                      /\ Len(x) = Len(y) /\ at.type = "string" /\ PlainString(y) => PlainString(x)
  BY DEF SimplerFirst, ValueAt, PlainString, IsPlain
<1> DEFINE type == at.type
           c == at.c
           n == at.n
           x == ValueAt(n - 1, type, c)
           y == ValueAt(n, type, c)
<1>1. type \in {"boolean", "integer", "string", "bytes"} /\ c \in SomeConstraints(type) /\ n \in Nat
      /\ n > 0 /\ Permits(type, c, n)
  <2>1. Indices \subseteq Nat
    BY SMT DEF Indices
  <2> QED BY <2>1 DEF Arguments
<1> HIDE DEF type, c, n, x, y
<1>2. CASE type = "boolean"
  <2>1. BoolFromIndex(n, c)
    BY <1>1, <1>2, BooleanIndex
  <2>2. ChoiceFromIndex(n, type, c) = {BoolFromIndex(n, c)}
    BY <1>2 DEF ChoiceFromIndex
  <2>3. y = BoolFromIndex(n, c)
    BY <2>2, OnlyValue DEF y
  <2>4. y
    BY <2>1, <2>3, Zenon
  <2> QED BY <1>2, <2>4, Zenon DEF type, c, n, x, y
<1>3. CASE type = "integer"
  <2>1. /\ ChoiceFromIndex(n, type, c) = {IntFromIndex(n, c)}
        /\ ChoiceFromIndex(n - 1, type, c) = {IntFromIndex(n - 1, c)}
    BY <1>3 DEF ChoiceFromIndex
  <2>2. x = IntFromIndex(n - 1, c) /\ y = IntFromIndex(n, c)
    <3> DEFINE k == n - 1
               u == IntFromIndex(k, c)
               w == IntFromIndex(n, c)
    <3>1. ChoiceFromIndex(k, type, c) = {u} /\ ChoiceFromIndex(n, type, c) = {w}
      BY <2>1
    <3> HIDE DEF k, u, w
    <3>2. ValueAt(k, type, c) = u /\ ValueAt(n, type, c) = w
      BY <3>1, OnlyValue, ZenonT(60)
    <3> QED BY <3>2 DEF x, y, k, u, w
  <2> DEFINE d == Bounds(c)
  <2>3. c \in SomeIntConstraints
    BY <1>1, <1>3 DEF SomeConstraints
  <2>4. /\ d \in IntConstraints /\ Sensible(d) /\ ShrinkTowards(d) = ShrinkTowards(c)
        /\ IntFromIndex(n, d) = IntFromIndex(n, c) /\ IntFromIndex(n - 1, d) = IntFromIndex(n - 1, c)
        /\ d.has_min = c.has_min /\ d.has_max = c.has_max /\ d.min_value = c.min_value /\ d.max_value = c.max_value
    BY <2>3, OnlyBounds
  <2>5. c.has_min /\ c.has_max => n <= c.max_value - c.min_value
    BY <1>1, <1>3 DEF Permits
  <2> HIDE DEF d
  <2>6. d.has_min /\ d.has_max => n <= d.max_value - d.min_value
    BY <2>4, <2>5
  <2>7. Abs(IntFromIndex(n - 1, d) - ShrinkTowards(d)) <= Abs(IntFromIndex(n, d) - ShrinkTowards(d))
    BY <1>1, <2>4, <2>6, NearerFirst
  <2>8. Abs(x - ShrinkTowards(c)) <= Abs(y - ShrinkTowards(c))
    BY <2>2, <2>4, <2>7
  <2>9. type # "boolean"
    BY <1>3
  <2> QED BY <1>3, <2>8, <2>9, Zenon DEF type, c, n, x, y
<1>4. CASE type \in {"string", "bytes"}
  <2>1. PICK u, v : /\ ChoiceFromIndex(n - 1, type, c) = {u} /\ ChoiceFromIndex(n, type, c) = {v}
                    /\ Len(u) <= Len(v)
                    /\ Len(u) = Len(v) /\ type = "string" /\ PlainString(v) => PlainString(u)
    BY <1>1, <1>4, CollectionsInOrder
  <2>2. x = u /\ y = v
    BY <2>1, OnlyValue, ZenonT(60) DEF x, y
  <2>3. type # "boolean" /\ type # "integer"
    BY <1>4
  <2>4. /\ Len(x) <= Len(y)
        /\ Len(x) = Len(y) /\ type = "string" /\ PlainString(y) => PlainString(x)
    BY <2>1, <2>2
  <2> QED BY <2>3, <2>4, Zenon DEF type, c, n, x, y
<1> QED BY <1>1, <1>2, <1>3, <1>4

\* choice.rs: for every call, a smaller index is of a simpler value.
THEOREM SimplestComeFirst == Spec => []SimplerFirst
BY SimplerHolds, ArgumentsStay, PTL

--------------------------------------------------------------------------------
(* Floats. *)


Bit(x, k) == (x \div Power(2, k)) % 2

\* ReverseBits is the function its recursion describes.
LEMMA ReverseRec ==
  ASSUME NEW x \in Nat
  PROVE  ReverseBits(x, 0) = 0 /\ \A n \in Nat : ReverseBits(x, n + 1) = 2 * ReverseBits(x, n) + Bit(x, n)
<1> DEFINE base == [k \in Nat |-> 0]
           step == [kv \in Nat \X Int |-> 2 * kv[2] + Bit(x, kv[1] - 1)]
           down == [k \in Nat |-> IF k = 0 THEN 0 ELSE k - 1]
           size == [k \in Nat |-> k]
           Is(p) == p = [k \in Nat |-> IF k = 0 THEN 0 ELSE 2 * p[k - 1] + Bit(x, k - 1)]
<1>1. ASSUME NEW k \in Nat PROVE Bit(x, k) \in {0, 1}
  <2>1. Power(2, k) \in Nat \ {0}
    BY PowerPositive
  <2>2. x \div Power(2, k) \in Nat
    BY <2>1, Division
  <2> QED BY <2>2, SMT DEF Bit
<1>2. PICK f \in [Nat -> Int] : f[0] = 0 /\ \A k \in Nat \ {0} : f[k] = 2 * f[k - 1] + Bit(x, k - 1)
  <2> DEFINE bit == [k \in Nat |-> Bit(x, k)]
             stap == [kv \in Nat \X Int |-> IF kv[1] = 0 THEN 0 ELSE 2 * kv[2] + bit[kv[1] - 1]]
  <2>1. bit \in [Nat -> Int]
    BY <1>1
  <2>2. \A k \in Nat : bit[k] = Bit(x, k)
    OBVIOUS
  <2> HIDE DEF bit
  <2>3. base \in [Nat -> Int] /\ stap \in [Nat \X Int -> Int] /\ down \in [Nat -> Nat] /\ size \in [Nat -> Nat]
    BY <2>1, SMT
  <2>4. \A k \in Nat : down[k] # k => size[down[k]] < size[k]
    BY SMT
  <2>5. Descends(Nat, Int, size, down, base, stap)
    BY <2>3, <2>4 DEF Descends
  <2>6. PICK f \in [Nat -> Int] : Recurses(f, Nat, base, stap, down)
    <3> HIDE DEF base, stap, down, size
    <3> QED BY <2>5, Recursion
  <2>7. ASSUME NEW k \in Nat PROVE f[k] = IF k = 0 THEN 0 ELSE 2 * f[k - 1] + bit[k - 1]
    <3>1. f[k] = IF down[k] = k THEN base[k] ELSE stap[<<k, f[down[k]]>>]
      BY <2>6 DEF Recurses
    <3> QED BY <3>1, SMT
  <2>8. f[0] = 0
    BY <2>7
  <2>9. ASSUME NEW k \in Nat \ {0} PROVE f[k] = 2 * f[k - 1] + Bit(x, k - 1)
    <3>1. k - 1 \in Nat /\ k # 0
      BY SMT
    <3> QED BY <2>2, <2>7, <3>1
  <2> QED BY <2>8, <2>9
<1>3. Is(f)
  <2>1. ASSUME NEW k \in Nat PROVE f[k] = IF k = 0 THEN 0 ELSE 2 * f[k - 1] + Bit(x, k - 1)
    BY <1>2
  <2> QED BY <2>1, <1>2
<1> DEFINE p == CHOOSE q : Is(q)
<1>4. Is(p)
  <2> HIDE DEF Is
  <2> QED BY <1>3
<1>5. \A k \in Nat : ReverseBits(x, k) = p[k]
  BY Zenon DEF ReverseBits, Bit
<1> HIDE DEF p
<1>6. p[0] = 0
  BY <1>4
<1>7. ASSUME NEW n \in Nat PROVE p[n + 1] = 2 * p[n] + Bit(x, n)
  <2>1. n + 1 \in Nat /\ n + 1 # 0 /\ (n + 1) - 1 = n
    BY SMT
  <2> DEFINE k == n + 1
  <2>2. p[k] = IF k = 0 THEN 0 ELSE 2 * p[k - 1] + Bit(x, k - 1)
    BY <1>4, <2>1
  <2> QED BY <2>1, <2>2
<1>8. ASSUME NEW n \in Nat PROVE ReverseBits(x, n + 1) = 2 * ReverseBits(x, n) + Bit(x, n)
  <2>1. n + 1 \in Nat
    BY SMT
  <2> QED BY <1>5, <1>7, <2>1
<1> QED BY <1>5, <1>6, <1>8

\* A bit is 0 or 1.
LEMMA BitType == ASSUME NEW x \in Nat, NEW k \in Nat PROVE Bit(x, k) \in {0, 1}
<1>1. Power(2, k) \in Nat \ {0}
  BY PowerPositive
<1>2. x \div Power(2, k) \in Nat
  BY <1>1, Division
<1> QED BY <1>2, SMT DEF Bit

\* The bits of a number with one more put below.
LEMMA BitsShifted ==
  ASSUME NEW a \in Nat, NEW b \in {0, 1}
  PROVE  /\ 2 * a + b \in Nat /\ (2 * a + b) \div 2 = a
         /\ Bit(2 * a + b, 0) = b /\ \A j \in Nat : Bit(2 * a + b, j + 1) = Bit(a, j)
<1> DEFINE n == 2 * a + b
<1>1. n \in Nat /\ n \in Int /\ b \in 0 .. 2 - 1 /\ 2 \in Nat \ {0} /\ a \in Int
  BY SMT
<1>2. n \div 2 = a /\ n % 2 = b
  <2>1. n = 2 * a + b
    OBVIOUS
  <2> HIDE DEF n
  <2> QED BY <1>1, <2>1, DivisionUnique
<1> HIDE DEF n
<1>3. Bit(n, 0) = b
  <2>1. Power(2, 0) = 1
    BY PowerRec, SMT
  <2>2. n \div 1 = n
    BY <1>1, SMT
  <2> QED BY <1>2, <2>1, <2>2 DEF Bit
<1>4. ASSUME NEW j \in Nat PROVE Bit(n, j + 1) = Bit(a, j)
  <2>1. Power(2, j + 1) = 2 * Power(2, j)
    BY PowerRec, SMT
  <2>2. Power(2, j) \in Nat \ {0}
    BY PowerPositive
  <2>3. (n \div 2) \div Power(2, j) = n \div (2 * Power(2, j))
    BY <1>1, <2>2, DivDiv
  <2> QED BY <1>2, <2>1, <2>3 DEF Bit
<1> QED BY <1>1, <1>2, <1>3, <1>4 DEF n

\* A number below 2^n is made of its n lowest bits.
LEMMA SameBits ==
  \A n \in Nat : \A x, y \in Nat :
     x < Power(2, n) /\ y < Power(2, n) /\ (\A j \in 0 .. n - 1 : Bit(x, j) = Bit(y, j)) => x = y
<1> DEFINE T == {n \in Nat : \A x, y \in Nat :
     x < Power(2, n) /\ y < Power(2, n) /\ (\A j \in 0 .. n - 1 : Bit(x, j) = Bit(y, j)) => x = y}
<1>1. 0 \in T
  <2>1. Power(2, 0) = 1
    BY PowerRec, SMT
  <2>2. \A x, y \in Nat : x < 1 /\ y < 1 => x = y
    BY SMT
  <2> QED BY <2>1, <2>2
<1>2. ASSUME NEW n \in Nat, n \in T PROVE n + 1 \in T
  <2>1. ASSUME NEW x \in Nat, NEW y \in Nat, x < Power(2, n + 1), y < Power(2, n + 1),
               \A j \in 0 .. (n + 1) - 1 : Bit(x, j) = Bit(y, j)
        PROVE  x = y
    <3> DEFINE p == Power(2, n)
    <3>1. p \in Nat /\ x < 2 * p /\ y < 2 * p
      <4>1. Power(2, n + 1) = 2 * p
        BY PowerRec, SMT
      <4>2. p \in Nat
        BY PowerNat
      <4> QED BY <2>1, <4>1, <4>2
    <3> HIDE DEF p
    <3>2. PICK a \in Nat, b \in {0, 1} : x = 2 * a + b /\ a < p
      <4>1. x \div 2 \in Nat /\ x % 2 \in {0, 1} /\ x = 2 * (x \div 2) + (x % 2) /\ x \div 2 < p
        BY <3>1, SMT
      <4> QED BY <4>1
    <3>3. PICK c \in Nat, d \in {0, 1} : y = 2 * c + d /\ c < p
      <4>1. y \div 2 \in Nat /\ y % 2 \in {0, 1} /\ y = 2 * (y \div 2) + (y % 2) /\ y \div 2 < p
        BY <3>1, SMT
      <4> QED BY <4>1
    <3>4. /\ Bit(x, 0) = b /\ \A j \in Nat : Bit(x, j + 1) = Bit(a, j)
          /\ Bit(y, 0) = d /\ \A j \in Nat : Bit(y, j + 1) = Bit(c, j)
      <4> DEFINE u == 2 * a + b
                 v == 2 * c + d
      <4>1. /\ Bit(u, 0) = b /\ \A j \in Nat : Bit(u, j + 1) = Bit(a, j)
            /\ Bit(v, 0) = d /\ \A j \in Nat : Bit(v, j + 1) = Bit(c, j)
        BY BitsShifted
      <4>2. x = u /\ y = v
        BY <3>2, <3>3
      <4> HIDE DEF u, v
      <4> QED BY <4>1, <4>2
    <3>5. b = d
      <4>1. 0 \in 0 .. (n + 1) - 1
        BY SMT
      <4> QED BY <2>1, <3>4, <4>1
    <3>6. \A j \in 0 .. n - 1 : Bit(a, j) = Bit(c, j)
      <4>1. \A j \in 0 .. n - 1 : j \in Nat /\ j + 1 \in 0 .. (n + 1) - 1
        BY SMT
      <4> QED BY <2>1, <3>4, <4>1
    <3>7. a = c
      BY <1>2, <3>2, <3>3, <3>6 DEF p
    <3> QED BY <3>2, <3>3, <3>5, <3>7
  <2>2. n + 1 \in Nat
    BY SMT
  <2> QED BY <2>1, <2>2
<1>3. Nat \subseteq T
  <2> HIDE DEF T
  <2> QED BY <1>1, <1>2, NatSetInduction
<1> QED BY <1>3

\* The bits of the reversal.
LEMMA ReversedBits ==
  ASSUME NEW x \in Nat
  PROVE  \A n \in Nat : /\ ReverseBits(x, n) \in Nat /\ ReverseBits(x, n) < Power(2, n)
                        /\ \A j \in 0 .. n - 1 : Bit(ReverseBits(x, n), j) = Bit(x, n - 1 - j)
<1> DEFINE Good(n) == /\ ReverseBits(x, n) \in Nat /\ ReverseBits(x, n) < Power(2, n)
                      /\ \A j \in 0 .. n - 1 : Bit(ReverseBits(x, n), j) = Bit(x, n - 1 - j)
           T == {n \in Nat : Good(n)}
<1>1. 0 \in T
  <2>1. Power(2, 0) = 1 /\ ReverseBits(x, 0) = 0
    BY PowerRec, ReverseRec, SMT
  <2>2. ~ \E j \in 0 .. 0 - 1 : TRUE
    BY SMT
  <2> QED BY <2>1, <2>2, SMT
<1>2. ASSUME NEW n \in Nat, n \in T PROVE n + 1 \in T
  <2> DEFINE a == ReverseBits(x, n)
             b == Bit(x, n)
             c == ReverseBits(x, n + 1)
             p == Power(2, n)
  <2>1. a \in Nat /\ a < p /\ \A j \in 0 .. n - 1 : Bit(a, j) = Bit(x, n - 1 - j)
    BY <1>2
  <2>2. b \in {0, 1} /\ c = 2 * a + b /\ p \in Nat /\ Power(2, n + 1) = 2 * p /\ b = Bit(x, n)
    <3>1. b \in {0, 1}
      BY BitType
    <3>2. c = 2 * a + b
      BY ReverseRec
    <3>3. p \in Nat
      BY PowerNat
    <3>4. Power(2, n + 1) = 2 * p
      BY PowerRec, SMT
    <3> QED BY <3>1, <3>2, <3>3, <3>4
  <2> HIDE DEF a, b, c, p
  <2>3. c \in Nat /\ c < 2 * p
    BY <2>1, <2>2, SMT
  <2>4. Bit(c, 0) = b /\ \A j \in Nat : Bit(c, j + 1) = Bit(a, j)
    <3> DEFINE u == 2 * a + b
    <3>1. Bit(u, 0) = b /\ \A j \in Nat : Bit(u, j + 1) = Bit(a, j)
      BY <2>1, <2>2, BitsShifted
    <3>2. c = u
      BY <2>2
    <3> HIDE DEF u
    <3> QED BY <3>1, <3>2
  <2>5. ASSUME NEW j \in 0 .. (n + 1) - 1 PROVE Bit(c, j) = Bit(x, (n + 1) - 1 - j)
    <3>1. CASE j = 0
      <4>1. (n + 1) - 1 - j = n
        BY <3>1, SMT
      <4> QED BY <2>2, <2>4, <3>1, <4>1
    <3>2. CASE j # 0
      <4> DEFINE i == j - 1
      <4>1. i \in Nat /\ i \in 0 .. n - 1 /\ j = i + 1 /\ n - 1 - i = (n + 1) - 1 - j
        BY <3>2, SMT
      <4> HIDE DEF i
      <4>2. Bit(c, i + 1) = Bit(x, n - 1 - i)
        BY <2>1, <2>4, <4>1
      <4> QED BY <4>1, <4>2
    <3> QED BY <3>1, <3>2
  <2>6. Good(n + 1)
    BY <2>2, <2>3, <2>5 DEF c
  <2>7. n + 1 \in Nat
    BY SMT
  <2> HIDE DEF Good
  <2> QED BY <2>6, <2>7
<1>3. Nat \subseteq T
  <2> HIDE DEF T
  <2> QED BY <1>1, <1>2, NatSetInduction
<1> QED BY <1>3

\* Reversing twice changes nothing.
LEMMA ReversedTwice ==
  ASSUME NEW n \in Nat, NEW x \in Nat, x < Power(2, n)
  PROVE  ReverseBits(ReverseBits(x, n), n) = x
<1> DEFINE y == ReverseBits(x, n)
           z == ReverseBits(y, n)
<1>1. y \in Nat /\ \A j \in 0 .. n - 1 : Bit(y, j) = Bit(x, n - 1 - j)
  BY ReversedBits
<1>2. z \in Nat /\ z < Power(2, n) /\ \A j \in 0 .. n - 1 : Bit(z, j) = Bit(y, n - 1 - j)
  <2> HIDE DEF y
  <2> QED BY <1>1, ReversedBits
<1> HIDE DEF y, z
<1>3. ASSUME NEW j \in 0 .. n - 1 PROVE Bit(z, j) = Bit(x, j)
  <2>1. n - 1 - j \in 0 .. n - 1 /\ n - 1 - (n - 1 - j) = j
    BY SMT
  <2> QED BY <1>1, <1>2, <2>1
<1>4. z = x
  BY <1>2, <1>3, SameBits
<1> QED BY <1>4 DEF y, z


\* The constants of the format are naturals, and what they are of one another.
LEMMA Format ==
  /\ E \in Nat \ {0} /\ M \in Nat \ {0} /\ NE \in Nat \ {0} /\ NM \in Nat \ {0}
  /\ Hidden \in Nat \ {0} /\ Power(2, E) \in Nat \ {0} /\ Bias \in Nat
  /\ Power(2, E) = 2 * (Bias + 1) /\ MaxExp = 2 * Bias + 1 /\ MaxExp \in Nat \ {0}
  /\ NegBit = Power(2, E) * Hidden /\ NegBit \in Nat \ {0}
  /\ Inf \in Nat /\ Inf + Hidden = NegBit
  /\ One \in Nat \ {0} /\ Bias + M - 1 \in Nat
<1>1. E \in Nat \ {0} /\ M \in Nat \ {0} /\ NE \in Nat \ {0} /\ NM \in Nat \ {0}
  BY FormatAssumption
<1>2. Hidden \in Nat \ {0} /\ Power(2, E) \in Nat \ {0}
  BY <1>1, PowerPositive DEF Hidden
<1>3. Bias \in Nat /\ Power(2, E) = 2 * (Bias + 1)
  <2> DEFINE e == E - 1
  <2>1. e \in Nat /\ E = e + 1
    BY <1>1, SMT
  <2> HIDE DEF e
  <2>2. Power(2, e) \in Nat \ {0} /\ Power(2, e + 1) = 2 * Power(2, e)
    BY <2>1, PowerPositive, PowerRec, SMT
  <2>3. Bias = Power(2, e) - 1
    BY DEF Bias, e
  <2> QED BY <2>1, <2>2, <2>3
<1>4. MaxExp = 2 * Bias + 1 /\ MaxExp \in Nat \ {0}
  BY <1>3, SMT DEF MaxExp
<1>5. NegBit = Power(2, E) * Hidden
  BY <1>1, PowerSum DEF NegBit, Hidden
<1>6. Inf \in Nat
  BY <1>2, <1>4, ProductNat DEF Inf
<1>7. Inf + Hidden = NegBit
  <2> DEFINE h == Hidden
             x == Power(2, E)
  <2>1. MaxExp = x - 1
    BY DEF MaxExp
  <2>2. h \in Nat /\ x \in Nat
    BY <1>2
  <2> HIDE DEF h, x
  <2>3. (x - 1) * h + h = x * h
    BY <2>2, SMT
  <2> QED BY <1>5, <2>1, <2>3 DEF Inf, h, x
<1>8. NegBit \in Nat \ {0}
  BY <1>2, <1>6, <1>7
<1>9. Bias + M - 1 \in Nat
  BY <1>1, <1>3
<1>10. One \in Nat \ {0}
  BY <1>9, PowerPositive DEF One
<1> QED BY <1>1, <1>2, <1>3, <1>4, <1>5, <1>6, <1>7, <1>8, <1>9, <1>10

\* A float that is not negative is its exponent and its mantissa.
LEMMA FloatParts ==
  ASSUME NEW f \in 0 .. NegBit - 1
  PROVE  /\ f \in Nat /\ Mag(f) = f /\ ~IsNegative(f) /\ Num(f) = f
         /\ Exp(f) \in 0 .. MaxExp /\ Mant(f) \in 0 .. Hidden - 1
         /\ f = Hidden * Exp(f) + Mant(f)
<1>1. f \in Nat /\ f < NegBit /\ NegBit \in Nat \ {0} /\ Hidden \in Nat \ {0}
  BY Format
<1>2. Mag(f) = f
  BY <1>1, SMT DEF Mag
<1>3. ~IsNegative(f) /\ Num(f) = f
  BY <1>1, <1>2, SMT DEF IsNegative, Num
<1>4. f \div Hidden \in Nat /\ f % Hidden \in 0 .. Hidden - 1 /\ f = Hidden * (f \div Hidden) + (f % Hidden)
  BY <1>1, Division
<1>5. f \div Hidden < Power(2, E)
  BY <1>1, Format, QuotientLess
<1>6. f \div Hidden \in 0 .. MaxExp
  BY <1>4, <1>5, Format, SMT DEF MaxExp
<1> QED BY <1>1, <1>2, <1>3, <1>4, <1>6 DEF Exp, Mant

\* An exponent and a mantissa are a float that is not negative.
LEMMA PartsOf ==
  ASSUME NEW e \in 0 .. MaxExp, NEW m \in 0 .. Hidden - 1
  PROVE  /\ e * Hidden + m \in 0 .. NegBit - 1
         /\ Exp(e * Hidden + m) = e /\ Mant(e * Hidden + m) = m
<1> DEFINE h == Hidden
           x == Power(2, E)
           f == e * h + m
<1>1. h \in Nat \ {0} /\ x \in Nat /\ e \in Nat /\ e <= x - 1 /\ m \in 0 .. h - 1 /\ NegBit = x * h
  BY Format DEF MaxExp
<1> HIDE DEF h, x
<1>2. e * h <= (x - 1) * h /\ e * h \in Nat
  <2>1. x - 1 \in Nat
    BY <1>1
  <2> QED BY <1>1, <2>1, ProductMonotone, ProductNat
<1>3. (x - 1) * h + h = x * h /\ x * h \in Nat
  BY <1>1, SMT
<1>4. f \in 0 .. NegBit - 1
  BY <1>1, <1>2, <1>3
<1>5. f \div h = e /\ f % h = m
  <2>1. f = h * e + m /\ f \in Int /\ e \in Int
    BY <1>1, <1>2, SMT
  <2> HIDE DEF f
  <2> QED BY <1>1, <2>1, DivisionUnique
<1>6. Mag(f) = f
  <2> HIDE DEF f
  <2> QED BY <1>4, FloatParts
<1> HIDE DEF f
<1>7. Exp(f) = e /\ Mant(f) = m
  BY <1>5, <1>6 DEF Exp, Mant, h
<1> QED BY <1>4, <1>7 DEF f, h

\* Reversing the fractional bits of a mantissa twice changes nothing.
LEMMA MantissaTwice ==
  ASSUME NEW u \in Int, NEW m \in 0 .. Hidden - 1
  PROVE  /\ UpdateMantissa(u, m) \in 0 .. Hidden - 1
         /\ UpdateMantissa(u, UpdateMantissa(u, m)) = m
<1> DEFINE n == IF u <= 0 THEN M ELSE M - u
<1>1. n \in Int /\ n <= M /\ M \in Nat
  BY Format
<1>2. CASE n <= 0
  <2>1. \A v : UpdateMantissa(u, v) = v
    BY <1>2 DEF UpdateMantissa
  <2> QED BY <2>1
<1>3. CASE ~(n <= 0)
  <2> DEFINE p == Power(2, n)
             s == Power(2, M - n)
             New(v) == (v - (v % p)) + ReverseBits(v % p, n)
  <2>1. n \in Nat /\ M - n \in Nat /\ n + (M - n) = M
    BY <1>1, <1>3
  <2>2. \A v : UpdateMantissa(u, v) = New(v)
    BY <1>3, Zenon DEF UpdateMantissa
  <2> HIDE DEF n
  <2>3. p \in Nat \ {0} /\ s \in Nat \ {0}
    BY <2>1, PowerPositive
  <2>4. Hidden = p * s
    <3> DEFINE k == M - n
    <3>1. k \in Nat /\ n + k = M
      BY <2>1
    <3> HIDE DEF k
    <3>2. Power(2, n + k) = Power(2, n) * Power(2, k)
      BY <2>1, <3>1, PowerSum
    <3> QED BY <3>1, <3>2 DEF Hidden, k
  <2> DEFINE q == m \div p
             r == m % p
             R == ReverseBits(r, n)
             w == p * q + R
  <2>5. m \in Nat /\ q \in Nat /\ r \in 0 .. p - 1 /\ m = p * q + r
    <3>1. m \in Nat
      BY Format
    <3> HIDE DEF p
    <3> QED BY <2>3, <3>1, Division
  <2>6. R \in 0 .. p - 1 /\ ReverseBits(R, n) = r
    <3>1. r \in Nat /\ r < p
      BY <2>3, <2>5
    <3> HIDE DEF r
    <3>2. R \in Nat /\ R < p
      BY <2>1, <3>1, ReversedBits
    <3>3. ReverseBits(R, n) = r
      BY <2>1, <3>1, ReversedTwice
    <3> HIDE DEF R
    <3> QED BY <2>3, <3>2, <3>3
  <2>7. New(m) = w
    <3>1. New(m) = (m - r) + R
      OBVIOUS
    <3> HIDE DEF q, r, R, New
    <3>2. p * q \in Int
      BY <2>3, <2>5, ProductNat
    <3> HIDE DEF p
    <3> QED BY <2>5, <2>6, <3>1, <3>2
  <2>8. w \in Nat /\ w < Hidden
    <3>1. q < s
      <4>1. m < s * p
        BY <2>3, <2>4, Format, SMT
      <4> HIDE DEF p, s
      <4> QED BY <2>3, <2>5, <4>1, QuotientLess
    <3> HIDE DEF q, R, p, s
    <3>2. p * (q + 1) <= p * s /\ p * (q + 1) = p * q + p /\ p * q \in Nat
      <4>1. q + 1 \in Nat /\ q + 1 <= s
        BY <2>3, <2>5, <3>1
      <4>2. p * (q + 1) <= p * s
        BY <2>3, <4>1, ProductMonotone
      <4> QED BY <2>3, <2>5, <4>2, SMT
    <3>3. p * s \in Nat
      BY <2>3, ProductNat
    <3> QED BY <2>3, <2>4, <2>6, <3>2, <3>3
  <2>9. New(w) = m
    <3>1. w \div p = q /\ w % p = R
      <4>1. w = p * q + R /\ w \in Int /\ q \in Int /\ R \in 0 .. p - 1 /\ p \in Nat \ {0}
        BY <2>3, <2>5, <2>6, <2>8
      <4> HIDE DEF w, p, q, r, R
      <4> QED BY <4>1, DivisionUnique
    <3>2. New(w) = (w - R) + r
      BY <2>6, <3>1
    <3> HIDE DEF q, r, R, New
    <3>3. p * q \in Int
      BY <2>3, <2>5, ProductNat
    <3> HIDE DEF p
    <3> QED BY <2>5, <2>6, <3>2, <3>3
  <2>10. w \in 0 .. Hidden - 1
    BY <2>8, Format
  <2> HIDE DEF w, New
  <2> QED BY <2>2, <2>7, <2>9, <2>10
<1> QED BY <1>2, <1>3

\* No two exponents have the same key.
LEMMA KeysDiffer ==
  /\ \A e \in 0 .. MaxExp : ExponentKey(e) \in Int
  /\ \A d, e \in 0 .. MaxExp : ExponentKey(d) = ExponentKey(e) => d = e
<1>1. Power(2, E) <= 2048
  <2>1. /\ Power(2, 0) = 1 /\ Power(2, 1) = 2 /\ Power(2, 2) = 4 /\ Power(2, 3) = 8
        /\ Power(2, 4) = 16 /\ Power(2, 5) = 32
    <3>1. /\ Power(2, 0) = 1 /\ Power(2, 0 + 1) = 2 * Power(2, 0) /\ Power(2, 1 + 1) = 2 * Power(2, 1)
          /\ Power(2, 2 + 1) = 2 * Power(2, 2) /\ Power(2, 3 + 1) = 2 * Power(2, 3)
          /\ Power(2, 4 + 1) = 2 * Power(2, 4)
      BY PowerRec, SMT
    <3> QED BY <3>1, SMT
  <2>2. Power(2, 5 + 5) = 32 * 32 /\ Power(2, 10 + 1) = 2 * Power(2, 10)
    BY <2>1, PowerSum, PowerRec, SMT
  <2>3. Power(2, 11) = 2048
    BY <2>2, SMT
  <2>4. E \in Nat /\ 11 \in Nat /\ E <= 11 /\ 2 \in Nat \ {0}
    BY FormatAssumption, SMT
  <2> QED BY <2>3, <2>4, PowerMonotone
<1>2. Bias \in Nat /\ Bias <= 1023 /\ MaxExp = 2 * Bias + 1
  BY <1>1, Format, SMT
<1> QED BY <1>2, SMT DEF ExponentKey

\* The tables of exponents are inverse to one another.
LEMMA ExponentTables ==
  ASSUME NEW e \in 0 .. MaxExp
  PROVE  EncodeExponent[e] \in 0 .. MaxExp /\ DecodeExponent[EncodeExponent[e]] = e
<1> DEFINE S == 0 .. MaxExp
           Preceding(x) == {d \in S : ExponentKey(d) < ExponentKey(x)}
           rank == EncodeExponent
<1>1. IsFiniteSet(S) /\ Cardinality(S) = MaxExp + 1 /\ MaxExp \in Nat
  <2>1. 0 \in Int /\ MaxExp \in Int /\ MaxExp \in Nat
    BY Format
  <2>2. Cardinality(S) = IF 0 > MaxExp THEN 0 ELSE MaxExp - 0 + 1
    BY <2>1, FS_Interval
  <2>3. IsFiniteSet(S)
    BY <2>1, FS_Interval
  <2> QED BY <2>1, <2>2, <2>3
<1>2. rank = [x \in S |-> Cardinality(Preceding(x))]
  BY Zenon DEF EncodeExponent
<1>3. \A x \in S : ExponentKey(x) \in Int
  BY KeysDiffer
<1>4. \A x \in S : x \notin Preceding(x) /\ Preceding(x) \subseteq S
  BY <1>3, SMT
<1> HIDE DEF rank
<1>5. ASSUME NEW x \in S PROVE rank[x] \in S
  <2> HIDE DEF Preceding, S
  <2>1. Preceding(x) \subseteq S /\ Preceding(x) # S
    BY <1>4
  <2>2. Cardinality(Preceding(x)) < Cardinality(S) /\ Cardinality(Preceding(x)) \in Nat
    BY <1>1, <2>1, FS_Subset, FS_CardinalityType
  <2>3. rank[x] = Cardinality(Preceding(x))
    BY <1>2
  <2>4. rank[x] \in Nat /\ rank[x] < MaxExp + 1
    BY <1>1, <2>2, <2>3
  <2> QED BY <1>1, <2>4 DEF S
<1>6. ASSUME NEW x \in S, NEW y \in S, ExponentKey(x) < ExponentKey(y) PROVE rank[x] < rank[y]
  <2>1. Preceding(x) \subseteq Preceding(y) /\ x \in Preceding(y)
    BY <1>3, <1>6, SMT
  <2> HIDE DEF Preceding, S
  <2>2. Preceding(x) # Preceding(y) /\ IsFiniteSet(Preceding(y))
    BY <1>1, <1>4, <2>1, FS_Subset
  <2>3. Cardinality(Preceding(x)) < Cardinality(Preceding(y))
    <3> DEFINE B == Preceding(y)
               A == Preceding(x)
    <3>1. IsFiniteSet(B) /\ A \in SUBSET B /\ A # B
      BY <2>1, <2>2
    <3> HIDE DEF A, B
    <3>2. Cardinality(A) <= Cardinality(B) /\ Cardinality(A) # Cardinality(B) /\ IsFiniteSet(A)
      BY <3>1, FS_Subset
    <3>3. Cardinality(A) \in Nat /\ Cardinality(B) \in Nat
      BY <3>1, <3>2, FS_CardinalityType
    <3>4. Cardinality(A) < Cardinality(B)
      BY <3>2, <3>3
    <3> QED BY <3>4 DEF A, B
  <2> QED BY <1>2, <2>3
<1>7. ASSUME NEW x \in S, NEW y \in S, rank[x] = rank[y] PROVE x = y
  <2>1. rank[x] \in Int /\ rank[y] \in Int
    BY <1>5
  <2>2. ~(rank[x] < rank[y]) /\ ~(rank[y] < rank[x])
    BY <1>7, <2>1
  <2>3. ~(ExponentKey(x) < ExponentKey(y)) /\ ~(ExponentKey(y) < ExponentKey(x))
    BY <1>6, <2>2
  <2>4. ExponentKey(x) \in Int /\ ExponentKey(y) \in Int
    BY <1>3
  <2>5. ExponentKey(x) = ExponentKey(y)
    BY <2>3, <2>4
  <2> QED BY <2>5, KeysDiffer
<1> HIDE DEF S, Preceding
<1>8. e \in S
  BY DEF S
<1>9. DecodeExponent[rank[e]] = e
  <2> DEFINE t == rank[e]
  <2>1. t \in S /\ t \in Range(rank)
    <3>1. t \in S
      BY <1>5, <1>8
    <3>2. DOMAIN rank = S
      BY <1>2
    <3> QED BY <1>8, <3>1, <3>2 DEF Range
  <2>2. DecodeExponent = [i \in S |-> CHOOSE s \in S : i \in Range(rank) => rank[s] = i]
    BY Zenon DEF DecodeExponent, Inverse, S, rank
  <2>3. DecodeExponent[t] = CHOOSE s \in S : t \in Range(rank) => rank[s] = t
    BY <2>1, <2>2
  <2>4. \E s \in S : t \in Range(rank) => rank[s] = t
    BY <1>8
  <2> DEFINE s0 == CHOOSE s \in S : t \in Range(rank) => rank[s] = t
  <2>5. s0 \in S /\ (t \in Range(rank) => rank[s0] = t)
    BY <2>4
  <2> HIDE DEF s0
  <2>6. s0 = e
    BY <1>7, <1>8, <2>1, <2>5
  <2> QED BY <2>3, <2>6 DEF s0
<1>10. rank[e] \in S
  BY <1>5, <1>8
<1> QED BY <1>9, <1>10 DEF rank, S


\* The units of a magnitude: below Hidden of the subnormal ones, and from
\* Hidden * 2^(e - 1) to twice as many of the others.
LEMMA UnitsOf ==
  ASSUME NEW f \in 0 .. NegBit - 1
  PROVE  /\ Units(f) \in Nat
         /\ Exp(f) = 0 => Units(f) = f /\ f < Hidden
         /\ Exp(f) # 0 => /\ Exp(f) - 1 \in Nat
                          /\ Hidden * Power(2, Exp(f) - 1) <= Units(f)
                          /\ Units(f) < 2 * (Hidden * Power(2, Exp(f) - 1))
<1> DEFINE e == Exp(f)
           m == Mant(f)
           h == Hidden
<1>1. e \in Nat /\ m \in Nat /\ m < h /\ h \in Nat \ {0} /\ f = h * e + m /\ h = Hidden
  BY FloatParts, Format
<1>2. CASE e = 0
  <2>1. Units(f) = m
    BY <1>2 DEF Units
  <2> HIDE DEF e, m, h
  <2>2. h * e = 0
    BY <1>1, <1>2, SMT
  <2>3. f = m
    BY <1>1, <2>2
  <2> QED BY <1>1, <1>2, <2>1, <2>3 DEF e
<1>3. CASE e # 0
  <2> DEFINE p == Power(2, e - 1)
  <2>1. Units(f) = (h + m) * p
    BY <1>3 DEF Units
  <2>2. e - 1 \in Nat
    BY <1>1, <1>3
  <2>3. p \in Nat \ {0}
    BY <2>2, PowerPositive
  <2> HIDE DEF p, e, m, h
  <2>4. (h + m) * p = h * p + m * p /\ m * p \in Nat /\ h * p \in Nat /\ m * p < h * p
    BY <1>1, <2>3, SMT
  <2>5. Units(f) \in Nat /\ h * p <= Units(f) /\ Units(f) < 2 * (h * p)
    BY <2>1, <2>4
  <2> QED BY <1>1, <1>3, <2>2, <2>5 DEF e, p
<1> QED BY <1>2, <1>3

\* A greater magnitude has more units.
LEMMA UnitsGrow ==
  ASSUME NEW f \in 0 .. NegBit - 1, NEW g \in 0 .. NegBit - 1, f < g
  PROVE  Units(f) < Units(g)
<1> DEFINE d == Exp(f)
           e == Exp(g)
           m == Mant(f)
           n == Mant(g)
           h == Hidden
<1>1. /\ d \in Nat /\ m \in Nat /\ m < h /\ h \in Nat \ {0} /\ f = h * d + m
      /\ e \in Nat /\ n \in Nat /\ n < h /\ g = h * e + n /\ h = Hidden
  BY FloatParts, Format
<1>2. /\ Units(f) \in Nat /\ (d = 0 => Units(f) = f /\ f < h)
      /\ d # 0 => /\ d - 1 \in Nat
                  /\ Units(f) < 2 * (h * Power(2, d - 1))
  BY UnitsOf
<1>3. /\ Units(g) \in Nat /\ (e = 0 => Units(g) = g)
      /\ e # 0 => /\ e - 1 \in Nat /\ h * Power(2, e - 1) <= Units(g)
  BY UnitsOf
<1>4. Units(f) = IF d = 0 THEN m ELSE (h + m) * Power(2, d - 1)
  BY Zenon DEF Units
<1>5. Units(g) = IF e = 0 THEN n ELSE (h + n) * Power(2, e - 1)
  BY Zenon DEF Units
<1> HIDE DEF d, e, m, n, h
<1>6. d <= e
  <2>1. SUFFICES ASSUME e < d PROVE FALSE
    BY <1>1
  <2>2. e + 1 \in Nat /\ e + 1 <= d
    BY <1>1, <2>1
  <2>3. h * (e + 1) <= h * d
    BY <1>1, <2>2, ProductMonotone
  <2>4. h * (e + 1) = h * e + h /\ h * e \in Nat /\ h * d \in Nat
    BY <1>1, SMT
  <2> HIDE DEF Units
  <2>5. g < h * e + h /\ h * e + h <= f
    BY <1>1, <2>3, <2>4
  <2> QED BY <1>1, <2>4, <2>5
<1>7. CASE d = e
  <2>1. m < n
    <3>1. h * d \in Nat /\ h * d = h * e
      BY <1>1, <1>7, ProductNat
    <3> QED BY <1>1, <3>1
  <2>2. CASE d = 0
    BY <1>1, <1>4, <1>5, <1>7, <2>1, <2>2
  <2>3. CASE d # 0
    <3> DEFINE p == Power(2, d - 1)
    <3>1. p \in Nat \ {0}
      BY <1>2, <2>3, PowerPositive
    <3>2. Units(f) = (h + m) * p /\ Units(g) = (h + n) * p
      BY <1>4, <1>5, <1>7, <2>3
    <3> HIDE DEF p
    <3>3. (h + m) * p < (h + n) * p
      BY <1>1, <2>1, <3>1, SMT
    <3> QED BY <3>2, <3>3
  <2> QED BY <2>2, <2>3
<1>8. CASE d < e
  <2>0. e # 0 /\ e - 1 \in Nat /\ h * Power(2, e - 1) <= Units(g)
    BY <1>1, <1>3, <1>8
  <2> DEFINE q == Power(2, e - 1)
  <2>1. q \in Nat \ {0}
    BY <2>0, PowerPositive
  <2>2. CASE d = 0
    <3>1. h <= h * q
      <4> HIDE DEF q
      <4> QED BY <1>1, <2>1, SMT
    <3>2. h * q \in Nat
      <4> HIDE DEF q
      <4> QED BY <1>1, <2>1, ProductNat
    <3> HIDE DEF q
    <3>3. h * q <= Units(g)
      BY <2>0 DEF q
    <3> QED BY <1>1, <1>2, <1>3, <2>2, <3>1, <3>2, <3>3
  <2>3. CASE d # 0
    <3> DEFINE p == Power(2, d - 1)
    <3>1. p \in Nat \ {0} /\ 2 * p <= q
      <4> DEFINE c == d - 1
      <4>1. c \in Nat /\ c + 1 = d /\ d <= e - 1
        BY <1>1, <1>2, <1>8, <2>3
      <4> HIDE DEF c
      <4>2. Power(2, c + 1) = 2 * Power(2, c)
        BY <4>1, PowerRec, SMT
      <4>4. Power(2, c) \in Nat \ {0}
        BY <4>1, PowerPositive
      <4>3. Power(2, d) <= Power(2, e - 1)
        BY <1>1, <2>0, <4>1, PowerMonotone
      <4> QED BY <4>1, <4>2, <4>3, <4>4 DEF c
    <3>2. Units(f) < 2 * (h * p) /\ h * q <= Units(g)
      BY <1>2, <2>0, <2>3
    <3> HIDE DEF p, q
    <3>3. h * (2 * p) <= h * q
      <4>1. 2 * p \in Nat
        BY <3>1
      <4> QED BY <1>1, <2>1, <3>1, <4>1, ProductMonotone
    <3>4. h * (2 * p) = 2 * (h * p) /\ h * p \in Nat /\ h * q \in Nat
      BY <1>1, <2>1, <3>1, SMT
    <3> QED BY <1>2, <1>3, <3>2, <3>3, <3>4
  <2> QED BY <2>2, <2>3
<1> QED BY <1>1, <1>6, <1>7, <1>8

\* How far a magnitude of a width is from u units.
Gap(u, width, f) == Abs(u - (IF f = Inf THEN Overflow(width) ELSE Units(f)))

\* What is no distance from one magnitude only is rounded to that.
LEMMA NearestExact ==
  ASSUME NEW u, NEW width, NEW f \in Magnitudes(width), Gap(u, width, f) = 0,
         \A g \in Magnitudes(width) : g # f => Gap(u, width, g) \in Nat \ {0}
  PROVE  Nearest(u, width) = f
<1> DEFINE Gaps == {Gap(u, width, g) : g \in Magnitudes(width)}
           best == {g \in Magnitudes(width) : Gap(u, width, g) = Min(Gaps)}
           Even(g) == Cardinality({k \in Magnitudes(width) : k < g}) % 2 = 0
<1>1. Nearest(u, width) = CHOOSE g \in best : Cardinality(best) = 1 \/ Even(g)
  BY Zenon DEF Nearest, Gap
<1>2. Gaps \in SUBSET Nat /\ 0 \in Gaps
  <2>1. \A g \in Magnitudes(width) : Gap(u, width, g) \in Nat
    OBVIOUS
  <2> QED BY <2>1
<1>3. Min(Gaps) = 0
  <2> HIDE DEF Gaps
  <2>1. Min(Gaps) \in Gaps /\ \A m \in Gaps : Min(Gaps) <= m
    BY <1>2, MinOf
  <2>2. Min(Gaps) \in Nat /\ Min(Gaps) <= 0
    BY <1>2, <2>1
  <2> QED BY <2>2
<1>4. best = {f}
  BY <1>3
<1>5. Cardinality(best) = 1
  BY <1>4, FS_Singleton
<1> HIDE DEF best, Even
<1>6. \E g \in best : Cardinality(best) = 1 \/ Even(g)
  BY <1>4, <1>5
<1>7. (CHOOSE g \in best : Cardinality(best) = 1 \/ Even(g)) \in best
  BY <1>6
<1> QED BY <1>1, <1>4, <1>7

\* The units of a finite magnitude are rounded to it.
LEMMA RoundedToItself ==
  ASSUME NEW f \in 0 .. Inf - 1
  PROVE  Nearest(Units(f), "wide") = f
<1>1. Inf \in Nat /\ Inf < NegBit /\ NegBit \in Nat
  BY Format, SMT
<1>2. Magnitudes("wide") = 0 .. Inf /\ Overflow("wide") = Units(Inf)
  BY DEF Magnitudes, WideMags, Overflow
<1>3. \A g \in 0 .. Inf : g \in 0 .. NegBit - 1
  BY <1>1
<1>4. \A g \in 0 .. Inf : Gap(Units(f), "wide", g) = Abs(Units(f) - Units(g))
  BY <1>2 DEF Gap
<1>5. f \in 0 .. Inf
  BY <1>1
<1>6. \A g \in 0 .. Inf : Units(g) \in Nat
  BY <1>3, UnitsOf
<1>7. ASSUME NEW g \in 0 .. Inf, g # f PROVE Units(g) # Units(f)
  <2>1. g \in 0 .. NegBit - 1 /\ f \in 0 .. NegBit - 1
    BY <1>3, <1>5
  <2>2. f < g \/ g < f
    BY <1>1, <1>7
  <2>3. Units(f) < Units(g) \/ Units(g) < Units(f)
    BY <2>1, <2>2, UnitsGrow
  <2>4. Units(f) \in Nat /\ Units(g) \in Nat
    BY <1>5, <1>6
  <2> QED BY <2>3, <2>4
<1>8. Gap(Units(f), "wide", f) = 0
  <2>1. Units(f) \in Nat
    BY <1>5, <1>6
  <2>2. Abs(Units(f) - Units(f)) = 0
    BY <2>1 DEF Abs
  <2> QED BY <1>4, <1>5, <2>2
<1>9. ASSUME NEW g \in 0 .. Inf, g # f PROVE Gap(Units(f), "wide", g) \in Nat \ {0}
  <2> DEFINE a == Units(f)
             b == Units(g)
  <2>1. a \in Nat /\ b \in Nat /\ a # b
    BY <1>5, <1>6, <1>7, <1>9
  <2> HIDE DEF a, b
  <2>2. Abs(a - b) \in Nat \ {0}
    BY <2>1 DEF Abs
  <2> QED BY <1>4, <2>2 DEF a, b
<1> QED BY <1>2, <1>5, <1>8, <1>9, NearestExact

--------------------------------------------------------------------------------
(* The lexical code. *)

\* The code of a float that is not simple decodes to it, and is above NegBit.
LEMMA BaseDecodes ==
  ASSUME NEW f \in 0 .. NegBit - 1
  PROVE  /\ BaseFloatToLex(f) \in Nat /\ BaseFloatToLex(f) >= NegBit
         /\ LexToFloat(BaseFloatToLex(f)) = f
<1> DEFINE h == Hidden
           x == Power(2, E)
           e == Exp(f)
           m == Mant(f)
           k == EncodeExponent[e]
           w == UpdateMantissa(e - Bias, m)
           i == BaseFloatToLex(f)
<1>1. /\ h \in Nat \ {0} /\ x \in Nat \ {0} /\ NegBit = x * h /\ Bias \in Nat /\ NegBit \in Nat
      /\ e \in 0 .. MaxExp /\ m \in 0 .. h - 1 /\ f = h * e + m /\ MaxExp = x - 1
  BY Format, FloatParts DEF MaxExp
<1>2. k \in 0 .. MaxExp /\ DecodeExponent[k] = e
  BY <1>1, ExponentTables
<1>3. w \in 0 .. h - 1 /\ UpdateMantissa(e - Bias, w) = m
  <2> DEFINE u == e - Bias
  <2>1. u \in Int
    BY <1>1
  <2> HIDE DEF u
  <2>2. m \in 0 .. Hidden - 1
    BY <1>1
  <2>3. UpdateMantissa(u, m) \in 0 .. Hidden - 1 /\ UpdateMantissa(u, UpdateMantissa(u, m)) = m
    BY <2>1, <2>2, MantissaTwice
  <2> QED BY <2>3 DEF u
<1>4. i = NegBit + k * h + w
  BY Zenon DEF BaseFloatToLex
<1> HIDE DEF h, x, e, m, k, w, i
<1>5. k \in Nat /\ k < x /\ k * h \in Nat
  <2>1. k \in Nat /\ k < x
    BY <1>1, <1>2
  <2> QED BY <1>1, <2>1, ProductNat
<1>6. i \in Nat /\ i >= NegBit /\ w \in Nat
  BY <1>1, <1>3, <1>4, <1>5
<1>7. i \div h = x + k /\ i % h = w
  <2>1. h * (x + k) = x * h + k * h
    BY <1>1, <1>5, SMT
  <2> DEFINE q == x + k
  <2>2. q \in Int
    BY <1>1, <1>5
  <2>3. i = h * q + w
    BY <1>1, <1>4, <2>1
  <2> HIDE DEF q
  <2>4. i \div h = q /\ i % h = w
    <3>1. h \in Nat \ {0} /\ w \in 0 .. h - 1 /\ i \in Int
      BY <1>1, <1>3, <1>6
    <3> QED BY <2>2, <2>3, <3>1, DivisionUnique
  <2> QED BY <2>4 DEF q
<1>8. (x + k) % x = k
  <2> DEFINE y == x + k
  <2>1. y = x * 1 + k /\ y \in Int /\ k \in 0 .. x - 1 /\ 1 \in Int
    BY <1>1, <1>5
  <2> HIDE DEF y
  <2>2. y % x = k
    BY <1>1, <2>1, DivisionUnique
  <2> QED BY <2>2 DEF y
<1>9. (i \div Hidden) % Power(2, E) = k /\ i % Hidden = w
  BY <1>7, <1>8 DEF h, x
<1>10. LexToFloat(i) = e * Hidden + UpdateMantissa(e - Bias, w)
  BY <1>2, <1>6, <1>9 DEF LexToFloat
<1>11. LexToFloat(i) = f
  <2>1. LexToFloat(i) = e * h + m
    BY <1>3, <1>10 DEF h
  <2>2. e * h = h * e /\ e \in Nat
    BY <1>1, SMT
  <2> QED BY <1>1, <2>1, <2>2
<1> QED BY <1>6, <1>11 DEF i

\* The code of a simple float is the number it is, below 2^SimpleBits.
LEMMA SimpleDecodes ==
  ASSUME NEW f \in 0 .. NegBit - 1, IsSimple(f)
  PROVE  /\ FloatToLex(f) \in Nat /\ FloatToLex(f) < NegBit /\ Units(f) = One * FloatToLex(f)
         /\ LexToFloat(FloatToLex(f)) = f
<1> DEFINE s == Power(2, SimpleBits)
           c == Units(f) \div One
<1>1. Units(f) \in Nat /\ One \in Nat \ {0} /\ NegBit \in Nat
  BY UnitsOf, Format
<1>2. Units(f) % One = 0 /\ c < s /\ FloatToLex(f) = c
  BY DEF IsSimple, FloatToLex
<1>3. f \in 0 .. Inf - 1
  <2>1. Mag(f) = f /\ Mag(f) < Inf
    BY FloatParts DEF IsSimple, IsFinite
  <2> QED BY <2>1, Format
<1>4. c \in Nat /\ Units(f) = One * c + (Units(f) % One)
  <2> DEFINE v == Units(f)
  <2>1. v \in Nat
    BY <1>1
  <2> HIDE DEF v
  <2>2. v \div One \in Nat /\ v = One * (v \div One) + (v % One)
    BY <1>1, <2>1, Division
  <2> QED BY <2>2 DEF v
<1> HIDE DEF c
<1>5. One * c \in Nat /\ Units(f) = One * c
  <2>1. One * c \in Nat
    BY <1>1, <1>4, ProductNat
  <2> QED BY <1>2, <1>4, <2>1
<1>6. s \in Nat \ {0} /\ s <= NegBit
  <2> DEFINE n == E + M
  <2>1. SimpleBits \in Nat /\ n \in Nat /\ SimpleBits <= n /\ 2 \in Nat \ {0}
    BY FormatAssumption
  <2> HIDE DEF n
  <2>2. Power(2, SimpleBits) <= Power(2, n) /\ Power(2, SimpleBits) \in Nat \ {0}
    BY <2>1, PowerMonotone, PowerPositive
  <2> QED BY <2>2 DEF n, NegBit
<1> HIDE DEF s
<1>7. c % s = c
  <2>1. c = s * 0 + c /\ c \in 0 .. s - 1 /\ 0 \in Int /\ c \in Int
    BY <1>2, <1>4, <1>6, SMT
  <2> QED BY <1>6, <2>1, DivisionUnique
<1>8. c < NegBit
  BY <1>1, <1>2, <1>4, <1>6
<1>9. LexToFloat(c) = Nearest(c * One, "wide")
  BY <1>1, <1>4, <1>7, <1>8 DEF LexToFloat, s
<1>10. c * One = Units(f)
  BY <1>1, <1>4, <1>5, SMT
<1>11. LexToFloat(c) = f
  BY <1>3, <1>9, <1>10, RoundedToItself
<1> QED BY <1>2, <1>4, <1>5, <1>8, <1>11

\* The code of a float decodes to it.
THEOREM CodeDecodes ==
  ASSUME NEW f \in 0 .. NegBit - 1
  PROVE  LexToFloat(FloatToLex(f)) = f
<1>1. CASE IsSimple(f)
  BY <1>1, SimpleDecodes
<1>2. CASE ~IsSimple(f)
  BY <1>2, BaseDecodes DEF FloatToLex
<1> QED BY <1>1, <1>2

\* Whole numbers below the limit come before all other floats, in their order.
LEMMA SimpleBeforeOthers ==
  ASSUME NEW f \in 0 .. NegBit - 1, NEW g \in 0 .. NegBit - 1, IsSimple(f), g < f
  PROVE  FloatToLex(g) < FloatToLex(f) <=> IsSimple(g)
<1>1. FloatToLex(f) \in Nat /\ FloatToLex(f) < NegBit /\ Units(f) = One * FloatToLex(f) /\ NegBit \in Nat
  BY SimpleDecodes, Format
<1>2. CASE IsSimple(g)
  <2> DEFINE a == FloatToLex(g)
             b == FloatToLex(f)
  <2>1. a \in Nat /\ Units(g) = One * a /\ One \in Nat
    BY <1>2, SimpleDecodes, Format
  <2>2. Units(g) < Units(f)
    BY UnitsGrow
  <2>3. b \in Nat /\ Units(f) = One * b
    BY <1>1
  <2> HIDE DEF a, b
  <2>4. a < b
    <3>1. SUFFICES ASSUME b <= a PROVE FALSE
      BY <2>1, <2>3
    <3>2. One * b <= One * a
      BY <2>1, <2>3, <3>1, ProductMonotone
    <3>3. One * b \in Nat /\ One * a \in Nat
      BY <2>1, <2>3, ProductNat
    <3> QED BY <2>1, <2>2, <2>3, <3>2, <3>3
  <2> QED BY <1>2, <2>4 DEF a, b
<1>3. CASE ~IsSimple(g)
  <2>1. FloatToLex(g) \in Nat /\ FloatToLex(g) >= NegBit
    BY <1>3, BaseDecodes DEF FloatToLex
  <2> QED BY <1>1, <1>3, <2>1
<1> QED BY <1>2, <1>3

\* What the run checks of the code of a float.
LEMMA LexHolds == Arguments => LexRoundTrips
<1> SUFFICES ASSUME Arguments, Calls("lex")
             PROVE  /\ LexToFloat(FloatToLex(at.f)) = at.f
                    /\ at.f > 0 /\ IsSimple(at.f) =>
                          \A g \in 0 .. at.f - 1 : FloatToLex(g) < FloatToLex(at.f) <=> IsSimple(g)
  BY DEF LexRoundTrips
<1> DEFINE f == at.f
<1>1. f \in 0 .. NegBit - 1
  BY DEF Arguments
<1> HIDE DEF f
<1>2. LexToFloat(FloatToLex(f)) = f
  BY <1>1, CodeDecodes
<1>3. ASSUME IsSimple(f), NEW g \in 0 .. f - 1
      PROVE  FloatToLex(g) < FloatToLex(f) <=> IsSimple(g)
  <2>1. g \in 0 .. NegBit - 1 /\ g < f
    BY <1>1, Format
  <2> QED BY <1>1, <1>3, <2>1, SimpleBeforeOthers
<1> QED BY <1>2, <1>3 DEF f


\* The subnormal unit of the narrow width is a number of units.
LEMMA NarrowFormat ==
  /\ NarrowUnit \in Nat \ {0} /\ Power(2, NM) \in Nat \ {0} /\ Power(2, NE) - 2 \in Nat
<1>1. E \in Nat \ {0} /\ NE \in Nat \ {0} /\ NE <= E /\ M \in Nat /\ NM \in Nat /\ NM <= M /\ 2 \in Nat \ {0}
  BY FormatAssumption
<1>2. Power(2, NM) \in Nat \ {0}
  BY <1>1, PowerPositive
<1> DEFINE a == NE - 1
           b == E - 1
<1>3. a \in Nat /\ b \in Nat /\ a <= b /\ a + 1 = NE
  BY <1>1
<1> HIDE DEF a, b
<1>4. Power(2, a) \in Nat \ {0} /\ Power(2, b) \in Nat /\ Power(2, a) <= Power(2, b)
  BY <1>1, <1>3, PowerMonotone, PowerPositive, PowerNat
<1>5. Power(2, a + 1) = 2 * Power(2, a)
  BY <1>3, PowerRec, SMT
<1>6. Power(2, NE) - 2 \in Nat
  BY <1>3, <1>4, <1>5
<1>7. Bias = Power(2, b) - 1
  BY DEF Bias, b
<1> DEFINE n == (Bias + M) - (Power(2, a) - 1 + NM)
<1>8. n \in Nat
  BY <1>1, <1>4, <1>7
<1>9. NarrowUnit = Power(2, n)
  BY DEF NarrowUnit, a
<1> HIDE DEF n
<1>10. NarrowUnit \in Nat \ {0}
  BY <1>8, <1>9, PowerPositive
<1> QED BY <1>2, <1>6, <1>10

\* What would follow the largest finite value of the narrow width has more units than all.
LEMMA NarrowOverflow ==
  Overflow("narrow") \in Nat /\ \A u \in NarrowUnits : u \in Nat /\ u < Overflow("narrow")
<1> DEFINE U == NarrowUnit
           p == Power(2, NM)
           t == Power(2, NE) - 2
<1>1. U \in Nat \ {0} /\ p \in Nat \ {0} /\ t \in Nat /\ NM \in Nat /\ NM + t \in Nat
  BY NarrowFormat, Format
<1>2. Overflow("narrow") = U * Power(2, NM + t)
  <2>1. NM + Power(2, NE) - 2 = NM + t
    BY NarrowFormat, Format
  <2> QED BY <2>1 DEF Overflow
<1>3. Power(2, NM + t) = p * Power(2, t) /\ Power(2, t) \in Nat \ {0}
  <2> HIDE DEF t
  <2>1. Power(2, NM + t) = Power(2, NM) * Power(2, t)
    BY <1>1, PowerSum
  <2> QED BY <1>1, <2>1, PowerPositive
<1>4. NarrowUnits = {m * U : m \in 0 .. p - 1} \cup
                    {(p + m) * U * Power(2, e - 1) : m \in 0 .. p - 1, e \in 1 .. t}
  BY DEF NarrowUnits
<1> HIDE DEF U, p, t
<1> DEFINE z == Power(2, t)
           top == U * (p * z)
<1>5. z \in Nat \ {0}
  BY <1>3
<1>6. top \in Nat /\ U * p <= top /\ U * p \in Nat
  <2> HIDE DEF z
  <2>1. p * z \in Nat /\ p <= p * z
    BY <1>1, <1>5, SMT
  <2> DEFINE y == p * z
  <2> HIDE DEF y
  <2>2. U * p <= U * y /\ U * y \in Nat /\ U * p \in Nat
    BY <1>1, <2>1, ProductMonotone, ProductNat DEF y
  <2> QED BY <2>2 DEF y
<1>7. ASSUME NEW m \in 0 .. p - 1 PROVE m * U \in Nat /\ m * U < top
  <2> HIDE DEF top
  <2>1. m * U \in Nat /\ m * U < U * p
    BY <1>1, SMT
  <2> QED BY <1>6, <2>1
<1>8. ASSUME NEW m \in 0 .. p - 1, NEW e \in 1 .. t
      PROVE  (p + m) * U * Power(2, e - 1) \in Nat /\ (p + m) * U * Power(2, e - 1) < top
  <2> DEFINE c == e - 1
             w == Power(2, c)
  <2>1. c \in Nat /\ c + 1 <= t /\ c + 1 \in Nat
    BY <1>1
  <2> HIDE DEF c
  <2>2. w \in Nat \ {0} /\ Power(2, c + 1) = 2 * w
    <3>1. Power(2, c + 1) = 2 * Power(2, c)
      BY <2>1, PowerRec, SMT
    <3>2. Power(2, c) \in Nat \ {0}
      BY <2>1, PowerPositive
    <3> QED BY <3>1, <3>2
  <2>3. 2 * w <= z
    <3> DEFINE d == c + 1
    <3>1. d \in Nat /\ d <= t /\ 2 \in Nat \ {0}
      BY <2>1
    <3>2. Power(2, d) = 2 * w
      BY <2>2
    <3> HIDE DEF d, w, z
    <3>3. Power(2, d) <= Power(2, t)
      BY <1>1, <3>1, PowerMonotone
    <3> QED BY <3>2, <3>3 DEF z
  <2> HIDE DEF w, z, top
  <2> DEFINE k == p + m
             q == p * w
  <2>4. k \in Nat \ {0} /\ k < 2 * p
    BY <1>1
  <2> HIDE DEF k
  <2>5. k * w < 2 * q /\ k * w \in Nat /\ q \in Nat /\ p * (2 * w) = 2 * q
    <3>1. k * w < (2 * p) * w
      BY <1>1, <2>2, <2>4, SMT
    <3>2. (2 * p) * w = 2 * (p * w) /\ p * (2 * w) = 2 * (p * w) /\ p * w \in Nat /\ k * w \in Nat
      BY <1>1, <2>2, <2>4, SMT
    <3> QED BY <3>1, <3>2
  <2>6. p * (2 * w) <= p * z /\ p * z \in Nat
    <3>1. 2 * w \in Nat
      BY <2>2
    <3> QED BY <1>1, <1>5, <2>3, <3>1, ProductMonotone, ProductNat
  <2>7. k * w < p * z
    BY <2>5, <2>6
  <2> DEFINE x == k * w
             y == p * z
  <2>8. x \in Nat /\ y \in Nat /\ x < y
    BY <2>5, <2>6, <2>7
  <2>9. k * U * w = U * x
    BY <1>1, <2>2, <2>4, SMT
  <2> HIDE DEF x, y
  <2>10. U * x < U * y /\ U * x \in Nat
    BY <1>1, <2>8, SMT
  <2> QED BY <2>9, <2>10 DEF y, top, k, w, c
<1>9. Overflow("narrow") = top
  BY <1>2, <1>3
<1> HIDE DEF top
<1>10. \A u \in NarrowUnits : u \in Nat /\ u < top
  BY <1>4, <1>7, <1>8
<1> QED BY <1>6, <1>9, <1>10

\* The magnitudes of both widths: 0, infinity, and others between.
LEMMA MagnitudesOf ==
  ASSUME NEW width \in {"wide", "narrow"}
  PROVE  Magnitudes(width) \subseteq 0 .. Inf /\ 0 \in Magnitudes(width) /\ Inf \in Magnitudes(width)
<1>1. Inf \in Nat \ {0} /\ NegBit \in Nat \ {0}
  <2>1. MaxExp \in Nat \ {0} /\ Hidden \in Nat \ {0}
    BY Format
  <2>2. MaxExp * Hidden \in Nat \ {0}
    BY <2>1, ProductPositive
  <2> QED BY <2>2, Format DEF Inf
<1>2. CASE width = "wide"
  BY <1>1, <1>2 DEF Magnitudes, WideMags
<1>3. CASE width = "narrow"
  <2>1. Magnitudes(width) = NarrowMags
    BY <1>3 DEF Magnitudes
  <2>2. 0 \in NarrowUnits
    <3>1. NarrowUnit \in Nat /\ Power(2, NM) \in Nat \ {0}
      BY NarrowFormat
    <3>2. 0 * NarrowUnit = 0 /\ 0 \in 0 .. Power(2, NM) - 1
      BY <3>1
    <3>3. 0 * NarrowUnit \in {m * NarrowUnit : m \in 0 .. Power(2, NM) - 1}
      BY <3>2
    <3> QED BY <3>2, <3>3 DEF NarrowUnits
  <2>3. Units(0) = 0
    <3>1. 0 \in 0 .. NegBit - 1
      BY <1>1
    <3>2. Exp(0) = 0
      <4>1. Mag(0) = 0 /\ 0 = Hidden * Exp(0) + Mant(0) /\ Exp(0) \in Nat /\ Mant(0) \in Nat /\ Hidden \in Nat \ {0}
        BY <3>1, FloatParts, Format
      <4>2. Exp(0) # 0 => Hidden * Exp(0) \in Nat \ {0}
        BY <4>1, ProductPositive
      <4> QED BY <4>1, <4>2, SMT
    <3> QED BY <3>1, <3>2, UnitsOf
  <2>4. 0 \in 0 .. Inf - 1
    BY <1>1
  <2>5. 0 \in NarrowMags /\ Inf \in NarrowMags
    BY <2>2, <2>3, <2>4 DEF NarrowMags
  <2>6. NarrowMags \subseteq 0 .. Inf
    BY <1>1 DEF NarrowMags
  <2> QED BY <2>1, <2>5, <2>6
<1> QED BY <1>2, <1>3

\* A finite value of the narrow width is narrowed to itself.
LEMMA NarrowedToItself ==
  ASSUME NEW f \in NarrowMags, f # Inf
  PROVE  Narrowed[f] = f
<1>1. Magnitudes("narrow") = NarrowMags
  BY DEF Magnitudes
<1>2. /\ \A g \in NarrowMags : g \in 0 .. NegBit - 1
      /\ \A g \in NarrowMags : g # Inf => Units(g) \in NarrowUnits
  <2>1. Inf \in Nat /\ Inf < NegBit /\ NegBit \in Nat
    BY Format, SMT
  <2> QED BY <2>1 DEF NarrowMags
<1>3. f \in WideMags \ {Inf}
  BY <1>1, MagnitudesOf DEF WideMags
<1>4. Narrowed[f] = Nearest(Units(f), "narrow")
  BY <1>3 DEF Narrowed
<1> DEFINE a == Units(f)
<1>5. a \in Nat /\ a < Overflow("narrow") /\ Overflow("narrow") \in Nat
  BY <1>2, NarrowOverflow
<1>6. Gap(a, "narrow", f) = 0
  <2> HIDE DEF a
  <2>1. a - a = 0 /\ Abs(0) = 0
    BY <1>5 DEF Abs
  <2> QED BY <2>1 DEF Gap, a
<1>7. ASSUME NEW g \in NarrowMags, g # f PROVE Gap(a, "narrow", g) \in Nat \ {0}
  <2>1. CASE g = Inf
    <3> DEFINE b == Overflow("narrow")
    <3>1. Gap(a, "narrow", g) = Abs(a - b)
      BY <2>1 DEF Gap
    <3> HIDE DEF a, b
    <3>2. a \in Nat /\ b \in Nat /\ a < b
      BY <1>5 DEF b
    <3> QED BY <3>1, <3>2 DEF Abs
  <2>2. CASE g # Inf
    <3> DEFINE b == Units(g)
    <3>1. Gap(a, "narrow", g) = Abs(a - b)
      BY <2>2 DEF Gap
    <3>2. f \in 0 .. NegBit - 1 /\ g \in 0 .. NegBit - 1
      BY <1>2
    <3>3. f < g \/ g < f
      BY <1>7, <3>2, Format
    <3>4. (a < b \/ b < a) /\ b \in Nat
      BY <3>2, <3>3, UnitsGrow, UnitsOf
    <3> HIDE DEF a, b
    <3> QED BY <1>5, <3>1, <3>4 DEF Abs
  <2> QED BY <2>1, <2>2
<1> HIDE DEF a
<1>8. Nearest(a, "narrow") = f
  BY <1>1, <1>6, <1>7, NearestExact
<1> QED BY <1>4, <1>8 DEF a

\* Numbers and magnitudes of both signs.
LEMMA Signs ==
  ASSUME NEW m \in 0 .. NegBit - 1
  PROVE  /\ Num(m) = m /\ Mag(m) = m /\ ~IsNegative(m)
         /\ Neg(m) = m + NegBit /\ Num(Neg(m)) = -m /\ Mag(Neg(m)) = m /\ IsNegative(Neg(m)) /\ Neg(Neg(m)) = m
<1>1. m \in Nat /\ m < NegBit /\ NegBit \in Nat \ {0}
  BY Format
<1>2. Num(m) = m /\ Mag(m) = m /\ ~IsNegative(m)
  BY FloatParts
<1>3. Neg(m) = m + NegBit
  BY <1>1 DEF Neg
<1> DEFINE n == m + NegBit
<1>4. n >= NegBit /\ n \in Nat /\ n - NegBit = m
  BY <1>1
<1>5. n % NegBit = m
  <2>1. n = NegBit * 1 + m /\ n \in Int /\ m \in 0 .. NegBit - 1 /\ 1 \in Int
    BY <1>1
  <2> HIDE DEF n
  <2> QED BY <1>1, <2>1, DivisionUnique
<1> HIDE DEF n
<1>6. IsNegative(n) /\ Mag(n) = m /\ Neg(n) = m /\ Num(n) = -m
  BY <1>4, <1>5 DEF IsNegative, Mag, Neg, Num
<1> QED BY <1>2, <1>3, <1>6 DEF n

\* up is the value of the width that follows f; of the zeros the negative one.
Adjacent(f, up, width) ==
    /\ up \in Representable(width) /\ Num(f) < Num(up) /\ up # 0
    /\ \A g \in Representable(width) : ~(Num(f) < Num(g) /\ Num(g) < Num(up))

\* Magnitudes next to each other are adjacent, and their negations the other way round.
LEMMA NextMagnitude ==
  ASSUME NEW width \in {"wide", "narrow"}, NEW m \in Magnitudes(width), NEW n \in Magnitudes(width), m < n,
         \A k \in Magnitudes(width) : ~(m < k /\ k < n)
  PROVE  /\ Adjacent(m, n, width) /\ Adjacent(Neg(n), Neg(m), width)
         /\ m = 0 => Adjacent(Neg(0), n, width)
<1> DEFINE S == Magnitudes(width)
<1>1. \A k \in S : k \in 0 .. NegBit - 1 /\ k \in Nat
  <2>1. Inf \in Nat /\ Inf < NegBit /\ NegBit \in Nat
    BY Format, SMT
  <2>2. S \subseteq 0 .. Inf
    BY MagnitudesOf
  <2> QED BY <2>1, <2>2
<1>2. \A k \in S : Num(k) = k /\ Num(Neg(k)) = -k
  BY <1>1, Signs
<1>3. \A g \in Representable(width) : \E k \in S : Num(g) = k \/ Num(g) = -k
  BY <1>2 DEF Representable
<1>4. n \in Representable(width) /\ Neg(m) \in Representable(width)
  BY DEF Representable
<1> HIDE DEF S
<1>5. m \in S /\ n \in S /\ m \in Nat /\ n \in Nat /\ \A k \in S : ~(m < k /\ k < n)
  BY <1>1 DEF S
<1>6. Num(m) = m /\ Num(n) = n /\ Num(Neg(m)) = -m /\ Num(Neg(n)) = -n
  BY <1>2, <1>5
<1>7. ASSUME NEW g \in Representable(width)
      PROVE  ~(m < Num(g) /\ Num(g) < n) /\ ~(-n < Num(g) /\ Num(g) < -m)
  <2>1. PICK k \in S : Num(g) = k \/ Num(g) = -k
    BY <1>3
  <2>2. k \in Nat /\ ~(m < k /\ k < n)
    BY <1>1, <1>5
  <2>3. CASE Num(g) = k
    BY <1>5, <2>2, <2>3
  <2>4. CASE Num(g) = -k
    BY <1>5, <2>2, <2>4
  <2> QED BY <2>1, <2>3, <2>4
<1>0. n # 0 /\ Neg(m) # 0
  <2>1. Neg(m) = m + NegBit /\ NegBit \in Nat \ {0}
    BY <1>1, <1>5, Signs, Format
  <2> QED BY <1>5, <2>1
<1>8. Adjacent(m, n, width)
  BY <1>0, <1>4, <1>5, <1>6, <1>7 DEF Adjacent
<1>9. Adjacent(Neg(n), Neg(m), width)
  <2>1. -n < -m
    BY <1>5
  <2>2. Num(Neg(n)) < Num(Neg(m))
    BY <1>6, <2>1
  <2>3. \A g \in Representable(width) : ~(Num(Neg(n)) < Num(g) /\ Num(g) < Num(Neg(m)))
    BY <1>6, <1>7
  <2> QED BY <1>0, <1>4, <2>2, <2>3 DEF Adjacent
<1>10. m = 0 => Num(Neg(0)) = Num(m)
  <2> DEFINE x == -m
  <2>1. x \in Int /\ x + m = 0
    BY <1>5
  <2> HIDE DEF x
  <2>2. m = 0 => x = m
    BY <1>5, <2>1
  <2>3. m = 0 => -m = m
    BY <2>2 DEF x
  <2>4. m = 0 => Num(Neg(m)) = Num(m)
    BY <1>6, <2>3
  <2> QED BY <2>4
<1>11. m = 0 => Adjacent(Neg(0), n, width)
  BY <1>8, <1>10 DEF Adjacent
<1> QED BY <1>8, <1>9, <1>11

\* A step that is adjacent is the only one.
LEMMA StepOnce ==
  ASSUME NEW f, NEW step, NEW width, Num(f) \in Int, Num(step) \in Int, Num(f) < Num(step)
  PROVE  SecondStep(step, f, width) = step
<1>1. ~(Num(step) <= Num(f))
  OBVIOUS
<1> QED BY <1>1 DEF SecondStep

\* One more than a magnitude is the next of the wide width.
LEMMA WideSteps ==
  /\ \A m \in 0 .. Inf - 1 : NextUp(m) = m + 1 /\ Adjacent(m, m + 1, "wide")
  /\ \A n \in 1 .. Inf : NextUp(Neg(n)) = Neg(n - 1) /\ Adjacent(Neg(n), Neg(n - 1), "wide")
  /\ NextUp(Neg(0)) = 0 /\ Adjacent(Neg(0), 1, "wide") /\ 0 \in 0 .. Inf - 1
<1>1. Inf \in Nat \ {0} /\ Inf < NegBit /\ NegBit \in Nat /\ Magnitudes("wide") = 0 .. Inf
  <2>1. Inf \in Magnitudes("wide") /\ 0 \in Magnitudes("wide") /\ Magnitudes("wide") = 0 .. Inf
    BY MagnitudesOf DEF Magnitudes, WideMags
  <2>2. MaxExp * Hidden \in Nat \ {0}
    BY Format, ProductPositive
  <2> QED BY <2>1, <2>2, Format DEF Inf
<1>2. ASSUME NEW m \in 0 .. Inf - 1 PROVE NextUp(m) = m + 1 /\ Adjacent(m, m + 1, "wide") /\ (m = 0 => Adjacent(Neg(0), m + 1, "wide"))
  <2>1. m \in 0 .. NegBit - 1 /\ m < Inf /\ m # NegBit
    BY <1>1
  <2>2. ~IsNegative(m) /\ ~IsNan(m)
    <3>1. ~IsNegative(m) /\ Mag(m) = m
      BY <2>1, Signs
    <3> QED BY <1>1, <2>1, <3>1 DEF IsNan
  <2>3. NextUp(m) = m + 1
    BY <1>1, <2>1, <2>2 DEF NextUp
  <2> DEFINE n == m + 1
  <2>4. m \in 0 .. Inf /\ n \in 0 .. Inf /\ m < n /\ \A k \in 0 .. Inf : ~(m < k /\ k < n)
    BY <1>1
  <2> HIDE DEF n
  <2>5. Adjacent(m, n, "wide") /\ (m = 0 => Adjacent(Neg(0), n, "wide"))
    BY <1>1, <2>4, NextMagnitude
  <2> QED BY <2>3, <2>5 DEF n
<1>3. ASSUME NEW n \in 1 .. Inf PROVE NextUp(Neg(n)) = Neg(n - 1) /\ Adjacent(Neg(n), Neg(n - 1), "wide")
  <2> DEFINE m == n - 1
             f == Neg(n)
  <2>1. n \in 0 .. NegBit - 1 /\ m \in 0 .. NegBit - 1 /\ n # 0 /\ n = m + 1 /\ n \in Nat
    BY <1>1
  <2>2. IsNegative(f) /\ Mag(f) = n /\ f = n + NegBit /\ Neg(m) = m + NegBit
    <3> HIDE DEF m
    <3> QED BY <2>1, Signs
  <2>3. ~IsNan(f) /\ f # Inf /\ f # NegBit
    BY <1>1, <2>1, <2>2 DEF IsNan
  <2>4. NextUp(f) = f - 1 /\ f - 1 = Neg(m)
    <3> HIDE DEF f, m
    <3>1. NextUp(f) = f - 1
      BY <2>2, <2>3 DEF NextUp
    <3> QED BY <1>1, <2>1, <2>2, <3>1
  <2> HIDE DEF f
  <2>5. m \in 0 .. Inf /\ n \in 0 .. Inf /\ m < n /\ \A k \in 0 .. Inf : ~(m < k /\ k < n)
    BY <1>1
  <2> HIDE DEF m
  <2>6. Adjacent(Neg(n), Neg(m), "wide")
    BY <1>1, <2>5, NextMagnitude
  <2> QED BY <2>4, <2>6 DEF f, m
<1>4. NextUp(Neg(0)) = 0
  <2>1. Neg(0) = NegBit /\ Mag(Neg(0)) = 0
    <3>1. 0 \in 0 .. NegBit - 1 /\ 0 + NegBit = NegBit
      BY <1>1
    <3> QED BY <3>1, Signs
  <2>2. ~IsNan(NegBit) /\ NegBit # Inf
    BY <1>1, <2>1 DEF IsNan
  <2> QED BY <2>1, <2>2 DEF NextUp
<1>5. 0 \in 0 .. Inf - 1 /\ Adjacent(Neg(0), 1, "wide")
  <2>1. 0 \in 0 .. Inf - 1 /\ 0 + 1 = 1
    BY <1>1
  <2> QED BY <1>2, <2>1
<1> QED BY <1>2, <1>3, <1>4, <1>5

\* Stepping up at the narrow width.
LEMMA NarrowSteps ==
  /\ \A m \in NarrowMags : m # Inf =>
        Adjacent(m, StepUpAtWidth(m, "narrow"), "narrow") /\ (m = 0 => Adjacent(Neg(0), StepUpAtWidth(Neg(0), "narrow"), "narrow"))
  /\ \A n \in NarrowMags \ {0} : Adjacent(Neg(n), StepUpAtWidth(Neg(n), "narrow"), "narrow")
<1> DEFINE T == NarrowMags
<1>1. /\ Magnitudes("narrow") = T /\ T \subseteq 0 .. Inf /\ 0 \in T /\ Inf \in T
      /\ Inf \in Nat /\ Inf < NegBit /\ NegBit \in Nat
  <2>1. Magnitudes("narrow") = T
    BY DEF Magnitudes
  <2>2. T \subseteq 0 .. Inf /\ 0 \in T /\ Inf \in T
    BY <2>1, MagnitudesOf
  <2>3. Inf \in Nat /\ Inf < NegBit /\ NegBit \in Nat
    BY Format, SMT
  <2> QED BY <2>1, <2>2, <2>3
<1> HIDE DEF T
<1>2. ASSUME NEW m \in T, m # Inf
      PROVE  Adjacent(m, StepUpAtWidth(m, "narrow"), "narrow")
             /\ (m = 0 => Adjacent(Neg(0), StepUpAtWidth(Neg(0), "narrow"), "narrow"))
  <2> DEFINE A == {k \in T : m < k}
             n == Min(A)
  <2>1. m \in 0 .. NegBit - 1 /\ m \in Nat /\ m < Inf
    BY <1>1, <1>2
  <2>2. A \in SUBSET Nat /\ A # {}
    <3>1. \A k \in T : k \in Nat
      BY <1>1
    <3>2. Inf \in A
      BY <1>1, <2>1
    <3> QED BY <3>1, <3>2
  <2>3. n \in A /\ \A k \in A : n <= k
    <3> HIDE DEF A
    <3> QED BY <2>2, MinOf
  <2> HIDE DEF n
  <2>4. n \in T /\ m < n /\ \A k \in T : ~(m < k /\ k < n)
    BY <2>2, <2>3, <1>1
  <2>5. Adjacent(m, n, "narrow") /\ (m = 0 => Adjacent(Neg(0), n, "narrow"))
    BY <1>1, <2>4, NextMagnitude
  <2>6. ~IsNegative(m) /\ Mag(m) = m
    BY <2>1, Signs
  <2>7. CASE m = 0
    <3>1. A = T \ {0}
      <4>1. \A k \in T : m < k <=> k # 0
        BY <1>1, <2>7
      <4> QED BY <4>1
    <3>2. \A f : Mag(f) = 0 /\ f # Inf => StepUpAtWidth(f, "narrow") = n
      BY <1>1, <3>1, Zenon DEF StepUpAtWidth, n
    <3>3. Mag(Neg(0)) = 0 /\ Neg(0) = NegBit /\ Neg(0) # Inf
      <4>1. 0 \in 0 .. NegBit - 1 /\ 0 + NegBit = NegBit
        BY <2>1, <2>7, <1>1
      <4>2. Mag(Neg(0)) = 0 /\ Neg(0) = 0 + NegBit
        BY <4>1, Signs
      <4> QED BY <1>1, <4>1, <4>2
    <3>4. StepUpAtWidth(m, "narrow") = n /\ StepUpAtWidth(Neg(0), "narrow") = n
      BY <1>2, <2>6, <2>7, <3>2, <3>3
    <3> QED BY <2>5, <2>7, <3>4
  <2>8. CASE m # 0
    <3>1. StepUpAtWidth(m, "narrow") = n
      BY <1>1, <1>2, <2>6, <2>8, Zenon DEF StepUpAtWidth, n
    <3> QED BY <2>5, <2>8, <3>1
  <2> QED BY <2>7, <2>8
<1>3. ASSUME NEW n \in T \ {0} PROVE Adjacent(Neg(n), StepUpAtWidth(Neg(n), "narrow"), "narrow")
  <2> DEFINE A == {k \in T : k < n}
             m == Max(A)
             f == Neg(n)
  <2>1. n \in 0 .. NegBit - 1 /\ n \in Nat \ {0} /\ n <= Inf
    BY <1>1
  <2>2. A \in SUBSET Int /\ A # {} /\ \A k \in A : k <= n
    <3>1. \A k \in T : k \in Int
      BY <1>1
    <3>2. 0 \in A
      BY <1>1, <2>1
    <3>3. \A k \in A : k <= n
      BY <2>1, <3>1
    <3> QED BY <3>1, <3>2, <3>3
  <2>3. m \in A /\ \A k \in A : k <= m
    <3>1. n \in Int
      BY <2>1
    <3> HIDE DEF A
    <3> QED BY <2>2, <3>1, MaxOf
  <2> HIDE DEF m
  <2>4. m \in T /\ m < n /\ \A k \in T : ~(m < k /\ k < n)
    BY <2>2, <2>3, <1>1
  <2>5. Adjacent(f, Neg(m), "narrow")
    BY <1>1, <2>4, NextMagnitude
  <2>6. IsNegative(f) /\ Mag(f) = n /\ f = n + NegBit
    BY <2>1, Signs
  <2>7. f # Inf /\ Mag(f) # 0
    BY <1>1, <2>1, <2>6
  <2> HIDE DEF f
  <2>8. StepUpAtWidth(f, "narrow") = Neg(m)
    BY <1>1, <2>6, <2>7, Zenon DEF StepUpAtWidth, m
  <2> QED BY <2>5, <2>8 DEF f
<1> QED BY <1>2, <1>3 DEF T

\* A value of a width is at that width already.
LEMMA AtWidth ==
  ASSUME NEW width \in {"wide", "narrow"}, NEW f \in Representable(width)
  PROVE  NarrowToWidth(f, width) = f
<1>1. CASE width = "wide" \/ ~IsFinite(f)
  BY <1>1 DEF NarrowToWidth
<1>2. CASE width = "narrow" /\ IsFinite(f)
  <2>1. /\ \A m \in NarrowMags : m \in 0 .. NegBit - 1 /\ (m < Inf => m # Inf)
        /\ Representable(width) = NarrowMags \cup {Neg(m) : m \in NarrowMags}
    <3>1. Inf \in Nat /\ Inf < NegBit /\ NegBit \in Nat
      BY Format, SMT
    <3>2. Magnitudes("narrow") = NarrowMags
      BY DEF Magnitudes
    <3>3. NarrowMags \subseteq 0 .. Inf
      BY <3>2, MagnitudesOf
    <3>4. Representable(width) = NarrowMags \cup {Neg(m) : m \in NarrowMags}
      BY <1>2, <3>2 DEF Representable
    <3>5. \A m \in NarrowMags : m \in 0 .. NegBit - 1 /\ (m < Inf => m # Inf)
      BY <3>1, <3>3
    <3> QED BY <3>4, <3>5
  <2>2. CASE f \in NarrowMags
    <3>1. ~IsNegative(f) /\ Mag(f) = f
      BY <2>1, <2>2, Signs
    <3>2. Narrowed[f] = f
      BY <1>2, <2>1, <2>2, <3>1, NarrowedToItself DEF IsFinite
    <3> QED BY <1>2, <3>1, <3>2 DEF NarrowToWidth
  <2>3. CASE f \in {Neg(m) : m \in NarrowMags}
    <3>1. PICK m \in NarrowMags : f = Neg(m)
      BY <2>3
    <3>2. IsNegative(f) /\ Mag(f) = m
      BY <2>1, <3>1, Signs
    <3>3. Narrowed[m] = m
      BY <1>2, <2>1, <3>2, NarrowedToItself DEF IsFinite
    <3> QED BY <1>2, <3>1, <3>2, <3>3 DEF NarrowToWidth
  <2> QED BY <2>1, <2>2, <2>3
<1> QED BY <1>1, <1>2

\* A value of the width is a magnitude or the negation of one, and as a number an integer.
LEMMA ValuesOfWidth ==
  ASSUME NEW width \in {"wide", "narrow"}, NEW f \in Representable(width)
  PROVE  /\ Num(f) \in Int
         /\ \E m \in Magnitudes(width) : f = m \/ f = Neg(m)
<1>1. PICK m \in Magnitudes(width) : f = m \/ f = Neg(m)
  BY DEF Representable
<1>2. m \in 0 .. NegBit - 1 /\ m \in Int
  <2>1. Inf \in Nat /\ Inf < NegBit /\ NegBit \in Nat
    BY Format, SMT
  <2> QED BY <1>1, <2>1, MagnitudesOf
<1>3. Num(f) = m \/ Num(f) = -m
  BY <1>1, <1>2, Signs
<1>4. -m \in Int
  BY <1>2
<1> QED BY <1>1, <1>2, <1>3, <1>4

\* The next value above one of a width is the adjacent one.
THEOREM NextUpIsAdjacent ==
  ASSUME NEW width \in {"wide", "narrow"}, NEW f \in Representable(width), f # Inf
  PROVE  Adjacent(f, NextUpWidth(f, width), width)
<1> DEFINE step == StepUpAtWidth(f, width)
<1>1. NextUpWidth(f, width) = SecondStep(step, f, width)
  BY AtWidth DEF NextUpWidth
<1>2. ASSUME Adjacent(f, step, width) PROVE Adjacent(f, NextUpWidth(f, width), width)
  <2>1. Num(f) \in Int /\ Num(step) \in Int /\ Num(f) < Num(step)
    BY <1>2, ValuesOfWidth DEF Adjacent
  <2> HIDE DEF step
  <2>2. SecondStep(step, f, width) = step
    BY <2>1, StepOnce
  <2> QED BY <1>1, <1>2, <2>2
<1>3. PICK m \in Magnitudes(width) : f = m \/ f = Neg(m)
  BY ValuesOfWidth
<1>4. CASE width = "narrow"
  <2>1. m \in NarrowMags
    BY <1>3, <1>4 DEF Magnitudes
  <2>2. CASE f = m
    BY <1>2, <1>4, <2>1, <2>2, NarrowSteps
  <2>3. CASE f = Neg(m) /\ m # 0
    BY <1>2, <1>4, <2>1, <2>3, NarrowSteps
  <2>4. CASE f = Neg(m) /\ m = 0
    <3>1. 0 # Inf
      BY WideSteps, Format
    <3> QED BY <1>2, <1>4, <2>1, <2>4, <3>1, NarrowSteps
  <2> QED BY <1>3, <2>2, <2>3, <2>4
<1>5. CASE width = "wide"
  <2>0. Inf \in Nat /\ \A g : StepUpAtWidth(g, width) = NextUp(g)
    BY <1>5, Format DEF StepUpAtWidth
  <2>1. m \in 0 .. Inf
    BY <1>3, <1>5 DEF Magnitudes, WideMags
  <2>2. CASE f = m
    <3>1. m \in 0 .. Inf - 1
      BY <2>0, <2>1, <2>2
    <3>2. Adjacent(m, NextUp(m), width)
      BY <1>5, <3>1, WideSteps
    <3> QED BY <1>2, <2>0, <2>2, <3>2
  <2>3. CASE f = Neg(m) /\ m # 0
    <3>1. m \in 1 .. Inf
      BY <2>0, <2>1, <2>3
    <3>2. Adjacent(f, NextUp(f), width)
      BY <1>5, <2>3, <3>1, WideSteps
    <3> QED BY <1>2, <2>0, <3>2
  <2>4. CASE f = Neg(m) /\ m = 0
    <3>1. f = Neg(0) /\ step = 0
      BY <2>0, <2>4, WideSteps
    <3>2. IsFinite(0) /\ Num(0) = 0 /\ Num(Neg(0)) <= 0
      <4>1. 0 \in 0 .. Inf - 1 /\ 0 \in 0 .. NegBit - 1
        BY WideSteps, Format
      <4>2. Mag(0) = 0 /\ Num(0) = 0 /\ Num(Neg(0)) = -0
        BY <4>1, Signs
      <4>3. 0 < Inf
        BY <4>1, Format
      <4> QED BY <4>2, <4>3, SMT DEF IsFinite
    <3>3. Num(0) <= Num(f)
      <4>1. 0 \in 0 .. NegBit - 1
        BY Format
      <4>2. Num(Neg(0)) = -0
        BY <4>1, Signs
      <4> QED BY <3>1, <3>2, <4>2, SMT
    <3>4. SecondStep(step, f, width) = NextUp(0)
      BY <2>0, <3>1, <3>2, <3>3 DEF SecondStep
    <3>5. NextUp(0) = 1
      BY WideSteps, SMT
    <3> QED BY <1>1, <1>5, <3>1, <3>4, <3>5, WideSteps
  <2> QED BY <1>3, <2>2, <2>3, <2>4
<1> QED BY <1>4, <1>5

\* What the run checks of the next float.
LEMMA NextHolds == Arguments => NextIsAdjacent
<1> SUFFICES ASSUME Arguments, Calls("next"), at.f # Inf
             PROVE  LET up == NextUpWidth(at.f, at.width)
                    IN  /\ up \in Representable(at.width) /\ Num(at.f) < Num(up)
                        /\ \A g \in Representable(at.width) : ~(Num(at.f) < Num(g) /\ Num(g) < Num(up))
  BY DEF NextIsAdjacent
<1> DEFINE f == at.f
           width == at.width
<1>1. width \in {"wide", "narrow"} /\ f \in Representable(width) /\ f # Inf
  BY DEF Arguments
<1> HIDE DEF f, width
<1>2. Adjacent(f, NextUpWidth(f, width), width)
  BY <1>1, NextUpIsAdjacent
<1> QED BY <1>2 DEF Adjacent, f, width

\* The order floats shrink in, and the steps between neighbours (floats.rs).
THEOREM FloatOrdersKept == Spec => []FloatOrders
<1>1. Arguments => FloatOrders
  BY LexHolds, NextHolds DEF FloatOrders
<1> QED BY <1>1, ArgumentsStay, PTL


\* What a magnitude counts for when rounding.
Worth(width, f) == IF f = Inf THEN Overflow(width) ELSE Units(f)

\* It grows with the magnitude, to what would follow the largest finite one.
LEMMA WorthGrows ==
  ASSUME NEW width \in {"wide", "narrow"}
  PROVE  /\ \A f \in Magnitudes(width) : Worth(width, f) \in Nat
         /\ \A f, g \in Magnitudes(width) : f < g => Worth(width, f) < Worth(width, g)
<1>1. /\ Magnitudes(width) \subseteq 0 .. Inf /\ Inf \in Nat
      /\ \A f \in Magnitudes(width) : f \in 0 .. NegBit - 1 /\ f \in Nat /\ f <= Inf
  <2>1. Inf \in Nat /\ Inf < NegBit /\ NegBit \in Nat
    BY Format, SMT
  <2>2. Magnitudes(width) \subseteq 0 .. Inf
    BY MagnitudesOf
  <2> QED BY <2>1, <2>2
<1>2. \A f \in Magnitudes(width) : Units(f) \in Nat
  BY <1>1, UnitsOf
<1>3. \A f, g \in Magnitudes(width) : f < g => Units(f) < Units(g)
  BY <1>1, UnitsGrow
<1>4. CASE width = "wide"
  <2>1. \A f : Worth(width, f) = Units(f)
    BY <1>4 DEF Worth, Overflow
  <2> QED BY <1>2, <1>3, <2>1
<1>5. CASE width = "narrow"
  <2> DEFINE top == Overflow("narrow")
  <2>1. top \in Nat /\ \A f \in Magnitudes(width) : f # Inf => Units(f) < top
    <3>1. \A f \in Magnitudes(width) : f # Inf => Units(f) \in NarrowUnits
      BY <1>5 DEF Magnitudes, NarrowMags
    <3> QED BY <3>1, NarrowOverflow
  <2>2. \A f \in Magnitudes(width) : Worth(width, f) = IF f = Inf THEN top ELSE Units(f)
    BY <1>5 DEF Worth
  <2> HIDE DEF top
  <2>3. \A f \in Magnitudes(width) : Worth(width, f) \in Nat
    BY <1>2, <2>1, <2>2
  <2>4. ASSUME NEW f \in Magnitudes(width), NEW g \in Magnitudes(width), f < g
        PROVE  Worth(width, f) < Worth(width, g)
    <3>1. f # Inf
      BY <1>1, <2>4
    <3>2. CASE g = Inf
      BY <2>1, <2>2, <3>1, <3>2
    <3>3. CASE g # Inf
      BY <1>3, <2>2, <2>4, <3>1, <3>3
    <3> QED BY <3>2, <3>3
  <2> QED BY <2>3, <2>4
<1> QED BY <1>4, <1>5

\* The magnitudes nearest to u units.
Distances(u, width) == {Gap(u, width, f) : f \in Magnitudes(width)}
Closest(u, width)   == {f \in Magnitudes(width) : Gap(u, width, f) = Min(Distances(u, width))}
Preceding(width, f)     == {g \in Magnitudes(width) : g < f}

\* Between two of them there is no other, so that one of the two is even.
LEMMA OneIsEven ==
  ASSUME NEW width \in {"wide", "narrow"}, NEW u \in Int,
         NEW f \in Closest(u, width), NEW g \in Closest(u, width), f < g,
         \A k \in Magnitudes(width) : Gap(u, width, f) <= Gap(u, width, k)
  PROVE  Cardinality(Preceding(width, f)) % 2 = 0 \/ Cardinality(Preceding(width, g)) % 2 = 0
<1> DEFINE S == Magnitudes(width)
           W(k) == Worth(width, k)
<1>1. S \subseteq 0 .. Inf /\ Inf \in Nat
  BY MagnitudesOf, Format
<1>2. /\ \A k \in S : W(k) \in Nat /\ Gap(u, width, k) = Abs(u - W(k))
      /\ \A k, l \in S : k < l => W(k) < W(l)
  <2>1. \A k \in S : Gap(u, width, k) = Abs(u - W(k))
    BY Zenon DEF Gap, Worth
  <2> QED BY <2>1, WorthGrows
<1>3. f \in S /\ g \in S /\ Gap(u, width, f) = Gap(u, width, g)
  BY DEF Closest
<1> HIDE DEF S, W
<1>4. ASSUME NEW k \in S, f < k, k < g PROVE FALSE
  <2> DEFINE a == W(f)
             b == W(k)
             d == W(g)
  <2>1. a \in Nat /\ b \in Nat /\ d \in Nat /\ a < b /\ b < d
    BY <1>2, <1>3, <1>4
  <2>2. Abs(u - a) = Abs(u - d) /\ Abs(u - a) <= Abs(u - b)
    BY <1>2, <1>3, <1>4 DEF S
  <2> HIDE DEF a, b, d
  <2> QED BY <2>1, <2>2, SMT DEF Abs
<1>5. Preceding(width, g) = Preceding(width, f) \cup {f}
  <2>1. \A k \in S : k < g <=> k < f \/ k = f
    <3>1. \A k \in S : k \in Int
      BY <1>1
    <3> QED BY <1>3, <1>4, <3>1
  <2> QED BY <1>3, <2>1 DEF Preceding, S
<1> DEFINE B == Preceding(width, f)
<1>6. IsFiniteSet(B) /\ f \notin B
  <2>1. IsFiniteSet(0 .. Inf)
    BY <1>1, FS_Interval
  <2>2. B \subseteq 0 .. Inf
    BY <1>1 DEF Preceding, S
  <2>3. ~(f < f)
    BY <1>1, <1>3
  <2> QED BY <2>1, <2>2, <2>3, FS_Subset DEF Preceding
<1> HIDE DEF B
<1> DEFINE n == Cardinality(B)
<1>7. n \in Nat /\ Cardinality(B \cup {f}) = n + 1
  BY <1>6, FS_AddElement, FS_CardinalityType
<1> HIDE DEF n
<1>8. n % 2 = 0 \/ (n + 1) % 2 = 0
  BY <1>7, SMT
<1> QED BY <1>5, <1>7, <1>8 DEF B, n

\* Rounding finds a value of the width.
LEMMA NearestIn ==
  ASSUME NEW width \in {"wide", "narrow"}, NEW u \in Int
  PROVE  Nearest(u, width) \in Magnitudes(width)
<1> DEFINE S == Magnitudes(width)
           D == Distances(u, width)
           best == Closest(u, width)
           Even(f) == Cardinality(Preceding(width, f)) % 2 = 0
<1>1. Nearest(u, width) = CHOOSE f \in best : Cardinality(best) = 1 \/ Even(f)
  BY Zenon DEF Nearest, Gap, Distances, Closest, Preceding
<1>2. D \in SUBSET Nat /\ D # {}
  <2>1. \A k \in S : Gap(u, width, k) \in Nat
    <3> SUFFICES ASSUME NEW k \in S PROVE Gap(u, width, k) \in Nat
      OBVIOUS
    <3> DEFINE w == Worth(width, k)
    <3>1. w \in Nat /\ Gap(u, width, k) = Abs(u - w)
      BY WorthGrows DEF Gap, Worth
    <3> HIDE DEF w
    <3> QED BY <3>1, SMT DEF Abs
  <2>2. 0 \in S
    BY MagnitudesOf
  <2> QED BY <2>1, <2>2 DEF Distances
<1>3. Min(D) \in D /\ \A d \in D : Min(D) <= d
  <2> HIDE DEF D
  <2> QED BY <1>2, MinOf
<1>4. PICK f \in S : Gap(u, width, f) = Min(D)
  BY <1>3 DEF Distances
<1>5. f \in best
  BY <1>4 DEF Closest
<1>6. \A g \in best : Gap(u, width, g) = Min(D) /\ g \in S
  BY DEF Closest
<1>7. \A k \in S : Min(D) <= Gap(u, width, k)
  BY <1>3 DEF Distances
<1>8. \E g \in best : Cardinality(best) = 1 \/ Even(g)
  <2>1. CASE best = {f}
    <3>1. Cardinality(best) = 1
      BY <2>1, FS_Singleton
    <3> QED BY <1>5, <3>1
  <2>2. CASE best # {f}
    <3>1. PICK g \in best : g # f
      BY <1>5, <2>2
    <3>2. f \in Int /\ g \in Int
      <4>1. S \subseteq 0 .. Inf /\ Inf \in Nat
        BY MagnitudesOf, Format
      <4> QED BY <1>4, <1>6, <4>1
    <3>3. f < g \/ g < f
      BY <3>1, <3>2
    <3>4. \A k \in S : Gap(u, width, f) <= Gap(u, width, k) /\ Gap(u, width, g) <= Gap(u, width, k)
      BY <1>4, <1>6, <1>7
    <3>5. Even(f) \/ Even(g)
      BY <1>5, <3>3, <3>4, OneIsEven
    <3> QED BY <1>5, <3>5
  <2> QED BY <2>1, <2>2
<1> HIDE DEF S, D, best, Even
<1>9. (CHOOSE f_1 \in best : Cardinality(best) = 1 \/ Even(f_1)) \in best
  BY <1>8
<1> QED BY <1>1, <1>6, <1>9 DEF S

\* Narrowing gives a value of the width, of the same sign.
LEMMA NarrowedIn ==
  ASSUME NEW width \in {"wide", "narrow"}, NEW m \in 0 .. Inf
  PROVE  /\ NarrowToWidth(m, width) \in Magnitudes(width)
         /\ \E n \in Magnitudes(width) : NarrowToWidth(Neg(m), width) = Neg(n)
<1>1. Inf \in Nat /\ m \in 0 .. NegBit - 1 /\ m \in Nat
  BY Format, SMT
<1>2. Mag(m) = m /\ ~IsNegative(m) /\ Mag(Neg(m)) = m /\ IsNegative(Neg(m))
  BY <1>1, Signs
<1>3. CASE width = "wide"
  BY <1>3 DEF NarrowToWidth, Magnitudes, WideMags
<1>4. CASE width = "narrow" /\ m = Inf
  <2>1. ~IsFinite(m) /\ ~IsFinite(Neg(m)) /\ Inf \in Magnitudes(width)
    BY <1>1, <1>2, <1>4, MagnitudesOf DEF IsFinite
  <2> QED BY <1>4, <2>1 DEF NarrowToWidth
<1>5. CASE width = "narrow" /\ m # Inf
  <2>1. IsFinite(m) /\ IsFinite(Neg(m))
    BY <1>1, <1>2, <1>5 DEF IsFinite
  <2>2. NarrowToWidth(m, width) = Narrowed[m] /\ NarrowToWidth(Neg(m), width) = Neg(Narrowed[m])
    BY <1>2, <1>5, <2>1 DEF NarrowToWidth
  <2>3. Units(m) \in Int
    BY <1>1, UnitsOf
  <2>4. Narrowed[m] = Nearest(Units(m), "narrow")
    BY <1>5 DEF Narrowed, WideMags
  <2>5. Narrowed[m] \in Magnitudes(width)
    BY <1>5, <2>3, <2>4, NearestIn
  <2> QED BY <2>2, <2>5
<1> QED BY <1>3, <1>4, <1>5


\* A place on the line of all floats, -0 just before 0.
Place(f) == 2 * Num(f) + (IF IsNegative(f) THEN 0 ELSE 1)

\* A float that is no NaN is a magnitude or the negation of one.
LEMMA NoNan ==
  ASSUME NEW f \in AllFloats, ~IsNan(f)
  PROVE  f \in Representable("wide") /\ \E m \in 0 .. Inf : f = m \/ f = Neg(m)
<1>1. NegBit \in Nat \ {0} /\ Inf \in Nat /\ f \in Nat /\ f < 2 * NegBit
  BY Format, SMT DEF AllFloats
<1>2. f % NegBit <= Inf /\ f % NegBit \in Nat
  <2>1. f % NegBit \in 0 .. NegBit - 1
    BY <1>1, Division
  <2> QED BY <1>1, <2>1 DEF IsNan, Mag
<1>3. \E m \in 0 .. Inf : f = m \/ f = Neg(m)
  <2>1. CASE f < NegBit
    <3>1. f \in 0 .. NegBit - 1
      BY <1>1, <2>1
    <3>2. f % NegBit = f
      BY <3>1, Signs DEF Mag
    <3> QED BY <1>1, <1>2, <3>2
  <2>2. CASE ~(f < NegBit)
    <3> DEFINE m == f - NegBit
    <3>1. m \in 0 .. NegBit - 1 /\ f = m + NegBit
      BY <1>1, <2>2
    <3> HIDE DEF m
    <3>2. f = Neg(m) /\ Mag(Neg(m)) = m
      BY <3>1, Signs
    <3>3. m <= Inf /\ m \in Nat
      BY <1>2, <3>1, <3>2 DEF Mag
    <3> QED BY <1>1, <3>2, <3>3
  <2> QED BY <2>1, <2>2
<1> QED BY <1>3 DEF Representable, Magnitudes, WideMags

\* What the place of a float says of it.
LEMMA PlaceOf ==
  ASSUME NEW m \in 0 .. Inf
  PROVE  /\ Place(m) = 2 * m + 1 /\ Place(Neg(m)) = -(2 * m)
         /\ Num(m) = m /\ Num(Neg(m)) = -m /\ Mag(m) = m /\ Mag(Neg(m)) = m
         /\ ~IsNegative(m) /\ IsNegative(Neg(m)) /\ Neg(Neg(m)) = m
         /\ ~IsNan(m) /\ ~IsNan(Neg(m)) /\ m \in AllFloats /\ Neg(m) \in AllFloats
<1>1. m \in 0 .. NegBit - 1 /\ Inf \in Nat /\ NegBit \in Nat /\ m <= Inf /\ m \in Nat
  BY Format, SMT
<1>2. /\ Num(m) = m /\ Num(Neg(m)) = -m /\ Mag(m) = m /\ Mag(Neg(m)) = m
      /\ ~IsNegative(m) /\ IsNegative(Neg(m)) /\ Neg(Neg(m)) = m /\ Neg(m) = m + NegBit
  BY <1>1, Signs
<1>3. Place(m) = 2 * m + 1
  BY <1>2 DEF Place
<1>4. Place(Neg(m)) = -(2 * m)
  <2>1. Place(Neg(m)) = 2 * (-m) + 0
    BY <1>2 DEF Place
  <2> QED BY <1>1, <2>1, SMT
<1>5. ~IsNan(m) /\ ~IsNan(Neg(m))
  BY <1>1, <1>2 DEF IsNan
<1>6. m \in AllFloats /\ Neg(m) \in AllFloats
  BY <1>1, <1>2 DEF AllFloats
<1> QED BY <1>2, <1>3, <1>4, <1>5, <1>6

\* The same of any float that is no NaN: its place tells number and sign.
LEMMA PlaceFacts ==
  ASSUME NEW f \in Representable("wide")
  PROVE  /\ Num(f) \in Int /\ Place(f) \in Int /\ Mag(f) \in 0 .. Inf
         /\ Place(f) = 2 * Num(f) \/ Place(f) = 2 * Num(f) + 1
         /\ (Num(f) > 0 => Place(f) = 2 * Num(f) + 1) /\ (Num(f) < 0 => Place(f) = 2 * Num(f))
         /\ IsNegative(f) <=> Place(f) <= 0
         /\ Place(Neg(f)) = 1 - Place(f) /\ Num(Neg(f)) = -Num(f) /\ Neg(Neg(f)) = f
         /\ Neg(f) \in Representable("wide") /\ ~IsNan(f) /\ f \in AllFloats
         /\ Mag(f) = 0 <=> Num(f) = 0
         /\ Num(f) >= 0 => Mag(f) = Num(f)
         /\ Num(f) <= 0 => Mag(f) = -Num(f)
<1>1. PICK m \in 0 .. Inf : f = m \/ f = Neg(m)
  BY DEF Representable, Magnitudes, WideMags
<1>2. Inf \in Nat /\ m \in Nat
  BY Format
<1>3. m \in Representable("wide") /\ Neg(m) \in Representable("wide")
  BY DEF Representable, Magnitudes, WideMags
<1>4. CASE f = m
  <2>1. /\ Place(f) = 2 * m + 1 /\ Place(Neg(f)) = -(2 * m) /\ Num(f) = m /\ Num(Neg(f)) = -m
        /\ Mag(f) = m /\ ~IsNegative(f) /\ Neg(Neg(f)) = f /\ ~IsNan(f) /\ f \in AllFloats
    BY <1>4, PlaceOf
  <2> QED BY <1>2, <1>3, <1>4, <2>1, SMT
<1>5. CASE f = Neg(m)
  <2>1. /\ Place(f) = -(2 * m) /\ Place(Neg(f)) = 2 * m + 1 /\ Num(f) = -m /\ Num(Neg(f)) = m
        /\ Mag(f) = m /\ IsNegative(f) /\ Neg(Neg(f)) = f /\ ~IsNan(f) /\ f \in AllFloats /\ Neg(f) = m
    BY <1>5, PlaceOf
  <2>2. Num(Neg(f)) = -Num(f)
    BY <1>2, <2>1, SMT
  <2> QED BY <1>2, <1>3, <1>5, <2>1, <2>2, SMT
<1> QED BY <1>1, <1>4, <1>5

\* sign_aware_lte is the order of places.
LEMMA LteIsPlaces ==
  ASSUME NEW x \in Representable("wide"), NEW y \in Representable("wide")
  PROVE  SignAwareLte(x, y) <=> Place(x) <= Place(y)
<1> DEFINE a == Num(x)
           b == Num(y)
           s == Place(x)
           t == Place(y)
<1>1. /\ a \in Int /\ b \in Int /\ s \in Int /\ t \in Int
      /\ s = 2 * a \/ s = 2 * a + 1
      /\ t = 2 * b \/ t = 2 * b + 1
      /\ (a > 0 => s = 2 * a + 1) /\ (a < 0 => s = 2 * a)
      /\ (b > 0 => t = 2 * b + 1) /\ (b < 0 => t = 2 * b)
  BY PlaceFacts
<1>2. (Mag(x) = 0 <=> a = 0) /\ (Mag(y) = 0 <=> b = 0) /\ (IsNegative(x) <=> s <= 0) /\ (IsNegative(y) <=> t <= 0)
  BY PlaceFacts
<1>3. SignAwareLte(x, y) <=> IF a = 0 /\ b = 0 THEN IsNegative(x) \/ ~IsNegative(y) ELSE a <= b
  BY <1>2 DEF SignAwareLte
<1> HIDE DEF a, b, s, t
<1>4. CASE a = 0 /\ b = 0
  <2>1. (s = 0 \/ s = 1) /\ (t = 0 \/ t = 1)
    BY <1>1, <1>4
  <2>2. (s <= 0 \/ ~(t <= 0)) <=> s <= t
    BY <2>1
  <2>3. SignAwareLte(x, y) <=> (s <= 0 \/ ~(t <= 0))
    BY <1>2, <1>3, <1>4, Zenon
  <2> QED BY <2>2, <2>3 DEF s, t
<1>5. CASE ~(a = 0 /\ b = 0)
  <2>1. a <= b <=> s <= t
    BY <1>1, <1>5
  <2>2. SignAwareLte(x, y) <=> a <= b
    BY <1>3, <1>5, Zenon
  <2> QED BY <2>1, <2>2 DEF s, t
<1> QED BY <1>4, <1>5

\* The values of a width: some of all, both infinities and zeros, with each its negation.
LEMMA WidthValues ==
  ASSUME NEW width \in {"wide", "narrow"}
  PROVE  /\ Representable(width) \subseteq Representable("wide")
         /\ Inf \in Representable(width) /\ Neg(Inf) \in Representable(width)
         /\ 0 \in Representable(width) /\ Neg(0) \in Representable(width)
         /\ \A f \in Representable(width) : Neg(f) \in Representable(width)
         /\ \A f \in Representable("wide") : Place(Neg(Inf)) <= Place(f) /\ Place(f) <= Place(Inf)
         /\ Place(Inf) = 2 * Inf + 1 /\ Place(Neg(Inf)) = -(2 * Inf) /\ Inf \in Nat \ {0}
<1>1. Magnitudes(width) \subseteq 0 .. Inf /\ 0 \in Magnitudes(width) /\ Inf \in Magnitudes(width) /\ Inf \in Nat
  BY MagnitudesOf, Format
<1>2. Representable("wide") = (0 .. Inf) \cup {Neg(m) : m \in 0 .. Inf}
  BY DEF Representable, Magnitudes, WideMags
<1>3. Representable(width) \subseteq Representable("wide")
  BY <1>1, <1>2 DEF Representable
<1>4. Inf \in Representable(width) /\ Neg(Inf) \in Representable(width) /\ 0 \in Representable(width) /\ Neg(0) \in Representable(width)
  BY <1>1 DEF Representable
<1>5. ASSUME NEW f \in Representable(width) PROVE Neg(f) \in Representable(width)
  <2>1. PICK m \in Magnitudes(width) : f = m \/ f = Neg(m)
    BY DEF Representable
  <2>2. Neg(Neg(m)) = m
    BY <1>1, PlaceOf
  <2> QED BY <2>1, <2>2 DEF Representable
<1>6. Place(Inf) = 2 * Inf + 1 /\ Place(Neg(Inf)) = -(2 * Inf)
  BY <1>1, PlaceOf
<1>7. ASSUME NEW f \in Representable("wide") PROVE Place(Neg(Inf)) <= Place(f) /\ Place(f) <= Place(Inf)
  <2>1. PICK m \in 0 .. Inf : f = m \/ f = Neg(m)
    BY <1>2
  <2>2. Place(f) = 2 * m + 1 \/ Place(f) = -(2 * m)
    BY <2>1, PlaceOf
  <2> QED BY <1>1, <1>6, <2>2
<1>8. Inf # 0
  BY WideSteps, <1>1
<1> QED BY <1>1, <1>3, <1>4, <1>5, <1>6, <1>7, <1>8

\* Only one float is at a place.
LEMMA PlaceIsUnique ==
  ASSUME NEW f \in Representable("wide"), NEW g \in Representable("wide"), Place(f) = Place(g)
  PROVE  f = g
<1>1. PICK m \in 0 .. Inf : f = m \/ f = Neg(m)
  BY DEF Representable, Magnitudes, WideMags
<1>2. PICK n \in 0 .. Inf : g = n \/ g = Neg(n)
  BY DEF Representable, Magnitudes, WideMags
<1>3. Inf \in Nat /\ m \in Nat /\ n \in Nat
  BY Format
<1>4. Place(m) = 2 * m + 1 /\ Place(Neg(m)) = -(2 * m) /\ Place(n) = 2 * n + 1 /\ Place(Neg(n)) = -(2 * n)
  BY PlaceOf
<1>5. 2 * m + 1 # -(2 * n) /\ 2 * n + 1 # -(2 * m)
  BY <1>3
<1>6. CASE f = m /\ g = n
  <2>1. 2 * m + 1 = 2 * n + 1
    BY <1>4, <1>6
  <2>2. m = n
    BY <1>3, <2>1
  <2> QED BY <1>6, <2>2
<1>7. CASE f = Neg(m) /\ g = Neg(n)
  <2>1. -(2 * m) = -(2 * n)
    BY <1>4, <1>7
  <2>2. m = n
    BY <1>3, <2>1
  <2> QED BY <1>7, <2>2
<1>8. ~(f = m /\ g = Neg(n)) /\ ~(f = Neg(m) /\ g = n)
  BY <1>4, <1>5
<1> QED BY <1>1, <1>2, <1>6, <1>7, <1>8

\* Whatever lies above a value of the width has not passed the next one.
LEMMA UpByPlace ==
  ASSUME NEW width \in {"wide", "narrow"}, NEW f \in Representable(width), f # Inf
  PROVE  /\ NextUpWidth(f, width) \in Representable(width) /\ Num(f) < Num(NextUpWidth(f, width))
         /\ \A g \in Representable(width) : Num(f) < Num(g) <=> Place(NextUpWidth(f, width)) <= Place(g)
<1> DEFINE up == NextUpWidth(f, width)
<1>1. Adjacent(f, up, width)
  BY NextUpIsAdjacent
<1> HIDE DEF up
<1>2. /\ up \in Representable(width) /\ Num(f) < Num(up) /\ up # 0
      /\ \A g \in Representable(width) : ~(Num(f) < Num(g) /\ Num(g) < Num(up))
  BY <1>1 DEF Adjacent
<1>3. Representable(width) \subseteq Representable("wide")
  BY WidthValues
<1>4. /\ Num(f) \in Int /\ Num(up) \in Int /\ Place(up) \in Int
      /\ Place(up) = 2 * Num(up) \/ Place(up) = 2 * Num(up) + 1
      /\ Num(up) > 0 => Place(up) = 2 * Num(up) + 1
      /\ Num(up) < 0 => Place(up) = 2 * Num(up)
  BY <1>2, <1>3, PlaceFacts
<1>5. Num(up) = 0 => Place(up) = 0
  <2>1. SUFFICES ASSUME Num(up) = 0, Place(up) = 1 PROVE FALSE
    BY <1>4
  <2>2. 0 \in Representable("wide") /\ Place(0) = 1
    <3>1. 0 \in 0 .. Inf
      BY Format
    <3> QED BY <3>1, PlaceOf, WidthValues
  <2>3. up = 0
    BY <1>2, <1>3, <2>1, <2>2, PlaceIsUnique
  <2> QED BY <1>2, <2>3
<1>6. ASSUME NEW g \in Representable(width) PROVE Num(f) < Num(g) <=> Place(up) <= Place(g)
  <2>1. /\ Num(g) \in Int /\ Place(g) \in Int
        /\ Place(g) = 2 * Num(g) \/ Place(g) = 2 * Num(g) + 1
        /\ Num(g) > 0 => Place(g) = 2 * Num(g) + 1
        /\ Num(g) < 0 => Place(g) = 2 * Num(g)
    BY <1>3, PlaceFacts
  <2>2. ~(Num(f) < Num(g) /\ Num(g) < Num(up))
    BY <1>2
  <2> QED BY <1>2, <1>4, <1>5, <2>1, <2>2
<1> QED BY <1>2, <1>6 DEF up

\* The same downwards.
LEMMA DownByPlace ==
  ASSUME NEW width \in {"wide", "narrow"}, NEW f \in Representable(width), f # Neg(Inf)
  PROVE  /\ NextDownWidth(f, width) \in Representable(width) /\ Num(NextDownWidth(f, width)) < Num(f)
         /\ \A g \in Representable(width) : Num(g) < Num(f) <=> Place(g) <= Place(NextDownWidth(f, width))
<1> DEFINE n == Neg(f)
           up == NextUpWidth(n, width)
           down == Neg(up)
<1>1. Representable(width) \subseteq Representable("wide") /\ \A g \in Representable(width) : Neg(g) \in Representable(width)
  BY WidthValues
<1>2. n \in Representable(width) /\ Neg(n) = f /\ Num(n) = -Num(f) /\ Num(f) \in Int
  BY <1>1, PlaceFacts
<1>3. n # Inf
  BY <1>2
<1> HIDE DEF n
<1>4. /\ up \in Representable(width) /\ Num(n) < Num(up)
      /\ \A g \in Representable(width) : Num(n) < Num(g) <=> Place(up) <= Place(g)
  BY <1>2, <1>3, UpByPlace
<1> HIDE DEF up
<1>5. down \in Representable(width) /\ Place(down) = 1 - Place(up) /\ Num(down) = -Num(up) /\ Place(up) \in Int /\ Num(up) \in Int
  BY <1>1, <1>4, PlaceFacts
<1> HIDE DEF down
<1>6. Num(down) < Num(f)
  BY <1>2, <1>4, <1>5
<1>7. ASSUME NEW g \in Representable(width) PROVE Num(g) < Num(f) <=> Place(g) <= Place(down)
  <2>1. Neg(g) \in Representable(width) /\ Num(Neg(g)) = -Num(g) /\ Place(Neg(g)) = 1 - Place(g)
        /\ Num(g) \in Int /\ Place(g) \in Int
    BY <1>1, PlaceFacts
  <2>2. Num(n) < Num(Neg(g)) <=> Place(up) <= Place(Neg(g))
    BY <1>4, <2>1
  <2> QED BY <1>2, <1>5, <2>1, <2>2
<1>8. NextDownWidth(f, width) = down
  BY DEF NextDownWidth, down, up, n
<1> QED BY <1>5, <1>6, <1>7, <1>8


\* Arguments of the types floats() takes; a NaN is no bound.
TypedArgs(args) ==
    /\ args.width \in {"wide", "narrow"}
    /\ args.min = {} \/ \E b \in Representable("wide") : args.min = {b}
    /\ args.max = {} \/ \E b \in Representable("wide") : args.max = {b}
    /\ args.exclude_min \in BOOLEAN /\ args.exclude_max \in BOOLEAN
    /\ args.allow_infinity \in Flags /\ args.allow_nan \in Flags /\ args.allow_subnormal \in Flags

AboveMin(v, args) ==
    \A b \in args.min : IF args.exclude_min THEN Num(b) < Num(v) ELSE SignAwareLte(b, v)
BelowMax(v, args) ==
    \A b \in args.max : IF args.exclude_max THEN Num(v) < Num(b) ELSE SignAwareLte(v, b)

\* The bounds once endpoints are excluded.
Low(args)  == Bound(args.min, args.exclude_min, NextUpWidth, args.width, Neg(Inf))
High(args) == Bound(args.max, args.exclude_max, NextDownWidth, args.width, Inf)

\* Whether subnormals are drawn.
Subnormal(args, min, max) ==
    IF args.allow_subnormal # {} THEN args.allow_subnormal = {TRUE}
    ELSE /\ \A lo \in min : Num(lo) < SmallestNormal(args.width)
         /\ \A hi \in max : Num(hi) > -SmallestNormal(args.width)

\* What floats_params refuses.
Refused(args, min, max) ==
    \/ \E b \in args.min \cup args.max : Num(NarrowToWidth(b, args.width)) # Num(b)
    \/ args.allow_nan = {TRUE} /\ args.min \cup args.max # {}
    \/ args.exclude_min /\ args.min \in {{}, {Inf}}
    \/ args.exclude_max /\ args.max \in {{}, {Neg(Inf)}}
    \/ \E lo \in min, hi \in max : ~SignAwareLte(lo, hi)
    \/ args.allow_infinity = {TRUE} /\ min # {} /\ max # {}
    \/ args.allow_infinity = {FALSE} /\ (min = {Inf} \/ max = {Neg(Inf)})
    \/ /\ Subnormal(args, min, max)
       /\ \/ \E lo \in min : Num(lo) >= SmallestNormal(args.width)
          \/ \E hi \in max : Num(hi) <= -SmallestNormal(args.width)

\* What it makes of the rest.
Made(args, min, max) ==
    [valid |-> TRUE,
     min |-> IF min = {} THEN Neg(Inf) ELSE CHOOSE lo \in min : TRUE,
     max |-> IF max = {} THEN Inf ELSE CHOOSE hi \in max : TRUE,
     allow_nan |-> IF args.allow_nan = {} THEN args.min \cup args.max = {}
                   ELSE args.allow_nan = {TRUE},
     allow_inf |-> IF args.allow_infinity = {} THEN ~(min # {} /\ max # {})
                   ELSE args.allow_infinity = {TRUE},
     snm |-> IF Subnormal(args, min, max) THEN 1 ELSE SmallestNormal(args.width),
     width |-> args.width]

\* floats_params is these two.
LEMMA ParamsAre ==
  ASSUME NEW args, FloatsParams(args).valid
  PROVE  ~Refused(args, Low(args), High(args)) /\ FloatsParams(args) = Made(args, Low(args), High(args))
<1> DEFINE lo == Low(args)
           hi == High(args)
<1>1. FloatsParams(args) = Validated(args, lo, hi)
  BY DEF FloatsParams, Low, High
<1> HIDE DEF lo, hi
<1>2. Validated(args, lo, hi) = IF Refused(args, lo, hi) THEN Invalid ELSE Made(args, lo, hi)
  BY Zenon DEF Validated, Refused, Made, Subnormal
<1>3. ~Invalid.valid
  BY DEF Invalid
<1>4. ~Refused(args, lo, hi)
  BY <1>1, <1>2, <1>3
<1> QED BY <1>1, <1>2, <1>4 DEF lo, hi

\* A bound that is exact is a value of the width.
LEMMA ExactBound ==
  ASSUME NEW width \in {"wide", "narrow"}, NEW b \in Representable("wide"),
         Num(NarrowToWidth(b, width)) = Num(b)
  PROVE  b \in Representable(width)
<1>1. PICK m \in 0 .. Inf : b = m \/ b = Neg(m)
  BY DEF Representable, Magnitudes, WideMags
<1>2. Magnitudes(width) \subseteq 0 .. Inf
  BY MagnitudesOf
<1>3. CASE b = m
  <2> DEFINE n == NarrowToWidth(m, width)
  <2>1. n \in Magnitudes(width) /\ Num(n) = Num(m)
    BY <1>3, NarrowedIn
  <2> HIDE DEF n
  <2>2. Num(n) = n /\ Num(m) = m
    BY <1>2, <2>1, PlaceOf
  <2> QED BY <1>3, <2>1, <2>2 DEF Representable
<1>4. CASE b = Neg(m)
  <2>1. PICK n \in Magnitudes(width) : NarrowToWidth(Neg(m), width) = Neg(n)
    BY NarrowedIn
  <2>2. Num(Neg(n)) = -n /\ Num(Neg(m)) = -m
    BY <1>2, <2>1, PlaceOf
  <2>3. -n = -m
    BY <1>4, <2>1, <2>2
  <2>4. n = m
    BY <1>2, <2>3, Format
  <2> QED BY <1>4, <2>4 DEF Representable
<1> QED BY <1>1, <1>3, <1>4

\* The lower bound: a value of the width is above the one asked for if it is not before it.
LEMMA LowBound ==
  ASSUME NEW args, TypedArgs(args), ~Refused(args, Low(args), High(args)),
         NEW min, min = IF Low(args) = {} THEN Neg(Inf) ELSE CHOOSE lo \in Low(args) : TRUE
  PROVE  /\ min \in Representable(args.width)
         /\ \A v \in Representable(args.width) : AboveMin(v, args) <=> Place(min) <= Place(v)
         /\ Low(args) = IF min = Neg(Inf) THEN {} ELSE {min}
<1> DEFINE width == args.width
           lo == Low(args)
<1>1. width \in {"wide", "narrow"} /\ Representable(width) \subseteq Representable("wide")
  BY WidthValues DEF TypedArgs
<1>2. lo = {f \in {IF args.exclude_min THEN NextUpWidth(b, width) ELSE b : b \in args.min} : f # Neg(Inf)}
  BY DEF Low, Bound
<1>3. Neg(Inf) \in Representable(width) /\ \A v \in Representable(width) : Place(Neg(Inf)) <= Place(v)
  BY <1>1, WidthValues
<1> HIDE DEF width, lo
<1>4. CASE args.min = {}
  <2>1. lo = {}
    BY <1>2, <1>4
  <2>2. min = Neg(Inf)
    BY <2>1 DEF lo
  <2> QED BY <1>3, <1>4, <2>1, <2>2 DEF AboveMin, width, lo
<1>5. ASSUME NEW b \in Representable("wide"), args.min = {b}
      PROVE  /\ min \in Representable(args.width)
             /\ \A v \in Representable(args.width) : AboveMin(v, args) <=> Place(min) <= Place(v)
             /\ Low(args) = IF min = Neg(Inf) THEN {} ELSE {min}
  <2>1. b \in Representable(width)
    <3>1. Num(NarrowToWidth(b, width)) = Num(b)
      BY <1>5 DEF Refused, width
    <3> QED BY <1>1, <3>1, ExactBound
  <2>2. CASE args.exclude_min
    <3> DEFINE up == NextUpWidth(b, width)
    <3>1. b # Inf
      BY <1>5, <2>2 DEF Refused
    <3>2. /\ up \in Representable(width) /\ Num(b) < Num(up)
          /\ \A g \in Representable(width) : Num(b) < Num(g) <=> Place(up) <= Place(g)
      BY <1>1, <2>1, <3>1, UpByPlace
    <3>3. up # Neg(Inf)
      <4> DEFINE z == Neg(Inf)
      <4>1. Inf \in 0 .. Inf /\ Inf \in Nat
        BY Format
      <4>2. Num(z) = -Inf /\ Mag(b) \in 0 .. Inf /\ Num(b) \in Int /\ (Num(b) <= 0 => Mag(b) = -Num(b))
        BY <4>1, PlaceOf, PlaceFacts
      <4> HIDE DEF z
      <4>3. ~(Num(b) < Num(z))
        BY <4>1, <4>2
      <4> QED BY <3>2, <4>3 DEF z
    <3>4. lo = {up}
      BY <1>2, <1>5, <2>2, <3>3
    <3> HIDE DEF up
    <3>5. min = up
      BY <3>4 DEF lo
    <3>6. \A v \in Representable(width) : AboveMin(v, args) <=> Place(min) <= Place(v)
      BY <1>5, <2>2, <3>2, <3>5 DEF AboveMin
    <3> QED BY <3>2, <3>3, <3>4, <3>5, <3>6 DEF lo, width
  <2>3. CASE ~args.exclude_min
    <3>1. min = b /\ lo = IF b = Neg(Inf) THEN {} ELSE {b}
      <4>1. lo = {f \in {b} : f # Neg(Inf)}
        BY <1>2, <1>5, <2>3
      <4>2. lo = IF b = Neg(Inf) THEN {} ELSE {b}
        BY <4>1
      <4>3. CASE b = Neg(Inf)
        BY <4>2, <4>3 DEF lo
      <4>4. CASE b # Neg(Inf)
        BY <4>2, <4>4 DEF lo
      <4> QED BY <4>2, <4>3, <4>4
    <3>2. ASSUME NEW v \in Representable(width) PROVE AboveMin(v, args) <=> Place(min) <= Place(v)
      <4>1. SignAwareLte(b, v) <=> Place(b) <= Place(v)
        BY <1>1, LteIsPlaces
      <4> QED BY <1>5, <2>3, <3>1, <4>1 DEF AboveMin
    <3> QED BY <2>1, <3>1, <3>2 DEF lo, width
  <2> QED BY <2>2, <2>3
<1> QED BY <1>4, <1>5 DEF TypedArgs

\* The upper bound likewise.
LEMMA HighBound ==
  ASSUME NEW args, TypedArgs(args), ~Refused(args, Low(args), High(args)),
         NEW max, max = IF High(args) = {} THEN Inf ELSE CHOOSE hi \in High(args) : TRUE
  PROVE  /\ max \in Representable(args.width)
         /\ \A v \in Representable(args.width) : BelowMax(v, args) <=> Place(v) <= Place(max)
         /\ High(args) = IF max = Inf THEN {} ELSE {max}
<1> DEFINE width == args.width
           hi == High(args)
<1>1. width \in {"wide", "narrow"} /\ Representable(width) \subseteq Representable("wide")
  BY WidthValues DEF TypedArgs
<1>2. hi = {f \in {IF args.exclude_max THEN NextDownWidth(b, width) ELSE b : b \in args.max} : f # Inf}
  BY DEF High, Bound
<1>3. Inf \in Representable(width) /\ \A v \in Representable(width) : Place(v) <= Place(Inf)
  BY <1>1, WidthValues
<1> HIDE DEF width, hi
<1>4. CASE args.max = {}
  <2>1. hi = {}
    BY <1>2, <1>4
  <2>2. max = Inf
    BY <2>1 DEF hi
  <2> QED BY <1>3, <1>4, <2>1, <2>2 DEF BelowMax, width, hi
<1>5. ASSUME NEW b \in Representable("wide"), args.max = {b}
      PROVE  /\ max \in Representable(args.width)
             /\ \A v \in Representable(args.width) : BelowMax(v, args) <=> Place(v) <= Place(max)
             /\ High(args) = IF max = Inf THEN {} ELSE {max}
  <2>1. b \in Representable(width)
    <3>1. Num(NarrowToWidth(b, width)) = Num(b)
      BY <1>5 DEF Refused, width
    <3> QED BY <1>1, <3>1, ExactBound
  <2>2. CASE args.exclude_max
    <3> DEFINE down == NextDownWidth(b, width)
    <3>1. b # Neg(Inf)
      BY <1>5, <2>2 DEF Refused
    <3>2. /\ down \in Representable(width) /\ Num(down) < Num(b)
          /\ \A g \in Representable(width) : Num(g) < Num(b) <=> Place(g) <= Place(down)
      BY <1>1, <2>1, <3>1, DownByPlace
    <3>3. down # Inf
      <4>1. Inf \in 0 .. Inf /\ Inf \in Nat
        BY Format
      <4>2. Num(Inf) = Inf /\ Mag(b) \in 0 .. Inf /\ Num(b) \in Int /\ (Num(b) >= 0 => Mag(b) = Num(b))
        BY <4>1, PlaceOf, PlaceFacts
      <4>3. ~(Num(Inf) < Num(b))
        BY <4>1, <4>2
      <4> QED BY <3>2, <4>3
    <3>4. hi = {down}
      BY <1>2, <1>5, <2>2, <3>3
    <3> HIDE DEF down
    <3>5. max = down
      BY <3>4 DEF hi
    <3>6. \A v \in Representable(width) : BelowMax(v, args) <=> Place(v) <= Place(max)
      BY <1>5, <2>2, <3>2, <3>5 DEF BelowMax
    <3> QED BY <3>2, <3>3, <3>4, <3>5, <3>6 DEF hi, width
  <2>3. CASE ~args.exclude_max
    <3>1. max = b /\ hi = IF b = Inf THEN {} ELSE {b}
      <4>1. hi = {f \in {b} : f # Inf}
        BY <1>2, <1>5, <2>3
      <4>2. hi = IF b = Inf THEN {} ELSE {b}
        BY <4>1
      <4>3. CASE b = Inf
        BY <4>2, <4>3 DEF hi
      <4>4. CASE b # Inf
        BY <4>2, <4>4 DEF hi
      <4> QED BY <4>2, <4>3, <4>4
    <3>2. ASSUME NEW v \in Representable(width) PROVE BelowMax(v, args) <=> Place(v) <= Place(max)
      <4>1. SignAwareLte(v, b) <=> Place(v) <= Place(b)
        BY <1>1, LteIsPlaces
      <4> QED BY <1>5, <2>3, <3>1, <4>1 DEF BelowMax
    <3> QED BY <2>1, <3>1, <3>2 DEF hi, width
  <2> QED BY <2>2, <2>3
<1> QED BY <1>4, <1>5 DEF TypedArgs

\* The largest finite value of a width.
LEMMA TopOf ==
  ASSUME NEW width \in {"wide", "narrow"}
  PROVE  /\ MaxFinite[width] \in Magnitudes(width) /\ MaxFinite[width] \in Nat /\ MaxFinite[width] < Inf
         /\ \A m \in Magnitudes(width) : m # Inf => m <= MaxFinite[width]
<1> DEFINE S == Magnitudes(width) \ {Inf}
<1>1. Inf \in Nat \ {0} /\ Magnitudes(width) \subseteq 0 .. Inf /\ 0 \in Magnitudes(width)
  BY MagnitudesOf, WidthValues
<1>2. MaxFinite[width] = Max(S)
  BY DEF MaxFinite
<1>3. S \in SUBSET Int /\ S # {} /\ \A m \in S : m <= Inf
  <2>1. 0 \in S
    BY <1>1
  <2>2. \A m \in S : m \in Int /\ m <= Inf
    BY <1>1
  <2> QED BY <2>1, <2>2
<1>4. Max(S) \in S /\ \A m \in S : m <= Max(S)
  <2>1. Inf \in Int
    BY <1>1
  <2> HIDE DEF S
  <2> QED BY <1>3, <2>1, MaxOf
<1> QED BY <1>1, <1>2, <1>4

\* The finite values of a width lie between it and its negation, the others are infinite.
LEMMA FiniteValues ==
  ASSUME NEW width \in {"wide", "narrow"}, NEW v \in Representable(width)
  PROVE  /\ IsFinite(v) => /\ Place(Neg(MaxFinite[width])) <= Place(v) /\ Place(v) <= Place(MaxFinite[width])
                           /\ -MaxFinite[width] <= Num(v) /\ Num(v) <= MaxFinite[width]
         /\ ~IsFinite(v) => v = Inf \/ v = Neg(Inf)
         /\ IsFinite(v) => v # Inf /\ v # Neg(Inf)
<1> DEFINE top == MaxFinite[width]
<1>1. top \in 0 .. Inf /\ top < Inf /\ top \in Nat /\ Inf \in Nat /\ \A m \in Magnitudes(width) : m # Inf => m <= top
  BY TopOf, Format, MagnitudesOf
<1> HIDE DEF top
<1>2. PICK m \in Magnitudes(width) : v = m \/ v = Neg(m)
  BY DEF Representable
<1>3. m \in 0 .. Inf /\ Inf \in 0 .. Inf
  BY <1>1, MagnitudesOf
<1>4. /\ Place(m) = 2 * m + 1 /\ Place(Neg(m)) = -(2 * m) /\ Num(m) = m /\ Num(Neg(m)) = -m
      /\ Place(top) = 2 * top + 1 /\ Place(Neg(top)) = -(2 * top)
      /\ Mag(m) = m /\ Mag(Neg(m)) = m /\ Mag(Inf) = Inf /\ Mag(Neg(Inf)) = Inf
  BY <1>1, <1>3, PlaceOf
<1>5. IsFinite(v) <=> m < Inf
  BY <1>2, <1>4 DEF IsFinite
<1>6. ~IsFinite(v) => v = Inf \/ v = Neg(Inf)
  <2>1. ~(m < Inf) => m = Inf
    BY <1>1, <1>3
  <2> QED BY <1>2, <1>5, <2>1
<1>7. IsFinite(v) => v # Inf /\ v # Neg(Inf)
  <2>1. ~(Inf < Inf)
    BY <1>1
  <2> QED BY <1>4, <2>1 DEF IsFinite
<1>8. ASSUME IsFinite(v) PROVE /\ Place(Neg(top)) <= Place(v) /\ Place(v) <= Place(top)
                               /\ -top <= Num(v) /\ Num(v) <= top
  <2>1. m <= top /\ m \in Nat
    <3>1. m < Inf
      BY <1>5, <1>8
    <3> QED BY <1>1, <1>3, <3>1
  <2>2. CASE v = m
    BY <1>1, <1>4, <2>1, <2>2
  <2>3. CASE v = Neg(m)
    BY <1>1, <1>4, <2>1, <2>3
  <2> QED BY <1>2, <2>2, <2>3
<1> QED BY <1>6, <1>7, <1>8 DEF top

\* What floats() hands to its draws.
GoodParams(p, args) ==
    /\ p.width = args.width /\ p.min \in Representable(p.width) /\ p.max \in Representable(p.width)
    /\ \A v \in Representable(p.width) : AboveMin(v, args) <=> Place(p.min) <= Place(v)
    /\ \A v \in Representable(p.width) : BelowMax(v, args) <=> Place(v) <= Place(p.max)
    /\ Place(p.min) <= Place(p.max)
    /\ args.allow_infinity = {FALSE} => ~p.allow_inf
    /\ ~p.allow_inf => p.min # Inf /\ p.max # Neg(Inf)
    /\ p.allow_nan => args.allow_nan = {TRUE} \/ (args.allow_nan = {} /\ args.min \cup args.max = {})
    /\ p.snm \in {1, SmallestNormal(p.width)}

\* Whatever it was asked for, if it does not refuse.
LEMMA ParamsGood ==
  ASSUME NEW args, TypedArgs(args), NEW p, p = FloatsParams(args), p.valid
  PROVE  GoodParams(p, args)
<1> DEFINE lo == Low(args)
           hi == High(args)
<1>1. ~Refused(args, lo, hi) /\ p = Made(args, lo, hi)
  BY ParamsAre
<1>2. args.width \in {"wide", "narrow"} /\ args.allow_infinity \in Flags
  BY DEF TypedArgs
<1>3. /\ p.min = IF lo = {} THEN Neg(Inf) ELSE CHOOSE l \in lo : TRUE
      /\ p.max = IF hi = {} THEN Inf ELSE CHOOSE h \in hi : TRUE
      /\ p.allow_nan = IF args.allow_nan = {} THEN args.min \cup args.max = {} ELSE args.allow_nan = {TRUE}
      /\ p.allow_inf = IF args.allow_infinity = {} THEN ~(lo # {} /\ hi # {}) ELSE args.allow_infinity = {TRUE}
      /\ p.snm = IF Subnormal(args, lo, hi) THEN 1 ELSE SmallestNormal(args.width)
      /\ p.width = args.width
  <2>1. p.min = IF lo = {} THEN Neg(Inf) ELSE CHOOSE l \in lo : TRUE
    BY <1>1 DEF Made
  <2>2. p.max = IF hi = {} THEN Inf ELSE CHOOSE h \in hi : TRUE
    BY <1>1 DEF Made
  <2>3. p.allow_nan = IF args.allow_nan = {} THEN args.min \cup args.max = {} ELSE args.allow_nan = {TRUE}
    BY <1>1 DEF Made
  <2>4. p.allow_inf = IF args.allow_infinity = {} THEN ~(lo # {} /\ hi # {}) ELSE args.allow_infinity = {TRUE}
    BY <1>1 DEF Made
  <2>5. p.snm = IF Subnormal(args, lo, hi) THEN 1 ELSE SmallestNormal(args.width)
    BY <1>1 DEF Made
  <2>6. p.width = args.width
    BY <1>1 DEF Made
  <2> QED BY <2>1, <2>2, <2>3, <2>4, <2>5, <2>6
<1>4. /\ p.min \in Representable(args.width)
      /\ \A v \in Representable(args.width) : AboveMin(v, args) <=> Place(p.min) <= Place(v)
      /\ lo = IF p.min = Neg(Inf) THEN {} ELSE {p.min}
  BY <1>1, <1>3, LowBound
<1>5. /\ p.max \in Representable(args.width)
      /\ \A v \in Representable(args.width) : BelowMax(v, args) <=> Place(v) <= Place(p.max)
      /\ hi = IF p.max = Inf THEN {} ELSE {p.max}
  BY <1>1, <1>3, HighBound
<1> HIDE DEF lo, hi
<1>6. /\ Representable(args.width) \subseteq Representable("wide")
      /\ \A f \in Representable("wide") : Place(Neg(Inf)) <= Place(f) /\ Place(f) <= Place(Inf)
      /\ Inf \in Representable("wide") /\ Neg(Inf) \in Representable("wide") /\ Inf # Neg(Inf)
  <2>1. Inf # Neg(Inf)
    <3>1. Inf \in 0 .. Inf
      BY Format
    <3> QED BY <3>1, PlaceOf
  <2> QED BY <1>2, <2>1, WidthValues
<1>7. \A l \in lo, h \in hi : SignAwareLte(l, h)
  BY <1>1 DEF Refused
<1>8. Place(p.min) <= Place(p.max)
  <2>1. CASE p.min = Neg(Inf)
    BY <1>5, <1>6, <2>1
  <2>2. CASE p.max = Inf
    BY <1>4, <1>6, <2>2
  <2>3. CASE p.min # Neg(Inf) /\ p.max # Inf
    <3>1. SignAwareLte(p.min, p.max)
      BY <1>4, <1>5, <1>7, <2>3
    <3> QED BY <1>4, <1>5, <1>6, <3>1, LteIsPlaces
  <2> QED BY <2>1, <2>2, <2>3
<1>9. ASSUME ~p.allow_inf PROVE p.min # Inf /\ p.max # Neg(Inf)
  <2>1. CASE args.allow_infinity = {}
    <3>1. lo # {} /\ hi # {}
      BY <1>3, <1>9, <2>1
    <3>2. p.min # Neg(Inf) /\ p.max # Inf
      BY <1>4, <1>5, <3>1
    <3>3. p.min \in Representable("wide") /\ p.max \in Representable("wide")
      BY <1>4, <1>5, <1>6
    <3>4. p.min # Inf
      <4>1. SUFFICES ASSUME p.min = Inf PROVE FALSE
        OBVIOUS
      <4>2. Place(p.max) = Place(Inf)
        <5>1. Place(p.max) \in Int /\ Place(Inf) \in Int
          BY <1>6, <3>3, PlaceFacts
        <5> QED BY <1>6, <1>8, <3>3, <4>1, <5>1
      <4> QED BY <1>6, <3>2, <3>3, <4>2, PlaceIsUnique
    <3>5. p.max # Neg(Inf)
      <4>1. SUFFICES ASSUME p.max = Neg(Inf) PROVE FALSE
        OBVIOUS
      <4>2. Place(p.min) = Place(Neg(Inf))
        <5>1. Place(p.min) \in Int /\ Place(Neg(Inf)) \in Int
          BY <1>6, <3>3, PlaceFacts
        <5> QED BY <1>6, <1>8, <3>3, <4>1, <5>1
      <4> QED BY <1>6, <3>2, <3>3, <4>2, PlaceIsUnique
    <3> QED BY <3>4, <3>5
  <2>2. CASE args.allow_infinity = {TRUE}
    <3>1. {TRUE} # {}
      OBVIOUS
    <3> QED BY <1>3, <1>9, <2>2, <3>1
  <2>3. CASE args.allow_infinity = {FALSE}
    <3>1. lo # {Inf} /\ hi # {Neg(Inf)}
      BY <1>1, <2>3 DEF Refused
    <3> QED BY <1>4, <1>5, <1>6, <3>1
  <2> QED BY <1>2, <2>1, <2>2, <2>3 DEF Flags
<1>10. args.allow_infinity = {FALSE} => ~p.allow_inf
  <2>1. {FALSE} # {} /\ {FALSE} # {TRUE}
    <3>1. FALSE \in {FALSE} /\ FALSE \notin {TRUE}
      OBVIOUS
    <3> QED BY <3>1
  <2> QED BY <1>3, <2>1
<1>11. p.allow_nan => args.allow_nan = {TRUE} \/ (args.allow_nan = {} /\ args.min \cup args.max = {})
  BY <1>3
<1>12. p.snm \in {1, SmallestNormal(args.width)}
  BY <1>3
<1> QED BY <1>3, <1>4, <1>5, <1>8, <1>9, <1>10, <1>11, <1>12 DEF GoodParams

\* The constraints of a draw.
LEMMA DrawBoundsOf ==
  ASSUME NEW args, NEW p, GoodParams(p, args), p.width \in {"wide", "narrow"},
         NEW c, c = DrawBounds(p)
  PROVE  /\ c.min \in Representable(p.width) /\ c.max \in Representable(p.width) /\ Place(c.min) <= Place(c.max)
         /\ c.allow_nan = p.allow_nan /\ c.snm = p.snm
         /\ p.allow_inf => c.min = p.min /\ c.max = p.max
         /\ ~p.allow_inf =>
               /\ IsFinite(c.min) /\ IsFinite(c.max)
               /\ \A v \in Representable(p.width) : IsFinite(v) =>
                     /\ Place(c.min) <= Place(v) <=> Place(p.min) <= Place(v)
                     /\ Place(v) <= Place(c.max) <=> Place(v) <= Place(p.max)
<1> DEFINE width == p.width
           top == MaxFinite[width]
<1>1. /\ p.min \in Representable(width) /\ p.max \in Representable(width) /\ Place(p.min) <= Place(p.max)
      /\ ~p.allow_inf => p.min # Inf /\ p.max # Neg(Inf)
      /\ width \in {"wide", "narrow"}
  BY DEF GoodParams
<1>2. c = [min |-> IF p.min = Neg(Inf) THEN IF p.allow_inf THEN p.min ELSE Neg(top)
                   ELSE IF Num(p.min) < -top THEN Neg(top) ELSE p.min,
           max |-> IF p.max = Inf THEN IF p.allow_inf THEN p.max ELSE top
                   ELSE IF Num(p.max) > top THEN top ELSE p.max,
           allow_nan |-> p.allow_nan, snm |-> p.snm]
  BY Zenon DEF DrawBounds
<1>3. c.allow_nan = p.allow_nan /\ c.snm = p.snm
      /\ c.min = (IF p.min = Neg(Inf) THEN IF p.allow_inf THEN p.min ELSE Neg(top)
                  ELSE IF Num(p.min) < -top THEN Neg(top) ELSE p.min)
      /\ c.max = (IF p.max = Inf THEN IF p.allow_inf THEN p.max ELSE top
                  ELSE IF Num(p.max) > top THEN top ELSE p.max)
  BY <1>2
<1>4. top \in Nat /\ top < Inf /\ Inf \in Nat /\ top \in Representable(width) /\ Neg(top) \in Representable(width) /\ top \in 0 .. Inf
  BY <1>1, TopOf, Format, MagnitudesOf DEF Representable
<1>5. IsFinite(top) /\ IsFinite(Neg(top)) /\ Place(Neg(top)) <= Place(top)
  <2>1. Mag(top) = top /\ Mag(Neg(top)) = top /\ Place(top) = 2 * top + 1 /\ Place(Neg(top)) = -(2 * top)
    BY <1>4, PlaceOf
  <2> HIDE DEF top
  <2>2. -(2 * top) <= 2 * top + 1
    BY <1>4
  <2> QED BY <1>4, <2>1, <2>2 DEF IsFinite
<1>6. \A v \in Representable(width) :
         /\ IsFinite(v) => /\ Place(Neg(top)) <= Place(v) /\ Place(v) <= Place(top)
                           /\ -top <= Num(v) /\ Num(v) <= top
         /\ ~IsFinite(v) => v = Inf \/ v = Neg(Inf)
         /\ IsFinite(v) => v # Inf /\ v # Neg(Inf)
  BY <1>1, FiniteValues
<1>7. \A v \in Representable(width) : Num(v) \in Int /\ Place(v) \in Int
  BY <1>1, WidthValues, PlaceFacts
<1>8. Num(Inf) = Inf /\ Num(Neg(Inf)) = -Inf
  <2>1. Inf \in 0 .. Inf
    BY <1>4
  <2> QED BY <2>1, PlaceOf
<1>9. \A v \in Representable("wide") : Place(Neg(Inf)) <= Place(v) /\ Place(v) <= Place(Inf)
  BY WidthValues
<1>10. Representable(width) \subseteq Representable("wide")
  BY <1>1, WidthValues
<1> HIDE DEF top, width
<1>11. p.min # Neg(Inf) => ~(Num(p.min) < -top)
  <2>1. CASE IsFinite(p.min)
    <3>1. -top <= Num(p.min)
      BY <1>1, <1>6, <2>1
    <3>2. Num(p.min) \in Int
      BY <1>1, <1>7
    <3>3. -top \in Int
      BY <1>4
    <3> QED BY <3>1, <3>2, <3>3
  <2>2. CASE p.min = Inf
    BY <1>4, <1>8, <2>2
  <2> QED BY <1>1, <1>6, <2>1, <2>2
<1>12. p.max # Inf => ~(Num(p.max) > top)
  <2>1. CASE IsFinite(p.max)
    <3>1. Num(p.max) <= top
      BY <1>1, <1>6, <2>1
    <3>2. Num(p.max) \in Int
      BY <1>1, <1>7
    <3> QED BY <1>4, <3>1, <3>2
  <2>2. CASE p.max = Neg(Inf)
    BY <1>4, <1>8, <2>2
  <2> QED BY <1>1, <1>6, <2>1, <2>2
<1>13. c.min = (IF p.min = Neg(Inf) /\ ~p.allow_inf THEN Neg(top) ELSE p.min)
       /\ c.max = (IF p.max = Inf /\ ~p.allow_inf THEN top ELSE p.max)
  BY <1>3, <1>11, <1>12
<1>14. CASE p.allow_inf
  <2>1. c.min = p.min /\ c.max = p.max
    BY <1>13, <1>14
  <2> QED BY <1>1, <1>3, <1>14, <2>1 DEF width
<1>15. CASE ~p.allow_inf
  <2>1. c.min = (IF p.min = Neg(Inf) THEN Neg(top) ELSE p.min) /\ c.max = (IF p.max = Inf THEN top ELSE p.max)
    BY <1>13, <1>15
  <2>2. IsFinite(c.min) /\ c.min \in Representable(width)
    <3>1. CASE p.min = Neg(Inf)
      BY <1>4, <1>5, <2>1, <3>1
    <3>2. CASE p.min # Neg(Inf)
      BY <1>1, <1>6, <1>15, <2>1, <3>2
    <3> QED BY <3>1, <3>2
  <2>3. IsFinite(c.max) /\ c.max \in Representable(width)
    <3>1. CASE p.max = Inf
      BY <1>4, <1>5, <2>1, <3>1
    <3>2. CASE p.max # Inf
      BY <1>1, <1>6, <1>15, <2>1, <3>2
    <3> QED BY <3>1, <3>2
  <2>4. Place(c.min) <= Place(c.max)
    <3>1. CASE p.min = Neg(Inf)
      BY <1>6, <2>1, <2>3, <3>1
    <3>2. CASE p.max = Inf
      BY <1>6, <2>1, <2>2, <3>2
    <3>3. CASE p.min # Neg(Inf) /\ p.max # Inf
      BY <1>1, <2>1, <3>3
    <3> QED BY <3>1, <3>2, <3>3
  <2>5. ASSUME NEW v \in Representable(width), IsFinite(v)
        PROVE  /\ Place(c.min) <= Place(v) <=> Place(p.min) <= Place(v)
               /\ Place(v) <= Place(c.max) <=> Place(v) <= Place(p.max)
    <3>1. Place(c.min) <= Place(v) <=> Place(p.min) <= Place(v)
      <4>1. CASE p.min = Neg(Inf)
        BY <1>6, <1>9, <1>10, <2>1, <2>5, <4>1
      <4>2. CASE p.min # Neg(Inf)
        BY <2>1, <4>2
      <4> QED BY <4>1, <4>2
    <3>2. Place(v) <= Place(c.max) <=> Place(v) <= Place(p.max)
      <4>1. CASE p.max = Inf
        BY <1>6, <1>9, <1>10, <2>1, <2>5, <4>1
      <4>2. CASE p.max # Inf
        BY <2>1, <4>2
      <4> QED BY <4>1, <4>2
    <3> QED BY <3>1, <3>2
  <2> QED BY <1>3, <1>15, <2>2, <2>3, <2>4, <2>5 DEF width
<1> QED BY <1>14, <1>15

\* The arguments of the run have the types floats() takes.
LEMMA ArgsTyped == \A args \in SomeFloatArgs : TypedArgs(args)
<1>1. \A x \in Endpoints : x = {} \/ \E b \in Representable("wide") : x = {b}
  <2>1. /\ Inf \in Nat \ {0} /\ Hidden \in Nat /\ Hidden <= Inf
        /\ Magnitudes("wide") = 0 .. Inf /\ Magnitudes("narrow") \subseteq 0 .. Inf
    <3>1. Inf \in Nat \ {0}
      BY WidthValues
    <3>2. MaxExp \in Nat \ {0} /\ Hidden \in Nat \ {0}
      BY Format
    <3>3. Hidden <= MaxExp * Hidden
      BY <3>2, SMT
    <3>4. Magnitudes("wide") = 0 .. Inf
      BY DEF Magnitudes, WideMags
    <3> QED BY <3>1, <3>2, <3>3, <3>4, MagnitudesOf DEF Inf
  <2>2. \A m \in 0 .. Inf : m \in Representable("wide") /\ Neg(m) \in Representable("wide") /\ Neg(m) = m + NegBit
    <3>1. \A m \in 0 .. Inf : m \in 0 .. NegBit - 1
      BY Format, SMT
    <3>2. \A m \in 0 .. Inf : Neg(m) = m + NegBit
      BY <3>1, Signs
    <3> QED BY <2>1, <3>2 DEF Representable
  <2>3. 0 \in 0 .. Inf /\ 1 \in 0 .. Inf /\ Hidden \in 0 .. Inf /\ Inf \in 0 .. Inf
    BY <2>1
  <2>4. MaxFinite["narrow"] \in 0 .. Inf /\ MaxFinite["wide"] \in 0 .. Inf
    BY <2>1, TopOf
  <2>5. 0 + NegBit = NegBit /\ 1 + NegBit = NegBit + 1 /\ Hidden + NegBit = NegBit + Hidden
    BY <2>1, Format
  <2>6. /\ 0 \in Representable("wide") /\ NegBit \in Representable("wide") /\ 1 \in Representable("wide")
        /\ NegBit + 1 \in Representable("wide") /\ Hidden \in Representable("wide")
        /\ NegBit + Hidden \in Representable("wide") /\ MaxFinite["narrow"] \in Representable("wide")
        /\ MaxFinite["wide"] \in Representable("wide") /\ Inf \in Representable("wide")
        /\ Neg(Inf) \in Representable("wide")
    BY <2>2, <2>3, <2>4, <2>5
  <2> QED BY <2>6, Zenon DEF Endpoints
<1>2. \A x \in {{}, {0}} : x = {} \/ \E b \in Representable("wide") : x = {b}
  BY WidthValues
<1>3. {} \in Flags /\ FALSE \in BOOLEAN
  BY DEF Flags
<1> SUFFICES ASSUME NEW args \in SomeFloatArgs PROVE TypedArgs(args)
  OBVIOUS
<1>4. CASE args \in [min : Endpoints, max : Endpoints, allow_nan : {{}}, allow_infinity : Flags,
     allow_subnormal : Flags, exclude_min : BOOLEAN, exclude_max : BOOLEAN,
     width : {"wide", "narrow"}]
  <2>1. /\ args.min \in Endpoints /\ args.max \in Endpoints /\ args.allow_nan \in {{}} /\ args.allow_infinity \in Flags
        /\ args.allow_subnormal \in Flags /\ args.exclude_min \in BOOLEAN /\ args.exclude_max \in BOOLEAN
        /\ args.width \in {"wide", "narrow"}
    BY <1>4
  <2> QED BY <1>1, <1>3, <2>1 DEF TypedArgs
<1>5. CASE args \in [min : {{}, {0}}, max : {{}, {0}}, allow_nan : Flags, allow_infinity : Flags,
          allow_subnormal : {{}}, exclude_min : {FALSE}, exclude_max : {FALSE},
          width : {"wide", "narrow"}]
  <2>1. /\ args.min \in {{}, {0}} /\ args.max \in {{}, {0}} /\ args.allow_nan \in Flags /\ args.allow_infinity \in Flags
        /\ args.allow_subnormal \in {{}} /\ args.exclude_min \in {FALSE} /\ args.exclude_max \in {FALSE}
        /\ args.width \in {"wide", "narrow"}
    BY <1>5
  <2> QED BY <1>2, <1>3, <2>1 DEF TypedArgs
<1> QED BY <1>4, <1>5 DEF SomeFloatArgs

--------------------------------------------------------------------------------
(* Drawing floats. *)

\* A permitted float lies between the bounds.
LEMMA PermittedPlaces ==
  ASSUME NEW f \in Representable("wide"), NEW c, c.min \in Representable("wide"), c.max \in Representable("wide")
  PROVE  PermittedFloat(f, c) <=> /\ ~(0 < Mag(f) /\ Mag(f) < c.snm)
                                  /\ Place(c.min) <= Place(f) /\ Place(f) <= Place(c.max)
<1>1. ~IsNan(f)
  BY PlaceFacts
<1>2. (SignAwareLte(c.min, f) <=> Place(c.min) <= Place(f)) /\ (SignAwareLte(f, c.max) <=> Place(f) <= Place(c.max))
  BY LteIsPlaces
<1> QED BY <1>1, <1>2, Zenon DEF PermittedFloat

\* What is returned for a float drawn is of the width and between the bounds.
LEMMA DrawnIn ==
  ASSUME NEW p, p.width \in {"wide", "narrow"}, NEW c, c = DrawBounds(p),
         c.min \in Representable(p.width), c.max \in Representable(p.width), Place(c.min) <= Place(c.max),
         NEW f \in Representable("wide"), Place(c.min) <= Place(f), Place(f) <= Place(c.max)
  PROVE  /\ DrawnFloat(f, p) \in Representable(p.width)
         /\ Place(c.min) <= Place(DrawnFloat(f, p)) /\ Place(DrawnFloat(f, p)) <= Place(c.max)
<1> DEFINE width == p.width
           n == NarrowToWidth(f, width)
           v == DrawnFloat(f, p)
<1>1. v = IF width = "wide" \/ ~IsFinite(f) THEN f
          ELSE IF Num(n) < Num(c.min) THEN c.min ELSE IF Num(n) > Num(c.max) THEN c.max ELSE n
  BY Zenon DEF DrawnFloat
<1>2. /\ Representable(width) \subseteq Representable("wide") /\ Inf \in Representable(width)
      /\ Neg(Inf) \in Representable(width)
  BY WidthValues
<1>3. n \in Representable(width) /\ (IsNegative(n) <=> IsNegative(f))
  <2>1. PICK m \in 0 .. Inf : f = m \/ f = Neg(m)
    BY DEF Representable, Magnitudes, WideMags
  <2>2. Magnitudes(width) \subseteq 0 .. Inf
    BY MagnitudesOf
  <2>3. CASE f = m
    <3>1. n \in Magnitudes(width)
      BY <2>3, NarrowedIn
    <3>2. ~IsNegative(f) /\ ~IsNegative(n)
      BY <2>2, <2>3, <3>1, PlaceOf
    <3> QED BY <3>1, <3>2 DEF Representable
  <2>4. CASE f = Neg(m)
    <3>1. PICK k \in Magnitudes(width) : n = Neg(k)
      BY <2>4, NarrowedIn
    <3>2. IsNegative(f) /\ IsNegative(n)
      BY <2>2, <2>4, <3>1, PlaceOf
    <3> QED BY <3>1, <3>2 DEF Representable
  <2> QED BY <2>1, <2>3, <2>4
<1> HIDE DEF width, n, v
<1>4. CASE width = "wide" \/ ~IsFinite(f)
  <2>1. v = f
    BY <1>1, <1>4
  <2>2. f \in Representable(width)
    <3>1. ~IsFinite(f) => f = Inf \/ f = Neg(Inf)
      BY FiniteValues
    <3> QED BY <1>2, <1>4, <3>1
  <2> QED BY <2>1, <2>2 DEF v, width
<1>5. CASE ~(width = "wide" \/ ~IsFinite(f)) /\ Num(n) < Num(c.min)
  <2>1. v = c.min
    BY <1>1, <1>5
  <2>2. Place(c.min) \in Int
    BY <1>2, PlaceFacts DEF width
  <2> QED BY <2>1, <2>2 DEF v
<1>6. CASE ~(width = "wide" \/ ~IsFinite(f)) /\ ~(Num(n) < Num(c.min)) /\ Num(n) > Num(c.max)
  <2>1. v = c.max
    BY <1>1, <1>6
  <2>2. Place(c.max) \in Int
    BY <1>2, PlaceFacts DEF width
  <2> QED BY <2>1, <2>2 DEF v
<1>7. CASE ~(width = "wide" \/ ~IsFinite(f)) /\ ~(Num(n) < Num(c.min)) /\ ~(Num(n) > Num(c.max))
  <2>1. v = n
    BY <1>1, <1>7
  <2> DEFINE a == c.min
             b == c.max
  <2>2. a \in Representable("wide") /\ b \in Representable("wide") /\ n \in Representable("wide")
    BY <1>2, <1>3 DEF width
  <2>3. Place(a) <= Place(f) /\ Place(f) <= Place(b) /\ ~(Num(n) < Num(a)) /\ ~(Num(n) > Num(b))
    BY <1>7
  <2> HIDE DEF a, b
  <2>4. /\ Num(a) \in Int /\ Place(a) \in Int /\ (Place(a) = 2 * Num(a) \/ Place(a) = 2 * Num(a) + 1)
        /\ (Num(a) > 0 => Place(a) = 2 * Num(a) + 1) /\ (Num(a) < 0 => Place(a) = 2 * Num(a))
    BY <2>2, PlaceFacts
  <2>5. /\ Num(b) \in Int /\ Place(b) \in Int /\ (Place(b) = 2 * Num(b) \/ Place(b) = 2 * Num(b) + 1)
        /\ (Num(b) > 0 => Place(b) = 2 * Num(b) + 1) /\ (Num(b) < 0 => Place(b) = 2 * Num(b))
    BY <2>2, PlaceFacts
  <2>6. /\ Num(n) \in Int /\ Place(n) \in Int /\ (Place(n) = 2 * Num(n) \/ Place(n) = 2 * Num(n) + 1)
        /\ (Num(n) > 0 => Place(n) = 2 * Num(n) + 1) /\ (Num(n) < 0 => Place(n) = 2 * Num(n))
    BY <2>2, PlaceFacts
  <2>7. Place(f) \in Int /\ (Place(n) <= 0 <=> Place(f) <= 0)
    BY <1>3, <2>2, PlaceFacts
  <2>8. Place(a) <= Place(n)
    BY <2>3, <2>4, <2>6, <2>7
  <2>9. Place(n) <= Place(b)
    BY <2>3, <2>5, <2>6, <2>7
  <2> QED BY <1>3, <2>1, <2>8, <2>9 DEF v, a, b, width
<1> QED BY <1>4, <1>5, <1>6, <1>7

\* Between finite floats lie finite ones.
LEMMA FiniteBetween ==
  ASSUME NEW width \in {"wide", "narrow"}, NEW a \in Representable(width), NEW v \in Representable(width),
         NEW b \in Representable(width), IsFinite(a), IsFinite(b), Place(a) <= Place(v), Place(v) <= Place(b)
  PROVE  IsFinite(v)
<1>1. Representable(width) \subseteq Representable("wide")
  BY WidthValues
<1>2. /\ Place(Neg(Inf)) <= Place(a) /\ Place(b) <= Place(Inf) /\ Inf \in Representable("wide") /\ Neg(Inf) \in Representable("wide")
  BY <1>1, WidthValues
<1>3. Place(a) \in Int /\ Place(b) \in Int /\ Place(v) \in Int /\ Place(Inf) \in Int /\ Place(Neg(Inf)) \in Int
  BY <1>1, <1>2, PlaceFacts
<1>4. SUFFICES ASSUME v = Inf \/ v = Neg(Inf) PROVE FALSE
  BY FiniteValues
<1>5. CASE v = Inf
  <2>1. Place(b) = Place(Inf)
    BY <1>2, <1>3, <1>5
  <2>2. b = Inf
    BY <1>1, <1>2, <2>1, PlaceIsUnique
  <2> QED BY <2>2, FiniteValues
<1>6. CASE v = Neg(Inf)
  <2>1. Place(a) = Place(Neg(Inf))
    BY <1>2, <1>3, <1>6
  <2>2. a = Neg(Inf)
    BY <1>1, <1>2, <2>1, PlaceIsUnique
  <2> QED BY <2>2, FiniteValues
<1> QED BY <1>4, <1>5, <1>6

\* Every float drawn is one that was asked for.
THEOREM DrawnAsAsked ==
  ASSUME NEW args, TypedArgs(args), NEW p, p = FloatsParams(args), p.valid,
         NEW f \in AllFloats, PermittedFloat(f, DrawBounds(p))
  PROVE  Asked(DrawnFloat(f, p), args)
<1> DEFINE c == DrawBounds(p)
           width == p.width
<1>1. GoodParams(p, args) /\ width \in {"wide", "narrow"} /\ width = args.width
  BY ParamsGood DEF TypedArgs, GoodParams
<1>2. /\ c.min \in Representable(width) /\ c.max \in Representable(width) /\ Place(c.min) <= Place(c.max)
      /\ c.allow_nan = p.allow_nan /\ c.snm = p.snm
      /\ p.allow_inf => c.min = p.min /\ c.max = p.max
      /\ ~p.allow_inf =>
            /\ IsFinite(c.min) /\ IsFinite(c.max)
            /\ \A v \in Representable(width) : IsFinite(v) =>
                  /\ Place(c.min) <= Place(v) <=> Place(p.min) <= Place(v)
                  /\ Place(v) <= Place(c.max) <=> Place(v) <= Place(p.max)
  BY <1>1, DrawBoundsOf
<1>3. Representable(width) \subseteq Representable("wide")
  BY <1>1, WidthValues
<1>4. CASE IsNan(f)
  <2>1. p.allow_nan
    BY <1>2, <1>4 DEF PermittedFloat
  <2>2. ~IsFinite(f)
    <3>1. Mag(f) > Inf
      BY <1>4 DEF IsNan
    <3>2. Mag(f) \in Int /\ Inf \in Int
      <4>1. f \in Nat /\ NegBit \in Nat \ {0} /\ Inf \in Int
        BY Format DEF AllFloats
      <4> QED BY <4>1, Division DEF Mag
    <3> QED BY <3>1, <3>2 DEF IsFinite
  <2>3. DrawnFloat(f, p) = f
    BY <2>2 DEF DrawnFloat
  <2> QED BY <1>1, <1>4, <2>1, <2>3 DEF Asked, GoodParams
<1>5. CASE ~IsNan(f)
  <2> DEFINE v == DrawnFloat(f, p)
  <2>1. f \in Representable("wide")
    BY <1>5, NoNan
  <2>2. Place(c.min) <= Place(f) /\ Place(f) <= Place(c.max)
    <3> HIDE DEF c
    <3>1. PermittedFloat(f, c) /\ c.min \in Representable("wide") /\ c.max \in Representable("wide")
      BY <1>2, <1>3 DEF c
    <3> QED BY <2>1, <3>1, PermittedPlaces
  <2>3. v \in Representable(width) /\ Place(c.min) <= Place(v) /\ Place(v) <= Place(c.max)
    <3> HIDE DEF c
    <3>1. c = DrawBounds(p)
      BY DEF c
    <3> QED BY <1>1, <1>2, <2>1, <2>2, <3>1, DrawnIn
  <2> HIDE DEF v, c
  <2>4. ~p.allow_inf => IsFinite(v)
    <3>1. ASSUME ~p.allow_inf PROVE IsFinite(v)
      <4>1. IsFinite(c.min) /\ IsFinite(c.max)
        BY <1>2, <3>1
      <4> QED BY <1>1, <1>2, <2>3, <4>1, FiniteBetween
    <3> QED BY <3>1
  <2>5. Place(p.min) <= Place(v) /\ Place(v) <= Place(p.max)
    BY <1>2, <2>3, <2>4
  <2>6. AboveMin(v, args) /\ BelowMax(v, args)
    BY <1>1, <2>3, <2>5 DEF GoodParams
  <2>7. ~IsNan(v)
    BY <1>3, <2>3, PlaceFacts
  <2>8. args.allow_infinity = {FALSE} => IsFinite(v)
    BY <1>1, <2>4 DEF GoodParams
  <2> HIDE DEF width
  <2>9. v \in Representable(args.width)
    BY <1>1, <2>3
  <2> QED BY <2>6, <2>7, <2>8, <2>9, Zenon DEF Asked, AboveMin, BelowMax, v
<1> QED BY <1>4, <1>5

\* Every float asked for, unless it is one of the subnormals or infinities left out, is
\* permitted and drawn as it is.
THEOREM AskedIsDrawn ==
  ASSUME NEW args, TypedArgs(args), NEW p, p = FloatsParams(args), p.valid,
         NEW f \in Representable(p.width), Asked(f, args), ~(0 < Mag(f) /\ Mag(f) < p.snm),
         IsFinite(f) \/ IsNan(f) \/ p.allow_inf
  PROVE  PermittedFloat(f, DrawBounds(p)) /\ DrawnFloat(f, p) = f
<1> DEFINE c == DrawBounds(p)
           width == p.width
<1>1. GoodParams(p, args) /\ width \in {"wide", "narrow"} /\ width = args.width
  BY ParamsGood DEF TypedArgs, GoodParams
<1>2. /\ c.min \in Representable(width) /\ c.max \in Representable(width) /\ Place(c.min) <= Place(c.max)
      /\ c.allow_nan = p.allow_nan /\ c.snm = p.snm
      /\ p.allow_inf => c.min = p.min /\ c.max = p.max
      /\ ~p.allow_inf =>
            /\ IsFinite(c.min) /\ IsFinite(c.max)
            /\ \A v \in Representable(width) : IsFinite(v) =>
                  /\ Place(c.min) <= Place(v) <=> Place(p.min) <= Place(v)
                  /\ Place(v) <= Place(c.max) <=> Place(v) <= Place(p.max)
  BY <1>1, DrawBoundsOf
<1>3. Representable(width) \subseteq Representable("wide")
  BY <1>1, WidthValues
<1>4. f \in Representable("wide") /\ ~IsNan(f)
  BY <1>3, PlaceFacts
<1>5. AboveMin(f, args) /\ BelowMax(f, args)
  BY <1>4, Zenon DEF Asked, AboveMin, BelowMax
<1>6. Place(p.min) <= Place(f) /\ Place(f) <= Place(p.max)
  BY <1>1, <1>5 DEF GoodParams
<1>7. Place(c.min) <= Place(f) /\ Place(f) <= Place(c.max)
  <2> HIDE DEF c
  <2>1. CASE p.allow_inf
    BY <1>2, <1>6, <2>1
  <2>2. CASE ~p.allow_inf
    <3>1. IsFinite(f)
      BY <1>4, <2>2
    <3> QED BY <1>2, <1>6, <2>2, <3>1
  <2> QED BY <2>1, <2>2
<1> HIDE DEF c
<1>8. PermittedFloat(f, c)
  <2>1. c.min \in Representable("wide") /\ c.max \in Representable("wide")
    BY <1>2, <1>3
  <2> QED BY <1>2, <1>4, <1>7, <2>1, PermittedPlaces
<1>9. DrawnFloat(f, p) = f
  <2>1. NarrowToWidth(f, width) = f
    BY <1>1, AtWidth
  <2>2. ~(Num(f) < Num(c.min)) /\ ~(Num(f) > Num(c.max))
    <3> DEFINE a == c.min
               b == c.max
    <3>1. a \in Representable("wide") /\ b \in Representable("wide") /\ Place(a) <= Place(f) /\ Place(f) <= Place(b)
      BY <1>2, <1>3, <1>7
    <3> HIDE DEF a, b
    <3>2. Num(a) \in Int /\ Place(a) \in Int /\ (Place(a) = 2 * Num(a) \/ Place(a) = 2 * Num(a) + 1)
      BY <3>1, PlaceFacts
    <3>3. Num(b) \in Int /\ Place(b) \in Int /\ (Place(b) = 2 * Num(b) \/ Place(b) = 2 * Num(b) + 1)
      BY <3>1, PlaceFacts
    <3>4. Num(f) \in Int /\ Place(f) \in Int /\ (Place(f) = 2 * Num(f) \/ Place(f) = 2 * Num(f) + 1)
      BY <1>4, PlaceFacts
    <3>5. ~(Num(f) < Num(a)) /\ ~(Num(f) > Num(b))
      BY <3>1, <3>2, <3>3, <3>4
    <3> QED BY <3>5 DEF a, b
  <2>3. DrawnFloat(f, p) = IF width = "wide" \/ ~IsFinite(f) THEN f
          ELSE IF Num(NarrowToWidth(f, width)) < Num(c.min) THEN c.min
          ELSE IF Num(NarrowToWidth(f, width)) > Num(c.max) THEN c.max ELSE NarrowToWidth(f, width)
    BY Zenon DEF DrawnFloat, c
  <2> QED BY <2>1, <2>2, <2>3
<1> QED BY <1>8, <1>9 DEF c

\* What the run checks of the floats drawn.
LEMMA FloatsHold == Arguments => FloatsAsAsked /\ FloatsAreComplete
<1> SUFFICES ASSUME Arguments, Calls("floats") PROVE FloatsAsAsked /\ FloatsAreComplete
  BY DEF FloatsAsAsked, FloatsAreComplete
<1> DEFINE args == at.args
<1>1. TypedArgs(args)
  BY ArgsTyped DEF Arguments
<1>2. ASSUME NEW p \in Params PROVE p = FloatsParams(args) /\ p.valid
  BY DEF Params
<1> HIDE DEF args
<1>3. ASSUME NEW p \in Params, NEW f \in AllFloats, PermittedFloat(f, DrawBounds(p))
      PROVE  Asked(DrawnFloat(f, p), args)
  BY <1>1, <1>2, <1>3, DrawnAsAsked
<1>4. ASSUME NEW p \in Params, NEW f \in Representable(p.width), Asked(f, args), ~(0 < Mag(f) /\ Mag(f) < p.snm),
             IsFinite(f) \/ IsNan(f) \/ p.allow_inf
      PROVE  PermittedFloat(f, DrawBounds(p)) /\ DrawnFloat(f, p) = f
  BY <1>1, <1>2, <1>4, AskedIsDrawn
<1>5. FloatsAsAsked
  BY <1>3, Zenon DEF FloatsAsAsked, Drawing, args
<1>6. FloatsAreComplete
  BY <1>4, Zenon DEF FloatsAreComplete, Drawing, args
<1> QED BY <1>5, <1>6

\* floats(): what is drawn is what was asked for.
THEOREM FloatsDrawnAsAsked == Spec => []FloatsAsAsked
BY FloatsHold, ArgumentsStay, PTL

\* floats(): all that was asked for can be drawn.
THEOREM FloatsDrawnComplete == Spec => []FloatsAreComplete
BY FloatsHold, ArgumentsStay, PTL


\* The smallest normal value of a width is a magnitude.
LEMMA NormalIn ==
  ASSUME NEW width \in {"wide", "narrow"}
  PROVE  SmallestNormal(width) \in 1 .. Inf
<1>1. /\ E - 1 \in Nat /\ NE - 1 \in Nat /\ NE - 1 <= E - 1 /\ MaxExp = 2 * Bias + 1 /\ Bias \in Nat
      /\ Hidden \in Nat \ {0} /\ Inf \in Nat
  BY Format, FormatAssumption
<1>2. ASSUME NEW k \in 1 .. MaxExp PROVE k * Hidden \in 1 .. Inf
  <2>1. k \in Nat \ {0} /\ MaxExp \in Nat /\ k <= MaxExp
    BY <1>1
  <2>2. k * Hidden \in Nat \ {0}
    BY <1>1, <2>1, ProductPositive
  <2>3. k * Hidden <= MaxExp * Hidden
    BY <1>1, <2>1, ProductMonotone
  <2>4. k * Hidden <= Inf
    BY <2>3 DEF Inf
  <2> DEFINE x == k * Hidden
  <2>5. x \in Nat \ {0} /\ x <= Inf
    BY <2>2, <2>4
  <2> HIDE DEF x
  <2>6. x \in 1 .. Inf
    BY <1>1, <2>5
  <2> QED BY <2>6 DEF x
<1>3. CASE width = "wide"
  <2>1. 1 \in 1 .. MaxExp /\ 1 * Hidden = Hidden
    BY <1>1
  <2>2. SmallestNormal(width) = Hidden
    BY <1>3 DEF SmallestNormal
  <2>3. 1 * Hidden \in 1 .. Inf
    BY <1>2, <2>1
  <2> QED BY <2>1, <2>2, <2>3
<1>4. CASE width = "narrow"
  <2> DEFINE p == Power(2, NE - 1)
             k == Bias - (p - 1) + 1
  <2>1. p \in Nat \ {0} /\ p <= Power(2, E - 1) /\ Power(2, E - 1) \in Nat
    BY <1>1, PowerPositive, PowerMonotone
  <2>2. Bias = Power(2, E - 1) - 1
    BY DEF Bias
  <2> HIDE DEF p
  <2>3. k \in 1 .. MaxExp
    BY <1>1, <2>1, <2>2
  <2>4. SmallestNormal(width) = k * Hidden
    BY <1>4 DEF SmallestNormal, p
  <2> HIDE DEF k
  <2> QED BY <1>2, <2>3, <2>4
<1> QED BY <1>3, <1>4

\* A float that is no NaN and no disallowed subnormal.
Normal(f, snm) == f \in Representable("wide") /\ ~(0 < Mag(f) /\ Mag(f) < snm)

\* What is spread over the bounds is no NaN.
LEMMA SpreadIn ==
  ASSUME NEW c, c.min \in Representable("wide"), NEW fraction
  PROVE  Spread(fraction, c) \subseteq Representable("wide")
<1>1. \A x \in AllFloats : ~IsNan(x) => x \in Representable("wide")
  BY NoNan
<1> QED BY <1>1 DEF Spread

\* A disallowed subnormal is raised to a normal value.
LEMMA RaisedNormal ==
  ASSUME NEW c, c.snm \in 1 .. Inf, NEW x \in Representable("wide")
  PROVE  Normal(Raised(x, c), c.snm)
<1> DEFINE s == c.snm
<1>1. Inf \in Nat /\ s \in Nat /\ s \in 0 .. Inf
  BY Format
<1>2. s \in Representable("wide") /\ Neg(s) \in Representable("wide") /\ Mag(s) = s /\ Mag(Neg(s)) = s
  <2>1. s \in Magnitudes("wide")
    BY <1>1 DEF Magnitudes, WideMags
  <2> QED BY <1>1, <2>1, PlaceOf DEF Representable
<1>3. ~(s < s)
  BY <1>1
<1>4. Raised(x, c) \in {x, s, Neg(s)} /\ (Raised(x, c) = x => ~(0 < Mag(x) /\ Mag(x) < s) \/ x \in {s, Neg(s)})
  BY DEF Raised
<1> HIDE DEF s
<1>5. CASE Raised(x, c) \in {s, Neg(s)}
  BY <1>2, <1>3, <1>5 DEF Normal, s
<1>6. CASE Raised(x, c) = x /\ x \notin {s, Neg(s)}
  BY <1>4, <1>6 DEF Normal, s
<1> QED BY <1>4, <1>5, <1>6

\* Clamping between bounds that are normal themselves ends on a permitted value.
LEMMA ClampPermitted ==
  ASSUME NEW c, Normal(c.min, c.snm), Normal(c.max, c.snm), Place(c.min) <= Place(c.max),
         NEW x, Normal(x, c.snm)
  PROVE  PermittedFloat(ClampFloat(c.min, x, c.max), c)
<1> DEFINE a == c.min
           b == c.max
           v == ClampFloat(a, x, b)
<1>1. a \in Representable("wide") /\ b \in Representable("wide") /\ x \in Representable("wide")
  BY DEF Normal
<1>2. Place(a) \in Int /\ Place(b) \in Int /\ Place(x) \in Int /\ Place(a) <= Place(b)
  BY <1>1, PlaceFacts
<1>3. /\ SignAwareLte(a, x) <=> Place(a) <= Place(x)
      /\ SignAwareLte(x, b) <=> Place(x) <= Place(b)
  BY <1>1, LteIsPlaces
<1>4. v = IF ~(Place(a) <= Place(x)) THEN a ELSE IF ~(Place(x) <= Place(b)) THEN b ELSE x
  BY <1>3, Zenon DEF ClampFloat
<1> HIDE DEF a, b, v
<1>5. Normal(v, c.snm) /\ Place(a) <= Place(v) /\ Place(v) <= Place(b)
  <2>1. CASE ~(Place(a) <= Place(x))
    <3>1. v = a
      BY <1>4, <2>1
    <3> QED BY <1>2, <3>1 DEF a
  <2>2. CASE Place(a) <= Place(x) /\ ~(Place(x) <= Place(b))
    <3>1. v = b
      BY <1>4, <2>2
    <3> QED BY <1>2, <3>1 DEF b
  <2>3. CASE Place(a) <= Place(x) /\ Place(x) <= Place(b)
    <3>1. v = x
      BY <1>4, <2>3
    <3> QED BY <2>3, <3>1
  <2> QED BY <2>1, <2>2, <2>3
<1>6. v \in Representable("wide") /\ ~(0 < Mag(v) /\ Mag(v) < c.snm)
  BY <1>5 DEF Normal
<1>7. PermittedFloat(v, c)
  BY <1>1, <1>5, <1>6, PermittedPlaces DEF a, b
<1> QED BY <1>7 DEF v, a, b

\* make_float_clamper: whatever fraction of the range, and so whatever float it is given.
LEMMA MovedPermitted ==
  ASSUME NEW c, Normal(c.min, c.snm), Normal(c.max, c.snm), Place(c.min) <= Place(c.max), c.snm \in 1 .. Inf
  PROVE  /\ \A fraction : \A v \in Moved(fraction, c) : PermittedFloat(v, c)
         /\ \A f : \A v \in FloatClamp(f, c) : PermittedFloat(v, c)
<1>1. c.min \in Representable("wide")
  BY DEF Normal
<1>2. ASSUME NEW fraction, NEW v \in Moved(fraction, c) PROVE PermittedFloat(v, c)
  <2>1. PICK x \in Spread(fraction, c) : v = ClampFloat(c.min, Raised(x, c), c.max)
    BY DEF Moved
  <2>2. x \in Representable("wide")
    BY <1>1, SpreadIn
  <2>3. Normal(Raised(x, c), c.snm)
    BY <2>2, RaisedNormal
  <2> QED BY <2>1, <2>3, ClampPermitted
<1>3. ASSUME NEW f, NEW v \in FloatClamp(f, c) PROVE PermittedFloat(v, c)
  <2>1. CASE PermittedFloat(f, c)
    <3>1. v = f
      BY <2>1, <1>3 DEF FloatClamp
    <3> QED BY <2>1, <3>1, Zenon
  <2>2. CASE ~PermittedFloat(f, c)
    <3>1. v \in Moved(Mant(f), c)
      BY <1>3, <2>2 DEF FloatClamp
    <3> QED BY <1>2, <3>1
  <2> QED BY <2>1, <2>2
<1> QED BY <1>2, <1>3

\* The constraints of a draw, if its bounds are no disallowed subnormals.
LEMMA BoundsNormal ==
  ASSUME NEW args, TypedArgs(args), NEW p, p = FloatsParams(args), p.valid, NEW c, c = DrawBounds(p),
         \A b \in {c.min, c.max} : Mag(b) = 0 \/ Mag(b) >= c.snm
  PROVE  Normal(c.min, c.snm) /\ Normal(c.max, c.snm) /\ Place(c.min) <= Place(c.max) /\ c.snm \in 1 .. Inf
<1>1. GoodParams(p, args) /\ p.width \in {"wide", "narrow"} /\ p.snm \in {1, SmallestNormal(p.width)}
  BY ParamsGood DEF TypedArgs, GoodParams
<1>2. /\ c.min \in Representable(p.width) /\ c.max \in Representable(p.width) /\ Place(c.min) <= Place(c.max)
      /\ c.snm = p.snm
  BY <1>1, DrawBoundsOf
<1>3. c.snm \in 1 .. Inf
  <2>1. 1 \in 1 .. Inf
    BY WidthValues, SMT
  <2>2. SmallestNormal(p.width) \in 1 .. Inf
    BY <1>1, NormalIn
  <2> QED BY <1>1, <1>2, <2>1, <2>2
<1>4. c.min \in Representable("wide") /\ c.max \in Representable("wide")
  BY <1>1, <1>2, WidthValues
<1>5. ASSUME NEW b \in {c.min, c.max} PROVE Normal(b, c.snm)
  <2>1. b \in Representable("wide") /\ Mag(b) \in 0 .. Inf
    BY <1>4, PlaceFacts
  <2>2. Mag(b) \in Nat /\ c.snm \in Nat /\ Inf \in Nat
    BY <1>3, <2>1, Format
  <2>3. ~(0 < Mag(b) /\ Mag(b) < c.snm)
    <3> DEFINE m == Mag(b)
               s == c.snm
    <3>1. m \in Nat /\ s \in Nat /\ (m = 0 \/ m >= s)
      BY <2>2
    <3> HIDE DEF m, s
    <3>2. ~(0 < m /\ m < s)
      BY <3>1
    <3> QED BY <3>2 DEF m, s
  <2> QED BY <2>1, <2>3 DEF Normal
<1> QED BY <1>2, <1>3, <1>5

\* data.rs and choice.rs: what is sampled for floats(), and what any index stands for, is
\* permitted, whatever the arguments.
THEOREM SampledFloatsPermitted ==
  ASSUME NEW args, TypedArgs(args), NEW p, p = FloatsParams(args), p.valid, NEW c, c = DrawBounds(p),
         \A b \in {c.min, c.max} : Mag(b) = 0 \/ Mag(b) >= c.snm
  PROVE  /\ \A v \in SampledFloats(c) : PermittedFloat(v, c)
         /\ \A n : \A v \in ChoiceFromIndex(n, "float", c) : PermittedFloat(v, c)
<1>1. /\ \A fraction : \A v \in Moved(fraction, c) : PermittedFloat(v, c)
      /\ \A f : \A v \in FloatClamp(f, c) : PermittedFloat(v, c)
  BY BoundsNormal, MovedPermitted
<1>2. ASSUME NEW v \in SampledFloats(c) PROVE PermittedFloat(v, c)
  <2>1. \/ v \in {f \in AllFloats \cup Weird(c) : PermittedFloat(f, c)}
        \/ \E m : v \in Moved(m, c)
    BY DEF SampledFloats
  <2>2. CASE v \in {f \in AllFloats \cup Weird(c) : PermittedFloat(f, c)}
    BY <2>2, Zenon
  <2>3. CASE \E m : v \in Moved(m, c)
    BY <1>1, <2>3
  <2> QED BY <2>1, <2>2, <2>3
<1>3. ASSUME NEW n, NEW v \in ChoiceFromIndex(n, "float", c) PROVE PermittedFloat(v, c)
  <2>1. \E f : v \in FloatClamp(f, c)
    BY <1>3 DEF ChoiceFromIndex
  <2> QED BY <1>1, <2>1
<1> QED BY <1>2, <1>3

--------------------------------------------------------------------------------
(* What sampling gives of the other types. *)

\* Integers stay between their bounds, the one that is missing far beyond the other.
LEMMA SampledIntegersPermitted ==
  ASSUME NEW c \in SomeIntConstraints,
         NEW v \in SampledIntegers(c, IF c.weighted THEN EdgeWeights(c) ELSE {}, c.candidates)
  PROVE  IntPermitted(v, c)
<1>1. /\ Bounds(c) \in IntConstraints /\ c.candidates = Ints
      /\ Bounds(c).has_min = c.has_min /\ Bounds(c).has_max = c.has_max
      /\ Bounds(c).min_value = c.min_value /\ Bounds(c).max_value = c.max_value
  BY OnlyBounds
<1>2. c.has_min \in BOOLEAN /\ c.has_max \in BOOLEAN /\ c.min_value \in Int /\ c.max_value \in Int
  <2>1. /\ Bounds(c).has_min \in BOOLEAN /\ Bounds(c).has_max \in BOOLEAN
        /\ Bounds(c).min_value \in Int /\ Bounds(c).max_value \in Int
    BY <1>1 DEF IntConstraints
  <2> QED BY <1>1, <2>1, Zenon
<1>3. CASE v \in {w \in c.candidates : IntPermitted(w, c)}
  BY <1>3, Zenon
<1>4. CASE v \in Range128(c)
  <2> DEFINE Away(b) == Greater(FAR, 2 * Abs(b))
             low  == IF c.has_min THEN c.min_value
                     ELSE IF c.has_max THEN -Away(c.max_value) ELSE -FAR
             high == IF c.has_max THEN c.max_value
                     ELSE IF c.has_min THEN Away(c.min_value) ELSE FAR
  <2>1. v \in low .. high
    BY <1>4, Zenon DEF Range128
  <2>2. (c.has_min => low = c.min_value) /\ (c.has_max => high = c.max_value)
    BY Zenon
  <2>3. low \in Int /\ high \in Int
    <3>1. FAR \in Int /\ \A b \in Int : Away(b) \in Int
      BY ValuesAssumption, SMT DEF Greater, Abs
    <3>2. -FAR \in Int /\ -Away(c.max_value) \in Int /\ Away(c.min_value) \in Int
      BY <1>2, <3>1, SMT
    <3> HIDE DEF Away
    <3> QED BY <1>2, <3>1, <3>2, Zenon
  <2> HIDE DEF low, high
  <2>4. low <= v /\ v <= high
    BY <2>1, <2>3
  <2> QED BY <2>2, <2>4, Zenon DEF IntPermitted
<1>5. CASE v \in EdgeWeights(c)
  <2> DEFINE low  == c.min_value
             high == c.max_value
  <2>1. /\ c.has_min /\ c.has_max /\ high - low > WIDE
        /\ v \in {low, low + 1, high - 1, high}
    BY <1>5, Zenon DEF EdgeWeights
  <2>2. low \in Int /\ high \in Int /\ WIDE \in Nat
    BY <1>2, ValuesAssumption
  <2> HIDE DEF low, high
  <2>3. low <= v /\ v <= high
    BY <2>1, <2>2
  <2> QED BY <2>3, Zenon DEF IntPermitted, low, high
<1> DEFINE weights == IF c.weighted THEN EdgeWeights(c) ELSE {}
<1>6. weights \subseteq EdgeWeights(c)
  BY Zenon
<1>7. v \in {w \in c.candidates : IntPermitted(w, c)} \cup weights \cup Range128(c)
  BY Zenon DEF SampledIntegers
<1> HIDE DEF weights
<1> QED BY <1>3, <1>4, <1>5, <1>6, <1>7

\* Collections have a size between theirs, and strings the characters of their alphabet.
LEMMA SampledCollectionsPermitted ==
  ASSUME NEW type \in {"string", "bytes"}, NEW c \in SomeConstraints(type), NEW v \in Sampled(type, c),
         Readable(type, v)
  PROVE  ChoicePermitted(Choice(type, v), c)
<1> DEFINE min == c.min_size
           max == c.max_size
           ivs == c.intervals
<1>1. min \in Nat /\ max \in Nat /\ min <= max
  BY CollectionConstraints
<1>2. CollectionSizes(min, max) \subseteq min .. max
  <2> HIDE DEF min, max
  <2> QED BY <1>1 DEF CollectionSizes
<1>3. CASE type = "bytes"
  <2>1. PICK n \in CollectionSizes(min, max) : v \in [1 .. n -> 0 .. BYTES - 1]
    BY <1>3 DEF Sampled
  <2> HIDE DEF min, max
  <2>2. n \in Nat /\ n \in min .. max
    BY <1>1, <1>2, <2>1
  <2>3. Len(v) = n
    BY <2>1, <2>2, FunctionIsSeq
  <2> QED BY <1>3, <2>2, <2>3 DEF ChoicePermitted, Choice, min, max
<1>4. CASE type = "string"
  <2>1. ivs \in IntervalsInOrder /\ Letters(type, c) = Size(ivs) /\ (Size(ivs) = 0 => min = 0)
    BY <1>4, CollectionConstraints DEF Letters
  <2>2. v \in SampledStrings(c) /\ Extracts(v)
    BY <1>4 DEF Sampled, Readable
  <2>3. CASE Size(ivs) = 0
    <3>1. v = <<>>
      BY <2>2, <2>3 DEF SampledStrings
    <3>2. Len(v) = 0 /\ DOMAIN v = {}
      BY <3>1
    <3>3. 0 \in min .. max
      <4> HIDE DEF min, max
      <4> QED BY <1>1, <2>1, <2>3
    <3> QED BY <1>4, <2>2, <3>2, <3>3 DEF ChoicePermitted, Choice
  <2>4. CASE Size(ivs) # 0
    <3> DEFINE chars == {CharInShrinkOrder(ivs, i) : i \in 0 .. Size(ivs) - 1}
    <3>1. PICK n \in CollectionSizes(min, max) : v \in [1 .. n -> chars]
      BY <2>2, <2>4 DEF SampledStrings
    <3>2. chars \subseteq Members(ivs)
      BY <2>1, OrderOfChar
    <3> HIDE DEF min, max, chars
    <3>3. n \in Nat /\ n \in min .. max
      BY <1>1, <1>2, <3>1
    <3>4. Len(v) = n
      BY <3>1, <3>3, FunctionIsSeq
    <3>5. \A i \in DOMAIN v : v[i] \in Members(ivs)
      BY <3>1, <3>2
    <3> QED BY <1>4, <2>2, <3>3, <3>4, <3>5 DEF ChoicePermitted, Choice, min, max
  <2> QED BY <2>3, <2>4
<1> QED BY <1>3, <1>4

\* There is always a simplest choice.
LEMMA SimplestIsPermitted ==
  ASSUME NEW type \in {"boolean", "integer", "string", "bytes"}, NEW c \in SomeConstraints(type)
  PROVE  Permits(type, c, 0)
<1>1. CASE type = "boolean"
  BY <1>1 DEF Permits
<1>2. CASE type = "integer"
  <2>1. c \in SomeIntConstraints
    BY <1>2 DEF SomeConstraints
  <2> DEFINE d == Bounds(c)
  <2>2. d \in IntConstraints /\ Sensible(d) /\ d.has_min = c.has_min /\ d.has_max = c.has_max
        /\ d.min_value = c.min_value /\ d.max_value = c.max_value
    BY <2>1, OnlyBounds
  <2> HIDE DEF d
  <2>3. d.min_value \in Int /\ d.max_value \in Int /\ (d.has_min /\ d.has_max => d.min_value <= d.max_value)
    BY <2>2 DEF IntConstraints, Sensible
  <2>4. d.has_min /\ d.has_max => 0 <= d.max_value - d.min_value
    BY <2>3
  <2>5. c.has_min /\ c.has_max => 0 <= c.max_value - c.min_value
    BY <2>2, <2>4, Zenon
  <2> QED BY <1>2, <2>5 DEF Permits
<1>3. CASE type \in {"string", "bytes"}
  <2> DEFINE a == Letters(type, c)
             min == c.min_size
             max == c.max_size
  <2>1. min \in Nat /\ max \in Nat /\ min <= max /\ a \in Nat
    BY <1>3, CollectionConstraints
  <2>2. Permits(type, c, 0) <=> 0 < CollectionsWithin(min, max, a)
    BY <1>3, PermitsCollection
  <2> HIDE DEF a, min, max
  <2>3. CASE a = 0
    <3>1. CollectionsWithin(min, max, a) = 1
      BY <2>3, SMT DEF CollectionsWithin, SizeToIndex
    <3> QED BY <2>2, <3>1
  <2>4. CASE a # 0
    <3>1. max + 1 \in Nat /\ min < max + 1 /\ a \in Nat \ {0}
      BY <2>1, <2>4
    <3>2. SizeToIndex(min, a) < SizeToIndex(max + 1, a)
      BY <2>1, <3>1, SizeToIndexGrows
    <3>3. SizeToIndex(min, a) \in Nat /\ SizeToIndex(max + 1, a) \in Nat
      BY <2>1, <3>1, SizeToIndexStep
    <3> DEFINE s == SizeToIndex(min, a)
               t == SizeToIndex(max + 1, a)
    <3>4. CollectionsWithin(min, max, a) = t - s + 0
      BY <2>4 DEF CollectionsWithin
    <3> HIDE DEF s, t
    <3>5. s < t /\ s \in Nat /\ t \in Nat
      BY <3>2, <3>3 DEF s, t
    <3>6. 0 < t - s + 0
      BY <3>5
    <3> QED BY <2>2, <3>4, <3>6
  <2> QED BY <2>3, <2>4
<1> QED BY <1>1, <1>2, <1>3

\* What the run checks of draws.
LEMMA DrawsHold == Arguments => DrawsArePermitted
<1> SUFFICES ASSUME Arguments PROVE DrawsArePermitted
  OBVIOUS
<1>1. ASSUME Calls("index"), at.n = 0,
             NEW v \in Sampled(at.type, at.c) \cup ChoiceFromIndex(0, at.type, at.c),
             Readable(at.type, v)
      PROVE  ChoicePermitted(Choice(at.type, v), at.c)
  <2> DEFINE type == at.type
             c == at.c
  <2>1. type \in {"boolean", "integer", "string", "bytes"} /\ c \in SomeConstraints(type)
    BY <1>1 DEF Arguments
  <2>2. Permits(type, c, 0)
    BY <2>1, SimplestIsPermitted
  <2>3. ASSUME v \in ChoiceFromIndex(0, type, c) PROVE ChoicePermitted(Choice(type, v), c)
    BY <1>1, <2>2, <2>3, IndexHolds DEF IndexInverse
  <2>5. Readable(type, v)
    BY <1>1
  <2>4. ASSUME v \in Sampled(type, c) PROVE ChoicePermitted(Choice(type, v), c)
    <3> HIDE DEF type, c
    <3>1. CASE type = "boolean"
      <4>1. v \in {b \in BOOLEAN : BoolPermitted(b, c)}
        BY <2>4, <3>1 DEF Sampled
      <4>2. BoolPermitted(v, c)
        BY <4>1, Zenon
      <4> QED BY <3>1, <4>2, Zenon DEF ChoicePermitted, Choice
    <3>2. CASE type = "integer"
      <4>1. c \in SomeIntConstraints
        BY <2>1, <3>2 DEF SomeConstraints
      <4>2. v \in SampledIntegers(c, IF c.weighted THEN EdgeWeights(c) ELSE {}, c.candidates)
        BY <2>4, <3>2 DEF Sampled
      <4>3. IntPermitted(v, c)
        BY <4>1, <4>2, SampledIntegersPermitted
      <4> QED BY <3>2, <4>3 DEF ChoicePermitted, Choice
    <3>3. CASE type \in {"string", "bytes"}
      BY <2>1, <2>4, <2>5, <3>3, SampledCollectionsPermitted
    <3> QED BY <2>1, <3>1, <3>2, <3>3
  <2> QED BY <1>1, <2>3, <2>4 DEF type, c
<1>2. ASSUME Calls("floats"), NEW p \in Params, NEW c \in Drawing(p),
             \A b \in {c.min, c.max} : Mag(b) = 0 \/ Mag(b) >= c.snm,
             NEW v \in SampledFloats(c) \cup ChoiceFromIndex(0, "float", c)
      PROVE  PermittedFloat(v, c)
  <2> DEFINE args == at.args
  <2>1. TypedArgs(args)
    BY <1>2, ArgsTyped DEF Arguments
  <2>2. p = FloatsParams(args) /\ p.valid /\ c = DrawBounds(p)
    BY DEF Params, Drawing
  <2> HIDE DEF args
  <2> QED BY <1>2, <2>1, <2>2, SampledFloatsPermitted
<1> QED BY <1>1, <1>2, Zenon DEF DrawsArePermitted

\* data.rs: in every call, what a draw samples and the simplest value it falls back to
\* are permitted, so that it replays; all but the strings with a lone surrogate.
THEOREM DrawnPermitted == Spec => []DrawsArePermitted
BY DrawsHold, ArgumentsStay, PTL

================================================================================
