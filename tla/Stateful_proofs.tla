------------------------------ MODULE Stateful_proofs ------------------------------
(* Proofs about rule-based state machines, for every machine and every test:     *)
(* the program shown makes the calls that were made, and what the user is told   *)
(* of a failure is true.                                                         *)
(*                                                                               *)
(* Storing the values of a step is a loop over targets and values, written as a  *)
(* recursive function: the first lemmas show, by taking the first iteration for  *)
(* which it would not be so, that this function exists and what it computes.     *)
EXTENDS Stateful, TLAPS, NaturalsInduction, WellFoundedInduction, SequenceTheorems,
        FiniteSetTheorems

--------------------------------------------------------------------------------
(* Positions: the q-th of n values for the t-th target is the k-th stored. *)

LEMMA LeastNat ==
    ASSUME NEW S \in SUBSET Nat, S # {}
    PROVE  \E n \in S : \A m \in S : n <= m
<1>1. PICK n \in S : \A m \in S : ~ (<<m, n>> \in OpToRel(<, Nat))
    BY WFMin, NatLessThanWellFounded
<1>2. \A m \in S : ~(m < n)
    BY <1>1 DEF OpToRel
<1>3. n \in Nat /\ \A m \in S : m \in Nat
    OBVIOUS
<1> QED BY <1>2, <1>3

\* Multiplying by a natural number is monotonic.
LEMMA Monotonic ==
    ASSUME NEW a \in Nat, NEW b \in Nat, NEW n \in Nat, a <= b
    PROVE  a * n \in Nat /\ b * n \in Nat /\ a * n <= b * n
<1>1. b = a + (b - a) /\ b - a \in Nat
    OBVIOUS
<1>2. \A c \in Nat : c * n \in Nat
    OBVIOUS
<1>3. \A c \in Nat : (a + c) * n = a * n + c * n
    OBVIOUS
<1>4. b * n = a * n + (b - a) * n
    BY <1>1, <1>3
<1> QED BY <1>1, <1>2, <1>4

\* Quotient and remainder are what they should be.
LEMMA Division ==
    ASSUME NEW a \in Nat, NEW n \in Nat \ {0}
    PROVE  \E d \in Nat, r \in 0 .. n - 1 : d = a \div n /\ r = a % n /\ a = d * n + r
<1>1. a \div n \in Nat /\ a % n \in 0 .. n - 1 /\ a % n = a - n * (a \div n)
    OBVIOUS
<1>2. PICK d \in Nat, r \in 0 .. n - 1 : d = a \div n /\ r = a % n /\ r = a - n * d
    BY <1>1
<1>3. n * d = d * n /\ d * n \in Nat
    OBVIOUS
<1>4. \A x \in Nat : r = a - x => a = x + r
    OBVIOUS
<1>5. r = a - d * n
    BY <1>2, <1>3
<1>6. a = d * n + r
    BY <1>3, <1>4, <1>5
<1> QED BY <1>2, <1>6

LEMMA DivisionUnique ==
    ASSUME NEW a \in Nat, NEW b \in Nat, NEW n \in Nat \ {0},
           NEW r \in 0 .. n - 1, NEW s \in 0 .. n - 1, a * n + r = b * n + s
    PROVE  a = b /\ r = s
<1>1. ASSUME NEW c \in Nat, NEW d \in Nat, NEW u \in 0 .. n - 1, NEW v \in 0 .. n - 1,
             c < d
      PROVE  c * n + u < d * n + v
    <2>1. (c + 1) * n <= d * n /\ (c + 1) * n \in Nat /\ d * n \in Nat /\ c * n \in Nat
        <3>1. c + 1 \in Nat /\ c + 1 <= d
            BY <1>1
        <3> QED BY <3>1, Monotonic
    <2>2. (c + 1) * n = c * n + n
        OBVIOUS
    <2> QED BY <2>1, <2>2
<1>2. ~(a < b)
    BY <1>1
<1>3. ~(b < a)
    BY <1>1
<1>4. a = b
    BY <1>2, <1>3
<1>5. a * n \in Nat
    OBVIOUS
<1> QED BY <1>4, <1>5

Place(t, q, n) == (t - 1) * n + q

LEMMA PlaceFacts ==
    ASSUME NEW T \in Nat, NEW n \in Nat \ {0}, NEW t \in 1 .. T, NEW q \in 1 .. n
    PROVE  /\ Place(t, q, n) \in 1 .. T * n
           /\ ((Place(t, q, n) - 1) \div n) + 1 = t
           /\ ((Place(t, q, n) - 1) % n) + 1 = q
<1> DEFINE k == Place(t, q, n)
<1>1. t - 1 \in Nat /\ (t - 1) * n \in Nat /\ k = (t - 1) * n + q
    BY DEF Place
<1>2. (t - 1) * n + n = t * n /\ t * n <= T * n /\ T * n \in Nat
    <2>1. (t - 1) * n + n = t * n
        OBVIOUS
    <2> QED BY <2>1, Monotonic
<1>3. k \in 1 .. T * n
    BY <1>1, <1>2
<1>4. k - 1 \in Nat /\ k - 1 = (t - 1) * n + (q - 1) /\ q - 1 \in 0 .. n - 1
    BY <1>1
<1> HIDE DEF k
<1>5. PICK d \in Nat, r \in 0 .. n - 1 :
        d = (k - 1) \div n /\ r = (k - 1) % n /\ k - 1 = d * n + r
    BY <1>4, Division
<1>6. d = t - 1 /\ r = q - 1
    <2>1. d * n + r = (t - 1) * n + (q - 1)
        BY <1>4, <1>5
    <2> DEFINE u == t - 1
               v == q - 1
    <2>2. u \in Nat /\ v \in 0 .. n - 1 /\ d * n + r = u * n + v
        BY <1>1, <1>4, <2>1
    <2> HIDE DEF u, v
    <2>3. d = u /\ r = v
        BY <2>2, DivisionUnique
    <2> QED BY <2>3 DEF u, v
<1>7. d + 1 = t /\ r + 1 = q
    BY <1>6
<1> QED BY <1>3, <1>5, <1>7 DEF k

\* Every stored value has its place.
LEMMA PlaceExists ==
    ASSUME NEW T \in Nat, NEW n \in Nat, NEW k \in 1 .. T * n
    PROVE  /\ n # 0
           /\ ((k - 1) \div n) + 1 \in 1 .. T /\ ((k - 1) % n) + 1 \in 1 .. n
           /\ Place(((k - 1) \div n) + 1, ((k - 1) % n) + 1, n) = k
<1>1. n # 0
    OBVIOUS
<1>2. PICK t \in Nat, r \in 0 .. n - 1 :
        t = (k - 1) \div n /\ r = (k - 1) % n /\ k - 1 = t * n + r
    <2>1. k - 1 \in Nat /\ n \in Nat \ {0}
        BY <1>1
    <2> QED BY <2>1, Division
<1>3. t * n + r < T * n
    BY <1>2
<1>4. ~(T <= t)
    <2> SUFFICES ASSUME T <= t PROVE FALSE
        OBVIOUS
    <2>1. T * n <= t * n /\ T * n \in Nat /\ t * n \in Nat
        BY <1>2, Monotonic
    <2> QED BY <1>2, <1>3, <2>1
<1>5. t + 1 \in 1 .. T /\ r + 1 \in 1 .. n
    BY <1>2, <1>4
<1>6. Place(t + 1, r + 1, n) = k
    <2>1. Place(t + 1, r + 1, n) = t * n + (r + 1)
        <3>1. (t + 1) - 1 = t
            BY <1>2
        <3> QED BY <3>1 DEF Place
    <2>2. t * n \in Nat
        BY <1>2
    <2> QED BY <1>2, <2>1, <2>2
<1> QED BY <1>1, <1>2, <1>5, <1>6

--------------------------------------------------------------------------------
(* The machine *)

Values == Objects \cup Singletons
Name == Bundles \X Nat
Partial(S, T) == UNION {[D -> T] : D \in SUBSET S}
Machine == [bundles : [Bundles -> Seq(Name)], counters : [Bundles -> Nat],
            names : Seq(Name), values : Partial(Name, Values),
            printers : Partial(Values, Name),
            initializers : SUBSET {r \in Rules : r.initialize}]

\* Names are numbered below their bundle's counter, and are never given twice;
\* they outlive the bundles; an object is printed as a name that has it.
Sound(m) ==
    /\ m \in Machine
    /\ DOMAIN m.values = {m.names[k] : k \in DOMAIN m.names}
    /\ \A k \in DOMAIN m.names : m.names[k][2] < m.counters[m.names[k][1]]
    /\ \A j, k \in DOMAIN m.names : m.names[j] = m.names[k] => j = k
    /\ \A b \in Bundles : \A i \in DOMAIN m.bundles[b] : m.bundles[b][i] \in DOMAIN m.values
    /\ \A v \in DOMAIN m.printers :
         m.printers[v] \in DOMAIN m.values /\ m.values[m.printers[v]] = v
    /\ \A x \in DOMAIN m.values : m.values[x] \in Singletons \cup DOMAIN m.printers

LEMMA PartialFacts ==
    ASSUME NEW S, NEW T, NEW f \in Partial(S, T)
    PROVE  /\ DOMAIN f \in SUBSET S /\ \A x \in DOMAIN f : f[x] \in T
           /\ \A x \in S, y \in T : With(f, x, y) \in Partial(S, T)
<1>1. PICK D \in SUBSET S : f \in [D -> T]
    BY DEF Partial
<1>2. ASSUME NEW x \in S, NEW y \in T
      PROVE  With(f, x, y) \in Partial(S, T)
    <2>1. With(f, x, y) \in [D \cup {x} -> T] /\ D \cup {x} \in SUBSET S
        BY <1>1 DEF With
    <2> QED BY <2>1 DEF Partial
<1> QED BY <1>1, <1>2

LEMMA WithFacts ==
    ASSUME NEW f, NEW x, NEW y
    PROVE  /\ DOMAIN With(f, x, y) = DOMAIN f \cup {x}
           /\ With(f, x, y)[x] = y
           /\ \A z \in DOMAIN f : z # x => With(f, x, y)[z] = f[z]
BY DEF With

\* What storing a value changes, field by field.
Added(m, n, target, value, name) ==
    /\ name \in Name
    /\ n.bundles = [m.bundles EXCEPT ![target] = Append(m.bundles[target], name)]
    /\ n.counters = [m.counters EXCEPT ![target] = m.counters[target] + 1]
    /\ n.names = Append(m.names, name)
    /\ n.values = With(m.values, name, value)
    /\ n.printers = IF value \in Singletons \cup DOMAIN m.printers
                    THEN m.printers ELSE With(m.printers, value, name)
    /\ n.initializers = m.initializers
    /\ n = [bundles |-> n.bundles, counters |-> n.counters, names |-> n.names,
            values |-> n.values, printers |-> n.printers, initializers |-> n.initializers]

LEMMA AddResultFields ==
    ASSUME NEW m \in Machine, NEW target \in Bundles, NEW value \in Values,
           NEW name, name = <<target, m.counters[target]>>,
           NEW n, n = AddResult(m, target, value)
    PROVE  Added(m, n, target, value, name)
<1>1. name \in Name
    BY DEF Machine, Name
<1>2. name = NewName(m, target)
    BY DEF NewName
<1>3. n.counters = [m.counters EXCEPT ![target] = m.counters[target] + 1]
    BY DEF AddResult, Machine
<1>4. n.names = Append(m.names, name)
    BY <1>2 DEF AddResult, Machine
<1>5. n.values = With(m.values, name, value)
    BY <1>2 DEF AddResult, Machine
<1>6. n.printers = IF value \in Singletons \cup DOMAIN m.printers
                      THEN m.printers ELSE With(m.printers, value, name)
    BY <1>2 DEF AddResult, Machine
<1>7. n.bundles = [m.bundles EXCEPT ![target] = Append(m.bundles[target], name)]
    BY <1>2 DEF AddResult, Machine
<1>8. n.initializers = m.initializers
    BY <1>2 DEF AddResult, Machine
<1>9. DOMAIN n = {"bundles", "counters", "names", "values", "printers", "initializers"}
    BY DEF AddResult, Machine
<1>10. n = [bundles |-> n.bundles, counters |-> n.counters, names |-> n.names,
           values |-> n.values, printers |-> n.printers, initializers |-> n.initializers]
    <2>1. n = [x \in DOMAIN n |-> n[x]]
        BY DEF AddResult
    <2> QED BY <1>9, <2>1
<1> QED BY <1>1, <1>3, <1>4, <1>5, <1>6, <1>7, <1>8, <1>10 DEF Added

\* n is m with one more name, that has the value.
Stores(m, n, value) ==
    /\ Sound(n)
    /\ n.initializers = m.initializers
    /\ Len(n.names) = Len(m.names) + 1
    /\ \A k \in 1 .. Len(m.names) : n.names[k] = m.names[k]
    /\ DOMAIN m.values \subseteq DOMAIN n.values
    /\ \A x \in DOMAIN m.values : n.values[x] = m.values[x]
    /\ n.values[n.names[Len(n.names)]] = value

LEMMA AddResultStores ==
    ASSUME NEW m, Sound(m), NEW target \in Bundles, NEW value \in Values
    PROVE  Stores(m, AddResult(m, target, value), value)
<1> DEFINE name == <<target, m.counters[target]>>
           n    == AddResult(m, target, value)
           L    == Len(m.names)
<1>1. m \in Machine
    BY DEF Sound
<1> HIDE DEF n, name
<1>2. /\ name \in Name
      /\ n.bundles = [m.bundles EXCEPT ![target] = Append(m.bundles[target], name)]
      /\ n.counters = [m.counters EXCEPT ![target] = m.counters[target] + 1]
      /\ n.names = Append(m.names, name)
      /\ n.values = With(m.values, name, value)
      /\ n.printers = IF value \in Singletons \cup DOMAIN m.printers
                      THEN m.printers ELSE With(m.printers, value, name)
      /\ n.initializers = m.initializers
      /\ n = [bundles |-> n.bundles, counters |-> n.counters, names |-> n.names,
              values |-> n.values, printers |-> n.printers, initializers |-> n.initializers]
    <2>1. name = <<target, m.counters[target]>> /\ n = AddResult(m, target, value)
        BY DEF name, n
    <2>2. Added(m, n, target, value, name)
        BY <1>1, <2>1, AddResultFields
    <2> QED BY <2>2 DEF Added
<1>3. /\ m.bundles \in [Bundles -> Seq(Name)] /\ m.counters \in [Bundles -> Nat]
      /\ m.names \in Seq(Name) /\ m.values \in Partial(Name, Values)
      /\ m.printers \in Partial(Values, Name)
      /\ m.initializers \in SUBSET {r \in Rules : r.initialize}
    BY <1>1 DEF Machine
<1>4. name[1] = target /\ name[2] = m.counters[target] /\ m.counters[target] \in Nat
    BY <1>3 DEF name
<1>5. /\ L \in Nat /\ Len(n.names) = L + 1 /\ DOMAIN m.names = 1 .. L
      /\ DOMAIN n.names = 1 .. L + 1 /\ n.names[L + 1] = name
      /\ \A k \in 1 .. L : n.names[k] = m.names[k] /\ m.names[k] \in Name
    BY <1>2, <1>3
<1>6. ASSUME NEW k \in 1 .. L
      PROVE  m.names[k] # name
    <2>1. m.names[k][2] < m.counters[m.names[k][1]]
        BY <1>5 DEF Sound
    <2> QED BY <1>4, <2>1
<1>7. name \notin DOMAIN m.values
    BY <1>5, <1>6 DEF Sound
<1>8. /\ DOMAIN n.values = DOMAIN m.values \cup {name} /\ n.values[name] = value
      /\ \A x \in DOMAIN m.values : n.values[x] = m.values[x]
    <2>1. n.values = With(m.values, name, value)
        BY <1>2
    <2>2. /\ DOMAIN With(m.values, name, value) = DOMAIN m.values \cup {name}
          /\ With(m.values, name, value)[name] = value
          /\ \A x \in DOMAIN m.values : x # name => With(m.values, name, value)[x] = m.values[x]
        BY DEF With
    <2> QED BY <1>7, <2>1, <2>2
<1>9. n \in Machine
    <2>1. n.bundles \in [Bundles -> Seq(Name)]
        <3>1. Append(m.bundles[target], name) \in Seq(Name)
            BY <1>2, <1>3
        <3> QED BY <1>2, <1>3, <3>1
    <2>2. n.counters \in [Bundles -> Nat]
        BY <1>2, <1>3
    <2>3. n.names \in Seq(Name)
        BY <1>2, <1>3
    <2>4. n.values \in Partial(Name, Values)
        <3>1. m.values \in Partial(Name, Values) /\ name \in Name /\ n.values = With(m.values, name, value)
            BY <1>2, <1>3
        <3>2. With(m.values, name, value) \in Partial(Name, Values)
            BY <3>1, PartialFacts
        <3> QED BY <3>1, <3>2
    <2>5. n.printers \in Partial(Values, Name)
        <3>1. m.printers \in Partial(Values, Name) /\ name \in Name
            BY <1>2, <1>3
        <3>2. With(m.printers, value, name) \in Partial(Values, Name)
            BY <3>1, PartialFacts
        <3>3. n.printers = m.printers \/ n.printers = With(m.printers, value, name)
            BY <1>2
        <3> QED BY <3>1, <3>2, <3>3
    <2>6. n.initializers \in SUBSET {r \in Rules : r.initialize}
        BY <1>2, <1>3
    <2>7. n = [bundles |-> n.bundles, counters |-> n.counters, names |-> n.names,
              values |-> n.values, printers |-> n.printers, initializers |-> n.initializers]
        BY <1>2
    <2> QED BY <2>1, <2>2, <2>3, <2>4, <2>5, <2>6, <2>7 DEF Machine
<1>10. DOMAIN n.values = {n.names[k] : k \in DOMAIN n.names}
    <2>1. DOMAIN m.values = {m.names[k] : k \in 1 .. L}
        BY <1>5 DEF Sound
    <2>2. 1 .. L + 1 = (1 .. L) \cup {L + 1}
        BY <1>5
    <2>3. {n.names[k] : k \in 1 .. L + 1} = {n.names[k] : k \in 1 .. L} \cup {n.names[L + 1]}
        BY <2>2
    <2>4. {n.names[k] : k \in 1 .. L} = {m.names[k] : k \in 1 .. L}
        BY <1>5
    <2> QED BY <1>5, <1>8, <2>1, <2>3, <2>4
<1>11. ASSUME NEW k \in DOMAIN n.names
       PROVE  n.names[k][2] < n.counters[n.names[k][1]]
    <2>1. CASE k = L + 1
        <3>1. n.counters = [m.counters EXCEPT ![target] = m.counters[target] + 1]
            BY <1>2
        <3>2. n.counters[target] = m.counters[target] + 1
            BY <1>3, <3>1
        <3>3. n.names[k][1] = target /\ n.names[k][2] = m.counters[target]
            BY <1>4, <1>5, <2>1
        <3> QED BY <1>4, <3>2, <3>3
    <2>2. CASE k # L + 1
        <3>1. k \in 1 .. L /\ n.names[k] = m.names[k] /\ m.names[k] \in Name
            BY <1>5, <2>2
        <3>2. m.names[k][2] < m.counters[m.names[k][1]]
            BY <1>5, <3>1 DEF Sound
        <3>3. m.names[k][1] \in Bundles /\ m.names[k][2] \in Nat
            BY <3>1 DEF Name
        <3>6. n.counters = [m.counters EXCEPT ![target] = m.counters[target] + 1]
            BY <1>2
        <3>4. n.counters[m.names[k][1]] >= m.counters[m.names[k][1]]
            BY <1>3, <3>3, <3>6
        <3>5. n.counters[m.names[k][1]] \in Nat /\ m.counters[m.names[k][1]] \in Nat
            BY <1>3, <3>3, <3>6, SMTT(30)
        <3> QED BY <3>1, <3>2, <3>3, <3>4, <3>5
    <2> QED BY <2>1, <2>2
<1>12. ASSUME NEW j \in DOMAIN n.names, NEW k \in DOMAIN n.names, n.names[j] = n.names[k]
       PROVE  j = k
    <2>1. CASE j \in 1 .. L /\ k \in 1 .. L
        BY <1>5, <1>12, <2>1 DEF Sound
    <2>2. CASE j = L + 1 \/ k = L + 1
        BY <1>5, <1>6, <1>12, <2>2
    <2> QED BY <1>5, <2>1, <2>2
<1>13. ASSUME NEW b \in Bundles, NEW i \in DOMAIN n.bundles[b]
       PROVE  n.bundles[b][i] \in DOMAIN n.values
    <2>1. \A j \in DOMAIN m.bundles[b] : m.bundles[b][j] \in DOMAIN m.values
        BY DEF Sound
    <2>2. CASE b # target
        BY <1>2, <1>3, <1>8, <2>1, <2>2
    <2>3. CASE b = target
        <3>1. n.bundles[b] = Append(m.bundles[b], name) /\ m.bundles[b] \in Seq(Name)
            BY <1>2, <1>3, <2>3
        <3>2. n.bundles[b][i] = name \/ (i \in DOMAIN m.bundles[b] /\ n.bundles[b][i] = m.bundles[b][i])
            BY <3>1
        <3> QED BY <1>8, <2>1, <3>2
    <2> QED BY <2>2, <2>3
<1>14. ASSUME NEW v \in DOMAIN n.printers
       PROVE  n.printers[v] \in DOMAIN n.values /\ n.values[n.printers[v]] = v
    <2>1. \A u \in DOMAIN m.printers :
            m.printers[u] \in DOMAIN m.values /\ m.values[m.printers[u]] = u
        BY DEF Sound
    <2>2. CASE value \in Singletons \cup DOMAIN m.printers
        BY <1>2, <1>8, <2>1, <2>2
    <2>3. CASE value \notin Singletons \cup DOMAIN m.printers
        <3>1. n.printers = With(m.printers, value, name)
            BY <1>2, <2>3
        <3>2. (v = value /\ n.printers[v] = name)
                \/ (v \in DOMAIN m.printers /\ n.printers[v] = m.printers[v])
            <4>1. /\ DOMAIN With(m.printers, value, name) = DOMAIN m.printers \cup {value}
                  /\ With(m.printers, value, name)[value] = name
                  /\ \A u \in DOMAIN m.printers :
                       u # value => With(m.printers, value, name)[u] = m.printers[u]
                BY DEF With
            <4> QED BY <3>1, <4>1
        <3> QED BY <1>8, <2>1, <3>2
    <2> QED BY <2>2, <2>3
<1>15. ASSUME NEW x \in DOMAIN n.values
       PROVE  n.values[x] \in Singletons \cup DOMAIN n.printers
    <2>1. \A z \in DOMAIN m.values : m.values[z] \in Singletons \cup DOMAIN m.printers
        BY DEF Sound
    <2>2. DOMAIN m.printers \subseteq DOMAIN n.printers /\ value \in Singletons \cup DOMAIN n.printers
        <3>1. DOMAIN With(m.printers, value, name) = DOMAIN m.printers \cup {value}
            BY WithFacts
        <3> QED BY <1>2, <3>1
    <2> QED BY <1>8, <2>1, <2>2
<1>16. Sound(n)
    BY <1>9, <1>10, <1>11, <1>12, <1>13, <1>14, <1>15 DEF Sound
<1> QED BY <1>2, <1>5, <1>8, <1>16 DEF Stores, n

--------------------------------------------------------------------------------
(* Storing the values of a step *)

\* The machine after each of the first N values.
IsStoring(g, N, m, targets, values) ==
    g = [k \in 0 .. N |->
            IF k = 0 THEN m
            ELSE AddResult(g[k - 1], targets[((k - 1) \div Len(values)) + 1],
                           values[((k - 1) % Len(values)) + 1])]

LEMMA StoringExists ==
    ASSUME NEW m, NEW targets, NEW values, NEW N \in Nat
    PROVE  \E g : IsStoring(g, N, m, targets, values)
<1> DEFINE S == {M \in Nat : ~ \E g : IsStoring(g, M, m, targets, values)}
           step(a, k) == AddResult(a, targets[((k - 1) \div Len(values)) + 1],
                                   values[((k - 1) % Len(values)) + 1])
<1> SUFFICES ASSUME S # {} PROVE FALSE
    OBVIOUS
<1>1. PICK M \in S : \A j \in S : M <= j
    BY LeastNat
<1>2. M \in Nat /\ ~ \E g : IsStoring(g, M, m, targets, values)
    OBVIOUS
<1>3. M # 0
    <2> DEFINE g == [k \in 0 .. 0 |-> m]
    <2>1. \A k \in 0 .. 0 : k = 0
        OBVIOUS
    <2>2. IsStoring(g, 0, m, targets, values)
        BY <2>1 DEF IsStoring
    <2> QED BY <1>2, <2>2
<1>4. M - 1 \in Nat /\ M - 1 \notin S
    BY <1>1, <1>2, <1>3
<1>5. PICK h : IsStoring(h, M - 1, m, targets, values)
    BY <1>4
<1>6. h = [k \in 0 .. M - 1 |-> IF k = 0 THEN m ELSE step(h[k - 1], k)]
    BY <1>5 DEF IsStoring
<1> HIDE DEF S
<1> DEFINE g == [k \in 0 .. M |-> IF k = M THEN step(h[M - 1], M) ELSE h[k]]
<1>7. g = [k \in 0 .. M |-> IF k = 0 THEN m ELSE step(g[k - 1], k)]
    <2> HIDE DEF step
    <2> DEFINE f == [k \in 0 .. M |-> IF k = 0 THEN m ELSE step(g[k - 1], k)]
    <2>1. ASSUME NEW k \in 0 .. M
          PROVE  g[k] = f[k]
        <3>1. CASE k = 0
            BY <1>2, <1>3, <1>6, <3>1
        <3>2. CASE k = M
            <4>1. k - 1 = M - 1 /\ M - 1 \in 0 .. M /\ M - 1 # M /\ k # 0
                BY <1>2, <1>3, <3>2
            <4>2. g[M - 1] = h[M - 1]
                BY <4>1
            <4> QED BY <3>2, <4>1, <4>2
        <3>3. CASE k # 0 /\ k # M
            <4>1. k - 1 \in 0 .. M /\ k - 1 # M /\ k \in 0 .. M - 1
                BY <1>2, <3>3
            <4>2. g[k - 1] = h[k - 1] /\ g[k] = h[k]
                BY <3>3, <4>1
            <4>3. h[k] = step(h[k - 1], k)
                BY <1>6, <3>3, <4>1
            <4> QED BY <3>3, <4>2, <4>3
        <3> QED BY <3>1, <3>2, <3>3
    <2>2. g = [k \in 0 .. M |-> g[k]] /\ f = [k \in 0 .. M |-> f[k]]
        OBVIOUS
    <2> HIDE DEF g, f
    <2>3. g = f
        BY <2>1, <2>2
    <2> QED BY <2>3 DEF f
<1>8. IsStoring(g, M, m, targets, values)
    <2> HIDE DEF g
    <2> QED BY <1>7 DEF IsStoring
<1> QED BY <1>2, <1>8

\* a is m with k more names, that have the values in turn.
Stored(m, a, k, values) ==
    /\ Sound(a)
    /\ a.initializers = m.initializers
    /\ Len(a.names) = Len(m.names) + k
    /\ \A j \in 1 .. Len(m.names) : a.names[j] = m.names[j]
    /\ DOMAIN m.values \subseteq DOMAIN a.values
    /\ \A x \in DOMAIN m.values : a.values[x] = m.values[x]
    /\ \A j \in 1 .. k :
         a.values[a.names[Len(m.names) + j]] = values[((j - 1) % Len(values)) + 1]

LEMMA StoredNext ==
    ASSUME NEW m, Sound(m), NEW a, NEW b, NEW k \in Nat, NEW values, NEW value,
           Stored(m, a, k, values), Stores(a, b, value),
           value = values[(k % Len(values)) + 1]
    PROVE  Stored(m, b, k + 1, values)
<1> DEFINE L == Len(m.names)
<1>1. m.names \in Seq(Name) /\ a.names \in Seq(Name) /\ b.names \in Seq(Name)
    BY DEF Stored, Stores, Sound, Machine
<1>2. L \in Nat /\ Len(a.names) = L + k /\ Len(b.names) = L + k + 1
    <2>1. Len(a.names) = L + k /\ Len(b.names) = Len(a.names) + 1
        BY DEF Stored, Stores
    <2> QED BY <1>1, <2>1
<1>3. \A j \in 1 .. L + k : b.names[j] = a.names[j]
    BY <1>2 DEF Stores
<1>4. \A j \in 1 .. L : b.names[j] = m.names[j]
    BY <1>2, <1>3 DEF Stored
<1>5. \A x \in DOMAIN a.values : x \in DOMAIN b.values /\ b.values[x] = a.values[x]
    BY DEF Stores
<1>6. \A x \in DOMAIN m.values : x \in DOMAIN b.values /\ b.values[x] = m.values[x]
    BY <1>5 DEF Stored
<1>7. ASSUME NEW j \in 1 .. k + 1
      PROVE  b.values[b.names[L + j]] = values[((j - 1) % Len(values)) + 1]
    <2>1. CASE j = k + 1
        <3>1. b.values[b.names[L + k + 1]] = value
            BY <1>2 DEF Stores
        <3>2. L + j = L + k + 1 /\ j - 1 = k
            <4> HIDE DEF L
            <4> QED BY <1>2, <2>1
        <3> QED BY <3>1, <3>2
    <2>2. CASE j # k + 1
        <3>1. j \in 1 .. k /\ L + j \in 1 .. L + k
            BY <1>2, <2>2
        <3>2. a.values[a.names[L + j]] = values[((j - 1) % Len(values)) + 1]
            BY <3>1 DEF Stored
        <3>3. a.names[L + j] \in DOMAIN a.values
            <4>1. L + j \in DOMAIN a.names
                BY <1>1, <1>2, <3>1
            <4> QED BY <4>1 DEF Stored, Sound
        <3> QED BY <1>3, <1>5, <3>1, <3>2, <3>3
    <2> QED BY <2>1, <2>2
<1>8. Sound(b) /\ b.initializers = m.initializers
    BY DEF Stored, Stores
<1>9. Len(b.names) = L + (k + 1)
    <2> HIDE DEF L
    <2> QED BY <1>2
<1> QED BY <1>4, <1>6, <1>7, <1>8, <1>9 DEF Stored

\* Storing the values in the targets names them target by target.
LEMMA AddResultsStored ==
    ASSUME NEW m, Sound(m), NEW targets \in Seq(Bundles), NEW values \in Seq(Values)
    PROVE  Stored(m, AddResultsToTargets(m, targets, values), Len(targets) * Len(values), values)
<1> DEFINE n == Len(values)
           T == Len(targets)
           g == CHOOSE h : IsStoring(h, T * n, m, targets, values)
<1>1. AddResultsToTargets(m, targets, values) = g[T * n]
    BY DEF AddResultsToTargets, IsStoring
<1>2. n \in Nat /\ T \in Nat /\ T * n \in Nat
    OBVIOUS
<1>3. IsStoring(g, T * n, m, targets, values)
    <2>1. \E h : IsStoring(h, T * n, m, targets, values)
        BY <1>2, StoringExists
    <2> QED BY <2>1
<1> HIDE DEF g
<1>4. \A k \in 0 .. T * n : g[k] = IF k = 0 THEN m
                                   ELSE AddResult(g[k - 1], targets[((k - 1) \div n) + 1],
                                                  values[((k - 1) % n) + 1])
    BY <1>3 DEF IsStoring
<1> DEFINE S == {k \in 0 .. T * n : ~Stored(m, g[k], k, values)}
<1>5. S = {}
    <2> SUFFICES ASSUME S # {} PROVE FALSE
        OBVIOUS
    <2>1. S \in SUBSET Nat
        BY <1>2
    <2> HIDE DEF S
    <2>2. PICK k \in S : \A j \in S : k <= j
        BY <2>1, LeastNat
    <2>3. k \in 0 .. T * n /\ ~Stored(m, g[k], k, values)
        BY DEF S
    <2>4. CASE k = 0
        <3>1. g[k] = m
            BY <1>4, <2>3, <2>4
        <3>2. m.names \in Seq(Name)
            BY DEF Sound, Machine
        <3>3. Len(m.names) = Len(m.names) + 0
            BY <3>2
        <3>4. Stored(m, m, 0, values)
            BY <3>3 DEF Stored
        <3> QED BY <2>3, <2>4, <3>1, <3>4
    <2>5. CASE k # 0
        <3>1. k - 1 \in 0 .. T * n /\ k - 1 \in Nat /\ k \in 1 .. T * n /\ (k - 1) + 1 = k
            BY <1>2, <2>3, <2>5
        <3>2. k - 1 \notin S
            BY <2>2, <3>1
        <3>3. Stored(m, g[k - 1], k - 1, values)
            BY <3>1, <3>2 DEF S
        <3> DEFINE t == ((k - 1) \div n) + 1
                   q == ((k - 1) % n) + 1
        <3>4. t \in 1 .. T /\ q \in 1 .. n
            BY <1>2, <3>1, PlaceExists
        <3> HIDE DEF t, q
        <3>5. targets[t] \in Bundles /\ values[q] \in Values
            BY <3>4
        <3>6. g[k] = AddResult(g[k - 1], targets[t], values[q])
            BY <1>4, <2>3, <2>5 DEF t, q
        <3>7. Sound(g[k - 1])
            BY <3>3 DEF Stored
        <3>8. Stores(g[k - 1], g[k], values[q])
            BY <3>5, <3>6, <3>7, AddResultStores
        <3>9. values[q] = values[((k - 1) % Len(values)) + 1]
            BY DEF q
        <3>10. Stored(m, g[k], (k - 1) + 1, values)
            BY <3>1, <3>3, <3>8, <3>9, StoredNext
        <3> QED BY <2>3, <3>1, <3>10
    <2> QED BY <2>4, <2>5
<1>6. T * n \in 0 .. T * n /\ T * n \notin S
    BY <1>2, <1>5
<1>7. Stored(m, g[T * n], T * n, values)
    BY <1>6
<1> QED BY <1>1, <1>7

LEMMA Slice ==
    ASSUME NEW S, NEW s \in Seq(S), NEW a \in Nat, NEW n \in Nat, a + n <= Len(s)
    PROVE  /\ SubSeq(s, a + 1, a + n) \in Seq(S) /\ Len(SubSeq(s, a + 1, a + n)) = n
           /\ \A i \in 1 .. n : SubSeq(s, a + 1, a + n)[i] = s[a + i]
<1>1. Len(s) \in Nat /\ \A i \in 1 .. Len(s) : s[i] \in S
    OBVIOUS
<1> DEFINE first == a + 1
           last  == a + n
<1>2. /\ first \in Int /\ last \in Int /\ last - first + 1 = n
      /\ \A i \in first .. last : s[i] \in S
      /\ first <= last \/ n = 0
      /\ \A i \in 1 .. n : first + i - 1 = a + i
    BY <1>1
<1> HIDE DEF first, last
<1>3. /\ SubSeq(s, first, last) \in Seq(S)
      /\ Len(SubSeq(s, first, last)) = IF first <= last THEN last - first + 1 ELSE 0
      /\ \A i \in 1 .. last - first + 1 : SubSeq(s, first, last)[i] = s[first + i - 1]
    BY <1>2, SubSeqProperties
<1>4. /\ SubSeq(s, first, last) \in Seq(S) /\ Len(SubSeq(s, first, last)) = n
      /\ \A i \in 1 .. n : SubSeq(s, first, last)[i] = s[a + i]
    BY <1>2, <1>3
<1> QED BY <1>4 DEF first, last

\* The slices of names shown are the names of the values.
LEMMA AssignedFacts ==
    ASSUME NEW m, Sound(m), NEW targets \in Seq(Bundles), NEW values \in Seq(Values),
           values # <<>>, NEW M, M = AddResultsToTargets(m, targets, values)
    PROVE  /\ DOMAIN Assigned(M, targets, values) = DOMAIN targets
           /\ \A t \in DOMAIN targets :
                /\ Assigned(M, targets, values)[t] \in Seq(Name)
                /\ DOMAIN Assigned(M, targets, values)[t] = DOMAIN values
                /\ \A q \in DOMAIN values :
                     /\ Assigned(M, targets, values)[t][q]
                          = M.names[Len(m.names) + Place(t, q, Len(values))]
                     /\ Len(m.names) + Place(t, q, Len(values)) \in DOMAIN M.names
                     /\ M.values[Assigned(M, targets, values)[t][q]] = values[q]
<1> DEFINE n == Len(values)
           T == Len(targets)
           L == Len(m.names)
           last == LastNames(M, T * n)
<1>1. /\ n \in Nat \ {0} /\ T \in Nat /\ T * n \in Nat
      /\ DOMAIN values = 1 .. n /\ DOMAIN targets = 1 .. T
    OBVIOUS
<1>2. Stored(m, M, T * n, values)
    BY AddResultsStored
<1>3. m.names \in Seq(Name) /\ M.names \in Seq(Name)
    BY <1>2 DEF Stored, Sound, Machine
<1>4. L \in Nat /\ Len(M.names) = L + T * n
    BY <1>2, <1>3 DEF Stored
<1>5. last = SubSeq(M.names, L + 1, L + T * n)
    <2>1. Len(M.names) - T * n + 1 = L + 1
        BY <1>1, <1>4
    <2> QED BY <1>4, <2>1 DEF LastNames
<1> HIDE DEF n, T, L, last
<1>6. /\ last \in Seq(Name) /\ Len(last) = T * n
      /\ \A k \in 1 .. T * n : last[k] = M.names[L + k]
    <2>1. L \in Nat /\ T * n \in Nat /\ L + T * n <= Len(M.names)
        BY <1>1, <1>4
    <2> DEFINE k == T * n
    <2> HIDE DEF k
    <2>2. /\ SubSeq(M.names, L + 1, L + k) \in Seq(Name) /\ Len(SubSeq(M.names, L + 1, L + k)) = k
          /\ \A i \in 1 .. k : SubSeq(M.names, L + 1, L + k)[i] = M.names[L + i]
        BY <1>3, <2>1, Slice, SMTT(30) DEF k
    <2> QED BY <1>5, <2>2 DEF k
<1>7. Assigned(M, targets, values) = [t \in 1 .. T |-> SubSeq(last, (t - 1) * n + 1, t * n)]
    <2>1. Len(values) # 0
        BY <1>1 DEF n
    <2> QED BY <1>1, <2>1 DEF Assigned, n, T, last
<1>8. ASSUME NEW t \in 1 .. T
      PROVE  /\ Assigned(M, targets, values)[t] \in Seq(Name)
             /\ DOMAIN Assigned(M, targets, values)[t] = 1 .. n
             /\ \A q \in 1 .. n :
                  /\ Assigned(M, targets, values)[t][q] = M.names[L + Place(t, q, n)]
                  /\ L + Place(t, q, n) \in DOMAIN M.names
                  /\ M.values[Assigned(M, targets, values)[t][q]] = values[q]
    <2> DEFINE first == (t - 1) * n
    <2>1. first \in Nat /\ t * n = first + n /\ t * n <= T * n
        <3>1. t - 1 \in Nat /\ t \in Nat /\ t <= T
            BY <1>1
        <3>2. (t - 1) * n \in Nat
            BY <1>1, <3>1
        <3>3. t * n <= T * n
            BY <1>1, <3>1, Monotonic
        <3>4. t * n = (t - 1) * n + n
            BY <1>1, <3>1
        <3> QED BY <3>2, <3>3, <3>4
    <2>2. \A q \in 1 .. n : Place(t, q, n) = first + q
        BY DEF Place
    <2>3. Assigned(M, targets, values)[t] = SubSeq(last, first + 1, first + n)
        BY <1>7, <2>1
    <2> HIDE DEF first
    <2>4. /\ SubSeq(last, first + 1, first + n) \in Seq(Name)
          /\ Len(SubSeq(last, first + 1, first + n)) = n
          /\ \A q \in 1 .. n : SubSeq(last, first + 1, first + n)[q] = last[first + q]
        <3>1. first + n <= Len(last)
            BY <1>1, <1>6, <2>1
        <3>2. last \in Seq(Name) /\ first \in Nat /\ n \in Nat
            BY <1>1, <1>6, <2>1
        <3> QED BY <3>1, <3>2, Slice
    <2>5. \A q \in 1 .. n : first + q \in 1 .. T * n
        BY <1>1, <2>1
    <2>6. /\ Assigned(M, targets, values)[t] \in Seq(Name)
          /\ DOMAIN Assigned(M, targets, values)[t] = 1 .. n
        BY <2>3, <2>4
    <2>7. ASSUME NEW q \in 1 .. n
          PROVE  /\ Assigned(M, targets, values)[t][q] = M.names[L + Place(t, q, n)]
                 /\ L + Place(t, q, n) \in DOMAIN M.names
                 /\ M.values[Assigned(M, targets, values)[t][q]] = values[q]
        <3>1. Assigned(M, targets, values)[t][q] = M.names[L + Place(t, q, n)]
            BY <1>6, <2>2, <2>3, <2>4, <2>5
        <3>2. Place(t, q, n) \in 1 .. T * n /\ ((Place(t, q, n) - 1) % n) + 1 = q
            BY <1>1, PlaceFacts
        <3>3. L + Place(t, q, n) \in DOMAIN M.names
            BY <1>1, <1>3, <1>4, <3>2
        <3>4. \A j \in 1 .. T * n : M.values[M.names[L + j]] = values[((j - 1) % n) + 1]
            BY <1>2 DEF Stored, n, L
        <3> QED BY <3>1, <3>2, <3>3, <3>4
    <2> QED BY <2>6, <2>7
<1>9. DOMAIN Assigned(M, targets, values) = 1 .. T
    BY <1>7
<1> QED BY <1>1, <1>8, <1>9 DEF n, L

--------------------------------------------------------------------------------
(* What a step gives to the program shown: lines that assign names, of which    *)
(* each is new and has its value.                                               *)

Gets(targets, x) == \E t \in DOMAIN targets : \E q \in DOMAIN targets[t] : targets[t][q] = x

NamesHold(targets, values, held) ==
    \A t \in DOMAIN targets : \A q \in DOMAIN targets[t] :
      targets[t][q] \in DOMAIN held /\ held[targets[t][q]] = values[q]

NoneTwice(targets) ==
    \A t, u \in DOMAIN targets : \A q \in DOMAIN targets[t], r \in DOMAIN targets[u] :
      targets[t][q] = targets[u][r] => t = u /\ q = r

Keeps(held, heldNow) ==
    \A x \in DOMAIN held : x \in DOMAIN heldNow /\ heldNow[x] = held[x]

\* Assigning these names makes held into heldNow.
Gives(held, heldNow, targets, values) ==
    /\ targets \in Seq(Seq(Name))
    /\ Keeps(held, heldNow)
    /\ NamesHold(targets, values, heldNow)
    /\ NoneTwice(targets)
    /\ \A t \in DOMAIN targets : \A q \in DOMAIN targets[t] : targets[t][q] \notin DOMAIN held
    /\ \A x \in DOMAIN heldNow : x \in DOMAIN held \/ Gets(targets, x)

LEMMA NothingGives ==
    ASSUME NEW held, NEW values
    PROVE  Gives(held, held, <<>>, values)
BY DEF Gives, Keeps, NamesHold, NoneTwice

LEMMA StoringGives ==
    ASSUME NEW m, Sound(m), NEW targets \in Seq(Bundles), NEW values \in Seq(Values),
           NEW M, M = AddResultsToTargets(m, targets, values),
           NEW S, S = Assigned(M, targets, values)
    PROVE  Sound(M) /\ Gives(m.values, M.values, S, values)
<1> DEFINE n == Len(values)
           T == Len(targets)
           L == Len(m.names)
<1>1. Stored(m, M, T * n, values)
    BY AddResultsStored
<1>2. Sound(M) /\ Keeps(m.values, M.values)
    BY <1>1 DEF Stored, Keeps
<1>3. /\ n \in Nat /\ T \in Nat /\ T * n \in Nat /\ L \in Nat
      /\ DOMAIN values = 1 .. n /\ DOMAIN targets = 1 .. T
    BY DEF Sound, Machine
<1>4. Len(M.names) = L + T * n
    BY <1>1 DEF Stored
<1>5. /\ m.names \in Seq(Name) /\ M.names \in Seq(Name)
      /\ DOMAIN m.names = 1 .. L /\ DOMAIN M.names = 1 .. L + T * n
    BY <1>2, <1>4 DEF Sound, Machine
<1>6. \A k \in 1 .. L : M.names[k] = m.names[k]
    BY <1>1 DEF Stored
<1>7. /\ DOMAIN m.values = {M.names[k] : k \in 1 .. L}
      /\ DOMAIN M.values = {M.names[k] : k \in 1 .. L + T * n}
    <2>1. DOMAIN m.values = {m.names[k] : k \in DOMAIN m.names}
        BY DEF Sound
    <2>2. DOMAIN M.values = {M.names[k] : k \in DOMAIN M.names}
        BY <1>2 DEF Sound
    <2>3. {m.names[k] : k \in 1 .. L} = {M.names[k] : k \in 1 .. L}
        BY <1>6
    <2> HIDE DEF L, T, n
    <2> QED BY <1>5, <2>1, <2>2, <2>3
<1>8. \A j, k \in 1 .. L + T * n : M.names[j] = M.names[k] => j = k
    BY <1>2, <1>5 DEF Sound
<1>9. CASE values = <<>>
    <2>1. S = <<>>
        BY <1>9 DEF Assigned
    <2>2. T * n = 0
        BY <1>3, <1>9
    <2>3. DOMAIN M.values = DOMAIN m.values
        <3>1. L + T * n = L
            <4> HIDE DEF L, T, n
            <4> QED BY <1>3, <2>2
        <3> QED BY <1>7, <3>1
    <2> QED BY <1>2, <2>1, <2>3 DEF Gives, NamesHold, NoneTwice
<1>10. CASE values # <<>>
    <2> HIDE DEF n, T, L
    <2>1. /\ DOMAIN S = 1 .. T
          /\ \A t \in 1 .. T : S[t] \in Seq(Name) /\ DOMAIN S[t] = 1 .. n
          /\ \A t \in 1 .. T, q \in 1 .. n :
               /\ S[t][q] = M.names[L + Place(t, q, n)]
               /\ L + Place(t, q, n) \in DOMAIN M.names
               /\ M.values[S[t][q]] = values[q]
        <3>1. /\ DOMAIN S = DOMAIN targets
              /\ \A t \in DOMAIN targets :
                   /\ S[t] \in Seq(Name)
                   /\ DOMAIN S[t] = DOMAIN values
                   /\ \A q \in DOMAIN values :
                        /\ S[t][q] = M.names[Len(m.names) + Place(t, q, Len(values))]
                        /\ Len(m.names) + Place(t, q, Len(values)) \in DOMAIN M.names
                        /\ M.values[S[t][q]] = values[q]
            BY <1>10, AssignedFacts
        <3>2. DOMAIN targets = 1 .. T /\ DOMAIN values = 1 .. n
            BY <1>3
        <3>3. Len(values) = n /\ Len(m.names) = L
            BY DEF n, L
        <3>4. ASSUME NEW t \in 1 .. T, NEW q \in 1 .. n
              PROVE  /\ S[t][q] = M.names[L + Place(t, q, n)]
                     /\ L + Place(t, q, n) \in DOMAIN M.names
                     /\ M.values[S[t][q]] = values[q]
            <4>1. t \in DOMAIN targets /\ q \in DOMAIN values
                BY <3>2
            <4>2. /\ S[t][q] = M.names[Len(m.names) + Place(t, q, Len(values))]
                  /\ Len(m.names) + Place(t, q, Len(values)) \in DOMAIN M.names
                  /\ M.values[S[t][q]] = values[q]
                BY <3>1, <4>1
            <4> QED BY <3>3, <4>2, Zenon
        <3>5. \A t \in 1 .. T : S[t] \in Seq(Name) /\ DOMAIN S[t] = 1 .. n
            BY <3>1, <3>2
        <3> QED BY <3>1, <3>2, <3>4, <3>5, Zenon
    <2>2. \A t \in 1 .. T, q \in 1 .. n :
            /\ Place(t, q, n) \in 1 .. T * n
            /\ ((Place(t, q, n) - 1) \div n) + 1 = t
            /\ ((Place(t, q, n) - 1) % n) + 1 = q
        <3>1. n # 0
            BY <1>3, <1>10 DEF n
        <3> QED BY <1>3, <3>1, PlaceFacts
    <2>3. S \in Seq(Seq(Name))
        <3> DEFINE F == [t \in DOMAIN targets |-> SubSeq(LastNames(M, T * n), (t - 1) * n + 1, t * n)]
        <3>1. S = F
            BY <1>3, <1>10 DEF Assigned, T, n
        <3>2. F = [t \in 1 .. T |-> F[t]]
            BY <1>3
        <3> HIDE DEF F
        <3>3. S = [t \in 1 .. T |-> S[t]]
            BY <3>1, <3>2
        <3> DEFINE X == Seq(Name)
        <3>4. \A t \in 1 .. T : S[t] \in X
            BY <2>1
        <3> HIDE DEF X
        <3>5. S \in [1 .. T -> X]
            BY <3>3, <3>4, Zenon
        <3>6. S \in Seq(X)
            BY <1>3, <3>5
        <3> QED BY <3>6 DEF X
    <2>a. \A t \in DOMAIN S : t \in 1 .. T /\ DOMAIN S[t] = 1 .. n
        BY <2>1
    <2>4. NamesHold(S, values, M.values)
        <3>1. ASSUME NEW t \in 1 .. T, NEW q \in 1 .. n
              PROVE  S[t][q] \in DOMAIN M.values
            BY <1>5, <1>7, <2>1, <3>1
        <3>2. ASSUME NEW t \in DOMAIN S, NEW q \in DOMAIN S[t]
              PROVE  S[t][q] \in DOMAIN M.values /\ M.values[S[t][q]] = values[q]
            <4>1. t \in 1 .. T /\ q \in 1 .. n
                BY <2>a, <3>2
            <4> QED BY <2>1, <3>1, <4>1
        <3> QED BY <3>2 DEF NamesHold
    <2>5. ASSUME NEW t \in 1 .. T, NEW q \in 1 .. n, NEW u \in 1 .. T, NEW r \in 1 .. n,
                 S[t][q] = S[u][r]
          PROVE  t = u /\ q = r
        <3>1. L + Place(t, q, n) = L + Place(u, r, n)
            <4> DEFINE j == L + Place(t, q, n)
                       k == L + Place(u, r, n)
            <4>1. S[t][q] = M.names[j] /\ j \in 1 .. L + T * n
                BY <1>5, <2>1
            <4>2. S[u][r] = M.names[k] /\ k \in 1 .. L + T * n
                BY <1>5, <2>1
            <4> HIDE DEF j, k
            <4>3. j = k
                BY <1>8, <2>5, <4>1, <4>2
            <4> QED BY <4>3 DEF j, k
        <3>2. Place(t, q, n) \in Nat /\ Place(u, r, n) \in Nat
            BY <2>2
        <3>3. Place(t, q, n) = Place(u, r, n)
            BY <1>3, <3>1, <3>2
        <3> QED BY <2>2, <3>3
    <2>6. NoneTwice(S)
        <3> SUFFICES ASSUME NEW t \in DOMAIN S, NEW u \in DOMAIN S,
                            NEW q \in DOMAIN S[t], NEW r \in DOMAIN S[u], S[t][q] = S[u][r]
                     PROVE  t = u /\ q = r
            BY DEF NoneTwice
        <3>1. t \in 1 .. T /\ q \in 1 .. n /\ u \in 1 .. T /\ r \in 1 .. n
            BY <2>a
        <3> QED BY <2>5, <3>1
    <2>7. ASSUME NEW t \in 1 .. T, NEW q \in 1 .. n
          PROVE  S[t][q] \notin DOMAIN m.values
        <3>1. Place(t, q, n) \in Nat /\ Place(t, q, n) > 0 /\ L + Place(t, q, n) \in 1 .. L + T * n
            BY <1>3, <2>2
        <3>2. \A k \in 1 .. L : k \in 1 .. L + T * n /\ k # L + Place(t, q, n)
            BY <1>3, <3>1
        <3> QED BY <1>7, <1>8, <2>1, <3>1, <3>2
    <2>8. ASSUME NEW x \in DOMAIN M.values, x \notin DOMAIN m.values
          PROVE  Gets(S, x)
        <3>1. PICK k \in 1 .. L + T * n : x = M.names[k]
            BY <1>7
        <3>2. k \notin 1 .. L
            BY <1>7, <2>8, <3>1
        <3>3. k - L \in 1 .. T * n
            BY <1>3, <3>2
        <3>4. PICK t \in 1 .. T, q \in 1 .. n : Place(t, q, n) = k - L
            BY <1>3, <3>3, PlaceExists, ZenonT(60)
        <3>5. L + Place(t, q, n) = k
            BY <1>3, <3>4
        <3>6. S[t][q] = x
            BY <2>1, <3>1, <3>5
        <3> QED BY <2>1, <3>6 DEF Gets
    <2>9. ASSUME NEW t \in DOMAIN S, NEW q \in DOMAIN S[t]
          PROVE  S[t][q] \notin DOMAIN m.values
        <3>1. t \in 1 .. T /\ q \in 1 .. n
            BY <2>a, <2>9
        <3> QED BY <2>7, <3>1
    <2> QED BY <1>2, <2>3, <2>4, <2>6, <2>8, <2>9 DEF Gives
<1> QED BY <1>9, <1>10

--------------------------------------------------------------------------------
(* The program shown *)

Shows    == [name : Name] \cup [literal : Values]
RuleLine == [targets : Seq(Seq(Name)), arguments : Seq(Shows)]
Plain    == [invariant : {TRUE}] \cup [teardown : {TRUE}]
Calls    == [rule : Rules, arguments : Seq(Values), values : Seq(Values), line : Nat]

LEMMA LineKinds ==
    /\ \A l \in RuleLine : "targets" \in DOMAIN l
    /\ \A l \in Plain : "targets" \notin DOMAIN l
<1>1. ASSUME NEW l \in RuleLine PROVE "targets" \in DOMAIN l
    BY DEF RuleLine
<1>2. ASSUME NEW l \in [invariant : {TRUE}] PROVE "targets" \notin DOMAIN l
    <2>1. DOMAIN l = {"invariant"}
        OBVIOUS
    <2> QED BY <2>1
<1>3. ASSUME NEW l \in [teardown : {TRUE}] PROVE "targets" \notin DOMAIN l
    <2>1. DOMAIN l = {"teardown"}
        OBVIOUS
    <2> QED BY <2>1
<1> QED BY <1>1, <1>2, <1>3 DEF Plain

\* What is shown of an argument is its value.
Fits(shown, value, held) ==
    IF "name" \in DOMAIN shown
    THEN shown.name \in DOMAIN held /\ held[shown.name] = value
    ELSE value \in Singletons /\ shown.literal = value

\* The lines of rules and the calls correspond, the names that are held are the
\* ones the lines assign, each by one place of one line, and the arguments shown
\* had been assigned before.
Trace(lines, made, held) ==
    /\ lines \in Seq(RuleLine \cup Plain) /\ made \in Seq(Calls)
    /\ \A i \in DOMAIN made : made[i].line \in DOMAIN lines /\ lines[made[i].line] \in RuleLine
    /\ \A k \in DOMAIN lines : lines[k] \in RuleLine => \E i \in DOMAIN made : made[i].line = k
    /\ \A i, j \in DOMAIN made : i < j => made[i].line < made[j].line
    /\ \A i \in DOMAIN made : NamesHold(lines[made[i].line].targets, made[i].values, held)
    /\ \A i \in DOMAIN made : NoneTwice(lines[made[i].line].targets)
    /\ \A x \in DOMAIN held : \E i \in DOMAIN made : Gets(lines[made[i].line].targets, x)
    /\ \A i, j \in DOMAIN made : \A x :
         Gets(lines[made[i].line].targets, x) /\ Gets(lines[made[j].line].targets, x) => i = j
    /\ \A i \in DOMAIN made :
         /\ DOMAIN lines[made[i].line].arguments = DOMAIN made[i].arguments
         /\ \A k \in DOMAIN made[i].arguments :
              LET shown == lines[made[i].line].arguments[k]
              IN  /\ Fits(shown, made[i].arguments[k], held)
                  /\ "name" \in DOMAIN shown =>
                       \E j \in 1 .. i - 1 : Gets(lines[made[j].line].targets, shown.name)

LEMMA TraceEmpty == Trace(<<>>, <<>>, <<>>)
<1>1. <<>> \in Seq(RuleLine \cup Plain) /\ <<>> \in Seq(Calls)
    OBVIOUS
<1>2. DOMAIN <<>> = {}
    OBVIOUS
<1> QED BY <1>1, <1>2 DEF Trace

\* Lines of invariants and of teardown change nothing.
LEMMA TracePlain ==
    ASSUME NEW lines, NEW made, NEW held, Trace(lines, made, held), NEW more \in Seq(Plain)
    PROVE  Trace(lines \o more, made, held)
<1> DEFINE now == lines \o more
<1>1. lines \in Seq(RuleLine \cup Plain) /\ more \in Seq(RuleLine \cup Plain)
    BY DEF Trace
<1>2. /\ now \in Seq(RuleLine \cup Plain) /\ Len(now) = Len(lines) + Len(more)
      /\ \A k \in 1 .. Len(lines) + Len(more) :
           now[k] = IF k <= Len(lines) THEN lines[k] ELSE more[k - Len(lines)]
    BY <1>1, ConcatProperties
<1> HIDE DEF now
<1>3. \A k \in DOMAIN lines : k \in DOMAIN now /\ now[k] = lines[k]
    BY <1>1, <1>2
<1>4. \A k \in DOMAIN now : now[k] \in RuleLine => k \in DOMAIN lines
    <2>1. ASSUME NEW k \in DOMAIN now, k \notin DOMAIN lines
          PROVE  now[k] \in Plain
        <3>1. Len(lines) \in Nat /\ Len(more) \in Nat /\ DOMAIN lines = 1 .. Len(lines)
            BY <1>1
        <3>2. k \in 1 .. Len(lines) + Len(more) /\ ~(k <= Len(lines))
            BY <1>2, <2>1, <3>1
        <3>3. now[k] = more[k - Len(lines)] /\ k - Len(lines) \in 1 .. Len(more)
            BY <1>2, <3>1, <3>2
        <3>4. \A j \in 1 .. Len(more) : more[j] \in Plain
            OBVIOUS
        <3> QED BY <3>3, <3>4
    <2> QED BY <2>1, LineKinds
<1>5. \A i \in DOMAIN made : made[i].line \in DOMAIN lines
    BY DEF Trace
<1>6. \A i \in DOMAIN made : now[made[i].line] = lines[made[i].line]
    BY <1>3, <1>5
<1>7. \A i \in DOMAIN made : \A j \in 1 .. i - 1 : j \in DOMAIN made
    BY DEF Trace
<1>8. \A i \in DOMAIN made : \A j \in 1 .. i - 1 : now[made[j].line] = lines[made[j].line]
    BY <1>6, <1>7
<1>9. \A i \in DOMAIN made : made[i].line \in DOMAIN now /\ now[made[i].line] \in RuleLine
    BY <1>3, <1>6 DEF Trace
<1>10. \A k \in DOMAIN now : now[k] \in RuleLine => \E i \in DOMAIN made : made[i].line = k
    BY <1>3, <1>4 DEF Trace
<1>11. ASSUME NEW i \in DOMAIN made
       PROVE  /\ NamesHold(now[made[i].line].targets, made[i].values, held)
              /\ NoneTwice(now[made[i].line].targets)
              /\ DOMAIN now[made[i].line].arguments = DOMAIN made[i].arguments
    BY <1>6 DEF Trace
<1>12. \A x \in DOMAIN held : \E i \in DOMAIN made : Gets(now[made[i].line].targets, x)
    BY <1>6 DEF Trace
<1>13. \A i, j \in DOMAIN made : \A x :
         Gets(now[made[i].line].targets, x) /\ Gets(now[made[j].line].targets, x) => i = j
    BY <1>6 DEF Trace
<1>14. ASSUME NEW i \in DOMAIN made, NEW k \in DOMAIN made[i].arguments,
              NEW shown, shown = now[made[i].line].arguments[k]
       PROVE  /\ Fits(shown, made[i].arguments[k], held)
              /\ "name" \in DOMAIN shown =>
                   \E j \in 1 .. i - 1 : Gets(now[made[j].line].targets, shown.name)
    <2>1. shown = lines[made[i].line].arguments[k]
        BY <1>6, <1>14
    <2>2. /\ Fits(shown, made[i].arguments[k], held)
          /\ "name" \in DOMAIN shown =>
               \E j \in 1 .. i - 1 : Gets(lines[made[j].line].targets, shown.name)
        BY <2>1 DEF Trace
    <2> QED BY <1>8, <2>2
<1>15. \A i, j \in DOMAIN made : i < j => made[i].line < made[j].line
    BY DEF Trace
<1>16. made \in Seq(Calls)
    BY DEF Trace
<1>17. \A i \in DOMAIN made :
         /\ DOMAIN now[made[i].line].arguments = DOMAIN made[i].arguments
         /\ \A k \in DOMAIN made[i].arguments :
              LET shown == now[made[i].line].arguments[k]
              IN  /\ Fits(shown, made[i].arguments[k], held)
                  /\ "name" \in DOMAIN shown =>
                       \E j \in 1 .. i - 1 : Gets(now[made[j].line].targets, shown.name)
    BY <1>11, <1>14
<1>18. /\ \A i \in DOMAIN made : NamesHold(now[made[i].line].targets, made[i].values, held)
       /\ \A i \in DOMAIN made : NoneTwice(now[made[i].line].targets)
    BY <1>11
<1>19. Trace(now, made, held)
    BY <1>2, <1>9, <1>10, <1>12, <1>13, <1>15, <1>16, <1>17, <1>18, Zenon DEF Trace
<1> QED BY <1>19 DEF now

\* A call shown with the names it assigns, its arguments being what they seem.
LEMMA TraceCall ==
    ASSUME NEW lines, NEW made, NEW held, Trace(lines, made, held),
           NEW heldNow, NEW targets, NEW values \in Seq(Values),
           Gives(held, heldNow, targets, values),
           NEW shown \in Seq(Shows), NEW arguments \in Seq(Values),
           DOMAIN shown = DOMAIN arguments,
           \A k \in DOMAIN arguments : Fits(shown[k], arguments[k], held),
           NEW r \in Rules,
           NEW line, line = [targets |-> targets, arguments |-> shown],
           NEW call, call = [rule |-> r, arguments |-> arguments, values |-> values,
                             line |-> Len(lines) + 1]
    PROVE  Trace(Append(lines, line), Append(made, call), heldNow)
<1> DEFINE now  == Append(lines, line)
           done == Append(made, call)
           N    == Len(lines) + 1
           P    == Len(made) + 1
           T(i) == lines[made[i].line].targets
           U(i) == now[done[i].line].targets
<1>1. lines \in Seq(RuleLine \cup Plain) /\ made \in Seq(Calls)
    BY DEF Trace
<1>2. targets \in Seq(Seq(Name))
    BY DEF Gives
<1>3. line \in RuleLine /\ line.targets = targets /\ line.arguments = shown
    BY <1>2 DEF RuleLine
<1>4. /\ N \in Nat /\ P \in Nat /\ N = Len(lines) + 1 /\ P = Len(made) + 1
      /\ DOMAIN lines = 1 .. N - 1 /\ DOMAIN made = 1 .. P - 1
      /\ Len(lines) \in Nat /\ Len(made) \in Nat
    BY <1>1
<1>5. /\ call \in Calls /\ call.line = N /\ call.values = values /\ call.arguments = arguments
    <2>1. Len(lines) + 1 \in Nat
        BY <1>4
    <2> QED BY <2>1 DEF Calls
<1>6. /\ now \in Seq(RuleLine \cup Plain) /\ DOMAIN now = 1 .. N /\ now[N] = line
      /\ \A k \in 1 .. N - 1 : now[k] = lines[k]
    BY <1>1, <1>3
<1>7. /\ done \in Seq(Calls) /\ DOMAIN done = 1 .. P /\ done[P] = call
      /\ \A i \in 1 .. P - 1 : done[i] = made[i]
    BY <1>1, <1>5
<1> HIDE DEF now, done, N, P
<1>8. 1 .. P = (1 .. P - 1) \cup {P} /\ P \notin 1 .. P - 1 /\ 1 .. N = (1 .. N - 1) \cup {N}
    BY <1>4
<1>9. \A i \in 1 .. P - 1 : made[i].line \in 1 .. N - 1 /\ lines[made[i].line] \in RuleLine
    BY <1>4 DEF Trace
<1>10. \A i \in 1 .. P - 1 : done[i] = made[i] /\ now[done[i].line] = lines[made[i].line]
    BY <1>6, <1>7, <1>9
<1>11. done[P] = call /\ now[done[P].line] = line
    BY <1>5, <1>6, <1>7
<1>12. /\ \A i \in 1 .. P - 1 : U(i) = T(i)
       /\ U(P) = targets
    BY <1>3, <1>10, <1>11
<1>13. /\ \A i \in 1 .. P - 1 : NamesHold(T(i), made[i].values, held)
       /\ \A i \in 1 .. P - 1 : NoneTwice(T(i))
       /\ \A x \in DOMAIN held : \E i \in 1 .. P - 1 : Gets(T(i), x)
       /\ \A i, j \in 1 .. P - 1 : \A x : Gets(T(i), x) /\ Gets(T(j), x) => i = j
    BY <1>4 DEF Trace
<1>14. Keeps(held, heldNow)
    BY DEF Gives
<1>15. \A i \in DOMAIN done : done[i].line \in DOMAIN now /\ now[done[i].line] \in RuleLine
    <2>1. \A i \in 1 .. P - 1 : done[i].line \in DOMAIN now /\ now[done[i].line] \in RuleLine
        BY <1>6, <1>8, <1>9, <1>10
    <2>2. done[P].line \in DOMAIN now /\ now[done[P].line] \in RuleLine
        BY <1>3, <1>5, <1>6, <1>8, <1>11
    <2> QED BY <1>7, <1>8, <2>1, <2>2
<1>16. ASSUME NEW k \in DOMAIN now, now[k] \in RuleLine
       PROVE  \E i \in DOMAIN done : done[i].line = k
    <2>1. CASE k = N
        BY <1>5, <1>7, <1>8, <2>1
    <2>2. CASE k # N
        <3>1. k \in 1 .. N - 1 /\ lines[k] \in RuleLine
            BY <1>6, <1>8, <1>16, <2>2
        <3>2. PICK i \in 1 .. P - 1 : made[i].line = k
            BY <1>4, <3>1 DEF Trace
        <3> QED BY <1>7, <1>8, <3>2
    <2> QED BY <2>1, <2>2
<1>17. ASSUME NEW i \in DOMAIN done, NEW j \in DOMAIN done, i < j
       PROVE  done[i].line < done[j].line
    <2>1. i \in 1 .. P - 1
        BY <1>4, <1>7, <1>17
    <2>2. CASE j = P
        <3>1. done[i].line \in 1 .. N - 1 /\ done[j].line = N
            BY <1>5, <1>7, <1>9, <2>1, <2>2
        <3> QED BY <1>4, <3>1
    <2>3. CASE j # P
        <3>1. j \in 1 .. P - 1
            BY <1>7, <1>8, <2>3
        <3>2. made[i].line < made[j].line
            BY <1>4, <1>17, <2>1, <3>1 DEF Trace
        <3> QED BY <1>7, <2>1, <3>1, <3>2
    <2> QED BY <2>2, <2>3
<1>18. ASSUME NEW i \in DOMAIN done
       PROVE  NamesHold(U(i), done[i].values, heldNow) /\ NoneTwice(U(i))
    <2>1. CASE i = P
        <3>1. U(i) = targets /\ done[i].values = values
            BY <1>5, <1>7, <1>12, <2>1
        <3> HIDE DEF U
        <3> QED BY <3>1 DEF Gives
    <2>2. CASE i # P
        <3>1. i \in 1 .. P - 1
            BY <1>7, <1>8, <2>2
        <3>2. U(i) = T(i) /\ done[i].values = made[i].values
            BY <1>7, <1>12, <3>1
        <3>3. NamesHold(T(i), made[i].values, held) /\ NoneTwice(T(i))
            BY <1>13, <3>1
        <3> HIDE DEF U, T
        <3>4. NamesHold(T(i), made[i].values, heldNow)
            BY <1>14, <3>3 DEF NamesHold, Keeps
        <3> QED BY <3>2, <3>3, <3>4
    <2> QED BY <2>1, <2>2
<1>19. ASSUME NEW x \in DOMAIN heldNow
       PROVE  \E i \in DOMAIN done : Gets(U(i), x)
    <2>1. x \in DOMAIN held \/ Gets(targets, x)
        BY DEF Gives
    <2>2. CASE x \in DOMAIN held
        <3>1. PICK i \in 1 .. P - 1 : Gets(T(i), x)
            BY <1>13, <2>2
        <3>2. Gets(U(i), x)
            <4>1. U(i) = T(i)
                BY <1>12
            <4> QED BY <3>1, <4>1
        <3> QED BY <1>7, <1>8, <3>2
    <2>3. CASE Gets(targets, x)
        <3>1. Gets(U(P), x)
            BY <1>12, <2>3
        <3> QED BY <1>7, <1>8, <3>1
    <2> QED BY <2>1, <2>2, <2>3
<1>20. \A i \in 1 .. P - 1 : \A x : Gets(T(i), x) => x \in DOMAIN held
    <2> HIDE DEF T
    <2> QED BY <1>13 DEF NamesHold, Gets
<1>21. \A x : Gets(targets, x) => x \notin DOMAIN held
    BY DEF Gives, Gets
<1>22. ASSUME NEW i \in DOMAIN done, NEW j \in DOMAIN done, NEW x, Gets(U(i), x), Gets(U(j), x)
       PROVE  i = j
    <2>1. CASE i = P /\ j # P
        <3>1. j \in 1 .. P - 1
            BY <1>7, <1>8, <2>1
        <3>2. U(i) = targets /\ U(j) = T(j)
            BY <1>12, <2>1, <3>1
        <3> HIDE DEF U, T
        <3> QED BY <1>20, <1>21, <1>22, <3>1, <3>2
    <2>2. CASE i # P /\ j = P
        <3>1. i \in 1 .. P - 1
            BY <1>7, <1>8, <2>2
        <3>2. U(j) = targets /\ U(i) = T(i)
            BY <1>12, <2>2, <3>1
        <3> HIDE DEF U, T
        <3> QED BY <1>20, <1>21, <1>22, <3>1, <3>2
    <2>3. CASE i # P /\ j # P
        <3>1. i \in 1 .. P - 1 /\ j \in 1 .. P - 1
            BY <1>7, <1>8, <2>3
        <3>2. U(j) = T(j) /\ U(i) = T(i)
            BY <1>12, <3>1
        <3> HIDE DEF U, T
        <3> QED BY <1>13, <1>22, <3>1, <3>2
    <2> QED BY <2>1, <2>2, <2>3
<1>23. ASSUME NEW i \in DOMAIN done
       PROVE  /\ DOMAIN now[done[i].line].arguments = DOMAIN done[i].arguments
              /\ \A k \in DOMAIN done[i].arguments :
                   LET s == now[done[i].line].arguments[k]
                   IN  /\ Fits(s, done[i].arguments[k], heldNow)
                       /\ "name" \in DOMAIN s => \E j \in 1 .. i - 1 : Gets(U(j), s.name)
    <2>1. ASSUME NEW s, NEW v, Fits(s, v, held)
          PROVE  Fits(s, v, heldNow)
        BY <1>14, <2>1 DEF Fits, Keeps
    <2>2. CASE i = P
        <3>1. now[done[i].line].arguments = shown /\ done[i].arguments = arguments
            BY <1>3, <1>5, <1>11, <2>2
        <3>2. ASSUME NEW k \in DOMAIN arguments, "name" \in DOMAIN shown[k]
              PROVE  \E j \in 1 .. i - 1 : Gets(U(j), shown[k].name)
            <4>1. shown[k].name \in DOMAIN held
                BY <3>2 DEF Fits
            <4>2. PICK j \in 1 .. P - 1 : Gets(T(j), shown[k].name)
                BY <1>13, <4>1
            <4>3. U(j) = T(j)
                BY <1>12
            <4> HIDE DEF U, T
            <4> QED BY <2>2, <4>2, <4>3
        <3>3. \A k \in DOMAIN arguments : Fits(shown[k], arguments[k], heldNow)
            BY <2>1
        <3> HIDE DEF U
        <3> QED BY <3>1, <3>2, <3>3
    <2>3. CASE i # P
        <3>1. i \in 1 .. P - 1
            BY <1>7, <1>8, <2>3
        <3>2. now[done[i].line].arguments = lines[made[i].line].arguments
                /\ done[i].arguments = made[i].arguments
            BY <1>10, <3>1
        <3>3. /\ DOMAIN lines[made[i].line].arguments = DOMAIN made[i].arguments
              /\ \A k \in DOMAIN made[i].arguments :
                   LET s == lines[made[i].line].arguments[k]
                   IN  /\ Fits(s, made[i].arguments[k], held)
                       /\ "name" \in DOMAIN s => \E j \in 1 .. i - 1 : Gets(T(j), s.name)
            BY <1>4, <3>1 DEF Trace
        <3>4. \A j \in 1 .. i - 1 : U(j) = T(j)
            <4>1. \A j \in 1 .. i - 1 : j \in 1 .. P - 1
                BY <1>4, <3>1
            <4> QED BY <1>12, <4>1
        <3> HIDE DEF U, T
        <3> QED BY <2>1, <3>2, <3>3, <3>4
    <2> QED BY <2>2, <2>3
<1>24. Trace(now, done, heldNow)
    <2>1. /\ \A i \in DOMAIN done : NamesHold(now[done[i].line].targets, done[i].values, heldNow)
          /\ \A i \in DOMAIN done : NoneTwice(now[done[i].line].targets)
          /\ \A x \in DOMAIN heldNow : \E i \in DOMAIN done : Gets(now[done[i].line].targets, x)
          /\ \A i, j \in DOMAIN done : \A x :
               Gets(now[done[i].line].targets, x) /\ Gets(now[done[j].line].targets, x) => i = j
        BY <1>18, <1>19, <1>22
    <2>2. \A i \in DOMAIN done :
              /\ DOMAIN now[done[i].line].arguments = DOMAIN done[i].arguments
              /\ \A k \in DOMAIN done[i].arguments :
                   LET s == now[done[i].line].arguments[k]
                   IN  /\ Fits(s, done[i].arguments[k], heldNow)
                       /\ "name" \in DOMAIN s =>
                            \E j \in 1 .. i - 1 : Gets(now[done[j].line].targets, s.name)
        BY <1>23
    <2>3. /\ \A k \in DOMAIN now : now[k] \in RuleLine => \E i \in DOMAIN done : done[i].line = k
          /\ \A i, j \in DOMAIN done : i < j => done[i].line < done[j].line
        BY <1>16, <1>17
    <2> QED BY <1>6, <1>7, <1>15, <2>1, <2>2, <2>3, Zenon DEF Trace
<1> QED BY <1>24 DEF now, done

\* The program shown then makes the calls that were made.
LEMMA TraceIsFaithful ==
    ASSUME CanShow => Trace(printed, calls, machine.values)
    PROVE  TraceReproduces
<1> SUFFICES ASSUME CanShow PROVE Trace(printed, calls, machine.values) => TraceReproduces
    BY DEF TraceReproduces
<1> SUFFICES ASSUME Trace(printed, calls, machine.values) PROVE TraceReproduces
    OBVIOUS
<1>1. printed \in Seq(RuleLine \cup Plain) /\ calls \in Seq(Calls)
    BY DEF Trace
<1>2. {k \in DOMAIN printed : "targets" \in DOMAIN printed[k]} = {calls[i].line : i \in DOMAIN calls}
    <2>1. \A k \in DOMAIN printed : printed[k] \in RuleLine \/ printed[k] \in Plain
        BY <1>1
    <2>2. \A k \in DOMAIN printed : "targets" \in DOMAIN printed[k] <=> printed[k] \in RuleLine
        BY <2>1, LineKinds
    <2>3. \A i \in DOMAIN calls : calls[i].line \in DOMAIN printed /\ printed[calls[i].line] \in RuleLine
        BY DEF Trace
    <2>4. \A k \in DOMAIN printed : printed[k] \in RuleLine => \E i \in DOMAIN calls : calls[i].line = k
        BY DEF Trace
    <2> QED BY <2>2, <2>3, <2>4
<1>3. \A i \in DOMAIN calls : \A p : p \in Places(i) <=>
         \E t \in DOMAIN Shown(i).targets : \E q \in DOMAIN Shown(i).targets[t] : p = <<t, q>>
    BY DEF Places
<1>4. \A i \in DOMAIN calls : \A x :
         Gets(Shown(i).targets, x) <=> \E p \in Places(i) : NameAt(i, p) = x
    <2> SUFFICES ASSUME NEW i \in DOMAIN calls, NEW x
                 PROVE  Gets(Shown(i).targets, x) <=> \E p \in Places(i) : NameAt(i, p) = x
        OBVIOUS
    <2>1. ASSUME Gets(Shown(i).targets, x)
          PROVE  \E p \in Places(i) : NameAt(i, p) = x
        <3>1. PICK t, q : t \in DOMAIN Shown(i).targets /\ q \in DOMAIN Shown(i).targets[t]
                        /\ Shown(i).targets[t][q] = x
            BY <2>1 DEF Gets
        <3>2. <<t, q>> \in Places(i) /\ NameAt(i, <<t, q>>) = x
            BY <1>3, <3>1 DEF NameAt
        <3> QED BY <3>2
    <2>2. ASSUME NEW p \in Places(i), NameAt(i, p) = x
          PROVE  Gets(Shown(i).targets, x)
        BY <1>3, <2>2 DEF NameAt, Gets
    <2> QED BY <2>1, <2>2
<1>5. \A i, j \in DOMAIN calls : i < j => calls[i].line < calls[j].line
    BY DEF Trace
<1>6. ASSUME NEW i \in DOMAIN calls, NEW j \in DOMAIN calls,
             NEW p \in Places(i), NEW o \in Places(j), NameAt(i, p) = NameAt(j, o)
      PROVE  i = j /\ p = o
    <2>1. Gets(Shown(i).targets, NameAt(i, p)) /\ Gets(Shown(j).targets, NameAt(i, p))
        BY <1>4, <1>6
    <2>2. i = j
        BY <2>1 DEF Trace, Shown
    <2>3. NoneTwice(Shown(i).targets)
        BY DEF Trace, Shown
    <2>4. PICK t, q : t \in DOMAIN Shown(i).targets /\ q \in DOMAIN Shown(i).targets[t]
                        /\ p = <<t, q>>
        BY <1>3
    <2>5. PICK u, r : u \in DOMAIN Shown(i).targets /\ r \in DOMAIN Shown(i).targets[u]
                        /\ o = <<u, r>>
        BY <1>3, <2>2
    <2>6. Shown(i).targets[t][q] = Shown(i).targets[u][r]
        BY <1>6, <2>2, <2>4, <2>5 DEF NameAt
    <2>7. t = u /\ q = r
        BY <2>2, <2>3, <2>4, <2>5, <2>6 DEF NoneTwice
    <2> QED BY <2>2, <2>4, <2>5, <2>7
<1>7. ASSUME NEW i \in DOMAIN calls, NEW k \in DOMAIN calls[i].arguments,
             NEW shown, shown = Shown(i).arguments[k], NEW value, value = calls[i].arguments[k]
      PROVE  IF "name" \in DOMAIN shown
             THEN \E j \in 1 .. i - 1 : \E p \in Places(j) :
                    NameAt(j, p) = shown.name /\ ValueAt(j, p) = value
             ELSE value \in Singletons /\ shown.literal = value
    <2>1. /\ Fits(shown, value, machine.values)
          /\ "name" \in DOMAIN shown =>
               \E j \in 1 .. i - 1 : Gets(Shown(j).targets, shown.name)
        BY <1>7 DEF Trace, Shown
    <2>2. CASE "name" \in DOMAIN shown
        <3>1. PICK j \in 1 .. i - 1 : Gets(Shown(j).targets, shown.name)
            BY <2>1, <2>2
        <3>2. j \in DOMAIN calls
            BY <1>1
        <3>3. PICK p \in Places(j) : NameAt(j, p) = shown.name
            BY <1>4, <3>1, <3>2
        <3>4. NamesHold(Shown(j).targets, calls[j].values, machine.values)
            BY <3>2 DEF Trace, Shown
        <3>5. PICK t, q : t \in DOMAIN Shown(j).targets /\ q \in DOMAIN Shown(j).targets[t]
                        /\ p = <<t, q>>
            BY <1>3, <3>2
        <3>6. machine.values[shown.name] = ValueAt(j, p)
            BY <3>3, <3>4, <3>5 DEF NamesHold, NameAt, ValueAt
        <3>7. ValueAt(j, p) = value
            BY <2>1, <2>2, <3>6 DEF Fits
        <3> QED BY <2>2, <3>3, <3>7
    <2>3. CASE "name" \notin DOMAIN shown
        BY <2>1, <2>3 DEF Fits
    <2> QED BY <2>2, <2>3
<1>8. \A i \in DOMAIN calls : DOMAIN Shown(i).arguments = DOMAIN calls[i].arguments
    BY DEF Trace, Shown
<1>9. \A i, j \in DOMAIN calls :
        /\ i < j => calls[i].line < calls[j].line
        /\ \A p \in Places(i), o \in Places(j) : NameAt(i, p) = NameAt(j, o) => i = j /\ p = o
    BY <1>5, <1>6
<1>10. \A i \in DOMAIN calls :
         /\ DOMAIN Shown(i).arguments = DOMAIN calls[i].arguments
         /\ \A k \in DOMAIN calls[i].arguments :
              LET shown == Shown(i).arguments[k]
                  value == calls[i].arguments[k]
              IN  IF "name" \in DOMAIN shown
                  THEN \E j \in 1 .. i - 1 : \E p \in Places(j) :
                         NameAt(j, p) = shown.name /\ ValueAt(j, p) = value
                  ELSE value \in Singletons /\ shown.literal = value
    BY <1>7, <1>8
<1> QED BY <1>2, <1>9, <1>10 DEF TraceReproduces

--------------------------------------------------------------------------------
(* What the steps do to the machine *)

LEMMA SoundNew == Sound(NewMachine) /\ NewMachine.values = <<>>
<1>1. NewMachine \in Machine
    <2>1. <<>> \in Partial(Name, Values) /\ <<>> \in Partial(Values, Name)
        <3>1. <<>> \in [{} -> Values] /\ <<>> \in [{} -> Name]
            OBVIOUS
        <3> QED BY <3>1 DEF Partial
    <2>2. /\ [b \in Bundles |-> <<>>] \in [Bundles -> Seq(Name)]
          /\ [b \in Bundles |-> 0] \in [Bundles -> Nat]
          /\ <<>> \in Seq(Name)
          /\ {r \in Rules : r.initialize} \in SUBSET {r \in Rules : r.initialize}
        OBVIOUS
    <2> QED BY <2>1, <2>2 DEF NewMachine, Machine
<1>2. /\ NewMachine.values = <<>> /\ NewMachine.names = <<>> /\ NewMachine.printers = <<>>
      /\ NewMachine.bundles = [b \in Bundles |-> <<>>]
    BY DEF NewMachine
<1>3. DOMAIN <<>> = {}
    OBVIOUS
<1>4. \A b \in Bundles : DOMAIN NewMachine.bundles[b] = {}
    BY <1>2, <1>3
<1> QED BY <1>1, <1>2, <1>3, <1>4 DEF Sound

\* A machine whose bundles hold only names given, its initializers aside, is sound.
LEMMA SoundOther ==
    ASSUME NEW m, Sound(m), NEW M \in Machine,
           M.counters = m.counters, M.names = m.names, M.values = m.values,
           M.printers = m.printers,
           \A b \in Bundles : \A i \in DOMAIN M.bundles[b] : M.bundles[b][i] \in DOMAIN m.values
    PROVE  Sound(M)
BY DEF Sound

LEMMA StruckOff ==
    ASSUME NEW m, Sound(m), NEW r, NEW M, M = [m EXCEPT !.initializers = @ \ {r}]
    PROVE  Sound(M) /\ M.values = m.values
<1>1. m \in Machine
    BY DEF Sound
<1>2. /\ M \in Machine /\ M.counters = m.counters /\ M.names = m.names /\ M.values = m.values
      /\ M.printers = m.printers /\ M.bundles = m.bundles
    BY <1>1 DEF Machine
<1>3. \A b \in Bundles : \A i \in DOMAIN M.bundles[b] : M.bundles[b][i] \in DOMAIN m.values
    BY <1>2 DEF Sound
<1> QED BY <1>2, <1>3, SoundOther

LEMMA Removed ==
    ASSUME NEW S, NEW s \in Seq(S), NEW i \in DOMAIN s
    PROVE  RemoveAt(s, i) \in Seq(S)
<1>1. i \in 1 .. Len(s) /\ Len(s) \in Nat /\ \A k \in 1 .. Len(s) : s[k] \in S
    OBVIOUS
<1> DEFINE a == i - 1
           b == i + 1
           c == Len(s)
<1>2. a \in Int /\ b \in Int /\ c \in Int /\ 1 \in Int
    BY <1>1
<1>3. \A k \in 1 .. a : s[k] \in S
    BY <1>1
<1>4. \A k \in b .. c : s[k] \in S
    BY <1>1
<1>5. RemoveAt(s, i) = SubSeq(s, 1, a) \o SubSeq(s, b, c)
    BY DEF RemoveAt
<1> HIDE DEF a, b, c
<1>6. SubSeq(s, 1, a) \in Seq(S)
    BY <1>2, <1>3, SubSeqProperties
<1>7. SubSeq(s, b, c) \in Seq(S)
    BY <1>2, <1>4, SubSeqProperties
<1> QED BY <1>5, <1>6, <1>7, ConcatProperties

LEMMA Consumed ==
    ASSUME NEW m, Sound(m), NEW b \in Bundles, NEW i \in DOMAIN m.bundles[b],
           NEW M, M = [m EXCEPT !.bundles[b] = RemoveAt(@, i)]
    PROVE  Sound(M) /\ M.values = m.values
<1>1. m \in Machine /\ m.bundles \in [Bundles -> Seq(Name)]
    BY DEF Sound, Machine
<1> DEFINE Given == {x \in Name : x \in DOMAIN m.values}
           s     == m.bundles[b]
           u     == RemoveAt(s, i)
<1>2. s \in Seq(Given)
    <2>1. s \in Seq(Name) /\ \A k \in DOMAIN s : s[k] \in DOMAIN m.values
        BY <1>1 DEF Sound
    <2>2. Len(s) \in Nat /\ s \in [1 .. Len(s) -> Given]
        BY <2>1
    <2> HIDE DEF s, Given
    <2> QED BY <2>2
<1>3. u \in Seq(Given)
    <2> HIDE DEF Given
    <2> QED BY <1>2, Removed
<1> HIDE DEF u
<1>4. u \in Seq(Name) /\ \A k \in DOMAIN u : u[k] \in DOMAIN m.values
    BY <1>3
<1>5. /\ M.counters = m.counters /\ M.names = m.names /\ M.values = m.values
      /\ M.printers = m.printers /\ M.initializers = m.initializers
      /\ M.bundles = [m.bundles EXCEPT ![b] = u]
    BY <1>1 DEF Machine, u
<1>6. M.bundles \in [Bundles -> Seq(Name)]
    BY <1>1, <1>4, <1>5
<1>7. M \in Machine
    <2>1. M = [m EXCEPT !.bundles = M.bundles]
        BY <1>1, <1>5 DEF Machine, u
    <2> QED BY <1>1, <1>6, <2>1 DEF Machine
<1>8. \A c \in Bundles : \A k \in DOMAIN M.bundles[c] : M.bundles[c][k] \in DOMAIN m.values
    <2> SUFFICES ASSUME NEW c \in Bundles, NEW k \in DOMAIN M.bundles[c]
                 PROVE  M.bundles[c][k] \in DOMAIN m.values
        OBVIOUS
    <2>1. CASE c = b
        BY <1>1, <1>4, <1>5, <2>1
    <2>2. CASE c # b
        BY <1>1, <1>5, <2>2 DEF Sound
    <2> QED BY <2>1, <2>2
<1> QED BY <1>5, <1>7, <1>8, SoundOther

--------------------------------------------------------------------------------
(* The invariant *)

Holding ==
    /\ Sound(machine)
    /\ pc = "arguments" => rule \in Rules
    /\ argdata \in Seq([value : Values, shown : Shows])
    /\ \A k \in DOMAIN argdata : Fits(argdata[k].shown, argdata[k].value, machine.values)

Showing == CanShow => Trace(printed, calls, machine.values)

\* The flag is on a definition found flaky while selecting, and on another only
\* from teardown or before an ordinary rule was selected.
FlagIsTrue(error) ==
    error.kind = "flaky" =>
        /\ error.at = "select" => selecting_rule
        /\ is_final /\ selecting_rule => error.at \in {"select", "teardown"} \/ Initializing

Running  == {"factory", "invariants", "loop", "select", "arguments"}
Unnoted  == {"teardown", "factory"}

Telling ==
    /\ pc \in Running => body = None /\ attached = <<>>
    /\ pc = "arguments" => rule.initialize \/ ~selecting_rule
    /\ pc = "teardown" => /\ attached = <<>>
                          /\ body # None => body.at \notin Unnoted /\ FlagIsTrue(body)
    /\ (pc \in {"ended", "done"} /\ is_final /\ Failing(body)) =>
          /\ FlagIsTrue(body)
          /\ attached # <<>> => Last(attached) = [teardown |-> TRUE] /\ body.at \notin Unnoted
          /\ attached = <<>> => body.at \in Unnoted
    /\ (pc = "done" /\ reported # None) => is_final /\ reported = Outcome

\* In a replay each step but the one going on has called a rule.
Counting ==
    /\ pc \in {"factory", "invariants", "loop"} => steps_run = Len(calls)
    /\ pc \in {"select", "arguments"} => steps_run = Len(calls) + 1
    /\ pc \in {"loop", "select"} => rule = None

\* The flag is up because an earlier example left it so or the selection failed.
Marked == selecting_rule => Initializing \/ (pc \notin Running /\ SelectionFailed)

Flag == is_final => Counting /\ Marked

Inv == Holding /\ Showing /\ Telling /\ Flag

LEMMA InitInv == Init => Inv
<1> SUFFICES ASSUME Init PROVE Inv
    OBVIOUS
<1>1. Sound(machine) /\ machine.values = <<>>
    BY SoundNew DEF Init
<1>2. Holding
    <2>1. argdata = <<>> /\ pc = "factory"
        BY DEF Init
    <2> QED BY <1>1, <2>1 DEF Holding
<1>3. Showing
    <2>1. printed = <<>> /\ calls = <<>>
        BY DEF Init
    <2> QED BY <1>1, <2>1, TraceEmpty DEF Showing
<1>4. Telling
    BY DEF Init, Telling
<1>5. Flag
    BY DEF Init, Flag
<1> QED BY <1>2, <1>3, <1>4, <1>5 DEF Inv

\* An example begins with nothing.
LEMMA BeginInv ==
    ASSUME NEW final, Begin(final) PROVE Inv'
<1>1. Sound(machine)' /\ machine'.values = <<>>
    <2>1. machine' = NewMachine
        BY DEF Begin
    <2> QED BY <2>1, SoundNew
<1>2. Holding'
    <2>1. argdata' = <<>> /\ pc' = "factory"
        BY DEF Begin
    <2> QED BY <1>1, <2>1 DEF Holding
<1>3. Showing'
    <2>1. printed' = <<>> /\ calls' = <<>>
        BY DEF Begin
    <2> QED BY <1>1, <2>1, TraceEmpty DEF Showing
<1>4. Telling'
    <2>1. pc' = "factory" /\ body' = None /\ attached' = <<>>
        BY DEF Begin
    <2> QED BY <2>1 DEF Telling
<1>5. Flag'
    <2>1. pc' = "factory" /\ rule' = None /\ steps_run' = 0 /\ calls' = <<>>
        BY DEF Begin
    <2>2. Len(<<>>) = 0 /\ DOMAIN <<>> = {}
        OBVIOUS
    <2>3. Initializing'
        BY <2>1, <2>2 DEF Initializing
    <2> QED BY <2>1, <2>2, <2>3 DEF Flag, Counting, Marked
<1> QED BY <1>2, <1>3, <1>4, <1>5 DEF Inv

--------------------------------------------------------------------------------
(* The steps *)

\* What is shown and held is the same unless a step changes it.
LEMMA ShowingSame ==
    ASSUME Showing, UNCHANGED <<printed, calls, is_final>>, machine'.values = machine.values
    PROVE  Showing'
BY DEF Showing, CanShow

\* While the example runs the flag is up only as an earlier example left it.
LEMMA UpBefore ==
    ASSUME Inv, pc \in Running, is_final, selecting_rule
    PROVE  Initializing
BY DEF Inv, Flag, Marked

\* An error met where no rule is being selected ends the example.
LEMMA RaisedInv ==
    ASSUME Inv, pc \in Running, pc' = "teardown", UNCHANGED <<attached, is_final, selecting_rule>>,
           Initializing => Initializing', NEW kind, NEW at,
           at \notin {"select", "teardown", "factory"}, body' = Error(kind, at)
    PROVE  Telling' /\ Flag'
<1>1. attached' = <<>>
    BY DEF Inv, Telling
<1>2. is_final /\ selecting_rule => Initializing'
    BY UpBefore
<1>3. body'.at \notin Unnoted /\ FlagIsTrue(body)'
    BY <1>2 DEF Error, FlagIsTrue, Unnoted
<1>4. Telling'
    BY <1>1, <1>3 DEF Telling, Running
<1>5. Flag'
    BY <1>2 DEF Flag, Counting, Marked
<1> QED BY <1>4, <1>5

LEMMA ConstructInv == Inv /\ Construct => Inv'
<1> SUFFICES ASSUME Inv, Construct PROVE Inv'
    OBVIOUS
<1>1. /\ pc = "factory" /\ pc' \in {"invariants", "ended"}
      /\ UNCHANGED <<machine, steps_run, rule, argdata, printed, calls, attached, is_final, selecting_rule>>
    BY DEF Construct, run
<1>2. body = None /\ attached = <<>>
    BY <1>1 DEF Inv, Telling, Running
<1>3. Holding' /\ Showing'
    BY <1>1, ShowingSame DEF Inv, Holding
<1>4. is_final /\ selecting_rule => Initializing
    BY <1>1, UpBefore DEF Running
<1>5. Initializing' <=> Initializing
    BY <1>1 DEF Initializing
<1>6. Flag'
    BY <1>1, <1>4, <1>5 DEF Inv, Flag, Counting, Marked
<1>7. Telling'
    <2>1. CASE pc' = "invariants" /\ body' = body
        BY <1>1, <1>2, <2>1 DEF Telling
    <2>2. ASSUME NEW kind, pc' = "ended", body' = Error(kind, "factory")
          PROVE  Telling'
        <3>1. body'.at = "factory" /\ FlagIsTrue(body)'
            BY <1>1, <1>4, <1>5, <2>2 DEF Error, FlagIsTrue
        <3> QED BY <1>1, <1>2, <2>2, <3>1 DEF Telling, Running, Unnoted
    <2> QED BY <2>1, <2>2 DEF Construct
<1> QED BY <1>3, <1>6, <1>7 DEF Inv

LEMMA CheckInvariantsInv == Inv /\ CheckInvariants => Inv'
<1> SUFFICES ASSUME Inv, CheckInvariants PROVE Inv'
    OBVIOUS
<1>1. pc = "invariants" /\ UNCHANGED <<machine, calls, attached, is_final, selecting_rule>>
    BY DEF CheckInvariants, run
<1>2. Holding'
    <2>1. argdata' = <<>> /\ pc' # "arguments"
        BY DEF CheckInvariants, Raise
    <2>2. Sound(machine)'
        BY <1>1 DEF Inv, Holding
    <2> QED BY <2>1, <2>2 DEF Holding
<1>3. Showing'
    <2> SUFFICES ASSUME CanShow PROVE Trace(printed', calls', machine'.values)
        BY <1>1 DEF Showing, CanShow
    <2>1. PICK held \in SUBSET {i \in DOMAIN Invariants : Invariants[i].conditional} :
            LET run_ == {i \in DOMAIN Invariants : Applicable(i) /\ (Invariants[i].conditional => i \in held)}
                Lines(upto) == [j \in 1 .. Cardinality({i \in run_ : i <= upto}) |-> [invariant |-> TRUE]]
            IN  \/ printed' = printed \o Lines(Len(Invariants))
                \/ \E failed \in run_ : printed' = printed \o Lines(failed)
                \/ \E i \in DOMAIN Invariants : printed' = printed \o Lines(i - 1)
        BY DEF CheckInvariants
    <2> DEFINE run_ == {i \in DOMAIN Invariants : Applicable(i) /\ (Invariants[i].conditional => i \in held)}
               size(upto) == Cardinality({i \in run_ : i <= upto})
    <2>2. ASSUME NEW upto
          PROVE  size(upto) \in Nat
        <3>1. IsFiniteSet(1 .. Len(Invariants)) /\ DOMAIN Invariants = 1 .. Len(Invariants)
            <4>1. Len(Invariants) \in Nat /\ DOMAIN Invariants = 1 .. Len(Invariants)
                BY StatefulAssumption
            <4> QED BY <4>1, FS_Interval
        <3>2. {i \in run_ : i <= upto} \in SUBSET (1 .. Len(Invariants))
            BY <3>1
        <3> QED BY <3>1, <3>2, FS_Subset, FS_CardinalityType
    <2>3. PICK upto : printed' = printed \o [j \in 1 .. size(upto) |-> [invariant |-> TRUE]]
        BY <2>1
    <2> HIDE DEF size
    <2>4. [j \in 1 .. size(upto) |-> [invariant |-> TRUE]] \in Seq(Plain)
        <3>1. [invariant |-> TRUE] \in Plain
            BY DEF Plain
        <3>2. \A c \in Plain : \A N \in Nat : [j \in 1 .. N |-> c] \in Seq(Plain)
            OBVIOUS
        <3> QED BY <2>2, <3>1, <3>2
    <2>5. Trace(printed, calls, machine.values)
        BY DEF Inv, Showing
    <2>6. Trace(printed', calls, machine.values)
        BY <2>3, <2>4, <2>5, TracePlain
    <2> QED BY <1>1, <2>6
<1>4. Initializing => Initializing'
    <2>1. rule' = None /\ calls' = calls
        BY DEF CheckInvariants
    <2> QED BY <2>1 DEF Initializing
<1>5. \/ pc' = "loop" /\ body' = body
      \/ \E kind : pc' = "teardown" /\ body' = Error(kind, "invariant")
    BY DEF CheckInvariants, Raise
<1>6. CASE pc' = "loop" /\ body' = body
    <2>1. body = None /\ attached = <<>>
        BY <1>1 DEF Inv, Telling, Running
    <2>2. Telling'
        BY <1>1, <1>6, <2>1 DEF Telling
    <2>3. rule' = None /\ steps_run' = steps_run /\ calls' = calls
        BY DEF CheckInvariants
    <2>4. is_final /\ selecting_rule => Initializing'
        BY <1>1, <1>4, UpBefore DEF Running
    <2>5. is_final => steps_run = Len(calls)
        BY <1>1 DEF Inv, Flag, Counting
    <2>6. Flag'
        BY <1>1, <1>6, <2>3, <2>4, <2>5 DEF Flag, Counting, Marked
    <2> QED BY <1>2, <1>3, <2>2, <2>6 DEF Inv
<1>7. ASSUME NEW kind, pc' = "teardown", body' = Error(kind, "invariant")
      PROVE  Inv'
    <2>1. Telling' /\ Flag'
        BY <1>1, <1>4, <1>7, RaisedInv DEF Running
    <2> QED BY <1>2, <1>3, <2>1 DEF Inv
<1> QED BY <1>5, <1>6, <1>7

LEMMA DrawStopInv == Inv /\ DrawStop => Inv'
<1> SUFFICES ASSUME Inv, DrawStop PROVE Inv'
    OBVIOUS
<1>1. /\ pc = "loop"
      /\ UNCHANGED <<machine, argdata, printed, calls, attached, is_final, selecting_rule>>
    BY DEF DrawStop, run
<1>2. pc' \in {"teardown", "select"}
    BY DEF DrawStop, Raise
<1>3. Holding'
    BY <1>1, <1>2 DEF Inv, Holding
<1>4. Showing'
    BY <1>1, ShowingSame DEF Inv
<1>5. body = None /\ attached = <<>> /\ rule' = rule
    BY <1>1 DEF Inv, Telling, Running, DrawStop
<1>6. Initializing' <=> Initializing
    BY <1>1, <1>5 DEF Initializing
<1>7. CASE body' = body
    <2>1. Telling'
        BY <1>1, <1>2, <1>5, <1>7 DEF Telling, Running
    <2>2. pc' = "select" => steps_run' = steps_run + 1
        BY <1>1, <1>5 DEF DrawStop, Raise
    <2>3. is_final => steps_run = Len(calls) /\ rule = None
        BY <1>1 DEF Inv, Flag, Counting
    <2>4. is_final /\ selecting_rule => Initializing'
        BY <1>1, <1>6, UpBefore DEF Running
    <2>5. Flag'
        BY <1>1, <1>2, <1>5, <2>2, <2>3, <2>4 DEF Flag, Counting, Marked
    <2> QED BY <1>3, <1>4, <2>1, <2>5 DEF Inv
<1>8. CASE pc' = "teardown" /\ body' = Overrun
    <2>1. Telling' /\ Flag'
        BY <1>1, <1>6, <1>8, RaisedInv DEF Running, Overrun
    <2> QED BY <1>3, <1>4, <2>1 DEF Inv
<1> QED BY <1>7, <1>8 DEF DrawStop, Raise

LEMMA SelectInitializerInv == Inv /\ SelectInitializer => Inv'
<1> SUFFICES ASSUME Inv, SelectInitializer PROVE Inv'
    OBVIOUS
<1>1. pc = "select" /\ UNCHANGED <<argdata, printed, calls, attached, is_final, selecting_rule>>
    BY DEF SelectInitializer, run
<1>2. body = None /\ attached = <<>> /\ Sound(machine)
    BY <1>1 DEF Inv, Telling, Holding, Running
<1>3. CASE /\ pc' = "arguments" /\ body' = body
           /\ \E r \in machine.initializers :
                rule' = r /\ machine' = [machine EXCEPT !.initializers = @ \ {r}]
    <2>1. PICK r \in machine.initializers :
            rule' = r /\ machine' = [machine EXCEPT !.initializers = @ \ {r}]
        BY <1>3
    <2>2. Sound(machine') /\ machine'.values = machine.values
        BY <1>2, <2>1, StruckOff
    <2>3. r \in Rules /\ r.initialize
        BY <1>2 DEF Sound, Machine
    <2>4. Holding'
        BY <1>1, <2>1, <2>2, <2>3 DEF Inv, Holding
    <2>5. Showing'
        BY <1>1, <2>2, ShowingSame DEF Inv
    <2>6. Telling'
        BY <1>1, <1>2, <1>3, <2>1, <2>3 DEF Telling
    <2>7. steps_run' = steps_run /\ calls' = calls
        BY <1>1 DEF SelectInitializer
    <2>8. is_final /\ selecting_rule => Initializing'
        <3>1. Initializing => Initializing'
            BY <2>1, <2>3, <2>7 DEF Initializing
        <3> QED BY <1>1, <3>1, UpBefore DEF Running
    <2>9. is_final => steps_run = Len(calls) + 1
        BY <1>1 DEF Inv, Flag, Counting
    <2>10. Flag'
        BY <1>1, <1>3, <2>7, <2>8, <2>9 DEF Flag, Counting, Marked
    <2> QED BY <2>4, <2>5, <2>6, <2>10 DEF Inv
<1>4. CASE pc' = "teardown" /\ body' = Overrun /\ UNCHANGED <<rule, machine>>
    <2>1. Holding' /\ Showing'
        BY <1>1, <1>4, ShowingSame DEF Inv, Holding
    <2>2. Initializing => Initializing'
        BY <1>1, <1>4 DEF Initializing
    <2>3. Telling' /\ Flag'
        BY <1>1, <1>4, <2>2, RaisedInv DEF Running, Overrun
    <2> QED BY <2>1, <2>3 DEF Inv
<1> QED BY <1>3, <1>4 DEF SelectInitializer, Raise

LEMMA SelectRuleInv == Inv /\ SelectRule => Inv'
<1> SUFFICES ASSUME Inv, SelectRule PROVE Inv'
    OBVIOUS
<1>1. pc = "select" /\ UNCHANGED <<machine, argdata, printed, calls, attached, is_final>>
    BY DEF SelectRule, run
<1>2. body = None /\ attached = <<>>
    BY <1>1 DEF Inv, Telling, Running
<1>3. Showing'
    BY <1>1, ShowingSame DEF Inv
<1>4. \/ pc' = "arguments" /\ body' = body /\ rule' \in Rules /\ ~selecting_rule'
      \/ \E kind : pc' = "teardown" /\ body' = Error(kind, "select") /\ selecting_rule' /\ rule' = rule
      \/ pc' = "teardown" /\ body' = Overrun /\ selecting_rule' /\ rule' = rule
    BY DEF SelectRule, Selecting, Raise
<1>5. steps_run' = steps_run /\ calls' = calls
    BY DEF SelectRule
<1>6. is_final => steps_run = Len(calls) + 1 /\ rule = None
    BY <1>1 DEF Inv, Flag, Counting
<1>7. CASE pc' = "arguments" /\ body' = body /\ rule' \in Rules /\ ~selecting_rule'
    <2>1. Holding'
        BY <1>1, <1>7 DEF Inv, Holding
    <2>2. Telling'
        BY <1>1, <1>2, <1>7 DEF Telling
    <2>3. Flag'
        BY <1>1, <1>5, <1>6, <1>7 DEF Flag, Counting, Marked
    <2> QED BY <1>3, <2>1, <2>2, <2>3 DEF Inv
<1>8. ASSUME pc' = "teardown", body'.at \notin Unnoted, FlagIsTrue(body)', rule' = rule
      PROVE  Inv'
    <2>1. Holding'
        BY <1>1, <1>8 DEF Inv, Holding
    <2>2. Telling'
        BY <1>1, <1>2, <1>8 DEF Telling, Running
    <2>3. ASSUME is_final
          PROVE  SelectionFailed'
        <3>1. calls \in Seq(Calls)
            BY <2>3 DEF Inv, Showing, Trace, CanShow
        <3>2. Len(calls) \in Nat
            BY <3>1
        <3>3. steps_run' > Len(calls')
            BY <1>5, <1>6, <2>3, <3>2
        <3> QED BY <1>6, <1>8, <2>3, <3>3 DEF SelectionFailed
    <2>4. Flag'
        BY <1>1, <1>8, <2>3 DEF Flag, Counting, Marked, Running
    <2> QED BY <1>3, <2>1, <2>2, <2>4 DEF Inv
<1>9. ASSUME NEW kind, pc' = "teardown", body' = Error(kind, "select"), selecting_rule', rule' = rule
      PROVE  Inv'
    BY <1>8, <1>9 DEF Error, FlagIsTrue, Unnoted
<1>10. CASE pc' = "teardown" /\ body' = Overrun /\ rule' = rule
    BY <1>8, <1>10 DEF Error, Overrun, FlagIsTrue, Unnoted
<1> QED BY <1>4, <1>7, <1>9, <1>10

\* An argument drawn from a bundle is shown as what it is.
LEMMA ArgumentFits ==
    ASSUME NEW m, Sound(m), NEW x \in DOMAIN m.values, NEW reference,
           NEW shown, shown = IF reference THEN [name |-> x] ELSE PrettyPrint(m, m.values[x])
    PROVE  /\ m.values[x] \in Values /\ shown \in Shows
           /\ Fits(shown, m.values[x], m.values)
<1>1. m.values \in Partial(Name, Values) /\ m.printers \in Partial(Values, Name)
    BY DEF Sound, Machine
<1>2. x \in Name /\ m.values[x] \in Values
    BY <1>1, PartialFacts
<1> DEFINE v == m.values[x]
<1>3. v \in Singletons \cup DOMAIN m.printers
    BY DEF Sound
<1>4. v \in DOMAIN m.printers =>
        m.printers[v] \in DOMAIN m.values /\ m.values[m.printers[v]] = v /\ m.printers[v] \in Name
    <2>1. v \in DOMAIN m.printers => m.printers[v] \in Name
        BY <1>1, PartialFacts
    <2> QED BY <2>1 DEF Sound
<1> HIDE DEF v
<1>5. ASSUME NEW y \in Name, y \in DOMAIN m.values, m.values[y] = v, shown = [name |-> y]
      PROVE  shown \in Shows /\ Fits(shown, v, m.values)
    BY <1>5 DEF Shows, Fits
<1>6. ASSUME v \in Singletons, shown = [literal |-> v]
      PROVE  shown \in Shows /\ Fits(shown, v, m.values)
    <2>1. DOMAIN shown = {"literal"} /\ shown.literal = v
        BY <1>6
    <2>2. "name" \notin DOMAIN shown
        BY <2>1
    <2>3. v \in Values
        BY <1>6 DEF Values
    <2> QED BY <1>6, <2>1, <2>2, <2>3 DEF Shows, Fits
<1>7. CASE reference
    BY <1>2, <1>5, <1>7 DEF v
<1>8. CASE ~reference /\ v \in DOMAIN m.printers
    <2>1. shown = [name |-> m.printers[v]]
        BY <1>8 DEF PrettyPrint, v
    <2> QED BY <1>2, <1>4, <1>5, <1>8, <2>1 DEF v
<1>9. CASE ~reference /\ v \notin DOMAIN m.printers
    <2>1. shown = [literal |-> v]
        BY <1>9, SMTT(30) DEF PrettyPrint, v
    <2> QED BY <1>2, <1>3, <1>6, <1>9, <2>1 DEF v
<1> QED BY <1>7, <1>8, <1>9

LEMMA DrawArgumentInv == Inv /\ DrawArgument => Inv'
<1> SUFFICES ASSUME Inv, DrawArgument PROVE Inv'
    OBVIOUS
<1> DEFINE argument == rule.arguments[Len(argdata) + 1]
           b        == machine.bundles[argument.bundle]
<1>1. /\ pc = "arguments" /\ Len(argdata) < Len(rule.arguments)
      /\ UNCHANGED <<rule, printed, calls, attached, is_final, selecting_rule>>
    BY DEF DrawArgument, run
<1>2. /\ body = None /\ attached = <<>> /\ Sound(machine) /\ rule \in Rules
      /\ argdata \in Seq([value : Values, shown : Shows])
      /\ rule.initialize \/ ~selecting_rule
    BY <1>1 DEF Inv, Telling, Holding, Running
<1>3. argument.bundle \in Bundles
    <2>1. rule.arguments \in Seq([bundle : Bundles, consume : BOOLEAN, reference : BOOLEAN])
        BY <1>2, StatefulAssumption
    <2>2. Len(argdata) + 1 \in 1 .. Len(rule.arguments)
        BY <1>1, <1>2, <2>1
    <2>3. argument \in [bundle : Bundles, consume : BOOLEAN, reference : BOOLEAN]
        BY <2>1, <2>2, ElementOfSeq
    <2> QED BY <2>3
<1>4. \/ /\ \E position \in DOMAIN b :
              /\ argdata' = Append(argdata,
                    [value |-> machine.values[b[position]],
                     shown |-> IF argument.reference THEN [name |-> b[position]]
                               ELSE PrettyPrint(machine, machine.values[b[position]])])
              /\ machine' = IF argument.consume
                            THEN [machine EXCEPT !.bundles[argument.bundle] = RemoveAt(@, position)]
                            ELSE machine
         /\ pc' = pc /\ body' = body
      \/ /\ pc' = "teardown" /\ UNCHANGED <<argdata, machine>>
         /\ \E kind, at : /\ at \in {"draw", "initializer", "rule"}
                          /\ body' = Error(kind, at)
    BY DEF DrawArgument, Raise, Overrun, AtRule
<1> HIDE DEF argument
<1>5. ASSUME pc' = "teardown", UNCHANGED <<argdata, machine>>,
             NEW kind, NEW at \in {"draw", "initializer", "rule"}, body' = Error(kind, at)
      PROVE  Inv'
    <2>1. Holding' /\ Showing'
        BY <1>1, <1>5, ShowingSame DEF Inv, Holding
    <2>2. Initializing => Initializing'
        BY <1>1 DEF Initializing
    <2>3. Telling' /\ Flag'
        BY <1>1, <1>5, <2>2, RaisedInv DEF Running
    <2> QED BY <2>1, <2>3 DEF Inv
<1>6. ASSUME NEW position \in DOMAIN b, pc' = pc, body' = body,
             argdata' = Append(argdata,
                [value |-> machine.values[b[position]],
                 shown |-> IF argument.reference THEN [name |-> b[position]]
                           ELSE PrettyPrint(machine, machine.values[b[position]])]),
             machine' = IF argument.consume
                        THEN [machine EXCEPT !.bundles[argument.bundle] = RemoveAt(@, position)]
                        ELSE machine
      PROVE  Inv'
    <2>1. Sound(machine') /\ machine'.values = machine.values
        <3>1. CASE argument.consume
            BY <1>2, <1>3, <1>6, <3>1, Consumed
        <3>2. CASE ~argument.consume
            BY <1>2, <1>6, <3>2
        <3> QED BY <3>1, <3>2
    <2> DEFINE x     == b[position]
               shown == IF argument.reference THEN [name |-> x]
                        ELSE PrettyPrint(machine, machine.values[x])
               entry == [value |-> machine.values[x], shown |-> shown]
    <2>2. x \in DOMAIN machine.values
        BY <1>2, <1>3 DEF Sound
    <2> HIDE DEF x
    <2>3. machine.values[x] \in Values /\ shown \in Shows /\ Fits(shown, machine.values[x], machine.values)
        BY <1>2, <2>2, ArgumentFits
    <2>4. argdata' = Append(argdata, entry)
        BY <1>6 DEF x
    <2> HIDE DEF shown
    <2>5. /\ entry \in [value : Values, shown : Shows]
          /\ Fits(entry.shown, entry.value, machine.values)
        BY <2>3
    <2> HIDE DEF entry
    <2>6. argdata' \in Seq([value : Values, shown : Shows])
        BY <1>2, <2>4, <2>5
    <2>7. \A k \in DOMAIN argdata' : argdata'[k] = entry \/ (k \in DOMAIN argdata /\ argdata'[k] = argdata[k])
        BY <1>2, <2>4, <2>5
    <2>8. \A k \in DOMAIN argdata : Fits(argdata[k].shown, argdata[k].value, machine.values)
        BY DEF Inv, Holding
    <2>9. \A k \in DOMAIN argdata' : Fits(argdata'[k].shown, argdata'[k].value, machine'.values)
        BY <2>1, <2>5, <2>7, <2>8
    <2>10. Holding'
        BY <1>1, <1>2, <2>1, <2>6, <2>9 DEF Holding
    <2>11. Showing'
        BY <1>1, <2>1, ShowingSame DEF Inv
    <2>12. Telling'
        BY <1>1, <1>2, <1>6 DEF Telling
    <2>13. Flag'
        <3>1. steps_run' = steps_run /\ (Initializing' <=> Initializing)
            BY <1>1 DEF DrawArgument, Initializing
        <3> QED BY <1>1, <1>6, <3>1 DEF Inv, Flag, Counting, Marked, Running
    <2> QED BY <2>10, <2>11, <2>12, <2>13 DEF Inv
<1> QED BY <1>4, <1>5, <1>6, ZenonT(60)

\* A step shown: its line and its call go together.
LEMMA StepShown ==
    ASSUME Inv, rule \in Rules, UNCHANGED <<argdata, is_final>>,
           NEW values \in Seq(Values), Sound(machine'),
           Gives(machine.values, machine'.values, Assigned(machine', rule.targets, values), values),
           calls' = Recorded(Call(values)), printed' = Output(Line(machine', values)),
           pc' # "arguments"
    PROVE  Holding' /\ Showing'
<1>1. argdata \in Seq([value : Values, shown : Shows])
    BY DEF Inv, Holding
<1>2. \A k \in DOMAIN argdata : Fits(argdata[k].shown, argdata[k].value, machine.values)
    BY DEF Inv, Holding
<1>3. Holding'
    <2>1. \A k \in DOMAIN argdata : Fits(argdata[k].shown, argdata[k].value, machine'.values)
        BY <1>2 DEF Gives, Keeps, Fits
    <2> QED BY <1>1, <2>1 DEF Holding
<1>4. Showing'
    <2> SUFFICES ASSUME CanShow PROVE Trace(printed', calls', machine'.values)
        BY DEF Showing, CanShow
    <2> DEFINE shown     == [i \in DOMAIN argdata |-> argdata[i].shown]
               arguments == [i \in DOMAIN argdata |-> argdata[i].value]
               targets   == Assigned(machine', rule.targets, values)
               line      == [targets |-> targets, arguments |-> shown]
               call      == [rule |-> rule, arguments |-> arguments, values |-> values,
                             line |-> Len(printed) + 1]
    <2>1. DOMAIN argdata = 1 .. Len(argdata) /\ Len(argdata) \in Nat
        BY <1>1
    <2>2. \A i \in 1 .. Len(argdata) : argdata[i].shown \in Shows /\ argdata[i].value \in Values
        <3>1. \A i \in 1 .. Len(argdata) : argdata[i] \in [value : Values, shown : Shows]
            BY <1>1, ElementOfSeq
        <3> QED BY <3>1
    <2>3. shown \in Seq(Shows) /\ arguments \in Seq(Values) /\ DOMAIN shown = DOMAIN arguments
        BY <2>1, <2>2
    <2>4. \A k \in DOMAIN arguments : Fits(shown[k], arguments[k], machine.values)
        BY <1>2
    <2>5. printed' = Append(printed, line) /\ calls' = Append(calls, call)
        BY DEF Output, Recorded, Line, Call
    <2>6. Trace(printed, calls, machine.values)
        BY DEF Inv, Showing
    <2> HIDE DEF shown, arguments, targets
    <2>7. Gives(machine.values, machine'.values, targets, values)
        BY DEF targets
    <2>8. line = [targets |-> targets, arguments |-> shown]
        OBVIOUS
    <2>9. call = [rule |-> rule, arguments |-> arguments, values |-> values, line |-> Len(printed) + 1]
        OBVIOUS
    <2> HIDE DEF line, call
    <2>10. Trace(Append(printed, line), Append(calls, call), machine'.values)
        BY <2>3, <2>4, <2>6, <2>7, <2>8, <2>9, TraceCall
    <2> QED BY <2>5, <2>10
<1> QED BY <1>3, <1>4

LEMMA RunRuleInv == Inv /\ RunRule => Inv'
<1> SUFFICES ASSUME Inv, RunRule PROVE Inv'
    OBVIOUS
<1>1. pc = "arguments" /\ UNCHANGED <<rule, argdata, attached, is_final, selecting_rule>>
    BY DEF RunRule, run
<1>2. /\ body = None /\ attached = <<>> /\ Sound(machine) /\ rule \in Rules
      /\ rule.initialize \/ ~selecting_rule
    BY <1>1 DEF Inv, Telling, Holding, Running
<1>3. rule.targets \in Seq(Bundles)
    BY <1>2, StatefulAssumption
<1>6. ASSUME NEW values, calls' = Recorded(Call(values)), is_final
      PROVE  /\ Initializing /\ selecting_rule => Initializing'
             /\ Len(calls') = Len(calls) + 1
    <2> DEFINE call == Call(values)
    <2>1. calls \in Seq(Calls)
        BY <1>6 DEF Inv, Showing, Trace, CanShow
    <2>2. calls' = Append(calls, call)
        BY <1>6 DEF Recorded, CanShow
    <2>3. call.rule = rule
        BY DEF Call
    <2> HIDE DEF call
    <2>4. Len(calls') = Len(calls) + 1
        BY <2>1, <2>2
    <2>5. \A i \in DOMAIN calls' : calls'[i] = call \/ (i \in DOMAIN calls /\ calls'[i] = calls[i])
        BY <2>1, <2>2
    <2>6. ASSUME Initializing, selecting_rule
          PROVE  Initializing'
        <3>1. rule'.initialize
            BY <1>1, <1>2, <2>6
        <3>2. \A i \in DOMAIN calls' : calls'[i].rule.initialize
            BY <1>2, <2>3, <2>5, <2>6 DEF Initializing
        <3> QED BY <3>1, <3>2 DEF Initializing
    <2> QED BY <2>4, <2>6
<1>7. ASSUME NEW values, calls' = Recorded(Call(values)), pc' \in {"teardown", "invariants"}
      PROVE  Flag' /\ (is_final /\ selecting_rule => Initializing')
    <2>1. steps_run' = steps_run /\ (is_final => steps_run = Len(calls) + 1)
        BY <1>1 DEF RunRule, Inv, Flag, Counting
    <2>2. is_final => Len(calls') = Len(calls) + 1
        BY <1>6, <1>7
    <2>3. is_final /\ selecting_rule => Initializing'
        BY <1>1, <1>6, <1>7, UpBefore DEF Running
    <2> QED BY <1>1, <1>7, <2>1, <2>2, <2>3 DEF Flag, Counting, Marked
<1>4. CASE \E result \in Results :
             LET stored == rule.targets # <<>>
                 m == IF stored THEN AddResultsToTargets(machine, rule.targets, result.values) ELSE machine
             IN  /\ machine' = m
                 /\ calls' = Recorded(Call(result.values))
                 /\ printed' = Output(Line(m, result.values))
                 /\ \/ pc' = "teardown" /\ body' = Error("health", "rule")
                    \/ pc' = "invariants" /\ body' = body
    <2>1. PICK result \in Results :
            /\ machine' = IF rule.targets # <<>>
                          THEN AddResultsToTargets(machine, rule.targets, result.values) ELSE machine
            /\ calls' = Recorded(Call(result.values))
            /\ printed' = Output(Line(machine', result.values))
            /\ \/ pc' = "teardown" /\ body' = Error("health", "rule")
               \/ pc' = "invariants" /\ body' = body
        BY <1>4
    <2>2. result.values \in Seq(Values)
        BY StatefulAssumption DEF Values
    <2> DEFINE targets == Assigned(machine', rule.targets, result.values)
    <2>3. Sound(machine') /\ Gives(machine.values, machine'.values, targets, result.values)
        <3>1. CASE rule.targets # <<>>
            BY <1>2, <1>3, <2>1, <2>2, <3>1, StoringGives
        <3>2. CASE rule.targets = <<>>
            <4>1. machine' = machine
                BY <2>1, <3>2
            <4>2. targets = <<>>
                <5>1. DOMAIN <<>> = {}
                    OBVIOUS
                <5>2. ASSUME NEW last, NEW n
                      PROVE  [t \in DOMAIN rule.targets |-> SubSeq(last, (t - 1) * n + 1, t * n)] = <<>>
                    BY <3>2, <5>1
                <5> QED BY <5>2 DEF Assigned
            <4> QED BY <1>2, <4>1, <4>2, NothingGives
        <3> QED BY <3>1, <3>2
    <2>4. pc' # "arguments"
        BY <2>1
    <2>5. Holding' /\ Showing'
        BY <1>1, <1>2, <2>1, <2>2, <2>3, <2>4, StepShown
    <2>6. Telling'
        <3>1. CASE pc' = "teardown" /\ body' = Error("health", "rule")
            <4>1. body'.at \notin Unnoted /\ FlagIsTrue(body)'
                BY <3>1 DEF Error, FlagIsTrue, Unnoted
            <4> QED BY <1>1, <1>2, <3>1, <4>1 DEF Telling, Running
        <3>2. CASE pc' = "invariants" /\ body' = body
            BY <1>1, <1>2, <3>2 DEF Telling
        <3> QED BY <2>1, <3>1, <3>2
    <2>7. Flag'
        BY <1>7, <2>1
    <2> QED BY <2>5, <2>6, <2>7 DEF Inv
<1>5. CASE \E kind \in UserErrors :
             /\ calls' = Recorded(Call(<<>>))
             /\ printed' = Output(Line(machine, <<>>))
             /\ pc' = "teardown"
             /\ body' = Error(kind, AtRule)
             /\ machine' = machine
    <2>1. <<>> \in Seq(Values) /\ Assigned(machine', rule.targets, <<>>) = <<>>
        BY DEF Assigned
    <2>2. Gives(machine.values, machine'.values, Assigned(machine', rule.targets, <<>>), <<>>)
        BY <1>5, <2>1, NothingGives
    <2>3. Sound(machine') /\ calls' = Recorded(Call(<<>>)) /\ printed' = Output(Line(machine', <<>>))
            /\ pc' # "arguments"
        BY <1>2, <1>5
    <2>4. Holding' /\ Showing'
        BY <1>1, <1>2, <2>1, <2>2, <2>3, StepShown
    <2>5. Flag' /\ (is_final /\ selecting_rule => Initializing')
        BY <1>5, <1>7
    <2>6. body'.at \notin Unnoted /\ FlagIsTrue(body)'
        BY <1>1, <1>5, <2>5 DEF Error, AtRule, FlagIsTrue, Unnoted
    <2>7. Telling'
        BY <1>1, <1>2, <1>5, <2>6 DEF Telling, Running
    <2> QED BY <2>4, <2>5, <2>7 DEF Inv
<1> QED BY <1>4, <1>5 DEF RunRule, Raise

LEMMA TeardownInv == Inv /\ Teardown => Inv'
<1> SUFFICES ASSUME Inv, Teardown PROVE Inv'
    OBVIOUS
<1>1. /\ pc = "teardown" /\ pc' = "ended" /\ printed' = Output([teardown |-> TRUE])
      /\ UNCHANGED <<machine, argdata, calls, is_final, selecting_rule>>
    BY DEF Teardown, run
<1>2. attached = <<>> /\ (body # None => body.at \notin Unnoted /\ FlagIsTrue(body))
    BY <1>1 DEF Inv, Telling
<1>3. Holding'
    BY <1>1 DEF Inv, Holding
<1>4. CanShow => /\ Trace(printed, calls, machine.values)
                 /\ printed \in Seq(RuleLine \cup Plain)
                 /\ printed' = Append(printed, [teardown |-> TRUE])
    BY <1>1 DEF Inv, Showing, Trace, Output
<1>5. Showing'
    <2> SUFFICES ASSUME CanShow PROVE Trace(printed', calls', machine'.values)
        BY <1>1 DEF Showing, CanShow
    <2> DEFINE last == [teardown |-> TRUE]
    <2>1. last \in Plain
        BY DEF Plain
    <2> HIDE DEF last
    <2>2. <<last>> \in Seq(Plain)
        BY <2>1
    <2>3. Append(printed, last) = printed \o <<last>>
        <3>1. printed \in Seq(RuleLine \cup Plain) /\ last \in RuleLine \cup Plain
            BY <1>4, <2>1
        <3> QED BY <3>1, AppendIsConcat
    <2>4. Trace(printed \o <<last>>, calls, machine.values)
        BY <1>4, <2>2, TracePlain
    <2> QED BY <1>1, <1>4, <2>3, <2>4 DEF last
<1>7. (Initializing' <=> Initializing) /\ (SelectionFailed' <=> SelectionFailed)
    BY <1>1 DEF Teardown, Initializing, SelectionFailed
<1>8. Flag'
    BY <1>1, <1>7 DEF Inv, Flag, Counting, Marked, Running
<1>6. Telling'
    <2>1. ASSUME NEW kind, body' = Error(kind, "teardown"), attached' = attached
          PROVE  Telling'
        <3>1. body'.at = "teardown" /\ FlagIsTrue(body)'
            BY <2>1 DEF Error, FlagIsTrue
        <3> QED BY <1>1, <1>2, <2>1, <3>1 DEF Telling, Running, Unnoted
    <2>2. CASE attached' = Notes(body, is_final, printed') /\ body' = body
        <3>1. ASSUME is_final, body # None
              PROVE  attached' # <<>> /\ Last(attached') = [teardown |-> TRUE]
            <4> DEFINE last == [teardown |-> TRUE]
            <4>1. attached' = Append(printed, last) /\ printed \in Seq(RuleLine \cup Plain)
                BY <1>4, <2>2, <3>1 DEF Notes, CanShow
            <4>2. last \in RuleLine \cup Plain
                BY DEF Plain
            <4> HIDE DEF last
            <4>3. /\ attached' # <<>> /\ Len(attached') = Len(printed) + 1
                  /\ attached'[Len(printed) + 1] = last
                BY <4>1, <4>2, AppendProperties
            <4> QED BY <4>3 DEF Last, last
        <3>2. body # None => body.at \notin Unnoted /\ FlagIsTrue(body)'
            BY <1>1, <1>2, <1>7, <2>2 DEF FlagIsTrue
        <3> QED BY <1>1, <2>2, <3>1, <3>2 DEF Telling, Running, Failing
    <2> QED BY <2>1, <2>2 DEF Teardown
<1> QED BY <1>3, <1>5, <1>6, <1>8 DEF Inv

LEMMA FinishInv == Inv /\ Finish => Inv'
<1> SUFFICES ASSUME Inv, Finish PROVE Inv'
    OBVIOUS
<1>1. /\ pc = "ended" /\ pc' = "done"
      /\ reported' = IF is_final THEN Outcome ELSE None
      /\ UNCHANGED <<machine, argdata, body, printed, calls, attached, is_final, failure, selecting_rule>>
    BY DEF Finish, example
<1>2. Holding' /\ Showing'
    BY <1>1, ShowingSame DEF Inv, Holding
<1>3. Outcome' = Outcome
    BY <1>1 DEF Outcome, Report, Failing
<1>4. (Initializing' <=> Initializing) /\ (SelectionFailed' <=> SelectionFailed)
    BY <1>1 DEF Finish, example, Initializing, SelectionFailed
<1>5. Telling'
    BY <1>1, <1>3, <1>4 DEF Inv, Telling, Running, Failing, FlagIsTrue
<1>6. Flag'
    BY <1>1, <1>4 DEF Inv, Flag, Counting, Marked, Running
<1> QED BY <1>2, <1>5, <1>6 DEF Inv

LEMMA NextInv == Inv /\ [Next]_vars => Inv'
<1> SUFFICES ASSUME Inv, [Next]_vars PROVE Inv'
    OBVIOUS
<1>1. CASE NextExample
    BY <1>1, BeginInv DEF NextExample
<1>2. CASE FinalReplay
    BY <1>2, BeginInv DEF FinalReplay
<1>3. CASE UNCHANGED vars
    <2>1. UNCHANGED <<pc, machine, steps_run, rule, argdata, body, printed, calls, attached, is_final, failure,
                      reported, selecting_rule>>
        BY <1>3 DEF vars, example, run
    <2>2. Holding' /\ Showing'
        BY <2>1, ShowingSame DEF Inv, Holding
    <2>3. Outcome' = Outcome
        BY <2>1 DEF Outcome, Report, Failing
    <2>4. (Initializing' <=> Initializing) /\ (SelectionFailed' <=> SelectionFailed)
        BY <2>1 DEF Initializing, SelectionFailed
    <2>5. Telling'
        BY <2>1, <2>3, <2>4 DEF Inv, Telling, Failing, FlagIsTrue
    <2>6. Flag'
        BY <2>1, <2>4 DEF Inv, Flag, Counting, Marked
    <2> QED BY <2>2, <2>5, <2>6 DEF Inv
<1> QED BY <1>1, <1>2, <1>3, ConstructInv, CheckInvariantsInv, DrawStopInv, SelectInitializerInv, SelectRuleInv,
           DrawArgumentInv, RunRuleInv, TeardownInv, FinishInv DEF Next

\* Stored values keep their names, the program shown is the one that ran, and
\* the state of the flag and of the notes is what the error says, in every test.
THEOREM Invariance == Spec => []Inv
<1> QED BY InitInv, NextInv, PTL DEF Spec

\* The program shown for an example makes the calls that were made, for every
\* machine, every number of targets and of values (_repr_step, _new_name,
\* _add_results_to_targets).
THEOREM TheProgramRunsAgain == Spec => []TraceReproduces
<1>1. Inv => TraceReproduces
    BY TraceIsFaithful DEF Inv, Showing
<1> QED BY <1>1, Invariance, PTL

\* What the user is told of a failure is true (run_state_machine_as_test, the
\* finally clause of the step loop, the selecting_rule flag).
THEOREM ToldTheTruth == Spec => []FailureToldTruly
<1>1. Inv => FailureToldTruly
    <2> SUFFICES ASSUME Inv, pc = "done", reported # None
                 PROVE  /\ reported.error.kind = "flaky" =>
                             /\ reported.error.at = "select" => reported.selecting
                             /\ reported.selecting => \/ reported.error.at = "select"
                                                      \/ reported.error.at = "teardown" /\ SelectionFailed
                                                      \/ Initializing
                        /\ reported.notes # <<>> => /\ Failing(body)
                                                    /\ Last(reported.notes) = [teardown |-> TRUE]
                                                    /\ body.at \notin Unnoted
                        /\ reported.notes = <<>> => reported.error.at = "engine" \/ body.at \in Unnoted
        BY DEF FailureToldTruly, Unnoted
    <2>1. is_final /\ reported = Outcome
        BY DEF Inv, Telling
    <2>2. CASE ~Failing(body) \/ (body.kind # "flaky" /\ body.kind # failure)
        <3>1. reported = Report(Error("flaky failure", "engine"), <<>>)
            BY <2>1, <2>2 DEF Outcome
        <3>2. /\ reported.error.kind = "flaky failure" /\ reported.error.at = "engine"
              /\ reported.notes = <<>>
            BY <3>1 DEF Report, Error
        <3> QED BY <3>2
    <2>3. CASE Failing(body) /\ (body.kind = "flaky" \/ body.kind = failure)
        <3>1. /\ FlagIsTrue(body)
              /\ attached # <<>> => Last(attached) = [teardown |-> TRUE] /\ body.at \notin Unnoted
              /\ attached = <<>> => body.at \in Unnoted
            BY <2>1, <2>3 DEF Inv, Telling
        <3>2. CASE body.kind = "flaky" /\ failure # "definition"
            <4>1. reported = Report(body, attached)
                BY <2>1, <2>3, <3>2 DEF Outcome
            <4>2. /\ reported.error = body /\ reported.notes = attached
                  /\ reported.selecting = (body.kind = "flaky" /\ selecting_rule)
                BY <4>1 DEF Report
            <4>3. selecting_rule => Initializing \/ SelectionFailed
                BY <2>1 DEF Inv, Flag, Marked
            <4> QED BY <2>1, <2>3, <3>1, <3>2, <4>2, <4>3 DEF FlagIsTrue
        <3>3. CASE ~(body.kind = "flaky" /\ failure # "definition")
            <4>1. reported = Report(Error(failure, "generation"), attached) /\ failure # "flaky"
                BY <2>1, <2>3, <3>3 DEF Outcome
            <4>2. reported.error.kind = failure /\ reported.notes = attached
                BY <4>1 DEF Report, Error
            <4> QED BY <2>3, <3>1, <4>1, <4>2
        <3> QED BY <3>2, <3>3
    <2> QED BY <2>2, <2>3
<1> QED BY <1>1, Invariance, PTL

================================================================================
