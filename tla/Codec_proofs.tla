------------------------------ MODULE Codec_proofs -----------------------------
(* The codec of the database: the round trip, truncation, and that the two   *)
(* properties of it that the runs check hold for every choice and buffer.    *)
EXTENDS Values_proofs

--------------------------------------------------------------------------------
(* Encoding. *)

Byte == 0 .. ByteSize - 1

\* The sizes of a byte, of the size field and of a group, as numbers.
LEMMA Sizes ==
  /\ SizeBits \in Nat /\ ByteBits \in Nat /\ ByteBits > 0
  /\ Power(2, SizeBits) \in Nat /\ Power(2, SizeBits) >= 2 /\ SizeMask = Power(2, SizeBits) - 1
  /\ GroupSize = 4 * Power(2, SizeBits) /\ ByteSize = 8 * Power(2, SizeBits)
  /\ SizeMask \in Nat /\ GroupSize \in Nat /\ ByteSize \in Nat
<1>1. SizeBits \in Nat \ {0}
  BY CodecAssumption
<1>2. SizeBits - 1 \in Nat /\ (SizeBits - 1) + 1 = SizeBits
  BY <1>1, SMT
<1>3. Power(2, SizeBits) = 2 * Power(2, SizeBits - 1)
  BY <1>2, PowerRec
<1>4. Power(2, SizeBits - 1) \in Nat \ {0}
  BY <1>2, PowerPositive
<1>5. Power(2, SizeBits + 1) = 2 * Power(2, SizeBits) /\ Power(2, (SizeBits + 1) + 1) = 2 * Power(2, SizeBits + 1)
      /\ Power(2, (SizeBits + 2) + 1) = 2 * Power(2, SizeBits + 2)
  BY <1>1, PowerRec
<1>6. (SizeBits + 1) + 1 = SizeBits + 2 /\ (SizeBits + 2) + 1 = 3 + SizeBits /\ (3 + SizeBits) - 1 = SizeBits + 2
  BY <1>1, SMT
<1>7. Power(2, SizeBits) \in Nat /\ Power(2, SizeBits) >= 2
  BY <1>3, <1>4, SMT
<1>8. Power(2, 3 + SizeBits) = 8 * Power(2, SizeBits) /\ Power(2, (3 + SizeBits) - 1) = 4 * Power(2, SizeBits)
  BY <1>5, <1>6, <1>7, SMT
<1>9. SizeMask = Power(2, SizeBits) - 1 /\ GroupSize = 4 * Power(2, SizeBits) /\ ByteSize = 8 * Power(2, SizeBits)
  BY <1>8 DEF SizeMask, GroupSize, ByteSize, ByteBits
<1>10. ByteBits \in Nat /\ ByteBits > 0
  BY <1>1, SMT DEF ByteBits
<1>11. SizeMask \in Nat /\ GroupSize \in Nat /\ ByteSize \in Nat
  BY <1>7, <1>9, SMT
<1> QED BY <1>1, <1>7, <1>9, <1>10, <1>11

\* pack_uleb128 is the function its recursion describes.
LEMMA PackDef ==
  /\ PackUleb128 \in [Nat -> Bytes]
  /\ \A n \in Nat : PackUleb128[n] = IF n < GroupSize THEN <<n>>
                       ELSE <<GroupSize + (n % GroupSize)>> \o PackUleb128[n \div GroupSize]
<1> DEFINE base == [n \in Nat |-> IF n < GroupSize THEN <<n>> ELSE <<>>]
           step == [nv \in Nat \X Bytes |-> <<GroupSize + (nv[1] % GroupSize)>> \o nv[2]]
           down == [n \in Nat |-> IF n < GroupSize THEN n ELSE n \div GroupSize]
           size == [n \in Nat |-> n]
           Is(p) == p = [n \in Nat |-> IF n < GroupSize THEN <<n>>
                           ELSE <<GroupSize + (n % GroupSize)>> \o p[n \div GroupSize]]
<1>1. GroupSize \in Nat /\ GroupSize >= 8 /\ ByteSize = 2 * GroupSize
  BY Sizes, SMT
<1>2. \A n \in Nat : n % GroupSize \in 0 .. GroupSize - 1 /\ n \div GroupSize \in Nat
                     /\ (n >= GroupSize => n \div GroupSize < n)
  <2>1. ASSUME NEW n \in Nat PROVE n % GroupSize \in 0 .. GroupSize - 1 /\ n \div GroupSize \in Nat
                                   /\ n = GroupSize * (n \div GroupSize) + (n % GroupSize)
    <3>1. GroupSize \in Nat \ {0}
      BY <1>1, SMT
    <3> QED BY <3>1, Division
  <2>2. ASSUME NEW g \in Nat, g >= 8, NEW q \in Nat, NEW r \in 0 .. g - 1, g * q + r >= g PROVE q < g * q + r
    BY <2>2, SMT
  <2> QED BY <1>1, <2>1, <2>2
<1>2a. /\ base \in [Nat -> Bytes] /\ step \in [Nat \X Bytes -> Bytes]
       /\ down \in [Nat -> Nat] /\ size \in [Nat -> Nat]
       /\ \A n \in Nat : down[n] # n => size[down[n]] < size[n]
  <2>1. base \in [Nat -> Bytes]
    <3>1. ASSUME NEW n \in Nat PROVE (IF n < GroupSize THEN <<n>> ELSE <<>>) \in Bytes
      <4>1. CASE n < GroupSize
        <5>1. n \in Byte
          BY <1>1, <4>1, SMT DEF Byte
        <5> QED BY <4>1, <5>1 DEF Bytes, Byte
      <4>2. CASE ~(n < GroupSize)
        BY <4>2 DEF Bytes
      <4> QED BY <4>1, <4>2
    <3> QED BY <3>1
  <2>2. step \in [Nat \X Bytes -> Bytes]
    <3>1. ASSUME NEW n \in Nat, NEW b \in Bytes PROVE <<GroupSize + (n % GroupSize)>> \o b \in Bytes
      <4>1. GroupSize + (n % GroupSize) \in Byte
        BY <1>1, <1>2, SMT DEF Byte
      <4> QED BY <4>1 DEF Bytes, Byte
    <3> QED BY <3>1
  <2>3. down \in [Nat -> Nat] /\ size \in [Nat -> Nat]
    BY <1>2
  <2>4. \A n \in Nat : down[n] # n => size[down[n]] < size[n]
    BY <1>1, <1>2
  <2> QED BY <2>1, <2>2, <2>3, <2>4
<1>3a. Descends(Nat, Bytes, size, down, base, step)
  BY <1>2a DEF Descends
<1>3. PICK f \in [Nat -> Bytes] : Recurses(f, Nat, base, step, down)
  <2> HIDE DEF base, step, down, size
  <2> QED BY <1>3a, Recursion
<1>4. Is(f)
  <2>1. ASSUME NEW n \in Nat
        PROVE  f[n] = IF n < GroupSize THEN <<n>> ELSE <<GroupSize + (n % GroupSize)>> \o f[n \div GroupSize]
    <3>1. f[n] = IF down[n] = n THEN base[n] ELSE step[<<n, f[down[n]]>>]
      BY <1>3 DEF Recurses
    <3>2. CASE n < GroupSize
      BY <3>1, <3>2
    <3>3. CASE ~(n < GroupSize)
      <4>1. down[n] = n \div GroupSize /\ n \div GroupSize \in Nat /\ n \div GroupSize # n
        BY <1>1, <1>2, <3>3
      <4>2. f[n \div GroupSize] \in Bytes
        BY <1>3, <4>1
      <4> QED BY <3>1, <3>3, <4>1, <4>2
    <3> QED BY <3>2, <3>3
  <2> QED BY <1>3, <2>1
<1>5. Is(PackUleb128)
  <2>1. PackUleb128 = CHOOSE p : Is(p)
    BY DEF PackUleb128
  <2> HIDE DEF Is
  <2> QED BY <1>4, <2>1
<1>6. \A n \in Nat : PackUleb128[n] \in Bytes
  <2>1. \A n \in Nat : down[n] = n => PackUleb128[n] = base[n]
    BY <1>1, <1>2, <1>5
  <2>2. \A n \in Nat : down[n] # n /\ PackUleb128[down[n]] \in Bytes =>
                          PackUleb128[n] = step[<<n, PackUleb128[down[n]]>>]
    BY <1>1, <1>2, <1>5
  <2>3. Follows(PackUleb128, Nat, Bytes, base, step, down)
    BY <2>1, <2>2 DEF Follows
  <2>4. Typed(PackUleb128, Nat, Bytes)
    <3> HIDE DEF base, step, down, size
    <3> QED BY <1>3a, <2>3, RecursionType
  <2> QED BY <2>4 DEF Typed
<1>7. PackUleb128 = [n \in Nat |-> PackUleb128[n]]
  BY <1>5
<1> QED BY <1>5, <1>6, <1>7

--------------------------------------------------------------------------------
(* The value of a ULEB128 number: P[k] is what its k highest groups say. *)
IsUleb(P, buffer, last) ==
    /\ P[0] = 0
    /\ \A k \in 1 .. last : P[k] = P[k - 1] * GroupSize + (buffer[last - k + 1] % GroupSize)

UlebValue(buffer, last) ==
    FoldLeft(LAMBDA acc, i : acc * GroupSize + (buffer[i] % GroupSize), 0,
             Reverse([i \in 1 .. last |-> i]))

\* The value of the groups up to the last, read group by group.
LEMMA UlebFold ==
  ASSUME NEW buffer, NEW last \in Nat, \A i \in 1 .. last : buffer[i] \in Nat
  PROVE  \E P : IsUleb(P, buffer, last) /\ P[last] = UlebValue(buffer, last)
<1> DEFINE r == Reverse([i \in 1 .. last |-> i])
           step == [vk \in Nat \X (1 .. last) |-> vk[1] * GroupSize + (buffer[r[vk[2]]] % GroupSize)]
           Is(h) == h = [s \in SUBSET DOMAIN r |-> IF s = {} THEN 0
                           ELSE LET x == Max(s) IN h[s \ {x}] * GroupSize + (buffer[r[x]] % GroupSize)]
<1>1. DOMAIN r = 1 .. last /\ \A j \in 1 .. last : r[j] = last - j + 1 /\ r[j] \in 1 .. last
  BY SMT DEF Reverse
<1>2. GroupSize \in Nat \ {0}
  BY Sizes, SMT
<1>3. \A k \in 1 .. last : buffer[r[k]] % GroupSize \in Nat
  <2>1. ASSUME NEW k \in 1 .. last PROVE buffer[r[k]] % GroupSize \in Nat
    <3>1. buffer[r[k]] \in Nat
      BY <1>1
    <3> HIDE DEF r
    <3> QED BY <3>1, <1>2, Division
  <2> QED BY <2>1
<1> HIDE DEF r
<1>4. PICK g \in [SUBSET (1 .. last) -> Nat] : Folds(g, last, 0, step)
  <2>1. step \in [Nat \X (1 .. last) -> Nat]
    BY <1>2, <1>3
  <2> HIDE DEF step
  <2> QED BY <2>1, FoldExists
<1>5. Is(g)
  <2>1. ASSUME NEW s \in SUBSET (1 .. last), s # {}
        PROVE  g[s] = g[s \ {Max(s)}] * GroupSize + (buffer[r[Max(s)]] % GroupSize)
    <3>1. Max(s) \in 1 .. last /\ s \ {Max(s)} \in SUBSET (1 .. last)
      BY <2>1, MaxPosition
    <3>2. g[s] = step[<<g[s \ {Max(s)}], Max(s)>>]
      BY <1>4, <2>1 DEF Folds
    <3> QED BY <3>1, <3>2
  <2>2. g[{}] = 0
    BY <1>4 DEF Folds
  <2> QED BY <1>1, <1>4, <2>1, <2>2
<1> DEFINE h == CHOOSE q : Is(q)
<1>6. Is(h)
  <2> HIDE DEF Is
  <2> QED BY <1>5
<1>7. UlebValue(buffer, last) = h[DOMAIN r]
  BY Zenon DEF UlebValue, FoldLeft, MapThenFoldSet, r
<1> HIDE DEF h
<1> DEFINE P == [k \in 0 .. last |-> h[1 .. k]]
<1>8. IsUleb(P, buffer, last)
  <2>1. P[0] = 0
    <3>1. 1 .. 0 = {} /\ 0 \in 0 .. last /\ {} \in SUBSET (1 .. last)
      BY SMT
    <3> QED BY <1>1, <1>6, <3>1
  <2>2. ASSUME NEW k \in 1 .. last
        PROVE  P[k] = P[k - 1] * GroupSize + (buffer[last - k + 1] % GroupSize)
    <3>1. 1 .. k \in SUBSET (1 .. last) /\ 1 .. k # {} /\ Max(1 .. k) = k /\ (1 .. k) \ {k} = 1 .. k - 1
      BY Positions
    <3>2. h[1 .. k] = h[1 .. k - 1] * GroupSize + (buffer[r[k]] % GroupSize)
      BY <1>1, <1>6, <3>1
    <3>3. k \in 0 .. last /\ k - 1 \in 0 .. last
      BY SMT
    <3> QED BY <1>1, <3>2, <3>3
  <2> QED BY <2>1, <2>2 DEF IsUleb
<1>9. P[last] = h[1 .. last]
  BY SMT
<1> QED BY <1>1, <1>7, <1>8, <1>9

\* The same groups have the same value.
LEMMA UlebUnique ==
  ASSUME NEW last \in Nat, NEW a, NEW b, NEW P, NEW Q,
         IsUleb(P, a, last), IsUleb(Q, b, last),
         \A i \in 1 .. last : a[i] = b[i] /\ a[i] \in Nat
  PROVE  P[last] = Q[last] /\ P[last] \in Nat
<1> DEFINE T == {k \in Nat : k <= last => P[k] = Q[k] /\ P[k] \in Nat}
<1>1. 0 \in T
  BY DEF IsUleb
<1>2. ASSUME NEW k \in Nat, k \in T PROVE k + 1 \in T
  <2> SUFFICES ASSUME k + 1 <= last PROVE P[k + 1] = Q[k + 1] /\ P[k + 1] \in Nat
    OBVIOUS
  <2>1. k + 1 \in 1 .. last /\ (k + 1) - 1 = k /\ last - (k + 1) + 1 \in 1 .. last /\ k <= last
    BY SMT
  <2>2. P[k] = Q[k] /\ P[k] \in Nat
    BY <1>2, <2>1
  <2>3. /\ P[k + 1] = P[k] * GroupSize + (a[last - (k + 1) + 1] % GroupSize)
        /\ Q[k + 1] = Q[k] * GroupSize + (b[last - (k + 1) + 1] % GroupSize)
    BY <2>1 DEF IsUleb
  <2>4. a[last - (k + 1) + 1] = b[last - (k + 1) + 1] /\ a[last - (k + 1) + 1] \in Nat
    BY <2>1
  <2>5. GroupSize \in Nat \ {0}
    BY Sizes, SMT
  <2>6. a[last - (k + 1) + 1] % GroupSize \in Nat
    BY <2>4, <2>5, Division, SMTT(30)
  <2>7. P[k] * GroupSize \in Nat
    BY <2>2, <2>5, SMT
  <2> QED BY <2>2, <2>3, <2>4, <2>6, <2>7
<1>3. Nat \subseteq T
  <2> HIDE DEF T
  <2> QED BY <1>1, <1>2, NatSetInduction
<1> QED BY <1>3

\* A packed number: all bytes but the last have the high bit, and its groups say the number.
IsPacked(p, n) == /\ p \in Bytes /\ Len(p) \in Nat \ {0}
                  /\ p[Len(p)] < GroupSize
                  /\ \A i \in 1 .. Len(p) - 1 : p[i] >= GroupSize
                  /\ \E P : IsUleb(P, p, Len(p)) /\ P[Len(p)] = n

\* A number below GroupSize packs to itself.
LEMMA PackedOne ==
  ASSUME NEW n \in Nat, n < GroupSize PROVE IsPacked(<<n>>, n)
<1> DEFINE P == [k \in 0 .. 1 |-> IF k = 0 THEN 0 ELSE n]
<1>1. GroupSize \in Nat /\ GroupSize > 0 /\ ByteSize = 2 * GroupSize
  BY Sizes, SMT
<1>2. n % GroupSize = n
  BY <1>1, SMT
<1>3. IsUleb(P, <<n>>, 1)
  BY <1>1, <1>2, SMT DEF IsUleb
<1>4. P[1] = n /\ Len(<<n>>) = 1 /\ <<n>>[1] = n
  OBVIOUS
<1>5. <<n>> \in Bytes
  <2>1. n \in Byte
    BY <1>1, SMT DEF Byte
  <2> QED BY <2>1 DEF Bytes, Byte
<1> HIDE DEF P
<1>6. \A i \in 1 .. Len(<<n>>) - 1 : <<n>>[i] >= GroupSize
  BY <1>4, SMT
<1> QED BY <1>3, <1>4, <1>5, <1>6 DEF IsPacked

\* One more group in front of a packed number.
LEMMA PackedMore ==
  ASSUME NEW q \in Nat, NEW r \in 0 .. GroupSize - 1, NEW p, IsPacked(p, q)
  PROVE  IsPacked(<<GroupSize + r>> \o p, q * GroupSize + r)
<1> DEFINE x == <<GroupSize + r>> \o p
           L == Len(p)
<1>1. GroupSize \in Nat /\ GroupSize > 0 /\ ByteSize = 2 * GroupSize
  BY Sizes, SMT
<1>2. p \in Seq(Byte) /\ L \in Nat \ {0} /\ \A i \in 1 .. L : p[i] \in Byte
  <2>1. p \in Seq(Byte) /\ Len(p) \in Nat \ {0}
    BY DEF IsPacked, Bytes, Byte
  <2> HIDE DEF Byte
  <2>2. \A i \in 1 .. Len(p) : p[i] \in Byte
    BY <2>1, ElementOfSeq
  <2> QED BY <2>1, <2>2
<1>3. GroupSize + r \in Byte
  BY <1>1, SMT DEF Byte
<1>4. x \in Seq(Byte) /\ Len(x) = L + 1 /\ x[1] = GroupSize + r /\ \A i \in 2 .. L + 1 : x[i] = p[i - 1]
  BY <1>2, <1>3
<1>5. PICK P : IsUleb(P, p, L) /\ P[L] = q
  BY DEF IsPacked
<1> DEFINE Q == [k \in 0 .. L + 1 |-> IF k = L + 1 THEN q * GroupSize + r ELSE P[k]]
<1> HIDE DEF x, L
<1>6. (GroupSize + r) % GroupSize = r
  BY <1>1, SMT
<1>7. IsUleb(Q, x, L + 1)
  <2>1. Q[0] = 0
    BY <1>2, <1>5, SMT DEF IsUleb
  <2>2. ASSUME NEW k \in 1 .. L + 1
        PROVE  Q[k] = Q[k - 1] * GroupSize + (x[(L + 1) - k + 1] % GroupSize)
    <3>1. CASE k = L + 1
      <4>1. (L + 1) - k + 1 = 1 /\ k - 1 = L /\ L \in 0 .. L + 1 /\ k \in 0 .. L + 1 /\ L # L + 1
        BY <1>2, <3>1, SMT
      <4>2. Q[k] = q * GroupSize + r /\ Q[k - 1] = q
        BY <1>5, <3>1, <4>1
      <4> QED BY <1>4, <1>6, <4>1, <4>2
    <3>2. CASE k # L + 1
      <4>1. /\ k \in 1 .. L /\ k \in 0 .. L + 1 /\ k - 1 \in 0 .. L + 1 /\ k - 1 # L + 1
            /\ (L + 1) - k + 1 \in 2 .. L + 1 /\ ((L + 1) - k + 1) - 1 = L - k + 1
        BY <1>2, <3>2, SMT
      <4>2. P[k] = P[k - 1] * GroupSize + (p[L - k + 1] % GroupSize)
        BY <1>5, <4>1 DEF IsUleb
      <4>3. x[(L + 1) - k + 1] = p[L - k + 1]
        BY <1>4, <4>1
      <4>4. Q[k] = P[k] /\ Q[k - 1] = P[k - 1]
        BY <3>2, <4>1
      <4> QED BY <4>2, <4>3, <4>4
    <3> QED BY <3>1, <3>2
  <2> QED BY <2>1, <2>2 DEF IsUleb
<1>8. Q[L + 1] = q * GroupSize + r
  BY <1>2, SMT
<1> HIDE DEF Q
<1>9. x \in Bytes /\ Len(x) \in Nat \ {0}
  BY <1>2, <1>4, SMT DEF Bytes, Byte
<1>10. p[L] < GroupSize /\ \A i \in 1 .. L - 1 : p[i] >= GroupSize
  BY DEF IsPacked, L
<1>11. x[L + 1] < GroupSize
  <2>1. L + 1 \in 2 .. L + 1 /\ (L + 1) - 1 = L
    BY <1>2, SMT
  <2> QED BY <1>4, <1>10, <2>1
<1>12. ASSUME NEW i \in 1 .. (L + 1) - 1 PROVE x[i] >= GroupSize
  <2>1. CASE i = 1
    BY <1>1, <1>4, <2>1, SMT
  <2>2. CASE i # 1
    <3>1. i \in 2 .. L + 1 /\ i - 1 \in 1 .. L - 1
      BY <1>2, <2>2, SMT
    <3> QED BY <1>4, <1>10, <3>1
  <2> QED BY <2>1, <2>2
<1> QED BY <1>4, <1>7, <1>8, <1>9, <1>11, <1>12 DEF IsPacked, x

\* Every packed number ends with its only byte without the high bit, and its groups are its own.
LEMMA PackedIs == \A n \in Nat : IsPacked(PackUleb128[n], n)
<1> DEFINE T == {k \in Nat : \A n \in 0 .. k : IsPacked(PackUleb128[n], n)}
<1>0. GroupSize \in Nat \ {0} /\ GroupSize >= 8
  BY Sizes, SMT
<1>1. 0 \in T
  <2>1. PackUleb128[0] = <<0>>
    <3>1. 0 \in Nat /\ 0 < GroupSize
      BY <1>0, SMT
    <3> QED BY PackDef, <3>1
  <2>2. IsPacked(<<0>>, 0)
    BY PackedOne, <1>0
  <2>3. \A n \in 0 .. 0 : n = 0
    BY SMT
  <2> QED BY <2>1, <2>2, <2>3
<1>2. ASSUME NEW k \in Nat, k \in T PROVE k + 1 \in T
  <2>1. ASSUME NEW n \in 0 .. k + 1 PROVE IsPacked(PackUleb128[n], n)
    <3>0. n \in Nat
      BY SMT
    <3>1. CASE n < GroupSize
      <4>1. PackUleb128[n] = <<n>>
        BY PackDef, <3>0, <3>1
      <4> QED BY <4>1, <3>0, <3>1, PackedOne
    <3>2. CASE ~(n < GroupSize)
      <4>1. PackUleb128[n] = <<GroupSize + (n % GroupSize)>> \o PackUleb128[n \div GroupSize]
        BY PackDef, <3>0, <3>2
      <4>2. n \div GroupSize \in Nat /\ n % GroupSize \in 0 .. GroupSize - 1
            /\ n = GroupSize * (n \div GroupSize) + (n % GroupSize)
        BY <1>0, <3>0, Division
      <4>3. ASSUME NEW g \in Nat, g >= 8, NEW q \in Nat, NEW r \in 0 .. g - 1, g * q + r >= g, g * q + r <= k + 1
            PROVE q \in 0 .. k
        <5>1. q >= 1
          BY <4>3, SMT
        <5>2. g * q >= 8 * q
          BY <4>3, SMT
        <5> QED BY <4>3, <5>1, <5>2, SMT
      <4>4. n \div GroupSize \in 0 .. k
        BY <1>0, <3>0, <3>2, <4>2, <4>3
      <4>5. IsPacked(PackUleb128[n \div GroupSize], n \div GroupSize)
        BY <1>2, <4>4
      <4>6. IsPacked(<<GroupSize + (n % GroupSize)>> \o PackUleb128[n \div GroupSize],
                     (n \div GroupSize) * GroupSize + (n % GroupSize))
        BY <4>2, <4>5, PackedMore
      <4>7. (n \div GroupSize) * GroupSize + (n % GroupSize) = n
        BY <1>0, <4>2, SMT
      <4> QED BY <4>1, <4>6, <4>7
    <3> QED BY <3>1, <3>2
  <2> QED BY <2>1
<1>3. Nat \subseteq T
  <2> HIDE DEF T
  <2> QED BY <1>1, <1>2, NatSetInduction
<1>4. \A n \in Nat : n \in 0 .. n
  BY SMT
<1> QED BY <1>3, <1>4

Ends(buffer) == {i \in DOMAIN buffer : buffer[i] < GroupSize}

LastOf(b) == IF Ends(b) = {} THEN Len(b) ELSE CHOOSE i \in Ends(b) : \A j \in Ends(b) : i <= j

\* unpack_uleb128, by its parts.
LEMMA UnpackIs ==
  ASSUME NEW b
  PROVE  UnpackUleb128(b) = [used |-> IF b = <<>> THEN 1 ELSE LastOf(b), value |-> UlebValue(b, LastOf(b))]
BY Zenon DEF UnpackUleb128, UlebValue, Ends, LastOf

\* What was packed unpacks to itself, whatever follows.
LEMMA UnpackPacked ==
  ASSUME NEW n \in Nat, NEW rest \in Bytes
  PROVE  UnpackUleb128(PackUleb128[n] \o rest) = [used |-> Len(PackUleb128[n]), value |-> n]
<1> DEFINE p == PackUleb128[n]
           L == Len(p)
           b == p \o rest
<1>1. p \in Seq(Byte) /\ L \in Nat \ {0} /\ p[L] < GroupSize /\ \A i \in 1 .. L - 1 : p[i] >= GroupSize
  BY PackedIs DEF IsPacked, Bytes, Byte
<1>2. PICK P : IsUleb(P, p, L) /\ P[L] = n
  BY PackedIs DEF IsPacked
<1>3. rest \in Seq(Byte) /\ Len(rest) \in Nat
  BY DEF Bytes, Byte
<1> HIDE DEF p, L
<1>4. \A i \in 1 .. L : p[i] \in Byte
  <2> HIDE DEF Byte
  <2>1. \A i \in 1 .. Len(p) : p[i] \in Byte
    BY <1>1, ElementOfSeq
  <2> QED BY <2>1 DEF L
<1>5. b \in Seq(Byte) /\ Len(b) = L + Len(rest) /\ \A i \in 1 .. L : b[i] = p[i]
  <2>1. b \in Seq(Byte) /\ Len(b) = Len(p) + Len(rest)
        /\ \A i \in 1 .. Len(p) + Len(rest) : b[i] = IF i <= Len(p) THEN p[i] ELSE rest[i - Len(p)]
    <3> HIDE DEF Byte
    <3> QED BY <1>1, <1>3, ConcatProperties
  <2>2. \A i \in 1 .. L : i \in 1 .. L + Len(rest) /\ i <= L
    BY <1>1, <1>3, SMT
  <2> QED BY <2>1, <2>2 DEF L
<1>6. DOMAIN b = 1 .. L + Len(rest)
  BY <1>5
<1>7. b # <<>>
  BY <1>1, <1>3, <1>5
<1> HIDE DEF b
<1>8. GroupSize \in Nat
  BY Sizes
<1>9. L \in Ends(b)
  <2>1. L \in 1 .. L + Len(rest) /\ L \in 1 .. L
    BY <1>1, <1>3, SMT
  <2> QED BY <1>1, <1>5, <1>6, <2>1 DEF Ends
<1>10. \A j \in Ends(b) : L <= j
  <2>1. ASSUME NEW j \in Ends(b), ~(L <= j) PROVE FALSE
    <3>1. j \in 1 .. L + Len(rest) /\ b[j] < GroupSize
      BY <1>6 DEF Ends
    <3>2. j \in 1 .. L - 1 /\ j \in 1 .. L
      BY <1>1, <1>3, <2>1, <3>1, SMT
    <3>3. p[j] \in Byte /\ p[j] >= GroupSize /\ b[j] = p[j]
      BY <1>1, <1>4, <1>5, <3>2
    <3> QED BY <1>8, <3>1, <3>3, SMT DEF Byte
  <2> QED BY <2>1
<1>11. L = IF Ends(b) = {} THEN Len(b) ELSE CHOOSE i \in Ends(b) : \A j \in Ends(b) : i <= j
  <2> DEFINE c == CHOOSE i \in Ends(b) : \A j \in Ends(b) : i <= j
  <2>1. c \in Ends(b) /\ \A j \in Ends(b) : c <= j
    BY <1>9, <1>10
  <2>2. c \in 1 .. L + Len(rest)
    BY <1>6, <2>1 DEF Ends
  <2>3. c <= L /\ L <= c
    BY <1>9, <1>10, <2>1
  <2> HIDE DEF c
  <2>4. c = L
    BY <1>1, <2>2, <2>3, SMT
  <2> QED BY <1>9, <2>4 DEF c
<1>12. UnpackUleb128(b) = [used |-> L, value |-> UlebValue(b, L)]
  <2>1. L = LastOf(b)
    BY <1>11 DEF LastOf
  <2> QED BY <1>7, <2>1, UnpackIs
<1>13. UlebValue(b, L) = n
  <2>1. \A i \in 1 .. L : b[i] = p[i] /\ b[i] \in Nat
    BY <1>4, <1>5, SMT DEF Byte
  <2>2. PICK Q : IsUleb(Q, b, L) /\ Q[L] = UlebValue(b, L)
    BY <1>1, <2>1, UlebFold
  <2>3. Q[L] = P[L]
    BY <1>1, <1>2, <2>1, <2>2, UlebUnique
  <2> QED BY <1>2, <2>2, <2>3
<1> QED BY <1>12, <1>13 DEF b, p, L

\* Cut before its last byte, a packed number uses up what there is of it.
LEMMA UnpackCut ==
  ASSUME NEW n \in Nat, NEW m \in 0 .. Len(PackUleb128[n]) - 1
  PROVE  LET u == UnpackUleb128(SubSeq(PackUleb128[n], 1, m))
         IN  u.used = (IF m = 0 THEN 1 ELSE m) /\ u.value \in Nat
<1> DEFINE p == PackUleb128[n]
           L == Len(p)
           b == SubSeq(p, 1, m)
<1>1. p \in Seq(Byte) /\ L \in Nat \ {0} /\ \A i \in 1 .. L - 1 : p[i] >= GroupSize
  BY PackedIs DEF IsPacked, Bytes, Byte
<1>2. \A i \in 1 .. L : p[i] \in Byte
  <2> HIDE DEF Byte
  <2> QED BY <1>1, ElementOfSeq
<1>3. m \in Nat /\ m <= L - 1
  BY <1>1, SMT
<1>4. Len(b) = m /\ b \in Seq(Byte) /\ \A i \in 1 .. m : b[i] = p[i] /\ b[i] \in Byte /\ b[i] >= GroupSize
  <2>1. 1 \in Int /\ m \in Int /\ \A i \in 1 .. m : p[i] \in Byte /\ p[i] >= GroupSize
    <3>1. \A i \in 1 .. m : i \in 1 .. L /\ i \in 1 .. L - 1
      BY <1>1, <1>3, SMT
    <3> QED BY <1>1, <1>2, <1>3, <3>1
  <2>2. b \in Seq(Byte) /\ Len(b) = (IF 1 <= m THEN m - 1 + 1 ELSE 0) /\ \A i \in 1 .. m - 1 + 1 : b[i] = p[1 + i - 1]
    <3> HIDE DEF Byte, p
    <3> QED BY <2>1, SubSeqProperties
  <2>3. m - 1 + 1 = m /\ \A i \in 1 .. m : 1 + i - 1 = i
    BY <1>3, SMT
  <2>4. (IF 1 <= m THEN m - 1 + 1 ELSE 0) = m
    BY <1>3, SMT
  <2> HIDE DEF b, p, Byte
  <2> QED BY <2>1, <2>2, <2>3, <2>4
<1>5. (b = <<>>) <=> (m = 0)
  <2>1. (Len(b) = 0) <=> (b = <<>>)
    <3> HIDE DEF b, Byte
    <3> QED BY <1>4, EmptySeq
  <2> QED BY <1>4, <2>1
<1>6. DOMAIN b = 1 .. m
  <2> HIDE DEF b
  <2> QED BY <1>4
<1> HIDE DEF b, p, L
<1>7. Ends(b) = {}
  <2>1. ASSUME NEW i \in Ends(b) PROVE FALSE
    <3>1. i \in 1 .. m /\ b[i] < GroupSize
      BY <1>6 DEF Ends
    <3>2. b[i] \in Nat /\ b[i] >= GroupSize /\ GroupSize \in Nat
      BY <1>4, <3>1, Sizes, SMT DEF Byte
    <3> QED BY <3>1, <3>2
  <2> QED BY <2>1
<1>8. UnpackUleb128(b) = [used |-> IF b = <<>> THEN 1 ELSE m, value |-> UlebValue(b, m)]
  BY <1>4, <1>7, UnpackIs DEF LastOf
<1>9. UlebValue(b, m) \in Nat
  <2>1. \A i \in 1 .. m : b[i] \in Nat
    BY <1>4, SMT DEF Byte
  <2>2. PICK Q : IsUleb(Q, b, m) /\ Q[m] = UlebValue(b, m)
    BY <1>3, <2>1, UlebFold
  <2>3. Q[m] \in Nat
    BY <1>3, <2>1, <2>2, UlebUnique
  <2> QED BY <2>2, <2>3
<1> QED BY <1>5, <1>8, <1>9 DEF b, p

\* uleb128_len is the length of the packed number.
LEMMA UlebLength ==
  \A n \in Nat : Uleb128Len(n) = Len(PackUleb128[n])
<1> DEFINE base == [v \in Nat |-> 0]
           step == [vr \in Nat \X Nat |-> 1 + vr[2]]
           down == [v \in Nat |-> IF v = 0 THEN 0 ELSE v \div GroupSize]
           size == [v \in Nat |-> v]
           Is(f) == f = [v \in Nat |-> IF v = 0 THEN 0 ELSE 1 + f[v \div GroupSize]]
<1>0. GroupSize \in Nat \ {0} /\ GroupSize >= 8
  BY Sizes, SMT
<1>1. \A v \in Nat : v \div GroupSize \in Nat /\ (v # 0 => v \div GroupSize < v)
  <2>1. ASSUME NEW v \in Nat PROVE v \div GroupSize \in Nat /\ v % GroupSize \in 0 .. GroupSize - 1
                                   /\ v = GroupSize * (v \div GroupSize) + (v % GroupSize)
    BY <1>0, Division
  <2>2. ASSUME NEW g \in Nat, g >= 8, NEW q \in Nat, NEW r \in 0 .. g - 1, g * q + r # 0 PROVE q < g * q + r
    BY <2>2, SMT
  <2> QED BY <1>0, <2>1, <2>2
<1>2. Descends(Nat, Nat, size, down, base, step)
  <2>1. base \in [Nat -> Nat] /\ size \in [Nat -> Nat]
    OBVIOUS
  <2>2. step \in [Nat \X Nat -> Nat]
    <3>1. \A r \in Nat : 1 + r \in Nat
      BY SMT
    <3> QED BY <3>1
  <2>3. down \in [Nat -> Nat] /\ \A v \in Nat : down[v] # v => size[down[v]] < size[v]
    BY <1>1
  <2> QED BY <2>1, <2>2, <2>3 DEF Descends
<1>3. PICK f \in [Nat -> Nat] : Recurses(f, Nat, base, step, down)
  <2> HIDE DEF base, step, down, size
  <2> QED BY <1>2, Recursion
<1>4. Is(f)
  <2>1. ASSUME NEW v \in Nat PROVE f[v] = IF v = 0 THEN 0 ELSE 1 + f[v \div GroupSize]
    <3>1. f[v] = IF down[v] = v THEN base[v] ELSE step[<<v, f[down[v]]>>]
      BY <1>3 DEF Recurses
    <3>2. CASE v = 0
      BY <3>1, <3>2
    <3>3. CASE v # 0
      <4>1. down[v] = v \div GroupSize /\ v \div GroupSize \in Nat /\ v \div GroupSize # v
        BY <1>1, <3>3
      <4>2. f[v \div GroupSize] \in Nat
        BY <1>3, <4>1
      <4> QED BY <3>1, <3>3, <4>1, <4>2
    <3> QED BY <3>2, <3>3
  <2> QED BY <1>3, <2>1
<1> DEFINE more == CHOOSE q : Is(q)
<1>5. Is(more)
  <2> HIDE DEF Is
  <2> QED BY <1>4
<1>6. \A n \in Nat : Uleb128Len(n) = 1 + more[n \div GroupSize]
  BY DEF Uleb128Len
<1> HIDE DEF more
<1> DEFINE T == {k \in Nat : \A n \in 0 .. k : 1 + more[n \div GroupSize] = Len(PackUleb128[n])}
<1>7. ASSUME NEW n \in Nat, n < GroupSize PROVE 1 + more[n \div GroupSize] = Len(PackUleb128[n])
  <2>1. n \div GroupSize = 0
    <3>1. GroupSize \in Nat \ {0} /\ 0 \in Int /\ n \in 0 .. GroupSize - 1 /\ n \in Int /\ n = GroupSize * 0 + n
      BY <1>0, <1>7, SMT
    <3> QED BY <3>1, DivisionUnique
  <2>2. more[0] = 0
    BY <1>5
  <2>3. PackUleb128[n] = <<n>>
    BY <1>7, PackDef
  <2> QED BY <2>1, <2>2, <2>3
<1>8. 0 \in T
  <2>1. \A n \in 0 .. 0 : n \in Nat /\ n < GroupSize
    BY <1>0, SMT
  <2> QED BY <1>7, <2>1
<1>9. ASSUME NEW k \in Nat, k \in T PROVE k + 1 \in T
  <2>1. ASSUME NEW n \in 0 .. k + 1, ~(n < GroupSize) PROVE 1 + more[n \div GroupSize] = Len(PackUleb128[n])
    <3>1. n \in Nat /\ n >= GroupSize /\ n # 0
      BY <1>0, <2>1, SMT
    <3>2. PackUleb128[n] = <<GroupSize + (n % GroupSize)>> \o PackUleb128[n \div GroupSize]
      BY PackDef, <2>1, <3>1
    <3>3. n \div GroupSize \in Nat /\ n \div GroupSize < n
      BY <1>1, <3>1
    <3>4. n \div GroupSize \in 0 .. k
      BY <3>1, <3>3, SMT
    <3>5. 1 + more[(n \div GroupSize) \div GroupSize] = Len(PackUleb128[n \div GroupSize])
      BY <1>9, <3>4
    <3>6. n \div GroupSize # 0
      <4>1. n % GroupSize \in 0 .. GroupSize - 1 /\ n = GroupSize * (n \div GroupSize) + (n % GroupSize)
        BY <1>0, <3>1, Division
      <4>2. ASSUME n \div GroupSize = 0 PROVE FALSE
        <5>1. n = n % GroupSize
          BY <1>0, <4>1, <4>2, SMT
        <5> HIDE DEF T
        <5> QED BY <1>0, <3>1, <4>1, <5>1, SMT
      <4> QED BY <4>2
    <3>7. more[n \div GroupSize] = 1 + more[(n \div GroupSize) \div GroupSize]
      BY <1>5, <3>3, <3>6
    <3>8. PackUleb128[n \div GroupSize] \in Seq(Byte)
      BY PackDef, <3>3 DEF Bytes, Byte
    <3>9. Len(PackUleb128[n]) = 1 + Len(PackUleb128[n \div GroupSize])
      <4>1. GroupSize + (n % GroupSize) \in Byte
        <5>1. n % GroupSize \in 0 .. GroupSize - 1
          BY <1>0, <3>1, Division
        <5>2. ByteSize = 2 * GroupSize
          BY Sizes, SMT
        <5> QED BY <1>0, <5>1, <5>2, SMT DEF Byte
      <4> HIDE DEF Byte
      <4> QED BY <3>2, <3>8, <4>1
    <3> QED BY <3>5, <3>7, <3>9
  <2>2. \A n \in 0 .. k + 1 : n \in Nat
    BY SMT
  <2> QED BY <1>7, <2>1, <2>2
<1>10. Nat \subseteq T
  <2> HIDE DEF T
  <2> QED BY <1>8, <1>9, NatSetInduction
<1>11. \A n \in Nat : n \in 0 .. n
  BY SMT
<1> QED BY <1>6, <1>10, <1>11

\* The bit length is the function its recursion describes.
LEMMA BitsDef ==
  /\ BitLength \in [Nat -> Nat]
  /\ \A n \in Nat : BitLength[n] = IF n = 0 THEN 0 ELSE 1 + BitLength[n \div 2]
<1> DEFINE base == [v \in Nat |-> 0]
           step == [vr \in Nat \X Nat |-> 1 + vr[2]]
           down == [v \in Nat |-> IF v = 0 THEN 0 ELSE v \div 2]
           size == [v \in Nat |-> v]
           Is(f) == f = [n \in Nat |-> IF n = 0 THEN 0 ELSE 1 + f[n \div 2]]
<1>1. \A v \in Nat : v \div 2 \in Nat /\ (v # 0 => v \div 2 < v)
  BY SMT
<1>2. Descends(Nat, Nat, size, down, base, step)
  <2>1. base \in [Nat -> Nat] /\ size \in [Nat -> Nat]
    OBVIOUS
  <2>2. step \in [Nat \X Nat -> Nat]
    <3>1. \A r \in Nat : 1 + r \in Nat
      BY SMT
    <3> QED BY <3>1
  <2>3. down \in [Nat -> Nat] /\ \A v \in Nat : down[v] # v => size[down[v]] < size[v]
    BY <1>1
  <2> QED BY <2>1, <2>2, <2>3 DEF Descends
<1>3. PICK f \in [Nat -> Nat] : Recurses(f, Nat, base, step, down)
  <2> HIDE DEF base, step, down, size
  <2> QED BY <1>2, Recursion
<1>4. Is(f)
  <2>1. ASSUME NEW v \in Nat PROVE f[v] = IF v = 0 THEN 0 ELSE 1 + f[v \div 2]
    <3>1. f[v] = IF down[v] = v THEN base[v] ELSE step[<<v, f[down[v]]>>]
      BY <1>3 DEF Recurses
    <3>2. CASE v = 0
      BY <3>1, <3>2
    <3>3. CASE v # 0
      <4>1. down[v] = v \div 2 /\ v \div 2 \in Nat /\ v \div 2 # v
        BY <1>1, <3>3
      <4>2. f[v \div 2] \in Nat
        BY <1>3, <4>1
      <4> QED BY <3>1, <3>3, <4>1, <4>2
    <3> QED BY <3>2, <3>3
  <2> QED BY <1>3, <2>1
<1>5. Is(BitLength)
  <2>1. BitLength = CHOOSE q : Is(q)
    BY DEF BitLength
  <2> HIDE DEF Is
  <2> QED BY <1>4, <2>1
<1>6. Typed(BitLength, Nat, Nat)
  <2>1. \A n \in Nat : down[n] = n => BitLength[n] = base[n]
    BY <1>1, <1>5
  <2>2. \A n \in Nat : down[n] # n /\ BitLength[down[n]] \in Nat => BitLength[n] = step[<<n, BitLength[down[n]]>>]
    BY <1>1, <1>5
  <2>3. Follows(BitLength, Nat, Nat, base, step, down)
    BY <2>1, <2>2 DEF Follows
  <2> HIDE DEF base, step, down, size
  <2> QED BY <1>2, <2>3, RecursionType
<1>7. \A n \in Nat : BitLength[n] \in Nat
  BY <1>6 DEF Typed
<1>8. BitLength = [n \in Nat |-> BitLength[n]]
  BY <1>5
<1> QED BY <1>5, <1>7, <1>8

\* A number fits its bit length.
LEMMA BitsBound == \A n \in Nat : n < Power(2, BitLength[n])
<1> DEFINE T == {k \in Nat : \A n \in 0 .. k : n < Power(2, BitLength[n])}
<1>1. 0 < Power(2, BitLength[0])
  <2>1. BitLength[0] = 0
    BY BitsDef
  <2> QED BY <2>1, PowerRec
<1>2. 0 \in T
  <2>1. \A n \in 0 .. 0 : n = 0
    BY SMT
  <2> QED BY <1>1, <2>1
<1>3. ASSUME NEW k \in Nat, k \in T PROVE k + 1 \in T
  <2>1. ASSUME NEW n \in 0 .. k + 1, n # 0 PROVE n < Power(2, BitLength[n])
    <3>1. n \in Nat /\ n \div 2 \in 0 .. k /\ n \div 2 \in Nat /\ n <= 2 * (n \div 2) + 1
      BY <2>1, SMT
    <3>2. n \div 2 < Power(2, BitLength[n \div 2])
      BY <1>3, <3>1
    <3>3. BitLength[n \div 2] \in Nat /\ BitLength[n] = BitLength[n \div 2] + 1
      BY <2>1, <3>1, BitsDef
    <3>4. Power(2, BitLength[n \div 2] + 1) = 2 * Power(2, BitLength[n \div 2])
      BY <3>3, PowerRec
    <3>5. Power(2, BitLength[n \div 2]) \in Nat
      BY <3>3, PowerNat
    <3> HIDE DEF T
    <3> QED BY <3>1, <3>2, <3>3, <3>4, <3>5, SMT
  <2> QED BY <1>1, <2>1
<1>4. Nat \subseteq T
  <2> HIDE DEF T
  <2> QED BY <1>2, <1>3, NatSetInduction
<1>5. \A n \in Nat : n \in 0 .. n
  BY SMT
<1> QED BY <1>4, <1>5

\* The bytes of an integer have room for its magnitude and its sign.
LEMMA IntegerFits ==
  ASSUME NEW v \in Int
  PROVE  /\ IntBytes(v) \in Nat \ {0}
         /\ 2 * Abs(v) < Power(ByteSize, IntBytes(v)) /\ Abs(v) \in Nat
<1> DEFINE a == Abs(v)
           bl == BitLength[a]
           n == IntBytes(v)
<1>1. a \in Nat
  BY SMT DEF Abs
<1>2. n = 1 + bl \div ByteBits
  BY DEF IntBytes, Abs
<1>3. a < Power(2, bl) /\ bl \in Nat
  BY <1>1, BitsBound, BitsDef
<1>4. ByteBits \in Nat \ {0}
  BY Sizes, SMT
<1> HIDE DEF a, bl, n
<1>5. bl \div ByteBits \in Nat /\ bl % ByteBits \in 0 .. ByteBits - 1 /\ bl = ByteBits * (bl \div ByteBits) + (bl % ByteBits)
  BY <1>3, <1>4, Division
<1>6. n \in Nat \ {0} /\ bl + 1 <= ByteBits * n /\ ByteBits * n \in Nat
  <2>1. ASSUME NEW q \in Nat PROVE ByteBits * (1 + q) = ByteBits + ByteBits * q
    BY <1>4, SMT
  <2>2. n \in Nat \ {0}
    BY <1>2, <1>5, SMT
  <2>3. ByteBits * n = ByteBits + ByteBits * (bl \div ByteBits)
    BY <1>2, <1>5, <2>1
  <2>4. ByteBits * n \in Nat
    BY <1>4, <2>2, ProductNat
  <2>5. ByteBits * (bl \div ByteBits) \in Nat
    BY <1>4, <1>5, ProductNat
  <2> QED BY <1>3, <1>4, <1>5, <2>2, <2>3, <2>4, <2>5, SMT
<1>7. Power(2, bl + 1) = 2 * Power(2, bl) /\ Power(2, bl) \in Nat /\ bl + 1 \in Nat
  <2>1. bl + 1 \in Nat
    BY <1>3, SMT
  <2> QED BY <1>3, <2>1, PowerRec, PowerNat
<1>8. Power(2, bl + 1) <= Power(2, ByteBits * n)
  BY <1>6, <1>7, PowerMonotone
<1>9. Power(ByteSize, n) = Power(2, ByteBits * n)
  <2>1. ByteBits \in Nat /\ n \in Nat
    BY <1>4, <1>6
  <2>2. Power(Power(2, ByteBits), n) = Power(2, ByteBits * n)
    BY <2>1, PowerPower
  <2> QED BY <2>2 DEF ByteSize
<1>10. Power(2, ByteBits * n) \in Nat
  BY <1>6, PowerNat
<1>11. 2 * a < Power(ByteSize, n)
  BY <1>1, <1>3, <1>7, <1>8, <1>9, <1>10, SMT
<1> QED BY <1>1, <1>6, <1>11 DEF a, n

\* Two's complement: an integer that fits comes back from its bytes.
LEMMA BytesOfInteger ==
  ASSUME NEW v \in Int, NEW n \in Nat \ {0}, 2 * Abs(v) < Power(ByteSize, n)
  PROVE  ToBytes(v, n) \in Bytes /\ Len(ToBytes(v, n)) = n /\ FromBytes(ToBytes(v, n)) = v
<1> DEFINE W == Power(ByteSize, n)
           u == IF v < 0 THEN v + W ELSE v
           d == DigitsOf(u, ByteSize, n)
           h == 4 * Power(2, SizeBits)
<1>1. ByteSize \in Nat \ {0} /\ ByteSize = 2 * h /\ h \in Nat \ {0}
  BY Sizes, SMT
<1> HIDE DEF h
<1>2. W \in Nat \ {0}
  BY <1>1, PowerPositive
<1>3. 2 * Abs(v) < W
  OBVIOUS
<1> HIDE DEF W
<1>4. u \in Nat /\ u < W
  BY <1>2, <1>3, SMT DEF Abs
<1>5. ToBytes(v, n) = d
  BY DEF ToBytes, DigitsOf, W
<1>6. d \in [1 .. n -> 0 .. ByteSize - 1] /\ Len(d) = n
  <2> HIDE DEF u
  <2> QED BY <1>1, <1>4, DigitsType
<1>7. Number(ByteSize, d) = u
  <2> HIDE DEF u
  <2> QED BY <1>1, <1>4, NumberOfDigits DEF W
<1>8. d[1] = (u \div Power(ByteSize, n - 1)) % ByteSize
  <2>1. 1 \in 1 .. n
    BY SMT
  <2> QED BY <2>1 DEF DigitsOf
<1>9. d \in Bytes
  <2> HIDE DEF d
  <2>1. n \in Nat
    OBVIOUS
  <2>2. d \in Seq(0 .. ByteSize - 1)
    BY <1>6, <2>1, FunctionIsSeq
  <2> QED BY <2>2 DEF Bytes
<1> DEFINE p == Power(ByteSize, n - 1)
<1>10. p \in Nat \ {0} /\ W = ByteSize * p
  <2>1. n - 1 \in Nat /\ (n - 1) + 1 = n
    BY SMT
  <2>2a. ByteSize \in Int /\ n - 1 \in Nat
    BY <1>1, <2>1
  <2>2b. Power(ByteSize, (n - 1) + 1) = ByteSize * Power(ByteSize, n - 1)
    BY <2>2a, PowerRec
  <2>2. Power(ByteSize, (n - 1) + 1) = ByteSize * Power(ByteSize, n - 1) /\ Power(ByteSize, n - 1) \in Nat \ {0}
    BY <1>1, <2>1, <2>2b, PowerPositive
  <2> QED BY <2>1, <2>2 DEF W
<1>11. FromBytes(d) = IF d # <<>> /\ d[1] >= ByteSize \div 2 THEN Number(ByteSize, d) - Power(ByteSize, Len(d))
                      ELSE Number(ByteSize, d)
  <2> HIDE DEF d
  <2> QED BY Zenon DEF FromBytes, Number
<1>12. d # <<>>
  <2> HIDE DEF d
  <2>1. Len(d) # 0
    BY <1>6
  <2> QED BY <2>1
<1>13. ByteSize \div 2 = h
  BY <1>1, SMT
<1>8a. d[1] = (u \div p) % ByteSize
  BY <1>8
<1> HIDE DEF d, p
<1>14. d[1] = u \div p
  <2> HIDE DEF u
  <2>1. u \div p \in Nat /\ (u \div p < ByteSize <=> u < ByteSize * p)
    BY <1>1, <1>4, <1>10, QuotientLess, Division
  <2>2. u \div p \in 0 .. ByteSize - 1
    BY <1>1, <1>4, <1>10, <2>1, SMT
  <2>3. (u \div p) % ByteSize = u \div p
    BY <1>1, <2>2, SMT
  <2> QED BY <1>8a, <2>3
<1>15. (d[1] >= h <=> u >= h * p) /\ (d[1] < h <=> u < h * p)
  <2> HIDE DEF u
  <2>1. h \in Nat /\ u \in Nat
    BY <1>1, <1>4
  <2>2. (u \div p < h <=> u < h * p) /\ (u \div p >= h <=> u >= h * p)
    BY <1>10, <2>1, QuotientLess
  <2> QED BY <1>14, <2>2
<1>16. W = 2 * (h * p) /\ h * p \in Nat
  <2>1. h * p \in Nat
    BY <1>1, <1>10, ProductNat
  <2>2. ASSUME NEW x \in Nat, NEW y \in Nat PROVE (2 * x) * y = 2 * (x * y)
    BY SMT
  <2> QED BY <1>1, <1>10, <2>1, <2>2
<1>17. FromBytes(d) = v
  <2>1. FromBytes(d) = IF d[1] >= h THEN u - W ELSE u
    BY <1>6, <1>7, <1>11, <1>12, <1>13 DEF W
  <2>2. CASE v < 0
    <3>1. u >= h * p /\ u - W = v
      BY <1>2, <1>3, <1>16, <2>2, SMT DEF Abs
    <3> QED BY <1>15, <2>1, <3>1
  <2>3. CASE ~(v < 0)
    <3>1. ~(u >= h * p) /\ u = v
      BY <1>3, <1>16, <2>3, SMT DEF Abs
    <3> QED BY <1>15, <2>1, <3>1
  <2> QED BY <2>2, <2>3
<1> QED BY <1>5, <1>6, <1>9, <1>17

\* Any bytes are an integer.
LEMMA IntegerOfBytes ==
  ASSUME NEW b \in Bytes PROVE FromBytes(b) \in Int
<1>1. ByteSize \in Nat \ {0}
  BY Sizes, SMT
<1>2. b \in Seq(Nat)
  <2>1. Seq(0 .. ByteSize - 1) \subseteq Seq(Nat)
    <3>1. 0 .. ByteSize - 1 \subseteq Nat
      BY SMT
    <3> QED BY <3>1, SeqMonotonic
  <2> QED BY <2>1 DEF Bytes
<1>3. PICK P : IsNumber(P, ByteSize, b) /\ P[Len(b)] = Number(ByteSize, b)
  BY <1>1, <1>2, NumberFold
<1> DEFINE n == Len(b)
           T == {k \in Nat : k <= n => P[k] \in Nat}
<1>4. n \in Nat /\ \A k \in 1 .. n : b[k] \in Nat
  BY <1>2, LenProperties, ElementOfSeq
<1>5. 0 \in T
  BY <1>3 DEF IsNumber
<1>6. ASSUME NEW k \in Nat, k \in T PROVE k + 1 \in T
  <2> SUFFICES ASSUME k + 1 <= n PROVE P[k + 1] \in Nat
    BY SMT
  <2>1. k + 1 \in 1 .. n /\ (k + 1) - 1 = k /\ k <= n
    BY <1>4, SMT
  <2>2. P[k + 1] = P[k] * ByteSize + b[k + 1]
    BY <1>3, <2>1 DEF IsNumber
  <2>3. P[k] \in Nat /\ b[k + 1] \in Nat
    BY <1>4, <1>6, <2>1
  <2>4. P[k] * ByteSize \in Nat
    BY <1>1, <2>3, ProductNat
  <2> HIDE DEF n
  <2> QED BY <2>2, <2>3, <2>4, SMT
<1>7. Nat \subseteq T
  <2> HIDE DEF T
  <2> QED BY <1>5, <1>6, NatSetInduction
<1>8. Number(ByteSize, b) \in Nat
  BY <1>3, <1>4, <1>7, SMT
<1>9. Power(ByteSize, n) \in Nat
  BY <1>1, <1>4, PowerNat
<1>10. FromBytes(b) = IF b # <<>> /\ b[1] >= ByteSize \div 2 THEN Number(ByteSize, b) - Power(ByteSize, Len(b))
                      ELSE Number(ByteSize, b)
  BY Zenon DEF FromBytes, Number
<1> QED BY <1>8, <1>9, <1>10, SMT

\* A prefix, element by element.
LEMMA PrefixIs ==
  ASSUME NEW S, NEW s \in Seq(S), NEW t \in Seq(S)
  PROVE  IsPrefix(s, t) <=> Len(s) <= Len(t) /\ \A i \in 1 .. Len(s) : s[i] = t[i]
<1>1. SubSeq(s, 1, Len(s)) = s /\ Len(s) \in Nat /\ Len(t) \in Nat
  BY SubSeqFull, LenProperties
<1>2. ASSUME Len(s) <= Len(t)
      PROVE  SubSeq(t, 1, Len(s)) \in Seq(S) /\ Len(SubSeq(t, 1, Len(s))) = Len(s)
             /\ \A i \in 1 .. Len(s) : SubSeq(t, 1, Len(s))[i] = t[i]
  <2>1. 1 \in Int /\ Len(s) \in Int /\ \A i \in 1 .. Len(s) : t[i] \in S
    <3>1. \A i \in 1 .. Len(s) : i \in 1 .. Len(t)
      BY <1>1, <1>2, SMT
    <3>2. \A i \in 1 .. Len(t) : t[i] \in S
      BY ElementOfSeq
    <3> QED BY <1>1, <3>1, <3>2
  <2>2. SubSeq(t, 1, Len(s)) \in Seq(S) /\ Len(SubSeq(t, 1, Len(s))) = (IF 1 <= Len(s) THEN Len(s) - 1 + 1 ELSE 0)
        /\ \A i \in 1 .. Len(s) - 1 + 1 : SubSeq(t, 1, Len(s))[i] = t[1 + i - 1]
    BY <2>1, SubSeqProperties
  <2>3. Len(s) - 1 + 1 = Len(s) /\ \A i \in 1 .. Len(s) : 1 + i - 1 = i
    BY <1>1, SMT
  <2>4. (IF 1 <= Len(s) THEN Len(s) - 1 + 1 ELSE 0) = Len(s)
    BY <1>1, SMT
  <2> QED BY <2>2, <2>3, <2>4
<1>3. ASSUME IsPrefix(s, t) PROVE Len(s) <= Len(t) /\ \A i \in 1 .. Len(s) : s[i] = t[i]
  <2>1. Len(s) <= Len(t) /\ s = SubSeq(t, 1, Len(s))
    BY <1>1, <1>3 DEF IsPrefix
  <2> QED BY <1>2, <2>1
<1>4. ASSUME Len(s) <= Len(t), \A i \in 1 .. Len(s) : s[i] = t[i] PROVE IsPrefix(s, t)
  <2>1. s = SubSeq(t, 1, Len(s))
    <3> DEFINE x == SubSeq(t, 1, Len(s))
    <3>1. x \in Seq(S) /\ Len(s) = Len(x) /\ \A i \in 1 .. Len(s) : s[i] = x[i]
      BY <1>2, <1>4
    <3> HIDE DEF x
    <3>2. s = x
      BY <3>1, SeqEqual
    <3> QED BY <3>2 DEF x
  <2> QED BY <1>1, <1>4, <2>1 DEF IsPrefix
<1> QED BY <1>3, <1>4

\* What stands in front is a prefix.
LEMMA PrefixOfConcat ==
  ASSUME NEW S, NEW s \in Seq(S), NEW t \in Seq(S)
  PROVE  IsPrefix(s, s \o t)
<1>1. s \o t \in Seq(S) /\ Len(s \o t) = Len(s) + Len(t) /\ Len(s) \in Nat /\ Len(t) \in Nat
      /\ \A i \in 1 .. Len(s) + Len(t) : (s \o t)[i] = IF i <= Len(s) THEN s[i] ELSE t[i - Len(s)]
  BY ConcatProperties, LenProperties
<1>2. \A i \in 1 .. Len(s) : i \in 1 .. Len(s) + Len(t) /\ i <= Len(s)
  BY <1>1, SMT
<1>3. \A i \in 1 .. Len(s) : s[i] = (s \o t)[i]
  BY <1>1, <1>2
<1>4. Len(s) <= Len(s \o t)
  BY <1>1
<1> DEFINE x == s \o t
<1>5. x \in Seq(S) /\ Len(s) <= Len(x) /\ \A i \in 1 .. Len(s) : s[i] = x[i]
  BY <1>1, <1>3, <1>4
<1> HIDE DEF x
<1>6. IsPrefix(s, x)
  BY <1>5, PrefixIs
<1> QED BY <1>6 DEF x

\* Of two prefixes of one sequence, one is a prefix of the other.
LEMMA PrefixesNest ==
  ASSUME NEW S, NEW a \in Seq(S), NEW b \in Seq(S), NEW c \in Seq(S), IsPrefix(a, c), IsPrefix(b, c)
  PROVE  IsPrefix(a, b) \/ IsPrefix(b, a)
<1>1. /\ Len(a) <= Len(c) /\ \A i \in 1 .. Len(a) : a[i] = c[i]
      /\ Len(b) <= Len(c) /\ \A i \in 1 .. Len(b) : b[i] = c[i]
      /\ Len(a) \in Nat /\ Len(b) \in Nat
  BY PrefixIs, LenProperties
<1>2. CASE Len(a) <= Len(b)
  <2>1. \A i \in 1 .. Len(a) : i \in 1 .. Len(b)
    BY <1>1, <1>2, SMT
  <2>2. \A i \in 1 .. Len(a) : a[i] = b[i]
    BY <1>1, <2>1
  <2> QED BY <1>2, <2>2, PrefixIs
<1>3. CASE Len(b) <= Len(a)
  <2>1. \A i \in 1 .. Len(b) : i \in 1 .. Len(a)
    BY <1>1, <1>3, SMT
  <2>2. \A i \in 1 .. Len(b) : b[i] = a[i]
    BY <1>1, <2>1
  <2> QED BY <1>3, <2>2, PrefixIs
<1> QED BY <1>1, <1>2, <1>3, SMT

--------------------------------------------------------------------------------
Characters == DOMAIN Utf8

\* A character has at least one byte.
LEMMA CharacterBytes ==
  ASSUME NEW c \in Characters
  PROVE  Utf8[c] \in Seq(Byte) /\ Len(Utf8[c]) \in Nat \ {0}
<1>1. Utf8[c] \in Seq(Byte) /\ Utf8[c] # <<>>
  BY CodecAssumption DEF Characters, Byte
<1> HIDE DEF Byte
<1>2. Len(Utf8[c]) \in Nat /\ Len(Utf8[c]) # 0
  BY <1>1, EmptySeq, LenProperties
<1> QED BY <1>1, <1>2

StringBytes(s) == FlattenSeq([i \in DOMAIN s |-> Utf8[s[i]]])

\* The empty string has no bytes.
LEMMA NoCharacters == StringBytes(<<>>) = <<>>
<1> DEFINE F == [i \in DOMAIN <<>> |-> Utf8[<<>>[i]]]
<1>1. DOMAIN F = 1 .. 0 /\ F = [i \in 1 .. 0 |-> F[i]]
  <2>1. DOMAIN <<>> = 1 .. 0
    BY SMT
  <2> QED BY <2>1
<1> HIDE DEF F
<1>2. FlattenSeq(F) = <<>>
  BY <1>1, FlattenEmpty
<1> QED BY <1>2 DEF F, StringBytes

\* A sequence with one more element in front.
LEMMA ConsIs ==
  ASSUME NEW S, NEW x \in S, NEW s \in Seq(S)
  PROVE  LET t == <<x>> \o s
         IN  /\ t \in Seq(S) /\ Len(t) = Len(s) + 1 /\ DOMAIN t = 1 .. Len(s) + 1 /\ DOMAIN s = 1 .. Len(s)
             /\ t[1] = x /\ \A i \in 1 .. Len(s) : t[i + 1] = s[i]
<1>1. <<x>> \in Seq(S) /\ Len(<<x>>) = 1 /\ <<x>>[1] = x /\ Len(s) \in Nat
  BY LenProperties
<1>2. <<x>> \o s \in Seq(S) /\ Len(<<x>> \o s) = 1 + Len(s)
      /\ \A i \in 1 .. 1 + Len(s) : (<<x>> \o s)[i] = IF i <= 1 THEN <<x>>[i] ELSE s[i - 1]
  <2>1. <<x>> \o s \in Seq(S) /\ Len(<<x>> \o s) = Len(<<x>>) + Len(s)
        /\ \A i \in 1 .. Len(<<x>>) + Len(s) : (<<x>> \o s)[i] = IF i <= Len(<<x>>) THEN <<x>>[i] ELSE s[i - Len(<<x>>)]
    BY <1>1, ConcatProperties
  <2> QED BY <1>1, <2>1
<1>3. 1 + Len(s) = Len(s) + 1
  BY <1>1, SMT
<1>4. DOMAIN (<<x>> \o s) = 1 .. Len(s) + 1 /\ DOMAIN s = 1 .. Len(s)
  BY <1>2, <1>3, LenProperties
<1>5. 1 \in 1 .. 1 + Len(s) /\ 1 <= 1 /\ \A i \in 1 .. Len(s) : i + 1 \in 1 .. 1 + Len(s) /\ ~(i + 1 <= 1) /\ (i + 1) - 1 = i
  BY <1>1, SMT
<1>6. (<<x>> \o s)[1] = x
  BY <1>1, <1>2, <1>5
<1>7. \A i \in 1 .. Len(s) : (<<x>> \o s)[i + 1] = s[i]
  BY <1>2, <1>5
<1> QED BY <1>2, <1>3, <1>4, <1>6, <1>7

\* Mapping the elements of a sequence to sequences and flattening them.
Mapped(g, s) == FlattenSeq([i \in DOMAIN s |-> g[s[i]]])

\* What the first element maps to comes first.
LEMMA FlattenMapCons ==
  ASSUME NEW S, NEW R, NEW g \in [S -> Seq(R)], NEW x \in S, NEW s \in Seq(S)
  PROVE  Mapped(g, <<x>> \o s) = g[x] \o Mapped(g, s) /\ Mapped(g, s) \in Seq(R)
<1> DEFINE t == <<x>> \o s
           n == Len(s)
           F == [i \in 1 .. n + 1 |-> g[t[i]]]
           G == [i \in 1 .. n |-> F[i + 1]]
<1>1. /\ t \in Seq(S) /\ DOMAIN t = 1 .. n + 1 /\ DOMAIN s = 1 .. n
      /\ t[1] = x /\ \A i \in 1 .. n : t[i + 1] = s[i]
      /\ \A i \in 1 .. n + 1 : t[i] \in S
  <2>1. /\ t \in Seq(S) /\ Len(t) = n + 1 /\ DOMAIN t = 1 .. n + 1 /\ DOMAIN s = 1 .. n
        /\ t[1] = x /\ \A i \in 1 .. n : t[i + 1] = s[i]
    BY ConsIs
  <2> HIDE DEF t
  <2> QED BY <2>1, ElementOfSeq
<1>2. n \in Nat
  BY LenProperties
<1> HIDE DEF n, t
<1>3. F \in [1 .. n + 1 -> Seq(R)]
  BY <1>1
<1>4. 1 \in 1 .. n + 1 /\ \A i \in 1 .. n : i + 1 \in 1 .. n + 1
  BY <1>2, SMT
<1>5. F[1] = g[x] /\ G = [i \in 1 .. n |-> g[s[i]]]
  BY <1>1, <1>4
<1> HIDE DEF F
<1>6. FlattenSeq(F) = F[1] \o FlattenSeq(G) /\ FlattenSeq(G) \in Seq(R)
  BY <1>2, <1>3, FlattenCons
<1>7. FlattenSeq([i \in DOMAIN t |-> g[t[i]]]) = g[x] \o FlattenSeq([i \in DOMAIN s |-> g[s[i]]])
  <2>1. FlattenSeq(F) = FlattenSeq([i \in DOMAIN t |-> g[t[i]]])
    BY <1>1 DEF F
  <2>2. FlattenSeq(G) = FlattenSeq([i \in DOMAIN s |-> g[s[i]]])
    BY <1>1, <1>5
  <2> QED BY <1>5, <1>6, <2>1, <2>2
<1>8. FlattenSeq([i \in DOMAIN s |-> g[s[i]]]) \in Seq(R)
  BY <1>1, <1>5, <1>6
<1> QED BY <1>7, <1>8 DEF t, Mapped

--------------------------------------------------------------------------------
(* Decoding. *)

\* The bytes of a string: those of its first character, then the rest.
LEMMA StringCons ==
  ASSUME NEW c \in Characters, NEW s \in Seq(Characters)
  PROVE  StringBytes(<<c>> \o s) = Utf8[c] \o StringBytes(s) /\ StringBytes(s) \in Seq(Byte)
<1> DEFINE g == [d \in Characters |-> Utf8[d]]
<1>1. g \in [Characters -> Seq(Byte)]
  <2> HIDE DEF Byte
  <2> QED BY CharacterBytes
<1>2. \A t \in Seq(Characters) : Mapped(g, t) = StringBytes(t)
  <2>1. ASSUME NEW t \in Seq(Characters) PROVE Mapped(g, t) = StringBytes(t)
    <3>1. DOMAIN t = 1 .. Len(t) /\ \A i \in 1 .. Len(t) : t[i] \in Characters
      BY LenProperties, ElementOfSeq
    <3>2. [i \in DOMAIN t |-> g[t[i]]] = [i \in DOMAIN t |-> Utf8[t[i]]]
      BY <3>1
    <3> HIDE DEF g
    <3> QED BY <3>2 DEF StringBytes, Mapped
  <2> QED BY <2>1
<1>3. g[c] = Utf8[c] /\ <<c>> \o s \in Seq(Characters)
  <2>1. <<c>> \o s \in Seq(Characters)
    BY ConsIs
  <2> QED BY <2>1
<1> HIDE DEF g
<1>4. Mapped(g, <<c>> \o s) = g[c] \o Mapped(g, s) /\ Mapped(g, s) \in Seq(Byte)
  <2> HIDE DEF Byte
  <2> QED BY <1>1, FlattenMapCons
<1> QED BY <1>2, <1>3, <1>4

\* The bytes of a string are bytes.
LEMMA StringType == \A s \in Seq(Characters) : StringBytes(s) \in Seq(Byte)
<1>1. \A s \in Seq(Characters) : \A c \in Characters : StringBytes(s) \in Seq(Byte)
  BY StringCons
<1>2. StringBytes(<<>>) \in Seq(Byte)
  BY NoCharacters, EmptySeq
<1> HIDE DEF Byte
<1>3. ASSUME NEW s \in Seq(Characters), s # <<>> PROVE StringBytes(s) \in Seq(Byte)
  <2>1. Head(s) \in Characters
    BY <1>3, HeadTailProperties
  <2> QED BY <1>1, <2>1
<1> QED BY <1>2, <1>3

\* At most one string.
OneString == {{}} \cup {{s} : s \in Seq(Characters)}

Starts(b) == {c \in Characters : IsPrefix(Utf8[c], b)}
First(b) == CHOOSE c \in Starts(b) : TRUE
AfterFirst(b) == SubSeq(b, Len(Utf8[First(b)]) + 1, Len(b))

\* Decoding a character makes progress.
LEMMA AfterFirstShorter ==
  ASSUME NEW b \in Bytes, Starts(b) # {}
  PROVE  First(b) \in Characters /\ AfterFirst(b) \in Bytes /\ Len(AfterFirst(b)) < Len(b)
<1>1. First(b) \in Characters /\ IsPrefix(Utf8[First(b)], b)
  BY DEF First, Starts
<1>2. Utf8[First(b)] \in Seq(Byte) /\ Len(Utf8[First(b)]) \in Nat \ {0}
  BY <1>1, CharacterBytes
<1>3. b \in Seq(Byte)
  BY DEF Bytes, Byte
<1>4. Len(b) \in Nat /\ Len(Utf8[First(b)]) <= Len(b)
  <2> HIDE DEF Byte
  <2> QED BY <1>1, <1>2, <1>3, PrefixIs, LenProperties
<1> DEFINE m == Len(Utf8[First(b)]) + 1
<1>5. m \in Int /\ m > 1 /\ Len(b) \in Int /\ \A i \in m .. Len(b) : b[i] \in Byte
  <2>1. m \in Int /\ m > 1 /\ \A i \in m .. Len(b) : i \in 1 .. Len(b)
    BY <1>2, <1>4, SMT
  <2>2. \A i \in 1 .. Len(b) : b[i] \in Byte
    <3> HIDE DEF Byte
    <3> QED BY <1>3, ElementOfSeq
  <2> QED BY <1>4, <2>1, <2>2
<1>6. SubSeq(b, m, Len(b)) \in Seq(Byte) /\ Len(SubSeq(b, m, Len(b))) = IF m <= Len(b) THEN Len(b) - m + 1 ELSE 0
  <2> HIDE DEF m, Byte
  <2> QED BY <1>5, SubSeqProperties
<1>7. Len(SubSeq(b, m, Len(b))) < Len(b)
  <2> HIDE DEF m
  <2>1. Len(b) >= 1
    BY <1>2, <1>4, SMT
  <2> QED BY <1>4, <1>5, <1>6, <2>1, SMT
<1> QED BY <1>1, <1>6, <1>7 DEF AfterFirst, m, Bytes, Byte

\* decode_utf8 is the function its recursion describes, and finds at most one string.
LEMMA DecodeUtf8Def ==
  \A b \in Bytes : /\ DecodeUtf8[b] \in OneString
                   /\ DecodeUtf8[b] = IF b = <<>> THEN {<<>>} ELSE IF Starts(b) = {} THEN {}
                                      ELSE {<<First(b)>> \o rest : rest \in DecodeUtf8[AfterFirst(b)]}
<1> DEFINE Stops(b) == b = <<>> \/ Starts(b) = {}
           base == [b \in Bytes |-> IF b = <<>> THEN {<<>>} ELSE {}]
           step == [bv \in Bytes \X OneString |-> IF Stops(bv[1]) THEN {} ELSE {<<First(bv[1])>> \o rest : rest \in bv[2]}]
           down == [b \in Bytes |-> IF Stops(b) THEN b ELSE AfterFirst(b)]
           size == [b \in Bytes |-> Len(b)]
           Is(f) == f = [b \in Bytes |-> IF b = <<>> THEN {<<>>} ELSE IF Starts(b) = {} THEN {}
                                         ELSE {<<First(b)>> \o rest : rest \in f[AfterFirst(b)]}]
<1>1. \A b \in Bytes : ~Stops(b) => First(b) \in Characters /\ AfterFirst(b) \in Bytes /\ AfterFirst(b) # b
                                    /\ Len(AfterFirst(b)) < Len(b) /\ Len(b) \in Nat
  <2>1. ASSUME NEW b \in Bytes, ~Stops(b)
        PROVE First(b) \in Characters /\ AfterFirst(b) \in Bytes /\ Len(AfterFirst(b)) < Len(b) /\ Len(b) \in Nat
    <3>1. Len(b) \in Nat
      BY LenProperties DEF Bytes
    <3> QED BY <2>1, <3>1, AfterFirstShorter
  <2>2. ASSUME NEW b \in Bytes, ~Stops(b) PROVE AfterFirst(b) # b
    <3>1. Len(AfterFirst(b)) < Len(b) /\ Len(b) \in Nat
      BY <2>1, <2>2
    <3>2. ASSUME AfterFirst(b) = b PROVE FALSE
      <4>1. Len(b) < Len(b)
        BY <3>1, <3>2
      <4> QED BY <3>1, <4>1
    <3> QED BY <3>2
  <2> HIDE DEF Stops
  <2> QED BY <2>1, <2>2
<1>2. base \in [Bytes -> OneString]
  BY EmptySeq DEF OneString
<1>3. step \in [Bytes \X OneString -> OneString]
  <2>1. ASSUME NEW b \in Bytes, NEW v \in OneString, ~Stops(b) PROVE {<<First(b)>> \o rest : rest \in v} \in OneString
    <3>1. First(b) \in Characters
      BY <1>1, <2>1
    <3>2. CASE v = {}
      BY <3>2 DEF OneString
    <3>3. CASE v # {}
      <4>1. PICK s \in Seq(Characters) : v = {s}
        BY <3>3 DEF OneString
      <4>2. <<First(b)>> \o s \in Seq(Characters)
        BY <3>1, ConsIs
      <4>3. {<<First(b)>> \o rest : rest \in v} = {<<First(b)>> \o s}
        BY <4>1
      <4> QED BY <4>2, <4>3 DEF OneString
    <3> QED BY <3>2, <3>3
  <2>2. {} \in OneString
    BY DEF OneString
  <2>3. ASSUME NEW b \in Bytes, NEW v \in OneString
        PROVE (IF Stops(b) THEN {} ELSE {<<First(b)>> \o rest : rest \in v}) \in OneString
    <3> HIDE DEF Stops
    <3>1. CASE Stops(b)
      BY <2>2, <3>1
    <3>2. CASE ~Stops(b)
      BY <2>1, <3>2
    <3> QED BY <3>1, <3>2
  <2> HIDE DEF Stops
  <2> QED BY <2>3
<1>4. /\ size \in [Bytes -> Nat] /\ down \in [Bytes -> Bytes]
      /\ \A b \in Bytes : down[b] # b => size[down[b]] < size[b]
  <2>1. \A b \in Bytes : Len(b) \in Nat
    BY LenProperties DEF Bytes
  <2> HIDE DEF Stops
  <2> QED BY <1>1, <2>1
<1>5. Descends(Bytes, OneString, size, down, base, step)
  <2> HIDE DEF base, step, down, size
  <2> QED BY <1>2, <1>3, <1>4 DEF Descends
<1>6. PICK f \in [Bytes -> OneString] : Recurses(f, Bytes, base, step, down)
  <2> HIDE DEF base, step, down, size
  <2> QED BY <1>5, Recursion
<1>7. Is(f)
  <2>1. ASSUME NEW b \in Bytes
        PROVE  f[b] = IF b = <<>> THEN {<<>>} ELSE IF Starts(b) = {} THEN {}
                      ELSE {<<First(b)>> \o rest : rest \in f[AfterFirst(b)]}
    <3>1. f[b] = IF down[b] = b THEN base[b] ELSE step[<<b, f[down[b]]>>]
      BY <1>6 DEF Recurses
    <3>2. CASE Stops(b)
      BY <3>1, <3>2
    <3>3. CASE ~Stops(b)
      <4>1. down[b] = AfterFirst(b) /\ AfterFirst(b) \in Bytes /\ AfterFirst(b) # b
        BY <1>1, <3>3
      <4>2. f[AfterFirst(b)] \in OneString
        BY <1>6, <4>1
      <4>3. f[b] = step[<<b, f[AfterFirst(b)]>>]
        BY <3>1, <4>1
      <4>4. step[<<b, f[AfterFirst(b)]>>] = {<<First(b)>> \o rest : rest \in f[AfterFirst(b)]}
        BY <3>3, <4>2
      <4> HIDE DEF step
      <4> QED BY <3>3, <4>3, <4>4
    <3> QED BY <3>2, <3>3
  <2> QED BY <1>6, <2>1
<1>8. Is(DecodeUtf8)
  <2>1. DecodeUtf8 = CHOOSE q : Is(q)
    BY Zenon DEF DecodeUtf8, Starts, First, AfterFirst, Characters
  <2> HIDE DEF Is
  <2> QED BY <1>7, <2>1
<1>9. Typed(DecodeUtf8, Bytes, OneString)
  <2>1. \A b \in Bytes : down[b] = b => DecodeUtf8[b] = base[b]
    BY <1>1, <1>8
  <2>2. ASSUME NEW b \in Bytes, down[b] # b, DecodeUtf8[down[b]] \in OneString
        PROVE  DecodeUtf8[b] = step[<<b, DecodeUtf8[down[b]]>>]
    <3>1. ~Stops(b) /\ down[b] = AfterFirst(b)
      BY <2>2
    <3>2. DecodeUtf8[b] = {<<First(b)>> \o rest : rest \in DecodeUtf8[AfterFirst(b)]}
      BY <1>8, <3>1
    <3> QED BY <2>2, <3>1, <3>2
  <2>3. Follows(DecodeUtf8, Bytes, OneString, base, step, down)
    <3> HIDE DEF base, step, down, Is
    <3> QED BY <2>1, <2>2 DEF Follows
  <2> HIDE DEF base, step, down, size
  <2> QED BY <1>5, <2>3, RecursionType
<1>10. \A b \in Bytes : DecodeUtf8[b] \in OneString
  BY <1>9 DEF Typed
<1> QED BY <1>8, <1>10

\* A string comes back from its bytes: UTF-8 is prefix free.
LEMMA DecodeString ==
  \A s \in Seq(Characters) : DecodeUtf8[StringBytes(s)] = {s}
<1> DEFINE T == {s \in Seq(Characters) : DecodeUtf8[StringBytes(s)] = {s}}
<1>1. <<>> \in T
  <2>1. <<>> \in Bytes
    BY EmptySeq DEF Bytes
  <2>2. DecodeUtf8[<<>>] = {<<>>}
    BY <2>1, DecodeUtf8Def
  <2> QED BY <2>2, NoCharacters, EmptySeq
<1>2. ASSUME NEW c \in Characters, NEW s \in Seq(Characters), s \in T PROVE <<c>> \o s \in T
  <2> DEFINE t == <<c>> \o s
             u == Utf8[c]
             e == StringBytes(s)
             b == u \o e
  <2>1. StringBytes(t) = b /\ e \in Seq(Byte)
    BY StringCons
  <2>2. u \in Seq(Byte) /\ Len(u) \in Nat \ {0}
    BY CharacterBytes
  <2>3. t \in Seq(Characters)
    BY ConsIs
  <2>4. DecodeUtf8[e] = {s}
    BY <1>2
  <2> HIDE DEF T, t, e, u
  <2>5. b \in Bytes /\ e \in Bytes /\ b # <<>>
    <3>1. b \in Seq(Byte) /\ Len(b) = Len(u) + Len(e) /\ Len(e) \in Nat
      <4> HIDE DEF Byte
      <4> QED BY <2>1, <2>2, ConcatProperties, LenProperties
    <3>2. Len(b) # 0
      BY <2>2, <3>1, SMT
    <3>3. b # <<>>
      BY <3>2
    <3> QED BY <2>1, <3>1, <3>3 DEF Bytes, Byte
  <2>6. Starts(b) = {c}
    <3>1. IsPrefix(u, b)
      <4> HIDE DEF Byte
      <4> QED BY <2>1, <2>2, PrefixOfConcat
    <3>2. ASSUME NEW d \in Starts(b) PROVE d = c
      <4>1. d \in Characters /\ IsPrefix(Utf8[d], b)
        BY DEF Starts
      <4>2. Utf8[d] \in Seq(Byte)
        BY <4>1, CharacterBytes
      <4>3. b \in Seq(Byte)
        BY <2>5 DEF Bytes, Byte
      <4>4. IsPrefix(Utf8[d], u) \/ IsPrefix(u, Utf8[d])
        <5> HIDE DEF Byte, b
        <5> QED BY <2>2, <3>1, <4>1, <4>2, <4>3, PrefixesNest
      <4> QED BY <4>1, <4>4, CodecAssumption DEF u, Characters
    <3>3. c \in Starts(b)
      BY <3>1 DEF Starts, u
    <3> QED BY <3>2, <3>3
  <2>7. First(b) = c
    BY <2>6 DEF First
  <2>8. AfterFirst(b) = e
    <3>1. SubSeq(b, Len(u) + 1, Len(b)) = e
      <4> HIDE DEF Byte
      <4> QED BY <2>1, <2>2, CutAtJoint
    <3> QED BY <2>7, <3>1 DEF AfterFirst, u
  <2>9. DecodeUtf8[b] = {<<First(b)>> \o rest : rest \in DecodeUtf8[AfterFirst(b)]}
    BY <2>5, <2>6, DecodeUtf8Def
  <2>10. DecodeUtf8[b] = {t}
    BY <2>4, <2>7, <2>8, <2>9 DEF t
  <2>11. t \in T
    BY <2>1, <2>3, <2>10 DEF T
  <2> QED BY <2>11 DEF t
<1>3. Seq(Characters) \subseteq T
  <2> HIDE DEF T
  <2> QED BY <1>1, <1>2, SeqSetInduction
<1> QED BY <1>3

Encodable ==
    [type : {"boolean"}, value : BOOLEAN] \cup [type : {"integer"}, value : Int]
    \cup [type : {"float"}, value : [1 .. FloatBytes -> Byte]]
    \cup [type : {"bytes"}, value : Bytes] \cup [type : {"string"}, value : Seq(Characters)]

\* At most one choice.
OneChoice == {{}} \cup {{c} : c \in Encodable}

\* A payload under its tag stands for the choice it was made of.
LEMMA Tagged ==
  ASSUME NEW c \in Encodable, c.type # "boolean"
  PROVE  /\ Payload(c) \in Bytes /\ Tags[c.type] \in 1 .. 4
         /\ DecodePayload(Tags[c.type], Payload(c)) = {c}
         /\ c.type \in {"integer", "float", "bytes", "string"}
         /\ c.type = "float" => Len(Payload(c)) = FloatBytes
<1>1. CASE c \in [type : {"integer"}, value : Int]
  <2>1. PICK v \in Int : c = [type |-> "integer", value |-> v]
    BY <1>1
  <2>2. Payload(c) = ToBytes(v, IntBytes(v)) /\ c.type = "integer"
    BY <2>1 DEF Payload
  <2>3. ToBytes(v, IntBytes(v)) \in Bytes /\ FromBytes(ToBytes(v, IntBytes(v))) = v
    <3>1. IntBytes(v) \in Nat \ {0} /\ 2 * Abs(v) < Power(ByteSize, IntBytes(v))
      BY IntegerFits
    <3> QED BY <3>1, BytesOfInteger
  <2>4. Tags[c.type] = 2
    BY <2>2 DEF Tags
  <2>5. DecodePayload(2, ToBytes(v, IntBytes(v))) = {[type |-> "integer", value |-> v]}
    BY <2>3 DEF DecodePayload
  <2> QED BY <2>1, <2>2, <2>3, <2>4, <2>5
<1>2. CASE c \in [type : {"float"}, value : [1 .. FloatBytes -> Byte]]
  <2>1. PICK v \in [1 .. FloatBytes -> Byte] : c = [type |-> "float", value |-> v]
    BY <1>2
  <2>2. Payload(c) = v /\ c.type = "float"
    BY <2>1 DEF Payload
  <2>3. v \in Bytes /\ Len(v) = FloatBytes
    <3>1. FloatBytes \in Nat
      BY CodecAssumption, Sizes, SMT
    <3>2. v \in Seq(Byte) /\ Len(v) = FloatBytes
      <4> HIDE DEF Byte
      <4> QED BY <3>1, FunctionIsSeq
    <3> QED BY <3>2 DEF Bytes, Byte
  <2>4. Tags[c.type] = 1
    BY <2>2 DEF Tags
  <2>5. DecodePayload(1, v) = {[type |-> "float", value |-> v]}
    BY DEF DecodePayload, Byte
  <2> QED BY <2>1, <2>2, <2>3, <2>4, <2>5
<1>3. CASE c \in [type : {"bytes"}, value : Bytes]
  <2>1. PICK v \in Bytes : c = [type |-> "bytes", value |-> v]
    BY <1>3
  <2>2. Payload(c) = v /\ c.type = "bytes"
    BY <2>1 DEF Payload
  <2>4. Tags[c.type] = 3
    BY <2>2 DEF Tags
  <2>5. DecodePayload(3, v) = {[type |-> "bytes", value |-> v]}
    BY DEF DecodePayload
  <2> QED BY <2>1, <2>2, <2>4, <2>5
<1>4. CASE c \in [type : {"string"}, value : Seq(Characters)]
  <2>1. PICK v \in Seq(Characters) : c = [type |-> "string", value |-> v]
    BY <1>4
  <2>2. Payload(c) = StringBytes(v) /\ c.type = "string"
    BY <2>1 DEF Payload, StringBytes
  <2>3. StringBytes(v) \in Bytes /\ DecodeUtf8[StringBytes(v)] = {v}
    BY StringType, DecodeString DEF Bytes, Byte
  <2>4. Tags[c.type] = 4
    BY <2>2 DEF Tags
  <2>5. DecodePayload(4, StringBytes(v)) = {[type |-> "string", value |-> v]}
    BY <2>3 DEF DecodePayload
  <2> QED BY <2>1, <2>2, <2>3, <2>4, <2>5
<1> QED BY <1>1, <1>2, <1>3, <1>4 DEF Encodable

\* Any payload stands for at most one choice, one the program can record.
LEMMA PayloadType ==
  ASSUME NEW tag \in Nat, NEW b \in Bytes PROVE DecodePayload(tag, b) \in OneChoice
<1>1. CASE tag = 1
  <2>1. DecodePayload(1, b) = {[type |-> "float", value |-> v] : v \in {b} \cap [1 .. FloatBytes -> Byte]}
    BY DEF DecodePayload, Byte
  <2>2. CASE b \in [1 .. FloatBytes -> Byte]
    <3>1. DecodePayload(1, b) = {[type |-> "float", value |-> b]}
      BY <2>1, <2>2
    <3>2. [type |-> "float", value |-> b] \in Encodable
      BY <2>2 DEF Encodable
    <3> QED BY <1>1, <3>1, <3>2 DEF OneChoice
  <2>3. CASE b \notin [1 .. FloatBytes -> Byte]
    <3>1. DecodePayload(1, b) = {}
      BY <2>1, <2>3
    <3> QED BY <1>1, <3>1 DEF OneChoice
  <2> QED BY <2>2, <2>3
<1>2. CASE tag = 2
  <2>1. DecodePayload(2, b) = {[type |-> "integer", value |-> FromBytes(b)]}
    BY DEF DecodePayload
  <2>2. [type |-> "integer", value |-> FromBytes(b)] \in Encodable
    BY IntegerOfBytes DEF Encodable
  <2> QED BY <1>2, <2>1, <2>2 DEF OneChoice
<1>3. CASE tag = 3
  <2>1. DecodePayload(3, b) = {[type |-> "bytes", value |-> b]}
    BY DEF DecodePayload
  <2>2. [type |-> "bytes", value |-> b] \in Encodable
    BY DEF Encodable
  <2> QED BY <1>3, <2>1, <2>2 DEF OneChoice
<1>4. CASE tag = 4
  <2>1. DecodePayload(4, b) = {[type |-> "string", value |-> s] : s \in DecodeUtf8[b]}
    BY DEF DecodePayload
  <2>2. DecodeUtf8[b] \in OneString
    BY DecodeUtf8Def
  <2>3. CASE DecodeUtf8[b] = {}
    BY <1>4, <2>1, <2>3 DEF OneChoice
  <2>4. CASE DecodeUtf8[b] # {}
    <3>1. PICK s \in Seq(Characters) : DecodeUtf8[b] = {s}
      BY <2>2, <2>4 DEF OneString
    <3>2. DecodePayload(4, b) = {[type |-> "string", value |-> s]}
      BY <2>1, <3>1
    <3>3. [type |-> "string", value |-> s] \in Encodable
      BY DEF Encodable
    <3> QED BY <1>4, <3>2, <3>3 DEF OneChoice
  <2> QED BY <2>3, <2>4
<1>5. CASE tag \notin {1, 2, 3, 4}
  <2>1. DecodePayload(tag, b) = {}
    BY <1>5 DEF DecodePayload
  <2> QED BY <2>1 DEF OneChoice
<1> QED BY <1>1, <1>2, <1>3, <1>4, <1>5

--------------------------------------------------------------------------------
TagOf(b)   == b[1] \div Power(2, SizeBits)
SmallOf(b) == b[1] % Power(2, SizeBits)
StartOf(b) == IF TagOf(b) # 0 /\ SmallOf(b) = SizeMask THEN 1 + UnpackUleb128(Tail(b)).used ELSE 1
SizeOf(b)  == IF TagOf(b) = 0 THEN 0 ELSE IF SmallOf(b) = SizeMask THEN UnpackUleb128(Tail(b)).value ELSE SmallOf(b)

\* The first choice of a buffer, by its parts.
LEMMA DecodeFirstIs ==
  ASSUME NEW b
  PROVE  /\ DecodeFirst(b).end = StartOf(b) + SizeOf(b)
         /\ DecodeFirst(b).choice = IF TagOf(b) = 0 THEN {[type |-> "boolean", value |-> SmallOf(b) # 0]}
                    ELSE IF StartOf(b) + SizeOf(b) > Len(b) THEN {}
                    ELSE DecodePayload(TagOf(b), SubSeq(b, StartOf(b) + 1, StartOf(b) + SizeOf(b)))
BY DEF DecodeFirst, TagOf, SmallOf, StartOf, SizeOf

HeadOf(tag, size) == IF size < SizeMask THEN <<tag * Power(2, SizeBits) + size>>
                     ELSE <<tag * Power(2, SizeBits) + SizeMask>> \o PackUleb128[size]

\* Tag and size come back from their byte.
LEMMA TagByte ==
  ASSUME NEW tag \in 0 .. 4, NEW s \in 0 .. SizeMask
  PROVE  /\ tag * Power(2, SizeBits) + s \in Byte
         /\ (tag * Power(2, SizeBits) + s) \div Power(2, SizeBits) = tag
         /\ (tag * Power(2, SizeBits) + s) % Power(2, SizeBits) = s
<1> DEFINE p == Power(2, SizeBits)
<1>1. p \in Nat \ {0} /\ SizeMask = p - 1 /\ ByteSize = 8 * p
  BY Sizes, SMT
<1> HIDE DEF p
<1>2. s \in 0 .. p - 1 /\ s \in Nat
  BY <1>1, SMT
<1>3. tag * p <= 4 * p /\ tag * p \in Nat
  <2>1. tag \in Nat /\ tag <= 4 /\ 4 \in Nat /\ p \in Nat
    BY <1>1, SMT
  <2> QED BY <2>1, ProductMonotone, ProductNat
<1>4. tag * p + s \in Byte
  BY <1>1, <1>2, <1>3, SMT DEF Byte
<1>5. tag * p = p * tag
  BY <1>1, SMT
<1> DEFINE n == tag * p + s
<1>6. n \in Int /\ n = p * tag + s /\ tag \in Int
  BY <1>2, <1>3, <1>5, SMT
<1> HIDE DEF n
<1>7. n \div p = tag /\ n % p = s
  BY <1>1, <1>2, <1>6, DivisionUnique
<1> QED BY <1>4, <1>7 DEF n, p

\* Tag and size come back from the head of a choice, whatever follows.
LEMMA HeadRead ==
  ASSUME NEW tag \in 1 .. 4, NEW size \in Nat, NEW z \in Bytes
  PROVE  /\ HeadOf(tag, size) \in Bytes /\ Len(HeadOf(tag, size)) \in Nat \ {0}
         /\ Len(HeadOf(tag, size)) = 1 + IF size < SizeMask THEN 0 ELSE Len(PackUleb128[size])
         /\ LET b == HeadOf(tag, size) \o z
            IN  TagOf(b) = tag /\ StartOf(b) = Len(HeadOf(tag, size)) /\ SizeOf(b) = size
<1>0. z \in Seq(Byte)
  BY DEF Bytes, Byte
<1>1. tag \in 0 .. 4 /\ tag # 0
  BY SMT
<1>2. SizeMask \in Nat /\ SizeMask \in 0 .. SizeMask
  BY Sizes, SMT
<1>3. CASE size < SizeMask
  <2> DEFINE x == tag * Power(2, SizeBits) + size
             b == <<x>> \o z
  <2>1. HeadOf(tag, size) = <<x>>
    BY <1>3 DEF HeadOf
  <2>2. x \in Byte /\ x \div Power(2, SizeBits) = tag /\ x % Power(2, SizeBits) = size
    <3>1. size \in 0 .. SizeMask
      BY <1>2, <1>3, SMT
    <3> QED BY <1>1, <3>1, TagByte
  <2> HIDE DEF x
  <2>3. b[1] = x
    <3> HIDE DEF Byte
    <3> QED BY <1>0, <2>2, ConsIs
  <2>4. <<x>> \in Bytes /\ Len(<<x>>) = 1
    <3> HIDE DEF Byte
    <3>1. <<x>> \in Seq(Byte) /\ Len(<<x>>) = 1
      BY <2>2
    <3> QED BY <3>1 DEF Bytes, Byte
  <2> HIDE DEF b
  <2>5. TagOf(b) = tag /\ SmallOf(b) = size
    BY <2>2, <2>3 DEF TagOf, SmallOf
  <2>6. size # SizeMask
    BY <1>2, <1>3
  <2>7. StartOf(b) = 1 /\ SizeOf(b) = size
    BY <1>1, <2>5, <2>6 DEF StartOf, SizeOf
  <2> QED BY <1>3, <2>1, <2>4, <2>5, <2>7 DEF b
<1>4. CASE ~(size < SizeMask)
  <2> DEFINE x == tag * Power(2, SizeBits) + SizeMask
             p == PackUleb128[size]
             h == <<x>> \o p
             b == h \o z
  <2>1. HeadOf(tag, size) = h
    BY <1>4 DEF HeadOf
  <2>2. x \in Byte /\ x \div Power(2, SizeBits) = tag /\ x % Power(2, SizeBits) = SizeMask
    BY <1>1, <1>2, TagByte
  <2>3. p \in Seq(Byte) /\ Len(p) \in Nat
    <3>1. p \in Seq(Byte)
      BY PackDef DEF Bytes, Byte
    <3> HIDE DEF p
    <3> QED BY <3>1, LenProperties
  <2>4. UnpackUleb128(p \o z) = [used |-> Len(p), value |-> size]
    BY UnpackPacked
  <2> HIDE DEF x, p, Byte
  <2>5. h \in Seq(Byte) /\ Len(h) = Len(p) + 1 /\ h[1] = x
    BY <2>2, <2>3, ConsIs
  <2>6. b = <<x>> \o (p \o z)
    BY <1>0, <2>2, <2>3
  <2>7. p \o z \in Seq(Byte)
    BY <1>0, <2>3, ConcatProperties
  <2>8. b[1] = x /\ Tail(b) = p \o z
    <3> DEFINE y == p \o z
    <3>1. y \in Seq(Byte)
      BY <2>7
    <3>2. b = <<x>> \o y
      BY <2>6
    <3> HIDE DEF y, b
    <3>3. b[1] = x
      BY <2>2, <3>1, <3>2, ConsIs
    <3>4. Tail(<<x>> \o y) = y
      BY <2>2, <3>1
    <3> QED BY <3>2, <3>3, <3>4 DEF y
  <2> HIDE DEF b, h
  <2>9. TagOf(b) = tag /\ SmallOf(b) = SizeMask
    BY <2>2, <2>8 DEF TagOf, SmallOf
  <2>10. StartOf(b) = 1 + Len(p) /\ SizeOf(b) = size
    <3> DEFINE u == UnpackUleb128(Tail(b))
    <3>1. u = [used |-> Len(p), value |-> size]
      BY <2>4, <2>8
    <3> HIDE DEF u
    <3>2. u.used = Len(p) /\ u.value = size
      BY <3>1
    <3>3. StartOf(b) = 1 + u.used /\ SizeOf(b) = u.value
      BY <1>1, <2>9 DEF StartOf, SizeOf, u
    <3> QED BY <3>2, <3>3
  <2>11. 1 + Len(p) = Len(p) + 1 /\ Len(p) + 1 \in Nat \ {0}
    BY <2>3, SMT
  <2>12. h \in Bytes
    BY <2>5 DEF Bytes, Byte
  <2> QED BY <1>4, <2>1, <2>5, <2>9, <2>10, <2>11, <2>12 DEF b, p
<1> QED BY <1>3, <1>4

\* A choice is its head and its payload.
LEMMA EncodeIs ==
  ASSUME NEW c \in Encodable, c.type # "boolean"
  PROVE  EncodeChoice(c) = HeadOf(Tags[c.type], Len(Payload(c))) \o Payload(c)
BY DEF EncodeChoice, HeadOf

\* A boolean is one byte.
LEMMA EncodeBoolean ==
  ASSUME NEW c \in Encodable, c.type = "boolean"
  PROVE  \E v \in BOOLEAN : /\ c = [type |-> "boolean", value |-> v]
                            /\ EncodeChoice(c) = <<IF v THEN 1 ELSE 0>>
<1>1. PICK v \in BOOLEAN : c = [type |-> "boolean", value |-> v]
  BY DEF Encodable
<1>2. EncodeChoice(c) = <<IF v THEN 1 ELSE 0>>
  BY <1>1 DEF EncodeChoice
<1> QED BY <1>1, <1>2

\* The two bytes of booleans.
LEMMA SmallBytes == 0 \in Byte /\ 1 \in Byte
<1>1. ByteSize \in Nat /\ ByteSize >= 16
  BY Sizes, SMT
<1> QED BY <1>1, SMT DEF Byte

\* A choice has at least one byte.
LEMMA EncodeType ==
  ASSUME NEW c \in Encodable
  PROVE  EncodeChoice(c) \in Bytes /\ Len(EncodeChoice(c)) \in Nat \ {0}
<1>1. CASE c.type = "boolean"
  <2>1. PICK v \in BOOLEAN : EncodeChoice(c) = <<IF v THEN 1 ELSE 0>>
    BY <1>1, EncodeBoolean
  <2>2. PICK x \in Byte : EncodeChoice(c) = <<x>>
    BY <2>1, SmallBytes
  <2> HIDE DEF Byte
  <2>3. <<x>> \in Seq(Byte) /\ Len(<<x>>) = 1
    OBVIOUS
  <2>4. EncodeChoice(c) \in Seq(Byte)
    BY <2>2, <2>3
  <2> QED BY <2>2, <2>3, <2>4 DEF Bytes, Byte
<1>2. CASE c.type # "boolean"
  <2> DEFINE h == HeadOf(Tags[c.type], Len(Payload(c)))
             p == Payload(c)
  <2>1. EncodeChoice(c) = h \o p
    BY <1>2, EncodeIs
  <2>2. p \in Seq(Byte) /\ Tags[c.type] \in 1 .. 4
    BY <1>2, Tagged DEF Bytes, Byte
  <2>3. Len(p) \in Nat
    <3> HIDE DEF p, Byte
    <3> QED BY <2>2, LenProperties
  <2>4. h \in Seq(Byte) /\ Len(h) \in Nat \ {0}
    <3>1. <<>> \in Bytes
      BY EmptySeq DEF Bytes
    <3>2. h \in Bytes /\ Len(h) \in Nat \ {0}
      BY <2>2, <2>3, <3>1, HeadRead
    <3> QED BY <3>2 DEF Bytes, Byte
  <2> HIDE DEF h, p, Byte
  <2>5. h \o p \in Seq(Byte) /\ Len(h \o p) = Len(h) + Len(p)
    BY <2>2, <2>4, ConcatProperties
  <2>6. Len(h \o p) \in Nat \ {0}
    BY <2>3, <2>4, <2>5, SMT
  <2> QED BY <2>1, <2>5, <2>6 DEF Bytes, Byte
<1> QED BY <1>1, <1>2

\* What is cut out of the middle of a concatenation.
LEMMA CutMiddle ==
  ASSUME NEW S, NEW h \in Seq(S), NEW p \in Seq(S), NEW r \in Seq(S)
  PROVE  /\ Len(h \o (p \o r)) = Len(h) + Len(p) + Len(r)
         /\ SubSeq(h \o (p \o r), Len(h) + 1, Len(h) + Len(p)) = p
         /\ Len(h) \in Nat /\ Len(p) \in Nat /\ Len(r) \in Nat
<1>1. Len(h) \in Nat /\ Len(p) \in Nat /\ Len(r) \in Nat
  BY LenProperties
<1> DEFINE t == p \o r
<1>2. t \in Seq(S) /\ Len(t) = Len(p) + Len(r)
  BY ConcatProperties
<1>2a. SubSeq(t, 1, Len(p)) = p
  BY CutAtJoint
<1> HIDE DEF t
<1>3. Len(h \o t) = Len(h) + Len(t)
  BY <1>2, ConcatProperties
<1>4. SubSeq(h \o t, Len(h) + 1, Len(h) + Len(p)) = p
  <2>1. CASE Len(p) = 0
    <3>1. p = <<>>
      BY <2>1, EmptySeq
    <3>2. Len(h) + 1 \in Int /\ Len(h) + Len(p) \in Int /\ Len(h) + Len(p) < Len(h) + 1
      BY <1>1, <2>1, SMT
    <3> QED BY <3>1, <3>2, SubSeqEmpty
  <2>2. CASE Len(p) # 0
    <3>1. Len(h) + 1 \in Len(h) + 1 .. Len(h) + Len(t) /\ Len(h) + Len(p) \in Len(h) + 1 .. Len(h) + Len(t)
          /\ (Len(h) + 1) - Len(h) = 1 /\ (Len(h) + Len(p)) - Len(h) = Len(p)
      BY <1>1, <1>2, <2>2, SMT
    <3>2. SubSeq(h \o t, Len(h) + 1, Len(h) + Len(p))
          = SubSeq(t, (Len(h) + 1) - Len(h), (Len(h) + Len(p)) - Len(h))
      BY <1>2, <3>1, SubSeqOfConcat2
    <3> QED BY <1>2a, <3>1, <3>2
  <2> QED BY <2>1, <2>2
<1> QED BY <1>1, <1>2, <1>3, <1>4, SMT DEF t

\* One choice comes back from its bytes, whatever follows.
LEMMA DecodeEncoded ==
  ASSUME NEW c \in Encodable, NEW rest \in Bytes
  PROVE  LET d == DecodeFirst(EncodeChoice(c) \o rest)
         IN  d.end = Len(EncodeChoice(c)) /\ d.choice = {c}
<1>0. rest \in Seq(Byte)
  BY DEF Bytes, Byte
<1>1. CASE c.type = "boolean"
  <2>1. PICK v \in BOOLEAN : c = [type |-> "boolean", value |-> v] /\ EncodeChoice(c) = <<IF v THEN 1 ELSE 0>>
    BY <1>1, EncodeBoolean
  <2> DEFINE x == IF v THEN 1 ELSE 0
             b == <<x>> \o rest
  <2>2. x \in Byte /\ x \in {0, 1} /\ (x # 0 <=> v)
    BY SmallBytes
  <2>3. EncodeChoice(c) = <<x>>
    BY <2>1
  <2> HIDE DEF x
  <2>4. b[1] = x
    <3> HIDE DEF Byte
    <3> QED BY <1>0, <2>2, ConsIs
  <2> HIDE DEF b
  <2>5. TagOf(b) = 0 /\ SmallOf(b) = x
    <3>1. 0 \in 0 .. 4 /\ x \in 0 .. SizeMask /\ 0 * Power(2, SizeBits) + x = x
      <4>1. SizeMask \in Nat /\ SizeMask >= 1 /\ Power(2, SizeBits) \in Nat
        BY Sizes, SMT
      <4> QED BY <2>2, <4>1, SMT
    <3>2. x \div Power(2, SizeBits) = 0 /\ x % Power(2, SizeBits) = x
      <4>1. (0 * Power(2, SizeBits) + x) \div Power(2, SizeBits) = 0 /\ (0 * Power(2, SizeBits) + x) % Power(2, SizeBits) = x
        BY <3>1, TagByte
      <4> QED BY <3>1, <4>1
    <3> QED BY <2>4, <3>2 DEF TagOf, SmallOf
  <2>6. StartOf(b) = 1 /\ SizeOf(b) = 0
    BY <2>5 DEF StartOf, SizeOf
  <2>7. DecodeFirst(b).end = StartOf(b) + SizeOf(b) /\ DecodeFirst(b).choice = {[type |-> "boolean", value |-> SmallOf(b) # 0]}
    BY <2>5, DecodeFirstIs
  <2>8. Len(<<x>>) = 1
    OBVIOUS
  <2>9. [type |-> "boolean", value |-> x # 0] = c
    <3>1. (x # 0) = v
      BY <2>2
    <3> QED BY <2>1, <3>1
  <2>10. DecodeFirst(b).choice = {c}
    BY <2>5, <2>7, <2>9
  <2>11. DecodeFirst(b).end = Len(EncodeChoice(c))
    BY <2>3, <2>6, <2>7, <2>8
  <2> QED BY <2>3, <2>10, <2>11 DEF b
<1>2. CASE c.type # "boolean"
  <2> DEFINE tag == Tags[c.type]
             p == Payload(c)
             h == HeadOf(tag, Len(p))
             z == p \o rest
             b == h \o z
  <2>1. p \in Seq(Byte) /\ tag \in 1 .. 4 /\ DecodePayload(tag, p) = {c}
    BY <1>2, Tagged DEF Bytes, Byte
  <2>2. EncodeChoice(c) = h \o p
    BY <1>2, EncodeIs
  <2> HIDE DEF p, tag
  <2>3. Len(p) \in Nat /\ z \in Seq(Byte)
    <3> HIDE DEF Byte
    <3> QED BY <1>0, <2>1, LenProperties, ConcatProperties
  <2>4. h \in Seq(Byte) /\ TagOf(b) = tag /\ StartOf(b) = Len(h) /\ SizeOf(b) = Len(p)
    <3>1. z \in Bytes
      BY <2>3 DEF Bytes, Byte
    <3> HIDE DEF z
    <3>2. h \in Bytes /\ TagOf(b) = tag /\ StartOf(b) = Len(h) /\ SizeOf(b) = Len(p)
      BY <2>1, <2>3, <3>1, HeadRead
    <3> QED BY <3>2 DEF Bytes, Byte
  <2> HIDE DEF h, Byte
  <2>5. Len(b) = Len(h) + Len(p) + Len(rest) /\ SubSeq(b, Len(h) + 1, Len(h) + Len(p)) = p
        /\ Len(h) \in Nat /\ Len(rest) \in Nat
    BY <1>0, <2>1, <2>4, CutMiddle
  <2>6. (h \o p) \o rest = b
    BY <1>0, <2>1, <2>4
  <2>7. Len(h \o p) = Len(h) + Len(p)
    BY <2>1, <2>4, ConcatProperties
  <2> HIDE DEF b, z
  <2>8. ~(StartOf(b) + SizeOf(b) > Len(b)) /\ TagOf(b) # 0
    BY <2>1, <2>3, <2>4, <2>5, SMT
  <2>9. DecodeFirst(b).end = StartOf(b) + SizeOf(b)
        /\ DecodeFirst(b).choice = DecodePayload(TagOf(b), SubSeq(b, StartOf(b) + 1, StartOf(b) + SizeOf(b)))
    BY <2>8, DecodeFirstIs
  <2>10. DecodeFirst(b).choice = {c}
    BY <2>1, <2>4, <2>5, <2>9
  <2>11. DecodeFirst(b).end = Len(EncodeChoice(c))
    BY <2>2, <2>4, <2>7, <2>9
  <2>12. EncodeChoice(c) \o rest = b
    BY <2>2, <2>6
  <2> QED BY <2>10, <2>11, <2>12
<1> QED BY <1>1, <1>2

--------------------------------------------------------------------------------
\* Any bytes unpack to a size, and use at least one.
LEMMA UnpackType ==
  ASSUME NEW b \in Bytes
  PROVE  UnpackUleb128(b).used \in Nat \ {0} /\ UnpackUleb128(b).value \in Nat
<1>1. b \in Seq(Byte)
  BY DEF Bytes, Byte
<1>2. Len(b) \in Nat /\ DOMAIN b = 1 .. Len(b) /\ (Len(b) = 0 <=> b = <<>>) /\ \A i \in 1 .. Len(b) : b[i] \in Byte
  <2> HIDE DEF Byte
  <2> QED BY <1>1, LenProperties, ElementOfSeq, EmptySeq
<1>3. LastOf(b) \in Nat /\ LastOf(b) <= Len(b) /\ (b # <<>> => LastOf(b) # 0)
  <2>1. CASE Ends(b) = {}
    BY <1>2, <2>1 DEF LastOf
  <2>2. CASE Ends(b) # {}
    <3>1. Ends(b) \in SUBSET Nat
      BY <1>2, SMT DEF Ends
    <3>2. LastOf(b) \in Ends(b)
      <4>1. \E n \in Ends(b) : \A m \in Ends(b) : n <= m
        BY <2>2, <3>1, LeastNat
      <4> QED BY <2>2, <4>1 DEF LastOf
    <3>3. LastOf(b) \in 1 .. Len(b)
      BY <1>2, <3>2 DEF Ends
    <3> QED BY <1>2, <3>3, SMT
  <2> QED BY <2>1, <2>2
<1>4. UlebValue(b, LastOf(b)) \in Nat
  <2>1. \A i \in 1 .. LastOf(b) : b[i] \in Nat
    <3>1. \A i \in 1 .. LastOf(b) : i \in 1 .. Len(b)
      BY <1>2, <1>3, SMT
    <3>2. Byte \subseteq Nat
      BY SMT DEF Byte
    <3> QED BY <1>2, <3>1, <3>2
  <2>2. PICK Q : IsUleb(Q, b, LastOf(b)) /\ Q[LastOf(b)] = UlebValue(b, LastOf(b))
    BY <1>3, <2>1, UlebFold
  <2>3. Q[LastOf(b)] \in Nat
    BY <1>3, <2>1, <2>2, UlebUnique
  <2> QED BY <2>2, <2>3
<1>5. UnpackUleb128(b) = [used |-> IF b = <<>> THEN 1 ELSE LastOf(b), value |-> UlebValue(b, LastOf(b))]
  BY UnpackIs
<1>6. UnpackUleb128(b).used = (IF b = <<>> THEN 1 ELSE LastOf(b)) /\ UnpackUleb128(b).value = UlebValue(b, LastOf(b))
  BY <1>5
<1>7. (IF b = <<>> THEN 1 ELSE LastOf(b)) \in Nat \ {0}
  BY <1>3, SMT
<1> QED BY <1>4, <1>6, <1>7

\* Any buffer starts with at most one choice, and reading it makes progress.
LEMMA DecodeFirstType ==
  ASSUME NEW b \in Bytes, b # <<>>
  PROVE  DecodeFirst(b).choice \in OneChoice /\ DecodeFirst(b).end \in Nat \ {0}
<1>1. b \in Seq(Byte)
  BY DEF Bytes, Byte
<1>2. Len(b) \in Nat \ {0} /\ (\A i \in 1 .. Len(b) : b[i] \in Byte) /\ Tail(b) \in Seq(Byte)
  <2> HIDE DEF Byte
  <2>1. Len(b) \in Nat /\ Len(b) # 0 /\ \A i \in 1 .. Len(b) : b[i] \in Byte
    BY <1>1, LenProperties, ElementOfSeq, EmptySeq
  <2> QED BY <1>1, <2>1, HeadTailProperties
<1>3. b[1] \in Nat
  <2>1. 1 \in 1 .. Len(b)
    BY <1>2, SMT
  <2>2. b[1] \in Byte
    BY <1>2, <2>1
  <2> QED BY <2>2, SMT DEF Byte
<1>4. TagOf(b) \in Nat /\ SmallOf(b) \in Nat
  <2>1. Power(2, SizeBits) \in Nat \ {0}
    BY Sizes, SMT
  <2>2. b[1] \div Power(2, SizeBits) \in Nat /\ b[1] % Power(2, SizeBits) \in 0 .. Power(2, SizeBits) - 1
    BY <1>3, <2>1, Division
  <2>3. 0 .. Power(2, SizeBits) - 1 \subseteq Nat
    BY <2>1, SMT
  <2> QED BY <2>2, <2>3 DEF TagOf, SmallOf
<1>5. UnpackUleb128(Tail(b)).used \in Nat \ {0} /\ UnpackUleb128(Tail(b)).value \in Nat
  <2>1. Tail(b) \in Bytes
    BY <1>2 DEF Bytes, Byte
  <2> QED BY <2>1, UnpackType
<1>6. StartOf(b) \in Nat \ {0} /\ SizeOf(b) \in Nat
  BY <1>4, <1>5, SMT DEF StartOf, SizeOf
<1>7. DecodeFirst(b).end \in Nat \ {0}
  <2>1. DecodeFirst(b).end = StartOf(b) + SizeOf(b)
    BY DecodeFirstIs
  <2>2. StartOf(b) + SizeOf(b) \in Nat \ {0}
    BY <1>6, SMT
  <2> QED BY <2>1, <2>2
<1>8. CASE TagOf(b) = 0
  <2>1. DecodeFirst(b).choice = {[type |-> "boolean", value |-> SmallOf(b) # 0]}
    BY <1>8, DecodeFirstIs
  <2>2. (SmallOf(b) # 0) \in BOOLEAN
    OBVIOUS
  <2>3. [type |-> "boolean", value |-> SmallOf(b) # 0] \in Encodable
    BY <2>2 DEF Encodable
  <2> QED BY <1>7, <2>1, <2>3 DEF OneChoice
<1>9. CASE TagOf(b) # 0 /\ StartOf(b) + SizeOf(b) > Len(b)
  <2>1. DecodeFirst(b).choice = {}
    BY <1>9, DecodeFirstIs
  <2> QED BY <1>7, <2>1 DEF OneChoice
<1>10. CASE TagOf(b) # 0 /\ ~(StartOf(b) + SizeOf(b) > Len(b))
  <2> DEFINE m == StartOf(b) + 1
             n == StartOf(b) + SizeOf(b)
  <2>1. m \in Int /\ n \in Int /\ \A i \in m .. n : i \in 1 .. Len(b)
    BY <1>2, <1>6, <1>10, SMT
  <2>2. SubSeq(b, m, n) \in Seq(Byte)
    <3> HIDE DEF m, n, Byte
    <3> QED BY <1>2, <2>1, SubSeqProperties
  <2>3. SubSeq(b, m, n) \in Bytes
    BY <2>2 DEF Bytes, Byte
  <2>4. DecodeFirst(b).choice = DecodePayload(TagOf(b), SubSeq(b, m, n))
    BY <1>10, DecodeFirstIs
  <2> HIDE DEF m, n
  <2> QED BY <1>4, <1>7, <2>3, <2>4, PayloadType
<1> QED BY <1>8, <1>9, <1>10

Read(cs) == [ok |-> TRUE, choices |-> cs]
Decoded  == {Rejected} \cup {Read(cs) : cs \in Seq(Encodable)}

Whole(b) == DecodeFirst(b).choice
Rest(b)  == SubSeq(b, DecodeFirst(b).end + 1, Len(b))

\* What follows the first choice is shorter.
LEMMA RestShorter ==
  ASSUME NEW b \in Bytes, b # <<>>
  PROVE  Rest(b) \in Bytes /\ Len(Rest(b)) < Len(b) /\ Rest(b) # b
<1>1. b \in Seq(Byte) /\ DecodeFirst(b).end \in Nat \ {0}
  BY DecodeFirstType DEF Bytes, Byte
<1>2. Len(b) \in Nat \ {0} /\ \A i \in 1 .. Len(b) : b[i] \in Byte
  <2> HIDE DEF Byte
  <2>1. Len(b) \in Nat /\ Len(b) # 0 /\ \A i \in 1 .. Len(b) : b[i] \in Byte
    BY <1>1, LenProperties, ElementOfSeq, EmptySeq
  <2> QED BY <2>1
<1> DEFINE m == DecodeFirst(b).end + 1
<1>3. m \in Int /\ m > 1 /\ Len(b) \in Int /\ \A i \in m .. Len(b) : b[i] \in Byte
  <2>1. m \in Int /\ m > 1 /\ \A i \in m .. Len(b) : i \in 1 .. Len(b)
    BY <1>1, <1>2, SMT
  <2> QED BY <1>2, <2>1
<1>4. SubSeq(b, m, Len(b)) \in Seq(Byte) /\ Len(SubSeq(b, m, Len(b))) = IF m <= Len(b) THEN Len(b) - m + 1 ELSE 0
  <2> HIDE DEF m, Byte
  <2> QED BY <1>3, SubSeqProperties
<1>5. Rest(b) = SubSeq(b, m, Len(b))
  BY DEF Rest
<1> HIDE DEF m
<1>6. Len(Rest(b)) < Len(b)
  BY <1>2, <1>3, <1>4, <1>5, SMT
<1>7. Rest(b) # b
  <2>1. ASSUME Rest(b) = b PROVE FALSE
    <3>1. Len(b) < Len(b)
      BY <1>6, <2>1
    <3> QED BY <1>2, <3>1
  <2> QED BY <2>1
<1>8. Rest(b) \in Bytes
  BY <1>4, <1>5 DEF Bytes, Byte
<1> QED BY <1>6, <1>7, <1>8

Joined(first, rest) ==
    IF first = {} \/ ~rest.ok THEN Rejected
    ELSE [ok |-> TRUE, choices |-> <<CHOOSE c \in first : TRUE>> \o rest.choices]

\* A choice in front of decoded ones is decoded.
LEMMA JoinedType ==
  ASSUME NEW first \in OneChoice, NEW rest \in Decoded
  PROVE  Joined(first, rest) \in Decoded
<1>1. CASE first = {} \/ ~rest.ok
  <2>1. Joined(first, rest) = Rejected
    BY <1>1 DEF Joined
  <2> QED BY <2>1 DEF Decoded
<1>2. CASE ~(first = {} \/ ~rest.ok)
  <2>1. PICK c \in Encodable : first = {c}
    BY <1>2 DEF OneChoice
  <2>2. PICK cs \in Seq(Encodable) : rest = Read(cs)
    BY <1>2 DEF Decoded, Rejected
  <2>3. Joined(first, rest) = Read(<<c>> \o cs)
    <3>1. (CHOOSE d \in first : TRUE) = c
      BY <2>1
    <3>2. rest.choices = cs
      BY <2>2 DEF Read
    <3>3. Joined(first, rest) = [ok |-> TRUE, choices |-> <<CHOOSE d \in first : TRUE>> \o rest.choices]
      BY <1>2, Zenon DEF Joined
    <3> QED BY <3>1, <3>2, <3>3 DEF Read
  <2>4. <<c>> \o cs \in Seq(Encodable)
    BY ConsIs
  <2> QED BY <2>3, <2>4 DEF Decoded
<1> QED BY <1>1, <1>2

\* decode is the function its recursion describes; what it finds are choices.
LEMMA DecodeDef ==
  \A b \in Bytes : /\ Decode[b] \in Decoded
                   /\ Decode[b] = IF b = <<>> THEN Read(<<>>) ELSE Joined(Whole(b), Decode[Rest(b)])
<1> DEFINE base == [b \in Bytes |-> Read(<<>>)]
           step == [bv \in Bytes \X Decoded |-> IF bv[1] = <<>> THEN Rejected ELSE Joined(Whole(bv[1]), bv[2])]
           down == [b \in Bytes |-> IF b = <<>> THEN b ELSE Rest(b)]
           size == [b \in Bytes |-> Len(b)]
           Is(f) == f = [b \in Bytes |-> IF b = <<>> THEN Read(<<>>) ELSE Joined(Whole(b), f[Rest(b)])]
<1>1. \A b \in Bytes : b # <<>> => Rest(b) \in Bytes /\ Len(Rest(b)) < Len(b) /\ Rest(b) # b /\ Whole(b) \in OneChoice
  BY RestShorter, DecodeFirstType DEF Whole
<1>2. base \in [Bytes -> Decoded]
  BY EmptySeq DEF Decoded
<1>3. step \in [Bytes \X Decoded -> Decoded]
  <2>1. ASSUME NEW b \in Bytes, NEW v \in Decoded
        PROVE (IF b = <<>> THEN Rejected ELSE Joined(Whole(b), v)) \in Decoded
    <3>1. CASE b = <<>>
      BY <3>1 DEF Decoded
    <3>2. CASE b # <<>>
      BY <1>1, <3>2, JoinedType
    <3> QED BY <3>1, <3>2
  <2> QED BY <2>1
<1>4. /\ size \in [Bytes -> Nat] /\ down \in [Bytes -> Bytes]
      /\ \A b \in Bytes : down[b] # b => size[down[b]] < size[b]
  <2>1. \A b \in Bytes : Len(b) \in Nat
    BY LenProperties DEF Bytes
  <2> QED BY <1>1, <2>1
<1>5. Descends(Bytes, Decoded, size, down, base, step)
  <2> HIDE DEF base, step, down, size
  <2> QED BY <1>2, <1>3, <1>4 DEF Descends
<1>6. PICK f \in [Bytes -> Decoded] : Recurses(f, Bytes, base, step, down)
  <2> HIDE DEF base, step, down, size
  <2> QED BY <1>5, Recursion
<1>7. Is(f)
  <2>1. ASSUME NEW b \in Bytes
        PROVE  f[b] = IF b = <<>> THEN Read(<<>>) ELSE Joined(Whole(b), f[Rest(b)])
    <3>1. f[b] = IF down[b] = b THEN base[b] ELSE step[<<b, f[down[b]]>>]
      BY <1>6 DEF Recurses
    <3>2. CASE b = <<>>
      BY <3>1, <3>2
    <3>3. CASE b # <<>>
      <4>1. down[b] = Rest(b) /\ Rest(b) \in Bytes /\ Rest(b) # b
        BY <1>1, <3>3
      <4>2. f[Rest(b)] \in Decoded
        BY <1>6, <4>1
      <4>3. f[b] = step[<<b, f[Rest(b)]>>]
        BY <3>1, <4>1
      <4>4. step[<<b, f[Rest(b)]>>] = Joined(Whole(b), f[Rest(b)])
        BY <3>3, <4>2
      <4> HIDE DEF step
      <4> QED BY <3>3, <4>3, <4>4
    <3> QED BY <3>2, <3>3
  <2> QED BY <1>6, <2>1
<1>8. Is(Decode)
  <2>1. Decode = CHOOSE q : Is(q)
    BY Zenon DEF Decode, Joined, Whole, Rest, Read
  <2> HIDE DEF Is
  <2> QED BY <1>7, <2>1
<1>9. Typed(Decode, Bytes, Decoded)
  <2>1. \A b \in Bytes : down[b] = b => Decode[b] = base[b]
    BY <1>1, <1>8
  <2>2. ASSUME NEW b \in Bytes, down[b] # b, Decode[down[b]] \in Decoded
        PROVE  Decode[b] = step[<<b, Decode[down[b]]>>]
    <3>1. b # <<>> /\ down[b] = Rest(b)
      BY <2>2
    <3>2. Decode[b] = Joined(Whole(b), Decode[Rest(b)])
      BY <1>8, <3>1
    <3> QED BY <2>2, <3>1, <3>2
  <2>3. Follows(Decode, Bytes, Decoded, base, step, down)
    <3> HIDE DEF base, step, down, Is
    <3> QED BY <2>1, <2>2 DEF Follows
  <2> HIDE DEF base, step, down, size
  <2> QED BY <1>5, <2>3, RecursionType
<1>10. \A b \in Bytes : Decode[b] \in Decoded
  BY <1>9 DEF Typed
<1> QED BY <1>8, <1>10

\* An encoded choice in front of a buffer is decoded in front of the buffer's.
LEMMA DecodeOne ==
  ASSUME NEW c \in Encodable, NEW rest \in Bytes
  PROVE  /\ EncodeChoice(c) \o rest \in Bytes
         /\ Decode[EncodeChoice(c) \o rest] = Joined({c}, Decode[rest])
         /\ Joined({c}, Rejected) = Rejected
         /\ \A cs \in Seq(Encodable) : Joined({c}, Read(cs)) = Read(<<c>> \o cs)
<1> DEFINE e == EncodeChoice(c)
           b == e \o rest
<1>1. e \in Seq(Byte) /\ Len(e) \in Nat \ {0} /\ rest \in Seq(Byte)
  BY EncodeType DEF Bytes, Byte
<1>2. DecodeFirst(b).end = Len(e) /\ DecodeFirst(b).choice = {c}
  BY DecodeEncoded
<1> HIDE DEF e
<1>3. b \in Seq(Byte) /\ Len(b) = Len(e) + Len(rest) /\ SubSeq(b, Len(e) + 1, Len(b)) = rest /\ Len(rest) \in Nat
  <2> HIDE DEF Byte
  <2> QED BY <1>1, ConcatProperties, CutAtJoint, LenProperties
<1>4. b # <<>>
  <2>1. Len(b) # 0
    BY <1>1, <1>3, SMT
  <2> HIDE DEF b
  <2> QED BY <2>1
<1> HIDE DEF b
<1>5. b \in Bytes
  BY <1>3 DEF Bytes, Byte
<1>6. Whole(b) = {c} /\ Rest(b) = rest
  BY <1>2, <1>3 DEF Whole, Rest
<1>7. Decode[b] = Joined({c}, Decode[rest])
  BY <1>4, <1>5, <1>6, DecodeDef
<1>8. Joined({c}, Rejected) = Rejected
  BY DEF Joined, Rejected
<1>9. ASSUME NEW cs \in Seq(Encodable) PROVE Joined({c}, Read(cs)) = Read(<<c>> \o cs)
  <2>1. (CHOOSE d \in {c} : TRUE) = c
    OBVIOUS
  <2>2. Read(cs).ok = TRUE /\ Read(cs).choices = cs
    BY DEF Read
  <2>3. Joined({c}, Read(cs)) = [ok |-> TRUE, choices |-> <<CHOOSE d \in {c} : TRUE>> \o Read(cs).choices]
    BY <2>2, Zenon DEF Joined
  <2> QED BY <2>1, <2>2, <2>3 DEF Read
<1> QED BY <1>5, <1>7, <1>8, <1>9 DEF b, e

\* No choices, no bytes.
LEMMA NoChoices == EncodeChoices(<<>>) = <<>>
<1> DEFINE F == [i \in DOMAIN <<>> |-> EncodeChoice(<<>>[i])]
<1>1. DOMAIN F = 1 .. 0 /\ F = [i \in 1 .. 0 |-> F[i]]
  <2>1. DOMAIN <<>> = 1 .. 0
    BY SMT
  <2> QED BY <2>1
<1> HIDE DEF F
<1>2. FlattenSeq(F) = <<>>
  BY <1>1, FlattenEmpty
<1> QED BY <1>2 DEF F, EncodeChoices

\* The bytes of the first choice come first.
LEMMA EncodeCons ==
  ASSUME NEW c \in Encodable, NEW cs \in Seq(Encodable)
  PROVE  EncodeChoices(<<c>> \o cs) = EncodeChoice(c) \o EncodeChoices(cs) /\ EncodeChoices(cs) \in Bytes
<1> DEFINE g == [d \in Encodable |-> EncodeChoice(d)]
<1>1. g \in [Encodable -> Seq(Byte)]
  <2>1. \A d \in Encodable : EncodeChoice(d) \in Seq(Byte)
    BY EncodeType DEF Bytes, Byte
  <2> QED BY <2>1
<1>2. \A t \in Seq(Encodable) : Mapped(g, t) = EncodeChoices(t)
  <2>1. ASSUME NEW t \in Seq(Encodable) PROVE Mapped(g, t) = EncodeChoices(t)
    <3>1. DOMAIN t = 1 .. Len(t) /\ \A i \in 1 .. Len(t) : t[i] \in Encodable
      <4> HIDE DEF Encodable
      <4> QED BY LenProperties, ElementOfSeq
    <3>2. [i \in DOMAIN t |-> g[t[i]]] = [i \in DOMAIN t |-> EncodeChoice(t[i])]
      BY <3>1
    <3> HIDE DEF g
    <3> QED BY <3>2 DEF EncodeChoices, Mapped
  <2> QED BY <2>1
<1>3. g[c] = EncodeChoice(c) /\ <<c>> \o cs \in Seq(Encodable)
  <2>1. <<c>> \o cs \in Seq(Encodable)
    <3> HIDE DEF Encodable
    <3> QED BY ConsIs
  <2> QED BY <2>1
<1> HIDE DEF g
<1>4. Mapped(g, <<c>> \o cs) = g[c] \o Mapped(g, cs) /\ Mapped(g, cs) \in Seq(Byte)
  <2> HIDE DEF Byte, Encodable
  <2> QED BY <1>1, FlattenMapCons
<1>5. Seq(Byte) = Bytes
  BY DEF Bytes, Byte
<1> HIDE DEF Encodable, Byte, Bytes
<1> QED BY <1>2, <1>3, <1>4, <1>5

\* What was encoded decodes to itself, for every sequence of choices.
THEOREM RoundTrip ==
  \A cs \in Seq(Encodable) : EncodeChoices(cs) \in Bytes /\ Decode[EncodeChoices(cs)] = Read(cs)
<1> DEFINE T == {cs \in Seq(Encodable) : EncodeChoices(cs) \in Bytes /\ Decode[EncodeChoices(cs)] = Read(cs)}
<1>1. <<>> \in T
  <2>1. <<>> \in Bytes /\ <<>> \in Seq(Encodable)
    BY EmptySeq DEF Bytes
  <2>2. Decode[<<>>] = Read(<<>>)
    BY <2>1, DecodeDef
  <2> QED BY <2>1, <2>2, NoChoices
<1>2. ASSUME NEW c \in Encodable, NEW cs \in Seq(Encodable), cs \in T PROVE <<c>> \o cs \in T
  <2> DEFINE t == <<c>> \o cs
             rest == EncodeChoices(cs)
  <2>1. t \in Seq(Encodable)
    <3> HIDE DEF Encodable
    <3> QED BY ConsIs
  <2>2. EncodeChoices(t) = EncodeChoice(c) \o rest
    BY EncodeCons
  <2>3. rest \in Bytes /\ Decode[rest] = Read(cs)
    BY <1>2
  <2> HIDE DEF rest, T
  <2>4. EncodeChoice(c) \o rest \in Bytes /\ Decode[EncodeChoice(c) \o rest] = Joined({c}, Decode[rest])
        /\ Joined({c}, Read(cs)) = Read(t)
    BY <2>3, DecodeOne
  <2> HIDE DEF t
  <2>5. t \in T
    BY <2>1, <2>2, <2>3, <2>4 DEF T
  <2> QED BY <2>5 DEF t
<1>3. Seq(Encodable) \subseteq T
  <2> HIDE DEF T, Encodable
  <2> QED BY <1>1, <1>2, SeqSetInduction
<1> QED BY <1>3

\* The size accounted for.
THEOREM SizeIsLength ==
  ASSUME NEW c \in Encodable
  PROVE  OneChoiceSize(c) = Len(EncodeChoice(c))
<1>1. CASE c.type = "boolean"
  <2>1. PICK v \in BOOLEAN : EncodeChoice(c) = <<IF v THEN 1 ELSE 0>>
    BY <1>1, EncodeBoolean
  <2>2. Len(EncodeChoice(c)) = 1
    BY <2>1
  <2>3. OneChoiceSize(c) = 1
    BY <1>1 DEF OneChoiceSize
  <2> QED BY <2>2, <2>3
<1>2. CASE c.type # "boolean"
  <2> DEFINE p == Payload(c)
             n == Len(p)
             h == HeadOf(Tags[c.type], n)
  <2>1. EncodeChoice(c) = h \o p
    BY <1>2, EncodeIs
  <2>2. p \in Seq(Byte) /\ Tags[c.type] \in 1 .. 4 /\ c.type \in {"integer", "float", "bytes", "string"}
        /\ (c.type = "float" => n = FloatBytes)
    BY <1>2, Tagged DEF Bytes, Byte
  <2>3. c.type = "integer" => n = IntBytes(c.value)
    <3> SUFFICES ASSUME c.type = "integer" PROVE n = IntBytes(c.value)
      OBVIOUS
    <3>1. PICK v \in Int : c = [type |-> "integer", value |-> v]
      BY DEF Encodable
    <3>2. IntBytes(v) \in Nat \ {0} /\ 2 * Abs(v) < Power(ByteSize, IntBytes(v))
      BY IntegerFits
    <3>3. Len(ToBytes(v, IntBytes(v))) = IntBytes(v)
      BY <3>2, BytesOfInteger
    <3>4. p = ToBytes(v, IntBytes(v)) /\ c.value = v
      BY <3>1 DEF Payload
    <3> QED BY <3>3, <3>4
  <2>4. OneChoiceSize(c) = 1 + (IF n < SizeMask THEN 0 ELSE Uleb128Len(n)) + n
    <3>1. (CASE c.type = "float" -> FloatBytes [] c.type = "integer" -> IntBytes(c.value) [] OTHER -> n) = n
      BY <2>2, <2>3
    <3> QED BY <1>2, <3>1 DEF OneChoiceSize
  <2>5. n \in Nat
    <3> HIDE DEF p, Byte
    <3> QED BY <2>2, LenProperties
  <2>6. h \in Seq(Byte) /\ Len(h) = 1 + (IF n < SizeMask THEN 0 ELSE Len(PackUleb128[n])) /\ Len(h) \in Nat
    <3>1. <<>> \in Bytes
      BY EmptySeq DEF Bytes
    <3> HIDE DEF n
    <3>2. h \in Bytes /\ Len(h) = 1 + (IF n < SizeMask THEN 0 ELSE Len(PackUleb128[n])) /\ Len(h) \in Nat \ {0}
      BY <2>2, <2>5, <3>1, HeadRead
    <3> QED BY <3>2 DEF Bytes, Byte
  <2>7. Uleb128Len(n) = Len(PackUleb128[n])
    <3> HIDE DEF n
    <3> QED BY <2>5, UlebLength
  <2> HIDE DEF h, p, Byte
  <2>8. Len(h \o p) = Len(h) + Len(p)
    BY <2>2, <2>6, ConcatProperties
  <2> QED BY <2>1, <2>4, <2>6, <2>7, <2>8
<1> QED BY <1>1, <1>2

--------------------------------------------------------------------------------
(* Truncation. *)

\* A payload of no bytes stands for nothing or for the simplest of its type.
LEMMA EmptyPayload ==
  ASSUME NEW c \in Encodable, c.type # "boolean"
  PROVE  \/ DecodePayload(Tags[c.type], <<>>) = {}
         \/ \E x \in Encodable \cap Emptied(c) : DecodePayload(Tags[c.type], <<>>) = {x}
<1>0. <<>> \in Bytes /\ <<>> \in Seq(Characters)
  BY EmptySeq DEF Bytes
<1>1. c.type \in {"integer", "float", "bytes", "string"}
  BY Tagged
<1>2. CASE c.type = "integer"
  <2>1. FromBytes(<<>>) = 0
    <3>1. FromBytes(<<>>) = Number(ByteSize, <<>>)
      BY Zenon DEF FromBytes, Number
    <3>2. ByteSize \in Nat /\ <<>> \in Seq(Nat) /\ Len(<<>>) = 0
      BY Sizes, EmptySeq
    <3>3. PICK P : IsNumber(P, ByteSize, <<>>) /\ P[0] = Number(ByteSize, <<>>)
      BY <3>2, NumberFold
    <3> QED BY <3>1, <3>3 DEF IsNumber
  <2>2. DecodePayload(2, <<>>) = {[type |-> "integer", value |-> 0]}
    BY <2>1 DEF DecodePayload
  <2>3. [type |-> "integer", value |-> 0] \in Encodable \cap Emptied(c)
    BY <1>2 DEF Encodable, Emptied
  <2> QED BY <1>2, <2>2, <2>3 DEF Tags
<1>3. CASE c.type = "float"
  <2>1. FloatBytes \in Nat \ {0}
    BY CodecAssumption, Sizes, SMTT(30)
  <2>2. <<>> \notin [1 .. FloatBytes -> 0 .. ByteSize - 1]
    <3>1. ASSUME <<>> \in [1 .. FloatBytes -> 0 .. ByteSize - 1] PROVE FALSE
      <4>1. DOMAIN <<>> = 1 .. FloatBytes
        BY <3>1
      <4>2. 1 \in 1 .. FloatBytes
        BY <2>1, SMT
      <4>3. DOMAIN <<>> = {}
        BY SMT
      <4> QED BY <4>1, <4>2, <4>3
    <3> QED BY <3>1
  <2>3. {<<>>} \cap [1 .. FloatBytes -> 0 .. ByteSize - 1] = {}
    BY <2>2
  <2>4. DecodePayload(1, <<>>) = {[type |-> "float", value |-> b] : b \in {<<>>} \cap [1 .. FloatBytes -> 0 .. ByteSize - 1]}
    BY DEF DecodePayload
  <2>5. DecodePayload(1, <<>>) = {}
    <3> DEFINE F == {<<>>} \cap [1 .. FloatBytes -> 0 .. ByteSize - 1]
    <3> HIDE DEF F
    <3>1. F = {} => {[type |-> "float", value |-> b] : b \in F} = {}
      OBVIOUS
    <3> QED BY <2>3, <2>4, <3>1 DEF F
  <2> QED BY <1>3, <2>5 DEF Tags
<1>4. CASE c.type = "bytes"
  <2>2. DecodePayload(3, <<>>) = {[type |-> "bytes", value |-> <<>>]}
    BY DEF DecodePayload
  <2>3. [type |-> "bytes", value |-> <<>>] \in Encodable \cap Emptied(c)
    BY <1>0, <1>4 DEF Encodable, Emptied
  <2> QED BY <1>4, <2>2, <2>3 DEF Tags
<1>5. CASE c.type = "string"
  <2>1. DecodeUtf8[<<>>] = {<<>>}
    BY <1>0, DecodeUtf8Def
  <2>2. DecodePayload(4, <<>>) = {[type |-> "string", value |-> <<>>]}
    BY <2>1 DEF DecodePayload
  <2>3. [type |-> "string", value |-> <<>>] \in Encodable \cap Emptied(c)
    BY <1>0, <1>5 DEF Encodable, Emptied
  <2> QED BY <1>5, <2>2, <2>3 DEF Tags
<1> QED BY <1>1, <1>2, <1>3, <1>4, <1>5

CutReading(c) == {Rejected, Read(<<>>)} \cup {Read(<<x>>) : x \in Emptied(c)}

\* A buffer whose first choice is malformed is rejected.
LEMMA DecodeNone ==
  ASSUME NEW b \in Bytes, b # <<>>, DecodeFirst(b).choice = {} PROVE Decode[b] = Rejected
<1>1. Decode[b] = Joined({}, Decode[Rest(b)])
  BY DecodeDef DEF Whole
<1> QED BY <1>1 DEF Joined

\* One choice cut off anywhere.
LEMMA CutOne ==
  ASSUME NEW c \in Encodable, NEW n \in 0 .. Len(EncodeChoice(c)) - 1
  PROVE  SubSeq(EncodeChoice(c), 1, n) \in Bytes /\ Decode[SubSeq(EncodeChoice(c), 1, n)] \in CutReading(c)
<1> DEFINE e == EncodeChoice(c)
           b == SubSeq(e, 1, n)
<1>1. e \in Seq(Byte) /\ Len(e) \in Nat \ {0}
  BY EncodeType DEF Bytes, Byte
<1>2. n \in 0 .. Len(e) /\ n \in Nat /\ n < Len(e)
  BY <1>1, SMT
<1> HIDE DEF e
<1>3. b \in Seq(Byte) /\ Len(b) = n
  <2> HIDE DEF Byte
  <2> QED BY <1>1, <1>2, Beginning
<1>4. b \in Bytes
  BY <1>3 DEF Bytes, Byte
<1>5. CASE n = 0
  <2>1. b = <<>>
    BY <1>5, SubSeqEmpty
  <2>2. Decode[b] = Read(<<>>)
    BY <1>4, <2>1, DecodeDef
  <2> QED BY <1>4, <2>2 DEF CutReading, e
<1>6. CASE n # 0
  <2>1. c.type # "boolean"
    <3>1. ASSUME c.type = "boolean" PROVE FALSE
      <4>1. PICK v \in BOOLEAN : e = <<IF v THEN 1 ELSE 0>>
        BY <3>1, EncodeBoolean DEF e
      <4>2. Len(e) = 1
        BY <4>1
      <4> QED BY <1>2, <1>6, <4>2
    <3> QED BY <3>1
  <2> DEFINE tag == Tags[c.type]
             p == Payload(c)
             size == Len(p)
             h == HeadOf(tag, size)
  <2>2. e = h \o p
    BY <2>1, EncodeIs DEF e
  <2>3. p \in Seq(Byte) /\ tag \in 1 .. 4
    BY <2>1, Tagged DEF Bytes, Byte
  <2>4. DecodePayload(tag, <<>>) = {} \/ \E x \in Encodable \cap Emptied(c) : DecodePayload(tag, <<>>) = {x}
    BY <2>1, EmptyPayload
  <2> HIDE DEF p, tag, Byte
  <2>5. size \in Nat
    BY <2>3, LenProperties
  <2>6. <<>> \in Bytes
    BY EmptySeq DEF Bytes
  <2>7. h \in Seq(Byte) /\ Len(h) \in Nat \ {0} /\ Len(h) = 1 + IF size < SizeMask THEN 0 ELSE Len(PackUleb128[size])
    <3> HIDE DEF size
    <3>1. h \in Bytes /\ Len(h) \in Nat \ {0} /\ Len(h) = 1 + IF size < SizeMask THEN 0 ELSE Len(PackUleb128[size])
      BY <2>3, <2>5, <2>6, HeadRead
    <3> QED BY <3>1 DEF Bytes, Byte
  <2>8. b # <<>>
    <3> HIDE DEF b
    <3> QED BY <1>3, <1>6, EmptySeq
  <2>9. CASE n >= Len(h)
    <3> DEFINE z == SubSeq(p, 1, n - Len(h))
    <3> HIDE DEF h
    <3>1. Len(e) = Len(h) + size
      BY <2>2, <2>3, <2>7, ConcatProperties
    <3>2. n \in Len(h) .. Len(h) + Len(p) /\ n - Len(h) \in 0 .. Len(p)
      BY <1>2, <2>5, <2>7, <2>9, <3>1, SMT
    <3>3. b = h \o z
      BY <2>2, <2>3, <2>7, <3>2, CutAfterJoint
    <3>4. z \in Seq(Byte)
      BY <2>3, <3>2, Beginning
    <3>5. z \in Bytes
      BY <3>4 DEF Bytes, Byte
    <3> HIDE DEF z, b, size
    <3>6. TagOf(b) = tag /\ StartOf(b) = Len(h) /\ SizeOf(b) = size
      BY <2>3, <2>5, <3>3, <3>5, HeadRead DEF h
    <3>7. TagOf(b) # 0 /\ StartOf(b) + SizeOf(b) > Len(b)
      BY <1>2, <1>3, <2>3, <2>5, <2>7, <3>1, <3>6, SMT
    <3>8. DecodeFirst(b).choice = {}
      BY <3>7, DecodeFirstIs
    <3>9. Decode[b] = Rejected
      BY <1>4, <2>8, <3>8, DecodeNone
    <3> QED BY <1>4, <3>9 DEF CutReading, b, e
  <2>10. CASE n < Len(h)
    <3> DEFINE P == PackUleb128[size]
               x == tag * Power(2, SizeBits) + SizeMask
               m == n - 1
               q == SubSeq(P, 1, m)
    <3>1. ~(size < SizeMask)
      <4>1. ASSUME size < SizeMask PROVE FALSE
        <5>1. Len(h) = 1
          BY <2>7, <4>1, SMT
        <5> QED BY <1>2, <1>6, <2>10, <5>1, SMT
      <4> QED BY <4>1
    <3>2. h = <<x>> \o P
      BY <3>1 DEF HeadOf
    <3>3. x \in Byte /\ x \div Power(2, SizeBits) = tag /\ x % Power(2, SizeBits) = SizeMask
      <4>1. SizeMask \in 0 .. SizeMask /\ tag \in 0 .. 4
        BY <2>3, Sizes, SMTT(30)
      <4> QED BY <4>1, TagByte
    <3>4. P \in Seq(Byte)
      BY <2>5, PackDef DEF Bytes, Byte
    <3>5. Len(P) \in Nat /\ Len(h) = Len(P) + 1
      <4> HIDE DEF P
      <4>1. Len(P) \in Nat
        BY <3>4, LenProperties
      <4>2. Len(h) = 1 + Len(P)
        BY <2>7, <3>1 DEF P
      <4> QED BY <4>1, <4>2, SMT
    <3>6. m \in 0 .. Len(P) - 1 /\ m \in Nat /\ m \in 0 .. Len(P) /\ n = m + 1
      BY <1>2, <1>6, <2>10, <3>5, SMT
    <3>7. UnpackUleb128(q).used = (IF m = 0 THEN 1 ELSE m) /\ UnpackUleb128(q).value \in Nat
      <4> HIDE DEF m, size
      <4> QED BY <2>5, <3>6, UnpackCut
    <3> HIDE DEF h, P, x, m
    <3>8. q \in Seq(Byte) /\ Len(q) = m
      BY <3>4, <3>6, Beginning
    <3>9. b = <<x>> \o q
      <4>1. n \in 1 .. Len(h) /\ 1 \in 1 .. Len(h)
        BY <1>2, <1>6, <2>7, <2>10, SMT
      <4>2. b = SubSeq(h, 1, n)
        BY <2>2, <2>3, <2>7, <4>1, SubSeqOfConcat1
      <4>3. <<x>> \in Seq(Byte) /\ Len(<<x>>) = 1
        BY <3>3
      <4>4. n \in Len(<<x>>) .. Len(<<x>>) + Len(P) /\ n - Len(<<x>>) = m
        BY <1>2, <3>5, <3>6, <4>3, SMT
      <4>5. SubSeq(<<x>> \o P, 1, n) = <<x>> \o SubSeq(P, 1, n - Len(<<x>>))
        BY <3>4, <4>3, <4>4, CutAfterJoint
      <4> QED BY <3>2, <4>2, <4>4, <4>5
    <3> HIDE DEF q, b
    <3>10. b[1] = x /\ Tail(b) = q
      <4>1. b[1] = x
        BY <3>3, <3>8, <3>9, ConsIs
      <4>2. Tail(<<x>> \o q) = q
        BY <3>3, <3>8
      <4> QED BY <3>9, <4>1, <4>2
    <3>11. TagOf(b) = tag /\ SmallOf(b) = SizeMask /\ tag # 0
      BY <2>3, <3>3, <3>10, SMT DEF TagOf, SmallOf
    <3>12. StartOf(b) = 1 + UnpackUleb128(q).used /\ SizeOf(b) = UnpackUleb128(q).value
      BY <3>10, <3>11 DEF StartOf, SizeOf
    <3>13. CASE StartOf(b) + SizeOf(b) > Len(b)
      <4>1. DecodeFirst(b).choice = {}
        BY <3>11, <3>13, DecodeFirstIs
      <4>2. Decode[b] = Rejected
        BY <1>4, <2>8, <4>1, DecodeNone
      <4> QED BY <1>4, <4>2 DEF CutReading, b, e
    <3>14. CASE ~(StartOf(b) + SizeOf(b) > Len(b))
      <4>1. StartOf(b) = n /\ SizeOf(b) = 0
        <5>1. m # 0
          <6>1. ASSUME m = 0 PROVE FALSE
            <7>1. StartOf(b) = 2 /\ n = 1 /\ SizeOf(b) \in Nat
              BY <3>6, <3>7, <3>12, <6>1, SMT
            <7> QED BY <1>3, <3>14, <7>1, SMT
          <6> QED BY <6>1
        <5>2. StartOf(b) = 1 + m /\ SizeOf(b) \in Nat
          BY <3>7, <3>12, <5>1
        <5> QED BY <1>2, <1>3, <3>6, <3>14, <5>2, SMT
      <4>2. SubSeq(b, n + 1, n) = <<>>
        <5>1. n + 1 \in Int /\ n \in Int /\ n < n + 1
          BY <1>2, SMT
        <5> QED BY <5>1, SubSeqEmpty
      <4>3. n + 0 = n
        BY <1>2, SMT
      <4>4. DecodeFirst(b).end = n /\ DecodeFirst(b).choice = DecodePayload(tag, <<>>)
        BY <3>11, <3>14, <4>1, <4>2, <4>3, DecodeFirstIs
      <4>5. Rest(b) = <<>>
        BY <1>3, <4>2, <4>4 DEF Rest
      <4>6. Decode[b] = Joined(DecodePayload(tag, <<>>), Read(<<>>))
        <5>1. Decode[<<>>] = Read(<<>>)
          BY <2>6, DecodeDef
        <5> QED BY <1>4, <2>8, <4>4, <4>5, <5>1, DecodeDef DEF Whole
      <4>7. CASE DecodePayload(tag, <<>>) = {}
        <5>1. Decode[b] = Rejected
          BY <4>6, <4>7 DEF Joined
        <5> QED BY <1>4, <5>1 DEF CutReading, b, e
      <4>8. CASE DecodePayload(tag, <<>>) # {}
        <5>1. PICK y \in Encodable \cap Emptied(c) : DecodePayload(tag, <<>>) = {y}
          BY <2>4, <4>8
        <5>2. Joined({y}, Read(<<>>)) = Read(<<y>> \o <<>>)
          <6>1. <<>> \in Seq(Encodable)
            BY EmptySeq
          <6> QED BY <2>6, <6>1, DecodeOne
        <5>3. <<y>> \o <<>> = <<y>>
          <6> HIDE DEF Encodable
          <6>1. <<y>> \in Seq(Encodable)
            OBVIOUS
          <6> QED BY <6>1, ConcatEmptySeq
        <5>4. Decode[b] = Read(<<y>>)
          BY <4>6, <5>1, <5>2, <5>3
        <5>5. Decode[b] \in CutReading(c)
          BY <5>4 DEF CutReading
        <5> QED BY <1>4, <5>5 DEF b, e
      <4> QED BY <4>7, <4>8
    <3> QED BY <3>13, <3>14
  <2> QED BY <1>2, <2>7, <2>9, <2>10, SMT
<1> QED BY <1>5, <1>6

Shortened(cs) ==
    UNION {{SubSeq(cs, 1, k) \o tail : tail \in {<<>>} \cup {<<e>> : e \in Emptied(cs[k + 1])}} :
              k \in 0 .. Len(cs) - 1}

\* What a member of it is.
LEMMA ShortenedIs ==
  ASSUME NEW cs, NEW k \in 0 .. Len(cs) - 1, NEW tail \in {<<>>} \cup {<<e>> : e \in Emptied(cs[k + 1])}
  PROVE  SubSeq(cs, 1, k) \o tail \in Shortened(cs)
<1> DEFINE Tails(i) == {<<>>} \cup {<<e>> : e \in Emptied(cs[i + 1])}
           Of(i) == {SubSeq(cs, 1, i) \o z : z \in Tails(i)}
<1>1. tail \in Tails(k)
  OBVIOUS
<1>2. SubSeq(cs, 1, k) \o tail \in Of(k)
  <2> HIDE DEF Tails
  <2> QED BY <1>1
<1>3. Shortened(cs) = UNION {Of(i) : i \in 0 .. Len(cs) - 1}
  BY Zenon DEF Shortened
<1> HIDE DEF Of
<1> QED BY <1>2, <1>3, Zenon

\* What is read for a choice that was cut is a choice.
LEMMA EmptiedIs == \A c : Emptied(c) \subseteq Encodable
<1>1. <<>> \in Bytes /\ <<>> \in Seq(Characters)
  BY EmptySeq DEF Bytes
<1>2. ASSUME NEW c, NEW e \in Emptied(c) PROVE e \in Encodable
  <2>1. PICK t \in {c.type} \cap {"integer", "bytes", "string"} :
          e = [type |-> t, value |-> IF t = "integer" THEN 0 ELSE <<>>]
    BY DEF Emptied
  <2> QED BY <1>1, <2>1 DEF Encodable
<1> QED BY <1>2

\* One more choice in front of what a cut leaves.
LEMMA ShortenedCons ==
  ASSUME NEW c \in Encodable, NEW cs \in Seq(Encodable)
  PROVE  LET t == <<c>> \o cs
         IN  /\ <<>> \in Shortened(t)
             /\ \A e \in Emptied(c) : <<e>> \in Shortened(t)
             /\ \A s \in Shortened(cs) : s \in Seq(Encodable) /\ <<c>> \o s \in Shortened(t)
<1> DEFINE t == <<c>> \o cs
<1> HIDE DEF Encodable
<1>1. t \in Seq(Encodable) /\ Len(t) = Len(cs) + 1 /\ t[1] = c /\ (\A i \in 1 .. Len(cs) : t[i + 1] = cs[i])
      /\ Len(cs) \in Nat /\ <<c>> \in Seq(Encodable) /\ Len(<<c>>) = 1
  BY ConsIs, LenProperties
<1>2. 0 \in 0 .. Len(t) - 1 /\ 0 + 1 = 1
  BY <1>1, SMT
<1>3. SubSeq(t, 1, 0) = <<>>
  BY SubSeqEmpty
<1> HIDE DEF t
<1>4. ASSUME NEW tail \in {<<>>} \cup {<<e>> : e \in Emptied(c)} PROVE tail \in Shortened(t)
  <2>1. tail \in Seq(Encodable)
    <3>1. \A e \in Emptied(c) : <<e>> \in Seq(Encodable)
      BY EmptiedIs
    <3> QED BY <3>1, EmptySeq
  <2>2. SubSeq(t, 1, 0) \o tail = tail
    BY <1>3, <2>1, ConcatEmptySeq
  <2>3. tail \in {<<>>} \cup {<<e>> : e \in Emptied(t[0 + 1])}
    BY <1>1, <1>2
  <2> QED BY <1>2, <2>2, <2>3, ShortenedIs
<1>5. ASSUME NEW s \in Shortened(cs) PROVE s \in Seq(Encodable) /\ <<c>> \o s \in Shortened(t)
  <2>1. PICK k \in 0 .. Len(cs) - 1 : \E tail \in {<<>>} \cup {<<e>> : e \in Emptied(cs[k + 1])} : s = SubSeq(cs, 1, k) \o tail
    BY DEF Shortened
  <2>2. PICK tail \in {<<>>} \cup {<<e>> : e \in Emptied(cs[k + 1])} : s = SubSeq(cs, 1, k) \o tail
    BY <2>1
  <2>3. k + 1 \in 0 .. Len(t) - 1 /\ k \in 0 .. Len(cs) /\ k + 1 \in 1 .. Len(cs) /\ (k + 1) - 1 = k
        /\ k + 1 \in 1 .. 1 + Len(cs)
    BY <1>1, SMT
  <2>4. t[(k + 1) + 1] = cs[k + 1]
    BY <1>1, <2>3
  <2>5. SubSeq(t, 1, k + 1) = <<c>> \o SubSeq(cs, 1, k)
    <3>1. k + 1 \in Len(<<c>>) .. Len(<<c>>) + Len(cs) /\ (k + 1) - Len(<<c>>) = k
      BY <1>1, <2>3
    <3>2. SubSeq(<<c>> \o cs, 1, k + 1) = <<c>> \o SubSeq(cs, 1, (k + 1) - Len(<<c>>))
      BY <1>1, <3>1, CutAfterJoint
    <3> QED BY <3>1, <3>2 DEF t
  <2>6. SubSeq(cs, 1, k) \in Seq(Encodable)
    BY <2>3, Beginning
  <2>7. tail \in Seq(Encodable)
    <3>1. \A e \in Emptied(cs[k + 1]) : <<e>> \in Seq(Encodable)
      BY EmptiedIs
    <3> QED BY <3>1, EmptySeq
  <2> DEFINE z == SubSeq(cs, 1, k)
  <2> HIDE DEF z
  <2>8. s \in Seq(Encodable)
    BY <2>2, <2>6, <2>7, ConcatProperties
  <2>9. <<c>> \o s = (<<c>> \o z) \o tail
    <3>1. z \in Seq(Encodable) /\ s = z \o tail
      BY <2>2, <2>6 DEF z
    <3>2. <<c>> \o (z \o tail) = (<<c>> \o z) \o tail
      BY <1>1, <2>7, <3>1, SMTT(30)
    <3> QED BY <3>1, <3>2
  <2>10. <<c>> \o s = SubSeq(t, 1, k + 1) \o tail
    BY <2>5, <2>9 DEF z
  <2> QED BY <2>3, <2>4, <2>8, <2>10, ShortenedIs
<1> QED BY <1>2, <1>4, <1>5 DEF t

Cuts(cs) == {Rejected} \cup {Read(s) : s \in Shortened(cs)}

\* Cut off anywhere, what was encoded decodes to the choices before the cut, at most followed by
\* the simplest of the type that was cut, or to nothing: for every sequence of choices.
THEOREM CutAnywhere ==
  \A cs \in Seq(Encodable) : \A n \in 0 .. Len(EncodeChoices(cs)) - 1 :
     SubSeq(EncodeChoices(cs), 1, n) \in Bytes /\ Decode[SubSeq(EncodeChoices(cs), 1, n)] \in Cuts(cs)
<1> DEFINE Good(cs) == \A n \in 0 .. Len(EncodeChoices(cs)) - 1 :
                          SubSeq(EncodeChoices(cs), 1, n) \in Bytes /\ Decode[SubSeq(EncodeChoices(cs), 1, n)] \in Cuts(cs)
           T == {cs \in Seq(Encodable) : Good(cs)}
<1>1. <<>> \in T
  <2>1. <<>> \in Seq(Encodable)
    BY EmptySeq
  <2>2. 0 .. Len(EncodeChoices(<<>>)) - 1 = {}
    <3>1. Len(EncodeChoices(<<>>)) = 0
      BY NoChoices, EmptySeq
    <3> QED BY <3>1, SMT
  <2> QED BY <2>1, <2>2
<1>2. ASSUME NEW c \in Encodable, NEW cs \in Seq(Encodable), cs \in T PROVE <<c>> \o cs \in T
  <2> DEFINE t == <<c>> \o cs
             e == EncodeChoice(c)
             r == EncodeChoices(cs)
  <2>1. EncodeChoices(t) = e \o r /\ r \in Seq(Byte)
    BY EncodeCons DEF Bytes, Byte
  <2>2. e \in Seq(Byte) /\ Len(e) \in Nat \ {0}
    BY EncodeType DEF Bytes, Byte
  <2>3. t \in Seq(Encodable)
    <3> HIDE DEF Encodable
    <3> QED BY ConsIs
  <2>4. /\ <<>> \in Shortened(t)
        /\ \A x \in Emptied(c) : <<x>> \in Shortened(t)
        /\ \A s \in Shortened(cs) : s \in Seq(Encodable) /\ <<c>> \o s \in Shortened(t)
    <3> HIDE DEF Encodable
    <3> QED BY ShortenedCons
  <2>5. Good(cs)
    BY <1>2
  <2>6. ASSUME NEW n \in 0 .. Len(e \o r) - 1
        PROVE  SubSeq(e \o r, 1, n) \in Bytes /\ Decode[SubSeq(e \o r, 1, n)] \in Cuts(t)
    <3>0. Len(r) \in Nat /\ Len(e \o r) = Len(e) + Len(r)
      <4> HIDE DEF e, r, Byte
      <4> QED BY <2>1, <2>2, LenProperties, ConcatProperties
    <3>1. CASE n < Len(e)
      <4>1. n \in 0 .. Len(e) - 1
        BY <2>2, <3>1, SMT
      <4>2. SubSeq(e, 1, n) \in Bytes /\ Decode[SubSeq(e, 1, n)] \in CutReading(c)
        BY <4>1, CutOne
      <4>3. SubSeq(e \o r, 1, n) = SubSeq(e, 1, n)
        <5> HIDE DEF e, r, Byte
        <5>1. CASE n = 0
          BY <5>1, SubSeqEmpty
        <5>2. CASE n # 0
          <6>1. 1 \in 1 .. Len(e) /\ n \in 1 .. Len(e)
            BY <2>2, <4>1, <5>2, SMT
          <6> QED BY <2>1, <2>2, <6>1, SubSeqOfConcat1
        <5> QED BY <5>1, <5>2
      <4>4. CutReading(c) \subseteq Cuts(t)
        <5> HIDE DEF t
        <5> QED BY <2>4 DEF CutReading, Cuts
      <4> QED BY <4>2, <4>3, <4>4
    <3>2. CASE ~(n < Len(e))
      <4> DEFINE m == n - Len(e)
                 q == SubSeq(r, 1, m)
      <4>1. n \in Len(e) .. Len(e) + Len(r) /\ m \in 0 .. Len(r) - 1
        BY <2>2, <3>0, <3>2, SMT
      <4>2. SubSeq(e \o r, 1, n) = e \o q
        <5> HIDE DEF e, r, Byte
        <5> QED BY <2>1, <2>2, <4>1, CutAfterJoint
      <4>3. q \in Bytes /\ Decode[q] \in Cuts(cs)
        BY <2>5, <4>1
      <4> HIDE DEF q
      <4>4. e \o q \in Bytes /\ Decode[e \o q] = Joined({c}, Decode[q])
        BY <4>3, DecodeOne
      <4>5. Joined({c}, Decode[q]) \in Cuts(t)
        <5>1. CASE Decode[q] = Rejected
          <6>1. Joined({c}, Rejected) = Rejected
            BY <4>3, DecodeOne
          <6> QED BY <5>1, <6>1 DEF Cuts
        <5>2. CASE Decode[q] # Rejected
          <6>1. PICK s \in Shortened(cs) : Decode[q] = Read(s)
            BY <4>3, <5>2 DEF Cuts
          <6>2. s \in Seq(Encodable) /\ <<c>> \o s \in Shortened(t)
            BY <2>4
          <6>3. Joined({c}, Read(s)) = Read(<<c>> \o s)
            BY <4>3, <6>2, DecodeOne
          <6> HIDE DEF t
          <6>4. Read(<<c>> \o s) \in Cuts(t)
            BY <6>2 DEF Cuts
          <6> QED BY <6>1, <6>3, <6>4
        <5> QED BY <5>1, <5>2
      <4> QED BY <4>2, <4>4, <4>5
    <3> QED BY <3>1, <3>2
  <2> HIDE DEF t, e, r
  <2>7. Good(t)
    BY <2>1, <2>6
  <2> HIDE DEF Good
  <2>8. t \in T
    BY <2>3, <2>7
  <2> QED BY <2>8 DEF t
<1>3. Seq(Encodable) \subseteq T
  <2> HIDE DEF T, Encodable
  <2> QED BY <1>1, <1>2, SeqSetInduction
<1> QED BY <1>3

--------------------------------------------------------------------------------
(* The calls of MCValues. *)

\* What a call is made with: choices the program records, buffers of bytes.
LegalCalls ==
    /\ Calls("encode") => \E x, y \in Encodable : at.choices = <<x, y>>
    /\ Calls("decode") => at.buffer \in Bytes

\* The arguments enumerated are choices the program can record.
LEMMA SomeAreEncodable == SomeChoices \subseteq Encodable /\ FewChoices \subseteq Encodable /\ SomeBuffers \subseteq Bytes
<1>0. FloatBytes \in Nat \ {0} /\ ByteSize \in Nat /\ ByteSize >= 4 /\ GroupSize \in Nat \ {0}
  BY CodecAssumption, Sizes, SMTT(30)
<1>1. {0, 1, 2, 3, ByteSize - 1} \subseteq 0 .. ByteSize - 1 /\ 0 .. ByteSize - 1 = Byte
  BY <1>0, SMT DEF Byte
<1>2. \A S : \A n \in Nat : \A f \in [1 .. n -> S] : f \in Seq(S)
  BY FunctionIsSeq
<1>3. [type : {"boolean"}, value : BOOLEAN] \cup [type : {"integer"}, value : -40 .. 40]
      \cup [type : {"float"}, value : [1 .. FloatBytes -> {0, 1, ByteSize - 1}]] \subseteq Encodable
  <2>1. [1 .. FloatBytes -> {0, 1, ByteSize - 1}] \subseteq [1 .. FloatBytes -> Byte]
    BY <1>1
  <2>2. -40 .. 40 \subseteq Int
    BY SMT
  <2> HIDE DEF Byte
  <2> QED BY <2>1, <2>2 DEF Encodable
<1>4. UNION {[1 .. n -> {0, ByteSize - 1}] : n \in 0 .. 4} \subseteq Bytes
  <2>1. ASSUME NEW n \in 0 .. 4, NEW f \in [1 .. n -> {0, ByteSize - 1}] PROVE f \in Bytes
    <3>1. f \in [1 .. n -> Byte] /\ n \in Nat
      BY <1>1
    <3> HIDE DEF Byte
    <3>2. f \in Seq(Byte)
      BY <1>2, <3>1
    <3> QED BY <1>1, <3>2 DEF Bytes
  <2> QED BY <2>1
<1>5. {[i \in 1 .. GroupSize + k |-> 0] : k \in {-1, 0, 1}} \subseteq Bytes
  <2>1. ASSUME NEW k \in {-1, 0, 1} PROVE [i \in 1 .. GroupSize + k |-> 0] \in Bytes
    <3>1. GroupSize + k \in Nat
      BY <1>0, SMT
    <3>2. [i \in 1 .. GroupSize + k |-> 0] \in [1 .. GroupSize + k -> Byte]
      BY <1>1
    <3> DEFINE f == [i \in 1 .. GroupSize + k |-> 0]
               m == GroupSize + k
    <3> HIDE DEF Byte, f, m
    <3>3. f \in Seq(Byte)
      BY <1>2, <3>1, <3>2 DEF f, m
    <3> QED BY <1>1, <3>3 DEF Bytes, f
  <2> QED BY <2>1
<1>6. UNION {[1 .. n -> DOMAIN Utf8] : n \in 0 .. 3} \subseteq Seq(Characters)
  <2>1. ASSUME NEW n \in 0 .. 3, NEW f \in [1 .. n -> DOMAIN Utf8] PROVE f \in Seq(Characters)
    <3>1. n \in Nat /\ f \in [1 .. n -> Characters]
      BY DEF Characters
    <3> QED BY <1>2, <3>1
  <2> QED BY <2>1
<1>7. SomeChoices \subseteq Encodable
  <2> DEFINE A == [type : {"boolean"}, value : BOOLEAN] \cup [type : {"integer"}, value : -40 .. 40]
                  \cup [type : {"float"}, value : [1 .. FloatBytes -> {0, 1, ByteSize - 1}]]
             V == UNION {[1 .. n -> {0, ByteSize - 1}] : n \in 0 .. 4}
             W == {[i \in 1 .. GroupSize + k |-> 0] : k \in {-1, 0, 1}}
             B == [type : {"bytes"}, value : (UNION {[1 .. n -> {0, ByteSize - 1}] : n \in 0 .. 4})
                                   \cup {[i \in 1 .. GroupSize + k |-> 0] : k \in {-1, 0, 1}}]
             C == [type : {"string"}, value : UNION {[1 .. n -> DOMAIN Utf8] : n \in 0 .. 3}]
  <2>1. SomeChoices = (A \cup B) \cup C
    BY Zenon DEF SomeChoices
  <2>2. V \subseteq Bytes /\ W \subseteq Bytes
    BY <1>4, <1>5
  <2>3. C \subseteq [type : {"string"}, value : Seq(Characters)]
    BY <1>6
  <2>4. A \subseteq Encodable
    BY <1>3
  <2>5. B \subseteq [type : {"bytes"}, value : Bytes]
    <3> DEFINE X == (UNION {[1 .. n -> {0, ByteSize - 1}] : n \in 0 .. 4})
                                   \cup {[i \in 1 .. GroupSize + k |-> 0] : k \in {-1, 0, 1}}
    <3>1. X \subseteq Bytes
      <4>1. X = V \cup W
        OBVIOUS
      <4> HIDE DEF X, V, W
      <4> QED BY <2>2, <4>1
    <3>2. B = [type : {"bytes"}, value : X]
      OBVIOUS
    <3> HIDE DEF X, B
    <3> QED BY <3>1, <3>2
  <2>6. [type : {"bytes"}, value : Bytes] \cup [type : {"string"}, value : Seq(Characters)] \subseteq Encodable
    BY Zenon DEF Encodable
  <2> HIDE DEF A, B, C, Encodable
  <2> QED BY <2>1, <2>3, <2>4, <2>5, <2>6
<1>8. FewChoices \subseteq Encodable
  <2>1. <<0, 1, 2, 3>> \in Bytes
    BY <1>1 DEF Bytes
  <2>2. [i \in 1 .. FloatBytes |-> 1] \in [1 .. FloatBytes -> Byte]
    BY <1>1
  <2>3. \A c \in DOMAIN Utf8 : <<c>> \in Seq(Characters)
    BY DEF Characters
  <2>4. [type : {"string"}, value : {<<c>> : c \in DOMAIN Utf8}] \subseteq [type : {"string"}, value : Seq(Characters)]
    BY <2>3
  <2>5. [type |-> "boolean", value |-> TRUE] \in Encodable /\ [type |-> "integer", value |-> -33] \in Encodable
    BY DEF Encodable
  <2>6. [type |-> "float", value |-> [i \in 1 .. FloatBytes |-> 1]] \in Encodable
    <3> DEFINE z == [i \in 1 .. FloatBytes |-> 1]
    <3> HIDE DEF z, Byte
    <3> QED BY <2>2 DEF Encodable, z
  <2>7. [type |-> "bytes", value |-> <<0, 1, 2, 3>>] \in Encodable
    <3> DEFINE z == <<0, 1, 2, 3>>
    <3> HIDE DEF z
    <3> QED BY <2>1 DEF Encodable, z
  <2>8. [type : {"string"}, value : {<<c>> : c \in DOMAIN Utf8}] \subseteq Encodable
    BY <2>4, Zenon DEF Encodable
  <2> HIDE DEF Encodable
  <2> QED BY <2>5, <2>6, <2>7, <2>8 DEF FewChoices
<1>9. SomeBuffers \subseteq Bytes
  <2>1. ASSUME NEW n \in 0 .. 2, NEW f \in [1 .. n -> 0 .. ByteSize - 1] PROVE f \in Bytes
    <3>1. n \in Nat /\ f \in [1 .. n -> Byte]
      BY <1>1
    <3> HIDE DEF Byte
    <3>2. f \in Seq(Byte)
      BY <1>2, <3>1
    <3> QED BY <1>1, <3>2 DEF Bytes
  <2> QED BY <2>1 DEF SomeBuffers
<1> QED BY <1>7, <1>8, <1>9

\* Every call is made with such arguments.
LEMMA CallsStayLegal ==
  ASSUME LegalCalls, [Next]_vars PROVE LegalCalls'
<1>1. CASE UNCHANGED vars
  BY <1>1 DEF LegalCalls, Calls, vars
<1>2. CASE Pure
  <2>1. CASE Encoding
    <3>1. PICK x \in SomeChoices, y \in FewChoices : at' = [call |-> "encode", choices |-> <<x, y>>]
      BY <2>1 DEF Encoding
    <3>2. x \in Encodable /\ y \in Encodable /\ at'.choices = <<x, y>> /\ at'.call = "encode"
      BY <3>1, SomeAreEncodable
    <3> HIDE DEF Encodable
    <3> QED BY <3>2 DEF LegalCalls, Calls
  <2>2. CASE Decoding
    <3>1. PICK b \in SomeBuffers : at' = [call |-> "decode", buffer |-> b]
      BY <2>2 DEF Decoding
    <3>2. b \in Bytes /\ at'.buffer = b /\ at'.call = "decode"
      BY <3>1, SomeAreEncodable
    <3> QED BY <3>2 DEF LegalCalls, Calls
  <2>3. CASE Index \/ Floating \/ Lex \/ NextFloat \/ Algebra \/ FromString
    <3>1. at'.call \in {"index", "floats", "lex", "next", "algebra", "chars"}
      BY <2>3 DEF Index, Floating, Lex, NextFloat, Algebra, FromString
    <3> QED BY <3>1 DEF LegalCalls, Calls
  <2> QED BY <1>2, <2>1, <2>2, <2>3 DEF Pure
<1>3. CASE Database
  <2>1. at'.call \in {"none", "move"}
    BY <1>3 DEF Database, DbMove, Idle
  <2> QED BY <2>1 DEF LegalCalls, Calls
<1> QED BY <1>1, <1>2, <1>3 DEF Next

\* What a cut leaves of two choices.
LEMMA TwoShortened ==
  ASSUME NEW x \in Encodable, NEW y \in Encodable, NEW s \in Shortened(<<x, y>>)
  PROVE  s \in {<<>>, <<x>>} \cup {<<e>> : e \in Emptied(x)} \cup {<<x, e>> : e \in Emptied(y)}
<1> HIDE DEF Encodable
<1>1. <<x, y>> \in Seq(Encodable) /\ Len(<<x, y>>) = 2 /\ <<x, y>>[1] = x /\ <<x, y>>[2] = y
  OBVIOUS
<1> DEFINE t == <<x, y>>
<1> HIDE DEF t
<1>2. PICK k \in 0 .. Len(t) - 1 : \E tail \in {<<>>} \cup {<<e>> : e \in Emptied(t[k + 1])} : s = SubSeq(t, 1, k) \o tail
  BY DEF Shortened, t
<1>3. PICK tail \in {<<>>} \cup {<<e>> : e \in Emptied(t[k + 1])} : s = SubSeq(t, 1, k) \o tail
  BY <1>2
<1>4. ASSUME NEW e \in Encodable PROVE <<>> \o <<e>> = <<e>> /\ <<x>> \o <<e>> = <<x, e>>
  <2>1. <<>> \o <<e>> = <<e>>
    BY ConcatEmptySeq
  <2> DEFINE z == <<x>> \o <<e>>
  <2>2. z \in Seq(Encodable) /\ Len(z) = 2 /\ z[1] = x /\ z[2] = e
    OBVIOUS
  <2>3. <<x, e>> \in Seq(Encodable) /\ Len(<<x, e>>) = 2 /\ <<x, e>>[1] = x /\ <<x, e>>[2] = e
    OBVIOUS
  <2> HIDE DEF z
  <2>4. \A i \in 1 .. 2 : z[i] = <<x, e>>[i]
    BY <2>2, <2>3
  <2>5. z = <<x, e>>
    BY <2>2, <2>3, <2>4, SeqEqual
  <2> QED BY <2>1, <2>5 DEF z
<1>5. CASE k = 0
  <2>1. SubSeq(t, 1, 0) = <<>> /\ <<>> \o <<>> = <<>> /\ t[0 + 1] = x
    BY <1>1, SubSeqEmpty DEF t
  <2> QED BY <1>3, <1>4, <1>5, <2>1, EmptiedIs
<1>6. CASE k = 1
  <2>0. 1 \in 0 .. Len(t) /\ <<x>> \in Seq(Encodable) /\ Len(<<x>>) = 1 /\ <<x>>[1] = x /\ t \in Seq(Encodable) /\ t[1] = x
    BY <1>1 DEF t
  <2> DEFINE z == SubSeq(t, 1, 1)
  <2>3. z \in Seq(Encodable) /\ Len(z) = 1 /\ \A i \in 1 .. 1 : z[i] = t[i]
    BY <2>0, Beginning
  <2> HIDE DEF z
  <2>4. \A i \in 1 .. 1 : z[i] = <<x>>[i]
    BY <2>0, <2>3
  <2>5. z = <<x>>
    BY <2>0, <2>3, <2>4, SeqEqual
  <2>1. SubSeq(t, 1, 1) = <<x>> /\ <<x>> \o <<>> = <<x>> /\ t[1 + 1] = y
    BY <1>1, <2>0, <2>5, ConcatEmptySeq DEF t, z
  <2> QED BY <1>3, <1>4, <1>6, <2>1, EmptiedIs
<1> QED BY <1>1, <1>2, <1>5, <1>6 DEF t

\* CodecInverse, of any two choices.
LEMMA EncodingInverts == ASSUME LegalCalls PROVE CodecInverse
<1> SUFFICES ASSUME Calls("encode") PROVE CodecInverse
  BY DEF CodecInverse
<1>1. PICK x \in Encodable, y \in Encodable : at.choices = <<x, y>>
  BY DEF LegalCalls
<1> DEFINE cs == <<x, y>>
           bytes == EncodeChoices(cs)
<1>2. cs \in Seq(Encodable) /\ cs[1] = x /\ cs[2] = y
  <2> HIDE DEF Encodable
  <2> QED OBVIOUS
<1>3. Decode[bytes] = Read(cs) /\ OneChoiceSize(x) = Len(EncodeChoice(x))
  BY <1>2, RoundTrip, SizeIsLength
<1>4. Decode[bytes].ok /\ Decode[bytes].choices = cs
  BY <1>3 DEF Read
<1>5. ASSUME NEW n \in 0 .. Len(bytes) - 1, Decode[SubSeq(bytes, 1, n)].ok
      PROVE  Decode[SubSeq(bytes, 1, n)].choices \in {<<>>, <<x>>} \cup {<<e>> : e \in Emptied(x)} \cup {<<x, e>> : e \in Emptied(y)}
  <2>1. Decode[SubSeq(bytes, 1, n)] \in Cuts(cs)
    BY <1>2, CutAnywhere
  <2>2. Decode[SubSeq(bytes, 1, n)] # Rejected
    BY <1>5 DEF Rejected
  <2>3. PICK s \in Shortened(cs) : Decode[SubSeq(bytes, 1, n)] = Read(s)
    BY <2>1, <2>2 DEF Cuts
  <2>4. Decode[SubSeq(bytes, 1, n)].choices = s
    BY <2>3 DEF Read
  <2> HIDE DEF Encodable
  <2> QED BY <2>3, <2>4, TwoShortened
<1> HIDE DEF Encodable
<1>6. at.choices = cs /\ at.choices[1] = x /\ at.choices[2] = y
  BY <1>1, <1>2
<1> HIDE DEF cs
<1>7. CodecInverse
  BY <1>3, <1>4, <1>5, <1>6 DEF CodecInverse
<1> QED BY <1>7

\* DecodingSettles, of any buffer.
LEMMA DecodingIsStable == ASSUME LegalCalls PROVE DecodingSettles
<1> SUFFICES ASSUME Calls("decode") PROVE DecodingSettles
  BY DEF DecodingSettles
<1>1. at.buffer \in Bytes
  BY DEF LegalCalls
<1> DEFINE d == Decode[at.buffer]
<1>2. d \in Decoded
  BY <1>1, DecodeDef
<1> HIDE DEF d
<1>3. ASSUME d.ok PROVE Decode[EncodeChoices(d.choices)] = d
  <2>1. d # Rejected
    BY <1>3 DEF Rejected
  <2>2. PICK cs \in Seq(Encodable) : d = Read(cs)
    BY <1>2, <2>1 DEF Decoded
  <2>3. d.choices = cs
    BY <2>2 DEF Read
  <2> QED BY <2>2, <2>3, RoundTrip
<1> QED BY <1>3 DEF DecodingSettles, d

\* The codec.
THEOREM CodecCorrect == Spec => []CodecAgrees
<1>1. Init => LegalCalls
  <2>1. Init => at.call = "none"
    BY DEF Init, Idle
  <2> QED BY <2>1 DEF LegalCalls, Calls
<1>2. LegalCalls /\ [Next]_vars => LegalCalls'
  BY CallsStayLegal
<1>3. LegalCalls => CodecAgrees
  BY EncodingInverts, DecodingIsStable DEF CodecAgrees
<1> QED BY <1>1, <1>2, <1>3, PTL DEF Spec

\* MoveValue leaves the value at its destination and not at its source.
LEMMA MovedValue ==
  ASSUME NEW d, NEW src, NEW dest, NEW v
  PROVE  /\ v \in Fetch(MoveValue(d, src, dest, v), dest)
         /\ src # dest => v \notin Fetch(MoveValue(d, src, dest, v), src)
<1>1. ASSUME NEW b PROVE v \in Fetch(Save(b, dest, v), dest)
  BY DEF Fetch, Save
<1>2. ASSUME src # dest PROVE v \notin Fetch(Save(Delete(d, src, v), dest, v), src)
  <2>1. v \notin Fetch(Delete(d, src, v), src)
    BY DEF Fetch, Delete
  <2> DEFINE b == Delete(d, src, v)
  <2> HIDE DEF b
  <2>2. DOMAIN Save(b, dest, v) = DOMAIN b \cup {dest}
    BY DEF Save
  <2>3. CASE src \in DOMAIN b
    <3>1. Save(b, dest, v)[src] = Fetch(b, src) \cup {}
      BY <1>2, <2>3 DEF Save
    <3> QED BY <2>1, <2>2, <2>3, <3>1 DEF b, Fetch
  <2>4. CASE src \notin DOMAIN b
    <3>1. Fetch(Save(b, dest, v), src) = {}
      BY <1>2, <2>2, <2>4 DEF Fetch
    <3> QED BY <3>1 DEF b
  <2> QED BY <2>3, <2>4 DEF b
<1> QED BY <1>1, <1>2 DEF MoveValue

\* The database's move.
THEOREM MoveCorrect == Spec => []MoveKeeps
<1>1. Init => MoveKeeps
  BY DEF Init, Idle, MoveKeeps, Calls
<1>2. ASSUME MoveKeeps, [Next]_vars PROVE MoveKeeps'
  <2>1. CASE UNCHANGED vars
    BY <1>2, <2>1 DEF MoveKeeps, Calls, vars
  <2>2. CASE at'.call # "move"
    BY <2>2 DEF MoveKeeps, Calls
  <2>3. CASE DbMove
    <3>1. PICK k \in Keys, l \in Keys, v \in DbValues : db' = MoveValue(db, k, l, v) /\ at' = [call |-> "move", src |-> k, dest |-> l, value |-> v]
      BY <2>3 DEF DbMove
    <3>2. at'.src = k /\ at'.dest = l /\ at'.value = v
      BY <3>1
    <3>3. v \in Fetch(db', l) /\ (k # l => v \notin Fetch(db', k))
      BY <3>1, MovedValue
    <3> QED BY <3>2, <3>3 DEF MoveKeeps
  <2>4. Pure => at'.call # "move"
    BY DEF Pure, Index, Floating, Lex, NextFloat, Algebra, FromString, Encoding, Decoding
  <2>5. Database => DbMove \/ at'.call # "move"
    BY DEF Database, Idle
  <2> QED BY <1>2, <2>1, <2>2, <2>3, <2>4, <2>5 DEF Next
<1> QED BY <1>1, <1>2, PTL DEF Spec

================================================================================
