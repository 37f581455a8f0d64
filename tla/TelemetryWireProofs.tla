------------------------ MODULE TelemetryWireProofs ------------------------
(***************************************************************************)
(* What the decoder makes of what the serializer writes, for telemetries   *)
(* of any values: every number, string and float is read back, so is every *)
(* field, in any order and among fields that the decoder does not know.    *)
(*                                                                         *)
(* The induction theorems of the library take operators and cannot be      *)
(* instantiated by the provers, but WFMin takes a set: SetInduction is     *)
(* induction over a set of numbers, and all that the proofs need.          *)
(***************************************************************************)
EXTENDS TelemetryWire, TLAPS, WellFoundedInduction, SequenceTheorems

-----------------------------------------------------------------------------
(* Induction.                                                              *)

LEMMA LeastElement ==
  ASSUME NEW T \in SUBSET Nat, T # {}
  PROVE  \E x \in T : \A y \in T : x <= y
<1>1. PICK x \in T : \A y \in T : ~ (<<y, x>> \in OpToRel(<, Nat))
  BY NatLessThanWellFounded, WFMin, Zenon
<1>2. \A y \in T : y < x => <<y, x>> \in OpToRel(<, Nat)
  BY DEF OpToRel
<1>3. \A y \in T : ~ (y < x)
  BY <1>1, <1>2, Zenon
<1>4. \A y \in T : x <= y
  BY ONLY <1>3, T \in SUBSET Nat, x \in T
<1>5. QED
  BY ONLY <1>4, x \in T

LEMMA SetInduction ==
  ASSUME NEW T \in SUBSET Nat, 0 \in T, \A n \in T : n + 1 \in T
  PROVE  \A n \in Nat : n \in T
<1>1. SUFFICES ASSUME Nat \ T # {} PROVE FALSE
  OBVIOUS
<1>2. PICK x \in Nat \ T : \A y \in Nat \ T : x <= y
  BY <1>1, LeastElement
<1>3. x # 0 /\ x - 1 \in Nat /\ x - 1 \in T
  BY <1>2
<1>4. (x - 1) + 1 \in T
  BY <1>3
<1>5. QED
  BY <1>2, <1>4

-----------------------------------------------------------------------------
(* Sequences.                                                              *)

LEMMA SeqOfFunction ==
  ASSUME NEW S, NEW n \in Nat, NEW s \in [1 .. n -> S]
  PROVE  s \in Seq(S) /\ Len(s) = n
OBVIOUS

LEMMA ElementIn ==
  ASSUME NEW S, NEW s, s \in Seq(S), NEW k, k \in DOMAIN s
  PROVE  s[k] \in S
OBVIOUS

LEMMA TenIsSeq ==
  ASSUME NEW S, NEW s, s \in [1 .. 10 -> S]
  PROVE  s \in Seq(S) /\ Len(s) = 10
<1> DEFINE n == 10
<1>1. n \in Nat /\ s \in [1 .. n -> S]
  OBVIOUS
<1> HIDE DEF n
<1>2. s \in Seq(S) /\ Len(s) = n
  BY ONLY <1>1, SeqOfFunction
<1>3. QED
  BY ONLY <1>2 DEF n

(* s stands in b at p.                                                     *)
At(b, p, s) ==
  /\ p + Len(s) <= Len(b) + 1
  /\ \A i \in 1 .. Len(s) : b[p + i - 1] = s[i]

LEMMA AtConcat ==
  ASSUME NEW S, NEW s \in Seq(S), NEW t \in Seq(S), NEW b \in Seq(S), NEW p \in Nat, p > 0
  PROVE  At(b, p, s \o t) <=> At(b, p, s) /\ At(b, p + Len(s), t)
<1>1. /\ Len(s \o t) = Len(s) + Len(t)
      /\ \A i \in 1 .. Len(s) + Len(t) :
           (s \o t)[i] = IF i <= Len(s) THEN s[i] ELSE t[i - Len(s)]
  BY ConcatProperties
<1>2. Len(s) \in Nat /\ Len(t) \in Nat /\ Len(b) \in Nat
  BY LenProperties
<1>3. ASSUME At(b, p, s \o t) PROVE At(b, p, s) /\ At(b, p + Len(s), t)
  <2>1. \A i \in 1 .. Len(s) : b[p + i - 1] = s[i]
    BY <1>1, <1>2, <1>3 DEF At
  <2>2. ASSUME NEW i \in 1 .. Len(t) PROVE b[(p + Len(s)) + i - 1] = t[i]
    <3>1. i + Len(s) \in 1 .. Len(s) + Len(t) /\ ~ (i + Len(s) <= Len(s))
      BY <1>2
    <3>2. (s \o t)[i + Len(s)] = t[(i + Len(s)) - Len(s)]
      BY <1>1, <3>1
    <3>3. b[p + (i + Len(s)) - 1] = (s \o t)[i + Len(s)]
      BY <1>1, <1>3, <3>1 DEF At
    <3>4. (i + Len(s)) - Len(s) = i /\ p + (i + Len(s)) - 1 = (p + Len(s)) + i - 1
      BY <1>2
    <3>5. QED
      BY <3>2, <3>3, <3>4
  <2>3. QED
    BY <1>1, <1>2, <1>3, <2>1, <2>2 DEF At
<1>4. ASSUME At(b, p, s), At(b, p + Len(s), t) PROVE At(b, p, s \o t)
  <2>1. ASSUME NEW i \in 1 .. Len(s) + Len(t) PROVE b[p + i - 1] = (s \o t)[i]
    <3>1. CASE i <= Len(s)
      BY <1>1, <1>2, <1>4, <3>1 DEF At
    <3>2. CASE ~ (i <= Len(s))
      <4>1. i - Len(s) \in 1 .. Len(t) /\ (p + Len(s)) + (i - Len(s)) - 1 = p + i - 1
        BY <1>2, <3>2
      <4>2. b[(p + Len(s)) + (i - Len(s)) - 1] = t[i - Len(s)]
        BY <1>4, <4>1 DEF At
      <4>3. QED
        BY <1>1, <3>2, <4>1, <4>2
    <3>3. QED
      BY <3>1, <3>2
  <2>2. QED
    BY <1>1, <1>2, <1>4, <2>1 DEF At
<1>5. QED
  BY <1>3, <1>4

LEMMA AtWhole ==
  ASSUME NEW S, NEW b \in Seq(S)
  PROVE  At(b, 1, b)
<1>1. Len(b) \in Nat
  BY LenProperties
<1>2. QED
  BY <1>1 DEF At

-----------------------------------------------------------------------------
(* Varints.                                                                *)

LEMMA WordType ==
  ASSUME NEW w \in Words
  PROVE  /\ Len(w) = 10 /\ w \in [1 .. 10 -> 0 .. 127] /\ w[10] < 2
         /\ \A k \in 1 .. 10 : w[k] \in 0 .. 127
<1>1. w \in Seq(0 .. 127) /\ Len(w) = 10 /\ w[10] < 2
  BY DEF Words
<1>2. w \in [1 .. 10 -> 0 .. 127]
  BY <1>1, LenProperties
<1>3. QED
  BY <1>1, <1>2

LEMMA MaxIs ==
  ASSUME NEW T \in SUBSET Int, NEW n \in T, \A k \in T : k <= n
  PROVE  Max(T) = n
<1>1. \E x \in T : \A y \in T : x >= y
  OBVIOUS
<1>2. Max(T) \in T /\ \A y \in T : Max(T) >= y
  BY <1>1, Zenon DEF Max
<1>3. ASSUME NEW m \in T, \A y \in T : m >= y PROVE m = n
  BY <1>3
<1>4. QED
  BY ONLY <1>2, <1>3

LEMMA MinIs ==
  ASSUME NEW T \in SUBSET Int, NEW n \in T, \A k \in T : n <= k
  PROVE  Min(T) = n
<1>1. \E x \in T : \A y \in T : x <= y
  OBVIOUS
<1>2. Min(T) \in T /\ \A y \in T : Min(T) <= y
  BY <1>1, Zenon DEF Min
<1>3. ASSUME NEW m \in T, \A y \in T : m <= y PROVE m = n
  BY <1>3
<1>4. QED
  BY ONLY <1>2, <1>3

(* The last group that is not zero, or the first.                          *)
LEMMA LastGroup ==
  ASSUME NEW w \in Words
  PROVE  \E n \in 1 .. 10 :
           /\ n = Max({1} \cup {k \in 1 .. 10 : w[k] # 0})
           /\ n = 1 \/ w[n] # 0
           /\ \A k \in n + 1 .. 10 : w[k] = 0
<1> DEFINE T == {1} \cup {k \in 1 .. 10 : w[k] # 0}
           U == {i \in 0 .. 9 : 10 - i \in T}
<1>1. U \in SUBSET Nat /\ 9 \in U
  OBVIOUS
<1>2. PICK i \in U : \A j \in U : i <= j
  BY <1>1, LeastElement
<1>3. 10 - i \in T /\ 10 - i \in 1 .. 10
  BY <1>2
<1>4. ASSUME NEW k \in T PROVE k <= 10 - i
  <2>1. 10 - k \in U /\ k \in 1 .. 10 /\ i \in 0 .. 9
    OBVIOUS
  <2>2. i <= 10 - k
    BY <1>2, <2>1
  <2>3. QED
    BY ONLY <2>1, <2>2
<1>5. Max(T) = 10 - i
  BY <1>3, <1>4, MaxIs
<1>6. \A k \in (10 - i) + 1 .. 10 : w[k] = 0
  BY <1>3, <1>4
<1>7. QED
  BY <1>3, <1>5, <1>6

(* What encode_varint writes.                                              *)
LEMMA VarintForm ==
  ASSUME NEW w \in Words
  PROVE  \E n \in 1 .. 10 :
           /\ EncodeVarint(w) \in Seq(Bytes) /\ Len(EncodeVarint(w)) = n
           /\ \A k \in 1 .. n : EncodeVarint(w)[k] = IF k < n THEN w[k] + 128 ELSE w[k]
           /\ n = 1 \/ w[n] # 0
           /\ \A k \in n + 1 .. 10 : w[k] = 0
<1>1. PICK n \in 1 .. 10 :
        /\ n = Max({1} \cup {k \in 1 .. 10 : w[k] # 0})
        /\ n = 1 \/ w[n] # 0
        /\ \A k \in n + 1 .. 10 : w[k] = 0
  BY LastGroup
<1>2. EncodeVarint(w) = [k \in 1 .. n |-> IF k < n THEN w[k] + 128 ELSE w[k]]
  BY <1>1 DEF EncodeVarint
<1>3. \A k \in 1 .. n : (IF k < n THEN w[k] + 128 ELSE w[k]) \in Bytes
  BY WordType DEF Bytes
<1>4. EncodeVarint(w) \in [1 .. n -> Bytes]
  BY <1>2, <1>3
<1>5. EncodeVarint(w) \in Seq(Bytes) /\ Len(EncodeVarint(w)) = n
  BY <1>4
<1>6. QED
  BY <1>1, <1>2, <1>5

(* The n bytes of a varint stand in b at p.                                *)
WrittenAt(b, p, w, n) ==
  \A k \in 1 .. n : b[p + k - 1] = IF k < n THEN w[k] + 128 ELSE w[k]

Ends(b, p, len) == {k \in p .. len : b[k] < 128}

Groups(b, p, e) == [k \in 1 .. 10 |-> IF p + k - 1 > e THEN 0 ELSE b[p + k - 1] % 128]

(* The first byte below 128 is the last one written.                       *)
LEMMA VarintEnd ==
  ASSUME NEW b, NEW w, NEW p \in Nat, NEW n \in 1 .. 10, NEW len \in Nat, p + n <= len + 1,
         w \in [1 .. 10 -> 0 .. 127], WrittenAt(b, p, w, n)
  PROVE  Ends(b, p, len) # {} /\ Min(Ends(b, p, len)) = p + n - 1
<1> DEFINE ends == {k \in p .. len : b[k] < 128}
           e == p + n - 1
<1>0. \A k \in 1 .. n : b[p + k - 1] = IF k < n THEN w[k] + 128 ELSE w[k]
  BY DEF WrittenAt
<1>1. e \in p .. len /\ b[e] = w[n] /\ w[n] \in 0 .. 127
  BY <1>0
<1>2. e \in ends
  BY ONLY <1>1
<1>3. ASSUME NEW k \in ends PROVE e <= k
  <2>1. SUFFICES ASSUME k < e PROVE FALSE
    OBVIOUS
  <2>2. k - p + 1 \in 1 .. n /\ k - p + 1 < n /\ p + (k - p + 1) - 1 = k
    BY <2>1
  <2>3. b[k] = w[k - p + 1] + 128 /\ w[k - p + 1] \in 0 .. 127
    BY <1>0, <2>2
  <2>4. QED
    BY ONLY <2>3, k \in ends
<1>4. ends \in SUBSET Int
  OBVIOUS
<1>5. Min(ends) = e
  BY ONLY <1>2, <1>3, <1>4, MinIs
<1>6. QED
  BY ONLY <1>2, <1>5 DEF Ends

LEMMA LowBits ==
  ASSUME NEW x \in 0 .. 127
  PROVE  x % 128 = x /\ (x + 128) % 128 = x
OBVIOUS

(* The groups without their continuation bits.                             *)
LEMMA VarintValue ==
  ASSUME NEW b, NEW w, NEW p \in Nat, NEW n \in 1 .. 10, w \in [1 .. 10 -> 0 .. 127],
         \A k \in n + 1 .. 10 : w[k] = 0, WrittenAt(b, p, w, n)
  PROVE  Groups(b, p, p + n - 1) = w
<1> DEFINE v == [k \in 1 .. 10 |-> IF p + k - 1 > p + n - 1 THEN 0 ELSE b[p + k - 1] % 128]
<1>0. \A k \in 1 .. n : b[p + k - 1] = IF k < n THEN w[k] + 128 ELSE w[k]
  BY DEF WrittenAt
<1>1. ASSUME NEW k \in 1 .. 10 PROVE v[k] = w[k]
  <2>1. v[k] = IF k > n THEN 0 ELSE b[p + k - 1] % 128
    OBVIOUS
  <2>2. CASE k > n
    BY <2>1, <2>2
  <2>3. CASE ~ (k > n)
    <3>1. b[p + k - 1] = w[k] \/ b[p + k - 1] = w[k] + 128
      BY <1>0, <2>3
    <3>2. b[p + k - 1] % 128 = w[k]
      BY <3>1, LowBits
    <3>3. QED
      BY <2>1, <2>3, <3>2
  <2>4. QED
    BY <2>2, <2>3
<1>2. v \in [1 .. 10 -> 0 .. 127]
  <2>1. v = [k \in 1 .. 10 |-> v[k]]
    OBVIOUS
  <2>2. \A k \in 1 .. 10 : v[k] \in 0 .. 127
    BY <1>1
  <2> HIDE DEF v
  <2>3. QED
    BY ONLY <2>1, <2>2
<1> HIDE DEF v
<1>3. v = w
  BY ONLY <1>1, <1>2, w \in [1 .. 10 -> 0 .. 127]
<1>4. QED
  BY <1>3 DEF v, Groups

(* binary.ReadUvarint reads what encode_varint wrote.                      *)
LEMMA VarintIsRead ==
  ASSUME NEW w, w \in Words, NEW b, b \in Seq(Bytes), NEW p \in Nat, p > 0,
         At(b, p, EncodeVarint(w))
  PROVE  ReadUvarint(b, p) = Got(w, p + Len(EncodeVarint(w)))
<1>1. PICK n \in 1 .. 10 :
           /\ EncodeVarint(w) \in Seq(Bytes) /\ Len(EncodeVarint(w)) = n
           /\ \A k \in 1 .. n : EncodeVarint(w)[k] = IF k < n THEN w[k] + 128 ELSE w[k]
           /\ n = 1 \/ w[n] # 0
           /\ \A k \in n + 1 .. 10 : w[k] = 0
  BY VarintForm
<1>2. Len(b) \in Nat /\ p + n <= Len(b) + 1
  BY <1>1, LenProperties DEF At
<1>3. WrittenAt(b, p, w, n)
  BY <1>1 DEF At, WrittenAt
<1>4. w \in [1 .. 10 -> 0 .. 127] /\ w[10] < 2
  BY WordType
<1> DEFINE e == p + n - 1
           ends == Ends(b, p, Len(b))
<1>5. ends # {} /\ Min(ends) = e
  BY ONLY <1>2, <1>3, <1>4, n \in 1 .. 10, p \in Nat, VarintEnd
<1>6. Groups(b, p, e) = w
  <2>1. \A k \in n + 1 .. 10 : w[k] = 0
    BY <1>1
  <2>2. QED
    BY ONLY <2>1, <1>3, <1>4, n \in 1 .. 10, p \in Nat, VarintValue
<1>7. e - p = 9 => ~ (b[e] > 1)
  <2>1. w[10] \in 0 .. 127 /\ w[10] < 2
    BY ONLY <1>4
  <2>2. ~ (w[10] > 1)
    BY ONLY <2>1
  <2>3. n = 10 => b[e] = w[10]
    BY ONLY <1>3, n \in 1 .. 10, p \in Nat DEF WrittenAt
  <2>4. e - p = n - 1
    BY ONLY n \in 1 .. 10, p \in Nat
  <2>5. e - p = 9 => n = 10
    BY ONLY <2>4, n \in 1 .. 10
  <2>6. QED
    BY ONLY <2>2, <2>3, <2>5
<1>8. ~ (ends = {} \/ e - p > 9 \/ (e - p = 9 /\ b[e] > 1))
  BY ONLY <1>5, <1>7, n \in 1 .. 10, p \in Nat
<1>9. ReadUvarint(b, p) =
        IF ends = {} \/ Min(ends) - p > 9 \/ (Min(ends) - p = 9 /\ b[Min(ends)] > 1) THEN Failed
        ELSE Got(Groups(b, p, Min(ends)), Min(ends) + 1)
  BY DEF ReadUvarint, Ends, Groups
<1>10. e + 1 = p + n
  BY ONLY n \in 1 .. 10, p \in Nat
<1> HIDE DEF ends, e
<1>11. ReadUvarint(b, p) = Got(w, p + n)
  BY ONLY <1>5, <1>6, <1>8, <1>9, <1>10
<1>12. QED
  BY ONLY <1>1, <1>11

LEMMA VarintType ==
  ASSUME NEW w, w \in Words
  PROVE  /\ EncodeVarint(w) \in Seq(Bytes)
         /\ Len(EncodeVarint(w)) \in Nat /\ Len(EncodeVarint(w)) > 0
         /\ Len(EncodeVarint(w)) <= 10
         /\ \A n \in 1 .. 10 : (\A k \in n + 1 .. 10 : w[k] = 0) => Len(EncodeVarint(w)) <= n
<1>1. PICK n \in 1 .. 10 :
           /\ EncodeVarint(w) \in Seq(Bytes) /\ Len(EncodeVarint(w)) = n
           /\ n = 1 \/ w[n] # 0
  BY VarintForm
<1>2. ASSUME NEW m \in 1 .. 10, \A k \in m + 1 .. 10 : w[k] = 0 PROVE n <= m
  BY ONLY <1>1, <1>2, n \in 1 .. 10, m \in 1 .. 10
<1>3. QED
  BY ONLY <1>1, <1>2, n \in 1 .. 10

-----------------------------------------------------------------------------
(* Numbers as words.                                                       *)

(* Five groups, enough for every tag and every length.                    *)
Nat35 == {n \in Nat : n <= 34359738367}

LEMMA WeightValues ==
  /\ Weights[1] = 1 /\ Weights[2] = 128 /\ Weights[3] = 16384
  /\ Weights[4] = 2097152 /\ Weights[5] = 268435456
BY SMT DEF Weights

(* The groups of a number, with the weights written out.                   *)
LEMMA WordGroups ==
  ASSUME NEW n \in Int
  PROVE  LET m == IF n < 0 THEN -(n + 1) ELSE n
             g(x) == IF n >= 0 THEN x ELSE 127 - x
         IN /\ Word(n) = [k \in 1 .. 10 |-> Word(n)[k]]
            /\ Word(n)[1] = g((m \div 1) % 128)
            /\ Word(n)[2] = g((m \div 128) % 128)
            /\ Word(n)[3] = g((m \div 16384) % 128)
            /\ Word(n)[4] = g((m \div 2097152) % 128)
            /\ Word(n)[5] = g((m \div 268435456) % 128)
            /\ \A k \in 6 .. 9 : Word(n)[k] = g(0)
            /\ Word(n)[10] = IF n >= 0 THEN 0 ELSE 1
<1> DEFINE m == IF n < 0 THEN -(n + 1) ELSE n
           group(k) == IF k > 5 THEN 0 ELSE (m \div Weights[k]) % 128
           w == [k \in 1 .. 10 |-> IF n >= 0 THEN group(k)
                                   ELSE IF k = 10 THEN 1 ELSE 127 - group(k)]
<1>1. Word(n) = w
  BY DEF Word
<1>2. /\ group(1) = (m \div 1) % 128 /\ group(2) = (m \div 128) % 128
      /\ group(3) = (m \div 16384) % 128 /\ group(4) = (m \div 2097152) % 128
      /\ group(5) = (m \div 268435456) % 128
      /\ \A k \in 6 .. 10 : group(k) = 0
  BY WeightValues, SMT
<1> HIDE DEF m, group
<1>3. \A k \in 1 .. 10 :
        w[k] = IF n >= 0 THEN group(k) ELSE IF k = 10 THEN 1 ELSE 127 - group(k)
  BY SMT
<1>4. w = [k \in 1 .. 10 |-> w[k]]
  BY SMT
<1> HIDE DEF w
<1>5. QED
  BY <1>1, <1>2, <1>3, <1>4, SMT DEF m

LEMMA WordOfNat ==
  ASSUME NEW n \in Nat35
  PROVE  /\ Word(n) \in Words
         /\ Word(n)[1] = n % 128 /\ Word(n)[2] = (n \div 128) % 128
         /\ n < 16384 => \A k \in 3 .. 10 : Word(n)[k] = 0
         /\ n >= 16384 => \E k \in 3 .. 10 : Word(n)[k] # 0
<1>1. /\ Word(n) = [k \in 1 .. 10 |-> Word(n)[k]]
      /\ Word(n)[1] = n % 128
      /\ Word(n)[2] = (n \div 128) % 128
      /\ Word(n)[3] = (n \div 16384) % 128
      /\ Word(n)[4] = (n \div 2097152) % 128
      /\ Word(n)[5] = (n \div 268435456) % 128
      /\ \A k \in 6 .. 10 : Word(n)[k] = 0
  BY WordGroups, SMT DEF Nat35
<1>2. \A k \in 1 .. 10 : Word(n)[k] \in 0 .. 127
  BY <1>1, SMT DEF Nat35
<1>3. Word(n) \in [1 .. 10 -> 0 .. 127]
  BY ONLY <1>1, <1>2
<1>4. Word(n) \in Seq(0 .. 127) /\ Len(Word(n)) = 10
  BY ONLY <1>3, TenIsSeq
<1>5. Word(n) \in Words
  <2>1. Word(n)[10] = 0
    BY <1>1, SMT
  <2>2. QED
    BY <1>4, <2>1 DEF Words
<1>6. n < 16384 => n \div 16384 = 0 /\ n \div 2097152 = 0 /\ n \div 268435456 = 0
  BY SMT DEF Nat35
<1>7. n < 16384 => \A k \in 3 .. 10 : Word(n)[k] = 0
  BY <1>1, <1>6, SMT
<1>8. ASSUME (n \div 16384) % 128 = 0, (n \div 2097152) % 128 = 0, (n \div 268435456) % 128 = 0
      PROVE  n < 16384
  BY <1>8, SMT DEF Nat35
<1>9. n >= 16384 => \E k \in 3 .. 10 : Word(n)[k] # 0
  BY <1>1, <1>8, SMT DEF Nat35
<1>10. QED
  BY <1>1, <1>5, <1>7, <1>9, SMT

LEMMA SizeOfNat ==
  ASSUME NEW n \in Nat35
  PROVE  Size(Word(n)) = IF n < MaxSize THEN n ELSE MaxSize
<1>1. n < 16384 => (n % 128) + (128 * ((n \div 128) % 128)) = n
  BY SMT DEF Nat35
<1>2. n < 16384 \/ n >= 16384
  BY SMT DEF Nat35
<1>3. QED
  BY <1>1, <1>2, WordOfNat, SMT DEF Size, MaxSize

(* The wire type of a tag.                                                 *)
LEMMA TagWire ==
  ASSUME NEW field \in FieldNumbers, NEW wire \in 0 .. 7
  PROVE  /\ (8 * field) + wire \in Nat35
         /\ Word((8 * field) + wire)[1] % 8 = wire
<1>1. (8 * field) + wire \in Nat35
  BY SMT DEF FieldNumbers, Nat35
<1>2. Word((8 * field) + wire)[1] = ((8 * field) + wire) % 128
  BY ONLY <1>1, WordOfNat
<1>3. (((8 * field) + wire) % 128) % 8 = wire
  BY SMT DEF FieldNumbers
<1>4. QED
  BY ONLY <1>1, <1>2, <1>3

(* A signed number of 32 bits survives the way through 64 bits.            *)
LEMMA WordOfInt ==
  ASSUME NEW n \in Int32s
  PROVE  Word(n) \in Words /\ Int32(Word(n)) = Word(n)
<1> DEFINE w == Word(n)
           m == IF n < 0 THEN -(n + 1) ELSE n
<1>1. n \in Int /\ m \in Nat /\ m <= 2147483647
  BY SMT DEF Int32s
<1> DEFINE g(x) == IF n >= 0 THEN x ELSE 127 - x
           group(k) == (m \div k) % 128
<1>2. /\ w = [k \in 1 .. 10 |-> w[k]]
      /\ w[1] = g(group(1)) /\ w[2] = g(group(128)) /\ w[3] = g(group(16384))
      /\ w[4] = g(group(2097152)) /\ w[5] = g(group(268435456))
      /\ \A k \in 6 .. 9 : w[k] = g(0)
      /\ w[10] = IF n >= 0 THEN 0 ELSE 1
  BY <1>1, WordGroups
<1> HIDE DEF w, m
<1>3. /\ group(1) \in 0 .. 127 /\ group(128) \in 0 .. 127 /\ group(16384) \in 0 .. 127
      /\ group(2097152) \in 0 .. 127
  BY <1>1, SMT
<1>4. group(268435456) \in 0 .. 7
  BY <1>1, SMT
<1> HIDE DEF group
<1>5. n >= 0 => /\ w = [k \in 1 .. 10 |-> w[k]]
                /\ \A k \in 1 .. 4 : w[k] \in 0 .. 127
                /\ w[5] \in 0 .. 7
                /\ \A k \in 6 .. 10 : w[k] = 0
  BY <1>2, <1>3, <1>4, SMT
<1>6. n < 0 => /\ w = [k \in 1 .. 10 |-> w[k]]
               /\ \A k \in 1 .. 4 : w[k] \in 0 .. 127
               /\ w[5] \in 120 .. 127
               /\ \A k \in 6 .. 9 : w[k] = 127
               /\ w[10] = 1
  BY <1>1, <1>2, <1>3, <1>4, SMT
<1>7. w \in Words
  <2>1. \A k \in 1 .. 10 : w[k] \in 0 .. 127
    BY <1>1, <1>5, <1>6, SMT
  <2>2. w = [k \in 1 .. 10 |-> w[k]]
    BY <1>1, <1>5, <1>6, SMT
  <2>3. w \in [1 .. 10 -> 0 .. 127]
    BY ONLY <2>1, <2>2
  <2>4. w \in Seq(0 .. 127) /\ Len(w) = 10
    BY ONLY <2>3, TenIsSeq
  <2>5. w[10] < 2
    BY <1>1, <1>5, <1>6, SMT
  <2>6. QED
    BY <2>4, <2>5 DEF Words
<1>8. CASE n >= 0
  <2>1. w[5] % 16 = w[5] /\ w[5] % 16 < 8
    BY <1>5, <1>8
  <2>2. Uint32(w) = w
    BY <1>5, <1>8, <2>1 DEF Uint32
  <2>3. QED
    BY <1>7, <2>1, <2>2 DEF Int32, w
<1>9. CASE n < 0
  <2>1. (w[5] % 16) + 112 = w[5] /\ ~ (w[5] % 16 < 8)
    BY <1>6, <1>9
  <2>2. [k \in 1 .. 10 |-> CASE k < 5 -> w[k] [] k = 5 -> (w[k] % 16) + 112
                             [] k \in 6 .. 9 -> 127 [] k = 10 -> 1] = w
    BY <1>6, <1>9, <2>1
  <2>3. Int32(w) = w
    BY <2>1, <2>2 DEF Int32
  <2>4. QED
    BY <1>7, <2>3 DEF w
<1>10. QED
  BY <1>1, <1>8, <1>9, SMT

LEMMA Uint32IsKept ==
  ASSUME NEW w \in Uint32Words
  PROVE  w \in Words /\ Uint32(w) = w
<1>1. /\ w \in [1 .. 10 -> 0 .. 127] /\ w \in Words
      /\ w[5] < 16 /\ \A k \in 6 .. 10 : w[k] = 0
  BY WordType DEF Uint32Words
<1>2. w[5] \in 0 .. 15 /\ w[5] % 16 = w[5]
  BY ONLY <1>1
<1>3. [k \in 1 .. 10 |-> CASE k < 5 -> w[k] [] k = 5 -> w[k] % 16 [] k > 5 -> 0] = w
  BY ONLY <1>1, <1>2
<1>4. QED
  BY <1>1, <1>3 DEF Uint32

LEMMA ZeroWord == Zero \in Uint32Words /\ \A k \in 1 .. 10 : Zero[k] = 0
<1>1. Zero \in Words /\ Zero[1] = 0 /\ Zero[2] = 0 /\ \A k \in 3 .. 10 : Zero[k] = 0
  BY WordOfNat, SMT DEF Zero, Nat35
<1>2. QED
  BY <1>1 DEF Uint32Words

-----------------------------------------------------------------------------
(* Strings, and the tag of a field.                                        *)

LEMMA BytesAreRead ==
  ASSUME NEW s, s \in Seq(Bytes), NEW b, b \in Seq(Bytes), NEW p \in Nat, p > 0, At(b, p, s)
  PROVE  ReadBytes(b, p, Len(s)) = Got(s, p + Len(s))
<1> DEFINE n == Len(s)
           t == SubSeq(b, p, p + n - 1)
<1>1. n \in Nat /\ Len(b) \in Nat
  BY LenProperties
<1>2. p + n <= Len(b) + 1 /\ \A i \in 1 .. n : b[p + i - 1] = s[i]
  BY DEF At
<1>3. \A i \in p .. p + n - 1 : b[i] \in Bytes
  <2>1. \A i \in p .. p + n - 1 : i \in 1 .. Len(b)
    BY ONLY <1>1, <1>2, p \in Nat, p > 0
  <2>2. \A i \in 1 .. Len(b) : b[i] \in Bytes
    BY ElementOfSeq
  <2>3. QED
    BY ONLY <2>1, <2>2
<1>4. /\ t \in Seq(Bytes)
      /\ Len(t) = IF p <= p + n - 1 THEN p + n - 1 - p + 1 ELSE 0
      /\ \A i \in 1 .. p + n - 1 - p + 1 : t[i] = b[p + i - 1]
  <2>1. p \in Int /\ p + n - 1 \in Int
    BY ONLY <1>1, p \in Nat
  <2>2. QED
    BY ONLY <1>3, <2>1, SubSeqProperties
<1>5. Len(t) = n /\ \A i \in 1 .. n : t[i] = s[i]
  <2>1. p + n - 1 - p + 1 = n /\ (~ (p <= p + n - 1) => n = 0)
    BY ONLY <1>1, p \in Nat
  <2> HIDE DEF t, n
  <2>2. QED
    BY ONLY <1>1, <1>2, <1>4, <2>1
<1>6. t = s
  BY <1>4, <1>5, SeqEqual
<1>7. ~ (p + n - 1 > Len(b))
  BY ONLY <1>1, <1>2, p \in Nat
<1> HIDE DEF t, n
<1>8. ReadBytes(b, p, n) = Got(t, p + n)
  BY <1>7 DEF ReadBytes, t
<1>9. QED
  BY ONLY <1>6, <1>8 DEF n

LEMMA LengthIsNat35 ==
  ASSUME NEW n \in Nat, n < MaxSize
  PROVE  n \in Nat35 /\ Word(n) \in Words /\ Size(Word(n)) = n
<1>1. n \in Nat35
  BY SMT DEF MaxSize, Nat35
<1>2. QED
  BY ONLY <1>1, n < MaxSize, WordOfNat, SizeOfNat

(* readString reads what stands behind the tag of a string.                *)
LEMMA StringIsRead ==
  ASSUME NEW s, s \in Seq(Bytes), Len(s) < MaxSize, NEW b, b \in Seq(Bytes),
         NEW p \in Nat, p > 0, At(b, p, EncodeVarint(Word(Len(s))) \o s)
  PROVE  ReadString(b, p) = Got(s, p + Len(EncodeVarint(Word(Len(s))) \o s))
<1> DEFINE w == Word(Len(s))
           v == EncodeVarint(w)
<1>1. Len(s) \in Nat
  BY LenProperties
<1>2. w \in Words /\ Size(w) = Len(s)
  BY ONLY <1>1, Len(s) < MaxSize, LengthIsNat35
<1>3. v \in Seq(Bytes) /\ Len(v) \in Nat /\ Len(v) > 0
  BY ONLY <1>2, VarintType
<1> HIDE DEF w, v
<1>4. Len(v \o s) = Len(v) + Len(s)
  BY ONLY <1>3, s \in Seq(Bytes), ConcatProperties
<1>5. At(b, p, v \o s)
  BY DEF v, w
<1>6. At(b, p, v) /\ At(b, p + Len(v), s)
  BY ONLY <1>3, <1>5, s \in Seq(Bytes), b \in Seq(Bytes), p \in Nat, p > 0, AtConcat
<1>7. ReadUvarint(b, p) = Got(w, p + Len(v))
  BY ONLY <1>2, <1>6, b \in Seq(Bytes), p \in Nat, p > 0, VarintIsRead DEF v
<1>8. ReadBytes(b, p + Len(v), Len(s)) = Got(s, (p + Len(v)) + Len(s))
  <2>1. p + Len(v) \in Nat /\ p + Len(v) > 0
    <3>1. Len(v) \in Nat /\ Len(v) > 0
      BY ONLY <1>3
    <3>2. QED
      BY ONLY <3>1, p \in Nat
  <2>2. QED
    BY ONLY <2>1, <1>6, s \in Seq(Bytes), b \in Seq(Bytes), BytesAreRead
<1>9. ReadString(b, p) = ReadBytes(b, p + Len(v), Len(s))
  BY ONLY <1>2, <1>7 DEF ReadString, Got
<1>10. (p + Len(v)) + Len(s) = p + Len(v \o s)
  BY ONLY <1>1, <1>3, <1>4, p \in Nat
<1>11. QED
  BY ONLY <1>8, <1>9, <1>10 DEF v, w

(* The reading of a tag; a number of more than 14 bits is cut off.         *)
IsTag(tag, field, wire, next) ==
  /\ tag.ok /\ tag.next = next
  /\ tag.value[1] % 8 = wire
  /\ Size(tag.value) \div 8 = IF field < 2048 THEN field ELSE 2048

LEMMA TagIsRead ==
  ASSUME NEW field \in FieldNumbers, NEW wire \in 0 .. 7, NEW b, b \in Seq(Bytes),
         NEW p \in Nat, p > 0, At(b, p, Tag(field, wire))
  PROVE  IsTag(ReadUvarint(b, p), field, wire, p + Len(Tag(field, wire)))
<1> DEFINE n == (8 * field) + wire
<1>1. n \in Nat35 /\ Word(n)[1] % 8 = wire
  BY ONLY field \in FieldNumbers, wire \in 0 .. 7, TagWire
<1>2. Word(n) \in Words
  BY ONLY <1>1, WordOfNat
<1>3. ReadUvarint(b, p) = Got(Word(n), p + Len(Tag(field, wire)))
  <2>1. Tag(field, wire) = EncodeVarint(Word(n))
    BY DEF Tag
  <2> HIDE DEF n
  <2>2. At(b, p, EncodeVarint(Word(n)))
    BY ONLY <2>1, At(b, p, Tag(field, wire))
  <2>3. QED
    BY ONLY <1>2, <2>1, <2>2, b \in Seq(Bytes), p \in Nat, p > 0, VarintIsRead
<1>4. Size(Word(n)) = IF n < MaxSize THEN n ELSE MaxSize
  BY ONLY <1>1, SizeOfNat
<1>5. Size(Word(n)) \div 8 = IF field < 2048 THEN field ELSE 2048
  BY <1>4, SMT DEF MaxSize, FieldNumbers
<1>6. QED
  BY ONLY <1>1, <1>3, <1>5 DEF Got, IsTag

LEMMA TagType ==
  ASSUME NEW field \in FieldNumbers, NEW wire \in 0 .. 7
  PROVE  /\ Tag(field, wire) \in Seq(Bytes)
         /\ Len(Tag(field, wire)) \in Nat /\ Len(Tag(field, wire)) > 0
         /\ Len(Tag(field, wire)) <= 10
         /\ field < 16 => Len(Tag(field, wire)) = 1
<1> DEFINE n == (8 * field) + wire
<1>1. n \in Nat35
  BY ONLY field \in FieldNumbers, wire \in 0 .. 7, TagWire
<1>2. Word(n) \in Words
  BY ONLY <1>1, WordOfNat
<1>3. /\ Tag(field, wire) \in Seq(Bytes)
      /\ Len(Tag(field, wire)) \in Nat /\ Len(Tag(field, wire)) > 0
      /\ Len(Tag(field, wire)) <= 10
  BY ONLY <1>2, VarintType DEF Tag
<1>4. ASSUME field < 16 PROVE Len(Tag(field, wire)) = 1
  <2>1. n < 128 /\ n < 16384 /\ (n \div 128) % 128 = 0
    BY <1>4, SMT DEF FieldNumbers
  <2>2. \A k \in 2 .. 10 : Word(n)[k] = 0
    BY ONLY <1>1, <2>1, WordOfNat
  <2>3. Len(EncodeVarint(Word(n))) <= 1
    <3>1. \A k \in 1 + 1 .. 10 : Word(n)[k] = 0
      BY ONLY <2>2
    <3>2. QED
      BY ONLY <1>2, <3>1, VarintType
  <2>4. Len(Tag(field, wire)) <= 1
    BY ONLY <2>3 DEF Tag
  <2>5. Len(Tag(field, wire)) \in Nat /\ Len(Tag(field, wire)) > 0
    BY ONLY <1>3
  <2>6. QED
    BY ONLY <2>4, <2>5
<1>5. QED
  BY ONLY <1>3, <1>4

-----------------------------------------------------------------------------
(* Whatever the bytes are, a read goes forward and stays in them.          *)

LEMMA LowBitsOfByte ==
  ASSUME NEW x \in Bytes
  PROVE  x % 128 \in Nat
<1>1. x \in Nat
  BY DEF Bytes
<1>2. QED
  BY ONLY <1>1

Ahead(b, p, q) == q \in Nat /\ p <= q /\ q <= Len(b) + 1

LEMMA UvarintGoesOn ==
  ASSUME NEW b, b \in Seq(Bytes), NEW p \in Nat, p > 0, ReadUvarint(b, p).ok
  PROVE  /\ Ahead(b, p, ReadUvarint(b, p).next) /\ ReadUvarint(b, p).next > p
         /\ Size(ReadUvarint(b, p).value) \in Nat
<1> DEFINE ends == Ends(b, p, Len(b))
           e == Min(ends)
           v == Groups(b, p, e)
<1>1. ReadUvarint(b, p) =
        IF ends = {} \/ e - p > 9 \/ (e - p = 9 /\ b[e] > 1) THEN Failed ELSE Got(v, e + 1)
  BY DEF ReadUvarint, Ends, Groups
<1>2. ends # {} /\ ReadUvarint(b, p) = Got(v, e + 1)
  BY <1>1 DEF Failed
<1>3. Len(b) \in Nat /\ \A i \in 1 .. Len(b) : b[i] \in Bytes
  BY LenProperties, ElementOfSeq
<1>4. ends \in SUBSET Nat /\ \A k \in ends : k \in Nat /\ p <= k /\ k <= Len(b)
  BY ONLY <1>3, p \in Nat DEF Ends
<1>5. PICK x \in ends : \A y \in ends : x <= y
  BY ONLY <1>2, <1>4, LeastElement
<1>6. e = x
  <2>1. ends \in SUBSET Int
    BY ONLY <1>4
  <2> HIDE DEF ends
  <2>2. QED
    BY ONLY <1>5, <2>1, x \in ends, MinIs
<1>7. e \in Nat /\ p <= e /\ e <= Len(b)
  BY ONLY <1>4, <1>6, x \in ends
<1> HIDE DEF e
<1>8. Ahead(b, p, e + 1) /\ e + 1 > p
  BY ONLY <1>3, <1>7, p \in Nat DEF Ahead
<1>9. Size(v) \in Nat
  <2>1. v[1] = IF p + 1 - 1 > e THEN 0 ELSE b[p + 1 - 1] % 128
    BY DEF Groups
  <2>2. v[2] = IF p + 2 - 1 > e THEN 0 ELSE b[p + 2 - 1] % 128
    BY DEF Groups
  <2>3. v[1] \in Nat
    <3>1. b[p] \in Bytes
      BY ONLY <1>3, <1>7, p \in Nat, p > 0
    <3>2. b[p] % 128 \in Nat
      BY ONLY <3>1, LowBitsOfByte
    <3>3. p + 1 - 1 = p
      BY ONLY p \in Nat
    <3> HIDE DEF v
    <3>4. QED
      BY ONLY <2>1, <3>2, <3>3
  <2>4. v[2] \in Nat
    <3>1. CASE p + 2 - 1 > e
      BY ONLY <2>2, <3>1
    <3>2. CASE ~ (p + 2 - 1 > e)
      <4>1. p + 1 \in 1 .. Len(b) /\ p + 2 - 1 = p + 1
        BY ONLY <1>3, <1>7, <3>2, p \in Nat
      <4>2. b[p + 1] \in Bytes
        BY ONLY <1>3, <4>1
      <4>3. b[p + 1] % 128 \in Nat
        BY ONLY <4>2, LowBitsOfByte
      <4> HIDE DEF v
      <4>4. QED
        BY ONLY <2>2, <3>2, <4>1, <4>3
    <3>3. QED
      BY ONLY <3>1, <3>2
  <2> HIDE DEF v
  <2>5. v[1] + (128 * v[2]) \in Nat
    BY ONLY <2>3, <2>4
  <2>6. MaxSize \in Nat
    BY SMT DEF MaxSize
  <2>7. QED
    BY ONLY <2>5, <2>6 DEF Size
<1>10. QED
  BY ONLY <1>2, <1>8, <1>9 DEF Got

LEMMA BytesGoOn ==
  ASSUME NEW b, Len(b) \in Nat, NEW p \in Nat, NEW n \in Nat, p <= Len(b) + 1,
         ReadBytes(b, p, n).ok
  PROVE  Ahead(b, p, ReadBytes(b, p, n).next)
<1>1. ~ (p + n - 1 > Len(b)) /\ ReadBytes(b, p, n).next = p + n
  BY DEF ReadBytes, Failed, Got
<1>2. p + n \in Nat /\ p <= p + n /\ p + n <= Len(b) + 1
  BY ONLY <1>1, Len(b) \in Nat, p \in Nat, n \in Nat
<1>3. QED
  BY ONLY <1>1, <1>2 DEF Ahead

LEMMA StringGoesOn ==
  ASSUME NEW b, b \in Seq(Bytes), NEW p \in Nat, p > 0, ReadString(b, p).ok
  PROVE  Ahead(b, p, ReadString(b, p).next)
<1> DEFINE length == ReadUvarint(b, p)
           n == Size(length.value)
<1>1. length.ok /\ ReadString(b, p) = ReadBytes(b, length.next, n)
  BY DEF ReadString, Failed
<1>2. Ahead(b, p, length.next) /\ n \in Nat
  BY ONLY <1>1, b \in Seq(Bytes), p \in Nat, p > 0, UvarintGoesOn
<1>3. Len(b) \in Nat
  BY LenProperties
<1> DEFINE q == length.next
<1>4. q \in Nat /\ p <= q /\ q <= Len(b) + 1
  BY ONLY <1>2 DEF Ahead
<1> HIDE DEF q, n, length
<1>5. Ahead(b, q, ReadBytes(b, q, n).next)
  <2>1. ReadBytes(b, q, n).ok
    BY <1>1 DEF q
  <2>2. n \in Nat
    BY ONLY <1>2
  <2>3. QED
    BY ONLY <1>3, <1>4, <2>1, <2>2, BytesGoOn
<1>6. ReadString(b, p).next = ReadBytes(b, q, n).next
  BY ONLY <1>1 DEF q
<1>7. QED
  BY ONLY <1>4, <1>5, <1>6, p \in Nat DEF Ahead

LEMMA FieldGoesOn ==
  ASSUME NEW b, b \in Seq(Bytes), NEW p \in Nat, p > 0, p <= Len(b) + 1, NEW kind,
         ReadField(kind, b, p).ok
  PROVE  Ahead(b, p, ReadField(kind, b, p).next)
<1>1. Len(b) \in Nat
  BY LenProperties
<1>2. CASE kind \in {"string", "message"}
  <2>1. ReadField(kind, b, p) = ReadString(b, p)
    BY <1>2 DEF ReadField
  <2>2. QED
    BY <2>1, StringGoesOn
<1>3. CASE kind = "float"
  <2>1. ReadField(kind, b, p) = ReadBytes(b, p, 4)
    BY <1>3 DEF ReadField
  <2>2. 4 \in Nat /\ ReadBytes(b, p, 4).ok
    BY <2>1
  <2>3. Ahead(b, p, ReadBytes(b, p, 4).next)
    BY ONLY <1>1, <2>2, p \in Nat, p <= Len(b) + 1, BytesGoOn
  <2>4. QED
    BY ONLY <2>1, <2>3
<1>4. CASE kind \notin {"string", "message", "float"}
  <2>1. ReadField(kind, b, p) =
          IF ReadUvarint(b, p).ok
          THEN Got(Convert(kind, ReadUvarint(b, p).value), ReadUvarint(b, p).next) ELSE Failed
    BY <1>4 DEF ReadField
  <2>2. ReadUvarint(b, p).ok /\ ReadField(kind, b, p).next = ReadUvarint(b, p).next
    BY <2>1 DEF Got, Failed
  <2>3. QED
    BY <2>2, UvarintGoesOn
<1>5. QED
  BY <1>2, <1>3, <1>4

LEMMA SkipOfString ==
  ASSUME NEW b, NEW p, NEW length, length = ReadUvarint(b, p)
  PROVE  SkipField(2, b, p) =
           IF length.ok THEN Got(<<>>, Min({Len(b) + 1, length.next + Size(length.value)}))
           ELSE Failed
BY DEF SkipField

LEMMA SkipGoesOn ==
  ASSUME NEW b, b \in Seq(Bytes), NEW p \in Nat, p > 0, p <= Len(b) + 1, NEW wire,
         SkipField(wire, b, p).ok
  PROVE  Ahead(b, p, SkipField(wire, b, p).next)
<1>1. Len(b) \in Nat
  BY LenProperties
<1>2. CASE wire = 0
  <2>1. SkipField(wire, b, p) = ReadUvarint(b, p)
    BY <1>2 DEF SkipField
  <2>2. QED
    BY <2>1, UvarintGoesOn
<1>3. CASE wire \in {1, 5}
  <2>1. PICK n \in {4, 8} : SkipField(wire, b, p) = ReadBytes(b, p, n)
    BY <1>3 DEF SkipField
  <2>2. n \in Nat /\ ReadBytes(b, p, n).ok
    BY <2>1
  <2>3. Ahead(b, p, ReadBytes(b, p, n).next)
    BY ONLY <1>1, <2>2, p \in Nat, p <= Len(b) + 1, BytesGoOn
  <2>4. QED
    BY ONLY <2>1, <2>3
<1>4. CASE wire = 2
  <2> DEFINE length == ReadUvarint(b, p)
             q == length.next + Size(length.value)
  <2>1. SkipField(wire, b, p) = IF length.ok THEN Got(<<>>, Min({Len(b) + 1, q})) ELSE Failed
    BY <1>4 DEF SkipField
  <2>2. length.ok /\ SkipField(wire, b, p).next = Min({Len(b) + 1, q})
    BY <2>1 DEF Got, Failed
  <2>3. Ahead(b, p, length.next) /\ Size(length.value) \in Nat
    BY ONLY <2>2, b \in Seq(Bytes), p \in Nat, p > 0, UvarintGoesOn
  <2>4. q \in Nat /\ p <= q
    BY ONLY <2>3, p \in Nat DEF Ahead
  <2> HIDE DEF q
  <2>5. PICK m \in {Len(b) + 1, q} : m <= Len(b) + 1 /\ m <= q
    BY ONLY <1>1, <2>4
  <2>6. Min({Len(b) + 1, q}) = m
    <3>1. {Len(b) + 1, q} \in SUBSET Int
      BY ONLY <1>1, <2>4
    <3>2. \A k \in {Len(b) + 1, q} : m <= k
      BY ONLY <2>5
    <3>3. QED
      BY ONLY <3>1, <3>2, m \in {Len(b) + 1, q}, MinIs
  <2>7. m \in Nat /\ p <= m
    BY ONLY <1>1, <2>4, m \in {Len(b) + 1, q}, p <= Len(b) + 1
  <2>8. QED
    BY ONLY <2>2, <2>5, <2>6, <2>7 DEF Ahead
<1>5. CASE wire \notin {0, 1, 2, 5}
  BY <1>5 DEF SkipField, Failed
<1>6. QED
  BY <1>2, <1>3, <1>4, <1>5

(* What ReadTagged yields at p.                                            *)
Tagged(message, b, p) == ReadTagged(message, b, ReadUvarint(b, p))

(* It ends the message or goes on behind p, and finds one field at most.   *)
LEMMA TaggedGoesOn ==
  ASSUME NEW message, NEW b, b \in Seq(Bytes), NEW p \in Nat, p > 0
  PROVE  /\ Tagged(message, b, p).next # 0 =>
              /\ Ahead(b, p, Tagged(message, b, p).next)
              /\ Tagged(message, b, p).next > p
         /\ \E x : Tagged(message, b, p).fields \in {<<>>, <<x>>}
<1> DEFINE tag == ReadUvarint(b, p)
           r == Tagged(message, b, p)
           n == Size(tag.value) \div 8
           f == Schema[message][n]
           read == ReadField(f.kind, b, tag.next)
           skip == SkipField(tag.value[1] % 8, b, tag.next)
<1>1. CASE ~ tag.ok
  <2>1. r = Stop(IF message = "root" THEN <<Bad>> ELSE <<>>)
    BY <1>1 DEF Tagged, ReadTagged
  <2>2. QED
    BY ONLY <2>1 DEF Stop, Found
<1>2. CASE tag.ok
  <2>1. Ahead(b, p, tag.next) /\ tag.next > p
    BY ONLY <1>2, b \in Seq(Bytes), p \in Nat, p > 0, UvarintGoesOn
  <2> DEFINE q == tag.next
  <2>2. q \in Nat /\ q > 0 /\ q <= Len(b) + 1
    BY ONLY <2>1, p \in Nat DEF Ahead
  <2>3. CASE n \in DOMAIN Schema[message]
    <3>1. r = FieldRead(f.name, read)
      BY <1>2, <2>3 DEF Tagged, ReadTagged
    <3>2. CASE read.ok
      <4>1. r.fields = <<[name |-> f.name, value |-> read.value]>> /\ r.next = read.next
        BY <3>1, <3>2 DEF FieldRead, Found
      <4>2. Ahead(b, q, read.next)
        BY ONLY <2>2, <3>2, b \in Seq(Bytes), FieldGoesOn
      <4>3. Ahead(b, p, read.next) /\ read.next > p
        BY ONLY <2>1, <4>2, p \in Nat DEF Ahead
      <4>4. QED
        BY ONLY <4>1, <4>3
    <3>3. CASE ~ read.ok
      BY <3>1, <3>3 DEF FieldRead, Stop, Found
    <3>4. QED
      BY <3>2, <3>3
  <2>4. CASE n \notin DOMAIN Schema[message]
    <3>1. r = FieldSkipped(skip)
      BY <1>2, <2>4 DEF Tagged, ReadTagged
    <3>2. CASE skip.ok
      <4>1. r.fields = <<>> /\ r.next = skip.next
        BY <3>1, <3>2 DEF FieldSkipped, Found
      <4>2. Ahead(b, q, skip.next)
        BY ONLY <2>2, <3>2, b \in Seq(Bytes), SkipGoesOn
      <4>3. Ahead(b, p, skip.next) /\ skip.next > p
        BY ONLY <2>1, <4>2, p \in Nat DEF Ahead
      <4>4. QED
        BY ONLY <4>1, <4>3
    <3>3. CASE ~ skip.ok
      BY <3>1, <3>3 DEF FieldSkipped, Stop, Found
    <3>4. QED
      BY <3>2, <3>3
  <2>5. QED
    BY <2>3, <2>4
<1>3. QED
  BY <1>1, <1>2

(* The body of the recursion in Rest.                                      *)
RestBody(message, b, from, p) ==
  IF p > Len(b) THEN <<>>
  ELSE Tagged(message, b, p).fields
         \o (IF Tagged(message, b, p).next = 0 THEN <<>> ELSE from[Tagged(message, b, p).next])

(* A part of the function that Rest is: from the k-th last byte on.        *)
RestPart(message, b, k, from) ==
  from = [p \in Len(b) + 1 - k .. Len(b) + 1 |-> RestBody(message, b, from, p)]

LEMMA LongerPart ==
  ASSUME NEW message, NEW b, b \in Seq(Bytes), NEW k \in Nat, k < Len(b),
         NEW from, RestPart(message, b, k, from)
  PROVE  \E g : RestPart(message, b, k + 1, g)
<1> DEFINE n == Len(b)
           g == [p \in n + 1 - (k + 1) .. n + 1 |->
                   IF p = n - k THEN RestBody(message, b, from, p) ELSE from[p]]
<1>0. n \in Nat /\ k < n
  BY LenProperties
<1>1. \A p \in n + 1 - k .. n + 1 : from[p] = RestBody(message, b, from, p)
  BY DEF RestPart
<1> HIDE DEF n
<1>2. \A p \in n + 1 - k .. n + 1 : g[p] = from[p]
  BY ONLY <1>0, k \in Nat
<1>3. ASSUME NEW p \in n + 1 - (k + 1) .. n + 1
      PROVE  RestBody(message, b, g, p) = RestBody(message, b, from, p)
  <2>1. p \in Nat /\ p > 0 /\ p >= n - k
    BY ONLY <1>0, k \in Nat, p \in n + 1 - (k + 1) .. n + 1
  <2> DEFINE q == Tagged(message, b, p).next
  <2>2. q # 0 => Ahead(b, p, q) /\ q > p
    BY ONLY <2>1, b \in Seq(Bytes), TaggedGoesOn
  <2>3. q # 0 => q \in n + 1 - k .. n + 1
    BY ONLY <1>0, <2>1, <2>2, k \in Nat DEF Ahead, n
  <2>4. q # 0 => g[q] = from[q]
    BY ONLY <1>2, <2>3
  <2> HIDE DEF g
  <2>5. QED
    BY <2>4 DEF RestBody
<1>4. ASSUME NEW p \in n + 1 - (k + 1) .. n + 1
      PROVE  g[p] = RestBody(message, b, from, p)
  <2>1. CASE p = n - k
    BY <2>1
  <2>2. CASE p # n - k
    <3>1. p \in n + 1 - k .. n + 1
      BY ONLY <1>0, <2>2, k \in Nat, p \in n + 1 - (k + 1) .. n + 1
    <3>2. g[p] = from[p]
      BY ONLY <1>2, <3>1
    <3> HIDE DEF g
    <3>3. QED
      BY ONLY <1>1, <3>1, <3>2
  <2>3. QED
    BY <2>1, <2>2
<1>5. g = [p \in n + 1 - (k + 1) .. n + 1 |-> RestBody(message, b, g, p)]
  <2>1. g = [p \in n + 1 - (k + 1) .. n + 1 |-> g[p]]
    OBVIOUS
  <2> HIDE DEF g
  <2>2. QED
    BY ONLY <1>3, <1>4, <2>1
<1>6. RestPart(message, b, k + 1, g)
  <2> HIDE DEF g
  <2>1. QED
    BY ONLY <1>5 DEF RestPart, n
<1>7. QED
  BY <1>6

LEMMA RestExists ==
  ASSUME NEW message, NEW b, b \in Seq(Bytes)
  PROVE  \E g : RestPart(message, b, Len(b), g)
<1> DEFINE T == {k \in Nat : k <= Len(b) => \E g : RestPart(message, b, k, g)}
<1>0. Len(b) \in Nat
  BY LenProperties
<1>1. 0 \in T
  <2> DEFINE g == [p \in Len(b) + 1 - 0 .. Len(b) + 1 |-> <<>>]
  <2>1. ASSUME NEW p \in Len(b) + 1 - 0 .. Len(b) + 1 PROVE RestBody(message, b, g, p) = <<>>
    <3>1. p > Len(b)
      BY ONLY <1>0, p \in Len(b) + 1 - 0 .. Len(b) + 1
    <3>2. QED
      BY ONLY <3>1 DEF RestBody
  <2>2. g = [p \in Len(b) + 1 - 0 .. Len(b) + 1 |-> RestBody(message, b, g, p)]
    BY ONLY <2>1
  <2> HIDE DEF g
  <2>3. RestPart(message, b, 0, g)
    BY ONLY <2>2 DEF RestPart
  <2>4. QED
    BY <2>3
<1>2. ASSUME NEW k \in T PROVE k + 1 \in T
  <2>1. k \in Nat /\ (k <= Len(b) => \E g : RestPart(message, b, k, g))
    OBVIOUS
  <2>2. k + 1 <= Len(b) => \E g : RestPart(message, b, k + 1, g)
    <3>1. SUFFICES ASSUME k + 1 <= Len(b) PROVE \E g : RestPart(message, b, k + 1, g)
      OBVIOUS
    <3>2. k <= Len(b) /\ k < Len(b)
      BY ONLY <1>0, <2>1, k + 1 <= Len(b)
    <3>3. PICK g : RestPart(message, b, k, g)
      BY ONLY <2>1, <3>2
    <3>4. QED
      BY ONLY <2>1, <3>2, <3>3, b \in Seq(Bytes), LongerPart
  <2>3. QED
    BY ONLY <2>1, <2>2
<1>3. T \in SUBSET Nat
  OBVIOUS
<1> HIDE DEF T
<1>4. Len(b) \in T
  BY ONLY <1>0, <1>1, <1>2, <1>3, SetInduction
<1>5. QED
  BY ONLY <1>0, <1>4 DEF T

LEMMA RestDef ==
  ASSUME NEW message, NEW b, b \in Seq(Bytes), NEW p \in Nat, p > 0, p <= Len(b) + 1
  PROVE  Rest(message, b)[p] = RestBody(message, b, Rest(message, b), p)
<1> DEFINE R == Rest(message, b)
<1>1. Len(b) + 1 - Len(b) = 1 /\ Len(b) \in Nat
  <2>1. Len(b) \in Nat
    BY LenProperties
  <2>2. QED
    BY ONLY <2>1
<1>2. \E g : g = [q \in 1 .. Len(b) + 1 |-> RestBody(message, b, g, q)]
  <2>1. PICK g : RestPart(message, b, Len(b), g)
    BY RestExists
  <2>2. g = [q \in Len(b) + 1 - Len(b) .. Len(b) + 1 |-> RestBody(message, b, g, q)]
    BY ONLY <2>1 DEF RestPart
  <2>3. g = [q \in 1 .. Len(b) + 1 |-> RestBody(message, b, g, q)]
    BY ONLY <1>1, <2>2, Zenon
  <2>4. QED
    BY ONLY <2>3, Zenon
<1>3. R = CHOOSE g : g = [q \in 1 .. Len(b) + 1 |-> RestBody(message, b, g, q)]
  BY ONLY Zenon DEF Rest, RestBody, Tagged
<1> HIDE DEF R
<1>4. R = [q \in 1 .. Len(b) + 1 |-> RestBody(message, b, R, q)]
  BY ONLY <1>2, <1>3, Zenon
<1>5. p \in 1 .. Len(b) + 1
  BY ONLY <1>1, p \in Nat, p > 0, p <= Len(b) + 1
<1>6. R[p] = RestBody(message, b, R, p)
  BY ONLY <1>4, <1>5, Zenon
<1>7. QED
  BY ONLY <1>6 DEF R

(* The fields of a message, as a set.                                      *)
Entries(message, b) == {Tagged(message, b, p).fields[1] : p \in 1 .. Len(b)}

LEMMA RestType ==
  ASSUME NEW message, NEW b, b \in Seq(Bytes), NEW p \in Nat, p > 0, p <= Len(b) + 1
  PROVE  Rest(message, b)[p] \in Seq(Entries(message, b))
<1> DEFINE n == Len(b)
           R == Rest(message, b)
           E == Entries(message, b)
           T == {k \in Nat : \A q \in 1 .. n + 1 : q >= n + 1 - k => R[q] \in Seq(E)}
<1>0. n \in Nat
  BY LenProperties
<1>1. \A q \in 1 .. n + 1 : R[q] = RestBody(message, b, R, q)
  BY RestDef
<1>2. <<>> \in Seq(E)
  OBVIOUS
<1> HIDE DEF R, n
<1>3. 0 \in T
  <2>1. ASSUME NEW q \in 1 .. n + 1, q >= n + 1 - 0 PROVE R[q] \in Seq(E)
    <3>1. q > n
      BY ONLY <1>0, <2>1
    <3>2. R[q] = <<>>
      BY <1>1, <3>1 DEF RestBody, n
    <3>3. QED
      BY ONLY <1>2, <3>2
  <2>2. QED
    BY <2>1
<1>4. ASSUME NEW k \in T PROVE k + 1 \in T
  <2>1. k \in Nat /\ \A q \in 1 .. n + 1 : q >= n + 1 - k => R[q] \in Seq(E)
    OBVIOUS
  <2>2. ASSUME NEW q \in 1 .. n + 1, q >= n + 1 - (k + 1) PROVE R[q] \in Seq(E)
    <3>0. R[q] = RestBody(message, b, R, q)
      BY ONLY <1>1, q \in 1 .. n + 1
    <3>1. CASE q > n
      <4>1. R[q] = <<>>
        BY ONLY <3>0, <3>1 DEF RestBody, n
      <4>2. QED
        BY ONLY <1>2, <4>1
    <3>2. CASE ~ (q > n)
      <4> DEFINE r == Tagged(message, b, q)
      <4>0. q \in Nat /\ q > 0 /\ q \in 1 .. n
        BY ONLY <1>0, <3>2, q \in 1 .. n + 1
      <4>1. /\ r.next # 0 => Ahead(b, q, r.next) /\ r.next > q
            /\ \E x : r.fields \in {<<>>, <<x>>}
        BY ONLY <4>0, b \in Seq(Bytes), TaggedGoesOn
      <4>2. r.fields \in Seq(E)
        <5>1. PICK x : r.fields \in {<<>>, <<x>>}
          BY ONLY <4>1
        <5>2. r.fields[1] \in E
          BY ONLY <4>0 DEF Entries, n
        <5>3. CASE r.fields = <<>>
          BY ONLY <1>2, <5>3
        <5>4. CASE r.fields = <<x>>
          <6>1. x \in E
            BY ONLY <5>2, <5>4
          <6> HIDE DEF E, r
          <6>2. QED
            BY ONLY <5>4, <6>1
        <5>5. QED
          BY ONLY <5>1, <5>3, <5>4
      <4>3. r.next # 0 => R[r.next] \in Seq(E)
        <5>1. r.next # 0 => r.next \in 1 .. n + 1 /\ r.next >= n + 1 - k
          BY ONLY <1>0, <2>1, <2>2, <4>0, <4>1 DEF Ahead, n
        <5>2. QED
          BY ONLY <2>1, <5>1
      <4>4. R[q] = r.fields \o (IF r.next = 0 THEN <<>> ELSE R[r.next])
        BY ONLY <3>0, <3>2 DEF RestBody, n
      <4> HIDE DEF r, E
      <4>5. (IF r.next = 0 THEN <<>> ELSE R[r.next]) \in Seq(E)
        BY ONLY <1>2, <4>3
      <4>6. QED
        BY ONLY <4>2, <4>4, <4>5, ConcatProperties
    <3>3. QED
      BY ONLY <3>1, <3>2
  <2>3. QED
    BY ONLY <2>1, <2>2
<1>5. T \in SUBSET Nat
  OBVIOUS
<1> HIDE DEF T
<1>6. n \in T
  BY ONLY <1>0, <1>3, <1>4, <1>5, SetInduction
<1>7. p \in 1 .. n + 1 /\ p >= n + 1 - n
  BY ONLY <1>0, p \in Nat, p > 0, p <= Len(b) + 1 DEF n
<1>8. QED
  BY ONLY <1>6, <1>7 DEF T, R

-----------------------------------------------------------------------------
(* A message as a row of chunks.                                           *)

(* The recursion of FlattenSeq, up to the k-th sequence.                   *)
FlattenPart(ss, k, f) ==
  f = [i \in 1 .. k |-> IF i = 1 THEN ss[i] ELSE f[i - 1] \o ss[i]]

LEMMA FlattenExists ==
  ASSUME NEW ss, NEW n \in Nat
  PROVE  \E f : FlattenPart(ss, n, f)
<1> DEFINE T == {k \in Nat : \E f : FlattenPart(ss, k, f)}
<1>1. 0 \in T
  <2> DEFINE f == [i \in 1 .. 0 |-> <<>>]
  <2>1. FlattenPart(ss, 0, f)
    BY DEF FlattenPart
  <2>2. QED
    BY <2>1
<1>2. ASSUME NEW k \in T PROVE k + 1 \in T
  <2>1. PICK f : FlattenPart(ss, k, f)
    OBVIOUS
  <2>2. k \in Nat /\ \A i \in 1 .. k : f[i] = IF i = 1 THEN ss[i] ELSE f[i - 1] \o ss[i]
    BY <2>1 DEF FlattenPart
  <2> DEFINE g == [i \in 1 .. k + 1 |-> IF i = k + 1 /\ i # 1 THEN f[k] \o ss[i]
                                        ELSE IF i = 1 THEN ss[i] ELSE f[i]]
  <2>3. \A i \in 1 .. k : g[i] = f[i]
    BY ONLY <2>2
  <2>4. ASSUME NEW i \in 1 .. k + 1 PROVE g[i] = IF i = 1 THEN ss[i] ELSE g[i - 1] \o ss[i]
    <3>1. CASE i = 1
      BY ONLY <2>2, <3>1
    <3>2. CASE i # 1 /\ i = k + 1
      <4>1. k \in 1 .. k /\ i - 1 = k
        BY ONLY k \in Nat, <3>2, i \in 1 .. k + 1
      <4>2. g[i] = f[k] \o ss[i]
        BY ONLY <3>2, i \in 1 .. k + 1
      <4>3. g[k] = f[k]
        BY ONLY <2>3, <4>1
      <4> HIDE DEF g
      <4>4. QED
        BY ONLY <3>2, <4>1, <4>2, <4>3
    <3>3. CASE i # 1 /\ i # k + 1
      <4>1. i \in 1 .. k /\ i - 1 \in 1 .. k
        BY ONLY <2>2, <3>3, i \in 1 .. k + 1
      <4>2. g[i] = f[i] /\ g[i - 1] = f[i - 1]
        BY ONLY <2>3, <4>1
      <4> HIDE DEF g
      <4>3. QED
        BY ONLY <2>2, <3>3, <4>1, <4>2
    <3>4. QED
      BY ONLY <3>1, <3>2, <3>3
  <2>5. g = [i \in 1 .. k + 1 |-> g[i]]
    OBVIOUS
  <2> HIDE DEF g
  <2>6. FlattenPart(ss, k + 1, g)
    BY ONLY <2>4, <2>5 DEF FlattenPart
  <2>7. k + 1 \in Nat
    BY ONLY <2>2
  <2>8. QED
    BY <2>6, <2>7
<1>3. T \in SUBSET Nat
  OBVIOUS
<1> HIDE DEF T
<1>4. n \in T
  BY ONLY <1>1, <1>2, <1>3, n \in Nat, SetInduction
<1>5. QED
  BY ONLY <1>4 DEF T

LEMMA FlattenDef ==
  ASSUME NEW ss, Len(ss) \in Nat, Len(ss) # 0
  PROVE  \E f : /\ FlattenSeq(ss) = f[Len(ss)]
                /\ f[1] = ss[1]
                /\ \A i \in 1 .. Len(ss) : i # 1 => f[i] = f[i - 1] \o ss[i]
<1> DEFINE f == CHOOSE f : FlattenPart(ss, Len(ss), f)
<1>1. FlattenPart(ss, Len(ss), f)
  BY FlattenExists
<1>2. FlattenSeq(ss) = f[Len(ss)]
  BY ONLY Len(ss) # 0, Zenon DEF FlattenSeq, FlattenPart
<1> HIDE DEF f
<1>3. \A i \in 1 .. Len(ss) : f[i] = IF i = 1 THEN ss[i] ELSE f[i - 1] \o ss[i]
  BY ONLY <1>1 DEF FlattenPart
<1>4. 1 \in 1 .. Len(ss)
  BY ONLY Len(ss) \in Nat, Len(ss) # 0
<1>5. f[1] = ss[1]
  BY ONLY <1>3, <1>4
<1>6. QED
  BY ONLY <1>2, <1>3, <1>5

(* The chunk c holds the fields f, wherever it stands.                     *)
Yields(message, c, f) ==
  /\ c \in Seq(Bytes) /\ Len(c) > 0
  /\ \A b \in Seq(Bytes) : \A p \in Nat :
       p > 0 /\ At(b, p, c) => Tagged(message, b, p) = Found(f, p + Len(c))

Reads(message, c, f) ==
  \A b \in Seq(Bytes) : \A p \in Nat :
    p > 0 /\ At(b, p, c) => Rest(message, b)[p] = f \o Rest(message, b)[p + Len(c)]

LEMMA YieldsReads ==
  ASSUME NEW message, NEW c, NEW f, Yields(message, c, f)
  PROVE  Reads(message, c, f)
<1> SUFFICES ASSUME NEW b \in Seq(Bytes), NEW p \in Nat, p > 0, At(b, p, c)
             PROVE  Rest(message, b)[p] = f \o Rest(message, b)[p + Len(c)]
  BY DEF Reads
<1>1. Len(c) \in Nat /\ Len(b) \in Nat
  BY LenProperties DEF Yields
<1>2. Len(c) > 0 /\ p + Len(c) <= Len(b) + 1
  BY DEF Yields, At
<1>3. p <= Len(b) + 1 /\ ~ (p > Len(b)) /\ p + Len(c) # 0
  BY ONLY <1>1, <1>2, p \in Nat
<1>4. Tagged(message, b, p) = Found(f, p + Len(c))
  BY DEF Yields
<1>5. Rest(message, b)[p] = RestBody(message, b, Rest(message, b), p)
  BY ONLY <1>3, b \in Seq(Bytes), p \in Nat, p > 0, RestDef
<1>6. QED
  BY ONLY <1>3, <1>4, <1>5 DEF RestBody, Found

LEMMA ReadsNothing ==
  ASSUME NEW message
  PROVE  Reads(message, <<>>, <<>>)
<1> SUFFICES ASSUME NEW b \in Seq(Bytes), NEW p \in Nat, p > 0, At(b, p, <<>>)
             PROVE  Rest(message, b)[p] = <<>> \o Rest(message, b)[p + Len(<<>>)]
  BY DEF Reads
<1>1. p + Len(<<>>) <= Len(b) + 1 /\ Len(<<>>) = 0
  BY EmptySeq DEF At
<1>2. p + Len(<<>>) = p /\ p <= Len(b) + 1
  BY ONLY <1>1, p \in Nat
<1>3. Rest(message, b)[p] \in Seq(Entries(message, b))
  BY ONLY <1>2, b \in Seq(Bytes), p \in Nat, p > 0, RestType
<1>4. QED
  BY ONLY <1>2, <1>3, ConcatEmptySeq

LEMMA Regroup ==
  ASSUME NEW S, NEW f, NEW g, NEW h, f \in Seq(S), g \in Seq(S), h \in Seq(S)
  PROVE  (f \o g) \o h = f \o (g \o h)
BY ConcatAssociative

LEMMA ReadsBoth ==
  ASSUME NEW message, NEW K, NEW c \in Seq(Bytes), NEW d \in Seq(Bytes),
         NEW f \in Seq(K), NEW g \in Seq(K), Reads(message, c, f), Reads(message, d, g)
  PROVE  Reads(message, c \o d, f \o g)
<1> SUFFICES ASSUME NEW b, b \in Seq(Bytes), NEW p \in Nat, p > 0, At(b, p, c \o d)
             PROVE  Rest(message, b)[p] = (f \o g) \o Rest(message, b)[p + Len(c \o d)]
  BY DEF Reads
<1> DEFINE R == Rest(message, b)
<1>1. Len(c) \in Nat /\ Len(d) \in Nat /\ Len(c \o d) = Len(c) + Len(d)
  BY LenProperties, ConcatProperties
<1>2. At(b, p, c) /\ At(b, p + Len(c), d)
  BY AtConcat
<1>3. R[p] = f \o R[p + Len(c)]
  BY ONLY <1>2, b \in Seq(Bytes), p \in Nat, p > 0, Reads(message, c, f) DEF Reads
<1>4. p + Len(c) \in Nat /\ p + Len(c) > 0 /\ p + Len(c \o d) = (p + Len(c)) + Len(d)
  BY ONLY <1>1, p \in Nat, p > 0
<1>5. R[p + Len(c)] = g \o R[(p + Len(c)) + Len(d)]
  BY ONLY <1>2, <1>4, b \in Seq(Bytes), Reads(message, d, g) DEF Reads
<1> DEFINE q == p + Len(c \o d)
           S == K \cup Entries(message, b)
<1>6. R[q] \in Seq(Entries(message, b))
  <2>1. q <= Len(b) + 1
    BY DEF At
  <2>2. q \in Nat /\ q > 0
    BY ONLY <1>1, p \in Nat, p > 0
  <2> HIDE DEF q
  <2>3. QED
    BY ONLY <2>1, <2>2, b \in Seq(Bytes), RestType, SMTT(40)
<1> DEFINE h == R[q]
<1> HIDE DEF R, q
<1>7. f \in Seq(S) /\ g \in Seq(S) /\ h \in Seq(S)
  BY ONLY <1>6, f \in Seq(K), g \in Seq(K), SeqMonotonic
<1> HIDE DEF S, h
<1>8. (f \o g) \o h = f \o (g \o h)
  BY ONLY <1>7, Regroup, SMTT(40)
<1>9. R[p] = (f \o g) \o R[q]
  BY ONLY <1>3, <1>4, <1>5, <1>8 DEF q, h
<1>10. QED
  BY ONLY <1>9 DEF R, q

LEMMA ParseReads ==
  ASSUME NEW message, NEW b, b \in Seq(Bytes), NEW K, NEW f \in Seq(K), Reads(message, b, f)
  PROVE  Parse(message, b) = f
<1> DEFINE R == Rest(message, b)
<1>1. Len(b) \in Nat
  BY LenProperties
<1>2. At(b, 1, b) /\ 1 \in Nat /\ 1 > 0
  BY AtWhole
<1>3. R[1] = f \o R[1 + Len(b)]
  BY ONLY <1>2, b \in Seq(Bytes), Reads(message, b, f) DEF Reads
<1> DEFINE q == 1 + Len(b)
<1>4. q \in Nat /\ q > 0 /\ q <= Len(b) + 1 /\ q > Len(b)
  BY ONLY <1>1
<1> HIDE DEF q
<1>5. R[q] = RestBody(message, b, R, q)
  BY ONLY <1>4, b \in Seq(Bytes), RestDef
<1>6. R[q] = <<>>
  BY ONLY <1>4, <1>5 DEF RestBody
<1>7. QED
  BY <1>3, <1>6, ConcatEmptySeq DEF Parse, q
-----------------------------------------------------------------------------
(* The fields, one by one.                                                 *)

Messages == {"root", "header", "metrics", "status"}

HasField(message, n, name, kind) ==
  n \in 1 .. 6 /\ n \in DOMAIN Schema[message] /\ Schema[message][n] = F(name, kind)

Entry(name, value) == [name |-> name, value |-> value]

LEMMA SchemaFields ==
  /\ HasField("root", 1, "header", "message")
  /\ HasField("root", 2, "metrics", "message")
  /\ HasField("root", 3, "status", "message")
  /\ HasField("header", 1, "device_id", "string")
  /\ HasField("header", 2, "timestamp", "int64")
  /\ HasField("header", 3, "seq_no", "uint32")
  /\ HasField("header", 4, "firmware_version", "string")
  /\ HasField("header", 5, "boot_count", "uint32")
  /\ HasField("metrics", 1, "temperature", "float")
  /\ HasField("metrics", 2, "humidity", "float")
  /\ HasField("metrics", 3, "battery_voltage", "float")
  /\ HasField("metrics", 4, "battery_level_pct", "uint32")
  /\ HasField("metrics", 5, "rssi", "int32")
  /\ HasField("metrics", 6, "interval_sec", "uint32")
  /\ HasField("status", 1, "state", "enum")
  /\ HasField("status", 2, "uptime_sec", "uint32")
  /\ HasField("status", 3, "free_heap_bytes", "uint32")
BY DEF HasField, Schema, F

LEMMA SchemaDomains ==
  /\ DOMAIN Schema["root"] = 1 .. 3 /\ DOMAIN Schema["header"] = 1 .. 5
  /\ DOMAIN Schema["metrics"] = 1 .. 6 /\ DOMAIN Schema["status"] = 1 .. 3
BY DEF Schema

LEMMA KnownTag ==
  ASSUME NEW message, NEW n, NEW name, NEW kind, HasField(message, n, name, kind),
         NEW wire \in 0 .. 7, NEW b, b \in Seq(Bytes), NEW p \in Nat, p > 0,
         At(b, p, Tag(n, wire))
  PROVE  Tagged(message, b, p) = FieldRead(name, ReadField(kind, b, p + Len(Tag(n, wire))))
<1> DEFINE tag == ReadUvarint(b, p)
<1>1. n \in FieldNumbers /\ n < 2048
  BY SMT DEF HasField, FieldNumbers
<1>2. IsTag(tag, n, wire, p + Len(Tag(n, wire)))
  BY ONLY <1>1, wire \in 0 .. 7, b \in Seq(Bytes), p \in Nat, p > 0, At(b, p, Tag(n, wire)),
          TagIsRead, SMTT(40)
<1>3. Size(tag.value) \div 8 = n
  BY <1>1, <1>2, SMT DEF IsTag
<1>4. Tagged(message, b, p) = ReadTagged(message, b, tag)
  BY DEF Tagged
<1> HIDE DEF tag
<1>5. QED
  BY ONLY <1>2, <1>3, <1>4, HasField(message, n, name, kind)
     DEF ReadTagged, HasField, F, IsTag

LEMMA UnknownTag ==
  ASSUME NEW message \in Messages, NEW n \in FieldNumbers, n > 6,
         NEW wire \in 0 .. 7, NEW b, b \in Seq(Bytes), NEW p \in Nat, p > 0,
         At(b, p, Tag(n, wire))
  PROVE  Tagged(message, b, p) = FieldSkipped(SkipField(wire, b, p + Len(Tag(n, wire))))
<1> DEFINE tag == ReadUvarint(b, p)
<1>1. IsTag(tag, n, wire, p + Len(Tag(n, wire)))
  BY ONLY n \in FieldNumbers, wire \in 0 .. 7, b \in Seq(Bytes), p \in Nat, p > 0,
          At(b, p, Tag(n, wire)), TagIsRead, SMTT(40)
<1>2. Size(tag.value) \div 8 > 6 /\ Size(tag.value) \div 8 \in Nat
  BY <1>1, SMT DEF FieldNumbers, IsTag
<1>3. Tagged(message, b, p) = ReadTagged(message, b, tag)
  BY DEF Tagged
<1> HIDE DEF tag
<1>4. Size(tag.value) \div 8 \notin DOMAIN Schema[message]
  BY ONLY <1>2, message \in Messages, SchemaDomains DEF Messages
<1>5. QED
  BY ONLY <1>1, <1>3, <1>4 DEF ReadTagged, IsTag

(* A field is its tag and what stands behind it.                           *)
LEMMA TagAndContent ==
  ASSUME NEW n \in FieldNumbers, NEW wire \in 0 .. 7, NEW s, s \in Seq(Bytes)
  PROVE  /\ Tag(n, wire) \o s \in Seq(Bytes)
         /\ Len(Tag(n, wire)) \in Nat /\ Len(Tag(n, wire)) > 0 /\ Len(s) \in Nat
         /\ Len(Tag(n, wire) \o s) = Len(Tag(n, wire)) + Len(s)
         /\ \A b, p : b \in Seq(Bytes) /\ p \in Nat /\ p > 0 /\ At(b, p, Tag(n, wire) \o s) =>
              At(b, p, Tag(n, wire)) /\ At(b, p + Len(Tag(n, wire)), s)
<1> DEFINE t == Tag(n, wire)
<1>1. t \in Seq(Bytes) /\ Len(t) \in Nat /\ Len(t) > 0
  BY ONLY n \in FieldNumbers, wire \in 0 .. 7, TagType
<1> HIDE DEF t
<1>2. Len(s) \in Nat /\ Len(t \o s) = Len(t) + Len(s) /\ t \o s \in Seq(Bytes)
  BY ONLY <1>1, s \in Seq(Bytes), LenProperties, ConcatProperties
<1>3. ASSUME NEW b, NEW p, b \in Seq(Bytes), p \in Nat, p > 0, At(b, p, t \o s)
      PROVE  At(b, p, t) /\ At(b, p + Len(t), s)
  BY ONLY <1>1, <1>3, s \in Seq(Bytes), AtConcat
<1>4. QED
  BY ONLY <1>1, <1>2, <1>3 DEF t

(* A field of the schema.                                                  *)
LEMMA KnownField ==
  ASSUME NEW message, NEW n, NEW name, NEW kind, HasField(message, n, name, kind),
         NEW wire \in 0 .. 7, NEW s, s \in Seq(Bytes), NEW value,
         \A b, p : b \in Seq(Bytes) /\ p \in Nat /\ p > 0 /\ At(b, p, s) =>
           ReadField(kind, b, p) = Got(value, p + Len(s))
  PROVE  Yields(message, Tag(n, wire) \o s, <<Entry(name, value)>>)
<1> DEFINE t == Tag(n, wire)
<1>0. n \in FieldNumbers
  BY SMT DEF HasField, FieldNumbers
<1>1. /\ t \o s \in Seq(Bytes)
      /\ Len(t) \in Nat /\ Len(t) > 0 /\ Len(s) \in Nat /\ Len(t \o s) = Len(t) + Len(s)
      /\ \A b, p : b \in Seq(Bytes) /\ p \in Nat /\ p > 0 /\ At(b, p, t \o s) =>
           At(b, p, t) /\ At(b, p + Len(t), s)
  BY ONLY <1>0, wire \in 0 .. 7, s \in Seq(Bytes), TagAndContent
<1>2. ASSUME NEW b, b \in Seq(Bytes), NEW p \in Nat, p > 0, At(b, p, t \o s)
      PROVE  Tagged(message, b, p) = Found(<<Entry(name, value)>>, p + Len(t \o s))
  <2>1. At(b, p, t) /\ At(b, p + Len(t), s)
    BY ONLY <1>1, <1>2
  <2>2. Tagged(message, b, p) = FieldRead(name, ReadField(kind, b, p + Len(t)))
    BY ONLY <1>2, <2>1, HasField(message, n, name, kind), wire \in 0 .. 7, KnownTag, SMTT(40)
  <2> HIDE DEF t
  <2>3. /\ p + Len(t) \in Nat /\ p + Len(t) > 0
        /\ (p + Len(t)) + Len(s) = p + Len(t \o s)
    BY ONLY <1>1, p \in Nat, p > 0
  <2>4. ReadField(kind, b, p + Len(t)) = Got(value, (p + Len(t)) + Len(s))
    BY <1>2, <2>1, <2>3
  <2>5. QED
    BY ONLY <2>2, <2>3, <2>4 DEF FieldRead, Got, Entry
<1>3. Len(t \o s) > 0
  BY ONLY <1>1
<1> HIDE DEF t
<1>4. Yields(message, t \o s, <<Entry(name, value)>>)
  BY ONLY <1>1, <1>2, <1>3 DEF Yields
<1>5. QED
  BY ONLY <1>4 DEF t

LEMMA UnknownField ==
  ASSUME NEW message \in Messages, NEW n \in FieldNumbers, n > 6,
         NEW wire \in 0 .. 7, NEW s, s \in Seq(Bytes),
         \A b, p : b \in Seq(Bytes) /\ p \in Nat /\ p > 0 /\ At(b, p, s) =>
           SkipField(wire, b, p).ok /\ SkipField(wire, b, p).next = p + Len(s)
  PROVE  Yields(message, Tag(n, wire) \o s, <<>>)
<1> DEFINE t == Tag(n, wire)
<1>1. /\ t \o s \in Seq(Bytes)
      /\ Len(t) \in Nat /\ Len(t) > 0 /\ Len(s) \in Nat /\ Len(t \o s) = Len(t) + Len(s)
      /\ \A b, p : b \in Seq(Bytes) /\ p \in Nat /\ p > 0 /\ At(b, p, t \o s) =>
           At(b, p, t) /\ At(b, p + Len(t), s)
  BY ONLY n \in FieldNumbers, wire \in 0 .. 7, s \in Seq(Bytes), TagAndContent
<1>2. ASSUME NEW b, b \in Seq(Bytes), NEW p \in Nat, p > 0, At(b, p, t \o s)
      PROVE  Tagged(message, b, p) = Found(<<>>, p + Len(t \o s))
  <2>1. At(b, p, t) /\ At(b, p + Len(t), s)
    BY ONLY <1>1, <1>2
  <2>2. Tagged(message, b, p) = FieldSkipped(SkipField(wire, b, p + Len(t)))
    BY ONLY <1>2, <2>1, message \in Messages, n \in FieldNumbers, n > 6, wire \in 0 .. 7,
            UnknownTag
  <2> HIDE DEF t
  <2>3. /\ p + Len(t) \in Nat /\ p + Len(t) > 0
        /\ (p + Len(t)) + Len(s) = p + Len(t \o s)
    BY ONLY <1>1, p \in Nat, p > 0
  <2>4. /\ SkipField(wire, b, p + Len(t)).ok
        /\ SkipField(wire, b, p + Len(t)).next = (p + Len(t)) + Len(s)
    BY <1>2, <2>1, <2>3
  <2>5. QED
    BY ONLY <2>2, <2>3, <2>4 DEF FieldSkipped
<1>3. Len(t \o s) > 0
  BY ONLY <1>1
<1> HIDE DEF t
<1>4. Yields(message, t \o s, <<>>)
  BY ONLY <1>1, <1>2, <1>3 DEF Yields
<1>5. QED
  BY ONLY <1>4 DEF t
VarintKinds == {"int64", "uint32", "int32", "enum"}

LEMMA VarintFieldIsRead ==
  ASSUME NEW message, NEW n, NEW name, NEW kind, HasField(message, n, name, kind),
         kind \in VarintKinds, NEW w, w \in Words
  PROVE  Yields(message, VarintField(n, w), <<Entry(name, Convert(kind, w))>>)
<1>1. EncodeVarint(w) \in Seq(Bytes)
  BY VarintType
<1>2. ASSUME NEW b, NEW p, b \in Seq(Bytes), p \in Nat, p > 0, At(b, p, EncodeVarint(w))
      PROVE  ReadField(kind, b, p) = Got(Convert(kind, w), p + Len(EncodeVarint(w)))
  <2>1. ReadUvarint(b, p) = Got(w, p + Len(EncodeVarint(w)))
    BY ONLY <1>2, w \in Words, VarintIsRead
  <2>2. kind \notin {"string", "message"} /\ kind # "float"
    BY DEF VarintKinds
  <2>3. QED
    BY ONLY <2>1, <2>2 DEF ReadField, Got
<1>3. 0 \in 0 .. 7
  OBVIOUS
<1>4. QED
  BY ONLY <1>1, <1>2, <1>3, HasField(message, n, name, kind), KnownField DEF VarintField

LEMMA FloatFieldIsRead ==
  ASSUME NEW message, NEW n, NEW name, HasField(message, n, name, "float"),
         NEW s, s \in Floats
  PROVE  Yields(message, FloatField(n, s), <<Entry(name, s)>>)
<1>1. s \in Seq(Bytes) /\ Len(s) = 4
  BY DEF Floats
<1>2. ASSUME NEW b, NEW p, b \in Seq(Bytes), p \in Nat, p > 0, At(b, p, s)
      PROVE  ReadField("float", b, p) = Got(s, p + Len(s))
  <2>1. ReadBytes(b, p, Len(s)) = Got(s, p + Len(s))
    BY ONLY <1>1, <1>2, BytesAreRead
  <2>2. QED
    BY ONLY <1>1, <2>1 DEF ReadField
<1>3. 5 \in 0 .. 7
  OBVIOUS
<1>4. QED
  BY ONLY <1>1, <1>2, <1>3, HasField(message, n, name, "float"), KnownField DEF FloatField

(* The two parts of a string field behind its tag.                         *)
Counted(s) == EncodeVarint(Word(Len(s))) \o s

LEMMA CountedType ==
  ASSUME NEW s, s \in Seq(Bytes), Len(s) < MaxSize
  PROVE  /\ Counted(s) \in Seq(Bytes)
         /\ \A b, p : b \in Seq(Bytes) /\ p \in Nat /\ p > 0 /\ At(b, p, Counted(s)) =>
              ReadString(b, p) = Got(s, p + Len(Counted(s)))
<1>1. Len(s) \in Nat
  BY LenProperties
<1>2. Word(Len(s)) \in Words
  BY ONLY <1>1, Len(s) < MaxSize, LengthIsNat35
<1>3. EncodeVarint(Word(Len(s))) \in Seq(Bytes)
  BY ONLY <1>2, VarintType
<1>4. Counted(s) \in Seq(Bytes)
  BY ONLY <1>3, s \in Seq(Bytes), ConcatProperties DEF Counted
<1>5. ASSUME NEW b, NEW p, b \in Seq(Bytes), p \in Nat, p > 0, At(b, p, Counted(s))
      PROVE  ReadString(b, p) = Got(s, p + Len(Counted(s)))
  BY ONLY <1>5, s \in Seq(Bytes), Len(s) < MaxSize, StringIsRead DEF Counted
<1>6. QED
  BY ONLY <1>4, <1>5

LEMMA StringFieldForm ==
  ASSUME NEW n, n \in FieldNumbers, NEW s, s \in Seq(Bytes), Len(s) < MaxSize
  PROVE  StringField(n, s) = Tag(n, 2) \o Counted(s)
<1>1. Len(s) \in Nat
  BY LenProperties
<1>2. Word(Len(s)) \in Words
  BY ONLY <1>1, Len(s) < MaxSize, LengthIsNat35
<1>3. EncodeVarint(Word(Len(s))) \in Seq(Bytes)
  BY ONLY <1>2, VarintType
<1>4. 2 \in 0 .. 7
  OBVIOUS
<1>5. Tag(n, 2) \in Seq(Bytes)
  BY ONLY <1>4, n \in FieldNumbers, TagType
<1>6. QED
  BY ONLY <1>3, <1>5, s \in Seq(Bytes), Regroup DEF StringField, Counted

LEMMA StringFieldIsRead ==
  ASSUME NEW message, NEW n, NEW name, NEW kind, HasField(message, n, name, kind),
         kind \in {"string", "message"}, NEW s, s \in Seq(Bytes), Len(s) < MaxSize
  PROVE  Yields(message, StringField(n, s), <<Entry(name, s)>>)
<1>1. /\ Counted(s) \in Seq(Bytes)
      /\ \A b, p : b \in Seq(Bytes) /\ p \in Nat /\ p > 0 /\ At(b, p, Counted(s)) =>
           ReadString(b, p) = Got(s, p + Len(Counted(s)))
  BY ONLY s \in Seq(Bytes), Len(s) < MaxSize, CountedType
<1>2. \A b, p : ReadField(kind, b, p) = ReadString(b, p)
  BY ONLY kind \in {"string", "message"} DEF ReadField
<1>3. n \in FieldNumbers /\ 2 \in 0 .. 7
  BY SMT DEF HasField, FieldNumbers
<1>4. Yields(message, Tag(n, 2) \o Counted(s), <<Entry(name, s)>>)
  BY ONLY <1>1, <1>2, <1>3, HasField(message, n, name, kind), KnownField
<1>5. QED
  BY ONLY <1>3, <1>4, s \in Seq(Bytes), Len(s) < MaxSize, StringFieldForm

(* Fields that the decoder does not know.                                  *)
LEMMA UnknownVarint ==
  ASSUME NEW message \in Messages, NEW n \in FieldNumbers, n > 6, NEW w, w \in Words
  PROVE  Yields(message, VarintField(n, w), <<>>)
<1>1. EncodeVarint(w) \in Seq(Bytes)
  BY VarintType
<1>2. ASSUME NEW b, NEW p, b \in Seq(Bytes), p \in Nat, p > 0, At(b, p, EncodeVarint(w))
      PROVE  /\ SkipField(0, b, p).ok
             /\ SkipField(0, b, p).next = p + Len(EncodeVarint(w))
  <2>1. ReadUvarint(b, p) = Got(w, p + Len(EncodeVarint(w)))
    BY ONLY <1>2, w \in Words, VarintIsRead
  <2>2. QED
    BY ONLY <2>1 DEF SkipField, Got
<1>3. 0 \in 0 .. 7
  OBVIOUS
<1>4. QED
  BY ONLY <1>1, <1>2, <1>3, message \in Messages, n \in FieldNumbers, n > 6, UnknownField
     DEF VarintField

LEMMA UnknownBytes ==
  ASSUME NEW message \in Messages, NEW n \in FieldNumbers, n > 6,
         NEW wire, NEW s, s \in Seq(Bytes), (wire = 1 /\ Len(s) = 8) \/ (wire = 5 /\ Len(s) = 4)
  PROVE  Yields(message, Tag(n, wire) \o s, <<>>)
<1>1. ASSUME NEW b, NEW p, b \in Seq(Bytes), p \in Nat, p > 0, At(b, p, s)
      PROVE  SkipField(wire, b, p).ok /\ SkipField(wire, b, p).next = p + Len(s)
  <2>1. ReadBytes(b, p, Len(s)) = Got(s, p + Len(s))
    BY ONLY <1>1, s \in Seq(Bytes), BytesAreRead
  <2>2. SkipField(1, b, p) = ReadBytes(b, p, 8) /\ SkipField(5, b, p) = ReadBytes(b, p, 4)
    BY ONLY DEF SkipField
  <2>3. SkipField(wire, b, p) = ReadBytes(b, p, Len(s))
    BY ONLY <2>2, (wire = 1 /\ Len(s) = 8) \/ (wire = 5 /\ Len(s) = 4)
  <2>4. QED
    BY ONLY <2>1, <2>3 DEF Got
<1>2. wire \in 0 .. 7
  OBVIOUS
<1>3. QED
  BY ONLY <1>1, <1>2, message \in Messages, n \in FieldNumbers, n > 6, s \in Seq(Bytes),
          UnknownField

LEMMA UnknownString ==
  ASSUME NEW message \in Messages, NEW n \in FieldNumbers, n > 6,
         NEW s, s \in Seq(Bytes), Len(s) < MaxSize
  PROVE  Yields(message, StringField(n, s), <<>>)
<1>1. /\ Counted(s) \in Seq(Bytes)
      /\ \A b, p : b \in Seq(Bytes) /\ p \in Nat /\ p > 0 /\ At(b, p, Counted(s)) =>
           ReadString(b, p) = Got(s, p + Len(Counted(s)))
  BY ONLY s \in Seq(Bytes), Len(s) < MaxSize, CountedType
<1>2. ASSUME NEW b, NEW p, b \in Seq(Bytes), p \in Nat, p > 0, At(b, p, Counted(s))
      PROVE  SkipField(2, b, p).ok /\ SkipField(2, b, p).next = p + Len(Counted(s))
  <2> DEFINE w == Word(Len(s))
             v == EncodeVarint(w)
             length == ReadUvarint(b, p)
  <2>1. Len(s) \in Nat /\ Len(b) \in Nat
    BY <1>2, LenProperties
  <2>2. w \in Words /\ Size(w) = Len(s)
    BY ONLY <2>1, Len(s) < MaxSize, LengthIsNat35
  <2>3. v \in Seq(Bytes) /\ Len(v) \in Nat
    BY ONLY <2>2, VarintType
  <2>4. At(b, p, v) /\ At(b, p + Len(v), s) /\ Len(Counted(s)) = Len(v) + Len(s)
    <3> HIDE DEF v
    <3>1. At(b, p, v \o s)
      BY ONLY <1>2 DEF Counted, v
    <3>2. Len(v \o s) = Len(v) + Len(s)
      BY ONLY <2>3, s \in Seq(Bytes), ConcatProperties
    <3>3. At(b, p, v) /\ At(b, p + Len(v), s)
      BY ONLY <1>2, <2>3, <3>1, s \in Seq(Bytes), AtConcat
    <3>4. QED
      BY ONLY <3>2, <3>3 DEF Counted, v
  <2>5. length = Got(w, p + Len(v))
    BY ONLY <1>2, <2>2, <2>4, VarintIsRead
  <2>6. (p + Len(v)) + Len(s) <= Len(b) + 1
    BY ONLY <2>4 DEF At
  <2> DEFINE q == (p + Len(v)) + Len(s)
  <2>7. q \in Int /\ q = p + Len(Counted(s)) /\ Len(b) + 1 \in Int /\ q <= Len(b) + 1
    BY ONLY <1>2, <2>1, <2>3, <2>4, <2>6
  <2>8. SkipField(2, b, p) = Got(<<>>, Min({Len(b) + 1, q}))
    <3>1. length.ok /\ length.next = p + Len(v) /\ Size(length.value) = Len(s)
      BY ONLY <2>2, <2>5 DEF Got
    <3> HIDE DEF length, v
    <3>2. SkipField(2, b, p) = Got(<<>>, Min({Len(b) + 1, length.next + Size(length.value)}))
      BY ONLY <3>1, SkipOfString DEF length
    <3>3. QED
      BY ONLY <3>1, <3>2
  <2> HIDE DEF q
  <2>9. Min({Len(b) + 1, q}) = q
    <3>1. {Len(b) + 1, q} \in SUBSET Int /\ q \in {Len(b) + 1, q}
      BY ONLY <2>7
    <3>2. \A k \in {Len(b) + 1, q} : q <= k
      BY ONLY <2>7
    <3>3. QED
      BY ONLY <3>1, <3>2, MinIs
  <2>10. QED
    BY ONLY <2>7, <2>8, <2>9 DEF Got
<1>3. 2 \in 0 .. 7
  OBVIOUS
<1>4. Yields(message, Tag(n, 2) \o Counted(s), <<>>)
  BY ONLY <1>1, <1>2, <1>3, message \in Messages, n \in FieldNumbers, n > 6, UnknownField
<1>5. QED
  BY ONLY <1>4, n \in FieldNumbers, s \in Seq(Bytes), Len(s) < MaxSize, StringFieldForm
-----------------------------------------------------------------------------
(* A record of values, told field by field: the names of A and no others.  *)

Told(v, A) == {Entry(n, v[n]) : n \in A}

Tells(f, v, A) == f \in Seq(Told(v, A)) /\ Range(f) = Told(v, A)

LEMMA ToldJoin ==
  ASSUME NEW v, NEW A, NEW B
  PROVE  Told(v, A \cup B) = Told(v, A) \cup Told(v, B)
BY DEF Told

LEMMA TellsNothing ==
  ASSUME NEW v
  PROVE  Tells(<<>>, v, {})
<1>1. Told(v, {}) = {}
  BY DEF Told
<1>2. <<>> \in Seq({}) /\ Range(<<>>) = {}
  BY DEF Range
<1>3. QED
  BY ONLY <1>1, <1>2 DEF Tells

LEMMA TellsOne ==
  ASSUME NEW v, NEW n
  PROVE  Tells(<<Entry(n, v[n])>>, v, {n})
<1> DEFINE e == Entry(n, v[n])
<1>1. Told(v, {n}) = {e}
  BY DEF Told
<1> HIDE DEF e
<1>2. <<e>> \in Seq({e})
  OBVIOUS
<1>3. Range(<<e>>) = {e}
  BY DEF Range
<1>4. QED
  BY ONLY <1>1, <1>2, <1>3 DEF Tells, e

LEMMA TellsBoth ==
  ASSUME NEW f, NEW g, NEW v, NEW A, NEW B, Tells(f, v, A), Tells(g, v, B)
  PROVE  Tells(f \o g, v, A \cup B)
<1> DEFINE S == Told(v, A)
           T == Told(v, B)
           U == S \cup T
<1>1. f \in Seq(S) /\ g \in Seq(T) /\ Range(f) = S /\ Range(g) = T
  BY DEF Tells
<1>2. Told(v, A \cup B) = U
  BY ToldJoin
<1> HIDE DEF S, T
<1>3. f \in Seq(U) /\ g \in Seq(U)
  BY ONLY <1>1, SeqMonotonic
<1> HIDE DEF U
<1>4. f \o g \in Seq(U) /\ Range(f \o g) = Range(f) \cup Range(g)
  BY ONLY <1>3, ConcatProperties, RangeConcatenation
<1>5. Range(f \o g) = U
  BY ONLY <1>1, <1>4 DEF U
<1>6. QED
  BY ONLY <1>2, <1>4, <1>5 DEF Tells

(* The chunk c is read as fields that tell the names of A.                 *)
Carries(message, c, v, A) ==
  c \in Seq(Bytes) /\ \E f : Reads(message, c, f) /\ Tells(f, v, A)

LEMMA CarriesNothing ==
  ASSUME NEW message, NEW v
  PROVE  Carries(message, <<>>, v, {})
<1>1. <<>> \in Seq(Bytes)
  OBVIOUS
<1>2. QED
  BY <1>1, ReadsNothing, TellsNothing DEF Carries

LEMMA YieldsOne ==
  ASSUME NEW message, NEW c, NEW v, NEW n, Yields(message, c, <<Entry(n, v[n])>>)
  PROVE  Carries(message, c, v, {n})
<1>1. c \in Seq(Bytes)
  BY DEF Yields
<1>2. Reads(message, c, <<Entry(n, v[n])>>)
  BY YieldsReads
<1>3. QED
  BY <1>1, <1>2, TellsOne DEF Carries

LEMMA YieldsNone ==
  ASSUME NEW message, NEW c, NEW v, Yields(message, c, <<>>)
  PROVE  Carries(message, c, v, {})
<1>1. c \in Seq(Bytes)
  BY DEF Yields
<1>2. Reads(message, c, <<>>)
  BY YieldsReads
<1>3. QED
  BY <1>1, <1>2, TellsNothing DEF Carries

LEMMA CarriesBoth ==
  ASSUME NEW message, NEW c, NEW d, NEW v, NEW A, NEW B,
         Carries(message, c, v, A), Carries(message, d, v, B)
  PROVE  Carries(message, c \o d, v, A \cup B)
<1> DEFINE K == Told(v, A \cup B)
<1>1. PICK f : Reads(message, c, f) /\ Tells(f, v, A)
  BY DEF Carries
<1>2. PICK g : Reads(message, d, g) /\ Tells(g, v, B)
  BY DEF Carries
<1>3. c \in Seq(Bytes) /\ d \in Seq(Bytes)
  BY DEF Carries
<1>4. f \in Seq(K) /\ g \in Seq(K)
  BY ONLY <1>1, <1>2, ToldJoin, SeqMonotonic DEF Tells
<1> HIDE DEF K
<1>5. Reads(message, c \o d, f \o g)
  BY ONLY <1>1, <1>2, <1>3, <1>4, ReadsBoth
<1>6. Tells(f \o g, v, A \cup B)
  BY ONLY <1>1, <1>2, TellsBoth
<1>7. c \o d \in Seq(Bytes)
  BY ONLY <1>3, ConcatProperties
<1>8. QED
  BY ONLY <1>5, <1>6, <1>7 DEF Carries

(* What concatenation keeps of sequences and their sets, FlattenSeq keeps. *)
Joinable(Q) ==
  /\ <<<<>>, {}>> \in Q
  /\ \A c, d, A, B : <<c, A>> \in Q /\ <<d, B>> \in Q => <<c \o d, A \cup B>> \in Q

Upto(A, k) == UNION {A[i] : i \in 1 .. k}

LEMMA UptoNext ==
  ASSUME NEW A, NEW k \in Nat
  PROVE  Upto(A, 1) = A[1] /\ Upto(A, k + 1) = Upto(A, k) \cup A[k + 1]
<1>1. 1 .. 1 = {1} /\ 1 .. k + 1 = (1 .. k) \cup {k + 1}
  OBVIOUS
<1>2. QED
  BY <1>1 DEF Upto

LEMMA FlattenJoin ==
  ASSUME NEW ss, NEW S, ss \in Seq(S), NEW A, NEW Q, Joinable(Q),
         \A i \in 1 .. Len(ss) : <<ss[i], A[i]>> \in Q
  PROVE  <<FlattenSeq(ss), Upto(A, Len(ss))>> \in Q
<1> DEFINE n == Len(ss)
<1>1. n \in Nat
  BY LenProperties
<1>2. CASE n = 0
  <2>1. ss = <<>>
    BY <1>2, EmptySeq
  <2>2. FlattenSeq(ss) = ss
    BY <1>2, Zenon DEF FlattenSeq
  <2>3. Upto(A, 0) = {}
    BY DEF Upto
  <2>4. QED
    BY <1>2, <2>1, <2>2, <2>3 DEF Joinable
<1>3. CASE n # 0
  <2>1. PICK f : /\ FlattenSeq(ss) = f[n]
                 /\ f[1] = ss[1]
                 /\ \A i \in 1 .. n : i # 1 => f[i] = f[i - 1] \o ss[i]
    BY <1>1, <1>3, FlattenDef
  <2> HIDE DEF n
  <2> DEFINE T == {k \in Nat : k + 1 <= n => <<f[k + 1], Upto(A, k + 1)>> \in Q}
  <2>2. 0 \in T
    <3>1. <<f[1], Upto(A, 1)>> \in Q
      <4>1. 1 \in 1 .. n
        BY ONLY <1>1, <1>3
      <4>2. <<ss[1], A[1]>> \in Q
        BY <4>1 DEF n
      <4>3. Upto(A, 1) = A[1]
        BY UptoNext, 0 \in Nat
      <4>4. QED
        BY ONLY <2>1, <4>2, <4>3
    <3>2. QED
      BY <3>1
  <2>3. ASSUME NEW k \in T PROVE k + 1 \in T
    <3>1. k \in Nat /\ (k + 1 <= n => <<f[k + 1], Upto(A, k + 1)>> \in Q)
      OBVIOUS
    <3> DEFINE j == k + 1
    <3>2. ASSUME j + 1 <= n PROVE <<f[j + 1], Upto(A, j + 1)>> \in Q
      <4>1. j \in Nat /\ j + 1 \in 1 .. n /\ j + 1 # 1 /\ (j + 1) - 1 = j /\ j <= n
        BY ONLY <1>1, <3>1, <3>2
      <4>2. <<f[j], Upto(A, j)>> \in Q
        BY ONLY <3>1, <4>1
      <4> HIDE DEF j
      <4>3. <<ss[j + 1], A[j + 1]>> \in Q
        BY <4>1 DEF n
      <4>4. f[j + 1] = f[j] \o ss[j + 1]
        BY ONLY <2>1, <4>1
      <4>5. Upto(A, j + 1) = Upto(A, j) \cup A[j + 1]
        BY ONLY <4>1, UptoNext
      <4>6. QED
        BY ONLY <4>2, <4>3, <4>4, <4>5, Joinable(Q) DEF Joinable
    <3>3. QED
      BY ONLY <3>1, <3>2
  <2>4. T \in SUBSET Nat
    OBVIOUS
  <2> HIDE DEF T
  <2>5. n - 1 \in T
    BY ONLY <1>1, <1>3, <2>2, <2>3, <2>4, SetInduction
  <2>6. (n - 1) + 1 = n
    BY ONLY <1>1
  <2>7. QED
    BY ONLY <1>1, <2>1, <2>5, <2>6 DEF T, n
<1>4. QED
  BY <1>2, <1>3

LEMMA FlattenCarries ==
  ASSUME NEW message, NEW v, NEW cs, NEW S, cs \in Seq(S), NEW A,
         \A i \in 1 .. Len(cs) : Carries(message, cs[i], v, A[i])
  PROVE  Carries(message, FlattenSeq(cs), v, Upto(A, Len(cs)))
<1> DEFINE U == Upto(A, Len(cs))
           Q == {x \in Seq(Bytes) \X SUBSET U : Carries(message, x[1], v, x[2])}
<1>1. <<<<>>, {}>> \in Q
  <2>1. <<>> \in Seq(Bytes) /\ {} \in SUBSET U
    OBVIOUS
  <2>2. Carries(message, <<>>, v, {})
    BY ONLY CarriesNothing
  <2> HIDE DEF U
  <2>3. \A x, y : x \in Seq(Bytes) /\ y \in SUBSET U /\ Carries(message, x, v, y) =>
          <<x, y>> \in Q
    OBVIOUS
  <2> HIDE DEF Q
  <2>4. QED
    BY ONLY <2>1, <2>2, <2>3
<1>2. ASSUME NEW c, NEW d, NEW B, NEW C, <<c, B>> \in Q, <<d, C>> \in Q
      PROVE  <<c \o d, B \cup C>> \in Q
  <2>1. Carries(message, c, v, B) /\ Carries(message, d, v, C)
    BY <1>2
  <2>2. Carries(message, c \o d, v, B \cup C)
    BY ONLY <2>1, CarriesBoth
  <2>3. c \o d \in Seq(Bytes)
    BY ONLY <2>2 DEF Carries
  <2>4. B \cup C \in SUBSET U
    BY <1>2
  <2>5. QED
    BY ONLY <2>2, <2>3, <2>4
<1>3. ASSUME NEW i \in 1 .. Len(cs) PROVE <<cs[i], A[i]>> \in Q
  <2>1. Carries(message, cs[i], v, A[i])
    OBVIOUS
  <2>2. cs[i] \in Seq(Bytes) /\ A[i] \in SUBSET U
    BY <2>1 DEF Carries, Upto
  <2>3. QED
    BY <2>1, <2>2
<1>4. \A x : x \in Q => Carries(message, x[1], v, x[2])
  OBVIOUS
<1> HIDE DEF Q
<1>5. Joinable(Q)
  BY ONLY <1>1, <1>2 DEF Joinable
<1>6. <<FlattenSeq(cs), U>> \in Q
  BY ONLY <1>3, <1>5, cs \in Seq(S), FlattenJoin
<1>7. QED
  BY <1>4, <1>6

LEMMA FlattenTells ==
  ASSUME NEW v, NEW fs, NEW S, fs \in Seq(S), NEW A,
         \A i \in 1 .. Len(fs) : Tells(fs[i], v, A[i])
  PROVE  Tells(FlattenSeq(fs), v, Upto(A, Len(fs)))
<1> DEFINE U == Upto(A, Len(fs))
           K == Told(v, U)
           Q == {x \in Seq(K) \X SUBSET U : Tells(x[1], v, x[2])}
<1>0. \A f, B : Tells(f, v, B) /\ B \in SUBSET U => f \in Seq(K)
  <2>1. ASSUME NEW f, NEW B, Tells(f, v, B), B \in SUBSET U PROVE f \in Seq(K)
    <3>1. Told(v, B) \subseteq K
      BY <2>1 DEF Told
    <3>2. f \in Seq(Told(v, B))
      BY <2>1 DEF Tells
    <3> HIDE DEF K
    <3>3. QED
      BY ONLY <3>1, <3>2, SeqMonotonic
  <2>2. QED
    BY <2>1
<1> HIDE DEF K
<1>1. <<<<>>, {}>> \in Q
  <2>1. <<>> \in Seq(K) /\ {} \in SUBSET U
    OBVIOUS
  <2>2. Tells(<<>>, v, {})
    BY ONLY TellsNothing
  <2> HIDE DEF U
  <2>3. \A x, y : x \in Seq(K) /\ y \in SUBSET U /\ Tells(x, v, y) => <<x, y>> \in Q
    OBVIOUS
  <2> HIDE DEF Q
  <2>4. QED
    BY ONLY <2>1, <2>2, <2>3
<1>2. ASSUME NEW c, NEW d, NEW B, NEW C, <<c, B>> \in Q, <<d, C>> \in Q
      PROVE  <<c \o d, B \cup C>> \in Q
  <2>1. Tells(c, v, B) /\ Tells(d, v, C)
    BY <1>2
  <2>2. Tells(c \o d, v, B \cup C)
    BY ONLY <2>1, TellsBoth
  <2>3. B \cup C \in SUBSET U
    BY <1>2
  <2>4. c \o d \in Seq(K)
    BY ONLY <1>0, <2>2, <2>3
  <2>5. QED
    BY ONLY <2>2, <2>3, <2>4
<1>3. ASSUME NEW i \in 1 .. Len(fs) PROVE <<fs[i], A[i]>> \in Q
  <2>1. Tells(fs[i], v, A[i])
    OBVIOUS
  <2>2. A[i] \in SUBSET U
    BY DEF Upto
  <2>3. fs[i] \in Seq(K)
    BY ONLY <1>0, <2>1, <2>2
  <2>4. QED
    BY ONLY <2>1, <2>2, <2>3
<1>4. \A x : x \in Q => Tells(x[1], v, x[2])
  OBVIOUS
<1> HIDE DEF Q
<1>5. Joinable(Q)
  BY ONLY <1>1, <1>2 DEF Joinable
<1>6. <<FlattenSeq(fs), U>> \in Q
  BY ONLY <1>3, <1>5, fs \in Seq(S), FlattenJoin
<1>7. QED
  BY <1>4, <1>6
-----------------------------------------------------------------------------
(* The record that a decoded message is.                                   *)

LEMMA MaxIsIn ==
  ASSUME NEW n \in Nat, NEW T, T \in SUBSET (1 .. n), T # {}
  PROVE  Max(T) \in T
<1> DEFINE U == {n - x : x \in T}
<1>0. \A x \in T : n - x \in Nat
  OBVIOUS
<1>1. U \in SUBSET Nat /\ U # {}
  BY ONLY <1>0, T # {}
<1>2. PICK u \in U : \A y \in U : u <= y
  <2> HIDE DEF U
  <2>1. QED
    BY ONLY <1>1, LeastElement
<1>3. PICK t \in T : u = n - t
  OBVIOUS
<1>4. ASSUME NEW x \in T PROVE x <= t
  <2>1. n - x \in U
    OBVIOUS
  <2>2. n - t <= n - x
    BY ONLY <1>2, <1>3, <2>1
  <2>3. x \in Int /\ t \in Int
    BY <1>3
  <2>4. QED
    BY ONLY <2>2, <2>3, n \in Nat
<1>5. T \in SUBSET Int
  OBVIOUS
<1>6. Max(T) = t
  BY ONLY <1>4, <1>5, t \in T, MaxIs
<1>7. QED
  BY ONLY <1>6, t \in T

HeaderNames == {"device_id", "timestamp", "seq_no", "firmware_version", "boot_count"}
MetricsNames ==
  {"temperature", "humidity", "battery_voltage", "battery_level_pct", "rssi", "interval_sec"}
StatusNames == {"state", "uptime_sec", "free_heap_bytes"}

Names == HeaderNames \cup MetricsNames \cup StatusNames

KindOf(n) == Fields[CHOOSE i \in DOMAIN Fields : Fields[i].name = n].kind

ZeroOf(n) == Absent(KindOf(n))

Joined(u, s, m, t, n) ==
  /\ Len(u) = m + n
  /\ \A i \in 1 .. m : u[i] = s[i]
  /\ \A i \in m + 1 .. m + n : u[i] = t[i - m]

LEMMA ConcatElements ==
  ASSUME NEW S, NEW s, s \in Seq(S), NEW t, t \in Seq(S), NEW m \in Nat, NEW n \in Nat,
         Len(s) = m, Len(t) = n
  PROVE  s \o t \in Seq(S) /\ Joined(s \o t, s, m, t, n)
<1>1. /\ s \o t \in Seq(S) /\ Len(s \o t) = Len(s) + Len(t)
      /\ \A i \in 1 .. Len(s) + Len(t) :
           (s \o t)[i] = IF i <= Len(s) THEN s[i] ELSE t[i - Len(s)]
  BY ConcatProperties
<1> DEFINE u == s \o t
<1> HIDE DEF u
<1>2. \A i \in 1 .. m + n : u[i] = IF i <= m THEN s[i] ELSE t[i - m]
  BY <1>1 DEF u
<1>3. ASSUME NEW i \in 1 .. m PROVE u[i] = s[i]
  BY ONLY <1>2, m \in Nat, n \in Nat, i \in 1 .. m
<1>4. ASSUME NEW i \in m + 1 .. m + n PROVE u[i] = t[i - m]
  BY ONLY <1>2, m \in Nat, n \in Nat, i \in m + 1 .. m + n
<1>5. QED
  BY <1>1, <1>3, <1>4 DEF u, Joined

LEMMA ThreeElements ==
  ASSUME NEW S, NEW a, NEW b, NEW c, a \in S, b \in S, c \in S
  PROVE  <<a, b, c>> \in Seq(S) /\ Len(<<a, b, c>>) = 3
OBVIOUS

LEMMA FiveElements ==
  ASSUME NEW S, NEW a, NEW b, NEW c, NEW d, NEW e,
         a \in S, b \in S, c \in S, d \in S, e \in S
  PROVE  <<a, b, c, d, e>> \in Seq(S) /\ Len(<<a, b, c, d, e>>) = 5
OBVIOUS

LEMMA SixElements ==
  ASSUME NEW S, NEW a, NEW b, NEW c, NEW d, NEW e, NEW f,
         a \in S, b \in S, c \in S, d \in S, e \in S, f \in S
  PROVE  <<a, b, c, d, e, f>> \in Seq(S) /\ Len(<<a, b, c, d, e, f>>) = 6
OBVIOUS

LEMMA FieldsListed ==
  /\ DOMAIN Fields = 1 .. 14
  /\ Fields[1] = F("device_id", "string") /\ Fields[2] = F("timestamp", "int64")
  /\ Fields[3] = F("seq_no", "uint32") /\ Fields[4] = F("firmware_version", "string")
  /\ Fields[5] = F("boot_count", "uint32") /\ Fields[6] = F("temperature", "float")
  /\ Fields[7] = F("humidity", "float") /\ Fields[8] = F("battery_voltage", "float")
  /\ Fields[9] = F("battery_level_pct", "uint32") /\ Fields[10] = F("rssi", "int32")
  /\ Fields[11] = F("interval_sec", "uint32") /\ Fields[12] = F("state", "enum")
  /\ Fields[13] = F("uptime_sec", "uint32") /\ Fields[14] = F("free_heap_bytes", "uint32")
<1> DEFINE h == Schema.header
           m == Schema.metrics
           s == Schema.status
           S == {h[1], h[2], h[3], h[4], h[5], m[1], m[2], m[3], m[4], m[5], m[6],
                 s[1], s[2], s[3]}
<1>1. h = <<h[1], h[2], h[3], h[4], h[5]>>
  BY DEF Schema
<1>2. m = <<m[1], m[2], m[3], m[4], m[5], m[6]>>
  BY DEF Schema
<1>3. s = <<s[1], s[2], s[3]>>
  BY DEF Schema
<1> HIDE DEF h, m, s
<1>4. h \in Seq(S) /\ Len(h) = 5
  <2>1. h[1] \in S /\ h[2] \in S /\ h[3] \in S /\ h[4] \in S /\ h[5] \in S
    OBVIOUS
  <2>2. <<h[1], h[2], h[3], h[4], h[5]>> \in Seq(S) /\ Len(<<h[1], h[2], h[3], h[4], h[5]>>) = 5
    BY ONLY <2>1, FiveElements
  <2>3. QED
    BY ONLY <1>1, <2>2, Zenon
<1>5. m \in Seq(S) /\ Len(m) = 6
  <2>1. /\ m[1] \in S /\ m[2] \in S /\ m[3] \in S /\ m[4] \in S /\ m[5] \in S
        /\ m[6] \in S
    OBVIOUS
  <2>2. /\ <<m[1], m[2], m[3], m[4], m[5], m[6]>> \in Seq(S)
        /\ Len(<<m[1], m[2], m[3], m[4], m[5], m[6]>>) = 6
    BY ONLY <2>1, SixElements
  <2>3. QED
    BY ONLY <1>2, <2>2, Zenon
<1>6. s \in Seq(S) /\ Len(s) = 3
  <2>1. s[1] \in S /\ s[2] \in S /\ s[3] \in S
    OBVIOUS
  <2>2. <<s[1], s[2], s[3]>> \in Seq(S) /\ Len(<<s[1], s[2], s[3]>>) = 3
    BY ONLY <2>1, ThreeElements
  <2>3. QED
    BY ONLY <1>3, <2>2, Zenon
<1> HIDE DEF S
<1> DEFINE u == h \o m
<1>7. /\ u \in Seq(S) /\ Len(u) = 11
      /\ \A i \in 1 .. 5 : u[i] = h[i]
      /\ \A i \in 6 .. 11 : u[i] = m[i - 5]
  <2> DEFINE k == 5
             n == 6
  <2>1. k \in Nat /\ n \in Nat /\ Len(h) = k /\ Len(m) = n
    BY ONLY <1>4, <1>5
  <2> HIDE DEF k, n, u
  <2>2. u \in Seq(S) /\ Joined(u, h, k, m, n)
    BY ONLY <1>4, <1>5, <2>1, ConcatElements DEF u
  <2>3. QED
    BY ONLY <2>2 DEF k, n, Joined
<1> HIDE DEF u
<1> DEFINE w == u \o s
<1>8. /\ w \in Seq(S) /\ Len(w) = 14
      /\ \A i \in 1 .. 11 : w[i] = u[i]
      /\ \A i \in 12 .. 14 : w[i] = s[i - 11]
  <2> DEFINE k == 11
             n == 3
  <2>1. k \in Nat /\ n \in Nat /\ Len(u) = k /\ Len(s) = n
    BY ONLY <1>6, <1>7
  <2> HIDE DEF k, n, w
  <2>2. w \in Seq(S) /\ Joined(w, u, k, s, n)
    BY ONLY <1>6, <1>7, <2>1, ConcatElements DEF w
  <2>3. QED
    BY ONLY <2>2 DEF k, n, Joined
<1> HIDE DEF w
<1>9. DOMAIN w = 1 .. 14
  <2>1. DOMAIN w = 1 .. Len(w) /\ Len(w) = 14
    BY ONLY <1>8, LenProperties
  <2>2. QED
    BY ONLY <2>1
<1>10. /\ w[1] = h[1] /\ w[2] = h[2] /\ w[3] = h[3] /\ w[4] = h[4] /\ w[5] = h[5]
       /\ w[6] = m[1] /\ w[7] = m[2] /\ w[8] = m[3] /\ w[9] = m[4] /\ w[10] = m[5]
       /\ w[11] = m[6] /\ w[12] = s[1] /\ w[13] = s[2] /\ w[14] = s[3]
  BY ONLY <1>7, <1>8
<1>11. Fields = w
  BY DEF Fields, w, u, h, m, s
<1>12. /\ h[1] = F("device_id", "string") /\ h[2] = F("timestamp", "int64")
       /\ h[3] = F("seq_no", "uint32") /\ h[4] = F("firmware_version", "string")
       /\ h[5] = F("boot_count", "uint32")
       /\ m[1] = F("temperature", "float") /\ m[2] = F("humidity", "float")
       /\ m[3] = F("battery_voltage", "float") /\ m[4] = F("battery_level_pct", "uint32")
       /\ m[5] = F("rssi", "int32") /\ m[6] = F("interval_sec", "uint32")
       /\ s[1] = F("state", "enum")
       /\ s[2] = F("uptime_sec", "uint32") /\ s[3] = F("free_heap_bytes", "uint32")
  BY DEF h, m, s, Schema
<1>13. QED
  BY ONLY <1>9, <1>10, <1>11, <1>12

LEMMA FieldNames ==
  /\ {Fields[i].name : i \in DOMAIN Fields} = Names
  /\ "error" \notin Names
<1>1. DOMAIN Fields = 1 .. 14
  BY FieldsListed
<1>2. /\ Fields[1].name = "device_id" /\ Fields[2].name = "timestamp"
      /\ Fields[3].name = "seq_no" /\ Fields[4].name = "firmware_version"
      /\ Fields[5].name = "boot_count" /\ Fields[6].name = "temperature"
      /\ Fields[7].name = "humidity" /\ Fields[8].name = "battery_voltage"
      /\ Fields[9].name = "battery_level_pct" /\ Fields[10].name = "rssi"
      /\ Fields[11].name = "interval_sec" /\ Fields[12].name = "state"
      /\ Fields[13].name = "uptime_sec" /\ Fields[14].name = "free_heap_bytes"
  BY FieldsListed DEF F
<1>3. "error" \notin Names
  BY DEF Names, HeaderNames, MetricsNames, StatusNames
<1>4. ASSUME NEW i \in 1 .. 14 PROVE Fields[i].name \in Names
  BY ONLY <1>2, i \in 1 .. 14 DEF Names, HeaderNames, MetricsNames, StatusNames
<1>5. ASSUME NEW n \in Names PROVE \E i \in 1 .. 14 : Fields[i].name = n
  BY ONLY <1>2, n \in Names DEF Names, HeaderNames, MetricsNames, StatusNames
<1>6. QED
  BY ONLY <1>1, <1>3, <1>4, <1>5

(* Names are told by one entry at least, the others are zero.              *)
LEMMA CollectTold ==
  ASSUME NEW fields, NEW v, NEW A, Tells(fields, v, A), A \in SUBSET Names,
         v = [n \in Names |-> v[n]], \A n \in Names \ A : v[n] = ZeroOf(n)
  PROVE  Collect(fields) = v
<1> DEFINE at(name) == {i \in DOMAIN fields : fields[i].name = name}
           K == Told(v, A)
<1>1. fields \in Seq(K) /\ Range(fields) = K
  BY DEF Tells
<1>2. Len(fields) \in Nat /\ DOMAIN fields = 1 .. Len(fields)
  <2> HIDE DEF K
  <2>1. QED
    BY ONLY <1>1, LenProperties
<1>3. ASSUME NEW i \in DOMAIN fields
      PROVE  fields[i].name \in A /\ fields[i].value = v[fields[i].name]
  <2>1. fields[i] \in K
    <3> HIDE DEF K
    <3>1. QED
      BY ONLY <1>1, i \in DOMAIN fields
  <2>2. PICK n \in A : fields[i] = Entry(n, v[n])
    BY ONLY <2>1 DEF Told
  <2>3. QED
    BY ONLY <2>2 DEF Entry
<1>4. ASSUME NEW n \in A PROVE \E i \in DOMAIN fields : fields[i].name = n
  <2>1. Entry(n, v[n]) \in Range(fields)
    BY ONLY <1>1, n \in A DEF Told
  <2>2. PICK i \in DOMAIN fields : fields[i] = Entry(n, v[n])
    BY ONLY <2>1 DEF Range
  <2>3. QED
    BY ONLY <2>2 DEF Entry
<1>5. at("error") = {}
  BY <1>3, FieldNames
<1>6. ASSUME NEW n \in Names
      PROVE  (IF at(n) = {} THEN ZeroOf(n) ELSE fields[Max(at(n))].value) = v[n]
  <2>1. CASE at(n) = {}
    <3>1. n \notin A
      BY ONLY <1>4, <2>1
    <3>2. QED
      BY <2>1, <3>1
  <2>2. CASE at(n) # {}
    <3>1. at(n) \in SUBSET (1 .. Len(fields))
      BY ONLY <1>2
    <3> DEFINE S == at(n)
    <3>2. \A i \in S : i \in DOMAIN fields /\ fields[i].name = n
      OBVIOUS
    <3> HIDE DEF S
    <3>3. Max(S) \in S
      BY <1>2, <2>2, <3>1, MaxIsIn DEF S
    <3>4. fields[Max(S)].value = v[n]
      BY ONLY <1>3, <3>2, <3>3
    <3>5. QED
      BY <2>2, <3>4 DEF S
  <2>3. QED
    BY <2>1, <2>2
<1>7. Collect(fields) =
        [n \in Names |-> IF at(n) = {} THEN ZeroOf(n) ELSE fields[Max(at(n))].value]
  <2>1. {Fields[i].name : i \in DOMAIN Fields} = Names
    BY ONLY FieldNames
  <2>2. QED
    BY ONLY <1>5, <2>1, Zenon DEF Collect, ZeroOf, KindOf
<1> HIDE DEF at
<1>8. QED
  BY ONLY <1>6, <1>7, v = [n \in Names |-> v[n]]

(* The three nested messages, in any order and number; the entry of an     *)
(* error tells the name "error".                                           *)
RootNames == {"header", "metrics", "status"}

LEMMA BadIsEntry == Bad = Entry("error", <<>>)
BY DEF Bad, Entry

All(A, R) == UNION {A[m] : m \in R}

SectionTold(m, bodies, v, A) ==
  IF m = "error" THEN bodies[m] = <<>> /\ v[m] = <<>> /\ A[m] = {m}
  ELSE m \in RootNames /\ Carries(m, bodies[m], v, A[m])

LEMMA NestedTells ==
  ASSUME NEW f, NEW bodies, NEW R, Tells(f, bodies, R), NEW v, NEW A,
         \A m \in R : SectionTold(m, bodies, v, A)
  PROVE  Tells(Nested(f), v, All(A, R))
<1> DEFINE K == Told(bodies, R)
<1>1. f \in Seq(K) /\ Range(f) = K
  BY DEF Tells
<1> HIDE DEF K
<1>2. Len(f) \in Nat /\ DOMAIN f = 1 .. Len(f)
  BY ONLY <1>1, LenProperties
<1>3. ASSUME NEW i \in DOMAIN f
      PROVE  f[i].name \in R /\ f[i] = Entry(f[i].name, bodies[f[i].name])
  <2>1. f[i] \in K
    BY ONLY <1>1, i \in DOMAIN f
  <2>2. PICK m \in R : f[i] = Entry(m, bodies[m])
    BY ONLY <2>1 DEF K, Told
  <2>3. f[i].name = m
    BY ONLY <2>2 DEF Entry
  <2>4. QED
    BY ONLY <2>2, <2>3
<1>4. ASSUME NEW m \in R PROVE \E i \in DOMAIN f : f[i].name = m
  <2>1. Entry(m, bodies[m]) \in Range(f)
    BY ONLY <1>1, m \in R DEF Told, K
  <2>2. PICK i \in DOMAIN f : f[i] = Entry(m, bodies[m])
    BY ONLY <2>1 DEF Range
  <2>3. QED
    BY ONLY <2>2 DEF Entry
<1> DEFINE ps == [i \in DOMAIN f |-> IF f[i] = Bad THEN <<Bad>> ELSE Parse(f[i].name, f[i].value)]
           S == {ps[i] : i \in DOMAIN f}
           AA == [i \in DOMAIN f |-> A[f[i].name]]
<1>5. ASSUME NEW i \in DOMAIN f PROVE Tells(ps[i], v, AA[i])
  <2> DEFINE m == f[i].name
  <2>1. m \in R /\ f[i] = Entry(m, bodies[m]) /\ AA[i] = A[m]
    BY ONLY <1>3, i \in DOMAIN f
  <2>2. ps[i] = IF f[i] = Bad THEN <<Bad>> ELSE Parse(m, f[i].value)
    BY ONLY i \in DOMAIN f
  <2> HIDE DEF m, ps, AA
  <2>3. SectionTold(m, bodies, v, A)
    BY <2>1
  <2>4. CASE m = "error"
    <3>1. f[i] = Bad /\ Bad = Entry(m, v[m]) /\ A[m] = {m}
      BY ONLY <2>1, <2>3, <2>4, BadIsEntry DEF SectionTold
    <3>2. ps[i] = <<Entry(m, v[m])>>
      BY ONLY <2>2, <3>1
    <3>3. QED
      BY ONLY <2>1, <3>1, <3>2, TellsOne
  <2>5. CASE m # "error"
    <3>1. Carries(m, bodies[m], v, A[m])
      BY ONLY <2>3, <2>5 DEF SectionTold
    <3>2. ps[i] = Parse(m, bodies[m])
      BY ONLY <2>1, <2>2, <2>5 DEF Bad, Entry
    <3>3. PICK g : Reads(m, bodies[m], g) /\ Tells(g, v, A[m])
      BY ONLY <3>1 DEF Carries
    <3>4. bodies[m] \in Seq(Bytes)
      BY ONLY <3>1 DEF Carries
    <3> DEFINE L == Told(v, A[m])
    <3>5. g \in Seq(L)
      BY ONLY <3>3 DEF Tells
    <3> HIDE DEF L
    <3>6. Parse(m, bodies[m]) = g
      BY ONLY <3>3, <3>4, <3>5, ParseReads
    <3>7. QED
      BY ONLY <2>1, <3>2, <3>3, <3>6
  <2>6. QED
    BY ONLY <2>4, <2>5
<1>6. ps \in Seq(S) /\ Len(ps) = Len(f)
  <2>1. ps \in [1 .. Len(f) -> S]
    BY ONLY <1>2
  <2> HIDE DEF ps, S
  <2>2. QED
    BY ONLY <1>2, <2>1, SeqOfFunction
<1>7. Nested(f) = FlattenSeq(ps)
  BY ONLY Zenon DEF Nested
<1>8. Upto(AA, Len(f)) = All(A, R)
  <2>1. \A i \in 1 .. Len(f) : f[i].name \in R /\ AA[i] = A[f[i].name]
    BY ONLY <1>2, <1>3
  <2>2. \A m \in R : \E i \in 1 .. Len(f) : f[i].name = m
    BY ONLY <1>2, <1>4
  <2> HIDE DEF AA
  <2>3. QED
    BY ONLY <2>1, <2>2 DEF Upto, All
<1> HIDE DEF ps, S, AA
<1>9. \A i \in 1 .. Len(ps) : Tells(ps[i], v, AA[i])
  BY ONLY <1>2, <1>5, <1>6
<1>10. Tells(FlattenSeq(ps), v, Upto(AA, Len(ps)))
  BY ONLY <1>6, <1>9, FlattenTells
<1>11. QED
  BY ONLY <1>6, <1>7, <1>8, <1>10

LEMMA DecodeTold ==
  ASSUME NEW b, b \in Seq(Bytes), NEW v, v = [n \in Names |-> v[n]],
         NEW bodies, NEW R, R \in SUBSET RootNames, Carries("root", b, bodies, R), NEW A,
         \A m \in R : Carries(m, bodies[m], v, A[m]) /\ A[m] \in SUBSET Names,
         \A n \in Names : (\A m \in R : n \notin A[m]) => v[n] = ZeroOf(n)
  PROVE  Decode(b) = v
<1> DEFINE K == Told(bodies, R)
<1>1. PICK f : Reads("root", b, f) /\ Tells(f, bodies, R)
  BY DEF Carries
<1>2. f \in Seq(K)
  BY ONLY <1>1 DEF Tells
<1> HIDE DEF K
<1>3. Parse("root", b) = f
  BY ONLY <1>1, <1>2, b \in Seq(Bytes), ParseReads
<1>4. \A m \in R : SectionTold(m, bodies, v, A)
  BY DEF SectionTold, RootNames
<1>5. Tells(Nested(f), v, All(A, R))
  BY ONLY <1>1, <1>4, NestedTells
<1>6. All(A, R) \in SUBSET Names /\ \A n \in Names \ All(A, R) : v[n] = ZeroOf(n)
  BY DEF All
<1>7. Collect(Nested(f)) = v
  BY ONLY <1>5, <1>6, v = [n \in Names |-> v[n]], CollectTold
<1>8. QED
  BY ONLY <1>3, <1>7 DEF Decode

(* One error is enough.                                                    *)
LEMMA CollectBad ==
  ASSUME NEW fields, NEW v, NEW A, Tells(fields, v, A), "error" \in A
  PROVE  Collect(fields) = Invalid
<1>1. Entry("error", v["error"]) \in Range(fields)
  BY DEF Tells, Told
<1>2. PICK i \in DOMAIN fields : fields[i] = Entry("error", v["error"])
  BY ONLY <1>1 DEF Range
<1>3. fields[i].name = "error"
  BY ONLY <1>2 DEF Entry
<1>4. {j \in DOMAIN fields : fields[j].name = "error"} # {}
  BY ONLY <1>3
<1>5. QED
  BY ONLY <1>4 DEF Collect

-----------------------------------------------------------------------------
(* The sections of a telemetry.                                            *)

DataOK(d) ==
  /\ OrElse(d.device_id, Unknown) \in Strings
  /\ OrElse(d.firmware_version, FirstFirmware) \in Strings
  /\ d.timestamp \in Uint32Words /\ d.seq_no \in Uint32Words /\ d.boot_count \in Uint32Words
  /\ d.temperature \in Floats /\ d.humidity \in Floats /\ d.battery_voltage \in Floats
  /\ d.battery_level_pct \in Uint32Words /\ d.rssi \in Int32s
  /\ d.interval_sec \in Uint32Words
  /\ d.uptime_sec \in Uint32Words /\ d.free_heap_bytes \in Uint32Words

LEMMA DefaultStrings == Unknown \in Strings /\ FirstFirmware \in Strings
<1>1. Unknown \in Seq(Bytes) /\ Len(Unknown) = 7
  BY DEF Unknown, Bytes
<1>2. FirstFirmware \in Seq(Bytes) /\ Len(FirstFirmware) = 5
  BY DEF FirstFirmware, Bytes
<1>3. QED
  <2>1. Len(Unknown) <= MaxString /\ Len(FirstFirmware) <= MaxString
    BY ONLY <1>1, <1>2, SMT DEF MaxString
  <2>2. QED
    BY ONLY <1>1, <1>2, <2>1 DEF Strings

LEMMA DataIsOK ==
  ASSUME NEW d \in TelemetryData
  PROVE  DataOK(d)
<1>1. /\ d.device_id \in {Null} \cup Strings
      /\ d.firmware_version \in {Null} \cup Strings
      /\ d.timestamp \in Uint32Words /\ d.seq_no \in Uint32Words /\ d.boot_count \in Uint32Words
      /\ d.temperature \in Floats /\ d.humidity \in Floats /\ d.battery_voltage \in Floats
      /\ d.battery_level_pct \in Uint32Words /\ d.rssi \in Int32s
      /\ d.interval_sec \in Uint32Words
      /\ d.uptime_sec \in Uint32Words /\ d.free_heap_bytes \in Uint32Words
  BY DEF TelemetryData
<1>2. QED
  BY ONLY <1>1, DefaultStrings DEF DataOK, OrElse

LEMMA StringSize ==
  ASSUME NEW s, s \in Strings
  PROVE  s \in Seq(Bytes) /\ Len(s) \in Nat /\ Len(s) <= 1000 /\ Len(s) < MaxSize
<1>1. s \in Seq(Bytes) /\ Len(s) <= 1000
  BY SMT DEF Strings, MaxString
<1>2. Len(s) \in Nat
  BY ONLY <1>1, LenProperties
<1>3. QED
  BY <1>1, <1>2, SMT DEF MaxSize

KnownState(state) == \E i \in DOMAIN States : States[i] = state

(* What the server makes of d.                                             *)
Measured(v, d) ==
  /\ v = [n \in Names |-> v[n]]
  /\ v["device_id"] = OrElse(d.device_id, Unknown)
  /\ v["timestamp"] = d.timestamp /\ v["seq_no"] = d.seq_no
  /\ v["firmware_version"] = OrElse(d.firmware_version, FirstFirmware)
  /\ v["boot_count"] = d.boot_count
  /\ v["temperature"] = d.temperature /\ v["humidity"] = d.humidity
  /\ v["battery_voltage"] = d.battery_voltage
  /\ v["battery_level_pct"] = d.battery_level_pct
  /\ v["rssi"] = Word(d.rssi) /\ v["interval_sec"] = d.interval_sec
  /\ v["uptime_sec"] = d.uptime_sec /\ v["free_heap_bytes"] = d.free_heap_bytes

StateRead(d) == IF KnownState(d.state) THEN d.state ELSE "NORMAL"

(* The chunk c is the n-th field of the schema.                            *)
IsField(message, n, c, v) ==
  c \in Seq(Bytes) /\
  Yields(message, c, <<Entry(Schema[message][n].name, v[Schema[message][n].name])>>)

Holds(message, cs, v) ==
  /\ cs \in Seq(Seq(Bytes)) /\ DOMAIN cs = 1 .. Len(cs)
  /\ DOMAIN cs = DOMAIN Schema[message]
  /\ \A j \in DOMAIN cs : IsField(message, j, cs[j], v)

LEMMA YieldsIs ==
  ASSUME NEW message, NEW n, NEW name, NEW kind, HasField(message, n, name, kind), NEW c,
         NEW value, Yields(message, c, <<Entry(name, value)>>), NEW v, v[name] = value
  PROVE  IsField(message, n, c, v)
BY DEF HasField, F, Yields, IsField

LEMMA StringIsField ==
  ASSUME NEW message, NEW n, NEW name, NEW kind, HasField(message, n, name, kind),
         kind \in {"string", "message"}, NEW v, NEW s, s \in Seq(Bytes), Len(s) < MaxSize,
         v[name] = s
  PROVE  IsField(message, n, StringField(n, s), v)
<1>1. Yields(message, StringField(n, s), <<Entry(name, s)>>)
  BY StringFieldIsRead
<1>2. QED
  BY ONLY <1>1, HasField(message, n, name, kind), v[name] = s, YieldsIs

LEMMA FloatIsField ==
  ASSUME NEW message, NEW n, NEW name, HasField(message, n, name, "float"),
         NEW v, NEW s, s \in Floats, v[name] = s
  PROVE  IsField(message, n, FloatField(n, s), v)
<1>1. Yields(message, FloatField(n, s), <<Entry(name, s)>>)
  BY FloatFieldIsRead
<1>2. QED
  BY ONLY <1>1, HasField(message, n, name, "float"), v[name] = s, YieldsIs

LEMMA VarintIsField ==
  ASSUME NEW message, NEW n, NEW name, NEW kind, HasField(message, n, name, kind),
         kind \in VarintKinds, NEW v, NEW w, w \in Words, v[name] = Convert(kind, w)
  PROVE  IsField(message, n, VarintField(n, w), v)
<1>1. Yields(message, VarintField(n, w), <<Entry(name, Convert(kind, w))>>)
  BY VarintFieldIsRead
<1>2. QED
  BY ONLY <1>1, HasField(message, n, name, kind), v[name] = Convert(kind, w), YieldsIs

LEMMA KeptConversions ==
  /\ {"int64", "uint32", "int32", "enum"} = VarintKinds
  /\ \A w : Convert("int64", w) = w
  /\ \A w : Convert("uint32", w) = Uint32(w)
  /\ \A w : Convert("int32", w) = Int32(w)
  /\ \A w : Convert("enum", w) = StateOf(w)
BY DEF VarintKinds, Convert

LEMMA Uint32IsField ==
  ASSUME NEW message, NEW n, NEW name, HasField(message, n, name, "uint32"),
         NEW v, NEW w, w \in Uint32Words, v[name] = w
  PROVE  IsField(message, n, VarintField(n, w), v)
<1>1. w \in Words /\ Uint32(w) = w
  BY Uint32IsKept
<1>2. "uint32" \in VarintKinds /\ Convert("uint32", w) = w
  BY <1>1, KeptConversions
<1>3. QED
  BY ONLY <1>1, <1>2, HasField(message, n, name, "uint32"), v[name] = w, VarintIsField

(* The numbers of the states are read as states.                           *)
LEMMA StateIsRead ==
  ASSUME NEW state
  PROVE  /\ StateEnum(state) \in Words
         /\ StateOf(StateEnum(state)) = IF KnownState(state) THEN state ELSE "NORMAL"
<1>1. DOMAIN States = 1 .. 4
  BY DEF States
<1>2. ASSUME NEW i \in 1 .. 4
      PROVE  Word(i - 1) \in Words /\ Size(Word(i - 1)) = i - 1
  <2>1. i - 1 \in Nat /\ i - 1 < MaxSize
    BY SMT DEF MaxSize
  <2>2. QED
    BY ONLY <2>1, LengthIsNat35
<1>3. ASSUME NEW i \in 1 .. 4 PROVE StateOf(Word(i - 1)) = States[i]
  <2>1. \E j \in DOMAIN States : Word(j - 1) = Word(i - 1)
    BY ONLY <1>1, i \in 1 .. 4
  <2>2. (i - 1) + 1 = i
    BY ONLY i \in 1 .. 4
  <2>3. QED
    BY ONLY <1>2, <2>1, <2>2, i \in 1 .. 4 DEF StateOf
<1>4. CASE KnownState(state)
  <2> DEFINE i == CHOOSE i \in DOMAIN States : States[i] = state
  <2>1. i \in 1 .. 4 /\ States[i] = state
    BY ONLY <1>1, <1>4 DEF KnownState
  <2>2. StateEnum(state) = Word(i - 1)
    BY <1>4 DEF StateEnum, KnownState
  <2> HIDE DEF i
  <2>3. QED
    BY ONLY <1>2, <1>3, <1>4, <2>1, <2>2
<1>5. CASE ~ KnownState(state)
  <2>1. StateEnum(state) = Word(1 - 1)
    BY <1>5 DEF StateEnum, KnownState, Zero
  <2>2. 1 \in 1 .. 4 /\ States[1] = "NORMAL"
    BY DEF States
  <2>3. QED
    BY ONLY <1>2, <1>3, <1>5, <2>1, <2>2
<1>6. QED
  BY <1>4, <1>5

LEMMA HeaderHolds ==
  ASSUME NEW d, DataOK(d), NEW v, Measured(v, d)
  PROVE  Holds("header", HeaderFields(d), v)
<1> DEFINE cs == HeaderFields(d)
           T == Seq(Bytes)
           fw == OrElse(d.firmware_version, FirstFirmware)
           id == OrElse(d.device_id, Unknown)
<1>1. /\ v["device_id"] = id /\ v["timestamp"] = d.timestamp /\ v["seq_no"] = d.seq_no
      /\ v["firmware_version"] = fw /\ v["boot_count"] = d.boot_count
  BY ONLY Measured(v, d) DEF Measured
<1>2. id \in Seq(Bytes) /\ Len(id) < MaxSize /\ fw \in Seq(Bytes) /\ Len(fw) < MaxSize
  BY ONLY DataOK(d), StringSize DEF DataOK
<1>3. d.timestamp \in Words /\ d.seq_no \in Uint32Words /\ d.boot_count \in Uint32Words
  BY ONLY DataOK(d), Uint32IsKept DEF DataOK
<1>4. cs = <<StringField(1, id), VarintField(2, d.timestamp), VarintField(3, d.seq_no),
             StringField(4, fw), VarintField(5, d.boot_count)>>
  BY DEF HeaderFields
<1> HIDE DEF fw, id
<1>5. IsField("header", 1, cs[1], v) /\ IsField("header", 4, cs[4], v)
  <2>1. IsField("header", 1, StringField(1, id), v)
    BY ONLY <1>1, <1>2, SchemaFields, StringIsField
  <2>2. IsField("header", 4, StringField(4, fw), v)
    BY ONLY <1>1, <1>2, SchemaFields, StringIsField
  <2>3. QED
    BY ONLY <1>4, <2>1, <2>2
<1>6. IsField("header", 2, cs[2], v)
  <2>1. "int64" \in VarintKinds /\ v["timestamp"] = Convert("int64", d.timestamp)
    BY ONLY <1>1, KeptConversions
  <2>2. IsField("header", 2, VarintField(2, d.timestamp), v)
    BY ONLY <1>3, <2>1, SchemaFields, VarintIsField
  <2>3. QED
    BY ONLY <1>4, <2>2
<1>7. IsField("header", 3, cs[3], v) /\ IsField("header", 5, cs[5], v)
  <2>1. IsField("header", 3, VarintField(3, d.seq_no), v)
    BY ONLY <1>1, <1>3, SchemaFields, Uint32IsField
  <2>2. IsField("header", 5, VarintField(5, d.boot_count), v)
    BY ONLY <1>1, <1>3, SchemaFields, Uint32IsField
  <2>3. QED
    BY ONLY <1>4, <2>1, <2>2
<1>8. cs \in Seq(T) /\ Len(cs) = 5
  <2>1. cs[1] \in T /\ cs[2] \in T /\ cs[3] \in T /\ cs[4] \in T /\ cs[5] \in T
    BY ONLY <1>5, <1>6, <1>7 DEF IsField
  <2>2. cs = <<cs[1], cs[2], cs[3], cs[4], cs[5]>>
    BY ONLY <1>4
  <2> HIDE DEF cs, T
  <2>3. /\ <<cs[1], cs[2], cs[3], cs[4], cs[5]>> \in Seq(T)
        /\ Len(<<cs[1], cs[2], cs[3], cs[4], cs[5]>>) = 5
    BY ONLY <2>1, FiveElements
  <2>4. QED
    BY ONLY <2>2, <2>3, Zenon
<1> HIDE DEF cs
<1>9. DOMAIN cs = 1 .. 5
  <2>1. DOMAIN cs = 1 .. Len(cs)
    BY ONLY <1>8, LenProperties
  <2>2. QED
    BY ONLY <1>8, <2>1
<1>10. ASSUME NEW j \in 1 .. 5 PROVE IsField("header", j, cs[j], v)
  BY ONLY <1>5, <1>6, <1>7, j \in 1 .. 5
<1>11. QED
  BY ONLY <1>8, <1>9, <1>10, SchemaDomains DEF Holds, cs

LEMMA MetricsHolds ==
  ASSUME NEW d, DataOK(d), NEW v, Measured(v, d)
  PROVE  Holds("metrics", MetricsFields(d), v)
<1> DEFINE cs == MetricsFields(d)
           T == Seq(Bytes)
<1>1. /\ v["temperature"] = d.temperature /\ v["humidity"] = d.humidity
      /\ v["battery_voltage"] = d.battery_voltage
      /\ v["battery_level_pct"] = d.battery_level_pct
      /\ v["rssi"] = Word(d.rssi) /\ v["interval_sec"] = d.interval_sec
  BY ONLY Measured(v, d) DEF Measured
<1>2. /\ d.temperature \in Floats /\ d.humidity \in Floats /\ d.battery_voltage \in Floats
      /\ d.battery_level_pct \in Uint32Words /\ d.interval_sec \in Uint32Words
      /\ Word(d.rssi) \in Words /\ Int32(Word(d.rssi)) = Word(d.rssi)
  BY ONLY DataOK(d), WordOfInt DEF DataOK
<1>3. cs = <<FloatField(1, d.temperature), FloatField(2, d.humidity),
             FloatField(3, d.battery_voltage), VarintField(4, d.battery_level_pct),
             VarintField(5, Word(d.rssi)), VarintField(6, d.interval_sec)>>
  BY DEF MetricsFields
<1>4. /\ IsField("metrics", 1, cs[1], v) /\ IsField("metrics", 2, cs[2], v)
      /\ IsField("metrics", 3, cs[3], v)
  <2>1. IsField("metrics", 1, FloatField(1, d.temperature), v)
    BY ONLY <1>1, <1>2, SchemaFields, FloatIsField
  <2>2. IsField("metrics", 2, FloatField(2, d.humidity), v)
    BY ONLY <1>1, <1>2, SchemaFields, FloatIsField
  <2>3. IsField("metrics", 3, FloatField(3, d.battery_voltage), v)
    BY ONLY <1>1, <1>2, SchemaFields, FloatIsField
  <2>4. QED
    BY ONLY <1>3, <2>1, <2>2, <2>3
<1>5. IsField("metrics", 4, cs[4], v) /\ IsField("metrics", 6, cs[6], v)
  <2>1. IsField("metrics", 4, VarintField(4, d.battery_level_pct), v)
    BY ONLY <1>1, <1>2, SchemaFields, Uint32IsField
  <2>2. IsField("metrics", 6, VarintField(6, d.interval_sec), v)
    BY ONLY <1>1, <1>2, SchemaFields, Uint32IsField
  <2>3. QED
    BY ONLY <1>3, <2>1, <2>2
<1>6. IsField("metrics", 5, cs[5], v)
  <2> DEFINE w == Word(d.rssi)
  <2> HIDE DEF w
  <2>1. "int32" \in VarintKinds /\ v["rssi"] = Convert("int32", w) /\ w \in Words
    BY ONLY <1>1, <1>2, KeptConversions DEF w
  <2>2. IsField("metrics", 5, VarintField(5, w), v)
    BY ONLY <2>1, SchemaFields, VarintIsField
  <2>3. QED
    BY ONLY <1>3, <2>2 DEF w
<1>7. cs \in Seq(T) /\ Len(cs) = 6
  <2>1. /\ cs[1] \in T /\ cs[2] \in T /\ cs[3] \in T /\ cs[4] \in T /\ cs[5] \in T
        /\ cs[6] \in T
    BY ONLY <1>4, <1>5, <1>6 DEF IsField
  <2>2. cs = <<cs[1], cs[2], cs[3], cs[4], cs[5], cs[6]>>
    BY ONLY <1>3
  <2> HIDE DEF cs, T
  <2>3. /\ <<cs[1], cs[2], cs[3], cs[4], cs[5], cs[6]>> \in Seq(T)
        /\ Len(<<cs[1], cs[2], cs[3], cs[4], cs[5], cs[6]>>) = 6
    BY ONLY <2>1, SixElements
  <2>4. QED
    BY ONLY <2>2, <2>3, Zenon
<1> HIDE DEF cs
<1>8. DOMAIN cs = 1 .. 6
  <2>1. DOMAIN cs = 1 .. Len(cs)
    BY ONLY <1>7, LenProperties
  <2>2. QED
    BY ONLY <1>7, <2>1
<1>9. ASSUME NEW j \in 1 .. 6 PROVE IsField("metrics", j, cs[j], v)
  BY ONLY <1>4, <1>5, <1>6, j \in 1 .. 6
<1>10. QED
  BY ONLY <1>7, <1>8, <1>9, SchemaDomains DEF Holds, cs

(* An absent state aside.                                                  *)
LEMMA StatusHolds ==
  ASSUME NEW d, DataOK(d), NEW v, Measured(v, d), v["state"] = StateRead(d)
  PROVE  Holds("status", StatusFields(d), v)
<1> DEFINE cs == StatusFields(d)
           T == Seq(Bytes)
           e == StateEnum(d.state)
<1>1. /\ v["uptime_sec"] = d.uptime_sec /\ v["free_heap_bytes"] = d.free_heap_bytes
      /\ v["state"] = StateOf(e)
  BY ONLY Measured(v, d), v["state"] = StateRead(d), StateIsRead DEF Measured, StateRead
<1>2. e \in Words /\ d.uptime_sec \in Uint32Words /\ d.free_heap_bytes \in Uint32Words
  BY ONLY DataOK(d), StateIsRead DEF DataOK
<1>3. cs = <<VarintField(1, e), VarintField(2, d.uptime_sec),
             VarintField(3, d.free_heap_bytes)>>
  BY DEF StatusFields
<1> HIDE DEF e
<1>4. IsField("status", 1, cs[1], v)
  <2>1. "enum" \in VarintKinds /\ v["state"] = Convert("enum", e)
    BY ONLY <1>1, KeptConversions
  <2>2. IsField("status", 1, VarintField(1, e), v)
    BY ONLY <1>2, <2>1, SchemaFields, VarintIsField
  <2>3. QED
    BY ONLY <1>3, <2>2
<1>5. IsField("status", 2, cs[2], v) /\ IsField("status", 3, cs[3], v)
  <2>1. IsField("status", 2, VarintField(2, d.uptime_sec), v)
    BY ONLY <1>1, <1>2, SchemaFields, Uint32IsField
  <2>2. IsField("status", 3, VarintField(3, d.free_heap_bytes), v)
    BY ONLY <1>1, <1>2, SchemaFields, Uint32IsField
  <2>3. QED
    BY ONLY <1>3, <2>1, <2>2
<1>6. cs \in Seq(T) /\ Len(cs) = 3
  <2>1. cs[1] \in T /\ cs[2] \in T /\ cs[3] \in T
    BY ONLY <1>4, <1>5 DEF IsField
  <2>2. cs = <<cs[1], cs[2], cs[3]>>
    BY ONLY <1>3
  <2> HIDE DEF cs, T
  <2>3. <<cs[1], cs[2], cs[3]>> \in Seq(T) /\ Len(<<cs[1], cs[2], cs[3]>>) = 3
    BY ONLY <2>1, ThreeElements
  <2>4. QED
    BY ONLY <2>2, <2>3, Zenon
<1> HIDE DEF cs
<1>7. DOMAIN cs = 1 .. 3
  <2>1. DOMAIN cs = 1 .. Len(cs)
    BY ONLY <1>6, LenProperties
  <2>2. QED
    BY ONLY <1>6, <2>1
<1>8. ASSUME NEW j \in 1 .. 3 PROVE IsField("status", j, cs[j], v)
  BY ONLY <1>4, <1>5, j \in 1 .. 3
<1>9. QED
  BY ONLY <1>6, <1>7, <1>8, SchemaDomains DEF Holds, cs
-----------------------------------------------------------------------------
(* A section that is read as the values of v.                              *)

NameAt(message, j) == Schema[message][j].name

NamesIn(message) == {NameAt(message, j) : j \in DOMAIN Schema[message]}

LEMMA NamesInAre ==
  /\ NamesIn("header") = HeaderNames /\ NamesIn("metrics") = MetricsNames
  /\ NamesIn("status") = StatusNames /\ NamesIn("root") = RootNames
<1>1. NamesIn("header") = HeaderNames
  BY SchemaFields, SchemaDomains DEF NamesIn, NameAt, HeaderNames, HasField, F
<1>2. NamesIn("metrics") = MetricsNames
  BY SchemaFields, SchemaDomains DEF NamesIn, NameAt, MetricsNames, HasField, F
<1>3. NamesIn("status") = StatusNames
  BY SchemaFields, SchemaDomains DEF NamesIn, NameAt, StatusNames, HasField, F
<1>4. NamesIn("root") = RootNames
  BY SchemaFields, SchemaDomains DEF NamesIn, NameAt, RootNames, HasField, F
<1>5. QED
  BY <1>1, <1>2, <1>3, <1>4

(* The names that it does not carry have the value zero.                   *)
Faithful(message, c, v) ==
  \E B \in SUBSET NamesIn(message) :
    Carries(message, c, v, B) /\ \A n \in NamesIn(message) \ B : v[n] = ZeroOf(n)

(* Chunks that carry the names of A.                                       *)
Pieces(message, cs, v, A) ==
  \A i \in 1 .. Len(cs) :
    Carries(message, cs[i], v, A[i]) /\ A[i] \in SUBSET NamesIn(message)

Covers(message, A, k, v) ==
  \A n \in NamesIn(message) : v[n] = ZeroOf(n) \/ \E i \in 1 .. k : n \in A[i]

LEMMA RowFaithful ==
  ASSUME NEW message, NEW v, NEW cs, NEW S, cs \in Seq(S), NEW A,
         Pieces(message, cs, v, A), Covers(message, A, Len(cs), v)
  PROVE  Faithful(message, FlattenSeq(cs), v)
<1> DEFINE B == Upto(A, Len(cs))
<1>1. Carries(message, FlattenSeq(cs), v, B)
  BY FlattenCarries DEF Pieces
<1>2. B \in SUBSET NamesIn(message)
  BY DEF Pieces, Upto
<1>3. \A n \in NamesIn(message) \ B : v[n] = ZeroOf(n)
  BY DEF Covers, Upto
<1> HIDE DEF B
<1>4. QED
  BY ONLY <1>1, <1>2, <1>3 DEF Faithful

LEMMA RowCarries ==
  ASSUME NEW message, NEW v, NEW cs, NEW S, cs \in Seq(S), NEW A,
         Pieces(message, cs, v, A),
         \A n \in NamesIn(message) : \E i \in 1 .. Len(cs) : n \in A[i]
  PROVE  Carries(message, FlattenSeq(cs), v, NamesIn(message))
<1> DEFINE B == Upto(A, Len(cs))
<1>1. Carries(message, FlattenSeq(cs), v, B)
  BY FlattenCarries DEF Pieces
<1>2. B = NamesIn(message)
  BY DEF Pieces, Upto
<1> HIDE DEF B
<1>3. QED
  BY ONLY <1>1, <1>2

LEMMA WhollyFaithful ==
  ASSUME NEW message, NEW c, NEW v, Carries(message, c, v, NamesIn(message))
  PROVE  Faithful(message, c, v)
BY DEF Faithful

LEMMA FieldCarries ==
  ASSUME NEW message, NEW cs, NEW v, Holds(message, cs, v), NEW j \in DOMAIN cs
  PROVE  /\ Carries(message, cs[j], v, {NameAt(message, j)})
         /\ {NameAt(message, j)} \in SUBSET NamesIn(message)
<1>1. IsField(message, j, cs[j], v) /\ j \in DOMAIN Schema[message]
  BY DEF Holds
<1>2. Yields(message, cs[j], <<Entry(NameAt(message, j), v[NameAt(message, j)])>>)
  BY <1>1 DEF IsField, NameAt
<1>3. Carries(message, cs[j], v, {NameAt(message, j)})
  BY ONLY <1>2, YieldsOne
<1>4. QED
  BY <1>1, <1>3 DEF NamesIn

(* The fields in their order, in the reverse order, and with something     *)
(* that the decoder skips before or behind them.                           *)
LEMMA InOrder ==
  ASSUME NEW message, NEW cs, NEW v, Holds(message, cs, v)
  PROVE  Carries(message, FlattenSeq(cs), v, NamesIn(message))
<1> DEFINE A == [j \in 1 .. Len(cs) |-> {NameAt(message, j)}]
<1>1. /\ cs \in Seq(Seq(Bytes)) /\ DOMAIN cs = 1 .. Len(cs)
      /\ DOMAIN cs = DOMAIN Schema[message]
  BY DEF Holds
<1>2. ASSUME NEW i \in 1 .. Len(cs)
      PROVE  Carries(message, cs[i], v, A[i]) /\ A[i] \in SUBSET NamesIn(message)
  BY ONLY <1>1, i \in 1 .. Len(cs), Holds(message, cs, v), FieldCarries
<1>3. Upto(A, Len(cs)) = NamesIn(message)
  BY ONLY <1>1 DEF Upto, NamesIn
<1> HIDE DEF A
<1>4. Carries(message, FlattenSeq(cs), v, Upto(A, Len(cs)))
  BY ONLY <1>1, <1>2, FlattenCarries
<1>5. QED
  BY ONLY <1>3, <1>4

LEMMA InReverse ==
  ASSUME NEW message, NEW cs, NEW v, Holds(message, cs, v)
  PROVE  Carries(message, FlattenSeq(Reverse(cs)), v, NamesIn(message))
<1> DEFINE n == Len(cs)
           rs == Reverse(cs)
           A == [i \in 1 .. n |-> {NameAt(message, (n - i) + 1)}]
<1>1. /\ cs \in Seq(Seq(Bytes)) /\ DOMAIN cs = 1 .. n
      /\ DOMAIN cs = DOMAIN Schema[message]
  BY DEF Holds
<1>2. n \in Nat
  BY <1>1, LenProperties
<1>3. rs = [i \in 1 .. n |-> cs[(n - i) + 1]]
  BY DEF Reverse
<1>4. rs \in Seq(Seq(Bytes)) /\ Len(rs) = n
  <2> DEFINE T == Seq(Bytes)
  <2> HIDE DEF T, n, rs
  <2>1. ASSUME NEW i \in 1 .. n PROVE cs[(n - i) + 1] \in T
    <3>1. (n - i) + 1 \in 1 .. n
      BY ONLY <1>2, i \in 1 .. n
    <3>2. cs \in Seq(T) /\ DOMAIN cs = 1 .. n
      BY ONLY <1>1 DEF T
    <3> DEFINE k == (n - i) + 1
    <3> HIDE DEF k
    <3>3. k \in DOMAIN cs
      BY ONLY <3>1, <3>2 DEF k
    <3>4. cs[k] \in T
      BY ONLY <3>2, <3>3, ElementIn
    <3>5. QED
      BY ONLY <3>4 DEF k
  <2>2. rs \in [1 .. n -> T]
    BY ONLY <1>3, <2>1
  <2>3. rs \in Seq(T) /\ Len(rs) = n
    BY ONLY <1>2, <2>2, SeqOfFunction
  <2>4. QED
    BY <2>3 DEF T
<1> HIDE DEF n, rs
<1>5. ASSUME NEW i \in 1 .. n
      PROVE  Carries(message, rs[i], v, A[i]) /\ A[i] \in SUBSET NamesIn(message)
  <2> DEFINE j == (n - i) + 1
  <2>1. j \in DOMAIN cs
    BY ONLY <1>1, <1>2, i \in 1 .. n
  <2>2. rs[i] = cs[j] /\ A[i] = {NameAt(message, j)}
    BY ONLY <1>3, i \in 1 .. n
  <2> HIDE DEF j, A
  <2>3. QED
    BY ONLY <2>1, <2>2, Holds(message, cs, v), FieldCarries
<1>6. ASSUME NEW m \in NamesIn(message) PROVE \E i \in 1 .. n : m \in A[i]
  <2>1. PICK j \in 1 .. n : m = NameAt(message, j)
    BY ONLY <1>1, m \in NamesIn(message) DEF NamesIn
  <2> DEFINE i == (n - j) + 1
  <2>2. i \in 1 .. n /\ (n - i) + 1 = j
    BY ONLY <1>2, j \in 1 .. n
  <2> HIDE DEF i
  <2>3. QED
    BY ONLY <2>1, <2>2
<1> HIDE DEF A
<1>7. Pieces(message, rs, v, A)
  BY ONLY <1>4, <1>5 DEF Pieces
<1>8. QED
  BY ONLY <1>4, <1>6, <1>7, RowCarries DEF rs

LEMMA BehindUnknown ==
  ASSUME NEW message, NEW cs, NEW v, Holds(message, cs, v), NEW x, Yields(message, x, <<>>)
  PROVE  Carries(message, FlattenSeq(<<x>> \o cs), v, NamesIn(message))
<1> DEFINE n == Len(cs)
           xs == <<x>> \o cs
           T == Seq(Bytes)
           A == [i \in 1 .. 1 + n |-> IF i = 1 THEN {} ELSE {NameAt(message, i - 1)}]
<1>1. /\ cs \in Seq(T) /\ DOMAIN cs = 1 .. n
      /\ DOMAIN cs = DOMAIN Schema[message]
  BY DEF Holds
<1>2. x \in T /\ Carries(message, x, v, {})
  BY YieldsNone DEF Yields
<1> HIDE DEF T
<1>3. n \in Nat /\ 1 \in Nat
  BY <1>1, LenProperties
<1>4. <<x>> \in Seq(T) /\ Len(<<x>>) = 1 /\ <<x>>[1] = x
  BY <1>2
<1>5. xs \in Seq(T) /\ Joined(xs, <<x>>, 1, cs, n)
  BY ONLY <1>1, <1>3, <1>4, ConcatElements
<1> HIDE DEF n, xs
<1>6. /\ Len(xs) = 1 + n /\ xs[1] = x
      /\ \A j \in 1 .. n : xs[j + 1] = cs[j]
  <2>1. \A i \in 1 + 1 .. 1 + n : xs[i] = cs[i - 1]
    BY ONLY <1>5 DEF Joined
  <2>2. ASSUME NEW j \in 1 .. n PROVE xs[j + 1] = cs[j]
    <3>1. j + 1 \in 1 + 1 .. 1 + n /\ (j + 1) - 1 = j
      BY ONLY <1>3, j \in 1 .. n
    <3>2. QED
      BY ONLY <2>1, <3>1
  <2>3. QED
    BY ONLY <1>4, <1>5, <2>2 DEF Joined
<1>7. A[1] = {} /\ \A j \in 1 .. n : j + 1 \in 1 .. 1 + n /\ A[j + 1] = {NameAt(message, j)}
  BY ONLY <1>3
<1>8. \A i \in 1 .. 1 + n : i = 1 \/ \E j \in 1 .. n : i = j + 1
  <2>1. ASSUME NEW i \in 1 .. 1 + n, i # 1 PROVE i - 1 \in 1 .. n /\ i = (i - 1) + 1
    BY ONLY <1>3, i \in 1 .. 1 + n, i # 1
  <2>2. QED
    BY ONLY <2>1
<1> HIDE DEF A
<1>9. Pieces(message, xs, v, A)
  <2>1. ASSUME NEW j \in 1 .. n
        PROVE  Carries(message, xs[j + 1], v, A[j + 1]) /\ A[j + 1] \in SUBSET NamesIn(message)
    <3>1. /\ Carries(message, cs[j], v, {NameAt(message, j)})
          /\ {NameAt(message, j)} \in SUBSET NamesIn(message)
      BY ONLY <1>1, j \in 1 .. n, Holds(message, cs, v), FieldCarries DEF n
    <3>2. QED
      BY ONLY <1>6, <1>7, <3>1, j \in 1 .. n
  <2>2. Carries(message, xs[1], v, A[1]) /\ A[1] \in SUBSET NamesIn(message)
    BY ONLY <1>2, <1>6, <1>7
  <2>3. QED
    BY ONLY <1>6, <1>8, <2>1, <2>2 DEF Pieces
<1>10. ASSUME NEW m \in NamesIn(message) PROVE \E i \in 1 .. Len(xs) : m \in A[i]
  <2>1. PICK j \in 1 .. n : m = NameAt(message, j)
    BY ONLY <1>1, m \in NamesIn(message) DEF NamesIn, n
  <2>2. QED
    BY ONLY <1>6, <1>7, <2>1
<1>11. QED
  BY ONLY <1>5, <1>9, <1>10, RowCarries DEF xs

LEMMA BeforeUnknown ==
  ASSUME NEW message, NEW cs, NEW v, Holds(message, cs, v), NEW x, Yields(message, x, <<>>)
  PROVE  Carries(message, FlattenSeq(cs \o <<x>>), v, NamesIn(message))
<1> DEFINE n == Len(cs)
           xs == cs \o <<x>>
           T == Seq(Bytes)
           A == [i \in 1 .. n + 1 |-> IF i = n + 1 THEN {} ELSE {NameAt(message, i)}]
<1>1. /\ cs \in Seq(T) /\ DOMAIN cs = 1 .. n
      /\ DOMAIN cs = DOMAIN Schema[message]
  BY DEF Holds
<1>2. x \in T /\ Carries(message, x, v, {})
  BY YieldsNone DEF Yields
<1> HIDE DEF T
<1>3. n \in Nat /\ 1 \in Nat
  BY <1>1, LenProperties
<1>4. <<x>> \in Seq(T) /\ Len(<<x>>) = 1 /\ <<x>>[1] = x
  BY <1>2
<1>5. xs \in Seq(T) /\ Joined(xs, cs, n, <<x>>, 1)
  BY ONLY <1>1, <1>3, <1>4, ConcatElements
<1> HIDE DEF n, xs
<1>6. /\ Len(xs) = n + 1 /\ xs[n + 1] = x
      /\ \A j \in 1 .. n : xs[j] = cs[j]
  <2>1. xs[n + 1] = <<x>>[(n + 1) - n]
    BY ONLY <1>3, <1>5 DEF Joined
  <2>2. (n + 1) - n = 1
    BY ONLY <1>3
  <2>3. QED
    BY ONLY <1>4, <1>5, <2>1, <2>2 DEF Joined
<1>7. A[n + 1] = {} /\ \A j \in 1 .. n : j \in 1 .. n + 1 /\ A[j] = {NameAt(message, j)}
  BY ONLY <1>3
<1>8. \A i \in 1 .. n + 1 : i = n + 1 \/ i \in 1 .. n
  BY ONLY <1>3
<1> HIDE DEF A
<1>9. Pieces(message, xs, v, A)
  <2>1. ASSUME NEW j \in 1 .. n
        PROVE  Carries(message, xs[j], v, A[j]) /\ A[j] \in SUBSET NamesIn(message)
    BY ONLY <1>1, <1>6, <1>7, j \in 1 .. n, Holds(message, cs, v), FieldCarries DEF n
  <2>2. Carries(message, xs[n + 1], v, A[n + 1]) /\ A[n + 1] \in SUBSET NamesIn(message)
    BY ONLY <1>2, <1>6, <1>7
  <2>3. QED
    BY ONLY <1>6, <1>8, <2>1, <2>2 DEF Pieces
<1>10. ASSUME NEW m \in NamesIn(message) PROVE \E i \in 1 .. Len(xs) : m \in A[i]
  <2>1. PICK j \in 1 .. n : m = NameAt(message, j)
    BY ONLY <1>1, m \in NamesIn(message) DEF NamesIn, n
  <2>2. QED
    BY ONLY <1>6, <1>7, <2>1
<1>11. QED
  BY ONLY <1>5, <1>9, <1>10, RowCarries DEF xs

(* A sender that leaves out the fields of P.                               *)
LEMMA LeftOut ==
  ASSUME NEW message, NEW cs, NEW u, Holds(message, cs, u), NEW v, NEW P,
         \A j \in DOMAIN cs : IF j \in P THEN v[NameAt(message, j)] = ZeroOf(NameAt(message, j))
                              ELSE v[NameAt(message, j)] = u[NameAt(message, j)],
         NEW xs, xs = [j \in DOMAIN cs |-> IF j \in P THEN <<>> ELSE cs[j]]
  PROVE  Faithful(message, FlattenSeq(xs), v)
<1> DEFINE n == Len(cs)
           T == Seq(Bytes)
           A == [j \in 1 .. n |-> IF j \in P THEN {} ELSE {NameAt(message, j)}]
<1>1. /\ cs \in Seq(T) /\ DOMAIN cs = 1 .. n
      /\ DOMAIN cs = DOMAIN Schema[message]
  BY DEF Holds
<1>2. n \in Nat
  BY <1>1, LenProperties
<1>3. ASSUME NEW j \in 1 .. n PROVE cs[j] \in T
  <2> HIDE DEF T
  <2>1. QED
    BY ONLY <1>1, j \in 1 .. n
<1>4. xs \in Seq(T) /\ Len(xs) = n
  <2>1. <<>> \in T
    OBVIOUS
  <2> HIDE DEF T, n
  <2>2. xs \in [1 .. n -> T]
    BY ONLY <1>1, <1>3, <2>1, xs = [j \in DOMAIN cs |-> IF j \in P THEN <<>> ELSE cs[j]]
  <2>3. QED
    BY ONLY <1>2, <2>2, SeqOfFunction
<1> HIDE DEF T, n
<1>5. ASSUME NEW j \in 1 .. n
      PROVE  Carries(message, xs[j], v, A[j]) /\ A[j] \in SUBSET NamesIn(message)
  <2>1. CASE j \in P
    <3>1. xs[j] = <<>> /\ A[j] = {}
      BY ONLY <1>1, <2>1, j \in 1 .. n, xs = [k \in DOMAIN cs |-> IF k \in P THEN <<>> ELSE cs[k]]
    <3> HIDE DEF A
    <3>2. QED
      BY ONLY <3>1, CarriesNothing
  <2>2. CASE j \notin P
    <3> DEFINE m == NameAt(message, j)
    <3>1. xs[j] = cs[j] /\ A[j] = {m}
      BY ONLY <1>1, <2>2, j \in 1 .. n, xs = [k \in DOMAIN cs |-> IF k \in P THEN <<>> ELSE cs[k]]
    <3>2. v[m] = u[m]
      BY <1>1, <2>2
    <3>3. IsField(message, j, cs[j], u) /\ j \in DOMAIN Schema[message]
      BY <1>1 DEF Holds
    <3>4. Yields(message, cs[j], <<Entry(m, u[m])>>)
      BY ONLY <3>3 DEF IsField, NameAt
    <3>5. m \in NamesIn(message)
      BY ONLY <3>3 DEF NamesIn
    <3> HIDE DEF m, A
    <3>6. Carries(message, cs[j], v, {m})
      BY ONLY <3>2, <3>4, YieldsOne
    <3>7. QED
      BY ONLY <3>1, <3>5, <3>6
  <2>3. QED
    BY ONLY <2>1, <2>2
<1>6. ASSUME NEW m \in NamesIn(message)
      PROVE  v[m] = ZeroOf(m) \/ \E i \in 1 .. n : m \in A[i]
  <2>1. PICK j \in 1 .. n : m = NameAt(message, j)
    BY ONLY <1>1, m \in NamesIn(message) DEF NamesIn
  <2>2. CASE j \in P
    BY <1>1, <2>1, <2>2
  <2>3. CASE j \notin P
    BY ONLY <2>1, <2>3
  <2>4. QED
    BY ONLY <2>2, <2>3
<1> HIDE DEF A
<1>7. Pieces(message, xs, v, A) /\ Covers(message, A, Len(xs), v)
  BY ONLY <1>4, <1>5, <1>6 DEF Pieces, Covers
<1>8. QED
  BY ONLY <1>4, <1>7, RowFaithful
-----------------------------------------------------------------------------
(* Lengths.                                                                *)

Fits(cs, g) ==
  \A k \in 1 .. Len(cs) :
    g[k] \in Nat /\ Len(cs[k]) + (IF k = 1 THEN 0 ELSE g[k - 1]) <= g[k]

LEMMA FlattenFits ==
  ASSUME NEW S, NEW cs, cs \in Seq(Seq(S)), Len(cs) # 0, NEW g, Fits(cs, g)
  PROVE  /\ FlattenSeq(cs) \in Seq(S) /\ Len(FlattenSeq(cs)) \in Nat
         /\ Len(FlattenSeq(cs)) <= g[Len(cs)]
<1> DEFINE n == Len(cs)
           Z == Seq(S)
<1>1. n \in Nat
  BY LenProperties
<1>2. PICK f : /\ FlattenSeq(cs) = f[n]
               /\ f[1] = cs[1]
               /\ \A i \in 1 .. n : i # 1 => f[i] = f[i - 1] \o cs[i]
  BY <1>1, FlattenDef
<1>3. ASSUME NEW k \in 1 .. n
      PROVE  cs[k] \in Seq(S) /\ Len(cs[k]) \in Nat
  <2>1. DOMAIN cs = 1 .. n
    BY LenProperties
  <2> HIDE DEF n, Z
  <2>2. cs[k] \in Z
    BY ONLY <2>1, cs \in Seq(Z), k \in 1 .. n, ElementIn DEF Z
  <2>3. QED
    BY ONLY <2>2, LenProperties DEF Z
<1>4. \A k \in 1 .. n : g[k] \in Nat /\ Len(cs[k]) + (IF k = 1 THEN 0 ELSE g[k - 1]) <= g[k]
  BY DEF Fits
<1> DEFINE T == {k \in Nat : k + 1 <= n => f[k + 1] \in Seq(S) /\ Len(f[k + 1]) <= g[k + 1]}
<1> HIDE DEF n, Z
<1>5. 0 \in T
  <2>1. 1 \in 1 .. n
    BY ONLY <1>1, Len(cs) # 0 DEF n
  <2>2. f[1] \in Seq(S) /\ Len(f[1]) <= g[1]
    BY ONLY <1>2, <1>3, <1>4, <2>1
  <2>3. QED
    BY ONLY <2>2
<1>6. ASSUME NEW k \in T PROVE k + 1 \in T
  <2> DEFINE j == k + 1
  <2>1. k \in Nat /\ (j <= n => f[j] \in Seq(S) /\ Len(f[j]) <= g[j])
    OBVIOUS
  <2>2. ASSUME j + 1 <= n PROVE f[j + 1] \in Seq(S) /\ Len(f[j + 1]) <= g[j + 1]
    <3>1. j \in 1 .. n /\ j + 1 \in 1 .. n /\ j + 1 # 1 /\ (j + 1) - 1 = j /\ j <= n
      BY ONLY <1>1, <2>1, <2>2
    <3> HIDE DEF j
    <3>2. f[j] \in Seq(S) /\ Len(f[j]) <= g[j]
      BY ONLY <2>1, <3>1
    <3>3. f[j + 1] = f[j] \o cs[j + 1]
      BY ONLY <1>2, <3>1
    <3>4. cs[j + 1] \in Seq(S) /\ Len(cs[j + 1]) \in Nat
      BY ONLY <1>3, <3>1
    <3>5. f[j + 1] \in Seq(S) /\ Len(f[j + 1]) = Len(f[j]) + Len(cs[j + 1])
      BY ONLY <3>2, <3>3, <3>4, ConcatProperties
    <3>6. Len(f[j]) \in Nat
      BY ONLY <3>2, LenProperties
    <3>7. /\ g[j] \in Nat /\ g[j + 1] \in Nat
          /\ Len(cs[j + 1]) + g[j] <= g[j + 1]
      BY ONLY <1>4, <3>1
    <3>8. Len(f[j + 1]) <= g[j + 1]
      <4> DEFINE a == Len(f[j])
                 b == Len(cs[j + 1])
                 c == Len(f[j + 1])
                 x == g[j]
                 y == g[j + 1]
      <4>1. /\ a <= x /\ a \in Nat /\ b \in Nat /\ c = a + b /\ x \in Nat /\ y \in Nat
            /\ b + x <= y
        BY ONLY <3>2, <3>4, <3>5, <3>6, <3>7
      <4> HIDE DEF a, b, c, x, y
      <4>2. c <= y
        BY ONLY <4>1
      <4>3. QED
        BY ONLY <4>2 DEF c, y
    <3>9. QED
      BY ONLY <3>5, <3>8
  <2>3. QED
    BY ONLY <2>1, <2>2
<1>7. T \in SUBSET Nat
  OBVIOUS
<1> HIDE DEF T
<1>8. n - 1 \in T /\ (n - 1) + 1 = n
  <2>1. n - 1 \in Nat /\ (n - 1) + 1 = n
    BY ONLY <1>1, Len(cs) # 0 DEF n
  <2>2. QED
    BY ONLY <1>5, <1>6, <1>7, <2>1, SetInduction
<1>9. f[n] \in Seq(S) /\ Len(f[n]) <= g[n]
  BY ONLY <1>1, <1>8 DEF T
<1>10. Len(f[n]) \in Nat
  BY ONLY <1>9, LenProperties
<1>11. QED
  BY ONLY <1>2, <1>9, <1>10 DEF n

LEMMA VarintFieldLength ==
  ASSUME NEW n \in FieldNumbers, NEW w, w \in Words
  PROVE  /\ Len(VarintField(n, w)) \in Nat
         /\ Len(VarintField(n, w)) <= 20
         /\ n < 16 => /\ Len(VarintField(n, w)) <= 11
                      /\ w \in Uint32Words => Len(VarintField(n, w)) <= 6
                      /\ (\A k \in 2 .. 10 : w[k] = 0) => Len(VarintField(n, w)) <= 2
<1>1. /\ EncodeVarint(w) \in Seq(Bytes)
      /\ Len(EncodeVarint(w)) \in Nat /\ Len(EncodeVarint(w)) <= 10
      /\ \A m \in 1 .. 10 : (\A k \in m + 1 .. 10 : w[k] = 0) => Len(EncodeVarint(w)) <= m
  BY VarintType
<1>2. 0 \in 0 .. 7
  OBVIOUS
<1>3. /\ Len(Tag(n, 0)) \in Nat /\ Len(Tag(n, 0)) <= 10
      /\ n < 16 => Len(Tag(n, 0)) = 1
  BY ONLY <1>2, n \in FieldNumbers, TagType
<1>4. Len(VarintField(n, w)) = Len(Tag(n, 0)) + Len(EncodeVarint(w))
  BY ONLY <1>1, <1>2, n \in FieldNumbers, TagAndContent DEF VarintField
<1>5. ASSUME w \in Uint32Words PROVE Len(EncodeVarint(w)) <= 5
  <2>1. \A k \in 5 + 1 .. 10 : w[k] = 0
    BY <1>5 DEF Uint32Words
  <2>2. QED
    BY ONLY <1>1, <2>1
<1>6. ASSUME \A k \in 2 .. 10 : w[k] = 0 PROVE Len(EncodeVarint(w)) <= 1
  <2>1. \A k \in 1 + 1 .. 10 : w[k] = 0
    BY ONLY <1>6
  <2>2. QED
    BY ONLY <1>1, <2>1
<1> DEFINE v == Len(EncodeVarint(w))
           t == Len(Tag(n, 0))
<1> HIDE DEF v, t
<1>7. v \in Nat /\ v <= 10 /\ t \in Nat /\ t <= 10 /\ Len(VarintField(n, w)) = t + v
  BY ONLY <1>1, <1>3, <1>4 DEF v, t
<1>8. v + t \in Nat /\ v + t <= 20 /\ t + v \in Nat /\ t + v <= 20
  BY ONLY <1>7
<1>9. ASSUME n < 16
      PROVE  /\ Len(VarintField(n, w)) <= 11
             /\ w \in Uint32Words => Len(VarintField(n, w)) <= 6
             /\ (\A k \in 2 .. 10 : w[k] = 0) => Len(VarintField(n, w)) <= 2
  <2>1. t = 1
    BY ONLY <1>3, <1>9 DEF t
  <2>2. (w \in Uint32Words => v <= 5) /\ ((\A k \in 2 .. 10 : w[k] = 0) => v <= 1)
    BY ONLY <1>5, <1>6 DEF v
  <2>3. Len(VarintField(n, w)) <= 11
    BY ONLY <1>7, <2>1
  <2>4. ASSUME w \in Uint32Words PROVE Len(VarintField(n, w)) <= 6
    BY ONLY <1>7, <2>1, <2>2, <2>4
  <2>5. ASSUME \A k \in 2 .. 10 : w[k] = 0 PROVE Len(VarintField(n, w)) <= 2
    BY ONLY <1>7, <2>1, <2>2, <2>5
  <2>6. QED
    BY ONLY <2>3, <2>4, <2>5
<1>10. QED
  BY ONLY <1>7, <1>8, <1>9

LEMMA FloatFieldLength ==
  ASSUME NEW n \in FieldNumbers, n < 16, NEW s, s \in Floats
  PROVE  Len(FloatField(n, s)) = 5
<1>1. s \in Seq(Bytes) /\ Len(s) = 4
  BY DEF Floats
<1>2. 5 \in 0 .. 7
  OBVIOUS
<1>3. Len(Tag(n, 5)) = 1
  BY ONLY <1>2, n \in FieldNumbers, n < 16, TagType
<1>4. Len(FloatField(n, s)) = Len(Tag(n, 5)) + Len(s)
  <2>1. Len(Tag(n, 5) \o s) = Len(Tag(n, 5)) + Len(s)
    BY ONLY <1>1, <1>2, n \in FieldNumbers, TagAndContent
  <2>2. QED
    BY ONLY <2>1 DEF FloatField
<1> DEFINE a == Len(FloatField(n, s))
           t == Len(Tag(n, 5))
           l == Len(s)
<1>5. a = t + l /\ t = 1 /\ l = 4
  BY ONLY <1>1, <1>3, <1>4
<1> HIDE DEF a, t, l
<1>6. a = 5
  BY ONLY <1>5
<1>7. QED
  BY ONLY <1>6 DEF a

LEMMA StringFieldLength ==
  ASSUME NEW n, n \in FieldNumbers, NEW s, s \in Seq(Bytes), Len(s) < MaxSize
  PROVE  /\ StringField(n, s) \in Seq(Bytes)
         /\ Len(StringField(n, s)) \in Nat
         /\ Len(StringField(n, s)) <= 20 + Len(s)
         /\ n < 16 => /\ Len(StringField(n, s)) <= 11 + Len(s)
                      /\ Len(s) < 128 => Len(StringField(n, s)) = 2 + Len(s)
<1> DEFINE w == Word(Len(s))
           v == Len(EncodeVarint(w))
           t == Len(Tag(n, 2))
           l == Len(s)
<1>1. l \in Nat
  BY LenProperties
<1>2. w \in Words /\ Len(s) \in Nat35
  BY ONLY <1>1, Len(s) < MaxSize, LengthIsNat35
<1>3. /\ EncodeVarint(w) \in Seq(Bytes)
      /\ v \in Nat /\ v > 0 /\ v <= 10
      /\ \A m \in 1 .. 10 : (\A k \in m + 1 .. 10 : w[k] = 0) => v <= m
  BY ONLY <1>2, VarintType
<1>4. 2 \in 0 .. 7
  OBVIOUS
<1>5. t \in Nat /\ t <= 10 /\ (n < 16 => t = 1)
  BY ONLY <1>4, n \in FieldNumbers, TagType
<1>6. Counted(s) \in Seq(Bytes) /\ Len(Counted(s)) = v + l
  BY ONLY <1>3, s \in Seq(Bytes), ConcatProperties DEF Counted
<1>7. StringField(n, s) = Tag(n, 2) \o Counted(s)
  BY ONLY n \in FieldNumbers, s \in Seq(Bytes), Len(s) < MaxSize, StringFieldForm
<1>8. Len(StringField(n, s)) = t + (v + l) /\ StringField(n, s) \in Seq(Bytes)
  BY ONLY <1>4, <1>6, <1>7, n \in FieldNumbers, TagAndContent
<1>9. ASSUME l < 128 PROVE v = 1
  <2>1. w[2] = (l \div 128) % 128 /\ (l < 16384 => \A k \in 3 .. 10 : w[k] = 0)
    BY ONLY <1>2, WordOfNat
  <2>2. l < 16384 /\ (l \div 128) % 128 = 0
    BY ONLY <1>1, <1>9
  <2> HIDE DEF w, l
  <2>3. \A k \in 1 + 1 .. 10 : w[k] = 0
    BY ONLY <2>1, <2>2
  <2>4. v <= 1
    BY ONLY <1>3, <2>3, 1 \in 1 .. 10
  <2>5. v \in Nat /\ v > 0
    BY ONLY <1>3
  <2> HIDE DEF v
  <2>6. QED
    BY ONLY <2>4, <2>5
<1> HIDE DEF w, v, t, l
<1>10. /\ t + (v + l) \in Nat /\ t + (v + l) <= 20 + l
       /\ n < 16 => t + (v + l) <= 11 + l /\ (l < 128 => t + (v + l) = 2 + l)
  BY ONLY <1>1, <1>3, <1>5, <1>9
<1>11. QED
  BY ONLY <1>8, <1>10 DEF l
(* No section is as long as the lengths that are told apart.               *)
LEMMA SectionIsShort ==
  ASSUME NEW cs, cs \in Seq(Seq(Bytes)), Len(cs) # 0, Len(cs) <= 7,
         \A i \in 1 .. Len(cs) : Len(cs[i]) <= 2000
  PROVE  FlattenSeq(cs) \in Seq(Bytes) /\ Len(FlattenSeq(cs)) < MaxSize
<1> DEFINE g == [k \in 1 .. 7 |-> 2000 * k]
           n == Len(cs)
<1>1. n \in Nat
  BY LenProperties
<1>2. n \in 1 .. 7
  <2>1. n # 0 /\ n <= 7
    OBVIOUS
  <2> HIDE DEF n
  <2>2. QED
    BY ONLY <1>1, <2>1
<1>3. ASSUME NEW k \in 1 .. n
      PROVE  g[k] \in Nat /\ Len(cs[k]) + (IF k = 1 THEN 0 ELSE g[k - 1]) <= g[k]
  <2> DEFINE l == Len(cs[k])
  <2>1. l \in Nat /\ l <= 2000
    <3>1. k \in DOMAIN cs
      BY LenProperties
    <3>2. cs[k] \in Seq(Bytes)
      BY ONLY <3>1, cs \in Seq(Seq(Bytes)), ElementIn
    <3>3. QED
      BY <3>2, LenProperties
  <2> HIDE DEF l, n
  <2>2. k \in 1 .. 7 /\ (k # 1 => k - 1 \in 1 .. 7)
    BY ONLY <1>2, k \in 1 .. n
  <2>3. g[k] = 2000 * k /\ (k # 1 => g[k - 1] = 2000 * (k - 1))
    BY ONLY <2>2
  <2> HIDE DEF g
  <2>4. g[k] \in Nat /\ l + (IF k = 1 THEN 0 ELSE g[k - 1]) <= g[k]
    BY <2>1, <2>2, <2>3, SMT
  <2>5. QED
    BY ONLY <2>4 DEF l
<1>4. Fits(cs, g)
  <2> HIDE DEF g
  <2>1. QED
    BY ONLY <1>3 DEF Fits
<1>5. g[n] <= 14000 /\ g[n] \in Nat
  <2> HIDE DEF n
  <2>1. g[n] = 2000 * n
    BY ONLY <1>2
  <2> HIDE DEF g
  <2>2. QED
    BY <1>2, <2>1, SMT
<1> HIDE DEF g
<1>6. /\ FlattenSeq(cs) \in Seq(Bytes) /\ Len(FlattenSeq(cs)) \in Nat
      /\ Len(FlattenSeq(cs)) <= g[n]
  BY ONLY <1>4, cs \in Seq(Seq(Bytes)), Len(cs) # 0, FlattenFits
<1> DEFINE l == Len(FlattenSeq(cs))
           m == g[n]
<1> HIDE DEF l, n, m
<1>7. l \in Nat /\ l <= m /\ m <= 14000 /\ m \in Nat
  BY ONLY <1>5, <1>6 DEF l, m
<1>8. l < MaxSize
  BY <1>7, SMT DEF MaxSize
<1>9. QED
  BY ONLY <1>6, <1>8 DEF l

(* The lengths of the fields that the serializer writes.                   *)
ShortField(c) == Len(c) \in Nat /\ Len(c) <= 2000

LEMMA FieldIsShort ==
  ASSUME NEW n, n \in FieldNumbers
  PROVE  /\ \A w : w \in Words => ShortField(VarintField(n, w))
         /\ \A s : s \in Seq(Bytes) /\ Len(s) <= 1000 /\ Len(s) < MaxSize =>
              ShortField(StringField(n, s))
         /\ \A s, wire : s \in Seq(Bytes) /\ wire \in 0 .. 7 /\ Len(s) <= 8 =>
              ShortField(Tag(n, wire) \o s)
<1>1. ASSUME NEW w, w \in Words PROVE ShortField(VarintField(n, w))
  <2> DEFINE l == Len(VarintField(n, w))
  <2>1. l \in Nat /\ l <= 20
    BY ONLY <1>1, n \in FieldNumbers, VarintFieldLength
  <2> HIDE DEF l
  <2>2. l \in Nat /\ l <= 2000
    BY ONLY <2>1
  <2>3. QED
    BY ONLY <2>2 DEF ShortField, l
<1>2. ASSUME NEW s, s \in Seq(Bytes), Len(s) <= 1000, Len(s) < MaxSize
      PROVE  ShortField(StringField(n, s))
  <2> DEFINE l == Len(StringField(n, s))
             m == Len(s)
  <2>1. l \in Nat /\ l <= 20 + m
    BY ONLY <1>2, n \in FieldNumbers, StringFieldLength
  <2>2. m \in Nat /\ m <= 1000
    BY ONLY <1>2, LenProperties
  <2> HIDE DEF l, m
  <2>3. l \in Nat /\ l <= 2000
    BY ONLY <2>1, <2>2
  <2>4. QED
    BY ONLY <2>3 DEF ShortField, l
<1>3. ASSUME NEW s, NEW wire, s \in Seq(Bytes), wire \in 0 .. 7, Len(s) <= 8
      PROVE  ShortField(Tag(n, wire) \o s)
  <2> DEFINE l == Len(Tag(n, wire) \o s)
             t == Len(Tag(n, wire))
             m == Len(s)
  <2>1. t \in Nat /\ t <= 10
    BY ONLY <1>3, n \in FieldNumbers, TagType
  <2>2. l = t + m /\ m \in Nat /\ m <= 8
    BY ONLY <1>3, n \in FieldNumbers, TagAndContent
  <2> HIDE DEF l, t, m
  <2>3. l \in Nat /\ l <= 2000
    BY ONLY <2>1, <2>2
  <2>4. QED
    BY ONLY <2>3 DEF ShortField, l
<1>4. QED
  BY ONLY <1>1, <1>2, <1>3

ShortFields(cs) == \A i \in DOMAIN cs : ShortField(cs[i])

LEMMA SmallNumbers == \A n \in 1 .. 6 : n \in FieldNumbers
BY SMT DEF FieldNumbers

LEMMA SectionsAreShort ==
  ASSUME NEW d, DataOK(d)
  PROVE  ShortFields(HeaderFields(d)) /\ ShortFields(MetricsFields(d))
         /\ ShortFields(StatusFields(d))
<1> DEFINE fw == OrElse(d.firmware_version, FirstFirmware)
           id == OrElse(d.device_id, Unknown)
           e == StateEnum(d.state)
           r == Word(d.rssi)
<1>1. /\ 1 \in FieldNumbers /\ 2 \in FieldNumbers /\ 3 \in FieldNumbers
      /\ 4 \in FieldNumbers /\ 5 \in FieldNumbers /\ 6 \in FieldNumbers
  BY SmallNumbers
<1>2. /\ id \in Seq(Bytes) /\ Len(id) < MaxSize /\ Len(id) <= 1000
      /\ fw \in Seq(Bytes) /\ Len(fw) < MaxSize /\ Len(fw) <= 1000
  BY ONLY DataOK(d), StringSize DEF DataOK
<1>3. /\ d.timestamp \in Words /\ d.seq_no \in Words /\ d.boot_count \in Words
      /\ d.battery_level_pct \in Words /\ r \in Words /\ d.interval_sec \in Words
      /\ e \in Words /\ d.uptime_sec \in Words /\ d.free_heap_bytes \in Words
  BY ONLY DataOK(d), Uint32IsKept, WordOfInt, StateIsRead DEF DataOK
<1> HIDE DEF fw, id, e, r
<1>4. ShortFields(HeaderFields(d))
  <2> DEFINE cs == HeaderFields(d)
  <2>1. cs = <<StringField(1, id), VarintField(2, d.timestamp), VarintField(3, d.seq_no),
               StringField(4, fw), VarintField(5, d.boot_count)>>
    BY DEF HeaderFields, fw, id
  <2>2. /\ ShortField(StringField(1, id)) /\ ShortField(VarintField(2, d.timestamp))
        /\ ShortField(VarintField(3, d.seq_no)) /\ ShortField(StringField(4, fw))
        /\ ShortField(VarintField(5, d.boot_count))
    BY ONLY <1>1, <1>2, <1>3, FieldIsShort
  <2> HIDE DEF cs
  <2>3. \A i \in DOMAIN cs : ShortField(cs[i])
    BY ONLY <2>1, <2>2
  <2>4. QED
    BY ONLY <2>3 DEF ShortFields, cs
<1>5. ShortFields(MetricsFields(d))
  <2> DEFINE cs == MetricsFields(d)
  <2>1. cs = <<FloatField(1, d.temperature), FloatField(2, d.humidity),
               FloatField(3, d.battery_voltage), VarintField(4, d.battery_level_pct),
               VarintField(5, r), VarintField(6, d.interval_sec)>>
    BY DEF MetricsFields, r
  <2>2. /\ ShortField(VarintField(4, d.battery_level_pct)) /\ ShortField(VarintField(5, r))
        /\ ShortField(VarintField(6, d.interval_sec))
    BY ONLY <1>1, <1>3, FieldIsShort
  <2>3. ASSUME NEW n \in 1 .. 6, NEW s, s \in Floats PROVE ShortField(FloatField(n, s))
    <3>0. s \in Seq(Bytes) /\ Len(s) = 4
      BY ONLY <2>3 DEF Floats
    <3>1. s \in Seq(Bytes) /\ Len(s) <= 8 /\ 5 \in 0 .. 7 /\ n \in FieldNumbers
      BY ONLY <3>0, n \in 1 .. 6, SmallNumbers
    <3>2. ShortField(Tag(n, 5) \o s)
      BY ONLY <3>1, FieldIsShort
    <3>3. QED
      BY ONLY <3>2 DEF FloatField
  <2>4. /\ ShortField(FloatField(1, d.temperature)) /\ ShortField(FloatField(2, d.humidity))
        /\ ShortField(FloatField(3, d.battery_voltage))
    <3>1. d.temperature \in Floats /\ d.humidity \in Floats /\ d.battery_voltage \in Floats
      BY DEF DataOK
    <3>2. 1 \in 1 .. 6 /\ 2 \in 1 .. 6 /\ 3 \in 1 .. 6
      OBVIOUS
    <3>3. QED
      BY ONLY <2>3, <3>1, <3>2
  <2> HIDE DEF cs
  <2>5. \A i \in DOMAIN cs : ShortField(cs[i])
    BY ONLY <2>1, <2>2, <2>4
  <2>6. QED
    BY ONLY <2>5 DEF ShortFields, cs
<1>6. ShortFields(StatusFields(d))
  <2> DEFINE cs == StatusFields(d)
  <2>1. cs = <<VarintField(1, e), VarintField(2, d.uptime_sec),
               VarintField(3, d.free_heap_bytes)>>
    BY DEF StatusFields, e
  <2>2. /\ ShortField(VarintField(1, e)) /\ ShortField(VarintField(2, d.uptime_sec))
        /\ ShortField(VarintField(3, d.free_heap_bytes))
    BY ONLY <1>1, <1>3, FieldIsShort
  <2> HIDE DEF cs
  <2>3. \A i \in DOMAIN cs : ShortField(cs[i])
    BY ONLY <2>1, <2>2
  <2>4. QED
    BY ONLY <2>3 DEF ShortFields, cs
<1>7. QED
  BY ONLY <1>4, <1>5, <1>6

-----------------------------------------------------------------------------
(* The whole message.                                                      *)

(* A root of three sections.                                               *)
Bodies(sections) ==
  [header |-> FlattenSeq(sections[1]), metrics |-> FlattenSeq(sections[2]),
   status |-> FlattenSeq(sections[3])]

ShortBodies(bodies) ==
  \A m \in RootNames : bodies[m] \in Seq(Bytes) /\ Len(bodies[m]) < MaxSize

RootRow(bodies) ==
  <<StringField(1, bodies["header"]), StringField(2, bodies["metrics"]),
    StringField(3, bodies["status"])>>

LEMMA RootHolds ==
  ASSUME NEW bodies, ShortBodies(bodies)
  PROVE  Holds("root", RootRow(bodies), bodies)
<1> DEFINE cs == RootRow(bodies)
           h == bodies["header"]
           m == bodies["metrics"]
           s == bodies["status"]
           T == Seq(Bytes)
<1>1. /\ h \in Seq(Bytes) /\ Len(h) < MaxSize /\ m \in Seq(Bytes) /\ Len(m) < MaxSize
      /\ s \in Seq(Bytes) /\ Len(s) < MaxSize
  BY DEF ShortBodies, RootNames
<1>2. cs = <<StringField(1, h), StringField(2, m), StringField(3, s)>>
  BY DEF RootRow
<1>3. "message" \in {"string", "message"}
  OBVIOUS
<1>4. IsField("root", 1, cs[1], bodies)
  <2>1. IsField("root", 1, StringField(1, h), bodies)
    BY ONLY <1>1, <1>3, SchemaFields, StringIsField
  <2>2. QED
    BY ONLY <1>2, <2>1
<1>5. IsField("root", 2, cs[2], bodies)
  <2>1. IsField("root", 2, StringField(2, m), bodies)
    BY ONLY <1>1, <1>3, SchemaFields, StringIsField
  <2>2. QED
    BY ONLY <1>2, <2>1
<1>6. IsField("root", 3, cs[3], bodies)
  <2>1. IsField("root", 3, StringField(3, s), bodies)
    BY ONLY <1>1, <1>3, SchemaFields, StringIsField
  <2>2. QED
    BY ONLY <1>2, <2>1
<1>7. cs \in Seq(T) /\ Len(cs) = 3
  <2>1. cs[1] \in T /\ cs[2] \in T /\ cs[3] \in T
    BY ONLY <1>4, <1>5, <1>6 DEF IsField
  <2>2. cs = <<cs[1], cs[2], cs[3]>>
    BY ONLY <1>2
  <2> HIDE DEF cs, T
  <2>3. <<cs[1], cs[2], cs[3]>> \in Seq(T) /\ Len(<<cs[1], cs[2], cs[3]>>) = 3
    BY ONLY <2>1, ThreeElements
  <2>4. QED
    BY ONLY <2>2, <2>3, Zenon
<1> HIDE DEF cs
<1>8. DOMAIN cs = 1 .. 3
  <2>1. DOMAIN cs = 1 .. Len(cs)
    BY ONLY <1>7, LenProperties
  <2>2. QED
    BY ONLY <1>7, <2>1
<1>9. ASSUME NEW j \in 1 .. 3 PROVE IsField("root", j, cs[j], bodies)
  BY ONLY <1>4, <1>5, <1>6, j \in 1 .. 3
<1>10. QED
  BY ONLY <1>7, <1>8, <1>9, SchemaDomains DEF Holds, cs

(* A message that carries its sections as R, and nothing else.             *)
LEMMA DecodeFaithful ==
  ASSUME NEW b, NEW v, v = [n \in Names |-> v[n]],
         NEW bodies, NEW R, R \in SUBSET RootNames, Carries("root", b, bodies, R),
         \A m \in R : Faithful(m, bodies[m], v),
         \A m \in RootNames \ R : \A n \in NamesIn(m) : v[n] = ZeroOf(n)
  PROVE  Decode(b) = v
<1> DEFINE P(m, B) == /\ B \in SUBSET NamesIn(m) /\ Carries(m, bodies[m], v, B)
                      /\ \A n \in NamesIn(m) \ B : v[n] = ZeroOf(n)
           A == [m \in R |-> CHOOSE B : P(m, B)]
<1>1. ASSUME NEW m \in R PROVE P(m, A[m])
  <2>1. \E B : P(m, B)
    BY DEF Faithful
  <2> HIDE DEF P
  <2>2. QED
    BY ONLY <2>1, m \in R, Zenon
<1> HIDE DEF A
<1>2. Names = NamesIn("header") \cup NamesIn("metrics") \cup NamesIn("status")
  BY NamesInAre DEF Names
<1>3. \A m \in R : Carries(m, bodies[m], v, A[m]) /\ A[m] \in SUBSET Names
  BY <1>1, <1>2 DEF RootNames
<1>4. ASSUME NEW n \in Names, \A m \in R : n \notin A[m] PROVE v[n] = ZeroOf(n)
  <2>1. PICK m \in RootNames : n \in NamesIn(m)
    BY <1>2 DEF RootNames
  <2>2. CASE m \in R
    BY <1>1, <1>4, <2>1, <2>2
  <2>3. CASE m \notin R
    BY <2>1, <2>3
  <2>4. QED
    BY <2>2, <2>3
<1>5. b \in Seq(Bytes)
  BY DEF Carries
<1>6. QED
  BY <1>3, <1>4, <1>5, DecodeTold
LEMMA AssembleForm ==
  ASSUME NEW sections, DOMAIN sections = 1 .. 3
  PROVE  Assemble(sections) = FlattenSeq(RootRow(Bodies(sections)))
<1>1. [i \in DOMAIN sections |-> StringField(i, FlattenSeq(sections[i]))] =
        <<StringField(1, FlattenSeq(sections[1])), StringField(2, FlattenSeq(sections[2])),
          StringField(3, FlattenSeq(sections[3]))>>
  OBVIOUS
<1>2. /\ Bodies(sections)["header"] = FlattenSeq(sections[1])
      /\ Bodies(sections)["metrics"] = FlattenSeq(sections[2])
      /\ Bodies(sections)["status"] = FlattenSeq(sections[3])
  BY DEF Bodies
<1>3. QED
  BY <1>1, <1>2, Zenon DEF Assemble, RootRow

LEMMA RootCarries ==
  ASSUME NEW bodies, ShortBodies(bodies)
  PROVE  Carries("root", FlattenSeq(RootRow(bodies)), bodies, RootNames)
<1>1. Holds("root", RootRow(bodies), bodies)
  BY RootHolds
<1>2. QED
  BY ONLY <1>1, InOrder, NamesInAre

(* The sections of d hold its values.                                      *)
HoldsAll(sections, v) ==
  /\ DOMAIN sections = 1 .. 3
  /\ Holds("header", sections[1], v) /\ Holds("metrics", sections[2], v)
  /\ Holds("status", sections[3], v)
  /\ \A i \in 1 .. 3 : /\ ShortFields(sections[i])
                       /\ Len(sections[i]) \in Nat /\ Len(sections[i]) # 0
                       /\ Len(sections[i]) <= 6

LEMMA SectionsHold ==
  ASSUME NEW d, DataOK(d), NEW v, Measured(v, d), v["state"] = StateRead(d)
  PROVE  HoldsAll(Sections(d), v)
<1>1. /\ DOMAIN Sections(d) = 1 .. 3 /\ Sections(d)[1] = HeaderFields(d)
      /\ Sections(d)[2] = MetricsFields(d) /\ Sections(d)[3] = StatusFields(d)
  BY DEF Sections
<1>2. /\ Holds("header", HeaderFields(d), v) /\ Holds("metrics", MetricsFields(d), v)
      /\ Holds("status", StatusFields(d), v)
  BY HeaderHolds, MetricsHolds, StatusHolds
<1>3. /\ ShortFields(HeaderFields(d)) /\ ShortFields(MetricsFields(d))
      /\ ShortFields(StatusFields(d))
  BY SectionsAreShort
<1>4. /\ Len(HeaderFields(d)) = 5 /\ Len(MetricsFields(d)) = 6 /\ Len(StatusFields(d)) = 3
  BY DEF HeaderFields, MetricsFields, StatusFields
<1> DEFINE h == HeaderFields(d)
           m == MetricsFields(d)
           s == StatusFields(d)
           ss == Sections(d)
<1> HIDE DEF h, m, s, ss
<1>5. ASSUME NEW i \in 1 .. 3
      PROVE  /\ ShortFields(ss[i])
             /\ Len(ss[i]) \in Nat /\ Len(ss[i]) # 0 /\ Len(ss[i]) <= 6
  <2>1. ss[1] = h /\ ss[2] = m /\ ss[3] = s
    BY ONLY <1>1 DEF h, m, s, ss
  <2>2. /\ ShortFields(h) /\ ShortFields(m) /\ ShortFields(s)
        /\ Len(h) = 5 /\ Len(m) = 6 /\ Len(s) = 3
    BY ONLY <1>3, <1>4 DEF h, m, s
  <2> DEFINE short(x) == ShortFields(x) /\ Len(x) \in Nat /\ Len(x) # 0 /\ Len(x) <= 6
  <2>3. short(h)
    BY ONLY <2>2
  <2>4. short(m)
    BY ONLY <2>2
  <2>5. short(s)
    BY ONLY <2>2
  <2> HIDE DEF short
  <2>6. short(ss[i])
    BY ONLY <2>1, <2>3, <2>4, <2>5, i \in 1 .. 3
  <2>7. QED
    BY ONLY <2>6 DEF short
<1>6. QED
  BY ONLY <1>1, <1>2, <1>5 DEF HoldsAll, ss

LEMMA RowIsShort ==
  ASSUME NEW message, NEW v, NEW cs, Holds(message, cs, v), ShortFields(cs),
         Len(cs) # 0, Len(cs) <= 6
  PROVE  FlattenSeq(cs) \in Seq(Bytes) /\ Len(FlattenSeq(cs)) < MaxSize
<1>1. cs \in Seq(Seq(Bytes)) /\ DOMAIN cs = 1 .. Len(cs)
  BY DEF Holds
<1>2. \A i \in 1 .. Len(cs) : Len(cs[i]) <= 2000
  <2>1. \A i \in DOMAIN cs : Len(cs[i]) <= 2000
    BY ONLY ShortFields(cs) DEF ShortFields, ShortField
  <2>2. QED
    BY ONLY <2>1, <1>1
<1>3. Len(cs) \in Nat
  BY <1>1, LenProperties
<1> DEFINE n == Len(cs)
<1>4. n <= 7
  <2>1. n \in Nat /\ n <= 6
    BY <1>3
  <2> HIDE DEF n
  <2>2. QED
    BY ONLY <2>1
<1>5. QED
  BY ONLY <1>1, <1>2, <1>4, Len(cs) # 0, SectionIsShort

LEMMA BodiesAre ==
  ASSUME NEW sections, NEW v, HoldsAll(sections, v)
  PROVE  /\ ShortBodies(Bodies(sections))
         /\ \A m \in RootNames : Carries(m, Bodies(sections)[m], v, NamesIn(m))
<1>1. /\ Bodies(sections)["header"] = FlattenSeq(sections[1])
      /\ Bodies(sections)["metrics"] = FlattenSeq(sections[2])
      /\ Bodies(sections)["status"] = FlattenSeq(sections[3])
  BY DEF Bodies
<1>2. /\ Holds("header", sections[1], v) /\ Holds("metrics", sections[2], v)
      /\ Holds("status", sections[3], v)
  BY DEF HoldsAll
<1>3. ASSUME NEW i \in 1 .. 3, NEW m, Holds(m, sections[i], v)
      PROVE  /\ FlattenSeq(sections[i]) \in Seq(Bytes)
             /\ Len(FlattenSeq(sections[i])) < MaxSize
             /\ Carries(m, FlattenSeq(sections[i]), v, NamesIn(m))
  <2>1. /\ ShortFields(sections[i])
        /\ Len(sections[i]) # 0 /\ Len(sections[i]) <= 6
    BY DEF HoldsAll
  <2>2. QED
    BY ONLY <1>3, <2>1, RowIsShort, InOrder
<1>4. /\ FlattenSeq(sections[1]) \in Seq(Bytes) /\ Len(FlattenSeq(sections[1])) < MaxSize
      /\ Carries("header", FlattenSeq(sections[1]), v, NamesIn("header"))
  BY ONLY <1>2, <1>3, 1 \in 1 .. 3
<1>5. /\ FlattenSeq(sections[2]) \in Seq(Bytes) /\ Len(FlattenSeq(sections[2])) < MaxSize
      /\ Carries("metrics", FlattenSeq(sections[2]), v, NamesIn("metrics"))
  BY ONLY <1>2, <1>3, 2 \in 1 .. 3
<1>6. /\ FlattenSeq(sections[3]) \in Seq(Bytes) /\ Len(FlattenSeq(sections[3])) < MaxSize
      /\ Carries("status", FlattenSeq(sections[3]), v, NamesIn("status"))
  BY ONLY <1>2, <1>3, 3 \in 1 .. 3
<1> DEFINE bodies == Bodies(sections)
<1>7. ASSUME NEW m \in RootNames
      PROVE  /\ bodies[m] \in Seq(Bytes) /\ Len(bodies[m]) < MaxSize
             /\ Carries(m, bodies[m], v, NamesIn(m))
  <2>1. m = "header" \/ m = "metrics" \/ m = "status"
    BY DEF RootNames
  <2> HIDE DEF bodies
  <2>2. /\ bodies["header"] = FlattenSeq(sections[1])
        /\ bodies["metrics"] = FlattenSeq(sections[2])
        /\ bodies["status"] = FlattenSeq(sections[3])
    BY ONLY <1>1 DEF bodies
  <2>3. QED
    BY ONLY <1>4, <1>5, <1>6, <2>1, <2>2
<1> HIDE DEF bodies
<1>8. ShortBodies(bodies)
  BY ONLY <1>7 DEF ShortBodies
<1>9. QED
  BY ONLY <1>7, <1>8 DEF bodies

(* DecodeTelemetryProtobuf of what serialize_telemetry_protobuf wrote.     *)
LEMMA EncodeIsRead ==
  ASSUME NEW d, DataOK(d), NEW v, Measured(v, d), v["state"] = StateRead(d)
  PROVE  /\ Carries("root", Encode(d), Bodies(Sections(d)), RootNames)
         /\ Decode(Encode(d)) = v
<1> DEFINE bodies == Bodies(Sections(d))
           ss == Sections(d)
<1>1. HoldsAll(ss, v)
  BY SectionsHold
<1> HIDE DEF ss
<1>2. /\ ShortBodies(Bodies(ss)) /\ DOMAIN ss = 1 .. 3
      /\ \A m \in RootNames : Carries(m, Bodies(ss)[m], v, NamesIn(m))
  BY ONLY <1>1, BodiesAre DEF HoldsAll
<1>3. \A m \in RootNames : Faithful(m, Bodies(ss)[m], v)
  BY ONLY <1>2, WhollyFaithful
<1>4. Assemble(ss) = FlattenSeq(RootRow(Bodies(ss)))
  BY ONLY <1>2, AssembleForm
<1>5. Carries("root", Assemble(ss), Bodies(ss), RootNames)
  BY ONLY <1>2, <1>4, RootCarries
<1>6. Decode(Assemble(ss)) = v
  <2>1. v = [n \in Names |-> v[n]]
    BY DEF Measured
  <2>2. QED
    BY ONLY <1>3, <1>5, <2>1, DecodeFaithful
<1>7. QED
  BY ONLY <1>5, <1>6 DEF Encode, ss

-----------------------------------------------------------------------------
(* A message that was cut off.                                             *)

(* b ends within the bytes s, which begin at p.                            *)
CutOff(b, p, s) ==
  /\ p <= Len(b) /\ Len(b) + 1 < p + Len(s)
  /\ \A i \in 1 .. Len(s) : p + i - 1 <= Len(b) => b[p + i - 1] = s[i]

(* Within a varint every byte says that another one follows.               *)
LEMMA CutVarint ==
  ASSUME NEW w, w \in Words, NEW b, b \in Seq(Bytes), NEW p \in Nat, p > 0,
         CutOff(b, p, EncodeVarint(w)) \/ p = Len(b) + 1
  PROVE  ReadUvarint(b, p) = Failed
<1>1. PICK n \in 1 .. 10 :
           /\ EncodeVarint(w) \in Seq(Bytes) /\ Len(EncodeVarint(w)) = n
           /\ \A k \in 1 .. n : EncodeVarint(w)[k] = IF k < n THEN w[k] + 128 ELSE w[k]
  BY VarintForm
<1>2. Len(b) \in Nat
  BY LenProperties
<1>3. w \in [1 .. 10 -> 0 .. 127]
  BY WordType
<1> DEFINE len == Len(b)
           ends == Ends(b, p, len)
<1>4. ASSUME NEW k \in p .. len PROVE ~ (b[k] < 128)
  <2>1. CutOff(b, p, EncodeVarint(w))
    BY <1>2
  <2>2. /\ len + 1 < p + n
        /\ \A i \in 1 .. n : p + i - 1 <= len => b[p + i - 1] = EncodeVarint(w)[i]
    BY ONLY <1>1, <2>1 DEF CutOff
  <2>3. k - p + 1 \in 1 .. n /\ k - p + 1 < n /\ p + (k - p + 1) - 1 = k /\ k - p + 1 \in 1 .. 10
    <3>1. len \in Nat /\ len + 1 < p + n /\ p \in Nat /\ n \in 1 .. 10 /\ p <= k /\ k <= len
          /\ k \in Int
      BY ONLY <1>2, <2>2, p \in Nat, k \in p .. len, n \in 1 .. 10
    <3> HIDE DEF len
    <3>2. k - p + 1 < n /\ k - p + 1 >= 1 /\ k - p + 1 \in Int /\ p + (k - p + 1) - 1 = k
      BY ONLY <3>1
    <3>3. QED
      BY ONLY <3>1, <3>2
  <2>4. b[k] = w[k - p + 1] + 128
    BY ONLY <1>1, <2>2, <2>3, k \in p .. len
  <2>5. w[k - p + 1] \in 0 .. 127
    BY ONLY <1>3, <2>3
  <2> DEFINE x == w[k - p + 1]
  <2>6. b[k] = x + 128 /\ x \in 0 .. 127
    BY ONLY <2>4, <2>5
  <2> HIDE DEF x
  <2>7. QED
    BY ONLY <2>6
<1>5. ends = {}
  BY ONLY <1>4 DEF Ends
<1>6. ReadUvarint(b, p) =
        IF ends = {} \/ Min(ends) - p > 9 \/ (Min(ends) - p = 9 /\ b[Min(ends)] > 1) THEN Failed
        ELSE Got(Groups(b, p, Min(ends)), Min(ends) + 1)
  BY DEF ReadUvarint, Ends, Groups
<1> HIDE DEF ends
<1>7. QED
  BY ONLY <1>5, <1>6

(* Within a nested message the root ends with an error.                    *)
LEMMA CutSection ==
  ASSUME NEW n, NEW name, HasField("root", n, name, "message"),
         NEW s, s \in Seq(Bytes), Len(s) < MaxSize,
         NEW b, b \in Seq(Bytes), NEW p \in Nat, p > 0, CutOff(b, p, StringField(n, s))
  PROVE  Tagged("root", b, p) = Stop(<<Bad>>)
<1> DEFINE tag == Tag(n, 2)
           count == EncodeVarint(Word(Len(s)))
           c == StringField(n, s)
           len == Len(b)
           l == Len(s)
           k == Len(count)
<1>1. n \in FieldNumbers /\ n < 16 /\ 2 \in 0 .. 7
  BY SMT DEF HasField, FieldNumbers
<1>2. tag \in Seq(Bytes) /\ Len(tag) = 1
  BY ONLY <1>1, TagType
<1>3. Word(Len(s)) \in Words /\ Size(Word(Len(s))) = Len(s) /\ Len(s) \in Nat
  BY LengthIsNat35, LenProperties
<1>4. count \in Seq(Bytes) /\ k \in Nat /\ k > 0
  BY ONLY <1>3, VarintType
<1>5. len \in Nat
  BY LenProperties
<1> DEFINE rest == count \o s
<1>6. c = tag \o rest
  BY ONLY <1>1, StringFieldForm, s \in Seq(Bytes), Len(s) < MaxSize DEF Counted
<1> HIDE DEF tag, count, c
<1>7. /\ rest \in Seq(Bytes) /\ Len(rest) = k + l
      /\ \A i \in 1 .. k : rest[i] = count[i]
  <2>1. /\ Len(count \o s) = Len(count) + Len(s)
        /\ \A i \in 1 .. Len(count) + Len(s) :
             (count \o s)[i] = IF i <= Len(count) THEN count[i] ELSE s[i - Len(count)]
    BY ONLY <1>4, s \in Seq(Bytes), ConcatProperties
  <2>2. count \o s \in Seq(Bytes)
    BY ONLY <1>4, s \in Seq(Bytes), ConcatProperties
  <2>3. QED
    BY ONLY <1>3, <1>4, <2>1, <2>2
<1> HIDE DEF rest
<1>8. /\ Len(c) = 1 + (k + l) /\ c[1] = tag[1]
      /\ \A i \in 1 .. k + l : c[1 + i] = rest[i]
  <2>1. /\ Len(tag \o rest) = Len(tag) + Len(rest)
        /\ \A i \in 1 .. Len(tag) + Len(rest) :
             (tag \o rest)[i] = IF i <= Len(tag) THEN tag[i] ELSE rest[i - Len(tag)]
    <3>1. tag \in Seq(Bytes) /\ rest \in Seq(Bytes)
      BY ONLY <1>2, <1>7
    <3>2. QED
      BY ONLY <3>1, ConcatProperties
  <2> HIDE DEF k, l
  <2>2. k + l \in Nat
    BY ONLY <1>3, <1>4 DEF l
  <2>3. ASSUME NEW i \in 1 .. k + l PROVE c[1 + i] = rest[i]
    <3>1. (1 + i) - 1 = i /\ 1 + i \in 1 .. 1 + (k + l) /\ ~ (1 + i <= 1)
      BY ONLY <2>2, i \in 1 .. k + l
    <3>2. QED
      BY ONLY <1>2, <1>6, <1>7, <2>1, <3>1
  <2>4. QED
    BY ONLY <1>2, <1>6, <1>7, <2>1, <2>2, <2>3
<1> HIDE DEF k, l
<1>9. /\ p <= len /\ len + 1 < p + (1 + (k + l))
      /\ \A i \in 1 .. 1 + (k + l) : p + i - 1 <= len => b[p + i - 1] = c[i]
  BY ONLY <1>8, CutOff(b, p, StringField(n, s)) DEF CutOff, c
<1>10. k + l \in Nat /\ l \in Nat /\ k \in Nat /\ k > 0
  BY ONLY <1>3, <1>4 DEF l
<1>11. At(b, p, tag)
  <2>1. 1 \in 1 .. 1 + (k + l) /\ p + 1 - 1 = p
    BY ONLY <1>10, p \in Nat
  <2>2. b[p] = tag[1]
    BY ONLY <1>8, <1>9, <2>1
  <2>3. QED
    BY ONLY <1>2, <1>5, <1>9, <2>1, <2>2, p \in Nat DEF At
<1> DEFINE q == p + 1
<1>12. Tagged("root", b, p) = FieldRead(name, ReadString(b, q))
  <2>1. Tagged("root", b, p) = FieldRead(name, ReadField("message", b, p + Len(tag)))
    BY ONLY <1>1, <1>11, KnownTag, HasField("root", n, name, "message"), b \in Seq(Bytes),
            p \in Nat, p > 0, SMTT(40) DEF tag
  <2>2. \A r : ReadField("message", b, r) = ReadString(b, r)
    BY DEF ReadField
  <2>3. QED
    BY ONLY <1>2, <2>1, <2>2
<1>13. q \in Nat /\ q > 0 /\ q <= len + 1
  BY ONLY <1>5, <1>9, p \in Nat
<1>14. ASSUME NEW i \in 1 .. k, q + i - 1 <= len PROVE b[q + i - 1] = count[i]
  <2>1. 1 + i \in 1 .. 1 + (k + l) /\ p + (1 + i) - 1 = q + i - 1 /\ i \in 1 .. k + l
    BY ONLY <1>10, i \in 1 .. k, p \in Nat
  <2>2. QED
    BY ONLY <1>7, <1>8, <1>9, <1>14, <2>1
<1>15. len + 1 < q + (k + l)
  BY ONLY <1>5, <1>9, <1>10, p \in Nat
<1> HIDE DEF q
<1>16. ReadString(b, q) = Failed
  <2>1. CASE len + 1 < q + k
    <3>1. CutOff(b, q, count) \/ q = len + 1
      BY ONLY <1>5, <1>13, <1>14, <2>1, SMTT(40) DEF CutOff, k
    <3>2. ReadUvarint(b, q) = Failed
      BY ONLY <1>3, <1>13, <3>1, b \in Seq(Bytes), CutVarint DEF count
    <3>3. QED
      BY ONLY <3>2 DEF ReadString, Failed
  <2>2. CASE ~ (len + 1 < q + k)
    <3>1. At(b, q, count)
      <4>1. ASSUME NEW i \in 1 .. k PROVE b[q + i - 1] = count[i]
        BY ONLY <1>5, <1>10, <1>13, <1>14, <2>2, i \in 1 .. k
      <4>2. QED
        BY ONLY <1>5, <1>10, <1>13, <2>2, <4>1 DEF At, k
    <3>2. ReadUvarint(b, q) = Got(Word(Len(s)), q + k)
      BY ONLY <1>3, <1>13, <3>1, b \in Seq(Bytes), VarintIsRead DEF count, k
    <3>3. ReadBytes(b, q + k, l) = Failed
      <4>1. (q + k) + l - 1 > len
        BY ONLY <1>5, <1>10, <1>13, <1>15
      <4>2. QED
        BY ONLY <4>1 DEF ReadBytes
    <3>4. QED
      BY ONLY <1>3, <3>2, <3>3 DEF ReadString, Got, l
  <2>3. QED
    BY ONLY <2>1, <2>2
<1>17. QED
  BY ONLY <1>12, <1>16 DEF FieldRead, Failed

LEMMA CarriesSame ==
  ASSUME NEW message, NEW c, NEW v, NEW u, NEW A, Carries(message, c, v, A),
         \A n \in A : u[n] = v[n]
  PROVE  Carries(message, c, u, A)
<1>1. Told(u, A) = Told(v, A)
  BY DEF Told
<1>2. QED
  BY ONLY <1>1, Carries(message, c, v, A) DEF Carries, Tells

(* A root that goes wrong behind some of its sections.                     *)
LEMMA DecodeBroken ==
  ASSUME NEW pre, NEW bodies, NEW R, R \in SUBSET RootNames, Carries("root", pre, bodies, R),
         NEW v, NEW A, \A m \in R : Carries(m, bodies[m], v, A[m]) /\ A[m] \in SUBSET Names,
         NEW b, b \in Seq(Bytes), At(b, 1, pre), Len(pre) < Len(b),
         Tagged("root", b, Len(pre) + 1) = Stop(<<Bad>>)
  PROVE  Decode(b) = Invalid
<1> DEFINE p == Len(pre) + 1
           E == RootNames \cup {"error"}
           all == [m \in E |-> IF m = "error" THEN <<>> ELSE bodies[m]]
           u == [n \in Names \cup {"error"} |-> IF n = "error" THEN <<>> ELSE v[n]]
           B == [m \in E |-> IF m = "error" THEN {m} ELSE A[m]]
           Q == R \cup {"error"}
<1>1. "error" \notin RootNames /\ "error" \notin Names
  BY FieldNames DEF RootNames
<1>2. /\ \A m \in RootNames : all[m] = bodies[m] /\ B[m] = A[m]
      /\ all["error"] = <<>> /\ B["error"] = {"error"} /\ u["error"] = <<>>
      /\ \A n \in Names : u[n] = v[n]
  BY ONLY <1>1
<1>3. /\ p \in Nat /\ p > 0 /\ p <= Len(b) /\ p <= Len(b) + 1 /\ p = 1 + Len(pre)
      /\ 1 \in Nat /\ 1 > 0
  <2>1. Len(pre) \in Nat /\ Len(b) \in Nat
    BY LenProperties DEF Carries
  <2>2. QED
    BY ONLY <2>1, Len(pre) < Len(b)
<1>4. PICK f : Reads("root", pre, f) /\ Tells(f, bodies, R)
  BY DEF Carries
<1>5. f \in Seq(Told(bodies, R))
  BY ONLY <1>4 DEF Tells
<1> HIDE DEF p, all, u, B
<1>6. Rest("root", b)[p] = <<Bad>>
  <2>1. Rest("root", b)[p] = RestBody("root", b, Rest("root", b), p)
    BY ONLY <1>3, b \in Seq(Bytes), RestDef
  <2>2. Tagged("root", b, p).fields = <<Bad>> /\ Tagged("root", b, p).next = 0
    BY DEF p, Stop, Found
  <2>3. ~ (p > Len(b))
    <3>1. Len(b) \in Nat
      BY LenProperties
    <3>2. QED
      BY ONLY <1>3, <3>1
  <2>4. Rest("root", b)[p] = <<Bad>> \o <<>>
    BY ONLY <2>1, <2>2, <2>3 DEF RestBody
  <2>5. <<Bad>> \in Seq({Bad})
    OBVIOUS
  <2>6. QED
    BY ONLY <2>4, <2>5, ConcatEmptySeq
<1>7. Parse("root", b) = f \o <<Bad>>
  <2>1. Rest("root", b)[1] = f \o Rest("root", b)[1 + Len(pre)]
    BY ONLY <1>3, <1>4, b \in Seq(Bytes), At(b, 1, pre) DEF Reads
  <2>2. QED
    BY ONLY <1>3, <1>6, <2>1 DEF Parse
<1>8. Tells(f \o <<Bad>>, all, Q)
  <2>1. Told(all, R) = Told(bodies, R)
    BY ONLY <1>2, R \in SUBSET RootNames DEF Told
  <2>2. Tells(f, all, R)
    BY ONLY <1>4, <2>1 DEF Tells
  <2>3. Bad = Entry("error", all["error"])
    BY ONLY <1>2, BadIsEntry
  <2>4. Tells(<<Bad>>, all, {"error"})
    BY ONLY <2>3, TellsOne
  <2>5. QED
    BY ONLY <2>2, <2>4, TellsBoth
<1>9. ASSUME NEW m \in Q PROVE SectionTold(m, all, u, B)
  <2>1. CASE m = "error"
    BY ONLY <1>2, <2>1 DEF SectionTold
  <2>2. CASE m # "error"
    <3>1. m \in R /\ m \in RootNames
      BY ONLY <2>2, m \in Q, R \in SUBSET RootNames
    <3>2. Carries(m, bodies[m], v, A[m]) /\ \A n \in A[m] : u[n] = v[n]
      BY <1>2, <3>1
    <3>3. Carries(m, bodies[m], u, A[m])
      BY ONLY <3>2, CarriesSame
    <3>4. QED
      BY ONLY <1>2, <2>2, <3>1, <3>3 DEF SectionTold
  <2>3. QED
    BY ONLY <2>1, <2>2
<1>10. Tells(Nested(f \o <<Bad>>), u, All(B, Q))
  BY ONLY <1>8, <1>9, NestedTells
<1>11. "error" \in All(B, Q)
  BY ONLY <1>2 DEF All
<1>12. QED
  BY ONLY <1>7, <1>10, <1>11, CollectBad DEF Decode

(* What is left of a row of three when it is cut.                          *)
LEMMA ThreeJoined ==
  ASSUME NEW ss, Len(ss) = 3
  PROVE  FlattenSeq(ss) = (ss[1] \o ss[2]) \o ss[3]
<1>1. PICK f : /\ FlattenSeq(ss) = f[Len(ss)]
               /\ f[1] = ss[1]
               /\ \A i \in 1 .. Len(ss) : i # 1 => f[i] = f[i - 1] \o ss[i]
  <2>1. Len(ss) \in Nat /\ Len(ss) # 0
    OBVIOUS
  <2>2. QED
    BY ONLY <2>1, FlattenDef
<1>2. f[2] = f[1] \o ss[2] /\ f[3] = f[2] \o ss[3]
  <2>1. 2 \in 1 .. Len(ss) /\ 2 # 1 /\ 2 - 1 = 1 /\ 3 \in 1 .. Len(ss) /\ 3 # 1 /\ 3 - 1 = 2
    OBVIOUS
  <2>2. QED
    BY ONLY <1>1, <2>1
<1>3. QED
  BY ONLY <1>1, <1>2, Len(ss) = 3

(* The values of the sections R.                                           *)
Part(v, R) == [n \in Names |-> IF \E m \in R : n \in NamesIn(m) THEN v[n] ELSE ZeroOf(n)]

LEMMA PartIs ==
  ASSUME NEW v, NEW R \in SUBSET RootNames
  PROVE  /\ Part(v, R) = [n \in Names |-> Part(v, R)[n]]
         /\ \A m \in R : NamesIn(m) \in SUBSET Names /\ \A n \in NamesIn(m) : Part(v, R)[n] = v[n]
         /\ \A m \in RootNames \ R : /\ NamesIn(m) \in SUBSET Names
                                     /\ \A n \in NamesIn(m) : Part(v, R)[n] = ZeroOf(n)
<1>1. ASSUME NEW m \in RootNames
      PROVE  NamesIn(m) \in SUBSET Names
  BY NamesInAre DEF RootNames, Names
<1>2. ASSUME NEW m \in RootNames, NEW k \in RootNames, m # k
      PROVE  NamesIn(m) \cap NamesIn(k) = {}
  <2>1. /\ HeaderNames \cap MetricsNames = {} /\ HeaderNames \cap StatusNames = {}
        /\ MetricsNames \cap StatusNames = {}
    BY DEF HeaderNames, MetricsNames, StatusNames
  <2>2. m \in {"header", "metrics", "status"} /\ k \in {"header", "metrics", "status"}
    BY DEF RootNames
  <2>3. QED
    BY ONLY <2>1, <2>2, m # k, NamesInAre
<1>3. ASSUME NEW n \in Names
      PROVE  Part(v, R)[n] = IF \E m \in R : n \in NamesIn(m) THEN v[n] ELSE ZeroOf(n)
  BY DEF Part
<1>4. Part(v, R) = [n \in Names |-> Part(v, R)[n]]
  BY DEF Part
<1>5. QED
  BY ONLY <1>1, <1>2, <1>3, <1>4, R \in SUBSET RootNames

LEMMA PartIsRead ==
  ASSUME NEW bodies, NEW v, NEW R \in SUBSET RootNames,
         \A m \in R : Carries(m, bodies[m], v, NamesIn(m)),
         NEW b, Carries("root", b, bodies, R)
  PROVE  Decode(b) = Part(v, R)
<1> DEFINE u == Part(v, R)
<1>1. /\ u = [n \in Names |-> u[n]]
      /\ \A m \in R : \A n \in NamesIn(m) : u[n] = v[n]
      /\ \A m \in RootNames \ R : \A n \in NamesIn(m) : u[n] = ZeroOf(n)
  BY PartIs
<1> HIDE DEF u
<1>2. \A m \in R : Carries(m, bodies[m], u, NamesIn(m))
  BY <1>1, CarriesSame
<1>3. \A m \in R : Faithful(m, bodies[m], u)
  BY <1>2, WhollyFaithful
<1>4. Decode(b) = u
  BY ONLY <1>1, <1>3, Carries("root", b, bodies, R), R \in SUBSET RootNames, DecodeFaithful
<1>5. QED
  BY <1>4 DEF u

LEMMA Prefix ==
  ASSUME NEW S, NEW c, c \in Seq(S), NEW n \in Nat, n <= Len(c)
  PROVE  /\ SubSeq(c, 1, n) \in Seq(S) /\ Len(SubSeq(c, 1, n)) = n
         /\ \A i \in 1 .. n : SubSeq(c, 1, n)[i] = c[i]
<1>1. Len(c) \in Nat /\ \A i \in 1 .. Len(c) : c[i] \in S
  BY LenProperties, ElementOfSeq
<1>2. /\ Len(SubSeq(c, 1, n)) = IF 1 <= n THEN n - 1 + 1 ELSE 0
      /\ SubSeq(c, 1, n) \in Seq(S)
      /\ \A i \in 1 .. n - 1 + 1 : SubSeq(c, 1, n)[i] = c[1 + i - 1]
  <2>1. 1 \in 1 .. Len(c) + 1 /\ n \in 1 - 1 .. Len(c)
    BY <1>1
  <2>2. QED
    BY ONLY <2>1, c \in Seq(S), SubSeqProperties
<1>3. \A i \in 1 .. n : 1 + i - 1 = i /\ i \in 1 .. n - 1 + 1
  BY <1>1
<1>4. Len(SubSeq(c, 1, n)) = n
  BY ONLY <1>2, n \in Nat
<1>5. QED
  BY ONLY <1>2, <1>3, <1>4

(* Sections that arrived, and a next one that did not arrive in full.      *)
LEMMA CutWithin ==
  ASSUME NEW c, c \in Seq(Bytes), NEW pre, At(c, 1, pre),
         NEW bodies, NEW R \in SUBSET RootNames, Carries("root", pre, bodies, R),
         NEW v, \A m \in R : Carries(m, bodies[m], v, NamesIn(m)),
         NEW i, NEW name, HasField("root", i, name, "message"),
         NEW s, s \in Seq(Bytes), Len(s) < MaxSize, At(c, Len(pre) + 1, StringField(i, s)),
         NEW n \in Nat, Len(pre) <= n, n < Len(pre) + Len(StringField(i, s))
  PROVE  Decode(SubSeq(c, 1, n)) \in {Invalid, Part(v, R)}
<1> DEFINE b == SubSeq(c, 1, n)
           f == StringField(i, s)
           l == Len(pre)
           k == Len(f)
           len == Len(c)
<1>1. pre \in Seq(Bytes) /\ l \in Nat /\ len \in Nat
  BY LenProperties DEF Carries
<1>2. k \in Nat
  <2>1. i \in FieldNumbers
    BY SMT DEF HasField, FieldNumbers
  <2>2. QED
    BY ONLY <2>1, s \in Seq(Bytes), Len(s) < MaxSize, StringFieldLength
<1> HIDE DEF f, l, k
<1>3. /\ l + 1 + k <= len + 1 /\ \A j \in 1 .. k : c[l + 1 + j - 1] = f[j]
      /\ 1 + l <= len + 1 /\ \A j \in 1 .. l : c[1 + j - 1] = pre[j]
  BY ONLY At(c, 1, pre), At(c, Len(pre) + 1, StringField(i, s)) DEF At, f, k, l
<1>4. n \in Nat /\ l <= n /\ n < l + k
  BY DEF f, k, l
<1>5. n <= len
  BY ONLY <1>1, <1>2, <1>3, <1>4
<1>6. b \in Seq(Bytes) /\ Len(b) = n /\ \A j \in 1 .. n : b[j] = c[j]
  BY ONLY <1>5, n \in Nat, c \in Seq(Bytes), Prefix
<1> HIDE DEF b, len
<1>7. ASSUME NEW j \in 1 .. l PROVE b[j] = pre[j] /\ b[1 + j - 1] = pre[j]
  <2>1. j \in 1 .. n /\ 1 + j - 1 = j
    BY ONLY <1>1, <1>4, j \in 1 .. l
  <2>2. QED
    BY ONLY <1>3, <1>6, <2>1, j \in 1 .. l
<1>8. CASE n = l
  <2>1. b = pre
    <3>1. pre = [j \in 1 .. l |-> pre[j]] /\ b = [j \in 1 .. n |-> b[j]]
      BY ONLY <1>1, <1>6, LenProperties DEF l
    <3>2. QED
      BY ONLY <1>7, <1>8, <3>1
  <2>2. Decode(b) = Part(v, R)
    BY ONLY <2>1, PartIsRead, R \in SUBSET RootNames, Carries("root", pre, bodies, R),
            \A m \in R : Carries(m, bodies[m], v, NamesIn(m))
  <2>3. QED
    BY ONLY <2>2 DEF b
<1>9. CASE n # l
  <2>1. At(b, 1, pre)
    <3>1. 1 + l <= n + 1
      BY ONLY <1>1, <1>4
    <3>2. QED
      BY ONLY <1>6, <1>7, <3>1 DEF At, l
  <2>2. CutOff(b, l + 1, f)
    <3>1. l + 1 <= n /\ n + 1 < l + 1 + k
      BY ONLY <1>1, <1>2, <1>4, <1>9
    <3>2. ASSUME NEW j \in 1 .. k, l + 1 + j - 1 <= n PROVE b[l + 1 + j - 1] = f[j]
      <4>1. l + 1 + j - 1 \in 1 .. n
        BY ONLY <1>1, <1>4, <3>2, j \in 1 .. k
      <4>2. QED
        BY ONLY <1>3, <1>6, <4>1, j \in 1 .. k
    <3>3. QED
      BY ONLY <1>6, <3>1, <3>2 DEF CutOff, k
  <2>3. Tagged("root", b, l + 1) = Stop(<<Bad>>)
    <3>1. l + 1 \in Nat /\ l + 1 > 0
      BY ONLY <1>1
    <3>2. QED
      BY ONLY <1>6, <2>2, <3>1, s \in Seq(Bytes), Len(s) < MaxSize, CutSection,
              HasField("root", i, name, "message") DEF f
  <2>4. l < Len(b)
    BY ONLY <1>1, <1>4, <1>6, <1>9
  <2>5. \A m \in R : NamesIn(m) \in SUBSET Names
    BY PartIs
  <2> DEFINE A == [m \in R |-> NamesIn(m)]
  <2>6. \A m \in R : Carries(m, bodies[m], v, A[m]) /\ A[m] \in SUBSET Names
    BY <2>5
  <2> HIDE DEF A
  <2>7. Decode(b) = Invalid
    BY ONLY <1>6, <2>1, <2>3, <2>4, <2>6, R \in SUBSET RootNames,
            Carries("root", pre, bodies, R), DecodeBroken DEF l
  <2>8. QED
    BY ONLY <2>7 DEF b
<1>10. QED
  BY ONLY <1>8, <1>9

(* Whatever a cut leaves of a telemetry, it is refused or read as the      *)
(* sections that arrived.                                                  *)
LEMMA CutIsRead ==
  ASSUME NEW d, DataOK(d), NEW v, Measured(v, d), v["state"] = StateRead(d),
         NEW n \in Nat, n < Len(Encode(d))
  PROVE  \E R \in SUBSET RootNames : Decode(SubSeq(Encode(d), 1, n)) \in {Invalid, Part(v, R)}
<1> DEFINE ss == Sections(d)
           bodies == Bodies(ss)
           h == bodies["header"]
           m == bodies["metrics"]
           s == bodies["status"]
           r == StringField(1, h)
           t == StringField(2, m)
           u == StringField(3, s)
           c == Encode(d)
<1>1. HoldsAll(ss, v)
  BY SectionsHold
<1>2. c = FlattenSeq(RootRow(bodies))
  <2> HIDE DEF ss
  <2>1. DOMAIN ss = 1 .. 3
    BY ONLY <1>1 DEF HoldsAll
  <2>2. QED
    BY ONLY <2>1, AssembleForm DEF Encode, ss
<1> HIDE DEF ss
<1>3. ShortBodies(bodies) /\ \A k \in RootNames : Carries(k, bodies[k], v, NamesIn(k))
  BY ONLY <1>1, BodiesAre
<1>4. RootRow(bodies) = <<r, t, u>>
  BY ONLY Zenon DEF RootRow
<1> HIDE DEF bodies
<1>5. /\ h \in Seq(Bytes) /\ Len(h) < MaxSize /\ m \in Seq(Bytes) /\ Len(m) < MaxSize
      /\ s \in Seq(Bytes) /\ Len(s) < MaxSize
  BY ONLY <1>3 DEF ShortBodies, RootNames
<1> HIDE DEF h, m, s
<1>6. 1 \in FieldNumbers /\ 2 \in FieldNumbers /\ 3 \in FieldNumbers
  BY SmallNumbers
<1>7. /\ r \in Seq(Bytes) /\ Len(r) \in Nat /\ t \in Seq(Bytes) /\ Len(t) \in Nat
      /\ u \in Seq(Bytes) /\ Len(u) \in Nat
  BY ONLY <1>5, <1>6, StringFieldLength
<1>8. HasField("root", 1, "header", "message") /\ HasField("root", 2, "metrics", "message")
      /\ HasField("root", 3, "status", "message")
  BY SchemaFields
<1>9. Carries("root", r, bodies, {"header"})
  BY ONLY <1>5, <1>8, StringFieldIsRead, YieldsOne DEF h
<1>10. Carries("root", t, bodies, {"metrics"})
  BY ONLY <1>5, <1>8, StringFieldIsRead, YieldsOne DEF m
<1> HIDE DEF r, t, u
<1> DEFINE rt == r \o t
<1>11. Carries("root", rt, bodies, {"header", "metrics"})
  <2>1. Carries("root", rt, bodies, {"header"} \cup {"metrics"})
    BY ONLY <1>9, <1>10, CarriesBoth
  <2>2. {"header"} \cup {"metrics"} = {"header", "metrics"}
    OBVIOUS
  <2>3. QED
    BY ONLY <2>1, <2>2
<1>12. rt \in Seq(Bytes) /\ Len(rt) = Len(r) + Len(t)
  BY ONLY <1>7, ConcatProperties
<1>13. c = rt \o u
  <2> DEFINE row == RootRow(bodies)
  <2>1. Len(row) = 3 /\ row[1] = r /\ row[2] = t /\ row[3] = u
    BY ONLY <1>4
  <2> HIDE DEF row
  <2>2. FlattenSeq(row) = (row[1] \o row[2]) \o row[3]
    BY ONLY <2>1, ThreeJoined
  <2>3. FlattenSeq(row) = rt \o u
    BY ONLY <2>1, <2>2
  <2>4. QED
    BY ONLY <1>2, <2>3 DEF row
<1>14. c \in Seq(Bytes) /\ Len(c) = Len(rt) + Len(u)
  <2> HIDE DEF rt
  <2>1. rt \in Seq(Bytes) /\ u \in Seq(Bytes)
    BY ONLY <1>7, <1>12
  <2>2. QED
    BY ONLY <1>13, <2>1, ConcatProperties
<1> HIDE DEF c
<1>15. At(c, 1, rt) /\ At(c, 1 + Len(rt), u)
  <2>1. At(c, 1, c)
    BY ONLY <1>14, AtWhole
  <2> HIDE DEF rt
  <2>2. rt \in Seq(Bytes) /\ u \in Seq(Bytes) /\ c \in Seq(Bytes) /\ 1 \in Nat /\ 1 > 0
    BY ONLY <1>7, <1>12, <1>14
  <2>3. At(c, 1, rt \o u)
    BY ONLY <1>13, <2>1
  <2>4. QED
    BY ONLY <2>2, <2>3, AtConcat
<1>16. At(c, 1, r) /\ At(c, 1 + Len(r), t)
  <2>2. r \in Seq(Bytes) /\ t \in Seq(Bytes) /\ c \in Seq(Bytes) /\ 1 \in Nat /\ 1 > 0
    BY ONLY <1>7, <1>14
  <2>3. At(c, 1, r \o t)
    BY ONLY <1>15
  <2>4. QED
    BY ONLY <2>2, <2>3, AtConcat
<1>17. At(c, 1, <<>>) /\ Len(<<>>) = 0 /\ 1 + 0 = 1
  <2>1. Len(c) \in Nat
    BY ONLY <1>14, LenProperties
  <2>2. QED
    BY ONLY <2>1 DEF At
<1>18. Carries("root", <<>>, bodies, {})
  BY CarriesNothing
<1> HIDE DEF rt
<1> DEFINE R0 == {}
           R1 == {"header"}
           R2 == {"header", "metrics"}
<1>19. /\ R0 \in SUBSET RootNames /\ R1 \in SUBSET RootNames /\ R2 \in SUBSET RootNames
       /\ \A k \in R0 : Carries(k, bodies[k], v, NamesIn(k))
       /\ \A k \in R1 : Carries(k, bodies[k], v, NamesIn(k))
       /\ \A k \in R2 : Carries(k, bodies[k], v, NamesIn(k))
  BY ONLY <1>3 DEF RootNames
<1>20. Carries("root", <<>>, bodies, R0) /\ Carries("root", r, bodies, R1)
       /\ Carries("root", rt, bodies, R2)
  BY ONLY <1>9, <1>11, <1>18
<1> HIDE DEF R0, R1, R2
<1>21. n < Len(r) + Len(t) + Len(u)
  <2> DEFINE x == Len(r)
             y == Len(t)
             z == Len(u)
  <2>1. n < Len(c)
    BY DEF c
  <2>2. Len(c) = (x + y) + z /\ x \in Nat /\ y \in Nat /\ z \in Nat
    BY ONLY <1>7, <1>12, <1>14
  <2> HIDE DEF x, y, z
  <2>3. n < x + y + z
    BY ONLY <2>1, <2>2, n \in Nat
  <2>4. QED
    BY ONLY <2>3 DEF x, y, z
<1> DEFINE cut == Decode(SubSeq(c, 1, n))
<1>22. CASE n < Len(r)
  <2>1. /\ At(c, Len(<<>>) + 1, StringField(1, h)) /\ Len(<<>>) <= n
        /\ n < Len(<<>>) + Len(StringField(1, h))
    <3> DEFINE x == Len(r)
    <3>1. x \in Nat /\ n < x
      BY ONLY <1>7, <1>22
    <3>2. At(c, 1, r)
      BY ONLY <1>16
    <3> HIDE DEF x
    <3>3. 0 + 1 = 1 /\ 0 <= n /\ n < 0 + x
      BY ONLY <3>1, n \in Nat
    <3>4. QED
      BY ONLY <1>17, <3>2, <3>3 DEF r, x
  <2>2. cut \in {Invalid, Part(v, R0)}
    BY ONLY <1>5, <1>8, <1>14, <1>17, <1>19, <1>20, <2>1, n \in Nat, CutWithin
  <2>3. QED
    BY ONLY <1>19, <2>2 DEF c
<1>23. CASE Len(r) <= n /\ n < Len(r) + Len(t)
  <2>1. At(c, Len(r) + 1, StringField(2, m))
    <3>1. 1 + Len(r) = Len(r) + 1
      BY ONLY <1>7
    <3>2. QED
      BY ONLY <1>16, <3>1 DEF t
  <2>2. cut \in {Invalid, Part(v, R1)}
    <3>1. n < Len(r) + Len(StringField(2, m)) /\ Len(r) <= n
      BY ONLY <1>23 DEF t
    <3>2. QED
      BY ONLY <1>5, <1>8, <1>14, <1>16, <1>19, <1>20, <2>1, <3>1, n \in Nat, CutWithin
  <2>3. QED
    BY ONLY <1>19, <2>2 DEF c
<1>24. CASE ~ (n < Len(r) + Len(t))
  <2>1. At(c, Len(rt) + 1, StringField(3, s))
    <3> DEFINE x == Len(rt)
    <3>1. x \in Nat
      BY ONLY <1>12, LenProperties
    <3> HIDE DEF x
    <3>2. 1 + x = x + 1
      BY ONLY <3>1
    <3>3. QED
      BY ONLY <1>15, <3>2 DEF u, x
  <2>2. Len(rt) <= n /\ n < Len(rt) + Len(StringField(3, s))
    <3> DEFINE x == Len(rt)
               y == Len(u)
    <3>1. x \in Nat /\ y \in Nat /\ x = Len(r) + Len(t)
      BY ONLY <1>7, <1>12, LenProperties
    <3> HIDE DEF x, y
    <3>2. x <= n /\ n < x + y
      BY ONLY <1>21, <1>24, <3>1, n \in Nat DEF y
    <3>3. QED
      BY ONLY <3>2 DEF x, y, u
  <2>3. cut \in {Invalid, Part(v, R2)}
    BY ONLY <1>5, <1>8, <1>14, <1>15, <1>19, <1>20, <2>1, <2>2, n \in Nat, CutWithin
  <2>4. QED
    BY ONLY <1>19, <2>3 DEF c
<1>25. QED
  <2>1. Len(r) \in Nat /\ Len(t) \in Nat
    BY ONLY <1>7
  <2>2. QED
    BY ONLY <1>22, <1>23, <1>24, <2>1, n \in Nat

(* Sections that are read as the values of v make a telemetry of v.        *)
LEMMA AssembleIsRead ==
  ASSUME NEW sections, DOMAIN sections = 1 .. 3, ShortBodies(Bodies(sections)),
         NEW v, v = [n \in Names |-> v[n]],
         \A m \in RootNames : Faithful(m, Bodies(sections)[m], v)
  PROVE  Decode(Assemble(sections)) = v
<1>1. Assemble(sections) = FlattenSeq(RootRow(Bodies(sections)))
  BY ONLY DOMAIN sections = 1 .. 3, AssembleForm
<1>2. Carries("root", Assemble(sections), Bodies(sections), RootNames)
  BY ONLY <1>1, ShortBodies(Bodies(sections)), RootCarries
<1>3. QED
  BY ONLY <1>2, v = [n \in Names |-> v[n]], DecodeFaithful,
          \A m \in RootNames : Faithful(m, Bodies(sections)[m], v)

-----------------------------------------------------------------------------
(* The zero values.                                                        *)

LEMMA KindIs ==
  ASSUME NEW j \in 1 .. 14, NEW n, NEW kind, Fields[j] = F(n, kind),
         \A i \in 1 .. 14 : Fields[i].name = n => i = j
  PROVE  KindOf(n) = kind
<1>1. Fields[j].name = n /\ Fields[j].kind = kind
  BY DEF F
<1>2. \A i \in DOMAIN Fields : (Fields[i].name = n) <=> i = j
  BY <1>1, FieldsListed
<1>3. j \in DOMAIN Fields
  BY FieldsListed
<1>4. (CHOOSE i \in DOMAIN Fields : Fields[i].name = n) = j
  BY ONLY <1>2, <1>3, Zenon
<1>5. QED
  BY ONLY <1>1, <1>4, Zenon DEF KindOf

LEMMA KindsOf ==
  /\ KindOf("device_id") = "string" /\ KindOf("timestamp") = "int64"
  /\ KindOf("seq_no") = "uint32" /\ KindOf("firmware_version") = "string"
  /\ KindOf("boot_count") = "uint32" /\ KindOf("temperature") = "float"
  /\ KindOf("humidity") = "float" /\ KindOf("battery_voltage") = "float"
  /\ KindOf("battery_level_pct") = "uint32" /\ KindOf("rssi") = "int32"
  /\ KindOf("interval_sec") = "uint32" /\ KindOf("state") = "enum"
  /\ KindOf("uptime_sec") = "uint32" /\ KindOf("free_heap_bytes") = "uint32"
<1> DEFINE name == [i \in 1 .. 14 |-> Fields[i].name]
<1>1. /\ name[1] = "device_id" /\ name[2] = "timestamp" /\ name[3] = "seq_no"
      /\ name[4] = "firmware_version" /\ name[5] = "boot_count" /\ name[6] = "temperature"
      /\ name[7] = "humidity" /\ name[8] = "battery_voltage" /\ name[9] = "battery_level_pct"
      /\ name[10] = "rssi" /\ name[11] = "interval_sec" /\ name[12] = "state"
      /\ name[13] = "uptime_sec" /\ name[14] = "free_heap_bytes"
  BY FieldsListed DEF F
<1>2. \A i \in 1 .. 14 : Fields[i].name = name[i]
  OBVIOUS
<1> HIDE DEF name
<1>3. \A i, j \in 1 .. 14 : name[i] = name[j] => i = j
  BY ONLY <1>1
<1>4. ASSUME NEW j \in 1 .. 14, NEW n, NEW kind, Fields[j] = F(n, kind) PROVE KindOf(n) = kind
  <2>1. Fields[j].name = n
    BY ONLY <1>4 DEF F
  <2>2. \A i \in 1 .. 14 : Fields[i].name = n => i = j
    BY ONLY <1>2, <1>3, <2>1, j \in 1 .. 14
  <2>3. QED
    BY ONLY <1>4, <2>2, j \in 1 .. 14, KindIs
<1>5. \A i \in 1 .. 14 : Fields[i] = F(name[i], KindOf(name[i]))
  <2>1. ASSUME NEW j \in 1 .. 14 PROVE \E n, kind : Fields[j] = F(n, kind)
    BY ONLY FieldsListed, j \in 1 .. 14
  <2>2. ASSUME NEW j \in 1 .. 14 PROVE Fields[j] = F(name[j], KindOf(name[j]))
    <3>1. PICK n, kind : Fields[j] = F(n, kind)
      BY <2>1
    <3>2. KindOf(n) = kind /\ name[j] = n
      BY <1>2, <1>4, <3>1 DEF F
    <3>3. QED
      BY ONLY <3>1, <3>2
  <2>3. QED
    BY ONLY <2>2
<1>6. \A x, y, p, q : F(x, y) = F(p, q) => y = q
  BY DEF F
<1>7. QED
  BY ONLY <1>1, <1>5, <1>6, FieldsListed

LEMMA ZeroValues ==
  /\ \A n \in {"device_id", "firmware_version"} : ZeroOf(n) = <<>>
  /\ \A n \in {"temperature", "humidity", "battery_voltage"} : ZeroOf(n) = <<0, 0, 0, 0>>
  /\ \A n \in {"timestamp", "seq_no", "boot_count", "battery_level_pct", "rssi",
               "interval_sec", "uptime_sec", "free_heap_bytes"} : ZeroOf(n) = Zero
  /\ ZeroOf("state") = ""
<1>1. /\ Absent("string") = <<>> /\ Absent("float") = <<0, 0, 0, 0>> /\ Absent("enum") = ""
      /\ Absent("int64") = Zero /\ Absent("uint32") = Zero /\ Absent("int32") = Zero
  BY DEF Absent
<1>2. \A n : ZeroOf(n) = Absent(KindOf(n))
  BY DEF ZeroOf
<1>3. QED
  BY ONLY <1>1, <1>2, KindsOf

-----------------------------------------------------------------------------
(* The theorems.                                                           *)

(* The telemetry that the server makes of d.                               *)
Received(d) ==
  [device_id |-> OrElse(d.device_id, Unknown), timestamp |-> d.timestamp, seq_no |-> d.seq_no,
   firmware_version |-> OrElse(d.firmware_version, FirstFirmware), boot_count |-> d.boot_count,
   temperature |-> d.temperature, humidity |-> d.humidity, battery_voltage |-> d.battery_voltage,
   battery_level_pct |-> d.battery_level_pct, rssi |-> Word(d.rssi),
   interval_sec |-> d.interval_sec, state |-> StateRead(d), uptime_sec |-> d.uptime_sec,
   free_heap_bytes |-> d.free_heap_bytes]

LEMMA ReceivedIsMeasured ==
  ASSUME NEW d
  PROVE  Measured(Received(d), d) /\ Received(d)["state"] = StateRead(d)
<1> DEFINE v == Received(d)
<1>1. /\ v["device_id"] = OrElse(d.device_id, Unknown)
      /\ v["timestamp"] = d.timestamp /\ v["seq_no"] = d.seq_no
      /\ v["firmware_version"] = OrElse(d.firmware_version, FirstFirmware)
      /\ v["boot_count"] = d.boot_count
      /\ v["temperature"] = d.temperature /\ v["humidity"] = d.humidity
      /\ v["battery_voltage"] = d.battery_voltage
      /\ v["battery_level_pct"] = d.battery_level_pct
      /\ v["rssi"] = Word(d.rssi) /\ v["interval_sec"] = d.interval_sec
      /\ v["uptime_sec"] = d.uptime_sec /\ v["free_heap_bytes"] = d.free_heap_bytes
      /\ v["state"] = StateRead(d)
  BY DEF Received
<1>2. v = [n \in DOMAIN v |-> v[n]]
  BY DEF Received
<1>3. DOMAIN v = Names
  BY DEF Received, Names, HeaderNames, MetricsNames, StatusNames
<1> HIDE DEF v
<1>4. v = [n \in Names |-> v[n]]
  BY ONLY <1>2, <1>3
<1>5. QED
  BY ONLY <1>1, <1>4 DEF Measured, v

(* DecodeTelemetryProtobuf reads what serialize_telemetry_protobuf wrote:  *)
(* every number, string and float of any telemetry is the measured one.    *)
THEOREM EdgeTelemetryIsRead ==
  ASSUME NEW d \in TelemetryData
  PROVE  Decode(Encode(d)) = Received(d)
<1>1. Measured(Received(d), d) /\ Received(d)["state"] = StateRead(d)
  BY ReceivedIsMeasured
<1>2. DataOK(d)
  BY DataIsOK
<1>3. QED
  BY ONLY <1>1, <1>2, EncodeIsRead

(* The same for a telemetry that was cut anywhere: it is refused, or read  *)
(* as the whole sections that arrived, the fields of the others at zero.   *)
THEOREM CutTelemetryIsNotMisread ==
  ASSUME NEW d \in TelemetryData, NEW n \in Nat, n < Len(Encode(d))
  PROVE  \E R \in SUBSET RootNames :
           Decode(SubSeq(Encode(d), 1, n)) \in {Invalid, Part(Received(d), R)}
<1>1. Measured(Received(d), d) /\ Received(d)["state"] = StateRead(d)
  BY ReceivedIsMeasured
<1>2. DataOK(d)
  BY DataIsOK
<1>3. QED
  BY ONLY <1>1, <1>2, n \in Nat, n < Len(Encode(d)), CutIsRead
=============================================================================
