--------------------------- MODULE FileRead_proofs ---------------------------
(***************************************************************************)
(* Proofs about the decoding of a block of LZS, whatever its bits are, and *)
(* about the reconstruction of sparse files, for every archive whose       *)
(* extents are in order, every portion, every fault and every other file   *)
(* the sparse one stands between.                                          *)
(***************************************************************************)
EXTENDS FileRead, Recursion, SequenceTheorems, FiniteSetTheorems, TLAPS

(* A power of two is the number of subsets of a set.                       *)
LEMMA PowerIs == ASSUME NEW n \in Nat PROVE 2^n \in Nat \ {0}
<1> DEFINE A == 1..n
<1>1. IsFiniteSet(A) /\ Cardinality(A) = n
  BY FS_Interval
<1>2. IsFiniteSet(SUBSET A) /\ Cardinality(SUBSET A) = 2^n
  <2> HIDE DEF A
  <2>1. IsFiniteSet(SUBSET A) /\ Cardinality(SUBSET A) = 2^Cardinality(A)
    BY <1>1, FS_SUBSET
  <2>2. QED
    BY <1>1, <2>1
<1>3. SUBSET A # {}
  OBVIOUS
<1> HIDE DEF A
<1>4. Cardinality(SUBSET A) \in Nat /\ Cardinality(SUBSET A) # 0
  BY <1>2, <1>3, FS_CardinalityType, FS_EmptySet
<1>5. QED
  BY <1>2, <1>4

LEMMA HistoryIs == History \in Nat \ {0}
BY PowerIs, LzsAssumption DEF History

(* Multiplication and division of naturals, away from other facts.          *)
LEMMA Multiples ==
  ASSUME NEW a \in Nat, NEW b \in Nat, NEW c \in Nat, a >= b PROVE a * c >= b * c
OBVIOUS
LEMMA Quotients == ASSUME NEW a \in Nat, NEW p \in Nat \ {0} PROVE a \div p \in Nat
OBVIOUS
LEMMA Remainders == ASSUME NEW a \in Int, NEW p \in Nat \ {0} PROVE a % p \in 0..(p - 1)
OBVIOUS

LEMMA BitCountIs == ASSUME NEW buf \in Seq(Nat) PROVE BitCount(buf) \in Nat
BY LzsAssumption DEF BitCount

(* A bit that the block has is one.                                        *)
LEMMA BitIs ==
  ASSUME NEW buf \in Seq(Nat), NEW i \in Nat, i < BitCount(buf)
  PROVE  Bit(buf, i) \in 0..1
<1> DEFINE q == i \div ByteBits
           p == 2^(ByteBits - 1 - (i % ByteBits))
<1>1. ByteBits \in Nat \ {0} /\ Len(buf) \in Nat
  BY LzsAssumption
<1>2. q \in Nat /\ q * ByteBits <= i /\ i % ByteBits \in 0..(ByteBits - 1)
  BY <1>1
<1>3. q < Len(buf)
  <2>1. SUFFICES ASSUME q >= Len(buf) PROVE FALSE
    BY <1>1, <1>2
  <2> HIDE DEF q
  <2>2. q * ByteBits >= Len(buf) * ByteBits
    BY <1>1, <1>2, <2>1, Multiples
  <2>3. Len(buf) * ByteBits \in Nat /\ q * ByteBits \in Nat
    BY <1>1, <1>2
  <2>4. i < Len(buf) * ByteBits
    BY DEF BitCount
  <2>5. QED
    BY <1>2, <2>2, <2>3, <2>4
<1>4. p \in Nat \ {0}
  <2>1. ByteBits - 1 - (i % ByteBits) \in Nat
    BY <1>1, <1>2
  <2>2. QED
    BY <2>1, PowerIs
<1>5. buf[q + 1] \in Nat
  <2> HIDE DEF q
  <2>1. QED
    BY <1>2, <1>3
<1>6. Bit(buf, i) = (buf[q + 1] \div p) % 2
  BY DEF Bit
<1> HIDE DEF p, q
<1>7. buf[q + 1] \div p \in Nat
  BY <1>4, <1>5, Quotients
<1>8. QED
  BY <1>6, <1>7

(* So is a value that is read bit by bit.                                  *)
LEMMA ReadBitsIs ==
  ASSUME NEW buf \in Seq(Nat), NEW i \in Nat, NEW n \in Nat, Has(buf, i, n)
  PROVE  ReadBits(buf, i, n) \in Nat
<1> DEFINE next(k, s) == 2 * s + Bit(buf, i + k - 1)
           v == CHOOSE v : v = [k \in 0..n |-> IF k = 0 THEN 0 ELSE next(k, v[k - 1])]
           step == [k \in 1..n |-> [s \in Nat |-> next(k, s)]]
<1>1. \A k \in 1..n, s \in Nat : next(k, s) \in Nat
  <2>1. \A k \in 1..n : i + k - 1 \in Nat /\ i + k - 1 < BitCount(buf)
    BY BitCountIs DEF Has
  <2>2. \A k \in 1..n : Bit(buf, i + k - 1) \in 0..1
    BY <2>1, BitIs
  <2>3. \A s \in Nat, b \in 0..1 : 2 * s + b \in Nat
    OBVIOUS
  <2>4. QED
    BY <2>2, <2>3
<1>2. ReadBits(buf, i, n) = v[n]
  BY Zenon DEF ReadBits
<1> HIDE DEF next
<1>3. v = [k \in 0..n |-> IF k = 0 THEN 0 ELSE next(k, v[k - 1])]
  <2>1. PICK f \in [0..n -> Nat] : Counts(f, n, 0, step)
    <3>1. step \in [1..n -> [Nat -> Nat]]
      BY <1>1
    <3> HIDE DEF step
    <3>2. QED
      BY <3>1, CountingExists, Zenon
  <2>2. ASSUME NEW k \in 0..n PROVE f[k] = IF k = 0 THEN 0 ELSE next(k, f[k - 1])
    <3>1. CASE k # 0
      <4>1. k \in 1..n /\ k - 1 \in 0..n
        BY <3>1
      <4>2. QED
        BY <2>1, <3>1, <4>1 DEF Counts
    <3>2. QED
      BY <2>1, <3>1 DEF Counts
  <2>3. f = [k \in 0..n |-> IF k = 0 THEN 0 ELSE next(k, f[k - 1])]
    BY <2>2
  <2>4. QED
    BY <2>3, Zenon
<1> HIDE DEF v
<1>4. \A k \in Nat : k <= n => v[k] \in Nat
  <2> DEFINE P == {k \in Nat : k <= n => v[k] \in Nat}
  <2>1. 0 \in P
    BY <1>3
  <2>2. ASSUME NEW k \in P PROVE k + 1 \in P
    <3>1. SUFFICES ASSUME k + 1 <= n PROVE v[k + 1] \in Nat
      OBVIOUS
    <3>2. v[k] \in Nat /\ k + 1 \in 1..n /\ k + 1 \in 0..n /\ (k + 1) - 1 = k
      BY <3>1
    <3>3. v[k + 1] = next(k + 1, v[k])
      BY <1>3, <3>2
    <3>4. QED
      BY <1>1, <3>2, <3>3
  <2> HIDE DEF P
  <2>3. P = Nat
    <3>1. P \in SUBSET Nat
      BY DEF P
    <3>2. QED
      BY <2>1, <2>2, <3>1, NaturalInduction
  <2>4. QED
    BY <2>3 DEF P
<1>5. QED
  BY <1>2, <1>4

(* The readers of codes return numbers, and the bit behind the code.       *)
Codes == [ok : BOOLEAN, v : Int, next : Nat]
Lengths == [ok : BOOLEAN, v : Nat, next : Nat]

LEMMA ReadOffsetIs ==
  ASSUME NEW buf \in Seq(Nat), NEW i \in Nat
  PROVE  ReadOffset(buf, i) \in Codes
<1>1. ShortBits \in Nat /\ LongBits \in Nat
  BY LzsAssumption
<1>2. ShortMax \in Int /\ LongMax \in Int
  BY <1>1, PowerIs DEF ShortMax, LongMax
<1>3. Has(buf, i + 1, ShortBits) => ReadBits(buf, i + 1, ShortBits) \in Nat
  BY <1>1, ReadBitsIs
<1>4. Has(buf, i + 1, LongBits) => ReadBits(buf, i + 1, LongBits) \in Nat
  BY <1>1, ReadBitsIs
<1>5. NoCode \in Codes /\ \A v \in Int, n \in Nat : Code(v, n) \in Codes
  BY DEF NoCode, Code, Codes
<1> DEFINE off == ShortOffset(ReadBits(buf, i + 1, ShortBits))
           code == ReadBits(buf, i + 1, LongBits)
<1>6. CASE ~Has(buf, i, 1)
  BY <1>5, <1>6 DEF ReadOffset
<1>7. CASE Has(buf, i, 1) /\ Bit(buf, i) = 1
  <2>1. ReadOffset(buf, i) = IF ~Has(buf, i + 1, ShortBits) \/ off > ShortMax
                             THEN NoCode ELSE Code(off, i + 1 + ShortBits)
    BY <1>7 DEF ReadOffset
  <2>2. Has(buf, i + 1, ShortBits) => off \in Int
    BY <1>3 DEF ShortOffset
  <2> HIDE DEF off
  <2>3. QED
    BY <1>1, <1>5, <2>1, <2>2
<1>8. CASE Has(buf, i, 1) /\ Bit(buf, i) # 1
  <2>1. ReadOffset(buf, i) =
          CASE ~Has(buf, i + 1, LongBits) -> NoCode
            [] Has(buf, i + 1, LongBits) /\ code = 0 -> Code(EndOffset, i + 1 + LongBits)
            [] OTHER -> IF code + ShortMax > LongMax THEN NoCode
                        ELSE Code(code + ShortMax, i + 1 + LongBits)
    BY <1>8 DEF ReadOffset
  <2>2. Has(buf, i + 1, LongBits) => code \in Nat
    BY <1>4
  <2>3. EndOffset \in Int /\ i + 1 + LongBits \in Nat
    BY <1>1 DEF EndOffset
  <2> HIDE DEF code
  <2>4. CASE ~Has(buf, i + 1, LongBits)
    BY <1>5, <2>1, <2>4
  <2>5. CASE Has(buf, i + 1, LongBits) /\ code = 0
    BY <1>5, <2>1, <2>3, <2>5
  <2>6. CASE Has(buf, i + 1, LongBits) /\ code # 0
    <3>1. ReadOffset(buf, i) = IF code + ShortMax > LongMax THEN NoCode
                               ELSE Code(code + ShortMax, i + 1 + LongBits)
      BY <2>1, <2>6
    <3>2. code + ShortMax \in Int
      BY <1>2, <2>2, <2>6
    <3>3. QED
      BY <1>5, <2>3, <3>1, <3>2
  <2>7. QED
    BY <2>4, <2>5, <2>6
<1>9. QED
  BY <1>6, <1>7, <1>8

LEMMA ReadGroupsIs ==
  ASSUME NEW buf \in Seq(Nat), NEW i \in Nat
  PROVE  ReadGroups(buf, i) \in Lengths
<1> DEFINE group(k) == ReadBits(buf, i + 4 * k, 4)
           more(k) == Has(buf, i + 4 * k, 4) /\ ~(group(k) < 15)
           last(k) == IF ~Has(buf, i + 4 * k, 4) THEN Code(8 + 15 * k, i + 4 * k)
                      ELSE Code(8 + 15 * k + group(k), i + 4 * k + 4)
           v == CHOOSE v : v = [k \in Nat |-> IF more(k) THEN v[k + 1] ELSE last(k)]
           ends == {k \in Nat : ~more(k)}
           m == [k \in Nat |-> IF k < BitCount(buf) THEN BitCount(buf) - k ELSE 0]
           succ == [k \in Nat \ ends |-> k + 1]
           base == [k \in ends |-> last(k)]
           comb == [k \in Nat \ ends |-> [s \in Lengths |-> s]]
<1>1. BitCount(buf) \in Nat
  BY BitCountIs
<1>2. \A k \in Nat : last(k) \in Lengths
  <2> SUFFICES ASSUME NEW k \in Nat PROVE last(k) \in Lengths
    OBVIOUS
  <2>1. i + 4 * k \in Nat /\ 8 + 15 * k \in Nat
    OBVIOUS
  <2>2. Has(buf, i + 4 * k, 4) => group(k) \in Nat
    BY <2>1, ReadBitsIs
  <2> HIDE DEF group
  <2>3. QED
    BY <2>1, <2>2 DEF Code, Lengths
<1>3. \A k \in Nat : more(k) => m[k + 1] < m[k]
  BY <1>1 DEF Has
<1>4. ReadGroups(buf, i) = v[0]
  <2>1. \A k \in Nat : \A x :
          (IF more(k) THEN x ELSE last(k))
          = CASE ~Has(buf, i + 4 * k, 4) -> Code(8 + 15 * k, i + 4 * k)
              [] Has(buf, i + 4 * k, 4) /\ group(k) < 15 -> Code(8 + 15 * k + group(k), i + 4 * k + 4)
              [] OTHER -> x
    <3> HIDE DEF group
    <3>1. QED
      OBVIOUS
  <2>2. \A w : [k \in Nat |-> IF more(k) THEN w[k + 1] ELSE last(k)]
               = [k \in Nat |->
                    CASE ~Has(buf, i + 4 * k, 4) -> Code(8 + 15 * k, i + 4 * k)
                      [] Has(buf, i + 4 * k, 4) /\ group(k) < 15 -> Code(8 + 15 * k + group(k), i + 4 * k + 4)
                      [] OTHER -> w[k + 1]]
    <3> HIDE DEF group, more, last
    <3>1. QED
      BY <2>1
  <2> HIDE DEF more, last
  <2>3. QED
    BY <2>2, Zenon DEF ReadGroups
<1> HIDE DEF more, last
<1>5. v = [k \in Nat |-> IF more(k) THEN v[k + 1] ELSE last(k)]
  <2>1. PICK f \in [Nat -> Lengths] : Recursive(f, Nat, ends, succ, base, comb)
    <3>1. /\ m \in [Nat -> Nat] /\ ends \in SUBSET Nat /\ succ \in [Nat \ ends -> Nat]
          /\ base \in [ends -> Lengths] /\ comb \in [Nat \ ends -> [Lengths -> Lengths]]
      BY <1>1, <1>2
    <3>2. \A k \in Nat \ ends : m[succ[k]] < m[k]
      BY <1>3
    <3> HIDE DEF m, ends, succ, base, comb
    <3>3. QED
      BY <3>1, <3>2, RecursionExists, Zenon
  <2>2. ASSUME NEW k \in Nat PROVE f[k] = IF more(k) THEN f[k + 1] ELSE last(k)
    <3>1. f[k] = IF k \in ends THEN base[k] ELSE comb[k][f[succ[k]]]
      BY <2>1, Zenon DEF Recursive
    <3>2. CASE more(k)
      <4>1. f[k] = comb[k][f[k + 1]]
        BY <3>1, <3>2
      <4>2. f[k + 1] \in Lengths
        BY <2>1
      <4>3. QED
        BY <3>2, <4>1, <4>2
    <3>3. CASE ~more(k)
      BY <3>1, <3>3
    <3>4. QED
      BY <3>2, <3>3
  <2>3. f = [k \in Nat |-> IF more(k) THEN f[k + 1] ELSE last(k)]
    BY <2>2
  <2>4. QED
    BY <2>3, Zenon
<1> HIDE DEF v
<1>6. \A k \in Nat : v[k] \in Lengths
  <2> DEFINE P == {k \in Nat : v[k] \in Lengths}
  <2>1. ASSUME NEW k \in Nat, \A j \in Nat : m[j] < m[k] => j \in P
        PROVE  k \in P
    <3>1. v[k] = IF more(k) THEN v[k + 1] ELSE last(k)
      BY <1>5
    <3>2. more(k) => v[k + 1] \in Lengths
      <4>1. more(k) => m[k + 1] < m[k]
        BY <1>3
      <4> HIDE DEF m
      <4>2. QED
        BY <2>1, <4>1
    <3>3. QED
      BY <1>2, <3>1, <3>2
  <2> HIDE DEF P
  <2>2. P \in SUBSET Nat /\ m \in [Nat -> Nat]
    BY <1>1 DEF P
  <2> HIDE DEF m
  <2>3. P = Nat
    <3>1. Inductive(Nat, m, P)
      BY <2>1 DEF Inductive
    <3>2. QED
      BY <2>2, <3>1, MeasureInduction, Zenon
  <2>4. QED
    BY <2>3 DEF P
<1>7. QED
  BY <1>4, <1>6

LEMMA ReadLengthIs ==
  ASSUME NEW buf \in Seq(Nat), NEW i \in Nat
  PROVE  ReadLength(buf, i) \in Lengths
<1>1. Has(buf, i, 2) => ReadBits(buf, i, 2) \in Nat
  BY ReadBitsIs
<1>2. Has(buf, i + 2, 2) => ReadBits(buf, i + 2, 2) \in Nat
  BY ReadBitsIs
<1>3. NoCode \in Lengths /\ \A v \in Nat, n \in Nat : Code(v, n) \in Lengths
  BY DEF NoCode, Code, Lengths
<1>4. ReadGroups(buf, i + 4) \in Lengths
  BY ReadGroupsIs
<1> DEFINE a == ReadBits(buf, i, 2)
           b == ReadBits(buf, i + 2, 2)
<1>5. CASE Has(buf, i, 2) /\ a < 3
  <2>1. ReadLength(buf, i) = Code(a + 2, i + 2)
    BY <1>5 DEF ReadLength
  <2>2. a + 2 \in Nat /\ i + 2 \in Nat
    BY <1>1, <1>5
  <2>3. QED
    BY <1>3, <2>1, <2>2
<1>6. CASE Has(buf, i, 4) /\ a = 3 /\ b < 3
  <2>1. Has(buf, i, 2) /\ Has(buf, i + 2, 2)
    BY <1>6, BitCountIs DEF Has
  <2>2. ReadLength(buf, i) = Code(b + 5, i + 4)
    BY <1>6, <2>1 DEF ReadLength
  <2>3. b + 5 \in Nat /\ i + 4 \in Nat
    BY <1>2, <2>1
  <2>4. QED
    BY <1>3, <2>2, <2>3
<1>7. ReadLength(buf, i) = ReadGroups(buf, i + 4) \/ ReadLength(buf, i) = NoCode
       \/ (Has(buf, i, 2) /\ a < 3) \/ (Has(buf, i, 4) /\ a = 3 /\ b < 3)
  BY DEF ReadLength
<1>8. QED
  BY <1>3, <1>4, <1>5, <1>6, <1>7

-----------------------------------------------------------------------------
(* The decoder of a block, between two bytes: the next byte is put within  *)
(* the ring, and what has been put out last stands in it, j bytes back the *)
(* j-th byte from the end.                                                 *)
States == [win : [0..(History - 1) -> Nat], pos : 0..(History - 1), written : Nat,
           out : Seq(Nat), bit : Nat, done : BOOLEAN]
Back(d, j) == (d.pos - j + History) % History
Window(d) ==
  \A j \in 1..History : j <= Len(d.out) => d.win[Back(d, j)] = d.out[Len(d.out) + 1 - j]
Decoders == {d \in States : d.written = Len(d.out) /\ Window(d)}

(* Indexes go round the ring.                                              *)
LEMMA Within == ASSUME NEW p \in Nat \ {0}, NEW a \in 0..(p - 1) PROVE a % p = a
OBVIOUS
LEMMA Around == ASSUME NEW p \in Nat \ {0}, NEW a \in 0..(p - 1) PROVE (a + p) % p = a
OBVIOUS

LEMMA BackIs ==
  ASSUME NEW d, d.pos \in 0..(History - 1), NEW j \in 1..History
  PROVE  Back(d, j) = IF j <= d.pos THEN d.pos - j ELSE d.pos - j + History
<1>1. CASE j <= d.pos
  <2>1. d.pos - j \in 0..(History - 1)
    BY <1>1, HistoryIs
  <2>2. QED
    BY <1>1, <2>1, HistoryIs, Around DEF Back
<1>2. CASE ~(j <= d.pos)
  <2>1. d.pos - j + History \in 0..(History - 1)
    BY <1>2, HistoryIs
  <2>2. QED
    BY <1>2, <2>1, HistoryIs, Within DEF Back
<1>3. QED
  BY <1>1, <1>2

LEMMA NextPlace ==
  ASSUME NEW n \in 0..(History - 1)
  PROVE  (n + 1) % History = IF n + 1 = History THEN 0 ELSE n + 1
<1>1. CASE n + 1 = History
  <2>1. 0 \in 0..(History - 1) /\ n + 1 = 0 + History
    BY <1>1, HistoryIs
  <2>2. QED
    BY <1>1, <2>1, HistoryIs, Around
<1>2. CASE n + 1 # History
  <2>1. n + 1 \in 0..(History - 1)
    BY <1>2, HistoryIs
  <2>2. QED
    BY <1>2, <2>1, HistoryIs, Within
<1>3. QED
  BY <1>1, <1>2

LEMMA PutIs ==
  ASSUME NEW d \in Decoders, NEW b \in Nat
  PROVE  Put(d, b) \in Decoders /\ Put(d, b).out = Append(d.out, b)
<1> DEFINE e == Put(d, b)
<1>0. d \in States /\ d.written = Len(d.out) /\ Window(d) /\ History \in Nat \ {0}
      /\ d.pos \in 0..(History - 1) /\ d.out \in Seq(Nat) /\ d.win \in [0..(History - 1) -> Nat]
  BY HistoryIs DEF Decoders, States
<1>1. e = [d EXCEPT !.win = [d.win EXCEPT ![d.pos] = b], !.pos = (d.pos + 1) % History,
                    !.written = d.written + 1, !.out = Append(d.out, b)]
  BY <1>0 DEF Put, States
<1>2. /\ e.win = [d.win EXCEPT ![d.pos] = b] /\ e.pos = (d.pos + 1) % History
      /\ e.written = d.written + 1 /\ e.out = Append(d.out, b)
  BY <1>0, <1>1 DEF States
<1>3. e.pos = (IF d.pos + 1 = History THEN 0 ELSE d.pos + 1) /\ e.pos \in 0..(History - 1)
  <2>1. e.pos = IF d.pos + 1 = History THEN 0 ELSE d.pos + 1
    <3> HIDE DEF e
    <3>1. QED
      BY <1>0, <1>2, NextPlace
  <2> HIDE DEF e
  <2>2. QED
    BY <1>0, <2>1
<1>4. e \in States
  <2>1. Append(d.out, b) \in Seq(Nat) /\ d.written + 1 \in Nat
    BY <1>0 DEF States
  <2>2. [d.win EXCEPT ![d.pos] = b] \in [0..(History - 1) -> Nat]
    BY <1>0
  <2>3. QED
    BY <1>0, <1>1, <1>2, <1>3, <2>1, <2>2 DEF States
<1>5. Len(e.out) = Len(d.out) + 1 /\ e.out[Len(d.out) + 1] = b
      /\ \A n \in 1..Len(d.out) : e.out[n] = d.out[n]
  BY <1>0, <1>2
<1> HIDE DEF e
<1>6. ASSUME NEW j \in 1..History, j <= Len(e.out)
      PROVE  e.win[Back(e, j)] = e.out[Len(e.out) + 1 - j]
  <2>1. CASE j = 1
    <3>1. Back(e, 1) = d.pos
      <4>1. Back(e, 1) = IF 1 <= e.pos THEN e.pos - 1 ELSE e.pos - 1 + History
        BY <1>3, <2>1, BackIs
      <4>2. CASE d.pos + 1 = History
        BY <1>0, <1>3, <4>1, <4>2
      <4>3. CASE d.pos + 1 # History
        BY <1>0, <1>3, <4>1, <4>3
      <4>4. QED
        BY <4>2, <4>3
    <3>2. Len(e.out) + 1 - 1 = Len(d.out) + 1
      BY <1>0, <1>5
    <3>3. QED
      BY <1>0, <1>2, <1>5, <2>1, <3>1, <3>2
  <2>2. CASE j # 1
    <3>1. j - 1 \in 1..History /\ j - 1 <= Len(d.out) /\ j - 1 # History
      BY <1>0, <1>5, <1>6, <2>2
    <3>2. Back(e, j) = Back(d, j - 1) /\ Back(e, j) # d.pos /\ Back(e, j) \in 0..(History - 1)
      <4>1. Back(e, j) = IF j <= e.pos THEN e.pos - j ELSE e.pos - j + History
        BY <1>3, BackIs
      <4>2. Back(d, j - 1) = IF j - 1 <= d.pos THEN d.pos - (j - 1) ELSE d.pos - (j - 1) + History
        BY <1>0, <3>1, BackIs
      <4>3. j \in Nat /\ j >= 2 /\ j <= History
        BY <1>0, <2>2
      <4>4. CASE d.pos + 1 = History
        <5>1. e.pos = 0 /\ ~(j <= e.pos) /\ d.pos = History - 1 /\ j - 1 <= d.pos
          BY <1>0, <1>3, <4>3, <4>4
        <5>2. Back(e, j) = History - j /\ Back(d, j - 1) = History - j
          BY <1>0, <4>1, <4>2, <4>3, <5>1
        <5> QED BY <1>0, <4>3, <5>1, <5>2
      <4>5. CASE d.pos + 1 # History
        <5>1. e.pos = d.pos + 1 /\ d.pos \in Nat /\ d.pos <= History - 1 /\ History \in Nat
          BY <1>0, <1>3, <4>5
        <5>2. CASE j <= d.pos + 1
          <6>1. Back(e, j) = d.pos + 1 - j /\ Back(d, j - 1) = d.pos - (j - 1)
            BY <4>1, <4>2, <4>3, <5>1, <5>2
          <6> QED BY <4>3, <5>1, <5>2, <6>1
        <5>3. CASE ~(j <= d.pos + 1)
          <6>1. Back(e, j) = d.pos + 1 - j + History /\ Back(d, j - 1) = d.pos - (j - 1) + History
            BY <4>1, <4>2, <4>3, <5>1, <5>3
          <6> QED BY <4>3, <5>1, <5>3, <6>1
        <5> QED BY <5>2, <5>3
      <4>6. QED
        BY <4>4, <4>5
    <3>3. e.win[Back(e, j)] = d.out[Len(d.out) + 1 - (j - 1)]
      BY <1>0, <1>2, <3>1, <3>2 DEF Window
    <3>4. Len(d.out) + 1 - (j - 1) \in 1..Len(d.out)
          /\ Len(e.out) + 1 - j = Len(d.out) + 1 - (j - 1)
      BY <1>0, <1>5, <3>1
    <3>5. QED
      BY <1>5, <3>3, <3>4
  <2>3. QED
    BY <2>1, <2>2
<1>7. QED
  BY <1>0, <1>2, <1>4, <1>5, <1>6 DEF e, Decoders, Window

(* What a match fetches is a byte, and within the window it is the byte    *)
(* that stands off back in the output.                                     *)
LEMMA SourceIs ==
  ASSUME NEW d \in Decoders, NEW start, NEW off \in Int, NEW k
  PROVE  /\ Source(d, start, off, k) \in Nat
         /\ off \in 1..History /\ off <= Len(d.out) =>
              Source(d, start, off, k) = d.out[Len(d.out) + 1 - off]
<1>1. (d.pos - off + History) % History \in 0..(History - 1)
  <2>1. d.pos - off + History \in Int
    BY HistoryIs DEF Decoders, States
  <2>2. QED
    BY <2>1, HistoryIs, Remainders
<1>2. Source(d, start, off, k) = d.win[Back(d, off)]
  BY DEF Source, Back
<1>3. Source(d, start, off, k) \in Nat
  BY <1>1 DEF Source, Decoders, States
<1>4. QED
  BY <1>2, <1>3 DEF Decoders, Window

(* s followed by n bytes, each of them the one that stands o before it.    *)
Repeats(s, t, o, n) ==
  /\ Len(t) = Len(s) + n
  /\ \A i \in 1..Len(s) : t[i] = s[i]
  /\ \A i \in (Len(s) + 1)..(Len(s) + n) : t[i] = t[i - o]

LEMMA OneLess == ASSUME NEW a \in Int, NEW b \in Nat, a <= b + 1, a # b + 1 PROVE a <= b
OBVIOUS

LEMMA RepeatOne ==
  ASSUME NEW s \in Seq(Nat), NEW t \in Seq(Nat), NEW o \in 1..Len(s), NEW n \in Nat, NEW b \in Nat,
         Repeats(s, t, o, n), b = t[Len(t) + 1 - o]
  PROVE  Repeats(s, Append(t, b), o, n + 1)
<1> DEFINE u == Append(t, b)
<1>1. Len(s) \in Nat /\ o \in Nat /\ o >= 1 /\ o <= Len(s) /\ Len(t) = Len(s) + n
  BY DEF Repeats
<1>2. Len(u) = Len(t) + 1 /\ u[Len(t) + 1] = b /\ \A i \in 1..Len(t) : u[i] = t[i]
  OBVIOUS
<1> HIDE DEF u
<1>3. \A i \in 1..Len(s) : i \in 1..Len(t)
  BY <1>1
<1>4. ASSUME NEW i \in (Len(s) + 1)..(Len(s) + (n + 1)) PROVE u[i] = u[i - o]
  <2>0. i \in Int /\ i >= Len(s) + 1 /\ i <= Len(t) + 1 /\ Len(t) \in Nat
    BY <1>1
  <2>1. i - o \in 1..Len(t)
    BY <1>1, <2>0
  <2>2. CASE i = Len(t) + 1
    <3>1. i - o = Len(t) + 1 - o
      BY <2>2
    <3>2. QED
      BY <1>2, <2>1, <2>2, <3>1
  <2>3. CASE i # Len(t) + 1
    <3>1. i \in (Len(s) + 1)..(Len(s) + n) /\ i \in 1..Len(t)
      <4>1. i <= Len(t)
        BY <2>0, <2>3, OneLess
      <4>2. QED
        BY <1>1, <2>0, <4>1
    <3>2. QED
      BY <1>2, <2>1, <3>1 DEF Repeats
  <2>4. QED
    BY <2>2, <2>3
<1>5. Len(u) = Len(s) + (n + 1)
  BY <1>1, <1>2
<1>6. QED
  BY <1>2, <1>3, <1>4, <1>5 DEF Repeats, u

(* A match keeps the window, and what it puts out repeats the output.      *)
LEMMA CopyMatchIs ==
  ASSUME NEW d \in Decoders, NEW off \in Int, NEW length \in Nat
  PROVE  /\ CopyMatch(d, off, length) \in Decoders
         /\ LET o == Reach(off, d.written)
            IN  o \in 1..History /\ o <= Len(d.out) =>
                  Repeats(d.out, CopyMatch(d, off, length).out, o, length)
<1> DEFINE o == Reach(off, d.written)
           next(k, e) == Put(e, Source(e, d, o, k))
           v == CHOOSE v : v = [k \in 0..length |-> IF k = 0 THEN d ELSE next(k, v[k - 1])]
           step == [k \in 1..length |-> [e \in Decoders |-> next(k, e)]]
           near == o \in 1..History /\ o <= Len(d.out)
<1>0. o \in Int /\ d.out \in Seq(Nat)
  BY DEF Reach, Decoders, States
<1>1. \A k \in 1..length, e \in Decoders :
        /\ next(k, e) \in Decoders
        /\ o \in 1..History /\ o <= Len(e.out) =>
             next(k, e).out = Append(e.out, e.out[Len(e.out) + 1 - o])
  <2> HIDE DEF o
  <2>1. SUFFICES ASSUME NEW k \in 1..length, NEW e \in Decoders
                 PROVE  /\ next(k, e) \in Decoders
                        /\ o \in 1..History /\ o <= Len(e.out) =>
                             next(k, e).out = Append(e.out, e.out[Len(e.out) + 1 - o])
    OBVIOUS
  <2>2. /\ Source(e, d, o, k) \in Nat
        /\ o \in 1..History /\ o <= Len(e.out) => Source(e, d, o, k) = e.out[Len(e.out) + 1 - o]
    BY <1>0, SourceIs
  <2>3. /\ Put(e, Source(e, d, o, k)) \in Decoders
        /\ Put(e, Source(e, d, o, k)).out = Append(e.out, Source(e, d, o, k))
    BY <2>2, PutIs
  <2>4. QED
    BY <2>2, <2>3
<1>2. CopyMatch(d, off, length) = v[length]
  BY Zenon DEF CopyMatch
<1> HIDE DEF next
<1>3. v = [k \in 0..length |-> IF k = 0 THEN d ELSE next(k, v[k - 1])]
  <2>1. PICK f \in [0..length -> Decoders] : Counts(f, length, d, step)
    <3>1. step \in [1..length -> [Decoders -> Decoders]]
      BY <1>1
    <3> HIDE DEF step
    <3>2. QED
      BY <3>1, CountingExists, Zenon
  <2>2. ASSUME NEW k \in 0..length PROVE f[k] = IF k = 0 THEN d ELSE next(k, f[k - 1])
    <3>1. CASE k # 0
      <4>1. k \in 1..length /\ k - 1 \in 0..length
        BY <3>1
      <4>2. QED
        BY <2>1, <3>1, <4>1 DEF Counts
    <3>2. QED
      BY <2>1, <3>1 DEF Counts
  <2>3. f = [k \in 0..length |-> IF k = 0 THEN d ELSE next(k, f[k - 1])]
    BY <2>2
  <2>4. QED
    BY <2>3, Zenon
<1> HIDE DEF v, o
<1>4. \A k \in Nat : k <= length => v[k] \in Decoders /\ (near => Repeats(d.out, v[k].out, o, k))
  <2> DEFINE P == {k \in Nat : k <= length => v[k] \in Decoders
                                                /\ (near => Repeats(d.out, v[k].out, o, k))}
  <2>1. 0 \in P
    <3>1. v[0] = d
      BY <1>3
    <3>2. Repeats(d.out, d.out, o, 0)
      BY <1>0 DEF Repeats
    <3>3. QED
      BY <3>1, <3>2
  <2>2. ASSUME NEW k \in P PROVE k + 1 \in P
    <3>1. SUFFICES ASSUME k + 1 <= length
                   PROVE  v[k + 1] \in Decoders /\ (near => Repeats(d.out, v[k + 1].out, o, k + 1))
      OBVIOUS
    <3>2. v[k] \in Decoders /\ k + 1 \in 1..length /\ k + 1 \in 0..length /\ (k + 1) - 1 = k
      BY <3>1
    <3>3. v[k + 1] = next(k + 1, v[k])
      BY <1>3, <3>2
    <3>4. ASSUME near PROVE Repeats(d.out, v[k + 1].out, o, k + 1)
      <4>1. v[k].out \in Seq(Nat) /\ Repeats(d.out, v[k].out, o, k)
        BY <3>1, <3>2, <3>4 DEF Decoders, States
      <4>2. o \in 1..Len(d.out) /\ o <= Len(v[k].out) /\ Len(v[k].out) + 1 - o \in 1..Len(v[k].out)
        BY <1>0, <3>4, <4>1 DEF Repeats
      <4>3. v[k + 1].out = Append(v[k].out, v[k].out[Len(v[k].out) + 1 - o])
        BY <1>1, <3>2, <3>3, <3>4, <4>2
      <4>4. v[k].out[Len(v[k].out) + 1 - o] \in Nat
        BY <4>1, <4>2, ElementOfSeq
      <4>5. QED
        BY <1>0, <4>1, <4>2, <4>3, <4>4, RepeatOne
    <3>5. QED
      BY <1>1, <3>2, <3>3, <3>4
  <2> HIDE DEF P
  <2>3. P = Nat
    <3>1. P \in SUBSET Nat
      BY DEF P
    <3>2. QED
      BY <2>1, <2>2, <3>1, NaturalInduction
  <2>4. QED
    BY <2>3 DEF P
<1>5. QED
  BY <1>2, <1>4 DEF o

LEMMA TokenIs ==
  ASSUME NEW buf \in Seq(Nat), NEW d \in Decoders
  PROVE  Token(buf, d) \in Decoders
<1> DEFINE stop == [d EXCEPT !.done = TRUE]
           i == d.bit + 1
           off == ReadOffset(buf, i)
           len == ReadLength(buf, off.next)
<1>1. d.bit \in Nat /\ i \in Nat /\ ByteBits \in Nat
  BY LzsAssumption DEF Decoders, States
<1>2. stop \in Decoders
  BY DEF Decoders, States, Window, Back
<1>3. off \in Codes
  BY <1>1, ReadOffsetIs
<1>4. off.v \in Int /\ off.next \in Nat
  BY <1>3 DEF Codes
<1>5. len \in Lengths
  BY <1>4, ReadLengthIs
<1>6. len.v \in Nat /\ len.next \in Nat
  BY <1>5 DEF Lengths
<1>7. \A e \in Decoders, n \in Nat : [e EXCEPT !.bit = n] \in Decoders
  BY DEF Decoders, States, Window, Back
<1>8. Has(buf, i, ByteBits) =>
        [Put(d, ReadBits(buf, i, ByteBits)) EXCEPT !.bit = i + ByteBits] \in Decoders
  <2>1. i + ByteBits \in Nat
    BY <1>1
  <2>2. Has(buf, i, ByteBits) => ReadBits(buf, i, ByteBits) \in Nat
    BY <1>1, ReadBitsIs
  <2>3. Has(buf, i, ByteBits) => Put(d, ReadBits(buf, i, ByteBits)) \in Decoders
    BY <2>2, PutIs
  <2>4. QED
    BY <1>7, <2>1, <2>3
<1>9. [CopyMatch(d, off.v, len.v) EXCEPT !.bit = len.next] \in Decoders
  BY <1>4, <1>6, <1>7, CopyMatchIs
<1>10. Token(buf, d) \in {stop, [Put(d, ReadBits(buf, i, ByteBits)) EXCEPT !.bit = i + ByteBits],
                          [CopyMatch(d, off.v, len.v) EXCEPT !.bit = len.next]}
       /\ (Token(buf, d) # stop /\ Token(buf, d) # [CopyMatch(d, off.v, len.v) EXCEPT !.bit = len.next]
             => Has(buf, i, ByteBits))
  BY DEF Token
<1> HIDE DEF stop, i, off, len
<1>11. QED
  BY <1>2, <1>8, <1>9, <1>10

(* The decoder of a block after n tokens, or after the one that ended it.  *)
Run(buf, d) ==
  /\ d[0] = Empty
  /\ \A n \in Nat : d[n + 1] = IF d[n].done THEN d[n] ELSE Token(buf, d[n])

(* Whatever the bits of a block are, its decoding is a run of tokens after *)
(* each of which the ring holds the end of what has been put out, and that *)
(* is a sequence of bytes (lzsDecoder.decode, put).                        *)
THEOREM WindowKept ==
  ASSUME NEW buf \in Seq(Nat)
  PROVE  \E d \in [Nat -> Decoders] : Run(buf, d) /\ Decode(buf) = d[BitCount(buf) + 1].out
<1> DEFINE next(d) == IF d.done THEN d ELSE Token(buf, d)
           v == CHOOSE v : v = [n \in Nat |-> IF n = 0 THEN Empty ELSE next(v[n - 1])]
           step == [d \in Decoders |-> next(d)]
<1>1. Empty \in Decoders /\ \A d \in Decoders : next(d) \in Decoders
  <2>1. Empty \in States /\ Len(Empty.out) = 0 /\ Empty.written = 0
    BY HistoryIs DEF Empty, States
  <2>2. Empty \in Decoders
    BY <2>1, HistoryIs DEF Decoders, Window
  <2>3. QED
    BY <2>2, TokenIs
<1>2. Decode(buf) = v[BitCount(buf) + 1].out
  BY Zenon DEF Decode
<1>3. PICK f \in [Nat -> Decoders] : Iterates(f, Empty, step)
  <2>1. step \in [Decoders -> Decoders]
    BY <1>1
  <2> HIDE DEF step
  <2>2. QED
    BY <1>1, <2>1, Iteration, Zenon
<1> HIDE DEF next
<1>4. f[0] = Empty /\ \A n \in Nat : f[n + 1] = next(f[n])
  BY <1>3 DEF Iterates
<1>5. v = [n \in Nat |-> IF n = 0 THEN Empty ELSE next(v[n - 1])]
  <2>1. ASSUME NEW n \in Nat PROVE f[n] = IF n = 0 THEN Empty ELSE next(f[n - 1])
    <3>1. CASE n # 0
      <4>1. n - 1 \in Nat /\ (n - 1) + 1 = n
        BY <3>1
      <4>2. QED
        BY <1>4, <3>1, <4>1
    <3>2. QED
      BY <1>4, <3>1
  <2>2. f = [n \in Nat |-> IF n = 0 THEN Empty ELSE next(f[n - 1])]
    BY <2>1
  <2>3. QED
    BY <2>2, Zenon
<1> HIDE DEF v
<1>6. \A n \in Nat : v[n] = f[n]
  <2> DEFINE P == {n \in Nat : v[n] = f[n]}
  <2>1. 0 \in P
    BY <1>4, <1>5
  <2>2. ASSUME NEW n \in P PROVE n + 1 \in P
    <3>1. n + 1 \in Nat /\ n + 1 # 0 /\ (n + 1) - 1 = n
      OBVIOUS
    <3>2. v[n + 1] = next(v[n])
      BY <1>5, <3>1
    <3>3. QED
      BY <1>4, <3>1, <3>2
  <2> HIDE DEF P
  <2>3. P = Nat
    <3>1. P \in SUBSET Nat
      BY DEF P
    <3>2. QED
      BY <2>1, <2>2, <3>1, NaturalInduction
  <2>4. QED
    BY <2>3 DEF P
<1>7. Decode(buf) = f[BitCount(buf) + 1].out
  <2>1. BitCount(buf) + 1 \in Nat
    BY BitCountIs
  <2>2. QED
    BY <1>2, <1>6, <2>1
<1>8. Run(buf, f)
  BY <1>4 DEF Run, next
<1>9. QED
  BY <1>7, <1>8

LEMMA DecodeIs ==
  ASSUME NEW buf \in Seq(Nat) PROVE Decode(buf) \in Seq(Nat)
<1>1. PICK d \in [Nat -> Decoders] : Decode(buf) = d[BitCount(buf) + 1].out
  BY WindowKept
<1>2. BitCount(buf) + 1 \in Nat
  BY BitCountIs
<1>3. QED
  BY <1>1, <1>2 DEF Decoders, States

(* A match puts out exactly as many bytes as it is long, each of them the  *)
(* one that stands its offset back in the output, or the output's whole    *)
(* length back if that is less, its own bytes included and however often   *)
(* the ring has gone round (lzsDecoder.copyMatch).                         *)
THEOREM MatchRepeats ==
  ASSUME NEW d \in Decoders, d.out # <<>>, NEW off \in 1..LongMax, NEW length \in Nat
  PROVE  Repeats(d.out, CopyMatch(d, off, length).out,
                 IF off > Len(d.out) THEN Len(d.out) ELSE off, length)
<1>1. LongMax = History - 1 /\ History \in Nat
  BY HistoryIs DEF LongMax, History
<1>2. d.out \in Seq(Nat) /\ d.written = Len(d.out) /\ Len(d.out) \in Nat /\ Len(d.out) >= 1
  BY DEF Decoders, States
<1>3. /\ Reach(off, d.written) = IF off > Len(d.out) THEN Len(d.out) ELSE off
      /\ Reach(off, d.written) \in 1..History /\ Reach(off, d.written) <= Len(d.out)
  BY <1>1, <1>2 DEF Reach
<1>4. off \in Int
  BY <1>1
<1>5. QED
  BY <1>3, <1>4, CopyMatchIs

-----------------------------------------------------------------------------
(* The entry opened: its extents are in order, or it is none yet.          *)
EntryOK ==
  /\ cur.kind \in Kinds \cup {"none"}
  /\ cur.extents \in Seq([off : Nat, data : Seq(Nat)]) /\ InOrder(cur.extents)
  /\ archive \in Archives /\ opened \in Nat /\ headerOnly \in BOOLEAN

(* Only a sparse file is read in the way of sparse files, and it in no     *)
(* other one.                                                              *)
CallOK ==
  /\ ways \subseteq Ways(cur)
  /\ want \in Nat
  /\ readEnd \in BOOLEAN /\ failed \in BOOLEAN /\ entryDone \in BOOLEAN
  /\ pc = "sparse" => cur.kind = "sparse"
  /\ pc \in {"frame", "payload"} => cur.kind = "coded"

PlaceType ==
  /\ sparseIdx \in 1..(Len(Map) + 1)
  /\ sparsePos \in Nat /\ sparseCursor \in Nat
  /\ cur.kind = "sparse" => got \in Seq(Nat)

(* The cursor does not get past the byte sparsePos of the extent.          *)
CursorBound ==
  cur.kind = "sparse" /\ ~Exhausted => sparseCursor <= Extent.off + sparsePos

Complete == \A i \in 1..Len(Map) : EndOf(Map[i]) <= Len(got)

(* A sparse file is finished behind its last extent, except where Next     *)
(* gave it up with an error.                                               *)
DoneComplete ==
  cur.kind = "sparse" =>
    /\ pc = "finish" => Complete
    /\ entryDone /\ ~failed => Complete

Inv ==
  EntryOK /\ CallOK /\ PlaceType /\ CursorBound
    /\ PlaceExact /\ SparseExact /\ DoneComplete /\ SparseEndsComplete

-----------------------------------------------------------------------------
(* What the concatenation of two sequences of numbers is.                  *)
LEMMA Joined ==
  ASSUME NEW s \in Seq(Nat), NEW t \in Seq(Nat)
  PROVE  /\ s \o t \in Seq(Nat)
         /\ Len(s \o t) = Len(s) + Len(t)
         /\ \A p \in 1..Len(s) : (s \o t)[p] = s[p]
         /\ \A p \in (Len(s) + 1)..(Len(s) + Len(t)) : (s \o t)[p] = t[p - Len(s)]
  OBVIOUS

LEMMA ZerosAre ==
  ASSUME NEW n \in Nat
  PROVE  /\ Zeros(n) \in Seq(Nat) /\ Len(Zeros(n)) = n
         /\ \A p \in 1..n : Zeros(n)[p] = 0
  BY DEF Zeros

LEMMA PortionIs ==
  ASSUME NEW s \in Seq(Nat), NEW a \in Nat, NEW n \in Nat, a + n <= Len(s)
  PROVE  /\ SubSeq(s, a + 1, a + n) \in Seq(Nat)
         /\ Len(SubSeq(s, a + 1, a + n)) = n
         /\ \A p \in 1..n : SubSeq(s, a + 1, a + n)[p] = s[a + p]
  OBVIOUS

LEMMA ExtentType ==
  ASSUME NEW x \in Seq([off : Nat, data : Seq(Nat)]), NEW i \in 1..Len(x)
  PROVE  x[i].off \in Nat /\ EndOf(x[i]) \in Nat /\ x[i].off <= EndOf(x[i])
<1>1. x[i] \in [off : Nat, data : Seq(Nat)]
  BY ElementOfSeq
<1> QED BY <1>1 DEF EndOf

(* In a map in order the byte at a position inside an extent is that       *)
(* extent's, and between two extents it is zero.                           *)
LEMMA InExtent ==
  ASSUME NEW x \in Seq([off : Nat, data : Seq(Nat)]), InOrder(x),
         NEW i \in 1..Len(x), NEW p \in Nat, x[i].off < p, p <= EndOf(x[i])
  PROVE  ByteAt(x, p) = x[i].data[p - x[i].off]
<1>1. \A j \in 1..Len(x) : x[j].off \in Nat /\ EndOf(x[j]) \in Nat /\ x[j].off <= EndOf(x[j])
  BY ExtentType
<1>2. ASSUME NEW j \in 1..Len(x), x[j].off < p, p <= EndOf(x[j])
      PROVE  j = i
  <2>1. CASE j < i
    <3>1. EndOf(x[j]) <= x[i].off
      BY <2>1 DEF InOrder
    <3> QED BY SMTT(30), <1>1, <1>2, <3>1
  <2>2. CASE i < j
    <3>1. EndOf(x[i]) <= x[j].off
      BY <2>2 DEF InOrder
    <3> QED BY SMTT(30), <1>1, <1>2, <3>1
  <2> QED BY <2>1, <2>2
<1>3. (CHOOSE j \in 1..Len(x) : x[j].off < p /\ p <= EndOf(x[j])) = i
  BY <1>2
<1> QED BY <1>3 DEF ByteAt

LEMMA InHoleZero ==
  ASSUME NEW x \in Seq([off : Nat, data : Seq(Nat)]), InOrder(x),
         NEW i \in 1..Len(x), NEW p \in Nat, p <= x[i].off,
         \A j \in 1..Len(x) : j < i => EndOf(x[j]) < p
  PROVE  ByteAt(x, p) = 0
<1>1. \A j \in 1..Len(x) : x[j].off \in Nat /\ EndOf(x[j]) \in Nat /\ x[j].off <= EndOf(x[j])
  BY ExtentType
<1>2. ASSUME NEW j \in 1..Len(x), x[j].off < p, p <= EndOf(x[j])
      PROVE  FALSE
  <2>1. ~(j < i)
    <3>1. j < i => EndOf(x[j]) < p
      OBVIOUS
    <3> QED BY <1>1, <1>2, <3>1
  <2>2. i < j => EndOf(x[i]) <= x[j].off
    BY DEF InOrder
  <2>3. x[i].off <= EndOf(x[i]) /\ x[i].off \in Nat /\ EndOf(x[i]) \in Nat /\ x[j].off \in Nat
    BY <1>1
  <2>4. i = j \/ i < j
    BY <2>1
  <2> QED BY SMTT(30), <1>2, <2>2, <2>3, <2>4
<1> QED BY <1>2 DEF ByteAt

-----------------------------------------------------------------------------
(* No entry is open at first. *)
LEMMA InitInv == Init => Inv
<1> SUFFICES ASSUME Init PROVE Inv
  OBVIOUS
<1>1. cur.kind = "none" /\ cur.extents = <<>>
  BY DEF Init, Nothing
<1>2. EntryOK
  BY <1>1 DEF Init, EntryOK, InOrder, Kinds
<1>3. CallOK
  BY <1>1 DEF Init, CallOK
<1>4. PlaceType
  BY <1>1 DEF Init, PlaceType, Map
<1> QED
  BY <1>1, <1>2, <1>3, <1>4
     DEF Inv, CursorBound, PlaceExact, SparseExact, DoneComplete, SparseEndsComplete

(* A call that ends or goes on stays in order. *)
LEMMA Returned ==
  ASSUME NEW e, CallOK, Return(e), UNCHANGED cur, ways' \subseteq ways, entryDone' \in BOOLEAN
  PROVE  CallOK'
<1>1. readEnd' \in BOOLEAN /\ failed' \in BOOLEAN
  BY DEF CallOK, Return
<1>2. ways' \subseteq Ways(cur)'
  BY DEF CallOK
<1> QED BY <1>1, <1>2 DEF CallOK, Return

LEMMA Continued ==
  ASSUME NEW p, CallOK, Continue(p), UNCHANGED <<cur, ways, entryDone>>,
         p = "sparse" => cur.kind = "sparse", p \in {"frame", "payload"} => cur.kind = "coded"
  PROVE  CallOK'
BY DEF CallOK, Continue

(* A file of another kind is none of the business of the reconstruction.   *)
LEMMA Aside ==
  ASSUME Inv, cur.kind # "sparse", UNCHANGED <<cur, place, archive, opened, headerOnly>>, CallOK'
  PROVE  Inv'
<1>1. EntryOK'
  BY DEF Inv, EntryOK
<1>2. PlaceType'
  BY DEF Inv, PlaceType, place, Map
<1> QED
  BY <1>1, <1>2
     DEF Inv, CursorBound, PlaceExact, SparseExact, DoneComplete, SparseEndsComplete

(* A step that hands over nothing and leaves the place has to leave the    *)
(* call in order, and to end it only behind the last extent.               *)
LEMMA Kept ==
  ASSUME Inv, UNCHANGED <<cur, place, got, archive, opened, headerOnly>>, CallOK',
         cur.kind = "sparse" /\ (pc' = "finish" \/ ((entryDone' \/ readEnd') /\ ~failed')) => Complete
  PROVE  Inv'
<1>1. EntryOK'
  BY DEF Inv, EntryOK
<1>2. PlaceType' /\ CursorBound'
  BY DEF Inv, PlaceType, CursorBound, Exhausted, Extent, place, Map
<1>3. PlaceExact' /\ SparseExact'
  BY DEF Inv, PlaceExact, SparseExact, Exhausted, Extent, place, Map
<1>4. DoneComplete' /\ SparseEndsComplete'
  BY DEF DoneComplete, SparseEndsComplete, Complete, Map
<1> QED BY <1>1, <1>2, <1>3, <1>4 DEF Inv

(* Next opens a file at its beginning. *)
LEMMA NextFileInv == Inv /\ NextFile => Inv'
<1> SUFFICES ASSUME Inv, NextFile PROVE Inv'
  OBVIOUS
<1> DEFINE f == Captured(archive[opened + 1])
<1>1. File(archive[opened + 1])
  BY ArchivesAssumption DEF Inv, EntryOK, NextFile
<1>2. OpenFile(f) /\ opened' = opened + 1 /\ UNCHANGED <<archive, headerOnly>>
  BY DEF NextFile
<1>3. f.kind \in Kinds /\ f.extents \in Seq([off : Nat, data : Seq(Nat)]) /\ InOrder(f.extents)
  <2>1. CASE headerOnly
    <3>1. f = [archive[opened + 1] EXCEPT !.extents = <<>>]
      BY <2>1 DEF Captured
    <3> QED BY <1>1, <3>1 DEF File, Files, InOrder
  <2>2. CASE ~headerOnly
    BY <1>1, <2>2 DEF Captured, File, Files, Extents
  <2> QED BY <2>1, <2>2
<1> HIDE DEF f
<1>4. /\ cur' = f /\ ways' = Ways(f) /\ got' = <<>> /\ entryDone' = FALSE
      /\ pc' = "idle" /\ want' = 0 /\ readEnd' = FALSE /\ failed' = FALSE
      /\ sparseIdx' = 1 /\ sparsePos' = 0 /\ sparseCursor' = 0
  BY <1>2 DEF OpenFile, Yield, ResetPlace
<1>5. EntryOK'
  BY <1>2, <1>3, <1>4 DEF Inv, EntryOK
<1>6. CallOK'
  BY <1>4 DEF CallOK
<1>7. PlaceType'
  BY <1>3, <1>4 DEF PlaceType, Map
<1>8. CursorBound' /\ PlaceExact'
  <2>1. CASE Exhausted'
    BY <1>4, <2>1 DEF CursorBound, PlaceExact
  <2>2. CASE ~Exhausted'
    <3>1. 1 \in 1..Len(f.extents) /\ Extent' = f.extents[1]
      BY <1>3, <1>4, <2>2 DEF Exhausted, Extent, Map
    <3>2. f.extents[1] \in [off : Nat, data : Seq(Nat)]
      BY <1>3, <3>1, ElementOfSeq
    <3>3. Extent'.off \in Nat /\ Len(Extent'.data) \in Nat /\ EndOf(Extent') \in Nat
      BY <3>1, <3>2 DEF EndOf
    <3> QED BY <1>4, <2>2, <3>3 DEF CursorBound, PlaceExact
  <2> QED BY <2>1, <2>2
<1>9. SparseExact' /\ DoneComplete' /\ SparseEndsComplete'
  BY <1>4 DEF SparseExact, DoneComplete, SparseEndsComplete
<1> QED BY <1>5, <1>6, <1>7, <1>8, <1>9 DEF Inv

LEMMA NextFailsInv == Inv /\ NextFails => Inv'
<1> SUFFICES ASSUME Inv, NextFails PROVE Inv'
  OBVIOUS
<1>1. CallOK'
  BY DEF Inv, CallOK, NextFails, walk
<1>2. cur.kind = "sparse" /\ readEnd /\ ~failed => Complete
  BY DEF Inv, SparseEndsComplete, Complete
<1> QED BY <1>1, <1>2, Kept DEF NextFails, walk, place

(* Read of a file that is not sparse. *)
LEMMA CallPlainInv == \A k \in 1..MaxRead : Inv /\ CallPlain(k) => Inv'
<1> SUFFICES ASSUME NEW k \in 1..MaxRead, Inv, CallPlain(k) PROVE Inv'
  OBVIOUS
<1>1. cur.kind # "sparse"
  BY DEF Inv, CallOK, CallPlain, Ways
<1>2. CallOK'
  <2>1. UNCHANGED <<cur, ways, entryDone>>
    BY DEF CallPlain
  <2>2. Return("fail") \/ Continue("finish") \/ Return("ok")
    BY DEF CallPlain
  <2> QED BY <2>1, <2>2, Continued, Returned DEF Inv, CallOK
<1> QED BY <1>1, <1>2, Aside DEF CallPlain

LEMMA CallDecodedInv ==
  \A k \in 1..MaxRead : Inv /\ CallDecoded(k) /\ UNCHANGED <<place, walk>> => Inv'
<1> SUFFICES ASSUME NEW k \in 1..MaxRead, Inv, CallDecoded(k), UNCHANGED <<place, walk>> PROVE Inv'
  OBVIOUS
<1>1. cur.kind = "coded"
  BY DEF Inv, CallOK, CallDecoded, Ways
<1>2. CallOK'
  <2>1. CASE oi < Len(out)
    BY <2>1, Returned DEF Inv, CallOK, CallDecoded
  <2>2. CASE ~(oi < Len(out)) /\ eof
    BY <2>2, Continued DEF Inv, CallOK, CallDecoded
  <2>3. CASE ~(oi < Len(out)) /\ ~eof
    <3>1. k \in Nat
      BY ReadCallAssumption
    <3>2. pc' = "frame" /\ want' = k /\ UNCHANGED <<readEnd, failed, cur, ways, entryDone>>
      BY <2>3 DEF CallDecoded
    <3> QED BY <1>1, <3>1, <3>2 DEF Inv, CallOK
  <2> QED BY <2>1, <2>2, <2>3
<1> QED BY <1>1, <1>2, Aside DEF CallDecoded, walk

LEMMA DecoderInv == Inv /\ DecoderStep /\ UNCHANGED <<place, walk>> => Inv'
<1> SUFFICES ASSUME Inv, DecoderStep, UNCHANGED <<place, walk>> PROVE Inv'
  OBVIOUS
<1>1. cur.kind = "coded" /\ UNCHANGED cur
  BY DEF Inv, CallOK, DecoderStep, NoMoreFrames, FrameHeader, FramePayload
<1>2. CASE NoMoreFrames
  BY <1>1, <1>2, Aside DEF Inv, CallOK, NoMoreFrames, Fail, Return, Continue, walk
<1>3. CASE FrameHeader
  <2>1. UNCHANGED <<cur, ways, entryDone>>
    BY <1>3 DEF FrameHeader
  <2>2. Continue("payload") \/ Return("fail") \/ Continue("finish")
    BY <1>3 DEF FrameHeader, Fail
  <2>3. CallOK'
    BY <1>1, <2>1, <2>2, Continued, Returned DEF Inv, CallOK
  <2> QED BY <1>1, <2>3, Aside DEF walk
<1>4. CASE FramePayload
  <2>1. UNCHANGED <<cur, ways, entryDone>>
    BY <1>4 DEF FramePayload
  <2>2. Return("ok") \/ Return("fail") \/ Continue("finish")
    BY <1>4 DEF FramePayload, Fail
  <2>3. CallOK'
    BY <1>1, <2>1, <2>2, Continued, Returned DEF Inv, CallOK
  <2> QED BY <1>1, <2>3, Aside DEF walk
<1> QED BY <1>2, <1>3, <1>4 DEF DecoderStep

(* The ends of a call. *)
LEMMA ReadDoneInv == Inv /\ ReadDone /\ UNCHANGED <<place, walk>> => Inv'
<1> SUFFICES ASSUME Inv, ReadDone, UNCHANGED <<place, walk>> PROVE Inv'
  OBVIOUS
<1>1. CallOK'
  BY DEF Inv, CallOK, ReadDone, Return
<1>2. cur.kind = "sparse" /\ ~failed => Complete
  BY DEF Inv, DoneComplete, ReadDone
<1> QED BY <1>1, <1>2, Kept DEF ReadDone, Return, walk, Inv, CallOK

LEMMA FinishInv == Inv /\ Finish /\ UNCHANGED <<place, walk>> => Inv'
<1> SUFFICES ASSUME Inv, Finish, UNCHANGED <<place, walk>> PROVE Inv'
  OBVIOUS
<1>1. CallOK'
  <2>1. UNCHANGED cur /\ ways' \subseteq ways /\ entryDone' \in BOOLEAN
    BY DEF Finish
  <2>2. Return("eof") \/ Return("fail")
    BY DEF Finish
  <2> QED BY <2>1, <2>2, Returned DEF Inv
<1>2. cur.kind = "sparse" => Complete
  BY DEF Inv, DoneComplete, Finish
<1>3. UNCHANGED <<cur, got>>
  BY DEF Finish
<1> QED BY <1>1, <1>2, <1>3, Kept DEF walk

-----------------------------------------------------------------------------
(* The rounds of the loop in readSparse.                                   *)

(* The fields of the loop's round that hands over nothing.                 *)
LEMMA CallSparseInv ==
  \A k \in 1..MaxRead : Inv /\ CallSparse(k) /\ UNCHANGED <<key, dec, walk>> => Inv'
<1> SUFFICES ASSUME NEW k \in 1..MaxRead, Inv, CallSparse(k), UNCHANGED <<key, dec, walk>>
             PROVE  Inv'
  OBVIOUS
<1>1. cur.kind = "sparse"
  BY DEF Inv, CallOK, CallSparse, Ways
<1>2. k \in Nat
  BY ReadCallAssumption
<1>3. CallOK'
  BY <1>1, <1>2 DEF Inv, CallOK, CallSparse
<1> QED BY <1>1, <1>3, Kept DEF CallSparse, MayRead, walk

(* Behind the last extent everything has been handed over. *)
LEMMA ExhaustedComplete ==
  ASSUME Inv, cur.kind = "sparse", Exhausted
  PROVE  Complete
<1>1. sparseIdx = Len(Map) + 1 /\ Len(Map) \in Nat
  BY DEF Inv, PlaceType, EntryOK, Exhausted, Map
<1>2. (Len(Map) + 1) - 1 = Len(Map)
  BY <1>1
<1> QED BY <1>1, <1>2 DEF Inv, PlaceExact, Complete

LEMMA SparseEndInv == Inv /\ SparseEnd /\ UNCHANGED <<key, dec, walk>> => Inv'
<1> SUFFICES ASSUME Inv, SparseEnd, UNCHANGED <<key, dec, walk>> PROVE Inv'
  OBVIOUS
<1>1. UNCHANGED <<cur, ways, entryDone>> /\ Return("eof")
  BY DEF SparseEnd
<1>2. CallOK'
  BY <1>1, Returned DEF Inv, CallOK
<1>3. Complete
  BY ExhaustedComplete DEF Inv, CallOK, SparseEnd
<1> QED BY <1>2, <1>3, Kept DEF SparseEnd, walk

LEMMA SparseFullInv == Inv /\ SparseFull /\ UNCHANGED <<key, dec, walk>> => Inv'
<1> SUFFICES ASSUME Inv, SparseFull, UNCHANGED <<key, dec, walk>> PROVE Inv'
  OBVIOUS
<1>0. UNCHANGED <<cur, ways, entryDone, got, place>> /\ pc = "sparse" /\ cur.kind = "sparse"
  BY DEF SparseFull, Inv, CallOK
<1>1. CASE Exhausted
  <2>1. Continue("finish")
    BY <1>1 DEF SparseFull
  <2>2. CallOK'
    BY <1>0, <2>1, Continued DEF Inv
  <2>3. Complete
    BY <1>0, <1>1, ExhaustedComplete
  <2> QED BY <1>0, <2>2, <2>3, Kept DEF walk
<1>2. CASE ~Exhausted
  <2>1. Return("ok")
    BY <1>2 DEF SparseFull
  <2>2. CallOK'
    BY <1>0, <2>1, Returned DEF Inv, CallOK
  <2>3. pc' # "finish" /\ ~readEnd' /\ entryDone' = entryDone /\ (~failed' => ~failed)
    BY <1>0, <2>1 DEF Return
  <2>4. entryDone' /\ ~failed' => Complete
    BY <1>0, <2>3 DEF Inv, DoneComplete
  <2> QED BY <1>0, <2>2, <2>3, <2>4, Kept DEF walk
<1> QED BY <1>1, <1>2

(* What a round reads that finds an extent ahead. *)
LEMMA AtExtent ==
  ASSUME Inv, cur.kind = "sparse", ~Exhausted
  PROVE  /\ sparseIdx \in 1..Len(Map) /\ Map \in Seq([off : Nat, data : Seq(Nat)])
         /\ Extent.off \in Nat /\ Extent.data \in Seq(Nat) /\ Len(Extent.data) \in Nat
         /\ EndOf(Extent) = Extent.off + Len(Extent.data)
         /\ sparseCursor = Len(got) /\ sparseCursor \in Nat /\ got \in Seq(Nat)
         /\ sparsePos \in Nat /\ sparsePos <= Len(Extent.data)
         /\ sparsePos > 0 => sparseCursor = Extent.off + sparsePos
         /\ sparseCursor <= Extent.off + sparsePos
<1>1. sparseIdx \in 1..Len(Map) /\ Map \in Seq([off : Nat, data : Seq(Nat)])
  BY DEF Inv, EntryOK, PlaceType, Exhausted, Map
<1>2. Extent \in [off : Nat, data : Seq(Nat)]
  BY <1>1, ElementOfSeq DEF Extent
<1>3. Extent.off \in Nat /\ Extent.data \in Seq(Nat) /\ Len(Extent.data) \in Nat
  BY <1>2
<1> QED BY <1>1, <1>3 DEF Inv, PlaceType, PlaceExact, CursorBound, EndOf

(* A round that hands over the bytes of their positions and moves the      *)
(* place along.                                                            *)
LEMMA Grows ==
  ASSUME Inv, cur.kind = "sparse", pc = "sparse", NEW t \in Seq(Nat), got' = got \o t,
         UNCHANGED <<pc, cur, ways, entryDone, readEnd, failed, archive, opened, headerOnly>>,
         want' \in Nat,
         \A p \in (Len(got) + 1)..(Len(got) + Len(t)) : t[p - Len(got)] = ByteAt(Map, p),
         sparseIdx' \in 1..(Len(Map) + 1), sparsePos' \in Nat, sparseCursor' \in Nat,
         PlaceExact', CursorBound'
  PROVE  Inv'
<1>1. got \in Seq(Nat) /\ Len(got) \in Nat /\ Len(t) \in Nat
  BY DEF Inv, PlaceType
<1>2. /\ got' \in Seq(Nat) /\ Len(got') = Len(got) + Len(t)
      /\ \A p \in 1..Len(got) : got'[p] = got[p]
      /\ \A p \in (Len(got) + 1)..(Len(got) + Len(t)) : got'[p] = t[p - Len(got)]
  BY <1>1, Joined
<1>3. EntryOK' /\ CallOK'
  BY DEF Inv, EntryOK, CallOK
<1>4. PlaceType'
  BY <1>2 DEF PlaceType, Map
<1>5. SparseExact'
  <2>1. Map' = Map
    BY DEF Map
  <2>2. SUFFICES ASSUME NEW p \in 1..Len(got') PROVE got'[p] = ByteAt(Map, p)
    BY <2>1 DEF SparseExact
  <2>3. CASE p \in 1..Len(got)
    BY <1>2, <2>3 DEF Inv, SparseExact
  <2>4. CASE p \in (Len(got) + 1)..(Len(got) + Len(t))
    BY <1>2, <2>4
  <2> QED BY <1>1, <1>2, <2>3, <2>4
<1>6. Complete => Complete'
  <2>1. SUFFICES ASSUME Complete, NEW i \in 1..Len(Map) PROVE EndOf(Map[i]) <= Len(got')
    BY DEF Complete, Map
  <2>2. EndOf(Map[i]) \in Nat /\ EndOf(Map[i]) <= Len(got)
    BY <2>1, ExtentType DEF Complete, Inv, EntryOK, Map
  <2> QED BY <1>1, <1>2, <2>2
<1>7. DoneComplete' /\ SparseEndsComplete'
  <2>1. entryDone /\ ~failed => Complete
    BY DEF Inv, DoneComplete
  <2>2. readEnd /\ ~failed => Complete
    BY DEF Inv, SparseEndsComplete, Complete
  <2>3. DoneComplete'
    BY <1>6, <2>1 DEF DoneComplete
  <2>4. readEnd' /\ ~failed' => Complete'
    BY <1>6, <2>2
  <2> QED BY <2>3, <2>4 DEF SparseEndsComplete, Complete
<1> QED BY <1>3, <1>4, <1>5, <1>7 DEF Inv

LEMMA SparseHoleInv == Inv /\ SparseHole /\ UNCHANGED <<key, dec, walk>> => Inv'
<1> SUFFICES ASSUME Inv, SparseHole, UNCHANGED <<key, dec, walk>> PROVE Inv'
  OBVIOUS
<1> DEFINE n == Least(Extent.off - sparseCursor, want)
<1>1. cur.kind = "sparse" /\ ~Exhausted /\ pc = "sparse" /\ sparseCursor < Extent.off
  BY DEF SparseHole, InHole, Inv, CallOK
<1>2. /\ sparseIdx \in 1..Len(Map) /\ Map \in Seq([off : Nat, data : Seq(Nat)])
      /\ Extent.off \in Nat /\ Len(Extent.data) \in Nat
      /\ EndOf(Extent) = Extent.off + Len(Extent.data)
      /\ sparseCursor = Len(got) /\ sparseCursor \in Nat /\ sparsePos \in Nat
      /\ sparsePos > 0 => sparseCursor = Extent.off + sparsePos
  BY <1>1, AtExtent
<1>3. want \in Nat /\ want > 0
  BY DEF SparseHole, Inv, CallOK
<1>4. n \in Nat /\ n <= want /\ sparseCursor + n <= Extent.off
  <2>1. Extent.off - sparseCursor \in Nat
    BY SMTT(30), <1>1, <1>2
  <2>2. n \in {Extent.off - sparseCursor, want} /\ n <= want /\ n <= Extent.off - sparseCursor
    BY <1>3, <2>1 DEF Least
  <2> HIDE DEF n
  <2> QED BY <1>2, <1>3, <2>1, <2>2
<1>5. /\ got' = got \o Zeros(n) /\ want' = want - n /\ sparseCursor' = sparseCursor + n
      /\ UNCHANGED <<pc, readEnd, failed, cur, ways, entryDone, sparseIdx, sparsePos>>
  BY DEF SparseHole
<1> HIDE DEF n
<1>6. sparsePos = 0
  BY <1>1, <1>2
<1>7. Zeros(n) \in Seq(Nat) /\ Len(Zeros(n)) = n /\ \A p \in 1..n : Zeros(n)[p] = 0
  BY <1>4, ZerosAre
<1>8. \A i \in 1..Len(Map) : i < sparseIdx => EndOf(Map[i]) \in Nat /\ EndOf(Map[i]) <= sparseCursor
  <2>1. SUFFICES ASSUME NEW i \in 1..Len(Map), i < sparseIdx
                 PROVE  EndOf(Map[i]) \in Nat /\ EndOf(Map[i]) <= sparseCursor
    OBVIOUS
  <2>2. i \in 1..(sparseIdx - 1)
    BY <1>2, <2>1
  <2>3. EndOf(Map[i]) <= sparseCursor
    BY <1>1, <2>2 DEF Inv, PlaceExact
  <2> QED BY <1>2, <2>3, ExtentType
<1>9. ASSUME NEW p \in (Len(got) + 1)..(Len(got) + Len(Zeros(n)))
      PROVE  Zeros(n)[p - Len(got)] = ByteAt(Map, p)
  <2>1. p \in Nat /\ p - Len(got) \in 1..n /\ p > sparseCursor /\ p <= Extent.off
    <3>1. p \in (sparseCursor + 1)..(sparseCursor + n)
      BY <1>2, <1>7
    <3>2. QED
      BY SMTT(30), <1>2, <1>4, <3>1
  <2>2. \A i \in 1..Len(Map) : i < sparseIdx => EndOf(Map[i]) < p
    BY <1>2, <1>8, <2>1
  <2>3. InOrder(Map) /\ p <= Map[sparseIdx].off
    BY <2>1 DEF Inv, EntryOK, Map, Extent
  <2>4. ByteAt(Map, p) = 0
    BY <1>2, <2>1, <2>2, <2>3, InHoleZero
  <2> QED BY <1>7, <2>1, <2>4
<1>10. UNCHANGED <<Map, Exhausted, Extent>>
  BY <1>5 DEF Map, Exhausted, Extent
<1>11. Len(got') = Len(got) + n
  <2>1. got \in Seq(Nat)
    BY <1>1 DEF Inv, PlaceType
  <2> QED BY <1>5, <1>7, <2>1, Joined
<1>12. PlaceExact' /\ CursorBound'
  <2>1. \A i \in 1..(sparseIdx - 1) : EndOf(Map[i]) <= sparseCursor + n
    <3>1. SUFFICES ASSUME NEW i \in 1..(sparseIdx - 1) PROVE EndOf(Map[i]) <= sparseCursor + n
      OBVIOUS
    <3>2. i \in 1..Len(Map) /\ i < sparseIdx
      BY <1>2
    <3>3. EndOf(Map[i]) \in Nat /\ EndOf(Map[i]) <= sparseCursor
      BY <1>8, <3>2
    <3> QED BY <1>2, <1>4, <3>3
  <2>2. sparseCursor + n <= EndOf(Extent)
    BY SMTT(30), <1>2, <1>4
  <2> QED BY <1>1, <1>2, <1>4, <1>5, <1>6, <1>10, <1>11, <2>1, <2>2 DEF PlaceExact, CursorBound
<1>13. want' \in Nat /\ sparseCursor' \in Nat
  BY <1>2, <1>3, <1>4, <1>5
<1>14. UNCHANGED <<archive, opened, headerOnly>>
  BY DEF walk
<1>15. sparseIdx' \in 1..(Len(Map) + 1) /\ sparsePos' \in Nat
  BY <1>5 DEF Inv, PlaceType
<1>16. UNCHANGED <<pc, cur, ways, entryDone, readEnd, failed, archive, opened, headerOnly>>
  BY <1>5, <1>14
<1> QED BY <1>1, <1>5, <1>7, <1>9, <1>12, <1>13, <1>15, <1>16, Grows

LEMMA SparseDataInv == Inv /\ SparseData /\ UNCHANGED <<key, dec, walk>> => Inv'
<1> SUFFICES ASSUME Inv, SparseData, UNCHANGED <<key, dec, walk>> PROVE Inv'
  OBVIOUS
<1> DEFINE n == Least(Len(Extent.data) - sparsePos, want)
           t == SubSeq(Extent.data, sparsePos + 1, sparsePos + n)
<1>1. cur.kind = "sparse" /\ ~Exhausted /\ pc = "sparse" /\ ~(sparseCursor < Extent.off)
  BY DEF SparseData, InHole, Inv, CallOK
<1>0. sparseIdx \in 1..Len(Map) /\ Map \in Seq([off : Nat, data : Seq(Nat)]) /\ Extent.data \in Seq(Nat)
  BY <1>1, AtExtent
<1>2. /\ Extent.off \in Nat /\ Len(Extent.data) \in Nat
      /\ EndOf(Extent) = Extent.off + Len(Extent.data)
      /\ sparseCursor = Len(got) /\ sparseCursor \in Nat
      /\ sparsePos \in Nat /\ sparsePos <= Len(Extent.data)
      /\ sparsePos > 0 => sparseCursor = Extent.off + sparsePos
      /\ sparseCursor <= Extent.off + sparsePos
  BY <1>1, AtExtent
<1>3. sparseCursor = Extent.off + sparsePos
  BY <1>1, <1>2
<1>4. want \in Nat /\ want > 0
  BY DEF SparseData, Inv, CallOK
<1>5. n \in Nat /\ n <= want /\ sparsePos + n <= Len(Extent.data)
  <2>1. Len(Extent.data) - sparsePos \in Nat
    BY <1>2
  <2>2. n \in {Len(Extent.data) - sparsePos, want} /\ n <= want /\ n <= Len(Extent.data) - sparsePos
    BY <1>4, <2>1 DEF Least
  <2> HIDE DEF n
  <2> QED BY <1>2, <1>4, <2>1, <2>2
<1>6. /\ got' = got \o t /\ want' = want - n /\ sparseCursor' = sparseCursor + n
      /\ sparsePos' = NextPos(sparsePos + n)
      /\ sparseIdx' = (IF ExtentRead(sparsePos + n) THEN sparseIdx + 1 ELSE sparseIdx)
      /\ UNCHANGED <<pc, readEnd, failed, cur, ways, entryDone>>
  BY DEF SparseData
<1> HIDE DEF n
<1>7. t \in Seq(Nat) /\ Len(t) = n /\ \A p \in 1..n : t[p] = Extent.data[sparsePos + p]
  <2>1. sparsePos \in Nat /\ sparsePos + n <= Len(Extent.data)
    BY <1>2, <1>5
  <2> QED BY <1>0, <1>5, <2>1, PortionIs
<1> HIDE DEF t
<1>8. \A i \in 1..Len(Map) : i < sparseIdx => EndOf(Map[i]) \in Nat /\ EndOf(Map[i]) <= sparseCursor
  <2>1. SUFFICES ASSUME NEW i \in 1..Len(Map), i < sparseIdx
                 PROVE  EndOf(Map[i]) \in Nat /\ EndOf(Map[i]) <= sparseCursor
    OBVIOUS
  <2>2. i \in 1..(sparseIdx - 1)
    BY <1>0, <2>1
  <2>3. EndOf(Map[i]) <= sparseCursor
    BY <1>1, <2>2 DEF Inv, PlaceExact
  <2> QED BY <1>0, <2>3, ExtentType
<1>9. ASSUME NEW p \in (Len(got) + 1)..(Len(got) + Len(t))
      PROVE  t[p - Len(got)] = ByteAt(Map, p)
  <2>1. p \in Nat /\ p - Len(got) \in 1..n /\ Extent.off < p /\ p <= EndOf(Extent)
    <3>1. p \in (sparseCursor + 1)..(sparseCursor + n)
      BY <1>2, <1>7
    <3>2. p \in Nat /\ p > Extent.off + sparsePos /\ p <= Extent.off + sparsePos + n
      <4>1. p \in Nat /\ p > sparseCursor /\ p <= sparseCursor + n
        BY <1>2, <1>5, <3>1
      <4> QED BY <1>3, <4>1
    <3>3. p - sparseCursor \in 1..n
      BY <1>2, <1>5, <3>1
    <3>4. p <= EndOf(Extent)
      BY <1>2, <1>5, <3>2
    <3> QED BY <1>2, <3>2, <3>3, <3>4
  <2>2. ByteAt(Map, p) = Extent.data[p - Extent.off]
    BY <1>0, <2>1, InExtent DEF Inv, EntryOK, Map, Extent
  <2>3. sparsePos + (p - Len(got)) = p - Extent.off
    <3>1. sparsePos + (p - (Extent.off + sparsePos)) = p - Extent.off
      BY <1>2, <2>1
    <3> QED BY <1>2, <1>3, <3>1
  <2> QED BY <1>7, <2>1, <2>2, <2>3
<1>10. Map' = Map /\ Len(Map) \in Nat
  BY <1>0, <1>6 DEF Map
<1>11. Len(got') = Len(got) + n
  <2>1. got \in Seq(Nat)
    BY <1>1 DEF Inv, PlaceType
  <2> QED BY <1>6, <1>7, <2>1, Joined
<1>12. sparseIdx' \in 1..(Len(Map) + 1) /\ sparsePos' \in Nat /\ sparseCursor' \in Nat /\ want' \in Nat
  <2>1. sparsePos' \in Nat
    BY <1>2, <1>5, <1>6 DEF NextPos
  <2>2. sparseIdx' \in 1..(Len(Map) + 1)
    BY <1>0, <1>6, <1>10
  <2> QED BY <1>2, <1>4, <1>5, <1>6, <2>1, <2>2
<1>13. PlaceExact' /\ CursorBound'
  <2>1. CASE ExtentRead(sparsePos + n)
    <3>1. sparsePos + n = Len(Extent.data) /\ sparseIdx' = sparseIdx + 1 /\ sparsePos' = 0
      <4>1. sparsePos + n >= Len(Extent.data)
        BY <2>1 DEF ExtentRead
      <4>2. sparsePos + n = Len(Extent.data)
        BY <1>2, <1>5, <4>1
      <4> QED BY <1>6, <2>1, <4>2 DEF NextPos
    <3>2. sparseCursor' = EndOf(Extent)
      BY <1>2, <1>3, <1>5, <1>6, <3>1
    <3>3. \A i \in 1..(sparseIdx' - 1) : EndOf(Map[i]) <= sparseCursor'
      <4>1. SUFFICES ASSUME NEW i \in 1..sparseIdx PROVE EndOf(Map[i]) <= sparseCursor'
        BY <1>0, <3>1
      <4>2. CASE i = sparseIdx
        BY <1>2, <3>2, <4>2 DEF Extent
      <4>3. CASE i < sparseIdx
        <5>1. EndOf(Map[i]) \in Nat /\ EndOf(Map[i]) <= sparseCursor
          BY <1>0, <1>8, <4>3
        <5> QED BY <1>2, <1>5, <1>6, <5>1
      <4> QED BY <1>0, <4>2, <4>3
    <3>4. CASE Exhausted'
      BY <1>2, <1>5, <1>6, <1>10, <1>11, <3>3, <3>4 DEF PlaceExact, CursorBound
    <3>5. CASE ~Exhausted'
      <4>1. sparseIdx + 1 \in 1..Len(Map) /\ Extent' = Map[sparseIdx + 1]
        BY <1>0, <1>10, <3>1, <3>5 DEF Exhausted, Extent
      <4>2. EndOf(Extent) <= Extent'.off
        BY SMTT(30), <1>0, <4>1 DEF Inv, EntryOK, InOrder, Map, Extent
      <4>3. Extent' \in [off : Nat, data : Seq(Nat)]
        BY <1>0, <4>1, ElementOfSeq
      <4>4. Extent'.off \in Nat /\ Len(Extent'.data) \in Nat /\ EndOf(Extent') = Extent'.off + Len(Extent'.data)
        BY <4>3 DEF EndOf
      <4>5. sparseCursor' <= Extent'.off /\ sparseCursor' <= EndOf(Extent')
        BY <1>12, <3>2, <4>2, <4>4
      <4>6. sparseCursor' = Len(got')
        BY <1>2, <1>6, <1>11
      <4>7. /\ sparsePos' <= Len(Extent'.data) /\ ~(sparsePos' > 0)
            /\ sparseCursor' <= Extent'.off + sparsePos'
        BY <1>12, <3>1, <4>4, <4>5
      <4> QED BY <1>10, <3>3, <4>5, <4>6, <4>7 DEF PlaceExact, CursorBound
    <3> QED BY <3>4, <3>5
  <2>2. CASE ~ExtentRead(sparsePos + n)
    <3>1. sparsePos' = sparsePos + n /\ sparseIdx' = sparseIdx /\ UNCHANGED <<Exhausted, Extent>>
      BY <1>6, <1>10, <2>2 DEF NextPos, Exhausted, Extent
    <3>2. sparseCursor' = Extent.off + (sparsePos + n) /\ sparseCursor' <= EndOf(Extent)
      BY SMTT(30), <1>2, <1>3, <1>5, <1>6
    <3>3. \A i \in 1..(sparseIdx - 1) : EndOf(Map[i]) <= sparseCursor + n
      <4>1. SUFFICES ASSUME NEW i \in 1..(sparseIdx - 1) PROVE EndOf(Map[i]) <= sparseCursor + n
        OBVIOUS
      <4>2. i \in 1..Len(Map) /\ i < sparseIdx
        BY <1>0
      <4>3. EndOf(Map[i]) \in Nat /\ EndOf(Map[i]) <= sparseCursor
        BY <1>8, <4>2
      <4> QED BY <1>2, <1>5, <4>3
    <3>4. /\ sparseCursor' = Len(got') /\ sparsePos' <= Len(Extent.data)
          /\ sparseCursor' <= Extent.off + sparsePos' /\ sparseCursor' = Extent.off + sparsePos'
      <4>1. sparseCursor' = Len(got')
        BY <1>2, <1>6, <1>11
      <4>2. sparsePos' <= Len(Extent.data)
        BY <1>5, <3>1
      <4>3. sparseCursor' = Extent.off + sparsePos'
        BY <3>1, <3>2
      <4> QED BY <1>12, <4>1, <4>2, <4>3
    <3>5. \A i \in 1..(sparseIdx' - 1) : EndOf(Map[i]) <= sparseCursor'
      BY <1>6, <3>1, <3>3
    <3> QED BY <1>10, <3>1, <3>2, <3>4, <3>5 DEF PlaceExact, CursorBound
  <2> QED BY <2>1, <2>2
<1>14. UNCHANGED <<pc, cur, ways, entryDone, readEnd, failed, archive, opened, headerOnly>>
  BY <1>6 DEF walk
<1> QED BY <1>1, <1>6, <1>7, <1>9, <1>12, <1>13, <1>14, Grows

-----------------------------------------------------------------------------
(* Every step of the Reader keeps the invariant. *)
LEMMA StepInv == Inv /\ [Next]_vars => Inv'
<1> SUFFICES ASSUME Inv, [Next]_vars PROVE Inv'
  OBVIOUS
<1>1. CASE NextFile
  BY <1>1, NextFileInv
<1>2. CASE NextFails
  BY <1>2, NextFailsInv
<1>3. CASE \E k \in 1..MaxRead : Call(k)
  <2>1. PICK k \in 1..MaxRead : Call(k)
    BY <1>3
  <2> QED BY <2>1, CallPlainInv, CallSparseInv, CallDecodedInv DEF Call
<1>4. CASE Step
  <2>1. CASE SparseStep /\ UNCHANGED <<key, dec, walk>>
    BY <2>1, SparseEndInv, SparseHoleInv, SparseDataInv, SparseFullInv DEF SparseStep
  <2>2. CASE DecoderStep /\ UNCHANGED <<place, walk>>
    BY <2>2, DecoderInv
  <2>3. CASE (ReadDone \/ Finish) /\ UNCHANGED <<place, key, dec, walk>>
    BY <2>3, ReadDoneInv, FinishInv
  <2> QED BY <1>4, <2>1, <2>2, <2>3 DEF Step
<1>5. CASE UNCHANGED vars
  <2>1. UNCHANGED <<cur, ways, pc, want, res, readEnd, failed, got, entryDone, place,
                    archive, opened, headerOnly>>
    BY <1>5 DEF vars, rcVars, call, walk
  <2>2. CallOK'
    BY <2>1 DEF Inv, CallOK
  <2>3. cur.kind = "sparse" /\ (pc = "finish" \/ ((entryDone \/ readEnd) /\ ~failed)) => Complete
    BY DEF Inv, DoneComplete, SparseEndsComplete, Complete
  <2> QED BY <2>1, <2>2, <2>3, Kept
<1> QED BY <1>1, <1>2, <1>3, <1>4, <1>5 DEF Next

(* The invariant holds throughout. *)
THEOREM Invariant == Spec => []Inv
<1> QED BY InitInv, StepInv, PTL DEF Spec

(* Each byte of a sparse file that Read hands over is the one recorded for *)
(* its position or a zero of a hole, whatever portions it is asked for     *)
(* (readSparse).                                                           *)
THEOREM SparseExactHolds == Spec => []SparseExact
<1>1. Inv => SparseExact
  BY DEF Inv
<1> QED BY Invariant, <1>1, PTL

(* The fields sparseIdx, sparsePos and sparseCursor always say where in    *)
(* the map the reading stands (readSparse, Next).                          *)
THEOREM PlaceExactHolds == Spec => []PlaceExact
<1>1. Inv => PlaceExact
  BY DEF Inv
<1> QED BY Invariant, <1>1, PTL

(* io.EOF comes only behind the last extent, unless a call on the file has *)
(* failed (readSparse, finishEntry).                                       *)
THEOREM SparseEndsCompleteHolds == Spec => []SparseEndsComplete
<1>1. Inv => SparseEndsComplete
  BY DEF Inv
<1> QED BY Invariant, <1>1, PTL
=============================================================================
