----------------------------- MODULE Recursion -----------------------------
(***************************************************************************)
(* Induction and recursion for proofs about recursive functions.  The      *)
(* library's theorems on them take operators as parameters; here their     *)
(* place is taken by sets and functions: the set of the arguments for      *)
(* which something holds, and the functions a recursion is made of.        *)
(***************************************************************************)
EXTENDS Integers, TLAPS, WellFoundedInduction

(* A set of naturals that is not empty has a least element.                *)
LEMMA LeastNatural ==
  ASSUME NEW T \in SUBSET Nat, T # {}
  PROVE  \E x \in T : \A y \in T : x <= y
<1> DEFINE R == OpToRel(<, Nat)
<1>1. IsWellFoundedOn(R, Nat)
  BY NatLessThanWellFounded
<1>2. \A x, y \in Nat : y < x => <<y, x>> \in R
  BY DEF OpToRel
<1> HIDE DEF R
<1>3. PICK x \in T : \A y \in T : ~ (<<y, x>> \in R)
  BY <1>1, WFMin, Zenon
<1>4. \A y \in T : ~(y < x)
  <2> TAKE y \in T
  <2>1. x \in Nat /\ y \in Nat
    BY Zenon
  <2>2. QED
    BY <1>2, <1>3, <2>1, Zenon
<1>5. \A y \in T : x <= y
  BY <1>4
<1>6. QED
  BY <1>5

(* Induction over the naturals: S is the set for which the claim holds.    *)
LEMMA NaturalInduction ==
  ASSUME NEW S \in SUBSET Nat, 0 \in S, \A n \in S : n + 1 \in S
  PROVE  S = Nat
<1> DEFINE T == Nat \ S
<1>1. SUFFICES ASSUME T # {} PROVE FALSE
  OBVIOUS
<1>2. PICK x \in T : \A y \in T : x <= y
  BY <1>1, LeastNatural
<1>3. x - 1 \in Nat /\ x - 1 \notin T
  BY <1>2
<1>4. QED
  BY <1>2, <1>3

(* Induction over a measure m: a claim holds for all of D if it holds for  *)
(* each x of D for which it holds below x.                                 *)
Inductive(D, m, S) ==
  \A x \in D : (\A y \in D : m[y] < m[x] => y \in S) => x \in S

LEMMA MeasureInduction ==
  ASSUME NEW D, NEW m \in [D -> Nat], NEW S \in SUBSET D, Inductive(D, m, S)
  PROVE  S = D
<1> DEFINE T == {m[x] : x \in D \ S}
<1>1. SUFFICES ASSUME D \ S # {} PROVE FALSE
  OBVIOUS
<1>2. T \in SUBSET Nat /\ T # {}
  BY <1>1
<1>3. PICK k \in T : \A j \in T : k <= j
  BY <1>2, LeastNatural
<1>4. PICK x \in D \ S : m[x] = k
  BY <1>3
<1>5. ASSUME NEW y \in D, m[y] < m[x] PROVE y \in S
  <2>1. SUFFICES ASSUME y \notin S PROVE FALSE
    OBVIOUS
  <2>2. m[y] \in T /\ m[x] \in Nat /\ m[y] \in Nat
    BY <2>1
  <2>3. m[x] <= m[y]
    BY <1>3, <1>4, <2>2
  <2>4. QED
    BY <1>5, <2>2, <2>3
<1>6. QED
  BY <1>4, <1>5 DEF Inductive

(* A sequence of values each of which is made of the one before.           *)
Iterates(f, z, step) == f[0] = z /\ \A n \in Nat : f[n + 1] = step[f[n]]

LEMMA Iteration ==
  ASSUME NEW S, NEW z \in S, NEW step \in [S -> S]
  PROVE  \E f \in [Nat -> S] : Iterates(f, z, step)
<1> DEFINE Starts(n) == {g \in [0..n -> S] :
                           g[0] = z /\ \A i \in 0..(n - 1) : g[i + 1] = step[g[i]]}
<1>1. \A n \in Nat : Starts(n) # {}
  <2> DEFINE P == {n \in Nat : Starts(n) # {}}
  <2>1. 0 \in P
    <3>1. [i \in 0..0 |-> z] \in Starts(0)
      OBVIOUS
    <3>2. QED
      BY <3>1
  <2>2. ASSUME NEW n \in P PROVE n + 1 \in P
    <3>1. PICK g \in Starts(n) : TRUE
      OBVIOUS
    <3> DEFINE h == [i \in 0..(n + 1) |-> IF i <= n THEN g[i] ELSE step[g[n]]]
    <3>2. n \in Nat /\ g \in [0..n -> S] /\ g[0] = z
          /\ \A i \in 0..(n - 1) : g[i + 1] = step[g[i]]
      OBVIOUS
    <3>3. h \in [0..(n + 1) -> S] /\ h[0] = z
      BY <3>2
    <3>4. ASSUME NEW i \in 0..n PROVE h[i + 1] = step[h[i]]
      <4>1. CASE i = n
        BY <3>2, <4>1
      <4>2. CASE i < n
        <5>1. i \in 0..(n - 1) /\ h[i] = g[i] /\ h[i + 1] = g[i + 1]
          BY <3>2, <4>2
        <5>2. QED
          BY <3>2, <5>1
      <4>3. QED
        BY <3>2, <4>1, <4>2
    <3>5. h \in Starts(n + 1)
      <4>1. (n + 1) - 1 = n
        BY <3>2
      <4> HIDE DEF h
      <4>2. QED
        BY <3>3, <3>4, <4>1
    <3> HIDE DEF h, Starts
    <3>6. n + 1 \in Nat /\ Starts(n + 1) # {}
      BY <3>2, <3>5
    <3>7. QED
      BY <3>6
  <2>3. P = Nat
    <3> HIDE DEF P
    <3>1. P \in SUBSET Nat
      BY DEF P
    <3>2. QED
      BY <2>1, <2>2, <3>1, NaturalInduction
  <2>4. QED
    BY <2>3
<1>2. \A n \in Nat : \A g \in Starts(n), h \in Starts(n + 1) : g[n] = h[n]
  <2> SUFFICES ASSUME NEW n \in Nat, NEW g \in Starts(n), NEW h \in Starts(n + 1)
               PROVE  g[n] = h[n]
    OBVIOUS
  <2> DEFINE P == {i \in Nat : i <= n => g[i] = h[i]}
  <2>1. 0 \in P
    OBVIOUS
  <2>2. ASSUME NEW i \in P PROVE i + 1 \in P
    <3>1. SUFFICES ASSUME i + 1 <= n PROVE g[i + 1] = h[i + 1]
      OBVIOUS
    <3>2. i \in 0..(n - 1) /\ i \in 0..((n + 1) - 1)
      BY <3>1
    <3>3. g[i + 1] = step[g[i]] /\ h[i + 1] = step[h[i]]
      BY <3>2
    <3>4. g[i] = h[i]
      BY <3>1
    <3>5. QED
      BY <3>3, <3>4
  <2>3. P = Nat
    <3> HIDE DEF P
    <3>1. P \in SUBSET Nat
      BY DEF P
    <3>2. QED
      BY <2>1, <2>2, <3>1, NaturalInduction
  <2>4. QED
    BY <2>3
<1> DEFINE last(n) == CHOOSE g \in Starts(n) : TRUE
<1> DEFINE f == [n \in Nat |-> last(n)[n]]
<1>3. \A n \in Nat : last(n) \in Starts(n)
  BY <1>1
<1>4. f \in [Nat -> S] /\ f[0] = z
  <2>1. ASSUME NEW n \in Nat PROVE last(n)[n] \in S
    <3>1. last(n) \in [0..n -> S]
      BY <1>3
    <3> HIDE DEF last
    <3>2. QED
      BY <3>1
  <2>2. last(0)[0] = z
    BY <1>3
  <2> HIDE DEF last
  <2>3. QED
    BY <2>1, <2>2
<1>5. ASSUME NEW n \in Nat PROVE f[n + 1] = step[f[n]]
  <2> HIDE DEF last
  <2>1. last(n) \in Starts(n) /\ last(n + 1) \in Starts(n + 1)
    <3> HIDE DEF Starts
    <3>1. QED
      BY <1>3
  <2>2. last(n)[n] = last(n + 1)[n]
    BY <1>2, <2>1
  <2>3. last(n + 1)[n + 1] = step[last(n + 1)[n]]
    <3>1. n \in 0..((n + 1) - 1)
      OBVIOUS
    <3>2. QED
      BY <2>1, <3>1
  <2>4. QED
    BY <2>2, <2>3
<1>6. QED
  BY <1>4, <1>5 DEF Iterates

(* A function that is defined by recursion along `next', from the arguments *)
(* in `ends' back, exists: each value is made of one other, whose argument  *)
(* has a smaller measure.                                                  *)
Recursive(f, D, ends, next, base, comb) ==
  \A x \in D : f[x] = IF x \in ends THEN base[x] ELSE comb[x][f[next[x]]]

LEMMA RecursionExists ==
  ASSUME NEW D, NEW S, NEW m \in [D -> Nat], NEW ends \in SUBSET D,
         NEW next \in [D \ ends -> D], NEW base \in [ends -> S],
         NEW comb \in [D \ ends -> [S -> S]],
         \A x \in D \ ends : m[next[x]] < m[x]
  PROVE  \E f \in [D -> S] : Recursive(f, D, ends, next, base, comb)
<1>1. CASE S = {}
  <2>1. ends = {}
    BY <1>1
  <2>2. D = {}
    <3>1. Inductive(D, m, {})
      BY <2>1 DEF Inductive
    <3>2. {} = D
      BY <3>1, MeasureInduction
    <3>3. QED
      BY <3>2
  <2>3. QED
    BY <2>2 DEF Recursive
<1>2. CASE S # {}
  <2>1. PICK s \in S : TRUE
    BY <1>2
  <2> DEFINE F == [D -> S]
  <2> DEFINE z == [x \in D |-> s]
  <2> DEFINE better(g) == [x \in D |-> IF x \in ends THEN base[x] ELSE comb[x][g[next[x]]]]
  <2> DEFINE step == [g \in F |-> better(g)]
  <2>2. z \in F /\ step \in [F -> F]
    <3>1. ASSUME NEW g \in F PROVE better(g) \in F
      OBVIOUS
    <3> HIDE DEF better
    <3>2. QED
      BY <3>1
  <2>3. PICK h \in [Nat -> F] : h[0] = z /\ \A n \in Nat : h[n + 1] = step[h[n]]
    <3> HIDE DEF F, z, step
    <3>1. \E h \in [Nat -> F] : Iterates(h, z, step)
      BY <2>2, Iteration, Zenon
    <3>2. QED
      BY <3>1 DEF Iterates
  <2>4. \A n \in Nat : \A x \in D :
          h[n + 1][x] = IF x \in ends THEN base[x] ELSE comb[x][h[n][next[x]]]
    <3> SUFFICES ASSUME NEW n \in Nat, NEW x \in D
                 PROVE  h[n + 1][x] = IF x \in ends THEN base[x]
                                      ELSE comb[x][h[n][next[x]]]
      OBVIOUS
    <3>1. h[n] \in F
      BY <2>3
    <3>2. h[n + 1] = better(h[n])
      BY <2>3, <3>1
    <3>3. QED
      BY <3>2
  <2> HIDE DEF step
  <2> DEFINE P == {x \in D : \A n \in Nat : n > m[x] => h[n][x] = h[m[x] + 1][x]}
  <2>5. P = D
    <3>1. ASSUME NEW x \in D, \A y \in D : m[y] < m[x] => y \in P
          PROVE  x \in P
      <4>1. m[x] \in Nat
        OBVIOUS
      <4> SUFFICES ASSUME NEW n \in Nat, n > m[x] PROVE h[n][x] = h[m[x] + 1][x]
        OBVIOUS
      <4>2. n - 1 \in Nat /\ (n - 1) + 1 = n /\ n - 1 >= m[x]
        BY <4>1
      <4>3. h[n][x] = IF x \in ends THEN base[x] ELSE comb[x][h[n - 1][next[x]]]
        BY <2>4, <4>2
      <4>4. h[m[x] + 1][x] = IF x \in ends THEN base[x] ELSE comb[x][h[m[x]][next[x]]]
        BY <2>4, <4>1
      <4>5. CASE x \notin ends
        <5> DEFINE y == next[x]
        <5>1. y \in D /\ m[y] < m[x] /\ m[y] \in Nat
          BY <4>5
        <5>2. y \in P
          BY <3>1, <5>1
        <5>3. n - 1 > m[y] /\ m[x] > m[y]
          BY <4>1, <4>2, <5>1
        <5>4. h[n - 1][y] = h[m[x]][y]
          BY <4>1, <4>2, <5>2, <5>3
        <5>5. QED
          BY <4>3, <4>4, <4>5, <5>4
      <4>6. QED
        BY <4>3, <4>4, <4>5
    <3> HIDE DEF P
    <3>2. P \in SUBSET D
      BY DEF P
    <3>3. Inductive(D, m, P)
      BY <3>1 DEF Inductive
    <3>4. QED
      BY <3>2, <3>3, MeasureInduction, Zenon
  <2> DEFINE f == [x \in D |-> h[m[x] + 1][x]]
  <2>6. f \in [D -> S]
    <3>1. ASSUME NEW x \in D PROVE h[m[x] + 1][x] \in S
      <4>1. h[m[x] + 1] \in F
        BY <2>3
      <4>2. QED
        BY <4>1
    <3>2. QED
      BY <3>1
  <2>7. ASSUME NEW x \in D
        PROVE  f[x] = IF x \in ends THEN base[x] ELSE comb[x][f[next[x]]]
    <3>1. f[x] = IF x \in ends THEN base[x] ELSE comb[x][h[m[x]][next[x]]]
      BY <2>4
    <3>2. CASE x \notin ends
      <4> DEFINE y == next[x]
      <4>1. y \in D /\ m[y] < m[x] /\ m[y] \in Nat /\ m[x] \in Nat
        BY <3>2
      <4>2. y \in P
        BY <2>5, <4>1
      <4>3. h[m[x]][y] = h[m[y] + 1][y]
        BY <4>1, <4>2
      <4>4. f[y] = h[m[x]][y]
        BY <4>1, <4>3
      <4>5. QED
        BY <3>1, <3>2, <4>4
    <3>3. QED
      BY <3>1, <3>2
  <2>8. QED
    BY <2>6, <2>7 DEF Recursive
<1>3. QED
  BY <1>1, <1>2

(* The same for a function of 0..n that counts up from z.                  *)
Counts(f, n, z, step) == f[0] = z /\ \A k \in 1..n : f[k] = step[k][f[k - 1]]

LEMMA CountingExists ==
  ASSUME NEW n \in Nat, NEW S, NEW z \in S, NEW step \in [1..n -> [S -> S]]
  PROVE  \E f \in [0..n -> S] : Counts(f, n, z, step)
<1> DEFINE D    == 0..n
           m    == [k \in D |-> k]
           prev == [k \in D \ {0} |-> k - 1]
           base == [k \in {0} |-> z]
           comb == [k \in D \ {0} |-> step[k]]
<1>1. m \in [D -> Nat] /\ prev \in [D \ {0} -> D] /\ base \in [{0} -> S] /\ {0} \in SUBSET D
  OBVIOUS
<1>2. comb \in [D \ {0} -> [S -> S]]
  <2>1. D \ {0} = 1..n
    OBVIOUS
  <2> HIDE DEF D
  <2>2. QED
    BY <2>1
<1>3. \A k \in D \ {0} : m[prev[k]] < m[k]
  OBVIOUS
<1>4. PICK f \in [D -> S] : Recursive(f, D, {0}, prev, base, comb)
  <2> HIDE DEF m, prev, base, comb, D
  <2>1. QED
    BY <1>1, <1>2, <1>3, RecursionExists, Zenon
<1>5. f[0] = z
  BY <1>4 DEF Recursive
<1>6. ASSUME NEW k \in 1..n PROVE f[k] = step[k][f[k - 1]]
  <2>1. k \in D /\ k # 0
    OBVIOUS
  <2>2. f[k] = comb[k][f[prev[k]]]
    BY <1>4, <2>1 DEF Recursive
  <2>3. QED
    BY <2>1, <2>2
<1>7. QED
  BY <1>5, <1>6 DEF Counts
=============================================================================
