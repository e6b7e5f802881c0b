--------------------------- MODULE RecursionLemmas --------------------------
(* Induction over the natural numbers for sets, and what it gives: the     *)
(* recursive functions of the codecs satisfy their equations.              *)
EXTENDS Integers, NaturalsInduction, WellFoundedInduction, TLAPS

(* A set of natural numbers that is not empty has a least one. *)
LEMMA LeastNat == ASSUME NEW T, T \subseteq Nat, T # {} PROVE \E n \in T : \A m \in T : n <= m
<1> DEFINE R == {p \in Nat \X Nat : p[1] < p[2]}
<1>1. IsWellFoundedOn(R, Nat)
  <2>1. R = OpToRel(<, Nat)
    BY DEF OpToRel
  <2>. QED
    BY <2>1, NatLessThanWellFounded
<1>2. \A m, n \in Nat : m < n => <<m, n>> \in R
  OBVIOUS
<1> HIDE DEF R
<1>3. PICK n \in T : \A m \in T : <<m, n>> \notin R
  BY <1>1, WFMin
<1>4. \A m \in T : n <= m
  <2> TAKE m \in T
  <2>1. m \in Nat /\ n \in Nat
    OBVIOUS
  <2>2. ~(m < n)
    BY <1>2, <1>3, <2>1
  <2>. QED
    BY <2>1, <2>2
<1>. QED
  BY <1>4

(* Induction, for a set of numbers instead of a predicate. *)
LEMMA SetInduction == ASSUME NEW P, P \subseteq Nat, 0 \in P, \A n \in P : n + 1 \in P PROVE P = Nat
<1> DEFINE T == Nat \ P
<1> SUFFICES ASSUME T # {} PROVE FALSE
  OBVIOUS
<1>1. PICK n \in T : \A m \in T : n <= m
  BY LeastNat
<1>2. n # 0 /\ n - 1 \in Nat /\ n - 1 + 1 = n
  BY <1>1
<1>3. n - 1 \in P
  BY <1>1, <1>2
<1>. QED
  BY <1>1, <1>2, <1>3

(* A loop: a first value, and N rounds that each make the next one. *)
Rounds(N, S) == [1 .. N -> [S -> S]]

IsLoop(f, N, S, a, G) == f \in [0 .. N -> S] /\ f[0] = a /\ \A i \in 1 .. N : f[i] = G[i][f[i - 1]]

(* The loop runs: there is a function of the rounds with these equations. *)
LEMMA LoopDefined ==
    ASSUME NEW N \in Nat, NEW S, NEW a \in S, NEW G \in Rounds(N, S)
    PROVE  \E f : IsLoop(f, N, S, a, G)
<1>0. G \in [1 .. N -> [S -> S]]
  BY DEF Rounds
<1> DEFINE Loop(n, f) == f \in [0 .. n -> S] /\ f = [i \in 0 .. n |-> IF i = 0 THEN a ELSE G[i][f[i - 1]]]
           P == {n \in Nat : n <= N => \E f : Loop(n, f)}
<1> HIDE DEF Loop
<1>1. 0 \in P
  <2>1. Loop(0, [i \in 0 .. 0 |-> a])
    BY DEF Loop
  <2>. QED
    BY <2>1
<1>2. ASSUME NEW n \in P PROVE n + 1 \in P
  <2>1. SUFFICES ASSUME n + 1 <= N PROVE \E f : Loop(n + 1, f)
    OBVIOUS
  <2>2. n \in Nat /\ n <= N
    BY <2>1
  <2>3. PICK f : Loop(n, f)
    BY <2>2
  <2> HIDE DEF P
  <2> DEFINE g == [i \in 0 .. n + 1 |-> IF i = n + 1 THEN G[n + 1][f[n]] ELSE f[i]]
  <2>4. G[n + 1] \in [S -> S] /\ f[n] \in S
    BY <1>0, <2>1, <2>2, <2>3 DEF Loop
  <2>5. g \in [0 .. n + 1 -> S]
    BY <2>2, <2>3, <2>4 DEF Loop
  <2>6. ASSUME NEW i \in 0 .. n + 1 PROVE g[i] = IF i = 0 THEN a ELSE G[i][g[i - 1]]
    <3>1. CASE i = n + 1
      BY <2>2, <3>1
    <3>2. CASE i # n + 1
      <4>1. g[i] = f[i] /\ (i # 0 => g[i - 1] = f[i - 1])
        BY <2>2, <3>2
      <4>2. f[i] = IF i = 0 THEN a ELSE G[i][f[i - 1]]
        BY <2>2, <2>3, <3>2 DEF Loop
      <4>. QED
        BY <4>1, <4>2
    <3>. QED
      BY <3>1, <3>2
  <2>7. g = [i \in 0 .. n + 1 |-> IF i = 0 THEN a ELSE G[i][g[i - 1]]]
    BY <2>6
  <2>8. Loop(n + 1, g)
    BY <2>5, <2>7 DEF Loop
  <2>. QED
    BY <2>8
<1>3. P = Nat
  <2>1. P \subseteq Nat
    OBVIOUS
  <2> HIDE DEF P
  <2>. QED
    BY <1>1, <1>2, <2>1, SetInduction
<1>4. PICK f : Loop(N, f)
  <2>1. N \in P
    BY <1>3
  <2>. QED
    BY <2>1
<1>5. f \in [0 .. N -> S]
  BY <1>4 DEF Loop
<1>6. f[0] = a /\ \A i \in 1 .. N : f[i] = G[i][f[i - 1]]
  BY <1>4 DEF Loop
<1>. QED
  BY <1>5, <1>6 DEF IsLoop

(* A number is taken apart: what is computed for n is made from what is    *)
(* computed for a smaller number, h[n].                                    *)
IsDescent(f, S, m, A, G, h) ==
    f \in [Nat -> S] /\ \A n \in Nat : f[n] = IF n < m THEN A[n] ELSE G[n][f[h[n]]]

Descends(S, m, A, G, h) ==
    /\ A \in [Nat -> S] /\ G \in [Nat -> [S -> S]] /\ h \in [Nat -> Nat]
    /\ \A n \in Nat : n >= m => h[n] < n

(* Such a recursion is well founded: there is a function with its equation. *)
LEMMA DescentDefined ==
    ASSUME NEW S, NEW m \in Nat, NEW A, NEW G, NEW h, Descends(S, m, A, G, h)
    PROVE  \E f : IsDescent(f, S, m, A, G, h)
<1> USE DEF Descends
<1> DEFINE Up(n, f) == f \in [0 .. n -> S] /\ \A i \in 0 .. n : f[i] = IF i < m THEN A[i] ELSE G[i][f[h[i]]]
           P == {n \in Nat : /\ \E f : Up(n, f)
                             /\ \A f, g : Up(n, f) /\ Up(n, g) => f = g}
<1>0. ASSUME NEW n \in Nat, NEW f, Up(n + 1, f) PROVE Up(n, [i \in 0 .. n |-> f[i]])
  <2> DEFINE g == [i \in 0 .. n |-> f[i]]
  <2>1. g \in [0 .. n -> S]
    BY <1>0
  <2>2. ASSUME NEW i \in 0 .. n PROVE g[i] = IF i < m THEN A[i] ELSE G[i][g[h[i]]]
    <3>1. i \in Nat /\ i \in 0 .. n + 1
      OBVIOUS
    <3>2. f[i] = IF i < m THEN A[i] ELSE G[i][f[h[i]]]
      BY <1>0, <3>1
    <3>3. i >= m => h[i] \in 0 .. n
      BY <3>1
    <3>. QED
      BY <3>1, <3>2, <3>3
  <2>. QED
    BY <2>1, <2>2
<1> HIDE DEF Up
<1>1. 0 \in P
  <2> DEFINE f0 == [i \in 0 .. 0 |-> A[0]]
  <2>1. m > 0
    <3>1. SUFFICES ASSUME m = 0 PROVE FALSE
      OBVIOUS
    <3>2. h[0] \in Nat /\ h[0] < 0
      BY <3>1
    <3>. QED
      BY <3>2
  <2>2. Up(0, f0)
    BY <2>1 DEF Up
  <2>3. ASSUME NEW f, NEW g, Up(0, f), Up(0, g) PROVE f = g
    <3>1. f[0] = A[0] /\ g[0] = A[0]
      BY <2>1, <2>3 DEF Up
    <3>. QED
      BY <2>3, <3>1 DEF Up
  <2>. QED
    BY <2>2, <2>3
<1>2. ASSUME NEW n \in P PROVE n + 1 \in P
  <2> DEFINE k == n + 1
  <2>1. n \in Nat /\ k \in Nat /\ (k >= m => h[k] \in 0 .. n)
    OBVIOUS
  <2>2. PICK f : Up(n, f)
    OBVIOUS
  <2> DEFINE v == IF k < m THEN A[k] ELSE G[k][f[h[k]]]
             g == [i \in 0 .. k |-> IF i = k THEN v ELSE f[i]]
  <2>3. v \in S
    <3>1. CASE k < m
      BY <3>1
    <3>2. CASE k >= m
      <4>1. f[h[k]] \in S /\ G[k] \in [S -> S]
        BY <2>1, <2>2, <3>2 DEF Up
      <4>. QED
        BY <2>1, <3>2, <4>1
    <3>. QED
      BY <3>1, <3>2
  <2>4. g \in [0 .. k -> S]
    BY <2>1, <2>2, <2>3 DEF Up
  <2>5. ASSUME NEW i \in 0 .. k PROVE g[i] = IF i < m THEN A[i] ELSE G[i][g[h[i]]]
    <3>1. i \in Nat
      OBVIOUS
    <3>2. i >= m => h[i] \in 0 .. n
      BY <2>1, <3>1
    <3>3. i >= m => g[h[i]] = f[h[i]]
      BY <2>1, <3>2
    <3>4. CASE i = k
      BY <3>3, <3>4
    <3>5. CASE i # k
      <4>1. i \in 0 .. n /\ g[i] = f[i]
        BY <2>1, <3>5
      <4>2. f[i] = IF i < m THEN A[i] ELSE G[i][f[h[i]]]
        BY <2>2, <4>1 DEF Up
      <4> HIDE DEF g
      <4>3. CASE i < m
        BY <4>1, <4>2, <4>3
      <4>4. CASE ~(i < m)
        <5>1. g[h[i]] = f[h[i]]
          BY <3>1, <3>3, <4>4
        <5>. QED
          BY <4>1, <4>2, <4>4, <5>1
      <4>. QED
        BY <4>3, <4>4
    <3>. QED
      BY <3>4, <3>5
  <2>6. Up(k, g)
    BY <2>4, <2>5 DEF Up
  <2>7. ASSUME NEW p, NEW q, Up(k, p), Up(k, q) PROVE p = q
    <3>1. Up(n, [i \in 0 .. n |-> p[i]]) /\ Up(n, [i \in 0 .. n |-> q[i]])
      BY <1>0, <2>1, <2>7
    <3>2. [i \in 0 .. n |-> p[i]] = [i \in 0 .. n |-> q[i]]
      BY <3>1
    <3>3. ASSUME NEW i \in 0 .. n PROVE p[i] = q[i]
      <4>1. [j \in 0 .. n |-> p[j]][i] = [j \in 0 .. n |-> q[j]][i]
        BY <3>2
      <4>. QED
        BY <4>1
    <3>4. p[k] = q[k]
      <4>1. /\ p[k] = IF k < m THEN A[k] ELSE G[k][p[h[k]]]
            /\ q[k] = IF k < m THEN A[k] ELSE G[k][q[h[k]]]
        BY <2>1, <2>7 DEF Up
      <4>. QED
        BY <2>1, <3>3, <4>1
    <3>5. \A i \in 0 .. k : p[i] = q[i]
      BY <2>1, <3>3, <3>4
    <3>6. p \in [0 .. k -> S] /\ q \in [0 .. k -> S]
      BY <2>7 DEF Up
    <3>. QED
      BY <3>5, <3>6
  <2> HIDE DEF g
  <2>. QED
    BY <2>1, <2>6, <2>7
<1>3. P = Nat
  <2>1. P \subseteq Nat
    OBVIOUS
  <2> HIDE DEF P
  <2>. QED
    BY <1>1, <1>2, <2>1, SetInduction
<1> DEFINE F(n) == CHOOSE f : Up(n, f)
           f == [n \in Nat |-> F(n)[n]]
<1>4. ASSUME NEW n \in Nat PROVE Up(n, F(n)) /\ \A g : Up(n, g) => g = F(n)
  <2>1. n \in P
    BY <1>3
  <2>2. \E g : Up(n, g)
    BY <2>1
  <2>3. Up(n, F(n))
    BY <2>2
  <2> HIDE DEF F
  <2>4. ASSUME NEW g, Up(n, g) PROVE g = F(n)
    BY <2>1, <2>3, <2>4
  <2>. QED
    BY <2>3, <2>4
<1> HIDE DEF F
<1>5. ASSUME NEW n \in Nat, NEW i \in 0 .. n PROVE F(n)[i] = F(n + 1)[i]
  <2>1. Up(n + 1, F(n + 1))
    BY <1>4
  <2>2. Up(n, [j \in 0 .. n |-> F(n + 1)[j]])
    BY <1>0, <2>1
  <2>3. F(n) = [j \in 0 .. n |-> F(n + 1)[j]]
    BY <1>4, <2>2
  <2>. QED
    BY <2>3
<1> DEFINE Q == {n \in Nat : \A i \in 0 .. n : F(n)[i] = f[i]}
<1> HIDE DEF P
<1>6. Q = Nat
  <2>1. 0 \in Q
    OBVIOUS
  <2>2. ASSUME NEW n \in Q PROVE n + 1 \in Q
    <3>1. \A i \in 0 .. n : F(n + 1)[i] = f[i]
      BY <1>5
    <3>2. F(n + 1)[n + 1] = f[n + 1]
      OBVIOUS
    <3>. QED
      BY <3>1, <3>2
  <2> HIDE DEF Q
  <2>3. Q \subseteq Nat
    BY DEF Q
  <2>. QED
    BY <2>1, <2>2, <2>3, SetInduction
<1>7. ASSUME NEW n \in Nat PROVE f[n] \in S /\ f[n] = IF n < m THEN A[n] ELSE G[n][f[h[n]]]
  <2>1. F(n)[n] = f[n] /\ F(n)[n] \in S /\ F(n)[n] = IF n < m THEN A[n] ELSE G[n][F(n)[h[n]]]
    BY <1>4 DEF Up
  <2>2. n >= m => h[n] \in 0 .. n
    OBVIOUS
  <2>3. n >= m => F(n)[h[n]] = f[h[n]]
    BY <1>6, <2>2
  <2>. QED
    BY <2>1, <2>3
<1>8. f \in [Nat -> S] /\ f = [n \in Nat |-> IF n < m THEN A[n] ELSE G[n][f[h[n]]]]
  BY <1>7
<1>. QED
  BY <1>7, <1>8 DEF IsDescent
=============================================================================
