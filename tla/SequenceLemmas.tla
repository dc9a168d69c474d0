--------------------------- MODULE SequenceLemmas ---------------------------
(***************************************************************************)
(* Facts about numbers, sequences and functions that are defined by        *)
(* recursion on an interval, for the proofs about the other modules.  What *)
(* would be an induction is an argument about the least number for which a *)
(* statement fails.                                                        *)
(***************************************************************************)
EXTENDS Integers, SequencesExt, FiniteSetTheorems, SequenceTheorems, TLAPS

(* A set of natural numbers that has a member has a least one.              *)
LEMMA LeastNatural ==
    ASSUME NEW I \in SUBSET Nat, I # {}
    PROVE  \E m \in I : \A i \in I : m <= i
<1>1. PICK m \in I : \A i \in I : ~(<<i, m>> \in OpToRel(<, Nat))
  BY NatLessThanWellFounded, WFMin
<1>2. \A i \in Nat, j \in Nat : i < j => <<i, j>> \in OpToRel(<, Nat)
  BY DEF OpToRel
<1>3. ASSUME NEW i \in I
      PROVE  m <= i
  <2>1. i \in Nat /\ m \in Nat
    OBVIOUS
  <2>2. ~(i < m)
    BY <1>1, <1>2, <2>1
  <2> QED
    BY <2>1, <2>2
<1> QED
  BY <1>3

(* What RemoveAt leaves: the elements before and after the p-th.            *)
LEMMA RemoveAtProperties ==
    ASSUME NEW S, NEW s \in Seq(S), NEW p \in 1..Len(s)
    PROVE  /\ RemoveAt(s, p) \in Seq(S)
           /\ Len(RemoveAt(s, p)) = Len(s) - 1
           /\ \A i \in 1..Len(s) - 1 : RemoveAt(s, p)[i] = IF i < p THEN s[i] ELSE s[i + 1]
<1> DEFINE n == Len(s)
           a == SubSeq(s, 1, p - 1)
           b == SubSeq(s, p + 1, n)
<1>1. n \in Nat /\ p \in Int /\ p - 1 \in Int /\ p + 1 \in Int /\ \A i \in 1..n : s[i] \in S
  OBVIOUS
<1>2. /\ a \in Seq(S) /\ Len(a) = p - 1
      /\ \A i \in 1..p - 1 : a[i] = s[i]
  <2> HIDE DEF n
  <2>1. \A i \in 1..p - 1 : s[i] \in S
    BY <1>1 DEF n
  <2>2. /\ a \in Seq(S)
        /\ Len(a) = IF 1 <= p - 1 THEN (p - 1) - 1 + 1 ELSE 0
        /\ \A i \in 1..(p - 1) - 1 + 1 : a[i] = s[1 + i - 1]
    BY <1>1, <2>1, SubSeqProperties
  <2>3. 1..(p - 1) - 1 + 1 = 1..p - 1 /\ \A i \in 1..p - 1 : 1 + i - 1 = i
    BY <1>1
  <2>4. p >= 1
    BY DEF n
  <2> HIDE DEF a
  <2> QED
    BY <1>1, <2>2, <2>3, <2>4
<1>3. /\ b \in Seq(S) /\ Len(b) = n - p
      /\ \A i \in 1..n - p : b[i] = s[p + i]
  <2> HIDE DEF n
  <2>1. \A i \in p + 1..n : s[i] \in S
    BY <1>1
  <2>2. /\ b \in Seq(S)
        /\ Len(b) = IF p + 1 <= n THEN n - (p + 1) + 1 ELSE 0
        /\ \A i \in 1..n - (p + 1) + 1 : b[i] = s[(p + 1) + i - 1]
    BY <1>1, <2>1, SubSeqProperties
  <2>3. 1..n - (p + 1) + 1 = 1..n - p /\ \A i \in 1..n - p : (p + 1) + i - 1 = p + i
    BY <1>1
  <2>4. p <= n
    BY DEF n
  <2> HIDE DEF b
  <2> QED
    BY <1>1, <2>2, <2>3, <2>4
<1>4. RemoveAt(s, p) = a \o b
  BY DEF RemoveAt
<1>5. p \in 1..n
  OBVIOUS
<1> HIDE DEF a, b, n
<1>6. /\ a \o b \in Seq(S)
      /\ Len(a \o b) = Len(a) + Len(b)
      /\ \A i \in 1..Len(a) + Len(b) : (a \o b)[i] = IF i <= Len(a) THEN a[i] ELSE b[i - Len(a)]
  BY <1>2, <1>3, ConcatProperties
<1>7. Len(a) + Len(b) = n - 1
  BY <1>1, <1>2, <1>3
<1>8. ASSUME NEW i \in 1..n - 1
      PROVE  (a \o b)[i] = IF i < p THEN s[i] ELSE s[i + 1]
  <2>1. CASE i < p
    <3>1. i <= Len(a) /\ i \in 1..p - 1
      BY <1>1, <1>2, <1>8, <2>1
    <3> QED
      BY <3>1, <2>1, <1>2, <1>6, <1>7
  <2>2. CASE ~(i < p)
    <3>1. ~(i <= Len(a)) /\ i - (p - 1) \in 1..n - p /\ p + (i - (p - 1)) = i + 1
      BY <1>1, <1>2, <1>5, <1>8, <2>2
    <3>2. (a \o b)[i] = b[i - (p - 1)]
      BY <3>1, <1>2, <1>6, <1>7
    <3> QED
      BY <3>1, <3>2, <2>2, <1>3
  <2> QED
    BY <2>1, <2>2
<1> QED
  BY <1>4, <1>6, <1>7, <1>8 DEF n

IsRecursive(f, n, a, G) == f = [i \in 0..n |-> IF i = 0 THEN a ELSE G[i][f[i - 1]]]

(* A function that is defined by recursion on 0..n exists, and its value at *)
(* i is in T[i], when a is in T[0] and each step leads on from T[i - 1].    *)
LEMMA RecursiveFunctionExists ==
    ASSUME NEW n \in Nat, NEW T, NEW G, NEW a,
           a \in T[0], \A i \in 1..n : \A x \in T[i - 1] : G[i][x] \in T[i]
    PROVE  \E f : /\ IsRecursive(f, n, a, G)
                  /\ \A i \in 0..n : f[i] \in T[i]
<1> DEFINE Good(f, m) == /\ f = [i \in 0..m |-> IF i = 0 THEN a ELSE G[i][f[i - 1]]]
                         /\ \A i \in 0..m : f[i] \in T[i]
           Fails == {m \in 0..n : \A f : ~Good(f, m)}
<1>1. ASSUME Fails # {}
      PROVE  FALSE
  <2>1. Fails \in SUBSET Nat
    OBVIOUS
  <2> PICK m \in Fails : \A i \in Fails : m <= i
    BY <1>1, <2>1, LeastNatural
  <2>2. m \in 0..n /\ \A f : ~Good(f, m)
    OBVIOUS
  <2>3. CASE m = 0
    <3> DEFINE f == [i \in 0..0 |-> a]
    <3>1. f = [i \in 0..0 |-> IF i = 0 THEN a ELSE G[i][f[i - 1]]]
      OBVIOUS
    <3>2. \A i \in 0..0 : f[i] \in T[i]
      OBVIOUS
    <3>3. Good(f, 0)
      BY <3>1, <3>2
    <3> QED
      BY <3>3, <2>2, <2>3
  <2>4. CASE m # 0
    <3>1. m - 1 \in 0..n /\ m \in 1..n /\ ~(m <= m - 1)
      BY <2>2, <2>4
    <3> PICK f : Good(f, m - 1)
      BY <3>1
    <3> DEFINE g == [i \in 0..m |-> IF i = m THEN G[m][f[m - 1]] ELSE f[i]]
    <3>2. \A i \in 0..m - 1 : g[i] = f[i] /\ i # m
      BY <3>1
    <3>3. f[m - 1] \in T[m - 1] /\ g[m] = G[m][f[m - 1]]
      BY <3>1
    <3>4. \A i \in 0..m - 1 : f[i] = IF i = 0 THEN a ELSE G[i][f[i - 1]]
      OBVIOUS
    <3>5. ASSUME NEW i \in 0..m
          PROVE  g[i] = (IF i = 0 THEN a ELSE G[i][g[i - 1]]) /\ g[i] \in T[i]
      <4>1. CASE i = m
        <5>1. m - 1 \in 0..m - 1
          BY <3>1
        <5>2. g[m - 1] = f[m - 1] /\ G[m][f[m - 1]] \in T[m]
          BY <5>1, <3>1, <3>2, <3>3
        <5> HIDE DEF g
        <5> QED
          BY <4>1, <5>2, <3>3, <2>4
      <4>2. CASE i # m
        <5>1. i \in 0..m - 1 /\ (i # 0 => i - 1 \in 0..m - 1)
          BY <4>2, <3>1
        <5> QED
          BY <5>1, <3>2, <3>4
      <4> QED
        BY <4>1, <4>2
    <3>6. g = [i \in 0..m |-> IF i = 0 THEN a ELSE G[i][g[i - 1]]]
      <4>1. g = [i \in 0..m |-> g[i]]
        OBVIOUS
      <4> HIDE DEF g
      <4> QED
        BY <4>1, <3>5
    <3> HIDE DEF g
    <3>7. Good(g, m)
      BY <3>5, <3>6
    <3> QED
      BY <3>7, <2>2
  <2> QED
    BY <2>3, <2>4
<1>2. n \notin Fails /\ n \in 0..n
  BY <1>1
<1> QED
  BY <1>2 DEF IsRecursive
=============================================================================
