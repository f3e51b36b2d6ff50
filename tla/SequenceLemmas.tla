--------------------------- MODULE SequenceLemmas ---------------------------
(***************************************************************************)
(* What the proofs of several modules need of sequences: when one is where *)
(* another begins, which is what a replica compares before it takes a      *)
(* record and what a failover counts on; and what a definition by          *)
(* recursion along one comes to.                                           *)
(***************************************************************************)
EXTENDS Integers, Sequences, SequencesExt, WellFoundedInduction, TLAPS

(***************************************************************************)
(* Beginnings.                                                             *)
(***************************************************************************)

\* s is where t begins.
Within(s, t) == Len(s) <= Len(t) /\ \A i \in 1..Len(s) : s[i] = t[i]

\* Which is what a prefix is.
LEMMA PrefixIsWithin ==
    ASSUME NEW S, NEW s \in Seq(S), NEW t \in Seq(S)
    PROVE  IsPrefix(s, t) <=> Within(s, t)
<1>1. CASE Len(s) <= Len(t)
  <2> DEFINE u == SubSeq(s, 1, Len(s))
             v == SubSeq(t, 1, Len(s))
  <2>1. /\ u \in Seq(S) /\ Len(u) = Len(s)
        /\ \A i \in 1..Len(s) : u[i] = s[i]
    OBVIOUS
  <2>2. /\ v \in Seq(S) /\ Len(v) = Len(s)
        /\ \A i \in 1..Len(s) : v[i] = t[i]
    BY <1>1
  <2>3. (\A i \in 1..Len(s) : u[i] = v[i]) => u = v
    BY <2>1, <2>2
  <2> QED
    BY <1>1, <2>1, <2>2, <2>3 DEF IsPrefix, Within
<1>2. CASE ~(Len(s) <= Len(t))
  BY <1>2 DEF IsPrefix, Within
<1> QED
  BY <1>1, <1>2

\* Within is an order, and two beginnings of one history are comparable.
LEMMA WithinOrder ==
    ASSUME NEW S, NEW s \in Seq(S), NEW t \in Seq(S), NEW u \in Seq(S)
    PROVE  /\ Within(s, s)
           /\ Within(s, t) /\ Within(t, u) => Within(s, u)
           /\ Within(s, u) /\ Within(t, u) => Within(s, t) \/ Within(t, s)
BY DEF Within

\* A beginning of a history and the record after it are one, as long as it goes on.
LEMMA OneFurther ==
    ASSUME NEW S, NEW t \in Seq(S), NEW k \in Nat, k < Len(t)
    PROVE  /\ SubSeq(t, 1, k + 1) \in Seq(S)
           /\ Len(SubSeq(t, 1, k + 1)) = k + 1
           /\ Within(SubSeq(t, 1, k + 1), t)
<1>1. /\ SubSeq(t, 1, k + 1) \in Seq(S) /\ Len(SubSeq(t, 1, k + 1)) = k + 1
      /\ \A i \in 1..(k + 1) : SubSeq(t, 1, k + 1)[i] = t[i]
  OBVIOUS
<1> QED
  BY <1>1 DEF Within

(***************************************************************************)
(* Induction and recursion.  The library's theorems about them are for     *)
(* predicates, which no prover here can instantiate; these are for sets.   *)
(***************************************************************************)

\* A set that counting never leaves holds every number.
LEMMA Counts ==
    ASSUME NEW S, 0 \in S, \A n \in Nat : n \in S => n + 1 \in S
    PROVE  Nat \subseteq S
<1> SUFFICES ASSUME Nat \ S # {} PROVE FALSE
  OBVIOUS
<1>1. PICK n \in Nat \ S : \A m \in Nat \ S : ~(<<m, n>> \in OpToRel(<, Nat))
  BY NatLessThanWellFounded, WFMin
<1>2. \A m \in Nat \ S : ~(m < n)
  BY <1>1 DEF OpToRel
<1>3. n # 0 /\ n - 1 \in Nat
  OBVIOUS
<1> QED
  BY <1>2, <1>3

\* What starts in T and never leaves it stays in it.
LEMMA StaysIn ==
    ASSUME NEW T, NEW n \in Nat, NEW f, f[0] \in T,
           \A i \in 1..n : f[i - 1] \in T => f[i] \in T
    PROVE  \A i \in 0..n : f[i] \in T
<1> DEFINE S == {i \in Nat : i <= n => f[i] \in T}
<1>1. 0 \in S
  OBVIOUS
<1>2. ASSUME NEW i \in Nat, i \in S PROVE i + 1 \in S
  <2>1. (i + 1) - 1 = i
    OBVIOUS
  <2> QED
    BY <1>2, <2>1
<1>3. Nat \subseteq S
  <2> HIDE DEF S
  <2> QED
    BY <1>1, <1>2, Counts
<1> QED
  BY <1>3

\* There is a function that does a step at a time from first.
LEMMA Recursion ==
    ASSUME NEW T, NEW first \in T, NEW n \in Nat, NEW step \in [1..n -> [T -> T]]
    PROVE  \E f \in [0..n -> T] : f[0] = first /\ \A i \in 1..n : f[i] = step[i][f[i - 1]]
<1> DEFINE Is(f, m) == /\ f \in [0..m -> T] /\ f[0] = first
                       /\ \A i \in 1..m : f[i] = step[i][f[i - 1]]
           S == {m \in Nat : m <= n => \E f : Is(f, m)}
<1>1. 0 \in S
  <2>1. Is([i \in 0..0 |-> first], 0)
    OBVIOUS
  <2> QED
    BY <2>1
<1>2. ASSUME NEW m \in Nat, m \in S PROVE m + 1 \in S
  <2>1. CASE ~(m + 1 <= n)
    BY <2>1
  <2>2. CASE m + 1 <= n
    <3>1. PICK f : Is(f, m)
      BY <1>2, <2>2
    <3> DEFINE g == [i \in 0..(m + 1) |-> IF i = m + 1 THEN step[m + 1][f[m]] ELSE f[i]]
    <3>2. m + 1 \in 1..n /\ f[m] \in T
      BY <2>2, <3>1
    <3>3. step[m + 1][f[m]] \in T
      BY <3>2
    <3>4. g \in [0..(m + 1) -> T] /\ g[0] = first
      BY <3>1, <3>3
    <3>5. ASSUME NEW i \in 1..(m + 1) PROVE g[i] = step[i][g[i - 1]]
      <4>1. CASE i = m + 1
        BY <4>1
      <4>2. CASE i \in 1..m
        BY <3>1, <4>2
      <4> QED
        BY <4>1, <4>2
    <3>6. Is(g, m + 1)
      BY <3>4, <3>5
    <3> HIDE DEF g, Is
    <3> QED
      BY <3>6
  <2> QED
    BY <2>1, <2>2
<1>3. Nat \subseteq S
  <2> HIDE DEF S
  <2> QED
    BY <1>1, <1>2, Counts
<1> QED
  BY <1>3
=============================================================================
