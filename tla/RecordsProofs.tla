---------------------------- MODULE RecordsProofs ----------------------------
(***************************************************************************)
(* Proofs about records over HTTP, for any number of requests, any bytes,  *)
(* any bodies in any pieces and any limits: a batch is stored whole or not *)
(* at all, what a client is told is what was wrong, and a range posted     *)
(* back writes what the store had.                                         *)
(***************************************************************************)
EXTENDS Records, SequenceLemmas, SequenceTheorems

(***************************************************************************)
(* What is defined by recursion, a step at a time.                         *)
(***************************************************************************)

\* The lesser of two.
LEMMA MinOfTwo ==
    ASSUME NEW a \in Int, NEW b \in Int
    PROVE  Min({a, b}) = IF a <= b THEN a ELSE b
BY DEF Min

\* What a line of a body is made of.
LEMMA LineParts ==
    ASSUME NEW l \in Line
    PROVE  /\ l.size \in Nat /\ l.size >= 1 /\ l.ended \in BOOLEAN
           /\ l.what \in Json \cup {None}
<1> DEFINE J == Json \cup {None}
<1> HIDE DEF J
<1>1. l \in [size : Nat \ {0}, ended : BOOLEAN, what : J]
  BY DEF Line, J
<1> QED
  BY <1>1 DEF J

\* The bytes of a body's lines add up.
LEMMA Bytesum ==
    ASSUME NEW b \in Seq(Line)
    PROVE  /\ upTo(b, 0) = 0
           /\ \A i \in 0..Len(b) : upTo(b, i) \in Nat
           /\ \A i \in 1..Len(b) : upTo(b, i) = upTo(b, i - 1) + b[i].size
<1> DEFINE n == Len(b)
           T == Nat
           step == [i \in 1..n |-> [v \in T |-> v + b[i].size]]
           Is(f) == f = [j \in 0..n |-> IF j = 0 THEN 0 ELSE f[j - 1] + b[j].size]
           c == CHOOSE f : Is(f)
<1>1. n \in Nat
  OBVIOUS
<1>2. \A i \in 1..n : b[i].size \in Nat
  <2>1. \A i \in 1..n : b[i] \in Line
    OBVIOUS
  <2> QED
    BY <2>1, LineParts
<1>3. step \in [1..n -> [T -> T]]
  BY <1>2
<1>4. PICK f \in [0..n -> T] : f[0] = 0 /\ \A i \in 1..n : f[i] = step[i][f[i - 1]]
  <2> DEFINE first == 0
  <2>1. first \in T
    OBVIOUS
  <2> HIDE DEF n, T, step, first
  <2>2. \E f \in [0..n -> T] : f[0] = first /\ \A i \in 1..n : f[i] = step[i][f[i - 1]]
    BY <1>1, <1>3, <2>1, Recursion
  <2> QED
    BY <2>2 DEF first
<1>5. Is(f)
  <2>1. ASSUME NEW i \in 0..n PROVE f[i] = IF i = 0 THEN 0 ELSE f[i - 1] + b[i].size
    <3>1. CASE i = 0
      BY <1>4, <3>1
    <3>2. CASE i # 0
      <4>1. i \in 1..n /\ i - 1 \in 0..n
        BY <1>1, <3>2
      <4>2. f[i] = step[i][f[i - 1]] /\ f[i - 1] \in T
        BY <1>4, <4>1
      <4> HIDE DEF n
      <4> QED
        BY <3>2, <4>1, <4>2
    <3> QED
      BY <3>1, <3>2
  <2> QED
    BY <2>1
<1>6. Is(c)
  BY <1>5
<1>7. \A i : upTo(b, i) = c[i]
  BY DEF upTo
<1> HIDE DEF c
<1>8. c[0] = 0 /\ \A i \in 1..n : c[i] = c[i - 1] + b[i].size
  BY <1>1, <1>6
<1>9. \A i \in 0..n : c[i] \in T
  <2>1. c[0] \in T /\ \A i \in 1..n : c[i - 1] \in T => c[i] \in T
    BY <1>2, <1>8
  <2> HIDE DEF n, T
  <2> QED
    BY <1>1, <1>8, <2>1, StaysIn
<1> QED
  BY <1>7, <1>8, <1>9

\* And the further a line, the more bytes there are before its end.
LEMMA Further ==
    ASSUME NEW b \in Seq(Line), NEW i \in 0..Len(b)
    PROVE  total(b) >= upTo(b, i) /\ (i < Len(b) => total(b) > upTo(b, i))
<1> DEFINE n == Len(b)
           S == {d \in Nat : d <= n - i => upTo(b, i + d) >= upTo(b, i) + d}
<1>1. n \in Nat /\ i \in Nat /\ i <= n
  OBVIOUS
<1>2. 0 \in S
  BY <1>1, Bytesum
<1>3. ASSUME NEW d \in Nat, d \in S PROVE d + 1 \in S
  <2>1. CASE ~(d + 1 <= n - i)
    BY <2>1
  <2>2. CASE d + 1 <= n - i
    <3> DEFINE j == i + (d + 1)
    <3>1. j \in 1..n /\ j - 1 = i + d
      BY <1>1, <2>2
    <3>2. upTo(b, j) = upTo(b, i + d) + b[j].size /\ b[j].size \in Nat /\ b[j].size >= 1
      <4>1. b[j] \in Line
        BY <3>1
      <4> QED
        BY <3>1, <4>1, LineParts, Bytesum
    <3>3. upTo(b, i + d) >= upTo(b, i) + d /\ upTo(b, i + d) \in Nat /\ upTo(b, i) \in Nat
      BY <1>1, <1>3, <2>2, Bytesum
    <3>4. upTo(b, j) >= upTo(b, i) + (d + 1)
      BY <3>2, <3>3
    <3> QED
      BY <3>4
  <2> QED
    BY <2>1, <2>2
<1>4. Nat \subseteq S
  <2> HIDE DEF S
  <2> QED
    BY <1>2, <1>3, Counts
<1>5. n - i \in Nat /\ i + (n - i) = n
  BY <1>1
<1>6. upTo(b, n) >= upTo(b, i) + (n - i) /\ upTo(b, n) \in Nat /\ upTo(b, i) \in Nat
  BY <1>1, <1>4, <1>5, Bytesum
<1> QED
  BY <1>1, <1>5, <1>6 DEF total

\* What the first i lines of a body say, a line at a time.
LEMMA Sayings ==
    ASSUME NEW b \in Seq(Line)
    PROVE  /\ meantBy(b, 0) = <<>>
           /\ \A i \in 1..Len(b) :
                 meantBy(b, i) = IF b[i].what = None THEN meantBy(b, i - 1)
                                 ELSE Append(meantBy(b, i - 1), operation(b[i].what))
<1> DEFINE n == Len(b)
           all == {operation(b[i].what) : i \in 1..n}
           T == Seq(all)
           step == [i \in 1..n |-> [s \in T |-> IF b[i].what = None THEN s
                                                ELSE Append(s, operation(b[i].what))]]
           Is(f) == f = [j \in 0..n |-> IF j = 0 THEN <<>>
                                        ELSE IF b[j].what = None THEN f[j - 1]
                                        ELSE Append(f[j - 1], operation(b[j].what))]
           c == CHOOSE f : Is(f)
<1>1. n \in Nat /\ <<>> \in T
  BY EmptySeq
<1>2. \A i \in 1..n : operation(b[i].what) \in all
  OBVIOUS
<1>3. step \in [1..n -> [T -> T]]
  <2> HIDE DEF n, all
  <2> QED
    BY <1>2, AppendProperties
<1>4. PICK f \in [0..n -> T] : f[0] = <<>> /\ \A i \in 1..n : f[i] = step[i][f[i - 1]]
  <2> HIDE DEF n, T, step
  <2> QED
    BY <1>1, <1>3, Recursion
<1>5. Is(f)
  <2>1. ASSUME NEW i \in 0..n
        PROVE  f[i] = IF i = 0 THEN <<>>
                      ELSE IF b[i].what = None THEN f[i - 1]
                      ELSE Append(f[i - 1], operation(b[i].what))
    <3>1. CASE i = 0
      BY <1>4, <3>1
    <3>2. CASE i # 0
      <4>1. i \in 1..n /\ i - 1 \in 0..n
        BY <1>1, <3>2
      <4>2. f[i] = step[i][f[i - 1]] /\ f[i - 1] \in T
        BY <1>4, <4>1
      <4> HIDE DEF T, n
      <4> QED
        BY <3>2, <4>1, <4>2
    <3> QED
      BY <3>1, <3>2
  <2> QED
    BY <2>1
<1>6. Is(c)
  BY <1>5
<1>7. \A i : meantBy(b, i) = c[i]
  BY DEF meantBy
<1> HIDE DEF c
<1>8. c[0] = <<>>
  BY <1>1, <1>6
<1>9. \A i \in 1..n : c[i] = IF b[i].what = None THEN c[i - 1]
                             ELSE Append(c[i - 1], operation(b[i].what))
  <2> SUFFICES ASSUME NEW i \in 1..n
               PROVE  c[i] = IF b[i].what = None THEN c[i - 1]
                             ELSE Append(c[i - 1], operation(b[i].what))
    OBVIOUS
  <2>1. i \in 0..n /\ i # 0
    BY <1>1
  <2> QED
    BY <1>6, <2>1
<1> QED
  BY <1>7, <1>8, <1>9

\* What the store of records is.
DataTyped == data \in [Bytes -> Record \cup {None}]

\* A batch leaves records where there were records.
LEMMA EffectOfBatch ==
    ASSUME DataTyped, NEW batch \in Seq(Operation)
    PROVE  Effect(batch) \in [Bytes -> Record \cup {None}]
<1> DEFINE n == Len(batch)
           R == Record \cup {None}
           T == [Bytes -> R]
           becomes(o) == IF o.op = "delete" THEN None ELSE [value |-> o.value, expires |-> o.expires]
           step == [i \in 1..n |-> [d \in T |-> [d EXCEPT ![batch[i].key] = becomes(batch[i])]]]
           Is(f) == f = [j \in 0..n |-> IF j = 0 THEN data
                            ELSE [f[j - 1] EXCEPT ![batch[j].key] =
                                     IF batch[j].op = "delete" THEN None
                                     ELSE [value |-> batch[j].value, expires |-> batch[j].expires]]]
           c == CHOOSE f : Is(f)
<1>1. n \in Nat /\ data \in T
  BY DEF DataTyped
<1>2. \A i \in 1..n : batch[i].key \in Bytes /\ becomes(batch[i]) \in R
  <2> SUFFICES ASSUME NEW i \in 1..n PROVE batch[i].key \in Bytes /\ becomes(batch[i]) \in R
    OBVIOUS
  <2>1. batch[i] \in Operation
    OBVIOUS
  <2> QED
    BY <2>1 DEF Operation, Record
<1>3. step \in [1..n -> [T -> T]]
  <2> SUFFICES ASSUME NEW i \in 1..n, NEW d \in T
               PROVE  [d EXCEPT ![batch[i].key] = becomes(batch[i])] \in T
    OBVIOUS
  <2> HIDE DEF becomes, R
  <2> QED
    BY <1>2
<1>4. PICK f \in [0..n -> T] : f[0] = data /\ \A i \in 1..n : f[i] = step[i][f[i - 1]]
  <2> HIDE DEF n, T, step
  <2> QED
    BY <1>1, <1>3, Recursion
<1>5. Is(f)
  <2>1. ASSUME NEW i \in 0..n
        PROVE  f[i] = IF i = 0 THEN data ELSE [f[i - 1] EXCEPT ![batch[i].key] = becomes(batch[i])]
    <3>1. CASE i = 0
      BY <1>4, <3>1
    <3>2. CASE i # 0
      <4>1. i \in 1..n /\ i - 1 \in 0..n
        BY <1>1, <3>2
      <4>2. f[i] = step[i][f[i - 1]] /\ f[i - 1] \in T
        BY <1>4, <4>1
      <4> HIDE DEF T, n, becomes
      <4> QED
        BY <3>2, <4>1, <4>2
    <3> QED
      BY <3>1, <3>2
  <2> QED
    BY <2>1
<1>6. Is(c)
  BY <1>5
<1>7. Effect(batch) = c[n]
  BY DEF Effect
<1> HIDE DEF c
<1>8. \A i \in 0..n : c[i] \in T
  <2>1. c[0] \in T
    BY <1>1, <1>6
  <2>2. ASSUME NEW i \in 1..n, c[i - 1] \in T PROVE c[i] \in T
    <3>1. i \in 0..n /\ i # 0
      BY <1>1
    <3>2. c[i] = [c[i - 1] EXCEPT ![batch[i].key] = becomes(batch[i])]
      BY <1>6, <3>1
    <3> HIDE DEF becomes, R
    <3> QED
      BY <1>2, <2>2, <3>2
  <2> HIDE DEF n, T
  <2> QED
    BY <1>1, <2>1, <2>2, StaysIn
<1> QED
  BY <1>1, <1>7, <1>8

(***************************************************************************)
(* What a range is called back with and sent as.                           *)
(***************************************************************************)

Pair == [key : Bytes, value : Bytes]

\* A range is pairs of the store's ...
LEMMA MatchesOf ==
    ASSUME DataTyped, NEW q
    PROVE  matches(q) \in Seq(Pair)
<1> DEFINE n == Len(Ordered)
           T == Seq(Pair)
           at(k) == CHOOSE i \in DOMAIN Ordered : Ordered[i] = k
           in(k) == IF q.prefix # None THEN k \in Begins[q.prefix]
                    ELSE /\ q.from # None => at(q.from) <= at(k)
                         /\ q.to \notin {None, Empty} => at(k) < at(q.to)
           has(i) == in(Ordered[i]) /\ data[Ordered[i]] # None
           is(i) == [key |-> Ordered[i], value |-> data[Ordered[i]].value]
           step == [i \in 1..n |-> [s \in T |-> IF has(i) THEN Append(s, is(i)) ELSE s]]
           Is(f) == f = [j \in 0..n |-> IF j = 0 THEN <<>>
                                        ELSE IF has(j) THEN Append(f[j - 1], is(j))
                                        ELSE f[j - 1]]
           c == CHOOSE f : Is(f)
<1>1. n \in Nat /\ <<>> \in T
  BY RecordsAssumption, EmptySeq
<1>2. \A i \in 1..n : has(i) => is(i) \in Pair
  <2> SUFFICES ASSUME NEW i \in 1..n, has(i) PROVE is(i) \in Pair
    OBVIOUS
  <2>1. Ordered[i] \in Bytes
    BY RecordsAssumption
  <2>2. data[Ordered[i]] \in Record
    BY <2>1 DEF DataTyped
  <2> QED
    BY <2>1, <2>2 DEF Pair, Record
<1>3. matches(q) = c[n]
  BY DEF matches
<1> HIDE DEF has, is
<1>4. step \in [1..n -> [T -> T]]
  <2> HIDE DEF n
  <2> QED
    BY <1>2, AppendProperties
<1>5. PICK f \in [0..n -> T] : f[0] = <<>> /\ \A i \in 1..n : f[i] = step[i][f[i - 1]]
  <2> HIDE DEF n, T, step
  <2> QED
    BY <1>1, <1>4, Recursion
<1>6. Is(f)
  <2>1. ASSUME NEW i \in 0..n
        PROVE  f[i] = IF i = 0 THEN <<>> ELSE IF has(i) THEN Append(f[i - 1], is(i)) ELSE f[i - 1]
    <3>1. CASE i = 0
      BY <1>5, <3>1
    <3>2. CASE i # 0
      <4>1. i \in 1..n /\ i - 1 \in 0..n
        BY <1>1, <3>2
      <4>2. f[i] = step[i][f[i - 1]] /\ f[i - 1] \in T
        BY <1>5, <4>1
      <4> HIDE DEF T, n
      <4> QED
        BY <3>2, <4>1, <4>2
    <3> QED
      BY <3>1, <3>2
  <2> QED
    BY <2>1
<1>7. Is(c)
  BY <1>6
<1> HIDE DEF c
<1>8. \A i \in 0..n : c[i] \in T
  <2>1. c[0] \in T
    BY <1>1, <1>7
  <2>2. ASSUME NEW i \in 1..n, c[i - 1] \in T PROVE c[i] \in T
    <3>1. i \in 0..n /\ i # 0
      BY <1>1
    <3>2. c[i] = IF has(i) THEN Append(c[i - 1], is(i)) ELSE c[i - 1]
      BY <1>7, <3>1
    <3> QED
      BY <1>2, <2>2, <3>2, AppendProperties
  <2> HIDE DEF n, T
  <2> QED
    BY <1>1, <2>1, <2>2, StaysIn
<1> QED
  BY <1>1, <1>3, <1>8

\* ... and what is sent of it too.
LEMMA OverPairs ==
    ASSUME NEW pairs \in Seq(Pair), NEW limit
    PROVE  over(pairs, limit) \in Seq(Pair)
<1> DEFINE n == Len(pairs)
           T == Seq(Pair)
           goes(i) == i = 1 \/ i - 1 < limit
           step == [i \in 1..n |-> [s \in T |-> IF goes(i) THEN Append(s, pairs[i]) ELSE s]]
           Is(f) == f = [j \in 0..n |-> IF j = 0 THEN <<>>
                                        ELSE IF goes(j) THEN Append(f[j - 1], pairs[j])
                                        ELSE f[j - 1]]
           c == CHOOSE f : Is(f)
<1>1. n \in Nat /\ <<>> \in T
  BY EmptySeq
<1>2. \A i \in 1..n : pairs[i] \in Pair
  OBVIOUS
<1>3. over(pairs, limit) = c[n]
  BY DEF over
<1> HIDE DEF goes
<1>4. step \in [1..n -> [T -> T]]
  <2> HIDE DEF n
  <2> QED
    BY <1>2, AppendProperties
<1>5. PICK f \in [0..n -> T] : f[0] = <<>> /\ \A i \in 1..n : f[i] = step[i][f[i - 1]]
  <2> HIDE DEF n, T, step
  <2> QED
    BY <1>1, <1>4, Recursion
<1>6. Is(f)
  <2>1. ASSUME NEW i \in 0..n
        PROVE  f[i] = IF i = 0 THEN <<>> ELSE IF goes(i) THEN Append(f[i - 1], pairs[i]) ELSE f[i - 1]
    <3>1. CASE i = 0
      BY <1>5, <3>1
    <3>2. CASE i # 0
      <4>1. i \in 1..n /\ i - 1 \in 0..n
        BY <1>1, <3>2
      <4>2. f[i] = step[i][f[i - 1]] /\ f[i - 1] \in T
        BY <1>5, <4>1
      <4> HIDE DEF T, n
      <4> QED
        BY <3>2, <4>1, <4>2
    <3> QED
      BY <3>1, <3>2
  <2> QED
    BY <2>1
<1>7. Is(c)
  BY <1>6
<1> HIDE DEF c
<1>8. \A i \in 0..n : c[i] \in T
  <2>1. c[0] \in T
    BY <1>1, <1>7
  <2>2. ASSUME NEW i \in 1..n, c[i - 1] \in T PROVE c[i] \in T
    <3>1. i \in 0..n /\ i # 0
      BY <1>1
    <3>2. c[i] = IF goes(i) THEN Append(c[i - 1], pairs[i]) ELSE c[i - 1]
      BY <1>7, <3>1
    <3> QED
      BY <1>2, <2>2, <3>2, AppendProperties
  <2> HIDE DEF n, T
  <2> QED
    BY <1>1, <2>1, <2>2, StaysIn
<1> QED
  BY <1>1, <1>3, <1>8

(***************************************************************************)
(* Lines and what they say.                                                *)
(***************************************************************************)

\* A line says an operation, or nothing that can be done.
LEMMA OperationOf ==
    ASSUME NEW w \in Json
    PROVE  operation(w) = Malformed \/ operation(w) \in Operation
<1> DEFINE key   == fromTheWire(w.key, w.keyB64)
           value == fromTheWire(w.value, w.valueB64)
<1>1. key \in Bytes \cup {Malformed} /\ value \in Bytes \cup {Malformed}
  BY RecordsAssumption DEF Json, fromTheWire, Bytes
<1>2. w.op = "delete" /\ {w.value, w.valueB64, w.expires} = {None} => value = Empty
  <2> SUFFICES ASSUME {w.value, w.valueB64, w.expires} = {None} PROVE value = Empty
    OBVIOUS
  <2>1. w.value = None /\ w.valueB64 = None
    OBVIOUS
  <2>2. None # Surrogate
    BY RecordsAssumption
  <2> QED
    BY <2>1, <2>2 DEF fromTheWire
<1>3. Empty \in Bytes
  BY RecordsAssumption DEF Bytes
<1> HIDE DEF key, value
<1>4. ASSUME operation(w) # Malformed
      PROVE  /\ operation(w) = [op |-> w.op, key |-> key, value |-> value, expires |-> w.expires # None]
             /\ key # Malformed
             /\ w.op \in {"write", "delete"}
             /\ w.op = "write" => value # Malformed
             /\ w.op = "delete" => {w.value, w.valueB64, w.expires} = {None}
  BY <1>4 DEF operation, key, value
<1>5. ASSUME operation(w) # Malformed PROVE value \in Bytes /\ key \in Bytes
  BY <1>1, <1>2, <1>3, <1>4, <1>5
<1> DEFINE timed == w.expires # None
<1> HIDE DEF timed
<1>7. ASSUME operation(w) # Malformed PROVE operation(w) \in Operation
  <2>1. operation(w) = [op |-> w.op, key |-> key, value |-> value, expires |-> timed]
    BY <1>4, <1>7 DEF timed
  <2>2. timed \in BOOLEAN
    BY DEF timed
  <2> QED
    BY <1>4, <1>5, <1>7, <2>1, <2>2 DEF Operation
<1> QED
  BY <1>7

\* A pair that is sent and posted back is a write of the same key and value.
LEMMA OneComesBack ==
    ASSUME NEW p \in Pair
    PROVE  LET w == [encodePair(p) EXCEPT !.op = "write"]
           IN  /\ w \in Json
               /\ operation(w) = [op |-> "write", key |-> p.key, value |-> p.value, expires |-> FALSE]
<1> DEFINE w == [encodePair(p) EXCEPT !.op = "write"]
           key == onTheWire(p.key)
           value == onTheWire(p.value)
<1>1. p.key \in Bytes /\ p.value \in Bytes
  BY DEF Pair
<1>2. \A b \in Bytes : /\ onTheWire(b).plain \in Bytes \cup {None}
                        /\ onTheWire(b).coded \in Bytes \cup {None}
                        /\ fromTheWire(onTheWire(b).plain, onTheWire(b).coded) = b
                        /\ b # Malformed
  BY RecordsAssumption DEF onTheWire, fromTheWire, Bytes
<1>3. w = [shape |-> "object", op |-> "write", expires |-> None,
           key |-> key.plain, keyB64 |-> key.coded,
           value |-> value.plain, valueB64 |-> value.coded]
  BY DEF encodePair
<1>4. w \in Json
  BY <1>1, <1>2, <1>3 DEF Json
<1> HIDE DEF w
<1>5. /\ fromTheWire(w.key, w.keyB64) = p.key /\ fromTheWire(w.value, w.valueB64) = p.value
      /\ p.key # Malformed /\ p.value # Malformed
      /\ w.shape = "object" /\ w.op = "write" /\ w.expires = None
  BY <1>1, <1>2, <1>3
<1>6. decodable(w) /\ None # "notATime"
  BY <1>5, RecordsAssumption DEF decodable
<1>7. operation(w) = [op |-> "write", key |-> p.key, value |-> p.value, expires |-> FALSE]
  BY <1>5, <1>6 DEF operation
<1> QED
  BY <1>4, <1>7 DEF w

\* So a body of pairs says those writes.
LEMMA AllComeBack ==
    ASSUME NEW b \in Seq(Line), NEW was \in Seq(Pair), Len(b) = Len(was),
           \A i \in 1..Len(was) :
              /\ b[i].what # None
              /\ operation(b[i].what) = [op |-> "write", key |-> was[i].key,
                                         value |-> was[i].value, expires |-> FALSE]
    PROVE  meant(b) = [i \in DOMAIN was |-> [op |-> "write", key |-> was[i].key,
                                             value |-> was[i].value, expires |-> FALSE]]
<1> DEFINE n == Len(was)
           o(i) == [op |-> "write", key |-> was[i].key, value |-> was[i].value, expires |-> FALSE]
           W == {o(i) : i \in 1..n}
           first(m) == [i \in 1..m |-> o(i)]
           S == {m \in Nat : m <= n => meantBy(b, m) = first(m)}
<1>1. n \in Nat /\ Len(b) = n
  OBVIOUS
<1>2. \A i \in 1..n : meantBy(b, i) = Append(meantBy(b, i - 1), o(i))
  BY Sayings
<1>3. 0 \in S
  <2>1. first(0) \in Seq(W) /\ Len(first(0)) = 0
    OBVIOUS
  <2>2. first(0) = <<>>
    BY <2>1, EmptySeq, SeqEqual
  <2> QED
    BY <2>2, Sayings
<1>4. ASSUME NEW m \in Nat, m \in S PROVE m + 1 \in S
  <2>1. CASE ~(m + 1 <= n)
    BY <2>1
  <2>2. CASE m + 1 <= n
    <3>1. m + 1 \in 1..n /\ (m + 1) - 1 = m
      BY <2>2
    <3>2. meantBy(b, m + 1) = Append(first(m), o(m + 1))
      BY <1>2, <1>4, <2>2, <3>1
    <3>3. \A i \in 1..n : o(i) \in W
      OBVIOUS
    <3> HIDE DEF o, W
    <3>4. first(m) \in Seq(W) /\ Len(first(m)) = m /\ \A i \in 1..m : first(m)[i] = o(i)
      BY <3>1, <3>3
    <3>5. first(m + 1) \in Seq(W) /\ Len(first(m + 1)) = m + 1
          /\ \A i \in 1..(m + 1) : first(m + 1)[i] = o(i)
      BY <3>1, <3>3
    <3> DEFINE s == first(m)
               t == first(m + 1)
    <3> HIDE DEF first, s, t
    <3>6. Append(first(m), o(m + 1)) = first(m + 1)
      <4> DEFINE r == Append(first(m), o(m + 1))
      <4>1. o(m + 1) \in W
        BY <3>1, <3>3
      <4>2. /\ r \in Seq(W) /\ Len(r) = m + 1
            /\ \A i \in 1..m : r[i] = o(i)
            /\ r[m + 1] = o(m + 1)
        BY <3>4, <4>1, AppendProperties
      <4>3. \A i \in 1..(m + 1) : r[i] = first(m + 1)[i]
        BY <3>5, <4>2
      <4> HIDE DEF r
      <4> QED
        BY <3>5, <4>2, <4>3, SeqEqual DEF r
    <3>7. meantBy(b, m + 1) = first(m + 1)
      BY <3>2, <3>6
    <3>8. m + 1 \in Nat
      OBVIOUS
    <3> QED
      BY <3>7, <3>8
  <2> QED
    BY <2>1, <2>2
<1>5. Nat \subseteq S
  <2> HIDE DEF S
  <2> QED
    BY <1>3, <1>4, Counts
<1>6. meantBy(b, n) = first(n)
  BY <1>1, <1>5
<1> QED
  BY <1>1, <1>6 DEF meant

(***************************************************************************)
(* The inductive invariant.                                                *)
(***************************************************************************)

Fed == [got : Nat, used : Nat, line : Nat \ {0}, cap : 1..MaxBatch,
        err : {"none", "EOF", "tooLarge", "tooLong", "gone"}]

StoreTypes ==
    /\ DataTyped
    /\ healthy \in {"open", "closed", "fenced"} /\ guarded \in BOOLEAN

RequestTypes ==
    /\ doing \in [Request -> {"new", "body", "parsed", "answered"}]
    /\ status \in [Request -> {0, 200, 204, 400, 409, 413, 500, 503}]
    /\ body \in [Request -> Seq(Line)]
    /\ copies \in [Request -> Request \cup {None}]
    /\ fed \in [Request -> Fed]
    /\ ops \in [Request -> Seq(Operation)]
    /\ saw \in [Request -> Seq(Pair)]
    /\ answer \in [Request -> Seq(Json)]

TypeInv == StoreTypes /\ RequestTypes

\* How far the Scanner is in a body: at the end of a line, or of what it was
\* given when its reader failed in the middle of one.
InPlace(f, b, limited) ==
    /\ f.line <= Len(b) + 1
    /\ f.used <= f.got /\ f.got <= total(b) /\ f.got - f.used <= f.cap
    /\ limited => f.got <= MaxBatch
    /\ \/ f.used = upTo(b, f.line - 1)
       \/ f.used = f.got /\ f.used < upTo(b, f.line - 1) /\ f.err \in {"tooLarge", "gone"}
    /\ f.err = "EOF" => f.got = total(b)
    /\ f.err = "tooLarge" => total(b) > MaxBatch
    /\ f.err = "tooLong" => \E i \in 1..Len(b) : b[i].size >= MaxBatch

\* What the first i lines of a body say is o, and no line says nonsense.
Says(o, b, i) ==
    /\ o = meantBy(b, i)
    /\ \A j \in 1..i : b[j].what # None => operation(b[j].what) # Malformed

Fit(b, i) == \A j \in 1..i : b[j].size <= MaxBatch

\* The batch of a handler that is still reading ...
SoFar(o, f, b) ==
    /\ Says(o, b, f.line - 1)
    /\ f.used = upTo(b, f.line - 1) => Fit(b, f.line - 1)

\* ... and of one that has read it all.
Whole(o, b) == Says(o, b, Len(b)) /\ Fit(b, Len(b))

\* A line, or the length of the whole, was to blame for what a client is told.
Blames(code, b, limited) ==
    b # <<>> =>
    /\ code = 400 => \E i \in 1..Len(b) :
                        /\ b[i].what # None /\ operation(b[i].what) = Malformed
                        /\ limited => upTo(b, i - 1) < MaxBatch
    /\ code = 413 => total(b) > MaxBatch \/ \E i \in 1..Len(b) : b[i].size >= MaxBatch

ReadInv(r) ==
    /\ \A i \in 1..(Len(body[r]) - 1) : body[r][i].ended
    /\ InPlace(fed[r], body[r], guarded)
    /\ doing[r] = "body" => SoFar(ops[r], fed[r], body[r])
    /\ (doing[r] = "parsed" \/ status[r] = 204) /\ (body[r] # <<>> \/ copies[r] # None)
          => Whole(ops[r], body[r])

AnswerInv(r) ==
    /\ doing[r] = "new" => body[r] = <<>> /\ copies[r] = None /\ ops[r] = <<>>
    /\ status[r] # 0 => doing[r] = "answered"
    /\ status[r] = 200 => answer[r] = [i \in DOMAIN saw[r] |-> encodePair(saw[r][i])]
    /\ Blames(status[r], body[r], guarded)

CopyInv(r) ==
    copies[r] # None => status[copies[r]] = 200 /\ body[r] = copied(copies[r])

RecordsInv ==
    /\ TypeInv
    /\ \A r \in Request : ReadInv(r) /\ AnswerInv(r) /\ CopyInv(r)

(***************************************************************************)
(* A Scanner keeps its place.                                              *)
(***************************************************************************)

\* A token is the rest of what there is of a line ...
LEMMA TokenIs ==
    ASSUME TypeInv, NEW r \in Request, InPlace(fed[r], body[r], guarded), hasToken(r)
    PROVE  /\ fed[r].line \in 1..Len(body[r]) /\ next(r) \in Line
           /\ fed[r].used = upTo(body[r], fed[r].line - 1)
           /\ fed[r].got > fed[r].used
           /\ fed[r].got < fed[r].used + next(r).size => fed[r].err \in {"tooLarge", "gone"}
<1> DEFINE f == fed[r]
           b == body[r]
           l == b[f.line]
<1>1. /\ f \in Fed /\ b \in Seq(Line) /\ InPlace(f, b, guarded) /\ guarded \in BOOLEAN
  BY DEF TypeInv, StoreTypes, RequestTypes
<1>2. /\ f.got \in Nat /\ f.used \in Nat /\ f.line \in Nat /\ f.line >= 1
      /\ f.err \in {"none", "EOF", "tooLarge", "tooLong", "gone"}
  BY <1>1 DEF Fed
<1>3. Len(b) \in Nat /\ f.line - 1 \in 0..Len(b)
  BY <1>1, <1>2 DEF InPlace
<1>4. \/ f.line <= Len(b) /\ l.ended /\ f.got - f.used >= l.size
      \/ f.err \notin {"none", "tooLong"} /\ f.got - f.used > 0
  BY DEF hasToken, hasLine, pending, next
<1>5. next(r) = l
  BY DEF next
<1> HIDE DEF f, b, l
<1>6. f.got > f.used
  <2>1. CASE f.line <= Len(b) /\ l.ended /\ f.got - f.used >= l.size
    <3>1. l \in Line
      BY <1>1, <1>2, <1>3, <2>1 DEF l
    <3> QED
      BY <1>2, <2>1, <3>1, LineParts
  <2>2. CASE f.got - f.used > 0
    BY <1>2, <2>2
  <2> QED
    BY <1>4, <2>1, <2>2
<1>7. f.used = upTo(b, f.line - 1)
  BY <1>1, <1>2, <1>6 DEF InPlace
<1>8. total(b) > upTo(b, f.line - 1) /\ total(b) \in Nat /\ f.got <= total(b)
  <2>1. total(b) \in Nat /\ f.got <= total(b)
    BY <1>1, <1>3, Bytesum DEF total, InPlace
  <2> QED
    BY <1>2, <1>6, <1>7, <2>1
<1>9. f.line \in 1..Len(b)
  <2>1. f.line - 1 # Len(b)
    BY <1>2, <1>6, <1>7, <1>8 DEF total
  <2> QED
    BY <1>2, <1>3, <2>1
<1>10. l \in Line
  BY <1>1, <1>9 DEF l
<1>11. ASSUME f.got < f.used + l.size PROVE f.err \in {"tooLarge", "gone"}
  <2>1. f.err \notin {"none", "tooLong"}
    BY <1>2, <1>4, <1>10, <1>11, LineParts
  <2>2. f.err # "EOF"
    <3>1. upTo(b, f.line) = upTo(b, f.line - 1) + l.size
      BY <1>1, <1>9, Bytesum DEF l
    <3>2. f.line \in 0..Len(b)
      BY <1>9
    <3>3. upTo(b, f.line) <= total(b)
      BY <1>1, <3>2, Further
    <3>4. f.err = "EOF" => f.got = total(b)
      BY <1>1 DEF InPlace
    <3> QED
      BY <1>2, <1>7, <1>8, <1>10, <1>11, <3>1, <3>3, <3>4, LineParts
  <2> QED
    BY <1>2, <2>1, <2>2
<1> QED
  BY <1>5, <1>6, <1>7, <1>9, <1>10, <1>11 DEF f, b

\* ... and when it is taken, the place is the end of the line, or of what there
\* is.
LEMMA TokenTaken ==
    ASSUME NEW f \in Fed, NEW b \in Seq(Line), NEW g \in BOOLEAN, InPlace(f, b, g),
           f.line \in 1..Len(b), f.used = upTo(b, f.line - 1), f.got > f.used,
           f.got < f.used + b[f.line].size => f.err \in {"tooLarge", "gone"},
           NEW h, h = [f EXCEPT !.line = @ + 1, !.used = Min({@ + b[f.line].size, f.got})]
    PROVE  /\ h \in Fed /\ InPlace(h, b, g)
           /\ h.used = upTo(b, h.line - 1) => b[f.line].size <= MaxBatch
<1> DEFINE l == b[f.line]
<1>1. /\ f.got \in Nat /\ f.used \in Nat /\ f.line \in Nat /\ f.cap \in 1..MaxBatch
      /\ MaxBatch \in Nat /\ l \in Line
  BY RecordsAssumption DEF Fed
<1>2. l.size \in Nat /\ l.size >= 1 /\ Len(b) \in Nat
  BY <1>1, LineParts
<1>3. upTo(b, f.line) = f.used + l.size /\ upTo(b, f.line) \in Nat
  <2>1. f.line \in 0..Len(b)
    OBVIOUS
  <2> QED
    BY <2>1, Bytesum
<1> HIDE DEF l
<1>4. Min({f.used + l.size, f.got}) = IF f.used + l.size <= f.got THEN f.used + l.size ELSE f.got
  <2> DEFINE x == f.used + l.size
             y == f.got
  <2>1. x \in Int /\ y \in Int
    BY <1>1, <1>2
  <2> HIDE DEF x, y
  <2>2. Min({x, y}) = IF x <= y THEN x ELSE y
    BY <2>1, MinOfTwo
  <2> QED
    BY <2>2 DEF x, y
<1>5. /\ h.got = f.got /\ h.line = f.line + 1 /\ h.err = f.err /\ h.cap = f.cap
      /\ h.used = IF f.used + l.size <= f.got THEN f.used + l.size ELSE f.got
      /\ h \in Fed
  <2> DEFINE u == Min({f.used + l.size, f.got})
  <2>1. u \in Nat
    BY <1>1, <1>2, <1>4
  <2>2. h = [f EXCEPT !.line = @ + 1, !.used = u]
    BY DEF l
  <2>3. u = IF f.used + l.size <= f.got THEN f.used + l.size ELSE f.got
    BY <1>4
  <2> HIDE DEF u
  <2>4. /\ h.got = f.got /\ h.line = f.line + 1 /\ h.err = f.err /\ h.cap = f.cap
        /\ h.used = u
    BY <2>2 DEF Fed
  <2>5. f.line + 1 \in Nat \ {0}
    BY <1>1
  <2>6. h \in Fed
    BY <2>1, <2>2, <2>5 DEF Fed
  <2> QED
    BY <2>3, <2>4, <2>6
<1>6. h.line - 1 = f.line /\ h.line <= Len(b) + 1
  BY <1>1, <1>2, <1>5
<1>7. /\ f.got <= total(b) /\ f.got - f.used <= f.cap /\ (g => f.got <= MaxBatch)
      /\ f.err = "EOF" => f.got = total(b)
      /\ f.err = "tooLarge" => total(b) > MaxBatch
      /\ f.err = "tooLong" => \E i \in 1..Len(b) : b[i].size >= MaxBatch
  BY DEF InPlace
<1>8. h.used <= h.got /\ h.got - h.used <= h.cap
  BY <1>1, <1>2, <1>5, <1>7
<1>9. \/ h.used = upTo(b, h.line - 1)
      \/ h.used = h.got /\ h.used < upTo(b, h.line - 1) /\ h.err \in {"tooLarge", "gone"}
  BY <1>1, <1>2, <1>3, <1>5, <1>6 DEF l
<1>10. InPlace(h, b, g)
  <2>1. /\ h.got <= total(b) /\ (g => h.got <= MaxBatch)
        /\ h.err = "EOF" => h.got = total(b)
        /\ h.err = "tooLarge" => total(b) > MaxBatch
        /\ h.err = "tooLong" => \E i \in 1..Len(b) : b[i].size >= MaxBatch
    BY <1>5, <1>7
  <2> QED
    BY <1>6, <1>8, <1>9, <2>1 DEF InPlace
<1>11. h.used = upTo(b, h.line - 1) => l.size <= MaxBatch
  <2>1. SUFFICES ASSUME h.used = f.used + l.size PROVE l.size <= MaxBatch
    BY <1>3, <1>6
  <2>2. f.used + l.size <= f.got \/ h.used = f.got
    BY <1>5
  <2>3. f.used + l.size <= f.got
    BY <1>1, <1>2, <2>1, <2>2
  <2> QED
    BY <1>1, <1>2, <1>7, <2>3, RecordsAssumption
<1> QED
  BY <1>5, <1>10, <1>11 DEF l

\* Reading moves only what was got.
LEMMA ReadOn ==
    ASSUME TypeInv, NEW r \in Request, InPlace(fed[r], body[r], guarded), ReadBody(r)
    PROVE  /\ fed'[r] \in Fed /\ InPlace(fed'[r], body[r], guarded)
           /\ fed'[r].line = fed[r].line /\ fed'[r].used = fed[r].used
           /\ \A q \in Request : q # r => fed'[q] = fed[q]
           /\ fed' \in [Request -> Fed]
<1> DEFINE f == fed[r]
           b == body[r]
           h == fed'[r]
           space == f.cap - pending(r)
           left == Min({total(b) - f.got} \cup IF guarded THEN {MaxBatch - f.got} ELSE {})
<1>1. /\ f \in Fed /\ b \in Seq(Line) /\ InPlace(f, b, guarded) /\ guarded \in BOOLEAN
  BY DEF TypeInv, StoreTypes, RequestTypes
<1>2. /\ f.got \in Nat /\ f.used \in Nat /\ f.cap \in 1..MaxBatch /\ f.line \in Nat
      /\ f.line >= 1 /\ MaxBatch \in Nat
  BY <1>1, RecordsAssumption DEF Fed
<1>3. total(b) \in Nat /\ Len(b) \in Nat
  BY <1>1, Bytesum DEF total
<1>4. f.err = "none"
  BY DEF ReadBody
<1>5. PICK k \in 0..Min({space, left}), err \in {"none", "EOF", "tooLarge", "gone"} :
        /\ err = "EOF" => f.got + k = total(b)
        /\ err = "tooLarge" => total(b) > MaxBatch
        /\ fed' = [fed EXCEPT ![r] = [f EXCEPT !.got = @ + k, !.err = err]]
  BY DEF ReadBody
<1>6. space = f.cap - (f.got - f.used)
  BY DEF pending
<1>7. left \in Int /\ left <= total(b) - f.got /\ (guarded => left <= MaxBatch - f.got)
  <2> DEFINE x == total(b) - f.got
             y == MaxBatch - f.got
  <2>1. x \in Int /\ y \in Int
    BY <1>2, <1>3
  <2> HIDE DEF x, y
  <2>2. CASE guarded
    <3>1. {x} \cup {y} = {x, y}
      OBVIOUS
    <3>2. left = Min({x, y})
      BY <2>2, <3>1 DEF x, y
    <3> QED
      BY <2>1, <2>2, <3>2, MinOfTwo DEF x, y
  <2>3. CASE ~guarded
    <3>1. {x} \cup {} = {x, x}
      OBVIOUS
    <3>2. left = Min({x, x})
      BY <2>3, <3>1 DEF x, y
    <3> QED
      BY <2>1, <2>3, <3>2, MinOfTwo DEF x, y
  <2> QED
    BY <2>2, <2>3
<1> HIDE DEF space, left
<1>8. k \in Nat /\ k <= space /\ k <= left
  <2>1. space \in Int
    BY <1>2, <1>6
  <2>2. Min({space, left}) = IF space <= left THEN space ELSE left
    BY <1>7, <2>1, MinOfTwo
  <2>3. k \in 0..(IF space <= left THEN space ELSE left)
    BY <2>2
  <2> QED
    BY <1>7, <2>1, <2>3
<1>9. h = [f EXCEPT !.got = @ + k, !.err = err]
  BY <1>5 DEF TypeInv, RequestTypes
<1> HIDE DEF f, b, h
<1>10. /\ h.got = f.got + k /\ h.err = err /\ h.used = f.used /\ h.line = f.line /\ h.cap = f.cap
       /\ h \in Fed
  <2> DEFINE n == f.got + k
  <2>1. n \in Nat
    BY <1>2, <1>8
  <2>2. h = [f EXCEPT !.got = n, !.err = err]
    BY <1>9
  <2>3. err \in {"none", "EOF", "tooLarge", "gone"}
    OBVIOUS
  <2> HIDE DEF n
  <2>4. /\ h.got = n /\ h.err = err /\ h.used = f.used /\ h.line = f.line /\ h.cap = f.cap
        /\ h \in Fed
    BY <1>1, <2>1, <2>2, <2>3 DEF Fed
  <2> QED
    BY <2>4 DEF n
<1>11. /\ h.line <= Len(b) + 1 /\ h.used <= h.got /\ h.got <= total(b)
       /\ h.got - h.used <= h.cap /\ (guarded => h.got <= MaxBatch)
  <2>1. f.line <= Len(b) + 1 /\ f.used <= f.got
    BY <1>1 DEF InPlace
  <2>2. f.got + k <= total(b) /\ (guarded => f.got + k <= MaxBatch)
    BY <1>2, <1>3, <1>7, <1>8
  <2>3. f.got + k - f.used <= f.cap /\ f.used <= f.got + k
    BY <1>2, <1>6, <1>8, <2>1
  <2> QED
    BY <1>2, <1>3, <1>8, <1>10, <2>1, <2>2, <2>3
<1>12. h.used = upTo(b, h.line - 1)
  BY <1>1, <1>4, <1>10 DEF InPlace
<1>13. InPlace(h, b, guarded)
  BY <1>5, <1>10, <1>11, <1>12 DEF InPlace, f, b
<1>14. fed' \in [Request -> Fed] /\ \A q \in Request : q # r => fed'[q] = fed[q]
  BY <1>5, <1>9, <1>10 DEF TypeInv, RequestTypes, f
<1> QED
  BY <1>10, <1>13, <1>14 DEF f, b, h

\* Growing moves nothing, and gives up only over a line that is too long.
LEMMA GrowOn ==
    ASSUME TypeInv, NEW r \in Request, InPlace(fed[r], body[r], guarded),
           \A i \in 1..(Len(body[r]) - 1) : body[r][i].ended, Grow(r)
    PROVE  /\ fed'[r] \in Fed /\ InPlace(fed'[r], body[r], guarded)
           /\ fed'[r].line = fed[r].line /\ fed'[r].used = fed[r].used
           /\ \A q \in Request : q # r => fed'[q] = fed[q]
           /\ fed' \in [Request -> Fed]
<1> DEFINE f == fed[r]
           b == body[r]
           h == fed'[r]
           l == b[f.line]
<1>1. /\ f \in Fed /\ b \in Seq(Line) /\ InPlace(f, b, guarded) /\ guarded \in BOOLEAN
  BY DEF TypeInv, StoreTypes, RequestTypes
<1>2. /\ f.got \in Nat /\ f.used \in Nat /\ f.cap \in Nat /\ f.cap >= 1 /\ f.cap <= MaxBatch
      /\ f.line \in Nat /\ f.line >= 1 /\ MaxBatch \in Nat
  BY <1>1, RecordsAssumption DEF Fed
<1>3. total(b) \in Nat /\ Len(b) \in Nat
  BY <1>1, Bytesum DEF total
<1>4. /\ f.err = "none" /\ f.got - f.used = f.cap
      /\ ~(f.line <= Len(b) /\ l.ended /\ f.got - f.used >= l.size)
      /\ h = IF f.cap >= MaxBatch THEN [f EXCEPT !.err = "tooLong"]
             ELSE [f EXCEPT !.cap = Min({2 * @, MaxBatch})]
  BY DEF Grow, hasLine, pending, next, TypeInv, RequestTypes
<1>5. \A i \in 1..(Len(b) - 1) : b[i].ended
  OBVIOUS
<1>6. /\ fed' = [fed EXCEPT ![r] = h] /\ fed \in [Request -> Fed]
  BY DEF Grow, TypeInv, RequestTypes
<1> HIDE DEF f, b, h, l
<1>7. f.used = upTo(b, f.line - 1) /\ f.got <= total(b) /\ f.line <= Len(b) + 1
  BY <1>1, <1>4 DEF InPlace
<1>8. CASE f.cap >= MaxBatch
  <2>1. /\ h.got = f.got /\ h.err = "tooLong" /\ h.used = f.used /\ h.line = f.line
        /\ h.cap = f.cap /\ h \in Fed
    BY <1>1, <1>4, <1>8 DEF Fed
  <2>2. f.line - 1 # Len(b)
    BY <1>2, <1>3, <1>4, <1>7 DEF total
  <2>3. f.line \in 1..Len(b)
    BY <1>2, <1>3, <1>7, <2>2
  <2>4. l \in Line /\ l.size \in Nat
    BY <1>1, <2>3, LineParts DEF l
  <2>5. l.size >= MaxBatch
    <3>1. CASE l.ended
      BY <1>2, <1>4, <1>8, <2>3, <2>4, <3>1
    <3>2. CASE ~l.ended
      <4>1. f.line = Len(b)
        BY <1>3, <1>5, <2>3, <3>2 DEF l
      <4>2. total(b) = f.used + l.size
        BY <1>1, <1>7, <2>3, <4>1, Bytesum DEF total, l
      <4> QED
        BY <1>2, <1>4, <1>7, <1>8, <2>4, <4>2
    <3> QED
      BY <3>1, <3>2
  <2>6. \E i \in 1..Len(b) : b[i].size >= MaxBatch
    BY <2>3, <2>5 DEF l
  <2>7. InPlace(h, b, guarded)
    BY <1>1, <1>7, <2>1, <2>6 DEF InPlace
  <2> QED
    BY <1>6, <2>1, <2>7 DEF f, b, h
<1>9. CASE ~(f.cap >= MaxBatch)
  <2> DEFINE c == Min({2 * f.cap, MaxBatch})
  <2>1. c \in 1..MaxBatch /\ c >= f.cap
    <3>1. 2 * f.cap \in Int
      BY <1>2
    <3>2. c = IF 2 * f.cap <= MaxBatch THEN 2 * f.cap ELSE MaxBatch
      BY <1>2, <3>1, MinOfTwo
    <3> QED
      BY <1>2, <1>9, <3>2
  <2>2. h = [f EXCEPT !.cap = c]
    BY <1>4, <1>9
  <2> HIDE DEF c
  <2>3. /\ h.got = f.got /\ h.err = f.err /\ h.used = f.used /\ h.line = f.line
        /\ h.cap = c /\ h \in Fed
    BY <1>1, <2>1, <2>2 DEF Fed
  <2>4. h.got - h.used <= h.cap
    BY <1>2, <1>4, <2>1, <2>3
  <2>5. InPlace(h, b, guarded)
    BY <1>1, <1>4, <2>3, <2>4 DEF InPlace
  <2> QED
    BY <1>6, <2>3, <2>5 DEF f, b, h
<1> QED
  BY <1>8, <1>9

(***************************************************************************)
(* A handler keeps the types, and keeps to itself.                         *)
(***************************************************************************)

\* What a client is told of each error.
LEMMA StatusOf ==
    /\ statusOf("fenced") = 409 /\ statusOf("closed") = 503 /\ statusOf("client") = 400
    /\ statusOf("tooLarge") = 413 /\ statusOf("tooLong") = 413 /\ statusOf("gone") = 500
BY DEF statusOf

\* A Scanner that has not begun is in place.
LEMMA Unread ==
    ASSUME NEW b \in Seq(Line), NEW g \in BOOLEAN
    PROVE  unread \in Fed /\ InPlace(unread, b, g)
<1>1. MaxBatch \in Nat /\ MaxBatch >= 1 /\ Buffer \in Nat /\ Buffer >= 1
  BY RecordsAssumption
<1>2. startingBuffer \in 1..MaxBatch
  <2>1. Min({Buffer, MaxBatch}) = IF Buffer <= MaxBatch THEN Buffer ELSE MaxBatch
    BY <1>1, MinOfTwo
  <2> QED
    BY <1>1, <2>1 DEF startingBuffer
<1>3. unread \in Fed
  BY <1>2 DEF unread, Fed
<1>4. upTo(b, 0) = 0 /\ total(b) \in Nat /\ Len(b) \in Nat
  BY Bytesum DEF total
<1>5. /\ unread.line = 1 /\ unread.got = 0 /\ unread.used = 0 /\ unread.err = "none"
      /\ unread.cap = startingBuffer
  BY DEF unread
<1>6. InPlace(unread, b, g)
  BY <1>1, <1>2, <1>4, <1>5 DEF InPlace
<1> QED
  BY <1>3, <1>6

\* A range posted back is lines of its pairs.
LEMMA CopiedLines ==
    ASSUME TypeInv, NEW s \in Request
    PROVE  /\ copied(s) \in Seq(Line) /\ Len(copied(s)) = Len(answer[s])
           /\ \A i \in 1..Len(answer[s]) :
                 /\ copied(s)[i].ended
                 /\ copied(s)[i].what = [answer[s][i] EXCEPT !.op = "write"]
<1> DEFINE a == answer[s]
           l(i) == [size |-> 2, ended |-> TRUE, what |-> [a[i] EXCEPT !.op = "write"]]
<1>1. a \in Seq(Json) /\ Len(a) \in Nat /\ DOMAIN a = 1..Len(a)
  BY DEF TypeInv, RequestTypes
<1>2. \A i \in 1..Len(a) : l(i) \in Line
  <2> SUFFICES ASSUME NEW i \in 1..Len(a) PROVE l(i) \in Line
    OBVIOUS
  <2>1. a[i] \in Json
    BY <1>1
  <2>2. [a[i] EXCEPT !.op = "write"] \in Json
    BY <2>1 DEF Json
  <2> DEFINE w == [a[i] EXCEPT !.op = "write"]
             J == Json \cup {None}
  <2>3. w \in J
    BY <2>2
  <2> HIDE DEF w, J
  <2>4. [size |-> 2, ended |-> TRUE, what |-> w] \in [size : Nat \ {0}, ended : BOOLEAN, what : J]
    BY <2>3
  <2> QED
    BY <2>4 DEF Line, w, J
<1>3. copied(s) = [i \in 1..Len(a) |-> l(i)]
  BY <1>1 DEF copied
<1>4. /\ \A i \in 1..Len(a) : l(i).ended
      /\ \A i \in 1..Len(a) : l(i).what = [a[i] EXCEPT !.op = "write"]
  OBVIOUS
<1> HIDE DEF l, a
<1>5. /\ copied(s) \in Seq(Line) /\ Len(copied(s)) = Len(a)
      /\ \A i \in 1..Len(a) : copied(s)[i] = l(i)
  BY <1>1, <1>2, <1>3
<1> QED
  BY <1>4, <1>5 DEF a

\* A key is put, or refused before it is.
LEMMA PutEither ==
    ASSUME NEW r, Put(r)
    PROVE  \/ \E c \in {400, 413, 500} : answers(r, c) /\ UNCHANGED ops
           \/ \E o \in Operation : /\ doing' = [doing EXCEPT ![r] = "parsed"]
                                   /\ ops' = [ops EXCEPT ![r] = <<o>>]
                                   /\ UNCHANGED status
<1>1. PICK key \in Bytes \ {Empty}, value \in Bytes, expires \in {"", "aTime", "notATime"},
           gone \in BOOLEAN :
        LET err == IF expires = "notATime"     THEN "client"
                   ELSE IF value \in Oversized THEN "tooLarge"
                   ELSE IF gone                THEN "gone"
                   ELSE None
        IN  IF err # None THEN answers(r, statusOf(err)) /\ UNCHANGED ops
            ELSE /\ doing' = [doing EXCEPT ![r] = "parsed"]
                 /\ ops' = [ops EXCEPT ![r] = << [op |-> "write", key |-> key,
                              value |-> value, expires |-> expires # ""] >>]
                 /\ UNCHANGED status
  BY DEF Put
<1> DEFINE err == IF expires = "notATime"     THEN "client"
                  ELSE IF value \in Oversized THEN "tooLarge"
                  ELSE IF gone                THEN "gone"
                  ELSE None
           timed == expires # ""
           o == [op |-> "write", key |-> key, value |-> value, expires |-> timed]
<1>2. err # None => statusOf(err) \in {400, 413, 500}
  BY StatusOf
<1>3. o \in Operation
  <2>1. timed \in BOOLEAN
    OBVIOUS
  <2> HIDE DEF timed
  <2> QED
    BY <2>1 DEF Operation
<1>4. IF err # None THEN answers(r, statusOf(err)) /\ UNCHANGED ops
      ELSE /\ doing' = [doing EXCEPT ![r] = "parsed"]
           /\ ops' = [ops EXCEPT ![r] = <<o>>]
           /\ UNCHANGED status
  BY <1>1
<1> HIDE DEF err, o
<1> QED
  BY <1>2, <1>3, <1>4

\* A range is refused, or sent as what it was called back with.
LEMMA ScanEither ==
    ASSUME NEW r, NEW q, ScanKeys(r, q)
    PROVE  \/ (answers(r, 400) \/ answers(r, 503)) /\ UNCHANGED <<saw, answer>>
           \/ /\ answers(r, 200)
              /\ saw' = [saw EXCEPT ![r] = over(matches(q), scanned(q.limit))]
              /\ answer' = [answer EXCEPT ![r] = [i \in DOMAIN saw'[r] |-> encodePair(saw'[r][i])]]
<1> DEFINE refused == \/ scanned(q.limit) = 0
                      \/ q.prefix # None /\ {q.from, q.to} # {None}
           err == IF refused THEN "client" ELSE "closed"
           s == over(matches(q), scanned(q.limit))
<1>1. IF refused \/ healthy = "closed"
      THEN answers(r, statusOf(err)) /\ UNCHANGED <<saw, answer>>
      ELSE /\ answers(r, 200)
           /\ saw' = [saw EXCEPT ![r] = s]
           /\ answer' = [answer EXCEPT ![r] = [i \in DOMAIN saw'[r] |-> encodePair(saw'[r][i])]]
  BY DEF ScanKeys
<1>2. statusOf(err) = 400 \/ statusOf(err) = 503
  BY StatusOf
<1> HIDE DEF err, refused, s
<1> QED
  BY <1>1, <1>2 DEF s

\* What a handler may do: to whom, and to nobody else.
Mine(r) == <<doing[r], status[r], body[r], copies[r], fed[r], ops[r], saw[r], answer[r]>>

\* A handler's step is about its own request only.
LEMMA NobodyElse ==
    ASSUME TypeInv, NEW r \in Request, Handle(r), NEW q \in Request, q # r
    PROVE  guarded' = guarded /\ Mine(q)' = Mine(q)
<1> USE DEF TypeInv, RequestTypes, Mine, answers, store
<1>1. CASE PostBatch(r)
  BY <1>1 DEF PostBatch
<1>2. CASE ReadBody(r)
  <2>1. \E f : fed' = [fed EXCEPT ![r] = f]
    BY <1>2 DEF ReadBody
  <2> QED
    BY <1>2, <2>1 DEF ReadBody
<1>3. CASE Grow(r)
  BY <1>3 DEF Grow
<1>4. CASE AddLine(r)
  BY <1>4 DEF AddLine, takes
<1>5. CASE RefuseLine(r)
  BY <1>5 DEF RefuseLine
<1>6. CASE Parsed(r)
  BY <1>6 DEF Parsed
<1>7. CASE Store(r)
  BY <1>7 DEF Store
<1>8. CASE Put(r)
  <2>1. \/ \E c : answers(r, c) /\ UNCHANGED ops
        \/ /\ doing' = [doing EXCEPT ![r] = "parsed"] /\ UNCHANGED status
           /\ \E o : ops' = [ops EXCEPT ![r] = o]
    BY <1>8, PutEither
  <2>2. doing'[q] = doing[q] /\ status'[q] = status[q] /\ ops'[q] = ops[q]
    BY <2>1
  <2>3. UNCHANGED <<guarded, body, copies, fed, saw, answer>>
    BY <1>8 DEF Put
  <2> QED
    BY <2>2, <2>3
<1>9. CASE Delete(r)
  BY <1>9 DEF Delete
<1>10. CASE \E c \in Queries : ScanKeys(r, c)
  <2> PICK c \in Queries : ScanKeys(r, c)
    BY <1>10
  <2>1. \/ (answers(r, 400) \/ answers(r, 503)) /\ UNCHANGED <<saw, answer>>
        \/ /\ answers(r, 200)
           /\ saw' = [saw EXCEPT ![r] = over(matches(c), scanned(c.limit))]
           /\ answer' = [answer EXCEPT ![r] = [i \in DOMAIN saw'[r] |-> encodePair(saw'[r][i])]]
    BY ScanEither
  <2>2. doing'[q] = doing[q] /\ status'[q] = status[q] /\ saw'[q] = saw[q] /\ answer'[q] = answer[q]
    BY <2>1
  <2>3. UNCHANGED <<guarded, body, copies, fed, ops>>
    BY DEF ScanKeys
  <2> QED
    BY <2>2, <2>3
<1> QED
  BY <1>1, <1>2, <1>3, <1>4, <1>5, <1>6, <1>7, <1>8, <1>9, <1>10 DEF Handle

\* Whatever a handler does, every variable stays of its type.
LEMMA HandlesTypes ==
    ASSUME TypeInv, NEW r \in Request, ReadInv(r), Handle(r)
    PROVE  TypeInv'
<1> DEFINE Places == {"new", "body", "parsed", "answered"}
           Codes == {0, 200, 204, 400, 409, 413, 500, 503}
<1>a. InPlace(fed[r], body[r], guarded) /\ \A i \in 1..(Len(body[r]) - 1) : body[r][i].ended
  BY DEF ReadInv
<1>b. doing \in [Request -> Places] /\ status \in [Request -> Codes]
  BY DEF TypeInv, RequestTypes
<1>c. body \in [Request -> Seq(Line)] /\ copies \in [Request -> Request \cup {None}]
  BY DEF TypeInv, RequestTypes
<1>d. fed \in [Request -> Fed] /\ ops \in [Request -> Seq(Operation)]
  BY DEF TypeInv, RequestTypes
<1>e. saw \in [Request -> Seq(Pair)] /\ answer \in [Request -> Seq(Json)]
  BY DEF TypeInv, RequestTypes
<1>f. DataTyped /\ healthy \in {"open", "closed", "fenced"} /\ guarded \in BOOLEAN
  BY DEF TypeInv, StoreTypes
<1>g. ASSUME NEW c \in Codes, answers(r, c)
      PROVE  doing' \in [Request -> Places] /\ status' \in [Request -> Codes]
  <2> HIDE DEF Codes
  <2> QED
    BY <1>b, <1>g DEF answers
<1>h. ASSUME /\ doing' \in [Request -> Places] /\ status' \in [Request -> Codes]
             /\ body' \in [Request -> Seq(Line)] /\ copies' \in [Request -> Request \cup {None}]
             /\ fed' \in [Request -> Fed] /\ ops' \in [Request -> Seq(Operation)]
             /\ saw' \in [Request -> Seq(Pair)] /\ answer' \in [Request -> Seq(Json)]
      PROVE  RequestTypes'
  BY <1>h DEF RequestTypes
<1>1. UNCHANGED store => StoreTypes'
  BY <1>f DEF StoreTypes, DataTyped, store
<1>2. CASE PostBatch(r)
  <2>1. PICK b \in Seq(Line) : body' = [body EXCEPT ![r] = b]
    BY <1>2, CopiedLines, RecordsAssumption DEF PostBatch
  <2>2. copies' \in [Request -> Request \cup {None}]
    BY <1>2, <1>c DEF PostBatch
  <2>3. body' \in [Request -> Seq(Line)]
    BY <2>1, <1>c
  <2>4. fed' \in [Request -> Fed]
    <3>1. unread \in Fed
      BY <2>1, <1>f, Unread
    <3> QED
      BY <1>2, <1>d, <3>1 DEF PostBatch
  <2>5. doing' \in [Request -> Places] /\ status' \in [Request -> Codes]
    <3>1. \/ doing' = [doing EXCEPT ![r] = "body"] /\ UNCHANGED status
          \/ answers(r, 413)
      BY <1>2 DEF PostBatch
    <3> QED
      BY <1>b, <1>g, <3>1
  <2> QED
    BY <1>1, <1>2, <1>d, <1>e, <1>h, <2>2, <2>3, <2>4, <2>5 DEF PostBatch, TypeInv
<1>3. CASE ReadBody(r)
  <2>1. fed' \in [Request -> Fed]
    BY <1>3, <1>a, ReadOn
  <2> QED
    BY <1>1, <1>3, <1>b, <1>c, <1>d, <1>e, <1>h, <2>1 DEF ReadBody, TypeInv
<1>4. CASE Grow(r)
  <2>1. fed' \in [Request -> Fed]
    BY <1>4, <1>a, GrowOn
  <2> QED
    BY <1>1, <1>4, <1>b, <1>c, <1>d, <1>e, <1>h, <2>1 DEF Grow, TypeInv
<1>5. CASE AddLine(r)
  <2> DEFINE h == [fed[r] EXCEPT !.line = @ + 1, !.used = Min({@ + next(r).size, fed[r].got})]
  <2>1. hasToken(r) /\ said(r) # Malformed /\ fed' = [fed EXCEPT ![r] = h]
    <3>1. hasToken(r) /\ said(r) # Malformed /\ takes(r)
      BY <1>5 DEF AddLine
    <3>2. fed' = [fed EXCEPT ![r] = h]
      BY <3>1 DEF takes
    <3> QED
      BY <3>1, <3>2
  <2>2. h \in Fed
    <3> DEFINE f == fed[r]
               b == body[r]
    <3>1. /\ f.line \in 1..Len(b) /\ f.used = upTo(b, f.line - 1) /\ f.got > f.used
          /\ f.got < f.used + b[f.line].size => f.err \in {"tooLarge", "gone"}
      BY <1>a, <2>1, TokenIs DEF next
    <3>2. f \in Fed /\ b \in Seq(Line) /\ InPlace(f, b, guarded)
      BY <1>a, <1>c, <1>d
    <3>3. h = [f EXCEPT !.line = @ + 1, !.used = Min({@ + b[f.line].size, f.got})]
      BY DEF next
    <3> HIDE DEF f, b, h
    <3> QED
      BY <1>f, <3>1, <3>2, <3>3, TokenTaken
  <2>3. fed' \in [Request -> Fed]
    <3> HIDE DEF h
    <3> QED
      BY <2>1, <2>2, <1>d
  <2>4. said(r) # None => said(r) \in Operation
    <3>1. next(r).what \in Json \cup {None}
      BY <1>a, <2>1, TokenIs, LineParts
    <3> QED
      BY <2>1, <3>1, OperationOf DEF said
  <2>5. ops' = ops \/ (said(r) # None /\ ops' = [ops EXCEPT ![r] = Append(ops[r], said(r))])
    BY <1>5, <1>d DEF AddLine, takes
  <2>6. ops' \in [Request -> Seq(Operation)]
    <3>1. CASE ops' = ops
      BY <1>d, <3>1
    <3>2. CASE said(r) # None /\ ops' = [ops EXCEPT ![r] = Append(ops[r], said(r))]
      <4>1. Append(ops[r], said(r)) \in Seq(Operation)
        BY <1>d, <2>4, <3>2, AppendProperties
      <4> QED
        BY <1>d, <3>2, <4>1
    <3> QED
      BY <2>5, <3>1, <3>2
  <2> QED
    BY <1>1, <1>5, <1>b, <1>c, <1>e, <1>h, <2>3, <2>6 DEF AddLine, TypeInv
<1>6. CASE RefuseLine(r)
  <2>1. fed[r].err \in {"none", "EOF", "tooLarge", "tooLong", "gone"}
    BY <1>d DEF Fed
  <2> DEFINE err == IF fed[r].err \in {"none", "EOF"} THEN "client" ELSE fed[r].err
  <2>2. statusOf(err) \in {400, 413, 500}
    BY <2>1, StatusOf
  <2>3. answers(r, statusOf(err))
    BY <1>6 DEF RefuseLine
  <2>4. statusOf(err) \in Codes
    BY <2>2
  <2> HIDE DEF err
  <2>5. doing' \in [Request -> Places] /\ status' \in [Request -> Codes]
    BY <1>g, <2>3, <2>4
  <2> QED
    BY <1>1, <1>6, <1>c, <1>d, <1>e, <1>h, <2>5 DEF RefuseLine, TypeInv
<1>7. CASE Parsed(r)
  <2>1. fed[r].err \in {"none", "EOF", "tooLarge", "tooLong", "gone"}
    BY <1>d DEF Fed
  <2>2. fed[r].err \notin {"none", "EOF"} => statusOf(fed[r].err) \in Codes
    BY <2>1, StatusOf
  <2>3. \/ doing' = [doing EXCEPT ![r] = "parsed"] /\ UNCHANGED status
        \/ fed[r].err \notin {"none", "EOF"} /\ answers(r, statusOf(fed[r].err))
    BY <1>7 DEF Parsed
  <2>4. doing' \in [Request -> Places] /\ status' \in [Request -> Codes]
    BY <1>b, <1>g, <2>2, <2>3
  <2> QED
    BY <1>1, <1>7, <1>c, <1>d, <1>e, <1>h, <2>4 DEF Parsed, TypeInv
<1>8. CASE Store(r)
  <2>1. \E c \in Codes : answers(r, c)
    BY <1>8, <1>f, StatusOf DEF Store
  <2>2. RequestTypes'
    <3>1. doing' \in [Request -> Places] /\ status' \in [Request -> Codes]
      BY <1>g, <2>1
    <3>2. UNCHANGED <<body, copies, fed, ops, saw, answer>>
      BY <1>8 DEF Store
    <3> QED
      BY <1>c, <1>d, <1>e, <1>h, <3>1, <3>2
  <2>3. data' = data \/ data' = Effect(ops[r])
    BY <1>8 DEF Store
  <2>4. data' \in [Bytes -> Record \cup {None}]
    <3>1. ops[r] \in Seq(Operation)
      BY <1>d
    <3>2. Effect(ops[r]) \in [Bytes -> Record \cup {None}]
      BY <1>f, <3>1, EffectOfBatch
    <3> QED
      BY <1>f, <2>3, <3>2 DEF DataTyped
  <2> QED
    BY <1>8, <1>f, <2>2, <2>4 DEF Store, StoreTypes, DataTyped, TypeInv
<1>9. CASE Put(r)
  <2>1. \/ \E c \in {400, 413, 500} : answers(r, c) /\ UNCHANGED ops
        \/ \E o \in Operation : /\ doing' = [doing EXCEPT ![r] = "parsed"]
                                /\ ops' = [ops EXCEPT ![r] = <<o>>]
                                /\ UNCHANGED status
    BY <1>9, PutEither
  <2>2. ops' \in [Request -> Seq(Operation)]
    <3>1. CASE UNCHANGED ops
      BY <1>d, <3>1
    <3>2. ASSUME NEW o \in Operation, ops' = [ops EXCEPT ![r] = <<o>>]
          PROVE  ops' \in [Request -> Seq(Operation)]
      <4>1. <<o>> \in Seq(Operation)
        OBVIOUS
      <4> QED
        BY <1>d, <3>2, <4>1
    <3> QED
      BY <2>1, <3>1, <3>2
  <2>3. doing' \in [Request -> Places] /\ status' \in [Request -> Codes]
    <3>1. CASE \E c \in {400, 413, 500} : answers(r, c)
      BY <1>g, <3>1
    <3>2. CASE doing' = [doing EXCEPT ![r] = "parsed"] /\ UNCHANGED status
      BY <1>b, <3>2
    <3> QED
      BY <2>1, <3>1, <3>2
  <2> QED
    BY <1>1, <1>9, <1>c, <1>d, <1>e, <1>h, <2>2, <2>3 DEF Put, TypeInv
<1>10. CASE Delete(r)
  <2>1. PICK key \in Bytes : ops' = [ops EXCEPT ![r] =
            << [op |-> "delete", key |-> key, value |-> Empty, expires |-> FALSE] >>]
    BY <1>10 DEF Delete
  <2>2. [op |-> "delete", key |-> key, value |-> Empty, expires |-> FALSE] \in Operation
    BY RecordsAssumption DEF Operation, Bytes
  <2> DEFINE o == [op |-> "delete", key |-> key, value |-> Empty, expires |-> FALSE]
  <2>3. <<o>> \in Seq(Operation) /\ ops' = [ops EXCEPT ![r] = <<o>>]
    BY <2>1, <2>2
  <2> HIDE DEF o
  <2>4. ops' \in [Request -> Seq(Operation)]
    BY <1>d, <2>3
  <2>5. doing' \in [Request -> Places]
    BY <1>10, <1>b DEF Delete
  <2> QED
    BY <1>1, <1>10, <1>b, <1>c, <1>d, <1>e, <1>h, <2>4, <2>5 DEF Delete, TypeInv
<1>11. ASSUME NEW q \in Queries, ScanKeys(r, q) PROVE TypeInv'
  <2>1. answers(r, 400) \/ answers(r, 503) \/ answers(r, 200)
    BY <1>11, ScanEither
  <2>2. doing' \in [Request -> Places] /\ status' \in [Request -> Codes]
    BY <1>g, <2>1
  <2> DEFINE s == over(matches(q), scanned(q.limit))
  <2>3. \/ UNCHANGED <<saw, answer>>
        \/ /\ saw' = [saw EXCEPT ![r] = s]
           /\ answer' = [answer EXCEPT ![r] = [i \in DOMAIN saw'[r] |-> encodePair(saw'[r][i])]]
    BY <1>11, ScanEither
  <2>4. s \in Seq(Pair)
    BY <1>f, MatchesOf, OverPairs
  <2> HIDE DEF s
  <2>5. saw' \in [Request -> Seq(Pair)]
    BY <1>e, <2>3, <2>4
  <2>6. [i \in DOMAIN s |-> encodePair(s[i])] \in Seq(Json)
    <3>1. \A i \in 1..Len(s) : encodePair(s[i]) \in Json
      <4> SUFFICES ASSUME NEW i \in 1..Len(s) PROVE encodePair(s[i]) \in Json
        OBVIOUS
      <4>0. s[i] \in Pair
        BY <2>4
      <4>1. s[i].key \in Bytes /\ s[i].value \in Bytes
        BY <4>0 DEF Pair
      <4>2. \A b \in Bytes : /\ onTheWire(b).plain \in Bytes \cup {None}
                              /\ onTheWire(b).coded \in Bytes \cup {None}
        BY DEF onTheWire, Bytes
      <4> QED
        BY <4>1, <4>2 DEF encodePair, Json
    <3> QED
      BY <2>4, <3>1
  <2>7. answer' \in [Request -> Seq(Json)]
    <3> DEFINE a == [i \in DOMAIN s |-> encodePair(s[i])]
    <3>1. CASE UNCHANGED answer
      BY <1>e, <3>1
    <3>2. CASE /\ saw' = [saw EXCEPT ![r] = s]
               /\ answer' = [answer EXCEPT ![r] = [i \in DOMAIN saw'[r] |-> encodePair(saw'[r][i])]]
      <4>1. saw'[r] = s
        BY <1>e, <3>2
      <4>2. [i \in DOMAIN saw'[r] |-> encodePair(saw'[r][i])] = a
        BY <4>1
      <4>3. answer' = [answer EXCEPT ![r] = a]
        BY <3>2, <4>2
      <4> HIDE DEF a
      <4> QED
        BY <1>e, <2>6, <4>3 DEF a
    <3> QED
      BY <2>3, <3>1, <3>2
  <2> QED
    BY <1>1, <1>11, <1>c, <1>d, <1>h, <2>2, <2>5, <2>7 DEF ScanKeys, TypeInv
<1> QED
  BY <1>2, <1>3, <1>4, <1>5, <1>6, <1>7, <1>8, <1>9, <1>10, <1>11 DEF Handle

(***************************************************************************)
(* What a handler does to its own request.                                 *)
(***************************************************************************)

\* What is known of one request, of any type.
LEMMA Parts ==
    ASSUME TypeInv, NEW r \in Request
    PROVE  /\ body[r] \in Seq(Line) /\ ops[r] \in Seq(Operation) /\ fed[r] \in Fed
           /\ saw[r] \in Seq(Pair) /\ answer[r] \in Seq(Json)
           /\ copies[r] \in Request \cup {None}
           /\ status[r] \in {0, 200, 204, 400, 409, 413, 500, 503}
           /\ doing[r] \in {"new", "body", "parsed", "answered"}
           /\ guarded \in BOOLEAN /\ healthy \in {"open", "closed", "fenced"}
           /\ DOMAIN doing = Request /\ DOMAIN status = Request /\ DOMAIN ops = Request
           /\ DOMAIN saw = Request /\ DOMAIN answer = Request /\ DOMAIN fed = Request
           /\ DOMAIN body = Request /\ DOMAIN copies = Request
<1>1. doing \in [Request -> {"new", "body", "parsed", "answered"}]
  BY DEF TypeInv, RequestTypes
<1>2. status \in [Request -> {0, 200, 204, 400, 409, 413, 500, 503}]
  BY DEF TypeInv, RequestTypes
<1>3. body \in [Request -> Seq(Line)] /\ copies \in [Request -> Request \cup {None}]
  BY DEF TypeInv, RequestTypes
<1>4. fed \in [Request -> Fed] /\ ops \in [Request -> Seq(Operation)]
  BY DEF TypeInv, RequestTypes
<1>5. saw \in [Request -> Seq(Pair)] /\ answer \in [Request -> Seq(Json)]
  BY DEF TypeInv, RequestTypes
<1>6. guarded \in BOOLEAN /\ healthy \in {"open", "closed", "fenced"}
  BY DEF TypeInv, StoreTypes
<1>7. status[r] \in {0, 200, 204, 400, 409, 413, 500, 503}
  BY <1>2
<1>8. doing[r] \in {"new", "body", "parsed", "answered"}
  BY <1>1
<1> QED
  BY <1>1, <1>2, <1>3, <1>4, <1>5, <1>6, <1>7, <1>8

\* A range that was sent is not sent again, so what was copied of it stands.
LEMMA CopiesStand ==
    ASSUME RecordsInv, NEW r \in Request, Handle(r), NEW q \in Request,
           body'[q] = body[q], copies'[q] = copies[q]
    PROVE  CopyInv(q)'
<1> SUFFICES ASSUME copies[q] # None
             PROVE  status'[copies[q]] = 200 /\ body[q] = copied(copies[q])'
  BY DEF CopyInv
<1> DEFINE s == copies[q]
<1>1. s \in Request
  BY Parts DEF RecordsInv
<1>2. status[s] = 200 /\ body[q] = copied(s) /\ AnswerInv(s)
  BY <1>1 DEF RecordsInv, CopyInv
<1>3. doing[s] = "answered"
  BY <1>2 DEF AnswerInv
<1>4. doing[r] # "answered"
  BY DEF Handle, PostBatch, ReadBody, Grow, AddLine, RefuseLine, Parsed, Store, Put, Delete, ScanKeys
<1>5. s # r
  BY <1>3, <1>4
<1>6. status'[s] = status[s] /\ answer'[s] = answer[s]
  BY <1>1, <1>5, NobodyElse DEF RecordsInv, Mine
<1>7. copied(s)' = copied(s)
  BY <1>6 DEF copied
<1> QED
  BY <1>2, <1>6, <1>7

\* Everyone else's request stands as it is.
LEMMA OthersStand ==
    ASSUME RecordsInv, NEW r \in Request, Handle(r), NEW q \in Request, q # r
    PROVE  ReadInv(q)' /\ AnswerInv(q)' /\ CopyInv(q)'
<1>1. /\ doing'[q] = doing[q] /\ status'[q] = status[q] /\ body'[q] = body[q]
      /\ copies'[q] = copies[q] /\ fed'[q] = fed[q] /\ ops'[q] = ops[q]
      /\ saw'[q] = saw[q] /\ answer'[q] = answer[q] /\ guarded' = guarded
  BY NobodyElse DEF RecordsInv, Mine
<1>2. ReadInv(q) /\ AnswerInv(q)
  BY DEF RecordsInv
<1>3. CopyInv(q)'
  BY <1>1, CopiesStand
<1>4. ReadInv(q)'
  BY <1>1, <1>2 DEF ReadInv
<1>5. AnswerInv(q)'
  BY <1>1, <1>2 DEF AnswerInv
<1> QED
  BY <1>3, <1>4, <1>5

\* A body begins with nothing read of it.
LEMMA BeginsABody ==
    ASSUME RecordsInv, NEW r \in Request, PostBatch(r)
    PROVE  ReadInv(r)' /\ AnswerInv(r)' /\ CopyInv(r)'
<1>1. /\ doing[r] = "new" /\ status[r] = 0 /\ ops[r] = <<>>
  <2>1. doing[r] = "new" /\ AnswerInv(r)
    BY DEF PostBatch, RecordsInv
  <2> QED
    BY <2>1 DEF AnswerInv
<1> DEFINE b == body'[r]
           c == copies'[r]
<1>2. PICK x : body' = [body EXCEPT ![r] = x]
  BY DEF PostBatch
<1>3. b = x
  BY <1>2, Parts DEF RecordsInv
<1>4. /\ b \in Seq(Line) /\ \A i \in 1..(Len(b) - 1) : b[i].ended
      /\ \/ c = None
         \/ c \in Request /\ status[c] = 200 /\ b = copied(c)
  <2>1. CASE \E y \in Bodies : body' = [body EXCEPT ![r] = y] /\ UNCHANGED copies
    <3>1. b \in Bodies /\ c = copies[r]
      BY <2>1, Parts DEF RecordsInv
    <3>2. copies[r] = None
      BY <1>1 DEF RecordsInv, AnswerInv
    <3> QED
      BY <3>1, <3>2, RecordsAssumption
  <2>2. ASSUME NEW s \in Request, status[s] = 200, body' = [body EXCEPT ![r] = copied(s)],
               copies' = [copies EXCEPT ![r] = s]
        PROVE  <1>4
    <3>1. b = copied(s) /\ c = s
      BY <2>2, Parts DEF RecordsInv
    <3>2. /\ b \in Seq(Line) /\ \A i \in 1..Len(b) : b[i].ended
      BY <3>1, CopiedLines DEF RecordsInv
    <3>3. \A i \in 1..(Len(b) - 1) : b[i].ended
      BY <3>2
    <3> QED
      BY <2>2, <3>1, <3>2, <3>3
  <2> QED
    BY <2>1, <2>2 DEF PostBatch
<1>5. /\ fed'[r] = unread /\ ops'[r] = <<>> /\ answer' = answer /\ saw' = saw /\ guarded' = guarded
  BY <1>1, Parts DEF PostBatch, RecordsInv, store
<1>6. \/ doing'[r] = "body" /\ status'[r] = 0 /\ status' = status
      \/ /\ doing'[r] = "answered" /\ status'[r] = 413 /\ total(b) > MaxBatch
         /\ status' = [status EXCEPT ![r] = 413]
  BY <1>1, Parts DEF PostBatch, answers, RecordsInv
<1>7. unread \in Fed /\ InPlace(unread, b, guarded) /\ unread.line = 1
  <2>1. guarded \in BOOLEAN
    BY Parts DEF RecordsInv
  <2>2. unread \in Fed /\ InPlace(unread, b, guarded)
    BY <1>4, <2>1, Unread
  <2> QED
    BY <2>2 DEF unread
<1>8. SoFar(<<>>, unread, b)
  <2>1. unread.line - 1 = 0
    BY <1>7
  <2>2. meantBy(b, 0) = <<>>
    BY <1>4, Sayings
  <2> QED
    BY <2>1, <2>2 DEF SoFar, Says, Fit
<1>9. ReadInv(r)'
  BY <1>4, <1>5, <1>6, <1>7, <1>8 DEF ReadInv
<1>10. AnswerInv(r)'
  BY <1>6 DEF AnswerInv, Blames
<1>11. CopyInv(r)'
  <2>1. CASE c = None
    BY <2>1 DEF CopyInv
  <2>2. ASSUME NEW s \in Request, c = s, status[s] = 200, b = copied(s) PROVE CopyInv(r)'
    <3>1. s # r
      BY <1>1, <2>2
    <3>2. status'[s] = 200
      BY <1>6, <2>2, <3>1, Parts DEF RecordsInv
    <3>3. copied(s)' = copied(s)
      BY <1>5 DEF copied
    <3> QED
      BY <2>2, <3>2, <3>3 DEF CopyInv
  <2> QED
    BY <1>4, <2>1, <2>2
<1> QED
  BY <1>9, <1>10, <1>11

\* Reading on and growing leave what was said as it was.
LEMMA ReadsAndGrows ==
    ASSUME RecordsInv, NEW r \in Request, ReadBody(r) \/ Grow(r)
    PROVE  ReadInv(r)' /\ AnswerInv(r)' /\ CopyInv(r)'
<1>1. ReadInv(r) /\ AnswerInv(r) /\ TypeInv
  BY DEF RecordsInv
<1>2. /\ InPlace(fed[r], body[r], guarded)
      /\ \A i \in 1..(Len(body[r]) - 1) : body[r][i].ended
  BY <1>1 DEF ReadInv
<1>3. /\ InPlace(fed'[r], body[r], guarded)
      /\ fed'[r].line = fed[r].line /\ fed'[r].used = fed[r].used
  BY <1>1, <1>2, ReadOn, GrowOn
<1>4. /\ UNCHANGED <<doing, status, body, copies, ops, saw, answer>> /\ guarded' = guarded
      /\ doing[r] = "body"
  BY DEF ReadBody, Grow, store
<1>5. SoFar(ops[r], fed'[r], body[r])
  BY <1>1, <1>3, <1>4 DEF SoFar, ReadInv
<1>6. ReadInv(r)'
  BY <1>1, <1>3, <1>4, <1>5 DEF ReadInv
<1>7. AnswerInv(r)'
  BY <1>1, <1>4 DEF AnswerInv
<1>8. CopyInv(r)'
  BY <1>4, CopiesStand DEF Handle
<1> QED
  BY <1>6, <1>7, <1>8

\* A line that is taken says what it is meant as, whole.
LEMMA TakesALine ==
    ASSUME RecordsInv, NEW r \in Request, AddLine(r)
    PROVE  ReadInv(r)' /\ AnswerInv(r)' /\ CopyInv(r)'
<1> DEFINE f == fed[r]
           b == body[r]
           l == b[f.line]
           h == [f EXCEPT !.line = @ + 1, !.used = Min({@ + l.size, f.got})]
<1>1. ReadInv(r) /\ AnswerInv(r) /\ TypeInv
  BY DEF RecordsInv
<1>2. /\ f \in Fed /\ b \in Seq(Line) /\ guarded \in BOOLEAN /\ InPlace(f, b, guarded)
  BY <1>1, Parts DEF ReadInv
<1>3. /\ f.line \in 1..Len(b) /\ l \in Line /\ f.used = upTo(b, f.line - 1) /\ f.got > f.used
      /\ f.got < f.used + l.size => f.err \in {"tooLarge", "gone"}
  <2>1. hasToken(r)
    BY DEF AddLine
  <2>2. next(r) = l
    BY DEF next
  <2> HIDE DEF l
  <2> QED
    BY <1>1, <1>2, <2>1, <2>2, TokenIs
<1>4. /\ doing[r] = "body" /\ said(r) # Malformed
      /\ UNCHANGED <<doing, status, body, copies, saw, answer>> /\ guarded' = guarded
  BY DEF AddLine, store
<1>5. fed'[r] = h
  <2>1. fed' = [fed EXCEPT ![r] = h]
    BY DEF AddLine, takes, next
  <2> HIDE DEF h
  <2> QED
    BY <1>1, <2>1, Parts
<1>6. ops'[r] = IF said(r) = None THEN ops[r] ELSE Append(ops[r], said(r))
  BY <1>1, Parts DEF AddLine, takes
<1>7. /\ InPlace(h, b, guarded) /\ (h.used = upTo(b, h.line - 1) => l.size <= MaxBatch)
      /\ h.line = f.line + 1
  <2>1. h.line = f.line + 1
    BY <1>2 DEF Fed
  <2> HIDE DEF h
  <2>2. h = [f EXCEPT !.line = @ + 1, !.used = Min({@ + b[f.line].size, f.got})]
    BY DEF h
  <2> HIDE DEF f, b
  <2>3. InPlace(h, b, guarded) /\ (h.used = upTo(b, h.line - 1) => b[f.line].size <= MaxBatch)
    BY <1>2, <1>3, <2>2, TokenTaken DEF l
  <2> QED
    BY <2>1, <2>3
<1>8. /\ said(r) = IF l.what = None THEN None
                   ELSE IF pending(r) >= object(l) THEN operation(l.what)
                   ELSE Malformed
  BY DEF said, next
<1>9. /\ l.what = None => said(r) = None
      /\ l.what # None => said(r) = operation(l.what) /\ operation(l.what) \in Operation
                          /\ operation(l.what) # Malformed
  <2>1. l.what # None => said(r) = operation(l.what)
    BY <1>4, <1>8
  <2>2. l.what # None => l.what \in Json
    BY <1>3, LineParts
  <2> HIDE DEF l
  <2> QED
    BY <1>4, <1>8, <2>1, <2>2, OperationOf
<1>10. None \notin Operation
  BY RecordsAssumption
<1>11. SoFar(ops[r], f, b) /\ Fit(b, f.line - 1)
  <2>1. SoFar(ops[r], f, b)
    BY <1>1, <1>4 DEF ReadInv
  <2> QED
    BY <1>3, <2>1 DEF SoFar
<1>12. SoFar(ops'[r], h, b)
  <2>1. h.line - 1 = f.line
    BY <1>3, <1>7
  <2>2. meantBy(b, f.line) = IF l.what = None THEN meantBy(b, f.line - 1)
                             ELSE Append(meantBy(b, f.line - 1), operation(l.what))
    BY <1>2, <1>3, Sayings
  <2>3. ops[r] = meantBy(b, f.line - 1)
        /\ \A j \in 1..(f.line - 1) : b[j].what # None => operation(b[j].what) # Malformed
    BY <1>11 DEF SoFar, Says
  <2>4. ops'[r] = meantBy(b, f.line)
    BY <1>6, <1>9, <1>10, <2>2, <2>3
  <2>5. \A j \in 1..f.line : j \in 1..(f.line - 1) \/ j = f.line
    BY <1>3
  <2>6. \A j \in 1..f.line : b[j].what # None => operation(b[j].what) # Malformed
    BY <1>9, <2>3, <2>5
  <2>7. Says(ops'[r], b, h.line - 1)
    BY <2>1, <2>4, <2>6 DEF Says
  <2>8. h.used = upTo(b, h.line - 1) => Fit(b, h.line - 1)
    BY <1>7, <1>11, <2>1, <2>5 DEF Fit
  <2> QED
    BY <2>7, <2>8 DEF SoFar
<1> HIDE DEF f, b, l, h
<1>13. ReadInv(r)'
  <2>1. status[r] # 204
    BY <1>1, <1>4 DEF AnswerInv
  <2>2. fed'[r] = h /\ body'[r] = b /\ doing'[r] = "body" /\ status'[r] = status[r]
    BY <1>4, <1>5 DEF b
  <2>3. \A i \in 1..(Len(b) - 1) : b[i].ended
    BY <1>1 DEF ReadInv, b
  <2> QED
    BY <1>4, <1>7, <1>12, <2>1, <2>2, <2>3 DEF ReadInv
<1>14. AnswerInv(r)'
  <2>1. doing'[r] = "body" /\ status'[r] = status[r] /\ body'[r] = body[r] /\ guarded' = guarded
        /\ saw'[r] = saw[r] /\ answer'[r] = answer[r]
    BY <1>4
  <2> QED
    BY <1>1, <1>4, <2>1 DEF AnswerInv
<1>15. CopyInv(r)'
  BY <1>4, CopiesStand DEF Handle
<1> QED
  BY <1>13, <1>14, <1>15

\* Whatever is answered in place of a body that is refused, or stored.
LEMMA Answered ==
    ASSUME RecordsInv, NEW r \in Request, Handle(r), NEW code, answers(r, code),
           code # 200, UNCHANGED <<guarded, body, copies, fed, ops>>,
           code = 204 /\ (body[r] # <<>> \/ copies[r] # None) => Whole(ops[r], body[r]),
           Blames(code, body[r], guarded)
    PROVE  ReadInv(r)' /\ AnswerInv(r)' /\ CopyInv(r)'
<1>1. ReadInv(r) /\ TypeInv
  BY DEF RecordsInv
<1>2. doing'[r] = "answered" /\ status'[r] = code
  BY <1>1, Parts DEF answers
<1>3. ReadInv(r)'
  BY <1>1, <1>2 DEF ReadInv
<1>4. AnswerInv(r)'
  BY <1>2 DEF AnswerInv
<1>5. CopyInv(r)'
  BY CopiesStand
<1> QED
  BY <1>3, <1>4, <1>5

\* What there is of a line is refused for what it says, or for why there is no more.
LEMMA RefusesALine ==
    ASSUME RecordsInv, NEW r \in Request, RefuseLine(r)
    PROVE  ReadInv(r)' /\ AnswerInv(r)' /\ CopyInv(r)'
<1> DEFINE f == fed[r]
           b == body[r]
           l == b[f.line]
           code == statusOf(IF f.err \in {"none", "EOF"} THEN "client" ELSE f.err)
<1>1. ReadInv(r) /\ AnswerInv(r) /\ TypeInv
  BY DEF RecordsInv
<1>2. f \in Fed /\ b \in Seq(Line) /\ guarded \in BOOLEAN /\ InPlace(f, b, guarded)
  BY <1>1, Parts DEF ReadInv
<1>3. /\ f.line \in 1..Len(b) /\ l \in Line /\ f.used = upTo(b, f.line - 1) /\ f.got > f.used
      /\ f.got < f.used + l.size => f.err \in {"tooLarge", "gone"}
  <2>1. hasToken(r)
    BY DEF RefuseLine
  <2>2. next(r) = l
    BY DEF next
  <2> HIDE DEF l
  <2> QED
    BY <1>1, <1>2, <2>1, <2>2, TokenIs
<1>4. said(r) = Malformed /\ answers(r, code)
      /\ UNCHANGED <<body, copies, fed, ops>> /\ guarded' = guarded
  BY DEF RefuseLine, store
<1>5. /\ f.got \in Nat /\ f.used \in Nat /\ l.size \in Nat /\ MaxBatch \in Nat
      /\ f.err \in {"none", "EOF", "tooLarge", "tooLong", "gone"}
  BY <1>2, <1>3, LineParts, RecordsAssumption DEF Fed
<1>6. code \in {400, 413, 500} /\ (code = 400 => f.err \in {"none", "EOF"})
      /\ (code = 413 => f.err \in {"tooLarge", "tooLong"})
  BY <1>5, StatusOf
<1>7. ASSUME code = 400
      PROVE  /\ l.what # None /\ operation(l.what) = Malformed
             /\ guarded => upTo(b, f.line - 1) < MaxBatch
  <2>1. l.what # None
    BY <1>4, RecordsAssumption DEF said, next
  <2>2. pending(r) >= object(l)
    <3>1. f.got >= f.used + l.size
      <4>1. ~(f.got < f.used + l.size)
        BY <1>3, <1>6, <1>7
      <4> HIDE DEF l
      <4> QED
        BY <1>5, <4>1
    <3>2. object(l) <= l.size /\ object(l) \in Int
      BY <1>5 DEF object
    <3> QED
      BY <1>5, <3>1, <3>2 DEF pending
  <2>3. operation(l.what) = Malformed
    BY <1>4, <2>1, <2>2 DEF said, next
  <2>4. guarded => f.got <= MaxBatch
    BY <1>2 DEF InPlace
  <2> QED
    BY <1>3, <1>5, <2>1, <2>3, <2>4
<1>8. code = 413 => total(b) > MaxBatch \/ \E i \in 1..Len(b) : b[i].size >= MaxBatch
  BY <1>2, <1>6 DEF InPlace
<1>9. Blames(code, b, guarded)
  BY <1>3, <1>7, <1>8 DEF Blames
<1>10. code # 200 /\ code # 204
  BY <1>6
<1> HIDE DEF code, b, f, l
<1> QED
  BY <1>4, <1>9, <1>10, Answered DEF b, Handle

\* A body is read to its end when there is no more of it and no line left.
LEMMA EndsABody ==
    ASSUME RecordsInv, NEW r \in Request, Parsed(r)
    PROVE  ReadInv(r)' /\ AnswerInv(r)' /\ CopyInv(r)'
<1> DEFINE f == fed[r]
           b == body[r]
<1>1. ReadInv(r) /\ AnswerInv(r) /\ TypeInv
  BY DEF RecordsInv
<1>2. f \in Fed /\ b \in Seq(Line) /\ guarded \in BOOLEAN /\ InPlace(f, b, guarded)
  BY <1>1, Parts DEF ReadInv
<1>3. /\ f.got \in Nat /\ f.used \in Nat /\ f.line \in Nat /\ f.line >= 1 /\ Len(b) \in Nat
      /\ f.err \in {"none", "EOF", "tooLarge", "tooLong", "gone"}
  BY <1>2 DEF Fed
<1>4. /\ doing[r] = "body" /\ f.err # "none" /\ ~hasToken(r)
      /\ UNCHANGED <<body, copies, fed, ops, saw, answer>> /\ guarded' = guarded
  BY DEF Parsed, store
<1>5. CASE f.err # "EOF"
  <2> DEFINE code == statusOf(f.err)
  <2>1. answers(r, code)
    BY <1>5 DEF Parsed
  <2>2. code \in {413, 500} /\ (code = 413 => f.err \in {"tooLarge", "tooLong"})
    BY <1>3, <1>4, <1>5, StatusOf
  <2>3. code = 413 => total(b) > MaxBatch \/ \E i \in 1..Len(b) : b[i].size >= MaxBatch
    BY <1>2, <2>2 DEF InPlace
  <2>4. Blames(code, b, guarded) /\ code # 200 /\ code # 204
    BY <2>2, <2>3 DEF Blames
  <2> HIDE DEF code, b, f
  <2> QED
    BY <1>4, <2>1, <2>4, Answered DEF b, Handle
<1>6. CASE f.err = "EOF"
  <2>1. f.used = upTo(b, f.line - 1) /\ f.got = total(b) /\ f.used <= f.got /\ f.line <= Len(b) + 1
    BY <1>2, <1>6 DEF InPlace
  <2>2. f.used = f.got
    BY <1>3, <1>4, <1>6, <2>1 DEF hasToken, pending
  <2>3. f.line - 1 \in 0..Len(b)
    BY <1>3, <2>1
  <2>4. f.line - 1 = Len(b)
    <3>1. f.line - 1 < Len(b) => total(b) > upTo(b, f.line - 1)
      BY <1>2, <2>3, Further
    <3>2. ~(total(b) > upTo(b, f.line - 1))
      BY <1>3, <2>1, <2>2
    <3> QED
      BY <1>3, <2>3, <3>1, <3>2
  <2>5. SoFar(ops[r], f, b)
    BY <1>1, <1>4 DEF ReadInv
  <2>6. Whole(ops[r], b)
    BY <2>1, <2>4, <2>5 DEF SoFar, Whole
  <2>7. doing'[r] = "parsed" /\ status' = status
    BY <1>1, <1>6, Parts DEF Parsed
  <2>8. ReadInv(r)'
    BY <1>1, <1>4, <2>6, <2>7 DEF ReadInv
  <2>9. AnswerInv(r)'
    BY <1>1, <1>4, <2>7 DEF AnswerInv
  <2>10. CopyInv(r)'
    BY <1>4, CopiesStand DEF Handle
  <2> QED
    BY <2>8, <2>9, <2>10
<1> QED
  BY <1>5, <1>6

\* The store takes a batch that is whole.
LEMMA StoresABatch ==
    ASSUME RecordsInv, NEW r \in Request, Store(r)
    PROVE  ReadInv(r)' /\ AnswerInv(r)' /\ CopyInv(r)'
<1>1. ReadInv(r) /\ TypeInv
  BY DEF RecordsInv
<1>2. doing[r] = "parsed" /\ UNCHANGED <<guarded, body, copies, fed, ops>>
  BY DEF Store
<1>3. PICK code : answers(r, code) /\ code \in {204, 409, 503}
  <2>1. healthy = "open" \/ statusOf(healthy) = 409 \/ statusOf(healthy) = 503
    <3>1. healthy \in {"open", "closed", "fenced"}
      BY <1>1, Parts
    <3> QED
      BY <3>1, StatusOf
  <2>2. answers(r, 204) \/ (healthy # "open" /\ answers(r, statusOf(healthy)))
    BY DEF Store
  <2> QED
    BY <2>1, <2>2
<1>4. Blames(code, body[r], guarded)
  BY <1>3 DEF Blames
<1>5. body[r] # <<>> \/ copies[r] # None => Whole(ops[r], body[r])
  BY <1>1, <1>2 DEF ReadInv
<1> QED
  BY <1>2, <1>3, <1>4, <1>5, Answered DEF Handle

\* One key at a time, and a range, there is no body to speak of.
LEMMA HasNoBody ==
    ASSUME RecordsInv, NEW r \in Request,
           Put(r) \/ Delete(r) \/ \E q \in Queries : ScanKeys(r, q)
    PROVE  ReadInv(r)' /\ AnswerInv(r)' /\ CopyInv(r)'
<1>1. ReadInv(r) /\ AnswerInv(r) /\ TypeInv /\ doing[r] = "new"
  BY DEF RecordsInv, Put, Delete, ScanKeys
<1>2. body[r] = <<>> /\ copies[r] = None /\ status[r] = 0
  BY <1>1 DEF AnswerInv
<1>3. UNCHANGED <<guarded, body, copies, fed>>
  BY DEF Put, Delete, ScanKeys, store
<1>4. /\ doing'[r] \in {"parsed", "answered"}
      /\ status'[r] # 0 => doing'[r] = "answered"
      /\ status'[r] = 200 => answer'[r] = [i \in DOMAIN saw'[r] |-> encodePair(saw'[r][i])]
  <2>1. CASE Put(r)
    <3>1. \/ \E c \in {400, 413, 500} : answers(r, c)
          \/ doing' = [doing EXCEPT ![r] = "parsed"] /\ status' = status
      BY <2>1, PutEither
    <3> QED
      BY <1>1, <1>2, <3>1, Parts DEF answers
  <2>2. CASE Delete(r)
    BY <1>1, <1>2, <2>2, Parts DEF Delete
  <2>3. ASSUME NEW q \in Queries, ScanKeys(r, q) PROVE <1>4
    <3>1. \/ answers(r, 400) \/ answers(r, 503)
          \/ /\ answers(r, 200)
             /\ answer' = [answer EXCEPT ![r] = [i \in DOMAIN saw'[r] |-> encodePair(saw'[r][i])]]
      BY <2>3, ScanEither
    <3>2. \A c : answers(r, c) => doing'[r] = "answered" /\ status'[r] = c
      BY <1>1, Parts DEF answers
    <3>3. CASE answers(r, 400) \/ answers(r, 503)
      BY <3>2, <3>3
    <3>4. CASE /\ answers(r, 200)
               /\ answer' = [answer EXCEPT ![r] = [i \in DOMAIN saw'[r] |-> encodePair(saw'[r][i])]]
      BY <1>1, <3>2, <3>4, Parts
    <3> QED
      BY <3>1, <3>3, <3>4
  <2> QED
    BY <2>1, <2>2, <2>3
<1>7. ReadInv(r)'
  BY <1>1, <1>2, <1>3, <1>4 DEF ReadInv
<1>8. AnswerInv(r)'
  BY <1>2, <1>3, <1>4 DEF AnswerInv, Blames
<1>9. CopyInv(r)'
  BY <1>2, <1>3 DEF CopyInv
<1> QED
  BY <1>7, <1>8, <1>9

(***************************************************************************)
(* The invariant, and what follows from it.                                *)
(***************************************************************************)

\* The invariant holds to begin with ...
LEMMA BeginsRight ==
    ASSUME Init
    PROVE  RecordsInv
<1>1. <<>> \in Seq(Line) /\ <<>> \in Seq(Operation) /\ <<>> \in Seq(Pair) /\ <<>> \in Seq(Json)
  BY EmptySeq
<1>2. guarded \in BOOLEAN /\ unread \in Fed /\ InPlace(unread, <<>>, guarded)
  BY <1>1, Unread DEF Init
<1>3. StoreTypes
  BY RecordsAssumption DEF Init, StoreTypes, DataTyped
<1>4. RequestTypes
  <2>1. /\ doing \in [Request -> {"new", "body", "parsed", "answered"}]
        /\ copies \in [Request -> Request \cup {None}]
    BY DEF Init
  <2>2. status \in [Request -> {0, 200, 204, 400, 409, 413, 500, 503}]
    BY DEF Init
  <2>3. /\ body \in [Request -> Seq(Line)] /\ ops \in [Request -> Seq(Operation)]
        /\ saw \in [Request -> Seq(Pair)] /\ answer \in [Request -> Seq(Json)]
    BY <1>1 DEF Init
  <2>4. fed \in [Request -> Fed]
    BY <1>2 DEF Init
  <2> QED
    BY <2>1, <2>2, <2>3, <2>4 DEF RequestTypes
<1>5. ASSUME NEW r \in Request PROVE ReadInv(r) /\ AnswerInv(r) /\ CopyInv(r)
  <2>1. /\ doing[r] = "new" /\ status[r] = 0 /\ body[r] = <<>> /\ copies[r] = None
        /\ ops[r] = <<>> /\ fed[r] = unread
    BY <1>5 DEF Init
  <2>2. ReadInv(r)
    BY <1>2, <2>1 DEF ReadInv
  <2>3. AnswerInv(r)
    BY <2>1 DEF AnswerInv, Blames
  <2>4. CopyInv(r)
    BY <2>1 DEF CopyInv
  <2> QED
    BY <2>2, <2>3, <2>4
<1> QED
  BY <1>3, <1>4, <1>5 DEF RecordsInv, TypeInv

\* What happens under the requests is no business of theirs.
LEMMA RequestsStand ==
    ASSUME RecordsInv, UNCHANGED requests, guarded' = guarded, StoreTypes'
    PROVE  RecordsInv'
<1>1. /\ doing' = doing /\ status' = status /\ body' = body /\ copies' = copies
      /\ fed' = fed /\ ops' = ops /\ saw' = saw /\ answer' = answer
  BY DEF requests
<1>2. RequestTypes'
  BY <1>1 DEF RecordsInv, TypeInv, RequestTypes
<1>3. ASSUME NEW r \in Request PROVE ReadInv(r)' /\ AnswerInv(r)' /\ CopyInv(r)'
  <2>1. ReadInv(r) /\ AnswerInv(r) /\ CopyInv(r)
    BY DEF RecordsInv
  <2>2. ReadInv(r)'
    BY <1>1, <2>1 DEF ReadInv
  <2>3. AnswerInv(r)'
    BY <1>1, <2>1 DEF AnswerInv
  <2>4. CopyInv(r)'
    BY <1>1, <2>1 DEF CopyInv, copied
  <2> QED
    BY <2>2, <2>3, <2>4
<1> QED
  BY <1>2, <1>3 DEF RecordsInv, TypeInv

\* ... and every step keeps it ...
LEMMA StaysRight ==
    ASSUME RecordsInv, [Next]_vars
    PROVE  RecordsInv'
<1>1. StoreTypes
  BY DEF RecordsInv, TypeInv
<1>2. CASE UNCHANGED vars
  <2>1. UNCHANGED requests /\ guarded' = guarded /\ StoreTypes'
    BY <1>1, <1>2 DEF vars, store, StoreTypes, DataTyped
  <2> QED
    BY <2>1, RequestsStand
<1>3. CASE Ends
  <2>1. UNCHANGED requests /\ guarded' = guarded /\ StoreTypes'
    BY <1>1, <1>3 DEF Ends, StoreTypes, DataTyped
  <2> QED
    BY <2>1, RequestsStand
<1>4. ASSUME NEW k \in Bytes, Expire(k) PROVE RecordsInv'
  <2>1. UNCHANGED requests /\ guarded' = guarded /\ healthy' = healthy
    BY <1>4 DEF Expire
  <2>2. data' = [data EXCEPT ![k] = None]
    BY <1>4 DEF Expire
  <2>3. StoreTypes'
    BY <1>1, <2>1, <2>2 DEF StoreTypes, DataTyped
  <2> QED
    BY <2>1, <2>3, RequestsStand
<1>5. ASSUME NEW r \in Request, Handle(r) PROVE RecordsInv'
  <2>1. TypeInv'
    BY <1>5, HandlesTypes DEF RecordsInv
  <2>2. ReadInv(r)' /\ AnswerInv(r)' /\ CopyInv(r)'
    BY <1>5, BeginsABody, ReadsAndGrows, TakesALine, RefusesALine, EndsABody, StoresABatch,
       HasNoBody DEF Handle
  <2>3. \A q \in Request : q # r => ReadInv(q)' /\ AnswerInv(q)' /\ CopyInv(q)'
    BY <1>5, OthersStand
  <2> QED
    BY <2>1, <2>2, <2>3 DEF RecordsInv
<1> QED
  BY <1>2, <1>3, <1>4, <1>5 DEF Next

\* ... so it always holds.
LEMMA AlwaysRight == Spec => []RecordsInv
<1>1. Init => RecordsInv
  BY BeginsRight
<1>2. RecordsInv /\ [Next]_vars => RecordsInv'
  BY StaysRight
<1> QED
  BY <1>1, <1>2, PTL DEF Spec

\* Every variable holds what its Go type lets it hold, and no Scanner's buffer
\* grows past the limit on its body (batch.go 106).
THEOREM Typed == Spec => []TypeOK
<1>1. ASSUME RecordsInv PROVE TypeOK
  <2>1. \A k \in Bytes : data[k] = None \/ data[k].value \in Bytes
    <3> SUFFICES ASSUME NEW k \in Bytes, data[k] # None PROVE data[k].value \in Bytes
      OBVIOUS
    <3>1. data[k] \in Record
      BY <1>1 DEF RecordsInv, TypeInv, StoreTypes, DataTyped
    <3> QED
      BY <3>1 DEF Record
  <2>2. healthy \in {"open", "closed", "fenced"} /\ guarded \in BOOLEAN
    BY <1>1 DEF RecordsInv, TypeInv, StoreTypes
  <2>3. doing \in [Request -> {"new", "body", "parsed", "answered"}]
    BY <1>1 DEF RecordsInv, TypeInv, RequestTypes
  <2>4. status \in [Request -> {0, 200, 204, 400, 409, 413, 500, 503}]
    BY <1>1 DEF RecordsInv, TypeInv, RequestTypes
  <2>5. ASSUME NEW r \in Request
        PROVE  /\ fed[r].used <= fed[r].got
               /\ fed[r].cap \in 1..MaxBatch /\ pending(r) <= fed[r].cap
    <3>1. fed[r] \in Fed
      BY <1>1, Parts DEF RecordsInv
    <3>2. InPlace(fed[r], body[r], guarded)
      BY <1>1 DEF RecordsInv, ReadInv
    <3> QED
      BY <3>1, <3>2 DEF Fed, InPlace, pending
  <2> QED
    BY <2>1, <2>2, <2>3, <2>4, <2>5 DEF TypeOK
<1> QED
  BY <1>1, AlwaysRight, PTL

\* A client is told what was wrong with its batch: a line that is blamed is
\* wrong and was sent within the limit, a limit that is blamed was reached, and
\* what was stored was within it (batch.go 113).
THEOREM BlamesRightly == Spec => []BlamesTheRightThing
<1>1. ASSUME RecordsInv PROVE BlamesTheRightThing
  <2> SUFFICES ASSUME NEW r \in Request, body[r] # <<>>
               PROVE  LET b == body[r] IN
                      /\ status[r] = 400 =>
                            \E i \in DOMAIN b :
                               /\ b[i].what # None /\ operation(b[i].what) = Malformed
                               /\ guarded => upTo(b, i - 1) < MaxBatch
                      /\ status[r] = 413 =>
                            total(b) > MaxBatch \/ \E i \in DOMAIN b : b[i].size >= MaxBatch
                      /\ status[r] = 204 => \A i \in DOMAIN b : object(b[i]) <= MaxBatch
    BY DEF BlamesTheRightThing
  <2> DEFINE b == body[r]
  <2>1. b \in Seq(Line) /\ DOMAIN b = 1..Len(b)
    BY <1>1, Parts DEF RecordsInv
  <2>2. ReadInv(r) /\ Blames(status[r], b, guarded)
    BY <1>1 DEF RecordsInv, AnswerInv
  <2>3. status[r] = 204 => \A i \in 1..Len(b) : object(b[i]) <= MaxBatch
    <3> SUFFICES ASSUME status[r] = 204, NEW i \in 1..Len(b) PROVE object(b[i]) <= MaxBatch
      OBVIOUS
    <3>1. Fit(b, Len(b))
      BY <2>2 DEF ReadInv, Whole
    <3>2. b[i] \in Line /\ b[i].size <= MaxBatch
      BY <2>1, <3>1 DEF Fit
    <3> QED
      BY <3>2, LineParts, RecordsAssumption DEF object
  <2> QED
    BY <2>1, <2>2, <2>3 DEF Blames
<1> QED
  BY <1>1, AlwaysRight, PTL

\* A range that is read and posted back as a batch writes the keys and values
\* the store had, be they text or not (ndjson.go 23).
THEOREM ComesBack == Spec => []RoundTrip
<1>1. ASSUME RecordsInv PROVE RoundTrip
  <2> SUFFICES ASSUME NEW r \in Request, copies[r] # None, status[r] = 204
               PROVE  LET was == saw[copies[r]]
                      IN  ops[r] = [i \in DOMAIN was |->
                              [op |-> "write", key |-> was[i].key, value |-> was[i].value,
                               expires |-> FALSE]]
    BY DEF RoundTrip
  <2> DEFINE s == copies[r]
             was == saw[s]
             b == body[r]
  <2>1. s \in Request /\ status[s] = 200 /\ b = copied(s)
    BY <1>1, Parts DEF RecordsInv, CopyInv
  <2>2. was \in Seq(Pair) /\ b \in Seq(Line)
    BY <1>1, <2>1, Parts DEF RecordsInv
  <2>3. answer[s] = [i \in DOMAIN was |-> encodePair(was[i])]
    BY <1>1, <2>1 DEF RecordsInv, AnswerInv
  <2>4. Len(answer[s]) = Len(was) /\ \A i \in 1..Len(was) : answer[s][i] = encodePair(was[i])
    <3>1. answer[s] \in Seq(Json) /\ DOMAIN answer[s] = 1..Len(was) /\ Len(was) \in Nat
      BY <1>1, <2>1, <2>2, <2>3, Parts DEF RecordsInv
    <3>2. Len(answer[s]) = Len(was)
      BY <3>1
    <3>3. \A i \in DOMAIN was : answer[s][i] = encodePair(was[i])
      BY <2>3
    <3> QED
      BY <2>2, <3>2, <3>3
  <2>5. /\ Len(b) = Len(was)
        /\ \A i \in 1..Len(was) : b[i].what = [encodePair(was[i]) EXCEPT !.op = "write"]
    <3>1. /\ Len(b) = Len(answer[s])
          /\ \A i \in 1..Len(answer[s]) : b[i].what = [answer[s][i] EXCEPT !.op = "write"]
      BY <1>1, <2>1, CopiedLines DEF RecordsInv
    <3> QED
      BY <2>4, <3>1
  <2>6. \A i \in 1..Len(was) :
           /\ b[i].what # None
           /\ operation(b[i].what) = [op |-> "write", key |-> was[i].key,
                                      value |-> was[i].value, expires |-> FALSE]
    <3> SUFFICES ASSUME NEW i \in 1..Len(was)
                 PROVE  /\ b[i].what # None
                        /\ operation(b[i].what) = [op |-> "write", key |-> was[i].key,
                                                   value |-> was[i].value, expires |-> FALSE]
      OBVIOUS
    <3>1. was[i] \in Pair
      BY <2>2
    <3>2. b[i].what \in Json
          /\ operation(b[i].what) = [op |-> "write", key |-> was[i].key,
                                     value |-> was[i].value, expires |-> FALSE]
      <4> DEFINE p == was[i]
      <4>1. p \in Pair /\ b[i].what = [encodePair(p) EXCEPT !.op = "write"]
        BY <2>5, <3>1
      <4> HIDE DEF p
      <4>2. /\ b[i].what \in Json
            /\ operation(b[i].what) = [op |-> "write", key |-> p.key, value |-> p.value,
                                       expires |-> FALSE]
        BY <4>1, OneComesBack
      <4> QED
        BY <4>2 DEF p
    <3> QED
      BY <3>2, RecordsAssumption
  <2>7. ops[r] = meant(b)
    <3>1. ReadInv(r)
      BY <1>1 DEF RecordsInv
    <3>2. Whole(ops[r], b)
      BY <3>1 DEF ReadInv
    <3> QED
      BY <3>2 DEF Whole, Says, meant
  <2> HIDE DEF s, was, b
  <2>8. meant(b) = [i \in DOMAIN was |-> [op |-> "write", key |-> was[i].key,
                                          value |-> was[i].value, expires |-> FALSE]]
    BY <2>2, <2>5, <2>6, AllComeBack
  <2> QED
    BY <2>7, <2>8 DEF was, s
<1> QED
  BY <1>1, AlwaysRight, PTL

\* A batch is stored all of it or none of it: a body whose client is told 204 by
\* a step was well formed throughout, and that step did to the store what all of
\* its lines mean, in their order; no other step of a handler touches the store
\* (batch.go 17).
THEOREM WholeOrNot == Spec => AllOrNothing
<1>1. ASSUME RecordsInv, Next
      PROVE  \A r \in Request :
                /\ status'[r] = 204 /\ status[r] # 204 /\ body[r] # <<>>
                      => wellFormed(body[r]) /\ data' = Effect(meant(body[r]))
                /\ status'[r] # 204 /\ doing'[r] # doing[r] => data' = data
  <2> SUFFICES ASSUME NEW r \in Request
               PROVE  /\ status'[r] = 204 /\ status[r] # 204 /\ body[r] # <<>>
                            => wellFormed(body[r]) /\ data' = Effect(meant(body[r]))
                      /\ status'[r] # 204 /\ doing'[r] # doing[r] => data' = data
    OBVIOUS
  <2>1. ReadInv(r) /\ AnswerInv(r) /\ TypeInv
    BY <1>1 DEF RecordsInv
  <2>2. CASE Ends \/ \E k \in Bytes : Expire(k)
    BY <2>2 DEF Ends, Expire, requests
  <2>3. ASSUME NEW q \in Request, Handle(q), q # r
        PROVE  status'[r] = status[r] /\ doing'[r] = doing[r]
    BY <2>1, <2>3, NobodyElse DEF Mine
  <2>4. CASE Store(r)
    <3>1. doing[r] = "parsed"
      BY <2>4 DEF Store
    <3>2. \/ data' = Effect(ops[r]) /\ answers(r, 204)
          \/ data' = data /\ healthy # "open" /\ answers(r, statusOf(healthy))
      BY <2>4 DEF Store
    <3>3. statusOf(healthy) # 204
      BY DEF statusOf
    <3>4. \A c : answers(r, c) => status'[r] = c
      BY <2>1, Parts DEF answers
    <3>5. body[r] # <<>> => Whole(ops[r], body[r])
      BY <2>1, <3>1 DEF ReadInv
    <3>6. ASSUME Whole(ops[r], body[r]) PROVE wellFormed(body[r]) /\ ops[r] = meant(body[r])
      <4>1. DOMAIN body[r] = 1..Len(body[r])
        BY <2>1, Parts
      <4> QED
        BY <3>6, <4>1 DEF Whole, Says, wellFormed, meant
    <3> QED
      BY <3>2, <3>3, <3>4, <3>5, <3>6
  <2>5. CASE Handle(r) /\ ~Store(r)
    <3>1. data' = data
      BY <2>5 DEF Handle, PostBatch, ReadBody, Grow, AddLine, RefuseLine, Parsed, Put, Delete,
                  ScanKeys, store
    <3>2. status'[r] = 204 => status[r] = 204
      <4>1. \A c : answers(r, c) => status'[r] = c
        BY <2>1, Parts DEF answers
      <4>2. fed[r].err \in {"none", "EOF", "tooLarge", "tooLong", "gone"}
        BY <2>1, Parts DEF Fed
      <4>3. \A e : statusOf(e) # 204
        BY DEF statusOf
      <4>4. status' = status \/ \E c : c # 204 /\ answers(r, c)
        <5>1. CASE PostBatch(r)
          BY <5>1 DEF PostBatch
        <5>2. CASE RefuseLine(r)
          BY <4>3, <5>2 DEF RefuseLine
        <5>3. CASE Parsed(r)
          BY <4>3, <5>3 DEF Parsed
        <5>4. CASE Put(r)
          BY <5>4, PutEither
        <5>5. CASE \E q \in Queries : ScanKeys(r, q)
          BY <5>5, ScanEither
        <5>6. CASE ReadBody(r) \/ Grow(r) \/ AddLine(r) \/ Delete(r)
          BY <5>6 DEF ReadBody, Grow, AddLine, Delete
        <5> QED
          BY <2>5, <5>1, <5>2, <5>3, <5>4, <5>5, <5>6 DEF Handle
      <4> QED
        BY <4>1, <4>4
    <3> QED
      BY <3>1, <3>2
  <2>6. Handle(r) \/ (\E q \in Request : q # r /\ Handle(q)) \/ Ends \/ \E k \in Bytes : Expire(k)
    BY <1>1 DEF Next
  <2> QED
    BY <2>2, <2>3, <2>4, <2>5, <2>6
<1>2. RecordsInv /\ [Next]_vars =>
         [\A r \in Request :
            /\ status'[r] = 204 /\ status[r] # 204 /\ body[r] # <<>>
                  => wellFormed(body[r]) /\ data' = Effect(meant(body[r]))
            /\ status'[r] # 204 /\ doing'[r] # doing[r] => data' = data]_vars
  BY <1>1
<1> QED
  BY <1>2, AlwaysRight, PTL DEF Spec, AllOrNothing
=============================================================================
