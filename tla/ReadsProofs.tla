---------------------------- MODULE ReadsProofs ----------------------------
(***************************************************************************)
(* Reads by position, for any number of nodes, writes and reads: what lets *)
(* a position handed out by one node be asked for at another.              *)
(***************************************************************************)
EXTENDS Reads, SequenceLemmas

(***************************************************************************)
(* The inductive invariant.                                                *)
(***************************************************************************)

\* A store whose position means something.
whole(n) == ~resetting[n]

\* One node leads a term, and a node that is being reset follows one that is
\* not behind it.
OneLeader ==
    /\ \A a, b \in Node :
          leader[a] = None /\ leader[b] = None /\ term[a] = term[b] => a = b
    /\ \A n \in Node :
          resetting[n] => leader[n] # None /\ term[n] <= term[leader[n]]

\* Of two stores on one term, one is where the other begins; the leader's, if
\* it is there, is the longer.
Histories ==
    /\ \A m, n \in Node :
          term[m] = term[n] /\ whole(m) /\ whole(n)
             => Within(held[m], held[n]) \/ Within(held[n], held[m])
    /\ \A m, n \in Node :
          term[m] = term[n] /\ whole(m) /\ leader[n] = None => Within(held[m], held[n])

\* A write is where it was stored in every store on its term that is as long.
HeldAt(w, n) ==
    term[n] = stored[w].term /\ whole(n) =>
        /\ Len(held[n]) >= stored[w].seq => held[n][stored[w].seq] = w
        /\ leader[n] = None => Len(held[n]) >= stored[w].seq

There(w) ==
    /\ stored[w] \in Position /\ stored[w].seq >= 1 /\ at[w] \in Node
    /\ stored[w].term <= term[at[w]]
    /\ writing[w] = "answered" => cookie[w] \in Position
    /\ \A n \in Node : HeldAt(w, n)

StoredThere == \A w \in Write : writing[w] # "new" => There(w)

\* A read carries the cookie of a write that was answered.
Carried ==
    \A r \in Read : reading[r] # "new" =>
        from[r] \in Node /\ after[r] \in Write /\ writing[after[r]] = "answered"

ReadsInv == TypeOK /\ OneLeader /\ Histories /\ StoredThere /\ Carried

\* Steps of reads, and of writes that are stored already, leave the stores alone.
LEMMA OtherSteps ==
    ASSUME NEW r \in Read, ReadStep(r) PROVE UNCHANGED <<store, writes>>
BY DEF ReadStep, Handle, Arrive, Check, AwaitEnds, Answer, Fire, Done

(***************************************************************************)
(* It holds to begin with.                                                 *)
(***************************************************************************)

\* Every store is empty, one node leads, and nothing has been asked.
LEMMA ReadsInit == Init => ReadsInv
<1> SUFFICES ASSUME Init PROVE ReadsInv
  OBVIOUS
<1> USE ReadsAssumption
<1>1. TypeOK
  BY DEF Init, TypeOK, Position
<1>2. OneLeader /\ StoredThere /\ Carried
  BY DEF Init, OneLeader, StoredThere, Carried
<1>3. \A m, n \in Node : Within(held[m], held[n])
  BY DEF Init, Within
<1>4. Histories
  BY <1>3 DEF Histories
<1> QED
  BY <1>1, <1>2, <1>4 DEF ReadsInv

(***************************************************************************)
(* Every step keeps it.                                                    *)
(***************************************************************************)

\* The types.
LEMMA TypeStep == ReadsInv /\ [Next]_vars => TypeOK'
<1> SUFFICES ASSUME ReadsInv, [Next]_vars PROVE TypeOK'
  OBVIOUS
<1> TypeOK
  BY DEF ReadsInv
<1> USE ReadsAssumption DEF TypeOK, store, writes, reads
<1>1. ASSUME NEW n \in Node, NodeStep(n) PROVE TypeOK'
  <2>1. CASE Replicate(n)
    <3>1. leader[n] \in Node
      BY <2>1 DEF Replicate
    <3>2. held[leader[n]][Len(held[n]) + 1] \in Write
      BY <2>1, <3>1, PrefixIsWithin DEF Replicate, IsStrictPrefix, IsPrefix
    <3>3. Append(held[n], held[leader[n]][Len(held[n]) + 1]) \in Seq(Write)
      BY <3>2
    <3> QED
      BY <2>1, <3>1, <3>3 DEF Replicate
  <2>2. CASE StartSnapshot(n)
    BY <2>2 DEF StartSnapshot
  <2>3. CASE EndSnapshot(n)
    BY <2>3 DEF EndSnapshot
  <2>4. CASE Promote(n)
    BY <2>4 DEF Promote
  <2>5. CASE CloseStore(n)
    BY <2>5 DEF CloseStore
  <2>6. CASE \E l \in Node : Enlist(n, l)
    BY <2>6 DEF Enlist
  <2> QED
    BY <1>1, <2>1, <2>2, <2>3, <2>4, <2>5, <2>6 DEF NodeStep
<1>2. ASSUME NEW w \in Write, WriteStep(w) PROVE TypeOK'
  <2>1. ASSUME NEW n \in Node, Store(w, n) PROVE TypeOK'
    <3>1. /\ term[n] \in 1..MaxTerm /\ Len(held[n]) + 1 \in Nat
          /\ Append(held[n], w) \in Seq(Write)
      OBVIOUS
    <3>2. [position(n) EXCEPT !.seq = @ + 1]
            = [term |-> term[n], seq |-> Len(held[n]) + 1]
      BY DEF position
    <3>3. [position(n) EXCEPT !.seq = @ + 1] \in Position
      BY <3>1, <3>2 DEF Position
    <3> QED
      BY <2>1, <3>1, <3>3 DEF Store
  <2>2. CASE AskPosition(w)
    <3>1. at[w] \in Node
      BY <2>2 DEF ReadsInv, StoredThere, There, AskPosition
    <3>2. position(at[w]) \in Position
      BY <3>1 DEF position, Position
    <3> QED
      BY <2>2, <3>2 DEF AskPosition
  <2> QED
    BY <1>2, <2>1, <2>2 DEF WriteStep
<1>3. ASSUME NEW r \in Read, ReadStep(r) PROVE TypeOK'
  <2> DEFINE said == Reached(from[r], cookie[after[r]])
  <2>1. said \in {"closed", "stale", "superseded", "reached"}
    BY DEF Reached
  <2>2. said # "reached" => refusal(r, said) \in {"409", "412", "503", "504"}
    BY <2>1 DEF refusal
  <2>3. CASE Check(r) \/ AwaitEnds(r)
    <3> DEFINE outcome == IF said = "reached" THEN "read" ELSE refusal(r, said)
    <3>1. outcome \in {"read", "409", "412", "503", "504"}
      BY <2>2
    <3>2. /\ reading' = [reading EXCEPT ![r] = outcome]
          /\ UNCHANGED <<store, writes, from, after, timer>>
      BY <2>3 DEF Check, AwaitEnds
    <3> HIDE DEF outcome
    <3> QED
      BY <3>1, <3>2
  <2>4. CASE Answer(r)
    BY <2>4 DEF Answer
  <2>5. CASE Fire(r) \/ Done(r)
    BY <2>5 DEF Fire, Done
  <2>6. ASSUME NEW n \in Node, NEW w \in Write, Arrive(r, n, w) PROVE TypeOK'
    BY <2>6 DEF Arrive
  <2> QED
    BY <1>3, <2>3, <2>4, <2>5, <2>6 DEF ReadStep, Handle
<1>4. CASE UNCHANGED vars
  BY <1>4 DEF vars
<1> QED
  BY <1>1, <1>2, <1>3, <1>4 DEF Next

\* Terms only grow, and whoever starts to lead leads a term of its own.
LEMMA LeaderStep == ReadsInv /\ [Next]_vars => OneLeader'
<1> SUFFICES ASSUME ReadsInv, [Next]_vars PROVE OneLeader'
  OBVIOUS
<1> TypeOK /\ OneLeader
  BY DEF ReadsInv
<1> USE ReadsAssumption DEF TypeOK, OneLeader, store
<1>1. ASSUME NEW n \in Node, NodeStep(n) PROVE OneLeader'
  <2>1. CASE Replicate(n)
    BY <2>1 DEF Replicate
  <2>2. CASE StartSnapshot(n)
    BY <2>2 DEF StartSnapshot
  <2>3. CASE EndSnapshot(n)
    BY <2>3 DEF EndSnapshot
  <2>4. CASE Promote(n)
    BY <2>4 DEF Promote
  <2>5. CASE CloseStore(n)
    BY <2>5 DEF CloseStore
  <2>6. CASE \E l \in Node : Enlist(n, l)
    BY <2>6 DEF Enlist
  <2> QED
    BY <1>1, <2>1, <2>2, <2>3, <2>4, <2>5, <2>6 DEF NodeStep
<1>2. ASSUME NEW w \in Write, WriteStep(w) PROVE OneLeader'
  BY <1>2 DEF WriteStep, Store, AskPosition
<1>3. ASSUME NEW r \in Read, ReadStep(r) PROVE OneLeader'
  BY <1>3, OtherSteps
<1>4. CASE UNCHANGED vars
  BY <1>4 DEF vars
<1> QED
  BY <1>1, <1>2, <1>3, <1>4 DEF Next

\* A record more of a history that goes on is still a beginning of it.
LEMMA OneMore ==
    ASSUME NEW s \in Seq(Write), NEW t \in Seq(Write), IsStrictPrefix(s, t)
    PROVE  /\ Append(s, t[Len(s) + 1]) \in Seq(Write)
           /\ Within(Append(s, t[Len(s) + 1]), t)
<1>1. Within(s, t) /\ s # t
  BY PrefixIsWithin DEF IsStrictPrefix
<1>2. Len(s) = Len(t) /\ Within(s, t) => s = t
  BY DEF Within
<1>3. Len(s) + 1 <= Len(t)
  BY <1>1, <1>2 DEF Within
<1>4. t[Len(s) + 1] \in Write
  BY <1>3
<1> QED
  BY <1>1, <1>3, <1>4 DEF Within

\* A write more at the end of a history leaves what was there.
LEMMA OneStored ==
    ASSUME NEW s \in Seq(Write), NEW w \in Write
    PROVE  /\ Append(s, w) \in Seq(Write) /\ Within(s, Append(s, w))
           /\ Len(Append(s, w)) = Len(s) + 1 /\ Append(s, w)[Len(s) + 1] = w
BY DEF Within

\* What a follower has after a step is a beginning of what its leader has.
Follows(n, l) ==
    /\ l \in Node /\ leader[n] = l /\ whole(l) /\ l # n /\ term[n] <= term[l]
    /\ held'[n] \in Seq(Write) /\ Within(held'[n], held[l])
    /\ term' = [term EXCEPT ![n] = term[l]]
    /\ held' = [held EXCEPT ![n] = held'[n]]
    /\ leader' = leader /\ resetting' = [resetting EXCEPT ![n] = FALSE]

\* Whether it came as a record or as a snapshot.
LEMMA Received ==
    ASSUME ReadsInv, NEW n \in Node, Replicate(n) \/ EndSnapshot(n)
    PROVE  Follows(n, leader[n]) /\ UNCHANGED writes
<1> USE ReadsAssumption DEF ReadsInv, TypeOK
<1> DEFINE l == leader[n]
<1>1. l \in Node /\ whole(l)
  BY DEF Replicate, EndSnapshot, whole
<1>2. CASE Replicate(n)
  <2>1. held'[n] \in Seq(Write) /\ Within(held'[n], held[l])
    BY <1>1, <1>2, OneMore DEF Replicate
  <2> QED
    BY <1>1, <1>2, <2>1 DEF Replicate, Follows, IsStrictPrefix
<1>3. CASE EndSnapshot(n)
  <2>1. held'[n] \in Seq(Write) /\ Within(held'[n], held[l])
    BY <1>1, <1>3, WithinOrder DEF EndSnapshot
  <2> QED
    BY <1>1, <1>3, <2>1 DEF EndSnapshot, Follows, OneLeader
<1> QED
  BY <1>2, <1>3

\* What the stores of one term have stays comparable.
LEMMA HistoriesStep == ReadsInv /\ [Next]_vars => Histories'
<1> SUFFICES ASSUME ReadsInv, [Next]_vars PROVE Histories'
  OBVIOUS
<1> TypeOK /\ OneLeader /\ Histories
  BY DEF ReadsInv
<1> USE ReadsAssumption DEF TypeOK, whole
<1>1. ASSUME NEW n \in Node, NodeStep(n) PROVE Histories'
  <2>1. CASE Replicate(n) \/ EndSnapshot(n)
    <3> DEFINE l == leader[n]
    <3>1. Follows(n, l)
      BY <2>1, Received
    <3>2. \A m \in Node \ {n} : held'[m] = held[m] /\ term'[m] = term[m]
                                /\ resetting'[m] = resetting[m]
      BY <3>1 DEF Follows
    <3>3. l \in Node /\ leader' = leader /\ term'[n] = term[l] /\ whole(l)
          /\ held'[n] \in Seq(Write) /\ Within(held'[n], held[l])
      BY <3>1 DEF Follows
    <3>4. ASSUME NEW m \in Node \ {n}, term'[m] = term'[n], whole(m)'
          PROVE  /\ Within(held'[m], held'[n]) \/ Within(held'[n], held'[m])
                 /\ leader[m] = None => Within(held'[n], held'[m])
      <4>1. /\ Within(held[m], held[l]) \/ Within(held[l], held[m])
            /\ leader[m] = None => Within(held[l], held[m])
        BY <3>2, <3>3, <3>4 DEF Histories
      <4> QED
        BY <3>2, <3>3, <4>1, WithinOrder
    <3>5. Within(held'[n], held'[n])
      BY <3>3, WithinOrder
    <3>6. \A m, k \in Node \ {n} : term'[m] = term'[k] /\ whole(m)' =>
             /\ whole(k)' => Within(held'[m], held'[k]) \/ Within(held'[k], held'[m])
             /\ leader[k] = None => Within(held'[m], held'[k])
      BY <3>2 DEF Histories
    <3>7. leader'[n] # None /\ \A k \in Node \ {n} : leader'[k] = None => whole(k)'
      BY <3>2, <3>3 DEF OneLeader
    <3> DEFINE H(m, k) ==
                 term'[m] = term'[k] /\ whole(m)' =>
                    /\ whole(k)' => Within(held'[m], held'[k]) \/ Within(held'[k], held'[m])
                    /\ leader'[k] = None => Within(held'[m], held'[k])
    <3>8. \A k \in Node : H(n, k)
      BY <3>3, <3>4, <3>5, <3>7
    <3>9. \A m \in Node \ {n} : H(m, n)
      BY <3>4, <3>7
    <3>10. \A m, k \in Node \ {n} : H(m, k)
      BY <3>3, <3>6
    <3>11. \A m, k \in Node : H(m, k)
      BY <3>8, <3>9, <3>10
    <3> QED
      BY <3>11 DEF Histories
  <2>2. CASE StartSnapshot(n)
    BY <2>2 DEF StartSnapshot, Histories
  <2>3. CASE Promote(n)
    <3>1. PICK t \in 1..MaxTerm : /\ \A m \in Node : term[m] < t
                                  /\ term' = [term EXCEPT ![n] = t]
      BY <2>3 DEF Promote
    <3>2. Within(held[n], held[n])
      BY WithinOrder
    <3>3. /\ UNCHANGED <<held, resetting>> /\ term'[n] = t
          /\ \A m \in Node \ {n} : /\ term'[m] = term[m] /\ leader'[m] = leader[m]
                                  /\ term'[m] # t
      BY <2>3, <3>1 DEF Promote
    <3> QED
      BY <3>2, <3>3 DEF Histories
  <2>4. CASE CloseStore(n)
    BY <2>4 DEF CloseStore, Histories
  <2>5. CASE \E l \in Node : Enlist(n, l)
    BY <2>5 DEF Enlist, Histories
  <2> QED
    BY <1>1, <2>1, <2>2, <2>3, <2>4, <2>5 DEF NodeStep
<1>2. ASSUME NEW w \in Write, WriteStep(w) PROVE Histories'
  <2>1. ASSUME NEW n \in Node, Store(w, n) PROVE Histories'
    <3>1. leader[n] = None /\ whole(n) /\ UNCHANGED <<term, resetting, leader>>
          /\ held' = [held EXCEPT ![n] = Append(held[n], w)]
      BY <2>1 DEF Store
    <3>2. /\ \A m \in Node \ {n} : held'[m] = held[m]
          /\ Within(held[n], held'[n]) /\ held'[n] \in Seq(Write)
      BY <3>1, OneStored
    <3>3. \A m \in Node \ {n} :
             term[m] = term[n] /\ whole(m) => Within(held[m], held'[n])
      BY <3>1, <3>2, WithinOrder DEF Histories
    <3>4. \A m \in Node \ {n} : leader[m] = None => term[m] # term[n]
      BY <3>1 DEF OneLeader
    <3>5. Within(held'[n], held'[n])
      BY <3>2, WithinOrder
    <3> QED
      BY <3>1, <3>2, <3>3, <3>4, <3>5 DEF Histories
  <2>2. CASE AskPosition(w)
    BY <2>2 DEF AskPosition, Histories, store
  <2> QED
    BY <1>2, <2>1, <2>2 DEF WriteStep
<1>3. ASSUME NEW r \in Read, ReadStep(r) PROVE Histories'
  BY <1>3, OtherSteps DEF Histories, store
<1>4. CASE UNCHANGED vars
  BY <1>4 DEF vars, store, Histories
<1> QED
  BY <1>1, <1>2, <1>3, <1>4 DEF Next

\* No step of a node takes it back to an earlier term.
LEMMA TermsGrow ==
    ASSUME ReadsInv, NEW n \in Node, NodeStep(n)
    PROVE  /\ UNCHANGED writes
           /\ \A m \in Node : term'[m] \in Int /\ term[m] <= term'[m]
<1> USE ReadsAssumption DEF ReadsInv, TypeOK
<1>1. CASE Replicate(n) \/ EndSnapshot(n)
  <2>1. Follows(n, leader[n]) /\ UNCHANGED writes
    BY <1>1, Received
  <2> QED
    BY <2>1 DEF Follows
<1>2. CASE StartSnapshot(n)
  BY <1>2 DEF StartSnapshot
<1>3. CASE Promote(n)
  BY <1>3 DEF Promote
<1>4. CASE CloseStore(n)
  BY <1>4 DEF CloseStore
<1>5. CASE \E l \in Node : Enlist(n, l)
  BY <1>5 DEF Enlist
<1> QED
  BY <1>1, <1>2, <1>3, <1>4, <1>5 DEF NodeStep

\* A write stays where it was stored, in every store on its term, whatever the
\* nodes do.
LEMMA NodesKeep ==
    ASSUME ReadsInv, NEW n \in Node, NodeStep(n), NEW w \in Write, There(w)
    PROVE  \A m \in Node : HeldAt(w, m)'
<1> SUFFICES ASSUME NEW m \in Node PROVE HeldAt(w, m)'
  OBVIOUS
<1> TypeOK
  BY DEF ReadsInv
<1> USE ReadsAssumption DEF TypeOK, whole
<1>1. stored' = stored
  BY TermsGrow DEF writes
<1>2. HeldAt(w, m) /\ stored[w] \in Position /\ stored[w].seq >= 1
      /\ at[w] \in Node /\ stored[w].term <= term[at[w]]
  BY DEF There
<1>3. CASE Replicate(n) \/ EndSnapshot(n)
  <2>1. Follows(n, leader[n])
    BY <1>3, Received
  <2>2. CASE m # n
    BY <1>1, <1>2, <2>1, <2>2 DEF Follows, HeldAt
  <2>3. CASE m = n
    <3>1. HeldAt(w, leader[n])
      BY <2>1 DEF There, Follows
    <3>2. /\ leader'[n] # None /\ whole(leader[n]) /\ term'[n] = term[leader[n]]
          /\ Within(held'[n], held[leader[n]]) /\ held'[n] \in Seq(Write)
      BY <2>1 DEF Follows
    <3>3. ASSUME term[leader[n]] = stored[w].term, Len(held'[n]) >= stored[w].seq
          PROVE  held'[n][stored[w].seq] = w
      <4>1. stored[w].seq \in 1..Len(held'[n])
        BY <1>2, <3>2, <3>3 DEF Position
      <4>2. Len(held[leader[n]]) >= stored[w].seq
        BY <2>1, <3>2, <4>1 DEF Within, Follows
      <4> QED
        BY <3>1, <3>2, <3>3, <4>1, <4>2 DEF Within, HeldAt
    <3> QED
      BY <1>1, <2>3, <3>2, <3>3 DEF HeldAt
  <2> QED
    BY <2>2, <2>3
<1>4. CASE StartSnapshot(n)
  BY <1>1, <1>2, <1>4 DEF StartSnapshot, HeldAt
<1>5. CASE Promote(n)
  <2>1. PICK t \in 1..MaxTerm : /\ \A k \in Node : term[k] < t
                                /\ term' = [term EXCEPT ![n] = t]
    BY <1>5 DEF Promote
  <2>2. t # stored[w].term
    BY <1>2, <2>1 DEF Position
  <2> QED
    BY <1>1, <1>2, <1>5, <2>1, <2>2 DEF Promote, HeldAt
<1>6. CASE CloseStore(n)
  BY <1>1, <1>2, <1>6 DEF CloseStore, HeldAt
<1>7. CASE \E l \in Node : Enlist(n, l)
  BY <1>1, <1>2, <1>7 DEF Enlist, HeldAt
<1> QED
  BY <1>3, <1>4, <1>5, <1>6, <1>7 DEF NodeStep

\* Whatever happens.
LEMMA StoredStep == ReadsInv /\ [Next]_vars => StoredThere'
<1> SUFFICES ASSUME ReadsInv, [Next]_vars, NEW w \in Write, writing'[w] # "new"
             PROVE  There(w)'
  BY DEF StoredThere
<1> TypeOK /\ OneLeader /\ Histories /\ (writing[w] # "new" => There(w))
  BY DEF ReadsInv, StoredThere
<1> USE ReadsAssumption DEF TypeOK, whole
<1>1. ASSUME NEW n \in Node, NodeStep(n) PROVE There(w)'
  <2>1. There(w) /\ UNCHANGED writes
    BY <1>1, TermsGrow DEF writes
  <2>2. \A m \in Node : HeldAt(w, m)'
    BY <1>1, <2>1, NodesKeep
  <2>3. term[at[w]] \in Int /\ term'[at[w]] \in Int /\ term[at[w]] <= term'[at[w]]
    BY <1>1, <2>1, TermsGrow DEF There
  <2> QED
    BY <2>1, <2>2, <2>3 DEF There, Position, writes
<1>2. ASSUME NEW v \in Write, WriteStep(v) PROVE There(w)'
  <2>1. ASSUME NEW n \in Node, Store(v, n) PROVE There(w)'
    <3>1. /\ leader[n] = None /\ whole(n)
          /\ UNCHANGED <<term, resetting, leader, cookie>>
          /\ held' = [held EXCEPT ![n] = Append(held[n], v)]
          /\ \A m \in Node \ {n} : leader[m] = None => term[m] # term[n]
      BY <2>1 DEF Store, OneLeader
    <3>2. /\ held'[n] \in Seq(Write) /\ Len(held'[n]) = Len(held[n]) + 1
          /\ held'[n][Len(held[n]) + 1] = v /\ Within(held[n], held'[n])
          /\ \A m \in Node \ {n} : held'[m] = held[m]
      BY <3>1, OneStored
    <3>3. CASE w = v
      <4>1. [position(n) EXCEPT !.seq = @ + 1]
              = [term |-> term[n], seq |-> Len(held[n]) + 1]
        BY DEF position
      <4>2. /\ stored'[w] = [term |-> term[n], seq |-> Len(held[n]) + 1]
            /\ at'[w] = n /\ writing'[w] = "stored"
        BY <2>1, <3>3, <4>1 DEF Store
      <4>3. stored'[w] \in Position /\ stored'[w].seq >= 1
            /\ stored'[w].term = term[n] /\ stored'[w].seq = Len(held[n]) + 1
        BY <4>2 DEF Position
      <4>4. HeldAt(w, n)'
        BY <3>2, <3>3, <4>3 DEF HeldAt
      <4>5. ASSUME NEW m \in Node \ {n} PROVE HeldAt(w, m)'
        <5>1. term[m] = term[n] /\ whole(m) => Len(held[m]) <= Len(held[n])
          BY <3>1 DEF Histories, Within
        <5> QED
          BY <3>1, <3>2, <4>3, <5>1 DEF HeldAt
      <4> QED
        BY <3>1, <4>2, <4>3, <4>4, <4>5 DEF There
    <3>4. CASE w # v
      <4>1. /\ There(w) /\ stored'[w] = stored[w] /\ at'[w] = at[w]
            /\ writing'[w] = writing[w]
        BY <2>1, <3>4 DEF Store
      <4>2. ASSUME NEW m \in Node PROVE HeldAt(w, m)'
        <5>1. HeldAt(w, m) /\ stored[w] \in Position /\ stored[w].seq >= 1
          BY <4>1 DEF There
        <5>2. CASE m # n
          BY <3>1, <3>2, <4>1, <5>1, <5>2 DEF HeldAt
        <5>3. CASE m = n
          <6>1. ASSUME term[n] = stored[w].term
                PROVE  /\ stored[w].seq \in 1..Len(held[n])
                       /\ held[n][stored[w].seq] = w
            BY <3>1, <5>1, <5>3, <6>1 DEF HeldAt, Position
          <6> QED
            BY <3>1, <3>2, <4>1, <5>3, <6>1 DEF HeldAt, Within
        <5> QED
          BY <5>2, <5>3
      <4> QED
        BY <3>1, <4>1, <4>2 DEF There
    <3> QED
      BY <3>3, <3>4
  <2>2. CASE AskPosition(v)
    <3>1. There(w) /\ UNCHANGED <<stored, at, term, held, leader, resetting>>
      BY <2>2 DEF AskPosition, store
    <3>2. writing'[w] = "answered" => cookie'[w] \in Position
      <4>1. w = v => cookie'[w] = position(at[w])
        BY <2>2 DEF AskPosition
      <4>2. position(at[w]) \in Position
        BY <3>1 DEF There, position, Position
      <4>3. w # v => cookie'[w] = cookie[w] /\ writing'[w] = writing[w]
        BY <2>2 DEF AskPosition
      <4> QED
        BY <3>1, <4>1, <4>2, <4>3 DEF There
    <3> QED
      BY <3>1, <3>2 DEF There, HeldAt
  <2> QED
    BY <1>2, <2>1, <2>2 DEF WriteStep
<1>3. ASSUME UNCHANGED <<store, writes>> PROVE There(w)'
  BY <1>3 DEF store, writes, There, HeldAt
<1>4. ASSUME NEW r \in Read, ReadStep(r) PROVE There(w)'
  BY <1>3, <1>4, OtherSteps
<1>5. CASE UNCHANGED vars
  BY <1>3, <1>5 DEF vars
<1> QED
  BY <1>1, <1>2, <1>4, <1>5 DEF Next

\* A read goes on carrying what it arrived with.
LEMMA CarriedStep == ReadsInv /\ [Next]_vars => Carried'
<1> SUFFICES ASSUME ReadsInv, [Next]_vars PROVE Carried'
  OBVIOUS
<1> TypeOK /\ Carried
  BY DEF ReadsInv
<1> USE DEF TypeOK
<1>1. ASSUME NEW n \in Node, NodeStep(n) PROVE Carried'
  <2>1. UNCHANGED reads
    BY <1>1 DEF NodeStep, Replicate, StartSnapshot, EndSnapshot, Promote,
                Enlist, CloseStore
  <2> QED
    BY <1>1, <2>1, TermsGrow DEF Carried, reads, writes
<1>2. ASSUME NEW w \in Write, WriteStep(w) PROVE Carried'
  <2>1. UNCHANGED reads /\ \A v \in Write : writing[v] = "answered"
                                            => writing'[v] = "answered"
    BY <1>2 DEF WriteStep, Store, AskPosition
  <2> QED
    BY <2>1 DEF Carried, reads
<1>3. ASSUME NEW r \in Read, ReadStep(r) PROVE Carried'
  <2>1. UNCHANGED writes
    BY <1>3, OtherSteps
  <2>2. ASSUME NEW n \in Node, NEW w \in Write, Arrive(r, n, w) PROVE Carried'
    BY <2>1, <2>2 DEF Arrive, Carried, writes
  <2>3. CASE Handle(r) \/ Fire(r) \/ Done(r)
    <3>1. /\ UNCHANGED <<from, after>>
          /\ \A s \in Read : reading'[s] # "new" => reading[s] # "new"
      BY <2>3 DEF Handle, Check, AwaitEnds, Answer, Fire, Done
    <3> QED
      BY <2>1, <3>1 DEF Carried, writes
  <2> QED
    BY <1>3, <2>2, <2>3 DEF ReadStep
<1>4. CASE UNCHANGED vars
  BY <1>4 DEF vars, writes, reads, Carried
<1> QED
  BY <1>1, <1>2, <1>3, <1>4 DEF Next

\* And so it always holds.
LEMMA AlwaysReadsInv == Spec => []ReadsInv
<1>1. ReadsInv /\ [Next]_vars => ReadsInv'
  BY TypeStep, LeaderStep, HistoriesStep, StoredStep, CarriedStep DEF ReadsInv
<1> QED
  BY <1>1, ReadsInit, PTL DEF Spec

(***************************************************************************)
(* What it is for.                                                         *)
(***************************************************************************)

\* TypeOK: Every variable holds what its Go type lets it hold.
THEOREM Typed == Spec => []TypeOK
<1>1. ReadsInv => TypeOK
  BY DEF ReadsInv
<1> QED
  BY <1>1, AlwaysReadsInv, PTL

\* PositionsAgree: whichever nodes were promoted, enlisted, reset or closed,
\* two stores on one term hold one history, so that a number on one of them
\* names the same write on the other.
THEOREM Agree == Spec => []PositionsAgree
<1>1. ReadsInv => PositionsAgree
  <2> SUFFICES ASSUME ReadsInv, NEW m \in Node, NEW n \in Node, term[m] = term[n],
                      ~resetting[m], ~resetting[n]
               PROVE  IsPrefix(held[m], held[n]) \/ IsPrefix(held[n], held[m])
    BY DEF PositionsAgree
  <2>1. Within(held[m], held[n]) \/ Within(held[n], held[m])
    BY DEF ReadsInv, Histories, whole
  <2>2. held[m] \in Seq(Write) /\ held[n] \in Seq(Write)
    BY DEF ReadsInv, TypeOK
  <2> QED
    BY <2>1, <2>2, PrefixIsWithin
<1> QED
  BY <1>1, AlwaysReadsInv, PTL

\* A store that has reached an honest cookie holds the write it is for.
LEMMA ReachedHolds ==
    ASSUME ReadsInv, NEW n \in Node, NEW w \in Write, writing[w] = "answered",
           honest(w), Reached(n, cookie[w]) = "reached"
    PROVE  Holds(n, w)
<1> USE DEF ReadsInv, TypeOK
<1>1. /\ whole(n) /\ term[n] = cookie[w].term
      /\ Len(held[n]) >= cookie[w].seq
  <2>1. cookie[w] \in Position /\ term[n] \in Int
    BY DEF StoredThere, There
  <2> QED
    BY <2>1 DEF Reached, whole, Position
<1>2. stored[w] \in Position /\ cookie[w] \in Position /\ HeldAt(w, n)
      /\ stored[w].seq >= 1
  BY DEF StoredThere, There
<1>3. stored[w].seq \in 1..Len(held[n])
  BY <1>1, <1>2 DEF honest, Position
<1>4. held[n][stored[w].seq] = w
  BY <1>1, <1>2, <1>3 DEF honest, HeldAt
<1> QED
  BY <1>3, <1>4 DEF Holds

\* ReadYourWrites: a read that carries the position of a write is let through
\* only by a store that holds it, wherever a failover has taken the two.
THEOREM ShowsYourWrites == Spec => ReadYourWrites
<1> DEFINE Shows(r) ==
      reading[r] # reading'[r] /\ after[r] # None /\ honest(after[r]) =>
         /\ reading'[r] = "read" => Holds(from[r], after[r])
         /\ reading'[r] = "404"  => Reached(from[r], cookie[after[r]]) # "reached"
<1>1. ReadsInv /\ [Next]_vars => [\A r \in Read : Shows(r)]_vars
  <2> SUFFICES ASSUME ReadsInv, Next, NEW r \in Read, reading[r] # reading'[r],
                      after[r] # None, honest(after[r])
               PROVE  /\ reading'[r] = "read" => Holds(from[r], after[r])
                      /\ reading'[r] = "404" =>
                            Reached(from[r], cookie[after[r]]) # "reached"
    BY DEF vars
  <2> TypeOK
    BY DEF ReadsInv
  <2> DEFINE said == Reached(from[r], cookie[after[r]])
  <2>1. ReadStep(r)
    <3>1. ASSUME NEW n \in Node, NodeStep(n) PROVE reading' = reading
      BY <3>1 DEF NodeStep, Replicate, StartSnapshot, EndSnapshot, Promote,
                  Enlist, CloseStore, reads
    <3>2. ASSUME NEW w \in Write, WriteStep(w) PROVE reading' = reading
      BY <3>2 DEF WriteStep, Store, AskPosition, reads
    <3>3. ASSUME NEW s \in Read, ReadStep(s), s # r PROVE reading'[r] = reading[r]
      BY <3>3 DEF ReadStep, Handle, Arrive, Check, AwaitEnds, Answer, Fire, Done,
                  TypeOK
    <3> QED
      BY <3>1, <3>2, <3>3 DEF Next
  <2>2. ASSUME said = "reached", reading[r] # "new"
        PROVE  Holds(from[r], after[r])
    <3>1. from[r] \in Node /\ after[r] \in Write /\ writing[after[r]] = "answered"
      BY <2>2 DEF ReadsInv, Carried
    <3> QED
      BY <2>2, <3>1, ReachedHolds
  <2>3. said \in {"closed", "stale", "superseded", "reached"}
    BY DEF Reached
  <2>4. CASE Check(r) \/ AwaitEnds(r)
    <3>1. said # "reached" => refusal(r, said) \notin {"read", "404"}
      BY <2>3 DEF refusal
    <3>2. /\ reading[r] # "new"
          /\ reading'[r] = IF said = "reached" THEN "read" ELSE refusal(r, said)
      BY <2>4 DEF Check, AwaitEnds, TypeOK
    <3> QED
      BY <2>2, <3>1, <3>2
  <2>5. CASE Answer(r)
    <3>1. /\ reading[r] # "new" /\ reading'[r] # "read"
          /\ reading'[r] = "404" => ~Holds(from[r], after[r])
      BY <2>5 DEF Answer, TypeOK
    <3> QED
      BY <2>2, <3>1
  <2>6. CASE Fire(r) \/ Done(r)
    BY <2>6 DEF Fire, Done
  <2>7. ASSUME NEW n \in Node, NEW w \in Write, Arrive(r, n, w)
        PROVE  reading'[r] \in {"check", "wait"}
    BY <2>7 DEF Arrive, TypeOK
  <2> QED
    BY <2>1, <2>4, <2>5, <2>6, <2>7 DEF ReadStep, Handle
<1> QED
  BY <1>1, AlwaysReadsInv, PTL DEF Spec, ReadYourWrites
=============================================================================
