--------------------------- MODULE FailoverProofs ---------------------------
(***************************************************************************)
(* What automatic failover keeps where one node dies and no probe of a     *)
(* live one is missed, for any number of nodes, controllers, writes and    *)
(* terms, for any grace, and however often the Lease moves, a round is too *)
(* slow to act or the API server refuses it.                               *)
(*                                                                         *)
(* A cluster is in one of three stages: Birth leads and the Service names  *)
(* it; another node was promoted and the Service still names Birth; the    *)
(* Service names the promoted node.  The inductive invariant says what     *)
(* holds of the stores, of the acknowledged writes and of what each        *)
(* controller has in hand in each of them.                                 *)
(***************************************************************************)
EXTENDS Failover, SequenceLemmas, FiniteSetTheorems

(***************************************************************************)
(* Every variable keeps its type, whatever dies or is missed.              *)
(***************************************************************************)

\* What a step of a node may change, and what only a controller changes.
NodeTypes ==
    /\ up \in [Node -> BOOLEAN]
    /\ role \in [Node -> {"leader", "replica"}]
    /\ term \in [Node -> Nat]
    /\ fenced \in [Node -> BOOLEAN]
    /\ hist \in [Node -> Seq(1 .. written)]
    /\ applied \in [Node -> Position]
    /\ stream \in [Node -> Node \cup {None}]
    /\ coming \in [Node -> Snapshot \cup {None}]
    /\ \A n \in Node : coming[n] # None => coming[n].writes \in Seq(1 .. written)
    /\ acked \subseteq 1 .. written
    /\ written \in Nat
    /\ service \in Node
    /\ serving \in [Node -> BOOLEAN]
    /\ crashes \in Nat

RoundTypes ==
    /\ holder \in Controller
    /\ pc \in [Controller -> {"idle", "ask", "decide", "enlist", "tidy", "promote",
                              "repromote", "point", "label"}]
    /\ pods \in [Controller -> [Node -> BOOLEAN \cup {None}]]
    /\ view \in [Controller -> [Node -> Status \cup {None}]]
    /\ pointedAt \in [Controller -> Node \cup {None}]
    /\ since \in [Controller -> (0 .. Grace) \cup {None}]
    /\ todo \in [Controller -> SUBSET Node]
    /\ best \in [Controller -> Node \cup {None}]
    /\ fresh \in [Controller -> BOOLEAN]
    /\ answered \in [Controller -> 0 .. Grace]
    /\ misses \in Nat

\* A round that promoted somebody knows whom, and one that decides about whom.
KnowsWhom == \A c \in Controller : /\ pc[c] = "point" => best[c] \in Node
                                   /\ pc[c] = "decide" => pointedAt[c] \in Node

TypeInv == NodeTypes /\ RoundTypes /\ KnowsWhom

\* What those types are about.
nodeVars  == <<nodes, acked, written, kube, crashes>>
roundVars == <<holder, round, since, answered, misses>>

\* The first state is typed.
LEMMA TypeInit == Init => TypeInv
<1> SUFFICES ASSUME Init PROVE TypeInv
  OBVIOUS
<1>1. NodeTypes
  BY FailoverAssumption DEF Init, NodeTypes, Position, Zero
<1>2. RoundTypes /\ KnowsWhom
  BY FailoverAssumption DEF Init, RoundTypes, KnowsWhom
<1> QED
  BY <1>1, <1>2 DEF TypeInv

\* A sequence of some of the writes is one of more of them.
LEMMA MoreWrites ==
    ASSUME NEW k \in Nat, NEW s \in Seq(1..k)
    PROVE  s \in Seq(1..(k + 1)) /\ Append(s, k + 1) \in Seq(1..(k + 1))
OBVIOUS

\* What the stream of n may bring on term t: what of a first snapshot is to come,
\* or a store that goes on, or starts again, as its leader's does.
Brings(n, next, t) ==
    IF coming[n] # None
    THEN next = coming[n].writes /\ t = coming[n].term
    ELSE /\ t = term[stream[n]]
         /\ IF IsPrefix(hist[n], hist[stream[n]])
            THEN /\ Len(hist[n]) < Len(hist[stream[n]])
                 /\ next = SubSeq(hist[stream[n]], 1, Len(hist[n]) + 1)
            ELSE next = hist[stream[n]]

\* What Replicate does, said of one store.
LEMMA Replicated ==
    ASSUME NodeTypes, NEW n \in Node, Replicate(n)
    PROVE  /\ stream[n] \in Node
           /\ \/ drops(n)
              \/ \E next \in Seq(1..written), t \in Nat :
                    Brings(n, next, t) /\ term[n] <= t /\ takes(n, next, t)
           /\ UNCHANGED <<up, role, fenced, acked, written, service, serving, crashes>>
<1> DEFINE s == stream[n]
           first == coming[n] # None
           behind == IsPrefix(hist[n], hist[s])
           next == IF first THEN coming[n].writes
                   ELSE IF behind THEN SubSeq(hist[s], 1, Len(hist[n]) + 1)
                   ELSE hist[s]
           t == IF first THEN coming[n].term ELSE term[s]
<1>1. s \in Node /\ UNCHANGED <<up, role, fenced, acked, written, service, serving, crashes>>
  BY DEF Replicate, NodeTypes, kube, faults
<1>2. hist[n] \in Seq(1..written) /\ hist[s] \in Seq(1..written) /\ Len(hist[n]) \in Nat
  BY <1>1 DEF NodeTypes
<1>3. term[n] \in Nat /\ t \in Nat
  <2>1. first => coming[n] \in Snapshot
    BY DEF NodeTypes
  <2> QED
    BY <1>1, <2>1 DEF NodeTypes, Snapshot
<1>4. \/ t < term[n] /\ drops(n)
      \/ /\ ~(t < term[n]) /\ takes(n, next, t)
         /\ first \/ (behind => Len(hist[n]) < Len(hist[s]))
  BY DEF Replicate
<1>5. CASE ~(t < term[n]) /\ takes(n, next, t) /\ (first \/ (behind => Len(hist[n]) < Len(hist[s])))
  <2>1. Brings(n, next, t)
    BY <1>5 DEF Brings
  <2>2. next \in Seq(1..written)
    <3>1. first => coming[n].writes \in Seq(1..written)
      BY DEF NodeTypes
    <3> HIDE DEF s
    <3>2. Len(hist[n]) < Len(hist[s]) => SubSeq(hist[s], 1, Len(hist[n]) + 1) \in Seq(1..written)
      BY <1>2, OneFurther
    <3> QED
      BY <1>2, <1>5, <3>1, <3>2
  <2> QED
    BY <1>1, <1>3, <1>5, <2>1, <2>2
<1> QED
  BY <1>1, <1>4, <1>5

\* A step of a node keeps the types.
LEMMA NodeTypeStep ==
    ASSUME TypeInv, ClientWrite \/ \E n \in Node : NodeStep(n)
    PROVE  TypeInv'
<1> USE FailoverAssumption, SilenceAssumption DEF TypeInv, link
<1>1. UNCHANGED roundVars => RoundTypes' /\ KnowsWhom'
  BY DEF roundVars, round, seen, RoundTypes, KnowsWhom
<1>2. CASE ClientWrite
  <2>1. /\ hist' \in [Node -> Seq(1..written')]
        /\ \A n \in Node : coming[n] # None => coming[n].writes \in Seq(1..written')
    BY <1>2, MoreWrites DEF ClientWrite, NodeTypes
  <2> QED
    BY <1>1, <1>2, <2>1 DEF ClientWrite, NodeTypes, roundVars, kube, faults
<1>3. ASSUME NEW n \in Node, Acknowledge(n) PROVE TypeInv'
  <2>1. PICK w \in ToSet(hist[n]) : acked' = acked \cup {w}
    BY <1>3 DEF Acknowledge
  <2>2. w \in 1..written
    BY <2>1 DEF NodeTypes, ToSet
  <2> QED
    BY <1>1, <1>3, <2>1, <2>2 DEF Acknowledge, NodeTypes, nodes, store, roundVars, kube, faults
<1>4. ASSUME NEW n \in Node, Dial(n) PROVE TypeInv'
  <2>1. [term |-> term[service], writes |-> hist[service]] \in Snapshot
    BY DEF NodeTypes, Snapshot
  <2>2. /\ stream' \in [Node -> Node \cup {None}] /\ fenced' \in [Node -> BOOLEAN]
        /\ coming' \in [Node -> Snapshot \cup {None}]
        /\ \A m \in Node : coming'[m] # None => coming'[m].writes \in Seq(1..written)
    <3>1. CASE applied[n].term > term[service]
      BY <1>4, <3>1 DEF Dial, NodeTypes
    <3>2. ASSUME NEW first \in {[term |-> term[service], writes |-> hist[service]], None},
                 coming' = [coming EXCEPT ![n] = first]
          PROVE  /\ coming' \in [Node -> Snapshot \cup {None}]
                 /\ \A m \in Node : coming'[m] # None => coming'[m].writes \in Seq(1..written)
      BY <2>1, <3>2 DEF NodeTypes
    <3>3. CASE ~(applied[n].term > term[service])
      <4>1. \E first \in {[term |-> term[service], writes |-> hist[service]], None} :
               coming' = [coming EXCEPT ![n] = first]
        <5>1. coming' = [coming EXCEPT ![n] =
                            IF applied[n] = Zero
                            THEN [term |-> term[service], writes |-> hist[service]] ELSE None]
          BY <1>4, <3>3 DEF Dial
        <5>2. CASE applied[n] = Zero
          BY <5>1, <5>2
        <5>3. CASE applied[n] # Zero
          BY <5>1, <5>3
        <5> QED
          BY <5>2, <5>3
      <4>2. stream' \in [Node -> Node \cup {None}] /\ fenced' \in [Node -> BOOLEAN]
        <5>1. stream' = [stream EXCEPT ![n] = service] /\ fenced' = fenced
          BY <1>4, <3>3 DEF Dial
        <5> QED
          BY <5>1 DEF NodeTypes
      <4> QED
        BY <3>2, <4>1, <4>2
    <3> QED
      BY <3>1, <3>3
  <2> QED
    BY <1>1, <1>4, <2>2 DEF Dial, NodeTypes, store, roundVars, kube, faults
<1>5. ASSUME NEW n \in Node, Replicate(n) PROVE TypeInv'
  <2>1. ASSUME drops(n) PROVE NodeTypes'
    BY <1>5, <2>1, Replicated DEF drops, store, NodeTypes
  <2>2. ASSUME NEW next \in Seq(1..written), NEW t \in Nat, takes(n, next, t) PROVE NodeTypes'
    <3>1. [term |-> t, seq |-> Len(next) + 1] \in Position
      BY DEF Position
    <3>2. /\ term' \in [Node -> Nat] /\ applied' \in [Node -> Position]
          /\ hist' \in [Node -> Seq(1..written)] /\ coming' \in [Node -> Snapshot \cup {None}]
          /\ \A m \in Node : coming'[m] # None => coming'[m].writes \in Seq(1..written)
      BY <2>2, <3>1 DEF takes, NodeTypes
    <3>3. UNCHANGED <<up, role, fenced, acked, written, service, serving, crashes, stream>>
      BY <1>5, <2>2, Replicated DEF takes
    <3> QED
      BY <3>2, <3>3 DEF NodeTypes
  <2>3. NodeTypes'
    BY <1>5, <2>1, <2>2, Replicated
  <2>4. UNCHANGED roundVars
    BY <1>5 DEF Replicate, roundVars, faults
  <2>5. RoundTypes' /\ KnowsWhom'
    BY <1>1, <2>4
  <2> QED
    BY <2>3, <2>5
<1>6. ASSUME NEW n \in Node, Crash(n) PROVE TypeInv'
  <2>1. NodeTypes'
    BY <1>6 DEF Crash, NodeTypes, kube, store
  <2>2. pods' \in [Controller -> [Node -> BOOLEAN \cup {None}]]
    BY <1>6 DEF Crash, RoundTypes
  <2>3. RoundTypes' /\ KnowsWhom'
    BY <1>6, <2>2 DEF Crash, asking, RoundTypes, KnowsWhom, kube
  <2> QED
    BY <2>1, <2>3
<1>7. ASSUME NEW n \in Node, Return(n) PROVE TypeInv'
  BY <1>1, <1>7 DEF Return, drops, NodeTypes, roundVars, faults, store
<1> QED
  BY <1>2, <1>3, <1>4, <1>5, <1>6, <1>7 DEF NodeStep

\* A promotion of whatever it names does.
LEMMA PromotedTypes ==
    ASSUME NodeTypes, NEW n, promote(n)
    PROVE  /\ role' \in [Node -> {"leader", "replica"}] /\ term' \in [Node -> Nat]
           /\ stream' \in [Node -> Node \cup {None}] /\ fenced' \in [Node -> BOOLEAN]
           /\ coming' \in [Node -> Snapshot \cup {None}]
           /\ \A m \in Node : coming'[m] # None => coming'[m].writes \in Seq(1..written)
<1>1. role' \in [Node -> {"leader", "replica"}] /\ fenced' \in [Node -> BOOLEAN]
  BY DEF promote, NodeTypes
<1>2. term' \in [Node -> Nat]
  <2>1. CASE n \in Node
    BY <2>1 DEF promote, NodeTypes
  <2>2. CASE n \notin Node
    BY <2>2 DEF promote, NodeTypes
  <2> QED
    BY <2>1, <2>2
<1>3. stream' \in [Node -> Node \cup {None}]
  BY DEF promote, NodeTypes
<1>4. /\ coming' \in [Node -> Snapshot \cup {None}]
      /\ \A m \in Node : coming'[m] # None => coming'[m].writes \in Seq(1..written)
  BY DEF promote, NodeTypes
<1> QED
  BY <1>1, <1>2, <1>3, <1>4

\* What a node says of itself.
LEMMA Says ==
    ASSUME NodeTypes, NEW n \in Node, NEW ready \in BOOLEAN, NEW labelled \in BOOLEAN
    PROVE  /\ statusOf(n, ready, labelled) \in Status
           /\ statusOf(n, ready, labelled) # None
<1>1. statusOf(n, ready, labelled) \in Status
  BY DEF NodeTypes, statusOf, Status, Position
<1> QED
  BY <1>1, SilenceAssumption

\* And so does a step of a controller.
LEMMA RoundTypeStep ==
    ASSUME TypeInv, NEW c \in Controller, Looking(c) \/ Decision(c) \/ LeaseMoves(c)
    PROVE  TypeInv'
<1> USE FailoverAssumption
    DEF TypeInv, ends, proceeds, missed, nodes, store, link, seen, kube, round, faults
<1>1. UNCHANGED nodeVars => NodeTypes'
  BY DEF nodeVars, NodeTypes
<1>2. CASE Look(c)
  <2>1. pods' \in [Controller -> [Node -> BOOLEAN \cup {None}]]
    BY <1>2 DEF Look, NodeTypes, RoundTypes
  <2> QED
    BY <1>1, <1>2, <2>1 DEF Look, nodeVars, RoundTypes, KnowsWhom
<1>3. CASE Answer(c)
  <2>1. PICK n \in todo[c] :
          /\ todo' = [todo EXCEPT ![c] = @ \ {n}]
          /\ \/ UNCHANGED view
             \/ /\ pods[c][n] # None
                /\ \E ready \in BOOLEAN :
                      view' = [view EXCEPT ![c][n] = statusOf(n, ready, pods[c][n])]
          /\ misses' = misses \/ misses' = misses + 1
    BY <1>3 DEF Answer
  <2>2. n \in Node /\ (pods[c][n] # None => pods[c][n] \in BOOLEAN)
    BY <2>1 DEF RoundTypes
  <2>3. view' \in [Controller -> [Node -> Status \cup {None}]]
    <3>1. ASSUME pods[c][n] # None, NEW ready \in BOOLEAN,
                 view' = [view EXCEPT ![c][n] = statusOf(n, ready, pods[c][n])]
          PROVE  view' \in [Controller -> [Node -> Status \cup {None}]]
      <4>1. statusOf(n, ready, pods[c][n]) \in Status
        BY <2>2, <3>1, Says
      <4> QED
        BY <2>2, <3>1, <4>1 DEF RoundTypes
    <3> QED
      BY <2>1, <3>1 DEF RoundTypes
  <2>4. UNCHANGED <<nodeVars, holder, pc, pods, pointedAt, best, fresh, since, answered>>
    BY <1>3 DEF Answer, nodeVars
  <2>5. todo' \in [Controller -> SUBSET Node] /\ misses' \in Nat
    BY <2>1 DEF RoundTypes
  <2> QED
    BY <1>1, <2>3, <2>4, <2>5 DEF RoundTypes, KnowsWhom
<1>4. CASE ReadService(c)
  <2>1. CASE ends(c) /\ UNCHANGED answered /\ missed("act")
    BY <1>1, <1>4, <2>1 DEF ReadService, nodeVars, RoundTypes, KnowsWhom
  <2>2. CASE /\ pointedAt' = [pointedAt EXCEPT ![c] = service]
             /\ pc' = [pc EXCEPT ![c] = "decide"]
             /\ UNCHANGED <<pods, view, todo, best, fresh, misses>>
    <3>1. answered' \in [Controller -> 0..Grace]
      <4>1. \E age \in {0, answered[c]} : answered' = [answered EXCEPT ![c] = age]
        BY <1>4, <2>2 DEF ReadService, RoundTypes
      <4> QED
        BY <4>1 DEF RoundTypes
    <3> QED
      BY <1>1, <1>4, <2>2, <3>1 DEF ReadService, nodeVars, NodeTypes, RoundTypes, KnowsWhom
  <2> QED
    BY <1>4, <2>1, <2>2 DEF ReadService
<1>5. CASE Repromote(c)
  BY <1>1, <1>5 DEF Repromote, asks, nodeVars, Old, RoundTypes, KnowsWhom
<1>6. CASE Healthy(c)
  BY <1>1, <1>6 DEF Healthy, nodeVars, RoundTypes, KnowsWhom
<1>7. CASE Enlist(c)
  <2>1. NodeTypes'
    BY <1>7 DEF Enlist, NodeTypes
  <2>2. RoundTypes' /\ KnowsWhom'
    BY <1>7 DEF Enlist, RoundTypes, KnowsWhom
  <2> QED
    BY <2>1, <2>2
<1>8. CASE StartTidy(c)
  BY <1>1, <1>8 DEF StartTidy, nodeVars, RoundTypes, KnowsWhom
<1>9. CASE Tidy(c)
  <2>1. \A n \in Node : should(c, n) \in BOOLEAN
    BY DEF should
  <2>2. serving' \in [Node -> BOOLEAN]
    <3>1. ASSUME NEW n \in todo[c], serving' = [serving EXCEPT ![n] = should(c, n)]
          PROVE  serving' \in [Node -> BOOLEAN]
      BY <2>1, <3>1 DEF NodeTypes, RoundTypes
    <3> QED
      BY <1>9, <3>1 DEF Tidy, NodeTypes
  <2>3. NodeTypes'
    BY <1>9, <2>2 DEF Tidy, NodeTypes
  <2>4. CASE UNCHANGED <<pc, pods, view, pointedAt, best, fresh, misses>>
    <3>1. todo' \in [Controller -> SUBSET Node]
      <4>1. CASE \E n \in todo[c] : todo' = [todo EXCEPT ![c] = @ \ {n}]
        BY <4>1 DEF RoundTypes
      <4>2. CASE todo' = [todo EXCEPT ![c] = {}]
        BY <4>2 DEF RoundTypes
      <4> QED
        BY <1>9, <4>1, <4>2 DEF Tidy
    <3> QED
      BY <1>9, <2>3, <2>4, <3>1 DEF Tidy, RoundTypes, KnowsWhom
  <2>5. CASE ends(c)
    BY <1>9, <2>3, <2>5 DEF Tidy, RoundTypes, KnowsWhom
  <2> QED
    BY <1>9, <2>4, <2>5 DEF Tidy
<1>10. CASE StillWaiting(c)
  BY <1>1, <1>10 DEF StillWaiting, nodeVars, RoundTypes, KnowsWhom
<1>11. CASE Refuse(c)
  BY <1>1, <1>11 DEF Refuse, nodeVars, RoundTypes, KnowsWhom
<1>12. CASE Promote(c)
  BY <1>1, <1>12 DEF Promote, DueForFailover, candidates, asks, nodeVars, RoundTypes, KnowsWhom
<1>13. CASE PromoteArrives(c)
  <2>1. NodeTypes'
    <3>1. /\ role' \in [Node -> {"leader", "replica"}] /\ term' \in [Node -> Nat]
          /\ stream' \in [Node -> Node \cup {None}] /\ fenced' \in [Node -> BOOLEAN]
          /\ coming' \in [Node -> Snapshot \cup {None}]
          /\ \A m \in Node : coming'[m] # None => coming'[m].writes \in Seq(1..written)
      <4>1. CASE promote(best[c])
        BY <4>1, PromotedTypes
      <4>2. CASE UNCHANGED <<role, stream, coming, term, fenced>>
        BY <4>2 DEF NodeTypes
      <4> QED
        BY <1>13, <4>1, <4>2 DEF PromoteArrives
    <3> QED
      BY <1>13, <3>1 DEF PromoteArrives, NodeTypes
  <2>2. UNCHANGED <<holder, since, answered, misses>>
    BY <1>13 DEF PromoteArrives
  <2>3. CASE ends(c)
    BY <2>1, <2>2, <2>3 DEF RoundTypes, KnowsWhom
  <2>4. CASE best[c] # None /\ proceeds(c, "point") /\ UNCHANGED <<todo, best>>
    <3>1. best[c] \in Node
      BY <2>4 DEF RoundTypes
    <3> QED
      BY <2>1, <2>2, <2>4, <3>1 DEF RoundTypes, KnowsWhom
  <2> QED
    BY <1>13, <2>3, <2>4 DEF PromoteArrives
<1>14. CASE Point(c)
  <2>1. NodeTypes'
    BY <1>14 DEF Point, NodeTypes, KnowsWhom
  <2>2. CASE proceeds(c, "label") /\ UNCHANGED <<todo, best, misses>>
    BY <1>14, <2>1, <2>2 DEF Point, RoundTypes, KnowsWhom
  <2>3. CASE missed("point") /\ ends(c)
    BY <1>14, <2>1, <2>3 DEF Point, RoundTypes, KnowsWhom
  <2> QED
    BY <1>14, <2>2, <2>3 DEF Point
<1>15. CASE LabelOld(c)
  <2>1. NodeTypes'
    BY <1>15 DEF LabelOld, NodeTypes
  <2>2. RoundTypes' /\ KnowsWhom'
    BY <1>15 DEF LabelOld, RoundTypes, KnowsWhom
  <2> QED
    BY <2>1, <2>2
<1>16. CASE LeaseMoves(c)
  BY <1>1, <1>16 DEF LeaseMoves, nodeVars, RoundTypes, KnowsWhom
<1> QED
  BY <1>2, <1>3, <1>4, <1>5, <1>6, <1>7, <1>8, <1>9, <1>10, <1>11, <1>12, <1>13,
     <1>14, <1>15, <1>16
  DEF Looking, Decision

\* So every step does.
LEMMA TypeStep == TypeInv /\ [Next]_vars => TypeInv'
<1> SUFFICES ASSUME TypeInv, [Next]_vars PROVE TypeInv'
  OBVIOUS
<1> USE DEF TypeInv, nodes, store, link, seen, kube, round, faults
<1>1. CASE Tick
  <2>1. /\ since' \in [Controller -> (0..Grace) \cup {None}]
        /\ answered' \in [Controller -> 0..Grace]
    <3>1. \A t \in (0..Grace) \cup {None} :
            (IF t = None \/ t = Grace THEN t ELSE t + 1) \in (0..Grace) \cup {None}
      BY FailoverAssumption
    <3>2. \A t \in 0..Grace : (IF t = Grace THEN Grace ELSE t + 1) \in 0..Grace
      BY FailoverAssumption
    <3> QED
      BY <1>1, <3>1, <3>2 DEF Tick, RoundTypes
  <2> QED
    BY <1>1, <2>1 DEF Tick, NodeTypes, RoundTypes, KnowsWhom
<1>2. CASE UNCHANGED vars
  BY <1>2 DEF vars, NodeTypes, RoundTypes, KnowsWhom
<1> QED
  BY <1>1, <1>2, NodeTypeStep, RoundTypeStep DEF Next

\* Every node, controller and object of the API server keeps its type, whatever
\* dies, is missed or is refused (TypeOK).
THEOREM Typed == Spec => []TypeOK
<1>1. TypeInv => TypeOK
  BY DEF TypeInv, TypeOK, NodeTypes, RoundTypes
<1> QED
  BY <1>1, TypeInit, TypeStep, PTL DEF Spec

(***************************************************************************)
(* One death.                                                              *)
(***************************************************************************)

\* One node dies at most, its pod is not back before the round that saw it
\* gone is over, a node that is up answers, every replica has had its first
\* snapshot, and a cluster that is failed over waits for a follower.
OneDeath == /\ MaxCrashes <= 1 /\ MaxCrashes \in Nat
            /\ SlowReturn
            /\ "probe" \notin Missable
            /\ ~EmptyStores
            /\ RequireWaitFor \/ WaitFor > 0

(***************************************************************************)
(* The inductive invariant.                                                *)
(***************************************************************************)

Promoted(n) == n # Birth /\ role[n] = "leader"

\* Nodes: at most one is down; a promoted one is up, and it is the only one.
NodesInv ==
    /\ \A n \in Node : ~fenced[n]
    /\ crashes \in 0..1
    /\ \A n \in Node : ~up[n] => crashes = 1
    /\ \A m, n \in Node : ~up[m] /\ ~up[n] => m = n
    /\ \A n \in Node : Promoted(n) => up[n] /\ crashes = 1 /\ WaitFor > 0 /\ term[n] > 0
    /\ \A m, n \in Node : Promoted(m) /\ Promoted(n) => m = n
    /\ service = Birth \/ Promoted(service)
    /\ service = Birth \/ ~up[Birth] => role[Birth] = "leader"
    /\ role[Birth] = "leader" => term[Birth] = 0

\* Streams are replicas', a dead one's until it is noticed included, and lead where
\* the Service does; only Birth, enlisted, begins again with a snapshot.
StreamsInv ==
    \A n \in Node :
        /\ stream[n] # None => stream[n] = service /\ role[n] = "replica" /\ up[service]
        /\ coming[n] # None => service # Birth /\ coming[n].term <= term[service]

\* Terms: none but the promoted node has one until the Service names it, and
\* none is ahead of it then.
TermsInv ==
    /\ \A n \in Node : applied[n].term <= term[n]
    /\ service = Birth => \A n \in Node : ~Promoted(n) => term[n] = 0
    /\ service # Birth => \A n \in Node : term[n] <= term[service]

\* Stores: until then every store is where Birth's begins, as far as its
\* position says.
StoresInv ==
    service = Birth => \A n \in Node :
        /\ Within(hist[n], hist[Birth])
        /\ n # Birth => applied[n].seq = Len(hist[n]) + 1

\* Acknowledged writes are where the Service leads; before a promotion some
\* replica has each, and after it the promoted node while Birth is down.
AckedInv ==
    /\ acked \subseteq ToSet(hist[service])
    /\ WaitFor > 0 /\ (\A n \in Node : ~Promoted(n)) =>
          \A w \in acked : \E r \in Node : r # Birth /\ w \in ToSet(hist[r])
    /\ \A n \in Node : Promoted(n) /\ ~up[Birth] => acked \subseteq ToSet(hist[n])

\* The first of those that got furthest, whoever listed them.
Furthest(n) ==
    \A m \in Node : m # Birth =>
        \/ applied[m].seq < applied[n].seq
        \/ applied[m].seq = applied[n].seq /\ Listed[n] <= Listed[m]

\* Whom a round may promote while Birth is down, whichever round it is.
Elected(n) ==
    /\ n # Birth /\ ~up[Birth]
    /\ \A m \in Node : Promoted(m) => m = n
    /\ service = Birth => Furthest(n)

ElectedInv == ~up[Birth] => \A n \in Node : Promoted(n) => Elected(n)

\* Rounds: a controller saw what there was, and silence is death.
Viewed(c) ==
    /\ pc[c] # "idle" => \A n \in Node : (pods[c][n] = None) <=> ~up[n]
    /\ since[c] # None => crashes = 1
    /\ pc[c] \in {"ask", "decide"} => \A n \in Node :
          /\ view[c][n] = None => ~up[n] \/ (pc[c] = "ask" /\ n \in todo[c])
          /\ view[c][n] # None =>
                /\ view[c][n].ready /\ ~view[c][n].fenced
                /\ view[c][n].role = "leader" => n = Birth \/ Promoted(n)
                /\ n = Birth => IF view[c][n].role = "leader" THEN view[c][n].term = 0
                                ELSE service # Birth

\* While Birth is down nobody gets any further, whatever order the rest answer in.
Asked(c) ==
    pc[c] = "ask" /\ since[c] # None /\ ~up[Birth] /\ service = Birth =>
        \A n \in Node : n # Birth /\ view[c][n] # None =>
            /\ view[c][n].at.seq = applied[n].seq
            /\ view[c][n].at.term > 0 => Promoted(n)

\* So a round that is due chooses the one that is elected.
Decided(c) ==
    pc[c] = "decide" =>
        /\ Old(c) \in {Birth, service}
        /\ Said(c) # None /\ Old(c) = Birth => Said(c).role = "leader"
        /\ Said(c) = None => Old(c) = Birth /\ ~up[Birth]
        /\ Said(c) = None /\ since[c] # None => \A n \in Node : isBest(c, n) => Elected(n)

\* And what it is about to do.
Acts(c) ==
    /\ pc[c] = "enlist" => todo[c] \subseteq {Birth} /\ (todo[c] # {} => service # Birth)
    /\ pc[c] = "promote" => best[c] \in Node /\ Elected(best[c]) /\ WaitFor > 0
    /\ pc[c] = "repromote" => (best[c] # None => Promoted(best[c]))
    /\ pc[c] = "point" => Promoted(best[c]) /\ (service = Birth => ~up[Birth])

RoundInv(c) == Viewed(c) /\ Asked(c) /\ Decided(c) /\ Acts(c)

ClusterInv == NodesInv /\ StreamsInv /\ TermsInv /\ StoresInv /\ AckedInv /\ ElectedInv
RoundsInv  == \A c \in Controller : RoundInv(c)

FailoverInv == TypeInv /\ ClusterInv /\ RoundsInv

(***************************************************************************)
(* Rounds while others act.                                                *)
(***************************************************************************)

\* There is one that is first of the furthest: ties go to the order of the pods.
LEMMA OneIsFurthest ==
    ASSUME TypeInv, NEW m \in Node, NEW n \in Node, m # Birth, n # Birth,
           Furthest(m), Furthest(n)
    PROVE  m = n
<1>1. applied[m].seq \in Nat /\ applied[n].seq \in Nat
  BY DEF TypeInv, NodeTypes, Position
<1>2. Listed[m] \in Nat /\ Listed[n] \in Nat
  BY FailoverAssumption
<1>3. /\ \/ applied[m].seq < applied[n].seq
         \/ applied[m].seq = applied[n].seq /\ Listed[n] <= Listed[m]
      /\ \/ applied[n].seq < applied[m].seq
         \/ applied[n].seq = applied[m].seq /\ Listed[m] <= Listed[n]
  BY DEF Furthest
<1>4. Listed[m] = Listed[n]
  BY <1>1, <1>2, <1>3
<1> QED
  BY <1>4, FailoverAssumption

\* So two rounds do not choose differently.
LEMMA OneIsElected ==
    ASSUME TypeInv, NodesInv, NEW m \in Node, NEW n \in Node, Elected(m), Elected(n)
    PROVE  m = n
<1>1. CASE service = Birth
  BY <1>1, OneIsFurthest DEF Elected
<1>2. CASE service # Birth
  <2>1. Promoted(service) /\ service \in Node
    BY <1>2 DEF NodesInv, TypeInv, NodeTypes
  <2> QED
    BY <2>1 DEF Elected
<1> QED
  BY <1>1, <1>2

\* Who is elected is what the nodes are.
LEMMA ElectedAlike ==
    ASSUME UNCHANGED <<up, role, applied, service>>
    PROVE  \A n \in Node : Elected(n)' <=> Elected(n)
BY DEF Elected, Furthest, Promoted

\* Whom a round finds the best is what it saw.
LEMMA BestAlike ==
    ASSUME NEW c \in Controller, view'[c] = view[c], pointedAt'[c] = pointedAt[c]
    PROVE  \A n \in Node : isBest(c, n)' <=> isBest(c, n)
BY DEF isBest, candidates, Old

\* What a controller has in hand, and a clock it does not start, are left to it.
HandKept(c) ==
    /\ pc'[c] = pc[c] /\ view'[c] = view[c] /\ pointedAt'[c] = pointedAt[c]
    /\ todo'[c] = todo[c] /\ best'[c] = best[c]
    /\ since'[c] # None => since[c] # None

\* What a round has in hand stays right while nobody comes back or is unmade, the
\* Service moves once, and no store moves that a round on its clock has asked.
LEMMA RoundStays ==
    ASSUME TypeInv, NEW c \in Controller, RoundInv(c), HandKept(c),
           pc[c] # "idle" => \A n \in Node : (pods'[c][n] = None) <=> ~up'[n],
           crashes = 1 => crashes' = 1,
           \A n \in Node : up'[n] => up[n],
           service' = service \/ (service = Birth /\ service' # Birth),
           since[c] # None /\ ~up'[Birth] /\ service' = Birth =>
               ~up[Birth] /\ \A n \in Node : applied'[n].seq = applied[n].seq,
           \A n \in Node : Promoted(n) => Promoted(n)',
           \A n \in Node : Elected(n) => Elected(n)'
    PROVE  RoundInv(c)'
<1> USE DEF HandKept, RoundInv
<1>1. Birth \in Node /\ \A n \in Node : ~up[n] => ~up'[n]
  BY FailoverAssumption
<1>2. Viewed(c)'
  BY <1>1 DEF Viewed
<1>3. Asked(c)'
  <2> SUFFICES ASSUME pc[c] = "ask", since[c] # None, ~up'[Birth], service' = Birth,
                      NEW n \in Node, n # Birth, view[c][n] # None
               PROVE  /\ view[c][n].at.seq = applied'[n].seq
                      /\ view[c][n].at.term > 0 => Promoted(n)'
    BY DEF Asked
  <2>1. ~up[Birth] /\ service = Birth /\ applied'[n].seq = applied[n].seq
    OBVIOUS
  <2> QED
    BY <2>1 DEF Asked
<1>4. Decided(c)'
  <2>1. \A n \in Node : isBest(c, n)' <=> isBest(c, n)
    BY BestAlike
  <2>2. Old(c)' = Old(c) /\ Said(c)' = Said(c)
    BY DEF Old, Said
  <2> QED
    BY <1>1, <2>1, <2>2 DEF Decided
<1>5. Acts(c)'
  <2>1. pc[c] = "repromote" /\ best[c] # None => best[c] \in Node
    BY DEF TypeInv, RoundTypes
  <2>2. pc[c] = "point" => best[c] \in Node
    BY DEF TypeInv, KnowsWhom
  <2> QED
    BY <1>1, <2>1, <2>2 DEF Acts
<1> QED
  BY <1>2, <1>3, <1>4, <1>5

\* What a step of a node leaves to every controller.
hands == <<pc, pods, view, pointedAt, todo, best, since>>

\* So all of them stay right while a node takes its step.
LEMMA RoundsStay ==
    ASSUME TypeInv, RoundsInv, UNCHANGED <<hands, up, service, crashes>>,
           service = Birth /\ ~up[Birth] => UNCHANGED applied,
           \A n \in Node : Promoted(n) => Promoted(n)',
           \A n \in Node : Elected(n) => Elected(n)'
    PROVE  RoundsInv'
<1> SUFFICES ASSUME NEW c \in Controller PROVE RoundInv(c)'
  BY DEF RoundsInv
<1>1. RoundInv(c) /\ HandKept(c)
  BY DEF RoundsInv, HandKept, hands
<1>2. pc[c] # "idle" => \A n \in Node : (pods'[c][n] = None) <=> ~up'[n]
  BY <1>1 DEF RoundInv, Viewed, hands
<1> QED
  BY <1>1, <1>2, RoundStays

(***************************************************************************)
(* What nodes do keeps it.                                                 *)
(***************************************************************************)

\* It holds to begin with.
LEMMA FirstState == OneDeath /\ Init => FailoverInv
<1> SUFFICES ASSUME OneDeath, Init PROVE FailoverInv
  OBVIOUS
<1> USE FailoverAssumption
<1>1. NodesInv /\ StreamsInv /\ TermsInv
  BY DEF Init, NodesInv, StreamsInv, TermsInv, Promoted, Zero
<1>2. StoresInv
  <2>1. Within(<<>>, <<>>) /\ Len(<<>>) = 0
    BY DEF Within
  <2> QED
    BY <2>1 DEF Init, OneDeath, StoresInv
<1>3. AckedInv /\ ElectedInv
  BY DEF Init, AckedInv, ElectedInv, Promoted
<1>4. RoundsInv
  BY DEF Init, RoundsInv, RoundInv, Viewed, Asked, Decided, Acts
<1> QED
  BY <1>1, <1>2, <1>3, <1>4, TypeInit DEF FailoverInv, ClusterInv

\* What is in a store is in every store it is the beginning of.
LEMMA WithinHolds ==
    ASSUME NEW S, NEW s \in Seq(S), NEW t \in Seq(S), Within(s, t)
    PROVE  ToSet(s) \subseteq ToSet(t)
BY DEF Within, ToSet

\* And so is what was in it before a record was added to its end.
LEMMA AppendHolds ==
    ASSUME NEW S, NEW s \in Seq(S), NEW w \in S
    PROVE  /\ Within(s, Append(s, w))
           /\ Append(s, w) \in Seq(S)
           /\ ToSet(s) \subseteq ToSet(Append(s, w))
<1>1. Append(s, w) \in Seq(S) /\ Within(s, Append(s, w))
  BY DEF Within
<1> QED
  BY <1>1, WithinHolds

\* A write reaches the store the Service leads to, and that is its end.
LEMMA WriteStep ==
    ASSUME FailoverInv, ClientWrite
    PROVE  ClusterInv' /\ RoundsInv'
<1> USE FailoverAssumption DEF FailoverInv, ClusterInv
<1> DEFINE t == Append(hist[service], written + 1)
           W == 1..(written + 1)
<1>1. /\ hist' = [hist EXCEPT ![service] = t]
      /\ UNCHANGED <<up, role, term, fenced, applied, stream, coming, acked, service, crashes>>
      /\ UNCHANGED hands
      /\ up[service]
  BY DEF ClientWrite, link, kube, round, seen, faults, hands
<1>2. /\ service \in Node /\ Birth \in Node
      /\ \A n \in Node : hist[n] \in Seq(W)
      /\ hist \in [Node -> Seq(1..written)]
  BY MoreWrites DEF TypeInv, NodeTypes
<1>3. /\ Within(hist[service], t) /\ t \in Seq(W)
      /\ ToSet(hist[service]) \subseteq ToSet(t)
  <2>1. written + 1 \in W
    BY DEF TypeInv, NodeTypes
  <2> QED
    BY <1>2, <2>1, AppendHolds
<1> HIDE DEF t, W
<1>4. hist'[service] = t /\ \A n \in Node : n # service => hist'[n] = hist[n]
  BY <1>1, <1>2
<1>5. NodesInv' /\ StreamsInv' /\ TermsInv' /\ ElectedInv'
  BY <1>1 DEF NodesInv, StreamsInv, TermsInv, ElectedInv, Elected, Furthest, Promoted
<1>6. StoresInv'
  <2> SUFFICES ASSUME service = Birth, NEW n \in Node
               PROVE  /\ Within(hist'[n], hist'[Birth])
                      /\ n # Birth => applied[n].seq = Len(hist'[n]) + 1
    BY <1>1 DEF StoresInv
  <2>1. CASE n = Birth
    BY <1>3, <1>4, <2>1, WithinOrder
  <2>2. CASE n # Birth
    BY <1>2, <1>3, <1>4, <2>2, WithinOrder DEF StoresInv
  <2> QED
    BY <2>1, <2>2
<1>7. AckedInv'
  BY <1>1, <1>2, <1>3, <1>4 DEF AckedInv, Promoted
<1>8. RoundsInv'
  BY <1>1, RoundsStay, ElectedAlike DEF Promoted
<1> QED
  BY <1>5, <1>6, <1>7, <1>8

\* Only who leads where the Service points, and counts a follower, acknowledges.
LEMMA AcknowledgeStep ==
    ASSUME FailoverInv, OneDeath, NEW n \in Node, Acknowledge(n)
    PROVE  ClusterInv' /\ RoundsInv'
<1> USE FailoverAssumption DEF FailoverInv, ClusterInv
<1>1. /\ UNCHANGED <<up, role, term, fenced, hist, applied, stream, coming, service, crashes>>
      /\ UNCHANGED hands
      /\ up[n] /\ role[n] = "leader"
  BY DEF Acknowledge, nodes, store, link, kube, round, seen, faults, hands
<1>2. PICK w \in ToSet(hist[n]) :
        Cardinality(holders(w, n)) >= WaitFor /\ acked' = acked \cup {w}
  BY DEF Acknowledge
<1>3. WaitFor > 0 => \E r \in Node : stream[r] = n /\ w \in credited(r)
  <2>1. holders(w, n) = {} => Cardinality(holders(w, n)) = 0
    BY FS_EmptySet
  <2>2. WaitFor > 0 => holders(w, n) # {}
    BY <1>2, <2>1
  <2> QED
    BY <2>2 DEF holders
<1>4. WaitFor > 0 => n = service /\ up[service]
  BY <1>3 DEF StreamsInv
<1>5. n = service
  <2>1. CASE WaitFor > 0
    BY <1>4, <2>1
  <2>2. CASE ~(WaitFor > 0)
    <3>1. \A m \in Node : ~Promoted(m)
      BY <2>2 DEF NodesInv
    <3>2. n = Birth
      BY <1>1, <3>1 DEF Promoted
    <3>3. service = Birth
      BY <3>1 DEF NodesInv, TypeInv, NodeTypes
    <3> QED
      BY <3>2, <3>3
  <2> QED
    BY <2>1, <2>2
<1>6. NodesInv' /\ StreamsInv' /\ TermsInv' /\ StoresInv' /\ ElectedInv'
  BY <1>1 DEF NodesInv, StreamsInv, TermsInv, StoresInv, ElectedInv, Elected, Furthest, Promoted
<1>7. AckedInv'
  <2>1. ASSUME WaitFor > 0, \A m \in Node : ~Promoted(m)
        PROVE  \E r \in Node : r # Birth /\ w \in ToSet(hist[r])
    <3>1. service = Birth
      BY <2>1 DEF NodesInv, TypeInv, NodeTypes
    <3>2. PICK r \in Node : stream[r] = n /\ w \in credited(r)
      BY <1>3, <2>1
    <3>3. coming[r] = None /\ role[r] = "replica"
      BY <3>1, <3>2 DEF StreamsInv
    <3>4. w \in ToSet(hist[r]) /\ r # Birth
      BY <3>1, <3>2, <3>3 DEF credited, NodesInv
    <3> QED
      BY <3>4
  <2>2. ASSUME NEW m \in Node, Promoted(m), ~up[Birth] PROVE m = n
    BY <1>1, <1>5, <2>2 DEF NodesInv, Promoted
  <2> QED
    BY <1>1, <1>2, <1>5, <2>1, <2>2 DEF AckedInv, Promoted
<1>8. RoundsInv'
  BY <1>1, RoundsStay, ElectedAlike DEF Promoted
<1> QED
  BY <1>6, <1>7, <1>8

\* A replica that dials is served, nobody it meets being behind it; and it has a
\* snapshot to come only where it is the one that was born leading.
LEMMA DialStep ==
    ASSUME FailoverInv, NEW n \in Node, Dial(n)
    PROVE  ClusterInv' /\ RoundsInv'
<1> USE FailoverAssumption DEF FailoverInv, ClusterInv
<1>1. ~(applied[n].term > term[service])
  <2>1. role[n] = "replica"
    BY DEF Dial
  <2>2. applied[n].term <= term[n] /\ term[n] <= term[service]
    <3>1. CASE service = Birth
      <4>1. ~Promoted(n) /\ ~Promoted(Birth)
        BY <2>1 DEF Promoted
      <4>2. term[n] = 0 /\ term[Birth] = 0
        BY <3>1, <4>1 DEF TermsInv
      <4> QED
        BY <3>1, <4>2 DEF TermsInv
    <3>2. CASE service # Birth
      BY <3>2 DEF TermsInv
    <3> QED
      BY <3>1, <3>2
  <2>3. applied[n].term \in Nat /\ term[n] \in Nat /\ term[service] \in Nat
    BY DEF TypeInv, NodeTypes, Position
  <2> QED
    BY <2>2, <2>3
<1>2. /\ stream' = [stream EXCEPT ![n] = service]
      /\ coming' = [coming EXCEPT ![n] =
                       IF applied[n] = Zero
                       THEN [term |-> term[service], writes |-> hist[service]] ELSE None]
      /\ up[n] /\ role[n] = "replica" /\ up[service]
      /\ UNCHANGED <<up, role, term, fenced, hist, applied, acked, service, crashes>>
      /\ UNCHANGED hands
  BY <1>1 DEF Dial, store, kube, round, seen, faults, hands
<1>3. applied[n] = Zero => service # Birth
  <2>1. ASSUME service = Birth PROVE applied[n].seq > 0
    <3>1. n # Birth /\ hist[n] \in Seq(1..written)
      BY <1>2, <2>1 DEF NodesInv, TypeInv, NodeTypes
    <3>2. applied[n].seq = Len(hist[n]) + 1 /\ Len(hist[n]) \in Nat
      BY <2>1, <3>1 DEF StoresInv
    <3> QED
      BY <3>2
  <2> QED
    BY <2>1 DEF Zero
<1>4. StreamsInv'
  <2>1. /\ stream'[n] = service
        /\ coming'[n] # None => service # Birth /\ coming'[n].term = term[service]
    <3>1. stream'[n] = service
      BY <1>2 DEF TypeInv, NodeTypes
    <3>2. CASE applied[n] = Zero
      BY <1>2, <1>3, <3>2 DEF TypeInv, NodeTypes
    <3>3. CASE applied[n] # Zero
      BY <1>2, <3>3 DEF TypeInv, NodeTypes
    <3> QED
      BY <3>1, <3>2, <3>3
  <2>2. \A m \in Node : m # n => stream'[m] = stream[m] /\ coming'[m] = coming[m]
    BY <1>2 DEF TypeInv, NodeTypes
  <2>3. term[service] \in Nat
    BY DEF TypeInv, NodeTypes
  <2> QED
    BY <1>2, <2>1, <2>2, <2>3 DEF StreamsInv
<1>5. NodesInv' /\ TermsInv' /\ StoresInv' /\ AckedInv' /\ ElectedInv'
  BY <1>2 DEF NodesInv, TermsInv, StoresInv, AckedInv, ElectedInv, Elected, Furthest, Promoted
<1>6. RoundsInv'
  <2>1. \A m \in Node : (Promoted(m) => Promoted(m)') /\ (Elected(m) => Elected(m)')
    BY <1>2, ElectedAlike DEF Promoted
  <2> QED
    BY <1>2, <2>1, RoundsStay
<1> QED
  BY <1>4, <1>5, <1>6

\* What a stream brings is more of the store it leads to, or all of it.
LEMMA ReplicateStep ==
    ASSUME FailoverInv, NEW n \in Node, Replicate(n)
    PROVE  ClusterInv' /\ RoundsInv'
<1> USE FailoverAssumption DEF FailoverInv, ClusterInv
<1>1. /\ stream[n] # None /\ stream[n] \in Node
      /\ UNCHANGED <<up, role, fenced, acked, service, crashes>>
      /\ UNCHANGED hands
      /\ \/ drops(n)
         \/ \E next \in Seq(1..written), t \in Nat :
               Brings(n, next, t) /\ term[n] <= t /\ takes(n, next, t)
  BY Replicated DEF Replicate, TypeInv, round, seen, hands
<1>2. stream[n] = service /\ role[n] = "replica" /\ up[service]
  BY <1>1 DEF StreamsInv
<1>3. /\ ~Promoted(n) /\ n # service /\ service \in Node
      /\ ~up[Birth] => service # Birth
  BY <1>2 DEF Promoted, NodesInv, TypeInv, NodeTypes
<1>4. /\ \A m \in Node : Promoted(m)' <=> Promoted(m)
      /\ \A m \in Node : Elected(m) => Elected(m)'
  BY <1>1, <1>3 DEF Elected, Promoted
<1>5. RoundsInv' /\ ElectedInv'
  <2>1. RoundsInv'
    BY <1>1, <1>3, <1>4, RoundsStay
  <2>2. ElectedInv'
    BY <1>1, <1>4 DEF ElectedInv
  <2> QED
    BY <2>1, <2>2
<1>6. CASE drops(n)
  <2>1. UNCHANGED <<term, hist, applied>>
    BY <1>6 DEF drops, store
  <2>2. StreamsInv'
    BY <1>1, <1>6, <2>1 DEF drops, StreamsInv, TypeInv, NodeTypes
  <2>3. NodesInv' /\ TermsInv' /\ StoresInv' /\ AckedInv'
    BY <1>1, <2>1 DEF NodesInv, TermsInv, StoresInv, AckedInv, Promoted
  <2> QED
    BY <1>5, <2>2, <2>3
<1>7. ASSUME NEW next \in Seq(1..written), NEW t \in Nat,
             Brings(n, next, t), term[n] <= t, takes(n, next, t)
      PROVE  ClusterInv' /\ RoundsInv'
  <2>1. /\ hist'[n] = next /\ term'[n] = t /\ coming'[n] = None
        /\ applied'[n] = [term |-> t, seq |-> Len(next) + 1]
        /\ \A m \in Node : m # n => /\ hist'[m] = hist[m] /\ term'[m] = term[m]
                                    /\ applied'[m] = applied[m] /\ coming'[m] = coming[m]
        /\ stream' = stream
    BY <1>7 DEF takes, TypeInv, NodeTypes
  <2>2. NodesInv'
    <3>1. \A m \in Node : role[m] = "leader" => term'[m] = term[m]
      BY <1>2, <2>1
    <3> QED
      BY <1>1, <3>1 DEF NodesInv, Promoted
  <2>3. StreamsInv'
    BY <1>1, <1>3, <2>1 DEF StreamsInv
  <2>4. /\ service = Birth => coming[n] = None
        /\ t <= term[service] /\ term[service] \in Nat
        /\ coming[n] = None => t = term[service]
    BY <1>2, <1>7 DEF Brings, StreamsInv, TypeInv, NodeTypes
  <2>5. TermsInv'
    <3>1. \A m \in Node : applied'[m].term <= term'[m]
      BY <2>1 DEF TermsInv
    <3>2. service = Birth => term[service] = 0
      BY DEF TermsInv, Promoted
    <3>3. service = Birth => \A m \in Node : ~Promoted(m) => term'[m] = 0
      BY <2>1, <2>4, <3>2 DEF TermsInv
    <3>4. service # Birth => \A m \in Node : term'[m] <= term'[service]
      BY <1>3, <2>1, <2>4 DEF TermsInv
    <3> QED
      BY <1>1, <1>4, <3>1, <3>3, <3>4 DEF TermsInv
  <2>6. hist[n] \in Seq(1..written) /\ hist[Birth] \in Seq(1..written) /\ Len(hist[n]) \in Nat
    BY DEF TypeInv, NodeTypes
  <2>7. service = Birth => /\ next = SubSeq(hist[Birth], 1, Len(hist[n]) + 1)
                           /\ Len(hist[n]) < Len(hist[Birth])
    <3>1. service = Birth => IsPrefix(hist[n], hist[Birth])
      BY <2>6, PrefixIsWithin DEF StoresInv
    <3> QED
      BY <1>2, <1>7, <2>4, <3>1 DEF Brings
  <2>8. service = Birth => /\ Within(next, hist[Birth]) /\ Len(next) = Len(hist[n]) + 1
                           /\ Within(hist[n], next)
    <3>1. service = Birth => Within(next, hist[Birth]) /\ Len(next) = Len(hist[n]) + 1
      BY <2>6, <2>7, OneFurther
    <3> QED
      BY <2>6, <3>1 DEF StoresInv, Within
  <2>9. StoresInv'
    <3> SUFFICES ASSUME service = Birth, NEW m \in Node
                 PROVE  /\ Within(hist'[m], hist'[Birth])
                        /\ m # Birth => applied'[m].seq = Len(hist'[m]) + 1
      BY <1>1 DEF StoresInv
    <3>1. CASE m # n
      BY <1>1, <1>3, <2>1, <3>1 DEF StoresInv
    <3>2. CASE m = n
      BY <1>1, <1>3, <2>1, <2>8, <3>2 DEF StoresInv
    <3> QED
      BY <3>1, <3>2
  <2>10. AckedInv'
    <3>1. service # Birth => Promoted(service)
      BY DEF NodesInv
    <3>2. service = Birth => ToSet(hist[n]) \subseteq ToSet(next)
      BY <2>6, <2>8, WithinHolds
    <3>3. \A m \in Node : Promoted(m) => m # n
      BY <1>3
    <3> QED
      BY <1>1, <1>3, <2>1, <3>1, <3>2, <3>3 DEF AckedInv, Promoted
  <2> QED
    BY <1>5, <2>2, <2>3, <2>5, <2>9, <2>10
<1> QED
  BY <1>1, <1>6, <1>7

\* The one death takes no acknowledged write with it that no replica has.
LEMMA CrashStep ==
    ASSUME FailoverInv, OneDeath, NEW n \in Node, Crash(n)
    PROVE  ClusterInv' /\ RoundsInv'
<1> USE FailoverAssumption DEF FailoverInv, ClusterInv
<1>1. /\ crashes = 0 /\ crashes' = 1
      /\ up' = [up EXCEPT ![n] = FALSE]
      /\ stream' = [m \in Node |-> IF stream[m] = n THEN None ELSE stream[m]]
      /\ coming' = [m \in Node |-> IF stream[m] = n THEN None ELSE coming[m]]
      /\ pods' = [c \in Controller |-> [pods[c] EXCEPT ![n] = None]]
      /\ best' = [c \in Controller |-> IF c \in asking(n) THEN None ELSE best[c]]
      /\ UNCHANGED <<role, term, fenced, hist, applied, acked, service>>
      /\ UNCHANGED <<pc, view, pointedAt, todo, since>>
  BY DEF Crash, OneDeath, TypeInv, NodeTypes, store, kube
<1>2. /\ \A m \in Node : up[m] /\ ~Promoted(m)
      /\ service = Birth
  BY <1>1 DEF NodesInv, TypeInv, NodeTypes
<1>3. \A m \in Node : ~up'[m] <=> m = n
  BY <1>1, <1>2 DEF TypeInv, NodeTypes
<1>4. NodesInv'
  BY <1>1, <1>2, <1>3 DEF NodesInv, Promoted
<1>5. StreamsInv'
  <2>1. \A m \in Node : stream'[m] # None => stream[m] # None /\ stream[m] # n
    BY <1>1
  <2>2. \A m \in Node : coming'[m] # None => coming[m] # None
    BY <1>1
  <2>3. \A m \in Node : stream'[m] # None => stream'[m] = stream[m]
    BY <1>1
  <2>4. \A m \in Node : coming[m] = None
    BY <1>2 DEF StreamsInv
  <2> QED
    BY <1>1, <1>2, <1>3, <2>1, <2>2, <2>3, <2>4 DEF StreamsInv
<1>6. TermsInv' /\ StoresInv'
  BY <1>1 DEF TermsInv, StoresInv, Promoted
<1>7. AckedInv' /\ ElectedInv'
  BY <1>1, <1>2 DEF AckedInv, ElectedInv, Promoted
<1>8. best' = best
  <2>1. \A c \in Controller : c \notin asking(n)
    BY <1>2 DEF RoundsInv, RoundInv, Acts, Elected, asking
  <2> QED
    BY <1>1, <2>1 DEF TypeInv, RoundTypes
<1>9. ASSUME NEW c \in Controller PROVE RoundInv(c)'
  <2>1. RoundInv(c) /\ HandKept(c) /\ since[c] = None
    BY <1>1, <1>8 DEF RoundsInv, RoundInv, Viewed, HandKept
  <2>2. \A m \in Node : pods'[c][m] = IF m = n THEN None ELSE pods[c][m]
    BY <1>1 DEF TypeInv, RoundTypes
  <2>3. pc[c] # "idle" => \A m \in Node : (pods'[c][m] = None) <=> ~up'[m]
    BY <1>2, <1>3, <2>1, <2>2 DEF RoundInv, Viewed
  <2>4. \A m \in Node : ~Promoted(m) /\ ~Elected(m)
    BY <1>2 DEF Elected
  <2> QED
    BY <1>1, <1>2, <2>1, <2>3, <2>4, RoundStays
<1> QED
  BY <1>4, <1>5, <1>6, <1>7, <1>9 DEF RoundsInv

\* A pod that returns is what its node was, and finds no round under way.
LEMMA ReturnStep ==
    ASSUME FailoverInv, OneDeath, NEW n \in Node, Return(n)
    PROVE  ClusterInv' /\ RoundsInv'
<1> USE FailoverAssumption DEF FailoverInv, ClusterInv
<1>1. /\ ~up[n] /\ up' = [up EXCEPT ![n] = TRUE]
      /\ role' = [role EXCEPT ![n] = IF n = Birth THEN "leader" ELSE "replica"]
      /\ stream' = [stream EXCEPT ![n] = None]
      /\ coming' = [coming EXCEPT ![n] = None]
      /\ \A c \in Controller : pc[c] = "idle"
      /\ UNCHANGED <<term, fenced, hist, applied, acked, service, crashes>>
      /\ UNCHANGED hands
  BY DEF Return, drops, OneDeath, store, round, seen, faults, hands
<1>2. role' = role
  <2>1. role[n] = IF n = Birth THEN "leader" ELSE "replica"
    BY <1>1 DEF NodesInv, Promoted, TypeInv, NodeTypes
  <2> QED
    BY <1>1, <2>1 DEF TypeInv, NodeTypes
<1>3. \A m \in Node : up'[m]
  BY <1>1 DEF NodesInv, TypeInv, NodeTypes
<1>4. StreamsInv'
  BY <1>1, <1>2, <1>3 DEF StreamsInv, TypeInv, NodeTypes
<1>5. NodesInv' /\ TermsInv' /\ StoresInv' /\ AckedInv' /\ ElectedInv'
  BY <1>1, <1>2, <1>3 DEF NodesInv, TermsInv, StoresInv, AckedInv, ElectedInv, Promoted
<1>6. RoundsInv'
  BY <1>1 DEF RoundsInv, RoundInv, Viewed, Asked, Decided, Acts, hands
<1> QED
  BY <1>4, <1>5, <1>6

(***************************************************************************)
(* What controllers do keeps it.                                           *)
(***************************************************************************)

\* What a round may do without touching a node or moving the Service.
cluster == <<up, role, term, fenced, hist, applied, stream, coming, acked, service, crashes>>

\* A step of a round that leaves the cluster alone keeps what holds of it.
LEMMA ClusterKept == ClusterInv /\ UNCHANGED cluster => ClusterInv'
<1> SUFFICES ASSUME ClusterInv, UNCHANGED cluster PROVE ClusterInv'
  OBVIOUS
<1>1. NodesInv' /\ StreamsInv' /\ TermsInv' /\ StoresInv' /\ AckedInv'
  BY DEF ClusterInv, cluster, NodesInv, StreamsInv, TermsInv, StoresInv, AckedInv, Promoted
<1>2. ElectedInv'
  BY DEF ClusterInv, cluster, ElectedInv, Elected, Furthest, Promoted
<1> QED
  BY <1>1, <1>2 DEF ClusterInv

\* What a controller has in hand is as it was while others go their rounds.
OthersKept(c) == \A d \in Controller : d # c => HandKept(d) /\ pods'[d] = pods[d]

\* And one controller's step leaves what the others have in hand.
LEMMA OthersRounds ==
    ASSUME TypeInv, RoundsInv, UNCHANGED cluster,
           NEW c \in Controller, OthersKept(c), RoundInv(c)'
    PROVE  RoundsInv'
<1>1. ASSUME NEW d \in Controller, d # c PROVE RoundInv(d)'
  <2>1. RoundInv(d) /\ HandKept(d) /\ pods'[d] = pods[d]
    BY <1>1 DEF RoundsInv, OthersKept
  <2>2. pc[d] # "idle" => \A n \in Node : (pods'[d][n] = None) <=> ~up'[n]
    BY <2>1 DEF RoundInv, Viewed, cluster
  <2>3. \A n \in Node : (Promoted(n) => Promoted(n)') /\ (Elected(n) => Elected(n)')
    BY ElectedAlike DEF Promoted, cluster
  <2> QED
    BY <2>1, <2>2, <2>3, RoundStays DEF cluster
<1> QED
  BY <1>1 DEF RoundsInv

\* A round that is over, or has no more to decide, has nothing wrong in hand.
LEMMA RoundOver ==
    ASSUME TypeInv, RoundsInv, UNCHANGED <<up, crashes>>, NEW c \in Controller,
           pc'[c] \notin {"ask", "decide", "enlist", "promote", "repromote", "point"},
           pc'[c] = "idle" \/ (pc[c] # "idle" /\ pods'[c] = pods[c]),
           since'[c] # None => since[c] # None \/ crashes = 1
    PROVE  RoundInv(c)'
BY DEF RoundsInv, RoundInv, Viewed, Asked, Decided, Acts

\* A round begins with nobody's answer.
LEMMA LookStep ==
    ASSUME FailoverInv, NEW c \in Controller, Look(c)
    PROVE  ClusterInv' /\ RoundsInv'
<1> USE FailoverAssumption DEF FailoverInv
<1>1. /\ UNCHANGED cluster /\ OthersKept(c) /\ since' = since
      /\ pc'[c] = "ask" /\ todo'[c] = Node
      /\ \A n \in Node : pods'[c][n] = IF up[n] THEN serving[n] ELSE None
      /\ \A n \in Node : view'[c][n] = None
  BY DEF Look, nodes, store, link, kube, faults, cluster, OthersKept, HandKept, TypeInv, RoundTypes
<1>2. RoundInv(c)'
  <2>1. \A n \in Node : serving[n] # None
    BY DEF TypeInv, NodeTypes
  <2>2. since[c] # None => crashes = 1
    BY DEF RoundsInv, RoundInv, Viewed
  <2>3. Viewed(c)'
    BY <1>1, <2>1, <2>2 DEF Viewed, cluster
  <2> QED
    BY <1>1, <2>3 DEF RoundInv, Asked, Decided, Acts
<1> QED
  BY <1>1, <1>2, OthersRounds, ClusterKept

\* What a node answers is what it is, and one that is there answers.
LEMMA AnswerStep ==
    ASSUME FailoverInv, OneDeath, NEW c \in Controller, Answer(c)
    PROVE  ClusterInv' /\ RoundsInv'
<1> USE FailoverAssumption DEF FailoverInv
<1>1. PICK n \in todo[c] :
        /\ todo' = [todo EXCEPT ![c] = @ \ {n}]
        /\ IF pods[c][n] = None
           THEN UNCHANGED view
           ELSE view' = [view EXCEPT ![c][n] = statusOf(n, TRUE, pods[c][n])]
  BY DEF Answer, missed, OneDeath
<1>2. /\ UNCHANGED cluster /\ since' = since /\ pods' = pods /\ pc' = pc
      /\ pc[c] = "ask" /\ n \in Node
  BY DEF Answer, nodes, store, link, kube, cluster, TypeInv, RoundTypes
<1>3. /\ \A m \in Node : m # n => view'[c][m] = view[c][m]
      /\ \A d \in Controller : d # c => view'[d] = view[d]
      /\ OthersKept(c)
  <2>1. \A d \in Controller : d # c => todo'[d] = todo[d] /\ pointedAt'[d] = pointedAt[d]
                                       /\ best'[d] = best[d]
    BY <1>1 DEF Answer, TypeInv, RoundTypes
  <2>2. CASE view' = view
    BY <1>2, <2>1, <2>2 DEF OthersKept, HandKept
  <2>3. CASE view' = [view EXCEPT ![c][n] = statusOf(n, TRUE, pods[c][n])]
    <3>1. /\ \A m \in Node : m # n => view'[c][m] = view[c][m]
          /\ \A d \in Controller : d # c => view'[d] = view[d]
      BY <1>2, <2>3 DEF TypeInv, RoundTypes
    <3> QED
      BY <1>2, <2>1, <3>1 DEF OthersKept, HandKept
  <2> QED
    BY <1>1, <2>2, <2>3
<1>4. Viewed(c) /\ Asked(c)
  BY DEF RoundsInv, RoundInv
<1>5. todo'[c] = todo[c] \ {n}
  BY <1>1 DEF TypeInv, RoundTypes
<1>7. CASE pods[c][n] = None
  <2>1. view' = view /\ ~up[n]
    BY <1>1, <1>2, <1>4, <1>7 DEF Viewed
  <2>2. Viewed(c)'
    <3>1. \A m \in Node : view[c][m] = None => ~up[m] \/ m \in todo'[c]
      BY <1>2, <1>4, <1>5, <2>1 DEF Viewed
    <3> QED
      BY <1>2, <1>4, <2>1, <3>1 DEF Viewed, cluster, Promoted
  <2>3. Asked(c)'
    BY <1>2, <1>4, <2>1 DEF Asked, cluster, Promoted
  <2>4. RoundInv(c)'
    BY <1>2, <2>2, <2>3 DEF RoundInv, Decided, Acts
  <2> QED
    BY <1>2, <1>3, <2>4, OthersRounds, ClusterKept
<1>8. CASE pods[c][n] # None
  <2> DEFINE v == view'[c][n]
  <2>1. v = statusOf(n, TRUE, pods[c][n])
    <3>1. view' = [view EXCEPT ![c][n] = statusOf(n, TRUE, pods[c][n])]
      BY <1>1, <1>8
    <3>2. view \in [Controller -> [Node -> Status \cup {None}]]
      BY DEF TypeInv, RoundTypes
    <3> QED
      BY <1>2, <3>1, <3>2
  <2>2. v # None
    <3>1. pods[c][n] \in BOOLEAN
      BY <1>2, <1>8 DEF TypeInv, RoundTypes
    <3> QED
      BY <1>2, <2>1, <3>1, Says DEF TypeInv
  <2>3. /\ v.ready = TRUE /\ v.fenced = fenced[n] /\ v.role = role[n] /\ v.term = term[n]
        /\ v.at.term = term[n] /\ v.at.seq = applied[n].seq
    BY <2>1 DEF statusOf
  <2> HIDE DEF v
  <2>4. /\ ~v.fenced
        /\ v.role = "leader" => n = Birth \/ Promoted(n)
        /\ n = Birth => IF v.role = "leader" THEN v.term = 0 ELSE service # Birth
    BY <1>2, <2>3 DEF Promoted, ClusterInv, NodesInv
  <2>5. ASSUME NEW m \in Node
        PROVE  /\ view'[c][m] = None => ~up[m] \/ m \in todo'[c]
               /\ view'[c][m] # None =>
                     /\ view'[c][m].ready /\ ~view'[c][m].fenced
                     /\ view'[c][m].role = "leader" => m = Birth \/ Promoted(m)
                     /\ m = Birth => IF view'[c][m].role = "leader" THEN view'[c][m].term = 0
                                     ELSE service # Birth
    <3>1. CASE m = n
      BY <2>2, <2>3, <2>4, <3>1 DEF v
    <3>2. CASE m # n
      BY <1>2, <1>3, <1>4, <1>5, <3>2 DEF Viewed
    <3> QED
      BY <3>1, <3>2
  <2>6. Viewed(c)'
    BY <1>2, <1>4, <2>5 DEF Viewed, cluster, Promoted
  <2>7. Asked(c)'
    <3> SUFFICES ASSUME since[c] # None, ~up[Birth], service = Birth,
                        NEW m \in Node, m # Birth, view'[c][m] # None
                 PROVE  /\ view'[c][m].at.seq = applied[m].seq
                        /\ view'[c][m].at.term > 0 => Promoted(m)
      BY <1>2 DEF Asked, cluster, Promoted
    <3>1. CASE m = n
      <4>1. ~Promoted(n) => term[n] = 0
        BY <1>2 DEF ClusterInv, TermsInv
      <4> QED
        BY <2>3, <3>1, <4>1 DEF v
    <3>2. CASE m # n
      BY <1>2, <1>3, <1>4, <3>2 DEF Asked
    <3> QED
      BY <3>1, <3>2
  <2>8. RoundInv(c)'
    BY <1>2, <2>6, <2>7 DEF RoundInv, Decided, Acts
  <2> QED
    BY <1>2, <1>3, <2>8, OthersRounds, ClusterKept
<1> QED
  BY <1>7, <1>8

\* Who is the best of those that answered is the one that is elected, whichever of
\* them were asked before one was promoted and which after.
LEMMA BestIsElected ==
    ASSUME FailoverInv, NEW c \in Controller, pc[c] = "ask", todo[c] = {},
           since[c] # None, ~up[Birth], service = Birth,
           NEW n \in Node, n # Birth,
           \A m \in Node : m # Birth =>
               /\ ~further(view[c][m].at, view[c][n].at)
               /\ further(view[c][n].at, view[c][m].at) \/ Listed[n] <= Listed[m]
    PROVE  Elected(n)
<1> USE FailoverAssumption DEF FailoverInv, ClusterInv
<1>1. Viewed(c) /\ Asked(c)
  BY DEF RoundsInv, RoundInv
<1>2. ASSUME NEW m \in Node, m # Birth
      PROVE  /\ view[c][m].at.seq = applied[m].seq
             /\ view[c][m].at.term > 0 => Promoted(m)
             /\ view[c][m].at.term \in Nat /\ applied[m].seq \in Nat
  <2>1. up[m]
    BY <1>2 DEF NodesInv
  <2>2. view[c][m] # None
    BY <1>1, <2>1 DEF Viewed
  <2>3. view[c][m] \in Status
    BY <2>2 DEF TypeInv, RoundTypes
  <2> QED
    BY <1>1, <1>2, <2>2, <2>3 DEF Asked, Status, Position, TypeInv, NodeTypes
<1>3. CASE view[c][n].at.term > 0
  BY <1>2, <1>3 DEF ElectedInv
<1>4. CASE ~(view[c][n].at.term > 0)
  <2>1. view[c][n].at.term = 0
    BY <1>2, <1>4
  <2>2. \A m \in Node : m # Birth => view[c][m].at.term = 0
    BY <1>2, <2>1 DEF further
  <2>3. Furthest(n)
    <3> SUFFICES ASSUME NEW m \in Node, m # Birth
                 PROVE  \/ applied[m].seq < applied[n].seq
                        \/ applied[m].seq = applied[n].seq /\ Listed[n] <= Listed[m]
      BY DEF Furthest
    <3>1. /\ view[c][m].at.term = 0 /\ view[c][n].at.term = 0
          /\ view[c][m].at.seq = applied[m].seq /\ view[c][n].at.seq = applied[n].seq
          /\ applied[m].seq \in Nat /\ applied[n].seq \in Nat
      BY <1>2, <2>1, <2>2
    <3>2. /\ ~further(view[c][m].at, view[c][n].at)
          /\ further(view[c][n].at, view[c][m].at) \/ Listed[n] <= Listed[m]
      OBVIOUS
    <3> QED
      BY <3>1, <3>2 DEF further
  <2>4. \A m \in Node : Promoted(m) => m = n
    <3>1. \A m \in Node : Promoted(m) => m # Birth /\ Furthest(m)
      BY DEF ElectedInv, Elected
    <3> QED
      BY <2>3, <3>1, OneIsFurthest
  <2> QED
    BY <2>3, <2>4 DEF Elected
<1> QED
  BY <1>3, <1>4

\* A round that has heard from all of them and reads the Service decides on what is so.
LEMMA ReadServiceStep ==
    ASSUME FailoverInv, NEW c \in Controller, ReadService(c)
    PROVE  ClusterInv' /\ RoundsInv'
<1> USE FailoverAssumption DEF FailoverInv
<1>1. /\ UNCHANGED cluster /\ since' = since
      /\ pc[c] = "ask" /\ todo[c] = {}
  BY DEF ReadService, nodes, store, link, kube, cluster
<1>2. CASE ends(c)
  <2>1. OthersKept(c) /\ pc'[c] = "idle"
    BY <1>1, <1>2 DEF ends, OthersKept, HandKept, TypeInv, RoundTypes
  <2>2. RoundInv(c)'
    BY <1>1, <2>1, RoundOver DEF cluster
  <2> QED
    BY <1>1, <2>1, <2>2, OthersRounds, ClusterKept
<1>3. CASE /\ pointedAt' = [pointedAt EXCEPT ![c] = service]
           /\ pc' = [pc EXCEPT ![c] = "decide"]
           /\ UNCHANGED <<pods, view, todo, best>>
  <2>1. /\ OthersKept(c) /\ pc'[c] = "decide" /\ pointedAt'[c] = service
        /\ service \in Node
    BY <1>1, <1>3 DEF OthersKept, HandKept, TypeInv, NodeTypes, RoundTypes
  <2>2. Viewed(c) /\ Asked(c)
    BY DEF RoundsInv, RoundInv
  <2>3. Viewed(c)'
    BY <1>1, <1>3, <2>1, <2>2 DEF Viewed, cluster, Promoted
  <2>4. view[c][service] # None /\ service = Birth => view[c][service].role = "leader"
    BY <1>1, <2>1, <2>2 DEF Viewed
  <2>5. view[c][service] = None => service = Birth /\ ~up[Birth]
    BY <1>1, <2>1, <2>2 DEF Viewed, ClusterInv, NodesInv
  <2>6. ASSUME view[c][service] = None, since[c] # None, NEW n \in Node, isBest(c, n)'
        PROVE  Elected(n)'
    <3>1. service = Birth /\ ~up[Birth]
      BY <2>5, <2>6
    <3>2. \A m \in Node : m # Birth => m \in candidates(c)'
      <4>1. \A m \in Node : m # Birth => up[m]
        BY <3>1 DEF ClusterInv, NodesInv
      <4> QED
        BY <1>1, <1>3, <2>1, <2>2, <3>1, <4>1 DEF Viewed, candidates, Old
    <3>3. n # Birth /\ n \in candidates(c)'
      BY <2>1, <2>6, <3>1 DEF isBest, candidates, Old
    <3>4. \A m \in Node : m # Birth =>
            /\ ~further(view[c][m].at, view[c][n].at)
            /\ further(view[c][n].at, view[c][m].at) \/ Listed[n] <= Listed[m]
      BY <1>3, <2>6, <3>2 DEF isBest
    <3>5. Elected(n)
      BY <1>1, <2>6, <3>1, <3>3, <3>4, BestIsElected
    <3> QED
      BY <1>1, <3>5, ElectedAlike DEF cluster
  <2>7. Decided(c)'
    BY <1>1, <1>3, <2>1, <2>4, <2>5, <2>6 DEF Decided, Said, Old, cluster
  <2>8. RoundInv(c)'
    BY <2>1, <2>3, <2>7 DEF RoundInv, Asked, Acts
  <2> QED
    BY <1>1, <2>1, <2>8, OthersRounds, ClusterKept
<1> QED
  BY <1>2, <1>3 DEF ReadService

\* The Lease is not what any of it rests on.
LEMMA LeaseStep ==
    ASSUME FailoverInv, NEW c \in Controller, LeaseMoves(c)
    PROVE  ClusterInv' /\ RoundsInv'
<1>1. UNCHANGED cluster /\ UNCHANGED hands
  BY DEF LeaseMoves, nodes, store, link, kube, seen, faults, cluster, hands
<1>2. \A n \in Node : (Promoted(n) => Promoted(n)') /\ (Elected(n) => Elected(n)')
  BY <1>1, ElectedAlike DEF Promoted, cluster
<1> QED
  BY <1>1, <1>2, ClusterKept, RoundsStay DEF FailoverInv, cluster

\* The rounds that change nothing but the labels and their own clocks; one that
\* starts its clock has found a node dead.
LEMMA QuietRoundStep ==
    ASSUME FailoverInv, NEW c \in Controller,
           StartTidy(c) \/ Tidy(c) \/ StillWaiting(c) \/ Refuse(c) \/ LabelOld(c)
    PROVE  ClusterInv' /\ RoundsInv'
<1>1. /\ UNCHANGED cluster
      /\ OthersKept(c)
      /\ pc'[c] \notin {"ask", "decide", "enlist", "promote", "repromote", "point"}
      /\ pc'[c] = "idle" \/ (pc[c] # "idle" /\ pods'[c] = pods[c])
      /\ since'[c] # None => since[c] # None \/ StillWaiting(c)
  <2> USE DEF FailoverInv, TypeInv, RoundTypes, OthersKept, HandKept, ends, proceeds, nodes, store,
              link, kube, seen, faults, cluster
  <2>1. CASE StartTidy(c)
    BY <2>1 DEF StartTidy
  <2>2. CASE Tidy(c)
    <3>1. CASE ends(c)
      BY <2>2, <3>1 DEF Tidy
    <3>2. CASE \E n \in todo[c] : todo' = [todo EXCEPT ![c] = @ \ {n}]
               /\ UNCHANGED <<pc, pods, view, pointedAt, best>>
      BY <2>2, <3>2 DEF Tidy
    <3> QED
      BY <2>2, <3>1, <3>2 DEF Tidy
  <2>3. CASE StillWaiting(c)
    BY <2>3 DEF StillWaiting
  <2>4. CASE Refuse(c)
    BY <2>4 DEF Refuse, DueForFailover
  <2>5. CASE LabelOld(c)
    BY <2>5 DEF LabelOld
  <2> QED
    BY <2>1, <2>2, <2>3, <2>4, <2>5
<1>2. StillWaiting(c) => crashes = 1
  <2> SUFFICES ASSUME StillWaiting(c) PROVE crashes = 1
    OBVIOUS
  <2>1. pc[c] = "decide" /\ Suspect(c) /\ Viewed(c) /\ Decided(c) /\ Old(c) \in Node
    BY DEF StillWaiting, FailoverInv, RoundsInv, RoundInv, TypeInv, KnowsWhom, Old
  <2>2. Said(c) = None
    BY <2>1 DEF Suspect, Viewed, Said
  <2> QED
    BY <2>1, <2>2, FailoverAssumption DEF Decided, FailoverInv, ClusterInv, NodesInv
<1>3. RoundInv(c)'
  BY <1>1, <1>2, RoundOver DEF FailoverInv, cluster
<1> QED
  BY <1>1, <1>3, OthersRounds, ClusterKept DEF FailoverInv

\* A round that took the Service to name one that follows has the one it names by now
\* promoted once more.
LEMMA RepromoteStep ==
    ASSUME FailoverInv, NEW c \in Controller, Repromote(c)
    PROVE  ClusterInv' /\ RoundsInv'
<1> USE FailoverAssumption DEF FailoverInv
<1>1. /\ UNCHANGED cluster /\ OthersKept(c)
      /\ pc[c] = "decide" /\ pc'[c] = "repromote"
      /\ pods'[c] = pods[c] /\ since'[c] = None
      /\ best'[c] \in {Old(c), None}
      /\ Said(c) # None /\ Said(c).role # "leader"
  BY DEF Repromote, asks, OthersKept, HandKept, proceeds, seen, nodes, store, link, kube, faults,
     cluster, TypeInv, RoundTypes
<1>2. Old(c) = service /\ service # Birth
  BY <1>1 DEF RoundsInv, RoundInv, Decided
<1>3. Promoted(service)
  BY <1>2 DEF ClusterInv, NodesInv
<1>4. RoundInv(c)'
  <2>1. Viewed(c)'
    BY <1>1 DEF RoundsInv, RoundInv, Viewed, cluster
  <2>2. best'[c] # None => best'[c] # Birth /\ role'[best'[c]] = "leader"
    BY <1>1, <1>2, <1>3 DEF Promoted, cluster
  <2>3. Acts(c)'
    BY <1>1, <2>2 DEF Acts, Promoted
  <2> QED
    BY <1>1, <2>1, <2>3 DEF RoundInv, Asked, Decided
<1> QED
  BY <1>1, <1>4, OthersRounds, ClusterKept

\* Only Birth is ever enlisted, and only once the Service names another.
LEMMA HealthyStep ==
    ASSUME FailoverInv, NEW c \in Controller, Healthy(c)
    PROVE  ClusterInv' /\ RoundsInv'
<1> USE FailoverAssumption DEF FailoverInv
<1>1. /\ UNCHANGED cluster /\ OthersKept(c)
      /\ pc[c] = "decide" /\ pc'[c] = "enlist"
      /\ pods'[c] = pods[c] /\ since'[c] = None
      /\ todo'[c] = {n \in Node :
                        /\ n # Old(c)
                        /\ view[c][n] # None
                        /\ view[c][n].ready
                        /\ view[c][n].role = "leader"
                        /\ view[c][n].term < Said(c).term}
      /\ Said(c) # None
  BY DEF Healthy, TypeInv, RoundTypes, OthersKept, HandKept, proceeds, seen, nodes, store, link,
     kube, faults, cluster
<1>2. Viewed(c) /\ Decided(c)
  BY DEF RoundsInv, RoundInv
<1>3. ASSUME NEW n \in todo'[c] PROVE n = Birth /\ service # Birth
  <2>1. /\ n \in Node /\ n # Old(c) /\ view[c][n] # None
        /\ view[c][n].term \in Nat /\ view[c][n].term < Said(c).term
    BY <1>1, <1>3 DEF TypeInv, RoundTypes, Status
  <2>2. n = Birth \/ Promoted(n)
    BY <1>1, <1>2, <1>3, <2>1 DEF Viewed
  <2>3. Old(c) # Birth
    <3>1. Old(c) = Birth => Said(c).term = 0
      BY <1>1, <1>2 DEF Viewed, Decided, Said
    <3> QED
      BY <2>1, <3>1
  <2>4. Old(c) = service /\ service # Birth
    BY <1>1, <1>2, <2>3 DEF Decided
  <2> QED
    BY <2>1, <2>2, <2>4 DEF ClusterInv, NodesInv, TypeInv, NodeTypes
<1>4. RoundInv(c)'
  <2>1. Viewed(c)'
    BY <1>1, <1>2 DEF Viewed, cluster
  <2>2. Acts(c)'
    BY <1>1, <1>3 DEF Acts, cluster
  <2> QED
    BY <1>1, <2>1, <2>2 DEF RoundInv, Asked, Decided
<1> QED
  BY <1>1, <1>4, OthersRounds, ClusterKept

\* A controller that enlists sends nobody but the old leader to the new one.
LEMMA EnlistStep ==
    ASSUME FailoverInv, NEW c \in Controller, Enlist(c)
    PROVE  ClusterInv' /\ RoundsInv'
<1> USE FailoverAssumption DEF FailoverInv
<1>1. PICK n \in todo[c] :
        /\ todo' = [todo EXCEPT ![c] = @ \ {n}]
        /\ role' = IF pods[c][n] # None /\ joins(n) THEN [role EXCEPT ![n] = "replica"] ELSE role
  BY DEF Enlist
<1>2. /\ UNCHANGED <<up, term, fenced, hist, applied, stream, coming, acked, service, crashes>>
      /\ UNCHANGED <<pc, pods, view, pointedAt, best, since>>
      /\ pc[c] = "enlist"
  BY DEF Enlist, store, link, kube, seen, faults
<1>3. n = Birth /\ service # Birth
  BY <1>1, <1>2 DEF RoundsInv, RoundInv, Acts
<1>4. /\ \A m \in Node : m # Birth => role'[m] = role[m]
      /\ role'[Birth] = role[Birth] \/ (role'[Birth] = "replica" /\ up[Birth])
  <2>1. pods[c][Birth] # None => up[Birth]
    BY <1>2 DEF RoundsInv, RoundInv, Viewed
  <2> QED
    BY <1>1, <1>3, <2>1 DEF TypeInv, NodeTypes
<1>5. service \in Node /\ Birth \in Node
  BY DEF TypeInv, NodeTypes
<1>6. /\ \A m \in Node : Promoted(m)' <=> Promoted(m)
      /\ \A m \in Node : Elected(m)' <=> Elected(m)
  <2>1. \A m \in Node : Promoted(m)' <=> Promoted(m)
    BY <1>4 DEF Promoted
  <2> QED
    BY <1>2, <2>1 DEF Elected, Furthest
<1>7. NodesInv'
  <2>1. role'[Birth] = "leader" => role[Birth] = "leader"
    BY <1>4
  <2>2. ~up[Birth] => role'[Birth] = role[Birth]
    BY <1>4
  <2>3. NodesInv
    BY DEF ClusterInv
  <2> QED
    BY <1>2, <1>3, <1>5, <1>6, <2>1, <2>2, <2>3 DEF NodesInv
<1>8. StreamsInv'
  BY <1>2, <1>4 DEF ClusterInv, StreamsInv, TypeInv, NodeTypes
<1>9. TermsInv' /\ StoresInv' /\ AckedInv' /\ ElectedInv'
  BY <1>2, <1>3, <1>6 DEF ClusterInv, TermsInv, StoresInv, AckedInv, ElectedInv
<1>10. ASSUME NEW d \in Controller PROVE RoundInv(d)'
  <2>1. RoundInv(d)
    BY DEF RoundsInv
  <2>2. CASE d = c
    <3>1. Viewed(c)'
      BY <1>2, <2>1, <2>2 DEF RoundInv, Viewed
    <3>2. todo'[c] \subseteq {Birth}
      BY <1>1, <1>2, <2>1, <2>2 DEF RoundInv, Acts, TypeInv, RoundTypes
    <3>3. Acts(c)'
      BY <1>2, <1>3, <3>2 DEF Acts
    <3> QED
      BY <1>2, <2>2, <3>1, <3>3 DEF RoundInv, Asked, Decided
  <2>3. CASE d # c
    <3>1. HandKept(d)
      BY <1>1, <1>2, <2>3 DEF HandKept, TypeInv, RoundTypes
    <3>2. pc[d] # "idle" => \A m \in Node : (pods'[d][m] = None) <=> ~up'[m]
      BY <1>2, <2>1 DEF RoundInv, Viewed
    <3> QED
      BY <1>2, <1>3, <1>6, <2>1, <3>1, <3>2, RoundStays
  <2> QED
    BY <2>2, <2>3
<1> QED
  BY <1>7, <1>8, <1>9, <1>10 DEF ClusterInv, RoundsInv

\* The round that is due asks the one that is elected.
LEMMA PromoteStep ==
    ASSUME FailoverInv, OneDeath, NEW c \in Controller, Promote(c)
    PROVE  ClusterInv' /\ RoundsInv'
<1> USE FailoverAssumption DEF FailoverInv
<1>1. /\ pc[c] = "decide" /\ Suspect(c) /\ since[c] # None
      /\ ~(RequireWaitFor /\ WaitFor = 0)
      /\ Viewed(c) /\ Decided(c) /\ Old(c) \in Node
  BY DEF Promote, DueForFailover, waited, RoundsInv, RoundInv, TypeInv, KnowsWhom, Old
<1>2. WaitFor > 0
  BY <1>1 DEF OneDeath
<1>3. Said(c) = None
  BY <1>1 DEF Suspect, Viewed, Said
<1>4. PICK n \in candidates(c) : isBest(c, n) /\ asks(c, n, "promote")
  BY DEF Promote
<1>5. n \in Node /\ Elected(n)
  BY <1>1, <1>3, <1>4 DEF Decided, candidates
<1>6. pods[c][n] # None
  <2>1. up[n]
    BY <1>5 DEF ClusterInv, NodesInv, Elected
  <2> QED
    BY <1>1, <1>5, <2>1 DEF Viewed
<1>7. /\ UNCHANGED cluster /\ UNCHANGED <<since, todo>>
      /\ UNCHANGED <<pods, view, pointedAt>>
      /\ pc' = [pc EXCEPT ![c] = "promote"]
      /\ best' = [best EXCEPT ![c] = n]
  <2>1. UNCHANGED <<nodes, acked, written, kube, holder, since, todo, answered, faults>>
    BY DEF Promote
  <2>2. UNCHANGED cluster /\ UNCHANGED <<since, todo>>
    BY <2>1 DEF nodes, store, link, kube, faults, cluster
  <2>3. best' = [best EXCEPT ![c] = n]
    BY <1>4, <1>6 DEF asks
  <2> QED
    BY <1>4, <2>2, <2>3 DEF asks, proceeds, seen
<1>8. /\ OthersKept(c)
      /\ pc'[c] = "promote" /\ best'[c] = n
  BY <1>7 DEF OthersKept, HandKept, TypeInv, RoundTypes
<1>9. Elected(n)'
  BY <1>5, <1>7, ElectedAlike DEF cluster
<1>10. RoundInv(c)'
  <2>1. Viewed(c)'
    BY <1>1, <1>7, <1>8 DEF Viewed, cluster
  <2>2. Acts(c)'
    BY <1>2, <1>5, <1>8, <1>9 DEF Acts
  <2> QED
    BY <1>8, <2>1, <2>2 DEF RoundInv, Asked, Decided
<1> QED
  BY <1>7, <1>8, <1>10, OthersRounds, ClusterKept

\* The elected node holds every write that was acknowledged.
LEMMA ElectedHolds ==
    ASSUME FailoverInv, WaitFor > 0, NEW n \in Node, Elected(n)
    PROVE  acked \subseteq ToSet(hist[n])
<1> USE FailoverAssumption DEF FailoverInv
<1>1. CASE \E m \in Node : Promoted(m)
  BY <1>1 DEF ClusterInv, AckedInv, Elected
<1>2. CASE \A m \in Node : ~Promoted(m)
  <2>1. service = Birth /\ Furthest(n) /\ n # Birth
    BY <1>2 DEF ClusterInv, NodesInv, TypeInv, NodeTypes, Elected
  <2> SUFFICES ASSUME NEW w \in acked PROVE w \in ToSet(hist[n])
    OBVIOUS
  <2>2. PICK r \in Node : r # Birth /\ w \in ToSet(hist[r])
    BY <1>2 DEF ClusterInv, AckedInv
  <2>3. applied[r].seq <= applied[n].seq
    <3>1. applied[r].seq \in Nat /\ applied[n].seq \in Nat
      BY DEF TypeInv, NodeTypes, Position
    <3> QED
      BY <2>1, <2>2, <3>1 DEF Furthest
  <2>4. /\ Within(hist[r], hist[Birth]) /\ Within(hist[n], hist[Birth])
        /\ applied[r].seq = Len(hist[r]) + 1 /\ applied[n].seq = Len(hist[n]) + 1
    BY <2>1, <2>2 DEF ClusterInv, StoresInv
  <2>5. /\ hist[r] \in Seq(1..written) /\ hist[n] \in Seq(1..written)
        /\ Len(hist[r]) \in Nat /\ Len(hist[n]) \in Nat
    BY DEF TypeInv, NodeTypes
  <2>6. Within(hist[r], hist[n])
    BY <2>3, <2>4, <2>5 DEF Within
  <2>7. ToSet(hist[r]) \subseteq ToSet(hist[n])
    <3>1. \A s, t \in Seq(1..written) : Within(s, t) => ToSet(s) \subseteq ToSet(t)
      BY WithinHolds
    <3> QED
      BY <2>5, <2>6, <3>1
  <2> QED
    BY <2>2, <2>7
<1> QED
  BY <1>1, <1>2

\* A promotion that arrives, however late and as often as it is asked for, takes the
\* cluster to its second stage or leaves it in the stage it is in.
LEMMA ArriveStep ==
    ASSUME FailoverInv, OneDeath, NEW c \in Controller, PromoteArrives(c)
    PROVE  ClusterInv' /\ RoundsInv'
<1> USE FailoverAssumption DEF FailoverInv
<1> DEFINE n == best[c]
<1>1. /\ pc[c] \in {"promote", "repromote"} /\ RoundInv(c)
      /\ UNCHANGED <<up, hist, applied, acked, service, crashes, since>>
  BY DEF PromoteArrives, RoundsInv, store, kube, faults
<1>2. CASE n = None
  <2>1. /\ UNCHANGED cluster /\ ends(c)
    BY <1>1, <1>2 DEF PromoteArrives, store, link, kube, faults, cluster
  <2>2. OthersKept(c) /\ pc'[c] = "idle"
    BY <1>1, <2>1 DEF ends, OthersKept, HandKept, TypeInv, RoundTypes
  <2>3. RoundInv(c)'
    BY <1>1, <2>2, RoundOver DEF cluster
  <2> QED
    BY <2>1, <2>2, <2>3, OthersRounds, ClusterKept
<1>3. CASE n # None
  <2>1. /\ promote(n)
        /\ \/ proceeds(c, "point") /\ UNCHANGED <<todo, best>> /\ pc[c] = "promote"
           \/ ends(c)
    BY <1>3 DEF PromoteArrives
  <2>2. /\ n \in Node /\ n # Birth /\ WaitFor > 0 /\ crashes = 1 /\ up[n]
        /\ \A m \in Node : Promoted(m) => m = n
        /\ pc[c] = "promote" => Elected(n)
    <3>1. n \in Node
      BY <1>3 DEF TypeInv, RoundTypes
    <3>2. CASE pc[c] = "promote"
      <4>1. Elected(n) /\ WaitFor > 0
        BY <1>1, <3>2 DEF RoundInv, Acts
      <4> QED
        BY <3>1, <4>1 DEF Elected, ClusterInv, NodesInv
    <3>3. CASE pc[c] = "repromote"
      <4>1. Promoted(n)
        BY <1>1, <1>3, <3>3 DEF RoundInv, Acts
      <4>2. n # Birth
        BY <4>1 DEF Promoted
      <4> QED
        BY <3>1, <3>3, <4>1, <4>2 DEF ClusterInv, NodesInv
    <3> QED
      BY <1>1, <3>2, <3>3
  <2>3. /\ Birth \in Node /\ service \in Node /\ \A m \in Node : term[m] \in Nat
        /\ service = Birth \/ service = n
        /\ ~up[Birth] => Elected(n)
        /\ ~up[Birth] => acked \subseteq ToSet(hist[n])
    <3>1. service = Birth \/ service = n
      BY <2>2 DEF ClusterInv, NodesInv, TypeInv, NodeTypes
    <3>2. ~up[Birth] => Elected(n)
      BY <1>1, <1>3, <2>2 DEF RoundInv, Acts, ClusterInv, ElectedInv
    <3> QED
      BY <2>2, <3>1, <3>2, ElectedHolds DEF TypeInv, NodeTypes
  <2>4. OthersKept(c)
    BY <1>1, <2>1 DEF proceeds, ends, seen, OthersKept, HandKept, TypeInv, RoundTypes
  <2> HIDE DEF n
  <2>5. /\ role'[n] = "leader" /\ term'[n] = term[n] + 1
        /\ stream'[n] = None /\ coming'[n] = None
        /\ \A m \in Node : ~fenced[m] => ~fenced'[m]
        /\ \A m \in Node : m # n => /\ role'[m] = role[m] /\ term'[m] = term[m]
                                    /\ stream'[m] = stream[m] /\ coming'[m] = coming[m]
    BY <2>1, <2>2 DEF promote, TypeInv, NodeTypes
  <2>6. \A m \in Node : Promoted(m)' <=> m = n
    BY <2>2, <2>5 DEF Promoted
  <2>7. \A m \in Node : Elected(m) => Elected(m)'
    <3> SUFFICES ASSUME NEW m \in Node, Elected(m) PROVE Elected(m)'
      OBVIOUS
    <3>1. m = n
      BY <2>2, <2>3, OneIsElected DEF Elected, ClusterInv
    <3> QED
      BY <1>1, <2>6, <3>1 DEF Elected, Furthest
  <2>8. NodesInv'
    <3>1. NodesInv
      BY DEF ClusterInv
    <3>2. term'[n] > 0 /\ role'[Birth] = role[Birth] /\ term'[Birth] = term[Birth]
      BY <2>2, <2>3, <2>5
    <3>3. service = Birth \/ Promoted(service)'
      BY <1>1, <2>3, <2>6
    <3> QED
      BY <1>1, <2>2, <2>3, <2>5, <2>6, <3>1, <3>2, <3>3 DEF NodesInv
  <2>9. \A m \in Node : term[m] <= term'[m] /\ term'[m] \in Nat
    BY <2>3, <2>5
  <2>10. StreamsInv'
    <3>1. \A m \in Node : coming'[m] # None => coming'[m] = coming[m]
      BY <2>5
    <3>2. \A m \in Node : stream'[m] # None => m # n /\ stream'[m] = stream[m]
      BY <2>5
    <3>3. \A m \in Node : coming[m] # None => coming[m].term \in Nat
      BY DEF TypeInv, NodeTypes, Snapshot
    <3> QED
      BY <1>1, <2>3, <2>5, <2>9, <3>1, <3>2, <3>3 DEF ClusterInv, StreamsInv
  <2>11. TermsInv'
    <3>1. \A m \in Node : applied[m].term <= term'[m]
      <4>1. \A m \in Node : applied[m].term \in Nat /\ applied[m].term <= term[m]
        BY DEF ClusterInv, TermsInv, TypeInv, NodeTypes, Position
      <4> QED
        BY <2>3, <2>9, <4>1
    <3>2. service = Birth => \A m \in Node : m # n => term'[m] = 0
      BY <2>2, <2>5 DEF ClusterInv, TermsInv
    <3>3. ASSUME service # Birth, NEW m \in Node PROVE term'[m] <= term'[service]
      <4>1. service = n /\ term[m] <= term[n]
        BY <2>3, <3>3 DEF ClusterInv, TermsInv
      <4> QED
        BY <2>2, <2>3, <2>5, <4>1
    <3> QED
      BY <1>1, <2>6, <3>1, <3>2, <3>3 DEF TermsInv
  <2>12. StoresInv' /\ AckedInv' /\ ElectedInv'
    BY <1>1, <2>2, <2>3, <2>6, <2>7 DEF ClusterInv, StoresInv, AckedInv, ElectedInv
  <2>13. RoundInv(c)'
    <3>1. CASE ends(c)
      <4>1. pc'[c] = "idle"
        BY <3>1 DEF ends, TypeInv, RoundTypes
      <4> QED
        BY <1>1, <4>1, RoundOver
    <3>2. CASE proceeds(c, "point") /\ UNCHANGED <<todo, best>> /\ pc[c] = "promote"
      <4>1. pc'[c] = "point" /\ best'[c] = n /\ pods'[c] = pods[c]
        BY <3>2 DEF proceeds, seen, n, TypeInv, RoundTypes
      <4>2. ~up[Birth]
        BY <2>2, <3>2 DEF Elected
      <4>3. Acts(c)'
        BY <1>1, <2>2, <2>6, <4>1, <4>2 DEF Acts
      <4>4. Viewed(c)'
        BY <1>1, <4>1 DEF RoundInv, Viewed
      <4> QED
        BY <4>1, <4>3, <4>4 DEF RoundInv, Asked, Decided
    <3> QED
      BY <2>1, <3>1, <3>2
  <2>14. ASSUME NEW d \in Controller, d # c PROVE RoundInv(d)'
    <3>1. RoundInv(d) /\ HandKept(d) /\ pods'[d] = pods[d]
      BY <2>4, <2>14 DEF RoundsInv, OthersKept
    <3>2. pc[d] # "idle" => \A m \in Node : (pods'[d][m] = None) <=> ~up'[m]
      BY <1>1, <3>1 DEF RoundInv, Viewed
    <3>3. \A m \in Node : Promoted(m) => Promoted(m)'
      BY <2>2, <2>6
    <3> QED
      BY <1>1, <2>7, <3>1, <3>2, <3>3, RoundStays
  <2> QED
    BY <2>8, <2>10, <2>11, <2>12, <2>13, <2>14 DEF ClusterInv, RoundsInv
<1> QED
  BY <1>2, <1>3

\* The Service moves to the promoted node, if the API server lets it, and away from
\* nobody's stream.
LEMMA PointStep ==
    ASSUME FailoverInv, NEW c \in Controller, Point(c)
    PROVE  ClusterInv' /\ RoundsInv'
<1> USE FailoverAssumption DEF FailoverInv
<1>1. /\ UNCHANGED <<up, role, term, fenced, hist, applied, stream, coming, acked, crashes, since>>
      /\ pc[c] = "point" /\ RoundInv(c) /\ service' \in {service, best[c]}
      /\ ends(c) \/ (proceeds(c, "label") /\ UNCHANGED <<todo, best>>)
  BY DEF Point, nodes, store, link, faults, RoundsInv
<1>2. /\ best[c] \in Node /\ Promoted(best[c]) /\ best[c] # Birth
      /\ service = Birth => ~up[Birth]
      /\ service = Birth \/ service = best[c]
  BY <1>1 DEF RoundInv, Acts, TypeInv, KnowsWhom, ClusterInv, NodesInv, Promoted, NodeTypes
<1>3. OthersKept(c) /\ pc'[c] \in {"idle", "label"} /\ (pc'[c] = "label" => pods'[c] = pods[c])
  BY <1>1 DEF ends, proceeds, seen, OthersKept, HandKept, TypeInv, RoundTypes
<1>4. RoundInv(c)'
  BY <1>1, <1>3, RoundOver
<1>5. CASE service' = service
  BY <1>1, <1>3, <1>4, <1>5, OthersRounds, ClusterKept DEF cluster
<1>6. CASE service' # service
  <2>1. service = Birth /\ service' = best[c] /\ ~up[Birth]
    BY <1>1, <1>2, <1>6
  <2>2. NodesInv'
    BY <1>1, <1>2, <2>1 DEF ClusterInv, NodesInv, Promoted
  <2>3. StreamsInv'
    BY <1>1, <1>2, <2>1 DEF ClusterInv, StreamsInv, NodesInv
  <2>4. TermsInv'
    <3>1. \A m \in Node : m # best[c] => term[m] = 0
      BY <1>2, <2>1 DEF ClusterInv, TermsInv, NodesInv
    <3>2. \A m \in Node : term[m] \in Nat
      BY DEF TypeInv, NodeTypes
    <3>3. \A m \in Node : term[m] <= term[best[c]]
      BY <1>2, <3>1, <3>2
    <3> QED
      BY <1>1, <1>2, <2>1, <3>3 DEF ClusterInv, TermsInv
  <2>5. StoresInv'
    BY <1>2, <2>1 DEF StoresInv
  <2>6. AckedInv' /\ ElectedInv'
    BY <1>1, <1>2, <2>1 DEF ClusterInv, AckedInv, ElectedInv, Elected, Promoted
  <2>7. ASSUME NEW d \in Controller, d # c PROVE RoundInv(d)'
    <3>1. RoundInv(d) /\ HandKept(d) /\ pods'[d] = pods[d]
      BY <1>3, <2>7 DEF RoundsInv, OthersKept
    <3>2. pc[d] # "idle" => \A m \in Node : (pods'[d][m] = None) <=> ~up'[m]
      BY <1>1, <3>1 DEF RoundInv, Viewed
    <3>3. \A m \in Node : (Promoted(m) => Promoted(m)') /\ (Elected(m) => Elected(m)')
      BY <1>1, <1>2, <2>1 DEF Elected, Promoted
    <3> QED
      BY <1>1, <1>2, <2>1, <3>1, <3>2, <3>3, RoundStays
  <2> QED
    BY <1>4, <2>2, <2>3, <2>4, <2>5, <2>6, <2>7 DEF ClusterInv, RoundsInv
<1> QED
  BY <1>5, <1>6

(***************************************************************************)
(* The theorems.                                                           *)
(***************************************************************************)

\* Every step keeps the invariant.
LEMMA FailoverStep ==
    ASSUME OneDeath, FailoverInv, [Next]_vars PROVE FailoverInv'
<1>1. TypeInv'
  BY TypeStep DEF FailoverInv
<1>2. CASE UNCHANGED <<cluster, pc, pods, view, pointedAt, todo, best>> /\ (Tick \/ UNCHANGED vars)
  <2>1. ClusterInv'
    BY <1>2, ClusterKept DEF FailoverInv
  <2>2. ASSUME NEW c \in Controller PROVE RoundInv(c)'
    <3>1. RoundInv(c) /\ TypeInv
      BY DEF FailoverInv, RoundsInv
    <3>2. since'[c] # None => since[c] # None
      BY <1>2 DEF Tick, vars
    <3>3. HandKept(c)
      BY <1>2, <3>2 DEF HandKept
    <3>4. pc[c] # "idle" => \A n \in Node : (pods'[c][n] = None) <=> ~up'[n]
      BY <1>2, <3>1 DEF RoundInv, Viewed, cluster
    <3>5. \A n \in Node : (Promoted(n) => Promoted(n)') /\ (Elected(n) => Elected(n)')
      BY <1>2, ElectedAlike DEF Promoted, cluster
    <3> QED
      BY <1>2, <3>1, <3>3, <3>4, <3>5, RoundStays DEF cluster
  <2> QED
    BY <1>1, <2>1, <2>2 DEF FailoverInv, RoundsInv
<1>3. CASE Tick \/ UNCHANGED vars
  BY <1>2, <1>3 DEF Tick, vars, nodes, store, link, kube, round, seen, faults, cluster
<1>4. ASSUME ClientWrite \/ \E n \in Node : NodeStep(n) PROVE FailoverInv'
  BY <1>1, <1>4, WriteStep, AcknowledgeStep, DialStep, ReplicateStep, CrashStep, ReturnStep
  DEF NodeStep, FailoverInv
<1>5. ASSUME NEW c \in Controller, Looking(c) \/ Decision(c) \/ LeaseMoves(c) PROVE FailoverInv'
  <2>1. ClusterInv' /\ RoundsInv'
    BY <1>5, LookStep, AnswerStep, ReadServiceStep, LeaseStep, RepromoteStep, HealthyStep,
       EnlistStep, QuietRoundStep, PromoteStep, ArriveStep, PointStep DEF Looking, Decision
  <2> QED
    BY <1>1, <2>1 DEF FailoverInv
<1> QED
  BY <1>3, <1>4, <1>5 DEF Next

\* The invariant holds in every state, where one node dies.
THEOREM AlwaysFailoverInv == ASSUME OneDeath PROVE Spec => []FailoverInv
<1>1. FailoverInv /\ [Next]_vars => FailoverInv'
  BY FailoverStep
<1>2. Init => FailoverInv
  BY FirstState
<1> QED
  BY <1>1, <1>2, PTL DEF Spec

\* controller.go, choose: "promoting a caught-up follower cannot lose one".
\* Where one node dies once the replicas have their first snapshots, and no probe of
\* a live one is missed, the node the Service names holds every write that was
\* answered 204, whoever is promoted and whatever the registry counted.
THEOREM NoAckIsLost == ASSUME OneDeath PROVE Spec => []AckedSurvives
<1>1. FailoverInv => AckedSurvives
  BY DEF FailoverInv, ClusterInv, AckedInv, AckedSurvives
<1> QED
  BY <1>1, AlwaysFailoverInv, PTL

\* And no two nodes lead on one term, though the old leader may be back as one
\* and the promotion may have been repeated.
THEOREM TermsTellLeadersApart == ASSUME OneDeath PROVE Spec => []OneLeaderPerTerm
<1>1. ASSUME FailoverInv, NEW m \in Node, NEW n \in Node, m # n,
             role[m] = "leader", role[n] = "leader"
      PROVE  term[m] # term[n]
  <2>1. m = Birth \/ Promoted(m)
    BY <1>1 DEF Promoted
  <2>2. n = Birth \/ Promoted(n)
    BY <1>1 DEF Promoted
  <2>3. NodesInv
    BY <1>1 DEF FailoverInv, ClusterInv
  <2>4. \A p \in Node : Promoted(p) => term[p] > 0
    BY <2>3 DEF NodesInv
  <2>5. CASE m = Birth
    BY <1>1, <2>2, <2>3, <2>4, <2>5 DEF NodesInv
  <2>6. CASE n = Birth
    BY <1>1, <2>1, <2>3, <2>4, <2>6 DEF NodesInv
  <2> QED
    BY <1>1, <2>1, <2>2, <2>3, <2>5, <2>6 DEF NodesInv
<1>2. FailoverInv => OneLeaderPerTerm
  BY <1>1 DEF OneLeaderPerTerm
<1> QED
  BY <1>2, AlwaysFailoverInv, PTL

\* controller.go, enlist: what the Service names "must never be told to follow
\* anything", by any of the controllers, however stale what it acts on is.
THEOREM EnlistSparesTheLeader == ASSUME OneDeath PROVE Spec => LeaderIsNeverEnlisted
<1>1. ASSUME FailoverInv, NEW c \in Controller, Enlist(c) PROVE role'[service] = role[service]
  <2>1. PICK n \in todo[c] : role' = role \/ role' = [role EXCEPT ![n] = "replica"]
    BY <1>1 DEF Enlist
  <2>2. n = Birth /\ service # Birth /\ service \in Node
    BY <1>1, <2>1 DEF Enlist, FailoverInv, RoundsInv, RoundInv, Acts, TypeInv, NodeTypes
  <2> QED
    BY <1>1, <2>1, <2>2 DEF FailoverInv, TypeInv, NodeTypes
<1>2. FailoverInv /\ [Next]_vars =>
        [\A c \in Controller : Enlist(c) => role'[service] = role[service]]_vars
  BY <1>1
<1> QED
  BY <1>2, AlwaysFailoverInv, PTL DEF Spec, LeaderIsNeverEnlisted

(***************************************************************************)
(* The grace, of any number of controllers, whatever dies or is missed.    *)
(***************************************************************************)

\* A controller is about to say that the write target is well.
SawWell(c) == pc[c] = "decide" /\ well(Said(c))

\* Its clock has run no longer than it has not seen that, Lease or no Lease.
ClockInv ==
    \A c \in Controller : since[c] # None => since[c] <= answered[c] \/ SawWell(c)

\* Every step keeps that.
LEMMA ClockStep == ASSUME TypeInv, ClockInv, [Next]_vars PROVE ClockInv'
<1> USE FailoverAssumption DEF nodes, store, link, kube, seen, round, faults
<1>1. CASE Tick
  <2> SUFFICES ASSUME NEW c \in Controller, since'[c] # None
               PROVE  since'[c] <= answered'[c] \/ SawWell(c)'
    BY DEF ClockInv
  <2>1. since[c] # None /\ (since[c] <= answered[c] \/ SawWell(c))
    BY <1>1 DEF Tick, ClockInv
  <2>2. since[c] \in 0..Grace /\ answered[c] \in 0..Grace
    BY <2>1 DEF TypeInv, RoundTypes
  <2>3. /\ since'[c] = (IF since[c] = Grace THEN since[c] ELSE since[c] + 1)
        /\ answered'[c] = (IF answered[c] = Grace THEN Grace ELSE answered[c] + 1)
    BY <1>1, <2>1 DEF Tick
  <2>4. since[c] <= answered[c] => since'[c] <= answered'[c]
    BY <2>2, <2>3
  <2> QED
    BY <1>1, <2>1, <2>4 DEF Tick, SawWell, Said, Old
<1>2. CASE UNCHANGED <<pc, view, pointedAt, since, answered>>
  BY <1>2 DEF ClockInv, SawWell, Said, Old
<1>3. ASSUME NEW c \in Controller, Looking(c) \/ Decision(c) PROVE ClockInv'
  <2>1. ASSUME NEW d \in Controller, d # c, since'[d] # None
        PROVE  since'[d] <= answered'[d] \/ SawWell(d)'
    <3>1. /\ since'[d] = since[d] /\ answered'[d] = answered[d] /\ pc'[d] = pc[d]
          /\ view'[d] = view[d] /\ pointedAt'[d] = pointedAt[d]
      <4> USE <2>1 DEF TypeInv, RoundTypes, ends, proceeds, asks
      <4>1. CASE Looking(c)
        <5>1. CASE Look(c)
          BY <5>1 DEF Look
        <5>2. CASE Answer(c)
          <6>1. PICK n \in todo[c] :
                   \/ view' = view
                   \/ \E ready \in BOOLEAN :
                         view' = [view EXCEPT ![c][n] = statusOf(n, ready, pods[c][n])]
            BY <5>2 DEF Answer
          <6> QED
            BY <5>2, <6>1 DEF Answer
        <5>3. CASE ReadService(c)
          BY <5>3 DEF ReadService
        <5> QED
          BY <4>1, <5>1, <5>2, <5>3 DEF Looking
      <4>2. CASE Repromote(c) \/ Healthy(c) \/ Enlist(c) \/ StartTidy(c) \/ Tidy(c)
        BY <4>2 DEF Repromote, Healthy, Enlist, StartTidy, Tidy
      <4>3. CASE StillWaiting(c) \/ Refuse(c) \/ Promote(c) \/ PromoteArrives(c)
                 \/ Point(c) \/ LabelOld(c)
        BY <4>3 DEF StillWaiting, Refuse, Promote, PromoteArrives, Point, LabelOld
      <4> QED
        BY <1>3, <4>1, <4>2, <4>3 DEF Decision
    <3> QED
      BY <2>1, <3>1 DEF ClockInv, SawWell, Said, Old
  <2>2. since[c] # None => /\ since[c] <= answered[c] \/ SawWell(c)
                           /\ since[c] \in 0..Grace
    BY DEF ClockInv, TypeInv, RoundTypes
  <2>3. answered[c] \in 0..Grace
    BY DEF TypeInv, RoundTypes
  <2>4. since'[c] # None => since'[c] <= answered'[c] \/ SawWell(c)'
    <3> USE DEF TypeInv, RoundTypes, ends, proceeds
    <3>1. CASE Look(c)
      BY <2>2, <3>1 DEF Look, SawWell
    <3>2. CASE Answer(c)
      BY <2>2, <3>2 DEF Answer, SawWell
    <3>3. CASE ReadService(c)
      <4>1. CASE answered' = answered
        BY <2>2, <3>3, <4>1 DEF ReadService, SawWell
      <4>2. CASE answered' # answered
        <5>1. /\ well(view[c][service])
              /\ view' = view /\ pointedAt'[c] = service /\ pc'[c] = "decide"
          BY <3>3, <4>2 DEF ReadService
        <5> QED
          BY <5>1 DEF SawWell, Said, Old, well
      <4> QED
        BY <4>1, <4>2
    <3>4. CASE Repromote(c)
      BY <3>4 DEF Repromote
    <3>5. CASE Healthy(c)
      BY <3>5 DEF Healthy
    <3>6. CASE Enlist(c)
      BY <2>2, <3>6 DEF Enlist, SawWell
    <3>7. CASE StartTidy(c)
      BY <2>2, <3>7 DEF StartTidy, SawWell
    <3>8. CASE Tidy(c)
      BY <2>2, <3>8 DEF Tidy, SawWell
    <3>9. CASE StillWaiting(c)
      BY <2>2, <2>3, <3>9 DEF StillWaiting, SawWell, Suspect, well
    <3>10. CASE Refuse(c)
      BY <2>2, <3>10 DEF Refuse, DueForFailover, SawWell, Suspect, well
    <3>11. CASE Promote(c)
      BY <2>2, <3>11 DEF Promote, DueForFailover, asks, SawWell, Suspect, well
    <3>12. CASE PromoteArrives(c)
      BY <2>2, <3>12 DEF PromoteArrives, SawWell
    <3>13. CASE Point(c)
      BY <2>2, <3>13 DEF Point, SawWell
    <3>14. CASE LabelOld(c)
      BY <3>14 DEF LabelOld
    <3> QED
      BY <1>3, <3>1, <3>2, <3>3, <3>4, <3>5, <3>6, <3>7, <3>8, <3>9, <3>10, <3>11, <3>12,
         <3>13, <3>14 DEF Looking, Decision
  <2> QED
    BY <2>1, <2>4 DEF ClockInv
<1>4. CASE ClientWrite \/ \E n \in Node : NodeStep(n)
  BY <1>2, <1>4 DEF ClientWrite, NodeStep, Acknowledge, Dial, Replicate, Crash, Return
<1>5. ASSUME NEW c \in Controller, LeaseMoves(c) PROVE ClockInv'
  BY <1>2, <1>5 DEF LeaseMoves
<1>6. CASE UNCHANGED vars
  BY <1>2, <1>6 DEF vars
<1> QED
  BY <1>1, <1>3, <1>4, <1>5, <1>6 DEF Next

\* controller.go, unreachableSince: "a run of failures rather than an aggregate
\* of them", as far as one controller sees.  Whoever dies, is missed or holds the
\* Lease in between, a silent leader is replaced only by a controller none of whose
\* own rounds, for the whole of the grace, saw it well.
THEOREM GraceRuns == Spec => GraceIsItsOwnRun
<1>1. Init => TypeInv /\ ClockInv
  BY TypeInit DEF Init, ClockInv
<1>2. TypeInv /\ ClockInv /\ [Next]_vars => TypeInv' /\ ClockInv'
  BY TypeStep, ClockStep
<1>3. ASSUME TypeInv, ClockInv, NEW c \in Controller, Promote(c), Said(c) = None
      PROVE  answered[c] >= Grace
  <2>1. since[c] # None /\ since[c] >= Grace /\ ~SawWell(c)
    BY <1>3 DEF Promote, DueForFailover, waited, SawWell, well
  <2>2. since[c] <= answered[c] /\ since[c] \in Nat /\ answered[c] \in Nat
    BY <1>3, <2>1 DEF ClockInv, TypeInv, RoundTypes
  <2> QED
    BY <2>1, <2>2, FailoverAssumption
<1>4. TypeInv /\ ClockInv /\ [Next]_vars =>
        [\A c \in Controller : Promote(c) /\ Said(c) = None => answered[c] >= Grace]_vars
  BY <1>3
<1> QED
  BY <1>1, <1>2, <1>4, PTL DEF Spec, GraceIsItsOwnRun
=============================================================================
