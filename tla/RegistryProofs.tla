--------------------------- MODULE RegistryProofs ---------------------------
(***************************************************************************)
(* What module SemiSync keeps for any number of followers, streams, writes *)
(* and faults: its types, what the registry of followers (acks.go) can     *)
(* say, batches that continue the store that reads them, and what a 204 is *)
(* worth.                                                                  *)
(*                                                                         *)
(* Three lemmas say once what any step may do: to the peak of a follower,  *)
(* to the handler of a stream, and to an entry of the registry.  The       *)
(* invariants follow from those, not from the actions.                     *)
(***************************************************************************)
EXTENDS SemiSync, FiniteSetTheorems, TLAPS

(***************************************************************************)
(* The order positions are in: what every comparison of two of them, on a  *)
(* leader, a follower or a controller, may rely on.                        *)
(***************************************************************************)

\* acks.go, reaches: every position has reached itself.
LEMMA ReachesSelf == \A p \in Position : reaches(p, p)
BY DEF Position, reaches

\* Any two positions can be told apart: one of them has reached the other.
LEMMA ReachesTotal ==
    \A p, q \in Position : ~reaches(p, q) => reaches(q, p)
BY DEF Position, reaches

\* And what has reached a position has reached all that one had.
LEMMA ReachesTransitive ==
    \A p, q, r \in Position : reaches(p, q) /\ reaches(q, r) => reaches(p, r)
BY DEF Position, reaches

\* Every store has reached the zero position.
LEMMA ReachesZero == Zero \in Position /\ \A p \in Position : reaches(p, Zero)
BY DEF Position, reaches, Zero

\* The later of two positions is one of them and has reached both.
LEMMA LaterReaches ==
    \A p, q \in Position :
        Later(p, q) \in Position /\ reaches(Later(p, q), p) /\ reaches(Later(p, q), q)
BY ReachesSelf, ReachesTotal DEF Later

\* controller.go, further, is acks.go, reaches, the other way round: a
\* candidate is further than another exactly when the other has not reached it.
\* The controller and the leader rank stores by one order.
THEOREM FurtherIsNotReached ==
    \A p, q \in Position : further(p, q) <=> ~reaches(q, p)
BY DEF Position, reaches, further

(***************************************************************************)
(* Every variable keeps its type.                                          *)
(***************************************************************************)

\* The first state is typed.
LEMMA TypeInit == Init => TypeOK
<1> SUFFICES ASSUME Init PROVE TypeOK
  OBVIOUS
<1> USE SemiSyncAssumption
<1>1. Zero \in Position /\ applied \in [Node -> Position]
  BY DEF Init, Zero, Position
<1>2. NodeTypes
  <2>1. owner \in [{name[n] : n \in Node} -> Node]
    BY DEF Init
  <2>2. DOMAIN owner = {name[n] : n \in Node}
    BY <2>1
  <2>3. name \in [Node -> Id]
    BY DEF Init
  <2>4. DOMAIN owner \subseteq Id /\ name \in [Node -> DOMAIN owner]
    BY <2>2, <2>3
  <2> QED
    BY <1>1, <2>1, <2>2, <2>4 DEF Init, NodeTypes
<1>3. LeaderTypes
  BY DEF Init, LeaderTypes
<1>4. StreamTypes
  BY DEF Init, StreamTypes, idle, Handler, Phases
<1>5. TellTypes /\ WriteTypes
  BY DEF Init, TellTypes, WriteTypes
<1> QED
  BY <1>2, <1>3, <1>4, <1>5 DEF TypeOK

\* A handler that moves on keeps the streams typed.
LEMMA HandlerMoves ==
    ASSUME StreamTypes, NEW c \in Conn, NEW h \in Handler,
           h.phase # "idle" => h.id \in DOMAIN owner /\ h.from \in Position,
           conn' = [conn EXCEPT ![c] = h],
           DOMAIN owner \subseteq DOMAIN owner',
           pipe' \in [Conn -> Seq(Frame)]
    PROVE  StreamTypes'
<1>1. conn' \in [Conn -> Handler]
  BY DEF StreamTypes
<1>2. \A d \in Conn : conn'[d] = IF d = c THEN h ELSE conn[d]
  BY DEF StreamTypes
<1> QED
  BY <1>1, <1>2 DEF StreamTypes

\* A slot nobody uses is typed.
LEMMA IdleTyped == idle \in Handler /\ idle.phase = "idle"
BY DEF idle, Handler, Phases

\* So are the frames of a stream when one is sent, and when one is read.
LEMMA FramesTyped ==
    ASSUME NEW q \in [Conn -> Seq(Frame)], NEW c \in Conn, NEW f \in Frame
    PROVE  /\ [q EXCEPT ![c] = Append(@, f)] \in [Conn -> Seq(Frame)]
           /\ [q EXCEPT ![c] = <<>>] \in [Conn -> Seq(Frame)]
           /\ q[c] # <<>> => /\ Head(q[c]) \in Frame
                             /\ [q EXCEPT ![c] = Tail(@)] \in [Conn -> Seq(Frame)]
<1>1. Append(q[c], f) \in Seq(Frame) /\ <<>> \in Seq(Frame)
  OBVIOUS
<1>2. q[c] # <<>> => Head(q[c]) \in Frame /\ Tail(q[c]) \in Seq(Frame)
  OBVIOUS
<1> QED
  BY <1>1, <1>2

\* So is what a follower that gives its connection up leaves behind.
LEMMA AbandonTyped ==
    ASSUME StreamTypes, NEW n \in Node, abandon(n),
           DOMAIN owner \subseteq DOMAIN owner'
    PROVE  StreamTypes'
<1>1. CASE reading[n] \in Conn /\ conn[reading[n]].phase = "drain"
  <2>1. conn' = [conn EXCEPT ![reading[n]] = idle]
    BY <1>1 DEF abandon
  <2>2. pipe' \in [Conn -> Seq(Frame)]
    <3>1. pipe' = [pipe EXCEPT ![reading[n]] = <<>>]
      BY <1>1 DEF abandon
    <3>2. <<>> \in Seq(Frame) /\ pipe \in [Conn -> Seq(Frame)]
      BY DEF StreamTypes
    <3>3. \A c \in Conn : [pipe EXCEPT ![c] = <<>>] \in [Conn -> Seq(Frame)]
      BY <3>2
    <3> QED
      BY <1>1, <3>1, <3>3
  <2> QED
    BY <1>1, <2>1, <2>2, IdleTyped, HandlerMoves
<1>2. CASE ~(reading[n] \in Conn /\ conn[reading[n]].phase = "drain")
  BY <1>2 DEF abandon, streamVars, StreamTypes
<1> QED
  BY <1>1, <1>2

\* So is what each step leads to.
LEMMA TypeStep == TypeOK /\ [Next]_vars => TypeOK'
<1> SUFFICES ASSUME TypeOK, [Next]_vars PROVE TypeOK'
  OBVIOUS
<1> USE SemiSyncAssumption
<1>t. LeaderTypes /\ StreamTypes /\ NodeTypes /\ TellTypes /\ WriteTypes
  BY DEF TypeOK
<1>h. Here \in Position /\ Zero \in Position
  BY <1>t DEF Here, Zero, Position, LeaderTypes
<1> USE <1>t
<1>1. ASSUME NEW w \in Write, WriteStep(w) PROVE TypeOK'
  <2>0. reached(want[w]) \subseteq DOMAIN owner
    BY DEF reached, LeaderTypes
  <2>1. CASE Store(w)
    <3>1. LeaderTypes'
      BY <2>1 DEF Store, LeaderTypes, leaderVars, streamVars, nodeVars,
         tellVars, writeVars
    <3>2. WriteTypes'
      BY <2>1 DEF Store, WriteTypes, leaderVars, streamVars, nodeVars,
         tellVars, writeVars
    <3>3. StreamTypes' /\ NodeTypes' /\ TellTypes'
      BY <2>1 DEF Store, StreamTypes, NodeTypes, TellTypes, leaderVars,
         streamVars, nodeVars, tellVars, writeVars
    <3> QED
      BY <3>1, <3>2, <3>3 DEF TypeOK
  <2>2. CASE AskPosition(w)
    <3>1. WriteTypes'
      BY <2>2, <1>h DEF AskPosition, WriteTypes, leaderVars, streamVars,
         nodeVars, tellVars, writeVars
    <3>2. LeaderTypes' /\ StreamTypes' /\ NodeTypes' /\ TellTypes'
      BY <2>2 DEF AskPosition, LeaderTypes, StreamTypes, NodeTypes, TellTypes,
         leaderVars, streamVars, nodeVars, tellVars, writeVars
    <3> QED
      BY <3>1, <3>2 DEF TypeOK
  <2>3. CASE Count(w)
    <3>1. WriteTypes'
      BY <2>3, <2>0 DEF Count, Answered, WriteTypes, leaderVars, streamVars,
         nodeVars, tellVars, writeVars
    <3>2. LeaderTypes' /\ StreamTypes' /\ NodeTypes' /\ TellTypes'
      BY <2>3 DEF Count, LeaderTypes, StreamTypes, NodeTypes, TellTypes,
         leaderVars, streamVars, nodeVars, tellVars, writeVars
    <3> QED
      BY <3>1, <3>2 DEF TypeOK
  <2>4. CASE TimeOut(w)
    <3>1. WriteTypes'
      BY <2>4, <2>0 DEF TimeOut, Answered, WriteTypes, leaderVars, streamVars,
         nodeVars, tellVars, writeVars
    <3>2. LeaderTypes' /\ StreamTypes' /\ NodeTypes' /\ TellTypes'
      BY <2>4 DEF TimeOut, LeaderTypes, StreamTypes, NodeTypes, TellTypes,
         leaderVars, streamVars, nodeVars, tellVars, writeVars
    <3> QED
      BY <3>1, <3>2 DEF TypeOK
  <2> QED
    BY <1>1, <2>1, <2>2, <2>3, <2>4 DEF WriteStep
<1>2. ASSUME NEW c \in Conn, HandlerStep(c) PROVE TypeOK'
  <2>1. CASE Accept(c)
    <3>1. LeaderTypes'
      BY <2>1 DEF Accept, LeaderTypes, leaderVars, streamVars, nodeVars,
         tellVars, writeVars
    <3>2. StreamTypes'
      <4> DEFINE from == conn[c].from
                 h == [conn[c] EXCEPT !.phase = "accepted",
                          !.from = IF from = Zero THEN Here ELSE from,
                          !.snap = IF from = Zero THEN Here ELSE None]
      <4>1. pipe' \in [Conn -> Seq(Frame)] /\ owner' = owner
        BY <2>1 DEF Accept, StreamTypes
      <4>2. conn[c] \in Handler /\ conn[c].id \in DOMAIN owner /\ from \in Position
        BY <2>1 DEF Accept, StreamTypes
      <4>3. h \in Handler /\ h.id \in DOMAIN owner /\ h.from \in Position
        BY <4>2, <1>h DEF Handler, Phases
      <4>4. CASE conn' = [conn EXCEPT ![c] = idle]
        BY <4>1, <4>4, IdleTyped, HandlerMoves
      <4>5. CASE conn' = [conn EXCEPT ![c] = h]
        <5> HIDE DEF h
        <5> QED
          BY <4>1, <4>3, <4>5, HandlerMoves
      <4> QED
        BY <2>1, <4>4, <4>5 DEF Accept
    <3>3. NodeTypes'
      BY <2>1 DEF Accept, NodeTypes, leaderVars, streamVars, nodeVars,
         tellVars, writeVars
    <3>4. TellTypes' /\ WriteTypes'
      BY <2>1 DEF Accept, TellTypes, WriteTypes, leaderVars, streamVars,
         nodeVars, tellVars, writeVars
    <3> QED
      BY <3>1, <3>2, <3>3, <3>4 DEF TypeOK
  <2>2. CASE Attach(c)
    <3>1. LeaderTypes'
      BY <2>2 DEF Attach, attach, StreamTypes, LeaderTypes, leaderVars,
         streamVars, nodeVars, tellVars, writeVars
    <3>2. StreamTypes'
      <4> DEFINE h == [conn[c] EXCEPT !.phase = IF conn[c].snap # None THEN "send" ELSE "follow"]
      <4>1. owner' = owner /\ conn' = [conn EXCEPT ![c] = h]
        BY <2>2 DEF Attach, nodeVars
      <4>2. conn[c] \in Handler /\ conn[c].id \in DOMAIN owner /\ conn[c].from \in Position
        BY <2>2 DEF Attach, StreamTypes
      <4>3. pipe' \in [Conn -> Seq(Frame)]
        BY <2>2 DEF Attach, StreamTypes
      <4>4. h \in Handler /\ h.id \in DOMAIN owner /\ h.from \in Position
        BY <4>2 DEF Handler, Phases
      <4> HIDE DEF h
      <4> QED
        BY <4>1, <4>3, <4>4, HandlerMoves
    <3>3. WriteTypes'
      BY <2>2 DEF Attach, attach, woken, WriteTypes, leaderVars, streamVars,
         nodeVars, tellVars, writeVars
    <3>4. NodeTypes' /\ TellTypes'
      BY <2>2 DEF Attach, NodeTypes, TellTypes, leaderVars, streamVars,
         nodeVars, tellVars, writeVars
    <3> QED
      BY <3>1, <3>2, <3>3, <3>4 DEF TypeOK
  <2>3. CASE SendSnapshot(c)
    <3>1. StreamTypes'
      <4> DEFINE h == [conn[c] EXCEPT !.phase = "stream"]
      <4>1. owner' = owner /\ conn' = [conn EXCEPT ![c] = h]
        BY <2>3 DEF SendSnapshot, nodeVars
      <4>2. conn[c] \in Handler /\ conn[c].id \in DOMAIN owner /\ conn[c].from \in Position
        BY <2>3 DEF SendSnapshot, StreamTypes
      <4>3. pipe' \in [Conn -> Seq(Frame)]
        <5> DEFINE f == [kind |-> "S", base |-> Zero, at |-> conn[c].from]
        <5>1. f \in Frame
          BY <4>2, <1>h DEF Frame
        <5>2. pipe' = [pipe EXCEPT ![c] = Append(@, f)]
          BY <2>3 DEF SendSnapshot
        <5>3. pipe \in [Conn -> Seq(Frame)]
          BY DEF StreamTypes
        <5> HIDE DEF f
        <5> QED
          BY <5>1, <5>2, <5>3, FramesTyped
      <4>4. h \in Handler /\ h.id \in DOMAIN owner /\ h.from \in Position
        BY <4>2 DEF Handler, Phases
      <4> HIDE DEF h
      <4> QED
        BY <4>1, <4>3, <4>4, HandlerMoves
    <3>2. LeaderTypes' /\ NodeTypes' /\ TellTypes' /\ WriteTypes'
      BY <2>3 DEF SendSnapshot, LeaderTypes, NodeTypes, TellTypes, WriteTypes,
         leaderVars, streamVars, nodeVars, tellVars, writeVars
    <3> QED
      BY <3>1, <3>2 DEF TypeOK
  <2>4. CASE FollowFrom(c)
    <3>1. StreamTypes'
      <4> DEFINE h == [conn[c] EXCEPT !.phase = "stream"]
      <4>1. owner' = owner /\ conn' = [conn EXCEPT ![c] = h]
        BY <2>4 DEF FollowFrom, nodeVars
      <4>2. conn[c] \in Handler /\ conn[c].id \in DOMAIN owner /\ conn[c].from \in Position
        BY <2>4 DEF FollowFrom, StreamTypes
      <4>3. pipe' \in [Conn -> Seq(Frame)]
        BY <2>4 DEF FollowFrom, StreamTypes
      <4>4. h \in Handler /\ h.id \in DOMAIN owner /\ h.from \in Position
        BY <4>2 DEF Handler, Phases
      <4> HIDE DEF h
      <4> QED
        BY <4>1, <4>3, <4>4, HandlerMoves
    <3>2. LeaderTypes' /\ NodeTypes' /\ TellTypes' /\ WriteTypes'
      BY <2>4 DEF FollowFrom, LeaderTypes, NodeTypes, TellTypes, WriteTypes,
         leaderVars, streamVars, nodeVars, tellVars, writeVars
    <3> QED
      BY <3>1, <3>2 DEF TypeOK
  <2>5. CASE Diverged(c)
    <3>1. StreamTypes'
      <4> DEFINE e == [conn[c] EXCEPT !.phase = "ending"]
                 h == [conn[c] EXCEPT !.phase = "send", !.from = Here, !.snap = Here]
      <4>1. pipe' \in [Conn -> Seq(Frame)] /\ owner' = owner
        BY <2>5 DEF Diverged, StreamTypes, nodeVars
      <4>2. conn[c] \in Handler /\ conn[c].id \in DOMAIN owner /\ conn[c].from \in Position
        BY <2>5 DEF Diverged, StreamTypes
      <4>3. /\ e \in Handler /\ e.id \in DOMAIN owner /\ e.from \in Position
            /\ h \in Handler /\ h.id \in DOMAIN owner /\ h.from \in Position
        BY <4>2, <1>h DEF Handler, Phases
      <4>4. conn' = [conn EXCEPT ![c] = e] \/ conn' = [conn EXCEPT ![c] = h]
        BY <2>5 DEF Diverged
      <4> HIDE DEF e, h
      <4> QED
        BY <4>1, <4>3, <4>4, HandlerMoves
    <3>2. LeaderTypes' /\ NodeTypes' /\ TellTypes' /\ WriteTypes'
      BY <2>5 DEF Diverged, LeaderTypes, NodeTypes, TellTypes, WriteTypes,
         leaderVars, streamVars, nodeVars, tellVars, writeVars
    <3> QED
      BY <3>1, <3>2 DEF TypeOK
  <2>6. CASE SendBatch(c)
    <3>1. StreamTypes'
      <4>1. PICK s \in conn[c].from.seq + 1 .. seq :
               /\ pipe' = [pipe EXCEPT ![c] = Append(@, [kind |-> "B",
                               at |-> [term |-> Term, seq |-> s],
                               base |-> conn[c].from])]
               /\ conn' = [conn EXCEPT ![c].from = [term |-> Term, seq |-> s]]
        BY <2>6 DEF SendBatch
      <4> DEFINE next == [term |-> Term, seq |-> s]
                 f == [kind |-> "B", at |-> next, base |-> conn[c].from]
                 h == [conn[c] EXCEPT !.from = next]
      <4>2. conn[c] \in Handler /\ conn[c].id \in DOMAIN owner /\ conn[c].from \in Position
        BY <2>6 DEF SendBatch, StreamTypes
      <4>3. next \in Position
        BY <4>2 DEF Position, LeaderTypes
      <4>4. owner' = owner /\ conn' = [conn EXCEPT ![c] = h]
        BY <2>6, <4>1 DEF SendBatch, nodeVars
      <4>5. f \in Frame
        BY <4>2, <4>3 DEF Frame
      <4>6. h \in Handler /\ h.id \in DOMAIN owner /\ h.from \in Position
        BY <4>2, <4>3 DEF Handler
      <4>7. pipe \in [Conn -> Seq(Frame)] /\ pipe' = [pipe EXCEPT ![c] = Append(@, f)]
        BY <4>1 DEF StreamTypes
      <4> HIDE DEF next, f, h
      <4>8. pipe' \in [Conn -> Seq(Frame)]
        BY <4>5, <4>7, FramesTyped
      <4> QED
        BY <4>4, <4>6, <4>8, HandlerMoves
    <3>2. LeaderTypes' /\ NodeTypes' /\ TellTypes' /\ WriteTypes'
      BY <2>6 DEF SendBatch, LeaderTypes, NodeTypes, TellTypes, WriteTypes,
         leaderVars, streamVars, nodeVars, tellVars, writeVars
    <3> QED
      BY <3>1, <3>2 DEF TypeOK
  <2>7. CASE End(c)
    <3>1. StreamTypes'
      <4> DEFINE h == [conn[c] EXCEPT !.phase = "ending"]
      <4>1. owner' = owner /\ conn' = [conn EXCEPT ![c] = h]
        BY <2>7 DEF End, nodeVars
      <4>2. conn[c] \in Handler /\ conn[c].id \in DOMAIN owner /\ conn[c].from \in Position
        BY <2>7 DEF End, StreamTypes
      <4>3. pipe' \in [Conn -> Seq(Frame)]
        BY <2>7 DEF End, StreamTypes
      <4>4. h \in Handler /\ h.id \in DOMAIN owner /\ h.from \in Position
        BY <4>2 DEF Handler, Phases
      <4> HIDE DEF h
      <4> QED
        BY <4>1, <4>3, <4>4, HandlerMoves
    <3>2. LeaderTypes' /\ NodeTypes' /\ TellTypes' /\ WriteTypes'
      BY <2>7 DEF End, LeaderTypes, NodeTypes, TellTypes, WriteTypes,
         leaderVars, streamVars, nodeVars, tellVars, writeVars
    <3> QED
      BY <3>1, <3>2 DEF TypeOK
  <2>8. CASE Detach(c)
    <3>1. LeaderTypes'
      BY <2>8 DEF Detach, detach, LeaderTypes, leaderVars, streamVars,
         nodeVars, tellVars, writeVars
    <3>2. StreamTypes'
      <4> DEFINE h == [conn[c] EXCEPT !.phase = "drain"]
      <4>1. pipe' \in [Conn -> Seq(Frame)] /\ owner' = owner
        <5>1. pipe \in [Conn -> Seq(Frame)] /\ <<>> \in Seq(Frame)
          BY DEF StreamTypes
        <5>2. pipe' = pipe \/ pipe' = [pipe EXCEPT ![c] = <<>>]
          BY <2>8 DEF Detach
        <5> QED
          BY <2>8, <5>1, <5>2 DEF Detach, nodeVars
      <4>2. conn[c] \in Handler /\ conn[c].id \in DOMAIN owner /\ conn[c].from \in Position
        BY <2>8 DEF Detach, StreamTypes
      <4>3. h \in Handler /\ h.id \in DOMAIN owner /\ h.from \in Position
        BY <4>2 DEF Handler, Phases
      <4>4. conn' = [conn EXCEPT ![c] = idle] \/ conn' = [conn EXCEPT ![c] = h]
        BY <2>8 DEF Detach
      <4> HIDE DEF h
      <4> QED
        BY <4>1, <4>3, <4>4, IdleTyped, HandlerMoves
    <3>3. WriteTypes'
      BY <2>8 DEF Detach, detach, woken, WriteTypes, leaderVars, streamVars,
         nodeVars, tellVars, writeVars
    <3>4. NodeTypes' /\ TellTypes'
      BY <2>8 DEF Detach, NodeTypes, TellTypes, leaderVars, streamVars,
         nodeVars, tellVars, writeVars
    <3> QED
      BY <3>1, <3>2, <3>3, <3>4 DEF TypeOK
  <2> QED
    BY <1>2, <2>1, <2>2, <2>3, <2>4, <2>5, <2>6, <2>7, <2>8 DEF HandlerStep
<1>3. ASSUME NEW n \in Node, FollowerStep(n) PROVE TypeOK'
  <2>1. CASE Dial(n)
    <3>1. StreamTypes'
      BY <2>1 DEF Dial, NodeTypes, Handler, Phases, StreamTypes, leaderVars,
         streamVars, nodeVars, tellVars, writeVars
    <3>2. NodeTypes'
      BY <2>1 DEF Dial, NodeTypes, leaderVars, streamVars, nodeVars, tellVars,
         writeVars
    <3>3. LeaderTypes' /\ TellTypes' /\ WriteTypes'
      BY <2>1 DEF Dial, LeaderTypes, TellTypes, WriteTypes, leaderVars,
         streamVars, nodeVars, tellVars, writeVars
    <3> QED
      BY <3>1, <3>2, <3>3 DEF TypeOK
  <2>2. CASE ReceiveBatch(n)
    <3>0. Head(pipe[reading[n]]) \in Frame /\ Head(pipe[reading[n]]).at \in Position
      <4>1. pipe[reading[n]] \in Seq(Frame) /\ pipe[reading[n]] # <<>>
        BY <2>2 DEF ReceiveBatch, StreamTypes
      <4>2. Head(pipe[reading[n]]) \in Frame
        BY <4>1
      <4> QED
        BY <4>2 DEF Frame
    <3>1. StreamTypes'
      <4>1. /\ reading[n] \in Conn
            /\ pipe[reading[n]] # <<>>
            /\ pipe' = [pipe EXCEPT ![reading[n]] = Tail(@)]
            /\ UNCHANGED <<conn, owner>>
        BY <2>2 DEF ReceiveBatch
      <4>2. pipe \in [Conn -> Seq(Frame)]
        BY DEF StreamTypes
      <4>3. Tail(pipe[reading[n]]) \in Seq(Frame)
        BY <4>1, <4>2
      <4>4. pipe' \in [Conn -> Seq(Frame)]
        BY <4>1, <4>2, <4>3
      <4> QED
        BY <4>1, <4>4 DEF StreamTypes
    <3>2. NodeTypes'
      BY <2>2, <3>0, LaterReaches DEF ReceiveBatch, NodeTypes,
         leaderVars, streamVars, nodeVars, tellVars, writeVars
    <3>3. TellTypes'
      BY <2>2, <3>0 DEF ReceiveBatch, tell, TellTypes,
         leaderVars, streamVars, nodeVars, tellVars, writeVars
    <3>4. LeaderTypes' /\ WriteTypes'
      BY <2>2 DEF ReceiveBatch, LeaderTypes, WriteTypes, leaderVars,
         streamVars, nodeVars, tellVars, writeVars
    <3> QED
      BY <3>1, <3>2, <3>3, <3>4 DEF TypeOK
  <2>3. CASE TakeSnapshot(n)
    <3>0. Head(pipe[reading[n]]) \in Frame /\ Head(pipe[reading[n]]).at \in Position
      <4>1. pipe[reading[n]] \in Seq(Frame) /\ pipe[reading[n]] # <<>>
        BY <2>3 DEF TakeSnapshot, StreamTypes
      <4>2. Head(pipe[reading[n]]) \in Frame
        BY <4>1
      <4> QED
        BY <4>2 DEF Frame
    <3>1. StreamTypes'
      <4>1. /\ reading[n] \in Conn
            /\ pipe[reading[n]] # <<>>
            /\ pipe' = [pipe EXCEPT ![reading[n]] = Tail(@)]
            /\ UNCHANGED <<conn, owner>>
        BY <2>3 DEF TakeSnapshot
      <4>2. pipe \in [Conn -> Seq(Frame)]
        BY DEF StreamTypes
      <4>3. Tail(pipe[reading[n]]) \in Seq(Frame)
        BY <4>1, <4>2
      <4>4. pipe' \in [Conn -> Seq(Frame)]
        BY <4>1, <4>2, <4>3
      <4> QED
        BY <4>1, <4>4 DEF StreamTypes
    <3>2. NodeTypes'
      BY <2>3, <3>0, <1>h DEF TakeSnapshot, NodeTypes,
         leaderVars, streamVars, nodeVars, tellVars, writeVars
    <3>3. LeaderTypes' /\ TellTypes' /\ WriteTypes'
      BY <2>3 DEF TakeSnapshot, LeaderTypes, TellTypes, WriteTypes, leaderVars,
         streamVars, nodeVars, tellVars, writeVars
    <3> QED
      BY <3>1, <3>2, <3>3 DEF TypeOK
  <2>4. CASE TookSnapshot(n)
    <3>1. NodeTypes'
      BY <2>4, LaterReaches DEF TookSnapshot, NodeTypes, leaderVars,
         streamVars, nodeVars, tellVars, writeVars
    <3>2. TellTypes'
      BY <2>4 DEF TookSnapshot, tell, NodeTypes, TellTypes, leaderVars,
         streamVars, nodeVars, tellVars, writeVars
    <3>3. LeaderTypes' /\ StreamTypes' /\ WriteTypes'
      BY <2>4 DEF TookSnapshot, LeaderTypes, StreamTypes, WriteTypes,
         leaderVars, streamVars, nodeVars, tellVars, writeVars
    <3> QED
      BY <3>1, <3>2, <3>3 DEF TypeOK
  <2>5. CASE HangUp(n)
    <3>1. StreamTypes'
      BY <2>5 DEF HangUp, idle, Handler, Phases, StreamTypes, leaderVars,
         streamVars, nodeVars, tellVars, writeVars
    <3>2. NodeTypes'
      BY <2>5 DEF HangUp, NodeTypes, leaderVars, streamVars, nodeVars,
         tellVars, writeVars
    <3>3. LeaderTypes' /\ TellTypes' /\ WriteTypes'
      BY <2>5 DEF HangUp, LeaderTypes, TellTypes, WriteTypes, leaderVars,
         streamVars, nodeVars, tellVars, writeVars
    <3> QED
      BY <3>1, <3>2, <3>3 DEF TypeOK
  <2>6. CASE PostAck(n)
    <3>1. TellTypes'
      BY <2>6 DEF PostAck, Post, NodeTypes, TellTypes, leaderVars, streamVars,
         nodeVars, tellVars, writeVars
    <3>2. LeaderTypes' /\ StreamTypes' /\ NodeTypes' /\ WriteTypes'
      BY <2>6 DEF PostAck, LeaderTypes, StreamTypes, NodeTypes, WriteTypes,
         leaderVars, streamVars, nodeVars, tellVars, writeVars
    <3> QED
      BY <3>1, <3>2 DEF TypeOK
  <2> QED
    BY <1>3, <2>1, <2>2, <2>3, <2>4, <2>5, <2>6 DEF FollowerStep
<1>4. ASSUME NEW n \in Node, Fault(n) PROVE TypeOK'
  <2>1. CASE Drop(n)
    <3>1. LeaderTypes'
      BY <2>1 DEF Drop, LeaderTypes, leaderVars, streamVars, nodeVars,
         tellVars, writeVars
    <3>2. StreamTypes'
      <4>1. DOMAIN owner \subseteq DOMAIN owner' /\ abandon(n)
        BY <2>1 DEF Drop, NodeTypes
      <4> QED
        BY <4>1, AbandonTyped
    <3>3. NodeTypes'
      BY <2>1 DEF Drop, NodeTypes, leaderVars, streamVars, nodeVars, tellVars,
         writeVars
    <3>4. TellTypes' /\ WriteTypes'
      BY <2>1 DEF Drop, TellTypes, WriteTypes, leaderVars, streamVars,
         nodeVars, tellVars, writeVars
    <3> QED
      BY <3>1, <3>2, <3>3, <3>4 DEF TypeOK
  <2>2. CASE PostFails(n)
    <3>1. LeaderTypes'
      BY <2>2 DEF PostFails, LeaderTypes, leaderVars, streamVars, nodeVars,
         tellVars, writeVars
    <3>2. TellTypes'
      BY <2>2 DEF PostFails, Post, TellTypes, leaderVars, streamVars, nodeVars,
         tellVars, writeVars
    <3>3. StreamTypes' /\ NodeTypes' /\ WriteTypes'
      BY <2>2 DEF PostFails, StreamTypes, NodeTypes, WriteTypes, leaderVars,
         streamVars, nodeVars, tellVars, writeVars
    <3> QED
      BY <3>1, <3>2, <3>3 DEF TypeOK
  <2>3. CASE Restart(n)
    <3>1. LeaderTypes'
      BY <2>3 DEF Restart, NodeTypes, LeaderTypes, leaderVars, streamVars,
         nodeVars, tellVars, writeVars
    <3>2. StreamTypes'
      <4>1. DOMAIN owner \subseteq DOMAIN owner' /\ abandon(n)
        BY <2>3 DEF Restart, NodeTypes
      <4> QED
        BY <4>1, AbandonTyped
    <3>3. NodeTypes'
      BY <2>3 DEF Restart, NodeTypes, leaderVars, streamVars, nodeVars,
         tellVars, writeVars
    <3>4. TellTypes'
      BY <2>3 DEF Restart, TellTypes, leaderVars, streamVars, nodeVars,
         tellVars, writeVars
    <3>5. WriteTypes'
      BY <2>3 DEF Restart, WriteTypes, leaderVars, streamVars, nodeVars,
         tellVars, writeVars
    <3> QED
      BY <3>1, <3>2, <3>3, <3>4, <3>5 DEF TypeOK
  <2> QED
    BY <1>4, <2>1, <2>2, <2>3 DEF Fault
<1>5. ASSUME NEW p \in posts, Acknowledge(p) PROVE TypeOK'
  <2>1. LeaderTypes'
    BY <1>5 DEF Acknowledge, ack, TellTypes, Post, LeaderTypes, leaderVars,
       streamVars, nodeVars, tellVars, writeVars
  <2>2. TellTypes'
    BY <1>5 DEF Acknowledge, Post, TellTypes, leaderVars, streamVars, nodeVars,
       tellVars, writeVars
  <2>3. WriteTypes'
    BY <1>5 DEF Acknowledge, ack, woken, WriteTypes, leaderVars, streamVars,
       nodeVars, tellVars, writeVars
  <2>4. StreamTypes' /\ NodeTypes'
    BY <1>5 DEF Acknowledge, StreamTypes, NodeTypes, leaderVars, streamVars,
       nodeVars, tellVars, writeVars
  <2> QED
    BY <2>1, <2>2, <2>3, <2>4 DEF TypeOK
<1>6. CASE CloseStreams
  <2>1. LeaderTypes'
    BY <1>6 DEF CloseStreams, LeaderTypes, leaderVars, streamVars, nodeVars,
       tellVars, writeVars
  <2>2. StreamTypes' /\ NodeTypes' /\ TellTypes' /\ WriteTypes'
    BY <1>6 DEF CloseStreams, StreamTypes, NodeTypes, TellTypes, WriteTypes,
       leaderVars, streamVars, nodeVars, tellVars, writeVars
  <2> QED
    BY <2>1, <2>2 DEF TypeOK
<1>7. CASE UNCHANGED vars
  BY <1>7 DEF vars, TypeOK, LeaderTypes, StreamTypes, NodeTypes, TellTypes, WriteTypes,
     leaderVars, streamVars, nodeVars, tellVars, writeVars
<1> QED
  BY <1>1, <1>2, <1>3, <1>4, <1>5, <1>6, <1>7 DEF Next

\* Every variable of the leader, of its streams and of its followers keeps its
\* type, whatever is lost, restarted or reordered (TypeOK).
THEOREM Typed == Spec => []TypeOK
BY TypeInit, TypeStep, PTL DEF Spec

(***************************************************************************)
(* What a step may do.                                                     *)
(***************************************************************************)

\* A store's peak only grows, and an id never changes hands.
PeaksGrow ==
    /\ \A n \in Node : reaches(peak'[n], peak[n])
    /\ \A i \in DOMAIN owner : i \in DOMAIN owner' /\ owner'[i] = owner[i]

\* No step takes a record back from a peak, or an id from its node.
LEMMA PeakStep == TypeOK /\ [Next]_vars => PeaksGrow
<1> SUFFICES ASSUME TypeOK, [Next]_vars PROVE PeaksGrow
  OBVIOUS
<1> USE SemiSyncAssumption
<1>t. NodeTypes /\ StreamTypes
  BY DEF TypeOK
<1>1. CASE UNCHANGED <<peak, owner>>
  BY <1>1, <1>t, ReachesSelf DEF PeaksGrow, NodeTypes
<1>2. ASSUME NEW n \in Node, ReceiveBatch(n) \/ TookSnapshot(n) PROVE PeaksGrow
  <2>1. PICK pos \in Position : peak' = [peak EXCEPT ![n] = Later(@, pos)]
    <3>1. CASE ReceiveBatch(n)
      <4>1. pipe[reading[n]] \in Seq(Frame) /\ pipe[reading[n]] # <<>>
        BY <3>1, <1>t DEF ReceiveBatch, StreamTypes
      <4>2. Head(pipe[reading[n]]) \in Frame
        BY <4>1
      <4>3. Head(pipe[reading[n]]).at \in Position
        BY <4>2 DEF Frame
      <4> QED
        BY <3>1, <4>3 DEF ReceiveBatch
    <3>2. CASE TookSnapshot(n)
      BY <3>2, <1>t DEF TookSnapshot, NodeTypes
    <3> QED
      BY <1>2, <3>1, <3>2
  <2>2. owner' = owner
    BY <1>2 DEF ReceiveBatch, TookSnapshot
  <2>3. \A m \in Node : reaches(peak'[m], peak[m])
    BY <2>1, <1>t, ReachesSelf, LaterReaches DEF NodeTypes
  <2> QED
    BY <2>2, <2>3 DEF PeaksGrow
<1>3. ASSUME NEW n \in Node, Restart(n) PROVE PeaksGrow
  <2>1. peak' = peak
    BY <1>3 DEF Restart
  <2>2. PICK i \in Id \ DOMAIN owner :
           owner' = [j \in DOMAIN owner \cup {i} |-> IF j = i THEN n ELSE owner[j]]
    BY <1>3 DEF Restart
  <2> QED
    BY <2>1, <2>2, <1>t, ReachesSelf DEF PeaksGrow, NodeTypes
<1>4. [Next]_vars => \/ UNCHANGED <<peak, owner>>
                     \/ \E n \in Node : ReceiveBatch(n) \/ TookSnapshot(n) \/ Restart(n)
  <2>1. ASSUME NEW w \in Write, WriteStep(w) PROVE UNCHANGED <<peak, owner>>
    BY <2>1 DEF WriteStep, Store, AskPosition, Count, TimeOut, nodeVars
  <2>2. ASSUME NEW c \in Conn, HandlerStep(c) PROVE UNCHANGED <<peak, owner>>
    BY <2>2 DEF HandlerStep, Accept, Attach, SendSnapshot, FollowFrom,
       Diverged, SendBatch, End, Detach, nodeVars
  <2>3. ASSUME NEW n \in Node, FollowerStep(n)
        PROVE  UNCHANGED <<peak, owner>> \/ ReceiveBatch(n) \/ TookSnapshot(n)
    BY <2>3 DEF FollowerStep, Dial, TakeSnapshot, HangUp, PostAck, nodeVars
  <2>4. ASSUME NEW n \in Node, Fault(n)
        PROVE  UNCHANGED <<peak, owner>> \/ Restart(n)
    BY <2>4 DEF Fault, Drop, PostFails, nodeVars
  <2>5. (\E p \in posts : Acknowledge(p)) \/ CloseStreams \/ UNCHANGED vars
           => UNCHANGED <<peak, owner>>
    BY DEF Acknowledge, CloseStreams, vars, nodeVars
  <2> QED
    BY <2>1, <2>2, <2>3, <2>4, <2>5 DEF Next
<1> QED
  BY <1>1, <1>2, <1>3, <1>4

\* What one step may make of handler d: nothing; over, once its follower is out
\* of the registry; asked for, by a follower, from what it has applied;
\* accepted, with a snapshot if there is nothing to carry on from; attached;
\* or on with a stream that stays attached.
HandlerMay(d) ==
    \/ conn'[d] = conn[d]
    \/ /\ conn'[d].phase \in {"idle", "drain"}
       /\ conn[d].phase \in Attached => conn[d].id \notin DOMAIN at'
    \/ /\ conn[d].phase = "idle" /\ conn'[d].phase = "asked"
       /\ conn'[d].snap = None
       /\ \E n \in Node : conn'[d].id = name[n] /\ conn'[d].from = applied[n]
    \/ /\ conn[d].phase = "asked" /\ conn'[d].phase = "accepted"
       /\ conn'[d].id = conn[d].id
       /\ \/ conn'[d].from = Here /\ conn'[d].snap = Here
          \/ conn'[d].from = conn[d].from /\ conn'[d].snap = None
    \/ /\ conn[d].phase = "accepted"
       /\ conn'[d].phase = IF conn[d].snap # None THEN "send" ELSE "follow"
       /\ conn'[d].id = conn[d].id /\ conn'[d].snap = conn[d].snap
    \/ /\ conn[d].phase \in Attached /\ conn'[d].phase \in {"send", "stream", "ending"}
       /\ conn'[d].id = conn[d].id
       /\ conn'[d].snap = conn[d].snap \/ conn[d].phase = "follow"

\* No step does more to a handler than that.
LEMMA HandlerMove == TypeOK /\ [Next]_vars => \A d \in Conn : HandlerMay(d)
<1> SUFFICES ASSUME TypeOK, [Next]_vars, NEW d \in Conn PROVE HandlerMay(d)
  OBVIOUS
<1>t. NodeTypes /\ conn \in [Conn -> Handler]
  BY DEF TypeOK, StreamTypes
<1>i. idle.phase = "idle"
  BY DEF idle
<1>1. ASSUME NEW c \in Conn, HandlerStep(c) PROVE HandlerMay(d)
  <2> USE <1>t, <1>i DEF HandlerMay, Handler, Attached
  <2>1. CASE c # d
    <3>1. conn'[d] = conn[d]
      BY <1>1, <2>1 DEF HandlerStep, Accept, Attach, SendSnapshot, FollowFrom,
         Diverged, SendBatch, End, Detach
    <3> QED
      BY <3>1
  <2>2. CASE c = d
    <3>1. CASE Accept(d)
      BY <3>1 DEF Accept
    <3>2. CASE Attach(d)
      BY <3>2 DEF Attach
    <3>3. CASE SendSnapshot(d) \/ FollowFrom(d) \/ SendBatch(d) \/ End(d)
      <4>1. /\ conn[d].phase \in Attached
            /\ conn'[d].phase \in {"send", "stream", "ending"}
            /\ conn'[d].id = conn[d].id /\ conn'[d].snap = conn[d].snap
        <5>1. CASE SendSnapshot(d) \/ FollowFrom(d)
          BY <5>1 DEF SendSnapshot, FollowFrom
        <5>2. CASE SendBatch(d)
          <6>1. PICK f : conn' = [conn EXCEPT ![d].from = f]
            BY <5>2 DEF SendBatch
          <6>2. conn[d].phase = "stream"
            BY <5>2 DEF SendBatch
          <6> QED
            BY <6>1, <6>2
        <5>3. CASE End(d)
          BY <5>3 DEF End
        <5> QED
          BY <3>3, <5>1, <5>2, <5>3
      <4> QED
        BY <4>1
    <3>4. CASE Diverged(d)
      BY <3>4 DEF Diverged
    <3>5. CASE Detach(d)
      BY <3>5 DEF Detach, detach
    <3> QED
      BY <1>1, <2>2, <3>1, <3>2, <3>3, <3>4, <3>5 DEF HandlerStep
  <2> QED
    BY <2>1, <2>2
<1>2. ASSUME NEW n \in Node, FollowerStep(n) \/ Fault(n) PROVE HandlerMay(d)
  <2> USE <1>t, <1>i DEF HandlerMay, Attached
  <2>1. CASE Dial(n)
    <3>1. PICK c \in Conn :
             /\ conn[c].phase = "idle"
             /\ conn' = [conn EXCEPT ![c] = [phase |-> "asked", id |-> name[n],
                                             from |-> applied[n], snap |-> None]]
      BY <2>1 DEF Dial
    <3> QED
      BY <3>1
  <2>2. CASE HangUp(n)
    BY <2>2 DEF HangUp
  <2>3. CASE Drop(n) \/ Restart(n)
    <3>1. abandon(n)
      BY <2>3 DEF Drop, Restart
    <3> QED
      BY <3>1 DEF abandon, streamVars
  <2>4. CASE ReceiveBatch(n) \/ TakeSnapshot(n) \/ TookSnapshot(n) \/ PostAck(n) \/ PostFails(n)
    BY <2>4 DEF ReceiveBatch, TakeSnapshot, TookSnapshot, PostAck, PostFails, streamVars
  <2> QED
    BY <1>2, <2>1, <2>2, <2>3, <2>4 DEF FollowerStep, Fault
<1>3. ASSUME NEW w \in Write, WriteStep(w) PROVE HandlerMay(d)
  BY <1>3 DEF HandlerMay, WriteStep, Store, AskPosition, Count, TimeOut, streamVars
<1>4. CASE (\E p \in posts : Acknowledge(p)) \/ CloseStreams \/ UNCHANGED vars
  BY <1>4 DEF HandlerMay, Acknowledge, CloseStreams, vars, streamVars
<1> QED
  BY <1>1, <1>2, <1>3, <1>4 DEF Next

\* What one step may make of entry i of the registry: nothing; set, by the
\* handler that attaches; or moved on, by an acknowledgement from a follower
\* that is registered.  An entry that is there is never set back.
EntryMay(i) ==
    /\ \/ i \in DOMAIN at /\ at'[i] = at[i]
       \/ \E c \in Conn : /\ conn[c].phase = "accepted" /\ conn[c].id = i
                          /\ at'[i] = conn[c].from
                          /\ conn'[c].phase \in Attached /\ conn'[c].id = i
                          /\ conn'[c].snap = conn[c].snap
       \/ \E p \in posts : i \in DOMAIN at /\ p.id = i /\ at'[i] = p.at
    /\ i \in DOMAIN at => reaches(at'[i], at[i])

\* No step does more to the registry than that; and a step that changes any
\* entry leaves no write asleep.
LEMMA EntryMove ==
    TypeOK /\ [Next]_vars => /\ \A i \in DOMAIN at' : EntryMay(i)
                             /\ at' = at \/ pc' = woken(pc)
<1> SUFFICES ASSUME TypeOK, [Next]_vars
             PROVE  /\ \A i \in DOMAIN at' : EntryMay(i)
                    /\ at' = at \/ pc' = woken(pc)
  OBVIOUS
<1>t. LeaderTypes /\ StreamTypes /\ TellTypes
  BY DEF TypeOK
<1>e. \A i \in DOMAIN at : at[i] \in Position
  BY <1>t DEF LeaderTypes
<1>1. CASE UNCHANGED at
  BY <1>1, <1>e, ReachesSelf DEF EntryMay
<1>2. ASSUME NEW c \in Conn, Attach(c), at' # at
      PROVE  /\ \A i \in DOMAIN at' : EntryMay(i)
             /\ pc' = woken(pc)
  <2>1. /\ at' = [i \in DOMAIN at \cup {conn[c].id} |->
                    IF i = conn[c].id THEN conn[c].from ELSE at[i]]
        /\ pc' = woken(pc)
        /\ conn[c].id \in DOMAIN at => ~reaches(at[conn[c].id], conn[c].from)
    BY <1>2 DEF Attach, attach
  <2>2. conn[c].phase = "accepted" /\ conn[c].from \in Position
    BY <1>2, <1>t DEF Attach, StreamTypes
  <2>3. /\ conn'[c].phase \in Attached /\ conn'[c].id = conn[c].id
        /\ conn'[c].snap = conn[c].snap
    BY <1>2, <1>t DEF Attach, StreamTypes, Handler, Attached
  <2>4. ASSUME NEW i \in DOMAIN at' PROVE EntryMay(i)
    BY <2>1, <2>2, <2>3, <1>e, ReachesSelf, ReachesTotal DEF EntryMay
  <2> QED
    BY <2>1, <2>4
<1>3. ASSUME NEW c \in Conn, Detach(c)
      PROVE  /\ \A i \in DOMAIN at' : EntryMay(i)
             /\ pc' = woken(pc)
  <2>1. at' = [i \in DOMAIN at \ {conn[c].id} |-> at[i]] /\ pc' = woken(pc)
    BY <1>3 DEF Detach, detach
  <2> QED
    BY <2>1, <1>e, ReachesSelf DEF EntryMay
<1>4. ASSUME NEW p \in posts, Acknowledge(p), at' # at
      PROVE  /\ \A i \in DOMAIN at' : EntryMay(i)
             /\ pc' = woken(pc)
  <2>1. /\ p.id \in DOMAIN at /\ ~reaches(at[p.id], p.at)
        /\ at' = [at EXCEPT ![p.id] = p.at]
        /\ pc' = woken(pc)
    BY <1>4 DEF Acknowledge, ack
  <2>2. p.at \in Position
    BY <1>t DEF TellTypes, Post
  <2> QED
    BY <2>1, <2>2, <1>e, ReachesSelf, ReachesTotal DEF EntryMay
<1>5. \/ UNCHANGED at
      \/ \E c \in Conn : Attach(c) \/ Detach(c)
      \/ \E p \in posts : Acknowledge(p)
  <2>1. ASSUME NEW w \in Write, WriteStep(w) PROVE UNCHANGED at
    BY <2>1 DEF WriteStep, Store, AskPosition, Count, TimeOut
  <2>2. ASSUME NEW c \in Conn, HandlerStep(c)
        PROVE  UNCHANGED at \/ Attach(c) \/ Detach(c)
    BY <2>2 DEF HandlerStep, Accept, SendSnapshot, FollowFrom, Diverged, SendBatch, End
  <2>3. ASSUME NEW n \in Node, FollowerStep(n) \/ Fault(n) PROVE UNCHANGED at
    BY <2>3 DEF FollowerStep, Dial, ReceiveBatch, TakeSnapshot, TookSnapshot,
       HangUp, PostAck, Fault, Drop, PostFails, Restart
  <2>4. CloseStreams \/ UNCHANGED vars => UNCHANGED at
    BY DEF CloseStreams, vars
  <2> QED
    BY <2>1, <2>2, <2>3, <2>4 DEF Next
<1> QED
  BY <1>1, <1>2, <1>3, <1>4, <1>5

(***************************************************************************)
(* Whoever is registered is served.                                        *)
(***************************************************************************)

\* The registry starts empty and an entry outlives no handler that will take it
\* out.
LEMMA ServedStep ==
    TypeOK /\ [Next]_vars /\ RegisteredIsServed => RegisteredIsServed'
<1> SUFFICES ASSUME TypeOK, [Next]_vars, RegisteredIsServed, NEW i \in DOMAIN at'
             PROVE  \E c \in Conn : conn'[c].phase \in Attached /\ conn'[c].id = i
  BY DEF RegisteredIsServed, Serving
<1>1. EntryMay(i) /\ \A d \in Conn : HandlerMay(d)
  BY EntryMove, HandlerMove
<1>2. CASE i \in DOMAIN at
  <2>1. PICK c \in Conn : conn[c].phase \in Attached /\ conn[c].id = i
    BY <1>2 DEF RegisteredIsServed, Serving
  <2> QED
    BY <1>1, <2>1 DEF HandlerMay, Attached
<1>3. CASE i \notin DOMAIN at
  BY <1>1, <1>3 DEF EntryMay
<1> QED
  BY <1>2, <1>3

\* acks.go, detach: a follower in the registry has a handler that will yet take
\* it out (RegisteredIsServed), whatever its acknowledgements do after it left.
THEOREM Served == Spec => []RegisteredIsServed
<1>1. Init => RegisteredIsServed
  BY DEF Init, RegisteredIsServed
<1> QED
  BY <1>1, ServedStep, Typed, PTL DEF Spec

\* acks.go, ack and attach: an entry that stays is never set back
\* (RegistryNeverRewinds), in whatever order posts and streams arrive.
THEOREM NeverRewinds == Spec => RegistryNeverRewinds
<1>1. TypeOK /\ [Next]_vars
         => [\A i \in DOMAIN at \cap DOMAIN at' : reaches(at'[i], at[i])]_vars
  BY EntryMove DEF EntryMay
<1> QED
  BY <1>1, Typed, PTL DEF Spec, RegistryNeverRewinds

(***************************************************************************)
(* What is registered is backed.                                           *)
(***************************************************************************)

\* An id belongs to the node that goes by it.
Owns == \A n \in Node : owner[name[n]] = n

\* No store is ahead of its own peak.
UnderPeak == \A n \in Node : reaches(peak[n], applied[n])

\* What a handler will register its follower at, or has: the position of its
\* own snapshot, or one its follower has applied.
FromIsBacked ==
    \A c \in Conn :
        /\ conn[c].phase = "asked" => reaches(peak[owner[conn[c].id]], conn[c].from)
        /\ conn[c].phase = "accepted" =>
              \/ conn[c].snap = None /\ reaches(peak[owner[conn[c].id]], conn[c].from)
              \/ conn[c].snap \in Position /\ conn[c].from = conn[c].snap
        /\ conn[c].phase = "follow" => conn[c].snap = None

\* RegistryBacked is not inductive by itself: what it says of an entry rests on
\* what the acknowledgement, or the handler, that made the entry said before.
Backed == TypeOK /\ Owns /\ UnderPeak /\ AcksAreHonest /\ FromIsBacked /\ RegistryBacked

\* None of it is lost in a step, taken one part at a time.
LEMMA OwnsStep == TypeOK /\ [Next]_vars /\ Owns => Owns'
<1> SUFFICES ASSUME TypeOK, [Next]_vars, Owns PROVE Owns'
  OBVIOUS
<1>t. NodeTypes
  BY DEF TypeOK
<1>1. CASE UNCHANGED <<name, owner>>
  BY <1>1 DEF Owns
<1>2. ASSUME NEW n \in Node, Restart(n) PROVE Owns'
  <2>1. PICK i \in Id \ DOMAIN owner :
           /\ name' = [name EXCEPT ![n] = i]
           /\ owner' = [j \in DOMAIN owner \cup {i} |-> IF j = i THEN n ELSE owner[j]]
    BY <1>2 DEF Restart
  <2> QED
    BY <2>1, <1>t DEF Owns, NodeTypes
<1>3. UNCHANGED <<name, owner>> \/ \E n \in Node : Restart(n)
  <2>1. ASSUME NEW w \in Write, WriteStep(w) PROVE UNCHANGED <<name, owner>>
    BY <2>1 DEF WriteStep, Store, AskPosition, Count, TimeOut, nodeVars
  <2>2. ASSUME NEW c \in Conn, HandlerStep(c) PROVE UNCHANGED <<name, owner>>
    BY <2>2 DEF HandlerStep, Accept, Attach, SendSnapshot, FollowFrom,
       Diverged, SendBatch, End, Detach, nodeVars
  <2>3. ASSUME NEW n \in Node, FollowerStep(n) \/ Fault(n)
        PROVE  UNCHANGED <<name, owner>> \/ Restart(n)
    BY <2>3 DEF FollowerStep, Dial, ReceiveBatch, TakeSnapshot, TookSnapshot,
       HangUp, PostAck, Fault, Drop, PostFails, nodeVars
  <2>4. (\E p \in posts : Acknowledge(p)) \/ CloseStreams \/ UNCHANGED vars
           => UNCHANGED <<name, owner>>
    BY DEF Acknowledge, CloseStreams, vars, nodeVars
  <2> QED
    BY <2>1, <2>2, <2>3, <2>4 DEF Next
<1> QED
  BY <1>1, <1>2, <1>3

\* A store moves only to a position its peak has then reached.
LEMMA UnderPeakStep == TypeOK /\ [Next]_vars /\ UnderPeak => UnderPeak'
<1> SUFFICES ASSUME TypeOK, [Next]_vars, UnderPeak PROVE UnderPeak'
  OBVIOUS
<1>t. NodeTypes /\ StreamTypes
  BY DEF TypeOK
<1>1. CASE UNCHANGED <<applied, peak>>
  BY <1>1 DEF UnderPeak
<1>2. ASSUME NEW n \in Node, NEW pos \in Position,
             applied' = [applied EXCEPT ![n] = pos],
             peak' = [peak EXCEPT ![n] = Later(@, pos)]
      PROVE  UnderPeak'
  BY <1>2, <1>t, LaterReaches DEF UnderPeak, NodeTypes
<1>3. ASSUME NEW n \in Node, ReceiveBatch(n) PROVE UnderPeak'
  <2>1. pipe[reading[n]] \in Seq(Frame) /\ pipe[reading[n]] # <<>>
    BY <1>3, <1>t DEF ReceiveBatch, StreamTypes
  <2>2. Head(pipe[reading[n]]) \in Frame
    BY <2>1
  <2>3. Head(pipe[reading[n]]).at \in Position
    BY <2>2 DEF Frame
  <2> QED
    BY <1>2, <1>3, <2>3 DEF ReceiveBatch
<1>4. ASSUME NEW n \in Node, TookSnapshot(n) PROVE UnderPeak'
  <2>1. taking[n] \in Position
    BY <1>4, <1>t DEF TookSnapshot, NodeTypes
  <2> QED
    BY <1>2, <1>4, <2>1 DEF TookSnapshot
<1>5. ASSUME NEW n \in Node, TakeSnapshot(n) PROVE UnderPeak'
  <2>1. applied' = [applied EXCEPT ![n] = Zero] /\ peak' = peak
    BY <1>5 DEF TakeSnapshot
  <2> QED
    BY <2>1, <1>t, ReachesZero DEF UnderPeak, NodeTypes
<1>6. \/ UNCHANGED <<applied, peak>>
      \/ \E n \in Node : ReceiveBatch(n) \/ TookSnapshot(n) \/ TakeSnapshot(n)
  <2>1. ASSUME NEW w \in Write, WriteStep(w) PROVE UNCHANGED <<applied, peak>>
    BY <2>1 DEF WriteStep, Store, AskPosition, Count, TimeOut, nodeVars
  <2>2. ASSUME NEW c \in Conn, HandlerStep(c) PROVE UNCHANGED <<applied, peak>>
    BY <2>2 DEF HandlerStep, Accept, Attach, SendSnapshot, FollowFrom,
       Diverged, SendBatch, End, Detach, nodeVars
  <2>3. ASSUME NEW n \in Node, FollowerStep(n) \/ Fault(n)
        PROVE  \/ UNCHANGED <<applied, peak>>
               \/ ReceiveBatch(n) \/ TookSnapshot(n) \/ TakeSnapshot(n)
    BY <2>3 DEF FollowerStep, Dial, HangUp, PostAck, Fault, Drop, PostFails,
       Restart, nodeVars
  <2>4. (\E p \in posts : Acknowledge(p)) \/ CloseStreams \/ UNCHANGED vars
           => UNCHANGED <<applied, peak>>
    BY DEF Acknowledge, CloseStreams, vars, nodeVars
  <2> QED
    BY <2>1, <2>2, <2>3, <2>4 DEF Next
<1> QED
  BY <1>1, <1>3, <1>4, <1>5, <1>6

\* A follower tells only what it has just applied, under the id it goes by; a
\* post keeps saying it after the follower has become another.
LEMMA HonestStep ==
    TypeOK /\ TypeOK' /\ [Next]_vars /\ Owns /\ AcksAreHonest => AcksAreHonest'
<1> SUFFICES ASSUME TypeOK, TypeOK', [Next]_vars, Owns, AcksAreHonest
             PROVE  AcksAreHonest'
  OBVIOUS
<1>t. NodeTypes /\ NodeTypes' /\ TellTypes /\ TellTypes' /\ StreamTypes
  BY DEF TypeOK
<1>g. PeaksGrow
  BY PeakStep
<1>1. ASSUME NEW n \in Node, latest'[n] # None,
             latest'[n] = latest[n] \/ reaches(peak'[n], latest'[n])
      PROVE  reaches(peak'[n], latest'[n])
  <2>1. CASE latest'[n] = latest[n]
    <3>1. reaches(peak[n], latest[n]) /\ reaches(peak'[n], peak[n])
      BY <1>1, <2>1, <1>g DEF AcksAreHonest, PeaksGrow
    <3>2. peak[n] \in Position /\ peak'[n] \in Position /\ latest[n] \in Position
      BY <1>1, <2>1, <1>t DEF NodeTypes, TellTypes
    <3> QED
      BY <2>1, <3>1, <3>2, ReachesTransitive
  <2> QED
    BY <1>1, <2>1
<1>2. ASSUME NEW p \in posts' \cap posts PROVE reaches(peak'[owner'[p.id]], p.at)
  <2>1. p.id \in DOMAIN owner /\ p.at \in Position
    BY <1>t DEF TellTypes, Post
  <2>2. owner[p.id] \in Node /\ owner'[p.id] = owner[p.id]
    BY <2>1, <1>t, <1>g DEF PeaksGrow, NodeTypes
  <2>3. /\ peak[owner[p.id]] \in Position /\ peak'[owner[p.id]] \in Position
        /\ reaches(peak'[owner[p.id]], peak[owner[p.id]])
    BY <2>2, <1>t, <1>g DEF PeaksGrow, NodeTypes
  <2>4. reaches(peak[owner[p.id]], p.at)
    BY DEF AcksAreHonest
  <2> QED
    BY <2>1, <2>2, <2>3, <2>4, ReachesTransitive
<1>3. ASSUME NEW n \in Node, NEW pos \in Position,
             latest' = [latest EXCEPT ![n] = pos],
             peak' = [peak EXCEPT ![n] = Later(@, pos)], posts' = posts
      PROVE  AcksAreHonest'
  <2>1. ASSUME NEW m \in Node, latest'[m] # None PROVE reaches(peak'[m], latest'[m])
    <3>1. CASE m = n
      BY <3>1, <1>3, <1>t, LaterReaches DEF NodeTypes, TellTypes
    <3>2. CASE m # n
      <4>1. latest'[m] = latest[m]
        BY <3>2, <1>3, <1>t DEF TellTypes
      <4> QED
        BY <2>1, <4>1, <1>1
    <3> QED
      BY <3>1, <3>2
  <2> QED
    BY <1>2, <1>3, <2>1 DEF AcksAreHonest
<1>4. ASSUME NEW n \in Node, ReceiveBatch(n) PROVE AcksAreHonest'
  <2>1. pipe[reading[n]] \in Seq(Frame) /\ pipe[reading[n]] # <<>>
    BY <1>4, <1>t DEF ReceiveBatch, StreamTypes
  <2>2. Head(pipe[reading[n]]) \in Frame
    BY <2>1
  <2>3. Head(pipe[reading[n]]).at \in Position
    BY <2>2 DEF Frame
  <2> QED
    BY <1>3, <1>4, <2>3 DEF ReceiveBatch, tell
<1>5. ASSUME NEW n \in Node, TookSnapshot(n) PROVE AcksAreHonest'
  <2>1. taking[n] \in Position
    BY <1>5, <1>t DEF TookSnapshot, NodeTypes
  <2> QED
    BY <1>3, <1>5, <2>1 DEF TookSnapshot, tell
<1>6. ASSUME NEW n \in Node, PostAck(n) PROVE AcksAreHonest'
  <2> DEFINE post == [id |-> name[n], at |-> latest[n]]
  <2>1. posts' = posts \cup {post} /\ UNCHANGED <<latest, peak, owner>>
    BY <1>6 DEF PostAck, nodeVars
  <2>2. reaches(peak[owner[post.id]], post.at)
    BY <1>6, <1>t DEF PostAck, Owns, AcksAreHonest, TellTypes
  <2> QED
    BY <2>1, <2>2 DEF AcksAreHonest
<1>7. ASSUME posts' \subseteq posts,
             \A n \in Node : latest'[n] \in {latest[n], None}
      PROVE  AcksAreHonest'
  BY <1>1, <1>2, <1>7 DEF AcksAreHonest
<1>8. \/ posts' \subseteq posts /\ \A n \in Node : latest'[n] \in {latest[n], None}
      \/ \E n \in Node : ReceiveBatch(n) \/ TookSnapshot(n) \/ PostAck(n)
  <2> USE <1>t DEF TellTypes
  <2>1. ASSUME NEW w \in Write, WriteStep(w) PROVE UNCHANGED <<latest, posts>>
    BY <2>1 DEF WriteStep, Store, AskPosition, Count, TimeOut, tellVars
  <2>2. ASSUME NEW c \in Conn, HandlerStep(c) PROVE UNCHANGED <<latest, posts>>
    BY <2>2 DEF HandlerStep, Accept, Attach, SendSnapshot, FollowFrom,
       Diverged, SendBatch, End, Detach, tellVars
  <2>3. ASSUME NEW n \in Node, FollowerStep(n)
        PROVE  \/ UNCHANGED <<latest, posts>>
               \/ ReceiveBatch(n) \/ TookSnapshot(n) \/ PostAck(n)
    BY <2>3 DEF FollowerStep, Dial, TakeSnapshot, HangUp, tellVars
  <2>4. ASSUME NEW n \in Node, Fault(n)
        PROVE  posts' \subseteq posts /\ \A m \in Node : latest'[m] \in {latest[m], None}
    BY <2>4 DEF Fault, Drop, PostFails, Restart, tellVars
  <2>5. (\E p \in posts : Acknowledge(p)) \/ CloseStreams \/ UNCHANGED vars
           => posts' \subseteq posts /\ latest' = latest
    BY DEF Acknowledge, CloseStreams, vars, tellVars
  <2> QED
    BY <2>1, <2>2, <2>3, <2>4, <2>5 DEF Next
<1> QED
  BY <1>4, <1>5, <1>6, <1>7, <1>8

\* What an id's node has reached, it has still reached after a step.
LEMMA ReachedStays ==
    ASSUME TypeOK, TypeOK', [Next]_vars, NEW i \in DOMAIN owner, NEW pos \in Position,
           reaches(peak[owner[i]], pos)
    PROVE  reaches(peak'[owner'[i]], pos)
<1>1. PeaksGrow /\ NodeTypes /\ NodeTypes'
  BY PeakStep DEF TypeOK
<1>2. owner[i] \in Node /\ owner'[i] = owner[i]
  BY <1>1 DEF PeaksGrow, NodeTypes
<1>3. /\ peak[owner[i]] \in Position /\ peak'[owner[i]] \in Position
      /\ reaches(peak'[owner[i]], peak[owner[i]])
  BY <1>1, <1>2 DEF PeaksGrow, NodeTypes
<1> QED
  BY <1>2, <1>3, ReachesTransitive

\* A handler is asked for from what its follower has applied, and accepts that
\* or a snapshot of its own.
LEMMA FromStep ==
    TypeOK /\ TypeOK' /\ [Next]_vars /\ Owns /\ UnderPeak /\ FromIsBacked
        => FromIsBacked'
<1> SUFFICES ASSUME TypeOK, TypeOK', [Next]_vars, Owns, UnderPeak, FromIsBacked,
                    NEW c \in Conn
             PROVE
        /\ conn'[c].phase = "asked" => reaches(peak'[owner'[conn'[c].id]], conn'[c].from)
        /\ conn'[c].phase = "accepted" =>
              \/ conn'[c].snap = None /\ reaches(peak'[owner'[conn'[c].id]], conn'[c].from)
              \/ conn'[c].snap \in Position /\ conn'[c].from = conn'[c].snap
        /\ conn'[c].phase = "follow" => conn'[c].snap = None
  BY DEF FromIsBacked
<1>t. NodeTypes /\ StreamTypes /\ Here \in Position
  BY SemiSyncAssumption DEF TypeOK, LeaderTypes, Here, Position
<1>m. HandlerMay(c)
  BY HandlerMove
<1>k. ASSUME conn[c].phase \in {"asked", "accepted"},
             reaches(peak[owner[conn[c].id]], conn[c].from)
      PROVE  reaches(peak'[owner'[conn[c].id]], conn[c].from)
  BY <1>k, <1>t, ReachedStays DEF StreamTypes
<1>1. CASE conn'[c] = conn[c]
  BY <1>1, <1>k DEF FromIsBacked
<1>2. CASE conn'[c].phase \in {"idle", "drain", "send", "stream", "ending"}
  BY <1>2
<1>3. CASE conn[c].phase = "idle" /\ conn'[c].phase = "asked"
  <2>1. PICK n \in Node : conn'[c].id = name[n] /\ conn'[c].from = applied[n]
    BY <1>m, <1>3 DEF HandlerMay, Attached
  <2>2. name[n] \in DOMAIN owner /\ applied[n] \in Position
    BY <1>t DEF NodeTypes
  <2>3. reaches(peak[owner[name[n]]], applied[n])
    BY DEF Owns, UnderPeak
  <2>4. reaches(peak'[owner'[name[n]]], applied[n])
    BY <2>2, <2>3, ReachedStays
  <2> QED
    BY <1>3, <2>1, <2>4
<1>4. CASE conn[c].phase = "asked" /\ conn'[c].phase = "accepted"
  <2>1. /\ conn'[c].id = conn[c].id
        /\ \/ conn'[c].from = Here /\ conn'[c].snap = Here
           \/ conn'[c].from = conn[c].from /\ conn'[c].snap = None
    BY <1>m, <1>4 DEF HandlerMay, Attached
  <2>2. reaches(peak'[owner'[conn[c].id]], conn[c].from)
    BY <1>4, <1>k DEF FromIsBacked
  <2> QED
    BY <1>4, <1>t, <2>1, <2>2
<1>5. CASE conn[c].phase = "accepted" /\ conn'[c].phase = "follow"
  BY <1>m, <1>5 DEF HandlerMay, Attached
<1> QED
  BY <1>m, <1>1, <1>2, <1>3, <1>4, <1>5 DEF HandlerMay

\* An entry is made by a handler that can back it or an acknowledgement that is
\* honest, and one backed by a snapshot keeps the handler that took it.
LEMMA BackedStep ==
    TypeOK /\ TypeOK' /\ [Next]_vars /\ AcksAreHonest /\ FromIsBacked /\ RegistryBacked
        => RegistryBacked'
<1> SUFFICES ASSUME TypeOK, TypeOK', [Next]_vars, AcksAreHonest, FromIsBacked,
                    RegistryBacked, NEW i \in DOMAIN at'
             PROVE  \/ reaches(peak'[owner'[i]], at'[i])
                    \/ \E c \in Conn : /\ conn'[c].phase \in Attached /\ conn'[c].id = i
                                       /\ conn'[c].snap # None
                                       /\ reaches(conn'[c].snap, at'[i])
  BY DEF RegistryBacked, Serving
<1>t. LeaderTypes /\ StreamTypes /\ TellTypes
  BY DEF TypeOK
<1>m. EntryMay(i) /\ \A d \in Conn : HandlerMay(d)
  BY EntryMove, HandlerMove
<1>1. CASE i \in DOMAIN at /\ at'[i] = at[i]
  <2>0. i \in DOMAIN owner /\ at[i] \in Position
    BY <1>1, <1>t DEF LeaderTypes
  <2>1. CASE reaches(peak[owner[i]], at[i])
    BY <1>1, <2>0, <2>1, ReachedStays
  <2>2. CASE ~reaches(peak[owner[i]], at[i])
    <3>1. PICK c \in Conn : /\ conn[c].phase \in Attached /\ conn[c].id = i
                            /\ conn[c].snap # None /\ reaches(conn[c].snap, at[i])
      BY <1>1, <2>2 DEF RegistryBacked, Serving
    <3>2. conn[c].phase # "follow"
      BY <3>1 DEF FromIsBacked
    <3>3. conn'[c].phase \in Attached /\ conn'[c].id = i /\ conn'[c].snap = conn[c].snap
      BY <1>m, <3>1, <3>2 DEF HandlerMay, Attached
    <3> QED
      BY <1>1, <3>1, <3>3
  <2> QED
    BY <2>1, <2>2
<1>2. ASSUME NEW c \in Conn, conn[c].phase = "accepted", conn[c].id = i,
             at'[i] = conn[c].from, conn'[c].phase \in Attached, conn'[c].id = i,
             conn'[c].snap = conn[c].snap
      PROVE  \/ reaches(peak'[owner'[i]], at'[i])
             \/ /\ conn'[c].snap # None
                /\ reaches(conn'[c].snap, at'[i])
  <2>1. i \in DOMAIN owner /\ conn[c].from \in Position
    BY <1>2, <1>t DEF StreamTypes
  <2>2. CASE reaches(peak[owner[i]], conn[c].from)
    BY <1>2, <2>1, <2>2, ReachedStays
  <2>3. CASE conn[c].snap \in Position /\ conn[c].from = conn[c].snap
    BY <1>2, <2>3, SemiSyncAssumption, ReachesSelf
  <2> QED
    BY <1>2, <2>2, <2>3 DEF FromIsBacked
<1>3. ASSUME NEW p \in posts, i \in DOMAIN at, p.id = i, at'[i] = p.at
      PROVE  reaches(peak'[owner'[i]], at'[i])
  <2>1. i \in DOMAIN owner /\ p.at \in Position
    BY <1>3, <1>t DEF TellTypes, Post
  <2>2. reaches(peak[owner[i]], p.at)
    BY <1>3 DEF AcksAreHonest
  <2> QED
    BY <1>3, <2>1, <2>2, ReachedStays
<1> QED
  BY <1>m, <1>1, <1>2, <1>3 DEF EntryMay

\* What those properties rest on holds in every state.
LEMMA AlwaysBacked == Spec => []Backed
<1>1. Init => Backed
  <2> SUFFICES ASSUME Init PROVE Backed
    OBVIOUS
  <2>1. TypeOK
    BY TypeInit
  <2>2. Owns
    <3>1. \A n \in Node : name[n] \in {name[m] : m \in Node}
      OBVIOUS
    <3>2. \A m, n \in Node : name[m] = name[n] => m = n
      BY DEF Init
    <3> QED
      BY <3>1, <3>2 DEF Init, Owns
  <2>3. UnderPeak
    BY <2>1, ReachesSelf DEF Init, UnderPeak, TypeOK, NodeTypes
  <2>4. AcksAreHonest /\ FromIsBacked /\ RegistryBacked
    BY DEF Init, AcksAreHonest, FromIsBacked, RegistryBacked, idle
  <2> QED
    BY <2>1, <2>2, <2>3, <2>4 DEF Backed
<1>2. Backed /\ [Next]_vars => Backed'
  BY TypeStep, OwnsStep, UnderPeakStep, HonestStep, FromStep, BackedStep DEF Backed
<1> QED
  BY <1>1, <1>2, PTL DEF Spec

\* acks.go, attach and ack: what the registry says a follower holds, that
\* follower has applied or is being sent as a snapshot.
THEOREM RegistryIsBacked == Spec => []RegistryBacked
<1>1. Backed => RegistryBacked
  BY DEF Backed
<1> QED
  BY <1>1, AlwaysBacked, PTL

\* follower.go, tell and telling: an acknowledgement, however late, says only
\* what the follower that sent it held.
THEOREM AcksStayHonest == Spec => []AcksAreHonest
<1>1. Backed => AcksAreHonest
  BY DEF Backed
<1> QED
  BY <1>1, AlwaysBacked, PTL

(***************************************************************************)
(* Nobody sleeps through what it is waiting for.                           *)
(***************************************************************************)

\* The registry is a Go map: there are finitely many followers in it.
FiniteRegistry == IsFiniteSet(DOMAIN at)

\* A step adds at most one follower to it.
LEMMA FiniteStep == FiniteRegistry /\ [Next]_vars => FiniteRegistry'
<1> SUFFICES ASSUME FiniteRegistry, [Next]_vars PROVE IsFiniteSet(DOMAIN at')
  BY DEF FiniteRegistry
<1>1. \/ DOMAIN at' \subseteq DOMAIN at
      \/ \E i : DOMAIN at' = DOMAIN at \cup {i}
  <2>1. ASSUME NEW w \in Write, WriteStep(w) PROVE at' = at
    BY <2>1 DEF WriteStep, Store, AskPosition, Count, TimeOut
  <2>2. ASSUME NEW c \in Conn, HandlerStep(c)
        PROVE  \/ DOMAIN at' \subseteq DOMAIN at
               \/ DOMAIN at' = DOMAIN at \cup {conn[c].id}
    BY <2>2 DEF HandlerStep, Accept, SendSnapshot, FollowFrom, Diverged,
       SendBatch, End, Attach, attach, Detach, detach
  <2>3. ASSUME NEW n \in Node, FollowerStep(n) \/ Fault(n) PROVE at' = at
    BY <2>3 DEF FollowerStep, Dial, ReceiveBatch, TakeSnapshot, TookSnapshot,
       HangUp, PostAck, Fault, Drop, PostFails, Restart
  <2>4. ASSUME NEW p \in posts, Acknowledge(p) PROVE DOMAIN at' \subseteq DOMAIN at
    BY <2>4 DEF Acknowledge, ack
  <2>5. CloseStreams \/ UNCHANGED vars => at' = at
    BY DEF CloseStreams, vars
  <2> QED
    BY <2>1, <2>2, <2>3, <2>4, <2>5 DEF Next
<1> QED
  BY <1>1, FS_Subset, FS_AddElement DEF FiniteRegistry

\* A write goes to sleep only on a count that was not enough, and whatever
\* changes the registry wakes it.
LEMMA WakeStep ==
    TypeOK /\ FiniteRegistry /\ [Next]_vars /\ NoLostWakeup => NoLostWakeup'
<1> SUFFICES ASSUME TypeOK, FiniteRegistry, [Next]_vars, NoLostWakeup,
                    NEW w \in Write, pc'[w] = "asleep"
             PROVE  (Cardinality(reached(want[w])) < Need)'
  BY DEF NoLostWakeup
<1>t. WriteTypes
  BY DEF TypeOK
<1>1. at' = at
  <2>1. pc' # woken(pc)
    BY DEF woken
  <2> QED
    BY <2>1, EntryMove
<1>2. CASE pc[w] = "asleep" /\ want'[w] = want[w]
  BY <1>1, <1>2 DEF NoLostWakeup, reached
<1>3. CASE Count(w) /\ pc[w] # "asleep"
  <2>1. ~(Cardinality(reached(want[w])) >= Need) /\ want'[w] = want[w]
    BY <1>3, <1>t DEF Count, Answered, WriteTypes
  <2>2. IsFiniteSet(reached(want[w]))
    BY FS_Subset DEF FiniteRegistry, reached
  <2>3. Cardinality(reached(want[w])) \in Nat
    BY <2>2, FS_CardinalityType
  <2>4. Cardinality(reached(want[w])) < Need
    BY <2>1, <2>3, SemiSyncAssumption
  <2> QED
    BY <1>1, <2>1, <2>4 DEF reached
<1>4. (pc[w] = "asleep" /\ want'[w] = want[w]) \/ (Count(w) /\ pc[w] # "asleep")
  <2> USE <1>t DEF WriteTypes
  <2>1. ASSUME NEW v \in Write, WriteStep(v)
        PROVE  (pc[w] = "asleep" /\ want'[w] = want[w]) \/ (Count(w) /\ pc[w] # "asleep")
    <3>1. CASE v # w
      BY <2>1, <3>1 DEF WriteStep, Store, AskPosition, Count, TimeOut, Answered
    <3>2. CASE v = w
      BY <2>1, <3>2 DEF WriteStep, Store, AskPosition, Count, TimeOut, Answered
    <3> QED
      BY <3>1, <3>2
  <2>2. ASSUME UNCHANGED <<pc, want>> \/ (pc' = woken(pc) /\ want' = want)
        PROVE  pc[w] = "asleep" /\ want'[w] = want[w]
    BY <2>2 DEF woken
  <2>3. ASSUME NEW c \in Conn, HandlerStep(c)
        PROVE  UNCHANGED <<pc, want>> \/ (pc' = woken(pc) /\ want' = want)
    BY <2>3 DEF HandlerStep, Accept, Attach, attach, SendSnapshot, FollowFrom,
       Diverged, SendBatch, End, Detach, detach, writeVars
  <2>4. ASSUME NEW n \in Node, FollowerStep(n) \/ Fault(n) PROVE UNCHANGED <<pc, want>>
    BY <2>4 DEF FollowerStep, Dial, ReceiveBatch, TakeSnapshot, TookSnapshot,
       HangUp, PostAck, Fault, Drop, PostFails, Restart, writeVars
  <2>5. ASSUME NEW p \in posts, Acknowledge(p)
        PROVE  UNCHANGED <<pc, want>> \/ (pc' = woken(pc) /\ want' = want)
    BY <2>5 DEF Acknowledge, ack
  <2>6. CloseStreams \/ UNCHANGED vars => UNCHANGED <<pc, want>>
    BY DEF CloseStreams, vars, writeVars
  <2> QED
    BY <2>1, <2>2, <2>3, <2>4, <2>5, <2>6 DEF Next
<1> QED
  BY <1>2, <1>3, <1>4

\* acks.go, await: a write that is asleep is one whose followers have not yet
\* reached it (NoLostWakeup); no wake falls between the count and the sleep.
THEOREM NoWakeupIsLost == Spec => []NoLostWakeup
<1>1. Init => FiniteRegistry /\ NoLostWakeup
  BY FS_EmptySet DEF Init, FiniteRegistry, NoLostWakeup
<1> QED
  BY <1>1, FiniteStep, WakeStep, Typed, PTL DEF Spec

(***************************************************************************)
(* Batches continue the store that reads them.                             *)
(***************************************************************************)

\* Where n's store is, or will be when it has the snapshot in hand.
held(n) == IF taking[n] # None THEN taking[n] ELSE applied[n]

Silent == {"asked", "accepted", "follow", "send"}

\* What its handler takes the follower to have: where it asked from.
AsksFromHere(c, n) ==
    /\ taking[n] = None
    /\ \/ conn[c].phase \in {"asked", "follow"}
       \/ conn[c].phase = "accepted" /\ conn[c].snap = None
       => conn[c].from = applied[n]

\* Each batch on its way starts where the frame before it ends, the first one
\* where the store is, and the next one will start where the last one ends.
InStep(c, n) ==
    /\ \A i \in 1 .. Len(pipe[c]) : pipe[c][i].kind = "B" =>
          pipe[c][i].base = IF i = 1 THEN held(n) ELSE pipe[c][i - 1].at
    /\ conn[c].phase = "stream" =>
          conn[c].from = IF pipe[c] = <<>> THEN held(n) ELSE pipe[c][Len(pipe[c])].at

\* Nothing is on a slot before its handler has sent something, and whoever
\* reads it is in step with it.
SlotInOrder(c) ==
    /\ conn[c].phase \in Silent \cup {"idle"} => pipe[c] = <<>>
    /\ \A n \in Node : reading[n] = c =>
          /\ conn[c].phase # "idle"
          /\ conn[c].phase \in Silent => AsksFromHere(c, n)
          /\ InStep(c, n)

\* A slot is read by one node at most; who reads none has no snapshot in hand.
OneReader ==
    /\ \A n \in Node : reading[n] = None => taking[n] = None
    /\ \A m, n \in Node : reading[m] = reading[n] /\ reading[n] # None => m = n

InOrder == OneReader /\ \A c \in Conn : SlotInOrder(c)

\* Nothing has been asked for.
LEMMA OrderInit == Init => InOrder
BY SemiSyncAssumption DEF Init, InOrder, OneReader, SlotInOrder, idle

\* A step of handler c leaves the order of every other slot alone.
LEMMA OtherSlots ==
    ASSUME InOrder, NEW c \in Conn, UNCHANGED <<taking, applied>>,
           \A d \in Conn \ {c} : conn'[d] = conn[d] /\ pipe'[d] = pipe[d],
           \A n \in Node : reading'[n] = reading[n]
                          \/ (reading[n] = c /\ reading'[n] = None /\ taking[n] = None),
           SlotInOrder(c)'
    PROVE  InOrder'
<1>1. OneReader'
  BY SemiSyncAssumption DEF InOrder, OneReader
<1>2. ASSUME NEW d \in Conn, d # c PROVE SlotInOrder(d)'
  <2>1. SlotInOrder(d) /\ conn'[d] = conn[d] /\ pipe'[d] = pipe[d]
    BY <1>2 DEF InOrder
  <2>2. \A n \in Node : reading'[n] = d => reading[n] = d
    BY SemiSyncAssumption
  <2> QED
    BY <2>1, <2>2 DEF SlotInOrder, AsksFromHere, InStep, held, Silent
<1> QED
  BY <1>1, <1>2 DEF InOrder

\* The leader's side: a handler sends what comes next, or nothing.
LEMMA HandlerKeepsOrder ==
    ASSUME TypeOK, InOrder, NEW c \in Conn, HandlerStep(c) PROVE InOrder'
<1> USE SemiSyncAssumption DEF Silent
<1>t. /\ conn \in [Conn -> Handler] /\ pipe \in [Conn -> Seq(Frame)]
      /\ reading \in [Node -> Conn \cup {None}] /\ None \notin Conn
      /\ pipe[c] \in Seq(Frame) /\ idle.phase = "idle"
  BY DEF TypeOK, NodeTypes, StreamTypes, idle
<1>h. Here # None
  BY DEF Here, Position, TypeOK, LeaderTypes
<1>o. SlotInOrder(c)
  BY DEF InOrder
<1>1. CASE Accept(c)
  <2>1. /\ UNCHANGED <<taking, applied>> /\ pipe' = pipe
        /\ \A d \in Conn \ {c} : conn'[d] = conn[d]
    BY <1>1, <1>t DEF Accept
  <2>2. CASE reading' = reading
    <3>1. /\ conn'[c].phase = "accepted" \/ \A n \in Node : reading[n] # c
          /\ conn'[c].phase \in {"accepted", "idle"}
          /\ conn'[c].phase = "accepted" /\ conn'[c].snap = None => conn'[c].from = conn[c].from
      BY <1>1, <2>2, <1>t, <1>h DEF Accept, Handler
    <3>2. conn[c].phase = "asked"
      BY <1>1 DEF Accept
    <3>8. SlotInOrder(c)'
      BY <2>1, <2>2, <3>1, <3>2, <1>o DEF SlotInOrder, AsksFromHere, InStep, held
    <3> QED
      BY <1>t, <1>o, <2>1, <2>2, <3>1, <3>2, <3>8, OtherSlots DEF SlotInOrder, AsksFromHere
  <2>3. CASE reading' = [n \in Node |-> IF reading[n] = c THEN None ELSE reading[n]]
    <3>1. conn[c].phase = "asked"
      BY <1>1 DEF Accept
    <3>2. \A n \in Node : reading'[n] # c
      BY <2>3, <1>t
    <3>3. conn'[c].phase \in {"accepted", "idle"}
      BY <1>1, <1>t DEF Accept, Handler
    <3>8. SlotInOrder(c)'
      BY <2>1, <2>3, <3>1, <3>2, <3>3, <1>o DEF SlotInOrder, AsksFromHere, InStep, held
    <3> QED
      BY <1>t, <1>o, <2>1, <2>3, <3>1, <3>2, <3>3, <3>8, OtherSlots DEF SlotInOrder, AsksFromHere
  <2> QED
    BY <1>1, <2>2, <2>3 DEF Accept
<1>2. CASE Attach(c) \/ FollowFrom(c)
  <2>1. /\ UNCHANGED <<taking, applied, reading, pipe>>
        /\ \A d \in Conn \ {c} : conn'[d] = conn[d]
        /\ conn'[c].from = conn[c].from /\ conn'[c].snap = conn[c].snap
        /\ \/ conn[c].phase = "accepted" /\ conn'[c].phase = "send"
           \/ conn[c].phase = "accepted" /\ conn[c].snap = None /\ conn'[c].phase = "follow"
           \/ conn[c].phase = "follow" /\ conn'[c].phase = "stream"
    BY <1>2, <1>t DEF Attach, FollowFrom, nodeVars, Handler
  <2>8. SlotInOrder(c)'
    BY <2>1, <1>o DEF SlotInOrder, AsksFromHere, InStep, held
  <2> QED
    BY <1>t, <1>o, <2>1, <2>8, OtherSlots DEF SlotInOrder, AsksFromHere
<1>3. CASE SendSnapshot(c)
  <2> DEFINE frame == [kind |-> "S", base |-> Zero, at |-> conn[c].from]
  <2>1. /\ UNCHANGED <<taking, applied, reading>>
        /\ \A d \in Conn \ {c} : conn'[d] = conn[d] /\ pipe'[d] = pipe[d]
        /\ conn[c].phase = "send" /\ conn'[c].phase = "stream"
        /\ conn'[c].from = conn[c].from /\ pipe'[c] = Append(pipe[c], frame)
    BY <1>3, <1>t DEF SendSnapshot, nodeVars
  <2>2. pipe'[c] = <<frame>>
    <3>1. pipe[c] = <<>>
      BY <2>1, <1>o DEF SlotInOrder
    <3> HIDE DEF frame
    <3> QED
      BY <2>1, <3>1
  <2>3. Len(pipe'[c]) = 1 /\ pipe'[c][1] = frame /\ frame.kind = "S" /\ frame.at = conn[c].from
    BY <2>2
  <2>8. SlotInOrder(c)'
    BY <2>1, <2>3, <1>o DEF SlotInOrder, AsksFromHere, InStep, held
  <2> QED
    BY <1>t, <1>o, <2>1, <2>3, <2>8, OtherSlots DEF SlotInOrder, AsksFromHere
<1>4. CASE Diverged(c) \/ End(c)
  <2>1. /\ UNCHANGED <<taking, applied, reading, pipe>>
        /\ \A d \in Conn \ {c} : conn'[d] = conn[d]
        /\ \/ conn'[c].phase = "ending"
           \/ conn[c].phase = "follow" /\ conn'[c].phase = "send"
    <3>1. CASE Diverged(c)
      BY <3>1, <1>t DEF Diverged, nodeVars, Here
    <3>2. CASE End(c)
      BY <3>2, <1>t DEF End, nodeVars
    <3> QED
      BY <1>4, <3>1, <3>2
  <2>8. SlotInOrder(c)'
    BY <2>1, <1>o DEF SlotInOrder, AsksFromHere, InStep, held
  <2> QED
    BY <1>t, <1>o, <2>1, <2>8, OtherSlots DEF SlotInOrder, AsksFromHere
<1>5. CASE SendBatch(c)
  <2>1. PICK next : /\ pipe' = [pipe EXCEPT ![c] = Append(@, [kind |-> "B", at |-> next,
                                                            base |-> conn[c].from])]
                    /\ conn' = [conn EXCEPT ![c].from = next]
    BY <1>5 DEF SendBatch
  <2> DEFINE frame == [kind |-> "B", at |-> next, base |-> conn[c].from]
             q == pipe[c]
  <2>2. /\ UNCHANGED <<taking, applied, reading>> /\ conn[c].phase = "stream"
        /\ \A d \in Conn \ {c} : conn'[d] = conn[d] /\ pipe'[d] = pipe[d]
        /\ conn'[c].phase = "stream" /\ conn'[c].from = next
        /\ pipe'[c] = Append(q, frame)
    BY <1>5, <2>1, <1>t DEF SendBatch, nodeVars
  <2>3. /\ Len(pipe'[c]) = Len(q) + 1 /\ Len(q) \in Nat
        /\ pipe'[c][Len(q) + 1] = frame
        /\ \A i \in 1 .. Len(q) : pipe'[c][i] = q[i]
    <3> HIDE DEF frame
    <3> QED
      BY <2>2, <1>t
  <2>4. frame.base = conn[c].from /\ frame.at = next
    OBVIOUS
  <2>5. ASSUME NEW n \in Node, reading[n] = c
        PROVE  \A i \in 1 .. Len(pipe'[c]) :
                  pipe'[c][i].kind = "B" =>
                     pipe'[c][i].base = IF i = 1 THEN held(n) ELSE pipe'[c][i - 1].at
    <3> SUFFICES ASSUME NEW i \in 1 .. Len(pipe'[c]), pipe'[c][i].kind = "B"
                 PROVE  pipe'[c][i].base = IF i = 1 THEN held(n) ELSE pipe'[c][i - 1].at
      OBVIOUS
    <3> HIDE DEF frame, q
    <3>1. CASE i \in 1 .. Len(q)
      <4>1. pipe'[c][i] = q[i] /\ (i # 1 => pipe'[c][i - 1] = q[i - 1])
        BY <2>3, <3>1
      <4> QED
        BY <2>5, <3>1, <4>1, <1>o DEF q, SlotInOrder, InStep
    <3>2. CASE i = Len(q) + 1
      <4>1. pipe'[c][i] = frame /\ (i # 1 => pipe'[c][i - 1] = q[i - 1] /\ i - 1 = Len(q))
        BY <2>3, <3>2
      <4> QED
        BY <2>2, <2>3, <2>4, <2>5, <3>2, <4>1, <1>o DEF q, SlotInOrder, InStep
    <3> QED
      BY <2>3, <3>1, <3>2
  <2> HIDE DEF frame, q
  <2>6. conn'[c].from = pipe'[c][Len(pipe'[c])].at /\ Len(pipe'[c]) # 0
    BY <2>2, <2>3, <2>4
  <2>8. SlotInOrder(c)'
    BY <2>2, <2>5, <2>6, <1>o DEF SlotInOrder, AsksFromHere, InStep, held
  <2> QED
    BY <1>t, <1>o, <2>2, <2>5, <2>6, <2>8, OtherSlots DEF SlotInOrder, AsksFromHere
<1>6. CASE Detach(c)
  <2>1. /\ UNCHANGED <<taking, applied, reading>> /\ conn[c].phase = "ending"
        /\ \A d \in Conn \ {c} : conn'[d] = conn[d] /\ pipe'[d] = pipe[d]
        /\ \/ /\ \A n \in Node : reading[n] # c
              /\ conn'[c] = idle /\ pipe'[c] = <<>>
           \/ conn'[c].phase = "drain" /\ pipe'[c] = pipe[c]
    BY <1>6, <1>t DEF Detach, nodeVars, Reader, Handler
  <2>8. SlotInOrder(c)'
    BY <2>1, <1>o DEF SlotInOrder, AsksFromHere, InStep, held
  <2> QED
    BY <1>t, <1>o, <2>1, <2>8, OtherSlots DEF SlotInOrder, AsksFromHere
<1> QED
  BY <1>1, <1>2, <1>3, <1>4, <1>5, <1>6 DEF HandlerStep

\* What node n does on slot c leaves the order of every other slot alone.
LEMMA OtherReaders ==
    ASSUME InOrder, NEW n \in Node, NEW c \in Conn,
           \A m \in Node \ {n} : /\ reading'[m] = reading[m] /\ reading[m] # c
                                 /\ taking'[m] = taking[m] /\ applied'[m] = applied[m],
           \A d \in Conn \ {c} : conn'[d] = conn[d] /\ pipe'[d] = pipe[d],
           reading'[n] \in {c, None}, reading'[n] = None => taking'[n] = None,
           SlotInOrder(c)'
    PROVE  InOrder'
<1> USE SemiSyncAssumption
<1>1. OneReader'
  BY DEF InOrder, OneReader
<1>2. ASSUME NEW d \in Conn, d # c PROVE SlotInOrder(d)'
  <2>1. SlotInOrder(d) /\ conn'[d] = conn[d] /\ pipe'[d] = pipe[d]
    BY <1>2 DEF InOrder
  <2>2. \A m \in Node : reading'[m] = d =>
           reading[m] = d /\ taking'[m] = taking[m] /\ applied'[m] = applied[m]
    BY <1>2
  <2> QED
    BY <2>1, <2>2 DEF SlotInOrder, AsksFromHere, InStep, held, Silent
<1> QED
  BY <1>1, <1>2 DEF InOrder

\* The follower's side: it reads what comes next, from where its store is, and
\* a slot it gives up has no other reader.
LEMMA FollowerKeepsOrder ==
    ASSUME TypeOK, InOrder, NEW n \in Node, FollowerStep(n) \/ Fault(n) PROVE InOrder'
<1> USE SemiSyncAssumption DEF Silent
<1>t. /\ conn \in [Conn -> Handler] /\ pipe \in [Conn -> Seq(Frame)]
      /\ reading \in [Node -> Conn \cup {None}] /\ None \notin Conn
      /\ taking \in [Node -> Position \cup {None}] /\ applied \in [Node -> Position]
      /\ idle.phase = "idle"
  BY DEF TypeOK, NodeTypes, StreamTypes, idle
<1>r. /\ reading[n] = None => taking[n] = None
      /\ \A m \in Node \ {n} : reading[n] # None => reading[m] # reading[n]
  BY DEF InOrder, OneReader
<1>1. CASE Dial(n)
  <2>1. PICK c \in Conn : /\ conn[c].phase = "idle"
                          /\ conn' = [conn EXCEPT ![c] = [phase |-> "asked", id |-> name[n],
                                                          from |-> applied[n], snap |-> None]]
                          /\ reading' = [reading EXCEPT ![n] = c]
    BY <1>1 DEF Dial
  <2>2. UNCHANGED <<taking, applied, pipe>> /\ taking[n] = None
    BY <1>1, <1>r DEF Dial
  <2>3. pipe[c] = <<>> /\ \A m \in Node : reading[m] # c
    BY <2>1 DEF InOrder, SlotInOrder
  <2>4. conn'[c].phase = "asked" /\ conn'[c].from = applied[n]
    BY <2>1, <1>t
  <2>5. \A m \in Node : reading'[m] = c => m = n
    BY <2>1, <2>3, <1>t
  <2>6. SlotInOrder(c)'
    BY <2>2, <2>3, <2>4, <2>5 DEF SlotInOrder, AsksFromHere, InStep
  <2> QED
    BY <2>1, <2>2, <2>3, <2>6, <1>t, OtherReaders
<1>2. CASE ReceiveBatch(n) \/ TakeSnapshot(n)
  <2>0. PICK c \in Conn : c = reading[n]
    BY <1>2 DEF ReceiveBatch, TakeSnapshot
  <2> DEFINE q == pipe[c]
  <2>1. /\ c = reading[n] /\ q # <<>> /\ q \in Seq(Frame) /\ pipe' = [pipe EXCEPT ![c] = Tail(q)]
        /\ taking[n] = None /\ UNCHANGED <<conn, reading>>
        /\ \/ taking' = taking /\ applied' = [applied EXCEPT ![n] = Head(q).at]
           \/ /\ taking' = [taking EXCEPT ![n] = Head(q).at]
              /\ applied' = [applied EXCEPT ![n] = Zero]
    BY <1>2, <2>0, <1>t DEF ReceiveBatch, TakeSnapshot
  <2>2. Head(q) = q[1] /\ Len(q) \in Nat \ {0} /\ q[1] \in Frame
    BY <2>1
  <2>3. q[1].at \in Position /\ q[1].at # None
    BY <2>2 DEF Frame
  <2>4. held(n)' = q[1].at
    BY <2>1, <2>2, <2>3, <1>t DEF held
  <2>5. /\ Len(Tail(q)) = Len(q) - 1
        /\ \A i \in 1 .. Len(q) - 1 : Tail(q)[i] = q[i + 1]
        /\ Tail(q) = <<>> => Len(q) = 1
    <3> HIDE DEF q
    <3>1. Len(Tail(q)) = Len(q) - 1 /\ Tail(q) \in Seq(Frame)
      BY <2>1, <2>2
    <3>2. \A i \in 1 .. Len(q) - 1 : Tail(q)[i] = q[i + 1]
      BY <2>1, <2>2
    <3>3. ASSUME Tail(q) = <<>> PROVE Len(Tail(q)) = 0
      <4>1. Len(<<>>) = 0
        OBVIOUS
      <4> QED
        BY ONLY <3>3, <4>1
    <3> QED
      BY <2>2, <3>1, <3>2, <3>3
  <2>6. SlotInOrder(c)
    BY <2>1 DEF InOrder
  <2>7. InStep(c, n) /\ conn[c].phase \notin Silent \cup {"idle"}
    BY <2>1, <2>6 DEF SlotInOrder
  <2>8. pipe'[c] = Tail(q) /\ \A d \in Conn \ {c} : pipe'[d] = pipe[d]
    BY <2>1, <1>t
  <2>9. InStep(c, n)'
    <3> HIDE DEF q
    <3>1. ASSUME NEW i \in 1 .. Len(q) - 1, Tail(q)[i].kind = "B"
          PROVE  Tail(q)[i].base = IF i = 1 THEN q[1].at ELSE Tail(q)[i - 1].at
      <4>1. i + 1 \in 1 .. Len(q) /\ i + 1 # 1 /\ (i + 1) - 1 = i /\ Tail(q)[i] = q[i + 1]
        BY <2>2, <2>5
      <4>2. q[i + 1].base = q[i].at
        BY <2>7, <3>1, <4>1 DEF InStep, q
      <4>3. i # 1 => Tail(q)[i - 1] = q[i]
        BY <2>2, <2>5
      <4> QED
        BY <4>1, <4>2, <4>3
    <3>2. conn[c].phase = "stream" =>
             conn[c].from = IF Tail(q) = <<>> THEN q[1].at ELSE Tail(q)[Len(Tail(q))].at
      <4>1. conn[c].phase = "stream" => conn[c].from = q[Len(q)].at
        BY <2>1, <2>7 DEF InStep, q
      <4>2. Tail(q) # <<>> => Tail(q)[Len(Tail(q))] = q[Len(q)]
        BY <2>1, <2>2, <2>5
      <4> QED
        BY <4>1, <4>2, <2>5
    <3>3. /\ pipe'[c] = Tail(q) /\ Len(pipe'[c]) = Len(q) - 1
          /\ held(n)' = q[1].at /\ conn' = conn
      BY <2>1, <2>4, <2>5, <2>8
    <3> HIDE DEF held
    <3> QED
      BY <3>1, <3>2, <3>3 DEF InStep
  <2>10. SlotInOrder(c)'
    BY <2>1, <2>7, <2>9, <1>r DEF SlotInOrder
  <2> HIDE DEF q
  <2> QED
    BY <2>1, <2>8, <2>10, <1>r, <1>t, OtherReaders
<1>3. CASE TookSnapshot(n)
  <2>1. /\ taking[n] # None /\ UNCHANGED <<conn, pipe, reading>>
        /\ applied' = [applied EXCEPT ![n] = taking[n]]
        /\ taking' = [taking EXCEPT ![n] = None]
    BY <1>3 DEF TookSnapshot, streamVars
  <2>2. PICK c \in Conn : c = reading[n]
    BY <2>1, <1>r, <1>t
  <2>3. SlotInOrder(c)
    BY <2>2 DEF InOrder
  <2>4. held(n)' = held(n)
    BY <2>1, <1>t DEF held
  <2>5. SlotInOrder(c)'
    BY <2>1, <2>2, <2>3, <2>4, <1>r DEF SlotInOrder, AsksFromHere, InStep
  <2> QED
    BY <2>1, <2>2, <2>5, <1>r, <1>t, OtherReaders
<1>4. CASE HangUp(n) \/ Drop(n) \/ Restart(n)
  <2>1. /\ reading' = [reading EXCEPT ![n] = None] /\ applied' = applied
        /\ taking' = [taking EXCEPT ![n] = None]
    <3>1. CASE HangUp(n)
      BY <3>1, <1>t DEF HangUp
    <3>2. CASE Drop(n) \/ Restart(n)
      BY <3>2 DEF Drop, Restart
    <3> QED
      BY <1>4, <3>1, <3>2
  <2>2. CASE reading[n] = None
    <3>1. UNCHANGED <<conn, pipe, reading, taking, applied>>
      BY <1>4, <2>1, <2>2, <1>r, <1>t DEF HangUp, Drop, Restart, abandon, streamVars
    <3> QED
      BY <3>1 DEF InOrder, OneReader, SlotInOrder, AsksFromHere, InStep, held
  <2>3. CASE reading[n] # None
    <3>1. PICK c \in Conn : c = reading[n]
      BY <2>3, <1>t
    <3>2. \/ UNCHANGED <<conn, pipe>>
          \/ conn' = [conn EXCEPT ![c] = idle] /\ pipe' = [pipe EXCEPT ![c] = <<>>]
      <4>1. CASE HangUp(n)
        BY <4>1, <3>1, <1>t DEF HangUp
      <4>2. CASE Drop(n) \/ Restart(n)
        BY <4>2, <3>1, <1>t DEF Drop, Restart, abandon, streamVars
      <4> QED
        BY <1>4, <4>1, <4>2
    <3>3. \A m \in Node : reading'[m] # c
      BY <2>1, <3>1, <1>r, <1>t
    <3>4. SlotInOrder(c)
      BY <3>1 DEF InOrder
    <3>5. SlotInOrder(c)'
      BY <3>1, <3>2, <3>3, <3>4, <1>t DEF SlotInOrder
    <3> QED
      BY <2>1, <3>1, <3>2, <3>5, <1>r, <1>t, OtherReaders
  <2> QED
    BY <2>2, <2>3
<1>5. CASE PostAck(n) \/ PostFails(n)
  BY <1>5 DEF PostAck, PostFails, nodeVars, streamVars, InOrder, OneReader,
     SlotInOrder, AsksFromHere, InStep, held
<1> QED
  BY <1>1, <1>2, <1>3, <1>4, <1>5 DEF FollowerStep, Fault

\* No step of anyone puts a slot out of order.
LEMMA OrderStep == TypeOK /\ InOrder /\ [Next]_vars => InOrder'
<1> SUFFICES ASSUME TypeOK, InOrder, [Next]_vars PROVE InOrder'
  OBVIOUS
<1>1. CASE UNCHANGED <<conn, pipe, reading, taking, applied>>
  BY <1>1 DEF InOrder, OneReader, SlotInOrder, AsksFromHere, InStep, held, Silent
<1>2. ASSUME NEW w \in Write, WriteStep(w)
      PROVE  UNCHANGED <<conn, pipe, reading, taking, applied>>
  BY <1>2 DEF WriteStep, Store, AskPosition, Count, TimeOut, streamVars, nodeVars
<1>3. (\E p \in posts : Acknowledge(p)) \/ CloseStreams \/ UNCHANGED vars
         => UNCHANGED <<conn, pipe, reading, taking, applied>>
  BY DEF Acknowledge, CloseStreams, vars, streamVars, nodeVars
<1> QED
  BY <1>1, <1>2, <1>3, HandlerKeepsOrder, FollowerKeepsOrder DEF Next

\* follower.go stream, replica.go streamReplica: a batch carries no start, and
\* is applied from wherever the store is: what a follower reads next always
\* starts there (StreamIsContiguous), whatever was dropped, restarted, fenced
\* or answered with a snapshot on the way.
THEOREM Contiguous == Spec => []StreamIsContiguous
<1>1. TypeOK /\ InOrder => StreamIsContiguous
  <2> SUFFICES ASSUME TypeOK, InOrder, NEW n \in Node, reading[n] \in Conn,
                      taking[n] = None, pipe[reading[n]] # <<>>,
                      Head(pipe[reading[n]]).kind = "B"
               PROVE  Head(pipe[reading[n]]).base = applied[n]
    BY DEF StreamIsContiguous
  <2>1. pipe[reading[n]] \in Seq(Frame)
    BY DEF TypeOK, StreamTypes
  <2>2. Head(pipe[reading[n]]) = pipe[reading[n]][1] /\ 1 \in 1 .. Len(pipe[reading[n]])
    BY <2>1
  <2> QED
    BY <2>2 DEF InOrder, SlotInOrder, InStep, held
<1> QED
  BY <1>1, OrderInit, OrderStep, Typed, PTL DEF Spec

(***************************************************************************)
(* Where no snapshot is needed, and nobody restarts, a 204 is kept.        *)
(***************************************************************************)

\* Followers that start on the leader's history, which it keeps, and whose
\* processes live: what README's promise is about.  A store that has to be
\* reset first, or a follower that counts twice, breaks it (runs
\* SemiSyncFresh, SemiSyncOldHandler and SemiSyncTwice).
Steady ==
    /\ "restart" \notin Faults
    /\ ~MayDiverge
    /\ Zero \notin InitialApplied
    /\ IsFiniteSet(Node)

\* A stream with no snapshot on it, or about to be: it carries on from a real
\* position of this history, and every batch moves forward.
PlainStream(c) ==
    /\ conn[c].phase # "send" /\ conn[c].snap = None
    /\ conn[c].phase # "idle" => conn[c].from # Zero
    /\ conn[c].phase \in {"accepted", "follow", "stream"} => conn[c].from.term <= Term
    /\ \A i \in 1 .. Len(pipe[c]) :
          /\ pipe[c][i].kind = "B" /\ pipe[c][i].at # Zero
          /\ reaches(pipe[c][i].at, pipe[c][i].base)

\* No store is ever reset: each is where its peak is.
NoReset ==
    \A n \in Node : /\ taking[n] = None /\ applied[n] # Zero
                    /\ reaches(applied[n], peak[n])

Plain == NoReset /\ \A c \in Conn : PlainStream(c)

\* Nothing is on its way to begin with.
LEMMA PlainInit == ASSUME Steady, Init PROVE Plain
<1>1. /\ \A n \in Node : taking[n] = None /\ applied[n] \in InitialApplied
                         /\ peak[n] = applied[n]
      /\ \A c \in Conn : conn[c] = idle /\ pipe[c] = <<>>
  BY DEF Init
<1>2. NoReset
  BY <1>1, SemiSyncAssumption, ReachesSelf DEF Steady, NoReset
<1> QED
  BY <1>1, <1>2 DEF Plain, PlainStream, idle

\* The leader's side: with nothing to reset there is nothing to snapshot.
LEMMA HandlerStaysPlain ==
    ASSUME Steady, TypeOK, Plain, NEW c \in Conn, HandlerStep(c) PROVE Plain'
<1> USE SemiSyncAssumption
<1>t. /\ conn \in [Conn -> Handler] /\ pipe \in [Conn -> Seq(Frame)]
      /\ conn[c].phase # "idle" => conn[c].from \in Position
      /\ idle.phase = "idle" /\ idle.snap = None /\ seq \in Nat
  BY DEF TypeOK, LeaderTypes, StreamTypes, idle
<1>p. PlainStream(c)
  BY DEF Plain
<1>1. UNCHANGED <<taking, applied, peak>>
  BY DEF HandlerStep, Accept, Attach, SendSnapshot, FollowFrom, Diverged,
     SendBatch, End, Detach, nodeVars
<1>2. \A d \in Conn \ {c} : conn'[d] = conn[d] /\ pipe'[d] = pipe[d]
  BY <1>t DEF HandlerStep, Accept, Attach, SendSnapshot, FollowFrom, Diverged,
     SendBatch, End, Detach
<1>3. PlainStream(c)'
  <2>1. CASE Accept(c)
    <3>1. /\ pipe' = pipe
          /\ \/ conn'[c] = idle
             \/ /\ conn[c].phase = "asked" /\ conn[c].from # Zero
                /\ ~(conn[c].from.term > Term)
                /\ conn'[c].phase = "accepted" /\ conn'[c].from = conn[c].from
                /\ conn'[c].snap = None
      BY <2>1, <1>t, <1>p DEF Accept, PlainStream, Handler
    <3>2. conn'[c].phase = "accepted" => conn'[c].from.term <= Term
      BY <3>1, <1>t DEF Position
    <3> QED
      BY <3>1, <3>2, <1>t, <1>p DEF PlainStream
  <2>2. CASE Attach(c) \/ FollowFrom(c) \/ End(c)
    BY <2>2, <1>t, <1>p DEF Attach, FollowFrom, End, PlainStream, Handler
  <2>3. CASE SendBatch(c)
    <3>1. PICK s \in conn[c].from.seq + 1 .. seq :
             /\ pipe' = [pipe EXCEPT ![c] = Append(@, [kind |-> "B",
                             at |-> [term |-> Term, seq |-> s], base |-> conn[c].from])]
             /\ conn' = [conn EXCEPT ![c].from = [term |-> Term, seq |-> s]]
      BY <2>3 DEF SendBatch
    <3> DEFINE next == [term |-> Term, seq |-> s]
               frame == [kind |-> "B", at |-> next, base |-> conn[c].from]
               q == pipe[c]
    <3>2. conn[c].phase = "stream" /\ conn[c].from \in Position /\ conn[c].from.term <= Term
      BY <2>3, <1>t, <1>p DEF SendBatch, PlainStream
    <3>3. next # Zero /\ next.term = Term /\ reaches(next, conn[c].from)
      BY <3>1, <3>2, <1>t DEF Position, Zero, reaches
    <3>4. /\ pipe'[c] = Append(q, frame) /\ q \in Seq(Frame)
          /\ conn'[c].phase = "stream" /\ conn'[c].from = next /\ conn'[c].snap = None
      BY <3>1, <3>2, <1>t, <1>p DEF PlainStream, Handler
    <3>5. frame.kind = "B" /\ frame.at = next /\ frame.base = conn[c].from
      OBVIOUS
    <3> HIDE DEF next, frame, q
    <3>6. \A i \in 1 .. Len(pipe'[c]) :
             pipe'[c][i] = frame \/ (i \in 1 .. Len(q) /\ pipe'[c][i] = q[i])
      BY <3>4
    <3>7. \A i \in 1 .. Len(pipe'[c]) :
             /\ pipe'[c][i].kind = "B" /\ pipe'[c][i].at # Zero
             /\ reaches(pipe'[c][i].at, pipe'[c][i].base)
      <4>1. \A i \in 1 .. Len(q) : /\ q[i].kind = "B" /\ q[i].at # Zero
                                   /\ reaches(q[i].at, q[i].base)
        BY <1>p DEF PlainStream, q
      <4>2. frame.kind = "B" /\ frame.at # Zero /\ reaches(frame.at, frame.base)
        BY <3>3, <3>5
      <4> QED
        BY ONLY <3>6, <4>1, <4>2
    <3> QED
      BY <3>3, <3>4, <3>7 DEF PlainStream
  <2>4. CASE Detach(c)
    BY <2>4, <1>t, <1>p DEF Detach, PlainStream, Handler
  <2>5. ~SendSnapshot(c) /\ ~Diverged(c)
    BY <1>p DEF SendSnapshot, Diverged, PlainStream, Steady
  <2> QED
    BY <2>1, <2>2, <2>3, <2>4, <2>5 DEF HandlerStep
<1> QED
  BY <1>1, <1>2, <1>3 DEF Plain, NoReset, PlainStream

\* The follower's side: a batch takes a store on from where it is.
LEMMA FollowerStaysPlain ==
    ASSUME Steady, TypeOK, InOrder, Plain, NEW n \in Node, FollowerStep(n) \/ Fault(n)
    PROVE  Plain' /\ \A m \in Node : reaches(applied'[m], applied[m])
<1> USE SemiSyncAssumption
<1>t. /\ conn \in [Conn -> Handler] /\ pipe \in [Conn -> Seq(Frame)]
      /\ taking \in [Node -> Position \cup {None}] /\ applied \in [Node -> Position]
      /\ peak \in [Node -> Position] /\ idle.phase = "idle" /\ idle.snap = None
  BY DEF TypeOK, NodeTypes, StreamTypes, idle
<1>p. NoReset /\ \A c \in Conn : PlainStream(c)
  BY DEF Plain
<1>s. \A m \in Node : reaches(applied[m], applied[m])
  BY <1>t, ReachesSelf
<1>1. CASE Dial(n)
  <2>1. PICK c \in Conn : conn' = [conn EXCEPT ![c] = [phase |-> "asked", id |-> name[n],
                                                       from |-> applied[n], snap |-> None]]
    BY <1>1 DEF Dial
  <2>2. UNCHANGED <<taking, applied, peak, pipe>>
    BY <1>1 DEF Dial
  <2>3. \A d \in Conn : PlainStream(d)'
    BY <2>1, <2>2, <1>t, <1>p DEF PlainStream, NoReset
  <2> QED
    BY <2>2, <2>3, <1>p, <1>s DEF Plain, NoReset
<1>2. CASE ReceiveBatch(n)
  <2>1. PICK c \in Conn : c = reading[n]
    BY <1>2 DEF ReceiveBatch
  <2> DEFINE q == pipe[c]
             f == q[1]
  <2>2. q \in Seq(Frame) /\ q # <<>>
    BY <1>2, <2>1, <1>t DEF ReceiveBatch
  <2>3. Head(q) = f /\ 1 \in 1 .. Len(q) /\ f \in Frame
    BY <2>2
  <2>4. /\ applied' = [applied EXCEPT ![n] = f.at]
        /\ peak' = [peak EXCEPT ![n] = Later(@, f.at)]
        /\ pipe' = [pipe EXCEPT ![c] = Tail(q)] /\ UNCHANGED <<conn, taking>>
        /\ f.kind = "B"
    BY <1>2, <2>1, <2>3 DEF ReceiveBatch
  <2>5. f.at \in Position /\ f.at # Zero /\ reaches(f.at, f.base)
    BY <2>3, <1>p DEF Frame, PlainStream
  <2>6. f.base = applied[n]
    BY <2>1, <2>3, <2>4, <1>p DEF InOrder, SlotInOrder, InStep, held, NoReset
  <2> HIDE DEF q, f
  <2>7. reaches(f.at, applied[n]) /\ reaches(f.at, peak[n])
    BY <2>5, <2>6, <1>t, <1>p, ReachesTransitive DEF NoReset
  <2>8. reaches(f.at, Later(peak[n], f.at))
    BY <2>5, <2>7, ReachesSelf DEF Later
  <2>9. NoReset' /\ \A m \in Node : reaches(applied'[m], applied[m])
    BY <2>4, <2>5, <2>7, <2>8, <1>t, <1>p, <1>s DEF NoReset
  <2>10. \A i \in 1 .. Len(Tail(q)) : Tail(q)[i] = q[i + 1] /\ i + 1 \in 1 .. Len(q)
    BY <2>2
  <2>11. PlainStream(c)'
    <3>1. conn'[c] = conn[c] /\ pipe'[c] = Tail(q)
      BY <2>4, <1>t
    <3> QED
      BY <3>1, <2>10, <1>p DEF PlainStream, q
  <2>12. \A d \in Conn \ {c} : PlainStream(d)'
    BY <2>4, <1>t, <1>p DEF PlainStream
  <2> QED
    BY <2>9, <2>11, <2>12 DEF Plain
<1>3. ~TakeSnapshot(n) /\ ~TookSnapshot(n) /\ ~Restart(n)
  <2>1. ~TookSnapshot(n) /\ ~Restart(n)
    BY <1>p DEF TookSnapshot, Restart, NoReset, Steady
  <2>2. ASSUME TakeSnapshot(n) PROVE FALSE
    <3>1. PICK c \in Conn : c = reading[n] /\ pipe[c] # <<>> /\ Head(pipe[c]).kind = "S"
      BY <2>2 DEF TakeSnapshot
    <3>2. pipe[c] \in Seq(Frame)
      BY <1>t
    <3>3. Head(pipe[c]) = pipe[c][1] /\ 1 \in 1 .. Len(pipe[c])
      BY <3>1, <3>2
    <3> QED
      BY <3>1, <3>3, <1>p DEF PlainStream
  <2> QED
    BY <2>1, <2>2
<1>4. CASE HangUp(n) \/ Drop(n)
  <2>1. UNCHANGED <<applied, peak>> /\ \A m \in Node : taking'[m] = None
    BY <1>4, <1>t, <1>p DEF HangUp, Drop, NoReset
  <2>2. \/ UNCHANGED <<conn, pipe>>
        \/ \E c \in Conn : /\ conn' = [conn EXCEPT ![c] = idle]
                           /\ pipe' = pipe \/ pipe' = [pipe EXCEPT ![c] = <<>>]
    BY <1>4 DEF HangUp, Drop, abandon, streamVars
  <2>3. \A d \in Conn : PlainStream(d)'
    BY <2>2, <1>t, <1>p DEF PlainStream
  <2> QED
    BY <2>1, <2>3, <1>p, <1>s DEF Plain, NoReset
<1>5. CASE PostAck(n) \/ PostFails(n)
  <2>1. UNCHANGED <<conn, pipe, taking, applied, peak>>
    BY <1>5 DEF PostAck, PostFails, nodeVars, streamVars
  <2> QED
    BY <2>1, <1>p, <1>s DEF Plain, NoReset, PlainStream
<1> QED
  BY <1>1, <1>2, <1>3, <1>4, <1>5 DEF FollowerStep, Fault

\* No step needs a snapshot where none was, and none takes a store back.
LEMMA PlainStep ==
    ASSUME Steady, TypeOK, InOrder, Plain, [Next]_vars
    PROVE  Plain' /\ \A m \in Node : reaches(applied'[m], applied[m])
<1>s. \A m \in Node : reaches(applied[m], applied[m])
  BY ReachesSelf DEF TypeOK, NodeTypes
<1>1. CASE UNCHANGED <<conn, pipe, taking, applied, peak>>
  BY <1>1, <1>s DEF Plain, NoReset, PlainStream
<1>2. ASSUME NEW w \in Write, WriteStep(w)
      PROVE  UNCHANGED <<conn, pipe, taking, applied, peak>>
  BY <1>2 DEF WriteStep, Store, AskPosition, Count, TimeOut, streamVars, nodeVars
<1>3. (\E p \in posts : Acknowledge(p)) \/ CloseStreams \/ UNCHANGED vars
         => UNCHANGED <<conn, pipe, taking, applied, peak>>
  BY DEF Acknowledge, CloseStreams, vars, streamVars, nodeVars
<1>4. ASSUME NEW c \in Conn, HandlerStep(c) PROVE UNCHANGED applied
  BY <1>4 DEF HandlerStep, Accept, Attach, SendSnapshot, FollowFrom, Diverged,
     SendBatch, End, Detach, nodeVars
<1> QED
  BY <1>1, <1>2, <1>3, <1>4, <1>s, HandlerStaysPlain, FollowerStaysPlain DEF Next

\* Every node goes by one id.
OneIdEach == \A i, j \in DOMAIN owner : owner[i] = owner[j] => i = j

\* A write that is counted for knows its position, and an answer ends it.
Finished ==
    \A w \in Write :
        /\ pc[w] \in {"count", "asleep", "woken"} => want[w] # None
        /\ answer[w] = 204 => pc[w] = "done" /\ want[w] # None

\* Ids are made up once, at the start, by nodes that live.
LEMMA OneIdInit == Init => OneIdEach
<1> SUFFICES ASSUME Init, NEW i \in DOMAIN owner, NEW j \in DOMAIN owner, owner[i] = owner[j]
             PROVE  i = j
  BY DEF OneIdEach
<1>1. owner = [k \in {name[n] : n \in Node} |-> CHOOSE n \in Node : name[n] = k]
  BY DEF Init
<1>2. ASSUME NEW k \in DOMAIN owner PROVE name[owner[k]] = k
  <2>1. PICK n \in Node : name[n] = k
    BY <1>1
  <2>2. owner[k] = CHOOSE m \in Node : name[m] = k
    BY <1>1
  <2> QED
    BY <2>1, <2>2
<1> QED
  BY <1>2

\* Every step leaves a node its one id.
LEMMA OneIdStep == ASSUME Steady, OneIdEach, [Next]_vars PROVE OneIdEach'
<1>1. UNCHANGED owner
  <2>1. ASSUME NEW w \in Write, WriteStep(w) PROVE UNCHANGED owner
    BY <2>1 DEF WriteStep, Store, AskPosition, Count, TimeOut, nodeVars
  <2>2. ASSUME NEW c \in Conn, HandlerStep(c) PROVE UNCHANGED owner
    BY <2>2 DEF HandlerStep, Accept, Attach, SendSnapshot, FollowFrom,
       Diverged, SendBatch, End, Detach, nodeVars
  <2>3. ASSUME NEW n \in Node, FollowerStep(n) \/ Fault(n) PROVE UNCHANGED owner
    BY <2>3 DEF FollowerStep, Dial, ReceiveBatch, TakeSnapshot, TookSnapshot,
       HangUp, PostAck, Fault, Drop, PostFails, Restart, Steady, nodeVars
  <2>4. (\E p \in posts : Acknowledge(p)) \/ CloseStreams \/ UNCHANGED vars
           => UNCHANGED owner
    BY DEF Acknowledge, CloseStreams, vars, nodeVars
  <2> QED
    BY <2>1, <2>2, <2>3, <2>4 DEF Next
<1> QED
  BY <1>1 DEF OneIdEach

Holders(pos) == {n \in Node : reaches(applied[n], pos)}

\* The ids the registry counts for a position are no more than the nodes whose
\* stores hold it.
LEMMA CountedHold ==
    ASSUME Steady, TypeOK, RegistryBacked, Plain, OneIdEach, NEW pos \in Position
    PROVE  /\ Cardinality(reached(pos)) \in Nat /\ Cardinality(Holders(pos)) \in Nat
           /\ Cardinality(reached(pos)) <= Cardinality(Holders(pos))
<1>t. /\ DOMAIN at \subseteq DOMAIN owner /\ at \in [DOMAIN at -> Position]
      /\ owner \in [DOMAIN owner -> Node] /\ applied \in [Node -> Position]
      /\ peak \in [Node -> Position]
  BY DEF TypeOK, LeaderTypes, NodeTypes
<1>1. ASSUME NEW i \in reached(pos) PROVE owner[i] \in Holders(pos)
  <2>1. i \in DOMAIN at /\ at[i] \in Position /\ reaches(at[i], pos) /\ owner[i] \in Node
    BY <1>t DEF reached
  <2>2. reaches(peak[owner[i]], at[i])
    BY <2>1 DEF RegistryBacked, Serving, Plain, PlainStream
  <2>3. reaches(applied[owner[i]], peak[owner[i]])
    BY <2>1 DEF Plain, NoReset
  <2>4. reaches(applied[owner[i]], pos)
    BY <2>1, <2>2, <2>3, <1>t, ReachesTransitive
  <2> QED
    BY <2>1, <2>4 DEF Holders
<1> DEFINE f == [i \in reached(pos) |-> owner[i]]
<1>2. f \in Injection(reached(pos), Holders(pos))
  <2>1. \A i, j \in reached(pos) : f[i] = f[j] => i = j
    BY <1>t DEF OneIdEach, reached
  <2>2. f \in [reached(pos) -> Holders(pos)]
    BY <1>1
  <2> HIDE DEF f
  <2> QED
    BY <2>1, <2>2 DEF Injection, IsInjective
<1>3. IsFiniteSet(Holders(pos))
  BY FS_Subset DEF Steady, Holders
<1> HIDE DEF f
<1>4. IsFiniteSet(reached(pos)) /\ Cardinality(reached(pos)) <= Cardinality(Holders(pos))
  BY <1>2, <1>3, FS_Injection
<1> QED
  BY <1>3, <1>4, FS_CardinalityType

\* A write is answered once, and only when enough has been counted.
LEMMA AnswerStep ==
    ASSUME TypeOK, Finished, [Next]_vars
    PROVE  /\ Finished'
           /\ \A w \in Write : answer'[w] = 204 =>
                 \/ Need = 0
                 \/ want'[w] = want[w] /\ want[w] # None
                    /\ \/ answer[w] = 204
                       \/ Cardinality(reached(want[w])) >= Need /\ UNCHANGED applied
<1> DEFINE Honest(w) ==
             \/ Need = 0
             \/ want'[w] = want[w] /\ want[w] # None
                /\ \/ answer[w] = 204
                   \/ Cardinality(reached(want[w])) >= Need /\ UNCHANGED applied
<1>t. WriteTypes /\ Here # None
  BY SemiSyncAssumption DEF TypeOK, LeaderTypes, Here, Position
<1>1. CASE UNCHANGED <<want, answer>> /\ pc' \in {pc, woken(pc)}
  BY <1>1, <1>t DEF woken, WriteTypes, Finished
<1>2. ASSUME NEW v \in Write, WriteStep(v)
      PROVE  Finished' /\ \A w \in Write : answer'[w] = 204 => Honest(w)
  <2>1. CASE Store(v)
    BY <2>1, <1>t DEF Store, WriteTypes, Finished
  <2>2. CASE AskPosition(v)
    BY <2>2, <1>t DEF AskPosition, WriteTypes, Finished
  <2>3. CASE Count(v)
    BY <2>3, <1>t DEF Count, Answered, WriteTypes, nodeVars, Finished
  <2>4. CASE TimeOut(v)
    BY <2>4, <1>t DEF TimeOut, Answered, WriteTypes, nodeVars, Finished
  <2> QED
    BY <1>2, <2>1, <2>2, <2>3, <2>4 DEF WriteStep
<1>3. ASSUME NEW c \in Conn, HandlerStep(c)
      PROVE  UNCHANGED <<want, answer>> /\ pc' \in {pc, woken(pc)}
  BY <1>3 DEF HandlerStep, Accept, Attach, attach, SendSnapshot, FollowFrom,
     Diverged, SendBatch, End, Detach, detach, writeVars
<1>4. ASSUME NEW n \in Node, FollowerStep(n) \/ Fault(n)
      PROVE  UNCHANGED <<want, answer, pc>>
  BY <1>4 DEF FollowerStep, Dial, ReceiveBatch, TakeSnapshot, TookSnapshot,
     HangUp, PostAck, Fault, Drop, PostFails, Restart, writeVars
<1>5. ASSUME NEW p \in posts, Acknowledge(p)
      PROVE  UNCHANGED <<want, answer>> /\ pc' \in {pc, woken(pc)}
  BY <1>5 DEF Acknowledge, ack
<1>6. CloseStreams \/ UNCHANGED vars => UNCHANGED <<want, answer, pc>>
  BY DEF CloseStreams, vars, writeVars
<1> QED
  BY <1>1, <1>2, <1>3, <1>4, <1>5, <1>6 DEF Next

\* What was promised is kept because no store goes back, and is promised only
\* when it is so.
LEMMA PromiseStep ==
    ASSUME Steady, TypeOK, TypeOK', RegistryBacked, InOrder, Plain, OneIdEach, Finished,
           PromiseKept, [Next]_vars
    PROVE  Finished' /\ PromiseKept'
<1>1. Finished'
  BY AnswerStep
<1>2. ASSUME NEW w \in Write, answer'[w] = 204
      PROVE  Cardinality({n \in Node : reaches(applied'[n], want'[w])}) >= Need
  <2> DEFINE H == {n \in Node : reaches(applied'[n], want'[w])}
  <2>t. /\ applied \in [Node -> Position] /\ applied' \in [Node -> Position]
        /\ want[w] \in Position \cup {None} /\ Need \in Nat
    BY SemiSyncAssumption DEF TypeOK, NodeTypes, WriteTypes
  <2>f. IsFiniteSet(H) /\ Cardinality(H) \in Nat
    BY FS_Subset, FS_CardinalityType DEF Steady
  <2>1. CASE Need = 0
    BY <2>1, <2>f
  <2>2. CASE want'[w] = want[w] /\ want[w] # None /\ answer[w] = 204
    <3>1. Cardinality(Holders(want[w])) >= Need
      BY <2>2 DEF PromiseKept, Holders
    <3>2. Holders(want[w]) \subseteq H
      BY <2>2, <2>t, PlainStep, ReachesTransitive DEF Holders
    <3>3. Cardinality(Holders(want[w])) <= Cardinality(H) /\ Cardinality(Holders(want[w])) \in Nat
      BY <3>2, <2>f, FS_Subset, FS_CardinalityType
    <3> QED
      BY <3>1, <3>3, <2>f, <2>t
  <2>3. CASE /\ want'[w] = want[w] /\ want[w] # None
             /\ Cardinality(reached(want[w])) >= Need /\ UNCHANGED applied
    <3>1. H = Holders(want[w])
      BY <2>3 DEF Holders
    <3> QED
      BY <2>3, <2>f, <2>t, <3>1, CountedHold
  <2> QED
    BY <1>2, <2>1, <2>2, <2>3, AnswerStep
<1> QED
  BY <1>1, <1>2 DEF PromiseKept

\* README, "stored, and Litekv-Replicated followers had it"; acks.go, count and
\* await: where no follower is reset and none restarts, behind every 204 there
\* are as many stores that hold the write as were asked for (PromiseKept),
\* whatever connections and posts are lost, late or out of order.
THEOREM PromiseKeeps == ASSUME Steady PROVE Spec => []PromiseKept
<1> DEFINE Kept == InOrder /\ Plain /\ OneIdEach /\ Finished /\ PromiseKept
<1>1. Init => Kept
  <2>1. Init => Finished /\ PromiseKept
    BY SemiSyncAssumption DEF Init, Finished, PromiseKept
  <2> QED
    BY <2>1, OrderInit, PlainInit, OneIdInit
<1>2. Backed /\ TypeOK' /\ Kept /\ [Next]_vars => Kept'
  BY OrderStep, PlainStep, OneIdStep, PromiseStep DEF Backed
<1>3. Backed => TypeOK
  BY DEF Backed
<1> HIDE DEF Kept
<1>4. Kept => PromiseKept
  BY DEF Kept
<1> QED
  BY <1>1, <1>2, <1>3, <1>4, AlwaysBacked, PTL DEF Spec

(***************************************************************************)
(* The same, as a refinement of CopiedLog.                                 *)
(***************************************************************************)

\* What is on its way was cut from the leader's log.
Cut ==
    \A c \in Conn : \A i \in 1 .. Len(pipe[c]) :
        pipe[c][i].at.term = Term /\ pipe[c][i].at.seq \in 0 .. seq

\* A write that nobody has answered, and has not been given its place.
Open ==
    \A w \in Write : /\ pc[w] # "done" => answer[w] = 0
                     /\ pc[w] \in {"start", "position"} => want[w] = None

\* The frames of one more step, by what that step does to a slot.
LEMMA CutStep ==
    ASSUME Steady, TypeOK, Plain, Cut, [Next]_vars PROVE Cut' /\ seq' \in {seq, seq + 1}
<1>t. /\ pipe \in [Conn -> Seq(Frame)] /\ seq \in Nat /\ Term \in Nat
      /\ conn \in [Conn -> Handler]
      /\ \A c \in Conn : conn[c].phase # "idle" => conn[c].from \in Position
  BY SemiSyncAssumption DEF TypeOK, LeaderTypes, StreamTypes
<1>1. CASE UNCHANGED pipe /\ seq' \in {seq, seq + 1}
  BY <1>1, <1>t DEF Cut
<1>2. ASSUME NEW w \in Write, WriteStep(w) PROVE UNCHANGED pipe /\ seq' \in {seq, seq + 1}
  BY <1>2 DEF WriteStep, Store, AskPosition, Count, TimeOut, leaderVars, streamVars
<1>3. (\E p \in posts : Acknowledge(p)) \/ CloseStreams \/ UNCHANGED vars
         => UNCHANGED <<pipe, seq>>
  BY DEF Acknowledge, CloseStreams, vars, leaderVars, streamVars
<1>4. ASSUME NEW c \in Conn, UNCHANGED seq,
             \/ pipe' = [pipe EXCEPT ![c] = <<>>]
             \/ pipe' = [pipe EXCEPT ![c] = Tail(@)] /\ pipe[c] # <<>>
      PROVE  Cut'
  <2>1. \A d \in Conn \ {c} : pipe'[d] = pipe[d]
    BY <1>4, <1>t
  <2>2. \/ pipe'[c] = <<>>
        \/ pipe'[c] = Tail(pipe[c]) /\ pipe[c] \in Seq(Frame) /\ pipe[c] # <<>>
    BY <1>4, <1>t
  <2>3. \A i \in 1 .. Len(pipe'[c]) : i + 1 \in 1 .. Len(pipe[c]) /\ pipe'[c][i] = pipe[c][i + 1]
    <3>1. ASSUME NEW q \in Seq(Frame), q # <<>>, NEW i \in 1 .. Len(Tail(q))
          PROVE  i + 1 \in 1 .. Len(q) /\ Tail(q)[i] = q[i + 1]
      BY <3>1
    <3>2. pipe'[c] = <<>> => 1 .. Len(pipe'[c]) = {}
      OBVIOUS
    <3> QED
      BY <2>2, <3>1, <3>2
  <2> QED
    BY <1>4, <2>1, <2>3 DEF Cut
<1>5. ASSUME NEW c \in Conn, HandlerStep(c) PROVE Cut' /\ UNCHANGED seq
  <2>0. UNCHANGED seq
    BY <1>5 DEF HandlerStep, Accept, Attach, SendSnapshot, FollowFrom, Diverged, SendBatch,
       End, Detach, leaderVars
  <2>1. CASE UNCHANGED pipe
    BY <2>0, <2>1 DEF Cut
  <2>2. CASE SendBatch(c)
    <3>1. PICK s \in conn[c].from.seq + 1 .. seq : \E base :
             pipe' = [pipe EXCEPT ![c] = Append(@, [kind |-> "B", base |-> base,
                             at |-> [term |-> Term, seq |-> s]])]
      BY <2>2 DEF SendBatch
    <3>2. s \in 0 .. seq
      BY <3>1, <2>2, <1>t DEF SendBatch, Position
    <3>3. PICK f : /\ pipe' = [pipe EXCEPT ![c] = Append(@, f)]
                   /\ f.at.term = Term /\ f.at.seq \in 0 .. seq
      <4>1. PICK base : pipe' = [pipe EXCEPT ![c] = Append(@, [kind |-> "B", base |-> base,
                                                at |-> [term |-> Term, seq |-> s]])]
        BY <3>1
      <4> DEFINE g == [kind |-> "B", base |-> base, at |-> [term |-> Term, seq |-> s]]
      <4>2. g.at.term = Term /\ g.at.seq = s
        OBVIOUS
      <4>3. pipe' = [pipe EXCEPT ![c] = Append(@, g)]
        BY <4>1
      <4> HIDE DEF g
      <4> QED
        BY <4>2, <4>3, <3>2
    <3>4. /\ \A d \in Conn \ {c} : pipe'[d] = pipe[d]
          /\ pipe'[c] = Append(pipe[c], f) /\ pipe[c] \in Seq(Frame)
      BY <3>3, <1>t
    <3>5. \A i \in 1 .. Len(pipe'[c]) :
             pipe'[c][i] = f \/ (i \in 1 .. Len(pipe[c]) /\ pipe'[c][i] = pipe[c][i])
      BY <3>4
    <3> QED
      BY <2>0, <3>3, <3>4, <3>5 DEF Cut
  <2>3. CASE pipe' = [pipe EXCEPT ![c] = <<>>]
    BY <2>0, <2>3, <1>4
  <2>4. ~SendSnapshot(c)
    BY DEF SendSnapshot, Plain, PlainStream
  <2> QED
    BY <1>5, <2>1, <2>2, <2>3, <2>4 DEF HandlerStep, Accept, Attach, FollowFrom, Diverged,
       End, Detach
<1>6. ASSUME NEW n \in Node, FollowerStep(n) \/ Fault(n) PROVE Cut' /\ UNCHANGED seq
  <2>0. UNCHANGED seq
    BY <1>6 DEF FollowerStep, Dial, ReceiveBatch, TakeSnapshot, TookSnapshot, HangUp,
       PostAck, Fault, Drop, PostFails, Restart, leaderVars
  <2>1. CASE UNCHANGED pipe
    BY <2>0, <2>1 DEF Cut
  <2>2. CASE \E c \in Conn : \/ pipe' = [pipe EXCEPT ![c] = <<>>]
                             \/ pipe' = [pipe EXCEPT ![c] = Tail(@)] /\ pipe[c] # <<>>
    BY <2>0, <2>2, <1>4
  <2> QED
    BY <1>6, <2>1, <2>2 DEF FollowerStep, Dial, ReceiveBatch, TakeSnapshot, TookSnapshot,
       HangUp, PostAck, Fault, Drop, PostFails, Restart, abandon, streamVars
<1> QED
  BY <1>1, <1>2, <1>3, <1>5, <1>6 DEF Next

\* A write step places a write or answers it, as the abstract log does.
LEMMA WriteCopies ==
    ASSUME Steady, TypeOK, RegistryBacked, Plain, OneIdEach, Finished, Open,
           NEW w \in Write, WriteStep(w)
    PROVE  Open' /\ [Promised!Next]_<<Here, applied, want, answer>>
<1>t. /\ WriteTypes /\ Need \in Nat
      /\ pc[w] # "done" => answer[w] = 0
      /\ pc[w] \in {"start", "position"} => want[w] = None
      /\ pc[w] \in {"count", "asleep", "woken"} => want[w] # None
  BY SemiSyncAssumption DEF TypeOK, Open, Finished
<1>o. Here # None
  BY SemiSyncAssumption DEF TypeOK, LeaderTypes, Here, Position
<1>1. CASE Store(w)
  <2>1. Open'
    BY <1>1, <1>t DEF Store, Open, WriteTypes
  <2>2. CASE fenced
    <3>1. Promised!Tell(w)
      BY <1>1, <2>2, <1>t DEF Store, Promised!Tell, Here, nodeVars
    <3> QED
      BY <2>1, <3>1 DEF Promised!Next
  <2>3. CASE ~fenced
    <3>1. Here' = [Here EXCEPT !.seq = @ + 1]
      BY <1>1, <2>3 DEF Store, Here
    <3>2. Promised!Append
      BY <1>1, <2>3, <3>1 DEF Store, Promised!Append, nodeVars
    <3> QED
      BY <2>1, <3>2 DEF Promised!Next
  <2> QED
    BY <2>2, <2>3
<1>2. CASE AskPosition(w)
  <2>1. Open'
    BY <1>2, <1>t DEF AskPosition, Open, WriteTypes
  <2>2. Promised!Place(w)
    BY <1>2, <1>t DEF AskPosition, Promised!Place, Here, nodeVars, leaderVars
  <2> QED
    BY <2>1, <2>2 DEF Promised!Next
<1>3. CASE Count(w) \/ TimeOut(w)
  <2>1. Open'
    BY <1>3, <1>t DEF Count, TimeOut, Answered, Open, WriteTypes
  <2>2. UNCHANGED <<Here, applied, want>> /\ answer[w] = 0 /\ want[w] # None
    BY <1>3, <1>t DEF Count, TimeOut, Here, leaderVars, nodeVars
  <2>3. CASE UNCHANGED answer
    BY <2>1, <2>2, <2>3
  <2>4. CASE Answered(w)
    <3>1. Promised!holding(w) = Holders(want[w])
      BY DEF Promised!holding, Holders, Promised!reaches, reaches
    <3>c. Promised!Cardinality(Promised!holding(w)) = Cardinality(Holders(want[w]))
      BY <3>1 DEF Promised!Cardinality, Cardinality, Promised!IsFiniteSet, IsFiniteSet
    <3>2. Cardinality(reached(want[w])) >= Need
             => Promised!Cardinality(Promised!holding(w)) >= Need
      BY <2>2, <3>c, <1>t, CountedHold DEF WriteTypes
    <3>3. \/ answer' = [answer EXCEPT ![w] = 202]
          \/ answer' = [answer EXCEPT ![w] = 204] /\ Cardinality(reached(want[w])) >= Need
      BY <2>4 DEF Answered
    <3>4. Promised!Tell(w)
      BY <2>2, <3>2, <3>3 DEF Promised!Tell
    <3> QED
      BY <2>1, <3>4 DEF Promised!Next
  <2> QED
    BY <1>3, <2>3, <2>4 DEF Count, TimeOut
<1> QED
  BY <1>1, <1>2, <1>3 DEF WriteStep

\* What a follower does takes its own store forward within the leader's log.
LEMMA FollowerCopies ==
    ASSUME Steady, TypeOK, InOrder, Plain, Cut, NEW n \in Node, FollowerStep(n) \/ Fault(n)
    PROVE  [Promised!Next]_<<Here, applied, want, answer>>
<1>t. /\ pipe \in [Conn -> Seq(Frame)] /\ applied \in [Node -> Position]
  BY DEF TypeOK, NodeTypes, StreamTypes
<1>1. UNCHANGED <<Here, want, answer>>
  BY DEF FollowerStep, Dial, ReceiveBatch, TakeSnapshot, TookSnapshot, HangUp, PostAck,
     Fault, Drop, PostFails, Restart, leaderVars, writeVars, Here
<1>2. CASE UNCHANGED applied
  BY <1>1, <1>2
<1>3. CASE ReceiveBatch(n)
  <2>1. PICK c \in Conn : /\ pipe[c] # <<>>
                          /\ applied' = [applied EXCEPT ![n] = Head(pipe[c]).at]
    BY <1>3 DEF ReceiveBatch
  <2>2. Head(pipe[c]) = pipe[c][1] /\ 1 \in 1 .. Len(pipe[c]) /\ pipe[c][1] \in Frame
    BY <2>1, <1>t
  <2> DEFINE p == pipe[c][1].at
  <2>3. p \in Position /\ p.term = Term /\ p.seq \in 0 .. seq
    BY <2>2 DEF Cut, Frame
  <2>4. p = [Here EXCEPT !.seq = p.seq]
    BY <2>3 DEF Position, Here
  <2>5. reaches(applied'[n], applied[n])
    BY FollowerStaysPlain
  <2>6. applied' = [applied EXCEPT ![n] = [Here EXCEPT !.seq = p.seq]] /\ Here.seq = seq
    BY <2>1, <2>2, <2>4 DEF Here
  <2>7. Promised!Copy(n)
    BY <1>1, <2>3, <2>5, <2>6 DEF Promised!Copy, Promised!reaches, reaches
  <2> QED
    BY <2>7 DEF Promised!Next
<1>4. ~TakeSnapshot(n) /\ ~TookSnapshot(n)
  <2>1. ~TookSnapshot(n)
    BY DEF TookSnapshot, Plain, NoReset
  <2>2. ASSUME TakeSnapshot(n) PROVE FALSE
    <3>1. PICK c \in Conn : c = reading[n] /\ pipe[c] # <<>> /\ Head(pipe[c]).kind = "S"
      BY <2>2 DEF TakeSnapshot
    <3>2. pipe[c] \in Seq(Frame)
      BY <1>t
    <3>3. Head(pipe[c]) = pipe[c][1] /\ 1 \in 1 .. Len(pipe[c])
      BY <3>1, <3>2
    <3> QED
      BY <3>1, <3>3 DEF Plain, PlainStream
  <2> QED
    BY <2>1, <2>2
<1> QED
  BY <1>2, <1>3, <1>4 DEF FollowerStep, Dial, HangUp, PostAck, Fault, Drop, PostFails,
     Restart, nodeVars

\* Every step is one of CopiedLog's, or changes nothing it sees.
LEMMA PromisedStep ==
    ASSUME Steady, TypeOK, RegistryBacked, InOrder, Plain, OneIdEach, Finished, Open, Cut,
           [Next]_vars
    PROVE  Open' /\ [Promised!Next]_<<Here, applied, want, answer>>
<1>t. WriteTypes
  BY DEF TypeOK
<1>1. ASSUME UNCHANGED <<want, answer>>, pc' \in {pc, woken(pc)} PROVE Open'
  <2>1. \A w \in Write : pc'[w] = pc[w] \/ (pc[w] = "asleep" /\ pc'[w] = "woken")
    BY <1>1, <1>t DEF woken, WriteTypes
  <2> QED
    BY <1>1, <2>1 DEF Open
<1>2. ASSUME NEW c \in Conn, HandlerStep(c)
      PROVE  /\ UNCHANGED <<Here, applied, want, answer>> /\ pc' \in {pc, woken(pc)}
  BY <1>2 DEF HandlerStep, Accept, Attach, attach, SendSnapshot, FollowFrom, Diverged,
     SendBatch, End, Detach, detach, Here, leaderVars, nodeVars, writeVars
<1>3. ASSUME NEW n \in Node, FollowerStep(n) \/ Fault(n) PROVE UNCHANGED <<want, answer, pc>>
  BY <1>3 DEF FollowerStep, Dial, ReceiveBatch, TakeSnapshot, TookSnapshot, HangUp,
     PostAck, Fault, Drop, PostFails, Restart, writeVars
<1>4. ASSUME NEW p \in posts, Acknowledge(p)
      PROVE  UNCHANGED <<Here, applied, want, answer>> /\ pc' \in {pc, woken(pc)}
  BY <1>4 DEF Acknowledge, ack, Here, leaderVars, nodeVars
<1>5. CloseStreams \/ UNCHANGED vars => UNCHANGED <<Here, applied, want, answer, pc>>
  BY DEF CloseStreams, vars, Here, leaderVars, nodeVars, writeVars
<1> QED
  BY <1>1, <1>2, <1>3, <1>4, <1>5, WriteCopies, FollowerCopies DEF Next

\* acks.go, role.go wrote and follower.go stream, together: where no follower is
\* reset and none restarts, semi-synchronous replication implements CopiedLog
\* (CopiesKeepThePromise), for any number of nodes, streams and writes.
THEOREM Copies == ASSUME Steady PROVE Spec => CopiesKeepThePromise
<1> DEFINE Kept == InOrder /\ Plain /\ OneIdEach /\ Finished /\ Open /\ Cut
<1>1. Init => Kept
  <2>1. Init => Finished /\ Open /\ Cut
    BY SemiSyncAssumption DEF Init, Finished, Open, Cut
  <2> QED
    BY <2>1, OrderInit, PlainInit, OneIdInit
<1>2. Init => Promised!Init
  BY SemiSyncAssumption DEF Init, Promised!Init, Here, Promised!Position, Position
<1>3. Backed /\ Kept /\ [Next]_vars
         => Kept' /\ [Promised!Next]_<<Here, applied, want, answer>>
  BY OrderStep, PlainStep, OneIdStep, AnswerStep, CutStep, PromisedStep DEF Backed
<1> HIDE DEF Kept
<1> QED
  BY <1>1, <1>2, <1>3, AlwaysBacked, PTL DEF Spec, CopiesKeepThePromise, Promised!Spec
=============================================================================
