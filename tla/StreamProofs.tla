---------------------------- MODULE StreamProofs ----------------------------
(***************************************************************************)
(* Proofs about a replication connection: what two goroutines write to one *)
(* response is read as the frames they wrote, the response is left alone   *)
(* once the handler has returned, and a Follower never comes back without  *)
(* a wait.                                                                 *)
(***************************************************************************)
EXTENDS Stream, SequenceLemmas, SequenceTheorems

(***************************************************************************)
(* The inductive invariant.                                                *)
(***************************************************************************)

Piece == {p \in [frame : Frame, part : 1..(Chunks+1), age : 0..Latency] : p.part \in 1..parts(p.frame)}

\* The leader's half, with the frames that are half written as sequences.
LeaderTyped ==
    /\ written \in 0..MaxBatches /\ next \in 1..(MaxBatches + 1)
    /\ streams \in BOOLEAN /\ ticked \in BOOLEAN
    /\ served \in BOOLEAN /\ broken \in BOOLEAN /\ until \in BOOLEAN
    /\ rec \in Place /\ beat \in {"select", "sending", "done"}
    /\ beat # "done" => Heartbeat > 0
    /\ ticker \in 0..Heartbeat /\ lag \in 0..ChunkGap
    /\ mu \in Writer \cup {None}
    /\ todo \in [Writer -> Seq(Piece)]

PipeTyped ==
    /\ conn \in {"none", "up", "closed", "silent"}
    /\ buffer \in Seq(Piece) /\ wire \in Seq(Piece)

Reader == [at    : {"header", "payload", "apply", "lost"},
           frame : Frame \cup {None},
           left  : 0..Chunks,
           work  : 0..ApplyTime]

FollowerTyped ==
    /\ phase \in {"dial", "asking", "streaming", "waiting"}
    /\ reader \in Reader
    /\ reader.at \in {"payload", "apply"} => reader.frame \in Frame
    /\ applied \in 0..MaxBatches /\ heard \in Frame \cup {None}
    /\ idle \in 0..Idle /\ cut \in BOOLEAN /\ lasted \in 0..MaxBackoff
    /\ wait \in MinBackoff..MaxBackoff /\ delay \in 0..MaxBackoff

TypeInv == LeaderTyped /\ PipeTyped /\ FollowerTyped

\* Who holds the response, and who means to write to it.
TurnsInv ==
    /\ rec # "sending" => todo["records"] = <<>> /\ mu # "records"
    /\ beat # "sending" => todo["heartbeat"] = <<>> /\ mu # "heartbeat"
    /\ rec \in {"none", "accept", "returned"} => beat = "done"

\* Where the two ends of a connection are.
EndsInv ==
    /\ phase # "streaming" => reader = noReader
    /\ conn = "up" => phase \in {"asking", "streaming"}
    /\ conn = "up" /\ phase = "asking" => rec = "accept"
    /\ rec = "accept" => buffer = <<>> /\ wire = <<>>
    /\ phase = "streaming" => rec \notin {"none", "accept"}

\* b is what comes after a.
follows(a, b) == IF isLast(a) THEN b.part = 1
                              ELSE b.frame = a.frame /\ b.part = a.part + 1

runsOn(q) == \A i \in 1..(Len(q) - 1) : follows(q[i], q[i + 1])

\* The piece that is next to be read.
awaits(p) == IF reader.at = "payload"
             THEN p.frame = reader.frame /\ p.part = parts(p.frame) - reader.left + 1
             ELSE p.part = 1

\* What a writer has yet to write is the end of one frame, and all of it until
\* it has the lock.
TodoInv ==
    \A g \in Writer : todo[g] # <<>> =>
        /\ runsOn(todo[g])
        /\ isLast(todo[g][Len(todo[g])])
        /\ mu # g => todo[g][1].part = 1

line == wire \o buffer

\* p, or nothing at all, is what belongs after the pieces on the way.
continues(p) == IF line = <<>> THEN awaits(p) ELSE follows(line[Len(line)], p)

\* Whatever has begun to be written is what is being read, on the way, or in the
\* hands of the one that holds the response.
LineInv ==
    conn = "up" /\ reader.at # "lost" =>
        /\ reader.at = "payload" => reader.left \in 1..(parts(reader.frame) - 1)
        /\ line # <<>> => awaits(line[1])
        /\ runsOn(line)
        /\ IF mu # None /\ todo[mu] # <<>>
           THEN continues(todo[mu][1])
           ELSE IF line = <<>> THEN reader.at # "payload" ELSE isLast(line[Len(line)])

StreamInv == TypeInv /\ TurnsInv /\ EndsInv /\ TodoInv /\ LineInv

(***************************************************************************)
(* Frames and their pieces.                                                *)
(***************************************************************************)

\* A heartbeat is one part; everything else is more.
LEMMA PartsOf ==
    ASSUME NEW f \in Frame
    PROVE  /\ parts(f) \in 1..(Chunks + 1)
           /\ parts(f) = 1 <=> f.kind = "heartbeat"
           /\ f.kind # "snapshot" => parts(f) <= 2
BY StreamAssumption DEF parts, Frame, Kind

\* The pieces of a frame are its parts, in order.
LEMMA PiecesOf ==
    ASSUME NEW f \in Frame
    PROVE  /\ pieces(f) \in Seq(Piece) /\ pieces(f) # <<>>
           /\ Len(pieces(f)) = parts(f)
           /\ runsOn(pieces(f))
           /\ pieces(f)[1].part = 1
           /\ isLast(pieces(f)[Len(pieces(f))])
<1> DEFINE q == pieces(f)
<1>1. parts(f) \in Nat \ {0}
  BY PartsOf, StreamAssumption
<1>2. \A i \in 1..parts(f) : [frame |-> f, part |-> i, age |-> 0] \in Piece
  BY PartsOf, StreamAssumption DEF Piece
<1>3. /\ q \in Seq(Piece) /\ Len(q) = parts(f)
      /\ \A i \in 1..parts(f) : q[i] = [frame |-> f, part |-> i, age |-> 0]
  BY <1>1, <1>2 DEF pieces
<1>4. q # <<>>
  BY <1>1, <1>3
<1> HIDE DEF q
<1>5. runsOn(q)
  BY <1>1, <1>3 DEF runsOn, follows, isLast
<1>6. q[1].part = 1 /\ isLast(q[Len(q)])
  BY <1>1, <1>3 DEF isLast
<1> QED
  BY <1>3, <1>4, <1>5, <1>6 DEF q

\* Half of a wait is a wait.
LEMMA Half ==
    ASSUME NEW w \in Nat
    PROVE  /\ w \div 2 \in 0..w /\ (w > 1 => w \div 2 > 0)
           /\ \A j \in 0..(w \div 2) : w \div 2 + j \in (w \div 2)..w
OBVIOUS

\* What stream leaves behind when it returns.
LEMMA Returns ==
    ASSUME FollowerTyped, NEW refused \in BOOLEAN, streamReturns(refused)
    PROVE  /\ phase' = "waiting" /\ reader' = noReader /\ idle' = 0 /\ cut' = FALSE
           /\ lasted' = 0 /\ wire' = <<>>
           /\ conn' = IF conn = "up" THEN "closed" ELSE conn
           /\ wait' \in MinBackoff..MaxBackoff
           /\ delay' \in (wait' \div 2)..wait'
           /\ lasted = MaxBackoff => wait' = MinBackoff
<1> DEFINE w == longerWait(refused)
<1>1. /\ MinBackoff \in Nat /\ MaxBackoff \in Nat /\ MinBackoff <= MaxBackoff
      /\ wait \in MinBackoff..MaxBackoff /\ lasted \in 0..MaxBackoff
  BY StreamAssumption DEF FollowerTyped
<1>2. w \in MinBackoff..MaxBackoff /\ (lasted = MaxBackoff => w = MinBackoff)
  <2>1. CASE lasted >= MaxBackoff
    BY <1>1, <2>1 DEF longerWait
  <2>2. CASE ~(lasted >= MaxBackoff) /\ refused
    BY <1>1, <2>2 DEF longerWait
  <2>3. CASE ~(lasted >= MaxBackoff) /\ ~refused
    <3>1. lesser(2 * wait, MaxBackoff) \in MinBackoff..MaxBackoff
      BY <1>1 DEF lesser
    <3> QED
      BY <1>1, <2>3, <3>1 DEF longerWait
  <2> QED
    BY <2>1, <2>2, <2>3
<1> HIDE DEF w
<1>3. wait' = w /\ \E jitter \in 0..(w \div 2) : delay' = w \div 2 + jitter
  BY DEF streamReturns, w
<1>4. w \in Nat
  BY <1>1, <1>2
<1>5. delay' \in (w \div 2)..w
  BY <1>3, <1>4, Half
<1> QED
  BY <1>2, <1>3, <1>5 DEF streamReturns

(***************************************************************************)
(* Types.                                                                  *)
(***************************************************************************)

\* What a piece is made of.
LEMMA PieceParts ==
    ASSUME NEW p \in Piece
    PROVE  /\ p.frame \in Frame /\ p.part \in 1..(Chunks + 1)
           /\ p.part <= parts(p.frame) /\ parts(p.frame) \in 1..(Chunks + 1)
           /\ p.age \in 0..Latency
BY PartsOf DEF Piece

\* Pieces grow older, and nothing else of them changes.
LEMMA OlderPieces ==
    ASSUME NEW q \in Seq(Piece)
    PROVE  /\ older(q) \in Seq(Piece) /\ Len(older(q)) = Len(q)
           /\ \A i \in 1..Len(q) : older(q)[i].frame = q[i].frame /\ older(q)[i].part = q[i].part
<1> DEFINE o(i) == [q[i] EXCEPT !.age = lesser(@ + 1, Latency)]
<1>1. \A i \in 1..Len(q) : o(i) \in Piece /\ o(i).frame = q[i].frame /\ o(i).part = q[i].part
  <2> SUFFICES ASSUME NEW i \in 1..Len(q)
               PROVE  o(i) \in Piece /\ o(i).frame = q[i].frame /\ o(i).part = q[i].part
    OBVIOUS
  <2>1. q[i] \in Piece
    OBVIOUS
  <2>2. lesser(q[i].age + 1, Latency) \in 0..Latency
    BY <2>1, PieceParts, StreamAssumption DEF lesser
  <2> QED
    BY <2>1, <2>2 DEF Piece
<1>2. older(q) = [i \in 1..Len(q) |-> o(i)]
  BY DEF older
<1> HIDE DEF o
<1> QED
  BY <1>1, <1>2

\* The leader's variables keep their types ...
LEMMA LeaderTypedStep ==
    ASSUME TypeInv, TurnsInv, [Next]_vars
    PROVE  LeaderTyped'
<1> USE StreamAssumption DEF TypeInv
<1>1. CASE UNCHANGED leader
  BY <1>1 DEF LeaderTyped, leader
<1>2. CASE \E g \in Writer : Lock(g)
  BY <1>2 DEF LeaderTyped, Lock
<1>3. CASE \E g \in Writer : Write(g)
  BY <1>3 DEF LeaderTyped, Write
<1>4. CASE \E g \in Writer : Flush(g)
  BY <1>4 DEF LeaderTyped, Flush, goesOn, TurnsInv, Place, Writer
<1>5. CASE \E g \in Writer : WriteFails(g)
  <2> PICK g \in Writer : WriteFails(g)
    BY <1>5
  <2>1. todo' \in [Writer -> Seq(Piece)]
    BY DEF LeaderTyped, WriteFails
  <2>2. /\ rec' \in Place /\ beat' \in {"select", "sending", "done"} /\ broken' \in BOOLEAN
        /\ beat' # "done" => beat # "done"
    BY DEF LeaderTyped, WriteFails, givesUp, Place
  <2> QED
    BY <2>1, <2>2 DEF LeaderTyped, WriteFails
<1>6. CASE Accept
  <2>1. [kind |-> "snapshot", at |-> written] \in Frame
    BY DEF LeaderTyped, Frame, Kind
  <2> DEFINE f == [kind |-> "snapshot", at |-> written]
  <2>4. pieces(f) \in Seq(Piece)
    BY <2>1, PiecesOf
  <2>5. todo' = todo \/ todo' = [todo EXCEPT !["records"] = pieces(f)]
    BY <1>6 DEF Accept
  <2>6. next' \in 1..(MaxBatches + 1) /\ rec' \in Place
    BY <1>6 DEF Accept, LeaderTyped, FollowerTyped, Place
  <2>2. /\ todo' \in [Writer -> Seq(Piece)] /\ next' \in 1..(MaxBatches + 1)
        /\ rec' \in Place
    BY <2>4, <2>5, <2>6 DEF LeaderTyped
  <2>3. /\ beat' \in {"select", "done"} /\ (beat' # "done" => Heartbeat > 0)
        /\ ticker' \in 0..Heartbeat
    BY <1>6 DEF Accept
  <2> QED
    BY <1>6, <2>2, <2>3 DEF Accept, LeaderTyped
<1>7. CASE TurnedAway \/ FollowReturns \/ Served \/ BeatingWait \/ Watch \/ BeatEnds \/ Ask \/ Refused
  <2>1. CASE TurnedAway \/ FollowReturns \/ Served \/ BeatingWait
    BY <2>1 DEF LeaderTyped, TurnedAway, FollowReturns, Served, BeatingWait, Place
  <2>2. CASE Watch \/ BeatEnds
    BY <2>2 DEF LeaderTyped, Watch, BeatEnds
  <2>3. CASE Ask \/ Refused
    BY <2>3 DEF LeaderTyped, Ask, Refused, Place
  <2> QED
    BY <1>7, <2>1, <2>2, <2>3
<1>8. CASE Send
  <2>1. next \in 0..MaxBatches
    BY <1>8 DEF Send, LeaderTyped
  <2>2. [kind |-> "batch", at |-> next] \in Frame
    BY <2>1 DEF Frame, Kind
  <2> DEFINE f == [kind |-> "batch", at |-> next]
  <2>4. pieces(f) \in Seq(Piece)
    BY <2>2, PiecesOf
  <2>5. todo' = [todo EXCEPT !["records"] = pieces(f)] /\ next' = next + 1
    BY <1>8 DEF Send
  <2>6. next' \in 1..(MaxBatches + 1)
    BY <2>1, <2>5 DEF LeaderTyped
  <2> HIDE DEF f
  <2>3. todo' \in [Writer -> Seq(Piece)] /\ next' \in 1..(MaxBatches + 1)
    BY <2>4, <2>5, <2>6 DEF LeaderTyped
  <2> QED
    BY <1>8, <2>3 DEF Send, LeaderTyped, Place
<1>9. CASE FollowFails
  <2>1. [kind |-> "snapshot", at |-> written] \in Frame
    BY DEF LeaderTyped, Frame, Kind
  <2> DEFINE f == [kind |-> "snapshot", at |-> written]
  <2>4. pieces(f) \in Seq(Piece)
    BY <2>1, PiecesOf
  <2>5. todo' = todo \/ todo' = [todo EXCEPT !["records"] = pieces(f)]
    BY <1>9 DEF FollowFails
  <2>6. next' \in 1..(MaxBatches + 1) /\ rec' \in Place
    BY <1>9 DEF FollowFails, LeaderTyped, Place
  <2>2. /\ todo' \in [Writer -> Seq(Piece)] /\ next' \in 1..(MaxBatches + 1)
        /\ rec' \in Place
    BY <2>4, <2>5, <2>6 DEF LeaderTyped
  <2> QED
    BY <1>9, <2>2 DEF FollowFails, LeaderTyped
<1>10. CASE WriteChunk
  BY <1>10 DEF LeaderTyped, WriteChunk
<1>11. CASE Commit
  BY <1>11 DEF LeaderTyped, Commit
<1>12. CASE Tick
  <2>1. ticker' \in 0..Heartbeat
    <3>1. ticker' = IF beat \in {"select", "sending"} THEN (ticker + 1) % Heartbeat ELSE 0
      BY <1>12 DEF Tick
    <3>2. CASE beat = "done"
      BY <3>1, <3>2 DEF LeaderTyped
    <3>3. CASE beat # "done"
      BY <3>1, <3>3 DEF LeaderTyped
    <3> QED
      BY <3>2, <3>3
  <2>2. lag' \in 0..ChunkGap
    <3>1. lag' = IF mu = None THEN 0 ELSE lesser(lag + 1, ChunkGap)
      BY <1>12 DEF Tick
    <3> QED
      BY <3>1 DEF LeaderTyped, lesser
  <2>3. ticked' \in BOOLEAN
    BY <1>12 DEF Tick, LeaderTyped
  <2>4. UNCHANGED <<written, streams, rec, next, beat, todo, mu, served, broken, until>>
    BY <1>12 DEF Tick
  <2> QED
    BY <2>1, <2>2, <2>3, <2>4 DEF LeaderTyped
<1>14. CASE CloseStreams
  <2>1. /\ streams' = TRUE
        /\ UNCHANGED <<written, rec, next, beat, ticker, ticked, todo, mu, lag, served, broken,
                       until>>
    BY <1>14 DEF CloseStreams
  <2> QED
    BY <2>1 DEF LeaderTyped
<1>15. CASE Beat
  <2>1. [kind |-> "heartbeat", at |-> written] \in Frame
    BY DEF LeaderTyped, Frame, Kind
  <2>2. todo' \in [Writer -> Seq(Piece)]
    BY <1>15, <2>1, PiecesOf DEF Beat, LeaderTyped
  <2> QED
    BY <1>15, <2>2 DEF Beat, LeaderTyped
<1>13. CASE DialFails \/ Applied \/ Ended \/ Redial \/ Read \/ Fenced \/ Reset \/ Blackhole
            \/ KernelGivesUp \/ UNCHANGED vars
  BY <1>1, <1>13 DEF DialFails, Applied, Ended, Redial, Read, Fenced, Reset, Blackhole,
                     KernelGivesUp, vars, leader
<1> QED
  BY <1>2, <1>3, <1>4, <1>5, <1>6, <1>7, <1>8, <1>9, <1>10, <1>11, <1>12, <1>13,
   <1>14, <1>15
  DEF Next, Prompt

\* ... those of the connection too ...
LEMMA PipeTypedStep ==
    ASSUME TypeInv, [Next]_vars
    PROVE  PipeTyped'
<1> USE StreamAssumption DEF TypeInv
<1>1. CASE UNCHANGED pipe
  BY <1>1 DEF PipeTyped, pipe
<1>2. CASE \E g \in Writer : Write(g)
  <2> PICK g \in Writer : Write(g)
    BY <1>2
  <2>1. Head(todo[g]) \in Piece
    BY DEF Write, LeaderTyped
  <2> QED
    BY <2>1 DEF Write, PipeTyped
<1>3. CASE \E g \in Writer : Flush(g)
  BY <1>3 DEF Flush, PipeTyped
<1>4. CASE WriteChunk
  <2>1. Head(todo[mu]) \in Piece
    BY <1>4 DEF WriteChunk, LeaderTyped, Writer
  <2> QED
    BY <1>4, <2>1 DEF WriteChunk, PipeTyped
<1>5. CASE BeatingWait \/ Ask
  <2>1. buffer' \in Seq(Piece) /\ wire' \in Seq(Piece)
    <3>1. CASE BeatingWait
      BY <3>1 DEF BeatingWait, PipeTyped
    <3>2. CASE Ask
      BY <3>2 DEF Ask
    <3> QED
      BY <1>5, <3>1, <3>2
  <2>2. conn' = conn \/ conn' = "up"
    BY <1>5 DEF BeatingWait, Ask
  <2> QED
    BY <2>1, <2>2 DEF PipeTyped
<1>6. CASE \E refused \in BOOLEAN : streamReturns(refused) /\ UNCHANGED buffer
  <2>1. wire' = <<>> /\ conn' = (IF conn = "up" THEN "closed" ELSE conn) /\ buffer' = buffer
    BY <1>6, Returns
  <2> QED
    BY <2>1 DEF PipeTyped
<1>7. CASE TurnedAway \/ DialFails \/ Ended \/ Refused \/ Fenced \/ KernelGivesUp
  BY <1>6, <1>7 DEF TurnedAway, DialFails, Ended, Refused, Fenced, KernelGivesUp, PipeTyped
<1>8. CASE Read
  BY <1>8 DEF Read, PipeTyped
<1>9. CASE Reset \/ Blackhole
  <2>1. buffer' = buffer /\ (wire' = wire \/ wire' = <<>>) /\ conn' \in {"closed", "silent"}
    BY <1>9 DEF Reset, Blackhole
  <2>2. buffer' \in Seq(Piece)
    BY <2>1 DEF PipeTyped
  <2>3. wire \in Seq(Piece) /\ <<>> \in Seq(Piece)
    BY DEF PipeTyped
  <2>4. wire' \in Seq(Piece)
    BY <2>1, <2>3
  <2> QED
    BY <2>1, <2>2, <2>4 DEF PipeTyped
<1>10. CASE Tick
  BY <1>10, OlderPieces DEF Tick, PipeTyped
<1>11. CASE \/ \E g \in Writer : Lock(g) \/ WriteFails(g)
            \/ Accept \/ Send \/ FollowReturns \/ Served \/ Watch \/ Beat \/ BeatEnds
            \/ Applied \/ Redial \/ FollowFails \/ Commit \/ CloseStreams \/ UNCHANGED vars
  BY <1>1, <1>11 DEF Lock, WriteFails, Accept, Send, FollowReturns, Served, Watch, Beat, BeatEnds,
                     Applied, Redial, FollowFails, Commit, CloseStreams, vars, pipe
<1> QED
  BY <1>2, <1>3, <1>4, <1>5, <1>7, <1>8, <1>9, <1>10, <1>11 DEF Next, Prompt

\* ... and those of the follower.
LEMMA FollowerTypedStep ==
    ASSUME TypeInv, [Next]_vars
    PROVE  FollowerTyped'
<1> USE StreamAssumption DEF TypeInv
<1>1. CASE UNCHANGED follower
  BY <1>1 DEF FollowerTyped, follower
<1>2. CASE Accept
  BY <1>2 DEF Accept, FollowerTyped
<1>3. CASE Ask \/ Redial
  BY <1>3 DEF Ask, Redial, FollowerTyped
<1>4. CASE \E refused \in BOOLEAN : streamReturns(refused) /\ UNCHANGED <<applied, heard>>
  <2>1. noReader \in Reader /\ noReader.at \notin {"payload", "apply"}
    BY DEF noReader, Reader
  <2>2. wait' \in MinBackoff..MaxBackoff /\ delay' \in 0..MaxBackoff
    <3> DEFINE w == wait'
               d == delay'
    <3>1. w \in MinBackoff..MaxBackoff /\ d \in (w \div 2)..w
      BY <1>4, Returns
    <3> HIDE DEF w, d
    <3>2. w \in MinBackoff..MaxBackoff /\ d \in 0..MaxBackoff
      BY <3>1, Half
    <3> QED
      BY <3>2 DEF w, d
  <2>3. /\ phase' = "waiting" /\ reader' = noReader /\ idle' = 0 /\ cut' = FALSE /\ lasted' = 0
        /\ UNCHANGED <<applied, heard>>
    BY <1>4, Returns
  <2>4. 0 \in 0..Idle /\ 0 \in 0..MaxBackoff
    OBVIOUS
  <2>5. idle' \in 0..Idle /\ cut' \in BOOLEAN /\ lasted' \in 0..MaxBackoff
    BY <2>3, <2>4
  <2> QED
    BY <2>1, <2>2, <2>3, <2>5 DEF FollowerTyped
<1>5. CASE TurnedAway \/ DialFails \/ Ended \/ Refused \/ Fenced \/ KernelGivesUp
  BY <1>4, <1>5 DEF TurnedAway, DialFails, Ended, Refused, Fenced, KernelGivesUp, FollowerTyped
<1>6. CASE Read
  <2>1. Head(wire) \in Piece
    BY <1>6 DEF Read, PipeTyped
  <2> DEFINE p == Head(wire)
  <2>2. p.frame \in Frame /\ parts(p.frame) - 1 \in 0..Chunks
    BY <2>1, PieceParts
  <2>3. /\ reader' \in Reader
        /\ reader'.at \in {"payload", "apply"} => reader'.frame \in Frame
    <3>1. CASE ~fits(p)
      BY <1>6, <3>1 DEF Read, takes, losesStep, FollowerTyped, Reader
    <3>2. CASE fits(p) /\ reader.at = "header"
      BY <1>6, <2>2, <3>2 DEF Read, takes, takesHeader, FollowerTyped, Reader
    <3>3. CASE fits(p) /\ reader.at # "header"
      <4>1. reader.at = "payload" /\ takesPayload(p)
        BY <1>6, <3>3 DEF Read, reading, takes
      <4>2. CASE reader.left > 1
        <5>1. reader' = [reader EXCEPT !.left = @ - 1]
          BY <4>1, <4>2 DEF takesPayload
        <5> QED
          BY <4>1, <4>2, <5>1 DEF FollowerTyped, Reader
      <4>3. CASE ~(reader.left > 1)
        <5>1. PICK time \in 0..ApplyTime :
                reader' = [reader EXCEPT !.at = "apply", !.left = 0, !.work = time]
          BY <4>1, <4>3 DEF takesPayload
        <5>2. reader' = [at |-> "apply", frame |-> reader.frame, left |-> 0, work |-> time]
          BY <5>1 DEF FollowerTyped, Reader
        <5> QED
          BY <4>1, <5>2 DEF FollowerTyped, Reader
      <4> QED
        BY <4>2, <4>3
    <3> QED
      BY <3>1, <3>2, <3>3
  <2>4. applied' \in 0..MaxBatches /\ heard' \in Frame \cup {None}
    <3>1. heard' \in {heard, p.frame} \/ (reader.at = "payload" /\ heard' = reader.frame)
      BY <1>6 DEF Read, reading, takes, takesHeader, takesPayload, losesStep
    <3>2. applied' \in {applied, 0}
      BY <1>6 DEF Read, takes, takesHeader, takesPayload, losesStep
    <3> QED
      BY <2>2, <3>1, <3>2 DEF FollowerTyped
  <2> QED
    BY <1>6, <2>3, <2>4 DEF Read, FollowerTyped
<1>7. CASE Applied
  BY <1>7 DEF Applied, losesStep, noReader, FollowerTyped, Reader, Frame
<1>8. CASE Tick
  <2>1. reader' \in Reader /\ (reader'.at \in {"payload", "apply"} => reader'.frame \in Frame)
    <3>1. CASE reader.at # "apply"
      BY <1>8, <3>1 DEF Tick, FollowerTyped
    <3>2. CASE reader.at = "apply"
      <4>1. reader' = [reader EXCEPT !.work = @ - 1] /\ reader.work > 0
        BY <1>8, <3>2 DEF Tick, AtRest, FollowerRests
      <4> QED
        BY <4>1 DEF FollowerTyped, Reader
    <3> QED
      BY <3>1, <3>2
  <2>2. idle' \in 0..Idle /\ lasted' \in 0..MaxBackoff /\ delay' \in 0..MaxBackoff
    <3>1. idle' \in 0..Idle
      <4>1. idle' = 0 \/ idle' = lesser(idle + 1, Idle)
        BY <1>8 DEF Tick
      <4> QED
        BY <4>1 DEF FollowerTyped, lesser
    <3>2. lasted' \in 0..MaxBackoff
      <4>1. lasted' = 0 \/ lasted' = lesser(lasted + 1, MaxBackoff)
        BY <1>8 DEF Tick
      <4> QED
        BY <4>1 DEF FollowerTyped, lesser
    <3>3. delay' \in 0..MaxBackoff
      <4>1. delay' = IF phase = "waiting" THEN delay - 1 ELSE 0
        BY <1>8 DEF Tick
      <4>2. phase = "waiting" => delay > 0
        BY <1>8 DEF Tick, AtRest, FollowerRests
      <4>3. delay \in 0..MaxBackoff
        BY DEF FollowerTyped
      <4> QED
        BY <4>1, <4>2, <4>3
    <3> QED
      BY <3>1, <3>2, <3>3
  <2> QED
    BY <1>8, <2>1, <2>2 DEF Tick, FollowerTyped
<1>9. CASE \/ \E g \in Writer : Lock(g) \/ Write(g) \/ Flush(g) \/ WriteFails(g)
           \/ WriteChunk \/ Send \/ FollowReturns \/ Served \/ BeatingWait \/ Watch \/ Beat
           \/ BeatEnds \/ FollowFails \/ Commit \/ CloseStreams \/ Reset \/ Blackhole
           \/ UNCHANGED vars
  BY <1>1, <1>9 DEF Lock, Write, Flush, WriteFails, WriteChunk, Send, FollowReturns, Served,
                    BeatingWait, Watch, Beat, BeatEnds, FollowFails, Commit, CloseStreams, Reset,
                    Blackhole, vars, follower
<1> QED
  BY <1>2, <1>3, <1>5, <1>6, <1>7, <1>8, <1>9 DEF Next, Prompt

(***************************************************************************)
(* Turns and ends.                                                         *)
(***************************************************************************)

\* Every step keeps the turns of the two writers.
LEMMA TurnsInvStep ==
    ASSUME TypeInv, TurnsInv, [Next]_vars
    PROVE  TurnsInv'
<1> USE StreamAssumption DEF TypeInv, LeaderTyped, Writer
<1>1. CASE UNCHANGED leader
  BY <1>1 DEF TurnsInv, leader
<1>2. CASE \E g \in Writer : Lock(g)
  BY <1>2 DEF TurnsInv, Lock
<1>3. CASE \E g \in Writer : Write(g)
  BY <1>3 DEF TurnsInv, Write
<1>4. CASE \E g \in Writer : Flush(g)
  BY <1>4 DEF TurnsInv, Flush, goesOn
<1>5. CASE \E g \in Writer : WriteFails(g)
  BY <1>5 DEF TurnsInv, WriteFails, givesUp
<1>6. CASE WriteChunk
  BY <1>6 DEF TurnsInv, WriteChunk
<1>7. CASE Accept
  BY <1>7 DEF TurnsInv, Accept
<1>8. CASE TurnedAway \/ FollowReturns \/ Served \/ BeatingWait \/ Watch \/ BeatEnds \/ Ask
           \/ Refused
  BY <1>8 DEF TurnsInv, TurnedAway, FollowReturns, Served, BeatingWait, Watch, BeatEnds, Ask,
              Refused
<1>9. CASE Send \/ FollowFails \/ Beat
  BY <1>9 DEF TurnsInv, Send, FollowFails, Beat
<1>10. CASE Commit \/ CloseStreams \/ Tick
  BY <1>10 DEF TurnsInv, Commit, CloseStreams, Tick
<1>11. CASE DialFails \/ Applied \/ Ended \/ Redial \/ Read \/ Fenced \/ Reset \/ Blackhole
            \/ KernelGivesUp \/ UNCHANGED vars
  BY <1>1, <1>11 DEF DialFails, Applied, Ended, Redial, Read, Fenced, Reset, Blackhole,
                     KernelGivesUp, vars
<1> QED
  BY <1>2, <1>3, <1>4, <1>5, <1>6, <1>7, <1>8, <1>9, <1>10, <1>11 DEF Next, Prompt

\* Every step keeps how far a handler has ended.
LEMMA EndsInvStep ==
    ASSUME TypeInv, TurnsInv, EndsInv, [Next]_vars
    PROVE  EndsInv'
<1> USE StreamAssumption DEF TypeInv, noReader
<1>1. CASE UNCHANGED <<rec, conn, buffer, wire, phase, reader>>
  BY <1>1 DEF EndsInv
<1>2. CASE \E g \in Writer : Write(g)
  BY <1>2 DEF EndsInv, TurnsInv, Write, Writer, follower
<1>3. CASE \E g \in Writer : Flush(g)
  BY <1>3 DEF EndsInv, TurnsInv, Flush, goesOn, Writer, follower
<1>4. CASE \E g \in Writer : WriteFails(g)
  BY <1>4 DEF EndsInv, TurnsInv, WriteFails, givesUp, Writer, pipe, follower
<1>5. CASE WriteChunk
  BY <1>5 DEF EndsInv, TurnsInv, WriteChunk, follower
<1>6. CASE Accept
  BY <1>6 DEF EndsInv, Accept, pipe
<1>7. CASE TurnedAway /\ conn # "up"
  BY <1>7 DEF EndsInv, TurnedAway
<1>8. CASE Send \/ FollowFails \/ FollowReturns \/ Served \/ BeatingWait
  BY <1>8 DEF EndsInv, Send, FollowFails, FollowReturns, Served, BeatingWait, pipe, follower
<1>9. CASE Ask
  BY <1>9 DEF EndsInv, Ask
<1>10. CASE \E refused \in BOOLEAN : streamReturns(refused) /\ UNCHANGED buffer
            /\ (rec' = rec \/ rec = "accept")
  BY <1>10, Returns DEF EndsInv
<1>11. CASE DialFails \/ Ended \/ Refused \/ Fenced \/ KernelGivesUp \/ (TurnedAway /\ conn = "up")
  BY <1>10, <1>11 DEF DialFails, Ended, Refused, Fenced, KernelGivesUp, TurnedAway, leader
<1>12. CASE Read
  BY <1>12 DEF EndsInv, Read, reading, leader
<1>13. CASE Applied
  BY <1>13 DEF EndsInv, Applied, losesStep, leader, pipe
<1>14. CASE Redial \/ Reset \/ Blackhole
  BY <1>14 DEF EndsInv, Redial, Reset, Blackhole, leader, pipe, follower
<1>15. CASE Tick
  BY <1>15 DEF EndsInv, Tick, older
<1>16. CASE \/ \E g \in Writer : Lock(g)
            \/ Watch \/ Beat \/ BeatEnds \/ Commit \/ CloseStreams \/ UNCHANGED vars
  BY <1>1, <1>16 DEF Lock, Watch, Beat, BeatEnds, Commit, CloseStreams, vars, leader, pipe,
                     follower
<1> QED
  BY <1>2, <1>3, <1>4, <1>5, <1>6, <1>7, <1>8, <1>9, <1>11, <1>12, <1>13, <1>14, <1>15, <1>16
  DEF Next, Prompt

(***************************************************************************)
(* Pieces that run on.                                                     *)
(***************************************************************************)

\* A line that runs on does so with what continues it ...
LEMMA RunsOnAppend ==
    ASSUME NEW q \in Seq(Piece), NEW p \in Piece, runsOn(q),
           q # <<>> => follows(q[Len(q)], p)
    PROVE  runsOn(Append(q, p))
<1>1. /\ Append(q, p) \in Seq(Piece) /\ Len(Append(q, p)) = Len(q) + 1
      /\ \A i \in 1..Len(q) : Append(q, p)[i] = q[i]
      /\ Append(q, p)[Len(q) + 1] = p
  BY AppendProperties
<1>2. Len(q) \in Nat /\ (Len(q) > 0 => q # <<>>)
  OBVIOUS
<1> QED
  BY <1>1, <1>2 DEF runsOn

\* ... and without its first piece.
LEMMA RunsOnTail ==
    ASSUME NEW q \in Seq(Piece), q # <<>>, runsOn(q)
    PROVE  /\ runsOn(Tail(q)) /\ Head(q) = q[1]
           /\ Tail(q) # <<>> => /\ Tail(q)[Len(Tail(q))] = q[Len(q)]
                                /\ follows(q[1], Tail(q)[1])
           /\ Tail(q) = <<>> => Len(q) = 1
<1>1. /\ Tail(q) \in Seq(Piece) /\ Len(Tail(q)) = Len(q) - 1 /\ Len(q) \in Nat \ {0}
      /\ \A i \in 1..Len(Tail(q)) : Tail(q)[i] = q[i + 1]
  BY HeadTailProperties, EmptySeq
<1>2. Tail(q) = <<>> <=> Len(Tail(q)) = 0
  BY <1>1, EmptySeq
<1>3. runsOn(Tail(q))
  BY <1>1 DEF runsOn
<1>4. Tail(q) # <<>> => Tail(q)[Len(Tail(q))] = q[Len(q)]
  BY <1>1, <1>2
<1>5. Tail(q) # <<>> => follows(q[1], Tail(q)[1])
  BY <1>1, <1>2 DEF runsOn
<1> QED
  BY <1>1, <1>2, <1>3, <1>4, <1>5

\* What is on the way, however much of it has been sent.
LEMMA LineIs ==
    ASSUME NEW w \in Seq(Piece), NEW b \in Seq(Piece)
    PROVE  /\ w \o b \in Seq(Piece)
           /\ \A p \in Piece : /\ w \o Append(b, p) = Append(w \o b, p)
                               /\ Append(w \o b, p) \o <<>> = Append(w \o b, p)
           /\ (w \o b) \o <<>> = w \o b
           /\ w # <<>> => /\ w \o b # <<>> /\ Head(w) = (w \o b)[1]
                          /\ Tail(w) \o b = Tail(w \o b)
<1>1. w \o b \in Seq(Piece)
  BY ConcatProperties
<1>2. ASSUME NEW p \in Piece
      PROVE  /\ w \o Append(b, p) = Append(w \o b, p)
             /\ Append(w \o b, p) \o <<>> = Append(w \o b, p)
  <2>1. <<p>> \in Seq(Piece)
    OBVIOUS
  <2>2. w \o (b \o <<p>>) = (w \o b) \o <<p>>
    BY <2>1, ConcatAssociative
  <2>3. Append(b, p) = b \o <<p>> /\ Append(w \o b, p) = (w \o b) \o <<p>>
    BY <1>1, AppendIsConcat
  <2>4. Append(w \o b, p) \in Seq(Piece)
    BY <1>1
  <2> QED
    BY <2>2, <2>3, <2>4, ConcatEmptySeq
<1>3. (w \o b) \o <<>> = w \o b
  BY <1>1, ConcatEmptySeq
<1>4. ASSUME w # <<>>
      PROVE  w \o b # <<>> /\ Head(w) = (w \o b)[1] /\ Tail(w) \o b = Tail(w \o b)
  <2>1. /\ Tail(w) \in Seq(Piece) /\ Len(Tail(w)) = Len(w) - 1 /\ Len(w) \in Nat \ {0}
        /\ \A i \in 1..Len(Tail(w)) : Tail(w)[i] = w[i + 1]
    BY <1>4, HeadTailProperties, EmptySeq
  <2>2. /\ Len(w \o b) = Len(w) + Len(b) /\ Len(b) \in Nat
        /\ \A i \in 1..(Len(w) + Len(b)) :
             (w \o b)[i] = IF i <= Len(w) THEN w[i] ELSE b[i - Len(w)]
    BY ConcatProperties
  <2>3. w \o b # <<>>
    BY <1>1, <2>1, <2>2, EmptySeq
  <2>4. /\ Tail(w \o b) \in Seq(Piece) /\ Len(Tail(w \o b)) = Len(w \o b) - 1
        /\ \A i \in 1..Len(Tail(w \o b)) : Tail(w \o b)[i] = (w \o b)[i + 1]
    BY <1>1, <2>3, HeadTailProperties
  <2>5. /\ Tail(w) \o b \in Seq(Piece) /\ Len(Tail(w) \o b) = Len(Tail(w)) + Len(b)
        /\ \A i \in 1..(Len(Tail(w)) + Len(b)) :
             (Tail(w) \o b)[i] = IF i <= Len(Tail(w)) THEN Tail(w)[i] ELSE b[i - Len(Tail(w))]
    BY <2>1, ConcatProperties
  <2> DEFINE s == Tail(w) \o b
             t == Tail(w \o b)
  <2>6. Len(s) = Len(t)
    BY <2>1, <2>2, <2>4, <2>5
  <2>7. \A i \in 1..Len(s) : s[i] = t[i]
    BY <2>1, <2>2, <2>4, <2>5
  <2>8. s = t
    BY <2>4, <2>5, <2>6, <2>7, SeqEqual
  <2>9. Head(w) = (w \o b)[1]
    BY <2>1, <2>2
  <2> QED
    BY <2>3, <2>8, <2>9
<1> QED
  BY <1>1, <1>2, <1>3, <1>4

\* Every step keeps what is left to be written of a frame.
LEMMA TodoInvStep ==
    ASSUME TypeInv, TurnsInv, TodoInv, [Next]_vars
    PROVE  TodoInv'
<1> USE StreamAssumption DEF TypeInv, LeaderTyped, Writer
<1>1. CASE UNCHANGED <<mu, todo>>
  BY <1>1 DEF TodoInv, runsOn, follows, isLast
<1>2. CASE \E g \in Writer : Lock(g)
  <2> PICK g \in Writer : Lock(g)
    BY <1>2
  <2>1. mu = None /\ mu' = g /\ todo' = todo
    BY DEF Lock
  <2> QED
    BY <2>1 DEF TodoInv
<1>3. ASSUME NEW g \in Writer, mu = g, mu' = g, todo[g] # <<>>,
             todo' = [todo EXCEPT ![g] = Tail(@)]
      PROVE  TodoInv'
  <2> DEFINE q == todo[g]
  <2>1. q \in Seq(Piece) /\ q # <<>> /\ runsOn(q) /\ isLast(q[Len(q)])
    BY <1>3 DEF TodoInv
  <2>2. runsOn(Tail(q)) /\ (Tail(q) # <<>> => isLast(Tail(q)[Len(Tail(q))]))
    BY <2>1, RunsOnTail
  <2>3. todo'[g] = Tail(q) /\ \A h \in Writer : h # g => todo'[h] = todo[h]
    BY <1>3
  <2> QED
    BY <1>3, <2>2, <2>3 DEF TodoInv
<1>4. CASE WriteChunk \/ \E g \in Writer : Write(g)
  BY <1>3, <1>4 DEF WriteChunk, Write
<1>5. CASE \E g \in Writer : Flush(g) \/ WriteFails(g)
  <2> PICK g \in Writer : Flush(g) \/ WriteFails(g)
    BY <1>5
  <2>1. mu = g /\ mu' = None /\ todo'[g] = <<>> /\ \A h \in Writer : h # g => todo'[h] = todo[h]
    BY DEF Flush, WriteFails
  <2> QED
    BY <2>1 DEF TodoInv
<1>6. ASSUME NEW g \in Writer, NEW f \in Frame, mu' = mu,
             todo' = [todo EXCEPT ![g] = pieces(f)]
      PROVE  TodoInv'
  <2>1. todo'[g] = pieces(f) /\ \A h \in Writer : h # g => todo'[h] = todo[h]
    BY <1>6
  <2> QED
    BY <1>6, <2>1, PiecesOf DEF TodoInv
<1>7. CASE Accept \/ FollowFails
  <2>1. [kind |-> "snapshot", at |-> written] \in Frame
    BY DEF Frame, Kind
  <2> QED
    BY <1>1, <1>6, <1>7, <2>1 DEF Accept, FollowFails
<1>8. CASE Send
  <2>1. [kind |-> "batch", at |-> next] \in Frame
    BY <1>8 DEF Send, Frame, Kind
  <2> QED
    BY <1>6, <1>8, <2>1 DEF Send
<1>9. CASE Beat
  <2>1. [kind |-> "heartbeat", at |-> written] \in Frame
    BY DEF Frame, Kind
  <2> QED
    BY <1>6, <1>9, <2>1 DEF Beat
<1>10. CASE \/ TurnedAway \/ FollowReturns \/ Served \/ BeatingWait \/ Watch \/ BeatEnds \/ Ask
            \/ Refused \/ Commit \/ CloseStreams \/ Tick
  BY <1>1, <1>10 DEF TurnedAway, FollowReturns, Served, BeatingWait, Watch, BeatEnds, Ask,
                     Refused, Commit, CloseStreams, Tick
<1>11. CASE DialFails \/ Applied \/ Ended \/ Redial \/ Read \/ Fenced \/ Reset \/ Blackhole
            \/ KernelGivesUp \/ UNCHANGED vars
  BY <1>1, <1>11 DEF DialFails, Applied, Ended, Redial, Read, Fenced, Reset, Blackhole,
                     KernelGivesUp, vars, leader
<1> QED
  BY <1>2, <1>4, <1>5, <1>7, <1>8, <1>9, <1>10, <1>11 DEF Next, Prompt

\* A step that leaves alone the line, its reader and who holds what, or ends the
\* connection.
LEMMA LineInvKept ==
    ASSUME TypeInv, LineInv, mu' = mu, reader' = reader, conn' = conn \/ conn' # "up",
           \/ line' = line \/ conn' # "up",
           mu # None => todo'[mu] = todo[mu]
    PROVE  LineInv'
<1> USE DEF LineInv, continues, awaits, runsOn, follows, isLast
<1>1. CASE conn' # "up"
  BY <1>1
<1>2. CASE conn' = "up" /\ mu = None
  BY <1>2
<1>3. CASE conn' = "up" /\ mu # None
  BY <1>3
<1> QED
  BY <1>1, <1>2, <1>3

\* The holder of the response puts its next piece on the way.
LEMMA LineInvWritten ==
    ASSUME TypeInv, TodoInv, LineInv,
           NEW g \in Writer, mu = g, mu' = g, todo[g] # <<>>,
           todo' = [todo EXCEPT ![g] = Tail(@)],
           line' = Append(line, Head(todo[g])), reader' = reader, conn' = conn
    PROVE  LineInv'
<1> USE StreamAssumption DEF TypeInv
<1> DEFINE q == todo[g]
           p == Head(q)
           l == Append(line, p)
<1>1. CASE ~(conn = "up" /\ reader.at # "lost")
  BY <1>1 DEF LineInv
<1>2. CASE conn = "up" /\ reader.at # "lost"
  <2>1. q \in Seq(Piece) /\ q # <<>> /\ runsOn(q) /\ isLast(q[Len(q)])
    BY DEF TodoInv, LeaderTyped
  <2>2. p \in Piece /\ p = q[1] /\ Tail(q) \in Seq(Piece)
    BY <2>1, RunsOnTail
  <2>3. /\ Tail(q) # <<>> => follows(p, Tail(q)[1])
        /\ Tail(q) = <<>> => isLast(p)
    BY <2>1, <2>2, RunsOnTail
  <2>4. line \in Seq(Piece)
    BY LineIs DEF line, PipeTyped
  <2>5. g # None
    BY DEF Writer
  <2>6. /\ reader.at = "payload" => reader.left \in 1..(parts(reader.frame) - 1)
        /\ line # <<>> => awaits(line[1])
        /\ runsOn(line)
        /\ continues(p)
    BY <1>2, <2>2, <2>5 DEF LineInv
  <2>7. runsOn(l)
    BY <2>2, <2>4, <2>6, RunsOnAppend DEF continues
  <2>8. /\ l # <<>> /\ l[Len(l)] = p /\ Len(line) \in Nat
        /\ line # <<>> => l[1] = line[1]
        /\ line = <<>> => l[1] = p
    BY <2>2, <2>4, AppendProperties, EmptySeq
  <2>9. awaits(l[1])
    BY <2>6, <2>8 DEF continues
  <2>10. line' = l /\ mu' = g /\ todo'[mu'] = Tail(q)
    BY DEF LeaderTyped
  <2> HIDE DEF q, p, l
  <2>11. LineInv'
    <3>1. reader'.at = "payload" => reader'.left \in 1..(parts(reader'.frame) - 1)
      BY <2>6
    <3>2. line' # <<>> => awaits(line[1])'
      BY <2>9, <2>10 DEF awaits
    <3>3. runsOn(line)'
      BY <2>7, <2>10 DEF runsOn, follows, isLast
    <3>4. mu' # None /\ todo'[mu'] # <<>> => continues(todo[mu][1])'
      BY <2>3, <2>8, <2>10 DEF continues, follows, isLast
    <3>5. todo'[mu'] = <<>> => line' # <<>> /\ isLast(line[Len(line)])'
      BY <2>3, <2>8, <2>10 DEF isLast
    <3>6. mu' # None
      BY <2>5
    <3> QED
      BY <3>1, <3>2, <3>3, <3>4, <3>5, <3>6 DEF LineInv
  <2> QED
    BY <2>11
<1> QED
  BY <1>1, <1>2

\* What is read is what is awaited: the end of a frame, which is heard, or more
\* of one.
LEMMA ReadsOn ==
    ASSUME TypeInv, LineInv, Read
    PROVE  /\ line # <<>> /\ line[1] \in Piece /\ line' = Tail(line)
           /\ \/ /\ isLast(line[1]) /\ heard' = line[1].frame
                 /\ reader'.at \in {"header", "apply"}
              \/ /\ ~isLast(line[1]) /\ heard' = heard
                 /\ reader'.at = "payload" /\ reader'.frame = line[1].frame
                 /\ line[1].part \in 1..(parts(line[1].frame) - 1)
                 /\ reader'.left = parts(line[1].frame) - line[1].part
<1> USE StreamAssumption DEF TypeInv
<1> DEFINE p == Head(wire)
<1>1. wire # <<>> /\ wire \in Seq(Piece) /\ buffer \in Seq(Piece)
  BY DEF Read, PipeTyped
<1>2. line # <<>> /\ p = line[1] /\ Tail(wire) \o buffer = Tail(line)
  BY <1>1, LineIs DEF line
<1>3. line' = Tail(line)
  BY <1>2 DEF Read, line
<1>4. p \in Piece
  BY <1>1
<1>5. /\ p.frame \in Frame /\ p.part \in 1..parts(p.frame) /\ parts(p.frame) \in 1..(Chunks + 1)
      /\ parts(p.frame) = 1 <=> p.frame.kind = "heartbeat"
  BY <1>4, PieceParts, PartsOf
<1>6. /\ reader.at \in {"header", "payload"}
      /\ reader.at = "payload" => reader.left \in 1..(parts(reader.frame) - 1)
      /\ awaits(p)
  BY <1>2 DEF Read, reading, LineInv
<1>7. fits(p) /\ takes(p)
  <2>1. fits(p)
    BY <1>5, <1>6 DEF fits, awaits
  <2> QED
    BY <2>1 DEF Read
<1> HIDE DEF p
<1>8. CASE reader.at = "header" /\ p.frame.kind = "heartbeat"
  <2>1. heard' = p.frame /\ reader' = reader
    BY <1>7, <1>8 DEF takes, takesHeader
  <2>2. isLast(p)
    BY <1>5, <1>8 DEF isLast
  <2> QED
    BY <1>2, <1>3, <1>4, <1>8, <2>1, <2>2
<1>9. CASE reader.at = "header" /\ p.frame.kind # "heartbeat"
  <2>1. /\ heard' = heard
        /\ reader' = [reader EXCEPT !.at = "payload", !.frame = p.frame,
                                    !.left = parts(p.frame) - 1]
    BY <1>7, <1>9 DEF takes, takesHeader
  <2>2. p.part = 1 /\ ~isLast(p)
    BY <1>5, <1>6, <1>9 DEF isLast, awaits
  <2>3. /\ reader'.at = "payload" /\ reader'.frame = p.frame
        /\ reader'.left = parts(p.frame) - p.part
    BY <2>1, <2>2 DEF FollowerTyped, Reader
  <2> QED
    BY <1>2, <1>3, <1>4, <1>5, <2>1, <2>2, <2>3 DEF isLast
<1>10. CASE reader.at = "payload" /\ reader.left > 1
  <2>1. heard' = heard /\ reader' = [reader EXCEPT !.left = @ - 1]
    BY <1>7, <1>10 DEF takes, takesPayload
  <2>2. p.frame = reader.frame /\ p.part = parts(p.frame) - reader.left + 1
    BY <1>6, <1>10 DEF awaits
  <2>3. /\ reader'.at = "payload" /\ reader'.frame = p.frame
        /\ reader'.left = reader.left - 1 /\ reader.left \in Nat
    BY <1>10, <2>1, <2>2 DEF FollowerTyped, Reader
  <2>4. p.part \in 1..(parts(p.frame) - 1) /\ reader'.left = parts(p.frame) - p.part
    BY <1>5, <1>10, <2>2, <2>3
  <2> QED
    BY <1>2, <1>3, <1>4, <1>5, <2>1, <2>3, <2>4 DEF isLast
<1>11. CASE reader.at = "payload" /\ ~(reader.left > 1)
  <2>1. heard' = reader.frame /\ reader'.at = "apply"
    BY <1>7, <1>11 DEF takes, takesPayload, FollowerTyped, Reader
  <2>2. p.frame = reader.frame /\ p.part = parts(p.frame) - reader.left + 1 /\ reader.left = 1
    BY <1>6, <1>11 DEF awaits
  <2>3. isLast(p)
    BY <1>5, <2>2 DEF isLast
  <2> QED
    BY <1>2, <1>3, <1>4, <2>1, <2>2, <2>3
<1> QED
  BY <1>6, <1>8, <1>9, <1>10, <1>11

\* Reading a piece keeps the line in order.
LEMMA LineInvRead ==
    ASSUME TypeInv, LineInv, Read
    PROVE  LineInv'
<1> USE StreamAssumption DEF TypeInv
<1> DEFINE p == line[1]
           l == Tail(line)
<1>1. /\ line # <<>> /\ p \in Piece /\ line' = l
      /\ \/ isLast(p) /\ reader'.at \in {"header", "apply"}
         \/ /\ ~isLast(p)
            /\ reader'.at = "payload" /\ reader'.frame = p.frame
            /\ p.part \in 1..(parts(p.frame) - 1)
            /\ reader'.left = parts(p.frame) - p.part
  BY ReadsOn
<1>2. /\ parts(p.frame) \in Nat
      /\ UNCHANGED <<mu, todo, conn>> /\ conn = "up" /\ reader.at # "lost"
  BY <1>1, PieceParts DEF Read, reading, leader
<1>3. line \in Seq(Piece)
  BY LineIs DEF line, PipeTyped
<1>4. /\ runsOn(line)
      /\ mu # None /\ todo[mu] # <<>> => follows(line[Len(line)], todo[mu][1])
      /\ ~(mu # None /\ todo[mu] # <<>>) => isLast(line[Len(line)])
  BY <1>1, <1>2 DEF LineInv, continues
<1>5. /\ runsOn(l)
      /\ l # <<>> => l[Len(l)] = line[Len(line)] /\ follows(p, l[1])
      /\ l = <<>> => line[Len(line)] = p
  BY <1>1, <1>3, <1>4, RunsOnTail
<1> HIDE DEF p, l
<1>6. ASSUME NEW x, follows(p, x) PROVE awaits(x)'
  BY <1>1, <1>2, <1>6 DEF awaits, follows, isLast
<1>7. reader'.at = "payload" => reader'.left \in 1..(parts(reader'.frame) - 1)
  BY <1>1, <1>2
<1>8. line' # <<>> => awaits(line[1])'
  BY <1>1, <1>5, <1>6
<1>9. runsOn(line)'
  BY <1>1, <1>5 DEF runsOn, follows, isLast
<1>10. mu' # None /\ todo'[mu'] # <<>> => continues(todo[mu][1])'
  BY <1>1, <1>2, <1>4, <1>5, <1>6 DEF continues, follows, isLast
<1>11. ~(mu' # None /\ todo'[mu'] # <<>>) =>
         IF line' = <<>> THEN reader'.at # "payload" ELSE isLast(line[Len(line)])'
  BY <1>1, <1>2, <1>4, <1>5 DEF isLast
<1> QED
  BY <1>7, <1>8, <1>9, <1>10, <1>11 DEF LineInv

\* Two lines that differ in age only do so with anything after them.
LEMMA AlikeAndMore ==
    ASSUME NEW v \in Seq(Piece), NEW w \in Seq(Piece), NEW b \in Seq(Piece), Len(v) = Len(w),
           \A i \in 1..Len(w) : v[i].frame = w[i].frame /\ v[i].part = w[i].part
    PROVE  /\ w \o b \in Seq(Piece) /\ v \o b \in Seq(Piece) /\ Len(v \o b) = Len(w \o b)
           /\ \A i \in 1..Len(w \o b) : (v \o b)[i].frame = (w \o b)[i].frame
                                        /\ (v \o b)[i].part = (w \o b)[i].part
<1>1. /\ w \o b \in Seq(Piece) /\ Len(w \o b) = Len(w) + Len(b)
      /\ \A i \in 1..(Len(w) + Len(b)) :
           (w \o b)[i] = IF i <= Len(w) THEN w[i] ELSE b[i - Len(w)]
  BY ConcatProperties
<1>2. /\ v \o b \in Seq(Piece) /\ Len(v \o b) = Len(w) + Len(b)
      /\ \A i \in 1..(Len(w) + Len(b)) :
           (v \o b)[i] = IF i <= Len(w) THEN v[i] ELSE b[i - Len(w)]
  <2>1. /\ v \o b \in Seq(Piece) /\ Len(v \o b) = Len(v) + Len(b)
        /\ \A i \in 1..(Len(v) + Len(b)) :
             (v \o b)[i] = IF i <= Len(v) THEN v[i] ELSE b[i - Len(v)]
    BY ConcatProperties
  <2> QED
    BY <2>1
<1>3. Len(w) \in Nat /\ Len(b) \in Nat
  OBVIOUS
<1>4. ASSUME NEW i \in 1..(Len(w) + Len(b))
      PROVE  (v \o b)[i].frame = (w \o b)[i].frame /\ (v \o b)[i].part = (w \o b)[i].part
  <2>1. CASE i <= Len(w)
    BY <1>1, <1>2, <1>3, <2>1
  <2>2. CASE ~(i <= Len(w))
    BY <1>1, <1>2, <1>3, <2>2
  <2> QED
    BY <2>1, <2>2
<1> QED
  BY <1>1, <1>2, <1>4

\* Time changes nothing that a piece says.
LEMMA OlderLine ==
    ASSUME TypeInv, Tick
    PROVE  /\ line \in Seq(Piece) /\ line' \in Seq(Piece) /\ Len(line') = Len(line)
           /\ \A i \in 1..Len(line) : line'[i].frame = line[i].frame
                                      /\ line'[i].part = line[i].part
<1>1. wire \in Seq(Piece) /\ buffer \in Seq(Piece)
  BY DEF TypeInv, PipeTyped
<1>2. wire' = older(wire) /\ buffer' = buffer
  BY DEF Tick
<1> DEFINE v == older(wire)
<1>3. /\ v \in Seq(Piece) /\ Len(v) = Len(wire)
      /\ \A i \in 1..Len(wire) : v[i].frame = wire[i].frame /\ v[i].part = wire[i].part
  BY <1>1, OlderPieces
<1>4. line' = v \o buffer
  BY <1>2 DEF line
<1> HIDE DEF v
<1> QED
  BY <1>1, <1>3, <1>4, AlikeAndMore DEF line

\* So is a line that has grown older.
LEMMA LineInvTick ==
    ASSUME TypeInv, LineInv, Tick
    PROVE  LineInv'
<1> USE StreamAssumption DEF TypeInv
<1> DEFINE k == line
           l == line'
<1>1. /\ k \in Seq(Piece) /\ l \in Seq(Piece) /\ Len(l) = Len(k)
      /\ \A i \in 1..Len(k) : l[i].frame = k[i].frame /\ l[i].part = k[i].part
  BY OlderLine
<1>2. /\ UNCHANGED <<mu, todo, conn>>
      /\ reader'.at = reader.at /\ reader'.frame = reader.frame /\ reader'.left = reader.left
  BY DEF Tick, FollowerTyped, Reader
<1>3. Len(k) \in Nat /\ (k = <<>> <=> Len(k) = 0) /\ (l = <<>> <=> Len(l) = 0)
  BY <1>1, EmptySeq
<1>4. CASE ~(conn = "up" /\ reader.at # "lost")
  BY <1>2, <1>4 DEF LineInv
<1>5. CASE conn = "up" /\ reader.at # "lost"
  <2>1. /\ reader.at = "payload" => reader.left \in 1..(parts(reader.frame) - 1)
        /\ k # <<>> => awaits(k[1])
        /\ runsOn(k)
        /\ mu # None /\ todo[mu] # <<>> => continues(todo[mu][1])
        /\ ~(mu # None /\ todo[mu] # <<>>) =>
             IF k = <<>> THEN reader.at # "payload" ELSE isLast(k[Len(k)])
    BY <1>5 DEF LineInv
  <2> HIDE DEF k, l
  <2>2. line' # <<>> => awaits(line[1])'
    BY <1>1, <1>2, <1>3, <2>1 DEF awaits, l
  <2>3. runsOn(l)
    BY <1>1, <1>3, <2>1 DEF runsOn, follows, isLast
  <2>4. runsOn(line)'
    BY <2>3 DEF runsOn, follows, isLast, l
  <2>5. mu' # None /\ todo'[mu'] # <<>> => continues(todo[mu][1])'
    <3>1. CASE k = <<>>
      BY <1>1, <1>2, <1>3, <2>1, <3>1 DEF continues, awaits, k, l
    <3>2. CASE k # <<>>
      BY <1>1, <1>2, <1>3, <2>1, <3>2 DEF continues, follows, isLast, k, l
    <3> QED
      BY <3>1, <3>2
  <2>6. ~(mu' # None /\ todo'[mu'] # <<>>) =>
          IF line' = <<>> THEN reader'.at # "payload" ELSE isLast(line[Len(line)])'
    BY <1>1, <1>2, <1>3, <2>1 DEF isLast, l
  <2>7. reader'.at = "payload" => reader'.left \in 1..(parts(reader'.frame) - 1)
    BY <1>2, <2>1
  <2> QED
    BY <2>2, <2>4, <2>5, <2>6, <2>7 DEF LineInv
<1> QED
  BY <1>4, <1>5

\* Every step keeps the line in order.
LEMMA LineInvStep ==
    ASSUME TypeInv, TurnsInv, EndsInv, TodoInv, LineInv, [Next]_vars
    PROVE  LineInv'
<1> USE StreamAssumption DEF TypeInv
<1>1. buffer \in Seq(Piece) /\ wire \in Seq(Piece) /\ line \in Seq(Piece)
  BY LineIs DEF PipeTyped, line
<1>2. CASE \E g \in Writer : Lock(g)
  <2> PICK g \in Writer : Lock(g)
    BY <1>2
  <2>1. /\ mu = None /\ mu' = g /\ g # None /\ todo' = todo /\ todo[g] # <<>>
        /\ reader' = reader /\ conn' = conn /\ wire' = wire /\ buffer' = buffer
    BY DEF Lock, Writer, pipe, follower
  <2>2. todo[g][1].part = 1 /\ line' = line
    BY <2>1 DEF TodoInv, line
  <2> QED
    BY <2>1, <2>2 DEF LineInv, continues, awaits, follows, runsOn, isLast
<1>3. CASE \E g \in Writer : Write(g)
  <2> PICK g \in Writer : Write(g)
    BY <1>3
  <2>1. /\ mu = g /\ mu' = g /\ todo[g] # <<>> /\ todo' = [todo EXCEPT ![g] = Tail(@)]
        /\ buffer' = Append(buffer, Head(todo[g])) /\ wire' = wire
        /\ conn' = conn /\ reader' = reader
    BY DEF Write, follower
  <2>2. Head(todo[g]) \in Piece
    BY <2>1 DEF LeaderTyped
  <2>3. line' = Append(line, Head(todo[g]))
    BY <1>1, <2>1, <2>2, LineIs DEF line
  <2> QED
    BY <2>1, <2>3, LineInvWritten
<1>4. CASE WriteChunk
  <2> DEFINE g == "records"
  <2>1. /\ mu = g /\ mu' = g /\ todo[g] # <<>> /\ todo' = [todo EXCEPT ![g] = Tail(@)]
        /\ wire' = Append(wire \o buffer, Head(todo[g])) /\ buffer' = <<>>
        /\ conn' = conn /\ reader' = reader /\ g \in Writer
    BY <1>4 DEF WriteChunk, follower, Writer
  <2>2. Head(todo[g]) \in Piece
    BY <2>1 DEF LeaderTyped
  <2>3. line' = Append(line, Head(todo[g]))
    BY <1>1, <2>1, <2>2, LineIs DEF line
  <2> QED
    BY <2>1, <2>3, LineInvWritten
<1>5. CASE \E g \in Writer : Flush(g)
  <2> PICK g \in Writer : Flush(g)
    BY <1>5
  <2>1. /\ mu = g /\ mu' = None /\ todo[g] = <<>> /\ reader' = reader /\ conn' = conn
        /\ wire' = wire \o buffer /\ buffer' = <<>>
    BY DEF Flush, follower
  <2>2. line' = line
    BY <1>1, <2>1, LineIs DEF line
  <2> QED
    BY <2>1, <2>2 DEF LineInv, continues, awaits, follows, runsOn, isLast
<1>6. CASE \E g \in Writer : WriteFails(g)
  BY <1>6 DEF LineInv, WriteFails, pipe
<1>7. CASE Accept \/ Send \/ FollowFails \/ Beat
  <2>1. /\ mu' = mu /\ reader' = reader /\ conn' = conn /\ wire' = wire /\ buffer' = buffer
    BY <1>7 DEF Accept, Send, FollowFails, Beat, pipe, follower
  <2>2. mu # None => todo'[mu] = todo[mu]
    BY <1>7 DEF Accept, Send, FollowFails, Beat, TurnsInv, LeaderTyped, Writer
  <2> QED
    BY <2>1, <2>2, LineInvKept DEF line
<1>8. CASE BeatingWait
  <2>1. mu' = mu /\ todo' = todo /\ reader' = reader /\ conn' = conn /\ buffer' = <<>>
        /\ (conn = "up" => wire' = wire \o buffer)
    BY <1>8 DEF BeatingWait, follower
  <2>2. line' = line \/ conn' # "up"
    BY <1>1, <2>1, LineIs DEF line
  <2> QED
    BY <2>1, <2>2, LineInvKept
<1>9. CASE Ask
  <2>1. /\ mu' = mu /\ todo' = todo /\ reader' = noReader /\ wire' = <<>> /\ buffer' = <<>>
    BY <1>9 DEF Ask, EndsInv
  <2>2. mu = None
    BY <1>9 DEF Ask, TurnsInv, LeaderTyped, Writer
  <2>3. line' = <<>>
    BY <2>1, ConcatEmptySeq, EmptySeq DEF line
  <2>4. Len(<<>>) = 0
    BY EmptySeq
  <2>5. runsOn(line)'
    BY <2>3, <2>4 DEF runsOn
  <2> QED
    BY <2>1, <2>2, <2>3, <2>5 DEF LineInv, noReader
<1>10. CASE \E refused \in BOOLEAN : streamReturns(refused)
  BY <1>10, Returns DEF LineInv
<1>11. CASE DialFails \/ Ended \/ Refused \/ Fenced \/ KernelGivesUp
  BY <1>10, <1>11 DEF DialFails, Ended, Refused, Fenced, KernelGivesUp
<1>12. CASE TurnedAway
  <2>1. CASE conn = "up"
    BY <1>10, <1>12, <2>1 DEF TurnedAway
  <2>2. CASE conn # "up"
    BY <1>12, <2>2 DEF TurnedAway, LineInv
  <2> QED
    BY <2>1, <2>2
<1>13. CASE Read
  BY <1>13, LineInvRead
<1>14. CASE Applied
  <2>1. /\ UNCHANGED <<mu, todo, conn, wire, buffer>> /\ reader.at = "apply"
        /\ reader'.at \in {"header", "lost"}
    BY <1>14 DEF Applied, losesStep, noReader, leader, pipe, FollowerTyped, Reader
  <2>2. line' = line
    BY <2>1 DEF line
  <2> QED
    BY <2>1, <2>2 DEF LineInv, continues, awaits, follows, runsOn, isLast
<1>15. CASE Reset \/ Blackhole
  BY <1>15 DEF Reset, Blackhole, LineInv
<1>16. CASE Tick
  BY <1>16, LineInvTick
<1>17. CASE \/ FollowReturns \/ Served \/ Watch \/ BeatEnds \/ Commit \/ CloseStreams \/ Redial
            \/ UNCHANGED vars
  <2>1. UNCHANGED <<mu, todo, reader, conn, wire, buffer>>
    BY <1>17 DEF FollowReturns, Served, Watch, BeatEnds, Commit, CloseStreams, Redial, vars,
                 leader, pipe, follower
  <2> QED
    BY <2>1, LineInvKept DEF line
<1> QED
  BY <1>2, <1>3, <1>4, <1>5, <1>6, <1>7, <1>8, <1>9, <1>11, <1>12, <1>13, <1>14, <1>15, <1>16,
     <1>17
  DEF Next, Prompt

(***************************************************************************)
(* The frames whose last pieces are in a sequence, by induction along it.  *)
(***************************************************************************)

\* f[i] is what the first i pieces of q complete.
Completes(f, q, n) ==
    /\ f \in [0..n -> Seq(Frame)]
    /\ f[0] = <<>>
    /\ \A i \in 1..n : f[i] = IF isLast(q[i]) THEN Append(f[i - 1], q[i].frame)
                                              ELSE f[i - 1]

\* There is a function that picks the last pieces of a line ...
LEMMA SomethingCompletes ==
    ASSUME NEW q \in Seq(Piece)
    PROVE  \E f : Completes(f, q, Len(q))
<1> DEFINE T == Seq(Frame)
           n == Len(q)
           step == [i \in 1..n |-> [s \in T |-> IF isLast(q[i]) THEN Append(s, q[i].frame) ELSE s]]
<1>1. n \in Nat /\ <<>> \in T
  BY EmptySeq
<1>2. \A i \in 1..n : q[i].frame \in Frame
  BY PieceParts
<1>3. step \in [1..n -> [T -> T]]
  BY <1>2, AppendProperties
<1>4. PICK f \in [0..n -> T] : f[0] = <<>> /\ \A i \in 1..n : f[i] = step[i][f[i - 1]]
  <2> HIDE DEF T, n, step
  <2> QED
    BY <1>1, <1>3, Recursion
<1>5. ASSUME NEW i \in 1..n
      PROVE  f[i] = IF isLast(q[i]) THEN Append(f[i - 1], q[i].frame) ELSE f[i - 1]
  <2>1. i - 1 \in 0..n
    BY <1>1
  <2>2. f[i] = step[i][f[i - 1]] /\ f[i - 1] \in T
    BY <1>4, <2>1
  <2> HIDE DEF n, T
  <2> QED
    BY <2>2
<1> QED
  BY <1>4, <1>5 DEF Completes

\* ... so lastPieces is one.
LEMMA LastPiecesAre ==
    ASSUME NEW q \in Seq(Piece), NEW f, Completes(f, q, Len(q))
    PROVE  lastPieces(q) = f[Len(q)] /\ lastPieces(q) \in Seq(Frame)
<1> DEFINE next_(g, i) == IF i = 0 THEN <<>>
                          ELSE IF isLast(q[i]) THEN Append(g[i - 1], q[i].frame)
                          ELSE g[i - 1]
           Is(g) == g = [i \in 0..Len(q) |-> next_(g, i)]
           c == CHOOSE g : Is(g)
<1>1. Len(q) \in Nat
  OBVIOUS
<1>2. Is(f)
  <2>1. f = [i \in 0..Len(q) |-> f[i]]
    BY DEF Completes
  <2>2. ASSUME NEW i \in 0..Len(q) PROVE f[i] = next_(f, i)
    <3>1. CASE i = 0
      BY <3>1 DEF Completes
    <3>2. CASE i # 0
      <4>1. i \in 1..Len(q)
        BY <1>1, <3>2
      <4> QED
        BY <3>2, <4>1 DEF Completes
    <3> QED
      BY <3>1, <3>2
  <2> QED
    BY <2>1, <2>2
<1>3. Is(c)
  BY <1>2
<1>4. lastPieces(q) = c[Len(q)]
  BY DEF lastPieces
<1>5. \A i \in 0..Len(q) : c[i] = next_(c, i) /\ f[i] = next_(f, i)
  BY <1>2, <1>3
<1> HIDE DEF c
<1> DEFINE S == {n \in Nat : n <= Len(q) => c[n] = f[n]}
<1>6. 0 \in S
  BY <1>1, <1>5
<1>7. ASSUME NEW n \in Nat, n \in S PROVE n + 1 \in S
  <2>1. CASE ~(n + 1 <= Len(q))
    BY <2>1
  <2>2. CASE n + 1 <= Len(q)
    <3>1. c[n] = f[n] /\ n + 1 \in 0..Len(q) /\ n + 1 # 0 /\ (n + 1) - 1 = n
      BY <1>1, <1>7, <2>2
    <3>2. c[n + 1] = next_(c, n + 1) /\ f[n + 1] = next_(f, n + 1)
      BY <1>5, <3>1
    <3>3. c[n + 1] = f[n + 1]
      BY <3>1, <3>2
    <3> QED
      BY <3>3
  <2> QED
    BY <2>1, <2>2
<1>8. Nat \subseteq S
  <2> HIDE DEF S
  <2> QED
    BY <1>6, <1>7, Counts
<1>9. c[Len(q)] = f[Len(q)]
  BY <1>1, <1>8
<1> QED
  BY <1>1, <1>4, <1>9 DEF Completes

\* What is next written is what is next completed ...
LEMMA LastOfAppend ==
    ASSUME NEW q \in Seq(Piece), NEW p \in Piece
    PROVE  lastPieces(Append(q, p)) = IF isLast(p) THEN Append(lastPieces(q), p.frame)
                                                   ELSE lastPieces(q)
<1>1. PICK f : Completes(f, q, Len(q))
  BY SomethingCompletes
<1> DEFINE n == Len(q)
           r == Append(q, p)
           x == IF isLast(p) THEN Append(f[n], p.frame) ELSE f[n]
           g == [i \in 0..(n + 1) |-> IF i = n + 1 THEN x ELSE f[i]]
<1>2. /\ n \in Nat /\ r \in Seq(Piece) /\ Len(r) = n + 1
      /\ \A i \in 1..n : r[i] = q[i]
      /\ r[n + 1] = p
  BY AppendProperties
<1>3. f \in [0..n -> Seq(Frame)] /\ f[n] \in Seq(Frame) /\ f[0] = <<>>
  BY <1>1, <1>2 DEF Completes
<1>4. x \in Seq(Frame)
  BY <1>3, PieceParts
<1>5. lastPieces(q) = f[n]
  BY <1>1, LastPiecesAre
<1> HIDE DEF n, r, x
<1>6. g \in [0..(n + 1) -> Seq(Frame)] /\ g[0] = <<>>
  BY <1>2, <1>3, <1>4
<1>7. ASSUME NEW i \in 1..(n + 1)
      PROVE  g[i] = IF isLast(r[i]) THEN Append(g[i - 1], r[i].frame) ELSE g[i - 1]
  <2>1. CASE i = n + 1
    BY <1>2, <2>1 DEF x
  <2>2. CASE i \in 1..n
    BY <1>1, <1>2, <2>2 DEF Completes, n
  <2> QED
    BY <1>2, <2>1, <2>2
<1>8. Completes(g, r, Len(r))
  BY <1>2, <1>6, <1>7 DEF Completes
<1>9. lastPieces(r) = g[n + 1]
  BY <1>2, <1>8, LastPiecesAre
<1>10. g[n + 1] = x
  BY <1>2
<1> QED
  BY <1>5, <1>9, <1>10 DEF r, x

\* ... and nothing that a piece does not say makes a difference.
LEMMA LastOfAlike ==
    ASSUME NEW q \in Seq(Piece), NEW r \in Seq(Piece), Len(r) = Len(q),
           \A i \in 1..Len(q) : r[i].frame = q[i].frame /\ r[i].part = q[i].part
    PROVE  lastPieces(r) = lastPieces(q)
<1>1. PICK f : Completes(f, q, Len(q))
  BY SomethingCompletes
<1>2. Completes(f, r, Len(r))
  BY <1>1 DEF Completes, isLast
<1> QED
  BY <1>1, <1>2, LastPiecesAre

\* An empty line has no last pieces.
LEMMA LastOfNothing == lastPieces(<<>>) = <<>>
<1>1. <<>> \in Seq(Piece) /\ Len(<<>>) = 0
  BY EmptySeq
<1>2. PICK f : Completes(f, <<>>, 0)
  BY <1>1, SomethingCompletes
<1> QED
  BY <1>1, <1>2, LastPiecesAre DEF Completes

\* What is read first was completed first.
LEMMA LastOfTail ==
    ASSUME NEW q \in Seq(Piece), q # <<>>
    PROVE  /\ lastPieces(q) \in Seq(Frame)
           /\ ~isLast(q[1]) => lastPieces(Tail(q)) = lastPieces(q)
           /\ isLast(q[1]) => /\ lastPieces(q) # <<>>
                              /\ Head(lastPieces(q)) = q[1].frame
                              /\ lastPieces(Tail(q)) = Tail(lastPieces(q))
<1> DEFINE n == Len(q) - 1
           r == Tail(q)
<1>1. PICK f : Completes(f, q, Len(q))
  BY SomethingCompletes
<1>2. /\ n \in Nat /\ Len(q) = n + 1 /\ r \in Seq(Piece) /\ Len(r) = n
      /\ \A i \in 1..n : r[i] = q[i + 1]
      /\ q[1] \in Piece
  BY HeadTailProperties, EmptySeq
<1>3. lastPieces(q) = f[n + 1] /\ lastPieces(q) \in Seq(Frame)
  BY <1>1, <1>2, LastPiecesAre
<1> HIDE DEF n, r
<1>4. /\ \A i \in 0..(n + 1) : f[i] \in Seq(Frame)
      /\ f[0] = <<>>
      /\ \A i \in 1..(n + 1) : f[i] = IF isLast(q[i]) THEN Append(f[i - 1], q[i].frame)
                                                      ELSE f[i - 1]
  BY <1>1, <1>2 DEF Completes
<1>5. ASSUME ~isLast(q[1]) PROVE lastPieces(r) = lastPieces(q)
  <2> DEFINE g == [i \in 0..n |-> f[i + 1]]
  <2>1. g \in [0..n -> Seq(Frame)] /\ g[0] = <<>>
    BY <1>2, <1>4, <1>5
  <2>2. \A i \in 1..n : g[i] = IF isLast(r[i]) THEN Append(g[i - 1], r[i].frame) ELSE g[i - 1]
    BY <1>2, <1>4
  <2>3. Completes(g, r, Len(r))
    BY <1>2, <2>1, <2>2 DEF Completes
  <2>4. lastPieces(r) = g[n]
    BY <1>2, <2>3, LastPiecesAre
  <2> QED
    BY <1>2, <1>3, <2>4
<1>6. ASSUME isLast(q[1])
      PROVE  /\ lastPieces(q) # <<>> /\ Head(lastPieces(q)) = q[1].frame
             /\ lastPieces(r) = Tail(lastPieces(q))
  <2> DEFINE h == q[1].frame
             S == {i \in Nat : i <= n => f[i + 1] # <<>> /\ Head(f[i + 1]) = h}
  <2>1. f[1] # <<>> /\ Head(f[1]) = h /\ Tail(f[1]) = <<>>
    <3>1. f[1] = Append(<<>>, h) /\ h \in Frame /\ <<>> \in Seq(Frame)
      <4>1. 1 \in 1..(n + 1) /\ 1 - 1 = 0
        BY <1>2
      <4> QED
        BY <1>2, <1>4, <1>6, <4>1, PieceParts, EmptySeq
    <3> QED
      BY <3>1, AppendProperties, HeadTailAppend
  <2>2. 0 \in S
    BY <2>1
  <2>3. ASSUME NEW i \in Nat, i \in S PROVE i + 1 \in S
    <3>1. CASE ~(i + 1 <= n)
      BY <3>1
    <3>2. CASE i + 1 <= n
      <4>1. f[i + 1] # <<>> /\ Head(f[i + 1]) = h
        BY <1>2, <2>3, <3>2
      <4>2. f[i + 1] \in Seq(Frame) /\ q[i + 2] \in Piece /\ i + 2 \in 1..(n + 1)
            /\ (i + 2) - 1 = i + 1
        BY <1>2, <1>4, <3>2
      <4>3. f[i + 2] = f[i + 1] \/ f[i + 2] = Append(f[i + 1], q[i + 2].frame)
        BY <1>4, <4>2
      <4>4. q[i + 2].frame \in Frame
        BY <4>2, PieceParts
      <4>5. f[i + 2] # <<>> /\ Head(f[i + 2]) = h
        BY <4>1, <4>2, <4>3, <4>4, AppendProperties, HeadTailAppend
      <4> QED
        BY <4>5
    <3> QED
      BY <3>1, <3>2
  <2>4. Nat \subseteq S
    <3> HIDE DEF S
    <3> QED
      BY <2>2, <2>3, Counts
  <2>5. \A i \in 0..n : f[i + 1] # <<>> /\ Head(f[i + 1]) = h
    BY <1>2, <2>4
  <2> HIDE DEF h, S
  <2> DEFINE g == [i \in 0..n |-> Tail(f[i + 1])]
  <2>6. g \in [0..n -> Seq(Frame)]
    BY <1>2, <1>4, <2>5
  <2>7. g[0] = <<>>
    <3>1. 0 \in 0..n /\ 0 + 1 = 1
      BY <1>2
    <3> QED
      BY <2>1, <3>1
  <2>8. ASSUME NEW i \in 1..n
        PROVE  g[i] = IF isLast(r[i]) THEN Append(g[i - 1], r[i].frame) ELSE g[i - 1]
    <3>1. /\ i + 1 \in 1..(n + 1) /\ (i + 1) - 1 = i /\ i - 1 \in 0..n /\ (i - 1) + 1 = i
          /\ r[i] = q[i + 1]
      BY <1>2
    <3>2. f[i] \in Seq(Frame) /\ f[i] # <<>>
      <4>1. f[(i - 1) + 1] # <<>>
        BY <2>5, <3>1
      <4>2. i \in 0..(n + 1)
        BY <1>2
      <4> QED
        BY <1>4, <3>1, <4>1, <4>2
    <3>3. f[i + 1] = IF isLast(q[i + 1]) THEN Append(f[i], q[i + 1].frame) ELSE f[i]
      BY <1>4, <3>1
    <3>4. g[i] = Tail(f[i + 1]) /\ g[i - 1] = Tail(f[i])
      BY <3>1
    <3>5. Tail(Append(f[i], q[i + 1].frame)) = Append(Tail(f[i]), q[i + 1].frame)
      BY <3>2, HeadTailAppend
    <3> QED
      BY <3>1, <3>3, <3>4, <3>5
  <2>9. Completes(g, r, Len(r))
    BY <1>2, <2>6, <2>7, <2>8 DEF Completes
  <2>10. lastPieces(r) = g[n]
    BY <1>2, <2>9, LastPiecesAre
  <2>11. f[n + 1] # <<>> /\ Head(f[n + 1]) = h
    BY <1>2, <2>5
  <2> QED
    BY <1>2, <1>3, <2>10, <2>11 DEF h
<1> QED
  BY <1>3, <1>5, <1>6 DEF r

(***************************************************************************)
(* The invariant, and what follows from it.                                *)
(***************************************************************************)

\* The invariant holds to begin with ...
LEMMA InitStreamInv == Init => StreamInv
<1> SUFFICES ASSUME Init PROVE StreamInv
  OBVIOUS
<1> USE StreamAssumption DEF Init
<1>1. LeaderTyped
  <2>1. \A g \in Writer : todo[g] \in Seq(Piece)
    OBVIOUS
  <2>2. todo \in [Writer -> Seq(Piece)]
    BY <2>1
  <2>3. written \in 0..MaxBatches /\ next \in 1..(MaxBatches + 1) /\ ticker \in 0..Heartbeat
        /\ lag \in 0..ChunkGap
    OBVIOUS
  <2> QED
    BY <2>2, <2>3 DEF LeaderTyped, Place
<1>2. PipeTyped
  BY DEF PipeTyped
<1>3. FollowerTyped
  <2>1. noReader \in Reader /\ noReader.at = "header"
    BY DEF Reader, noReader
  <2>2. applied \in 0..MaxBatches /\ idle \in 0..Idle /\ lasted \in 0..MaxBackoff
        /\ wait \in MinBackoff..MaxBackoff /\ delay \in 0..MaxBackoff
    OBVIOUS
  <2> QED
    BY <2>1, <2>2 DEF FollowerTyped
<1>4. TurnsInv /\ EndsInv
  BY DEF TurnsInv, EndsInv, Writer
<1>5. TodoInv /\ LineInv
  BY DEF TodoInv, LineInv
<1> QED
  BY <1>1, <1>2, <1>3, <1>4, <1>5 DEF StreamInv, TypeInv

\* ... every step keeps it ...
LEMMA StreamInvStep == StreamInv /\ [Next]_vars => StreamInv'
BY LeaderTypedStep, PipeTypedStep, FollowerTypedStep, TurnsInvStep, EndsInvStep, TodoInvStep,
   LineInvStep
DEF StreamInv, TypeInv

\* ... so it always holds: types, turns, ends, and the order of the line (replica.go 218-281).
THEOREM AlwaysStreamInv == Spec => []StreamInv
BY InitStreamInv, StreamInvStep, PTL DEF Spec

\* The types of the invariant are those of TypeOK.
LEMMA TypesAreRight ==
    ASSUME TypeInv
    PROVE  TypeOK
<1> USE DEF TypeInv
<1>1. \A q \in Seq(Piece) : arePieces(q)
  <2>1. \A p \in Piece : isPiece(p)
    BY DEF Piece, isPiece
  <2> QED
    BY <2>1 DEF arePieces
<1>2. arePieces(buffer) /\ arePieces(wire) /\ \A g \in Writer : arePieces(todo[g])
  BY <1>1 DEF PipeTyped, LeaderTyped
<1>3. /\ reader.at \in {"header", "payload", "apply", "lost"}
      /\ reader.work \in 0..ApplyTime /\ reader.left \in 0..Chunks
  BY DEF FollowerTyped, Reader
<1> QED
  BY <1>2, <1>3 DEF TypeOK, LeaderTyped, PipeTyped, FollowerTyped

\* Every variable holds what its Go type lets it hold, whatever the heartbeat,
\* the timeouts, the size of a snapshot and the faults are.
THEOREM Typed == Spec => []TypeOK
<1>1. StreamInv => TypeOK
  BY TypesAreRight DEF StreamInv
<1> QED
  BY <1>1, AlwaysStreamInv, PTL

\* replica.go, streamReplica waits for its heartbeat before it returns: from then
\* on nobody writes to the response, means to, or holds its lock.
THEOREM NobodyWritesOn == Spec => []ResponseIsLeftAlone
<1>1. StreamInv => ResponseIsLeftAlone
  BY DEF StreamInv, TypeInv, LeaderTyped, TurnsInv, ResponseIsLeftAlone, Writer
<1> QED
  BY <1>1, AlwaysStreamInv, PTL

\* follower.go, run: a Follower that stops streaming waits before it dials, never
\* longer than the longest wait, and no longer than the shortest one after a
\* connection that worked.  Half of the wait is fixed, so the shortest one has to
\* be two units of the clock for its half to be one: the nanosecond here.
THEOREM NeverAtOnce ==
    ASSUME MinBackoff > 1
    PROVE  Spec => BacksOff
<1> DEFINE Waits == phase' = "waiting" /\ phase # "waiting" =>
                      /\ delay' \in 1..MaxBackoff
                      /\ lasted = MaxBackoff => delay' <= MinBackoff
<1>1. ASSUME StreamInv, [Next]_vars PROVE [Waits]_vars
  <2>1. CASE phase' # "waiting" \/ phase = "waiting"
    BY <2>1
  <2>2. ASSUME NEW refused \in BOOLEAN, streamReturns(refused) PROVE Waits
    <3> DEFINE w == wait'
               d == delay'
    <3>1. /\ w \in MinBackoff..MaxBackoff /\ d \in (w \div 2)..w
          /\ lasted = MaxBackoff => w = MinBackoff
      BY <1>1, <2>2, Returns DEF StreamInv, TypeInv
    <3> HIDE DEF w, d
    <3>2. d \in 1..MaxBackoff /\ (lasted = MaxBackoff => d <= MinBackoff)
      <4>1. w \in Nat /\ w > 1 /\ w <= MaxBackoff /\ MaxBackoff \in Nat /\ MinBackoff \in Nat
        BY <3>1, StreamAssumption
      <4>2. w \div 2 \in 1..w
        BY <4>1, Half
      <4> QED
        BY <3>1, <4>1, <4>2
    <3> QED
      BY <3>2 DEF w, d
  <2>3. CASE DialFails \/ Ended \/ Refused \/ Fenced \/ KernelGivesUp \/ (TurnedAway /\ conn = "up")
    BY <2>2, <2>3 DEF DialFails, Ended, Refused, Fenced, KernelGivesUp, TurnedAway
  <2>4. CASE \/ \E g \in Writer : Lock(g) \/ Write(g) \/ Flush(g) \/ WriteFails(g)
             \/ Accept \/ (TurnedAway /\ conn # "up") \/ Send \/ FollowReturns \/ Served
             \/ BeatingWait \/ Watch \/ Beat \/ BeatEnds \/ Ask \/ Applied \/ Redial
             \/ WriteChunk \/ FollowFails \/ Commit \/ CloseStreams \/ Read \/ Reset \/ Blackhole
             \/ Tick \/ UNCHANGED vars
    <3>1. phase' = phase \/ phase' \in {"streaming", "asking", "dial"}
      BY <2>4 DEF Lock, Write, Flush, WriteFails, Accept, TurnedAway, Send, FollowReturns, Served,
                  BeatingWait, Watch, Beat, BeatEnds, Ask, Applied, Redial, WriteChunk, FollowFails,
                  Commit, CloseStreams, Read, Reset, Blackhole, Tick, vars, follower
    <3> QED
      BY <2>1, <3>1
  <2> QED
    BY <1>1, <2>3, <2>4 DEF Next, Prompt
<1>2. StreamInv /\ [Next]_vars => [Waits]_vars
  BY <1>1
<1>3. Spec => [][Waits]_vars
  BY <1>2, AlwaysStreamInv, PTL DEF Spec
<1> QED
  BY <1>3 DEF BacksOff

(***************************************************************************)
(* The refinement.                                                         *)
(***************************************************************************)

ChannelStep == [Channel!Next]_<<isOpen, inFlight, heard>>

\* Every step of the stream is a step of the channel, or none.
LEMMA ChannelStepHolds ==
    ASSUME StreamInv, [Next]_vars
    PROVE  ChannelStep
<1> USE StreamAssumption DEF StreamInv, TypeInv
<1>1. buffer \in Seq(Piece) /\ wire \in Seq(Piece) /\ line \in Seq(Piece)
  BY LineIs DEF PipeTyped, line
<1>2. inFlight = IF isOpen THEN lastPieces(line) ELSE <<>>
  BY DEF inFlight, line
<1>3. inFlight' = IF isOpen' THEN lastPieces(line)' ELSE <<>>
  BY DEF inFlight, line
<1>4. lastPieces(line)' = lastPieces(line')
  BY DEF lastPieces, isLast
<1>5. ASSUME heard' = heard, isOpen' = isOpen, isOpen => lastPieces(line') = lastPieces(line)
      PROVE  ChannelStep
  BY <1>2, <1>3, <1>4, <1>5 DEF ChannelStep
<1>6. ASSUME ~isOpen', heard' = heard
      PROVE  ChannelStep
  <2>1. inFlight' = <<>>
    BY <1>3, <1>6
  <2>2. CASE isOpen
    <3>1. isOpen' = FALSE
      BY <1>6 DEF isOpen
    <3> QED
      BY <1>6, <2>1, <2>2, <3>1 DEF ChannelStep, Channel!Next, Channel!End
  <2>3. CASE ~isOpen
    <3>1. isOpen' = isOpen
      BY <1>6, <2>3 DEF isOpen
    <3>2. inFlight' = inFlight
      BY <1>2, <2>1, <2>3
    <3> QED
      BY <1>6, <3>1, <3>2 DEF ChannelStep
  <2> QED
    BY <2>2, <2>3
<1>7. ASSUME NEW g \in Writer, todo[g] # <<>>, line' = Append(line, Head(todo[g])),
             heard' = heard, phase' = phase, conn' = conn
      PROVE  ChannelStep
  <2> DEFINE p == Head(todo[g])
  <2>1. p \in Piece /\ p.frame \in Frame
    BY <1>7, PieceParts DEF LeaderTyped
  <2>2. lastPieces(line') = IF isLast(p) THEN Append(lastPieces(line), p.frame)
                                         ELSE lastPieces(line)
    BY <1>1, <1>7, <2>1, LastOfAppend
  <2>3. isOpen' = isOpen
    BY <1>7 DEF isOpen
  <2>4. CASE isOpen /\ isLast(p)
    BY <1>2, <1>3, <1>4, <1>7, <2>1, <2>2, <2>3, <2>4 DEF ChannelStep, Channel!Next, Channel!Send
  <2>5. CASE ~(isOpen /\ isLast(p))
    BY <1>5, <1>7, <2>2, <2>3, <2>5
  <2> QED
    BY <2>4, <2>5
<1>8. CASE \E g \in Writer : Write(g)
  <2> PICK g \in Writer : Write(g)
    BY <1>8
  <2>1. Head(todo[g]) \in Piece /\ todo[g] # <<>>
    BY DEF Write, LeaderTyped
  <2>2. line' = Append(line, Head(todo[g]))
    BY <1>1, <2>1, LineIs DEF Write, line
  <2> QED
    BY <1>7, <2>1, <2>2 DEF Write, follower
<1>9. CASE WriteChunk
  <2>1. mu = "records" /\ mu \in Writer /\ Head(todo[mu]) \in Piece /\ todo[mu] # <<>>
    BY <1>9 DEF WriteChunk, LeaderTyped, Writer
  <2>2. line' = Append(line, Head(todo[mu]))
    BY <1>1, <1>9, <2>1, LineIs DEF WriteChunk, line
  <2> QED
    BY <1>7, <1>9, <2>1, <2>2 DEF WriteChunk, follower
<1>10. CASE \/ \E g \in Writer : Flush(g)
            \/ BeatingWait
  <2>1. /\ heard' = heard /\ phase' = phase /\ conn' = conn /\ buffer' = <<>>
        /\ conn = "up" => wire' = wire \o buffer
    BY <1>10 DEF Flush, BeatingWait, follower
  <2>2. conn = "up" => line' = line
    BY <1>1, <2>1, LineIs DEF line
  <2> QED
    BY <1>5, <2>1, <2>2 DEF isOpen
<1>11. CASE Accept
  <2>1. heard' = heard /\ line = <<>> /\ line' = <<>> /\ ~isOpen
    <3>1. /\ heard' = heard /\ wire = <<>> /\ buffer = <<>> /\ wire' = <<>> /\ buffer' = <<>>
          /\ phase # "streaming"
      BY <1>11 DEF Accept, EndsInv, pipe
    <3>2. <<>> \o <<>> = <<>>
      BY ConcatEmptySeq, EmptySeq
    <3> QED
      BY <3>1, <3>2 DEF line, isOpen
  <2>2. inFlight = <<>> /\ inFlight' = <<>>
    BY <1>2, <1>3, <1>4, <2>1, LastOfNothing
  <2>3. CASE isOpen'
    BY <2>1, <2>2, <2>3 DEF ChannelStep, Channel!Next, Channel!Open
  <2>4. CASE ~isOpen'
    BY <1>6, <2>1, <2>4
  <2> QED
    BY <2>3, <2>4
<1>12. CASE DialFails \/ Ended \/ Refused \/ Fenced \/ KernelGivesUp \/ (TurnedAway /\ conn = "up")
  <2>1. \E refused \in BOOLEAN : streamReturns(refused)
    BY <1>12 DEF DialFails, Ended, Refused, Fenced, KernelGivesUp, TurnedAway
  <2>2. heard' = heard
    BY <1>12 DEF DialFails, Ended, Refused, Fenced, KernelGivesUp, TurnedAway
  <2>3. ~isOpen'
    BY <2>1, Returns DEF isOpen
  <2> QED
    BY <1>6, <2>2, <2>3
<1>13. CASE (TurnedAway /\ conn # "up") \/ Ask \/ Redial \/ Reset \/ Blackhole
  <2>1. heard' = heard /\ ~isOpen'
    BY <1>13 DEF TurnedAway, Ask, Redial, Reset, Blackhole, isOpen, follower
  <2> QED
    BY <1>6, <2>1
<1>14. CASE Read
  <2>1. isOpen /\ isOpen'
    BY <1>14 DEF Read, reading, isOpen
  <2>2. /\ line # <<>> /\ line[1] \in Piece /\ line' = Tail(line)
        /\ \/ isLast(line[1]) /\ heard' = line[1].frame
           \/ ~isLast(line[1]) /\ heard' = heard
    BY <1>14, ReadsOn
  <2>3. CASE ~isLast(line[1])
    BY <1>1, <1>5, <2>1, <2>2, <2>3, LastOfTail
  <2>4. CASE isLast(line[1])
    <3>1. /\ lastPieces(line) # <<>> /\ heard' = Head(lastPieces(line))
          /\ lastPieces(line') = Tail(lastPieces(line))
      BY <1>1, <2>2, <2>4, LastOfTail
    <3> QED
      BY <1>2, <1>3, <1>4, <2>1, <3>1 DEF ChannelStep, Channel!Next, Channel!Hear
  <2> QED
    BY <2>3, <2>4
<1>15. CASE Tick
  <2>1. heard' = heard /\ phase' = phase /\ conn' = conn
    BY <1>15 DEF Tick
  <2>2. lastPieces(line') = lastPieces(line)
    BY <1>15, OlderLine, LastOfAlike
  <2> QED
    BY <1>5, <2>1, <2>2 DEF isOpen
<1>16. CASE \/ \E g \in Writer : Lock(g) \/ WriteFails(g)
            \/ Send \/ FollowReturns \/ Served \/ Watch \/ Beat \/ BeatEnds \/ Applied
            \/ FollowFails \/ Commit \/ CloseStreams \/ UNCHANGED vars
  <2>1. UNCHANGED <<heard, phase, conn, wire, buffer>>
    BY <1>16 DEF Lock, WriteFails, Send, FollowReturns, Served, Watch, Beat, BeatEnds, Applied,
                 losesStep, FollowFails, Commit, CloseStreams, vars, leader, pipe, follower
  <2> QED
    BY <1>5, <2>1 DEF isOpen, line
<1> QED
  BY <1>8, <1>9, <1>10, <1>11, <1>12, <1>13, <1>14, <1>15, <1>16 DEF Next, Prompt

\* replica.go, stream: two goroutines write to one response, and what the other
\* end hears are the frames they wrote, whole, once each and in the order they
\* were written, until the connection ends.
THEOREM FramesArriveWhole == Spec => FramesStayWhole
<1>1. Init => Channel!Init
  BY DEF Init, Channel!Init, isOpen, inFlight
<1>2. StreamInv /\ [Next]_vars => ChannelStep
  BY ChannelStepHolds
<1> QED
  BY <1>1, <1>2, AlwaysStreamInv, PTL DEF Spec, FramesStayWhole, Channel!Spec, ChannelStep

(***************************************************************************)
(* A connection that works is kept.                                        *)
(***************************************************************************)

\* The leader beats, and is heard of, sooner than its follower stops listening,
\* and the store takes less time over a batch than that (follower.go, Idle).
HeardInTime ==
    /\ Heartbeat > 0
    /\ Heartbeat + ChunkGap + Latency < Idle
    /\ ApplyTime < Idle

\* A goroutine that is sending has something left of one frame, or the lock.
HandInv ==
    /\ rec = "sending" => todo["records"] # <<>> \/ mu = "records"
    /\ beat = "sending" => todo["heartbeat"] # <<>> \/ mu = "heartbeat"
    /\ \A g \in Writer : todo[g] # <<>> =>
          Len(todo[g]) = parts(todo[g][1].frame) - todo[g][1].part + 1
    /\ todo["heartbeat"] # <<>> => todo["heartbeat"][1].frame.kind = "heartbeat"

\* What net/http has been given and not sent is of the frame in hand.
BufferInv ==
    conn = "up" =>
        IF mu = None THEN buffer = <<>>
        ELSE IF todo[mu] = <<>> THEN Len(buffer) <= 2 /\ (mu = "heartbeat" => buffer # <<>>)
        ELSE IF isChunk(todo[mu][1]) THEN Len(buffer) <= 1
        ELSE Len(buffer) = todo[mu][1].part - 1

\* The heartbeat does not end before there is a reason to.
BeatInv ==
    /\ beat # "done" => ticker < Heartbeat
    /\ beat = "done" /\ rec \in {"follow", "sending"} => until \/ broken

midSnapshot ==
    mu = "records" /\ todo["records"] # <<>> /\ isChunk(todo["records"][1])

\* How long the leader may have said nothing.
silence == IF midSnapshot THEN Heartbeat + lag
           ELSE IF beat = "select" /\ ~ticked THEN ticker
           ELSE Heartbeat

\* How long the follower may have heard nothing.
QuietInv ==
    /\ reader.at = "apply" => idle + reader.work <= ApplyTime
    /\ phase # "streaming" => ~cut
    /\ isOpen /\ wire # <<>> => \/ idle <= Heartbeat + ChunkGap + wire[1].age
                                \/ wire[1].age = Latency /\ idle <= ApplyTime
    /\ isOpen /\ wire = <<>> /\ rec # "returned" => idle <= silence

KeepInv == HandInv /\ BufferInv /\ BeatInv /\ QuietInv /\ WorkingConnectionIsKept

\* A frame in hand gets shorter by a piece at a time.
LEMMA HandShorter ==
    ASSUME NEW q \in Seq(Piece), q # <<>>, runsOn(q),
           Len(q) = parts(q[1].frame) - q[1].part + 1
    PROVE  /\ Tail(q) \in Seq(Piece)
           /\ Tail(q) # <<>> =>
                /\ Tail(q)[1].frame = q[1].frame /\ Tail(q)[1].part = q[1].part + 1
                /\ Len(Tail(q)) = parts(Tail(q)[1].frame) - Tail(q)[1].part + 1
<1>1. Len(q) \in Nat /\ Len(q) >= 1 /\ Tail(q) \in Seq(Piece) /\ Len(Tail(q)) = Len(q) - 1
  BY EmptySeq
<1>2. q[1] \in Piece
  BY <1>1
<1>3. q[1].part \in Nat /\ parts(q[1].frame) \in Nat
  BY <1>2, PieceParts, StreamAssumption
<1>4. CASE Tail(q) = <<>>
  BY <1>1, <1>4
<1>5. CASE Tail(q) # <<>>
  <2>1. Len(q) > 1
    BY <1>1, <1>5, EmptySeq
  <2>2. Tail(q)[1] = q[2]
    BY <1>1, <2>1
  <2>3. follows(q[1], q[2])
    BY <1>1, <2>1 DEF runsOn
  <2>4. ~isLast(q[1])
    BY <1>3, <2>1 DEF isLast
  <2>5. q[2].frame = q[1].frame /\ q[2].part = q[1].part + 1
    BY <2>3, <2>4 DEF follows
  <2>6. Tail(q)[1].frame = q[1].frame /\ Tail(q)[1].part = q[1].part + 1
    BY <2>2, <2>5
  <2>7. Len(Tail(q)) = parts(q[1].frame) - (q[1].part + 1) + 1
    BY <1>1, <1>3
  <2> QED
    BY <1>1, <2>6, <2>7
<1> QED
  BY <1>4, <1>5

\* Every step keeps what is in hand.
LEMMA HandInvStep ==
    ASSUME TypeInv, TurnsInv, TodoInv, HandInv, [Next]_vars
    PROVE  HandInv'
<1> USE StreamAssumption DEF TypeInv, LeaderTyped, Writer
<1>1. CASE UNCHANGED <<rec, beat, mu, todo>>
  BY <1>1 DEF HandInv
<1>2. CASE \E g \in Writer : Lock(g)
  BY <1>2 DEF HandInv, Lock, TurnsInv
<1>3. ASSUME NEW g \in Writer, mu = g, UNCHANGED <<rec, beat, mu>>, todo[g] # <<>>,
             todo' = [todo EXCEPT ![g] = Tail(@)]
      PROVE  HandInv'
  <2> DEFINE q == todo[g]
  <2>1. q \in Seq(Piece) /\ q # <<>> /\ runsOn(q)
    BY <1>3 DEF TodoInv
  <2>2. Len(q) = parts(q[1].frame) - q[1].part + 1
    BY <1>3 DEF HandInv
  <2>3. Tail(q) # <<>> =>
          /\ Tail(q)[1].frame = q[1].frame
          /\ Len(Tail(q)) = parts(Tail(q)[1].frame) - Tail(q)[1].part + 1
    BY <2>1, <2>2, HandShorter
  <2>4. todo'[g] = Tail(q) /\ \A h \in Writer : h # g => todo'[h] = todo[h]
    BY <1>3
  <2> QED
    BY <1>3, <2>3, <2>4 DEF HandInv
<1>4. CASE WriteChunk \/ \E g \in Writer : Write(g)
  BY <1>3, <1>4 DEF WriteChunk, Write
<1>5. CASE \E g \in Writer : Flush(g)
  BY <1>5 DEF HandInv, TurnsInv, Flush, goesOn
<1>6. CASE \E g \in Writer : WriteFails(g)
  BY <1>6 DEF HandInv, TurnsInv, WriteFails, givesUp
<1>7. ASSUME NEW g \in Writer, NEW f \in Frame, mu' = mu,
             todo' = [todo EXCEPT ![g] = pieces(f)],
             g = "heartbeat" => f.kind = "heartbeat",
             rec' = rec \/ g = "records", beat' = beat \/ g = "heartbeat" \/ beat' # "sending"
      PROVE  HandInv'
  <2>1. pieces(f) # <<>> /\ pieces(f)[1].part = 1 /\ Len(pieces(f)) = parts(f)
    BY PiecesOf
  <2>2. pieces(f)[1].frame = f /\ parts(f) \in Nat
    BY PartsOf DEF pieces
  <2>3. todo'[g] = pieces(f) /\ \A h \in Writer : h # g => todo'[h] = todo[h]
    BY <1>7
  <2> QED
    BY <1>7, <2>1, <2>2, <2>3 DEF HandInv
<1>8. CASE Accept
  <2>1. [kind |-> "snapshot", at |-> written] \in Frame
    BY DEF Frame, Kind
  <2>2. CASE applied = 0
    BY <1>7, <1>8, <2>1, <2>2 DEF Accept
  <2>3. CASE applied # 0
    BY <1>8, <2>3 DEF Accept, HandInv
  <2> QED
    BY <2>2, <2>3
<1>9. CASE Send
  <2>1. [kind |-> "batch", at |-> next] \in Frame
    BY <1>9 DEF Send, Frame, Kind
  <2> QED
    BY <1>7, <1>9, <2>1 DEF Send
<1>10. CASE FollowFails
  <2>1. [kind |-> "snapshot", at |-> written] \in Frame
    BY DEF Frame, Kind
  <2>2. CASE rec' = "ending"
    BY <1>10, <2>2 DEF FollowFails, HandInv
  <2>3. CASE rec' # "ending"
    BY <1>7, <1>10, <2>1, <2>3 DEF FollowFails
  <2> QED
    BY <2>2, <2>3
<1>11. CASE Beat
  <2>1. [kind |-> "heartbeat", at |-> written] \in Frame
    BY DEF Frame, Kind
  <2> QED
    BY <1>7, <1>11, <2>1 DEF Beat
<1>12. CASE \/ TurnedAway \/ FollowReturns \/ Served \/ BeatingWait \/ BeatEnds \/ Ask \/ Refused
  BY <1>12 DEF HandInv, TurnedAway, FollowReturns, Served, BeatingWait, BeatEnds, Ask, Refused
<1>13. CASE \/ Watch \/ Commit \/ CloseStreams \/ Tick
  BY <1>1, <1>13 DEF Watch, Commit, CloseStreams, Tick
<1>14. CASE DialFails \/ Applied \/ Ended \/ Redial \/ Read \/ Fenced \/ Reset \/ Blackhole
            \/ KernelGivesUp \/ UNCHANGED vars
  BY <1>1, <1>14 DEF DialFails, Applied, Ended, Redial, Read, Fenced, Reset, Blackhole,
                     KernelGivesUp, vars, leader
<1> QED
  BY <1>2, <1>4, <1>5, <1>6, <1>8, <1>9, <1>10, <1>11, <1>12, <1>13, <1>14 DEF Next, Prompt

\* Every step keeps what the buffer holds.
LEMMA BufferInvStep ==
    ASSUME TypeInv, TurnsInv, EndsInv, TodoInv, HandInv, BufferInv, [Next]_vars
    PROVE  BufferInv'
<1> USE StreamAssumption DEF TypeInv, LeaderTyped, PipeTyped, Writer
<1>1. CASE \/ conn' # "up"
           \/ conn' = conn /\ UNCHANGED <<mu, buffer>> /\ (mu # None => todo'[mu] = todo[mu])
  BY <1>1 DEF BufferInv, isChunk
<1>2. CASE \E g \in Writer : Lock(g)
  <2> PICK g \in Writer : Lock(g)
    BY <1>2
  <2>1. todo[g] # <<>> /\ mu = None /\ mu' = g /\ UNCHANGED <<todo, conn, buffer>>
    BY DEF Lock, pipe
  <2>2. todo[g][1].part = 1
    BY <2>1 DEF TodoInv
  <2> QED
    BY <2>1, <2>2, EmptySeq DEF BufferInv, isChunk
<1>3. CASE \E g \in Writer : Write(g)
  <2> PICK g \in Writer : Write(g)
    BY <1>3
  <2> DEFINE q == todo[g]
  <2>1. /\ mu = g /\ mu' = g /\ q # <<>> /\ ~isChunk(q[1]) /\ buffer' = Append(buffer, q[1])
        /\ todo' = [todo EXCEPT ![g] = Tail(q)] /\ conn' = conn
    BY DEF Write
  <2>2. q \in Seq(Piece) /\ runsOn(q) /\ q[1] \in Piece
    BY <2>1, EmptySeq DEF TodoInv
  <2>3. q[1].part \in 1..(Chunks + 1) /\ q[1].part <= parts(q[1].frame) /\ q[1].frame \in Frame
    BY <2>2, PieceParts
  <2>4. q[1].part <= 2
    <3>1. q[1].frame.kind = "snapshot" => ~(q[1].part > 1)
      BY <2>1 DEF isChunk
    <3>2. q[1].frame.kind # "snapshot" => parts(q[1].frame) <= 2
      BY <2>3, PartsOf
    <3>3. q[1].part \in Nat /\ parts(q[1].frame) \in Nat
      BY <2>3, PartsOf
    <3> HIDE DEF q
    <3> QED
      BY <2>3, <3>1, <3>2, <3>3
  <2>5. Len(q) = parts(q[1].frame) - q[1].part + 1
    BY <2>1 DEF HandInv
  <2>6. Tail(q) # <<>> => /\ Tail(q)[1].frame = q[1].frame
                          /\ Tail(q)[1].part = q[1].part + 1
    BY <2>1, <2>2, <2>5, HandShorter
  <2>7. Len(buffer') = Len(buffer) + 1 /\ buffer' # <<>>
    <3>1. buffer \in Seq(Piece) /\ q[1] \in Piece
      BY <2>2
    <3> HIDE DEF q
    <3> QED
      BY <2>1, <3>1, EmptySeq
  <2>8. todo'[g] = Tail(q)
    BY <2>1
  <2>9. CASE conn = "up"
    <3>1. Len(buffer) = q[1].part - 1
      BY <2>1, <2>9 DEF BufferInv
    <3>2. Len(buffer') = q[1].part /\ Len(buffer') <= 2
      BY <2>3, <2>4, <2>7, <3>1
    <3>3. Tail(q) # <<>> /\ isChunk(Tail(q)[1]) => q[1].part = 1
      <4>1. q[1].frame.kind = "snapshot" /\ q[1].part > 1 => isChunk(q[1])
        BY DEF isChunk
      <4>2. q[1].part \in Nat /\ q[1].part >= 1
        BY <2>3
      <4>3. Tail(q) # <<>> /\ isChunk(Tail(q)[1]) => q[1].frame.kind = "snapshot"
        BY <2>6 DEF isChunk
      <4> HIDE DEF q
      <4> QED
        BY <2>1, <4>1, <4>2, <4>3
    <3>4. IF Tail(q) = <<>> THEN Len(buffer') <= 2 /\ (mu' = "heartbeat" => buffer' # <<>>)
          ELSE IF isChunk(Tail(q)[1]) THEN Len(buffer') <= 1
          ELSE Len(buffer') = Tail(q)[1].part - 1
      <4>1. q[1].part \in Nat
        BY <2>3
      <4> HIDE DEF q
      <4> QED
        BY <2>6, <2>7, <3>2, <3>3, <4>1
    <3> QED
      BY <2>1, <2>8, <2>9, <3>4 DEF BufferInv, isChunk
  <2> QED
    BY <2>1, <2>9 DEF BufferInv
<1>4. CASE WriteChunk
  <2> DEFINE q == todo["records"]
  <2>1. /\ mu = "records" /\ mu' = "records" /\ q # <<>> /\ isChunk(q[1]) /\ buffer' = <<>>
        /\ todo' = [todo EXCEPT !["records"] = Tail(q)] /\ conn' = conn
    BY <1>4 DEF WriteChunk
  <2>2. q \in Seq(Piece) /\ runsOn(q) /\ q[1] \in Piece
    BY <2>1, EmptySeq DEF TodoInv
  <2>3. Tail(q) # <<>> => /\ Tail(q)[1].frame = q[1].frame
                          /\ Tail(q)[1].part = q[1].part + 1
    BY <2>1, <2>2, HandShorter DEF HandInv
  <2>4. Tail(q) # <<>> => isChunk(Tail(q)[1])
    BY <2>1, <2>2, <2>3, PieceParts DEF isChunk
  <2>5. Len(buffer') = 0 /\ todo'["records"] = Tail(q)
    BY <2>1
  <2> QED
    BY <2>1, <2>4, <2>5 DEF BufferInv, isChunk
<1>5. CASE \E g \in Writer : Flush(g)
  BY <1>5 DEF BufferInv, Flush
<1>6. CASE \E g \in Writer : WriteFails(g)
  BY <1>1, <1>6 DEF WriteFails, pipe
<1>7. CASE Accept \/ Send \/ FollowFails \/ Beat
  <2>1. UNCHANGED <<mu, conn, buffer>>
    BY <1>7 DEF Accept, Send, FollowFails, Beat, pipe
  <2>2. mu # None => todo'[mu] = todo[mu]
    BY <1>7 DEF Accept, Send, FollowFails, Beat, TurnsInv
  <2> QED
    BY <1>1, <2>1, <2>2
<1>8. CASE BeatingWait
  <2>1. mu = None /\ mu' = None /\ buffer' = <<>>
    BY <1>8 DEF BeatingWait, TurnsInv
  <2> QED
    BY <2>1 DEF BufferInv
<1>9. CASE Ask
  <2>1. mu = None /\ mu' = None /\ buffer' = <<>>
    BY <1>9 DEF Ask, TurnsInv
  <2> QED
    BY <2>1 DEF BufferInv
<1>10. CASE \E refused \in BOOLEAN : streamReturns(refused)
  <2>1. conn' # "up"
    BY <1>10 DEF streamReturns
  <2> QED
    BY <1>1, <2>1
<1>11. CASE DialFails \/ Ended \/ Refused \/ Fenced \/ KernelGivesUp \/ (TurnedAway /\ conn = "up")
  BY <1>10, <1>11 DEF DialFails, Ended, Refused, Fenced, KernelGivesUp, TurnedAway
<1>12. CASE \/ FollowReturns \/ Served \/ Watch \/ BeatEnds \/ (TurnedAway /\ conn # "up")
            \/ Commit \/ CloseStreams \/ Tick
  BY <1>1, <1>12 DEF TurnedAway, FollowReturns, Served, Watch, BeatEnds, Commit, CloseStreams,
                     Tick, pipe
<1>13. CASE Applied \/ Redial \/ Read \/ Reset \/ Blackhole \/ UNCHANGED vars
  BY <1>1, <1>13 DEF Applied, Redial, Read, Reset, Blackhole, vars, leader, pipe
<1> QED
  BY <1>2, <1>3, <1>4, <1>5, <1>6, <1>7, <1>8, <1>9, <1>11, <1>12, <1>13 DEF Next, Prompt

\* Every step keeps what the heartbeat may do.
LEMMA BeatInvStep ==
    ASSUME HeardInTime, TypeInv, TurnsInv, BeatInv, [Next]_vars
    PROVE  BeatInv'
<1> USE StreamAssumption DEF TypeInv, LeaderTyped, BeatInv
<1>1. CASE UNCHANGED <<rec, beat, ticker, until, broken>>
  BY <1>1
<1>2. CASE \E g \in Writer : Flush(g)
  BY <1>2 DEF TurnsInv, Flush, goesOn, Writer
<1>3. CASE \E g \in Writer : WriteFails(g)
  BY <1>3 DEF TurnsInv, WriteFails, givesUp, Writer
<1>4. CASE Accept
  BY <1>4 DEF Accept, HeardInTime
<1>5. CASE Send \/ FollowFails \/ Beat \/ BeatEnds \/ Watch \/ FollowReturns
  BY <1>5 DEF Send, FollowFails, Beat, BeatEnds, Watch, FollowReturns
<1>6. CASE TurnedAway \/ Served \/ BeatingWait \/ Ask \/ Refused
  BY <1>6 DEF TurnsInv, TurnedAway, Served, BeatingWait, Ask, Refused
<1>7. CASE Tick
  <2>1. beat # "done" => ticker' < Heartbeat
    BY <1>7 DEF Tick, HeardInTime
  <2> QED
    BY <1>7, <2>1 DEF Tick
<1>8. CASE \/ \E g \in Writer : Lock(g) \/ Write(g)
           \/ WriteChunk \/ Commit \/ CloseStreams
  BY <1>1, <1>8 DEF Lock, Write, WriteChunk, Commit, CloseStreams
<1>9. CASE DialFails \/ Applied \/ Ended \/ Redial \/ Read \/ Fenced \/ Reset \/ Blackhole
           \/ KernelGivesUp \/ UNCHANGED vars
  BY <1>1, <1>9 DEF DialFails, Applied, Ended, Redial, Read, Fenced, Reset, Blackhole,
                    KernelGivesUp, vars, leader
<1> QED
  BY <1>2, <1>3, <1>4, <1>5, <1>6, <1>7, <1>8, <1>9 DEF Next, Prompt

\* Where no goroutine can go on and nothing is on its way, the leader waits for
\* the next chunk of a snapshot, or for its ticker.
LEMMA SilentAtRest ==
    ASSUME HeardInTime, TypeInv, TurnsInv, EndsInv, HandInv, BufferInv, BeatInv,
           AtRest, isOpen, wire = <<>>, rec # "returned"
    PROVE  \/ midSnapshot /\ ~(Len(wire) + Len(buffer) >= Capacity)
           \/ ~midSnapshot /\ beat = "select" /\ ~ticked
<1> USE StreamAssumption DEF TypeInv, LeaderTyped, PipeTyped, isOpen
<1>1. Len(wire) = 0 /\ Len(buffer) \in Nat
  BY EmptySeq
<1>2. rec \in {"follow", "sending", "beating"}
  BY DEF AtRest, HandlerRests, EndsInv, Place
<1>3. CASE mu = None
  <2>1. todo["records"] = <<>> /\ todo["heartbeat"] = <<>>
    BY <1>3 DEF AtRest, WritersRest, Writer
  <2>2. beat # "sending" /\ rec # "sending"
    BY <1>3, <2>1 DEF HandInv
  <2>3. beat = "done" => FALSE
    BY <1>2, <2>2 DEF AtRest, HandlerRests, BeatInv
  <2>4. beat = "select" /\ ~ticked
    BY <2>2, <2>3 DEF AtRest, HandlerRests
  <2> QED
    BY <1>3, <2>4 DEF midSnapshot
<1>4. CASE mu # None
  <2>1. mu \in Writer
    BY <1>4
  <2>2. todo[mu] # <<>>
    <3> SUFFICES ASSUME todo[mu] = <<>> PROVE FALSE
      OBVIOUS
    <3>1. Len(wire) + Len(buffer) > Capacity
      BY <2>1 DEF AtRest, WritersRest
    <3>2. Len(buffer) <= 2
      BY <1>4 DEF BufferInv
    <3> QED
      BY <1>1, <3>1, <3>2
  <2>3. isChunk(todo[mu][1])
    BY <2>1, <2>2 DEF AtRest, WritersRest
  <2>4. mu = "records"
    BY <2>1, <2>2, <2>3 DEF HandInv, isChunk, Writer
  <2>5. Len(buffer) <= 1
    BY <1>4, <2>2, <2>3 DEF BufferInv
  <2> QED
    BY <1>1, <2>2, <2>3, <2>4, <2>5 DEF midSnapshot
<1> QED
  BY <1>3, <1>4

\* A step that leaves the follower's end and its clock alone, and gives the leader
\* no less time.
LEMMA QuietKept ==
    ASSUME QuietInv, WorkingConnectionIsKept, UNCHANGED <<conn, wire, phase, reader, idle, cut>>,
           rec = "returned" => rec' = "returned",
           isOpen /\ wire = <<>> /\ rec' # "returned" /\ idle <= silence => idle <= silence'
    PROVE  QuietInv' /\ WorkingConnectionIsKept'
BY DEF QuietInv, WorkingConnectionIsKept, isOpen

\* A step after which the connection is not open.
LEMMA QuietClosed ==
    ASSUME QuietInv, WorkingConnectionIsKept, ~isOpen', cut' => cut /\ conn' # "up",
           phase' # "streaming" => ~cut',
           reader'.at = "apply" => UNCHANGED <<reader, idle>>
    PROVE  QuietInv' /\ WorkingConnectionIsKept'
BY DEF QuietInv, WorkingConnectionIsKept, isOpen

\* A step of the leader keeps how long it may have said nothing.
LEMMA QuietLeaderStep ==
    ASSUME HeardInTime, StreamInv, HandInv, BufferInv, BeatInv, QuietInv,
           WorkingConnectionIsKept,
           \/ \E g \in Writer : Lock(g) \/ Write(g) \/ Flush(g) \/ WriteFails(g)
           \/ WriteChunk \/ Send \/ FollowFails \/ FollowReturns \/ Served \/ BeatingWait
           \/ Watch \/ Beat \/ BeatEnds \/ Commit \/ CloseStreams
    PROVE  QuietInv' /\ WorkingConnectionIsKept'
<1> USE StreamAssumption DEF StreamInv, TypeInv, LeaderTyped, PipeTyped
<1>1. idle \in Nat /\ Heartbeat \in Nat /\ lag \in Nat /\ ticker \in Nat /\ ticker <= Heartbeat
  BY DEF FollowerTyped
<1>2. silence <= Heartbeat \/ midSnapshot
  BY <1>1 DEF silence
<1>3. ASSUME UNCHANGED <<conn, wire, phase, reader, idle, cut>>, rec = "returned" => rec' = "returned",
             UNCHANGED <<lag, ticker>>, midSnapshot' = midSnapshot,
             beat' = "select" /\ ~ticked' => beat = "select" /\ ~ticked
      PROVE  QuietInv' /\ WorkingConnectionIsKept'
  <2>1. idle <= silence => idle <= silence'
    BY <1>1, <1>3 DEF silence
  <2> QED
    BY <1>3, <2>1, QuietKept
<1>4. CASE \E g \in Writer : Lock(g)
  <2> PICK g \in Writer : Lock(g)
    BY <1>4
  <2>1. ~midSnapshot
    BY DEF Lock, midSnapshot
  <2>2. ~midSnapshot'
    BY DEF Lock, TodoInv, midSnapshot, isChunk
  <2>3. silence' = silence
    BY <2>1, <2>2 DEF Lock, silence
  <2> QED
    BY <2>3, QuietKept DEF Lock, pipe, follower
<1>5. CASE \E g \in Writer : Write(g)
  <2> PICK g \in Writer : Write(g)
    BY <1>5
  <2>1. ~midSnapshot
    BY EmptySeq DEF Write, midSnapshot, Writer
  <2>2. UNCHANGED <<lag, ticker, beat, ticked>>
    BY DEF Write
  <2>3. idle <= silence => idle <= silence'
    BY <1>1, <2>1, <2>2 DEF silence
  <2> QED
    BY <2>3, QuietKept DEF Write, pipe, follower
<1>6. CASE \E g \in Writer : WriteFails(g)
  <2> PICK g \in Writer : WriteFails(g)
    BY <1>6
  <2>1. conn # "up" /\ UNCHANGED <<conn, wire, phase, reader, idle, cut>>
    BY DEF WriteFails, pipe, follower
  <2> QED
    BY <2>1, QuietClosed DEF isOpen, QuietInv
<1>7. CASE Send \/ FollowFails \/ FollowReturns \/ Served \/ Watch \/ BeatEnds \/ Commit \/ CloseStreams
  <2>1. /\ UNCHANGED <<conn, wire, phase, reader, idle, cut, lag, ticker, mu>>
        /\ rec = "returned" => rec' = "returned"
        /\ beat' = "select" /\ ~ticked' => beat = "select" /\ ~ticked
    BY <1>7 DEF Send, FollowFails, FollowReturns, Served, Watch, BeatEnds, Commit, CloseStreams,
                pipe, follower
  <2>2. todo' = todo \/ mu # "records"
    BY <1>7 DEF Send, FollowFails, FollowReturns, Served, Watch, BeatEnds, Commit, CloseStreams,
                TurnsInv
  <2>3. midSnapshot' = midSnapshot
    BY <2>1, <2>2 DEF midSnapshot, isChunk
  <2> QED
    BY <1>3, <2>1, <2>3
<1>8. CASE Beat
  <2>1. /\ UNCHANGED <<conn, wire, phase, reader, idle, cut, lag, ticker, mu, rec>>
        /\ beat' = "sending" /\ todo'["records"] = todo["records"]
    BY <1>8 DEF Beat, pipe, follower, Writer
  <2>2. midSnapshot' = midSnapshot
    BY <2>1 DEF midSnapshot, isChunk
  <2> QED
    BY <1>3, <2>1, <2>2
<1>9. CASE BeatingWait
  <2>1. mu = None
    BY <1>9 DEF BeatingWait, TurnsInv, Writer
  <2>2. conn = "up" => wire' = wire
    BY <1>9, <2>1 DEF BeatingWait, BufferInv
  <2>3. UNCHANGED <<conn, phase, reader, idle, cut>> /\ rec' = "returned"
    BY <1>9 DEF BeatingWait, follower
  <2> QED
    BY <2>2, <2>3 DEF QuietInv, WorkingConnectionIsKept, isOpen
<1>10. ASSUME UNCHANGED <<conn, phase, reader, idle, cut>>, rec # "returned",
              NEW q \in Seq(Piece), wire' = wire \o q,
              isOpen /\ wire = <<>> => idle <= Heartbeat + ChunkGap,
              q = <<>> => (idle <= silence => idle <= silence')
       PROVE  QuietInv' /\ WorkingConnectionIsKept'
  <2>1. CASE q = <<>>
    <3>1. wire' = wire
      BY <1>10, <2>1
    <3> QED
      BY <1>10, <2>1, <3>1, QuietKept
  <2>2. CASE wire # <<>>
    <3>1. wire' # <<>> /\ wire'[1] = wire[1]
      BY <1>10, <2>2, EmptySeq
    <3> QED
      BY <1>10, <2>2, <3>1 DEF QuietInv, WorkingConnectionIsKept, isOpen
  <2>3. CASE wire = <<>> /\ q # <<>>
    <3>1. wire' = q /\ q[1] \in Piece
      BY <1>10, <2>3, EmptySeq
    <3>2. q[1].age \in Nat
      BY <3>1, PieceParts
    <3>3. isOpen => idle <= Heartbeat + ChunkGap + wire'[1].age
      BY <1>1, <1>10, <2>3, <3>1, <3>2
    <3> QED
      BY <1>10, <2>3, <3>1, <3>3 DEF QuietInv, WorkingConnectionIsKept, isOpen
  <2> QED
    BY <2>1, <2>2, <2>3
<1>11. CASE \E g \in Writer : Flush(g)
  <2> PICK g \in Writer : Flush(g)
    BY <1>11
  <2>1. /\ UNCHANGED <<conn, phase, reader, idle, cut, ticked, ticker, lag, todo>>
        /\ wire' = wire \o buffer /\ mu = g /\ mu' = None /\ todo[g] = <<>>
    BY DEF Flush, follower
  <2>2. ~midSnapshot /\ ~midSnapshot'
    BY <2>1 DEF midSnapshot, Writer
  <2>3. rec # "returned"
    BY <2>1 DEF TurnsInv, Writer
  <2>4. isOpen /\ wire = <<>> => idle <= Heartbeat + ChunkGap
    BY <1>1, <1>2, <2>2, <2>3 DEF QuietInv, silence
  <2>5. CASE conn = "up" /\ buffer = <<>>
    <3>1. g = "records"
      BY <2>1, <2>5 DEF BufferInv, Writer
    <3>2. beat' = beat
      BY <3>1 DEF Flush, goesOn
    <3>3. silence' = silence
      BY <2>1, <2>2, <3>2 DEF silence
    <3> QED
      BY <1>10, <2>1, <2>3, <2>4, <3>3
  <2>6. CASE conn = "up" /\ buffer # <<>>
    BY <1>10, <2>1, <2>3, <2>4, <2>6
  <2>7. CASE conn # "up"
    BY <2>1, <2>7, QuietClosed DEF isOpen, QuietInv
  <2> QED
    BY <2>5, <2>6, <2>7
<1>12. CASE WriteChunk
  <2> DEFINE q == buffer \o <<Head(todo["records"])>>
  <2>1. /\ UNCHANGED <<conn, phase, reader, idle, cut, beat, ticked, ticker>>
        /\ mu = "records" /\ todo["records"] # <<>> /\ isChunk(Head(todo["records"]))
        /\ wire' = Append(wire \o buffer, Head(todo["records"]))
    BY <1>12 DEF WriteChunk, follower
  <2>2. Head(todo["records"]) \in Piece /\ Head(todo["records"]) = todo["records"][1]
    BY <2>1, EmptySeq DEF Writer
  <2>3. q \in Seq(Piece) /\ q # <<>> /\ wire' = wire \o q
    <3> DEFINE p == Head(todo["records"])
    <3> HIDE DEF p
    <3>1. p \in Piece /\ wire' = Append(wire \o buffer, p)
      BY <2>1, <2>2 DEF p
    <3>2. <<p>> \in Seq(Piece) /\ wire \in Seq(Piece) /\ buffer \in Seq(Piece)
      BY <3>1
    <3>3. buffer \o <<p>> \in Seq(Piece) /\ Len(buffer \o <<p>>) = Len(buffer) + 1
      BY <3>2, ConcatProperties
    <3>4. wire \o buffer \in Seq(Piece)
      BY <3>2
    <3>5. wire' = (wire \o buffer) \o <<p>>
      BY <3>1, <3>4, AppendIsConcat
    <3>6. wire' = wire \o (buffer \o <<p>>)
      BY <3>2, <3>5, ConcatAssociative
    <3>7. buffer \o <<p>> # <<>>
      BY <3>2, <3>3
    <3> QED
      BY <3>3, <3>6, <3>7 DEF p
  <2>4. rec # "returned" /\ midSnapshot
    BY <2>1, <2>2 DEF TurnsInv, midSnapshot
  <2>5. isOpen /\ wire = <<>> => idle <= Heartbeat + ChunkGap
    BY <1>1, <2>4 DEF QuietInv, silence
  <2> HIDE DEF q
  <2> QED
    BY <1>10, <2>1, <2>3, <2>4, <2>5
<1> QED
  BY <1>4, <1>5, <1>6, <1>7, <1>8, <1>9, <1>11, <1>12

\* A step of the follower, or of the network, keeps how long it may have heard
\* nothing: it has just heard something, or the connection has ended.
LEMMA QuietFollowerStep ==
    ASSUME HeardInTime, StreamInv, BeatInv, QuietInv, WorkingConnectionIsKept,
           \/ Accept \/ TurnedAway \/ Ask \/ Applied \/ Ended \/ Redial \/ DialFails \/ Refused
           \/ Read \/ Fenced \/ Reset \/ Blackhole \/ KernelGivesUp
    PROVE  QuietInv' /\ WorkingConnectionIsKept'
<1> USE StreamAssumption DEF StreamInv, TypeInv
<1>1. idle \in Nat /\ Heartbeat \in Nat /\ ChunkGap \in Nat /\ lag \in Nat /\ ticker \in Nat
  BY DEF FollowerTyped, LeaderTyped
<1>2. CASE \E refused \in BOOLEAN : streamReturns(refused)
  <2>1. /\ phase' = "waiting" /\ reader' = noReader /\ ~cut' /\ conn' # "up"
    BY <1>2 DEF streamReturns
  <2>2. reader'.at = "header"
    BY <2>1 DEF noReader
  <2> QED
    BY <2>1, <2>2 DEF QuietInv, WorkingConnectionIsKept, isOpen
<1>3. CASE DialFails \/ Ended \/ Refused \/ Fenced \/ KernelGivesUp \/ (TurnedAway /\ conn = "up")
  BY <1>2, <1>3 DEF DialFails, Ended, Refused, Fenced, KernelGivesUp, TurnedAway
<1>4. CASE TurnedAway /\ conn # "up"
  BY <1>4, QuietClosed DEF TurnedAway, QuietInv, isOpen
<1>5. CASE Ask
  <2>1. reader.at = "header"
    BY <1>5 DEF Ask, EndsInv, noReader
  <2> QED
    BY <1>5, <2>1 DEF Ask, QuietInv, WorkingConnectionIsKept, isOpen
<1>6. CASE Redial
  BY <1>6, QuietClosed DEF Redial, QuietInv, EndsInv, isOpen, pipe
<1>7. CASE Reset \/ Blackhole
  BY <1>7, QuietClosed DEF Reset, Blackhole, QuietInv, isOpen, follower
<1>8. CASE Accept /\ conn # "up"
  BY <1>8, QuietClosed DEF Accept, QuietInv, isOpen, pipe
<1>9. CASE Accept /\ conn = "up"
  <2>1. /\ UNCHANGED <<conn, wire, reader, cut>> /\ phase' = "streaming" /\ idle' = 0
        /\ wire = <<>> /\ phase = "asking"
    BY <1>9 DEF Accept, EndsInv, pipe
  <2>2. reader.at = "header" /\ ~cut
    BY <2>1 DEF EndsInv, noReader, QuietInv
  <2>3. ticker' \in Nat /\ lag' \in Nat
    BY <1>1, <1>9 DEF Accept
  <2>4. idle' <= silence'
    <3> DEFINE x == silence'
    <3>1. x = Heartbeat + lag' \/ x = ticker' \/ x = Heartbeat
      BY DEF silence
    <3> HIDE DEF x
    <3>2. x \in Nat
      BY <1>1, <2>3, <3>1
    <3>3. idle' <= x
      BY <2>1, <3>2
    <3> QED
      BY <3>3 DEF x
  <2> QED
    BY <2>1, <2>2, <2>4 DEF QuietInv, WorkingConnectionIsKept, isOpen
<1>10. CASE Applied
  <2>1. /\ reader' \in {noReader, [reader EXCEPT !.at = "lost"]}
        /\ UNCHANGED <<leader, pipe, phase, idle, cut>>
    BY <1>10 DEF Applied, losesStep
  <2>2. reader'.at # "apply"
    BY <2>1 DEF noReader, FollowerTyped, Reader
  <2>3. silence' = silence
    BY <2>1 DEF silence, midSnapshot, isChunk, leader
  <2> QED
    BY <2>1, <2>2, <2>3 DEF QuietInv, WorkingConnectionIsKept, isOpen, leader, pipe
<1>11. CASE Read
  <2>1. /\ idle' = 0 /\ ~cut /\ ~cut' /\ UNCHANGED <<leader, conn, phase>>
    BY <1>11 DEF Read
  <2>2. wire' \in Seq(Piece)
    BY <1>11, EmptySeq DEF Read, PipeTyped
  <2>3. wire' # <<>> => wire'[1].age \in Nat
    <3>1. wire' # <<>> => wire'[1] \in Piece
      BY <2>2, EmptySeq
    <3> QED
      BY <3>1, PieceParts
  <2>4. reader'.at = "apply" => reader'.work <= ApplyTime /\ reader'.work \in Nat
    <3>1. reader' \in Reader
      BY <1>11, FollowerTypedStep DEF Next, FollowerTyped
    <3> QED
      BY <3>1 DEF Reader
  <2>5. idle' <= silence'
    BY <1>1, <2>1 DEF silence, leader
  <2> QED
    BY <1>1, <2>1, <2>3, <2>4, <2>5 DEF QuietInv, WorkingConnectionIsKept, isOpen
<1> QED
  BY <1>3, <1>4, <1>5, <1>6, <1>7, <1>8, <1>9, <1>10, <1>11

\* Time passes, and the follower does not give up on a connection that works.
LEMMA QuietTick ==
    ASSUME HeardInTime, StreamInv, HandInv, BufferInv, BeatInv, QuietInv,
           WorkingConnectionIsKept, Tick
    PROVE  QuietInv' /\ WorkingConnectionIsKept'
<1> USE StreamAssumption DEF StreamInv, TypeInv
<1>1. /\ idle \in Nat /\ lag \in Nat /\ ticker \in Nat /\ Idle \in Nat
      /\ Heartbeat \in Nat /\ ChunkGap \in Nat /\ Latency \in Nat /\ ApplyTime \in Nat
  BY DEF FollowerTyped, LeaderTyped
<1>2. /\ UNCHANGED <<conn, phase, rec, beat, mu, todo, buffer>> /\ AtRest
      /\ idle' <= idle + 1 /\ idle' \in Nat /\ (cut' => phase = "streaming" /\ idle' = Idle)
  <2>1. UNCHANGED <<conn, phase, rec, beat, mu, todo, buffer>> /\ AtRest
    BY DEF Tick
  <2>2. idle' \in {lesser(idle + 1, Idle), 0} /\ (cut' <=> phase = "streaming" /\ idle' = Idle)
    BY DEF Tick
  <2>3. lesser(idle + 1, Idle) <= idle + 1 /\ lesser(idle + 1, Idle) \in Nat
    BY <1>1 DEF lesser
  <2> QED
    BY <1>1, <2>1, <2>2, <2>3
<1>3. isOpen' = isOpen
  BY <1>2 DEF isOpen
<1>4. reader'.at = reader.at /\ (reader.at = "apply" => idle' + reader'.work <= ApplyTime)
  <2>1. CASE reader.at # "apply"
    BY <2>1 DEF Tick
  <2>2. CASE reader.at = "apply"
    <3>1. reader' = [reader EXCEPT !.work = @ - 1] /\ reader.work \in Nat /\ reader \in Reader
      BY <2>2 DEF Tick, FollowerTyped, Reader
    <3>2. reader'.work = reader.work - 1 /\ reader'.at = reader.at
      BY <3>1 DEF Reader
    <3>3. idle + reader.work <= ApplyTime
      BY <2>2 DEF QuietInv
    <3>4. idle' <= idle + 1 /\ idle' \in Nat
      BY <1>2
    <3>5. idle' + (reader.work - 1) <= ApplyTime
      BY <1>1, <3>1, <3>3, <3>4
    <3> QED
      BY <3>2, <3>5
  <2> QED
    BY <2>1, <2>2
<1>5. reader.at = "apply" => idle' <= ApplyTime
  <2>1. reader.at = "apply" => reader'.work \in Nat
    <3>1. reader' \in Reader
      BY FollowerTypedStep DEF Next, FollowerTyped
    <3> QED
      BY <3>1 DEF Reader
  <2> QED
    BY <1>1, <1>2, <1>4, <2>1
<1>6. /\ wire \in Seq(Piece) /\ wire' \in Seq(Piece) /\ (wire' = <<>> <=> wire = <<>>)
      /\ wire # <<>> => /\ wire[1].age \in 0..Latency
                        /\ wire'[1].age = lesser(wire[1].age + 1, Latency)
  <2>1. wire' = older(wire) /\ wire \in Seq(Piece)
    BY DEF Tick, PipeTyped
  <2>2. wire' \in Seq(Piece) /\ Len(wire') = Len(wire)
    BY <2>1, OlderPieces
  <2>3. wire' = <<>> <=> wire = <<>>
    BY <2>1, <2>2, EmptySeq
  <2>4. ASSUME wire # <<>>
        PROVE  /\ wire[1].age \in 0..Latency
               /\ wire'[1].age = lesser(wire[1].age + 1, Latency)
    <3>1. 1 \in DOMAIN wire /\ wire[1] \in Piece
      BY <2>1, <2>4, EmptySeq
    <3>2. wire'[1] = [wire[1] EXCEPT !.age = lesser(@ + 1, Latency)]
      BY <2>1, <3>1 DEF older
    <3> QED
      BY <3>1, <3>2, PieceParts DEF Piece
  <2> QED
    BY <2>1, <2>2, <2>3, <2>4
<1>7. isOpen /\ wire # <<>> => \/ idle' <= Heartbeat + ChunkGap + wire'[1].age
                               \/ wire'[1].age = Latency /\ idle' <= ApplyTime
  <2> SUFFICES ASSUME isOpen, wire # <<>>
               PROVE  \/ idle' <= Heartbeat + ChunkGap + wire'[1].age
                      \/ wire'[1].age = Latency /\ idle' <= ApplyTime
    OBVIOUS
  <2> DEFINE a == wire[1].age
             b == wire'[1].age
  <2>1. a \in 0..Latency /\ b = lesser(a + 1, Latency)
    BY <1>6
  <2>2. idle <= Heartbeat + ChunkGap + a \/ (a = Latency /\ idle <= ApplyTime)
    BY DEF QuietInv
  <2>3. a = Latency => reader.at = "apply"
    <3>1. reading => a < Latency
      BY EmptySeq, <1>6 DEF Tick, isOpen
    <3>2. reader.at # "lost"
      BY <1>2 DEF AtRest, FollowerRests
    <3> QED
      BY <2>1, <3>1, <3>2 DEF reading, isOpen, FollowerTyped, Reader
  <2> HIDE DEF a, b
  <2>4. CASE a = Latency
    <3>1. b = Latency
      BY <1>1, <2>1, <2>4 DEF lesser
    <3> QED
      BY <1>5, <2>3, <2>4, <3>1 DEF b
  <2>5. CASE a # Latency
    <3>1. b = a + 1
      BY <1>1, <2>1, <2>5 DEF lesser
    <3>2. idle' <= Heartbeat + ChunkGap + b
      BY <1>1, <1>2, <2>1, <2>2, <2>5, <3>1
    <3> QED
      BY <3>2 DEF b
  <2> QED
    BY <2>4, <2>5
<1>8. isOpen /\ wire = <<>> /\ rec # "returned" =>
        idle' <= silence' /\ silence' <= Heartbeat + ChunkGap
  <2> SUFFICES ASSUME isOpen, wire = <<>>, rec # "returned"
               PROVE  idle' <= silence' /\ silence' <= Heartbeat + ChunkGap
    OBVIOUS
  <2>1. idle <= silence
    BY DEF QuietInv
  <2>2. midSnapshot' = midSnapshot
    BY <1>2 DEF midSnapshot, isChunk
  <2>3. CASE midSnapshot /\ ~(Len(wire) + Len(buffer) >= Capacity)
    <3>1. lag < ChunkGap
      BY <2>3 DEF Tick, midSnapshot, isOpen
    <3>2. lag' = lag + 1
      BY <1>1, <2>3, <3>1 DEF Tick, midSnapshot, lesser
    <3> QED
      BY <1>1, <1>2, <2>1, <2>2, <2>3, <3>1, <3>2 DEF silence
  <2>4. CASE ~midSnapshot /\ beat = "select" /\ ~ticked
    <3>1. idle <= ticker /\ ticker < Heartbeat
      BY <2>1, <2>4 DEF silence, BeatInv
    <3>2. /\ ticker' = (ticker + 1) % Heartbeat
          /\ ticked' <=> (ticked \/ ticker + 1 = Heartbeat)
      BY <2>4 DEF Tick
    <3>3. CASE ticker + 1 = Heartbeat
      <4>1. silence' = Heartbeat
        BY <2>2, <2>4, <3>2, <3>3 DEF silence
      <4> QED
        BY <1>1, <1>2, <3>1, <3>3, <4>1
    <3>4. CASE ticker + 1 # Heartbeat
      <4>1. ticker' = ticker + 1
        BY <1>1, <3>1, <3>2, <3>4
      <4>2. silence' = ticker + 1
        BY <1>2, <2>2, <2>4, <3>2, <3>4, <4>1 DEF silence
      <4> QED
        BY <1>1, <1>2, <3>1, <4>2
    <3> QED
      BY <3>3, <3>4
  <2> QED
    BY <1>2, <2>3, <2>4, SilentAtRest
<1>9. isOpen => idle' < Idle
  <2>1. CASE isOpen /\ wire # <<>>
    <3>1. wire'[1].age \in 0..Latency
      BY <1>1, <1>6, <2>1 DEF lesser
    <3> QED
      BY <1>1, <1>2, <1>7, <2>1, <3>1 DEF HeardInTime
  <2>2. CASE isOpen /\ wire = <<>> /\ rec # "returned"
    <3>1. idle' <= Heartbeat + ChunkGap
      <4> DEFINE x == silence'
      <4>1. idle' <= x /\ x <= Heartbeat + ChunkGap
        BY <1>8, <2>2
      <4>2. x \in Int
        <5>1. ticker' \in Nat /\ lag' \in Nat
          BY LeaderTypedStep DEF Next, LeaderTyped
        <5> QED
          BY <1>1, <5>1 DEF silence
      <4> HIDE DEF x
      <4> QED
        BY <1>1, <1>2, <4>1, <4>2
    <3> QED
      BY <1>1, <1>2, <3>1 DEF HeardInTime
  <2>3. CASE isOpen /\ wire = <<>> /\ rec = "returned"
    <3>1. reader.at = "apply"
      BY <1>2, <2>3 DEF AtRest, FollowerRests, reading, isOpen, FollowerTyped, Reader
    <3> QED
      BY <1>1, <1>2, <1>5, <3>1 DEF HeardInTime
  <2> QED
    BY <2>1, <2>2, <2>3
<1>10. WorkingConnectionIsKept'
  BY <1>1, <1>2, <1>9 DEF WorkingConnectionIsKept, isOpen
<1>11. QuietInv'
  BY <1>2, <1>3, <1>4, <1>6, <1>7, <1>8 DEF QuietInv
<1> QED
  BY <1>10, <1>11

\* Every step keeps all of it ...
LEMMA KeepInvStep ==
    ASSUME HeardInTime, StreamInv, KeepInv, [Next]_vars
    PROVE  KeepInv'
<1> USE DEF KeepInv
<1>1. HandInv' /\ BufferInv' /\ BeatInv'
  BY HandInvStep, BufferInvStep, BeatInvStep DEF StreamInv
<1>2. QuietInv' /\ WorkingConnectionIsKept'
  <2>1. CASE UNCHANGED vars
    <3>1. silence' = silence
      BY <2>1 DEF silence, midSnapshot, isChunk, vars, leader
    <3> QED
      BY <2>1, <3>1, QuietKept DEF vars, leader, pipe, follower
  <2>2. CASE Tick
    BY <2>2, QuietTick
  <2>3. CASE Next /\ ~Tick
    BY <2>3, QuietLeaderStep, QuietFollowerStep DEF Next, Prompt
  <2> QED
    BY <2>1, <2>2, <2>3
<1> QED
  BY <1>1, <1>2

\* follower.go, Idle: as long as the heartbeat, the delays of the network and the
\* disk, and the store together leave time, a connection that is up is never
\* taken for a dead one, whatever it is in the middle of.
THEOREM WorksOn ==
    ASSUME HeardInTime
    PROVE  Spec => []WorkingConnectionIsKept
<1>1. Init => KeepInv
  <2> SUFFICES ASSUME Init PROVE KeepInv
    OBVIOUS
  <2>1. HandInv /\ BufferInv /\ BeatInv /\ WorkingConnectionIsKept
    BY DEF Init, HandInv, BufferInv, BeatInv, WorkingConnectionIsKept, Writer
  <2>2. QuietInv
    BY DEF Init, QuietInv, noReader, isOpen
  <2> QED
    BY <2>1, <2>2 DEF KeepInv
<1>2. StreamInv /\ KeepInv /\ [Next]_vars => KeepInv'
  BY KeepInvStep
<1>3. KeepInv => WorkingConnectionIsKept
  BY DEF KeepInv
<1> QED
  BY <1>1, <1>2, <1>3, AlwaysStreamInv, PTL DEF Spec

=============================================================================
