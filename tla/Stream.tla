------------------------------- MODULE Stream -------------------------------
(***************************************************************************)
(* One replication connection at a time, byte side up: the leader's        *)
(* handler and its heartbeat write frames to one response                  *)
(* (server/replica.go), and the Follower reads them, hangs up on silence,  *)
(* backs off and dials again (server/follower.go).                         *)
(*                                                                         *)
(* A frame is a header and the pieces of its payload.  Time is counted in  *)
(* ticks, and goroutines that can run do so before the next one.  A        *)
(* position is the number of batches it leads to, 0 for none.              *)
(***************************************************************************)
EXTENDS Integers, Sequences

CONSTANTS
    Heartbeat,   \* Options.Heartbeat; 0 for none
    Idle,        \* FollowerOptions.Idle
    MinBackoff,
    MaxBackoff,
    Latency,     \* how long the network may hold what it delivers
    ApplyTime,   \* how long the store may take over a batch, or to finish a snapshot
    ChunkGap,    \* how long may pass between two chunks of a snapshot
    Chunks,      \* chunks a snapshot is copied in
    Capacity,    \* pieces a connection holds before a write to it blocks
    MaxBatches,  \* bound: batches in the leader's log
    Faults,      \* what may go wrong ...
    MaxFaults,   \* ... and how often
    None

ASSUME StreamAssumption ==
    /\ Heartbeat \in Nat
    /\ Idle \in Nat \ {0}
    /\ MinBackoff \in Nat \ {0}
    /\ MaxBackoff \in Nat /\ MinBackoff <= MaxBackoff
    /\ Latency \in Nat /\ ApplyTime \in Nat /\ ChunkGap \in Nat
    /\ Chunks \in Nat \ {0}
    /\ Capacity \in Nat /\ Capacity > 2
    /\ MaxBatches \in Nat \ {0} /\ MaxFaults \in Nat
    /\ None \notin {"records", "heartbeat"}

Writer == {"records", "heartbeat"}
Kind   == {"heartbeat", "batch", "snapshot"}
Frame  == [kind : Kind, at : 0..MaxBatches]

VARIABLES
    written,  \* batches in the leader's log
    streams,  \* s.streams is closed
    rec,      \* where the handler is
    next,     \* the batch db.Follow sends next
    beat,     \* where the heartbeat goroutine is
    ticker,   \* ticks since its ticker last fired
    ticked,   \* the ticker's channel is full
    todo,     \* writer -> pieces it has yet to write of the frame in hand
    mu,       \* stream.mu
    lag,      \* ticks since its holder last got something out
    served,   \* the channels of the same names are closed
    broken,
    until,
    conn,     \* the connection: none, up, closed, or silent (lost and not closed)
    buffer,   \* what net/http has been given and not sent
    wire,     \* what has been sent and not read
    phase,    \* where the Follower's loop is
    reader,   \* where its reading is
    applied,  \* db.Applied()
    heard,    \* the last whole frame it read
    idle,     \* ticks since it last heard from the leader
    cut,      \* its idle timer has fired
    lasted,   \* time.Since(started), up to MaxBackoff
    wait,     \* run's wait
    delay,    \* ticks of it left
    faults    \* faults so far

leader   == <<written, streams, rec, next, beat, ticker, ticked, todo, mu, lag, served,
              broken, until>>
pipe     == <<conn, buffer, wire>>
follower == <<phase, reader, applied, heard, idle, cut, lasted, wait, delay>>
vars     == <<leader, pipe, follower, faults>>

fault(kind) == /\ kind \in Faults
               /\ faults < MaxFaults
               /\ faults' = faults + 1

lesser(a, b) == IF a < b THEN a ELSE b

(***************************************************************************)
(* Frames.                                                                 *)
(***************************************************************************)

parts(f) == CASE f.kind = "heartbeat" -> 1
              [] f.kind = "batch"     -> 2
              [] OTHER                -> 1 + Chunks

\* writeFrame, and frameFrom for a snapshot.
pieces(f) == [i \in 1..parts(f) |-> [frame |-> f, part |-> i, age |-> 0]]

\* Too large for net/http's buffer: it goes out when it is written.
isChunk(p) == p.frame.kind = "snapshot" /\ p.part > 1

isLast(p) == p.part = parts(p.frame)

(***************************************************************************)
(* stream.frame and stream.frameFrom: lock, write, flush, unlock.          *)
(***************************************************************************)

\* Mutant of Lock: it waits for nobody.
LockNothing(g) ==
    /\ todo[g] # <<>>
    /\ mu # g
    /\ mu' = g
    /\ lag' = 0
    /\ UNCHANGED <<written, streams, rec, next, beat, ticker, ticked, todo, served,
                   broken, until, pipe, follower, faults>>

Lock(g) ==
    /\ todo[g] # <<>>
    /\ mu = None
    /\ mu' = g
    /\ lag' = 0
    /\ UNCHANGED <<written, streams, rec, next, beat, ticker, ticked, todo, served,
                   broken, until, pipe, follower, faults>>

\* The header and a batch go into the buffer.
Write(g) ==
    /\ mu = g
    /\ todo[g] # <<>> /\ ~isChunk(Head(todo[g]))
    /\ conn # "closed"
    /\ buffer' = Append(buffer, Head(todo[g]))
    /\ todo' = [todo EXCEPT ![g] = Tail(@)]
    /\ UNCHANGED <<written, streams, rec, next, beat, ticker, ticked, mu, lag, served,
                   broken, until, conn, wire, follower, faults>>

\* io.Copy, a chunk at a time.  It blocks while the connection is full.
WriteChunk ==
    /\ mu = "records"
    /\ todo[mu] # <<>> /\ isChunk(Head(todo[mu]))
    /\ conn # "closed"
    /\ Len(wire) + Len(buffer) < Capacity
    /\ wire' = Append(wire \o buffer, Head(todo[mu]))
    /\ buffer' = <<>>
    /\ todo' = [todo EXCEPT ![mu] = Tail(@)]
    /\ lag' = 0
    /\ UNCHANGED <<written, streams, rec, next, beat, ticker, ticked, mu, served,
                   broken, until, conn, follower, faults>>

\* What the writer of a whole frame does next.
goesOn(g) ==
    IF g = "records"
    THEN /\ rec' = "follow"
         /\ UNCHANGED beat
    ELSE /\ beat' = "select"
         /\ UNCHANGED rec

\* Mutant of Flush: left for net/http to send when the buffer is full.
FlushNothing(g) ==
    /\ mu = g
    /\ todo[g] = <<>>
    /\ mu' = None
    /\ goesOn(g)
    /\ UNCHANGED <<written, streams, next, ticker, ticked, todo, lag, served, broken,
                   until, pipe, follower, faults>>

Flush(g) ==
    /\ mu = g
    /\ todo[g] = <<>>
    /\ conn # "closed"
    /\ Len(wire) + Len(buffer) <= Capacity
    /\ wire' = wire \o buffer
    /\ buffer' = <<>>
    /\ mu' = None
    /\ goesOn(g)
    /\ UNCHANGED <<written, streams, next, ticker, ticked, todo, lag, served, broken,
                   until, conn, follower, faults>>

\* Mutant of givesUp: the heartbeat stops, and tells nobody.
givesUpQuietly(g) ==
    /\ IF g = "records"
       THEN /\ rec' = "ending"
            /\ UNCHANGED beat
       ELSE /\ beat' = "done"
            /\ UNCHANGED rec
    /\ UNCHANGED broken

\* The writer of a frame that did not go out: the handler returns, and the
\* heartbeat says so.
givesUp(g) ==
    IF g = "records"
    THEN /\ rec' = "ending"
         /\ UNCHANGED <<beat, broken>>
    ELSE /\ beat' = "done"
         /\ broken' = TRUE
         /\ UNCHANGED rec

\* A connection closed at the other end, or one the operating system has at
\* last given up on.
WriteFails(g) ==
    /\ mu = g
    /\ conn \in {"closed", "silent"}
    /\ mu' = None
    /\ todo' = [todo EXCEPT ![g] = <<>>]
    /\ givesUp(g)
    /\ UNCHANGED <<written, streams, next, ticker, ticked, lag, served, until, pipe,
                   follower, faults>>

\* The spooled file ends, or cannot be read, before its length is out.
SnapshotShort ==
    /\ fault("short")
    /\ mu = "records"
    /\ todo[mu] # <<>> /\ isChunk(Head(todo[mu]))
    /\ mu' = None
    /\ todo' = [todo EXCEPT !["records"] = <<>>]
    /\ givesUp("records")
    /\ UNCHANGED <<written, streams, next, ticker, ticked, lag, served, until, pipe,
                   follower>>

(***************************************************************************)
(* streamReplica: the handler, its watcher and its heartbeat.              *)
(***************************************************************************)

\* Everything that can be answered with a status is answered first.  A
\* follower that has nothing is sent a snapshot before anything else.
Accept ==
    /\ rec = "accept"
    /\ ~streams
    /\ IF applied = 0
       THEN /\ rec' = "sending"
            /\ todo' = [todo EXCEPT !["records"] = pieces([kind |-> "snapshot", at |-> written])]
            /\ next' = written + 1
       ELSE /\ rec' = "follow"
            /\ next' = applied + 1
            /\ UNCHANGED todo
    /\ beat' = IF Heartbeat > 0 THEN "select" ELSE "done"
    /\ ticker' = 0
    /\ IF conn = "up"
       THEN /\ phase' = "streaming"
            /\ idle' = 0
       ELSE UNCHANGED <<phase, idle>>
    /\ UNCHANGED <<written, streams, ticked, mu, lag, served, broken, until, pipe, reader,
                   applied, heard, cut, lasted, wait, delay, faults>>

\* db.Follow has a batch and calls send.
Send ==
    /\ rec = "follow"
    /\ next <= written
    /\ rec' = "sending"
    /\ todo' = [todo EXCEPT !["records"] = pieces([kind |-> "batch", at |-> next])]
    /\ next' = next + 1
    /\ UNCHANGED <<written, streams, beat, ticker, ticked, mu, lag, served, broken, until,
                   pipe, follower, faults>>

\* db.Follow returns because until is closed.
FollowReturns ==
    /\ rec = "follow"
    /\ until
    /\ rec' = "ending"
    /\ UNCHANGED <<written, streams, next, beat, ticker, ticked, todo, mu, lag, served,
                   broken, until, pipe, follower, faults>>

\* db.Follow fails.  Only a position that was merged away is answered with a
\* snapshot, and only if anybody is there and one can be spooled; anything else
\* ends the stream.
FollowFails ==
    /\ fault("diverge")
    /\ rec = "follow"
    /\ \/ /\ rec' = "ending"
          /\ UNCHANGED <<todo, next>>
       \/ /\ ~until
          /\ rec' = "sending"
          /\ todo' = [todo EXCEPT !["records"] = pieces([kind |-> "snapshot", at |-> written])]
          /\ next' = written + 1
    /\ UNCHANGED <<written, streams, beat, ticker, ticked, mu, lag, served, broken, until,
                   pipe, follower>>

\* The first of the deferred: close(served).
Served ==
    /\ rec = "ending"
    /\ served' = TRUE
    /\ rec' = "beating"
    /\ UNCHANGED <<written, streams, next, beat, ticker, ticked, todo, mu, lag, broken,
                   until, pipe, follower, faults>>

\* Mutant of BeatingWait: the heartbeat is left to stop in its own time.
BeatingWaitNot ==
    /\ rec = "beating"
    /\ rec' = "returned"
    /\ wire' = IF conn = "up" THEN wire \o buffer ELSE wire
    /\ buffer' = <<>>
    /\ UNCHANGED <<written, streams, next, beat, ticker, ticked, todo, mu, lag, served,
                   broken, until, conn, follower, faults>>

\* The second: beating.Wait.  net/http sends what is left and ends the response.
BeatingWait ==
    /\ rec = "beating"
    /\ beat = "done"
    /\ rec' = "returned"
    /\ wire' = IF conn = "up" THEN wire \o buffer ELSE wire
    /\ buffer' = <<>>
    /\ UNCHANGED <<written, streams, next, beat, ticker, ticked, todo, mu, lag, served,
                   broken, until, conn, follower, faults>>

\* Mutant of Watch: CloseStreams is not.
WatchNoStreams ==
    /\ rec \notin {"none", "accept"}
    /\ ~until
    /\ conn = "closed" \/ broken \/ served
    /\ until' = TRUE
    /\ UNCHANGED <<written, streams, rec, next, beat, ticker, ticked, todo, mu, lag, served,
                   broken, pipe, follower, faults>>

\* The watcher merges four channels into until.
Watch ==
    /\ rec \notin {"none", "accept"}
    /\ ~until
    /\ conn = "closed" \/ streams \/ broken \/ served
    /\ until' = TRUE
    /\ UNCHANGED <<written, streams, rec, next, beat, ticker, ticked, todo, mu, lag, served,
                   broken, pipe, follower, faults>>

\* Its ticker fired: a frame with the leader's own position.
Beat ==
    /\ beat = "select"
    /\ ticked
    /\ ticked' = FALSE
    /\ beat' = "sending"
    /\ todo' = [todo EXCEPT !["heartbeat"] = pieces([kind |-> "heartbeat", at |-> written])]
    /\ UNCHANGED <<written, streams, rec, next, ticker, mu, lag, served, broken, until,
                   pipe, follower, faults>>

BeatEnds ==
    /\ beat = "select"
    /\ until
    /\ beat' = "done"
    /\ UNCHANGED <<written, streams, rec, next, ticker, ticked, todo, mu, lag, served,
                   broken, until, pipe, follower, faults>>

\* The store takes a write.
Commit ==
    /\ written < MaxBatches
    /\ written' = written + 1
    /\ UNCHANGED <<streams, rec, next, beat, ticker, ticked, todo, mu, lag, served, broken,
                   until, pipe, follower, faults>>

CloseStreams ==
    /\ fault("close")
    /\ ~streams
    /\ streams' = TRUE
    /\ UNCHANGED <<written, rec, next, beat, ticker, ticked, todo, mu, lag, served, broken,
                   until, pipe, follower>>

(***************************************************************************)
(* Follower.run: dial, stream, wait, dial again.                           *)
(***************************************************************************)

noReader == [at |-> "header", frame |-> None, left |-> 0, work |-> 0]

\* Mutant of longerWait: doubled, and not capped.
longerWaitUncapped(refused) ==
    IF lasted >= MaxBackoff THEN MinBackoff
    ELSE IF refused THEN MaxBackoff
    ELSE 2 * wait

\* A connection that stayed up starts from the shortest wait again, a hopeless
\* one waits the longest, any other twice as long as before.
longerWait(refused) ==
    IF lasted >= MaxBackoff THEN MinBackoff
    ELSE IF refused THEN MaxBackoff
    ELSE lesser(2 * wait, MaxBackoff)

\* stream returns, for a reason that is hopeless or is not.
streamReturns(refused) ==
    /\ phase' = "waiting"
    /\ wait' = longerWait(refused)
    /\ \E jitter \in 0..(wait' \div 2) : delay' = wait' \div 2 + jitter
    /\ reader' = noReader
    /\ idle' = 0
    /\ cut' = FALSE
    /\ lasted' = 0
    /\ conn' = IF conn = "up" THEN "closed" ELSE conn
    /\ wire' = <<>>

\* The request goes out.  Handlers that overlap are SemiSync's: here the last
\* one has returned.
Ask ==
    /\ phase = "dial"
    /\ rec \in {"none", "returned"}
    /\ phase' = "asking"
    /\ conn' = "up"
    /\ buffer' = <<>>
    /\ wire' = <<>>
    /\ rec' = "accept"
    /\ beat' = "done"
    /\ ticked' = FALSE
    /\ served' = FALSE
    /\ broken' = FALSE
    /\ until' = FALSE
    /\ UNCHANGED <<written, streams, next, ticker, todo, mu, lag, reader, applied, heard,
                   idle, cut, lasted, wait, delay, faults>>

\* Nobody answers at that address.
DialFails ==
    /\ fault("dial")
    /\ phase = "dial"
    /\ streamReturns(FALSE)
    /\ UNCHANGED <<leader, buffer, applied, heard>>

\* A 4xx: a leader that was replaced, or a node that follows somebody itself.
Refused ==
    /\ fault("refuse")
    /\ phase = "asking" /\ conn = "up" /\ rec = "accept"
    /\ rec' = "returned"
    /\ streamReturns(TRUE)
    /\ UNCHANGED <<written, streams, next, beat, ticker, ticked, todo, mu, lag, served,
                   broken, until, buffer, applied, heard>>

\* A server on its way down answers 503, which is not hopeless.
TurnedAway ==
    /\ rec = "accept"
    /\ streams
    /\ rec' = "returned"
    /\ IF conn = "up"
       THEN streamReturns(FALSE)
       ELSE UNCHANGED <<phase, wait, delay, reader, idle, cut, lasted, conn, wire>>
    /\ UNCHANGED <<written, streams, next, beat, ticker, ticked, todo, mu, lag, served,
                   broken, until, buffer, applied, heard, faults>>

(***************************************************************************)
(* Follower.stream.                                                        *)
(***************************************************************************)

reading == phase = "streaming" /\ reader.at \in {"header", "payload"}

takesHeader(p) ==
    IF p.frame.kind = "heartbeat"
    THEN /\ heard' = p.frame
         /\ UNCHANGED <<reader, applied>>
    ELSE /\ reader' = [reader EXCEPT !.at = "payload", !.frame = p.frame,
                                     !.left = parts(p.frame) - 1]
         /\ applied' = IF p.frame.kind = "snapshot" THEN 0 ELSE applied
         /\ UNCHANGED heard

takesPayload(p) ==
    /\ IF reader.left > 1
       THEN /\ reader' = [reader EXCEPT !.left = @ - 1]
            /\ UNCHANGED heard
       ELSE \E time \in 0..ApplyTime :
              /\ reader' = [reader EXCEPT !.at = "apply", !.left = 0, !.work = time]
              /\ heard' = reader.frame
    /\ UNCHANGED applied

\* What is not the next piece of what it is reading: no header, or nothing
\* that the store takes for the payload of the frame in hand.
fits(p) == IF reader.at = "header" THEN p.part = 1
                                   ELSE p.part > 1 /\ p.frame = reader.frame

losesStep == /\ reader' = [reader EXCEPT !.at = "lost"]
             /\ UNCHANGED <<applied, heard>>

takes(p) == IF ~fits(p) THEN losesStep
            ELSE IF reader.at = "header" THEN takesHeader(p)
            ELSE takesPayload(p)

\* Mutant of Read: the timer moves when a frame completes.
ReadByFrame ==
    /\ reading /\ ~cut
    /\ conn = "up" /\ wire # <<>>
    /\ takes(Head(wire))
    /\ wire' = Tail(wire)
    /\ idle' = IF isLast(Head(wire)) THEN 0 ELSE idle
    /\ UNCHANGED <<leader, conn, buffer, phase, cut, lasted, wait, delay, faults>>

\* readHeader, readPayload, and ApplySnapshot reading for itself; alive.Read
\* resets the idle timer for every byte.
Read ==
    /\ reading /\ ~cut
    /\ conn = "up" /\ wire # <<>>
    /\ takes(Head(wire))
    /\ wire' = Tail(wire)
    /\ idle' = 0
    /\ UNCHANGED <<leader, conn, buffer, phase, cut, lasted, wait, delay, faults>>

\* db.Apply, which wants the batch that continues the store.
Applied ==
    /\ phase = "streaming"
    /\ reader.at = "apply" /\ reader.work = 0
    /\ IF reader.frame.kind = "batch" /\ reader.frame.at # applied + 1
       THEN losesStep
       ELSE /\ applied' = reader.frame.at
            /\ reader' = noReader
            /\ UNCHANGED heard
    /\ UNCHANGED <<leader, pipe, phase, idle, cut, lasted, wait, delay, faults>>

\* db.Apply finds the batch fenced, which is hopeless.
Fenced ==
    /\ fault("fence")
    /\ phase = "streaming"
    /\ reader.at = "apply" /\ reader.work = 0
    /\ streamReturns(TRUE)
    /\ UNCHANGED <<leader, buffer, applied, heard>>

\* The response has ended, the connection has broken, the idle timer has
\* cancelled the request, or the stream made no sense.
Ended ==
    /\ \/ reading /\ conn = "up" /\ rec = "returned" /\ wire = <<>>
       \/ phase \in {"asking", "streaming"} /\ reader.at # "apply" /\ conn = "closed"
       \/ reading /\ cut
       \/ reader.at = "lost"
    /\ streamReturns(FALSE)
    /\ UNCHANGED <<leader, buffer, applied, heard, faults>>

Redial ==
    /\ phase = "waiting" /\ delay = 0
    /\ phase' = "dial"
    /\ UNCHANGED <<leader, pipe, reader, applied, heard, idle, cut, lasted, wait, delay,
                   faults>>

(***************************************************************************)
(* The network, and time.                                                  *)
(***************************************************************************)

\* A connection reset: both ends hear of it.
Reset ==
    /\ fault("drop")
    /\ conn = "up"
    /\ conn' = "closed"
    /\ UNCHANGED <<leader, buffer, wire, follower>>

\* A cable pulled: neither does.
Blackhole ==
    /\ fault("silence")
    /\ conn = "up"
    /\ conn' = "silent"
    /\ wire' = <<>>
    /\ UNCHANGED <<leader, buffer, follower>>

\* The operating system's keepalive, fifteen minutes later.
KernelGivesUp ==
    /\ conn = "silent"
    /\ \/ phase = "asking"
       \/ reading
    /\ streamReturns(FALSE)
    /\ UNCHANGED <<leader, buffer, applied, heard, faults>>

\* Goroutines that are not waiting for anybody, and writes that do not block.
Prompt ==
    \/ \E g \in Writer : Lock(g) \/ Write(g) \/ Flush(g) \/ (conn = "closed" /\ WriteFails(g))
    \/ Accept \/ TurnedAway \/ Send \/ FollowReturns \/ Served \/ BeatingWait
    \/ Watch \/ Beat \/ BeatEnds
    \/ Ask \/ Applied \/ Ended \/ Redial

\* What each of them is waiting for when none can go on: the guards of Prompt,
\* spelt out.
WritersRest ==
    \A g \in Writer :
        /\ mu = None => todo[g] = <<>>
        /\ mu = g => /\ conn # "closed"
                    /\ IF todo[g] = <<>> THEN Len(wire) + Len(buffer) > Capacity
                                        ELSE isChunk(Head(todo[g]))

HandlerRests ==
    /\ rec \notin {"accept", "ending"}
    /\ rec = "follow" => next > written /\ ~until
    /\ rec = "beating" => beat # "done"
    /\ rec # "none" => until \/ ~(conn = "closed" \/ streams \/ broken \/ served)
    /\ beat = "select" => ~ticked /\ ~until

FollowerRests ==
    /\ phase = "dial" => rec \notin {"none", "returned"}
    /\ phase = "waiting" => delay > 0
    /\ reader.at # "lost"
    /\ reader.at = "apply" => reader.work > 0
    /\ phase \in {"asking", "streaming"} /\ reader.at # "apply" => conn # "closed"
    /\ reading => ~cut /\ ~(conn = "up" /\ rec = "returned" /\ wire = <<>>)

AtRest == WritersRest /\ HandlerRests /\ FollowerRests

older(pieceSeq) ==
    [i \in DOMAIN pieceSeq |-> [pieceSeq[i] EXCEPT !.age = lesser(@ + 1, Latency)]]

Tick ==
    /\ AtRest
    /\ mu = "records" /\ todo["records"] # <<>> => lag < ChunkGap \/ conn # "up"
                                                   \/ Len(wire) + Len(buffer) >= Capacity
    /\ reading /\ conn = "up" /\ wire # <<>> => Head(wire).age < Latency
    /\ ticker' = IF beat \in {"select", "sending"} THEN (ticker + 1) % Heartbeat ELSE 0
    /\ ticked' = (ticked \/ (beat \in {"select", "sending"} /\ ticker + 1 = Heartbeat))
    /\ lag' = IF mu = None THEN 0 ELSE lesser(lag + 1, ChunkGap)
    /\ wire' = older(wire)
    /\ idle' = IF phase \in {"asking", "streaming"} THEN lesser(idle + 1, Idle) ELSE 0
    /\ cut' = (phase = "streaming" /\ idle' = Idle)
    /\ lasted' = IF phase \in {"asking", "streaming"} THEN lesser(lasted + 1, MaxBackoff)
                                                     ELSE 0
    /\ delay' = IF phase = "waiting" THEN delay - 1 ELSE 0
    /\ reader' = IF reader.at = "apply" THEN [reader EXCEPT !.work = @ - 1] ELSE reader
    /\ UNCHANGED <<written, streams, rec, next, beat, todo, mu, served, broken, until,
                   conn, buffer, phase, applied, heard, wait, faults>>

(***************************************************************************)
(* The specification.                                                      *)
(***************************************************************************)

Init ==
    /\ written = 1 /\ streams = FALSE
    /\ rec = "none" /\ next = 1
    /\ beat = "done" /\ ticker = 0 /\ ticked = FALSE
    /\ todo = [g \in Writer |-> <<>>] /\ mu = None /\ lag = 0
    /\ served = FALSE /\ broken = FALSE /\ until = FALSE
    /\ conn = "none" /\ buffer = <<>> /\ wire = <<>>
    /\ phase = "dial" /\ reader = noReader /\ applied \in {0, 1} /\ heard = None
    /\ idle = 0 /\ cut = FALSE /\ lasted = 0
    /\ wait = MinBackoff /\ delay = 0
    /\ faults = 0

Next ==
    \/ Prompt
    \/ WriteChunk \/ (\E g \in Writer : WriteFails(g))
    \/ FollowFails \/ Commit \/ CloseStreams
    \/ DialFails \/ Refused \/ Read \/ Fenced
    \/ Reset \/ Blackhole \/ KernelGivesUp
    \/ Tick

Spec == Init /\ [][Next]_vars

\* The same over a disk that fails under a spooled snapshot.
SpecShort == Init /\ [][Next \/ SnapshotShort]_vars

FairSpec ==
    /\ Spec
    /\ WF_vars(Prompt)
    /\ WF_vars(Tick)
    /\ WF_vars(WriteChunk)
    /\ WF_vars(Read)
    /\ WF_vars(KernelGivesUp)
    /\ \A g \in Writer : WF_vars(WriteFails(g))

(***************************************************************************)
(* Properties.                                                             *)
(***************************************************************************)

Place   == {"none", "accept", "follow", "sending", "ending", "beating", "returned"}
isPiece(p) == /\ p.frame \in Frame
              /\ p.part \in 1..parts(p.frame)
              /\ p.age \in 0..Latency
arePieces(q) == \A i \in DOMAIN q : isPiece(q[i])

\* Every variable holds what its Go type lets it hold, and no more is under way
\* than the buffers can hold.
TypeOK ==
    /\ written \in 0..MaxBatches /\ next \in 1..MaxBatches + 1
    /\ {streams, ticked, served, broken, until, cut} \subseteq BOOLEAN
    /\ rec \in Place /\ beat \in {"select", "sending", "done"}
    /\ ticker \in 0..Heartbeat /\ lag \in 0..ChunkGap
    /\ mu \in Writer \cup {None}
    /\ conn \in {"none", "up", "closed", "silent"}
    /\ arePieces(buffer) /\ arePieces(wire) /\ \A g \in Writer : arePieces(todo[g])
    /\ phase \in {"dial", "asking", "streaming", "waiting"}
    /\ reader.at \in {"header", "payload", "apply", "lost"}
    /\ reader.work \in 0..ApplyTime /\ reader.left \in 0..Chunks
    /\ applied \in 0..MaxBatches /\ heard \in Frame \cup {None}
    /\ idle \in 0..Idle /\ lasted \in 0..MaxBackoff
    /\ wait \in MinBackoff..MaxBackoff /\ delay \in 0..MaxBackoff

\* replica.go:514 "Waited for before this handler returns": once the handler has
\* returned nobody holds the response or means to write to it.
ResponseIsLeftAlone ==
    rec = "returned" => beat = "done" /\ mu = None /\ \A g \in Writer : todo[g] = <<>>

\* The frames whose last pieces are in q.
lastPieces(q) ==
    LET upTo[i \in 0..Len(q)] ==
          IF i = 0 THEN <<>>
          ELSE IF isLast(q[i]) THEN Append(upTo[i - 1], q[i].frame)
          ELSE upTo[i - 1]
    IN  upTo[Len(q)]

isOpen == phase = "streaming" /\ conn = "up"

\* The frames of which everything is out and not everything is read.
inFlight == IF isOpen THEN lastPieces(wire \o buffer) ELSE <<>>

Channel == INSTANCE FrameChannel WITH open <- isOpen, queue <- inFlight

\* replica.go, stream: "a data race and a corrupted frame".  Two goroutines
\* write, and what is read are the frames they wrote, whole and in order.
FramesStayWhole == Channel!Spec

\* follower.go, Idle: "a bound on silence and not on a frame".  A connection
\* that is up, with a leader that beats, is never taken for a dead one.
WorkingConnectionIsKept == cut => conn # "up"

\* README "A follower that hears nothing for -idle drops the connection": from
\* the request on.
HeardOrDropped == phase \in {"asking", "streaming"} => idle < Idle \/ cut

\* follower.go, run: "none of them comes back after no wait at all", none waits
\* longer than the longest wait, and a connection that worked is followed by a
\* short one, however long the waits had become before it.
BacksOff ==
    [][phase' = "waiting" /\ phase # "waiting" =>
         /\ delay' \in 1..MaxBackoff
         /\ lasted = MaxBackoff => delay' <= MinBackoff]_vars

\* replica.go:530 and follower.go:405: a connection that has gone quiet ends,
\* at both ends.
DeadConnectionEnds == (conn = "silent") ~> (rec = "returned" /\ phase # "streaming")

\* server.go, CloseStreams: every stream ends, and none is handed out after.
StreamsEnd == streams ~> [](rec \in {"none", "accept", "returned"})

\* What the leader has stored gets to its follower, whatever went wrong before.
EverythingArrives == []<>(applied = written \/ streams)
=============================================================================
