------------------------------ MODULE SemiSync ------------------------------
(***************************************************************************)
(* Semi-synchronous replication: what a leader knows about the nodes       *)
(* following it, and what a write can be made to wait for (acks.go),       *)
(* together with the two ends of a replication stream that feed it:        *)
(* streamReplica on the leader (replica.go) and the Follower (follower.go).*)
(*                                                                         *)
(* One leader at a fixed term.  Each node runs one Follower; a Follower    *)
(* makes up an id, and a node that restarts makes up another.  A stream    *)
(* is a slot of Conn: the leader's handler and the bytes in transit.  The  *)
(* follower may give a connection up long before the handler learns of it, *)
(* so one id can have two handlers on the leader at once.                  *)
(*                                                                         *)
(* Data abstracted: a record is its sequence number, a batch the position  *)
(* after it, a snapshot the position it stands for.  Heartbeats carry no   *)
(* state and are left out; silence shows as Drop.                          *)
(***************************************************************************)
EXTENDS Positions, Sequences, FiniteSets

CONSTANTS
    Node,           \* the following nodes
    Id,             \* the ids their Followers make up
    Conn,           \* slots for replication streams
    Write,          \* client writes
    Term,           \* the leader's term
    Need,           \* Options.WaitFor
    FirstSeq,       \* the leader's position when the behaviour starts
    MaxSeq,         \* bound: the leader's position
    MaxPipe,        \* bound: frames in transit on one stream
    MaxPosts,       \* bound: acknowledgements in transit
    MaxFaults,      \* bound: faults of all kinds together
    Faults,         \* the kinds of fault that happen in this instance
    InitialApplied, \* where a follower's store may be to begin with
    MayDiverge,     \* whether the leader may have merged a position away
    None            \* no position, no post, no connection

ASSUME SemiSyncAssumption ==
    /\ Term \in Nat
    /\ Need \in Nat
    /\ FirstSeq \in Nat \ {0}
    /\ MaxSeq \in Nat
    /\ MaxFaults \in Nat
    /\ InitialApplied \subseteq Position
    /\ MayDiverge \in BOOLEAN
    /\ Faults \subseteq {"drop", "post", "restart", "close"}
    /\ None \notin Position \cup [id : Id, at : Position] \cup Conn \cup Id

VARIABLES
    seq,       \* the leader's db.Position().Log.Seq
    fenced,    \* the leader's store has heard of a newer term
    closed,    \* CloseStreams was called
    at,        \* followers.at: id -> position
    conn,      \* the leader's handler on each slot
    pipe,      \* frames sent and not yet read, per slot
    name,      \* node -> the id of its Follower
    owner,     \* id -> the node that made it up (ids used so far)
    reading,   \* node -> the slot its Follower reads, or None
    taking,    \* node -> position of the snapshot being applied, or None
    applied,   \* node -> db.Applied()
    peak,      \* history: node -> the furthest it ever applied
    latest,    \* node -> Follower.latest
    nudge,     \* node -> whether Follower.nudge holds a token
    posting,   \* node -> the post telling is waiting for, or None
    posts,     \* acknowledgements on their way to the leader
    pc,        \* write -> where its handler is
    want,      \* write -> the position it waits for
    counted,   \* history: write -> the ids counted when it was answered
    answer,    \* write -> its status, 0 while there is none
    faults     \* faults so far

leaderVars   == <<seq, fenced, closed>>
streamVars   == <<conn, pipe>>
nodeVars     == <<name, owner, reading, taking, applied, peak>>
tellVars     == <<latest, nudge, posting, posts>>
writeVars    == <<pc, want, counted, answer>>
vars == <<leaderVars, at, streamVars, nodeVars, tellVars, writeVars, faults>>

Here == [term |-> Term, seq |-> seq]       \* db.Position() on the leader

idle == [phase |-> "idle", id |-> None, from |-> None, snap |-> None]

Phases   == {"idle", "asked", "accepted", "send", "follow", "stream", "ending", "drain"}
Attached == {"send", "follow", "stream", "ending"}

\* A frame on the wire.  base, where a batch starts, is not sent: it is a
\* history field, for the property that says batches are contiguous.
Frame    == [kind : {"S", "B"}, base : Position, at : Position]
Post     == [id : Id, at : Position]

(***************************************************************************)
(* The registry.                                                           *)
(***************************************************************************)

\* followers.wake: every write asleep on the channel that is closed wakes.
woken(p) == [w \in Write |-> IF p[w] = "asleep" THEN "woken" ELSE p[w]]

\* followers.attach: not overwritten if it is already there with something
\* as new; otherwise set, and everything waiting is woken.
attach(id, from) ==
    IF id \in DOMAIN at /\ reaches(at[id], from)
    THEN UNCHANGED <<at, pc>>
    ELSE /\ at' = [i \in DOMAIN at \cup {id} |-> IF i = id THEN from ELSE at[i]]
         /\ pc' = woken(pc)

\* followers.detach: deleted whoever registered it, and everything is woken.
detach(id) ==
    /\ at' = [i \in DOMAIN at \ {id} |-> at[i]]
    /\ pc' = woken(pc)

\* Mutants of ack: strangers registered, order ignored, nobody woken.
ackOfStrangers(id, pos) ==
    IF id \in DOMAIN at /\ reaches(at[id], pos)
    THEN UNCHANGED <<at, pc>>
    ELSE /\ at' = [i \in DOMAIN at \cup {id} |-> IF i = id THEN pos ELSE at[i]]
         /\ pc' = woken(pc)

ackInAnyOrder(id, pos) ==
    IF id \notin DOMAIN at
    THEN UNCHANGED <<at, pc>>
    ELSE /\ at' = [at EXCEPT ![id] = pos]
         /\ pc' = woken(pc)

ackQuietly(id, pos) ==
    /\ at' = IF id \notin DOMAIN at \/ reaches(at[id], pos) THEN at
             ELSE [at EXCEPT ![id] = pos]
    /\ UNCHANGED pc

\* followers.ack: a stranger is ignored, an acknowledgement out of order is
\* taken and changes nothing.
ack(id, pos) ==
    IF id \notin DOMAIN at \/ reaches(at[id], pos)
    THEN UNCHANGED <<at, pc>>
    ELSE /\ at' = [at EXCEPT ![id] = pos]
         /\ pc' = woken(pc)

\* Mutant of reached: whoever is registered counts.
reachedByAll(pos) == DOMAIN at

\* followers.count: who has reached a position.
reached(pos) == {i \in DOMAIN at : reaches(at[i], pos)}

(***************************************************************************)
(* A write: stored first, then made to wait (ops.go, role.go wrote).       *)
(***************************************************************************)

Store(w) ==
    /\ pc[w] = "start"
    /\ IF fenced
       THEN /\ pc' = [pc EXCEPT ![w] = "done"]
            /\ answer' = [answer EXCEPT ![w] = 409]
            /\ UNCHANGED seq
       ELSE /\ seq < MaxSeq
            /\ seq' = seq + 1
            /\ pc' = [pc EXCEPT ![w] = "position"]
            /\ UNCHANGED answer
    /\ UNCHANGED <<fenced, closed, at, streamVars, nodeVars, tellVars, want,
                   counted, faults>>

\* wrote: the position is read after the write, so another write may be in it.
AskPosition(w) ==
    /\ pc[w] = "position"
    /\ want' = [want EXCEPT ![w] = Here]
    /\ IF Need = 0
       THEN /\ pc' = [pc EXCEPT ![w] = "done"]
            /\ answer' = [answer EXCEPT ![w] = 204]
       ELSE /\ pc' = [pc EXCEPT ![w] = "count"]
            /\ UNCHANGED answer
    /\ UNCHANGED <<leaderVars, at, streamVars, nodeVars, tellVars, counted,
                   faults>>

\* wrote's answer once await has returned what it counted.
Answered(w) ==
    /\ pc' = [pc EXCEPT ![w] = "done"]
    /\ counted' = [counted EXCEPT ![w] = reached(want[w])]
    /\ answer' = [answer EXCEPT ![w] =
                    IF Cardinality(reached(want[w])) >= Need THEN 204 ELSE 202]

\* One turn of await's loop: count and take the channel under one lock, and
\* sleep on that channel if it is not enough.
Count(w) ==
    /\ pc[w] \in {"count", "woken"}
    /\ IF Cardinality(reached(want[w])) >= Need
       THEN Answered(w)
       ELSE /\ pc' = [pc EXCEPT ![w] = "asleep"]
            /\ UNCHANGED <<counted, answer>>
    /\ UNCHANGED <<leaderVars, at, streamVars, nodeVars, tellVars, want, faults>>

\* The timer, or the client going away: count once more and answer with it.
TimeOut(w) ==
    /\ pc[w] \in {"asleep", "woken"}
    /\ Answered(w)
    /\ UNCHANGED <<leaderVars, at, streamVars, nodeVars, tellVars, want, faults>>

(***************************************************************************)
(* streamReplica: the leader's side of a connection.                       *)
(***************************************************************************)

Reader(c) == {n \in Node : reading[n] = c}

\* Everything answerable with a status is answered here.  A newer term in
\* from fences this store; the zero position takes a snapshot, which a fenced
\* store refuses.
Accept(c) ==
    /\ conn[c].phase = "asked"
    /\ LET from    == conn[c].from
           newer   == from.term > Term
           refused == closed \/ newer \/ (from = Zero /\ fenced)
       IN /\ fenced' = (fenced \/ (~closed /\ newer))
          /\ IF refused
             THEN /\ conn' = [conn EXCEPT ![c] = idle]
                  /\ reading' = [n \in Node |-> IF reading[n] = c THEN None
                                                ELSE reading[n]]
             ELSE /\ conn' = [conn EXCEPT
                        ![c].phase = "accepted",
                        ![c].from  = IF from = Zero THEN Here ELSE from,
                        ![c].snap  = IF from = Zero THEN Here ELSE None]
                  /\ UNCHANGED reading
    /\ UNCHANGED <<seq, closed, at, pipe, name, owner, taking, applied, peak,
                   tellVars, writeVars, faults>>

\* Mutant of Attach: registered where the leader is, not the follower.
AttachHere(c) ==
    /\ conn[c].phase = "accepted"
    /\ attach(conn[c].id, Here)
    /\ conn' = [conn EXCEPT ![c].phase = IF conn[c].snap # None THEN "send" ELSE "follow"]
    /\ UNCHANGED <<leaderVars, pipe, nodeVars, tellVars, want, counted, answer,
                   faults>>

\* Registered before the snapshot is sent, at the snapshot's position.
Attach(c) ==
    /\ conn[c].phase = "accepted"
    /\ attach(conn[c].id, conn[c].from)
    /\ conn' = [conn EXCEPT ![c].phase = IF conn[c].snap # None THEN "send" ELSE "follow"]
    /\ UNCHANGED <<leaderVars, pipe, nodeVars, tellVars, want, counted, answer,
                   faults>>

SendSnapshot(c) ==
    /\ conn[c].phase = "send"
    /\ Len(pipe[c]) < MaxPipe
    /\ pipe' = [pipe EXCEPT ![c] = Append(@, [kind |-> "S", base |-> Zero,
                                          at |-> conn[c].from])]
    /\ conn' = [conn EXCEPT ![c].phase = "stream"]
    /\ UNCHANGED <<leaderVars, at, nodeVars, tellVars, writeVars, faults>>

\* db.Follow finds the position and streams from it ...
FollowFrom(c) ==
    /\ conn[c].phase = "follow"
    /\ conn' = [conn EXCEPT ![c].phase = "stream"]
    /\ UNCHANGED <<leaderVars, at, pipe, nodeVars, tellVars, writeVars, faults>>

\* ... or finds it gone, and the leader answers with a snapshot.  The
\* registry is not told.  A fenced store refuses the snapshot and the stream
\* ends, as it does if the client is known to have gone.
Diverged(c) ==
    /\ MayDiverge
    /\ conn[c].phase = "follow"
    /\ conn' = IF fenced \/ closed
               THEN [conn EXCEPT ![c].phase = "ending"]
               ELSE [conn EXCEPT ![c].phase = "send", ![c].from = Here,
                                 ![c].snap = Here]
    /\ UNCHANGED <<leaderVars, at, pipe, nodeVars, tellVars, writeVars, faults>>

\* Mutant of SendBatch: the position the next batch starts at stays behind.
SendBatchAgain(c) ==
    /\ conn[c].phase = "stream"
    /\ Len(pipe[c]) < MaxPipe
    /\ \E s \in conn[c].from.seq + 1 .. seq :
          pipe' = [pipe EXCEPT ![c] = Append(@, [kind |-> "B", base |-> conn[c].from,
                                                at |-> [term |-> Term, seq |-> s]])]
    /\ UNCHANGED <<leaderVars, at, conn, nodeVars, tellVars, writeVars, faults>>

\* db.Follow cuts a batch, of one record or of several, and send frames it.
SendBatch(c) ==
    /\ conn[c].phase = "stream"
    /\ Len(pipe[c]) < MaxPipe
    /\ \E s \in conn[c].from.seq + 1 .. seq :
          LET next == [term |-> Term, seq |-> s]
          IN /\ pipe' = [pipe EXCEPT ![c] = Append(@, [kind |-> "B", at |-> next,
                                                      base |-> conn[c].from])]
             /\ conn' = [conn EXCEPT ![c].from = next]
    /\ UNCHANGED <<leaderVars, at, nodeVars, tellVars, writeVars, faults>>

\* The handler learns that it is over: its client has gone, CloseStreams was
\* called, or the engine ends Follow because the store is fenced.
End(c) ==
    /\ conn[c].phase \in {"send", "follow", "stream"}
    /\ Reader(c) = {} \/ closed \/ fenced
    /\ conn' = [conn EXCEPT ![c].phase = "ending"]
    /\ UNCHANGED <<leaderVars, at, pipe, nodeVars, tellVars, writeVars, faults>>

\* The deferred detach.  What was sent may still be read; a stream nobody
\* reads is gone.
Detach(c) ==
    /\ conn[c].phase = "ending"
    /\ detach(conn[c].id)
    /\ IF Reader(c) = {}
       THEN /\ conn' = [conn EXCEPT ![c] = idle]
            /\ pipe' = [pipe EXCEPT ![c] = <<>>]
       ELSE /\ conn' = [conn EXCEPT ![c].phase = "drain"]
            /\ UNCHANGED pipe
    /\ UNCHANGED <<leaderVars, nodeVars, tellVars, want, counted, answer, faults>>

CloseStreams ==
    /\ ~closed
    /\ "close" \in Faults
    /\ faults < MaxFaults
    /\ closed' = TRUE
    /\ faults' = faults + 1
    /\ UNCHANGED <<seq, fenced, at, streamVars, nodeVars, tellVars, writeVars>>

(***************************************************************************)
(* The Follower: stream, take, tell and telling.                           *)
(***************************************************************************)

\* stream: ask from wherever the store says it is.
Dial(n) ==
    /\ reading[n] = None
    /\ \E c \in Conn :
          /\ conn[c].phase = "idle"
          /\ conn' = [conn EXCEPT ![c] = [phase |-> "asked", id |-> name[n],
                                          from |-> applied[n], snap |-> None]]
          /\ reading' = [reading EXCEPT ![n] = c]
    /\ UNCHANGED <<leaderVars, at, pipe, name, owner, taking, applied, peak,
                   tellVars, writeVars, faults>>

\* Mutant of tell: a full slot keeps what it has.
tellOldest(n, pos) ==
    /\ latest' = IF nudge[n] THEN latest ELSE [latest EXCEPT ![n] = pos]
    /\ nudge'  = [nudge EXCEPT ![n] = TRUE]

\* tell: one slot, the newest position, and a token if there is none.
tell(n, pos) ==
    /\ latest' = [latest EXCEPT ![n] = pos]
    /\ nudge'  = [nudge EXCEPT ![n] = TRUE]

\* A batch frame: db.Apply, then tell.
ReceiveBatch(n) ==
    /\ reading[n] \in Conn
    /\ taking[n] = None
    /\ LET c == reading[n]
       IN /\ pipe[c] # <<>>
          /\ Head(pipe[c]).kind = "B"
          /\ applied' = [applied EXCEPT ![n] = Head(pipe[c]).at]
          /\ peak'    = [peak EXCEPT ![n] = Later(@, Head(pipe[c]).at)]
          /\ pipe'    = [pipe EXCEPT ![c] = Tail(@)]
          /\ tell(n, Head(pipe[c]).at)
    /\ UNCHANGED <<leaderVars, at, conn, name, owner, reading, taking, posting,
                   posts, writeVars, faults>>

\* Mutant of TakeSnapshot: told before it is taken.
TakeSnapshotTold(n) ==
    /\ reading[n] \in Conn
    /\ taking[n] = None
    /\ LET c == reading[n]
       IN /\ pipe[c] # <<>>
          /\ Head(pipe[c]).kind = "S"
          /\ taking'  = [taking EXCEPT ![n] = Head(pipe[c]).at]
          /\ applied' = [applied EXCEPT ![n] = Zero]
          /\ pipe'    = [pipe EXCEPT ![c] = Tail(@)]
          /\ tell(n, Head(pipe[c]).at)
    /\ UNCHANGED <<leaderVars, at, conn, name, owner, reading, peak, posting,
                   posts, writeVars, faults>>

\* take: ApplySnapshot resets the store before it reads ...
TakeSnapshot(n) ==
    /\ reading[n] \in Conn
    /\ taking[n] = None
    /\ LET c == reading[n]
       IN /\ pipe[c] # <<>>
          /\ Head(pipe[c]).kind = "S"
          /\ taking'  = [taking EXCEPT ![n] = Head(pipe[c]).at]
          /\ applied' = [applied EXCEPT ![n] = Zero]
          /\ pipe'    = [pipe EXCEPT ![c] = Tail(@)]
    /\ UNCHANGED <<leaderVars, at, conn, name, owner, reading, peak, tellVars,
                   writeVars, faults>>

\* ... and the store has a position only once all of it has arrived.
TookSnapshot(n) ==
    /\ taking[n] # None
    /\ applied' = [applied EXCEPT ![n] = taking[n]]
    /\ peak'    = [peak EXCEPT ![n] = Later(@, taking[n])]
    /\ taking'  = [taking EXCEPT ![n] = None]
    /\ tell(n, taking[n])
    /\ UNCHANGED <<leaderVars, at, streamVars, name, owner, reading, posting,
                   posts, writeVars, faults>>

\* The response ends after the handler has: nothing is left to read.
HangUp(n) ==
    /\ reading[n] \in Conn
    /\ taking[n] = None
    /\ LET c == reading[n]
       IN /\ conn[c].phase = "drain"
          /\ pipe[c] = <<>>
          /\ conn' = [conn EXCEPT ![c] = idle]
    /\ reading' = [reading EXCEPT ![n] = None]
    /\ UNCHANGED <<leaderVars, at, pipe, name, owner, taking, applied, peak,
                   tellVars, writeVars, faults>>

\* What giving slot c up leaves on the leader's side: its handler, unless the
\* handler has already ended.
abandon(n) ==
    IF reading[n] \in Conn /\ conn[reading[n]].phase = "drain"
    THEN /\ conn' = [conn EXCEPT ![reading[n]] = idle]
         /\ pipe' = [pipe EXCEPT ![reading[n]] = <<>>]
    ELSE UNCHANGED streamVars

\* The connection is lost, or its idle timer cancels it.  A snapshot half
\* taken leaves the store holding nothing.
Drop(n) ==
    /\ "drop" \in Faults
    /\ faults < MaxFaults
    /\ reading[n] # None
    /\ faults'  = faults + 1
    /\ reading' = [reading EXCEPT ![n] = None]
    /\ taking'  = [taking EXCEPT ![n] = None]
    /\ abandon(n)
    /\ UNCHANGED <<leaderVars, at, name, owner, applied, peak, tellVars, writeVars>>

\* telling: a token is taken and the newest position posted.
PostAck(n) ==
    /\ nudge[n]
    /\ posting[n] = None
    /\ Cardinality(posts) < MaxPosts
    /\ nudge' = [nudge EXCEPT ![n] = FALSE]
    /\ LET post == [id |-> name[n], at |-> latest[n]]
       IN /\ posting' = [posting EXCEPT ![n] = post]
          /\ posts' = posts \cup {post}
    /\ UNCHANGED <<leaderVars, at, streamVars, nodeVars, latest, writeVars, faults>>

\* The leader's acknowledge handler; 204 or 409, the follower carries on.
Acknowledge(p) ==
    /\ p \in posts
    /\ ack(p.id, p.at)
    /\ posts' = posts \ {p}
    /\ posting' = [n \in Node |-> IF posting[n] = p THEN None ELSE posting[n]]
    /\ UNCHANGED <<leaderVars, streamVars, nodeVars, latest, nudge, want, counted,
                   answer, faults>>

\* The post fails and is not retried; the request may yet reach the leader.
PostFails(n) ==
    /\ "post" \in Faults
    /\ faults < MaxFaults
    /\ posting[n] # None
    /\ faults' = faults + 1
    /\ posts' \in {posts, posts \ {posting[n]}}
    /\ posting' = [posting EXCEPT ![n] = None]
    /\ UNCHANGED <<leaderVars, at, streamVars, nodeVars, latest, nudge, writeVars>>

\* The process dies and comes back: the store is as it was, the Follower is a
\* new one with an id of its own, and the leader's handler knows nothing yet.
Restart(n) ==
    /\ "restart" \in Faults
    /\ faults < MaxFaults
    /\ faults' = faults + 1
    /\ \E i \in Id \ DOMAIN owner :
          /\ name'  = [name EXCEPT ![n] = i]
          /\ owner' = [j \in DOMAIN owner \cup {i} |-> IF j = i THEN n ELSE owner[j]]
    /\ reading' = [reading EXCEPT ![n] = None]
    /\ taking'  = [taking EXCEPT ![n] = None]
    /\ latest'  = [latest EXCEPT ![n] = None]
    /\ nudge'   = [nudge EXCEPT ![n] = FALSE]
    /\ posting' = [posting EXCEPT ![n] = None]
    /\ abandon(n)
    /\ UNCHANGED <<leaderVars, at, applied, peak, posts, writeVars>>

(***************************************************************************)
(* The specification.                                                      *)
(***************************************************************************)

Init ==
    /\ seq = FirstSeq
    /\ fenced = FALSE
    /\ closed = FALSE
    /\ at = [i \in {} |-> Zero]
    /\ conn = [c \in Conn |-> idle]
    /\ pipe = [c \in Conn |-> <<>>]
    /\ name \in {f \in [Node -> Id] : \A m, n \in Node : f[m] = f[n] => m = n}
    /\ owner = [i \in {name[n] : n \in Node} |-> CHOOSE n \in Node : name[n] = i]
    /\ reading = [n \in Node |-> None]
    /\ taking = [n \in Node |-> None]
    /\ applied \in [Node -> InitialApplied]
    /\ peak = applied
    /\ latest = [n \in Node |-> None]
    /\ nudge = [n \in Node |-> FALSE]
    /\ posting = [n \in Node |-> None]
    /\ posts = {}
    /\ pc = [w \in Write |-> "start"]
    /\ want = [w \in Write |-> None]
    /\ counted = [w \in Write |-> {}]
    /\ answer = [w \in Write |-> 0]
    /\ faults = 0

WriteStep(w) == Store(w) \/ AskPosition(w) \/ Count(w) \/ TimeOut(w)

HandlerStep(c) ==
    \/ Accept(c) \/ Attach(c) \/ SendSnapshot(c) \/ FollowFrom(c)
    \/ Diverged(c) \/ SendBatch(c) \/ End(c) \/ Detach(c)

FollowerStep(n) ==
    \/ Dial(n) \/ ReceiveBatch(n) \/ TakeSnapshot(n) \/ TookSnapshot(n)
    \/ HangUp(n) \/ PostAck(n)

Fault(n) == Drop(n) \/ PostFails(n) \/ Restart(n)

Next ==
    \/ \E w \in Write : WriteStep(w)
    \/ \E c \in Conn : HandlerStep(c)
    \/ \E n \in Node : FollowerStep(n) \/ Fault(n)
    \/ \E p \in posts : Acknowledge(p)
    \/ CloseStreams

Spec == Init /\ [][Next]_vars

\* Everything but faults and timeouts keeps going when it can.  A timeout is
\* not fair: it may come at any time, or so late that it never matters.
Fairness ==
    /\ \A w \in Write : WF_vars(Store(w) \/ AskPosition(w) \/ Count(w))
    /\ \A c \in Conn : WF_vars(HandlerStep(c))
    /\ \A n \in Node : /\ WF_vars(Dial(n) \/ HangUp(n) \/ ReceiveBatch(n)
                                   \/ TakeSnapshot(n) \/ TookSnapshot(n))
                       /\ WF_vars(PostAck(n))
    /\ WF_vars(\E p \in posts : Acknowledge(p))

FairSpec == Spec /\ Fairness

(***************************************************************************)
(* Properties.                                                             *)
(***************************************************************************)

Handler == [phase : Phases, id : Id \cup {None}, from : Position \cup {None},
            snap : Position \cup {None}]

LeaderTypes ==
    /\ seq \in Nat
    /\ fenced \in BOOLEAN
    /\ closed \in BOOLEAN
    /\ DOMAIN at \subseteq DOMAIN owner
    /\ at \in [DOMAIN at -> Position]
    /\ faults \in Nat

StreamTypes ==
    /\ conn \in [Conn -> Handler]
    /\ \A c \in Conn : conn[c].phase # "idle" =>
          conn[c].id \in DOMAIN owner /\ conn[c].from \in Position
    /\ pipe \in [Conn -> Seq(Frame)]

NodeTypes ==
    /\ name \in [Node -> DOMAIN owner]
    /\ DOMAIN owner \subseteq Id
    /\ owner \in [DOMAIN owner -> Node]
    /\ reading \in [Node -> Conn \cup {None}]
    /\ taking \in [Node -> Position \cup {None}]
    /\ applied \in [Node -> Position]
    /\ peak \in [Node -> Position]

TellTypes ==
    /\ latest \in [Node -> Position \cup {None}]
    /\ nudge \in [Node -> BOOLEAN]
    /\ posting \in [Node -> Post \cup {None}]
    /\ \A n \in Node : nudge[n] => latest[n] # None
    /\ posts \subseteq Post
    /\ \A p \in posts : p.id \in DOMAIN owner

WriteTypes ==
    /\ pc \in [Write -> {"start", "position", "count", "asleep", "woken", "done"}]
    /\ want \in [Write -> Position \cup {None}]
    /\ counted \in [Write -> SUBSET DOMAIN owner]
    /\ answer \in [Write -> {0, 202, 204, 409}]

\* Every variable holds what the Go types and the bounds let it hold.
TypeOK == LeaderTypes /\ StreamTypes /\ NodeTypes /\ TellTypes /\ WriteTypes

\* The handlers that have registered a follower and not yet taken it out.
Serving(i) == {c \in Conn : conn[c].phase \in Attached /\ conn[c].id = i}

\* acks.go "a follower that is not connected is not going to acknowledge
\* anything": whoever is registered has a handler that will yet detach it, so
\* no acknowledgement, however late, leaves a stranger in the registry.
RegisteredIsServed == \A i \in DOMAIN at : Serving(i) # {}

\* What the registry says a follower holds, that follower has applied, or it
\* is the position of a snapshot a live handler of that follower took for it.
\* Posts reordered or late, restarts and half-taken snapshots included.
RegistryBacked ==
    \A i \in DOMAIN at :
        \/ reaches(peak[owner[i]], at[i])
        \/ \E c \in Serving(i) : conn[c].snap # None /\ reaches(conn[c].snap, at[i])

\* An acknowledgement says only what the store of the follower that sends it
\* has held: in the slot, on the wire, and after that follower's restart.
AcksAreHonest ==
    /\ \A n \in Node : latest[n] # None => reaches(peak[n], latest[n])
    /\ \A p \in posts : reaches(peak[owner[p.id]], p.at)

\* await cannot sleep through the wake that mattered: a write that is asleep
\* is one whose followers have not reached it yet.
NoLostWakeup ==
    \A w \in Write : pc[w] = "asleep" => Cardinality(reached(want[w])) < Need

\* A batch carries no start on the wire, and the follower applies it from
\* wherever its store is: what it reads must be what comes next.  Redials,
\* divergence and abandoned snapshots must never leave a gap.
StreamIsContiguous ==
    \A n \in Node :
        reading[n] \in Conn /\ taking[n] = None /\ pipe[reading[n]] # <<>> =>
            LET frame == Head(pipe[reading[n]])
            IN frame.kind = "B" => frame.base = applied[n]

\* README "stored, and Litekv-Replicated followers had it": behind every 204
\* there are Need nodes whose stores hold the write.
PromiseKept ==
    \A w \in Write : answer[w] = 204 =>
        Cardinality({n \in Node : reaches(applied[n], want[w])}) >= Need

\* follower.go, name: "the leader forgets the old one either way".  The
\* followers counted for a write are as many nodes.
EachNodeCountsOnce ==
    \A w \in Write :
        Cardinality({owner[i] : i \in counted[w]}) = Cardinality(counted[w])

\* acks.go "the registry: who is streaming": a follower this leader is
\* streaming to is in the registry, so its acknowledgements count.
StreamingIsRegistered ==
    \A c \in Conn : conn[c].phase = "stream" /\ Reader(c) # {}
                      => conn[c].id \in DOMAIN at

\* acks.go ack, attach: while a follower stays registered, its position never
\* goes back, in whatever order posts and overlapping streams arrive.
RegistryNeverRewinds ==
    [][\A i \in DOMAIN at \cap DOMAIN at' : reaches(at'[i], at[i])]_vars

Promised == INSTANCE CopiedLog
    WITH end <- Here, copy <- applied, place <- want, told <- answer

\* README "stored, and Litekv-Replicated followers had it", as an abstract log
\* and its copies: every step of the registry, the handlers and the Followers
\* appends, takes one store forward within the leader's log, or answers a write
\* for good, with a 204 only while Need stores hold it, or shows none of it.
CopiesKeepThePromise == Promised!Spec

Replicated(w) == want[w] # None /\ Cardinality(reached(want[w])) >= Need

\* A write that waits is reached by enough followers without its timeout,
\* across drops, first snapshots and divergence, as long as the leader serves
\* streams, no post fails and no stream overlaps its successor.
WritesAreReached ==
    \A w \in Write :
        pc[w] = "count" ~> (closed \/ Replicated(w))
=============================================================================
