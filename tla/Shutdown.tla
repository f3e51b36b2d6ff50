------------------------------ MODULE Shutdown ------------------------------
(***************************************************************************)
(* The end of a litekvd process (main.go, run): a signal, http.Server's    *)
(* Shutdown, Server.Close and db.Close, in that order, while the requests  *)
(* of module Role, writes that wait for followers and replication streams  *)
(* are in flight; and the deferred calls of the last two after that.       *)
(*                                                                         *)
(* Closing is the two calls of Server.Close: the one in run, and the       *)
(* deferred one.                                                           *)
(***************************************************************************)
EXTENDS Role

CONSTANTS
    Stream,        \* GET /v1/replica requests
    WaitFor,       \* whether the process is started with -wait-for
    SlowFollowers  \* whether a follower may need longer than -wait-timeout

ASSUME ShutdownAssumption ==
    /\ IsFiniteSet(Closing) /\ Cardinality(Closing) = 2
    /\ Promotion \cap Closing = {}
    /\ WaitFor \in BOOLEAN /\ SlowFollowers \in BOOLEAN

VARIABLES
    stage,      \* where run is
    deferred,   \* it is in its deferred calls
    calls,      \* how often it has called Server.Close
    waited,     \* what became of http.Server.Shutdown's wait: "all", "gave up",
                \* or "none" when there was none
    streams,    \* s.streams is closed
    streaming,  \* stream -> where its handler is
    accepting,  \* the litekv.Writer takes writes
    queue,      \* the writes in it
    answer,     \* write -> what it was answered
    open        \* the store

process == <<stage, deferred, calls, waited, streams, accepting, open>>
serving == <<streaming, queue, answer>>

inFlight ==
    \/ \E w \in Write : writing[w] \in {"allowed", "stored"} /\ answer[w] = "none"
    \/ \E p \in Promotion : stopping[p] \notin {"start", "done"}
    \/ \E e \in Enlistment : joining[e] \notin {"start", "joined", "refused"}
    \/ \E s \in Stream : streaming[s] = "open"

\* A connection that is still there may carry a request that has not begun.
mayArrive == waited # "all"

(***************************************************************************)
(* Writes: the role, the body, the queue in front of the store, and the    *)
(* wait for followers.                                                     *)
(***************************************************************************)

ArrivingWrite(w) ==
    /\ mayArrive
    /\ mayWrite(w)
    /\ UNCHANGED <<process, serving>>

\* s.writes.Write: a Writer that is closed answers ErrorClosed, a 503.
Enqueue(w) ==
    /\ writing[w] = "allowed"
    /\ w \notin queue /\ answer[w] = "none"
    /\ IF accepting
       THEN /\ queue' = queue \cup {w}
            /\ UNCHANGED answer
       ELSE /\ answer' = [answer EXCEPT ![w] = "unavailable"]
            /\ UNCHANGED queue
    /\ UNCHANGED <<vars, process, streaming>>

WriterStores(w) ==
    /\ open
    /\ w \in queue
    /\ StoreWrite(w)
    /\ queue' = queue \ {w}
    /\ UNCHANGED <<process, streaming, answer>>

\* 204: as many followers as were asked for, or none were.
Acknowledged(w) ==
    /\ writing[w] = "stored" /\ answer[w] = "none"
    /\ WaitFor => \E s \in Stream : streaming[s] = "open"
    /\ answer' = [answer EXCEPT ![w] = "replicated"]
    /\ UNCHANGED <<vars, process, streaming, queue>>

\* 202: the wait ran out.  CloseStreams does not end it.
WaitRunsOut(w) ==
    /\ WaitFor
    /\ writing[w] = "stored" /\ answer[w] = "none"
    /\ SlowFollowers \/ \A s \in Stream : streaming[s] # "open"
    /\ answer' = [answer EXCEPT ![w] = "stored"]
    /\ UNCHANGED <<vars, process, streaming, queue>>

(***************************************************************************)
(* Streams.                                                                *)
(***************************************************************************)

\* streamReplica; a server on its way down answers 503.
OpenStream(s) ==
    /\ mayArrive
    /\ streaming[s] = "none"
    /\ streaming' = [streaming EXCEPT ![s] = IF streams THEN "refused" ELSE "open"]
    /\ UNCHANGED <<vars, process, queue, answer>>

\* It ends because CloseStreams said so; another reason would only be sooner.
StreamEnds(s) ==
    /\ streams
    /\ streaming[s] = "open"
    /\ streaming' = [streaming EXCEPT ![s] = "ended"]
    /\ UNCHANGED <<vars, process, queue, answer>>

(***************************************************************************)
(* Role's requests, in this process.                                       *)
(***************************************************************************)

Promoting(p) ==
    /\ \/ mayArrive /\ TakeStop(p)
       \/ Cancel(p) \/ Waited(p)
       \/ open /\ RaiseTerm(p)
       \/ StoppedOnly(p)
    /\ UNCHANGED <<process, serving>>

Enlisting(e) ==
    /\ \/ mayArrive /\ EnlistCheck(e)
       \/ CompareTerms(e) \/ StartFollower(e)
    /\ UNCHANGED <<process, serving>>

\* The only one that waits for another node, and it has no timeout.
Asking(e) ==
    /\ AskTerm(e)
    /\ UNCHANGED <<process, serving>>

FollowerApplies(f) ==
    /\ open
    /\ ApplyBatch(f)
    /\ UNCHANGED <<process, serving>>

FollowerEnds(f) ==
    /\ FollowerDone(f)
    /\ UNCHANGED <<process, serving>>

Elsewhere(l) ==
    /\ LeaderPromoted(l)
    /\ UNCHANGED <<process, serving>>

(***************************************************************************)
(* run.                                                                    *)
(***************************************************************************)

Signal ==
    /\ stage = "serving"
    /\ stage' = "draining"
    /\ UNCHANGED <<vars, serving, deferred, calls, waited, streams, accepting, open>>

\* srv.Serve returns an error: nobody is waited for, and the deferred calls run.
ServeFails ==
    /\ stage = "serving"
    /\ stage' = "closing"
    /\ deferred' = TRUE
    /\ UNCHANGED <<vars, serving, calls, waited, streams, accepting, open>>

\* Mutant of CloseStreams: nothing was registered.
CloseStreamsUnregistered ==
    /\ stage = "draining"
    /\ streams
    /\ UNCHANGED <<vars, serving, process>>

\* The hook that RegisterOnShutdown was given, on a goroutine of its own.
CloseStreams ==
    /\ stage = "draining"
    /\ ~streams
    /\ streams' = TRUE
    /\ UNCHANGED <<vars, serving, stage, deferred, calls, waited, accepting, open>>

\* Mutant of Drained: srv.Close, which waits for nobody.
DrainedAtOnce ==
    /\ stage = "draining"
    /\ stage' = "closing"
    /\ waited' = "all"
    /\ UNCHANGED <<vars, serving, deferred, calls, streams, accepting, open>>

\* srv.Shutdown returns: every request has been answered ...
Drained ==
    /\ stage = "draining"
    /\ ~inFlight
    /\ stage' = "closing"
    /\ waited' = "all"
    /\ UNCHANGED <<vars, serving, deferred, calls, streams, accepting, open>>

\* ... or its time is up.
GaveUp ==
    /\ stage = "draining"
    /\ stage' = "closing"
    /\ waited' = "gave up"
    /\ UNCHANGED <<vars, serving, deferred, calls, streams, accepting, open>>

\* Mutant of Close: the follower is left running.
CloseWriterOnly ==
    /\ stage = "closing"
    /\ streams' = TRUE
    /\ stage' = "writer"
    /\ calls' = calls + 1
    /\ UNCHANGED <<vars, serving, deferred, waited, accepting, open>>

\* Server.Close: the streams, the follower, the writer.
Close ==
    /\ stage = "closing"
    /\ streams' = TRUE
    /\ stage' = "follower"
    /\ calls' = calls + 1
    /\ UNCHANGED <<vars, serving, deferred, waited, accepting, open>>

\* stopFollowing, one step of it.
Stopping(q) ==
    /\ stage = "follower"
    /\ \/ Cardinality({c \in Closing : stopping[c] # "start"}) < calls /\ TakeStop(q)
       \/ Cancel(q) \/ Waited(q) \/ StoppedOnly(q)
    /\ UNCHANGED <<process, serving>>

Stopped ==
    /\ stage = "follower"
    /\ Cardinality({c \in Closing : stopping[c] = "done"}) = calls
    /\ stage' = "writer"
    /\ UNCHANGED <<vars, serving, deferred, calls, waited, streams, accepting, open>>

CloseWriter ==
    /\ stage = "writer"
    /\ accepting' = FALSE
    /\ stage' = "flushing"
    /\ UNCHANGED <<vars, serving, deferred, calls, waited, streams, open>>

\* Mutant of Flushed: the Writer is closed and not waited for.
FlushedAtOnce ==
    /\ stage = "flushing"
    /\ stage' = "store"
    /\ UNCHANGED <<vars, serving, deferred, calls, waited, streams, accepting, open>>

\* Writer.Close returns once everything queued is stored.
Flushed ==
    /\ stage = "flushing"
    /\ queue = {}
    /\ stage' = "store"
    /\ UNCHANGED <<vars, serving, deferred, calls, waited, streams, accepting, open>>

\* db.Close, and then the deferred calls or the end of the process.
CloseStore ==
    /\ stage = "store"
    /\ open' = FALSE
    /\ stage' = IF deferred THEN "exited" ELSE "closing"
    /\ deferred' = TRUE
    /\ UNCHANGED <<vars, serving, calls, waited, streams, accepting>>

(***************************************************************************)
(* The specification.                                                      *)
(***************************************************************************)

ProcessInit ==
    /\ Init
    /\ stage = "serving" /\ deferred = FALSE /\ calls = 0
    /\ waited = "none" /\ streams = FALSE
    /\ streaming = [s \in Stream |-> "none"]
    /\ accepting = TRUE /\ queue = {} /\ answer = [w \in Write |-> "none"]
    /\ open = TRUE

WriteHandler(w) ==
    ArrivingWrite(w) \/ Enqueue(w) \/ WriterStores(w) \/ Acknowledged(w) \/ WaitRunsOut(w)

Main ==
    \/ CloseStreams \/ Drained
    \/ Close \/ (\E q \in Closing : Stopping(q)) \/ Stopped
    \/ CloseWriter \/ Flushed \/ CloseStore

running == stage # "exited"

ProcessNext ==
    /\ running
    /\ \/ \E w \in Write : WriteHandler(w)
       \/ \E s \in Stream : OpenStream(s) \/ StreamEnds(s)
       \/ \E p \in Promotion : Promoting(p)
       \/ \E e \in Enlistment : Enlisting(e) \/ Asking(e)
       \/ \E f \in Follower : FollowerApplies(f) \/ FollowerEnds(f)
       \/ \E l \in Leader : Elsewhere(l)
       \/ Signal \/ ServeFails \/ GaveUp
       \/ Main

ProcessSpec == ProcessInit /\ [][ProcessNext]_<<vars, process, serving>>

\* run goes on, and so does every handler that does not wait for another node:
\* bodies end or run into their timeout, and waits for followers do.
FairProcess ==
    /\ ProcessSpec
    /\ WF_<<vars, process, serving>>(running /\ CloseStreams)
    /\ WF_<<vars, process, serving>>(running /\ Main)
    /\ \A w \in Write : WF_<<vars, process, serving>>(running /\ WriteHandler(w))
    /\ \A s \in Stream : WF_<<vars, process, serving>>(running /\ StreamEnds(s))
    /\ \A p \in Promotion : WF_<<vars, process, serving>>(running /\ Promoting(p))
    /\ \A e \in Enlistment : WF_<<vars, process, serving>>(running /\ Enlisting(e))
    /\ \A f \in Follower : WF_<<vars, process, serving>>(running /\ FollowerEnds(f))

(***************************************************************************)
(* Properties.                                                             *)
(***************************************************************************)

\* The Followers whose goroutine the process has nobody waiting for: it was
\* taken from the role by a promotion that Shutdown did not wait for, or it was
\* started by an enlistment that Shutdown did not wait for.
outlives(f) == f = stop \/ \E p \in Promotion : p \in stoppers(f)

\* main.go, run: no other order keeps it from closing "the store under a batch
\* the follower was in the middle of applying".  If Shutdown waited for
\* everybody there is no Follower left when the store closes, and if it did not,
\* none but those of the requests it left behind.
StoreClosesAlone ==
    [][open /\ ~open' => \A f \in alive : waited # "all" /\ outlives(f)]_<<alive, open>>

\* The same without the timeout's excuse.
NeverUnderABatch == [][open /\ ~open' => alive = {}]_<<alive, open>>

\* main.go, run: "answers a request that was already accepted with a 503": only
\* a request that Shutdown gave up on, or that was never waited for.
NoneTurnedAway == \A w \in Write : answer[w] = "unavailable" => waited # "all"

\* main.go, run: "drops a write": what the Writer took is in the store when the
\* store closes, whether anybody was left to be told or not.
AcceptedIsStored == ~open => queue = {}

\* main.go, RegisterOnShutdown: streams do not hold the process up, and neither
\* do writes or promotions.  It ends in its own time unless an enlistment waits
\* for ever for a node that does not answer.
ShutdownEnds ==
    (stage = "draining") ~>
        (stage = "exited" \/ [](\E e \in Enlistment : joining[e] = "ask"))
=============================================================================
