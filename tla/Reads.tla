------------------------------- MODULE Reads -------------------------------
(***************************************************************************)
(* Reads by position (server/role.go, notStale): a client that wrote hands *)
(* the position it was given to whatever node a load balancer picks, which *)
(* answers from a store that has got there, waits until it has, or refuses.*)
(*                                                                         *)
(* A store is the writes it holds, in order.  Its position is its term and *)
(* how many those are.  Nodes are promoted and enlisted one after another, *)
(* each promotion on a term of its own, which is what Failover is about.   *)
(***************************************************************************)
EXTENDS Integers, Sequences, SequencesExt

CONSTANTS
    Node,
    Write,     \* PUT, DELETE and POST /v1/batch requests
    Read,      \* GET /v1/keys/{key} and GET /v1/keys requests
    First,     \* the node that leads to begin with
    Closable,  \* bound: the nodes whose store may be closed under a read
    MaxTerm,   \* bound: terms
    MaxResets, \* bound: snapshots a follower is sent although it need not be
    None

Position == [term : 1..MaxTerm, seq : Nat]

ASSUME ReadsAssumption ==
    /\ None \notin Node \cup Write \cup Position
    /\ First \in Node /\ Closable \subseteq Node
    /\ MaxTerm \in Nat \ {0} /\ MaxResets \in Nat

VARIABLES
    term,      \* node -> db.Term()
    held,      \* node -> the writes its store holds
    resetting, \* node -> it is between the start and the end of a snapshot
    leader,    \* node -> role.leader
    open,      \* node -> the store
    resets,    \* snapshots so far that were not needed
    writing,   \* write -> where its handler is
    at,        \* write -> the node it was sent to
    stored,    \* write -> the position it was stored at
    cookie,    \* write -> the Litekv-Position it was answered with
    reading,   \* read -> where its handler is, or what it was answered
    from,      \* read -> the node it was sent to
    after,     \* read -> the write whose cookie it carries
    timer      \* read -> where the goroutine that feeds until is

store  == <<term, held, resetting, leader, open, resets>>
writes == <<writing, at, stored, cookie>>
reads  == <<reading, from, after, timer>>
vars   == <<store, writes, reads>>

position(n) == [term |-> term[n], seq |-> Len(held[n])]

(***************************************************************************)
(* The store, as server/role.go and server/errors.go know it.              *)
(***************************************************************************)

\* db.Reached: nil, ErrorClosed, ErrorSuperseded or ErrorStale.
Reached(n, pos) ==
    IF ~open[n] THEN "closed"
    ELSE IF resetting[n] \/ pos.term > term[n] THEN "stale"
    ELSE IF pos.term < term[n] THEN "superseded"
    ELSE IF Len(held[n]) >= pos.seq THEN "reached" ELSE "stale"

Holds(n, w) == \E i \in DOMAIN held[n] : held[n][i] = w

(***************************************************************************)
(* The cluster.                                                            *)
(***************************************************************************)

\* One record of what the node it follows holds and it does not.
Replicate(n) ==
    LET l == leader[n]
    IN  /\ l # None /\ open[n] /\ ~resetting[n] /\ ~resetting[l]
        /\ term[n] <= term[l]
        /\ IsStrictPrefix(held[n], held[l])
        /\ held' = [held EXCEPT ![n] = Append(@, held[l][Len(@) + 1])]
        /\ term' = [term EXCEPT ![n] = term[l]]
        /\ UNCHANGED <<resetting, leader, open, resets, writes, reads>>

\* A snapshot starts, because the two have diverged or because the position
\* has been merged away: the store is reset before a record of it is there.
StartSnapshot(n) ==
    LET l == leader[n]
    IN  /\ l # None /\ open[n] /\ ~resetting[l] /\ term[n] <= term[l]
        /\ IF IsPrefix(held[n], held[l])
           THEN resets < MaxResets /\ resets' = resets + 1
           ELSE UNCHANGED resets
        /\ held' = [held EXCEPT ![n] = <<>>]
        /\ resetting' = [resetting EXCEPT ![n] = TRUE]
        /\ UNCHANGED <<term, leader, open, writes, reads>>

EndSnapshot(n) ==
    LET l == leader[n]
    IN  /\ l # None /\ resetting[n] /\ open[n] /\ ~resetting[l]
        /\ held' = [held EXCEPT ![n] = held[l]]
        /\ term' = [term EXCEPT ![n] = term[l]]
        /\ resetting' = [resetting EXCEPT ![n] = FALSE]
        /\ UNCHANGED <<leader, open, resets, writes, reads>>

\* Mutant of Promote: it leads again, on the term it had.
PromoteInPlace(n) ==
    /\ open[n] /\ ~resetting[n]
    /\ leader' = [leader EXCEPT ![n] = None]
    /\ UNCHANGED <<term, held, resetting, open, resets, writes, reads>>

\* To a term nobody else was promoted to.
Promote(n) ==
    /\ open[n] /\ ~resetting[n]
    /\ leader' = [leader EXCEPT ![n] = None]
    /\ \E t \in 1..MaxTerm :
          /\ \A m \in Node : term[m] < t
          /\ term' = [term EXCEPT ![n] = t]
    /\ UNCHANGED <<held, resetting, open, resets, writes, reads>>

\* Behind any node that is not on an older term, whether or not it leads.
Enlist(n, l) ==
    /\ leader[n] = None /\ open[n]
    /\ term[n] <= term[l]
    /\ leader' = [leader EXCEPT ![n] = l]
    /\ UNCHANGED <<term, held, resetting, open, resets, writes, reads>>

CloseStore(n) ==
    /\ n \in Closable /\ open[n]
    /\ open' = [open EXCEPT ![n] = FALSE]
    /\ UNCHANGED <<term, held, resetting, leader, resets, writes, reads>>

(***************************************************************************)
(* A write and the position it is answered with.                           *)
(***************************************************************************)

Store(w, n) ==
    /\ writing[w] = "new"
    /\ leader[n] = None /\ open[n] /\ ~resetting[n]
    /\ held' = [held EXCEPT ![n] = Append(@, w)]
    /\ writing' = [writing EXCEPT ![w] = "stored"]
    /\ at' = [at EXCEPT ![w] = n]
    /\ stored' = [stored EXCEPT ![w] = [position(n) EXCEPT !.seq = @ + 1]]
    /\ UNCHANGED <<term, resetting, leader, open, resets, cookie, reads>>

\* wrote: the position is the store's, at or after the write.
AskPosition(w) ==
    /\ writing[w] = "stored"
    /\ cookie' = [cookie EXCEPT ![w] = position(at[w])]
    /\ writing' = [writing EXCEPT ![w] = "answered"]
    /\ UNCHANGED <<store, at, stored, reads>>

(***************************************************************************)
(* A read.                                                                 *)
(***************************************************************************)

\* With Litekv-After, and with Litekv-Wait or without.
Arrive(r, n, w) ==
    /\ reading[r] = "new"
    /\ writing[w] = "answered"
    /\ from' = [from EXCEPT ![r] = n]
    /\ after' = [after EXCEPT ![r] = w]
    /\ \/ /\ reading' = [reading EXCEPT ![r] = "check"]
          /\ UNCHANGED timer
       \/ /\ reading' = [reading EXCEPT ![r] = "wait"]
          /\ timer' = [timer EXCEPT ![r] = "running"]
    /\ UNCHANGED <<store, writes>>

\* staleness and statusOf: a store that is behind is the client's 412, or its
\* 504 after waiting; a replaced history is a 409, a closed store a 503.
refusal(r, said) ==
    CASE said = "stale"      -> IF timer[r] = "none" THEN "412" ELSE "504"
      [] said = "superseded" -> "409"
      [] said = "closed"     -> "503"

\* Mutant of Check: the error is read as a position that was reached.
CheckNothing(r) ==
    /\ reading[r] = "check"
    /\ reading' = [reading EXCEPT ![r] = "read"]
    /\ UNCHANGED <<store, writes, from, after, timer>>

\* Without a wait.
Check(r) ==
    LET said == Reached(from[r], cookie[after[r]])
    IN  /\ reading[r] = "check"
        /\ reading' = [reading EXCEPT ![r] =
                         IF said = "reached" THEN "read" ELSE refusal(r, said)]
        /\ UNCHANGED <<store, writes, from, after, timer>>

\* Mutant of AwaitEnds: what it waited for is all that ends it.
AwaitEndsReached(r) ==
    LET said == Reached(from[r], cookie[after[r]])
    IN  /\ reading[r] = "wait"
        /\ said = "reached"
        /\ reading' = [reading EXCEPT ![r] = "read"]
        /\ UNCHANGED <<store, writes, from, after, timer>>

\* db.Await returns: it has got there, it never will, or until is closed.
AwaitEnds(r) ==
    LET said == Reached(from[r], cookie[after[r]])
    IN  /\ reading[r] = "wait"
        /\ said = "stale" => timer[r] = "fired"
        /\ reading' = [reading EXCEPT ![r] =
                         IF said = "reached" THEN "read" ELSE refusal(r, said)]
        /\ UNCHANGED <<store, writes, from, after, timer>>

\* The goroutine beside it: the time runs out, or the client hangs up ...
Fire(r) ==
    /\ timer[r] = "running"
    /\ timer' = [timer EXCEPT ![r] = "fired"]
    /\ UNCHANGED <<store, writes, reading, from, after>>

\* ... or the read is past its wait, and done is closed.
Done(r) ==
    /\ timer[r] \in {"running", "fired"} /\ reading[r] # "wait"
    /\ timer' = [timer EXCEPT ![r] = "ended"]
    /\ UNCHANGED <<store, writes, reading, from, after>>

\* db.Read, db.Range or db.Prefix, under the store's lock; then the answer.
Answer(r) ==
    /\ reading[r] = "read"
    /\ reading' = [reading EXCEPT ![r] =
                     IF ~open[from[r]] THEN "503"
                     ELSE IF Holds(from[r], after[r]) THEN "200"
                     ELSE "404"]
    /\ UNCHANGED <<store, writes, from, after, timer>>

(***************************************************************************)
(* The specification.                                                      *)
(***************************************************************************)

\* One leader on the first term, and the rest behind it.
Init ==
    /\ term = [n \in Node |-> 1]
    /\ held = [n \in Node |-> <<>>]
    /\ resetting = [n \in Node |-> FALSE]
    /\ leader = [n \in Node |-> IF n = First THEN None ELSE First]
    /\ open = [n \in Node |-> TRUE]
    /\ resets = 0
    /\ writing = [w \in Write |-> "new"]
    /\ at = [w \in Write |-> None]
    /\ stored = [w \in Write |-> None]
    /\ cookie = [w \in Write |-> None]
    /\ reading = [r \in Read |-> "new"]
    /\ from = [r \in Read |-> None]
    /\ after = [r \in Read |-> None]
    /\ timer = [r \in Read |-> "none"]

NodeStep(n) ==
    \/ Replicate(n) \/ StartSnapshot(n) \/ EndSnapshot(n)
    \/ Promote(n) \/ CloseStore(n) \/ \E l \in Node : Enlist(n, l)
WriteStep(w) == (\E n \in Node : Store(w, n)) \/ AskPosition(w)
Handle(r)    == Check(r) \/ AwaitEnds(r) \/ Answer(r)
ReadStep(r)  == (\E n \in Node, w \in Write : Arrive(r, n, w)) \/ Handle(r)
                \/ Fire(r) \/ Done(r)

Next ==
    \/ \E n \in Node : NodeStep(n)
    \/ \E w \in Write : WriteStep(w)
    \/ \E r \in Read : ReadStep(r)

Spec == Init /\ [][Next]_vars

\* Handlers run, timers fire, and a select that has a case takes it.
FairSpec ==
    /\ Spec
    /\ \A r \in Read : WF_vars(Handle(r)) /\ WF_vars(Fire(r)) /\ WF_vars(Done(r))

(***************************************************************************)
(* Properties.                                                             *)
(***************************************************************************)

\* Every variable holds what its Go type lets it hold.
TypeOK ==
    /\ term \in [Node -> 1..MaxTerm]
    /\ held \in [Node -> Seq(Write)]
    /\ resetting \in [Node -> BOOLEAN] /\ open \in [Node -> BOOLEAN]
    /\ leader \in [Node -> Node \cup {None}]
    /\ writing \in [Write -> {"new", "stored", "answered"}]
    /\ at \in [Write -> Node \cup {None}]
    /\ stored \in [Write -> Position \cup {None}]
    /\ cookie \in [Write -> Position \cup {None}]
    /\ reading \in [Read -> {"new", "check", "wait", "read",
                             "200", "404", "409", "412", "503", "504"}]
    /\ from \in [Read -> Node \cup {None}] /\ after \in [Read -> Write \cup {None}]
    /\ timer \in [Read -> {"none", "running", "fired", "ended"}]

\* The cookie is a position at or after its write, in the history it is in: the
\* node was not enlisted between the write and the question.
honest(w) == cookie[w].term = stored[w].term /\ cookie[w].seq >= stored[w].seq

answered(r) == reading[r] \notin {"new", "check", "wait", "read"}

\* README "Reads that are not stale": a read that carries a write's position is
\* let through only by a store that holds that write, on whatever node and
\* across failovers.  If it is answered without it all the same, the store has
\* left the position since: asked again, it would refuse.
ReadYourWrites ==
    [][\A r \in Read :
         reading[r] # reading'[r] /\ after[r] # None /\ honest(after[r]) =>
            /\ reading'[r] = "read" => Holds(from[r], after[r])
            /\ reading'[r] = "404"  =>
                  Reached(from[r], cookie[after[r]]) # "reached"]_vars

\* role.go 423, notStale: without the exception.  "A replica that has not got
\* there says so rather than answering with what it has".
NeverWithoutIt ==
    [][\A r \in Read : Answer(r) /\ honest(after[r]) => reading'[r] # "404"]_vars

\* role.go 390, wrote: the position it is answered with is "at or after the
\* write, never before it", in a store that has it.
CookieCoversItsWrite ==
    [][\A w \in Write : AskPosition(w) => Holds(at[w], w)]_vars

\* Stores that reach one position hold the same writes up to it: what makes a
\* position from one node mean anything on another.
PositionsAgree ==
    \A m, n \in Node :
       term[m] = term[n] /\ ~resetting[m] /\ ~resetting[n]
       => IsPrefix(held[m], held[n]) \/ IsPrefix(held[n], held[m])

\* role.go, notStale: every read is answered, whatever becomes of the store it
\* waits for, and leaves no goroutine behind.
ReadsEnd ==
    \A r \in Read : (reading[r] = "wait") ~> (answered(r) /\ timer[r] = "ended")
=============================================================================
