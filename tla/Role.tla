-------------------------------- MODULE Role --------------------------------
(***************************************************************************)
(* Which of the two a node is (server/role.go): one process, its role      *)
(* lock, the Followers it starts, and the requests that read or change the *)
(* role while others are in flight: writes, promotions, a close, and       *)
(* POST /v1/follow, which asks the leader it is given for its term first.  *)
(*                                                                         *)
(* The store is its term.  A Follower, while it is alive, applies its      *)
(* leader's records, and with them takes that leader's term.               *)
(***************************************************************************)
EXTENDS Integers, FiniteSets

CONSTANTS
    Leader,      \* addresses that may be followed
    Follower,    \* the Followers this process can start
    Write,       \* write requests
    Promotion,   \* POST /v1/promote requests
    Closing,     \* calls of Server.Close
    Enlistment,  \* POST /v1/follow requests
    Starting,    \* whether the process is started with -leader
    MaxTerm,     \* bound: terms, here and at the leaders
    None         \* no leader, no follower

ASSUME RoleAssumption ==
    /\ None \notin Leader \cup Follower
    /\ Starting \in BOOLEAN
    /\ MaxTerm \in Nat

Stopper == Promotion \cup Closing

VARIABLES
    leader,   \* role.leader
    stop,     \* role.stop: the Follower whose Close it is, or None
    life,     \* Follower -> how far its life has got
    follows,  \* Follower -> the address it was started with
    term,     \* db.Term()
    theirs,   \* Leader -> the term of the node at that address
    writing,  \* write -> where its handler is
    stopping, \* promotion or close -> where it is
    taken,    \* promotion or close -> the stop it took from the role
    joining,  \* POST /v1/follow -> where its handler is
    target,   \* POST /v1/follow -> its leader parameter
    told      \* POST /v1/follow -> the term the leader answered

role     == <<leader, stop>>
follower == <<life, follows>>
stopVars == <<stopping, taken>>
joinVars == <<joining, target, told>>
vars == <<role, follower, term, theirs, writing, stopVars, joinVars>>

alive == {f \in Follower : life[f] \in {"running", "cancelled"}}

(***************************************************************************)
(* A write: the role is asked when the handler starts, the body is read,   *)
(* and the store takes whatever reaches it.                                *)
(***************************************************************************)

mayWrite(w) ==
    /\ writing[w] = "start"
    /\ writing' = [writing EXCEPT ![w] = IF leader = None THEN "allowed" ELSE "refused"]
    /\ UNCHANGED <<role, follower, term, theirs, stopVars, joinVars>>

StoreWrite(w) ==
    /\ writing[w] = "allowed"
    /\ writing' = [writing EXCEPT ![w] = "stored"]
    /\ UNCHANGED <<role, follower, term, theirs, stopVars, joinVars>>

(***************************************************************************)
(* stopFollowing, Promote and Close.                                       *)
(***************************************************************************)

\* Mutants of TakeStop: the role is left naming a leader ...
TakeStopOnly(p) ==
    /\ stopping[p] = "start"
    /\ taken' = [taken EXCEPT ![p] = stop]
    /\ stop' = None
    /\ stopping' = [stopping EXCEPT ![p] = IF stop = None THEN "stopped" ELSE "cancel"]
    /\ UNCHANGED <<leader, follower, term, theirs, writing, joinVars>>

\* ... and stop is left for the next one to take too.
TakeStopKept(p) ==
    /\ stopping[p] = "start"
    /\ taken' = [taken EXCEPT ![p] = stop]
    /\ leader' = None
    /\ stopping' = [stopping EXCEPT ![p] = IF stop = None THEN "stopped" ELSE "cancel"]
    /\ UNCHANGED <<stop, follower, term, theirs, writing, joinVars>>

\* Under the lock: take stop, and lead.
TakeStop(p) ==
    /\ stopping[p] = "start"
    /\ taken' = [taken EXCEPT ![p] = stop]
    /\ leader' = None
    /\ stop' = None
    /\ stopping' = [stopping EXCEPT ![p] = IF stop = None THEN "stopped" ELSE "cancel"]
    /\ UNCHANGED <<follower, term, theirs, writing, joinVars>>

\* Mutant of Cancel: it waits for a goroutine it has not cancelled.
CancelNothing(p) ==
    /\ stopping[p] = "cancel"
    /\ stopping' = [stopping EXCEPT ![p] = "waiting"]
    /\ UNCHANGED <<role, follower, term, theirs, writing, taken, joinVars>>

\* Outside it: Follower.Close cancels ...
Cancel(p) ==
    /\ stopping[p] = "cancel"
    /\ life' = [life EXCEPT ![taken[p]] = "cancelled"]
    /\ stopping' = [stopping EXCEPT ![p] = "waiting"]
    /\ UNCHANGED <<role, follows, term, theirs, writing, taken, joinVars>>

\* Mutant of Waited: it asks and does not wait.
WaitedForNothing(p) ==
    /\ stopping[p] = "waiting"
    /\ stopping' = [stopping EXCEPT ![p] = "stopped"]
    /\ UNCHANGED <<role, follower, term, theirs, writing, taken, joinVars>>

\* ... and waits for the goroutine.
Waited(p) ==
    /\ stopping[p] = "waiting"
    /\ life[taken[p]] = "done"
    /\ stopping' = [stopping EXCEPT ![p] = "stopped"]
    /\ UNCHANGED <<role, follower, term, theirs, writing, taken, joinVars>>

\* db.Promote, if that is what this is and it does not fail.
RaiseTerm(p) ==
    /\ stopping[p] = "stopped"
    /\ p \in Promotion
    /\ term < MaxTerm
    /\ term' = term + 1
    /\ stopping' = [stopping EXCEPT ![p] = "done"]
    /\ UNCHANGED <<role, follower, theirs, writing, taken, joinVars>>

\* A close, or a promotion whose term could not be written down.
StoppedOnly(p) ==
    /\ stopping[p] = "stopped"
    /\ stopping' = [stopping EXCEPT ![p] = "done"]
    /\ UNCHANGED <<role, follower, term, theirs, writing, taken, joinVars>>

(***************************************************************************)
(* enlist and Follow.                                                      *)
(***************************************************************************)

\* Idempotent for the leader it already follows; a 409 for another.
EnlistCheck(e) ==
    /\ joining[e] = "start"
    /\ joining' = [joining EXCEPT ![e] =
                     CASE leader = None      -> "ask"
                       [] leader = target[e] -> "joined"
                       [] OTHER              -> "refused"]
    /\ UNCHANGED <<role, follower, term, theirs, writing, stopVars, target, told>>

\* termOf: asked of the node itself, over HTTP; it may not answer.
AskTerm(e) ==
    /\ joining[e] = "ask"
    /\ \/ /\ told' = [told EXCEPT ![e] = theirs[target[e]]]
          /\ joining' = [joining EXCEPT ![e] = "compare"]
       \/ /\ joining' = [joining EXCEPT ![e] = "refused"]
          /\ UNCHANGED told
    /\ UNCHANGED <<role, follower, term, theirs, writing, stopVars, target>>

\* A leader whose term is below this node's own is not to be followed.
CompareTerms(e) ==
    /\ joining[e] = "compare"
    /\ joining' = [joining EXCEPT ![e] = IF term > told[e] THEN "refused" ELSE "follow"]
    /\ UNCHANGED <<role, follower, term, theirs, writing, stopVars, target, told>>

\* Server.Follow, all of it under the lock.
StartFollower(e) ==
    /\ joining[e] = "follow"
    /\ IF stop # None
       THEN /\ joining' = [joining EXCEPT ![e] = "refused"]
            /\ UNCHANGED <<role, follower>>
       ELSE \E f \in Follower :
              /\ life[f] = "unused"
              /\ life' = [life EXCEPT ![f] = "running"]
              /\ follows' = [follows EXCEPT ![f] = target[e]]
              /\ leader' = target[e]
              /\ stop' = f
              /\ joining' = [joining EXCEPT ![e] = "joined"]
    /\ UNCHANGED <<term, theirs, writing, stopVars, target, told>>

(***************************************************************************)
(* The Follower's goroutine, and the leaders it may be pointed at.         *)
(***************************************************************************)

\* db.Apply takes the leader's term with its records, and refuses an older
\* one.  A cancelled Follower finishes the batch it has in hand.
ApplyBatch(f) ==
    /\ f \in alive
    /\ theirs[follows[f]] > term
    /\ term' = theirs[follows[f]]
    /\ UNCHANGED <<role, follower, theirs, writing, stopVars, joinVars>>

FollowerDone(f) ==
    /\ life[f] = "cancelled"
    /\ life' = [life EXCEPT ![f] = "done"]
    /\ UNCHANGED <<role, follows, term, theirs, writing, stopVars, joinVars>>

\* Somebody else is promoted behind that address.
LeaderPromoted(l) ==
    /\ theirs[l] < MaxTerm
    /\ theirs' = [theirs EXCEPT ![l] = @ + 1]
    /\ UNCHANGED <<role, follower, term, writing, stopVars, joinVars>>

(***************************************************************************)
(* The specification.                                                      *)
(***************************************************************************)

\* A node started with -leader follows from the start; another leads.
Init ==
    /\ term = 1
    /\ theirs = [l \in Leader |-> 1]
    /\ writing = [w \in Write |-> "start"]
    /\ stopping = [p \in Stopper |-> "start"]
    /\ taken = [p \in Stopper |-> None]
    /\ joining = [e \in Enlistment |-> "start"]
    /\ target \in [Enlistment -> Leader]
    /\ told = [e \in Enlistment |-> 0]
    /\ IF Starting
       THEN \E f \in Follower, l \in Leader :
              /\ leader = l
              /\ stop = f
              /\ life = [g \in Follower |-> IF g = f THEN "running" ELSE "unused"]
              /\ follows = [g \in Follower |-> IF g = f THEN l ELSE None]
       ELSE /\ leader = None
            /\ stop = None
            /\ life = [g \in Follower |-> "unused"]
            /\ follows = [g \in Follower |-> None]

WriteStep(w)    == mayWrite(w) \/ StoreWrite(w)
StopStep(p)     == TakeStop(p) \/ Cancel(p) \/ Waited(p) \/ RaiseTerm(p) \/ StoppedOnly(p)
EnlistStep(e)   == EnlistCheck(e) \/ AskTerm(e) \/ CompareTerms(e) \/ StartFollower(e)
FollowerStep(f) == ApplyBatch(f) \/ FollowerDone(f)

Next ==
    \/ \E w \in Write : WriteStep(w)
    \/ \E p \in Stopper : StopStep(p)
    \/ \E e \in Enlistment : EnlistStep(e)
    \/ \E f \in Follower : FollowerStep(f)
    \/ \E l \in Leader : LeaderPromoted(l)

Spec == Init /\ [][Next]_vars

\* Handlers run, and a goroutine whose context is cancelled ends.
FairSpec ==
    /\ Spec
    /\ \A p \in Stopper : WF_vars(StopStep(p))
    /\ \A f \in Follower : WF_vars(FollowerDone(f))

(***************************************************************************)
(* Properties.                                                             *)
(***************************************************************************)

\* Every variable holds what its Go type lets it hold.
TypeOK ==
    /\ leader \in Leader \cup {None}
    /\ stop \in Follower \cup {None}
    /\ life \in [Follower -> {"unused", "running", "cancelled", "done"}]
    /\ follows \in [Follower -> Leader \cup {None}]
    /\ term \in Nat
    /\ theirs \in [Leader -> Nat]
    /\ writing \in [Write -> {"start", "allowed", "refused", "stored"}]
    /\ stopping \in [Stopper -> {"start", "cancel", "waiting", "stopped", "done"}]
    /\ taken \in [Stopper -> Follower \cup {None}]
    /\ joining \in [Enlistment -> {"start", "ask", "compare", "follow", "joined",
                                   "refused"}]
    /\ target \in [Enlistment -> Leader]
    /\ told \in [Enlistment -> Nat]

\* role.go, Server.Follow: "the two have to agree about the role".  A node
\* that says it follows has a Follower running against that very leader, and
\* one that says it leads has none that the role could stop.
RoleIsTheFollower ==
    IF stop = None
    THEN leader = None
    ELSE /\ life[stop] = "running"
         /\ follows[stop] = leader
         /\ leader # None

\* The requests that are about to stop a Follower or waiting for it to end.
stoppers(f) == {p \in Stopper : taken[p] = f /\ stopping[p] \in {"cancel", "waiting"}}

\* role.go "Promote stops it, and so does Close": a Follower that still
\* applies records is the one the role would stop, or exactly one request is
\* stopping it.  None is ever left applying with nobody to stop it.
EveryFollowerHasAStopper ==
    \A f \in alive : Cardinality(stoppers(f)) = IF f = stop THEN 0 ELSE 1

\* role.go, Follower.Close "It waits rather than merely asking": the Follower a
\* promotion took from the role has applied its last record before that
\* promotion raises the term.
OwnFollowerEndsFirst ==
    [][\A p \in Promotion :
         RaiseTerm(p) /\ taken[p] # None => life[taken[p]] = "done"]_vars

\* role.go, enlist: a node is never put behind a leader whose term is below
\* its own.
NeverBehindAnOlderTerm ==
    [][\A e \in Enlistment :
         StartFollower(e) /\ joining'[e] = "joined" => term <= theirs[target[e]]]_vars

\* role.go "That is the failure this file exists to prevent": the store takes
\* no write of its own while the node follows.
WrittenOnlyWhileLeading ==
    [][\A w \in Write : StoreWrite(w) => leader = None]_vars

\* The same of the store itself: no write goes into a log into which a
\* Follower is still applying another node's records.
NoWriteBesideFollower ==
    [][\A w \in Write : StoreWrite(w) => alive = {}]_vars

\* Follower.Close waits outside the role lock, and is over once the batch in
\* hand is: every promotion and every close ends.
StopsEnd == \A p \in Stopper : (stopping[p] # "start") ~> (stopping[p] = "done")
=============================================================================
