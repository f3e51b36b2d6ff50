--------------------------- MODULE ShutdownProofs ---------------------------
(***************************************************************************)
(* What module Role keeps for any number of Followers and of requests that *)
(* change the role at once, proved from one inductive invariant, and the   *)
(* end of the process that has the role, for any number of requests,       *)
(* Followers and streams in flight: it is a node in the sense of Role to   *)
(* its last step, so what is proved of Role holds of it, and its store is  *)
(* the last thing to close.                                                *)
(***************************************************************************)
EXTENDS Shutdown, FiniteSetTheorems, TLAPS

(***************************************************************************)
(* The inductive invariant.                                                *)
(***************************************************************************)

\* Every Follower was started against an address.
StartedSomewhere == \A f \in Follower : life[f] # "unused" => follows[f] \in Leader

\* What a request took from the role is that request's alone, until it has
\* seen it end.
TakenIsOwned ==
    \A p \in Stopper :
        /\ stopping[p] = "start" => taken[p] = None
        /\ stopping[p] \in {"cancel", "waiting"} => taken[p] # None
        /\ taken[p] # None =>
              /\ taken[p] # stop
              /\ \A q \in Stopper : taken[q] = taken[p] => q = p

\* How far the Follower it took has got, by how far the request has.
TakenEnds ==
    \A p \in Stopper : taken[p] # None =>
        /\ stopping[p] = "cancel" => life[taken[p]] = "running"
        /\ stopping[p] = "waiting" => life[taken[p]] \in {"cancelled", "done"}
        /\ stopping[p] \in {"stopped", "done"} => life[taken[p]] = "done"

\* A Follower that lives is the role's, or some request is ending it.
AliveIsOwned ==
    \A f \in alive : f # stop => \E p \in Stopper : p \in stoppers(f)

RoleInv == /\ TypeOK /\ RoleIsTheFollower /\ StartedSomewhere
           /\ TakenIsOwned /\ TakenEnds /\ AliveIsOwned

(***************************************************************************)
(* It holds to begin with, and every step keeps it.                        *)
(***************************************************************************)

\* One Follower runs if the process was started with -leader, and none if not.
LEMMA RoleInit == Init => RoleInv
<1> SUFFICES ASSUME Init PROVE RoleInv
  OBVIOUS
<1> USE RoleAssumption
<1>1. TypeOK /\ RoleIsTheFollower /\ StartedSomewhere
  BY DEF Init, TypeOK, RoleIsTheFollower, StartedSomewhere
<1>2. TakenIsOwned /\ TakenEnds
  BY DEF Init, TakenIsOwned, TakenEnds
<1>3. AliveIsOwned
  BY DEF Init, AliveIsOwned, alive
<1> QED
  BY <1>1, <1>2, <1>3 DEF RoleInv

\* Every step keeps the types.
LEMMA TypeStep == RoleInv /\ [Next]_vars => TypeOK'
<1> SUFFICES ASSUME RoleInv, [Next]_vars PROVE TypeOK'
  OBVIOUS
<1> TypeOK /\ StartedSomewhere /\ TakenIsOwned
  BY DEF RoleInv
<1> USE RoleAssumption DEF TypeOK, role, follower, stopVars, joinVars
<1>1. ASSUME NEW w \in Write, WriteStep(w) PROVE TypeOK'
  BY <1>1 DEF WriteStep, mayWrite, StoreWrite
<1>2. ASSUME NEW p \in Stopper, StopStep(p) PROVE TypeOK'
  <2>1. CASE TakeStop(p)
    BY <2>1 DEF TakeStop
  <2>2. CASE Cancel(p)
    BY <2>2 DEF Cancel, TakenIsOwned
  <2>3. CASE Waited(p) \/ RaiseTerm(p) \/ StoppedOnly(p)
    BY <2>3 DEF Waited, RaiseTerm, StoppedOnly
  <2> QED
    BY <1>2, <2>1, <2>2, <2>3 DEF StopStep
<1>3. ASSUME NEW e \in Enlistment, EnlistStep(e) PROVE TypeOK'
  <2>1. CASE EnlistCheck(e) \/ AskTerm(e) \/ CompareTerms(e)
    BY <2>1 DEF EnlistCheck, AskTerm, CompareTerms
  <2>2. CASE StartFollower(e)
    BY <2>2 DEF StartFollower
  <2> QED
    BY <1>3, <2>1, <2>2 DEF EnlistStep
<1>4. ASSUME NEW f \in Follower, FollowerStep(f) PROVE TypeOK'
  <2>1. CASE ApplyBatch(f)
    <3>1. follows[f] \in Leader
      BY <2>1 DEF ApplyBatch, alive, StartedSomewhere
    <3>2. term' \in Nat
      BY <2>1, <3>1 DEF ApplyBatch
    <3> QED
      BY <2>1, <3>2 DEF ApplyBatch
  <2>2. CASE FollowerDone(f)
    BY <2>2 DEF FollowerDone
  <2> QED
    BY <1>4, <2>1, <2>2 DEF FollowerStep
<1>5. ASSUME NEW l \in Leader, LeaderPromoted(l) PROVE TypeOK'
  BY <1>5 DEF LeaderPromoted
<1>6. CASE UNCHANGED vars
  BY <1>6 DEF vars
<1> QED
  BY <1>1, <1>2, <1>3, <1>4, <1>5, <1>6 DEF Next

\* The role and the Follower it would stop are changed together, and a Follower
\* a request is stopping is not the role's any more.
LEMMA RoleStep ==
    RoleInv /\ [Next]_vars => RoleIsTheFollower' /\ StartedSomewhere'
<1> SUFFICES ASSUME RoleInv, [Next]_vars
             PROVE  RoleIsTheFollower' /\ StartedSomewhere'
  OBVIOUS
<1> TypeOK /\ RoleIsTheFollower /\ StartedSomewhere /\ TakenIsOwned
  BY DEF RoleInv
<1> USE RoleAssumption
        DEF TypeOK, RoleIsTheFollower, StartedSomewhere, role, follower, stopVars, joinVars
<1>1. ASSUME NEW w \in Write, WriteStep(w)
      PROVE  RoleIsTheFollower' /\ StartedSomewhere'
  BY <1>1 DEF WriteStep, mayWrite, StoreWrite
<1>2. ASSUME NEW p \in Stopper, StopStep(p)
      PROVE  RoleIsTheFollower' /\ StartedSomewhere'
  <2>1. CASE TakeStop(p)
    BY <2>1 DEF TakeStop
  <2>2. CASE Cancel(p)
    <3>1. taken[p] \in Follower /\ taken[p] # stop
      BY <2>2 DEF Cancel, TakenIsOwned
    <3>2. life[taken[p]] # "unused"
      BY <2>2, <3>1 DEF Cancel, RoleInv, TakenEnds
    <3> QED
      BY <2>2, <3>1, <3>2 DEF Cancel
  <2>3. CASE Waited(p) \/ RaiseTerm(p) \/ StoppedOnly(p)
    BY <2>3 DEF Waited, RaiseTerm, StoppedOnly
  <2> QED
    BY <1>2, <2>1, <2>2, <2>3 DEF StopStep
<1>3. ASSUME NEW e \in Enlistment, EnlistStep(e)
      PROVE  RoleIsTheFollower' /\ StartedSomewhere'
  <2>1. CASE EnlistCheck(e) \/ AskTerm(e) \/ CompareTerms(e)
    BY <2>1 DEF EnlistCheck, AskTerm, CompareTerms
  <2>2. CASE StartFollower(e)
    BY <2>2 DEF StartFollower
  <2> QED
    BY <1>3, <2>1, <2>2 DEF EnlistStep
<1>4. ASSUME NEW f \in Follower, FollowerStep(f)
      PROVE  RoleIsTheFollower' /\ StartedSomewhere'
  BY <1>4 DEF FollowerStep, ApplyBatch, FollowerDone
<1>5. ASSUME NEW l \in Leader, LeaderPromoted(l)
      PROVE  RoleIsTheFollower' /\ StartedSomewhere'
  BY <1>5 DEF LeaderPromoted
<1>6. CASE UNCHANGED vars
  BY <1>6 DEF vars
<1> QED
  BY <1>1, <1>2, <1>3, <1>4, <1>5, <1>6 DEF Next

\* A stop is taken once, by one request, and what is started later is another.
LEMMA TakenStep == RoleInv /\ [Next]_vars => TakenIsOwned' /\ TakenEnds'
<1> SUFFICES ASSUME RoleInv, [Next]_vars PROVE TakenIsOwned' /\ TakenEnds'
  OBVIOUS
<1> TypeOK /\ RoleIsTheFollower /\ TakenIsOwned /\ TakenEnds
  BY DEF RoleInv
<1> USE RoleAssumption
<1> USE DEF TypeOK, TakenIsOwned, TakenEnds, role, follower, stopVars, joinVars
<1>1. ASSUME NEW w \in Write, WriteStep(w) PROVE TakenIsOwned' /\ TakenEnds'
  BY <1>1 DEF WriteStep, mayWrite, StoreWrite
<1>2. ASSUME NEW p \in Stopper, StopStep(p) PROVE TakenIsOwned' /\ TakenEnds'
  <2>1. CASE TakeStop(p)
    BY <2>1 DEF TakeStop, RoleIsTheFollower
  <2>2. CASE Cancel(p)
    BY <2>2 DEF Cancel
  <2>3. CASE Waited(p) \/ RaiseTerm(p) \/ StoppedOnly(p)
    BY <2>3 DEF Waited, RaiseTerm, StoppedOnly
  <2> QED
    BY <1>2, <2>1, <2>2, <2>3 DEF StopStep
<1>3. ASSUME NEW e \in Enlistment, EnlistStep(e) PROVE TakenIsOwned' /\ TakenEnds'
  <2>1. CASE EnlistCheck(e) \/ AskTerm(e) \/ CompareTerms(e)
    BY <2>1 DEF EnlistCheck, AskTerm, CompareTerms
  <2>2. CASE StartFollower(e)
    BY <2>2 DEF StartFollower
  <2> QED
    BY <1>3, <2>1, <2>2 DEF EnlistStep
<1>4. ASSUME NEW f \in Follower, FollowerStep(f) PROVE TakenIsOwned' /\ TakenEnds'
  BY <1>4 DEF FollowerStep, ApplyBatch, FollowerDone
<1>5. ASSUME NEW l \in Leader, LeaderPromoted(l) PROVE TakenIsOwned' /\ TakenEnds'
  BY <1>5 DEF LeaderPromoted
<1>6. CASE UNCHANGED vars
  BY <1>6 DEF vars
<1> QED
  BY <1>1, <1>2, <1>3, <1>4, <1>5, <1>6 DEF Next

\* The role gives a Follower up only to a request that will stop it, and that
\* request lets go of it only when it is done.
LEMMA AliveStep == RoleInv /\ [Next]_vars => AliveIsOwned'
<1> SUFFICES ASSUME RoleInv, [Next]_vars PROVE AliveIsOwned'
  OBVIOUS
<1> TypeOK /\ RoleIsTheFollower /\ TakenIsOwned /\ TakenEnds /\ AliveIsOwned
  BY DEF RoleInv
<1> USE RoleAssumption
<1> USE DEF TypeOK, AliveIsOwned, alive, stoppers, role, follower, stopVars, joinVars
<1>1. ASSUME NEW w \in Write, WriteStep(w) PROVE AliveIsOwned'
  BY <1>1 DEF WriteStep, mayWrite, StoreWrite
<1>2. ASSUME NEW p \in Stopper, StopStep(p) PROVE AliveIsOwned'
  <2>1. CASE TakeStop(p)
    BY <2>1 DEF TakeStop, TakenIsOwned
  <2>2. CASE Cancel(p)
    BY <2>2 DEF Cancel, TakenEnds, TakenIsOwned
  <2>3. CASE Waited(p)
    BY <2>3 DEF Waited
  <2>4. CASE RaiseTerm(p) \/ StoppedOnly(p)
    BY <2>4 DEF RaiseTerm, StoppedOnly
  <2> QED
    BY <1>2, <2>1, <2>2, <2>3, <2>4 DEF StopStep
<1>3. ASSUME NEW e \in Enlistment, EnlistStep(e) PROVE AliveIsOwned'
  <2>1. CASE EnlistCheck(e) \/ AskTerm(e) \/ CompareTerms(e)
    BY <2>1 DEF EnlistCheck, AskTerm, CompareTerms
  <2>2. CASE StartFollower(e)
    BY <2>2 DEF StartFollower
  <2> QED
    BY <1>3, <2>1, <2>2 DEF EnlistStep
<1>4. ASSUME NEW f \in Follower, FollowerStep(f) PROVE AliveIsOwned'
  BY <1>4 DEF FollowerStep, ApplyBatch, FollowerDone
<1>5. ASSUME NEW l \in Leader, LeaderPromoted(l) PROVE AliveIsOwned'
  BY <1>5 DEF LeaderPromoted
<1>6. CASE UNCHANGED vars
  BY <1>6 DEF vars
<1> QED
  BY <1>1, <1>2, <1>3, <1>4, <1>5, <1>6 DEF Next

(***************************************************************************)
(* The theorems.                                                           *)
(***************************************************************************)

\* The invariant holds in every state of every behaviour.
THEOREM AlwaysRoleInv == Spec => []RoleInv
<1>1. RoleInv /\ [Next]_vars => RoleInv'
  BY TypeStep, RoleStep, TakenStep, AliveStep DEF RoleInv
<1> QED
  BY <1>1, RoleInit, PTL DEF Spec

\* The role, the Followers and the handlers of a node keep their types.
THEOREM Typed == Spec => []TypeOK
<1>1. RoleInv => TypeOK
  BY DEF RoleInv
<1> QED
  BY <1>1, AlwaysRoleInv, PTL

\* role.go, Server.Follow: a node says it follows exactly while a Follower runs
\* against the leader it names, however promotions, closes and enlistments meet.
THEOREM RoleAgrees == Spec => []RoleIsTheFollower
<1>1. RoleInv => RoleIsTheFollower
  BY DEF RoleInv
<1> QED
  BY <1>1, AlwaysRoleInv, PTL

\* role.go: whatever meets, a Follower that still applies is the role's to stop
\* or is being stopped, by exactly one request.
THEOREM OneStopperEach == Spec => []EveryFollowerHasAStopper
<1>1. ASSUME RoleInv PROVE EveryFollowerHasAStopper
  <2> SUFFICES ASSUME NEW f \in alive
               PROVE  Cardinality(stoppers(f)) = IF f = stop THEN 0 ELSE 1
    BY DEF EveryFollowerHasAStopper
  <2> f \in Follower /\ f # None
    BY RoleAssumption DEF alive
  <2>1. CASE f = stop
    <3>1. stoppers(f) = {}
      BY <1>1, <2>1 DEF RoleInv, TakenIsOwned, stoppers
    <3> QED
      BY <2>1, <3>1, FS_EmptySet
  <2>2. CASE f # stop
    <3>1. PICK p \in Stopper : p \in stoppers(f)
      BY <1>1, <2>2 DEF RoleInv, AliveIsOwned
    <3>2. \A q \in stoppers(f) : q = p
      BY <1>1, <3>1 DEF RoleInv, TakenIsOwned, stoppers
    <3>3. stoppers(f) = {p}
      BY <3>1, <3>2
    <3> QED
      BY <2>2, <3>3, FS_Singleton
  <2> QED
    BY <2>1, <2>2
<1> QED
  BY <1>1, AlwaysRoleInv, PTL

\* role.go, Follower.Close: "It waits rather than merely asking".  When a
\* promotion raises the term, the Follower it took has applied its last record.
THEOREM OwnEndsFirst == Spec => OwnFollowerEndsFirst
<1>1. RoleInv /\ [Next]_vars =>
        [\A p \in Promotion :
           RaiseTerm(p) /\ taken[p] # None => life[taken[p]] = "done"]_vars
  BY DEF RoleInv, TakenEnds, RaiseTerm, Stopper
<1> QED
  BY <1>1, AlwaysRoleInv, PTL DEF Spec, OwnFollowerEndsFirst

state == <<vars, process, serving>>

(***************************************************************************)
(* The process implements Role.                                            *)
(***************************************************************************)

\* Whatever the process does, its role sees a step of Role's, or none.
LEMMA ProcessStep == [ProcessNext]_state => [Next]_vars
<1> SUFFICES ASSUME [ProcessNext]_state PROVE [Next]_vars
  OBVIOUS
<1>1. ASSUME NEW w \in Write, WriteHandler(w) PROVE [Next]_vars
  BY <1>1 DEF WriteHandler, ArrivingWrite, Enqueue, WriterStores, Acknowledged,
     WaitRunsOut, WriteStep, Next
<1>2. ASSUME NEW s \in Stream, OpenStream(s) \/ StreamEnds(s) PROVE [Next]_vars
  BY <1>2 DEF OpenStream, StreamEnds
<1>3. ASSUME NEW p \in Promotion, Promoting(p) PROVE [Next]_vars
  BY <1>3 DEF Promoting, StopStep, Stopper, Next
<1>4. ASSUME NEW e \in Enlistment, Enlisting(e) \/ Asking(e) PROVE [Next]_vars
  BY <1>4 DEF Enlisting, Asking, EnlistStep, Next
<1>5. ASSUME NEW f \in Follower, FollowerApplies(f) \/ FollowerEnds(f) PROVE [Next]_vars
  BY <1>5 DEF FollowerApplies, FollowerEnds, FollowerStep, Next
<1>6. ASSUME NEW l \in Leader, Elsewhere(l) PROVE [Next]_vars
  BY <1>6 DEF Elsewhere, Next
<1>7. ASSUME NEW q \in Closing, Stopping(q) PROVE [Next]_vars
  BY <1>7 DEF Stopping, StopStep, Stopper, Next
<1>8. CASE Signal \/ ServeFails \/ GaveUp
  BY <1>8 DEF Signal, ServeFails, GaveUp
<1>9. CASE CloseStreams \/ Drained \/ Close \/ Stopped \/ CloseWriter \/ Flushed \/ CloseStore
  BY <1>9 DEF CloseStreams, Drained, Close, Stopped, CloseWriter, Flushed, CloseStore
<1>10. CASE UNCHANGED state
  BY <1>10 DEF state
<1> QED
  BY <1>1, <1>2, <1>3, <1>4, <1>5, <1>6, <1>7, <1>8, <1>9, <1>10 DEF ProcessNext, Main

\* main.go, run, with role.go: a process on its way down is a node of module
\* Role to the end, so its role and its Followers agree throughout.
THEOREM ProcessIsANode == ProcessSpec => Spec
<1>1. ProcessInit => Init
  BY DEF ProcessInit
<1>2. [ProcessNext]_<<vars, process, serving>> => [Next]_vars
  BY ProcessStep DEF state
<1> QED
  BY <1>1, <1>2, PTL DEF ProcessSpec, Spec

(***************************************************************************)
(* Writes, the queue and the store.                                        *)
(***************************************************************************)

\* The Writer is closed after the requests have been waited for, and emptied
\* before the store is closed; it takes nothing after that.
QueueInv ==
    /\ stage \in {"serving", "draining"} =>
          /\ accepting /\ open
          /\ \A w \in Write : answer[w] # "unavailable"
    /\ stage \in {"flushing", "store"} => ~accepting
    /\ ~accepting /\ stage # "flushing" => queue = {}
    /\ ~open => ~accepting /\ queue = {}

\* A write that was waited for is not in flight, and none begins.
WritesInv ==
    /\ answer \in [Write -> {"none", "replicated", "stored", "unavailable"}]
    /\ writing \in [Write -> {"start", "allowed", "refused", "stored"}]
    /\ waited = "all" =>
          /\ stage \notin {"serving", "draining"}
          /\ \A w \in Write :
                /\ writing[w] \in {"allowed", "stored"} => answer[w] # "none"
                /\ answer[w] # "unavailable"

WriterInv == QueueInv /\ WritesInv

\* Nothing is queued when the process starts.
LEMMA WriterInit == ProcessInit => WriterInv
BY DEF ProcessInit, Init, WriterInv, QueueInv, WritesInv

\* No step puts a write into a Writer that is closed.
LEMMA WriterStep == WriterInv /\ [ProcessNext]_state => WriterInv'
<1> SUFFICES ASSUME WriterInv, [ProcessNext]_state PROVE WriterInv'
  OBVIOUS
<1> USE DEF WriterInv, QueueInv, WritesInv, process, serving, vars,
            role, follower, stopVars, joinVars
<1>1. ASSUME NEW w \in Write, WriteHandler(w) PROVE WriterInv'
  <2>1. CASE ArrivingWrite(w)
    BY <2>1 DEF ArrivingWrite, mayWrite, mayArrive
  <2>2. CASE Enqueue(w)
    BY <2>2 DEF Enqueue
  <2>3. CASE WriterStores(w)
    BY <2>3 DEF WriterStores, StoreWrite
  <2>4. CASE Acknowledged(w)
    BY <2>4 DEF Acknowledged
  <2>5. CASE WaitRunsOut(w)
    BY <2>5 DEF WaitRunsOut
  <2> QED
    BY <1>1, <2>1, <2>2, <2>3, <2>4, <2>5 DEF WriteHandler
<1>2. ASSUME NEW s \in Stream, OpenStream(s) \/ StreamEnds(s) PROVE WriterInv'
  BY <1>2 DEF OpenStream, StreamEnds
<1>3. ASSUME NEW p \in Promotion, Promoting(p) PROVE WriterInv'
  BY <1>3 DEF Promoting, TakeStop, Cancel, Waited, RaiseTerm, StoppedOnly
<1>4. ASSUME NEW e \in Enlistment, Enlisting(e) \/ Asking(e) PROVE WriterInv'
  BY <1>4 DEF Enlisting, Asking, EnlistCheck, AskTerm, CompareTerms, StartFollower
<1>5. ASSUME NEW f \in Follower, FollowerApplies(f) \/ FollowerEnds(f) PROVE WriterInv'
  BY <1>5 DEF FollowerApplies, FollowerEnds, ApplyBatch, FollowerDone
<1>6. ASSUME NEW l \in Leader, Elsewhere(l) PROVE WriterInv'
  BY <1>6 DEF Elsewhere, LeaderPromoted
<1>7. ASSUME NEW q \in Closing, Stopping(q) PROVE WriterInv'
  BY <1>7 DEF Stopping, TakeStop, Cancel, Waited, StoppedOnly
<1>8. CASE Signal \/ ServeFails \/ GaveUp
  BY <1>8 DEF Signal, ServeFails, GaveUp
<1>9. CASE Drained
  BY <1>9 DEF Drained, inFlight
<1>10. CASE CloseStreams \/ Close \/ Stopped
  BY <1>10 DEF CloseStreams, Close, Stopped
<1>11. CASE CloseWriter \/ Flushed \/ CloseStore
  BY <1>11 DEF CloseWriter, Flushed, CloseStore
<1>12. CASE UNCHANGED state
  BY <1>12 DEF state
<1> QED
  BY <1>1, <1>2, <1>3, <1>4, <1>5, <1>6, <1>7, <1>8, <1>9, <1>10, <1>11, <1>12
     DEF ProcessNext, Main

\* What the Writer and the writes keep, in every behaviour.
THEOREM AlwaysWriterInv == ProcessSpec => []WriterInv
<1>1. WriterInv /\ [ProcessNext]_<<vars, process, serving>> => WriterInv'
  BY WriterStep DEF state
<1> QED
  BY <1>1, WriterInit, PTL DEF ProcessSpec

\* main.go, run: a write the Writer took is in the store when the store closes.
THEOREM Stored == ProcessSpec => []AcceptedIsStored
<1>1. WriterInv => AcceptedIsStored
  BY DEF WriterInv, QueueInv, AcceptedIsStored
<1> QED
  BY <1>1, AlwaysWriterInv, PTL

\* main.go, run: no request that was waited for is answered with a 503.
THEOREM NobodyTurnedAway == ProcessSpec => []NoneTurnedAway
<1>1. WriterInv => NoneTurnedAway
  BY DEF WriterInv, WritesInv, NoneTurnedAway
<1> QED
  BY <1>1, AlwaysWriterInv, PTL

(***************************************************************************)
(* The Followers, when the store closes.                                   *)
(***************************************************************************)

\* The calls of Server.Close that have begun to stop a Follower.
started == {c \in Closing : stopping[c] # "start"}
ended   == {c \in Closing : stopping[c] = "done"}

\* Close is past stopping the Follower only once it has stopped.
CloseInv ==
    /\ calls \in Nat
    /\ Cardinality(started) <= calls
    /\ stage \in {"serving", "draining"} => calls = 0
    /\ stage \in {"follower", "writer", "flushing", "store"} => calls # 0
    /\ stage \in {"writer", "flushing", "store"} => started # {} /\ started = ended

\* Where everybody was waited for, nobody else changes the role any more.
WaitedInv ==
    waited = "all" =>
        /\ stage \notin {"serving", "draining"}
        /\ \A p \in Promotion : stopping[p] \in {"start", "done"}
        /\ \A e \in Enlistment : joining[e] \in {"start", "joined", "refused"}
        /\ started # {} => stop = None

\* Nothing has been stopped when the process starts.
LEMMA CloseInit == ProcessInit => CloseInv /\ WaitedInv
<1> SUFFICES ASSUME ProcessInit PROVE CloseInv /\ WaitedInv
  OBVIOUS
<1>1. started = {}
  BY DEF ProcessInit, Init, started, Stopper
<1> QED
  BY <1>1, FS_EmptySet DEF ProcessInit, CloseInv, WaitedInv

\* A step that begins no stop and ends none leaves both sets alone.
LEMMA SameStarted ==
    ASSUME \A c \in Closing : stopping'[c] = stopping[c]
    PROVE  started' = started /\ ended' = ended
BY DEF started, ended

\* What has begun is finite, and one more is one more.
LEMMA OneMoreStarted ==
    ASSUME TypeOK, NEW q \in Closing, stopping[q] = "start",
           stopping' = [stopping EXCEPT ![q] = "stopped"]
             \/ stopping' = [stopping EXCEPT ![q] = "cancel"]
    PROVE  started' = started \cup {q} /\ Cardinality(started') = Cardinality(started) + 1
<1>1. started' = started \cup {q} /\ q \notin started
  BY DEF started, TypeOK, Stopper
<1>2. IsFiniteSet(started)
  BY ShutdownAssumption, FS_Subset DEF started
<1> QED
  BY <1>1, <1>2, FS_AddElement

\* All that have begun have ended, if as many have ended as may have begun.
LEMMA AllEnded ==
    ASSUME CloseInv, Cardinality(ended) = calls, calls # 0
    PROVE  started # {} /\ started = ended
<1>1. IsFiniteSet(started) /\ ended \subseteq started
  BY ShutdownAssumption, FS_Subset DEF started, ended
<1>2. Cardinality(ended) <= Cardinality(started)
      /\ (Cardinality(started) = Cardinality(ended) => started = ended)
  BY <1>1, FS_Subset
<1>3. Cardinality(started) \in Nat /\ Cardinality(ended) \in Nat
  BY <1>1, FS_Subset, FS_CardinalityType
<1>4. Cardinality(started) = calls
  BY <1>2, <1>3 DEF CloseInv
<1> QED
  BY <1>2, <1>4, FS_EmptySet

\* Every step keeps both.
LEMMA CloseStep ==
    TypeOK /\ CloseInv /\ WaitedInv /\ [ProcessNext]_state => CloseInv' /\ WaitedInv'
<1> SUFFICES ASSUME TypeOK, CloseInv, WaitedInv, [ProcessNext]_state
             PROVE  CloseInv' /\ WaitedInv'
  OBVIOUS
<1> USE DEF CloseInv, WaitedInv, process, serving, vars, role, follower, stopVars, joinVars
<1> DEFINE Kept == \A c \in Closing : stopping'[c] = stopping[c]
<1>1. ASSUME NEW w \in Write, WriteHandler(w) PROVE CloseInv' /\ WaitedInv'
  <2>1. Kept
    BY <1>1 DEF WriteHandler, ArrivingWrite, mayWrite, Enqueue, WriterStores, StoreWrite,
       Acknowledged, WaitRunsOut
  <2> QED
    BY <1>1, <2>1, SameStarted DEF WriteHandler, ArrivingWrite, mayWrite, Enqueue,
       WriterStores, StoreWrite, Acknowledged, WaitRunsOut
<1>2. ASSUME NEW s \in Stream, OpenStream(s) \/ StreamEnds(s) PROVE CloseInv' /\ WaitedInv'
  BY <1>2, SameStarted DEF OpenStream, StreamEnds
<1>3. ASSUME NEW p \in Promotion, Promoting(p) PROVE CloseInv' /\ WaitedInv'
  <2> USE DEF Promoting, TakeStop, Cancel, Waited, RaiseTerm, StoppedOnly, mayArrive
  <2>1. Kept
    BY <1>3, ShutdownAssumption DEF TypeOK, Stopper
  <2>2. started' = started /\ ended' = ended
    BY <2>1, SameStarted
  <2>3. CASE waited = "all"
    BY <1>3, <2>2, <2>3
  <2>4. CASE waited # "all"
    BY <1>3, <2>2, <2>4
  <2> QED
    BY <2>3, <2>4
<1>4. ASSUME NEW e \in Enlistment, Enlisting(e) \/ Asking(e) PROVE CloseInv' /\ WaitedInv'
  <2> USE DEF Enlisting, Asking, EnlistCheck, AskTerm, CompareTerms, StartFollower, mayArrive
  <2>1. started' = started /\ ended' = ended
    BY <1>4, SameStarted
  <2>2. CASE waited = "all"
    BY <1>4, <2>1, <2>2
  <2>3. CASE waited # "all"
    BY <1>4, <2>1, <2>3
  <2> QED
    BY <2>2, <2>3
<1>5. ASSUME NEW f \in Follower, FollowerApplies(f) \/ FollowerEnds(f)
      PROVE  CloseInv' /\ WaitedInv'
  BY <1>5, SameStarted DEF FollowerApplies, FollowerEnds, ApplyBatch, FollowerDone
<1>6. ASSUME NEW l \in Leader, Elsewhere(l) PROVE CloseInv' /\ WaitedInv'
  BY <1>6, SameStarted DEF Elsewhere, LeaderPromoted
<1>7. ASSUME NEW q \in Closing, Stopping(q) PROVE CloseInv' /\ WaitedInv'
  <2> \A p \in Promotion : p # q /\ p \in Stopper
    BY ShutdownAssumption DEF Stopper
  <2>1. CASE TakeStop(q)
    <3>1. started' = started \cup {q} /\ Cardinality(started') = Cardinality(started) + 1
      BY <2>1, OneMoreStarted DEF TakeStop
    <3>2. Cardinality(started) < calls
      BY <1>7, <2>1 DEF Stopping, TakeStop, Cancel, Waited, StoppedOnly, started,
         TypeOK, Stopper
    <3>3. Cardinality(started) \in Nat
      BY ShutdownAssumption, FS_Subset, FS_CardinalityType DEF started
    <3> QED
      BY <1>7, <2>1, <3>1, <3>2, <3>3 DEF Stopping, TakeStop, TypeOK
  <2>2. CASE Cancel(q) \/ Waited(q) \/ StoppedOnly(q)
    <3>1. started' = started
      BY <2>2 DEF Cancel, Waited, StoppedOnly, started, TypeOK, Stopper
    <3> QED
      BY <1>7, <2>2, <3>1 DEF Stopping, Cancel, Waited, StoppedOnly, TypeOK
  <2> QED
    BY <1>7, <2>1, <2>2 DEF Stopping
<1>8. CASE Signal \/ ServeFails \/ GaveUp
  BY <1>8, SameStarted DEF Signal, ServeFails, GaveUp
<1>9. CASE Drained
  <2>1. started' = started /\ ended' = ended
    BY <1>9, SameStarted DEF Drained
  <2>2. started = {}
    <3>1. Cardinality(started) = 0 /\ IsFiniteSet(started)
      BY <1>9, ShutdownAssumption, FS_Subset, FS_CardinalityType DEF Drained, started
    <3> QED
      BY <3>1, FS_EmptySet
  <2> QED
    BY <1>9, <2>1, <2>2 DEF Drained, inFlight
<1>10. CASE CloseStreams \/ Close
  BY <1>10, SameStarted, ShutdownAssumption, FS_Subset, FS_CardinalityType
     DEF CloseStreams, Close, started
<1>11. CASE Stopped
  <2>1. started' = started /\ ended' = ended
    BY <1>11, SameStarted DEF Stopped
  <2>2. started # {} /\ started = ended
    BY <1>11, AllEnded DEF Stopped, ended
  <2> QED
    BY <1>11, <2>1, <2>2 DEF Stopped
<1>12. CASE CloseWriter \/ Flushed \/ CloseStore
  BY <1>12, SameStarted DEF CloseWriter, Flushed, CloseStore
<1>13. CASE UNCHANGED state
  BY <1>13, SameStarted DEF state
<1> QED
  BY <1>1, <1>2, <1>3, <1>4, <1>5, <1>6, <1>7, <1>8, <1>9, <1>10, <1>11, <1>12, <1>13
     DEF ProcessNext, Main

\* main.go, run: when the store closes nobody applies to it, but the Followers
\* of requests that Shutdown did not wait for.
THEOREM ClosesAlone == ProcessSpec => StoreClosesAlone
<1>1. ProcessSpec => []RoleInv
  BY ProcessIsANode, AlwaysRoleInv, PTL
<1>2. TypeOK /\ CloseInv /\ WaitedInv /\ [ProcessNext]_<<vars, process, serving>>
        => CloseInv' /\ WaitedInv'
  BY CloseStep DEF state
<1>3. RoleInv => TypeOK
  BY DEF RoleInv
<1>4. ProcessSpec => [](CloseInv /\ WaitedInv)
  BY <1>1, <1>2, <1>3, CloseInit, PTL DEF ProcessSpec
<1>5. RoleInv /\ CloseInv /\ WaitedInv /\ [ProcessNext]_<<vars, process, serving>>
        => [open /\ ~open' =>
              \A f \in alive : waited # "all" /\ outlives(f)]_<<alive, open>>
  <2> SUFFICES ASSUME RoleInv, CloseInv, WaitedInv, [ProcessNext]_state,
                      open, ~open', NEW f \in alive
               PROVE  waited # "all" /\ outlives(f)
    BY DEF state
  <2>1. stage = "store"
    BY DEF ProcessNext, Main, WriteHandler, ArrivingWrite, Enqueue, WriterStores,
       Acknowledged, WaitRunsOut, OpenStream, StreamEnds, Promoting, Enlisting, Asking,
       FollowerApplies, FollowerEnds, Elsewhere, Signal, ServeFails, GaveUp,
       CloseStreams, Drained, Close, Stopping, Stopped, CloseWriter, Flushed,
       CloseStore, process, state
  <2>2. f \in Follower /\ f # None
    BY RoleAssumption DEF alive
  <2>3. f # stop => \E p \in Promotion : p \in stoppers(f)
    BY <2>1 DEF RoleInv, AliveIsOwned, stoppers, CloseInv, started, ended, Stopper
  <2>4. waited # "all"
    BY <2>1, <2>2, <2>3 DEF CloseInv, WaitedInv, stoppers
  <2> QED
    BY <2>3, <2>4 DEF outlives
<1> QED
  BY <1>1, <1>4, <1>5, PTL DEF ProcessSpec, StoreClosesAlone
=============================================================================
