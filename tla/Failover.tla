------------------------------ MODULE Failover ------------------------------
(***************************************************************************)
(* Automatic failover: the rounds of cmd/litekv-controller over a cluster  *)
(* of litekvd nodes.  A round looks (acquire and pods, the answers of ask  *)
(* one by one, service), decides (decide, choose) and acts (promote,       *)
(* point, label, enlist, tidy), and the cluster moves between any two of   *)
(* those: what a round acts on is what it saw, piece by piece.             *)
(*                                                                         *)
(* The Lease is the variable "holder" here.  It may move at any time;      *)
(* module Lease shows that a controller passing choose's freshness check   *)
(* has held it ever since its round began.  Unreachable time is an age in  *)
(* ticks, capped at Grace.  A node's store is the sequence of writes it    *)
(* holds; one write or one snapshot arrives per step, along the connection *)
(* the node has, which stays where it is when the Service moves.  What the *)
(* leader's registry counts it for is what it holds, or the whole of its   *)
(* first snapshot before any of that has come (see SemiSync).              *)
(***************************************************************************)
EXTENDS Positions, Sequences, SequencesExt, FiniteSets

CONSTANTS
    Node,            \* litekvd pods
    Birth,           \* the one whose StatefulSet has no -leader flag
    Controller,
    WaitFor,         \* -wait-for, the same on every node
    RequireWaitFor,  \* controller.requireWaitFor
    Grace,           \* -grace, in ticks
    Missable,        \* what may be missed: a "probe" of a live node, a round's
                     \* chance to "act", or a call that should "point" or "label"
    MaxMisses,       \* bound: misses
    Listed,          \* pod -> its place in the API server's list, by its name
    SlowReturn,      \* a dead pod comes back between rounds, not inside one
    EnlistedDies,    \* a node that was born leading may die once it follows
    EmptyStores,     \* the replicas have not yet had their first snapshot
    MaxTerm,         \* bound: terms
    MaxWrites,       \* bound: writes through the Service
    MaxCrashes,      \* bound: crashes
    None             \* silence, no time, no connection

ASSUME FailoverAssumption ==
    /\ Birth \in Node
    /\ WaitFor \in Nat
    /\ RequireWaitFor \in BOOLEAN
    /\ Grace \in Nat
    /\ Missable \subseteq {"probe", "act", "point", "label"} /\ MaxMisses \in Nat
    /\ Listed \in [Node -> Nat]
    /\ \A m, n \in Node : m # n => Listed[m] # Listed[n]
    /\ SlowReturn \in BOOLEAN
    /\ EnlistedDies \in BOOLEAN
    /\ EmptyStores \in BOOLEAN
    /\ None \notin Node \cup Nat \cup BOOLEAN

VARIABLES
    up,        \* node -> whether its process runs
    role,      \* node -> "leader" or "replica", as /v1/status says
    term,      \* node -> db.Term()
    fenced,    \* node -> db.Fenced()
    hist,      \* node -> the writes its store holds, in order
    applied,   \* node -> db.Applied()
    stream,    \* node -> the node it is streaming from, or None
    coming,    \* node -> the first snapshot its stream is to bring, or None
    acked,     \* writes answered 204
    written,   \* writes so far
    service,   \* the pod the write Service selects
    serving,   \* node -> whether it carries the serving label
    holder,    \* the controller that holds the Lease
    pc,        \* controller -> where its round is
    pods,      \* controller -> pod -> whether it was listed with the serving
               \* label, None where nobody answers at its address
    view,      \* controller -> what each node answered
    pointedAt, \* controller -> the pod it read from the Service
    since,     \* controller -> age of unreachableSince, None while zero
    todo,      \* controller -> nodes that have yet to answer it, or that its
               \* enlist or tidy loop has yet to visit
    best,      \* controller -> the node it promotes, None where that one is gone
    fresh,     \* controller -> whether choose still finds its Lease fresh
    answered,  \* history: controller -> ticks since a round of its own, still
               \* with the Lease, found the write target well
    crashes,   \* crashes so far
    misses     \* probes missed and calls refused so far

store == <<hist, applied>>
link  == <<stream, coming>>
nodes == <<up, role, term, fenced, store, link>>
kube  == <<service, serving>>
seen  == <<pods, view, pointedAt>>
round == <<pc, seen, todo, best, fresh>>
faults == <<crashes, misses>>
vars  == <<nodes, acked, written, kube, holder, round, since, answered, faults>>

missed(kind) == /\ kind \in Missable
                /\ misses < MaxMisses
                /\ misses' = misses + 1

(***************************************************************************)
(* The nodes.                                                              *)
(***************************************************************************)

\* A write through the Service, to a node that thinks it leads.
ClientWrite ==
    /\ written < MaxWrites
    /\ up[service] /\ role[service] = "leader" /\ ~fenced[service]
    /\ written' = written + 1
    /\ hist' = [hist EXCEPT ![service] = Append(@, written + 1)]
    /\ UNCHANGED <<up, role, term, fenced, applied, link, acked, kube, holder,
                   round, since, answered, faults>>

\* What the registry of r's leader counts r for: the writes it holds, or those of
\* the snapshot its stream was registered at before a byte of it was sent.
credited(r) == ToSet(hist[r]) \cup (IF coming[r] = None THEN {} ELSE ToSet(coming[r].writes))

\* One that died is counted until the leader's handler notices; which may be as
\* late as its pod's return.
holders(w, n) == {r \in Node : stream[r] = n /\ w \in credited(r)}

\* 204: as many followers as -wait-for asks for are counted as having it.
Acknowledge(n) ==
    /\ up[n] /\ role[n] = "leader"
    /\ \E w \in ToSet(hist[n]) \ acked :
          /\ Cardinality(holders(w, n)) >= WaitFor
          /\ acked' = acked \cup {w}
    /\ UNCHANGED <<nodes, written, kube, holder, round, since, answered, faults>>

\* A replica dials the Service.  A node that follows refuses it (itself
\* included); a newer term fences the leader that hears it; and one with nothing
\* applied gets a snapshot of what is there now, which a fenced leader refuses.
Dial(r) ==
    /\ up[r] /\ role[r] = "replica" /\ stream[r] = None
    /\ up[service] /\ role[service] = "leader"
    /\ applied[r].term > term[service] \/ applied[r] = Zero => ~fenced[service]
    /\ IF applied[r].term > term[service]
       THEN /\ fenced' = [fenced EXCEPT ![service] = TRUE]
            /\ UNCHANGED link
       ELSE /\ stream' = [stream EXCEPT ![r] = service]
            /\ coming' = [coming EXCEPT ![r] =
                  IF applied[r] = Zero
                  THEN [term |-> term[service], writes |-> hist[service]]
                  ELSE None]
            /\ UNCHANGED fenced
    /\ UNCHANGED <<up, role, term, store, acked, written, kube, holder, round,
                   since, answered, faults>>

\* The store of r becomes next, as its leader's was on term t.
takes(r, next, t) ==
    /\ hist' = [hist EXCEPT ![r] = next]
    /\ term' = [term EXCEPT ![r] = t]
    /\ applied' = [applied EXCEPT ![r] = [term |-> t, seq |-> Len(next) + 1]]
    /\ coming' = [coming EXCEPT ![r] = None]
    /\ UNCHANGED stream

\* What a stream brings is refused (ErrorFenced), or it has none; it ends.
drops(r) ==
    /\ stream' = [stream EXCEPT ![r] = None]
    /\ coming' = [coming EXCEPT ![r] = None]
    /\ UNCHANGED <<term, store>>

\* What the stream brings: the first snapshot, then the next write if this store
\* is a prefix of the leader's, otherwise a snapshot; the leader's term with
\* each.  What comes of an older term is refused.
Replicate(r) ==
    /\ up[r] /\ stream[r] # None
    /\ LET s == stream[r]
           first == coming[r] # None
           behind == IsPrefix(hist[r], hist[s])
           next == IF first THEN coming[r].writes
                   ELSE IF behind THEN SubSeq(hist[s], 1, Len(hist[r]) + 1)
                   ELSE hist[s]
           t == IF first THEN coming[r].term ELSE term[s]
       IN IF t < term[r]
          THEN drops(r)
          ELSE /\ first \/ (IF behind THEN Len(hist[r]) < Len(hist[s]) ELSE ~fenced[s])
               /\ takes(r, next, t)
    /\ UNCHANGED <<up, role, fenced, acked, written, kube, holder, round, since,
                   answered, faults>>

\* Who has asked n to lead and has not heard from it.
asking(n) == {c \in Controller : pc[c] \in {"promote", "repromote"} /\ best[c] = n}

\* The process dies, and every stream from it and whatever it was asked; the pod
\* that takes its place has another address.
Crash(n) ==
    /\ crashes < MaxCrashes
    /\ up[n]
    /\ n = Birth /\ role[n] = "replica" => EnlistedDies
    /\ crashes' = crashes + 1
    /\ up' = [up EXCEPT ![n] = FALSE]
    /\ stream' = [m \in Node |-> IF stream[m] = n THEN None ELSE stream[m]]
    /\ coming' = [m \in Node |-> IF stream[m] = n THEN None ELSE coming[m]]
    /\ pods' = [c \in Controller |-> [pods[c] EXCEPT ![n] = None]]
    /\ best' = [c \in Controller |-> IF c \in asking(n) THEN None ELSE best[c]]
    /\ UNCHANGED <<role, term, fenced, store, acked, written, kube, holder, pc, view,
                   pointedAt, todo, fresh, since, answered, misses>>

\* The pod is recreated from its template: born leading or with -leader, and
\* with the serving label on.  Its store is as it was.
Return(n) ==
    /\ ~up[n]
    /\ SlowReturn => \A c \in Controller : pc[c] = "idle"
    /\ up' = [up EXCEPT ![n] = TRUE]
    /\ role' = [role EXCEPT ![n] = IF n = Birth THEN "leader" ELSE "replica"]
    /\ serving' = [serving EXCEPT ![n] = TRUE]
    /\ drops(n)
    /\ UNCHANGED <<fenced, acked, written, service, holder, round, since, answered, faults>>

\* POST /v1/promote: stop following, raise the term.
promote(n) ==
    /\ role'   = [role EXCEPT ![n] = "leader"]
    /\ stream' = [stream EXCEPT ![n] = None]
    /\ coming' = [coming EXCEPT ![n] = None]
    /\ term'   = [term EXCEPT ![n] = @ + 1]
    /\ fenced' = [fenced EXCEPT ![n] = FALSE]

\* Mutant of joins: the comparison the wrong way round.
joinsAhead(n) == /\ role[n] = "leader"
                 /\ up[service] /\ term[n] >= term[service]

\* POST /v1/follow with the Service's name: refused to a node that already
\* follows, and to one ahead of whoever is behind the Service.
joins(n) == /\ role[n] = "leader"
            /\ up[service] /\ term[n] <= term[service]

(***************************************************************************)
(* A round: looking.                                                       *)
(***************************************************************************)

LeaseMoves(c) ==
    /\ holder # c
    /\ holder' = c
    /\ fresh' = [fresh EXCEPT ![holder] = FALSE]
    /\ UNCHANGED <<nodes, acked, written, kube, pc, seen, todo, best, since, answered,
                   faults>>

\* The round is over and what it saw is forgotten.
ends(c) ==
    /\ pc' = [pc EXCEPT ![c] = "idle"]
    /\ pods' = [pods EXCEPT ![c] = [n \in Node |-> None]]
    /\ view' = [view EXCEPT ![c] = [n \in Node |-> None]]
    /\ pointedAt' = [pointedAt EXCEPT ![c] = None]
    /\ todo' = [todo EXCEPT ![c] = {}]
    /\ best' = [best EXCEPT ![c] = None]
    /\ fresh' = [fresh EXCEPT ![c] = FALSE]

proceeds(c, place) ==
    /\ pc' = [pc EXCEPT ![c] = place]
    /\ UNCHANGED <<seen, fresh>>

statusOf(n, ready, labelled) ==
    [role |-> role[n], term |-> term[n], fenced |-> fenced[n], ready |-> ready,
     serving |-> labelled, at |-> [term |-> term[n], seq |-> applied[n].seq]]

\* once: the holder lists the pods, and every one of them is asked.
Look(c) ==
    /\ pc[c] = "idle"
    /\ holder = c
    /\ pods' = [pods EXCEPT ![c] = [n \in Node |-> IF up[n] THEN serving[n] ELSE None]]
    /\ view' = [view EXCEPT ![c] = [n \in Node |-> None]]
    /\ todo' = [todo EXCEPT ![c] = Node]
    /\ pc' = [pc EXCEPT ![c] = "ask"]
    /\ fresh' = [fresh EXCEPT ![c] = TRUE]
    /\ UNCHANGED <<nodes, acked, written, kube, holder, since, pointedAt, best, answered,
                   faults>>

\* ask: one of them says what it is by now.  Where nobody is at the address it was
\* listed with there is silence; from one that is there may be, or its pod was not
\* listed ready.
Answer(c) ==
    /\ pc[c] = "ask"
    /\ \E n \in todo[c] :
          /\ todo' = [todo EXCEPT ![c] = @ \ {n}]
          /\ IF pods[c][n] = None
             THEN UNCHANGED <<view, misses>>
             ELSE \/ /\ view' = [view EXCEPT ![c][n] = statusOf(n, TRUE, pods[c][n])]
                     /\ UNCHANGED misses
                  \/ /\ missed("probe")
                     /\ \/ UNCHANGED view
                        \/ view' = [view EXCEPT ![c][n] = statusOf(n, FALSE, pods[c][n])]
    /\ UNCHANGED <<nodes, acked, written, kube, holder, pc, pods, pointedAt, best,
                   fresh, since, answered, crashes>>

well(s) == s # None /\ ~s.fenced

\* once, at last: whom the write Service names by now.  Or the API server fails it,
\* here or before, and the round ends.
ReadService(c) ==
    /\ pc[c] = "ask"
    /\ todo[c] = {}
    /\ \/ /\ pointedAt' = [pointedAt EXCEPT ![c] = service]
          /\ pc' = [pc EXCEPT ![c] = "decide"]
          /\ answered' = [answered EXCEPT ![c] =
                IF fresh[c] /\ well(view[c][service]) THEN 0 ELSE @]
          /\ UNCHANGED <<pods, view, todo, best, fresh, misses>>
       \/ /\ missed("act")
          /\ ends(c)
          /\ UNCHANGED answered
    /\ UNCHANGED <<nodes, acked, written, kube, holder, since, crashes>>

(***************************************************************************)
(* decide.                                                                 *)
(***************************************************************************)

Old(c)  == pointedAt[c]
Said(c) == view[c][Old(c)]

\* n is asked to lead, by a client without a timeout.
asks(c, n, place) ==
    /\ best' = [best EXCEPT ![c] = IF pods[c][n] # None THEN n ELSE None]
    /\ proceeds(c, place)

\* The write target follows instead of leading: promote it again.
Repromote(c) ==
    /\ pc[c] = "decide"
    /\ Said(c) # None
    /\ Said(c).role # "leader"
    /\ since' = [since EXCEPT ![c] = None]
    /\ asks(c, Old(c), "repromote")
    /\ UNCHANGED <<nodes, acked, written, kube, holder, todo, answered, faults>>

\* Mutant of Healthy: terms are not compared.
HealthyWithoutTerms(c) ==
    /\ pc[c] = "decide"
    /\ Said(c) # None
    /\ Said(c).role = "leader"
    /\ ~Said(c).fenced
    /\ since' = [since EXCEPT ![c] = None]
    /\ todo' = [todo EXCEPT ![c] = {n \in Node :
                  /\ n # Old(c)
                  /\ view[c][n] # None
                  /\ view[c][n].ready
                  /\ view[c][n].role = "leader"}]
    /\ proceeds(c, "enlist")
    /\ UNCHANGED <<nodes, acked, written, kube, holder, best, answered, faults>>

\* The write target is well: enlist whoever else leads on an older term.
Healthy(c) ==
    /\ pc[c] = "decide"
    /\ Said(c) # None
    /\ Said(c).role = "leader"
    /\ ~Said(c).fenced
    /\ since' = [since EXCEPT ![c] = None]
    /\ todo' = [todo EXCEPT ![c] = {n \in Node :
                  /\ n # Old(c)
                  /\ view[c][n] # None
                  /\ view[c][n].ready
                  /\ view[c][n].role = "leader"
                  /\ view[c][n].term < Said(c).term}]
    /\ proceeds(c, "enlist")
    /\ UNCHANGED <<nodes, acked, written, kube, holder, best, answered, faults>>

Enlist(c) ==
    /\ pc[c] = "enlist"
    /\ \E n \in todo[c] :
          /\ todo' = [todo EXCEPT ![c] = @ \ {n}]
          /\ role' = IF pods[c][n] # None /\ joins(n)
                     THEN [role EXCEPT ![n] = "replica"] ELSE role
    /\ UNCHANGED <<up, term, fenced, store, link, acked, written, kube, holder,
                   pc, seen, best, fresh, since, answered, faults>>

should(c, n) == n = Old(c) \/ view[c][n].role = "replica"

StartTidy(c) ==
    /\ pc[c] = "enlist"
    /\ todo[c] = {}
    /\ todo' = [todo EXCEPT ![c] = {n \in Node :
                  /\ view[c][n] # None
                  /\ view[c][n].ready
                  /\ should(c, n) # view[c][n].serving}]
    /\ proceeds(c, "tidy")
    /\ UNCHANGED <<nodes, acked, written, kube, holder, best, since, answered, faults>>

\* One label written by tidy.  The API server may refuse one and the rest of
\* the loop is left for the next round.
Tidy(c) ==
    /\ pc[c] = "tidy"
    /\ \/ /\ todo[c] # {}
          /\ \E n \in todo[c] :
                /\ todo' = [todo EXCEPT ![c] = @ \ {n}]
                /\ serving' = [serving EXCEPT ![n] = should(c, n)]
          /\ UNCHANGED <<pc, seen, best, fresh, misses>>
       \/ /\ IF todo[c] = {} THEN UNCHANGED misses ELSE missed("label")
          /\ ends(c)
          /\ UNCHANGED serving
    /\ UNCHANGED <<nodes, acked, written, service, holder, since, answered, crashes>>

Suspect(c) == Said(c) # None => Said(c).role = "leader" /\ Said(c).fenced

waited(c) == since[c] # None /\ (Said(c) = None => since[c] >= Grace)

\* The first round to find it gone starts the clock and does nothing else;
\* within the grace nothing is done, unless it is fenced.
StillWaiting(c) ==
    /\ pc[c] = "decide"
    /\ Suspect(c)
    /\ ~waited(c)
    /\ since' = [since EXCEPT ![c] = IF @ = None THEN 0 ELSE @]
    /\ ends(c)
    /\ UNCHANGED <<nodes, acked, written, kube, holder, answered, faults>>

candidates(c) == {n \in Node : /\ n # Old(c)
                               /\ view[c][n] # None
                               /\ view[c][n].ready
                               /\ ~view[c][n].fenced}

\* Mutant of isBest: whoever answered.
isAny(c, n) == n \in candidates(c)

\* Mutant of isBest: any of those that got furthest.
isBestInAnyOrder(c, n) ==
    /\ n \in candidates(c)
    /\ \A m \in candidates(c) : ~further(view[c][m].at, view[c][n].at)

\* choose: the first in the list of those that got furthest.
isBest(c, n) ==
    /\ n \in candidates(c)
    /\ \A m \in candidates(c) :
          /\ ~further(view[c][m].at, view[c][n].at)
          /\ further(view[c][n].at, view[c][m].at) \/ Listed[n] <= Listed[m]

DueForFailover(c) ==
    /\ pc[c] = "decide"
    /\ Suspect(c)
    /\ waited(c)

\* No candidate, an asynchronous cluster, or a lease no longer fresh.  A
\* holder may have been slow too.
Refuse(c) ==
    /\ DueForFailover(c)
    /\ IF candidates(c) = {} \/ (RequireWaitFor /\ WaitFor = 0) \/ ~fresh[c]
       THEN UNCHANGED misses
       ELSE missed("act")
    /\ ends(c)
    /\ UNCHANGED <<nodes, acked, written, kube, holder, since, answered, crashes>>

\* Promote first.
Promote(c) ==
    /\ DueForFailover(c)
    /\ ~(RequireWaitFor /\ WaitFor = 0)
    /\ fresh[c]
    /\ \E n \in candidates(c) : isBest(c, n) /\ asks(c, n, "promote")
    /\ UNCHANGED <<nodes, acked, written, kube, holder, since, todo, answered, faults>>

\* The node that was asked leads and says so, whoever holds the Lease by then.
\* One that has died meanwhile is an error, and the round ends.
PromoteArrives(c) ==
    /\ pc[c] \in {"promote", "repromote"}
    /\ IF best[c] = None
       THEN UNCHANGED <<role, link, term, fenced>>
       ELSE term[best[c]] < MaxTerm /\ promote(best[c])
    /\ IF pc[c] = "promote" /\ best[c] # None
       THEN proceeds(c, "point") /\ UNCHANGED <<todo, best>>
       ELSE ends(c)
    /\ UNCHANGED <<up, store, acked, written, kube, holder, since, answered, faults>>

\* Then move the traffic.  Where the API server refuses, or its answer is lost,
\* unreachableSince stays and the next round starts from what it finds.
Point(c) ==
    /\ pc[c] = "point"
    /\ \/ /\ service' = best[c]
          /\ proceeds(c, "label")
          /\ UNCHANGED <<todo, best, misses>>
       \/ /\ missed("point")
          /\ service' \in {service, best[c]}
          /\ ends(c)
    /\ UNCHANGED <<nodes, acked, written, serving, holder, since, answered, crashes>>

\* And take the old one out of the read path; failing at that is only logged.
LabelOld(c) ==
    /\ pc[c] = "label"
    /\ \/ serving' = [serving EXCEPT ![Old(c)] = FALSE] /\ UNCHANGED misses
       \/ missed("label") /\ UNCHANGED serving
    /\ since' = [since EXCEPT ![c] = None]
    /\ ends(c)
    /\ UNCHANGED <<nodes, acked, written, service, holder, answered, crashes>>

\* Time passes.
Tick ==
    /\ since' = [c \in Controller |->
                   IF since[c] = None \/ since[c] = Grace THEN since[c]
                   ELSE since[c] + 1]
    /\ answered' = [c \in Controller |->
                      IF answered[c] = Grace THEN Grace ELSE answered[c] + 1]
    /\ UNCHANGED <<nodes, acked, written, kube, holder, round, faults>>

(***************************************************************************)
(* The specification.                                                      *)
(***************************************************************************)

Init ==
    /\ up = [n \in Node |-> TRUE]
    /\ role = [n \in Node |-> IF n = Birth THEN "leader" ELSE "replica"]
    /\ term = [n \in Node |-> 0]
    /\ fenced = [n \in Node |-> FALSE]
    /\ hist = [n \in Node |-> <<>>]
    /\ applied = [n \in Node |-> IF n = Birth \/ EmptyStores THEN Zero
                                ELSE [term |-> 0, seq |-> 1]]
    /\ stream = [n \in Node |-> None]
    /\ coming = [n \in Node |-> None]
    /\ acked = {}
    /\ written = 0
    /\ service = Birth
    /\ serving = [n \in Node |-> TRUE]
    /\ holder \in Controller
    /\ pc = [c \in Controller |-> "idle"]
    /\ pods = [c \in Controller |-> [n \in Node |-> None]]
    /\ view = [c \in Controller |-> [n \in Node |-> None]]
    /\ pointedAt = [c \in Controller |-> None]
    /\ since = [c \in Controller |-> None]
    /\ todo = [c \in Controller |-> {}]
    /\ best = [c \in Controller |-> None]
    /\ fresh = [c \in Controller |-> FALSE]
    /\ answered = [c \in Controller |-> 0]
    /\ crashes = 0 /\ misses = 0

NodeStep(n) ==
    Acknowledge(n) \/ Dial(n) \/ Replicate(n) \/ Crash(n) \/ Return(n)

Looking(c) == Look(c) \/ Answer(c) \/ ReadService(c)

Decision(c) ==
    \/ Repromote(c) \/ Healthy(c) \/ Enlist(c) \/ StartTidy(c) \/ Tidy(c)
    \/ StillWaiting(c) \/ Refuse(c) \/ Promote(c) \/ PromoteArrives(c)
    \/ Point(c) \/ LabelOld(c)

Next ==
    \/ ClientWrite
    \/ \E n \in Node : NodeStep(n)
    \/ \E c \in Controller : Looking(c) \/ Decision(c) \/ LeaseMoves(c)
    \/ Tick

Spec == Init /\ [][Next]_vars

\* Pods are recreated, replicas redial, time passes, and whoever holds the
\* Lease goes round: the ticker in run.
FairSpec ==
    /\ Spec
    /\ \A n \in Node : WF_vars(Return(n)) /\ WF_vars(Dial(n)) /\ WF_vars(Replicate(n))
    /\ \A c \in Controller : WF_vars(Looking(c)) /\ WF_vars(Decision(c))
    /\ WF_vars(Tick /\ vars' # vars)

(***************************************************************************)
(* Properties.                                                             *)
(***************************************************************************)

Status == [role : {"leader", "replica"}, term : Nat, fenced : BOOLEAN,
           ready : BOOLEAN, serving : BOOLEAN, at : Position]

Snapshot == [term : Nat, writes : Seq(Nat)]

ASSUME SilenceAssumption == /\ None \notin Status
                            /\ None \notin Snapshot

\* Every variable holds what the Go types and the API objects let it hold.
TypeOK ==
    /\ up \in [Node -> BOOLEAN]
    /\ role \in [Node -> {"leader", "replica"}]
    /\ term \in [Node -> Nat]
    /\ fenced \in [Node -> BOOLEAN]
    /\ hist \in [Node -> Seq(1 .. written)]
    /\ applied \in [Node -> Position]
    /\ stream \in [Node -> Node \cup {None}]
    /\ coming \in [Node -> Snapshot \cup {None}]
    /\ \A n \in Node : coming[n] # None => coming[n].writes \in Seq(1 .. written)
    /\ acked \subseteq 1 .. written
    /\ written \in Nat
    /\ service \in Node
    /\ serving \in [Node -> BOOLEAN]
    /\ holder \in Controller
    /\ pc \in [Controller -> {"idle", "ask", "decide", "enlist", "tidy", "promote",
                           "repromote", "point", "label"}]
    /\ pods \in [Controller -> [Node -> BOOLEAN \cup {None}]]
    /\ view \in [Controller -> [Node -> Status \cup {None}]]
    /\ pointedAt \in [Controller -> Node \cup {None}]
    /\ since \in [Controller -> (0 .. Grace) \cup {None}]
    /\ todo \in [Controller -> SUBSET Node]
    /\ best \in [Controller -> Node \cup {None}]
    /\ fresh \in [Controller -> BOOLEAN]
    /\ answered \in [Controller -> 0 .. Grace]
    /\ crashes \in Nat /\ misses \in Nat

\* controller.go, choose: "promoting a caught-up follower cannot lose one".
\* Whoever the write Service names, as a leader, holds every write that was
\* answered 204, through failovers, returns and enlistments.
AckedSurvives == role[service] = "leader" => acked \subseteq ToSet(hist[service])

\* No two nodes lead on the same term: "one promotion" made each leader.
OneLeaderPerTerm ==
    \A m, n \in Node :
        /\ m # n
        /\ role[m] = "leader" /\ role[n] = "leader"
        /\ ~fenced[m] /\ ~fenced[n]
        => term[m] # term[n]

\* controller.go, unreachableSince: "a run of failures rather than an
\* aggregate of them".  A node is promoted over a silent leader only when no
\* round, of any controller, has seen that leader well for the whole of the grace.
GraceIsARun ==
    [][\A c, d \in Controller :
         Promote(c) /\ Said(c) = None => answered[d] >= Grace]_vars

\* What is left of it where the Lease moves between rounds: no round of the
\* controller that promotes has seen the leader well for that long, though it may
\* have stood by in between, missed answers, or had its Service moved.
GraceIsItsOwnRun ==
    [][\A c \in Controller :
         Promote(c) /\ Said(c) = None => answered[c] >= Grace]_vars

\* controller.go, enlist: the leader "must never be told to follow anything,
\* least of all itself": whoever the write Service names is not enlisted, by a
\* round that took it to name another included.
LeaderIsNeverEnlisted ==
    [][\A c \in Controller : Enlist(c) => role'[service] = role[service]]_vars

\* controller.go, choose: acting on an old lease "is how two controllers come to
\* overlap", and half of its duration the margin.  Whoever is promoted is
\* promoted by the controller that holds the Lease.
PromotedByTheHolder ==
    [][\A c \in Controller : PromoteArrives(c) /\ best[c] # None => holder = c]_vars

\* replica.go, streamReplica: "there is no chaining in the protocol".  Whoever
\* a replica streams from is a leader, and no replica serves another.
NoChaining == \A r \in Node : stream[r] # None => role[stream[r]] = "leader"

\* Once pods stop dying, the write Service comes to name a node that leads and
\* takes writes, every other node follows and holds just what it holds, and
\* all of them serve reads: no failover costs the cluster a replica.
Settled ==
    /\ up[service] /\ role[service] = "leader" /\ ~fenced[service]
    /\ \A n \in Node \ {service} : role[n] = "replica" /\ hist[n] = hist[service]
    /\ \A n \in Node : serving[n]

Settles == <>[]Settled
=============================================================================
