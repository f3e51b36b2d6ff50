------------------------------- MODULE Lease -------------------------------
(***************************************************************************)
(* Mutual exclusion between controllers (cmd/litekv-controller/lease.go),  *)
(* and the two places of a round that do or do not ask whether the Lease   *)
(* is still fresh (controller.go).                                         *)
(*                                                                         *)
(* The Lease object lives in the Kubernetes API server: every write to it  *)
(* is a compare-and-swap on resourceVersion.  A controller's acquire is a  *)
(* GET and a PUT with time passing in between; time.Now() is read once, at *)
(* the start.  Only differences between readings of one controller's clock *)
(* are ever used, so one variable, time, stands for all the clocks: their  *)
(* offsets cannot matter, and their rates are taken to be equal.           *)
(* Every controller is started with one -lease-duration, so the seconds of *)
(* it that the object carries are a constant, and no part of lease.        *)
(***************************************************************************)
EXTENDS Integers, FiniteSets

CONSTANTS
    Controller,     \* the identities
    None,           \* no holder, no time
    LeaseDuration,  \* -lease-duration, in ticks
    LeaseSeconds,   \* what of it is written into the object: whole seconds
    MaxLatency,     \* how long a GET may take: the API client's Timeout
    MaxTime,        \* bound: the clock
    MaxVersion,     \* bound: writes to the Lease
    MaxLate,        \* bound: writes nobody waits for any more
    MaxStarts       \* bound: processes started again

ASSUME LeaseAssumption ==
    /\ None \notin Controller \cup Int
    /\ LeaseDuration \in Nat
    /\ LeaseSeconds \in 0..LeaseDuration
    /\ MaxLatency \in Nat
    /\ MaxTime \in Nat
    /\ MaxVersion \in Nat
    /\ MaxStarts \in Nat

VARIABLES
    time,
    lease,        \* the object: version 0 while it does not exist
    late,         \* PUTs whose sender gave up and that may yet be applied
    pc,           \* where each controller's round is
    start,        \* acquire's now
    read,         \* the resourceVersion acquire's GET returned
    held,         \* controller.held, None while zero
    seenVersion,  \* controller.seenVersion
    seenAt,       \* controller.seenAt
    starts        \* processes started again so far

object == <<lease, late>>
memory == <<held, seenVersion, seenAt>>
vars   == <<time, object, pc, start, read, memory, starts>>

goto(c, place) == pc' = [pc EXCEPT ![c] = place]

\* acquire returns, and its locals are gone.
return(c, place) ==
    /\ goto(c, place)
    /\ start' = [start EXCEPT ![c] = 0]
    /\ read' = [read EXCEPT ![c] = 0]

\* since(held) > leaseDuration/2, the other way round.
fresh(c) == held[c] # None /\ 2 * (time - held[c]) <= LeaseDuration

\* Mutant of stale: a version never seen may be stale too.
staleAtFirstSight(c) == start[c] - seenAt[c] > LeaseSeconds

\* lease.go stale, where nothing is written: the same version for longer
\* than the seconds it says it lasts.  A version not seen before is never stale.
stale(c) == /\ seenVersion[c] = lease.version
            /\ start[c] - seenAt[c] > LeaseSeconds

written(c) == [over |-> read[c], holder |-> c, renew |-> start[c]]

\* Mutant of applies: a PUT with no resourceVersion.
appliesAnyway(put) == TRUE

\* What the API server does with a write made over some version.
applies(put) == put.over = lease.version

applied(put) == [version |-> lease.version + 1, holder |-> put.holder,
                 renew |-> put.renew, expired |-> FALSE]

(***************************************************************************)
(* acquire.                                                                *)
(***************************************************************************)

Begin(c) ==
    /\ pc[c] = "idle"
    /\ start' = [start EXCEPT ![c] = time]
    /\ goto(c, "get")
    /\ UNCHANGED <<time, object, read, memory, starts>>

\* Mine, not there, or stale: write it.  Otherwise stand by, and note a
\* version not seen before with the time this round STARTED.
Get(c) ==
    /\ pc[c] = "get"
    /\ IF lease.version = 0 \/ lease.holder = c \/ stale(c)
       THEN /\ goto(c, "put")
            /\ read' = [read EXCEPT ![c] = lease.version]
            /\ UNCHANGED <<start, seenVersion, seenAt>>
       ELSE /\ return(c, "idle")
            /\ seenVersion' = [seenVersion EXCEPT ![c] = lease.version]
            /\ seenAt' = IF seenVersion[c] = lease.version THEN seenAt
                         ELSE [seenAt EXCEPT ![c] = start[c]]
    /\ UNCHANGED <<time, object, held, starts>>

\* Could not be read: not "so I hold it".
GetFails(c) ==
    /\ pc[c] = "get"
    /\ return(c, "idle")
    /\ UNCHANGED <<time, object, memory, starts>>

\* Create or update, compared and swapped; a conflict is standing by.
Put(c) ==
    /\ pc[c] = "put"
    /\ lease.version < MaxVersion
    /\ IF applies(written(c))
       THEN /\ lease' = applied(written(c))
            /\ held' = [held EXCEPT ![c] = start[c]]
            /\ return(c, "holding")
       ELSE /\ return(c, "idle")
            /\ UNCHANGED <<lease, held>>
    /\ UNCHANGED <<time, late, seenVersion, seenAt, starts>>

\* The answer never came.  The round does nothing; the write may be lost, or
\* may be applied at any later moment.
PutUnheard(c) ==
    /\ pc[c] = "put"
    /\ return(c, "idle")
    /\ \/ UNCHANGED late
       \/ Cardinality(late) < MaxLate /\ late' = late \cup {written(c)}
    /\ UNCHANGED <<time, lease, memory, starts>>

LatePut(put) ==
    /\ put \in late
    /\ lease.version < MaxVersion
    /\ late' = late \ {put}
    /\ lease' = IF applies(put) THEN applied(put) ELSE lease
    /\ UNCHANGED <<time, pc, start, read, memory, starts>>

(***************************************************************************)
(* What a round that holds the Lease does.                                 *)
(***************************************************************************)

\* choose asks whether the lease is still fresh before a failover promotes.
Failover(c) ==
    /\ pc[c] = "holding"
    /\ fresh(c)
    /\ goto(c, "idle")
    /\ UNCHANGED <<time, object, start, read, memory, starts>>

\* decide promotes a write target found following, enlists and relabels
\* without asking.
ActUnchecked(c) ==
    /\ pc[c] = "holding"
    /\ goto(c, "idle")
    /\ UNCHANGED <<time, object, start, read, memory, starts>>

(***************************************************************************)
(* Starting, stopping, dying.                                              *)
(***************************************************************************)

forget(c) ==
    /\ held' = [held EXCEPT ![c] = None]
    /\ seenVersion' = [seenVersion EXCEPT ![c] = 0]
    /\ seenAt' = [seenAt EXCEPT ![c] = 0]

\* run's context is done: dropLease, if it was ever held.
Stop(c) ==
    /\ pc[c] = "idle"
    /\ IF held[c] = None
       THEN /\ goto(c, "stopped")
            /\ forget(c)
       ELSE /\ goto(c, "dropGet")
            /\ UNCHANGED memory
    /\ UNCHANGED <<time, object, start, read, starts>>

DropGet(c) ==
    /\ pc[c] = "dropGet"
    /\ IF lease.holder = c
       THEN /\ goto(c, "dropPut")
            /\ read' = [read EXCEPT ![c] = lease.version]
            /\ UNCHANGED <<start, memory>>
       ELSE /\ return(c, "stopped")
            /\ forget(c)
    /\ UNCHANGED <<time, object, starts>>

\* Still in this name, renewed in the past.
DropPut(c) ==
    /\ pc[c] = "dropPut"
    /\ lease.version < MaxVersion
    /\ return(c, "stopped")
    /\ lease' = IF read[c] = lease.version
                THEN [version |-> lease.version + 1, holder |-> c, renew |-> 0,
                      expired |-> TRUE]
                ELSE lease
    /\ forget(c)
    /\ UNCHANGED <<time, late, starts>>

Crash(c) ==
    /\ pc[c] # "stopped"
    /\ return(c, "stopped")
    /\ forget(c)
    /\ UNCHANGED <<time, object, starts>>

\* The same identity, in a process that remembers nothing.
Restart(c) ==
    /\ pc[c] = "stopped"
    /\ starts < MaxStarts
    /\ starts' = starts + 1
    /\ goto(c, "idle")
    /\ UNCHANGED <<time, object, start, read, memory>>

\* Time passes, but not past the timeout of a GET.
Tick ==
    /\ time < MaxTime
    /\ \A c \in Controller : pc[c] = "get" => time < start[c] + MaxLatency
    /\ time' = time + 1
    /\ UNCHANGED <<object, pc, start, read, memory, starts>>

(***************************************************************************)
(* The specification.                                                      *)
(***************************************************************************)

Init ==
    /\ time = 0
    /\ lease = [version |-> 0, holder |-> None, renew |-> 0, expired |-> FALSE]
    /\ late = {}
    /\ pc = [c \in Controller |-> "idle"]
    /\ start = [c \in Controller |-> 0]
    /\ read = [c \in Controller |-> 0]
    /\ held = [c \in Controller |-> None]
    /\ seenVersion = [c \in Controller |-> 0]
    /\ seenAt = [c \in Controller |-> 0]
    /\ starts = 0

Step(c) ==
    \/ Begin(c) \/ Get(c) \/ GetFails(c) \/ Put(c) \/ PutUnheard(c)
    \/ Failover(c) \/ ActUnchecked(c)
    \/ Stop(c) \/ DropGet(c) \/ DropPut(c) \/ Crash(c) \/ Restart(c)

Next ==
    \/ \E c \in Controller : Step(c)
    \/ \E put \in late : LatePut(put)
    \/ Tick

Spec == Init /\ [][Next]_vars

(***************************************************************************)
(* Properties.                                                             *)
(***************************************************************************)

LeaseObject == [version : Nat, holder : Controller \cup {None}, renew : Nat,
                expired : BOOLEAN]
LatePuts    == [over : Nat, holder : Controller, renew : Nat]
Places      == {"idle", "get", "put", "holding", "dropGet", "dropPut", "stopped"}

\* Every variable holds what its Go type lets it hold.
TypeOK ==
    /\ time \in Nat
    /\ lease \in LeaseObject
    /\ late \subseteq LatePuts
    /\ pc \in [Controller -> Places]
    /\ start \in [Controller -> Nat]
    /\ read \in [Controller -> Nat]
    /\ held \in [Controller -> Nat \cup {None}]
    /\ seenVersion \in [Controller -> Nat]
    /\ seenAt \in [Controller -> Nat]
    /\ starts \in Nat

\* controller.go, held: "stops acting before its Lease could be handed on".
\* A controller that would still pass choose's check is the one the Lease
\* names, whatever took how long, so no two of them ever promote together.
FreshIsHolder == \A c \in Controller : fresh(c) => lease.holder = c

\* Less than a lease duration, less one GET, since the round that renewed it began.
entitled(c) == held[c] # None /\ time - held[c] <= LeaseSeconds - MaxLatency

\* controller.go, held, for whatever time a GET may take: a controller is the one
\* the Lease names for a lease duration less one GET.  choose counts half a lease
\* duration instead, which is no more than that if a GET takes at most the other
\* half (and the written seconds lose nothing).
EntitledIsHolder == \A c \in Controller : entitled(c) => lease.holder = c

\* The controllers that would still pass choose's check.
Acting == {c \in Controller : fresh(c)}

Promise == INSTANCE Handover WITH acting <- Acting

\* controller.go, held: a controller stops acting before its Lease is handed on.
\* From one that may act to another there is always a moment when none may.
HandsOver == Promise!Spec

\* The same for those that are entitled, with no premise on how long a GET takes.
Entitled == {c \in Controller : entitled(c)}

Margin == INSTANCE Handover WITH acting <- Entitled

HandsOverInTime == Margin!Spec

\* lease.go, stale: "slow to seize".  The Lease changes hands only when its
\* holder has not renewed for a lease duration, less what a slow GET can add
\* to the watcher's measure.
SeizedOnlyWhenSilent ==
    [][lease.version > 0 /\ lease'.holder # lease.holder =>
         time - lease.renew > LeaseSeconds - MaxLatency]_vars

\* lease.go, dropLease: "expired the moment it is read".  A controller that
\* reads a Lease given back goes on to take it.
GivenBackIsTaken ==
    [][\A c \in Controller : Get(c) /\ lease.expired => pc'[c] = "put"]_vars
=============================================================================
