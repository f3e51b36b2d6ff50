---------------------------- MODULE LeaseProofs ----------------------------
(***************************************************************************)
(* What module Lease keeps for every number of controllers, every lease    *)
(* duration and every latency, proved from one inductive invariant.        *)
(***************************************************************************)
EXTENDS Lease, TLAPS

(***************************************************************************)
(* The inductive invariant.                                                *)
(***************************************************************************)

\* Nothing was stamped in the future, and a GET under way is not too old.
Stamps ==
    /\ lease.renew <= time
    /\ \A put \in late : put.renew <= time
    /\ \A c \in Controller :
          /\ start[c] <= time
          /\ held[c] # None => held[c] <= time
          /\ pc[c] = "get" => time <= start[c] + MaxLatency

\* Nobody knows of a version the object has not had.
Versions ==
    /\ lease.version = 0 => lease.holder = None
    /\ \A put \in late : put.over <= lease.version
    /\ \A c \in Controller : read[c] <= lease.version /\ seenVersion[c] <= lease.version

\* A controller that holds the Lease has held it no later than it was renewed,
\* and what it may yet write over it renews it later still.
HeldThenRenewed ==
    /\ \A c \in Controller :
          /\ held[c] # None /\ lease.holder = c => held[c] <= lease.renew
          /\ held[c] # None /\ pc[c] \in {"get", "put"} => held[c] <= start[c]
    /\ \A put \in late :
          held[put.holder] # None /\ put.over = lease.version
             => held[put.holder] <= put.renew

\* A watcher cannot have seen a version much before it was written.
SeenAfterRenewed ==
    \A c \in Controller :
        lease.version > 0 /\ seenVersion[c] = lease.version
           => lease.renew <= seenAt[c] + MaxLatency

Silent == time - lease.renew > LeaseSeconds - MaxLatency

\* A write that would take the Lease from its holder is on its way only when
\* the holder has been silent; and whoever gives the Lease back holds it.
TakenWhenSilent ==
    /\ \A c \in Controller :
          pc[c] = "put" /\ read[c] = lease.version /\ lease.version > 0
             /\ lease.holder # c => Silent
    /\ \A put \in late :
          put.over = lease.version /\ lease.version > 0 /\ lease.holder # put.holder
             => Silent
    /\ \A c \in Controller :
          pc[c] = "dropPut" /\ read[c] = lease.version => lease.holder = c

Known == /\ TypeOK /\ Stamps /\ Versions /\ HeldThenRenewed
         /\ SeenAfterRenewed /\ TakenWhenSilent

(***************************************************************************)
(* Every variable keeps its type.                                          *)
(***************************************************************************)

\* The first state is typed.
LEMMA TypeInit == Init => TypeOK
BY LeaseAssumption DEF Init, TypeOK, LeaseObject, LatePuts, Places

\* So is what each step leads to.
LEMMA TypeStep == TypeOK /\ [Next]_vars => TypeOK'
<1> SUFFICES ASSUME TypeOK, [Next]_vars PROVE TypeOK'
  OBVIOUS
<1> USE LeaseAssumption
<1> USE DEF TypeOK, LeaseObject, LatePuts, Places, object, memory, goto, return,
            forget, written, applied, applies
<1>1. ASSUME NEW c \in Controller, Begin(c) PROVE TypeOK'
  BY <1>1 DEF Begin
<1>2. ASSUME NEW c \in Controller, Get(c) PROVE TypeOK'
  BY <1>2 DEF Get
<1>3. ASSUME NEW c \in Controller, GetFails(c) PROVE TypeOK'
  BY <1>3 DEF GetFails
<1>4. ASSUME NEW c \in Controller, Put(c) PROVE TypeOK'
  <2>1. CASE applies(written(c))
    <3>1. lease' = [version |-> lease.version + 1, holder |-> c,
                    renew |-> start[c], expired |-> FALSE]
      BY <1>4, <2>1 DEF Put
    <3>2. held' \in [Controller -> Nat \cup {None}]
      BY <1>4, <2>1 DEF Put
    <3> QED
      BY <1>4, <2>1, <3>1, <3>2 DEF Put
  <2>2. CASE ~applies(written(c))
    BY <1>4, <2>2 DEF Put
  <2> QED
    BY <2>1, <2>2
<1>5. ASSUME NEW c \in Controller, PutUnheard(c) PROVE TypeOK'
  BY <1>5 DEF PutUnheard
<1>6. ASSUME NEW c \in Controller, Failover(c) \/ ActUnchecked(c) PROVE TypeOK'
  BY <1>6 DEF Failover, ActUnchecked
<1>7. ASSUME NEW c \in Controller, Stop(c) PROVE TypeOK'
  BY <1>7 DEF Stop
<1>8. ASSUME NEW c \in Controller, DropGet(c) PROVE TypeOK'
  BY <1>8 DEF DropGet
<1>9. ASSUME NEW c \in Controller, DropPut(c) PROVE TypeOK'
  BY <1>9 DEF DropPut
<1>10. ASSUME NEW c \in Controller, Crash(c) \/ Restart(c) PROVE TypeOK'
  BY <1>10 DEF Crash, Restart
<1>11. ASSUME NEW put \in late, LatePut(put) PROVE TypeOK'
  BY <1>11 DEF LatePut
<1>12. CASE Tick
  BY <1>12 DEF Tick
<1>13. CASE UNCHANGED vars
  BY <1>13 DEF vars
<1> QED
  BY <1>1, <1>2, <1>3, <1>4, <1>5, <1>6, <1>7, <1>8, <1>9, <1>10, <1>11, <1>12,
     <1>13 DEF Next, Step

(***************************************************************************)
(* So does every part of the invariant.                                    *)
(***************************************************************************)

\* Stamps are kept: they are readings of the clock.
LEMMA StampsStep == Known /\ TypeOK' /\ [Next]_vars => Stamps'
<1> SUFFICES ASSUME Known, TypeOK', [Next]_vars PROVE Stamps'
  OBVIOUS
<1> USE LeaseAssumption
<1> USE DEF Known, TypeOK, LeaseObject, LatePuts, Places, object, memory, goto, return,
            forget, written, applied, applies, Stamps
<1>1. ASSUME NEW c \in Controller, Begin(c) PROVE Stamps'
  BY <1>1 DEF Begin
<1>2. ASSUME NEW c \in Controller, Get(c) PROVE Stamps'
  BY <1>2 DEF Get
<1>3. ASSUME NEW c \in Controller, GetFails(c) PROVE Stamps'
  BY <1>3 DEF GetFails
<1>4. ASSUME NEW c \in Controller, Put(c) PROVE Stamps'
  BY <1>4 DEF Put
<1>5. ASSUME NEW c \in Controller, PutUnheard(c) PROVE Stamps'
  BY <1>5 DEF PutUnheard
<1>6. ASSUME NEW c \in Controller, Failover(c) \/ ActUnchecked(c) PROVE Stamps'
  BY <1>6 DEF Failover, ActUnchecked
<1>7. ASSUME NEW c \in Controller, Stop(c) PROVE Stamps'
  BY <1>7 DEF Stop
<1>8. ASSUME NEW c \in Controller, DropGet(c) PROVE Stamps'
  BY <1>8 DEF DropGet
<1>9. ASSUME NEW c \in Controller, DropPut(c) PROVE Stamps'
  BY <1>9 DEF DropPut
<1>10. ASSUME NEW c \in Controller, Crash(c) \/ Restart(c) PROVE Stamps'
  BY <1>10 DEF Crash, Restart
<1>11. ASSUME NEW put \in late, LatePut(put) PROVE Stamps'
  BY <1>11 DEF LatePut
<1>12. CASE Tick
  BY <1>12 DEF Tick
<1>13. CASE UNCHANGED vars
  BY <1>13 DEF vars
<1> QED
  BY <1>1, <1>2, <1>3, <1>4, <1>5, <1>6, <1>7, <1>8, <1>9, <1>10, <1>11,
     <1>12, <1>13 DEF Next, Step

\* Versions only grow, and are learnt from the object.
LEMMA VersionsStep == Known /\ TypeOK' /\ [Next]_vars => Versions'
<1> SUFFICES ASSUME Known, TypeOK', [Next]_vars PROVE Versions'
  OBVIOUS
<1> USE LeaseAssumption
<1> USE DEF Known, TypeOK, LeaseObject, LatePuts, Places, object, memory, goto, return,
            forget, written, applied, applies, Versions
<1>1. ASSUME NEW c \in Controller, Begin(c) PROVE Versions'
  BY <1>1 DEF Begin
<1>2. ASSUME NEW c \in Controller, Get(c) PROVE Versions'
  BY <1>2 DEF Get
<1>3. ASSUME NEW c \in Controller, GetFails(c) PROVE Versions'
  BY <1>3 DEF GetFails
<1>4. ASSUME NEW c \in Controller, Put(c) PROVE Versions'
  BY <1>4 DEF Put
<1>5. ASSUME NEW c \in Controller, PutUnheard(c) PROVE Versions'
  BY <1>5 DEF PutUnheard
<1>6. ASSUME NEW c \in Controller, Failover(c) \/ ActUnchecked(c) PROVE Versions'
  BY <1>6 DEF Failover, ActUnchecked
<1>7. ASSUME NEW c \in Controller, Stop(c) PROVE Versions'
  BY <1>7 DEF Stop
<1>8. ASSUME NEW c \in Controller, DropGet(c) PROVE Versions'
  BY <1>8 DEF DropGet
<1>9. ASSUME NEW c \in Controller, DropPut(c) PROVE Versions'
  BY <1>9 DEF DropPut
<1>10. ASSUME NEW c \in Controller, Crash(c) \/ Restart(c) PROVE Versions'
  BY <1>10 DEF Crash, Restart
<1>11. ASSUME NEW put \in late, LatePut(put) PROVE Versions'
  BY <1>11 DEF LatePut
<1>12. CASE Tick
  BY <1>12 DEF Tick
<1>13. CASE UNCHANGED vars
  BY <1>13 DEF vars
<1> QED
  BY <1>1, <1>2, <1>3, <1>4, <1>5, <1>6, <1>7, <1>8, <1>9, <1>10, <1>11,
     <1>12, <1>13 DEF Next, Step

\* A renewal is stamped when its round began, after every earlier one.
LEMMA HeldStep == Known /\ TypeOK' /\ [Next]_vars => HeldThenRenewed'
<1> SUFFICES ASSUME Known, TypeOK', [Next]_vars PROVE HeldThenRenewed'
  OBVIOUS
<1> USE LeaseAssumption
<1> USE DEF Known, TypeOK, LeaseObject, LatePuts, Places, object, memory, goto, return,
            forget, written, applied, applies,
            Stamps, Versions, HeldThenRenewed
<1>1. ASSUME NEW c \in Controller, Begin(c) PROVE HeldThenRenewed'
  BY <1>1 DEF Begin
<1>2. ASSUME NEW c \in Controller, Get(c) PROVE HeldThenRenewed'
  BY <1>2 DEF Get
<1>3. ASSUME NEW c \in Controller, GetFails(c) PROVE HeldThenRenewed'
  BY <1>3 DEF GetFails
<1>4. ASSUME NEW c \in Controller, Put(c) PROVE HeldThenRenewed'
  BY <1>4 DEF Put
<1>5. ASSUME NEW c \in Controller, PutUnheard(c) PROVE HeldThenRenewed'
  BY <1>5 DEF PutUnheard
<1>6. ASSUME NEW c \in Controller, Failover(c) \/ ActUnchecked(c) PROVE HeldThenRenewed'
  BY <1>6 DEF Failover, ActUnchecked
<1>7. ASSUME NEW c \in Controller, Stop(c) PROVE HeldThenRenewed'
  BY <1>7 DEF Stop
<1>8. ASSUME NEW c \in Controller, DropGet(c) PROVE HeldThenRenewed'
  BY <1>8 DEF DropGet
<1>9. ASSUME NEW c \in Controller, DropPut(c) PROVE HeldThenRenewed'
  BY <1>9 DEF DropPut
<1>10. ASSUME NEW c \in Controller, Crash(c) \/ Restart(c) PROVE HeldThenRenewed'
  BY <1>10 DEF Crash, Restart
<1>11. ASSUME NEW put \in late, LatePut(put) PROVE HeldThenRenewed'
  BY <1>11 DEF LatePut
<1>12. CASE Tick
  BY <1>12 DEF Tick
<1>13. CASE UNCHANGED vars
  BY <1>13 DEF vars
<1> QED
  BY <1>1, <1>2, <1>3, <1>4, <1>5, <1>6, <1>7, <1>8, <1>9, <1>10, <1>11,
     <1>12, <1>13 DEF Next, Step

\* A version is seen by a GET that began MaxLatency before at most.
LEMMA SeenStep == Known /\ TypeOK' /\ [Next]_vars => SeenAfterRenewed'
<1> SUFFICES ASSUME Known, TypeOK', [Next]_vars PROVE SeenAfterRenewed'
  OBVIOUS
<1> USE LeaseAssumption
<1> USE DEF Known, TypeOK, LeaseObject, LatePuts, Places, object, memory, goto, return,
            forget, written, applied, applies,
            Stamps, Versions, SeenAfterRenewed
<1>1. ASSUME NEW c \in Controller, Begin(c) PROVE SeenAfterRenewed'
  BY <1>1 DEF Begin
<1>2. ASSUME NEW c \in Controller, Get(c) PROVE SeenAfterRenewed'
  BY <1>2 DEF Get
<1>3. ASSUME NEW c \in Controller, GetFails(c) PROVE SeenAfterRenewed'
  BY <1>3 DEF GetFails
<1>4. ASSUME NEW c \in Controller, Put(c) PROVE SeenAfterRenewed'
  BY <1>4 DEF Put
<1>5. ASSUME NEW c \in Controller, PutUnheard(c) PROVE SeenAfterRenewed'
  BY <1>5 DEF PutUnheard
<1>6. ASSUME NEW c \in Controller, Failover(c) \/ ActUnchecked(c) PROVE SeenAfterRenewed'
  BY <1>6 DEF Failover, ActUnchecked
<1>7. ASSUME NEW c \in Controller, Stop(c) PROVE SeenAfterRenewed'
  BY <1>7 DEF Stop
<1>8. ASSUME NEW c \in Controller, DropGet(c) PROVE SeenAfterRenewed'
  BY <1>8 DEF DropGet
<1>9. ASSUME NEW c \in Controller, DropPut(c) PROVE SeenAfterRenewed'
  BY <1>9 DEF DropPut
<1>10. ASSUME NEW c \in Controller, Crash(c) \/ Restart(c) PROVE SeenAfterRenewed'
  BY <1>10 DEF Crash, Restart
<1>11. ASSUME NEW put \in late, LatePut(put) PROVE SeenAfterRenewed'
  BY <1>11 DEF LatePut
<1>12. CASE Tick
  BY <1>12 DEF Tick
<1>13. CASE UNCHANGED vars
  BY <1>13 DEF vars
<1> QED
  BY <1>1, <1>2, <1>3, <1>4, <1>5, <1>6, <1>7, <1>8, <1>9, <1>10, <1>11,
     <1>12, <1>13 DEF Next, Step

\* Only a stale Lease is taken, and what is stale is silent.
LEMMA TakenStep == Known /\ TypeOK' /\ [Next]_vars => TakenWhenSilent'
<1> SUFFICES ASSUME Known, TypeOK', [Next]_vars PROVE TakenWhenSilent'
  OBVIOUS
<1> USE LeaseAssumption
<1> USE DEF Known, TypeOK, LeaseObject, LatePuts, Places, object, memory, goto, return,
            forget, written, applied, applies,
            Stamps, Versions, SeenAfterRenewed, TakenWhenSilent, Silent, stale
<1>1. ASSUME NEW c \in Controller, Begin(c) PROVE TakenWhenSilent'
  BY <1>1 DEF Begin
<1>2. ASSUME NEW c \in Controller, Get(c) PROVE TakenWhenSilent'
  BY <1>2 DEF Get
<1>3. ASSUME NEW c \in Controller, GetFails(c) PROVE TakenWhenSilent'
  BY <1>3 DEF GetFails
<1>4. ASSUME NEW c \in Controller, Put(c) PROVE TakenWhenSilent'
  BY <1>4 DEF Put
<1>5. ASSUME NEW c \in Controller, PutUnheard(c) PROVE TakenWhenSilent'
  BY <1>5 DEF PutUnheard
<1>6. ASSUME NEW c \in Controller, Failover(c) \/ ActUnchecked(c) PROVE TakenWhenSilent'
  BY <1>6 DEF Failover, ActUnchecked
<1>7. ASSUME NEW c \in Controller, Stop(c) PROVE TakenWhenSilent'
  BY <1>7 DEF Stop
<1>8. ASSUME NEW c \in Controller, DropGet(c) PROVE TakenWhenSilent'
  BY <1>8 DEF DropGet
<1>9. ASSUME NEW c \in Controller, DropPut(c) PROVE TakenWhenSilent'
  BY <1>9 DEF DropPut
<1>10. ASSUME NEW c \in Controller, Crash(c) \/ Restart(c) PROVE TakenWhenSilent'
  BY <1>10 DEF Crash, Restart
<1>11. ASSUME NEW put \in late, LatePut(put) PROVE TakenWhenSilent'
  BY <1>11 DEF LatePut
<1>12. CASE Tick
  BY <1>12 DEF Tick
<1>13. CASE UNCHANGED vars
  BY <1>13 DEF vars
<1> QED
  BY <1>1, <1>2, <1>3, <1>4, <1>5, <1>6, <1>7, <1>8, <1>9, <1>10, <1>11,
     <1>12, <1>13 DEF Next, Step

\* All of it holds to begin with.
LEMMA KnownInit == Init => Known
<1> SUFFICES ASSUME Init PROVE Known
  OBVIOUS
<1>1. TypeOK
  BY TypeInit
<1>2. Stamps /\ Versions /\ HeldThenRenewed /\ SeenAfterRenewed /\ TakenWhenSilent
  BY LeaseAssumption DEF Init, Stamps, Versions, HeldThenRenewed, SeenAfterRenewed,
     TakenWhenSilent
<1> QED
  BY <1>1, <1>2 DEF Known

\* And each step keeps it.
LEMMA KnownStep == Known /\ [Next]_vars => Known'
<1> SUFFICES ASSUME Known, [Next]_vars PROVE Known'
  OBVIOUS
<1>1. TypeOK'
  BY TypeStep DEF Known
<1> QED
  BY <1>1, StampsStep, VersionsStep, HeldStep, SeenStep, TakenStep DEF Known

(***************************************************************************)
(* What follows from it.                                                   *)
(***************************************************************************)

\* A step by which the Lease changes hands finds its holder silent.
LEMMA HandedOnWhenSilent ==
    ASSUME Known, TypeOK', [Next]_vars, lease.version > 0, lease'.holder # lease.holder
    PROVE  Silent
<1> USE LeaseAssumption
<1> USE DEF Known, TypeOK, LeaseObject, LatePuts, Places, object, written, applied,
            applies, TakenWhenSilent, Silent
<1>1. ASSUME NEW c \in Controller, Put(c) PROVE Silent
  BY <1>1 DEF Put
<1>2. ASSUME NEW put \in late, LatePut(put) PROVE Silent
  BY <1>2 DEF LatePut
<1>3. ASSUME NEW c \in Controller, DropPut(c) PROVE FALSE
  BY <1>3 DEF DropPut
<1>4. ASSUME NEW c \in Controller, Step(c), ~Put(c), ~DropPut(c) PROVE FALSE
  BY <1>4 DEF Step, Begin, Get, GetFails, PutUnheard, Failover, ActUnchecked, Stop,
     DropGet, Crash, Restart
<1>5. CASE Tick
  BY <1>5 DEF Tick
<1>6. CASE UNCHANGED vars
  BY <1>6 DEF vars
<1> QED
  BY <1>1, <1>2, <1>3, <1>4, <1>5, <1>6 DEF Next

\* A holder silent for that long is not entitled any more.
LEMMA SilentIsNotEntitled ==
    ASSUME Known, Silent, NEW c \in Controller, lease.holder = c
    PROVE  ~entitled(c)
<1> SUFFICES ASSUME entitled(c) PROVE FALSE
  OBVIOUS
<1>1. /\ held[c] \in Nat /\ lease.renew \in Nat /\ time \in Nat
      /\ held[c] <= lease.renew
  BY LeaseAssumption DEF Known, TypeOK, LeaseObject, HeldThenRenewed, entitled
<1> QED
  BY <1>1, LeaseAssumption DEF Silent, entitled

\* How long a controller acts after the beginning of the round that renewed the
\* Lease is up to it, below half of twice the margin.
within(c, limit) == held[c] # None /\ 2 * (time - held[c]) <= limit

Within(limit) == {c \in Controller : within(c, limit)}

InMargin(limit) == limit \in Int /\ limit <= 2 * (LeaseSeconds - MaxLatency)

\* Who acts for no longer than the margin is entitled to.
LEMMA WithinIsEntitled ==
    ASSUME TypeOK, NEW limit, InMargin(limit), NEW c \in Controller, within(c, limit)
    PROVE  entitled(c)
<1>1. held[c] \in Nat /\ time \in Nat
  BY DEF TypeOK, within
<1> QED
  BY <1>1, LeaseAssumption DEF InMargin, within, entitled

\* Nobody starts to act in a step but the one who writes the Lease in it.
LEMMA NobodyStartsToAct ==
    ASSUME Known, TypeOK', [Next]_vars, NEW limit \in Int, NEW x \in Controller,
           within(x, limit)', ~within(x, limit)
    PROVE  Put(x) /\ lease'.holder = x /\ lease.version < MaxVersion
<1> USE LeaseAssumption
<1> USE DEF Known, TypeOK, LeaseObject, object, memory, within, forget, applied, written
<1>1. ASSUME NEW c \in Controller, Put(c)
      PROVE  Put(x) /\ lease'.holder = x /\ lease.version < MaxVersion
  BY <1>1 DEF Put
<1>2. ASSUME NEW c \in Controller, Stop(c) \/ DropGet(c) \/ DropPut(c) \/ Crash(c)
      PROVE  FALSE
  BY <1>2 DEF Stop, DropGet, DropPut, Crash
<1>3. ASSUME NEW c \in Controller,
             Begin(c) \/ Get(c) \/ GetFails(c) \/ PutUnheard(c) \/ Failover(c)
                \/ ActUnchecked(c) \/ Restart(c)
      PROVE  FALSE
  BY <1>3 DEF Begin, Get, GetFails, PutUnheard, Failover, ActUnchecked, Restart
<1>4. ASSUME NEW put \in late, LatePut(put) PROVE FALSE
  BY <1>4 DEF LatePut
<1>5. CASE Tick
  BY <1>5 DEF Tick
<1>6. CASE UNCHANGED vars
  BY <1>6 DEF vars
<1> QED
  BY <1>1, <1>2, <1>3, <1>4, <1>5, <1>6 DEF Next, Step

\* Entitled is who acts for twice half of the margin.
LEMMA MarginIsItsOwn ==
    /\ InMargin(2 * (LeaseSeconds - MaxLatency))
    /\ TypeOK => \A c \in Controller :
                   entitled(c) <=> within(c, 2 * (LeaseSeconds - MaxLatency))
<1>1. InMargin(2 * (LeaseSeconds - MaxLatency))
  BY LeaseAssumption DEF InMargin
<1>2. ASSUME TypeOK, NEW c \in Controller
      PROVE  entitled(c) <=> within(c, 2 * (LeaseSeconds - MaxLatency))
  <2>1. CASE held[c] = None
    BY <2>1 DEF entitled, within
  <2>2. CASE held[c] # None
    <3>1. held[c] \in Nat /\ time \in Nat
      BY <1>2, <2>2 DEF TypeOK
    <3> QED
      BY <2>2, <3>1, LeaseAssumption DEF entitled, within
  <2> QED
    BY <2>1, <2>2
<1> QED
  BY <1>1, <1>2

\* Nobody is entitled after a step but the one the Lease names then.
LEMMA EntitledStep ==
    ASSUME Known, EntitledIsHolder, TypeOK', [Next]_vars
    PROVE  EntitledIsHolder'
<1> DEFINE limit == 2 * (LeaseSeconds - MaxLatency)
<1> SUFFICES ASSUME NEW x \in Controller, entitled(x)', lease.holder' # x PROVE FALSE
  BY DEF EntitledIsHolder
<1>1. entitled(x)
  <2> SUFFICES ASSUME ~entitled(x) PROVE FALSE
    OBVIOUS
  <2>1. limit \in Int
    BY LeaseAssumption
  <2>2. held'[x] \in Nat /\ time' \in Nat
    BY DEF TypeOK, entitled
  <2>3. within(x, limit)'
    BY <2>2, LeaseAssumption DEF entitled, within
  <2>4. ~within(x, limit)
    BY MarginIsItsOwn DEF Known
  <2>5. Put(x) /\ lease'.holder = x /\ lease.version < MaxVersion
    <3> HIDE DEF limit
    <3> QED
      BY <2>1, <2>3, <2>4, NobodyStartsToAct
  <2> QED
    BY <2>5
<1>2. lease.holder = x
  BY <1>1 DEF EntitledIsHolder
<1>3. lease.version > 0
  BY <1>2, LeaseAssumption DEF Known, TypeOK, LeaseObject, Versions
<1>4. Silent
  BY <1>2, <1>3, HandedOnWhenSilent
<1> QED
  BY <1>1, <1>2, <1>4, SilentIsNotEntitled

(***************************************************************************)
(* The theorems.                                                           *)
(***************************************************************************)

\* What the invariant says holds in every state of every behaviour.
THEOREM AlwaysKnown == Spec => []Known
<1>1. Init => Known
  BY KnownInit
<1>2. Known /\ [Next]_vars => Known'
  BY KnownStep
<1> QED
  BY <1>1, <1>2, PTL DEF Spec

\* Every variable of a controller and of the Lease keeps its type.
THEOREM Typed == Spec => []TypeOK
<1>1. Known => TypeOK
  BY DEF Known
<1> QED
  BY <1>1, AlwaysKnown, PTL

\* lease.go, stale: a Lease is taken over only from a holder that has not
\* renewed for a lease duration, less the latency of one GET.
THEOREM SlowToSeize == Spec => SeizedOnlyWhenSilent
<1>1. Known /\ [Next]_vars =>
        [lease.version > 0 /\ lease'.holder # lease.holder =>
           time - lease.renew > LeaseSeconds - MaxLatency]_vars
  <2> SUFFICES ASSUME Known, [Next]_vars, lease.version > 0,
                      lease'.holder # lease.holder
               PROVE  Silent
    BY DEF Silent
  <2>1. TypeOK'
    BY TypeStep DEF Known
  <2> QED
    BY <2>1, HandedOnWhenSilent
<1> QED
  BY <1>1, AlwaysKnown, PTL DEF Spec, SeizedOnlyWhenSilent

\* controller.go, held: however long its reads take, a controller is the one the
\* Lease names for a lease duration, less one GET, after the beginning of the
\* round that renewed it.
THEOREM EntitledHolds == Spec => []EntitledIsHolder
<1>1. Init => EntitledIsHolder
  BY LeaseAssumption DEF Init, EntitledIsHolder, entitled
<1>2. Known /\ EntitledIsHolder /\ [Next]_vars => EntitledIsHolder'
  <2> SUFFICES ASSUME Known, EntitledIsHolder, [Next]_vars PROVE EntitledIsHolder'
    OBVIOUS
  <2>1. TypeOK'
    BY TypeStep DEF Known
  <2> QED
    BY <2>1, EntitledStep
<1> QED
  BY <1>1, <1>2, AlwaysKnown, PTL DEF Spec

\* controller.go, choose: its check, half a lease duration, is within that if a GET
\* takes at most the other half.
LEMMA FreshHolds ==
    ASSUME InMargin(LeaseDuration)
    PROVE  Spec => []FreshIsHolder
<1>1. Known /\ EntitledIsHolder => FreshIsHolder
  <2> SUFFICES ASSUME Known, EntitledIsHolder, NEW c \in Controller, fresh(c)
               PROVE  lease.holder = c
    BY DEF FreshIsHolder
  <2>1. within(c, LeaseDuration)
    BY DEF fresh, within
  <2> QED
    BY <2>1, WithinIsEntitled DEF Known, EntitledIsHolder
<1> QED
  BY <1>1, AlwaysKnown, EntitledHolds, PTL

(***************************************************************************)
(* That the Lease implements Handover.                                     *)
(***************************************************************************)

\* Whoever starts to act finds nobody acting: the holder it took the Lease from
\* has been silent for too long, and it was not acting itself.
LEMMA NobodyWasActing ==
    ASSUME Known, EntitledIsHolder, TypeOK', [Next]_vars, NEW limit, InMargin(limit),
           NEW x \in Controller, within(x, limit)', ~within(x, limit)
    PROVE  Within(limit) = {}
<1> SUFFICES ASSUME NEW c \in Controller, within(c, limit) PROVE FALSE
  BY DEF Within
<1>1. lease'.holder = x
  BY NobodyStartsToAct DEF InMargin
<1>2. entitled(c)
  BY WithinIsEntitled DEF Known
<1>3. lease.holder = c /\ c # x
  BY <1>2 DEF EntitledIsHolder
<1>4. lease.version > 0
  BY <1>3, LeaseAssumption DEF Known, TypeOK, LeaseObject, Versions
<1>5. Silent
  BY <1>1, <1>3, <1>4, HandedOnWhenSilent
<1> QED
  BY <1>2, <1>3, <1>5, SilentIsNotEntitled

\* One controller begins to act where none did, or one ends, or nothing changes.
LEMMA HandoverStep ==
    ASSUME Known, EntitledIsHolder, TypeOK', EntitledIsHolder', [Next]_vars,
           NEW limit, InMargin(limit)
    PROVE  \/ Within(limit)' = Within(limit)
           \/ \E c \in Controller : Within(limit) = {} /\ Within(limit)' = {c}
           \/ \E c \in Controller : Within(limit) = {c} /\ Within(limit)' = {}
<1> DEFINE Now == Within(limit)
           Then == Within(limit)'
<1>1. Now \subseteq Controller /\ Then \subseteq Controller
  BY DEF Within
<1>2. \A c, d \in Now : c = d
  BY WithinIsEntitled DEF Known, Within, EntitledIsHolder
<1>3. \A c, d \in Then : c = d
  <2>1. \A c \in Controller : within(c, limit)' => entitled(c)'
    <3> SUFFICES ASSUME NEW c \in Controller, within(c, limit)' PROVE entitled(c)'
      OBVIOUS
    <3>1. held'[c] \in Nat /\ time' \in Nat
      BY DEF TypeOK, within
    <3> QED
      BY <3>1, LeaseAssumption DEF InMargin, within, entitled
  <2> QED
    BY <2>1 DEF Within, EntitledIsHolder
<1>4. CASE \E x \in Controller : within(x, limit)' /\ ~within(x, limit)
  <2>1. PICK x \in Controller : within(x, limit)' /\ ~within(x, limit)
    BY <1>4
  <2>2. Now = {}
    BY <2>1, NobodyWasActing
  <2>3. x \in Then
    BY <2>1 DEF Within
  <2>4. Then = {x}
    BY <2>3, <1>3
  <2> QED
    BY <2>2, <2>4
<1>5. CASE \A x \in Controller : within(x, limit)' => within(x, limit)
  <2>1. Then \subseteq Now
    BY <1>5 DEF Within
  <2>2. CASE Then = Now
    BY <2>2
  <2>3. CASE Then # Now
    <3>1. PICK c \in Now : c \notin Then
      BY <2>1, <2>3
    <3>2. Now = {c} /\ Then = {}
      BY <3>1, <2>1, <1>2
    <3> HIDE DEF Now, Then
    <3>3. \E d \in Controller : Now = {d} /\ Then = {}
      BY <3>1, <3>2, <1>1
    <3> QED
      BY <3>3 DEF Now, Then
  <2> QED
    BY <2>2, <2>3
<1> QED
  BY <1>4, <1>5

\* controller.go, held, and lease.go: the Lease, with its slow reads, its lost
\* and late writes and its crashes, hands over from one controller that is entitled
\* to act to another only through a moment when none is.
THEOREM HandsOnInTime == Spec => HandsOverInTime
<1> DEFINE limit == 2 * (LeaseSeconds - MaxLatency)
<1>1. Init => Margin!Init
  BY LeaseAssumption DEF Init, Margin!Init, Entitled, entitled
<1>2. Known /\ EntitledIsHolder /\ EntitledIsHolder' /\ [Next]_vars
        => [Margin!Next]_Entitled
  <2> SUFFICES ASSUME Known, EntitledIsHolder, EntitledIsHolder', [Next]_vars
               PROVE  [Margin!Next]_Entitled
    OBVIOUS
  <2>1. TypeOK'
    BY TypeStep DEF Known
  <2>2. Entitled = Within(limit)
    BY MarginIsItsOwn DEF Known, Entitled, Within
  <2>3. Entitled' = Within(limit)'
    <3>1. \A c \in Controller : entitled(c)' <=> within(c, limit)'
      <4> SUFFICES ASSUME NEW c \in Controller
                   PROVE  entitled(c)' <=> within(c, limit)'
        OBVIOUS
      <4>1. CASE held'[c] = None
        BY <4>1 DEF entitled, within
      <4>2. CASE held'[c] # None
        <5>1. held'[c] \in Nat /\ time' \in Nat
          BY <2>1, <4>2 DEF TypeOK
        <5> QED
          BY <4>2, <5>1, LeaseAssumption DEF entitled, within
      <4> QED
        BY <4>1, <4>2
    <3> QED
      BY <3>1 DEF Entitled, Within
  <2>4. InMargin(limit)
    BY MarginIsItsOwn
  <2> HIDE DEF limit
  <2>5. \/ Within(limit)' = Within(limit)
        \/ \E c \in Controller : Within(limit) = {} /\ Within(limit)' = {c}
        \/ \E c \in Controller : Within(limit) = {c} /\ Within(limit)' = {}
    BY <2>1, <2>4, HandoverStep
  <2> QED
    BY <2>2, <2>3, <2>5 DEF Margin!Next, Margin!Take, Margin!Leave
<1> QED
  BY <1>1, <1>2, EntitledHolds, AlwaysKnown, PTL DEF Spec, HandsOverInTime, Margin!Spec

\* So do those that pass choose's check, if a GET takes at most half a lease
\* duration.
LEMMA HandsOn ==
    ASSUME InMargin(LeaseDuration)
    PROVE  Spec => HandsOver
<1>1. Init => Promise!Init
  BY LeaseAssumption DEF Init, Promise!Init, Acting, fresh
<1>2. Known /\ EntitledIsHolder /\ EntitledIsHolder' /\ [Next]_vars
        => [Promise!Next]_Acting
  <2> SUFFICES ASSUME Known, EntitledIsHolder, EntitledIsHolder', [Next]_vars
               PROVE  [Promise!Next]_Acting
    OBVIOUS
  <2>1. TypeOK'
    BY TypeStep DEF Known
  <2>2. Acting = Within(LeaseDuration) /\ Acting' = Within(LeaseDuration)'
    BY DEF Acting, Within, fresh, within
  <2>3. \/ Within(LeaseDuration)' = Within(LeaseDuration)
        \/ \E c \in Controller :
              Within(LeaseDuration) = {} /\ Within(LeaseDuration)' = {c}
        \/ \E c \in Controller :
              Within(LeaseDuration) = {c} /\ Within(LeaseDuration)' = {}
    BY <2>1, HandoverStep
  <2> QED
    BY <2>2, <2>3 DEF Promise!Next, Promise!Take, Promise!Leave
<1> QED
  BY <1>1, <1>2, EntitledHolds, AlwaysKnown, PTL DEF Spec, HandsOver, Promise!Spec
=============================================================================
