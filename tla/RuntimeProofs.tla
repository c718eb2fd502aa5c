---------------------------- MODULE RuntimeProofs ----------------------------
(***************************************************************************)
(* Proofs about Runtime, for every set of objects, every bound on changes  *)
(* and failures, and both kinds of stream.                                 *)
(***************************************************************************)
EXTENDS Runtime, WellFoundedInduction, SequenceTheorems, TLAPS

-----------------------------------------------------------------------------
(* The operators Runtime is built from. *)

\* A set of numbers that is not empty has a least element, and Least is it.
LEMMA LeastIsMember ==
    ASSUME NEW S, S \subseteq Nat, S # {}
    PROVE  Least(S) \in S
<1> DEFINE R == OpToRel(<, Nat)
<1>1. IsWellFoundedOn(R, Nat)
  BY NatLessThanWellFounded
<1>2. \A x, y \in Nat : x < y => <<x, y>> \in R
  BY DEF OpToRel
<1> HIDE DEF R
<1>3. PICK x \in S : \A y \in S : ~(<<y, x>> \in R)
  BY <1>1, WFMin
<1>4. \A y \in S : x <= y
  <2> TAKE y \in S
  <2>1. x \in Nat /\ y \in Nat /\ ~(y < x)
    BY <1>2, <1>3
  <2> QED  BY <2>1
<1> QED  BY <1>4 DEF Least

\* The object a tick reports is one of the objects, whenever two snapshots differ.
LEMMA ReportedRefIsObject ==
    ASSUME NEW old \in Versions, NEW new \in Versions, old # new
    PROVE  changedObjectRef(old, new) \in Objects
<1> DEFINE I == {i \in DOMAIN CategoryOrder : Changed(old, new, CategoryOrder[i]) # {}}
           C == Changed(old, new, firstChangedKind(old, new))
<1>1. PICK o \in Objects : old[o] # new[o]
  BY DEF Versions
<1>2. PICK i \in DOMAIN CategoryOrder : Category[o] = CategoryOrder[i]
  BY ObjectsAssumption
<1>3. i \in I
  BY <1>1, <1>2 DEF Changed, Differs
<1>4. I \subseteq Nat
  BY DEF CategoryOrder
<1>5. Least(I) \in I
  BY <1>3, <1>4, LeastIsMember
<1>6. C # {} /\ C \subseteq Objects
  BY <1>5 DEF firstChangedKind, Changed
<1> DEFINE P == {x \in C : Live(new[x])}
<1>7. P \subseteq Nat /\ C \subseteq Nat
  BY <1>6, ObjectsAssumption
<1>8. firstChangedRef(C, new) = Least(IF P # {} THEN P ELSE C)
  BY DEF firstChangedRef
<1>9. firstChangedRef(C, new) \in C
  BY <1>6, <1>7, <1>8, LeastIsMember
<1> QED  BY <1>6, <1>9 DEF changedObjectRef

\* What is queued after an informer's handler appends an event.
LEMMA QueuedAppend ==
    ASSUME NEW q \in Seq(Objects), NEW o \in Objects
    PROVE  /\ Append(q, o) \in Seq(Objects)
           /\ {Append(q, o)[i] : i \in DOMAIN Append(q, o)} = {q[i] : i \in DOMAIN q} \cup {o}
<1> DEFINE a == Append(q, o)
<1>1. /\ a \in Seq(Objects) /\ Len(q) \in Nat
      /\ DOMAIN q = 1..Len(q) /\ DOMAIN a = 1..(Len(q) + 1)
      /\ \A i \in 1..Len(q) : a[i] = q[i]
      /\ a[Len(q) + 1] = o
  BY AppendProperties
<1> HIDE DEF a
<1>2. \A i \in DOMAIN a : i \in DOMAIN q \/ i = Len(q) + 1
  BY <1>1
<1>3. \A i \in DOMAIN q : i \in DOMAIN a
  BY <1>1
<1>4. {a[i] : i \in DOMAIN a} \subseteq {q[i] : i \in DOMAIN q} \cup {o}
  BY <1>1, <1>2
<1>5. {q[i] : i \in DOMAIN q} \cup {o} \subseteq {a[i] : i \in DOMAIN a}
  BY <1>1, <1>3
<1>6. {a[i] : i \in DOMAIN a} = {q[i] : i \in DOMAIN q} \cup {o}
  BY <1>4, <1>5
<1> QED  BY <1>1, <1>6 DEF a

\* An event is taken: it is an object, and the rest stays queued.
LEMMA QueuedTail ==
    ASSUME NEW q \in Seq(Objects), q # <<>>
    PROVE  /\ Head(q) \in Objects /\ Tail(q) \in Seq(Objects)
           /\ {q[i] : i \in DOMAIN q} \subseteq {Tail(q)[i] : i \in DOMAIN Tail(q)} \cup {Head(q)}
<1> DEFINE t == Tail(q)
<1>1. /\ Head(q) \in Objects /\ t \in Seq(Objects)
      /\ Len(q) \in Nat /\ DOMAIN q = 1..Len(q)
      /\ DOMAIN t = 1..(Len(q) - 1)
      /\ \A i \in 1..(Len(q) - 1) : t[i] = q[i + 1]
      /\ Head(q) = q[1]
  OBVIOUS
<1> HIDE DEF t
<1>2. \A i \in DOMAIN q : i = 1 \/ (i - 1 \in DOMAIN t /\ t[i - 1] = q[i])
  BY <1>1
<1>3. \A i \in DOMAIN q : q[i] \in {t[j] : j \in DOMAIN t} \cup {Head(q)}
  BY <1>1, <1>2
<1>4. {q[i] : i \in DOMAIN q} \subseteq {t[i] : i \in DOMAIN t} \cup {Head(q)}
  BY <1>3
<1> QED  BY <1>1, <1>4 DEF t

\* The manager's updates of its status give a status.
LEMMA StatusUpdates ==
    ASSUME NEW st \in StatusType
    PROVE  /\ applyBootstrapResult(st) \in StatusType
           /\ markDegraded(st) \in StatusType
           /\ incrementStrategy(st) \in StatusType
  BY DEF StatusType, Status, applyBootstrapResult, markDegraded, incrementStrategy

-----------------------------------------------------------------------------
(* The inductive invariant.  Each of its parts has a lemma, with one step    *)
(* for each action.                                                          *)

\* The daemon's first state satisfies the inductive invariant.
LEMMA InitIInv == Init => IInv
  BY NoneAssumption, BoundsAssumption
     DEF Init, IInv, TypeOK, FacadeMirrorsStatus, CountersAccount, LastKnownGood, StagesInv,
         OrderInv, FreshInv, Status, StatusType, Versions, Unloaded, Applying, Queued

\* Which stages and streams go together is kept by every step.
LEMMA StagesStep == IInv /\ [Next]_vars => StagesInv'
<1> SUFFICES ASSUME TypeOK, StagesInv, [Next]_vars PROVE StagesInv'
  BY DEF IInv
<1> USE NoneAssumption, ModeAssumption
    DEF TypeOK, StagesInv, Unloaded, Applying, clusterVars, streamVars, managerVars, Versions
<1>1. ASSUME NEW o \in Objects, ChangeObject(o) PROVE StagesInv'
  BY <1>1 DEF ChangeObject
<1>2. ASSUME Start PROVE StagesInv'
  BY <1>2 DEF Start
<1>3. ASSUME Collect PROVE StagesInv'
  BY <1>3 DEF Collect, Collecting
<1>4. ASSUME BootstrapFail PROVE StagesInv'
  BY <1>4 DEF BootstrapFail, Fail, Collecting
<1>5. ASSUME Bootstrap PROVE StagesInv'
  BY <1>5 DEF Bootstrap
<1>6. ASSUME NEW c \in Categories, InitialList(c) PROVE StagesInv'
  BY <1>6 DEF InitialList
<1>7. ASSUME CacheSynced PROVE StagesInv'
  BY <1>7 DEF CacheSynced
<1>8. ASSUME SyncTimeout PROVE StagesInv'
  BY <1>8 DEF SyncTimeout, FallBack
<1>9. ASSUME TakeEvent PROVE StagesInv'
  BY <1>9 DEF TakeEvent
<1>10. ASSUME Tick PROVE StagesInv'
  BY <1>10 DEF Tick
<1>11. ASSUME FirstTick PROVE StagesInv'
  BY <1>11 DEF FirstTick
<1>12. ASSUME QuietTick PROVE StagesInv'
  BY <1>12 DEF QuietTick
<1>13. ASSUME EmitTick PROVE StagesInv'
  BY <1>13 DEF EmitTick
<1>14. ASSUME TickFail PROVE StagesInv'
  BY <1>14 DEF TickFail, Fail, Collecting
<1>15. ASSUME NarrowCollectFail PROVE StagesInv'
  BY <1>15 DEF NarrowCollectFail, Fail, Collecting
<1>16. ASSUME NarrowRefused PROVE StagesInv'
  BY <1>16 DEF NarrowRefused
<1>17. ASSUME NarrowApply PROVE StagesInv'
  BY <1>17 DEF NarrowApply, Returned
<1>18. ASSUME FullApply PROVE StagesInv'
  BY <1>18 DEF FullApply, Returned
<1>19. ASSUME FullCollectFail PROVE StagesInv'
  BY <1>19 DEF FullCollectFail, Fail, Collecting, FallBack
<1>20. ASSUME UNCHANGED vars PROVE StagesInv'
  BY <1>20 DEF vars
<1> QED
  BY <1>1, <1>2, <1>3, <1>4, <1>5, <1>6, <1>7, <1>8, <1>9, <1>10,
     <1>11, <1>12, <1>13, <1>14, <1>15, <1>16, <1>17, <1>18, <1>19, <1>20
     DEF Next, Manager, Failure

\* The status, its copy and its counters stay truthful in every step.
LEMMA StatusStep == IInv /\ [Next]_vars => (FacadeMirrorsStatus /\ CountersAccount /\ LastKnownGood)'
<1> DEFINE StatusInv == FacadeMirrorsStatus /\ CountersAccount /\ LastKnownGood
<1> SUFFICES ASSUME TypeOK, StagesInv, StatusInv, [Next]_vars PROVE StatusInv'
  BY DEF IInv
<1> USE NoneAssumption
    DEF TypeOK, StagesInv, FacadeMirrorsStatus, CountersAccount, LastKnownGood, Unloaded, Applying,
        clusterVars, streamVars, managerVars, Versions, StatusType, Status
<1>1. ASSUME NEW o \in Objects, ChangeObject(o) PROVE StatusInv'
  BY <1>1 DEF ChangeObject
<1>2. ASSUME Start PROVE StatusInv'
  BY <1>2 DEF Start
<1>3. ASSUME Collect PROVE StatusInv'
  BY <1>3 DEF Collect, Collecting
<1>4. ASSUME BootstrapFail PROVE StatusInv'
  BY <1>4 DEF BootstrapFail, Fail, Collecting, markDegraded
<1>5. ASSUME Bootstrap PROVE StatusInv'
  BY <1>5 DEF Bootstrap, applyBootstrapResult
<1>6. ASSUME NEW c \in Categories, InitialList(c) PROVE StatusInv'
  BY <1>6 DEF InitialList
<1>7. ASSUME CacheSynced PROVE StatusInv'
  BY <1>7 DEF CacheSynced
<1>8. ASSUME SyncTimeout PROVE StatusInv'
  BY <1>8 DEF SyncTimeout, FallBack
<1>9. ASSUME TakeEvent PROVE StatusInv'
  BY <1>9 DEF TakeEvent
<1>10. ASSUME Tick PROVE StatusInv'
  BY <1>10 DEF Tick
<1>11. ASSUME FirstTick PROVE StatusInv'
  BY <1>11 DEF FirstTick
<1>12. ASSUME QuietTick PROVE StatusInv'
  BY <1>12 DEF QuietTick
<1>13. ASSUME EmitTick PROVE StatusInv'
  BY <1>13 DEF EmitTick
<1>14. ASSUME TickFail PROVE StatusInv'
  BY <1>14 DEF TickFail, Fail, Collecting
<1>15. ASSUME NarrowCollectFail PROVE StatusInv'
  BY <1>15 DEF NarrowCollectFail, Fail, Collecting, markDegraded, setFacadeRuntimeStatus
<1>16. ASSUME NarrowRefused PROVE StatusInv'
  BY <1>16 DEF NarrowRefused
<1>17. ASSUME NarrowApply PROVE StatusInv'
  <2>1. kernel' # None /\ kernel # None
    BY <1>17 DEF NarrowApply
  <2> QED  BY <1>17, <2>1 DEF NarrowApply, Returned, incrementStrategy
<1>18. ASSUME FullApply PROVE StatusInv'
  BY <1>18 DEF FullApply, Returned, applyBootstrapResult
<1>19. ASSUME FullCollectFail PROVE StatusInv'
  BY <1>19 DEF FullCollectFail, Fail, Collecting, FallBack, markDegraded, setFacadeRuntimeStatus
<1>20. ASSUME UNCHANGED vars PROVE StatusInv'
  BY <1>20 DEF vars
<1> QED
  BY <1>1, <1>2, <1>3, <1>4, <1>5, <1>6, <1>7, <1>8, <1>9, <1>10,
     <1>11, <1>12, <1>13, <1>14, <1>15, <1>16, <1>17, <1>18, <1>19, <1>20
     DEF Next, Manager, Failure

\* Versions keep their order, from what is loaded to what is live.
LEMMA OrderStep == IInv /\ [Next]_vars => OrderInv'
<1> SUFFICES ASSUME TypeOK, StagesInv, OrderInv, [Next]_vars PROVE OrderInv'
  BY DEF IInv
<1> USE NoneAssumption
    DEF TypeOK, StagesInv, OrderInv, AtMost, Unloaded, Applying, clusterVars, streamVars, managerVars,
        Versions
<1>1. ASSUME NEW o \in Objects, ChangeObject(o) PROVE OrderInv'
  <2>1. \A x \in Objects : cluster[x] \in Nat /\ cluster'[x] \in Nat /\ cluster[x] <= cluster'[x]
    BY <1>1 DEF ChangeObject
  <2>2. \A v \in Versions : AtMost(v, cluster) => AtMost(v, cluster')
    <3> SUFFICES ASSUME NEW v \in Versions, AtMost(v, cluster), NEW x \in Objects
                 PROVE  v[x] <= cluster'[x]
      OBVIOUS
    <3>1. v[x] \in Nat /\ v[x] <= cluster[x]
      OBVIOUS
    <3> QED  BY ONLY <2>1, <3>1, x \in Objects
  <2>3. UNCHANGED <<kernel, snap, tick>>
    BY <1>1 DEF ChangeObject
  <2> HIDE DEF AtMost, Versions
  <2> QED  BY <2>2, <2>3
<1>2. ASSUME Start PROVE OrderInv'
  BY <1>2 DEF Start
<1>3. ASSUME Collect PROVE OrderInv'
  BY <1>3 DEF Collect, Collecting
<1>4. ASSUME BootstrapFail PROVE OrderInv'
  BY <1>4 DEF BootstrapFail, Fail, Collecting
<1>5. ASSUME Bootstrap PROVE OrderInv'
  BY <1>5 DEF Bootstrap
<1>6. ASSUME NEW c \in Categories, InitialList(c) PROVE OrderInv'
  BY <1>6 DEF InitialList
<1>7. ASSUME CacheSynced PROVE OrderInv'
  BY <1>7 DEF CacheSynced
<1>8. ASSUME SyncTimeout PROVE OrderInv'
  BY <1>8 DEF SyncTimeout, FallBack
<1>9. ASSUME TakeEvent PROVE OrderInv'
  BY <1>9 DEF TakeEvent
<1>10. ASSUME Tick PROVE OrderInv'
  BY <1>10 DEF Tick
<1>11. ASSUME FirstTick PROVE OrderInv'
  BY <1>11 DEF FirstTick
<1>12. ASSUME QuietTick PROVE OrderInv'
  BY <1>12 DEF QuietTick
<1>13. ASSUME EmitTick PROVE OrderInv'
  BY <1>13 DEF EmitTick
<1>14. ASSUME TickFail PROVE OrderInv'
  BY <1>14 DEF TickFail, Fail, Collecting
<1>15. ASSUME NarrowCollectFail PROVE OrderInv'
  BY <1>15 DEF NarrowCollectFail, Fail, Collecting
<1>16. ASSUME NarrowRefused PROVE OrderInv'
  BY <1>16 DEF NarrowRefused
<1>17. ASSUME NarrowApply PROVE OrderInv'
  BY <1>17 DEF NarrowApply, Returned
<1>18. ASSUME FullApply PROVE OrderInv'
  BY <1>18 DEF FullApply, Returned
<1>19. ASSUME FullCollectFail PROVE OrderInv'
  BY <1>19 DEF FullCollectFail, Fail, Collecting, FallBack
<1>20. ASSUME UNCHANGED vars PROVE OrderInv'
  BY <1>20 DEF vars
<1> QED
  BY <1>1, <1>2, <1>3, <1>4, <1>5, <1>6, <1>7, <1>8, <1>9, <1>10,
     <1>11, <1>12, <1>13, <1>14, <1>15, <1>16, <1>17, <1>18, <1>19, <1>20
     DEF Next, Manager, Failure

\* The state keeps its shape in every step.
LEMMA TypeStep == IInv /\ [Next]_vars => TypeOK'
<1> SUFFICES ASSUME TypeOK, StagesInv, [Next]_vars PROVE TypeOK'
  BY DEF IInv
<1>a. None \notin Versions
  BY NoneAssumption DEF Versions
<1> USE <1>a, BoundsAssumption, ModeAssumption
    DEF TypeOK, StagesInv, Unloaded, Applying, clusterVars, streamVars, managerVars
<1>1. ASSUME NEW o \in Objects, ChangeObject(o) PROVE TypeOK'
  <2>1. changes' \in 0..MaxChanges /\ blind' \subseteq Objects
    BY <1>1 DEF ChangeObject
  <2>2. queue' \in Seq(Objects)
    BY <1>1, QueuedAppend DEF ChangeObject
  <2>3. cluster' \in Versions
    <3>1. cluster \in [Objects -> Nat] /\ cluster' = [cluster EXCEPT ![o] = @ + 1]
      BY <1>1 DEF ChangeObject, Versions
    <3> QED  BY ONLY <3>1, o \in Objects DEF Versions
  <2>4. UNCHANGED <<failures, stage, snap, event, stream, watched, seen, tick, managerVars>>
    BY <1>1 DEF ChangeObject
  <2> QED  BY <2>1, <2>2, <2>3, <2>4
<1>2. ASSUME Start PROVE TypeOK'
  BY <1>2 DEF Start, Status, StatusType
<1>3. ASSUME Collect PROVE TypeOK'
  BY <1>3 DEF Collect, Collecting
<1>4. ASSUME BootstrapFail PROVE TypeOK'
  BY <1>4, StatusUpdates DEF BootstrapFail, Fail, Collecting
<1>5. ASSUME Bootstrap PROVE TypeOK'
  BY <1>5, StatusUpdates DEF Bootstrap
<1>6. ASSUME NEW c \in Categories, InitialList(c) PROVE TypeOK'
  BY <1>6 DEF InitialList
<1>7. ASSUME CacheSynced PROVE TypeOK'
  BY <1>7 DEF CacheSynced
<1>8. ASSUME SyncTimeout PROVE TypeOK'
  BY <1>8 DEF SyncTimeout, FallBack
<1>9. ASSUME TakeEvent PROVE TypeOK'
  BY <1>9, QueuedTail DEF TakeEvent
<1>10. ASSUME Tick PROVE TypeOK'
  BY <1>10 DEF Tick
<1>11. ASSUME FirstTick PROVE TypeOK'
  BY <1>11 DEF FirstTick
<1>12. ASSUME QuietTick PROVE TypeOK'
  BY <1>12 DEF QuietTick
<1>13. ASSUME EmitTick PROVE TypeOK'
  BY <1>13, ReportedRefIsObject DEF EmitTick
<1>14. ASSUME TickFail PROVE TypeOK'
  BY <1>14 DEF TickFail, Fail, Collecting
<1>15. ASSUME NarrowCollectFail PROVE TypeOK'
  BY <1>15, StatusUpdates DEF NarrowCollectFail, Fail, Collecting, setFacadeRuntimeStatus
<1>16. ASSUME NarrowRefused PROVE TypeOK'
  BY <1>16 DEF NarrowRefused
<1>17. ASSUME NarrowApply PROVE TypeOK'
  <2>1. kernel' \in Versions
    BY <1>17 DEF NarrowApply, Versions
  <2>2. status' \in StatusType /\ facade' \in StatusType
    <3>1. status' = incrementStrategy(status) /\ facade' = status' /\ status \in StatusType
      BY <1>17 DEF NarrowApply
    <3> QED  BY ONLY <3>1, StatusUpdates
  <2>3. /\ applied' \in Nat
        /\ stage' = "idle" /\ snap' = None /\ event' = None
        /\ UNCHANGED <<clusterVars, failures, stream, watched, queue>>
    BY <1>17 DEF NarrowApply, Returned
  <2>4. tick' = None /\ (seen' = None \/ seen' \in Versions)
    BY <1>17 DEF NarrowApply, Returned
  <2>5. blind' \subseteq Objects
    BY <1>17 DEF NarrowApply, Returned
  <2> QED  BY <2>1, <2>2, <2>3, <2>4, <2>5
<1>18. ASSUME FullApply PROVE TypeOK'
  <2>1. kernel' \in Versions
    BY <1>18 DEF FullApply
  <2>2. status' \in StatusType /\ facade' \in StatusType
    <3>1. status' = applyBootstrapResult(status) /\ facade' = status' /\ status \in StatusType
      BY <1>18 DEF FullApply
    <3> QED  BY ONLY <3>1, StatusUpdates
  <2>3. /\ applied' \in Nat
        /\ stage' = "idle" /\ snap' = None /\ event' = None
        /\ UNCHANGED <<clusterVars, failures, stream, watched, queue>>
    BY <1>18 DEF FullApply, Returned
  <2>4. tick' = None /\ (seen' = None \/ seen' \in Versions)
    BY <1>18 DEF FullApply, Returned
  <2>5. blind' \subseteq Objects
    BY <1>18 DEF FullApply, Returned
  <2> QED  BY <2>1, <2>2, <2>3, <2>4, <2>5
<1>19. ASSUME FullCollectFail PROVE TypeOK'
  <2>1. status' \in StatusType /\ (facade' = None \/ facade' \in StatusType)
    <3>1. /\ status' = markDegraded(status) /\ status \in StatusType
          /\ facade' = IF facade = None THEN None ELSE status'
      BY <1>19 DEF FullCollectFail, setFacadeRuntimeStatus
    <3> QED  BY ONLY <3>1, StatusUpdates
  <2>2. /\ failures' \in 0..MaxFailures
        /\ stage' = "idle" /\ event' = None /\ snap' = None
        /\ UNCHANGED <<clusterVars, seen, kernel, applied>>
    BY <1>19 DEF FullCollectFail, Fail, Collecting
  <2>3. CASE stream = "informer"
    <3>1. /\ stream' = "polling" /\ watched' = {} /\ queue' = <<>> /\ tick' = None
          /\ blind' = blind \cup {event} \cup {queue[i] : i \in DOMAIN queue}
      BY <1>19, <2>3 DEF FullCollectFail, FallBack
    <3>2. blind' \subseteq Objects
      BY <1>19, <3>1 DEF FullCollectFail
    <3> QED  BY <2>1, <2>2, <3>1, <3>2
  <2>4. CASE stream # "informer"
    <3>1. stream' = "stopped" /\ tick' = None /\ UNCHANGED <<watched, queue, blind>>
      BY <1>19, <2>4 DEF FullCollectFail
    <3> QED  BY <2>1, <2>2, <3>1
  <2> QED  BY <2>3, <2>4
<1>20. ASSUME UNCHANGED vars PROVE TypeOK'
  BY <1>20 DEF vars
<1> QED
  BY <1>1, <1>2, <1>3, <1>4, <1>5, <1>6, <1>7, <1>8, <1>9, <1>10,
     <1>11, <1>12, <1>13, <1>14, <1>15, <1>16, <1>17, <1>18, <1>19, <1>20
     DEF Next, Manager, Failure

\* Outside the blind spots, every object stays current or on its way.
LEMMA FreshStep == IInv /\ [Next]_vars => FreshInv'
<1> SUFFICES ASSUME TypeOK, StagesInv, OrderInv, FreshInv, [Next]_vars PROVE FreshInv'
  BY DEF IInv
<1> USE NoneAssumption, ModeAssumption
    DEF TypeOK, StagesInv, OrderInv, FreshInv, AtMost, Unloaded, Applying, Queued, clusterVars, streamVars,
        managerVars, Versions
<1>1. ASSUME NEW o \in Objects, ChangeObject(o) PROVE FreshInv'
  <2>1. /\ \A x \in Objects \ {o} : cluster'[x] = cluster[x]
        /\ UNCHANGED <<stage, snap, event, stream, seen, kernel>>
        /\ blind \subseteq blind'
    BY <1>1 DEF ChangeObject
  <2>2. Queued' = IF Category[o] \in watched THEN Queued \cup {o} ELSE Queued
    <3>1. queue \in Seq(Objects)
          /\ queue' = IF Category[o] \in watched THEN Append(queue, o) ELSE queue
      BY <1>1 DEF ChangeObject
    <3> QED  BY ONLY <3>1, o \in Objects, QueuedAppend DEF Queued
  <2>3. o \in blind' \/ Reported(o)
    BY <1>1 DEF ChangeObject
  <2>4. stream \in {"syncing", "informer"} => o \in blind' \/ o \in Queued'
    BY <2>2, <2>3 DEF Reported
  <2>5. stage = "bootstrap" /\ snap # None => o \in blind'
    BY <2>3 DEF Reported
  <2>6. stream = "polling" /\ seen = None /\ ~(stage = "tick" /\ snap # None) => o \in blind'
    BY <2>3 DEF Reported
  <2> HIDE DEF Queued
  <2> QED  BY <2>1, <2>2, <2>4, <2>5, <2>6
<1>2. ASSUME Start PROVE FreshInv'
  BY <1>2 DEF Start
<1>3. ASSUME Collect PROVE FreshInv'
  BY <1>3 DEF Collect, Collecting
<1>4. ASSUME BootstrapFail PROVE FreshInv'
  BY <1>4 DEF BootstrapFail, Fail, Collecting
<1>5. ASSUME Bootstrap PROVE FreshInv'
  BY <1>5 DEF Bootstrap
<1>6. ASSUME NEW c \in Categories, InitialList(c) PROVE FreshInv'
  BY <1>6 DEF InitialList
<1>7. ASSUME CacheSynced PROVE FreshInv'
  BY <1>7 DEF CacheSynced
<1>8. ASSUME SyncTimeout PROVE FreshInv'
  BY <1>8 DEF SyncTimeout, FallBack
<1>9. ASSUME TakeEvent PROVE FreshInv'
  BY <1>9, QueuedTail DEF TakeEvent
<1>10. ASSUME Tick PROVE FreshInv'
  BY <1>10 DEF Tick
<1>11. ASSUME FirstTick PROVE FreshInv'
  BY <1>11 DEF FirstTick
<1>12. ASSUME QuietTick PROVE FreshInv'
  BY <1>12 DEF QuietTick
<1>13. ASSUME EmitTick PROVE FreshInv'
  BY <1>13 DEF EmitTick
<1>14. ASSUME TickFail PROVE FreshInv'
  BY <1>14 DEF TickFail, Fail, Collecting
<1>15. ASSUME NarrowCollectFail PROVE FreshInv'
  BY <1>15 DEF NarrowCollectFail, Fail, Collecting
<1>16. ASSUME NarrowRefused PROVE FreshInv'
  BY <1>16 DEF NarrowRefused
<1>17. ASSUME NarrowApply PROVE FreshInv'
  <2>1. /\ stage' = "idle" /\ snap' = None /\ kernel \in Versions /\ snap \in Versions
        /\ UNCHANGED <<cluster, stream, queue>>
        /\ \A o \in Objects : kernel'[o] = IF o \in Scope(event) THEN snap[o] ELSE kernel[o]
        /\ event \in Scope(event)
    BY <1>17 DEF NarrowApply, Returned, Scope
  <2>2. \A o \in Objects : kernel[o] \in Nat /\ snap[o] \in Nat /\ cluster[o] \in Nat
                           /\ kernel[o] <= snap[o] /\ snap[o] <= cluster[o]
    BY <2>1
  <2>3. CASE stream = "polling"
    <3>1. /\ seen' = tick /\ tick \in Versions /\ seen \in Versions /\ blind \subseteq blind'
          /\ \A o \in Objects \ blind' : o \in Scope(event) \/ tick[o] = seen[o]
      BY <1>17, <2>3 DEF NarrowApply, Returned, Differs
    <3>2. \A o \in Objects \ blind' : seen'[o] <= kernel'[o]
      BY <1>17, <2>1, <2>3, <3>1 DEF NarrowApply
    <3> QED  BY <2>1, <2>3, <3>1, <3>2
  <2>4. CASE stream # "polling"
    <3>1. seen' = seen /\ blind' = blind /\ stream = "informer"
      BY <1>17, <2>4 DEF NarrowApply, Returned
    <3>2. \A o \in Objects : kernel[o] = cluster[o] => kernel'[o] = cluster[o]
      BY <2>1, <2>2
    <3> QED  BY <2>1, <3>1, <3>2
  <2> QED  BY <2>3, <2>4
<1>18. ASSUME FullApply PROVE FreshInv'
  <2>1. /\ stage' = "idle" /\ snap' = None /\ kernel' = snap /\ snap \in Versions
        /\ UNCHANGED <<cluster, stream, queue>>
    BY <1>18 DEF FullApply, Returned
  <2>2. CASE stream = "polling"
    <3>1. seen' = tick /\ tick \in Versions
      BY <1>18, <2>2 DEF FullApply, Returned
    <3> QED  BY <2>1, <2>2, <3>1
  <2>3. CASE stream # "polling"
    <3>1. seen' = seen /\ blind' = blind /\ stream = "informer"
      BY <1>18, <2>3 DEF FullApply, Returned
    <3>2. \A o \in Objects : kernel[o] \in Nat /\ snap[o] \in Nat /\ cluster[o] \in Nat
                             /\ kernel[o] <= snap[o] /\ snap[o] <= cluster[o]
      BY <1>18 DEF FullApply
    <3>3. \A o \in Objects : kernel[o] = cluster[o] => snap[o] = cluster[o]
      BY <3>2
    <3> QED  BY <2>1, <3>1, <3>3
  <2> QED  BY <2>2, <2>3
<1>19. ASSUME FullCollectFail PROVE FreshInv'
  BY <1>19 DEF FullCollectFail, Fail, Collecting, FallBack
<1>20. ASSUME UNCHANGED vars PROVE FreshInv'
  BY <1>20 DEF vars
<1> QED
  BY <1>1, <1>2, <1>3, <1>4, <1>5, <1>6, <1>7, <1>8, <1>9, <1>10,
     <1>11, <1>12, <1>13, <1>14, <1>15, <1>16, <1>17, <1>18, <1>19, <1>20
     DEF Next, Manager, Failure

-----------------------------------------------------------------------------
(* The theorems. *)

\* Every reachable state of the daemon satisfies the inductive invariant.
THEOREM RuntimeInvariant == Spec => []IInv
<1>1. IInv /\ [Next]_vars => IInv'
  BY TypeStep, StatusStep, StagesStep, OrderStep, FreshStep DEF IInv
<1> QED  BY <1>1, InitIInv, PTL DEF Spec

\* The manager's and the streams' state keeps its shape: a snapshot, an event and
\* a tick are held only by the stages that use them.
THEOREM RuntimeTypeCorrect == Spec => []TypeOK
<1>1. IInv => TypeOK
  BY DEF IInv
<1> QED  BY <1>1, RuntimeInvariant, PTL

\* The facade's copy of the status is the manager's, also across rebuilds, which
\* replace the facade.
THEOREM StatusMirrored == Spec => []FacadeMirrorsStatus
<1>1. IInv => FacadeMirrorsStatus
  BY DEF IInv
<1> QED  BY <1>1, RuntimeInvariant, PTL

\* The counters account for every successful Apply.
THEOREM ApplyCounted == Spec => []CountersAccount
<1>1. IInv => CountersAccount
  BY DEF IInv
<1> QED  BY <1>1, RuntimeInvariant, PTL

\* Readiness and error tell what the graph holds.
THEOREM ReadinessTruthful == Spec => []LastKnownGood
<1>1. IInv => LastKnownGood
  BY DEF IInv
<1> QED  BY <1>1, RuntimeInvariant, PTL

\* When a stream has nothing more to report, the graph is current outside the
\* blind spots.
THEOREM FreshOutsideBlindSpots == Spec => []FreshButBlind
<1>1. IInv => FreshButBlind
  <2> SUFFICES ASSUME IInv, Quiet, NEW o \in Objects \ blind PROVE kernel[o] = cluster[o]
    BY DEF FreshButBlind
  <2>1. CASE stream = "informer" /\ queue = <<>>
    BY <2>1 DEF IInv, FreshInv, Quiet, Queued, Applying
  <2>2. CASE stream = "polling" /\ seen = cluster
    <3>1. kernel \in Versions /\ cluster \in Versions /\ seen # None
      BY <2>2, NoneAssumption DEF IInv, TypeOK, StagesInv, Quiet, Unloaded, Versions
    <3>2. seen[o] <= kernel[o] /\ kernel[o] <= cluster[o]
      BY <2>2, <3>1, NoneAssumption DEF IInv, FreshInv, OrderInv, AtMost, Versions
    <3> QED  BY <2>2, <3>1, <3>2 DEF Versions
  <2> QED  BY <2>1, <2>2 DEF Quiet
<1> QED  BY <1>1, RuntimeInvariant, PTL

\* No load replaces a version in the graph by an older one.
THEOREM LoadsNeverRegress == Spec => NoRegress
<1> DEFINE A == kernel # None => \A o \in Objects : kernel'[o] >= kernel[o]
<1>1. IInv /\ [Next]_vars => [A]_vars
  <2> SUFFICES ASSUME IInv, Next, kernel # None, NEW o \in Objects PROVE kernel'[o] >= kernel[o]
    BY DEF A
  <2>1. kernel[o] \in Nat /\ stage \notin Unloaded
    BY DEF IInv, TypeOK, StagesInv, Versions
  <2>2. NarrowApply \/ FullApply \/ UNCHANGED kernel
    BY <2>1 DEF Next, Manager, Failure, ChangeObject, Start, Collect, BootstrapFail, Bootstrap,
       InitialList, CacheSynced, SyncTimeout, TakeEvent, Tick, FirstTick, QuietTick, EmitTick,
       TickFail, NarrowCollectFail, NarrowRefused, FullCollectFail, managerVars, Unloaded
  <2>3. CASE NarrowApply \/ FullApply
    <3>1. snap \in Versions /\ snap[o] \in Nat /\ kernel[o] <= snap[o]
      BY <2>3 DEF NarrowApply, FullApply, IInv, TypeOK, OrderInv, AtMost, Versions
    <3>2. kernel'[o] = snap[o] \/ kernel'[o] = kernel[o]
      BY <2>3 DEF NarrowApply, FullApply
    <3> QED  BY <2>1, <3>1, <3>2
  <2> QED  BY <2>1, <2>2, <2>3
<1> QED  BY <1>1, RuntimeInvariant, PTL DEF Spec, NoRegress

=============================================================================
