------------------------------- MODULE Runtime -------------------------------
(***************************************************************************)
(* The life of the daemon: bootstrap, the change stream (informers, with   *)
(* polling as the fallback, or polling alone), Manager.Apply with its two  *)
(* collects, and the status it keeps and mirrors to the facade             *)
(* (cmd/kubernetes-ontologyd, runtime/manager.go, collect/k8s/stream.go).  *)
(*                                                                         *)
(* The graph is reduced to which version of each object was loaded last:   *)
(* what a load does to nodes and edges is in LiveGraph.  An object is a    *)
(* number, its place in the order of namespace/name keys; its version goes *)
(* up with every change of the cluster and is odd while it exists.         *)
(*                                                                         *)
(* An operator named after another with a suffix (TickOnce after Tick) is  *)
(* a plausible mistake in it, kept to show that the checked properties     *)
(* would notice; nothing uses it.                                          *)
(***************************************************************************)
EXTENDS Naturals, Sequences, FiniteSets

CONSTANTS
    Objects,      \* the objects, a finite set of numbers
    Category,     \* Category[o]: the change category of o
    Refused,      \* objects whose scoped update returns an error
    None,         \* no snapshot, no event, no graph
    StreamMode,   \* "informer" or "polling"
    MaxChanges,   \* bound on the changes of the cluster
    MaxFailures   \* bound on the collects that fail

CategoryOrder == <<"workload", "pod", "service", "storage", "event", "identity/security">>

ASSUME ObjectsAssumption ==
    /\ Objects \subseteq Nat
    /\ Category \in [Objects -> {CategoryOrder[i] : i \in DOMAIN CategoryOrder}]
ASSUME NoneAssumption == None \notin Objects /\ None \notin [Objects -> Nat]
ASSUME ModeAssumption == StreamMode \in {"informer", "polling"}
ASSUME BoundsAssumption == MaxChanges \in Nat /\ MaxFailures \in Nat

VARIABLES
    cluster,    \* cluster[o]: the live version
    changes,    \* changes of the cluster so far
    failures,   \* failed collects so far
    stage,      \* what the stream's goroutine is doing
    snap,       \* the snapshot it has collected, or None
    event,      \* the object of the event being applied, or None
    stream,     \* "none", "syncing", "informer", "polling", "stopped"
    watched,    \* categories whose informer has its initial list
    queue,      \* events in the informers' channel, by object
    seen,       \* PollingStream.lastSnapshot, or None before the first tick
    tick,       \* the snapshot of the tick that emitted the current event
    kernel,     \* kernel[o]: the version loaded, or None before bootstrap
    status,     \* Manager.status
    facade,     \* the status the facade holds, or None before bootstrap
    applied,    \* history: calls of Apply that returned nil
    blind       \* history: objects with a change that no stream will report

clusterVars == <<cluster, changes>>
streamVars == <<stream, watched, queue, seen, tick>>
managerVars == <<kernel, status, facade, applied>>
vars == <<clusterVars, failures, stage, snap, event, streamVars, managerVars, blind>>

Live(v) == v % 2 = 1
Categories == {Category[o] : o \in Objects}

-----------------------------------------------------------------------------
(* Status records: phase, Ready, LastError # "", and the two sums of the     *)
(* counters of full rebuilds and of scoped updates.                          *)

Status(phase, ready, error, fulls, narrows) ==
    [phase |-> phase, ready |-> ready, error |-> error, fulls |-> fulls, narrows |-> narrows]

applyBootstrapResultResets(st) == Status("ready", TRUE, FALSE, st.fulls + 1, 0)
applyBootstrapResult(st) == Status("ready", TRUE, FALSE, st.fulls + 1, st.narrows)
markDegradedNotReady(st) == Status("degraded", FALSE, TRUE, st.fulls, st.narrows)
markDegraded(st) == Status("degraded", st.ready, TRUE, st.fulls, st.narrows)
incrementStrategy(st) == Status("ready", TRUE, FALSE, st.fulls, st.narrows + 1)

(* Both callers in Apply's reach mirror the status to a facade that exists. *)
setFacadeRuntimeStatusForgotten(st) == facade
setFacadeRuntimeStatus(st) == IF facade = None THEN None ELSE st

-----------------------------------------------------------------------------
(* The cluster.  A change is reported when an informer watches its category  *)
(* or a polling stream has its baseline.  One after the bootstrap's collect  *)
(* and before either is not: an informer's initial list makes no events.     *)

Reported(o) ==
    \/ Category[o] \in watched
    \/ seen # None \/ (stage = "tick" /\ snap # None)
    \/ stage = "start" \/ (stage = "bootstrap" /\ snap = None)

ChangeObject(o) ==
    /\ changes < MaxChanges
    /\ changes' = changes + 1
    /\ cluster' = [cluster EXCEPT ![o] = @ + 1]
    /\ queue' = IF Category[o] \in watched THEN Append(queue, o) ELSE queue
    /\ blind' = IF Reported(o) THEN blind ELSE blind \cup {o}
    /\ UNCHANGED <<failures, stage, snap, event, stream, watched, seen, tick, managerVars>>

-----------------------------------------------------------------------------
(* Manager.Start *)

Start ==
    /\ stage = "start"
    /\ stage' = "bootstrap"
    /\ status' = Status("bootstrapping", FALSE, FALSE, 0, 0)
    /\ UNCHANGED <<clusterVars, failures, snap, event, streamVars, kernel, facade, applied, blind>>

Collecting == stage \in {"bootstrap", "narrow", "full", "tick"} /\ snap = None

Collect ==
    /\ Collecting
    /\ snap' = cluster
    /\ UNCHANGED <<clusterVars, failures, stage, event, streamVars, managerVars, blind>>

Fail == Collecting /\ failures < MaxFailures /\ failures' = failures + 1

(* main exits when Start returns an error. *)
BootstrapFail ==
    /\ Fail /\ stage = "bootstrap"
    /\ stage' = "exited"
    /\ status' = markDegraded(status)
    /\ UNCHANGED <<clusterVars, snap, event, streamVars, kernel, facade, applied, blind>>

(* runContinuousStream starts right after Start. *)
Bootstrap ==
    /\ stage = "bootstrap" /\ snap # None
    /\ kernel' = snap
    /\ status' = applyBootstrapResult(status) /\ facade' = status'
    /\ stage' = "idle" /\ snap' = None
    /\ stream' = IF StreamMode = "informer" THEN "syncing" ELSE "polling"
    /\ UNCHANGED <<clusterVars, failures, event, watched, queue, seen, tick, applied, blind>>

-----------------------------------------------------------------------------
(* InformerStream.Run *)

InitialList(c) ==
    /\ stream = "syncing" /\ c \notin watched
    /\ watched' = watched \cup {c}
    /\ UNCHANGED <<clusterVars, failures, stage, snap, event, stream, queue, seen, tick,
                   managerVars, blind>>

CacheSynced ==
    /\ stream = "syncing" /\ watched = Categories
    /\ stream' = "informer"
    /\ UNCHANGED <<clusterVars, failures, stage, snap, event, watched, queue, seen, tick,
                   managerVars, blind>>

(* The stream ends: the events still in its channel go with it.  A fresh     *)
(* polling stream follows.                                                   *)
FallBack(dropped) ==
    /\ stream' = "polling"
    /\ watched' = {} /\ queue' = <<>>
    /\ blind' = blind \cup dropped \cup {queue[i] : i \in DOMAIN queue}

SyncTimeout ==
    /\ stream = "syncing" /\ stage = "idle"
    /\ failures < MaxFailures /\ failures' = failures + 1
    /\ FallBack({})
    /\ UNCHANGED <<clusterVars, stage, snap, event, seen, tick, managerVars>>

TakeEvent ==
    /\ stream = "informer" /\ stage = "idle" /\ queue # <<>>
    /\ event' = Head(queue) /\ queue' = Tail(queue)
    /\ stage' = "narrow"
    /\ UNCHANGED <<clusterVars, failures, snap, stream, watched, seen, tick, managerVars, blind>>

-----------------------------------------------------------------------------
(* PollingStream.tick.  One object of the first category that differs is     *)
(* reported; an object that exists comes before one that is gone.            *)

TickOverlaps ==
    /\ stream = "polling" /\ stage \in {"idle", "narrow"}
    /\ stage' = "tick"
    /\ UNCHANGED <<clusterVars, failures, snap, event, streamVars, managerVars, blind>>
TickOnce ==
    /\ stream = "polling" /\ stage = "idle" /\ seen = None
    /\ stage' = "tick"
    /\ UNCHANGED <<clusterVars, failures, snap, event, streamVars, managerVars, blind>>
Tick ==
    /\ stream = "polling" /\ stage = "idle"
    /\ stage' = "tick"
    /\ UNCHANGED <<clusterVars, failures, snap, event, streamVars, managerVars, blind>>

Least(S) == CHOOSE x \in S : \A y \in S : x <= y

(* A version stands for a fingerprint, which holds the fields the graph is   *)
(* built from.                                                               *)
Differs(old, new, o) == old[o] # new[o]
Changed(old, new, kind) == {o \in Objects : Category[o] = kind /\ Differs(old, new, o)}

firstChangedKind(old, new) ==
    CategoryOrder[Least({i \in DOMAIN CategoryOrder : Changed(old, new, CategoryOrder[i]) # {}})]
firstChangedRef(changed, new) ==
    LET present == {o \in changed : Live(new[o])}
    IN  Least(IF present # {} THEN present ELSE changed)
changedObjectRef(old, new) ==
    firstChangedRef(Changed(old, new, firstChangedKind(old, new)), new)

FirstTick ==
    /\ stage = "tick" /\ snap # None /\ seen = None
    /\ seen' = snap
    /\ stage' = "idle" /\ snap' = None
    /\ UNCHANGED <<clusterVars, failures, event, stream, watched, queue, tick, managerVars, blind>>

QuietTick ==
    /\ stage = "tick" /\ snap # None /\ seen = snap
    /\ stage' = "idle" /\ snap' = None
    /\ UNCHANGED <<clusterVars, failures, event, streamVars, managerVars, blind>>

EmitTick ==
    /\ stage = "tick" /\ snap # None /\ seen # None /\ seen # snap
    /\ event' = changedObjectRef(seen, snap)
    /\ tick' = snap
    /\ stage' = "narrow" /\ snap' = None
    /\ UNCHANGED <<clusterVars, failures, stream, watched, queue, seen, managerVars, blind>>

(* A failed collect ends the polling stream; the manager is not told. *)
TickFail ==
    /\ Fail /\ stage = "tick"
    /\ stage' = "idle" /\ stream' = "stopped"
    /\ UNCHANGED <<clusterVars, snap, event, watched, queue, seen, tick, managerVars, blind>>

-----------------------------------------------------------------------------
(* Manager.Apply.  The kind of an event always plans a scoped update.        *)

(* collectSnapshot *)
NarrowCollectFail ==
    /\ Fail /\ stage = "narrow"
    /\ stage' = "full"
    /\ status' = markDegraded(status) /\ facade' = setFacadeRuntimeStatus(status')
    /\ UNCHANGED <<clusterVars, snap, event, streamVars, kernel, applied, blind>>

(* Storage and identity/security updates reload their whole category, the    *)
(* others the object of the event.                                           *)
WholeCategory == {"storage", "identity/security"}
Scope(o) == IF Category[o] \in WholeCategory
            THEN {x \in Objects : Category[x] = Category[o]}
            ELSE {o}

(* Apply returns nil: a polling stream then takes its tick as seen, with     *)
(* every change in it.                                                       *)
Returned(loaded) ==
    /\ applied' = applied + 1
    /\ stage' = "idle" /\ snap' = None /\ event' = None
    /\ IF stream = "polling"
       THEN /\ seen' = tick /\ tick' = None
            /\ blind' = blind \cup {o \in Objects \ loaded : Differs(seen, tick, o)}
       ELSE UNCHANGED <<seen, tick, blind>>
    /\ UNCHANGED <<clusterVars, failures, stream, watched, queue>>

NarrowRefusedIgnored ==
    /\ stage = "narrow" /\ snap # None /\ event \in Refused
    /\ UNCHANGED <<kernel, status, facade>>
    /\ Returned(Scope(event))
NarrowRefused ==
    /\ stage = "narrow" /\ snap # None /\ event \in Refused
    /\ stage' = "full" /\ snap' = None
    /\ UNCHANGED <<clusterVars, failures, event, streamVars, managerVars, blind>>

NarrowApplyOfLastSnapshot ==
    /\ stage = "narrow" /\ snap # None /\ event \notin Refused
    /\ LET s == IF seen # None THEN seen ELSE snap
       IN  kernel' = [o \in Objects |-> IF o \in Scope(event) THEN s[o] ELSE kernel[o]]
    /\ status' = incrementStrategy(status) /\ facade' = status'
    /\ Returned(Scope(event))
NarrowApply ==
    /\ stage = "narrow" /\ snap # None /\ event \notin Refused
    /\ kernel' = [o \in Objects |-> IF o \in Scope(event) THEN snap[o] ELSE kernel[o]]
    /\ status' = incrementStrategy(status) /\ facade' = status'
    /\ Returned(Scope(event))

FullApply ==
    /\ stage = "full" /\ snap # None
    /\ kernel' = snap
    /\ status' = applyBootstrapResult(status) /\ facade' = status'
    /\ Returned(Objects)

(* The second collect fails too: Apply returns the error, its stream ends.   *)
FullCollectFail ==
    /\ Fail /\ stage = "full"
    /\ status' = markDegraded(status) /\ facade' = setFacadeRuntimeStatus(status')
    /\ stage' = "idle" /\ event' = None
    /\ IF stream = "informer"
       THEN FallBack({event}) /\ UNCHANGED tick
       ELSE stream' = "stopped" /\ tick' = None /\ UNCHANGED <<watched, queue, blind>>
    /\ UNCHANGED <<clusterVars, snap, seen, kernel, applied>>

-----------------------------------------------------------------------------
Init ==
    /\ cluster \in [Objects -> {0, 1}] /\ changes = 0
    /\ failures = 0
    /\ stage = "start" /\ snap = None /\ event = None
    /\ stream = "none" /\ watched = {} /\ queue = <<>>
    /\ seen = None /\ tick = None
    /\ kernel = None /\ facade = None
    /\ status = Status("starting", FALSE, FALSE, 0, 0)
    /\ applied = 0 /\ blind = {}

Manager ==
    \/ Start \/ Bootstrap
    \/ Collect
    \/ NarrowRefused \/ NarrowApply \/ FullApply
    \/ CacheSynced \/ (\E c \in Categories : InitialList(c))
    \/ TakeEvent
    \/ Tick \/ FirstTick \/ QuietTick \/ EmitTick

Failure ==
    \/ BootstrapFail \/ SyncTimeout \/ TickFail
    \/ NarrowCollectFail \/ FullCollectFail

Next == (\E o \in Objects : ChangeObject(o)) \/ Manager \/ Failure

Spec == Init /\ [][Next]_vars

(* main calls Start, the informers list, and the stream's goroutine goes on  *)
(* with what it has: an event, a snapshot, the next tick of its ticker.      *)
FairSpec == Spec /\ WF_vars(Manager)

-----------------------------------------------------------------------------
(***************************************************************************)
(* Properties                                                              *)
(***************************************************************************)

Versions == [Objects -> Nat]
StatusType ==
    [phase : {"starting", "bootstrapping", "ready", "degraded"}, ready : BOOLEAN,
     error : BOOLEAN, fulls : Nat, narrows : Nat]

\* The shapes of the state; a snapshot is held only by a stage that collects,
\* the event of an Apply only while that Apply runs, and the tick that emitted
\* it only under polling.
TypeOK ==
    /\ cluster \in Versions /\ changes \in 0..MaxChanges /\ failures \in 0..MaxFailures
    /\ stage \in {"start", "bootstrap", "exited", "idle", "narrow", "full", "tick"}
    /\ snap = None \/ (snap \in Versions /\ stage \in {"bootstrap", "narrow", "full", "tick"})
    /\ IF stage \in {"narrow", "full"} THEN event \in Objects ELSE event = None
    /\ stream \in {"none", "syncing", "informer", "polling", "stopped"}
    /\ watched \subseteq Categories /\ queue \in Seq(Objects)
    /\ seen = None \/ seen \in Versions
    /\ IF stage \in {"narrow", "full"} /\ stream = "polling"
       THEN tick \in Versions /\ seen \in Versions
       ELSE tick = None
    /\ kernel = None \/ kernel \in Versions
    /\ status \in StatusType /\ (facade = None \/ facade \in StatusType)
    /\ applied \in Nat /\ blind \subseteq Objects

\* The facade's status is the manager's from bootstrap on, on every path that
\* changes it: what a query reports is what /status reports.
FacadeMirrorsStatus == facade # None => facade = status

\* Every successful Apply is counted once, as a scoped update or a rebuild, and
\* the counters survive rebuilds and degraded spells, which replace the status.
CountersAccount ==
    status.fulls + status.narrows = applied + (IF kernel = None THEN 0 ELSE 1)

\* A failed collect, before or after bootstrap, leaves queries what they had:
\* Ready is set exactly while there is a graph to read, and an error is on
\* record exactly in the degraded phase.
LastKnownGood ==
    /\ status.ready <=> kernel # None
    /\ status.error <=> status.phase = "degraded"

\* No load takes an object back to a version older than the one loaded,
\* whichever stream asked for it and however late its snapshot is applied.
NoRegress ==
    [][kernel # None => \A o \in Objects : kernel'[o] >= kernel[o]]_vars

Quiet ==
    /\ stage = "idle"
    /\ \/ stream = "informer" /\ queue = <<>>
       \/ stream = "polling" /\ seen = cluster

\* Once a stream has nothing more to report, the graph holds the current version
\* of every object, but for changes made where no stream looks: between the
\* bootstrap's collect and the informer's list or the first tick, dropped with
\* the informers' channel, or in a tick that reported another object.
FreshButBlind == Quiet => \A o \in Objects \ blind : kernel[o] = cluster[o]

\* When the cluster stops changing, the graph becomes and stays current for all
\* objects outside those blind spots, unless the stream has ended for good.
Converges ==
    <>[](\/ stage = "exited" \/ stream = "stopped"
         \/ kernel # None /\ \A o \in Objects \ blind : kernel[o] = cluster[o])

\* The documented meaning of the phases: a stream that has failed shows as
\* degraded.
StoppedIsDegraded == stream = "stopped" => status.phase = "degraded"

\* What a tick takes as seen has been loaded: the graph is kept fresh by polling.
SeenIsLoaded ==
    [][seen # None => \A o \in Objects : seen'[o] # seen[o] => kernel'[o] >= seen'[o]]_vars

-----------------------------------------------------------------------------
(***************************************************************************)
(* The inductive invariant: the parts above, and what holds between the    *)
(* steps of a stream and of an Apply.                                      *)
(***************************************************************************)

Unloaded == {"start", "bootstrap", "exited"}
Applying == {"narrow", "full"}
Queued == {queue[i] : i \in DOMAIN queue}

\* Which stages, streams and pieces of state go together.
StagesInv ==
    /\ kernel = None <=> stage \in Unloaded
    /\ stream = "none" <=> stage \in Unloaded
    /\ stage \in Unloaded => facade = None /\ applied = 0
    /\ stage = "tick" => stream = "polling"
    /\ stage \in Applying => stream \in {"informer", "polling"}
    /\ stream \notin {"syncing", "informer"} => watched = {} /\ queue = <<>>
    /\ seen # None => stream \in {"polling", "stopped"}

AtMost(a, b) == \A o \in Objects : a[o] <= b[o]

\* Versions only go up from what is loaded to what is collected to the cluster.
OrderInv ==
    /\ kernel # None => AtMost(kernel, cluster)
    /\ snap # None => AtMost(snap, cluster) /\ (kernel # None => AtMost(kernel, snap))
    /\ tick # None => AtMost(tick, cluster) /\ (snap # None => AtMost(tick, snap))

\* An object outside the blind spots is current, or on its way into the graph.
FreshInv ==
    \A o \in Objects \ blind :
        /\ stage = "bootstrap" /\ snap # None => snap[o] = cluster[o]
        /\ stream \in {"syncing", "informer"} =>
              \/ kernel[o] = cluster[o] \/ o \in Queued
              \/ stage \in Applying /\ event = o /\ (snap = None \/ snap[o] = cluster[o])
        /\ stream = "polling" /\ seen = None =>
              IF stage = "tick" /\ snap # None THEN snap[o] = kernel[o] ELSE kernel[o] = cluster[o]
        /\ stream = "polling" /\ seen # None => seen[o] <= kernel[o]

IInv ==
    /\ TypeOK /\ FacadeMirrorsStatus /\ CountersAccount /\ LastKnownGood
    /\ StagesInv /\ OrderInv /\ FreshInv

=============================================================================
