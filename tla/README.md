# kubernetes-ontology: TLA+ models, checks and proofs

`kubernetes-ontologyd` keeps an in-memory graph of a Kubernetes cluster. It
builds the graph from a snapshot of the API server, updates it as objects
change, and answers queries from it. This directory holds TLA+ models of the
parts that keep that graph right while the cluster changes, calls fail and
readers run beside the writer; the TLC configurations that check them; and
TLAPS proofs of the main results for every value of the constants.

## 1. The system

| Part | State it keeps | Operations |
|---|---|---|
| memory store, `store/memory/store.go` | `nodes`, `edges`, `neighbors`, behind one RWMutex | one critical section per method |
| kernel, `graph/kernel.go` | none of its own | `UpsertNode`, `DeleteNode`, `UpsertEdge`, `DeleteEdge`, `Neighbors`: each several store calls |
| builder and resolvers, `graph/builder.go`, `resolve/` | none | nodes and edges of a snapshot |
| scoped reconcilers, `reconcile/` | none | `Apply` for a service, pod, event, workload, and for all of storage or identity |
| collector, `collect/k8s/collector.go` | none | `Collect`: about twenty list calls in a fixed order |
| informer stream, `collect/k8s/stream.go` | a channel of 1024 change events | handlers enqueue, `Run` dequeues and applies |
| polling stream, same file | last snapshot and its hashes | `tick`: collect, compare, emit one event |
| manager, `runtime/manager.go` | kernel, facade, status, counters | `Start`, `Apply`, queries |
| daemon, `cmd/kubernetes-ontologyd` | none | bootstrap or exit; informers, then polling when they fail |
| expansion: `query/expand.go`, `ontology/backend.go` | none | `ExpandSubgraph`: a bounded walk, one backend call at a time |
| diagnosis: `query/facade.go`, `service/diagnostic/` | the facade's snapshot and status | look an entry up, walk from it within budgets |
| HTTP server, `server/http.go` | a context with a deadline per diagnostic request | one handler per query |

How they interact. `main` calls `Manager.Start`, which collects a snapshot and
builds the graph, and then runs one stream in a goroutine. The stream calls
`Manager.Apply` for one event at a time. `Apply` collects a **new** snapshot
(without the manager's lock), takes the lock and lets the reconciler of the
event's kind edit the kernel from that snapshot. If that fails it collects once
more and replaces the whole graph. Queries take the manager's read lock, except
those that go through `Manager.Ontology()`: it hands out the kernel, which is
then read with the store's lock only.

What is hard here, and hard to test:

- *Readers between the store calls of one kernel operation.* The adjacency
  index must agree with the edges at every point in between.
- *Events that are older than the snapshot they are applied with.* An event
  carries a namespace, a name and "upsert" or "delete"; by the time it is
  applied the object may have been recreated, twice.
- *Snapshots that no moment of the cluster matches,* because the lists are read
  one after the other.
- *Scoped updates that must add up to a full rebuild,* although each one only
  repairs the edges of its own object or category.
- *Walks over a graph that changes under them.* An expansion makes many backend
  calls without the manager's lock; a scoped update deletes an edge and puts it
  back between two of them.
- *Answers that are cut short* by a depth, a limit or a budget, and must still
  hang together and say so.
- *Waiting:* queries for the lock of an `Apply`, an `Apply` for the queries, a
  request for a deadline.
- *Gaps:* between bootstrap and the informers' list, when a stream fails with
  events in its channel, between two ticks.
- *Failures halfway:* a collect that fails in a scoped update, in the rebuild
  that follows, in a tick; the status must tell.

What makes each part correct: the kernel's index is sound and complete; the
graph at rest is the one a rebuild would make; image nodes exist exactly while
used; a name has one incarnation; loads never go back; the status is truthful;
whatever a stream can see gets into the graph. A query's result is connected,
within its depth, complete unless marked or limited, and always comes.
`PROJECT.json` lists the hazards
line by line with the properties aimed at each.

## 2. Modules

| Module | Models | Composed of |
|---|---|---|
| `SharedGraph` | what the kernel promises to those who share it without a lock (abstract) | |
| `Kernel` | store and kernel, one writer and one reader | implements `SharedGraph` |
| `KernelProofs` | its proofs | `Kernel` |
| `Subgraph` | what "connected" means | |
| `WalkProofs` | how adding an edge keeps it, and induction over the naturals | `Subgraph` |
| `Expansion` | `GET /expand` beside a writer | built on `SharedGraph`, `Subgraph` |
| `ExpansionProofs` | its proofs | `Expansion`, `WalkProofs` |
| `Diagnostic` | entry look-up, rules, and the diagnostic walk | `Subgraph` |
| `Queries` | `GET /diagnostic`, its deadline, the manager's lock, the writer, other readers | `Diagnostic` |
| `QueriesProofs` | its proofs | `Queries`, `WalkProofs` |
| `Ontology` | the graph of a snapshot: identities, resolvers, builder (operators only) | |
| `Reconcilers` | every scoped `Apply` as a function on graphs | `Ontology` |
| `ReconcilersProofs` | what each `Apply` does to the nodes and image edges, and what a rebuild loads | `Reconcilers` |
| `LiveGraph` | cluster, informers, collector, manager at work on that graph | `Reconcilers` |
| `LiveGraphProofs` | its proofs: types, images, nodes | `LiveGraph`, `ReconcilersProofs` |
| `LiveEdgesProofs` | its proofs: edges | `LiveGraphProofs` |
| `Runtime` | bootstrap, both streams, fallback, failures, status | |
| `RuntimeProofs` | its proofs | `Runtime` |
| `MCKernel`, `MCRuntime`, `MCExpansion`, `MCQueries` | instances | |
| `MCObjects`, `MCPods`, `MCScopes`, `MCWorkloads`, `MCKept`, `MCReplicaSet`, `MCPodEvents` | instances of `LiveGraph` for a slice of the object kinds each | |

Some operators have a sibling with a suffix (`pruneImagesForgotten` beside
`pruneImages`): a plausible mistake in that code, which `PROJECT.json` pairs with
the property that notices it. No specification uses them.

### Kernel

An edge stands for its own key. `neighbors` is the map of the code: an id has an
entry from its first key to its last. Each `Store` method is one step, since it holds
the store's mutex throughout; each `Kernel` method is a sequence of them, driven
by `wpc`. `UpsertEdge` is three steps (the store's `UpsertEdge` and two
`AddNeighbor`), `DeleteEdge` up to four, `DeleteNode` lists the incident edges
and deletes them one by one before the node. There is one writer because all
writers hold `Manager.mu`. The reader runs `Neighbors`: the keys in one step,
then each edge in a step of its own. `rstable` is a history variable: the edges
of the node that stayed in place since the read began.

### SharedGraph

The abstract graph: nodes and edges come and go one at a time, a node only when
no edge touches it, an edge in two steps between which readers may or may not see
it. A read of a node's edges collects what is there and returns no sooner than it
has every edge that stayed. `Kernel` implements it under the mapping
`leaving <- edges \ Settled` (`Settled`: the edges whose deletion has not begun),
`reading <- rid`, `must <- rstable`, `got <- rgot`. The store's section of
`UpsertEdge` stores the edge and indexes it at both ends at once, which is
`AddEdge`; the two further `AddNeighbor` calls are stutters. `DeleteEdge` maps to
`BeginRemoveEdge` when it finds the edge in the list, its two `RemoveNeighbor`
calls are stutters (readers may or may not see the edge meanwhile), and the
store's own `DeleteEdge` is `EndRemoveEdge`. The last step of `DeleteNode` is
`RemoveNode`, whose guard is why every incident edge must be gone by then.
`Expansion` uses the abstract graph instead of the kernel, which keeps its state
space small, and the refinement says that it may.

### Expansion

One handler of `GET /expand`: `Receive` checks the options and fills the defaults
in, `GetRoot` looks the root up, then one action per loop turn of
`ExpandSubgraph`: take a node of the frontier (`NextNode`), read its edges
(`ReadEdge`, `ReadDone` with the backend's filter and limit), look at each
relation (`VisitRelation`), end the node and the level. `Churn` is the writer in
`Manager.Apply`, free to edit the named nodes and edges between any two calls.
`Cancel` is a client that went away, noticed by the next backend call. Frontiers
and results are sets: the code sorts frontiers by id, an order that says nothing
about the graph. `stableN`, `stableE` and `limited` are history variables for
`StableReachComplete`. The handler's two short stays in the manager's lock, before
and after the walk, are not modelled here; `Queries` has that lock.

### Diagnostic and Queries

`Diagnostic` follows `service/diagnostic/service.go`: `DiagnosticPolicy`,
`shouldTraverseFrom`, `isTerminalNode` rule by rule, and the walk as one action
per turn: `NextNode`, then for each of its edges `SkipEdge` (the rules do not
follow it), `LeaveOut` (a budget is spent; the reason is recorded) or `TakeEdge`.
Entries are looked up in the snapshot's lists first and then among the nodes, as
`FindEntryID` does. `Steps`, `WalkEnds`, `ReachableNodes` and `ReachableEdges`
are the reference: everything the rules reach in any number of visits, without
budgets.

`Queries` puts the walk behind `Manager.mu`. `rLockContext` tries the lock, waits
for a timer or the context, tries again; the walk asks its context before every
level, node and edge; after the walk `RuntimeStatus` takes the lock once more for
the freshness of the answer, without the deadline. The lock is Go's RWMutex: a
waiting writer keeps new readers out, and its `Unlock` lets the blocked ones in.
`Apply` waits, writes (any sequence of loads: a half-applied update is one of
them) and unlocks. Other readers come and go, up to `MaxOthers` at a time. A load
has nodes, edges and the pods and workloads its snapshot lists, which need not
agree: the snapshot may be ahead of the graph. Ranking, Helm context, warnings,
recipes and lanes are texts computed from the result and left out.

### Ontology and Reconcilers

Objects are records with the fields the graph depends on. `ID` gives the
canonical id, with the `/` to `_` conversion of `normalize` for the names listed
in `Slashed`. `BuildNodes` and `BuildEdges` are the builder; owner chains are
the closure of the owner relation, which is what the recursive, cycle-guarded
resolver computes. Where the builder takes the first webhook of a map iteration,
`pick` is any choice of one webhook per failed event. Attributes, provenance,
counts in results and Helm evidence are left out.

`Reconcilers` follows `internal/reconcile` function by function: which nodes and
edges an `Apply` clears, in which order, and which it puts back from the
snapshot. Edges to nodes that are not in the graph are kept, as in the code.

### LiveGraph

The cluster changes by creating, updating and deleting objects built from
`Templates`; a recreated object gets a new uid, and fields that Kubernetes does
not let an update change are respected. Each informer delivers in order, but the
order between informers is open. Every deletion is taken to be reported by a delete
event of its own. That holds while the watch of an informer does; after a gap in it
client-go may report an object that was deleted and created anew as one update, and
then the updates that upsert by id (`service.go:52`) leave the node of the old uid
in the graph. Gaps of a watch are not modelled. The manager takes an event, collects list by
list (`CollectList`, in the collector's order, the cluster moving in between) and
applies. `CollectFail` and `RejectNarrow` lead to the full rebuild. Behaviours
start with a bootstrapped graph and synced informers; how the daemon gets there
and what it loses on the way is `Runtime`'s subject.

### Runtime

The graph is reduced to the version of each object loaded last, and an object to
a number (its rank among namespace/name keys) and a category. Versions go up with
every change and are odd while the object exists. A collect is one step that may
fail. `stage` is what the stream's goroutine is doing, `stream` which stream runs.
`blind` is a history variable: objects with a change that no stream will report,
namely one made after bootstrap's collect and before the informer of its
category has listed or polling has its baseline, one dropped with the informers'
channel, and one that shared a tick with the reported change. A scoped update
reloads its object, or all of storage or identity. `Refused` objects stand for
those whose scoped update returns an error (cluster-scoped custom workloads).

## 3. Runs

| Run | Bounds | Shows |
|---|---|---|
| `kernel` | 2 ids, 1 kind: 4 edges with self-loops; ids symmetric; no bound on operations | index sound, complete and without empty entries inside every operation; `Neighbors` misses no edge that stays; `DeleteNode` leaves none; `ImplementsSharedGraph` |
| `pods` | 2 pod names with 2 variants each, one owned by a deployment, a service with 2 selectors, images whose ids collide, an event blamed on a webhook; 4 changes, 1 failed collect | nodes and edges at rest are those of a rebuild; image nodes exact and one incarnation per name at every moment; an update takes images from its own pod only |
| `scopes` | claim, volume, class, driver, CSI pods; accounts, role bindings; 3 changes, 1 failed collect | the two whole-category updates end in the rebuild's graph |
| `workloads` | deployment, ReplicaSet, pod, a job and a custom resource that own each other, controller rule, an event blamed on either of 2 webhooks, refused cluster-scoped workload; 3 changes | workload, pod and event updates end in the rebuild's graph; the edge to a webhook may move but does not double |
| `kept` | a pod that events report on and a CSI node agent, both replaced; a pod with a claim and a node; a deployment its owner releases; a service, a pod relabelled out of its selector, a claim, a controller rule; 3 changes | the edges of `KeptKinds` at rest are those of a rebuild, although others are not |
| `runtime` | 4 objects in 3 categories, 3 changes, 2 failures, informers with fallback | status truthful, no regress, fresh outside blind spots, and convergence |
| `expansion` | 3 nodes, a path, a triangle and a graph with dangling edges; 8 requests with depths 0 to 5, all directions, a kind, limits 1, 2 and default; 4 steps of the writer | result connected, within depth in the direction asked for, complete for what stays unless the limit cut it, always answered |
| `queries` | 13 ids, 3 loads (storage down to CSI agents; workloads and Helm; a snapshot ahead of its graph), 12 requests, 2 other readers, no bound on loads | partial exactly when something is missing, connected, every request answered, `Apply` not starved |
| `replicaset_removed` | 2 changes | violation, finding 1 |
| `pod_events` | 4 changes | violation, finding 2 |
| `stream_stopped`, `polling_batch` | 1 or 2 changes | violations, findings 3 and 4 |

Why the bounds are enough for the interesting cases. Four changes let a pod be
deleted, recreated, updated and deleted again while the first event is still
being collected for; the slices with three changes have more objects, and a
delete, a recreate and one concurrent change of a related object fit. Two
failures make a fallback followed by the end of polling, or two failed collects
of one `Apply`. Three changes make two in one tick and one during the apply. In
`expansion` three nodes are enough for a node to be met on two levels and from two
sides, and four writes for an edge to go and come back, or a node to go with its
edge, during one read. In `queries` the budgets of 4 nodes and 3 edges fall in the
middle of the storage chain, and the loads between them meet every rule of
`shouldTraverseFrom` and `isTerminalNode`.

Deadlock is not checked in the runs with a bound on changes: once it is used up
and all events are applied the daemon waits for more, as it should. The kernel
run checks deadlock.

`NodesMatchRebuild`, `EdgesMatchRebuild` and `KeptEdgesMatchRebuild` compare at rest (no event queued or
applied). Edges are compared where both ends are nodes of the graph: a scoped
update may leave an edge to a pod that was deleted before its own event was
applied. Such an edge is outside what these properties say: expansion skips
it, while relation lists, counts and the diagnostic walk still show it.

### Fairness

`Converges` assumes `WF_vars(Manager)`: the daemon's own goroutines take a step
when one stays possible. The Go scheduler gives that; `main` calls `Start`
unconditionally, informers list until they succeed or the timeout fires, the
stream's loop always goes on to its next event, and the ticker ticks forever.
Nothing is assumed of the cluster, of failures or of timeouts.

`ExpansionEnds` assumes `WF_vars(Walk)`: the handler's goroutine runs. Nothing is
assumed of the writer or of the client.

`Answered` and `ApplyNotStarved` assume weak fairness of the handler, of the
deadline (`Expire`: time passes), of the writer's `Acquire` and `Unlock` (an
`Apply` under the lock makes no API call, so it ends) and of other readers
letting go (`OtherUnlock`: they run a bounded walk or copy a status), and strong
fairness of `RLockTimeout`: when the context has ended, each round of
`rLockContext` can see it, and with the timer just started it does. `Lock` and
`OtherLock` have no fairness: nobody need come. That `Apply` is not starved rests
on RWMutex keeping new readers out, not on fairness; the mutant
`ReadersPassWriter` shows it.

### Findings

1. **ReplicaSet deletion removes its Deployment's node.**
   `changeEventForInformerObject` gives a ReplicaSet's event the owner's name and
   keeps "delete"; `WorkloadReconciler.Apply` then deletes the owner. Cleaning up
   an old revision is enough. Nothing restores the node until the Deployment
   changes again.
2. **A late delete event drops event edges.** The delete event of a pod's first
   incarnation deletes the node of the second by name; the second's own event
   brings the node back, not its `reported_by_event` edge.
3. **A stopped stream looks ready.** A tick whose collect fails ends polling;
   the phase stays `ready`. The design lists "change stream failed" under
   `degraded`.
4. **A tick reports one of several changes** and takes all of them as seen.

Two more disagreements with a rebuild show in the models without a run of their own.
Changes between bootstrap's collect and the informers' list are lost, as the handlers
ignore the initial list: one of the blind spots that `Runtime` names. And the pods of
a released workload keep its former owner. Owners are resolved along the whole
chain, so a pod has edges with its Deployment and with the custom resource that owns
the Deployment. When the Deployment loses that owner, its update clears the edges
that end in the Deployment (`workload.go:189`); those between the pod and the custom
resource stay, and no event about either need come. `MCKept.cfg` with
`EdgesMatchRebuild` as its invariant leads TLC there after one change.

## 4. Proofs

TLAPS proves the following for all constants that satisfy the modules' ASSUMEs:
`None` is not one of the values it stands beside; objects are numbers with a
known category (`Runtime`) or records with the fields of their kind, the initial
ones with distinct keys (`LiveGraph`); loads hold known ids, and request options
are integers, of any sign (`Queries`); the bounds are numbers. Three theorems,
`LiveNodesMatchRebuild`, `LiveKeptEdgesMatchRebuild` and `LiveEdgesMatchRebuild`,
have hypotheses of their own, explained below. The inductive invariants named here
are in the modules themselves and TLC has checked each of them on instances of its
module.

`KernelProofs`. The index properties are not inductive by themselves:
`DeleteNodeDrop` throws a node's index entry away, which is harmless only because
`DeleteNode` has by then deleted every edge it listed and no edge was added in
between. An entry that is missing and one without keys are told apart: the lemmas on
`AddNeighbor`, `RemoveNeighbor` and `DropEntry` say what each does to the keys of an
id and that no entry is left empty. `IInv` adds the list of `DeleteNode` (`DeleteNodeListsAll`), what the writer's local state
means at each `wpc` (`WriterInv`), and for the reader that every stable edge has
been returned or is still to be looked up (`ReaderInv`). From it:
`KernelTypeCorrect`, `KernelIndexSound`, `KernelIndexComplete`,
`NeighborsComplete`, `DeleteNodeClean`, and the refinement
`KernelImplementsSharedGraph`: initial states map to initial states, and each
store call maps to one action of `SharedGraph` or to a stutter.

`WalkProofs`. `Connected(N, E, root)` says that no part of `N` without the
root is cut off by `E`: a set that contains the root and is closed under edges of
`E` between nodes of `N` is all of `N`. Stated over sets and not over paths, it
needs no induction: an edge between two nodes of `N` keeps it
(`EdgeKeepsConnected`), and so does a new node with an edge to one of `N`
(`NodeKeepsConnected`). The module also has induction over the naturals, stated for
sets of numbers rather than for predicates (`NaturalInduction`), and that a first
value and a step make a sequence of values (`NaturalRecursion`).

`ExpansionProofs`. `IInv` ties what the walk holds to its result: the frontier and
the next level are in it, the node being read is in it, and every relation still
to be looked at touches it. That is what lets `VisitRelation` take an edge only
next to a node that is already connected, whatever the writer did in between.
From it: `ExpansionTypeCorrect`, `ExpansionConnected`.

`LevelInv` is what keeps the walk within its depth: at level `depth` the nodes
found are those within `depth` steps over the edges taken, the next level those
one step further, so a node met again later never moves. From it
`ExpansionWithinDepth`. `StableInv` is completeness on the way: as long as the
limit has not struck, everything that is still stable and within `depth` steps is
expanded or in the frontier, and each expanded node has its stable edges in the
result (`Finished`), but for those the current read or its relations still owe.
The writer can only shrink what is stable, hence what is owed (`FewerWanted`).
From it `ExpansionComplete`. Both compare with `Within`, a recursive function. Its
equations hold only if such a function exists; the ends of paths are one
(`WithinEquations`), and from then on induction over the depth is
`NaturalInduction`.

`QueriesProofs`. `IInv` says the same of the diagnostic walk (`WalkInv`) and that
nobody holds the lock while `Apply` writes, so that the graph is the same at every
turn. From it: `QueriesTypeCorrect`, `DiagnosticConnected`, for every kind map,
policy, budget, load and number of readers.

`ExactInv` makes `PartialExactly` inductive. The walk expands a node only when it
first meets it, while `WalkEnds` counts every visit at every depth. The rules
never allow more at a greater depth (`RulesNarrow`), so what a later visit would
follow was followed at the first: `NothingMissed` says that a node which waits in
no frontier has all edges the rules still allow in the result, but for those of
the current node that are still to be looked at. `WithinRules` is the other half,
nothing but what the rules reach. `BudgetsUsedUp` says that a budget which left
something out is used up, so that what it left out stays out. That an edge brings
at most one new node (`OneNewNode`) and that a policy never has a budget of zero
(`PolicyOfRequest`) are both needed for that. `WalkEndsEquations` gives the
recursive reference its equations, by `NaturalRecursion`. From it
`DiagnosticExact`.

`ReconcilersProofs`. For each `Apply`, which nodes come and go and what becomes
of the image edges: a scoped update of a pod, service, event or workload replaces
the nodes of its namespace and name by those of the snapshot and leaves every
other node alone (`ScopedUpdate`), a category's update leaves exactly the
snapshot's nodes of that category, and every one of them keeps image edges between
pods and images of the graph (`ImageGraph`). `BuildClosed`: no edge of a rebuild
dangles.

`LiveGraphProofs`. `IInv` holds whatever the cluster does: objects look like their
templates, a snapshot has one object of a key although it is read list by list
(no list is read twice), the image edges are well formed and a pod's name has one
incarnation. From it `LiveTypeCorrect`, `LiveOnePodPerName`, `LiveImagesAreUsed`
and the action property `LiveSharedImagesSurvive`, for every cluster, number of
changes and order of events.

`RebuildInv` is why scoped updates add up to a rebuild. In each place where
the graph or the lists read so far differ from the cluster, an event that says so
is outstanding: an upsert for what is missing, a delete for what is left over
(`NodesAreTold`, `ListsAreTold`), and a delete event about an object that is alive
again has an upsert behind it in the same informer's queue (`DeletedAndBack`). A
category with no event outstanding is what the cluster has of it
(`CategoriesInStep`). At rest nothing is outstanding, so nothing differs:
`LiveNodesMatchRebuild`. Its hypothesis `ScopesDisjoint` says that what changes is
watched by an informer, that no ReplicaSet comes or goes, and that a workload that
changes shares its namespace and name with no workload of another resource. The
code needs each part: nothing reports a change of what is not watched; the event
of a ReplicaSet takes its Deployment's node away (finding 1); and
`WorkloadReconciler` clears by namespace and name, so the delete event of a Job
removes the node of a Deployment with the same name. The `pods`, `scopes` and
`workloads` instances satisfy it, which TLC evaluates as an ASSUME of each.

`LiveEdgesProofs` goes edge by edge. `Affects(ev, e)` says which events bear on an
edge: those about one of its ends, or about an object that the builder's decision
on it depends on, such as any pod or workload for an edge that a controller rule
infers. `EdgesInStep(K)` is the invariant: an edge of a kind in `K` whose ends the
graph has, and which no outstanding event affects, is there exactly if a rebuild of
the cluster would load it. Three facts carry it through the steps.

- `Decided`: two sets of objects that differ only in objects which do not affect an
  edge agree on it. So a change of the cluster is harmless, because its event is
  outstanding from then on (`ChangeEdges`), and a snapshot read list by list is as
  good as the cluster for every edge that no waiting event affects
  (`SnapshotAgrees`).
- `NarrowEdges`: a scoped update leaves the edges that its event does not affect
  alone, and decides anew, from the snapshot, on those of the kinds it rebuilds
  (`Reloads`).
- `TemplatesReload`: for the kinds in `K`, what an event affects its update decides
  anew. This is where the hypotheses come in, and where the code falls short of a
  rebuild for some kinds.

The rest of `EdgesInv(K)` is what these need: every edge in the graph joins ends of
kinds that fit (`WellMade`), an event's edges do not outlive its node
(`ReportsHeld`), and the event being applied is about something that may change.
An edge may stay that has an end the graph lacks, and `EdgesInStep` says nothing of
it until the end comes, which takes an event that affects it. Images are the
exception, as they come without an event: there only the pod has to be present
(`EndsIn`).

`LiveKeptEdgesMatchRebuild` is the result for `KeptKinds`, under `ScopesDisjoint`
alone. `LiveEdgesMatchRebuild` is the result for all edges. Its second hypothesis,
`RestStays`, names what the scoped updates do not follow up. Workloads stay
(`OwnersStay`; a released workload, section 3). Pods of CSI components stay, as do pods with a claim and
a node, which decide on whose behalf a node agent serves a volume
(`ComponentsStay`; only storage updates rebuild those edges). And nothing changes
in a category that events report on (`ReportsStay`; finding 2). `RestStays` is
sufficient and not necessary: the `workloads` run has workloads that change, and
`EdgesMatchRebuild` holds there. For the edges to webhooks, where the code chooses
by map iteration, `WebhooksInStep` says that with no event of an event outstanding
they are those of a rebuild for some choice; only the update of an event and a full
rebuild touch them while workloads stay, and both replace them all. TLC evaluates
the hypotheses as ASSUMEs: both on the `pods` and `scopes` instances,
`ScopesDisjoint` alone on `kept` and `workloads`.

`RuntimeProofs`. `IInv` adds which stages, streams and pieces of state go
together (`StagesInv`), that versions only go up from graph to snapshot to
cluster (`OrderInv`), and that an object outside the blind spots is current or on
its way (`FreshInv`): under informers it is current, queued or being applied;
under polling the last seen version is at most the loaded one, so that a tick
which finds nothing new also finds the graph current. Each part has a lemma with
one step per action. From it: `RuntimeTypeCorrect`, `StatusMirrored`,
`ApplyCounted`, `ReadinessTruthful`, `FreshOutsideBlindSpots`, `LoadsNeverRegress`. The choice of the reported object
rests on `LeastIsMember`, by well-foundedness of `<`.

Only model-checked:

- `Converges`, `ExpansionEnds`, `Answered`, `ApplyNotStarved`: liveness under
  fairness is out of the prover's reach.
- `EdgesMatchRebuild` of clusters whose workloads change (the `workloads` run).
  It does not hold for all of them, as a released workload shows (section 3).

## 5. Not modelled, and why

- Helm evidence (`graph/helm.go`): only a full rebuild derives it, and no scoped
  update maintains it, so with it in `Ontology` the graph at rest would differ from
  a rebuild after every change of a labelled object. That is how the code is
  built, and stated here rather than checked.
- Edges from CSI drivers and volumes to component pods that are recreated are
  modelled and are wrong at rest: the pod's own update does not rebuild them. The
  `scopes` run keeps such pods in place, the `kept` run replaces one and leaves
  these edges out of what it compares.
- The handlers that list entities and relations or look up one of them, and the
  writing half of the ontology backend, which nothing in the daemon calls.
- What is computed from a finished diagnostic result: ranked evidence, Helm
  conflicts, warnings, recipes.
- HTTP parsing and encoding, CLI, viewer, OWL export, configuration, resource
  normalisation: stateless conversions.
- The capacity of the event channel, resyncs, gaps in an informer's watch, real time, node and edge counts in
  the status, and list calls that are forbidden at one time and allowed at another.

Three things about queries that the models show and no property forbids: an
expansion whose limit cut it does not say so in its answer, and may have fewer
edges than the limit, because relations already in the result count against it
(`expand.go:82`); an entry of a terminal kind, such as a Helm chart, is returned
alone under the default policy (`service.go:110`); and a pod or workload that the
last snapshot lists but the graph does not have yet is an internal error, not a
missing entry (`facade.go:238`, `service.go:84`).

## 6. Plan

Done: `Kernel` with proofs and its abstract specification; `Ontology`,
`Reconcilers`, `LiveGraph` with four slices and proofs; `Runtime` with proofs;
`Expansion`, `Diagnostic` and `Queries` with proofs. Every safety property of a
passing run is proved, `EdgesMatchRebuild` under hypotheses.

1. A weaker hypothesis than `OwnersStay` for the owner edges: workloads that come
   and go with no owner chain longer than one.
2. An abstract specification of the live graph ("eventually the rebuild of the
   cluster") and `LiveGraph` shown to implement it; `Runtime` as an abstraction of
   `LiveGraph` for one category.
