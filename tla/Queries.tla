------------------------------ MODULE Queries ------------------------------
(***************************************************************************)
(* GET /diagnostic beside Manager.Apply: the handler and its deadline      *)
(* (server/http.go), Manager.QueryDiagnosticSubgraph, which polls for the  *)
(* read lock of Manager.mu and walks under it, RuntimeStatus, which waits  *)
(* for the same lock again for the freshness of the answer, and the writer *)
(* (runtime/manager.go).                                                   *)
(*                                                                         *)
(* One client in detail; other readers only hold the lock for a while.     *)
(* The daemon listens once its bootstrap is done: there is always a graph. *)
(***************************************************************************)
EXTENDS Diagnostic

CONSTANTS Loads,      \* what a load may leave behind
          Requests,   \* queries: kind, name and options
          MaxOthers   \* other readers at a time (a bound on the model)

ASSUME LoadsAssumption ==
    /\ \A l \in Loads : l.nodes \subseteq Ids /\ l.edges \subseteq Edge /\ l.listed \subseteq Ids
    /\ MaxOthers \in Nat

ASSUME RequestsAssumption ==
    \A o \in Requests : {o.maxDepth, o.storageMaxDepth, o.maxNodes, o.maxEdges} \subseteq Int

VARIABLES
    pc,       \* what the handler does next, or what it answered
    expired,  \* the request's 25 seconds are over
    req,      \* the request
    wpc,      \* Apply: "idle", "waiting" for the lock, or "writing" under it
    others    \* other goroutines that hold the read lock

handler == <<pc, expired, req>>
lock == <<wpc, others>>
vars == <<load, walk, handler, lock>>

Answers == {"ok", "timeout", "invalid", "notFound", "internal"}

(* The handler has the read lock of Manager.mu. *)
Holding == pc \in {"find", "walk", "admitted"}

\* The shapes of the loads, the walk and the handler, and the lock: nobody reads
\* while Apply writes.
TypeOK ==
    /\ load \in Loads
    /\ pc \in {"idle", "lock", "wait", "find", "walk", "fresh", "blocked", "admitted"} \cup Answers
    /\ expired \in BOOLEAN
    /\ wpc \in {"idle", "waiting", "writing"}
    /\ others \in 0..MaxOthers
    /\ wpc = "writing" => others = 0 /\ ~Holding
    /\ root \in Ids /\ current \in Ids /\ depth \in Nat
    /\ frontier \in Seq(outN) /\ nextFrontier \in Seq(outN)
    /\ todo \subseteq Edge /\ outN \subseteq Ids /\ outE \subseteq Edge
    /\ reasons \subseteq {"maxNodes", "maxEdges"}

Init ==
    /\ load \in Loads /\ req \in Requests
    /\ pc = "idle" /\ expired = FALSE
    /\ wpc = "idle" /\ others = 0
    /\ policy = DiagnosticPolicy(req)
    /\ \E id \in Ids : root = id /\ current = id
    /\ depth = 0 /\ frontier = <<>> /\ nextFrontier = <<>> /\ todo = {}
    /\ outN = {} /\ outE = {} /\ reasons = {}

-----------------------------------------------------------------------------
(* sync.RWMutex: once a writer waits, TryRLock fails and RLock blocks; the    *)
(* writer's Unlock lets every blocked reader in before the next writer.       *)

ReadersPassWriter == wpc # "writing"
ReadersMayLock == wpc = "idle"

-----------------------------------------------------------------------------
(* The handler. *)

Receive(o) ==
    /\ pc = "idle"
    /\ req' = o /\ expired' = FALSE
    /\ pc' = IF ValidateDiagnosticOptions(o) THEN "lock" ELSE "invalid"
    /\ UNCHANGED <<load, walk, lock>>

(* rLockContext: a failed attempt waits for its timer or for the context.     *)
RLockContext ==
    /\ \/ pc = "lock" /\ pc' = IF ReadersMayLock THEN "find" ELSE "wait"
       \/ pc = "wait" /\ pc' = "lock"
    /\ UNCHANGED <<load, walk, expired, req, lock>>

RLockNoDeadline == FALSE /\ UNCHANGED vars
RLockTimeout ==
    /\ pc = "wait" /\ expired
    /\ pc' = "timeout"
    /\ UNCHANGED <<load, walk, expired, req, lock>>

(* FindEntryID and the look-up of the entry in the graph, which need not have *)
(* what the snapshot lists.                                                   *)
FindEntry ==
    /\ pc = "find"
    /\ \/ req.kind \notin NodeKinds /\ pc' = "invalid" /\ UNCHANGED walk
       \/ req.kind \in NodeKinds /\ EntryIDs(req) = {} /\ pc' = "notFound" /\ UNCHANGED walk
       \/ Ambiguous(req) /\ pc' = "invalid" /\ UNCHANGED walk
       \/ /\ ~Ambiguous(req)
          /\ \E id \in EntryIDs(req) :
                IF id \in load.nodes
                THEN BeginWalk(id, req) /\ pc' = IF expired THEN "timeout" ELSE "walk"
                ELSE pc' = "internal" /\ UNCHANGED walk
    /\ UNCHANGED <<load, expired, req, lock>>

(* The walk looks at its context before every node and edge, and every level. *)
Step ==
    /\ pc = "walk" /\ ~expired
    /\ Turn
    /\ UNCHANGED <<load, handler, lock>>

EndLevel ==
    /\ pc = "walk"
    /\ NextLevel
    /\ pc' = IF expired /\ depth' < Levels THEN "timeout" ELSE "walk"
    /\ UNCHANGED <<load, expired, req, lock>>

WalkTimeout ==
    /\ pc = "walk" /\ ~LevelDone /\ ~Walked /\ expired
    /\ pc' = "timeout"
    /\ UNCHANGED <<load, walk, expired, req, lock>>

RUnlock ==
    /\ pc = "walk" /\ Walked
    /\ pc' = "fresh"
    /\ UNCHANGED <<load, walk, expired, req, lock>>

(* RuntimeStatus takes the lock again, with no regard to the deadline. *)
RuntimeStatus ==
    /\ \/ pc = "fresh" /\ pc' = IF ReadersMayLock THEN "admitted" ELSE "blocked"
       \/ pc = "admitted" /\ pc' = "ok"
    /\ UNCHANGED <<load, walk, expired, req, lock>>

Respond ==
    /\ pc \in Answers
    /\ pc' = "idle" /\ expired' = FALSE
    /\ depth' = 0 /\ frontier' = <<>> /\ nextFrontier' = <<>> /\ todo' = {}
    /\ outN' = {} /\ outE' = {} /\ reasons' = {}
    /\ UNCHANGED <<load, policy, root, current, req, lock>>

(* context.WithTimeout *)
Expire ==
    /\ pc \notin {"idle"} \cup Answers /\ ~expired
    /\ expired' = TRUE
    /\ UNCHANGED <<load, walk, pc, req, lock>>

-----------------------------------------------------------------------------
(* Apply collects without the lock, waits for it, and edits or replaces the   *)
(* graph in several steps before it lets go.                                  *)

Lock ==
    /\ wpc = "idle"
    /\ wpc' = "waiting"
    /\ UNCHANGED <<load, walk, handler, others>>

AcquireAtOnce ==
    /\ wpc = "waiting" /\ others = 0
    /\ wpc' = "writing"
    /\ UNCHANGED <<load, walk, handler, others>>
Acquire ==
    /\ wpc = "waiting" /\ others = 0 /\ ~Holding
    /\ wpc' = "writing"
    /\ UNCHANGED <<load, walk, handler, others>>

Write ==
    /\ wpc = "writing"
    /\ load' \in Loads
    /\ UNCHANGED <<walk, handler, lock>>

Unlock ==
    /\ wpc = "writing"
    /\ wpc' = "idle"
    /\ pc' = IF pc = "blocked" THEN "admitted" ELSE pc
    /\ UNCHANGED <<load, walk, expired, req, others>>

OtherLock ==
    /\ ReadersMayLock /\ others < MaxOthers
    /\ others' = others + 1
    /\ UNCHANGED <<load, walk, handler, wpc>>

OtherUnlock ==
    /\ others > 0
    /\ others' = others - 1
    /\ UNCHANGED <<load, walk, handler, wpc>>

-----------------------------------------------------------------------------
Handle ==
    \/ RLockContext \/ RLockTimeout \/ FindEntry \/ Step \/ EndLevel \/ WalkTimeout
    \/ RUnlock \/ RuntimeStatus \/ Respond

Next ==
    \/ \E o \in Requests : Receive(o)
    \/ Handle
    \/ Expire
    \/ Lock \/ Acquire \/ Write \/ Unlock
    \/ OtherLock \/ OtherUnlock

(* Goroutines that can run do run, time passes, and nobody keeps a lock; a    *)
(* context that has ended does not lose to the 10 ms timer for ever.          *)
Fairness ==
    /\ WF_vars(Handle) /\ SF_vars(RLockTimeout) /\ WF_vars(Expire)
    /\ WF_vars(Acquire) /\ WF_vars(Unlock)
    /\ WF_vars(OtherUnlock)

Spec == Init /\ [][Next]_vars /\ Fairness

-----------------------------------------------------------------------------
(***************************************************************************)
(* Properties                                                              *)
(***************************************************************************)

\* A finished walk says that it is partial exactly when something is missing: with
\* no reason given it holds every node and edge the rules reach in the one graph
\* it read, although it expands a node only the first time it meets it; with one,
\* something of them is not there.  It never holds anything else.
PartialExactly ==
    pc = "walk" /\ Walked =>
        /\ outN \subseteq ReachableNodes /\ outE \subseteq ReachableEdges
        /\ (reasons = {}) <=> (outN = ReachableNodes /\ outE = ReachableEdges)

\* However the budgets cut the walk, each node of the result is joined to the entry
\* by edges of the result, and an edge lacks an end only if the graph lacks it.
ResultConnected ==
    pc = "walk" =>
        /\ \A e \in outE : {e.from, e.to} \cap load.nodes \subseteq outN
        /\ Connected(outN, outE, root)

\* Every diagnostic request is answered, in time or not, however many loads and
\* other readers get in its way.
Answered == (pc = "lock") ~> (pc \in Answers)

\* Queries never keep Apply from the lock: readers that overlap for ever would.
ApplyNotStarved == (wpc = "waiting") ~> (wpc = "writing")

-----------------------------------------------------------------------------
(* The inductive invariant: an edge still to be looked at is one of the node  *)
(* being expanded, which is in the result, as is everything in the frontiers. *)

WalkInv ==
    pc = "walk" =>
        /\ root \in outN
        /\ current \in outN
        /\ outN \subseteq load.nodes
        /\ todo \subseteq Edges(current)

IInv == TypeOK /\ WalkInv /\ ResultConnected

(* Why a finished walk is exact.  A node is expanded only when it is first    *)
(* met, at the least depth it is met at, and the rules allow no more at a     *)
(* greater depth: what a later meeting would follow was followed then.        *)

Queued(s) == {s[i] : i \in DOMAIN s}

(* The walk has budgets, and all it has and waits for is reached at a depth   *)
(* the rules allow.                                                           *)
PolicyOK ==
    /\ policy.maxDepth \in Nat /\ policy.storageMaxDepth \in Nat
    /\ policy.maxNodes \in Nat \ {0}

WithinRules ==
    pc = "walk" =>
        /\ depth <= Levels
        /\ Queued(frontier) \subseteq WalkEnds[depth]
        /\ Queued(nextFrontier) \subseteq WalkEnds[depth + 1]
        /\ todo # {} =>
              depth < Levels /\ current \in WalkEnds[depth] /\ ~isTerminalNode(current)
        /\ outN \subseteq ReachableNodes /\ outE \subseteq ReachableEdges

(* With nothing left out: the levels before this one are in the result, and   *)
(* a node that waits in no frontier has had every edge the rules still allow  *)
(* followed, but for those of the current node that are still to be seen.     *)
NothingMissed ==
    pc = "walk" /\ reasons = {} =>
        /\ \A d \in 0..depth : WalkEnds[d] \subseteq outN
        /\ \A d \in 0..(depth - 1) : \A id \in WalkEnds[d] : Steps(id, d) \subseteq outE
        /\ WalkEnds[depth] \cap Queued(nextFrontier) = {}
        /\ \A id \in outN \ (Queued(frontier) \cup Queued(nextFrontier)) :
                Steps(id, depth) \subseteq outE \cup (IF id = current THEN todo ELSE {})

(* A budget that left something out is used up, so it stays out.              *)
BudgetsUsedUp ==
    pc = "walk" =>
        /\ IsFiniteSet(outN) /\ Cardinality(outN) <= policy.maxNodes
        /\ "maxNodes" \in reasons =>
              Cardinality(outN) = policy.maxNodes /\ ~(ReachableNodes \subseteq outN)
        /\ "maxEdges" \in reasons =>
              Cardinality(outE) >= policy.maxEdges /\ ~(ReachableEdges \subseteq outE)

ExactInv == PolicyOK /\ WithinRules /\ NothingMissed /\ BudgetsUsedUp

=============================================================================
