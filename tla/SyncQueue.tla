------------------------------ MODULE SyncQueue ------------------------------
(***************************************************************************)
(* The queue through which every create, update and action on a Twarp      *)
(* Drive object reaches the server (app/src/server/sync_queue.rs).         *)
(*                                                                         *)
(* The queue is owned by the main thread: `enqueue`, `start_dequeueing`,   *)
(* and the callbacks of the requests it has spawned run one at a time, but *)
(* the requests themselves are in flight concurrently and their callbacks  *)
(* come back in any order.  A handler that ends in `self.dequeue(ctx)`     *)
(* leaves `owed` TRUE and nothing but that call may happen next, so a      *)
(* handler and the dequeues it triggers are one uninterrupted step of the  *)
(* program; `dequeue` calls itself again each time it drops an item.       *)
(*                                                                         *)
(* Item identifiers (UUIDs in the code) are numbers in order of enqueueing.*)
(* The code only pushes at the end of the Vec and removes from it, so the  *)
(* Vec is always sorted by that number and the set `queue` stands for it.  *)
(***************************************************************************)
EXTENDS Integers, Sequences, FiniteSets, Functions

CONSTANTS
  Objects,   \* Drive objects: notebooks, folders, workflows, enums, ...
  OnServer,  \* objects the server already knows when the program starts
  Enums,     \* workflow enums and collections of variables: workflows name them
  Requests,  \* what UpdateManager may enqueue
  Startups,  \* what may be pending in SQLite at startup, in queue order
  MaxItems   \* bound: items enqueued in one run

Kinds == {"client", "server"}

(* SyncId: an object is named by the id this client minted or by the       *)
(* server's.                                                               *)
Id == [kind : Kinds, obj : Objects]
ClientId(o) == [kind |-> "client", obj |-> o]
ServerId(o) == [kind |-> "server", obj |-> o]

CreateOps == {"Create", "CreateWorkflow", "Bulk"}
UpdateOps == {"Update", "UpdateWorkflow"}

(* A QueueItem: `objs` named by ids of `kind` (one object, several for a   *)
(* bulk creation), `refs` the enums and variable collections a workflow    *)
(* model names, `folder` the initial folder of a creation, if any.         *)
QueueItem == [op : CreateOps \cup UpdateOps \cup {"Action"},
              kind : Kinds, objs : SUBSET Objects,
              refs : SUBSET Id, folder : SUBSET Id]

IsCreate(r) == r.op \in CreateOps
IsUpdate(r) == r.op \in UpdateOps
IsWorkflow(r) == r.op \in {"CreateWorkflow", "UpdateWorkflow"}
Ids(r) == {[kind |-> r.kind, obj |-> o] : o \in r.objs}

(* A workflow names enums and a collection of default variables, which are *)
(* created by requests of their own; bulk creations are of preferences.    *)
WellFormed(r) ==
  /\ r \in QueueItem
  /\ IsCreate(r) => r.kind = "client" /\ r.objs \cap OnServer = {}
  /\ IF r.op = "Bulk" THEN r.objs # {} ELSE \E o \in Objects : r.objs = {o}
  /\ r.op = "Bulk" \/ IsWorkflow(r) => r.objs \cap Enums = {}
  /\ IsWorkflow(r) => \A id \in r.refs : id.obj \in Enums
  /\ \A id \in Ids(r) \cup r.refs \cup r.folder :
        id.kind = "client" => id.obj \notin OnServer

(* from_cached_objects makes one item for each object with pending changes *)
(* (a creation if it has only a client id) and from_unsynced_actions adds  *)
(* the pending actions.                                                    *)
ASSUME SyncQueueAssumption ==
  /\ IsFiniteSet(Objects)
  /\ OnServer \subseteq Objects
  /\ Enums \subseteq Objects
  /\ MaxItems \in Nat
  /\ \A r \in Requests : WellFormed(r)
  /\ \A s \in Startups :
       /\ s \in Seq(QueueItem)
       /\ \A i \in 1 .. Len(s) :
            /\ WellFormed(s[i])
            /\ IsUpdate(s[i]) => s[i].kind = "server" /\ s[i].objs \subseteq OnServer
       /\ \A i, j \in 1 .. Len(s) :
            /\ i # j
            /\ s[i].op # "Action"
            /\ s[j].op # "Action"
            => s[i].objs \cap s[j].objs = {}

VARIABLES
  items,     \* every item ever enqueued; a workflow's refs may be rewritten
  queue,     \* SyncQueue.queue
  deps,      \* SyncQueue.queue_dependencies
  waiting,   \* SyncQueue.waiting_response
  mapped,    \* objects in client_id_to_server and server_id_to_client_hash
  running,   \* SyncQueue.should_dequeue
  inflight,  \* items whose request has been spawned and has not come back
  owed,      \* a call to dequeue is due before anything else can happen
  bulk,      \* <<item, object>> left in the loop over a bulk reply
  needs,     \* history: the dependencies of each item when it was enqueued
  outcome,   \* history: how each item ended
  events,    \* history: outcome events emitted for each item
  rejected,  \* history: items enqueued with a reference nobody will create
  created,   \* history: objects whose creation the server has confirmed
  paused     \* history: the last callback saw an error expected to persist

vars == <<items, queue, deps, waiting, mapped, running, inflight, owed, bulk,
          needs, outcome, events, rejected, created, paused>>

history == <<needs, outcome, events, rejected, created, paused>>

Items == 1 .. Len(items)
Outcomes == {"pending", "ok", "denied", "failed", "skipped"}

(* No handler is running: an outside event may be handled.                 *)
Idle == ~owed /\ bulk = {}

-----------------------------------------------------------------------------
(* Dependencies                                                            *)

(* try_server_id                                                           *)
HasServerId(id) == id.kind = "server" \/ id.obj \in mapped

(* Operators named Faulty... are plausible mistakes in the one that follows *)
(* them; the runs use them to confirm that a property notices.             *)
FaultyItemsWithObjectId(its, q, id) ==
  {i \in q : its[i].op # "Action" /\ id \in Ids(its[i])}

(* get_items_with_object_id, over the items `q` of the sequence `its`      *)
ItemsWithObjectId(its, q, id) ==
  {i \in q : its[i].op # "Action" /\ id \in Ids(its[i])} \cup waiting[id]

FaultyNamesOf(id) == {id}

(* The names get_update_dependencies looks up: the id and, once the object *)
(* has both, the other one.                                                *)
NamesOf(id) ==
  {id} \cup (IF id.obj \in mapped THEN {ClientId(id.obj), ServerId(id.obj)} ELSE {})

UpdateDependencies(its, q, r) ==
  IF IsUpdate(r)
  THEN UNION {ItemsWithObjectId(its, q, n) : n \in UNION {NamesOf(id) : id \in Ids(r)}}
  ELSE {}

(* References of a workflow that have no server id and that no queued or   *)
(* in-flight item will create: get_workflow_object_dependencies returns an *)
(* error at the first of them.                                             *)
Unresolved(r) == {id \in r.refs : ~HasServerId(id)}
Missing(its, q, r) ==
  {id \in Unresolved(r) : IsWorkflow(r) /\ ItemsWithObjectId(its, q, id) = {}}

WorkflowDependencies(its, q, r) ==
  IF IsWorkflow(r) /\ Missing(its, q, r) = {}
  THEN UNION {ItemsWithObjectId(its, q, id) : id \in Unresolved(r)}
  ELSE {}

Replace(refs, S) == {IF id \in S THEN ServerId(id.obj) ELSE id : id \in refs}

(* add_inferred_dependencies removes the item itself from what it found    *)
InferredDependencies(its, q, i) ==
  (UpdateDependencies(its, q, its[i]) \cup WorkflowDependencies(its, q, its[i])) \ {i}

FaultyDependents(i) == {j \in queue : i \in deps[j]}

(* The items handle_dependency_failure removes when item i fails: those    *)
(* that depend on it directly or through other queued items.               *)
Dependents(i) ==
  {j \in queue : \A S \in SUBSET queue :
     (\A k \in queue : (i \in deps[k] \/ deps[k] \cap S # {}) => k \in S) => j \in S}

-----------------------------------------------------------------------------
Init ==
  /\ items \in Startups
  /\ queue = 1 .. Len(items)
  /\ waiting = [id \in Id |-> {}]
  /\ mapped = {}
  /\ deps = [i \in queue |-> InferredDependencies(items, queue, i)]
  /\ running = FALSE
  /\ inflight = {}
  /\ owed = FALSE
  /\ bulk = {}
  /\ needs = deps
  /\ outcome = [i \in queue |-> "pending"]
  /\ rejected = {i \in queue : Missing(items, queue, items[i]) # {}}
  /\ events = [i \in queue |-> IF i \in rejected THEN 2 ELSE 0]
  /\ created = {}
  /\ paused = FALSE

(* UpdateManager mints an object once, re-creates it only after a failure  *)
(* of its creation has been reported (handle_creation_denied_response, the *)
(* retry of an errored object), and names an object by its server id only  *)
(* once it has one.  A creation rejected when it was enqueued is reported  *)
(* as failed although it stays in the queue.                               *)
Known(o) == o \in OnServer \/ \E i \in Items : IsCreate(items[i]) /\ o \in items[i].objs

CanRequest(r) ==
  /\ \A id \in r.refs \cup r.folder \cup (IF IsCreate(r) THEN {} ELSE Ids(r)) :
       /\ Known(id.obj)
       /\ id.kind = "server" => id.obj \in OnServer \cup mapped
  /\ IsCreate(r) => \A o \in r.objs :
       /\ o \notin mapped
       /\ \A i \in Items : IsCreate(items[i]) /\ o \in items[i].objs
                             => outcome[i] \in {"denied", "failed"} \/ i \in rejected

(* SyncQueue::enqueue.  A workflow's references are rewritten to server    *)
(* ids as far as they are known; a missing reference reports a failure     *)
(* twice, stops the rewriting where it was found, and leaves the item in   *)
(* the queue without the dependencies its references would have given it.  *)
Enqueue(r) ==
  /\ Idle
  /\ Len(items) < MaxItems
  /\ CanRequest(r)
  /\ LET i == Len(items) + 1
         its == Append(items, r)
         missing == Missing(its, queue, r) # {}
         resolvable == {id \in r.refs : IsWorkflow(r) /\ HasServerId(id)}
     IN /\ deps' = [j \in queue \cup {i} |->
                      IF j = i THEN InferredDependencies(its, queue, i) ELSE deps[j]]
        /\ \E S \in SUBSET resolvable :
             /\ ~missing => S = resolvable
             /\ items' = Append(items, [r EXCEPT !.refs = Replace(r.refs, S)])
        /\ queue' = queue \cup {i}
        /\ needs' = [j \in Items \cup {i} |-> IF j = i THEN deps'[i] ELSE needs[j]]
        /\ outcome' = [j \in Items \cup {i} |-> IF j = i THEN "pending" ELSE outcome[j]]
        /\ events' = [j \in Items \cup {i} |->
                        IF j # i THEN events[j] ELSE IF missing THEN 2 ELSE 0]
        /\ rejected' = IF missing THEN rejected \cup {i} ELSE rejected
  /\ owed' = TRUE
  /\ UNCHANGED <<waiting, mapped, running, inflight, bulk, created, paused>>

StopDequeueing ==
  /\ Idle
  /\ running
  /\ running' = FALSE
  /\ UNCHANGED <<items, queue, deps, waiting, mapped, inflight, owed, bulk, history>>

StartDequeueing ==
  /\ Idle
  /\ running' = TRUE
  /\ owed' = TRUE
  /\ UNCHANGED <<items, queue, deps, waiting, mapped, inflight, bulk, history>>

-----------------------------------------------------------------------------
(* SyncQueue::dequeue                                                      *)

Ready == {i \in queue : deps[i] = {}}
IsNext(i) == i \in Ready /\ \A j \in Ready : i <= j

FaultyRemove(i) ==
  /\ queue' = queue \ {i}
  /\ UNCHANGED deps

Remove(i) ==
  /\ queue' = queue \ {i}
  /\ deps' = Restrict(deps, queue \ {i})

Await(i, ids) ==
  waiting' = [id \in Id |-> IF id \in ids THEN waiting[id] \cup {i} ELSE waiting[id]]
FaultyAnswered(i, ids) == UNCHANGED waiting

Answered(i, ids) ==
  waiting' = [id \in Id |-> IF id \in ids THEN waiting[id] \ {i} ELSE waiting[id]]

(* handle_dependency_success                                               *)
Release(i) == deps' = [j \in queue |-> deps[j] \ {i}]

FaultyFailWithDependents(i) ==
  LET gone == Dependents(i) IN
  /\ queue' = queue \ (gone \cup {i})
  /\ deps' = Restrict(deps, queue \ (gone \cup {i}))
  /\ outcome' = [j \in Items |-> IF j \in gone \cup {i} THEN "failed" ELSE outcome[j]]
  /\ events' = [events EXCEPT ![i] = @ + Cardinality(items[i].objs)]

(* handle_dependency_failure: every item that waits on i, directly or not, *)
(* leaves the queue and is reported as failed, and so is i.                *)
FailWithDependents(i) ==
  LET gone == Dependents(i) IN
  /\ queue' = queue \ (gone \cup {i})
  /\ deps' = Restrict(deps, queue \ (gone \cup {i}))
  /\ outcome' = [j \in Items |-> IF j \in gone \cup {i} THEN "failed" ELSE outcome[j]]
  /\ events' = [j \in Items |-> IF j \in gone \cup {i}
                                THEN events[j] + Cardinality(items[j].objs)
                                ELSE events[j]]

NothingToDequeue ==
  /\ owed
  /\ ~running \/ Ready = {}
  /\ owed' = FALSE
  /\ paused' = IF running THEN FALSE ELSE paused
  /\ UNCHANGED <<items, queue, deps, waiting, mapped, running, inflight, bulk,
                 needs, outcome, events, rejected, created>>

(* A request is spawned.  Only object actions are not awaited.             *)
Send(i) ==
  /\ IF IsCreate(items[i])
     THEN \A id \in items[i].folder : HasServerId(id)
     ELSE \A id \in Ids(items[i]) : HasServerId(id)
  /\ Remove(i)
  /\ Await(i, IF IsCreate(items[i]) THEN Ids(items[i])
              ELSE IF IsUpdate(items[i]) THEN {ServerId(o) : o \in items[i].objs}
              ELSE {})
  /\ inflight' = inflight \cup {i}
  /\ owed' = FALSE
  /\ UNCHANGED <<outcome, events>>

FaultySkip(i) ==
  /\ \/ /\ IsCreate(items[i])
        /\ \E id \in items[i].folder : ~HasServerId(id)
        /\ Await(i, Ids(items[i]))
     \/ /\ items[i].op = "Action"
        /\ \E id \in Ids(items[i]) : ~HasServerId(id)
        /\ UNCHANGED waiting
  /\ Remove(i)
  /\ outcome' = [outcome EXCEPT ![i] = "skipped"]
  /\ owed' = FALSE
  /\ UNCHANGED <<inflight, events>>

(* A creation in a folder that has no server id, or an action on an object *)
(* that has none, is dropped with a log line only.                         *)
Skip(i) ==
  /\ \/ /\ IsCreate(items[i])
        /\ \E id \in items[i].folder : ~HasServerId(id)
        /\ Await(i, Ids(items[i]))
     \/ /\ items[i].op = "Action"
        /\ \E id \in Ids(items[i]) : ~HasServerId(id)
        /\ UNCHANGED waiting
  /\ Remove(i)
  /\ outcome' = [outcome EXCEPT ![i] = "skipped"]
  /\ UNCHANGED <<inflight, owed, events>>

(* An update of an object that has no server id fails at once.             *)
FailUpdate(i) ==
  /\ IsUpdate(items[i])
  /\ \E id \in Ids(items[i]) : ~HasServerId(id)
  /\ FailWithDependents(i)
  /\ Answered(i, Ids(items[i]))
  /\ UNCHANGED <<inflight, owed>>

Dequeue ==
  /\ owed
  /\ running
  /\ \E i \in queue : IsNext(i) /\ (Send(i) \/ Skip(i) \/ FailUpdate(i))
  /\ paused' = FALSE
  /\ UNCHANGED <<items, mapped, running, bulk, needs, rejected, created>>

-----------------------------------------------------------------------------
(* Callbacks of spawned requests.  A retried attempt changes nothing here. *)

Finish(i, how) ==
  /\ outcome' = [outcome EXCEPT ![i] = how]
  /\ events' = [events EXCEPT ![i] = @ + 1]

FaultyRewriteReferences(i) ==
  items' = [j \in Items |->
    IF j \in queue /\ items[j].op = "CreateWorkflow" /\ i \in deps[j]
    THEN [items[j] EXCEPT !.refs =
            Replace(@, {ClientId(o) : o \in items[i].objs \cap Enums})]
    ELSE items[j]]

(* update_dependencies_on_creation: the new server id goes into the queued *)
(* workflows that wait on this creation.                                   *)
RewriteReferences(i) ==
  items' = [j \in Items |->
    IF j \in queue /\ IsWorkflow(items[j]) /\ i \in deps[j]
    THEN [items[j] EXCEPT !.refs =
            Replace(@, {ClientId(o) : o \in items[i].objs \cap Enums})]
    ELSE items[j]]

CreateSucceeded(i) ==
  /\ Idle
  /\ i \in inflight
  /\ items[i].op \in {"Create", "CreateWorkflow"}
  /\ RewriteReferences(i)
  /\ mapped' = mapped \cup items[i].objs
  /\ created' = created \cup items[i].objs
  /\ Answered(i, Ids(items[i]))
  /\ Release(i)
  /\ inflight' = inflight \ {i}
  /\ Finish(i, "ok")
  /\ owed' = TRUE
  /\ UNCHANGED <<queue, running, bulk, needs, rejected, paused>>

(* The server refuses the creation with a message for the user: the items  *)
(* waiting on it are released as after a success.                          *)
CreateDenied(i) ==
  /\ Idle
  /\ i \in inflight
  /\ items[i].op \in {"Create", "CreateWorkflow"}
  /\ Answered(i, Ids(items[i]))
  /\ Release(i)
  /\ inflight' = inflight \ {i}
  /\ Finish(i, "denied")
  /\ owed' = TRUE
  /\ UNCHANGED <<items, queue, mapped, running, bulk, needs, rejected, created, paused>>

(* An update that the server applied or rejected as stale, or an action it *)
(* recorded.                                                               *)
UpdateOrActionAnswered(i) ==
  /\ Idle
  /\ i \in inflight
  /\ ~IsCreate(items[i])
  /\ Answered(i, {ServerId(o) : o \in items[i].objs})
  /\ Release(i)
  /\ inflight' = inflight \ {i}
  /\ Finish(i, "ok")
  /\ owed' = TRUE
  /\ UNCHANGED <<items, queue, mapped, running, bulk, needs, rejected, created, paused>>

(* The reply to a bulk creation is worked through object by object...      *)
BulkSucceeded(i) ==
  /\ Idle
  /\ i \in inflight
  /\ items[i].op = "Bulk"
  /\ bulk' = {i} \X items[i].objs
  /\ inflight' = inflight \ {i}
  /\ created' = created \cup items[i].objs
  /\ outcome' = [outcome EXCEPT ![i] = "ok"]
  /\ UNCHANGED <<items, queue, deps, waiting, mapped, running, owed, needs,
                 events, rejected, paused>>

(* ... and handle_success_response ends in a dequeue for each of them.     *)
BulkNext ==
  /\ ~owed
  /\ \E p \in bulk :
       /\ bulk' = bulk \ {p}
       /\ mapped' = mapped \cup {p[2]}
       /\ Answered(p[1], {ClientId(p[2])})
       /\ Release(p[1])
       /\ events' = [events EXCEPT ![p[1]] = @ + 1]
  /\ owed' = TRUE
  /\ UNCHANGED <<items, queue, running, inflight, needs, outcome, rejected,
                 created, paused>>

(* All retries failed, or the server reported a unique key conflict.  An   *)
(* error expected to hit every request stops the chain of dequeues.        *)
RequestFailed(i, persistent) ==
  /\ Idle
  /\ i \in inflight
  /\ FailWithDependents(i)
  /\ Answered(i, IF IsCreate(items[i]) THEN Ids(items[i])
                 ELSE {ServerId(o) : o \in items[i].objs})
  /\ inflight' = inflight \ {i}
  /\ owed' = ~persistent
  /\ paused' = persistent
  /\ UNCHANGED <<items, mapped, running, bulk, needs, rejected, created>>

Respond(i) ==
  \/ CreateSucceeded(i)
  \/ CreateDenied(i)
  \/ UpdateOrActionAnswered(i)
  \/ BulkSucceeded(i)
  \/ \E persistent \in BOOLEAN : RequestFailed(i, persistent)

Next ==
  \/ \E r \in Requests : Enqueue(r)
  \/ StopDequeueing
  \/ StartDequeueing
  \/ NothingToDequeue
  \/ Dequeue
  \/ BulkNext
  \/ \E i \in inflight : Respond(i)

Spec == Init /\ [][Next]_vars

(* The main thread finishes the handler it is in, and every request comes  *)
(* back: spawn_with_retry_on_error makes at most four attempts.  Callbacks *)
(* are served in turn with the calls of other models, so a stream of calls *)
(* to start_dequeueing cannot keep one from running.                       *)
Fairness ==
  /\ WF_vars(NothingToDequeue \/ Dequeue)
  /\ WF_vars(BulkNext)
  /\ \A i \in 1 .. MaxItems : SF_vars(i \in inflight /\ Respond(i))

FairSpec == Spec /\ Fairness
-----------------------------------------------------------------------------
(* Properties                                                              *)

(* Every variable stays in its range; queue_dependencies has exactly the   *)
(* queued items as keys, and no item is both queued and in flight.         *)
TypeOK ==
  /\ items \in Seq(QueueItem)
  /\ queue \subseteq Items
  /\ deps \in [queue -> SUBSET Items]
  /\ waiting \in [Id -> SUBSET Items]
  /\ mapped \subseteq Objects
  /\ running \in BOOLEAN
  /\ inflight \subseteq Items \ queue
  /\ owed \in BOOLEAN
  /\ bulk \subseteq Items \X Objects
  /\ needs \in [Items -> SUBSET Items]
  /\ outcome \in [Items -> Outcomes]
  /\ events \in [Items -> Nat]
  /\ rejected \subseteq Items
  /\ created \subseteq Objects
  /\ paused \in BOOLEAN

SameObject(i, j) == items[i].objs \cap items[j].objs # {}

(* "Update the server in correct serial order": whatever ids the caller    *)
(* uses for an object, an update is only in flight when no earlier update  *)
(* of that object is still queued or in flight.                            *)
SerialUpdates ==
  \A j \in inflight : \A i \in queue \cup inflight :
    i < j /\ IsUpdate(items[i]) /\ IsUpdate(items[j]) => ~SameObject(i, j)

(* At most one request that writes an object is in flight, creations and   *)
(* updates together, unless a creation of the object was reported as       *)
(* failed when it was enqueued and yet left in the queue.                  *)
OneWriterInFlight ==
  \A i, j \in inflight :
    /\ i # j
    /\ items[i].op # "Action"
    /\ items[j].op # "Action"
    /\ SameObject(i, j)
    => \E k \in rejected : IsCreate(items[k]) /\ (SameObject(k, i) \/ SameObject(k, j))

(* What an item needed when it was enqueued decides its fate: it is sent   *)
(* only after everything it needed was answered by the server, it leaves   *)
(* the queue as failed as soon as something it needed has failed, and      *)
(* until then it still waits for exactly what is outstanding.              *)
DependencyDiscipline ==
  Idle => \A i \in Items :
    /\ (i \in inflight \/ outcome[i] \in {"ok", "denied"}) =>
         \A d \in needs[i] : outcome[d] \in {"ok", "denied"}
    /\ i \in queue =>
         deps[i] = {d \in needs[i] : outcome[d] \in {"pending", "skipped"}}
    /\ (\E d \in needs[i] : outcome[d] = "failed") => outcome[i] = "failed"

(* UpdateManager counts an object's outstanding requests by these events:  *)
(* every item that was not rejected when it was enqueued reports exactly   *)
(* one outcome for each of its objects, and none before it has ended.      *)
OneOutcomePerItem ==
  Idle => \A i \in Items \ rejected :
    events[i] = IF outcome[i] \in {"pending", "skipped"}
                THEN 0
                ELSE Cardinality(items[i].objs)

(* A workflow goes out with a client id for one of its enums only if the   *)
(* enum was unknown to the queue when the workflow was enqueued, or the    *)
(* server refused to create it.                                            *)
WorkflowsNameServerIds ==
  \A i \in inflight \ rejected :
    /\ IsWorkflow(items[i])
    /\ \A d \in needs[i] : outcome[d] # "denied"
    => \A id \in items[i].refs : id.kind = "server"

(* While dequeueing is on, an item that could be sent has a request ahead  *)
(* of it whose answer will dequeue again, unless the last answer was an    *)
(* error expected to persist: no handler drops the baton.                  *)
NoLostDequeue ==
  Idle /\ running /\ Ready # {} => inflight # {} \/ paused

(* Each queued item is eventually sent or reported, unless the queue is    *)
(* stopped, a persistent error halts it, or the item waits on one that was *)
(* dropped without an answer.                                              *)
WaitsOnSkipped(i) ==
  \E d \in Items : outcome[d] = "skipped" /\ (d \in deps[i] \/ i \in Dependents(d))
QueueDrains ==
  \A i \in 1 .. MaxItems :
    (i \in queue /\ running) ~>
      \/ i \notin queue
      \/ ~running
      \/ paused
      \/ i \in queue /\ WaitsOnSkipped(i)

(* The code's own comments, refuted by the runs that check them.           *)

(* "We should never dequeue a Workflow that references ClientIds rather    *)
(* than ServerIds."                                                        *)
NoWorkflowSentWithClientIds ==
  \A i \in inflight : IsWorkflow(items[i]) => \A id \in items[i].refs : id.kind = "server"

(* "All CRUD actions on team objects should go through here to make sure   *)
(* we update the server in correct serial order": an object is not created *)
(* by two requests at once.                                                *)
OneCreationInFlight ==
  \A i, j \in inflight :
    i # j /\ IsCreate(items[i]) /\ IsCreate(items[j]) => ~SameObject(i, j)

(* In-flight requests are mapped as dependencies "so that when they        *)
(* succeed or fail, we can respond accordingly": an update that waited for *)
(* a creation the server confirmed is not reported as failed before it has *)
(* been tried.                                                             *)
NoUpdateFailedAfterCreation ==
  [][\A i \in queue :
       /\ owed
       /\ IsNext(i)
       /\ IsUpdate(items[i])
       /\ items[i].objs \subseteq created
       => outcome'[i] # "failed"]_vars
=============================================================================
