--------------------------- MODULE SyncQueueProofs ---------------------------
(* Whatever is enqueued, in whatever order requests come back: no two      *)
(* requests that write the same object are in flight together, updates of  *)
(* an object go out in the order they were enqueued, and the queue does    *)
(* not stop with something left that could be sent.  An item is sent only  *)
(* after everything it needed was answered, each of its objects has one    *)
(* outcome reported, and a workflow goes out with the server ids of the    *)
(* enums it names.                                                         *)
EXTENDS SyncQueue, FiniteSetTheorems, SequenceTheorems, WellFoundedInduction, TLAPS

-----------------------------------------------------------------------------
(* The operators over items stay within the items.                         *)

(* An object's client and server ids are distinct names, and every id an   *)
(* item carries is one of the ids of the model.                            *)
LEMMA IdFacts ==
  /\ \A o \in Objects : ClientId(o) \in Id /\ ServerId(o) \in Id
  /\ \A id \in Id : id.obj \in Objects /\ id.kind \in Kinds
                    /\ id = [kind |-> id.kind, obj |-> id.obj]
  /\ \A r \in QueueItem : Ids(r) \subseteq Id
BY DEF Id, ClientId, ServerId, Kinds, Ids, QueueItem

(* The number of objects an item reports an outcome for is a natural.      *)
LEMMA CardinalityType ==
  \A r \in QueueItem : Cardinality(r.objs) \in Nat
<1> SUFFICES ASSUME NEW r \in QueueItem PROVE Cardinality(r.objs) \in Nat
  OBVIOUS
<1>1. r.objs \in SUBSET Objects
  BY DEF QueueItem
<1> QED
  BY <1>1, SyncQueueAssumption, FS_Subset, FS_CardinalityType

(* What add_inferred_dependencies finds is among the queued items and the  *)
(* items waiting for a response.                                           *)
LEMMA DependencyType ==
  ASSUME NEW its, NEW q, NEW S, q \subseteq S, NEW i, its[i] \in QueueItem,
         \A id \in Id : waiting[id] \subseteq S
  PROVE  InferredDependencies(its, q, i) \subseteq S
<1>1. \A id \in Id : ItemsWithObjectId(its, q, id) \subseteq S
  BY DEF ItemsWithObjectId
<1>2. \A id \in Id : NamesOf(id) \subseteq Id
  BY IdFacts DEF NamesOf
<1>3. Ids(its[i]) \subseteq Id /\ its[i].refs \subseteq Id
  BY IdFacts DEF QueueItem
<1>4. UpdateDependencies(its, q, its[i]) \subseteq S
  <2>1. UNION {NamesOf(id) : id \in Ids(its[i])} \subseteq Id
    BY <1>2, <1>3
  <2> QED
    BY <1>1, <2>1 DEF UpdateDependencies
<1>5. WorkflowDependencies(its, q, its[i]) \subseteq S
  BY <1>1, <1>3 DEF WorkflowDependencies, Unresolved
<1> QED
  BY <1>4, <1>5 DEF InferredDependencies

(* Replacing client ids by server ids leaves a set of ids.                 *)
LEMMA ReplaceType ==
  ASSUME NEW refs \in SUBSET Id, NEW S
  PROVE  Replace(refs, S) \subseteq Id
BY IdFacts DEF Replace

(* Rewriting the references of queued workflows leaves the sequence of     *)
(* items as long as it was and touches nothing but those references.       *)
LEMMA RewriteFacts ==
  ASSUME TypeOK, NEW i \in Items, RewriteReferences(i)
  PROVE  /\ items' \in Seq(QueueItem)
         /\ Len(items') = Len(items)
         /\ Items' = Items
         /\ \A j \in Items : /\ items'[j].op = items[j].op
                             /\ items'[j].kind = items[j].kind
                             /\ items'[j].objs = items[j].objs
<1> DEFINE n == Len(items)
           R == {ClientId(o) : o \in items[i].objs \cap Enums}
<1>1. n \in Nat /\ Items = 1 .. n /\ \A j \in Items : items[j] \in QueueItem
  BY DEF TypeOK, Items
<1>2. \A j \in Items : /\ [items[j] EXCEPT !.refs = Replace(@, R)] \in QueueItem
                       /\ [items[j] EXCEPT !.refs = Replace(@, R)].op = items[j].op
                       /\ [items[j] EXCEPT !.refs = Replace(@, R)].kind = items[j].kind
                       /\ [items[j] EXCEPT !.refs = Replace(@, R)].objs = items[j].objs
  <2> TAKE j \in Items
  <2>1. items[j] \in QueueItem
    BY <1>1
  <2>2. Replace(items[j].refs, R) \subseteq Id
    BY <2>1, ReplaceType DEF QueueItem
  <2> QED
    BY <2>1, <2>2 DEF QueueItem
<1>3. /\ DOMAIN items' = 1 .. n
      /\ \A j \in 1 .. n : items'[j] = IF j \in queue /\ IsWorkflow(items[j]) /\ i \in deps[j]
                                      THEN [items[j] EXCEPT !.refs = Replace(@, R)]
                                      ELSE items[j]
      /\ items' = [j \in 1 .. n |-> items'[j]]
  BY <1>1 DEF RewriteReferences
<1>4. \A j \in 1 .. n : items'[j] \in QueueItem
  BY <1>1, <1>2, <1>3
<1>5. items' \in [1 .. n -> QueueItem]
  BY <1>3, <1>4
<1>6. items' \in Seq(QueueItem) /\ Len(items') = n
  BY <1>1, <1>5 
<1> QED
  BY <1>1, <1>2, <1>3, <1>6 DEF Items

(* A failure removes from the queue the item and those that waited on it,  *)
(* and leaves the tables and histories in their ranges.                    *)
LEMMA FailFacts ==
  ASSUME TypeOK, NEW i \in Items, FailWithDependents(i)
  PROVE  /\ queue' \subseteq queue \ {i}
         /\ deps' = [j \in queue' |-> deps[j]]
         /\ deps' \in [queue' -> SUBSET Items]
         /\ outcome' \in [Items -> Outcomes]
         /\ events' \in [Items -> Nat]
<1>1. queue' \subseteq queue \ {i} /\ deps' = [j \in queue' |-> deps[j]]
  BY DEF FailWithDependents, Restrict
<1>2. deps' \in [queue' -> SUBSET Items]
  BY <1>1 DEF TypeOK
<1>3. outcome' \in [Items -> Outcomes]
  BY DEF FailWithDependents, TypeOK, Outcomes
<1>4. \A j \in Items : items[j] \in QueueItem
  BY DEF TypeOK, Items
<1>5. \A j \in Items : Cardinality(items[j].objs) \in Nat
  BY <1>4, CardinalityType
<1>6. events' \in [Items -> Nat]
  BY <1>5 DEF FailWithDependents, TypeOK
<1> QED
  BY <1>1, <1>2, <1>3, <1>6

(* Awaiting and answering an item keep waiting_response in its range.      *)
LEMMA WaitingType ==
  ASSUME TypeOK, NEW i \in Items, NEW ids, Await(i, ids) \/ Answered(i, ids)
  PROVE  waiting' \in [Id -> SUBSET Items]
BY DEF TypeOK, Await, Answered

-----------------------------------------------------------------------------
(* Type correctness                                                        *)

(* A queue restored from SQLite is type correct.                           *)
LEMMA InitType == Init => TypeOK
<1> SUFFICES ASSUME Init PROVE TypeOK
  OBVIOUS
<1>1. items \in Seq(QueueItem) /\ Items = 1 .. Len(items) /\ Len(items) \in Nat
  BY SyncQueueAssumption DEF Init, Items
<1>2. \A i \in Items : InferredDependencies(items, queue, i) \subseteq Items
  <2> TAKE i \in Items
  <2>1. items[i] \in QueueItem /\ queue \subseteq Items
    BY <1>1 DEF Init
  <2>2. \A id \in Id : waiting[id] \subseteq Items
    BY DEF Init
  <2> QED
    BY <2>1, <2>2, DependencyType
<1>3. queue = Items /\ deps \in [queue -> SUBSET Items]
  BY <1>1, <1>2 DEF Init
<1> QED
  BY <1>1, <1>3 DEF Init, TypeOK, Outcomes

(* enqueue, with the dependencies it infers, keeps the types.              *)
LEMMA EnqueueType ==
  ASSUME TypeOK, NEW r \in Requests, Enqueue(r)
  PROVE  TypeOK'
<1> DEFINE n == Len(items)
           i == n + 1
           its == Append(items, r)
<1>1. n \in Nat /\ Items = 1 .. n /\ i \notin Items
  BY DEF TypeOK, Items
<1>2. r \in QueueItem /\ its \in Seq(QueueItem) /\ its[i] = r
  BY SyncQueueAssumption DEF WellFormed, TypeOK
<1>3. PICK S : items' = Append(items, [r EXCEPT !.refs = Replace(r.refs, S)])
  BY DEF Enqueue
<1>4. [r EXCEPT !.refs = Replace(r.refs, S)] \in QueueItem
  <2>1. Replace(r.refs, S) \subseteq Id
    BY <1>2, ReplaceType DEF QueueItem
  <2> QED
    BY <1>2, <2>1 DEF QueueItem
<1>5. items' \in Seq(QueueItem) /\ Len(items') = n + 1
  BY <1>1, <1>3, <1>4 DEF TypeOK
<1>6. Items' = Items \cup {i}
  BY <1>1, <1>5 DEF Items
<1>7. InferredDependencies(its, queue, i) \subseteq Items
  <2>1. queue \subseteq Items /\ \A id \in Id : waiting[id] \subseteq Items
    BY DEF TypeOK
  <2> QED
    BY <1>2, <2>1, DependencyType
<1>8. queue' = queue \cup {i} /\ deps' \in [queue' -> SUBSET (Items')]
  BY <1>1, <1>6, <1>7 DEF Enqueue, TypeOK
<1>9. waiting' \in [Id -> SUBSET (Items')]
  BY <1>6 DEF Enqueue, TypeOK
<1>10. inflight' \subseteq Items' \ queue'
  BY <1>1, <1>6, <1>8 DEF Enqueue, TypeOK
<1>11. needs' \in [Items' -> SUBSET (Items')]
  <2>1. deps'[i] \subseteq Items'
    BY <1>8
  <2>2. needs' = [j \in Items \cup {i} |-> IF j = i THEN deps'[i] ELSE needs[j]]
    BY DEF Enqueue
  <2> QED
    BY <1>1, <1>6, <2>1, <2>2 DEF TypeOK
<1>12. outcome' \in [Items' -> Outcomes]
  BY <1>1, <1>6 DEF Enqueue, TypeOK, Outcomes
<1>13. events' \in [Items' -> Nat]
  BY <1>1, <1>6 DEF Enqueue, TypeOK
<1>14. rejected' \subseteq Items' /\ bulk' \subseteq Items' \X Objects
  BY <1>6 DEF Enqueue, TypeOK
<1>15. /\ queue' \subseteq Items' 
       /\ mapped' \subseteq Objects /\ created' \subseteq Objects
       /\ running' \in BOOLEAN /\ owed' \in BOOLEAN /\ paused' \in BOOLEAN
  BY <1>6, <1>8 DEF Enqueue, TypeOK
<1> QED
  BY <1>5, <1>8, <1>9, <1>10, <1>11, <1>12, <1>13, <1>14, <1>15 DEF TypeOK

(* Each outcome of one call to dequeue keeps the types.                    *)
LEMMA DequeueType ==
  ASSUME TypeOK, Dequeue
  PROVE  TypeOK'
<1>1. PICK i \in queue : Send(i) \/ Skip(i) \/ FailUpdate(i)
  BY DEF Dequeue
<1>2. i \in Items
  BY DEF TypeOK
<1>3. /\ UNCHANGED <<items, mapped, running, bulk, needs, rejected, created>>
      /\ Items' = Items
      /\ paused' \in BOOLEAN
  BY DEF Dequeue, Items
<1>4. CASE Send(i) \/ Skip(i)
  <2>1. queue' = queue \ {i} /\ deps' \in [queue' -> SUBSET Items]
    BY <1>4 DEF Send, Skip, Remove, Restrict, TypeOK
  <2>2. waiting' \in [Id -> SUBSET Items]
    <3>1. CASE waiting' = waiting
      BY <3>1 DEF TypeOK
    <3>2. CASE \E ids : Await(i, ids)
      BY <1>2, <3>2, WaitingType
    <3> QED
      BY <1>4, <3>1, <3>2 DEF Send, Skip
  <2>3. inflight' \subseteq Items \ queue'
    BY <1>2, <1>4, <2>1 DEF Send, Skip, TypeOK
  <2>4. outcome' \in [Items -> Outcomes] /\ events' \in [Items -> Nat] /\ owed' \in BOOLEAN
    BY <1>2, <1>4 DEF Send, Skip, TypeOK, Outcomes
  <2> QED
    BY <1>3, <2>1, <2>2, <2>3, <2>4 DEF TypeOK
<1>5. CASE FailUpdate(i)
  <2>1. FailWithDependents(i) /\ UNCHANGED <<inflight, owed>>
    BY <1>5 DEF FailUpdate
  <2>2. waiting' \in [Id -> SUBSET Items]
    BY <1>2, <1>5, WaitingType DEF FailUpdate
  <2>3. /\ queue' \subseteq queue \ {i}
        /\ deps' \in [queue' -> SUBSET Items]
        /\ outcome' \in [Items -> Outcomes]
        /\ events' \in [Items -> Nat]
    BY <1>2, <2>1, FailFacts
  <2> QED
    BY <1>3, <2>1, <2>2, <2>3 DEF TypeOK
<1> QED
  BY <1>1, <1>4, <1>5

(* The callback of a request, whatever the answer, keeps the types.        *)
LEMMA RespondType ==
  ASSUME TypeOK, NEW i \in inflight, Respond(i)
  PROVE  TypeOK'
<1>1. i \in Items
  BY DEF TypeOK
<1>2. items[i].objs \subseteq Objects
  <2>1. items[i] \in QueueItem
    BY <1>1 DEF TypeOK, Items
  <2> QED
    BY <2>1 DEF QueueItem
<1>3. CASE CreateSucceeded(i) \/ CreateDenied(i) \/ UpdateOrActionAnswered(i)
  <2>1. items' \in Seq(QueueItem) /\ Items' = Items
    <3>1. CASE RewriteReferences(i)
      BY <1>1, <3>1, RewriteFacts
    <3>2. CASE items' = items
      BY <3>2 DEF TypeOK, Items
    <3> QED
      BY <1>3, <3>1, <3>2 DEF CreateSucceeded, CreateDenied, UpdateOrActionAnswered
  <2>2. waiting' \in [Id -> SUBSET Items]
    BY <1>1, <1>3, WaitingType DEF CreateSucceeded, CreateDenied, UpdateOrActionAnswered
  <2>3. queue' = queue /\ deps' \in [queue -> SUBSET Items] /\ inflight' \subseteq inflight
    BY <1>3 DEF CreateSucceeded, CreateDenied, UpdateOrActionAnswered, Release, TypeOK
  <2>4. outcome' \in [Items -> Outcomes] /\ events' \in [Items -> Nat]
    <3>1. PICK how \in Outcomes : Finish(i, how)
      BY <1>3 DEF CreateSucceeded, CreateDenied, UpdateOrActionAnswered, Outcomes
    <3> QED
      BY <1>1, <3>1 DEF Finish, TypeOK
  <2>5. /\ mapped' \subseteq Objects /\ created' \subseteq Objects
        /\ UNCHANGED <<running, bulk, needs, rejected, paused>>
        /\ owed' \in BOOLEAN
    BY <1>2, <1>3 DEF CreateSucceeded, CreateDenied, UpdateOrActionAnswered, TypeOK
  <2> QED
    BY <2>1, <2>2, <2>3, <2>4, <2>5 DEF TypeOK
<1>4. CASE BulkSucceeded(i)
  <2>1. outcome' \in [Items -> Outcomes] /\ bulk' \subseteq Items \X Objects
    BY <1>1, <1>2, <1>4 DEF BulkSucceeded, TypeOK, Outcomes
  <2> QED
    BY <1>2, <1>4, <2>1 DEF BulkSucceeded, TypeOK, Items
<1>5. CASE \E persistent \in BOOLEAN : RequestFailed(i, persistent)
  <2>1. /\ queue' \subseteq queue
        /\ deps' \in [queue' -> SUBSET Items]
        /\ outcome' \in [Items -> Outcomes]
        /\ events' \in [Items -> Nat]
    BY <1>1, <1>5, FailFacts DEF RequestFailed
  <2>2. waiting' \in [Id -> SUBSET Items]
    BY <1>1, <1>5, WaitingType DEF RequestFailed
  <2>3. /\ inflight' \subseteq inflight
        /\ owed' \in BOOLEAN /\ paused' \in BOOLEAN
        /\ UNCHANGED <<items, mapped, running, bulk, needs, rejected, created>>
    BY <1>5 DEF RequestFailed
  <2> QED
    BY <2>1, <2>2, <2>3 DEF TypeOK, Items
<1> QED
  BY <1>3, <1>4, <1>5 DEF Respond

(* One turn of the loop over a bulk reply keeps the types.                 *)
LEMMA BulkNextType ==
  ASSUME TypeOK, BulkNext
  PROVE  TypeOK'
<1>1. PICK p \in bulk : /\ bulk' = bulk \ {p}
                        /\ mapped' = mapped \cup {p[2]}
                        /\ Answered(p[1], {ClientId(p[2])})
                        /\ Release(p[1])
                        /\ events' = [events EXCEPT ![p[1]] = @ + 1]
  BY DEF BulkNext
<1>2. p[1] \in Items /\ p[2] \in Objects
  BY DEF TypeOK
<1>3. waiting' \in [Id -> SUBSET Items]
  BY <1>1, <1>2, WaitingType
<1>4. deps' \in [queue -> SUBSET Items] /\ events' \in [Items -> Nat]
  BY <1>1, <1>2 DEF Release, TypeOK
<1>5. /\ mapped' \subseteq Objects /\ bulk' \subseteq bulk /\ owed' \in BOOLEAN
      /\ UNCHANGED <<items, queue, running, inflight, needs, outcome, rejected,
                     created, paused>>
  BY <1>1, <1>2 DEF BulkNext, TypeOK
<1> QED
  BY <1>3, <1>4, <1>5 DEF TypeOK, Items

(* Every step of the queue keeps the types.                                *)
LEMMA NextType == TypeOK /\ [Next]_vars => TypeOK'
<1> SUFFICES ASSUME TypeOK, [Next]_vars PROVE TypeOK'
  OBVIOUS
<1>1. ASSUME NEW r \in Requests, Enqueue(r) PROVE TypeOK'
  BY <1>1, EnqueueType
<1>2. CASE StopDequeueing \/ StartDequeueing
  BY <1>2 DEF StopDequeueing, StartDequeueing, history, TypeOK, Items
<1>3. CASE NothingToDequeue
  BY <1>3 DEF NothingToDequeue, TypeOK, Items
<1>4. CASE Dequeue
  BY <1>4, DequeueType
<1>5. CASE BulkNext
  BY <1>5, BulkNextType
<1>6. ASSUME NEW i \in inflight, Respond(i) PROVE TypeOK'
  BY <1>6, RespondType
<1>7. CASE UNCHANGED vars
  BY <1>7 DEF vars, TypeOK, Items
<1> QED
  BY <1>1, <1>2, <1>3, <1>4, <1>5, <1>6, <1>7 DEF Next

(* Every variable of the queue stays in its range: the keys of the         *)
(* dependency map are the queued items, and no item is at once queued and  *)
(* in flight.                                                              *)
THEOREM TypeCorrect == Spec => []TypeOK
BY InitType, NextType, PTL DEF Spec

-----------------------------------------------------------------------------
(* The inductive invariant.                                                *)

(* What WellFormed says of requests and startup items stays true of every  *)
(* item: rewriting touches only references.                                *)
WellFormedItems ==
  \A i \in Items :
    /\ IsCreate(items[i]) => items[i].objs \cap OnServer = {}
    /\ items[i].kind = "client" => items[i].objs \cap OnServer = {}
    /\ items[i].op # "Bulk" => \E o \in Objects : items[i].objs = {o}
    /\ items[i].op = "Bulk" => items[i].objs # {}

(* A queued update that uses a server id names an object that has one.     *)
Named ==
  \A i \in queue :
    IsUpdate(items[i]) /\ items[i].kind = "server" => items[i].objs \subseteq OnServer \cup mapped

(* An update in flight is waited for under the server id of its object.    *)
Awaited ==
  \A i \in inflight : IsUpdate(items[i]) =>
    /\ items[i].objs \subseteq OnServer \cup mapped
    /\ \A o \in items[i].objs : i \in waiting[ServerId(o)]

(* A queued update depends on every earlier live update of its object.     *)
Ordered ==
  \A j \in queue : \A i \in queue \cup inflight :
    i < j /\ IsUpdate(items[i]) /\ IsUpdate(items[j]) /\ SameObject(i, j) => i \in deps[j]

(* Of two creations of an object, one has been refused, has failed or was  *)
(* rejected when it was enqueued.                                          *)
Refused(i) == outcome[i] \in {"denied", "failed"} \/ i \in rejected
OneCreator ==
  \A i, j \in Items :
    i # j /\ IsCreate(items[i]) /\ IsCreate(items[j]) /\ SameObject(i, j)
      => Refused(i) \/ Refused(j)

(* Nothing queued or in flight has ended.                                  *)
LivePending == \A i \in queue \cup inflight : outcome[i] = "pending"

(* The queue learns a server id only from a creation that succeeded.       *)
MappedCreated ==
  \A o \in mapped : \E i \in Items :
    IsCreate(items[i]) /\ o \in items[i].objs /\ outcome[i] = "ok"

(* What is left of a bulk reply belongs to a creation that succeeded.      *)
BulkItems ==
  \A p \in bulk : /\ items[p[1]].op = "Bulk"
                  /\ p[2] \in items[p[1]].objs
                  /\ outcome[p[1]] = "ok"

UpdateInv == WellFormedItems /\ Named /\ Awaited /\ Ordered /\ SerialUpdates
CreatorInv == OneCreator /\ LivePending /\ MappedCreated /\ BulkItems
WriterInv == UpdateInv /\ CreatorInv

(* The parts of WellFormed that WellFormedItems keeps.                     *)
LEMMA WellFormedFacts ==
  ASSUME NEW r, WellFormed(r)
  PROVE  /\ r \in QueueItem
         /\ IsCreate(r) => r.objs \cap OnServer = {}
         /\ r.kind = "client" => r.objs \cap OnServer = {}
         /\ r.op # "Bulk" => \E o \in Objects : r.objs = {o}
         /\ r.op = "Bulk" => r.objs # {}
<1>1. r.kind = "client" => \A o \in r.objs : o \notin OnServer
  <2> SUFFICES ASSUME r.kind = "client", NEW o \in r.objs
               PROVE  o \notin OnServer
    OBVIOUS
  <2> DEFINE id == [kind |-> r.kind, obj |-> o]
  <2>1. id \in Ids(r) /\ id.kind = "client" /\ id.obj = o
    BY DEF Ids
  <2> QED
    BY <2>1 DEF WellFormed
<1> QED
  BY <1>1 DEF WellFormed

-----------------------------------------------------------------------------
(* Steps that only take items away.                                        *)

(* All that the invariant says of an item, its references aside.           *)
SameItems ==
  /\ Items' = Items
  /\ \A i \in Items : /\ items'[i].op = items[i].op
                      /\ items'[i].kind = items[i].kind
                      /\ items'[i].objs = items[i].objs

(* ... is all that the predicates over items look at.                      *)
LEMMA SameItemsFacts ==
  ASSUME SameItems
  PROVE  /\ \A i \in Items : /\ IsCreate(items'[i]) <=> IsCreate(items[i])
                             /\ IsUpdate(items'[i]) <=> IsUpdate(items[i])
         /\ \A i, j \in Items : SameObject(i, j)' <=> SameObject(i, j)
BY DEF SameItems, IsCreate, IsUpdate, SameObject

(* Most steps leave the items alone.                                       *)
LEMMA UnchangedItems ==
  ASSUME UNCHANGED items
  PROVE  SameItems
BY DEF SameItems, Items

(* Forgetting one item k that has been answered, or that is no update,     *)
(* disturbs no order between the remaining updates.                        *)
LEMMA UpdateShrink ==
  ASSUME TypeOK, UpdateInv, SameItems, NEW k \in Items,
         queue' \subseteq queue, inflight' \subseteq inflight,
         mapped \subseteq mapped',
         k \notin queue' \cup inflight' \/ ~IsUpdate(items[k]),
         \A j \in queue' : deps[j] \ {k} \subseteq deps'[j],
         \A id \in Id : waiting[id] \ {k} \subseteq waiting'[id]
  PROVE  UpdateInv'
<1>1. queue \subseteq Items /\ inflight \subseteq Items
  BY DEF TypeOK
<1>2. WellFormedItems'
  BY SameItemsFacts DEF UpdateInv, WellFormedItems, SameItems
<1>3. Named'
  BY <1>1, SameItemsFacts DEF UpdateInv, Named, SameItems
<1>4. Awaited'
  <2> SUFFICES ASSUME NEW i \in inflight', IsUpdate(items'[i])
               PROVE  /\ items'[i].objs \subseteq OnServer \cup mapped'
                      /\ \A o \in items'[i].objs : i \in waiting'[ServerId(o)]
    BY DEF Awaited
  <2>1. i \in Items /\ i \in inflight /\ IsUpdate(items[i]) /\ items'[i].objs = items[i].objs
    BY <1>1, SameItemsFacts DEF SameItems
  <2>2. items[i].objs \subseteq Objects
    <3>1. items[i] \in QueueItem
      BY <2>1 DEF TypeOK, Items
    <3> QED
      BY <3>1 DEF QueueItem
  <2>3. i # k
    BY <2>1
  <2> QED
    BY <2>1, <2>2, <2>3, IdFacts DEF UpdateInv, Awaited
<1>5. Ordered'
  <2> SUFFICES ASSUME NEW j \in queue', NEW i \in queue' \cup inflight', i < j,
                      IsUpdate(items'[i]), IsUpdate(items'[j]), SameObject(i, j)'
               PROVE  i \in deps'[j]
    BY DEF Ordered
  <2>1. i \in deps[j]
    BY <1>1, SameItemsFacts DEF UpdateInv, Ordered
  <2>2. i # k
    BY <1>1, SameItemsFacts
  <2> QED
    BY <2>1, <2>2
<1>6. SerialUpdates'
  BY <1>1, SameItemsFacts DEF UpdateInv, SerialUpdates
<1> QED
  BY <1>2, <1>3, <1>4, <1>5, <1>6 DEF UpdateInv

(* An item ends at most once, and an object becomes mapped only by a       *)
(* creation that ended well.                                               *)
LEMMA CreatorStep ==
  ASSUME TypeOK, CreatorInv, SameItems,
         queue' \cup inflight' \subseteq queue \cup inflight,
         rejected' = rejected,
         \A i \in Items : outcome[i] # "pending" => outcome'[i] = outcome[i],
         \A i \in queue' \cup inflight' : outcome'[i] = outcome[i],
         \A o \in mapped' \ mapped : \E i \in Items :
            IsCreate(items[i]) /\ o \in items[i].objs /\ outcome'[i] = "ok",
         \A p \in bulk' \ bulk : /\ p[1] \in Items
                                 /\ items[p[1]].op = "Bulk"
                                 /\ p[2] \in items[p[1]].objs
                                 /\ outcome'[p[1]] = "ok"
  PROVE  CreatorInv'
<1>1. OneCreator'
  <2> SUFFICES ASSUME NEW i \in Items, NEW j \in Items, i # j,
                      IsCreate(items[i]), IsCreate(items[j]), SameObject(i, j)
               PROVE  Refused(i)' \/ Refused(j)'
    BY SameItemsFacts DEF OneCreator, SameItems
  <2>1. Refused(i) \/ Refused(j)
    BY DEF CreatorInv, OneCreator
  <2> QED
    BY <2>1 DEF Refused
<1>2. LivePending'
  BY DEF CreatorInv, LivePending
<1>3. MappedCreated'
  <2> SUFFICES ASSUME NEW o \in mapped'
               PROVE  \E i \in Items : IsCreate(items[i]) /\ o \in items[i].objs /\ outcome'[i] = "ok"
    BY SameItemsFacts DEF MappedCreated, SameItems
  <2>1. CASE o \in mapped
    BY <2>1 DEF CreatorInv, MappedCreated
  <2> QED
    BY <2>1
<1>4. BulkItems'
  <2>1. \A p \in bulk : p[1] \in Items
    BY DEF TypeOK
  <2> QED
    BY <2>1 DEF CreatorInv, BulkItems, SameItems
<1> QED
  BY <1>1, <1>2, <1>3, <1>4 DEF CreatorInv

-----------------------------------------------------------------------------
(* Each step keeps the invariant.                                          *)

(* At startup the queue holds at most one write of an object, and nothing  *)
(* is in flight.                                                           *)
LEMMA WriterInit == Init => WriterInv
<1> SUFFICES ASSUME Init PROVE WriterInv
  OBVIOUS
<1>1. /\ items \in Seq(QueueItem) /\ queue = Items /\ inflight = {} /\ mapped = {} /\ bulk = {}
      /\ \A i \in Items : WellFormed(items[i]) /\ outcome[i] = "pending"
      /\ \A i \in Items : IsUpdate(items[i]) => items[i].objs \subseteq OnServer
      /\ \A i, j \in Items : i # j /\ items[i].op # "Action" /\ items[j].op # "Action"
                               => ~SameObject(i, j)
  BY SyncQueueAssumption DEF Init, Items, SameObject
<1>2. WellFormedItems
  BY <1>1, WellFormedFacts DEF WellFormedItems
<1>3. Named /\ Awaited /\ SerialUpdates
  BY <1>1 DEF Named, Awaited, SerialUpdates
<1>4. Ordered
  <2>1. \A i \in Items : IsUpdate(items[i]) => items[i].op # "Action"
    BY DEF IsUpdate, UpdateOps
  <2>2. \A i \in Items : i \in Nat
    BY <1>1 DEF Items
  <2> QED
    BY <1>1, <2>1, <2>2 DEF Ordered
<1>5. OneCreator
  <2>1. \A i \in Items : IsCreate(items[i]) => items[i].op # "Action"
    BY DEF IsCreate, CreateOps
  <2> QED
    BY <1>1, <2>1 DEF OneCreator
<1>6. LivePending /\ MappedCreated /\ BulkItems
  BY <1>1 DEF LivePending, MappedCreated, BulkItems
<1> QED
  BY <1>2, <1>3, <1>4, <1>5, <1>6 DEF WriterInv, UpdateInv, CreatorInv

(* A step that only moves the queue's flags.                               *)
LEMMA WriterStutter ==
  ASSUME WriterInv,
         UNCHANGED <<items, queue, deps, waiting, mapped, inflight, bulk, outcome, rejected>>
  PROVE  WriterInv'
<1>1. Items' = Items /\ \A i, j : SameObject(i, j)' <=> SameObject(i, j)
  BY DEF Items, SameObject
<1>2. UpdateInv'
  BY <1>1 DEF WriterInv, UpdateInv, WellFormedItems, Named, Awaited, Ordered, SerialUpdates
<1>3. CreatorInv'
  BY <1>1 DEF WriterInv, CreatorInv, OneCreator, Refused, LivePending, MappedCreated, BulkItems
<1> QED
  BY <1>2, <1>3 DEF WriterInv

(* The new item, at the end, and the facts about the older ones.           *)
LEMMA EnqueueFacts ==
  ASSUME TypeOK, NEW r \in Requests, Enqueue(r)
  PROVE  LET n == Len(items) + 1
         IN  /\ n \notin Items
             /\ Items' = Items \cup {n}
             /\ \A i \in Items : i < n /\ items'[i] = items[i]
             /\ items'[n].op = r.op /\ items'[n].kind = r.kind /\ items'[n].objs = r.objs
             /\ outcome'[n] = "pending"
             /\ \A i \in Items : outcome'[i] = outcome[i]
             /\ rejected \subseteq rejected'
             /\ queue' = queue \cup {n}
             /\ \A j \in queue : deps'[j] = deps[j]
             /\ UpdateDependencies(Append(items, r), queue, r) \subseteq deps'[n]
<1> DEFINE n == Len(items) + 1
           its == Append(items, r)
<1>1. Len(items) \in Nat /\ Items = 1 .. Len(items) /\ n \notin Items /\ \A i \in Items : i < n
  BY DEF TypeOK, Items
<1>2. r \in QueueItem
  BY SyncQueueAssumption DEF WellFormed
<1>3. PICK S : items' = Append(items, [r EXCEPT !.refs = Replace(r.refs, S)])
  BY DEF Enqueue
<1> DEFINE r2 == [r EXCEPT !.refs = Replace(r.refs, S)]
<1>4. r2.op = r.op /\ r2.kind = r.kind /\ r2.objs = r.objs
  BY <1>2 DEF QueueItem
<1> HIDE DEF r2
<1>5. /\ Len(items') = Len(items) + 1
      /\ items'[n] = r2
      /\ \A i \in Items : items'[i] = items[i]
  BY <1>1, <1>3 DEF TypeOK, r2
<1>6. Items' = Items \cup {n}
  BY <1>1, <1>5 DEF Items
<1>7. /\ outcome' = [j \in Items \cup {n} |-> IF j = n THEN "pending" ELSE outcome[j]]
      /\ queue' = queue \cup {n}
      /\ rejected \subseteq rejected'
      /\ deps' = [j \in queue \cup {n} |->
                    IF j = n THEN InferredDependencies(its, queue, n) ELSE deps[j]]
  BY DEF Enqueue
<1>8. queue \subseteq Items /\ n \notin queue
  BY <1>1 DEF TypeOK
<1>9. /\ outcome'[n] = "pending"
      /\ \A i \in Items : outcome'[i] = outcome[i]
      /\ \A j \in queue : deps'[j] = deps[j]
      /\ deps'[n] = InferredDependencies(its, queue, n)
  BY <1>1, <1>7, <1>8
<1>10. its[n] = r
  BY <1>1 DEF TypeOK
<1>11. n \notin UpdateDependencies(its, queue, r)
  <2>1. \A id \in Id : waiting[id] \subseteq Items
    BY DEF TypeOK
  <2>2. \A id \in Ids(r) : NamesOf(id) \subseteq Id
    BY <1>2, IdFacts DEF NamesOf
  <2>3. \A id \in Id : n \notin ItemsWithObjectId(its, queue, id)
    BY <1>1, <1>8, <2>1 DEF ItemsWithObjectId
  <2> QED
    BY <2>2, <2>3 DEF UpdateDependencies
<1>12. UpdateDependencies(its, queue, r) \subseteq deps'[n]
  BY <1>9, <1>10, <1>11 DEF InferredDependencies
<1> QED
  BY <1>1, <1>4, <1>5, <1>6, <1>7, <1>9, <1>12

(* What get_update_dependencies finds: whichever ids the caller and the    *)
(* earlier updates use, every live update of the object.                   *)
LEMMA UpdateDependenciesComplete ==
  ASSUME TypeOK, UpdateInv, NEW r \in Requests, CanRequest(r), IsUpdate(r),
         NEW i \in queue \cup inflight, IsUpdate(items[i]), items[i].objs \cap r.objs # {}
  PROVE  i \in UpdateDependencies(Append(items, r), queue, r)
<1> DEFINE its == Append(items, r)
<1>1. i \in Items /\ Items = 1 .. Len(items) /\ Len(items) \in Nat
  BY DEF TypeOK, Items
<1>2. its[i] = items[i]
  BY <1>1 DEF TypeOK
<1>3. r \in QueueItem /\ items[i] \in QueueItem /\ WellFormed(r)
  BY <1>1, SyncQueueAssumption DEF WellFormed, TypeOK
<1>4. PICK o : o \in r.objs /\ o \in items[i].objs
  OBVIOUS
<1>5. o \in Objects
  BY <1>3, <1>4 DEF QueueItem
<1>6. /\ r.kind \in Kinds /\ items[i].kind \in Kinds
      /\ [kind |-> r.kind, obj |-> o] \in Ids(r)
      /\ [kind |-> items[i].kind, obj |-> o] \in Ids(items[i])
  BY <1>3, <1>4 DEF QueueItem, Ids
<1>7. r.kind = "client" => o \notin OnServer
  BY <1>3, <1>4, WellFormedFacts
<1>8. items[i].kind = "client" => o \notin OnServer
  BY <1>1, <1>4 DEF UpdateInv, WellFormedItems
<1>9. r.kind = "server" => o \in OnServer \cup mapped
  <2> DEFINE id == [kind |-> r.kind, obj |-> o]
  <2>1. id \in Ids(r) /\ id.kind = r.kind /\ id.obj = o
    BY <1>6
  <2>2. ~IsCreate(r)
    BY DEF IsUpdate, IsCreate, UpdateOps, CreateOps
  <2>3. \A d \in Ids(r) : d.kind = "server" => d.obj \in OnServer \cup mapped
    BY <2>2 DEF CanRequest
  <2> QED
    BY <2>1, <2>3
<1>10. items[i].op # "Action"
  BY DEF IsUpdate, UpdateOps
<1> DEFINE names == UNION {NamesOf(d) : d \in Ids(r)}
<1>11. ASSUME NEW d \in names, i \in ItemsWithObjectId(its, queue, d)
       PROVE  i \in UpdateDependencies(its, queue, r)
  BY <1>11 DEF UpdateDependencies
<1>12. [kind |-> r.kind, obj |-> o] \in names
  BY <1>6 DEF NamesOf
<1>13. o \in mapped => ClientId(o) \in names /\ ServerId(o) \in names
  BY <1>6 DEF NamesOf
<1>14. CASE i \in queue
  <2>1. \A d \in Ids(items[i]) : i \in ItemsWithObjectId(its, queue, d)
    BY <1>2, <1>10, <1>14 DEF ItemsWithObjectId
  <2>2. [kind |-> items[i].kind, obj |-> o] \in names
    <3>1. CASE items[i].kind = r.kind
      BY <1>12, <3>1
    <3>2. CASE items[i].kind = "server" /\ r.kind = "client"
      <4>1. o \in mapped
        BY <1>4, <1>7, <1>14, <3>2 DEF UpdateInv, Named
      <4> QED
        BY <1>13, <3>2, <4>1 DEF ServerId
    <3>3. CASE items[i].kind = "client" /\ r.kind = "server"
      <4>1. o \in mapped
        BY <1>8, <1>9, <3>3
      <4> QED
        BY <1>13, <3>3, <4>1 DEF ClientId
    <3> QED
      BY <1>6, <3>1, <3>2, <3>3 DEF Kinds
  <2> QED
    BY <1>6, <1>11, <2>1, <2>2
<1>15. CASE i \in inflight
  <2>1. i \in waiting[ServerId(o)] /\ o \in OnServer \cup mapped
    BY <1>4, <1>15 DEF UpdateInv, Awaited
  <2>2. i \in ItemsWithObjectId(its, queue, ServerId(o))
    BY <2>1 DEF ItemsWithObjectId
  <2>3. ServerId(o) \in names
    <3>1. CASE r.kind = "server"
      BY <1>12, <3>1 DEF ServerId
    <3>2. CASE r.kind = "client"
      BY <1>7, <1>13, <2>1, <3>2
    <3> QED
      BY <1>6, <3>1, <3>2 DEF Kinds
  <2> QED
    BY <1>11, <2>2, <2>3
<1> QED
  BY <1>14, <1>15

(* Enqueueing keeps the invariant: a new update depends on every live      *)
(* update of its object, and a new creation on an object not yet created.  *)
LEMMA WriterEnqueue ==
  ASSUME TypeOK, WriterInv, NEW r \in Requests, Enqueue(r)
  PROVE  WriterInv'
<1>0. PICK n : n = Len(items) + 1
  OBVIOUS
<1>1. /\ n \notin Items
      /\ Items' = Items \cup {n}
      /\ \A i \in Items : i < n /\ items'[i] = items[i]
      /\ items'[n].op = r.op /\ items'[n].kind = r.kind /\ items'[n].objs = r.objs
      /\ outcome'[n] = "pending"
      /\ \A i \in Items : outcome'[i] = outcome[i]
      /\ rejected \subseteq rejected'
      /\ queue' = queue \cup {n}
      /\ \A j \in queue : deps'[j] = deps[j]
      /\ UpdateDependencies(Append(items, r), queue, r) \subseteq deps'[n]
  BY <1>0, EnqueueFacts
<1>2. CanRequest(r) /\ UNCHANGED <<waiting, mapped, inflight, bulk>>
  BY DEF Enqueue
<1>3. WellFormed(r)
  BY SyncQueueAssumption
<1>4. /\ IsCreate(items'[n]) <=> IsCreate(r)
      /\ IsUpdate(items'[n]) <=> IsUpdate(r)
      /\ \A i \in Items : SameObject(i, n)' <=> items[i].objs \cap r.objs # {}
      /\ \A i \in Items : SameObject(n, i)' <=> items[i].objs \cap r.objs # {}
      /\ \A i, j \in Items : SameObject(i, j)' <=> SameObject(i, j)
  BY <1>1 DEF IsCreate, IsUpdate, SameObject
<1>5. /\ queue \subseteq Items /\ inflight \subseteq Items /\ Items \subseteq Nat
      /\ \A p \in bulk : p[1] \in Items
  BY DEF TypeOK, Items
<1>6. \A j \in Items : ~(n < j)
  <2>1. n \in Nat
    BY <1>0 DEF TypeOK
  <2>2. \A j \in Items : j < n /\ j \in Nat
    BY <1>1, <1>5
  <2> QED
    BY <2>1, <2>2
<1>7. WellFormedItems'
  <2>1. /\ IsCreate(r) => r.objs \cap OnServer = {}
        /\ r.kind = "client" => r.objs \cap OnServer = {}
        /\ r.op # "Bulk" => \E o \in Objects : r.objs = {o}
        /\ r.op = "Bulk" => r.objs # {}
    BY <1>3, WellFormedFacts
  <2> QED
    BY <1>1, <1>4, <2>1 DEF WriterInv, UpdateInv, WellFormedItems
<1>8. Named'
  <2>1. IsUpdate(r) /\ r.kind = "server" => r.objs \subseteq OnServer \cup mapped
    <3> SUFFICES ASSUME IsUpdate(r), r.kind = "server", NEW o \in r.objs
                 PROVE  o \in OnServer \cup mapped
      OBVIOUS
    <3> DEFINE id == [kind |-> r.kind, obj |-> o]
    <3>1. id \in Ids(r) /\ id.kind = "server" /\ id.obj = o
      BY DEF Ids
    <3>2. ~IsCreate(r)
      BY DEF IsUpdate, IsCreate, UpdateOps, CreateOps
    <3> QED
      BY <1>2, <3>1, <3>2 DEF CanRequest
  <2> QED
    BY <1>1, <1>2, <1>4, <1>5, <2>1 DEF WriterInv, UpdateInv, Named
<1>9. Awaited'
  BY <1>1, <1>2, <1>5 DEF WriterInv, UpdateInv, Awaited
<1>10. Ordered'
  <2> SUFFICES ASSUME NEW j \in queue', NEW i \in queue' \cup inflight', i < j,
                      IsUpdate(items'[i]), IsUpdate(items'[j]), SameObject(i, j)'
               PROVE  i \in deps'[j]
    BY DEF Ordered
  <2>1. i \in Items /\ i \in queue \cup inflight
    <3>1. j \in Items \/ j = n
      BY <1>1, <1>5
    <3>2. i # n
      <4>1. CASE j \in Items
        BY <1>6, <4>1
      <4>2. CASE j = n
        <5>1. n \in Nat
          BY <1>0 DEF TypeOK
        <5> QED
          BY <4>2, <5>1
      <4> QED
        BY <3>1, <4>1, <4>2
    <3> QED
      BY <1>1, <1>2, <1>5, <3>2
  <2>2. CASE j = n
    <3>1. IsUpdate(r) /\ IsUpdate(items[i]) /\ items[i].objs \cap r.objs # {}
      BY <1>1, <1>4, <2>1, <2>2
    <3>2. i \in UpdateDependencies(Append(items, r), queue, r)
      BY <1>2, <2>1, <3>1, UpdateDependenciesComplete DEF WriterInv
    <3> QED
      BY <1>1, <2>2, <3>2
  <2>3. CASE j \in queue
    BY <1>1, <1>4, <1>5, <2>1, <2>3 DEF WriterInv, UpdateInv, Ordered
  <2> QED
    BY <1>1, <2>2, <2>3
<1>11. SerialUpdates'
  BY <1>1, <1>2, <1>4, <1>5, <1>6 DEF WriterInv, UpdateInv, SerialUpdates
<1>12. OneCreator'
  <2>1. ASSUME IsCreate(r), NEW i \in Items, IsCreate(items[i]), items[i].objs \cap r.objs # {}
        PROVE  Refused(i)
    BY <1>2, <2>1 DEF CanRequest, Refused
  <2> QED
    BY <1>1, <1>4, <2>1 DEF WriterInv, CreatorInv, OneCreator, Refused
<1>13. LivePending' /\ BulkItems'
  BY <1>1, <1>2, <1>5 DEF WriterInv, CreatorInv, LivePending, BulkItems
<1>14. MappedCreated'
  BY <1>1, <1>2 DEF WriterInv, CreatorInv, MappedCreated
<1> QED
  BY <1>7, <1>8, <1>9, <1>10, <1>11, <1>12, <1>13, <1>14 DEF WriterInv, UpdateInv, CreatorInv

(* Sending keeps it: an item that depends on nothing has no earlier update *)
(* of its object before it.                                                *)
LEMMA WriterSend ==
  ASSUME TypeOK, WriterInv, NEW i \in queue, IsNext(i), Send(i),
         UNCHANGED <<items, mapped, bulk, rejected>>
  PROVE  WriterInv'
<1>1. /\ SameItems /\ items' = items /\ mapped' = mapped /\ bulk' = bulk
      /\ rejected' = rejected
      /\ i \in Items /\ items[i] \in QueueItem /\ queue \subseteq Items /\ inflight \subseteq Items
  BY UnchangedItems DEF TypeOK, Items
<1>2. /\ queue' = queue \ {i} /\ inflight' = inflight \cup {i}
      /\ \A j \in queue' : deps'[j] = deps[j]
      /\ UNCHANGED outcome
  BY DEF Send, Remove, Restrict
<1>3. \A id \in Id : waiting[id] \subseteq waiting'[id]
  BY DEF Send, Await
<1>4. deps[i] = {}
  BY DEF IsNext, Ready
<1>5. ASSUME IsUpdate(items[i])
      PROVE  /\ items[i].objs \subseteq OnServer \cup mapped
             /\ \A o \in items[i].objs : i \in waiting'[ServerId(o)]
  <2> SUFFICES ASSUME NEW o \in items[i].objs
               PROVE  o \in OnServer \cup mapped /\ i \in waiting'[ServerId(o)]
    OBVIOUS
  <2>1. ~IsCreate(items[i])
    BY <1>5 DEF IsUpdate, IsCreate, UpdateOps, CreateOps
  <2>2. Await(i, {ServerId(x) : x \in items[i].objs})
    BY <1>5, <2>1 DEF Send
  <2>3. o \in Objects
    BY <1>1 DEF QueueItem
  <2>4. i \in waiting'[ServerId(o)]
    BY <2>2, <2>3, IdFacts DEF Await
  <2>5. o \in OnServer \cup mapped
    <3> DEFINE id == [kind |-> items[i].kind, obj |-> o]
    <3>1. id \in Ids(items[i]) /\ id.kind = items[i].kind /\ id.obj = o
      BY DEF Ids
    <3>2. HasServerId(id)
      BY <2>1, <3>1 DEF Send
    <3>3. CASE items[i].kind = "server"
      BY <1>5, <3>3 DEF WriterInv, UpdateInv, Named
    <3>4. CASE o \in mapped
      BY <3>4
    <3> QED
      BY <3>1, <3>2, <3>3, <3>4 DEF HasServerId
  <2> QED
    BY <2>4, <2>5
<1>6. WellFormedItems' /\ Named'
  BY <1>1, <1>2 DEF WriterInv, UpdateInv, WellFormedItems, Named, SameItems
<1>7. Awaited'
  <2> SUFFICES ASSUME NEW k \in inflight', IsUpdate(items[k])
               PROVE  /\ items[k].objs \subseteq OnServer \cup mapped
                      /\ \A o \in items[k].objs : k \in waiting'[ServerId(o)]
    BY <1>1 DEF Awaited
  <2>1. CASE k = i
    BY <1>5, <2>1
  <2>2. CASE k \in inflight
    <3>1. items[k] \in QueueItem
      BY <1>1, <2>2 DEF TypeOK, Items
    <3>2. items[k].objs \subseteq Objects
      BY <3>1 DEF QueueItem
    <3> QED
      BY <1>3, <2>2, <3>2, IdFacts DEF WriterInv, UpdateInv, Awaited
  <2> QED
    BY <1>2, <2>1, <2>2
<1>8. Ordered'
  BY <1>1, <1>2, SameItemsFacts DEF WriterInv, UpdateInv, Ordered
<1>9. SerialUpdates'
  <2> SUFFICES ASSUME NEW j \in inflight', NEW k \in queue' \cup inflight', k < j,
                      IsUpdate(items[k]), IsUpdate(items[j]), SameObject(k, j)
               PROVE  FALSE
    BY <1>1, <1>2, SameItemsFacts DEF SerialUpdates
  <2>1. CASE j = i
    <3>1. k \in queue \cup inflight
      BY <1>2
    <3>2. k \in deps[i]
      BY <2>1, <3>1 DEF WriterInv, UpdateInv, Ordered
    <3> QED
      BY <1>4, <3>2
  <2>2. CASE j \in inflight
    BY <1>2, <2>2 DEF WriterInv, UpdateInv, SerialUpdates
  <2> QED
    BY <1>2, <2>1, <2>2
<1>10. CreatorInv'
  BY <1>1, <1>2, CreatorStep DEF WriterInv
<1> QED
  BY <1>6, <1>7, <1>8, <1>9, <1>10 DEF WriterInv, UpdateInv

(* Failing an item and its dependents leaves the remaining items as they   *)
(* were, and ends only items that were still to end.                       *)
LEMMA FailShrinks ==
  ASSUME TypeOK, WriterInv, NEW i \in queue \cup inflight, FailWithDependents(i)
  PROVE  /\ queue' \subseteq queue \ {i}
         /\ \A j \in queue' : deps'[j] = deps[j]
         /\ \A j \in Items : outcome[j] # "pending" => outcome'[j] = outcome[j]
         /\ \A j \in queue' \cup (inflight \ {i}) : outcome'[j] = outcome[j]
<1>1. /\ Dependents(i) \subseteq queue
      /\ queue \subseteq Items /\ inflight \subseteq Items /\ inflight \cap queue = {}
  BY DEF Dependents, TypeOK
<1>2. \A j \in queue \cup inflight : outcome[j] = "pending"
  BY DEF WriterInv, CreatorInv, LivePending
<1>3. /\ queue' = queue \ (Dependents(i) \cup {i})
      /\ \A j \in queue' : deps'[j] = deps[j]
      /\ outcome' = [j \in Items |-> IF j \in Dependents(i) \cup {i} THEN "failed" ELSE outcome[j]]
  BY DEF FailWithDependents, Restrict
<1> QED
  BY <1>1, <1>2, <1>3

(* So does each outcome of a dequeue, ...                                  *)
LEMMA WriterDequeue ==
  ASSUME TypeOK, WriterInv, Dequeue
  PROVE  WriterInv'
<1>1. PICK i \in queue : IsNext(i) /\ (Send(i) \/ Skip(i) \/ FailUpdate(i))
  BY DEF Dequeue
<1>2. UNCHANGED <<items, mapped, bulk, rejected>> /\ SameItems /\ i \in Items
  BY UnchangedItems DEF Dequeue, TypeOK
<1>3. CASE Send(i)
  BY <1>1, <1>2, <1>3, WriterSend
<1>4. CASE Skip(i)
  <2>1. /\ queue' = queue \ {i} /\ inflight' = inflight
        /\ \A j \in queue' : deps'[j] = deps[j]
        /\ outcome' = [outcome EXCEPT ![i] = "skipped"]
    BY <1>4 DEF Skip, Remove, Restrict
  <2>2. \A id \in Id : waiting[id] \subseteq waiting'[id]
    BY <1>4 DEF Skip, Await
  <2>3. outcome[i] = "pending" /\ i \notin inflight
    BY DEF WriterInv, CreatorInv, LivePending, TypeOK
  <2>4. UpdateInv'
    BY <1>2, <2>1, <2>2, <2>3, UpdateShrink DEF WriterInv
  <2>5. CreatorInv'
    <3>1. \A j \in Items : j # i => outcome'[j] = outcome[j]
      BY <2>1 DEF TypeOK
    <3>2. \A j \in queue' \cup inflight' : j \in Items /\ j # i
      BY <2>1, <2>3 DEF TypeOK
    <3> QED
      BY <1>2, <2>1, <2>3, <3>1, <3>2, CreatorStep DEF WriterInv
  <2> QED
    BY <2>4, <2>5 DEF WriterInv
<1>5. CASE FailUpdate(i)
  <2>1. /\ FailWithDependents(i) /\ inflight' = inflight
        /\ i \notin inflight
        /\ \A id \in Id : waiting[id] \ {i} \subseteq waiting'[id]
    BY <1>5 DEF FailUpdate, Answered, TypeOK
  <2>2. /\ queue' \subseteq queue \ {i}
        /\ \A j \in queue' : deps'[j] = deps[j]
        /\ \A j \in Items : outcome[j] # "pending" => outcome'[j] = outcome[j]
        /\ \A j \in queue' \cup inflight' : outcome'[j] = outcome[j]
    BY <2>1, FailShrinks
  <2>3. UpdateInv'
    BY <1>2, <2>1, <2>2, UpdateShrink DEF WriterInv
  <2>4. CreatorInv'
    BY <1>2, <2>1, <2>2, CreatorStep DEF WriterInv
  <2> QED
    BY <2>3, <2>4 DEF WriterInv
<1> QED
  BY <1>1, <1>3, <1>4, <1>5

(* ... each callback, ...                                                  *)
LEMMA WriterRespond ==
  ASSUME TypeOK, WriterInv, NEW i \in inflight, Respond(i)
  PROVE  WriterInv'
<1>1. /\ i \in Items /\ i \notin queue /\ outcome[i] = "pending"
      /\ inflight \subseteq Items /\ queue \subseteq Items
  BY DEF TypeOK, WriterInv, CreatorInv, LivePending
<1>2. CASE CreateSucceeded(i) \/ CreateDenied(i) \/ UpdateOrActionAnswered(i)
  <2>1. SameItems
    <3>1. CASE RewriteReferences(i)
      BY <1>1, <3>1, RewriteFacts DEF SameItems
    <3>2. CASE items' = items
      BY <3>2, UnchangedItems
    <3> QED
      BY <1>2, <3>1, <3>2 DEF CreateSucceeded, CreateDenied, UpdateOrActionAnswered
  <2>2. /\ queue' = queue /\ inflight' = inflight \ {i} /\ mapped \subseteq mapped'
        /\ UNCHANGED <<bulk, rejected>>
        /\ \A j \in queue' : deps'[j] = deps[j] \ {i}
    BY <1>2 DEF CreateSucceeded, CreateDenied, UpdateOrActionAnswered, Release
  <2>3. \A id \in Id : waiting[id] \ {i} \subseteq waiting'[id]
    BY <1>2 DEF CreateSucceeded, CreateDenied, UpdateOrActionAnswered, Answered
  <2>4. UpdateInv'
    BY <1>1, <2>1, <2>2, <2>3, UpdateShrink DEF WriterInv
  <2>5. PICK how : /\ Finish(i, how)
                   /\ mapped' # mapped => /\ how = "ok"
                                          /\ IsCreate(items[i])
                                          /\ mapped' = mapped \cup items[i].objs
    BY <1>2 DEF CreateSucceeded, CreateDenied, UpdateOrActionAnswered, IsCreate, CreateOps
  <2>6. /\ outcome'[i] = how
        /\ \A j \in Items : j # i => outcome'[j] = outcome[j]
    BY <1>1, <2>5 DEF Finish, TypeOK
  <2>7. \A o \in mapped' \ mapped :
          IsCreate(items[i]) /\ o \in items[i].objs /\ outcome'[i] = "ok"
    BY <2>5, <2>6
  <2>8. \A j \in queue' \cup inflight' : j \in Items /\ j # i
    BY <1>1, <2>2
  <2>9. CreatorInv'
    BY <1>1, <2>1, <2>2, <2>6, <2>7, <2>8, CreatorStep DEF WriterInv
  <2> QED
    BY <2>4, <2>9 DEF WriterInv
<1>3. CASE BulkSucceeded(i)
  <2>1. /\ SameItems
        /\ UNCHANGED <<queue, deps, waiting, mapped, rejected>>
        /\ inflight' = inflight \ {i}
        /\ items[i].op = "Bulk"
        /\ bulk' = {i} \X items[i].objs
    BY <1>3, UnchangedItems DEF BulkSucceeded
  <2>2. outcome'[i] = "ok" /\ \A j \in Items : j # i => outcome'[j] = outcome[j]
    BY <1>1, <1>3 DEF BulkSucceeded, TypeOK
  <2>3. UpdateInv'
    BY <1>1, <2>1, UpdateShrink DEF WriterInv
  <2>4. \A p \in bulk' : p[1] = i /\ p[2] \in items[i].objs
    BY <2>1
  <2>5. \A j \in queue' \cup inflight' : j \in Items /\ j # i
    BY <1>1, <2>1
  <2>6. CreatorInv'
    BY <1>1, <2>1, <2>2, <2>4, <2>5, CreatorStep DEF WriterInv
  <2> QED
    BY <2>3, <2>6 DEF WriterInv
<1>4. CASE \E persistent \in BOOLEAN : RequestFailed(i, persistent)
  <2>1. /\ SameItems /\ inflight' = inflight \ {i} /\ FailWithDependents(i)
        /\ UNCHANGED <<mapped, bulk, rejected>>
        /\ \A id \in Id : waiting[id] \ {i} \subseteq waiting'[id]
    BY <1>4, UnchangedItems DEF RequestFailed, Answered
  <2>2. /\ queue' \subseteq queue \ {i}
        /\ \A j \in queue' : deps'[j] = deps[j]
        /\ \A j \in Items : outcome[j] # "pending" => outcome'[j] = outcome[j]
        /\ \A j \in queue' \cup (inflight \ {i}) : outcome'[j] = outcome[j]
    BY <2>1, FailShrinks
  <2>3. UpdateInv'
    BY <1>1, <2>1, <2>2, UpdateShrink DEF WriterInv
  <2>4. CreatorInv'
    BY <2>1, <2>2, CreatorStep DEF WriterInv
  <2> QED
    BY <2>3, <2>4 DEF WriterInv
<1> QED
  BY <1>2, <1>3, <1>4 DEF Respond

(* ... and each round of the loop over a bulk reply.                       *)
LEMMA WriterBulkNext ==
  ASSUME TypeOK, WriterInv, BulkNext
  PROVE  WriterInv'
<1>1. PICK p \in bulk : /\ bulk' = bulk \ {p}
                        /\ mapped' = mapped \cup {p[2]}
                        /\ Answered(p[1], {ClientId(p[2])})
                        /\ Release(p[1])
  BY DEF BulkNext
<1>2. /\ SameItems /\ p[1] \in Items
      /\ UNCHANGED <<queue, inflight, outcome, rejected>>
  BY UnchangedItems DEF BulkNext, TypeOK
<1>3. items[p[1]].op = "Bulk" /\ p[2] \in items[p[1]].objs /\ outcome[p[1]] = "ok"
  BY DEF WriterInv, CreatorInv, BulkItems
<1>4. ~IsUpdate(items[p[1]]) /\ IsCreate(items[p[1]])
  BY <1>3 DEF IsUpdate, UpdateOps, IsCreate, CreateOps
<1>5. /\ \A j \in queue' : deps[j] \ {p[1]} \subseteq deps'[j]
      /\ \A id \in Id : waiting[id] \ {p[1]} \subseteq waiting'[id]
  BY <1>1, <1>2 DEF Release, Answered
<1>6. UpdateInv'
  BY <1>1, <1>2, <1>4, <1>5, UpdateShrink DEF WriterInv
<1>7. CreatorInv'
  BY <1>1, <1>2, <1>3, <1>4, CreatorStep DEF WriterInv
<1> QED
  BY <1>6, <1>7 DEF WriterInv

(* The invariant is inductive, given the type invariant.                   *)
LEMMA WriterNext == TypeOK /\ WriterInv /\ [Next]_vars => WriterInv'
<1> SUFFICES ASSUME TypeOK, WriterInv, [Next]_vars PROVE WriterInv'
  OBVIOUS
<1>1. ASSUME NEW r \in Requests, Enqueue(r) PROVE WriterInv'
  BY <1>1, WriterEnqueue
<1>2. CASE StopDequeueing \/ StartDequeueing \/ NothingToDequeue
  BY <1>2, WriterStutter DEF StopDequeueing, StartDequeueing, NothingToDequeue, history
<1>3. CASE Dequeue
  BY <1>3, WriterDequeue
<1>4. CASE BulkNext
  BY <1>4, WriterBulkNext
<1>5. ASSUME NEW i \in inflight, Respond(i) PROVE WriterInv'
  BY <1>5, WriterRespond
<1>6. CASE UNCHANGED vars
  BY <1>6, WriterStutter DEF vars
<1> QED
  BY <1>1, <1>2, <1>3, <1>4, <1>5, <1>6 DEF Next

-----------------------------------------------------------------------------
(* The inductive invariant: every live update is accounted for in the      *)
(* dependencies of the later ones, and every server id the queue knows     *)
(* comes from the one creation of its object that succeeded.               *)
THEOREM WriterInvariant == Spec => []WriterInv
BY WriterInit, WriterNext, TypeCorrect, PTL DEF Spec

(* Updates of an object reach the server one at a time and in the order    *)
(* they were enqueued, whichever of its ids each caller used.              *)
THEOREM UpdatesAreSerial == Spec => []SerialUpdates
<1>1. WriterInv => SerialUpdates
  BY DEF WriterInv, UpdateInv
<1> QED
  BY <1>1, WriterInvariant, PTL

(* Two requests in flight never write the same object: two updates by the  *)
(* order, two creations because one would have ended, and an update is not *)
(* sent before a creation of its object has succeeded.  The exception is   *)
(* an object that could be created again while a rejected creation of it   *)
(* was still queued.                                                       *)
LEMMA OneWriterFacts == TypeOK /\ WriterInv => OneWriterInFlight
<1> SUFFICES ASSUME TypeOK, WriterInv, NEW i \in inflight, NEW j \in inflight, i # j,
                    items[i].op # "Action", items[j].op # "Action", SameObject(i, j)
             PROVE  \E k \in rejected :
                      IsCreate(items[k]) /\ (SameObject(k, i) \/ SameObject(k, j))
  BY DEF OneWriterInFlight
<1>1. /\ i \in Items /\ j \in Items /\ i \in Nat /\ j \in Nat
      /\ items[i] \in QueueItem /\ items[j] \in QueueItem
  BY DEF TypeOK, Items
<1>2. /\ IsCreate(items[i]) \/ IsUpdate(items[i])
      /\ IsCreate(items[j]) \/ IsUpdate(items[j])
  BY <1>1 DEF QueueItem, IsCreate, IsUpdate
<1>3. SameObject(j, i)
  BY DEF SameObject
<1>4. CASE IsUpdate(items[i]) /\ IsUpdate(items[j])
  <2>1. i < j \/ j < i
    BY <1>1
  <2> QED
    BY <1>3, <1>4, <2>1 DEF WriterInv, UpdateInv, SerialUpdates
<1>5. CASE IsCreate(items[i]) /\ IsCreate(items[j])
  <2>1. i \in rejected \/ j \in rejected
    BY <1>1, <1>5 DEF WriterInv, CreatorInv, OneCreator, Refused, LivePending
  <2> QED
    BY <1>3, <1>5, <2>1
<1>6. ASSUME NEW c \in inflight, NEW u \in inflight, IsCreate(items[c]), IsUpdate(items[u]),
             SameObject(c, u)
      PROVE  \E k \in rejected : IsCreate(items[k]) /\ SameObject(k, c)
  <2>1. PICK o : o \in items[c].objs /\ o \in items[u].objs
    BY <1>6 DEF SameObject
  <2>2. c \in Items /\ u \in Items
    BY DEF TypeOK
  <2>3. o \in mapped
    BY <1>6, <2>1, <2>2 DEF WriterInv, UpdateInv, WellFormedItems, Awaited
  <2>4. PICK k \in Items : IsCreate(items[k]) /\ o \in items[k].objs /\ outcome[k] = "ok"
    BY <2>3 DEF WriterInv, CreatorInv, MappedCreated
  <2>5. outcome[c] = "pending"
    BY DEF WriterInv, CreatorInv, LivePending
  <2>6. k # c /\ SameObject(k, c) /\ SameObject(c, c)
    BY <2>1, <2>4, <2>5 DEF SameObject
  <2>7. k \in rejected \/ c \in rejected
    BY <1>6, <2>2, <2>4, <2>5, <2>6 DEF WriterInv, CreatorInv, OneCreator, Refused
  <2> QED
    BY <1>6, <2>4, <2>6, <2>7
<1> QED
  BY <1>2, <1>3, <1>4, <1>5, <1>6

(* At most one request that writes an object is in flight, unless a        *)
(* creation of it was reported as failed and left in the queue.            *)
THEOREM OneWriter == Spec => []OneWriterInFlight
BY OneWriterFacts, WriterInvariant, TypeCorrect, PTL

-----------------------------------------------------------------------------
(* A step of a request's callback leaves a dequeue due, a bulk reply to    *)
(* work through, or the queue halted by a persistent error.                *)
LEMMA RespondDequeues ==
  ASSUME TypeOK, WriterInv, NEW i \in inflight, Respond(i)
  PROVE  owed' \/ bulk' # {} \/ paused'
<1>1. i \in Items
  BY DEF TypeOK
<1>2. CASE BulkSucceeded(i)
  <2>1. items[i].objs # {}
    BY <1>1, <1>2 DEF BulkSucceeded, WriterInv, UpdateInv, WellFormedItems
  <2>2. PICK o : o \in items[i].objs
    BY <2>1
  <2>3. <<i, o>> \in bulk'
    BY <1>2, <2>2 DEF BulkSucceeded
  <2> QED
    BY <2>3
<1>3. CASE \E persistent \in BOOLEAN : RequestFailed(i, persistent)
  <2>1. RequestFailed(i, TRUE) \/ RequestFailed(i, FALSE)
    BY <1>3
  <2> QED
    BY <2>1 DEF RequestFailed
<1>4. CASE CreateSucceeded(i) \/ CreateDenied(i) \/ UpdateOrActionAnswered(i)
  BY <1>4 DEF CreateSucceeded, CreateDenied, UpdateOrActionAnswered
<1> QED
  BY <1>2, <1>3, <1>4 DEF Respond

(* NoLostDequeue is preserved by every step.                               *)
LEMMA DequeueNext == TypeOK /\ WriterInv /\ NoLostDequeue /\ [Next]_vars => NoLostDequeue'
<1> SUFFICES ASSUME TypeOK, WriterInv, NoLostDequeue, [Next]_vars PROVE NoLostDequeue'
  OBVIOUS
<1>1. CASE StartDequeueing \/ (\E r \in Requests : Enqueue(r)) \/ BulkNext
  BY <1>1 DEF StartDequeueing, Enqueue, BulkNext, NoLostDequeue, Idle
<1>2. CASE StopDequeueing
  BY <1>2 DEF StopDequeueing, NoLostDequeue
<1>3. CASE NothingToDequeue
  BY <1>3 DEF NothingToDequeue, NoLostDequeue, Ready
<1>4. CASE Dequeue
  <2>1. PICK i \in queue : Send(i) \/ Skip(i) \/ FailUpdate(i)
    BY <1>4 DEF Dequeue
  <2>2. CASE Send(i)
    BY <2>2 DEF Send, NoLostDequeue
  <2>3. CASE Skip(i) \/ FailUpdate(i)
    BY <1>4, <2>3 DEF Dequeue, Skip, FailUpdate, NoLostDequeue, Idle
  <2> QED
    BY <2>1, <2>2, <2>3
<1>5. ASSUME NEW i \in inflight, Respond(i) PROVE NoLostDequeue'
  BY <1>5, RespondDequeues DEF NoLostDequeue, Idle
<1>6. CASE UNCHANGED vars
  BY <1>6 DEF vars, NoLostDequeue, Idle, Ready
<1> QED
  BY <1>1, <1>2, <1>3, <1>4, <1>5, <1>6 DEF Next

(* While dequeueing is on, an item that could be sent has a request ahead  *)
(* of it whose callback will dequeue, or a persistent error has stopped    *)
(* the chain.                                                              *)
THEOREM NothingForgotten == Spec => []NoLostDequeue
<1>1. Init => NoLostDequeue
  BY DEF Init, NoLostDequeue
<1> QED
  BY <1>1, DequeueNext, WriterInvariant, TypeCorrect, PTL DEF Spec

-----------------------------------------------------------------------------
(* Dependencies: what an item waits for, and what becomes of it when one of *)
(* the items it needed fails.                                              *)

(* The ids under which an item that has been sent, or a creation that has  *)
(* been skipped, is awaited.                                               *)
AwaitedIds(i) ==
  IF IsCreate(items[i]) THEN Ids(items[i])
  ELSE IF IsUpdate(items[i]) THEN {ServerId(o) : o \in items[i].objs}
  ELSE {}

Unanswered(i) == outcome[i] \in {"pending", "skipped"}
Outstanding(i) == {d \in needs[i] : Unanswered(d)}

(* What waiting_response holds has left the queue without an answer, or    *)
(* its object is still to come in the loop over a bulk reply.              *)
WaitingInv ==
  \A id \in Id : \A d \in waiting[id] :
    /\ d \notin queue
    /\ id \in AwaitedIds(d)
    /\ Unanswered(d) \/ <<d, id.obj>> \in bulk

(* DependencyDiscipline, as it stands between the steps of a handler.      *)
NeedsAnswered ==
  \A i \in Items \ queue :
    outcome[i] # "failed" => \A d \in needs[i] : outcome[d] \in {"ok", "denied"}
NeedsAwaited ==
  \A i \in queue :
    /\ deps[i] \subseteq needs[i]
    /\ Outstanding(i) \subseteq deps[i]
    /\ \A d \in deps[i] : Unanswered(d) \/ \E p \in bulk : p[1] = d
FailureSpreads ==
  \A i \in Items : (\E d \in needs[i] : outcome[d] = "failed") => outcome[i] = "failed"
NeedsInv == NeedsAnswered /\ NeedsAwaited /\ FailureSpreads

(* A creation names its objects by client ids.                             *)
ClientCreations == \A i \in Items : IsCreate(items[i]) => items[i].kind = "client"

DisciplineInv == ClientCreations /\ WaitingInv /\ NeedsInv

(* Rewriting references moves no item to other ids.                        *)
LEMMA AwaitedIdsSame ==
  ASSUME SameItems
  PROVE  \A i \in Items : AwaitedIds(i)' = AwaitedIds(i)
BY SameItemsFacts DEF SameItems, AwaitedIds, Ids

(* The ids an item is awaited under name its objects.                      *)
LEMMA AwaitedIdsFacts ==
  ASSUME TypeOK, NEW d \in Items
  PROVE  /\ AwaitedIds(d) \subseteq Id
         /\ \A id \in AwaitedIds(d) : id.obj \in items[d].objs /\ items[d].op # "Action"
         /\ ClientCreations /\ IsCreate(items[d]) =>
              \A id \in AwaitedIds(d) : id = ClientId(id.obj)
<1>1. items[d] \in QueueItem /\ items[d].objs \subseteq Objects
  <2>1. items[d] \in QueueItem
    BY DEF TypeOK, Items
  <2> QED
    BY <2>1 DEF QueueItem
<1>2. CASE IsCreate(items[d])
  <2>1. AwaitedIds(d) = {[kind |-> items[d].kind, obj |-> o] : o \in items[d].objs}
    BY <1>2 DEF AwaitedIds, Ids
  <2>2. items[d].kind \in Kinds /\ items[d].op # "Action"
    BY <1>1, <1>2 DEF QueueItem, IsCreate, CreateOps
  <2>3. ClientCreations => items[d].kind = "client"
    BY <1>2 DEF ClientCreations
  <2> QED
    BY <1>1, <2>1, <2>2, <2>3 DEF Id, ClientId
<1>3. CASE IsUpdate(items[d]) /\ ~IsCreate(items[d])
  <2>1. AwaitedIds(d) = {ServerId(o) : o \in items[d].objs}
    BY <1>3 DEF AwaitedIds
  <2>2. items[d].op # "Action"
    BY <1>3 DEF IsUpdate, UpdateOps
  <2> QED
    BY <1>1, <1>3, <2>1, <2>2, IdFacts DEF ServerId
<1>4. CASE ~IsUpdate(items[d]) /\ ~IsCreate(items[d])
  BY <1>4 DEF AwaitedIds
<1> QED
  BY <1>2, <1>3, <1>4

(* Dependents is closed: what waits on a dependent is one.                 *)
LEMMA DependentsClosed ==
  ASSUME NEW i
  PROVE  /\ Dependents(i) \subseteq queue
         /\ \A j \in queue : \A d \in deps[j] : d \in Dependents(i) \cup {i} => j \in Dependents(i)
<1> SUFFICES ASSUME NEW j \in queue, NEW d \in deps[j], d \in Dependents(i) \cup {i}
             PROVE  j \in Dependents(i)
  BY DEF Dependents
<1>1. SUFFICES ASSUME NEW S \in SUBSET queue,
                      \A k \in queue : (i \in deps[k] \/ deps[k] \cap S # {}) => k \in S
               PROVE  j \in S
  BY DEF Dependents
<1>2. d \in S \/ d = i
  BY <1>1 DEF Dependents
<1> QED
  BY <1>1, <1>2

(* An item is awaited no longer once it has been answered.                 *)
LEMMA WaitingAnswer ==
  ASSUME TypeOK, WaitingInv, SameItems, NEW k \in Items,
         queue' \subseteq queue,
         \A id \in Id : waiting'[id] \subseteq waiting[id],
         \A id \in AwaitedIds(k) : k \in queue \/ k \notin waiting'[id],
         \A d \in Items \ queue : d # k => outcome'[d] = outcome[d],
         bulk' = bulk
  PROVE  WaitingInv'
<1> SUFFICES ASSUME NEW id \in Id, NEW d \in waiting'[id]
             PROVE  /\ d \notin queue'
                    /\ id \in AwaitedIds(d)'
                    /\ Unanswered(d)' \/ <<d, id.obj>> \in bulk'
  BY DEF WaitingInv
<1>1. /\ d \in waiting[id] /\ d \in Items
      /\ d \notin queue
      /\ id \in AwaitedIds(d)
      /\ Unanswered(d) \/ <<d, id.obj>> \in bulk
  BY DEF WaitingInv, TypeOK
<1>2. d # k
  BY <1>1
<1>3. outcome'[d] = outcome[d] /\ AwaitedIds(d)' = AwaitedIds(d)
  BY <1>1, <1>2, AwaitedIdsSame
<1> QED
  BY <1>1, <1>3 DEF Unanswered

(* An item that leaves the queue with nothing outstanding has had all it   *)
(* needed answered.                                                        *)
LEMMA NeedsLeave ==
  ASSUME TypeOK, LivePending, NeedsInv, NEW i \in queue, deps[i] = {}, Remove(i),
         outcome' = outcome \/ outcome' = [outcome EXCEPT ![i] = "skipped"],
         UNCHANGED <<items, needs, bulk>>
  PROVE  NeedsInv'
<1>1. /\ Items' = Items /\ queue \subseteq Items /\ i \in Items
      /\ \A j \in Items : needs[j] \subseteq Items
      /\ queue' = queue \ {i}
      /\ \A j \in queue' : deps'[j] = deps[j]
  BY DEF TypeOK, Items, Remove, Restrict
<1>2. /\ outcome[i] = "pending"
      /\ \A j \in Items : j # i => outcome'[j] = outcome[j]
      /\ outcome'[i] \in {"pending", "skipped"}
      /\ \A j \in Items : outcome[j] \in Outcomes
  BY <1>1 DEF LivePending, TypeOK
<1>3. \A d \in needs[i] : outcome[d] \in {"ok", "denied"}
  <2> TAKE d \in needs[i]
  <2>1. ~Unanswered(d)
    BY DEF NeedsInv, NeedsAwaited, Outstanding
  <2>2. outcome[d] # "failed"
    BY <1>1, <1>2 DEF NeedsInv, FailureSpreads
  <2> QED
    BY <1>1, <1>2, <2>1, <2>2 DEF Unanswered, Outcomes
<1>4. NeedsAnswered'
  BY <1>1, <1>2, <1>3 DEF NeedsInv, NeedsAnswered
<1>5. NeedsAwaited'
  BY <1>1, <1>2 DEF NeedsInv, NeedsAwaited, Outstanding, Unanswered
<1>6. FailureSpreads'
  BY <1>1, <1>2 DEF NeedsInv, FailureSpreads
<1> QED
  BY <1>4, <1>5, <1>6 DEF NeedsInv

(* A failure takes with it every item that needs what has failed, and only *)
(* these.                                                                  *)
LEMMA NeedsFail ==
  ASSUME TypeOK, LivePending, NeedsInv, NEW i \in queue \cup inflight, FailWithDependents(i),
         UNCHANGED <<items, needs, bulk>>
  PROVE  NeedsInv'
<1> DEFINE gone == Dependents(i) \cup {i}
<1>1. /\ Items' = Items /\ queue \subseteq Items /\ i \in Items
      /\ \A j \in Items : needs[j] \subseteq Items
      /\ Dependents(i) \subseteq queue
      /\ \A j \in queue : \A d \in deps[j] : d \in gone => j \in gone
  BY DependentsClosed DEF TypeOK, Items
<1>2. /\ queue' = queue \ gone
      /\ \A j \in queue' : deps'[j] = deps[j]
      /\ \A j \in Items : outcome'[j] = IF j \in gone THEN "failed" ELSE outcome[j]
  BY <1>1 DEF FailWithDependents, Restrict
<1>3. \A j \in gone : outcome[j] = "pending"
  BY <1>1 DEF LivePending
<1> HIDE DEF gone
<1>4. NeedsAnswered'
  BY <1>1, <1>2, <1>3 DEF NeedsInv, NeedsAnswered
<1>5. NeedsAwaited'
  BY <1>1, <1>2, <1>3 DEF NeedsInv, NeedsAwaited, Outstanding, Unanswered
<1>6. FailureSpreads'
  <2> SUFFICES ASSUME NEW j \in Items, NEW d \in needs[j], outcome'[d] = "failed"
               PROVE  outcome'[j] = "failed"
    BY <1>1 DEF FailureSpreads
  <2>1. CASE d \notin gone
    BY <1>1, <1>2, <2>1 DEF NeedsInv, FailureSpreads
  <2>2. CASE d \in gone /\ j \in queue
    <3>1. d \in deps[j]
      BY <1>3, <2>2 DEF NeedsInv, NeedsAwaited, Outstanding, Unanswered
    <3> QED
      BY <1>1, <1>2, <2>2, <3>1
  <2>3. CASE d \in gone /\ j \notin queue
    <3>1. outcome[j] = "failed"
      BY <1>3, <2>3 DEF NeedsInv, NeedsAnswered
    <3> QED
      BY <1>2, <3>1
  <2> QED
    BY <2>1, <2>2, <2>3
<1> QED
  BY <1>4, <1>5, <1>6 DEF NeedsInv

(* An answer settles the need for the item, at once or, for a bulk reply,  *)
(* when the loop gets to its first object.                                 *)
LEMMA NeedsAnswer ==
  ASSUME TypeOK, LivePending, NeedsInv, NEW i \in inflight, NEW how \in {"ok", "denied"},
         outcome' = [outcome EXCEPT ![i] = how],
         Items' = Items, UNCHANGED <<queue, needs>>,
         \A j \in queue : deps[j] \ {i} \subseteq deps'[j] /\ deps'[j] \subseteq deps[j],
         (\A j \in queue : i \notin deps'[j]) \/ \E p \in bulk' : p[1] = i,
         bulk \subseteq bulk'
  PROVE  NeedsInv'
<1>1. /\ queue \subseteq Items /\ i \in Items
      /\ \A j \in Items : needs[j] \subseteq Items
      /\ outcome[i] = "pending"
  BY DEF TypeOK, LivePending
<1>2. outcome'[i] = how /\ \A j \in Items : j # i => outcome'[j] = outcome[j]
  BY <1>1 DEF TypeOK
<1>3. NeedsAnswered'
  BY <1>1, <1>2 DEF NeedsInv, NeedsAnswered
<1>4. NeedsAwaited'
  BY <1>1, <1>2 DEF NeedsInv, NeedsAwaited, Outstanding, Unanswered
<1>5. FailureSpreads'
  BY <1>1, <1>2 DEF NeedsInv, FailureSpreads
<1> QED
  BY <1>3, <1>4, <1>5 DEF NeedsInv

(* What a new item depends on has not been answered yet.                   *)
LEMMA EnqueueNeeds ==
  ASSUME TypeOK, LivePending, DisciplineInv, NEW r \in Requests, Enqueue(r)
  PROVE  LET n == Len(items) + 1
         IN  /\ needs'[n] = deps'[n]
             /\ \A i \in Items : needs'[i] = needs[i]
             /\ \A d \in deps'[n] : d \in Items /\ Unanswered(d)
<1> DEFINE n == Len(items) + 1
           its == Append(items, r)
           S == {d \in Items : Unanswered(d)}
<1>1. n \notin Items /\ its[n] = r /\ n \notin queue
  BY DEF TypeOK, Items
<1>2. r \in QueueItem
  BY SyncQueueAssumption DEF WellFormed
<1>3. queue \subseteq S
  BY DEF TypeOK, LivePending, Unanswered
<1>4. \A id \in Id : waiting[id] \subseteq S
  <2>1. bulk = {}
    BY DEF Enqueue, Idle
  <2> QED
    BY <2>1 DEF DisciplineInv, WaitingInv, TypeOK
<1>5. InferredDependencies(its, queue, n) \subseteq S
  BY <1>1, <1>2, <1>3, <1>4, DependencyType
<1>6. /\ deps'[n] = InferredDependencies(its, queue, n)
      /\ needs' = [j \in Items \cup {n} |-> IF j = n THEN deps'[n] ELSE needs[j]]
  BY <1>1 DEF Enqueue
<1> QED
  BY <1>1, <1>5, <1>6

(* The invariant at startup: nothing has ended and nothing is awaited.     *)
LEMMA DisciplineInit == Init => DisciplineInv
<1> SUFFICES ASSUME Init PROVE DisciplineInv
  OBVIOUS
<1>1. /\ queue = Items /\ needs = deps /\ bulk = {}
      /\ \A i \in Items : outcome[i] = "pending"
      /\ \A id \in Id : waiting[id] = {}
      /\ \A i \in Items : WellFormed(items[i])
  BY SyncQueueAssumption DEF Init, Items
<1>2. TypeOK
  BY InitType
<1>3. NeedsInv
  BY <1>1, <1>2 DEF NeedsInv, NeedsAnswered, NeedsAwaited, FailureSpreads, Outstanding,
                    Unanswered, TypeOK
<1>4. ClientCreations
  BY <1>1 DEF ClientCreations, WellFormed
<1> QED
  BY <1>1, <1>3, <1>4 DEF DisciplineInv, WaitingInv

LEMMA DisciplineStutter ==
  ASSUME DisciplineInv, UNCHANGED <<items, queue, deps, waiting, bulk, needs, outcome>>
  PROVE  DisciplineInv'
BY DEF DisciplineInv, ClientCreations, WaitingInv, NeedsInv, NeedsAnswered, NeedsAwaited,
       FailureSpreads, Outstanding, Unanswered, AwaitedIds, Items

LEMMA ClientCreationsSame ==
  ASSUME ClientCreations, SameItems
  PROVE  ClientCreations'
BY SameItemsFacts DEF ClientCreations, SameItems

LEMMA DisciplineEnqueue ==
  ASSUME TypeOK, LivePending, DisciplineInv, NEW r \in Requests, Enqueue(r)
  PROVE  DisciplineInv'
<1>0. PICK n : n = Len(items) + 1
  OBVIOUS
<1>1. /\ n \notin Items
      /\ Items' = Items \cup {n}
      /\ \A i \in Items : items'[i] = items[i]
      /\ items'[n].op = r.op /\ items'[n].kind = r.kind
      /\ outcome'[n] = "pending"
      /\ \A i \in Items : outcome'[i] = outcome[i]
      /\ queue' = queue \cup {n}
      /\ \A j \in queue : deps'[j] = deps[j]
  BY <1>0, EnqueueFacts
<1>2. /\ needs'[n] = deps'[n]
      /\ \A i \in Items : needs'[i] = needs[i]
      /\ \A d \in deps'[n] : d \in Items /\ Unanswered(d)
  BY <1>0, EnqueueNeeds
<1>3. UNCHANGED <<waiting, bulk>>
  BY DEF Enqueue
<1>4. /\ queue \subseteq Items
      /\ \A j \in Items : needs[j] \subseteq Items
      /\ \A id \in Id : waiting[id] \subseteq Items
  BY DEF TypeOK
<1>5. ClientCreations'
  <2>1. IsCreate(r) => r.kind = "client"
    BY SyncQueueAssumption DEF WellFormed
  <2> QED
    BY <1>1, <2>1 DEF DisciplineInv, ClientCreations, IsCreate
<1>6. WaitingInv'
  <2> SUFFICES ASSUME NEW id \in Id, NEW d \in waiting[id]
               PROVE  /\ d \notin queue'
                      /\ id \in AwaitedIds(d)'
                      /\ Unanswered(d)' \/ <<d, id.obj>> \in bulk
    BY <1>3 DEF WaitingInv
  <2>1. /\ d \in Items /\ d \notin queue
        /\ id \in AwaitedIds(d)
        /\ Unanswered(d) \/ <<d, id.obj>> \in bulk
    BY <1>4 DEF DisciplineInv, WaitingInv
  <2>2. AwaitedIds(d)' = AwaitedIds(d)
    BY <1>1, <2>1 DEF AwaitedIds
  <2> QED
    BY <1>1, <2>1, <2>2 DEF Unanswered
<1>7. NeedsAnswered'
  BY <1>1, <1>2, <1>4 DEF DisciplineInv, NeedsInv, NeedsAnswered
<1>8. NeedsAwaited'
  <2> SUFFICES ASSUME NEW j \in queue'
               PROVE  /\ deps'[j] \subseteq needs'[j]
                      /\ Outstanding(j)' \subseteq deps'[j]
                      /\ \A d \in deps'[j] : Unanswered(d)' \/ \E p \in bulk' : p[1] = d
    BY DEF NeedsAwaited
  <2>1. CASE j = n
    BY <1>1, <1>2, <2>1 DEF Outstanding, Unanswered
  <2>2. CASE j \in queue
    <3>1. /\ deps[j] \subseteq needs[j]
          /\ Outstanding(j) \subseteq deps[j]
          /\ \A d \in deps[j] : Unanswered(d) \/ \E p \in bulk : p[1] = d
          /\ deps'[j] = deps[j] /\ needs'[j] = needs[j] /\ needs[j] \subseteq Items
      BY <1>1, <1>2, <1>4, <2>2 DEF DisciplineInv, NeedsInv, NeedsAwaited
    <3> QED
      BY <1>1, <1>3, <3>1 DEF Outstanding, Unanswered
  <2> QED
    BY <1>1, <2>1, <2>2
<1>9. FailureSpreads'
  BY <1>1, <1>2, <1>4 DEF DisciplineInv, NeedsInv, FailureSpreads, Unanswered
<1> QED
  BY <1>5, <1>6, <1>7, <1>8, <1>9 DEF DisciplineInv, NeedsInv

(* Sending or skipping: the item has nothing outstanding, and is awaited   *)
(* from now on.                                                            *)
LEMMA DisciplineLeave ==
  ASSUME TypeOK, LivePending, DisciplineInv, NEW i \in queue, IsNext(i), Send(i) \/ Skip(i),
         UNCHANGED <<items, needs, bulk>>
  PROVE  DisciplineInv'
<1>1. /\ deps[i] = {} /\ Remove(i) /\ SameItems
      /\ outcome' = outcome \/ outcome' = [outcome EXCEPT ![i] = "skipped"]
  BY UnchangedItems DEF IsNext, Ready, Send, Skip
<1>2. NeedsInv'
  BY <1>1, NeedsLeave DEF DisciplineInv
<1>3. ClientCreations'
  BY <1>1, ClientCreationsSame DEF DisciplineInv
<1>4. /\ i \in Items /\ outcome[i] = "pending" /\ i \notin queue'
      /\ \A d \in Items : Unanswered(d)' <=> Unanswered(d)
      /\ queue' \subseteq queue
  BY <1>1 DEF TypeOK, LivePending, Unanswered, Remove
<1>5. \A id \in Id : waiting'[id] \subseteq
        waiting[id] \cup (IF id \in AwaitedIds(i) THEN {i} ELSE {})
  BY DEF Send, Skip, Await, AwaitedIds, IsCreate, IsUpdate, CreateOps, UpdateOps
<1>6. WaitingInv'
  <2> SUFFICES ASSUME NEW id \in Id, NEW d \in waiting'[id]
               PROVE  /\ d \notin queue'
                      /\ id \in AwaitedIds(d)'
                      /\ Unanswered(d)' \/ <<d, id.obj>> \in bulk'
    BY DEF WaitingInv
  <2>1. CASE d \in waiting[id]
    <3>1. d \in Items
      BY <2>1 DEF TypeOK
    <3> QED
      BY <1>1, <1>4, <2>1, <3>1, AwaitedIdsSame DEF DisciplineInv, WaitingInv
  <2>2. CASE d = i /\ id \in AwaitedIds(i)
    BY <1>1, <1>4, <2>2, AwaitedIdsSame DEF Unanswered
  <2> QED
    BY <1>5, <2>1, <2>2
<1> QED
  BY <1>2, <1>3, <1>6 DEF DisciplineInv

LEMMA DisciplineDequeue ==
  ASSUME TypeOK, LivePending, DisciplineInv, Dequeue
  PROVE  DisciplineInv'
<1>1. PICK i \in queue : IsNext(i) /\ (Send(i) \/ Skip(i) \/ FailUpdate(i))
  BY DEF Dequeue
<1>2. UNCHANGED <<items, needs, bulk>> /\ SameItems
  BY UnchangedItems DEF Dequeue
<1>3. CASE Send(i) \/ Skip(i)
  BY <1>1, <1>2, <1>3, DisciplineLeave
<1>4. CASE FailUpdate(i)
  <2>1. FailWithDependents(i) /\ i \in Items
    BY <1>4 DEF FailUpdate, TypeOK
  <2>2. /\ queue' \subseteq queue
        /\ \A d \in Items \ queue : outcome'[d] = outcome[d]
    BY <2>1, DependentsClosed DEF FailWithDependents, TypeOK
  <2>3. \A id \in Id : waiting'[id] \subseteq waiting[id]
    BY <1>4 DEF FailUpdate, Answered
  <2>4. NeedsInv'
    BY <1>2, <2>1, NeedsFail DEF DisciplineInv
  <2>5. WaitingInv'
    BY <1>2, <2>1, <2>2, <2>3, WaitingAnswer DEF DisciplineInv
  <2> QED
    BY <1>2, <2>4, <2>5, ClientCreationsSame DEF DisciplineInv
<1> QED
  BY <1>1, <1>3, <1>4

LEMMA DisciplineRespond ==
  ASSUME TypeOK, WriterInv, DisciplineInv, NEW i \in inflight, Respond(i)
  PROVE  DisciplineInv'
<1>1. /\ i \in Items /\ i \notin queue /\ outcome[i] = "pending"
      /\ LivePending /\ WellFormedItems
  BY DEF TypeOK, WriterInv, CreatorInv, LivePending, UpdateInv
<1>2. CASE CreateSucceeded(i) \/ CreateDenied(i) \/ UpdateOrActionAnswered(i)
  <2>1. SameItems
    <3>1. CASE RewriteReferences(i)
      BY <1>1, <3>1, RewriteFacts DEF SameItems
    <3>2. CASE items' = items
      BY <3>2, UnchangedItems
    <3> QED
      BY <1>2, <3>1, <3>2 DEF CreateSucceeded, CreateDenied, UpdateOrActionAnswered
  <2>2. /\ UNCHANGED <<queue, bulk, needs>>
        /\ \A j \in queue : deps'[j] = deps[j] \ {i}
    BY <1>2 DEF CreateSucceeded, CreateDenied, UpdateOrActionAnswered, Release
  <2>3. PICK how \in {"ok", "denied"} : outcome' = [outcome EXCEPT ![i] = how]
    BY <1>2 DEF CreateSucceeded, CreateDenied, UpdateOrActionAnswered, Finish
  <2>4. NeedsInv'
    BY <1>1, <2>1, <2>2, <2>3, NeedsAnswer DEF DisciplineInv, SameItems
  <2>5. /\ \A id \in Id : waiting'[id] \subseteq waiting[id]
        /\ \A id \in AwaitedIds(i) : i \notin waiting'[id]
    <3>1. Answered(i, AwaitedIds(i)) \/ (AwaitedIds(i) = {} /\ \E ids : Answered(i, ids))
      BY <1>2 DEF CreateSucceeded, CreateDenied, UpdateOrActionAnswered, AwaitedIds,
                  IsCreate, CreateOps
    <3>2. AwaitedIds(i) \subseteq Id
      BY <1>1, AwaitedIdsFacts
    <3> QED
      BY <3>1, <3>2 DEF Answered
  <2>6. \A d \in Items \ queue : d # i => outcome'[d] = outcome[d]
    BY <2>3 DEF TypeOK
  <2>7. WaitingInv'
    BY <1>1, <2>1, <2>2, <2>5, <2>6, WaitingAnswer DEF DisciplineInv
  <2> QED
    BY <2>1, <2>4, <2>7, ClientCreationsSame DEF DisciplineInv
<1>3. CASE BulkSucceeded(i)
  <2>1. /\ SameItems
        /\ UNCHANGED <<queue, deps, waiting, needs>>
        /\ bulk = {}
        /\ items[i].op = "Bulk"
        /\ bulk' = {i} \X items[i].objs
        /\ outcome' = [outcome EXCEPT ![i] = "ok"]
    BY <1>3, UnchangedItems DEF BulkSucceeded, Idle
  <2>2. \E p \in bulk' : p[1] = i
    <3>1. PICK o : o \in items[i].objs
      BY <1>1, <2>1 DEF WellFormedItems
    <3>2. <<i, o>> \in bulk'
      BY <2>1, <3>1
    <3> QED
      BY <3>2
  <2>3. NeedsInv'
    BY <1>1, <2>1, <2>2, NeedsAnswer DEF DisciplineInv, SameItems
  <2>4. WaitingInv'
    <3> SUFFICES ASSUME NEW id \in Id, NEW d \in waiting[id]
                 PROVE  /\ d \notin queue
                        /\ id \in AwaitedIds(d)'
                        /\ Unanswered(d)' \/ <<d, id.obj>> \in bulk'
      BY <2>1 DEF WaitingInv
    <3>1. /\ d \in Items /\ d \notin queue /\ id \in AwaitedIds(d) /\ Unanswered(d)
          /\ AwaitedIds(d)' = AwaitedIds(d)
      BY <2>1, AwaitedIdsSame DEF DisciplineInv, WaitingInv, TypeOK
    <3>2. CASE d = i
      BY <2>1, <3>1, <3>2, AwaitedIdsFacts
    <3>3. CASE d # i
      BY <2>1, <3>1, <3>3 DEF Unanswered, TypeOK
    <3> QED
      BY <3>1, <3>2, <3>3
  <2> QED
    BY <2>1, <2>3, <2>4, ClientCreationsSame DEF DisciplineInv
<1>4. CASE \E persistent \in BOOLEAN : RequestFailed(i, persistent)
  <2>1. FailWithDependents(i) /\ SameItems /\ UNCHANGED <<items, needs, bulk>>
    BY <1>4, UnchangedItems DEF RequestFailed
  <2>2. /\ queue' \subseteq queue
        /\ \A d \in Items \ queue : d # i => outcome'[d] = outcome[d]
    BY <1>1, <2>1, DependentsClosed DEF FailWithDependents, TypeOK
  <2>3. /\ \A id \in Id : waiting'[id] \subseteq waiting[id]
        /\ \A id \in AwaitedIds(i) : i \notin waiting'[id]
    <3>1. Answered(i, AwaitedIds(i)) \/ (AwaitedIds(i) = {} /\ \E ids : Answered(i, ids))
      BY <1>4 DEF RequestFailed, AwaitedIds
    <3>2. AwaitedIds(i) \subseteq Id
      BY <1>1, AwaitedIdsFacts
    <3> QED
      BY <3>1, <3>2 DEF Answered
  <2>4. NeedsInv'
    BY <1>1, <2>1, NeedsFail DEF DisciplineInv
  <2>5. WaitingInv'
    BY <1>1, <2>1, <2>2, <2>3, WaitingAnswer DEF DisciplineInv
  <2> QED
    BY <2>1, <2>4, <2>5, ClientCreationsSame DEF DisciplineInv
<1> QED
  BY <1>2, <1>3, <1>4 DEF Respond

LEMMA DisciplineBulkNext ==
  ASSUME TypeOK, WriterInv, DisciplineInv, BulkNext
  PROVE  DisciplineInv'
<1>1. PICK p \in bulk : /\ bulk' = bulk \ {p}
                        /\ Answered(p[1], {ClientId(p[2])})
                        /\ Release(p[1])
  BY DEF BulkNext
<1>2. /\ SameItems /\ Items' = Items
      /\ UNCHANGED <<items, queue, outcome, needs>>
      /\ p = <<p[1], p[2]>> /\ p[1] \in Items
  <2>1. p = <<p[1], p[2]>> /\ p[1] \in Items
    BY DEF TypeOK
  <2> QED
    BY <2>1, UnchangedItems DEF BulkNext, SameItems
<1>3. items[p[1]].op = "Bulk" /\ outcome[p[1]] = "ok"
  BY DEF WriterInv, CreatorInv, BulkItems
<1>4. \A j \in queue : deps'[j] = deps[j] \ {p[1]}
  BY <1>1 DEF Release
<1>5. NeedsInv'
  <2>1. NeedsAnswered' /\ FailureSpreads'
    BY <1>2 DEF DisciplineInv, NeedsInv, NeedsAnswered, FailureSpreads
  <2>2. NeedsAwaited'
    <3> SUFFICES ASSUME NEW j \in queue
                 PROVE  /\ deps'[j] \subseteq needs[j]
                        /\ Outstanding(j)' \subseteq deps'[j]
                        /\ \A d \in deps'[j] : Unanswered(d)' \/ \E q \in bulk' : q[1] = d
      BY <1>2 DEF NeedsAwaited
    <3>1. /\ deps[j] \subseteq needs[j]
          /\ Outstanding(j) \subseteq deps[j]
          /\ \A d \in deps[j] : Unanswered(d) \/ \E q \in bulk : q[1] = d
      BY DEF DisciplineInv, NeedsInv, NeedsAwaited
    <3>2. p[1] \notin Outstanding(j)
      BY <1>3 DEF Outstanding, Unanswered
    <3>3. Outstanding(j)' = Outstanding(j) /\ \A d : Unanswered(d)' <=> Unanswered(d)
      BY <1>2 DEF Outstanding, Unanswered
    <3> QED
      BY <1>1, <1>4, <3>1, <3>2, <3>3
  <2> QED
    BY <2>1, <2>2 DEF NeedsInv
<1>6. WaitingInv'
  <2> SUFFICES ASSUME NEW id \in Id, NEW d \in waiting'[id]
               PROVE  /\ d \notin queue'
                      /\ id \in AwaitedIds(d)'
                      /\ Unanswered(d)' \/ <<d, id.obj>> \in bulk'
    BY DEF WaitingInv
  <2>1. /\ d \in waiting[id] /\ (id = ClientId(p[2]) => d # p[1])
    BY <1>1 DEF Answered
  <2>2. /\ d \in Items /\ d \notin queue /\ id \in AwaitedIds(d)
        /\ Unanswered(d) \/ <<d, id.obj>> \in bulk
        /\ AwaitedIds(d)' = AwaitedIds(d)
    BY <1>2, <2>1, AwaitedIdsSame DEF DisciplineInv, WaitingInv, TypeOK
  <2>3. <<d, id.obj>> # p
    <3> SUFFICES ASSUME <<d, id.obj>> = p PROVE FALSE
      OBVIOUS
    <3>1. d = p[1] /\ id.obj = p[2] /\ IsCreate(items[d])
      BY <1>3 DEF IsCreate, CreateOps
    <3>2. id = ClientId(p[2])
      BY <2>2, <3>1, AwaitedIdsFacts DEF DisciplineInv
    <3> QED
      BY <2>1, <3>1, <3>2
  <2> QED
    BY <1>1, <1>2, <2>2, <2>3 DEF Unanswered
<1> QED
  BY <1>2, <1>5, <1>6, ClientCreationsSame DEF DisciplineInv

LEMMA DisciplineNext == TypeOK /\ WriterInv /\ DisciplineInv /\ [Next]_vars => DisciplineInv'
<1> SUFFICES ASSUME TypeOK, WriterInv, DisciplineInv, [Next]_vars PROVE DisciplineInv'
  OBVIOUS
<1>1. LivePending
  BY DEF WriterInv, CreatorInv
<1>2. ASSUME NEW r \in Requests, Enqueue(r) PROVE DisciplineInv'
  BY <1>1, <1>2, DisciplineEnqueue
<1>3. CASE StopDequeueing \/ StartDequeueing \/ NothingToDequeue \/ UNCHANGED vars
  BY <1>3, DisciplineStutter DEF StopDequeueing, StartDequeueing, NothingToDequeue, history, vars
<1>4. CASE Dequeue
  BY <1>1, <1>4, DisciplineDequeue
<1>5. CASE BulkNext
  BY <1>5, DisciplineBulkNext
<1>6. ASSUME NEW i \in inflight, Respond(i) PROVE DisciplineInv'
  BY <1>6, DisciplineRespond
<1> QED
  BY <1>2, <1>3, <1>4, <1>5, <1>6 DEF Next

(* The inductive invariant: waiting_response and queue_dependencies account *)
(* for everything an item needed when it was enqueued.                     *)
THEOREM DisciplineInvariant == Spec => []DisciplineInv
BY DisciplineInit, DisciplineNext, WriterInvariant, TypeCorrect, PTL DEF Spec

(* What an item needed when it was enqueued decides its fate: it is sent   *)
(* only after the server has answered all of that, and it is reported as   *)
(* failed, without being sent, as soon as any of it has failed.            *)
THEOREM DisciplineKept == Spec => []DependencyDiscipline
<1>1. TypeOK /\ WriterInv /\ DisciplineInv => DependencyDiscipline
  <2> SUFFICES ASSUME TypeOK, WriterInv, DisciplineInv, Idle, NEW i \in Items
               PROVE  /\ i \in inflight \/ outcome[i] \in {"ok", "denied"} =>
                           \A d \in needs[i] : outcome[d] \in {"ok", "denied"}
                      /\ i \in queue =>
                           deps[i] = {d \in needs[i] : outcome[d] \in {"pending", "skipped"}}
                      /\ (\E d \in needs[i] : outcome[d] = "failed") => outcome[i] = "failed"
    BY DEF DependencyDiscipline
  <2>1. \A j \in queue \cup inflight : outcome[j] = "pending"
    BY DEF WriterInv, CreatorInv, LivePending
  <2>2. inflight \cap queue = {} /\ bulk = {}
    BY DEF TypeOK, Idle
  <2>3. i \in inflight \/ outcome[i] \in {"ok", "denied"} => i \notin queue /\ outcome[i] # "failed"
    BY <2>1, <2>2
  <2> QED
    BY <2>2, <2>3 DEF DisciplineInv, NeedsInv, NeedsAnswered, NeedsAwaited, FailureSpreads,
                      Outstanding, Unanswered
<1> QED
  BY <1>1, DisciplineInvariant, WriterInvariant, TypeCorrect, PTL

-----------------------------------------------------------------------------
(* One outcome for each object of each item.                               *)

(* The objects of a bulk reply that are still to be reported.              *)
Unreported(i) == {p \in bulk : p[1] = i}

OutcomesCounted ==
  \A i \in Items \ rejected :
    events[i] + Cardinality(Unreported(i))
      = IF Unanswered(i) THEN 0 ELSE Cardinality(items[i].objs)

LEMMA UnreportedFacts ==
  ASSUME TypeOK, NEW i \in Items
  PROVE  IsFiniteSet(Unreported(i)) /\ Cardinality(Unreported(i)) \in Nat
<1>1. IsFiniteSet(Items)
  <2>1. Len(items) \in Nat
    BY DEF TypeOK
  <2> QED
    BY <2>1, FS_Interval DEF Items
<1>2. IsFiniteSet(Items \X Objects)
  BY <1>1, FS_Product, SyncQueueAssumption
<1>3. Unreported(i) \subseteq Items \X Objects
  BY DEF Unreported, TypeOK
<1> QED
  BY <1>2, <1>3, FS_Subset, FS_CardinalityType

LEMMA NothingUnreported ==
  ASSUME bulk = {}, NEW i
  PROVE  Cardinality(Unreported(i)) = 0
<1>1. Unreported(i) = {}
  BY DEF Unreported
<1> QED
  BY <1>1, FS_EmptySet

LEMMA CountedInit == Init => OutcomesCounted
<1> SUFFICES ASSUME Init, NEW i \in Items \ rejected
             PROVE  events[i] + Cardinality(Unreported(i))
                      = IF Unanswered(i) THEN 0 ELSE Cardinality(items[i].objs)
  BY DEF OutcomesCounted
<1>1. i \in queue /\ bulk = {}
  BY DEF Init, Items
<1>2. events[i] = 0 /\ outcome[i] = "pending"
  BY <1>1 DEF Init
<1>3. Cardinality(Unreported(i)) = 0
  BY <1>1, NothingUnreported
<1> QED
  BY <1>2, <1>3 DEF Unanswered

LEMMA CountedStutter ==
  ASSUME OutcomesCounted, SameItems, UNCHANGED <<bulk, outcome, events, rejected>>
  PROVE  OutcomesCounted'
<1> SUFFICES ASSUME NEW i \in Items \ rejected
             PROVE  events'[i] + Cardinality(Unreported(i)')
                      = IF Unanswered(i)' THEN 0 ELSE Cardinality(items'[i].objs)
  BY DEF OutcomesCounted, SameItems
<1>1. Unreported(i)' = Unreported(i) /\ (Unanswered(i)' <=> Unanswered(i))
  BY DEF Unreported, Unanswered
<1> QED
  BY <1>1 DEF OutcomesCounted, SameItems

LEMMA CountedEnqueue ==
  ASSUME TypeOK, OutcomesCounted, NEW r \in Requests, Enqueue(r)
  PROVE  OutcomesCounted'
<1>0. PICK n : n = Len(items) + 1
  OBVIOUS
<1>1. /\ n \notin Items
      /\ Items' = Items \cup {n}
      /\ \A i \in Items : items'[i] = items[i]
      /\ outcome'[n] = "pending"
      /\ \A i \in Items : outcome'[i] = outcome[i]
      /\ rejected \subseteq rejected'
  BY <1>0, EnqueueFacts
<1>2. bulk = {} /\ bulk' = bulk
  BY DEF Enqueue, Idle
<1>3. \A i : Cardinality(Unreported(i)) = 0 /\ Cardinality(Unreported(i)') = 0
  <2>1. \A i : Unreported(i)' = Unreported(i)
    BY <1>2 DEF Unreported
  <2> QED
    BY <1>2, <2>1, NothingUnreported
<1>4. /\ \A i \in Items : events'[i] = events[i]
      /\ n \notin rejected' => events'[n] = 0
  <2> DEFINE missing == Missing(Append(items, r), queue, r) # {}
  <2>1. /\ events' = [j \in Items \cup {n} |->
                        IF j # n THEN events[j] ELSE IF missing THEN 2 ELSE 0]
        /\ rejected' = IF missing THEN rejected \cup {n} ELSE rejected
    BY <1>0 DEF Enqueue
  <2> HIDE DEF missing
  <2> QED
    BY <1>1, <2>1
<1> SUFFICES ASSUME NEW i \in Items' \ rejected'
             PROVE  events'[i] + Cardinality(Unreported(i)')
                      = IF Unanswered(i)' THEN 0 ELSE Cardinality(items'[i].objs)
  BY DEF OutcomesCounted
<1>5. CASE i = n
  BY <1>1, <1>3, <1>4, <1>5 DEF Unanswered
<1>6. CASE i \in Items
  <2>1. events[i] + Cardinality(Unreported(i))
          = IF Unanswered(i) THEN 0 ELSE Cardinality(items[i].objs)
    BY <1>1, <1>6 DEF OutcomesCounted
  <2> QED
    BY <1>1, <1>3, <1>4, <1>6, <2>1 DEF Unanswered
<1> QED
  BY <1>1, <1>5, <1>6

(* An item that fails, with its dependents, reports each of its objects.   *)
LEMMA CountedFail ==
  ASSUME TypeOK, LivePending, OutcomesCounted, NEW i \in queue \cup inflight,
         FailWithDependents(i), UNCHANGED <<items, bulk, rejected>>
  PROVE  OutcomesCounted'
<1> DEFINE gone == Dependents(i) \cup {i}
<1>1. Items' = Items /\ gone \subseteq Items /\ gone \subseteq queue \cup inflight
  BY DependentsClosed DEF TypeOK, Items
<1>2. \A j \in Items :
        /\ outcome'[j] = IF j \in gone THEN "failed" ELSE outcome[j]
        /\ events'[j] = IF j \in gone THEN events[j] + Cardinality(items[j].objs) ELSE events[j]
  BY DEF FailWithDependents
<1>3. \A j \in gone : Unanswered(j)
  BY <1>1 DEF LivePending, Unanswered
<1> HIDE DEF gone
<1> SUFFICES ASSUME NEW j \in Items \ rejected
             PROVE  events'[j] + Cardinality(Unreported(j)')
                      = IF Unanswered(j)' THEN 0 ELSE Cardinality(items[j].objs)
  BY <1>1 DEF OutcomesCounted
<1>4. /\ events[j] + Cardinality(Unreported(j))
           = IF Unanswered(j) THEN 0 ELSE Cardinality(items[j].objs)
      /\ Unreported(j)' = Unreported(j)
  BY DEF OutcomesCounted, Unreported
<1>5. events[j] \in Nat /\ Cardinality(Unreported(j)) \in Nat /\ Cardinality(items[j].objs) \in Nat
  <2>1. items[j] \in QueueItem
    BY DEF TypeOK, Items
  <2> QED
    BY <2>1, UnreportedFacts, CardinalityType DEF TypeOK
<1>6. CASE j \in gone
  <2>1. Unanswered(j) /\ ~Unanswered(j)'
    BY <1>2, <1>3, <1>6 DEF Unanswered
  <2> QED
    BY <1>2, <1>4, <1>5, <1>6, <2>1
<1>7. CASE j \notin gone
  BY <1>2, <1>4, <1>7 DEF Unanswered
<1> QED
  BY <1>6, <1>7

LEMMA CountedDequeue ==
  ASSUME TypeOK, LivePending, OutcomesCounted, Dequeue
  PROVE  OutcomesCounted'
<1>1. PICK i \in queue : Send(i) \/ Skip(i) \/ FailUpdate(i)
  BY DEF Dequeue
<1>2. UNCHANGED <<items, bulk, rejected>> /\ SameItems
  BY UnchangedItems DEF Dequeue
<1>3. CASE Send(i)
  BY <1>2, <1>3, CountedStutter DEF Send
<1>4. CASE Skip(i)
  <2>1. /\ events' = events
        /\ \A j \in Items : Unanswered(j)' <=> Unanswered(j)
    BY <1>4 DEF Skip, Unanswered, LivePending, TypeOK
  <2> SUFFICES ASSUME NEW j \in Items \ rejected
               PROVE  events'[j] + Cardinality(Unreported(j)')
                        = IF Unanswered(j)' THEN 0 ELSE Cardinality(items[j].objs)
    BY <1>2 DEF OutcomesCounted, SameItems
  <2>2. Unreported(j)' = Unreported(j)
    BY <1>2 DEF Unreported
  <2> QED
    BY <2>1, <2>2 DEF OutcomesCounted
<1>5. CASE FailUpdate(i)
  BY <1>2, <1>5, CountedFail DEF FailUpdate
<1> QED
  BY <1>1, <1>3, <1>4, <1>5

LEMMA CountedRespond ==
  ASSUME TypeOK, WriterInv, OutcomesCounted, NEW i \in inflight, Respond(i)
  PROVE  OutcomesCounted'
<1>1. /\ i \in Items /\ outcome[i] = "pending" /\ LivePending /\ WellFormedItems
      /\ bulk = {} /\ rejected' = rejected
      /\ \A j \in Items : events[j] \in Nat
  BY DEF TypeOK, WriterInv, CreatorInv, LivePending, UpdateInv, Respond, Idle, CreateSucceeded,
         CreateDenied, UpdateOrActionAnswered, BulkSucceeded, RequestFailed
<1>2. \A j \in Items \ rejected :
        events[j] = IF Unanswered(j) THEN 0 ELSE Cardinality(items[j].objs)
  <2> TAKE j \in Items \ rejected
  <2>1. Cardinality(Unreported(j)) = 0
    BY <1>1, NothingUnreported
  <2> QED
    BY <1>1, <2>1 DEF OutcomesCounted
<1>3. CASE CreateSucceeded(i) \/ CreateDenied(i) \/ UpdateOrActionAnswered(i)
  <2>1. SameItems
    <3>1. CASE RewriteReferences(i)
      BY <1>1, <3>1, RewriteFacts DEF SameItems
    <3>2. CASE items' = items
      BY <3>2, UnchangedItems
    <3> QED
      BY <1>3, <3>1, <3>2 DEF CreateSucceeded, CreateDenied, UpdateOrActionAnswered
  <2>2. PICK how \in {"ok", "denied"} : /\ outcome' = [outcome EXCEPT ![i] = how]
                                        /\ events' = [events EXCEPT ![i] = @ + 1]
                                        /\ bulk' = bulk
    BY <1>3 DEF CreateSucceeded, CreateDenied, UpdateOrActionAnswered, Finish
  <2>3. Cardinality(items[i].objs) = 1
    <3>1. items[i].op # "Bulk"
      BY <1>3 DEF CreateSucceeded, CreateDenied, UpdateOrActionAnswered, IsCreate, CreateOps
    <3>2. PICK o : items[i].objs = {o}
      BY <1>1, <3>1 DEF WellFormedItems
    <3> QED
      BY <3>2, FS_Singleton
  <2> SUFFICES ASSUME NEW j \in Items \ rejected
               PROVE  events'[j] + Cardinality(Unreported(j)')
                        = IF Unanswered(j)' THEN 0 ELSE Cardinality(items[j].objs)
    BY <1>1, <2>1 DEF OutcomesCounted, SameItems
  <2>4. Cardinality(Unreported(j)') = 0
    <3>1. Unreported(j)' = Unreported(j)
      BY <2>2 DEF Unreported
    <3> QED
      BY <1>1, <3>1, NothingUnreported
  <2>5. CASE j = i
    <3>1. events'[j] = 1 /\ ~Unanswered(j)'
      BY <1>1, <1>2, <2>2, <2>5 DEF Unanswered, TypeOK
    <3> QED
      BY <2>3, <2>4, <2>5, <3>1
  <2>6. CASE j # i
    <3>1. events'[j] = events[j] /\ (Unanswered(j)' <=> Unanswered(j))
      BY <2>2, <2>6 DEF Unanswered, TypeOK
    <3> QED
      BY <1>1, <1>2, <2>4, <3>1
  <2> QED
    BY <2>5, <2>6
<1>4. CASE BulkSucceeded(i)
  <2>1. /\ items' = items /\ SameItems /\ events' = events
        /\ bulk' = {i} \X items[i].objs
        /\ outcome' = [outcome EXCEPT ![i] = "ok"]
    BY <1>4, UnchangedItems DEF BulkSucceeded
  <2> SUFFICES ASSUME NEW j \in Items \ rejected
               PROVE  events'[j] + Cardinality(Unreported(j)')
                        = IF Unanswered(j)' THEN 0 ELSE Cardinality(items[j].objs)
    BY <1>1, <2>1 DEF OutcomesCounted, SameItems
  <2>2. CASE j = i
    <3>1. events'[j] = 0 /\ ~Unanswered(j)'
      BY <1>1, <1>2, <2>1, <2>2 DEF Unanswered, TypeOK
    <3>2. Unreported(j)' = {i} \X items[i].objs
      BY <2>1, <2>2 DEF Unreported
    <3>3. IsFiniteSet(items[i].objs) /\ Cardinality(items[i].objs) \in Nat
      <4>1. items[i] \in QueueItem
        BY <1>1 DEF TypeOK, Items
      <4>2. items[i].objs \subseteq Objects
        BY <4>1 DEF QueueItem
      <4> QED
        BY <4>2, SyncQueueAssumption, FS_Subset, FS_CardinalityType
    <3>4. Cardinality(Unreported(j)') = 1 * Cardinality(items[i].objs)
      <4>1. IsFiniteSet({i}) /\ Cardinality({i}) = 1
        BY FS_Singleton
      <4>2. Cardinality({i} \X items[i].objs) = Cardinality({i}) * Cardinality(items[i].objs)
        BY <3>3, <4>1, FS_Product
      <4> QED
        BY <3>2, <4>1, <4>2
    <3> QED
      BY <2>2, <3>1, <3>3, <3>4
  <2>3. CASE j # i
    <3>1. events'[j] = events[j] /\ (Unanswered(j)' <=> Unanswered(j))
      BY <2>1, <2>3 DEF Unanswered, TypeOK
    <3>2. Unreported(j)' = {}
      BY <2>1, <2>3 DEF Unreported
    <3> QED
      BY <1>1, <1>2, <3>1, <3>2, FS_EmptySet
  <2> QED
    BY <2>2, <2>3
<1>5. CASE \E persistent \in BOOLEAN : RequestFailed(i, persistent)
  BY <1>1, <1>5, CountedFail DEF RequestFailed
<1> QED
  BY <1>3, <1>4, <1>5 DEF Respond

LEMMA CountedBulkNext ==
  ASSUME TypeOK, OutcomesCounted, BulkNext
  PROVE  OutcomesCounted'
<1>1. PICK p \in bulk : /\ bulk' = bulk \ {p}
                        /\ events' = [events EXCEPT ![p[1]] = @ + 1]
  BY DEF BulkNext
<1>2. SameItems /\ UNCHANGED <<items, outcome, rejected>> /\ p[1] \in Items
  BY UnchangedItems DEF BulkNext, TypeOK
<1> SUFFICES ASSUME NEW j \in Items \ rejected
             PROVE  events'[j] + Cardinality(Unreported(j)')
                      = IF Unanswered(j) THEN 0 ELSE Cardinality(items[j].objs)
  BY <1>2 DEF OutcomesCounted, SameItems, Unanswered
<1>3. events[j] + Cardinality(Unreported(j))
        = IF Unanswered(j) THEN 0 ELSE Cardinality(items[j].objs)
  BY DEF OutcomesCounted
<1>4. /\ IsFiniteSet(Unreported(j)) /\ Cardinality(Unreported(j)) \in Nat
      /\ events[j] \in Nat
  BY UnreportedFacts DEF TypeOK
<1>5. CASE j = p[1]
  <2>1. Unreported(j)' = Unreported(j) \ {p} /\ p \in Unreported(j)
    BY <1>1, <1>5 DEF Unreported
  <2>2. Cardinality(Unreported(j)') = Cardinality(Unreported(j)) - 1
    BY <1>4, <2>1, FS_RemoveElement
  <2>3. events'[j] = events[j] + 1
    BY <1>1, <1>2, <1>5 DEF TypeOK
  <2> QED
    BY <1>3, <1>4, <2>2, <2>3
<1>6. CASE j # p[1]
  <2>1. Unreported(j)' = Unreported(j) /\ events'[j] = events[j]
    BY <1>1, <1>6 DEF Unreported, TypeOK
  <2> QED
    BY <1>3, <2>1
<1> QED
  BY <1>5, <1>6

LEMMA CountedNext == TypeOK /\ WriterInv /\ OutcomesCounted /\ [Next]_vars => OutcomesCounted'
<1> SUFFICES ASSUME TypeOK, WriterInv, OutcomesCounted, [Next]_vars PROVE OutcomesCounted'
  OBVIOUS
<1>1. LivePending
  BY DEF WriterInv, CreatorInv
<1>2. ASSUME NEW r \in Requests, Enqueue(r) PROVE OutcomesCounted'
  BY <1>2, CountedEnqueue
<1>3. CASE StopDequeueing \/ StartDequeueing \/ NothingToDequeue \/ UNCHANGED vars
  BY <1>3, UnchangedItems, CountedStutter
     DEF StopDequeueing, StartDequeueing, NothingToDequeue, history, vars
<1>4. CASE Dequeue
  BY <1>1, <1>4, CountedDequeue
<1>5. CASE BulkNext
  BY <1>5, CountedBulkNext
<1>6. ASSUME NEW i \in inflight, Respond(i) PROVE OutcomesCounted'
  BY <1>6, CountedRespond
<1> QED
  BY <1>2, <1>3, <1>4, <1>5, <1>6 DEF Next

(* Every item that was not rejected when it was enqueued reports exactly   *)
(* one outcome for each of its objects, and none before it has ended.      *)
THEOREM OutcomesReported == Spec => []OneOutcomePerItem
<1>1. TypeOK /\ OutcomesCounted => OneOutcomePerItem
  <2> SUFFICES ASSUME TypeOK, OutcomesCounted, Idle, NEW i \in Items \ rejected
               PROVE  events[i] = IF outcome[i] \in {"pending", "skipped"}
                                  THEN 0
                                  ELSE Cardinality(items[i].objs)
    BY DEF OneOutcomePerItem
  <2>1. Cardinality(Unreported(i)) = 0 /\ events[i] \in Nat
    BY NothingUnreported DEF Idle, TypeOK
  <2> QED
    BY <2>1 DEF OutcomesCounted, Unanswered
<1>2. Spec => []OutcomesCounted
  BY CountedInit, CountedNext, WriterInvariant, TypeCorrect, PTL DEF Spec
<1> QED
  BY <1>1, <1>2, TypeCorrect, PTL
-----------------------------------------------------------------------------
(* Workflows and the enums they name.                                      *)

(* What WellFormed says of enums stays true of every item, and only        *)
(* workflows are ever rejected.                                            *)
EnumItems ==
  /\ \A i \in Items :
       /\ items[i].op = "Bulk" \/ IsWorkflow(items[i]) => items[i].objs \cap Enums = {}
       /\ IsWorkflow(items[i]) => \A id \in items[i].refs : id.obj \in Enums
  /\ \A i \in rejected : IsWorkflow(items[i])

(* A creation that left the queue is awaited until it is answered, and an  *)
(* update that has not been answered is queued or in flight.               *)
CreationsAwaited ==
  \A c \in Items \ queue : IsCreate(items[c]) /\ Unanswered(c) =>
    \A o \in items[c].objs : c \in waiting[ClientId(o)]
UpdatesLive == \A u \in Items : IsUpdate(items[u]) /\ Unanswered(u) => u \in queue \cup inflight

(* A plain update waits only for earlier writes of its object.             *)
UpdatesWaitForWrites ==
  \A u \in queue : items[u].op = "Update" => \A d \in deps[u] :
    d < u /\ items[d].op # "Action" /\ SameObject(d, u)

(* While the creation of an enum is in flight, no earlier update of it is  *)
(* queued: with no server id to go out under, it would have failed first.  *)
EarlierUpdatesFailed ==
  \A c \in inflight : \A u \in queue :
    /\ IsCreate(items[c]) /\ IsUpdate(items[u])
    /\ items[c].objs \cap items[u].objs \cap Enums # {}
    => c < u

(* A client id that a queued workflow still names is unknown to the server *)
(* and the workflow waits on something that settles it: the creation of    *)
(* the enum, or an update that will fail before any later creation of it   *)
(* is sent.                                                                *)
Settles(d, i, o) ==
  /\ d \in deps[i]
  /\ items[d].op # "Action" /\ items[d].kind = "client" /\ o \in items[d].objs
  /\ \A c \in Items : IsCreate(items[c]) /\ o \in items[c].objs /\ Unanswered(c) =>
       c \in deps[i] \/ (IsUpdate(items[d]) /\ d < c)
Undenied(i) == \A d \in needs[i] : outcome[d] # "denied"
ReferencesSettle ==
  \A i \in queue \ rejected : IsWorkflow(items[i]) /\ Undenied(i) =>
    \A id \in items[i].refs : id.kind = "client" =>
      id.obj \notin mapped /\ \E d \in deps[i] : Settles(d, i, id.obj)

EnumInv == EnumItems /\ CreationsAwaited /\ UpdatesLive /\ UpdatesWaitForWrites
ReferenceInv == EarlierUpdatesFailed /\ ReferencesSettle /\ WorkflowsNameServerIds

(* The least member of a set of naturals.                                  *)
LEMMA LeastNat ==
  ASSUME NEW S \in SUBSET Nat, S # {}
  PROVE  \E n \in S : \A m \in S : n <= m
<1>1. PICK Less : Less = {pair \in Nat \X Nat : pair[1] < pair[2]}
  OBVIOUS
<1>2. IsWellFoundedOn(Less, Nat)
  BY <1>1, NatLessThanWellFounded DEF OpToRel
<1>3. \A m, n \in Nat : <<m, n>> \in Less <=> m < n
  BY <1>1
<1>4. PICK n \in S : \A m \in S : ~(<<m, n>> \in Less)
  <2>1. S \subseteq Nat /\ S # {}
    OBVIOUS
  <2>2. \E n \in S : \A m \in S : ~(<<m, n>> \in Less)
    BY ONLY <1>2, <2>1, WFMin
  <2> QED
    BY <2>2
<1>5. \A m \in S : n <= m
  <2> TAKE m \in S
  <2>1. m \in Nat /\ n \in Nat
    OBVIOUS
  <2>2. <<m, n>> \in Less <=> m < n
    BY <1>3, <2>1
  <2> QED
    BY <1>4, <2>1, <2>2
<1> QED
  BY <1>5

(* What get_items_with_object_id finds under an id are writes of its       *)
(* object, and under a client id writes that use that id, ...              *)
LEMMA FoundFacts ==
  ASSUME TypeOK, ClientCreations, WaitingInv, NEW its, \A j \in queue : its[j] = items[j],
         NEW id \in Id, NEW d \in ItemsWithObjectId(its, queue, id)
  PROVE  /\ d \in Items
         /\ items[d].op # "Action" /\ id.obj \in items[d].objs
         /\ id.kind = "client" => items[d].kind = "client"
<1>1. CASE d \in queue /\ its[d].op # "Action" /\ id \in Ids(its[d])
  <2>1. d \in Items /\ its[d] = items[d]
    BY <1>1 DEF TypeOK
  <2>2. PICK o \in items[d].objs : id = [kind |-> items[d].kind, obj |-> o]
    BY <1>1, <2>1 DEF Ids
  <2> QED
    BY <1>1, <2>1, <2>2
<1>2. CASE d \in waiting[id]
  <2>1. d \in Items /\ id \in AwaitedIds(d)
    BY <1>2 DEF TypeOK, WaitingInv
  <2>2. id.kind = "client" => items[d].kind = "client"
    <3>1. CASE IsCreate(items[d])
      BY <2>1, <3>1 DEF ClientCreations
    <3>2. CASE ~IsCreate(items[d])
      BY <2>1, <3>2 DEF AwaitedIds, ServerId
    <3> QED
      BY <3>1, <3>2
  <2> QED
    BY <2>1, <2>2, AwaitedIdsFacts
<1> QED
  BY <1>1, <1>2 DEF ItemsWithObjectId

(* ... among them every creation of the object not yet answered.           *)
LEMMA CreationFound ==
  ASSUME TypeOK, ClientCreations, CreationsAwaited, NEW its, \A j \in queue : its[j] = items[j],
         NEW c \in Items, IsCreate(items[c]), Unanswered(c), NEW o \in items[c].objs
  PROVE  c \in ItemsWithObjectId(its, queue, ClientId(o))
<1>1. CASE c \in queue
  <2>1. items[c].op # "Action" /\ items[c].kind = "client"
    BY DEF ClientCreations, IsCreate, CreateOps
  <2>2. ClientId(o) \in Ids(items[c])
    BY <2>1 DEF Ids, ClientId
  <2> QED
    BY <1>1, <2>1, <2>2 DEF ItemsWithObjectId
<1>2. CASE c \notin queue
  BY <1>2 DEF CreationsAwaited, ItemsWithObjectId
<1> QED
  BY <1>1, <1>2

(* An update's dependencies are writes of its object.                      *)
LEMMA UpdateFinds ==
  ASSUME TypeOK, ClientCreations, WaitingInv, NEW its, \A j \in queue : its[j] = items[j],
         NEW i, its[i] \in QueueItem, its[i].op = "Update",
         NEW d \in InferredDependencies(its, queue, i)
  PROVE  /\ d \in Items /\ d # i
         /\ items[d].op # "Action" /\ items[d].objs \cap its[i].objs # {}
<1>1. d \in UpdateDependencies(its, queue, its[i]) /\ d # i
  <2>1. WorkflowDependencies(its, queue, its[i]) = {}
    BY DEF WorkflowDependencies, IsWorkflow
  <2> QED
    BY <2>1 DEF InferredDependencies
<1>2. PICK id \in Ids(its[i]) : \E name \in NamesOf(id) : d \in ItemsWithObjectId(its, queue, name)
  BY <1>1 DEF UpdateDependencies
<1>2b. PICK name \in NamesOf(id) : d \in ItemsWithObjectId(its, queue, name)
  BY <1>2
<1>3. id \in Id /\ id.obj \in its[i].objs
  BY IdFacts DEF Ids
<1>4. name \in Id /\ name.obj = id.obj
  BY <1>2b, <1>3, IdFacts DEF NamesOf, ClientId, ServerId
<1>5. d \in Items /\ items[d].op # "Action" /\ name.obj \in items[d].objs
  BY <1>2b, <1>4, FoundFacts
<1> QED
  BY <1>1, <1>3, <1>4, <1>5

(* The references a workflow still names by a client id when it has been   *)
(* accepted have no server id, and something was found for each of them.   *)
LEMMA ReferencesFound ==
  ASSUME NEW its, NEW q, NEW i, IsWorkflow(its[i]), Missing(its, q, its[i]) = {},
         NEW id \in its[i].refs, ~HasServerId(id)
  PROVE  /\ ItemsWithObjectId(its, q, id) # {}
         /\ ItemsWithObjectId(its, q, id) \ {i} \subseteq InferredDependencies(its, q, i)
<1>1. id \in Unresolved(its[i])
  BY DEF Unresolved
<1>2. ItemsWithObjectId(its, q, id) # {}
  BY <1>1 DEF Missing
<1>3. ItemsWithObjectId(its, q, id) \subseteq WorkflowDependencies(its, q, its[i])
  BY <1>1 DEF WorkflowDependencies
<1> QED
  BY <1>2, <1>3 DEF InferredDependencies

(* An enum is created by no bulk request and no rejected item; while a     *)
(* creation of it is under way it has no server id, ...                    *)
LEMMA EnumUnmapped ==
  ASSUME TypeOK, WriterInv, EnumItems, NEW c \in Items, IsCreate(items[c]), Unanswered(c),
         NEW o \in items[c].objs, o \in Enums
  PROVE  /\ o \notin mapped /\ o \notin OnServer
         /\ c \notin rejected
         /\ \A k \in Items : IsCreate(items[k]) /\ o \in items[k].objs /\ Unanswered(k) => k = c
<1>1. \A k \in Items : o \in items[k].objs => k \notin rejected
  BY DEF EnumItems
<1>2. \A k \in Items : IsCreate(items[k]) /\ o \in items[k].objs
                         /\ outcome[k] \notin {"denied", "failed"} => k = c
  <2> SUFFICES ASSUME NEW k \in Items, IsCreate(items[k]), o \in items[k].objs,
                      outcome[k] \notin {"denied", "failed"}, k # c
               PROVE  FALSE
    OBVIOUS
  <2>1. SameObject(k, c)
    BY DEF SameObject
  <2>2. Refused(k) \/ Refused(c)
    BY <2>1 DEF WriterInv, CreatorInv, OneCreator
  <2> QED
    BY <1>1, <2>2 DEF Refused, Unanswered
<1>3. o \notin mapped
  <2> SUFFICES ASSUME o \in mapped PROVE FALSE
    OBVIOUS
  <2>1. PICK k \in Items : IsCreate(items[k]) /\ o \in items[k].objs /\ outcome[k] = "ok"
    BY DEF WriterInv, CreatorInv, MappedCreated
  <2>2. k = c
    BY <1>2, <2>1
  <2> QED
    BY <2>1, <2>2 DEF Unanswered
<1>4. o \notin OnServer
  BY DEF WriterInv, UpdateInv, WellFormedItems
<1> QED
  BY <1>1, <1>2, <1>3, <1>4 DEF Unanswered

(* ... and a dependency that writes an object without a server id has not  *)
(* been answered; an update among them is still queued.                    *)
LEMMA DependencyLive ==
  ASSUME TypeOK, WriterInv, DisciplineInv, EnumInv, NEW i \in queue, NEW d \in deps[i],
         NEW o \in items[d].objs, o \in Enums, o \notin mapped, o \notin OnServer
  PROVE  d \in Items /\ Unanswered(d) /\ (IsUpdate(items[d]) => d \in queue)
<1>1. d \in Items
  BY DEF TypeOK
<1>2. Unanswered(d)
  <2> SUFFICES ASSUME ~Unanswered(d) PROVE FALSE
    OBVIOUS
  <2>1. PICK p \in bulk : p[1] = d
    BY DEF DisciplineInv, NeedsInv, NeedsAwaited
  <2>2. items[d].op = "Bulk"
    BY <2>1 DEF WriterInv, CreatorInv, BulkItems
  <2> QED
    BY <1>1, <2>2 DEF EnumInv, EnumItems
<1>3. ASSUME IsUpdate(items[d]), d \in inflight PROVE FALSE
  BY <1>3 DEF WriterInv, UpdateInv, Awaited
<1> QED
  BY <1>1, <1>2, <1>3 DEF EnumInv, UpdatesLive

(* Enums keep their types while references are rewritten.                  *)
LEMMA EnumItemsKept ==
  ASSUME TypeOK, EnumItems, SameItems, rejected' = rejected,
         items' = items \/ \E k \in Items : RewriteReferences(k)
  PROVE  EnumItems'
<1>1. \A i \in Items : IsWorkflow(items'[i]) <=> IsWorkflow(items[i])
  BY DEF SameItems, IsWorkflow
<1>2. \A i \in Items : \A id \in items'[i].refs : \E was \in items[i].refs : was.obj = id.obj
  <2>1. CASE items' = items
    BY <2>1
  <2>2. CASE \E k \in Items : RewriteReferences(k)
    <3> SUFFICES ASSUME NEW i \in Items, NEW id \in items'[i].refs
                 PROVE  \E was \in items[i].refs : was.obj = id.obj
      OBVIOUS
    <3>1. PICK R : items'[i] = [items[i] EXCEPT !.refs = Replace(@, R)] \/ items'[i] = items[i]
      BY <2>2 DEF RewriteReferences
    <3>2. CASE items'[i] = items[i]
      BY <3>2
    <3>3. CASE items'[i] = [items[i] EXCEPT !.refs = Replace(@, R)]
      <4>1. items[i] \in QueueItem
        BY DEF TypeOK, Items
      <4>2. id \in Replace(items[i].refs, R)
        BY <3>3, <4>1 DEF QueueItem
      <4> QED
        BY <4>2 DEF Replace, ServerId
    <3> QED
      BY <3>1, <3>2, <3>3
  <2> QED
    BY <2>1, <2>2
<1>3. rejected \subseteq Items
  BY DEF TypeOK
<1> QED
  BY <1>1, <1>2, <1>3 DEF EnumItems, SameItems

(* A step that answers, sends or drops one item k.                         *)
LEMMA EnumStep ==
  ASSUME TypeOK, EnumInv, SameItems, rejected' = rejected, NEW k \in Items,
         items' = items \/ \E c \in Items : RewriteReferences(c),
         queue' \subseteq queue,
         \A j \in queue' : deps'[j] \subseteq deps[j],
         \A c \in Items : c # k /\ Unanswered(c)' =>
           /\ Unanswered(c)
           /\ c \in queue => c \in queue'
           /\ c \in inflight => c \in inflight'
           /\ \A id \in Id : c \in waiting[id] => c \in waiting'[id],
         Unanswered(k)' =>
           /\ IsUpdate(items[k]) => k \in inflight'
           /\ IsCreate(items[k]) => \A o \in items[k].objs : k \in waiting'[ClientId(o)]
  PROVE  EnumInv'
<1>1. EnumItems'
  BY EnumItemsKept DEF EnumInv
<1>2. CreationsAwaited'
  <2> SUFFICES ASSUME NEW c \in Items, c \notin queue', IsCreate(items[c]), Unanswered(c)',
                      NEW o \in items[c].objs
               PROVE  c \in waiting'[ClientId(o)]
    BY SameItemsFacts DEF CreationsAwaited, SameItems
  <2>1. ClientId(o) \in Id
    <3>1. items[c] \in QueueItem
      BY DEF TypeOK, Items
    <3>2. o \in Objects
      BY <3>1 DEF QueueItem
    <3> QED
      BY <3>2, IdFacts
  <2>2. CASE c = k
    BY <2>2
  <2>3. CASE c # k
    <3>1. Unanswered(c) /\ c \notin queue
      BY <2>3
    <3>2. c \in waiting[ClientId(o)]
      BY <3>1 DEF EnumInv, CreationsAwaited
    <3> QED
      BY <2>1, <2>3, <3>2
  <2> QED
    BY <2>2, <2>3
<1>3. UpdatesLive'
  BY SameItemsFacts DEF EnumInv, UpdatesLive, SameItems
<1>4. UpdatesWaitForWrites'
  <2> SUFFICES ASSUME NEW u \in queue', items[u].op = "Update", NEW d \in deps'[u]
               PROVE  d < u /\ items'[d].op # "Action" /\ SameObject(d, u)'
    BY DEF UpdatesWaitForWrites, SameItems, TypeOK
  <2>1. u \in queue /\ d \in deps[u] /\ u \in Items /\ d \in Items
    BY DEF TypeOK
  <2>2. d < u /\ items[d].op # "Action" /\ SameObject(d, u)
    BY <2>1 DEF EnumInv, UpdatesWaitForWrites
  <2> QED
    BY <2>1, <2>2, SameItemsFacts DEF SameItems
<1> QED
  BY <1>1, <1>2, <1>3, <1>4 DEF EnumInv

(* A reference stays settled as long as what settles it stays and its      *)
(* object is unknown.                                                      *)
LEMMA SettleStep ==
  ASSUME TypeOK, ReferencesSettle, SameItems, rejected' = rejected, needs' = needs,
         queue' \subseteq queue,
         \A c \in Items : Unanswered(c)' => Unanswered(c),
         \A c \in Items : outcome[c] = "denied" => outcome'[c] = "denied",
         \A i \in queue' : \A id \in items'[i].refs : id.kind = "client" => id \in items[i].refs,
         \A i \in queue', id \in Id : \A d \in deps[i] :
           i \notin rejected /\ IsWorkflow(items[i]) /\ Undenied(i)'
             /\ id \in items'[i].refs /\ id.kind = "client"
             /\ id.obj \notin mapped /\ Settles(d, i, id.obj)
           => /\ id.obj \notin mapped'
              /\ d \in deps'[i]
              /\ \A c \in deps[i] : Unanswered(c)' => c \in deps'[i]
  PROVE  ReferencesSettle'
<1>0. /\ queue \subseteq Items
      /\ \A i \in Items : needs[i] \subseteq Items
      /\ \A i \in Items : IsWorkflow(items'[i]) <=> IsWorkflow(items[i])
      /\ \A i \in Items : Undenied(i)' => Undenied(i)
  BY DEF TypeOK, SameItems, IsWorkflow, Undenied
<1> SUFFICES ASSUME NEW i \in queue', i \notin rejected, IsWorkflow(items'[i]), Undenied(i)',
                    NEW id \in items'[i].refs, id.kind = "client"
             PROVE  id.obj \notin mapped' /\ \E d \in deps'[i] : Settles(d, i, id.obj)'
  BY DEF ReferencesSettle
<1>1. i \in queue /\ i \in Items /\ IsWorkflow(items[i]) /\ Undenied(i) /\ id \in items[i].refs
  BY <1>0
<1>2. PICK d \in deps[i] : id.obj \notin mapped /\ Settles(d, i, id.obj)
  BY <1>1 DEF ReferencesSettle
<1>3. id \in Id /\ d \in Items
  <2>1. items[i] \in QueueItem
    BY <1>1 DEF TypeOK, Items
  <2> QED
    BY <1>1, <1>2, <2>1 DEF QueueItem, TypeOK
<1>4. /\ id.obj \notin mapped'
      /\ d \in deps'[i]
      /\ \A c \in deps[i] : Unanswered(c)' => c \in deps'[i]
  BY <1>1, <1>2, <1>3
<1>5. Settles(d, i, id.obj)'
  <2>1. /\ items'[d].op # "Action" /\ items'[d].kind = "client" /\ id.obj \in items'[d].objs
        /\ IsUpdate(items'[d]) <=> IsUpdate(items[d])
    BY <1>2, <1>3, SameItemsFacts DEF Settles, SameItems
  <2>2. ASSUME NEW c \in Items, IsCreate(items'[c]), id.obj \in items'[c].objs, Unanswered(c)'
        PROVE  c \in deps'[i] \/ (IsUpdate(items'[d]) /\ d < c)
    <3>1. IsCreate(items[c]) /\ id.obj \in items[c].objs /\ Unanswered(c)
      BY <2>2, SameItemsFacts DEF SameItems
    <3>2. c \in deps[i] \/ (IsUpdate(items[d]) /\ d < c)
      BY <1>2, <3>1 DEF Settles
    <3> QED
      BY <1>4, <2>1, <2>2, <3>2
  <2> QED
    BY <1>4, <2>1, <2>2 DEF Settles, SameItems
<1> QED
  BY <1>4, <1>5

(* So in a step that sends nothing and adds no creation or update.         *)
LEMMA ReferenceStep ==
  ASSUME TypeOK, ReferenceInv, ReferencesSettle', SameItems, rejected' = rejected, needs' = needs,
         queue' \subseteq queue, inflight' \subseteq inflight,
         \A c \in Items : outcome[c] = "denied" => outcome'[c] = "denied",
         \A i \in inflight : items'[i].refs = items[i].refs
  PROVE  ReferenceInv'
<1>1. /\ queue \subseteq Items /\ inflight \subseteq Items
      /\ \A i \in Items : needs[i] \subseteq Items
      /\ \A i \in Items : IsWorkflow(items'[i]) <=> IsWorkflow(items[i])
      /\ \A i \in Items : Undenied(i)' => Undenied(i)
  BY DEF TypeOK, SameItems, IsWorkflow, Undenied
<1>2. EarlierUpdatesFailed'
  BY <1>1, SameItemsFacts DEF ReferenceInv, EarlierUpdatesFailed, SameItems
<1>3. WorkflowsNameServerIds'
  <2> SUFFICES ASSUME NEW i \in inflight', i \notin rejected, IsWorkflow(items'[i]),
                      \A d \in needs[i] : outcome'[d] # "denied", NEW id \in items'[i].refs
               PROVE  id.kind = "server"
    BY DEF WorkflowsNameServerIds
  <2>1. i \in inflight /\ IsWorkflow(items[i]) /\ id \in items[i].refs
    BY <1>1
  <2>2. \A d \in needs[i] : outcome[d] # "denied"
    BY <1>1, <2>1
  <2> QED
    BY <2>1, <2>2 DEF ReferenceInv, WorkflowsNameServerIds
<1> QED
  BY <1>2, <1>3 DEF ReferenceInv

(* A call to dequeue sends, drops or fails one item.                       *)
LEMMA EnumDequeue ==
  ASSUME TypeOK, WriterInv, DisciplineInv, EnumInv, Dequeue
  PROVE  EnumInv'
<1>1. PICK i \in queue : IsNext(i) /\ (Send(i) \/ Skip(i) \/ FailUpdate(i))
  BY DEF Dequeue
<1>2. UNCHANGED <<items, rejected>> /\ SameItems /\ i \in Items
  BY UnchangedItems DEF Dequeue, TypeOK
<1>3. CASE Send(i) \/ Skip(i)
  <2>1. /\ queue' = queue \ {i} /\ inflight \subseteq inflight'
        /\ \A j \in queue' : deps'[j] = deps[j]
        /\ \A id \in Id : waiting[id] \subseteq waiting'[id]
        /\ \A c \in Items : c # i => outcome'[c] = outcome[c]
    <3>1. \A id \in Id : waiting[id] \subseteq waiting'[id]
      BY <1>3 DEF Send, Skip, Await
    <3>2. \A c \in Items : c # i => outcome'[c] = outcome[c]
      BY <1>3 DEF Send, Skip, TypeOK
    <3> QED
      BY <1>3, <3>1, <3>2 DEF Send, Skip, Remove, Restrict
  <2>2. IsUpdate(items[i]) => i \in inflight'
    BY <1>3 DEF Send, Skip, IsUpdate, IsCreate, UpdateOps, CreateOps
  <2>3. ASSUME IsCreate(items[i]), NEW o \in items[i].objs
        PROVE  i \in waiting'[ClientId(o)]
    <3>1. Await(i, Ids(items[i]))
      BY <1>3, <2>3 DEF Send, Skip, IsCreate, CreateOps
    <3>2. ClientId(o) \in Ids(items[i])
      BY <1>2, <2>3 DEF DisciplineInv, ClientCreations, Ids, ClientId
    <3>3. items[i] \in QueueItem
      BY <1>2 DEF TypeOK, Items
    <3> QED
      BY <3>1, <3>2, <3>3, IdFacts DEF Await
  <2>4. \A c \in Items : c # i /\ Unanswered(c)' => Unanswered(c)
    BY <2>1 DEF Unanswered
  <2> QED
    BY <1>2, <2>1, <2>2, <2>3, <2>4, EnumStep
<1>4. CASE FailUpdate(i)
  <2>1. FailWithDependents(i) /\ inflight' = inflight
    BY <1>4 DEF FailUpdate
  <2>2. /\ queue' = queue \ (Dependents(i) \cup {i})
        /\ \A j \in queue' : deps'[j] = deps[j]
        /\ \A c \in Items : outcome'[c] = IF c \in Dependents(i) \cup {i} THEN "failed" ELSE outcome[c]
    BY <2>1 DEF FailWithDependents, Restrict
  <2>3. \A id \in Id : waiting[id] \ {i} \subseteq waiting'[id]
    BY <1>4 DEF FailUpdate, Answered
  <2>4. \A c \in Items : Unanswered(c)' => Unanswered(c) /\ c \notin Dependents(i) \cup {i}
    BY <2>2 DEF Unanswered
  <2> QED
    BY <1>2, <2>1, <2>2, <2>3, <2>4, EnumStep
<1> QED
  BY <1>1, <1>3, <1>4

(* The creation of an enum is sent only after every earlier update of it   *)
(* has gone: the first of these could wait only for something that cannot  *)
(* be there, and would have been dequeued, and failed, first.              *)
LEMMA EarlierSend ==
  ASSUME TypeOK, WriterInv, DisciplineInv, EnumInv, NEW k \in queue, IsNext(k),
         IsCreate(items[k]), NEW u \in queue, IsUpdate(items[u]),
         NEW o \in items[k].objs, o \in items[u].objs, o \in Enums
  PROVE  k < u
<1> SUFFICES ASSUME ~(k < u) PROVE FALSE
  OBVIOUS
<1>1. queue \subseteq Items /\ queue \subseteq Nat
  BY DEF TypeOK, Items
<1>2. Unanswered(k)
  BY DEF WriterInv, CreatorInv, LivePending, Unanswered
<1>3. /\ o \notin mapped /\ o \notin OnServer
      /\ \A c \in Items : IsCreate(items[c]) /\ o \in items[c].objs /\ Unanswered(c) => c = k
  BY <1>1, <1>2, EnumUnmapped DEF EnumInv
<1>4. ~IsUpdate(items[k])
  BY DEF IsCreate, IsUpdate, CreateOps, UpdateOps
<1>5. PICK S : S = {j \in queue : IsUpdate(items[j]) /\ o \in items[j].objs /\ j < k}
  OBVIOUS
<1>6. u \in S
  <2>1. u \in Nat /\ k \in Nat /\ u # k
    BY <1>1, <1>4
  <2>2. u < k
    BY <2>1
  <2> QED
    BY <1>5, <2>2
<1>7. PICK v \in S : \A j \in S : v <= j
  BY <1>1, <1>5, <1>6, LeastNat
<1>8. v \in queue /\ IsUpdate(items[v]) /\ o \in items[v].objs /\ v < k /\ v \in Nat /\ k \in Nat
  BY <1>1, <1>5, <1>7
<1>9. PICK d : d \in deps[v]
  <2>1. v \notin Ready
    BY <1>8 DEF IsNext
  <2> QED
    BY <1>8, <2>1 DEF Ready
<1>10. items[v].op = "Update"
  BY <1>1, <1>8 DEF EnumInv, EnumItems, IsWorkflow, IsUpdate, UpdateOps
<1>11. d < v /\ items[d].op # "Action" /\ SameObject(d, v)
  BY <1>8, <1>9, <1>10 DEF EnumInv, UpdatesWaitForWrites
<1>12. o \in items[d].objs
  <2>1. PICK x : items[v].objs = {x}
    BY <1>1, <1>8, <1>10 DEF WriterInv, UpdateInv, WellFormedItems
  <2> QED
    BY <1>8, <1>11, <2>1 DEF SameObject
<1>13. d \in Items /\ Unanswered(d) /\ (IsUpdate(items[d]) => d \in queue)
  BY <1>3, <1>8, <1>9, <1>12, DependencyLive
<1>14. IsCreate(items[d]) \/ IsUpdate(items[d])
  <2>1. items[d] \in QueueItem
    BY <1>13 DEF TypeOK, Items
  <2> QED
    BY <1>11, <2>1 DEF QueueItem, IsCreate, IsUpdate
<1>15. d \in Nat /\ d < k
  <2>1. d \in Nat
    BY <1>13 DEF Items
  <2> QED
    BY <1>8, <1>11, <2>1
<1>16. CASE IsCreate(items[d])
  <2>1. d = k
    BY <1>3, <1>12, <1>13, <1>16
  <2> QED
    BY <1>15, <2>1
<1>17. CASE IsUpdate(items[d])
  <2>1. d \in S
    BY <1>5, <1>12, <1>13, <1>15, <1>17
  <2>2. v <= d
    BY <1>7, <2>1
  <2> QED
    BY <1>8, <1>11, <1>15, <2>2
<1> QED
  BY <1>14, <1>16, <1>17

LEMMA ReferenceDequeue ==
  ASSUME TypeOK, WriterInv, DisciplineInv, EnumInv, ReferenceInv, Dequeue
  PROVE  ReferenceInv'
<1>1. PICK i \in queue : IsNext(i) /\ (Send(i) \/ Skip(i) \/ FailUpdate(i))
  BY DEF Dequeue
<1>2. UNCHANGED <<items, rejected, needs, mapped>> /\ SameItems /\ i \in Items
  BY UnchangedItems DEF Dequeue, TypeOK
<1>3. /\ queue' \subseteq queue
      /\ \A j \in queue' : deps'[j] = deps[j]
      /\ \A c \in Items : Unanswered(c)' => Unanswered(c)
      /\ \A c \in Items : outcome[c] = "denied" <=> outcome'[c] = "denied"
  <2>1. outcome[i] = "pending"
    BY DEF WriterInv, CreatorInv, LivePending
  <2>2. CASE Send(i) \/ Skip(i)
    BY <1>2, <2>1, <2>2 DEF Send, Skip, Remove, Restrict, Unanswered, TypeOK
  <2>3. CASE FailUpdate(i)
    <3>1. \A c \in Dependents(i) \cup {i} : outcome[c] = "pending"
      BY DependentsClosed DEF WriterInv, CreatorInv, LivePending
    <3> QED
      BY <2>3, <3>1 DEF FailUpdate, FailWithDependents, Restrict, Unanswered
  <2> QED
    BY <1>1, <2>2, <2>3
<1>4. ReferencesSettle'
  BY <1>2, <1>3, SettleStep DEF ReferenceInv
<1>5. CASE Skip(i) \/ FailUpdate(i)
  <2>1. inflight' = inflight
    BY <1>5 DEF Skip, FailUpdate
  <2> QED
    BY <1>2, <1>3, <1>4, <2>1, ReferenceStep
<1>6. CASE Send(i)
  <2>1. inflight' = inflight \cup {i} /\ queue' = queue \ {i} /\ deps[i] = {}
    BY <1>1, <1>6 DEF Send, Remove, IsNext, Ready
  <2>2. EarlierUpdatesFailed'
    <3> SUFFICES ASSUME NEW c \in inflight', NEW u \in queue', IsCreate(items[c]),
                        IsUpdate(items[u]), items[c].objs \cap items[u].objs \cap Enums # {}
                 PROVE  c < u
      BY <1>2 DEF EarlierUpdatesFailed
    <3>1. CASE c \in inflight
      BY <2>1, <3>1 DEF ReferenceInv, EarlierUpdatesFailed
    <3>2. CASE c = i
      BY <1>1, <2>1, <3>2, EarlierSend
    <3> QED
      BY <2>1, <3>1, <3>2
  <2>3. WorkflowsNameServerIds'
    <3> SUFFICES ASSUME NEW j \in inflight', j \notin rejected, IsWorkflow(items[j]),
                        \A d \in needs[j] : outcome'[d] # "denied", NEW id \in items[j].refs
                 PROVE  id.kind = "server"
      BY <1>2 DEF WorkflowsNameServerIds
    <3>1. j \in Items /\ needs[j] \subseteq Items
      BY <1>2, <2>1 DEF TypeOK
    <3>2. Undenied(j)
      BY <1>3, <3>1 DEF Undenied
    <3>3. CASE j \in inflight
      BY <3>2, <3>3 DEF ReferenceInv, WorkflowsNameServerIds, Undenied
    <3>4. CASE j = i
      <4>1. id.kind # "client"
        BY <2>1, <3>2, <3>4 DEF ReferenceInv, ReferencesSettle
      <4>2. items[j] \in QueueItem
        BY <3>1 DEF TypeOK, Items
      <4>3. id \in Id
        BY <4>2 DEF QueueItem
      <4> QED
        BY <4>1, <4>3, IdFacts DEF Kinds
    <3> QED
      BY <2>1, <3>3, <3>4
  <2> QED
    BY <1>4, <2>2, <2>3 DEF ReferenceInv
<1> QED
  BY <1>1, <1>5, <1>6

(* The callbacks answer one item each.                                     *)
LEMMA EnumRespond ==
  ASSUME TypeOK, EnumInv, NEW i \in inflight, Respond(i)
  PROVE  EnumInv'
<1>1. i \in Items /\ i \notin queue
  BY DEF TypeOK
<1>2. CASE CreateSucceeded(i) \/ CreateDenied(i) \/ UpdateOrActionAnswered(i)
  <2>1. SameItems /\ (items' = items \/ \E c \in Items : RewriteReferences(c))
    <3>1. CASE RewriteReferences(i)
      BY <1>1, <3>1, RewriteFacts DEF SameItems
    <3>2. CASE items' = items
      BY <3>2, UnchangedItems
    <3> QED
      BY <1>2, <3>1, <3>2 DEF CreateSucceeded, CreateDenied, UpdateOrActionAnswered
  <2>2. /\ queue' = queue /\ inflight' = inflight \ {i} /\ rejected' = rejected
        /\ \A j \in queue : deps'[j] = deps[j] \ {i}
        /\ \A id \in Id : waiting[id] \ {i} \subseteq waiting'[id]
    BY <1>2 DEF CreateSucceeded, CreateDenied, UpdateOrActionAnswered, Release, Answered
  <2>3. PICK how \in {"ok", "denied"} : outcome' = [outcome EXCEPT ![i] = how]
    BY <1>2 DEF CreateSucceeded, CreateDenied, UpdateOrActionAnswered, Finish
  <2>4. ~Unanswered(i)' /\ \A c \in Items : c # i /\ Unanswered(c)' => Unanswered(c)
    BY <1>1, <2>3 DEF Unanswered, TypeOK
  <2> QED
    BY <1>1, <2>1, <2>2, <2>4, EnumStep
<1>3. CASE BulkSucceeded(i)
  <2>1. /\ UNCHANGED <<items, queue, deps, waiting, rejected>> /\ SameItems
        /\ inflight' = inflight \ {i}
        /\ outcome' = [outcome EXCEPT ![i] = "ok"]
    BY <1>3, UnchangedItems DEF BulkSucceeded
  <2>2. ~Unanswered(i)' /\ \A c \in Items : c # i /\ Unanswered(c)' => Unanswered(c)
    BY <1>1, <2>1 DEF Unanswered, TypeOK
  <2> QED
    BY <1>1, <2>1, <2>2, EnumStep
<1>4. CASE \E persistent \in BOOLEAN : RequestFailed(i, persistent)
  <2>1. /\ FailWithDependents(i) /\ inflight' = inflight \ {i}
        /\ UNCHANGED <<items, rejected>> /\ SameItems
        /\ \A id \in Id : waiting[id] \ {i} \subseteq waiting'[id]
    BY <1>4, UnchangedItems DEF RequestFailed, Answered
  <2>2. /\ queue' = queue \ (Dependents(i) \cup {i})
        /\ \A j \in queue' : deps'[j] = deps[j]
        /\ \A c \in Items : outcome'[c] = IF c \in Dependents(i) \cup {i} THEN "failed" ELSE outcome[c]
    BY <2>1 DEF FailWithDependents, Restrict
  <2>3. \A c \in Items : Unanswered(c)' => Unanswered(c) /\ c \notin Dependents(i) \cup {i}
    BY <2>2 DEF Unanswered
  <2> QED
    BY <1>1, <2>1, <2>2, <2>3, EnumStep
<1> QED
  BY <1>2, <1>3, <1>4 DEF Respond

(* What rewriting leaves of the client ids in the queued workflows.        *)
LEMMA RewrittenReferences ==
  ASSUME TypeOK, NEW i \in Items, RewriteReferences(i)
  PROVE  /\ \A j \in Items \ queue : items'[j] = items[j]
         /\ \A j \in queue : \A id \in items'[j].refs : id.kind = "client" =>
              /\ id \in items[j].refs
              /\ IsWorkflow(items[j]) /\ i \in deps[j] => id.obj \notin items[i].objs \cap Enums
<1> DEFINE R == {ClientId(o) : o \in items[i].objs \cap Enums}
<1>1. \A j \in Items : items'[j] = IF j \in queue /\ IsWorkflow(items[j]) /\ i \in deps[j]
                                  THEN [items[j] EXCEPT !.refs = Replace(@, R)]
                                  ELSE items[j]
  BY DEF RewriteReferences
<1> SUFFICES ASSUME NEW j \in queue, NEW id \in items'[j].refs, id.kind = "client"
             PROVE  /\ id \in items[j].refs
                    /\ IsWorkflow(items[j]) /\ i \in deps[j] => id.obj \notin items[i].objs \cap Enums
  BY <1>1
<1>2. j \in Items /\ items[j] \in QueueItem
  BY DEF TypeOK, Items
<1>3. CASE IsWorkflow(items[j]) /\ i \in deps[j]
  <2>1. id \in Replace(items[j].refs, R)
    BY <1>1, <1>2, <1>3 DEF QueueItem
  <2>2. id \in items[j].refs /\ id \notin R
    BY <2>1 DEF Replace, ServerId
  <2>3. id \in Id
    BY <1>2, <2>2 DEF QueueItem
  <2>4. id = ClientId(id.obj)
    BY <2>3, IdFacts DEF ClientId
  <2> QED
    BY <2>2, <2>4
<1>4. CASE ~(IsWorkflow(items[j]) /\ i \in deps[j])
  BY <1>1, <1>2, <1>4
<1> QED
  BY <1>3, <1>4

LEMMA ReferenceRespond ==
  ASSUME TypeOK, WriterInv, DisciplineInv, EnumInv, ReferenceInv, NEW i \in inflight, Respond(i)
  PROVE  ReferenceInv'
<1>1. /\ i \in Items /\ i \notin queue /\ outcome[i] = "pending" /\ Unanswered(i)
      /\ queue \subseteq Items /\ inflight \subseteq Items \ queue /\ Items \subseteq Nat
  BY DEF TypeOK, WriterInv, CreatorInv, LivePending, Unanswered, Items
<1>2. ASSUME NEW j \in queue, NEW id \in items[j].refs, IsWorkflow(items[j])
      PROVE  id.obj \in Enums
  BY <1>1, <1>2 DEF EnumInv, EnumItems
<1>3. CASE CreateSucceeded(i)
  <2>1. /\ RewriteReferences(i) /\ SameItems
        /\ queue' = queue /\ inflight' = inflight \ {i} /\ UNCHANGED <<rejected, needs>>
        /\ mapped' = mapped \cup items[i].objs
        /\ \A j \in queue : deps'[j] = deps[j] \ {i}
        /\ outcome' = [outcome EXCEPT ![i] = "ok"]
        /\ IsCreate(items[i])
    BY <1>1, <1>3, RewriteFacts
       DEF CreateSucceeded, Release, Finish, SameItems, IsCreate, CreateOps
  <2>2. /\ ~Unanswered(i)'
        /\ \A c \in Items : Unanswered(c)' => Unanswered(c)
        /\ \A c \in Items : outcome[c] = "denied" => outcome'[c] = "denied"
    BY <1>1, <2>1 DEF Unanswered, TypeOK
  <2>3. ASSUME NEW j \in queue, NEW id \in Id, NEW d \in deps[j], IsWorkflow(items[j]),
               id \in items'[j].refs, id.kind = "client", id.obj \notin mapped,
               Settles(d, j, id.obj)
        PROVE  /\ id.obj \notin mapped'
               /\ d \in deps'[j]
               /\ \A c \in deps[j] : Unanswered(c)' => c \in deps'[j]
    <3>1. PICK o : o = id.obj
      OBVIOUS
    <3>2. /\ id \in items[j].refs
          /\ i \in deps[j] => o \notin items[i].objs \cap Enums
      BY <1>1, <2>1, <2>3, <3>1, RewrittenReferences
    <3>3. o \in Enums
      BY <1>2, <2>3, <3>1, <3>2
    <3>4. o \notin items[i].objs
      <4> SUFFICES ASSUME o \in items[i].objs PROVE FALSE
        OBVIOUS
      <4>1. i \notin deps[j]
        BY <3>2, <3>3
      <4>2. IsUpdate(items[d]) /\ d < i /\ o \in items[d].objs
        BY <1>1, <2>1, <2>3, <3>1, <4>1 DEF Settles
      <4>3. o \notin OnServer /\ o \notin mapped
        BY <1>1, <2>1, <3>3, EnumUnmapped DEF EnumInv
      <4>4. d \in queue
        BY <2>3, <3>3, <4>2, <4>3, DependencyLive
      <4>5. i < d
        BY <2>1, <3>3, <4>2, <4>4 DEF ReferenceInv, EarlierUpdatesFailed
      <4>6. d \in Nat /\ i \in Nat
        BY <1>1, <4>4
      <4> QED
        BY <4>2, <4>5, <4>6
    <3>5. d # i
      BY <2>3, <3>1, <3>4 DEF Settles
    <3> QED
      BY <2>1, <2>2, <2>3, <3>1, <3>4, <3>5
  <2>4. /\ \A j \in inflight : items'[j].refs = items[j].refs
        /\ \A j \in queue : \A id \in items'[j].refs : id.kind = "client" => id \in items[j].refs
    BY <1>1, <2>1, RewrittenReferences
  <2>5. ReferencesSettle'
    BY <2>1, <2>2, <2>3, <2>4, SettleStep DEF ReferenceInv
  <2> QED
    BY <2>1, <2>2, <2>4, <2>5, ReferenceStep
<1>4. CASE CreateDenied(i) \/ UpdateOrActionAnswered(i)
  <2>1. /\ items' = items /\ SameItems
        /\ queue' = queue /\ inflight' = inflight \ {i} /\ UNCHANGED <<rejected, needs, mapped>>
        /\ \A j \in queue : deps'[j] = deps[j] \ {i}
    BY <1>4, UnchangedItems DEF CreateDenied, UpdateOrActionAnswered, Release
  <2>2. PICK how \in {"ok", "denied"} : outcome' = [outcome EXCEPT ![i] = how]
                                        /\ (CreateDenied(i) => how = "denied")
    BY <1>4 DEF CreateDenied, UpdateOrActionAnswered, Finish, IsCreate, CreateOps
  <2>3. /\ outcome'[i] = how /\ ~Unanswered(i)'
        /\ \A c \in Items : Unanswered(c)' => Unanswered(c)
        /\ \A c \in Items : outcome[c] = "denied" => outcome'[c] = "denied"
    BY <1>1, <2>2 DEF Unanswered, TypeOK
  <2>4. ASSUME NEW j \in queue, NEW id \in Id, NEW d \in deps[j], IsWorkflow(items[j]),
               Undenied(j)', id \in items[j].refs, id.kind = "client", id.obj \notin mapped,
               Settles(d, j, id.obj)
        PROVE  d # i
    <3> SUFFICES ASSUME d = i PROVE FALSE
      OBVIOUS
    <3>1. CASE CreateDenied(i)
      <4>1. i \in needs[j] /\ needs'[j] = needs[j]
        BY <2>1, <2>4 DEF DisciplineInv, NeedsInv, NeedsAwaited
      <4>2. outcome'[i] = "denied"
        BY <2>2, <2>3, <3>1
      <4>3. \A x \in needs'[j] : outcome'[x] # "denied"
        BY <2>4 DEF Undenied
      <4> QED
        BY <4>1, <4>2, <4>3
    <3>2. CASE UpdateOrActionAnswered(i)
      <4>1. IsUpdate(items[i])
        <5>1. ~IsCreate(items[i]) /\ items[i].op # "Action"
          BY <2>4, <3>2 DEF UpdateOrActionAnswered, Settles
        <5>2. items[i] \in QueueItem
          BY <1>1 DEF TypeOK, Items
        <5> QED
          BY <5>1, <5>2 DEF QueueItem, IsCreate, IsUpdate
      <4>2. id.obj \in Enums /\ id.obj \in items[d].objs /\ id.obj \notin OnServer
        BY <1>1, <1>2, <2>4 DEF Settles, WriterInv, UpdateInv, WellFormedItems
      <4>3. d \in queue
        BY <2>4, <4>1, <4>2, DependencyLive
      <4> QED
        BY <1>1, <4>3
    <3> QED
      BY <1>4, <3>1, <3>2
  <2>5. ReferencesSettle'
    BY <2>1, <2>3, <2>4, SettleStep DEF ReferenceInv
  <2> QED
    BY <2>1, <2>3, <2>5, ReferenceStep
<1>5. CASE BulkSucceeded(i) \/ \E persistent \in BOOLEAN : RequestFailed(i, persistent)
  <2>1. /\ items' = items /\ SameItems
        /\ queue' \subseteq queue /\ inflight' = inflight \ {i}
        /\ UNCHANGED <<rejected, needs, mapped>>
        /\ \A j \in queue' : deps'[j] = deps[j]
    BY <1>5, UnchangedItems DEF BulkSucceeded, RequestFailed, FailWithDependents, Restrict
  <2>2. /\ \A c \in Items : Unanswered(c)' => Unanswered(c)
        /\ \A c \in Items : outcome[c] = "denied" => outcome'[c] = "denied"
    <3>1. \A c \in Dependents(i) \cup {i} : outcome[c] = "pending"
      BY <1>1, DependentsClosed DEF WriterInv, CreatorInv, LivePending
    <3> QED
      BY <1>1, <1>5, <3>1 DEF BulkSucceeded, RequestFailed, FailWithDependents, Unanswered, TypeOK
  <2>3. ReferencesSettle'
    BY <2>1, <2>2, SettleStep DEF ReferenceInv
  <2> QED
    BY <2>1, <2>2, <2>3, ReferenceStep
<1> QED
  BY <1>3, <1>4, <1>5 DEF Respond

(* No bulk reply brings the server id of an enum.                          *)
LEMMA BulkNextReferences ==
  ASSUME TypeOK, WriterInv, EnumInv, ReferenceInv, BulkNext
  PROVE  EnumInv' /\ ReferenceInv'
<1>1. PICK p \in bulk : /\ mapped' = mapped \cup {p[2]}
                        /\ Answered(p[1], {ClientId(p[2])})
                        /\ Release(p[1])
  BY DEF BulkNext
<1>2. /\ UNCHANGED <<items, queue, inflight, needs, outcome, rejected>> /\ SameItems
      /\ p[1] \in Items
  BY UnchangedItems DEF BulkNext, TypeOK
<1>3. /\ \A id \in Id : waiting[id] \ {p[1]} \subseteq waiting'[id]
      /\ \A j \in queue : deps'[j] = deps[j] \ {p[1]}
      /\ \A c : Unanswered(c)' <=> Unanswered(c)
  BY <1>1, <1>2 DEF Answered, Release, Unanswered
<1>4. /\ ~Unanswered(p[1]) /\ p[2] \notin Enums
      /\ items[p[1]].objs \cap Enums = {}
  <2>1. items[p[1]].op = "Bulk" /\ p[2] \in items[p[1]].objs /\ outcome[p[1]] = "ok"
    BY DEF WriterInv, CreatorInv, BulkItems
  <2> QED
    BY <1>2, <2>1 DEF EnumInv, EnumItems, Unanswered
<1>5. EnumInv'
  BY <1>2, <1>3, <1>4, EnumStep
<1>6. ASSUME NEW j \in queue, NEW id \in Id, NEW d \in deps[j], IsWorkflow(items[j]),
             id \in items[j].refs, id.obj \notin mapped, Settles(d, j, id.obj)
      PROVE  id.obj \notin mapped' /\ d # p[1]
  <2>1. id.obj \in Enums
    BY <1>6 DEF EnumInv, EnumItems, TypeOK
  <2> QED
    BY <1>1, <1>4, <1>6, <2>1 DEF Settles
<1>7. ReferencesSettle'
  BY <1>2, <1>3, <1>4, <1>6, SettleStep DEF ReferenceInv
<1> QED
  BY <1>2, <1>5, <1>7, ReferenceStep

(* The references a workflow is queued with, and what was looked up for    *)
(* them: a client id that is left was there from the start, has no server  *)
(* id and, unless the workflow was rejected, made it wait.                 *)
LEMMA EnqueueReferences ==
  ASSUME TypeOK, NEW r \in Requests, Enqueue(r)
  PROVE  LET n == Len(items) + 1
             its == Append(items, r)
         IN  /\ its[n] = r /\ \A j \in queue : its[j] = items[j]
             /\ deps'[n] = InferredDependencies(its, queue, n)
             /\ \A id \in items'[n].refs : \E was \in r.refs : was.obj = id.obj
             /\ rejected' = IF Missing(its, queue, r) # {} THEN rejected \cup {n} ELSE rejected
             /\ IsWorkflow(r) /\ Missing(its, queue, r) = {} =>
                  \A id \in items'[n].refs : id.kind = "client" => id \in r.refs /\ ~HasServerId(id)
<1> DEFINE n == Len(items) + 1
           its == Append(items, r)
<1>1. /\ n \notin queue /\ its[n] = r /\ Len(items) \in Nat
      /\ \A j \in Items : its[j] = items[j]
      /\ queue \subseteq Items
  BY DEF TypeOK, Items
<1>2. r \in QueueItem
  BY SyncQueueAssumption DEF WellFormed
<1>3. PICK S : /\ items' = Append(items, [r EXCEPT !.refs = Replace(r.refs, S)])
               /\ Missing(its, queue, r) = {} =>
                    S = {id \in r.refs : IsWorkflow(r) /\ HasServerId(id)}
  BY DEF Enqueue
<1>4. items'[n].refs = Replace(r.refs, S)
  <2>1. items'[n] = [r EXCEPT !.refs = Replace(r.refs, S)]
    BY <1>1, <1>3 DEF TypeOK
  <2> QED
    BY <1>2, <2>1 DEF QueueItem
<1>5. \A id \in items'[n].refs : \E was \in r.refs : was.obj = id.obj
  BY <1>4 DEF Replace, ServerId
<1>6. ASSUME IsWorkflow(r), Missing(its, queue, r) = {}, NEW id \in items'[n].refs, id.kind = "client"
      PROVE  id \in r.refs /\ ~HasServerId(id)
  <2>1. id \in r.refs /\ id \notin S
    BY <1>4, <1>6 DEF Replace, ServerId
  <2> QED
    BY <1>3, <1>6, <2>1
<1>7. /\ deps' = [j \in queue \cup {n} |->
                    IF j = n THEN InferredDependencies(its, queue, n) ELSE deps[j]]
      /\ rejected' = IF Missing(its, queue, r) # {} THEN rejected \cup {n} ELSE rejected
  BY DEF Enqueue
<1> HIDE DEF n, its
<1>8. deps'[n] = InferredDependencies(its, queue, n)
  BY <1>7
<1>9. \A j \in queue : its[j] = items[j]
  BY <1>1
<1> QED
  BY <1>1, <1>5, <1>6, <1>7, <1>8, <1>9 DEF n, its

(* A new update waits for earlier items only, and only for writes of its   *)
(* object.                                                                 *)
LEMMA EnumEnqueue ==
  ASSUME TypeOK, WriterInv, DisciplineInv, EnumInv, NEW r \in Requests, Enqueue(r)
  PROVE  EnumInv'
<1>0. PICK n : n = Len(items) + 1
  OBVIOUS
<1>1. /\ n \notin Items
      /\ Items' = Items \cup {n}
      /\ \A i \in Items : i < n /\ items'[i] = items[i]
      /\ items'[n].op = r.op /\ items'[n].kind = r.kind /\ items'[n].objs = r.objs
      /\ \A i \in Items : outcome'[i] = outcome[i]
      /\ queue' = queue \cup {n}
      /\ \A j \in queue : deps'[j] = deps[j]
  BY <1>0, EnqueueFacts
<1>2. PICK its : /\ its[n] = r /\ \A j \in queue : its[j] = items[j]
                 /\ deps'[n] = InferredDependencies(its, queue, n)
                 /\ \A id \in items'[n].refs : \E was \in r.refs : was.obj = id.obj
                 /\ rejected' = IF Missing(its, queue, r) # {} THEN rejected \cup {n} ELSE rejected
  BY <1>0, EnqueueReferences
<1>3. WellFormed(r) /\ UNCHANGED <<waiting, inflight>>
  BY SyncQueueAssumption DEF Enqueue
<1>4. /\ queue \subseteq Items /\ rejected \subseteq Items
      /\ \A j \in queue : deps[j] \subseteq Items
  BY DEF TypeOK
<1>5. EnumItems'
  <2>1. /\ items'[n].op = "Bulk" \/ IsWorkflow(items'[n]) => items'[n].objs \cap Enums = {}
        /\ IsWorkflow(items'[n]) => \A id \in items'[n].refs : id.obj \in Enums
    BY <1>1, <1>2, <1>3 DEF WellFormed, IsWorkflow
  <2>2. \A i \in rejected' : IsWorkflow(items'[i])
    <3>1. Missing(its, queue, r) # {} => IsWorkflow(items'[n])
      BY <1>1 DEF Missing, IsWorkflow
    <3> QED
      BY <1>1, <1>2, <1>4, <3>1 DEF EnumInv, EnumItems
  <2> QED
    BY <1>1, <2>1, <2>2 DEF EnumInv, EnumItems
<1>6. CreationsAwaited'
  BY <1>1, <1>3 DEF EnumInv, CreationsAwaited, Unanswered
<1>7. UpdatesLive'
  BY <1>1, <1>3 DEF EnumInv, UpdatesLive, Unanswered
<1>8. UpdatesWaitForWrites'
  <2> SUFFICES ASSUME NEW u \in queue', items'[u].op = "Update", NEW d \in deps'[u]
               PROVE  d < u /\ items'[d].op # "Action" /\ SameObject(d, u)'
    BY DEF UpdatesWaitForWrites
  <2>1. CASE u = n
    <3>1. r \in QueueItem /\ r.op = "Update"
      BY <1>1, <1>3, <2>1 DEF WellFormed
    <3>2. d \in Items /\ items[d].op # "Action" /\ items[d].objs \cap r.objs # {}
      BY <1>2, <2>1, <3>1, UpdateFinds DEF DisciplineInv
    <3> QED
      BY <1>1, <2>1, <3>2 DEF SameObject
  <2>2. CASE u \in queue
    <3>1. u \in Items /\ d \in Items /\ d \in deps[u] /\ items[u].op = "Update"
      BY <1>1, <1>4, <2>2
    <3>2. d < u /\ items[d].op # "Action" /\ SameObject(d, u)
      BY <2>2, <3>1 DEF EnumInv, UpdatesWaitForWrites
    <3> QED
      BY <1>1, <3>1, <3>2 DEF SameObject
  <2> QED
    BY <1>1, <2>1, <2>2
<1> QED
  BY <1>5, <1>6, <1>7, <1>8 DEF EnumInv

(* A new workflow waits for whatever will settle its references; a new     *)
(* creation of an enum, allowed once the last one has failed, finds only   *)
(* earlier updates among what settles the others'.                         *)
LEMMA ReferenceEnqueue ==
  ASSUME TypeOK, WriterInv, DisciplineInv, EnumInv, ReferenceInv, NEW r \in Requests, Enqueue(r)
  PROVE  ReferenceInv'
<1>0. PICK n : n = Len(items) + 1
  OBVIOUS
<1>1. /\ n \notin Items
      /\ Items' = Items \cup {n}
      /\ \A i \in Items : i < n /\ items'[i] = items[i]
      /\ items'[n].op = r.op /\ items'[n].kind = r.kind /\ items'[n].objs = r.objs
      /\ \A i \in Items : outcome'[i] = outcome[i]
      /\ queue' = queue \cup {n}
      /\ \A j \in queue : deps'[j] = deps[j]
  BY <1>0, EnqueueFacts
<1> DEFINE its == Append(items, r)
           missing == Missing(its, queue, r)
<1>2. /\ its[n] = r /\ \A j \in queue : its[j] = items[j]
      /\ deps'[n] = InferredDependencies(its, queue, n)
      /\ rejected' = IF missing # {} THEN rejected \cup {n} ELSE rejected
      /\ IsWorkflow(r) /\ missing = {} =>
           \A id \in items'[n].refs : id.kind = "client" => id \in r.refs /\ ~HasServerId(id)
  BY ONLY <1>0, EnqueueReferences, TypeOK, r \in Requests, Enqueue(r)
<1> HIDE DEF its
<1>3. WellFormed(r) /\ CanRequest(r) /\ UNCHANGED <<mapped, inflight>>
  BY SyncQueueAssumption DEF Enqueue
<1>4. /\ queue \subseteq Items /\ inflight \subseteq Items /\ rejected \subseteq Items
      /\ \A j \in queue : deps[j] \subseteq Items
      /\ \A j \in Items : needs[j] \subseteq Items
  BY DEF TypeOK
<1>5. \A j \in Items : needs'[j] = needs[j]
  BY EnqueueNeeds DEF WriterInv, CreatorInv
<1>6. \A j \in Items : (j \in rejected' <=> j \in rejected) /\ (Undenied(j)' <=> Undenied(j))
  BY <1>1, <1>2, <1>4, <1>5 DEF Undenied
<1>7. EarlierUpdatesFailed'
  BY <1>1, <1>3, <1>4 DEF ReferenceInv, EarlierUpdatesFailed
<1>8. WorkflowsNameServerIds'
  BY <1>1, <1>3, <1>4, <1>5, <1>6 DEF ReferenceInv, WorkflowsNameServerIds
<1>9. ASSUME n \notin rejected', IsWorkflow(r), NEW id \in items'[n].refs, id.kind = "client"
      PROVE  id.obj \notin mapped /\ \E d \in deps'[n] : Settles(d, n, id.obj)'
  <2>1. missing = {} /\ id \in r.refs /\ ~HasServerId(id)
    BY <1>2, <1>9
  <2>2. id \in Id /\ id.obj \notin mapped /\ id.obj \in Enums /\ id.obj \notin r.objs
    BY <1>3, <1>9, <2>1 DEF WellFormed, QueueItem, HasServerId
  <2>3. id = ClientId(id.obj)
    BY <1>9, <2>2, IdFacts DEF ClientId
  <2>4. PICK found : found = ItemsWithObjectId(its, queue, id)
    OBVIOUS
  <2>5. found # {} /\ found \ {n} \subseteq deps'[n]
    BY <1>2, <1>9, <2>1, <2>4, ReferencesFound
  <2>6. \A d \in found : /\ d \in Items /\ items[d].op # "Action" /\ items[d].kind = "client"
                         /\ id.obj \in items[d].objs
    BY <1>2, <1>9, <2>2, <2>4, FoundFacts DEF DisciplineInv
  <2>7. PICK d \in found : d \in deps'[n]
    BY <1>1, <2>5, <2>6
  <2>8. ASSUME NEW c \in Items', IsCreate(items'[c]), id.obj \in items'[c].objs, Unanswered(c)'
        PROVE  c \in deps'[n]
    <3>1. c \in Items /\ IsCreate(items[c]) /\ id.obj \in items[c].objs /\ Unanswered(c)
      BY <1>1, <2>2, <2>8 DEF Unanswered
    <3>2. c \in found
      BY <1>2, <2>3, <2>4, <3>1, CreationFound DEF DisciplineInv, EnumInv
    <3> QED
      BY <1>1, <2>5, <2>6, <3>2
  <2>9. /\ items'[d].op # "Action" /\ items'[d].kind = "client"
        /\ id.obj \in items'[d].objs
    BY <1>1, <2>6
  <2>10. Settles(d, n, id.obj)'
    BY <2>7, <2>8, <2>9 DEF Settles
  <2> QED
    BY <2>2, <2>7, <2>10
<1>10. ASSUME NEW i \in queue, i \notin rejected, IsWorkflow(items[i]), Undenied(i),
              NEW id \in items[i].refs, id.kind = "client"
       PROVE  id.obj \notin mapped /\ \E d \in deps'[i] : Settles(d, i, id.obj)'
  <2>1. PICK d \in deps[i] : id.obj \notin mapped /\ Settles(d, i, id.obj)
    BY <1>10 DEF ReferenceInv, ReferencesSettle
  <2>2. i \in Items /\ d \in Items /\ id.obj \in Enums /\ id.obj \in items[d].objs
    BY <1>4, <1>10, <2>1 DEF EnumInv, EnumItems, Settles
  <2>3. ASSUME IsCreate(r), id.obj \in r.objs
        PROVE  IsUpdate(items[d])
    <3>1. id.obj \notin OnServer
      BY <1>3, <2>3 DEF WellFormed
    <3>2. Unanswered(d)
      BY <2>1, <2>2, <3>1, DependencyLive
    <3>3. ~IsCreate(items[d])
      <4> SUFFICES ASSUME IsCreate(items[d]) PROVE FALSE
        OBVIOUS
      <4>1. outcome[d] \in {"denied", "failed"} \/ d \in rejected
        BY <1>3, <2>2, <2>3 DEF CanRequest
      <4>2. d \notin rejected
        BY <2>2 DEF EnumInv, EnumItems
      <4> QED
        BY <3>2, <4>1, <4>2 DEF Unanswered
    <3>4. items[d] \in QueueItem /\ items[d].op # "Action"
      BY <2>1, <2>2 DEF TypeOK, Items, Settles
    <3> QED
      BY <3>3, <3>4 DEF QueueItem, IsCreate, IsUpdate
  <2>4. ASSUME NEW c \in Items', IsCreate(items'[c]), id.obj \in items'[c].objs, Unanswered(c)'
        PROVE  c \in deps[i] \/ (IsUpdate(items[d]) /\ d < c)
    <3>1. CASE c = n
      <4>1. IsCreate(r) /\ id.obj \in r.objs
        BY <1>1, <2>4, <3>1 DEF IsCreate
      <4> QED
        BY <1>1, <2>2, <2>3, <3>1, <4>1
    <3>2. CASE c \in Items
      <4>1. IsCreate(items[c]) /\ id.obj \in items[c].objs /\ Unanswered(c)
        BY <1>1, <2>4, <3>2 DEF Unanswered
      <4> QED
        BY <2>1, <3>2, <4>1 DEF Settles
    <3> QED
      BY <1>1, <3>1, <3>2
  <2>5. deps'[i] = deps[i] /\ items'[d] = items[d]
    BY <1>1, <2>2
  <2>6. Settles(d, i, id.obj)'
    BY <2>1, <2>4, <2>5 DEF Settles
  <2> QED
    BY <2>1, <2>5, <2>6
<1>11. ReferencesSettle'
  <2> SUFFICES ASSUME NEW i \in queue', i \notin rejected', IsWorkflow(items'[i]), Undenied(i)',
                      NEW id \in items'[i].refs, id.kind = "client"
               PROVE  id.obj \notin mapped' /\ \E d \in deps'[i] : Settles(d, i, id.obj)'
    BY DEF ReferencesSettle
  <2>1. CASE i = n
    <3>1. IsWorkflow(r)
      BY <1>1, <2>1 DEF IsWorkflow
    <3> QED
      BY <1>3, <1>9, <2>1, <3>1
  <2>2. CASE i \in queue
    <3>1. i \in Items /\ i \notin rejected /\ IsWorkflow(items[i]) /\ Undenied(i) /\ id \in items[i].refs
      BY <1>1, <1>4, <1>6, <2>2
    <3> QED
      BY <1>3, <1>10, <2>2, <3>1
  <2> QED
    BY <1>1, <2>1, <2>2
<1> QED
  BY <1>7, <1>8, <1>11 DEF ReferenceInv

(* What is pending at startup concerns different objects, so only          *)
(* workflows wait, each for the creation of an enum it names.              *)
LEMMA ReferenceInit == Init => EnumInv /\ ReferenceInv
<1> SUFFICES ASSUME Init PROVE EnumInv /\ ReferenceInv
  OBVIOUS
<1>1. /\ queue = Items /\ inflight = {} /\ mapped = {}
      /\ deps = [i \in queue |-> InferredDependencies(items, queue, i)]
      /\ rejected = {i \in queue : Missing(items, queue, items[i]) # {}}
      /\ \A i \in Items : WellFormed(items[i])
      /\ \A i, j \in Items : i # j /\ items[i].op # "Action" /\ items[j].op # "Action"
                               => items[i].objs \cap items[j].objs = {}
  BY SyncQueueAssumption DEF Init, Items
<1>2. TypeOK /\ ClientCreations /\ WaitingInv
  BY InitType, DisciplineInit DEF DisciplineInv
<1>3. EnumItems
  BY <1>1 DEF EnumItems, WellFormed, Missing
<1>4. CreationsAwaited /\ UpdatesLive
  BY <1>1 DEF CreationsAwaited, UpdatesLive
<1>5. UpdatesWaitForWrites
  <2> SUFFICES ASSUME NEW u \in Items, items[u].op = "Update", NEW d \in deps[u]
               PROVE  FALSE
    BY <1>1 DEF UpdatesWaitForWrites
  <2>1. d \in InferredDependencies(items, queue, u) /\ items[u] \in QueueItem
    BY <1>1 DEF WellFormed
  <2>2. d \in Items /\ d # u /\ items[d].op # "Action" /\ items[d].objs \cap items[u].objs # {}
    BY <1>2, <2>1, UpdateFinds
  <2> QED
    BY <1>1, <2>2
<1>6. ReferencesSettle
  <2> SUFFICES ASSUME NEW i \in Items, i \notin rejected, IsWorkflow(items[i]),
                      NEW id \in items[i].refs, id.kind = "client"
               PROVE  id.obj \notin mapped /\ \E d \in deps[i] : Settles(d, i, id.obj)
    BY <1>1 DEF ReferencesSettle
  <2>1. Missing(items, queue, items[i]) = {} /\ ~HasServerId(id)
    BY <1>1 DEF HasServerId
  <2>2. id \in Id /\ id.obj \in Enums /\ id.obj \notin items[i].objs
    BY <1>1 DEF WellFormed, QueueItem
  <2>3. id = ClientId(id.obj)
    BY <2>2, IdFacts DEF ClientId
  <2>4. PICK found : found = ItemsWithObjectId(items, queue, id)
    OBVIOUS
  <2>5. found # {} /\ found \ {i} \subseteq deps[i]
    BY <1>1, <2>1, <2>4, ReferencesFound
  <2>6. \A d \in found : /\ d \in Items /\ items[d].op # "Action" /\ items[d].kind = "client"
                         /\ id.obj \in items[d].objs
    BY <1>2, <2>2, <2>4, FoundFacts
  <2>7. PICK d \in found : d \in deps[i]
    BY <2>2, <2>5, <2>6
  <2>8. ASSUME NEW c \in Items, IsCreate(items[c]), id.obj \in items[c].objs, Unanswered(c)
        PROVE  c \in deps[i]
    <3>1. c \in found
      BY <1>2, <1>4, <2>3, <2>4, <2>8, CreationFound
    <3> QED
      BY <2>2, <2>5, <2>6, <3>1
  <2>9. Settles(d, i, id.obj)
    BY <2>6, <2>7, <2>8 DEF Settles
  <2> QED
    BY <1>1, <2>7, <2>9
<1>7. EarlierUpdatesFailed /\ WorkflowsNameServerIds
  BY <1>1 DEF EarlierUpdatesFailed, WorkflowsNameServerIds
<1> QED
  BY <1>3, <1>4, <1>5, <1>6, <1>7 DEF EnumInv, ReferenceInv

LEMMA ReferenceStutter ==
  ASSUME EnumInv, ReferenceInv,
         UNCHANGED <<items, queue, deps, waiting, mapped, inflight, needs, outcome, rejected>>
  PROVE  EnumInv' /\ ReferenceInv'
<1>1. EnumInv'
  BY DEF EnumInv, EnumItems, CreationsAwaited, UpdatesLive, UpdatesWaitForWrites, SameObject,
         Unanswered, Items
<1>2. ReferenceInv'
  BY DEF ReferenceInv, EarlierUpdatesFailed, ReferencesSettle, Settles, Undenied,
         WorkflowsNameServerIds, Unanswered, Items
<1> QED
  BY <1>1, <1>2

LEMMA ReferenceNext ==
  TypeOK /\ WriterInv /\ DisciplineInv /\ EnumInv /\ ReferenceInv /\ [Next]_vars
    => EnumInv' /\ ReferenceInv'
<1> SUFFICES ASSUME TypeOK, WriterInv, DisciplineInv, EnumInv, ReferenceInv, [Next]_vars
             PROVE  EnumInv' /\ ReferenceInv'
  OBVIOUS
<1>1. ASSUME NEW r \in Requests, Enqueue(r) PROVE EnumInv' /\ ReferenceInv'
  BY <1>1, EnumEnqueue, ReferenceEnqueue
<1>2. CASE StopDequeueing \/ StartDequeueing \/ NothingToDequeue \/ UNCHANGED vars
  BY <1>2, ReferenceStutter DEF StopDequeueing, StartDequeueing, NothingToDequeue, history, vars
<1>3. CASE Dequeue
  BY <1>3, EnumDequeue, ReferenceDequeue
<1>4. CASE BulkNext
  BY <1>4, BulkNextReferences
<1>5. ASSUME NEW i \in inflight, Respond(i) PROVE EnumInv' /\ ReferenceInv'
  BY <1>5, EnumRespond, ReferenceRespond
<1> QED
  BY <1>1, <1>2, <1>3, <1>4, <1>5 DEF Next

(* A workflow that was accepted with references that were still to be      *)
(* created goes out naming each of them by its server id, unless the       *)
(* server refused one: the creation of an enum that succeeds rewrites      *)
(* every queued workflow waiting on it, and one that fails takes the       *)
(* workflow out of the queue.                                              *)
THEOREM WorkflowsResolved == Spec => []WorkflowsNameServerIds
<1>1. Spec => [](EnumInv /\ ReferenceInv)
  BY ReferenceInit, ReferenceNext, DisciplineInvariant, WriterInvariant, TypeCorrect, PTL DEF Spec
<1>2. ReferenceInv => WorkflowsNameServerIds
  BY DEF ReferenceInv
<1> QED
  BY <1>1, <1>2, PTL
=============================================================================
