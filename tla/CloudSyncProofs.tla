--------------------------- MODULE CloudSyncProofs ---------------------------
(* Theorems about CloudSync, for any set of scenarios: whatever is edited, *)
(* answered, lost, announced or interrupted, what the counter of requests  *)
(* in flight counts and when the row in SQLite stops being pending.        *)
EXTENDS CloudSync, FiniteSetTheorems, SequenceTheorems, TLAPS

-----------------------------------------------------------------------------
(* Types.  TypeOK says little of the request under way: TypeInv adds what  *)
(* is known of it, and that no request names a revision still to come.     *)

Object == [content : Content, revision : 0 .. Latest, conflict : 0 .. Latest,
           known : BOOLEAN, team : BOOLEAN, status : Statuses, count : Nat]
Counted(o) == o.count > 0 <=> o.status = "inflight"
SavedRow == [content : Content, revision : 0 .. Latest, pending : BOOLEAN]
PollState == [stage : {"none", "asked", "served"}, base : 0 .. Latest, found : 0 .. Latest]

Stages == {"sent", "accepted", "rejected", "denied"}
SentRequest == [stage : Stages, request : Request, answer : 0 .. Latest]

HistoryInv == history \in Seq(Content)
ObjectInv == obj \in Object /\ Counted(obj)
QueueInv ==
  /\ queue \in Seq(Request)
  /\ \A i \in 1 .. Len(queue) : queue[i].revision <= Latest
SentInv ==
  /\ sent \in {NoRequest} \cup SentRequest
  /\ sent # NoRequest =>
       /\ sent.request.revision <= Latest
       /\ sent.stage \in {"accepted", "rejected"} => sent.answer > 0
       /\ sent.stage = "rejected" => IsUpdate(sent.request)
PollInv == poll \in PollState
DiskInv == disk \in SavedRow
RestInv ==
  /\ left \in Scenario
  /\ running \in BOOLEAN
  /\ fetch \in 0 .. Latest
  /\ heard \in 0 .. Latest

TypeInv ==
  /\ HistoryInv /\ ObjectInv /\ QueueInv /\ SentInv
  /\ PollInv /\ DiskInv /\ RestInv

(* What each of the operators on objects leaves of one.                    *)
LEMMA LatestType == ASSUME history \in Seq(Content) PROVE Latest \in Nat
BY DEF Latest

LEMMA IncrementType ==
  ASSUME NEW o \in Object, history \in Seq(Content)
  PROVE  /\ Increment(o) \in Object
         /\ Counted(Increment(o))
         /\ Increment(o).status = "inflight"
         /\ Increment(o).content = o.content
         /\ Increment(o).conflict = o.conflict
         /\ Increment(o).known = o.known
         /\ Increment(o).count = IF o.status = "inflight" THEN o.count + 1 ELSE 1
<1>1. (IF o.status = "inflight" THEN o.count + 1 ELSE 1) \in Nat
  BY DEF Object
<1>2. ASSUME NEW n \in Nat
      PROVE  [o EXCEPT !.status = "inflight", !.count = n] \in Object
  BY LatestType DEF Object, Statuses
<1>3. Increment(o) \in Object
  BY <1>1, <1>2 DEF Increment
<1>4. /\ Increment(o).status = "inflight"
      /\ Increment(o).content = o.content
      /\ Increment(o).conflict = o.conflict
      /\ Increment(o).known = o.known
      /\ Increment(o).count = IF o.status = "inflight" THEN o.count + 1 ELSE 1
  BY DEF Object, Increment
<1>5. Increment(o).count > 0
  BY <1>4 DEF Object
<1> QED
  BY <1>3, <1>4, <1>5 DEF Counted

LEMMA DecrementType ==
  ASSUME NEW o \in Object, NEW n \in Nat, NEW status \in Statuses \ {"inflight"},
         Counted(o)
  PROVE  LET d == Decrement(o, n, status) IN
         /\ d \in Object
         /\ Counted(d)
         /\ d.content = o.content
         /\ d.revision = o.revision
         /\ d.conflict = o.conflict
         /\ d.known = o.known
         /\ d.team = o.team
         /\ o.status # "inflight" => d = o
         /\ o.status = "inflight" /\ o.count > n => d.status = "inflight" /\ d.count = o.count - n
         /\ o.status = "inflight" /\ o.count <= n => d.status = status
<1>1. CASE o.status # "inflight"
  BY <1>1 DEF Decrement
<1>2. CASE o.status = "inflight" /\ o.count > n
  BY <1>2 DEF Decrement, Object, Counted
<1>3. CASE o.status = "inflight" /\ o.count <= n
  <2>1. ~(o.count > n)
    BY <1>3 DEF Object
  <2>2. Decrement(o, n, status) = [o EXCEPT !.status = status, !.count = 0]
    BY <1>3, <2>1 DEF Decrement
  <2>3. [o EXCEPT !.status = status, !.count = 0] \in Object
    BY DEF Object
  <2> QED
    BY <1>3, <2>2, <2>3 DEF Object, Counted
<1> QED
  BY <1>1, <1>2, <1>3 DEF Object

LEMMA ApplyType ==
  ASSUME NEW o \in Object, NEW r \in 1 .. Latest, history \in Seq(Content)
  PROVE  /\ Apply(o, r) \in Object
         /\ Counted(o) => Counted(Apply(o, r))
         /\ Apply(o, r).status = o.status
         /\ Apply(o, r).count = o.count
         /\ Apply(o, r).known = o.known
         /\ Apply(o, r).conflict = o.conflict
<1>1. history[r] \in Content
  BY DEF Latest
<1>2. r \in 0 .. Latest
  BY LatestType
<1>3. Apply(o, r) \in Object
  BY <1>1, <1>2, LatestType DEF Object, Apply
<1> QED
  BY <1>3 DEF Object, Apply, Counted

LEMMA UpsertType ==
  ASSUME NEW o \in Object, NEW r \in 1 .. Latest, history \in Seq(Content)
  PROVE  /\ Upsert(o, r) \in Object
         /\ Counted(o) => Counted(Upsert(o, r))
         /\ Upsert(o, r).status = o.status
         /\ Upsert(o, r).count = o.count
         /\ Upsert(o, r).known = o.known
BY LatestType, ApplyType DEF Upsert, Object, Counted

LEMMA ReplaceType ==
  ASSUME NEW o \in Object, history \in Seq(Content)
  PROVE  /\ ReplaceWithConflict(o) \in Object
         /\ Counted(ReplaceWithConflict(o))
         /\ ReplaceWithConflict(o).status = "clean"
         /\ ReplaceWithConflict(o).known = o.known
<1> DEFINE clean == [o EXCEPT !.status = "clean", !.count = 0, !.conflict = 0]
<1>1. clean \in Object
  <2>1. 0 \in 0 .. Latest /\ 0 \in Nat /\ "clean" \in Statuses
    BY LatestType DEF Statuses
  <2> QED
    BY <2>1 DEF Object
<1>2. /\ Counted(clean)
      /\ clean.status = "clean"
      /\ clean.known = o.known
  BY DEF Object, Counted
<1>3. CASE o.conflict = 0
  BY <1>1, <1>2, <1>3 DEF ReplaceWithConflict
<1>4. CASE o.conflict # 0
  <2>1. o.conflict \in 1 .. Latest
    BY <1>4, LatestType DEF Object
  <2>2. ReplaceWithConflict(o) = Apply(clean, o.conflict)
    BY <1>4 DEF ReplaceWithConflict
  <2> HIDE DEF clean
  <2> QED
    BY <1>1, <1>2, <2>1, <2>2, ApplyType
<1> QED
  BY <1>3, <1>4

LEMMA ClearConflictType ==
  ASSUME NEW o \in Object, history \in Seq(Content)
  PROVE  /\ ClearConflict(o) \in Object
         /\ Counted(o) => Counted(ClearConflict(o))
         /\ ClearConflict(o).status = o.status
         /\ ClearConflict(o).count = o.count
         /\ ClearConflict(o).content = o.content
         /\ ClearConflict(o).known = o.known
BY LatestType DEF Object, ClearConflict, Counted

LEMMA RowType ==
  ASSUME NEW o \in Object
  PROVE  Row(o) \in SavedRow
BY DEF Row, Object, Pending, SavedRow

(* NoRequest is the one state of `sent` without a request.                 *)
LEMMA SentCases ==
  ASSUME SentInv
  PROVE  /\ sent = NoRequest <=> sent.stage = "none"
         /\ sent # NoRequest => sent \in SentRequest
BY DEF SentInv, NoRequest, SentRequest, Stages

LEMMA TypeInvOK == TypeInv => TypeOK
<1> SUFFICES ASSUME TypeInv PROVE TypeOK
  OBVIOUS
<1>1. /\ sent.stage \in {"none", "sent", "accepted", "rejected", "denied"}
      /\ sent.stage # "none" => /\ sent.request \in Request
                               /\ sent.request.revision <= Latest
                               /\ sent.answer \in 0 .. Latest
  BY SentCases DEF TypeInv, SentInv, SentRequest, Stages, NoRequest
<1>2. queue \in Seq(Request) /\ \A i \in DOMAIN queue : queue[i].revision <= Latest
  BY DEF TypeInv, QueueInv
<1> QED
  BY <1>1, <1>2 DEF TypeInv, TypeOK, HistoryInv, ObjectInv, Object, Counted, QueueInv,
              PollInv, PollState, DiskInv, SavedRow, RestInv

(* The server's history only grows, and what a step leaves alone stays of  *)
(* its type.                                                               *)
LEMMA Unchanged ==
  ASSUME TypeInv, HistoryInv', Latest <= Latest'
  PROVE  /\ Object \subseteq Object'
         /\ UNCHANGED obj => ObjectInv'
         /\ UNCHANGED queue => QueueInv'
         /\ UNCHANGED sent => SentInv'
         /\ UNCHANGED poll => PollInv'
         /\ UNCHANGED disk => DiskInv'
         /\ UNCHANGED <<left, running, fetch, heard>> => RestInv'
<1>1. Latest \in Nat /\ Latest' \in Nat
  BY DEF TypeInv, HistoryInv, Latest
<1>2. 0 .. Latest \subseteq 0 .. Latest'
  BY <1>1
<1>3. Object \subseteq Object'
  BY <1>2 DEF Object
<1>4. UNCHANGED obj => ObjectInv'
  BY <1>3 DEF TypeInv, ObjectInv, Counted
<1>5. UNCHANGED queue => QueueInv'
  <2>1. ASSUME NEW i \in 1 .. Len(queue) PROVE queue[i].revision \in Nat
    <3>1. queue \in Seq(Request)
      BY DEF TypeInv, QueueInv
    <3>2. queue[i] \in Request
      BY <2>1, <3>1
    <3> QED
      BY <3>2 DEF Request
  <2> QED
    BY <1>1, <2>1 DEF TypeInv, QueueInv
<1>6. UNCHANGED sent => SentInv'
  <2>1. SentRequest \subseteq SentRequest'
    BY <1>2 DEF SentRequest
  <2>2. sent # NoRequest => sent.request.revision \in Nat
    BY DEF TypeInv, SentInv, SentRequest, Request
  <2> QED
    BY <1>1, <2>1, <2>2 DEF TypeInv, SentInv
<1>7. UNCHANGED poll => PollInv'
  BY <1>2 DEF TypeInv, PollInv, PollState
<1>8. UNCHANGED disk => DiskInv'
  BY <1>2 DEF TypeInv, DiskInv, SavedRow
<1>9. UNCHANGED <<left, running, fetch, heard>> => RestInv'
  BY <1>2 DEF TypeInv, RestInv
<1> QED
  BY <1>3, <1>4, <1>5, <1>6, <1>7, <1>8, <1>9

(* Saving an object of its type.                                           *)
LEMMA SaveType ==
  ASSUME NEW o, o \in Object, Counted(o), Save(o), UNCHANGED history
  PROVE  ObjectInv' /\ DiskInv'
<1>1. Object' = Object /\ SavedRow' = SavedRow
  BY DEF Object, SavedRow, Latest
<1>2. Row(o) \in SavedRow
  BY RowType
<1> QED
  BY <1>1, <1>2 DEF Save, ObjectInv, DiskInv, Counted

(* What is left when the updates are dropped: the creations, each once.    *)
LEMMA QueueSplit ==
  ASSUME QueueInv
  PROVE  /\ Cardinality(Updates) \in Nat
         /\ Cardinality(Others) \in Nat
         /\ Cardinality(Updates) + Cardinality(Others) = Len(queue)
<1>1. /\ DOMAIN queue = 1 .. Len(queue)
      /\ Len(queue) \in Nat
  BY DEF QueueInv
<1>2. /\ IsFiniteSet(1 .. Len(queue))
      /\ Cardinality(1 .. Len(queue)) = Len(queue)
  <2> DEFINE n == Len(queue)
  <2>1. 1 \in Int /\ n \in Int
    BY <1>1
  <2> HIDE DEF n
  <2>2. /\ IsFiniteSet(1 .. n)
        /\ Cardinality(1 .. n) = IF 1 > n THEN 0 ELSE n - 1 + 1
    BY ONLY <2>1, FS_Interval, Zenon
  <2> USE DEF n
  <2>3. (IF 1 > n THEN 0 ELSE n - 1 + 1) = n
    BY <1>1
  <2> QED
    BY <2>2, <2>3
<1>3. Updates \subseteq DOMAIN queue
  BY DEF Updates
<1>4. IsFiniteSet(Updates)
  BY <1>1, <1>2, <1>3, FS_Subset
<1>5. /\ IsFiniteSet(Others)
      /\ Cardinality(Others) = Cardinality(DOMAIN queue) - Cardinality(DOMAIN queue \cap Updates)
  BY <1>1, <1>2, <1>4, FS_Difference DEF Others
<1>6. DOMAIN queue \cap Updates = Updates
  BY <1>3
<1>7. /\ Cardinality(Updates) \in Nat
      /\ Cardinality(Others) \in Nat
  BY <1>4, <1>5, FS_CardinalityType
<1>8. Cardinality(Others) = Len(queue) - Cardinality(Updates)
  BY <1>1, <1>2, <1>5, <1>6
<1> QED
  BY <1>1, <1>7, <1>8

LEMMA Dropped ==
  ASSUME QueueInv, DropUpdates
  PROVE  /\ queue' \in Seq(Request)
         /\ Len(queue') = Cardinality(Others)
         /\ \A i \in 1 .. Len(queue') : \E k \in 1 .. Len(queue) :
              queue'[i] = queue[k] /\ ~IsUpdate(queue[k])
         /\ \A i, j \in 1 .. Len(queue') : i # j =>
              \E k, l \in 1 .. Len(queue) :
                k # l /\ queue'[i] = queue[k] /\ queue'[j] = queue[l]
<1>1. Cardinality(Others) \in Nat
  BY QueueSplit
<1> DEFINE n == Cardinality(Others)
<1>2. PICK place \in [1 .. n -> Others] :
        /\ \A i, j \in DOMAIN place : i < j => place[i] < place[j]
        /\ queue' = [i \in DOMAIN place |-> queue[place[i]]]
  BY DEF DropUpdates
<1> HIDE DEF n
<1>3. /\ DOMAIN place = 1 .. n
      /\ n \in Nat
      /\ \A i \in 1 .. n : place[i] \in 1 .. Len(queue) /\ ~IsUpdate(queue[place[i]])
  BY <1>1, <1>2 DEF n, Others, Updates, QueueInv
<1>4. queue' = [i \in 1 .. n |-> queue[place[i]]]
  BY <1>2, <1>3
<1>5. \A i \in 1 .. n : queue[place[i]] \in Request
  BY <1>3 DEF QueueInv
<1>6. queue' \in Seq(Request) /\ Len(queue') = n
  BY <1>3, <1>4, <1>5, IsASeq, LenProperties
<1>7. ASSUME NEW i \in 1 .. n, NEW j \in 1 .. n, i # j PROVE place[i] # place[j]
  <2>1. i < j \/ j < i
    BY <1>3, <1>7
  <2> QED
    BY <1>2, <1>3, <2>1, <1>7
<1> QED
  BY <1>3, <1>4, <1>6, <1>7 DEF n

(* A request at the end of the queue, and the queue without its head.      *)
LEMMA AppendType ==
  ASSUME QueueInv, NEW r \in Request, r.revision <= Latest,
         queue' = Append(queue, r), UNCHANGED history
  PROVE  QueueInv'
<1>1. /\ queue' \in Seq(Request)
      /\ Len(queue') = Len(queue) + 1
      /\ \A i \in 1 .. Len(queue') : queue'[i] = IF i <= Len(queue) THEN queue[i] ELSE r
  BY AppendProperties DEF QueueInv
<1> QED
  BY <1>1 DEF QueueInv, Latest

LEMMA TailType ==
  ASSUME QueueInv, queue # <<>>, queue' = Tail(queue), UNCHANGED history
  PROVE  /\ QueueInv'
         /\ Head(queue) \in Request
         /\ Head(queue).revision <= Latest
<1>1. /\ queue' \in Seq(Request)
      /\ Len(queue') = Len(queue) - 1
      /\ \A i \in 1 .. Len(queue') : queue'[i] = queue[i + 1]
      /\ Head(queue) = queue[1]
      /\ Len(queue) >= 1
  BY HeadTailProperties DEF QueueInv
<1> QED
  BY <1>1 DEF QueueInv, Latest

LEMMA FailType ==
  ASSUME TypeInv, NEW n \in Nat, Fail(n), UNCHANGED history
  PROVE  ObjectInv' /\ QueueInv'
<1>1. n + Cardinality(Updates) \in Nat
  BY QueueSplit DEF TypeInv
<1>2. obj' \in Object /\ Counted(obj')
  BY <1>1, DecrementType DEF TypeInv, ObjectInv, Fail, Statuses
<1>3. ObjectInv'
  BY <1>2 DEF ObjectInv, Object, Counted, Latest
<1>4. QueueInv'
  BY Dropped DEF TypeInv, QueueInv, Fail, Latest
<1> QED
  BY <1>3, <1>4

LEMMA RefreshQueuedType ==
  ASSUME TypeInv, NEW r \in 0 .. Latest, RefreshQueued(r), UNCHANGED history
  PROVE  /\ QueueInv'
         /\ Len(queue') = Len(queue)
         /\ \A i \in 1 .. Len(queue) : /\ IsUpdate(queue'[i]) <=> IsUpdate(queue[i])
                                       /\ queue'[i].content = queue[i].content
<1>1. CASE left.kind \in {"notebook", "workflow"}
  <2> DEFINE named(i) ==
        IF IsUpdate(queue[i]) THEN [queue[i] EXCEPT !.revision = r] ELSE queue[i]
  <2>1. queue' = [i \in 1 .. Len(queue) |-> named(i)]
    BY <1>1 DEF RefreshQueued, TypeInv, QueueInv
  <2>2. ASSUME NEW i \in 1 .. Len(queue)
        PROVE  /\ named(i) \in Request
               /\ named(i).revision <= Latest
               /\ IsUpdate(named(i)) <=> IsUpdate(queue[i])
               /\ named(i).content = queue[i].content
    <3>1. queue[i] \in Request /\ queue[i].revision <= Latest
      BY DEF TypeInv, QueueInv
    <3>2. r \in Nat /\ r <= Latest
      BY DEF TypeInv, HistoryInv, Latest
    <3> QED
      BY <3>1, <3>2 DEF Request, IsUpdate
  <2> HIDE DEF named
  <2>3. Len(queue) \in Nat
    BY DEF TypeInv, QueueInv
  <2>4. queue' \in Seq(Request) /\ Len(queue') = Len(queue)
    BY <2>1, <2>2, <2>3, IsASeq, LenProperties
  <2> QED
    BY <2>1, <2>2, <2>4 DEF QueueInv, Latest
<1>2. CASE left.kind \notin {"notebook", "workflow"}
  BY <1>2 DEF RefreshQueued, TypeInv, QueueInv, Latest
<1> QED
  BY <1>1, <1>2

LEMMA InitType == Init => TypeInv
<1> SUFFICES ASSUME Init PROVE TypeInv
  OBVIOUS
<1>1. left \in Scenario
  BY CloudSyncAssumption DEF Init
<1>2. Mine(left.edits) \in Content
  BY <1>1 DEF Scenario, Content, Mine
<1>3. HistoryInv
  BY <1>2 DEF Init, HistoryInv
<1>4. Latest \in Nat
  BY <1>3 DEF HistoryInv, Latest
<1>5. left.created \in BOOLEAN
  BY <1>1 DEF Scenario
<1>6. ObjectInv
  <2>1. obj = [content |-> Mine(left.edits), revision |-> Latest, conflict |-> 0,
               known |-> ~left.created, team |-> left.created,
               status |-> IF left.created THEN "inflight" ELSE "clean",
               count |-> IF left.created THEN 1 ELSE 0]
    BY DEF Init
  <2> QED
    BY <1>2, <1>4, <1>5, <2>1 DEF ObjectInv, Object, Counted, Statuses
<1>7. QueueInv
  <2>1. CASE left.created
    <3> DEFINE r == [op |-> "create", content |-> Mine(left.edits), revision |-> 0]
    <3>1. r \in Request /\ r.revision = 0
      BY <1>2 DEF Request
    <3>2. queue = <<r>>
      BY <2>1 DEF Init
    <3> HIDE DEF r
    <3> QED
      BY <1>4, <3>1, <3>2 DEF QueueInv
  <2>2. CASE ~left.created
    BY <2>2 DEF Init, QueueInv
  <2> QED
    BY <2>1, <2>2
<1>8. SentInv
  BY DEF Init, SentInv
<1>9. PollInv /\ RestInv
  BY <1>1, <1>4 DEF Init, PollInv, PollState, NoPoll, RestInv
<1>10. DiskInv
  BY <1>6, RowType DEF Init, DiskInv, ObjectInv
<1> QED
  BY <1>3, <1>6, <1>7, <1>8, <1>9, <1>10 DEF TypeInv

LEMMA NextType == TypeInv /\ [Next]_vars => TypeInv'
<1> SUFFICES ASSUME TypeInv, [Next]_vars PROVE TypeInv'
  OBVIOUS
<1>1. history \in Seq(Content) /\ Latest \in Nat
  BY DEF TypeInv, HistoryInv, Latest
<1>2. ASSUME UNCHANGED history
      PROVE  /\ HistoryInv' /\ Latest' = Latest
             /\ UNCHANGED obj => ObjectInv'
             /\ UNCHANGED queue => QueueInv'
             /\ UNCHANGED sent => SentInv'
             /\ UNCHANGED poll => PollInv'
             /\ UNCHANGED disk => DiskInv'
             /\ UNCHANGED <<left, running, fetch, heard>> => RestInv'
  BY <1>1, <1>2, Unchanged DEF HistoryInv, Latest
<1>3. obj \in Object /\ Counted(obj)
  BY DEF TypeInv, ObjectInv
<1>4. sent' = NoRequest => SentInv'
  BY DEF SentInv
<1>5. left \in Scenario /\ fetch \in 0 .. Latest /\ heard \in 0 .. Latest
  BY DEF TypeInv, RestInv
<1>6. CASE UNCHANGED vars
  BY <1>2, <1>6 DEF vars, TypeInv
<1>7. CASE Edit
  <2> DEFINE content == Mine(left.edits - 1)
             o == [obj EXCEPT !.content = content]
  <2>1. content \in Content /\ [left EXCEPT !.edits = @ - 1] \in Scenario
    <3>1. left.edits - 1 \in Nat
      BY <1>5, <1>7 DEF Edit, Scenario
    <3>2. [left EXCEPT !.edits = @ - 1] \in Scenario
      BY <1>5, <3>1 DEF Scenario
    <3> QED
      BY <3>1, <3>2 DEF Content, Mine
  <2> HIDE DEF content
  <2>2. o \in Object /\ Counted(o)
    BY <1>3, <2>1 DEF Object, Counted
  <2>3. Save(Increment(o)) /\ UNCHANGED <<sent, running, poll, fetch, history, heard>>
    BY <1>7 DEF Edit, content
  <2> HIDE DEF o
  <2>4. ObjectInv' /\ DiskInv'
    BY <1>1, <2>2, <2>3, IncrementType, SaveType
  <2>5. QueueInv'
    <3>1. PICK r \in EditedFrom :
            queue' = Append(queue, [op |-> "update", content |-> content, revision |-> r])
      BY <1>7 DEF Edit, content
    <3>2. r \in Nat /\ r <= Latest
      <4>1. obj.revision \in Nat /\ obj.revision <= Latest
        BY <1>1, <1>3 DEF Object
      <4> QED
        BY <1>1, <3>1, <4>1 DEF EditedFrom
    <3> DEFINE q == [op |-> "update", content |-> content, revision |-> r]
    <3>3. q \in Request /\ q.revision <= Latest
      BY <2>1, <3>2 DEF Request
    <3> HIDE DEF q
    <3> QED
      BY <2>3, <3>1, <3>3, AppendType DEF TypeInv, q
  <2>6. RestInv'
    BY <1>2, <1>7, <2>1, <2>3 DEF Edit, TypeInv, RestInv
  <2> QED
    BY <1>2, <2>3, <2>4, <2>5, <2>6 DEF TypeInv
<1>8. CASE Retry
  <2> DEFINE q == [op |-> IF obj.known THEN "update" ELSE "create",
                   content |-> obj.content, revision |-> obj.revision]
  <2>1. q \in Request /\ q.revision <= Latest
    BY <1>1, <1>3 DEF Object, Request
  <2>2. queue' = Append(queue, q) /\ obj' = Increment(obj)
        /\ UNCHANGED <<sent, running, poll, fetch, disk, history, heard, left>>
    BY <1>8 DEF Retry
  <2> HIDE DEF q
  <2>3. QueueInv'
    BY <2>1, <2>2, AppendType DEF TypeInv
  <2>4. ObjectInv'
    BY <1>1, <1>3, <2>2, IncrementType DEF ObjectInv, Object, Counted, Latest
  <2> QED
    BY <1>2, <2>2, <2>3, <2>4 DEF TypeInv
<1>9. CASE Revert
  BY <1>1, <1>2, <1>9 DEF Revert, TypeInv, RestInv
<1>10. CASE Reverted
  <2>1. PICK r \in fetch .. Latest : Save(ReplaceWithConflict(Upsert(obj, r)))
    BY <1>10 DEF Reverted
  <2>2. r \in 1 .. Latest
    BY <1>1, <1>5, <1>10, <2>1 DEF Reverted
  <2>3. Upsert(obj, r) \in Object
    BY <1>1, <1>3, <2>2, UpsertType
  <2>4. ReplaceWithConflict(Upsert(obj, r)) \in Object
        /\ Counted(ReplaceWithConflict(Upsert(obj, r)))
    BY <1>1, <2>3, ReplaceType
  <2>5. ObjectInv' /\ DiskInv'
    BY <1>10, <2>1, <2>4, SaveType DEF Reverted
  <2> QED
    BY <1>1, <1>2, <1>10, <2>5 DEF Reverted, TypeInv, RestInv
<1>11. CASE Refresh
  <2>1. ObjectInv' /\ DiskInv'
    BY <1>1, <1>3, <1>11, ReplaceType, SaveType DEF Refresh
  <2> QED
    BY <1>2, <1>11, <2>1 DEF Refresh, TypeInv
<1>12. CASE Dequeue
  <2>1. CASE IsUpdate(Head(queue)) /\ ~obj.known
    <3>1. Fail(0) /\ UNCHANGED <<sent, running, poll, fetch, disk, history, heard, left>>
      BY <1>12, <2>1 DEF Dequeue
    <3> QED
      BY <1>2, <3>1, FailType DEF TypeInv
  <2>2. CASE ~(IsUpdate(Head(queue)) /\ ~obj.known)
    <3>1. /\ sent' = [stage |-> "sent", request |-> Head(queue), answer |-> 0]
          /\ queue' = Tail(queue)
          /\ queue # <<>>
          /\ UNCHANGED <<obj, running, poll, fetch, disk, history, heard, left>>
      BY <1>12, <2>2 DEF Dequeue
    <3>2. QueueInv' /\ Head(queue) \in Request /\ Head(queue).revision <= Latest
      BY <3>1, TailType DEF TypeInv
    <3>3. sent' \in SentRequest /\ sent'.request = Head(queue) /\ sent'.stage = "sent"
      BY <1>1, <3>1, <3>2 DEF SentRequest, Stages
    <3>4. SentInv'
      BY <1>2, <3>1, <3>2, <3>3 DEF SentInv, SentRequest
    <3> QED
      BY <1>2, <3>1, <3>2, <3>4 DEF TypeInv
  <2> QED
    BY <2>1, <2>2
<1>13. CASE ServerHandles
  <2>1. sent # NoRequest /\ sent \in SentRequest /\ sent.request.revision <= Latest
    BY <1>13, SentCases DEF ServerHandles, TypeInv, SentInv, NoRequest
  <2>2. UNCHANGED <<obj, queue, running, poll, fetch, disk, heard, left>>
    BY <1>13 DEF ServerHandles
  <2>3. sent.request \in Request /\ sent.request.revision \in Nat
    BY <2>1 DEF SentRequest, Request
  <2>4. CASE Accepts(sent.request) /\ history' = Append(history, sent.request.content)
             /\ sent' = [sent EXCEPT !.stage = "accepted", !.answer = Latest + 1]
    <3>1. history' \in Seq(Content) /\ Latest' = Latest + 1
      BY <1>1, <2>3, <2>4, AppendProperties DEF Latest, Request
    <3>2. Latest + 1 \in 0 .. Latest' /\ Latest + 1 > 0 /\ Latest <= Latest'
      BY <1>1, <3>1
    <3>3. sent' \in SentRequest' /\ sent'.request = sent.request /\ sent'.answer = Latest + 1
          /\ sent'.stage = "accepted"
      BY <2>1, <2>4, <3>2 DEF SentRequest, Stages
    <3>4. SentInv'
      BY <1>1, <2>1, <2>3, <3>1, <3>2, <3>3 DEF SentInv
    <3> QED
      BY <2>2, <3>1, <3>2, <3>4, Unchanged DEF TypeInv, HistoryInv
  <2>5. CASE Rejects(sent.request) /\ sent' = [sent EXCEPT !.stage = "rejected", !.answer = Latest]
             /\ UNCHANGED history
    <3>1. Latest \in 0 .. Latest /\ Latest > 0 /\ IsUpdate(sent.request)
      BY <1>1, <2>1, <2>3, <2>5 DEF Rejects, Accepts, IsUpdate, Request
    <3>2. sent' \in SentRequest /\ sent'.request = sent.request /\ sent'.answer = Latest
          /\ sent'.stage = "rejected"
      BY <2>1, <2>5, <3>1 DEF SentRequest, Stages
    <3>3. SentInv'
      BY <1>2, <2>1, <2>5, <3>1, <3>2 DEF SentInv, SentRequest, IsUpdate
    <3> QED
      BY <1>2, <2>2, <2>5, <3>3 DEF TypeInv
  <2>6. CASE sent.request.op = "create" /\ sent' = [sent EXCEPT !.stage = "denied"]
             /\ UNCHANGED history
    <3>1. sent' \in SentRequest /\ sent'.request = sent.request /\ sent'.stage = "denied"
      BY <2>1, <2>6 DEF SentRequest, Stages
    <3>2. SentInv'
      BY <1>2, <2>1, <2>6, <3>1 DEF SentInv, SentRequest, IsUpdate
    <3> QED
      BY <1>2, <2>2, <2>6, <3>2 DEF TypeInv
  <2> QED
    BY <1>13, <2>4, <2>5, <2>6 DEF ServerHandles
<1>14. CASE LoseReply
  <2>1. sent # NoRequest /\ sent \in SentRequest /\ sent.request.revision <= Latest
    BY <1>14, SentCases DEF LoseReply, TypeInv, SentInv, NoRequest
  <2>2. sent' \in SentRequest /\ sent'.request = sent.request /\ sent'.stage = "sent"
    <3>1. 0 \in 0 .. Latest /\ "sent" \in Stages
      BY <1>1 DEF Stages
    <3>2. sent' = [sent EXCEPT !.stage = "sent", !.answer = 0]
      BY <1>14 DEF LoseReply
    <3> QED
      BY <2>1, <3>1, <3>2 DEF SentRequest
  <2>3. SentInv'
    BY <1>2, <1>14, <2>1, <2>2 DEF LoseReply, SentInv, SentRequest
  <2>4. left' \in Scenario
    <3>1. left.losses - 1 \in Nat
      BY <1>5, <1>14 DEF LoseReply, Scenario
    <3> QED
      BY <1>5, <1>14, <3>1 DEF LoseReply, Scenario
  <2> QED
    BY <1>2, <1>14, <2>3, <2>4 DEF LoseReply, TypeInv, RestInv
<1>15. ASSUME sent # NoRequest, sent.stage \in {"accepted", "rejected"}
       PROVE  sent.answer \in 1 .. Latest
  <2>1. sent.answer \in 0 .. Latest /\ sent.answer > 0
    BY <1>15, SentCases DEF TypeInv, SentInv, SentRequest
  <2> QED
    BY <1>1, <2>1
<1>16. sent.stage # "none" => sent # NoRequest
  BY DEF NoRequest
<1>17. ASSUME NEW o \in Object, NEW r \in 0 .. Latest, MarkSynced(o, r), UNCHANGED history
       PROVE  DiskInv'
  <2>1. SavedRow' = SavedRow /\ disk \in SavedRow
    BY <1>17 DEF SavedRow, Latest, TypeInv, DiskInv
  <2>2. [disk EXCEPT !.pending = FALSE, !.revision = r] \in SavedRow
    BY <2>1 DEF SavedRow
  <2> QED
    BY <1>17, <2>1, <2>2 DEF MarkSynced, DiskInv
<1>18. CASE Created
  <2> DEFINE known == [obj EXCEPT !.known = TRUE]
             o == Decrement(known, 1, "clean")
  <2>1. sent.answer \in 0 .. Latest
    BY <1>1, <1>15, <1>16, <1>18 DEF Created
  <2>2. known \in Object /\ Counted(known)
    BY <1>3 DEF Object, Counted
  <2>3. MarkSynced(o, sent.answer) /\ obj' = [o EXCEPT !.revision = sent.answer]
    BY <1>18 DEF Created
  <2> HIDE DEF known
  <2>4. o \in Object /\ Counted(o)
    BY <2>2, DecrementType DEF Statuses
  <2> HIDE DEF o
  <2>5. obj' \in Object /\ Counted(obj')
    BY <2>1, <2>3, <2>4 DEF Object, Counted
  <2>6. ObjectInv'
    BY <1>18, <2>5 DEF Created, ObjectInv, Object, Counted, Latest
  <2>7. QueueInv' /\ DiskInv'
    BY <1>17, <1>18, <2>1, <2>3, <2>4, RefreshQueuedType DEF Created
  <2> QED
    BY <1>2, <1>4, <1>18, <2>6, <2>7 DEF Created, TypeInv
<1>19. CASE Updated
  <2> DEFINE revised == [obj EXCEPT !.revision = sent.answer]
             cleared == ClearConflict(revised)
             o == Decrement(cleared, 1, "clean")
  <2>1. sent.answer \in 0 .. Latest
    BY <1>1, <1>15, <1>16, <1>19 DEF Updated
  <2>2. revised \in Object /\ Counted(revised)
    BY <1>3, <2>1 DEF Object, Counted
  <2>3. MarkSynced(o, sent.answer) /\ obj' = o
    BY <1>19 DEF Updated
  <2> HIDE DEF revised
  <2>4. cleared \in Object /\ Counted(cleared)
    BY <1>1, <2>2, ClearConflictType
  <2> HIDE DEF cleared
  <2>5. o \in Object /\ Counted(o)
    BY <2>4, DecrementType DEF Statuses
  <2> HIDE DEF o
  <2>6. ObjectInv'
    BY <1>19, <2>3, <2>5 DEF Updated, ObjectInv, Object, Counted, Latest
  <2>7. QueueInv' /\ DiskInv'
    BY <1>17, <1>19, <2>1, <2>3, <2>5, RefreshQueuedType DEF Updated
  <2> QED
    BY <1>2, <1>4, <1>19, <2>6, <2>7 DEF Updated, TypeInv
<1>20. CASE Rejected
  <2>1. sent.answer \in 1 .. Latest
    BY <1>15, <1>16, <1>20 DEF Rejected
  <2>2. ObjectInv' /\ DiskInv'
    <3>1. CASE /\ obj' = [obj EXCEPT !.conflict = sent.answer, !.status = "conflict", !.count = 0]
               /\ UNCHANGED disk
      <4>1. sent.answer \in 0 .. Latest /\ "conflict" \in Statuses
        BY <1>1, <2>1 DEF Statuses
      <4>2. obj' \in Object
        BY <1>3, <3>1, <4>1 DEF Object
      <4>3. Counted(obj')
        BY <1>3, <3>1 DEF Object, Counted
      <4> QED
        BY <1>2, <1>20, <3>1, <4>2, <4>3 DEF Rejected, ObjectInv, Object, Counted, Latest
    <3>2. CASE Save(Decrement(Apply(obj, sent.answer), 1, "clean"))
      <4>1. Apply(obj, sent.answer) \in Object /\ Counted(Apply(obj, sent.answer))
        BY <1>1, <1>3, <2>1, ApplyType
      <4>2. Decrement(Apply(obj, sent.answer), 1, "clean") \in Object
            /\ Counted(Decrement(Apply(obj, sent.answer), 1, "clean"))
        BY <4>1, DecrementType DEF Statuses
      <4> QED
        BY <1>20, <3>2, <4>2, SaveType DEF Rejected
    <3> QED
      BY <1>20, <3>1, <3>2 DEF Rejected
  <2> QED
    BY <1>2, <1>4, <1>20, <2>2 DEF Rejected, TypeInv
<1>21. CASE Denied
  <2>1. CASE Save([obj EXCEPT !.team = FALSE])
             /\ queue' = Append(queue, [op |-> "create", content |-> obj.content, revision |-> 0])
    <3> DEFINE q == [op |-> "create", content |-> obj.content, revision |-> 0]
    <3>1. q \in Request /\ q.revision <= Latest
      BY <1>1, <1>3 DEF Object, Request
    <3>2. queue' = Append(queue, q)
      BY <2>1
    <3> HIDE DEF q
    <3>3. QueueInv'
      BY <1>21, <3>1, <3>2, AppendType DEF Denied, TypeInv
    <3>4. [obj EXCEPT !.team = FALSE] \in Object /\ Counted([obj EXCEPT !.team = FALSE])
      BY <1>3 DEF Object, Counted
    <3>5. ObjectInv' /\ DiskInv'
      BY <1>21, <2>1, <3>4, SaveType DEF Denied
    <3> QED
      BY <1>2, <1>4, <1>21, <3>3, <3>5 DEF Denied, TypeInv
  <2>2. CASE obj' = Decrement(obj, 1, "errored") /\ UNCHANGED <<queue, disk>>
    <3>1. obj' \in Object /\ Counted(obj')
      BY <1>3, <2>2, DecrementType DEF Statuses
    <3>2. ObjectInv'
      BY <1>21, <3>1 DEF Denied, ObjectInv, Object, Counted, Latest
    <3> QED
      BY <1>2, <1>4, <1>21, <2>2, <3>2 DEF Denied, TypeInv
  <2> QED
    BY <1>21, <2>1, <2>2 DEF Denied
<1>22. CASE Failed
  <2>1. Fail(1) /\ sent' = NoRequest /\ UNCHANGED <<running, poll, fetch, disk, history, heard, left>>
    BY <1>22 DEF Failed
  <2> QED
    BY <1>2, <1>4, <2>1, FailType DEF TypeInv
<1>23. CASE ForeignEdit
  <2>1. Theirs(left.foreign) \in Content /\ left' \in Scenario
    <3>1. left.foreign \in Nat /\ left.foreign - 1 \in Nat
      BY <1>5, <1>23 DEF ForeignEdit, Scenario
    <3> QED
      BY <1>5, <1>23, <3>1 DEF ForeignEdit, Scenario, Content, Theirs
  <2>2. history' \in Seq(Content) /\ Latest' = Latest + 1
    BY <1>1, <1>23, <2>1, AppendProperties DEF ForeignEdit, Latest
  <2>3. UNCHANGED <<obj, queue, sent, running, poll, fetch, disk, heard>>
    BY <1>23 DEF ForeignEdit
  <2>4. /\ ObjectInv' /\ QueueInv' /\ SentInv' /\ PollInv' /\ DiskInv'
    BY <1>1, <2>2, <2>3, Unchanged DEF HistoryInv
  <2>5. RestInv'
    BY <1>1, <1>5, <2>1, <2>2, <2>3 DEF TypeInv, RestInv
  <2> QED
    BY <2>2, <2>4, <2>5 DEF TypeInv, HistoryInv
<1>24. CASE Announced
  <2>1. PICK r \in heard + 1 .. Latest :
          /\ heard' = r
          /\ Save(Upsert(obj, r)) \/ Save(obj) \/ UNCHANGED <<obj, disk>>
    BY <1>24 DEF Announced
  <2>2. r \in 1 .. Latest /\ r \in 0 .. Latest
    BY <1>1, <1>5
  <2>3. Upsert(obj, r) \in Object /\ Counted(Upsert(obj, r))
    BY <1>1, <1>3, <2>2, UpsertType
  <2>4. ObjectInv' /\ DiskInv'
    BY <1>2, <1>3, <1>24, <2>1, <2>3, SaveType DEF Announced
  <2>5. RestInv'
    BY <1>2, <1>24, <2>1, <2>2 DEF Announced, TypeInv, RestInv
  <2> QED
    BY <1>2, <1>24, <2>4, <2>5 DEF Announced, TypeInv
<1>25. CASE Poll
  <2>1. poll' \in PollState
    BY <1>1, <1>3, <1>25 DEF Poll, PollState, Object
  <2> QED
    BY <1>2, <1>25, <2>1 DEF Poll, TypeInv, PollInv, PollState
<1>26. CASE PollServed
  <2>1. poll' \in PollState
    BY <1>1, <1>26 DEF PollServed, PollState
  <2> QED
    BY <1>2, <1>26, <2>1 DEF PollServed, TypeInv, PollInv, PollState
<1>27. CASE Polled
  <2>1. ObjectInv' /\ DiskInv'
    <3>1. CASE obj.known /\ poll.found # 0
      <4>1. poll.found \in 1 .. Latest
        BY <1>1, <3>1 DEF TypeInv, PollInv, PollState
      <4>2. Upsert(obj, poll.found) \in Object /\ Counted(Upsert(obj, poll.found))
        BY <1>1, <1>3, <4>1, UpsertType
      <4> QED
        BY <1>27, <3>1, <4>2, SaveType DEF Polled
    <3>2. CASE ~(obj.known /\ poll.found # 0)
      BY <1>2, <1>27, <3>2 DEF Polled
    <3> QED
      BY <3>1, <3>2
  <2>2. NoPoll \in PollState
    BY <1>1 DEF NoPoll, PollState
  <2>3. PollInv'
    BY <1>2, <1>27, <2>2 DEF Polled, PollInv, PollState
  <2> QED
    BY <1>2, <1>27, <2>1, <2>3 DEF Polled, TypeInv, RestInv
<1>28. CASE GoOffline
  <2>1. left' \in Scenario
    <3>1. left.offline - 1 \in Nat
      BY <1>5, <1>28 DEF GoOffline, Scenario
    <3> QED
      BY <1>5, <1>28, <3>1 DEF GoOffline, Scenario
  <2>2. NoPoll \in PollState
    BY <1>1 DEF NoPoll, PollState
  <2>3. PollInv'
    BY <1>2, <1>28, <2>2 DEF GoOffline, PollInv, PollState
  <2> QED
    BY <1>2, <1>28, <2>1, <2>3 DEF GoOffline, TypeInv, RestInv
<1>29. CASE Relaunch
  <2>1. disk.content \in Content /\ disk.revision \in 0 .. Latest
    BY DEF TypeInv, DiskInv, SavedRow
  <2>2. left' \in Scenario
    <3>1. left.crashes - 1 \in Nat
      BY <1>5, <1>29 DEF Relaunch, Scenario
    <3> QED
      BY <1>5, <1>29, <3>1 DEF Relaunch, Scenario
  <2>3. ObjectInv'
    <3> DEFINE status == IF disk.pending THEN "inflight" ELSE "clean"
               count == IF disk.pending THEN 1 ELSE 0
    <3>1. status \in Statuses /\ count \in Nat /\ (count > 0 <=> status = "inflight")
      BY DEF Statuses
    <3>2. obj' = [obj EXCEPT !.content = disk.content, !.revision = disk.revision,
                             !.conflict = 0, !.status = status, !.count = count]
      BY <1>29 DEF Relaunch
    <3> HIDE DEF status, count
    <3>3. 0 \in 0 .. Latest
      BY <1>1
    <3>4. obj' \in Object
      BY <1>3, <2>1, <3>1, <3>2, <3>3 DEF Object
    <3>5. Counted(obj')
      BY <1>3, <3>1, <3>2 DEF Object, Counted
    <3> QED
      BY <1>29, <3>4, <3>5 DEF Relaunch, ObjectInv, Object, Counted, Latest
  <2>4. QueueInv'
    <3> DEFINE q == [op |-> "update", content |-> disk.content, revision |-> disk.revision]
    <3>1. q \in Request /\ q.revision <= Latest
      BY <1>1, <2>1 DEF Request
    <3>2. queue' = <<q>> \/ queue' = <<>>
      BY <1>29 DEF Relaunch
    <3> HIDE DEF q
    <3>3. Latest' = Latest
      BY <1>2, <1>29 DEF Relaunch
    <3>4. /\ <<q>> \in Seq(Request) /\ Len(<<q>>) = 1 /\ <<q>>[1] = q
          /\ <<>> \in Seq(Request) /\ Len(<<>>) = 0
      BY <3>1
    <3>5. /\ queue' \in Seq(Request)
          /\ \A i \in 1 .. Len(queue') : queue'[i].revision <= Latest
      <4>1. CASE queue' = <<q>>
        BY <3>1, <3>4, <4>1
      <4>2. CASE queue' = <<>>
        BY <3>4, <4>2
      <4> QED
        BY <3>2, <4>1, <4>2
    <3> QED
      BY <3>3, <3>5 DEF QueueInv
  <2>5. NoPoll \in PollState
    BY <1>1 DEF NoPoll, PollState
  <2>6. PollInv'
    BY <1>2, <1>29, <2>5 DEF Relaunch, PollInv, PollState
  <2>7. 0 \in 0 .. Latest /\ Latest \in 0 .. Latest
    BY <1>1
  <2>8. RestInv'
    BY <1>2, <1>29, <2>2, <2>7 DEF Relaunch, RestInv
  <2> QED
    BY <1>2, <1>4, <1>29, <2>3, <2>4, <2>6, <2>8 DEF Relaunch, TypeInv
<1> QED
  BY <1>6, <1>7, <1>8, <1>9, <1>10, <1>11, <1>12, <1>13, <1>14, <1>18, <1>19, <1>20, <1>21,
     <1>22, <1>23, <1>24, <1>25, <1>26, <1>27, <1>28, <1>29 DEF Next

LEMMA TypeInvariant == Spec => []TypeInv
BY InitType, NextType, PTL DEF Spec

(* What the state is made of, whatever happens: no copy is of a revision   *)
(* the server has not had, and an object is in flight exactly while        *)
(* requests of it are counted.                                             *)
THEOREM TypeCorrect == Spec => []TypeOK
BY TypeInvariant, TypeInvOK, PTL

-----------------------------------------------------------------------------
(* The counter and the row.                                                *)

(* A creation is sent before anything else of its object, once: while it   *)
(* is queued nothing is under way, and what is under way is an update if   *)
(* the server knows the object and the creation if not.                    *)
CreationInv ==
  /\ sent # NoRequest => (obj.known <=> IsUpdate(sent.request))
  /\ sent # NoRequest /\ sent.stage = "denied" => ~IsUpdate(sent.request)
  /\ \A i \in 1 .. Len(queue) : ~IsUpdate(queue[i]) => ~obj.known /\ sent = NoRequest
  /\ \A i, j \in 1 .. Len(queue) : ~IsUpdate(queue[i]) /\ ~IsUpdate(queue[j]) => i = j

(* Until the server knows the object nothing can overtake its requests:    *)
(* the counter is exact.                                                   *)
UnknownInv ==
  ~obj.known => /\ obj.conflict = 0
                /\ fetch = 0
                /\ Pending(obj)
                /\ obj.status = "inflight" => obj.count = Outstanding

(* An object is errored when the last of its requests has failed.          *)
ErroredInv == obj.status = "errored" => Outstanding = 0

SurviveInv == NotOvercounted /\ CreationInv /\ UnknownInv /\ ErroredInv /\ RowFollows

LEMMA OutstandingType ==
  ASSUME TypeInv
  PROVE  /\ UnderWay = IF sent = NoRequest THEN 0 ELSE 1
         /\ Outstanding = Len(queue) + UnderWay
         /\ Len(queue) \in Nat
         /\ Outstanding \in Nat
BY SentCases DEF TypeInv, QueueInv, UnderWay, Outstanding

LEMMA SaveSurvives ==
  ASSUME NEW o, Save(o)
  PROVE  RowFollows'
BY DEF Save, Row, Pending, RowFollows

LEMMA Appended ==
  ASSUME TypeInv, NEW r \in Request, queue' = Append(queue, r)
  PROVE  /\ Len(queue') = Len(queue) + 1
         /\ \A i \in 1 .. Len(queue') : queue'[i] = IF i <= Len(queue) THEN queue[i] ELSE r
BY AppendProperties DEF TypeInv, QueueInv

(* A request that fails takes the updates that wait on it along: the       *)
(* counter is lowered by as many as leave the queue.                       *)
LEMMA FailSurvives ==
  ASSUME TypeInv, SurviveInv, Fail(UnderWay), sent' = NoRequest, UNCHANGED <<fetch, disk>>
  PROVE  /\ SurviveInv'
         /\ obj.count = Outstanding => obj'.count = Outstanding'
<1> DEFINE m == UnderWay + Cardinality(Updates)
<1>1. m \in Nat /\ Cardinality(Others) \in Nat /\ Outstanding = Cardinality(Others) + m
  BY QueueSplit, OutstandingType DEF TypeInv
<1>2. obj' = Decrement(obj, m, "errored")
  BY DEF Fail
<1>3. obj \in Object /\ Counted(obj) /\ obj.count \in Nat
  BY DEF TypeInv, ObjectInv, Object
<1>4. Len(queue') = Cardinality(Others) /\ UnderWay' = 0 /\ Outstanding' = Cardinality(Others)
  BY <1>1, Dropped DEF Fail, TypeInv, Outstanding, UnderWay, NoRequest
<1> HIDE DEF m
<1>5. /\ obj'.content = obj.content
      /\ obj'.known = obj.known
      /\ obj'.conflict = obj.conflict
      /\ obj.status # "inflight" => obj' = obj
      /\ obj.status = "inflight" /\ obj.count > m =>
           obj'.status = "inflight" /\ obj'.count = obj.count - m
      /\ obj.status = "inflight" /\ obj.count <= m => obj'.status = "errored" /\ obj'.count = 0
  <2>1. PICK o, later : o = obj /\ later = Decrement(o, m, "errored")
    OBVIOUS
  <2>2. o \in Object /\ "errored" \in Statuses \ {"inflight"} /\ Counted(o)
    BY <1>3, <2>1 DEF Statuses
  <2>3. /\ later.content = o.content /\ later.conflict = o.conflict /\ later.known = o.known
    BY <1>1, <2>1, <2>2 DEF Decrement, Object
  <2>4. /\ o.status # "inflight" => later = o
        /\ o.status = "inflight" /\ o.count > m =>
             later.status = "inflight" /\ later.count = o.count - m
        /\ o.status = "inflight" /\ o.count <= m => later.status = "errored" /\ later.count = 0
    BY <1>1, <1>3, <2>1, <2>2 DEF Decrement, Object
  <2> QED
    BY <1>2, <2>1, <2>3, <2>4
<1>6. obj.status = "inflight" => obj.count <= Cardinality(Others) + m
  BY <1>1 DEF SurviveInv, NotOvercounted
<1>7. NotOvercounted'
  <2>1. CASE obj.status = "inflight" /\ obj.count > m
    BY <1>1, <1>3, <1>4, <1>5, <1>6, <2>1 DEF NotOvercounted
  <2>2. CASE ~(obj.status = "inflight" /\ obj.count > m)
    BY <1>1, <1>3, <1>5, <2>2 DEF NotOvercounted
  <2> QED
    BY <2>1, <2>2
<1>8. CreationInv'
  <2>1. /\ \A i \in 1 .. Len(queue') : \E k \in 1 .. Len(queue) :
              queue'[i] = queue[k] /\ ~IsUpdate(queue[k])
        /\ \A i, j \in 1 .. Len(queue') : i # j =>
              \E k, l \in 1 .. Len(queue) :
                k # l /\ queue'[i] = queue[k] /\ queue'[j] = queue[l]
    BY Dropped DEF TypeInv, Fail
  <2>2. \A i \in 1 .. Len(queue') : ~obj'.known /\ sent' = NoRequest
    BY <1>5, <2>1 DEF SurviveInv, CreationInv
  <2>3. ASSUME NEW i \in 1 .. Len(queue'), NEW j \in 1 .. Len(queue'), i # j,
               ~IsUpdate(queue'[i]), ~IsUpdate(queue'[j])
        PROVE  FALSE
    <3>1. PICK k, l \in 1 .. Len(queue) :
                k # l /\ queue'[i] = queue[k] /\ queue'[j] = queue[l]
      BY <2>1, <2>3
    <3> QED
      BY <2>3, <3>1 DEF SurviveInv, CreationInv, IsUpdate
  <2> QED
    BY <2>2, <2>3 DEF CreationInv
<1>9. obj.known => Cardinality(Others) = 0
  <2>1. obj.known => Others = {}
    BY DEF Others, Updates, SurviveInv, CreationInv, TypeInv, QueueInv
  <2> QED
    BY <2>1, FS_EmptySet
<1>10. ErroredInv' /\ UnknownInv'
  <2>1. CASE obj.status # "inflight"
    <3>1. obj.status = "errored" => Outstanding' = 0
      BY <1>1, <1>4 DEF SurviveInv, ErroredInv
    <3> QED
      BY <1>5, <2>1, <3>1 DEF SurviveInv, ErroredInv, UnknownInv, Pending
  <2>2. CASE obj.status = "inflight" /\ obj.count > m
    <3>1. ~obj.known => obj'.count = Outstanding'
      BY <1>1, <1>3, <1>4, <1>5, <2>2 DEF SurviveInv, UnknownInv
    <3> QED
      BY <1>5, <2>2, <3>1 DEF SurviveInv, ErroredInv, UnknownInv, Pending
  <2>3. CASE obj.status = "inflight" /\ obj.count <= m
    <3>1. Outstanding' = 0
      BY <1>1, <1>3, <1>4, <1>9, <2>3 DEF SurviveInv, UnknownInv
    <3> QED
      BY <1>5, <2>3, <3>1 DEF SurviveInv, ErroredInv, UnknownInv, Pending
  <2>4. obj.status = "inflight" => obj.count > m \/ obj.count <= m
    BY <1>1, <1>3
  <2> QED
    BY <2>1, <2>2, <2>3, <2>4
<1>11. RowFollows'
  <2>1. obj'.status = obj.status \/ (Pending(obj) /\ Pending(obj'))
    BY <1>1, <1>3, <1>5 DEF Pending
  <2> QED
    BY <1>5, <2>1 DEF SurviveInv, RowFollows, Pending
<1>12. obj.count = Outstanding => obj'.count = Outstanding'
  BY <1>1, <1>3, <1>4, <1>5 DEF Counted
<1> QED
  BY <1>7, <1>8, <1>10, <1>11, <1>12 DEF SurviveInv

(* A change of others, applied or kept as a conflict, reaches only objects *)
(* the server knows and leaves the requests alone.                         *)
LEMMA UpsertSurvives ==
  ASSUME TypeInv, SurviveInv, obj.known, NEW r \in 1 .. Latest,
         Save(Upsert(obj, r)), UNCHANGED <<queue, sent, fetch>>
  PROVE  SurviveInv'
<1>1. /\ obj'.status = obj.status
      /\ obj'.count = obj.count
      /\ obj'.known = obj.known
  BY UpsertType DEF TypeInv, ObjectInv, HistoryInv, Save
<1>2. RowFollows'
  BY SaveSurvives
<1>3. Outstanding' = Outstanding
  BY DEF Outstanding, UnderWay
<1> QED
  BY <1>1, <1>2, <1>3 DEF SurviveInv, NotOvercounted, CreationInv, UnknownInv, ErroredInv

(* The server's version replaces the object's.                             *)
LEMMA ReplaceSurvives ==
  ASSUME TypeInv, SurviveInv, NEW o \in Object, o.known = obj.known, obj.known,
         Save(ReplaceWithConflict(o)), UNCHANGED <<queue, sent>>
  PROVE  SurviveInv'
<1>1. obj'.status = "clean" /\ obj'.known = obj.known
  BY ReplaceType DEF TypeInv, HistoryInv, Save
<1>2. RowFollows'
  BY SaveSurvives
<1> QED
  BY <1>1, <1>2 DEF SurviveInv, NotOvercounted, CreationInv, UnknownInv, ErroredInv

(* A request under way keeps its place while the server handles it.        *)
LEMMA StageSurvives ==
  ASSUME TypeInv, SurviveInv, sent # NoRequest, sent' # NoRequest, sent'.stage # "none",
         sent'.request = sent.request, sent'.stage = "denied" => ~IsUpdate(sent.request),
         UNCHANGED <<obj, queue, fetch, disk>>
  PROVE  SurviveInv'
<1>1. Outstanding' = Outstanding
  BY SentCases DEF Outstanding, UnderWay, TypeInv
<1>2. CreationInv'
  BY DEF SurviveInv, CreationInv, IsUpdate
<1> QED
  BY <1>1, <1>2 DEF SurviveInv, NotOvercounted, UnknownInv, ErroredInv, RowFollows, Pending

(* The answer to a request: the object, marked as o, has one request less  *)
(* under way.                                                              *)
LEMMA AnsweredSurvives ==
  ASSUME TypeInv, SurviveInv, sent # NoRequest, sent' = NoRequest,
         NEW o \in Object, Counted(o), o.status = obj.status, o.count = obj.count, o.known,
         NEW d, d = Decrement(o, 1, "clean"),
         obj'.status = d.status, obj'.count = d.count, obj'.known = d.known,
         Len(queue') = Len(queue),
         \A i \in 1 .. Len(queue) : IsUpdate(queue'[i]) <=> IsUpdate(queue[i])
  PROVE  /\ NotOvercounted' /\ CreationInv' /\ UnknownInv' /\ ErroredInv'
         /\ obj.count = Outstanding => obj'.count = Outstanding'
<1>1. /\ Outstanding = Len(queue) + 1
      /\ Outstanding' = Len(queue)
      /\ Len(queue) \in Nat
  BY OutstandingType DEF Outstanding, UnderWay, NoRequest
<1>2. /\ d.known = o.known
      /\ o.status # "inflight" => d = o
      /\ o.status = "inflight" /\ o.count > 1 => d.status = "inflight" /\ d.count = o.count - 1
      /\ o.status = "inflight" /\ o.count <= 1 => d.status = "clean" /\ d.count = 0
      /\ o.count \in Nat
      /\ o.count > 0 => o.status = "inflight"
  <2>1. 1 \in Nat /\ "clean" \in Statuses \ {"inflight"}
    BY DEF Statuses
  <2>2. o.count \in Nat
    BY DEF Object
  <2>3. /\ d \in Object /\ Counted(d)
        /\ d.known = o.known
        /\ o.status # "inflight" => d = o
        /\ o.status = "inflight" /\ o.count > 1 => d.status = "inflight" /\ d.count = o.count - 1
        /\ o.status = "inflight" /\ o.count <= 1 => d.status = "clean"
    BY ONLY <2>1, <2>2, o \in Object, Counted(o), d = Decrement(o, 1, "clean"), DecrementType
  <2>4. d.status = "clean" => d.count = 0
    <3>1. d.count \in Nat
      BY <2>3 DEF Object
    <3> QED
      BY <2>3, <3>1 DEF Counted
  <2>5. o.count > 0 => o.status = "inflight"
    BY DEF Counted
  <2> QED
    BY <2>2, <2>3, <2>4, <2>5
<1>3. obj.status # "errored"
  BY <1>1 DEF SurviveInv, ErroredInv
<1>4. \A i \in 1 .. Len(queue) : IsUpdate(queue[i])
  BY DEF SurviveInv, CreationInv
<1>5. CreationInv'
  BY <1>2, <1>4 DEF CreationInv
<1>6. ASSUME o.status # "inflight"
      PROVE  NotOvercounted' /\ UnknownInv' /\ ErroredInv'
  <2>1. obj'.status = obj.status /\ obj'.known
    BY <1>2, <1>6
  <2> QED
    BY <1>3, <1>6, <2>1 DEF NotOvercounted, UnknownInv, ErroredInv
<1>7. ASSUME o.status = "inflight" /\ o.count > 1
      PROVE  NotOvercounted' /\ UnknownInv' /\ ErroredInv'
  <2>1. obj.count <= Len(queue) + 1
    BY <1>1, <1>7 DEF SurviveInv, NotOvercounted
  <2>2. obj'.status = "inflight" /\ obj'.count <= Len(queue)
    BY <1>1, <1>2, <1>7, <2>1
  <2> QED
    BY <1>1, <1>2, <2>2 DEF NotOvercounted, UnknownInv, ErroredInv
<1>8. ASSUME o.status = "inflight" /\ o.count <= 1
      PROVE  NotOvercounted' /\ UnknownInv' /\ ErroredInv'
  <2>1. obj'.status = "clean" /\ obj'.known
    BY <1>2, <1>8
  <2> QED
    BY <2>1 DEF NotOvercounted, UnknownInv, ErroredInv
<1>9. o.count > 1 \/ o.count <= 1
  BY <1>2
<1>10. obj.count = Outstanding => obj'.count = Outstanding'
  BY <1>1, <1>2
<1> QED
  BY <1>5, <1>6, <1>7, <1>8, <1>9, <1>10

(* ... and the row is marked when none is left.                            *)
LEMMA MarkedSurvives ==
  ASSUME TypeInv, SurviveInv, sent # NoRequest,
         NEW o \in Object, Counted(o), o.status = obj.status, o.count = obj.count,
         o.content = obj.content,
         NEW d, d = Decrement(o, 1, "clean"),
         obj'.status = d.status, obj'.content = d.content,
         NEW r, MarkSynced(d, r)
  PROVE  RowFollows'
<1>1. /\ d.content = o.content
      /\ o.status # "inflight" => d = o
      /\ o.status = "inflight" /\ o.count > 1 => d.status = "inflight"
      /\ o.status = "inflight" /\ o.count <= 1 => d.status = "clean"
      /\ o.count \in Nat
  <2>1. 1 \in Nat /\ "clean" \in Statuses \ {"inflight"}
    BY DEF Statuses
  <2>2. o.count \in Nat
    BY DEF Object
  <2> QED
    BY ONLY <2>1, <2>2, o \in Object, Counted(o), d = Decrement(o, 1, "clean"), DecrementType
<1>2. obj.status # "errored"
  BY OutstandingType DEF SurviveInv, ErroredInv
<1>3. disk \in SavedRow
  BY DEF TypeInv, DiskInv
<1>4. CASE d.status = "inflight"
  <2>1. disk' = disk
    BY <1>4 DEF MarkSynced
  <2>2. obj.status = "inflight"
    BY <1>1, <1>4
  <2> QED
    BY <1>1, <1>4, <2>1, <2>2 DEF SurviveInv, RowFollows, Pending
<1>5. CASE d.status # "inflight"
  <2>1. disk' = [disk EXCEPT !.pending = FALSE, !.revision = r]
    BY <1>5 DEF MarkSynced
  <2>2. disk'.pending = FALSE /\ disk'.content = disk.content
    BY <1>3, <2>1 DEF SavedRow
  <2>3. d.status # "errored"
    <3>1. o.count > 1 \/ o.count <= 1
      BY <1>1
    <3> QED
      BY <1>1, <1>2, <3>1
  <2> QED
    BY <1>1, <1>5, <2>2, <2>3 DEF SurviveInv, RowFollows, Pending
<1> QED
  BY <1>4, <1>5

LEMMA InitSurvives == Init => SurviveInv
<1> SUFFICES ASSUME Init PROVE SurviveInv
  OBVIOUS
<1>1. /\ obj = [content |-> Mine(left.edits), revision |-> Latest, conflict |-> 0,
                known |-> ~left.created, team |-> left.created,
                status |-> IF left.created THEN "inflight" ELSE "clean",
                count |-> IF left.created THEN 1 ELSE 0]
      /\ sent = NoRequest /\ fetch = 0 /\ disk = Row(obj)
  BY DEF Init
<1>2. RowFollows
  BY <1>1 DEF RowFollows, Row, Pending
<1>3. UnderWay = 0
  BY <1>1 DEF UnderWay, NoRequest
<1>4. CASE left.created
  <2> DEFINE r == [op |-> "create", content |-> Mine(left.edits), revision |-> 0]
  <2>1. queue = <<r>>
    BY <1>4 DEF Init
  <2> HIDE DEF r
  <2>2. Len(queue) = 1 /\ Outstanding = 1
    BY <1>3, <2>1 DEF Outstanding
  <2>3. obj.known = FALSE /\ obj.status = "inflight" /\ obj.count = 1 /\ obj.conflict = 0
    BY <1>1, <1>4
  <2>4. CreationInv
    BY <1>1, <2>2, <2>3 DEF CreationInv
  <2> QED
    BY <1>1, <1>2, <2>2, <2>3, <2>4
       DEF SurviveInv, NotOvercounted, UnknownInv, ErroredInv, Pending
<1>5. CASE ~left.created
  <2>1. queue = <<>>
    BY <1>5 DEF Init
  <2>2. Len(queue) = 0
    BY <2>1
  <2>3. obj.known = TRUE /\ obj.status = "clean"
    BY <1>1, <1>5
  <2> QED
    BY <1>1, <1>2, <2>2, <2>3
       DEF SurviveInv, NotOvercounted, CreationInv, UnknownInv, ErroredInv
<1> QED
  BY <1>4, <1>5

LEMMA NextSurvives == TypeInv /\ SurviveInv /\ [Next]_vars => SurviveInv'
<1> SUFFICES ASSUME TypeInv, SurviveInv, [Next]_vars PROVE SurviveInv'
  OBVIOUS
<1>1. history \in Seq(Content) /\ Latest \in Nat
  BY DEF TypeInv, HistoryInv, Latest
<1>2. obj \in Object /\ Counted(obj) /\ obj.count \in Nat
  BY DEF TypeInv, ObjectInv, Object
<1>3. Len(queue) \in Nat /\ Outstanding = Len(queue) + UnderWay /\ UnderWay \in {0, 1}
  BY OutstandingType
<1>4. sent.stage # "none" => sent # NoRequest
  BY DEF NoRequest
<1>5. ASSUME UNCHANGED <<obj, queue, sent, fetch, disk>> PROVE SurviveInv'
  BY <1>5 DEF SurviveInv, NotOvercounted, CreationInv, UnknownInv, ErroredInv, RowFollows,
              Outstanding, UnderWay, Pending, IsUpdate
<1>6. CASE UNCHANGED vars
  BY <1>5, <1>6 DEF vars
<1>7. CASE Edit
  <2> DEFINE content == Mine(left.edits - 1)
             o == [obj EXCEPT !.content = content]
  <2>1. PICK r \in EditedFrom :
          queue' = Append(queue, [op |-> "update", content |-> content, revision |-> r])
    BY <1>7 DEF Edit
  <2>2. content \in Content /\ r \in Nat
    <3>1. left.edits - 1 \in Nat
      BY <1>7 DEF Edit, Scenario, TypeInv, RestInv
    <3>2. obj.revision \in Nat
      BY <1>1, <1>2 DEF Object
    <3> QED
      BY <2>1, <3>1, <3>2 DEF Content, Mine, EditedFrom
  <2>3. Save(Increment(o)) /\ UNCHANGED <<sent, fetch>>
    BY <1>7 DEF Edit
  <2> DEFINE q == [op |-> "update", content |-> content, revision |-> r]
  <2>4. q \in Request /\ IsUpdate(q)
    BY <2>2 DEF Request, IsUpdate
  <2>5. queue' = Append(queue, q)
    BY <2>1
  <2> HIDE DEF content, q
  <2>6. o \in Object /\ o.status = obj.status /\ o.count = obj.count
        /\ o.known = obj.known /\ o.conflict = obj.conflict
    BY <1>2, <2>2 DEF Object
  <2> HIDE DEF o
  <2>7. /\ obj'.status = "inflight"
        /\ obj'.known = obj.known
        /\ obj'.conflict = obj.conflict
        /\ obj'.count = IF obj.status = "inflight" THEN obj.count + 1 ELSE 1
    BY <1>1, <2>3, <2>6, IncrementType DEF Save
  <2>8. /\ Len(queue') = Len(queue) + 1
        /\ \A i \in 1 .. Len(queue') : queue'[i] = IF i <= Len(queue) THEN queue[i] ELSE q
    BY <2>4, <2>5, Appended
  <2>9. Outstanding' = Outstanding + 1 /\ Outstanding \in Nat
    BY <1>3, <2>3, <2>8 DEF Outstanding, UnderWay
  <2>10. CreationInv'
    BY <1>3, <2>3, <2>4, <2>7, <2>8 DEF SurviveInv, CreationInv
  <2>11. NotOvercounted' /\ ErroredInv'
    BY <1>2, <2>7, <2>9 DEF SurviveInv, NotOvercounted, ErroredInv
  <2>12. UnknownInv'
    <3>1. ASSUME ~obj.known PROVE obj'.count = Outstanding'
      BY <2>7, <2>9, <3>1 DEF SurviveInv, UnknownInv, ErroredInv, Pending
    <3> QED
      BY <2>3, <2>7, <3>1 DEF SurviveInv, UnknownInv, Pending
  <2> QED
    BY <2>3, <2>10, <2>11, <2>12, SaveSurvives DEF SurviveInv
<1>8. CASE Retry
  <2> DEFINE q == [op |-> IF obj.known THEN "update" ELSE "create",
                   content |-> obj.content, revision |-> obj.revision]
  <2>1. q \in Request /\ (IsUpdate(q) <=> obj.known)
    BY <1>1, <1>2 DEF Object, Request, IsUpdate
  <2>2. /\ queue' = Append(queue, q)
        /\ obj' = Increment(obj)
        /\ obj.status = "errored"
        /\ UNCHANGED <<sent, fetch, disk>>
    BY <1>8 DEF Retry
  <2> HIDE DEF q
  <2>3. Outstanding = 0 /\ Len(queue) = 0 /\ sent = NoRequest
    BY <1>3, <2>2, OutstandingType DEF SurviveInv, ErroredInv
  <2>4. /\ Len(queue') = 1
        /\ queue'[1] = q
    BY <2>1, <2>2, <2>3, Appended
  <2>5. Outstanding' = 1
    BY <2>2, <2>3, <2>4 DEF Outstanding, UnderWay, NoRequest
  <2>6. /\ obj'.status = "inflight"
        /\ obj'.content = obj.content
        /\ obj'.known = obj.known
        /\ obj'.conflict = obj.conflict
        /\ obj'.count = 1
    BY <1>1, <1>2, <2>2, IncrementType
  <2>7. CreationInv'
    BY <2>1, <2>2, <2>3, <2>4, <2>6 DEF CreationInv
  <2>8. RowFollows'
    BY <2>2, <2>6 DEF SurviveInv, RowFollows, Pending
  <2> QED
    BY <2>2, <2>5, <2>6, <2>7, <2>8
       DEF SurviveInv, NotOvercounted, UnknownInv, ErroredInv, Pending
<1>9. CASE Revert
  BY <1>9 DEF Revert, SurviveInv, NotOvercounted, CreationInv, UnknownInv, ErroredInv,
              RowFollows, Outstanding, UnderWay, Pending, IsUpdate
<1>10. CASE Reverted
  <2>1. PICK r \in fetch .. Latest : Save(ReplaceWithConflict(Upsert(obj, r)))
    BY <1>10 DEF Reverted
  <2>2. r \in 1 .. Latest
    BY <1>1, <1>10, <2>1 DEF Reverted, TypeInv, RestInv
  <2>3. Upsert(obj, r) \in Object /\ Upsert(obj, r).known = obj.known
    BY <1>1, <1>2, <2>2, UpsertType
  <2>4. obj.known
    BY <1>10 DEF Reverted, SurviveInv, UnknownInv
  <2> QED
    BY <1>10, <2>1, <2>3, <2>4, ReplaceSurvives DEF Reverted
<1>11. CASE Refresh
  <2>1. obj.known
    BY <1>11 DEF Refresh, SurviveInv, UnknownInv
  <2> QED
    BY <1>2, <1>11, <2>1, ReplaceSurvives DEF Refresh
<1>12. CASE Dequeue
  <2>1. CASE IsUpdate(Head(queue)) /\ ~obj.known
    <3>1. Fail(0) /\ UNCHANGED <<sent, fetch, disk>> /\ sent = NoRequest
      BY <1>12, <2>1 DEF Dequeue
    <3>2. UnderWay = 0
      BY <3>1 DEF UnderWay, NoRequest
    <3> QED
      BY <3>1, <3>2, FailSurvives
  <2>2. CASE ~(IsUpdate(Head(queue)) /\ ~obj.known)
    <3>1. /\ sent' = [stage |-> "sent", request |-> Head(queue), answer |-> 0]
          /\ sent = NoRequest
          /\ queue' = Tail(queue)
          /\ queue # <<>>
          /\ UNCHANGED <<obj, fetch, disk>>
      BY <1>12, <2>2 DEF Dequeue
    <3>2. /\ Len(queue') = Len(queue) - 1
          /\ \A i \in 1 .. Len(queue') : queue'[i] = queue[i + 1]
          /\ Head(queue) = queue[1]
          /\ Len(queue) >= 1
      BY <3>1, HeadTailProperties DEF TypeInv, QueueInv
    <3>3. sent'.request = Head(queue) /\ sent'.stage = "sent"
      BY <3>1
    <3>4. Outstanding' = Outstanding
      BY <1>3, <3>1, <3>2, <3>3 DEF Outstanding, UnderWay, NoRequest
    <3>5. obj.known <=> IsUpdate(Head(queue))
      BY <1>3, <2>2, <3>2 DEF SurviveInv, CreationInv
    <3>6. \A i \in 1 .. Len(queue') : IsUpdate(queue'[i])
      <4>1. ASSUME NEW i \in 1 .. Len(queue'), ~IsUpdate(queue'[i]) PROVE FALSE
        <5>1. i + 1 \in 1 .. Len(queue) /\ 1 \in 1 .. Len(queue) /\ i + 1 # 1
          BY <1>3, <3>2
        <5>2. ~IsUpdate(queue[i + 1]) /\ IsUpdate(queue[1])
          BY <3>2, <4>1, <5>1 DEF SurviveInv, CreationInv
        <5> QED
          BY <3>2, <3>5, <5>1, <5>2 DEF SurviveInv, CreationInv
      <4> QED
        BY <4>1
    <3>7. CreationInv'
      BY <3>1, <3>3, <3>5, <3>6 DEF CreationInv, IsUpdate
    <3> QED
      BY <3>1, <3>4, <3>7
         DEF SurviveInv, NotOvercounted, UnknownInv, ErroredInv, RowFollows, Pending
  <2> QED
    BY <2>1, <2>2
<1>13. CASE ServerHandles
  <2>1. sent # NoRequest /\ sent \in SentRequest
    BY <1>4, <1>13, SentCases DEF ServerHandles, TypeInv
  <2>2. \/ sent' = [sent EXCEPT !.stage = "accepted", !.answer = Latest + 1]
        \/ sent' = [sent EXCEPT !.stage = "rejected", !.answer = Latest]
        \/ sent.request.op = "create" /\ sent' = [sent EXCEPT !.stage = "denied"]
    BY <1>13 DEF ServerHandles
  <2>3. /\ sent'.stage # "none"
        /\ sent'.request = sent.request
        /\ sent'.stage = "denied" => ~IsUpdate(sent.request)
    BY <2>1, <2>2 DEF SentRequest, IsUpdate
  <2>4. sent' # NoRequest
    BY <2>3 DEF NoRequest
  <2> QED
    BY <1>13, <2>1, <2>3, <2>4, StageSurvives DEF ServerHandles
<1>14. CASE LoseReply
  <2>1. sent # NoRequest /\ sent \in SentRequest
    BY <1>4, <1>14, SentCases DEF LoseReply, TypeInv
  <2>2. sent'.stage = "sent" /\ sent'.request = sent.request
    BY <1>14, <2>1 DEF LoseReply, SentRequest
  <2>3. sent' # NoRequest
    BY <2>2 DEF NoRequest
  <2> QED
    BY <1>14, <2>1, <2>2, <2>3, StageSurvives DEF LoseReply
<1>15. sent.stage # "none" => sent # NoRequest /\ sent.answer \in 0 .. Latest
  BY <1>4, SentCases DEF TypeInv, SentRequest
<1>16. CASE Created
  <2> DEFINE known == [obj EXCEPT !.known = TRUE]
             d == Decrement(known, 1, "clean")
  <2>1. sent # NoRequest /\ sent.answer \in 0 .. Latest
    BY <1>15, <1>16 DEF Created
  <2>2. /\ known \in Object /\ Counted(known) /\ known.known
        /\ known.status = obj.status /\ known.count = obj.count
        /\ known.content = obj.content
    BY <1>2 DEF Object, Counted
  <2>3. /\ MarkSynced(d, sent.answer)
        /\ obj' = [d EXCEPT !.revision = sent.answer]
        /\ RefreshQueued(sent.answer)
        /\ sent' = NoRequest
        /\ UNCHANGED history
    BY <1>16 DEF Created
  <2> HIDE DEF known
  <2>4. d \in Object
    BY <2>2, DecrementType DEF Statuses
  <2>5. d = Decrement(known, 1, "clean")
    OBVIOUS
  <2> HIDE DEF d
  <2>6. /\ obj'.status = d.status /\ obj'.count = d.count /\ obj'.known = d.known
        /\ obj'.content = d.content
    BY <2>3, <2>4 DEF Object
  <2>7. /\ Len(queue') = Len(queue)
        /\ \A i \in 1 .. Len(queue) : IsUpdate(queue'[i]) <=> IsUpdate(queue[i])
    BY <2>1, <2>3, RefreshQueuedType
  <2>8. NotOvercounted' /\ CreationInv' /\ UnknownInv' /\ ErroredInv'
    BY <2>1, <2>2, <2>3, <2>5, <2>6, <2>7, AnsweredSurvives
  <2>9. RowFollows'
    BY <2>1, <2>2, <2>3, <2>5, <2>6, MarkedSurvives
  <2> QED
    BY <2>8, <2>9 DEF SurviveInv
<1>17. CASE Updated
  <2> DEFINE revised == [obj EXCEPT !.revision = sent.answer]
             cleared == ClearConflict(revised)
             d == Decrement(cleared, 1, "clean")
  <2>1. sent # NoRequest /\ sent.answer \in 0 .. Latest /\ obj.known
    BY <1>15, <1>17 DEF Updated, SurviveInv, CreationInv
  <2>2. /\ revised \in Object /\ Counted(revised) /\ revised.known = obj.known
        /\ revised.status = obj.status /\ revised.count = obj.count
        /\ revised.content = obj.content
    BY <1>2, <2>1 DEF Object, Counted
  <2>3. /\ MarkSynced(d, sent.answer)
        /\ obj' = d
        /\ RefreshQueued(sent.answer)
        /\ sent' = NoRequest
        /\ UNCHANGED history
    BY <1>17 DEF Updated
  <2> HIDE DEF revised
  <2>4. /\ cleared \in Object /\ Counted(cleared) /\ cleared.known
        /\ cleared.status = obj.status /\ cleared.count = obj.count
        /\ cleared.content = obj.content
    BY <1>1, <2>1, <2>2, ClearConflictType
  <2>5. d = Decrement(cleared, 1, "clean")
    OBVIOUS
  <2> HIDE DEF cleared, d
  <2>6. /\ Len(queue') = Len(queue)
        /\ \A i \in 1 .. Len(queue) : IsUpdate(queue'[i]) <=> IsUpdate(queue[i])
    BY <2>1, <2>3, RefreshQueuedType
  <2>7. NotOvercounted' /\ CreationInv' /\ UnknownInv' /\ ErroredInv'
    BY <2>1, <2>3, <2>4, <2>5, <2>6, AnsweredSurvives
  <2>8. RowFollows'
    BY <2>1, <2>3, <2>4, <2>5, MarkedSurvives
  <2> QED
    BY <2>7, <2>8 DEF SurviveInv
<1>18. CASE Rejected
  <2>1. sent # NoRequest /\ obj.known
    BY <1>15, <1>18 DEF Rejected, SurviveInv, CreationInv, TypeInv, SentInv
  <2>2. sent' = NoRequest /\ UNCHANGED <<queue, fetch>>
    BY <1>18 DEF Rejected
  <2>3. CASE /\ obj' = [obj EXCEPT !.conflict = sent.answer, !.status = "conflict", !.count = 0]
             /\ UNCHANGED disk
    <3>1. obj'.status = "conflict" /\ obj'.known = obj.known /\ obj'.content = obj.content
      BY <1>2, <2>3 DEF Object
    <3> QED
      BY <2>1, <2>2, <2>3, <3>1 DEF SurviveInv, NotOvercounted, CreationInv, UnknownInv,
                                    ErroredInv, RowFollows, Pending
  <2>4. CASE Save(Decrement(Apply(obj, sent.answer), 1, "clean"))
    <3> DEFINE o == Apply(obj, sent.answer)
               d == Decrement(o, 1, "clean")
    <3>1. sent.answer \in 1 .. Latest
      <4>1. sent.answer > 0
        BY <1>18, <2>1 DEF Rejected, TypeInv, SentInv
      <4> QED
        BY <1>1, <1>15, <1>18, <4>1 DEF Rejected
    <3>2. /\ o \in Object /\ Counted(o) /\ o.known
          /\ o.status = obj.status /\ o.count = obj.count
      BY <1>1, <1>2, <2>1, <3>1, ApplyType
    <3>3. d = Decrement(o, 1, "clean") /\ obj' = d
      BY <2>4 DEF Save
    <3> HIDE DEF o, d
    <3>4. NotOvercounted' /\ CreationInv' /\ UnknownInv' /\ ErroredInv'
      BY <2>1, <2>2, <3>2, <3>3, AnsweredSurvives
    <3> QED
      BY <2>4, <3>4, SaveSurvives DEF SurviveInv
  <2> QED
    BY <1>18, <2>3, <2>4 DEF Rejected
<1>19. CASE Denied
  <2>1. sent # NoRequest /\ ~obj.known /\ UnderWay = 1
    BY <1>15, <1>19, OutstandingType DEF Denied, SurviveInv, CreationInv
  <2>2. sent' = NoRequest /\ UNCHANGED fetch /\ UnderWay' = 0
    BY <1>19 DEF Denied, UnderWay, NoRequest
  <2>3. \A i \in 1 .. Len(queue) : IsUpdate(queue[i])
    BY <2>1 DEF SurviveInv, CreationInv
  <2>4. obj.status = "inflight" /\ obj.count = Len(queue) + 1
    BY <1>3, <2>1 DEF SurviveInv, UnknownInv, ErroredInv, Pending
  <2>5. CASE Save([obj EXCEPT !.team = FALSE])
             /\ queue' = Append(queue, [op |-> "create", content |-> obj.content, revision |-> 0])
    <3> DEFINE q == [op |-> "create", content |-> obj.content, revision |-> 0]
    <3>1. q \in Request
      BY <1>2 DEF Object, Request
    <3>2. queue' = Append(queue, q)
      BY <2>5
    <3> HIDE DEF q
    <3>3. /\ Len(queue') = Len(queue) + 1
          /\ \A i \in 1 .. Len(queue') : queue'[i] = IF i <= Len(queue) THEN queue[i] ELSE q
      BY <3>1, <3>2, Appended
    <3>4. /\ obj'.status = obj.status /\ obj'.count = obj.count
          /\ obj'.known = obj.known /\ obj'.conflict = obj.conflict
      BY <1>2, <2>5 DEF Save, Object
    <3>5. Outstanding' = Len(queue) + 1
      BY <1>3, <2>2, <3>3 DEF Outstanding
    <3>6. CreationInv'
      <4>1. ASSUME NEW i \in 1 .. Len(queue'), ~IsUpdate(queue'[i]) PROVE i = Len(queue) + 1
        BY <1>3, <2>3, <3>3, <4>1
      <4> QED
        BY <2>1, <2>2, <3>4, <4>1 DEF CreationInv
    <3>7. RowFollows'
      BY <2>5, SaveSurvives
    <3> QED
      BY <1>3, <2>1, <2>2, <2>4, <3>4, <3>5, <3>6, <3>7
         DEF SurviveInv, NotOvercounted, UnknownInv, ErroredInv, Pending
  <2>6. CASE obj' = Decrement(obj, 1, "errored") /\ UNCHANGED <<queue, disk>>
    <3>1. /\ obj'.content = obj.content
          /\ obj'.known = obj.known
          /\ obj'.conflict = obj.conflict
          /\ obj.count > 1 => obj'.status = "inflight" /\ obj'.count = obj.count - 1
          /\ obj.count <= 1 => obj'.status = "errored"
      <4>1. 1 \in Nat /\ "errored" \in Statuses \ {"inflight"}
        BY DEF Statuses
      <4>2. obj' = Decrement(obj, 1, "errored")
        BY <2>6
      <4> QED
        BY ONLY <1>2, <2>4, <4>1, <4>2, DecrementType
    <3>2. Outstanding' = Len(queue)
      BY <1>3, <2>2, <2>6 DEF Outstanding
    <3>3. \/ obj'.status = "inflight" /\ obj'.count = Len(queue)
          \/ obj'.status = "errored" /\ Len(queue) = 0
      BY <1>3, <2>4, <3>1
    <3>4. CreationInv'
      BY <2>2, <2>3, <2>6 DEF CreationInv
    <3>5. RowFollows'
      BY <2>4, <2>6, <3>1, <3>3 DEF SurviveInv, RowFollows, Pending
    <3> QED
      BY <1>3, <2>1, <2>2, <3>1, <3>2, <3>3, <3>4, <3>5
         DEF SurviveInv, NotOvercounted, UnknownInv, ErroredInv, Pending
  <2> QED
    BY <1>19, <2>5, <2>6 DEF Denied
<1>20. CASE Failed
  <2>1. /\ Fail(1)
        /\ sent' = NoRequest
        /\ UNCHANGED <<fetch, disk>>
        /\ sent # NoRequest
    BY <1>4, <1>20 DEF Failed
  <2>2. UnderWay = 1
    BY <2>1, OutstandingType
  <2> QED
    BY <2>1, <2>2, FailSurvives
<1>21. CASE ForeignEdit \/ Poll \/ PollServed \/ GoOffline
  BY <1>5, <1>21 DEF ForeignEdit, Poll, PollServed, GoOffline
<1>22. CASE Announced
  <2>1. PICK r \in heard + 1 .. Latest :
          \/ obj.known /\ Save(Upsert(obj, r))
          \/ Save(obj)
          \/ UNCHANGED <<obj, disk>>
    BY <1>22 DEF Announced
  <2>2. r \in 1 .. Latest
    BY <1>1 DEF TypeInv, RestInv
  <2>3. UNCHANGED <<queue, sent, fetch>>
    BY <1>22 DEF Announced
  <2>4. CASE obj.known /\ Save(Upsert(obj, r))
    BY <2>2, <2>3, <2>4, UpsertSurvives
  <2>5. CASE Save(obj)
    <3>1. RowFollows'
      BY <2>5, SaveSurvives
    <3> QED
      BY <2>3, <2>5, <3>1 DEF Save, SurviveInv, NotOvercounted, CreationInv, UnknownInv,
                              ErroredInv, Outstanding, UnderWay, Pending, IsUpdate
  <2>6. CASE UNCHANGED <<obj, disk>>
    BY <1>5, <2>3, <2>6
  <2> QED
    BY <2>1, <2>4, <2>5, <2>6
<1>23. CASE Polled
  <2>1. UNCHANGED <<queue, sent, fetch>>
    BY <1>23 DEF Polled
  <2>2. CASE obj.known /\ poll.found # 0
    <3>1. poll.found \in 1 .. Latest
      BY <1>1, <2>2 DEF TypeInv, PollInv, PollState
    <3> QED
      BY <1>23, <2>1, <2>2, <3>1, UpsertSurvives DEF Polled
  <2>3. CASE ~(obj.known /\ poll.found # 0)
    BY <1>5, <1>23, <2>1, <2>3 DEF Polled
  <2> QED
    BY <2>2, <2>3
<1>24. CASE Relaunch
  <2>1. /\ obj.known
        /\ obj' = [obj EXCEPT !.content = disk.content, !.revision = disk.revision, !.conflict = 0,
                              !.status = IF disk.pending THEN "inflight" ELSE "clean",
                              !.count = IF disk.pending THEN 1 ELSE 0]
        /\ sent' = NoRequest
        /\ fetch' = 0
        /\ UNCHANGED disk
    BY <1>24 DEF Relaunch
  <2>2. /\ obj'.content = disk.content
        /\ obj'.known
        /\ obj'.status = IF disk.pending THEN "inflight" ELSE "clean"
        /\ obj'.count = IF disk.pending THEN 1 ELSE 0
    BY <1>2, <2>1 DEF Object
  <2>3. RowFollows'
    BY <2>1, <2>2 DEF RowFollows, Pending
  <2>4. UnderWay' = 0
    BY <2>1 DEF UnderWay, NoRequest
  <2>5. CASE disk.pending
    <3> DEFINE q == [op |-> "update", content |-> disk.content, revision |-> disk.revision]
    <3>1. queue' = <<q>> /\ IsUpdate(q)
      BY <1>24, <2>5 DEF Relaunch, IsUpdate
    <3> HIDE DEF q
    <3>2. Len(queue') = 1 /\ queue'[1] = q
      BY <3>1
    <3>3. Outstanding' = 1
      BY <2>4, <3>2 DEF Outstanding
    <3>4. CreationInv'
      BY <2>1, <3>1, <3>2 DEF CreationInv
    <3> QED
      BY <2>2, <2>3, <2>5, <3>3, <3>4 DEF SurviveInv, NotOvercounted, UnknownInv, ErroredInv
  <2>6. CASE ~disk.pending
    <3>1. queue' = <<>>
      BY <1>24, <2>6 DEF Relaunch
    <3>2. Len(queue') = 0
      BY <3>1
    <3> QED
      BY <2>1, <2>2, <2>3, <2>6, <3>2
         DEF SurviveInv, NotOvercounted, CreationInv, UnknownInv, ErroredInv
  <2> QED
    BY <2>5, <2>6
<1> QED
  BY <1>6, <1>7, <1>8, <1>9, <1>10, <1>11, <1>12, <1>13, <1>14, <1>16, <1>17, <1>18, <1>19,
     <1>20, <1>21, <1>22, <1>23, <1>24 DEF Next

LEMMA Survival == Spec => []SurviveInv
BY InitSurvives, NextSurvives, TypeInvariant, PTL DEF Spec

(* Requests and the counter of them go up and down together, except when   *)
(* an object comes into conflict and when a revert is answered.            *)
LEMMA NextCounts ==
  ASSUME TypeInv, TypeInv', SurviveInv, SurviveInv', [Next]_vars, obj.count = Outstanding
  PROVE  obj'.count = Outstanding' \/ obj'.status = "conflict" \/ (fetch # 0 /\ fetch' = 0)
<1> DEFINE Goal ==
      obj'.count = Outstanding' \/ obj'.status = "conflict" \/ (fetch # 0 /\ fetch' = 0)
<1>1. history \in Seq(Content) /\ Latest \in Nat
  BY DEF TypeInv, HistoryInv, Latest
<1>2. /\ obj \in Object /\ Counted(obj) /\ obj.count \in Nat
      /\ obj' \in Object' /\ Counted(obj') /\ obj'.count \in Nat
  BY DEF TypeInv, ObjectInv, Object
<1>3. /\ Len(queue) \in Nat /\ Outstanding = Len(queue) + UnderWay
      /\ UnderWay = IF sent = NoRequest THEN 0 ELSE 1
  BY OutstandingType
<1>4. sent.stage # "none" => sent # NoRequest
  BY DEF NoRequest
<1>5. ASSUME obj'.count = obj.count, UNCHANGED <<queue, sent>> PROVE Goal
  BY <1>5 DEF Outstanding, UnderWay
<1>6. CASE UNCHANGED vars
  BY <1>5, <1>6 DEF vars
<1>7. CASE Edit \/ Retry
  <2>1. PICK o \in Object : obj' = Increment(o) /\ o.status = obj.status /\ o.count = obj.count
    <3>1. CASE Edit
      <4> DEFINE content == Mine(left.edits - 1)
                 o == [obj EXCEPT !.content = content]
      <4>1. obj' = Increment(o)
        BY <3>1 DEF Edit, Save
      <4>2. content \in Content
        <5>1. left.edits - 1 \in Nat
          BY <3>1 DEF Edit, Scenario, TypeInv, RestInv
        <5> QED
          BY <5>1 DEF Content, Mine
      <4> HIDE DEF content
      <4>3. o \in Object /\ o.status = obj.status /\ o.count = obj.count
        BY <1>2, <4>2 DEF Object
      <4> QED
        BY <4>1, <4>3
    <3>2. CASE Retry
      BY <1>2, <3>2 DEF Retry
    <3> QED
      BY <1>7, <3>1, <3>2
  <2>2. obj'.count = IF obj.status = "inflight" THEN obj.count + 1 ELSE 1
    BY <1>1, <2>1, IncrementType
  <2>3. PICK r : queue' = Append(queue, r)
    BY <1>7 DEF Edit, Retry
  <2>4. Len(queue') = Len(queue) + 1
    BY <2>3 DEF TypeInv, QueueInv
  <2>5. Outstanding' = Outstanding + 1
    BY <1>3, <1>7, <2>4 DEF Edit, Retry, Outstanding, UnderWay
  <2>6. obj.status # "inflight" => obj.count = 0
    BY <1>2 DEF Counted
  <2> QED
    BY <1>2, <2>2, <2>5, <2>6
<1>8. CASE Revert \/ ForeignEdit \/ Poll \/ PollServed \/ GoOffline
  BY <1>5, <1>8 DEF Revert, ForeignEdit, Poll, PollServed, GoOffline
<1>9. CASE Reverted
  BY <1>9 DEF Reverted
<1>10. CASE Refresh
  <2>1. obj.count = 0
    BY <1>2, <1>10 DEF Refresh, Pending, Counted
  <2>2. obj'.count = 0
    <3>1. obj'.status = "clean"
      BY <1>1, <1>2, <1>10, ReplaceType DEF Refresh, Save
    <3> QED
      BY <1>2, <3>1 DEF Counted
  <2> QED
    BY <1>5, <1>10, <2>1, <2>2 DEF Refresh
<1>11. CASE Dequeue
  <2>1. CASE IsUpdate(Head(queue)) /\ ~obj.known
    <3>1. Fail(0) /\ UNCHANGED <<sent, fetch, disk>> /\ sent = NoRequest
      BY <1>11, <2>1 DEF Dequeue
    <3>2. Fail(UnderWay)
      BY <1>3, <3>1
    <3> QED
      BY <3>1, <3>2, FailSurvives
  <2>2. CASE ~(IsUpdate(Head(queue)) /\ ~obj.known)
    <3>1. /\ sent' = [stage |-> "sent", request |-> Head(queue), answer |-> 0]
          /\ sent = NoRequest
          /\ queue' = Tail(queue)
          /\ queue # <<>>
          /\ UNCHANGED obj
      BY <1>11, <2>2 DEF Dequeue
    <3>2. Len(queue') = Len(queue) - 1
      BY <3>1, HeadTailProperties DEF TypeInv, QueueInv
    <3>3. sent'.stage = "sent"
      BY <3>1
    <3>4. Outstanding' = Outstanding
      BY <1>3, <3>1, <3>2, <3>3 DEF Outstanding, UnderWay, NoRequest
    <3> QED
      BY <3>1, <3>4
  <2> QED
    BY <2>1, <2>2
<1>12. CASE ServerHandles \/ LoseReply
  <2>1. sent # NoRequest /\ sent \in SentRequest /\ sent.stage # "none"
    BY <1>4, <1>12, SentCases DEF ServerHandles, LoseReply, TypeInv
  <2>2. sent'.stage # "none" /\ UNCHANGED <<obj, queue>>
    BY <1>12, <2>1 DEF ServerHandles, LoseReply, SentRequest
  <2> QED
    BY <2>1, <2>2 DEF Outstanding, UnderWay
<1>13. CASE Created
  <2> DEFINE known == [obj EXCEPT !.known = TRUE]
             d == Decrement(known, 1, "clean")
  <2>1. sent # NoRequest /\ sent.answer \in 0 .. Latest
    BY <1>4, <1>13, SentCases DEF Created, TypeInv, SentRequest
  <2>2. /\ known \in Object /\ Counted(known) /\ known.known
        /\ known.status = obj.status /\ known.count = obj.count
    BY <1>2 DEF Object, Counted
  <2>3. /\ obj' = [d EXCEPT !.revision = sent.answer]
        /\ RefreshQueued(sent.answer)
        /\ sent' = NoRequest
        /\ UNCHANGED history
    BY <1>13 DEF Created
  <2> HIDE DEF known
  <2>4. d \in Object
    BY <2>2, DecrementType DEF Statuses
  <2>5. d = Decrement(known, 1, "clean")
    OBVIOUS
  <2> HIDE DEF d
  <2>6. obj'.status = d.status /\ obj'.count = d.count /\ obj'.known = d.known
    BY <2>3, <2>4 DEF Object
  <2>7. /\ Len(queue') = Len(queue)
        /\ \A i \in 1 .. Len(queue) : IsUpdate(queue'[i]) <=> IsUpdate(queue[i])
    BY <2>1, <2>3, RefreshQueuedType
  <2> QED
    BY <2>1, <2>2, <2>3, <2>5, <2>6, <2>7, AnsweredSurvives
<1>14. CASE Updated
  <2> DEFINE revised == [obj EXCEPT !.revision = sent.answer]
             cleared == ClearConflict(revised)
             d == Decrement(cleared, 1, "clean")
  <2>1. sent # NoRequest /\ sent.answer \in 0 .. Latest /\ obj.known
    BY <1>4, <1>14, SentCases DEF Updated, SurviveInv, CreationInv, TypeInv, SentRequest
  <2>2. /\ revised \in Object /\ Counted(revised) /\ revised.known = obj.known
        /\ revised.status = obj.status /\ revised.count = obj.count
    BY <1>2, <2>1 DEF Object, Counted
  <2>3. obj' = d /\ RefreshQueued(sent.answer) /\ sent' = NoRequest /\ UNCHANGED history
    BY <1>14 DEF Updated
  <2> HIDE DEF revised
  <2>4. /\ cleared \in Object /\ Counted(cleared) /\ cleared.known
        /\ cleared.status = obj.status /\ cleared.count = obj.count
    BY <1>1, <2>1, <2>2, ClearConflictType
  <2>5. d = Decrement(cleared, 1, "clean")
    OBVIOUS
  <2> HIDE DEF cleared, d
  <2>6. /\ Len(queue') = Len(queue)
        /\ \A i \in 1 .. Len(queue) : IsUpdate(queue'[i]) <=> IsUpdate(queue[i])
    BY <2>1, <2>3, RefreshQueuedType
  <2> QED
    BY <2>1, <2>3, <2>4, <2>5, <2>6, AnsweredSurvives
<1>15. CASE Rejected
  <2>1. sent # NoRequest /\ obj.known /\ sent' = NoRequest /\ UNCHANGED queue
    BY <1>4, <1>15 DEF Rejected, SurviveInv, CreationInv, TypeInv, SentInv
  <2>2. CASE obj' = [obj EXCEPT !.conflict = sent.answer, !.status = "conflict", !.count = 0]
    BY <1>2, <2>2 DEF Object
  <2>3. CASE Save(Decrement(Apply(obj, sent.answer), 1, "clean"))
    <3> DEFINE o == Apply(obj, sent.answer)
               d == Decrement(o, 1, "clean")
    <3>1. sent.answer \in 1 .. Latest
      BY <1>1, <1>15, <2>1, SentCases DEF Rejected, TypeInv, SentInv, SentRequest
    <3>2. /\ o \in Object /\ Counted(o) /\ o.known
          /\ o.status = obj.status /\ o.count = obj.count
      BY <1>1, <1>2, <2>1, <3>1, ApplyType
    <3>3. d = Decrement(o, 1, "clean") /\ obj' = d
      BY <2>3 DEF Save
    <3> HIDE DEF o, d
    <3> QED
      BY <2>1, <3>2, <3>3, AnsweredSurvives
  <2> QED
    BY <1>15, <2>2, <2>3 DEF Rejected
<1>16. CASE Denied
  <2>1. sent # NoRequest /\ ~obj.known /\ obj' \in Object'
    BY <1>2, <1>4, <1>16 DEF Denied, SurviveInv, CreationInv
  <2>2. obj'.known = obj.known
    <3>1. 1 \in Nat /\ "errored" \in Statuses \ {"inflight"}
      BY DEF Statuses
    <3>2. Decrement(obj, 1, "errored").known = obj.known
      BY <1>2, <3>1, DecrementType
    <3>3. [obj EXCEPT !.team = FALSE].known = obj.known
      BY <1>2 DEF Object
    <3> QED
      BY <1>16, <3>2, <3>3 DEF Denied, Save
  <2>3. obj'.status = "inflight" \/ (obj'.status = "errored" /\ Outstanding' = 0)
    BY <2>1, <2>2 DEF SurviveInv, UnknownInv, ErroredInv, Pending
  <2> QED
    BY <1>2, <2>1, <2>2, <2>3 DEF SurviveInv, UnknownInv, Counted
<1>17. CASE Failed
  <2>1. Fail(1) /\ sent' = NoRequest /\ UNCHANGED <<fetch, disk>> /\ sent # NoRequest
    BY <1>4, <1>17 DEF Failed
  <2>2. Fail(UnderWay)
    BY <1>3, <2>1
  <2> QED
    BY <2>1, <2>2, FailSurvives
<1>18. CASE Announced \/ Polled
  <2>1. UNCHANGED <<queue, sent>>
    BY <1>18 DEF Announced, Polled
  <2>2. \/ UNCHANGED obj
        \/ \E r \in 1 .. Latest : obj' = Upsert(obj, r)
    <3>1. heard + 1 .. Latest \subseteq 1 .. Latest
      BY <1>1 DEF TypeInv, RestInv
    <3>2. poll.found # 0 => poll.found \in 1 .. Latest
      BY <1>1 DEF TypeInv, PollInv, PollState
    <3> QED
      BY <1>18, <3>1, <3>2 DEF Announced, Polled, Save
  <2>3. obj'.count = obj.count
    BY <1>1, <1>2, <2>2, UpsertType
  <2> QED
    BY <1>5, <2>1, <2>3
<1>19. CASE Relaunch
  <2>1. /\ obj'.count = IF disk.pending THEN 1 ELSE 0
        /\ Len(queue') = IF disk.pending THEN 1 ELSE 0
        /\ sent' = NoRequest
    BY <1>2, <1>19 DEF Relaunch, Object
  <2> QED
    BY <2>1 DEF Outstanding, UnderWay, NoRequest
<1> QED
  BY <1>6, <1>7, <1>8, <1>9, <1>10, <1>11, <1>12, <1>13, <1>14, <1>15, <1>16, <1>17, <1>18,
     <1>19 DEF Next

(* The counter of requests in flight never exceeds the requests there are, *)
(* so that the answers still to come bring it to zero and no object stays  *)
(* in flight for good, and it comes to miss one only when the object comes *)
(* into conflict or a revert is answered.                                  *)
THEOREM CounterIsBacked == Spec => RequestsCounted
<1>1. SurviveInv => NotOvercounted
  BY DEF SurviveInv
<1>2. TypeInv /\ TypeInv' /\ SurviveInv /\ SurviveInv' /\ [Next]_vars =>
        [obj.count = Outstanding => \/ obj'.count = Outstanding'
                                    \/ obj'.status = "conflict"
                                    \/ fetch # 0 /\ fetch' = 0]_vars
  BY NextCounts
<1> QED
  BY <1>1, <1>2, Survival, TypeInvariant, PTL DEF Spec, RequestsCounted

-----------------------------------------------------------------------------
(* What the row lets go of.                                                *)

(* An accepted request is answered with its place in the history.          *)
AcceptedInv ==
  sent.stage = "accepted" =>
    sent.answer \in 1 .. Latest /\ history[sent.answer] = sent.request.content

(* The row of an object whose requests are all counted has the content of  *)
(* the last of them.  A creation made again while edits wait on the first  *)
(* one is queued behind them, so that it says nothing until it succeeds.   *)
LastRequest == IF queue # <<>> THEN queue[Len(queue)] ELSE sent.request
LastInv ==
  obj.status = "inflight" /\ obj.count = Outstanding /\ (obj.known \/ IsUpdate(LastRequest)) =>
    disk.content = LastRequest.content \/ Had(disk.content)

(* The server keeps what it has had.                                       *)
LEMMA HistoryGrows ==
  ASSUME TypeInv, [Next]_vars
  PROVE  /\ Latest \in Nat /\ Latest' \in Nat /\ Latest <= Latest'
         /\ \A r \in 1 .. Latest : history'[r] = history[r]
         /\ \A c : Had(c) => \E r \in 1 .. Latest' : history'[r] = c
<1>1. history \in Seq(Content) /\ Latest = Len(history) /\ Latest \in Nat
  BY DEF TypeInv, HistoryInv, Latest
<1>2. UNCHANGED history \/ \E c \in Content : history' = Append(history, c)
  <2>1. CASE ServerHandles
    <3>1. sent # NoRequest
      BY <2>1 DEF ServerHandles, NoRequest
    <3>2. sent.request.content \in Content
      BY <3>1, SentCases DEF TypeInv, SentRequest, Request
    <3> QED
      BY <2>1, <3>2 DEF ServerHandles
  <2>2. CASE ForeignEdit
    <3>1. Theirs(left.foreign) \in Content
      BY DEF Theirs, Content, TypeInv, RestInv, Scenario
    <3> QED
      BY <2>2, <3>1 DEF ForeignEdit
  <2>3. CASE UNCHANGED vars
    BY <2>3 DEF vars
  <2>4. CASE Edit \/ Retry \/ Revert \/ Reverted \/ Refresh \/ Dequeue \/ LoseReply
    BY <2>4 DEF Edit, Retry, Revert, Reverted, Refresh, Dequeue, LoseReply
  <2>5. CASE Created \/ Updated \/ Rejected \/ Denied \/ Failed
    BY <2>5 DEF Created, Updated, Rejected, Denied, Failed
  <2>6. CASE Announced \/ Poll \/ PollServed \/ Polled \/ GoOffline \/ Relaunch
    BY <2>6 DEF Announced, Poll, PollServed, Polled, GoOffline, Relaunch
  <2> QED
    BY <2>1, <2>2, <2>3, <2>4, <2>5, <2>6 DEF Next
<1>3. CASE UNCHANGED history
  BY <1>1, <1>3 DEF Latest, Had
<1>4. ASSUME NEW c \in Content, history' = Append(history, c)
      PROVE  /\ Latest' = Latest + 1
             /\ \A r \in 1 .. Latest : history'[r] = history[r]
  BY <1>1, <1>4, AppendProperties DEF Latest
<1>5. CASE \E c \in Content : history' = Append(history, c)
  <2>1. Latest' = Latest + 1 /\ \A r \in 1 .. Latest : history'[r] = history[r]
    BY <1>4, <1>5
  <2>2. 1 .. Latest \subseteq 1 .. Latest'
    BY <1>1, <2>1
  <2> QED
    BY <1>1, <2>1, <2>2 DEF Had
<1> QED
  BY <1>2, <1>3, <1>5

LEMMA InitAccepted == Init => AcceptedInv
BY DEF Init, AcceptedInv, NoRequest

LEMMA NextAccepted == TypeInv /\ AcceptedInv /\ [Next]_vars => AcceptedInv'
<1> SUFFICES ASSUME TypeInv, AcceptedInv, [Next]_vars PROVE AcceptedInv'
  OBVIOUS
<1>1. /\ Latest \in Nat /\ Latest' \in Nat /\ Latest <= Latest'
      /\ \A r \in 1 .. Latest : history'[r] = history[r]
  BY HistoryGrows
<1>2. CASE UNCHANGED sent
  <2>1. 1 .. Latest \subseteq 1 .. Latest'
    BY <1>1
  <2> QED
    BY <1>1, <1>2, <2>1 DEF AcceptedInv
<1>3. CASE sent'.stage # "accepted"
  BY <1>3 DEF AcceptedInv
<1>4. CASE ServerHandles
  <2>1. sent # NoRequest /\ sent \in SentRequest
    <3>1. sent # NoRequest
      BY <1>4 DEF ServerHandles, NoRequest
    <3> QED
      BY <3>1, SentCases DEF TypeInv
  <2>2. CASE /\ history' = Append(history, sent.request.content)
             /\ sent' = [sent EXCEPT !.stage = "accepted", !.answer = Latest + 1]
    <3>1. sent'.answer = Latest + 1 /\ sent'.request = sent.request
      BY <2>1, <2>2 DEF SentRequest
    <3>2. sent.request.content \in Content
      BY <2>1 DEF SentRequest, Request
    <3>3. Latest' = Latest + 1 /\ history'[Latest + 1] = sent.request.content
      <4>1. history \in Seq(Content) /\ Latest = Len(history) /\ Latest' = Len(history')
        BY DEF TypeInv, HistoryInv, Latest
      <4> QED
        BY <2>2, <3>2, <4>1, AppendProperties
    <3>4. Latest + 1 \in 1 .. Latest'
      BY <1>1, <3>3
    <3> QED
      BY <3>1, <3>3, <3>4 DEF AcceptedInv
  <2>3. CASE \/ sent' = [sent EXCEPT !.stage = "rejected", !.answer = Latest]
             \/ sent' = [sent EXCEPT !.stage = "denied"]
    BY <1>3, <2>1, <2>3 DEF SentRequest
  <2> QED
    BY <1>4, <2>2, <2>3 DEF ServerHandles
<1>5. CASE LoseReply
  <2>1. sent \in SentRequest
    BY <1>5, SentCases DEF LoseReply, NoRequest, TypeInv
  <2>2. sent'.stage = "sent"
    BY <1>5, <2>1 DEF LoseReply, SentRequest
  <2> QED
    BY <1>3, <2>2
<1>6. CASE Dequeue
  BY <1>2, <1>3, <1>6 DEF Dequeue
<1>7. CASE Created \/ Updated \/ Rejected \/ Denied \/ Failed \/ Relaunch
  <2>1. sent' = NoRequest
    BY <1>7 DEF Created, Updated, Rejected, Denied, Failed, Relaunch
  <2> QED
    BY <1>3, <2>1 DEF NoRequest
<1>8. CASE UNCHANGED vars
  BY <1>2, <1>8 DEF vars
<1>9. CASE \/ Edit \/ Retry \/ Revert \/ Reverted \/ Refresh \/ ForeignEdit
           \/ Announced \/ Poll \/ PollServed \/ Polled \/ GoOffline
  BY <1>2, <1>9 DEF Edit, Retry, Revert, Reverted, Refresh, ForeignEdit, Announced, Poll,
                    PollServed, Polled, GoOffline
<1> QED
  BY <1>4, <1>5, <1>6, <1>7, <1>8, <1>9 DEF Next

LEMMA InitLast == Init => LastInv
<1> SUFFICES ASSUME Init PROVE LastInv
  OBVIOUS
<1>1. left.created \in BOOLEAN
  BY CloudSyncAssumption DEF Init, Scenario
<1>2. obj.status = "inflight" => left.created /\ ~obj.known
  BY <1>1 DEF Init
<1>3. CASE left.created
  <2> DEFINE r == [op |-> "create", content |-> Mine(left.edits), revision |-> 0]
  <2>1. queue = <<r>> /\ ~IsUpdate(r)
    BY <1>3 DEF Init, IsUpdate
  <2> HIDE DEF r
  <2>2. LastRequest = r
    BY <2>1 DEF LastRequest
  <2> QED
    BY <1>2, <2>1, <2>2 DEF LastInv
<1> QED
  BY <1>2, <1>3 DEF LastInv

LEMMA UpsertContent ==
  ASSUME NEW o \in Object, NEW r, Pending(o)
  PROVE  Upsert(o, r).content = o.content
BY DEF Upsert, Object

LEMMA NextLast ==
  TypeInv /\ TypeInv' /\ SurviveInv /\ SurviveInv' /\ LastInv /\ [Next]_vars => LastInv'
<1> SUFFICES ASSUME TypeInv, TypeInv', SurviveInv, SurviveInv', LastInv, [Next]_vars,
                    obj'.status = "inflight", obj'.count = Outstanding',
                    obj'.known \/ IsUpdate(LastRequest')
             PROVE  disk'.content = LastRequest'.content \/ Had(disk.content)'
  BY DEF LastInv
<1>1. history \in Seq(Content) /\ Latest \in Nat
  BY DEF TypeInv, HistoryInv, Latest
<1>2. obj \in Object /\ Counted(obj) /\ obj.count \in Nat /\ disk.content = obj.content
  BY DEF TypeInv, ObjectInv, Object, SurviveInv, RowFollows
<1>3. /\ Len(queue) \in Nat /\ Outstanding = Len(queue) + UnderWay
      /\ UnderWay = IF sent = NoRequest THEN 0 ELSE 1
  BY OutstandingType
<1>4. \A c : Had(c) => \E r \in 1 .. Latest' : history'[r] = c
  BY HistoryGrows
<1>5. sent.stage # "none" => sent # NoRequest
  BY DEF NoRequest
<1>6. obj'.count > 0 /\ Outstanding' > 0
  BY DEF TypeInv, ObjectInv, Counted
<1>7. ASSUME disk'.content = disk.content, Had(disk.content) PROVE Had(disk.content)'
  BY <1>4, <1>7 DEF Had
<1>8. ASSUME obj.status = "inflight", obj'.count = obj.count, obj'.known = obj.known,
             Outstanding' = Outstanding, LastRequest' = LastRequest,
             disk'.content = disk.content
      PROVE  disk'.content = LastRequest'.content \/ Had(disk.content)'
  BY <1>7, <1>8 DEF LastInv
<1>9. CASE \/ UNCHANGED vars \/ Revert \/ ForeignEdit \/ Poll \/ PollServed \/ GoOffline
  <2>1. UNCHANGED <<obj, queue, sent, disk>>
    BY <1>9 DEF vars, Revert, ForeignEdit, Poll, PollServed, GoOffline
  <2> QED
    BY <1>8, <2>1 DEF Outstanding, UnderWay, LastRequest
<1>10. CASE Edit \/ Retry
  <2>1. PICK r : /\ queue' = Append(queue, r)
                 /\ disk'.content = r.content
    <3>1. CASE Edit
      <4>1. disk'.content = Increment([obj EXCEPT !.content = Mine(left.edits - 1)]).content
        BY <3>1 DEF Edit, Save, Row
      <4>2. Increment([obj EXCEPT !.content = Mine(left.edits - 1)]).content = Mine(left.edits - 1)
        BY <1>2 DEF Increment, Object
      <4> QED
        BY <3>1, <4>1, <4>2 DEF Edit
    <3>2. CASE Retry
      BY <1>2, <3>2 DEF Retry
    <3> QED
      BY <1>10, <3>1, <3>2
  <2>2. queue' # <<>> /\ queue'[Len(queue')] = r
    <3>1. Len(queue') = Len(queue) + 1 /\ queue'[Len(queue) + 1] = r
      BY <1>3, <2>1 DEF TypeInv, QueueInv
    <3> QED
      BY <1>3, <3>1
  <2> QED
    BY <2>1, <2>2 DEF LastRequest
<1>11. CASE Reverted \/ Refresh
  <2>1. obj'.status = "clean"
    <3>1. CASE Reverted
      <4>1. PICK r \in fetch .. Latest : obj' = ReplaceWithConflict(Upsert(obj, r))
        BY <3>1 DEF Reverted, Save
      <4>2. r \in 1 .. Latest
        BY <1>1, <3>1, <4>1 DEF Reverted, TypeInv, RestInv
      <4> QED
        BY <1>1, <1>2, <4>1, <4>2, UpsertType, ReplaceType
    <3>2. CASE Refresh
      BY <1>1, <1>2, <3>2, ReplaceType DEF Refresh, Save
    <3> QED
      BY <1>11, <3>1, <3>2
  <2> QED
    BY <2>1
<1>12. ASSUME Fail(UnderWay), sent' = NoRequest, UNCHANGED <<fetch, disk>> PROVE FALSE
  <2>1. \A i \in 1 .. Len(queue') : ~IsUpdate(queue'[i])
    BY <1>12, Dropped DEF TypeInv, Fail
  <2>2. queue' # <<>> /\ Len(queue') \in 1 .. Len(queue')
    <3>1. Outstanding' = Len(queue') /\ Len(queue') \in Nat
      BY <1>12 DEF Outstanding, UnderWay, NoRequest, TypeInv, QueueInv
    <3> QED
      BY <1>6, <3>1
  <2>3. ~IsUpdate(LastRequest')
    BY <2>1, <2>2 DEF LastRequest
  <2>4. ~obj'.known
    BY <2>1, <2>2 DEF SurviveInv, CreationInv
  <2> QED
    BY <2>3, <2>4
<1>13. CASE Dequeue
  <2>1. CASE IsUpdate(Head(queue)) /\ ~obj.known
    <3>1. Fail(0) /\ UNCHANGED <<sent, fetch, disk>> /\ sent = NoRequest
      BY <1>13, <2>1 DEF Dequeue
    <3>2. Fail(UnderWay)
      BY <1>3, <3>1
    <3> QED
      BY <1>12, <3>1, <3>2
  <2>2. CASE ~(IsUpdate(Head(queue)) /\ ~obj.known)
    <3>1. /\ sent' = [stage |-> "sent", request |-> Head(queue), answer |-> 0]
          /\ sent = NoRequest
          /\ queue' = Tail(queue)
          /\ queue # <<>>
          /\ UNCHANGED <<obj, disk>>
      BY <1>13, <2>2 DEF Dequeue
    <3>2. /\ Len(queue') = Len(queue) - 1
          /\ \A i \in 1 .. Len(queue') : queue'[i] = queue[i + 1]
          /\ Head(queue) = queue[1]
          /\ Len(queue) >= 1
      BY <3>1, HeadTailProperties DEF TypeInv, QueueInv
    <3>3. sent'.stage = "sent" /\ sent'.request = Head(queue)
      BY <3>1
    <3>4. Outstanding' = Outstanding
      BY <1>3, <3>1, <3>2, <3>3 DEF Outstanding, UnderWay, NoRequest
    <3>5. LastRequest' = LastRequest
      <4>1. CASE Len(queue) = 1
        <5>1. queue' = <<>>
          <6>1. queue' \in Seq(Request) /\ Len(queue') = 0
            BY <3>2, <4>1 DEF TypeInv, QueueInv
          <6> QED
            BY <6>1, EmptySeq
        <5> QED
          BY <3>1, <3>2, <3>3, <4>1, <5>1 DEF LastRequest
      <4>2. CASE Len(queue) > 1
        <5>1. queue' # <<>> /\ Len(queue') \in 1 .. Len(queue')
          BY <1>3, <3>2, <4>2
        <5>2. queue'[Len(queue')] = queue[Len(queue)]
          BY <1>3, <3>2, <5>1
        <5> QED
          BY <3>1, <5>1, <5>2 DEF LastRequest
      <4> QED
        BY <1>3, <3>2, <4>1, <4>2
    <3> QED
      BY <1>8, <3>1, <3>4, <3>5
  <2> QED
    BY <2>1, <2>2
<1>14. CASE ServerHandles \/ LoseReply
  <2>1. sent # NoRequest /\ sent \in SentRequest /\ sent.stage # "none"
    BY <1>5, <1>14, SentCases DEF ServerHandles, LoseReply, TypeInv
  <2>2. /\ sent'.stage # "none" /\ sent'.request = sent.request
        /\ UNCHANGED <<obj, queue, disk>>
    BY <1>14, <2>1 DEF ServerHandles, LoseReply, SentRequest
  <2>3. Outstanding' = Outstanding /\ LastRequest' = LastRequest
    BY <2>1, <2>2 DEF Outstanding, UnderWay, LastRequest
  <2> QED
    BY <1>8, <2>2, <2>3
<1>15. ASSUME sent # NoRequest, sent' = NoRequest,
              Len(queue') = Len(queue),
              \A i \in 1 .. Len(queue) : queue'[i].content = queue[i].content,
              obj.status = "inflight", obj.count = Outstanding,
              disk'.content = disk.content
       PROVE  disk'.content = LastRequest'.content \/ Had(disk.content)'
  <2>1. Outstanding' = Len(queue)
    BY <1>15 DEF Outstanding, UnderWay, NoRequest
  <2>2. /\ queue # <<>> /\ queue' # <<>>
        /\ Len(queue) \in 1 .. Len(queue)
    BY <1>3, <1>6, <1>15, <2>1
  <2>3. LastRequest = queue[Len(queue)] /\ LastRequest'.content = LastRequest.content
    BY <1>15, <2>2 DEF LastRequest
  <2>4. IsUpdate(LastRequest)
    BY <1>15, <2>2, <2>3 DEF SurviveInv, CreationInv
  <2> QED
    BY <1>7, <1>15, <2>3, <2>4 DEF LastInv
<1>16. ~obj.known /\ sent # NoRequest => obj.status = "inflight" /\ obj.count = Outstanding
  BY <1>3 DEF SurviveInv, UnknownInv, ErroredInv, Pending
<1>17. ASSUME NEW o, NEW r, MarkSynced(o, r) PROVE disk'.content = disk.content
  BY <1>17 DEF MarkSynced, TypeInv, DiskInv, SavedRow
<1>18. CASE Created
  <2>1. sent # NoRequest /\ ~obj.known /\ sent.answer \in 0 .. Latest
    BY <1>5, <1>18, SentCases DEF Created, SurviveInv, CreationInv, TypeInv, SentRequest
  <2>2. /\ Len(queue') = Len(queue)
        /\ \A i \in 1 .. Len(queue) : queue'[i].content = queue[i].content
    BY <1>18, <2>1, RefreshQueuedType DEF Created
  <2>3. disk'.content = disk.content /\ sent' = NoRequest
    BY <1>17, <1>18 DEF Created
  <2> QED
    BY <1>15, <1>16, <2>1, <2>2, <2>3
<1>19. CASE Updated
  <2> DEFINE cleared == ClearConflict([obj EXCEPT !.revision = sent.answer])
  <2>1. sent # NoRequest /\ sent.answer \in 0 .. Latest
    BY <1>5, <1>19, SentCases DEF Updated, TypeInv, SentRequest
  <2>2. /\ Len(queue') = Len(queue)
        /\ \A i \in 1 .. Len(queue) : queue'[i].content = queue[i].content
    BY <1>19, <2>1, RefreshQueuedType DEF Updated
  <2>3. disk'.content = disk.content /\ sent' = NoRequest /\ obj' = Decrement(cleared, 1, "clean")
    BY <1>17, <1>19 DEF Updated
  <2>4. /\ cleared \in Object /\ Counted(cleared)
        /\ cleared.status = obj.status /\ cleared.count = obj.count
    <3>1. /\ [obj EXCEPT !.revision = sent.answer] \in Object
          /\ Counted([obj EXCEPT !.revision = sent.answer])
          /\ [obj EXCEPT !.revision = sent.answer].status = obj.status
          /\ [obj EXCEPT !.revision = sent.answer].count = obj.count
      BY <1>2, <2>1 DEF Object, Counted
    <3> QED
      BY <1>1, <3>1, ClearConflictType
  <2> HIDE DEF cleared
  <2>5. obj.status = "inflight" /\ obj.count = obj'.count + 1
    <3>1. 1 \in Nat /\ "clean" \in Statuses \ {"inflight"}
      BY DEF Statuses
    <3>2. /\ cleared.status # "inflight" => obj' = cleared
          /\ cleared.status = "inflight" /\ cleared.count > 1 => obj'.count = cleared.count - 1
          /\ cleared.status = "inflight" /\ cleared.count <= 1 => obj'.status = "clean"
      BY <2>3, <2>4, <3>1, DecrementType
    <3> QED
      BY <1>2, <2>4, <3>2
  <2>6. Outstanding = Outstanding' + 1
    BY <1>3, <2>1, <2>2, <2>3 DEF Outstanding, UnderWay, NoRequest
  <2> QED
    BY <1>15, <2>1, <2>2, <2>3, <2>5, <2>6
<1>20. CASE Rejected
  <2>1. CASE obj' = [obj EXCEPT !.conflict = sent.answer, !.status = "conflict", !.count = 0]
    BY <1>2, <2>1 DEF Object
  <2>2. CASE Save(Decrement(Apply(obj, sent.answer), 1, "clean"))
    <3>1. sent.answer \in 1 .. Latest
      BY <1>1, <1>5, <1>20, SentCases DEF Rejected, TypeInv, SentInv, SentRequest
    <3>2. disk'.content = history[sent.answer]
      <4>1. Apply(obj, sent.answer) \in Object /\ Counted(Apply(obj, sent.answer))
        BY <1>1, <1>2, <3>1, ApplyType
      <4>2. Apply(obj, sent.answer).content = history[sent.answer]
        BY <1>2 DEF Apply, Object
      <4>3. 1 \in Nat /\ "clean" \in Statuses \ {"inflight"}
        BY DEF Statuses
      <4> QED
        BY <2>2, <4>1, <4>2, <4>3, DecrementType DEF Save, Row
    <3> QED
      BY <1>20, <3>1, <3>2 DEF Rejected, Had, Latest
  <2> QED
    BY <1>20, <2>1, <2>2 DEF Rejected
<1>21. CASE Denied
  <2>1. sent # NoRequest /\ ~obj.known /\ sent' = NoRequest
    BY <1>5, <1>21 DEF Denied, SurviveInv, CreationInv
  <2>2. CASE /\ Save([obj EXCEPT !.team = FALSE])
             /\ queue' = Append(queue, [op |-> "create", content |-> obj.content, revision |-> 0])
    <3> DEFINE q == [op |-> "create", content |-> obj.content, revision |-> 0]
    <3>1. disk'.content = obj.content
      BY <1>2, <2>2 DEF Save, Row, Object
    <3>2. queue' # <<>> /\ queue'[Len(queue')] = q
      <4>1. q \in Request
        BY <1>2 DEF Object, Request
      <4>2. queue' = Append(queue, q)
        BY <2>2
      <4> HIDE DEF q
      <4>3. Len(queue') = Len(queue) + 1 /\ queue'[Len(queue) + 1] = q
        BY <1>3, <4>1, <4>2 DEF TypeInv, QueueInv
      <4> QED
        BY <1>3, <4>3
    <3> QED
      BY <3>1, <3>2 DEF LastRequest
  <2>3. CASE UNCHANGED <<queue, disk>>
    BY <1>15, <1>16, <2>1, <2>3
  <2> QED
    BY <1>21, <2>2, <2>3 DEF Denied
<1>22. CASE Failed
  <2>1. Fail(1) /\ sent' = NoRequest /\ UNCHANGED <<fetch, disk>> /\ sent # NoRequest
    BY <1>5, <1>22 DEF Failed
  <2>2. Fail(UnderWay)
    BY <1>3, <2>1
  <2> QED
    BY <1>12, <2>1, <2>2
<1>23. CASE Announced \/ Polled
  <2>1. UNCHANGED <<queue, sent>>
    BY <1>23 DEF Announced, Polled
  <2>2. \/ UNCHANGED <<obj, disk>>
        \/ Save(obj)
        \/ \E r \in 1 .. Latest : Save(Upsert(obj, r))
    <3>1. heard + 1 .. Latest \subseteq 1 .. Latest
      BY <1>1 DEF TypeInv, RestInv
    <3>2. poll.found # 0 => poll.found \in 1 .. Latest
      BY <1>1 DEF TypeInv, PollInv, PollState
    <3> QED
      BY <1>23, <3>1, <3>2 DEF Announced, Polled
  <2>3. /\ obj'.status = obj.status /\ obj'.count = obj.count /\ obj'.known = obj.known
        /\ Pending(obj) => disk'.content = disk.content
    BY <1>1, <1>2, <2>2, UpsertType, UpsertContent DEF Save, Row
  <2> QED
    BY <1>8, <2>1, <2>3 DEF Outstanding, UnderWay, LastRequest, Pending
<1>24. CASE Relaunch
  <2> DEFINE q == [op |-> "update", content |-> disk.content, revision |-> disk.revision]
  <2>1. disk.pending /\ disk' = disk
    BY <1>2, <1>24 DEF Relaunch, Object
  <2>2. queue' = <<q>>
    BY <1>24, <2>1 DEF Relaunch
  <2>3. LastRequest' = q
    BY <2>2 DEF LastRequest
  <2> QED
    BY <2>1, <2>3
<1> QED
  BY <1>9, <1>10, <1>11, <1>13, <1>14, <1>18, <1>19, <1>20, <1>21, <1>22, <1>23, <1>24 DEF Next

(* Unsent content is let go of, of an object the server knows, not in      *)
(* conflict, all of whose requests are counted, only for another edit, a   *)
(* revert or a rejection.                                                  *)
LEMMA NextKeeps ==
  ASSUME TypeInv, SurviveInv, AcceptedInv, LastInv, [Next]_vars, Unsent,
         obj.status # "conflict", obj.count >= Outstanding, obj.known
  PROVE  \/ disk'.pending /\ disk'.content = disk.content
         \/ left'.edits < left.edits
         \/ fetch # 0 /\ fetch' = 0
         \/ sent.stage = "rejected" /\ sent' = NoRequest
<1> DEFINE Kept == disk'.pending /\ disk'.content = disk.content
<1>1. history \in Seq(Content) /\ Latest \in Nat
  BY DEF TypeInv, HistoryInv, Latest
<1>2. /\ obj \in Object /\ Counted(obj) /\ obj.count \in Nat
      /\ disk.content = obj.content
      /\ Pending(obj)
  BY DEF TypeInv, ObjectInv, Object, SurviveInv, RowFollows, Unsent
<1>3. /\ Len(queue) \in Nat /\ Outstanding = Len(queue) + UnderWay
      /\ UnderWay = IF sent = NoRequest THEN 0 ELSE 1
  BY OutstandingType
<1>4. sent.stage # "none" => sent # NoRequest
  BY DEF NoRequest
<1>5. UNCHANGED disk => Kept
  BY DEF Unsent
<1>6. CASE Edit
  <2>1. left.edits \in Nat
    BY DEF TypeInv, RestInv, Scenario
  <2>2. left'.edits = left.edits - 1
    BY <1>6 DEF Edit, TypeInv, RestInv, Scenario
  <2> QED
    BY <2>1, <2>2
<1>7. CASE Reverted \/ Rejected
  BY <1>7 DEF Reverted, Rejected
<1>8. CASE Refresh
  BY <1>2, <1>8 DEF Refresh
<1>9. CASE Created \/ Denied
  BY <1>4, <1>9 DEF Created, Denied, SurviveInv, CreationInv
<1>10. CASE Updated
  <2> DEFINE cleared == ClearConflict([obj EXCEPT !.revision = sent.answer])
             d == Decrement(cleared, 1, "clean")
  <2>1. sent # NoRequest /\ sent.answer \in 0 .. Latest
    BY <1>4, <1>10, SentCases DEF Updated, TypeInv, SentRequest
  <2>2. obj.status = "inflight" /\ obj.count = Outstanding
    BY <1>2, <1>3, <2>1 DEF Counted, SurviveInv, NotOvercounted
  <2>3. MarkSynced(d, sent.answer)
    BY <1>10 DEF Updated
  <2>4. /\ cleared \in Object /\ Counted(cleared)
        /\ cleared.status = obj.status /\ cleared.count = obj.count
    <3>1. /\ [obj EXCEPT !.revision = sent.answer] \in Object
          /\ Counted([obj EXCEPT !.revision = sent.answer])
          /\ [obj EXCEPT !.revision = sent.answer].status = obj.status
          /\ [obj EXCEPT !.revision = sent.answer].count = obj.count
      BY <1>2, <2>1 DEF Object, Counted
    <3> QED
      BY <1>1, <3>1, ClearConflictType
  <2>5. d = Decrement(cleared, 1, "clean")
    OBVIOUS
  <2> HIDE DEF cleared, d
  <2>6. CASE d.status = "inflight"
    BY <1>5, <2>3, <2>6 DEF MarkSynced
  <2>7. ASSUME d.status # "inflight" PROVE FALSE
    <3>1. obj.count <= 1
      <4>1. 1 \in Nat /\ "clean" \in Statuses \ {"inflight"}
        BY DEF Statuses
      <4>2. cleared.status = "inflight" /\ cleared.count > 1 => d.status = "inflight"
        BY <2>4, <2>5, <4>1, DecrementType
      <4> QED
        BY <1>2, <2>2, <2>4, <2>7, <4>2
    <3>2. queue = <<>>
      <4>1. queue \in Seq(Request) /\ Len(queue) = 0
        BY <1>3, <2>1, <2>2, <3>1 DEF TypeInv, QueueInv
      <4> QED
        BY <4>1, EmptySeq
    <3>3. disk.content = sent.request.content \/ Had(disk.content)
      BY <2>2, <3>2 DEF LastInv, LastRequest
    <3>4. Had(disk.content)
      BY <1>10, <3>3 DEF Updated, AcceptedInv, Had
    <3> QED
      BY <3>4 DEF Unsent
  <2> QED
    BY <2>6, <2>7
<1>11. CASE Announced \/ Polled
  <2>1. \/ UNCHANGED disk
        \/ Save(obj)
        \/ \E r \in 1 .. Latest : Save(Upsert(obj, r))
    <3>1. heard + 1 .. Latest \subseteq 1 .. Latest
      BY <1>1 DEF TypeInv, RestInv
    <3>2. poll.found # 0 => poll.found \in 1 .. Latest
      BY <1>1 DEF TypeInv, PollInv, PollState
    <3> QED
      BY <1>11, <3>1, <3>2 DEF Announced, Polled
  <2>2. Save(obj) => Kept
    BY <1>2 DEF Save, Row
  <2>3. ASSUME NEW r \in 1 .. Latest, Save(Upsert(obj, r)) PROVE Kept
    <3>1. Upsert(obj, r).status = obj.status /\ Upsert(obj, r).content = obj.content
      BY <1>1, <1>2, UpsertType, UpsertContent
    <3> QED
      BY <1>2, <2>3, <3>1 DEF Save, Row, Pending
  <2> QED
    BY <1>5, <2>1, <2>2, <2>3
<1>12. CASE \/ UNCHANGED vars \/ Retry \/ Revert \/ Dequeue \/ ServerHandles \/ LoseReply
            \/ Failed \/ ForeignEdit \/ Poll \/ PollServed \/ GoOffline \/ Relaunch
  BY <1>5, <1>12 DEF vars, Retry, Revert, Dequeue, ServerHandles, LoseReply, Failed, ForeignEdit,
                     Poll, PollServed, GoOffline, Relaunch
<1> QED
  BY <1>6, <1>7, <1>8, <1>9, <1>10, <1>11, <1>12 DEF Next

(* SQLite has the content the user sees, pending while its object is in    *)
(* flight or errored.  What the server has never had stays in the row of   *)
(* an object it knows, pending, until another edit, a revert or a          *)
(* rejection replaces it, unless the object is in conflict or its counter  *)
(* misses a request.                                                       *)
THEOREM UnsentIsKept == Spec => UnsentStaysPending
<1> DEFINE Inv == TypeInv /\ SurviveInv /\ AcceptedInv /\ LastInv
<1>1. Spec => []Inv
  <2>1. Init => Inv
    BY InitType, InitSurvives, InitAccepted, InitLast
  <2>2. Inv /\ [Next]_vars => Inv'
    BY NextType, NextSurvives, NextAccepted, NextLast
  <2> QED
    BY <2>1, <2>2, PTL DEF Spec
<1>2. Inv => RowFollows
  BY DEF SurviveInv
<1>3. Inv /\ [Next]_vars =>
        [Unsent =>
           \/ disk'.pending /\ disk'.content = disk.content
           \/ left'.edits < left.edits
           \/ fetch # 0 /\ fetch' = 0
           \/ sent.stage = "rejected" /\ sent' = NoRequest
           \/ obj.status = "conflict"
           \/ obj.count < Outstanding
           \/ ~obj.known]_vars
  <2>1. Inv => obj.count \in Nat /\ Outstanding \in Nat
    BY OutstandingType DEF TypeInv, ObjectInv, Object
  <2>2. Inv => obj.count < Outstanding \/ obj.count >= Outstanding
    BY <2>1
  <2> QED
    BY <2>2, NextKeeps
<1> QED
  BY <1>1, <1>2, <1>3, PTL DEF Spec, UnsentStaysPending
=============================================================================
