------------------------------ MODULE CloudSync ------------------------------
(***************************************************************************)
(* One object of the drive and its copy on the server: what UpdateManager  *)
(* and CloudModel do with edits, with the answers of the requests that     *)
(* SyncQueue makes for it, with the changes others make, and with SQLite   *)
(* (server/cloud_objects/update_manager.rs, cloud_object/mod.rs and        *)
(* cloud_object/model/persistence.rs).                                     *)
(*                                                                         *)
(* `history` is the server's: a revision is a place in it, 0 is none.      *)
(* Whatever carries an object of the server carries its revision, which    *)
(* determines the content.  SyncQueue appears as the requests of this      *)
(* object, made one at a time and in order; that it does so is shown there.*)
(***************************************************************************)
EXTENDS Integers, Sequences, FiniteSets

CONSTANT Scenarios  \* which kind of object, and how much happens to it

Kinds == {"notebook", "workflow", "enum", "preference"}
Statuses == {"clean", "inflight", "conflict", "errored"}

Scenario == [kind : Kinds, created : BOOLEAN, edits : Nat, foreign : Nat,
             offline : Nat, losses : Nat, crashes : Nat]

ASSUME CloudSyncAssumption == Scenarios \subseteq Scenario

VARIABLES
  obj,       \* the object in CloudModel
  queue,     \* its requests in SyncQueue, in order
  sent,      \* the request under way
  running,   \* SyncQueue.should_dequeue
  poll,      \* the poll for changed objects under way
  fetch,     \* the latest revision when a revert asked for one; 0 for none
  disk,      \* its row in SQLite
  history,   \* external: the contents the server has had
  heard,     \* external: the latest revision announced to this client
  left       \* the scenario, as much of it as is still to come

vars == <<obj, queue, sent, running, poll, fetch, disk, history, heard, left>>

(* Contents are told apart by who wrote them and when.                     *)
Content == {"mine", "theirs"} \X Nat
Mine(n) == <<"mine", n>>
Theirs(n) == <<"theirs", n>>

Request == [op : {"create", "update"}, content : Content, revision : Nat]
NoRequest == [stage |-> "none"]
NoPoll == [stage |-> "none", base |-> 0, found |-> 0]

Latest == Len(history)
UnderWay == IF sent.stage = "none" THEN 0 ELSE 1
Outstanding == Len(queue) + UnderWay

(* Preferences are sent without a revision: the last write wins.  A        *)
(* workflow or an enum (or env vars) is sent with the revision its editor  *)
(* was opened on, a notebook with the present one.                         *)
LastWriteWins == left.kind = "preference"
HasEditor == left.kind \in {"workflow", "enum"}

(* has_pending_content_changes                                             *)
Pending(o) == o.status \in {"inflight", "errored"}

(* upsert_event: the row of the object as it is                            *)
Row(o) == [content |-> o.content, revision |-> o.revision, pending |-> Pending(o)]

Init ==
  /\ left \in Scenarios
  /\ history = IF left.created THEN <<>> ELSE <<Mine(left.edits)>>
  /\ obj = [content |-> Mine(left.edits), revision |-> Latest, conflict |-> 0,
            known |-> ~left.created, team |-> left.created,
            status |-> IF left.created THEN "inflight" ELSE "clean",
            count |-> IF left.created THEN 1 ELSE 0]
  /\ queue = IF left.created
             THEN <<[op |-> "create", content |-> Mine(left.edits), revision |-> 0]>>
             ELSE <<>>
  /\ sent = NoRequest
  /\ running = TRUE
  /\ poll = NoPoll
  /\ fetch = 0
  /\ disk = Row(obj)
  /\ heard = Latest

-----------------------------------------------------------------------------
(* What the handlers do to the object                                      *)

(* Fault: a request more is counted as one in all.                         *)
IncrementOnce(o) == [o EXCEPT !.status = "inflight", !.count = 1]

(* increment_in_flight_request_count                                       *)
Increment(o) ==
  [o EXCEPT !.status = "inflight",
            !.count = IF o.status = "inflight" THEN @ + 1 ELSE 1]

(* Fault: the last request that returns leaves the object in flight.       *)
DecrementToZero(o, n, status) ==
  IF o.status # "inflight" THEN o
  ELSE IF o.count >= n THEN [o EXCEPT !.count = @ - n]
  ELSE [o EXCEPT !.status = status, !.count = 0]

(* decrement_in_flight_request_count, for n requests                       *)
Decrement(o, n, status) ==
  IF o.status # "inflight" THEN o
  ELSE IF o.count > n THEN [o EXCEPT !.count = @ - n]
  ELSE [o EXCEPT !.status = status, !.count = 0]

Apply(o, r) == [o EXCEPT !.content = history[r], !.revision = r]

(* Fault: a change made elsewhere is applied over this client's.           *)
UpsertOver(o, r) == Apply(o, r)

(* update_from_server_object: a change made elsewhere is applied, or is a  *)
(* conflict if this client has changes of its own or a conflict already.   *)
Upsert(o, r) ==
  IF Pending(o) \/ o.conflict # 0 THEN [o EXCEPT !.conflict = r] ELSE Apply(o, r)

(* replace_object_with_conflict, the method of the object                  *)
ReplaceWithConflict(o) ==
  LET clean == [o EXCEPT !.status = "clean", !.count = 0, !.conflict = 0]
  IN IF o.conflict = 0 THEN clean ELSE Apply(clean, o.conflict)

(* check_and_maybe_clear_current_conflict                                  *)
ClearConflict(o) == [o EXCEPT !.conflict = IF @ <= o.revision THEN 0 ELSE @]

Save(o) ==
  /\ obj' = o
  /\ disk' = Row(o)

(* MarkObjectAsSynced, once no request is counted any more                 *)
MarkSynced(o, r) ==
  disk' = IF o.status = "inflight" THEN disk
          ELSE [disk EXCEPT !.pending = FALSE, !.revision = r]

-----------------------------------------------------------------------------
(* The user                                                                *)

(* The revisions an edit may be based on                                   *)
EditedFrom == IF HasEditor /\ obj.revision > 0 THEN 1 .. obj.revision ELSE {obj.revision}

(* update_object.  A notebook being edited when it comes into conflict     *)
(* stays open for editing.                                                 *)
Edit ==
  /\ left.edits > 0
  /\ LET content == Mine(left.edits - 1)
     IN /\ Save(Increment([obj EXCEPT !.content = content]))
        /\ \E r \in EditedFrom :
             queue' = Append(queue, [op |-> "update", content |-> content, revision |-> r])
  /\ left' = [left EXCEPT !.edits = @ - 1]
  /\ UNCHANGED <<sent, running, poll, fetch, history, heard>>

(* resync_object                                                           *)
Retry ==
  /\ obj.status = "errored"
  /\ obj' = Increment(obj)
  /\ queue' = Append(queue, [op |-> IF obj.known THEN "update" ELSE "create",
                             content |-> obj.content, revision |-> obj.revision])
  /\ UNCHANGED <<sent, running, poll, fetch, disk, history, heard, left>>

(* revert_failed_object: the server's version is asked for...              *)
Revert ==
  /\ fetch = 0
  /\ obj.status = "errored"
  /\ obj.known
  /\ fetch' = Latest
  /\ UNCHANGED <<obj, queue, sent, running, poll, disk, history, heard, left>>

(* ... and, from whenever it was served, overwrites whatever the object is *)
(* by then.                                                                *)
Reverted ==
  /\ fetch # 0
  /\ \E r \in fetch .. Latest : Save(ReplaceWithConflict(Upsert(obj, r)))
  /\ fetch' = 0
  /\ UNCHANGED <<queue, sent, running, poll, history, heard, left>>

(* The conflict banner of a notebook offers to load the server's version.  *)
Refresh ==
  /\ left.kind = "notebook"
  /\ obj.conflict # 0
  /\ ~Pending(obj)
  /\ Save(ReplaceWithConflict(obj))
  /\ UNCHANGED <<queue, sent, running, poll, fetch, history, heard, left>>

-----------------------------------------------------------------------------
(* Requests                                                                *)

IsUpdate(request) == request.op = "update"

Updates == {i \in DOMAIN queue : IsUpdate(queue[i])}
Others == DOMAIN queue \ Updates

(* What is left of the queue, in its order, without the updates            *)
DropUpdates ==
  \E place \in [1 .. Cardinality(Others) -> Others] :
    /\ \A i, j \in DOMAIN place : i < j => place[i] < place[j]
    /\ queue' = [i \in DOMAIN place |-> queue[place[i]]]

(* A request fails with the updates that wait on it; handle_failure_response *)
(* is called for each.                                                     *)
Fail(n) ==
  /\ obj' = Decrement(obj, n + Cardinality(Updates), "errored")
  /\ DropUpdates

(* An update of an object the server does not know fails when it is        *)
(* dequeued.                                                               *)
Dequeue ==
  /\ running
  /\ sent = NoRequest
  /\ queue # <<>>
  /\ IF IsUpdate(Head(queue)) /\ ~obj.known
     THEN Fail(0) /\ UNCHANGED sent
     ELSE /\ sent' = [stage |-> "sent", request |-> Head(queue), answer |-> 0]
          /\ queue' = Tail(queue)
          /\ UNCHANGED obj
  /\ UNCHANGED <<running, poll, fetch, disk, history, heard, left>>

(* External: an update is accepted if it names the latest revision or none.*)
(* An enum without a revision is not sent (send_update_request).           *)
Accepts(request) ==
  \/ request.op = "create"
  \/ LastWriteWins
  \/ request.revision \in {0, Latest} /\ (left.kind = "enum" => request.revision # 0)
Rejects(request) == ~Accepts(request) /\ request.revision # 0

ServerHandles ==
  /\ sent.stage = "sent"
  /\ \/ /\ Accepts(sent.request)
        /\ history' = Append(history, sent.request.content)
        /\ sent' = [sent EXCEPT !.stage = "accepted", !.answer = Latest + 1]
     \/ /\ Rejects(sent.request)
        /\ sent' = [sent EXCEPT !.stage = "rejected", !.answer = Latest]
        /\ UNCHANGED history
     \/ /\ sent.request.op = "create"
        /\ sent' = [sent EXCEPT !.stage = "denied"]
        /\ UNCHANGED history
  /\ UNCHANGED <<obj, queue, running, poll, fetch, disk, heard, left>>

(* The reply to an update is lost, and spawn_with_retry_on_error makes     *)
(* another attempt.                                                        *)
LoseReply ==
  /\ sent.stage \in {"accepted", "rejected"}
  /\ IsUpdate(sent.request)
  /\ left.losses > 0
  /\ sent' = [sent EXCEPT !.stage = "sent", !.answer = 0]
  /\ left' = [left EXCEPT !.losses = @ - 1]
  /\ UNCHANGED <<obj, queue, running, poll, fetch, disk, history, heard>>

(* update_items_with_new_revision                                          *)
RefreshQueued(r) ==
  queue' = IF left.kind \in {"notebook", "workflow"}
           THEN [i \in DOMAIN queue |->
                   IF IsUpdate(queue[i]) THEN [queue[i] EXCEPT !.revision = r] ELSE queue[i]]
           ELSE queue

Created ==
  /\ sent.stage = "accepted"
  /\ ~IsUpdate(sent.request)
  /\ LET o == Decrement([obj EXCEPT !.known = TRUE], 1, "clean")
     IN /\ MarkSynced(o, sent.answer)
        /\ obj' = [o EXCEPT !.revision = sent.answer]
  /\ RefreshQueued(sent.answer)
  /\ sent' = NoRequest
  /\ UNCHANGED <<running, poll, fetch, history, heard, left>>

Updated ==
  /\ sent.stage = "accepted"
  /\ IsUpdate(sent.request)
  /\ LET o == Decrement(ClearConflict([obj EXCEPT !.revision = sent.answer]), 1, "clean")
     IN /\ MarkSynced(o, sent.answer)
        /\ obj' = o
  /\ RefreshQueued(sent.answer)
  /\ sent' = NoRequest
  /\ UNCHANGED <<running, poll, fetch, history, heard, left>>

(* handle_conflicting_object                                               *)
Rejected ==
  /\ sent.stage = "rejected"
  /\ \/ /\ left.kind = "notebook"
        /\ obj' = [obj EXCEPT !.conflict = sent.answer, !.status = "conflict", !.count = 0]
        /\ UNCHANGED disk
     \/ /\ HasEditor
        /\ Save(Decrement(Apply(obj, sent.answer), 1, "clean"))
  /\ sent' = NoRequest
  /\ UNCHANGED <<queue, running, poll, fetch, history, heard, left>>

(* handle_creation_denied_response: an object refused by a team moves to   *)
(* the personal drive and is created there.                                *)
Denied ==
  /\ sent.stage = "denied"
  /\ \/ /\ obj.team
        /\ Save([obj EXCEPT !.team = FALSE])
        /\ queue' = Append(queue, [op |-> "create", content |-> obj.content, revision |-> 0])
     \/ /\ ~obj.team
        /\ obj' = Decrement(obj, 1, "errored")
        /\ UNCHANGED <<queue, disk>>
  /\ sent' = NoRequest
  /\ UNCHANGED <<running, poll, fetch, history, heard, left>>

(* All attempts have failed.                                               *)
Failed ==
  /\ sent.stage = "sent"
  /\ Fail(1)
  /\ sent' = NoRequest
  /\ UNCHANGED <<running, poll, fetch, disk, history, heard, left>>

-----------------------------------------------------------------------------
(* Changes from the server                                                 *)

(* External: somebody else edits the object.                               *)
ForeignEdit ==
  /\ left.foreign > 0
  /\ history # <<>>
  /\ history' = Append(history, Theirs(left.foreign))
  /\ left' = [left EXCEPT !.foreign = @ - 1]
  /\ UNCHANGED <<obj, queue, sent, running, poll, fetch, disk, heard>>

(* handle_cloud_object_changed_event.  Announcements come in order, though *)
(* not all of them, of this client's own updates too.  One that brings no  *)
(* newer revision may bring newer metadata, and the row is then saved.  A  *)
(* copy made from one that overtakes the reply to the creation is replaced *)
(* by that reply.                                                          *)
Announced ==
  /\ \E r \in heard + 1 .. Latest :
       /\ heard' = r
       /\ \/ obj.known /\ 0 < obj.revision /\ obj.revision < r /\ Save(Upsert(obj, r))
          \/ obj.known /\ ~(0 < obj.revision /\ obj.revision < r) /\ Save(obj)
          \/ ~(obj.known /\ 0 < obj.revision /\ obj.revision < r) /\ UNCHANGED <<obj, disk>>
  /\ UNCHANGED <<queue, sent, running, poll, fetch, history, left>>

(* poll_for_updated_objects names the revisions this client has; the       *)
(* server returns what has a later one.                                    *)
Poll ==
  /\ poll = NoPoll
  /\ poll' = [stage |-> "asked", base |-> IF obj.known THEN obj.revision ELSE 0, found |-> 0]
  /\ UNCHANGED <<obj, queue, sent, running, fetch, disk, history, heard, left>>

PollServed ==
  /\ poll.stage = "asked"
  /\ poll' = [stage |-> "served", base |-> 0,
              found |-> IF poll.base < Latest THEN Latest ELSE 0]
  /\ UNCHANGED <<obj, queue, sent, running, fetch, disk, history, heard, left>>

(* on_changed_objects_fetched: applied whatever the revision has become.   *)
Polled ==
  /\ poll.stage = "served"
  /\ IF obj.known /\ poll.found # 0 THEN Save(Upsert(obj, poll.found)) ELSE UNCHANGED <<obj, disk>>
  /\ poll' = NoPoll
  /\ running' = TRUE
  /\ UNCHANGED <<queue, sent, fetch, history, heard, left>>

-----------------------------------------------------------------------------
(* Interruptions                                                           *)

GoOffline ==
  /\ left.offline > 0
  /\ running' = FALSE
  /\ poll' = NoPoll
  /\ left' = [left EXCEPT !.offline = @ - 1]
  /\ UNCHANGED <<obj, queue, sent, fetch, disk, history, heard>>

(* The program stops and starts again: an object pending in SQLite is      *)
(* in flight again, as one request that waits for the first poll.          *)
Relaunch ==
  /\ left.crashes > 0
  /\ obj.known
  /\ obj' = [obj EXCEPT !.content = disk.content, !.revision = disk.revision, !.conflict = 0,
                        !.status = IF disk.pending THEN "inflight" ELSE "clean",
                        !.count = IF disk.pending THEN 1 ELSE 0]
  /\ queue' = IF disk.pending
              THEN <<[op |-> "update", content |-> disk.content, revision |-> disk.revision]>>
              ELSE <<>>
  /\ sent' = NoRequest
  /\ running' = FALSE
  /\ poll' = NoPoll
  /\ fetch' = 0
  /\ heard' = Latest
  /\ left' = [left EXCEPT !.crashes = @ - 1]
  /\ UNCHANGED <<disk, history>>

Next ==
  \/ Edit \/ Retry \/ Revert \/ Reverted \/ Refresh
  \/ Dequeue \/ ServerHandles \/ LoseReply
  \/ Created \/ Updated \/ Rejected \/ Denied \/ Failed
  \/ ForeignEdit \/ Announced \/ Poll \/ PollServed \/ Polled
  \/ GoOffline \/ Relaunch

Spec == Init /\ [][Next]_vars

-----------------------------------------------------------------------------
(* Properties                                                              *)

(* What the state is made of.  No copy is of a revision the server has not *)
(* had and no request names one, and an object is in flight exactly while  *)
(* requests of it are counted (PendingContentChanges::InFlight holds a     *)
(* NumInFlightRequests).                                                   *)
TypeOK ==
  /\ left \in Scenario
  /\ obj \in [content : Content, revision : 0 .. Latest, conflict : 0 .. Latest,
              known : BOOLEAN, team : BOOLEAN, status : Statuses, count : Nat]
  /\ obj.count > 0 <=> obj.status = "inflight"
  /\ queue \in Seq(Request)
  /\ \A i \in DOMAIN queue : queue[i].revision <= Latest
  /\ sent.stage \in {"none", "sent", "accepted", "rejected", "denied"}
  /\ sent.stage # "none" =>
       /\ sent.request \in Request
       /\ sent.request.revision <= Latest
       /\ sent.answer \in 0 .. Latest
  /\ running \in BOOLEAN
  /\ poll \in [stage : {"none", "asked", "served"}, base : 0 .. Latest, found : 0 .. Latest]
  /\ fetch \in 0 .. Latest
  /\ disk \in [content : Content, revision : 0 .. Latest, pending : BOOLEAN]
  /\ history \in Seq(Content)
  /\ heard \in 0 .. Latest

(* An object's counter has no request that is neither queued nor under way. *)
NotOvercounted == obj.status = "inflight" => obj.count <= Outstanding

(* The counter in an object's status, which every handler of an answer     *)
(* decrements, never exceeds the requests in the queue and under way,      *)
(* whatever was denied, failed with others or overtaken by a conflict, a   *)
(* revert or a relaunch: else the object would stay in flight for good,    *)
(* its row pending, and take every later change of others for a conflict.  *)
(* Nor does it come to miss one of them, which would clear the object too  *)
(* early, unless the object comes into conflict, or a revert is answered   *)
(* after a retry or an edit has made new requests.                         *)
RequestsCounted ==
  /\ []NotOvercounted
  /\ [][obj.count = Outstanding =>
           \/ obj'.count = Outstanding'
           \/ obj'.status = "conflict"
           \/ fetch # 0 /\ fetch' = 0]_vars

(* SQLite has the content the user sees.  The row of an object in flight   *)
(* or errored is pending, so that a relaunch sends its content again       *)
(* (from_cached_objects); it stays pending longer than its object only     *)
(* while the object is in conflict.                                        *)
RowFollows ==
  /\ disk.content = obj.content
  /\ Pending(obj) => disk.pending
  /\ disk.pending /\ ~Pending(obj) => obj.status = "conflict"

(* The row has content the server has never had, and a relaunch sends it.  *)
Had(content) == \E r \in 1 .. Latest : history[r] = content
Unsent == disk.pending /\ ~Had(disk.content)

(* The row follows the object, and content the server has never had stays  *)
(* in it, pending, until the user edits the object again, or the server's  *)
(* version is to replace it: it is asked for by a revert, or given with    *)
(* the rejection of an edit, if need be of an earlier one.  No success     *)
(* marks it as synced for an earlier request, and no change of others is   *)
(* put over it.  That is so of an object the server knows, that is not in  *)
(* conflict, and whose counter has all its requests.  The code lets go of  *)
(* unsent content in each of the other cases:                              *)
(*  - in conflict, the user may load the server's version (Refresh), but   *)
(*    the row is saved for a mere change of metadata too (Announced);      *)
(*  - after a revert or a conflict the counter may miss a request, and the *)
(*    success of that one is taken for the success of a later edit;        *)
(*  - while the creation is denied and made again, an edit fails with an   *)
(*    earlier one and the creation marks the row without it.               *)
UnsentStaysPending ==
  /\ []RowFollows
  /\ [][Unsent =>
           \/ disk'.pending /\ disk'.content = disk.content
           \/ left'.edits < left.edits
           \/ fetch # 0 /\ fetch' = 0
           \/ sent.stage = "rejected" /\ sent' = NoRequest
           \/ obj.status = "conflict"
           \/ obj.count < Outstanding
           \/ ~obj.known]_vars
=============================================================================
