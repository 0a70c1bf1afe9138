# A TLA+ model of twarp

This directory models parts of twarp, a terminal with a cloud drive, shared
sessions and agent panes (Rust; `app/` is the program, `crates/` its
libraries).  The modules are checked with TLC on small instances; theorems
about them are proved with TLAPS for every value of the constants.
`PROJECT.json` lists components, runs, mutants, the lines each definition
models, findings, hazards and theorems.

## The system

Almost all of twarp's own logic runs on one main thread.  Models and views own
their state; user actions, timers, and the results of futures and streams arrive
as callbacks that run to completion one at a time.  The hard behaviour is
therefore not data races but *orders of callbacks*: a request is in flight while
the state it was built from changes, results come back in any order, a view or
window disappears between a call and its answer, the program stops between two
writes.  SQLite is written by a thread of its own, fed by a channel.

### Inventory

| Component | State | Operations and partners | What makes it hard | What makes it correct | Module |
|---|---|---|---|---|---|
| Sync queue (`app/src/server/sync_queue.rs`) | queue, dependencies, requests in flight, client-to-server ids | enqueue (update manager), start/stop (network, initial load), dequeue, callbacks of requests; events to the update manager | concurrent requests, two names per object, failures that cascade, a bulk reply applied piecemeal | writes of one object are serial; dependants see their dependency's outcome; every item is reported once; nothing is forgotten | `SyncQueue` |
| Scheduler (`app/src/automation/scheduler.rs`) | tasks, run history, queued and live attempts | tick, editor page, launch pass; hands fires to the workspace; told of session ends | no window, windows closing, sessions that end twice or never, relaunch with runs unfinished | attempts do not overlap, one retry, final outcomes, tables mirror memory | `Scheduler` |
| Agent pane (`claude_code_view.rs`, `crates/claude_code`) | transcript, session id, epoch, process, queue of messages | submit, stop, change mode, spawn and stream callbacks | late events of killed sessions, permission requests held open | no event of an old session is applied; a turn always ends | part in `Scheduler`; `ClaudeSession` planned |
| Update manager, cloud objects (`cloud_objects/update_manager.rs`, `cloud_object/mod.rs`) | objects, pending revisions, counters of requests in flight | edits from views, events of the sync queue, messages of the server | edits during a request, conflicts, denials | the counter never exceeds the requests outstanding; a row stops being pending only for content the server has had | `CloudSync` |
| Shared session (`terminal/shared_session`, `sharer/network.rs`, `viewer/event_loop.rs`) | connection stage, numbered events, unacknowledged events, reorder buffer | terminal output, acknowledgements, heartbeat, reconnection | lost connections, resends, events ahead of a gap | a viewer's screen is a gapless prefix of the sharer's output, and catches up | `SharedSession`, `Connection`, `Broadcast` |
| Remote server manager (`crates/remote_server/src/manager.rs`) and the panes' controllers (`remote_server_controller.rs`) | state per session, sessions per host; the bootstrap script held back | check, install, connect, reconnect, navigate, deregister | results for sessions that are gone, attempts racing a deregistration | the host index holds exactly the connected sessions; executor, bootstrap and paths belong to the present connection | `RemoteServer` |
| Tab drag (`workspace/cross_window_tab_drag.rs`) | phase of the drag, source, preview, hand-off | drag, drop, window close | windows that disappear, hand-offs reversed | a tab is in exactly one window | not modelled |
| Text buffer (`editor/view/model/buffer`) | fragments, version vectors, deferred operations, undo stack and history | local and remote edits, undo, redo | operations out of order and twice, concurrent edits at one place | replicas that saw the same operations agree; nothing is deferred for ever | `Buffer` |
| Undo close (`undo_close/stack.rs`) | closed panes, tabs and windows, timers | close, restore, expire | a timer racing a restore | an item is restored or discarded, once | not modelled |
| SQLite writer (`persistence/sqlite.rs`) | tables | model events | events lost when the program stops | tables are a past state of memory | part in `Scheduler` |

Not modelled, with reasons in `PROJECT.json`: terminal grid and blocks, the UI
framework (its contract is assumed), language servers, inter-process transports,
file watching, completion, search, vim, pane layout, authentication and GraphQL.

## Plan

1. `SyncQueue` -- **done**: checked, every safety property proved.
2. `Scheduler` with the workspace, panes and SQLite -- **done**: checked, every
   safety and action property proved.
3. `SharedSession`: two `Connection`s, the server (external), sharer and viewer;
   `Broadcast` is the promise it refines -- **done**: checked, every safety
   property and the refinement proved.
4. `RemoteServer`: manager, controllers, connections -- **done**: checked, every
   safety property proved.
5. `Buffer`: edits, undo, remote operations -- **done**: checked, every safety
   property proved, and agreement once everything is delivered.
6. `CloudSync`: one object's counter, revisions, conflicts and row -- **done**:
   checked, every safety property proved.
7. Left: `TabDrag`, the undo-close stack.

Every invariant and safety property of the passing runs is a theorem; what no
theorem states is liveness.  `TabDrag` and the undo-close stack would be new models.

### What the proofs establish

Each theorem holds for every value of the constants that satisfies the module's
named assumption, so for any number of objects, tasks, sessions, outputs, sockets
and replicas; the runs show the same formulas on one small instance each.  Out of
reach of the prover, and so only model-checked: liveness (`QueueDrains`,
`FiresAreHandled`, `CatchesUp`, `Settles`, `Agree`), and whatever needs induction
over data.  Where the code folds over a sequence (`Mirrored`, the passes over
deferred operations) the proofs argue by a least counterexample instead.

The bounds on steps (`MaxItems`, `MaxLaunches`, the scenarios' counters) are
constants of the specifications, so the theorems hold for each of their values.
Inductive invariants were checked with TLC on the runs' instances before they
were proved, except that of `Buffer`, which speaks of an order of all positions
that TLC cannot enumerate; there TLC checked what follows from it.

## SyncQueue

### Correspondence

| Code | Model |
|---|---|
| `QueueItem` variants | a record: `op`, the objects it names and by which `kind` of id, the `refs` of a workflow, the initial `folder` |
| `queue: Vec<(QueueItemId, QueueItem)>` | `queue`, a set of numbers in order of enqueueing; the Vec is only ever appended to and removed from, so it is sorted by them |
| `queue_dependencies`, `waiting_response` | `deps`, `waiting` |
| `client_id_to_server`, `server_id_to_client_hash` | `mapped` |
| `should_dequeue`, `spawned_futures` | `running`, `inflight` |
| a trailing `self.dequeue(ctx)` | `owed`: until it is done no other event is handled |
| the loop over a bulk reply | `bulk`, with a `dequeue` after each object |

All update variants behave alike (`Update`), except `UpdateWorkflow`, which has
references.  Creations of notebooks, folders, enums, preferences are `Create`.
The update variants of deleted AI objects are never constructed, and `clear` is
never called; neither is modelled.  `needs`, `outcome`, `events`, `rejected`,
`created`, `paused` are history: no guard of a queue operation reads them.
`CanRequest` is the environment: the update manager mints an object once, uses a
server id only when it has one, and re-creates an object only after a failure of
its creation was reported.  It does read history, since what has been reported
is what the user interface acts on.

### Runs

* `sync_queue` -- a new notebook in a new folder, a shared notebook, edits under
  client and server ids, an action, with stop and start, from an empty queue or
  from three items pending in SQLite; and a workflow naming an enum beside a bulk
  creation, started empty or with the workflow pending.  Eight properties, among
  them the liveness `QueueDrains`.
* `sync_queue_client_ids`, `sync_queue_bulk`, `sync_queue_retry` -- each refutes
  a comment of the source (see Findings).

`MaxItems = 4` items per behaviour.  A violation of the order of writes takes
two items for one object; a dependency with a middleman takes three; four leave
room for a bystander.  Faulty variants of eight operators (`Faulty...`) each
break one property within these bounds.

### Fairness

The main thread finishes the handler it is in (weak fairness of the owed dequeue
and of the bulk loop).  Every spawned request comes back:
`spawn_with_retry_on_error` makes a bounded number of attempts and then reports
failure.  It is strong fairness because `stop` and `start` calls may come
between, and a callback waits its turn in the main thread's queue.  No fairness
is assumed of the user or of the network; `QueueDrains` therefore excepts a
stopped queue, one paused by a persistent error, and an item that waits on one
dropped without an answer (a creation whose folder never got a server id).

### Proofs

All in `SyncQueueProofs`.  `TypeCorrect`, Spec => []TypeOK, has one lemma per
action.

`SerialUpdates` and `OneWriterInFlight` are not
inductive: they say nothing of queued items, and an item's dependencies could be
empty for the wrong reason.  The strengthening `WriterInv` has two parts.
`UpdateInv`: the items are well formed; an in-flight update is awaited under its
object's server id (`Awaited`), and of two live updates of an object the later
depends on the earlier (`Ordered`), whichever id each uses (`Named`: an update
under a server id has a mapped object, so that the lookup tries both names).
`CreatorInv`: an object has at most one live creation that was not rejected, it
is pending exactly while it is queued or in flight, and an update waits on it.
`WriterInvariant` proves it inductive; `UpdatesAreSerial` and `OneWriter` follow.
`NothingForgotten` is proved separately: every action that leaves an item ready
either owes a dequeue or leaves a request in flight or is the persistent error.

`DisciplineKept` needs `DisciplineInv`, which also holds inside a handler, where
`DependencyDiscipline` says nothing: whatever is in `waiting_response` has left
the queue, under an id it is awaited by, and is unanswered or has objects left in
a bulk reply (`WaitingInv`); an item that left the queue without failing needed
only answered items, a queued one depends on all it needs that is outstanding,
and a failure has reached everything that needed the failed item (`NeedsInv`).
That is where a dependency found in `waiting_response` long after it was sent is
justified.  `OutcomesReported` needs `OutcomesCounted`: in the loop over a bulk
reply, reported and remaining objects add up.

`WorkflowsResolved` is the longest of the three.  A client id a queued workflow still
names must be rewritten before the workflow is sent, or the workflow must fail,
though the item that was found for it may be an *update* of the enum (under its
client id) and the creation may be denied, fail and be enqueued again meanwhile.
`ReferencesSettle` says that for each such id the workflow depends on an item of
that object which is its creation or an update enqueued before any creation it
does not depend on.  Such an update fails, and takes the workflow with it,
before a later creation is sent (`EarlierUpdatesFailed`): the first queued update
of an object that has no server id depends on nothing, is dequeued before the
creation, and cannot go out (`EarlierSend`, by the least such update).

The assumptions are `SyncQueueAssumption`: finitely many objects, well-formed
requests, and start-up queues as `from_cached_objects` builds them.  Well-formed
includes that a workflow names only enums and collections of variables
(`get_enum_ids`, `default_env_vars`: `sync_queue.rs:597`), each of them created by
a request of its own, since bulk creations are of preferences.

Only model-checked: `QueueDrains` (liveness).

## Scheduler

### Correspondence

| Code | Model |
|---|---|
| `tasks`, `runs`, `pending_fires`, `active_by_session` | `tasks`, `runs`, `pending`, `active`; a run's number orders the history, a pane's number is the session id it minted |
| `next_run_at` and the cron expression | the number of an occurrence; 0 is none, `now` counts occurrences |
| `emit(FireRequested)` and the workspaces' subscription | `announced`; with no window the event reaches nobody |
| the local `fires` in `handle_scheduler_fires` | `handing`: panes are opened one by one, before anything else runs |
| `ClaudeCodeView`: `streaming`, `child`, `session_id` | a pane's `turn` and whether its `id` is still the minted one |
| `model_event_sender`, the SQLite tables | `log`, `disk`; `Relaunch` loses the log |
| `SchedulerModel::new` | `Relaunch` (the first launch is `Init`, with no run recorded) |

`tried` is history.  All workspaces are one `window`: which of them opens a pane
makes no difference to the scheduler.  Closing a pane means for good, after the
undo-close grace period in which its session is still alive.

### Runs

* `scheduler` -- either one task with a fallback, clicked, edited or deleted on
  the page up to twice, or two tasks due together; two launches.  `TypeOK`,
  `OneAttemptPerTask`, `Mirrored`, `RetriedOnce`, `AttemptsAreRecorded`,
  `OutcomesAreFinal`, and the liveness `FiresAreHandled`.
* `scheduler_stuck` -- refutes the comment on `is_running`.

Bounds: the clock passes one occurrence (a tick, a catch-up at the next launch
and Run now make up to three runs of a task, more than `RunsKept = 1` keeps, so
pruning happens); `MaxChat` stops later turns in panes once a second one is open;
`MaxLog = 0` lets outside events wait for the writer, though not `Tick`, the
handlers it starts, or a crash, so that events are still lost.  `RunsKept` is 20
in the code.

### Fairness

The tick loop is an endless timer; handlers finish; the writer thread works
through its channel.  Nothing is assumed of providers, panes or the user.  Each
conjunct of `Fairness` names what a step takes from its queue and not the whole
action (the log becomes its tail, say): it is implied by fairness of the action
that does so, and far cheaper to check.

### Proofs

`SchedulerProofs`: one invariant, `Inv`, and six theorems from it.  It has a part
for each thing a handler relies on without looking:

* `Apart` and `CurrentInv`: queued, handed and live attempts are of different
  tasks, and each is of its task's newest run, whose row is there and running.
  `OneAttemptPerTask` alone is not inductive: `is_running` reads the rows, not
  the attempts.
* `WindowInv`, `AttemptInv`: what is known of the attempts tried.  A retry is told
  from a first attempt by its provider, so a queued one has another provider than
  its task, and is handed on at once.
* `RowInv`, `CopyInv`: a row in memory, in the channel or in the table agrees with
  the attempts, and with every copy made later: for `OutcomesAreFinal`, through
  relaunches that find old copies.
* `MirrorInv`: `Mirrored` folds the log over the tables.  A fold over a sequence
  cannot be reasoned about by induction here, so it is restated as a chain of
  tables (`Writes`, `Leads`), extended at either end by a step; that both agree is
  shown by the least place where they differ.  Pruning in memory and in the table
  agree since each keeps the `RunsKept` newest (`Pruned`).

The orders in which due tasks are fired and rows are read are chosen (`\E`)
among the ascending, or descending, enumerations of a set, of which there is one.
`SchedulerAssumption` has finitely many tasks, a fallback that differs from the
provider, which the editor page enforces, and tables that hold tasks at startup.
Only model-checked: `FiresAreHandled`.

### Editing between attempts

An edit of a task between the two attempts of a run changes what the second one
is: with the providers swapped, the retry uses the provider that has just
failed, and `both_failed` is then recorded though one provider was tried.
`RetriedOnce` holds regardless: it counts attempts, not providers.

## SharedSession

### Correspondence

| Code | Model |
|---|---|
| `Network.stage`, `ws_proxy_tx` of both ends | `Connection`'s `stage`, `txOpen`; instantiated as `Sharer` and `Viewer` |
| the future of `start_websocket` or `reconnect_websocket`, its retries | `attempt`: `close()` can abort a first attempt, the retries of `spawn_with_retry_on_error` run under handles of their own |
| a WebSocket's stream and sink | `sockets`; a stream's end runs its handler on the Network as it is then |
| `pty_bytes_batch_status`, `num_bytes_shared`, `event_no`, `unacked_terminal_events` | `batch`, `bytes`, `eventNo`, `unacked` |
| `process_websocket_message` of sharer and viewer | `SharerReply` and `Ack`; `ViewerReply` and `ViewerEvent` |
| `EventLoop` | `loop`; feeding the parser appends to `screen` |
| the session-sharing server | `server`, `up`, `mail`, ... : external |

`Broadcast` is the promise: the terminal puts out numbered outputs and a viewer's
screen is a growing prefix of them.  `ImplementsBroadcast` is the refinement; the
mapping is the identity on `output` and `screen`.

The server is not in the repository.  It is taken to accept the next event in
order and nothing else; to lose, in a restart, no more than it has not
acknowledged; to acknowledge in any order, or never; to admit a viewer with an id
after the last event that viewer names; to send a viewer events in any order,
possibly again after a reconnection; and, once the sharer has resumed on a socket, not to
listen to older ones any more.  The last is needed: if old sockets were still
read, an `EndSession` on one could overtake, and `CatchesUp` would fail.  A
second viewer would see the same server and is left out.  Presence, roles,
guests, input and prompts use the same sockets, not the event numbers.

### Run and bounds

`shared_session` starts in one of three scenarios: the sharer opens two sockets
and the server restarts once; the viewer opens two; or the terminal already
holds an output, so that the second one passes `MaxBytes = 2`.  Two outputs are
enough for a gap, a repetition, a batch flushed ahead of another event and an
event that passes the limit right after one that does not; the last socket of an
end does not break while it is in use, so that behaviours do not just stop.
`NoGapUpstream` and `UnprocessedKept` relate the server to what the sharer still
has; `LimitKept` and `ActiveHasCaughtUp` are about a handler that loops over
several events; `CatchesUp` says that with both ends connected for good the
screen gets to show everything.  `shared_session_trying` is a finding.

Fairness: the batch timer fires, and messages on an open socket are handled;
again each conjunct names what is taken.  No fairness of reconnection is
assumed: `CatchesUp` has a lasting connection as its premise.

### Proofs

All of the argument is in one idea: at any time there is a way `E` to cut the
output into pieces, one for each event number given out so far, such that every
copy of an event, wherever it is -- unacknowledged, on its way up on any socket,
received, in a viewer's mail, in its buffer -- is of the piece its number says
(`Cuts`).  `Inv` is `\E E \in Cuts : SharerHalf(E) /\ ViewerHalf(E)`; flushing a
batch extends `E` by one cut, and no other step changes it.  `SharerHalf` adds
where events may be: what the server has not processed is unacknowledged, the
queue on each socket is consecutive and starts at most one past what was
received, only one socket awaits an answer to its Resume, and that answer tells
truly where to flush from; past the limit nothing more is numbered.  `ViewerHalf`:
the screen shows the pieces before `loop.next`, and a viewer joins once.
`SharedSessionProofs` has the lemmas for each half; `SharedSessionSafetyProofs`
the induction and the theorems, with `ShowsTheOutput` (the refinement of
`Broadcast`: each step feeds the screen the next pieces, or stutters).
`BoundsAssumption` only types the constants.  Only model-checked: `CatchesUp`.

## RemoteServer

### Correspondence

| Code | Model |
|---|---|
| `SshInitState` and the `SessionInfo` in it | `setup` |
| `RemoteSessionState`, `host_to_sessions`, `last_navigated_path`, `session_bootstrap_info` | `sessions`, `index`, `lastPath`, `bootInfo` |
| the background task of `connect_session` or `attempt_reconnect` | a `flow`; "ok" and "failed" are closures handed to the main thread but not yet run |
| `RemoteServerClient`, its process and its event stream | `clients[s][c]`; `link` is "ended" from the end of the process until the stream's end is handled |
| the choice block of the pane | `blocks` |
| the session's command executor, the `RepoMetadataModel` | `executor`, `repos` |

Replacing or removing a `RemoteSessionState` drops its `Child`, which kills the
process (`Killed`): the stream of the old client then ends, and
`mark_session_disconnected` runs for whatever the session is by then.  Guards
follow the closures exactly: `Wake`, `TransportConnects` and the reconnecting
`FlowConnected` look for the session, the first `FlowConnected` and all stream
ends do not.  `told` and `asked` are what a server has been told; they are
history.  `ExitShell` needs a bootstrapped session, because only the bootstrapped
shell's hook sends it; a shell that dies otherwise leaves its entry behind.

### Runs and bounds

`remote_server`: a session that connects three times (the first connection and
both reconnections `MAX_RECONNECT_ATTEMPTS` allows) and another on the same host
that connects once, each in a pane, or one after the other in the same pane.  One
path: asking for it again after a reconnection is what matters.
`OneFlow` is the invariant that makes the unguarded closures harmless: two flows
of one session would each mistake the other's client for their own.
`Settles`: reconnecting ends.  The deadlock check is off: all sessions may have
exited.  `remote_server_blocked` is a finding with a single session.

Fairness: each session's background task goes on -- timers fire, requests have
timeouts (`REQUEST_TIMEOUT`), the main thread runs its closures.

### Proofs

`RemoteServerProofs`: types, among them that the client of a state or flow was
opened for that session.  `RemoteServerSafetyProofs`: two invariants.  `PaneInv`
is about panes: a session's bootstrap is held back exactly while its check or
install is under way, so that `connect_session` runs once for it, before it can
have been bootstrapped or deregistered.  `ConnectionInv`: a session whose pane has
not let go of it is untouched by the manager; a task that connects a session is
the only one, finds it not connected and its navigated path forgotten; an exited
session is untracked; what the manager and the pane believe of a connected
session is known to its present server (`ServerKnows`); and `HostsMatch`.  The
six safety properties follow.  Neither `NotResurrected` nor `OneFlow` is
inductive alone: the unguarded first `FlowConnected` is harmless only because
`connect_session` ran once and no other task of the session exists.  Only
model-checked: `Settles`.

Not modelled: token rotation, version mismatch as a case of its own (it is a
failed handshake), the listing of remote directories, telemetry.

## Buffer

### Correspondence

| Code | Model |
|---|---|
| `fragments` (a tree ordered by `FragmentId`), `insertion_splits` | `chars`, a sequence of characters: splitting a fragment changes nothing, and a new `FragmentId` is a place in the sequence |
| `Insertion.id` and an offset in its text | `edit`, `offset`: the `Position` operations name |
| `versions`, `lamport_clock`, `deferred_ops` | `versions`, `clock`, `deferred` |
| `undo_history`, `local_undo_stack` | `history`; `stack`, `current`, `recent` (the batch timer has not run out) |
| `apply_ops`, `apply_edit`, `undo_or_redo` | operators of the same names on a buffer |
| operations emitted by `end_batch` and delivered by the session | `inbox` |
| the sort in `DeferredOperations::extend`, unstable | `Sorted`: any order of the places in which no operation is later than the next; only copies of one operation can be equal |

`Edit` chooses the first character it replaces, or before which it inserts, and
the last one it replaces: visible ones, whose neighbours may be deleted.  An edit
of several ranges is a sequence of edits of one range with consecutive
timestamps, as in the code, and arrives as several operations here.  Selections,
text styles, the capacity of the undo stack and the registry of peers are left
out.  A comment on `registered_peers` says that only operations of known peers
can be applied; `apply_ops` does not look, so the model does not either.  Nothing
bounds what is deferred for an operation that never comes (`buffer/mod.rs:1696`);
in the model all of them come.

### Run and bounds

`buffer`: three replicas of a one-character text, insertions of at most one
character, in three scenarios: each replica edits once, with one operation
delivered twice; two edit, one of them twice with an undo, in front of a reader
(three operations that depend on each other in different ways); one edits, undoes and
redoes, with a repetition.  Two concurrent operations and a third replica that
gets them in the other order are what an ordering fault needs, a causal chain of
three what starvation in the deferred queue needs.

`Converges`, `OrderAgrees` and `OnlySeenTextDeleted` say that replicas agree,
before as well as after they have seen everything; `NoStarvation` that one pass over
the deferred operations is enough; `StackMatchesHistory` that the local undo
stack and the replicated history tell the same story; `Agree` that in the
end all show one text.  Fairness: what is sent arrives and is handled.

### Proofs

`BufferProofs`, for any finite set of replicas, any base text, any edits and undos
and any number of repetitions.  No property of a buffer is inductive by itself:
what an edit from a peer does here depends on what its author saw there.  So
the invariant says of which shared whole every buffer is a part.  `Inv` is
`\E ops, order : Invariant(ops, order)`, where `ops` are the operations issued so
far and `order` is one strict order of all positions they have ever placed.

* `Issued`: an operation's version vector names operations issued before it, all
  its author's earlier ones among them, and its ends are positions its author had
  seen.
* `Ordered`: a text comes after the start of its edit, and *what stands between
  the two comes of the same or of later edits*.  This is what makes the place
  `apply_edit` finds (past everything later, up to the first thing earlier) the same
  with and without the texts a replica has yet to see; a new local edit is put
  right after its start, which keeps it true because its timestamp exceeds all
  its author has seen.
* `Holds`: a buffer has exactly the positions of the edits it has observed, sorted
  by `order`, each deleted by exactly the observed edits whose range covers it
  and whose author had seen it; its history is that of the undos it has observed
  (`HistoryOf`).  Two buffers with equal versions are then equal (`Converges`),
  two buffers are always in one order (`OrderAgrees`), and what an edit deletes is
  the same everywhere (`OnlySeenTextDeleted`).
* `Closed`: with an operation a replica has observed all it depends on, so that the
  version test in `can_apply_op` implies that both ends are there to be found.
* `StackKept`: entries of the stack share no edit, and an edit of the stack has an
  odd number of undos exactly when its entry is above the current one; each undo
  adds to that number, as its timestamp exceeds every earlier one.
* `Settled`: what is deferred is sorted, and *misses a version*, which is more than
  `NoStarvation` says.  One pass suffices because the operations are tried in the
  order of their timestamps: applying one brings nothing that an earlier one misses,
  for else it would itself depend on what that one misses, and could not have been
  applied (`StillMisses`).
* `Accounted`: whatever was issued is, at each replica, applied, deferred or on its
  way.

`Explained` proves it inductive; a local edit is the only step that extends
`ops` and `order`, a local undo extends `ops` alone, and receiving changes
neither.  The six invariants of the run follow.  `DeliveredAgrees` goes beyond
them: a replica for which nothing is on its way defers nothing (the earliest
deferred operation would wait for an earlier one, which is nowhere), and two
such replicas have the same versions and hence the same characters and history.
What is left of `Agree` to the model checker is that this comes about.
The assumption `BufferAssumption` only types the constants.

## CloudSync

One object of the drive, the requests `SyncQueue` makes for it, the server's
copy, and its row in SQLite.  `SyncQueue` shows that requests of one object are
made one at a time and in order; here they are a sequence and the request under
way.  A revision is a place in the server's `history`.

### Correspondence

| Code | Model |
|---|---|
| `GenericCloudObject`, `CloudObjectMetadata`, `ConflictStatus` | `obj`: content, revision, conflict, status, count |
| items of the object in `SyncQueue`; the spawned request | `queue`; `sent`, with the stage it has reached |
| `should_dequeue` | `running` |
| `in_flight_request_abort_handle` of the poll | `poll` |
| `fetch_single_cloud_object` for a revert | `fetch` |
| the row in SQLite | `disk` |
| `update_object`, `resync_object` | `Edit`, `Retry` |
| `revert_failed_object` and its callback; the banner's refresh button | `Revert`, `Reverted`; `Refresh` |
| `SyncQueue::update_object`, its attempts | `Dequeue`, `LoseReply` |
| `ObjectCreationSuccessful`, `ObjectUpdateSuccessful`, `ObjectUpdateRejected`, denial, failure | `Created`, `Updated`, `Rejected`, `Denied`, `Failed` |
| `handle_cloud_object_changed_event` | `Announced` |
| `poll_for_updated_objects`, `on_changed_objects_fetched` | `Poll`, `Polled` |
| offline; the launch in `lib.rs` | `GoOffline`; `Relaunch` |
| the server, other clients (external) | `ServerHandles`, `PollServed`, `ForeignEdit` |

Four kinds of object stand for all that is sent with revisions in different
ways: a notebook (the present revision; a rejection is a conflict the user
resolves), a workflow (the revision its editor was opened on; a rejection
overwrites), an enum or env var collection (the same, but queued updates keep
their revision), a preference (no revision).

### Run and bounds

`cloud_sync`: `TypeOK`, `RequestsCounted`, `UnsentStaysPending`.  Six scenarios bound
edits (2 or 3), changes by others (1), and offline periods, lost replies and
relaunches (0 or 1 of each, all of them at once for the notebook); two start
with a creation, which a team may deny.  Three edits put two updates behind one
under way; one foreign change is enough for a conflict.  About 780,000 states.
No liveness is stated here: that requests come back is `QueueDrains`.

### Proofs

`CloudSyncProofs`, for every set of scenarios, proves all three.  First the
types (`TypeInv`), then `SurviveInv`, the invariants both other properties
contain and what they rest on: a creation is sent before anything else of its
object and nothing can overtake it (`CreationInv`, `UnknownInv`: until the
server knows the object the count is exact), and an errored object has nothing
outstanding (`ErroredInv`), so that a retry starts from zero.

`RequestsCounted` (`CounterIsBacked`) bounds the counter from both sides.  It
never has more than is outstanding.  It comes to miss a request
(`NextCounts`) only in two ways, which the handlers tolerate
(`decrement_in_flight_request_count` logs and does nothing): a notebook comes
into conflict with requests queued, or the answer to a revert arrives after a
retry or another edit.

`UnsentStaysPending` (`UnsentIsKept`) is what a relaunch needs.  The row has
the object's content and is pending while the object is in flight or errored
(`RowFollows`).  Content in it that the server has never had stays, pending,
until another edit, a revert, or a rejection (of a workflow or an enum, perhaps
of an earlier edit) replaces it.  The proof needs to know what a success
confirms: an accepted request is in the history (`AcceptedInv`), and the row
has the content of the last request outstanding (`LastInv`), so that the last
success, and no earlier one, marks the row.  That holds of objects the server
knows, not in conflict, with all requests counted.  Each of the three
conditions is needed, for the code loses an edit without it:

* in conflict: a notebook is edited, somebody else edits it too, the update is
  rejected; an announcement that brings only metadata then saves the row, which
  is no longer pending, although the comment at `update_manager.rs:1674` says
  its pending status is not cleared.  After a relaunch the edit counts as the
  server's.  (Loading the server's version is the other way out, and the
  user's choice.)
* with a request uncounted: an edit fails, is reverted and retried before the
  revert is answered; the answer marks the object clean with the retry
  outstanding (`fetch_single_cloud_object`, 1454-1467).  Another edit makes the
  counter one, and the success of the retry, taken for that edit's, marks the
  row with content still to be sent.  If the program stops then, or the edit
  fails with others, it is not sent again.
* not known to the server: an object created in a team and edited is denied by
  the team.  The denial releases the edit (`sync_queue.rs:1424`) and the
  creation is queued again behind it.  Edited once more, the first edit is
  dequeued, fails for want of a server id and takes the second along; the
  creation, made before the second edit, succeeds and marks the row.

One would like another property: an object without local changes has the content
the server has under its revision.  It does **not** hold, nor does *an update is
never rejected because of this client's own earlier update*:

* after a revert answered late, as above, the success of the request still
  outstanding puts its revision on the reverted content;
* a notebook in conflict whose row was saved has, after a relaunch, an edit of
  the user's under a revision of the server's;
* a late rejection of one edit of a workflow or an enum overwrites a newer edit
  whose own request is then accepted;
* a poll answered before, and applied after, a newer revision puts the older
  content back, as `update_from_server_object` compares no revisions;
* an update that was applied but whose reply was lost is sent again with the
  revision it has itself replaced; likewise an edit resent after a relaunch, when
  the update before it was accepted and the row not yet marked;
* an object edited while it is created, and the program stopped in between, has
  a row without a revision: its edit is resent without one, and accepted whatever
  others have written.  An enum edited then fails with "Missing revision".

Abstracted: the SQLite writer's delay, pauses after persistent errors, replies to
creations are not lost, requests of a program that has stopped do not land later,
an object that is not yet created is not relaunched, one revert at a time, the
conflict of unique keys, metadata, permissions, moves and deletion.  Folders,
which keep their content in a revert, are left out.

## Findings

Each is a violation run whose property is a comment of the source.

* `NoWorkflowSentWithClientIds` (`sync_queue.rs:480`): a workflow whose enum is
  unknown to the queue, or was denied, is sent with the client id.
* `NoUpdateFailedAfterCreation` (`sync_queue.rs:529-531`, loop at 895): while a
  bulk reply is applied, updates of objects not reached yet are failed.
* `OneCreationInFlight` (`sync_queue.rs:350-352`): a rejected creation stays
  queued; retrying it puts two creations of the object in flight.
* `RunningMeansLive` (`scheduler.rs:466`): after a closed pane, a failed spawn,
  or any Codex session, a task counts as running until the next launch, and does
  not fire.
* `SharerKeepsTrying` (`sharer/network.rs:81`): the stream of a connection that
  the heartbeat gave up ends while the reconnection is under way; its handler
  closes the proxy and aborts the reconnection, and nothing starts another.
* `NotBlocked` (`remote_server_controller.rs:383`): a connection that breaks
  right after its handshake is forgotten without an event, and the bootstrap
  script stays held back.

Met while modelling, and in the models, but without a run: `end_session` while
reconnecting drops the `EndSession` message although its comment guarantees that
viewers are told; a viewer that has left becomes connected again when a
`JoinedSuccessfully` is still under way; with two sessions in one pane, skipping
on the choice block of a session that died replaces the state of its successor.

## Files

`X.tla` is a component, `MCX.tla` its instances, `MCXName.cfg` a run,
`XProofs.tla` its theorems and, where there is one, `XSafetyProofs.tla` more of
them, on top of the former.  Operators named `Faulty...`
or listed as mutants in `PROJECT.json` are plausible mistakes in the operator they precede, used to confirm that each
property notices one.
