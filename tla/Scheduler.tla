------------------------------ MODULE Scheduler ------------------------------
(***************************************************************************)
(* The scheduler of agent tasks (app/src/automation/scheduler.rs), the     *)
(* workspace that opens a pane for each run (app/src/workspace/view.rs),   *)
(* the provider sessions in those panes (app/src/claude_code_view.rs) and  *)
(* the SQLite tables that mirror the tasks and the run history.            *)
(*                                                                         *)
(* Everything but the SQLite writer runs on the main thread.  A handler    *)
(* that emits FireRequested leaves `announced` TRUE, and the workspace     *)
(* handles the event, opening the panes in `handing` one by one, before    *)
(* anything else happens.  Runs and panes are numbered; a pane's number    *)
(* stands for the session id it minted.                                    *)
(***************************************************************************)
EXTENDS Integers, Sequences, FiniteSets, SequencesExt

CONSTANTS
  Tasks,        \* task ids, in the order of the tasks' names
  Providers,    \* agent providers
  ThreadNamed,  \* providers that rename a pane's session when it starts
  None,         \* no fallback provider
  Settings,     \* what the task editor may save
  RunsKept,     \* RUNS_KEPT_PER_TASK
  StartTasks,   \* the task tables the program may be started with
  MaxTime,      \* bound: the clock
  MaxClicks,    \* bound: what the user does on the Scheduled Tasks page,
                \* for each table the program may be started with
  MaxLaunches,  \* bound: starts of the program
  MaxChat,      \* bound: panes opened while panes see further messages
  MaxLog        \* bound: events the SQLite writer may lag behind

Task == [provider : Providers, fallback : Providers \cup {None},
         enabled : BOOLEAN, catchUp : BOOLEAN, next : Nat]
Outcomes == {"Running", "Success", "Error", "BothFailed"}

(* The editor drops a fallback provider equal to the provider.             *)
ASSUME SchedulerAssumption ==
  /\ None \notin Providers
  /\ ThreadNamed \subseteq Providers
  /\ Tasks \subseteq Int /\ IsFiniteSet(Tasks)
  /\ Settings \subseteq [provider : Providers, fallback : Providers \cup {None},
                         catchUp : BOOLEAN]
  /\ \A s \in Settings : s.fallback # s.provider
  /\ RunsKept \in Nat \ {0}
  /\ \A ts \in StartTasks : DOMAIN ts \subseteq Tasks /\ ts \in [DOMAIN ts -> Task]
  /\ {MaxTime, MaxLaunches, MaxChat, MaxLog} \subseteq Nat
  /\ MaxClicks \in [StartTasks -> Nat]

VARIABLES
  now,        \* the clock, in occurrences of a schedule
  tasks,      \* SchedulerModel.tasks, by id
  runs,       \* SchedulerModel.runs, by number: the greater is the newer
  pending,    \* SchedulerModel.pending_fires
  active,     \* SchedulerModel.active_by_session, by pane
  announced,  \* FireRequested has been emitted and is yet to be handled
  handing,    \* the fires handle_scheduler_fires has taken and not yet opened
  panes,      \* the panes opened for runs since the program started
  window,     \* a workspace window is open
  disk,       \* the scheduled_tasks and scheduled_task_runs tables
  log,        \* ModelEvents on their way to the SQLite writer
  minted,     \* runs ever created
  clicks,     \* what the user may still do on the Scheduled Tasks page
  launches,   \* history: starts of the program
  tried       \* history: what became of each attempt of each run

main == <<tasks, runs, pending, active, announced>>
vars == <<now, main, handing, panes, window, disk, log, minted, clicks, launches, tried>>

Idle == ~announced /\ handing = <<>>

(* Outside events wait for the handlers and, as a bound, for the writer.   *)
Outside == Idle /\ Len(log) <= MaxLog

-----------------------------------------------------------------------------
(* The tables and their mirror                                             *)

Put(f, x, v) == [y \in DOMAIN f \cup {x} |-> IF y = x THEN v ELSE f[y]]
Keep(f, S) == [y \in DOMAIN f \cap S |-> f[y]]

(* insert_run and the SQLite upsert keep the newest rows of each task.     *)
Prune(rs) ==
  Keep(rs, {r \in DOMAIN rs :
    Cardinality({s \in DOMAIN rs : s > r /\ rs[s].task = rs[r].task}) < RunsKept})

ReplaceTasks(ts) == [kind |-> "tasks", tasks |-> ts]
UpsertRun(r, row) == [kind |-> "run", run |-> r, row |-> row]
DeleteRuns(t) == [kind |-> "delete", task |-> t]

(* A set of numbers in ascending order, and in descending order.           *)
Ascending(S) ==
  {f \in [1 .. Cardinality(S) -> S] : \A i, j \in DOMAIN f : i < j => f[i] < f[j]}
Descending(S) ==
  {f \in [1 .. Cardinality(S) -> S] : \A i, j \in DOMAIN f : i < j => f[i] > f[j]}

WithoutTask(rs, t) == Keep(rs, {r \in DOMAIN rs : rs[r].task # t})

Applied(d, e) ==
  CASE e.kind = "tasks" -> [d EXCEPT !.tasks = e.tasks]
    [] e.kind = "run" -> [d EXCEPT !.runs = Prune(Put(@, e.run, e.row))]
    [] e.kind = "delete" -> [d EXCEPT !.runs = WithoutTask(@, e.task)]

(* The SQLite writer, a thread of its own.                                 *)
Write ==
  /\ log # <<>>
  /\ disk' = Applied(disk, Head(log))
  /\ log' = Tail(log)
  /\ UNCHANGED <<now, main, handing, panes, window, minted, clicks, launches, tried>>

-----------------------------------------------------------------------------
(* Firing                                                                  *)

FaultyIsRunning(t) == \E p \in DOMAIN active : active[p].task = t

IsRunning(t) ==
  \/ \E p \in DOMAIN active : active[p].task = t
  \/ \E k \in DOMAIN pending : pending[k].task = t

(* A schedule that has no next occurrence is that of a disabled task.      *)
NextRunAfter(time) == time + 1

FireRequest(r, t, provider) == [run |-> r, task |-> t, provider |-> provider]

(* fire(_, 1, None) for each of the tasks `fs`, whose entries are in `ts`, *)
(* with the run history `rs` and the events `es` sent before.              *)
FireAll(fs, ts, rs, queue, es) ==
  LET number == [k \in DOMAIN fs |-> minted + k]
      row == [k \in DOMAIN fs |->
                [task |-> fs[k], provider |-> ts[fs[k]].provider, outcome |-> "Running"]]
      fresh == {number[k] : k \in DOMAIN fs}
  IN /\ runs' = Prune([r \in DOMAIN rs \cup fresh |->
                         IF r \in fresh THEN row[r - minted] ELSE rs[r]])
     /\ pending' = queue \o [k \in DOMAIN fs |->
                               FireRequest(number[k], fs[k], row[k].provider)]
     /\ log' = es \o [k \in DOMAIN fs |-> UpsertRun(number[k], row[k])]
     /\ minted' = minted + Len(fs)
     /\ tried' = [r \in DOMAIN tried \cup fresh |->
                    IF r \in fresh THEN <<>> ELSE tried[r]]

FaultyAttemptOf(r) == 1

(* The number of the attempt for which a pane is opened, as on_fire_spawned *)
(* and finish_attempt tell it from the provider in the run's row.          *)
AttemptOf(r) ==
  IF runs[r].task \in DOMAIN tasks /\ runs[r].provider # tasks[runs[r].task].provider
  THEN 2 ELSE 1

Fallback(t) ==
  IF t \in DOMAIN tasks /\ tasks[t].fallback # tasks[t].provider
  THEN tasks[t].fallback ELSE None

FaultySetRow(r, row) ==
  /\ runs' = IF r \in DOMAIN runs THEN Put(runs, r, row) ELSE runs
  /\ UNCHANGED log

(* update_run: the row changes in memory and on its way to SQLite.         *)
SetRow(r, row) ==
  IF r \in DOMAIN runs
  THEN runs' = Put(runs, r, row) /\ log' = Append(log, UpsertRun(r, row))
  ELSE UNCHANGED <<runs, log>>

FaultyRetries(a, success) == ~success /\ a.attempt = 1

(* finish_attempt_inner: resolve_attempt decides between a final outcome   *)
(* and the one retry with the fallback provider, on the same row.          *)
Retries(a, success) == ~success /\ a.attempt = 1 /\ Fallback(a.task) # None
FinishAttempt(a, success) ==
  IF Retries(a, success)
  THEN /\ SetRow(a.run, [runs[a.run] EXCEPT !.provider = Fallback(a.task)])
       /\ pending' = Append(pending, FireRequest(a.run, a.task, Fallback(a.task)))
       /\ announced' = TRUE
  ELSE /\ SetRow(a.run, [runs[a.run] EXCEPT !.outcome =
                           IF success THEN "Success"
                           ELSE IF a.attempt = 1 THEN "Error" ELSE "BothFailed"])
       /\ UNCHANGED <<pending, announced>>

FaultyReannounce(fired) == fired # <<>>

(* on_tick emits FireRequested again for the fires nobody has taken.       *)
Reannounce(fired) == fired # <<>> \/ pending # <<>>

(* on_tick: every due task moves on to its next occurrence, and fires      *)
(* unless its previous one is still running.                               *)
Tick ==
  /\ Idle
  /\ LET due == {t \in DOMAIN tasks : tasks[t].enabled /\ tasks[t].next \in 1 .. now}
         ts == [t \in DOMAIN tasks |->
                  IF t \in due THEN [tasks[t] EXCEPT !.next = NextRunAfter(now)]
                  ELSE tasks[t]]
     IN /\ tasks' = ts
        /\ \E fired \in Ascending({t \in due : ~IsRunning(t)}) :
             /\ FireAll(fired, ts, runs, pending,
                        IF due = {} THEN log ELSE Append(log, ReplaceTasks(ts)))
             /\ announced' = Reannounce(fired)
  /\ UNCHANGED <<now, active, handing, panes, window, disk, clicks, launches>>

TimePasses ==
  /\ Outside
  /\ now < MaxTime
  /\ now' = now + 1
  /\ UNCHANGED <<main, handing, panes, window, disk, log, minted, clicks, launches, tried>>

-----------------------------------------------------------------------------
(* The Scheduled Tasks page                                                *)

Click == Outside /\ window /\ clicks > 0 /\ clicks' = clicks - 1

NextOf(enabled) == IF enabled THEN NextRunAfter(now) ELSE 0

SaveTasks(ts) == tasks' = ts /\ log' = Append(log, ReplaceTasks(ts))

(* The editor is saved: a new task, or an edit of one (which another       *)
(* window's page may have deleted, and which then comes back).             *)
Upsert(t, s) ==
  /\ Click
  /\ LET enabled == t \in DOMAIN tasks => tasks[t].enabled
     IN SaveTasks(Put(tasks, t, [provider |-> s.provider, fallback |-> s.fallback,
                                 enabled |-> enabled, catchUp |-> s.catchUp,
                                 next |-> NextOf(enabled)]))
  /\ UNCHANGED <<now, runs, pending, active, announced, handing, panes, window,
                 disk, minted, launches, tried>>

ToggleEnabled(t) ==
  /\ Click
  /\ t \in DOMAIN tasks
  /\ SaveTasks([tasks EXCEPT ![t].enabled = ~@, ![t].next = NextOf(~tasks[t].enabled)])
  /\ UNCHANGED <<now, runs, pending, active, announced, handing, panes, window,
                 disk, minted, launches, tried>>

FaultyForget(t) ==
  /\ runs' = WithoutTask(runs, t)
  /\ UNCHANGED <<active, pending>>

(* What delete drops besides the task: its runs, live or queued.           *)
Forget(t) ==
  /\ runs' = WithoutTask(runs, t)
  /\ active' = Keep(active, {p \in DOMAIN active : active[p].task # t})
  /\ \E kept \in Ascending({k \in DOMAIN pending : pending[k].task # t}) :
       pending' = [k \in DOMAIN kept |-> pending[kept[k]]]

Delete(t) ==
  /\ Click
  /\ t \in DOMAIN tasks
  /\ LET ts == Keep(tasks, Tasks \ {t}) IN
       /\ tasks' = ts
       /\ log' = log \o <<ReplaceTasks(ts), DeleteRuns(t)>>
  /\ Forget(t)
  /\ UNCHANGED <<now, announced, handing, panes, window, disk, minted, launches, tried>>

RunNow(t) ==
  /\ Click
  /\ t \in DOMAIN tasks
  /\ ~IsRunning(t)
  /\ FireAll(<<t>>, tasks, runs, pending, log)
  /\ announced' = TRUE
  /\ UNCHANGED <<now, tasks, active, handing, panes, window, disk, launches>>

-----------------------------------------------------------------------------
(* The workspace                                                           *)

(* handle_scheduler_fires takes the queue; with no window open the event   *)
(* goes to nobody.                                                         *)
HandleFires ==
  /\ announced
  /\ handing = <<>>
  /\ announced' = FALSE
  /\ IF window
     THEN handing' = pending /\ pending' = <<>>
     ELSE UNCHANGED <<handing, pending>>
  /\ UNCHANGED <<now, tasks, runs, active, panes, window, disk, log, minted,
                 clicks, launches, tried>>

(* open_scheduled_task_pane, on_fire_spawned: a pane opens with the task's *)
(* prompt, and its session starts.                                         *)
OpenPane ==
  /\ handing # <<>>
  /\ LET f == Head(handing)
         p == Len(panes) + 1
     IN /\ panes' = Append(panes, [provider |-> f.provider, id |-> "minted",
                                   turn |-> "spawning"])
        /\ IF f.run \in DOMAIN runs
           THEN /\ active' = Put(active, p, [run |-> f.run, task |-> f.task,
                                             attempt |-> AttemptOf(f.run)])
                /\ SetRow(f.run, runs[f.run])
           ELSE UNCHANGED <<active, runs, log>>
        /\ tried' = [tried EXCEPT ![f.run] = Append(@, [provider |-> f.provider,
                                                        end |-> "open"])]
  /\ handing' = Tail(handing)
  /\ UNCHANGED <<now, tasks, pending, announced, window, disk, minted, clicks, launches>>

(* The task's working directory is gone: on_fire_failed.                   *)
FireFailed ==
  /\ handing # <<>>
  /\ LET f == Head(handing) IN
       /\ IF f.run \in DOMAIN runs
          THEN FinishAttempt([run |-> f.run, task |-> runs[f.run].task,
                              attempt |-> AttemptOf(f.run)], FALSE)
          ELSE UNCHANGED <<runs, log, pending, announced>>
       /\ tried' = [tried EXCEPT ![f.run] = Append(@, [provider |-> f.provider,
                                                       end |-> "failed"])]
  /\ handing' = Tail(handing)
  /\ UNCHANGED <<now, tasks, active, panes, window, disk, minted, clicks, launches>>

OpenWindow ==
  /\ Outside
  /\ ~window
  /\ window' = TRUE
  /\ UNCHANGED <<now, main, handing, panes, disk, log, minted, clicks, launches, tried>>

(* A pane is closed for good (a closed tab can be restored for a while):   *)
(* its process is killed, and nothing is reported to the scheduler.        *)
Closed(ps) == [p \in DOMAIN panes |->
                 IF p \in ps THEN [panes[p] EXCEPT !.turn = "closed"] ELSE panes[p]]

ClosePane(p) ==
  /\ Outside
  /\ panes[p].turn # "closed"
  /\ panes' = Closed({p})
  /\ UNCHANGED <<now, main, handing, window, disk, log, minted, clicks, launches, tried>>

CloseWindow ==
  /\ Outside
  /\ window
  /\ window' = FALSE
  /\ panes' = Closed(DOMAIN panes)
  /\ UNCHANGED <<now, main, handing, disk, log, minted, clicks, launches, tried>>

-----------------------------------------------------------------------------
(* The session in a pane: "spawning" a process, "busy" with a turn, "idle" *)
(* between turns, "dead" with no process, or "closed".                     *)

Turn(p, turn) == panes' = [panes EXCEPT ![p].turn = turn]

(* on_session_spawned.  A failure closes the turn in the transcript only.  *)
Spawned(p) ==
  /\ Outside
  /\ panes[p].turn = "spawning"
  /\ \E turn \in {"busy", "dead"} : Turn(p, turn)
  /\ UNCHANGED <<now, main, handing, window, disk, log, minted, clicks, launches, tried>>

(* The pane adopts the session id that SessionInit reports.                *)
SessionInit(p) ==
  /\ Outside
  /\ panes[p].turn = "busy"
  /\ panes[p].provider \in ThreadNamed
  /\ panes[p].id = "minted"
  /\ panes' = [panes EXCEPT ![p].id = "thread"]
  /\ UNCHANGED <<now, main, handing, window, disk, log, minted, clicks, launches, tried>>

FaultyConsumed(p) == active

Consumed(p) == Keep(active, DOMAIN active \ {p})

(* A turn ends, or the process of an idle pane exits: SessionEnded goes to *)
(* on_session_ended under the name the session has by now.  Only a session *)
(* that has announced itself completes a turn.                             *)
SessionEnded(p, success) ==
  /\ Outside
  /\ \/ panes[p].turn = "busy" /\ Turn(p, "idle")
     \/ panes[p].turn = "idle" /\ ~success /\ Len(panes) <= MaxChat /\ Turn(p, "dead")
  /\ success => (panes[p].provider \in ThreadNamed => panes[p].id = "thread")
  /\ IF panes[p].id = "minted" /\ p \in DOMAIN active
     THEN /\ active' = Consumed(p)
          /\ FinishAttempt(active[p], success)
          /\ LET r == active[p].run IN
               tried' = [tried EXCEPT ![r][Len(tried[r])].end =
                           IF success THEN "ok" ELSE "failed"]
     ELSE UNCHANGED <<active, runs, log, pending, announced, tried>>
  /\ UNCHANGED <<now, tasks, handing, window, disk, minted, clicks, launches>>

(* A message typed into the pane starts another turn; a change of mode or  *)
(* model between turns drops the process.                                  *)
UserMessage(p) ==
  /\ Outside
  /\ Len(panes) <= MaxChat
  /\ \/ panes[p].turn = "idle" /\ Turn(p, "busy")
     \/ panes[p].turn = "dead" /\ Turn(p, "spawning")
  /\ UNCHANGED <<now, main, handing, window, disk, log, minted, clicks, launches, tried>>

Detach(p) ==
  /\ Outside
  /\ Len(panes) <= MaxChat
  /\ panes[p].turn = "idle"
  /\ Turn(p, "dead")
  /\ UNCHANGED <<now, main, handing, window, disk, log, minted, clicks, launches, tried>>

-----------------------------------------------------------------------------
(* Starting the program                                                    *)

Init ==
  /\ now = 0
  /\ tasks \in StartTasks
  /\ runs = [r \in {} |-> {}]
  /\ pending = <<>>
  /\ active = [p \in {} |-> {}]
  /\ announced = FALSE
  /\ handing = <<>>
  /\ panes = <<>>
  /\ window = FALSE
  /\ disk = [tasks |-> tasks, runs |-> runs]
  /\ log = <<>>
  /\ minted = 0
  /\ clicks = MaxClicks[tasks]
  /\ launches = 1
  /\ tried = runs

(* The program quits or crashes, losing what the writer had not written,   *)
(* and SchedulerModel::new starts from the tables: runs left running are   *)
(* errors, and a task that is overdue fires if it is to catch up.          *)
Relaunch ==
  /\ Idle
  /\ launches < MaxLaunches
  /\ launches' = launches + 1
  /\ LET orphaned == {r \in DOMAIN disk.runs : disk.runs[r].outcome = "Running"}
         interrupted == [r \in DOMAIN disk.runs |->
                           IF r \in orphaned THEN [disk.runs[r] EXCEPT !.outcome = "Error"]
                           ELSE disk.runs[r]]
         overdue == {t \in DOMAIN disk.tasks :
                       disk.tasks[t].enabled /\ disk.tasks[t].next \in 1 .. now}
         ts == [t \in DOMAIN disk.tasks |->
                  IF t \in overdue \/ (disk.tasks[t].enabled /\ disk.tasks[t].next = 0)
                  THEN [disk.tasks[t] EXCEPT !.next = NextRunAfter(now)]
                  ELSE disk.tasks[t]]
     IN /\ tasks' = ts
        /\ \E rows \in Descending(orphaned),
              fired \in Ascending({t \in overdue : disk.tasks[t].catchUp}) :
             LET marks == [k \in DOMAIN rows |-> UpsertRun(rows[k], interrupted[rows[k]])] IN
             /\ FireAll(fired, ts, interrupted, <<>>,
                        IF ts = disk.tasks THEN marks ELSE Append(marks, ReplaceTasks(ts)))
             /\ announced' = (fired # <<>>)
  /\ active' = [p \in {} |-> {}]
  /\ handing' = <<>>
  /\ panes' = <<>>
  /\ window' = FALSE
  /\ UNCHANGED <<now, disk, clicks>>

Page == \E t \in Tasks : ToggleEnabled(t) \/ Delete(t) \/ RunNow(t)
                         \/ \E s \in Settings : Upsert(t, s)
Pane(p) == \/ ClosePane(p) \/ Spawned(p) \/ SessionInit(p) \/ UserMessage(p) \/ Detach(p)
           \/ \E success \in BOOLEAN : SessionEnded(p, success)

Next ==
  \/ Write
  \/ Tick
  \/ TimePasses
  \/ Page
  \/ HandleFires
  \/ OpenPane
  \/ FireFailed
  \/ OpenWindow
  \/ CloseWindow
  \/ \E p \in DOMAIN panes : Pane(p)
  \/ Relaunch

Spec == Init /\ [][Next]_vars

(* The tick loop never stops, the main thread finishes the handler it is   *)
(* in, and the SQLite writer works through its channel: what HandleFires,  *)
(* OpenPane or FireFailed, and Write do to their queues happens.           *)
Fairness ==
  /\ WF_announced(pending # <<>> /\ Tick)
  /\ WF_announced(announced /\ handing = <<>> /\ announced' = FALSE)
  /\ WF_handing(handing # <<>> /\ handing' = Tail(handing))
  /\ WF_log(log # <<>> /\ log' = Tail(log))

FairSpec == Spec /\ Fairness
-----------------------------------------------------------------------------
(* Properties                                                              *)

Row == [task : Tasks, provider : Providers, outcome : Outcomes]
Fire == [run : Nat \ {0}, task : Tasks, provider : Providers]
IsHistory(rs) == DOMAIN rs \subseteq 1 .. minted /\ rs \in [DOMAIN rs -> Row]
IsTable(ts) == DOMAIN ts \subseteq Tasks /\ ts \in [DOMAIN ts -> Task]

(* Every variable stays in its range.                                      *)
TypeOK ==
  /\ now \in Nat
  /\ IsTable(tasks)
  /\ IsHistory(runs)
  /\ pending \in Seq(Fire)
  /\ DOMAIN active \subseteq DOMAIN panes
  /\ \A p \in DOMAIN active :
       active[p] \in [run : 1 .. minted, task : Tasks, attempt : {1, 2}]
  /\ announced \in BOOLEAN
  /\ handing \in Seq(Fire)
  /\ panes \in Seq([provider : Providers, id : {"minted", "thread"},
                    turn : {"spawning", "busy", "idle", "dead", "closed"}])
  /\ window \in BOOLEAN
  /\ IsTable(disk.tasks)
  /\ IsHistory(disk.runs)
  /\ minted \in Nat
  /\ clicks \in Nat
  /\ launches \in Nat
  /\ DOMAIN tried = 1 .. minted

Queued(t) == {k \in DOMAIN pending : pending[k].task = t}
Handed(t) == {k \in DOMAIN handing : handing[k].task = t}
Live(t) == {p \in DOMAIN active : active[p].task = t}

(* "A task still running its previous occurrence skips this one": at most  *)
(* one attempt of a task is queued or in a pane, however ticks, Run now,   *)
(* edits, retries and relaunches interleave.                               *)
OneAttemptPerTask ==
  \A t \in Tasks :
    Cardinality(Queued(t)) + Cardinality(Handed(t)) + Cardinality(Live(t)) <= 1

(* An attempt that is queued or in a pane belongs to a task that exists    *)
(* and to a run whose row is still in the history, unpruned and running:   *)
(* its end will be recorded.                                               *)
Recordable(r, t) ==
  /\ t \in DOMAIN tasks
  /\ r \in DOMAIN runs
  /\ runs[r].task = t
  /\ runs[r].outcome = "Running"
AttemptsAreRecorded ==
  /\ \A p \in DOMAIN active : Recordable(active[p].run, active[p].task)
  /\ \A k \in DOMAIN pending : Recordable(pending[k].run, pending[k].task)
  /\ \A k \in DOMAIN handing : Recordable(handing[k].run, handing[k].task)

(* "A run whose first attempt fails is retried ONCE": no run is tried a    *)
(* third time, a second attempt follows a failure of the first, the        *)
(* outcome recorded is that of the last attempt, and a run is running only *)
(* while an attempt is under way or queued.                                *)
Waiting(r) ==
  \/ \E k \in DOMAIN pending : pending[k].run = r
  \/ \E k \in DOMAIN handing : handing[k].run = r
EndOf(r) == IF tried[r] = <<>> THEN "none" ELSE Last(tried[r]).end
RetriedOnce ==
  \A r \in 1 .. minted :
    /\ Len(tried[r]) <= 2
    /\ Len(tried[r]) = 2 => tried[r][1].end = "failed"
    /\ r \in DOMAIN runs =>
         /\ runs[r].outcome = "Success" => EndOf(r) = "ok"
         /\ runs[r].outcome = "BothFailed" => EndOf(r) = "failed"
         /\ runs[r].outcome = "Running" => EndOf(r) = "open" \/ Waiting(r)

(* A run's outcome is final: neither a later turn in the same pane nor the *)
(* exit of its process changes it, and once the outcome is in the table no *)
(* relaunch does either.                                                   *)
Final(rs, later) ==
  \A r \in DOMAIN rs \cap DOMAIN later :
    rs[r].outcome # "Running" => later[r].outcome = rs[r].outcome
OutcomesAreFinal ==
  [][/\ launches' = launches => Final(runs, runs')
     /\ Final(disk.runs, disk'.runs)
     /\ launches' # launches => Final(disk.runs, runs')]_vars

(* The tables mirror the model: once the writer has caught up, they hold   *)
(* the tasks and the run history the scheduler has in memory.              *)
Mirrored ==
  FoldLeft(Applied, disk, log) = [tasks |-> tasks, runs |-> runs]

(* A fire that was queued while no window was open is handed to a          *)
(* workspace once a window stays open.                                     *)
FiresAreHandled ==
  (pending # <<>> /\ window) ~> (pending = <<>> \/ ~window)

(* The code's own comment, refuted by the run that checks it: is_running   *)
(* tells "whether a task currently has a live (running) attempt".          *)
RunningMeansLive ==
  Idle => \A t \in Tasks : IsRunning(t) =>
    \/ Queued(t) # {}
    \/ \E p \in Live(t) : panes[p].turn \in {"spawning", "busy"}
=============================================================================
