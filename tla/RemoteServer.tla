--------------------------- MODULE RemoteServer ---------------------------
(***************************************************************************)
(* SSH sessions and their remote servers.  A pane's controller holds back  *)
(* the bootstrap script of a new SSH session until the remote server is    *)
(* installed and connected (remote_server_controller.rs); the manager      *)
(* connects, initializes and, when the transport goes away, reconnects     *)
(* (crates/remote_server/src/manager.rs).                                  *)
(*                                                                         *)
(* The manager's state belongs to the main thread.  The background tasks   *)
(* that connect and shake hands run beside it and hand their results back  *)
(* as closures that the main thread runs later; so does a client's event   *)
(* stream when it ends.  Neither says which connection it was about: both  *)
(* act on whatever the session's state is by then.                         *)
(***************************************************************************)
EXTENDS Integers, Sequences, FiniteSets

CONSTANTS
  Sessions,                \* SSH sessions
  Panes,
  Hosts,                   \* identities of remote servers
  Paths,                   \* working directories
  None,
  MAX_RECONNECT_ATTEMPTS,
  MaxClients               \* bound: connections opened for each session

ASSUME RemoteServerAssumption ==
  /\ None \notin Sessions \cup Panes \cup Hosts \cup Paths
  /\ MAX_RECONNECT_ATTEMPTS \in Nat \ {0}
  /\ MaxClients \in [Sessions -> Nat \ {0}]

VARIABLES
  setup,      \* each pane's SshInitState
  tasks,      \* check_binary and install_binary calls in flight
  blocks,     \* sessions whose choice block is shown
  flushed,    \* sessions whose bootstrap script was written
  paneOf,     \* the pane a session was started in
  alive,      \* sessions whose shell runs
  exited,     \* sessions deregistered
  sessions,   \* the manager's RemoteSessionState of each session
  index,      \* host_to_sessions
  lastPath,   \* last_navigated_path
  bootInfo,   \* sessions with a session_bootstrap_info
  flows,      \* tasks of connect_session and attempt_reconnect
  clients,    \* for each session, its clients, each with its server
  executor,   \* the command executor of an initialized session
  repos       \* hosts the RepoMetadataModel has repositories of

paneVars == <<setup, tasks, blocks, flushed, paneOf, alive, exited>>
managerVars == <<sessions, index, lastPath, bootInfo>>
vars == <<paneVars, managerVars, flows, clients, executor, repos>>

-----------------------------------------------------------------------------
(* States.                                                                 *)

SetupStates == {"Idle", "AwaitingCheck", "AwaitingUserChoice", "AwaitingInstall",
                "AwaitingConnect"}

(* session is the id the state waits for, info the SessionInfo it keeps.   *)
Awaiting(at, session, info) == [at |-> at, session |-> session, info |-> info]
Idle == Awaiting("Idle", None, None)

Stages == {"Untracked", "Connecting", "Initializing", "Connected",
           "Reconnecting", "Disconnected"}

State(at, client, host, attempt) ==
  [at |-> at, client |-> client, host |-> host, attempt |-> attempt]
Untracked == State("Untracked", 0, None, 0)
Connecting == State("Connecting", 0, None, 0)
Disconnected == State("Disconnected", 0, None, 0)
Initializing(client) == State("Initializing", client, None, 0)
Connected(client, host) == State("Connected", client, host, 0)
Reconnecting(attempt, host) == State("Reconnecting", 0, host, attempt)

(* attempt 0 is connect_session's, host the one a reconnection comes from. *)
(* "ok" and "failed" are results handed to the main thread, which has not  *)
(* run them yet.                                                           *)
FlowSteps == {"waiting", "connecting", "handshake", "ok", "failed"}
Flow(s, attempt, host, step) ==
  [session |-> s, attempt |-> attempt, host |-> host, step |-> step, client |-> 0]

(* A client and the server it talks to: "ended" when its process is gone   *)
(* and its event stream's end not yet handled.  told: the server received  *)
(* SessionBootstrapped; asked: directories it was asked to index.          *)
Client(link, host, told, asked) ==
  [link |-> link, host |-> host, told |-> told, asked |-> asked]
NewClient(host) == Client("open", host, FALSE, {})
Ended(client) == Client("ended", client.host, FALSE, client.asked)
Done(client) == Client("done", client.host, FALSE, {})

Fallback == -1     \* the ControlMaster executor
NoExecutor == 0    \* the session is not initialized

IsConnected(s) == sessions[s].at = "Connected"
Tracked(s) == sessions[s].at # "Untracked"
FlowsOf(s) == {f \in flows : f.session = s}

Init ==
  /\ setup = [p \in Panes |-> Idle]
  /\ tasks = {} /\ blocks = {} /\ flushed = {}
  /\ paneOf = [s \in Sessions |-> None]
  /\ alive = {} /\ exited = {}
  /\ sessions = [s \in Sessions |-> Untracked]
  /\ index = [h \in Hosts |-> {}]
  /\ lastPath = [s \in Sessions |-> None]
  /\ bootInfo = {}
  /\ flows = {}
  /\ clients = [s \in Sessions |-> <<>>]
  /\ executor = [s \in Sessions |-> NoExecutor]
  /\ repos = {}

-----------------------------------------------------------------------------
(* The manager.                                                            *)

(* Dropping a session's state drops the client's process with it.          *)
Killed(s, cs) ==
  [c \in 1 .. Len(cs) |->
     IF c = sessions[s].client /\ cs[c].link = "open"
     THEN Ended(cs[c]) ELSE cs[c]]

(* Mutant: the last session is looked for before this one is removed.      *)
LastLookedForFirst(h, s) ==
  /\ index' = [index EXCEPT ![h] = @ \ {s}]
  /\ repos' = IF index[h] = {} THEN repos \ {h} ELSE repos

(* remove_from_host_index, and HostDisconnected when it was the last.      *)
RemoveFromHostIndex(h, s) ==
  /\ index' = [index EXCEPT ![h] = @ \ {s}]
  /\ repos' = IF index[h] \subseteq {s} THEN repos \ {h} ELSE repos

(* What becomes of the flow that is done and of the one that follows it.   *)
Continue(done, next) == flows' = (flows \ done) \cup next

AttemptReconnect(s, done, attempt, host) ==
  /\ sessions' = [sessions EXCEPT ![s] = Reconnecting(attempt, host)]
  /\ Continue(done, {Flow(s, attempt, host, "waiting")})

(* Mutants: the navigated path is kept; a session that is still being      *)
(* initialized is reconnected as a connected one is.                       *)
PathKept(s, done, cs) ==
  /\ IsConnected(s)
  /\ RemoveFromHostIndex(sessions[s].host, s)
  /\ clients' = [clients EXCEPT ![s] = Killed(s, cs)]
  /\ AttemptReconnect(s, done, 1, sessions[s].host)
  /\ UNCHANGED lastPath
InitializingReconnects(s, done, cs) ==
  /\ sessions[s].at = "Initializing"
  /\ clients' = [clients EXCEPT ![s] = Killed(s, cs)]
  /\ AttemptReconnect(s, done, 1, None)
  /\ UNCHANGED <<index, lastPath, repos>>

MarkSessionDisconnected(s, done, cs) ==
  \/ /\ ~Tracked(s)
     /\ clients' = [clients EXCEPT ![s] = cs]
     /\ Continue(done, {})
     /\ UNCHANGED <<sessions, index, lastPath, repos>>
  \/ /\ Tracked(s) /\ ~IsConnected(s)
     /\ sessions' = [sessions EXCEPT ![s] = Disconnected]
     /\ clients' = [clients EXCEPT ![s] = Killed(s, cs)]
     /\ Continue(done, {})
     /\ UNCHANGED <<index, lastPath, repos>>
  \/ /\ IsConnected(s)   \* and the transport is_reconnectable
     /\ RemoveFromHostIndex(sessions[s].host, s)
     /\ lastPath' = [lastPath EXCEPT ![s] = None]
     /\ clients' = [clients EXCEPT ![s] = Killed(s, cs)]
     /\ AttemptReconnect(s, done, 1, sessions[s].host)
  \/ /\ IsConnected(s)   \* and it is not: finalize_disconnect
     /\ RemoveFromHostIndex(sessions[s].host, s)
     /\ sessions' = [sessions EXCEPT ![s] = Disconnected]
     /\ clients' = [clients EXCEPT ![s] = Killed(s, cs)]
     /\ Continue(done, {})
     /\ UNCHANGED lastPath

(* A message to the client of a connected session; lost once it ended.     *)
Told(c, cs) ==
  IF cs[c].link = "open" THEN [cs EXCEPT ![c].told = TRUE] ELSE cs

(* Mutant: the bootstrap is not sent again.                                *)
ConnectedWithoutTelling(s, host) ==
  /\ sessions[s].at = "Initializing"
  /\ sessions' = [sessions EXCEPT ![s] = Connected(sessions[s].client, host)]
  /\ index' = [index EXCEPT ![host] = @ \cup {s}]
  /\ UNCHANGED clients

(* Any state but Initializing is removed and the session forgotten.        *)
MarkSessionConnected(s, host) ==
  LET c == sessions[s].client IN
  \/ /\ sessions[s].at = "Initializing"
     /\ sessions' = [sessions EXCEPT ![s] = Connected(c, host)]
     /\ index' = [index EXCEPT ![host] = @ \cup {s}]
     /\ clients' = [clients EXCEPT ![s] = IF s \in bootInfo THEN Told(c, @) ELSE @]
  \/ /\ sessions[s].at # "Initializing"
     /\ sessions' = [sessions EXCEPT ![s] = Untracked]
     /\ clients' = [clients EXCEPT ![s] = Killed(s, @)]
     /\ UNCHANGED index

-----------------------------------------------------------------------------
(* The controller.                                                         *)

Awaits(p, at, s) == setup[p].at = at /\ setup[p].session = s

(* SessionConnected and SessionConnectionFailed both let the bootstrap go. *)
Release(s) ==
  LET held == {p \in Panes : Awaits(p, "AwaitingConnect", s)} IN
  /\ setup' = [p \in Panes |-> IF p \in held THEN Idle ELSE setup[p]]
  /\ flushed' = flushed \cup {setup[p].info : p \in held}

(* connect_session.                                                        *)
ConnectSession(p, s) ==
  /\ setup' = [setup EXCEPT ![p] = Awaiting("AwaitingConnect", s, @.info)]
  /\ sessions' = [sessions EXCEPT ![s] = Connecting]
  /\ flows' = flows \cup {Flow(s, 0, None, "connecting")}
  /\ clients' = [clients EXCEPT ![s] = Killed(s, @)]

ManagerIdle == UNCHANGED <<managerVars, flows, clients, executor, repos>>

(* on_ssh_init_shell_requested: a new SSH session in a pane none runs in.  *)
SshInitShell(p, s) ==
  /\ paneOf[s] = None
  /\ \A t \in alive : paneOf[t] # p
  /\ paneOf' = [paneOf EXCEPT ![s] = p]
  /\ alive' = alive \cup {s}
  /\ flushed' = IF setup[p].at = "Idle" THEN flushed ELSE flushed \cup {setup[p].info}
  /\ setup' = [setup EXCEPT ![p] = Awaiting("AwaitingCheck", s, s)]
  /\ tasks' = tasks \cup {<<"check", s>>}
  /\ UNCHANGED <<blocks, exited>>
  /\ ManagerIdle

(* on_binary_check_complete, with the answer and the ssh_extension_install *)
(* _mode of the settings.                                                  *)
BinaryCheckComplete(s) ==
  /\ <<"check", s>> \in tasks
  /\ UNCHANGED <<paneOf, alive, exited, index, lastPath, bootInfo, executor, repos>>
  /\ \/ /\ ~\E p \in Panes : Awaits(p, "AwaitingCheck", s)
        /\ tasks' = tasks \ {<<"check", s>>}
        /\ UNCHANGED <<setup, blocks, flushed, sessions, flows, clients>>
     \/ \E p \in Panes :
        /\ Awaits(p, "AwaitingCheck", s)
        /\ \/ /\ ConnectSession(p, s)     \* the binary is there
              /\ tasks' = tasks \ {<<"check", s>>}
              /\ UNCHANGED <<blocks, flushed>>
           \/ /\ setup' = [setup EXCEPT ![p].at = "AwaitingInstall"]
              /\ tasks' = (tasks \ {<<"check", s>>}) \cup {<<"install", s>>}
              /\ UNCHANGED <<blocks, flushed, sessions, flows, clients>>
           \/ /\ setup' = [setup EXCEPT ![p].at = "AwaitingUserChoice"]
              /\ tasks' = tasks \ {<<"check", s>>}
              /\ blocks' = blocks \cup {s}
              /\ UNCHANGED <<flushed, sessions, flows, clients>>
           \/ /\ setup' = [setup EXCEPT ![p] = Idle]   \* never install, or failed
              /\ tasks' = tasks \ {<<"check", s>>}
              /\ flushed' = flushed \cup {setup[p].info}
              /\ UNCHANGED <<blocks, sessions, flows, clients>>

(* handle_ssh_remote_server_install.                                       *)
ChooseInstall(s) ==
  LET p == paneOf[s] IN
  /\ s \in blocks
  /\ blocks' = blocks \ {s}
  /\ \/ /\ setup[p].at = "AwaitingUserChoice"
        /\ setup' = [setup EXCEPT ![p] = Awaiting("AwaitingInstall", s, @.info)]
        /\ tasks' = tasks \cup {<<"install", s>>}
     \/ /\ setup[p].at # "AwaitingUserChoice"
        /\ UNCHANGED <<setup, tasks>>
  /\ UNCHANGED <<flushed, paneOf, alive, exited>>
  /\ ManagerIdle

(* handle_ssh_remote_server_skip: the state is replaced whatever it is.    *)
ChooseSkip(s) ==
  LET p == paneOf[s] IN
  /\ s \in blocks
  /\ blocks' = blocks \ {s}
  /\ setup' = [setup EXCEPT ![p] = Idle]
  /\ flushed' = IF setup[p].at = "AwaitingUserChoice"
                THEN flushed \cup {setup[p].info} ELSE flushed
  /\ UNCHANGED <<tasks, paneOf, alive, exited>>
  /\ ManagerIdle

(* on_binary_install_complete.                                             *)
BinaryInstallComplete(s) ==
  /\ <<"install", s>> \in tasks
  /\ tasks' = tasks \ {<<"install", s>>}
  /\ UNCHANGED <<blocks, paneOf, alive, exited, index, lastPath, bootInfo, executor, repos>>
  /\ \/ /\ ~\E p \in Panes : Awaits(p, "AwaitingInstall", s)
        /\ UNCHANGED <<setup, flushed, sessions, flows, clients>>
     \/ \E p \in Panes :
        /\ Awaits(p, "AwaitingInstall", s)
        /\ \/ /\ ConnectSession(p, s)
              /\ UNCHANGED flushed
           \/ /\ setup' = [setup EXCEPT ![p] = Idle]
              /\ flushed' = flushed \cup {setup[p].info}
              /\ UNCHANGED <<sessions, flows, clients>>

-----------------------------------------------------------------------------
(* The background tasks: run_connect_and_handshake and its callers.        *)

ControllersIdle == UNCHANGED paneVars

Advance(f, step) == Continue({f}, {[f EXCEPT !.step = step]})

(* attempt_reconnect's delay is over.                                      *)
Wake(f) ==
  /\ f.step = "waiting"
  /\ \/ Tracked(f.session) /\ Advance(f, "connecting")
     \/ ~Tracked(f.session) /\ Continue({f}, {})
  /\ ControllersIdle
  /\ UNCHANGED <<managerVars, clients, executor, repos>>

(* transport.connect() made a client, and its closure runs.                *)
InsertInitializing(f, host) ==
  LET s == f.session
      c == Len(clients[s]) + 1 IN
  /\ sessions' = [sessions EXCEPT ![s] = Initializing(c)]
  /\ clients' = [clients EXCEPT ![s] = Append(Killed(s, @), NewClient(host))]
  /\ Continue({f}, {[f EXCEPT !.step = "handshake", !.client = c]})

(* Mutant: the closure does not look whether the session is still there.   *)
ConnectsUnchecked(f) ==
  /\ f.step = "connecting"
  /\ Len(clients[f.session]) < MaxClients[f.session]
  /\ \E h \in Hosts : InsertInitializing(f, h)
  /\ ControllersIdle
  /\ UNCHANGED <<index, lastPath, bootInfo, executor, repos>>

TransportConnects(f) ==
  /\ f.step = "connecting"
  /\ \/ /\ Tracked(f.session)
        /\ Len(clients[f.session]) < MaxClients[f.session]
        /\ \E h \in Hosts : InsertInitializing(f, h)
     \/ /\ ~Tracked(f.session)
        /\ Advance(f, "failed")
        /\ UNCHANGED <<sessions, clients>>
  /\ ControllersIdle
  /\ UNCHANGED <<index, lastPath, bootInfo, executor, repos>>

TransportFails(f) ==
  /\ f.step = "connecting"
  /\ Advance(f, "failed")
  /\ ControllersIdle
  /\ UNCHANGED <<managerVars, clients, executor, repos>>

(* client.initialize() answers while the connection is up; it can fail or  *)
(* time out at any time.                                                   *)
HandshakeSucceeds(f) ==
  /\ f.step = "handshake"
  /\ clients[f.session][f.client].link = "open"
  /\ Advance(f, "ok")
  /\ ControllersIdle
  /\ UNCHANGED <<managerVars, clients, executor, repos>>

HandshakeFails(f) ==
  /\ f.step = "handshake"
  /\ Advance(f, "failed")
  /\ ControllersIdle
  /\ UNCHANGED <<managerVars, clients, executor, repos>>

(* Mutant: the executor made at the bootstrap stays.                       *)
ExecutorKept(s) == executor

(* SessionReconnected swaps the executor of an initialized session.        *)
SwapExecutor(s) ==
  IF IsConnected(s)' /\ executor[s] # NoExecutor
  THEN [executor EXCEPT ![s] = sessions'[s].client] ELSE executor

(* The closure of a flow that ended well.                                  *)
FlowConnected(f) ==
  LET s == f.session
      host == clients[s][f.client].host IN
  /\ f.step = "ok"
  /\ Continue({f}, {})
  /\ UNCHANGED <<tasks, blocks, paneOf, alive, exited, lastPath, bootInfo, repos>>
  /\ \/ /\ f.attempt > 0 /\ ~Tracked(s)
        /\ UNCHANGED <<setup, flushed, sessions, index, clients, executor>>
     \/ /\ f.attempt > 0 => Tracked(s)
        /\ MarkSessionConnected(s, host)
        /\ IF IsConnected(s)' THEN Release(s) ELSE UNCHANGED <<setup, flushed>>
        /\ executor' = IF f.attempt > 0 THEN SwapExecutor(s) ELSE executor

(* Mutants: one attempt too many; attempts that are not counted.           *)
OneAttemptMore(f) ==
  /\ clients' = [clients EXCEPT ![f.session] = Killed(f.session, @)]
  /\ f.attempt <= MAX_RECONNECT_ATTEMPTS
  /\ AttemptReconnect(f.session, {f}, f.attempt + 1, f.host)
AttemptsUncounted(f) ==
  /\ clients' = [clients EXCEPT ![f.session] = Killed(f.session, @)]
  /\ AttemptReconnect(f.session, {f}, f.attempt, f.host)

(* handle_reconnect_failure.                                               *)
HandleReconnectFailure(f) ==
  LET s == f.session IN
  /\ clients' = [clients EXCEPT ![s] = Killed(s, @)]
  /\ \/ /\ f.attempt < MAX_RECONNECT_ATTEMPTS
        /\ AttemptReconnect(s, {f}, f.attempt + 1, f.host)
     \/ /\ f.attempt >= MAX_RECONNECT_ATTEMPTS
        /\ sessions' = [sessions EXCEPT ![s] = Disconnected]
        /\ Continue({f}, {})

(* The closure of a flow that failed: SessionConnectionFailed for the      *)
(* first, another attempt for the others.                                  *)
FlowFailed(f) ==
  LET s == f.session IN
  /\ f.step = "failed"
  /\ UNCHANGED <<tasks, blocks, paneOf, alive, exited, bootInfo, executor>>
  /\ \/ /\ f.attempt = 0
        /\ Release(s)
        /\ MarkSessionDisconnected(s, {f}, clients[s])
     \/ /\ f.attempt > 0
        /\ UNCHANGED <<setup, flushed, index, lastPath, repos>>
        /\ \/ Tracked(s) /\ HandleReconnectFailure(f)
           \/ ~Tracked(s) /\ Continue({f}, {}) /\ UNCHANGED <<sessions, clients>>

-----------------------------------------------------------------------------
(* The connections.                                                        *)

(* The server's process or the transport is gone.                          *)
LinkBreaks(s, c) ==
  /\ clients[s][c].link = "open"
  /\ clients' = [clients EXCEPT ![s][c] = Ended(@)]
  /\ ControllersIdle
  /\ UNCHANGED <<managerVars, flows, executor, repos>>

(* The main thread has drained a client's event stream.                    *)
StreamEnds(s, c) ==
  /\ clients[s][c].link = "ended"
  /\ MarkSessionDisconnected(s, {}, [clients[s] EXCEPT ![c] = Done(@)])
  /\ ControllersIdle
  /\ UNCHANGED <<bootInfo, executor>>

(* forward_client_event: a RepoMetadataSnapshot of a directory asked for.  *)
RepoMetadataSnapshot(s, c) ==
  /\ clients[s][c].link # "done" /\ clients[s][c].asked # {}
  /\ IsConnected(s)
  /\ repos' = repos \cup {sessions[s].host}
  /\ ControllersIdle
  /\ UNCHANGED <<managerVars, flows, clients, executor>>

-----------------------------------------------------------------------------
(* The session's shell and its pane.                                       *)

(* complete_bootstrapped_session: the server is told first, then the       *)
(* session's executor is chosen.                                           *)
Bootstrapped(s) ==
  LET c == sessions[s].client IN
  /\ s \in alive \cap flushed
  /\ executor[s] = NoExecutor
  /\ bootInfo' = bootInfo \cup {s}
  /\ \/ /\ IsConnected(s)
        /\ clients' = [clients EXCEPT ![s] = Told(c, @)]
        /\ executor' = [executor EXCEPT ![s] = c]
     \/ /\ ~IsConnected(s)
        /\ executor' = [executor EXCEPT ![s] = Fallback]
        /\ UNCHANGED clients
  /\ ControllersIdle
  /\ UNCHANGED <<sessions, index, lastPath, flows, repos>>

(* navigate_to_directory.                                                  *)
NavigateToDirectory(s, path) ==
  LET c == sessions[s].client IN
  /\ s \in alive /\ executor[s] # NoExecutor
  /\ lastPath[s] # path
  /\ IsConnected(s)
  /\ lastPath' = [lastPath EXCEPT ![s] = path]
  /\ clients' = IF clients[s][c].link = "open"
                THEN [clients EXCEPT ![s][c].asked = @ \cup {path}] ELSE clients
  /\ ControllersIdle
  /\ UNCHANGED <<sessions, index, bootInfo, flows, executor, repos>>

(* ExitShell: deregister_session.                                          *)
ExitShell(s) ==
  /\ s \in alive /\ executor[s] # NoExecutor
  /\ alive' = alive \ {s}
  /\ exited' = exited \cup {s}
  /\ blocks' = blocks \ {s}
  /\ sessions' = [sessions EXCEPT ![s] = Untracked]
  /\ lastPath' = [lastPath EXCEPT ![s] = None]
  /\ bootInfo' = bootInfo \ {s}
  /\ clients' = [clients EXCEPT ![s] = Killed(s, @)]
  /\ \/ /\ sessions[s].host # None
        /\ RemoveFromHostIndex(sessions[s].host, s)
     \/ /\ sessions[s].host = None
        /\ UNCHANGED <<index, repos>>
  /\ UNCHANGED <<setup, tasks, flushed, paneOf, flows, executor>>

(* The ssh process dies without the hook: Ctrl-C, the network gone.        *)
SshDies(s) ==
  /\ s \in alive
  /\ alive' = alive \ {s}
  /\ UNCHANGED <<setup, tasks, blocks, flushed, paneOf, exited>>
  /\ ManagerIdle

Closures(f) == FlowConnected(f) \/ FlowFailed(f)
Background(f) ==
  \/ Wake(f)
  \/ TransportConnects(f)
  \/ TransportFails(f)
  \/ HandshakeSucceeds(f)
  \/ HandshakeFails(f)
  \/ Closures(f)

Next ==
  \/ \E s \in Sessions :
       \/ \E p \in Panes : SshInitShell(p, s)
       \/ BinaryCheckComplete(s)
       \/ ChooseInstall(s)
       \/ ChooseSkip(s)
       \/ BinaryInstallComplete(s)
       \/ Bootstrapped(s)
       \/ \E path \in Paths : NavigateToDirectory(s, path)
       \/ ExitShell(s)
       \/ SshDies(s)
       \/ \E c \in 1 .. Len(clients[s]) :
            LinkBreaks(s, c) \/ StreamEnds(s, c) \/ RepoMetadataSnapshot(s, c)
  \/ \E f \in flows : Background(f)

(* Timers fire, requests time out and the main thread runs its closures.   *)
Fairness == \A s \in Sessions : WF_vars(\E f \in FlowsOf(s) : Background(f))

Spec == Init /\ [][Next]_vars
FairSpec == Spec /\ Fairness

-----------------------------------------------------------------------------
(* Properties.                                                             *)

(* Every variable has the values its type in the code allows.              *)
TypeOK ==
  /\ setup \in [Panes -> [at : SetupStates, session : Sessions \cup {None},
                          info : Sessions \cup {None}]]
  /\ tasks \subseteq {"check", "install"} \X Sessions
  /\ blocks \cup flushed \cup alive \cup exited \cup bootInfo \subseteq Sessions
  /\ paneOf \in [Sessions -> Panes \cup {None}]
  /\ sessions \in [Sessions -> [at : Stages, client : Nat,
                                host : Hosts \cup {None},
                                attempt : 0 .. MAX_RECONNECT_ATTEMPTS]]
  /\ index \in [Hosts -> SUBSET Sessions]
  /\ lastPath \in [Sessions -> Paths \cup {None}]
  /\ flows \subseteq [session : Sessions, attempt : 0 .. MAX_RECONNECT_ATTEMPTS,
                      step : FlowSteps, client : Nat,
                      host : Hosts \cup {None}]
  /\ \A s \in Sessions :
       /\ Len(clients[s]) <= MaxClients[s]
       /\ \A c \in 1 .. Len(clients[s]) :
            clients[s][c] \in [link : {"open", "ended", "done"}, host : Hosts,
                               told : BOOLEAN, asked : SUBSET Paths]
  /\ \A s \in Sessions : executor[s] \in Fallback .. MaxClients[s]
  /\ repos \subseteq Hosts

(* The host index lists the connected sessions of each host and no other,  *)
(* and the metadata of a host's repositories goes with the last of them,   *)
(* through reconnections that find another host, late ends of old streams  *)
(* and deregistrations.                                                    *)
HostsMatch ==
  /\ \A h \in Hosts :
       index[h] = {s \in Sessions : IsConnected(s) /\ sessions[s].host = h}
  /\ \A h \in repos : index[h] # {}

(* A session deregistered is not tracked again by a connection or a        *)
(* reconnection that was under way.                                        *)
NotResurrected == \A s \in exited : ~Tracked(s)

(* At most one task at a time connects a session, although a stream that   *)
(* ends late starts reconnections of its own: the closures do not check    *)
(* whose client they find.                                                 *)
OneFlow == \A s \in Sessions : Cardinality(FlowsOf(s)) <= 1

(* The server a bootstrapped session is connected to has been told of the  *)
(* bootstrap, whichever came first and however often it reconnected.       *)
BootstrapTold ==
  \A s \in bootInfo :
    IsConnected(s) =>
      LET client == clients[s][sessions[s].client] IN
      client.link = "open" => client.told

(* The path that navigate_to_directory would not ask for again is one the  *)
(* server now connected has been asked for.                                *)
NavigationAsked ==
  \A s \in Sessions :
    IsConnected(s) /\ lastPath[s] # None =>
      LET client == clients[s][sessions[s].client] IN
      client.link = "open" => lastPath[s] \in client.asked

(* A connected session that runs commands through a remote server does so  *)
(* through the client of its present connection.                           *)
ExecutorCurrent ==
  \A s \in Sessions :
    IsConnected(s) /\ executor[s] \notin {NoExecutor, Fallback} =>
      executor[s] = sessions[s].client

(* Reconnecting ends: in a connection, or given up after the attempts.     *)
Settles ==
  \A s \in Sessions :
    sessions[s].at = "Reconnecting" ~> sessions[s].at # "Reconnecting"

(* "Flushes the stashed bootstrap so the SSH session is not permanently    *)
(* blocked" (remote_server_controller.rs): while a running session's       *)
(* bootstrap is held back, something is under way that releases it.        *)
Releases(p, s) ==
  /\ setup[p].info = s
  /\ LET id == setup[p].session IN
     \/ setup[p].at = "AwaitingCheck" /\ <<"check", id>> \in tasks
     \/ setup[p].at = "AwaitingUserChoice" /\ \E t \in blocks : paneOf[t] = p
     \/ setup[p].at = "AwaitingInstall" /\ <<"install", id>> \in tasks
     \/ setup[p].at = "AwaitingConnect" /\ FlowsOf(id) # {}
NotBlocked == \A s \in alive \ flushed : \E p \in Panes : Releases(p, s)
=============================================================================
