-------------------------- MODULE RemoteServerProofs --------------------------
(* Theorems about RemoteServer, for any sessions, panes, hosts, paths and  *)
(* bounds: whatever stream ends late, whatever reconnects, is deregistered *)
(* or dies, the manager connects a session with one task at a time, and    *)
(* what it says of a session's connection is true of the present one.      *)
EXTENDS RemoteServer, FiniteSetTheorems, SequenceTheorems, TLAPS

-----------------------------------------------------------------------------
(* Types.  TypeInv adds to TypeOK that a session waits for or talks to a   *)
(* client that was opened for it, and so does a handshake.                 *)

SetupState == [at : SetupStates, session : Sessions \cup {None}, info : Sessions \cup {None}]
SessionState == [at : Stages, client : Nat, host : Hosts \cup {None},
                 attempt : 0 .. MAX_RECONNECT_ATTEMPTS]
FlowState == [session : Sessions, attempt : 0 .. MAX_RECONNECT_ATTEMPTS,
              step : FlowSteps, client : Nat, host : Hosts \cup {None}]
ClientState == [link : {"open", "ended", "done"}, host : Hosts,
                told : BOOLEAN, asked : SUBSET Paths]

PaneTypes ==
  /\ setup \in [Panes -> SetupState]
  /\ \A p \in Panes : setup[p].at # "Idle" => setup[p].info \in Sessions
  /\ tasks \subseteq {"check", "install"} \X Sessions
  /\ blocks \subseteq Sessions /\ flushed \subseteq Sessions
  /\ alive \subseteq Sessions /\ exited \subseteq Sessions
  /\ paneOf \in [Sessions -> Panes \cup {None}]
  /\ \A s \in Sessions : s \in blocks \/ <<"check", s>> \in tasks => paneOf[s] \in Panes

HasClient(s) == sessions[s].at \in {"Initializing", "Connected"}

SessionTypes ==
  /\ sessions \in [Sessions -> SessionState]
  /\ \A s \in Sessions : IsConnected(s) => sessions[s].host \in Hosts
  /\ index \in [Hosts -> SUBSET Sessions]
  /\ lastPath \in [Sessions -> Paths \cup {None}]
  /\ repos \subseteq Hosts

FlowTypes == flows \subseteq FlowState
BootTypes == bootInfo \subseteq Sessions
ExecutorTypes ==
  /\ DOMAIN executor = Sessions
  /\ \A s \in Sessions : executor[s] \in Fallback .. MaxClients[s]

ClientTypes ==
  /\ clients \in [Sessions -> Seq(ClientState)]
  /\ \A s \in Sessions :
       /\ Len(clients[s]) <= MaxClients[s]
       /\ HasClient(s) => sessions[s].client \in 1 .. Len(clients[s])
  /\ \A f \in flows :
       f.step \in {"handshake", "ok"} => f.client \in 1 .. Len(clients[f.session])

TypeInv ==
  /\ PaneTypes /\ SessionTypes /\ FlowTypes
  /\ BootTypes /\ ExecutorTypes /\ ClientTypes

LEMMA TypeInvOK == TypeInv => TypeOK
<1> SUFFICES ASSUME TypeInv PROVE TypeOK
  OBVIOUS
<1>2. \A s \in Sessions : \A c \in 1 .. Len(clients[s]) : clients[s][c] \in ClientState
  BY DEF TypeInv, ClientTypes
<1>3. blocks \cup flushed \cup alive \cup exited \cup bootInfo \subseteq Sessions
  BY DEF TypeInv, PaneTypes, BootTypes
<1> QED
  BY <1>2, <1>3 DEF TypeInv, TypeOK, PaneTypes, SessionTypes, FlowTypes, ExecutorTypes,
                    ClientTypes, SetupState, SessionState, FlowState, ClientState

(* The values the states are made with.                                    *)
LEMMA StateTypes ==
  /\ Untracked \in SessionState
  /\ Connecting \in SessionState
  /\ Disconnected \in SessionState
  /\ \A c \in Nat : Initializing(c) \in SessionState
  /\ \A c \in Nat, h \in Hosts : Connected(c, h) \in SessionState
  /\ \A a \in 0 .. MAX_RECONNECT_ATTEMPTS, h \in Hosts \cup {None} :
       Reconnecting(a, h) \in SessionState
<1>1. 0 \in 0 .. MAX_RECONNECT_ATTEMPTS /\ 0 \in Nat
  BY RemoteServerAssumption
<1> QED
  BY <1>1 DEF Untracked, Connecting, Disconnected, Initializing, Connected, Reconnecting,
              State, SessionState, Stages

(* What dropping the state of a session leaves of its clients: the one of  *)
(* the state is no longer open, the others are as they were.               *)
LEMMA KilledType ==
  ASSUME NEW s, NEW cs \in Seq(ClientState)
  PROVE  /\ Killed(s, cs) \in Seq(ClientState)
         /\ Len(Killed(s, cs)) = Len(cs)
         /\ \A c \in 1 .. Len(cs) : Killed(s, cs)[c].link = "open" => Killed(s, cs)[c] = cs[c]
<1> DEFINE k(c) == IF c = sessions[s].client /\ cs[c].link = "open" THEN Ended(cs[c]) ELSE cs[c]
<1>1. Len(cs) \in Nat
  OBVIOUS
<1>2. \A c \in 1 .. Len(cs) : cs[c] \in ClientState
  OBVIOUS
<1>3. \A c \in 1 .. Len(cs) : Ended(cs[c]) \in ClientState /\ Ended(cs[c]).link = "ended"
  BY <1>2 DEF Ended, Client, ClientState
<1>4. \A c \in 1 .. Len(cs) : k(c) \in ClientState /\ (k(c).link = "open" => k(c) = cs[c])
  BY <1>2, <1>3
<1>5. Killed(s, cs) = [c \in 1 .. Len(cs) |-> k(c)]
  BY DEF Killed
<1> HIDE DEF k
<1>6. Killed(s, cs) \in Seq(ClientState) /\ Len(Killed(s, cs)) = Len(cs)
  BY <1>1, <1>4, <1>5, IsASeq, LenProperties
<1> QED
  BY <1>4, <1>5, <1>6

(* A message changes one client, if it is open, and what it was told.      *)
LEMMA ToldType ==
  ASSUME NEW cs \in Seq(ClientState), NEW c \in 1 .. Len(cs)
  PROVE  /\ Told(c, cs) \in Seq(ClientState)
         /\ Len(Told(c, cs)) = Len(cs)
         /\ Told(c, cs)[c].link = "open" => Told(c, cs)[c].told
         /\ Told(c, cs)[c].asked = cs[c].asked
         /\ Told(c, cs)[c].link = cs[c].link
<1>1. cs[c] \in ClientState
  OBVIOUS
<1>2. CASE cs[c].link = "open"
  <2> DEFINE e == [cs[c] EXCEPT !.told = TRUE]
  <2>1. Told(c, cs) = [cs EXCEPT ![c] = e]
    BY <1>2 DEF Told
  <2>2. e \in ClientState /\ e.told /\ e.asked = cs[c].asked /\ e.link = cs[c].link
    <3>1. e \in ClientState
      BY <1>1 DEF ClientState
    <3> QED
      BY <1>1, <3>1 DEF ClientState
  <2> HIDE DEF e
  <2> QED
    BY <2>1, <2>2, ExceptSeq
<1>3. CASE cs[c].link # "open"
  BY <1>3 DEF Told
<1> QED
  BY <1>2, <1>3
(* What a step does to one session, and to the tasks that connect it,      *)
(* keeps the types if the new state and the new tasks have theirs.         *)
LEMMA SessionStep ==
  ASSUME TypeInv, NEW s \in Sessions, NEW state \in SessionState, NEW cs \in Seq(ClientState),
         NEW done, NEW next, next \subseteq FlowState,
         Len(clients[s]) <= Len(cs), Len(cs) <= MaxClients[s],
         state.at = "Connected" => state.host \in Hosts,
         state.at \in {"Initializing", "Connected"} => state.client \in 1 .. Len(cs),
         \A f \in next : /\ f.session = s
                         /\ f.step \in {"handshake", "ok"} => f.client \in 1 .. Len(cs),
         sessions' = [sessions EXCEPT ![s] = state],
         clients' = [clients EXCEPT ![s] = cs],
         Continue(done, next)
  PROVE  /\ sessions' \in [Sessions -> SessionState]
         /\ \A t \in Sessions : IsConnected(t)' => sessions'[t].host \in Hosts
         /\ FlowTypes'
         /\ ClientTypes'
<1>1. /\ sessions \in [Sessions -> SessionState]
      /\ clients \in [Sessions -> Seq(ClientState)]
      /\ flows \subseteq FlowState
  BY DEF TypeInv, SessionTypes, ClientTypes, FlowTypes
<1>2. \A t \in Sessions : /\ sessions'[t] = IF t = s THEN state ELSE sessions[t]
                          /\ clients'[t] = IF t = s THEN cs ELSE clients[t]
                          /\ Len(clients[t]) \in Nat
  <2>1. \A t \in Sessions : clients[t] \in Seq(ClientState)
    BY <1>1
  <2>2. \A t \in Sessions : Len(clients[t]) \in Nat
    BY <2>1
  <2>3. \A t \in Sessions : sessions'[t] = IF t = s THEN state ELSE sessions[t]
    BY <1>1
  <2>4. \A t \in Sessions : clients'[t] = IF t = s THEN cs ELSE clients[t]
    BY <1>1
  <2> QED
    BY <2>2, <2>3, <2>4
<1>3. sessions' \in [Sessions -> SessionState] /\ clients' \in [Sessions -> Seq(ClientState)]
  BY <1>1
<1>4. \A t \in Sessions : IsConnected(t)' => sessions'[t].host \in Hosts
  BY <1>2 DEF TypeInv, SessionTypes, IsConnected
<1>5. FlowTypes'
  BY <1>1 DEF Continue, FlowTypes
<1>6. \A t \in Sessions :
        /\ Len(clients'[t]) <= MaxClients[t]
        /\ HasClient(t)' => sessions'[t].client \in 1 .. Len(clients'[t])
  BY <1>2 DEF TypeInv, ClientTypes, HasClient
<1>7. ASSUME NEW f \in flows', f.step \in {"handshake", "ok"}
      PROVE  f.client \in 1 .. Len(clients'[f.session])
  <2>1. CASE f \in next
    <3>1. f.session = s /\ f.client \in 1 .. Len(cs)
      BY <1>7, <2>1, Zenon
    <3>2. clients'[s] = cs
      BY <1>2
    <3> QED
      BY <3>1, <3>2
  <2>2. CASE f \in flows
    <3>1. f.session \in Sessions /\ f.client \in 1 .. Len(clients[f.session])
      BY <1>1, <1>7, <2>2 DEF TypeInv, ClientTypes, FlowState
    <3>2. Len(clients[f.session]) <= Len(clients'[f.session])
      BY <1>2, <3>1
    <3>3. Len(clients'[f.session]) \in Nat
      BY <1>3, <3>1
    <3> QED
      BY <1>2, <3>1, <3>2, <3>3
  <2> QED
    BY <1>7, <2>1, <2>2 DEF Continue
<1> QED
  BY <1>3, <1>4, <1>5, <1>6, <1>7 DEF ClientTypes

(* ... and so does a step that leaves the session as it is.                *)
LEMMA ClientStep ==
  ASSUME TypeInv, NEW s \in Sessions, NEW cs \in Seq(ClientState), NEW done, NEW next,
         next \subseteq FlowState,
         Len(cs) = Len(clients[s]),
         \A f \in next : /\ f.session = s
                         /\ f.step \in {"handshake", "ok"} => f.client \in 1 .. Len(cs),
         sessions' = sessions,
         clients' = [clients EXCEPT ![s] = cs],
         Continue(done, next)
  PROVE  FlowTypes' /\ ClientTypes'
<1>1. /\ sessions \in [Sessions -> SessionState]
      /\ clients \in [Sessions -> Seq(ClientState)]
      /\ sessions[s] \in SessionState
      /\ Len(clients[s]) <= MaxClients[s]
      /\ MaxClients[s] \in Nat
  BY RemoteServerAssumption DEF TypeInv, SessionTypes, ClientTypes
<1>2. sessions' = [sessions EXCEPT ![s] = sessions[s]]
  BY <1>1
<1>3. Len(cs) \in Nat
  OBVIOUS
<1>4. /\ sessions[s].at = "Connected" => sessions[s].host \in Hosts
      /\ sessions[s].at \in {"Initializing", "Connected"} =>
           sessions[s].client \in 1 .. Len(cs)
  BY DEF TypeInv, SessionTypes, ClientTypes, IsConnected, HasClient
<1> DEFINE state == sessions[s]
<1> HIDE DEF state
<1>5. /\ state \in SessionState
      /\ state.at = "Connected" => state.host \in Hosts
      /\ state.at \in {"Initializing", "Connected"} => state.client \in 1 .. Len(cs)
      /\ sessions' = [sessions EXCEPT ![s] = state]
  BY <1>1, <1>2, <1>4 DEF state
<1>6. Len(clients[s]) <= Len(cs) /\ Len(cs) <= MaxClients[s]
  BY <1>1, <1>3
<1> QED
  BY <1>5, <1>6, SessionStep

LEMMA RemoveType ==
  ASSUME TypeInv, NEW s \in Sessions, NEW h \in Hosts, RemoveFromHostIndex(h, s)
  PROVE  index' \in [Hosts -> SUBSET Sessions] /\ repos' \subseteq Hosts
BY DEF TypeInv, SessionTypes, RemoveFromHostIndex

LEMMA FlowType ==
  ASSUME NEW s \in Sessions, NEW a \in 0 .. MAX_RECONNECT_ATTEMPTS,
         NEW h \in Hosts \cup {None}, NEW step \in FlowSteps
  PROVE  /\ Flow(s, a, h, step) \in FlowState
         /\ Flow(s, a, h, step).session = s
         /\ Flow(s, a, h, step).step = step
         /\ Flow(s, a, h, step).attempt = a
BY DEF Flow, FlowState

LEMMA DisconnectedType ==
  ASSUME TypeInv, NEW s \in Sessions, NEW done, NEW cs \in Seq(ClientState),
         Len(cs) = Len(clients[s]), MarkSessionDisconnected(s, done, cs)
  PROVE  SessionTypes' /\ FlowTypes' /\ ClientTypes'
<1>1. /\ Killed(s, cs) \in Seq(ClientState) /\ Len(Killed(s, cs)) = Len(clients[s])
      /\ Len(clients[s]) \in Nat /\ Len(clients[s]) <= MaxClients[s]
  BY KilledType DEF TypeInv, ClientTypes
<1>2. /\ index \in [Hosts -> SUBSET Sessions] /\ repos \subseteq Hosts
      /\ lastPath \in [Sessions -> Paths \cup {None}]
      /\ IsConnected(s) => sessions[s].host \in Hosts
      /\ 1 \in 0 .. MAX_RECONNECT_ATTEMPTS
  BY RemoteServerAssumption DEF TypeInv, SessionTypes
<1>3. Disconnected \in SessionState /\ Disconnected.at = "Disconnected"
  BY StateTypes DEF Disconnected, State
<1>4. ASSUME sessions' = [sessions EXCEPT ![s] = Disconnected],
             clients' = [clients EXCEPT ![s] = Killed(s, cs)],
             Continue(done, {})
      PROVE  /\ sessions' \in [Sessions -> SessionState]
             /\ \A t \in Sessions : IsConnected(t)' => sessions'[t].host \in Hosts
             /\ FlowTypes' /\ ClientTypes'
  <2> DEFINE state == Disconnected
             k == Killed(s, cs)
             next == {}
  <2>1. /\ state \in SessionState /\ state.at \notin {"Initializing", "Connected"}
        /\ k \in Seq(ClientState)
        /\ next \subseteq FlowState
        /\ \A f \in next : /\ f.session = s
                           /\ f.step \in {"handshake", "ok"} => f.client \in 1 .. Len(k)
    BY <1>1, <1>3
  <2>2. Len(clients[s]) <= Len(k) /\ Len(k) <= MaxClients[s]
    BY <1>1
  <2>3. /\ sessions' = [sessions EXCEPT ![s] = state]
        /\ clients' = [clients EXCEPT ![s] = k]
        /\ Continue(done, next)
    BY <1>4
  <2> HIDE DEF state, k, next
  <2> QED
    BY <2>1, <2>2, <2>3, SessionStep
<1>5. CASE ~Tracked(s) /\ clients' = [clients EXCEPT ![s] = cs] /\ Continue(done, {})
           /\ UNCHANGED <<sessions, index, lastPath, repos>>
  <2>1. FlowTypes' /\ ClientTypes'
    BY <1>5, ClientStep
  <2> QED
    BY <1>5, <2>1 DEF TypeInv, SessionTypes, IsConnected
<1>6. CASE /\ sessions' = [sessions EXCEPT ![s] = Disconnected]
           /\ clients' = [clients EXCEPT ![s] = Killed(s, cs)]
           /\ Continue(done, {})
           /\ UNCHANGED <<index, lastPath, repos>>
  BY <1>2, <1>4, <1>6 DEF SessionTypes
<1>7. CASE /\ IsConnected(s)
           /\ RemoveFromHostIndex(sessions[s].host, s)
           /\ lastPath' = [lastPath EXCEPT ![s] = None]
           /\ clients' = [clients EXCEPT ![s] = Killed(s, cs)]
           /\ AttemptReconnect(s, done, 1, sessions[s].host)
  <2> DEFINE h == sessions[s].host
             state == Reconnecting(1, h)
             f == Flow(s, 1, h, "waiting")
             k == Killed(s, cs)
             next == {f}
  <2>1. h \in Hosts /\ state \in SessionState /\ state.at = "Reconnecting"
    BY <1>2, <1>7, StateTypes DEF Reconnecting, State
  <2>2. f \in FlowState /\ f.session = s /\ f.step = "waiting"
    BY <1>2, <2>1, FlowType DEF FlowSteps
  <2>3. sessions' = [sessions EXCEPT ![s] = state] /\ Continue(done, {f})
    BY <1>7 DEF AttemptReconnect
  <2>4. index' \in [Hosts -> SUBSET Sessions] /\ repos' \subseteq Hosts
    BY <1>7, <2>1, RemoveType
  <2>5. /\ clients' = [clients EXCEPT ![s] = k]
        /\ k \in Seq(ClientState)
        /\ Len(clients[s]) <= Len(k) /\ Len(k) <= MaxClients[s]
    BY <1>1, <1>7
  <2> HIDE DEF h, state, f, k
  <2>6. /\ next \subseteq FlowState
        /\ \A g \in next : /\ g.session = s
                           /\ g.step \in {"handshake", "ok"} => g.client \in 1 .. Len(k)
    BY <2>2
  <2>7. Continue(done, next)
    BY <2>3
  <2> HIDE DEF next
  <2>8. /\ sessions' \in [Sessions -> SessionState]
        /\ \A t \in Sessions : IsConnected(t)' => sessions'[t].host \in Hosts
        /\ FlowTypes' /\ ClientTypes'
    BY <2>1, <2>3, <2>5, <2>6, <2>7, SessionStep
  <2> QED
    BY <1>2, <1>7, <2>4, <2>8 DEF SessionTypes
<1>8. CASE /\ IsConnected(s)
           /\ RemoveFromHostIndex(sessions[s].host, s)
           /\ sessions' = [sessions EXCEPT ![s] = Disconnected]
           /\ clients' = [clients EXCEPT ![s] = Killed(s, cs)]
           /\ Continue(done, {})
           /\ UNCHANGED lastPath
  <2>1. index' \in [Hosts -> SUBSET Sessions] /\ repos' \subseteq Hosts
    BY <1>2, <1>8, RemoveType
  <2> QED
    BY <1>2, <1>4, <1>8, <2>1 DEF SessionTypes
<1> QED
  BY <1>5, <1>6, <1>7, <1>8 DEF MarkSessionDisconnected

LEMMA InitType == Init => TypeInv
<1> SUFFICES ASSUME Init PROVE TypeInv
  OBVIOUS
<1>1. PaneTypes
  BY DEF Init, PaneTypes, SetupState, SetupStates, Idle, Awaiting
<1>2. SessionTypes
  <2>1. sessions \in [Sessions -> SessionState]
    BY StateTypes DEF Init
  <2>2. \A s \in Sessions : ~IsConnected(s)
    BY DEF Init, IsConnected, Untracked, State
  <2> QED
    BY <2>1, <2>2 DEF Init, SessionTypes
<1>3. ExecutorTypes
  BY RemoteServerAssumption DEF Init, ExecutorTypes, NoExecutor, Fallback
<1>4. ClientTypes
  <2>1. \A s \in Sessions : clients[s] = <<>> /\ ~HasClient(s)
    BY DEF Init, HasClient, Untracked, State
  <2>2. clients \in [Sessions -> Seq(ClientState)]
    BY DEF Init
  <2>3. flows = {}
    BY DEF Init
  <2> QED
    BY <2>1, <2>2, <2>3, RemoteServerAssumption DEF ClientTypes
<1> QED
  BY <1>1, <1>2, <1>3, <1>4 DEF Init, TypeInv, FlowTypes, BootTypes

(* The bootstrap scripts let go are those of sessions.                     *)
LEMMA ReleaseType ==
  ASSUME TypeInv, NEW s, Release(s), UNCHANGED <<tasks, blocks, paneOf, alive, exited>>
  PROVE  PaneTypes'
<1>1. \A p \in Panes : Awaits(p, "AwaitingConnect", s) => setup[p].info \in Sessions
  BY DEF TypeInv, PaneTypes, Awaits
<1>2. flushed' \subseteq Sessions
  BY <1>1 DEF TypeInv, PaneTypes, Release
<1>3. Idle \in SetupState /\ Idle.at = "Idle"
  BY DEF Idle, Awaiting, SetupState, SetupStates
<1>4. /\ setup' \in [Panes -> SetupState]
      /\ \A p \in Panes : setup'[p].at # "Idle" => setup'[p].info \in Sessions
  BY <1>3 DEF TypeInv, PaneTypes, Release
<1> QED
  BY <1>2, <1>4 DEF TypeInv, PaneTypes

LEMMA ConnectType ==
  ASSUME TypeInv, NEW p \in Panes, NEW s \in Sessions, setup[p].at # "Idle",
         ConnectSession(p, s), UNCHANGED <<index, lastPath, repos>>
  PROVE  /\ setup' \in [Panes -> SetupState]
         /\ \A q \in Panes : setup'[q].at # "Idle" => setup'[q].info \in Sessions
         /\ SessionTypes' /\ FlowTypes' /\ ClientTypes'
<1>1. setup \in [Panes -> SetupState] /\ setup[p].info \in Sessions
  BY DEF TypeInv, PaneTypes
<1> DEFINE new == Awaiting("AwaitingConnect", s, setup[p].info)
<1>2. new \in SetupState /\ new.info \in Sessions
  BY <1>1 DEF Awaiting, SetupState, SetupStates
<1>3. setup' = [setup EXCEPT ![p] = new]
  BY DEF ConnectSession
<1> HIDE DEF new
<1>4. /\ setup' \in [Panes -> SetupState]
      /\ \A q \in Panes : setup'[q].at # "Idle" => setup'[q].info \in Sessions
  BY <1>1, <1>2, <1>3 DEF TypeInv, PaneTypes
<1> DEFINE state == Connecting
           k == Killed(s, clients[s])
           f == Flow(s, 0, None, "connecting")
           next == {f}
<1>5. state \in SessionState /\ state.at = "Connecting"
  BY StateTypes DEF Connecting, State
<1>6. /\ k \in Seq(ClientState) /\ Len(k) = Len(clients[s])
      /\ Len(clients[s]) \in Nat /\ Len(clients[s]) <= MaxClients[s]
  BY KilledType DEF TypeInv, ClientTypes
<1>7. f \in FlowState /\ f.session = s /\ f.step = "connecting"
  BY FlowType, RemoteServerAssumption DEF FlowSteps
<1>8. /\ sessions' = [sessions EXCEPT ![s] = state]
      /\ clients' = [clients EXCEPT ![s] = k]
      /\ flows' = flows \cup {f}
  BY DEF ConnectSession
<1> HIDE DEF state, k, f
<1>9. /\ next \subseteq FlowState
      /\ \A g \in next : g.session = s /\ g.step \notin {"handshake", "ok"}
      /\ Continue({}, next)
  BY <1>7, <1>8 DEF Continue
<1> HIDE DEF next
<1>10. Len(clients[s]) <= Len(k) /\ Len(k) <= MaxClients[s]
  BY <1>6
<1>11. /\ sessions' \in [Sessions -> SessionState]
       /\ \A t \in Sessions : IsConnected(t)' => sessions'[t].host \in Hosts
       /\ FlowTypes' /\ ClientTypes'
  BY <1>5, <1>6, <1>8, <1>9, <1>10, SessionStep
<1> QED
  BY <1>4, <1>11 DEF TypeInv, SessionTypes
(* The closure of a flow that ended well keeps the types.                  *)
LEMMA ConnectedType ==
  ASSUME TypeInv, NEW f \in flows, FlowConnected(f)
  PROVE  TypeInv'
<1> DEFINE s == f.session
           host == clients[s][f.client].host
<1>1. /\ f \in FlowState /\ s \in Sessions /\ f.step = "ok"
      /\ f.client \in 1 .. Len(clients[s])
      /\ clients[s] \in Seq(ClientState)
      /\ Len(clients[s]) \in Nat /\ Len(clients[s]) <= MaxClients[s]
  BY DEF TypeInv, FlowTypes, FlowState, ClientTypes, FlowConnected
<1>2. host \in Hosts
  <2>1. clients[s][f.client] \in ClientState
    BY <1>1
  <2> QED
    BY <2>1 DEF ClientState
<1>3. BootTypes'
  BY DEF FlowConnected, TypeInv, BootTypes
<1>4. CASE /\ ~Tracked(s)
           /\ UNCHANGED <<setup, flushed, sessions, index, clients, executor>>
  <2>1. flows' \subseteq flows
    BY DEF FlowConnected, Continue
  <2>2. UNCHANGED <<tasks, blocks, paneOf, alive, exited, lastPath, repos>>
    BY DEF FlowConnected
  <2> QED
    BY <1>3, <1>4, <2>1, <2>2
       DEF TypeInv, PaneTypes, SessionTypes, FlowTypes, ExecutorTypes, ClientTypes,
           IsConnected, HasClient
<1>5. CASE /\ f.attempt > 0 => Tracked(s)
           /\ MarkSessionConnected(s, host)
           /\ IF IsConnected(s)' THEN Release(s) ELSE UNCHANGED <<setup, flushed>>
           /\ executor' = IF f.attempt > 0 THEN SwapExecutor(s) ELSE executor
  <2>1. /\ UNCHANGED <<tasks, blocks, paneOf, alive, exited, lastPath, repos>>
        /\ Continue({f}, {})
    BY DEF FlowConnected
  <2>2. PaneTypes'
    <3>1. UNCHANGED <<setup, flushed>> => PaneTypes'
      BY <2>1 DEF TypeInv, PaneTypes
    <3> QED
      BY <1>5, <2>1, <3>1, ReleaseType
  <2>3. PICK state \in SessionState, cs \in Seq(ClientState) :
          /\ sessions' = [sessions EXCEPT ![s] = state]
          /\ clients' = [clients EXCEPT ![s] = cs]
          /\ Len(cs) = Len(clients[s])
          /\ state.at = "Connected" => state.host \in Hosts
          /\ state.at \in {"Initializing", "Connected"} => state.client \in 1 .. Len(cs)
          /\ index' \in [Hosts -> SUBSET Sessions]
    <3> DEFINE c == sessions[s].client
    <3>1. CASE /\ sessions[s].at = "Initializing"
               /\ sessions' = [sessions EXCEPT ![s] = Connected(c, host)]
               /\ index' = [index EXCEPT ![host] = @ \cup {s}]
               /\ clients' = [clients EXCEPT ![s] = IF s \in bootInfo THEN Told(c, @) ELSE @]
      <4> DEFINE cs == IF s \in bootInfo THEN Told(c, clients[s]) ELSE clients[s]
                 state == Connected(c, host)
      <4>1. c \in 1 .. Len(clients[s])
        BY <1>1, <3>1 DEF TypeInv, ClientTypes, HasClient
      <4>2. cs \in Seq(ClientState) /\ Len(cs) = Len(clients[s])
        BY <1>1, <4>1, ToldType
      <4>3. state \in SessionState /\ state.client = c /\ state.host = host
        BY <1>1, <1>2, <4>1, StateTypes DEF Connected, State
      <4>4. clients' = [clients EXCEPT ![s] = cs]
        BY <1>1, <3>1 DEF TypeInv, ClientTypes
      <4>5. index' \in [Hosts -> SUBSET Sessions]
        BY <1>1, <1>2, <3>1 DEF TypeInv, SessionTypes
      <4> HIDE DEF cs, state, c, host
      <4> QED
        BY <1>2, <3>1, <4>1, <4>2, <4>3, <4>4, <4>5 DEF c, state
    <3>2. CASE /\ sessions[s].at # "Initializing"
               /\ sessions' = [sessions EXCEPT ![s] = Untracked]
               /\ clients' = [clients EXCEPT ![s] = Killed(s, @)]
               /\ UNCHANGED index
      <4> DEFINE cs == Killed(s, clients[s])
                 state == Untracked
      <4>1. cs \in Seq(ClientState) /\ Len(cs) = Len(clients[s])
        BY <1>1, KilledType
      <4>2. state \in SessionState /\ state.at = "Untracked"
        BY StateTypes DEF Untracked, State
      <4>3. /\ clients' = [clients EXCEPT ![s] = cs]
            /\ sessions' = [sessions EXCEPT ![s] = state]
            /\ index' \in [Hosts -> SUBSET Sessions]
        BY <3>2 DEF TypeInv, ClientTypes, SessionTypes
      <4> HIDE DEF cs, state
      <4> QED
        BY <4>1, <4>2, <4>3
    <3> QED
      BY <1>5, <3>1, <3>2 DEF MarkSessionConnected
  <2>4. /\ sessions' \in [Sessions -> SessionState]
        /\ \A t \in Sessions : IsConnected(t)' => sessions'[t].host \in Hosts
        /\ FlowTypes' /\ ClientTypes'
    <3> DEFINE next == {}
    <3>1. /\ next \subseteq FlowState
          /\ \A g \in next : /\ g.session = s
                             /\ g.step \in {"handshake", "ok"} => g.client \in 1 .. Len(cs)
          /\ Continue({f}, next)
      BY <2>1
    <3>2. Len(clients[s]) <= Len(cs) /\ Len(cs) <= MaxClients[s]
      BY <1>1, <2>3
    <3> HIDE DEF next, s
    <3> QED
      BY <1>1, <2>3, <3>1, <3>2, SessionStep
  <2>5. SessionTypes'
    BY <2>1, <2>3, <2>4 DEF TypeInv, SessionTypes
  <2>6. ExecutorTypes'
    <3>1. CASE executor' = executor
      BY <3>1 DEF TypeInv, ExecutorTypes
    <3>2. CASE IsConnected(s)' /\ executor' = [executor EXCEPT ![s] = sessions'[s].client]
      <4>1. /\ sessions'[s].client \in 1 .. Len(clients'[s])
            /\ clients'[s] \in Seq(ClientState)
            /\ Len(clients'[s]) <= MaxClients[s]
        BY <1>1, <2>4, <3>2 DEF ClientTypes, HasClient, IsConnected
      <4>2. MaxClients[s] \in Nat /\ Len(clients'[s]) \in Nat
        BY <1>1, <4>1, RemoteServerAssumption
      <4>3. sessions'[s].client \in Fallback .. MaxClients[s]
        BY <4>1, <4>2 DEF Fallback
      <4> QED
        BY <3>2, <4>3 DEF TypeInv, ExecutorTypes
    <3> QED
      BY <1>5, <3>1, <3>2 DEF SwapExecutor
  <2> QED
    BY <1>3, <2>2, <2>4, <2>5, <2>6 DEF TypeInv
<1> QED
  BY <1>4, <1>5 DEF FlowConnected
LEMMA NextType == TypeInv /\ [Next]_vars => TypeInv'
<1> SUFFICES ASSUME TypeInv, [Next]_vars PROVE TypeInv'
  OBVIOUS
<1>1. /\ UNCHANGED <<setup, tasks, blocks, flushed, paneOf, alive, exited>> => PaneTypes'
      /\ UNCHANGED <<sessions, index, lastPath, repos>> => SessionTypes'
      /\ UNCHANGED <<sessions, clients, flows>> => ClientTypes'
      /\ UNCHANGED flows => FlowTypes'
      /\ UNCHANGED bootInfo => BootTypes'
      /\ UNCHANGED executor => ExecutorTypes'
  BY DEF TypeInv, PaneTypes, SessionTypes, FlowTypes, BootTypes, ExecutorTypes, ClientTypes,
         IsConnected, HasClient
<1>2. ManagerIdle => SessionTypes' /\ FlowTypes' /\ BootTypes' /\ ExecutorTypes' /\ ClientTypes'
  BY <1>1 DEF ManagerIdle, managerVars
<1>3. /\ setup \in [Panes -> SetupState]
      /\ \A p \in Panes : setup[p].at # "Idle" => setup[p].info \in Sessions
      /\ tasks \subseteq {"check", "install"} \X Sessions
      /\ blocks \subseteq Sessions /\ flushed \subseteq Sessions
      /\ alive \subseteq Sessions /\ exited \subseteq Sessions
      /\ paneOf \in [Sessions -> Panes \cup {None}]
      /\ \A s \in Sessions : s \in blocks \/ <<"check", s>> \in tasks => paneOf[s] \in Panes
  BY DEF TypeInv, PaneTypes
<1>4. Idle \in SetupState /\ Idle.at = "Idle"
  BY DEF Idle, Awaiting, SetupState, SetupStates
<1>5. \A s \in Sessions : /\ clients[s] \in Seq(ClientState)
                          /\ Len(clients[s]) \in Nat
                          /\ Len(clients[s]) <= MaxClients[s]
  <2>1. \A s \in Sessions : clients[s] \in Seq(ClientState) /\ Len(clients[s]) <= MaxClients[s]
    BY DEF TypeInv, ClientTypes
  <2> QED
    BY <2>1
<1>6. \A f \in flows : f \in FlowState /\ f.session \in Sessions /\ f.host \in Hosts \cup {None}
  BY DEF TypeInv, FlowTypes, FlowState
<1>7. CASE UNCHANGED vars
  BY <1>1, <1>7 DEF TypeInv, vars, paneVars, managerVars
<1>8. ASSUME NEW p \in Panes, NEW s \in Sessions, SshInitShell(p, s) PROVE TypeInv'
  <2> DEFINE new == Awaiting("AwaitingCheck", s, s)
  <2>1. new \in SetupState /\ new.info = s
    BY DEF Awaiting, SetupState, SetupStates
  <2>2. setup' = [setup EXCEPT ![p] = new]
    BY <1>8 DEF SshInitShell
  <2> HIDE DEF new
  <2>3. PaneTypes'
    <3>1. /\ setup' \in [Panes -> SetupState]
          /\ \A q \in Panes : setup'[q].at # "Idle" => setup'[q].info \in Sessions
      BY <1>3, <2>1, <2>2
    <3>2. flushed' \subseteq Sessions
      BY <1>3, <1>8 DEF SshInitShell
    <3> QED
      BY <1>3, <1>8, <3>1, <3>2 DEF SshInitShell, PaneTypes
  <2> QED
    BY <1>2, <1>8, <2>3 DEF SshInitShell, TypeInv
<1>9. ASSUME NEW s \in Sessions, BinaryCheckComplete(s) PROVE TypeInv'
  <2>1. UNCHANGED <<paneOf, alive, exited, index, lastPath, bootInfo, executor, repos>>
    BY <1>9 DEF BinaryCheckComplete
  <2>2. CASE /\ tasks' = tasks \ {<<"check", s>>}
             /\ UNCHANGED <<setup, blocks, flushed, sessions, flows, clients>>
    BY <1>1, <1>3, <2>1, <2>2 DEF TypeInv, PaneTypes
  <2>3. ASSUME NEW p \in Panes, Awaits(p, "AwaitingCheck", s),
               /\ ConnectSession(p, s)
               /\ tasks' = tasks \ {<<"check", s>>}
               /\ UNCHANGED <<blocks, flushed>>
        PROVE  TypeInv'
    <3>1. setup[p].at # "Idle"
      BY <2>3 DEF Awaits
    <3>2. /\ setup' \in [Panes -> SetupState]
          /\ \A q \in Panes : setup'[q].at # "Idle" => setup'[q].info \in Sessions
          /\ SessionTypes' /\ FlowTypes' /\ ClientTypes'
      BY <2>1, <2>3, <3>1, ConnectType
    <3> QED
      BY <1>1, <1>3, <2>1, <2>3, <3>2 DEF TypeInv, PaneTypes
  <2>4. ASSUME NEW p \in Panes, Awaits(p, "AwaitingCheck", s),
               <<"check", s>> \in tasks,
               NEW at \in SetupStates, setup' = [setup EXCEPT ![p].at = at],
               tasks' \subseteq tasks \cup {<<"install", s>>},
               blocks' \subseteq blocks \cup {s},
               UNCHANGED <<flushed, sessions, flows, clients>>
        PROVE  TypeInv'
    <3>1. setup[p].info \in Sessions
      BY <1>3, <2>4 DEF Awaits
    <3>2. /\ setup' \in [Panes -> SetupState]
          /\ \A q \in Panes : setup'[q].at # "Idle" => setup'[q].info \in Sessions
      BY <1>3, <2>4, <3>1 DEF SetupState
    <3>3. \A t \in Sessions : t \in blocks' \/ <<"check", t>> \in tasks' => paneOf'[t] \in Panes
      BY <1>3, <2>1, <2>4
    <3>4. PaneTypes'
      BY <1>3, <2>1, <2>4, <3>2, <3>3 DEF PaneTypes
    <3> QED
      BY <1>1, <2>1, <2>4, <3>4 DEF TypeInv
  <2>5. ASSUME NEW p \in Panes, Awaits(p, "AwaitingCheck", s),
               /\ setup' = [setup EXCEPT ![p] = Idle]
               /\ tasks' = tasks \ {<<"check", s>>}
               /\ flushed' = flushed \cup {setup[p].info}
               /\ UNCHANGED <<blocks, sessions, flows, clients>>
        PROVE  TypeInv'
    <3>1. setup[p].info \in Sessions
      BY <1>3, <2>5 DEF Awaits
    <3>2. /\ setup' \in [Panes -> SetupState]
          /\ \A q \in Panes : setup'[q].at # "Idle" => setup'[q].info \in Sessions
      BY <1>3, <1>4, <2>5
    <3> QED
      BY <1>1, <1>3, <2>1, <2>5, <3>1, <3>2 DEF TypeInv, PaneTypes
  <2>6. "AwaitingInstall" \in SetupStates /\ "AwaitingUserChoice" \in SetupStates
    BY DEF SetupStates
  <2>7. \A p \in Panes :
          /\ setup' = [setup EXCEPT ![p].at = "AwaitingInstall"]
          /\ tasks' = (tasks \ {<<"check", s>>}) \cup {<<"install", s>>}
          /\ UNCHANGED <<blocks, flushed, sessions, flows, clients>>
          /\ Awaits(p, "AwaitingCheck", s)
          => TypeInv'
    <3>1. /\ tasks' = (tasks \ {<<"check", s>>}) \cup {<<"install", s>>} =>
               tasks' \subseteq tasks \cup {<<"install", s>>}
          /\ UNCHANGED blocks => blocks' \subseteq blocks \cup {s}
          /\ <<"check", s>> \in tasks
      BY <1>9 DEF BinaryCheckComplete
    <3> QED
      BY <2>4, <2>6, <3>1
  <2>8. \A p \in Panes :
          /\ setup' = [setup EXCEPT ![p].at = "AwaitingUserChoice"]
          /\ tasks' = tasks \ {<<"check", s>>}
          /\ blocks' = blocks \cup {s}
          /\ UNCHANGED <<flushed, sessions, flows, clients>>
          /\ Awaits(p, "AwaitingCheck", s)
          => TypeInv'
    <3>1. /\ tasks' = tasks \ {<<"check", s>>} => tasks' \subseteq tasks \cup {<<"install", s>>}
          /\ <<"check", s>> \in tasks
      BY <1>9 DEF BinaryCheckComplete
    <3> QED
      BY <2>4, <2>6, <3>1
  <2> QED
    BY <1>9, <2>2, <2>3, <2>5, <2>7, <2>8 DEF BinaryCheckComplete
<1>10. ASSUME NEW s \in Sessions, ChooseInstall(s) PROVE TypeInv'
  <2> DEFINE p == paneOf[s]
  <2>1. CASE /\ setup[p].at = "AwaitingUserChoice"
             /\ setup' = [setup EXCEPT ![p] = Awaiting("AwaitingInstall", s, @.info)]
             /\ tasks' = tasks \cup {<<"install", s>>}
    <3>1. \A q \in Panes : /\ setup'[q] = IF q = p THEN Awaiting("AwaitingInstall", s, setup[q].info)
                                          ELSE setup[q]
                           /\ setup'[q].info = setup[q].info
      BY <1>3, <2>1 DEF Awaiting
    <3>2. \A q \in Panes : Awaiting("AwaitingInstall", s, setup[q].info) \in SetupState
      BY <1>3 DEF Awaiting, SetupState, SetupStates
    <3>3. setup' \in [Panes -> SetupState]
      BY <1>3, <2>1, <3>1, <3>2
    <3>4. \A q \in Panes : setup'[q].at # "Idle" => setup'[q].info \in Sessions
      BY <1>3, <2>1, <3>1
    <3> QED
      BY <1>2, <1>3, <1>10, <2>1, <3>3, <3>4 DEF ChooseInstall, TypeInv, PaneTypes
  <2>2. CASE UNCHANGED <<setup, tasks>>
    BY <1>2, <1>3, <1>10, <2>2 DEF ChooseInstall, TypeInv, PaneTypes
  <2> QED
    BY <1>10, <2>1, <2>2 DEF ChooseInstall
<1>11. ASSUME NEW s \in Sessions, ChooseSkip(s) PROVE TypeInv'
  <2> DEFINE p == paneOf[s]
  <2>1. /\ setup' = [setup EXCEPT ![p] = Idle]
        /\ flushed' = IF setup[p].at = "AwaitingUserChoice"
                      THEN flushed \cup {setup[p].info} ELSE flushed
    BY <1>11 DEF ChooseSkip
  <2>2. /\ setup' \in [Panes -> SetupState]
        /\ \A q \in Panes : setup'[q].at # "Idle" => setup'[q].info \in Sessions
    BY <1>3, <1>4, <2>1
  <2>3. flushed' \subseteq Sessions
    <3>1. p \in Panes
      BY <1>3, <1>11 DEF ChooseSkip
    <3> QED
      BY <1>3, <2>1, <3>1
  <2> QED
    BY <1>2, <1>3, <1>11, <2>2, <2>3 DEF ChooseSkip, TypeInv, PaneTypes
<1>12. ASSUME NEW s \in Sessions, BinaryInstallComplete(s) PROVE TypeInv'
  <2>1. /\ tasks' = tasks \ {<<"install", s>>}
        /\ UNCHANGED <<blocks, paneOf, alive, exited, index, lastPath, bootInfo, executor, repos>>
    BY <1>12 DEF BinaryInstallComplete
  <2>2. CASE UNCHANGED <<setup, flushed, sessions, flows, clients>>
    BY <1>1, <1>3, <2>1, <2>2 DEF TypeInv, PaneTypes
  <2>3. ASSUME NEW p \in Panes, Awaits(p, "AwaitingInstall", s),
               ConnectSession(p, s), UNCHANGED flushed
        PROVE  TypeInv'
    <3>1. setup[p].at # "Idle"
      BY <2>3 DEF Awaits
    <3>2. /\ setup' \in [Panes -> SetupState]
          /\ \A q \in Panes : setup'[q].at # "Idle" => setup'[q].info \in Sessions
          /\ SessionTypes' /\ FlowTypes' /\ ClientTypes'
      BY <2>1, <2>3, <3>1, ConnectType
    <3> QED
      BY <1>1, <1>3, <2>1, <2>3, <3>2 DEF TypeInv, PaneTypes
  <2>4. ASSUME NEW p \in Panes, Awaits(p, "AwaitingInstall", s),
               setup' = [setup EXCEPT ![p] = Idle],
               flushed' = flushed \cup {setup[p].info},
               UNCHANGED <<sessions, flows, clients>>
        PROVE  TypeInv'
    <3>1. setup[p].info \in Sessions
      BY <1>3, <2>4 DEF Awaits
    <3>2. /\ setup' \in [Panes -> SetupState]
          /\ \A q \in Panes : setup'[q].at # "Idle" => setup'[q].info \in Sessions
      BY <1>3, <1>4, <2>4
    <3> QED
      BY <1>1, <1>3, <2>1, <2>4, <3>1, <3>2 DEF TypeInv, PaneTypes
  <2> QED
    BY <1>12, <2>2, <2>3, <2>4 DEF BinaryInstallComplete
<1>13. ASSUME NEW s \in Sessions, Bootstrapped(s) PROVE TypeInv'
  <2> DEFINE c == sessions[s].client
  <2>1. /\ bootInfo' = bootInfo \cup {s}
        /\ UNCHANGED <<sessions, index, lastPath, flows, repos>>
        /\ PaneTypes' /\ SessionTypes' /\ FlowTypes'
    BY <1>1, <1>13 DEF Bootstrapped, ControllersIdle, paneVars
  <2>2. BootTypes'
    BY <2>1 DEF TypeInv, BootTypes
  <2>3. MaxClients[s] \in Nat
    BY RemoteServerAssumption
  <2>4. CASE /\ IsConnected(s)
             /\ clients' = [clients EXCEPT ![s] = Told(c, @)]
             /\ executor' = [executor EXCEPT ![s] = c]
    <3> DEFINE cs == Told(c, clients[s])
    <3>1. c \in 1 .. Len(clients[s])
      BY <2>4 DEF TypeInv, ClientTypes, IsConnected, HasClient
    <3>2. c \in Fallback .. MaxClients[s]
      BY <1>5, <2>3, <3>1 DEF Fallback
    <3>3. cs \in Seq(ClientState) /\ Len(cs) = Len(clients[s])
      BY <1>5, <3>1, ToldType
    <3>4. clients' = [clients EXCEPT ![s] = cs] /\ Continue({}, {})
      BY <2>1, <2>4 DEF Continue
    <3> HIDE DEF cs, c
    <3>5. ClientTypes'
      <4> DEFINE next == {}
      <4>1. /\ next \subseteq FlowState
            /\ \A f \in next : /\ f.session = s
                               /\ f.step \in {"handshake", "ok"} => f.client \in 1 .. Len(cs)
            /\ Continue({}, next)
        BY <3>4
      <4> HIDE DEF next
      <4> QED
        BY <2>1, <3>3, <3>4, <4>1, ClientStep
    <3>6. ExecutorTypes'
      BY <2>4, <3>2 DEF TypeInv, ExecutorTypes, c
    <3> QED
      BY <2>1, <2>2, <3>5, <3>6 DEF TypeInv
  <2>5. CASE executor' = [executor EXCEPT ![s] = Fallback] /\ UNCHANGED clients
    <3>1. Fallback \in Fallback .. MaxClients[s]
      BY <2>3 DEF Fallback
    <3>2. ExecutorTypes'
      BY <2>5, <3>1 DEF TypeInv, ExecutorTypes
    <3> QED
      BY <1>1, <2>1, <2>2, <2>5, <3>2 DEF TypeInv
  <2> QED
    BY <1>13, <2>4, <2>5 DEF Bootstrapped
<1>14. ASSUME NEW s \in Sessions, NEW path \in Paths, NavigateToDirectory(s, path) PROVE TypeInv'
  <2> DEFINE c == sessions[s].client
             new == [clients[s][c] EXCEPT !.asked = @ \cup {path}]
             cs == IF clients[s][c].link = "open" THEN [clients[s] EXCEPT ![c] = new] ELSE clients[s]
             next == {}
  <2>1. /\ lastPath' = [lastPath EXCEPT ![s] = path]
        /\ UNCHANGED <<sessions, index, bootInfo, flows, executor, repos>>
        /\ IsConnected(s)
        /\ PaneTypes' /\ FlowTypes' /\ BootTypes' /\ ExecutorTypes'
    BY <1>1, <1>14 DEF NavigateToDirectory, ControllersIdle, paneVars
  <2>2. SessionTypes'
    BY <2>1 DEF TypeInv, SessionTypes, IsConnected
  <2>3. clients' = [clients EXCEPT ![s] = cs]
    BY <1>14 DEF NavigateToDirectory, TypeInv, ClientTypes
  <2>4. c \in 1 .. Len(clients[s])
    BY <2>1 DEF TypeInv, ClientTypes, IsConnected, HasClient
  <2>5. new \in ClientState
    <3>1. clients[s][c] \in ClientState
      BY <1>5, <2>4
    <3> QED
      BY <3>1 DEF ClientState
  <2> HIDE DEF c, new
  <2>6. cs \in Seq(ClientState) /\ Len(cs) = Len(clients[s])
    BY <1>5, <2>4, <2>5, ExceptSeq
  <2>7. /\ next \subseteq FlowState
        /\ \A f \in next : /\ f.session = s
                           /\ f.step \in {"handshake", "ok"} => f.client \in 1 .. Len(cs)
        /\ Continue({}, next)
    BY <2>1 DEF Continue
  <2> HIDE DEF cs, next
  <2>8. ClientTypes'
    BY <2>1, <2>3, <2>6, <2>7, ClientStep
  <2> QED
    BY <2>1, <2>2, <2>8 DEF TypeInv
<1>15. ASSUME NEW s \in Sessions, ExitShell(s) PROVE TypeInv'
  <2>1. /\ UNCHANGED <<setup, tasks, flushed, paneOf, flows, executor>>
        /\ alive' = alive \ {s} /\ exited' = exited \cup {s} /\ blocks' = blocks \ {s}
        /\ bootInfo' = bootInfo \ {s}
        /\ lastPath' = [lastPath EXCEPT ![s] = None]
        /\ sessions' = [sessions EXCEPT ![s] = Untracked]
        /\ clients' = [clients EXCEPT ![s] = Killed(s, @)]
    BY <1>15 DEF ExitShell
  <2>2. PaneTypes' /\ BootTypes' /\ ExecutorTypes'
    BY <1>1, <1>3, <2>1 DEF PaneTypes, TypeInv, BootTypes
  <2>3. index' \in [Hosts -> SUBSET Sessions] /\ repos' \subseteq Hosts
    <3>1. sessions[s].host \in Hosts \cup {None}
      BY DEF TypeInv, SessionTypes, SessionState
    <3> QED
      BY <1>15, <3>1, RemoveType DEF ExitShell, TypeInv, SessionTypes
  <2>4. /\ sessions' \in [Sessions -> SessionState]
        /\ \A t \in Sessions : IsConnected(t)' => sessions'[t].host \in Hosts
        /\ FlowTypes' /\ ClientTypes'
    <3> DEFINE state == Untracked
               cs == Killed(s, clients[s])
               next == {}
    <3>1. state \in SessionState /\ state.at = "Untracked"
      BY StateTypes DEF Untracked, State
    <3>2. cs \in Seq(ClientState) /\ Len(cs) = Len(clients[s])
      BY <1>5, KilledType
    <3>3. /\ sessions' = [sessions EXCEPT ![s] = state]
          /\ clients' = [clients EXCEPT ![s] = cs]
          /\ next \subseteq FlowState
          /\ \A g \in next : /\ g.session = s
                             /\ g.step \in {"handshake", "ok"} => g.client \in 1 .. Len(cs)
          /\ Continue({}, next)
      BY <2>1 DEF Continue
    <3>4. Len(clients[s]) <= Len(cs) /\ Len(cs) <= MaxClients[s]
      BY <1>5, <3>2
    <3> HIDE DEF state, cs, next
    <3> QED
      BY <3>1, <3>2, <3>3, <3>4, SessionStep
  <2>5. SessionTypes'
    BY <2>1, <2>3, <2>4 DEF SessionTypes, TypeInv
  <2> QED
    BY <2>2, <2>4, <2>5 DEF TypeInv
<1>16. ASSUME NEW s \in Sessions, SshDies(s) PROVE TypeInv'
  BY <1>2, <1>3, <1>16 DEF SshDies, PaneTypes, TypeInv
<1>17. ASSUME NEW s \in Sessions, NEW c \in 1 .. Len(clients[s]), NEW new \in ClientState
       PROVE  /\ [clients[s] EXCEPT ![c] = new] \in Seq(ClientState)
              /\ Len([clients[s] EXCEPT ![c] = new]) = Len(clients[s])
  BY <1>5, <1>17, ExceptSeq
<1>18. ASSUME NEW s \in Sessions, NEW c \in 1 .. Len(clients[s])
       PROVE  Ended(clients[s][c]) \in ClientState /\ Done(clients[s][c]) \in ClientState
  <2>1. clients[s][c] \in ClientState
    BY <1>5
  <2> QED
    BY <2>1 DEF Ended, Done, Client, ClientState
<1>19. ASSUME NEW s \in Sessions, NEW c \in 1 .. Len(clients[s]), LinkBreaks(s, c) PROVE TypeInv'
  <2> DEFINE new == Ended(clients[s][c])
             cs == [clients[s] EXCEPT ![c] = new]
             next == {}
  <2>1. /\ UNCHANGED <<managerVars, flows, executor, repos>>
        /\ PaneTypes' /\ SessionTypes' /\ FlowTypes' /\ BootTypes' /\ ExecutorTypes'
    BY <1>1, <1>19 DEF LinkBreaks, ControllersIdle, paneVars, managerVars
  <2>2. clients' = [clients EXCEPT ![s] = cs]
    BY <1>19 DEF LinkBreaks
  <2>3. new \in ClientState
    BY <1>18
  <2> HIDE DEF new
  <2>4. cs \in Seq(ClientState) /\ Len(cs) = Len(clients[s])
    BY <1>17, <2>3
  <2>5. /\ next \subseteq FlowState
        /\ \A f \in next : /\ f.session = s
                           /\ f.step \in {"handshake", "ok"} => f.client \in 1 .. Len(cs)
        /\ Continue({}, next)
        /\ sessions' = sessions
    BY <2>1 DEF Continue, managerVars
  <2> HIDE DEF cs, next
  <2>6. ClientTypes'
    BY <2>2, <2>4, <2>5, ClientStep
  <2> QED
    BY <2>1, <2>6 DEF TypeInv
<1>20. ASSUME NEW s \in Sessions, NEW c \in 1 .. Len(clients[s]), StreamEnds(s, c) PROVE TypeInv'
  <2> DEFINE new == Done(clients[s][c])
             cs == [clients[s] EXCEPT ![c] = new]
  <2>1. MarkSessionDisconnected(s, {}, cs) /\ PaneTypes' /\ BootTypes' /\ ExecutorTypes'
    BY <1>1, <1>20 DEF StreamEnds, ControllersIdle, paneVars
  <2>2. new \in ClientState
    BY <1>18
  <2> HIDE DEF new
  <2>3. cs \in Seq(ClientState) /\ Len(cs) = Len(clients[s])
    BY <1>17, <2>2
  <2> HIDE DEF cs
  <2> QED
    BY <2>1, <2>3, DisconnectedType DEF TypeInv
<1>21. ASSUME NEW s \in Sessions, NEW c, RepoMetadataSnapshot(s, c) PROVE TypeInv'
  <2>1. /\ UNCHANGED <<managerVars, flows, clients, executor>>
        /\ PaneTypes' /\ FlowTypes' /\ BootTypes' /\ ExecutorTypes' /\ ClientTypes'
    BY <1>1, <1>21 DEF RepoMetadataSnapshot, ControllersIdle, paneVars, managerVars
  <2>2. SessionTypes'
    BY <1>21, <2>1 DEF RepoMetadataSnapshot, managerVars, TypeInv, SessionTypes, IsConnected
  <2> QED
    BY <2>1, <2>2 DEF TypeInv
<1>22. ASSUME NEW f \in flows, NEW next, Continue({f}, next), UNCHANGED <<sessions, clients>>,
              next \subseteq FlowState,
              \A g \in next : g.step \in {"handshake", "ok"} =>
                                g.client \in 1 .. Len(clients[g.session])
       PROVE  FlowTypes' /\ ClientTypes'
  <2>1. FlowTypes'
    BY <1>22 DEF TypeInv, FlowTypes, Continue
  <2>2. \A g \in flows' : g.step \in {"handshake", "ok"} =>
                            g.client \in 1 .. Len(clients[g.session])
    BY <1>22 DEF TypeInv, ClientTypes, Continue
  <2> QED
    BY <1>22, <2>1, <2>2 DEF TypeInv, ClientTypes, HasClient
<1>23. ASSUME NEW f \in flows, NEW step \in FlowSteps, Advance(f, step),
              UNCHANGED <<sessions, clients>>,
              step \in {"handshake", "ok"} => f.client \in 1 .. Len(clients[f.session])
       PROVE  FlowTypes' /\ ClientTypes'
  <2> DEFINE g == [f EXCEPT !.step = step]
  <2>1. g \in FlowState /\ g.session = f.session /\ g.client = f.client /\ g.step = step
    BY <1>6, <1>23 DEF FlowState
  <2>2. Continue({f}, {g})
    BY <1>23 DEF Advance
  <2> HIDE DEF g
  <2> QED
    BY <1>22, <1>23, <2>1, <2>2
<1>24. ASSUME NEW f \in flows, Wake(f) PROVE TypeInv'
  <2>1. /\ UNCHANGED <<managerVars, clients, executor, repos>>
        /\ PaneTypes' /\ SessionTypes' /\ BootTypes' /\ ExecutorTypes'
    BY <1>1, <1>24 DEF Wake, ControllersIdle, paneVars, managerVars
  <2>2. "connecting" \in FlowSteps /\ UNCHANGED <<sessions, clients>>
    BY <2>1 DEF FlowSteps, managerVars
  <2>3. CASE Advance(f, "connecting")
    BY <1>23, <2>1, <2>2, <2>3 DEF TypeInv
  <2>4. CASE Continue({f}, {})
    <3>1. FlowTypes' /\ ClientTypes'
      BY <1>22, <2>2, <2>4
    <3> QED
      BY <2>1, <3>1 DEF TypeInv
  <2> QED
    BY <1>24, <2>3, <2>4 DEF Wake
<1>25. ASSUME NEW f \in flows, NEW step \in {"ok", "failed"}, Advance(f, step),
              step = "ok" => f.step = "handshake",
              ControllersIdle, UNCHANGED <<managerVars, clients, executor, repos>>
       PROVE TypeInv'
  <2>1. PaneTypes' /\ SessionTypes' /\ BootTypes' /\ ExecutorTypes'
    BY <1>1, <1>25 DEF ControllersIdle, paneVars, managerVars
  <2>2. step \in FlowSteps /\ UNCHANGED <<sessions, clients>>
    BY <1>25 DEF FlowSteps, managerVars
  <2>3. step \in {"handshake", "ok"} => f.client \in 1 .. Len(clients[f.session])
    BY <1>25 DEF TypeInv, ClientTypes
  <2>4. FlowTypes' /\ ClientTypes'
    BY <1>23, <1>25, <2>2, <2>3
  <2> QED
    BY <2>1, <2>4 DEF TypeInv
<1>26. ASSUME NEW f \in flows,
              TransportFails(f) \/ HandshakeSucceeds(f) \/ HandshakeFails(f)
       PROVE  TypeInv'
  BY <1>25, <1>26 DEF TransportFails, HandshakeSucceeds, HandshakeFails
<1>27. ASSUME NEW f \in flows, TransportConnects(f) PROVE TypeInv'
  <2> DEFINE s == f.session
             c == Len(clients[s]) + 1
  <2>1. /\ UNCHANGED <<index, lastPath, bootInfo, executor, repos>>
        /\ PaneTypes' /\ BootTypes' /\ ExecutorTypes'
    BY <1>1, <1>27 DEF TransportConnects, ControllersIdle, paneVars
  <2>2. CASE Advance(f, "failed") /\ UNCHANGED <<sessions, clients>>
    <3>1. ControllersIdle
      BY <1>27 DEF TransportConnects
    <3> QED
      BY <1>25, <2>1, <2>2, <3>1 DEF managerVars
  <2>3. ASSUME Len(clients[s]) < MaxClients[s], NEW h \in Hosts, InsertInitializing(f, h)
        PROVE  TypeInv'
    <3> DEFINE k == Killed(s, clients[s])
               cs == Append(k, NewClient(h))
               state == Initializing(c)
               g == [f EXCEPT !.step = "handshake", !.client = c]
               next == {g}
    <3>1. s \in Sessions /\ MaxClients[s] \in Nat
      BY <1>6, RemoteServerAssumption
    <3>2. NewClient(h) \in ClientState
      BY DEF NewClient, Client, ClientState
    <3>3. k \in Seq(ClientState) /\ Len(k) = Len(clients[s])
      BY <1>5, <3>1, KilledType
    <3>4. cs \in Seq(ClientState) /\ Len(cs) = Len(clients[s]) + 1
      BY <3>2, <3>3, AppendProperties
    <3>5. c \in 1 .. Len(cs) /\ c \in Nat
          /\ Len(clients[s]) <= Len(cs) /\ Len(cs) <= MaxClients[s]
      BY <1>5, <2>3, <3>1, <3>4
    <3>6. state \in SessionState /\ state.at = "Initializing" /\ state.client = c
      BY <3>5, StateTypes DEF Initializing, State
    <3>7. g \in FlowState /\ g.session = s /\ g.client = c
      BY <1>6, <3>5 DEF FlowState, FlowSteps
    <3>8. /\ sessions' = [sessions EXCEPT ![s] = state]
          /\ clients' = [clients EXCEPT ![s] = cs]
          /\ Continue({f}, next)
      BY <2>3, <3>1 DEF InsertInitializing, TypeInv, ClientTypes
    <3> HIDE DEF k, cs, state, g, c
    <3>9. /\ next \subseteq FlowState
          /\ \A q \in next : /\ q.session = s
                             /\ q.step \in {"handshake", "ok"} => q.client \in 1 .. Len(cs)
      BY <3>5, <3>7
    <3> HIDE DEF next, s
    <3>10. /\ sessions' \in [Sessions -> SessionState]
           /\ \A t \in Sessions : IsConnected(t)' => sessions'[t].host \in Hosts
           /\ FlowTypes' /\ ClientTypes'
      BY <3>1, <3>4, <3>5, <3>6, <3>8, <3>9, SessionStep
    <3> QED
      BY <2>1, <3>10 DEF TypeInv, SessionTypes
  <2> QED
    BY <1>27, <2>2, <2>3 DEF TransportConnects
<1>28. ASSUME NEW f \in flows, FlowFailed(f) PROVE TypeInv'
  <2> DEFINE s == f.session
  <2>1. /\ UNCHANGED <<tasks, blocks, paneOf, alive, exited, bootInfo, executor>>
        /\ BootTypes' /\ ExecutorTypes'
    BY <1>1, <1>28 DEF FlowFailed
  <2>2. s \in Sessions
    BY <1>6
  <2>3. CASE Release(s) /\ MarkSessionDisconnected(s, {f}, clients[s])
    <3>1. PaneTypes'
      BY <2>1, <2>3, ReleaseType
    <3>2. SessionTypes' /\ FlowTypes' /\ ClientTypes'
      BY <1>5, <2>2, <2>3, DisconnectedType
    <3> QED
      BY <2>1, <3>1, <3>2 DEF TypeInv
  <2>4. ASSUME f.attempt > 0, UNCHANGED <<setup, flushed, index, lastPath, repos>>,
               HandleReconnectFailure(f)
        PROVE  TypeInv'
    <3> DEFINE cs == Killed(s, clients[s])
    <3>1. cs \in Seq(ClientState) /\ Len(clients[s]) <= Len(cs) /\ Len(cs) <= MaxClients[s]
      <4>1. cs \in Seq(ClientState) /\ Len(cs) = Len(clients[s])
        BY <1>5, <2>2, KilledType
      <4> QED
        BY <1>5, <2>2, <4>1
    <3>2. clients' = [clients EXCEPT ![s] = cs]
      BY <2>4 DEF HandleReconnectFailure
    <3>3. PICK state \in SessionState, next \in SUBSET FlowState :
            /\ sessions' = [sessions EXCEPT ![s] = state]
            /\ Continue({f}, next)
            /\ state.at \notin {"Initializing", "Connected"}
            /\ \A g \in next : g.session = s /\ g.step = "waiting"
      <4>1. CASE f.attempt < MAX_RECONNECT_ATTEMPTS /\ AttemptReconnect(s, {f}, f.attempt + 1, f.host)
        <5> DEFINE state == Reconnecting(f.attempt + 1, f.host)
                   g == Flow(s, f.attempt + 1, f.host, "waiting")
        <5>1. f.attempt + 1 \in 0 .. MAX_RECONNECT_ATTEMPTS /\ f.host \in Hosts \cup {None}
          BY <1>6, <4>1, RemoteServerAssumption DEF FlowState
        <5>2. state \in SessionState /\ state.at = "Reconnecting"
          BY <5>1, StateTypes DEF Reconnecting, State
        <5>3. g \in FlowState /\ g.session = s /\ g.step = "waiting"
          BY <2>2, <5>1, FlowType DEF FlowSteps
        <5>4. sessions' = [sessions EXCEPT ![s] = state] /\ Continue({f}, {g})
          BY <4>1 DEF AttemptReconnect
        <5> HIDE DEF state, g
        <5>5. {g} \in SUBSET FlowState /\ \A q \in {g} : q.session = s /\ q.step = "waiting"
          BY <5>3
        <5> QED
          BY <5>2, <5>4, <5>5
      <4>2. CASE sessions' = [sessions EXCEPT ![s] = Disconnected] /\ Continue({f}, {})
        <5>1. Disconnected \in SessionState /\ Disconnected.at = "Disconnected"
          BY StateTypes DEF Disconnected, State
        <5>2. {} \in SUBSET FlowState /\ \A q \in {} : q.session = s /\ q.step = "waiting"
          OBVIOUS
        <5> QED
          BY <4>2, <5>1, <5>2
      <4> QED
        BY <2>4, <4>1, <4>2 DEF HandleReconnectFailure
    <3>4. /\ next \subseteq FlowState
          /\ \A q \in next : /\ q.session = s
                             /\ q.step \in {"handshake", "ok"} => q.client \in 1 .. Len(cs)
      BY <3>3
    <3> HIDE DEF cs
    <3>5. /\ sessions' \in [Sessions -> SessionState]
          /\ \A t \in Sessions : IsConnected(t)' => sessions'[t].host \in Hosts
          /\ FlowTypes' /\ ClientTypes'
      BY <2>2, <3>1, <3>2, <3>3, <3>4, SessionStep
    <3> QED
      BY <1>1, <2>1, <2>4, <3>5 DEF TypeInv, SessionTypes
  <2>5. CASE UNCHANGED <<setup, flushed, index, lastPath, repos, sessions, clients>>
             /\ Continue({f}, {})
    <3>1. FlowTypes' /\ ClientTypes'
      BY <1>22, <2>5
    <3> QED
      BY <1>1, <2>1, <2>5, <3>1 DEF TypeInv
  <2> QED
    BY <1>28, <2>3, <2>4, <2>5 DEF FlowFailed
<1> QED
  BY <1>7, <1>8, <1>9, <1>10, <1>11, <1>12, <1>13, <1>14, <1>15, <1>16, <1>19, <1>20, <1>21,
     <1>24, <1>26, <1>27, <1>28, ConnectedType DEF Next, Background, Closures

LEMMA TypeInvariant == Spec => []TypeInv
BY InitType, NextType, PTL DEF Spec

(* Every variable has the values its type in the code allows, and no       *)
(* session is opened more connections than the bound of the model.         *)
THEOREM TypeCorrect == Spec => []TypeOK
BY TypeInvariant, TypeInvOK, PTL
==============================================================================
