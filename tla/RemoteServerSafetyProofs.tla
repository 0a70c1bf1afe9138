----------------------- MODULE RemoteServerSafetyProofs -----------------------
(* The safety theorems about RemoteServer, on top of its types: PaneInv is  *)
(* about the panes that hold bootstraps back, ConnectionInv about the       *)
(* manager, whose index, tasks and clients agree.                           *)
EXTENDS RemoteServerProofs

-----------------------------------------------------------------------------
(* The panes.  A session's bootstrap is let go once; while its binary is   *)
(* checked or installed it is held back as long as the session runs, so    *)
(* that it cannot have been bootstrapped, nor deregistered, by then.       *)

Checking(s) == <<"check", s>> \in tasks
Installing(s) == <<"install", s>> \in tasks

(* connect_session has not been called for the session, and may be.        *)
Unconnected(s) == paneOf[s] = None \/ Checking(s) \/ Installing(s) \/ s \in blocks

HeldBack(p) ==
  \/ setup[p] = Idle
  \/ /\ setup[p].at # "Idle"
     /\ setup[p].at = "AwaitingCheck" => setup[p].session = setup[p].info
     /\ setup[p].info \in Sessions /\ setup[p].info \notin flushed
     /\ paneOf[setup[p].info] = p

(* A pane runs one session, and what it holds back is that session's.      *)
Running(s) ==
  s \in alive =>
    /\ paneOf[s] # None
    /\ \A t \in alive : paneOf[s] = paneOf[t] => s = t
    /\ \A p \in Panes : paneOf[s] = p /\ setup[p].at # "Idle" => setup[p].info = s
    /\ executor[s] # NoExecutor => s \in flushed

(* One thing at a time is done for the session before it connects.         *)
OneToken(s) ==
  /\ paneOf[s] = None =>
       /\ s \notin alive /\ s \notin exited /\ s \notin flushed /\ s \notin blocks
       /\ ~Checking(s) /\ ~Installing(s) /\ executor[s] = NoExecutor
  /\ ~(Checking(s) /\ Installing(s))
  /\ s \in blocks => ~Checking(s) /\ ~Installing(s)
  /\ Checking(s) \/ Installing(s) => s \notin alive \/ s \notin flushed
  /\ s \in exited => s \notin alive /\ ~Unconnected(s)

Held(p, s) ==
  setup[p].info = s =>
    /\ Checking(s) => setup[p] = Awaiting("AwaitingCheck", s, s)
    /\ Installing(s) => setup[p] = Awaiting("AwaitingInstall", s, s)

PaneInv ==
  /\ \A p \in Panes : HeldBack(p)
  /\ \A s \in Sessions : Running(s) /\ OneToken(s)
  /\ \A p \in Panes, s \in Sessions : Held(p, s)

(* Bootstraps let go by panes that become idle (flushing), others becoming *)
(* idle with them.                                                         *)
LEMMA LetGo ==
  ASSUME TypeInv, PaneInv, NEW idle \in SUBSET Panes, NEW flushing \in SUBSET idle,
         \A p \in flushing :
           /\ setup[p].at # "Idle"
           /\ <<"check", setup[p].info>> \notin tasks' /\ <<"install", setup[p].info>> \notin tasks',
         setup' = [p \in Panes |-> IF p \in idle THEN Idle ELSE setup[p]],
         flushed' = flushed \cup {setup[p].info : p \in flushing},
         tasks' \subseteq tasks, blocks' \subseteq blocks,
         UNCHANGED <<paneOf, alive, exited>>,
         \A s \in Sessions : executor'[s] # NoExecutor => executor[s] # NoExecutor
  PROVE  PaneInv'
<1>1. Idle.at = "Idle" /\ Idle.info = None /\ None \notin Sessions /\ None \notin Panes
  BY RemoteServerAssumption DEF Idle, Awaiting
<1>2. \A p \in flushing : /\ p \in Panes
                          /\ setup[p].info \in Sessions /\ paneOf[setup[p].info] = p
  BY <1>1 DEF PaneInv, HeldBack
<1>3. ASSUME NEW p \in Panes PROVE HeldBack(p)'
  <2>1. CASE p \in idle
    BY <2>1 DEF HeldBack
  <2>2. CASE p \notin idle
    <3>1. setup'[p] = setup[p] /\ HeldBack(p)
      BY <2>2 DEF PaneInv
    <3>2. setup[p].info \in flushed' => setup[p].info \in flushed \/ paneOf[setup[p].info] # p
      BY <1>2, <2>2
    <3> QED
      BY <3>1, <3>2 DEF HeldBack
  <2> QED
    BY <2>1, <2>2
<1>4. ASSUME NEW s \in Sessions PROVE Running(s)' /\ OneToken(s)'
  <2>1. Running(s)'
    BY <1>1 DEF PaneInv, Running
  <2>2. s \in flushed' => s \in flushed \/ (paneOf[s] \in Panes /\ ~Checking(s)' /\ ~Installing(s)')
    <3>1. ASSUME NEW p \in flushing, s = setup[p].info
          PROVE  paneOf[s] \in Panes /\ ~Checking(s)' /\ ~Installing(s)'
      <4>1. paneOf[s] \in Panes
        BY <1>2, <3>1
      <4>2. <<"check", setup[p].info>> \notin tasks' /\ <<"install", setup[p].info>> \notin tasks'
        OBVIOUS
      <4>3. setup[p].info = s
        BY <3>1
      <4> QED
        BY <4>1, <4>2, <4>3 DEF Checking, Installing
    <3>2. s \in flushed' => s \in flushed \/ \E p \in flushing : s = setup[p].info
      OBVIOUS
    <3> QED
      BY <3>1, <3>2
  <2>3. (Checking(s)' => Checking(s)) /\ (Installing(s)' => Installing(s)) /\ (s \in blocks' => s \in blocks)
    BY DEF Checking, Installing
  <2>4. OneToken(s)'
    BY <1>1, <2>2, <2>3 DEF PaneInv, OneToken, Unconnected
  <2> QED
    BY <2>1, <2>4
<1>5. ASSUME NEW p \in Panes, NEW s \in Sessions PROVE Held(p, s)'
  BY <1>1 DEF PaneInv, Held, Checking, Installing
<1> QED
  BY <1>3, <1>4, <1>5 DEF PaneInv

(* A step that leaves the panes alone.                                     *)
LEMMA PanesUnchanged ==
  ASSUME PaneInv, UNCHANGED paneVars,
         \A s \in Sessions :
           executor'[s] # NoExecutor => executor[s] # NoExecutor \/ s \in alive \cap flushed
  PROVE  PaneInv'
<1>1. \A p \in Panes : HeldBack(p)'
  BY DEF PaneInv, HeldBack, paneVars
<1>2. \A s \in Sessions : Running(s)' /\ OneToken(s)'
  BY DEF PaneInv, Running, OneToken, Unconnected, Checking, Installing, paneVars
<1>3. \A p \in Panes, s \in Sessions : Held(p, s)'
  BY DEF PaneInv, Held, Checking, Installing, paneVars
<1> QED
  BY <1>1, <1>2, <1>3 DEF PaneInv

LEMMA ReleaseSafe ==
  ASSUME TypeInv, PaneInv, NEW s, Release(s), UNCHANGED <<tasks, blocks, paneOf, alive, exited>>,
         \A t \in Sessions : executor'[t] # NoExecutor => executor[t] # NoExecutor
  PROVE  PaneInv'
<1> DEFINE held == {p \in Panes : Awaits(p, "AwaitingConnect", s)}
<1>1. ASSUME NEW p \in held
      PROVE  /\ setup[p].at # "Idle"
             /\ <<"check", setup[p].info>> \notin tasks' /\ <<"install", setup[p].info>> \notin tasks'
  <2>1. setup[p].at = "AwaitingConnect" /\ setup[p].info \in Sessions
    BY DEF Awaits, TypeInv, PaneTypes
  <2>2. Held(p, setup[p].info)
    BY <2>1 DEF PaneInv
  <2> QED
    BY <2>1, <2>2 DEF Held, Awaiting, Checking, Installing
<1>2. /\ setup' = [p \in Panes |-> IF p \in held THEN Idle ELSE setup[p]]
      /\ flushed' = flushed \cup {setup[p].info : p \in held}
      /\ held \in SUBSET Panes
  BY DEF Release
<1> HIDE DEF held
<1> QED
  BY <1>1, <1>2, LetGo

(* A pane moves on to another state that waits for session s; what it holds *)
(* back stays the same.                                                    *)
LEMMA MovesOn ==
  ASSUME TypeInv, PaneInv, NEW p \in Panes, NEW s \in Sessions,
         NEW at \in SetupStates \ {"Idle", "AwaitingCheck"},
         setup[p].at # "Idle",
         setup' = [setup EXCEPT ![p] = Awaiting(at, s, setup[p].info)],
         UNCHANGED <<flushed, paneOf, alive, exited, executor>>,
         \A t \in Sessions : Checking(t)' => Checking(t),
         \A t \in Sessions : Installing(t)' =>
           \/ Installing(t)
           \/ /\ t = s /\ paneOf[s] = p /\ at = "AwaitingInstall" /\ Unconnected(s)
              /\ ~Checking(s)' /\ s \notin blocks' /\ (s \notin alive \/ s \notin flushed),
         \A t \in Sessions : t \in blocks' =>
           \/ t \in blocks
           \/ t = s /\ paneOf[s] = p /\ Unconnected(s) /\ ~Checking(s)' /\ ~Installing(s)',
         <<"check", setup[p].info>> \notin tasks',
         <<"install", setup[p].info>> \in tasks' => at = "AwaitingInstall" /\ setup[p].info = s
  PROVE  PaneInv'
<1> DEFINE new == Awaiting(at, s, setup[p].info)
<1>1. /\ new.at = at /\ new.session = s /\ new.info = setup[p].info
      /\ at # "Idle" /\ at # "AwaitingCheck"
      /\ Idle.at = "Idle" /\ Idle.info = None /\ None \notin Sessions
  BY RemoteServerAssumption DEF Awaiting, Idle
<1>2. \A q \in Panes : setup'[q] = IF q = p THEN new ELSE setup[q]
  BY DEF TypeInv, PaneTypes
<1>3. new = Awaiting(at, s, setup[p].info)
  OBVIOUS
<1> HIDE DEF new
<1>4. /\ setup[p].info \in Sessions /\ setup[p].info \notin flushed
      /\ paneOf[setup[p].info] = p
  BY <1>1 DEF PaneInv, HeldBack
<1>5. ASSUME NEW q \in Panes PROVE HeldBack(q)'
  BY <1>1, <1>2, <1>4 DEF PaneInv, HeldBack
<1>6. ASSUME NEW t \in Sessions PROVE Running(t)' /\ OneToken(t)'
  <2>1. Running(t) /\ OneToken(t)
    BY DEF PaneInv
  <2>2. Running(t)'
    BY <1>1, <1>2, <2>1 DEF Running
  <2>3. OneToken(t)'
    BY <2>1, RemoteServerAssumption DEF OneToken, Unconnected
  <2> QED
    BY <2>2, <2>3
<1>7. ASSUME NEW q \in Panes, NEW t \in Sessions PROVE Held(q, t)'
  <2>1. CASE q = p
    <3>1. setup'[q].info = setup[p].info /\ setup'[q] = Awaiting(at, s, setup[p].info)
      BY <1>1, <1>2, <1>3, <2>1
    <3> QED
      BY <3>1 DEF Held, Checking, Installing
  <2>2. CASE q # p
    <3>1. setup'[q] = setup[q] /\ Held(q, t) /\ HeldBack(q)
      BY <1>2, <2>2 DEF PaneInv
    <3>2. setup[q].info = t => paneOf[t] = q
      BY <1>1, <3>1 DEF HeldBack
    <3> QED
      BY <2>2, <3>1, <3>2 DEF Held
  <2> QED
    BY <2>1, <2>2
<1> QED
  BY <1>5, <1>6, <1>7 DEF PaneInv

LEMMA SshInitShellPanes ==
  ASSUME TypeInv, PaneInv, NEW p \in Panes, NEW s \in Sessions, SshInitShell(p, s)
  PROVE  PaneInv'
<1> DEFINE new == Awaiting("AwaitingCheck", s, s)
<1>1. /\ new.at = "AwaitingCheck" /\ new.session = s /\ new.info = s
      /\ Idle.at = "Idle" /\ Idle.info = None /\ None \notin Sessions /\ None \notin Panes
  BY RemoteServerAssumption DEF Awaiting, Idle
<1>2. /\ \A q \in Panes : setup'[q] = IF q = p THEN new ELSE setup[q]
      /\ \A t \in Sessions : paneOf'[t] = IF t = s THEN p ELSE paneOf[t]
      /\ alive' = alive \cup {s}
      /\ UNCHANGED <<blocks, exited, executor>>
      /\ paneOf[s] = None
      /\ \A t \in alive : paneOf[t] # p
  BY DEF SshInitShell, ManagerIdle, TypeInv, PaneTypes
<1>3. new = Awaiting("AwaitingCheck", s, s)
  OBVIOUS
<1> HIDE DEF new
<1>4. /\ \A t \in Sessions : t \in flushed' => t \in flushed \/ (t = setup[p].info /\ setup[p].at # "Idle")
      /\ flushed \subseteq flushed'
  BY DEF SshInitShell
<1>5. \A t \in Sessions : t \in flushed' => t \in flushed \/ paneOf[t] = p
  BY <1>1, <1>4 DEF PaneInv, HeldBack
<1>6. /\ \A t \in Sessions : (Checking(t)' <=> Checking(t) \/ t = s)
      /\ \A t \in Sessions : (Installing(t)' <=> Installing(t))
  BY DEF SshInitShell, Checking, Installing
<1>7. OneToken(s) /\ s \notin flushed'
  BY <1>1, <1>2, <1>5 DEF PaneInv, OneToken
<1>8. ASSUME NEW q \in Panes PROVE HeldBack(q)'
  BY <1>1, <1>2, <1>5, <1>7 DEF PaneInv, HeldBack
<1>9. ASSUME NEW t \in Sessions PROVE Running(t)' /\ OneToken(t)'
  <2>1. Running(t) /\ OneToken(t)
    BY DEF PaneInv
  <2>2. alive \subseteq Sessions
    BY DEF TypeInv, PaneTypes
  <2>3. Running(t)'
    <3>1. CASE t = s
      <4>1. paneOf'[s] = p /\ \A u \in alive : u # s /\ paneOf'[u] # p
        BY <1>1, <1>2, <1>7, <2>2 DEF OneToken
      <4>2. \A u \in alive' : paneOf'[s] = paneOf'[u] => s = u
        BY <1>2, <4>1
      <4>3. executor'[s] = NoExecutor
        BY <1>2, <1>7 DEF OneToken
      <4> QED
        BY <1>1, <1>2, <3>1, <4>1, <4>2, <4>3 DEF Running
    <3>2. CASE t # s
      BY <1>1, <1>2, <1>4, <2>1, <2>2, <3>2 DEF Running
    <3> QED
      BY <3>1, <3>2
  <2>4. OneToken(t)'
    <3>1. CASE t = s
      BY <1>1, <1>2, <1>6, <1>7, <3>1 DEF OneToken, Unconnected
    <3>2. CASE t # s
      BY <1>1, <1>2, <1>5, <1>6, <2>1, <3>2 DEF OneToken, Unconnected
    <3> QED
      BY <3>1, <3>2
  <2> QED
    BY <2>3, <2>4
<1>10. ASSUME NEW q \in Panes, NEW t \in Sessions PROVE Held(q, t)'
  <2>1. Held(q, t) /\ HeldBack(q)
    BY DEF PaneInv
  <2>2. CASE q = p
    BY <1>1, <1>2, <1>3, <1>6, <1>7, <2>2, <2>1 DEF Held, OneToken
  <2>3. CASE q # p
    BY <1>1, <1>2, <1>6, <2>1, <2>3 DEF Held, HeldBack
  <2> QED
    BY <2>2, <2>3
<1> QED
  BY <1>8, <1>9, <1>10 DEF PaneInv

(* The check of the binary, or its installation, is over.                  *)
LEMMA CheckPanes ==
  ASSUME TypeInv, PaneInv, NEW s \in Sessions, BinaryCheckComplete(s)
  PROVE  PaneInv'
<1>1. /\ Checking(s) /\ ~Installing(s) /\ s \notin blocks /\ paneOf[s] \in Panes
      /\ s \notin alive \/ s \notin flushed
      /\ Unconnected(s)
      /\ UNCHANGED <<paneOf, alive, exited, executor>>
  BY DEF BinaryCheckComplete, PaneInv, OneToken, Checking, Unconnected, TypeInv, PaneTypes
<1>2. setup \in [Panes -> SetupState]
  BY DEF TypeInv, PaneTypes
<1>3. CASE /\ tasks' = tasks \ {<<"check", s>>}
           /\ UNCHANGED <<setup, blocks, flushed>>
  <2> DEFINE none == {}
  <2>1. /\ setup' = [p \in Panes |-> IF p \in none THEN Idle ELSE setup[p]]
        /\ flushed' = flushed \cup {setup[p].info : p \in none}
        /\ none \in SUBSET Panes /\ none \in SUBSET none
    BY <1>2, <1>3
  <2>2. \A p \in none : /\ setup[p].at # "Idle"
                        /\ <<"check", setup[p].info>> \notin tasks'
                        /\ <<"install", setup[p].info>> \notin tasks'
    OBVIOUS
  <2> HIDE DEF none
  <2> QED
    BY <1>1, <1>3, <2>1, <2>2, LetGo
<1>4. ASSUME NEW p \in Panes, Awaits(p, "AwaitingCheck", s)
      PROVE  /\ setup[p].at = "AwaitingCheck" /\ setup[p].session = s
             /\ setup[p].info = s /\ paneOf[s] = p
  BY <1>4 DEF Awaits, PaneInv, HeldBack, Idle, Awaiting
<1>5. ASSUME NEW p \in Panes, Awaits(p, "AwaitingCheck", s),
             NEW at \in {"AwaitingConnect", "AwaitingInstall", "AwaitingUserChoice"},
             setup' = [setup EXCEPT ![p] = Awaiting(at, s, setup[p].info)],
             tasks' = (tasks \ {<<"check", s>>}) \cup
                        (IF at = "AwaitingInstall" THEN {<<"install", s>>} ELSE {}),
             blocks' = blocks \cup (IF at = "AwaitingUserChoice" THEN {s} ELSE {}),
             UNCHANGED flushed
      PROVE  PaneInv'
  <2>1. \A t \in Sessions : Checking(t)' => Checking(t) /\ t # s
    BY <1>5 DEF Checking
  <2>2. \A t \in Sessions : Installing(t)' => Installing(t) \/ (t = s /\ at = "AwaitingInstall")
    BY <1>5 DEF Installing
  <2>3. at = "AwaitingInstall" => s \notin blocks'
    BY <1>1, <1>5
  <2>4. \A t \in Sessions : t \in blocks' => t \in blocks \/ (t = s /\ at = "AwaitingUserChoice")
    BY <1>5
  <2>5. /\ <<"check", setup[p].info>> \notin tasks'
        /\ <<"install", setup[p].info>> \in tasks' => at = "AwaitingInstall" /\ setup[p].info = s
    BY <1>1, <1>4, <1>5 DEF Installing
  <2>6. at \in SetupStates \ {"Idle", "AwaitingCheck"} /\ setup[p].at # "Idle"
    BY <1>4, <1>5 DEF SetupStates
  <2>7. \A t \in Sessions : t \in blocks' =>
          \/ t \in blocks
          \/ t = s /\ paneOf[s] = p /\ Unconnected(s) /\ ~Checking(s)' /\ ~Installing(s)'
    BY <1>1, <1>4, <1>5, <2>1, <2>2, <2>4
  <2>8. \A t \in Sessions : Installing(t)' =>
          \/ Installing(t)
          \/ /\ t = s /\ paneOf[s] = p /\ at = "AwaitingInstall" /\ Unconnected(s)
             /\ ~Checking(s)' /\ s \notin blocks' /\ (s \notin alive \/ s \notin flushed)
    BY <1>1, <1>4, <1>5, <2>1, <2>2, <2>3
  <2>9. /\ UNCHANGED <<flushed, paneOf, alive, exited, executor>>
        /\ \A t \in Sessions : Checking(t)' => Checking(t)
        /\ setup' = [setup EXCEPT ![p] = Awaiting(at, s, setup[p].info)]
    BY <1>1, <1>5, <2>1
  <2> QED
    BY ONLY TypeInv, PaneInv, p \in Panes, s \in Sessions,
            <2>5, <2>6, <2>7, <2>8, <2>9, MovesOn
<1>6. ASSUME NEW p \in Panes, Awaits(p, "AwaitingCheck", s),
             setup' = [setup EXCEPT ![p] = Idle],
             tasks' = tasks \ {<<"check", s>>},
             flushed' = flushed \cup {setup[p].info},
             UNCHANGED blocks
      PROVE  PaneInv'
  <2> DEFINE one == {p}
  <2>1. /\ setup' = [q \in Panes |-> IF q \in one THEN Idle ELSE setup[q]]
        /\ flushed' = flushed \cup {setup[q].info : q \in one}
        /\ one \in SUBSET Panes /\ one \in SUBSET one
    BY <1>2, <1>6
  <2>2. \A q \in one : /\ setup[q].at # "Idle"
                       /\ <<"check", setup[q].info>> \notin tasks'
                       /\ <<"install", setup[q].info>> \notin tasks'
    BY <1>1, <1>4, <1>6 DEF Installing
  <2> HIDE DEF one
  <2> QED
    BY <1>1, <1>6, <2>1, <2>2, LetGo
<1>7. ASSUME NEW p \in Panes, Awaits(p, "AwaitingCheck", s), ConnectSession(p, s),
             tasks' = tasks \ {<<"check", s>>}, UNCHANGED <<blocks, flushed>>
      PROVE  PaneInv'
  BY <1>5, <1>7 DEF ConnectSession
<1>8. ASSUME NEW p \in Panes, Awaits(p, "AwaitingCheck", s),
             NEW at \in {"AwaitingInstall", "AwaitingUserChoice"},
             setup' = [setup EXCEPT ![p].at = at]
      PROVE  setup' = [setup EXCEPT ![p] = Awaiting(at, s, setup[p].info)]
  <2>1. [setup[p] EXCEPT !.at = at] = Awaiting(at, s, setup[p].info)
    BY <1>2, <1>4, <1>8 DEF Awaiting, SetupState
  <2>2. setup' = [setup EXCEPT ![p] = [setup[p] EXCEPT !.at = at]]
    BY <1>2, <1>8
  <2> QED
    BY <2>1, <2>2
<1>9. ASSUME NEW p \in Panes, Awaits(p, "AwaitingCheck", s),
             setup' = [setup EXCEPT ![p].at = "AwaitingInstall"],
             tasks' = (tasks \ {<<"check", s>>}) \cup {<<"install", s>>},
             UNCHANGED <<blocks, flushed>>
      PROVE  PaneInv'
  BY <1>5, <1>8, <1>9
<1>10. ASSUME NEW p \in Panes, Awaits(p, "AwaitingCheck", s),
              setup' = [setup EXCEPT ![p].at = "AwaitingUserChoice"],
              tasks' = tasks \ {<<"check", s>>},
              blocks' = blocks \cup {s}, UNCHANGED flushed
       PROVE  PaneInv'
  BY <1>5, <1>8, <1>10
<1> QED
  BY <1>3, <1>6, <1>7, <1>9, <1>10 DEF BinaryCheckComplete

LEMMA InstallPanes ==
  ASSUME TypeInv, PaneInv, NEW s \in Sessions, BinaryInstallComplete(s)
  PROVE  PaneInv'
<1>1. /\ tasks' = tasks \ {<<"install", s>>}
      /\ UNCHANGED <<blocks, paneOf, alive, exited, executor>>
  BY DEF BinaryInstallComplete
<1>2. setup \in [Panes -> SetupState]
  BY DEF TypeInv, PaneTypes
<1>3. CASE UNCHANGED <<setup, flushed>>
  <2> DEFINE none == {}
  <2>1. /\ setup' = [p \in Panes |-> IF p \in none THEN Idle ELSE setup[p]]
        /\ flushed' = flushed \cup {setup[p].info : p \in none}
        /\ none \in SUBSET Panes /\ none \in SUBSET none
    BY <1>2, <1>3
  <2>2. \A p \in none : /\ setup[p].at # "Idle"
                        /\ <<"check", setup[p].info>> \notin tasks'
                        /\ <<"install", setup[p].info>> \notin tasks'
    OBVIOUS
  <2> HIDE DEF none
  <2> QED
    BY <1>1, <2>1, <2>2, LetGo
<1>4. ASSUME NEW p \in Panes, Awaits(p, "AwaitingInstall", s)
      PROVE  /\ setup[p].at = "AwaitingInstall"
             /\ <<"check", setup[p].info>> \notin tasks'
             /\ <<"install", setup[p].info>> \notin tasks'
  <2>1. setup[p].at = "AwaitingInstall" /\ setup[p].session = s
    BY <1>4 DEF Awaits
  <2>2. setup[p].info \in Sessions /\ Held(p, setup[p].info)
    BY <2>1 DEF PaneInv, TypeInv, PaneTypes
  <2> QED
    BY <1>1, <2>1, <2>2 DEF Held, Awaiting, Checking, Installing
<1>5. ASSUME NEW p \in Panes, Awaits(p, "AwaitingInstall", s), ConnectSession(p, s),
             UNCHANGED flushed
      PROVE  PaneInv'
  <2> DEFINE at == "AwaitingConnect"
  <2>1. /\ \A t \in Sessions : Checking(t)' => Checking(t)
        /\ \A t \in Sessions : Installing(t)' => Installing(t)
    BY <1>1 DEF Checking, Installing
  <2>2. setup' = [setup EXCEPT ![p] = Awaiting(at, s, setup[p].info)]
    BY <1>5 DEF ConnectSession
  <2>3. at \in SetupStates \ {"Idle", "AwaitingCheck"} /\ setup[p].at # "Idle"
    BY <1>4, <1>5 DEF SetupStates
  <2>4. /\ <<"check", setup[p].info>> \notin tasks'
        /\ <<"install", setup[p].info>> \in tasks' => at = "AwaitingInstall" /\ setup[p].info = s
    BY <1>4, <1>5
  <2> HIDE DEF at
  <2>5. UNCHANGED <<flushed, paneOf, alive, exited, executor>>
        /\ \A t \in Sessions : t \in blocks' => t \in blocks
    BY <1>1, <1>5
  <2>6. /\ \A t \in Sessions : t \in blocks' =>
            \/ t \in blocks
            \/ t = s /\ paneOf[s] = p /\ Unconnected(s) /\ ~Checking(s)' /\ ~Installing(s)'
        /\ \A t \in Sessions : Installing(t)' =>
            \/ Installing(t)
            \/ /\ t = s /\ paneOf[s] = p /\ at = "AwaitingInstall" /\ Unconnected(s)
               /\ ~Checking(s)' /\ s \notin blocks' /\ (s \notin alive \/ s \notin flushed)
    BY <2>1, <2>5
  <2> QED
    BY ONLY TypeInv, PaneInv, p \in Panes, s \in Sessions,
            <2>1, <2>2, <2>3, <2>4, <2>5, <2>6, MovesOn
<1>6. ASSUME NEW p \in Panes, Awaits(p, "AwaitingInstall", s),
             setup' = [setup EXCEPT ![p] = Idle],
             flushed' = flushed \cup {setup[p].info}
      PROVE  PaneInv'
  <2> DEFINE one == {p}
  <2>1. /\ setup' = [q \in Panes |-> IF q \in one THEN Idle ELSE setup[q]]
        /\ flushed' = flushed \cup {setup[q].info : q \in one}
        /\ one \in SUBSET Panes /\ one \in SUBSET one
    BY <1>2, <1>6
  <2>2. \A q \in one : /\ setup[q].at # "Idle"
                       /\ <<"check", setup[q].info>> \notin tasks'
                       /\ <<"install", setup[q].info>> \notin tasks'
    BY <1>4, <1>6
  <2> HIDE DEF one
  <2> QED
    BY <1>1, <2>1, <2>2, LetGo
<1> QED
  BY <1>3, <1>5, <1>6 DEF BinaryInstallComplete

(* The user chooses in the block of session s.  The pane may have moved on *)
(* to another session by then, and only its state is looked at.            *)
LEMMA ChoicePanes ==
  ASSUME TypeInv, PaneInv, NEW s \in Sessions, ChooseInstall(s) \/ ChooseSkip(s)
  PROVE  PaneInv'
<1> DEFINE p == paneOf[s]
<1>1. /\ s \in blocks /\ blocks' = blocks \ {s}
      /\ UNCHANGED <<paneOf, alive, exited, executor>>
      /\ p \in Panes
  BY DEF ChooseInstall, ChooseSkip, ManagerIdle, TypeInv, PaneTypes
<1>2. setup \in [Panes -> SetupState]
  BY DEF TypeInv, PaneTypes
<1>3. ~Checking(s) /\ ~Installing(s) /\ Unconnected(s)
  BY <1>1 DEF PaneInv, OneToken, Unconnected
<1>4. ASSUME setup[p].at = "AwaitingUserChoice"
      PROVE  /\ setup[p].info \in Sessions
             /\ <<"check", setup[p].info>> \notin tasks
             /\ <<"install", setup[p].info>> \notin tasks
             /\ s \notin alive \/ s \notin flushed
  <2>1. setup[p].info \in Sessions /\ Held(p, setup[p].info) /\ HeldBack(p) /\ Running(s)
    BY <1>1, <1>4 DEF PaneInv, TypeInv, PaneTypes
  <2>2. s \in alive => setup[p].info = s
    BY <1>1, <1>4, <2>1 DEF Running
  <2>3. setup[p].info \notin flushed
    BY <1>4, <2>1 DEF HeldBack, Idle, Awaiting
  <2> QED
    BY <1>4, <2>1, <2>2, <2>3 DEF Held, Awaiting, Checking, Installing
<1> HIDE DEF p
<1>5. ASSUME NEW idle \in SUBSET Panes, NEW flushing \in SUBSET idle,
             flushing # {} => flushing = {p} /\ setup[p].at = "AwaitingUserChoice",
             setup' = [q \in Panes |-> IF q \in idle THEN Idle ELSE setup[q]],
             flushed' = flushed \cup {setup[q].info : q \in flushing},
             UNCHANGED tasks
      PROVE  PaneInv'
  <2>1. \A q \in flushing : /\ setup[q].at # "Idle"
                            /\ <<"check", setup[q].info>> \notin tasks'
                            /\ <<"install", setup[q].info>> \notin tasks'
    BY <1>4, <1>5
  <2> QED
    BY <1>1, <1>5, <2>1, LetGo
<1> DEFINE none == {}
           one == {p}
<1>6. CASE UNCHANGED <<setup, tasks, flushed>>
  <2>1. /\ setup' = [q \in Panes |-> IF q \in none THEN Idle ELSE setup[q]]
        /\ flushed' = flushed \cup {setup[q].info : q \in none}
        /\ none \in SUBSET Panes /\ none \in SUBSET none /\ none = {}
    BY <1>2, <1>6
  <2> HIDE DEF none
  <2> QED
    BY <1>5, <1>6, <2>1
<1>7. CASE setup[p].at = "AwaitingUserChoice" /\ setup' = [setup EXCEPT ![p] = Idle]
           /\ flushed' = flushed \cup {setup[p].info} /\ UNCHANGED tasks
  <2>1. /\ setup' = [q \in Panes |-> IF q \in one THEN Idle ELSE setup[q]]
        /\ flushed' = flushed \cup {setup[q].info : q \in one}
        /\ one \in SUBSET Panes /\ one \in SUBSET one /\ one = {p}
    BY <1>1, <1>2, <1>7
  <2> HIDE DEF one
  <2> QED
    BY <1>5, <1>7, <2>1
<1>8. CASE setup' = [setup EXCEPT ![p] = Idle] /\ UNCHANGED <<flushed, tasks>>
  <2>1. /\ setup' = [q \in Panes |-> IF q \in one THEN Idle ELSE setup[q]]
        /\ flushed' = flushed \cup {setup[q].info : q \in none}
        /\ one \in SUBSET Panes /\ none \in SUBSET one /\ none = {}
    BY <1>1, <1>2, <1>8
  <2> HIDE DEF one, none
  <2> QED
    BY <1>5, <1>8, <2>1
<1>9. CASE /\ setup[p].at = "AwaitingUserChoice"
           /\ setup' = [setup EXCEPT ![p] = Awaiting("AwaitingInstall", s, setup[p].info)]
           /\ tasks' = tasks \cup {<<"install", s>>}
           /\ UNCHANGED flushed
  <2> DEFINE at == "AwaitingInstall"
  <2>1. /\ \A t \in Sessions : Checking(t)' => Checking(t)
        /\ \A t \in Sessions : Installing(t)' => Installing(t) \/ t = s
        /\ s \notin blocks'
    BY <1>1, <1>9 DEF Checking, Installing
  <2>2. /\ at \in SetupStates \ {"Idle", "AwaitingCheck"} /\ at = "AwaitingInstall"
        /\ setup[p].at # "Idle"
        /\ setup' = [setup EXCEPT ![p] = Awaiting(at, s, setup[p].info)]
    BY <1>9 DEF SetupStates
  <2> HIDE DEF at
  <2>3. /\ <<"check", setup[p].info>> \notin tasks'
        /\ <<"install", setup[p].info>> \in tasks' => at = "AwaitingInstall" /\ setup[p].info = s
    BY <1>4, <1>9, <2>2
  <2>4. /\ UNCHANGED <<flushed, paneOf, alive, exited, executor>>
        /\ p \in Panes
        /\ paneOf[s] = p
    BY <1>1, <1>9 DEF p
  <2>5. \A t \in Sessions : t \in blocks' =>
          \/ t \in blocks
          \/ t = s /\ paneOf[s] = p /\ Unconnected(s) /\ ~Checking(s)' /\ ~Installing(s)'
    BY <1>1
  <2>6. \A t \in Sessions : Installing(t)' =>
          \/ Installing(t)
          \/ /\ t = s /\ paneOf[s] = p /\ at = "AwaitingInstall" /\ Unconnected(s)
             /\ ~Checking(s)' /\ s \notin blocks' /\ (s \notin alive \/ s \notin flushed)
    BY <1>3, <1>4, <1>9, <2>1, <2>2, <2>4
  <2> QED
    BY ONLY TypeInv, PaneInv, s \in Sessions,
            <2>1, <2>2, <2>3, <2>4, <2>5, <2>6, MovesOn
<1> QED
  BY <1>6, <1>7, <1>8, <1>9 DEF ChooseInstall, ChooseSkip, p

(* The session's shell goes, with or without deregistering it.             *)
LEMMA GonePanes ==
  ASSUME TypeInv, PaneInv, NEW s \in Sessions, ExitShell(s) \/ SshDies(s)
  PROVE  PaneInv'
<1>1. /\ UNCHANGED <<setup, tasks, flushed, paneOf, executor>>
      /\ alive' = alive \ {s} /\ s \in alive
      /\ blocks' \subseteq blocks
      /\ exited \subseteq exited' /\ exited' \subseteq exited \cup {s}
      /\ s \in exited' /\ s \notin exited =>
           s \notin blocks' /\ executor[s] # NoExecutor
  BY DEF ExitShell, SshDies, ManagerIdle
<1>2. Running(s) /\ OneToken(s)
  BY DEF PaneInv
<1>3. \A p \in Panes : HeldBack(p)'
  BY <1>1 DEF PaneInv, HeldBack
<1>4. ASSUME NEW t \in Sessions PROVE Running(t)' /\ OneToken(t)'
  <2>1. Running(t) /\ OneToken(t)
    BY DEF PaneInv
  <2>2. Running(t)'
    BY <1>1, <2>1 DEF Running
  <2>3. /\ (Checking(t)' <=> Checking(t)) /\ (Installing(t)' <=> Installing(t))
        /\ (t \in blocks' => t \in blocks)
    BY <1>1 DEF Checking, Installing
  <2>4. t = s /\ s \in exited' /\ s \notin exited => ~Unconnected(t)'
    BY <1>1, <1>2, <2>3 DEF Running, OneToken, Unconnected
  <2>5. OneToken(t)'
    BY <1>1, <2>1, <2>3, <2>4 DEF OneToken, Unconnected
  <2> QED
    BY <2>2, <2>5
<1>5. \A p \in Panes, t \in Sessions : Held(p, t)'
  BY <1>1 DEF PaneInv, Held, Checking, Installing
<1> QED
  BY <1>3, <1>4, <1>5 DEF PaneInv

LEMMA InitPanes == Init => PaneInv
<1> SUFFICES ASSUME Init PROVE PaneInv
  OBVIOUS
<1>1. \A p \in Panes : setup[p] = Idle /\ Idle.info = None
  BY DEF Init, Idle, Awaiting
<1>2. \A s \in Sessions : Running(s) /\ OneToken(s)
  BY DEF Init, Running, OneToken, Unconnected, Checking, Installing
<1> QED
  BY <1>1, <1>2, RemoteServerAssumption DEF PaneInv, HeldBack, Held

(* No closure initializes a session: it swaps the executor of one that is. *)
LEMMA ExecutorKeeps ==
  ASSUME TypeInv, NEW f \in flows, FlowConnected(f), NEW t \in Sessions,
         executor'[t] # NoExecutor
  PROVE  executor[t] # NoExecutor
<1>1. executor' = executor \/ executor' = SwapExecutor(f.session)
  BY DEF FlowConnected
<1> QED
  BY <1>1 DEF SwapExecutor, TypeInv, ExecutorTypes

LEMMA PaneStep == TypeInv /\ PaneInv /\ [Next]_vars => PaneInv'
<1> SUFFICES ASSUME TypeInv, PaneInv, [Next]_vars PROVE PaneInv'
  OBVIOUS
<1>1. CASE UNCHANGED vars
  BY <1>1, PanesUnchanged DEF vars
<1>2. ASSUME NEW s \in Sessions, Bootstrapped(s) PROVE PaneInv'
  <2>1. \A t \in Sessions : executor'[t] # NoExecutor =>
          executor[t] # NoExecutor \/ t \in alive \cap flushed
    BY <1>2 DEF Bootstrapped, TypeInv, ExecutorTypes
  <2> QED
    BY <1>2, <2>1, PanesUnchanged DEF Bootstrapped, ControllersIdle
<1>3. ASSUME NEW s \in Sessions, NEW path \in Paths, NavigateToDirectory(s, path)
      PROVE  PaneInv'
  BY <1>3, PanesUnchanged DEF NavigateToDirectory, ControllersIdle
<1>4. ASSUME NEW s \in Sessions, NEW c \in 1 .. Len(clients[s]),
             LinkBreaks(s, c) \/ StreamEnds(s, c) \/ RepoMetadataSnapshot(s, c)
      PROVE  PaneInv'
  BY <1>4, PanesUnchanged DEF LinkBreaks, StreamEnds, RepoMetadataSnapshot, ControllersIdle
<1>5. ASSUME NEW f \in flows,
             Wake(f) \/ TransportConnects(f) \/ TransportFails(f)
               \/ HandshakeSucceeds(f) \/ HandshakeFails(f)
      PROVE  PaneInv'
  BY <1>5, PanesUnchanged
     DEF Wake, TransportConnects, TransportFails, HandshakeSucceeds, HandshakeFails,
         ControllersIdle
<1>6. ASSUME NEW f \in flows, FlowConnected(f) \/ FlowFailed(f) PROVE PaneInv'
  <2>1. \A t \in Sessions : executor'[t] # NoExecutor => executor[t] # NoExecutor
    BY <1>6, ExecutorKeeps DEF FlowFailed
  <2>2. UNCHANGED <<tasks, blocks, paneOf, alive, exited>>
    BY <1>6 DEF FlowConnected, FlowFailed
  <2>3. CASE Release(f.session)
    BY <2>1, <2>2, <2>3, ReleaseSafe
  <2>4. CASE UNCHANGED <<setup, flushed>>
    BY <2>1, <2>2, <2>4, PanesUnchanged DEF paneVars
  <2> QED
    BY <1>6, <2>3, <2>4 DEF FlowConnected, FlowFailed
<1> QED
  BY <1>1, <1>2, <1>3, <1>4, <1>5, <1>6, SshInitShellPanes, CheckPanes, InstallPanes,
     ChoicePanes, GonePanes DEF Next, Background, Closures

-----------------------------------------------------------------------------
(* The connections.  A session that is not connected to a server, and has  *)
(* never been, is untouched; a task that connects one finds it             *)
(* disconnected, with its navigated path forgotten, and is the only one;   *)
(* and what a connected session was told is known to its server.           *)

Local == {NoExecutor, Fallback}

ServerKnows(s) ==
  LET client == clients[s][sessions[s].client] IN
  /\ s \in bootInfo => (client.link = "open" => client.told)
  /\ lastPath[s] # None => (client.link = "open" => lastPath[s] \in client.asked)
  /\ executor[s] \notin Local => executor[s] = sessions[s].client

SessionInv(s) ==
  /\ Unconnected(s) =>
       /\ sessions[s] = Untracked /\ FlowsOf(s) = {}
       /\ lastPath[s] = None /\ executor[s] \in Local
  /\ \A f \in FlowsOf(s) :
       /\ ~IsConnected(s) /\ lastPath[s] = None
       /\ f.attempt = 0 => executor[s] \in Local
       /\ \A g \in FlowsOf(s) : f = g
  /\ s \in exited => ~Tracked(s)
  /\ IsConnected(s) => ServerKnows(s)

ConnectionInv ==
  /\ \A s \in Sessions : SessionInv(s)
  /\ HostsMatch

(* The tasks of a session after a step that ends some and starts others.   *)
LEMMA FlowsContinue ==
  ASSUME NEW s, NEW done, NEW next, Continue(done, next),
         \A f \in next : f.session = s
  PROVE  /\ FlowsOf(s)' = (FlowsOf(s) \ done) \cup next
         /\ \A t : t # s /\ (\A f \in done : f.session = s) => FlowsOf(t)' = FlowsOf(t)
BY DEF Continue, FlowsOf

(* A step that is about session s leaves the others as they were.          *)
LEMMA OthersKept ==
  ASSUME ConnectionInv, NEW s, NEW t \in Sessions, t # s,
         FlowsOf(t)' = FlowsOf(t),
         sessions'[t] = sessions[t], clients'[t] = clients[t],
         lastPath'[t] = lastPath[t], executor'[t] = executor[t],
         t \in bootInfo' <=> t \in bootInfo, t \in exited' <=> t \in exited,
         Unconnected(t)' => Unconnected(t)
  PROVE  SessionInv(t)'
<1>1. SessionInv(t)
  BY DEF ConnectionInv
<1>2. IsConnected(t)' <=> IsConnected(t)
  BY DEF IsConnected
<1>3. Tracked(t)' <=> Tracked(t)
  BY DEF Tracked
<1>4. ServerKnows(t)' <=> ServerKnows(t)
  BY DEF ServerKnows, Local
<1> QED
  BY <1>1, <1>2, <1>3, <1>4 DEF SessionInv, Untracked, State, Local

(* The index and the repositories follow a session that joins or leaves.   *)
LEMMA HostsStep ==
  ASSUME TypeInv, HostsMatch, NEW s \in Sessions, NEW state,
         sessions' = [sessions EXCEPT ![s] = state],
         \/ /\ ~IsConnected(s) /\ state.at # "Connected"
            /\ UNCHANGED <<index, repos>>
         \/ /\ IsConnected(s) /\ state.at # "Connected"
            /\ RemoveFromHostIndex(sessions[s].host, s)
         \/ /\ ~IsConnected(s) /\ state.at # "Connected"
            /\ \E h \in Hosts : RemoveFromHostIndex(h, s)
         \/ /\ ~IsConnected(s) /\ state.at = "Connected"
            /\ index' = [index EXCEPT ![state.host] = @ \cup {s}]
            /\ repos' = repos
  PROVE  HostsMatch'
<1>1. /\ \A t \in Sessions : sessions'[t] = IF t = s THEN state ELSE sessions[t]
      /\ index \in [Hosts -> SUBSET Sessions]
      /\ IsConnected(s) => sessions[s].host \in Hosts
  BY DEF TypeInv, SessionTypes
<1>2. /\ \A t \in Sessions : t # s => (IsConnected(t)' <=> IsConnected(t))
      /\ \A t \in Sessions : t # s => sessions'[t].host = sessions[t].host
      /\ IsConnected(s)' <=> state.at = "Connected"
      /\ sessions'[s].host = state.host
  BY <1>1 DEF IsConnected
<1> DEFINE Of(h) == {t \in Sessions : IsConnected(t) /\ sessions[t].host = h}
<1>3. /\ \A h \in Hosts : index[h] = Of(h)
      /\ \A h \in repos : index[h] # {}
  BY DEF HostsMatch
<1>4. repos \subseteq Hosts
  BY DEF TypeInv, SessionTypes
<1>5. /\ \A h \in Hosts : IsConnected(s)' /\ state.host = h => Of(h)' = Of(h) \cup {s}
      /\ \A h \in Hosts : ~(IsConnected(s)' /\ state.host = h) => Of(h)' = Of(h) \ {s}
      /\ \A h \in Hosts : s \in Of(h) <=> (IsConnected(s) /\ sessions[s].host = h)
  BY <1>2
<1>6. (\A h \in Hosts : index'[h] = Of(h)') /\ (\A h \in repos' : index'[h] # {}) => HostsMatch'
  BY DEF HostsMatch
<1> HIDE DEF Of
<1>7. CASE ~IsConnected(s) /\ state.at # "Connected" /\ UNCHANGED <<index, repos>>
  BY <1>2, <1>3, <1>4, <1>5, <1>6, <1>7
<1>8. CASE IsConnected(s) /\ state.at # "Connected" /\ RemoveFromHostIndex(sessions[s].host, s)
  BY <1>1, <1>2, <1>3, <1>4, <1>5, <1>6, <1>8 DEF RemoveFromHostIndex
<1>9. ASSUME ~IsConnected(s), state.at # "Connected", NEW h \in Hosts, RemoveFromHostIndex(h, s)
      PROVE  HostsMatch'
  <2>1. \A g \in Hosts : Of(g)' = Of(g) /\ s \notin Of(g)
    <3>1. \A g \in Hosts : Of(g)' = Of(g) \ {s} /\ s \notin Of(g)
      BY <1>2, <1>5, <1>9
    <3> QED
      BY <3>1
  <2>2. index' = index
    <3>1. index[h] \ {s} = index[h]
      BY <1>3, <1>9, <2>1
    <3> QED
      BY <1>1, <1>9, <3>1 DEF RemoveFromHostIndex
  <2>3. repos' \subseteq repos
    BY <1>9 DEF RemoveFromHostIndex
  <2> QED
    BY <1>3, <1>4, <1>6, <2>1, <2>2, <2>3
<1>10. CASE /\ ~IsConnected(s) /\ state.at = "Connected"
            /\ index' = [index EXCEPT ![state.host] = @ \cup {s}]
            /\ repos' = repos
  BY <1>1, <1>2, <1>3, <1>4, <1>5, <1>6, <1>10
<1> QED
  BY <1>7, <1>8, <1>9, <1>10

(* A step that changes no session's state, host index or repositories.     *)
LEMMA HostsKept ==
  ASSUME HostsMatch, UNCHANGED <<sessions, index, repos>>
  PROVE  HostsMatch'
BY DEF HostsMatch, IsConnected

(* A session once started, checked and installed never waits for that      *)
(* again.                                                                  *)
LEMMA UnconnectedStep ==
  ASSUME TypeInv, PaneInv, [Next]_vars, NEW t \in Sessions, Unconnected(t)'
  PROVE  Unconnected(t)
<1>1. UNCHANGED <<tasks, blocks, paneOf>> => Unconnected(t)
  BY DEF Unconnected, Checking, Installing
<1>2. ASSUME NEW p \in Panes, NEW s \in Sessions, SshInitShell(p, s) PROVE Unconnected(t)
  BY <1>2 DEF SshInitShell, Unconnected, Checking, Installing, TypeInv, PaneTypes
<1>3. ASSUME NEW s \in Sessions, BinaryCheckComplete(s) PROVE Unconnected(t)
  BY <1>3 DEF BinaryCheckComplete, Unconnected, Checking, Installing
<1>4. ASSUME NEW s \in Sessions, ChooseInstall(s) \/ ChooseSkip(s) PROVE Unconnected(t)
  BY <1>4 DEF ChooseInstall, ChooseSkip, Unconnected, Checking, Installing
<1>5. ASSUME NEW s \in Sessions, BinaryInstallComplete(s) PROVE Unconnected(t)
  BY <1>5 DEF BinaryInstallComplete, Unconnected, Checking, Installing
<1>6. ASSUME NEW s \in Sessions, ExitShell(s) \/ SshDies(s) PROVE Unconnected(t)
  BY <1>6 DEF ExitShell, SshDies, ManagerIdle, Unconnected, Checking, Installing
<1>7. CASE UNCHANGED vars
  BY <1>1, <1>7 DEF vars, paneVars
<1>8. ASSUME NEW s \in Sessions,
             \/ Bootstrapped(s)
             \/ \E path \in Paths : NavigateToDirectory(s, path)
             \/ \E c \in 1 .. Len(clients[s]) :
                  LinkBreaks(s, c) \/ StreamEnds(s, c) \/ RepoMetadataSnapshot(s, c)
      PROVE  Unconnected(t)
  BY <1>1, <1>8 DEF Bootstrapped, NavigateToDirectory, LinkBreaks, StreamEnds,
                    RepoMetadataSnapshot, ControllersIdle, paneVars
<1>9. ASSUME NEW f \in flows, Background(f) PROVE Unconnected(t)
  BY <1>1, <1>9 DEF Background, Wake, TransportConnects, TransportFails, HandshakeSucceeds,
                    HandshakeFails, Closures, FlowConnected, FlowFailed,
                    ControllersIdle, paneVars
<1> QED
  BY <1>2, <1>3, <1>4, <1>5, <1>6, <1>7, <1>8, <1>9 DEF Next

(* The manager marks a session disconnected.                               *)
LEMMA DisconnectedSafe ==
  ASSUME TypeInv, ConnectionInv, NEW s \in Sessions, NEW done, NEW cs \in Seq(ClientState),
         Len(cs) = Len(clients[s]),
         MarkSessionDisconnected(s, done, cs),
         \A f \in done : f.session = s,
         UNCHANGED <<bootInfo, exited, executor>>,
         \A t \in Sessions : Unconnected(t)' => Unconnected(t)
  PROVE  ConnectionInv'
<1>1. /\ sessions \in [Sessions -> SessionState] /\ clients \in [Sessions -> Seq(ClientState)]
      /\ lastPath \in [Sessions -> Paths \cup {None}]
      /\ IsConnected(s) => sessions[s].host \in Hosts
  BY DEF TypeInv, SessionTypes, ClientTypes
<1>2. SessionInv(s) /\ HostsMatch
  BY DEF ConnectionInv
<1>3. /\ Disconnected.at = "Disconnected"
      /\ \A h : Reconnecting(1, h).at = "Reconnecting"
  BY DEF Disconnected, Reconnecting, State
<1>4. ASSUME NEW t \in Sessions, t # s, FlowsOf(t)' = FlowsOf(t) PROVE SessionInv(t)'
  <2>1. /\ sessions'[t] = sessions[t] /\ clients'[t] = clients[t]
        /\ lastPath'[t] = lastPath[t] /\ executor'[t] = executor[t]
    BY <1>1, <1>4 DEF MarkSessionDisconnected, AttemptReconnect
  <2> QED
    BY <1>4, <2>1, OthersKept
<1>5. ASSUME NEW state, state.at \notin {"Connected", "Untracked"},
             sessions' = [sessions EXCEPT ![s] = state],
             Tracked(s),
             FlowsOf(s)' \subseteq FlowsOf(s), lastPath' = lastPath
      PROVE  SessionInv(s)'
  <2>1. sessions'[s] = state /\ ~IsConnected(s)'
    BY <1>1, <1>5 DEF IsConnected
  <2>2. ~Unconnected(s)' /\ s \notin exited'
    BY <1>2, <1>5 DEF SessionInv, Tracked, Untracked, State
  <2>3. \A f \in FlowsOf(s)' : /\ lastPath'[s] = None
                               /\ f.attempt = 0 => executor'[s] \in Local
                               /\ \A g \in FlowsOf(s)' : f = g
    BY <1>2, <1>5 DEF SessionInv
  <2> QED
    BY <2>1, <2>2, <2>3 DEF SessionInv, Local
<1>6. ASSUME ~Tracked(s), clients' = [clients EXCEPT ![s] = cs], Continue(done, {}),
             UNCHANGED <<sessions, index, lastPath, repos>>
      PROVE  ConnectionInv'
  <2> DEFINE next == {}
  <2>1. Continue(done, next) /\ \A f \in next : f.session = s
    BY <1>6
  <2>2. next = {}
    OBVIOUS
  <2> HIDE DEF next
  <2>3. /\ FlowsOf(s)' = (FlowsOf(s) \ done) \cup next
        /\ \A t \in Sessions : t # s => FlowsOf(t)' = FlowsOf(t)
    BY <2>1, FlowsContinue
  <2>4. SessionInv(s)'
    <3>1. ~IsConnected(s)' /\ ~Tracked(s)'
      BY <1>6 DEF IsConnected, Tracked
    <3>2. FlowsOf(s)' \subseteq FlowsOf(s)
      BY <2>2, <2>3
    <3> QED
      BY <1>2, <1>6, <3>1, <3>2 DEF SessionInv, Untracked, State, Local
  <2> QED
    BY <1>2, <1>4, <1>6, <2>3, <2>4, HostsKept DEF ConnectionInv
<1>7. ASSUME Tracked(s), sessions' = [sessions EXCEPT ![s] = Disconnected],
             Continue(done, {}), UNCHANGED lastPath,
             HostsMatch'
      PROVE  ConnectionInv'
  <2> DEFINE next == {}
  <2>1. Continue(done, next) /\ \A f \in next : f.session = s
    BY <1>7
  <2>2. next = {}
    OBVIOUS
  <2> HIDE DEF next
  <2>3. /\ FlowsOf(s)' = (FlowsOf(s) \ done) \cup next
        /\ \A t \in Sessions : t # s => FlowsOf(t)' = FlowsOf(t)
    BY <2>1, FlowsContinue
  <2>4. SessionInv(s)'
    BY <1>3, <1>5, <1>7, <2>2, <2>3
  <2> QED
    BY <1>4, <1>7, <2>3, <2>4 DEF ConnectionInv
<1>8. ASSUME IsConnected(s), RemoveFromHostIndex(sessions[s].host, s),
             lastPath' = [lastPath EXCEPT ![s] = None],
             AttemptReconnect(s, done, 1, sessions[s].host)
      PROVE  ConnectionInv'
  <2> DEFINE state == Reconnecting(1, sessions[s].host)
             f == Flow(s, 1, sessions[s].host, "waiting")
             next == {f}
  <2>1. state.at = "Reconnecting" /\ f.session = s /\ f.attempt = 1
    BY <1>3 DEF Flow
  <2>2. sessions' = [sessions EXCEPT ![s] = state] /\ Continue(done, {f})
    BY <1>8 DEF AttemptReconnect
  <2> HIDE DEF state, f
  <2>3. Continue(done, next) /\ (\A g \in next : g.session = s)
    BY <2>1, <2>2
  <2> HIDE DEF next
  <2>4. /\ FlowsOf(s)' = (FlowsOf(s) \ done) \cup next
        /\ \A t \in Sessions : t # s => FlowsOf(t)' = FlowsOf(t)
    BY <2>3, FlowsContinue
  <2>5. FlowsOf(s)' = {f}
    BY <1>2, <1>8, <2>4 DEF SessionInv, next
  <2>6. SessionInv(s)'
    <3>1. /\ sessions'[s] = state /\ ~IsConnected(s)' /\ Tracked(s)
          /\ lastPath'[s] = None
      BY <1>1, <1>8, <2>1, <2>2 DEF IsConnected, Tracked
    <3>2. ~Unconnected(s)' /\ s \notin exited'
      BY <1>2, <3>1 DEF SessionInv, Tracked, Untracked, State
    <3> QED
      BY <2>1, <2>5, <3>1, <3>2 DEF SessionInv
  <2>7. HostsMatch'
    BY <1>2, <1>8, <2>1, <2>2, HostsStep
  <2> QED
    BY <1>4, <2>4, <2>6, <2>7 DEF ConnectionInv
<1>9. ASSUME Tracked(s), ~IsConnected(s), sessions' = [sessions EXCEPT ![s] = Disconnected],
             UNCHANGED <<index, repos>>
      PROVE  HostsMatch'
  BY <1>2, <1>3, <1>9, HostsStep
<1>10. ASSUME IsConnected(s), RemoveFromHostIndex(sessions[s].host, s),
              sessions' = [sessions EXCEPT ![s] = Disconnected]
       PROVE  HostsMatch' /\ Tracked(s)
  <2>1. HostsMatch'
    BY <1>2, <1>3, <1>10, HostsStep
  <2> QED
    BY <1>10, <2>1 DEF IsConnected, Tracked
<1> QED
  BY <1>6, <1>7, <1>8, <1>9, <1>10 DEF MarkSessionDisconnected

(* A task that runs its closure is the session's only one: what follows it *)
(* is all the session has.                                                 *)
LEMMA OnlyTask ==
  ASSUME TypeInv, ConnectionInv, NEW f \in flows, NEW next, Continue({f}, next),
         \A g \in next : g.session = f.session
  PROVE  /\ FlowsOf(f.session)' = next
         /\ \A t \in Sessions : t # f.session => FlowsOf(t)' = FlowsOf(t)
         /\ f.session \in Sessions
         /\ ~IsConnected(f.session) /\ lastPath[f.session] = None
         /\ ~Unconnected(f.session)
         /\ f.attempt = 0 => executor[f.session] \in Local
<1> DEFINE s == f.session
           done == {f}
<1>1. s \in Sessions /\ f \in FlowsOf(s)
  BY DEF TypeInv, FlowTypes, FlowState, FlowsOf
<1>2. SessionInv(s)
  BY <1>1 DEF ConnectionInv
<1>3. FlowsOf(s) = {f}
  BY <1>1, <1>2 DEF SessionInv
<1>4. (\A g \in next : g.session = s) /\ (\A g \in done : g.session = s) /\ Continue(done, next)
  OBVIOUS
<1> HIDE DEF s, done
<1>5. /\ FlowsOf(s)' = (FlowsOf(s) \ done) \cup next
      /\ \A t \in Sessions : t # s => FlowsOf(t)' = FlowsOf(t)
  BY <1>4, FlowsContinue
<1>6. FlowsOf(s)' = next
  BY <1>3, <1>5 DEF done
<1> QED
  BY <1>1, <1>2, <1>5, <1>6 DEF SessionInv, s

(* A task goes one step on, or ends, and leaves the session as it is.      *)
LEMMA TaskAdvances ==
  ASSUME TypeInv, ConnectionInv, NEW f \in flows, NEW next, Continue({f}, next),
         next = {} \/ \E step : next = {[f EXCEPT !.step = step]},
         UNCHANGED <<managerVars, clients, executor, repos, exited>>,
         \A t \in Sessions : Unconnected(t)' => Unconnected(t)
  PROVE  ConnectionInv'
<1> DEFINE s == f.session
<1>1. f \in FlowState
  BY DEF TypeInv, FlowTypes
<1>2. \A g \in next : g.session = s /\ g.attempt = f.attempt
  <2>1. \A step : [f EXCEPT !.step = step].session = s /\ [f EXCEPT !.step = step].attempt = f.attempt
    BY <1>1 DEF FlowState
  <2> QED
    BY <2>1
<1>3. /\ FlowsOf(s)' = next
      /\ \A t \in Sessions : t # s => FlowsOf(t)' = FlowsOf(t)
      /\ s \in Sessions
      /\ ~IsConnected(s) /\ lastPath[s] = None /\ ~Unconnected(s)
      /\ f.attempt = 0 => executor[s] \in Local
  BY <1>2, OnlyTask
<1>4. \A g, h \in next : g = h
  OBVIOUS
<1>5. SessionInv(s) /\ HostsMatch
  BY <1>3 DEF ConnectionInv
<1> HIDE DEF s
<1>6. SessionInv(s)'
  <2>1. /\ ~IsConnected(s)' /\ (Tracked(s)' <=> Tracked(s))
        /\ lastPath'[s] = None /\ ~Unconnected(s)'
        /\ f.attempt = 0 => executor'[s] \in Local
    BY <1>3 DEF IsConnected, Tracked, managerVars, Local
  <2> QED
    BY <1>2, <1>3, <1>4, <1>5, <2>1 DEF SessionInv
<1>7. \A t \in Sessions : t # s => SessionInv(t)'
  BY <1>3, OthersKept DEF managerVars
<1> QED
  BY <1>5, <1>6, <1>7, HostsKept DEF ConnectionInv, managerVars

(* A task leaves the session in another state, not connected.              *)
LEMMA TaskMoves ==
  ASSUME TypeInv, ConnectionInv, NEW f \in flows, NEW next, NEW state, NEW cs,
         Continue({f}, next),
         next = {} \/ \E g : next = {g} /\ g.session = f.session /\ (g.attempt = 0 => f.attempt = 0),
         state.at # "Connected",
         f.session \in exited => state.at = "Untracked",
         sessions' = [sessions EXCEPT ![f.session] = state],
         clients' = [clients EXCEPT ![f.session] = cs],
         UNCHANGED <<index, lastPath, bootInfo, executor, repos, exited>>,
         \A t \in Sessions : Unconnected(t)' => Unconnected(t)
  PROVE  ConnectionInv'
<1> DEFINE s == f.session
<1>1. /\ sessions \in [Sessions -> SessionState] /\ clients \in [Sessions -> Seq(ClientState)]
  BY DEF TypeInv, SessionTypes, ClientTypes
<1>2. \A g \in next : g.session = s /\ (g.attempt = 0 => f.attempt = 0)
  OBVIOUS
<1>3. /\ FlowsOf(s)' = next
      /\ \A t \in Sessions : t # s => FlowsOf(t)' = FlowsOf(t)
      /\ s \in Sessions
      /\ ~IsConnected(s) /\ lastPath[s] = None /\ ~Unconnected(s)
      /\ f.attempt = 0 => executor[s] \in Local
  BY <1>2, OnlyTask
<1>4. \A g, h \in next : g = h
  OBVIOUS
<1>5. SessionInv(s) /\ HostsMatch
  BY <1>3 DEF ConnectionInv
<1>6. /\ sessions' = [sessions EXCEPT ![s] = state]
      /\ clients' = [clients EXCEPT ![s] = cs]
      /\ s \in exited => state.at = "Untracked"
  OBVIOUS
<1> HIDE DEF s
<1>7. SessionInv(s)'
  <2>1. /\ ~IsConnected(s)' /\ (s \in exited' => ~Tracked(s)')
        /\ lastPath'[s] = None /\ ~Unconnected(s)'
        /\ f.attempt = 0 => executor'[s] \in Local
    BY <1>1, <1>3, <1>6 DEF IsConnected, Tracked, Local
  <2> QED
    BY <1>2, <1>3, <1>4, <1>5, <2>1 DEF SessionInv
<1>8. ASSUME NEW t \in Sessions, t # s PROVE SessionInv(t)'
  <2>1. sessions'[t] = sessions[t] /\ clients'[t] = clients[t] /\ FlowsOf(t)' = FlowsOf(t)
    BY <1>1, <1>3, <1>6, <1>8
  <2> QED
    BY <1>8, <2>1, OthersKept
<1>9. HostsMatch'
  BY <1>3, <1>5, <1>6, HostsStep
<1> QED
  BY <1>7, <1>8, <1>9 DEF ConnectionInv

(* The closure of a flow that ended well.                                  *)
LEMMA ConnectedSafe ==
  ASSUME TypeInv, ConnectionInv, NEW f \in flows, FlowConnected(f), TypeInv',
         \A t \in Sessions : Unconnected(t)' => Unconnected(t)
  PROVE  ConnectionInv'
<1> DEFINE s == f.session
           host == clients[s][f.client].host
           c == sessions[s].client
           next == {}
<1>1. /\ Continue({f}, {})
      /\ UNCHANGED <<lastPath, bootInfo, repos, exited>>
  BY DEF FlowConnected
<1>2. Continue({f}, next) /\ (\A g \in next : g.session = f.session) /\ next = {}
  BY <1>1
<1> HIDE DEF next
<1>3. /\ FlowsOf(s)' = next
      /\ \A t \in Sessions : t # s => FlowsOf(t)' = FlowsOf(t)
      /\ s \in Sessions
      /\ ~IsConnected(s) /\ lastPath[s] = None /\ ~Unconnected(s)
      /\ f.attempt = 0 => executor[s] \in Local
  BY <1>2, OnlyTask
<1>4. SessionInv(s) /\ HostsMatch
  BY <1>3 DEF ConnectionInv
<1>5. /\ sessions \in [Sessions -> SessionState] /\ clients \in [Sessions -> Seq(ClientState)]
      /\ clients[s] \in Seq(ClientState)
      /\ DOMAIN executor = Sessions
  BY <1>3 DEF TypeInv, SessionTypes, ClientTypes, ExecutorTypes
<1>6. CASE UNCHANGED <<setup, flushed, sessions, index, clients, executor>>
  BY <1>1, <1>2, <1>6, TaskAdvances DEF managerVars
<1>7. ASSUME sessions[s].at # "Initializing",
             sessions' = [sessions EXCEPT ![s] = Untracked],
             clients' = [clients EXCEPT ![s] = Killed(s, clients[s])],
             UNCHANGED index,
             executor' = IF f.attempt > 0 THEN SwapExecutor(s) ELSE executor
      PROVE  ConnectionInv'
  <2> DEFINE state == Untracked
             cs == Killed(s, clients[s])
  <2>1. state.at = "Untracked"
    BY DEF Untracked, State
  <2>2. sessions' = [sessions EXCEPT ![s] = state] /\ clients' = [clients EXCEPT ![s] = cs]
    BY <1>7
  <2> HIDE DEF state, cs
  <2>3. ~IsConnected(s)'
    BY <1>3, <1>5, <2>1, <2>2 DEF IsConnected
  <2>4. executor' = executor
    BY <1>7, <2>3 DEF SwapExecutor
  <2> QED
    BY <1>1, <1>2, <1>7, <2>1, <2>2, <2>4, TaskMoves
<1>8. ASSUME sessions[s].at = "Initializing",
             sessions' = [sessions EXCEPT ![s] = Connected(c, host)],
             index' = [index EXCEPT ![host] = @ \cup {s}],
             clients' = [clients EXCEPT ![s] = IF s \in bootInfo THEN Told(c, @) ELSE @],
             executor' = IF f.attempt > 0 THEN SwapExecutor(s) ELSE executor
      PROVE  ConnectionInv'
  <2> DEFINE state == Connected(c, host)
             cs == IF s \in bootInfo THEN Told(c, clients[s]) ELSE clients[s]
  <2>1. state.at = "Connected" /\ state.client = c /\ state.host = host
    BY DEF Connected, State
  <2>2. c \in 1 .. Len(clients[s])
    BY <1>3, <1>8 DEF TypeInv, ClientTypes, HasClient
  <2>3. s \in bootInfo => (cs[c].link = "open" => cs[c].told)
    BY <1>5, <2>2, ToldType
  <2>4. clients' = [clients EXCEPT ![s] = cs] /\ sessions' = [sessions EXCEPT ![s] = state]
    BY <1>5, <1>8
  <2> HIDE DEF state, cs, host, c
  <2>5. /\ sessions'[s] = state /\ clients'[s] = cs
        /\ IsConnected(s)'
        /\ \A t \in Sessions : t # s => sessions'[t] = sessions[t] /\ clients'[t] = clients[t]
    BY <1>3, <1>5, <2>1, <2>4 DEF IsConnected
  <2>6. /\ \A t \in Sessions : t # s => executor'[t] = executor[t]
        /\ executor'[s] \in Local \/ executor'[s] = c
    <3>1. CASE f.attempt > 0 /\ executor[s] # NoExecutor
      <4>1. executor' = [executor EXCEPT ![s] = sessions'[s].client]
        BY <1>8, <2>5, <3>1 DEF SwapExecutor
      <4> QED
        BY <1>3, <1>5, <2>1, <2>5, <4>1
    <3>2. CASE ~(f.attempt > 0 /\ executor[s] # NoExecutor)
      <4>1. executor' = executor
        BY <1>8, <2>5, <3>2 DEF SwapExecutor
      <4>2. f.attempt \in Nat
        BY DEF TypeInv, FlowTypes, FlowState
      <4>3. executor[s] \in Local
        BY <1>3, <3>2, <4>2 DEF Local
      <4> QED
        BY <4>1, <4>3
    <3> QED
      BY <3>1, <3>2
  <2>7. SessionInv(s)'
    <3>1. ServerKnows(s)'
      <4>1. clients'[s][sessions'[s].client] = cs[c] /\ sessions'[s].client = c
        BY <2>1, <2>5
      <4>2. (s \in bootInfo' <=> s \in bootInfo) /\ lastPath'[s] = None
        BY <1>1, <1>3
      <4> QED
        BY <2>3, <2>6, <4>1, <4>2 DEF ServerKnows, Local
    <3>2. s \notin exited' /\ ~Unconnected(s)' /\ FlowsOf(s)' = {}
      BY <1>1, <1>2, <1>3, <1>4, <1>8 DEF SessionInv, Tracked
    <3> QED
      BY <2>5, <3>1, <3>2 DEF SessionInv
  <2>8. HostsMatch'
    BY <1>1, <1>3, <1>4, <1>8, <2>1, <2>4, HostsStep DEF c, host
  <2>9. \A t \in Sessions : t # s => SessionInv(t)'
    BY <1>1, <1>3, <2>5, <2>6, OthersKept
  <2> QED
    BY <2>7, <2>8, <2>9 DEF ConnectionInv
<1> QED
  BY <1>6, <1>7, <1>8 DEF FlowConnected, MarkSessionConnected

LEMMA BackgroundSafe ==
  ASSUME TypeInv, ConnectionInv, NEW f \in flows, Background(f), TypeInv',
         \A t \in Sessions : Unconnected(t)' => Unconnected(t)
  PROVE  ConnectionInv'
<1> DEFINE s == f.session
<1>1. /\ s \in Sessions
      /\ clients[s] \in Seq(ClientState)
  BY DEF TypeInv, FlowTypes, FlowState, ClientTypes
<1>2. SessionInv(s)
  BY <1>1 DEF ConnectionInv
<1>3. Tracked(s) => s \notin exited
  BY <1>2 DEF SessionInv
<1>4. ASSUME NEW step, Advance(f, step), UNCHANGED <<managerVars, clients, executor, repos, exited>>
      PROVE  ConnectionInv'
  <2> DEFINE next == {[f EXCEPT !.step = step]}
  <2>1. Continue({f}, next)
    BY <1>4 DEF Advance
  <2>2. next = {} \/ \E st : next = {[f EXCEPT !.step = st]}
    OBVIOUS
  <2> HIDE DEF next
  <2> QED
    BY <1>4, <2>1, <2>2, TaskAdvances
<1>5. ASSUME Continue({f}, {}), UNCHANGED <<managerVars, clients, executor, repos, exited>>
      PROVE  ConnectionInv'
  <2> DEFINE next == {}
  <2>1. Continue({f}, next) /\ next = {}
    BY <1>5
  <2> HIDE DEF next
  <2> QED
    BY <1>5, <2>1, TaskAdvances
<1>6. CASE Wake(f)
  BY <1>4, <1>5, <1>6 DEF Wake, ControllersIdle, paneVars
<1>7. CASE TransportFails(f) \/ HandshakeSucceeds(f) \/ HandshakeFails(f)
  BY <1>4, <1>7 DEF TransportFails, HandshakeSucceeds, HandshakeFails, ControllersIdle, paneVars
<1>8. CASE TransportConnects(f)
  <2>1. UNCHANGED <<index, lastPath, bootInfo, executor, repos, exited>>
    BY <1>8 DEF TransportConnects, ControllersIdle, paneVars
  <2>2. ASSUME Tracked(s), NEW h \in Hosts, InsertInitializing(f, h) PROVE ConnectionInv'
    <3> DEFINE c == Len(clients[s]) + 1
               state == Initializing(c)
               cs == Append(Killed(s, clients[s]), NewClient(h))
               g == [f EXCEPT !.step = "handshake", !.client = c]
               next == {g}
    <3>1. state.at = "Initializing"
      BY DEF Initializing, State
    <3>2. g.session = f.session /\ g.attempt = f.attempt
      BY DEF TypeInv, FlowTypes, FlowState
    <3>3. /\ sessions' = [sessions EXCEPT ![s] = state]
          /\ clients' = [clients EXCEPT ![s] = cs]
          /\ Continue({f}, next)
      BY <1>1, <2>2 DEF InsertInitializing, TypeInv, ClientTypes
    <3> HIDE DEF state, cs, g, c
    <3>4. next = {} \/ \E x : next = {x} /\ x.session = f.session /\ (x.attempt = 0 => f.attempt = 0)
      BY <3>2
    <3> HIDE DEF next
    <3> QED
      BY <1>3, <2>1, <2>2, <3>1, <3>3, <3>4, TaskMoves
  <2> QED
    BY <1>4, <1>8, <2>1, <2>2 DEF TransportConnects, managerVars
<1>9. CASE FlowFailed(f)
  <2>1. UNCHANGED <<bootInfo, executor, exited>>
    BY <1>9 DEF FlowFailed
  <2>2. CASE MarkSessionDisconnected(s, {f}, clients[s])
    <3> DEFINE done == {f}
    <3>1. MarkSessionDisconnected(s, done, clients[s]) /\ \A g \in done : g.session = s
      BY <2>2
    <3> HIDE DEF done, s
    <3> QED
      BY <1>1, <2>1, <3>1, DisconnectedSafe
  <2>3. ASSUME f.attempt > 0, Tracked(s), HandleReconnectFailure(f),
               UNCHANGED <<index, lastPath, repos>>
        PROVE  ConnectionInv'
    <3> DEFINE cs == Killed(s, clients[s])
    <3>1. clients' = [clients EXCEPT ![s] = cs]
      BY <2>3 DEF HandleReconnectFailure
    <3> HIDE DEF cs
    <3>2. CASE AttemptReconnect(s, {f}, f.attempt + 1, f.host)
      <4> DEFINE state == Reconnecting(f.attempt + 1, f.host)
                 g == Flow(s, f.attempt + 1, f.host, "waiting")
                 next == {g}
      <4>1. state.at = "Reconnecting" /\ g.session = s /\ g.attempt = f.attempt + 1
        BY DEF Reconnecting, State, Flow
      <4>2. f.attempt \in Nat /\ f.attempt + 1 # 0
        BY DEF TypeInv, FlowTypes, FlowState
      <4>3. sessions' = [sessions EXCEPT ![s] = state] /\ Continue({f}, next)
        BY <3>2 DEF AttemptReconnect
      <4> HIDE DEF state, g
      <4>4. next = {} \/ \E x : next = {x} /\ x.session = f.session /\ (x.attempt = 0 => f.attempt = 0)
        BY <4>1, <4>2
      <4> HIDE DEF next
      <4> QED
        BY <1>3, <2>1, <2>3, <3>1, <4>1, <4>3, <4>4, TaskMoves
    <3>3. CASE sessions' = [sessions EXCEPT ![s] = Disconnected] /\ Continue({f}, {})
      <4> DEFINE state == Disconnected
                 next == {}
      <4>1. state.at = "Disconnected"
        BY DEF Disconnected, State
      <4>2. sessions' = [sessions EXCEPT ![s] = state] /\ Continue({f}, next) /\ next = {}
        BY <3>3
      <4> HIDE DEF state, next
      <4> QED
        BY <1>3, <2>1, <2>3, <3>1, <4>1, <4>2, TaskMoves
    <3> QED
      BY <2>3, <3>2, <3>3 DEF HandleReconnectFailure
  <2>4. CASE Continue({f}, {}) /\ UNCHANGED <<index, lastPath, repos, sessions, clients>>
    BY <1>5, <2>1, <2>4 DEF managerVars
  <2> QED
    BY <1>9, <2>2, <2>3, <2>4 DEF FlowFailed
<1> QED
  BY <1>6, <1>7, <1>8, <1>9, ConnectedSafe DEF Background, Closures

(* A step that leaves the manager alone.                                   *)
LEMMA ManagerKept ==
  ASSUME ConnectionInv, ManagerIdle, UNCHANGED exited,
         \A t \in Sessions : Unconnected(t)' => Unconnected(t)
  PROVE  ConnectionInv'
<1>1. ASSUME NEW t \in Sessions PROVE SessionInv(t)'
  <2>1. SessionInv(t)
    BY DEF ConnectionInv
  <2>2. /\ FlowsOf(t)' = FlowsOf(t)
        /\ IsConnected(t)' <=> IsConnected(t)
        /\ Tracked(t)' <=> Tracked(t)
        /\ ServerKnows(t)' <=> ServerKnows(t)
    BY DEF ManagerIdle, managerVars, FlowsOf, IsConnected, Tracked, ServerKnows, Local
  <2> QED
    BY <2>1, <2>2 DEF SessionInv, ManagerIdle, managerVars, Untracked, State, Local
<1>2. HostsMatch'
  BY HostsKept DEF ConnectionInv, ManagerIdle, managerVars
<1> QED
  BY <1>1, <1>2 DEF ConnectionInv

(* connect_session of a session not connected before.                      *)
LEMMA ConnectSafe ==
  ASSUME TypeInv, ConnectionInv, NEW p, NEW s \in Sessions, ConnectSession(p, s),
         Unconnected(s), ~Unconnected(s)', s \notin exited,
         UNCHANGED <<index, lastPath, bootInfo, executor, repos, exited>>,
         \A t \in Sessions : Unconnected(t)' => Unconnected(t)
  PROVE  ConnectionInv'
<1> DEFINE state == Connecting
           f == Flow(s, 0, None, "connecting")
           next == {f}
           done == {}
<1>1. /\ state.at = "Connecting" /\ f.session = s
      /\ sessions \in [Sessions -> SessionState] /\ clients \in [Sessions -> Seq(ClientState)]
  BY DEF Connecting, State, Flow, TypeInv, SessionTypes, ClientTypes
<1>2. /\ sessions' = [sessions EXCEPT ![s] = state]
      /\ clients' = [clients EXCEPT ![s] = Killed(s, clients[s])]
      /\ flows' = flows \cup {f}
  BY DEF ConnectSession, TypeInv, ClientTypes
<1> HIDE DEF state, f
<1>3. /\ Continue(done, next)
      /\ \A g \in next : g.session = s
      /\ \A g \in done : g.session = s
  BY <1>1, <1>2 DEF Continue
<1>4. next = {f} /\ done = {}
  OBVIOUS
<1> HIDE DEF next, done
<1>5. /\ FlowsOf(s)' = (FlowsOf(s) \ done) \cup next
      /\ \A t \in Sessions : t # s => FlowsOf(t)' = FlowsOf(t)
  BY <1>3, FlowsContinue
<1>6. SessionInv(s) /\ HostsMatch
  BY DEF ConnectionInv
<1>7. /\ FlowsOf(s)' = {f} /\ lastPath'[s] = None /\ executor'[s] \in Local
      /\ ~IsConnected(s)
  BY <1>4, <1>5, <1>6 DEF SessionInv, IsConnected, Untracked, State, Local
<1>8. SessionInv(s)'
  <2>1. ~IsConnected(s)'
    BY <1>1, <1>2 DEF IsConnected
  <2> QED
    BY <1>7, <2>1 DEF SessionInv
<1>9. ASSUME NEW t \in Sessions, t # s PROVE SessionInv(t)'
  <2>1. sessions'[t] = sessions[t] /\ clients'[t] = clients[t]
    BY <1>1, <1>2, <1>9
  <2> QED
    BY <1>5, <1>9, <2>1, OthersKept
<1>10. HostsMatch'
  BY <1>1, <1>2, <1>6, <1>7, HostsStep
<1> QED
  BY <1>8, <1>9, <1>10 DEF ConnectionInv

(* A message, or the end of a connection, changes a session's clients.     *)
LEMMA ClientsChange ==
  ASSUME TypeInv, ConnectionInv, NEW s \in Sessions, NEW cs,
         clients' = [clients EXCEPT ![s] = cs],
         UNCHANGED <<sessions, index, flows, repos, exited>>,
         \A t \in Sessions : t # s => /\ lastPath'[t] = lastPath[t] /\ executor'[t] = executor[t]
                                      /\ t \in bootInfo' <=> t \in bootInfo,
         lastPath'[s] = lastPath[s] \/ IsConnected(s),
         executor'[s] \in {executor[s], Fallback} \/ IsConnected(s),
         IsConnected(s) => ServerKnows(s)',
         \A t \in Sessions : Unconnected(t)' => Unconnected(t)
  PROVE  ConnectionInv'
<1>1. SessionInv(s) /\ HostsMatch
  BY DEF ConnectionInv
<1>2. /\ \A t \in Sessions : FlowsOf(t)' = FlowsOf(t)
      /\ IsConnected(s)' <=> IsConnected(s)
      /\ Tracked(s)' <=> Tracked(s)
  BY DEF FlowsOf, IsConnected, Tracked
<1>3. SessionInv(s)'
  <2>1. Unconnected(s) => ~IsConnected(s)
    BY <1>1 DEF SessionInv, IsConnected, Untracked, State
  <2>2. executor[s] \in Local /\ executor'[s] \in {executor[s], Fallback} => executor'[s] \in Local
    BY DEF Local
  <2>3. Unconnected(s)' => /\ sessions'[s] = Untracked /\ FlowsOf(s)' = {}
                           /\ lastPath'[s] = None /\ executor'[s] \in Local
    BY <1>1, <1>2, <2>1, <2>2 DEF SessionInv
  <2>4. \A f \in FlowsOf(s)' : /\ ~IsConnected(s)' /\ lastPath'[s] = None
                               /\ f.attempt = 0 => executor'[s] \in Local
                               /\ \A g \in FlowsOf(s)' : f = g
    BY <1>1, <1>2, <2>2 DEF SessionInv
  <2> QED
    BY <1>1, <1>2, <2>3, <2>4 DEF SessionInv, Untracked, State, Local
<1>4. ASSUME NEW t \in Sessions, t # s PROVE SessionInv(t)'
  <2>1. clients'[t] = clients[t] /\ sessions'[t] = sessions[t]
    BY <1>4 DEF TypeInv, ClientTypes
  <2> QED
    BY <1>2, <1>4, <2>1, OthersKept
<1>5. HostsMatch'
  BY <1>1, HostsKept
<1> QED
  BY <1>3, <1>4, <1>5 DEF ConnectionInv

LEMMA BootstrappedSafe ==
  ASSUME TypeInv, ConnectionInv, NEW s \in Sessions, Bootstrapped(s),
         \A t \in Sessions : Unconnected(t)' => Unconnected(t)
  PROVE  ConnectionInv'
<1> DEFINE c == sessions[s].client
<1>1. /\ UNCHANGED <<sessions, index, lastPath, flows, repos, exited>>
      /\ bootInfo' = bootInfo \cup {s}
      /\ clients[s] \in Seq(ClientState) /\ clients \in [Sessions -> Seq(ClientState)]
      /\ DOMAIN executor = Sessions
      /\ SessionInv(s)
  BY DEF Bootstrapped, ControllersIdle, paneVars, TypeInv, ClientTypes, ExecutorTypes,
         ConnectionInv
<1>2. CASE /\ IsConnected(s)
           /\ clients' = [clients EXCEPT ![s] = Told(c, @)]
           /\ executor' = [executor EXCEPT ![s] = c]
  <2> DEFINE cs == Told(c, clients[s])
  <2>1. c \in 1 .. Len(clients[s])
    BY <1>2 DEF TypeInv, ClientTypes, HasClient, IsConnected
  <2>2. /\ cs[c].link = "open" => cs[c].told
        /\ cs[c].asked = clients[s][c].asked
        /\ cs[c].link = clients[s][c].link
    BY <1>1, <2>1, ToldType
  <2>3. clients' = [clients EXCEPT ![s] = cs]
    BY <1>1, <1>2
  <2> HIDE DEF cs
  <2>4. clients'[s] = cs /\ executor'[s] = c /\ sessions'[s].client = c
    BY <1>1, <1>2, <2>3
  <2>5. ServerKnows(s)
    BY <1>1, <1>2 DEF SessionInv
  <2>6. /\ clients'[s][sessions'[s].client] = cs[c] /\ executor'[s] = sessions'[s].client
        /\ lastPath'[s] = lastPath[s]
    BY <1>1, <2>4
  <2>7. lastPath[s] # None => (cs[c].link = "open" => lastPath[s] \in cs[c].asked)
    BY <2>2, <2>5 DEF ServerKnows
  <2> HIDE DEF c
  <2>8. ServerKnows(s)'
    BY <2>2, <2>6, <2>7 DEF ServerKnows
  <2>9. \A t \in Sessions : t # s => /\ lastPath'[t] = lastPath[t] /\ executor'[t] = executor[t]
                                     /\ t \in bootInfo' <=> t \in bootInfo
    BY <1>1, <1>2
  <2> QED
    BY <1>1, <1>2, <2>3, <2>8, <2>9, ClientsChange
<1>3. CASE /\ ~IsConnected(s)
           /\ executor' = [executor EXCEPT ![s] = Fallback]
           /\ UNCHANGED clients
  <2> DEFINE cs == clients[s]
  <2>1. clients' = [clients EXCEPT ![s] = cs]
    BY <1>1, <1>3
  <2> HIDE DEF cs
  <2>2. \A t \in Sessions : t # s => /\ lastPath'[t] = lastPath[t] /\ executor'[t] = executor[t]
                                     /\ t \in bootInfo' <=> t \in bootInfo
    BY <1>1, <1>3
  <2>3. executor'[s] = Fallback /\ lastPath'[s] = lastPath[s]
    BY <1>1, <1>3
  <2> QED
    BY <1>1, <1>3, <2>1, <2>2, <2>3, ClientsChange
<1> QED
  BY <1>2, <1>3 DEF Bootstrapped

LEMMA NavigateSafe ==
  ASSUME TypeInv, ConnectionInv, NEW s \in Sessions, NEW path \in Paths,
         NavigateToDirectory(s, path),
         \A t \in Sessions : Unconnected(t)' => Unconnected(t)
  PROVE  ConnectionInv'
<1> DEFINE c == sessions[s].client
           old == clients[s][c]
           new == [old EXCEPT !.asked = @ \cup {path}]
           cs == IF old.link = "open" THEN [clients[s] EXCEPT ![c] = new] ELSE clients[s]
<1>1. /\ UNCHANGED <<sessions, index, bootInfo, flows, executor, repos, exited>>
      /\ lastPath' = [lastPath EXCEPT ![s] = path]
      /\ IsConnected(s)
      /\ clients[s] \in Seq(ClientState) /\ clients \in [Sessions -> Seq(ClientState)]
      /\ lastPath \in [Sessions -> Paths \cup {None}]
      /\ SessionInv(s)
  BY DEF NavigateToDirectory, ControllersIdle, paneVars, TypeInv, ClientTypes, SessionTypes,
         ConnectionInv
<1>2. c \in 1 .. Len(clients[s])
  BY <1>1 DEF TypeInv, ClientTypes, HasClient, IsConnected
<1>3. old \in ClientState
  BY <1>1, <1>2
<1>4. clients' = [clients EXCEPT ![s] = cs]
  BY <1>1 DEF NavigateToDirectory
<1>5. /\ cs[c].link = old.link /\ cs[c].told = old.told
      /\ cs[c].link = "open" => path \in cs[c].asked
  <2>1. new.link = old.link /\ new.told = old.told /\ path \in new.asked
    BY <1>3 DEF ClientState
  <2> HIDE DEF new
  <2>2. old.link = "open" => cs[c] = new
    <3>1. old.link = "open" => cs = [clients[s] EXCEPT ![c] = new]
      OBVIOUS
    <3>2. [clients[s] EXCEPT ![c] = new][c] = new
      BY <1>1, <1>2, ExceptSeq
    <3> QED
      BY <3>1, <3>2
  <2> HIDE DEF old
  <2>3. old.link # "open" => cs[c] = old
    BY DEF old
  <2> HIDE DEF cs
  <2> QED
    BY <2>1, <2>2, <2>3
<1> HIDE DEF cs, new
<1>6. ServerKnows(s)
  BY <1>1 DEF SessionInv
<1>7. /\ clients'[s] = cs /\ lastPath'[s] = path /\ sessions'[s].client = c
      /\ executor'[s] = executor[s] /\ (s \in bootInfo' <=> s \in bootInfo)
      /\ executor[s] \notin Local => executor[s] = c
      /\ s \in bootInfo => (old.link = "open" => old.told)
  BY <1>1, <1>4, <1>6 DEF ServerKnows
<1>8. clients'[s][sessions'[s].client] = cs[c]
  BY <1>7
<1> HIDE DEF c, old
<1>9. ServerKnows(s)'
  BY <1>5, <1>7, <1>8 DEF ServerKnows, Local
<1>10. \A t \in Sessions : t # s => /\ lastPath'[t] = lastPath[t] /\ executor'[t] = executor[t]
                                    /\ t \in bootInfo' <=> t \in bootInfo
  BY <1>1
<1> QED
  BY <1>1, <1>4, <1>9, <1>10, ClientsChange

LEMMA LinkBreaksSafe ==
  ASSUME TypeInv, ConnectionInv, NEW s \in Sessions, NEW c \in 1 .. Len(clients[s]),
         LinkBreaks(s, c), \A t \in Sessions : Unconnected(t)' => Unconnected(t)
  PROVE  ConnectionInv'
<1> DEFINE k == sessions[s].client
           cs == [clients[s] EXCEPT ![c] = Ended(clients[s][c])]
<1>1. /\ UNCHANGED <<managerVars, flows, executor, repos, exited>>
      /\ clients[s] \in Seq(ClientState) /\ clients \in [Sessions -> Seq(ClientState)]
      /\ SessionInv(s)
  BY DEF LinkBreaks, ControllersIdle, paneVars, TypeInv, ClientTypes, ConnectionInv
<1>2. clients' = [clients EXCEPT ![s] = cs]
  BY <1>1 DEF LinkBreaks
<1>3. Ended(clients[s][c]).link = "ended"
  BY DEF Ended, Client
<1>4. ASSUME IsConnected(s) PROVE ServerKnows(s)'
  <2>1. k \in 1 .. Len(clients[s]) /\ ServerKnows(s)
    BY <1>1, <1>4 DEF TypeInv, ClientTypes, HasClient, IsConnected, SessionInv
  <2>2. cs[k].link = "open" => cs[k] = clients[s][k]
    BY <1>1, <1>3, <2>1
  <2> HIDE DEF cs
  <2>3. clients'[s][sessions'[s].client] = cs[k] /\ sessions'[s].client = k
    BY <1>1, <1>2 DEF managerVars
  <2> QED
    BY <1>1, <2>1, <2>2, <2>3 DEF ServerKnows, Local, managerVars
<1> HIDE DEF cs
<1> QED
  BY <1>1, <1>2, <1>4, ClientsChange DEF managerVars

(* The end of an event stream, handled after the connection it was about.  *)
LEMMA StreamEndsSafe ==
  ASSUME TypeInv, ConnectionInv, NEW s \in Sessions, NEW c \in 1 .. Len(clients[s]),
         StreamEnds(s, c), \A t \in Sessions : Unconnected(t)' => Unconnected(t)
  PROVE  ConnectionInv'
<1> DEFINE cs == [clients[s] EXCEPT ![c] = Done(clients[s][c])]
           done == {}
<1>1. UNCHANGED <<bootInfo, exited, executor>> /\ clients[s] \in Seq(ClientState)
  BY DEF StreamEnds, ControllersIdle, paneVars, TypeInv, ClientTypes
<1>2. cs \in Seq(ClientState) /\ Len(cs) = Len(clients[s])
  <2>1. Done(clients[s][c]) \in ClientState
    <3>1. clients[s][c] \in ClientState
      BY <1>1
    <3> QED
      BY <3>1 DEF Done, Client, ClientState
  <2> QED
    BY <1>1, <2>1
<1>3. MarkSessionDisconnected(s, done, cs) /\ \A f \in done : f.session = s
  BY DEF StreamEnds
<1> HIDE DEF cs, done
<1> QED
  BY <1>1, <1>2, <1>3, DisconnectedSafe

LEMMA SnapshotSafe ==
  ASSUME TypeInv, ConnectionInv, NEW s \in Sessions, NEW c, RepoMetadataSnapshot(s, c),
         \A t \in Sessions : Unconnected(t)' => Unconnected(t)
  PROVE  ConnectionInv'
<1>1. /\ UNCHANGED <<sessions, index, lastPath, bootInfo, flows, clients, executor, exited>>
      /\ repos' = repos \cup {sessions[s].host} /\ IsConnected(s)
  BY DEF RepoMetadataSnapshot, ControllersIdle, paneVars, managerVars
<1>2. \A t \in Sessions : SessionInv(t)'
  <2>1. \A t \in Sessions : SessionInv(t)
    BY DEF ConnectionInv
  <2>2. \A t \in Sessions : /\ FlowsOf(t)' = FlowsOf(t)
                            /\ IsConnected(t)' <=> IsConnected(t)
                            /\ Tracked(t)' <=> Tracked(t)
                            /\ ServerKnows(t)' <=> ServerKnows(t)
    BY <1>1 DEF FlowsOf, IsConnected, Tracked, ServerKnows, Local
  <2> QED
    BY <1>1, <2>1, <2>2 DEF SessionInv, Untracked, State, Local
<1>3. HostsMatch'
  BY <1>1 DEF ConnectionInv, HostsMatch, TypeInv, SessionTypes, IsConnected
<1> QED
  BY <1>2, <1>3 DEF ConnectionInv

LEMMA ExitSafe ==
  ASSUME TypeInv, PaneInv, ConnectionInv, NEW s \in Sessions, ExitShell(s), PaneInv',
         \A t \in Sessions : Unconnected(t)' => Unconnected(t)
  PROVE  ConnectionInv'
<1> DEFINE state == Untracked
           cs == Killed(s, clients[s])
<1>1. /\ UNCHANGED <<flows, executor>>
      /\ sessions \in [Sessions -> SessionState] /\ clients \in [Sessions -> Seq(ClientState)]
      /\ lastPath \in [Sessions -> Paths \cup {None}]
      /\ exited' = exited \cup {s} /\ bootInfo' = bootInfo \ {s}
      /\ lastPath' = [lastPath EXCEPT ![s] = None]
      /\ s \in alive /\ executor[s] # NoExecutor
      /\ SessionInv(s) /\ HostsMatch
  BY DEF ExitShell, TypeInv, SessionTypes, ClientTypes, ConnectionInv
<1>2. /\ state.at = "Untracked"
      /\ sessions' = [sessions EXCEPT ![s] = state]
      /\ clients' = [clients EXCEPT ![s] = cs]
  BY <1>1 DEF ExitShell, Untracked, State
<1> HIDE DEF state, cs
<1>3. ~IsConnected(s)' /\ ~Tracked(s)'
  BY <1>1, <1>2 DEF IsConnected, Tracked
<1>4. /\ ~Unconnected(s)'
      /\ \A t \in Sessions : FlowsOf(t)' = FlowsOf(t)
  BY <1>1 DEF PaneInv, OneToken, FlowsOf
<1>5. SessionInv(s)'
  <2>1. /\ lastPath'[s] = None /\ executor'[s] = executor[s] /\ FlowsOf(s)' = FlowsOf(s)
    BY <1>1, <1>4
  <2> QED
    BY <1>1, <1>3, <1>4, <2>1 DEF SessionInv, Local
<1>6. ASSUME NEW t \in Sessions, t # s PROVE SessionInv(t)'
  <2>1. /\ sessions'[t] = sessions[t] /\ clients'[t] = clients[t]
        /\ lastPath'[t] = lastPath[t] /\ executor'[t] = executor[t]
        /\ t \in bootInfo' <=> t \in bootInfo
        /\ t \in exited' <=> t \in exited
    BY <1>1, <1>2, <1>6
  <2> QED
    BY <1>4, <1>6, <2>1, OthersKept
<1>7. HostsMatch'
  <2>1. sessions[s].host \in Hosts \cup {None} /\ (IsConnected(s) => sessions[s].host \in Hosts)
    BY <1>1 DEF TypeInv, SessionTypes, SessionState
  <2>2. CASE sessions[s].host # None /\ RemoveFromHostIndex(sessions[s].host, s)
    BY <1>1, <1>2, <2>1, <2>2, HostsStep
  <2>3. CASE sessions[s].host = None /\ UNCHANGED <<index, repos>>
    BY <1>1, <1>2, <2>1, <2>3, HostsStep, RemoteServerAssumption
  <2> QED
    BY <2>2, <2>3 DEF ExitShell
<1> QED
  BY <1>5, <1>6, <1>7 DEF ConnectionInv

LEMMA InitConnections == Init => ConnectionInv
BY DEF Init, ConnectionInv, SessionInv, HostsMatch, Unconnected, FlowsOf, IsConnected,
       Tracked, Untracked, State, Local

LEMMA ConnectionStep ==
  TypeInv /\ PaneInv /\ ConnectionInv /\ [Next]_vars => ConnectionInv'
<1> SUFFICES ASSUME TypeInv, PaneInv, ConnectionInv, [Next]_vars PROVE ConnectionInv'
  OBVIOUS
<1>1. PaneInv' /\ TypeInv'
  BY PaneStep, NextType
<1>2. \A t \in Sessions : Unconnected(t)' => Unconnected(t)
  BY UnconnectedStep
<1>3. CASE UNCHANGED vars
  BY <1>2, <1>3, ManagerKept DEF vars, paneVars, managerVars, ManagerIdle
<1>4. ASSUME NEW s \in Sessions,
             \/ \E p \in Panes : SshInitShell(p, s)
             \/ ChooseInstall(s) \/ ChooseSkip(s) \/ SshDies(s)
      PROVE  ConnectionInv'
  BY <1>2, <1>4, ManagerKept DEF SshInitShell, ChooseInstall, ChooseSkip, SshDies
<1>5. ASSUME NEW s \in Sessions, NEW p \in Panes, ConnectSession(p, s),
             \/ <<"check", s>> \in tasks /\ tasks' = tasks \ {<<"check", s>>}
             \/ <<"install", s>> \in tasks /\ tasks' = tasks \ {<<"install", s>>},
             UNCHANGED <<blocks, paneOf, exited, index, lastPath, bootInfo, executor, repos>>
      PROVE  ConnectionInv'
  <2>1. OneToken(s)
    BY DEF PaneInv
  <2>2. Unconnected(s) /\ s \notin exited /\ ~Unconnected(s)'
    BY <1>5, <2>1 DEF OneToken, Unconnected, Checking, Installing
  <2> QED
    BY <1>2, <1>5, <2>2, ConnectSafe
<1>6. ASSUME NEW s \in Sessions, BinaryCheckComplete(s) \/ BinaryInstallComplete(s)
      PROVE  ConnectionInv'
  <2>1. /\ <<"check", s>> \in tasks \/ <<"install", s>> \in tasks
        /\ UNCHANGED <<paneOf, alive, exited, index, lastPath, bootInfo, executor, repos>>
    BY <1>6 DEF BinaryCheckComplete, BinaryInstallComplete
  <2>2. CASE UNCHANGED <<sessions, flows, clients>>
    BY <1>2, <2>1, <2>2, ManagerKept DEF ManagerIdle, managerVars
  <2> QED
    BY <1>5, <1>6, <2>1, <2>2 DEF BinaryCheckComplete, BinaryInstallComplete
<1>7. ASSUME NEW s \in Sessions, NEW c \in 1 .. Len(clients[s]),
             LinkBreaks(s, c) \/ StreamEnds(s, c) \/ RepoMetadataSnapshot(s, c)
      PROVE  ConnectionInv'
  BY <1>2, <1>7, LinkBreaksSafe, StreamEndsSafe, SnapshotSafe
<1> QED
  BY <1>1, <1>2, <1>3, <1>4, <1>6, <1>7, BootstrappedSafe, NavigateSafe, ExitSafe,
     BackgroundSafe DEF Next

LEMMA SafetyInvariant == Spec => [](TypeInv /\ PaneInv /\ ConnectionInv)
<1>1. Init => PaneInv /\ ConnectionInv
  BY InitPanes, InitConnections
<1>2. TypeInv /\ PaneInv /\ ConnectionInv /\ [Next]_vars => PaneInv' /\ ConnectionInv'
  BY PaneStep, ConnectionStep
<1> QED
  BY <1>1, <1>2, TypeInvariant, PTL DEF Spec

(* The host index lists the connected sessions of each host and no other,  *)
(* and repositories are kept of those hosts alone: RemoveFromHostIndex     *)
(* runs whenever a session ceases to be connected, never for another.      *)
THEOREM HostsIndexed == Spec => []HostsMatch
<1>1. ConnectionInv => HostsMatch
  BY DEF ConnectionInv
<1> QED
  BY <1>1, SafetyInvariant, PTL

(* A deregistered session stays so: every closure that would set its state *)
(* looks first whether it is there.                                        *)
THEOREM StaysDeregistered == Spec => []NotResurrected
<1>1. TypeInv /\ ConnectionInv => NotResurrected
  BY DEF ConnectionInv, SessionInv, NotResurrected, TypeInv, PaneTypes
<1> QED
  BY <1>1, SafetyInvariant, PTL

(* One task at a time connects a session: streams that end late find it    *)
(* disconnected and start no other reconnection.                           *)
THEOREM OneTask == Spec => []OneFlow
<1>1. ConnectionInv => OneFlow
  <2> SUFFICES ASSUME ConnectionInv, NEW s \in Sessions
               PROVE  Cardinality(FlowsOf(s)) <= 1
    BY DEF OneFlow
  <2>1. SessionInv(s)
    BY DEF ConnectionInv
  <2>2. CASE FlowsOf(s) = {}
    BY <2>2, FS_EmptySet
  <2>3. ASSUME NEW f \in FlowsOf(s) PROVE Cardinality(FlowsOf(s)) <= 1
    <3>1. FlowsOf(s) = {f}
      BY <2>1 DEF SessionInv
    <3>2. Cardinality({f}) = 1
      BY FS_Singleton
    <3> QED
      BY <3>1, <3>2
  <2> QED
    BY <2>2, <2>3
<1> QED
  BY <1>1, SafetyInvariant, PTL

(* The server a bootstrapped session is connected to knows it, whether the *)
(* bootstrap or the connection came first: MarkSessionConnected sends the  *)
(* bootstrap the session kept.                                             *)
THEOREM ServerTold == Spec => []BootstrapTold
<1>1. TypeInv /\ ConnectionInv => BootstrapTold
  BY DEF ConnectionInv, SessionInv, ServerKnows, BootstrapTold, TypeInv, BootTypes
<1> QED
  BY <1>1, SafetyInvariant, PTL

(* A directory that navigate_to_directory would not ask for again is one   *)
(* the present server was asked for.                                       *)
THEOREM DirectoryAsked == Spec => []NavigationAsked
<1>1. ConnectionInv => NavigationAsked
  BY DEF ConnectionInv, SessionInv, ServerKnows, NavigationAsked
<1> QED
  BY <1>1, SafetyInvariant, PTL

(* Commands of a connected session run through the client of its present   *)
(* connection: SessionReconnected swaps the executor of an initialized one,*)
(* and one that is not gets its own when it is bootstrapped.               *)
THEOREM ExecutorFollows == Spec => []ExecutorCurrent
<1>1. ConnectionInv => ExecutorCurrent
  BY DEF ConnectionInv, SessionInv, ServerKnows, ExecutorCurrent, Local
<1> QED
  BY <1>1, SafetyInvariant, PTL
=============================================================================
