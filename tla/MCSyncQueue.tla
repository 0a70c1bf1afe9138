---------------------------- MODULE MCSyncQueue ----------------------------
(* Instances of SyncQueue for TLC.  The objects of a run are model values; *)
(* these operators name the requests UpdateManager makes about them.       *)
EXTENDS SyncQueue

CONSTANTS
  note,        \* a notebook created by this client
  shared,      \* a notebook already on the server
  folder,      \* a folder created by this client
  enum,        \* a workflow enum created by this client
  flow,        \* a workflow created by this client
  pref1, pref2 \* preferences created together

Request(op, kind, objs, refs, dir) ==
  [op |-> op, kind |-> kind, objs |-> objs, refs |-> refs, folder |-> dir]
Create(o) == Request("Create", "client", {o}, {}, {})
CreateIn(o, dir) == Request("Create", "client", {o}, {}, {dir})
Update(id) == Request("Update", id.kind, {id.obj}, {}, {})
Action(id) == Request("Action", id.kind, {id.obj}, {}, {})
CreateWorkflow(o, refs) == Request("CreateWorkflow", "client", {o}, refs, {})
UpdateWorkflow(id, refs) == Request("UpdateWorkflow", id.kind, {id.obj}, refs, {})
BulkCreate(objs) == Request("Bulk", "client", objs, {}, {})

NoObjects == {}
EmptyStart == {<<>>}

(* A workflow that names an enum, and two preferences created in one       *)
(* request, all of them created by this client.                            *)
DraftObjects == {flow, enum, pref1, pref2}
DraftEnums == {enum}
DraftRequests ==
  {Create(enum), Update(ClientId(enum)),
   CreateWorkflow(flow, {ClientId(enum)}),
   UpdateWorkflow(ClientId(flow), {ClientId(enum)}),
   UpdateWorkflow(ClientId(flow), {}),
   UpdateWorkflow(ServerId(flow), {ServerId(enum)}),
   BulkCreate({pref1, pref2}),
   Update(ClientId(pref1)), Update(ClientId(pref2)), Update(ServerId(pref2))}
DraftStartups ==
  {<<>>,
   <<CreateWorkflow(flow, {ClientId(enum)}), Create(enum)>>,
   <<CreateWorkflow(flow, {ClientId(enum)})>>}

(* Both the drive and its drafts: a notebook in a folder created by this   *)
(* client (pending in SQLite at startup), a shared notebook, the workflow  *)
(* with its enum, and the preferences.                                     *)
AllObjects == DraftObjects \cup {note, shared, folder}
AllOnServer == {shared}
AllRequests ==
  {Update(ClientId(note)), Update(ServerId(note)), Action(ClientId(note)),
   Create(enum), CreateWorkflow(flow, {ClientId(enum)}),
   UpdateWorkflow(ClientId(flow), {ClientId(enum)}),
   UpdateWorkflow(ClientId(flow), {}),
   UpdateWorkflow(ServerId(flow), {ServerId(enum)}),
   BulkCreate({pref1, pref2}), Update(ServerId(pref2))}
AllStartups ==
  DraftStartups \cup
  {<<CreateIn(note, ClientId(folder)), Create(folder)>>,
   <<Update(ServerId(shared)), CreateIn(note, ClientId(folder)), Create(folder)>>}
=============================================================================
