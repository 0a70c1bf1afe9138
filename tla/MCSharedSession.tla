-------------------------- MODULE MCSharedSession --------------------------
EXTENDS SharedSession

Scenario(scrollback, sharerSockets, viewerSockets, restartsLeft) ==
  [scrollback |-> scrollback, sharerSockets |-> sharerSockets,
   viewerSockets |-> viewerSockets, restarts |-> restartsLeft]

(* The sharer reconnects, also to a restarted server; the viewer           *)
(* reconnects; the terminal holds so much that an output ends the session. *)
Reconnections == {Scenario(0, 2, 1, 1), Scenario(0, 1, 2, 0), Scenario(1, 1, 1, 0)}

(* The sharer alone, with a second socket.                                 *)
Alone == {Scenario(0, 2, 1, 0)}
=============================================================================
