----------------------------- MODULE Connection -----------------------------
(***************************************************************************)
(* The WebSocket of one end of a shared session, as both Networks manage   *)
(* it (app/src/terminal/shared_session/sharer/network.rs and               *)
(* viewer/network.rs): the first connection, the heartbeat, reconnection   *)
(* with retries, and streams that end long after they have been replaced.  *)
(*                                                                         *)
(* Sockets are numbered in order of opening; `ws_proxy_tx` always feeds    *)
(* the newest.  A stream that ends runs its handler on the Network as it   *)
(* is then, whichever socket it belonged to.                               *)
(***************************************************************************)
EXTENDS Integers, Sequences

VARIABLES
  stage,    \* Network.stage
  attempt,  \* the connection being made: "first" may be aborted, "retry" not
  sockets,  \* "open", "closed" by server or network, or "ended" at this end
  txOpen,   \* ws_proxy_tx has not been closed
  spare     \* bound: sockets that may still be opened

vars == <<stage, attempt, sockets, txOpen, spare>>

Newest == Len(sockets)

(* A message given to ws_proxy_tx reaches the newest socket.               *)
Writable == txOpen /\ sockets # <<>> /\ sockets[Newest] = "open"

TypeOK ==
  /\ stage \in {"Before", "Connected", "Reconnecting", "Finished"}
  /\ attempt \in {"none", "first", "retry"}
  /\ sockets \in Seq({"open", "closed", "ended"})
  /\ txOpen \in BOOLEAN
  /\ spare \in Nat

(* start_websocket: one attempt, without retries.                          *)
Init(maxSockets) ==
  /\ stage = "Before"
  /\ attempt = "first"
  /\ sockets = <<>>
  /\ txOpen = TRUE
  /\ spare = maxSockets

(* An attempt succeeds.  When reconnecting the proxy is a new one; if the  *)
(* Network was closed during the first attempt, no socket is kept.         *)
Opened ==
  /\ attempt # "none"
  /\ spare > 0
  /\ spare' = spare - 1
  /\ attempt' = "none"
  /\ IF sockets = <<>> /\ ~txOpen
     THEN UNCHANGED <<sockets, txOpen>>
     ELSE sockets' = Append(sockets, "open") /\ txOpen' = TRUE
  /\ UNCHANGED stage

(* Only the first attempt of a reconnection can be aborted, and not when   *)
(* its result is already on the way to the main thread.                    *)
Aborted ==
  IF stage = "Reconnecting" /\ attempt = "first" THEN {"none", "retry"} ELSE {attempt}

CloseProxy == txOpen' = FALSE /\ attempt' \in Aborted /\ UNCHANGED spare

CloseWithoutReconnection == CloseProxy /\ stage' = "Finished"

(* reconnect_websocket does nothing before the session has started, while  *)
(* reconnecting, and after the end.                                        *)
Reconnect ==
  stage = "Connected" /\ stage' = "Reconnecting" /\ attempt' = "first" /\ UNCHANGED spare

AttemptFailed ==
  /\ attempt = "first"
  /\ attempt' = IF sockets = <<>> THEN "none" ELSE "retry"
  /\ UNCHANGED <<stage, sockets, txOpen, spare>>

RetriesExhausted ==
  /\ attempt = "retry"
  /\ attempt' = "none"
  /\ stage' = "Finished"
  /\ txOpen' = FALSE
  /\ UNCHANGED <<sockets, spare>>

(* Nothing has been heard from the server for the heartbeat's timeout.     *)
Idle == spare > 0 /\ Reconnect /\ UNCHANGED <<sockets, txOpen>>

(* The server or the network closes a socket, as long as there may be      *)
(* another, or the emptied sink does.                                      *)
Break(s) ==
  /\ sockets[s] = "open"
  /\ s < Newest \/ spare > 0 \/ ~txOpen
  /\ sockets' = [sockets EXCEPT ![s] = "closed"]
  /\ UNCHANGED <<stage, attempt, txOpen, spare>>

(* A stream has ended: the proxy is closed, and a Network that was         *)
(* connected reconnects.                                                   *)
StreamEnded(s) ==
  /\ sockets[s] = "closed"
  /\ sockets' = [sockets EXCEPT ![s] = "ended"]
  /\ IF stage = "Connected"
     THEN Reconnect /\ txOpen' = FALSE
     ELSE CloseProxy /\ UNCHANGED stage

(* The server confirms that the session is joined, or joined again.        *)
Confirmed == stage' = "Connected" /\ UNCHANGED <<attempt, sockets, txOpen, spare>>

(* While the stage says "we are trying to reconnect" an attempt is being   *)
(* made or a connection is there that the server may still confirm.        *)
IsTrying ==
  stage = "Reconnecting" => attempt # "none" \/ \E s \in DOMAIN sockets : sockets[s] # "ended"
=============================================================================
