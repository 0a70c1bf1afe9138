--------------------------- MODULE MCRemoteServer ---------------------------
(***************************************************************************)
(* A session that reconnects as often as it may, and others beside it that *)
(* connect once and share its host.                                        *)
(***************************************************************************)
EXTENDS RemoteServer

CONSTANTS reconnecting, ClientsOfIt

ClientsOf == [s \in Sessions |-> IF s = reconnecting THEN ClientsOfIt ELSE 1]
=============================================================================
