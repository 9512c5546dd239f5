----------------------------- MODULE MCWebSocket -----------------------------
(* Small instances of WebSocket for TLC.                                   *)
EXTENDS WebSocket

ServerOnce == [p \in End |-> IF p = "server" THEN 1 ELSE 2]
=============================================================================
