---------------------------- MODULE MCMcpBridge ----------------------------
(* Three messages, two of them at a time, that all carry the same id. *)
EXTENDS McpBridge
=============================================================================
