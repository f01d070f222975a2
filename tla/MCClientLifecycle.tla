------------------------ MODULE MCClientLifecycle ------------------------
(* Two callers that may do anything at any time. *)
EXTENDS ClientLifecycle
=============================================================================
