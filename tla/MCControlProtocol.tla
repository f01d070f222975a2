------------------------- MODULE MCControlProtocol -------------------------
(* Two calls and one request; the cfg files give the bounds. *)
EXTENDS ControlProtocol
=============================================================================
