----------------------------- MODULE MCTransport -----------------------------
(* Every kind of line, against channels and pipes of one or two places. *)
EXTENDS Transport
=============================================================================
