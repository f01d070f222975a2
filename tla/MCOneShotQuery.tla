--------------------------- MODULE MCOneShotQuery ---------------------------
(* One query against channels of one or two places. *)
EXTENDS OneShotQuery

NoWriters == {}
=============================================================================
