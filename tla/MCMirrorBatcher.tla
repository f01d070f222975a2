-------------------------- MODULE MCMirrorBatcher --------------------------
(* Three batches of different sizes against a queue of two. *)
EXTENDS MirrorBatcher

MCEntryCount == <<2, 1, 3>>
=============================================================================
