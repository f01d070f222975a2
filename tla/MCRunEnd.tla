------------------------------ MODULE MCRunEnd ------------------------------
(* Small instances of RunEnd: a ledger of one entry for up to two tasks. *)
EXTENDS RunEnd

McTaskTypes == {"local_agent", "local_bash"}
McDeferring == {"local_agent"}
McStatuses  == {"completed", "running"}
McTerminal  == {"completed"}
=============================================================================
