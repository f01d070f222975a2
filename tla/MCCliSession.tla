---------------------------- MODULE MCCliSession ----------------------------
(* Small sessions: one or two prompts, one or two background tasks. *)
EXTENDS CliSession

McTaskTypes == {"local_agent", "local_bash"}
McDeferring == {"local_agent"}
McStatuses  == {"completed", "running"}
McTerminal  == {"completed"}
=============================================================================
