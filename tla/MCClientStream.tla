--------------------------- MODULE MCClientStream ---------------------------
(* Two prompts, one frame before each result, one request, one turn of the *)
(* CLI's own, and channels of one place.                                   *)
EXTENDS ClientStream

Frame(type, subtype, has, blocks) == [type |-> type, subtype |-> subtype, has |-> has, blocks |-> blocks]

Text     == Frame("assistant", Absent, {"message", "content"}, {"text"})
NewBlock == Frame("assistant", Absent, {"message", "content"}, {"text", "new_block"})
Settled  == Frame("system", "task_updated", {"task_id"}, {})
Newer    == Frame("newer_type", Absent, {"uuid"}, {})
StateFrame == Frame("system", "session_state_changed", {"subtype", "state", "sdk_host_only"}, {})
ResultFrame == Frame("result", "success", Required.result, {})

Says == {Text, NewBlock, StateFrame}
Silent == {Text}
AllAsks == {[subtype |-> "can_use_tool", known |-> TRUE],
            [subtype |-> "hook_callback", known |-> TRUE],
            [subtype |-> "hook_callback", known |-> FALSE]}
NoAsks == {}
=============================================================================
