---------------------------- MODULE MessageParser ----------------------------
(***************************************************************************)
(* parser.go: what becomes of a frame of the conversation.  A frame is     *)
(*   type, subtype : its "type", and the "subtype" of a system frame       *)
(*   has           : the fields it has, with the JSON type they need       *)
(*   blocks        : the types of its content blocks                       *)
(* The values of the fields, which are copied, are left out.               *)
(***************************************************************************)

Absent     == "absent"       \* no such field, or one of another type
NotAnObject == "not an object"

MessageTypes == {"user", "assistant", "system", "result", "stream_event",
                 "rate_limit_event", "conversation_reset"}

\* System frames with a message type of their own.
Lifecycle == {"task_started", "task_progress", "task_notification", "task_updated",
              "mirror_error", "hook_started", "hook_response"}

KnownBlocks == {"text", "thinking", "tool_use", "tool_result", "server_tool_use", "advisor_tool_result"}

\* The fields without which a frame is an error, by the function that parses it.  The
\* last group is parsed defensively: nothing of a task's end, a hook or a mirror error
\* is lost for a missing field.
UserMessage       == {"message"}
AssistantMessage  == {"message", "content"}
SystemMessage     == {"subtype"}
TaskStarted       == {"task_id", "description", "uuid", "session_id"}
TaskProgress      == TaskStarted \cup {"usage"}
TaskNotification  == {"task_id", "status", "output_file", "summary", "uuid", "session_id"}
ResultMessage     == {"subtype", "duration_ms", "duration_api_ms", "is_error", "num_turns", "session_id"}
StreamEvent       == {"uuid", "session_id", "event"}
RateLimitEvent    == {"rate_limit_info", "status", "uuid", "session_id"}
ConversationReset == {"new_conversation_id", "uuid", "session_id"}
TaskUpdated       == {}
HookEvent         == {}
MirrorError       == {}

Required ==
  [user |-> UserMessage, assistant |-> AssistantMessage, system |-> SystemMessage,
   task_started |-> TaskStarted, task_progress |-> TaskProgress,
   task_notification |-> TaskNotification, task_updated |-> TaskUpdated,
   hook_started |-> HookEvent, hook_response |-> HookEvent, mirror_error |-> MirrorError,
   result |-> ResultMessage, stream_event |-> StreamEvent,
   rate_limit_event |-> RateLimitEvent, conversation_reset |-> ConversationReset]

Shape(f) == IF f.type = "system" /\ f.subtype \in Lifecycle THEN f.subtype ELSE f.type

\* One block of an unknown type, or one that is no object, makes the message an error.
BlocksParse(f) == f.type \in {"user", "assistant"} => f.blocks \subseteq KnownBlocks

Complete(f) == Required[Shape(f)] \subseteq f.has /\ BlocksParse(f)

\* "message", or "error", or "nothing": types of newer CLIs are skipped.
ParseMessage(f) ==
  CASE f.type = Absent          -> "error"
    [] f.type \in MessageTypes -> IF Complete(f) THEN "message" ELSE "error"
    [] OTHER                    -> "nothing"

IsResultMessage(f) == f.type = "result" /\ ParseMessage(f) = "message"
=============================================================================
