------------------------------ MODULE Dispatch ------------------------------
(***************************************************************************)
(* How a request of the CLI becomes a call of the host and its result an   *)
(* answer: handleControlRequest, handleCanUseTool and handleHookCallback   *)
(* of internal/query.go, behind the wrappers of client.go.                 *)
(*                                                                         *)
(* A request is [subtype, known]: known, if its callback is there, that is *)
(* canUseTool is set, or the hook's id was registered by Initialize.       *)
(* What a callback returns is [is, input, writable]: an input is a value   *)
(* or None, and writable what json.Marshal can write.                      *)
(***************************************************************************)
None  == "none"
Asked == "input of the request"

Error     == [subtype |-> "error", behavior |-> None, input |-> None]
EmptyLine == [subtype |-> "empty line", behavior |-> None, input |-> None]
Success(behavior, input) == [subtype |-> "success", behavior |-> behavior, input |-> input]

Returns(is, input, writable) == [is |-> is, input |-> input, writable |-> writable]

\* What CanUseTool may return: an update of the input, or none; a refusal, with or
\* without an interrupt; nothing at all, in three guises; an error.
PermissionResults ==
  {Returns("allow", i, TRUE) : i \in {None, "updated"}} \cup {Returns("allow", "updated", FALSE)}
    \cup {Returns(is, None, TRUE) : is \in {"deny", "interrupt", "nil", "typed nil", "other type", "err"}}

\* What a hook may return: an output, one that cannot be written, an error.
HookResults == {Returns("output", None, w) : w \in BOOLEAN} \cup {Returns("err", None, TRUE)}

Results(request) ==
  CASE request.known /\ request.subtype = "can_use_tool"  -> PermissionResults
    [] request.known /\ request.subtype = "hook_callback" -> HookResults
    [] OTHER -> {Returns("err", None, TRUE)}

\* Both the wrapper and the handler take only the two pointer types, and not nil; the
\* wrapper passes on the input, and none of the updated permissions.
ClientCanUseTool(r) ==
  IF r.is \in {"allow", "deny", "interrupt"} THEN r ELSE [r EXCEPT !.is = "err"]

HandleCanUseTool_Mutant(r) ==   \* without the request's own input
  CASE r.is = "allow"     -> Success("allow", r.input)
    [] r.is = "deny"      -> Success("deny", None)
    [] r.is = "interrupt" -> Success("deny and interrupt", None)
    [] OTHER                -> Error

HandleCanUseTool(r) ==
  CASE r.is = "allow"     -> Success("allow", IF r.input = None THEN Asked ELSE r.input)
    [] r.is = "deny"      -> Success("deny", None)
    [] r.is = "interrupt" -> Success("deny and interrupt", None)
    [] OTHER                -> Error

HandleHookCallback(r) == IF r.is = "err" THEN Error ELSE Success("output", None)

\* sendControlSuccess does not look at the error of json.Marshal: an answer that
\* cannot be written becomes an empty line.
SendControlSuccess(answer, r) == IF r.writable THEN answer ELSE EmptyLine

HandleControlRequest(request, r) ==
  LET answer == CASE request.known /\ request.subtype = "can_use_tool"  -> HandleCanUseTool(ClientCanUseTool(r))
                  [] request.known /\ request.subtype = "hook_callback" -> HandleHookCallback(r)
                  [] OTHER -> Error
  IN IF answer = Error THEN Error ELSE SendControlSuccess(answer, r)
=============================================================================
