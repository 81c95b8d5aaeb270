------------------------------ MODULE ChatAnswer ------------------------------
(***************************************************************************)
(* A streamed answer as a client of POST /v1/chat/completions may rely on   *)
(* it: a chunk with the role, chunks that say something to a field or to a  *)
(* tool call, a chunk with the finish_reason, [DONE].  Tool calls get the   *)
(* numbers 0, 1, 2, ...  Nothing follows [DONE], and nothing but an error   *)
(* the finish_reason or an error (docs/compatibility.md:357).               *)
(***************************************************************************)
EXTENDS Integers, FiniteSets

VARIABLES
  phase,                \* "idle", "open", "closing", "stopped" or "error"
  tools,                \* numbers of tool calls
  last                  \* the latest frame: its event and whom it is about

vars == <<phase, tools, last>>

Init == phase = "idle" /\ tools = {} /\ last = <<"none", 0>>

Role == phase = "idle" /\ phase' = "open" /\ last' = <<"role", 0>> /\ UNCHANGED tools

(* To a field of the message, or to a tool call that is known.              *)
Say ==
  /\ phase = "open" /\ last'[1] = "chunk" /\ (last'[2] < 0 \/ last'[2] \in tools)
  /\ UNCHANGED <<phase, tools>>

(* The first number that no tool call has had.                              *)
Call ==
  LET i == Cardinality(tools)
  IN  /\ phase = "open" /\ tools' = tools \cup {i}
      /\ last' = <<"chunk", i>>
      /\ UNCHANGED phase

FinishReason ==
  phase = "open" /\ phase' = "closing" /\ last' = <<"finish", 0>> /\ UNCHANGED tools

Done ==
  phase = "closing" /\ phase' = "stopped" /\ last' = <<"terminal", 0>> /\ UNCHANGED tools

Fail == phase # "stopped" /\ phase' = "error" /\ last' = <<"error", 0>> /\ UNCHANGED tools

Next == Role \/ Say \/ Call \/ FinishReason \/ Done \/ Fail

Spec == Init /\ [][Next]_vars
=============================================================================
