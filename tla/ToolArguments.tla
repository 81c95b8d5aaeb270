---------------------------- MODULE ToolArguments ----------------------------
(***************************************************************************)
(* The arguments of tool calls, as far as anything depends on them.         *)
(*                                                                         *)
(* What is said to a block is a sequence of tokens [frame, kind, part]: the *)
(* frame that brought it, what it does to a call's arguments ("part" leaves *)
(* the JSON text unfinished, "whole" and "odd" end it), and the part of a   *)
(* message it belongs to.  "odd" ends with an object that is not the        *)
(* wrapper {"input": string} of a custom tool.                              *)
(***************************************************************************)
EXTENDS Integers, Sequences

CONSTANTS
  Calls,                \* tool calls
  Searches,             \* those of the internal web search tool
  None

(* The arguments are the text of a JSON object: nothing follows its end.    *)
IsJsonObject(said) ==
  said # <<>> /\ \A i \in DOMAIN said : (said[i].kind # "part") = (i = Len(said))

(* The query of a search, as a token.                                       *)
Query(call) == <<[frame |-> -1, kind |-> call, part |-> 0]>>

(* customInput(): the object is the wrapper of a custom tool's input.       *)
IsWrappedInput(said) == IsJsonObject(said) /\ said[Len(said)].kind = "whole"

(* A call may end with these arguments: they are whole, or nobody asked for *)
(* that, or the generation was cut short and the client takes what there    *)
(* is.  The internal tool is the gateway's own and needs them whole.        *)
MayEndWith(policy, call, said, truncated) ==
  policy.validate /\ ~(policy.lenient /\ truncated /\ call \notin Searches)
    => IsJsonObject(said)
=============================================================================
