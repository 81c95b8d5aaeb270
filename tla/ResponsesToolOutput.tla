------------------------- MODULE ResponsesToolOutput -------------------------
(***************************************************************************)
(* ResponsesToolOutput (src/src/protocols/openai-responses/tool-compat.ts): *)
(* the upstream knows custom tools and the tool search as functions of      *)
(* other names; on the way to the client their calls become native items.   *)
(***************************************************************************)
EXTENDS ToolArguments

CONSTANTS
  Customs,              \* calls of custom tools
  Deferred              \* calls of tool_search

Bound == Customs \cup Deferred

(* items are the output indices of calls that are open, with their tools.   *)
NewOutput(bindings) == [bindings |-> bindings, items |-> <<>>, number |-> 0]

Restored(call, said) ==
  /\ call \in Customs => IsWrappedInput(said)
  /\ call \in Deferred => IsJsonObject(said)

(* Mutant of ItemsRestored: only what is shown as an item is looked at.     *)
ItemsRestoredNever(frame) == TRUE

(* customInput() and searchArguments() of an item that is done, and of all  *)
(* the items of a response.                                                 *)
ItemsRestored(frame) ==
  CASE frame.event = "response.output_item.done" -> Restored(frame.item.block, frame.item.text)
    [] frame.event = "terminal" ->
         \A i \in DOMAIN frame.output : Restored(frame.output[i].block, frame.output[i].text)
    [] OTHER -> TRUE

Unbound(items, index) == [i \in DOMAIN items \ {index} |-> items[i]]

(* #items: what is added is remembered until it is done.                    *)
Remembered(items, frame) ==
  CASE frame.event = "response.output_item.added" /\ frame.block \in Bound ->
         [i \in DOMAIN items \cup {frame.index} |->
            IF i = frame.index THEN frame.block ELSE items[i]]
    [] frame.event = "response.output_item.done" -> Unbound(items, frame.index)
    [] OTHER -> items

(* A custom tool's input is sent when it is known to be whole; the client   *)
(* finds the arguments of a tool search in the item.                        *)
Native(binding, frame) ==
  CASE binding \in Deferred /\ frame.event \in {"delta", "arguments.done"} -> <<>>
    [] binding \in Customs /\ frame.event = "delta" -> <<>>
    [] binding \in Customs /\ frame.event = "arguments.done" ->
         <<[frame EXCEPT !.event = "delta"], frame>>
    [] OTHER -> <<frame>>

Throw(tools) == [ok |-> FALSE, tools |-> tools, frames |-> <<>>]

(* Mutant of Numbered: frames keep the numbers of the encoder.              *)
NumberedRaw(tools, frames) == frames

(* The frames are numbered anew.                                            *)
Numbered(tools, frames) ==
  [i \in DOMAIN frames |-> [frames[i] EXCEPT !.number = tools.number + i - 1]]

(* frames()                                                                 *)
Convert(tools, frame) ==
  LET items == Remembered(tools.items, frame)
      binding == IF frame.index \in DOMAIN items THEN items[frame.index] ELSE None
      native == Native(binding, frame)
      wrapped == binding \in Customs /\ frame.event = "arguments.done"
  IN IF ~tools.bindings THEN [ok |-> TRUE, tools |-> tools, frames |-> <<frame>>]
     ELSE IF ~ItemsRestored(frame) \/ (wrapped /\ ~IsWrappedInput(frame.said))
       THEN Throw(tools)
     ELSE [ok |-> TRUE, frames |-> Numbered(tools, native),
           tools |-> [tools EXCEPT !.items = items, !.number = @ + Len(native)]]
=============================================================================
