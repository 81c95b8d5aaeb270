-------------------------- MODULE ChatStreamEncoder --------------------------
(***************************************************************************)
(* ChatStreamEncoder (src/src/protocols/openai-chat/stream-encode.ts): a    *)
(* canonical event in, chunks of a Chat stream out.  A chunk says something *)
(* to a field of the message or to a tool call, which is known by its       *)
(* number among the calls; nothing tells the client that one has stopped.   *)
(***************************************************************************)
EXTENDS ToolArguments

NewEncoder == [started |-> FALSE, completed |-> FALSE, tools |-> 0, content |-> <<>>]

Reject(encoder) == [ok |-> FALSE, encoder |-> encoder, frames |-> <<>>]

Accept(encoder, frames) == [ok |-> TRUE, encoder |-> encoder, frames |-> frames]

(* The fields, below the numbers of the calls.                              *)
Field(block) ==
  CASE block = "reasoning" -> -3 [] block = "text" -> -2 [] block = "refusal" -> -1

IsOpen(encoder, index) == index \in DOMAIN encoder.content /\ encoder.content[index].open

ToolIndex(encoder, index) == encoder.tools

(* #startContent(): only a call is shown before anything is said to it.     *)
EncodeContentStart(encoder, index, block) ==
  LET call == block \in Calls
      key == IF call THEN ToolIndex(encoder, index) ELSE Field(block)
      content == [i \in DOMAIN encoder.content \cup {index} |->
                    IF i = index THEN [block |-> block, key |-> key, open |-> TRUE]
                    ELSE encoder.content[i]]
  IN IF ~encoder.started \/ index \in DOMAIN encoder.content THEN Reject(encoder)
     ELSE Accept([encoder EXCEPT !.content = content,
                                 !.tools = IF call THEN @ + 1 ELSE @],
            IF call THEN <<[event |-> "chunk", index |-> key, block |-> block, said |-> <<>>]>>
            ELSE <<>>)

(* text_delta, reasoning_delta, function_arguments_delta                    *)
EncodeDelta(encoder, index, said) ==
  LET content == encoder.content[index]
  IN IF ~IsOpen(encoder, index) THEN Reject(encoder)
     ELSE Accept(encoder, <<[event |-> "chunk", index |-> content.key,
                             block |-> content.block, said |-> said]>>)

(* content_stop                                                             *)
EncodeContentStop(encoder, index) ==
  IF ~IsOpen(encoder, index) THEN Reject(encoder)
  ELSE Accept([encoder EXCEPT !.content[index].open = FALSE], <<>>)

(* response_complete: the finish_reason, the usage, and [DONE].             *)
EncodeComplete(encoder, event) ==
  IF ~encoder.started \/ \E i \in DOMAIN encoder.content : encoder.content[i].open
    THEN Reject(encoder)
  ELSE Accept([encoder EXCEPT !.completed = TRUE],
         <<[event |-> "finish", index |-> 0, finish |-> event.finish, usage |-> event.usage],
           [event |-> "terminal", index |-> 0]>>)

(* encode()                                                                 *)
Encode(encoder, event) ==
  IF encoder.completed THEN Reject(encoder)
  ELSE CASE event.type = "response_start" ->
              IF encoder.started THEN Reject(encoder)
              ELSE Accept([encoder EXCEPT !.started = TRUE],
                          <<[event |-> "role", index |-> 0]>>)
         [] event.type = "content_start" ->
              EncodeContentStart(encoder, event.index, event.block)
         [] event.type = "delta"         -> EncodeDelta(encoder, event.index, event.said)
         [] event.type = "content_stop"  -> EncodeContentStop(encoder, event.index)
         [] event.type = "response_complete" -> EncodeComplete(encoder, event)
         [] event.type = "response_error" ->
              Accept([encoder EXCEPT !.completed = TRUE], <<[event |-> "error", index |-> 0]>>)
         [] OTHER -> Reject(encoder)
=============================================================================
