------------------------ MODULE AnthropicStreamEncoder ------------------------
(***************************************************************************)
(* AnthropicStreamEncoder (src/src/protocols/anthropic/stream-encode.ts): a *)
(* canonical event in, frames of a streamed message out.  The options of    *)
(* Claude Code (buffered Read arguments, synthetic signatures), citations   *)
(* and limits are left out, and no executions are known beforehand.         *)
(***************************************************************************)
EXTENDS ToolArguments, FiniteSets

NewEncoder == [started |-> FALSE, completed |-> FALSE, open |-> {}, seen |-> {},
               offset |-> 0, next |-> 0]

Reject(encoder) == [ok |-> FALSE, encoder |-> encoder, frames |-> <<>>]

Accept(encoder, frames) == [ok |-> TRUE, encoder |-> encoder, frames |-> frames]

(* #start()                                                                 *)
EncodeStart(encoder) ==
  IF encoder.started THEN Reject(encoder)
  ELSE Accept([encoder EXCEPT !.started = TRUE], <<[event |-> "message_start", index |-> 0]>>)

(* #startContent()                                                          *)
EncodeContentStart(encoder, index, block) ==
  LET output == index + encoder.offset
  IN IF ~encoder.started \/ index \in encoder.seen THEN Reject(encoder)
     ELSE Accept([encoder EXCEPT
                    !.seen = @ \cup {index}, !.open = @ \cup {index},
                    !.next = IF @ > output THEN @ ELSE output + 1],
                 <<[event |-> "content_block_start", index |-> output, block |-> block]>>)

(* text_delta, reasoning_delta, function_arguments_delta                    *)
EncodeDelta(encoder, index, said) ==
  IF index \notin encoder.open THEN Reject(encoder)
  ELSE Accept(encoder, <<[event |-> "content_block_delta",
                          index |-> index + encoder.offset, said |-> said]>>)

(* #stopContent()                                                           *)
EncodeContentStop(encoder, index) ==
  IF index \notin encoder.open THEN Reject(encoder)
  ELSE Accept([encoder EXCEPT !.open = @ \ {index}],
              <<[event |-> "content_block_stop", index |-> index + encoder.offset]>>)

(* The blocks to come move on by two places.                                *)
Moved(encoder) == [encoder EXCEPT !.offset = @ + 2, !.next = @ + 2]

(* web_search_result: a use of the tool and its results become two blocks.  *)
EncodeSearch(encoder, query, results) ==
  LET use == encoder.next
  IN IF ~encoder.started \/ encoder.open # {} THEN Reject(encoder)
     ELSE Accept(Moved(encoder),
       <<[event |-> "content_block_start", index |-> use, block |-> "server_tool_use"],
         [event |-> "content_block_delta", index |-> use, said |-> Query(query)],
         [event |-> "content_block_stop", index |-> use],
         [event |-> "content_block_start", index |-> use + 1, block |-> results],
         [event |-> "content_block_stop", index |-> use + 1]>>)

(* #complete()                                                              *)
EncodeComplete(encoder, event) ==
  IF ~encoder.started \/ encoder.open # {} THEN Reject(encoder)
  ELSE Accept([encoder EXCEPT !.completed = TRUE],
              <<[event |-> "message_delta", index |-> 0, usage |-> event.usage,
                 searches |-> event.searches, finish |-> event.finish],
                [event |-> "message_stop", index |-> 0]>>)

(* response_error                                                           *)
EncodeError(encoder) ==
  IF ~encoder.started THEN Reject(encoder)
  ELSE Accept([encoder EXCEPT !.completed = TRUE], <<[event |-> "error", index |-> 0]>>)

(* encode()                                                                 *)
Encode(encoder, event) ==
  IF encoder.completed THEN Reject(encoder)
  ELSE CASE event.type = "response_start"    -> EncodeStart(encoder)
         [] event.type = "content_start"     ->
              EncodeContentStart(encoder, event.index, event.block)
         [] event.type = "delta"             -> EncodeDelta(encoder, event.index, event.said)
         [] event.type = "content_stop"      -> EncodeContentStop(encoder, event.index)
         [] event.type = "web_search_start"  -> Accept(encoder, <<>>)
         [] event.type = "web_search_result" ->
              EncodeSearch(encoder, event.query, event.results)
         [] event.type = "response_complete" ->
              EncodeComplete(encoder, event)
         [] event.type = "response_error"    -> EncodeError(encoder)
=============================================================================
