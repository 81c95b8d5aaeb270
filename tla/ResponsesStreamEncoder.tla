------------------------ MODULE ResponsesStreamEncoder ------------------------
(***************************************************************************)
(* ResponsesStreamEncoder (src/src/protocols/openai-responses/              *)
(* stream-encode.ts): a canonical event in, frames of a streamed response   *)
(* out.  Frames that only repeat or announce what the frame beside them     *)
(* says (parts added and done, text done, a search's progress) are left     *)
(* out, and so are citations, encrypted reasoning and size limits.          *)
(***************************************************************************)
EXTENDS ToolArguments, SequencesExt, FiniteSetsExt

(* place is #contentIndices, the output index of each content index; open   *)
(* and output are items by output index; searches are the open ones.        *)
NewEncoder ==
  [started |-> FALSE, completed |-> FALSE, number |-> 0, place |-> <<>>, open |-> <<>>,
   output |-> <<>>, searches |-> <<>>, searchCount |-> 0, next |-> 0]

Reject(encoder) == [ok |-> FALSE, encoder |-> encoder, frames |-> <<>>]

(* #frame(): frames are numbered in the order of their making.              *)
Accept(encoder, frames) ==
  [ok |-> TRUE, encoder |-> [encoder EXCEPT !.number = @ + Len(frames)],
   frames |-> [i \in DOMAIN frames |->
                 [frames[i] EXCEPT !.number = encoder.number + i - 1]]]

Set(items, index, item) ==
  [i \in DOMAIN items \cup {index} |-> IF i = index THEN item ELSE items[i]]

Unset(items, index) == [i \in DOMAIN items \ {index} |-> items[i]]

(* #start()                                                                 *)
EncodeStart(encoder) ==
  IF encoder.started THEN Reject(encoder)
  ELSE Accept([encoder EXCEPT !.started = TRUE],
              <<[event |-> "response.created", index |-> -1, number |-> 0]>>)

(* Mutant of Placed: items are not moved on by the searches before them.    *)
PlacedRaw(encoder, index) ==
  IF index \in DOMAIN encoder.place THEN encoder.place
  ELSE Set(encoder.place, index, index)

(* encode(): a content index gets its output index when it starts.          *)
Placed(encoder, index) ==
  IF index \in DOMAIN encoder.place THEN encoder.place
  ELSE Set(encoder.place, index, index + encoder.searchCount)

(* #startContent()                                                          *)
EncodeContentStart(encoder, index, block) ==
  LET place == Placed(encoder, index)
      o == place[index]
  IN IF ~encoder.started \/ o \in DOMAIN encoder.open \cup DOMAIN encoder.output
       THEN Reject(encoder)
     ELSE Accept([encoder EXCEPT
                    !.place = place, !.next = IF @ > o THEN @ ELSE o + 1,
                    !.open = Set(@, o, [block |-> block, text |-> <<>>])],
            <<[event |-> "response.output_item.added", index |-> o, number |-> 0,
               block |-> block]>>)

IsOpen(encoder, index) ==
  index \in DOMAIN encoder.place /\ encoder.place[index] \in DOMAIN encoder.open

(* #textDelta(), #reasoningDelta(), #functionArgumentsDelta()               *)
EncodeDelta(encoder, index, said) ==
  LET o == encoder.place[index]
  IN IF ~IsOpen(encoder, index) THEN Reject(encoder)
     ELSE Accept([encoder EXCEPT !.open[o].text = @ \o said],
            <<[event |-> "delta", index |-> o, number |-> 0, said |-> said]>>)

(* #stopContent(), #stopReasoning(), #stopFunctionCall(): the item is among *)
(* the output with all that was said to it.                                 *)
EncodeContentStop(encoder, index, status) ==
  LET o == encoder.place[index]
      item == [block |-> encoder.open[o].block, text |-> encoder.open[o].text,
               status |-> status]
      done == [event |-> "response.output_item.done", index |-> o, number |-> 0, item |-> item]
  IN IF ~IsOpen(encoder, index) THEN Reject(encoder)
     ELSE Accept([encoder EXCEPT !.open = Unset(@, o), !.output = Set(@, o, item)],
            IF item.block \in Calls
              THEN <<[event |-> "arguments.done", index |-> o, number |-> 0,
                      said |-> item.text], done>>
              ELSE <<done>>)

(* #startWebSearch()                                                        *)
EncodeSearchStart(encoder, id) ==
  IF ~encoder.started \/ id \in DOMAIN encoder.searches THEN Reject(encoder)
  ELSE Accept([encoder EXCEPT !.next = @ + 1, !.searchCount = @ + 1,
                              !.searches = Set(@, id, encoder.next)],
         <<[event |-> "response.output_item.added", index |-> encoder.next, number |-> 0,
            block |-> "web_search_call"]>>)

(* #finishWebSearch(), after its start                                      *)
EncodeSearchResult(encoder, id) ==
  LET o == encoder.searches[id]
      item == [block |-> "web_search_call", text |-> Query(id), status |-> "completed"]
  IN IF id \notin DOMAIN encoder.searches THEN Reject(encoder)
     ELSE Accept([encoder EXCEPT !.searches = Unset(@, id), !.output = Set(@, o, item)],
            <<[event |-> "response.output_item.done", index |-> o, number |-> 0,
               item |-> item]>>)

(* The output in the order of the indices.                                  *)
Output(encoder) ==
  LET indices == SetToSortSeq(DOMAIN encoder.output, <)
  IN  [i \in DOMAIN indices |-> encoder.output[indices[i]]]

(* #complete(): response.completed or response.incomplete.                  *)
EncodeComplete(encoder, event) ==
  IF ~encoder.started \/ encoder.open # <<>> \/ encoder.searches # <<>> THEN Reject(encoder)
  ELSE Accept([encoder EXCEPT !.completed = TRUE],
         <<[event |-> "terminal", index |-> -1, number |-> 0, finish |-> event.finish,
            usage |-> event.usage, output |-> Output(encoder)]>>)

(* #error()                                                                 *)
EncodeError(encoder) ==
  IF ~encoder.started THEN Reject(encoder)
  ELSE Accept([encoder EXCEPT !.completed = TRUE],
              <<[event |-> "error", index |-> -1, number |-> 0]>>)

(* encode()                                                                 *)
Encode(encoder, event) ==
  IF encoder.completed THEN Reject(encoder)
  ELSE CASE event.type = "response_start"    -> EncodeStart(encoder)
         [] event.type = "content_start"     ->
              EncodeContentStart(encoder, event.index, event.block)
         [] event.type = "delta"             -> EncodeDelta(encoder, event.index, event.said)
         [] event.type = "content_stop"      ->
              EncodeContentStop(encoder, event.index, event.status)
         [] event.type = "web_search_start"  -> EncodeSearchStart(encoder, event.query)
         [] event.type = "web_search_result" -> EncodeSearchResult(encoder, event.query)
         [] event.type = "response_complete" -> EncodeComplete(encoder, event)
         [] event.type = "response_error"    -> EncodeError(encoder)
=============================================================================
