----------------------------- MODULE ClientStream -----------------------------
(***************************************************************************)
(* The client's side of a streamed answer: the handlers of /v1/messages,    *)
(* /v1/responses and /v1/chat/completions in src/src/app.ts take canonical  *)
(* events, encode them for their protocol and write the frames one after    *)
(* the other, and the client puts them together.                            *)
(*                                                                         *)
(* The generators behind a handler are asked for more only when everything  *)
(* before has been written.  So what follows from one step of theirs is     *)
(* worked out at once and waits in out, behind it perhaps an exception.     *)
(***************************************************************************)
EXTENDS ToolArguments, SequencesExt

CONSTANTS Customs, Deferred   \* see ResponsesToolOutput

Messages == INSTANCE AnthropicStreamEncoder
Responses == INSTANCE ResponsesStreamEncoder
Chat == INSTANCE ChatStreamEncoder
Tools == INSTANCE ResponsesToolOutput

VARIABLES
  request,              \* what the client asked for, as the upstream is asked now
  encoder,              \* the encoder of the client's protocol
  out,                  \* frames to be written
  held,                 \* the last frame, held back; <<>> if none
  client                \* what the client has received

Exception(by) == [event |-> "exception", index |-> 0, by |-> by]

NewEncoder(r) ==
  CASE r.client = "messages"  -> Messages!NewEncoder
    [] r.client = "responses" -> [frames |-> Responses!NewEncoder, tools |-> Tools!NewOutput(r.bound)]
    [] r.client = "chat"      -> Chat!NewEncoder

(* One frame of the encoder through ResponsesToolOutput.                    *)
Convert(result, frame) ==
  LET next == Tools!Convert(result.encoder.tools, frame)
  IN IF ~result.ok THEN result
     ELSE [ok |-> next.ok, encoder |-> [result.encoder EXCEPT !.tools = next.tools],
           frames |-> result.frames \o next.frames, by |-> "tools"]

(* streamResponsesResponse() converts all frames of an event before it      *)
(* sends the first.                                                         *)
EncodeResponses(e, event) ==
  LET next == Responses!Encode(e.frames, event)
  IN FoldLeft(Convert, [ok |-> next.ok, encoder |-> [e EXCEPT !.frames = next.encoder],
                        frames |-> <<>>, by |-> "encoder"], next.frames)

Encode(e, event) ==
  CASE request.client = "messages"  -> Messages!Encode(e, event)
    [] request.client = "responses" -> EncodeResponses(e, event)
    [] request.client = "chat"      -> Chat!Encode(e, event)

(* Mutant of HeldBack: the last frame is sent when it is there.             *)
HeldBackNever(frame) == FALSE

(* response.completed, response.incomplete and [DONE] wait until the        *)
(* upstream's stream has ended well; message_stop does not.                 *)
HeldBack(frame) == frame.event = "terminal"

EncodeEvent(result, event) ==
  LET next == Encode(result.encoder, event)
      sent == SelectSeq(next.frames, LAMBDA frame : ~HeldBack(frame))
  IN IF ~result.ok THEN result
     ELSE IF ~next.ok THEN [result EXCEPT !.ok = FALSE,
             !.frames = Append(@, Exception(IF "by" \in DOMAIN next THEN next.by ELSE "encoder"))]
     ELSE [ok |-> TRUE, encoder |-> next.encoder, frames |-> result.frames \o sent,
           held |-> IF sent = next.frames THEN result.held ELSE <<Last(next.frames)>>]

(* The events are encoded and await their turn to be written.               *)
Emit(events) ==
  LET result == FoldLeft(EncodeEvent,
                  [ok |-> TRUE, encoder |-> encoder, frames |-> <<>>, held |-> held], events)
  IN  encoder' = result.encoder /\ out' = result.frames /\ held' = result.held

EmitNothing == UNCHANGED <<encoder, out, held>>

Throw == out' = <<Exception("upstream")>> /\ UNCHANGED <<encoder, held>>

-----------------------------------------------------------------------------
(* The client.                                                              *)

NewClient ==
  [phase |-> "idle", blocks |-> <<>>, items |-> <<>>, output |-> <<>>, last |-> <<"none", 0>>,
   frames |-> 0, gone |-> FALSE, usage |-> 0, searches |-> 0, finish |-> None]

Opened(c, frame) ==
  [j \in DOMAIN c.blocks \cup {frame.index} |->
     IF j = frame.index THEN [block |-> frame.block, text |-> <<>>, open |-> TRUE]
     ELSE c.blocks[j]]

Told(blocks, index, said) ==
  [j \in DOMAIN blocks |->
     IF j = index THEN [blocks[j] EXCEPT !.text = @ \o said] ELSE blocks[j]]

Closed(blocks, index) ==
  [j \in DOMAIN blocks |->
     IF j = index THEN [blocks[j] EXCEPT !.open = FALSE] ELSE blocks[j]]

ReceiveMessage(c, frame) ==
  CASE frame.event = "message_start"       -> [c EXCEPT !.phase = "open"]
    [] frame.event = "content_block_start" -> [c EXCEPT !.blocks = Opened(c, frame)]
    [] frame.event = "content_block_delta" ->
         [c EXCEPT !.blocks = Told(@, frame.index, frame.said)]
    [] frame.event = "content_block_stop"  -> [c EXCEPT !.blocks = Closed(@, frame.index)]
    [] frame.event = "message_delta"       ->
         [c EXCEPT !.phase = "closing", !.usage = frame.usage, !.searches = frame.searches,
                   !.finish = frame.finish]
    [] frame.event = "message_stop"        -> [c EXCEPT !.phase = "stopped"]
    [] frame.event = "error"               -> [c EXCEPT !.phase = "error"]

(* A Responses client has the items that are done beside the deltas.        *)
ReceiveResponse(c, frame) ==
  CASE frame.event = "response.created"           -> [c EXCEPT !.phase = "open"]
    [] frame.event = "response.output_item.added" -> [c EXCEPT !.blocks = Opened(c, frame)]
    [] frame.event = "delta"          -> [c EXCEPT !.blocks = Told(@, frame.index, frame.said)]
    [] frame.event = "arguments.done" -> c
    [] frame.event = "response.output_item.done"  ->
         [c EXCEPT !.blocks = Closed(@, frame.index),
                   !.items = [j \in DOMAIN @ \cup {frame.index} |->
                                IF j = frame.index THEN frame.item ELSE @[j]]]
    [] frame.event = "terminal" ->
         [c EXCEPT !.phase = "stopped", !.usage = frame.usage, !.finish = frame.finish,
                   !.output = frame.output]
    [] frame.event = "error" -> [c EXCEPT !.phase = "error"]

ReceiveChat(c, frame) ==
  CASE frame.event = "role"  -> [c EXCEPT !.phase = "open"]
    [] frame.event = "chunk" ->
         [c EXCEPT !.blocks =
            Told(IF frame.index \in DOMAIN @ THEN @ ELSE Opened(c, frame),
                 frame.index, frame.said)]
    [] frame.event = "finish" ->
         [c EXCEPT !.phase = "closing", !.usage = frame.usage, !.finish = frame.finish]
    [] frame.event = "terminal" -> [c EXCEPT !.phase = "stopped"]
    [] frame.event = "error"    -> [c EXCEPT !.phase = "error"]

(* What a client makes of a frame; a Responses client looks at its number,  *)
(* too, unless the gateway tells it of its own failure.                     *)
Receive(c, frame) ==
  LET number == IF "number" \in DOMAIN frame THEN frame.number ELSE c.frames
      next == [c EXCEPT !.last = <<frame.event, frame.index>>, !.frames = number + 1]
  IN CASE request.client = "messages"  -> ReceiveMessage(next, frame)
       [] request.client = "responses" -> ReceiveResponse(next, frame)
       [] request.client = "chat"      -> ReceiveChat(next, frame)

Error == [event |-> "error", index |-> 0]
=============================================================================
