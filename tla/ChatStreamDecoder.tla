-------------------------- MODULE ChatStreamDecoder --------------------------
(***************************************************************************)
(* ChatStreamDecoder (src/src/protocols/openai-chat/stream-decode.ts): one  *)
(* frame of an upstream's Chat stream in, canonical events out.             *)
(*                                                                         *)
(* A block is what a delta of the upstream belongs to: its reasoning, its   *)
(* text, its refusal, or a tool call, named by the upstream's index for it. *)
(* A part of a frame is what the frame says to one block: a sequence of     *)
(* tokens, empty for an empty string.  A frame that throws whatever the     *)
(* state is, be it malformed, too large or contradicting an earlier one, is *)
(* an invalid frame.                                                        *)
(***************************************************************************)
EXTENDS ToolArguments, SequencesExt, Functions

CONSTANT Prose          \* blocks that are not tool calls

Blocks == Prose \cup Calls

(* #identity, #finishReason and #terminal are set one after the other and   *)
(* are one phase here.  A block's index is its place in blocks; all of them *)
(* are open until the generation is finished, and none from then on.        *)
NewDecoder(policy) ==
  [protocol |-> "chat", phase |-> "new", blocks |-> <<>>, arguments |-> <<>>,
   usage |-> 0, finish |-> None, policy |-> policy]

IndexOf(decoder, block) ==
  (CHOOSE i \in DOMAIN decoder.blocks : decoder.blocks[i] = block) - 1

Throw(decoder) == [ok |-> FALSE, decoder |-> decoder, events |-> <<>>]

Return(decoder, events) == [ok |-> TRUE, decoder |-> decoder, events |-> events]

Seen(decoder, block) == block \in Range(decoder.blocks)

(* #decodeReasoning(), #decodeText(), #decodeRefusal(), #decodeTools().     *)
DecodePart(result, part) ==
  LET seen == Seen(result.decoder, part.block)
      opened == IF seen THEN result.decoder
                ELSE [result.decoder EXCEPT !.blocks = Append(@, part.block),
                                            !.arguments = Append(@, <<>>)]
      index == IndexOf(opened, part.block)
      next == IF part.block \in Calls
                THEN [opened EXCEPT !.arguments[index + 1] = @ \o part.said] ELSE opened
  IN Return(next, result.events
            \o (IF seen THEN <<>>
                ELSE <<[type |-> "content_start", index |-> index, block |-> part.block]>>)
            \o (IF part.said = <<>> THEN <<>>
                ELSE <<[type |-> "delta", index |-> index, said |-> part.said]>>))

(* #validateToolArguments()                                                 *)
ValidArguments(decoder, finish) ==
  \A i \in DOMAIN decoder.blocks :
    decoder.blocks[i] \in Calls =>
      MayEndWith(decoder.policy, decoder.blocks[i], decoder.arguments[i], finish = "length")

(* The finish_reason: every block stops.                                    *)
Finished(result, finish) ==
  IF ~ValidArguments(result.decoder, finish) THEN Throw(result.decoder)
  ELSE Return([result.decoder EXCEPT !.phase = "finished", !.finish = finish],
              result.events \o
                [i \in 1 .. Len(result.decoder.blocks) |->
                  [type |-> "content_stop", index |-> i - 1,
                   status |-> IF finish = "length" THEN "incomplete" ELSE "completed"]])

(* #validateTrailingChoice(): output after the finish_reason, or another.   *)
TrailingOutput(decoder, chunk) ==
  \/ \E i \in DOMAIN chunk.parts : chunk.parts[i].said # <<>> \/ chunk.parts[i].block \in Calls
  \/ chunk.finish \notin {None, decoder.finish}

(* A frame with neither parts nor a finish_reason has no choices, or an     *)
(* empty delta.                                                             *)
DecodeChunk(decoder, chunk) ==
  LET next == [decoder EXCEPT
                 !.phase = IF @ = "new" THEN "started" ELSE @,
                 !.usage = IF chunk.usage = None THEN @ ELSE chunk.usage]
      start == IF decoder.phase = "new" THEN <<[type |-> "response_start"]>> ELSE <<>>
      result == FoldLeft(DecodePart, Return(next, start), chunk.parts)
  IN IF decoder.phase = "finished"
       THEN IF TrailingOutput(decoder, chunk) THEN Throw(decoder) ELSE Return(next, start)
       ELSE IF chunk.finish = None THEN result ELSE Finished(result, chunk.finish)

Complete(decoder) ==
  Return([decoder EXCEPT !.phase = "terminal"],
         <<[type |-> "response_complete", usage |-> decoder.usage, searches |-> 0,
            finish |-> decoder.finish]>>)

(* Mutant of DecodeDone: an answer need not have been finished.             *)
DecodeDoneAnyway(decoder) ==
  IF decoder.phase = "new" THEN Throw(decoder) ELSE Complete(decoder)

(* #decodeDone()                                                            *)
DecodeDone(decoder) ==
  IF decoder.phase # "finished" THEN Throw(decoder) ELSE Complete(decoder)

(* #decodeError()                                                           *)
DecodeError(decoder) ==
  IF decoder.phase = "new" THEN Throw(decoder)
  ELSE Return([decoder EXCEPT !.phase = "terminal"], <<[type |-> "response_error"]>>)

(* decode(): an exception leaves the events of its frame behind.            *)
Decode(decoder, frame) ==
  IF decoder.phase = "terminal" THEN Throw(decoder)
  ELSE CASE frame.type = "chunk"   -> DecodeChunk(decoder, frame)
         [] frame.type = "done"    -> DecodeDone(decoder)
         [] frame.type = "error"   -> DecodeError(decoder)
         [] frame.type = "invalid" -> Throw(decoder)

(* finish(): the upstream's stream has ended; its [DONE] is not required.   *)
Finish(decoder) ==
  IF decoder.phase = "terminal" THEN Return(decoder, <<>>) ELSE DecodeDone(decoder)
=============================================================================
