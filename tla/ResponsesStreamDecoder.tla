------------------------ MODULE ResponsesStreamDecoder ------------------------
(***************************************************************************)
(* ResponsesStreamDecoder (src/src/protocols/openai-responses/              *)
(* stream-decode.ts): one frame of an upstream's Responses stream in,       *)
(* canonical events out.                                                    *)
(*                                                                         *)
(* An item is what it is added as: a message ("text"), reasoning or a call. *)
(* Citations, encrypted reasoning and size limits are left out.  A frame    *)
(* that throws whatever the state is, be it malformed, of an unknown type,  *)
(* too large, or about another item than its index says, is an invalid one. *)
(***************************************************************************)
EXTENDS ToolArguments, SequencesExt, Functions

(* items are those still open, and seen the indices of all.                 *)
NewDecoder(policy) ==
  [protocol |-> "responses", phase |-> "new", items |-> <<>>, seen |-> {}, policy |-> policy]

NewItem(block, said) == [block |-> block, text |-> said, refusal |-> <<>>, last |-> -1]

Throw(decoder) == [ok |-> FALSE, decoder |-> decoder, events |-> <<>>]

Return(decoder, events) == [ok |-> TRUE, decoder |-> decoder, events |-> events]

(* What was said, by the parts of a message: a part's text precedes that of *)
(* the next.  Other items have no parts.                                    *)
ByPart(block, said) ==
  LET Of(part) == SelectSeq(said, LAMBDA token : token.part = part)
  IN  IF block = "text" THEN FlattenSeq([part \in 1 .. 3 |-> Of(part - 1)]) ELSE said

(* #decodeCreated()                                                         *)
DecodeCreated(decoder) ==
  IF decoder.phase # "new" THEN Throw(decoder)
  ELSE Return([decoder EXCEPT !.phase = "started"], <<[type |-> "response_start"]>>)

(* #decodeItemAdded(): an item may bring the beginning of its text.         *)
DecodeItemAdded(decoder, frame) ==
  LET i == frame.index
      item == [NewItem(frame.block, frame.said) EXCEPT
                 !.last = IF frame.said = <<>> THEN @ ELSE Last(frame.said).part]
  IN IF decoder.phase = "new" \/ i \in decoder.seen THEN Throw(decoder)
     ELSE Return([decoder EXCEPT
                    !.seen = @ \cup {i},
                    !.items = [j \in DOMAIN @ \cup {i} |-> IF j = i THEN item ELSE @[j]]],
            <<[type |-> "content_start", index |-> i, block |-> frame.block]>>
              \o (IF frame.said = <<>> THEN <<>>
                  ELSE <<[type |-> "delta", index |-> i, said |-> frame.said]>>))

(* #activateTextPart(): the parts of a message follow one another.          *)
ActivateTextPart(item, part) ==
  IF item.block = "text" THEN [ok |-> part >= item.last, last |-> part]
  ELSE [ok |-> TRUE, last |-> item.last]

(* #decodeDelta(), #decodeFunctionArgumentsDelta()                          *)
DecodeDelta(decoder, frame) ==
  LET i == frame.index
      item == decoder.items[i]
      part == ActivateTextPart(item, Head(frame.said).part)
  IN IF i \notin DOMAIN decoder.items THEN Throw(decoder)
     ELSE IF ~part.ok THEN Throw(decoder)
     ELSE Return([decoder EXCEPT !.items[i].text = @ \o frame.said,
                                 !.items[i].last = part.last],
                 <<[type |-> "delta", index |-> i, said |-> frame.said]>>)

(* response.refusal.delta: kept until the item is done.                     *)
DecodeRefusal(decoder, frame) ==
  LET i == frame.index
  IN IF i \notin DOMAIN decoder.items THEN Throw(decoder)
     ELSE IF decoder.items[i].block # "text" THEN Throw(decoder)
     ELSE Return([decoder EXCEPT !.items[i].refusal = @ \o frame.said], <<>>)

(* #assertDoneItemMatches(): the item repeats what was said to it.  agrees  *)
(* is whether the upstream repeats what it said itself.                     *)
DoneItemMatches(decoder, item, frame) ==
  /\ frame.agrees /\ ByPart(item.block, item.text) = item.text
  /\ item.block \in Calls =>
       MayEndWith(decoder.policy, item.block, item.text, frame.status = "incomplete")

(* #decodeItemDone()                                                        *)
DecodeItemDone(decoder, frame) ==
  LET i == frame.index
      open == [j \in DOMAIN decoder.items \ {i} |-> decoder.items[j]]
      refusal == decoder.items[i].refusal
  IN IF i \notin DOMAIN decoder.items THEN Throw(decoder)
     ELSE IF ~DoneItemMatches(decoder, decoder.items[i], frame) THEN Throw(decoder)
     ELSE Return([decoder EXCEPT !.items = open],
            (IF refusal = <<>> THEN <<>>
             ELSE <<[type |-> "delta", index |-> i, said |-> refusal]>>)
              \o <<[type |-> "content_stop", index |-> i, status |-> frame.status]>>)

(* #decodeCompleted(), #decodeIncomplete(): no item may be open.            *)
DecodeTerminal(decoder, frame) ==
  IF decoder.phase = "new" \/ decoder.items # <<>> THEN Throw(decoder)
  ELSE Return([decoder EXCEPT !.phase = "terminal"],
              <<[type |-> "response_complete", usage |-> frame.usage, searches |-> 0,
                 finish |-> frame.finish]>>)

(* #decodeFailure()                                                         *)
DecodeFailure(decoder) ==
  IF decoder.phase = "new" THEN Throw(decoder)
  ELSE Return([decoder EXCEPT !.phase = "terminal"], <<[type |-> "response_error"]>>)

(* decode(): nothing but [DONE] may follow the terminal event.              *)
Decode(decoder, frame) ==
  IF frame.type = "done" /\ decoder.phase = "terminal" THEN Return(decoder, <<>>)
  ELSE IF decoder.phase = "terminal" \/ frame.type = "done" THEN Throw(decoder)
  ELSE CASE frame.type = "created"   -> DecodeCreated(decoder)
         [] frame.type = "added"     -> DecodeItemAdded(decoder, frame)
         [] frame.type = "delta"     -> DecodeDelta(decoder, frame)
         [] frame.type = "refusal"   -> DecodeRefusal(decoder, frame)
         [] frame.type = "item_done" -> DecodeItemDone(decoder, frame)
         [] frame.type = "completed" -> DecodeTerminal(decoder, frame)
         [] frame.type = "error"     -> DecodeFailure(decoder)
         [] frame.type = "ignored"   -> Return(decoder, <<>>)
         [] frame.type = "invalid"   -> Throw(decoder)

(* finish(): the end of the upstream's stream is no end of the answer.      *)
Finish(decoder) ==
  IF decoder.phase = "terminal" THEN Return(decoder, <<>>) ELSE Throw(decoder)
=============================================================================
