--------------------------- MODULE CompletionStream ---------------------------
(***************************************************************************)
(* The upstream's side of a streamed answer: its frames are decoded         *)
(* (ChatStreamDecoder or ResponsesStreamDecoder), and several rounds of the *)
(* model with web searches between them become one answer                   *)
(* (streamCompletion() in src/src/upstream/completion-stream.ts and         *)
(* WebSearchSession); where there is no Responses upstream, the Messages    *)
(* handler asks the Chat upstream instead (src/src/app.ts).                 *)
(***************************************************************************)
EXTENDS ClientStream, FiniteSetsExt, Functions

CONSTANTS
  Prose,                \* blocks that are not tool calls
  MaxRounds             \* 8 in the code

ASSUME RoundsAssumption == MaxRounds \in Nat \ {0}

FromChat == INSTANCE ChatStreamDecoder
FromResponses == INSTANCE ResponsesStreamDecoder

VARIABLES
  decoder,
  loop,                 \* the locals of streamCompletion() and its session
  stage,                \* of the handler
  upstream              \* what was said and found; not in the code

vars == <<request, decoder, loop, stage, upstream, encoder, out, held, client>>

Stages == {"asking", "reading", "searching", "ending", "failed", "done"}

(* A request: its client and protocol; the tools offered, search for the    *)
(* internal one and others for the client's; choice, "auto", "required",    *)
(* "search" or "other", for tool_choice; maxUses of the search; whether the *)
(* client's custom tools and tool search are bound to functions.            *)

(* What each handler asks of the arguments of tool calls.                   *)
Policy(r) == [validate |-> r.client # "chat", lenient |-> r.client = "responses"]

NewDecoder(r) ==
  IF r.protocol = "chat" THEN FromChat!NewDecoder(Policy(r))
  ELSE FromResponses!NewDecoder(Policy(r))

Decode(frame) ==
  IF decoder.protocol = "chat" THEN FromChat!Decode(decoder, frame)
  ELSE FromResponses!Decode(decoder, frame)

Finish ==
  IF decoder.protocol = "chat" THEN FromChat!Finish(decoder) ELSE FromResponses!Finish(decoder)

(* visible are the indices of the round's contents in the answer, collected *)
(* the contents; completion is the response_complete held back, None before *)
(* it came; todo are the calls of a round still to be served, searching     *)
(* whether the first of them is under way; empty is allResultsEmpty.        *)
NewLoop(looping) ==
  [looping |-> looping, started |-> FALSE, yielded |-> FALSE, round |-> 0,
   visible |-> <<>>, collected |-> <<>>, next |-> 0, completion |-> None, todo |-> <<>>,
   searching |-> FALSE, empty |-> TRUE, uses |-> 0, usage |-> 0]

-----------------------------------------------------------------------------
(* The requests of the loop.                                                *)

(* disableInternalWebSearchTool()                                           *)
Disable(r) ==
  [r EXCEPT !.search = FALSE,
            !.choice = IF @ = "search" \/ (@ = "required" /\ ~r.others) THEN "auto" ELSE @]

(* Mutant of Release: only the choice of the internal tool is released.     *)
ReleaseSearch(r) == [r EXCEPT !.choice = IF @ = "search" THEN "auto" ELSE @]

(* releaseWebSearchToolChoice(): a search that was called for is made once. *)
Release(r) ==
  [r EXCEPT !.choice = IF @ \in {"search", "required"} THEN "auto" ELSE @]

(* WebSearchSession.prepare()                                               *)
Prepare(r) == IF r.search /\ r.maxUses = 0 THEN Disable(r) ELSE r

-----------------------------------------------------------------------------
(* Events on their way to the client.                                       *)

Pass(result, event) == [result EXCEPT !.events = Append(@, event)]

Set(indices, index, value) ==
  [i \in DOMAIN indices \cup {index} |-> IF i = index THEN value ELSE indices[i]]

(* Calls of the internal tool are hidden and the blocks of all rounds       *)
(* counted through.                                                         *)
RouteStart(result, event) ==
  LET collected == [result EXCEPT !.loop.collected = Set(@, event.index, event.block)]
  IN IF event.block \in Searches
       THEN [collected EXCEPT !.loop.visible = Set(@, event.index, None)]
     ELSE [Pass(collected, [event EXCEPT !.index = result.loop.next])
             EXCEPT !.loop.visible = Set(@, event.index, result.loop.next), !.loop.next = @ + 1]

(* Mutant of VisibleIndex: the index within the round is kept.              *)
VisibleIndexRaw(l, index) == IF l.visible[index] = None THEN None ELSE index

VisibleIndex(l, index) == l.visible[index]

(* The end of a round is held back.                                         *)
HoldBack(result, event) == [result EXCEPT !.loop.completion = event]

(* One round's event among those of the whole answer, which only the first  *)
(* round starts.                                                            *)
RouteEvent(result, event) ==
  CASE event.type = "response_start" ->
         IF result.loop.started THEN result
         ELSE [Pass(result, event) EXCEPT !.loop.started = TRUE]
    [] event.type = "response_complete" -> HoldBack(result, event)
    [] event.type = "content_start" -> RouteStart(result, event)
    [] event.type \in {"delta", "content_stop"} ->
         LET index == VisibleIndex(result.loop, event.index)
         IN IF index = None THEN result ELSE Pass(result, [event EXCEPT !.index = index])
    [] event.type = "response_error" -> Pass(result, event)

(* Without web search there is one round, passed on as it is.               *)
Route(l, events) ==
  LET routed == IF l.looping THEN FoldLeft(RouteEvent, [loop |-> l, events |-> <<>>], events)
                ELSE [loop |-> l, events |-> events]
  IN [routed EXCEPT !.loop.yielded = @ \/ routed.events # <<>>]

-----------------------------------------------------------------------------
(* What the upstream says, for the properties.                              *)

(* To which of its blocks a frame says what.                                *)
Parts(frame) ==
  CASE frame.type = "chunk" /\ decoder.phase # "finished" ->
         [i \in DOMAIN frame.parts |->
            [key |-> frame.parts[i].block, block |-> frame.parts[i].block,
             said |-> frame.parts[i].said]]
    [] frame.type = "added" ->
         <<[key |-> frame.index, block |-> frame.block, said |-> frame.said]>>
    [] frame.type \in {"delta", "refusal"} ->
         <<[key |-> frame.index, block |-> decoder.items[frame.index].block,
            said |-> frame.said]>>
    [] OTHER -> <<>>

IsOf(heard, part) == heard.round = loop.round /\ heard.key = part.key

Hear(heard, part) ==
  IF loop.looping /\ part.block \in Searches THEN heard
  ELSE LET known == \E i \in DOMAIN heard : IsOf(heard[i], part)
           blocks == IF known THEN heard
                     ELSE Append(heard, [round |-> loop.round, key |-> part.key,
                                         block |-> part.block, text |-> <<>>])
       IN [i \in DOMAIN blocks |->
             IF IsOf(blocks[i], part)
               THEN [blocks[i] EXCEPT !.text = FromResponses!ByPart(part.block, @ \o part.said)]
               ELSE blocks[i]]

Heard(frame) ==
  [upstream EXCEPT
     !.blocks = FoldLeft(Hear, @, Parts(frame)),
     !.usage = IF frame.type \notin {"chunk", "completed"} THEN @
               ELSE IF frame.usage = None THEN @ ELSE [@ EXCEPT ![loop.round] = frame.usage],
     !.finish = IF frame.type \notin {"chunk", "completed"} THEN @
                ELSE IF frame.finish = None THEN @ ELSE frame.finish,
     !.frames = @ + 1]

(* What a frame says is known by the number of the frame.                   *)
Spoken(frame) ==
  LET Numbered(said) == [i \in DOMAIN said |->
        [frame |-> upstream.frames, kind |-> said[i].kind, part |-> said[i].part]]
  IN CASE frame.type = "chunk" ->
            [frame EXCEPT !.parts = [i \in DOMAIN @ |-> [@[i] EXCEPT !.said = Numbered(@)]]]
       [] frame.type \in {"added", "delta", "refusal"} -> [frame EXCEPT !.said = Numbered(@)]
       [] OTHER -> frame

-----------------------------------------------------------------------------
(* The steps.                                                               *)

(* An upstream numbers its items one after the other (or repeats itself).   *)
InSequence(frame) == frame.type = "added" => frame.index <= Cardinality(decoder.seen)

(* Where the handler returns after an error of the upstream.                *)
StopsAtError == loop.looping \/ request.client # "messages"

(* decodeRound() receives a frame.                                          *)
Read(frame) ==
  LET result == Decode(frame)
      routed == Route(loop, result.events)
      failed == frame.type = "error" /\ StopsAtError
  IN  /\ stage \in {"asking", "reading"} /\ out = <<>> /\ InSequence(frame)
      /\ decoder' = result.decoder /\ loop' = routed.loop
      /\ IF result.ok
           THEN /\ Emit(routed.events)
                /\ stage' = IF failed THEN "ending" ELSE "reading"
                /\ upstream' = Heard(frame)
           ELSE /\ Throw /\ stage' = "reading"
                /\ upstream' = [upstream EXCEPT !.frames = @ + 1]
      /\ UNCHANGED <<request, client>>

(* Mutant of FallsBack: whatever was heard before.                          *)
FallsBackAlways == request.client = "messages" /\ request.protocol = "responses"

(* Only the Messages handler falls back, and only before the first event.   *)
FallsBack ==
  request.client = "messages" /\ request.protocol = "responses" /\ ~loop.yielded

(* The upstream has no such route: shouldFallbackToChat().                  *)
NoRoute ==
  /\ stage = "asking" /\ out = <<>>
  /\ IF FallsBack
       THEN /\ request' = [request EXCEPT !.protocol = "chat"]
            /\ decoder' = NewDecoder(request')
            /\ loop' = NewLoop(request.search)
            /\ EmitNothing
       ELSE Throw /\ UNCHANGED <<request, decoder, loop>>
  /\ UNCHANGED <<stage, upstream, client>>

(* Mutant of MixedCalls: searches are made whoever else was called.         *)
MixedCallsNever(l) == FALSE

(* The calls a round made, and whether the client's tools are among them.   *)
MixedCalls(l) == \E i \in DOMAIN l.collected : l.collected[i] \in Calls \ Searches

CalledSearches(l) ==
  LET indices == SetToSortSeq({i \in DOMAIN l.collected : l.collected[i] \in Searches}, <)
  IN  [i \in DOMAIN indices |-> l.collected[indices[i]]]

(* Mutant of Advanced: the usage is that of the last round.                 *)
AdvancedLast(l) == [l EXCEPT !.usage = l.completion.usage]

(* advance() adds up the usage of the rounds.                               *)
Advanced(l) == [l EXCEPT !.usage = @ + l.completion.usage]

(* The upstream's stream has ended.  A round without calls of the internal  *)
(* tool is the last, and its end becomes that of the answer.                *)
EndOfStream ==
  LET result == Finish
      routed == Route(loop, result.events)
      called == CalledSearches(routed.loop)
      advanced == Advanced(routed.loop)
      complete == [advanced.completion EXCEPT !.usage = advanced.usage, !.searches = loop.uses]
  IN  /\ stage \in {"asking", "reading"} /\ out = <<>>
      /\ decoder' = result.decoder
      /\ \/ /\ ~result.ok
            /\ Throw /\ UNCHANGED <<loop, stage>>
         \/ /\ result.ok /\ ~loop.looping
            /\ Emit(routed.events)
            /\ stage' = "ending" /\ loop' = routed.loop
         \/ /\ result.ok /\ loop.looping /\ called = <<>>
            /\ Emit(<<complete>>)
            /\ stage' = "ending" /\ loop' = advanced
         \/ /\ result.ok /\ loop.looping /\ called # <<>> /\ MixedCalls(routed.loop)
            /\ Throw /\ loop' = advanced /\ UNCHANGED stage
         \/ /\ result.ok /\ loop.looping /\ called # <<>> /\ ~MixedCalls(routed.loop)
            /\ stage' = "searching"
            /\ loop' = [advanced EXCEPT !.todo = called, !.empty = TRUE]
            /\ EmitNothing
      /\ UNCHANGED <<request, client, upstream>>

-----------------------------------------------------------------------------
(* advance(), once the calls are known, and the next round.                 *)

Exhausted == loop.uses >= request.maxUses

Serving == stage = "searching" /\ out = <<>> /\ loop.todo # <<>>

(* web_search_start: the provider is asked.                                 *)
SearchStart ==
  /\ Serving /\ ~loop.searching /\ ~Exhausted
  /\ Emit(<<[type |-> "web_search_start", query |-> Head(loop.todo)]>>)
  /\ loop' = [loop EXCEPT !.searching = TRUE]
  /\ upstream' = [upstream EXCEPT !.blocks = Append(@,
       [round |-> loop.round, key |-> None, block |-> "search",
        text |-> Query(Head(loop.todo)), results |-> None])]
  /\ UNCHANGED <<request, decoder, stage, client>>

(* The provider answers, perhaps with nothing of use.                       *)
SearchResult(results) ==
  /\ Serving /\ loop.searching
  /\ Emit(<<[type |-> "web_search_result", query |-> Head(loop.todo), results |-> results]>>)
  /\ loop' = [loop EXCEPT !.searching = FALSE, !.uses = @ + 1, !.todo = Tail(@),
                          !.empty = @ /\ results = "nothing"]
  /\ upstream' = [upstream EXCEPT !.blocks[Len(upstream.blocks)].results = results]
  /\ UNCHANGED <<request, decoder, stage, client>>

(* max_uses_exceeded                                                        *)
Skip ==
  /\ Serving /\ ~loop.searching /\ Exhausted
  /\ loop' = [loop EXCEPT !.todo = Tail(@)]
  /\ EmitNothing
  /\ UNCHANGED <<request, decoder, stage, client, upstream>>

(* The model is asked again, with the results and, unless nothing was found *)
(* or no use is left, with the tool.                                        *)
NextRound ==
  /\ stage = "searching" /\ out = <<>> /\ loop.todo = <<>>
  /\ request' = IF loop.empty \/ Exhausted THEN Disable(Release(request)) ELSE Release(request)
  /\ IF loop.round + 1 < MaxRounds
       THEN /\ stage' = "asking" /\ decoder' = NewDecoder(request)
            /\ loop' = [loop EXCEPT !.round = @ + 1, !.visible = <<>>, !.collected = <<>>,
                                    !.completion = None]
            /\ upstream' = [upstream EXCEPT !.finish = None]
            /\ EmitNothing
       ELSE Throw /\ UNCHANGED <<stage, decoder, loop, upstream>>
  /\ UNCHANGED client
=============================================================================
