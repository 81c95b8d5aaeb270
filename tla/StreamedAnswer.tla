---------------------------- MODULE StreamedAnswer ----------------------------
(***************************************************************************)
(* Streamed answers of the gateway: a client of one protocol (ClientStream) *)
(* asks an upstream of one protocol, perhaps with web searches              *)
(* (CompletionStream).  Here are the handlers' ends, what can break them,   *)
(* and what their clients may rely on.                                      *)
(***************************************************************************)
EXTENDS CompletionStream

CONSTANTS
  ClientRequests,       \* what clients ask for
  Frames,               \* frames of an upstream, by protocol, without their tokens
  MaxFrames             \* bound: frames of the upstream in all, by client and protocol

(* A frame is written.                                                      *)
Write ==
  /\ out # <<>> /\ Head(out).event # "exception"
  /\ client' = Receive(client, Head(out)) /\ out' = Tail(out)
  /\ UNCHANGED <<request, decoder, encoder, loop, stage, upstream, held>>

(* A Responses handler needs a terminal event, unless it told of an error.  *)
LacksEnd == request.client = "responses" /\ client.phase \notin {"stopped", "error"}

(* Everything is written.  What was held back is sent, and then the handler *)
(* returns.                                                                 *)
Conclude ==
  /\ stage = "ending" /\ out = <<>> /\ held' = <<>>
  /\ out' = IF held = <<>> /\ LacksEnd THEN <<Exception("handler")>> ELSE held
  /\ stage' = IF held = <<>> /\ ~LacksEnd THEN "done" ELSE stage
  /\ UNCHANGED <<request, decoder, encoder, loop, client, upstream>>

(* What was thrown is caught when everything before it has been written.    *)
Catch ==
  /\ out # <<>> /\ Head(out).event = "exception"
  /\ out' = <<>> /\ stage' = "failed"
  /\ UNCHANGED <<request, decoder, encoder, loop, client, upstream, held>>

(* The upstream refuses the request or breaks off, the search provider      *)
(* fails, a timeout fires or the client disconnects.  Nothing is awaited    *)
(* between the last frame and the handler's return.                         *)
Break ==
  /\ stage \in {"asking", "reading", "searching", "ending"}
  /\ ~(stage = "ending" /\ client.phase = "stopped")
  /\ out' = <<>> /\ stage' = "failed"
  /\ \E gone \in BOOLEAN : client' = [client EXCEPT !.gone = gone]
  /\ UNCHANGED <<request, decoder, encoder, loop, upstream, held>>

(* Mutant of Report: once the answer has begun, it just ends.               *)
ReportEarly ==
  /\ stage = "failed" /\ stage' = "done"
  /\ IF client.gone \/ client.phase # "idle" THEN UNCHANGED client
     ELSE client' = Receive(client, Error)
  /\ UNCHANGED <<request, decoder, encoder, loop, out, upstream, held>>

(* The client is told of the error, by a reply of its own before anything   *)
(* was sent, unless the connection is lost or has to be destroyed.          *)
Report ==
  /\ stage = "failed" /\ stage' = "done"
  /\ IF client.gone THEN UNCHANGED client
     ELSE \/ client' = Receive(client, Error)
          \/ client' = [client EXCEPT !.gone = TRUE]
  /\ UNCHANGED <<request, decoder, encoder, loop, out, upstream, held>>

Init ==
  /\ \E r \in ClientRequests :
       request = Prepare(r) /\ loop = NewLoop(r.search)
  /\ decoder = NewDecoder(request) /\ encoder = NewEncoder(request)
  /\ out = <<>> /\ held = <<>> /\ stage = "asking"
  /\ client = NewClient
  /\ upstream = [blocks |-> <<>>, usage |-> [r \in 0 .. MaxRounds - 1 |-> 0],
                 finish |-> None, frames |-> 0]

Next ==
  \/ /\ upstream.frames < MaxFrames[request.client][request.protocol]
     /\ \E frame \in Frames[request.protocol] : Read(Spoken(frame))
  \/ NoRoute \/ EndOfStream
  \/ SearchStart \/ \E results \in {"results", "nothing"} : SearchResult(results)
  \/ Skip \/ NextRound \/ Write \/ Conclude \/ Catch \/ Break \/ Report

Spec == Init /\ [][Next]_vars

-----------------------------------------------------------------------------
Open == {i \in DOMAIN client.blocks : client.blocks[i].open}

Message == INSTANCE AnthropicMessage WITH
  Error <- "error", phase <- client.phase, started <- DOMAIN client.blocks, open <- Open,
  last <- client.last

Response == INSTANCE ResponsesAnswer WITH
  phase <- client.phase, started <- DOMAIN client.blocks, open <- Open,
  frames <- client.frames, last <- client.last

Completion == INSTANCE ChatAnswer WITH
  phase <- client.phase, tools <- {i \in DOMAIN client.blocks : i >= 0}, last <- client.last

(* What a client receives is an answer as its protocol has it, through all  *)
(* rounds and searches: blocks counted through from 0, none opened twice,   *)
(* written to while closed or left open at the end, frames of a response    *)
(* numbered without gaps, and nothing but an error behind an error.         *)
KeepsOrder ==
  /\ Message!Init /\ Response!Init /\ Completion!Init
  /\ [][\/ client'.gone /\ UNCHANGED client.last
        \/ request.client = "messages" /\ Message!Next
        \/ request.client = "responses" /\ Response!Next
        \/ request.client = "chat" /\ Completion!Next]_client

(* What a client should have of a block of the upstream's.                  *)
Shown(heard) ==
  CASE heard.block # "search" -> <<[block |-> heard.block, text |-> heard.text]>>
    [] heard.block = "search" /\ request.client = "messages" ->
         <<[block |-> "server_tool_use", text |-> heard.text],
           [block |-> heard.results, text |-> <<>>]>>
    [] heard.block = "search" /\ request.client = "responses" ->
         <<[block |-> "web_search_call", text |-> heard.text]>>

(* By the index it should have: the first one's is 0, unless it is a field  *)
(* of a Chat message.                                                       *)
Expected ==
  IF request.client = "chat"
    THEN LET calls == SelectSeq(upstream.blocks, LAMBDA heard : heard.block \in Calls)
             prose == {i \in DOMAIN upstream.blocks : upstream.blocks[i].block \notin Calls}
             At(field) == CHOOSE i \in prose : Chat!Field(upstream.blocks[i].block) = field
         IN [k \in 0 .. Len(calls) - 1 \cup {Chat!Field(upstream.blocks[i].block) : i \in prose} |->
               IF k >= 0 THEN calls[k + 1] ELSE upstream.blocks[At(k)]]
  ELSE LET shown == FlattenSeq([i \in DOMAIN upstream.blocks |-> Shown(upstream.blocks[i])])
       IN [k \in 0 .. Len(shown) - 1 |-> shown[k + 1]]

(* What a client knows of a block: a search's query and the arguments of a  *)
(* tool search are in the item only.                                        *)
Known(k) ==
  IF k \in DOMAIN client.items /\ client.blocks[k].block \in Deferred \cup {"web_search_call"}
    THEN client.items[k].text ELSE client.blocks[k].text

(* The client's blocks are those the upstream made in all rounds, without   *)
(* the calls of the internal tool, and the searches where they were made:   *)
(* each of the kind it was, each with what was said to it and nothing else. *)
ReadsWhatWasSaid ==
  \A k \in DOMAIN client.blocks :
    /\ k \in DOMAIN Expected
    /\ client.blocks[k].block = Expected[k].block
    /\ IsPrefix(Known(k), Expected[k].text)

(* The output at the end of a response is what the client was shown before: *)
(* the items that were done, in order, with the text of their deltas.       *)
OutputWasShown ==
  /\ Len(client.output) = Cardinality(DOMAIN client.blocks)
  /\ \A i \in DOMAIN client.output :
       /\ client.output[i] = client.items[i - 1]
       /\ client.output[i].text = Known(i - 1)

(* An answer that came to its end is whole: the upstream had finished the   *)
(* last round in the way the client is told, the client has all that was    *)
(* said, and the output which the gateway remembers and the client sends    *)
(* back is just that.                                                       *)
EndedIsWhole ==
  client.phase = "stopped" =>
    /\ client.finish = upstream.finish /\ upstream.finish # None
    /\ \A k \in DOMAIN Expected :
         IF k \in DOMAIN client.blocks THEN Known(k) = Expected[k].text
         ELSE request.client = "chat" /\ Expected[k].text = <<>>
    /\ request.client = "responses" => OutputWasShown

(* What the decoders and the search loop make of an upstream's answer, the  *)
(* encoders can encode: the gateway never fails because its own parts       *)
(* disagree on what is open, started or complete, and only arguments that   *)
(* are not those of a bound tool are turned down on the client's side.      *)
PartsAgree ==
  \A i \in DOMAIN out : out[i].event = "exception" => out[i].by \notin {"encoder", "handler"}

(* A call that a client may carry out is whole: nothing that was cut short  *)
(* passes for a call of a custom tool or a tool search, and a function's    *)
(* arguments are cut short only where the item says so.  (The Chat handler  *)
(* leaves arguments to its client.)                                         *)
CallsAreWhole ==
  \A k \in DOMAIN client.blocks :
    LET call == client.blocks[k].block
    IN request.client # "chat" /\ call \in Calls /\ ~client.blocks[k].open =>
         /\ request.bound => Tools!Restored(call, Known(k))
         /\ \/ IsJsonObject(Known(k))
            \/ k \in DOMAIN client.items /\ client.items[k].status = "incomplete"

(* The usage the client is told is what the upstream reported last in every *)
(* round, added up, and as many searches as the client was shown, which are *)
(* no more than it allowed.                                                 *)
UsageAddsUp ==
  client.phase \in {"closing", "stopped"} =>
    LET uses == {i \in DOMAIN client.blocks :
                   client.blocks[i].block \in {"server_tool_use", "web_search_call"}}
    IN  /\ client.usage = FoldFunction(+, 0, upstream.usage)
        /\ request.client = "messages" => client.searches = Cardinality(uses)
        /\ loop.looping => Cardinality(uses) <= request.maxUses

(* No request forces a call that cannot be made, and none after the first   *)
(* forces a search again: the loop would not end.  The internal tool is     *)
(* offered only as long as a use is left.                                   *)
OffersWhatItServes ==
  /\ request.choice = "search" => request.search
  /\ request.choice = "required" => request.search \/ request.others
  /\ loop.round > 0 => request.choice \notin {"search", "required"}
  /\ stage \in {"asking", "reading"} /\ loop.looping /\ Exhausted => ~request.search

(* A call of the client's tools is answered by the client's next request:   *)
(* no search and no later round of the model follows it in the answer.      *)
ClientCallsAreLast ==
  \A i, j \in DOMAIN upstream.blocks :
    upstream.blocks[i].block \in Calls \ Searches =>
      /\ upstream.blocks[i].round = loop.round
      /\ upstream.blocks[j].round = loop.round => upstream.blocks[j].block # "search"

(* A client that is still there when the handler returns has been told how  *)
(* its request ended.                                                       *)
NeverCutShort ==
  stage = "done" /\ ~client.gone => client.phase \in {"stopped", "error"}

(* Except for a Messages client without web search, an answer that has come *)
(* to its end stays that way: the end is held back until the upstream's     *)
(* stream has ended well.                                                   *)
HeldEndIsLast ==
  [][(loop.looping \/ request.client # "messages") /\ client.phase = "stopped"
       => client'.phase = "stopped"]_vars

(* The Chat upstream is asked instead of the Responses upstream only if     *)
(* that has said nothing at all, whatever round it is, and the client has   *)
(* heard nothing: no answer is put together from two.                       *)
FallbackUnseen ==
  [][request'.protocol # request.protocol =>
       client = NewClient /\ upstream.frames = 0 /\ loop.round = 0]_vars

(* message_stop is the last event of a message (docs/compatibility.md:350). *)
MessageStopIsLast ==
  [][request.client = "messages" /\ client.phase = "stopped" => client'.phase = "stopped"]_vars
=============================================================================
