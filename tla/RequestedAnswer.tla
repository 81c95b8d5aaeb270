---------------------------- MODULE RequestedAnswer ----------------------------
(***************************************************************************)
(* StreamedAnswer from the beginning: a Responses request is decoded, and   *)
(* the tools it declares (ToolNames) decide what the upstream is asked and  *)
(* whether its calls have to be restored, or it is refused.                 *)
(***************************************************************************)
EXTENDS StreamedAnswer, ToolNames

CONSTANT
  ToolRequests          \* what Responses clients declare, call and choose

VARIABLE
  asked                 \* the request until it is decoded

Decoded == [tools |-> <<>>]

(* tool_choice as the search loop knows it.                                 *)
ChoiceOf(tools) ==
  IF tools.choice = <<>> \/ tools.only THEN tools.mode
  ELSE IF IsSearch(tools.choice[1]) THEN "search" ELSE "other"

(* Whether a request is what decoding the tools results in.                 *)
ResultsIn(tools, r) ==
  LET s == Normalized(tools)
      searches == {k \in DOMAIN Sent(s, tools) : IsSearch(Identity(Sent(s, tools)[k].of))}
  IN  /\ r.search = (searches # {})
      /\ r.others = (searches # DOMAIN Sent(s, tools))
      /\ r.bound = (Bindings(s) # {})
      /\ r.choice = ChoiceOf(tools)

(* decodeResponsesRequest(); a request that is not accepted is answered     *)
(* with an error before the upstream is asked.                              *)
DecodeRequest ==
  /\ asked # Decoded /\ asked' = Decoded
  /\ IF Accepted(Normalized(asked), asked)
       THEN ResultsIn(asked, request) /\ UNCHANGED <<client, stage>>
       ELSE client' = Receive(client, Error) /\ stage' = "done"
  /\ UNCHANGED <<request, decoder, encoder, loop, out, upstream, held>>

RequestedInit ==
  /\ Init
  /\ asked \in IF request.client = "responses" THEN ToolRequests ELSE {Decoded}

RequestedNext == DecodeRequest \/ (asked = Decoded /\ Next /\ UNCHANGED asked)

RequestedSpec == RequestedInit /\ [][RequestedNext]_<<vars, asked>>

(* Whatever tools a client declares, before the input or in it, and however *)
(* names collide, those of a request that is accepted can be told apart     *)
(* upstream, and the client gets calls of what it declared last             *)
(* (docs/compatibility.md:100).                                             *)
ToolsComeBack ==
  asked # Decoded /\ Accepted(Normalized(asked), asked) => AllComeBack(asked)
=============================================================================
