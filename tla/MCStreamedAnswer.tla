--------------------------- MODULE MCStreamedAnswer ---------------------------
(* Answers of some frames to clients of each protocol, with and without web *)
(* searches and bound tools.                                                *)
EXTENDS StreamedAnswer

Token(kind, part) == [frame |-> 0, kind |-> kind, part |-> part]
Whole == <<Token("whole", 0)>>
Some == <<Token("part", 0)>>

(* A frame of a Chat upstream: what it says to whom, how it finishes the    *)
(* generation, and the usage it reports.                                    *)
Part(block, said) == [block |-> block, said |-> said]
Chunk(parts, finish, usage) ==
  [type |-> "chunk", parts |-> parts, finish |-> finish, usage |-> usage]

ChatFrames ==
  {[type |-> "done"], [type |-> "error"], [type |-> "invalid"],
   Chunk(<<>>, "stop", 2), Chunk(<<>>, None, 1),
   Chunk(<<Part("text", <<>>)>>, None, None),
   Chunk(<<Part("reasoning", Some), Part("text", Some)>>, None, None),
   Chunk(<<Part("text", Some)>>, "length", 1),
   Chunk(<<Part("s1", Some)>>, None, None),
   Chunk(<<Part("s1", Whole), Part("s2", Whole)>>, "stop", 1),
   Chunk(<<Part("t1", Some)>>, "length", None),
   Chunk(<<Part("c1", <<Token("odd", 0)>>)>>, "stop", None),
   Chunk(<<Part("q1", Whole), Part("c1", Whole)>>, "stop", None)}

(* Frames of a Responses upstream.                                          *)
Added(i, block, said) == [type |-> "added", index |-> i, block |-> block, said |-> said]
Delta(i, kind, part) == [type |-> "delta", index |-> i, said |-> <<Token(kind, part)>>]
Done(i, agrees, status) ==
  [type |-> "item_done", index |-> i, agrees |-> agrees, status |-> status]

ResponsesFrames ==
  {[type |-> "created"], [type |-> "done"], [type |-> "error"], [type |-> "ignored"],
   [type |-> "completed", finish |-> "stop", usage |-> 2],
   [type |-> "completed", finish |-> "length", usage |-> 1],
   Added(0, "text", <<>>), Added(0, "s1", Whole), Added(0, "t1", <<>>),
   Added(0, "c1", Some), Added(1, "text", Some), Added(1, "s2", Whole),
   Added(0, "q1", Some),
   Delta(0, "part", 1), Delta(0, "whole", 0), Delta(1, "whole", 0),
   [type |-> "refusal", index |-> 0, said |-> <<Token("part", 2)>>],
   Done(0, TRUE, "completed"), Done(0, TRUE, "incomplete"), Done(1, FALSE, "completed"),
   Done(1, TRUE, "completed")}

MCFrames == [protocol \in {"chat", "responses"} |->
               IF protocol = "chat" THEN ChatFrames ELSE ResponsesFrames]

MCMaxFrames ==
  [c \in {"messages", "responses", "chat"} |-> [p \in {"chat", "responses"} |->
     IF p = "responses" THEN 6 ELSE IF c = "chat" THEN 3 ELSE 4]]

Ask(clientProtocol, protocol, search, others, bound, choice, maxUses) ==
  [client |-> clientProtocol, protocol |-> protocol, search |-> search, others |-> others,
   bound |-> bound, choice |-> choice, maxUses |-> maxUses]

MCRequests ==
  {Ask("messages", "chat", FALSE, TRUE, FALSE, "auto", 0),
   Ask("messages", "chat", TRUE, FALSE, FALSE, "search", 0),
   Ask("messages", "chat", TRUE, TRUE, FALSE, "search", 1),
   Ask("messages", "responses", FALSE, TRUE, FALSE, "auto", 0),
   Ask("messages", "responses", TRUE, FALSE, FALSE, "required", 3),
   Ask("responses", "responses", TRUE, FALSE, FALSE, "required", 3),
   Ask("responses", "responses", FALSE, TRUE, TRUE, "auto", 0),
   Ask("responses", "chat", FALSE, TRUE, TRUE, "auto", 0),
   Ask("responses", "chat", TRUE, TRUE, TRUE, "required", 1),
   Ask("chat", "chat", FALSE, TRUE, FALSE, "auto", 0)}
=============================================================================
