------------------------------- MODULE ToolNames -------------------------------
(***************************************************************************)
(* The tools of a Responses request: normalizeResponsesTools()              *)
(* (src/src/protocols/openai-responses/tool-compat.ts) turns custom tools,  *)
(* the client's tool search and tools in a namespace into functions under   *)
(* an alias, decodeResponsesRequest() (request-decode.ts) checks what comes *)
(* out, and ResponsesToolOutput finds the client's tool by the name the     *)
(* upstream calls.  Tools are declared before and within the input, calls   *)
(* and results of earlier turns among them.                                 *)
(***************************************************************************)
EXTENDS Integers, Sequences, SequencesExt

CONSTANTS
  NoGroup,              \* of a tool that is in no namespace
  WebSearch,            \* the name web_search, a sequence of one word
  Internal,             \* the name the gateway keeps for its web search
  Proper                \* names of letters, digits, underscores and hyphens

(* The tools of a namespace are declared one after the other, each with its *)
(* group; versions tell apart declarations of the same tool.                *)
Identity(tool) == [type |-> tool.type, name |-> tool.name, group |-> tool.group]

IsPlain(id) == id.type = "function" /\ id.group = NoGroup

(* A custom tool web_search stands for the gateway's own.                   *)
IsSearch(id) ==
  \/ id.type = "web_search"
  \/ id.type = "custom" /\ id.name = WebSearch /\ id.group = NoGroup

(* The hash of an identity, which no other has.                             *)
Alias(id) == <<"codex", id>>

UpstreamName(id) == IF IsPlain(id) THEN id.name ELSE Alias(id)

(* names says whose an upstream name is, definitions what goes upstream,    *)
(* calls the names under which earlier calls do.                            *)
Empty == [ok |-> TRUE, names |-> <<>>, definitions |-> <<>>, calls |-> <<>>]

(* Mutant of Free: a name is taken by whoever comes last.                   *)
FreeAlways(names, id) == TRUE

Free(names, id) ==
  UpstreamName(id) \in DOMAIN names => names[UpstreamName(id)] = id

(* bind()                                                                   *)
Bind(s, id) ==
  [s EXCEPT !.ok = @ /\ (IsPlain(id) \/ id.name \in Proper) /\ Free(s.names, id),
            !.names = (UpstreamName(id) :> id) @@ @]

(* A Map: a tool declared again takes the place of the earlier one.         *)
Define(s, key, tool) ==
  LET same == {k \in DOMAIN s.definitions : s.definitions[k].key = key}
      definition == [key |-> key, tool |-> tool]
  IN [s EXCEPT !.definitions =
        IF same = {} THEN Append(@, definition)
        ELSE [k \in DOMAIN @ |-> IF k \in same THEN definition ELSE @[k]]]

(* add(): a web search that is not a custom tool never replaces another.    *)
Add(s, tool) ==
  LET id == Identity(tool)
      builtin == [type |-> tool.type, number |-> Len(s.definitions)]
  IN CASE IsSearch(id) ->
            Define([s EXCEPT !.ok = @ /\ id.group = NoGroup],
                   IF id.type = "custom" THEN id ELSE builtin,
                   [name |-> Internal, of |-> tool])
       [] ~IsSearch(id) ->
            Define(Bind([s EXCEPT !.ok = @ /\ (id.type = "tool_search" => id.group = NoGroup)], id),
                   id, [name |-> UpstreamName(id), of |-> tool])

Called(s, name) == [s EXCEPT !.calls = Append(@, name)]

(* An item of the input: additional_tools and tool_search_output declare    *)
(* tools, a call names one.                                                 *)
AddItem(s, item) ==
  CASE item.type = "tools" -> FoldLeft(Add, s, item.tools)
    [] item.type = "call" /\ IsSearch(item.of) -> Called(s, Internal)
    [] item.type = "call" /\ ~IsSearch(item.of) -> Called(Bind(s, item.of), UpstreamName(item.of))

(* choice(): the tools the client wants used or, if it allows some only,    *)
(* those.                                                                   *)
Choose(s, id) == IF IsSearch(id) THEN s ELSE Bind(s, id)

Normalized(request) ==
  FoldLeft(Choose, FoldLeft(AddItem, FoldLeft(Add, Empty, request.tools), request.input),
           request.choice)

(* selectedTool()                                                           *)
Selected(s, id) ==
  {k \in DOMAIN s.definitions :
     LET tool == s.definitions[k].tool
     IN IF IsSearch(id) THEN IsSearch(Identity(tool.of))
        ELSE ~IsSearch(Identity(tool.of)) /\ tool.name = UpstreamName(id)}

(* decodeTools(), decodeToolChoice() and what follows them: no function has *)
(* the reserved name, there is one web search, and chosen tools exist.      *)
Accepted(s, request) ==
  LET Tool(k) == s.definitions[k].tool
      named == {k \in DOMAIN s.definitions : Tool(k).name = Internal}
  IN  /\ s.ok
      /\ \A k \in named : IsSearch(Identity(Tool(k).of)) /\ \A l \in named : k = l
      /\ \A i \in DOMAIN request.choice : Selected(s, request.choice[i]) # {}

(* The tools that go upstream.                                              *)
Sent(s, request) ==
  LET tools == [k \in DOMAIN s.definitions |-> s.definitions[k].tool]
      chosen == UNION {Selected(s, request.choice[i]) : i \in DOMAIN request.choice}
      kept == SelectSeq([k \in DOMAIN tools |-> k], LAMBDA k : k \in chosen)
  IN IF request.only THEN [k \in DOMAIN kept |-> tools[kept[k]]] ELSE tools

(* The names that are not those of their tools.                             *)
Bindings(s) ==
  {name \in DOMAIN s.names : name # s.names[name].name \/ s.names[name].type = "custom"}

(* ResponsesToolOutput: whose an upstream name is.                          *)
OwnerOf(s, name) ==
  IF name \in Bindings(s) THEN s.names[name]
  ELSE [type |-> "function", name |-> name, group |-> NoGroup]

-----------------------------------------------------------------------------
(* The declarations of a request in their order.                            *)
Declared(request) ==
  request.tools \o
    FlattenSeq([i \in DOMAIN request.input |->
      IF request.input[i].type = "tools" THEN request.input[i].tools ELSE <<>>])

Comes(s, name, id) == IF IsSearch(id) THEN name = Internal ELSE OwnerOf(s, name) = id

(* Of the tools of an accepted request, no two go upstream under one name;  *)
(* a call of any comes back as the tool the client declared; what is sent   *)
(* is its latest declaration, wherever in the request that is; all are sent *)
(* or, if only some are allowed, those; and an earlier call goes upstream   *)
(* under the name its tool has.                                             *)
AllComeBack(request) ==
  LET s == Normalized(request)
      sent == Sent(s, request)
      declared == Declared(request)
      calls == SelectSeq(request.input, LAMBDA item : item.type = "call")
      Wanted(id) == request.only => \E i \in DOMAIN request.choice :
                      request.choice[i] = id \/ (IsSearch(id) /\ IsSearch(request.choice[i]))
  IN /\ \A k, l \in DOMAIN sent : sent[k].name = sent[l].name => k = l
     /\ \A k \in DOMAIN sent :
          /\ Comes(s, sent[k].name, Identity(sent[k].of))
          /\ \E n \in DOMAIN declared :
               /\ declared[n] = sent[k].of
               /\ \A later \in n + 1 .. Len(declared) :
                    Identity(declared[later]) # Identity(sent[k].of)
     /\ \A n \in DOMAIN declared :
          (\E k \in DOMAIN sent : Identity(sent[k].of) = Identity(declared[n]))
            <=> Wanted(Identity(declared[n]))
     /\ \A i \in DOMAIN request.choice :
          \E k \in DOMAIN sent : Comes(s, sent[k].name, request.choice[i])
     /\ \A i \in DOMAIN calls : Comes(s, s.calls[i], calls[i].of)
=============================================================================
