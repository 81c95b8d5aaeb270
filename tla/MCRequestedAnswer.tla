--------------------------- MODULE MCRequestedAnswer ---------------------------
(* Requests with up to three declarations of nine tools, two of which have  *)
(* names that are not theirs to take.                                       *)
EXTENDS MCStreamedAnswer, RequestedAnswer

Name(word) == <<word>>

MCWebSearch == Name("web_search")
MCInternal == Name("internal")
MCProper == {Name("exec"), Name("tool_search"), MCWebSearch}

Tool(type, name, group) == [type |-> type, name |-> name, group |-> group]

Exec == Tool("custom", Name("exec"), NoGroup)
Search == Tool("web_search", MCInternal, NoGroup)

MCTools ==
  {Tool("function", Name("exec"), NoGroup), Tool("function", Name("exec"), "group"),
   Exec, Tool("custom", Name("exec"), "group"), Tool("tool_search", Name("tool_search"), NoGroup),
   Search, Tool("custom", MCWebSearch, NoGroup), Tool("function", Alias(Exec), NoGroup),
   Tool("function", MCInternal, NoGroup)}

Declare(tool, version) ==
  [type |-> tool.type, name |-> tool.name, group |-> tool.group, version |-> version]

MCDeclarations ==
  {<<>>} \cup {<<Declare(t, 1)>> : t \in MCTools}
    \cup {<<Declare(t, 1), Declare(u, 2)>> : t, u \in MCTools}

MCInputs ==
  {<<>>} \cup {<<[type |-> "tools", tools |-> <<Declare(t, 3)>>]>> : t \in MCTools}
    \cup {<<[type |-> "call", of |-> t]>> : t \in MCTools \ {Search}}

ToolChoice(choice, only, mode) == [choice |-> choice, only |-> only, mode |-> mode]

MCChoices ==
  {ToolChoice(<<>>, FALSE, "auto"), ToolChoice(<<>>, FALSE, "required"),
   ToolChoice(<<Exec, Search>>, TRUE, "required")}
    \cup {ToolChoice(<<t>>, FALSE, "auto") : t \in MCTools}

MCToolRequests ==
  {[tools |-> tools, input |-> input, choice |-> c.choice, only |-> c.only, mode |-> c.mode] :
     tools \in MCDeclarations, input \in MCInputs, c \in MCChoices}
=============================================================================
