----------------------------- MODULE MCToolPlane -----------------------------
(***************************************************************************)
(* Two files that share a stem, six tools (one of them with a comma in its *)
(* name and one that is a comma, as nothing forbids a manifest or a        *)
(* workflow), and one content for each way an agent is declared.           *)
(***************************************************************************)
EXTENDS ToolPlane, TLC

CONSTANTS f1, f2

MCFile == {f1, f2}
MCTool == {"read", "send", "get, sort", "get", "sort", ","}
MCParts ==
    [t \in MCTool |-> CASE t = "get, sort" -> {"get", "sort"} [] t = "," -> {} [] OTHER -> {t}]
MCStem == [f \in MCFile |-> <<"agent">>]
MCSegment ==
    [n \in UNION {[1 .. k -> {"agent", "mail", "reader", "sender", "actor"}] : k \in 1 .. 2} |-> n]

Declared(format, name, tools) == [format |-> format, name |-> name, tools |-> tools]
Python(agents, tools) == [format |-> "python", agents |-> agents, tools |-> tools]
Member(role, tools) == [role |-> role, tools |-> tools]

Both == {"read", "send"}

MCContents ==
    {Declared("mcp", <<"mail">>, {",", "send"}),
     Declared("n8n", <<"mail">>, {"get, sort", "send"}),
     Python(<<Member(<<"reader">>, {"read"}), Member(<<"sender">>, {"send"})>>, Both),
     Python(<<Member(NoName, Both), Member(NoName, Both)>>, {}),
     [format |-> "js", tools |-> Both]}

MCLabels ==
    {[t \in MCTool |-> IF t = "send" THEN "sink" ELSE "source"],
     [t \in MCTool |-> IF t = "send" THEN "source" ELSE "sink"]}

MCExclusions == {{}, {f1}, {f2}}

Perms == Permutations(MCFile)
=============================================================================
