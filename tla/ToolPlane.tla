------------------------------ MODULE ToolPlane ------------------------------
(***************************************************************************)
(* The tool plane, from a repository's agents to a fix a developer has     *)
(* applied: agents are discovered in the files that declare them           *)
(* (static/tools.py), a model labels their tools and filters the agents    *)
(* that hold a source and a sink (checks/tool_plane.py), `prove` stands    *)
(* one of them up (orchestrator.py), and `fix` analyses the tree afresh,   *)
(* writes the remediation the interview picked (fix/interview.py,          *)
(* fix/tool_plane_fix.py) and re-checks the graph it leaves                *)
(* (fix/reverify.py).  Every command reads the tree and asks the model     *)
(* again; the developer edits the tree between them.                       *)
(*                                                                         *)
(* A tool is a value, an agent's name a sequence of words, a file's text   *)
(* the record of what the parsers find in it.  A model's labels are one    *)
(* role per tool and pass.                                                 *)
(***************************************************************************)
EXTENDS Naturals, Sequences, FiniteSets

CONSTANTS
    File,        \* the source files of the repository
    Contents,    \* what a source file may hold
    Tool,        \* tool names
    Parts,       \* Parts[t]: what `t` in a comma-separated list is read back as
    Stem,        \* Stem[f]: the file's name without directory and suffix
    Segment,     \* Segment[n]: `safe_segment` of a scope's name
    Labels,      \* the labellings the model may give
    Exclusions,  \* the exclusion lists a caller may give
    NoName,      \* no literal name in the source
    None,        \* nothing there yet
    MaxSilent,   \* bound: agents the filter's answer leaves out
    MaxEdits,    \* bound: edits the developer makes
    MaxFixes     \* bound: fixes written

Role == {"source", "sink", "neither"}

ASSUME PartsAssumption ==
    /\ Parts \in [Tool -> SUBSET Tool]
    /\ Labels \subseteq [Tool -> Role]
    /\ Exclusions \subseteq SUBSET File
    /\ {MaxSilent, MaxEdits, MaxFixes} \subseteq Nat

\* What the parsers find in a file: the tools of an export with the name it
\* gives the agent, the crew and the tools of a Python file, the tools of a
\* JavaScript one.
Export(d) ==
    /\ d.format \in {"mcp", "flowise", "n8n"}
    /\ d = [format |-> d.format, name |-> d.name, tools |-> d.tools]
    /\ d.tools \subseteq Tool

PythonFile(d) ==
    /\ d.format = "python"
    /\ d = [format |-> "python", agents |-> d.agents, tools |-> d.tools]
    /\ d.tools \subseteq Tool
    /\ DOMAIN d.agents \subseteq Nat \ {0}
    /\ d.agents = [i \in DOMAIN d.agents |->
                    [role |-> d.agents[i].role, tools |-> d.agents[i].tools]]
    /\ \A i \in DOMAIN d.agents : d.agents[i].tools \subseteq Tool

ScriptFile(d) ==
    /\ d.format = "js"
    /\ d = [format |-> "js", tools |-> d.tools]
    /\ d.tools \subseteq Tool

ASSUME ContentsAssumption ==
    \A d \in Contents : Export(d) \/ PythonFile(d) \/ ScriptFile(d)

VARIABLES
    repo,      \* file -> what it holds; the files of fixes among them
    edits,     \* edits made so far
    fixes,     \* fixes written so far
    analysis,  \* the last analysis shown to the developer
    finding,   \* the last thing `prove` found
    fix        \* the last fix written, and what became of it

planevars == <<repo, edits, fixes, analysis, finding, fix>>

-----------------------------------------------------------------------------
(* Discovery. *)

AgentScope(name, file, at, tools, coded) ==
    [name |-> name, file |-> file, at |-> at, tools |-> tools, coded |-> coded]

Named(declared, f) ==
    IF declared = NoName THEN Stem[f] ELSE declared

\* An MCP manifest or a Flowise flow with no tool declares no agent.
parse_mcp_manifest(data, f) ==
    IF data.tools = {} THEN {}
    ELSE {AgentScope(Named(data.name, f), f, 0, data.tools, FALSE)}

parse_flowise_export(data, f) == parse_mcp_manifest(data, f)

\* An n8n workflow is an agent even when it has no node.
parse_n8n_export(data, f) == {AgentScope(Named(data.name, f), f, 0, data.tools, FALSE)}

\* One agent per file: every tool the file registers.
parse_langchain_python(data, f) ==
    IF data.tools = {} THEN {} ELSE {AgentScope(Stem[f], f, 0, data.tools, TRUE)}

parse_js_agent(data, f) == parse_langchain_python(data, f)

\* One agent per `Agent(...)` that lists tools; agents whose role is not a
\* literal share one name.
parse_crewai_python(data, f) ==
    {AgentScope(IF data.agents[i].role # NoName THEN data.agents[i].role
                ELSE Append(Stem[f], "agent"), f, i, data.agents[i].tools, TRUE) :
        i \in {j \in DOMAIN data.agents : data.agents[j].tools # {}}}

scopes_of(data, f) ==
    CASE data.format = "mcp" -> parse_mcp_manifest(data, f)
      [] data.format = "flowise" -> parse_flowise_export(data, f)
      [] data.format = "n8n" -> parse_n8n_export(data, f)
      [] data.format = "python" ->
            parse_crewai_python(data, f) \union parse_langchain_python(data, f)
      [] data.format = "js" -> parse_js_agent(data, f)
      [] OTHER -> {}

discover_scopes(tree, exclude) ==
    UNION {scopes_of(tree[f], f) : f \in DOMAIN tree \ exclude}

-----------------------------------------------------------------------------
(* Analysis. *)

sources(s, label) == {t \in s.tools : label[t] = "source"}
sinks(s, label) == {t \in s.tools : label[t] = "sink"}

colocated_scopes(found, label) ==
    {s \in found : sources(s, label) # {} /\ sinks(s, label) # {}}

\* `source` and `sink` are the joined names of the tools; `at` tells agents of
\* one name and file apart and is not in the code's record.
ScopeCandidate(s, label) ==
    [scope |-> s.name, file |-> s.file, coded |-> s.coded, at |-> s.at,
     source |-> sources(s, label), sink |-> sinks(s, label)]

\* The handle of a candidate: where it is, its title and the sinks it reaches.
id(c) == <<c.file, c.scope, c.sink>>

\* Fault: the scopes a short answer says nothing of are cut off by the zip.
AnswerCutShort(answered, colocated, refused) == answered \ refused

\* The model may answer for fewer scopes than it was asked about: the rest
\* are kept.
filter_scopes_explained(answered, colocated, refused) ==
    colocated \ (answered \intersect refused)

NoAnalysis == [candidates |-> {}, dropped |-> {}, gap |-> FALSE,
               colocated |-> {}, edited |-> {}]

\* What one pass may return: nothing, without a model or when it fails while
\* labelling, which is a gap.  `colocated` and `edited` (history) are the agents
\* the pass paired, and the files written since.
analyze_tool_plane(tree, exclude) ==
    LET found == discover_scopes(tree, exclude)
        Pass(label, answered, refused) ==
            LET colocated == colocated_scopes(found, label)
                kept == filter_scopes_explained(answered, colocated, refused)
            IN [candidates |-> {ScopeCandidate(s, label) : s \in kept},
                dropped |-> {s.name : s \in answered \intersect refused},
                gap |-> FALSE, colocated |-> colocated, edited |-> {}]
        Passes(label) ==
            LET colocated == colocated_scopes(found, label)
            IN UNION {{Pass(label, answered, refused) : refused \in SUBSET answered} :
                        answered \in {a \in SUBSET colocated :
                                        Cardinality(colocated \ a) <= MaxSilent}}
    IN {NoAnalysis, [NoAnalysis EXCEPT !.gap = TRUE]} \union UNION {Passes(label) : label \in Labels}

Analyze ==
    \E exclude \in Exclusions :
        \E result \in analyze_tool_plane(repo, exclude) : analysis' = result
    /\ finding' = None
    /\ fix' = None
    /\ UNCHANGED <<repo, edits, fixes>>

-----------------------------------------------------------------------------
(* Proof. *)

\* Fault: an agent is looked up by its name alone.
ScopeForByName(c, found) == {s \in found : s.name = c.scope}

\* The agents a candidate names; the first of them is the one stood up.
scope_for(c, found) == {s \in found : s.name = c.scope /\ s.file = c.file}

\* `prove` discovers and labels the agents again, without the exclusions.  A
\* candidate whose agent is gone, coded or without a sink, or that no model
\* drives, is reported; on the others the sandbox decides.
ProveToolPlane(c) ==
    /\ \/ \E label \in Labels, status \in {"PROVEN", "NOT_REPRODUCED"} :
            \E s \in scope_for(c, discover_scopes(repo, {})) :
               /\ ~s.coded
               /\ sinks(s, label) # {}
               /\ finding' = [candidate |-> c, status |-> status, agent |-> s]
       \/ finding' = [candidate |-> c, status |-> "REPORTED", agent |-> None]
    /\ UNCHANGED <<repo, edits, fixes, analysis, fix>>

-----------------------------------------------------------------------------
(* The fix. *)

\* The four leaves of the interview.  An answer left out matches nothing.
resolve_tool_plane_fix(a) ==
    CASE a.needs_both = "no" -> "scope_split"
      [] a.needs_both # "no" /\ a.human_available = "yes" -> "mediation"
      [] a.needs_both # "no" /\ a.human_available # "yes" /\ a.latency_ok = "yes" ->
            "sink_confirmation"
      [] OTHER -> "provenance"

Answer == [needs_both: {"yes", "no"}, human_available: {"yes", "no"},
           latency_ok: {"yes", "no"}]

\* The names a fix reads back out of the joined ones.
ReadBack(tools) == UNION {Parts[t] : t \in tools}

manifest_path(c, suffix) == <<Segment[c.scope], suffix>>

manifest(name, tools) == [format |-> "mcp", name |-> name, tools |-> tools]

scope_split(c) ==
    [p \in {manifest_path(c, "reader"), manifest_path(c, "actor")} |->
        IF p = manifest_path(c, "reader")
        THEN manifest(Append(c.scope, "reader"), ReadBack(c.source))
        ELSE manifest(Append(c.scope, "actor"), ReadBack(c.sink))]

\* The three other fixes write one file that names what it guards.
gate(c, suffix, marks) ==
    [p \in {manifest_path(c, suffix)} |->
        [format |-> "gate", sinks |-> ReadBack(c.sink), marks |-> marks]]

generate_tool_plane_fix(c, remediation) ==
    CASE remediation = "scope_split" -> scope_split(c)
      [] remediation = "mediation" -> gate(c, "mediated", ReadBack(c.source))
      [] remediation = "sink_confirmation" -> gate(c, "confirmed", ReadBack(c.source))
      [] remediation = "provenance" -> gate(c, "provenance", ReadBack(c.source))

pairs(s, c) ==
    /\ s.tools \intersect ReadBack(c.source) # {}
    /\ s.tools \intersect ReadBack(c.sink) # {}

\* The graph before: the tree's agents but those of overwritten files, or,
\* with no tree given, the candidate's own agent.
Before(c, new, given, tree) ==
    IF given
    THEN {s \in discover_scopes(tree, {}) : s.file \notin DOMAIN new}
    ELSE {AgentScope(c.scope, c.file, 0, ReadBack(c.source \union c.sink), FALSE)}

Added(new) == UNION {scopes_of(new[p], p) : p \in DOMAIN new}

\* Fault: every agent of the name is retired, whatever file declares it.
RetiredByName(c, remediation, new, found) ==
    IF remediation = "scope_split" /\ Added(new) # {}
    THEN {s \in found : s.name # c.scope}
    ELSE found

\* Fault: the agent a split replaces stays in the graph.
RetiredNever(c, remediation, new, found) == found

\* A split retires the agent it replaces.
Retired(c, remediation, new, found) ==
    IF remediation = "scope_split" /\ Added(new) # {}
    THEN {s \in found : ~(s.name = c.scope /\ s.file = c.file)}
    ELSE found

Gates(new) == {new[p] : p \in {q \in DOMAIN new : new[q].format = "gate"}}

Covered(c, gates) ==
    /\ ReadBack(c.sink) \subseteq UNION {g.sinks : g \in gates}
    /\ \A g \in gates : ReadBack(c.source) \subseteq g.marks

reverify_tool_plane(c, remediation, new, given, tree) ==
    LET kept == Retired(c, remediation, new, Before(c, new, given, tree))
        original == {s \in kept : s.name = c.scope}
        gated == Gates(new) # {} /\ Covered(c, Gates(new))
        paired == \E s \in original : pairs(s, c)
        relocated == {s \in (kept \ original) \union Added(new) : pairs(s, c)}
        passed == (paired => gated) /\ relocated = {}
    IN IF passed /\ ~paired THEN "FIXED" ELSE "REPORTED"

\* The candidates a fresh analysis of the tree may find under a handle: which
\* one is first depends on what the model filters out.
select_candidate(handles, exclude) ==
    LET found == discover_scopes(repo, exclude)
    IN {c \in UNION {{ScopeCandidate(s, label) : s \in colocated_scopes(found, label)} :
                        label \in Labels} : id(c) \in handles}

\* The fix of a candidate the developer names by its handle: it is found again
\* in a fresh analysis, or nothing is written.  The website gives no tree.
Fix(remediation, given) ==
    /\ fixes < MaxFixes
    /\ \E exclude \in Exclusions :
          \E c \in select_candidate({id(d) : d \in analysis.candidates}, exclude) :
             LET new == generate_tool_plane_fix(c, remediation)
                 verdict == reverify_tool_plane(c, remediation, new, given, repo)
             IN fix' = [candidate |-> c, remediation |-> remediation, new |-> new,
                        given |-> given, status |-> verdict, stage |-> "written"]
    /\ fixes' = fixes + 1
    /\ finding' = None
    /\ UNCHANGED <<repo, edits, analysis>>

\* `--apply` writes the files whole, over what bore their names.
Written(new, tree) ==
    [p \in DOMAIN new \union DOMAIN tree |-> IF p \in DOMAIN new THEN new[p] ELSE tree[p]]

Apply ==
    /\ fix # None
    /\ fix.stage = "written"
    /\ repo' = Written(fix.new, repo)
    /\ fix' = [fix EXCEPT !.stage = "applied"]
    /\ analysis' = [analysis EXCEPT !.edited = @ \union DOMAIN fix.new]
    /\ UNCHANGED <<edits, finding, fixes>>

-----------------------------------------------------------------------------
(* The developer. *)

\* The agent a split replaces is taken out of the file that declares it, unless
\* a file of the fix was written over that one.
Without(tree, c) ==
    IF c.at > 0 THEN [tree EXCEPT ![c.file].agents[c.at].tools = {}]
    ELSE [tree EXCEPT ![c.file].tools = {}]

RetireAgent ==
    /\ fix # None
    /\ fix.stage = "applied"
    /\ fix.remediation = "scope_split"
    /\ repo' = IF fix.candidate.file \in DOMAIN fix.new THEN repo
               ELSE Without(repo, fix.candidate)
    /\ fix' = [fix EXCEPT !.stage = "done"]
    /\ analysis' = [analysis EXCEPT !.edited = @ \union {fix.candidate.file}]
    /\ UNCHANGED <<edits, finding, fixes>>

\* A file is rewritten; what a fix was checked against is gone.
Edit(f, content) ==
    /\ edits < MaxEdits
    /\ content # repo[f]
    /\ repo' = [repo EXCEPT ![f] = content]
    /\ edits' = edits + 1
    /\ analysis' = [analysis EXCEPT !.edited = @ \union {f}]
    /\ fix' = None
    /\ UNCHANGED <<finding, fixes>>

PlaneInit ==
    /\ repo \in [File -> Contents]
    /\ edits = 0
    /\ fixes = 0
    /\ analysis = NoAnalysis
    /\ finding = None
    /\ fix = None

PlaneNext ==
    \/ Analyze
    \/ \E c \in analysis.candidates : ProveToolPlane(c)
    \/ \E remediation \in {resolve_tool_plane_fix(a) : a \in Answer}, given \in BOOLEAN :
          Fix(remediation, given)
    \/ Apply
    \/ RetireAgent
    \/ \E f \in File, content \in Contents : Edit(f, content)

PlaneSpec == PlaneInit /\ [][PlaneNext]_planevars

-----------------------------------------------------------------------------
(* Properties. *)

\* Every agent a pass paired is a candidate or is named among the dropped
\* ones: a model that answers for fewer agents than it was asked about takes
\* none out of the report (`filter_scopes_explained`, `analyze_tool_plane`).
EveryPairIsAccountedFor ==
    {s.name : s \in analysis.colocated} = {c.scope : c \in analysis.candidates} \union analysis.dropped

\* While a file stays as the analysis read it, an agent stood up for one of
\* its candidates holds the tools the candidate names, though `prove` finds
\* and labels the agents again and two agents may share a name (`_scope_for`).
TurnedAgentHoldsThePair ==
    (/\ finding # None
     /\ finding.status # "REPORTED"
     /\ finding.candidate.file \notin analysis.edited)
        => finding.candidate.source \union finding.candidate.sink \subseteq finding.agent.tools

\* The names the fix works with are the tools' own.
NamesSurvive(c) == \A t \in c.source \union c.sink : Parts[t] = {t}

\* Another agent of the candidate's file bears its name.
HasTwin(tree, c) ==
    \E s \in discover_scopes(tree, {}) : s.file = c.file /\ s.name = c.scope /\ s.at # c.at

\* The agent holds one of the finding's sources and one of its sinks.
HoldsThePair(s, c) ==
    s.tools \intersect c.source # {} /\ s.tools \intersect c.sink # {}

\* A split re-checked against the tree and called FIXED is one: once its files
\* are written and the agent it replaces is gone, no agent discovered in the
\* tree holds one of the finding's sources and one of its sinks.  The re-check
\* builds that graph in memory, before either is done (`reverify_tool_plane`).
SplitClosesThePairing ==
    (/\ fix # None
     /\ fix.status = "FIXED" /\ fix.given /\ fix.stage = "done"
     /\ NamesSurvive(fix.candidate) /\ ~HasTwin(repo, fix.candidate))
        => \A s \in discover_scopes(repo, {}) : ~HoldsThePair(s, fix.candidate)

\* A gate leaves the agent its tools and is enforced where nothing here runs, so its
\* re-check calls it FIXED only where it lost sight of the agent: in a tree, a tool's
\* name fell apart at its comma or lost the blanks around it, or the gate's file is
\* written over the agent's; with no tree, one side's names are nothing but commas and
\* blanks (`reverify_tool_plane`).
GateIsNotAFix ==
    fix # None /\ fix.remediation # "scope_split" /\ fix.status = "FIXED" =>
        /\ ~fix.given => {} \in {ReadBack(fix.candidate.source), ReadBack(fix.candidate.sink)}
        /\ NamesSurvive(fix.candidate) => fix.given /\ fix.candidate.file \in DOMAIN fix.new

\* FIXED is not said in vain, of a split that leaves the pairing somewhere or of a gate,
\* which leaves it where it was (`reverify_tool_plane`).
FixedClosesThePairing == SplitClosesThePairing /\ GateIsNotAFix

\* A split that leaves no pairing of the tools whose names the fix reads back
\* is not refused: the re-check does not find again the hole the fix closes
\* (`reverify_tool_plane`).
CleanSplitIsFixed ==
    (/\ fix # None
     /\ fix.given /\ fix.stage = "done"
     /\ \A s \in discover_scopes(repo, {}) : ~pairs(s, fix.candidate))
        => fix.status = "FIXED"

=============================================================================
