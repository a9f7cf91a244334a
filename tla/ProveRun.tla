------------------------------ MODULE ProveRun ------------------------------
(***************************************************************************)
(* One `prove` run as an executor performs it: the candidates are          *)
(* announced, then the ownership gate, the optional walk that discovers a  *)
(* seed record, and the loop over the ranked candidates.  Each candidate is carried by the harness its check  *)
(* allows (PostgREST, the app's own routes, the SQL probe, the agent       *)
(* sandbox) to exactly one finding, under a budget that is read between    *)
(* candidates and once more when the run is over.                          *)
(*                                                                         *)
(* The running app is the environment: every answer it can give to a       *)
(* request is a choice.  What an answer says is kept only as far as the    *)
(* verdicts tell answers apart.  `wire` holds the requests sent for the    *)
(* current candidate and is carried into its finding; the code keeps only  *)
(* the last exchange (its Exploit), so there it is a history variable.     *)
(***************************************************************************)
EXTENDS Integers, Sequences

CONSTANTS
    Table,      \* the tables of the target's database
    NoTable,    \* no table is named
    Configs,    \* the settings a run may be started with
    Queues,     \* the ranked candidate lists `analyze` may have produced
    Seeds,      \* the seed records the setup form may name, or NoSeed
    MaxClock    \* bound on elapsed time

Checks == {"BOLA", "RLS", "CLASSIC_INJECTION", "AGENT_INJECTION",
           "TOOL_TENANCY", "TEST_INTEGRITY"}

\* `route`: names a route.  `read`: its verb is sent as a GET.  `ownerCol`:
\* its metadata names the owner column.  `live`: a SQL sink proof may fire at.
\* `scope`: the agent scope it names, as scope discovery finds it.
CandidateType ==
    [check : Checks, table : Table \cup {NoTable}, ownerCol : BOOLEAN,
     route : BOOLEAN, read : BOOLEAN, live : BOOLEAN,
     scope : {"missing", "coded", "configured"}]

NoCap == -1
ConfigType ==
    [local : BOOLEAN, owned : BOOLEAN, plan : {"none", "partial", "whole"},
     anonKey : BOOLEAN, llm : BOOLEAN, autodiscover : BOOLEAN,
     maxCandidates : Nat \cup {NoCap}, maxSeconds : Nat \cup {NoCap}]

NoSeed   == [table |-> NoTable, ownerCol |-> FALSE]
SeedType == [table : Table \cup {NoTable}, ownerCol : BOOLEAN]

Accounts == {"A", "B"}

ASSUME ConstantsAssumption ==
    /\ NoTable \notin Table
    /\ Configs \subseteq ConfigType
    /\ Queues \subseteq Seq(CandidateType)
    /\ Seeds \subseteq SeedType
    /\ MaxClock \in Nat

\* What a PostgREST read, a route, a crafted SQL input and an agent turn can
\* come back with.  "failed" is any httpx.HTTPError.  "foreign" rows belong to
\* an account other than B, "own" rows to B; "echo" is a 200 whose body repeats
\* the id inside an error envelope; "wide" is a 200 much longer than "plain".
TableAnswers == {"seedrow", "foreign", "own", "empty", "error", "failed"}
RouteAnswers == {"record", "echo", "refused", "failed"}
SqlAnswers   == {"plain", "wide", "dberror", "refused", "failed"}
AgentAnswers == {"turned", "held", "failed"}
Answers      == TableAnswers \cup RouteAnswers \cup SqlAnswers \cup AgentAnswers

Exchange == [as : Accounts \cup {"agent"}, token : BOOLEAN, ans : Answers]
Status   == {"PROVEN", "REPORTED", "NOT_REPRODUCED"}
FindingType ==
    [cand : Nat, status : Status, executed : BOOLEAN, wire : Seq(Exchange)]

VARIABLES
    cfg,        \* the settings of this run
    queue,      \* analysis.ranked()
    seed,       \* setup.seed
    acct,       \* the two Account objects, shared by both harnesses
    scopes,     \* agent scopes: not yet discovered, "labelled" or "plain"
    attempted,  \* candidates begun (budget._attempted)
    clock,      \* budget.elapsed()
    pc,         \* where the run is
    wire,       \* exchanges of the current candidate
    findings,   \* findings, in the order produced
    blocked,    \* calls the plan guard refused
    loose,      \* the kinds of request sent outside the candidates' exchanges (history)
    outcome     \* the BudgetOutcome

vars == <<cfg, queue, seed, acct, scopes, attempted, clock, pc, wire,
          findings, blocked, loose, outcome>>

Terminal == {"done", "refused", "invalid", "aborted", "unheard"}
PC == Terminal \cup
      {"called", "start", "pick", "table_login", "byid", "scan", "attack_login", "attack",
       "control_login", "control", "sql_login", "sql", "agent", "returned"}

\* "bare": the analysis's own GETs to the target, without credentials; "walk": the
\* browser's; "hop": a redirect that led off the target and was followed.
Loose == {"bare", "walk", "hop"}

NoOutcome == [stopped |-> FALSE, skipped |-> 0]

TypeOK ==
    /\ cfg \in Configs
    /\ queue \in Queues
    /\ seed \in SeedType
    /\ acct \in [Accounts -> [token : BOOLEAN, uid : BOOLEAN]]
    /\ scopes \in {"none", "labelled", "plain"}
    /\ attempted \in 0..Len(queue)
    /\ clock \in 0..MaxClock
    /\ pc \in PC
    /\ wire \in Seq(Exchange)
    /\ findings \in Seq(FindingType)
    /\ blocked \in Nat
    /\ loose \subseteq Loose
    /\ outcome \in [stopped : BOOLEAN, skipped : Nat]

Init ==
    /\ cfg \in Configs
    /\ queue \in Queues
    /\ seed \in Seeds
    /\ acct \in [Accounts -> {[token |-> FALSE, uid |-> FALSE],
                              [token |-> TRUE, uid |-> TRUE],
                              [token |-> TRUE, uid |-> FALSE]}]
    /\ scopes = "none" /\ attempted = 0 /\ clock = 0 /\ pc = "called"
    /\ wire = <<>> /\ findings = <<>> /\ blocked = 0 /\ loose = {}
    /\ outcome = NoOutcome

-----------------------------------------------------------------------------
\* The candidate being carried, and the two request-plane harnesses.
Current       == queue[attempted]
RoutePlane(c) == c.check = "BOLA" /\ c.route
TablePlane(c) == c.check \in {"BOLA", "RLS"} /\ ~RoutePlane(c)
TableOf(c)    == IF c.table # NoTable THEN c.table ELSE seed.table

\* Candidates concluded without a request: nothing to aim at, a verb that
\* would write, a payload only ever demonstrated, or a check proven elsewhere.
Unsent(c) ==
    \/ RoutePlane(c) /\ (seed = NoSeed \/ ~c.read)
    \/ TablePlane(c) /\ TableOf(c) = NoTable
    \/ c.check = "CLASSIC_INJECTION" /\ ~(c.live /\ c.route /\ c.read)
    \/ c.check \in {"TOOL_TENANCY", "TEST_INTEGRITY"}

FirstStep(c) ==
    CASE RoutePlane(c)                   -> "attack_login"
      [] TablePlane(c)                   -> "table_login"
      [] c.check = "CLASSIC_INJECTION"   -> "sql_login"
      [] OTHER                           -> "agent"

\* Budget.exhausted(): the candidate cap, then the clock.
Exhausted ==
    \/ cfg.maxCandidates # NoCap /\ attempted >= cfg.maxCandidates
    \/ cfg.maxSeconds # NoCap /\ clock >= cfg.maxSeconds

Record(c, status, executed) ==
    /\ findings' = Append(findings, [cand |-> c, status |-> status,
                                     executed |-> executed, wire |-> wire'])
    /\ pc' = "pick"
Conclude(status, executed) == Record(attempted, status, executed)

Send(a, ans) ==
    wire' = Append(wire, [as |-> a, token |-> (a \in Accounts /\ acct[a].token),
                          ans |-> ans])

Grant(a, known) ==
    acct' = [acct EXCEPT ![a] = [token |-> TRUE, uid |-> @.uid \/ known]]

\* A redirect followed off the target by the route client, which follows them.
\* The request hook of a guarded client sees each hop and refuses this one.
Follow == loose' \in {loose, IF cfg.plan # "whole" THEN loose \cup {"hop"} ELSE loose}

\* Requests of a kind that the run may or may not have cause to send.
Perhaps(kind) == loose' \in {loose, loose \cup {kind}}

kept == <<cfg, queue, outcome, clock>>   \* untouched by every step of the loop

-----------------------------------------------------------------------------
\* Before the loop: LocalExecutor.prove and the head of prove().

\* The repository is analysed and on_candidates handed the ranked list; what either
\* of them raises comes out of the call.  The analysis has the target: where neither a
\* signature nor the model tells whether the app has a request plane, BehavioralProbe
\* asks the app itself, before any gate.
Announce ==
    /\ pc = "called"
    /\ Perhaps("bare")
    /\ pc' \in {"start", "unheard"}
    /\ UNCHANGED <<kept, seed, acct, scopes, attempted, wire, findings, blocked>>

\* Part of a guard (plan, signature, key) is refused: never run unguarded.
RefusePartialPlan ==
    /\ pc = "start" /\ cfg.plan = "partial"
    /\ pc' = "invalid"
    /\ UNCHANGED <<kept, seed, acct, scopes, attempted, wire, findings, blocked, loose>>

Allowed == cfg.local \/ cfg.owned

RefuseUnowned ==
    /\ pc = "start" /\ cfg.plan # "partial" /\ ~Allowed
    /\ pc' = "refused"
    /\ UNCHANGED <<kept, seed, acct, scopes, attempted, wire, findings, blocked, loose>>

\* The form named no record, and the run is to find one.
Walks == cfg.autodiscover /\ seed = NoSeed

\* seed_from_discovery: a browser walk as account A, where a browser is installed.  The
\* guard is no part of it, and a link or a script may lead it anywhere.  It may name a
\* record but never its owner column; a browser that will not start raises.
Begin ==
    /\ pc = "start" /\ cfg.plan # "partial" /\ Allowed
    /\ IF Walks THEN Perhaps("walk") ELSE UNCHANGED loose
    /\ \/ /\ seed' \in IF Walks THEN [table : Table, ownerCol : {FALSE}] \cup {NoSeed}
                                ELSE {seed}
          /\ pc' = "pick"
       \/ Walks /\ pc' = "aborted" /\ UNCHANGED seed
    /\ UNCHANGED <<kept, acct, scopes, attempted, wire, findings, blocked>>

-----------------------------------------------------------------------------
\* The loop: the budget is read, the attempt counted, the check dispatched.

Attempt ==
    /\ pc = "pick" /\ attempted < Len(queue) /\ ~Exhausted
    /\ attempted' = attempted + 1
    /\ wire' = <<>>
    /\ UNCHANGED <<kept, seed, acct, scopes, blocked, loose>>

\* Fault: what is not sent yields no finding.
ReportUnsentNothing ==
    /\ Attempt
    /\ Unsent(queue[attempted + 1])
    /\ pc' = "pick"
    /\ UNCHANGED findings

ReportUnsent ==
    /\ Attempt
    /\ Unsent(queue[attempted + 1])
    /\ Record(attempted + 1, "REPORTED", FALSE)

BeginProbe ==
    /\ Attempt
    /\ ~Unsent(queue[attempted + 1])
    /\ pc' = FirstStep(queue[attempted + 1])
    /\ UNCHANGED findings

StopLoop ==
    /\ pc = "pick" /\ (attempted = Len(queue) \/ Exhausted)
    /\ pc' = "returned"
    /\ UNCHANGED <<kept, seed, acct, scopes, attempted, wire, findings, blocked, loose>>

\* Fault: the candidate at the cap is not counted as skipped.
ReportBudgetOffByOne ==
    /\ pc = "returned"
    /\ outcome' = [stopped |-> Exhausted,
                   skipped |-> IF Exhausted /\ attempted < Len(queue)
                               THEN Len(queue) - attempted - 1 ELSE 0]
    /\ pc' = "done"
    /\ UNCHANGED <<cfg, queue, seed, acct, scopes, attempted, clock, wire,
                   findings, blocked, loose>>

\* LocalExecutor.prove asks the budget a second time, after the loop is over.
ReportBudget ==
    /\ pc = "returned"
    /\ outcome' = [stopped |-> Exhausted,
                   skipped |-> IF Exhausted THEN Len(queue) - attempted ELSE 0]
    /\ pc' = "done"
    /\ UNCHANGED <<cfg, queue, seed, acct, scopes, attempted, clock, wire,
                   findings, blocked, loose>>

-----------------------------------------------------------------------------
\* The PostgREST harness: login as B, the seed row by id, then an unfiltered read.

OnSeedTable == seed.table # NoTable /\ seed.table = TableOf(Current)

TableLogin ==
    /\ pc = "table_login"
    /\ UNCHANGED <<kept, seed, scopes, attempted, wire, blocked, loose>>
    /\ \/ /\ IF acct["B"].token THEN UNCHANGED acct
                                ELSE \E known \in BOOLEAN : Grant("B", known)
          /\ pc' = IF OnSeedTable THEN "byid" ELSE "scan"
          /\ UNCHANGED findings
       \/ /\ ~acct["B"].token                     \* unreachable, or not a 2xx
          /\ Conclude("REPORTED", FALSE)
          /\ UNCHANGED acct
       \/ /\ ~acct["B"].token                     \* a 2xx without a token raises
          /\ pc' = "aborted"
          /\ UNCHANGED <<acct, findings>>

TargetedBola ==
    /\ pc = "byid"
    /\ \E ans \in {"seedrow", "empty", "error", "failed"} :
        /\ Send("B", ans)
        /\ CASE ans = "seedrow" -> Conclude("PROVEN", TRUE)
             [] ans = "failed"  -> Conclude("REPORTED", FALSE)
             [] OTHER           -> pc' = "scan" /\ UNCHANGED findings
    /\ UNCHANGED <<kept, seed, acct, scopes, attempted, blocked, loose>>

\* Rows can be called another's only when the owner column and B's id are known.
Attributable == (Current.ownerCol \/ seed.ownerCol) /\ acct["B"].uid

\* Fault: with B's id unknown, every row names "somebody else".
LeaksUnattributed(ans) ==
    \/ ans = "seedrow" /\ OnSeedTable
    \/ ans \in {"foreign", "seedrow", "own"} /\ (Current.ownerCol \/ seed.ownerCol)

Leaks(ans) ==
    \/ ans = "seedrow" /\ OnSeedTable
    \/ ans \in {"foreign", "seedrow"} /\ Attributable

\* Fault: a request that failed is taken for a boundary that held.
UnfilteredRlsFailedHeld ==
    /\ pc = "scan"
    /\ \E ans \in TableAnswers :
        /\ ans = "seedrow" => OnSeedTable
        /\ Send("B", ans)
        /\ Conclude(IF Leaks(ans) THEN "PROVEN" ELSE "NOT_REPRODUCED", TRUE)
    /\ UNCHANGED <<kept, seed, acct, scopes, attempted, blocked, loose>>

UnfilteredRls ==
    /\ pc = "scan"
    /\ \E ans \in TableAnswers :
        /\ ans = "seedrow" => OnSeedTable
        /\ Send("B", ans)
        /\ CASE ans = "failed" -> Conclude("REPORTED", FALSE)
             [] Leaks(ans)     -> Conclude("PROVEN", TRUE)
             [] OTHER          -> Conclude("NOT_REPRODUCED", TRUE)
    /\ UNCHANGED <<kept, seed, acct, scopes, attempted, blocked, loose>>

-----------------------------------------------------------------------------
\* The route harness.  RouteProber.request logs in first, best effort: whatever
\* the login raises is swallowed, a refused hop too, and the request goes out bare.

AfterLogin == [attack_login |-> "attack", control_login |-> "control", sql_login |-> "sql"]

\* Fault: every request logs in afresh, and a login that fails clears the token.
ProberLoginAfresh ==
    /\ pc \in DOMAIN AfterLogin
    /\ LET a == IF pc = "control_login" THEN "A" ELSE "B"
       IN  \/ cfg.anonKey /\ \E known \in BOOLEAN : Grant(a, known)
           \/ acct' = [acct EXCEPT ![a].token = FALSE]
    /\ pc' = AfterLogin[pc]
    /\ UNCHANGED <<kept, seed, scopes, attempted, wire, findings, blocked, loose>>

ProberLogin ==
    /\ pc \in DOMAIN AfterLogin
    /\ LET a == IF pc = "control_login" THEN "A" ELSE "B"
           tries == ~acct[a].token /\ cfg.anonKey
       IN  \/ /\ tries /\ \E known \in BOOLEAN : Grant(a, known)
              /\ Follow /\ UNCHANGED blocked
           \/ /\ IF tries THEN Follow ELSE UNCHANGED loose
              /\ blocked' \in IF tries /\ cfg.plan = "whole"
                              THEN {blocked, blocked + 1} ELSE {blocked}
              /\ UNCHANGED acct
    /\ pc' = AfterLogin[pc]
    /\ UNCHANGED <<kept, seed, scopes, attempted, wire, findings>>

\* A redirect off the target: the guard refuses the hop and the run is over.
GuardStops ==
    /\ pc \in {"attack", "control", "sql"} /\ cfg.plan = "whole"
    /\ blocked' = blocked + 1
    /\ pc' = "aborted"
    /\ UNCHANGED <<kept, seed, acct, scopes, attempted, wire, findings, loose>>

\* Fault: a refusal to B is the verdict; the owner is never asked.
ProveRouteBolaNoControl ==
    /\ pc = "attack"
    /\ \E ans \in RouteAnswers :
        /\ Send("B", ans)
        /\ CASE ans = "record" -> Conclude("PROVEN", TRUE)
             [] ans = "failed" -> Conclude("REPORTED", FALSE)
             [] OTHER          -> Conclude("NOT_REPRODUCED", TRUE)
    /\ Follow
    /\ UNCHANGED <<kept, seed, acct, scopes, attempted, blocked>>

ProveRouteBola ==
    /\ pc = "attack"
    /\ \E ans \in RouteAnswers :
        /\ Send("B", ans)
        /\ CASE ans = "record" -> Conclude("PROVEN", TRUE)
             [] ans = "failed" -> Conclude("REPORTED", FALSE)
             [] OTHER          -> pc' = "control_login" /\ UNCHANGED findings
    /\ Follow
    /\ UNCHANGED <<kept, seed, acct, scopes, attempted, blocked>>

\* _owner_reads: B was refused; that counts only if the owner is not.
OwnerReads ==
    /\ pc = "control"
    /\ \E ans \in RouteAnswers :
        /\ Send("A", ans)
        /\ Conclude(IF ans = "record" THEN "NOT_REPRODUCED" ELSE "REPORTED", TRUE)
    /\ Follow
    /\ UNCHANGED <<kept, seed, acct, scopes, attempted, blocked>>

\* _judge: an error only the broken input causes, or a result the tautology widens.
Judge(w) ==
    \/ w[3].ans = "dberror" /\ w[1].ans # "dberror"
    \/ w[2].ans = "wide" /\ w[1].ans = "plain"

\* The benign, the crafted and the broken input, in that order, as B.
ProveSqlInjection ==
    /\ pc = "sql"
    /\ \E ans \in SqlAnswers :
        /\ Send("B", ans)
        /\ CASE ans = "failed"   -> Conclude("REPORTED", FALSE)
             [] ans # "failed" /\ Len(wire') < 3 ->
                    pc' = "sql_login" /\ UNCHANGED findings
             [] OTHER ->
                    Conclude(IF Judge(wire') THEN "PROVEN" ELSE "NOT_REPRODUCED", TRUE)
    /\ Follow
    /\ UNCHANGED <<kept, seed, acct, scopes, attempted, blocked>>

-----------------------------------------------------------------------------
\* The tool plane: scopes are discovered and labelled once, for the first agent
\* candidate; labelling needs the model and may fail, which leaves no sinks.

LabelScopes ==
    /\ pc = "agent" /\ scopes = "none"
    /\ scopes' \in IF cfg.llm THEN {"labelled", "plain"} ELSE {"plain"}
    /\ UNCHANGED <<kept, seed, acct, attempted, pc, wire, findings, blocked, loose>>

\* No such scope, no model, a failed generation, a coded scope, no sink or no
\* attacker marker: no agent is stood up.
ReportAgent ==
    /\ pc = "agent" /\ scopes # "none"
    /\ UNCHANGED wire
    /\ Conclude("REPORTED", FALSE)
    /\ UNCHANGED <<kept, seed, acct, scopes, attempted, blocked, loose>>

\* The stub of the targeted sink fired with a marker, or did not; a model turn
\* that fails is neither.
RunSandbox ==
    /\ pc = "agent" /\ scopes = "labelled" /\ cfg.llm /\ Current.scope = "configured"
    /\ \E ans \in AgentAnswers :
        /\ Send("agent", ans)
        /\ CASE ans = "turned" -> Conclude("PROVEN", TRUE)
             [] ans = "held"   -> Conclude("NOT_REPRODUCED", TRUE)
             [] ans = "failed" -> Conclude("REPORTED", FALSE)
    /\ UNCHANGED <<kept, seed, acct, scopes, attempted, blocked, loose>>

-----------------------------------------------------------------------------
\* The clock starts with the loop (budget.start()).
Tick ==
    /\ pc \notin Terminal \cup {"called", "start"} /\ clock < MaxClock
    /\ clock' = clock + 1
    /\ UNCHANGED <<cfg, queue, seed, acct, scopes, attempted, pc, wire,
                   findings, blocked, loose, outcome>>

Stop == pc \in Terminal /\ UNCHANGED vars

Step ==
    \/ Announce \/ RefusePartialPlan \/ RefuseUnowned \/ Begin
    \/ ReportUnsent \/ BeginProbe \/ StopLoop \/ ReportBudget
    \/ TableLogin \/ TargetedBola \/ UnfilteredRls
    \/ ProberLogin \/ GuardStops \/ ProveRouteBola \/ OwnerReads \/ ProveSqlInjection
    \/ LabelScopes \/ ReportAgent \/ RunSandbox

Next == Step \/ Tick \/ Stop

\* One thread runs the loop and every call in it has a timeout, so a step that
\* can be taken is taken.
Spec == Init /\ [][Next]_vars /\ WF_vars(Step)

-----------------------------------------------------------------------------
(* Properties. *)

LeakAnswers == {"seedrow", "foreign", "record", "wide", "dberror", "turned"}

\* PROVEN is said only of a candidate under which something came back, to B or
\* from the agent, that only a hole explains: never on B's own rows, an echoed id,
\* or a read whose owner is unknown (probes.py, route_probes.py, sandbox.py).
ProvenIsWitnessed ==
    \A i \in DOMAIN findings : findings[i].status = "PROVEN" =>
        \E k \in DOMAIN findings[i].wire :
            /\ findings[i].wire[k].as \in {"B", "agent"}
            /\ findings[i].wire[k].ans \in LeakAnswers

\* A route is called held only when B was refused and the owner, asked through
\* the same URL afterwards, was let in (_owner_reads).
HeldRouteHasControl ==
    \A i \in DOMAIN findings :
        /\ findings[i].status = "NOT_REPRODUCED"
        /\ RoutePlane(queue[findings[i].cand])
        => LET w == findings[i].wire IN
              /\ Len(w) = 2
              /\ w[1].as = "B" /\ w[1].ans # "record"
              /\ w[2].as = "A" /\ w[2].ans = "record"

\* "Not attempted" and "attempted and held" are never confused: a verdict rests on
\* an attack that was sent and answered, and what was not sent is only REPORTED.
ClaimsRestOnARequest ==
    \A i \in DOMAIN findings :
        LET f == findings[i] IN
            /\ f.status # "REPORTED" =>
                  f.executed /\ f.wire # <<>> /\ f.wire[Len(f.wire)].ans # "failed"
            /\ f.wire = <<>> => f.status = "REPORTED" /\ ~f.executed

\* No request is ever sent for a candidate whose route's verb would write, not
\* now and not as part of a probe already under way.
WritesNeverSent ==
    LET held(c) == ~c.read /\ (RoutePlane(c) \/ c.check = "CLASSIC_INJECTION") IN
        /\ \A i \in DOMAIN findings :
              held(queue[findings[i].cand]) => findings[i].wire = <<>>
        /\ attempted > 0 /\ held(Current) => wire = <<>>

\* Findings come back one per candidate, in ranked order, and what a finished run
\* does not contain is exactly what its budget outcome says was skipped.
FindingsFollowTheQueue ==
    /\ \A i \in DOMAIN findings : findings[i].cand = i
    /\ Len(findings) \in {attempted, attempted - 1}
    /\ pc = "done" => Len(findings) + outcome.skipped = Len(queue)

\* Once a plan is supplied, in whole or in part, no request of a harness leaves the named
\* target: a partial guard is not quietly downgraded to none, and both HTTP clients are
\* hooked.  Outside the guard are the analysis's bare GETs, which stay on the target, and
\* the browser walk, which may leave it: that happens only to somebody who asked for a
\* walk, under no partial plan, past the ownership gate.
GuardedStaysOnTarget ==
    cfg.plan # "none" =>
        /\ "hop" \notin loose
        /\ "walk" \in loose => cfg.autodiscover /\ cfg.plan = "whole" /\ Allowed

\* Both harnesses speak as the same logged-in B: once one request carried B's
\* token, every later one does.
HarnessesAgreeOnB ==
    \A i \in DOMAIN findings : \A k \in DOMAIN findings[i].wire :
        findings[i].wire[k].as = "B" /\ findings[i].wire[k].token =>
            \A j \in i..Len(findings) : \A l \in DOMAIN findings[j].wire :
                findings[j].wire[l].as = "B" /\ (j > i \/ l > k) =>
                    findings[j].wire[l].token

\* Without ownership of a remote target there is no walk for a seed, no login, no attack
\* and no finding.  All that reaches the target are the GETs without credentials of the
\* analysis, which runs before the gate (LocalExecutor.prove, BehavioralProbe).
NothingBeforeOwnership ==
    [][~Allowed => /\ UNCHANGED <<seed, acct, wire, findings, blocked>>
                   /\ loose' \subseteq loose \cup {"bare"}]_vars

\* What a surface sees of the run through its observers and the value returned.  Each
\* finding is handed to on_finding as it is appended, and what that raises is dropped.
\* Whether an exception is the guard's or not is left to its text.
Observed == INSTANCE ObservedRun WITH
    announced <- pc \notin {"called", "unheard"},
    shown     <- [i \in DOMAIN findings |-> findings[i].cand],
    answer    <- IF pc = "done" THEN "report"
                 ELSE IF pc \in Terminal THEN "failed" ELSE "none",
    reported  <- IF pc = "done" THEN Len(findings) ELSE 0

\* The run is one an executor may perform: candidates first and once, one finding for
\* each in its turn and none passed over, and a report that holds what was shown, or
\* none (`OnCandidates`, `OnFinding`, `ProveOutcome`).
RunIsAsObserved == Observed!Spec
=============================================================================
