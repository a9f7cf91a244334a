----------------------------- MODULE MCProveRun -----------------------------
(* Small instances of ProveRun: one table the seed lives in and one it does   *)
(* not, every shape of candidate the dispatch tells apart, queues of two.     *)
EXTENDS ProveRun

CONSTANTS t1, t2

cand(check) ==
    [check |-> check, table |-> NoTable, ownerCol |-> FALSE, route |-> FALSE,
     read |-> TRUE, live |-> TRUE, scope |-> "missing"]

rls       == [cand("RLS") EXCEPT !.table = t1]
bolaOwner == [cand("BOLA") EXCEPT !.table = t2, !.ownerCol = TRUE]
noTable   == cand("BOLA")
route     == [cand("BOLA") EXCEPT !.route = TRUE]
write     == [route EXCEPT !.read = FALSE]
sql       == [cand("CLASSIC_INJECTION") EXCEPT !.route = TRUE]
sqlWrite  == [sql EXCEPT !.read = FALSE]
command   == [sql EXCEPT !.live = FALSE]
agent     == [cand("AGENT_INJECTION") EXCEPT !.scope = "configured"]
coded     == [cand("AGENT_INJECTION") EXCEPT !.scope = "coded"]
tenancy   == cand("TOOL_TENANCY")

MCTables == {t1, t2}
MCSeeds  == {NoSeed, [table |-> t1, ownerCol |-> FALSE]}
MCQueues ==
    {<<>>, <<agent>>, <<rls, bolaOwner>>, <<rls, route>>, <<route, rls>>, <<write, route>>,
     <<bolaOwner, sql>>, <<sqlWrite, noTable>>, <<tenancy, agent>>, <<coded, agent>>,
     <<command, tenancy, coded, write>>}

base ==
    [local |-> TRUE, owned |-> FALSE, plan |-> "whole", anonKey |-> TRUE, llm |-> TRUE,
     autodiscover |-> FALSE, maxCandidates |-> NoCap, maxSeconds |-> NoCap]

MCConfigs ==
    {base,
     [base EXCEPT !.plan = "none", !.autodiscover = TRUE],
     [base EXCEPT !.plan = "partial"],
     [base EXCEPT !.local = FALSE, !.autodiscover = TRUE],
     [base EXCEPT !.local = FALSE, !.owned = TRUE, !.anonKey = FALSE, !.llm = FALSE],
     [base EXCEPT !.maxCandidates = 1],
     [base EXCEPT !.maxCandidates = 2, !.maxSeconds = 1]}
=============================================================================
