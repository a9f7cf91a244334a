---------------------------- MODULE MCOperations ----------------------------
(* One finding of every shape _refire tells apart, one table the seed lives   *)
(* in and one it does not, and the four settings the operations tell apart.   *)
EXTENDS Operations

CONSTANTS t1, t2

cand(check) ==
    [check |-> check, table |-> NoTable, ownerCol |-> FALSE, route |-> FALSE,
     read |-> TRUE, live |-> TRUE, scope |-> "missing"]

rls   == [cand("RLS") EXCEPT !.table = t1]
other == [cand("BOLA") EXCEPT !.table = t2, !.ownerCol = TRUE]
route == [cand("BOLA") EXCEPT !.route = TRUE]
write == [route EXCEPT !.read = FALSE]
sql   == [cand("CLASSIC_INJECTION") EXCEPT !.route = TRUE]
agent == [cand("AGENT_INJECTION") EXCEPT !.scope = "configured"]

MCTables == {t1, t2}
MCSeeds  == {NoSeed, [table |-> t1, ownerCol |-> FALSE]}
MCQueues == {<<c>> : c \in {rls, other, route, write, sql, agent}}

base ==
    [local |-> TRUE, owned |-> FALSE, plan |-> "none", anonKey |-> TRUE, llm |-> TRUE,
     autodiscover |-> FALSE, maxCandidates |-> NoCap, maxSeconds |-> NoCap]

MCConfigs ==
    {base, [base EXCEPT !.anonKey = FALSE], [base EXCEPT !.local = FALSE],
     [base EXCEPT !.local = FALSE, !.owned = TRUE, !.anonKey = FALSE]}
=============================================================================
