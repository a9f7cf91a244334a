--------------------------- MODULE MCSuiteTrials ---------------------------
(* Two files, of which one may have DOS line endings or not exist yet; fixes  *)
(* with one edit for each file or two for one; mutants of one file and of two. *)
EXTENDS SuiteTrials

CONSTANTS f1, f2, old, new1, new2

to(f, t) == [file |-> f, text |-> t]

MCCalls ==
    {[job |-> "regression", rounds |-> <<<<to(f1, new1), to(f2, new2)>>>>],
     [job |-> "regression", rounds |-> <<<<to(f1, new1), to(f1, new2)>>>>],
     [job |-> "mutation", rounds |-> <<<<to(f1, new1)>>, <<to(f1, new2)>>>>],
     [job |-> "mutation", rounds |-> <<<<to(f1, new1)>>, <<to(f2, new2)>>>>]}

MCFiles == {f1, f2}
MCTexts == {old, new1, new2}

MCTrees ==
    {[f \in MCFiles |-> IF f = f1 THEN one ELSE two] :
        one \in {Plain(old), [text |-> old, eol |-> "crlf"]}, two \in {Plain(old), NoFile}}

MCSuites == {{}, {old}, {new1}, {new2}, {new1, new2}}
=============================================================================
