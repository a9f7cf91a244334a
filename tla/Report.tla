------------------------------- MODULE Report -------------------------------
(***************************************************************************)
(* What a run says: build_report and the views of a finished report        *)
(* (report/model.py, report/enrich.py, report/sarif.py, priority.py,       *)
(* receipt.py), as operators on the candidates an analysis kept, in the    *)
(* order of their discovery, and on the findings that prove made of them.  *)
(***************************************************************************)
EXTENDS Integers, Sequences, SequencesExt, FiniteSets

CONSTANTS
    Candidate,
    CheckOf,     \* the check that found each
    SeverityOf,  \* Severity.rank: 0 for info, up to 4 for critical
    Structural,  \* those confirmed on inspection
    Coded        \* the agents that are defined in code

Check == {"bola", "rls", "classic_injection", "agent_injection", "tool_tenancy", "test_integrity"}
Status == {"proven", "reported", "not_reproduced", "fixed", "broke_it_safely"}

ASSUME ReportAssumption ==
    /\ CheckOf \in [Candidate -> Check]
    /\ SeverityOf \in [Candidate -> 0..4]
    /\ Structural \subseteq Candidate
    /\ Coded \subseteq Candidate

\* `executed`: the exploit that the finding carries was sent.
Finding == [cand : Candidate, status : Status, executed : BOOLEAN]

\* The elements of a list at the places `where`, in the list's order.
Pick(s, where) ==
    [k \in 1..Cardinality(where) |->
        s[CHOOSE i \in where : Cardinality({j \in where : j <= i}) = k]]

CandidatesOf(findings) == [i \in DOMAIN findings |-> findings[i].cand]
WithStatus(findings, status) == {f.cand : f \in {g \in ToSet(findings) : g.status = status}}

-----------------------------------------------------------------------------
\* build_report

\* Fault: a candidate is left in both lists.
UnprovenAll(analysed, findings) == analysed

Unproven(analysed, findings) ==
    Pick(analysed, {i \in DOMAIN analysed : analysed[i] \notin ToSet(CandidatesOf(findings))})

PublishedOrder(analysed, findings) == CandidatesOf(findings) \o Unproven(analysed, findings)

ProofEstablishing == {"proven", "fixed", "broke_it_safely"}

\* Fault: that a finding exists is proof enough.
CoverageNoteByPresence(check, findings) ==
    LET for == {f \in ToSet(findings) : CheckOf[f.cand] = check}
    IN  [check |-> check, proved |-> for # {} /\ check # "test_integrity",
         why |-> IF for = {} THEN "not attempted" ELSE "proven"]

\* How far proof reached for one check: _COVERAGE_RULES lets no measurement prove.
CoverageNote(check, findings) ==
    LET for == {f \in ToSet(findings) : CheckOf[f.cand] = check}
        why == CASE check = "test_integrity" -> "measured"
                 [] for = {} -> "not attempted"
                 [] OTHER ->
                      IF \E f \in for : f.status \in ProofEstablishing THEN "proven"
                      ELSE IF \E f \in for : f.status = "not_reproduced" THEN "held"
                      ELSE "argued"
    IN  [check |-> check, proved |-> why = "proven", why |-> why]

\* _coverage, with the scopes the model filtered out and the passes that failed.
Coverage(analysed, findings, filtered, gaps) ==
    {CoverageNote(CheckOf[c], findings) : c \in ToSet(analysed)}
    \cup {[check |-> "agent_injection", proved |-> FALSE, why |-> "filtered"] : s \in filtered}
    \cup {[check |-> g, proved |-> FALSE, why |-> "failed"] : g \in gaps}
    \cup {[check |-> "agent_injection", proved |-> FALSE, why |-> "coded"] :
             c \in {c \in ToSet(CandidatesOf(findings)) :
                       CheckOf[c] = "agent_injection" /\ c \in Coded}}

-----------------------------------------------------------------------------
\* priority.py: severity, weighted by how far proof reached, in hundredths.

SeverityBase == [rank \in 0..4 |-> CASE rank = 0 -> 5 [] OTHER -> 20 + 20 * rank]

ProofWeight(status) ==
    CASE status = "proven" -> 100
      [] status = "fixed" -> 10
      [] status = "broke_it_safely" -> 70
      [] status = "reported" -> 35
      [] status = "not_reproduced" -> 5
      [] status = "candidate" -> 30

StructuralFloor == 45

Weight(c, status) ==
    IF c \in Structural /\ status \in {"candidate", "reported"}
    THEN IF ProofWeight(status) > StructuralFloor THEN ProofWeight(status) ELSE StructuralFloor
    ELSE ProofWeight(status)

\* round() goes to the even neighbour of a half.
RoundHalfEven(hundredths) ==
    LET whole == hundredths \div 100
        rest  == hundredths % 100
    IN  IF rest > 50 \/ (rest = 50 /\ whole % 2 = 1) THEN whole + 1 ELSE whole

Score(c, status) == RoundHalfEven(SeverityBase[SeverityOf[c]] * Weight(c, status))

\* prioritized: findings and untried candidates on one scale.
Rows(analysed, findings) ==
    [i \in DOMAIN findings |-> [cand |-> findings[i].cand, status |-> findings[i].status]]
    \o [i \in DOMAIN Unproven(analysed, findings) |->
           [cand |-> Unproven(analysed, findings)[i], status |-> "candidate"]]

\* A row stands above another only if its score is no lower; equal scores go by the
\* handle, which may be anything.
MayRankAbove(row, other) == Score(row.cand, row.status) >= Score(other.cand, other.status)

-----------------------------------------------------------------------------
\* The other views.

\* build_receipt: `fired` holds what an attack was sent for.
Fired(findings) == {f \in ToSet(findings) : f.executed}

\* Attacked and not decided: B was refused, and the owner, asked the same, as well.
Undecided(findings) == {f.cand : f \in {g \in Fired(findings) : g.status = "reported"}}

\* silence_ledger: every note of where proof did not reach.
NotProved(notes) == {n \in notes : ~n.proved}

\* to_sarif: a result for each finding, its level from the status.
SarifLevel(status) ==
    CASE status = "proven" -> "error"
      [] status \in {"reported", "broke_it_safely"} -> "warning"
      [] OTHER -> "note"

Sarif(findings) == {[cand |-> f.cand, level |-> SarifLevel(f.status)] : f \in ToSet(findings)}

\* render_markdown lists the proven ones, then those never tried, or else all tried.
Listed(analysed, findings) ==
    WithStatus(findings, "proven") \cup
        ToSet(IF Unproven(analysed, findings) # <<>> THEN Unproven(analysed, findings)
                                                     ELSE CandidatesOf(findings))
=============================================================================
