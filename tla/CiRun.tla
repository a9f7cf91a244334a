------------------------------- MODULE CiRun --------------------------------
(***************************************************************************)
(* One job of the CI surface (entrypoint.py): analyse the checkout, narrow *)
(* to the change, establish ownership from the pipeline's token, prove,    *)
(* propose the fixes as a pull request, report, fire the rules the         *)
(* repository states, ask whether the owner still gets in, and gate.       *)
(* The analysis, the probes and the servers answer whatever they like; an  *)
(* option is read where the code reads it.                                 *)
(***************************************************************************)
EXTENDS Report

CONSTANTS
    Discovered,  \* every candidate the repository can yield, in order of discovery
    FileOf,      \* the file each is in
    TableOf,     \* the table each is about
    Routed,      \* those that know the route they were found on
    Spliced,     \* those whose location quotes the source (a snippet)
    Linked,      \* files that are links, to a place in the checkout or outside
    Declaring,   \* files that declare routes
    Rule         \* the rules in TAINTED_INVARIANTS

File  == {FileOf[c] : c \in Candidate}
Table == {TableOf[c] : c \in Candidate}
Stamp == {"earlier", "later"}  \* the second a migration is named after

\* Where an edit can land: the file, beside it, or in a migration of its own.
Path == {<<"file", f>> : f \in File} \cup {<<"sibling", f>> : f \in File}
            \cup {<<"migration", t, s>> : t \in Table, s \in Stamp}

ASSUME CiAssumption ==
    /\ Discovered \in Seq(Candidate)
    /\ Routed \cup Spliced \subseteq Candidate
    /\ Linked \cup Declaring \subseteq File
    /\ "source" \notin Candidate

VARIABLES
    at,        \* where the job is
    target,    \* TAINTED_TARGET_URL: "none", "local" or "remote"
    token,     \* the identity token and what surrounds it, once looked at
    verified,
    analysed,  \* result.candidates
    findings,
    fixes,     \* the findings among which those are whose edits are still to be written
    tree,      \* what each path holds: its source, or the fix of a candidate
    git,       \* the branch checked out, the paths staged, the commit, and what is public
    notes,     \* report.coverage
    verdicts,  \* what check_invariants says of each rule
    owner,     \* what lockout_check says
    replies,   \* every answer the target gave (history)
    exit       \* the exit code, "crash" for an exception, "" before

vars == <<at, target, token, verified, analysed, findings, fixes, tree, git, notes,
          verdicts, owner, replies, exit>>

Places == {"configuring", "analysing", "narrowing", "owning", "proving", "fixing", "writing",
           "checkout", "add", "commit", "push", "request", "reporting", "ruling", "asking",
           "gating", "over"}

Init ==
    /\ at = "configuring"
    /\ target \in {"none", "local", "remote"}
    /\ token = <<>>
    /\ verified = FALSE
    /\ analysed = <<>> /\ findings = <<>> /\ fixes = <<>>
    /\ tree = [p \in Path |-> "source"]
    /\ git = [branch |-> "head", index |-> {}, commit |-> <<>>, pushed |-> FALSE, open |-> FALSE]
    /\ notes = {}
    /\ verdicts = [r \in Rule |-> "unasked"]
    /\ owner = "unasked"
    /\ replies = {}
    /\ exit = ""

\* The variables an action before, or after, the report leaves alone.
ran   == <<analysed, findings>>
fixed == <<fixes, tree, git>>
said  == <<notes, verdicts, owner, exit>>

-----------------------------------------------------------------------------
\* run(): a walkthrough or an option it cannot read ends the job before anything.
Configure ==
    /\ at = "configuring"
    /\ \/ at' = "over" /\ exit' \in {"0", "2"}
       \/ at' = "analysing" /\ UNCHANGED exit
    /\ UNCHANGED <<target, token, verified, ran, fixed, notes, verdicts, owner, replies>>

\* BehavioralProbe: where neither a signature nor the model tells whether the app has
\* a request plane, the analysis asks the app, without a login and before any gate.
\* What the app tells it is taken for the worst.
Reach ==
    /\ at = "analysing" /\ target # "none" /\ replies = {}
    /\ replies' = {[to |-> "reach", what |-> "app", bad |-> TRUE]}
    /\ UNCHANGED <<at, target, token, verified, ran, fixed, said>>

Analyse ==
    /\ at = "analysing"
    /\ at' = "narrowing"
    /\ \E where \in SUBSET DOMAIN Discovered : analysed' = Pick(Discovered, where)
    /\ UNCHANGED <<target, token, verified, findings, fixed, said, replies>>

\* TAINTED_DIFF_ONLY.  git names the changed files from the top of its work tree and
\* the analysis from TAINTED_REPO, which may not be the top.  A diff that fails, or
\* that names nothing, keeps every candidate.
NarrowTo(changed, atTop) ==
    /\ at = "narrowing"
    /\ IF changed = {} THEN UNCHANGED analysed
       ELSE analysed' = Pick(analysed, {i \in DOMAIN analysed :
                                            atTop /\ FileOf[analysed[i]] \in changed})
    /\ at' = IF target = "none" THEN "reporting" ELSE "owning"
    /\ UNCHANGED <<target, token, verified, findings, fixed, said, replies>>

Narrow == \E changed \in SUBSET File, atTop \in BOOLEAN : NarrowTo(changed, atTop)

-----------------------------------------------------------------------------
\* oidc.py.  A token claims an issuer (`trusted`: GitHub or GitLab) and a repository;
\* whoever signed it held that issuer's key or did not.  `pipeline` is the repository
\* the environment names, and `keys` whether the issuer's signing key can be had.
Token == [trusted : BOOLEAN, genuine : BOOLEAN, forTainted : BOOLEAN, live : BOOLEAN,
          repo : {"ours", "theirs"}, pipeline : {"ours", ""}, keys : BOOLEAN]

\* Fault: a signature nobody could check counts as good.
SignatureUncheckedIsGood(t) == ~t.keys \/ (t.genuine /\ t.forTainted /\ t.live)

\* verify_signature; SignatureUnavailable refuses as a bad signature does.
SignatureVerified(t) == t.keys /\ t.genuine /\ t.forTainted /\ t.live

VerifyCiOwnership(t) ==
    /\ t.trusted
    /\ t.pipeline # ""
    /\ t.repo = t.pipeline
    /\ SignatureVerified(t)

Own ==
    /\ at = "owning"
    /\ \/ target = "local" /\ verified' = TRUE /\ UNCHANGED token
       \/ target = "remote" /\ UNCHANGED <<token, verified>>  \* no token, or no JWT
       \/ target = "remote" /\ \E t \in Token : token' = <<t>> /\ verified' = VerifyCiOwnership(t)
    /\ at' = IF verified' THEN "proving" ELSE "reporting"
    /\ UNCHANGED <<target, ran, fixed, said, replies>>

-----------------------------------------------------------------------------
\* What prove can make of a candidate, and whether B got at A's record.  A refusal
\* that the owner meets as well is only reported, though the attack was sent.
Outcomes(c) ==
    {[status |-> "reported", executed |-> FALSE, broke |-> FALSE]}
    \cup IF CheckOf[c] \in {"tool_tenancy", "test_integrity"} \/ c \in Coded THEN {}
         ELSE {[status |-> "proven", executed |-> TRUE, broke |-> TRUE],
               [status |-> "not_reproduced", executed |-> TRUE, broke |-> FALSE],
               [status |-> "reported", executed |-> TRUE, broke |-> FALSE]}

\* ranked(): whatever the scores, the structural ones first.
RankedOrders(s) ==
    {[i \in DOMAIN s |-> s[p[i]]] : p \in
        {p \in [DOMAIN s -> DOMAIN s] :
            /\ \A k \in DOMAIN s : \E i \in DOMAIN s : p[i] = k
            /\ \A i, j \in DOMAIN s : s[p[j]] \in Structural /\ i < j => s[p[i]] \in Structural}}

Prove ==
    /\ at = "proving"
    /\ \E order \in RankedOrders(analysed) :
       \E out \in {o \in [ToSet(order) -> UNION {Outcomes(c) : c \in ToSet(order)}] :
                      \A c \in ToSet(order) : o[c] \in Outcomes(c)} :
          /\ findings' = [i \in DOMAIN order |->
                [cand |-> order[i], status |-> out[order[i]].status,
                 executed |-> out[order[i]].executed]]
          /\ replies' = replies \cup
                           {[to |-> "attack", what |-> c, bad |-> out[c].broke] :
                               c \in {c \in ToSet(order) : out[c].executed}}
    /\ at' = "fixing"
    /\ UNCHANGED <<target, token, verified, analysed, fixed, said>>

-----------------------------------------------------------------------------
\* _open_fix_pr and pull_request.py.

DeterministicChecks == {"bola", "rls", "classic_injection"}

\* Fault: whatever was tried is eligible.
EligibleIfTried(f) == f.executed /\ CheckOf[f.cand] \in DeterministicChecks

Eligible(f) == f.status = "proven" /\ CheckOf[f.cand] \in DeterministicChecks

\* _fix_request_plane, _fix_classic_injection: which edit a candidate gets.
ByMigration(c) == CheckOf[c] = "rls" \/ (CheckOf[c] = "bola" /\ c \notin Routed)

\* edit_target: an edit that replaces a snippet goes beside its file, and any other
\* takes the place of the file.
EditTarget(c, stamp) ==
    IF ByMigration(c) THEN <<"migration", TableOf[c], stamp>>
    ELSE IF c \in Spliced THEN <<"sibling", FileOf[c]>>
    ELSE <<"file", FileOf[c]>>

MayLeave(c) == ~ByMigration(c) /\ FileOf[c] \in Linked

Written == {p \in Path : tree[p] # "source"}

\* TAINTED_FIX may be off, and nothing may be eligible.
Fix ==
    /\ at = "fixing"
    /\ \/ at' = "reporting" /\ UNCHANGED fixes
       \/ /\ \E f \in ToSet(findings) : Eligible(f)
          /\ fixes' = findings
          /\ at' = "writing"
    /\ UNCHANGED <<target, token, verified, ran, tree, git, said, replies>>

\* The first of the eligible that are left.
First(i) ==
    /\ i \in DOMAIN fixes /\ Eligible(fixes[i])
    /\ \A j \in DOMAIN fixes : j < i => ~Eligible(fixes[j])

\* apply_edits: a path that leaves the checkout gives the whole request up, with
\* the edits before it written.
WriteEdit ==
    /\ at = "writing"
    /\ \E i \in DOMAIN fixes :
          /\ First(i)
          /\ LET c == fixes[i].cand IN
             \/ /\ MayLeave(c)
                /\ at' = "reporting"
                /\ UNCHANGED <<fixes, tree>>
             \/ /\ \E stamp \in Stamp : tree' = [tree EXCEPT ![EditTarget(c, stamp)] = c]
                /\ fixes' = SubSeq(fixes, i + 1, Len(fixes))
                /\ at' = IF \E f \in ToSet(fixes') : Eligible(f) THEN "writing" ELSE "checkout"
    /\ UNCHANGED <<target, token, verified, ran, git, said, replies>>

\* open_pull_request: one command after another, the first that fails ends it.
Step(place, next, after) ==
    /\ at = place
    /\ \/ at' = "reporting" /\ UNCHANGED git
       \/ at' = next /\ git' = after
    /\ UNCHANGED <<target, token, verified, ran, fixes, tree, said, replies>>

Checkout == Step("checkout", "add", [git EXCEPT !.branch = "fix"])
Add      == Step("add", "commit", [git EXCEPT !.index = Written])
Commit   == Step("commit", "push", [git EXCEPT !.commit = [p \in git.index |-> tree[p]]])
Push     == Step("push", "request", [git EXCEPT !.pushed = TRUE])
Request  == Step("request", "reporting", [git EXCEPT !.open = TRUE])

-----------------------------------------------------------------------------
\* The report.  The analysis may have left agents out: one filtered, another whose
\* pass failed.  A SARIF file or a receipt that cannot be written is a warning.
BuildReport ==
    /\ at = "reporting"
    /\ \E left \in SUBSET {"agent_injection"} :
          notes' = Coverage(analysed, findings, left, left)
    /\ at' = IF target = "none" THEN "gating" ELSE "ruling"
    /\ UNCHANGED <<target, token, verified, ran, fixed, verdicts, owner, replies, exit>>

\* invariants.py.  The model makes a request of the rule, or none, or a write, which
\* is not sent.
MarkerPresent(ok, quoted) == ok /\ quoted

\* The routes are those of the checkout as it is now.
Routes == {f \in Declaring : tree[<<"file", f>>] = "source"}

CheckOne(r) ==
    \/ /\ verdicts' = [verdicts EXCEPT ![r] = "not_tested"]
       /\ UNCHANGED replies
    \/ /\ target = "local" \/ verified
       /\ Routes # {}
       /\ \E ok, quoted \in BOOLEAN :
             /\ verdicts' = [verdicts EXCEPT ![r] =
                                IF MarkerPresent(ok, quoted) THEN "violated" ELSE "held"]
             /\ replies' = replies \cup {[to |-> "rule", what |-> r, bad |-> ok /\ quoted]}

CheckInvariants ==
    /\ at = "ruling"
    /\ \/ at' = "asking" /\ UNCHANGED <<verdicts, replies>>  \* no rules, or no more of them
       \/ at' = "ruling" /\ \E r \in Rule : verdicts[r] = "unasked" /\ CheckOne(r)
    /\ UNCHANGED <<target, token, verified, ran, fixed, notes, owner, exit>>

\* lockout_check, when TAINTED_LOCKOUT asks for it.
LockoutCheck ==
    /\ at = "asking"
    /\ at' = "gating"
    /\ \/ owner' \in {"unasked", "undecided"} /\ UNCHANGED replies
       \/ /\ target = "local" \/ verified
          /\ \E lost \in BOOLEAN :
                /\ owner' = IF lost THEN "locked out" ELSE "reachable"
                /\ replies' = replies \cup {[to |-> "owner", what |-> "seed", bad |-> lost]}
    /\ UNCHANGED <<target, token, verified, ran, fixed, notes, verdicts, exit>>

\* Fault: only what is above the threshold blocks.
BlockingAbove(failOn) == {c \in WithStatus(findings, "proven") : SeverityOf[c] > failOn}

Blocking(failOn) == {c \in WithStatus(findings, "proven") : SeverityOf[c] >= failOn}

\* _emit and the gate, for the threshold TAINTED_FAIL_ON names.
Gate(failOn) ==
    /\ at = "gating"
    /\ at' = "over"
    /\ exit' = IF \/ Blocking(failOn) # {}
                  \/ \E r \in Rule : verdicts[r] = "violated"
                  \/ owner = "locked out"
               THEN "1" ELSE "0"
    /\ UNCHANGED <<target, token, verified, ran, fixed, notes, verdicts, owner, replies>>

\* An exception nothing catches: the analysis, a token whose claims are no object, a
\* probe, a file that cannot be written, a git command that takes too long, a login that
\* fails, a summary that cannot be written.
Raise ==
    /\ at \notin {"configuring", "narrowing", "reporting", "over"}
    /\ at = "owning" => target = "remote"
    /\ at' = "over"
    /\ exit' = "crash"
    /\ UNCHANGED <<target, token, verified, ran, fixed, notes, verdicts, owner, replies>>

FailOn == 0..4

Next ==
    \/ Configure \/ Reach \/ Analyse \/ Narrow \/ Own \/ Prove \/ Fix \/ WriteEdit
    \/ Checkout \/ Add \/ Commit \/ Push \/ Request
    \/ BuildReport \/ CheckInvariants \/ LockoutCheck
    \/ \E failOn \in FailOn : Gate(failOn)
    \/ Raise

Spec == Init /\ [][Next]_vars

-----------------------------------------------------------------------------
(* Properties. *)

TypeOK ==
    /\ at \in Places
    /\ target \in {"none", "local", "remote"}
    /\ token = <<>> \/ token \in Seq(Token)
    /\ verified \in BOOLEAN
    /\ analysed \in Seq(Candidate) /\ {findings, fixes} \subseteq Seq(Finding)
    /\ tree \in [Path -> Candidate \cup {"source"}]
    /\ git.branch \in {"head", "fix"} /\ git.index \subseteq Path
    /\ git.pushed \in BOOLEAN /\ git.open \in BOOLEAN
    /\ verdicts \in [Rule -> {"unasked", "not_tested", "held", "violated"}]
    /\ owner \in {"unasked", "undecided", "reachable", "locked out"}
    /\ exit \in {"", "0", "1", "2", "crash"}

Answered(to, what) == \E r \in replies : r.to = to /\ r.what = what
Attacks(check) == {r \in replies : r.to = "attack" /\ CheckOf[r.what] = check}
Attacked == {r.what : r \in {r \in replies : r.to = "attack"}}
Broken == {r.what : r \in {r \in replies : r.to = "attack" /\ r.bad}}

\* A remote target was attacked, asked for a rule or asked for the owner's record only
\* for a live token that a trusted issuer signed for Tainted and this repository (run,
\* verify_ci_ownership).  The comment there says every request is gated on this; the GETs
\* of the analysis are not, and are all that an unverified target gets.
NothingUnverified ==
    \A r \in replies :
        \/ r.to = "reach" /\ target # "none"
        \/ target = "local"
        \/ /\ target = "remote" /\ token # <<>>
           /\ LET t == token[1]
              IN  t.trusted /\ t.genuine /\ t.forTainted /\ t.live /\ t.repo = "ours"

\* A green job hides nothing it was told (the gate of run): no attack broke a candidate
\* at or above the threshold, no answer broke a rule or locked the owner out, and a rule
\* is held only on an answer.  Seven steps, of which six may fail or be left out, lie
\* between the answers and the exit code.  Data that the analysis was given without a
\* login is told in the report and gates nothing.
GreenHidesNothing ==
    [][\A failOn \in FailOn : Gate(failOn) /\ exit' = "0" =>
          /\ \A r \in replies : r.bad =>
                \/ r.to = "reach"
                \/ r.to = "attack" /\ ~(SeverityOf[r.what] >= failOn)
          /\ \A r \in Rule : verdicts[r] = "held" => Answered("rule", r)]_vars

\* The coverage column claims what the target's answers support (_coverage): proof for
\* a check needs an attack that broke one of its candidates, "the attack ran and did
\* not succeed" an attack, "not attempted" none, and no other note hides one that broke.
\* "No attack was run", and the SARIF legend's "not fired", are said of what was not
\* attacked, with one exception: an attack the owner's own request left undecided, which
\* is reported though it was sent.  The receipt lists what was attacked, those included,
\* and the SARIF log has an error for what was broken, and for nothing else
\* (build_receipt, to_sarif).
CoverageIsEarned ==
    /\ \A n \in notes :
          /\ n.proved => \E r \in Attacks(n.check) : r.bad
          /\ n.why = "held" => Attacks(n.check) # {}
          /\ n.why = "held" => \A r \in Attacks(n.check) : ~r.bad
          /\ n.why = "not attempted" => Attacks(n.check) = {}
          /\ n.why = "argued" => \A r \in Attacks(n.check) : ~r.bad /\ r.what \in Undecided(findings)
    /\ at \in {"ruling", "asking", "gating"} =>
          /\ {f.cand : f \in Fired(findings)} = Attacked
          /\ {s.cand : s \in {s \in Sarif(findings) : s.level = "error"}} = Broken
          /\ {s.cand : s \in {s \in Sarif(findings) : s.level = "warning"}} \cap Attacked
                = Undecided(findings)

\* The report accounts for every candidate that was kept (build_report, prioritized,
\* silence_ledger, render_markdown): each is published exactly once and listed, its
\* check has a note, and what was not broken is ranked above something that was only
\* if that is low, and below medium only if the code alone makes it certain.
EverythingIsAccountedFor ==
    at \in {"ruling", "asking", "gating"} =>
        LET published == PublishedOrder(analysed, findings)
        IN  /\ Len(published) = Len(analysed)
            /\ ToSet(published) = ToSet(analysed)
            /\ ToSet(analysed) \subseteq Listed(analysed, findings)
            /\ \A c \in ToSet(analysed) \ Broken : \E n \in notes :
                  n.check = CheckOf[c] /\ (n \in NotProved(notes) \/ \E b \in Broken : CheckOf[b] = n.check)
            /\ \A row, broken \in ToSet(Rows(analysed, findings)) :
                  (MayRankAbove(row, broken) /\ broken.cand \in Broken) =>
                     \/ row.cand \in Broken
                     \/ SeverityOf[broken.cand] = 1 /\ row.cand \in Structural
                     \/ SeverityOf[broken.cand] = 0

\* What stands in a request is what was broken (eligible, apply_edits): every edit in
\* its commit fixes a candidate an attack broke, none for which a person has to decide
\* first, and each such finding has its edit there, unless another has written the same path.
RequestCarriesTheProven ==
    git.open =>
        /\ git.pushed /\ git.branch = "fix"
        /\ \A p \in DOMAIN git.commit :
              git.commit[p] \in {c \in Broken : CheckOf[c] \in DeterministicChecks}
        /\ \A f \in ToSet(findings) : Eligible(f) =>
              \E stamp \in Stamp : EditTarget(f.cand, stamp) \in DOMAIN git.commit

=============================================================================
