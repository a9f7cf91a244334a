---------------------------- MODULE CiRunProofs -----------------------------
(***************************************************************************)
(* For every repository, every set of rules and whatever the model, the    *)
(* probes and the servers answer: what the CI job sends once the analysis  *)
(* is done, it sends to a target whose ownership was established; its      *)
(* report accounts for every candidate and claims what the answers         *)
(* support; its request carries what was broken; and a green exit hides    *)
(* nothing it was told.                                                    *)
(***************************************************************************)
EXTENDS CiRun, FiniteSetTheorems, SequenceTheorems, TLAPS

Proper(t) ==
    /\ t.trusted /\ t.genuine /\ t.forTainted /\ t.live /\ t.repo = "ours"

Earned == target = "local" \/ (target = "remote" /\ token # <<>> /\ Proper(token[1]))

Early == {"configuring", "analysing", "narrowing", "owning"}

\* Before ownership is looked at nothing is verified, and until the probes nothing was
\* answered but the analysis; from then on both a verified target and any other answer
\* mean that the gate was passed.
Owned ==
    /\ at \in Early => ~verified
    /\ at \in Early \cup {"proving"} => \A r \in replies : r.to = "reach"
    /\ at = "proving" => verified
    /\ verified => Earned
    /\ \A r \in replies : (r.to = "reach" /\ target # "none") \/ Earned

LEMMA OwnedInit == Init => Owned
BY DEF Init, Owned, Early

\* The only step that looks at a token accepts it for the right reasons.
LEMMA AcceptedIsProper ==
    ASSUME NEW t \in Token, VerifyCiOwnership(t)
    PROVE  Proper(t)
<1>1. t.pipeline \in {"ours", ""} /\ t.pipeline # "" /\ t.repo = t.pipeline
  BY DEF Token, VerifyCiOwnership
<1>2. t.trusted /\ t.genuine /\ t.forTainted /\ t.live
  BY DEF VerifyCiOwnership, SignatureVerified
<1> QED BY <1>1, <1>2 DEF Proper

\* A step that keeps the gate's variables and adds no answer keeps what was earned.
LEMMA OwnedKept ==
    ASSUME Owned, UNCHANGED <<target, token, verified, replies>>,
           at' \in Early => at \in Early, at' = "proving" => at = "proving"
    PROVE  Owned'
BY DEF Owned, Earned, Proper

LEMMA OwnedNext == Owned /\ [Next]_vars => Owned'
<1> SUFFICES ASSUME Owned, [Next]_vars PROVE Owned'
  OBVIOUS
<1>0. CASE Reach
  BY <1>0 DEF Reach, Owned, Earned, Proper, Early
<1>1. CASE Configure \/ Analyse \/ (\E failOn \in FailOn : Gate(failOn)) \/ Raise
  BY <1>1, OwnedKept DEF Configure, Analyse, Gate, Raise, Early
<1>2. CASE Narrow
  BY <1>2 DEF Narrow, NarrowTo, Owned, Earned, Proper, Early
<1>3. CASE Own
  <2>1. /\ ~verified /\ UNCHANGED <<target, replies>>
        /\ \A r \in replies : r.to = "reach"
    BY <1>3 DEF Own, Owned, Early
  <2>2. at' \notin Early /\ (at' = "proving" => verified')
    BY <1>3 DEF Own, Early
  <2>3. verified' => Earned'
    <3>1. CASE target = "local"
      BY <2>1, <3>1 DEF Earned
    <3>2. CASE target = "remote" /\ UNCHANGED <<token, verified>>
      BY <2>1, <3>2
    <3>3. CASE target = "remote" /\ \E t \in Token : token' = <<t>> /\ verified' = VerifyCiOwnership(t)
      <4>1. PICK t \in Token : token' = <<t>> /\ verified' = VerifyCiOwnership(t)
        BY <3>3
      <4>2. verified' => Proper(t)
        BY <4>1, AcceptedIsProper
      <4>3. token' # <<>> /\ token'[1] = t
        BY <4>1
      <4>4. Proper(t) => Proper(token'[1])
        BY <4>3
      <4> QED BY <2>1, <3>3, <4>2, <4>3, <4>4 DEF Earned, Proper
    <3> QED BY <1>3, <3>1, <3>2, <3>3 DEF Own
  <2>4. \A r \in replies' : (r.to = "reach" /\ target' # "none") \/ Earned'
    <3>1. target # "none" /\ \A r \in replies : r.to = "reach"
      BY <1>3, <2>1 DEF Own
    <3> QED BY <2>1, <3>1
  <2> QED BY <2>1, <2>2, <2>3, <2>4 DEF Owned
<1>4. CASE Prove
  BY <1>4 DEF Prove, Owned, Earned, Proper, Early
<1>5. CASE Fix \/ WriteEdit
  BY <1>5, OwnedKept DEF Fix, WriteEdit, Early
<1>6. CASE Checkout \/ Add \/ Commit \/ Push \/ Request
  BY <1>6, OwnedKept DEF Checkout, Add, Commit, Push, Request, Step, Early
<1>7. CASE BuildReport
  BY <1>7, OwnedKept DEF BuildReport, Early
<1>8. CASE CheckInvariants
  <2>1. UNCHANGED <<target, token, verified>> /\ at' \in {"ruling", "asking"}
    BY <1>8 DEF CheckInvariants
  <2>2. UNCHANGED replies \/ target = "local" \/ verified
    BY <1>8 DEF CheckInvariants, CheckOne
  <2> QED BY <2>1, <2>2 DEF Owned, Earned, Proper, Early
<1>9. CASE LockoutCheck
  <2>1. UNCHANGED <<target, token, verified>> /\ at' = "gating"
    BY <1>9 DEF LockoutCheck
  <2>2. UNCHANGED replies \/ target = "local" \/ verified
    BY <1>9 DEF LockoutCheck
  <2> QED BY <2>1, <2>2 DEF Owned, Earned, Proper, Early
<1>10. CASE UNCHANGED vars
  BY <1>10, OwnedKept DEF vars
<1> QED BY <1>0, <1>1, <1>2, <1>3, <1>4, <1>5, <1>6, <1>7, <1>8, <1>9, <1>10 DEF Next

\* A remote target is sent nothing, by the attacks, the rules or the lockout check,
\* before a trusted issuer's live token for this repository was verified: all it gets
\* unverified are the GETs of the analysis.
THEOREM NothingSentUnverified == Spec => []NothingUnverified
<1>1. Owned => NothingUnverified
  BY DEF Owned, Earned, Proper, NothingUnverified
<1> QED BY <1>1, OwnedInit, OwnedNext, PTL DEF Spec

-----------------------------------------------------------------------------
(* The gate. *)

Before == {"configuring", "analysing", "narrowing", "owning", "proving", "fixing", "writing",
           "checkout", "add", "commit", "push", "request", "reporting"}

\* Every answer that broke something has left its mark on what the gate reads, and a
\* rule is called held or violated only on an answer.
Marked ==
    /\ \A r \in replies : r.bad =>
          \/ r.to = "reach"
          \/ r.to = "attack" /\ r.what \in WithStatus(findings, "proven")
          \/ r.to = "rule" /\ r.what \in Rule /\ verdicts[r.what] = "violated"
          \/ r.to = "owner" /\ owner = "locked out"
    /\ \A r \in Rule : verdicts[r] = "held" => Answered("rule", r)

\* When each party is asked: the rules after the report, the owner after the rules.
InTurn ==
    /\ verdicts \in [Rule -> {"unasked", "not_tested", "held", "violated"}]
    /\ at \in Before => verdicts = [r \in Rule |-> "unasked"]
    /\ at \in Before \cup {"ruling", "asking"} => \A r \in replies : r.to # "owner"

Answering == Marked /\ InTurn

LEMMA AnsweringInit == Init => Answering
BY DEF Init, Answering, Marked, InTurn

\* A step that asks nobody keeps both, unless it goes back to an earlier party.
LEMMA AnsweringKept ==
    ASSUME Answering, UNCHANGED <<findings, verdicts, owner, replies>>,
           at' \in Before => at \in Before,
           at' \in Before \cup {"ruling", "asking"} => at \in Before \cup {"ruling", "asking"}
    PROVE  Answering'
BY DEF Answering, Marked, InTurn, Answered, WithStatus

\* An attack that broke a candidate makes its finding proven.
LEMMA BrokenIsProven ==
    ASSUME Prove, NEW r \in replies' \ replies, r.bad
    PROVE  r.to = "attack" /\ r.what \in WithStatus(findings', "proven")
<1>1. PICK order \in RankedOrders(analysed) :
        \E out \in {o \in [ToSet(order) -> UNION {Outcomes(c) : c \in ToSet(order)}] :
                      \A c \in ToSet(order) : o[c] \in Outcomes(c)} :
          /\ findings' = [i \in DOMAIN order |->
                [cand |-> order[i], status |-> out[order[i]].status,
                 executed |-> out[order[i]].executed]]
          /\ replies' = replies \cup
                           {[to |-> "attack", what |-> c, bad |-> out[c].broke] :
                               c \in {c \in ToSet(order) : out[c].executed}}
  BY DEF Prove
<1>2. PICK out \in {o \in [ToSet(order) -> UNION {Outcomes(c) : c \in ToSet(order)}] :
                      \A c \in ToSet(order) : o[c] \in Outcomes(c)} :
          /\ findings' = [i \in DOMAIN order |->
                [cand |-> order[i], status |-> out[order[i]].status,
                 executed |-> out[order[i]].executed]]
          /\ replies' = replies \cup
                           {[to |-> "attack", what |-> c, bad |-> out[c].broke] :
                               c \in {c \in ToSet(order) : out[c].executed}}
  BY <1>1
<1>3. PICK c \in ToSet(order) : r = [to |-> "attack", what |-> c, bad |-> out[c].broke]
  BY <1>2
<1>4. out[c].broke /\ out[c] \in Outcomes(c)
  BY <1>2, <1>3
<1>5. out[c].status = "proven"
  BY <1>4 DEF Outcomes
<1>6. PICK i \in DOMAIN order : order[i] = c
  BY DEF ToSet
<1>7. /\ findings'[i] = [cand |-> c, status |-> "proven", executed |-> out[c].executed]
      /\ i \in DOMAIN findings'
  BY <1>2, <1>5, <1>6
<1>8. findings'[i] \in ToSet(findings') /\ findings'[i].status = "proven" /\ findings'[i].cand = c
  BY <1>7 DEF ToSet
<1>9. c \in WithStatus(findings', "proven")
  BY <1>8 DEF WithStatus
<1> QED BY <1>3, <1>9

LEMMA AnsweringNext == Owned /\ Answering /\ [Next]_vars => Answering'
<1> SUFFICES ASSUME Owned, Answering, [Next]_vars PROVE Answering'
  OBVIOUS
<1>0. CASE Reach
  <2>1. PICK new : new.to = "reach" /\ replies' = replies \cup {new}
    BY <1>0 DEF Reach
  <2>2. UNCHANGED <<at, findings, verdicts, owner>>
    BY <1>0 DEF Reach, ran, said
  <2>3. Marked'
    BY <2>1, <2>2 DEF Answering, Marked, Answered, WithStatus
  <2>4. InTurn'
    BY <2>1, <2>2 DEF Answering, InTurn
  <2> QED BY <2>3, <2>4 DEF Answering
<1>1. CASE Configure \/ Analyse \/ Narrow \/ Own
  BY <1>1, AnsweringKept DEF Configure, Analyse, Narrow, NarrowTo, Own, said, ran, Before
<1>2. CASE Prove
  <2>1. at = "proving" /\ at \in Before /\ at' \in Before /\ UNCHANGED <<verdicts, owner>>
    BY <1>2 DEF Prove, Before, said
  <2>2. Marked'
    <3>0. \A r \in replies : r.to = "reach"
      BY <2>1 DEF Owned
    <3>1. \A r \in replies' : r.bad =>
            \/ r.to = "reach"
            \/ r.to = "attack" /\ r.what \in WithStatus(findings', "proven")
      BY <1>2, <3>0, BrokenIsProven
    <3>2. \A r \in Rule : verdicts[r] = "unasked"
      BY <2>1 DEF Answering, InTurn
    <3> QED BY <2>1, <3>1, <3>2 DEF Marked, WithStatus
  <2>3. \A r \in replies' : r.to # "owner"
    BY <1>2, <2>1 DEF Prove, Answering, InTurn
  <2> QED BY <2>1, <2>2, <2>3 DEF Answering, InTurn
<1>3. CASE Fix \/ WriteEdit \/ Checkout \/ Add \/ Commit \/ Push \/ Request
  BY <1>3, AnsweringKept
     DEF Fix, WriteEdit, Checkout, Add, Commit, Push, Request, Step, said, ran, Before
<1>4. CASE BuildReport
  BY <1>4, AnsweringKept DEF BuildReport, ran, Before
<1>5. CASE CheckInvariants
  <2>1. at = "ruling" /\ at' \in {"ruling", "asking"} /\ UNCHANGED <<findings, owner>>
    BY <1>5 DEF CheckInvariants, ran
  <2>2. CASE UNCHANGED <<verdicts, replies>>
    BY <2>1, <2>2, AnsweringKept DEF Before
  <2>3. ASSUME NEW r \in Rule, verdicts[r] = "unasked", CheckOne(r)
        PROVE  Answering'
    <3>1. PICK said1 \in {"not_tested", "held", "violated"} : verdicts' = [verdicts EXCEPT ![r] = said1]
      BY <2>3 DEF CheckOne
    <3>2. verdicts' \in [Rule -> {"unasked", "not_tested", "held", "violated"}]
      BY <3>1 DEF Answering, InTurn
    <3>3. \A q \in Rule \ {r} : verdicts'[q] = verdicts[q]
      BY <3>1 DEF Answering, InTurn
    <3>4. CASE UNCHANGED replies /\ verdicts' = [verdicts EXCEPT ![r] = "not_tested"]
      <4>1. verdicts'[r] = "not_tested"
        BY <3>4 DEF Answering, InTurn
      <4>2. Marked'
        BY <2>1, <2>3, <3>3, <3>4, <4>1 DEF Answering, Marked, Answered, WithStatus
      <4> QED BY <2>1, <3>2, <3>4, <4>2 DEF Answering, InTurn, Before
    <3>5. ASSUME NEW ok \in BOOLEAN, NEW quoted \in BOOLEAN,
                 verdicts' = [verdicts EXCEPT ![r] =
                                IF MarkerPresent(ok, quoted) THEN "violated" ELSE "held"],
                 replies' = replies \cup {[to |-> "rule", what |-> r, bad |-> ok /\ quoted]}
          PROVE  Answering'
      <4> DEFINE new == [to |-> "rule", what |-> r, bad |-> ok /\ quoted]
      <4>1. verdicts'[r] = IF ok /\ quoted THEN "violated" ELSE "held"
        BY <3>5 DEF Answering, InTurn, MarkerPresent
      <4>2. new.to = "rule" /\ new.what = r /\ (new.bad => verdicts'[r] = "violated")
        BY <4>1
      <4> HIDE DEF new
      <4>3. replies' = replies \cup {new}
        BY <3>5 DEF new
      <4>4. Answered("rule", r)' /\ \A q \in Rule : Answered("rule", q) => Answered("rule", q)'
        BY <4>2, <4>3 DEF Answered
      <4>5. \A q \in Rule : verdicts'[q] = "held" => Answered("rule", q)'
        BY <3>3, <4>4 DEF Answering, Marked
      <4>6. \A a \in replies : a.bad =>
              \/ a.to = "reach"
              \/ a.to = "attack" /\ a.what \in WithStatus(findings, "proven")
              \/ a.to = "rule" /\ a.what \in Rule /\ verdicts'[a.what] = "violated"
              \/ a.to = "owner" /\ owner = "locked out"
        BY <2>3, <3>3 DEF Answering, Marked
      <4>7. Marked'
        BY <2>1, <4>2, <4>3, <4>5, <4>6 DEF Marked, WithStatus
      <4>8. \A a \in replies' : a.to # "owner"
        BY <2>1, <4>2, <4>3 DEF Answering, InTurn
      <4> QED BY <2>1, <3>2, <4>7, <4>8 DEF Answering, InTurn, Before
    <3> QED BY <2>3, <3>4, <3>5 DEF CheckOne
  <2> QED BY <1>5, <2>2, <2>3 DEF CheckInvariants
<1>6. CASE LockoutCheck
  <2>1. at = "asking" /\ at' = "gating" /\ UNCHANGED <<findings, verdicts>>
    BY <1>6 DEF LockoutCheck, ran
  <2>2. \A r \in replies : r.to # "owner"
    BY <2>1 DEF Answering, InTurn
  <2>3. CASE UNCHANGED replies
    BY <2>1, <2>2, <2>3 DEF Answering, Marked, InTurn, Answered, WithStatus, Before
  <2>4. ASSUME NEW lost \in BOOLEAN, owner' = IF lost THEN "locked out" ELSE "reachable",
               replies' = replies \cup {[to |-> "owner", what |-> "seed", bad |-> lost]}
        PROVE  Answering'
    <3>1. PICK new : new.to = "owner" /\ (new.bad => owner' = "locked out")
                     /\ replies' = replies \cup {new}
      BY <2>4
    <3>2. Marked'
      BY <2>1, <2>2, <3>1 DEF Answering, Marked, Answered, WithStatus
    <3> QED BY <2>1, <3>2 DEF Answering, InTurn, Before
  <2> QED BY <1>6, <2>3, <2>4 DEF LockoutCheck
<1>7. CASE (\E failOn \in FailOn : Gate(failOn)) \/ Raise
  BY <1>7, AnsweringKept DEF Gate, Raise, ran, Before
<1>8. CASE UNCHANGED vars
  BY <1>8, AnsweringKept DEF vars
<1> QED BY <1>0, <1>1, <1>2, <1>3, <1>4, <1>5, <1>6, <1>7, <1>8 DEF Next

\* A green job hides nothing it was told, for any candidates, rules, threshold and
\* answers (the gate of run).
THEOREM GreenIsEarned == Spec => GreenHidesNothing
<1>1. Answering /\ [Next]_vars =>
        [\A failOn \in FailOn : Gate(failOn) /\ exit' = "0" =>
            /\ \A r \in replies : r.bad =>
                  \/ r.to = "reach"
                  \/ r.to = "attack" /\ ~(SeverityOf[r.what] >= failOn)
            /\ \A r \in Rule : verdicts[r] = "held" => Answered("rule", r)]_vars
  <2> SUFFICES ASSUME Answering, NEW failOn \in FailOn, Gate(failOn), exit' = "0"
               PROVE  /\ \A r \in replies : r.bad =>
                            \/ r.to = "reach"
                            \/ r.to = "attack" /\ ~(SeverityOf[r.what] >= failOn)
                      /\ \A r \in Rule : verdicts[r] = "held" => Answered("rule", r)
    OBVIOUS
  <2>1. /\ Blocking(failOn) = {}
        /\ \A r \in Rule : verdicts[r] # "violated"
        /\ owner # "locked out"
    BY DEF Gate
  <2>2. \A r \in replies : r.bad =>
           \/ r.to = "reach"
           \/ r.to = "attack" /\ r.what \in WithStatus(findings, "proven")
    BY <2>1 DEF Answering, Marked
  <2> QED BY <2>1, <2>2 DEF Blocking, Answering, Marked
<1> QED BY <1>1, OwnedInit, OwnedNext, AnsweringInit, AnsweringNext, PTL DEF Spec, GreenHidesNothing

-----------------------------------------------------------------------------
(* The report. *)

\* What a finding says of the answer its exploit got.
Tells(f, r) == r.to = "attack" /\ r.what = f.cand /\ (r.bad <=> f.status = "proven")

\* The findings and the answers to the attacks tell the same.
Faithful ==
    /\ \A f \in ToSet(findings) :
          /\ f.status \in {"proven", "not_reproduced", "reported"}
          /\ f.status \in {"proven", "not_reproduced"} => f.executed
          /\ f.executed => \E r \in replies : Tells(f, r)
    /\ \A r \in replies : r.to = "attack" => \E f \in Fired(findings) : Tells(f, r)
    /\ \A f, g \in ToSet(findings) : f.cand = g.cand => f = g

\* Every note that is written claims what the answers to its check support.
Earns(n) ==
    /\ n.proved => \E r \in Attacks(n.check) : r.bad
    /\ n.why = "held" => Attacks(n.check) # {}
    /\ n.why \in {"held", "argued", "not attempted"} => \A r \in Attacks(n.check) : ~r.bad
    /\ n.why = "not attempted" => Attacks(n.check) = {}
    /\ n.why = "argued" => \A r \in Attacks(n.check) : r.what \in Undecided(findings)

Honest ==
    /\ at \in Before => notes = {}
    /\ \A n \in notes : Earns(n)

Reported == Faithful /\ Honest

LEMMA ReportedInit == Init => Reported
<1> SUFFICES ASSUME Init PROVE Reported
  OBVIOUS
<1>1. findings = <<>> /\ notes = {} /\ replies = {}
  BY DEF Init
<1>2. ToSet(findings) = {}
  BY <1>1 DEF ToSet
<1> QED BY <1>1, <1>2 DEF Reported, Faithful, Honest

\* A step that makes no finding, takes back no answer and attacks nobody keeps both.
LEMMA ReportedKept ==
    ASSUME Reported, UNCHANGED <<findings, notes>>, replies \subseteq replies',
           \A r \in replies' : r.to = "attack" => r \in replies,
           at' \in Before => at \in Before
    PROVE  Reported'
<1>1. Faithful'
  BY DEF Reported, Faithful, Fired, Tells
<1>2. \A check : Attacks(check)' = Attacks(check)
  BY DEF Attacks
<1>3. Honest'
  BY <1>2 DEF Reported, Honest, Earns, Undecided, Fired
<1> QED BY <1>1, <1>3 DEF Reported

LEMMA OutcomesTell ==
    ASSUME NEW c, NEW o \in Outcomes(c)
    PROVE  /\ o.status \in {"proven", "not_reproduced", "reported"}
           /\ o.status \in {"proven", "not_reproduced"} => o.executed
           /\ o.broke <=> o.status = "proven"
           /\ o.executed \in BOOLEAN
<1>1. \/ o = [status |-> "reported", executed |-> FALSE, broke |-> FALSE]
      \/ o = [status |-> "proven", executed |-> TRUE, broke |-> TRUE]
      \/ o = [status |-> "not_reproduced", executed |-> TRUE, broke |-> FALSE]
      \/ o = [status |-> "reported", executed |-> TRUE, broke |-> FALSE]
  BY DEF Outcomes
<1>2. o.status \in {"proven", "not_reproduced", "reported"}
  BY <1>1
<1>3. o.executed \in BOOLEAN
  <2>1. o.executed = TRUE \/ o.executed = FALSE
    BY <1>1
  <2> QED BY <2>1
<1>4. o.status \in {"proven", "not_reproduced"} => o.executed
  BY <1>1
<1>5. o.status = "proven" => o.broke
  BY <1>1
<1>6. o.broke => o.status = "proven"
  BY <1>1
<1> QED BY <1>2, <1>3, <1>4, <1>5, <1>6

LEMMA ProveIsFaithful == Owned /\ Prove => Faithful'
<1> SUFFICES ASSUME Owned, Prove PROVE Faithful'
  OBVIOUS
<1>1. PICK order \in RankedOrders(analysed) :
        \E out \in {o \in [ToSet(order) -> UNION {Outcomes(c) : c \in ToSet(order)}] :
                      \A c \in ToSet(order) : o[c] \in Outcomes(c)} :
          /\ findings' = [i \in DOMAIN order |->
                [cand |-> order[i], status |-> out[order[i]].status,
                 executed |-> out[order[i]].executed]]
          /\ replies' = replies \cup
                           {[to |-> "attack", what |-> c, bad |-> out[c].broke] :
                               c \in {c \in ToSet(order) : out[c].executed}}
  BY DEF Prove
<1>2. PICK out \in {o \in [ToSet(order) -> UNION {Outcomes(c) : c \in ToSet(order)}] :
                      \A c \in ToSet(order) : o[c] \in Outcomes(c)} :
          /\ findings' = [i \in DOMAIN order |->
                [cand |-> order[i], status |-> out[order[i]].status,
                 executed |-> out[order[i]].executed]]
          /\ replies' = replies \cup
                           {[to |-> "attack", what |-> c, bad |-> out[c].broke] :
                               c \in {c \in ToSet(order) : out[c].executed}}
  BY <1>1
<1> DEFINE Made(c) == [cand |-> c, status |-> out[c].status, executed |-> out[c].executed]
           Answer(c) == [to |-> "attack", what |-> c, bad |-> out[c].broke]
<1>3. \A c \in ToSet(order) : out[c] \in Outcomes(c)
  BY <1>2
<1>4. ToSet(findings') = {Made(c) : c \in ToSet(order)}
  BY <1>2 DEF ToSet
<1>5. replies' = replies \cup {Answer(c) : c \in {c \in ToSet(order) : out[c].executed}}
  BY <1>2
<1>6. \A c \in ToSet(order) : Tells(Made(c), Answer(c))
  BY <1>3, OutcomesTell DEF Tells
<1>7. ASSUME NEW f \in ToSet(findings')
      PROVE  /\ f.status \in {"proven", "not_reproduced", "reported"}
             /\ f.status \in {"proven", "not_reproduced"} => f.executed
             /\ f.executed => \E r \in replies' : Tells(f, r)
  <2>1. PICK c \in ToSet(order) : f = Made(c)
    BY <1>4, <1>7
  <2>2. out[c] \in Outcomes(c) /\ f.status = out[c].status /\ f.executed = out[c].executed
    BY <1>3, <2>1
  <2>3. f.executed => Answer(c) \in replies' /\ Tells(f, Answer(c))
    BY <1>5, <1>6, <2>1, <2>2
  <2> QED BY <2>2, <2>3, OutcomesTell
<1>8. ASSUME NEW r \in replies', r.to = "attack"
      PROVE  \E f \in Fired(findings') : Tells(f, r)
  <2>0. r \notin replies
    BY <1>8 DEF Prove, Owned
  <2>1. PICK c \in ToSet(order) : out[c].executed /\ r = Answer(c)
    BY <1>5, <1>8, <2>0
  <2>2. Made(c) \in ToSet(findings') /\ Made(c).executed /\ Tells(Made(c), r)
    BY <1>4, <1>6, <2>1
  <2> QED BY <2>2 DEF Fired
<1>9. \A f, g \in ToSet(findings') : f.cand = g.cand => f = g
  BY <1>4
<1> QED BY <1>7, <1>8, <1>9 DEF Faithful, Fired, Tells

\* What build_report says of a check is what the attacks of that check found.
LEMMA NotesAreEarned ==
    ASSUME Faithful, NEW check
    PROVE  Earns(CoverageNote(check, findings))
<1> DEFINE for == {f \in ToSet(findings) : CheckOf[f.cand] = check}
           why == CASE check = "test_integrity" -> "measured"
                    [] for = {} -> "not attempted"
                    [] OTHER ->
                         IF \E f \in for : f.status \in ProofEstablishing THEN "proven"
                         ELSE IF \E f \in for : f.status = "not_reproduced" THEN "held"
                         ELSE "argued"
<1>1. CoverageNote(check, findings) = [check |-> check, proved |-> why = "proven", why |-> why]
  BY DEF CoverageNote
<1>2. why = "proven" => \E f \in for : f.status \in ProofEstablishing
  OBVIOUS
<1>3. why = "held" => \E f \in for : f.status = "not_reproduced"
  OBVIOUS
<1>4. why \in {"held", "argued", "not attempted"} => \A f \in for : f.status \notin ProofEstablishing
  OBVIOUS
<1>5. \A f \in for : f.executed => \E r \in Attacks(check) : (r.bad <=> f.status = "proven")
  BY DEF Faithful, Attacks, Tells
<1>6. \A r \in Attacks(check) : \E f \in for : (r.bad <=> f.status = "proven")
  BY DEF Faithful, Attacks, Tells, Fired
<1>11. why = "not attempted" => Attacks(check) = {}
  BY <1>6
<1>12. why = "argued" => \A r \in Attacks(check) : r.what \in Undecided(findings)
  <2> SUFFICES ASSUME why = "argued", NEW r \in Attacks(check) PROVE r.what \in Undecided(findings)
    OBVIOUS
  <2>1. PICK f \in Fired(findings) : Tells(f, r)
    BY DEF Faithful, Attacks
  <2>2. f \in for /\ f.cand = r.what
    BY <2>1 DEF Tells, Fired, Attacks
  <2>3. f.status # "not_reproduced" /\ f.status # "proven"
    BY <2>2 DEF ProofEstablishing
  <2>4. f.status = "reported"
    BY <2>2, <2>3 DEF Faithful
  <2> QED BY <2>1, <2>2, <2>4 DEF Undecided
<1> HIDE DEF for, why
<1>7. why = "proven" => \E r \in Attacks(check) : r.bad
  <2> SUFFICES ASSUME why = "proven" PROVE \E r \in Attacks(check) : r.bad
    OBVIOUS
  <2>1. PICK f \in for : f.status \in ProofEstablishing
    BY <1>2
  <2>2. f.status = "proven" /\ f.executed
    BY <2>1 DEF for, Faithful, ProofEstablishing
  <2> QED BY <1>5, <2>2
<1>8. why = "held" => Attacks(check) # {}
  <2> SUFFICES ASSUME why = "held" PROVE Attacks(check) # {}
    OBVIOUS
  <2>1. PICK f \in for : f.status = "not_reproduced"
    BY <1>3
  <2>2. f.executed
    BY <2>1 DEF for, Faithful
  <2> QED BY <1>5, <2>2
<1>9. why \in {"held", "argued", "not attempted"} => \A r \in Attacks(check) : ~r.bad
  BY <1>4, <1>6 DEF ProofEstablishing
<1>10. /\ CoverageNote(check, findings).check = check
       /\ CoverageNote(check, findings).why = why
       /\ CoverageNote(check, findings).proved = (why = "proven")
  BY <1>1
<1> QED BY <1>7, <1>8, <1>9, <1>10, <1>11, <1>12 DEF Earns

LEMMA ReportedNext == Owned /\ Reported /\ [Next]_vars => Reported'
<1> SUFFICES ASSUME Owned, Reported, [Next]_vars PROVE Reported'
  OBVIOUS
<1>0. CASE Reach
  <2>1. PICK new : new.to = "reach" /\ replies' = replies \cup {new}
    BY <1>0 DEF Reach
  <2>2. UNCHANGED <<at, findings, notes>>
    BY <1>0 DEF Reach, ran, said
  <2>3. replies \subseteq replies' /\ \A r \in replies' : r.to = "attack" => r \in replies
    BY <2>1
  <2> QED BY <2>2, <2>3, ReportedKept
<1>1. CASE Configure \/ Analyse \/ Narrow \/ Own
  BY <1>1, ReportedKept DEF Configure, Analyse, Narrow, NarrowTo, Own, said, ran, Before
<1>2. CASE Prove
  <2>1. notes' = {}
    BY <1>2 DEF Prove, said, Before, Reported, Honest
  <2> QED BY <1>2, <2>1, ProveIsFaithful DEF Reported, Honest
<1>3. CASE Fix \/ WriteEdit \/ Checkout \/ Add \/ Commit \/ Push \/ Request
  BY <1>3, ReportedKept
     DEF Fix, WriteEdit, Checkout, Add, Commit, Push, Request, Step, said, ran, Before
<1>4. CASE BuildReport
  <2>1. UNCHANGED <<findings, replies>> /\ at' \notin Before
    BY <1>4 DEF BuildReport, ran, Before
  <2>2. PICK left \in SUBSET {"agent_injection"} : notes' = Coverage(analysed, findings, left, left)
    BY <1>4 DEF BuildReport
  <2>3. ASSUME NEW n \in notes' PROVE Earns(n)
    <3>1. \/ \E c \in ToSet(analysed) : n = CoverageNote(CheckOf[c], findings)
          \/ n.proved = FALSE /\ n.why \in {"filtered", "failed", "coded"}
      BY <2>2, <2>3 DEF Coverage
    <3>2. n.proved = FALSE /\ n.why \in {"filtered", "failed", "coded"} => Earns(n)
      BY DEF Earns
    <3> QED BY <3>1, <3>2, NotesAreEarned DEF Reported
  <2>4. \A n \in notes' : Earns(n)'
    BY <2>1, <2>3 DEF Earns, Attacks, Undecided, Fired
  <2> QED BY <2>1, <2>4 DEF Reported, Honest, Faithful
<1>5. CASE CheckInvariants
  <2>1. UNCHANGED <<findings, notes>> /\ at' \notin Before
    BY <1>5 DEF CheckInvariants, ran, Before
  <2>2. replies \subseteq replies' /\ \A r \in replies' : r.to = "attack" => r \in replies
    BY <1>5 DEF CheckInvariants, CheckOne
  <2> QED BY <2>1, <2>2, ReportedKept
<1>6. CASE LockoutCheck
  <2>1. UNCHANGED <<findings, notes>> /\ at' \notin Before
    BY <1>6 DEF LockoutCheck, ran, Before
  <2>2. \/ UNCHANGED replies
        \/ \E new : new.to = "owner" /\ replies' = replies \cup {new}
    BY <1>6 DEF LockoutCheck
  <2>3. replies \subseteq replies' /\ \A r \in replies' : r.to = "attack" => r \in replies
    BY <2>2
  <2> QED BY <2>1, <2>3, ReportedKept
<1>7. CASE (\E failOn \in FailOn : Gate(failOn)) \/ Raise
  BY <1>7, ReportedKept DEF Gate, Raise, ran, Before
<1>8. CASE UNCHANGED vars
  BY <1>8, ReportedKept DEF vars
<1> QED BY <1>0, <1>1, <1>2, <1>3, <1>4, <1>5, <1>6, <1>7, <1>8 DEF Next

\* The proven findings are those of the candidates an attack broke.
LEMMA BrokenIsTheProven ==
    ASSUME Reported
    PROVE  WithStatus(findings, "proven") = Broken
<1>1. \A f \in ToSet(findings) : f.status = "proven" => f.cand \in Broken
  BY DEF Reported, Faithful, Tells, Broken
<1>2. \A r \in replies : r.to = "attack" /\ r.bad => r.what \in WithStatus(findings, "proven")
  BY DEF Reported, Faithful, Tells, Fired, WithStatus
<1> QED BY <1>1, <1>2 DEF WithStatus, Broken

\* The coverage column, the receipt and the SARIF log claim what the target's answers
\* support, for any candidates and any answers (_coverage, build_receipt, to_sarif).
THEOREM CoverageEarned == Spec => []CoverageIsEarned
<1>1. Reported => CoverageIsEarned
  <2> SUFFICES ASSUME Reported PROVE CoverageIsEarned
    OBVIOUS
  <2>1. {f.cand : f \in Fired(findings)} = Attacked
    BY DEF Reported, Faithful, Tells, Fired, Attacked
  <2>2. {s.cand : s \in {s \in Sarif(findings) : s.level = "error"}} = WithStatus(findings, "proven")
    <3>1. \A f \in ToSet(findings) : SarifLevel(f.status) = "error" <=> f.status = "proven"
      BY DEF SarifLevel
    <3> DEFINE Result(f) == [cand |-> f.cand, level |-> SarifLevel(f.status)]
    <3>2. Sarif(findings) = {Result(f) : f \in ToSet(findings)}
      BY DEF Sarif
    <3>3. \A f : Result(f).cand = f.cand /\ Result(f).level = SarifLevel(f.status)
      OBVIOUS
    <3> HIDE DEF Result
    <3> QED BY <3>1, <3>2, <3>3 DEF WithStatus
  <2>3. WithStatus(findings, "proven") = Broken
    BY BrokenIsTheProven
  <2>4. {s.cand : s \in {s \in Sarif(findings) : s.level = "warning"}} \cap Attacked
           = Undecided(findings)
    <3>1. \A f \in ToSet(findings) : SarifLevel(f.status) = "warning" <=> f.status = "reported"
      BY DEF SarifLevel, Reported, Faithful
    <3> DEFINE Result(f) == [cand |-> f.cand, level |-> SarifLevel(f.status)]
    <3>2. Sarif(findings) = {Result(f) : f \in ToSet(findings)}
      BY DEF Sarif
    <3>3. \A f : Result(f).cand = f.cand /\ Result(f).level = SarifLevel(f.status)
      OBVIOUS
    <3> HIDE DEF Result
    <3>4. {s.cand : s \in {s \in Sarif(findings) : s.level = "warning"}} = WithStatus(findings, "reported")
      BY <3>1, <3>2, <3>3 DEF WithStatus
    <3>5. WithStatus(findings, "reported") \cap {f.cand : f \in Fired(findings)} = Undecided(findings)
      BY DEF Reported, Faithful, WithStatus, Fired, Undecided
    <3> QED BY <2>1, <3>4, <3>5
  <2> QED BY <2>1, <2>2, <2>3, <2>4 DEF CoverageIsEarned, Reported, Honest, Earns
<1> QED BY <1>1, OwnedInit, OwnedNext, ReportedInit, ReportedNext, PTL DEF Spec
-----------------------------------------------------------------------------
(* The types. *)

\* The places of a finite set of numbers are ranked 1, 2, ... without a gap.
LEMMA EveryRankIsTaken ==
    ASSUME NEW n \in Nat, NEW where \in SUBSET (1..n)
    PROVE  /\ IsFiniteSet(where) /\ Cardinality(where) \in Nat
           /\ \A k \in 1..Cardinality(where) :
                 \E i \in where : Cardinality({j \in where : j <= i}) = k
           /\ \A i \in where : Cardinality({j \in where : j <= i}) \in 1..Cardinality(where)
           /\ \A i, k \in where :
                 Cardinality({j \in where : j <= i}) = Cardinality({j \in where : j <= k}) => i = k
<1> DEFINE upTo(i) == {j \in where : j <= i}
           rank == [i \in where |-> Cardinality(upTo(i))]
           last == Cardinality(where)
<1>1. IsFiniteSet(1..n)
  BY FS_Interval
<1>2. IsFiniteSet(where) /\ last \in Nat
  BY <1>1, FS_Subset, FS_CardinalityType
<1>3. \A i : IsFiniteSet(upTo(i)) /\ Cardinality(upTo(i)) \in Nat /\ Cardinality(upTo(i)) <= last
  <2> SUFFICES ASSUME NEW i
               PROVE  IsFiniteSet(upTo(i)) /\ Cardinality(upTo(i)) \in Nat
                      /\ Cardinality(upTo(i)) <= last
    OBVIOUS
  <2>1. upTo(i) \in SUBSET where
    OBVIOUS
  <2>2. IsFiniteSet(upTo(i)) /\ Cardinality(upTo(i)) <= last
    BY <1>2, <2>1, FS_Subset
  <2> QED BY <2>2, FS_CardinalityType
<1>4. \A i \in where : Cardinality(upTo(i)) # 0
  <2> SUFFICES ASSUME NEW i \in where PROVE Cardinality(upTo(i)) # 0
    OBVIOUS
  <2>1. i <= i
    OBVIOUS
  <2>2. upTo(i) # {}
    BY <2>1
  <2> QED BY <1>3, <2>2, FS_EmptySet
<1>5. \A i, k \in where : i < k => Cardinality(upTo(i)) # Cardinality(upTo(k))
  <2> SUFFICES ASSUME NEW i \in where, NEW k \in where, i < k,
                      Cardinality(upTo(i)) = Cardinality(upTo(k))
               PROVE  FALSE
    OBVIOUS
  <2>1. \A j \in where : j \in Int
    OBVIOUS
  <2>2. upTo(i) \in SUBSET upTo(k)
    <3>1. \A j \in where : j <= i => j <= k
      BY <2>1
    <3> QED BY <3>1
  <2>3. k \in upTo(k) /\ k \notin upTo(i)
    BY <2>1
  <2>4. IsFiniteSet(upTo(k))
    BY <1>3
  <2> HIDE DEF upTo
  <2>5. upTo(i) = upTo(k)
    BY <2>2, <2>4, FS_Subset
  <2> QED BY <2>3, <2>5
<1>6. \A i, k \in where : Cardinality(upTo(i)) = Cardinality(upTo(k)) => i = k
  <2>1. \A i, k \in where : i < k \/ k < i \/ i = k
    OBVIOUS
  <2> HIDE DEF upTo
  <2> QED BY <1>5, <2>1
<1>7. \A i \in where : Cardinality(upTo(i)) \in 1..last
  <2> HIDE DEF upTo, last
  <2> QED BY <1>2, <1>3, <1>4
<1>8. rank \in Injection(where, 1..last)
  <2> HIDE DEF upTo, last
  <2>1. \A i \in where : rank[i] = Cardinality(upTo(i))
    OBVIOUS
  <2>2. rank \in [where -> 1..last]
    BY <1>7
  <2> HIDE DEF rank
  <2> QED BY <1>6, <2>1, <2>2 DEF Injection, IsInjective
<1>9. IsFiniteSet(1..last) /\ Cardinality(1..last) = last
  BY <1>2, FS_Interval
<1>10. rank \in Surjection(where, 1..last)
  <2> HIDE DEF rank
  <2> QED BY <1>8, <1>9, FS_Injection
<1>11. \A k \in 1..last : \E i \in where : rank[i] = k
  <2> HIDE DEF rank
  <2> QED BY <1>10 DEF Surjection
<1> QED BY <1>2, <1>6, <1>7, <1>11

\* Picking places of a list gives the list of what is there.
LEMMA PickIsOfTheList ==
    ASSUME NEW S, NEW s \in Seq(S), NEW where \in SUBSET DOMAIN s
    PROVE  /\ Pick(s, where) \in Seq(S)
           /\ Len(Pick(s, where)) = Cardinality(where)
           /\ ToSet(Pick(s, where)) = {s[i] : i \in where}
<1> DEFINE rank(i) == Cardinality({j \in where : j <= i})
           at1(k) == CHOOSE i \in where : rank(i) = k
           last == Cardinality(where)
<1>1. DOMAIN s = 1..Len(s) /\ Len(s) \in Nat /\ \A i \in DOMAIN s : s[i] \in S
  OBVIOUS
<1>2. where \in SUBSET (1..Len(s))
  BY <1>1
<1>3. /\ last \in Nat
      /\ \A k \in 1..last : \E i \in where : rank(i) = k
      /\ \A i \in where : rank(i) \in 1..last
      /\ \A i, k \in where : rank(i) = rank(k) => i = k
  BY <1>1, <1>2, EveryRankIsTaken
<1>4. Pick(s, where) = [k \in 1..last |-> s[at1(k)]]
  BY DEF Pick
<1> HIDE DEF rank, last
<1>5. \A k \in 1..last : at1(k) \in where /\ rank(at1(k)) = k
  BY <1>3
<1> HIDE DEF at1
<1>6. \A k \in 1..last : s[at1(k)] \in S
  BY <1>1, <1>5
<1>7. Pick(s, where) \in Seq(S) /\ Len(Pick(s, where)) = last /\ DOMAIN Pick(s, where) = 1..last
  BY <1>3, <1>4, <1>6
<1>8. ToSet(Pick(s, where)) \subseteq {s[i] : i \in where}
  BY <1>4, <1>5, <1>7 DEF ToSet
<1>9. ASSUME NEW i \in where PROVE s[i] \in ToSet(Pick(s, where))
  <2>1. rank(i) \in 1..last /\ at1(rank(i)) = i
    BY <1>3, <1>5
  <2>2. Pick(s, where)[rank(i)] = s[i]
    BY <1>4, <2>1
  <2> QED BY <1>7, <2>1, <2>2 DEF ToSet
<1> QED BY <1>7, <1>8, <1>9 DEF last

LEMMA OneElement ==
    ASSUME NEW S, NEW e \in S
    PROVE  <<e>> \in Seq(S)
OBVIOUS

LEMMA ElementsAreOfTheType ==
    ASSUME NEW S, NEW s \in Seq(S)
    PROVE  /\ \A k \in DOMAIN s : s[k] \in S
           /\ ToSet(s) \subseteq S
<1>1. \A k \in DOMAIN s : s[k] \in S
  OBVIOUS
<1> QED BY <1>1 DEF ToSet

\* What comes after one place of a list.
LEMMA RestOfTheList ==
    ASSUME NEW S, NEW s \in Seq(S), NEW i \in DOMAIN s
    PROVE  /\ SubSeq(s, i + 1, Len(s)) \in Seq(S)
           /\ ToSet(SubSeq(s, i + 1, Len(s))) \subseteq ToSet(s)
           /\ \A j \in DOMAIN s : j > i => s[j] \in ToSet(SubSeq(s, i + 1, Len(s)))
<1> DEFINE rest == SubSeq(s, i + 1, Len(s))
           last == Len(s)
<1>1. i \in Nat /\ i > 0 /\ last \in Nat /\ i <= last /\ DOMAIN s = 1..last
  OBVIOUS
<1>2. i + 1 \in Int /\ last \in Int /\ \A k \in (i + 1)..last : s[k] \in S
  BY <1>1
<1>3. /\ rest \in Seq(S)
      /\ Len(rest) = IF i + 1 <= last THEN last - (i + 1) + 1 ELSE 0
      /\ \A k \in 1..last - (i + 1) + 1 : rest[k] = s[i + 1 + k - 1]
  BY <1>2, SubSeqProperties
<1> HIDE DEF rest, last
<1>4. Len(rest) = last - i
  BY <1>1, <1>3
<1>5. DOMAIN rest = 1..last - i
  BY <1>3, <1>4
<1>6. \A k \in 1..last - i : rest[k] = s[i + k] /\ i + k \in DOMAIN s
  <2> SUFFICES ASSUME NEW k \in 1..last - i
               PROVE  rest[k] = s[i + k] /\ i + k \in DOMAIN s
    OBVIOUS
  <2>1. k \in Int /\ 1 <= k /\ k <= last - i
    BY <1>1
  <2>2. k \in 1..last - (i + 1) + 1 /\ i + 1 + k - 1 = i + k /\ i + k \in 1..last
    BY <1>1, <2>1
  <2> QED BY <1>1, <1>3, <2>2
<1>7. ToSet(rest) \subseteq ToSet(s)
  BY <1>5, <1>6 DEF ToSet
<1>8. ASSUME NEW j \in DOMAIN s, j > i PROVE s[j] \in ToSet(rest)
  <2>1. j - i \in 1..last - i /\ i + (j - i) = j
    BY <1>1, <1>8
  <2>2. rest[j - i] = s[j]
    BY <1>6, <2>1
  <2> QED BY <1>5, <2>1, <2>2 DEF ToSet
<1> QED BY <1>3, <1>7, <1>8 DEF rest, last

LEMMA RankingIsOfTheList ==
    ASSUME NEW S, NEW s \in Seq(S), NEW r \in RankedOrders(s)
    PROVE  r \in Seq(S) /\ Len(r) = Len(s) /\ ToSet(r) = ToSet(s)
<1>1. PICK p \in [DOMAIN s -> DOMAIN s] :
        /\ \A k \in DOMAIN s : \E i \in DOMAIN s : p[i] = k
        /\ r = [i \in DOMAIN s |-> s[p[i]]]
  BY DEF RankedOrders
<1>2. DOMAIN s = 1..Len(s) /\ Len(s) \in Nat
  OBVIOUS
<1>3. r \in Seq(S) /\ Len(r) = Len(s)
  BY <1>1, <1>2
<1>4. ToSet(r) = ToSet(s)
  BY <1>1 DEF ToSet
<1> QED BY <1>3, <1>4

\* What the job knows of the repository's work tree is one record.
GitRecord ==
    git = [branch |-> git.branch, index |-> git.index, commit |-> git.commit,
           pushed |-> git.pushed, open |-> git.open]

Typed == TypeOK /\ GitRecord

LEMMA TypedInit == Init => Typed
<1> SUFFICES ASSUME Init PROVE Typed
  OBVIOUS
<1>1. tree \in [Path -> Candidate \cup {"source"}]
  BY DEF Init
<1>2. verdicts \in [Rule -> {"unasked", "not_tested", "held", "violated"}]
  BY DEF Init
<1>3. <<>> \in Seq(Candidate) /\ <<>> \in Seq(Finding)
  OBVIOUS
<1>4. /\ git.branch = "head" /\ git.index = {} /\ git.commit = <<>>
      /\ git.pushed = FALSE /\ git.open = FALSE /\ GitRecord
  BY DEF Init, GitRecord
<1> QED BY <1>1, <1>2, <1>3, <1>4 DEF Init, Typed, TypeOK, Places

LEMMA ProveTyped ==
    ASSUME analysed \in Seq(Candidate), Prove
    PROVE  findings' \in Seq(Finding)
<1>1. PICK order \in RankedOrders(analysed) :
        \E out \in {o \in [ToSet(order) -> UNION {Outcomes(c) : c \in ToSet(order)}] :
                      \A c \in ToSet(order) : o[c] \in Outcomes(c)} :
          findings' = [i \in DOMAIN order |->
                [cand |-> order[i], status |-> out[order[i]].status,
                 executed |-> out[order[i]].executed]]
  BY DEF Prove
<1>2. PICK out \in {o \in [ToSet(order) -> UNION {Outcomes(c) : c \in ToSet(order)}] :
                      \A c \in ToSet(order) : o[c] \in Outcomes(c)} :
          findings' = [i \in DOMAIN order |->
                [cand |-> order[i], status |-> out[order[i]].status,
                 executed |-> out[order[i]].executed]]
  BY <1>1
<1>3. order \in Seq(Candidate)
  BY RankingIsOfTheList
<1>4. DOMAIN order = 1..Len(order) /\ Len(order) \in Nat /\ \A i \in DOMAIN order : order[i] \in Candidate
  BY <1>3
<1>5. ASSUME NEW i \in DOMAIN order
      PROVE  [cand |-> order[i], status |-> out[order[i]].status,
              executed |-> out[order[i]].executed] \in Finding
  <2>1. out[order[i]] \in Outcomes(order[i])
    BY <1>2, <1>5 DEF ToSet
  <2>2. out[order[i]].status \in Status /\ out[order[i]].executed \in BOOLEAN
    BY <2>1, OutcomesTell DEF Status
  <2> QED BY <1>4, <1>5, <2>2 DEF Finding
<1> QED BY <1>2, <1>4, <1>5

\* Each command of the request changes one field of the record.
LEMMA CommandsTyped ==
    ASSUME Typed, Checkout \/ Add \/ Commit \/ Push \/ Request
    PROVE  /\ git'.branch \in {"head", "fix"} /\ git'.index \subseteq Path
           /\ git'.pushed \in BOOLEAN /\ git'.open \in BOOLEAN
           /\ GitRecord'
<1>1. CASE UNCHANGED git
  BY <1>1 DEF Typed, TypeOK, GitRecord
<1>2. CASE \/ git' = [git EXCEPT !.branch = "fix"]
           \/ git' = [git EXCEPT !.index = Written]
           \/ git' = [git EXCEPT !.commit = [p \in git.index |-> tree[p]]]
           \/ git' = [git EXCEPT !.pushed = TRUE]
           \/ git' = [git EXCEPT !.open = TRUE]
  <2>1. PICK b, i, c, s, o :
          /\ git' = [branch |-> b, index |-> i, commit |-> c, pushed |-> s, open |-> o]
          /\ b \in {git.branch, "fix"} /\ i \in {git.index, Written}
          /\ s \in {git.pushed, TRUE} /\ o \in {git.open, TRUE}
    BY <1>2 DEF Typed, GitRecord
  <2>2. git'.branch = b /\ git'.index = i /\ git'.commit = c /\ git'.pushed = s /\ git'.open = o
    BY <2>1
  <2>3. Written \subseteq Path
    BY DEF Written
  <2> QED BY <2>1, <2>2, <2>3 DEF Typed, TypeOK, GitRecord
<1> QED BY <1>1, <1>2 DEF Checkout, Add, Commit, Push, Request, Step

LEMMA TypedNext == Typed /\ [Next]_vars => Typed'
<1> SUFFICES ASSUME Typed, [Next]_vars PROVE Typed'
  OBVIOUS
<1> USE DEF Typed, TypeOK
<1>1. CASE Configure
  <2>1. at' \in Places /\ exit' \in {"", "0", "1", "2", "crash"}
    BY <1>1 DEF Configure, Places
  <2> QED BY <1>1, <2>1 DEF Configure, ran, fixed, GitRecord
<1>0. CASE Reach
  BY <1>0 DEF Reach, ran, fixed, said, GitRecord
<1>2. CASE Analyse
  <2>1. PICK where \in SUBSET DOMAIN Discovered : analysed' = Pick(Discovered, where)
    BY <1>2 DEF Analyse
  <2>2. analysed' \in Seq(Candidate)
    BY <2>1, CiAssumption, PickIsOfTheList
  <2> QED BY <1>2, <2>2 DEF Analyse, Places, fixed, said, GitRecord
<1>3. CASE Narrow
  <2>1. PICK changed \in SUBSET File, atTop \in BOOLEAN : NarrowTo(changed, atTop)
    BY <1>3 DEF Narrow
  <2>2. analysed' \in Seq(Candidate)
    <3>1. CASE UNCHANGED analysed
      BY <3>1
    <3>2. CASE analysed' = Pick(analysed, {i \in DOMAIN analysed :
                                                atTop /\ FileOf[analysed[i]] \in changed})
      <4>1. {i \in DOMAIN analysed : atTop /\ FileOf[analysed[i]] \in changed}
              \in SUBSET DOMAIN analysed
        OBVIOUS
      <4> QED BY <3>2, <4>1, PickIsOfTheList
    <3> QED BY <2>1, <3>1, <3>2 DEF NarrowTo
  <2> QED BY <2>1, <2>2 DEF NarrowTo, Places, fixed, said, GitRecord
<1>4. CASE Own
  <2>1. verified' \in BOOLEAN
    <3>1. CASE \E t \in Token : verified' = VerifyCiOwnership(t)
      <4>1. PICK t \in Token : verified' = VerifyCiOwnership(t)
        BY <3>1
      <4>2. VerifyCiOwnership(t) \in BOOLEAN
        BY DEF VerifyCiOwnership
      <4> QED BY <4>1, <4>2
    <3> QED BY <1>4, <3>1 DEF Own
  <2>3. token' = <<>> \/ token' \in Seq(Token)
    <3>1. UNCHANGED token \/ \E t \in Token : token' = <<t>>
      BY <1>4 DEF Own
    <3>2. \A t \in Token : <<t>> \in Seq(Token)
      BY OneElement
    <3>3. token = <<>> \/ token \in Seq(Token)
      OBVIOUS
    <3> QED BY <3>1, <3>2, <3>3
  <2>2. at' \in Places
    BY <1>4 DEF Own, Places
  <2> QED BY <1>4, <2>1, <2>2, <2>3 DEF Own, ran, fixed, said, GitRecord
<1>5. CASE Prove
  <2>1. findings' \in Seq(Finding)
    BY <1>5, ProveTyped
  <2> QED BY <1>5, <2>1 DEF Prove, Places, fixed, said, GitRecord
<1>6. CASE Fix
  <2>1. at' \in Places /\ {findings', fixes'} \subseteq Seq(Finding)
    BY <1>6 DEF Fix, Places, ran
  <2> QED BY <1>6, <2>1 DEF Fix, ran, said, GitRecord
<1>7. CASE WriteEdit
  <2>0. fixes \in Seq(Finding)
    BY DEF Typed, TypeOK
  <2>1. PICK i \in DOMAIN fixes : First(i) /\
           LET c == fixes[i].cand IN
             \/ at' = "reporting" /\ UNCHANGED <<fixes, tree>>
             \/ /\ \E stamp \in Stamp : tree' = [tree EXCEPT ![EditTarget(c, stamp)] = c]
                /\ fixes' = SubSeq(fixes, i + 1, Len(fixes))
                /\ at' \in {"writing", "checkout"}
    BY <1>7 DEF WriteEdit
  <2>2. fixes[i].cand \in Candidate
    <3>1. fixes[i] \in Finding
      BY <2>0, ElementsAreOfTheType
    <3> QED BY <3>1 DEF Finding
  <2>3. tree' \in [Path -> Candidate \cup {"source"}]
    BY <2>1, <2>2
  <2>4. fixes' \in Seq(Finding)
    <3>1. SubSeq(fixes, i + 1, Len(fixes)) \in Seq(Finding)
      BY ONLY <2>0, i \in DOMAIN fixes, RestOfTheList
    <3> QED BY <2>0, <2>1, <3>1
  <2>5. at' \in Places
    BY <2>1 DEF Places
  <2>6. findings \in Seq(Finding) /\ UNCHANGED <<target, token, verified, ran, git, said, replies>>
    BY <1>7 DEF WriteEdit
  <2> QED BY <2>3, <2>4, <2>5, <2>6 DEF ran, said, GitRecord
<1>8. CASE Checkout \/ Add \/ Commit \/ Push \/ Request
  <2>1. at' \in Places /\ UNCHANGED <<target, token, verified, ran, fixes, tree, said, replies>>
    BY <1>8 DEF Checkout, Add, Commit, Push, Request, Step, Places
  <2> QED BY <1>8, <2>1, CommandsTyped DEF ran, said
<1>9. CASE BuildReport
  BY <1>9 DEF BuildReport, Places, ran, fixed, GitRecord
<1>10. CASE CheckInvariants
  <2>1. verdicts' \in [Rule -> {"unasked", "not_tested", "held", "violated"}]
    BY <1>10 DEF CheckInvariants, CheckOne
  <2>2. at' \in Places /\ UNCHANGED <<target, token, verified, ran, fixed, owner, exit>>
    BY <1>10 DEF CheckInvariants, Places
  <2> QED BY <2>1, <2>2 DEF ran, fixed, GitRecord
<1>11. CASE LockoutCheck
  <2>1. owner' \in {"unasked", "undecided", "reachable", "locked out"}
    BY <1>11 DEF LockoutCheck
  <2> QED BY <1>11, <2>1 DEF LockoutCheck, Places, ran, fixed, GitRecord
<1>12. CASE \E failOn \in FailOn : Gate(failOn)
  <2>1. exit' \in {"0", "1"}
    BY <1>12 DEF Gate
  <2> QED BY <1>12, <2>1 DEF Gate, Places, ran, fixed, GitRecord
<1>13. CASE Raise
  BY <1>13 DEF Raise, Places, ran, fixed, GitRecord
<1>14. CASE UNCHANGED vars
  BY <1>14 DEF vars, GitRecord
<1> QED BY <1>0, <1>1, <1>2, <1>3, <1>4, <1>5, <1>6, <1>7, <1>8, <1>9, <1>10, <1>11, <1>12, <1>13, <1>14
        DEF Next


\* Everything the job keeps has its type.
THEOREM Typing == Spec => []TypeOK
<1>1. Typed => TypeOK
  BY DEF Typed
<1> QED BY <1>1, TypedInit, TypedNext, PTL DEF Spec

-----------------------------------------------------------------------------
(* The request. *)

Untouched == {"configuring", "analysing", "narrowing", "owning", "proving", "fixing"}

\* An edit of the finding is written.
Edited(f) == \E stamp \in Stamp : EditTarget(f.cand, stamp) \in Written

AllEdited == \A f \in ToSet(findings) : Eligible(f) => Edited(f)

CommitIsTheTree == git.commit = [p \in Written |-> tree[p]]

\* From the first edit to the request that is opened: what is written fixes what was
\* broken, what is eligible is written or still in the list, and each command finds
\* what the one before it left.
Filed ==
    /\ \A p \in Written : \E f \in ToSet(findings) : Eligible(f) /\ tree[p] = f.cand
    /\ at \in Untouched => Written = {}
    /\ at = "writing" =>
          /\ ToSet(fixes) \subseteq ToSet(findings)
          /\ \A f \in ToSet(findings) : Eligible(f) => f \in ToSet(fixes) \/ Edited(f)
    /\ at \in {"checkout", "add", "commit", "push", "request"} => AllEdited
    /\ at \in {"add", "commit", "push", "request"} => git.branch = "fix"
    /\ at = "commit" => git.index = Written
    /\ at \in {"push", "request"} => CommitIsTheTree
    /\ at = "request" => git.pushed
    /\ at \in Before \ {"reporting"} => ~git.open
    /\ git.open => git.pushed /\ git.branch = "fix" /\ CommitIsTheTree /\ AllEdited
LEMMA FiledInit == Init => Filed
<1> SUFFICES ASSUME Init PROVE Filed
  OBVIOUS
<1>1. at = "configuring" /\ tree = [p \in Path |-> "source"] /\ git.open = FALSE
  BY DEF Init
<1>2. Written = {}
  BY <1>1 DEF Written
<1> QED BY <1>1, <1>2 DEF Filed

Commands == {"checkout", "add", "commit", "push", "request"}

\* A step outside the request that leaves the work tree alone.
LEMMA FiledKept ==
    ASSUME Filed, UNCHANGED <<findings, fixes, tree, git>>,
           UNCHANGED at \/ at' \notin Commands \cup {"writing"},
           at' \in Untouched => at \in Untouched,
           at' \in Before \ {"reporting"} => at \in Before \ {"reporting"}
    PROVE  Filed'
<1>1. Written' = Written
  BY DEF Written
<1>2. (AllEdited <=> AllEdited') /\ (CommitIsTheTree <=> CommitIsTheTree')
  BY <1>1 DEF AllEdited, Edited, CommitIsTheTree
<1>3. (\A f : Edited(f) <=> Edited(f)') /\ (\A f : Eligible(f) <=> Eligible(f)')
  BY <1>1 DEF Edited, Eligible
<1>4. UNCHANGED at => Filed'
  BY <1>1, <1>2, <1>3 DEF Filed
<1>5. at' \notin Commands \cup {"writing"} => Filed'
  BY <1>1, <1>2, <1>3 DEF Filed, Commands
<1> QED BY <1>4, <1>5

LEMMA EditTargetIsAPath ==
    ASSUME NEW c \in Candidate, NEW stamp \in Stamp
    PROVE  EditTarget(c, stamp) \in Path
<1>1. <<"migration", TableOf[c], stamp>> \in Path
  BY DEF Path, Table
<1>2. <<"sibling", FileOf[c]>> \in Path /\ <<"file", FileOf[c]>> \in Path
  BY DEF Path, File
<1> QED BY <1>1, <1>2 DEF EditTarget

\* One edit: what was written stays written, and what is first in the list is.
LEMMA WritingFiles ==
    ASSUME Typed, Filed, WriteEdit
    PROVE  Filed'
<1>1. PICK i \in DOMAIN fixes : First(i) /\
         LET c == fixes[i].cand IN
           \/ at' = "reporting" /\ UNCHANGED <<fixes, tree>>
           \/ /\ \E stamp \in Stamp : tree' = [tree EXCEPT ![EditTarget(c, stamp)] = c]
              /\ fixes' = SubSeq(fixes, i + 1, Len(fixes))
              /\ at' = IF \E f \in ToSet(fixes') : Eligible(f) THEN "writing" ELSE "checkout"
  BY DEF WriteEdit
<1>2. at = "writing" /\ UNCHANGED <<findings, git>>
  BY DEF WriteEdit, ran
<1>3. CASE at' = "reporting" /\ UNCHANGED <<fixes, tree>>
  BY <1>2, <1>3, FiledKept DEF Untouched, Before, Commands
<1>4. ASSUME NEW stamp \in Stamp,
             tree' = [tree EXCEPT ![EditTarget(fixes[i].cand, stamp)] = fixes[i].cand],
             fixes' = SubSeq(fixes, i + 1, Len(fixes)),
             at' = IF \E f \in ToSet(fixes') : Eligible(f) THEN "writing" ELSE "checkout"
      PROVE  Filed'
  <2>0. PICK first : first = fixes[i]
    OBVIOUS
  <2> DEFINE target1 == EditTarget(first.cand, stamp)
  <2>1. fixes \in Seq(Finding) /\ tree \in [Path -> Candidate \cup {"source"}]
    BY DEF Typed, TypeOK
  <2>2. first \in ToSet(fixes) /\ first \in Finding /\ Eligible(first)
    BY <1>1, <2>0, <2>1, ElementsAreOfTheType DEF ToSet, First
  <2>3. first.cand \in Candidate /\ first.cand # "source"
    BY <2>2, CiAssumption DEF Finding
  <2>4. target1 \in Path
    BY <2>3, EditTargetIsAPath
  <2>5. tree'[target1] = first.cand /\ \A p \in Path \ {target1} : tree'[p] = tree[p]
    BY <1>4, <2>0, <2>1, <2>4
  <2>6. Written' = Written \cup {target1}
    BY <2>3, <2>4, <2>5 DEF Written
  <2>7. first \in ToSet(findings) /\ ToSet(fixes) \subseteq ToSet(findings)
    BY <1>2, <2>2 DEF Filed
  <2>8. Edited(first)'
    BY <2>6 DEF Edited
  <2>9. \A f : Edited(f) => Edited(f)'
    BY <2>6 DEF Edited
  <2>10. \A f : Eligible(f)' <=> Eligible(f)
    BY DEF Eligible
  <2>11. /\ ToSet(fixes') \subseteq ToSet(fixes)
         /\ \A j \in DOMAIN fixes : j > i => fixes[j] \in ToSet(fixes')
    <3>1. /\ ToSet(SubSeq(fixes, i + 1, Len(fixes))) \subseteq ToSet(fixes)
          /\ \A j \in DOMAIN fixes : j > i => fixes[j] \in ToSet(SubSeq(fixes, i + 1, Len(fixes)))
      BY ONLY <2>1, i \in DOMAIN fixes, RestOfTheList
    <3> QED BY <1>4, <3>1
  <2>12. \A f \in ToSet(fixes) : Eligible(f) => f = first \/ f \in ToSet(fixes')
    <3> SUFFICES ASSUME NEW f \in ToSet(fixes), Eligible(f) PROVE f = first \/ f \in ToSet(fixes')
      OBVIOUS
    <3>1. PICK j \in DOMAIN fixes : f = fixes[j]
      BY DEF ToSet
    <3>2. ~(j < i)
      BY <1>1, <3>1 DEF First
    <3>3. i \in Int /\ j \in Int
      BY <2>1
    <3>4. j = i \/ j > i
      BY ONLY <3>2, <3>3
    <3> QED BY <2>0, <2>11, <3>1, <3>4
  <2>13. \A p \in Written' : \E f \in ToSet(findings) : Eligible(f) /\ tree'[p] = f.cand
    <3> SUFFICES ASSUME NEW p \in Written'
                 PROVE  \E f \in ToSet(findings) : Eligible(f) /\ tree'[p] = f.cand
      OBVIOUS
    <3>1. CASE p = target1
      BY <2>2, <2>5, <2>7, <3>1
    <3>2. CASE p \in Written /\ p # target1
      <4>1. tree'[p] = tree[p]
        BY <2>5, <3>2 DEF Written
      <4> QED BY <3>2, <4>1 DEF Filed
    <3> QED BY <2>6, <3>1, <3>2
  <2>14. \A f \in ToSet(findings) : Eligible(f) => f \in ToSet(fixes') \/ Edited(f)'
    BY <1>2, <2>8, <2>9, <2>12 DEF Filed
  <2>15. at' = "checkout" => AllEdited'
    <3> SUFFICES ASSUME at' = "checkout" PROVE AllEdited'
      OBVIOUS
    <3>1. \A f \in ToSet(fixes') : ~Eligible(f)
      BY <1>4
    <3> QED BY <1>2, <2>10, <2>14, <3>1 DEF AllEdited
  <2>16. ~git'.open /\ at' \in {"writing", "checkout"}
    BY <1>2, <1>4 DEF Filed, Before
  <2>17. ToSet(fixes') \subseteq ToSet(findings')
    BY <1>2, <2>7, <2>11
  <2> HIDE DEF target1
  <2> QED BY <1>2, <2>10, <2>13, <2>14, <2>15, <2>16, <2>17 DEF Filed, Untouched
<1> QED BY <1>1, <1>3, <1>4

LEMMA FixFiles ==
    ASSUME Filed, Fix
    PROVE  Filed'
<1>1. at = "fixing" /\ UNCHANGED <<findings, tree, git>>
  BY DEF Fix, ran
<1>2. CASE at' = "reporting" /\ UNCHANGED fixes
  BY <1>1, <1>2, FiledKept DEF Untouched, Before, Commands
<1>3. CASE at' = "writing" /\ fixes' = findings
  <2>1. Written' = {} /\ ~git'.open
    BY <1>1 DEF Filed, Untouched, Before, Written
  <2>2. ToSet(fixes') = ToSet(findings')
    BY <1>1, <1>3
  <2> QED BY <1>3, <2>1, <2>2 DEF Filed, Untouched
<1> QED BY <1>2, <1>3 DEF Fix

\* A command that fails ends the request; one that works leaves its mark for the next.
LEMMA CommandsFile ==
    ASSUME Typed, Filed, Checkout \/ Add \/ Commit \/ Push \/ Request
    PROVE  Filed'
<1>1. at \in Commands /\ UNCHANGED <<findings, fixes, tree>>
  BY DEF Checkout, Add, Commit, Push, Request, Step, Commands, ran
<1>2. Written' = Written
  BY <1>1 DEF Written
<1>3. AllEdited /\ AllEdited'
  BY <1>1, <1>2 DEF Filed, Commands, AllEdited, Edited, Eligible
<1>4. \A p \in Written' : \E f \in ToSet(findings') : Eligible(f)' /\ tree'[p] = f.cand
  BY <1>1, <1>2 DEF Filed, Eligible
<1>5. ~git.open
  BY <1>1 DEF Filed, Commands, Before
<1>6. CASE at' = "reporting" /\ UNCHANGED git
  BY <1>1, <1>6, FiledKept DEF Untouched, Before, Commands
<1> USE DEF Untouched, Before
<1>7. CASE at = "checkout" /\ at' = "add" /\ git' = [git EXCEPT !.branch = "fix"]
  <2>1. git'.branch = "fix" /\ git'.open = git.open
    BY <1>7 DEF Typed, GitRecord
  <2> QED BY <1>3, <1>4, <1>5, <1>7, <2>1 DEF Filed
<1>8. CASE at = "add" /\ at' = "commit" /\ git' = [git EXCEPT !.index = Written]
  <2>1. git'.branch = git.branch /\ git'.index = Written /\ git'.open = git.open
    BY <1>8 DEF Typed, GitRecord
  <2> QED BY <1>2, <1>3, <1>4, <1>5, <1>8, <2>1 DEF Filed
<1>9. CASE at = "commit" /\ at' = "push" /\ git' = [git EXCEPT !.commit = [p \in git.index |-> tree[p]]]
  <2>1. /\ git'.branch = git.branch /\ git'.open = git.open
        /\ git'.commit = [p \in git.index |-> tree[p]]
    BY <1>9 DEF Typed, GitRecord
  <2>2. CommitIsTheTree'
    BY <1>1, <1>2, <1>9, <2>1 DEF Filed, CommitIsTheTree
  <2> QED BY <1>3, <1>4, <1>5, <1>9, <2>1, <2>2 DEF Filed
<1>10. CASE at = "push" /\ at' = "request" /\ git' = [git EXCEPT !.pushed = TRUE]
  <2>1. /\ git'.branch = git.branch /\ git'.commit = git.commit
        /\ git'.pushed = TRUE /\ git'.open = git.open
    BY <1>10 DEF Typed, GitRecord
  <2>2. CommitIsTheTree'
    BY <1>1, <1>2, <1>10, <2>1 DEF Filed, CommitIsTheTree
  <2> QED BY <1>3, <1>4, <1>5, <1>10, <2>1, <2>2 DEF Filed
<1>11. CASE at = "request" /\ at' = "reporting" /\ git' = [git EXCEPT !.open = TRUE]
  <2>1. git'.branch = git.branch /\ git'.commit = git.commit /\ git'.pushed = git.pushed
    BY <1>11 DEF Typed, GitRecord
  <2>2. CommitIsTheTree'
    BY <1>1, <1>2, <1>11, <2>1 DEF Filed, CommitIsTheTree
  <2> QED BY <1>3, <1>4, <1>11, <2>1, <2>2 DEF Filed
<1> QED BY <1>6, <1>7, <1>8, <1>9, <1>10, <1>11 DEF Checkout, Add, Commit, Push, Request, Step

LEMMA FiledNext == Typed /\ Filed /\ [Next]_vars => Filed'
<1> SUFFICES ASSUME Typed, Filed, [Next]_vars PROVE Filed'
  OBVIOUS
<1>1. CASE Configure \/ Reach \/ Analyse \/ Narrow \/ Own
  BY <1>1, FiledKept
     DEF Configure, Reach, Analyse, Narrow, NarrowTo, Own, fixed, ran, Before, Untouched, Commands
<1>2. CASE Prove
  <2>1. at = "proving" /\ at' = "fixing" /\ UNCHANGED <<tree, git>>
    BY <1>2 DEF Prove, fixed
  <2>2. Written' = {} /\ ~git'.open
    BY <2>1 DEF Filed, Untouched, Before, Written
  <2> QED BY <2>1, <2>2 DEF Filed
<1>3. CASE Fix
  BY <1>3, FixFiles
<1>4. CASE WriteEdit
  BY <1>4, WritingFiles
<1>5. CASE Checkout \/ Add \/ Commit \/ Push \/ Request
  BY <1>5, CommandsFile
<1>6. CASE BuildReport \/ CheckInvariants \/ LockoutCheck
  BY <1>6, FiledKept DEF BuildReport, CheckInvariants, LockoutCheck, fixed, ran, Before, Untouched, Commands
<1>7. CASE (\E failOn \in FailOn : Gate(failOn)) \/ Raise
  BY <1>7, FiledKept DEF Gate, Raise, fixed, ran, Before, Untouched, Commands
<1>8. CASE UNCHANGED vars
  BY <1>8, FiledKept DEF vars
<1> QED BY <1>1, <1>2, <1>3, <1>4, <1>5, <1>6, <1>7, <1>8 DEF Next

\* What stands in a request is what was broken, and all of it that no person has to
\* decide, whichever edit or command fails (_open_fix_pr, apply_edits, open_pull_request).
THEOREM RequestsCarryTheProven == Spec => []RequestCarriesTheProven
<1>1. Reported /\ Filed => RequestCarriesTheProven
  <2> SUFFICES ASSUME Reported, Filed, git.open PROVE RequestCarriesTheProven
    BY DEF RequestCarriesTheProven
  <2>1. git.pushed /\ git.branch = "fix" /\ CommitIsTheTree /\ AllEdited
    BY DEF Filed
  <2>2. DOMAIN git.commit = Written /\ \A p \in Written : git.commit[p] = tree[p]
    BY <2>1 DEF CommitIsTheTree
  <2>3. \A f \in ToSet(findings) :
           Eligible(f) => f.cand \in {c \in Broken : CheckOf[c] \in DeterministicChecks}
    <3> SUFFICES ASSUME NEW f \in ToSet(findings), Eligible(f)
                 PROVE  f.cand \in Broken /\ CheckOf[f.cand] \in DeterministicChecks
      OBVIOUS
    <3>1. f.status = "proven" /\ CheckOf[f.cand] \in DeterministicChecks
      BY DEF Eligible
    <3>2. \E r \in replies : r.to = "attack" /\ r.bad /\ r.what = f.cand
      BY <3>1 DEF Reported, Faithful, Tells
    <3> QED BY <3>1, <3>2 DEF Broken
  <2>4. \A p \in Written : git.commit[p] \in {c \in Broken : CheckOf[c] \in DeterministicChecks}
    BY <2>2, <2>3 DEF Filed
  <2> QED BY <2>1, <2>2, <2>4 DEF RequestCarriesTheProven, AllEdited, Edited
<1> QED BY <1>1, TypedInit, TypedNext, OwnedInit, OwnedNext, ReportedInit, ReportedNext,
           FiledInit, FiledNext, PTL DEF Spec
-----------------------------------------------------------------------------
(* What the report accounts for. *)

\* The findings are of all that was kept or there are none, one per candidate; and once
\* the report is built, the check of each candidate has its note.
Counted ==
    /\ at \in Early \cup {"proving"} => findings = <<>>
    /\ \/ findings = <<>>
       \/ /\ Len(findings) = Len(analysed)
          /\ ToSet(CandidatesOf(findings)) = ToSet(analysed)
    /\ \A f, g \in ToSet(findings) : f.cand = g.cand => f = g
    /\ at \in {"ruling", "asking", "gating"} =>
          \A c \in ToSet(analysed) : CoverageNote(CheckOf[c], findings) \in notes

LEMMA CountedInit == Init => Counted
<1> SUFFICES ASSUME Init PROVE Counted
  OBVIOUS
<1>1. at = "configuring" /\ findings = <<>>
  BY DEF Init
<1>2. ToSet(findings) = {}
  BY <1>1 DEF ToSet
<1> QED BY <1>1, <1>2 DEF Counted

LEMMA ProveCounts ==
    ASSUME analysed \in Seq(Candidate), Prove
    PROVE  /\ Len(findings') = Len(analysed)
           /\ ToSet(CandidatesOf(findings')) = ToSet(analysed)
           /\ \A f, g \in ToSet(findings') : f.cand = g.cand => f = g
<1>o. PICK order \in RankedOrders(analysed) : \E told :
          findings' = [i \in DOMAIN order |->
                [cand |-> order[i], status |-> told[order[i]].status,
                 executed |-> told[order[i]].executed]]
  BY DEF Prove
<1>1. PICK out :
          findings' = [i \in DOMAIN order |->
                [cand |-> order[i], status |-> out[order[i]].status,
                 executed |-> out[order[i]].executed]]
  BY <1>o
<1> DEFINE Made(c) == [cand |-> c, status |-> out[c].status, executed |-> out[c].executed]
<1>2. order \in Seq(Candidate) /\ Len(order) = Len(analysed) /\ ToSet(order) = ToSet(analysed)
  BY RankingIsOfTheList
<1>3. findings' = [i \in 1..Len(order) |-> Made(order[i])] /\ Len(order) \in Nat
      /\ DOMAIN order = 1..Len(order)
  BY <1>1, <1>2
<1>4. \A c : Made(c).cand = c
  OBVIOUS
<1> HIDE DEF Made
<1>5. Len(findings') = Len(order) /\ DOMAIN findings' = DOMAIN order
  BY <1>3
<1>6. \A i \in DOMAIN order : findings'[i].cand = order[i] /\ findings'[i] = Made(order[i])
  BY <1>3, <1>4
<1>7. CandidatesOf(findings') = [i \in DOMAIN order |-> order[i]]
  BY <1>5, <1>6 DEF CandidatesOf
<1>8. ToSet(CandidatesOf(findings')) = ToSet(order)
  BY <1>7 DEF ToSet
<1>9. \A f, g \in ToSet(findings') : f.cand = g.cand => f = g
  BY <1>4, <1>5, <1>6 DEF ToSet
<1> QED BY <1>2, <1>5, <1>8, <1>9

\* A step after the analysis that makes no finding keeps the count.
LEMMA CountedKept ==
    ASSUME Counted, UNCHANGED <<analysed, findings>>,
           at' \in Early \cup {"proving"} => at \in Early \cup {"proving"},
           at' \in {"ruling", "asking", "gating"} =>
              UNCHANGED notes /\ at \in {"ruling", "asking", "gating"}
    PROVE  Counted'
BY DEF Counted, CandidatesOf, CoverageNote

LEMMA CountedNext == Typed /\ Counted /\ [Next]_vars => Counted'
<1> SUFFICES ASSUME Typed, Counted, [Next]_vars PROVE Counted'
  OBVIOUS
<1>1. CASE Configure \/ Reach
  BY <1>1, CountedKept DEF Configure, Reach, ran, said, Early
<1>2. CASE Analyse \/ Narrow
  <2>1. findings = <<>> /\ findings' = <<>> /\ at' \notin {"ruling", "asking", "gating"}
    BY <1>2 DEF Analyse, Narrow, NarrowTo, Counted, Early
  <2>2. ToSet(findings') = {}
    BY <2>1 DEF ToSet
  <2> QED BY <2>1, <2>2 DEF Counted
<1>3. CASE Own
  BY <1>3, CountedKept DEF Own, ran, Early
<1>4. CASE Prove
  <2>1. analysed \in Seq(Candidate) /\ at' = "fixing" /\ analysed' = analysed
    BY <1>4 DEF Typed, TypeOK, Prove
  <2> QED BY <1>4, <2>1, ProveCounts DEF Counted, Early
<1>5. CASE Fix \/ WriteEdit \/ Checkout \/ Add \/ Commit \/ Push \/ Request
  BY <1>5, CountedKept DEF Fix, WriteEdit, Checkout, Add, Commit, Push, Request, Step, ran, Early
<1>6. CASE BuildReport
  <2>1. at' \in {"ruling", "gating"} /\ UNCHANGED <<analysed, findings>>
    BY <1>6 DEF BuildReport, ran
  <2>2. PICK left \in SUBSET {"agent_injection"} : notes' = Coverage(analysed, findings, left, left)
    BY <1>6 DEF BuildReport
  <2>3. \A c \in ToSet(analysed) : CoverageNote(CheckOf[c], findings) \in notes'
    BY <2>2 DEF Coverage
  <2>4. \A c \in ToSet(analysed') : CoverageNote(CheckOf[c], findings') \in notes'
    BY <2>1, <2>3
  <2> QED BY <2>1, <2>4 DEF Counted, CandidatesOf, Early
<1>7. CASE CheckInvariants
  BY <1>7, CountedKept DEF CheckInvariants, ran, Early
<1>8. CASE LockoutCheck
  BY <1>8, CountedKept DEF LockoutCheck, ran, Early
<1>9. CASE (\E failOn \in FailOn : Gate(failOn)) \/ Raise
  BY <1>9, CountedKept DEF Gate, Raise, ran, Early
<1>10. CASE UNCHANGED vars
  BY <1>10, CountedKept DEF vars
<1> QED BY <1>1, <1>2, <1>3, <1>4, <1>5, <1>6, <1>7, <1>8, <1>9, <1>10 DEF Next

\* What was carried to no finding: all that was kept, or nothing.
LEMMA UnprovenIsTheRest ==
    ASSUME Typed, Counted
    PROVE  /\ Unproven(analysed, findings) \in Seq(Candidate)
           /\ findings = <<>> => /\ Len(Unproven(analysed, findings)) = Len(analysed)
                                 /\ ToSet(Unproven(analysed, findings)) = ToSet(analysed)
           /\ findings # <<>> => Unproven(analysed, findings) = <<>>
<1> DEFINE left == {i \in DOMAIN analysed : analysed[i] \notin ToSet(CandidatesOf(findings))}
<1>1. analysed \in Seq(Candidate) /\ DOMAIN analysed = 1..Len(analysed) /\ Len(analysed) \in Nat
  <2>1. analysed \in Seq(Candidate)
    BY DEF Typed, TypeOK
  <2> QED BY <2>1
<1>2. left \in SUBSET DOMAIN analysed /\ Unproven(analysed, findings) = Pick(analysed, left)
  BY DEF Unproven
<1>3. CASE findings = <<>>
  <2>1. ToSet(CandidatesOf(findings)) = {}
    BY <1>3 DEF ToSet, CandidatesOf
  <2>2. left = DOMAIN analysed
    BY <2>1
  <2> HIDE DEF left
  <2>3. /\ Pick(analysed, left) \in Seq(Candidate)
        /\ Len(Pick(analysed, left)) = Cardinality(left)
        /\ ToSet(Pick(analysed, left)) = {analysed[i] : i \in left}
    BY <1>1, <1>2, PickIsOfTheList
  <2>4. Cardinality(left) = Len(analysed)
    <3>1. Cardinality(1..Len(analysed)) = Len(analysed)
      BY <1>1, FS_Interval
    <3> QED BY <1>1, <2>2, <3>1
  <2>5. {analysed[i] : i \in left} = ToSet(analysed)
    BY <2>2 DEF ToSet
  <2> QED BY <1>2, <1>3, <2>3, <2>4, <2>5
<1>4. CASE findings # <<>>
  <2>1. ToSet(CandidatesOf(findings)) = ToSet(analysed)
    BY <1>4 DEF Counted
  <2>2. left = {}
    BY <2>1 DEF ToSet
  <2>3. Cardinality(left) = 0
    BY <2>2, FS_EmptySet
  <2> HIDE DEF left
  <2>4. Pick(analysed, left) \in Seq(Candidate) /\ Len(Pick(analysed, left)) = 0
    BY <1>1, <1>2, <2>3, PickIsOfTheList
  <2> QED BY <1>2, <1>4, <2>4
<1> QED BY <1>3, <1>4

\* The scale: what was broken scores its severity's base, the rest 45 at most, and 35
\* unless the code alone makes it certain.
LEMMA RoundingKeepsBounds ==
    ASSUME NEW x \in Nat, NEW most \in Nat, x <= 100 * most
    PROVE  RoundHalfEven(x) <= most
<1> DEFINE whole == x \div 100
           rest == x % 100
<1>1. whole \in Nat /\ rest \in 0..99 /\ x = 100 * whole + rest
  OBVIOUS
<1>2. RoundHalfEven(x) = whole \/ (RoundHalfEven(x) = whole + 1 /\ rest > 0)
  BY <1>1 DEF RoundHalfEven
<1> HIDE DEF whole, rest
<1>3. whole <= most /\ (rest > 0 => whole + 1 <= most)
  BY <1>1
<1> QED BY <1>1, <1>2, <1>3

LEMMA BrokenScoresItsBase ==
    ASSUME NEW c \in Candidate
    PROVE  /\ SeverityOf[c] \in 0..4 /\ Score(c, "proven") \in Nat
           /\ SeverityOf[c] = 0 => Score(c, "proven") = 5
           /\ SeverityOf[c] = 1 => Score(c, "proven") = 40
           /\ SeverityOf[c] > 1 => Score(c, "proven") >= 60
<1>1. SeverityOf[c] \in 0..4
  BY ReportAssumption
<1>2. Weight(c, "proven") = 100
  BY DEF Weight, ProofWeight
<1>3. \A rank \in 0..4 : SeverityBase[rank] = IF rank = 0 THEN 5 ELSE 20 + 20 * rank
  BY DEF SeverityBase
<1>4. \A base \in Nat : RoundHalfEven(base * 100) = base
  <2> SUFFICES ASSUME NEW base \in Nat PROVE RoundHalfEven(base * 100) = base
    OBVIOUS
  <2>1. (base * 100) \div 100 = base /\ (base * 100) % 100 = 0
    OBVIOUS
  <2> QED BY <2>1 DEF RoundHalfEven
<1> DEFINE base1 == SeverityBase[SeverityOf[c]]
<1>5. base1 \in Nat /\ base1 = IF SeverityOf[c] = 0 THEN 5 ELSE 20 + 20 * SeverityOf[c]
  BY <1>1, <1>3
<1>6. Score(c, "proven") = base1
  BY <1>2, <1>4, <1>5 DEF Score
<1> QED BY <1>1, <1>5, <1>6

LEMMA UnbrokenScoresLow ==
    ASSUME NEW c \in Candidate, NEW status \in {"reported", "not_reproduced"}
    PROVE  /\ Score(c, status) <= 45
           /\ c \notin Structural => Score(c, status) <= 35
<1>1. SeverityOf[c] \in 0..4
  BY ReportAssumption
<1>2. SeverityBase[SeverityOf[c]] \in {5, 40, 60, 80, 100}
  <2>1. SeverityBase[SeverityOf[c]] = IF SeverityOf[c] = 0 THEN 5 ELSE 20 + 20 * SeverityOf[c]
    BY <1>1 DEF SeverityBase
  <2> QED BY <1>1, <2>1
<1>3. Weight(c, status) \in {5, 35, 45} /\ (c \notin Structural => Weight(c, status) \in {5, 35})
  BY DEF Weight, ProofWeight, StructuralFloor
<1> DEFINE points == SeverityBase[SeverityOf[c]] * Weight(c, status)
<1>4. points \in Nat /\ points <= 100 * 45 /\ (c \notin Structural => points <= 100 * 35)
  BY <1>2, <1>3
<1> HIDE DEF points
<1>5. RoundHalfEven(points) <= 45
  BY <1>4, RoundingKeepsBounds
<1>6. c \notin Structural => RoundHalfEven(points) <= 35
  BY <1>4, RoundingKeepsBounds
<1> QED BY <1>5, <1>6 DEF Score, points

\* What was broken is below something that was not only if that is low.
LEMMA BrokenRanksHigh ==
    ASSUME NEW c \in Candidate, NEW b \in Candidate, NEW status \in {"reported", "not_reproduced"},
           Score(c, status) >= Score(b, "proven")
    PROVE  SeverityOf[b] = 0 \/ (SeverityOf[b] = 1 /\ c \in Structural)
<1> DEFINE high == Score(c, status)
           low == Score(b, "proven")
<1>1. RoundHalfEven(SeverityBase[SeverityOf[c]] * Weight(c, status)) \in Int
  <2>1. SeverityBase[SeverityOf[c]] \in Int
    BY ReportAssumption DEF SeverityBase
  <2>2. Weight(c, status) \in Int
    BY DEF Weight, ProofWeight, StructuralFloor
  <2>3. SeverityBase[SeverityOf[c]] * Weight(c, status) \in Int
    BY <2>1, <2>2
  <2>4. \A x \in Int : RoundHalfEven(x) \in Int
    BY DEF RoundHalfEven
  <2> QED BY <2>3, <2>4
<1>2. high \in Int
  BY <1>1 DEF Score
<1>3. high <= 45 /\ (c \notin Structural => high <= 35) /\ high >= low
  BY UnbrokenScoresLow
<1>4. /\ SeverityOf[b] \in 0..4 /\ low \in Nat
      /\ SeverityOf[b] = 0 => low = 5
      /\ SeverityOf[b] = 1 => low = 40
      /\ SeverityOf[b] > 1 => low >= 60
  BY BrokenScoresItsBase
<1> HIDE DEF high, low
<1> QED BY <1>2, <1>3, <1>4

\* When every candidate was tried, each row of the scale is a finding's.
LEMMA RowsAreTheFindings ==
    ASSUME findings \in Seq(Finding), Unproven(analysed, findings) = <<>>
    PROVE  \A r \in ToSet(Rows(analysed, findings)) :
              \E f \in ToSet(findings) : r.cand = f.cand /\ r.status = f.status
<1> DEFINE Row(f) == [cand |-> f.cand, status |-> f.status]
           rows == [i \in DOMAIN findings |-> Row(findings[i])]
           rest == [i \in DOMAIN Unproven(analysed, findings) |->
                       [cand |-> Unproven(analysed, findings)[i], status |-> "candidate"]]
<1>1. DOMAIN findings = 1..Len(findings) /\ Len(findings) \in Nat
  OBVIOUS
<1>2. Rows(analysed, findings) = rows \o rest
  BY DEF Rows
<1>3. rest = <<>>
  OBVIOUS
<1>4. rows \in Seq({Row(findings[i]) : i \in DOMAIN findings}) /\ DOMAIN rows = DOMAIN findings
  BY <1>1
<1>5. \A i \in DOMAIN findings : rows[i].cand = findings[i].cand /\ rows[i].status = findings[i].status
  OBVIOUS
<1> HIDE DEF rows, rest
<1>6. Rows(analysed, findings) = rows
  BY <1>2, <1>3, <1>4
<1> QED BY <1>4, <1>5, <1>6 DEF ToSet

\* The report accounts for every candidate that was kept, for any candidates, answers
\* and severities (build_report, prioritized, silence_ledger, render_markdown).
THEOREM EverythingAccountedFor == Spec => []EverythingIsAccountedFor
<1>1. Typed /\ Reported /\ Counted => EverythingIsAccountedFor
  <2> SUFFICES ASSUME Typed, Reported, Counted, at \in {"ruling", "asking", "gating"}
               PROVE  /\ Len(PublishedOrder(analysed, findings)) = Len(analysed)
                      /\ ToSet(PublishedOrder(analysed, findings)) = ToSet(analysed)
                      /\ ToSet(analysed) \subseteq Listed(analysed, findings)
                      /\ \A c \in ToSet(analysed) \ Broken : \E n \in notes :
                            n.check = CheckOf[c] /\ (n \in NotProved(notes)
                                                       \/ \E b \in Broken : CheckOf[b] = n.check)
                      /\ \A row, broken \in ToSet(Rows(analysed, findings)) :
                            (MayRankAbove(row, broken) /\ broken.cand \in Broken) =>
                               \/ row.cand \in Broken
                               \/ SeverityOf[broken.cand] = 1 /\ row.cand \in Structural
                               \/ SeverityOf[broken.cand] = 0
    BY DEF EverythingIsAccountedFor
  <2> DEFINE tried == CandidatesOf(findings)
             rest == Unproven(analysed, findings)
  <2>1. analysed \in Seq(Candidate) /\ findings \in Seq(Finding)
    BY DEF Typed, TypeOK
  <2>2. tried \in Seq(Candidate) /\ Len(tried) = Len(findings)
    <3>1. \A i \in DOMAIN findings : findings[i].cand \in Candidate
      <4>1. \A i \in DOMAIN findings : findings[i] \in Finding
        BY <2>1, ElementsAreOfTheType
      <4> QED BY <4>1 DEF Finding
    <3>2. DOMAIN findings = 1..Len(findings) /\ Len(findings) \in Nat
      BY <2>1
    <3> QED BY <3>1, <3>2 DEF CandidatesOf
  <2>3. rest \in Seq(Candidate)
    BY UnprovenIsTheRest
  <2>4. \/ tried = <<>> /\ Len(rest) = Len(analysed) /\ ToSet(rest) = ToSet(analysed)
        \/ rest = <<>> /\ Len(tried) = Len(analysed) /\ ToSet(tried) = ToSet(analysed)
    <3>1. CASE findings = <<>>
      <4>1. Len(tried) = 0
        BY <2>2, <3>1
      <4>2. tried = <<>>
        BY <2>2, <4>1
      <4> QED BY <3>1, <4>2, UnprovenIsTheRest
    <3>2. CASE findings # <<>>
      BY <2>2, <3>2, UnprovenIsTheRest DEF Counted
    <3> QED BY <3>1, <3>2
  <2> HIDE DEF tried, rest
  <2>5. Len(tried \o rest) = Len(analysed) /\ ToSet(tried \o rest) = ToSet(analysed)
    <3>1. CASE tried = <<>>
      <4>1. tried \o rest = rest
        BY <2>3, <3>1
      <4>2. tried = <<>> /\ rest = <<>> => Len(tried) = 0 /\ Len(rest) = 0
        OBVIOUS
      <4>3. tried = <<>> /\ rest = <<>> => ToSet(tried) = ToSet(rest)
        OBVIOUS
      <4> QED BY <2>4, <3>1, <4>1, <4>2, <4>3
    <3>2. CASE tried # <<>>
      <4>1. rest = <<>>
        BY <2>4, <3>2
      <4>2. tried \o rest = tried
        BY <2>2, <4>1
      <4> QED BY <2>4, <3>2, <4>2
    <3> QED BY <3>1, <3>2
  <2>6. Len(PublishedOrder(analysed, findings)) = Len(analysed)
        /\ ToSet(PublishedOrder(analysed, findings)) = ToSet(analysed)
    BY <2>5 DEF PublishedOrder, tried, rest
  <2>7. ToSet(analysed) \subseteq Listed(analysed, findings)
    <3>1. Listed(analysed, findings) =
             WithStatus(findings, "proven") \cup ToSet(IF rest # <<>> THEN rest ELSE tried)
      BY DEF Listed, tried, rest
    <3>2. CASE rest # <<>>
      BY <2>4, <3>1, <3>2
    <3>3. CASE rest = <<>>
      <4>1. ToSet(tried) = ToSet(analysed)
        BY <2>4, <3>3
      <4> QED BY <3>1, <3>3, <4>1
    <3> QED BY <3>2, <3>3
  <2>8. WithStatus(findings, "proven") = Broken
    BY BrokenIsTheProven
  <2>9. ASSUME NEW c \in ToSet(analysed)
        PROVE  \E n \in notes : n.check = CheckOf[c] /\ (n \in NotProved(notes)
                                                       \/ \E b \in Broken : CheckOf[b] = n.check)
    <3> DEFINE n == CoverageNote(CheckOf[c], findings)
    <3>1. n \in notes /\ Earns(n)
      BY <2>9 DEF Counted, Reported, Honest
    <3>2. n.check = CheckOf[c]
      BY DEF CoverageNote
    <3> HIDE DEF n
    <3>3. n.proved => \E b \in Broken : CheckOf[b] = n.check
      BY <3>1 DEF Earns, Attacks, Broken
    <3>4. ~n.proved => n \in NotProved(notes)
      BY <3>1 DEF NotProved
    <3> QED BY <3>1, <3>2, <3>3, <3>4
  <2>10. ASSUME NEW row \in ToSet(Rows(analysed, findings)),
                NEW broken \in ToSet(Rows(analysed, findings)),
                MayRankAbove(row, broken), broken.cand \in Broken, row.cand \notin Broken
         PROVE  \/ SeverityOf[broken.cand] = 1 /\ row.cand \in Structural
                \/ SeverityOf[broken.cand] = 0
    <3>1. findings # <<>>
      <4>1. WithStatus(findings, "proven") # {}
        BY <2>8, <2>10
      <4>2. ToSet(findings) # {}
        BY <4>1 DEF WithStatus
      <4> QED BY <4>2 DEF ToSet
    <3>2. rest = <<>>
      BY <3>1, UnprovenIsTheRest DEF rest
    <3>3. \A r \in ToSet(Rows(analysed, findings)) :
             \E f \in ToSet(findings) : r.cand = f.cand /\ r.status = f.status
      BY <2>1, <3>2, RowsAreTheFindings DEF rest
    <3>4. PICK f \in ToSet(findings) : row.cand = f.cand /\ row.status = f.status
      BY <2>10, <3>3
    <3>5. PICK g \in ToSet(findings) : broken.cand = g.cand /\ broken.status = g.status
      BY <2>10, <3>3
    <3>6. f \in Finding /\ g \in Finding
      BY <2>1, ElementsAreOfTheType
    <3>7. f.cand \in Candidate /\ g.cand \in Candidate
      BY <3>6 DEF Finding
    <3>8. g.status = "proven"
      BY <2>8, <2>10, <3>5 DEF Counted, WithStatus
    <3>9. f.status \in {"reported", "not_reproduced"}
      BY <2>8, <2>10, <3>4 DEF Reported, Faithful, WithStatus
    <3>10. Score(f.cand, f.status) >= Score(g.cand, "proven")
      BY <2>10, <3>4, <3>5, <3>8 DEF MayRankAbove
    <3> QED BY <3>4, <3>5, <3>7, <3>9, <3>10, BrokenRanksHigh
  <2> QED BY <2>6, <2>7, <2>9, <2>10
<1> QED BY <1>1, TypedInit, TypedNext, OwnedInit, OwnedNext, ReportedInit, ReportedNext,
           CountedInit, CountedNext, PTL DEF Spec
=============================================================================
