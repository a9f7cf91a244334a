---------------------------- MODULE EngineProofs ----------------------------
(* Theorems about the engine: ProveRun, for every target, candidate list and  *)
(* setting; Operations, which probes by the same steps, for every finding,    *)
(* target and setting; and ToolPlane, for any files, tools, labellings and    *)
(* edits.                                                                     *)
EXTENDS Operations, ToolPlane, TLAPS

-----------------------------------------------------------------------------
(* The inductive invariant.  What a finding may claim (Honest) is settled in  *)
(* the step that records it, from what the wire holds at that step of the     *)
(* probe (WireOK), for the candidate the counter points at (InStep).          *)

Held(c) == ~c.read /\ (RoutePlane(c) \/ c.check = "CLASSIC_INJECTION")

\* What one finding may claim of its candidate.
Honest(f) ==
    LET c == queue[f.cand] IN
    /\ f.status = "NOT_REPRODUCED" /\ RoutePlane(c) =>
          /\ Len(f.wire) = 2
          /\ f.wire[1].as = "B" /\ f.wire[1].ans # "record"
          /\ f.wire[2].as = "A" /\ f.wire[2].ans = "record"
    /\ f.status # "REPORTED" =>
          f.executed /\ f.wire # <<>> /\ f.wire[Len(f.wire)].ans # "failed"
    /\ f.wire = <<>> => f.status = "REPORTED" /\ ~f.executed
    /\ Held(c) => f.wire = <<>>

Probing == PC \ (Terminal \cup {"called", "start", "pick", "returned"})

\* Where a run that attempted nothing may be.
BeforeTheLoop == {"called", "unheard", "start", "refused", "invalid"}

\* The counter, the findings and the place in the loop agree.
InStep ==
    /\ \A i \in DOMAIN findings : findings[i].cand = i
    /\ pc \in BeforeTheLoop => attempted = 0 /\ wire = <<>>
    /\ pc \in BeforeTheLoop \cup {"pick", "returned", "done"} =>
          Len(findings) = attempted
    /\ pc \in Probing => Len(findings) + 1 = attempted
    /\ pc = "aborted" => Len(findings) \in {attempted, attempted - 1}
    /\ pc \in {"pick", "returned", "done"} /\ attempted > 0 =>
          wire = findings[attempted].wire

\* What the wire holds at each step of a probe.
WireOK ==
    /\ pc \in {"table_login", "byid", "scan"} => TablePlane(Current)
    /\ pc \in {"table_login", "byid"} => wire = <<>>
    /\ pc \in {"attack_login", "attack"} =>
          RoutePlane(Current) /\ Current.read /\ wire = <<>>
    /\ pc \in {"control_login", "control"} =>
          /\ RoutePlane(Current) /\ Current.read
          /\ Len(wire) = 1 /\ wire[1].as = "B" /\ wire[1].ans # "record"
    /\ pc \in {"sql_login", "sql"} =>
          Current.check = "CLASSIC_INJECTION" /\ Current.read
    /\ pc = "agent" => Current.check = "AGENT_INJECTION"  /\ wire = <<>>
    /\ pc = "aborted" /\ attempted > 0 /\ Held(Current) => wire = <<>>

\* The budget is asked twice; once the loop is over its answer cannot turn back.
OutcomeOK ==
    /\ pc = "returned" => attempted = Len(queue) \/ Exhausted
    /\ pc = "done" => attempted + outcome.skipped = Len(queue)

\* Only an unguarded run follows a redirect off the target, part of a guard never runs,
\* and who is taken for a walk asked for it and was let in.
GuardOK ==
    /\ "hop" \in loose => cfg.plan # "whole"
    /\ cfg.plan = "partial" => /\ pc \in {"called", "unheard", "start", "invalid"}
                               /\ loose \subseteq {"bare"}
    /\ "walk" \in loose => cfg.autodiscover /\ Allowed

AllHonest == \A i \in DOMAIN findings : Honest(findings[i])

IInv == TypeOK /\ InStep /\ WireOK /\ OutcomeOK /\ AllHonest /\ GuardOK

-----------------------------------------------------------------------------
\* Sending appends one exchange to the current candidate's wire.
LEMMA SendType ==
    ASSUME TypeOK, NEW a \in Accounts \cup {"agent"}, NEW ans \in Answers, Send(a, ans)
    PROVE  /\ wire' \in Seq(Exchange)
           /\ Len(wire') = Len(wire) + 1
           /\ \A k \in 1..Len(wire) : wire'[k] = wire[k]
           /\ wire'[Len(wire) + 1].as = a
           /\ wire'[Len(wire) + 1].ans = ans
<1> DEFINE x == [as |-> a, token |-> (a \in Accounts /\ acct[a].token), ans |-> ans]
<1>1. (a \in Accounts /\ acct[a].token) \in BOOLEAN
  BY DEF TypeOK, Accounts
<1>2. x \in Exchange
  BY <1>1 DEF Exchange
<1>3. wire \in Seq(Exchange) /\ wire' = Append(wire, x)
  BY DEF TypeOK, Send
<1>4. x.as = a /\ x.ans = ans
  OBVIOUS
<1> HIDE DEF x
<1>5. QED
  BY <1>2, <1>3, <1>4

\* Recording appends one finding and hands the run back to the loop.
LEMMA RecordType ==
    ASSUME TypeOK, wire' \in Seq(Exchange), NEW c \in Nat, NEW s \in Status,
           NEW e \in BOOLEAN, Record(c, s, e)
    PROVE  /\ findings' \in Seq(FindingType)
           /\ pc' = "pick"
           /\ Len(findings') = Len(findings) + 1
           /\ \A i \in 1..Len(findings) : findings'[i] = findings[i]
           /\ findings'[Len(findings) + 1]
                = [cand |-> c, status |-> s, executed |-> e, wire |-> wire']
<1> DEFINE f == [cand |-> c, status |-> s, executed |-> e, wire |-> wire']
<1>1. f \in FindingType
  BY DEF FindingType
<1>2. findings \in Seq(FindingType) /\ findings' = Append(findings, f) /\ pc' = "pick"
  BY DEF TypeOK, Record
<1> HIDE DEF f
<1>3. /\ findings' \in Seq(FindingType)
      /\ Len(findings') = Len(findings) + 1
      /\ \A i \in 1..Len(findings) : findings'[i] = findings[i]
      /\ findings'[Len(findings) + 1] = f
  BY <1>1, <1>2
<1>4. QED
  BY <1>2, <1>3 DEF f

LEMMA GrantType ==
    ASSUME TypeOK, NEW a \in Accounts, NEW known \in BOOLEAN, Grant(a, known)
    PROVE  acct' \in [Accounts -> [token : BOOLEAN, uid : BOOLEAN]]
<1> DEFINE r == [token |-> TRUE, uid |-> acct[a].uid \/ known]
<1>1. (acct[a].uid \/ known) \in BOOLEAN
  OBVIOUS
<1>2. r \in [token : BOOLEAN, uid : BOOLEAN]
  BY <1>1
<1>3. acct' = [acct EXCEPT ![a] = r]
  BY DEF Grant
<1> HIDE DEF r
<1>4. QED
  BY <1>2, <1>3 DEF TypeOK

LEMMA FollowType == ASSUME TypeOK, Follow PROVE loose' \subseteq Loose
BY DEF Follow, TypeOK, Loose

LEMMA TypeStep == ASSUME TypeOK, [Next]_vars PROVE TypeOK'
<1> USE ConstantsAssumption DEF ConstantsAssumption
<1>q. /\ queue \in Seq(CandidateType) /\ Len(queue) \in Nat
      /\ attempted \in Nat /\ wire \in Seq(Exchange)
  BY DEF TypeOK
<1>1. CASE Announce \/ RefusePartialPlan \/ RefuseUnowned \/ StopLoop
  BY <1>1 DEF Announce, Perhaps, Loose, RefusePartialPlan, RefuseUnowned, StopLoop, kept, TypeOK, PC,
     Terminal
<1>2. CASE Begin
  BY <1>2 DEF Begin, Walks, Perhaps, Loose, kept, TypeOK, PC, Terminal, SeedType, NoSeed
<1>3. CASE ReportUnsent
  <2>1. attempted' \in 0..Len(queue) /\ wire' = <<>> /\ wire' \in Seq(Exchange)
    BY <1>3, <1>q DEF ReportUnsent, Attempt, TypeOK
  <2>2. findings' \in Seq(FindingType) /\ pc' = "pick"
    <3>1. attempted + 1 \in Nat /\ "REPORTED" \in Status /\ FALSE \in BOOLEAN
      BY <1>q DEF Status
    <3>2. Record(attempted + 1, "REPORTED", FALSE)
      BY <1>3 DEF ReportUnsent
    <3>3. QED
      BY <2>1, <3>1, <3>2, RecordType
  <2>3. QED
    BY <1>3, <2>1, <2>2 DEF ReportUnsent, Attempt, kept, TypeOK, PC
<1>4. CASE BeginProbe
  <2>1. attempted' \in 0..Len(queue) /\ wire' = <<>> /\ wire' \in Seq(Exchange)
    BY <1>4, <1>q DEF BeginProbe, Attempt, TypeOK
  <2>2. pc' \in PC
    BY <1>4 DEF BeginProbe, FirstStep, PC
  <2>3. QED
    BY <1>4, <2>1, <2>2 DEF BeginProbe, Attempt, kept, TypeOK
<1>5. CASE ReportBudget
  <2>1. Exhausted \in BOOLEAN /\ Len(queue) - attempted \in Nat
    BY <1>q DEF Exhausted, TypeOK
  <2>2. outcome' \in [stopped : BOOLEAN, skipped : Nat]
    BY <1>5, <2>1 DEF ReportBudget
  <2>3. QED
    BY <1>5, <2>2 DEF ReportBudget, TypeOK, PC, Terminal
<1>6. CASE TableLogin
  <2>1. acct' \in [Accounts -> [token : BOOLEAN, uid : BOOLEAN]]
    BY <1>6, GrantType DEF TableLogin, TypeOK, Accounts
  <2>2. findings' \in Seq(FindingType) /\ pc' \in PC
    BY <1>6, <1>q, RecordType DEF TableLogin, Conclude, TypeOK, PC, Terminal, Status
  <2>3. QED
    BY <1>6, <2>1, <2>2 DEF TableLogin, kept, TypeOK
<1>7. CASE TargetedBola
  <2>1. wire' \in Seq(Exchange)
    BY <1>7, SendType DEF TargetedBola, Accounts, Answers, TableAnswers
  <2>2. findings' \in Seq(FindingType) /\ pc' \in PC
    BY <1>7, <1>q, <2>1, RecordType DEF TargetedBola, Conclude, TypeOK, PC, Status
  <2>3. QED
    BY <1>7, <2>1, <2>2 DEF TargetedBola, kept, TypeOK
<1>8. CASE UnfilteredRls
  <2>1. wire' \in Seq(Exchange)
    BY <1>8, SendType DEF UnfilteredRls, Accounts, Answers
  <2>2. findings' \in Seq(FindingType) /\ pc' \in PC
    BY <1>8, <1>q, <2>1, RecordType DEF UnfilteredRls, Conclude, TypeOK, PC, Status
  <2>3. QED
    BY <1>8, <2>1, <2>2 DEF UnfilteredRls, kept, TypeOK
<1>9. CASE ProberLogin
  <2>1. acct' \in [Accounts -> [token : BOOLEAN, uid : BOOLEAN]]
    BY <1>9, GrantType DEF ProberLogin, TypeOK, Accounts
  <2>2. blocked' \in Nat /\ loose' \subseteq Loose
    BY <1>9, FollowType DEF ProberLogin, TypeOK
  <2>3. pc' \in PC
    BY <1>9 DEF ProberLogin, AfterLogin, PC
  <2>4. QED
    BY <1>9, <2>1, <2>2, <2>3 DEF ProberLogin, kept, TypeOK
<1>10. CASE GuardStops
  BY <1>10 DEF GuardStops, kept, TypeOK, PC, Terminal
<1>11. CASE ProveRouteBola
  <2>1. wire' \in Seq(Exchange)
    BY <1>11, SendType DEF ProveRouteBola, Accounts, Answers
  <2>2. findings' \in Seq(FindingType) /\ pc' \in PC
    BY <1>11, <1>q, <2>1, RecordType DEF ProveRouteBola, Conclude, TypeOK, PC, Status
  <2>3. QED
    BY <1>11, <2>1, <2>2, FollowType DEF ProveRouteBola, kept, TypeOK
<1>12. CASE OwnerReads
  <2>1. wire' \in Seq(Exchange)
    BY <1>12, SendType DEF OwnerReads, Accounts, Answers
  <2>2. findings' \in Seq(FindingType) /\ pc' \in PC
    BY <1>12, <1>q, <2>1, RecordType DEF OwnerReads, Conclude, PC, Status
  <2>3. QED
    BY <1>12, <2>1, <2>2, FollowType DEF OwnerReads, kept, TypeOK
<1>13. CASE ProveSqlInjection
  <2>1. wire' \in Seq(Exchange)
    BY <1>13, SendType DEF ProveSqlInjection, Accounts, Answers
  <2>2. findings' \in Seq(FindingType) /\ pc' \in PC
    <3>1. \A s \in Status, e \in BOOLEAN : Conclude(s, e) =>
              findings' \in Seq(FindingType) /\ pc' = "pick"
      BY <1>q, <2>1, RecordType DEF Conclude
    <3>2. \/ \E s \in Status, e \in BOOLEAN : Conclude(s, e)
          \/ pc' = "sql_login" /\ UNCHANGED findings
      <4>1. PICK ans \in SqlAnswers :
              CASE ans = "failed"   -> Conclude("REPORTED", FALSE)
                [] ans # "failed" /\ Len(wire') < 3 ->
                       pc' = "sql_login" /\ UNCHANGED findings
                [] OTHER ->
                       Conclude(IF Judge(wire') THEN "PROVEN" ELSE "NOT_REPRODUCED", TRUE)
        BY <1>13 DEF ProveSqlInjection
      <4>2. CASE ans = "failed"
        BY <4>1, <4>2 DEF Status
      <4>3. CASE ans # "failed" /\ Len(wire') < 3
        BY <4>1, <4>3
      <4>4. CASE ans # "failed" /\ ~(Len(wire') < 3)
        <5>1. Conclude(IF Judge(wire') THEN "PROVEN" ELSE "NOT_REPRODUCED", TRUE)
          BY <4>1, <4>4
        <5>2. QED
          BY <5>1 DEF Status
      <4>5. QED
        BY <4>2, <4>3, <4>4
    <3>3. QED
      BY <3>1, <3>2 DEF TypeOK, PC
  <2>3. QED
    BY <1>13, <2>1, <2>2, FollowType DEF ProveSqlInjection, kept, TypeOK
<1>14. CASE LabelScopes
  BY <1>14 DEF LabelScopes, kept, TypeOK
<1>15. CASE ReportAgent
  <2>1. findings' \in Seq(FindingType) /\ pc' \in PC
    BY <1>15, <1>q, RecordType DEF ReportAgent, Conclude, PC, Status
  <2>2. QED
    BY <1>15, <2>1 DEF ReportAgent, kept, TypeOK
<1>16. CASE RunSandbox
  <2>1. wire' \in Seq(Exchange)
    BY <1>16, SendType DEF RunSandbox, Answers
  <2>2. findings' \in Seq(FindingType) /\ pc' \in PC
    BY <1>16, <1>q, <2>1, RecordType DEF RunSandbox, Conclude, AgentAnswers, PC, Status
  <2>3. QED
    BY <1>16, <2>1, <2>2 DEF RunSandbox, kept, TypeOK
<1>17. CASE Tick
  BY <1>17 DEF Tick, TypeOK
<1>18. CASE Stop \/ UNCHANGED vars
  BY <1>18 DEF Stop, vars, TypeOK
<1>19. QED
  BY <1>1, <1>2, <1>3, <1>4, <1>5, <1>6, <1>7, <1>8, <1>9, <1>10, <1>11, <1>12, <1>13,
     <1>14, <1>15, <1>16, <1>17, <1>18 DEF Next, Step

\* Every variable keeps its type; in particular the attempt counter never passes
\* the end of the ranked list.
LEMMA TypeInit == Init => TypeOK
<1> USE ConstantsAssumption DEF ConstantsAssumption
<1> SUFFICES ASSUME Init PROVE TypeOK
  OBVIOUS
<1>1. acct \in [Accounts -> [token : BOOLEAN, uid : BOOLEAN]]
  <2> DEFINE R == {[token |-> FALSE, uid |-> FALSE], [token |-> TRUE, uid |-> TRUE],
                   [token |-> TRUE, uid |-> FALSE]}
  <2>1. R \subseteq [token : BOOLEAN, uid : BOOLEAN]
    OBVIOUS
  <2>2. acct \in [Accounts -> R]
    BY DEF Init
  <2> HIDE DEF R
  <2>3. QED
    BY <2>1, <2>2
<1>2. queue \in Seq(CandidateType) /\ seed \in SeedType /\ 0 \in 0..Len(queue)
  BY DEF Init
<1>3. outcome \in [stopped : BOOLEAN, skipped : Nat]
  BY DEF Init, NoOutcome
<1>4. wire \in Seq(Exchange) /\ findings \in Seq(FindingType)
  BY DEF Init
<1>5. clock \in 0..MaxClock /\ attempted \in 0..Len(queue)
  BY <1>2 DEF Init
<1>6. QED
  BY <1>1, <1>2, <1>3, <1>4, <1>5 DEF Init, TypeOK, PC, Terminal

THEOREM Typing == Spec => []TypeOK
<1>1. Init => TypeOK
  BY TypeInit
<1>2. TypeOK /\ [Next]_vars => TypeOK'
  BY TypeStep
<1>3. QED
  BY <1>1, <1>2, PTL DEF Spec
-----------------------------------------------------------------------------
\* A probe that concludes honestly leaves the loop consistent.
LEMMA Concluding ==
    ASSUME IInv, pc \in Probing, NEW s \in Status, NEW e \in BOOLEAN,
           wire' \in Seq(Exchange), UNCHANGED <<queue, attempted>>, Conclude(s, e),
           Honest([cand |-> attempted, status |-> s, executed |-> e, wire |-> wire'])
    PROVE  InStep' /\ WireOK' /\ OutcomeOK' /\ AllHonest'
<1> DEFINE f == [cand |-> attempted, status |-> s, executed |-> e, wire |-> wire']
<1>1. attempted \in Nat /\ findings \in Seq(FindingType) /\ Len(findings) \in Nat
  BY DEF IInv, TypeOK
<1>2. Len(findings) + 1 = attempted
  BY DEF IInv, InStep, BeforeTheLoop
<1>3. /\ findings' \in Seq(FindingType)
      /\ pc' = "pick"
      /\ Len(findings') = Len(findings) + 1
      /\ \A i \in 1..Len(findings) : findings'[i] = findings[i]
      /\ findings'[Len(findings) + 1] = f
  BY <1>1, RecordType DEF Conclude, IInv
<1>4. DOMAIN findings = 1..Len(findings) /\ DOMAIN findings' = 1..Len(findings')
  BY <1>1, <1>3
<1>5. \A i \in DOMAIN findings' : i \in DOMAIN findings \/ i = Len(findings) + 1
  BY <1>1, <1>3, <1>4
<1>6. InStep'
  <2>1. \A i \in DOMAIN findings' : findings'[i].cand = i
    BY <1>1, <1>2, <1>3, <1>4, <1>5 DEF IInv, InStep, BeforeTheLoop
  <2>2. findings'[attempted].wire = wire'
    BY <1>2, <1>3
  <2>3. QED
    BY <1>1, <1>2, <1>3, <2>1, <2>2 DEF InStep, BeforeTheLoop, Probing, PC, Terminal
<1>7. WireOK' /\ OutcomeOK'
  BY <1>3 DEF WireOK, OutcomeOK
<1>8. AllHonest'
  <2> SUFFICES ASSUME NEW i \in DOMAIN findings' PROVE Honest(findings[i])'
    BY DEF AllHonest
  <2>1. CASE i \in DOMAIN findings
    <3>1. findings'[i] = findings[i] /\ Honest(findings[i])
      BY <2>1, <1>3, <1>4 DEF IInv, AllHonest
    <3>2. QED
      BY <3>1 DEF Honest, Held, RoutePlane
  <2>2. CASE i = Len(findings) + 1
    <3>1. findings'[i] = f
      BY <2>2, <1>3
    <3>2. QED
      BY <3>1 DEF Honest, Held, RoutePlane
  <2>3. QED
    BY <1>5, <2>1, <2>2
<1>9. QED
  BY <1>6, <1>7, <1>8

\* A step inside a probe that records nothing.
LEMMA Advancing ==
    ASSUME IInv, pc \in Probing, pc' \in Probing \cup {"aborted"},
           UNCHANGED <<queue, attempted, findings>>
    PROVE  InStep' /\ OutcomeOK' /\ AllHonest'
<1>1. attempted \in Nat /\ findings \in Seq(FindingType) /\ Len(findings) \in Nat
  BY DEF IInv, TypeOK
<1>2. InStep'
  BY <1>1 DEF IInv, InStep, BeforeTheLoop, Probing, PC, Terminal
<1>3. OutcomeOK'
  BY DEF OutcomeOK, Probing, Terminal
<1>4. AllHonest'
  BY DEF IInv, AllHonest, Honest, Held, RoutePlane
<1>5. QED
  BY <1>2, <1>3, <1>4

LEMMA InvInit == Init => IInv
<1> SUFFICES ASSUME Init PROVE IInv
  OBVIOUS
<1>1. TypeOK
  BY TypeInit
<1>2. pc = "called" /\ attempted = 0 /\ wire = <<>> /\ findings = <<>> /\ loose = {}
  BY DEF Init
<1>3. DOMAIN findings = {} /\ Len(findings) = 0
  BY <1>2
<1>4. InStep
  BY <1>2, <1>3 DEF InStep, BeforeTheLoop, Probing, PC, Terminal
<1>5. QED
  BY <1>1, <1>2, <1>3, <1>4 DEF IInv, WireOK, OutcomeOK, AllHonest, GuardOK

\* Which harness a candidate's first step belongs to.
LEMMA Dispatch ==
    ASSUME NEW c \in CandidateType, ~Unsent(c)
    PROVE  /\ FirstStep(c) \in {"attack_login", "table_login", "sql_login", "agent"}
           /\ FirstStep(c) = "attack_login" => RoutePlane(c) /\ c.read
           /\ FirstStep(c) = "table_login" => TablePlane(c)
           /\ FirstStep(c) = "sql_login" => c.check = "CLASSIC_INJECTION" /\ c.read
           /\ FirstStep(c) = "agent" => c.check = "AGENT_INJECTION"
<1>1. c.check \in Checks
  BY DEF CandidateType
<1>2. CASE RoutePlane(c)
  BY <1>2 DEF Unsent, FirstStep, RoutePlane, TablePlane
<1>3. CASE ~RoutePlane(c) /\ TablePlane(c)
  BY <1>3 DEF Unsent, FirstStep, RoutePlane, TablePlane
<1>4. CASE ~RoutePlane(c) /\ ~TablePlane(c) /\ c.check = "CLASSIC_INJECTION"
  BY <1>4 DEF Unsent, FirstStep
<1>5. CASE ~RoutePlane(c) /\ ~TablePlane(c) /\ c.check # "CLASSIC_INJECTION"
  <2>1. c.check = "AGENT_INJECTION"
    BY <1>1, <1>5 DEF Unsent, Checks, TablePlane
  <2>2. FirstStep(c) = "agent"
    BY <1>5 DEF FirstStep
  <2>3. QED
    BY <2>1, <2>2
<1>6. QED
  BY <1>2, <1>3, <1>4, <1>5

LEMMA InvStep == ASSUME IInv, [Next]_vars PROVE IInv'
<1>t. TypeOK'
  BY TypeStep DEF IInv
<1>q. /\ TypeOK /\ attempted \in Nat /\ queue \in Seq(CandidateType) /\ Len(queue) \in Nat
      /\ findings \in Seq(FindingType) /\ wire \in Seq(Exchange) /\ wire' \in Seq(Exchange)
  BY <1>t, ConstantsAssumption DEF ConstantsAssumption, IInv, TypeOK
<1>c. attempted > 0 => Current \in CandidateType
  BY <1>q DEF TypeOK, Current
<1>1. CASE Announce \/ RefusePartialPlan \/ RefuseUnowned
  <2>1. /\ pc \in {"called", "start"} /\ pc' \in BeforeTheLoop
        /\ pc' = "refused" => cfg.plan # "partial"
    BY <1>1 DEF Announce, RefusePartialPlan, RefuseUnowned, BeforeTheLoop
  <2>2. UNCHANGED <<cfg, queue, attempted, wire, findings>> /\ loose' \subseteq loose \cup {"bare"}
    BY <1>1 DEF Perhaps, Announce, RefusePartialPlan, RefuseUnowned, kept
  <2>3. InStep'
    BY <2>1, <2>2 DEF IInv, InStep, BeforeTheLoop, Probing, PC, Terminal
  <2>4. WireOK' /\ OutcomeOK' /\ AllHonest' /\ GuardOK'
    BY <2>1, <2>2 DEF IInv, BeforeTheLoop, WireOK, OutcomeOK, AllHonest, Honest, Held,
       RoutePlane, GuardOK, Allowed
  <2>5. QED
    BY <1>t, <2>3, <2>4 DEF IInv
<1>2. CASE Begin
  <2>1. pc = "start" /\ pc' \in {"pick", "aborted"} /\ cfg.plan # "partial" /\ Allowed
    BY <1>2 DEF Begin
  <2>2. /\ UNCHANGED <<cfg, queue, attempted, wire, findings>>
        /\ loose' = loose \/ (cfg.autodiscover /\ loose' = loose \cup {"walk"})
    BY <1>2 DEF Begin, Walks, Perhaps, kept
  <2>3. attempted = 0
    BY <2>1 DEF IInv, InStep, BeforeTheLoop
  <2>4. InStep'
    BY <1>q, <2>1, <2>2, <2>3 DEF IInv, InStep, BeforeTheLoop, Probing, PC, Terminal
  <2>5. WireOK' /\ OutcomeOK' /\ AllHonest' /\ GuardOK'
    BY <2>1, <2>2, <2>3 DEF IInv, WireOK, OutcomeOK, AllHonest, Honest, Held, RoutePlane,
       GuardOK, Allowed
  <2>6. QED
    BY <1>t, <2>4, <2>5 DEF IInv
<1>3. CASE ReportUnsent
  <2> DEFINE f == [cand |-> attempted + 1, status |-> "REPORTED", executed |-> FALSE, wire |-> wire']
  <2>1. /\ pc = "pick" /\ attempted' = attempted + 1 /\ wire' = <<>>
        /\ UNCHANGED <<cfg, queue, loose>>
    BY <1>3 DEF ReportUnsent, Attempt, kept
  <2>2. /\ findings' \in Seq(FindingType)
        /\ pc' = "pick"
        /\ Len(findings') = Len(findings) + 1
        /\ \A i \in 1..Len(findings) : findings'[i] = findings[i]
        /\ findings'[Len(findings) + 1] = f
    <3>1. attempted + 1 \in Nat /\ "REPORTED" \in Status /\ FALSE \in BOOLEAN
      BY <1>q DEF Status
    <3>2. Record(attempted + 1, "REPORTED", FALSE)
      BY <1>3 DEF ReportUnsent
    <3>3. QED
      BY <1>q, <3>1, <3>2, RecordType
  <2>3. Len(findings) = attempted
    BY <2>1 DEF IInv, InStep, BeforeTheLoop
  <2>4. DOMAIN findings = 1..Len(findings) /\ DOMAIN findings' = 1..Len(findings')
    BY <1>q, <2>2
  <2>5. \A i \in DOMAIN findings' : i \in DOMAIN findings \/ i = Len(findings) + 1
    BY <1>q, <2>2, <2>4
  <2>6. InStep'
    <3>1. \A i \in DOMAIN findings' : findings'[i].cand = i
      BY <1>q, <2>2, <2>3, <2>4, <2>5 DEF IInv, InStep, BeforeTheLoop
    <3>2. QED
      BY <1>q, <2>1, <2>2, <2>3, <3>1 DEF InStep, BeforeTheLoop, Probing, PC, Terminal
  <2>7. AllHonest'
    <3> SUFFICES ASSUME NEW i \in DOMAIN findings' PROVE Honest(findings[i])'
      BY DEF AllHonest
    <3>1. CASE i \in DOMAIN findings
      <4>1. findings'[i] = findings[i] /\ Honest(findings[i])
        BY <3>1, <2>2, <2>4 DEF IInv, AllHonest
      <4>2. QED
        BY <4>1, <2>1 DEF Honest, Held, RoutePlane
    <3>2. CASE i = Len(findings) + 1
      <4>1. findings'[i] = f /\ wire' = <<>>
        BY <3>2, <2>1, <2>2
      <4>2. QED
        BY <4>1 DEF Honest, Held
    <3>3. QED
      BY <2>5, <3>1, <3>2
  <2>8. WireOK' /\ OutcomeOK' /\ GuardOK'
    BY <2>1, <2>2 DEF IInv, WireOK, OutcomeOK, GuardOK, Allowed
  <2>9. QED
    BY <1>t, <2>6, <2>7, <2>8 DEF IInv
<1>4. CASE BeginProbe
  <2>1. /\ pc = "pick" /\ attempted' = attempted + 1 /\ wire' = <<>> /\ attempted < Len(queue)
        /\ UNCHANGED <<cfg, queue, findings, loose>>
        /\ ~Unsent(queue[attempted + 1]) /\ pc' = FirstStep(queue[attempted + 1])
    BY <1>4 DEF BeginProbe, Attempt, kept
  <2>2. queue[attempted + 1] \in CandidateType
    BY <1>q, <2>1
  <2>3. /\ pc' \in {"attack_login", "table_login", "sql_login", "agent"}
        /\ pc' = "attack_login" => RoutePlane(Current)' /\ Current'.read
        /\ pc' = "table_login" => TablePlane(Current)'
        /\ pc' = "sql_login" => Current'.check = "CLASSIC_INJECTION" /\ Current'.read
        /\ pc' = "agent" => Current'.check = "AGENT_INJECTION"
    BY <2>1, <2>2, Dispatch DEF Current, RoutePlane, TablePlane
  <2>4. Len(findings) = attempted
    BY <2>1 DEF IInv, InStep, BeforeTheLoop
  <2>5. InStep'
    BY <1>q, <2>1, <2>3, <2>4 DEF IInv, InStep, BeforeTheLoop, Probing, PC, Terminal
  <2>6. WireOK'
    BY <2>1, <2>3 DEF WireOK
  <2>7. OutcomeOK' /\ AllHonest' /\ GuardOK'
    BY <2>1, <2>3 DEF IInv, OutcomeOK, AllHonest, Honest, Held, RoutePlane, GuardOK, Allowed
  <2>8. QED
    BY <1>t, <2>5, <2>6, <2>7 DEF IInv
<1>5. CASE StopLoop
  <2>1. /\ pc = "pick" /\ pc' = "returned"
        /\ attempted = Len(queue) \/ Exhausted
        /\ UNCHANGED <<cfg, queue, attempted, wire, findings, loose, clock>>
    BY <1>5 DEF StopLoop, kept
  <2>2. InStep'
    BY <2>1 DEF IInv, InStep, BeforeTheLoop, Probing, PC, Terminal
  <2>3. OutcomeOK'
    BY <2>1 DEF OutcomeOK, Exhausted
  <2>4. WireOK' /\ AllHonest' /\ GuardOK'
    BY <2>1 DEF IInv, WireOK, AllHonest, Honest, Held, RoutePlane, GuardOK, Allowed
  <2>5. QED
    BY <1>t, <2>2, <2>3, <2>4 DEF IInv
<1>6. CASE ReportBudget
  <2>1. /\ pc = "returned" /\ pc' = "done"
        /\ outcome' = [stopped |-> Exhausted,
                       skipped |-> IF Exhausted THEN Len(queue) - attempted ELSE 0]
        /\ UNCHANGED <<cfg, queue, attempted, wire, findings, loose>>
    BY <1>6 DEF ReportBudget
  <2>2. InStep'
    BY <2>1 DEF IInv, InStep, BeforeTheLoop, Probing, PC, Terminal
  <2>3. OutcomeOK'
    <3>1. outcome'.skipped = IF Exhausted THEN Len(queue) - attempted ELSE 0
      BY <2>1
    <3>2. attempted = Len(queue) \/ Exhausted
      BY <2>1 DEF IInv, OutcomeOK
    <3>3. QED
      BY <1>q, <2>1, <3>1, <3>2 DEF OutcomeOK
  <2>4. WireOK' /\ AllHonest' /\ GuardOK'
    BY <2>1 DEF IInv, WireOK, AllHonest, Honest, Held, RoutePlane, GuardOK, Allowed
  <2>5. QED
    BY <1>t, <2>2, <2>3, <2>4 DEF IInv
<1>7. CASE TableLogin
  <2>1. /\ pc = "table_login" /\ UNCHANGED <<cfg, queue, attempted, wire, loose>>
        /\ \/ pc' \in {"byid", "scan"} /\ (pc' = "byid" => OnSeedTable) /\ UNCHANGED findings
           \/ Conclude("REPORTED", FALSE)
           \/ pc' = "aborted" /\ UNCHANGED findings
    BY <1>7 DEF TableLogin, kept
  <2>2. TablePlane(Current) /\ wire = <<>> /\ attempted > 0
    BY <2>1, <1>q DEF IInv, WireOK, InStep, BeforeTheLoop, Probing, PC, Terminal
  <2>3. GuardOK'
    BY <2>1, <1>t DEF IInv, GuardOK, Allowed
  <2>4. CASE pc' \in {"byid", "scan"} /\ UNCHANGED findings
    <3>1. InStep' /\ OutcomeOK' /\ AllHonest'
      BY <2>1, <2>4, Advancing DEF Probing, PC, Terminal
    <3>2. WireOK'
      BY <2>1, <2>2, <2>4 DEF WireOK, Current, TablePlane, RoutePlane
    <3>3. QED
      BY <1>t, <2>3, <3>1, <3>2 DEF IInv
  <2>5. CASE Conclude("REPORTED", FALSE)
    <3>1. Honest([cand |-> attempted, status |-> "REPORTED", executed |-> FALSE, wire |-> wire'])
      BY <2>1, <2>2 DEF Honest
    <3>2. QED
      BY <1>t, <1>q, <2>1, <2>3, <2>5, <3>1, Concluding DEF IInv, Status, Probing, PC, Terminal
  <2>6. CASE pc' = "aborted" /\ UNCHANGED findings
    <3>1. InStep' /\ OutcomeOK' /\ AllHonest'
      BY <2>1, <2>6, Advancing DEF Probing, PC, Terminal
    <3>2. WireOK'
      BY <2>1, <2>2, <2>6 DEF WireOK
    <3>3. QED
      BY <1>t, <2>3, <3>1, <3>2 DEF IInv
  <2>7. QED
    BY <2>1, <2>4, <2>5, <2>6
<1>8. CASE TargetedBola
  <2>1. PICK ans \in {"seedrow", "empty", "error", "failed"} :
          /\ pc = "byid" /\ UNCHANGED <<cfg, queue, attempted, loose>>
          /\ Send("B", ans)
          /\ \/ ans = "seedrow" /\ Conclude("PROVEN", TRUE)
             \/ ans = "failed" /\ Conclude("REPORTED", FALSE)
             \/ pc' = "scan" /\ UNCHANGED findings
    BY <1>8 DEF TargetedBola, kept
  <2>2. wire = <<>> /\ wire' # <<>> /\ Len(wire') = 1 /\ wire'[1].ans = ans
    BY <1>q, <2>1, SendType DEF IInv, WireOK, Accounts, Answers, TableAnswers
  <2>3. TablePlane(Current) /\ attempted > 0
    BY <2>1, <1>q DEF IInv, WireOK, InStep, BeforeTheLoop, Probing, PC, Terminal
  <2>4. GuardOK'
    BY <2>1, <1>t DEF IInv, GuardOK, Allowed, Conclude, Record
  <2>5. \A s \in {"PROVEN", "REPORTED"}, e \in BOOLEAN :
          (s = "PROVEN" => e /\ ans = "seedrow")
          => Honest([cand |-> attempted, status |-> s, executed |-> e, wire |-> wire'])
    BY <2>2, <2>3 DEF Honest, Held, Current, TablePlane
  <2>6. CASE ans = "seedrow" /\ Conclude("PROVEN", TRUE)
    BY <1>t, <1>q, <2>1, <2>4, <2>5, <2>6, Concluding DEF IInv, Status, Probing, PC, Terminal
  <2>7. CASE ans = "failed" /\ Conclude("REPORTED", FALSE)
    BY <1>t, <1>q, <2>1, <2>4, <2>5, <2>7, Concluding DEF IInv, Status, Probing, PC, Terminal
  <2>8. CASE pc' = "scan" /\ UNCHANGED findings
    <3>1. InStep' /\ OutcomeOK' /\ AllHonest'
      BY <2>1, <2>8, Advancing DEF Probing, PC, Terminal
    <3>2. WireOK'
      BY <2>1, <2>3, <2>8 DEF WireOK, Current, TablePlane, RoutePlane
    <3>3. QED
      BY <1>t, <2>4, <3>1, <3>2 DEF IInv
  <2>9. QED
    BY <2>1, <2>6, <2>7, <2>8
<1>9. CASE UnfilteredRls
  <2>1. PICK ans \in TableAnswers :
          /\ pc = "scan" /\ UNCHANGED <<cfg, queue, attempted, loose>>
          /\ Send("B", ans)
          /\ CASE ans = "failed" -> Conclude("REPORTED", FALSE)
               [] Leaks(ans)     -> Conclude("PROVEN", TRUE)
               [] OTHER          -> Conclude("NOT_REPRODUCED", TRUE)
    BY <1>9 DEF UnfilteredRls, kept
  <2>9. \/ ans = "failed" /\ Conclude("REPORTED", FALSE)
        \/ ans # "failed" /\ Conclude("PROVEN", TRUE)
        \/ ans # "failed" /\ Conclude("NOT_REPRODUCED", TRUE)
    <3>1. CASE ans = "failed"
      BY <2>1, <3>1 DEF Leaks
    <3>2. CASE ans # "failed"
      BY <2>1, <3>2
    <3>3. QED
      BY <3>1, <3>2
  <2>2. Len(wire') = Len(wire) + 1 /\ wire'[Len(wire')].ans = ans /\ wire' # <<>>
    BY <1>q, <2>1, SendType DEF Accounts, Answers
  <2>3. TablePlane(Current) /\ attempted > 0
    BY <2>1, <1>q DEF IInv, WireOK, InStep, BeforeTheLoop, Probing, PC, Terminal
  <2>4. GuardOK'
    BY <2>1, <1>t DEF IInv, GuardOK, Allowed, Conclude, Record
  <2>5. \A s \in Status, e \in BOOLEAN :
          (s # "REPORTED" => e /\ ans # "failed")
          => Honest([cand |-> attempted, status |-> s, executed |-> e, wire |-> wire'])
    BY <2>1, <2>2, <2>3 DEF Honest, Held, Current, TablePlane
  <2>6. QED
    BY <1>t, <1>q, <2>1, <2>4, <2>5, <2>9, Concluding DEF IInv, Status, Probing, PC, Terminal
<1>10. CASE ProberLogin
  <2>1. /\ pc \in DOMAIN AfterLogin /\ pc' = AfterLogin[pc]
        /\ UNCHANGED <<cfg, queue, attempted, wire, findings>>
        /\ loose' = loose \/ Follow
    BY <1>10 DEF ProberLogin, kept
  <2>2. /\ pc \in {"attack_login", "control_login", "sql_login"}
        /\ pc' = CASE pc = "attack_login"  -> "attack"
                   [] pc = "control_login" -> "control"
                   [] pc = "sql_login"     -> "sql"
    BY <2>1 DEF AfterLogin
  <2>3. InStep' /\ OutcomeOK' /\ AllHonest'
    BY <2>1, <2>2, Advancing DEF Probing, PC, Terminal
  <2>4. WireOK'
    BY <2>1, <2>2 DEF IInv, WireOK, Current, RoutePlane
  <2>5. GuardOK'
    BY <2>1, <2>2, <1>q DEF IInv, GuardOK, Allowed, Follow, TypeOK
  <2>6. QED
    BY <1>t, <2>3, <2>4, <2>5 DEF IInv
<1>11. CASE GuardStops
  <2>1. /\ pc \in {"attack", "control", "sql"} /\ pc' = "aborted" /\ cfg.plan = "whole"
        /\ UNCHANGED <<cfg, queue, attempted, wire, findings, loose>>
    BY <1>11 DEF GuardStops, kept
  <2>2. InStep' /\ OutcomeOK' /\ AllHonest'
    BY <2>1, Advancing DEF Probing, PC, Terminal
  <2>3. WireOK' /\ GuardOK'
    BY <2>1 DEF IInv, WireOK, GuardOK, Allowed, Held, Current
  <2>4. QED
    BY <1>t, <2>2, <2>3 DEF IInv
<1>12. CASE ProveRouteBola
  <2>1. PICK ans \in RouteAnswers :
          /\ pc = "attack" /\ UNCHANGED <<cfg, queue, attempted>> /\ Follow
          /\ Send("B", ans)
          /\ \/ ans = "record" /\ Conclude("PROVEN", TRUE)
             \/ ans = "failed" /\ Conclude("REPORTED", FALSE)
             \/ ans # "record" /\ pc' = "control_login" /\ UNCHANGED findings
    BY <1>12 DEF ProveRouteBola, kept
  <2>2. /\ wire = <<>> /\ wire' # <<>> /\ Len(wire') = 1
        /\ wire'[1].ans = ans /\ wire'[1].as = "B"
    BY <1>q, <2>1, SendType DEF IInv, WireOK, Accounts, Answers
  <2>3. RoutePlane(Current) /\ Current.read
    BY <2>1 DEF IInv, WireOK
  <2>4. GuardOK'
    BY <2>1, <1>t DEF IInv, GuardOK, Allowed, Follow, Conclude, Record
  <2>5. \A s \in {"PROVEN", "REPORTED"}, e \in BOOLEAN :
          (s = "PROVEN" => e /\ ans = "record")
          => Honest([cand |-> attempted, status |-> s, executed |-> e, wire |-> wire'])
    BY <2>2, <2>3 DEF Honest, Held, Current
  <2>6. CASE ans = "record" /\ Conclude("PROVEN", TRUE)
    BY <1>t, <1>q, <2>1, <2>4, <2>5, <2>6, Concluding DEF IInv, Status, Probing, PC, Terminal
  <2>7. CASE ans = "failed" /\ Conclude("REPORTED", FALSE)
    BY <1>t, <1>q, <2>1, <2>4, <2>5, <2>7, Concluding DEF IInv, Status, Probing, PC, Terminal
  <2>8. CASE ans # "record" /\ pc' = "control_login" /\ UNCHANGED findings
    <3>1. InStep' /\ OutcomeOK' /\ AllHonest'
      BY <2>1, <2>8, Advancing DEF Probing, PC, Terminal
    <3>2. WireOK'
      BY <2>1, <2>2, <2>3, <2>8 DEF WireOK, Current, RoutePlane
    <3>3. QED
      BY <1>t, <2>4, <3>1, <3>2 DEF IInv
  <2>9. QED
    BY <2>1, <2>6, <2>7, <2>8
<1>13. CASE OwnerReads
  <2>1. PICK ans \in RouteAnswers :
          /\ pc = "control" /\ UNCHANGED <<cfg, queue, attempted>> /\ Follow
          /\ Send("A", ans)
          /\ \/ ans = "record" /\ Conclude("NOT_REPRODUCED", TRUE)
             \/ ans # "record" /\ Conclude("REPORTED", TRUE)
    BY <1>13 DEF OwnerReads, kept
  <2>2. /\ RoutePlane(Current) /\ Current.read
        /\ Len(wire) = 1 /\ wire[1].as = "B" /\ wire[1].ans # "record"
    BY <2>1 DEF IInv, WireOK
  <2>3. /\ Len(wire') = 2 /\ wire' # <<>> /\ wire'[1] = wire[1]
        /\ wire'[2].as = "A" /\ wire'[2].ans = ans
    BY <1>q, <2>1, <2>2, SendType DEF Accounts, Answers
  <2>4. GuardOK'
    BY <2>1, <1>t DEF IInv, GuardOK, Allowed, Follow, Conclude, Record
  <2>5. \A s \in {"NOT_REPRODUCED", "REPORTED"} :
          (s = "NOT_REPRODUCED" => ans = "record")
          => Honest([cand |-> attempted, status |-> s, executed |-> TRUE, wire |-> wire'])
    BY <2>2, <2>3 DEF Honest, Held, Current
  <2>6. QED
    BY <1>t, <1>q, <2>1, <2>4, <2>5, Concluding DEF IInv, Status, Probing, PC, Terminal
<1>14. CASE ProveSqlInjection
  <2>1. PICK ans \in SqlAnswers :
          /\ pc = "sql" /\ UNCHANGED <<cfg, queue, attempted>> /\ Follow
          /\ Send("B", ans)
          /\ CASE ans = "failed"   -> Conclude("REPORTED", FALSE)
               [] ans # "failed" /\ Len(wire') < 3 ->
                      pc' = "sql_login" /\ UNCHANGED findings
               [] OTHER ->
                      Conclude(IF Judge(wire') THEN "PROVEN" ELSE "NOT_REPRODUCED", TRUE)
    BY <1>14 DEF ProveSqlInjection, kept
  <2>2. Len(wire') = Len(wire) + 1 /\ wire'[Len(wire')].ans = ans /\ wire' # <<>>
    BY <1>q, <2>1, SendType DEF Accounts, Answers
  <2>3. Current.check = "CLASSIC_INJECTION" /\ Current.read
    BY <2>1 DEF IInv, WireOK
  <2>4. GuardOK'
    BY <2>1, <1>t DEF IInv, GuardOK, Allowed, Follow, Conclude, Record
  <2>5. \A s \in Status, e \in BOOLEAN :
          (s # "REPORTED" => e /\ ans # "failed")
          => Honest([cand |-> attempted, status |-> s, executed |-> e, wire |-> wire'])
    BY <2>2, <2>3 DEF Honest, Held, Current, RoutePlane
  <2>6. CASE ans = "failed"
    <3>1. Conclude("REPORTED", FALSE)
      BY <2>1, <2>6
    <3>2. QED
      BY <1>t, <1>q, <2>1, <2>4, <2>5, <3>1, Concluding DEF IInv, Status, Probing, PC, Terminal
  <2>7. CASE ans # "failed" /\ Len(wire') < 3
    <3>0. pc' = "sql_login" /\ UNCHANGED findings
      BY <2>1, <2>7
    <3>1. InStep' /\ OutcomeOK' /\ AllHonest'
      BY <2>1, <3>0, Advancing DEF Probing, PC, Terminal
    <3>2. WireOK'
      BY <2>1, <2>3, <3>0 DEF WireOK, Current
    <3>3. QED
      BY <1>t, <2>4, <3>1, <3>2 DEF IInv
  <2>8. CASE ans # "failed" /\ ~(Len(wire') < 3)
    <3>1. PICK s \in {"PROVEN", "NOT_REPRODUCED"} : Conclude(s, TRUE)
      BY <2>1, <2>8
    <3>2. QED
      BY <1>t, <1>q, <2>1, <2>4, <2>5, <2>8, <3>1, Concluding DEF IInv, Status, Probing, PC, Terminal
  <2>9. QED
    BY <2>6, <2>7, <2>8
<1>15. CASE LabelScopes
  <2>1. pc = "agent" /\ UNCHANGED <<cfg, queue, attempted, pc, wire, findings, loose>>
    BY <1>15 DEF LabelScopes, kept
  <2>2. InStep' /\ OutcomeOK' /\ AllHonest'
    BY <2>1, Advancing DEF Probing, PC, Terminal
  <2>3. WireOK' /\ GuardOK'
    BY <2>1 DEF IInv, WireOK, GuardOK, Allowed, Current
  <2>4. QED
    BY <1>t, <2>2, <2>3 DEF IInv
<1>16. CASE ReportAgent
  <2>1. /\ pc = "agent" /\ UNCHANGED <<cfg, queue, attempted, wire, loose>>
        /\ Conclude("REPORTED", FALSE)
    BY <1>16 DEF ReportAgent, kept
  <2>2. GuardOK'
    BY <2>1, <1>t DEF IInv, GuardOK, Allowed, Conclude, Record
  <2>3. Honest([cand |-> attempted, status |-> "REPORTED", executed |-> FALSE, wire |-> wire'])
    BY <2>1 DEF IInv, WireOK, Honest, Held, Current, RoutePlane
  <2>4. QED
    BY <1>t, <1>q, <2>1, <2>2, <2>3, Concluding DEF IInv, Status, Probing, PC, Terminal
<1>17. CASE RunSandbox
  <2>1. PICK ans \in AgentAnswers :
          /\ pc = "agent" /\ UNCHANGED <<cfg, queue, attempted, loose>>
          /\ Send("agent", ans)
          /\ CASE ans = "turned" -> Conclude("PROVEN", TRUE)
               [] ans = "held"   -> Conclude("NOT_REPRODUCED", TRUE)
               [] ans = "failed" -> Conclude("REPORTED", FALSE)
    BY <1>17 DEF RunSandbox, kept
  <2>9. \/ ans = "turned" /\ Conclude("PROVEN", TRUE)
        \/ ans = "held" /\ Conclude("NOT_REPRODUCED", TRUE)
        \/ ans = "failed" /\ Conclude("REPORTED", FALSE)
    <3>1. ans = "turned" => Conclude("PROVEN", TRUE)
      BY <2>1
    <3>2. ans = "held" => Conclude("NOT_REPRODUCED", TRUE)
      BY <2>1
    <3>3. ans = "failed" => Conclude("REPORTED", FALSE)
      BY <2>1
    <3>4. QED
      BY <2>1, <3>1, <3>2, <3>3 DEF AgentAnswers
  <2>2. Len(wire') = Len(wire) + 1 /\ wire'[Len(wire')].ans = ans /\ wire' # <<>>
    <3>1. TypeOK /\ Send("agent", ans)
      BY <1>q, <2>1
    <3>2. ans \in Answers /\ "agent" \in Accounts \cup {"agent"}
      BY DEF Answers
    <3>3. Len(wire') = Len(wire) + 1 /\ wire'[Len(wire) + 1].ans = ans
      BY <3>1, <3>2, SendType
    <3>4. QED
      BY <1>q, <3>3
  <2>3. Current.check = "AGENT_INJECTION"
    BY <2>1 DEF IInv, WireOK
  <2>4. GuardOK'
    BY <2>1, <1>t DEF IInv, GuardOK, Allowed, Conclude, Record
  <2>5. \A s \in Status, e \in BOOLEAN :
          (s # "REPORTED" => e /\ ans # "failed")
          => Honest([cand |-> attempted, status |-> s, executed |-> e, wire |-> wire'])
    BY <2>2, <2>3 DEF Honest, Held, Current, RoutePlane
  <2>6. QED
    BY <1>t, <1>q, <2>1, <2>4, <2>5, <2>9, Concluding DEF IInv, Status, Probing, PC, Terminal
<1>18. CASE Tick
  <2>1. /\ pc \notin Terminal /\ clock' = clock + 1
        /\ UNCHANGED <<cfg, queue, attempted, pc, wire, findings, loose, outcome>>
    BY <1>18 DEF Tick
  <2>2. InStep' /\ WireOK' /\ AllHonest' /\ GuardOK'
    BY <2>1 DEF IInv, InStep, WireOK, AllHonest, Honest, Held, RoutePlane, TablePlane, Current,
       GuardOK, Allowed
  <2>3. OutcomeOK'
    <3>1. clock \in Int /\ cfg \in ConfigType
      BY <1>q, ConstantsAssumption DEF ConstantsAssumption, TypeOK
    <3>2. Exhausted => Exhausted'
      BY <2>1, <3>1 DEF Exhausted, ConfigType, NoCap
    <3>3. QED
      BY <2>1, <3>2 DEF IInv, OutcomeOK, Terminal
  <2>4. QED
    BY <1>t, <2>2, <2>3 DEF IInv
<1>19. CASE Stop \/ UNCHANGED vars
  <2>1. UNCHANGED vars
    BY <1>19 DEF Stop
  <2>2. QED
    BY <1>t, <2>1 DEF vars, IInv, InStep, WireOK, OutcomeOK, Exhausted, AllHonest, Honest, Held,
                      RoutePlane, TablePlane, Current, GuardOK, Allowed
<1>20. QED
  BY <1>1, <1>2, <1>3, <1>4, <1>5, <1>6, <1>7, <1>8, <1>9, <1>10, <1>11, <1>12, <1>13,
     <1>14, <1>15, <1>16, <1>17, <1>18, <1>19 DEF Next, Step

-----------------------------------------------------------------------------
\* The inductive invariant holds of every run.
LEMMA Invariance == Spec => []IInv
<1>1. IInv /\ [Next]_vars => IInv'
  BY InvStep
<1>2. QED
  BY InvInit, <1>1, PTL DEF Spec

\* A verdict rests on an attack that was sent and answered; what was not sent is
\* only ever REPORTED.
THEOREM VerdictsRestOnRequests == Spec => []ClaimsRestOnARequest
<1>1. IInv => ClaimsRestOnARequest
  BY DEF IInv, AllHonest, Honest, ClaimsRestOnARequest
<1>2. QED
  BY Invariance, <1>1, PTL

\* A route is called held only under the owner's control read.
THEOREM RouteControl == Spec => []HeldRouteHasControl
<1>1. IInv => HeldRouteHasControl
  BY DEF IInv, AllHonest, Honest, HeldRouteHasControl
<1>2. QED
  BY Invariance, <1>1, PTL

\* No write verb is ever sent, whatever the candidates and their order.
THEOREM WritesHeld == Spec => []WritesNeverSent
<1>1. IInv => WritesNeverSent
  <2> SUFFICES ASSUME IInv PROVE WritesNeverSent
    OBVIOUS
  <2>1. \A i \in DOMAIN findings : Held(queue[findings[i].cand]) => findings[i].wire = <<>>
    BY DEF IInv, AllHonest, Honest
  <2>2. ASSUME attempted > 0, Held(Current) PROVE wire = <<>>
    <3>1. CASE pc \in {"pick", "returned", "done"}
      <4>1. attempted \in Nat /\ findings \in Seq(FindingType) /\ Len(findings) = attempted
        BY <3>1 DEF IInv, TypeOK, InStep
      <4>2. attempted \in DOMAIN findings
        BY <4>1, <2>2
      <4>3. wire = findings[attempted].wire /\ findings[attempted].cand = attempted
        BY <4>2, <3>1, <2>2 DEF IInv, InStep, BeforeTheLoop
      <4>4. QED
        BY <4>2, <4>3, <2>1, <2>2 DEF Current
    <3>2. CASE pc \in BeforeTheLoop
      BY <3>2 DEF IInv, InStep, BeforeTheLoop
    <3>3. CASE pc \in Probing \cup {"aborted"}
      BY <3>3, <2>2 DEF IInv, WireOK, Held, TablePlane, RoutePlane, Probing, PC, Terminal
    <3>4. QED
      BY <3>1, <3>2, <3>3 DEF IInv, TypeOK, BeforeTheLoop, Probing, PC, Terminal
  <2>3. QED
    BY <2>1, <2>2 DEF WritesNeverSent, Held
<1>2. QED
  BY Invariance, <1>1, PTL

\* One finding per candidate, in ranked order, and a finished run's budget outcome
\* counts exactly what is missing.
THEOREM QueueFollowed == Spec => []FindingsFollowTheQueue
<1>1. IInv => FindingsFollowTheQueue
  <2> SUFFICES ASSUME IInv PROVE FindingsFollowTheQueue
    OBVIOUS
  <2>1. attempted \in Nat /\ Len(findings) \in Nat /\ pc \in PC
    BY DEF IInv, TypeOK
  <2>2. Len(findings) \in {attempted, attempted - 1}
    BY <2>1 DEF IInv, InStep, BeforeTheLoop, Probing, PC, Terminal
  <2>3. QED
    BY <2>1, <2>2 DEF IInv, InStep, OutcomeOK, FindingsFollowTheQueue
<1>2. QED
  BY Invariance, <1>1, PTL

\* With a plan supplied, in whole or in part, no request of a harness leaves the
\* target (guarded_replay, guarded_prober), and the walk, which is outside the
\* guard and may, is one that was asked for and let in (discover).
THEOREM Contained == Spec => []GuardedStaysOnTarget
<1>1. IInv => GuardedStaysOnTarget
  <2> SUFFICES ASSUME IInv, cfg.plan # "none"
               PROVE  /\ "hop" \notin loose
                      /\ "walk" \in loose => /\ cfg.autodiscover /\ cfg.plan = "whole"
                                             /\ Allowed
    BY DEF GuardedStaysOnTarget
  <2>1. cfg \in ConfigType
    BY ConstantsAssumption DEF ConstantsAssumption, IInv, TypeOK
  <2>2. cfg.plan \in {"partial", "whole"}
    BY <2>1 DEF ConfigType
  <2>3. QED
    BY <2>2 DEF IInv, GuardOK
<1>2. QED
  BY Invariance, <1>1, PTL

-----------------------------------------------------------------------------
(* The gate. *)

AtGate == ~Allowed => pc \in BeforeTheLoop

\* Nothing happens to a target nobody has shown to be theirs, but for the
\* analysis's GETs without credentials (core_prove's gate, BehavioralProbe.run).
THEOREM GateFirst == Spec => NothingBeforeOwnership
<1>1. Init => AtGate
  BY DEF Init, AtGate, BeforeTheLoop
<1>2. AtGate /\ [Next]_vars => AtGate'
  <2> SUFFICES ASSUME AtGate, [Next]_vars PROVE AtGate'
    OBVIOUS
  <2>1. CASE pc \notin BeforeTheLoop
    <3>1. Allowed
      BY <2>1 DEF AtGate
    <3>2. cfg' = cfg
      BY DEF Next, Step, vars, kept, Announce, RefusePartialPlan, RefuseUnowned, Begin, ReportUnsent,
         BeginProbe, Attempt, StopLoop, ReportBudget, TableLogin, TargetedBola, UnfilteredRls,
         ProberLogin, GuardStops, ProveRouteBola, OwnerReads, ProveSqlInjection, LabelScopes,
         ReportAgent, RunSandbox, Tick, Stop
    <3>3. QED
      BY <3>1, <3>2 DEF AtGate, BeforeTheLoop, Allowed
  <2>2. CASE pc \in BeforeTheLoop
    BY <2>2 DEF AtGate, BeforeTheLoop, Allowed, Next, Step, vars, kept, Announce, RefusePartialPlan, RefuseUnowned,
       Begin, ReportUnsent, BeginProbe, Attempt, StopLoop, ReportBudget, TableLogin,
       TargetedBola, UnfilteredRls, ProberLogin, AfterLogin, GuardStops, ProveRouteBola,
       OwnerReads, ProveSqlInjection, LabelScopes, ReportAgent, RunSandbox, Tick, Stop, Terminal
  <2>3. QED
    BY <2>1, <2>2
<1>3. AtGate /\ [Next]_vars => [~Allowed => /\ UNCHANGED <<seed, acct, wire, findings, blocked>>
                                            /\ loose' \subseteq loose \cup {"bare"}]_vars
  BY DEF AtGate, Perhaps, BeforeTheLoop, Next, Step, vars, kept, Announce, RefusePartialPlan, RefuseUnowned, Begin, ReportUnsent,
     BeginProbe, Attempt, StopLoop, ReportBudget, TableLogin, TargetedBola, UnfilteredRls,
     ProberLogin, AfterLogin, GuardStops, ProveRouteBola, OwnerReads, ProveSqlInjection,
     LabelScopes, ReportAgent, RunSandbox, Tick, Stop
<1>4. QED
  BY <1>1, <1>2, <1>3, PTL DEF Spec, NothingBeforeOwnership

-----------------------------------------------------------------------------
(* As whom the harnesses speak. *)

\* What a step does to the exchanges: it starts afresh, leaves them alone, or,
\* inside a probe, adds one with the tokens the accounts have.
Asking ==
    \/ wire' = <<>>
    \/ UNCHANGED wire /\ (findings' # findings \/ pc' \in Probing => pc \in Probing)
    \/ /\ pc \in Probing /\ UNCHANGED acct
       /\ \E a \in Accounts \cup {"agent"}, ans \in Answers : Send(a, ans)

Recording ==
    UNCHANGED findings \/ \E c \in Nat, s \in Status, e \in BOOLEAN : Record(c, s, e)

TokenKept == acct["B"].token => acct'["B"].token

LEMMA Shape == ASSUME TypeOK, [Next]_vars PROVE Asking /\ Recording /\ TokenKept
<1>q. attempted \in Nat /\ acct \in [Accounts -> [token : BOOLEAN, uid : BOOLEAN]]
  BY ConstantsAssumption DEF TypeOK, ConstantsAssumption
<1>g. \A a \in Accounts, known \in BOOLEAN : Grant(a, known) => TokenKept
  BY <1>q DEF Grant, TokenKept, Accounts
<1>r. \A s \in Status, e \in BOOLEAN : Conclude(s, e) => Recording
  BY <1>q DEF Conclude, Recording
<1>1. CASE Announce \/ RefusePartialPlan \/ RefuseUnowned \/ Begin \/ StopLoop \/ ReportBudget \/ GuardStops
  BY <1>1 DEF Announce, RefusePartialPlan, RefuseUnowned, Begin, StopLoop, ReportBudget, GuardStops,
     Asking, Recording, TokenKept, Probing, PC, Terminal
<1>2. CASE ReportUnsent \/ BeginProbe
  <2>1. wire' = <<>> /\ UNCHANGED acct
    BY <1>2 DEF ReportUnsent, BeginProbe, Attempt
  <2>2. Recording
    <3>1. attempted + 1 \in Nat /\ "REPORTED" \in Status /\ FALSE \in BOOLEAN
      BY <1>q DEF Status
    <3>2. UNCHANGED findings \/ Record(attempted + 1, "REPORTED", FALSE)
      BY <1>2 DEF ReportUnsent, BeginProbe
    <3>3. QED
      BY <3>1, <3>2 DEF Recording
  <2>3. QED
    BY <2>1, <2>2 DEF Asking, TokenKept
<1>3. CASE TableLogin
  <2>1. Asking
    BY <1>3 DEF TableLogin, Asking, Probing, PC, Terminal
  <2>2. Recording
    BY <1>3, <1>r DEF TableLogin, Recording, Status
  <2>3. TokenKept
    BY <1>3, <1>g DEF TableLogin, TokenKept, Accounts
  <2>4. QED
    BY <2>1, <2>2, <2>3
<1>4. CASE ProberLogin
  <2>1. Asking /\ Recording
    BY <1>4 DEF ProberLogin, AfterLogin, Asking, Recording, Probing, PC, Terminal
  <2>2. TokenKept
    BY <1>4, <1>g DEF ProberLogin, TokenKept, Accounts
  <2>3. QED
    BY <2>1, <2>2
<1>5. CASE TargetedBola
  <2>1. Asking /\ TokenKept
    BY <1>5 DEF TargetedBola, Asking, TokenKept, Probing, PC, Terminal, Accounts, Answers,
       TableAnswers
  <2>2. Recording
    BY <1>5, <1>r DEF TargetedBola, Recording, Status
  <2>3. QED
    BY <2>1, <2>2
<1>6. CASE UnfilteredRls
  <2>1. Asking /\ TokenKept
    BY <1>6 DEF UnfilteredRls, Asking, TokenKept, Probing, PC, Terminal, Accounts, Answers
  <2>2. Recording
    BY <1>6, <1>r DEF UnfilteredRls, Recording, Status
  <2>3. QED
    BY <2>1, <2>2
<1>7. CASE ProveRouteBola
  <2>1. Asking /\ TokenKept
    BY <1>7 DEF ProveRouteBola, Asking, TokenKept, Probing, PC, Terminal, Accounts, Answers
  <2>2. Recording
    BY <1>7, <1>r DEF ProveRouteBola, Recording, Status
  <2>3. QED
    BY <2>1, <2>2
<1>8. CASE OwnerReads
  <2>1. Asking /\ TokenKept
    BY <1>8 DEF OwnerReads, Asking, TokenKept, Probing, PC, Terminal, Accounts, Answers
  <2>2. Recording
    BY <1>8, <1>r DEF OwnerReads, Status
  <2>3. QED
    BY <2>1, <2>2
<1>9. CASE ProveSqlInjection
  <2>1. Asking /\ TokenKept
    BY <1>9 DEF ProveSqlInjection, Asking, TokenKept, Probing, PC, Terminal, Accounts, Answers
  <2>2. PICK ans \in SqlAnswers :
          CASE ans = "failed"   -> Conclude("REPORTED", FALSE)
            [] ans # "failed" /\ Len(wire') < 3 ->
                   pc' = "sql_login" /\ UNCHANGED findings
            [] OTHER ->
                   Conclude(IF Judge(wire') THEN "PROVEN" ELSE "NOT_REPRODUCED", TRUE)
    BY <1>9 DEF ProveSqlInjection
  <2>3. \/ UNCHANGED findings \/ Conclude("REPORTED", FALSE)
        \/ Conclude("PROVEN", TRUE) \/ Conclude("NOT_REPRODUCED", TRUE)
    BY <2>2
  <2>4. Recording
    BY <2>3, <1>r DEF Recording, Status
  <2>5. QED
    BY <2>1, <2>4
<1>10. CASE LabelScopes \/ Tick
  BY <1>10 DEF LabelScopes, Tick, Asking, Recording, TokenKept
<1>11. CASE ReportAgent
  <2>1. Asking /\ TokenKept
    BY <1>11 DEF ReportAgent, Asking, TokenKept, Probing, PC, Terminal
  <2>2. Recording
    BY <1>11, <1>r DEF ReportAgent, Status
  <2>3. QED
    BY <2>1, <2>2
<1>12. CASE RunSandbox
  <2>1. Asking /\ TokenKept
    BY <1>12 DEF RunSandbox, Asking, TokenKept, Probing, PC, Terminal, Answers
  <2>2. Recording
    BY <1>12, <1>r DEF RunSandbox, AgentAnswers, Status
  <2>3. QED
    BY <2>1, <2>2
<1>13. CASE Stop \/ UNCHANGED vars
  BY <1>13 DEF Stop, vars, Asking, Recording, TokenKept
<1>14. QED
  BY <1>1, <1>2, <1>3, <1>4, <1>5, <1>6, <1>7, <1>8, <1>9, <1>10, <1>11, <1>12, <1>13
     DEF Next, Step

\* Somebody has spoken as a logged-in B in the exchanges `w`.
Spoke(w) == \E k \in 1..Len(w) : w[k].as = "B" /\ w[k].token

\* In the exchanges `w` B stays logged in.
Steady(w) ==
    \A k, l \in 1..Len(w) :
        k < l /\ w[k].as = "B" /\ w[k].token /\ w[l].as = "B" => w[l].token

LoggedIn(w) == \A l \in 1..Len(w) : w[l].as = "B" => w[l].token

TokenOK ==
    /\ Steady(wire) /\ (Spoke(wire) => acct["B"].token)
    /\ \A i \in 1..Len(findings) :
          /\ Steady(findings[i].wire)
          /\ Spoke(findings[i].wire) =>
                /\ acct["B"].token
                /\ \A j \in 1..Len(findings) : j > i => LoggedIn(findings[j].wire)
                /\ pc \in Probing => LoggedIn(wire)

LEMMA TokenStep == ASSUME TypeOK, TokenOK, [Next]_vars PROVE TokenOK'
<1>s. Asking /\ Recording /\ TokenKept /\ TypeOK'
  BY Shape, TypeStep
<1>q. wire \in Seq(Exchange) /\ findings \in Seq(FindingType) /\ wire' \in Seq(Exchange)
  BY <1>s DEF TypeOK
\* The exchanges of the current candidate.
<1>1. Steady(wire') /\ (Spoke(wire') => acct'["B"].token)
  <2>1. CASE wire' = <<>>
    BY <2>1 DEF Steady, Spoke
  <2>2. CASE UNCHANGED wire
    BY <1>s, <2>2 DEF TokenOK, TokenKept, Spoke, Steady
  <2>3. ASSUME NEW a \in Accounts \cup {"agent"}, NEW ans \in Answers, Send(a, ans), UNCHANGED acct
        PROVE  Steady(wire') /\ (Spoke(wire') => acct'["B"].token)
    <3>1. /\ Len(wire') = Len(wire) + 1
          /\ \A k \in 1..Len(wire) : wire'[k] = wire[k]
          /\ wire'[Len(wire) + 1].as = a
      BY <2>3, SendType
    <3>2. wire'[Len(wire) + 1].token = (a \in Accounts /\ acct[a].token)
      BY <1>q, <2>3 DEF Send
    <3>3. \A k \in 1..Len(wire') : k \in 1..Len(wire) \/ k = Len(wire) + 1
      BY <1>q, <3>1
    <3>4. a = "B" => (wire'[Len(wire) + 1].token <=> acct["B"].token)
      BY <3>2 DEF Accounts
    <3>5. Spoke(wire') => acct["B"].token
      BY <3>1, <3>3, <3>4 DEF TokenOK, Spoke
    <3>6. Steady(wire')
      BY <1>q, <3>1, <3>3, <3>4 DEF TokenOK, Spoke, Steady
    <3>7. QED
      BY <2>3, <3>5, <3>6
  <2>4. QED
    BY <1>s, <2>1, <2>2, <2>3 DEF Asking
\* Once a finding spoke as B, so does the candidate being probed.
<1>2. ASSUME NEW i \in 1..Len(findings), Spoke(findings[i].wire),
             pc' \in Probing \/ findings' # findings
      PROVE  LoggedIn(wire')
  <2>1. acct["B"].token /\ (pc \in Probing => LoggedIn(wire))
    BY <1>2 DEF TokenOK
  <2>2. CASE wire' = <<>>
    BY <2>2 DEF LoggedIn
  <2>3. CASE UNCHANGED wire /\ pc \in Probing
    BY <2>1, <2>3
  <2>4. ASSUME NEW a \in Accounts \cup {"agent"}, NEW ans \in Answers, Send(a, ans), pc \in Probing
        PROVE  LoggedIn(wire')
    <3>1. /\ Len(wire') = Len(wire) + 1
          /\ \A k \in 1..Len(wire) : wire'[k] = wire[k]
          /\ wire'[Len(wire) + 1].as = a
      BY <2>4, SendType
    <3>2. wire'[Len(wire) + 1].token = (a \in Accounts /\ acct[a].token)
      BY <1>q, <2>4 DEF Send
    <3>3. \A k \in 1..Len(wire') : k \in 1..Len(wire) \/ k = Len(wire) + 1
      BY <1>q, <3>1
    <3>4. a = "B" => wire'[Len(wire) + 1].token
      BY <2>1, <3>2 DEF Accounts
    <3>5. QED
      BY <2>1, <2>4, <3>1, <3>3, <3>4 DEF LoggedIn
  <2>5. QED
    BY <1>s, <1>2, <2>2, <2>3, <2>4 DEF Asking
<1>3. CASE UNCHANGED findings
  BY <1>s, <1>1, <1>2, <1>3 DEF TokenOK, TokenKept
<1>4. ASSUME NEW c \in Nat, NEW s \in Status, NEW e \in BOOLEAN, Record(c, s, e) PROVE TokenOK'
  <2>1. /\ pc' = "pick"
        /\ Len(findings') = Len(findings) + 1
        /\ \A i \in 1..Len(findings) : findings'[i] = findings[i]
        /\ findings'[Len(findings) + 1].wire = wire'
    <3>1. /\ pc' = "pick"
          /\ Len(findings') = Len(findings) + 1
          /\ \A i \in 1..Len(findings) : findings'[i] = findings[i]
          /\ findings'[Len(findings) + 1]
                = [cand |-> c, status |-> s, executed |-> e, wire |-> wire']
      BY <1>q, <1>4, RecordType
    <3>2. QED
      BY <3>1
  <2>2. pc' \notin Probing /\ findings' # findings
    BY <1>q, <2>1 DEF Probing
  <2>3. \A i \in 1..Len(findings') : i \in 1..Len(findings) \/ i = Len(findings) + 1
    BY <1>q, <2>1
  <2>4. ASSUME NEW i \in 1..Len(findings')
        PROVE  /\ Steady(findings'[i].wire)
               /\ Spoke(findings'[i].wire) =>
                     /\ acct'["B"].token
                     /\ \A j \in 1..Len(findings') : j > i => LoggedIn(findings'[j].wire)
    <3>1. CASE i \in 1..Len(findings)
      BY <1>s, <1>2, <2>1, <2>2, <2>3, <3>1 DEF TokenOK, TokenKept
    <3>2. CASE i = Len(findings) + 1
      BY <1>q, <1>1, <2>1, <2>3, <3>2
    <3>3. QED
      BY <2>3, <3>1, <3>2
  <2>5. QED
    BY <1>1, <2>2, <2>4 DEF TokenOK
<1>5. QED
  BY <1>s, <1>3, <1>4 DEF Recording

\* Once one request carried B's token every later one as B does, whichever
\* harness sends it.
THEOREM OneB == Spec => []HarnessesAgreeOnB
<1>1. Init => TokenOK
  <2> SUFFICES ASSUME Init PROVE TokenOK
    OBVIOUS
  <2>1. wire = <<>> /\ findings = <<>>
    BY DEF Init
  <2>2. QED
    BY <2>1 DEF TokenOK, Steady, Spoke
<1>2. TypeOK /\ TokenOK /\ [Next]_vars => TokenOK'
  BY TokenStep
<1>3. TypeOK /\ TokenOK => HarnessesAgreeOnB
  <2> SUFFICES ASSUME TypeOK, TokenOK,
                      NEW i \in DOMAIN findings, NEW k \in DOMAIN findings[i].wire,
                      findings[i].wire[k].as = "B", findings[i].wire[k].token,
                      NEW j \in i..Len(findings), NEW l \in DOMAIN findings[j].wire,
                      findings[j].wire[l].as = "B", j > i \/ l > k
               PROVE  findings[j].wire[l].token
    BY DEF HarnessesAgreeOnB
  <2>1. findings \in Seq(FindingType) /\ i \in 1..Len(findings) /\ j \in 1..Len(findings)
    BY DEF TypeOK
  <2>2. findings[i].wire \in Seq(Exchange) /\ findings[j].wire \in Seq(Exchange)
    <3>1. findings[i] \in FindingType /\ findings[j] \in FindingType
      BY <2>1
    <3>2. QED
      BY <3>1 DEF FindingType
  <2>3. k \in 1..Len(findings[i].wire) /\ l \in 1..Len(findings[j].wire)
    BY <2>2
  <2>4. Spoke(findings[i].wire) /\ Steady(findings[i].wire)
    BY <2>1, <2>3 DEF TokenOK, Spoke
  <2>5. CASE j > i
    BY <2>1, <2>3, <2>4, <2>5 DEF TokenOK, LoggedIn
  <2>6. CASE j = i /\ l > k
    BY <2>3, <2>4, <2>6 DEF Steady
  <2>7. QED
    BY <2>1, <2>5, <2>6
<1>4. QED
  BY <1>1, <1>2, <1>3, Typing, PTL DEF Spec

-----------------------------------------------------------------------------
(* What a claim of PROVEN rests on. *)

\* An answer to B or from the agent that only a hole explains.
Witness(w) == \E k \in DOMAIN w : w[k].as \in {"B", "agent"} /\ w[k].ans \in LeakAnswers

\* The SQL probe has asked less than three times, and only as B.
SqlAsB == pc \in {"sql_login", "sql"} =>
              Len(wire) < 3 /\ \A k \in 1..Len(wire) : wire[k].as = "B"

WitnessOK ==
    SqlAsB /\ \A i \in 1..Len(findings) : findings[i].status = "PROVEN" => Witness(findings[i].wire)

\* What a step may add to the findings.
Justified ==
    \/ UNCHANGED findings
    \/ \E c \in Nat, s \in Status, e \in BOOLEAN :
          Record(c, s, e) /\ (s = "PROVEN" => Witness(wire'))

\* One answer that only a hole explains is enough.
LEMMA Leaked ==
    ASSUME TypeOK, NEW a \in {"B", "agent"}, NEW ans \in Answers \cap LeakAnswers, Send(a, ans)
    PROVE  Witness(wire')
<1>1. a \in Accounts \cup {"agent"} /\ ans \in Answers
  BY DEF Accounts
<1>2. /\ wire' \in Seq(Exchange) /\ Len(wire') = Len(wire) + 1
      /\ wire'[Len(wire) + 1].as = a /\ wire'[Len(wire) + 1].ans = ans
  BY <1>1, SendType
<1>3. wire \in Seq(Exchange)
  BY DEF TypeOK
<1>4. Len(wire) + 1 \in DOMAIN wire'
  BY <1>2, <1>3
<1>5. QED
  BY <1>2, <1>4 DEF Witness

\* The three exchanges of the SQL probe, all as B, are a witness when judged so.
LEMMA Judged ==
    ASSUME NEW w \in Seq(Exchange), Len(w) = 3, \A k \in 1..Len(w) : w[k].as = "B", Judge(w)
    PROVE  Witness(w)
<1>1. 2 \in DOMAIN w /\ 3 \in DOMAIN w /\ w[2].as = "B" /\ w[3].as = "B"
  OBVIOUS
<1>2. w[3].ans = "dberror" \/ w[2].ans = "wide"
  BY DEF Judge
<1>3. QED
  BY <1>1, <1>2 DEF Witness, LeakAnswers

LEMMA Justifying == ASSUME TypeOK, SqlAsB, [Next]_vars PROVE Justified /\ SqlAsB'
<1>q. attempted \in Nat /\ wire \in Seq(Exchange)
  BY ConstantsAssumption DEF TypeOK, ConstantsAssumption
<1>r. \A s \in Status, e \in BOOLEAN : Conclude(s, e) /\ (s = "PROVEN" => Witness(wire')) => Justified
  BY <1>q DEF Conclude, Justified
<1>p. \A s \in Status, e \in BOOLEAN : Conclude(s, e) => SqlAsB'
  BY DEF Conclude, Record, SqlAsB
<1>1. CASE Announce \/ RefusePartialPlan \/ RefuseUnowned \/ Begin \/ StopLoop \/ ReportBudget \/ GuardStops
  BY <1>1 DEF Announce, RefusePartialPlan, RefuseUnowned, Begin, StopLoop, ReportBudget, GuardStops,
     Justified, SqlAsB
<1>2. CASE ReportUnsent
  <2>1. attempted + 1 \in Nat /\ "REPORTED" \in Status /\ FALSE \in BOOLEAN
    BY <1>q DEF Status
  <2>2. Record(attempted + 1, "REPORTED", FALSE)
    BY <1>2 DEF ReportUnsent
  <2>3. Justified
    BY <2>1, <2>2 DEF Justified
  <2>4. QED
    BY <2>2, <2>3 DEF Record, SqlAsB
<1>3. CASE BeginProbe
  <2>1. wire' = <<>> /\ UNCHANGED findings
    BY <1>3 DEF BeginProbe, Attempt
  <2>2. QED
    BY <2>1 DEF Justified, SqlAsB
<1>4. CASE TableLogin
  <2>1. \/ Conclude("REPORTED", FALSE)
        \/ UNCHANGED findings /\ pc' \in {"byid", "scan", "aborted"}
    BY <1>4 DEF TableLogin
  <2>2. QED
    BY <2>1, <1>r, <1>p DEF Justified, SqlAsB, Status
<1>5. CASE ProberLogin
  <2>1. /\ UNCHANGED <<wire, findings>> /\ pc' \in {"attack", "control", "sql"}
        /\ pc' = "sql" => pc = "sql_login"
    BY <1>5 DEF ProberLogin, AfterLogin
  <2>2. QED
    BY <2>1 DEF Justified, SqlAsB
<1>6. CASE TargetedBola
  <2>1. PICK ans \in {"seedrow", "empty", "error", "failed"} :
          /\ Send("B", ans)
          /\ \/ ans = "seedrow" /\ Conclude("PROVEN", TRUE)
             \/ Conclude("REPORTED", FALSE)
             \/ UNCHANGED findings /\ pc' = "scan"
    BY <1>6 DEF TargetedBola
  <2>2. ans = "seedrow" => Witness(wire')
    BY <2>1, Leaked DEF Answers, TableAnswers, LeakAnswers
  <2>3. QED
    BY <2>1, <2>2, <1>r, <1>p DEF Justified, SqlAsB, Status
<1>7. CASE UnfilteredRls
  <2>1. PICK ans \in TableAnswers :
          /\ Send("B", ans)
          /\ CASE ans = "failed" -> Conclude("REPORTED", FALSE)
               [] Leaks(ans)     -> Conclude("PROVEN", TRUE)
               [] OTHER          -> Conclude("NOT_REPRODUCED", TRUE)
    BY <1>7 DEF UnfilteredRls
  <2>2. \/ Leaks(ans) /\ Conclude("PROVEN", TRUE)
        \/ Conclude("REPORTED", FALSE)
        \/ Conclude("NOT_REPRODUCED", TRUE)
    <3>1. CASE ans = "failed"
      BY <2>1, <3>1 DEF Leaks
    <3>2. CASE ans # "failed"
      BY <2>1, <3>2
    <3>3. QED
      BY <3>1, <3>2
  <2>3. Leaks(ans) => ans \in Answers \cap LeakAnswers
    BY DEF Leaks, Answers, LeakAnswers
  <2>4. Leaks(ans) => Witness(wire')
    BY <2>1, <2>3, Leaked
  <2>5. QED
    BY <2>2, <2>4, <1>r, <1>p DEF Status
<1>8. CASE ProveRouteBola
  <2>1. PICK ans \in RouteAnswers :
          /\ Send("B", ans)
          /\ \/ ans = "record" /\ Conclude("PROVEN", TRUE)
             \/ Conclude("REPORTED", FALSE)
             \/ UNCHANGED findings /\ pc' = "control_login"
    BY <1>8 DEF ProveRouteBola
  <2>2. ans = "record" => Witness(wire')
    BY <2>1, Leaked DEF Answers, LeakAnswers
  <2>3. QED
    BY <2>1, <2>2, <1>r, <1>p DEF Justified, SqlAsB, Status
<1>9. CASE OwnerReads
  <2>1. Conclude("NOT_REPRODUCED", TRUE) \/ Conclude("REPORTED", TRUE)
    BY <1>9 DEF OwnerReads
  <2>2. QED
    BY <2>1, <1>r, <1>p DEF Status
<1>10. CASE ProveSqlInjection
  <2>1. PICK ans \in SqlAnswers :
          /\ pc = "sql" /\ Send("B", ans)
          /\ CASE ans = "failed"   -> Conclude("REPORTED", FALSE)
               [] ans # "failed" /\ Len(wire') < 3 ->
                      pc' = "sql_login" /\ UNCHANGED findings
               [] OTHER ->
                      Conclude(IF Judge(wire') THEN "PROVEN" ELSE "NOT_REPRODUCED", TRUE)
    BY <1>10 DEF ProveSqlInjection
  <2>2. /\ wire' \in Seq(Exchange) /\ Len(wire') = Len(wire) + 1
        /\ \A k \in 1..Len(wire) : wire'[k] = wire[k]
        /\ wire'[Len(wire) + 1].as = "B"
    BY <2>1, SendType DEF Accounts, Answers
  <2>3. Len(wire) < 3 /\ \A k \in 1..Len(wire') : wire'[k].as = "B"
    <3>1. \A k \in 1..Len(wire') : k \in 1..Len(wire) \/ k = Len(wire) + 1
      BY <1>q, <2>2
    <3>2. QED
      BY <2>1, <2>2, <3>1 DEF SqlAsB
  <2>4. CASE ans = "failed"
    <3>1. Conclude("REPORTED", FALSE)
      BY <2>1, <2>4
    <3>2. QED
      BY <3>1, <1>r, <1>p DEF Status
  <2>5. CASE ans # "failed" /\ Len(wire') < 3
    <3>1. pc' = "sql_login" /\ UNCHANGED findings
      BY <2>1, <2>5
    <3>2. QED
      BY <2>3, <2>5, <3>1 DEF Justified, SqlAsB
  <2>6. CASE ans # "failed" /\ ~(Len(wire') < 3)
    <3>1. Conclude(IF Judge(wire') THEN "PROVEN" ELSE "NOT_REPRODUCED", TRUE)
      BY <2>1, <2>6
    <3>2. Len(wire') = 3
      BY <1>q, <2>2, <2>3, <2>6
    <3>3. Judge(wire') => Witness(wire')
      BY <2>2, <2>3, <3>2, Judged
    <3>4. QED
      BY <3>1, <3>3, <1>r, <1>p DEF Status
  <2>7. QED
    BY <2>4, <2>5, <2>6
<1>11. CASE LabelScopes \/ Tick
  BY <1>11 DEF LabelScopes, Tick, Justified, SqlAsB
<1>12. CASE ReportAgent
  <2>1. Conclude("REPORTED", FALSE)
    BY <1>12 DEF ReportAgent
  <2>2. QED
    BY <2>1, <1>r, <1>p DEF Status
<1>13. CASE RunSandbox
  <2>1. PICK ans \in AgentAnswers :
          /\ Send("agent", ans)
          /\ CASE ans = "turned" -> Conclude("PROVEN", TRUE)
               [] ans = "held"   -> Conclude("NOT_REPRODUCED", TRUE)
               [] ans = "failed" -> Conclude("REPORTED", FALSE)
    BY <1>13 DEF RunSandbox
  <2>2. /\ ans = "turned" => Conclude("PROVEN", TRUE)
        /\ ans = "held" => Conclude("NOT_REPRODUCED", TRUE)
        /\ ans = "failed" => Conclude("REPORTED", FALSE)
    BY <2>1
  <2>3. ans = "turned" => Witness(wire')
    BY <2>1, Leaked DEF Answers, AgentAnswers, LeakAnswers
  <2>4. QED
    BY <2>2, <2>3, <1>r, <1>p DEF AgentAnswers, Status
<1>14. CASE Stop \/ UNCHANGED vars
  BY <1>14 DEF Stop, vars, Justified, SqlAsB
<1>15. QED
  BY <1>1, <1>2, <1>3, <1>4, <1>5, <1>6, <1>7, <1>8, <1>9, <1>10, <1>11, <1>12, <1>13, <1>14
     DEF Next, Step

LEMMA WitnessStep == ASSUME TypeOK, WitnessOK, [Next]_vars PROVE WitnessOK'
<1>s. Justified /\ SqlAsB' /\ TypeOK'
  BY Justifying, TypeStep DEF WitnessOK
<1>q. findings \in Seq(FindingType) /\ wire' \in Seq(Exchange)
  BY <1>s DEF TypeOK
<1>1. CASE UNCHANGED findings
  BY <1>s, <1>1 DEF WitnessOK
<1>2. ASSUME NEW c \in Nat, NEW s \in Status, NEW e \in BOOLEAN, Record(c, s, e),
             s = "PROVEN" => Witness(wire')
      PROVE  WitnessOK'
  <2>1. /\ Len(findings') = Len(findings) + 1
        /\ \A i \in 1..Len(findings) : findings'[i] = findings[i]
        /\ findings'[Len(findings) + 1]
              = [cand |-> c, status |-> s, executed |-> e, wire |-> wire']
    BY <1>q, <1>2, RecordType
  <2>2. \A i \in 1..Len(findings') : i \in 1..Len(findings) \/ i = Len(findings) + 1
    BY <1>q, <2>1
  <2>3. ASSUME NEW i \in 1..Len(findings'), findings'[i].status = "PROVEN"
        PROVE  Witness(findings'[i].wire)
    <3>1. CASE i \in 1..Len(findings)
      BY <2>1, <2>3, <3>1 DEF WitnessOK
    <3>2. CASE i = Len(findings) + 1
      BY <1>2, <2>1, <2>3, <3>2
    <3>3. QED
      BY <2>2, <3>1, <3>2
  <2>4. QED
    BY <1>s, <2>3 DEF WitnessOK
<1>3. QED
  BY <1>s, <1>1, <1>2 DEF Justified

\* Nothing is called PROVEN without an answer that only a hole explains.
THEOREM ClaimsAreWitnessed == Spec => []ProvenIsWitnessed
<1>1. Init => WitnessOK
  <2> SUFFICES ASSUME Init PROVE WitnessOK
    OBVIOUS
  <2>1. findings = <<>> /\ pc = "called"
    BY DEF Init
  <2>2. QED
    BY <2>1 DEF WitnessOK, SqlAsB
<1>2. TypeOK /\ WitnessOK /\ [Next]_vars => WitnessOK'
  BY WitnessStep
<1>3. TypeOK /\ WitnessOK => ProvenIsWitnessed
  BY DEF TypeOK, WitnessOK, Witness, ProvenIsWitnessed
<1>4. QED
  BY <1>1, <1>2, <1>3, Typing, PTL DEF Spec

-----------------------------------------------------------------------------
(* What a surface observes. *)

\* Where a step may take the run: it begins, is told of and ends once, and a finding
\* comes from inside the loop.
LEMMA Places ==
    ASSUME [Next]_vars
    PROVE  /\ pc \in Terminal => pc' = pc
           /\ pc = "called" => pc' \in {"called", "start", "unheard"}
           /\ pc # "called" => pc' # "called" /\ (pc' = "unheard" => pc = "unheard")
           /\ pc' = "done" => pc \in {"returned", "done"}
           /\ pc \in {"returned", "called"} \cup Terminal => UNCHANGED findings
<1> USE DEF Terminal, kept
<1>1. CASE Announce \/ RefusePartialPlan \/ RefuseUnowned \/ Begin \/ StopLoop \/ ReportBudget
  BY <1>1 DEF Announce, RefusePartialPlan, RefuseUnowned, Begin, StopLoop, ReportBudget
<1>2. CASE ReportUnsent \/ BeginProbe
  BY <1>2 DEF ReportUnsent, BeginProbe, Attempt, Record, FirstStep
<1>3. CASE TableLogin \/ TargetedBola \/ UnfilteredRls
  BY <1>3 DEF TableLogin, TargetedBola, UnfilteredRls, Conclude, Record
<1>4. CASE ProberLogin \/ GuardStops
  BY <1>4 DEF ProberLogin, GuardStops, AfterLogin
<1>5. CASE ProveRouteBola \/ OwnerReads
  BY <1>5 DEF ProveRouteBola, OwnerReads, Conclude, Record
<1>6. CASE ProveSqlInjection
  BY <1>6 DEF ProveSqlInjection, Conclude, Record
<1>7. CASE LabelScopes \/ ReportAgent \/ RunSandbox
  <2>1. CASE LabelScopes
    BY <2>1 DEF LabelScopes
  <2>2. CASE ReportAgent
    BY <2>2 DEF ReportAgent, Conclude, Record
  <2>3. CASE RunSandbox
    <3>1. pc = "agent" /\ pc' = "pick"
      BY <2>3 DEF RunSandbox, AgentAnswers, Conclude, Record
    <3> QED
      BY <3>1
  <2> QED
    BY <1>7, <2>1, <2>2, <2>3
<1>8. CASE Tick \/ Stop \/ UNCHANGED vars
  BY <1>8 DEF Tick, Stop, vars
<1> QED
  BY <1>1, <1>2, <1>3, <1>4, <1>5, <1>6, <1>7, <1>8 DEF Next, Step

\* The candidates of the findings, as a sequence.
LEMMA Told ==
    ASSUME NEW fs \in Seq(FindingType)
    PROVE  /\ [i \in DOMAIN fs |-> fs[i].cand] \in Seq(Nat)
           /\ Len([i \in DOMAIN fs |-> fs[i].cand]) = Len(fs)
<1> DEFINE told == [i \in 1..Len(fs) |-> fs[i].cand]
<1>1. Len(fs) \in Nat /\ DOMAIN fs = 1..Len(fs)
  OBVIOUS
<1>2. ASSUME NEW i \in 1..Len(fs) PROVE fs[i].cand \in Nat
  <2>1. fs[i] \in FindingType
    OBVIOUS
  <2> QED
    BY <2>1 DEF FindingType
<1>3. told \in [1..Len(fs) -> Nat]
  BY <1>2
<1>4. told \in Seq(Nat) /\ Len(told) = Len(fs)
  BY <1>1, <1>3
<1> QED
  BY <1>1, <1>4

\* A run is one an executor may perform, for every target, candidate list and setting:
\* candidates first, then the findings one by one in ranked order with none passed
\* over, and a report that holds exactly those, or none.
THEOREM Observable == Spec => RunIsAsObserved
<1> DEFINE told == pc \notin {"called", "unheard"}
           shown == [i \in DOMAIN findings |-> findings[i].cand]
           answer == IF pc = "done" THEN "report" ELSE IF pc \in Terminal THEN "failed" ELSE "none"
           reported == IF pc = "done" THEN Len(findings) ELSE 0
<1>1. Init => Observed!Init
  BY DEF Init, Observed!Init, Terminal
<1>2. IInv /\ IInv' /\ [Next]_vars => [Observed!Next]_(Observed!vars)
  <2> SUFFICES ASSUME IInv, IInv', [Next]_vars PROVE [Observed!Next]_(Observed!vars)
    OBVIOUS
  <2>1. /\ pc \in Terminal => pc' = pc
        /\ pc = "called" => pc' \in {"called", "start", "unheard"}
        /\ pc # "called" => pc' # "called" /\ (pc' = "unheard" => pc = "unheard")
        /\ pc' = "done" => pc \in {"returned", "done"}
        /\ pc \in {"returned", "called"} \cup Terminal => UNCHANGED findings
    BY Places
  <2>2. /\ findings \in Seq(FindingType) /\ findings' \in Seq(FindingType)
        /\ \A i \in DOMAIN findings : findings[i].cand = i
        /\ \A i \in DOMAIN findings' : findings'[i].cand = i
    BY DEF IInv, TypeOK, InStep
  <2>3. CASE UNCHANGED findings
    <3>1. shown' = shown
      BY <2>3
    <3> HIDE DEF shown
    <3>2. CASE pc = "called" /\ pc' = "start"
      <4>1. told' = TRUE /\ told = FALSE /\ answer = "none" /\ answer' = "none"
            /\ reported' = 0 /\ reported = 0
        BY <3>2 DEF Terminal
      <4> QED
        BY <3>1, <4>1 DEF Observed!Next, Observed!Announce, shown
    <3>3. CASE pc \notin Terminal /\ pc' \in Terminal \ {"done"}
      <4>1. answer = "none" /\ answer' = "failed" /\ reported' = 0 /\ reported = 0 /\ told' = told
        BY <2>1, <3>3 DEF Terminal
      <4> QED
        BY <3>1, <4>1 DEF Observed!Next, Observed!EndWithout, shown
    <3>4. CASE pc = "returned" /\ pc' = "done"
      <4>1. answer = "none" /\ answer' = "report" /\ told' = TRUE /\ told = TRUE
        BY <3>4 DEF Terminal
      <4>2. reported' = Len(shown)
        <5>1. reported' = Len(findings)
          BY <2>3, <3>4
        <5>2. shown \in Seq(Nat) /\ Len(shown) = Len(findings)
          BY <2>2, Told DEF shown
        <5> QED
          BY <5>1, <5>2
      <4> QED
        BY <3>1, <4>1, <4>2 DEF Observed!Next, Observed!Report, shown
    <3>5. CASE /\ ~(pc = "called" /\ pc' = "start")
               /\ ~(pc \notin Terminal /\ pc' \in Terminal \ {"done"})
               /\ ~(pc = "returned" /\ pc' = "done")
      <4>1. told' = told /\ answer' = answer /\ reported' = reported
        BY <2>1, <2>3, <3>5 DEF Terminal
      <4> QED
        BY <3>1, <4>1 DEF Observed!vars, shown
    <3> QED
      BY <3>2, <3>3, <3>4, <3>5
  <2>4. CASE ~UNCHANGED findings
    <3>1. PICK c \in Nat, s \in Status, e \in BOOLEAN : Record(c, s, e)
      BY <2>4, Shape DEF IInv, Recording
    <3>2. pc' = "pick" /\ Len(findings') = Len(findings) + 1
      <4>1. TypeOK /\ wire' \in Seq(Exchange)
        BY DEF IInv, TypeOK
      <4> QED
        BY <3>1, <4>1, RecordType
    <3>3. pc \notin {"called", "returned"} \cup Terminal
      BY <2>1, <2>4
    <3>4. shown' = Append(shown, Len(shown) + 1)
      <4>1. /\ shown \in Seq(Nat) /\ Len(shown) = Len(findings)
            /\ shown' \in Seq(Nat) /\ Len(shown') = Len(findings')
        BY <2>2, Told
      <4>2. /\ \A i \in 1..Len(findings) : shown[i] = i
            /\ \A i \in 1..Len(findings') : shown'[i] = i
        BY <2>2
      <4>3. Len(findings) \in Nat
        BY <2>2
      <4> HIDE DEF shown
      <4> DEFINE n == Len(shown)
                 longer == Append(shown, n + 1)
      <4>4. /\ longer \in Seq(Nat) /\ Len(longer) = n + 1 /\ n \in Nat
            /\ \A i \in 1..n : longer[i] = shown[i]
            /\ longer[n + 1] = n + 1
        BY <4>1, <4>3
      <4>5. Len(shown') = n + 1 /\ \A i \in 1..n + 1 : shown'[i] = i
        BY <3>2, <4>1, <4>2
      <4>6. \A i \in 1..n + 1 : longer[i] = i
        BY <4>1, <4>2, <4>4
      <4> HIDE DEF longer
      <4> QED
        BY <4>1, <4>4, <4>5, <4>6
    <3>5. told' = TRUE /\ told = TRUE /\ answer = "none" /\ answer' = "none"
          /\ reported' = 0 /\ reported = 0
      BY <3>2, <3>3 DEF Terminal
    <3> HIDE DEF shown
    <3> QED
      BY <3>4, <3>5 DEF Observed!Next, Observed!Show, shown
  <2> QED
    BY <2>3, <2>4
<1> QED
  BY <1>1, <1>2, Invariance, PTL DEF Spec, RunIsAsObserved, Observed!Spec

-----------------------------------------------------------------------------
(* Operations.  The inductive invariant says what has been asked and answered  *)
(* at each step.                                                              *)

\* The answers to an attack that did not land.
AttackHeld(w) == \A k \in 1..Len(w) : w[k].as = "B" /\ w[k].ans \notin In \cup {"failed"}

\* The route probe: one refusal to B, then the owner.
RouteAsked(w) ==
    /\ Len(w) = 2
    /\ w[1].as = "B" /\ w[1].ans \notin In \cup {"failed"}
    /\ w[2].as = "A"

\* What the probe's verdict says about the exchanges `w`.
RefiredOK(w, status, executed) ==
    /\ status = "NOT_REPRODUCED" \/ (status = "REPORTED" /\ executed) =>
          IF RoutePlane(Current) THEN RouteAsked(w) ELSE AttackHeld(w) /\ w # <<>>
    /\ RoutePlane(Current) /\ status = "NOT_REPRODUCED" => w[2].ans = "record"
    /\ RoutePlane(Current) /\ status = "REPORTED" /\ executed => w[2].ans \notin In

ProbePC == {"table_login", "byid", "scan", "attack_login", "attack", "control_login",
            "control", "sql_login", "sql", "pick", "aborted"}

\* A re-fire under way: what the probe has sent at each of its steps.
Refiring ==
    /\ pc \in ProbePC
    /\ pc # "pick" => findings = <<>>
    /\ pc = "pick" => Len(findings) = 1 /\ RefiredOK(wire, findings[1].status, findings[1].executed)
    /\ pc \in {"table_login", "byid", "attack_login", "attack"} => wire = <<>>
    /\ pc \in {"scan", "sql_login", "sql"} => AttackHeld(wire)
    /\ pc \in {"table_login", "byid", "scan", "sql_login", "sql"} => ~RoutePlane(Current)
    /\ pc \in {"attack_login", "attack", "control_login", "control"} => RoutePlane(Current)
    /\ pc \in {"control_login", "control"} =>
          Len(wire) = 1 /\ wire[1].as = "B" /\ wire[1].ans \notin In \cup {"failed"}

ReproveOK ==
    op = "reprove" =>
        /\ step \in {"called", "refiring", "owner_login", "owner_read", "over"}
        /\ step = "refiring" => Refiring
        /\ step \in {"owner_login", "owner_read"} => AttackHeld(wire) /\ wire # <<>>

LockoutOK ==
    op = "lockout" =>
        /\ step \in {"called", "door", "owner_login", "owner_read", "over"}
        /\ step = "door" => door /\ wire = <<>>
        /\ step # "over" => checks["postgrest"] # "failed"
        /\ step \in {"owner_login", "owner_read"} =>
              /\ cfg.anonKey
              /\ Failed = {} =>
                    /\ Len(wire) = (IF door THEN 1 ELSE 0)
                    /\ \A k \in 1..Len(wire) : wire[k].as = "A" /\ wire[k].ans \in In

PreflightOK ==
    op = "preflight" =>
        /\ step \in {"called", "auth_b", "control", "door", "owner_login", "owner_read", "over"}
        /\ step # "over" => wire = <<>>

Common ==
    /\ attempted = 1
    /\ step # "over" \/ op # "reprove" => verdict = "none"
    /\ step = "called" => wire = <<>> /\ findings = <<>> /\ Failed = {} /\ Passed = {}

Earned ==
    /\ FixedClaimsBothHalves /\ BlockedWasAnswered
    /\ LockoutPassIsEarned /\ SoundSetupWasShown

OpInv == OpTypeOK /\ Common /\ ReproveOK /\ LockoutOK /\ PreflightOK /\ Earned

-----------------------------------------------------------------------------
(* Types. *)

Said == {"none", "passed", "failed", "skipped"}

LEMMA SaysType ==
    ASSUME OpTypeOK, NEW name \in CheckName, NEW what \in Said, Says(name, what)
    PROVE  /\ checks' \in [CheckName -> Said]
           /\ checks'[name] = what
           /\ \A c \in CheckName \ {name} : checks'[c] = checks[c]
<1>1. checks \in [CheckName -> Said]
  BY DEF OpTypeOK, Said
<1>2. QED
  BY <1>1 DEF Says

\* What the owner's answer does, for whichever operation asked.
LEMMA OwnerAnsweredType ==
    ASSUME OpTypeOK, NEW in \in BOOLEAN, OwnerAnswered(in)
    PROVE  /\ step' = "over"
           /\ verdict' \in Verdicts
           /\ checks' \in [CheckName -> Said]
<1>1. CASE op = "reprove"
  BY <1>1 DEF OwnerAnswered, OpTypeOK, Said, Verdicts
<1>2. CASE op # "reprove"
  <2>1. \E name \in CheckName, what \in Said : Says(name, what)
    BY <1>2 DEF OwnerAnswered, CheckName, Said
  <2>2. QED
    BY <1>2, <2>1, SaysType DEF OwnerAnswered, OpTypeOK
<1>3. QED
  BY <1>1, <1>2

LEMMA OpTypeInit == OpInit => OpTypeOK
<1> USE OperationsAssumption, ConstantsAssumption DEF ConstantsAssumption
<1> SUFFICES ASSUME OpInit PROVE OpTypeOK
  OBVIOUS
<1>1. acct \in [Accounts -> [token : BOOLEAN, uid : BOOLEAN]]
  <2> DEFINE R == {[token |-> FALSE, uid |-> FALSE], [token |-> TRUE, uid |-> TRUE],
                   [token |-> TRUE, uid |-> FALSE]}
  <2>1. R \subseteq [token : BOOLEAN, uid : BOOLEAN]
    OBVIOUS
  <2>2. acct \in [Accounts -> R]
    BY DEF OpInit
  <2> HIDE DEF R
  <2>3. QED
    BY <2>1, <2>2
<1>2. queue \in Seq(CandidateType) /\ seed \in SeedType /\ 1 \in 0..Len(queue)
  BY DEF OpInit, OperationsAssumption
<1>3. outcome \in [stopped : BOOLEAN, skipped : Nat]
  BY DEF OpInit, NoOutcome
<1>4. wire \in Seq(Exchange) /\ findings \in Seq(FindingType)
  BY DEF OpInit
<1>5. clock \in 0..MaxClock /\ attempted \in 0..Len(queue)
  BY <1>2 DEF OpInit
<1>6. TypeOK
  BY <1>1, <1>2, <1>3, <1>4, <1>5 DEF OpInit, TypeOK, PC, Terminal
<1>7. door \in BOOLEAN
  <2>1. (seed # NoSeed) \in BOOLEAN
    OBVIOUS
  <2>2. QED
    BY <2>1 DEF OpInit
<1>8. QED
  BY <1>6, <1>7 DEF OpInit, OpTypeOK, Steps, Verdicts

LEMMA OpTypeStep == ASSUME OpTypeOK, [OpNext]_opvars PROVE OpTypeOK'
<1> USE ConstantsAssumption DEF ConstantsAssumption
<1>q. TypeOK /\ wire \in Seq(Exchange) /\ attempted \in Nat
  BY DEF OpTypeOK, TypeOK
<1>v. UNCHANGED vars => TypeOK'
  BY <1>q, TypeStep
<1>a. \A a \in Accounts, known \in BOOLEAN :
        Grant(a, known) => acct' \in [Accounts -> [token : BOOLEAN, uid : BOOLEAN]]
  BY <1>q, GrantType
<1>s. \A name \in CheckName, what \in Said : Says(name, what) => checks' \in [CheckName -> Said]
  BY SaysType
<1> USE DEF Said
<1>1. CASE RefuseTarget
  <2>1. checks' \in [CheckName -> Said]
    BY <1>1, <1>s DEF RefuseTarget, OpTypeOK, CheckName
  <2>2. verdict' \in Verdicts
    BY <1>1 DEF RefuseTarget, OpTypeOK, Verdicts, Status
  <2>3. QED
    BY <1>1, <1>v, <2>1, <2>2 DEF RefuseTarget, OpTypeOK, setup, Steps
<1>2. CASE Refire
  <2>1. findings' \in Seq(FindingType) /\ pc' \in PC
    <3>1. CASE Unaimed(Current)
      <4>1. wire' \in Seq(Exchange) /\ Conclude("REPORTED", FALSE)
        BY <1>2, <1>q, <3>1 DEF Refire
      <4>2. QED
        BY <4>1, <1>q, RecordType DEF Conclude, Status, PC
    <3>2. CASE ~Unaimed(Current)
      BY <1>2, <3>2, <1>q DEF Refire, ProbeOf, TypeOK, PC
    <3>3. QED
      BY <3>1, <3>2
  <2>2. TypeOK'
    BY <1>2, <1>q, <2>1 DEF Refire, TypeOK, still
  <2>3. QED
    BY <1>2, <2>2 DEF Refire, OpTypeOK, setup, Steps
<1>3. CASE Probe
  <2>1. Next
    BY <1>3 DEF Probe, Next, Step
  <2>2. TypeOK'
    BY <1>q, <2>1, TypeStep
  <2>3. QED
    BY <1>3, <2>2 DEF Probe, OpTypeOK, setup
<1>4. CASE RefireRaises \/ StillLands \/ NotRefired \/ OwnerUnasked \/ AskOwner
  BY <1>4, <1>v DEF RefireRaises, StillLands, NotRefired, OwnerUnasked, AskOwner,
     Verdict, OpTypeOK, setup, Steps, Verdicts, Status
<1>5. CASE ClassifyRoute
  BY <1>5, <1>v DEF ClassifyRoute, Verdict, OpTypeOK, setup, Steps, Verdicts
<1>6. CASE OwnerLogin
  <2>1. acct' \in [Accounts -> [token : BOOLEAN, uid : BOOLEAN]]
    BY <1>6, <1>q, <1>a DEF OwnerLogin, TypeOK, Accounts
  <2>2. TypeOK'
    BY <1>6, <1>q, <2>1 DEF OwnerLogin, TypeOK, still
  <2>3. step' \in Steps /\ verdict' \in Verdicts /\ checks' \in [CheckName -> Said]
    BY <1>6, OwnerAnsweredType DEF OwnerLogin, OpTypeOK, Steps
  <2>4. QED
    BY <1>6, <2>2, <2>3 DEF OwnerLogin, OpTypeOK, setup
<1>7. CASE OwnerRead
  <2>1. PICK ans \in {"seedrow", "empty", "error", "failed"} :
          Send("A", ans) /\ OwnerAnswered(ans = "seedrow")
    BY <1>7 DEF OwnerRead
  <2>2. wire' \in Seq(Exchange)
    BY <2>1, <1>q, SendType DEF Accounts, Answers, TableAnswers
  <2>3. TypeOK'
    BY <1>7, <1>q, <2>2 DEF OwnerRead, TypeOK, still
  <2>4. (ans = "seedrow") \in BOOLEAN
    OBVIOUS
  <2>5. step' \in Steps /\ verdict' \in Verdicts /\ checks' \in [CheckName -> Said]
    BY <2>1, <2>4, OwnerAnsweredType DEF Steps
  <2>6. QED
    BY <1>7, <2>3, <2>5 DEF OwnerRead, OpTypeOK, setup
<1>8. CASE LockoutUndecided
  BY <1>8, <1>v DEF LockoutUndecided, OpTypeOK, setup, Steps
<1>p. \A name \in CheckName : AskPostgrest(name) =>
        step' \in Steps /\ checks' \in [CheckName -> Said]
  BY <1>s DEF AskPostgrest, OpTypeOK, Steps
<1>9. CASE LockoutCheck
  <2>1. pc' \in PC /\ step' \in Steps /\ checks' \in [CheckName -> Said]
    BY <1>9, <1>q, <1>p DEF LockoutCheck, AskDoor, OpTypeOK, Steps, CheckName, TypeOK, PC
  <2>2. TypeOK'
    BY <1>9, <1>q, <2>1 DEF LockoutCheck, TypeOK, still
  <2>3. QED
    BY <1>9, <2>1, <2>2 DEF LockoutCheck, OpTypeOK, setup
<1>10. CASE DoorLogin
  <2>1. Next
    BY <1>10 DEF DoorLogin, Next, Step
  <2>2. TypeOK'
    BY <1>q, <2>1, TypeStep
  <2>3. QED
    BY <1>10, <2>2 DEF DoorLogin, OpTypeOK, setup
<1>11. CASE LockoutDoor
  <2>1. PICK ans \in RouteAnswers :
          /\ Send("A", ans)
          /\ checks' = [checks EXCEPT !["route"] = IF ans = "record" THEN "passed" ELSE "failed",
                                      !["postgrest"] = IF SpeaksPostgrest THEN @ ELSE "skipped"]
    BY <1>11 DEF LockoutDoor
  <2>2. wire' \in Seq(Exchange) /\ loose' \subseteq Loose
    BY <1>11, <2>1, <1>q, SendType, FollowType DEF LockoutDoor, Accounts, Answers
  <2>3. TypeOK'
    BY <1>11, <1>q, <2>2 DEF LockoutDoor, TypeOK, still, PC
  <2>4. checks' \in [CheckName -> Said]
    BY <2>1 DEF OpTypeOK, CheckName
  <2>5. QED
    BY <1>11, <2>3, <2>4 DEF LockoutDoor, OpTypeOK, setup, Steps
<1>12. CASE Reach
  <2>1. PICK ok \in BOOLEAN :
          /\ step' = IF ok THEN "auth_b" ELSE "over"
          /\ checks' = [checks EXCEPT !["ownership"] = "passed",
                                      !["reachable"] = IF ok THEN "passed" ELSE "failed"]
    BY <1>12 DEF Reach
  <2>2. checks' \in [CheckName -> Said] /\ step' \in Steps
    BY <2>1 DEF OpTypeOK, CheckName, Steps
  <2>3. QED
    BY <1>12, <1>v, <2>2 DEF Reach, OpTypeOK, setup
<1>13. CASE AuthB
  <2>1. acct' \in [Accounts -> [token : BOOLEAN, uid : BOOLEAN]]
    BY <1>13, <1>q, <1>a DEF AuthB, TypeOK, Accounts
  <2>2. checks' \in [CheckName -> Said]
    BY <1>13, <1>s DEF AuthB, CheckName
  <2>3. TypeOK'
    BY <1>13, <1>q, <2>1 DEF AuthB, TypeOK, still
  <2>4. QED
    BY <1>13, <2>2, <2>3 DEF AuthB, OpTypeOK, setup, Steps
<1>14. CASE PositiveControl
  <2>1. pc' \in PC /\ step' \in Steps /\ checks' \in [CheckName -> Said]
    <3>1. CASE seed = NoSeed \/ ~Credentials("A")
      BY <1>14, <3>1, <1>q, <1>s DEF PositiveControl, Steps, CheckName, TypeOK
    <3>2. CASE ~(seed = NoSeed \/ ~Credentials("A"))
      BY <1>14, <3>2, <1>q, <1>p DEF PositiveControl, AskDoor, OpTypeOK, Steps, CheckName,
         TypeOK, PC
    <3>3. QED
      BY <3>1, <3>2
  <2>2. TypeOK'
    BY <1>14, <1>q, <2>1 DEF PositiveControl, TypeOK, still
  <2>3. QED
    BY <1>14, <2>1, <2>2 DEF PositiveControl, OpTypeOK, setup
<1>15. CASE ControlDoor
  <2>1. PICK ans \in RouteAnswers :
          /\ Send("A", ans)
          /\ Says("positive_control", IF ans = "record" THEN "passed" ELSE "failed")
    BY <1>15 DEF ControlDoor
  <2>2. wire' \in Seq(Exchange) /\ loose' \subseteq Loose
    BY <1>15, <2>1, <1>q, SendType, FollowType DEF ControlDoor, Accounts, Answers
  <2>3. TypeOK'
    BY <1>15, <1>q, <2>2 DEF ControlDoor, TypeOK, still, PC
  <2>4. checks' \in [CheckName -> Said]
    BY <2>1, <1>s DEF CheckName
  <2>5. QED
    BY <1>15, <2>3, <2>4 DEF ControlDoor, OpTypeOK, setup, Steps
<1>16. CASE OpStop \/ UNCHANGED opvars
  BY <1>16, <1>v DEF OpStop, opvars, setup, OpTypeOK
<1>17. QED
  BY <1>1, <1>2, <1>3, <1>4, <1>5, <1>6, <1>7, <1>8, <1>9, <1>10, <1>11, <1>12, <1>13,
     <1>14, <1>15, <1>16 DEF OpNext, OpStep
-----------------------------------------------------------------------------
(* Invariance. *)

LEMMA OpInvInit == OpInit => OpInv
<1> SUFFICES ASSUME OpInit PROVE OpInv
  OBVIOUS
<1>1. OpTypeOK
  BY OpTypeInit
<1>2. Failed = {} /\ Passed = {}
  BY DEF OpInit, Failed, Passed
<1>3. Common /\ ReproveOK /\ LockoutOK /\ PreflightOK
  BY <1>2 DEF OpInit, Common, ReproveOK, LockoutOK, PreflightOK, CheckName
<1>4. Earned
  BY DEF OpInit, Earned, FixedClaimsBothHalves, BlockedWasAnswered, LockoutPassIsEarned,
     SoundSetupWasShown
<1>5. QED
  BY <1>1, <1>3, <1>4 DEF OpInv

\* A probe that gives its verdict.
LEMMA Refinding ==
    ASSUME OpTypeOK, findings = <<>>, wire' \in Seq(Exchange), UNCHANGED <<queue, attempted>>,
           NEW s \in Status, NEW e \in BOOLEAN, Conclude(s, e), RefiredOK(wire', s, e)
    PROVE  Refiring'
<1>1. attempted \in Nat /\ TypeOK
  BY DEF OpTypeOK, TypeOK
<1>2. /\ findings' \in Seq(FindingType)
      /\ pc' = "pick"
      /\ Len(findings') = 1
      /\ findings'[1] = [cand |-> attempted, status |-> s, executed |-> e, wire |-> wire']
  BY <1>1, RecordType DEF Conclude
<1>3. findings'[1].status = s /\ findings'[1].executed = e
  BY <1>2
<1>4. Current' = Current
  BY DEF Current
<1>5. RefiredOK(wire, findings[1].status, findings[1].executed)'
  BY <1>3, <1>4 DEF RefiredOK, RouteAsked, AttackHeld, RoutePlane, In
<1>6. QED
  BY <1>2, <1>5 DEF Refiring, ProbePC

\* One more request that did not land.
LEMMA AttackGoesOn ==
    ASSUME OpTypeOK, AttackHeld(wire), NEW ans \in Answers, Send("B", ans),
           ans \notin In \cup {"failed"}
    PROVE  AttackHeld(wire') /\ wire' # <<>> /\ wire' \in Seq(Exchange)
<1>1. wire \in Seq(Exchange) /\ "B" \in Accounts /\ TypeOK
  BY DEF OpTypeOK, TypeOK, Accounts
<1>2. /\ wire' \in Seq(Exchange)
      /\ Len(wire') = Len(wire) + 1
      /\ \A k \in 1..Len(wire) : wire'[k] = wire[k]
      /\ wire'[Len(wire) + 1].as = "B"
      /\ wire'[Len(wire) + 1].ans = ans
  BY <1>1, SendType
<1>3. \A k \in 1..Len(wire') : k \in 1..Len(wire) \/ k = Len(wire) + 1
  BY <1>1, <1>2
<1>4. QED
  BY <1>1, <1>2, <1>3 DEF AttackHeld

LEMMA ProbeStep == ASSUME OpInv, OpTypeOK', Probe PROVE Refiring'
<1>1. op = "reprove" /\ Refiring /\ step = "refiring"
  BY DEF Probe, OpInv, OpTypeOK, Operation, ReproveOK, LockoutOK, PreflightOK
<1>2. OpTypeOK /\ TypeOK /\ wire \in Seq(Exchange) /\ wire' \in Seq(Exchange)
  BY DEF OpInv, OpTypeOK, TypeOK
<1>3. UNCHANGED <<queue, attempted>> /\ Current' = Current
  BY DEF Probe, TableLogin, TargetedBola, UnfilteredRls, ProberLogin, ProveRouteBola,
     OwnerReads, ProveSqlInjection, kept, Current
<1>4. pc # "pick"
  BY DEF Probe, TableLogin, TargetedBola, UnfilteredRls, ProberLogin, ProveRouteBola,
     OwnerReads, ProveSqlInjection, AfterLogin
<1>5. findings = <<>>
  BY <1>1, <1>4 DEF Refiring
<1>6. RefiredOK(wire', "REPORTED", FALSE) /\ RefiredOK(wire', "PROVEN", TRUE)
  BY DEF RefiredOK
<1>7. CASE TableLogin
  <2>1. CASE Conclude("REPORTED", FALSE)
    BY <1>2, <1>3, <1>5, <1>6, <2>1, Refinding DEF Status
  <2>2. CASE pc' \in {"byid", "scan", "aborted"} /\ UNCHANGED findings
    <3>1. wire' = <<>> /\ ~RoutePlane(Current)
      BY <1>1, <1>7 DEF TableLogin, Refiring
    <3>2. AttackHeld(wire')
      BY <3>1 DEF AttackHeld
    <3>3. QED
      BY <1>3, <1>5, <2>2, <3>1, <3>2 DEF Refiring, ProbePC, RoutePlane, AttackHeld
  <2>3. QED
    BY <1>7, <2>1, <2>2 DEF TableLogin
<1>8. CASE TargetedBola
  <2>1. PICK ans \in {"seedrow", "empty", "error", "failed"} :
          /\ Send("B", ans)
          /\ CASE ans = "seedrow" -> Conclude("PROVEN", TRUE)
               [] ans = "failed"  -> Conclude("REPORTED", FALSE)
               [] OTHER           -> pc' = "scan" /\ UNCHANGED findings
    BY <1>8 DEF TargetedBola
  <2>2. CASE ans \in {"seedrow", "failed"}
    BY <1>2, <1>3, <1>5, <1>6, <2>1, <2>2, Refinding DEF Status
  <2>3. CASE ans \in {"empty", "error"}
    <3>1. AttackHeld(wire) /\ ~RoutePlane(Current)
      BY <1>1, <1>8 DEF TargetedBola, Refiring, AttackHeld
    <3>2. AttackHeld(wire')
      BY <1>2, <2>1, <2>3, <3>1, AttackGoesOn DEF Answers, TableAnswers, In
    <3>3. QED
      BY <1>3, <1>5, <2>1, <2>3, <3>1, <3>2 DEF Refiring, ProbePC, RoutePlane, AttackHeld
  <2>4. QED
    BY <2>1, <2>2, <2>3
<1>9. CASE UnfilteredRls
  <2>1. PICK ans \in TableAnswers :
          /\ ans = "seedrow" => OnSeedTable
          /\ Send("B", ans)
          /\ CASE ans = "failed" -> Conclude("REPORTED", FALSE)
               [] Leaks(ans)     -> Conclude("PROVEN", TRUE)
               [] OTHER          -> Conclude("NOT_REPRODUCED", TRUE)
    BY <1>9 DEF UnfilteredRls
  <2>2. \/ Conclude("REPORTED", FALSE) \/ Conclude("PROVEN", TRUE)
        \/ Conclude("NOT_REPRODUCED", TRUE) /\ ans # "failed" /\ ~Leaks(ans)
    BY <2>1
  <2>3. CASE Conclude("REPORTED", FALSE) \/ Conclude("PROVEN", TRUE)
    BY <1>2, <1>3, <1>5, <1>6, <2>3, Refinding DEF Status
  <2>4. CASE Conclude("NOT_REPRODUCED", TRUE) /\ ans # "failed" /\ ~Leaks(ans)
    <3>1. AttackHeld(wire) /\ ~RoutePlane(Current)
      BY <1>1, <1>9 DEF UnfilteredRls, Refiring
    <3>2. ans \notin In \cup {"failed"}
      BY <2>1, <2>4 DEF Leaks, In, TableAnswers
    <3>3. AttackHeld(wire') /\ wire' # <<>>
      BY <1>2, <2>1, <3>1, <3>2, AttackGoesOn DEF Answers
    <3>4. RefiredOK(wire', "NOT_REPRODUCED", TRUE)
      BY <3>1, <3>3 DEF RefiredOK
    <3>5. QED
      BY <1>2, <1>3, <1>5, <2>4, <3>4, Refinding DEF Status
  <2>5. QED
    BY <2>2, <2>3, <2>4
<1>10. CASE ProberLogin
  BY <1>1, <1>3, <1>5, <1>10 DEF ProberLogin, AfterLogin, Refiring, ProbePC, RoutePlane
<1>11. CASE ProveRouteBola
  <2>1. PICK ans \in RouteAnswers :
          /\ Send("B", ans)
          /\ CASE ans = "record" -> Conclude("PROVEN", TRUE)
               [] ans = "failed" -> Conclude("REPORTED", FALSE)
               [] OTHER          -> pc' = "control_login" /\ UNCHANGED findings
    BY <1>11 DEF ProveRouteBola
  <2>2. CASE ans \in {"record", "failed"}
    BY <1>2, <1>3, <1>5, <1>6, <2>1, <2>2, Refinding DEF Status
  <2>3. CASE ans \in {"echo", "refused"}
    <3>1. wire = <<>> /\ RoutePlane(Current)
      BY <1>1, <1>11 DEF ProveRouteBola, Refiring
    <3>2. Len(wire') = 1 /\ wire'[1].as = "B" /\ wire'[1].ans = ans
      BY <1>2, <2>1, <3>1, SendType DEF Accounts, Answers
    <3>3. QED
      BY <1>3, <1>5, <2>1, <2>3, <3>1, <3>2 DEF Refiring, ProbePC, RoutePlane, In
  <2>4. QED
    BY <2>1, <2>2, <2>3 DEF RouteAnswers
<1>12. CASE OwnerReads
  <2>1. PICK ans \in RouteAnswers :
          /\ Send("A", ans)
          /\ Conclude(IF ans = "record" THEN "NOT_REPRODUCED" ELSE "REPORTED", TRUE)
    BY <1>12 DEF OwnerReads
  <2>2. /\ RoutePlane(Current)
        /\ Len(wire) = 1 /\ wire[1].as = "B" /\ wire[1].ans \notin In \cup {"failed"}
    BY <1>1, <1>12 DEF OwnerReads, Refiring
  <2>3. /\ Len(wire') = 2 /\ wire'[1] = wire[1]
        /\ wire'[2].as = "A" /\ wire'[2].ans = ans
    BY <1>2, <2>1, <2>2, SendType DEF Accounts, Answers
  <2>4. RouteAsked(wire')
    BY <2>2, <2>3 DEF RouteAsked
  <2>5. RefiredOK(wire', IF ans = "record" THEN "NOT_REPRODUCED" ELSE "REPORTED", TRUE)
    BY <2>2, <2>3, <2>4 DEF RefiredOK, In, RouteAnswers
  <2>6. QED
    BY <1>2, <1>3, <1>5, <2>1, <2>5, Refinding DEF Status
<1>13. CASE ProveSqlInjection
  <2>1. PICK ans \in SqlAnswers :
          /\ Send("B", ans)
          /\ CASE ans = "failed"   -> Conclude("REPORTED", FALSE)
               [] ans # "failed" /\ Len(wire') < 3 ->
                      pc' = "sql_login" /\ UNCHANGED findings
               [] OTHER ->
                      Conclude(IF Judge(wire') THEN "PROVEN" ELSE "NOT_REPRODUCED", TRUE)
    BY <1>13 DEF ProveSqlInjection
  <2>2. CASE ans = "failed"
    BY <1>2, <1>3, <1>5, <1>6, <2>1, <2>2, Refinding DEF Status
  <2>3. CASE ans # "failed"
    <3>1. AttackHeld(wire) /\ ~RoutePlane(Current)
      BY <1>1, <1>13 DEF ProveSqlInjection, Refiring
    <3>2. AttackHeld(wire') /\ wire' # <<>>
      BY <1>2, <2>1, <2>3, <3>1, AttackGoesOn DEF Answers, SqlAnswers, In
    <3>3. CASE Len(wire') < 3
      <4>1. pc' = "sql_login" /\ UNCHANGED findings
        BY <2>1, <2>3, <3>3
      <4>2. QED
        BY <1>3, <1>5, <3>1, <3>2, <4>1 DEF Refiring, ProbePC, RoutePlane
    <3>4. CASE ~(Len(wire') < 3)
      <4>1. Conclude(IF Judge(wire') THEN "PROVEN" ELSE "NOT_REPRODUCED", TRUE)
        BY <2>1, <2>3, <3>4
      <4>2. RefiredOK(wire', "NOT_REPRODUCED", TRUE)
        BY <3>1, <3>2 DEF RefiredOK
      <4>3. QED
        BY <1>2, <1>3, <1>5, <1>6, <4>1, <4>2, Refinding DEF Status
    <3>5. QED
      BY <3>3, <3>4
  <2>4. QED
    BY <2>2, <2>3
<1>14. QED
  BY <1>7, <1>8, <1>9, <1>10, <1>11, <1>12, <1>13 DEF Probe
\* While an operation is under way there is nothing to have earned.
LEMMA NothingEarned == ASSUME step' # "over", verdict' = "none" PROVE Earned'
BY DEF Earned, FixedClaimsBothHalves, BlockedWasAnswered, LockoutPassIsEarned, SoundSetupWasShown

\* When a call is over, reprove answers with its verdict, the others with checks.
LEMMA EarnedByVerdict ==
    ASSUME op' = "reprove", FixedClaimsBothHalves', BlockedWasAnswered' PROVE Earned'
BY DEF Earned, LockoutPassIsEarned, SoundSetupWasShown

LEMMA EarnedByChecks ==
    ASSUME op' # "reprove", verdict' = "none", LockoutPassIsEarned', SoundSetupWasShown'
    PROVE  Earned'
BY DEF Earned, FixedClaimsBothHalves, BlockedWasAnswered

\* A call of reprove that ends here.
LEMMA Verdicting ==
    ASSUME OpInv, op = "reprove", step' = "over", UNCHANGED <<setup, attempted>>,
           FixedClaimsBothHalves', BlockedWasAnswered', OpTypeOK'
    PROVE  OpInv'
<1>1. op' = "reprove"
  BY DEF setup
<1>2. Earned'
  BY <1>1, EarnedByVerdict
<1>3. Common' /\ ReproveOK' /\ LockoutOK' /\ PreflightOK'
  BY <1>1 DEF OpInv, Common, ReproveOK, LockoutOK, PreflightOK
<1>4. QED
  BY <1>2, <1>3 DEF OpInv

\* A lockout check or a preflight that ends here.
LEMMA Checking ==
    ASSUME OpInv, op # "reprove", step' = "over", UNCHANGED <<setup, attempted, verdict>>,
           LockoutPassIsEarned', SoundSetupWasShown', OpTypeOK'
    PROVE  OpInv'
<1>1. op' # "reprove" /\ verdict' = "none"
  BY DEF setup, OpInv, Common
<1>2. Earned'
  BY <1>1, EarnedByChecks
<1>3. Common' /\ ReproveOK' /\ LockoutOK' /\ PreflightOK'
  BY <1>1 DEF OpInv, Common, ReproveOK, LockoutOK, PreflightOK
<1>4. QED
  BY <1>2, <1>3 DEF OpInv

\* A check that failed is a failed check.
LEMMA SaysFailed ==
    ASSUME OpTypeOK, NEW name \in CheckName, Says(name, "failed")
    PROVE  Failed' # {}
<1>1. checks'[name] = "failed"
  BY SaysType DEF Said
<1>2. QED
  BY <1>1 DEF Failed

\* What failed before has still failed, unless it was the check asked again.
LEMMA SaysOnTop ==
    ASSUME OpTypeOK, NEW name \in CheckName, NEW what \in Said, Says(name, what),
           Failed' = {}, checks[name] # "failed"
    PROVE  Failed = {}
<1>1. \A c \in CheckName \ {name} : checks'[c] = checks[c]
  BY SaysType
<1>2. QED
  BY <1>1 DEF Failed
\* The probe whose refusal is being classified.
LEMMA BlockedType ==
    ASSUME OpInv, Blocked
    PROVE  /\ op = "reprove"
           /\ Refired.status \in {"NOT_REPRODUCED", "REPORTED"}
           /\ Refired.status = "REPORTED" => Refired.executed = TRUE
           /\ RefiredOK(wire, Refired.status, Refired.executed)
<1>1. op = "reprove" /\ Refiring
  BY DEF Blocked, OpInv, OpTypeOK, Operation, ReproveOK, LockoutOK, PreflightOK
<1>2. pc = "pick" /\ Len(findings) = 1
  BY <1>1 DEF Blocked, Refiring
<1>3. Refired \in FindingType
  <2>1. findings \in Seq(FindingType)
    BY DEF OpInv, OpTypeOK, TypeOK
  <2>2. QED
    BY <1>2, <2>1 DEF Refired
<1>4. Refired.status \in Status /\ Refired.executed \in BOOLEAN
  BY <1>3 DEF FindingType
<1>5. RefiredOK(wire, Refired.status, Refired.executed)
  BY <1>1, <1>2 DEF Refiring, Refired
<1>6. Refired.status \in {"NOT_REPRODUCED", "REPORTED"}
  BY <1>4 DEF Blocked, Status
<1>7. Refired.status = "REPORTED" => Refired.executed = TRUE
  BY <1>4 DEF Blocked
<1>8. QED
  BY <1>1, <1>5, <1>6, <1>7

\* The attack was answered and held; then the owner is asked, or not.
LEMMA OwnerAnswers ==
    ASSUME OpInv, op = "reprove", AttackHeld(wire), wire # <<>>, NEW in \in BOOLEAN,
           OwnerAnswered(in), UNCHANGED <<setup, attempted>>, OpTypeOK',
           \/ in = FALSE /\ UNCHANGED wire
           \/ \E ans \in Answers : Send("A", ans) /\ (in <=> ans \in In)
    PROVE  OpInv'
<1>1. step' = "over" /\ verdict' = IF in THEN "FIXED" ELSE "BROKE_IT_SAFELY"
  BY DEF OwnerAnswered
<1>2. TypeOK /\ wire \in Seq(Exchange) /\ "A" \in Accounts /\ 1 \in 1..Len(wire)
  BY DEF OpInv, OpTypeOK, TypeOK, Accounts
<1>3. CASE in = FALSE /\ UNCHANGED wire
  <2>1. DOMAIN wire' = 1..Len(wire')
    BY <1>2, <1>3
  <2>2. FixedClaimsBothHalves' /\ BlockedWasAnswered'
    BY <1>1, <1>2, <1>3, <2>1 DEF FixedClaimsBothHalves, BlockedWasAnswered, AsA, AsB, AttackHeld
  <2>3. QED
    BY <1>1, <2>2, Verdicting
<1>4. ASSUME NEW ans \in Answers, Send("A", ans), in <=> ans \in In PROVE OpInv'
  <2>1. /\ wire' \in Seq(Exchange)
        /\ Len(wire') = Len(wire) + 1
        /\ \A k \in 1..Len(wire) : wire'[k] = wire[k]
        /\ wire'[Len(wire) + 1].as = "A"
        /\ wire'[Len(wire) + 1].ans = ans
    BY <1>2, <1>4, SendType
  <2>2. DOMAIN wire' = 1..Len(wire')
    BY <2>1
  <2>3. \A k \in DOMAIN wire' : k \in 1..Len(wire) \/ k = Len(wire) + 1
    BY <1>2, <2>1, <2>2
  <2>4. AsB' = 1..Len(wire) /\ AsA' = {Len(wire) + 1}
    BY <1>2, <2>1, <2>2, <2>3 DEF AsA, AsB, AttackHeld
  <2>5. \A k \in AsB' : wire'[k].ans \notin In \cup {"failed"}
    BY <2>1, <2>4 DEF AttackHeld
  <2>6. FixedClaimsBothHalves'
    BY <1>1, <1>2, <1>4, <2>1, <2>4, <2>5 DEF FixedClaimsBothHalves, In
  <2>7. BlockedWasAnswered'
    BY <1>1, <1>2, <1>4, <2>1, <2>4, <2>5 DEF BlockedWasAnswered, In
  <2>8. QED
    BY <1>1, <2>6, <2>7, Verdicting
<1>5. QED
  BY <1>3, <1>4

\* An owner who is not let in fails the check.
LEMMA OwnerRefused ==
    ASSUME OpInv, op # "reprove", OwnerAnswered(FALSE), UNCHANGED <<setup, attempted>>, OpTypeOK'
    PROVE  OpInv'
<1>1. PICK name \in CheckName : Says(name, "failed")
  BY DEF OwnerAnswered, CheckName
<1>2. Failed' # {}
  BY <1>1, SaysFailed DEF OpInv
<1>3. step' = "over" /\ UNCHANGED verdict
  BY DEF OwnerAnswered
<1>4. QED
  BY <1>2, <1>3, Checking DEF LockoutPassIsEarned, SoundSetupWasShown

\* A preflight whose owner was asked once and answered.
LEMMA ControlShown ==
    ASSUME OpInv, op = "preflight", wire = <<>>, NEW ans \in Answers, Send("A", ans), ans \in In,
           step' = "over", UNCHANGED <<setup, attempted, verdict>>, OpTypeOK'
    PROVE  OpInv'
<1>1. Len(wire') = 1 /\ wire'[1].as = "A" /\ wire'[1].ans \in In
  <2>1. wire' \in Seq(Exchange) /\ Len(wire') = 1 /\ wire'[1].as = "A" /\ wire'[1].ans = ans
    BY SendType DEF OpInv, OpTypeOK, Accounts
  <2>2. QED
    BY <2>1
<1>2. SoundSetupWasShown' /\ LockoutPassIsEarned'
  BY <1>1 DEF SoundSetupWasShown, LockoutPassIsEarned, setup, In
<1>3. QED
  BY <1>2, Checking

LEMMA OpInvStep == ASSUME OpInv, [OpNext]_opvars PROVE OpInv'
<1>t. OpTypeOK /\ OpTypeOK' /\ TypeOK /\ wire \in Seq(Exchange)
  BY OpTypeStep DEF OpInv, OpTypeOK, TypeOK
<1>o. op \in {"reprove", "lockout", "preflight"}
  BY <1>t DEF OpTypeOK, Operation
<1>1. CASE RefuseTarget
  <2>1. UNCHANGED <<setup, attempted>> /\ step' = "over" /\ step = "called"
    BY <1>1 DEF RefuseTarget, vars
  <2>2. CASE op = "reprove"
    <3>1. verdict' = "REPORTED"
      BY <1>1, <2>2 DEF RefuseTarget
    <3>2. QED
      BY <1>t, <2>1, <2>2, <3>1, Verdicting DEF FixedClaimsBothHalves, BlockedWasAnswered
  <2>3. CASE op = "lockout"
    <3>1. UNCHANGED <<checks, verdict>> /\ op' = "lockout"
      BY <1>1, <2>3 DEF RefuseTarget, setup
    <3>2. Passed' = {}
      BY <2>1, <3>1 DEF OpInv, Common, Passed
    <3>3. QED
      BY <1>t, <2>1, <2>3, <3>1, <3>2, Checking DEF LockoutPassIsEarned, SoundSetupWasShown
  <2>4. CASE op = "preflight"
    <3>1. Says("ownership", "failed") /\ UNCHANGED verdict /\ op' = "preflight"
      BY <1>1, <2>4 DEF RefuseTarget, setup
    <3>2. Failed' # {}
      BY <1>t, <3>1, SaysFailed DEF CheckName
    <3>3. QED
      BY <1>t, <2>1, <2>4, <3>1, <3>2, Checking DEF LockoutPassIsEarned, SoundSetupWasShown
  <2>5. QED
    BY <1>o, <2>2, <2>3, <2>4
<1>2. CASE Refire
  <2>1. /\ op' = "reprove" /\ step' = "refiring" /\ verdict' = "none" /\ attempted' = 1
        /\ op = "reprove" /\ wire = <<>> /\ wire' = <<>> /\ findings = <<>>
        /\ UNCHANGED <<queue, attempted>>
    BY <1>2 DEF Refire, OpInv, Common, setup, still
  <2>2. Refiring'
    <3>1. CASE Unaimed(Current)
      <4>1. Conclude("REPORTED", FALSE) /\ RefiredOK(wire', "REPORTED", FALSE)
        BY <1>2, <3>1 DEF Refire, RefiredOK
      <4>2. QED
        BY <1>t, <2>1, <4>1, Refinding DEF Status
    <3>2. CASE ~Unaimed(Current)
      <4>1. pc' = ProbeOf(Current) /\ findings' = <<>> /\ Current' = Current
        BY <1>2, <2>1, <3>2 DEF Refire, Current
      <4>2. AttackHeld(wire)'
        BY <2>1 DEF AttackHeld
      <4>3. QED
        BY <2>1, <4>1, <4>2 DEF ProbeOf, Refiring, ProbePC, RoutePlane
    <3>3. QED
      BY <3>1, <3>2
  <2>3. Common' /\ ReproveOK' /\ LockoutOK' /\ PreflightOK'
    BY <2>1, <2>2 DEF Common, ReproveOK, LockoutOK, PreflightOK
  <2>4. QED
    BY <1>t, <2>1, <2>3, NothingEarned DEF OpInv
<1>3. CASE Probe
  <2>1. step = "refiring" /\ UNCHANGED <<setup, step, verdict, checks, attempted>>
    BY <1>3 DEF Probe, TableLogin, TargetedBola, UnfilteredRls, ProberLogin, ProveRouteBola,
       OwnerReads, ProveSqlInjection, kept
  <2>2. op = "reprove" /\ op' = "reprove"
    BY <1>o, <2>1 DEF OpInv, LockoutOK, PreflightOK, setup
  <2>3. Refiring'
    BY <1>t, <1>3, ProbeStep
  <2>4. Common' /\ ReproveOK' /\ LockoutOK' /\ PreflightOK'
    BY <2>1, <2>2, <2>3 DEF OpInv, Common, ReproveOK, LockoutOK, PreflightOK
  <2>5. verdict' = "none" /\ step' # "over"
    BY <2>1 DEF OpInv, Common
  <2>6. QED
    BY <1>t, <2>4, <2>5, NothingEarned DEF OpInv
<1>4. CASE RefireRaises \/ StillLands \/ NotRefired
  <2>1. /\ step = "refiring" /\ step' = "over" /\ UNCHANGED <<setup, attempted>>
        /\ verdict' \in {verdict, "PROVEN", "REPORTED"}
    BY <1>4 DEF RefireRaises, StillLands, NotRefired, Verdict, vars
  <2>2. op = "reprove" /\ verdict' \in {"none", "PROVEN", "REPORTED"}
    BY <1>o, <2>1 DEF OpInv, LockoutOK, PreflightOK, Common
  <2>3. QED
    BY <1>t, <2>1, <2>2, Verdicting DEF FixedClaimsBothHalves, BlockedWasAnswered
<1>5. CASE ClassifyRoute
  <2>1. /\ step' = "over" /\ UNCHANGED <<setup, attempted, wire>> /\ RoutePlane(Current)
        /\ verdict' = IF Refired.status = "NOT_REPRODUCED" THEN "FIXED" ELSE "BROKE_IT_SAFELY"
    BY <1>5 DEF ClassifyRoute, Verdict, vars
  <2>2. /\ op = "reprove" /\ RouteAsked(wire)
        /\ Refired.status = "NOT_REPRODUCED" => wire[2].ans = "record"
        /\ Refired.status # "NOT_REPRODUCED" => wire[2].ans \notin In
    BY <1>5, <2>1, BlockedType DEF ClassifyRoute, RefiredOK
  <2>3. DOMAIN wire' = {1, 2} /\ wire' = wire
    BY <1>t, <2>1, <2>2 DEF RouteAsked
  <2>4. AsB' = {1} /\ AsA' = {2}
    BY <2>2, <2>3 DEF AsA, AsB, RouteAsked
  <2>5. FixedClaimsBothHalves'
    BY <2>1, <2>2, <2>3, <2>4 DEF FixedClaimsBothHalves, RouteAsked, In
  <2>6. BlockedWasAnswered'
    BY <2>1, <2>2, <2>3, <2>4 DEF BlockedWasAnswered, RouteAsked, In
  <2>7. QED
    BY <1>t, <2>1, <2>2, <2>5, <2>6, Verdicting
<1>6. CASE OwnerUnasked
  <2>1. /\ step' = "over" /\ UNCHANGED <<setup, attempted, wire>> /\ ~RoutePlane(Current)
        /\ verdict' = "NOT_REPRODUCED"
    BY <1>6 DEF OwnerUnasked, Verdict, vars
  <2>2. op = "reprove" /\ AttackHeld(wire) /\ wire # <<>>
    BY <1>6, <2>1, BlockedType DEF OwnerUnasked, RefiredOK
  <2>3. DOMAIN wire' = 1..Len(wire) /\ wire' = wire /\ 1 \in 1..Len(wire)
    BY <1>t, <2>1, <2>2
  <2>4. AsB' = 1..Len(wire) /\ AsA' = {}
    BY <2>2, <2>3 DEF AsA, AsB, AttackHeld
  <2>5. FixedClaimsBothHalves' /\ BlockedWasAnswered'
    BY <2>1, <2>2, <2>3, <2>4 DEF FixedClaimsBothHalves, BlockedWasAnswered, AttackHeld
  <2>6. QED
    BY <1>t, <2>1, <2>2, <2>5, Verdicting
<1>7. CASE AskOwner
  <2>1. /\ step' = "owner_login" /\ UNCHANGED <<setup, attempted, wire, verdict>>
        /\ ~RoutePlane(Current) /\ step = "refiring"
    BY <1>7 DEF AskOwner, Blocked, vars
  <2>2. op = "reprove" /\ AttackHeld(wire) /\ wire # <<>>
    BY <1>7, <2>1, BlockedType DEF AskOwner, RefiredOK
  <2>3. Common' /\ ReproveOK' /\ LockoutOK' /\ PreflightOK'
    BY <2>1, <2>2 DEF OpInv, Common, ReproveOK, LockoutOK, PreflightOK, setup, AttackHeld
  <2>4. verdict' = "none"
    BY <2>1 DEF OpInv, Common
  <2>5. QED
    BY <1>t, <2>1, <2>3, <2>4, NothingEarned DEF OpInv
<1>8. CASE OwnerLogin
  <2>1. UNCHANGED <<setup, attempted, wire, cfg>> /\ step = "owner_login"
    BY <1>8 DEF OwnerLogin, still
  <2>2. CASE step' = "owner_read" /\ UNCHANGED <<verdict, checks>>
    <3>1. Common' /\ ReproveOK' /\ LockoutOK' /\ PreflightOK'
      BY <1>o, <2>1, <2>2 DEF OpInv, Common, ReproveOK, LockoutOK, PreflightOK, setup,
         AttackHeld, Failed, In
    <3>2. verdict' = "none"
      BY <2>1, <2>2 DEF OpInv, Common
    <3>3. QED
      BY <1>t, <2>2, <3>1, <3>2, NothingEarned DEF OpInv
  <2>3. CASE OwnerAnswered(FALSE) /\ op = "reprove"
    <3>1. AttackHeld(wire) /\ wire # <<>>
      BY <2>1, <2>3 DEF OpInv, ReproveOK
    <3>2. QED
      BY <1>t, <2>1, <2>3, <3>1, OwnerAnswers
  <2>4. CASE OwnerAnswered(FALSE) /\ op # "reprove"
    BY <1>t, <2>1, <2>4, OwnerRefused
  <2>5. QED
    BY <1>8, <2>2, <2>3, <2>4 DEF OwnerLogin
<1>9. CASE OwnerRead
  <2>1. UNCHANGED <<setup, attempted, cfg>> /\ step = "owner_read"
    BY <1>9 DEF OwnerRead, still
  <2>2. PICK ans \in {"seedrow", "empty", "error", "failed"} :
          Send("A", ans) /\ OwnerAnswered(ans = "seedrow")
    BY <1>9 DEF OwnerRead
  <2>3. ans \in Answers /\ (ans = "seedrow" <=> ans \in In)
    BY DEF Answers, TableAnswers, In
  <2>4. CASE op = "reprove"
    <3>1. AttackHeld(wire) /\ wire # <<>>
      BY <2>1, <2>4 DEF OpInv, ReproveOK
    <3>2. (ans = "seedrow") \in BOOLEAN
      OBVIOUS
    <3>3. QED
      BY <1>t, <2>1, <2>2, <2>3, <2>4, <3>1, <3>2, OwnerAnswers
  <2>5. CASE op # "reprove" /\ ans # "seedrow"
    <3>1. OwnerAnswered(FALSE)
      BY <2>2, <2>5
    <3>2. QED
      BY <1>t, <2>1, <2>5, <3>1, OwnerRefused
  <2>6. CASE op = "lockout" /\ ans = "seedrow"
    <3>1. /\ step' = "over" /\ UNCHANGED verdict /\ Says("postgrest", "passed")
          /\ op' = "lockout" /\ UNCHANGED door
      BY <2>1, <2>2, <2>6 DEF OwnerAnswered, setup
    <3>2. ASSUME Failed' = {}
          PROVE  /\ Len(wire') = (IF door THEN 1 ELSE 0) + 1
                 /\ \A k \in DOMAIN wire' : wire'[k].as = "A" /\ wire'[k].ans \in In
      <4>1. Failed = {}
        BY <1>t, <2>1, <2>6, <3>1, <3>2, SaysOnTop DEF OpInv, LockoutOK, CheckName, Said
      <4>2. /\ Len(wire) = (IF door THEN 1 ELSE 0)
            /\ \A k \in 1..Len(wire) : wire[k].as = "A" /\ wire[k].ans \in In
        BY <2>1, <2>6, <4>1 DEF OpInv, LockoutOK
      <4>3. /\ wire' \in Seq(Exchange)
            /\ Len(wire') = Len(wire) + 1
            /\ \A k \in 1..Len(wire) : wire'[k] = wire[k]
            /\ wire'[Len(wire) + 1].as = "A" /\ wire'[Len(wire) + 1].ans = ans
        BY <1>t, <2>2, <2>3, SendType DEF Accounts
      <4>4. \A k \in DOMAIN wire' : k \in 1..Len(wire) \/ k = Len(wire) + 1
        BY <1>t, <4>3
      <4>5. QED
        BY <2>3, <2>6, <4>2, <4>3, <4>4
    <3>3. cfg.anonKey /\ cfg' = cfg
      BY <2>1, <2>6 DEF OpInv, LockoutOK
    <3>4. LockoutPassIsEarned' /\ SoundSetupWasShown'
      BY <3>1, <3>2, <3>3 DEF LockoutPassIsEarned, SoundSetupWasShown, In
    <3>5. QED
      BY <1>t, <2>1, <2>6, <3>1, <3>4, Checking
  <2>7. CASE op = "preflight" /\ ans = "seedrow"
    <3>1. step' = "over" /\ UNCHANGED verdict /\ wire = <<>>
      BY <2>1, <2>2, <2>7 DEF OwnerAnswered, OpInv, PreflightOK
    <3>2. QED
      BY <1>t, <2>1, <2>2, <2>3, <2>7, <3>1, ControlShown
  <2>8. QED
    BY <1>o, <2>4, <2>5, <2>6, <2>7
<1>10. CASE LockoutUndecided
  <2>1. op' = "lockout" /\ op = "lockout" /\ step' = "over" /\ Passed' = {}
        /\ UNCHANGED <<setup, attempted, verdict>>
    BY <1>10 DEF LockoutUndecided, OpInv, Common, Passed, setup, vars
  <2>2. QED
    BY <1>t, <2>1, Checking DEF LockoutPassIsEarned, SoundSetupWasShown
<1>11. CASE LockoutCheck
  <2>1. /\ op' = "lockout" /\ op = "lockout" /\ step = "called" /\ verdict' = "none"
        /\ wire' = <<>> /\ wire = <<>> /\ Failed = {} /\ Passed = {}
        /\ UNCHANGED <<setup, attempted, verdict, cfg, door>>
    BY <1>11 DEF LockoutCheck, OpInv, Common, setup, still
  <2>2. CASE step' \in {"door", "owner_login"} /\ UNCHANGED checks
    <3>1. (step' = "door" => door) /\ (step' = "owner_login" => ~door /\ cfg.anonKey)
      BY <1>11, <2>2 DEF LockoutCheck, AskDoor, AskPostgrest, SpeaksPostgrest
    <3>2. Common' /\ ReproveOK' /\ LockoutOK' /\ PreflightOK'
      BY <2>1, <2>2, <3>1 DEF OpInv, Common, ReproveOK, LockoutOK, PreflightOK
    <3>3. QED
      BY <1>t, <2>1, <2>2, <3>2, NothingEarned DEF OpInv
  <2>3. CASE step' = "over" /\ Says("postgrest", "skipped")
    <3>1. Passed' = {}
      BY <1>t, <2>1, <2>3, SaysType DEF Passed, CheckName, Said
    <3>2. QED
      BY <1>t, <2>1, <2>3, <3>1, Checking DEF LockoutPassIsEarned, SoundSetupWasShown
  <2>4. QED
    BY <1>11, <2>2, <2>3 DEF LockoutCheck, AskDoor, AskPostgrest
<1>12. CASE DoorLogin
  <2>1. /\ step = "door" /\ step' = "door" /\ op # "reprove"
        /\ UNCHANGED <<setup, attempted, verdict, checks, wire>>
    BY <1>12 DEF DoorLogin, ProberLogin, OpInv, ReproveOK
  <2>2. Common' /\ ReproveOK' /\ LockoutOK' /\ PreflightOK'
    BY <2>1 DEF OpInv, Common, ReproveOK, LockoutOK, PreflightOK, setup
  <2>3. verdict' = "none"
    BY <2>1 DEF OpInv, Common
  <2>4. QED
    BY <1>t, <2>1, <2>2, <2>3, NothingEarned DEF OpInv
<1>13. CASE LockoutDoor
  <2>1. PICK ans \in RouteAnswers :
          /\ Send("A", ans)
          /\ checks' = [checks EXCEPT !["route"] = IF ans = "record" THEN "passed" ELSE "failed",
                                      !["postgrest"] = IF SpeaksPostgrest THEN @ ELSE "skipped"]
    BY <1>13 DEF LockoutDoor
  <2>2. /\ op' = "lockout" /\ op = "lockout" /\ step = "door"
        /\ step' = IF cfg.anonKey THEN "owner_login" ELSE "over"
        /\ UNCHANGED <<setup, attempted, verdict, cfg, door>>
    BY <1>13 DEF LockoutDoor, SpeaksPostgrest, setup, still
  <2>3. door /\ wire = <<>> /\ checks["postgrest"] # "failed" /\ verdict' = "none"
    BY <2>2 DEF OpInv, LockoutOK, Common
  <2>4. Len(wire') = 1 /\ DOMAIN wire' = {1} /\ wire'[1].as = "A" /\ wire'[1].ans = ans
    <3>1. /\ wire' \in Seq(Exchange) /\ Len(wire') = 1
          /\ wire'[1].as = "A" /\ wire'[1].ans = ans
      BY <1>t, <2>1, <2>3, SendType DEF Accounts, Answers
    <3>2. QED
      BY <3>1
  <2>5. /\ checks'["route"] = IF ans = "record" THEN "passed" ELSE "failed"
        /\ checks'["postgrest"] # "failed"
    BY <1>t, <2>1, <2>3 DEF OpTypeOK, CheckName
  <2>6. Failed' = {} => ans \in In
    BY <2>5 DEF Failed, CheckName, In
  <2>7. CASE cfg.anonKey
    <3>1. Common' /\ ReproveOK' /\ LockoutOK' /\ PreflightOK'
      BY <2>2, <2>3, <2>4, <2>5, <2>6, <2>7 DEF OpInv, Common, ReproveOK, LockoutOK,
         PreflightOK, In
    <3>2. QED
      BY <1>t, <2>2, <2>3, <2>7, <3>1, NothingEarned DEF OpInv
  <2>8. CASE ~cfg.anonKey
    <3>1. LockoutPassIsEarned' /\ SoundSetupWasShown'
      BY <2>2, <2>3, <2>4, <2>6, <2>8 DEF LockoutPassIsEarned, SoundSetupWasShown, In
    <3>2. QED
      BY <1>t, <2>2, <2>8, <3>1, Checking
  <2>9. QED
    BY <2>7, <2>8
<1>14. CASE Reach
  <2>1. PICK ok \in BOOLEAN :
          /\ step' = IF ok THEN "auth_b" ELSE "over"
          /\ checks' = [checks EXCEPT !["ownership"] = "passed",
                                      !["reachable"] = IF ok THEN "passed" ELSE "failed"]
    BY <1>14 DEF Reach
  <2>2. /\ op' = "preflight" /\ op = "preflight" /\ step = "called" /\ verdict' = "none"
        /\ UNCHANGED <<setup, attempted, verdict, wire>> /\ wire = <<>>
    BY <1>14 DEF Reach, OpInv, Common, setup, vars
  <2>3. CASE ok
    <3>1. Common' /\ ReproveOK' /\ LockoutOK' /\ PreflightOK' /\ step' # "over"
      BY <2>1, <2>2, <2>3 DEF OpInv, Common, ReproveOK, LockoutOK, PreflightOK
    <3>2. QED
      BY <1>t, <2>2, <3>1, NothingEarned DEF OpInv
  <2>4. CASE ~ok
    <3>1. checks'["reachable"] = "failed"
      BY <1>t, <2>1, <2>4 DEF OpTypeOK, CheckName
    <3>2. Failed' # {}
      BY <3>1 DEF Failed, CheckName
    <3>3. QED
      BY <1>t, <2>1, <2>2, <2>4, <3>2, Checking DEF LockoutPassIsEarned, SoundSetupWasShown
  <2>5. QED
    BY <2>3, <2>4
<1>15. CASE AuthB
  <2>1. /\ op' = "preflight" /\ step' = "control" /\ verdict' = "none" /\ attempted' = 1
        /\ wire' = <<>>
    BY <1>o, <1>15 DEF AuthB, OpInv, Common, ReproveOK, LockoutOK, PreflightOK, setup, still
  <2>2. Common' /\ ReproveOK' /\ LockoutOK' /\ PreflightOK'
    BY <2>1 DEF Common, ReproveOK, LockoutOK, PreflightOK
  <2>3. QED
    BY <1>t, <2>1, <2>2, NothingEarned DEF OpInv
<1>16. CASE PositiveControl
  <2>1. /\ op' = "preflight" /\ op = "preflight" /\ verdict' = "none" /\ wire' = <<>>
        /\ UNCHANGED <<setup, mail, door, attempted, verdict, cfg, seed, acct>>
    BY <1>o, <1>16 DEF PositiveControl, OpInv, Common, ReproveOK, LockoutOK, PreflightOK,
       setup, still
  <2>2. CASE step' \in {"door", "owner_login"}
    <3>1. Common' /\ ReproveOK' /\ LockoutOK' /\ PreflightOK'
      BY <2>1, <2>2 DEF OpInv, Common, ReproveOK, LockoutOK, PreflightOK
    <3>2. QED
      BY <1>t, <2>1, <2>2, <3>1, NothingEarned DEF OpInv
  <2>3. CASE step' = "over"
    <3>1. seed = NoSeed \/ ~Credentials("A") \/ ~(door \/ cfg.anonKey)
      BY <1>16, <2>3 DEF PositiveControl, AskDoor, AskPostgrest, SpeaksPostgrest
    <3>2. SoundSetupWasShown' /\ LockoutPassIsEarned'
      BY <2>1, <3>1 DEF SoundSetupWasShown, LockoutPassIsEarned, Credentials
    <3>3. QED
      BY <1>t, <2>1, <2>3, <3>2, Checking
  <2>4. QED
    BY <1>16, <2>2, <2>3 DEF PositiveControl, AskDoor, AskPostgrest
<1>17. CASE ControlDoor
  <2>1. PICK ans \in RouteAnswers :
          /\ Send("A", ans)
          /\ Says("positive_control", IF ans = "record" THEN "passed" ELSE "failed")
    BY <1>17 DEF ControlDoor
  <2>2. /\ op = "preflight" /\ op' = "preflight" /\ step' = "over" /\ wire = <<>>
        /\ UNCHANGED <<setup, attempted, verdict>>
    BY <1>17 DEF ControlDoor, OpInv, PreflightOK, setup, still
  <2>3. CASE ans = "record"
    BY <1>t, <2>1, <2>2, <2>3, ControlShown DEF In, Answers
  <2>4. CASE ans # "record"
    <3>1. Failed' # {}
      BY <1>t, <2>1, <2>4, SaysFailed DEF CheckName
    <3>2. QED
      BY <1>t, <2>2, <3>1, Checking DEF SoundSetupWasShown, LockoutPassIsEarned
  <2>5. QED
    BY <2>3, <2>4
<1>18. CASE OpStop \/ UNCHANGED opvars
  BY <1>18, <1>t DEF OpStop, opvars, vars, setup, OpInv, Common, ReproveOK, LockoutOK,
     PreflightOK, Refiring, RefiredOK, RouteAsked, AttackHeld, Current, RoutePlane,
     Earned, FixedClaimsBothHalves, BlockedWasAnswered, LockoutPassIsEarned,
     SoundSetupWasShown, AsA, AsB, Failed, Passed, In, Credentials
<1>19. QED
  BY <1>1, <1>2, <1>3, <1>4, <1>5, <1>6, <1>7, <1>8, <1>9, <1>10, <1>11, <1>12, <1>13,
     <1>14, <1>15, <1>16, <1>17, <1>18 DEF OpNext, OpStep

LEMMA OpInvariance == OpSpec => []OpInv
BY OpInvInit, OpInvStep, PTL DEF OpSpec

-----------------------------------------------------------------------------
(* What the operations promise. *)

\* Every variable keeps its type, whatever is re-fired and at whichever target.
THEOREM OpTyping == OpSpec => []OpTypeOK
BY OpInvariance, PTL DEF OpInv

\* FIXED is said of a fix only when the attack was sent, answered and refused, and
\* the owner, asked afterwards, was let in.
THEOREM FixedIsEarned == OpSpec => []FixedClaimsBothHalves
<1>1. OpInv => FixedClaimsBothHalves
  BY DEF OpInv, Earned
<1>2. QED
  BY <1>1, OpInvariance, PTL

\* A verdict that the attack no longer lands rests on an answer to every request
\* sent as B, and never on an owner who read the record being called locked out.
THEOREM BlockedIsEarned == OpSpec => []BlockedWasAnswered
<1>1. OpInv => BlockedWasAnswered
  BY DEF OpInv, Earned
<1>2. QED
  BY <1>1, OpInvariance, PTL

\* A lockout check that passes has asked through every door and been let in.
THEOREM LockoutIsEarned == OpSpec => []LockoutPassIsEarned
<1>1. OpInv => LockoutPassIsEarned
  BY DEF OpInv, Earned
<1>2. QED
  BY <1>1, OpInvariance, PTL

\* A preflight that is ok has seen the owner read the record, where it could ask.
THEOREM SetupIsShown == OpSpec => []SoundSetupWasShown
<1>1. OpInv => SoundSetupWasShown
  BY DEF OpInv, Earned
<1>2. QED
  BY <1>1, OpInvariance, PTL

-----------------------------------------------------------------------------
(* What a file's text declares.                                            *)

\* A gate, which declares no agent, is what the three other fixes write.
GateFile(d) ==
    d.format = "gate" /\ d = [format |-> "gate", sinks |-> d.sinks, marks |-> d.marks]

Readable(d) == Export(d) \/ PythonFile(d) \/ ScriptFile(d) \/ GateFile(d)

\* Which parser reads which text.
LEMMA TheParser ==
    ASSUME NEW d, NEW f
    PROVE  /\ d.format \in {"mcp", "flowise"} => scopes_of(d, f) = parse_mcp_manifest(d, f)
           /\ d.format = "n8n" => scopes_of(d, f) = parse_n8n_export(d, f)
           /\ d.format = "python" =>
                 scopes_of(d, f) = parse_crewai_python(d, f) \union parse_langchain_python(d, f)
           /\ d.format = "js" => scopes_of(d, f) = parse_langchain_python(d, f)
           /\ d.format \notin {"mcp", "flowise", "n8n", "python", "js"} => scopes_of(d, f) = {}
  BY DEF scopes_of, parse_flowise_export, parse_js_agent

\* Every agent found in a file is of that file.
LEMMA ScopeIsOfItsFile ==
    ASSUME NEW d, NEW f, NEW s \in scopes_of(d, f)
    PROVE  s.file = f
  <1>1. CASE d.format \in {"mcp", "flowise"}
    <2>1. s \in parse_mcp_manifest(d, f)
      BY <1>1, TheParser
    <2> QED  BY <2>1 DEF AgentScope, parse_mcp_manifest
  <1>2. CASE d.format = "n8n"
    <2>1. s \in parse_n8n_export(d, f)
      BY <1>2, TheParser
    <2> QED  BY <2>1 DEF AgentScope, parse_n8n_export
  <1>3. CASE d.format \in {"python", "js"}
    <2>1. s \in parse_crewai_python(d, f) \/ s \in parse_langchain_python(d, f)
      BY <1>3, TheParser
    <2> QED  BY <2>1 DEF AgentScope, parse_crewai_python, parse_langchain_python
  <1>4. d.format \in {"mcp", "flowise", "n8n", "python", "js"}
    BY TheParser
  <1> QED  BY <1>1, <1>2, <1>3, <1>4

\* An agent that is not code is the only one of its file.
LEMMA UncodedIsAlone ==
    ASSUME NEW d, NEW f, NEW s \in scopes_of(d, f), NEW t \in scopes_of(d, f), ~s.coded
    PROVE  t = s
  <1>1. CASE d.format \in {"mcp", "flowise"}
    <2>1. s \in parse_mcp_manifest(d, f) /\ t \in parse_mcp_manifest(d, f)
      BY <1>1, TheParser
    <2> QED  BY <2>1 DEF parse_mcp_manifest
  <1>2. CASE d.format = "n8n"
    <2>1. s \in parse_n8n_export(d, f) /\ t \in parse_n8n_export(d, f)
      BY <1>2, TheParser
    <2> QED  BY <2>1 DEF parse_n8n_export
  <1>3. CASE d.format \in {"python", "js"}
    <2>1. s \in parse_crewai_python(d, f) \/ s \in parse_langchain_python(d, f)
      BY <1>3, TheParser
    <2>2. s.coded = TRUE
      BY <2>1 DEF AgentScope, parse_crewai_python, parse_langchain_python
    <2> QED  BY <2>2
  <1>4. d.format \in {"mcp", "flowise", "n8n", "python", "js"}
    BY TheParser
  <1> QED  BY <1>1, <1>2, <1>3, <1>4

\* The agent of place i of a crew.
CrewScope(member, f, i) ==
    AgentScope(IF member.role # NoName THEN member.role ELSE Append(Stem[f], "agent"),
               f, i, member.tools, TRUE)

\* The agents of a Python file: those of its crew, at their places, and one at
\* place 0 for the tools it registers.
LEMMA PythonScopes ==
    ASSUME NEW d, NEW f, d.format = "python", NEW s
    PROVE  s \in scopes_of(d, f) <=>
              \/ \E i \in DOMAIN d.agents :
                    /\ d.agents[i].tools # {}
                    /\ s = CrewScope(d.agents[i], f, i)
              \/ d.tools # {} /\ s = AgentScope(Stem[f], f, 0, d.tools, TRUE)
  <1>1. scopes_of(d, f) = parse_crewai_python(d, f) \union parse_langchain_python(d, f)
    BY TheParser
  <1>2. s \in parse_crewai_python(d, f) <=>
           \E i \in DOMAIN d.agents :
              /\ d.agents[i].tools # {}
              /\ s = CrewScope(d.agents[i], f, i)
    BY DEF parse_crewai_python, CrewScope
  <1>3. s \in parse_langchain_python(d, f) <=>
           d.tools # {} /\ s = AgentScope(Stem[f], f, 0, d.tools, TRUE)
    BY DEF parse_langchain_python
  <1> QED  BY <1>1, <1>2, <1>3

\* The one agent of a file that is not Python.
LEMMA OnlyScope ==
    ASSUME NEW d, NEW f, d.format # "python", NEW s \in scopes_of(d, f)
    PROVE  /\ s.at = 0
           /\ s.tools = d.tools
           /\ \A t \in scopes_of(d, f) : t = s
  <1>1. CASE d.format \in {"mcp", "flowise"}
    <2>1. s \in parse_mcp_manifest(d, f) /\ scopes_of(d, f) = parse_mcp_manifest(d, f)
      BY <1>1, TheParser
    <2>2. s = AgentScope(Named(d.name, f), f, 0, d.tools, FALSE)
      BY <2>1 DEF parse_mcp_manifest
    <2>3. \A t \in scopes_of(d, f) : t = s
      BY <2>1, <2>2 DEF parse_mcp_manifest
    <2> QED  BY <2>2, <2>3 DEF CrewScope, AgentScope
  <1>2. CASE d.format = "n8n"
    <2>1. s \in parse_n8n_export(d, f) /\ scopes_of(d, f) = parse_n8n_export(d, f)
      BY <1>2, TheParser
    <2> QED  BY <2>1 DEF AgentScope, parse_n8n_export
  <1>3. CASE d.format = "js"
    <2>1. s \in parse_langchain_python(d, f) /\ scopes_of(d, f) = parse_langchain_python(d, f)
      BY <1>3, TheParser
    <2>2. s = AgentScope(Stem[f], f, 0, d.tools, TRUE)
      BY <2>1 DEF parse_langchain_python
    <2>3. \A t \in scopes_of(d, f) : t = s
      BY <2>1, <2>2 DEF parse_langchain_python
    <2> QED  BY <2>2, <2>3 DEF CrewScope, AgentScope
  <1>4. d.format \in {"mcp", "flowise", "n8n", "js"}
    BY TheParser
  <1> QED  BY <1>1, <1>2, <1>3, <1>4

\* A file's text and a place in it settle the agent.
LEMMA OneScopePerPlace ==
    ASSUME NEW d, NEW f, Readable(d),
           NEW s \in scopes_of(d, f), NEW t \in scopes_of(d, f), s.at = t.at
    PROVE  s = t
  <1>1. CASE d.format # "python"
    BY <1>1, OnlyScope
  <1>2. CASE d.format = "python"
    <2>1. DOMAIN d.agents \subseteq Nat \ {0}
      BY <1>2 DEF Readable, Export, PythonFile, ScriptFile, GateFile
    <2>2. 0 \notin DOMAIN d.agents
      BY <2>1
    <2>3. \A u \in scopes_of(d, f) :
             \/ \E i \in DOMAIN d.agents : u = CrewScope(d.agents[i], f, i) /\ u.at = i
             \/ u = AgentScope(Stem[f], f, 0, d.tools, TRUE) /\ u.at = 0
      <3>1. AgentScope(Stem[f], f, 0, d.tools, TRUE).at = 0
        BY DEF CrewScope, AgentScope
      <3> QED  BY <1>2, <3>1, PythonScopes DEF CrewScope, AgentScope
    <2> QED  BY <2>2, <2>3
  <1> QED  BY <1>1, <1>2

\* An agent's tools are tools.
LEMMA ScopeTools ==
    ASSUME NEW d, NEW f, Readable(d), NEW s \in scopes_of(d, f)
    PROVE  s.tools \subseteq Tool /\ s.at \in Nat
  <1>1. CASE d.format = "python"
    <2>1. PythonFile(d)
      BY <1>1 DEF Readable, Export, ScriptFile, GateFile
    <2> QED  BY <1>1, <2>1, PythonScopes DEF CrewScope, AgentScope, PythonFile
  <1>2. CASE d.format # "python"
    <2>1. d.format # "gate"
      BY TheParser
    <2>2. d.tools \subseteq Tool
      BY <1>2, <2>1 DEF Readable, Export, PythonFile, ScriptFile, GateFile
    <2> QED  BY <1>2, <2>2, OnlyScope
  <1> QED  BY <1>1, <1>2

-----------------------------------------------------------------------------
(* The agents of a tree.                                                   *)

\* An agent is found in a tree when its own file declares it.
LEMMA FoundInItsFile ==
    ASSUME NEW tree, NEW exclude, NEW s
    PROVE  s \in discover_scopes(tree, exclude) <=>
              s.file \in DOMAIN tree \ exclude /\ s \in scopes_of(tree[s.file], s.file)
  <1>1. s \in discover_scopes(tree, exclude) <=>
           \E f \in DOMAIN tree \ exclude : s \in scopes_of(tree[f], f)
    BY DEF discover_scopes
  <1>2. \A f : s \in scopes_of(tree[f], f) => s.file = f
    BY ScopeIsOfItsFile
  <1> QED  BY <1>1, <1>2

\* What becomes of a file when the agent of one place is taken out of it: the
\* others stay, and what is there instead has no tool.
Stripped(d, at) ==
    IF at > 0 THEN [d EXCEPT !.agents[at].tools = {}] ELSE [d EXCEPT !.tools = {}]

LEMMA StrippedCrew ==
    ASSUME NEW d, NEW f, PythonFile(d), NEW at \in DOMAIN d.agents
    PROVE  LET e == [d EXCEPT !.agents[at].tools = {}]
           IN /\ PythonFile(e)
              /\ \A t : t \in scopes_of(e, f) <=> t \in scopes_of(d, f) /\ t.at # at
  <1> DEFINE e == [d EXCEPT !.agents[at].tools = {}]
             A == [d.agents EXCEPT ![at].tools = {}]
  <1>1. d = [format |-> "python", agents |-> d.agents, tools |-> d.tools]
    BY DEF PythonFile
  <1>2. e = [format |-> "python", agents |-> A, tools |-> d.tools]
    BY <1>1
  <1>3. d.agents = [i \in DOMAIN d.agents |->
                      [role |-> d.agents[i].role, tools |-> d.agents[i].tools]]
    BY DEF PythonFile
  <1>4. /\ DOMAIN A = DOMAIN d.agents
        /\ \A i \in DOMAIN A : i # at => A[i] = d.agents[i]
        /\ A[at] = [role |-> d.agents[at].role, tools |-> {}]
    BY <1>3
  <1>5. PythonFile(e)
    <2>1. A = [i \in DOMAIN A |-> [role |-> A[i].role, tools |-> A[i].tools]]
      BY <1>3, <1>4
    <2>2. \A i \in DOMAIN A : A[i].tools \subseteq Tool
      BY <1>4 DEF PythonFile
    <2>3. e.agents = A /\ e.format = "python" /\ e.tools = d.tools
      BY <1>2
    <2> HIDE DEF e, A
    <2> QED  BY <1>2, <1>4, <2>1, <2>2, <2>3 DEF PythonFile
  <1>6. ASSUME NEW t
        PROVE  t \in scopes_of(e, f) <=> t \in scopes_of(d, f) /\ t.at # at
    <2>1. e.agents = A /\ e.format = "python" /\ e.tools = d.tools
      BY <1>2
    <2>2. d.format = "python" /\ at # 0
      BY DEF PythonFile
    <2> HIDE DEF e, A
    <2>3. t \in scopes_of(e, f) <=>
              \/ \E i \in DOMAIN A :
                    /\ A[i].tools # {}
                    /\ t = CrewScope(A[i], f, i)
              \/ d.tools # {} /\ t = AgentScope(Stem[f], f, 0, d.tools, TRUE)
      <3>1. t \in scopes_of(e, f) <=>
              \/ \E i \in DOMAIN e.agents :
                    /\ e.agents[i].tools # {}
                    /\ t = CrewScope(e.agents[i], f, i)
              \/ e.tools # {} /\ t = AgentScope(Stem[f], f, 0, e.tools, TRUE)
        BY <2>1, PythonScopes
      <3> QED  BY <2>1, <3>1
    <2>4. t \in scopes_of(d, f) <=>
              \/ \E i \in DOMAIN d.agents :
                    /\ d.agents[i].tools # {}
                    /\ t = CrewScope(d.agents[i], f, i)
              \/ d.tools # {} /\ t = AgentScope(Stem[f], f, 0, d.tools, TRUE)
      BY <2>2, PythonScopes
    <2>5. ASSUME NEW i \in DOMAIN A,
                 t = CrewScope(A[i], f, i)
          PROVE  t.at = i
      BY <2>5 DEF CrewScope, AgentScope
    <2>6. ASSUME NEW i \in DOMAIN d.agents,
                 t = CrewScope(d.agents[i], f, i)
          PROVE  t.at = i
      BY <2>6 DEF CrewScope, AgentScope
    <2>7. t = AgentScope(Stem[f], f, 0, d.tools, TRUE) => t.at = 0
      BY DEF CrewScope, AgentScope
    <2>8. A[at].tools = {}
      BY <1>4
    <2> QED  BY <1>4, <2>2, <2>3, <2>4, <2>5, <2>6, <2>7, <2>8
  <1> QED  BY <1>5, <1>6

LEMMA StrippedTools ==
    ASSUME NEW d, NEW f, Readable(d), d.format # "gate"
    PROVE  LET e == [d EXCEPT !.tools = {}]
           IN /\ Readable(e)
              /\ \A t \in scopes_of(e, f) :
                    t.tools = {} \/ (t \in scopes_of(d, f) /\ t.at # 0)
              /\ \A t \in scopes_of(d, f) : t.at # 0 => t \in scopes_of(e, f)
  <1> DEFINE e == [d EXCEPT !.tools = {}]
  <1>1. CASE Export(d)
    <2>1. d = [format |-> d.format, name |-> d.name, tools |-> d.tools]
      BY <1>1 DEF Export
    <2>2. e = [format |-> d.format, name |-> d.name, tools |-> {}]
      BY <2>1
    <2>3. e.format = d.format /\ e.name = d.name /\ e.tools = {}
      BY <2>2
    <2> HIDE DEF e
    <2>4. Export(e)
      BY <1>1, <2>2, <2>3 DEF Export
    <2>5. d.format # "python"
      BY <1>1 DEF Export
    <2>6. \A t \in scopes_of(e, f) : t.tools = {}
      BY <2>3, <2>5, OnlyScope
    <2>7. \A t \in scopes_of(d, f) : t.at = 0
      BY <2>5, OnlyScope
    <2> QED  BY <2>4, <2>6, <2>7 DEF Readable, e
  <1>2. CASE ScriptFile(d)
    <2>1. d = [format |-> "js", tools |-> d.tools] /\ d.format = "js"
      BY <1>2 DEF ScriptFile
    <2>2. e = [format |-> "js", tools |-> {}]
      BY <2>1
    <2>3. e.format = "js" /\ e.tools = {}
      BY <2>2
    <2> HIDE DEF e
    <2>4. ScriptFile(e)
      BY <2>2, <2>3 DEF ScriptFile
    <2>5. d.format # "python" /\ e.format # "python"
      BY <2>1, <2>3
    <2>6. \A t \in scopes_of(e, f) : t.tools = {}
      BY <2>3, <2>5, OnlyScope
    <2>7. \A t \in scopes_of(d, f) : t.at = 0
      BY <2>5, OnlyScope
    <2> QED  BY <2>4, <2>6, <2>7 DEF Readable, e
  <1>3. CASE PythonFile(d)
    <2>1. d = [format |-> "python", agents |-> d.agents, tools |-> d.tools]
          /\ d.format = "python"
      BY <1>3 DEF PythonFile
    <2>2. e = [format |-> "python", agents |-> d.agents, tools |-> {}]
      BY <2>1
    <2>3. e.format = "python" /\ e.agents = d.agents /\ e.tools = {}
      BY <2>2
    <2> HIDE DEF e
    <2>4. PythonFile(e)
      BY <1>3, <2>2, <2>3 DEF PythonFile
    <2>5. ASSUME NEW t \in scopes_of(e, f)
          PROVE  t \in scopes_of(d, f) /\ t.at # 0
      <3>1. PICK i \in DOMAIN d.agents :
               /\ d.agents[i].tools # {}
               /\ t = CrewScope(d.agents[i], f, i)
        BY <2>3, PythonScopes
      <3>2. t.at = i /\ i # 0
        BY <1>3, <3>1 DEF CrewScope, AgentScope, PythonFile
      <3> QED  BY <2>1, <3>1, <3>2, PythonScopes
    <2>6. ASSUME NEW t \in scopes_of(d, f), t.at # 0
          PROVE  t \in scopes_of(e, f)
      <3>1. t # AgentScope(Stem[f], f, 0, d.tools, TRUE)
        BY <2>6 DEF CrewScope, AgentScope
      <3>2. PICK i \in DOMAIN d.agents :
               /\ d.agents[i].tools # {}
               /\ t = CrewScope(d.agents[i], f, i)
        BY <2>1, <3>1, PythonScopes
      <3> QED  BY <2>3, <3>2, PythonScopes
    <2> QED  BY <2>4, <2>5, <2>6 DEF Readable, e
  <1> QED  BY <1>1, <1>2, <1>3 DEF Readable, GateFile

\* Taking one agent out of a file: the others stay, and nothing with a tool is
\* put in its place.
LEMMA StrippedFile ==
    ASSUME NEW d, NEW f, Readable(d), NEW s \in scopes_of(d, f)
    PROVE  /\ Readable(Stripped(d, s.at))
           /\ \A t \in scopes_of(Stripped(d, s.at), f) :
                 t.tools = {} \/ (t \in scopes_of(d, f) /\ t.at # s.at)
           /\ \A t \in scopes_of(d, f) :
                 t.at # s.at => t \in scopes_of(Stripped(d, s.at), f)
  <1>1. s.at \in Nat
    BY ScopeTools
  <1>2. CASE s.at > 0
    <2>1. d.format = "python"
      BY <1>1, <1>2, OnlyScope
    <2>2. PythonFile(d)
      BY <2>1 DEF Readable, Export, ScriptFile, GateFile
    <2>3. s.at \in DOMAIN d.agents
      BY <1>2, <2>1, PythonScopes DEF CrewScope, AgentScope
    <2>4. Stripped(d, s.at) = [d EXCEPT !.agents[s.at].tools = {}]
      BY <1>2 DEF Stripped
    <2> QED  BY <2>2, <2>3, <2>4, StrippedCrew DEF Readable
  <1>3. CASE s.at = 0
    <2>1. d.format # "gate"
      BY TheParser
    <2>2. Stripped(d, s.at) = [d EXCEPT !.tools = {}]
      BY <1>3 DEF Stripped
    <2> QED  BY <1>3, <2>1, <2>2, StrippedTools
  <1> QED  BY <1>1, <1>2, <1>3

\* Two trees hold the same files but for some.
SameElsewhere(D, before, after) ==
    /\ DOMAIN after \ D = DOMAIN before \ D
    /\ \A f \in DOMAIN before \ D : after[f] = before[f]

\* The agents outside some files do not change when only those files do.
LEMMA AgentsElsewhere ==
    ASSUME NEW D, NEW before, NEW after, SameElsewhere(D, before, after)
    PROVE  {s \in discover_scopes(after, {}) : s.file \notin D}
             = {s \in discover_scopes(before, {}) : s.file \notin D}
  <1>1. ASSUME NEW s, s.file \notin D
        PROVE  s \in discover_scopes(after, {}) <=> s \in discover_scopes(before, {})
    <2>1. s \in discover_scopes(after, {}) <=>
             s.file \in DOMAIN after \ {} /\ s \in scopes_of(after[s.file], s.file)
      BY FoundInItsFile
    <2>2. s \in discover_scopes(before, {}) <=>
             s.file \in DOMAIN before \ {} /\ s \in scopes_of(before[s.file], s.file)
      BY FoundInItsFile
    <2> QED  BY <1>1, <2>1, <2>2 DEF SameElsewhere
  <1> QED  BY <1>1

\* Files a tree already holds are left as they are when they are written again,
\* and the rest is untouched.
LEMMA WrittenFiles ==
    ASSUME NEW new, NEW tree
    PROVE  /\ DOMAIN Written(new, tree) = DOMAIN new \union DOMAIN tree
           /\ Written(new, tree)
                = [p \in DOMAIN Written(new, tree) |-> Written(new, tree)[p]]
           /\ \A p \in DOMAIN new : Written(new, tree)[p] = new[p]
           /\ \A p \in DOMAIN tree \ DOMAIN new : Written(new, tree)[p] = tree[p]
  BY DEF Written

\* Taking a candidate's agent out of a tree.
LEMMA WithoutStrips ==
    ASSUME NEW tree, NEW c, c.file \in DOMAIN tree,
           tree = [f \in DOMAIN tree |-> tree[f]]
    PROVE  /\ DOMAIN Without(tree, c) = DOMAIN tree
           /\ Without(tree, c) = [f \in DOMAIN tree |-> Without(tree, c)[f]]
           /\ Without(tree, c)[c.file] = Stripped(tree[c.file], c.at)
           /\ \A f \in DOMAIN tree : f # c.file => Without(tree, c)[f] = tree[f]
  BY DEF Without, Stripped

-----------------------------------------------------------------------------
(* What a fix writes, and what its re-check says.                          *)

LEMMA ReadBackTools ==
    ASSUME NEW tools \in SUBSET Tool
    PROVE  ReadBack(tools) \in SUBSET Tool
  BY PartsAssumption DEF ReadBack

\* Both sides of a candidate hold a tool.
TwoSided(c) ==
    c.source \in (SUBSET Tool) \ {{}} /\ c.sink \in (SUBSET Tool) \ {{}}

Leaves == {"scope_split", "mediation", "sink_confirmation", "provenance"}

\* The interview ends in one of the four leaves.
LEMMA InterviewLeaves ==
    ASSUME NEW a
    PROVE  resolve_tool_plane_fix(a) \in Leaves
  BY DEF resolve_tool_plane_fix, Leaves

\* A fix writes what the parsers read back, and a split whose sources have a name
\* left writes an agent.
LEMMA FixFiles ==
    ASSUME NEW c, TwoSided(c), NEW remediation \in Leaves
    PROVE  LET new == generate_tool_plane_fix(c, remediation)
           IN /\ \A p \in DOMAIN new : Readable(new[p])
              /\ remediation = "scope_split" => Added(new) # {} \/ ReadBack(c.source) = {}
  <1> DEFINE new == generate_tool_plane_fix(c, remediation)
  <1>1. ReadBack(c.source) \in SUBSET Tool /\ ReadBack(c.sink) \in SUBSET Tool
    BY ReadBackTools DEF TwoSided
  <1>2. CASE remediation = "scope_split"
    <2> DEFINE reader == manifest_path(c, "reader")
               actor == manifest_path(c, "actor")
               R == manifest(Append(c.scope, "reader"), ReadBack(c.source))
               A == manifest(Append(c.scope, "actor"), ReadBack(c.sink))
    <2>1. new = scope_split(c)
      BY <1>2 DEF generate_tool_plane_fix
    <2>2. /\ DOMAIN new = {reader, actor}
          /\ new[reader] = R
          /\ new[actor] \in {R, A}
      BY <2>1 DEF scope_split
    <2>3. Export(R) /\ Export(A)
      BY <1>1 DEF Export, manifest
    <2>4. R.format = "mcp" /\ R.tools = ReadBack(c.source)
      BY DEF manifest
    <2>5. scopes_of(R, reader) = parse_mcp_manifest(R, reader)
      BY <2>4, TheParser
    <2>6. scopes_of(R, reader) # {} \/ ReadBack(c.source) = {}
      BY <2>4, <2>5 DEF parse_mcp_manifest
    <2> HIDE DEF new, R, A, reader
    <2>7. Added(new) # {} \/ ReadBack(c.source) = {}
      BY <2>2, <2>6 DEF Added
    <2>8. \A p \in DOMAIN new : Readable(new[p])
      BY <2>2, <2>3 DEF Readable
    <2> QED  BY <2>7, <2>8 DEF new
  <1>3. CASE remediation # "scope_split"
    <2>1. PICK suffix : new = gate(c, suffix, ReadBack(c.source))
      BY <1>3 DEF generate_tool_plane_fix, Leaves
    <2>2. \A p \in DOMAIN new : GateFile(new[p])
      BY <2>1 DEF gate, GateFile
    <2> QED  BY <1>3, <2>2 DEF Readable
  <1> QED  BY <1>2, <1>3

\* The agents the fix's own files declare.
LEMMA AddedAgents ==
    ASSUME NEW new, NEW s
    PROVE  s \in Added(new) <=> s.file \in DOMAIN new /\ s \in scopes_of(new[s.file], s.file)
  <1>1. s \in Added(new) <=> \E p \in DOMAIN new : s \in scopes_of(new[p], p)
    BY DEF Added
  <1> QED  BY <1>1, ScopeIsOfItsFile

\* A split is called FIXED exactly when no agent that stays, and none the fix
\* adds, pairs the candidate's tools: whether a gate is written does not count, and
\* sources with no name left are paired by nobody.
LEMMA SplitVerdict ==
    ASSUME NEW c, NEW new, NEW tree, Added(new) # {} \/ ReadBack(c.source) = {}
    PROVE  reverify_tool_plane(c, "scope_split", new, TRUE, tree) = "FIXED" <=>
              /\ \A s \in Added(new) : ~pairs(s, c)
              /\ \A s \in discover_scopes(tree, {}) :
                    /\ s.file \notin DOMAIN new
                    /\ ~(s.name = c.scope /\ s.file = c.file)
                    => ~pairs(s, c)
  <1> DEFINE staying == Retired(c, "scope_split", new, Before(c, new, TRUE, tree))
             original == {s \in staying : s.name = c.scope}
             paired == \E s \in original : pairs(s, c)
             relocated == {s \in (staying \ original) \union Added(new) : pairs(s, c)}
  <1>1. ASSUME Added(new) # {}
        PROVE  \A s : s \in staying <=>
                  /\ s \in discover_scopes(tree, {})
                  /\ s.file \notin DOMAIN new
                  /\ ~(s.name = c.scope /\ s.file = c.file)
    BY <1>1 DEF Retired, Before
  <1>2. reverify_tool_plane(c, "scope_split", new, TRUE, tree) = "FIXED" <=>
           ~paired /\ relocated = {}
    BY DEF reverify_tool_plane
  <1> HIDE DEF staying
  <1>3. ~paired /\ relocated = {} <=>
           (\A s \in staying : ~pairs(s, c)) /\ (\A s \in Added(new) : ~pairs(s, c))
    OBVIOUS
  <1>4. ReadBack(c.source) = {} => \A s : ~pairs(s, c)
    BY DEF pairs
  <1> QED  BY <1>1, <1>2, <1>3, <1>4

\* The re-check reads the tree only outside the files the fix writes.
LEMMA VerdictElsewhere ==
    ASSUME NEW c, NEW remediation, NEW new, NEW before, NEW after,
           SameElsewhere(DOMAIN new, before, after)
    PROVE  reverify_tool_plane(c, remediation, new, TRUE, after)
             = reverify_tool_plane(c, remediation, new, TRUE, before)
  <1>1. Before(c, new, TRUE, after) = Before(c, new, TRUE, before)
    BY AgentsElsewhere DEF Before
  <1> QED  BY <1>1 DEF reverify_tool_plane

-----------------------------------------------------------------------------
(* The inductive invariant.  A candidate outlives the analysis that found it: *)
(* while its file is as it was, the agent it came from is still there (Fresh). *)
(* A fix outlives its re-check: until the replaced agent is taken out, the     *)
(* verdict is still what the re-check would say of the tree (Pending), whether *)
(* the fix's files are in it or not.                                           *)

TreeOK ==
    /\ repo = [f \in DOMAIN repo |-> repo[f]]
    /\ \A f \in DOMAIN repo : Readable(repo[f])

AnalysisOK ==
    analysis = [candidates |-> analysis.candidates, dropped |-> analysis.dropped,
                gap |-> analysis.gap, colocated |-> analysis.colocated,
                edited |-> analysis.edited]

Fresh ==
    \A c \in analysis.candidates : c.file \notin analysis.edited =>
        /\ c.file \in DOMAIN repo
        /\ \E s \in scopes_of(repo[c.file], c.file) :
              s.name = c.scope /\ c.source \union c.sink \subseteq s.tools

FixOK == fix # None =>
    /\ fix = [candidate |-> fix.candidate, remediation |-> fix.remediation, new |-> fix.new,
              given |-> fix.given, status |-> fix.status, stage |-> fix.stage]
    /\ fix.remediation \in Leaves
    /\ fix.new = generate_tool_plane_fix(fix.candidate, fix.remediation)
    /\ TwoSided(fix.candidate)
    /\ fix.candidate.file \in DOMAIN repo

\* The verdict still stands, and so does the agent it was given for.
VerdictStands(x, tree) ==
    LET c == x.candidate
    IN /\ c.file \notin DOMAIN x.new =>
            \E s \in scopes_of(tree[c.file], c.file) : s.name = c.scope /\ s.at = c.at
       /\ x.given = TRUE =>
            x.status = reverify_tool_plane(c, x.remediation, x.new, TRUE, tree)
       /\ x.stage = "applied" =>
            \A p \in DOMAIN x.new : p \in DOMAIN tree /\ tree[p] = x.new[p]

Pending == fix # None /\ fix.stage # "done" => VerdictStands(fix, repo)

PlaneInv == TreeOK /\ AnalysisOK /\ Fresh /\ FixOK /\ Pending

LEMMA PlaneInvInit == PlaneInit => PlaneInv
  <1> SUFFICES ASSUME PlaneInit PROVE PlaneInv
    OBVIOUS
  <1>1. TreeOK
    BY ContentsAssumption DEF PlaneInit, TreeOK, Readable
  <1>2. AnalysisOK /\ Fresh
    BY DEF PlaneInit, NoAnalysis, AnalysisOK, Fresh
  <1> QED  BY <1>1, <1>2 DEF PlaneInit, PlaneInv, FixOK, Pending

\* What a pass that was answered returns of the agents it paired.
PassResult(label, colocated, answered, refused) ==
    [candidates |-> {ScopeCandidate(s, label) :
                        s \in filter_scopes_explained(answered, colocated, refused)},
     dropped |-> {s.name : s \in answered \intersect refused},
     gap |-> FALSE, colocated |-> colocated, edited |-> {}]

\* A pass returns nothing, or the candidates of the agents it kept.
LEMMA Passes ==
    ASSUME NEW tree, NEW exclude, NEW result \in analyze_tool_plane(tree, exclude)
    PROVE  \/ result \in {NoAnalysis, [NoAnalysis EXCEPT !.gap = TRUE]}
           \/ \E label, colocated, answered, refused :
                 /\ label \in Labels
                 /\ colocated = colocated_scopes(discover_scopes(tree, exclude), label)
                 /\ refused \subseteq answered /\ answered \subseteq colocated
                 /\ result = PassResult(label, colocated, answered, refused)
  <1> DEFINE colocated(label) == colocated_scopes(discover_scopes(tree, exclude), label)
             Heard(label) ==
                {a \in SUBSET colocated(label) : Cardinality(colocated(label) \ a) <= MaxSilent}
             Answered(label) ==
                UNION {{PassResult(label, colocated(label), answered, refused) :
                            refused \in SUBSET answered} : answered \in Heard(label)}
  <1>1. analyze_tool_plane(tree, exclude)
           = {NoAnalysis, [NoAnalysis EXCEPT !.gap = TRUE]}
               \union UNION {Answered(label) : label \in Labels}
    BY DEF analyze_tool_plane, PassResult
  <1>2. ASSUME NEW label \in Labels, result \in Answered(label)
        PROVE  \E answered, refused :
                  /\ refused \subseteq answered /\ answered \subseteq colocated(label)
                  /\ result = PassResult(label, colocated(label), answered, refused)
    <2> HIDE DEF colocated
    <2>1. PICK answered \in Heard(label) :
             result \in {PassResult(label, colocated(label), answered, refused) :
                            refused \in SUBSET answered}
      BY <1>2
    <2> QED  BY <2>1
  <1> HIDE DEF Answered
  <1>3. \/ result \in {NoAnalysis, [NoAnalysis EXCEPT !.gap = TRUE]}
        \/ \E label \in Labels : result \in Answered(label)
    BY <1>1
  <1> QED  BY <1>2, <1>3

\* A candidate is the agent it was made of.
LEMMA CandidateFields ==
    ASSUME NEW s, NEW label
    PROVE  LET c == ScopeCandidate(s, label)
           IN /\ c.scope = s.name /\ c.file = s.file /\ c.at = s.at
              /\ c.source = sources(s, label) /\ c.sink = sinks(s, label)
              /\ c.source \subseteq s.tools /\ c.sink \subseteq s.tools
  BY DEF ScopeCandidate, sources, sinks

\* An analysis leaves its candidates fresh.
LEMMA AnalyzeStep == PlaneInv /\ Analyze => PlaneInv'
  <1> SUFFICES ASSUME PlaneInv, Analyze PROVE PlaneInv'
    OBVIOUS
  <1>1. TreeOK' /\ (fix' = None)
    BY DEF PlaneInv, TreeOK, Analyze
  <1>2. PICK exclude \in Exclusions : analysis' \in analyze_tool_plane(repo, exclude)
    BY DEF Analyze
  <1>3. CASE analysis' \in {NoAnalysis, [NoAnalysis EXCEPT !.gap = TRUE]}
    <2>1. AnalysisOK' /\ analysis'.candidates = {}
      BY <1>3 DEF NoAnalysis, AnalysisOK
    <2> QED  BY <1>1, <2>1 DEF PlaneInv, Fresh, FixOK, Pending
  <1>4. ASSUME NEW label, NEW answered, NEW refused, NEW colocated,
               colocated = colocated_scopes(discover_scopes(repo, exclude), label),
               analysis' = PassResult(label, colocated, answered, refused)
        PROVE  PlaneInv'
    <2>1. AnalysisOK'
      BY <1>4 DEF AnalysisOK, PassResult
    <2>2. ASSUME NEW c \in analysis'.candidates
          PROVE  /\ c.file \in DOMAIN repo
                 /\ \E s \in scopes_of(repo[c.file], c.file) :
                       s.name = c.scope /\ c.source \union c.sink \subseteq s.tools
      <3>1. PICK s \in discover_scopes(repo, exclude) : c = ScopeCandidate(s, label)
        BY <1>4, <2>2 DEF PassResult, filter_scopes_explained, colocated_scopes
      <3>2. s.file \in DOMAIN repo /\ s \in scopes_of(repo[s.file], s.file)
        BY FoundInItsFile
      <3> QED  BY <3>1, <3>2, CandidateFields
    <2>3. repo' = repo
      BY DEF Analyze
    <2> QED  BY <1>1, <2>1, <2>2, <2>3 DEF PlaneInv, Fresh, FixOK, Pending
  <1> QED  BY <1>2, <1>3, <1>4, Passes

LEMMA ProveToolPlaneStep ==
    ASSUME PlaneInv, NEW c \in analysis.candidates, ProveToolPlane(c)
    PROVE  PlaneInv'
  BY DEF PlaneInv, TreeOK, AnalysisOK, Fresh, FixOK, Pending, VerdictStands, ProveToolPlane

\* The candidate a fix is written for is an agent of the tree, two-sided.
LEMMA SelectedCandidate ==
    ASSUME PlaneInv, NEW handles, NEW exclude, NEW c \in select_candidate(handles, exclude)
    PROVE  /\ TwoSided(c)
           /\ c.file \in DOMAIN repo
           /\ \E s \in scopes_of(repo[c.file], c.file) : s.name = c.scope /\ s.at = c.at
  <1>1. PICK label \in Labels, s \in discover_scopes(repo, exclude) :
           /\ sources(s, label) # {} /\ sinks(s, label) # {}
           /\ c = ScopeCandidate(s, label)
    BY DEF select_candidate, colocated_scopes
  <1>2. s.file \in DOMAIN repo /\ s \in scopes_of(repo[s.file], s.file)
    BY FoundInItsFile
  <1>3. Readable(repo[s.file])
    BY <1>2 DEF PlaneInv, TreeOK
  <1>4. s.tools \subseteq Tool
    BY <1>2, <1>3, ScopeTools
  <1> QED  BY <1>1, <1>2, <1>4, CandidateFields DEF TwoSided

LEMMA FixStep ==
    ASSUME PlaneInv, NEW remediation \in Leaves, NEW given \in BOOLEAN, Fix(remediation, given)
    PROVE  PlaneInv'
  <1> DEFINE handles == {id(d) : d \in analysis.candidates}
  <1>0. PICK exclude \in Exclusions : \E c \in select_candidate(handles, exclude) :
           fix' = [candidate |-> c, remediation |-> remediation,
                   new |-> generate_tool_plane_fix(c, remediation), given |-> given,
                   status |-> reverify_tool_plane(c, remediation,
                                 generate_tool_plane_fix(c, remediation), given, repo),
                   stage |-> "written"]
    BY DEF Fix
  <1>1. PICK c \in select_candidate(handles, exclude) :
           fix' = [candidate |-> c, remediation |-> remediation,
                   new |-> generate_tool_plane_fix(c, remediation), given |-> given,
                   status |-> reverify_tool_plane(c, remediation,
                                 generate_tool_plane_fix(c, remediation), given, repo),
                   stage |-> "written"]
    BY <1>0
  <1>2. repo' = repo /\ analysis' = analysis
    BY DEF Fix
  <1>3. /\ TwoSided(c)
        /\ c.file \in DOMAIN repo
        /\ \E s \in scopes_of(repo[c.file], c.file) : s.name = c.scope /\ s.at = c.at
    BY SelectedCandidate
  <1>4. FixOK'
    BY <1>1, <1>2, <1>3 DEF FixOK
  <1>5. VerdictStands(fix, repo)'
    BY <1>1, <1>2, <1>3 DEF VerdictStands
  <1> QED  BY <1>2, <1>4, <1>5 DEF PlaneInv, TreeOK, AnalysisOK, Fresh, Pending

LEMMA ApplyStep == PlaneInv /\ Apply => PlaneInv'
  <1> SUFFICES ASSUME PlaneInv, Apply PROVE PlaneInv'
    OBVIOUS
  <1> DEFINE new == fix.new
             c == fix.candidate
  <1>1. /\ fix # None /\ fix.stage = "written"
        /\ repo' = Written(new, repo)
        /\ fix' = [fix EXCEPT !.stage = "applied"]
        /\ analysis' = [analysis EXCEPT !.edited = @ \union DOMAIN new]
    BY DEF Apply
  <1>2. /\ fix' = [candidate |-> c, remediation |-> fix.remediation, new |-> new,
                   given |-> fix.given, status |-> fix.status, stage |-> "applied"]
        /\ fix.remediation \in Leaves
        /\ new = generate_tool_plane_fix(c, fix.remediation)
        /\ TwoSided(c)
        /\ c.file \in DOMAIN repo
    BY <1>1 DEF PlaneInv, FixOK
  <1>3. /\ DOMAIN repo' = DOMAIN new \union DOMAIN repo
        /\ repo' = [p \in DOMAIN repo' |-> repo'[p]]
        /\ \A p \in DOMAIN new : repo'[p] = new[p]
        /\ \A p \in DOMAIN repo \ DOMAIN new : repo'[p] = repo[p]
    <2> DEFINE W == Written(new, repo)
    <2> HIDE DEF new
    <2>1. /\ DOMAIN W = DOMAIN new \union DOMAIN repo
          /\ W = [p \in DOMAIN W |-> W[p]]
          /\ \A p \in DOMAIN new : W[p] = new[p]
          /\ \A p \in DOMAIN repo \ DOMAIN new : W[p] = repo[p]
      BY WrittenFiles
    <2>2. repo' = W
      BY <1>1
    <2> HIDE DEF W
    <2> QED  BY <2>1, <2>2
  <1>4. \A p \in DOMAIN new : Readable(new[p])
    BY <1>2, FixFiles
  <1>5. TreeOK'
    <2>1. \A f \in DOMAIN repo' : Readable(repo'[f])
      BY <1>3, <1>4 DEF PlaneInv, TreeOK
    <2> QED  BY <1>3, <2>1 DEF TreeOK
  <1>6. /\ AnalysisOK'
        /\ analysis'.candidates = analysis.candidates
        /\ analysis'.edited = analysis.edited \union DOMAIN new
    BY <1>1 DEF PlaneInv, AnalysisOK
  <1>7. Fresh'
    <2> SUFFICES ASSUME NEW d \in analysis.candidates,
                        d.file \notin analysis.edited, d.file \notin DOMAIN new
                 PROVE  /\ d.file \in DOMAIN repo'
                        /\ \E s \in scopes_of(repo'[d.file], d.file) :
                              s.name = d.scope /\ d.source \union d.sink \subseteq s.tools
      BY <1>6 DEF Fresh
    <2> QED  BY <1>3 DEF PlaneInv, Fresh
  <1>8. FixOK'
    BY <1>2, <1>3 DEF FixOK
  <1>9. VerdictStands(fix', repo')
    <2>1. VerdictStands(fix, repo)
      BY <1>1 DEF PlaneInv, Pending
    <2>2. c.file \notin DOMAIN new =>
             \E s \in scopes_of(repo'[c.file], c.file) : s.name = c.scope /\ s.at = c.at
      BY <1>2, <1>3, <2>1 DEF VerdictStands
    <2>3. reverify_tool_plane(c, fix.remediation, new, TRUE, repo')
             = reverify_tool_plane(c, fix.remediation, new, TRUE, repo)
      <3>1. SameElsewhere(DOMAIN new, repo, repo')
        BY <1>3 DEF SameElsewhere
      <3> HIDE DEF new, c
      <3> QED  BY <3>1, VerdictElsewhere
    <2>4. fix.given = TRUE =>
             fix.status = reverify_tool_plane(c, fix.remediation, new, TRUE, repo)
      BY <2>1 DEF VerdictStands
    <2>5. /\ fix'.candidate = c /\ fix'.remediation = fix.remediation /\ fix'.new = new
          /\ fix'.given = fix.given /\ fix'.status = fix.status
      BY <1>2
    <2> HIDE DEF new, c
    <2> QED  BY <1>3, <2>2, <2>3, <2>4, <2>5 DEF VerdictStands
  <1> QED  BY <1>5, <1>6, <1>7, <1>8, <1>9 DEF PlaneInv, Pending

\* What taking the replaced agent out does to the tree: the fix's files stay as
\* they are and so do the others but the agent's own, which loses that agent.
LEMMA RetiredTree ==
    ASSUME PlaneInv, RetireAgent
    PROVE  /\ DOMAIN repo' = DOMAIN repo
           /\ repo' = [f \in DOMAIN repo' |-> repo'[f]]
           /\ \A f \in DOMAIN repo :
                 f # fix.candidate.file \/ f \in DOMAIN fix.new => repo'[f] = repo[f]
           /\ fix.candidate.file \notin DOMAIN fix.new =>
                 repo'[fix.candidate.file]
                   = Stripped(repo[fix.candidate.file], fix.candidate.at)
  <1> DEFINE c == fix.candidate
             W == Without(repo, c)
  <1>1. repo' = IF c.file \in DOMAIN fix.new THEN repo ELSE W
    BY DEF RetireAgent
  <1>2. c.file \in DOMAIN repo /\ repo = [f \in DOMAIN repo |-> repo[f]]
    BY DEF RetireAgent, PlaneInv, FixOK, TreeOK
  <1> HIDE DEF c
  <1>3. /\ DOMAIN W = DOMAIN repo
        /\ W = [f \in DOMAIN repo |-> W[f]]
        /\ W[c.file] = Stripped(repo[c.file], c.at)
        /\ \A f \in DOMAIN repo : f # c.file => W[f] = repo[f]
    BY <1>2, WithoutStrips
  <1> HIDE DEF W
  <1> QED  BY <1>1, <1>2, <1>3 DEF c

\* The replaced agent is in the file until then.
LEMMA ReplacedAgent ==
    ASSUME PlaneInv, RetireAgent, fix.candidate.file \notin DOMAIN fix.new
    PROVE  /\ Readable(repo[fix.candidate.file])
           /\ \E s \in scopes_of(repo[fix.candidate.file], fix.candidate.file) :
                 s.name = fix.candidate.scope /\ s.at = fix.candidate.at
  BY DEF RetireAgent, PlaneInv, TreeOK, FixOK, Pending, VerdictStands

LEMMA RetireAgentStep == PlaneInv /\ RetireAgent => PlaneInv'
  <1> SUFFICES ASSUME PlaneInv, RetireAgent PROVE PlaneInv'
    OBVIOUS
  <1> DEFINE c == fix.candidate
  <1>1. /\ fix # None
        /\ fix' = [fix EXCEPT !.stage = "done"]
        /\ analysis' = [analysis EXCEPT !.edited = @ \union {c.file}]
    BY DEF RetireAgent
  <1>2. /\ DOMAIN repo' = DOMAIN repo
        /\ repo' = [f \in DOMAIN repo' |-> repo'[f]]
        /\ \A f \in DOMAIN repo : f # c.file \/ f \in DOMAIN fix.new => repo'[f] = repo[f]
        /\ c.file \notin DOMAIN fix.new => repo'[c.file] = Stripped(repo[c.file], c.at)
    BY RetiredTree
  <1>3. ASSUME c.file \notin DOMAIN fix.new
        PROVE  Readable(repo'[c.file])
    <2>1. /\ Readable(repo[c.file])
          /\ \E s \in scopes_of(repo[c.file], c.file) : s.at = c.at
      BY <1>3, ReplacedAgent
    <2> HIDE DEF c
    <2>2. Readable(Stripped(repo[c.file], c.at))
      BY <2>1, StrippedFile
    <2> QED  BY <1>2, <1>3, <2>2
  <1>4. TreeOK'
    <2>1. \A f \in DOMAIN repo' : Readable(repo'[f])
      BY <1>2, <1>3 DEF PlaneInv, TreeOK
    <2> QED  BY <1>2, <2>1 DEF TreeOK
  <1>5. /\ AnalysisOK'
        /\ analysis'.candidates = analysis.candidates
        /\ analysis'.edited = analysis.edited \union {c.file}
    BY <1>1 DEF PlaneInv, AnalysisOK
  <1>6. Fresh'
    <2> SUFFICES ASSUME NEW d \in analysis.candidates,
                        d.file \notin analysis.edited, d.file # c.file
                 PROVE  /\ d.file \in DOMAIN repo'
                        /\ \E s \in scopes_of(repo'[d.file], d.file) :
                              s.name = d.scope /\ d.source \union d.sink \subseteq s.tools
      BY <1>5 DEF Fresh
    <2> QED  BY <1>2 DEF PlaneInv, Fresh
  <1>7. /\ fix' = [candidate |-> c, remediation |-> fix.remediation, new |-> fix.new,
                   given |-> fix.given, status |-> fix.status, stage |-> "done"]
        /\ fix.remediation \in Leaves
        /\ fix.new = generate_tool_plane_fix(c, fix.remediation)
        /\ TwoSided(c)
        /\ c.file \in DOMAIN repo
    BY <1>1 DEF PlaneInv, FixOK
  <1>8. FixOK' /\ Pending'
    BY <1>2, <1>7 DEF FixOK, Pending
  <1> QED  BY <1>4, <1>5, <1>6, <1>8 DEF PlaneInv

LEMMA EditStep ==
    ASSUME PlaneInv, NEW f \in File, NEW content \in Contents, Edit(f, content)
    PROVE  PlaneInv'
  <1>1. /\ repo' = [repo EXCEPT ![f] = content]
        /\ analysis' = [analysis EXCEPT !.edited = @ \union {f}]
        /\ fix' = None
    BY DEF Edit
  <1>2. Readable(content)
    BY ContentsAssumption DEF Readable
  <1>3. /\ DOMAIN repo' = DOMAIN repo
        /\ repo' = [g \in DOMAIN repo' |-> repo'[g]]
        /\ \A g \in DOMAIN repo : repo'[g] = IF g = f THEN content ELSE repo[g]
    BY <1>1 DEF PlaneInv, TreeOK
  <1>4. TreeOK'
    <2>1. \A g \in DOMAIN repo' : Readable(repo'[g])
      BY <1>2, <1>3 DEF PlaneInv, TreeOK
    <2> QED  BY <1>3, <2>1 DEF TreeOK
  <1>5. /\ AnalysisOK'
        /\ analysis'.candidates = analysis.candidates
        /\ analysis'.edited = analysis.edited \union {f}
    BY <1>1 DEF PlaneInv, AnalysisOK
  <1>6. Fresh'
    <2> SUFFICES ASSUME NEW d \in analysis.candidates,
                        d.file \notin analysis.edited, d.file # f
                 PROVE  /\ d.file \in DOMAIN repo'
                        /\ \E s \in scopes_of(repo'[d.file], d.file) :
                              s.name = d.scope /\ d.source \union d.sink \subseteq s.tools
      BY <1>5 DEF Fresh
    <2> QED  BY <1>3 DEF PlaneInv, Fresh
  <1> QED  BY <1>1, <1>4, <1>5, <1>6 DEF PlaneInv, FixOK, Pending

LEMMA PlaneInvStep == PlaneInv /\ [PlaneNext]_planevars => PlaneInv'
  <1> SUFFICES ASSUME PlaneInv, [PlaneNext]_planevars PROVE PlaneInv'
    OBVIOUS
  <1>1. CASE Analyze
    BY <1>1, AnalyzeStep
  <1>2. CASE \E c \in analysis.candidates : ProveToolPlane(c)
    BY <1>2, ProveToolPlaneStep
  <1>3. CASE \E remediation \in {resolve_tool_plane_fix(a) : a \in Answer}, given \in BOOLEAN :
                Fix(remediation, given)
    <2>1. PICK remediation \in {resolve_tool_plane_fix(a) : a \in Answer}, given \in BOOLEAN :
             Fix(remediation, given)
      BY <1>3
    <2>2. remediation \in Leaves
      BY InterviewLeaves
    <2> QED  BY <2>1, <2>2, FixStep
  <1>4. CASE Apply
    BY <1>4, ApplyStep
  <1>5. CASE RetireAgent
    BY <1>5, RetireAgentStep
  <1>6. CASE \E f \in File, content \in Contents : Edit(f, content)
    BY <1>6, EditStep
  <1>7. CASE UNCHANGED planevars
    BY <1>7 DEF planevars, PlaneInv, TreeOK, AnalysisOK, Fresh, FixOK, Pending, VerdictStands
  <1> QED  BY <1>1, <1>2, <1>3, <1>4, <1>5, <1>6, <1>7 DEF PlaneNext

LEMMA PlaneInvariant == PlaneSpec => []PlaneInv
  BY PlaneInvInit, PlaneInvStep, PTL DEF PlaneSpec

-----------------------------------------------------------------------------
(* The report and the agent stood up.                                      *)

\* The candidates and the dropped of a pass are the agents it paired.
LEMMA PassAccounts ==
    ASSUME NEW tree, NEW exclude, NEW result \in analyze_tool_plane(tree, exclude)
    PROVE  {s.name : s \in result.colocated}
             = {c.scope : c \in result.candidates} \union result.dropped
  <1>1. CASE result \in {NoAnalysis, [NoAnalysis EXCEPT !.gap = TRUE]}
    BY <1>1 DEF NoAnalysis
  <1>2. ASSUME NEW label, NEW colocated, NEW answered, NEW refused,
               refused \subseteq answered, answered \subseteq colocated,
               result = PassResult(label, colocated, answered, refused)
        PROVE  {s.name : s \in result.colocated}
                 = {c.scope : c \in result.candidates} \union result.dropped
    <2> DEFINE staying == filter_scopes_explained(answered, colocated, refused)
    <2>1. staying \union (answered \intersect refused) = colocated
      BY <1>2 DEF filter_scopes_explained
    <2> HIDE DEF staying
    <2>2. {c.scope : c \in {ScopeCandidate(s, label) : s \in staying}} = {s.name : s \in staying}
      <3>1. \A s : ScopeCandidate(s, label).scope = s.name
        BY DEF ScopeCandidate
      <3>2. ASSUME NEW x
            PROVE  (\E c \in {ScopeCandidate(s, label) : s \in staying} : x = c.scope)
                      <=> \E s \in staying : x = s.name
        BY <3>1
      <3> QED  BY <3>2
    <2>3. /\ result.candidates = {ScopeCandidate(s, label) : s \in staying}
          /\ result.dropped = {s.name : s \in answered \intersect refused}
          /\ result.colocated = colocated
      BY <1>2 DEF staying, PassResult
    <2> DEFINE refusals == answered \intersect refused
    <2>4. {s.name : s \in colocated} = {s.name : s \in staying} \union {s.name : s \in refusals}
      <3> HIDE DEF refusals
      <3>1. staying \union refusals = colocated
        BY <2>1 DEF refusals
      <3>2. ASSUME NEW x
            PROVE  (\E s \in colocated : x = s.name)
                      <=> (\E s \in staying : x = s.name) \/ (\E s \in refusals : x = s.name)
        BY <3>1
      <3> QED  BY <3>2
    <2>5. {c.scope : c \in result.candidates} = {s.name : s \in staying}
      BY <2>2, <2>3
    <2> QED  BY <2>3, <2>4, <2>5
  <1> QED  BY <1>1, <1>2, Passes

(* Every agent a pass paired is a candidate or is named among the dropped     *)
(* ones, whatever the model answers and leaves out                            *)
(* (`filter_scopes_explained`, `analyze_tool_plane`).                         *)
THEOREM PairsAreAccountedFor == PlaneSpec => []EveryPairIsAccountedFor
  <1>1. PlaneInit => EveryPairIsAccountedFor
    BY DEF PlaneInit, NoAnalysis, EveryPairIsAccountedFor
  <1>2. PlaneInv /\ EveryPairIsAccountedFor /\ [PlaneNext]_planevars
          => EveryPairIsAccountedFor'
    <2> SUFFICES ASSUME PlaneInv, EveryPairIsAccountedFor, [PlaneNext]_planevars
                 PROVE  EveryPairIsAccountedFor'
      OBVIOUS
    <2>1. CASE Analyze
      <3>1. PICK exclude \in Exclusions : analysis' \in analyze_tool_plane(repo, exclude)
        BY <2>1 DEF Analyze
      <3>2. PICK result : result = analysis'
        OBVIOUS
      <3> QED  BY <3>1, <3>2, PassAccounts DEF EveryPairIsAccountedFor
    <2>2. ASSUME NEW written, analysis' = [analysis EXCEPT !.edited = written]
          PROVE  EveryPairIsAccountedFor'
      <3>1. /\ analysis'.candidates = analysis.candidates
            /\ analysis'.dropped = analysis.dropped
            /\ analysis'.colocated = analysis.colocated
        BY <2>2 DEF PlaneInv, AnalysisOK
      <3> QED  BY <3>1 DEF EveryPairIsAccountedFor
    <2>3. CASE analysis' = analysis
      BY <2>3 DEF EveryPairIsAccountedFor
    <2> QED  BY <2>1, <2>2, <2>3
             DEF PlaneNext, planevars, ProveToolPlane, Fix, Apply, RetireAgent, Edit
  <1> QED  BY <1>1, <1>2, PlaneInvariant, PTL DEF PlaneSpec

(* While a file stays as the analysis read it, the agent stood up for one of  *)
(* its candidates holds the candidate's tools: `prove` finds the agents again *)
(* and takes one of the candidate's name and file (`_scope_for`), and an      *)
(* agent that is not code is alone in its file.                               *)
THEOREM TurnedAgents == PlaneSpec => []TurnedAgentHoldsThePair
  <1>1. PlaneInit => TurnedAgentHoldsThePair
    BY DEF PlaneInit, TurnedAgentHoldsThePair
  <1>2. PlaneInv /\ TurnedAgentHoldsThePair /\ [PlaneNext]_planevars
          => TurnedAgentHoldsThePair'
    <2> SUFFICES ASSUME PlaneInv, TurnedAgentHoldsThePair, [PlaneNext]_planevars
                 PROVE  TurnedAgentHoldsThePair'
      OBVIOUS
    <2>1. CASE finding' = None
      BY <2>1 DEF TurnedAgentHoldsThePair
    <2>2. ASSUME NEW c \in analysis.candidates, ProveToolPlane(c)
          PROVE  TurnedAgentHoldsThePair'
      <3>1. analysis' = analysis
        BY <2>2 DEF ProveToolPlane
      <3>2. CASE finding' = [candidate |-> c, status |-> "REPORTED", agent |-> None]
        BY <3>2 DEF TurnedAgentHoldsThePair
      <3>3. ASSUME NEW status, NEW s \in scope_for(c, discover_scopes(repo, {})), ~s.coded,
                   finding' = [candidate |-> c, status |-> status, agent |-> s]
            PROVE  TurnedAgentHoldsThePair'
        <4> SUFFICES ASSUME c.file \notin analysis.edited
                     PROVE  c.source \union c.sink \subseteq s.tools
          BY <3>1, <3>3 DEF TurnedAgentHoldsThePair
        <4>1. PICK t \in scopes_of(repo[c.file], c.file) :
                 t.name = c.scope /\ c.source \union c.sink \subseteq t.tools
          BY DEF PlaneInv, Fresh
        <4>2. s \in discover_scopes(repo, {}) /\ s.file = c.file
          BY DEF scope_for
        <4>3. s \in scopes_of(repo[c.file], c.file)
          BY <4>2, FoundInItsFile
        <4>4. t = s
          BY <3>3, <4>3, UncodedIsAlone
        <4> QED  BY <4>1, <4>4
      <3> QED  BY <2>2, <3>2, <3>3 DEF ProveToolPlane
    <2>3. CASE finding' = finding /\ analysis.edited \subseteq analysis'.edited
      BY <2>3 DEF TurnedAgentHoldsThePair
    <2>4. ASSUME NEW files, analysis' = [analysis EXCEPT !.edited = @ \union files]
          PROVE  analysis.edited \subseteq analysis'.edited
      BY <2>4 DEF PlaneInv, AnalysisOK
    <2> QED  BY <2>1, <2>2, <2>3, <2>4
             DEF PlaneNext, planevars, Analyze, Fix, Apply, RetireAgent, Edit
  <1> QED  BY <1>1, <1>2, PlaneInvariant, PTL DEF PlaneSpec

-----------------------------------------------------------------------------
(* The verdict of a split.                                                 *)

\* The agents of the tree a split leaves, file by file.
LEMMA AgentsAfterTheSplit ==
    ASSUME PlaneInv, RetireAgent, NEW s
    PROVE  LET c == fix.candidate
           IN /\ s.file \in DOMAIN fix.new =>
                    (s \in discover_scopes(repo', {}) <=> s \in Added(fix.new))
              /\ s.file \notin DOMAIN fix.new /\ s.file # c.file =>
                    (s \in discover_scopes(repo', {}) <=> s \in discover_scopes(repo, {}))
              /\ s.file \notin DOMAIN fix.new /\ s.file = c.file =>
                    /\ s \in discover_scopes(repo', {}) /\ s.tools # {} =>
                          s \in discover_scopes(repo, {}) /\ s.at # c.at
                    /\ s \in discover_scopes(repo, {}) /\ s.name # c.scope =>
                          s \in discover_scopes(repo', {})
  <1> DEFINE c == fix.candidate
             new == fix.new
  <1>1. /\ DOMAIN repo' = DOMAIN repo
        /\ \A f \in DOMAIN repo : f # c.file \/ f \in DOMAIN new => repo'[f] = repo[f]
        /\ c.file \notin DOMAIN new => repo'[c.file] = Stripped(repo[c.file], c.at)
    BY RetiredTree
  <1>2. \A p \in DOMAIN new : p \in DOMAIN repo /\ repo[p] = new[p]
    BY DEF RetireAgent, PlaneInv, Pending, VerdictStands
  <1>3. c.file \in DOMAIN repo
    BY DEF RetireAgent, PlaneInv, FixOK
  <1>4. s \in discover_scopes(repo, {}) <=>
           s.file \in DOMAIN repo \ {} /\ s \in scopes_of(repo[s.file], s.file)
    BY FoundInItsFile
  <1>5. s \in discover_scopes(repo', {}) <=>
           s.file \in DOMAIN repo' \ {} /\ s \in scopes_of(repo'[s.file], s.file)
    <2>1. PICK after : after = repo'
      OBVIOUS
    <2> QED  BY <2>1, FoundInItsFile
  <1>6. s \in Added(new) <=> s.file \in DOMAIN new /\ s \in scopes_of(new[s.file], s.file)
    BY AddedAgents
  <1>7. ASSUME c.file \notin DOMAIN new, s.file = c.file
        PROVE  /\ s \in discover_scopes(repo', {}) /\ s.tools # {} =>
                     s \in discover_scopes(repo, {}) /\ s.at # c.at
               /\ s \in discover_scopes(repo, {}) /\ s.name # c.scope =>
                     s \in discover_scopes(repo', {})
    <2>1. Readable(repo[c.file])
      BY <1>7, ReplacedAgent
    <2>2. PICK r \in scopes_of(repo[c.file], c.file) : r.name = c.scope /\ r.at = c.at
      BY <1>7, ReplacedAgent
    <2> HIDE DEF c, new
    <2>3. /\ \A t \in scopes_of(Stripped(repo[c.file], r.at), c.file) :
                t.tools = {} \/ (t \in scopes_of(repo[c.file], c.file) /\ t.at # r.at)
          /\ \A t \in scopes_of(repo[c.file], c.file) :
                t.at # r.at => t \in scopes_of(Stripped(repo[c.file], r.at), c.file)
      BY <2>1, StrippedFile
    <2>4. s \in scopes_of(repo[c.file], c.file) /\ s.at = r.at => s = r
      BY <2>1, OneScopePerPlace
    <2> QED  BY <1>1, <1>3, <1>4, <1>5, <1>7, <2>2, <2>3, <2>4
  <1> HIDE DEF c, new
  <1>8. s.file \in DOMAIN new =>
           (s \in discover_scopes(repo', {}) <=> s \in Added(new))
    BY <1>1, <1>2, <1>5, <1>6
  <1>9. s.file \notin DOMAIN new /\ s.file # c.file =>
           (s \in discover_scopes(repo', {}) <=> s \in discover_scopes(repo, {}))
    BY <1>1, <1>4, <1>5
  <1> QED  BY <1>7, <1>8, <1>9 DEF c, new

\* What the verdict of the split a developer carries through says.
LEMMA VerdictOfTheSplit ==
    ASSUME PlaneInv, RetireAgent, fix.given = TRUE
    PROVE  fix.status = "FIXED" <=>
              /\ \A s \in Added(fix.new) : ~pairs(s, fix.candidate)
              /\ \A s \in discover_scopes(repo, {}) :
                    /\ s.file \notin DOMAIN fix.new
                    /\ ~(s.name = fix.candidate.scope /\ s.file = fix.candidate.file)
                    => ~pairs(s, fix.candidate)
  <1>1. fix # None /\ fix.stage = "applied" /\ fix.remediation = "scope_split"
    BY DEF RetireAgent
  <1>2. /\ fix.new = generate_tool_plane_fix(fix.candidate, "scope_split")
        /\ TwoSided(fix.candidate)
    BY <1>1 DEF PlaneInv, FixOK
  <1>3. Added(fix.new) # {} \/ ReadBack(fix.candidate.source) = {}
    BY <1>2, FixFiles DEF Leaves
  <1>4. fix.status
          = reverify_tool_plane(fix.candidate, "scope_split", fix.new, TRUE, repo)
    BY <1>1 DEF PlaneInv, Pending, VerdictStands
  <1> QED  BY <1>3, <1>4, SplitVerdict

\* Names that survive are read back as they were.
LEMMA NamesReadBack ==
    ASSUME NEW c, NamesSurvive(c)
    PROVE  ReadBack(c.source) = c.source /\ ReadBack(c.sink) = c.sink
  BY DEF NamesSurvive, ReadBack

\* Only one step leaves a split done.
LEMMA DoneByRetiring ==
    ASSUME PlaneInv, [PlaneNext]_planevars, fix' # None, fix'.stage = "done"
    PROVE  RetireAgent \/ (fix' = fix /\ repo' = repo)
  <1>1. CASE \E remediation, given : Fix(remediation, given)
    <2>1. fix'.stage = "written"
      BY <1>1 DEF Fix
    <2> QED  BY <2>1
  <1>2. CASE Apply
    <2>1. fix'.stage = "applied"
      BY <1>2 DEF Apply, PlaneInv, FixOK
    <2> QED  BY <2>1
  <1> QED  BY <1>1, <1>2 DEF PlaneNext, planevars, Analyze, ProveToolPlane, Edit

(* A split called FIXED is one: when its manifests are written and the agent  *)
(* it replaces is taken out, no agent of the tree holds a source and a sink   *)
(* of the finding, provided the tools' names are read back as they were and   *)
(* no twin bears the agent's name in its file (`reverify_tool_plane`).        *)
THEOREM SplitsClose == PlaneSpec => []SplitClosesThePairing
  <1>1. PlaneInit => SplitClosesThePairing
    BY DEF PlaneInit, SplitClosesThePairing
  <1>2. PlaneInv /\ SplitClosesThePairing /\ [PlaneNext]_planevars => SplitClosesThePairing'
    <2> SUFFICES ASSUME PlaneInv, SplitClosesThePairing, [PlaneNext]_planevars,
                        fix' # None, fix'.stage = "done"
                 PROVE  SplitClosesThePairing'
      BY DEF SplitClosesThePairing
    <2>1. CASE fix' = fix /\ repo' = repo
      BY <2>1 DEF SplitClosesThePairing, HasTwin
    <2>2. CASE RetireAgent
      <3>1. PICK c, new : c = fix.candidate /\ new = fix.new
        OBVIOUS
      <3>2. /\ fix'.candidate = c /\ fix'.given = fix.given /\ fix'.status = fix.status
        BY <2>2, <3>1 DEF RetireAgent, PlaneInv, FixOK
      <3>3. PICK after : after = discover_scopes(repo', {})
        OBVIOUS
      <3> SUFFICES ASSUME fix.status = "FIXED", fix.given = TRUE, NamesSurvive(c),
                          ~(\E s \in after : s.file = c.file /\ s.name = c.scope /\ s.at # c.at),
                          NEW s \in after, HoldsThePair(s, c)
                   PROVE  FALSE
        BY <3>2, <3>3 DEF SplitClosesThePairing, HasTwin
      <3>4. pairs(s, c)
        BY NamesReadBack DEF HoldsThePair, pairs
      <3>5. s.tools # {}
        BY DEF HoldsThePair
      <3>6. /\ \A t \in Added(new) : ~pairs(t, c)
            /\ \A t \in discover_scopes(repo, {}) :
                  /\ t.file \notin DOMAIN new
                  /\ ~(t.name = c.scope /\ t.file = c.file)
                  => ~pairs(t, c)
        BY <2>2, <3>1, VerdictOfTheSplit
      <3>7. /\ s.file \in DOMAIN new => s \in Added(new)
            /\ s.file \notin DOMAIN new /\ s.file # c.file => s \in discover_scopes(repo, {})
            /\ s.file \notin DOMAIN new /\ s.file = c.file =>
                  s \in discover_scopes(repo, {}) /\ s.at # c.at
        BY <2>2, <3>1, <3>3, <3>5, AgentsAfterTheSplit
      <3> QED  BY <3>4, <3>6, <3>7
    <2> QED  BY <2>1, <2>2, DoneByRetiring
  <1> QED  BY <1>1, <1>2, PlaneInvariant, PTL DEF PlaneSpec

(* A split that leaves no pairing is called FIXED: the re-check, which builds *)
(* the graph before either the manifests or the removal are there, does not   *)
(* find again the hole the split closes (`reverify_tool_plane`).              *)
THEOREM CleanIsFixed == PlaneSpec => []CleanSplitIsFixed
  <1>1. PlaneInit => CleanSplitIsFixed
    BY DEF PlaneInit, CleanSplitIsFixed
  <1>2. PlaneInv /\ CleanSplitIsFixed /\ [PlaneNext]_planevars => CleanSplitIsFixed'
    <2> SUFFICES ASSUME PlaneInv, CleanSplitIsFixed, [PlaneNext]_planevars,
                        fix' # None, fix'.stage = "done"
                 PROVE  CleanSplitIsFixed'
      BY DEF CleanSplitIsFixed
    <2>1. CASE fix' = fix /\ repo' = repo
      BY <2>1 DEF CleanSplitIsFixed
    <2>2. CASE RetireAgent
      <3>1. PICK c, new : c = fix.candidate /\ new = fix.new
        OBVIOUS
      <3>2. /\ fix'.candidate = c /\ fix'.given = fix.given /\ fix'.status = fix.status
        BY <2>2, <3>1 DEF RetireAgent, PlaneInv, FixOK
      <3>3. PICK after : after = discover_scopes(repo', {})
        OBVIOUS
      <3> SUFFICES ASSUME fix.given = TRUE, \A s \in after : ~pairs(s, c)
                   PROVE  fix.status = "FIXED"
        BY <3>2, <3>3 DEF CleanSplitIsFixed
      <3>4. ASSUME NEW s \in Added(new)
            PROVE  ~pairs(s, c)
        <4>1. s.file \in DOMAIN new
          BY AddedAgents
        <4>2. s \in after
          BY <2>2, <3>1, <3>3, <4>1, AgentsAfterTheSplit
        <4> QED  BY <4>2
      <3>5. ASSUME NEW s \in discover_scopes(repo, {}),
                   s.file \notin DOMAIN new, ~(s.name = c.scope /\ s.file = c.file)
            PROVE  ~pairs(s, c)
        <4>1. s \in after
          BY <2>2, <3>1, <3>3, <3>5, AgentsAfterTheSplit
        <4> QED  BY <4>1
      <3> QED  BY <2>2, <3>1, <3>4, <3>5, VerdictOfTheSplit
    <2> QED  BY <2>1, <2>2, DoneByRetiring
  <1> QED  BY <1>1, <1>2, PlaneInvariant, PTL DEF PlaneSpec

\* The agent a fix is asked for is in the tree, with the tools of its candidate.
LEMMA AgentOfTheFix ==
    ASSUME NEW handles, NEW exclude, NEW c \in select_candidate(handles, exclude)
    PROVE  \E s \in discover_scopes(repo, {}) :
              /\ s.name = c.scope /\ s.file = c.file
              /\ c.source \subseteq s.tools /\ c.sink \subseteq s.tools
  <1>1. PICK label \in Labels, s \in discover_scopes(repo, exclude) : c = ScopeCandidate(s, label)
    BY DEF select_candidate, colocated_scopes
  <1>2. s \in discover_scopes(repo, {})
    BY FoundInItsFile
  <1> QED  BY <1>1, <1>2, CandidateFields

\* A fix that is no split takes no agent out, so while the agent it is for is in
\* the graph and known by its tools, the pairing is still there.
LEMMA GateVerdict ==
    ASSUME NEW c, NEW new, NEW given, NEW tree, NEW remediation, remediation # "scope_split",
           NEW s \in Before(c, new, given, tree), s.name = c.scope, pairs(s, c)
    PROVE  reverify_tool_plane(c, remediation, new, given, tree) = "REPORTED"
  <1>1. Retired(c, remediation, new, Before(c, new, given, tree)) = Before(c, new, given, tree)
    BY DEF Retired
  <1> QED  BY <1>1 DEF reverify_tool_plane

(* No gate is called FIXED but one whose re-check lost sight of the agent: in *)
(* a tree, a tool's name fell apart at its comma or lost the blanks around    *)
(* it, or the gate's file is written over the agent's; with no tree, one      *)
(* side's names are nothing but commas and blanks (`reverify_tool_plane`).    *)
THEOREM GatesAreReported == PlaneSpec => []GateIsNotAFix
  <1>1. PlaneInit => GateIsNotAFix
    BY DEF PlaneInit, GateIsNotAFix
  <1>2. PlaneInv /\ GateIsNotAFix /\ [PlaneNext]_planevars => GateIsNotAFix'
    <2> SUFFICES ASSUME PlaneInv, GateIsNotAFix, [PlaneNext]_planevars PROVE GateIsNotAFix'
      OBVIOUS
    <2>1. CASE \E remediation \in {resolve_tool_plane_fix(a) : a \in Answer}, given \in BOOLEAN :
                  Fix(remediation, given)
      <3>1. PICK remediation \in Leaves, given \in BOOLEAN : Fix(remediation, given)
        BY <2>1, InterviewLeaves
      <3> DEFINE handles == {id(d) : d \in analysis.candidates}
      <3>2. PICK exclude \in Exclusions : \E c \in select_candidate(handles, exclude) :
               fix' = [candidate |-> c, remediation |-> remediation,
                       new |-> generate_tool_plane_fix(c, remediation), given |-> given,
                       status |-> reverify_tool_plane(c, remediation,
                                     generate_tool_plane_fix(c, remediation), given, repo),
                       stage |-> "written"]
        BY <3>1 DEF Fix
      <3>3. PICK c \in select_candidate(handles, exclude) :
               fix' = [candidate |-> c, remediation |-> remediation,
                       new |-> generate_tool_plane_fix(c, remediation), given |-> given,
                       status |-> reverify_tool_plane(c, remediation,
                                     generate_tool_plane_fix(c, remediation), given, repo),
                       stage |-> "written"]
        BY <3>2
      <3>4. PICK new : new = generate_tool_plane_fix(c, remediation)
        OBVIOUS
      <3>5. PICK s \in discover_scopes(repo, {}) :
               /\ s.name = c.scope /\ s.file = c.file
               /\ c.source \subseteq s.tools /\ c.sink \subseteq s.tools
        BY AgentOfTheFix
      <3>6. TwoSided(c)
        BY SelectedCandidate
      <3>7. SUFFICES ASSUME remediation # "scope_split",
                            reverify_tool_plane(c, remediation, new, given, repo) = "FIXED"
                     PROVE  /\ given = FALSE => {} \in {ReadBack(c.source), ReadBack(c.sink)}
                            /\ NamesSurvive(c) => given = TRUE /\ c.file \in DOMAIN new
        BY <3>3, <3>4 DEF GateIsNotAFix
      <3>8. given = FALSE => {} \in {ReadBack(c.source), ReadBack(c.sink)}
        <4> SUFFICES ASSUME given = FALSE, ReadBack(c.source) # {}, ReadBack(c.sink) # {}
                     PROVE  FALSE
          OBVIOUS
        <4>1. PICK a : a = AgentScope(c.scope, c.file, 0, ReadBack(c.source \union c.sink), FALSE)
          OBVIOUS
        <4>2. a \in Before(c, new, given, repo) /\ a.name = c.scope
              /\ a.tools = ReadBack(c.source \union c.sink)
          BY <4>1 DEF Before, AgentScope
        <4>3. ReadBack(c.source) \subseteq a.tools /\ ReadBack(c.sink) \subseteq a.tools
          BY <4>2 DEF ReadBack
        <4>4. pairs(a, c)
          BY <4>3 DEF pairs
        <4> QED  BY <3>7, <4>2, <4>4, GateVerdict
      <3>9. ASSUME NamesSurvive(c) PROVE given = TRUE /\ c.file \in DOMAIN new
        <4>1. given = TRUE
          BY <3>6, <3>8, <3>9, NamesReadBack DEF TwoSided
        <4> SUFFICES ASSUME c.file \notin DOMAIN new PROVE FALSE
          BY <4>1
        <4>2. s \in Before(c, new, given, repo)
          BY <3>5, <4>1 DEF Before
        <4>3. pairs(s, c)
          BY <3>5, <3>6, <3>9, NamesReadBack DEF pairs, TwoSided
        <4> QED  BY <3>5, <3>7, <4>2, <4>3, GateVerdict
      <3> QED  BY <3>8, <3>9
    <2>2. CASE Apply \/ RetireAgent
      <3>1. PICK stage : fix # None /\ fix' = [fix EXCEPT !.stage = stage]
        BY <2>2 DEF Apply, RetireAgent
      <3>2. fix = [candidate |-> fix.candidate, remediation |-> fix.remediation, new |-> fix.new,
                   given |-> fix.given, status |-> fix.status, stage |-> fix.stage]
        BY <3>1 DEF PlaneInv, FixOK
      <3>3. /\ fix'.candidate = fix.candidate /\ fix'.new = fix.new /\ fix'.given = fix.given
            /\ fix'.status = fix.status /\ fix'.remediation = fix.remediation
        BY <3>1, <3>2
      <3> QED  BY <3>1, <3>3 DEF GateIsNotAFix
    <2>3. CASE fix' = None \/ fix' = fix
      BY <2>3 DEF GateIsNotAFix
    <2>4. CASE Analyze \/ (\E c \in analysis.candidates : ProveToolPlane(c))
                 \/ (\E f \in File, content \in Contents : Edit(f, content))
      <3>1. fix' = None \/ fix' = fix
        BY <2>4 DEF Analyze, ProveToolPlane, Edit
      <3> QED  BY <2>3, <3>1
    <2>5. CASE UNCHANGED planevars
      BY <2>3, <2>5 DEF planevars
    <2> HIDE DEF PlaneInv, GateIsNotAFix
    <2> QED  BY <2>1, <2>2, <2>4, <2>5 DEF PlaneNext
  <1> QED  BY <1>1, <1>2, PlaneInvariant, PTL DEF PlaneSpec

(* FIXED is not said in vain: of a split it says that the pairing is gone from *)
(* the tree, and of a gate it is said only as above (`reverify_tool_plane`).   *)
THEOREM FixedIsFixed == PlaneSpec => []FixedClosesThePairing
  <1>1. SplitClosesThePairing /\ GateIsNotAFix => FixedClosesThePairing
    BY DEF FixedClosesThePairing
  <1> QED  BY <1>1, SplitsClose, GatesAreReported, PTL

=============================================================================
