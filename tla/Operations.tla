----------------------------- MODULE Operations -----------------------------
(***************************************************************************)
(* The operations composed from a single probe (operations.py): `reprove`  *)
(* re-fires the exploit of one finding at a target somebody has patched,   *)
(* `lockout_check` asks whether the owner still gets in, and `preflight`   *)
(* whether a run could mean anything at all.                               *)
(*                                                                         *)
(* The probes are ProveRun's.  The finding being re-fired is the only      *)
(* candidate of `queue`, `pc` is where its probe is, and `wire` goes on to *)
(* log what an operation asks as the owner.  No plan guards a call.        *)
(***************************************************************************)
EXTENDS ProveRun

VARIABLES
    op,       \* the operation called
    mail,     \* the accounts an email was supplied for
    door,     \* the seed names the route its record is read through
    step,     \* where the operation is
    verdict,  \* reprove: ReproveResult.status, or nothing yet, or for ever if it raised
    checks    \* preflight and lockout_check: what each check said

setup  == <<op, mail, door>>
opvars == <<vars, setup, step, verdict, checks>>

Operation == {"reprove", "lockout", "preflight"}
CheckName == {"ownership", "reachable", "auth_b", "positive_control", "route", "postgrest"}
Steps     == {"called", "refiring", "owner_login", "owner_read", "door", "auth_b", "control", "over"}
Verdicts  == Status \cup {"none", "FIXED", "BROKE_IT_SAFELY"}

ASSUME OperationsAssumption ==
    /\ \A c \in Configs : c.plan = "none"
    /\ \A q \in Queues : Len(q) = 1

OpTypeOK ==
    /\ TypeOK
    /\ op \in Operation
    /\ mail \subseteq Accounts
    /\ door \in BOOLEAN
    /\ step \in Steps
    /\ verdict \in Verdicts
    /\ checks \in [CheckName -> {"none", "passed", "failed", "skipped"}]

\* An earlier run may have left the accounts logged in.
OpInit ==
    /\ cfg \in Configs /\ queue \in Queues /\ seed \in Seeds
    /\ acct \in [Accounts -> {[token |-> FALSE, uid |-> FALSE],
                              [token |-> TRUE, uid |-> TRUE],
                              [token |-> TRUE, uid |-> FALSE]}]
    /\ scopes = "none" /\ attempted = 1 /\ clock = 0 /\ pc = "pick"
    /\ wire = <<>> /\ findings = <<>> /\ blocked = 0 /\ loose = {}
    /\ outcome = NoOutcome
    /\ op \in Operation
    /\ mail \in SUBSET Accounts
    /\ door \in {FALSE, seed # NoSeed}
    /\ step = "called"
    /\ verdict = "none"
    /\ checks = [c \in CheckName |-> "none"]

still == <<cfg, queue, seed, scopes, attempted, clock, blocked, outcome>>

Says(name, what) == checks' = [checks EXCEPT ![name] = what]
Verdict(v)       == step' = "over" /\ verdict' = v
Credentials(a)   == a \in mail \/ acct[a].token

\* The gate every operation asks first.
RefuseTarget ==
    /\ step = "called" /\ ~Allowed
    /\ step' = "over"
    /\ verdict' = IF op = "reprove" THEN "REPORTED" ELSE verdict
    /\ IF op = "preflight" THEN Says("ownership", "failed") ELSE UNCHANGED checks
    /\ UNCHANGED <<vars, setup>>

-----------------------------------------------------------------------------
\* reprove, and second_opinion, which is reprove under another name.

\* _refire.  Whatever is neither a route nor a SQL sink goes to the table probe.
ProbeOf(c) ==
    CASE RoutePlane(c)                 -> "attack_login"
      [] c.check = "CLASSIC_INJECTION" -> "sql_login"
      [] OTHER                         -> "table_login"

Unaimed(c) ==
    CASE RoutePlane(c)                 -> seed = NoSeed \/ ~c.read
      [] c.check = "CLASSIC_INJECTION" -> ~(c.live /\ c.route /\ c.read)
      [] OTHER                         -> TableOf(c) = NoTable

Refire ==
    /\ step = "called" /\ op = "reprove" /\ Allowed
    /\ step' = "refiring"
    /\ UNCHANGED wire
    /\ IF Unaimed(Current) THEN Conclude("REPORTED", FALSE)
                           ELSE pc' = ProbeOf(Current) /\ UNCHANGED findings
    /\ UNCHANGED <<still, acct, loose, setup, verdict, checks>>

Probe ==
    /\ step = "refiring"
    /\ \/ TableLogin \/ TargetedBola \/ UnfilteredRls
       \/ ProberLogin \/ ProveRouteBola \/ OwnerReads \/ ProveSqlInjection
    /\ UNCHANGED <<setup, step, verdict, checks>>

Refired == findings[1]

\* The probe raised, and the exception leaves reprove.
RefireRaises ==
    /\ step = "refiring" /\ pc = "aborted"
    /\ step' = "over"
    /\ UNCHANGED <<vars, setup, verdict, checks>>

StillLands ==
    /\ step = "refiring" /\ findings # <<>> /\ Refired.status = "PROVEN"
    /\ Verdict("PROVEN")
    /\ UNCHANGED <<vars, setup, checks>>

\* Nothing was sent and answered, so nothing is known about the fix.
NotRefired ==
    /\ step = "refiring" /\ findings # <<>>
    /\ Refired.status = "REPORTED" /\ ~Refired.executed
    /\ Verdict("REPORTED")
    /\ UNCHANGED <<vars, setup, checks>>

\* Fault: REPORTED from a probe is taken for a refusal, sent or not.
BlockedUnlessProven ==
    step = "refiring" /\ findings # <<>> /\ Refired.status # "PROVEN"

\* The attack was sent and did not land.
Blocked ==
    /\ step = "refiring" /\ findings # <<>> /\ Refired.status # "PROVEN"
    /\ Refired.status = "REPORTED" => Refired.executed

\* Fault: whatever stopped B, the route is fixed.
ClassifyRouteByAttack ==
    /\ Blocked /\ RoutePlane(Current)
    /\ Verdict("FIXED")
    /\ UNCHANGED <<vars, setup, checks>>

\* The route probe has asked the owner already.
ClassifyRoute ==
    /\ Blocked /\ RoutePlane(Current)
    /\ Verdict(IF Refired.status = "NOT_REPRODUCED" THEN "FIXED" ELSE "BROKE_IT_SAFELY")
    /\ UNCHANGED <<vars, setup, checks>>

SpeaksPostgrest == cfg.anonKey

OwnerUnasked ==
    /\ Blocked /\ ~RoutePlane(Current)
    /\ seed = NoSeed \/ ~SpeaksPostgrest
    /\ Verdict("NOT_REPRODUCED")
    /\ UNCHANGED <<vars, setup, checks>>

AskOwner ==
    /\ Blocked /\ ~RoutePlane(Current)
    /\ seed # NoSeed /\ SpeaksPostgrest
    /\ step' = "owner_login"
    /\ UNCHANGED <<vars, setup, verdict, checks>>

-----------------------------------------------------------------------------
\* The owner through PostgREST: _legit_via_postgrest and its twin in
\* _positive_control.

OwnerAnswered(in) ==
    /\ step' = "over"
    /\ IF op = "reprove"
       THEN verdict' = (IF in THEN "FIXED" ELSE "BROKE_IT_SAFELY") /\ UNCHANGED checks
       ELSE /\ Says(IF op = "lockout" THEN "postgrest" ELSE "positive_control",
                    IF in THEN "passed" ELSE "failed")
            /\ UNCHANGED verdict

\* Whatever the login raises counts as an owner who is not let in.
OwnerLogin ==
    /\ step = "owner_login"
    /\ \/ /\ IF acct["A"].token THEN UNCHANGED acct
                                ELSE \E known \in BOOLEAN : Grant("A", known)
          /\ step' = "owner_read"
          /\ UNCHANGED <<verdict, checks>>
       \/ /\ ~acct["A"].token
          /\ OwnerAnswered(FALSE)
          /\ UNCHANGED acct
    /\ UNCHANGED <<still, pc, wire, findings, loose, setup>>

OwnerRead ==
    /\ step = "owner_read"
    /\ \E ans \in {"seedrow", "empty", "error", "failed"} :
        /\ Send("A", ans)
        /\ OwnerAnswered(ans = "seedrow")
    /\ UNCHANGED <<still, acct, pc, findings, loose, setup>>

-----------------------------------------------------------------------------
\* lockout_check: the seed's own route if it names one, then PostgREST.

LockoutUndecided ==
    /\ step = "called" /\ op = "lockout" /\ Allowed
    /\ seed = NoSeed \/ ~Credentials("A")
    /\ step' = "over"
    /\ UNCHANGED <<vars, setup, verdict, checks>>

AskPostgrest(name) ==
    IF SpeaksPostgrest THEN step' = "owner_login" /\ UNCHANGED checks
                       ELSE step' = "over" /\ Says(name, "skipped")

\* The route is asked through the prober, which logs A in first, best effort.
AskDoor == step' = "door" /\ pc' = "control_login" /\ UNCHANGED checks

LockoutCheck ==
    /\ step = "called" /\ op = "lockout" /\ Allowed
    /\ seed # NoSeed /\ Credentials("A")
    /\ IF door THEN AskDoor ELSE AskPostgrest("postgrest") /\ UNCHANGED pc
    /\ UNCHANGED <<still, acct, wire, findings, loose, setup, verdict>>

DoorLogin ==
    /\ step = "door" /\ ProberLogin
    /\ UNCHANGED <<setup, step, verdict, checks>>

\* Fault: with a route to ask through, PostgREST is not asked any more.
LockoutDoorOnly ==
    /\ step = "door" /\ pc = "control" /\ op = "lockout"
    /\ \E ans \in RouteAnswers :
        /\ Send("A", ans)
        /\ Says("route", IF ans = "record" THEN "passed" ELSE "failed")
    /\ pc' = "pick" /\ step' = "over"
    /\ Follow
    /\ UNCHANGED <<still, acct, findings, setup, verdict>>

\* legitimate_access_survives; PostgREST is asked whatever it says.
LockoutDoor ==
    /\ step = "door" /\ pc = "control" /\ op = "lockout"
    /\ \E ans \in RouteAnswers :
        LET said == IF ans = "record" THEN "passed" ELSE "failed" IN
        /\ Send("A", ans)
        /\ checks' = [checks EXCEPT !["route"] = said,
                                    !["postgrest"] = IF SpeaksPostgrest THEN @ ELSE "skipped"]
    /\ pc' = "pick"
    /\ step' = IF SpeaksPostgrest THEN "owner_login" ELSE "over"
    /\ Follow
    /\ UNCHANGED <<still, acct, findings, setup, verdict>>

-----------------------------------------------------------------------------
\* preflight: ownership, reachability, B's login, and the positive control.

Reach ==
    /\ step = "called" /\ op = "preflight" /\ Allowed
    /\ \E ok \in BOOLEAN :
        /\ step' = IF ok THEN "auth_b" ELSE "over"
        /\ checks' = [checks EXCEPT !["ownership"] = "passed",
                                    !["reachable"] = IF ok THEN "passed" ELSE "failed"]
    /\ UNCHANGED <<vars, setup, verdict>>

\* A login that fails is recorded, and the control is asked all the same.
AuthB ==
    /\ step = "auth_b"
    /\ step' = "control"
    /\ \/ ~Credentials("B") /\ Says("auth_b", "skipped") /\ UNCHANGED acct
       \/ acct["B"].token /\ Says("auth_b", "passed") /\ UNCHANGED acct
       \/ /\ "B" \in mail /\ ~acct["B"].token
          /\ \/ (\E known \in BOOLEAN : Grant("B", known)) /\ Says("auth_b", "passed")
             \/ UNCHANGED acct /\ Says("auth_b", "failed")
    /\ UNCHANGED <<still, pc, wire, findings, loose, setup, verdict>>

PositiveControl ==
    /\ step = "control"
    /\ IF seed = NoSeed \/ ~Credentials("A")
       THEN step' = "over" /\ Says("positive_control", "skipped") /\ UNCHANGED pc
       ELSE IF door THEN AskDoor
                    ELSE AskPostgrest("positive_control") /\ UNCHANGED pc
    /\ UNCHANGED <<still, acct, wire, findings, loose, setup, verdict>>

ControlDoor ==
    /\ step = "door" /\ pc = "control" /\ op = "preflight"
    /\ \E ans \in RouteAnswers :
        /\ Send("A", ans)
        /\ Says("positive_control", IF ans = "record" THEN "passed" ELSE "failed")
    /\ pc' = "pick" /\ step' = "over"
    /\ Follow
    /\ UNCHANGED <<still, acct, findings, setup, verdict>>

-----------------------------------------------------------------------------
OpStep ==
    \/ RefuseTarget
    \/ Refire \/ Probe \/ RefireRaises
    \/ StillLands \/ NotRefired \/ ClassifyRoute \/ OwnerUnasked \/ AskOwner
    \/ OwnerLogin \/ OwnerRead
    \/ LockoutUndecided \/ LockoutCheck \/ DoorLogin \/ LockoutDoor
    \/ Reach \/ AuthB \/ PositiveControl \/ ControlDoor

OpStop == step = "over" /\ UNCHANGED opvars

OpNext == OpStep \/ OpStop

\* One thread, and every request has a timeout.
OpSpec == OpInit /\ [][OpNext]_opvars /\ WF_opvars(OpStep)

-----------------------------------------------------------------------------
(* Properties. *)

In  == {"record", "seedrow"}
AsB == {k \in DOMAIN wire : wire[k].as = "B"}
AsA == {k \in DOMAIN wire : wire[k].as = "A"}

\* "FIXED claims both halves" (reprove): B was answered and never with A's record,
\* and A, asked after the last of it, was let in.
FixedClaimsBothHalves ==
    verdict = "FIXED" =>
        /\ AsB # {} /\ \A k \in AsB : wire[k].ans \notin In \cup {"failed"}
        /\ \E j \in AsA : wire[j].ans \in In /\ \A k \in AsB : k < j

\* "Only a sent-and-refused request is blocked" (reprove): a call that says the
\* attack no longer lands had an answer to every request it sent as B, and one
\* that says the owner is locked out did not see the owner's record.
BlockedWasAnswered ==
    verdict \in {"FIXED", "BROKE_IT_SAFELY", "NOT_REPRODUCED"} =>
        /\ AsB # {} /\ \A k \in AsB : wire[k].ans # "failed"
        /\ verdict = "NOT_REPRODUCED" => AsA = {}
        /\ verdict = "BROKE_IT_SAFELY" => \A j \in AsA : wire[j].ans \notin In

Failed == {c \in CheckName : checks[c] = "failed"}
Passed == {c \in CheckName : checks[c] = "passed"}

\* "A resource nobody could test is not a resource that passed" (LockoutResult):
\* a lockout check that is ok asked through every door the target has, and each
\* gave A its own record.
LockoutPassIsEarned ==
    op = "lockout" /\ step = "over" /\ Passed # {} /\ Failed = {} =>
        /\ \A k \in DOMAIN wire : wire[k].as = "A" /\ wire[k].ans \in In
        /\ Len(wire) = (IF door THEN 1 ELSE 0) + (IF cfg.anonKey THEN 1 ELSE 0)

\* The positive control (preflight): where there is a record, an owner and a door
\* to ask through, a preflight that is ok has seen the owner read the record.
SoundSetupWasShown ==
    /\ op = "preflight" /\ step = "over" /\ Failed = {}
    /\ seed # NoSeed /\ Credentials("A") /\ (door \/ cfg.anonKey)
    => Len(wire) = 1 /\ wire[1].as = "A" /\ wire[1].ans \in In

=============================================================================
