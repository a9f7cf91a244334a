---------------------------- MODULE ObservedRun ----------------------------
(***************************************************************************)
(* What an executor promises the surface that called `prove`, whatever     *)
(* runs behind it (the Executor protocol and ProveOutcome in               *)
(* execution/base.py).  The observers are told the candidates once, then   *)
(* each finding once and in order; the call ends in one answer, and an     *)
(* answer that is a report holds exactly the findings they were shown.  A  *)
(* call may instead end in the guard's refusal or in a failure at any      *)
(* time, and then there is no report at all.                               *)
(***************************************************************************)
EXTENDS Naturals, Sequences

VARIABLES
    announced,  \* on_candidates has been called
    shown,      \* the findings on_finding has been handed, by number
    answer,     \* how the call ended
    reported    \* the number of findings in the report

vars == <<announced, shown, answer, reported>>

Answers == {"none", "report", "refused", "failed"}

Init ==
    /\ announced = FALSE
    /\ shown = <<>>
    /\ answer = "none"
    /\ reported = 0

Announce ==
    /\ answer = "none" /\ ~announced
    /\ announced' = TRUE
    /\ UNCHANGED <<shown, answer, reported>>

Show ==
    /\ answer = "none" /\ announced
    /\ shown' = Append(shown, Len(shown) + 1)
    /\ UNCHANGED <<announced, answer, reported>>

Report ==
    /\ answer = "none" /\ announced
    /\ answer' = "report"
    /\ reported' = Len(shown)
    /\ UNCHANGED <<announced, shown>>

EndWithout ==
    /\ answer = "none"
    /\ answer' \in {"refused", "failed"}
    /\ UNCHANGED <<announced, shown, reported>>

Next == Announce \/ Show \/ Report \/ EndWithout

Spec == Init /\ [][Next]_vars
=============================================================================
