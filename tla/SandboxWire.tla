---------------------------- MODULE SandboxWire ----------------------------
(***************************************************************************)
(* DockerExecutor.prove: one container per run.  The container performs    *)
(* the run and writes an event to its stdout for everything its own        *)
(* observers are told, and one terminal event; the host reads the lines,   *)
(* tells its caller's observers, and turns the terminal event, or the lack *)
(* of one, into the answer of the call.                                    *)
(*                                                                         *)
(* Both pipes are bounded and a write to a full one blocks.  The host      *)
(* reads stdout to its end before it reads stderr.  The container may die  *)
(* at any moment, in the middle of a line too, and what it runs may write  *)
(* lines of its own into the stream.  Blank lines, which the host skips,   *)
(* are left out.                                                           *)
(***************************************************************************)
EXTENDS Naturals, Sequences

CONSTANTS
    MaxFindings,  \* bound on the findings of one run
    OutMax,       \* lines the stdout pipe holds
    ErrMax        \* diagnostics the stderr pipe holds

ASSUME ConstantsAssumption ==
    /\ MaxFindings \in Nat
    /\ OutMax \in Nat \ {0}
    /\ ErrMax \in Nat \ {0}

\* "noise" is any line that decode_event refuses: a stray print, a traceback, a
\* line cut off by the end of the process or broken by another's output.  `n` is
\* the number of findings made by the time the line was written.
Kinds == {"candidates", "finding", "report", "refused", "error", "noise"}
Line  == [kind : Kinds, n : Nat]

VARIABLES
    proc,       \* the container
    ranked,     \* its run has announced the candidates
    made,       \* findings its run has made
    ended,      \* how its run ended
    out, err,   \* the two pipes: lines of stdout, number of lines on stderr
    closed,     \* the host has closed its ends of both
    host,       \* where DockerExecutor.prove and its runner's generator are
    announced, shown, answer, reported   \* what the caller was told

run    == <<ranked, made, ended>>
caller == <<announced, shown, answer, reported>>
vars   == <<proc, run, out, err, closed, host, caller>>

Outer == INSTANCE ObservedRun WITH announced <- announced, shown <- shown,
                                  answer <- answer, reported <- reported

Procs == {"absent", "up", "diagnosing", "exited"}

\* "raised": the caller has its exception and the generator is still suspended;
\* "closing", "waiting": in the generator's `finally`, before and at proc.wait().
Hosts == {"spawning", "reading", "raised", "closing", "waiting", "over"}

Init ==
    /\ proc = "absent"
    /\ ranked = FALSE /\ made = 0 /\ ended = "none"
    /\ out = <<>> /\ err = 0 /\ closed = FALSE
    /\ host = "spawning"
    /\ announced = FALSE /\ shown = <<>> /\ answer = "none" /\ reported = 0

-----------------------------------------------------------------------------
\* The container: container_main around LocalExecutor.prove.

Running == proc = "up" /\ ended = "none"

\* A write blocks on a full pipe and fails, without blocking, on a closed one.
Room == closed \/ Len(out) < OutMax
Write(kind) ==
    out' = IF closed THEN out ELSE Append(out, [kind |-> kind, n |-> made'])

\* The candidates event.  If it cannot be written the exception leaves the run,
\* and so does the one from reporting it.
Rank ==
    /\ Running /\ ~ranked /\ Room
    /\ IF closed THEN proc' = "exited" /\ ended' = "failed" /\ UNCHANGED ranked
                 ELSE ranked' = TRUE /\ UNCHANGED <<proc, ended>>
    /\ UNCHANGED made
    /\ Write("candidates")
    /\ UNCHANGED <<err, closed, host, caller>>

\* A finding.  The run ignores an observer that cannot write; the line may be
\* broken by what something else writes to the same stdout.
Find ==
    /\ Running /\ ranked /\ Room
    /\ made < MaxFindings /\ made' = made + 1
    /\ Write("finding") \/ Write("noise")
    /\ UNCHANGED <<proc, ranked, ended, err, closed, host, caller>>

\* The terminal event.
Finish(how, kind) ==
    /\ Running /\ Room
    /\ ended' = how
    /\ UNCHANGED <<ranked, made>>
    /\ Write(kind)
    /\ UNCHANGED <<proc, err, closed, host, caller>>

Report == ranked /\ Finish("report", "report")

\* PlanViolation, once the guard is in place.
Refuse == ranked /\ Finish("refused", "refused")

\* Any other exception: a bad request, the missing model key, the run's own.
Fail == Finish("failed", "error")

Exit ==
    /\ proc = "up" /\ ended # "none"
    /\ proc' = "exited"
    /\ UNCHANGED <<run, out, err, closed, host, caller>>

\* Something in the container writes to stdout past _emit.
Stray ==
    /\ Running /\ ~closed /\ Len(out) < OutMax
    /\ UNCHANGED run
    /\ Write("noise")
    /\ UNCHANGED <<proc, err, closed, host, caller>>

\* A diagnostic, which holds the run up until the pipe takes it.
Diagnose ==
    /\ Running /\ ~closed
    /\ proc' = "diagnosing"
    /\ UNCHANGED <<run, out, err, closed, host, caller>>

Diagnosed ==
    /\ proc = "diagnosing"
    /\ closed \/ err < ErrMax
    /\ err' = IF closed THEN err ELSE err + 1
    /\ proc' = "up"
    /\ UNCHANGED <<run, out, closed, host, caller>>

\* Killed, or ended by what it runs, perhaps in the middle of a line.
Die ==
    /\ proc \in {"up", "diagnosing"}
    /\ proc' = "exited"
    /\ UNCHANGED run
    /\ \/ UNCHANGED out
       \/ ended = "none" /\ Len(out) < OutMax /\ Write("noise")
    /\ UNCHANGED <<err, closed, host, caller>>

-----------------------------------------------------------------------------
\* The host.

\* Part of a guard was passed, or there is no docker: nothing is started.
CannotStart ==
    /\ host = "spawning"
    /\ host' = "over"
    /\ answer' = "failed"
    /\ UNCHANGED <<proc, run, out, err, closed, announced, shown, reported>>

Spawn ==
    /\ host = "spawning"
    /\ host' = "reading"
    /\ proc' = "up"
    /\ UNCHANGED <<run, out, err, closed, caller>>

Raise(how) ==
    /\ answer' = how
    /\ host' = "raised"
    /\ UNCHANGED <<announced, shown, reported>>

\* A report ends _consume, and closing the generator ends the call.
Return(n) ==
    /\ answer' = "report"
    /\ reported' = n
    /\ host' = "closing"
    /\ UNCHANGED <<announced, shown>>

\* Telling an observer, which may raise; here nothing catches it.
Tell(line) ==
    \/ Raise("failed")
    \/ /\ IF line.kind = "candidates"
          THEN announced' = TRUE /\ UNCHANGED shown
          ELSE shown' = Append(shown, line.n) /\ UNCHANGED announced
       /\ UNCHANGED <<host, answer, reported>>

\* Fault: a line that does not parse is skipped.
ConsumeSkipping(line) ==
    CASE line.kind \in {"candidates", "finding"} -> Tell(line)
      [] line.kind = "report"                    -> Return(line.n)
      [] line.kind = "refused"                   -> Raise("refused")
      [] line.kind = "error"                     -> Raise("failed")
      [] line.kind = "noise"                     -> UNCHANGED <<host, caller>>

\* _consume, one line.
Consume(line) ==
    CASE line.kind \in {"candidates", "finding"} -> Tell(line)
      [] line.kind = "report"                    -> Return(line.n)
      [] line.kind = "refused"                   -> Raise("refused")
      [] line.kind \in {"error", "noise"}        -> Raise("failed")

\* Fault: stderr is read to its end first.
ReadLineAfterStderr ==
    /\ host = "reading" /\ out # <<>> /\ proc = "exited"
    /\ out' = Tail(out)
    /\ Consume(Head(out))
    /\ UNCHANGED <<proc, run, err, closed>>

ReadLine ==
    /\ host = "reading" /\ out # <<>>
    /\ out' = Tail(out)
    /\ Consume(Head(out))
    /\ UNCHANGED <<proc, run, err, closed>>

\* Fault: a stream that ends is a run that ended.
EndOfStreamReports ==
    /\ host = "reading" /\ out = <<>> /\ proc = "exited"
    /\ err' = 0 /\ closed' = TRUE
    /\ answer' = "report" /\ reported' = Len(shown) /\ host' = "over"
    /\ UNCHANGED <<proc, run, out, announced, shown>>

\* No terminal event: a failure whatever the exit code.  Only now is stderr read.
EndOfStream ==
    /\ host = "reading" /\ out = <<>> /\ proc = "exited"
    /\ err' = 0 /\ closed' = TRUE
    /\ answer' = "failed" /\ host' = "over"
    /\ UNCHANGED <<proc, run, out, announced, shown, reported>>

\* Fault: the child is waited for with its pipes still open.
CloseNothing ==
    /\ host \in {"raised", "closing"}
    /\ host' = "waiting"
    /\ UNCHANGED <<proc, run, out, err, closed, caller>>

\* The generator is closed: by the return, or when the exception is let go of.
Close ==
    /\ host \in {"raised", "closing"}
    /\ closed' = TRUE
    /\ host' = "waiting"
    /\ UNCHANGED <<proc, run, out, err, caller>>

Reap ==
    /\ host = "waiting" /\ proc = "exited"
    /\ host' = "over"
    /\ UNCHANGED <<proc, run, out, err, closed, caller>>

-----------------------------------------------------------------------------
Container == Rank \/ Find \/ Report \/ Refuse \/ Fail \/ Exit \/ Diagnosed
Mishap    == Stray \/ Diagnose \/ Die
Host      == CannotStart \/ Spawn \/ ReadLine \/ EndOfStream \/ Close \/ Reap

Next == Container \/ Mishap \/ Host

\* The host's thread and the container's run go on when they can: every request
\* of a run has a timeout.  No mishap need ever happen.
Spec == Init /\ [][Next]_vars /\ WF_vars(Container) /\ WF_vars(Host)

-----------------------------------------------------------------------------
(* Properties. *)

TypeOK ==
    /\ proc \in Procs
    /\ ranked \in BOOLEAN /\ made \in 0..MaxFindings /\ ended \in Outer!Answers
    /\ out \in Seq(Line) /\ Len(out) <= OutMax
    /\ err \in 0..ErrMax
    /\ closed \in BOOLEAN
    /\ host \in Hosts
    /\ announced \in BOOLEAN /\ shown \in Seq(Nat) /\ answer \in Outer!Answers
    /\ reported \in Nat

\* "A partial run must not be read as a clean one with no findings", and a refusal
\* of the guard is never read as a crash or a crash as a refusal (docker.py): the
\* host reports exactly what a run that finished in the container reported.
AnswerIsTheRuns ==
    /\ answer = "report" => ended = "report" /\ reported = made
    /\ answer = "refused" => ended = "refused"

\* The container behind its two pipes is an executor like any other: the surface
\* sees every finding of the report, once and in order, before the report.
KeepsThePromise == Outer!Spec

\* The caller has its answer: an exception as soon as it is raised, a report once
\* the container is gone.
Answered == answer \in {"refused", "failed"} \/ (answer = "report" /\ host = "over")

\* Every call is answered, unless the container fills its stderr, which nobody
\* reads while the stream is open: then the two wait for each other for ever.
AnsweredUnlessJammed == [](err < ErrMax) => <>Answered

\* The `finally` of SubprocessRunner.run leaves no child behind: once the host is
\* past the stream, the container is waited for and does end.
ChildIsReaped == (answer # "none") ~> (host = "over")
=============================================================================
