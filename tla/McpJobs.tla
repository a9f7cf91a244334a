------------------------------ MODULE McpJobs ------------------------------
(***************************************************************************)
(* The MCP server's table of prove jobs.  A start request takes the lock,  *)
(* evicts finished jobs (first those past their time to live, then, above  *)
(* the ceiling, in table order), inserts its own entry and starts a worker *)
(* thread.  Workers write their job's fields one at a time and pollers     *)
(* read them one at a time, both without the lock, so both may fall        *)
(* between any two steps of an eviction or of each other.                  *)
(***************************************************************************)
EXTENDS Integers, Sequences, SequencesExt

CONSTANTS
    Job,        \* the jobs that may be started, each with its own uuid
    Ends,       \* how the run of each job may end
    Watched,    \* those of them whose client polls
    NoLock,     \* nobody is inside _JOBS_LOCK
    MaxJobs,    \* _MAX_JOBS
    Ttl,        \* _JOB_TTL_S
    MaxClock    \* bound on time

ASSUME ConstantsAssumption ==
    /\ NoLock \notin Job
    /\ Watched \subseteq Job
    /\ Ends \in [Job -> SUBSET {"report", "violation", "exception"} \ {{}}]
    /\ MaxJobs \in Nat \ {0}
    /\ Ttl \in Nat
    /\ MaxClock \in Nat

NotYet   == -1
Terminal == {"done", "error", "refused"}

\* A new _Job.  The payload fields are kept as present or not.
Fresh ==
    [status |-> "running", report |-> FALSE, error |-> FALSE, blocked |-> FALSE,
     finished |-> NotYet]

VARIABLES
    now,      \* time.time()
    table,    \* the keys of _JOBS in insertion order
    job,      \* the _Job of each entry ever inserted; references outlive eviction
    lock,     \* the start request inside _JOBS_LOCK, or none
    start,    \* where each start request is
    left,     \* entries the eviction in progress has still to visit
    began,    \* when that eviction read the clock
    worker,   \* where each worker thread is
    todo,     \* the assignments it has still to make
    poll      \* what the client of each watched job is reading, and has read

vars == <<now, table, job, lock, start, left, began, worker, todo, poll>>

Idle == [at |-> "idle"]

Init ==
    /\ now = 0
    /\ table = <<>>
    /\ job = [j \in Job |-> Fresh]
    /\ lock = NoLock
    /\ start = [j \in Job |-> "idle"]
    /\ left = <<>>
    /\ began = 0
    /\ worker = [j \in Job |-> "none"]
    /\ todo = [j \in Job |-> <<>>]
    /\ poll = [j \in Watched |-> Idle]

Entries   == {table[i] : i \in 1..Len(table)}
Running   == {j \in Job : start[j] = "returned" /\ job[j].status = "running"}

\* del _JOBS[j], which raises when there is no such entry.
Drop(j) == RemoveAt(table, CHOOSE i \in DOMAIN table : table[i] = j)

-----------------------------------------------------------------------------
\* tainted_prove_start, past its refusals (no logins, a target that is not
\* local), which change nothing.

Begin(j) ==
    /\ start[j] = "idle"
    /\ lock = NoLock
    /\ lock' = j
    /\ left' = table
    /\ began' = now
    /\ start' = [start EXCEPT ![j] = "expiring"]
    /\ UNCHANGED <<now, table, job, worker, todo, poll>>

\* The first pass visits one entry.
Expired(h) ==
    /\ job[h].status # "running"
    /\ job[h].finished # NotYet
    /\ began - job[h].finished > Ttl

Expire(j) ==
    /\ start[j] = "expiring"
    /\ left # <<>>
    /\ table' = IF Expired(Head(left)) THEN Drop(Head(left)) ELSE table
    /\ left' = Tail(left)
    /\ UNCHANGED <<now, job, lock, start, began, worker, todo, poll>>

EndExpire(j) ==
    /\ start[j] = "expiring"
    /\ left = <<>>
    /\ IF Len(table) <= MaxJobs
       THEN start' = [start EXCEPT ![j] = "inserting"] /\ UNCHANGED left
       ELSE start' = [start EXCEPT ![j] = "trimming"] /\ left' = table
    /\ UNCHANGED <<now, table, job, lock, began, worker, todo, poll>>

\* The second pass visits one entry, while the table is over the ceiling.
TrimRunningToo(j) ==
    /\ start[j] = "trimming"
    /\ left # <<>>
    /\ Len(table) > MaxJobs
    /\ table' = Drop(Head(left))
    /\ left' = Tail(left)
    /\ UNCHANGED <<now, job, lock, start, began, worker, todo, poll>>

TrimEveryFinished(j) ==
    /\ start[j] = "trimming"
    /\ left # <<>>
    /\ table' = IF job[Head(left)].status # "running" THEN Drop(Head(left)) ELSE table
    /\ left' = Tail(left)
    /\ UNCHANGED <<now, job, lock, start, began, worker, todo, poll>>

\* Fault: the pass stops one entry above the ceiling.
TrimShort(j) ==
    /\ start[j] = "trimming"
    /\ left # <<>>
    /\ Len(table) > MaxJobs
    /\ table' = IF job[Head(left)].status # "running" /\ Len(table) > MaxJobs + 1
                THEN Drop(Head(left)) ELSE table
    /\ left' = Tail(left)
    /\ UNCHANGED <<now, job, lock, start, began, worker, todo, poll>>

Trim(j) ==
    /\ start[j] = "trimming"
    /\ left # <<>>
    /\ Len(table) > MaxJobs
    /\ table' = IF job[Head(left)].status # "running" THEN Drop(Head(left)) ELSE table
    /\ left' = Tail(left)
    /\ UNCHANGED <<now, job, lock, start, began, worker, todo, poll>>

EndTrim(j) ==
    /\ start[j] = "trimming"
    /\ left = <<>> \/ Len(table) <= MaxJobs
    /\ start' = [start EXCEPT ![j] = "inserting"]
    /\ UNCHANGED <<now, table, job, lock, left, began, worker, todo, poll>>

\* The new entry goes in at the end of the table, the lock is released and the
\* worker thread started; a thread not yet started is one that has not run yet.
Insert(j) ==
    /\ start[j] = "inserting"
    /\ table' = Append(table, j)
    /\ job' = [job EXCEPT ![j] = Fresh]
    /\ lock' = NoLock
    /\ left' = <<>> /\ began' = 0
    /\ start' = [start EXCEPT ![j] = "returned"]
    /\ worker' = [worker EXCEPT ![j] = "ready"]
    /\ UNCHANGED <<now, todo, poll>>

-----------------------------------------------------------------------------
\* _run_prove.

\* The assignments each outcome makes, in order; the last sets the status.
AssignmentsStatusFirst(outcome) ==
    CASE outcome = "report"    -> <<"done", "report", "blocked">>
      [] outcome = "violation" -> <<"refused", "error", "blocked">>
      [] outcome = "exception" -> <<"error-status", "error">>

AssignmentsLeavingErrorsRunning(outcome) ==
    CASE outcome = "report"    -> <<"report", "blocked", "done">>
      [] outcome = "violation" -> <<"error", "blocked", "refused">>
      [] outcome = "exception" -> <<"error">>

Assignments(outcome) ==
    CASE outcome = "report"    -> <<"report", "blocked", "done">>
      [] outcome = "violation" -> <<"error", "blocked", "refused">>
      [] outcome = "exception" -> <<"error", "error-status">>

\* job = _JOBS[job_id], which raises when the entry is gone, then whatever the
\* executor comes to, if it comes to anything: a container that blocks has no timeout.
Prove(j) ==
    /\ worker[j] = "ready"
    /\ IF j \in Entries
       THEN /\ \E outcome \in Ends[j] : todo' = [todo EXCEPT ![j] = Assignments(outcome)]
            /\ worker' = [worker EXCEPT ![j] = "writing"]
       ELSE /\ worker' = [worker EXCEPT ![j] = "lost"]
            /\ UNCHANGED todo
    /\ UNCHANGED <<now, table, job, lock, start, left, began, poll>>

Written(r, field) ==
    CASE field = "report"       -> [r EXCEPT !.report = TRUE]
      [] field = "blocked"      -> [r EXCEPT !.blocked = TRUE]
      [] field = "error"        -> [r EXCEPT !.error = TRUE]
      [] field = "error-status" -> [r EXCEPT !.status = "error"]
      [] OTHER                  -> [r EXCEPT !.status = field]

Write(j) ==
    /\ worker[j] = "writing"
    /\ todo[j] # <<>>
    /\ job' = [job EXCEPT ![j] = Written(@, Head(todo[j]))]
    /\ todo' = [todo EXCEPT ![j] = Tail(@)]
    /\ UNCHANGED <<now, table, lock, start, left, began, worker, poll>>

\* The `finally`.
Stamp(j) ==
    /\ worker[j] = "writing"
    /\ todo[j] = <<>>
    /\ job' = [job EXCEPT ![j].finished = now]
    /\ worker' = [worker EXCEPT ![j] = "ended"]
    /\ UNCHANGED <<now, table, lock, start, left, began, todo, poll>>

-----------------------------------------------------------------------------
\* tainted_prove_status and tainted_prove_result: the entry, then its status, then
\* the rest.  What the status tool adds to an answer of "running" is left out.

Ask(j) ==
    /\ start[j] = "returned"
    /\ poll[j].at \in {"idle", "answered"}
    /\ poll' = [poll EXCEPT ![j] =
          IF j \in Entries THEN [at |-> "status"] ELSE [at |-> "answered", status |-> "unknown"]]
    /\ UNCHANGED <<now, table, job, lock, start, left, began, worker, todo>>

ReadStatus(j) ==
    /\ poll[j].at = "status"
    /\ poll' = [poll EXCEPT ![j] =
          [at |-> IF job[j].status = "running" THEN "answered" ELSE "rest",
           status |-> job[j].status]]
    /\ UNCHANGED <<now, table, job, lock, start, left, began, worker, todo>>

ReadRest(j) ==
    /\ poll[j].at = "rest"
    /\ poll' = [poll EXCEPT ![j] =
          [at |-> "answered", status |-> poll[j].status, report |-> job[j].report,
           error |-> job[j].error, blocked |-> job[j].blocked]]
    /\ UNCHANGED <<now, table, job, lock, start, left, began, worker, todo>>

Tick ==
    /\ now < MaxClock
    /\ now' = now + 1
    /\ UNCHANGED <<table, job, lock, start, left, began, worker, todo, poll>>

-----------------------------------------------------------------------------
Starter(j) == Begin(j) \/ Expire(j) \/ EndExpire(j) \/ Trim(j) \/ EndTrim(j) \/ Insert(j)
Recording(j) == Write(j) \/ Stamp(j)
WorkerOf(j) == Prove(j) \/ Recording(j)
Polling(j) == Ask(j) \/ ReadStatus(j) \/ ReadRest(j)

Next == Tick \/ (\E j \in Job : Starter(j) \/ WorkerOf(j)) \/ (\E j \in Watched : Polling(j))

\* A request that has begun goes on, and so does a worker whose executor has returned
\* or raised.  No request need arrive, and no executor need ever return.
Spec ==
    /\ Init
    /\ [][Next]_vars
    /\ \A j \in Job : WF_vars(Starter(j) /\ start[j] # "idle") /\ WF_vars(Recording(j))

-----------------------------------------------------------------------------

\* A job that is still running is in the table, whatever start requests evict
\* meanwhile: its worker finds its entry, and a client that polls it is never told
\* that its id is unknown.
RunningJobsAreKept ==
    /\ Running \subseteq Entries
    /\ \A j \in Job : worker[j] # "lost"
    /\ \A j \in Watched :
          poll[j].at = "answered" /\ poll[j].status = "unknown" => job[j].status # "running"

\* An answer that carries a final status carries the whole result, although the
\* worker writes and the client reads field by field with no lock.
FinalAnswersAreWhole ==
    \A j \in Watched :
        poll[j].at = "answered" =>
            /\ poll[j].status = "done" => poll[j].report /\ poll[j].blocked
            /\ poll[j].status = "refused" => poll[j].error /\ poll[j].blocked
            /\ poll[j].status = "error" => poll[j].error /\ ~ poll[j].report

\* A result is taken from the table only past its time to live or when the table
\* is over its ceiling, so an uncollected one survives otherwise.
ResultsKeptForCollection ==
    [][\A j \in Entries \ Entries' :
          Len(table) > MaxJobs \/ (job[j].finished # NotYet /\ now - job[j].finished > Ttl)]_vars

\* What a start request leaves behind when it puts its own entry in: nothing past its
\* time to live when the request began, and above the ceiling nothing that had ended
\* before then, although jobs end under the eviction after it has passed them.
EvictionIsThorough ==
    \A j \in Job : start[j] = "inserting" =>
        \A h \in Entries : job[h].finished # NotYet =>
            /\ began - job[h].finished <= Ttl
            /\ Len(table) > MaxJobs => job[h].finished >= began

\* A job whose run is over comes to a final status with its time of ending, whichever
\* way the run ended (_run_prove).  While its run goes on it is "running", and for ever
\* if the container never answers: neither the worker nor the executor has a timeout.
RunOverEndsJob ==
    \A j \in Job :
        worker[j] = "writing" ~> (job[j].status \in Terminal /\ job[j].finished # NotYet)
=============================================================================
