---------------------------- MODULE ProveStream ----------------------------
(***************************************************************************)
(* POST /api/prove on the website backend.  A request takes one of a fixed *)
(* number of slots, is checked, and is then either run on its own thread   *)
(* ("direct") or handed to a generator that starts a worker thread and     *)
(* relays, through a bounded queue, what the worker emits.                 *)
(*                                                                         *)
(* Four parties step independently for every request: the request thread,  *)
(* the generator, the worker and the reader at the other end of the        *)
(* connection.  An event is known by its position in `said`, everything    *)
(* the worker has emitted for that request; the queue and what was taken   *)
(* from it are sequences of positions.   Timeouts (of a put, of the join)  *)
(* may strike whenever the call they bound is blocked.                     *)
(***************************************************************************)
EXTENDS Integers, Sequences, FiniteSets

CONSTANTS
    Request,      \* the requests that may arrive
    Fetched,      \* those naming a repository to fetch, not the demo or a local path
    MaxSlots,     \* _MAX_CONCURRENT_PROVES
    QueueMax,     \* _STREAM_QUEUE_MAX
    MaxFindings   \* bound on the findings of one run

ASSUME ConstantsAssumption ==
    /\ IsFiniteSet(Request)
    /\ Fetched \subseteq Request
    /\ MaxSlots \in Nat \ {0}
    /\ QueueMax \in Nat \ {0}
    /\ MaxFindings \in Nat

Kinds == {"candidates", "finding", "report", "error", "end"}

\* Where the request stands.  "setup" to "direct" are api_prove on its thread;
\* from "handed" on it is the generator's: not yet iterated, suspended at a
\* yield, in q.get(), in thread.join(), past it, and about to release.
Places == {"idle", "setup", "direct", "refused", "answered",
           "handed", "yield", "get", "join", "cleanup", "release", "closed", "lost"}

VARIABLES
    slots,       \* the value of the semaphore _prove_slots
    pc,          \* where each request stands
    dir,         \* the fetched checkout of each request
    connected,   \* the reader has not gone away
    said,        \* the kinds of the events the worker has emitted, in order
    putting,     \* the worker is inside q.put() with the last of them
    q,           \* the queue: positions in `said`
    taken        \* positions the generator has taken from it, in order

vars == <<slots, pc, dir, connected, said, putting, q, taken>>

Init ==
    /\ slots = MaxSlots
    /\ pc = [r \in Request |-> "idle"]
    /\ dir = [r \in Request |-> "none"]
    /\ connected = [r \in Request |-> TRUE]
    /\ said = [r \in Request |-> <<>>]
    /\ putting = [r \in Request |-> FALSE]
    /\ q = [r \in Request |-> <<>>]
    /\ taken = [r \in Request |-> <<>>]

At(r, place) == pc[r] = place
Goto(r, place) == pc' = [pc EXCEPT ![r] = place]
worker == <<said, putting>>

\* The generator has begun, so the worker thread exists.
Begun(r) == pc[r] \in {"yield", "get", "join", "cleanup", "release", "closed"}

SaidEnd(r) == said[r] # <<>> /\ said[r][Len(said[r])] = "end"
SaidEnding(r) == said[r] # <<>> /\ said[r][Len(said[r])] \in {"report", "error"}

\* thread.is_alive()
Alive(r) == Begun(r) /\ ~ (SaidEnd(r) /\ ~ putting[r])

-----------------------------------------------------------------------------
\* The request thread.

TakeSlot(r) ==
    /\ At(r, "idle")
    /\ IF slots > 0
       THEN slots' = slots - 1 /\ Goto(r, "setup")
       ELSE Goto(r, "refused") /\ UNCHANGED slots
    /\ UNCHANGED <<dir, connected, worker, q, taken>>

\* No url, no ownership, no sandbox, or the checkout cannot be fetched: an HTTP
\* status, and the `finally` gives the slot back.
Refuse(r) ==
    /\ At(r, "setup")
    /\ slots' = slots + 1
    /\ Goto(r, "refused")
    /\ UNCHANGED <<dir, connected, worker, q, taken>>

\* Entering the checkout; only a fetched one is a directory of its own.
Enter(r) == dir' = [dir EXCEPT ![r] = IF r \in Fetched THEN "live" ELSE @]

\* Leaving it.
Leave(r) == dir' = [dir EXCEPT ![r] = IF r \in Fetched THEN "removed" ELSE @]

\* The streaming return: the generator now owns the slot.
HandOverAlsoReleasing(r) ==
    /\ At(r, "setup")
    /\ slots' = slots + 1
    /\ Enter(r)
    /\ Goto(r, "handed")
    /\ UNCHANGED <<connected, worker, q, taken>>

HandOver(r) ==
    /\ At(r, "setup")
    /\ Enter(r)
    /\ Goto(r, "handed")
    /\ UNCHANGED <<slots, connected, worker, q, taken>>

\* The caller did not ask for a stream: the run blocks this thread.
StartDirect(r) ==
    /\ At(r, "setup")
    /\ Enter(r)
    /\ Goto(r, "direct")
    /\ UNCHANGED <<slots, connected, worker, q, taken>>

\* The direct run returns or raises; `with _checkout` exits, then the `finally`.
EndDirect(r) ==
    /\ At(r, "direct")
    /\ Leave(r)
    /\ slots' = slots + 1
    /\ Goto(r, "answered")
    /\ UNCHANGED <<connected, worker, q, taken>>

-----------------------------------------------------------------------------
\* The generator.

\* First iteration: the worker starts and the "open" line is yielded.
Open(r) ==
    /\ At(r, "handed")
    /\ Goto(r, "yield")
    /\ UNCHANGED <<slots, dir, connected, worker, q, taken>>

\* The connection is gone before the response is ever iterated.  A generator
\* that never began has no `finally` to run; the checkout's own context manager
\* is collected with the response and removes the directory.
Abandon(r) ==
    /\ At(r, "handed")
    /\ ~ connected[r]
    /\ Leave(r)
    /\ Goto(r, "lost")
    /\ UNCHANGED <<slots, connected, worker, q, taken>>

\* Where an item taken from the queue leads: None ends the loop, anything else
\* is yielded.
After(r, i) == Goto(r, IF said[r][i] = "end" THEN "join" ELSE "yield")

GetYieldsEveryItem(r) ==
    /\ At(r, "get")
    /\ q[r] # <<>>
    /\ Goto(r, "yield")
    /\ taken' = [taken EXCEPT ![r] = Append(@, Head(q[r]))]
    /\ q' = [q EXCEPT ![r] = Tail(@)]
    /\ UNCHANGED <<slots, dir, connected, worker>>

\* q.get() blocks until there is an item.
Get(r) ==
    /\ At(r, "get")
    /\ q[r] # <<>>
    /\ After(r, Head(q[r]))
    /\ taken' = [taken EXCEPT ![r] = Append(@, Head(q[r]))]
    /\ q' = [q EXCEPT ![r] = Tail(@)]
    /\ UNCHANGED <<slots, dir, connected, worker>>

\* Closed at a yield because the reader disconnected: straight to the `finally`.
Close(r) ==
    /\ At(r, "yield")
    /\ ~ connected[r]
    /\ Goto(r, "join")
    /\ UNCHANGED <<slots, dir, connected, worker, q, taken>>

JoinUnbounded(r) ==
    /\ At(r, "join")
    /\ ~ Alive(r)
    /\ Goto(r, "cleanup")
    /\ UNCHANGED <<slots, dir, connected, worker, q, taken>>

\* thread.join(timeout=...) returns: the worker has ended, or the time is up.
Join(r) ==
    /\ At(r, "join")
    /\ Goto(r, "cleanup")
    /\ UNCHANGED <<slots, dir, connected, worker, q, taken>>

CleanupRegardless(r) ==
    /\ At(r, "cleanup")
    /\ Leave(r)
    /\ Goto(r, "release")
    /\ UNCHANGED <<slots, connected, worker, q, taken>>

Cleanup(r) ==
    /\ At(r, "cleanup")
    /\ IF Alive(r) THEN UNCHANGED dir ELSE Leave(r)
    /\ Goto(r, "release")
    /\ UNCHANGED <<slots, connected, worker, q, taken>>

Release(r) ==
    /\ At(r, "release")
    /\ slots' = slots + 1
    /\ Goto(r, "closed")
    /\ UNCHANGED <<dir, connected, worker, q, taken>>

-----------------------------------------------------------------------------
\* The worker thread.  An event is emitted only when the previous put is over.

Emit(r, kind) ==
    /\ said' = [said EXCEPT ![r] = Append(@, kind)]
    /\ putting' = [putting EXCEPT ![r] = TRUE]
    /\ UNCHANGED <<slots, pc, dir, connected, q, taken>>

\* The run is still inside `run(...)`.
InRun(r) ==
    /\ Begun(r)
    /\ ~ putting[r]
    /\ ~ SaidEnd(r)
    /\ ~ SaidEnding(r)

EmitCandidates(r) == InRun(r) /\ said[r] = <<>> /\ Emit(r, "candidates")

EmitFinding(r) ==
    /\ InRun(r)
    /\ said[r] # <<>>
    /\ Len(said[r]) <= MaxFindings
    /\ Emit(r, "finding")

\* `run` returned.  A run that reports has called both observers' hooks.
EmitReport(r) == InRun(r) /\ said[r] # <<>> /\ Emit(r, "report")

EmitError(r) == InRun(r) /\ Emit(r, "error")

EmitEnd(r) == ~ putting[r] /\ SaidEnding(r) /\ Emit(r, "end")

\* q.put() finds room.
Put(r) ==
    /\ putting[r]
    /\ Len(q[r]) < QueueMax
    /\ q' = [q EXCEPT ![r] = Append(@, Len(said[r]))]
    /\ putting' = [putting EXCEPT ![r] = FALSE]
    /\ UNCHANGED <<slots, pc, dir, connected, said, taken>>

PutGivesUpEarly(r) ==
    /\ putting[r]
    /\ Len(q[r]) >= QueueMax - 1
    /\ putting' = [putting EXCEPT ![r] = FALSE]
    /\ UNCHANGED <<slots, pc, dir, connected, said, q, taken>>

\* Nobody drained the full queue in time: queue.Full, and the event is dropped.
PutTimesOut(r) ==
    /\ putting[r]
    /\ Len(q[r]) = QueueMax
    /\ putting' = [putting EXCEPT ![r] = FALSE]
    /\ UNCHANGED <<slots, pc, dir, connected, said, q, taken>>

-----------------------------------------------------------------------------
\* The reader: takes the line it was sent, or goes away at any time.  Nothing
\* looks at the connection before the generator has the request.

Read(r) ==
    /\ At(r, "yield")
    /\ connected[r]
    /\ Goto(r, "get")
    /\ UNCHANGED <<slots, dir, connected, worker, q, taken>>

Disconnect(r) ==
    /\ pc[r] \in {"handed", "yield", "get"}
    /\ connected[r]
    /\ connected' = [connected EXCEPT ![r] = FALSE]
    /\ UNCHANGED <<slots, pc, dir, worker, q, taken>>

-----------------------------------------------------------------------------
RequestThread(r) == TakeSlot(r) \/ Refuse(r) \/ HandOver(r) \/ StartDirect(r) \/ EndDirect(r)
Generator(r) == Open(r) \/ Abandon(r) \/ Get(r) \/ Close(r) \/ Join(r) \/ Cleanup(r) \/ Release(r)
InRunSteps(r) == EmitCandidates(r) \/ EmitFinding(r) \/ EmitReport(r) \/ EmitError(r)
Emitter(r) == EmitEnd(r) \/ Put(r) \/ PutTimesOut(r)
Reader(r) == Read(r) \/ Disconnect(r)

Next == \E r \in Request :
            RequestThread(r) \/ Generator(r) \/ InRunSteps(r) \/ Emitter(r) \/ Reader(r)

\* A thread that can step does.  Nothing is assumed of `run(...)`, which may be
\* stuck for ever, of the reader, or of the arrival of requests.
Spec == Init /\ [][Next]_vars
             /\ \A r \in Request : WF_vars(Generator(r)) /\ WF_vars(Emitter(r))

-----------------------------------------------------------------------------
TypeOK ==
    /\ slots \in 0..MaxSlots
    /\ pc \in [Request -> Places]
    /\ dir \in [Request -> {"none", "live", "removed"}]
    /\ connected \in [Request -> BOOLEAN]
    /\ said \in [Request -> Seq(Kinds)]
    /\ putting \in [Request -> BOOLEAN]
    /\ q \in [Request -> Seq(Nat)]
    /\ taken \in [Request -> Seq(Nat)]

\* The requests that took a slot and have not given it back.
Holding ==
    {r \in Request : pc[r] \in {"setup", "direct", "handed", "yield", "get",
                                "join", "cleanup", "release", "lost"}}

\* Every slot is either free or held by exactly one request: whichever of
\* api_prove's exits and the generator's `finally` gives it back, only one of
\* them does (a second release raises ValueError in the BoundedSemaphore).
SlotsAccounted == slots + Cardinality(Holding) = MaxSlots

\* A checkout is never removed while the run that reads out of it is alive, on
\* the worker thread or on the request thread, however the stream came to close.
CheckoutOutlivesRun ==
    \A r \in Request :
        dir[r] = "removed" => ~ Alive(r) /\ pc[r] # "direct"

\* What the worker has not lost: taken, queued, and being put.
Kept(r) == taken[r] \o q[r] \o (IF putting[r] THEN <<Len(said[r])>> ELSE <<>>)

\* A run that emits no more events than the queue holds loses none of them,
\* however slow its reader: the drop in `_emit` only meets a longer run.
ShortRunsArriveWhole ==
    \A r \in Request :
        Len(said[r]) <= QueueMax => Len(Kept(r)) = Len(said[r])

\* Once a stream is closing, its slot comes back even if the run is stuck: the
\* join is bounded.
ClosingFreesTheSlot == \A r \in Request : At(r, "join") ~> At(r, "closed")

ReadersKeepUp == \A r \in Request : []<> ~ At(r, "yield")

EndQueued(r) == \E i \in 1..Len(q[r]) : said[r][q[r][i]] = "end"

\* A run whose end marker made it into the queue has its slot back in the end,
\* if no reader leaves a line unread for ever.
EndFreesTheSlot ==
    ReadersKeepUp => \A r \in Request : EndQueued(r) ~> At(r, "closed")

\* What api_prove says of the slot it hands over: the generator "releases it
\* when the run is over".  Refuted: the end marker of a run can be dropped by a
\* full queue, and the generator then waits in q.get() for ever.
RunOverFreesTheSlot ==
    ReadersKeepUp => \A r \in Request : (Begun(r) /\ ~ Alive(r)) ~> At(r, "closed")
=============================================================================
