----------------------------- MODULE WatchLoop -----------------------------
(***************************************************************************)
(* `tainted watch`.  Three parties share one flag: people and tools change *)
(* the tree, watchdog's thread turns the events of those changes into the  *)
(* flag, and the main thread waits for the flag, lets the burst settle and *)
(* analyses the tree, one file after another while it may still change.    *)
(***************************************************************************)
EXTENDS Integers, Sequences

CONSTANTS
    Path,        \* every path an event may name
    SourceExt,   \* those whose name ends in one of _WATCH_EXTS
    Ignored,     \* those below one of _IGNORED_DIRS
    Only,        \* the checks asked for: "any", "static" or "test_integrity"
    NoPath,      \* the missing destination of an event that is no rename
    MaxVersion,  \* bound on the edits of a file
    MaxEvents    \* bound on the events watchdog has not dispatched yet

ASSUME ConstantsAssumption ==
    /\ SourceExt \subseteq Path
    /\ Ignored \subseteq Path
    /\ NoPath \notin Path
    /\ Only \subseteq {"any", "static", "test_integrity"}
    /\ MaxVersion \in Nat
    /\ MaxEvents \in Nat

\* _WATCH_EXTS and _IGNORED_DIRS decide what is source a person edits.
IsSourceChange(p) == p \in SourceExt \ Ignored
File == {p \in Path : IsSourceChange(p)}

\* An event names one path, or both ends of a rename.  Its cause is history: a person's
\* save, a tool, or that somebody read the file.
Event == [dir : BOOLEAN, src : Path, dest : Path \cup {NoPath}, by : {"person", "tool", "read"}]

VARIABLES
    only,      \* the --only of this watch
    reads,     \* the observer reports a file opened and closed unwritten, as inotify does
    at,        \* where the main thread is
    observing, \* the observer is started
    tree,      \* the version of each source file
    events,    \* watchdog's queue
    dirty,     \* _Rerun._dirty
    todo,      \* the files the analysis under way has still to read
    read,      \* the version of each file that the latest analysis to read it saw
    whole,     \* the latest analysis did not raise
    base,      \* the tree when the observer started (history)
    due,       \* a person has saved a file since the latest run began (history)
    heard      \* the causes, of those, that were dispatched since then (history)

vars == <<only, reads, at, observing, tree, events, dirty, todo, read, whole, base, due, heard>>

Places == {"called", "first", "starting", "polling", "clearing", "settling", "running", "over"}

Init ==
    /\ only \in Only
    /\ reads \in BOOLEAN
    /\ at = "called"
    /\ observing = FALSE
    /\ tree = [f \in File |-> 0]
    /\ events = <<>>
    /\ dirty = FALSE
    /\ todo = {}
    /\ read = [f \in File |-> -1]
    /\ whole = FALSE
    /\ base = tree
    /\ due = FALSE
    /\ heard = {}

-----------------------------------------------------------------------------
\* The tree.  Before the observer is started a change makes no event.

Emit(e) ==
    IF observing THEN Len(events) < MaxEvents /\ events' = Append(events, e)
                 ELSE UNCHANGED events

\* A person saves: in place, or by renaming a temporary file over the file.  The
\* contents may be the ones that were there.
Save(f) ==
    /\ at # "over"
    /\ \/ tree[f] < MaxVersion /\ tree' = [tree EXCEPT ![f] = @ + 1]
       \/ UNCHANGED tree
    /\ \E p \in Path :
          Emit([dir |-> FALSE, src |-> p, dest |-> IF p = f THEN NoPath ELSE f, by |-> "person"])
    /\ due' = observing
    /\ UNCHANGED <<only, reads, at, observing, dirty, todo, read, whole, base, heard>>

\* A directory's event, or a tool writing what no person edits.
ToolEvent ==
    /\ at # "over" /\ observing
    /\ \E p \in Path, dir \in BOOLEAN :
          /\ dir \/ p \notin File
          /\ Emit([dir |-> dir, src |-> p, dest |-> NoPath, by |-> "tool"])
    /\ UNCHANGED <<only, reads, at, observing, tree, dirty, todo, read, whole, base, due, heard>>

\* Another program, an editor or a linter, reads a source file.
ToolRead ==
    /\ at # "over" /\ observing /\ reads
    /\ \E f \in File : Emit([dir |-> FALSE, src |-> f, dest |-> NoPath, by |-> "read"])
    /\ UNCHANGED <<only, reads, at, observing, tree, dirty, todo, read, whole, base, due, heard>>

-----------------------------------------------------------------------------
\* watchdog's thread.

\* Fault: whatever happens in the tree is a change.
RelevantAlways(e) == TRUE

Relevant(e) == ~e.dir /\ \E p \in {e.src, e.dest} \ {NoPath} : IsSourceChange(p)

OnAnyEvent ==
    /\ observing /\ events # <<>>
    /\ events' = Tail(events)
    /\ dirty' = (dirty \/ Relevant(Head(events)))
    /\ heard' = heard \cup ({Head(events).by} \ {"tool"})
    /\ UNCHANGED <<only, reads, at, observing, tree, todo, read, whole, base, due>>

-----------------------------------------------------------------------------
\* The main thread.

\* refusal_reason: a mutation campaign writes into the tree it measures.
Refused == only = "test_integrity"

Begin(place) ==
    /\ at' = place
    /\ todo' = File
    /\ whole' = TRUE
    /\ due' = FALSE
    /\ heard' = {}

\* watch_repo: one run before the observer is started.
WatchRepo ==
    /\ at = "called"
    /\ \/ Refused /\ at' = "over" /\ UNCHANGED <<todo, whole, due, heard>>
       \/ ~Refused /\ Begin("first")
    /\ UNCHANGED <<only, reads, observing, tree, events, dirty, read, base>>

Running == at \in {"first", "running"}

\* The analysis reads one file, which makes an event where reads are reported; a
\* mutation campaign also writes it.
ReadFile(f) ==
    /\ Running
    /\ f \in todo
    /\ todo' = todo \ {f}
    /\ read' = [read EXCEPT ![f] = tree[f]]
    /\ IF only = "test_integrity"
       THEN Emit([dir |-> FALSE, src |-> f, dest |-> NoPath, by |-> "tool"])
       ELSE IF reads THEN Emit([dir |-> FALSE, src |-> f, dest |-> NoPath, by |-> "read"])
       ELSE UNCHANGED events
    /\ UNCHANGED <<only, reads, at, observing, tree, dirty, whole, base, due, heard>>

\* Fault: the flag is cleared after the run.
EndRunThenClear ==
    /\ Running
    /\ at' = IF at = "first" THEN "starting" ELSE "polling"
    /\ todo' = {}
    /\ whole' = (todo = {})
    /\ dirty' = FALSE
    /\ UNCHANGED <<only, reads, observing, tree, events, read, base, due, heard>>

\* _Rerun.run is over: a report, or at any time an exception, which it swallows.
EndRun ==
    /\ Running
    /\ at' = IF at = "first" THEN "starting" ELSE "polling"
    /\ todo' = {}
    /\ whole' = (todo = {})
    /\ UNCHANGED <<only, reads, observing, tree, events, dirty, read, base, due, heard>>

StartObserver ==
    /\ at = "starting"
    /\ observing' = TRUE
    /\ base' = tree
    /\ at' = "polling"
    /\ UNCHANGED <<only, reads, tree, events, dirty, todo, read, whole, due, heard>>

\* wait_for_change: the first wait.  Its timeout leads back to it.
Poll ==
    /\ at = "polling" /\ dirty
    /\ at' = "clearing"
    /\ UNCHANGED <<only, reads, observing, tree, events, dirty, todo, read, whole, base, due, heard>>

\* Fault: the flag is left as it is.
ClearNothing ==
    /\ at = "clearing"
    /\ at' = "settling"
    /\ UNCHANGED <<only, reads, observing, tree, events, dirty, todo, read, whole, base, due, heard>>

Clear ==
    /\ at = "clearing"
    /\ dirty' = FALSE
    /\ at' = "settling"
    /\ UNCHANGED <<only, reads, observing, tree, events, todo, read, whole, base, due, heard>>

\* The second wait: something new within the quiet period, or the burst is over.
Settle ==
    /\ at = "settling"
    /\ \/ dirty /\ at' = "clearing" /\ UNCHANGED <<todo, whole, due, heard>>
       \/ ~dirty /\ Begin("running")
    /\ UNCHANGED <<only, reads, observing, tree, events, dirty, read, base>>

\* Ctrl-C stops the observer.  In the first run there is none yet, and nothing
\* catches the exception, which ends the watch as well.
Interrupt ==
    /\ at \notin {"called", "over"}
    /\ at' = "over"
    /\ observing' = FALSE
    /\ UNCHANGED <<only, reads, tree, events, dirty, todo, read, whole, base, due, heard>>

-----------------------------------------------------------------------------
People == \E f \in File : Save(f)

Main ==
    \/ WatchRepo \/ EndRun \/ StartObserver \/ Poll \/ Clear \/ Settle
    \/ \E f \in File : ReadFile(f)

Next == People \/ ToolEvent \/ ToolRead \/ OnAnyEvent \/ Main \/ Interrupt

\* The loop and watchdog's thread go on; an analysis ends.  Nobody has to save.
Spec == Init /\ [][Next]_vars /\ WF_vars(Main) /\ WF_vars(OnAnyEvent)

-----------------------------------------------------------------------------
(* Properties. *)

TypeOK ==
    /\ only \in Only
    /\ reads \in BOOLEAN
    /\ at \in Places
    /\ observing \in BOOLEAN
    /\ tree \in [File -> 0..MaxVersion]
    /\ events \in Seq(Event) /\ Len(events) <= MaxEvents
    /\ dirty \in BOOLEAN
    /\ todo \subseteq File
    /\ read \in [File -> {-1} \cup 0..MaxVersion]
    /\ whole \in BOOLEAN
    /\ base \in [File -> 0..MaxVersion]
    /\ due \in BOOLEAN
    /\ heard \subseteq {"person", "read"}

\* No event that matters is on its way.
Quiet == ~dirty /\ \A i \in 1..Len(events) : ~Relevant(events[i])

\* A watch that sits and waits has lost nothing (_run_loop, wait_for_change): every
\* save since the observer started was followed by the beginning of a run, and what
\* that run read is what is on disk - unless it raised, or the file has not changed
\* since the observer started, which is after the first run had read it.
NothingForgotten ==
    (at = "polling" /\ Quiet) =>
        /\ ~due
        /\ whole => \A f \in File : read[f] = tree[f] \/ tree[f] = base[f]

\* "Turns file events into exactly one pending re-run": a re-run begins only when a
\* person's save was heard of since the latest one began.  A burst makes one run, and a
\* build makes none.  on_any_event asks an event for its path and not for its kind, so
\* where the observer reports reads one exception is as large as the rule: that a source
\* file was read is a change too, and a run, which reads every file, makes the next.
OnlySavesCauseRuns ==
    [][at' = "running" /\ at # "running" =>
          "person" \in heard \/ (reads /\ "read" \in heard)]_vars

\* Once people pause for good, and other programs leave the source unread where reads
\* are reported, every save since the observer started is followed by a run that begins
\* after it.  (While they do not pause for the quiet period, no run begins: the debounce
\* is trailing.  The events of a run's own reads end with it.)
EditsPause == <>[][~People /\ ~ToolRead]_vars
SavesAreAnalysed == EditsPause => <>[](~due \/ at = "over")
=============================================================================
