-------------------------- MODULE WatchLoopProofs --------------------------
(***************************************************************************)
(* The watch loop loses no save, for any tree, any set of ignored paths,   *)
(* and any interleaving of people, tools, watchdog and the loop.           *)
(***************************************************************************)
EXTENDS WatchLoop, TLAPS

LEMMA FilesArePaths == File \subseteq Path
  BY DEF File

LEMMA EmitTyped ==
    ASSUME NEW e \in Event, TypeOK, Emit(e)
    PROVE  events' \in Seq(Event) /\ Len(events') <= MaxEvents
<1>1. events \in Seq(Event) /\ Len(events) \in Nat /\ MaxEvents \in Nat
  BY ConstantsAssumption DEF TypeOK
<1>2. CASE observing
  <2>1. Len(events) < MaxEvents /\ events' = Append(events, e)
    BY <1>2 DEF Emit
  <2>2. events' \in Seq(Event) /\ Len(events') = Len(events) + 1
    BY <2>1, <1>1
  <2> QED BY <2>1, <2>2, <1>1
<1>3. CASE ~observing
  <2>1. UNCHANGED events
    BY <1>3 DEF Emit
  <2> QED BY <2>1 DEF TypeOK
<1> QED BY <1>2, <1>3

\* Every variable of the watch keeps its type; the queue is within its bound.
THEOREM Typing == Spec => []TypeOK
<1>1. Init => TypeOK
  <2>1. ASSUME Init PROVE tree \in [File -> 0..MaxVersion] /\ read \in [File -> {-1} \cup 0..MaxVersion]
    BY <2>1, ConstantsAssumption DEF Init
  <2>2. ASSUME Init PROVE events \in Seq(Event) /\ Len(events) <= MaxEvents
    BY <2>2, ConstantsAssumption DEF Init
  <2> QED BY <2>1, <2>2 DEF Init, TypeOK, Places
<1>2. TypeOK /\ [Next]_vars => TypeOK'
  <2> SUFFICES ASSUME TypeOK, [Next]_vars PROVE TypeOK'
    OBVIOUS
  <2> USE ConstantsAssumption, FilesArePaths DEF TypeOK, Places
  <2>1. ASSUME NEW f \in File, Save(f) PROVE TypeOK'
    <3>1. PICK p \in Path :
             Emit([dir |-> FALSE, src |-> p, dest |-> IF p = f THEN NoPath ELSE f, by |-> "person"])
      BY <2>1 DEF Save
    <3>2. events' \in Seq(Event) /\ Len(events') <= MaxEvents
      BY <3>1, EmitTyped DEF Event
    <3>3. tree' \in [File -> 0..MaxVersion]
      <4>1. MaxVersion \in Nat /\ tree[f] \in 0..MaxVersion
        OBVIOUS
      <4>2. CASE tree[f] < MaxVersion /\ tree' = [tree EXCEPT ![f] = @ + 1]
        <5>1. tree[f] + 1 \in 0..MaxVersion
          BY <4>1, <4>2
        <5> QED BY <4>2, <5>1
      <4> QED BY <2>1, <4>2 DEF Save
    <3> QED BY <2>1, <3>2, <3>3 DEF Save
  <2>2. CASE ToolEvent
    <3>1. PICK p \in Path, dir \in BOOLEAN :
             Emit([dir |-> dir, src |-> p, dest |-> NoPath, by |-> "tool"])
      BY <2>2 DEF ToolEvent
    <3>2. events' \in Seq(Event) /\ Len(events') <= MaxEvents
      BY <3>1, EmitTyped DEF Event
    <3> QED BY <2>2, <3>2 DEF ToolEvent
  <2>3. CASE OnAnyEvent
    <3>1. events' \in Seq(Event) /\ Len(events') <= MaxEvents
      BY <2>3 DEF OnAnyEvent
    <3>2. dirty' \in BOOLEAN /\ heard' \subseteq {"person", "read"}
      <4>1. events # <<>> /\ events \in Seq(Event)
        BY <2>3 DEF OnAnyEvent
      <4>2. Head(events) \in Event
        BY <4>1
      <4>3. Head(events).by \in {"person", "tool", "read"}
        BY <4>2 DEF Event
      <4> QED BY <2>3, <4>3 DEF OnAnyEvent, Relevant
    <3> QED BY <2>3, <3>1, <3>2 DEF OnAnyEvent
  <2>4. CASE WatchRepo BY <2>4 DEF WatchRepo, Begin
  <2>5. CASE EndRun BY <2>5 DEF EndRun
  <2>6. CASE StartObserver BY <2>6 DEF StartObserver
  <2>7. CASE Poll BY <2>7 DEF Poll
  <2>8. CASE Clear BY <2>8 DEF Clear
  <2>9. CASE Settle BY <2>9 DEF Settle, Begin
  <2>10. ASSUME NEW f \in File, ReadFile(f) PROVE TypeOK'
    <3>1. \A by \in {"tool", "read"} : [dir |-> FALSE, src |-> f, dest |-> NoPath, by |-> by] \in Event
      BY DEF Event
    <3>2. events' \in Seq(Event) /\ Len(events') <= MaxEvents
      BY <2>10, <3>1, EmitTyped DEF ReadFile
    <3> QED BY <2>10, <3>2 DEF ReadFile
  <2>11. CASE Interrupt BY <2>11 DEF Interrupt
  <2>12. CASE UNCHANGED vars BY <2>12 DEF vars
  <2>13. CASE ToolRead
    <3>1. PICK f \in File : Emit([dir |-> FALSE, src |-> f, dest |-> NoPath, by |-> "read"])
      BY <2>13 DEF ToolRead
    <3>2. events' \in Seq(Event) /\ Len(events') <= MaxEvents
      BY <3>1, EmitTyped DEF Event
    <3> QED BY <2>13, <3>2 DEF ToolRead
  <2> QED
    BY <2>1, <2>2, <2>3, <2>4, <2>5, <2>6, <2>7, <2>8, <2>9, <2>10, <2>11, <2>12, <2>13
       DEF Next, People, Main
<1> QED BY <1>1, <1>2, PTL DEF Spec

-----------------------------------------------------------------------------
\* Before the observer is started there is nothing to lose; from then on a save is
\* in the queue, in the flag, or about to be analysed.

OnItsWay == dirty \/ \E i \in 1..Len(events) : Relevant(events[i])

Stage ==
    /\ at \in {"called", "first", "starting"} =>
          ~observing /\ events = <<>> /\ ~dirty /\ ~due
    /\ at \in {"polling", "clearing", "settling", "running"} => observing
    /\ Running => whole

SavesOnTheirWay == due => OnItsWay \/ at \in {"clearing", "settling", "over"}

\* What differs from the disk has changed under the eyes of the observer, has not
\* been read yet, or has not changed since the observer started.
ReadOrDue ==
    \A f \in File :
        \/ read[f] = tree[f] \/ due \/ ~whole \/ (Running /\ f \in todo)
        \/ at \in {"called", "first", "starting", "over"} \/ tree[f] = base[f]

LoopInv == Stage /\ SavesOnTheirWay /\ ReadOrDue

\* A person's event is about a source file, in place or at the end of a rename.
LEMMA SaveIsRelevant ==
    ASSUME NEW f \in File, NEW p \in Path, NEW by
    PROVE  Relevant([dir |-> FALSE, src |-> p, dest |-> IF p = f THEN NoPath ELSE f, by |-> by])
<1>1. IsSourceChange(f) /\ f \in Path
  BY DEF File
<1>2. NoPath \notin Path
  BY ConstantsAssumption
<1> QED BY <1>1, <1>2 DEF Relevant

LEMMA EventKept ==
    ASSUME TypeOK, NEW e \in Event, observing, Emit(e),
           OnItsWay \/ Relevant(e), UNCHANGED dirty
    PROVE  OnItsWay'
<1>1. events' = Append(events, e) /\ Len(events) \in Nat /\ events \in Seq(Event)
  BY DEF Emit, TypeOK
<1>2. Len(events') = Len(events) + 1 /\ events'[Len(events) + 1] = e
      /\ \A i \in 1..Len(events) : events'[i] = events[i]
  BY <1>1
<1>3. CASE dirty
  BY <1>3 DEF OnItsWay
<1>4. CASE Relevant(e)
  <2>1. Len(events) + 1 \in 1..Len(events') /\ Relevant(events'[Len(events) + 1])
    BY <1>1, <1>2, <1>4
  <2> QED BY <2>1 DEF OnItsWay, Relevant
<1>5. ASSUME NEW i \in 1..Len(events), Relevant(events[i]) PROVE OnItsWay'
  <2>1. i \in 1..Len(events') /\ Relevant(events'[i])
    BY <1>1, <1>2, <1>5
  <2> QED BY <2>1 DEF OnItsWay, Relevant
<1> QED BY <1>3, <1>4, <1>5 DEF OnItsWay

LEMMA LoopInvariant == Spec => []LoopInv
<1>1. Init => LoopInv
  BY DEF Init, LoopInv, Stage, Running, SavesOnTheirWay, ReadOrDue
<1>2. TypeOK /\ LoopInv /\ [Next]_vars => LoopInv'
  <2> SUFFICES ASSUME TypeOK, LoopInv, [Next]_vars PROVE LoopInv'
    OBVIOUS
  <2> USE DEF LoopInv
  <2>1. ASSUME NEW f \in File, Save(f) PROVE LoopInv'
    <3>1. PICK p \in Path :
             Emit([dir |-> FALSE, src |-> p, dest |-> IF p = f THEN NoPath ELSE f, by |-> "person"])
      BY <2>1 DEF Save
    <3>2. Stage'
      BY <2>1, <3>1 DEF Save, Stage, Running, Emit
    <3>3. SavesOnTheirWay'
      <4>1. ASSUME observing PROVE OnItsWay'
        <5>1. [dir |-> FALSE, src |-> p, dest |-> IF p = f THEN NoPath ELSE f, by |-> "person"]
                \in Event
          BY FilesArePaths DEF Event
        <5> QED BY <2>1, <3>1, <4>1, <5>1, SaveIsRelevant, EventKept DEF Save
      <4> QED BY <2>1, <4>1 DEF Save, SavesOnTheirWay
    <3>4. ReadOrDue'
      <4>1. CASE observing
        BY <2>1, <4>1 DEF Save, ReadOrDue
      <4>2. CASE ~observing
        BY <2>1, <4>2 DEF Save, ReadOrDue, Stage, Running, TypeOK, Places
      <4> QED BY <4>1, <4>2
    <3> QED BY <3>2, <3>3, <3>4
  <2>2. CASE ToolEvent
    <3>1. PICK p \in Path, dir \in BOOLEAN :
             Emit([dir |-> dir, src |-> p, dest |-> NoPath, by |-> "tool"])
      BY <2>2 DEF ToolEvent
    <3>2. Stage' /\ ReadOrDue'
      BY <2>2 DEF ToolEvent, Stage, ReadOrDue, Running
    <3>3. OnItsWay => OnItsWay'
      BY <2>2, <3>1, EventKept DEF ToolEvent, Event
    <3> QED BY <2>2, <3>2, <3>3 DEF ToolEvent, SavesOnTheirWay
  <2>3. CASE OnAnyEvent
    <3>1. Stage' /\ ReadOrDue'
      BY <2>3 DEF OnAnyEvent, Stage, ReadOrDue, Running
    <3>2. OnItsWay => OnItsWay'
      <4>1. events \in Seq(Event) /\ events # <<>> /\ events' = Tail(events)
        BY <2>3 DEF OnAnyEvent, TypeOK
      <4>2. ASSUME NEW i \in 1..Len(events), Relevant(events[i]) PROVE OnItsWay'
        <5>1. CASE i = 1
          <6>1. events[1] = Head(events)
            BY <4>1
          <6>2. dirty'
            BY <2>3, <4>2, <5>1, <6>1 DEF OnAnyEvent
          <6> QED BY <6>2 DEF OnItsWay
        <5>2. CASE i # 1
          <6>1. i - 1 \in 1..Len(events') /\ events'[i - 1] = events[i]
            BY <4>1, <5>2
          <6> QED BY <4>2, <6>1 DEF OnItsWay, Relevant
        <5> QED BY <5>1, <5>2
      <4> QED BY <2>3, <4>2 DEF OnAnyEvent, OnItsWay
    <3> QED BY <2>3, <3>1, <3>2 DEF OnAnyEvent, SavesOnTheirWay
  <2>4. CASE WatchRepo
    BY <2>4 DEF OnItsWay, Relevant, WatchRepo, Begin, Stage, SavesOnTheirWay, ReadOrDue, Running
  <2>5. CASE EndRun
    <3>1. Stage' /\ SavesOnTheirWay'
      BY <2>5 DEF EndRun, Running, Stage, SavesOnTheirWay, OnItsWay, Relevant
    <3>2. ReadOrDue'
      <4>1. CASE todo = {}
        BY <2>5, <4>1 DEF EndRun, Running, Stage, ReadOrDue
      <4>2. CASE todo # {}
        BY <2>5, <4>2 DEF EndRun, ReadOrDue
      <4> QED BY <4>1, <4>2
    <3> QED BY <3>1, <3>2
  <2>6. CASE StartObserver
    BY <2>6 DEF StartObserver, Stage, Running, SavesOnTheirWay, ReadOrDue, OnItsWay, TypeOK
  <2>7. CASE Poll
    BY <2>7 DEF Poll, Stage, SavesOnTheirWay, ReadOrDue, Running
  <2>8. CASE Clear
    BY <2>8 DEF Clear, Stage, SavesOnTheirWay, ReadOrDue, Running
  <2>9. CASE Settle
    BY <2>9 DEF Settle, Begin, Stage, SavesOnTheirWay, ReadOrDue, Running
  <2>10. ASSUME NEW f \in File, ReadFile(f) PROVE LoopInv'
    <3>1. ReadOrDue'
      BY <2>10 DEF ReadFile, ReadOrDue, Running, TypeOK
    <3>2. Stage'
      BY <2>10 DEF ReadFile, Stage, Emit, Running
    <3>3. OnItsWay => OnItsWay'
      <4>1. CASE UNCHANGED events
        BY <2>10, <4>1 DEF ReadFile, OnItsWay, Relevant
      <4>2. ASSUME NEW by \in {"tool", "read"}, observing,
                   Emit([dir |-> FALSE, src |-> f, dest |-> NoPath, by |-> by])
            PROVE  OnItsWay => OnItsWay'
        BY <2>10, <4>2, FilesArePaths, EventKept DEF ReadFile, Event
      <4> QED BY <2>10, <4>1, <4>2 DEF ReadFile, Emit
    <3> QED BY <2>10, <3>1, <3>2, <3>3 DEF ReadFile, SavesOnTheirWay
  <2>11. CASE Interrupt
    BY <2>11 DEF Interrupt, Stage, Running, SavesOnTheirWay, ReadOrDue
  <2>12. CASE UNCHANGED vars
    BY <2>12 DEF vars, Stage, SavesOnTheirWay, ReadOrDue, Running, OnItsWay, Relevant
  <2>13. CASE ToolRead
    <3>1. PICK f \in File : Emit([dir |-> FALSE, src |-> f, dest |-> NoPath, by |-> "read"])
      BY <2>13 DEF ToolRead
    <3>2. Stage' /\ ReadOrDue'
      BY <2>13 DEF ToolRead, Stage, ReadOrDue, Running
    <3>3. OnItsWay => OnItsWay'
      BY <2>13, <3>1, FilesArePaths, EventKept DEF ToolRead, Event
    <3> QED BY <2>13, <3>2, <3>3 DEF ToolRead, SavesOnTheirWay
  <2> QED
    BY <2>1, <2>2, <2>3, <2>4, <2>5, <2>6, <2>7, <2>8, <2>9, <2>10, <2>11, <2>12, <2>13
       DEF Next, People, Main
<1> QED BY <1>1, <1>2, Typing, PTL DEF Spec

\* A watch that waits has lost no save (wait_for_change, _run_loop), whatever the
\* tree and whoever else writes into it.
THEOREM NoSaveIsLost == Spec => []NothingForgotten
<1>1. TypeOK /\ LoopInv => NothingForgotten
  BY DEF LoopInv, SavesOnTheirWay, ReadOrDue, NothingForgotten, Quiet, OnItsWay, Running
<1> QED BY <1>1, Typing, LoopInvariant, PTL

-----------------------------------------------------------------------------
\* Whatever sets the flag is a person's event, or a read that the observer reports, and
\* is remembered in `heard` until the run it causes begins.

Reason(by) == by = "person" \/ (reads /\ by = "read")

ToolsAreIrrelevant ==
    \A i \in 1..Len(events) : Relevant(events[i]) => Reason(events[i].by)

HeardOf ==
    /\ dirty \/ at \in {"clearing", "settling"} => \E by \in heard : Reason(by)
    /\ at \notin {"called", "over"} => only # "test_integrity"

LEMMA TailKeepsIrrelevant ==
    ASSUME TypeOK, ToolsAreIrrelevant, events # <<>>, events' = Tail(events), UNCHANGED reads
    PROVE  ToolsAreIrrelevant'
<1>1. events \in Seq(Event)
  BY DEF TypeOK
<1>2. ASSUME NEW i \in 1..Len(events'), Relevant(events'[i]) PROVE Reason(events'[i].by)
  <2>1. i + 1 \in 1..Len(events) /\ events'[i] = events[i + 1]
    BY <1>1
  <2> QED BY <1>2, <2>1 DEF ToolsAreIrrelevant, Reason
<1> QED BY <1>2 DEF ToolsAreIrrelevant, Relevant, Reason

LEMMA EmitKeepsIrrelevant ==
    ASSUME TypeOK, ToolsAreIrrelevant, NEW e \in Event, Emit(e),
           Relevant(e) => Reason(e.by), UNCHANGED reads
    PROVE  ToolsAreIrrelevant'
<1>1. CASE observing
  <2>1. events' = Append(events, e) /\ events \in Seq(Event)
    BY <1>1 DEF Emit, TypeOK
  <2>2. ASSUME NEW i \in 1..Len(events'), Relevant(events'[i]) PROVE Reason(events'[i].by)
    <3>1. events'[i] = IF i <= Len(events) THEN events[i] ELSE e
      BY <2>1
    <3>2. i <= Len(events) => i \in 1..Len(events)
      OBVIOUS
    <3> QED BY <2>2, <3>1, <3>2 DEF ToolsAreIrrelevant, Reason
  <2> QED BY <2>2 DEF ToolsAreIrrelevant, Relevant, Reason
<1>2. CASE ~observing
  BY <1>2 DEF Emit, ToolsAreIrrelevant, Relevant, Reason
<1> QED BY <1>1, <1>2

LEMMA ReadIsAReason ==
    ASSUME TypeOK, ToolsAreIrrelevant, NEW f \in File, reads, UNCHANGED reads,
           Emit([dir |-> FALSE, src |-> f, dest |-> NoPath, by |-> "read"])
    PROVE  ToolsAreIrrelevant'
<1> DEFINE e == [dir |-> FALSE, src |-> f, dest |-> NoPath, by |-> "read"]
<1>1. e \in Event
  BY FilesArePaths DEF Event
<1>2. Reason(e.by)
  BY DEF Reason
<1>3. Emit(e)
  OBVIOUS
<1> HIDE DEF e
<1> QED BY <1>1, <1>2, <1>3, EmitKeepsIrrelevant

LEMMA HeardInvariant == Spec => [](ToolsAreIrrelevant /\ HeardOf)
<1>1. Init => ToolsAreIrrelevant /\ HeardOf
  BY DEF Init, ToolsAreIrrelevant, HeardOf
<1>2. TypeOK /\ LoopInv /\ ToolsAreIrrelevant /\ HeardOf /\ [Next]_vars
      => ToolsAreIrrelevant' /\ HeardOf'
  <2> SUFFICES ASSUME TypeOK, LoopInv, ToolsAreIrrelevant, HeardOf, [Next]_vars
               PROVE  ToolsAreIrrelevant' /\ HeardOf'
    OBVIOUS
  <2> USE DEF HeardOf, Reason
  <2>1. ASSUME NEW f \in File, Save(f) PROVE ToolsAreIrrelevant' /\ HeardOf'
    <3>1. PICK p \in Path :
             Emit([dir |-> FALSE, src |-> p, dest |-> IF p = f THEN NoPath ELSE f, by |-> "person"])
      BY <2>1 DEF Save
    <3>0. UNCHANGED reads
      BY <2>1 DEF Save
    <3>2. ToolsAreIrrelevant'
      BY <3>0, <3>1, FilesArePaths, EmitKeepsIrrelevant DEF Event
    <3> QED BY <2>1, <3>2 DEF Save
  <2>2. CASE ToolEvent
    <3>1. PICK p \in Path, dir \in BOOLEAN :
             /\ dir \/ p \notin File
             /\ Emit([dir |-> dir, src |-> p, dest |-> NoPath, by |-> "tool"])
      BY <2>2 DEF ToolEvent
    <3>2. ~Relevant([dir |-> dir, src |-> p, dest |-> NoPath, by |-> "tool"])
      BY <3>1 DEF Relevant, File
    <3>0. UNCHANGED reads
      BY <2>2 DEF ToolEvent
    <3>3. ToolsAreIrrelevant'
      BY <3>0, <3>1, <3>2, EmitKeepsIrrelevant DEF Event
    <3> QED BY <2>2, <3>3 DEF ToolEvent
  <2>3. CASE OnAnyEvent
    <3>1. events \in Seq(Event) /\ events # <<>> /\ events' = Tail(events)
      BY <2>3 DEF OnAnyEvent, TypeOK
    <3>2. 1 \in 1..Len(events) /\ events[1] = Head(events)
      BY <3>1
    <3>3. Relevant(Head(events)) => Reason(Head(events).by)
      BY <3>2 DEF ToolsAreIrrelevant
    <3> QED BY <2>3, <3>1, <3>3, TailKeepsIrrelevant DEF OnAnyEvent
  <2>4. CASE WatchRepo
    BY <2>4 DEF WatchRepo, Begin, Refused, LoopInv, Stage, ToolsAreIrrelevant, Relevant
  <2>5. CASE EndRun BY <2>5 DEF EndRun, Running, ToolsAreIrrelevant, Relevant
  <2>6. CASE StartObserver BY <2>6 DEF StartObserver, ToolsAreIrrelevant, Relevant
  <2>7. CASE Poll BY <2>7 DEF Poll, ToolsAreIrrelevant, Relevant
  <2>8. CASE Clear BY <2>8 DEF Clear, ToolsAreIrrelevant, Relevant
  <2>9. CASE Settle BY <2>9 DEF Settle, Begin, ToolsAreIrrelevant, Relevant
  <2>10. ASSUME NEW f \in File, ReadFile(f) PROVE ToolsAreIrrelevant' /\ HeardOf'
    <3>1. only # "test_integrity"
      BY <2>10 DEF ReadFile, Running
    <3>2. CASE UNCHANGED events
      BY <2>10, <3>2 DEF ReadFile, ToolsAreIrrelevant, Relevant
    <3>3. CASE reads /\ Emit([dir |-> FALSE, src |-> f, dest |-> NoPath, by |-> "read"])
      <4>1. UNCHANGED <<reads, only, at, dirty, heard>>
        BY <2>10 DEF ReadFile
      <4>2. ToolsAreIrrelevant'
        BY <3>3, <4>1, ReadIsAReason
      <4> QED BY <4>1, <4>2
    <3> QED BY <2>10, <3>1, <3>2, <3>3 DEF ReadFile
  <2>11. CASE Interrupt BY <2>11 DEF Interrupt, ToolsAreIrrelevant, Relevant
  <2>12. CASE UNCHANGED vars BY <2>12 DEF vars, ToolsAreIrrelevant, Relevant
  <2>13. CASE ToolRead
    <3>1. PICK f \in File : reads /\ Emit([dir |-> FALSE, src |-> f, dest |-> NoPath, by |-> "read"])
      BY <2>13 DEF ToolRead
    <3>2. UNCHANGED <<reads, only, at, dirty, heard>>
      BY <2>13 DEF ToolRead
    <3>3. ToolsAreIrrelevant'
      BY <3>1, <3>2, ReadIsAReason
    <3> QED BY <3>2, <3>3
  <2> QED
    BY <2>1, <2>2, <2>3, <2>4, <2>5, <2>6, <2>7, <2>8, <2>9, <2>10, <2>11, <2>12, <2>13
       DEF Next, People, Main
<1> QED BY <1>1, <1>2, Typing, LoopInvariant, PTL DEF Spec

\* A run is caused by a person's save it has not yet answered (class _Rerun), or, where
\* the observer reports reads, by a read: a burst makes one run, and a build none.
THEOREM OneRunPerBurst == Spec => OnlySavesCauseRuns
<1>1. HeardOf /\ [Next]_vars =>
        [at' = "running" /\ at # "running" =>
            "person" \in heard \/ (reads /\ "read" \in heard)]_vars
  <2> SUFFICES ASSUME HeardOf, [Next]_vars, at' = "running", at # "running"
               PROVE  "person" \in heard \/ (reads /\ "read" \in heard)
    OBVIOUS
  <2>1. Settle
    BY DEF Next, People, Main, Save, ToolEvent, ToolRead, OnAnyEvent, WatchRepo, EndRun,
           StartObserver, Poll, Clear, ReadFile, Interrupt, Begin, vars
  <2> QED BY <2>1 DEF Settle, HeardOf, Reason
<1> QED BY <1>1, HeardInvariant, PTL DEF Spec, OnlySavesCauseRuns
=============================================================================
