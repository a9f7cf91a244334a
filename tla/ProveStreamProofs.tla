-------------------------- MODULE ProveStreamProofs --------------------------
(***************************************************************************)
(* Proofs about ProveStream for any finite set of requests, any number of  *)
(* slots and any queue size: the semaphore's accounts balance, a checkout  *)
(* is never removed under a live run, and a run whose events fit into the  *)
(* queue loses none of them.                                               *)
(***************************************************************************)
EXTENDS ProveStream, FiniteSetTheorems, SequenceTheorems, TLAPS

\* A removed checkout belongs to a request that is past using it.
DirOK ==
    \A r \in Request :
        dir[r] = "removed" =>
            pc[r] \in {"answered", "release", "closed", "lost"} /\ ~ Alive(r)

IInv == TypeOK /\ SlotsAccounted /\ DirOK

-----------------------------------------------------------------------------
\* Those holding a slot are among the requests, so there are finitely many.
LEMMA HoldingFinite == IsFiniteSet(Holding) /\ Cardinality(Holding) \in Nat
<1>1. Holding \subseteq Request
  BY DEF Holding
<1> QED
  BY <1>1, FS_Subset, FS_CardinalityType, ConstantsAssumption DEF ConstantsAssumption

\* A request that starts to hold, stops holding or changes neither moves the
\* count by one, by minus one or not at all.
Held == {"setup", "direct", "handed", "yield", "get", "join", "cleanup", "release", "lost"}

LEMMA Moving ==
    ASSUME TypeOK, NEW r \in Request, NEW p \in Places, Goto(r, p)
    PROVE  /\ pc' \in [Request -> Places]
           /\ pc[r] \notin Held /\ p \in Held => Cardinality(Holding') = Cardinality(Holding) + 1
           /\ pc[r] \in Held /\ p \notin Held => Cardinality(Holding') = Cardinality(Holding) - 1
           /\ (pc[r] \in Held <=> p \in Held) => Holding' = Holding
<1>1. /\ pc \in [Request -> Places]
      /\ pc' = [pc EXCEPT ![r] = p]
  BY DEF TypeOK, Goto
<1>2. Holding = {x \in Request : pc[x] \in Held} /\ Holding' = {x \in Request : pc'[x] \in Held}
  BY DEF Holding, Held
<1>3. pc'[r] = p /\ \A x \in Request : x # r => pc'[x] = pc[x]
  BY <1>1
<1>4. ASSUME pc[r] \notin Held, p \in Held
      PROVE  Cardinality(Holding') = Cardinality(Holding) + 1
  <2>1. Holding' = Holding \cup {r} /\ r \notin Holding
    BY <1>2, <1>3, <1>4
  <2> QED
    BY <2>1, HoldingFinite, FS_AddElement
<1>5. ASSUME pc[r] \in Held, p \notin Held
      PROVE  Cardinality(Holding') = Cardinality(Holding) - 1
  <2>1. Holding' = Holding \ {r} /\ r \in Holding
    BY <1>2, <1>3, <1>5
  <2> QED
    BY <2>1, HoldingFinite, FS_RemoveElement
<1>6. ASSUME pc[r] \in Held <=> p \in Held
      PROVE  Holding' = Holding
  BY <1>2, <1>3, <1>6
<1>7. pc' \in [Request -> Places]
  BY <1>1
<1> QED
  BY <1>4, <1>5, <1>6, <1>7

-----------------------------------------------------------------------------
LEMMA InvInit == Init => IInv
<1> SUFFICES ASSUME Init PROVE IInv
  OBVIOUS
<1>1. TypeOK
  BY ConstantsAssumption DEF Init, TypeOK, Places, ConstantsAssumption
<1>2. Holding = {}
  BY DEF Init, Holding
<1>3. SlotsAccounted
  BY <1>2, FS_EmptySet, ConstantsAssumption DEF SlotsAccounted, Init, ConstantsAssumption
<1>4. DirOK
  BY DEF Init, DirOK
<1> QED
  BY <1>1, <1>3, <1>4 DEF IInv

\* The accounts after a step that takes a slot, gives one back or moves a request
\* between places that agree on whether it holds one.
LEMMA Accounting ==
    ASSUME TypeOK, SlotsAccounted, NEW r \in Request, NEW p \in Places, Goto(r, p),
           \/ pc[r] \notin Held /\ p \in Held /\ slots > 0 /\ slots' = slots - 1
           \/ pc[r] \in Held /\ p \notin Held /\ slots' = slots + 1
           \/ (pc[r] \in Held <=> p \in Held) /\ slots' = slots
    PROVE  SlotsAccounted' /\ slots' \in 0..MaxSlots
<1>1. /\ slots \in 0..MaxSlots
      /\ slots + Cardinality(Holding) = MaxSlots
      /\ MaxSlots \in Nat
      /\ Cardinality(Holding) \in Nat
  BY HoldingFinite, ConstantsAssumption DEF TypeOK, SlotsAccounted, ConstantsAssumption
<1>2. CASE pc[r] \notin Held /\ p \in Held /\ slots > 0 /\ slots' = slots - 1
  <2>1. Cardinality(Holding') = Cardinality(Holding) + 1
    BY <1>2, Moving
  <2> QED
    BY <1>1, <1>2, <2>1 DEF SlotsAccounted
<1>3. CASE pc[r] \in Held /\ p \notin Held /\ slots' = slots + 1
  <2>1. Cardinality(Holding') = Cardinality(Holding) - 1
    BY <1>3, Moving
  <2>2. r \in Holding
    BY <1>3 DEF Holding, Held
  <2>3. Cardinality(Holding) # 0
    BY <2>2, HoldingFinite, FS_EmptySet
  <2> QED
    BY <1>1, <1>3, <2>1, <2>3 DEF SlotsAccounted
<1>4. CASE (pc[r] \in Held <=> p \in Held) /\ slots' = slots
  <2>1. Holding' = Holding
    BY <1>4, Moving
  <2> QED
    BY <1>1, <1>4, <2>1 DEF SlotsAccounted
<1> QED
  BY <1>2, <1>3, <1>4

\* A step that leaves `pc` and `slots` alone leaves the accounts alone.
LEMMA Unmoved ==
    ASSUME SlotsAccounted, UNCHANGED <<slots, pc>>
    PROVE  SlotsAccounted'
BY DEF SlotsAccounted, Holding

-----------------------------------------------------------------------------
\* An ended worker stays ended: nothing it could still do is enabled.
LEMMA EndedStays ==
    ASSUME NEW r \in Request, Begun(r), ~ Alive(r)
    PROVE  ~ Emitter(r) /\ ~ InRunSteps(r)
<1>1. SaidEnd(r) /\ ~ putting[r]
  BY DEF Alive
<1>2. ~ SaidEnding(r)
  BY <1>1 DEF SaidEnd, SaidEnding
<1> QED
  BY <1>1, <1>2 DEF Emitter, InRunSteps, EmitEnd, Put, PutTimesOut, EmitCandidates,
     EmitFinding, EmitReport, EmitError, InRun

\* The request thread keeps the invariant.
LEMMA RequestThreadStep ==
    ASSUME IInv, NEW r \in Request, RequestThread(r)
    PROVE  IInv'
<1> USE DEF IInv
<1>1. UNCHANGED <<connected, worker, q, taken>>
  BY DEF RequestThread, TakeSlot, Refuse, HandOver, StartDirect, EndDirect
<1>2. PICK p \in {"setup", "refused", "handed", "direct", "answered"} :
          /\ Goto(r, p)
          /\ \/ pc[r] = "idle" /\ p = "setup" /\ slots > 0 /\ slots' = slots - 1 /\ dir' = dir
             \/ pc[r] = "idle" /\ p = "refused" /\ slots' = slots /\ dir' = dir
             \/ pc[r] = "setup" /\ p = "refused" /\ slots' = slots + 1 /\ dir' = dir
             \/ pc[r] = "setup" /\ p \in {"handed", "direct"} /\ slots' = slots /\ Enter(r)
             \/ pc[r] = "direct" /\ p = "answered" /\ slots' = slots + 1 /\ Leave(r)
  BY DEF RequestThread, TakeSlot, Refuse, HandOver, StartDirect, EndDirect, At
<1>3. p \in Places
  BY DEF Places
<1>4. SlotsAccounted' /\ slots' \in 0..MaxSlots
  BY <1>2, <1>3, Accounting DEF Held
<1>5. pc' \in [Request -> Places] /\ pc' = [pc EXCEPT ![r] = p]
  BY <1>2, <1>3, Moving DEF Goto
<1>6. dir' \in [Request -> {"none", "live", "removed"}] /\ \A x \in Request : x # r => dir'[x] = dir[x]
  BY <1>2 DEF TypeOK, Enter, Leave
<1>7. TypeOK'
  BY <1>1, <1>4, <1>5, <1>6 DEF TypeOK, worker
<1>8. DirOK'
  <2> SUFFICES ASSUME NEW x \in Request, dir'[x] = "removed"
               PROVE  pc'[x] \in {"answered", "release", "closed", "lost"} /\ ~ Alive(x)'
    BY DEF DirOK
  <2>1. CASE x # r
    <3>1. pc'[x] = pc[x] /\ dir'[x] = dir[x]
      BY <1>5, <1>6, <2>1 DEF TypeOK
    <3>2. Alive(x)' = Alive(x)
      BY <1>1, <3>1 DEF Alive, Begun, SaidEnd, worker
    <3> QED
      BY <3>1, <3>2 DEF DirOK
  <2>2. CASE x = r
    <3>1. pc'[r] = p
      BY <1>5 DEF TypeOK
    <3>2. dir[r] # "removed"
      BY <1>2 DEF DirOK
    <3>3. p = "answered"
      BY <1>2, <2>2, <3>2 DEF Enter, TypeOK
    <3> QED
      BY <2>2, <3>1, <3>3 DEF Alive, Begun
  <2> QED
    BY <2>1, <2>2
<1> QED
  BY <1>4, <1>7, <1>8

\* The generator keeps the invariant.
LEMMA GeneratorStep ==
    ASSUME IInv, NEW r \in Request, Generator(r)
    PROVE  IInv'
<1> USE DEF IInv
<1>1. UNCHANGED <<connected, worker>>
  BY DEF Generator, Open, Abandon, Get, Close, Join, Cleanup, Release
<1>2. PICK p \in {"yield", "lost", "join", "cleanup", "release", "closed"} :
          /\ Goto(r, p)
          /\ \/ pc[r] \in {"handed", "yield", "get", "join"} /\ p \in {"yield", "join", "cleanup"}
                  /\ slots' = slots /\ dir' = dir
             \/ pc[r] = "handed" /\ p = "lost" /\ slots' = slots /\ Leave(r)
             \/ pc[r] = "cleanup" /\ p = "release" /\ slots' = slots
                  /\ IF Alive(r) THEN dir' = dir ELSE Leave(r)
             \/ pc[r] = "release" /\ p = "closed" /\ slots' = slots + 1 /\ dir' = dir
  BY DEF Generator, Open, Abandon, Get, Close, Join, Cleanup, Release, At, After
<1>3. p \in Places
  BY DEF Places
<1>4. SlotsAccounted' /\ slots' \in 0..MaxSlots
  BY <1>2, <1>3, Accounting DEF Held
<1>5. pc' \in [Request -> Places] /\ pc' = [pc EXCEPT ![r] = p]
  BY <1>2, <1>3, Moving DEF Goto
<1>6. dir' \in [Request -> {"none", "live", "removed"}] /\ \A x \in Request : x # r => dir'[x] = dir[x]
  BY <1>2 DEF TypeOK, Leave
<1>7. q' \in [Request -> Seq(Nat)] /\ taken' \in [Request -> Seq(Nat)]
  <2>1. CASE Get(r)
    <3>1. q[r] \in Seq(Nat) /\ q[r] # <<>>
      BY <2>1 DEF Get, TypeOK
    <3>2. Head(q[r]) \in Nat /\ Tail(q[r]) \in Seq(Nat) /\ Append(taken[r], Head(q[r])) \in Seq(Nat)
      BY <3>1 DEF TypeOK
    <3> QED
      BY <2>1, <3>2 DEF Get, TypeOK
  <2>2. CASE ~ Get(r)
    BY <2>2 DEF Generator, Open, Abandon, Close, Join, Cleanup, Release, TypeOK
  <2> QED
    BY <2>1, <2>2
<1>8. TypeOK'
  BY <1>1, <1>4, <1>5, <1>6, <1>7 DEF TypeOK, worker
<1>9. DirOK'
  <2> SUFFICES ASSUME NEW x \in Request, dir'[x] = "removed"
               PROVE  pc'[x] \in {"answered", "release", "closed", "lost"} /\ ~ Alive(x)'
    BY DEF DirOK
  <2>1. CASE x # r
    <3>1. pc'[x] = pc[x] /\ dir'[x] = dir[x]
      BY <1>5, <1>6, <2>1 DEF TypeOK
    <3>2. Alive(x)' = Alive(x)
      BY <1>1, <3>1 DEF Alive, Begun, SaidEnd, worker
    <3> QED
      BY <3>1, <3>2 DEF DirOK
  <2>2. CASE x = r
    <3>1. pc'[r] = p
      BY <1>5 DEF TypeOK
    <3>2. dir[r] = "removed" => pc[r] = "release" /\ ~ Alive(r)
      BY <1>2 DEF DirOK
    <3>3. SaidEnd(r)' = SaidEnd(r) /\ putting'[r] = putting[r]
      BY <1>1 DEF SaidEnd, worker
    <3>4. CASE p = "lost"
      BY <2>2, <3>1, <3>4 DEF Alive, Begun
    <3>5. CASE p = "release"
      <4>1. ~ Alive(r) /\ Begun(r)
        BY <1>2, <2>2, <3>2, <3>5 DEF Begun
      <4> QED
        BY <2>2, <3>1, <3>3, <3>5, <4>1 DEF Alive
    <3>6. CASE p = "closed"
      <4>1. ~ Alive(r) /\ Begun(r)
        BY <1>2, <2>2, <3>2, <3>6 DEF Begun
      <4> QED
        BY <2>2, <3>1, <3>3, <3>6, <4>1 DEF Alive
    <3>7. p \in {"lost", "release", "closed"}
      BY <1>2, <2>2, <3>2
    <3> QED
      BY <3>4, <3>5, <3>6, <3>7
  <2> QED
    BY <2>1, <2>2
<1> QED
  BY <1>4, <1>8, <1>9

\* The worker keeps the invariant.
LEMMA WorkerStep ==
    ASSUME IInv, NEW r \in Request, InRunSteps(r) \/ Emitter(r)
    PROVE  IInv'
<1> USE DEF IInv
<1>1. UNCHANGED <<slots, pc, dir, connected, taken>>
  BY DEF InRunSteps, Emitter, EmitCandidates, EmitFinding, EmitReport, EmitError, EmitEnd, Emit,
     Put, PutTimesOut
<1>2. SlotsAccounted'
  BY <1>1, Unmoved
<1>3. TypeOK'
  <2>1. ASSUME NEW kind \in Kinds, Emit(r, kind)
        PROVE  TypeOK'
    <3>1. Append(said[r], kind) \in Seq(Kinds)
      BY DEF TypeOK
    <3> QED
      BY <2>1, <3>1 DEF TypeOK, Emit
  <2>2. CASE InRunSteps(r) \/ EmitEnd(r)
    <3>1. \E kind \in Kinds : Emit(r, kind)
      BY <2>2 DEF InRunSteps, EmitCandidates, EmitFinding, EmitReport, EmitError, EmitEnd, Kinds
    <3> QED
      BY <2>1, <3>1
  <2>3. CASE Put(r)
    <3>1. Append(q[r], Len(said[r])) \in Seq(Nat)
      BY DEF TypeOK
    <3> QED
      BY <2>3, <3>1 DEF TypeOK, Put
  <2>4. CASE PutTimesOut(r)
    BY <2>4 DEF TypeOK, PutTimesOut
  <2> QED
    BY <2>2, <2>3, <2>4 DEF Emitter
<1>4. DirOK'
  <2> SUFFICES ASSUME NEW x \in Request, dir'[x] = "removed"
               PROVE  pc'[x] \in {"answered", "release", "closed", "lost"} /\ ~ Alive(x)'
    BY DEF DirOK
  <2>1. pc'[x] \in {"answered", "release", "closed", "lost"} /\ ~ Alive(x)
    BY <1>1 DEF DirOK
  <2>2. CASE x # r
    <3>1. said'[x] = said[x] /\ putting'[x] = putting[x]
      BY <2>2 DEF InRunSteps, Emitter, EmitCandidates, EmitFinding, EmitReport, EmitError,
         EmitEnd, Emit, Put, PutTimesOut, TypeOK
    <3> QED
      BY <1>1, <2>1, <3>1 DEF Alive, Begun, SaidEnd
  <2>3. CASE x = r
    <3>1. ~ Begun(r)
      BY <2>1, <2>3, EndedStays
    <3> QED
      BY <1>1, <2>1, <2>3, <3>1 DEF Alive, Begun
  <2> QED
    BY <2>2, <2>3
<1> QED
  BY <1>2, <1>3, <1>4

\* The reader keeps the invariant.
LEMMA ReaderStep ==
    ASSUME IInv, NEW r \in Request, Reader(r)
    PROVE  IInv'
<1> USE DEF IInv
<1>1. UNCHANGED <<slots, dir, worker, q, taken>>
  BY DEF Reader, Read, Disconnect
<1>2. CASE Read(r)
  <2>1. pc[r] = "yield" /\ Goto(r, "get") /\ UNCHANGED connected
    BY <1>2 DEF Read, At
  <2>2. "get" \in Places
    BY DEF Places
  <2>3. SlotsAccounted'
    BY <1>1, <2>1, <2>2, Accounting DEF Held
  <2>4. TypeOK'
    BY <1>1, <2>1, <2>2, Moving DEF TypeOK, worker
  <2>5. DirOK'
    <3> SUFFICES ASSUME NEW x \in Request, dir'[x] = "removed"
                 PROVE  pc'[x] \in {"answered", "release", "closed", "lost"} /\ ~ Alive(x)'
      BY DEF DirOK
    <3>1. x # r /\ pc'[x] = pc[x]
      BY <1>1, <2>1 DEF DirOK, Goto, TypeOK
    <3> QED
      BY <1>1, <3>1 DEF DirOK, Alive, Begun, SaidEnd, worker
  <2> QED
    BY <2>3, <2>4, <2>5
<1>3. CASE Disconnect(r)
  <2>1. UNCHANGED pc /\ connected' \in [Request -> BOOLEAN]
    BY <1>3 DEF Disconnect, TypeOK
  <2>2. SlotsAccounted'
    BY <1>1, <2>1, Unmoved
  <2>3. TypeOK'
    BY <1>1, <2>1 DEF TypeOK, worker
  <2>4. DirOK'
    BY <1>1, <2>1 DEF DirOK, Alive, Begun, SaidEnd, worker
  <2> QED
    BY <2>2, <2>3, <2>4
<1> QED
  BY <1>2, <1>3 DEF Reader

LEMMA InvStep == IInv /\ [Next]_vars => IInv'
<1> SUFFICES ASSUME IInv, [Next]_vars PROVE IInv'
  OBVIOUS
<1>1. CASE UNCHANGED vars
  BY <1>1 DEF IInv, TypeOK, SlotsAccounted, Holding, DirOK, Alive, Begun, SaidEnd, vars
<1>2. CASE Next
  <2>1. PICK r \in Request :
            RequestThread(r) \/ Generator(r) \/ InRunSteps(r) \/ Emitter(r) \/ Reader(r)
    BY <1>2 DEF Next
  <2> QED
    BY <2>1, RequestThreadStep, GeneratorStep, WorkerStep, ReaderStep
<1> QED
  BY <1>1, <1>2

\* The invariant holds throughout: the conjunct DirOK is what makes the checkout
\* property inductive, and the accounts are what keeps `slots` in its range.
LEMMA Invariance == Spec => []IInv
<1> QED
  BY InvInit, InvStep, PTL DEF Spec

-----------------------------------------------------------------------------
\* What the worker has said and the queue has not lost, counted.
Counted(r) ==
    IF putting[r] THEN Len(taken[r]) + Len(q[r]) + 1 ELSE Len(taken[r]) + Len(q[r])

\* Until the worker has said more than the queue holds, nothing is lost.
Unlost == \A r \in Request : Len(said[r]) <= QueueMax => Counted(r) = Len(said[r])

\* A step of one request leaves the sequences of the others alone.
LEMMA OthersUnmoved ==
    ASSUME TypeOK, NEW r \in Request,
           RequestThread(r) \/ Generator(r) \/ InRunSteps(r) \/ Emitter(r) \/ Reader(r)
    PROVE  \A x \in Request \ {r} :
              /\ said'[x] = said[x] /\ putting'[x] = putting[x]
              /\ q'[x] = q[x] /\ taken'[x] = taken[x]
BY DEF TypeOK, RequestThread, Generator, InRunSteps, Emitter, Reader, TakeSlot, Refuse, HandOver,
   StartDirect, EndDirect, Open, Abandon, Get, Close, Join, Cleanup, Release, EmitCandidates,
   EmitFinding, EmitReport, EmitError, EmitEnd, Emit, Put, PutTimesOut, Read, Disconnect, worker

\* Only a put that meets a full queue can lose an event, and with that one the run
\* has said more than the queue holds.
LEMMA UnlostStep == TypeOK /\ Unlost /\ [Next]_vars => Unlost'
<1> SUFFICES ASSUME TypeOK, Unlost, [Next]_vars PROVE Unlost'
  OBVIOUS
<1>1. CASE UNCHANGED vars
  BY <1>1 DEF Unlost, Counted, vars
<1>2. CASE Next
  <2>1. PICK r \in Request :
            RequestThread(r) \/ Generator(r) \/ InRunSteps(r) \/ Emitter(r) \/ Reader(r)
    BY <1>2 DEF Next
  <2>2. \A x \in Request \ {r} :
            /\ said'[x] = said[x] /\ putting'[x] = putting[x]
            /\ q'[x] = q[x] /\ taken'[x] = taken[x]
    BY <2>1, OthersUnmoved
  <2> DEFINE said0 == Len(said[r])    said1 == Len(said'[r])
             q0 == Len(q[r])          q1 == Len(q'[r])
             taken0 == Len(taken[r])  taken1 == Len(taken'[r])
             kept0 == Counted(r)      kept1 == Counted(r)'
  <2>3. /\ said[r] \in Seq(Kinds) /\ q[r] \in Seq(Nat) /\ taken[r] \in Seq(Nat)
        /\ putting[r] \in BOOLEAN
    BY DEF TypeOK
  <2>4. QueueMax \in Nat /\ said0 \in Nat /\ q0 \in Nat /\ taken0 \in Nat
    BY <2>3, ConstantsAssumption DEF ConstantsAssumption
  <2>5. /\ putting[r] => kept0 = taken0 + q0 + 1
        /\ ~ putting[r] => kept0 = taken0 + q0
        /\ putting'[r] => kept1 = taken1 + q1 + 1
        /\ ~ putting'[r] => kept1 = taken1 + q1
    BY DEF Counted
  <2>6. said0 <= QueueMax => kept0 = said0
    BY DEF Unlost
  <2>7. (said1 <= QueueMax => kept1 = said1) => Unlost'
    BY <2>2 DEF Unlost, Counted
  <2>8. CASE InRunSteps(r) \/ EmitEnd(r)
    <3>1. PICK kind \in Kinds : Emit(r, kind)
      BY <2>8 DEF InRunSteps, EmitCandidates, EmitFinding, EmitReport, EmitError, EmitEnd, Kinds
    <3>2. ~ putting[r]
      BY <2>8 DEF InRunSteps, EmitCandidates, EmitFinding, EmitReport, EmitError, EmitEnd, InRun
    <3>3. /\ said'[r] = Append(said[r], kind) /\ putting'[r]
          /\ q'[r] = q[r] /\ taken'[r] = taken[r]
      BY <3>1 DEF Emit, TypeOK
    <3>4. said1 = said0 + 1 /\ q1 = q0 /\ taken1 = taken0
      BY <2>3, <3>3
    <3>5. kept0 = taken0 + q0 /\ kept1 = taken1 + q1 + 1
      BY <2>5, <3>2, <3>3
    <3> HIDE DEF said0, said1, q0, q1, taken0, taken1, kept0, kept1
    <3>6. said1 <= QueueMax => kept1 = said1
      BY <2>4, <2>6, <3>4, <3>5
    <3> QED
      BY <2>7, <3>6
  <2>9. CASE Put(r)
    <3>1. /\ q'[r] = Append(q[r], Len(said[r])) /\ putting[r] /\ ~ putting'[r]
          /\ said' = said /\ taken' = taken
      BY <2>9 DEF Put, TypeOK
    <3>2. said1 = said0 /\ q1 = q0 + 1 /\ taken1 = taken0
      BY <2>3, <3>1
    <3>3. kept0 = taken0 + q0 + 1 /\ kept1 = taken1 + q1
      BY <2>5, <3>1
    <3> HIDE DEF said0, said1, q0, q1, taken0, taken1, kept0, kept1
    <3>4. said1 <= QueueMax => kept1 = said1
      BY <2>4, <2>6, <3>2, <3>3
    <3> QED
      BY <2>7, <3>4
  <2>10. CASE PutTimesOut(r)
    <3>1. putting[r] /\ said1 = said0 /\ q0 = QueueMax
      BY <2>10 DEF PutTimesOut
    <3>2. kept0 = taken0 + q0 + 1
      BY <2>5, <3>1
    <3> HIDE DEF said0, said1, q0, q1, taken0, taken1, kept0, kept1
    <3>3. said1 <= QueueMax => kept1 = said1
      BY <2>4, <2>6, <3>1, <3>2
    <3> QED
      BY <2>7, <3>3
  <2>11. CASE Get(r)
    <3>1. /\ q[r] # <<>> /\ said' = said /\ putting' = putting
          /\ q'[r] = Tail(q[r]) /\ taken'[r] = Append(taken[r], Head(q[r]))
      BY <2>11 DEF Get, TypeOK, worker
    <3>2. said1 = said0 /\ q1 = q0 - 1 /\ taken1 = taken0 + 1
      BY <2>3, <3>1
    <3>3. \/ kept0 = taken0 + q0 + 1 /\ kept1 = taken1 + q1 + 1
          \/ kept0 = taken0 + q0 /\ kept1 = taken1 + q1
      BY <2>5, <3>1
    <3> HIDE DEF said0, said1, q0, q1, taken0, taken1, kept0, kept1
    <3>4. said1 <= QueueMax => kept1 = said1
      BY <2>4, <2>6, <3>2, <3>3
    <3> QED
      BY <2>7, <3>4
  <2>12. CASE UNCHANGED <<said, putting, q, taken>>
    BY <2>6, <2>7, <2>12 DEF Counted
  <2>13. \/ InRunSteps(r) \/ Emitter(r) \/ Get(r)
         \/ UNCHANGED <<said, putting, q, taken>>
    BY <2>1 DEF RequestThread, Generator, Reader, TakeSlot, Refuse, HandOver, StartDirect,
       EndDirect, Open, Abandon, Close, Join, Cleanup, Release, Read, Disconnect, worker
  <2> QED
    BY <2>8, <2>9, <2>10, <2>11, <2>12, <2>13 DEF Emitter
<1> QED
  BY <1>1, <1>2

-----------------------------------------------------------------------------
\* Every variable keeps its type; in particular the semaphore never exceeds its
\* initial value, the error a BoundedSemaphore raises.
THEOREM Typing == Spec => []TypeOK
<1>1. IInv => TypeOK
  BY DEF IInv
<1> QED
  BY <1>1, Invariance, PTL

\* Slots free and slots held always add up to the ceiling, for any number of
\* requests: api_prove's exits and the generator's `finally` neither leak a slot
\* that is not accounted to a request nor give one back twice.
THEOREM SlotAccounting == Spec => []SlotsAccounted
<1>1. IInv => SlotsAccounted
  BY DEF IInv
<1> QED
  BY <1>1, Invariance, PTL

\* No checkout is removed while a run reads out of it, whatever the reader and the
\* join's timeout do.
THEOREM CheckoutsOutliveRuns == Spec => []CheckoutOutlivesRun
<1>1. IInv => CheckoutOutlivesRun
  BY DEF IInv, DirOK, CheckoutOutlivesRun
<1> QED
  BY <1>1, Invariance, PTL

\* A run that says no more than the queue holds loses nothing, however slow its reader
\* and whatever the timeouts do: `_emit` drops an event only when the queue is full.
THEOREM ShortRunsLoseNothing == Spec => []ShortRunsArriveWhole
<1>1. Init => Unlost
  BY DEF Init, Unlost, Counted
<1>2. TypeOK /\ Unlost => ShortRunsArriveWhole
  <2> SUFFICES ASSUME TypeOK, Unlost, NEW r \in Request, Len(said[r]) <= QueueMax
               PROVE  Len(Kept(r)) = Len(said[r])
    BY DEF ShortRunsArriveWhole
  <2> DEFINE front == taken[r] \o q[r]
             last == IF putting[r] THEN <<Len(said[r])>> ELSE <<>>
  <2>1. /\ q[r] \in Seq(Nat) /\ taken[r] \in Seq(Nat) /\ Len(said[r]) \in Nat
        /\ putting[r] \in BOOLEAN
    BY DEF TypeOK
  <2>2. front \in Seq(Nat) /\ Len(front) = Len(taken[r]) + Len(q[r])
    BY <2>1, ConcatProperties
  <2>3. last \in Seq(Nat)
    BY <2>1
  <2>4. Len(front \o last) = Len(front) + Len(last)
    BY <2>2, <2>3, ConcatProperties
  <2>5. Kept(r) = front \o last
    BY DEF Kept
  <2>6. Counted(r) = Len(said[r])
    BY DEF Unlost
  <2>7. CASE putting[r]
    <3>1. Len(last) = 1 /\ Counted(r) = Len(taken[r]) + Len(q[r]) + 1
      BY <2>7 DEF Counted
    <3> HIDE DEF front, last
    <3> QED
      BY <2>2, <2>4, <2>5, <2>6, <3>1
  <2>8. CASE ~ putting[r]
    <3>1. last = <<>> /\ Counted(r) = Len(taken[r]) + Len(q[r])
      BY <2>8 DEF Counted
    <3>2. front \o last = front
      BY <2>2, <3>1, ConcatEmptySeq
    <3> QED
      BY <2>2, <2>5, <2>6, <3>1, <3>2
  <2> QED
    BY <2>7, <2>8
<1> QED
  BY <1>1, <1>2, Typing, UnlostStep, PTL DEF Spec
=============================================================================
