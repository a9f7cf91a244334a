------------------------- MODULE SandboxWireProofs -------------------------
(***************************************************************************)
(* The docker executor keeps what ObservedRun promises, and its answer is  *)
(* the answer of the run in the container, for any number of findings and  *)
(* any size of the pipes.                                                  *)
(*                                                                         *)
(* The argument numbers the events of a run: the candidates are event 0,   *)
(* finding n is event n, a report after n findings is event n + 1.  As     *)
(* long as no line was spoiled, the i-th line in the pipe is the i-th      *)
(* event the caller has not been told yet.  A spoiled line breaks the      *)
(* numbering behind it, and the host never reads past one.                 *)
(***************************************************************************)
EXTENDS SandboxWire, TLAPS

Whole(o, i) == \A j \in 1..i : o[j].kind # "noise"

\* Line l is event k.
IsEvent(l, k) ==
    /\ l.kind = "candidates" => k = 0
    /\ l.kind = "finding" => l.n = k /\ k # 0
    /\ l.kind = "report" => l.n + 1 = k

Told == IF announced THEN Len(shown) + 1 ELSE 0
Made == IF ranked THEN made + 1 ELSE 0

InOrder(o, t) ==
    \A i \in 1..Len(o) : Whole(o, i) => IsEvent(o[i], t + i - 1)

Numbered ==
    /\ InOrder(out, Told)
    /\ ended = "none" /\ Whole(out, Len(out)) => Made = Told + Len(out)

StreamOK ==
    host \in {"spawning", "reading"} =>
        /\ answer = "none" /\ reported = 0
        /\ ~closed
        /\ ~announced => shown = <<>>
        /\ Numbered

\* A terminal line says how the run that wrote it ended.
Final(l, e, m) ==
    /\ l.kind = "report" => e = "report" /\ l.n = m
    /\ l.kind = "refused" => e = "refused"

FinalOK == \A i \in 1..Len(out) : Final(out[i], ended, made)

RankedFirst == ~ranked => made = 0

IInv == TypeOK /\ RankedFirst /\ StreamOK /\ FinalOK /\ AnswerIsTheRuns

-----------------------------------------------------------------------------
\* Sequences, as far as the two ends of a pipe need them.

LEMMA AppendFacts ==
    ASSUME NEW S, NEW o \in Seq(S), NEW l \in S
    PROVE  /\ Append(o, l) \in Seq(S)
           /\ Len(Append(o, l)) = Len(o) + 1
           /\ \A i \in 1..Len(o) : Append(o, l)[i] = o[i]
           /\ Append(o, l)[Len(o) + 1] = l
  OBVIOUS

LEMMA TailFacts ==
    ASSUME NEW S, NEW o \in Seq(S), o # <<>>
    PROVE  /\ Len(o) \in Nat \ {0}
           /\ Head(o) = o[1] /\ Head(o) \in S
           /\ Tail(o) \in Seq(S)
           /\ Len(Tail(o)) = Len(o) - 1
           /\ \A i \in 1..Len(Tail(o)) : Tail(o)[i] = o[i + 1]
  OBVIOUS

\* A line written keeps the pipe in order if it is the next event, or spoiled.
LEMMA WriteInOrder ==
    ASSUME NEW o \in Seq(Line), NEW l \in Line, NEW t \in Nat,
           InOrder(o, t),
           Whole(o, Len(o)) => l.kind = "noise" \/ IsEvent(l, t + Len(o))
    PROVE  InOrder(Append(o, l), t)
<1> DEFINE p == Append(o, l)
<1>1. /\ Len(p) = Len(o) + 1 /\ p[Len(o) + 1] = l
      /\ \A i \in 1..Len(o) : p[i] = o[i]
  BY AppendFacts
<1>2. Len(o) \in Nat
  OBVIOUS
<1> HIDE DEF p
<1> SUFFICES ASSUME NEW i \in 1..Len(p), Whole(p, i) PROVE IsEvent(p[i], t + i - 1)
  BY DEF InOrder, p
<1>3. CASE i \in 1..Len(o)
  <2>1. Whole(o, i)
    BY <1>1, <1>2, <1>3 DEF Whole
  <2> QED BY <2>1, <1>1, <1>3 DEF InOrder
<1>4. CASE i = Len(o) + 1
  <2>1. Whole(o, Len(o))
    BY <1>1, <1>2, <1>4 DEF Whole
  <2>2. l.kind # "noise"
    BY <1>1, <1>2, <1>4 DEF Whole
  <2>3. t + i - 1 = t + Len(o)
    BY <1>2, <1>4
  <2> QED BY <2>1, <2>2, <2>3, <1>1, <1>4
<1> QED BY <1>1, <1>2, <1>3, <1>4

\* A line read, if not spoiled, leaves the rest in order for a caller told one more.
LEMMA ReadInOrder ==
    ASSUME NEW o \in Seq(Line), NEW t \in Nat, o # <<>>,
           InOrder(o, t), Head(o).kind # "noise"
    PROVE  /\ InOrder(Tail(o), t + 1)
           /\ IsEvent(Head(o), t)
           /\ Whole(Tail(o), Len(Tail(o))) => Whole(o, Len(o))
<1>1. /\ Len(o) \in Nat \ {0} /\ Head(o) = o[1]
      /\ Len(Tail(o)) = Len(o) - 1
      /\ \A i \in 1..Len(Tail(o)) : Tail(o)[i] = o[i + 1]
  BY TailFacts
<1>2. \A i \in 1..Len(Tail(o)) : Whole(Tail(o), i) => Whole(o, i + 1)
  <2> SUFFICES ASSUME NEW i \in 1..Len(Tail(o)), Whole(Tail(o), i), NEW j \in 1..(i + 1)
               PROVE o[j].kind # "noise"
    BY DEF Whole
  <2>1. CASE j = 1
    BY <2>1, <1>1
  <2>2. CASE j # 1
    <3>1. j - 1 \in 1..i /\ j - 1 \in 1..Len(Tail(o)) /\ (j - 1) + 1 = j
      BY <2>2, <1>1
    <3> QED BY <3>1, <1>1 DEF Whole
  <2> QED BY <2>1, <2>2
<1>3. InOrder(Tail(o), t + 1)
  <2> SUFFICES ASSUME NEW i \in 1..Len(Tail(o)), Whole(Tail(o), i)
               PROVE IsEvent(Tail(o)[i], t + 1 + i - 1)
    BY DEF InOrder
  <2>1. i + 1 \in 1..Len(o) /\ t + (i + 1) - 1 = t + 1 + i - 1
    BY <1>1
  <2>2. IsEvent(o[i + 1], t + (i + 1) - 1)
    BY <1>2, <2>1 DEF InOrder
  <2> QED BY <2>1, <2>2, <1>1
<1>4. IsEvent(Head(o), t)
  <2>1. Whole(o, 1)
    BY <1>1 DEF Whole
  <2>2. IsEvent(o[1], t + 1 - 1)
    BY <2>1, <1>1 DEF InOrder
  <2> QED BY <2>2, <1>1
<1>5. Whole(Tail(o), Len(Tail(o))) => Whole(o, Len(o))
  <2>1. CASE Len(Tail(o)) = 0
    BY <2>1, <1>1 DEF Whole
  <2>2. CASE Len(Tail(o)) # 0
    <3>1. Len(Tail(o)) \in 1..Len(Tail(o)) /\ Len(Tail(o)) + 1 = Len(o)
      BY <2>2, <1>1
    <3> QED BY <3>1, <1>2
  <2> QED BY <2>1, <2>2
<1> QED BY <1>3, <1>4, <1>5

-----------------------------------------------------------------------------
LEMMA InitInv == ASSUME ConstantsAssumption, Init PROVE IInv
<1>1. TypeOK
  <2>1. <<>> \in Seq(Line) /\ <<>> \in Seq(Nat) /\ Len(<<>>) = 0
    OBVIOUS
  <2>2. out \in Seq(Line) /\ Len(out) <= OutMax /\ shown \in Seq(Nat)
    BY <2>1 DEF ConstantsAssumption, Init
  <2>3. made \in 0..MaxFindings /\ err \in 0..ErrMax /\ reported \in Nat
    BY DEF ConstantsAssumption, Init
  <2> QED BY <2>2, <2>3 DEF Init, TypeOK, Procs, Hosts, Outer!Answers
<1>2. StreamOK
  BY DEF Init, StreamOK, Numbered, InOrder, Told, Made
<1>3. FinalOK /\ AnswerIsTheRuns /\ RankedFirst
  BY DEF Init, FinalOK, AnswerIsTheRuns, RankedFirst
<1> QED BY <1>1, <1>2, <1>3 DEF IInv

\* While the run goes on there is no terminal line and no answer that stands on one.
LEMMA StillRunning ==
    ASSUME IInv, ended = "none"
    PROVE  /\ \A i \in 1..Len(out) : out[i].kind \notin {"report", "refused"}
           /\ answer \notin {"report", "refused"}
  BY DEF IInv, FinalOK, Final, AnswerIsTheRuns

\* What every step of the container that writes a line has in common: the run was
\* going on, the caller has not moved, and the line is spoiled or is the next event.
LEMMA WriteKeeps ==
    ASSUME ConstantsAssumption, IInv, ended = "none", Room,
           NEW kind \in Kinds, Write(kind), made' \in Nat,
           UNCHANGED <<closed, host, caller>>,
           kind = "noise" \/ IsEvent([kind |-> kind, n |-> made'], Made),
           ~closed => kind = "noise" \/ ended' # "none" \/ Made' = Made + 1,
           kind = "report" => ended' = "report",
           kind = "refused" => ended' = "refused"
    PROVE  /\ out' \in Seq(Line) /\ Len(out') <= OutMax
           /\ StreamOK' /\ FinalOK' /\ AnswerIsTheRuns'
<1>1. AnswerIsTheRuns'
  BY StillRunning DEF AnswerIsTheRuns, caller
<1>2. \A i \in 1..Len(out) : Final(out[i], ended', made')
  BY StillRunning DEF Final
<1>3. CASE closed
  <2>1. out' = out /\ host \notin {"spawning", "reading"}
    BY <1>3 DEF Write, IInv, StreamOK
  <2>2. StreamOK'
    BY <2>1 DEF StreamOK
  <2>3. FinalOK'
    BY <2>1, <1>2 DEF FinalOK
  <2> QED BY <2>1, <2>2, <2>3, <1>1 DEF IInv, TypeOK
<1>4. CASE ~closed
  <2> DEFINE l == [kind |-> kind, n |-> made']
  <2>1. /\ out' = Append(out, l) /\ out \in Seq(Line) /\ l \in Line
        /\ l.kind = kind /\ l.n = made'
    BY <1>4 DEF IInv, TypeOK, Write, Line
  <2>2. /\ out' \in Seq(Line) /\ Len(out') = Len(out) + 1
        /\ \A i \in 1..Len(out) : out'[i] = out[i]
        /\ out'[Len(out) + 1] = l
    BY <2>1, AppendFacts
  <2>3. Len(out') <= OutMax
    BY <2>2, <1>4 DEF Room, IInv, TypeOK, ConstantsAssumption
  <2>4. Told' = Told /\ Told \in Nat /\ Len(out) \in Nat
    BY DEF Told, caller, IInv, TypeOK
  <2>5. l.kind = "noise" \/ IsEvent(l, Made)
    OBVIOUS
  <2> HIDE DEF l
  <2>6. StreamOK'
    <3> SUFFICES ASSUME host \in {"spawning", "reading"} PROVE Numbered'
      BY DEF IInv, StreamOK, caller
    <3>1. /\ InOrder(out, Told)
          /\ Whole(out, Len(out)) => Made = Told + Len(out)
      BY DEF IInv, StreamOK, Numbered
    <3>2. Whole(out, Len(out)) => l.kind = "noise" \/ IsEvent(l, Told + Len(out))
      BY <2>5, <3>1
    <3>3. InOrder(out', Told')
      BY <2>1, <2>4, <3>1, <3>2, WriteInOrder
    <3>4. ASSUME ended' = "none", Whole(out', Len(out')) PROVE Made' = Told' + Len(out')
      <4>1. kind # "noise" /\ Whole(out, Len(out))
        BY <3>4, <2>1, <2>2, <2>4 DEF Whole
      <4>2. Made' = Made + 1
        BY <3>4, <4>1, <1>4
      <4> QED BY <4>1, <4>2, <3>1, <2>2, <2>4
    <3>5. (InOrder(out, Told))' <=> InOrder(out', Told')
      BY DEF InOrder, Whole, IsEvent
    <3>6. (Whole(out, Len(out)))' <=> Whole(out', Len(out'))
      BY DEF Whole
    <3> QED BY <3>3, <3>4, <3>5, <3>6 DEF Numbered
  <2>7. FinalOK'
    <3> SUFFICES ASSUME NEW i \in 1..Len(out') PROVE Final(out'[i], ended', made')
      BY DEF FinalOK
    <3>1. CASE i \in 1..Len(out)
      BY <3>1, <2>2, <1>2
    <3>2. CASE i = Len(out) + 1
      BY <3>2, <2>1, <2>2 DEF Final
    <3> QED BY <3>1, <3>2, <2>2, <2>4
  <2> QED BY <2>2, <2>3, <2>6, <2>7, <1>1
<1> QED BY <1>3, <1>4

\* What the host knows of the line at the head of the pipe.
LEMMA HeadFacts ==
    ASSUME IInv, host = "reading", out # <<>>
    PROVE  /\ Head(out) \in Line
           /\ Head(out).kind = "candidates" => ~announced /\ shown = <<>>
           /\ Head(out).kind = "finding" =>
                announced /\ Head(out).n = Len(shown) + 1
           /\ Head(out).kind = "report" => announced /\ Head(out).n = Len(shown)
           /\ Final(Head(out), ended, made)
           /\ answer = "none" /\ reported = 0
<1>1. out \in Seq(Line) /\ Told \in Nat /\ shown \in Seq(Nat) /\ Len(shown) \in Nat
  BY DEF IInv, TypeOK, Told
<1>2. Head(out) = out[1] /\ Head(out) \in Line /\ 1 \in 1..Len(out)
  BY <1>1, TailFacts
<1>3. InOrder(out, Told) /\ answer = "none" /\ reported = 0 /\ (~announced => shown = <<>>)
  BY DEF IInv, StreamOK, Numbered
<1>4. Final(Head(out), ended, made)
  BY <1>2 DEF IInv, FinalOK
<1>5. Head(out).kind # "noise" => IsEvent(Head(out), Told)
  BY <1>1, <1>3, ReadInOrder
<1>6. Head(out).n \in Nat
  BY <1>2 DEF Line
<1> QED BY <1>1, <1>2, <1>3, <1>4, <1>5, <1>6 DEF IsEvent, Told

-----------------------------------------------------------------------------
\* The parts of the invariant the container cannot reach by way of the pipe.
Rest ==
    /\ proc \in Procs
    /\ ranked \in BOOLEAN /\ made \in 0..MaxFindings /\ ended \in Outer!Answers
    /\ err \in 0..ErrMax
    /\ closed \in BOOLEAN
    /\ host \in Hosts
    /\ announced \in BOOLEAN /\ shown \in Seq(Nat) /\ answer \in Outer!Answers
    /\ reported \in Nat

LEMMA RankedStep == ASSUME IInv, [Next]_vars PROVE RankedFirst'
  BY DEF IInv, RankedFirst, Next, Container, Mishap, Host, Rank, Find, Report, Refuse, Fail,
         Finish, Exit, Diagnosed, Stray, Diagnose, Die, CannotStart, Spawn, ReadLine,
         EndOfStream, Close, Reap, vars, run

LEMMA ContainerStep ==
    ASSUME ConstantsAssumption, IInv, Container \/ Stray \/ Diagnose \/ Die
    PROVE  IInv'
<1> USE DEF Running, Procs, Outer!Answers
<1>0. /\ Rest /\ made \in Nat
      /\ TypeOK' <=> (Rest' /\ out' \in Seq(Line) /\ Len(out') <= OutMax)
  BY DEF IInv, TypeOK, Rest, ConstantsAssumption
<1>r. RankedFirst'
  BY RankedStep DEF Next, Mishap
<1>1. ASSUME UNCHANGED <<run, out, closed, host, caller>>, Rest' PROVE IInv'
  BY <1>0, <1>1, <1>r DEF IInv, TypeOK, StreamOK, Numbered, InOrder, Whole, IsEvent, Told, Made,
                    FinalOK, AnswerIsTheRuns, run, caller
<1>2. CASE Rank
  <2>1. Rest'
    BY <1>0, <1>2 DEF Rank, Rest, run, caller
  <2>2. IsEvent([kind |-> "candidates", n |-> made'], Made)
    BY <1>2 DEF Rank, IsEvent, Made
  <2>3. ~closed => Made' = Made + 1
    BY <1>0, <1>2 DEF Rank, Made, IInv, RankedFirst
  <2> QED BY <1>0, <1>2, <2>1, <2>2, <2>3, <1>r, WriteKeeps DEF Rank, Kinds, IInv
<1>3. CASE Find
  <2>1. Rest' /\ made' \in Nat
    BY <1>0, <1>3 DEF Find, Rest, run, caller, ConstantsAssumption
  <2>2. IsEvent([kind |-> "finding", n |-> made'], Made) /\ Made' = Made + 1
    BY <1>0, <1>3 DEF Find, IsEvent, Made
  <2>3. PICK kind \in {"finding", "noise"} : Write(kind)
    BY <1>3 DEF Find
  <2> QED BY <1>0, <1>3, <2>1, <2>2, <2>3, <1>r, WriteKeeps DEF Find, Kinds, IInv
<1>4. CASE Report
  <2>1. Rest'
    BY <1>0, <1>4 DEF Report, Finish, Rest, run, caller
  <2>2. IsEvent([kind |-> "report", n |-> made'], Made)
    BY <1>4 DEF Report, Finish, IsEvent, Made
  <2> QED BY <1>0, <1>4, <2>1, <2>2, <1>r, WriteKeeps DEF Report, Finish, Kinds, IInv
<1>5. CASE Refuse
  <2>1. Rest'
    BY <1>0, <1>5 DEF Refuse, Finish, Rest, run, caller
  <2>2. IsEvent([kind |-> "refused", n |-> made'], Made)
    BY DEF IsEvent
  <2> QED BY <1>0, <1>5, <2>1, <2>2, <1>r, WriteKeeps DEF Refuse, Finish, Kinds, IInv
<1>6. CASE Fail
  <2>1. Rest'
    BY <1>0, <1>6 DEF Fail, Finish, Rest, run, caller
  <2>2. IsEvent([kind |-> "error", n |-> made'], Made)
    BY DEF IsEvent
  <2> QED BY <1>0, <1>6, <2>1, <2>2, <1>r, WriteKeeps DEF Fail, Finish, Kinds, IInv
<1>7. CASE Exit
  BY <1>0, <1>1, <1>7 DEF Exit, Rest, run, caller
<1>8. CASE Diagnosed
  <2>1. err' \in 0..ErrMax
    BY <1>0, <1>8 DEF Diagnosed, Rest, ConstantsAssumption
  <2> QED BY <1>0, <1>1, <1>8, <2>1 DEF Diagnosed, Rest, run, caller
<1>9. CASE Stray
  <2>1. Rest' /\ Room
    BY <1>0, <1>9 DEF Stray, Rest, Room, run, caller
  <2> QED BY <1>0, <1>9, <2>1, <1>r, WriteKeeps DEF Stray, Kinds, IInv, run
<1>10. CASE Diagnose
  BY <1>0, <1>1, <1>10 DEF Diagnose, Rest, run, caller
<1>11. CASE Die
  <2>1. Rest'
    BY <1>0, <1>11 DEF Die, Rest, run, caller
  <2>2. CASE UNCHANGED out
    BY <1>1, <1>11, <2>1, <2>2 DEF Die
  <2>3. CASE ended = "none" /\ Len(out) < OutMax /\ Write("noise")
    BY <1>0, <1>11, <2>1, <2>3, <1>r, WriteKeeps DEF Die, Room, Kinds, IInv, run
  <2> QED BY <1>11, <2>2, <2>3 DEF Die
<1> QED BY <1>2, <1>3, <1>4, <1>5, <1>6, <1>7, <1>8, <1>9, <1>10, <1>11 DEF Container

LEMMA ReadStep == ASSUME ConstantsAssumption, IInv, ReadLine PROVE IInv'
<1> DEFINE l == Head(out)
<1>0. /\ host = "reading" /\ out # <<>> /\ out' = Tail(out) /\ Consume(l)
      /\ UNCHANGED <<proc, run, err, closed>>
  BY DEF ReadLine
<1>1. /\ out \in Seq(Line) /\ Told \in Nat /\ Made \in Nat /\ shown \in Seq(Nat)
      /\ InOrder(out, Told)
      /\ ended = "none" /\ Whole(out, Len(out)) => Made = Told + Len(out)
  BY <1>0 DEF IInv, TypeOK, StreamOK, Numbered, Told, Made
<1>2. /\ l \in Line /\ l.n \in Nat /\ Final(l, ended, made)
      /\ l.kind = "candidates" => ~announced /\ shown = <<>>
      /\ l.kind = "finding" => announced /\ l.n = Len(shown) + 1
      /\ l.kind = "report" => announced /\ l.n = Len(shown)
      /\ answer = "none" /\ reported = 0
  BY <1>0, HeadFacts DEF Line
<1>3. /\ out' \in Seq(Line) /\ Len(out) \in Nat /\ Len(out') = Len(out) - 1
      /\ \A i \in 1..Len(out') : out'[i] = out[i + 1]
  BY <1>0, <1>1, TailFacts
<1> HIDE DEF l
<1>4. FinalOK' /\ RankedFirst'
  BY <1>0, <1>3 DEF IInv, FinalOK, RankedFirst, run
<1>5. TypeOK' /\ AnswerIsTheRuns' /\ StreamOK'
  <2>1. /\ proc' \in Procs /\ out' \in Seq(Line) /\ Len(out') <= OutMax
        /\ ranked' \in BOOLEAN /\ made' \in 0..MaxFindings /\ ended' \in Outer!Answers
        /\ err' \in 0..ErrMax /\ closed' \in BOOLEAN
    BY <1>0, <1>3 DEF IInv, TypeOK, run, ConstantsAssumption
  <2>2. ASSUME NEW how \in {"failed", "refused"}, Raise(how),
               how = "refused" => ended = "refused"
        PROVE  TypeOK' /\ AnswerIsTheRuns' /\ StreamOK'
    BY <1>0, <2>1, <2>2 DEF Raise, IInv, TypeOK, AnswerIsTheRuns, StreamOK, Hosts,
                            Outer!Answers, run
  <2>3. CASE l.kind \in {"candidates", "finding"}
    <3>1. CASE Raise("failed")
      BY <3>1, <2>2
    <3>2. CASE ~Raise("failed")
      <4>1. /\ UNCHANGED <<host, answer, reported>>
            /\ l.kind = "candidates" => announced' = TRUE /\ UNCHANGED shown
            /\ l.kind = "finding" => shown' = Append(shown, l.n) /\ UNCHANGED announced
        BY <1>0, <2>3, <3>2 DEF Consume, Tell
      <4>2. announced' \in BOOLEAN /\ shown' \in Seq(Nat) /\ (~announced' => shown' = <<>>)
        <5>1. CASE l.kind = "candidates"
          BY <5>1, <4>1, <1>1
        <5>2. CASE l.kind = "finding"
          <6>1. l.n \in Nat /\ shown' = Append(shown, l.n) /\ announced
            BY <5>2, <4>1, <1>2
          <6>2. Append(shown, l.n) \in Seq(Nat)
            BY <6>1, <1>1, AppendFacts
          <6> QED BY <5>2, <6>1, <6>2, <4>1
        <5> QED BY <5>1, <5>2, <2>3
      <4>3. TypeOK'
        BY <2>1, <4>1, <4>2 DEF IInv, TypeOK
      <4>4. AnswerIsTheRuns'
        BY <4>1, <1>2 DEF AnswerIsTheRuns
      <4>5. Told' = Told + 1
        <5>1. CASE l.kind = "candidates"
          BY <5>1, <4>1, <1>2 DEF Told
        <5>2. CASE l.kind = "finding"
          BY <5>2, <4>1, <1>1, <1>2, AppendFacts DEF Told
        <5> QED BY <5>1, <5>2, <2>3
      <4>6. /\ InOrder(out', Told')
            /\ Whole(out', Len(out')) => Whole(out, Len(out))
        BY <1>0, <1>1, <2>3, <4>5, ReadInOrder DEF l
      <4>7. Made' = Made
        BY <1>0 DEF Made, run
      <4>8. ended' = "none" /\ Whole(out', Len(out')) => Made' = Told' + Len(out')
        BY <1>0, <1>1, <1>3, <4>5, <4>6, <4>7 DEF run
      <4>9. /\ (InOrder(out, Told))' <=> InOrder(out', Told')
            /\ (Whole(out, Len(out)))' <=> Whole(out', Len(out'))
        BY DEF InOrder, Whole, IsEvent
      <4>10. StreamOK'
        BY <1>0, <1>2, <4>1, <4>2, <4>6, <4>8, <4>9 DEF StreamOK, Numbered, IInv
      <4> QED BY <4>3, <4>4, <4>10
    <3> QED BY <3>1, <3>2
  <2>4. CASE l.kind = "report"
    <3>1. Return(l.n)
      BY <1>0, <2>4 DEF Consume
    <3> QED BY <1>0, <1>2, <2>1, <2>4, <3>1
            DEF Return, IInv, TypeOK, AnswerIsTheRuns, StreamOK, Hosts, Outer!Answers,
                Final, run
  <2>5. CASE l.kind = "refused"
    BY <1>0, <1>2, <2>2, <2>5 DEF Consume, Final
  <2>6. CASE l.kind \in {"error", "noise"}
    BY <1>0, <2>2, <2>6 DEF Consume
  <2> QED BY <1>2, <2>3, <2>4, <2>5, <2>6 DEF Line, Kinds
<1> QED BY <1>4, <1>5 DEF IInv

LEMMA HostStep ==
    ASSUME ConstantsAssumption, IInv, CannotStart \/ Spawn \/ EndOfStream \/ Close \/ Reap
    PROVE  IInv'
<1> USE DEF run, caller, Procs, Hosts, Outer!Answers
<1>1. CASE CannotStart
  BY <1>1 DEF CannotStart, IInv, TypeOK, StreamOK, FinalOK, RankedFirst, AnswerIsTheRuns
<1>2. CASE Spawn
  <2>1. TypeOK'
    BY <1>2 DEF Spawn, IInv, TypeOK
  <2>2. StreamOK'
    BY <1>2 DEF Spawn, IInv, StreamOK, Numbered, InOrder, Whole, IsEvent, Told, Made
  <2> QED BY <1>2, <2>1, <2>2 DEF Spawn, IInv, FinalOK, RankedFirst, AnswerIsTheRuns
<1>3. CASE EndOfStream
  <2>1. TypeOK'
    BY <1>3 DEF EndOfStream, IInv, TypeOK, ConstantsAssumption
  <2> QED BY <1>3, <2>1 DEF EndOfStream, IInv, StreamOK, FinalOK, RankedFirst, AnswerIsTheRuns
<1>4. CASE Close
  BY <1>4 DEF Close, IInv, TypeOK, StreamOK, FinalOK, RankedFirst, AnswerIsTheRuns
<1>5. CASE Reap
  BY <1>5 DEF Reap, IInv, TypeOK, StreamOK, FinalOK, RankedFirst, AnswerIsTheRuns
<1> QED BY <1>1, <1>2, <1>3, <1>4, <1>5

LEMMA StepInv == ASSUME ConstantsAssumption, IInv, [Next]_vars PROVE IInv'
<1>1. CASE UNCHANGED vars
  BY <1>1 DEF IInv, TypeOK, StreamOK, Numbered, InOrder, Whole, IsEvent, Told, Made,
              FinalOK, RankedFirst, AnswerIsTheRuns, vars, run, caller
<1>2. CASE Next
  BY <1>2, ContainerStep, ReadStep, HostStep DEF Next, Mishap, Host
<1> QED BY <1>1, <1>2

-----------------------------------------------------------------------------
\* Every variable keeps its type; neither pipe holds more than it can.
THEOREM Typing == Spec => []TypeOK
<1>1. Init => IInv
  BY InitInv, ConstantsAssumption
<1>2. IInv /\ [Next]_vars => IInv'
  BY StepInv, ConstantsAssumption
<1>3. IInv => TypeOK
  BY DEF IInv
<1> QED BY <1>1, <1>2, <1>3, PTL DEF Spec

\* The answer of the call is the answer of the run in the container: a report only
\* of a run that finished, with all its findings, a refusal only of the guard.
THEOREM HonestAnswer == Spec => []AnswerIsTheRuns
<1>1. Init => IInv
  BY InitInv, ConstantsAssumption
<1>2. IInv /\ [Next]_vars => IInv'
  BY StepInv, ConstantsAssumption
<1>3. IInv => AnswerIsTheRuns
  BY DEF IInv
<1> QED BY <1>1, <1>2, <1>3, PTL DEF Spec

\* A step of the host is one thing told to the caller, or nothing.
LEMMA StepRefines ==
    ASSUME IInv, [Next]_vars
    PROVE  [Outer!Next]_(Outer!vars)
<1> USE DEF Outer!vars, Outer!Next, Outer!Announce, Outer!Show, Outer!Report,
            Outer!EndWithout, caller
<1>1. CASE Container \/ Mishap
  BY <1>1 DEF Container, Mishap, Rank, Find, Report, Refuse, Fail, Finish, Exit,
              Diagnosed, Stray, Diagnose, Die
<1>2. CASE CannotStart
  BY <1>2 DEF CannotStart, IInv, StreamOK
<1>3. CASE Spawn \/ Close \/ Reap
  BY <1>3 DEF Spawn, Close, Reap
<1>4. CASE EndOfStream
  BY <1>4 DEF EndOfStream, IInv, StreamOK
<1>5. CASE ReadLine
  <2> DEFINE l == Head(out)
  <2>1. /\ Consume(l) /\ l \in Line /\ answer = "none"
        /\ l.kind = "candidates" => ~announced
        /\ l.kind = "finding" => announced /\ l.n = Len(shown) + 1
        /\ l.kind = "report" => announced /\ l.n = Len(shown)
    BY <1>5, HeadFacts DEF ReadLine
  <2> HIDE DEF l
  <2>2. CASE l.kind \in {"candidates", "finding"}
    BY <2>1, <2>2 DEF Consume, Tell, Raise
  <2>3. CASE l.kind = "report"
    BY <2>1, <2>3 DEF Consume, Return
  <2>4. CASE l.kind \in {"refused", "error", "noise"}
    BY <2>1, <2>4 DEF Consume, Raise
  <2> QED BY <2>1, <2>2, <2>3, <2>4 DEF Line, Kinds
<1>6. CASE UNCHANGED vars
  BY <1>6 DEF vars
<1> QED BY <1>1, <1>2, <1>3, <1>4, <1>5, <1>6 DEF Next, Host

\* The docker executor implements the promise of an executor.
THEOREM Refinement == Spec => KeepsThePromise
<1>1. Init => IInv /\ Outer!Init
  BY InitInv, ConstantsAssumption DEF Init, Outer!Init
<1>2. IInv /\ [Next]_vars => IInv'
  BY StepInv, ConstantsAssumption
<1>3. IInv /\ [Next]_vars => [Outer!Next]_(Outer!vars)
  BY StepRefines
<1> QED BY <1>1, <1>2, <1>3, PTL DEF Spec, KeepsThePromise, Outer!Spec
=============================================================================
