-------------------------- MODULE SuiteTrialsProofs --------------------------
(* Theorems about SuiteTrials for every checkout, fix, list of mutants and      *)
(* suite, whatever fails and whatever the user does meanwhile.                  *)
EXTENDS SuiteTrials, TLAPS

\* Files nothing is promised of.
Excused(f) == f \in saves \cup spoiled \/ EditedTwice(f) \/ kind[f] = "denied"

\* What is remembered is what was found, and what is not remembered is as found.
SavedOK ==
    /\ \A f \in DOMAIN saved : saved[f] = found[f].text \/ Excused(f)
    /\ \A f \in File \ DOMAIN saved : disk[f].text = found[f].text \/ Excused(f)

\* A file is remembered from its first edit in a round until it is put back.
Remembered ==
    /\ at = "baseline" => DOMAIN saved = {}
    /\ at = "write" /\ round > Len(call.rounds) => DOMAIN saved = {}
    /\ at = "write" /\ round <= Len(call.rounds) =>
          \A f \in DOMAIN saved : \E i \in DOMAIN Edits(round) : i < edit /\ Edits(round)[i].file = f
    /\ at = "done" => DOMAIN saved \subseteq spoiled

\* Another round follows only a round.
InRound == at = "restore" /\ ~raised => round <= Len(call.rounds)

RestoreInv == TypeOK /\ InRound /\ SavedOK /\ Remembered

-----------------------------------------------------------------------------
(* Types. *)

\* The edit at hand.
LEMMA TargetType ==
    ASSUME TypeOK, Writing
    PROVE  /\ round \in DOMAIN call.rounds
           /\ Edits(round) \in Seq(Edit)
           /\ edit \in DOMAIN Edits(round)
           /\ Target \in Edit
           /\ Target.file \in File
           /\ Target.text \in Texts
<1>1. call \in [job : {"regression", "mutation"}, rounds : Seq(Seq(Edit))]
  BY ConstantsAssumption DEF ConstantsAssumption, TypeOK
<1>2. call.rounds \in Seq(Seq(Edit)) /\ round \in Nat /\ round >= 1 /\ edit \in Nat /\ edit >= 1
  BY <1>1 DEF TypeOK
<1>3. round \in DOMAIN call.rounds /\ Edits(round) \in Seq(Edit)
  BY <1>2 DEF Writing, Edits
<1>4. edit \in DOMAIN Edits(round) /\ Target \in Edit
  BY <1>2, <1>3 DEF Writing, Target
<1>5. QED
  BY <1>3, <1>4 DEF Edit, Texts

\* A file written in full, in part or not at all still holds some text.
LEMMA WrittenType ==
    ASSUME TypeOK, NEW f \in File, NEW t \in Texts, disk' = [disk EXCEPT ![f] = Plain(t)]
    PROVE  /\ disk' \in [File -> Entry]
           /\ disk'[f].text = t
           /\ \A g \in File \ {f} : disk'[g] = disk[g]
<1>1. Plain(t) \in Entry /\ Plain(t).text = t
  BY DEF Plain, Entry
<1>2. disk \in [File -> Entry]
  BY DEF TypeOK
<1>3. QED
  BY <1>1, <1>2

LEMMA RememberType ==
    ASSUME TypeOK, NEW f \in File, NEW t \in Texts, Remember(f, t)
    PROVE  /\ DOMAIN saved' = DOMAIN saved \cup {f}
           /\ saved'[f] = t
           /\ \A g \in DOMAIN saved \ {f} : saved'[g] = saved[g]
           /\ DOMAIN saved' \subseteq File
           /\ \A g \in DOMAIN saved' : saved'[g] \in Texts
BY DEF Remember, TypeOK

\* Putting one file back, which may fail.
LEMMA PutBackType ==
    ASSUME TypeOK, NEW f \in DOMAIN saved, PutBack(f)
    PROVE  /\ disk' \in [File -> Entry]
           /\ spoiled' \subseteq File
           /\ spoiled \subseteq spoiled'
           /\ disk'[f].text = saved[f] \/ f \in spoiled'
           /\ \A g \in File \ {f} : disk'[g] = disk[g]
<1>1. f \in File /\ saved[f] \in Texts /\ Garbled \in Texts /\ NoText \in Texts
  BY DEF TypeOK, Texts
<1>2. CASE saved[f] = NoText /\ disk' = [disk EXCEPT ![f] = NoFile] /\ UNCHANGED spoiled
  <2>1. NoFile = Plain(NoText)
    BY DEF NoFile, Plain
  <2>2. QED
    BY <1>1, <1>2, <2>1, WrittenType DEF TypeOK
<1>3. CASE disk' = [disk EXCEPT ![f] = Plain(saved[f])] /\ UNCHANGED spoiled
  BY <1>1, <1>3, WrittenType DEF TypeOK
<1>4. CASE UNCHANGED disk /\ spoiled' = spoiled \cup {f}
  BY <1>1, <1>4 DEF TypeOK
<1>5. CASE disk' = [disk EXCEPT ![f] = Plain(Garbled)] /\ spoiled' = spoiled \cup {f}
  BY <1>1, <1>5, WrittenType DEF TypeOK
<1>6. QED
  BY <1>2, <1>3, <1>4, <1>5 DEF PutBack

LEMMA TypeInit == Init => TypeOK
<1> USE ConstantsAssumption DEF ConstantsAssumption
<1> SUFFICES ASSUME Init PROVE TypeOK
  OBVIOUS
<1>1. call \in [job : {"regression", "mutation"}, rounds : Seq(Seq(Edit))]
  BY DEF Init
<1>2. call.rounds \in Seq(Seq(Edit))
  BY <1>1
<1>3. round \in 1..(Len(call.rounds) + 1)
  BY <1>2 DEF Init
<1>4. said \in Seq(Answers \cup {"unread"})
  BY DEF Init
<1>5. disk \in [File -> Entry]
  BY DEF Init
<1>6. DOMAIN saved = {}
  BY DEF Init, Nothing
<1>7. at \in {"baseline", "write", "restore", "done"}
  BY DEF Init
<1>8. /\ DOMAIN saved \subseteq File /\ \A f \in DOMAIN saved : saved[f] \in Texts
      /\ saves \subseteq File /\ spoiled \subseteq File
  BY <1>6 DEF Init
<1>9. /\ call \in Calls /\ found \in Trees /\ suite \in Suites /\ tool \in BOOLEAN
      /\ kind \in [File -> Kinds]
  BY DEF Init
<1>10. before \in {"none", "pass", "fail"} /\ raised \in BOOLEAN /\ hung \in BOOLEAN
  BY DEF Init
<1>11. edit = 1
  BY DEF Init
<1>12. QED
  BY <1>3, <1>4, <1>5, <1>7, <1>8, <1>9, <1>10, <1>11 DEF TypeOK

LEMMA TypeStep == ASSUME TypeOK, InRound, [Next]_vars PROVE TypeOK'
<1> USE ConstantsAssumption DEF ConstantsAssumption
<1>q. /\ call \in [job : {"regression", "mutation"}, rounds : Seq(Seq(Edit))]
      /\ call.rounds \in Seq(Seq(Edit)) /\ Len(call.rounds) \in Nat
      /\ round \in Nat /\ round >= 1 /\ edit \in Nat /\ edit >= 1
  <2>1. call \in [job : {"regression", "mutation"}, rounds : Seq(Seq(Edit))]
    BY DEF TypeOK
  <2>2. QED
    BY <2>1 DEF TypeOK
<1>r. \A answer \in Answers : Runs(answer) => hung' \in BOOLEAN
  BY DEF Runs, TypeOK
<1>s. said \in Seq(Answers \cup {"unread"})
  BY DEF TypeOK
<1>1. CASE Baseline
  BY <1>1, <1>r DEF Baseline, TypeOK, given, Answers
<1>2. CASE ReadRaises
  BY <1>2 DEF ReadRaises, Raise, TypeOK, given
<1>3. CASE JudgeUnread
  <2>1. said' \in Seq(Answers \cup {"unread"})
    BY <1>3, <1>s DEF JudgeUnread
  <2>2. round' \in 1..(Len(call.rounds) + 1)
    BY <1>3, <1>q DEF JudgeUnread, Writing
  <2>3. QED
    BY <1>3, <2>1, <2>2 DEF JudgeUnread, TypeOK, given
<1>4. CASE WriteEdit
  <2>1. Target.file \in File /\ Target.text \in Texts
    BY <1>4, TargetType DEF WriteEdit
  <2>2. /\ NewText(Target) \in Texts /\ Garbled \in Texts
        /\ (IF Missing(Target.file) THEN NoText ELSE disk[Target.file].text) \in Texts
    BY <2>1 DEF NewText, Texts, TypeOK, Entry
  <2>3. DOMAIN saved' \subseteq File /\ \A g \in DOMAIN saved' : saved'[g] \in Texts
    BY <1>4, <2>1, <2>2, RememberType DEF WriteEdit
  <2>4. disk' \in [File -> Entry]
    BY <1>4, <2>1, <2>2, WrittenType DEF WriteEdit, TypeOK
  <2>5. at' \in {"write", "restore"} /\ raised' \in BOOLEAN
    BY <1>4 DEF WriteEdit, Raise, Writing, TypeOK
  <2>6. edit' \in Nat \ {0}
    BY <1>4, <1>q DEF WriteEdit
  <2>7. UNCHANGED <<given, round, before, said, saves, spoiled, hung>>
    BY <1>4 DEF WriteEdit
  <2>8. QED
    BY <2>3, <2>4, <2>5, <2>6, <2>7 DEF TypeOK, given
<1>5. CASE RunTrial
  <2>1. said' \in Seq(Answers \cup {"unread"}) /\ hung' \in BOOLEAN
    BY <1>5, <1>r, <1>s DEF RunTrial
  <2>2. QED
    BY <1>5, <2>1 DEF RunTrial, TypeOK, given
<1>6. CASE Restore
  <2>1. PICK f \in DOMAIN saved :
          PutBack(f) /\ saved' = [g \in DOMAIN saved \ {f} |-> saved[g]]
    BY <1>6 DEF Restore
  <2>2. disk' \in [File -> Entry] /\ spoiled' \subseteq File
    BY <2>1, PutBackType
  <2>3. DOMAIN saved' \subseteq File /\ \A g \in DOMAIN saved' : saved'[g] \in Texts
    BY <2>1 DEF TypeOK
  <2>4. QED
    BY <1>6, <2>2, <2>3 DEF Restore, TypeOK, given
<1>7. CASE Proceed
  <2>1. round' \in 1..(Len(call.rounds) + 1) /\ edit' \in Nat \ {0}
    BY <1>7, <1>q DEF Proceed, InRound, TypeOK
  <2>2. QED
    BY <1>7, <2>1 DEF Proceed, TypeOK, given
<1>8. CASE Finish
  BY <1>8 DEF Finish, TypeOK, given
<1>9. CASE User
  <2>1. CASE Interrupt
    BY <2>1 DEF Interrupt, TypeOK, given
  <2>2. CASE \E f \in File : f \notin saves /\ Save(f)
    <3>1. PICK f \in File : Save(f)
      BY <2>2
    <3>2. UserText \in Texts /\ NoText \in Texts /\ NoFile = Plain(NoText)
      BY DEF Texts, NoFile, Plain
    <3>3. disk' \in [File -> Entry]
      BY <3>1, <3>2, WrittenType DEF Save
    <3>4. QED
      BY <3>1, <3>3 DEF Save, TypeOK, given
  <2>3. QED
    BY <1>9, <2>1, <2>2 DEF User
<1>10. CASE Stop \/ UNCHANGED vars
  BY <1>10 DEF Stop, vars, given, TypeOK
<1>11. QED
  BY <1>1, <1>2, <1>3, <1>4, <1>5, <1>6, <1>7, <1>8, <1>9, <1>10 DEF Next, Step

LEMMA InRoundStep == ASSUME TypeOK, InRound, [Next]_vars PROVE InRound'
<1>1. CASE WriteEdit \/ ReadRaises
  BY <1>1 DEF WriteEdit, ReadRaises, Raise, Writing, InRound, given
<1>2. CASE RunTrial
  BY <1>2 DEF RunTrial, Written, InRound, given
<1>3. CASE Baseline \/ JudgeUnread \/ Restore \/ Proceed \/ Finish
  BY <1>3 DEF Baseline, JudgeUnread, Writing, Restore, Proceed, Finish, InRound, given
<1>4. CASE User
  BY <1>4 DEF User, Interrupt, Save, InRound, given
<1>5. CASE Stop \/ UNCHANGED vars
  BY <1>5 DEF Stop, vars, given, InRound
<1>6. QED
  BY <1>1, <1>2, <1>3, <1>4, <1>5 DEF Next, Step

-----------------------------------------------------------------------------
(* The files. *)

\* What is excused stays excused.
LEMMA ExcusedStays ==
    ASSUME UNCHANGED given, saves \subseteq saves', spoiled \subseteq spoiled',
           NEW f, Excused(f)
    PROVE  Excused(f)'
BY DEF Excused, EditedTwice, Edits, given

\* A step that touches neither the files nor what is remembered of them.
LEMMA FilesStay ==
    ASSUME SavedOK, UNCHANGED <<given, disk, saved>>, saves \subseteq saves',
           spoiled \subseteq spoiled'
    PROVE  SavedOK'
<1>1. \A f : Excused(f) => Excused(f)'
  BY ExcusedStays
<1>2. QED
  BY <1>1 DEF SavedOK, given

\* A file written twice in one round is excused; before its first time it is
\* remembered as it was found.
LEMMA WriteKeeps ==
    ASSUME RestoreInv, WriteEdit, TypeOK'
    PROVE  SavedOK' /\ Remembered'
<1> DEFINE f == Target.file
           t == IF Missing(f) THEN NoText ELSE disk[f].text
<1>1. /\ f \in File /\ Edits(round) \in Seq(Edit) /\ edit \in DOMAIN Edits(round)
      /\ round \in DOMAIN call.rounds /\ f = Edits(round)[edit].file
  BY TargetType DEF WriteEdit, RestoreInv, Target
<1>2. t \in Texts
  BY <1>1 DEF RestoreInv, TypeOK, Entry, Texts
<1>3. /\ DOMAIN saved' = DOMAIN saved \cup {f}
      /\ saved'[f] = t
      /\ \A g \in DOMAIN saved \ {f} : saved'[g] = saved[g]
  BY <1>1, <1>2, RememberType DEF WriteEdit, RestoreInv
<1>4. /\ UNCHANGED <<given, round, saves, spoiled>> /\ at = "write" /\ round <= Len(call.rounds)
      /\ \A g \in File \ {f} : disk'[g] = disk[g]
  BY <1>1 DEF WriteEdit, Writing, RestoreInv, TypeOK
<1>5. \A g : Excused(g) => Excused(g)'
  BY <1>4, ExcusedStays
<1>6. t = found[f].text \/ Excused(f)
  <2>1. CASE f \in DOMAIN saved
    <3>1. PICK i \in DOMAIN Edits(round) : i < edit /\ Edits(round)[i].file = f
      BY <1>4, <2>1 DEF RestoreInv, Remembered
    <3>2. i # edit
      BY <1>1, <3>1 DEF RestoreInv, TypeOK
    <3>3. EditedTwice(f)
      BY <1>1, <3>1, <3>2 DEF EditedTwice
    <3>4. QED
      BY <3>3 DEF Excused
  <2>2. CASE f \notin DOMAIN saved
    <3>1. disk[f].text = found[f].text \/ Excused(f)
      BY <1>1, <2>2 DEF RestoreInv, SavedOK
    <3>2. Missing(f) => kind[f] = "denied" \/ disk[f].text = NoText
      BY DEF Missing, NoFile
    <3>3. QED
      BY <3>1, <3>2 DEF Excused
  <2>3. QED
    BY <2>1, <2>2
<1>7. SavedOK'
  <2>1. \A g \in DOMAIN saved' : saved'[g] = found[g].text \/ Excused(g)
    BY <1>3, <1>6 DEF RestoreInv, SavedOK
  <2>2. \A g \in File \ DOMAIN saved' : disk'[g].text = found[g].text \/ Excused(g)
    BY <1>3, <1>4 DEF RestoreInv, SavedOK
  <2>3. QED
    BY <1>4, <1>5, <2>1, <2>2 DEF SavedOK, given
<1>8. Remembered'
  <2>1. CASE at' = "restore"
    BY <2>1 DEF Remembered
  <2>2. CASE at' = "write" /\ edit' = edit + 1
    <3>1. edit \in Nat /\ \A i \in DOMAIN Edits(round) : i < edit => i < edit + 1
      BY <1>1 DEF RestoreInv, TypeOK
    <3>2. \A g \in DOMAIN saved' :
              \E i \in DOMAIN Edits(round) : i < edit + 1 /\ Edits(round)[i].file = g
      BY <1>1, <1>3, <1>4, <3>1 DEF RestoreInv, Remembered
    <3>3. Edits(round)' = Edits(round) /\ call' = call /\ round' = round
      BY <1>4 DEF Edits, given
    <3>4. ~(round > Len(call.rounds))
      BY <1>4 DEF RestoreInv, TypeOK
    <3>5. QED
      BY <1>4, <2>2, <3>2, <3>3, <3>4 DEF Remembered
  <2>3. QED
    BY <2>1, <2>2 DEF WriteEdit, Writing, Raise
<1>9. QED
  BY <1>7, <1>8

\* A file put back is as it was found, or its restoration failed.
LEMMA RestoreKeeps ==
    ASSUME RestoreInv, Restore
    PROVE  SavedOK' /\ Remembered'
<1>1. PICK f \in DOMAIN saved : PutBack(f) /\ saved' = [g \in DOMAIN saved \ {f} |-> saved[g]]
  BY DEF Restore
<1>2. UNCHANGED <<given, at, saves>> /\ at = "restore"
  BY DEF Restore
<1>3. /\ spoiled \subseteq spoiled'
      /\ disk'[f].text = saved[f] \/ f \in spoiled'
      /\ \A g \in File \ {f} : disk'[g] = disk[g]
  BY <1>1, PutBackType DEF RestoreInv
<1>4. \A g : Excused(g) => Excused(g)'
  BY <1>2, <1>3, ExcusedStays
<1>5. /\ DOMAIN saved' = DOMAIN saved \ {f}
      /\ \A g \in DOMAIN saved \ {f} : saved'[g] = saved[g]
  BY <1>1
<1>6. saved[f] = found[f].text \/ Excused(f)
  BY <1>1 DEF RestoreInv, SavedOK
<1>7. disk'[f].text = found[f].text \/ Excused(f)'
  BY <1>3, <1>4, <1>6 DEF Excused
<1>8. \A g \in DOMAIN saved' : saved'[g] = found[g].text \/ Excused(g)'
  BY <1>4, <1>5 DEF RestoreInv, SavedOK
<1>9. \A g \in File \ DOMAIN saved' : disk'[g].text = found[g].text \/ Excused(g)'
  BY <1>3, <1>4, <1>5, <1>7 DEF RestoreInv, SavedOK
<1>10. QED
  BY <1>2, <1>8, <1>9 DEF SavedOK, Remembered, given

LEMMA RestoreInit == Init => RestoreInv
<1> SUFFICES ASSUME Init PROVE RestoreInv
  OBVIOUS
<1>1. TypeOK
  BY TypeInit
<1>2. DOMAIN saved = {} /\ disk = found /\ at \in {"baseline", "write"}
  BY DEF Init, Nothing
<1>3. QED
  BY <1>1, <1>2 DEF RestoreInv, InRound, SavedOK, Remembered

LEMMA RestoreStep == ASSUME RestoreInv, [Next]_vars PROVE RestoreInv'
<1>t. TypeOK' /\ InRound'
  BY TypeStep, InRoundStep DEF RestoreInv
<1>1. CASE Baseline \/ RunTrial
  <2>1. UNCHANGED <<given, disk, saved, saves, spoiled, round, edit>>
    BY <1>1 DEF Baseline, RunTrial
  <2>2. SavedOK'
    BY <2>1, FilesStay DEF RestoreInv
  <2>3. CASE Baseline
    <3>1. DOMAIN saved' = {}
      BY <2>1, <2>3 DEF Baseline, RestoreInv, Remembered
    <3>2. QED
      BY <1>t, <2>2, <3>1 DEF RestoreInv, Remembered
  <2>4. CASE RunTrial
    <3>1. at' = "restore"
      BY <2>4 DEF RunTrial
    <3>2. QED
      BY <1>t, <2>2, <3>1 DEF RestoreInv, Remembered
  <2>5. QED
    BY <1>1, <2>3, <2>4
<1>2. CASE ReadRaises
  <2>1. SavedOK' /\ at' = "restore"
    BY <1>2, FilesStay DEF ReadRaises, Raise, RestoreInv
  <2>2. QED
    BY <1>t, <2>1 DEF RestoreInv, Remembered
<1>3. CASE JudgeUnread
  <2>1. SavedOK' /\ at' = "write" /\ UNCHANGED saved
    BY <1>3, FilesStay DEF JudgeUnread, Writing, RestoreInv
  <2>2. DOMAIN saved = {}
    <3>1. edit \in DOMAIN Edits(round) /\ round \in DOMAIN call.rounds
      BY <1>3, TargetType DEF JudgeUnread, RestoreInv
    <3>2. Len(Edits(round)) = 1
      BY <1>3, <3>1, ConstantsAssumption DEF JudgeUnread, ConstantsAssumption, RestoreInv,
         TypeOK, Edits
    <3>3. Edits(round) \in Seq(Edit) /\ edit = 1
      BY <1>3, <3>1, <3>2, TargetType DEF JudgeUnread, RestoreInv
    <3>4. \A i \in DOMAIN Edits(round) : ~(i < edit)
      BY <3>3
    <3>5. QED
      BY <1>3, <3>4 DEF JudgeUnread, Writing, RestoreInv, Remembered
  <2>3. QED
    BY <1>t, <2>1, <2>2 DEF RestoreInv, Remembered
<1>4. CASE WriteEdit
  BY <1>4, <1>t, WriteKeeps DEF RestoreInv
<1>5. CASE Restore
  BY <1>5, <1>t, RestoreKeeps DEF RestoreInv
<1>6. CASE Proceed \/ Finish
  <2>1. UNCHANGED <<given, disk, saved, saves, spoiled>>
    BY <1>6 DEF Proceed, Finish
  <2>2. DOMAIN saved' = {}
    BY <1>6, <2>1 DEF Proceed, Finish, RestoreInv, Remembered
  <2>3. QED
    BY <1>t, <2>1, <2>2, FilesStay DEF RestoreInv, Remembered
<1>7. CASE Interrupt
  <2>1. UNCHANGED <<given, disk, saved, saves>> /\ spoiled \subseteq spoiled'
    BY <1>7 DEF Interrupt
  <2>2. at' \in {"restore", "done"} /\ (at' = "done" => DOMAIN saved' \subseteq spoiled')
    BY <1>7 DEF Interrupt, RestoreInv, Remembered
  <2>3. QED
    BY <1>t, <2>1, <2>2, FilesStay DEF RestoreInv, Remembered
<1>8. ASSUME NEW f \in File, Save(f) PROVE RestoreInv'
  <2>1. /\ UNCHANGED <<given, at, round, edit, saved, spoiled>> /\ saves' = saves \cup {f}
        /\ \A g \in File \ {f} : disk'[g] = disk[g]
    BY <1>8 DEF Save, RestoreInv, TypeOK
  <2>2. \A g : Excused(g) => Excused(g)'
    BY <2>1, ExcusedStays
  <2>3. Excused(f)'
    BY <2>1 DEF Excused
  <2>4. SavedOK'
    BY <2>1, <2>2, <2>3 DEF RestoreInv, SavedOK, given
  <2>5. Remembered'
    BY <2>1 DEF RestoreInv, Remembered, Edits, given
  <2>6. QED
    BY <1>t, <2>4, <2>5 DEF RestoreInv
<1>9. CASE Stop \/ UNCHANGED vars
  <2>1. UNCHANGED vars
    BY <1>9 DEF Stop
  <2>2. SavedOK' /\ Remembered'
    BY <2>1, FilesStay DEF vars, given, RestoreInv, Remembered, Edits
  <2>3. QED
    BY <1>t, <2>2 DEF RestoreInv
<1>10. QED
  BY <1>1, <1>2, <1>3, <1>4, <1>5, <1>6, <1>7, <1>8, <1>9 DEF Next, Step, User

LEMMA RestoreInvariance == Spec => []RestoreInv
BY RestoreInit, RestoreStep, PTL DEF Spec

\* Every variable keeps its type; in particular no round follows the last.
THEOREM Typing == Spec => []TypeOK
BY RestoreInvariance, PTL DEF RestoreInv

\* When a call is over each file holds its text again, but for those the user
\* saved, those whose restoration failed, and those that were edited twice or
\* could not be read.
THEOREM Restored == Spec => []TreeRestored
<1>1. RestoreInv => TreeRestored
  BY DEF RestoreInv, SavedOK, Remembered, Excused, TreeRestored
<1>2. QED
  BY <1>1, RestoreInvariance, PTL

-----------------------------------------------------------------------------
(* The rounds. *)

Clean == saves = {} /\ spoiled = {}

\* In a clean tree each file holds the last of the edits before the n-th that
\* are of this file, or what was found.
Applied(n) ==
    \A f \in File :
        \/ /\ \A i \in DOMAIN Edits(round) : i < n => Edits(round)[i].file # f
           /\ disk[f].text = found[f].text
        \/ \E i \in DOMAIN Edits(round) :
              /\ i < n /\ Edits(round)[i].file = f
              /\ \A j \in DOMAIN Edits(round) : j < n /\ Edits(round)[j].file = f => j <= i
              /\ disk[f].text = Edits(round)[i].text

AsFound == \A f \in File : disk[f].text = found[f].text

\* The edits made so far are all that is different.
Midway == round <= Len(call.rounds) => Applied(edit) /\ edit <= Len(Edits(round)) + 1

\* Between the rounds of a mutation run the tree is on its way back.
Restoring ==
    /\ \A f \in DOMAIN saved : saved[f] = found[f].text
    /\ \A f \in File \ DOMAIN saved : disk[f].text = found[f].text

Judged(r) ==
    said[r] \in {"pass", "fail"} => said[r] = (IF Fails(With(r)) THEN "fail" ELSE "pass")

\* One answer for each round.
Counted ==
    /\ at = "baseline" => round = 1 /\ edit = 1 /\ said = <<>> /\ before = "none"
    /\ at = "write" => Len(said) = round - 1
    /\ at = "restore" /\ ~raised => Len(said) = round

TreeOK ==
    Clean =>
        /\ at = "baseline" => AsFound
        /\ at = "write" => Midway
        /\ at \in {"write", "restore"} /\ call.job = "mutation" => Restoring

SaidOK ==
    Clean /\ ~hung =>
        /\ before # "none" => before = (IF Fails(found) THEN "fail" ELSE "pass")
        /\ \A r \in DOMAIN said : Judged(r)

\* Mutants are of files that can be read.
GivenOK ==
    call.job = "mutation" =>
        \A r \in DOMAIN call.rounds : \A f \in Edited(r) : kind[f] # "denied"

RoundInv == RestoreInv /\ GivenOK /\ Counted /\ TreeOK /\ SaidOK

LEMMA RoundsType ==
    ASSUME TypeOK
    PROVE  /\ call.rounds \in Seq(Seq(Edit))
           /\ call.job \in {"regression", "mutation"}
           /\ call.job = "regression" => Len(call.rounds) = 1
           /\ call.job = "mutation" => \A r \in DOMAIN call.rounds : Len(Edits(r)) = 1
           /\ \A r \in DOMAIN call.rounds : Edits(r) \in Seq(Edit)
           /\ \A r \in DOMAIN call.rounds : r \in Nat /\ r >= 1 /\ r <= Len(call.rounds)
           /\ \A r \in Nat : r >= 1 /\ r <= Len(call.rounds) => r \in DOMAIN call.rounds
           /\ round \in Nat /\ round >= 1 /\ edit \in Nat /\ edit >= 1
<1>1. call \in Calls /\ call \in [job : {"regression", "mutation"}, rounds : Seq(Seq(Edit))]
  BY ConstantsAssumption DEF TypeOK, ConstantsAssumption
<1>2. call.rounds \in Seq(Seq(Edit)) /\ call.job \in {"regression", "mutation"}
  BY <1>1
<1>3. /\ call.job = "regression" => Len(call.rounds) = 1
      /\ call.job = "mutation" => \A r \in DOMAIN call.rounds : Len(call.rounds[r]) = 1
  BY <1>1, ConstantsAssumption DEF ConstantsAssumption
<1>4. round \in Nat /\ round >= 1 /\ edit \in Nat /\ edit >= 1
  BY <1>2 DEF TypeOK
<1>5. QED
  BY <1>2, <1>3, <1>4 DEF Edits

\* With all the edits of a round applied, the suite sees the tree of this round.
LEMMA AppliedAll ==
    ASSUME TypeOK, round \in DOMAIN call.rounds, NEW n \in Nat, n > Len(Edits(round)), Applied(n)
    PROVE  Fails(disk) = Fails(With(round))
<1> DEFINE E == Edits(round)
<1>1. E \in Seq(Edit) /\ \A i \in DOMAIN E : i < n /\ i \in Nat
  BY RoundsType
<1>2. ASSUME NEW f \in File PROVE disk[f].text = With(round)[f].text
  <2>1. CASE f \in Edited(round)
    <3> DEFINE P(i) == E[i].file = f /\ \A j \in DOMAIN E : E[j].file = f => j <= i
               last == CHOOSE i \in DOMAIN E : P(i)
    <3>1. PICK k \in DOMAIN E : P(k) /\ disk[f].text = E[k].text
      BY <1>1, <2>1 DEF Applied, Edited
    <3>2. last \in DOMAIN E /\ P(last)
      BY <3>1
    <3>3. last = k
      BY <1>1, <3>1, <3>2
    <3>4. With(round)[f].text = E[last].text
      BY <2>1 DEF With, Plain
    <3>5. QED
      BY <3>1, <3>3, <3>4
  <2>2. CASE f \notin Edited(round)
    <3>1. \A i \in DOMAIN E : E[i].file # f
      BY <2>2 DEF Edited
    <3>2. disk[f].text = found[f].text
      BY <3>1 DEF Applied
    <3>3. With(round)[f] = found[f]
      BY <2>2 DEF With
    <3>4. QED
      BY <3>2, <3>3
  <2>3. QED
    BY <2>1, <2>2
<1>3. QED
  BY <1>2 DEF Fails

\* One more answer of the suite.
LEMMA Judging ==
    ASSUME TypeOK, UNCHANGED given, NEW a \in Answers \cup {"unread"}, said' = Append(said, a),
           \A r \in DOMAIN said : Judged(r),
           a \in {"pass", "fail"} =>
               a = (IF Fails(With(Len(said) + 1)) THEN "fail" ELSE "pass")
    PROVE  (\A r \in DOMAIN said : Judged(r))'
<1>1. said \in Seq(Answers \cup {"unread"})
  BY DEF TypeOK
<1>2. /\ DOMAIN said' = 1..(Len(said) + 1) /\ Len(said) \in Nat
      /\ said'[Len(said) + 1] = a
      /\ \A r \in DOMAIN said : said'[r] = said[r]
  BY <1>1
<1>3. \A r \in DOMAIN said' : r \in DOMAIN said \/ r = Len(said) + 1
  BY <1>1, <1>2
<1>4. \A r \in DOMAIN said' :
          said'[r] \in {"pass", "fail"} =>
              said'[r] = (IF Fails(With(r)) THEN "fail" ELSE "pass")
  BY <1>2, <1>3 DEF Judged
<1>5. \A r : Fails(With(r))' = Fails(With(r))
  BY DEF Fails, With, Edited, Edits, given
<1>6. QED
  BY <1>4, <1>5 DEF Judged

\* What was said keeps its meaning when neither the answers nor the call change.
LEMMA SaidStays ==
    ASSUME SaidOK, UNCHANGED <<given, before, said, hung>>, Clean' => Clean
    PROVE  SaidOK'
<1>1. Fails(found)' = Fails(found) /\ \A r : Judged(r)' <=> Judged(r)
  BY DEF Judged, Fails, With, Edited, Edits, given
<1>2. QED
  BY <1>1 DEF SaidOK

\* The first edit of a round finds the tree as it was.
LEMMA RoundBegins == TypeOK /\ edit = 1 /\ AsFound => Midway
<1> SUFFICES ASSUME TypeOK, edit = 1, AsFound, round <= Len(call.rounds)
             PROVE  Applied(edit) /\ edit <= Len(Edits(round)) + 1
  BY DEF Midway
<1>1. Edits(round) \in Seq(Edit)
  BY RoundsType
<1>2. \A i \in DOMAIN Edits(round) : ~(i < edit)
  BY <1>1
<1>3. QED
  BY <1>1, <1>2 DEF Applied, AsFound

LEMMA RoundInit == Init => RoundInv
<1> SUFFICES ASSUME Init PROVE RoundInv
  OBVIOUS
<1>1. RestoreInv /\ TypeOK
  BY RestoreInit DEF RestoreInv
<1>2. GivenOK
  BY DEF Init, GivenOK
<1>3. /\ DOMAIN saved = {} /\ disk = found /\ round = 1 /\ edit = 1 /\ said = <<>>
      /\ before = "none" /\ at \in {"baseline", "write"}
  BY DEF Init, Nothing
<1>4. Counted /\ SaidOK
  BY <1>3 DEF Counted, SaidOK
<1>5. AsFound /\ Midway
  BY <1>1, <1>3, RoundBegins DEF AsFound
<1>6. TreeOK
  BY <1>3, <1>5 DEF TreeOK, Restoring
<1>7. QED
  BY <1>1, <1>2, <1>4, <1>6 DEF RoundInv

\* Until an edit of a mutation is written, nothing is remembered.
LEMMA FirstEdit ==
    ASSUME RestoreInv, Writing, call.job = "mutation"
    PROVE  edit = 1 /\ Len(Edits(round)) = 1 /\ DOMAIN saved = {}
<1>1. /\ edit \in DOMAIN Edits(round) /\ round \in DOMAIN call.rounds
      /\ Edits(round) \in Seq(Edit)
  BY TargetType DEF RestoreInv
<1>2. Len(Edits(round)) = 1
  BY <1>1, RoundsType DEF RestoreInv
<1>3. edit = 1 /\ \A i \in DOMAIN Edits(round) : ~(i < edit)
  BY <1>1, <1>2
<1>4. QED
  BY <1>2, <1>3 DEF Writing, RestoreInv, Remembered

\* One more edit applied.
LEMMA WriteApplies ==
    ASSUME RoundInv, WriteEdit
    PROVE  TreeOK'
<1> DEFINE f == Target.file
           E == Edits(round)
<1>1. /\ TypeOK /\ f \in File /\ E \in Seq(Edit) /\ edit \in DOMAIN E /\ round \in DOMAIN call.rounds
      /\ Target = E[edit] /\ Target.text \in Texts
  BY TargetType DEF WriteEdit, RoundInv, RestoreInv, Target
<1>2. /\ UNCHANGED <<given, round, saves, spoiled>> /\ at = "write" /\ round <= Len(call.rounds)
      /\ at' \in {"write", "restore"} /\ Edits(round)' = E
      /\ \A g \in File \ {f} : disk'[g] = disk[g]
  BY <1>1 DEF WriteEdit, Writing, Raise, TypeOK, Edits, given
<1>3. SUFFICES ASSUME Clean' PROVE TreeOK'
  BY DEF TreeOK
<1>4. Clean /\ Applied(edit) /\ edit <= Len(E) + 1
  BY <1>2, <1>3 DEF Clean, RoundInv, TreeOK, Midway
<1>5. ASSUME call.job = "mutation"
      PROVE  /\ disk[f].text = found[f].text /\ ~Missing(f) /\ DOMAIN saved = {}
             /\ \A g \in File : disk[g].text = found[g].text
  BY <1>1, <1>2, <1>4, <1>5, FirstEdit DEF WriteEdit, RoundInv, TreeOK, Restoring
<1>6. ASSUME call.job = "mutation" PROVE Restoring'
  <2>1. disk[f].text \in Texts
    BY <1>1 DEF TypeOK, Entry
  <2>2. DOMAIN saved' = {f} /\ saved'[f] = disk[f].text
    BY <1>1, <1>5, <1>6, <2>1, RememberType DEF WriteEdit
  <2>3. QED
    BY <1>2, <1>5, <1>6, <2>2 DEF Restoring, given
<1>7. ASSUME at' = "write"
      PROVE  Applied(edit)' /\ (edit <= Len(Edits(round)) + 1)'
  <2>1. edit' = edit + 1 /\ disk' = [disk EXCEPT ![f] = Plain(NewText(Target))]
    BY <1>7 DEF WriteEdit, Raise
  <2>2. NewText(Target) = Target.text
    BY <1>1, <1>5, RoundsType DEF NewText
  <2>3. disk'[f].text = E[edit].text
    BY <1>1, <2>1, <2>2, WrittenType
  <2>4. edit \in Nat /\ \A i \in DOMAIN E : i \in Nat /\ (i < edit + 1 <=> i < edit \/ i = edit)
    BY <1>1
  <2>5. ASSUME NEW g \in File \ {f}
        PROVE  \/ /\ \A i \in DOMAIN E : i < edit + 1 => E[i].file # g
                  /\ disk'[g].text = found[g].text
               \/ \E i \in DOMAIN E :
                     /\ i < edit + 1 /\ E[i].file = g
                     /\ \A j \in DOMAIN E : j < edit + 1 /\ E[j].file = g => j <= i
                     /\ disk'[g].text = E[i].text
    BY <1>1, <1>2, <1>4, <2>4, <2>5 DEF Applied
  <2>6. /\ edit < edit + 1 /\ E[edit].file = f
        /\ \A j \in DOMAIN E : j < edit + 1 /\ E[j].file = f => j <= edit
    BY <1>1, <2>4
  <2>7. Applied(edit)'
    BY <1>1, <1>2, <2>1, <2>3, <2>5, <2>6 DEF Applied, given
  <2>8. edit + 1 <= Len(E) + 1
    BY <1>1
  <2>9. QED
    BY <1>2, <2>1, <2>7, <2>8
<1>8. QED
  BY <1>2, <1>6, <1>7 DEF TreeOK, Midway, given

LEMMA RoundStep == ASSUME RoundInv, [Next]_vars PROVE RoundInv'
<1>t. RestoreInv' /\ RestoreInv /\ TypeOK
  BY RestoreStep DEF RoundInv, RestoreInv
<1>g. UNCHANGED given
  BY DEF Next, Step, User, Baseline, ReadRaises, JudgeUnread, WriteEdit, RunTrial, Restore,
     Proceed, Finish, Interrupt, Save, Stop, vars
<1>h. GivenOK'
  BY <1>g DEF RoundInv, GivenOK, Edited, Edits, given
<1>s. said \in Seq(Answers \cup {"unread"}) /\ round \in Nat
  BY <1>t, RoundsType DEF TypeOK
<1>1. CASE Baseline
  <2>1. /\ at = "baseline" /\ at' \in {"done", "write"} /\ round = 1 /\ edit = 1 /\ said = <<>>
        /\ UNCHANGED <<disk, round, edit, saved, said, raised, saves, spoiled>>
    BY <1>1 DEF Baseline, RoundInv, Counted
  <2>2. Counted'
    BY <1>1, <2>1 DEF Baseline, Counted
  <2>3. ASSUME Clean'
        PROVE  Clean /\ AsFound
    BY <2>1, <2>3 DEF Clean, RoundInv, TreeOK
  <2>4. TreeOK'
    <3>1. SUFFICES ASSUME Clean' PROVE TreeOK'
      BY DEF TreeOK
    <3>2. Midway
      BY <1>t, <2>1, <2>3, <3>1, RoundBegins
    <3>3. Midway' <=> Midway
      BY <1>g, <2>1 DEF Midway, Applied, Edits, given
    <3>4. Restoring'
      BY <1>g, <1>t, <2>1, <2>3, <3>1 DEF Restoring, AsFound, given, RestoreInv, Remembered
    <3>5. QED
      BY <2>1, <3>2, <3>3, <3>4 DEF TreeOK
  <2>5. SaidOK'
    <3>1. SUFFICES ASSUME Clean', ~hung' PROVE SaidOK'
      BY DEF SaidOK
    <3>2. Fails(disk) = Fails(found)
      BY <2>3, <3>1 DEF Fails, AsFound
    <3>3. before' # "none" => before' = (IF Fails(disk) THEN "fail" ELSE "pass")
      BY <1>1, <3>1 DEF Baseline, Runs, RoundInv, Counted
    <3>4. Fails(found)' = Fails(found)
      BY <1>g DEF Fails, given
    <3>5. DOMAIN said' = {}
      BY <2>1
    <3>6. QED
      BY <3>2, <3>3, <3>4, <3>5 DEF SaidOK
  <2>6. QED
    BY <1>t, <1>h, <2>2, <2>4, <2>5 DEF RoundInv
<1>2. CASE ReadRaises
  <2>1. /\ UNCHANGED <<disk, round, edit, saved, before, said, saves, spoiled, hung>>
        /\ at = "write" /\ at' = "restore" /\ raised'
    BY <1>2 DEF ReadRaises, Raise, Writing
  <2>2. Restoring' <=> Restoring
    BY <1>g, <2>1 DEF Restoring, given
  <2>3. QED
    BY <1>g, <1>h, <1>t, <2>1, <2>2, SaidStays DEF RoundInv, Counted, TreeOK, Clean, given
<1>3. CASE JudgeUnread
  <2>1. /\ UNCHANGED <<disk, edit, saved, before, saves, spoiled, hung, at>>
        /\ at = "write" /\ round' = round + 1 /\ said' = Append(said, "unread")
        /\ call.job = "mutation" /\ Writing
    BY <1>3 DEF JudgeUnread, Writing
  <2>2. edit = 1 /\ DOMAIN saved = {} /\ Len(said) = round - 1
    BY <1>t, <2>1, FirstEdit DEF RoundInv, Counted
  <2>3. Len(said') = Len(said) + 1
    BY <1>s, <2>1
  <2>4. Counted'
    BY <1>s, <2>1, <2>2, <2>3 DEF Counted
  <2>5. TreeOK'
    <3>1. SUFFICES ASSUME Clean' PROVE TreeOK'
      BY DEF TreeOK
    <3>2. Restoring /\ AsFound
      BY <2>1, <2>2, <3>1 DEF RoundInv, TreeOK, Restoring, AsFound, Clean
    <3>3. Restoring' <=> Restoring
      BY <1>g, <2>1 DEF Restoring, given
    <3>4. AsFound'
      BY <1>g, <2>1, <3>2 DEF AsFound, given
    <3>5. Midway'
      <4>1. TypeOK' /\ (edit = 1)'
        BY <1>t, <2>1, <2>2 DEF RestoreInv
      <4>2. QED
        BY <3>4, <4>1, RoundBegins, PTL
    <3>6. QED
      BY <2>1, <3>2, <3>3, <3>5 DEF TreeOK
  <2>6. SaidOK'
    <3>1. SUFFICES ASSUME Clean', ~hung' PROVE SaidOK'
      BY DEF SaidOK
    <3>2. (\A r \in DOMAIN said : Judged(r))'
      BY <1>g, <1>t, <2>1, <3>1, Judging DEF RoundInv, SaidOK, Clean
    <3>3. Fails(found)' = Fails(found)
      BY <1>g DEF Fails, given
    <3>4. QED
      BY <2>1, <3>1, <3>2, <3>3 DEF RoundInv, SaidOK, Clean
  <2>7. QED
    BY <1>h, <1>t, <2>4, <2>5, <2>6 DEF RoundInv
<1>4. CASE WriteEdit
  <2>1. TreeOK'
    BY <1>4, WriteApplies
  <2>2. UNCHANGED <<round, before, said, saves, spoiled, hung>> /\ at = "write"
    BY <1>4 DEF WriteEdit, Writing
  <2>3. Counted'
    BY <1>4, <2>2 DEF WriteEdit, Raise, RoundInv, Counted
  <2>4. QED
    BY <1>g, <1>h, <1>t, <2>1, <2>2, <2>3, SaidStays DEF RoundInv, Clean
<1>5. CASE RunTrial
  <2>1. PICK answer \in Answers : Runs(answer) /\ said' = Append(said, answer)
    BY <1>5 DEF RunTrial
  <2>2. /\ UNCHANGED <<disk, round, edit, saved, before, raised, saves, spoiled>>
        /\ at = "write" /\ at' = "restore" /\ round <= Len(call.rounds)
        /\ edit > Len(Edits(round)) /\ Len(said) = round - 1
    BY <1>5 DEF RunTrial, Written, RoundInv, Counted
  <2>3. Counted'
    BY <1>s, <2>1, <2>2 DEF Counted
  <2>4. Restoring' <=> Restoring
    BY <1>g, <2>2 DEF Restoring, given
  <2>5. TreeOK'
    BY <1>g, <2>2, <2>4 DEF RoundInv, TreeOK, Clean, given
  <2>6. SaidOK'
    <3>1. SUFFICES ASSUME Clean', ~hung' PROVE SaidOK'
      BY DEF SaidOK
    <3>2. Clean /\ ~hung
      BY <2>1, <2>2, <3>1 DEF Clean, Runs, TypeOK
    <3>3. Fails(disk) = Fails(With(round))
      <4>1. round \in DOMAIN call.rounds /\ edit \in Nat
        BY <1>t, <2>2, RoundsType
      <4>2. QED
        BY <1>t, <2>2, <3>2, <4>1, AppliedAll DEF RoundInv, TreeOK, Midway
    <3>4. answer \in {"pass", "fail"} => answer = (IF Fails(disk) THEN "fail" ELSE "pass")
      BY <2>1, <3>1 DEF Runs
    <3>5. Len(said) + 1 = round
      BY <1>s, <2>2
    <3>6. (\A r \in DOMAIN said : Judged(r))'
      BY <1>g, <1>t, <2>1, <3>2, <3>3, <3>4, <3>5, Judging DEF RoundInv, SaidOK
    <3>7. Fails(found)' = Fails(found)
      BY <1>g DEF Fails, given
    <3>8. QED
      BY <2>2, <3>2, <3>6, <3>7 DEF RoundInv, SaidOK
  <2>7. QED
    BY <1>h, <1>t, <2>3, <2>5, <2>6 DEF RoundInv
<1>6. CASE Restore
  <2>1. PICK f \in DOMAIN saved : PutBack(f) /\ saved' = [g \in DOMAIN saved \ {f} |-> saved[g]]
    BY <1>6 DEF Restore
  <2>2. UNCHANGED <<at, round, edit, before, said, raised, saves, hung>> /\ at = "restore"
    BY <1>6 DEF Restore
  <2>3. /\ spoiled \subseteq spoiled'
        /\ disk'[f].text = saved[f] \/ f \in spoiled'
        /\ \A g \in File \ {f} : disk'[g] = disk[g]
    BY <1>t, <2>1, PutBackType
  <2>4. Counted'
    BY <2>2 DEF RoundInv, Counted
  <2>5. Clean' => Clean
    BY <2>2, <2>3 DEF Clean
  <2>6. Clean' /\ call.job = "mutation" => Restoring'
    BY <1>g, <2>1, <2>2, <2>3, <2>5 DEF RoundInv, TreeOK, Restoring, Clean, given
  <2>7. TreeOK'
    BY <1>g, <2>2, <2>6 DEF TreeOK, given
  <2>8. QED
    BY <1>g, <1>h, <1>t, <2>2, <2>4, <2>5, <2>7, SaidStays DEF RoundInv
<1>7. CASE Proceed
  <2>1. /\ UNCHANGED <<disk, saved, before, said, raised, saves, spoiled, hung>>
        /\ at = "restore" /\ DOMAIN saved = {}
    BY <1>7 DEF Proceed
  <2>2. Counted'
    BY <1>7, <1>s, <2>1 DEF Proceed, RoundInv, Counted
  <2>3. TreeOK'
    <3>1. SUFFICES ASSUME Clean', at' = "write" PROVE TreeOK'
      BY <1>7 DEF TreeOK, Proceed
    <3>2. round' = round + 1 /\ edit' = 1
      BY <1>7, <3>1 DEF Proceed
    <3>3. CASE call.job = "mutation"
      <4>1. Restoring /\ AsFound
        BY <2>1, <3>1, <3>3 DEF RoundInv, TreeOK, Restoring, AsFound, Clean
      <4>2. Restoring' /\ AsFound'
        BY <1>g, <2>1, <4>1 DEF Restoring, AsFound, given
      <4>3. TypeOK' /\ (edit = 1)'
        BY <1>t, <3>2 DEF RestoreInv
      <4>4. Midway'
        BY <4>2, <4>3, RoundBegins, PTL
      <4>5. QED
        BY <3>1, <4>2, <4>4 DEF TreeOK
    <3>4. CASE call.job # "mutation"
      <4>1. Len(call.rounds) = 1 /\ round >= 1
        BY <1>t, <3>4, RoundsType
      <4>2. ~(round' <= Len(call'.rounds)) /\ call' = call
        BY <1>g, <1>s, <3>2, <4>1 DEF given
      <4>3. QED
        BY <1>g, <3>1, <3>4, <4>2 DEF TreeOK, Midway, given
    <3>5. QED
      BY <3>3, <3>4
  <2>4. QED
    BY <1>g, <1>h, <1>t, <2>1, <2>2, <2>3, SaidStays DEF RoundInv, Clean
<1>8. CASE Finish
  <2>1. UNCHANGED <<before, said, saves, spoiled, hung>> /\ at' = "done"
    BY <1>8 DEF Finish
  <2>2. QED
    BY <1>g, <1>h, <1>t, <2>1, SaidStays DEF RoundInv, Counted, TreeOK, Clean
<1>9. CASE Interrupt
  <2>1. /\ UNCHANGED <<disk, round, edit, saved, before, said, saves, hung>> /\ raised'
        /\ spoiled \subseteq spoiled' /\ at' \in {"restore", "done"}
        /\ at' = "restore" => at = "write"
    BY <1>9 DEF Interrupt
  <2>2. Clean' => Clean
    BY <2>1 DEF Clean
  <2>3. Restoring' <=> Restoring
    BY <1>g, <2>1 DEF Restoring, given
  <2>4. Counted' /\ TreeOK'
    BY <1>g, <2>1, <2>2, <2>3 DEF RoundInv, Counted, TreeOK, given
  <2>5. QED
    BY <1>g, <1>h, <1>t, <2>1, <2>2, <2>4, SaidStays DEF RoundInv
<1>10. ASSUME NEW f \in File, Save(f) PROVE RoundInv'
  <2>1. UNCHANGED <<at, round, edit, before, said, raised>> /\ saves' = saves \cup {f}
    BY <1>10 DEF Save
  <2>2. ~Clean'
    BY <2>1 DEF Clean
  <2>3. QED
    BY <1>h, <1>t, <2>1, <2>2 DEF RoundInv, Counted, TreeOK, SaidOK
<1>11. CASE Stop \/ UNCHANGED vars
  <2>1. UNCHANGED vars
    BY <1>11 DEF Stop
  <2>2. (Restoring' <=> Restoring) /\ (Midway' <=> Midway) /\ (AsFound' <=> AsFound)
    BY <2>1 DEF Restoring, Midway, Applied, AsFound, Edits, vars, given
  <2>3. Counted' /\ TreeOK'
    BY <2>1, <2>2 DEF RoundInv, Counted, TreeOK, Clean, Edits, vars, given
  <2>4. QED
    BY <1>g, <1>h, <1>t, <2>1, <2>3, SaidStays DEF RoundInv, Clean, vars
<1>12. QED
  BY <1>1, <1>2, <1>3, <1>4, <1>5, <1>6, <1>7, <1>8, <1>9, <1>10, <1>11 DEF Next, Step, User

\* What the suite says in a round is about the tree as found with the edits of
\* that round, and its baseline about the tree as found, unless the user or a
\* failing restoration has been at the files or the suite ran out of time.
THEOREM RoundsApart == Spec => []EachRoundAlone
<1>1. Init => RoundInv
  BY RoundInit
<1>2. RoundInv /\ [Next]_vars => RoundInv'
  BY RoundStep
<1>3. RoundInv => EachRoundAlone
  BY DEF RoundInv, SaidOK, Judged, Clean, EachRoundAlone, Undisturbed
<1>4. QED
  BY <1>1, <1>2, <1>3, PTL DEF Spec
=============================================================================
