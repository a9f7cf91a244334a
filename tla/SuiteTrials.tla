---------------------------- MODULE SuiteTrials ----------------------------
(***************************************************************************)
(* Two operations that change files of the user's checkout, run the user's *)
(* own test suite on the result, and put the files back: regression_check  *)
(* (operations.py), which applies the edits of a fix once, and             *)
(* run_security_mutation (security_mutation.py), which removes one         *)
(* authorization check at a time.  Either is a sequence of rounds, each of *)
(* a few edits and one run of the suite.                                   *)
(*                                                                         *)
(* The user goes on working meanwhile and may interrupt at any moment; a   *)
(* write may fail, and leave half a file behind.  A file is read with its  *)
(* line endings translated and written with plain ones.  What the suite    *)
(* says depends on the texts in the tree.                                  *)
(***************************************************************************)
EXTENDS Naturals, Sequences

CONSTANTS
    File,      \* files of the checkout
    Text,      \* texts they may hold
    NoText,    \* no such file
    Garbled,   \* a text cut short, or an edit of a text it was not made for
    UserText,  \* what the user saves meanwhile
    Calls,     \* the calls: an operation and its rounds
    Trees,     \* the checkouts as found
    Suites     \* for each suite, the texts it fails on

Texts == Text \cup {NoText, Garbled, UserText}
Entry == [text : Texts, eol : {"lf", "crlf"}]
Edit  == [file : File, text : Text]

\* "opaque" is not UTF-8, "denied" cannot be read, "locked" cannot be written.
Kinds == {"plain", "opaque", "denied", "locked"}

ASSUME ConstantsAssumption ==
    /\ Calls \subseteq [job : {"regression", "mutation"}, rounds : Seq(Seq(Edit))]
    /\ \A c \in Calls :   \* one fix, or mutants of one line each
           /\ c.job = "regression" => Len(c.rounds) = 1
           /\ c.job = "mutation" => \A r \in DOMAIN c.rounds : Len(c.rounds[r]) = 1
    /\ Trees \subseteq [File -> Entry]
    /\ \A s \in Suites : s \subseteq Texts

VARIABLES
    call,    \* which operation, with the edits of each round
    found,   \* the checkout as it was
    kind,    \* what the process may do with each file
    suite,   \* the texts the suite fails on
    tool,    \* the test command exists
    disk,    \* the checkout
    at, round, edit,   \* where the operation is
    saved,   \* the texts to put back
    before,  \* the suite on the checkout as found (regression_check)
    said,    \* the suite's answer in each round
    raised,  \* an exception is on its way out
    saves, spoiled,    \* files the user saved, files whose restoration failed
    hung     \* some run of the suite hit its time limit

given == <<call, found, kind, suite, tool>>
vars  == <<given, disk, at, round, edit, saved, before, said, raised, saves, spoiled, hung>>

NoFile  == [text |-> NoText, eol |-> "lf"]
Plain(t) == [text |-> t, eol |-> "lf"]
Nothing == [f \in {} |-> NoText]

Edits(r)  == call.rounds[r]
Edited(r) == {Edits(r)[i].file : i \in DOMAIN Edits(r)}

\* Mutants are found in files that could be read, if not always as UTF-8.
Init ==
    /\ call \in Calls /\ found \in Trees /\ suite \in Suites /\ tool \in BOOLEAN
    /\ kind \in [File -> Kinds]
    /\ \A f \in File : found[f] = NoFile => kind[f] \in {"plain", "locked"}
    /\ call.job = "mutation" =>
           \A r \in DOMAIN call.rounds : \A f \in Edited(r) :
               found[f] # NoFile /\ kind[f] # "denied"
    /\ disk = found
    /\ at = (IF call.job = "regression" THEN "baseline" ELSE "write")
    /\ round = 1 /\ edit = 1 /\ saved = Nothing
    /\ before = "none" /\ said = <<>> /\ raised = FALSE
    /\ saves = {} /\ spoiled = {} /\ hung = FALSE

-----------------------------------------------------------------------------
\* The suite, as _default_runner runs it: a run that times out has failed.
Fails(tree) == \E f \in File : tree[f].text \in suite

Runs(answer) ==
    \/ answer = (IF ~tool THEN "missing" ELSE IF Fails(disk) THEN "fail" ELSE "pass")
       /\ UNCHANGED hung
    \/ tool /\ answer = "fail" /\ hung' = TRUE

Answers == {"pass", "fail", "missing"}

\* regression_check first runs the suite on the tree as it is.
Baseline ==
    /\ at = "baseline"
    /\ \E answer \in Answers :
        /\ Runs(answer)
        /\ IF answer = "missing" THEN at' = "done" /\ UNCHANGED before
                                 ELSE at' = "write" /\ before' = answer
    /\ UNCHANGED <<given, disk, round, edit, saved, said, raised, saves, spoiled>>

-----------------------------------------------------------------------------
\* One edit: the file is read, remembered, and written.

\* Fault: nothing is put back when something raises.
RaiseThrough == raised' = TRUE /\ at' = "done"

\* Whatever raises inside the `try` passes through its `finally`.
Raise == raised' = TRUE /\ at' = "restore"

Writing == at = "write" /\ round <= Len(call.rounds) /\ edit <= Len(Edits(round))
Target   == Edits(round)[edit]
Missing(f) == kind[f] = "denied" \/ disk[f] = NoFile
Opaque(f)  == kind[f] = "opaque" /\ disk[f] # NoFile

\* An edit of a fix is the whole new text; a mutant is a line of the text it was
\* found in, so made to any other text it is something else.
NewText(e) ==
    IF call.job = "regression" \/ disk[e.file].text = found[e.file].text
    THEN e.text ELSE Garbled

Remember(f, text) ==
    saved' = [g \in DOMAIN saved \cup {f} |-> IF g = f THEN text ELSE saved[g]]

ReadRaises ==
    /\ Writing /\ Opaque(Target.file)
    /\ Raise
    /\ UNCHANGED <<given, disk, round, edit, saved, before, said, saves, spoiled, hung>>

\* A mutant whose file is gone is not run, and counts as one that survived.
JudgeUnread ==
    /\ Writing /\ call.job = "mutation" /\ Missing(Target.file) /\ ~Opaque(Target.file)
    /\ said' = Append(said, "unread")
    /\ round' = round + 1
    /\ UNCHANGED <<given, disk, at, edit, saved, before, raised, saves, spoiled, hung>>

\* In regression_check a file that cannot be read is taken for one to be created.
WriteEdit ==
    /\ Writing /\ ~Opaque(Target.file)
    /\ call.job = "mutation" => ~Missing(Target.file)
    /\ Remember(Target.file, IF Missing(Target.file) THEN NoText ELSE disk[Target.file].text)
    /\ \/ /\ kind[Target.file] # "locked"
          /\ disk' = [disk EXCEPT ![Target.file] = Plain(NewText(Target))]
          /\ edit' = edit + 1
          /\ UNCHANGED <<at, raised>>
       \/ /\ \/ UNCHANGED disk
             \/ kind[Target.file] # "locked" /\ disk' = [disk EXCEPT ![Target.file] = Plain(Garbled)]
          /\ Raise
          /\ UNCHANGED edit
    /\ UNCHANGED <<given, round, before, said, saves, spoiled, hung>>

Written == at = "write" /\ round <= Len(call.rounds) /\ edit > Len(Edits(round))

\* Fault: the files are put back once, after the last round.
RunTrialRestoringLast ==
    /\ Written
    /\ \E answer \in Answers : Runs(answer) /\ said' = Append(said, answer)
    /\ IF round < Len(call.rounds)
       THEN round' = round + 1 /\ edit' = 1 /\ UNCHANGED at
       ELSE at' = "restore" /\ UNCHANGED <<round, edit>>
    /\ UNCHANGED <<given, disk, saved, before, raised, saves, spoiled>>

RunTrial ==
    /\ Written
    /\ \E answer \in Answers : Runs(answer) /\ said' = Append(said, answer)
    /\ at' = "restore"
    /\ UNCHANGED <<given, disk, round, edit, saved, before, raised, saves, spoiled>>

-----------------------------------------------------------------------------
\* The `finally`: each remembered file, whatever happens to the others.

\* A failure is suppressed, and half a file may stay.
PutBack(f) ==
    \/ /\ saved[f] = NoText
       /\ disk' = [disk EXCEPT ![f] = NoFile]
       /\ UNCHANGED spoiled
    \/ /\ saved[f] # NoText /\ kind[f] # "locked"
       /\ disk' = [disk EXCEPT ![f] = Plain(saved[f])]
       /\ UNCHANGED spoiled
    \/ /\ saved[f] # NoText
       /\ \/ UNCHANGED disk
          \/ kind[f] # "locked" /\ disk' = [disk EXCEPT ![f] = Plain(Garbled)]
       /\ spoiled' = spoiled \cup {f}

Restore ==
    /\ at = "restore"
    /\ \E f \in DOMAIN saved :
        /\ PutBack(f)
        /\ saved' = [g \in DOMAIN saved \ {f} |-> saved[g]]
    /\ UNCHANGED <<given, at, round, edit, before, said, raised, saves, hung>>

\* The next round; an exception ends the operation instead.
Proceed ==
    /\ at = "restore" /\ DOMAIN saved = {}
    /\ IF raised THEN at' = "done" /\ UNCHANGED <<round, edit>>
                 ELSE at' = "write" /\ round' = round + 1 /\ edit' = 1
    /\ UNCHANGED <<given, disk, saved, before, said, raised, saves, spoiled, hung>>

Finish ==
    /\ at = "write" /\ round > Len(call.rounds)
    /\ at' = "done"
    /\ UNCHANGED <<given, disk, round, edit, saved, before, said, raised, saves, spoiled, hung>>

-----------------------------------------------------------------------------
\* The user.

Save(f) ==
    /\ at # "done" /\ kind[f] = "plain"
    /\ disk' = [disk EXCEPT ![f] = Plain(UserText)] \/ disk' = [disk EXCEPT ![f] = NoFile]
    /\ saves' = saves \cup {f}
    /\ UNCHANGED <<given, at, round, edit, saved, before, said, raised, spoiled, hung>>

\* Ctrl-C, which also stops a restoration under way.
Interrupt ==
    /\ at \in {"baseline", "write", "restore"}
    /\ raised' = TRUE
    /\ at' = IF at = "write" THEN "restore" ELSE "done"
    /\ spoiled' = IF at = "restore" THEN spoiled \cup DOMAIN saved ELSE spoiled
    /\ UNCHANGED <<given, disk, round, edit, saved, before, said, saves, hung>>

Step ==
    \/ Baseline \/ ReadRaises \/ JudgeUnread \/ WriteEdit \/ RunTrial
    \/ Restore \/ Proceed \/ Finish

User == Interrupt \/ \E f \in File : f \notin saves /\ Save(f)

Stop == at = "done" /\ UNCHANGED vars

Next == Step \/ User \/ Stop

\* One thread; a run of the suite has a time limit.
Spec == Init /\ [][Next]_vars /\ WF_vars(Step)

-----------------------------------------------------------------------------
(* Properties. *)

TypeOK ==
    /\ call \in Calls /\ found \in Trees /\ suite \in Suites /\ tool \in BOOLEAN
    /\ kind \in [File -> Kinds]
    /\ disk \in [File -> Entry]
    /\ at \in {"baseline", "write", "restore", "done"}
    /\ round \in 1..(Len(call.rounds) + 1) /\ edit \in Nat \ {0}
    /\ DOMAIN saved \subseteq File /\ \A f \in DOMAIN saved : saved[f] \in Texts
    /\ before \in {"none", "pass", "fail"}
    /\ said \in Seq(Answers \cup {"unread"})
    /\ raised \in BOOLEAN /\ hung \in BOOLEAN
    /\ saves \subseteq File /\ spoiled \subseteq File

EditedTwice(f) ==
    \E r \in DOMAIN call.rounds : \E i, j \in DOMAIN Edits(r) :
        i # j /\ Edits(r)[i].file = f /\ Edits(r)[j].file = f

\* "Then restore the files" (regression_check, judge): when the call is over, by a
\* return or an exception, each file holds its text again; the exceptions are a
\* file the user saved or whose restoration failed, one edited twice by the same
\* fix (its first edit is what is remembered), and one that could not be read.
TreeRestored ==
    at = "done" => \A f \in File :
        \/ disk[f].text = found[f].text
        \/ f \in saves \cup spoiled \/ EditedTwice(f) \/ kind[f] = "denied"

\* The tree as found with the edits of one round.
With(r) ==
    [f \in File |->
        IF f \in Edited(r)
        THEN LET last == CHOOSE i \in DOMAIN Edits(r) :
                     /\ Edits(r)[i].file = f
                     /\ \A j \in DOMAIN Edits(r) : Edits(r)[j].file = f => j <= i
             IN  Plain(Edits(r)[last].text)
        ELSE found[f]]

Undisturbed == saves = {} /\ spoiled = {} /\ ~hung

\* A verdict is about its own round: what the suite said in each is what it says
\* of the tree as found with exactly that round's edits, and the baseline is of
\* the tree as found.  So a regression is the patch's, and a mutant is judged
\* with no other mutant in the tree.
EachRoundAlone ==
    Undisturbed =>
        /\ before # "none" => before = (IF Fails(found) THEN "fail" ELSE "pass")
        /\ \A r \in DOMAIN said : said[r] \in {"pass", "fail"} =>
               said[r] = (IF Fails(With(r)) THEN "fail" ELSE "pass")

=============================================================================
