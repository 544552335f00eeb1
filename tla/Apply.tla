------------------------------- MODULE Apply --------------------------------
(***************************************************************************)
(* applyTaskInternal (apply.go): the changed files of a task that passed   *)
(* replace the originals in the user's repository, one rename after        *)
(* another, while the user may write any of them.  Everything is looked at *)
(* before the first write, staged beside its target, looked at again, and  *)
(* taken back when a later step fails.  receipt.json in the backup tells   *)
(* what became of it.  t.mu is held throughout, so there is one apply of a *)
(* task at a time.                                                         *)
(***************************************************************************)
EXTENDS Naturals

CONSTANTS
  Changed,              \* FilesChanged in order, 1 .. n
  New,                  \* those that did not exist, in one directory that did not
  MaxApplies, MaxEdits  \* bounds: calls, writes of the user

VARIABLES
  tree,                 \* file -> what is there: "absent", "old", "new" or the user's
  dir,                  \* the directory of New: "absent", "ours" or "theirs"
  task,                 \* t.Status and t.Applied
  pc, file,             \* where the call is, and at which entry
  done,                 \* entries renamed so far: 1 .. done
  call,                 \* automatic, and receipt.Status, CreatedDirectories, RollbackErrors
  saved,                \* receipt.json of the last transaction
  told,                 \* what the calls returned
  late,                 \* files written between a look at them and their replacement
  lost,                 \* history: files whose user was overwritten otherwise
  applies, edits        \* bounded

vars == <<tree, dir, task, pc, file, done, call, saved, told, late, lost, applies, edits>>
outside == <<applies, edits>>

Last == CHOOSE n \in Changed : \A f \in Changed : f <= n
Before(f) == IF f \in New THEN "absent" ELSE "old"
Original(f) == tree[f] = Before(f)
NoReceipt == [status |-> "none", applied |-> 0]
Receipt(status) == [status |-> status, applied |-> done]

Init ==
  /\ tree = [f \in Changed |-> Before(f)] /\ dir = "absent"
  /\ \E s \in {"applying", "PASS"} : task = [status |-> s, applied |-> FALSE]
  /\ pc = "idle" /\ file = 1 /\ done = 0
  /\ call = [automatic |-> FALSE, status |-> "none", made |-> FALSE, errors |-> FALSE]
  /\ saved = NoReceipt /\ told = "nothing" /\ late = {} /\ lost = {}
  /\ applies = 0 /\ edits = 0

(* controllerWrite: an error may come before or after its rename. *)
SaveOK(r) == saved' = r
SaveError(r) == saved' \in {saved, r}

(* The caller learns how it ended; an automatic task becomes a plain PASS.
   That a receipt could not be written is not forgotten. *)
Return(answer) ==
  /\ pc' = "idle"
  /\ told' = IF told = "unsaved" THEN told ELSE answer

EndTask == IF call.automatic THEN [task EXCEPT !.status = "PASS"] ELSE task

(* The deferred function begins with the last entry that was renamed. *)
FailAfter(n) ==
  /\ pc' = "undo" /\ file' = n /\ done' = n
  /\ call' = [call EXCEPT !.status = "ROLLED_BACK"]

Goto(label, f) == pc' = label /\ file' = f

(* finishVerifiedTask, or the public apply: only a PASS, and only once. *)
Begin(automatic) ==
  /\ pc = "idle" /\ applies < MaxApplies
  /\ task.status = IF automatic THEN "applying" ELSE "PASS"
  /\ applies' = applies + 1
  /\ IF task.applied
     THEN Return("refused") /\ UNCHANGED <<file, done, call>>
     ELSE /\ Goto("inspect", 1) /\ done' = 0
          /\ call' = [automatic |-> automatic, status |-> "none",
                      made |-> FALSE, errors |-> FALSE]
          /\ UNCHANGED told
  /\ UNCHANGED <<tree, dir, task, saved, late, lost, edits>>

(* Before the first receipt a call just ends. *)
Refuse ==
  /\ Return("refused") /\ task' = EndTask
  /\ UNCHANGED <<tree, dir, file, done, call, late, lost, outside>>

Inspect ==
  /\ pc = "inspect"
  /\ \/ /\ Original(file)
        /\ IF file = Last THEN Goto("prepare", 1) ELSE Goto("inspect", file + 1)
        /\ UNCHANGED <<tree, dir, task, done, call, saved, told, late, lost, outside>>
     \/ Refuse /\ UNCHANGED saved

(* The backup of all originals, then the first receipt. *)
Prepare ==
  /\ pc = "prepare"
  /\ \/ /\ SaveOK(Receipt("PREPARED")) /\ Goto("stage", 1)
        /\ call' = [call EXCEPT !.status = "PREPARED"]
        /\ UNCHANGED <<tree, dir, task, done, told, late, lost, outside>>
     \/ Refuse /\ SaveError(Receipt("PREPARED"))

(* ensureApplyParents and stageApplyFile; the directory stays if staging fails. *)
Stage ==
  /\ pc = "stage"
  /\ LET makes == file \in New /\ dir = "absent"
         made == [call EXCEPT !.made = @ \/ makes]
     IN  /\ \/ /\ dir' = IF makes THEN "ours" ELSE dir
               /\ \/ /\ call' = made /\ UNCHANGED done
                     /\ IF file = Last THEN Goto("staged", 1) ELSE Goto("stage", file + 1)
                  \/ /\ Goto("undo", 0) /\ done' = 0
                     /\ call' = [made EXCEPT !.status = "ROLLED_BACK"]
            \/ FailAfter(0) /\ UNCHANGED dir
  /\ UNCHANGED <<tree, task, saved, told, late, lost, outside>>

Staged ==
  /\ pc = "staged"
  /\ \/ SaveOK(Receipt("PREPARED")) /\ Goto("verify", 1) /\ UNCHANGED <<done, call>>
     \/ SaveError(Receipt("PREPARED")) /\ FailAfter(0)
  /\ UNCHANGED <<tree, dir, task, told, late, lost, outside>>

(* Staging may have taken time: the complete set once more. *)
Verify ==
  /\ pc = "verify"
  /\ \/ /\ Original(file) /\ UNCHANGED <<done, call>>
        /\ IF file = Last THEN Goto("check", 1) ELSE Goto("verify", file + 1)
     \/ FailAfter(0)
  /\ UNCHANGED <<tree, dir, task, saved, told, late, lost, outside>>

(* Fault: the complete set has just been verified. *)
CheckNothing ==
  /\ pc = "check"
  /\ \/ Goto("rename", file) /\ UNCHANGED <<done, call>>
     \/ FailAfter(done)
  /\ UNCHANGED <<tree, dir, task, saved, told, late, lost, outside>>

(* And each file immediately before its rename. *)
Check ==
  /\ pc = "check"
  /\ \/ Original(file) /\ Goto("rename", file) /\ UNCHANGED <<done, call>>
     \/ FailAfter(done)
  /\ UNCHANGED <<tree, dir, task, saved, told, late, lost, outside>>

Overwrite(f, content) ==
  /\ tree' = [tree EXCEPT ![f] = content]
  /\ lost' = IF tree[f] = "user" /\ f \notin late THEN lost \cup {f} ELSE lost

Rename ==
  /\ pc = "rename"
  /\ \/ Overwrite(file, "new") /\ Goto("record", file) /\ done' = file /\ UNCHANGED call
     \/ FailAfter(done) /\ UNCHANGED <<tree, lost>>
  /\ UNCHANGED <<dir, task, saved, told, late, outside>>

(* Fault: the entry counts as applied only once its receipt is saved. *)
RecordAfterSave ==
  /\ pc = "record"
  /\ \/ /\ SaveOK(Receipt("PREPARED")) /\ UNCHANGED <<done, call>>
        /\ IF file = Last THEN Goto("finish", file) ELSE Goto("check", file + 1)
     \/ SaveError(Receipt("PREPARED")) /\ FailAfter(file - 1)
  /\ UNCHANGED <<tree, dir, task, told, late, lost, outside>>

(* The directory is synced and the receipt names one file more. *)
Record ==
  /\ pc = "record"
  /\ \/ /\ SaveOK(Receipt("PREPARED")) /\ UNCHANGED <<done, call>>
        /\ IF file = Last THEN Goto("finish", file) ELSE Goto("check", file + 1)
     \/ SaveError(Receipt("PREPARED")) /\ FailAfter(file)
  /\ UNCHANGED <<tree, dir, task, told, late, lost, outside>>

Finish ==
  /\ pc = "finish"
  /\ \/ /\ SaveOK(Receipt("APPLIED")) /\ Goto("close", file)
        /\ call' = [call EXCEPT !.status = "APPLIED"]
        /\ task' = [task EXCEPT !.applied = TRUE] /\ UNCHANGED done
     \/ SaveError(Receipt("APPLIED")) /\ FailAfter(done) /\ UNCHANGED task
  /\ UNCHANGED <<tree, dir, told, late, lost, outside>>

(* rollbackApplyEntry looks first: only our own bytes are taken back. *)
Undo ==
  /\ pc = "undo"
  /\ \/ file = 0 /\ Goto("clean", 0) /\ UNCHANGED call
     \/ file > 0 /\ tree[file] = "new" /\ Goto("restore", file) /\ UNCHANGED call
     \/ file > 0 /\ Goto("undo", file - 1) /\ call' = [call EXCEPT !.errors = TRUE]
  /\ UNCHANGED <<tree, dir, task, done, saved, told, late, lost, outside>>

(* The staged original, or nothing, in its place; the sync after it may fail. *)
Restore ==
  /\ pc = "restore" /\ Goto("undo", file - 1)
  /\ \/ Overwrite(file, Before(file)) /\ call' \in {call, [call EXCEPT !.errors = TRUE]}
     \/ call' = [call EXCEPT !.errors = TRUE] /\ UNCHANGED <<tree, lost>>
  /\ UNCHANGED <<dir, task, done, saved, told, late, outside>>

(* A directory we made is removed if it is empty. *)
Clean ==
  /\ pc = "clean" /\ Goto("close", 0)
  /\ \/ ~call.made /\ UNCHANGED <<dir, call>>
     \/ /\ call.made /\ \A f \in New : tree[f] = "absent"
        /\ dir' = "absent" /\ UNCHANGED call
     \/ call.made /\ call' = [call EXCEPT !.errors = TRUE] /\ UNCHANGED dir
  /\ UNCHANGED <<tree, task, done, saved, told, late, lost, outside>>

FinalReceipt == Receipt(IF call.errors THEN "ROLLBACK_UNCERTAIN" ELSE call.status)

(* The last receipt; its error joins the answer, also that of a success. *)
Close ==
  /\ pc = "close" /\ task' = EndTask
  /\ \/ SaveOK(FinalReceipt) /\ Return(IF call.status = "APPLIED" THEN "ok" ELSE "refused")
     \/ SaveError(FinalReceipt) /\ Return("unsaved")
  /\ UNCHANGED <<tree, dir, file, done, call, late, lost, outside>>

(* The task, and with it every later apply, lives in memory only. *)
Crash ==
  /\ pc \notin {"idle", "dead"} /\ pc' = "dead"
  /\ UNCHANGED <<tree, dir, task, file, done, call, saved, told, late, lost, outside>>

(* The user writes a file, also one that is new here. *)
Edit(f) ==
  /\ edits < MaxEdits /\ edits' = edits + 1
  /\ tree' = [tree EXCEPT ![f] = "user"]
  /\ dir' = IF f \in New /\ dir = "absent" THEN "theirs" ELSE dir
  /\ late' = IF pc \in {"rename", "restore"} /\ file = f THEN late \cup {f} ELSE late \ {f}
  /\ UNCHANGED <<task, pc, file, done, call, saved, told, lost, applies>>

Next ==
  \/ \E automatic \in BOOLEAN : Begin(automatic)
  \/ Inspect \/ Prepare \/ Stage \/ Staged \/ Verify \/ Check \/ Rename \/ Record
  \/ Finish \/ Undo \/ Restore \/ Clean \/ Close \/ Crash
  \/ \E f \in Changed : Edit(f)

Spec == Init /\ [][Next]_vars

------------------------------------------------------------------------------
Ours == {f \in Changed : tree[f] = "new"}

(* A task that is applied has every file in place and a receipt that says so. *)
AppliedIsWhole ==
  task.applied => saved.status = "APPLIED" /\ \A f \in Changed : ~Original(f)

(* ROLLED_BACK stands for nothing of ours, not even a directory it made. *)
RolledBackIsNothing ==
  saved.status = "ROLLED_BACK" => Ours = {} /\ (call.made => dir # "ours")

(* What is left of a failed apply is named by its receipt, which calls it
   uncertain, unless that receipt could not be written. *)
RemainsAreNamed ==
  /\ saved.status \in {"APPLIED", "ROLLBACK_UNCERTAIN"} => Ours \subseteq 1 .. saved.applied
  /\ pc = "idle" /\ told # "unsaved" /\ ~task.applied /\ Ours # {}
       => saved.status = "ROLLBACK_UNCERTAIN"
  /\ Ours # {} => saved.status # "none"

(* All files or none, or the receipt says so; and nothing the user wrote before
   the last look at a file is overwritten, neither by the apply nor by its
   rollback (apply.go, applyTaskInternal and rollbackApplyEntry). *)
ApplyIsHonest == AppliedIsWhole /\ RolledBackIsNothing /\ RemainsAreNamed /\ lost = {}
=============================================================================
