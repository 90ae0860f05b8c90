---------------------------- MODULE AtomicConfig ----------------------------
(***************************************************************************)
(* One AtomicConfigFileTransaction on one configuration file               *)
(* (config/atomic_config_transaction.py): prepare, commit, rollback,       *)
(* finalize and abort step by step, the recovery of its journal at the     *)
(* next start, an operator's editor that replaces or deletes the file at   *)
(* any moment, process death, power loss and I/O errors.                   *)
(*                                                                         *)
(* A file is its identity (inode, metadata and digest, which the code      *)
(* compares together): "old" is the document the transaction was begun     *)
(* on, "cand" the candidate, "roll" the rollback copy of "old", and the    *)
(* members of Edits are what the editor writes.  The directory is a record *)
(* of names; "none" is a name without a file.  The journal's name carries  *)
(* its phase, its content never changes.                                   *)
(***************************************************************************)
EXTENDS Naturals, Sequences, FiniteSets, SequencesExt

CONSTANTS Edits,        \* versions the editor may write, each once
          MaxCrashes,   \* process deaths and power losses
          MaxFaults     \* I/O errors

VARIABLES fs,         \* the directory, as the running system sees it
          disks,      \* directories a power loss may leave: all since the last fsync
          expected,   \* the target when the transaction was begun: "old" or "none"
          pc,         \* the step the gateway is about to take
          state,      \* AtomicConfigTransactionState
          applied,    \* _rollback_applied
          displaced,  \* the file found in the candidate's name after the exchange
          todo,       \* names a cleanup still has to unlink, in order
          goal,       \* where a cleanup ends
          promise,    \* what the caller was last told: "none", "committed", "rolled_back"
          undo,       \* an abort or a rollback has begun; only it is retried
          crashes, faults

vars == <<fs, disks, expected, pc, state, applied, displaced, todo, goal,
          promise, undo, crashes, faults>>
memory == <<expected, state, applied, displaced, todo, goal, promise, undo,
            crashes, faults>>

Names == {"target", "candidate", "rollback"}
Files == {"none", "old", "cand", "roll"} \cup Edits
Phases == {"prepared", "commit", "abort", "restore", "restore_move", "finalize"}
ASSUME EditsAreNew == Edits \cap {"none", "old", "cand", "roll", "unedited"} = {}

-----------------------------------------------------------------------------
(* The directory *)

\* One directory operation: visible at once, durable at the next fsync.
Dir(d) == fs' = d /\ disks' = disks \cup {d}
\* The same followed by os.fsync(parent_fd).
DirSynced(d) == fs' = d /\ disks' = {d}
FSync == DirSynced(fs)

Exchange(a, b) == [fs EXCEPT ![a] = fs[b], ![b] = fs[a]]
Move(a, b) == [fs EXCEPT ![b] = fs[a], ![a] = "none"]

\* _transition_journal: rename the journal, fsync, go on at next; an I/O error
\* may strike before the rename or between the rename and the fsync.
JournalTo(phase, next, error) ==
  \/ /\ DirSynced([fs EXCEPT !.journal = phase])
     /\ pc' = next
     /\ UNCHANGED faults
  \/ /\ faults < MaxFaults
     /\ faults' = faults + 1
     /\ \E d \in {fs, [fs EXCEPT !.journal = phase]} : Dir(d)
     /\ pc' = error

Present(names) == SelectSeq(names, LAMBDA n : fs[n] # "none")
Owned == <<"candidate", "rollback", "journal">>

-----------------------------------------------------------------------------
(* begin and prepare *)

Init ==
  /\ expected \in {"old", "none"}
  /\ fs = [target |-> expected, candidate |-> "none", rollback |-> "none",
           journal |-> "none", edit |-> "unedited"]
  /\ disks = {fs}
  /\ pc = "write_candidate" /\ state = "begun"
  /\ applied = FALSE /\ displaced = "none" /\ undo = FALSE
  /\ todo = <<>> /\ goal = "none" /\ promise = "none"
  /\ crashes = 0 /\ faults = 0

WriteCandidate ==
  /\ pc = "write_candidate"
  /\ Dir([fs EXCEPT !.candidate = "cand"])
  /\ pc' = IF expected = "none" THEN "open_journal" ELSE "write_rollback"
  /\ UNCHANGED memory

WriteRollback ==
  /\ pc = "write_rollback"
  /\ Dir([fs EXCEPT !.rollback = "roll"])
  /\ pc' = "open_journal"
  /\ UNCHANGED memory

\* The journal's name exists before its content does.
OpenJournal ==
  /\ pc = "open_journal"
  /\ Dir([fs EXCEPT !.journal = "torn"])
  /\ pc' = "write_journal"
  /\ UNCHANGED memory

WriteJournal ==
  /\ pc = "write_journal"
  /\ Dir([fs EXCEPT !.journal = "prepared"])
  /\ pc' = "sync_prepared"
  /\ UNCHANGED memory

SyncPrepared ==
  /\ pc = "sync_prepared"
  /\ FSync
  /\ pc' = "idle" /\ state' = "prepared"
  /\ UNCHANGED <<expected, applied, displaced, todo, goal, promise, undo, crashes, faults>>

-----------------------------------------------------------------------------
(* abort *)

\* _abort_internal: the journal to "abort" if it was written, then the cleanup.
AbortInternal ==
  /\ pc = "abort"
  /\ \/ /\ fs.journal \in Phases
        /\ JournalTo("abort", "cleanup", "idle")
     \/ /\ fs.journal \notin Phases
        /\ pc' = "cleanup"
        /\ UNCHANGED <<fs, disks, faults>>
  /\ todo' = IF pc' = "cleanup" THEN Present(Owned) ELSE <<>>
  /\ goal' = "aborted" /\ undo' = TRUE
  /\ UNCHANGED <<expected, state, applied, displaced, promise, crashes>>

\* Every cleanup of the module: unlink the names in order, fsync, finish.
CleanupUnlink ==
  /\ pc = "cleanup" /\ todo # <<>>
  /\ Dir([fs EXCEPT ![Head(todo)] = "none"])
  /\ todo' = Tail(todo)
  /\ UNCHANGED <<pc, expected, state, applied, displaced, goal, promise, undo, crashes, faults>>

\* _remove_owned_artifacts goes on after an unlink that failed.
CleanupSkip ==
  /\ pc = "cleanup" /\ todo # <<>> /\ goal = "aborted" /\ state \in {"begun", "prepared"}
  /\ faults < MaxFaults /\ faults' = faults + 1
  /\ todo' = Tail(todo)
  /\ UNCHANGED <<fs, disks, pc, expected, state, applied, displaced, goal, promise, undo, crashes>>

CleanupDone ==
  /\ pc = "cleanup" /\ todo = <<>>
  /\ FSync
  /\ pc' = IF goal \in {"recovered", "up"} THEN goal ELSE "idle"
  /\ state' = IF goal \in {"recovered", "up"} \/ (goal = "aborted" /\ Present(Owned) # <<>>)
              THEN state ELSE goal
  /\ promise' = IF goal = "rolled_back" THEN "rolled_back" ELSE promise
  /\ UNCHANGED <<expected, applied, displaced, todo, goal, undo, crashes, faults>>

-----------------------------------------------------------------------------
(* commit *)

\* The coordinator commits once; a commit that failed in REPLACED is never
\* asked for again, it is rolled back.
CallCommit ==
  /\ pc = "idle" /\ state = "prepared" /\ ~undo
  /\ pc' = "compare"
  /\ UNCHANGED <<fs, disks>> /\ UNCHANGED memory

\* The compare of the compare-and-swap, before the atomic exchange.
CompareExpected ==
  /\ pc = "compare"
  /\ pc' = IF fs.target = expected THEN "replace" ELSE "abort"
  /\ UNCHANGED <<fs, disks>> /\ UNCHANGED memory

\* mutant: the compare before the exchange is trusted
ReplaceUnchecked ==
  /\ pc = "replace" /\ expected # "none" /\ fs.target # "none"
  /\ Dir(Exchange("candidate", "target"))
  /\ state' = "recovery_required" /\ displaced' = fs.target /\ pc' = "confirm"
  /\ UNCHANGED <<expected, applied, todo, goal, promise, undo, crashes, faults>>

\* RENAME_EXCHANGE: the target's file moves to the candidate's name, whatever
\* it is by now, and is compared with the expected one there.
ReplaceExisting ==
  /\ pc = "replace" /\ expected # "none"
  /\ \/ /\ fs.target = "none"
        /\ pc' = "abort"
        /\ UNCHANGED <<fs, disks, state, displaced>>
     \/ /\ fs.target # "none"
        /\ Dir(Exchange("candidate", "target"))
        /\ state' = "recovery_required"
        /\ displaced' = fs.target
        /\ pc' = IF fs.target = expected THEN "confirm" ELSE "restore_journal"
  /\ UNCHANGED <<expected, applied, todo, goal, promise, undo, crashes, faults>>

\* RENAME_NOREPLACE for a file that did not exist.
ReplaceMissing ==
  /\ pc = "replace" /\ expected = "none"
  /\ \/ /\ fs.target # "none"
        /\ pc' = "abort"
        /\ UNCHANGED <<fs, disks, state>>
     \/ /\ fs.target = "none"
        /\ Dir(Move("candidate", "target"))
        /\ state' = "recovery_required"
        /\ pc' = "confirm"
  /\ UNCHANGED <<expected, applied, displaced, todo, goal, promise, undo, crashes, faults>>

\* mutant: commit returns as soon as the exchange is confirmed
ReportsEarly ==
  /\ pc = "confirm" /\ fs.target = "cand"
  /\ state' = "committed" /\ promise' = "committed" /\ pc' = "idle"
  /\ UNCHANGED <<fs, disks, expected, applied, displaced, todo, goal, undo, crashes, faults>>

ConfirmReplaced ==
  /\ pc = "confirm"
  /\ \/ fs.target = "cand" /\ state' = "replaced" /\ pc' = "validate1"
     \/ fs.target # "cand" /\ state' = state /\ pc' = "idle"
  /\ UNCHANGED <<fs, disks, expected, applied, displaced, todo, goal, promise, undo,
                 crashes, faults>>

\* _restore_displaced_external: put back a version the exchange displaced.
RestoreJournal ==
  /\ pc = "restore_journal"
  /\ JournalTo("restore", "restore_swap", "idle")
  /\ UNCHANGED <<expected, state, applied, displaced, todo, goal, promise, undo, crashes>>

RestoreSwap ==
  /\ pc = "restore_swap"
  /\ \/ fs.target = "none" /\ pc' = "idle" /\ UNCHANGED <<fs, disks>>
     \/ fs.target # "none" /\ Dir(Exchange("candidate", "target")) /\ pc' = "restore_check"
  /\ UNCHANGED memory

RestoreCheck ==
  /\ pc = "restore_check"
  /\ pc' = IF fs.target = displaced /\ fs.candidate = "cand" THEN "abort" ELSE "idle"
  /\ UNCHANGED <<fs, disks>> /\ UNCHANGED memory

\* _validate_replaced_candidate before and after the fsync; a target that is no
\* longer the candidate goes to _abort_replaced_after_race: the editor wins.
ValidateReplaced ==
  /\ pc \in {"validate1", "validate2"}
  /\ pc' = IF fs.target # "cand" THEN "external_win"
           ELSE IF pc = "validate1" THEN "sync_replaced" ELSE "commit_journal"
  /\ UNCHANGED <<fs, disks>> /\ UNCHANGED memory

SyncReplaced ==
  /\ pc = "sync_replaced"
  /\ FSync
  /\ pc' = "validate2"
  /\ UNCHANGED memory

\* _complete_external_win_cleanup, after the replacement or after the rollback.
ExternalWin ==
  /\ pc = "external_win"
  /\ JournalTo("abort", "cleanup", "idle")
  /\ state' = "recovery_required"
  /\ todo' = IF pc' = "cleanup" THEN Present(Owned) ELSE <<>>
  /\ goal' = "aborted"
  /\ UNCHANGED <<expected, applied, displaced, promise, undo, crashes>>

\* mutant: the displaced original is unlinked under the old journal phase
JournalSkipped ==
  /\ pc = "commit_journal" /\ pc' = "unlink_displaced"
  /\ UNCHANGED <<fs, disks>> /\ UNCHANGED memory

CommitJournal ==
  /\ pc = "commit_journal"
  /\ JournalTo("commit", "unlink_displaced", "idle")
  /\ UNCHANGED <<expected, state, applied, displaced, todo, goal, promise, undo, crashes>>

UnlinkDisplaced ==
  /\ pc = "unlink_displaced"
  /\ Dir([fs EXCEPT !.candidate = "none"])
  /\ displaced' = "none"
  /\ pc' = "sync_committed"
  /\ UNCHANGED <<expected, state, applied, todo, goal, promise, undo, crashes, faults>>

SyncCommitted ==
  /\ pc = "sync_committed"
  /\ FSync
  /\ pc' = "idle" /\ state' = "committed" /\ promise' = "committed"
  /\ UNCHANGED <<expected, applied, displaced, todo, goal, undo, crashes, faults>>

-----------------------------------------------------------------------------
(* rollback and finalize *)

\* The coordinator asks for a rollback when commit failed in REPLACED or the
\* publish of the generation failed, and again when it closes; never once it
\* has asked to finalize (its pending cleanup is then FINALIZE).
CallRollback ==
  /\ pc = "idle" /\ state \in {"replaced", "committed"} /\ goal # "finalized"
  /\ undo' = TRUE /\ promise' = "none"
  /\ pc' = IF applied THEN "rb_validate1" ELSE "rb_check"
  /\ UNCHANGED <<fs, disks, expected, state, applied, displaced, todo, goal, crashes, faults>>

RollbackCheck ==
  /\ pc = "rb_check"
  /\ pc' = IF fs.target = "cand" THEN "rb_journal" ELSE "idle"
  /\ UNCHANGED <<fs, disks>> /\ UNCHANGED memory

RollbackJournal ==
  /\ pc = "rb_journal"
  /\ JournalTo("restore", "rb_replace", "idle")
  /\ UNCHANGED <<expected, state, applied, displaced, todo, goal, promise, undo, crashes>>

\* The exchange (or, for a created file, the move back to the candidate's
\* name).  What was in the target is judged afterwards, in the other name.
RollbackReplace ==
  LET slot == IF expected = "none" THEN "candidate" ELSE "rollback" IN
  /\ pc = "rb_replace"
  /\ \/ fs.target = "none" /\ pc' = "idle" /\ UNCHANGED <<fs, disks, applied>>
     \/ /\ fs.target # "none"
        /\ Dir(IF expected = "none" THEN Move("target", slot) ELSE Exchange(slot, "target"))
        /\ applied' = (fs.target = "cand")
        /\ pc' = IF fs.target = "cand" THEN "rb_validate1" ELSE "rb_race"
  /\ UNCHANGED <<expected, state, displaced, todo, goal, promise, undo, crashes, faults>>

\* _restore_external_rollback_race and _restore_external_missing_rollback.
RollbackRace ==
  /\ pc = "rb_race"
  /\ displaced' = (IF expected = "none" THEN fs.candidate ELSE fs.rollback)
  /\ \/ /\ expected # "none" /\ fs.target # "none"
        /\ Dir(Exchange("rollback", "target")) /\ pc' = "rb_race_check" /\ state' = state
     \/ /\ expected = "none" /\ fs.target = "none"
        /\ Dir(Move("candidate", "target")) /\ pc' = "rb_race_check" /\ state' = state
     \/ /\ (expected = "none") # (fs.target = "none")
        /\ pc' = "idle" /\ state' = "recovery_required" /\ UNCHANGED <<fs, disks>>
  /\ UNCHANGED <<expected, applied, todo, goal, promise, undo, crashes, faults>>

RollbackRaceCheck ==
  /\ pc = "rb_race_check"
  /\ \/ /\ fs.target = displaced /\ (expected = "none" \/ fs.rollback = "roll")
        /\ JournalTo("commit", "idle", "idle")
        /\ state' = IF faults' = faults THEN state ELSE "recovery_required"
     \/ /\ ~ (fs.target = displaced /\ (expected = "none" \/ fs.rollback = "roll"))
        /\ pc' = "idle" /\ state' = "recovery_required"
        /\ UNCHANGED <<fs, disks, faults>>
  /\ UNCHANGED <<expected, applied, displaced, todo, goal, promise, undo, crashes>>

\* _validate_rollback_target before and after the fsync.
ValidateRollback ==
  /\ pc \in {"rb_validate1", "rb_validate2"}
  /\ pc' = IF fs.target # (IF expected = "none" THEN "none" ELSE "roll") THEN "external_win"
           ELSE IF pc = "rb_validate1" THEN "rb_sync" ELSE "rb_cleanup"
  /\ UNCHANGED <<fs, disks>> /\ UNCHANGED memory

SyncRollback ==
  /\ pc = "rb_sync"
  /\ FSync
  /\ pc' = "rb_validate2"
  /\ UNCHANGED memory

\* mutant: the candidate moved aside by the rollback is left behind
RollbackKeepsCandidate ==
  /\ pc = "rb_cleanup"
  /\ \/ fs.journal # "none" /\ JournalTo("abort", "cleanup", "idle")
     \/ fs.journal = "none" /\ pc' = "idle" /\ UNCHANGED <<fs, disks, faults>>
  /\ todo' = IF pc' = "cleanup" THEN Present(<<"rollback", "journal">>) ELSE <<>>
  /\ goal' = "rolled_back"
  /\ UNCHANGED <<expected, state, applied, displaced, promise, undo, crashes>>

\* A retry that finds the journal already unlinked is refused by
\* _transition_journal.
RollbackCleanup ==
  /\ pc = "rb_cleanup"
  /\ \/ fs.journal # "none" /\ JournalTo("abort", "cleanup", "idle")
     \/ fs.journal = "none" /\ pc' = "idle" /\ UNCHANGED <<fs, disks, faults>>
  /\ todo' = IF pc' = "cleanup" THEN Present(<<"rollback", "candidate", "journal">>) ELSE <<>>
  /\ goal' = "rolled_back"
  /\ UNCHANGED <<expected, state, applied, displaced, promise, undo, crashes>>

\* finalize runs after the runtime published the candidate; a failed one is
\* retried when the coordinator closes.
Finalize ==
  /\ pc = "idle" /\ state = "committed" /\ ~undo
  /\ \/ fs.journal # "none" /\ JournalTo("finalize", "cleanup", "idle")
     \/ fs.journal = "none" /\ pc' = "cleanup" /\ UNCHANGED <<fs, disks, faults>>
  /\ todo' = IF pc' = "cleanup" THEN Present(<<"rollback", "journal">>) ELSE <<>>
  /\ goal' = "finalized"
  /\ UNCHANGED <<expected, state, applied, displaced, promise, undo, crashes>>

CallAbort ==
  /\ pc = "idle" /\ state \in {"begun", "prepared"}
  /\ pc' = "abort"
  /\ UNCHANGED <<fs, disks>> /\ UNCHANGED memory

-----------------------------------------------------------------------------
(* I/O errors: where each step's exception leaves the transaction *)

AbortsOnError == {"write_candidate", "write_rollback", "open_journal", "write_journal",
                  "sync_prepared", "compare", "replace"}
\* An unreadable target cannot be told from a replaced parent directory.
AmbiguousOnError == {"restore_swap", "restore_check", "confirm", "validate1", "validate2",
                     "rb_race", "rb_race_check", "rb_validate1", "rb_validate2"}
RetriedOnError == {"sync_replaced", "unlink_displaced", "sync_committed", "rb_check",
                   "rb_replace", "rb_sync"}

IOError ==
  /\ faults < MaxFaults /\ faults' = faults + 1
  /\ \/ pc \in AbortsOnError /\ pc' = "abort" /\ state' = state
     \/ pc \in AmbiguousOnError /\ pc' = "idle" /\ state' = "recovery_required"
     \/ pc \in RetriedOnError /\ pc' = "idle" /\ state' = state
     \/ pc = "cleanup" /\ goal \notin {"recovered", "up"} /\ pc' = "idle" /\ state' = state
  /\ UNCHANGED <<fs, disks, expected, applied, displaced, todo, goal, promise, undo, crashes>>

-----------------------------------------------------------------------------
(* The editor, process death and power loss *)

\* An operator's editor renames a new version over the target, or deletes it.
\* fs.edit is a history variable kept in the directory, so that a power loss
\* that undoes the edit undoes the record of it; deleting what was created
\* before the replacement of a missing file restores what commit expects.
Edit ==
  /\ pc \notin {"up", "refused"}
  /\ \E e \in Edits \cup {"none"} :
       /\ e \in Edits => \A d \in disks : e \notin {d[n] : n \in Names} \cup {d.edit}
       /\ e = "none" => fs.target # "none" /\ fs.edit # "none"
       /\ Dir([fs EXCEPT !.target = e,
                         !.edit = IF e = expected /\ state \in {"begun", "prepared"}
                                  THEN "unedited" ELSE e])
  /\ UNCHANGED pc /\ UNCHANGED memory

\* A killed process leaves the directory as it is, a power loss any directory
\* since the last fsync; the next start runs recover_pending.
Crash ==
  /\ crashes < MaxCrashes /\ crashes' = crashes + 1
  /\ pc \notin {"up", "refused"}
  /\ fs' \in disks \cup {fs} /\ disks' = {fs'}
  /\ pc' = "boot"
  /\ UNCHANGED <<expected, state, applied, displaced, todo, goal, promise, undo, faults>>

-----------------------------------------------------------------------------
(* recover_pending at the next start *)

Goto(next) == pc' = next /\ UNCHANGED <<fs, disks, displaced, todo, goal>>
Phase(phase, next) == /\ DirSynced([fs EXCEPT !.journal = phase])
                      /\ pc' = next
                      /\ UNCHANGED <<displaced, todo, goal>>
Cleanup(phase, names) == /\ DirSynced([fs EXCEPT !.journal = phase])
                         /\ pc' = "cleanup" /\ todo' = Present(names) /\ goal' = "recovered"
                         /\ UNCHANGED displaced

\* No journal: the coordinator's constructor removes orphan artifacts.  A
\* journal without its content is refused.
RecoverNothing ==
  \/ /\ fs.journal = "none"
     /\ pc' = "cleanup" /\ todo' = Present(<<"candidate", "rollback">>) /\ goal' = "up"
     /\ UNCHANGED <<fs, disks, displaced>>
  \/ fs.journal = "torn" /\ Goto("refused")

ExternalInSlot == fs.target = "cand" /\ fs.candidate \notin {"none", expected}

RecoverPrepared ==
  LET replaced == fs.target = "cand" /\ fs.candidate = expected IN
  /\ fs.journal = "prepared"
  /\ \/ /\ fs.target = expected /\ fs.candidate = "cand"
        /\ Cleanup("abort", Owned)
     \/ /\ replaced
        /\ Phase("commit", "boot")
     \/ /\ ExternalInSlot
        /\ DirSynced([fs EXCEPT !.journal = "restore"])
        /\ pc' = "r_ext_swap" /\ displaced' = fs.candidate
        /\ UNCHANGED <<todo, goal>>
     \/ /\ ~ (fs.target = expected /\ fs.candidate = "cand") /\ ~replaced /\ ~ExternalInSlot
        /\ Goto("refused")

\* The candidate stays; the displaced original, the rollback copy and the
\* journal go, in that order.
RecoverCommit ==
  LET finalizing == fs.journal = "finalize"
      ambiguous == \/ fs.target # "cand"
                   \/ fs.candidate # "none" /\ (finalizing \/ fs.candidate # expected)
                   \/ expected # "none" /\ fs.rollback = "none" /\ ~finalizing
                   \/ fs.rollback \notin {"none", "roll"}
  IN /\ fs.journal \in {"commit", "finalize"}
     /\ \/ ambiguous /\ Goto("refused")
        \/ /\ ~ambiguous /\ fs.candidate # "none"
           /\ DirSynced([fs EXCEPT !.candidate = "none"])
           /\ pc' = "boot" /\ UNCHANGED <<displaced, todo, goal>>
        \/ ~ambiguous /\ fs.candidate = "none" /\ Cleanup("finalize", <<"rollback", "journal">>)

RecoverAbort ==
  LET known == /\ fs.target # "cand"
               /\ fs.candidate \in {"none", "cand", expected}
               /\ fs.rollback \in {"none", "roll", "cand"}
  IN /\ fs.journal = "abort"
     /\ \/ known /\ Cleanup("abort", Owned)
        \/ ~known /\ Goto("refused")

\* _recover_restore_journal, for a file that existed.
RecoverRestore ==
  LET external == /\ fs.target \in Edits
                  /\ fs.candidate = "cand" /\ fs.rollback = "roll"
      again == ExternalInSlot /\ fs.rollback = "roll"
      foreign == fs.candidate \notin {"none", expected}
  IN /\ fs.journal = "restore" /\ expected # "none"
     /\ \/ external /\ Phase("abort", "boot")
        \/ /\ again
           /\ pc' = "r_ext_swap" /\ displaced' = fs.candidate
           /\ UNCHANGED <<fs, disks, todo, goal>>
        \/ ~external /\ ~again /\ foreign /\ Goto("refused")
        \/ /\ ~foreign
           /\ Goto(IF fs.target = "cand" /\ fs.rollback = "roll" THEN "r_roll_swap" ELSE "r_roll_check")

\* Put the displaced external version back, check both names.
RecoverExternalSwap ==
  /\ pc = "r_ext_swap"
  /\ \/ fs.target = "none" /\ Goto("refused")
     \/ /\ fs.target # "none"
        /\ Dir(Exchange("candidate", "target"))
        /\ pc' = "r_ext_check" /\ UNCHANGED <<displaced, todo, goal>>

RecoverExternalCheck ==
  /\ pc = "r_ext_check"
  /\ \/ fs.target = displaced /\ fs.candidate = "cand" /\ Phase("abort", "boot")
     \/ ~ (fs.target = displaced /\ fs.candidate = "cand") /\ Goto("refused")

RecoverRollbackSwap ==
  /\ pc = "r_roll_swap"
  /\ \/ fs.target = "none" /\ Goto("refused")
     \/ /\ fs.target # "none"
        /\ Dir(Exchange("rollback", "target"))
        /\ pc' = "r_roll_check" /\ UNCHANGED <<displaced, todo, goal>>

RecoverRollbackCheck ==
  /\ pc = "r_roll_check"
  /\ \/ /\ fs.target = "roll" /\ fs.rollback \notin {"none", "cand"}
        /\ displaced' = fs.rollback
        /\ pc' = "r_back_swap" /\ UNCHANGED <<fs, disks, todo, goal>>
     \/ /\ \/ fs.target = "roll" /\ fs.rollback = "none"
           \/ fs.target = "cand"
        /\ Goto("refused")
     \/ /\ \/ fs.target = "roll" /\ fs.rollback = "cand"
           \/ fs.target \notin {"roll", "cand"}
        /\ Phase("abort", "boot")

RecoverBackSwap ==
  /\ pc = "r_back_swap"
  /\ \/ fs.target = "none" /\ Goto("refused")
     \/ /\ fs.target # "none"
        /\ Dir(Exchange("rollback", "target"))
        /\ pc' = "r_back_check" /\ UNCHANGED <<displaced, todo, goal>>

RecoverBackCheck ==
  /\ pc = "r_back_check"
  /\ \/ fs.target = displaced /\ fs.rollback = "roll" /\ Phase("abort", "boot")
     \/ ~ (fs.target = displaced /\ fs.rollback = "roll") /\ Goto("refused")

\* _recover_missing_target_restore, for a file that did not exist.
RecoverMissing ==
  LET still == fs.target = "cand" /\ fs.candidate = "none"
      moved == fs.target = "none" /\ fs.candidate = "cand"
      external == fs.target = "none" /\ fs.candidate \in Edits
  IN /\ fs.journal \in {"restore", "restore_move"} /\ expected = "none"
     /\ \/ /\ fs.journal = "restore" /\ (still \/ moved)
           /\ Phase("restore_move", "boot")
        \/ fs.journal = "restore" /\ ~still /\ ~moved /\ Goto("refused")
        \/ fs.journal = "restore_move" /\ still /\ Goto("r_move")
        \/ fs.journal = "restore_move" /\ moved /\ Cleanup("abort", <<"candidate", "journal">>)
        \/ /\ fs.journal = "restore_move" /\ external
           /\ Dir(Move("candidate", "target"))
           /\ pc' = "r_move_check" /\ displaced' = fs.candidate /\ UNCHANGED <<todo, goal>>
        \/ fs.journal = "restore_move" /\ ~still /\ ~moved /\ ~external /\ Goto("refused")

RecoverMove ==
  /\ pc = "r_move"
  /\ \/ fs.target = "none" /\ Goto("refused")
     \/ /\ fs.target # "none"
        /\ Dir(Move("target", "candidate"))
        /\ pc' = "boot" /\ UNCHANGED <<displaced, todo, goal>>

RecoverMoveCheck ==
  /\ pc = "r_move_check"
  /\ \/ fs.target = displaced /\ Cleanup("abort", <<"journal">>)
     \/ fs.target # displaced /\ Goto("refused")

\* _recover_one_journal picks the handler by the journal's name.
Recover ==
  /\ \/ /\ pc = "boot"
        /\ \/ RecoverNothing \/ RecoverPrepared \/ RecoverCommit
           \/ RecoverAbort \/ RecoverRestore \/ RecoverMissing
     \/ RecoverExternalSwap \/ RecoverExternalCheck
     \/ RecoverRollbackSwap \/ RecoverRollbackCheck
     \/ RecoverBackSwap \/ RecoverBackCheck
     \/ RecoverMove \/ RecoverMoveCheck
     \/ pc = "recovered" /\ Goto("boot")
  /\ UNCHANGED <<expected, state, applied, promise, undo, crashes, faults>>

-----------------------------------------------------------------------------
Prepare == WriteCandidate \/ WriteRollback \/ OpenJournal \/ WriteJournal \/ SyncPrepared
Commit == \/ CallCommit \/ CompareExpected \/ ReplaceExisting \/ ReplaceMissing
          \/ ConfirmReplaced \/ RestoreJournal \/ RestoreSwap \/ RestoreCheck
          \/ ValidateReplaced \/ SyncReplaced \/ ExternalWin \/ CommitJournal
          \/ UnlinkDisplaced \/ SyncCommitted
Rollback == \/ CallRollback \/ RollbackCheck \/ RollbackJournal \/ RollbackReplace
            \/ RollbackRace \/ RollbackRaceCheck \/ ValidateRollback \/ SyncRollback
            \/ RollbackCleanup
Abort == CallAbort \/ AbortInternal \/ CleanupUnlink \/ CleanupSkip \/ CleanupDone

Next == Prepare \/ Commit \/ Rollback \/ Finalize \/ Abort \/ Recover
        \/ IOError \/ Edit \/ Crash

Spec == Init /\ [][Next]_vars

-----------------------------------------------------------------------------
(* Properties *)

Ended == pc = "up" \/ (pc = "idle" /\ state \in {"aborted", "rolled_back", "finalized"})

\* The last version the operator's editor wrote is never destroyed: whatever
\* exchange, restore, recovery or cleanup ran, in whatever order, it is still
\* in the directory under one of the transaction's names.
NoLostEdit ==
  fs.edit \in Edits => fs.edit \in {fs.target, fs.candidate, fs.rollback}

\* When a transaction has ended, or a start has recovered it, its artifacts
\* are gone and an editor who wrote or deleted the file has won: the target is
\* the editor's last version (a deletion while recovery holds an earlier
\* version aside may bring that one back, never the gateway's own).  Without
\* an editor it is the version of the transaction that its outcome names.
EditorWins ==
  Ended =>
    /\ fs.candidate = "none" /\ fs.rollback = "none" /\ fs.journal = "none"
    /\ fs.edit \in Edits => fs.target = fs.edit
    /\ fs.edit = "none" => fs.target \in Edits \cup {"none"}
    /\ fs.edit = "unedited" =>
         /\ fs.target \in {expected, "cand", IF expected = "none" THEN "none" ELSE "roll"}
         /\ state = "finalized" => fs.target = "cand"
         /\ pc = "idle" /\ state # "finalized" => fs.target # "cand"

\* What the caller was told survives a power loss and the recovery after it:
\* a reported commit keeps the candidate, a reported rollback the old version,
\* in every directory the disk may come back with (commit's two fsyncs).
PromiseDurable ==
  \A d \in disks \cup {fs} : d.edit = "unedited" =>
    /\ promise = "committed" => d.target = "cand"
    /\ promise = "rolled_back" => d.target # "cand"

\* Recovery itself may die in any phase and be run again; it refuses to start
\* the gateway only when an editor interfered or the journal was never written.
RefusedOnlyByEditor ==
  pc = "refused" => fs.edit # "unedited" \/ fs.journal = "torn"
=============================================================================
