---------------------------- MODULE ConfigUpdates ----------------------------
(***************************************************************************)
(* ConfigUpdateCoordinator (services/config_updates.py) and the editor     *)
(* endpoints that call it (api/v1/rules_editor.py): concurrent saves and   *)
(* resyncs build their candidates in parallel, commit one file under the   *)
(* commit lock, publish a runtime generation, finalize; an operator edits  *)
(* files on the side; close drains and repairs.                            *)
(*                                                                         *)
(* A source's content is "v0", the updater that wrote it, or one of        *)
(* OutsideEdits.  The file transaction is the contract AtomicConfig        *)
(* checks: a commit replaces the expected content or changes nothing, a    *)
(* rollback restores it only over its own candidate, and either may fail.  *)
(* The event loop is single threaded: from the commit lock to the end of   *)
(* the publication there is no await, so only the operator interleaves.    *)
(***************************************************************************)
EXTENDS Naturals, FiniteSets

CONSTANTS Updaters,       \* requests that save or resync, each used once
          Sources,        \* configuration files
          OutsideEdits,   \* contents the operator may write, each once
          Failures        \* bound on failing file, publish and cleanup operations

ASSUME UpdatesAssumption == "free" \notin Updaters /\ Failures \in Nat

VARIABLES disk,        \* content of each source
          generation,  \* runtime_manager.current_generation
          loaded,      \* source bundle of the active generation
          job,         \* one record per updater
          thread,      \* the updater inside the synchronous section, or "free"
          coord,       \* _state, _restart_required, the close request
          pending,     \* _pending_cleanup
          backup,      \* _pending_comments_backup: "none" or its action
          unresolved,  \* unresolved_cleanup_generations
          failures,
          byHand       \* history: sources whose content the operator wrote

cuvars == <<disk, generation, loaded, job, thread, coord, pending, backup,
            unresolved, failures, byHand>>

Kinds == {"save", "structured", "resync"}
Contents == {"v0"} \cup Updaters \cup OutsideEdits
NoCleanup == [action |-> "none"]
Away == [at |-> "away"]

Active == {u \in Updaters : job[u].at \notin {"away", "captured", "done"}}
CanFail == failures < Failures

CUInit ==
  /\ disk = [f \in Sources |-> "v0"] /\ loaded = disk
  /\ generation = 1
  /\ job = [u \in Updaters |-> Away]
  /\ thread = "free"
  /\ coord = [state |-> "running", restart |-> FALSE, closing |-> FALSE]
  /\ pending = NoCleanup /\ backup = "none"
  /\ unresolved = 0 /\ failures = 0 /\ byHand = {}

\* _accepting_updates
Accepting == /\ coord.state = "running"
             /\ pending = NoCleanup /\ backup = "none" /\ unresolved = 0

FinishUpdate(u) == job' = [job EXCEPT ![u] = [at |-> "done"]]
At(u, where) == job' = [job EXCEPT ![u].at = where]
Fails == CanFail /\ failures' = failures + 1

-----------------------------------------------------------------------------
(* The request, up to the commit lock *)

\* The request owns the snapshot of its admission; it then reads its body.
CaptureBase(u) ==
  /\ job[u].at = "away"
  /\ \E f \in Sources, k \in Kinds :
       job' = [job EXCEPT ![u] = [at |-> "captured", source |-> f, kind |-> k,
                                  base |-> generation, bundle |-> loaded, seen |-> loaded]]
  /\ UNCHANGED <<disk, generation, loaded, thread, coord, pending, backup, unresolved,
                 failures>>

\* _admit_update and _validate_early_revision; a rejected request is over.  A
\* resync compares the disk with the loaded bundle and may find nothing to do.
Admit(u) ==
  /\ thread = "free" /\ job[u].at = "captured"
  /\ LET admitted == Accepting /\ generation = job[u].base IN
     \/ /\ admitted
        /\ job[u].kind = "resync" => disk # job[u].bundle
        /\ job' = [job EXCEPT ![u].at = "building", ![u].seen = disk]
     \/ /\ ~admitted \/ (job[u].kind = "resync" /\ disk = job[u].bundle)
        /\ FinishUpdate(u)
  /\ UNCHANGED <<disk, generation, loaded, thread, coord, pending, backup, unresolved,
                 failures>>

\* Validation, _build_candidate and the preflight; the unpublished slot of a
\* candidate that fails, or whose request is cancelled, is closed.
Build(u) ==
  /\ thread = "free" /\ job[u].at = "building"
  /\ \/ At(u, "waiting") /\ UNCHANGED failures
     \/ Fails /\ At(u, "discarding")
  /\ UNCHANGED <<disk, generation, loaded, thread, coord, pending, backup, unresolved>>

\* The client leaves while the update waits for the commit lock.
CancelWaiting(u) ==
  /\ thread = "free" /\ job[u].at = "waiting"
  /\ Fails /\ At(u, "discarding")
  /\ UNCHANGED <<disk, generation, loaded, thread, coord, pending, backup, unresolved>>

\* mutant: an update whose candidate cannot be closed stays admitted
DiscardLeaks(u) ==
  /\ thread = "free" /\ job[u].at = "discarding"
  /\ \/ FinishUpdate(u) /\ UNCHANGED <<unresolved, failures>>
     \/ Fails /\ unresolved' = unresolved + 1 /\ At(u, "leaked")
  /\ UNCHANGED <<disk, generation, loaded, thread, coord, pending, backup>>

\* _close_candidate, after every failure before the publication.
Discard(u) ==
  /\ thread = "free" /\ job[u].at = "discarding"
  /\ FinishUpdate(u)
  /\ \/ UNCHANGED <<unresolved, failures>>
     \/ Fails /\ unresolved' = unresolved + 1
  /\ UNCHANGED <<disk, generation, loaded, thread, coord, pending, backup>>

-----------------------------------------------------------------------------
(* Under the commit lock: no await until the lock is released *)

CommitLock(u) ==
  /\ thread = "free" /\ job[u].at = "waiting"
  /\ thread' = u /\ At(u, "locked")
  /\ UNCHANGED <<disk, generation, loaded, coord, pending, backup, unresolved, failures>>

\* mutant: the files are compared with the active bundle, not with the base
CurrentBase(u) ==
  /\ coord.state \in {"running", "stopping"}
  /\ pending = NoCleanup /\ backup = "none" /\ unresolved = 0
  /\ disk = (IF job[u].kind = "resync" THEN job[u].seen ELSE loaded)

\* _validate_commit_preconditions, and the same checks in resync: the base is
\* still current, nothing is pending, and the six sources are the ones the
\* candidate was validated against.
CommitPreconditions(u) ==
  /\ coord.state \in {"running", "stopping"}
  /\ pending = NoCleanup /\ backup = "none" /\ unresolved = 0
  /\ generation = job[u].base
  /\ disk = (IF job[u].kind = "resync" THEN job[u].seen ELSE job[u].bundle)

\* The transaction is begun on the document read here.  validate_publish may
\* also answer that too many generations are retiring; a backup or transaction
\* that cannot be staged is removed again.
Precheck(u) ==
  /\ thread = u /\ job[u].at = "locked"
  /\ \/ /\ CommitPreconditions(u)
        /\ job' = [job EXCEPT ![u].at = IF job[u].kind = "resync" THEN "publishing" ELSE "staged",
                              ![u].seen = disk]
        /\ UNCHANGED <<thread, failures>>
     \/ /\ ~CommitPreconditions(u)
        /\ thread' = "free" /\ At(u, "discarding") /\ UNCHANGED failures
     \/ /\ CommitPreconditions(u)
        /\ Fails /\ thread' = "free" /\ At(u, "discarding")
  /\ UNCHANGED <<disk, generation, loaded, coord, pending, backup, unresolved>>

\* _mark_broken: what cannot be undone now is left to close or to a restart.
Broken(u, action) ==
  /\ coord' = [coord EXCEPT !.state = "broken", !.restart = @ \/ action = "none"]
  /\ pending' = IF action = "none" THEN NoCleanup
                ELSE [action |-> action, source |-> job[u].source, by |-> u,
                      old |-> job[u].seen[job[u].source]]

\* mutant: the failed transaction is forgotten instead of rolled back
Forget(u) == UNCHANGED <<disk, pending, coord, failures>>

\* _resolve_failed_transaction for a transaction that replaced the file: its
\* rollback succeeds over its own candidate, or the coordinator is broken.
Undo(u) ==
  LET f == job[u].source IN
  \/ /\ disk[f] = u
     /\ disk' = [disk EXCEPT ![f] = job[u].seen[f]]
     /\ pending' = NoCleanup
     /\ UNCHANGED <<coord, failures>>
  \/ /\ disk[f] # u
     /\ Broken(u, "rollback") /\ UNCHANGED <<disk, failures>>
  \/ /\ disk[f] = u
     /\ Fails /\ Broken(u, "rollback") /\ UNCHANGED disk

\* _resolve_failed_comments_backup
AbortBackup(u) == backup' \in IF job[u].kind = "structured" /\ CanFail
                              THEN {"none", "abort"} ELSE {"none"}

\* transaction.commit(): the atomic compare-and-replace, or a failure.
WriteFile(u) ==
  LET f == job[u].source IN
  /\ thread = u /\ job[u].at = "staged"
  /\ \/ /\ disk[f] = job[u].seen[f]
        /\ disk' = [disk EXCEPT ![f] = u]
        /\ At(u, "written")
        /\ UNCHANGED <<thread, coord, pending, backup, failures>>
     \/ /\ disk[f] # job[u].seen[f]
        /\ thread' = "free" /\ At(u, "discarding") /\ AbortBackup(u)
        /\ UNCHANGED <<disk, coord, pending, failures>>
     \/ \* staged artifacts that cannot be removed, or a restore that is ambiguous
        /\ Fails
        /\ thread' = "free" /\ At(u, "discarding") /\ AbortBackup(u)
        /\ \E action \in {"abort", "none"} :
             /\ Broken(u, action)
             /\ disk' \in IF action = "none" THEN {disk, [disk EXCEPT ![f] = u]} ELSE {disk}
  /\ UNCHANGED <<generation, loaded, unresolved>>

Candidate(u) == IF job[u].kind = "resync" THEN job[u].seen
                ELSE [job[u].bundle EXCEPT ![job[u].source] = u]

\* The persisted bundle is recaptured and must be the candidate's, then the
\* coordinator owns the rollback of the file and the abort of the backup.
BindPersisted(u) ==
  /\ thread = u /\ job[u].at = "written"
  /\ \/ /\ disk = Candidate(u)
        /\ pending' = [action |-> "rollback", source |-> job[u].source, by |-> u,
                       old |-> job[u].seen[job[u].source]]
        /\ backup' = IF job[u].kind = "structured" THEN "abort" ELSE "none"
        /\ At(u, "publishing")
        /\ UNCHANGED <<disk, thread, coord, failures>>
     \/ /\ disk # Candidate(u)
        /\ Undo(u) /\ AbortBackup(u)
        /\ thread' = "free" /\ At(u, "discarding")
  /\ UNCHANGED <<generation, loaded, unresolved>>

Promoted(u) == IF job[u].kind = "resync" THEN pending ELSE [pending EXCEPT !.action = "finalize"]

\* candidate.publish(): published (an exception after the switch is classified
\* as published too), not published, or impossible to tell.
Publish(u) ==
  /\ thread = u /\ job[u].at = "publishing"
  /\ \/ /\ generation' = generation + 1 /\ loaded' = Candidate(u)
        /\ pending' = Promoted(u)
        /\ backup' = IF backup = "none" THEN "none" ELSE "publish"
        /\ \/ job[u].kind = "resync" /\ thread' = "free" /\ FinishUpdate(u)
           \/ job[u].kind # "resync" /\ At(u, "published") /\ UNCHANGED thread
        /\ UNCHANGED <<disk, coord, failures>>
     \/ /\ CanFail /\ job[u].kind = "resync"
        /\ failures' = failures + 1
        /\ thread' = "free" /\ At(u, "discarding")
        /\ UNCHANGED <<disk, generation, loaded, coord, pending, backup>>
     \/ /\ CanFail /\ job[u].kind # "resync"
        /\ Undo(u) /\ AbortBackup(u)
        /\ thread' = "free" /\ At(u, "discarding")
        /\ UNCHANGED <<generation, loaded>>
     \/ /\ Fails
        /\ coord' = [coord EXCEPT !.state = "broken", !.restart = TRUE]
        /\ pending' = Promoted(u)
        /\ backup' = IF backup = "none" THEN "none" ELSE "publish"
        /\ generation' \in {generation, generation + 1}
        /\ loaded' = IF generation' = generation THEN loaded ELSE Candidate(u)
        /\ thread' = "free" /\ FinishUpdate(u)
        /\ UNCHANGED disk
  /\ UNCHANGED unresolved

\* backup.publish() and transaction.finalize(): either may stay pending, and
\* the coordinator then refuses updates until it is closed.
PublishBackup(u) ==
  /\ thread = u /\ job[u].at = "published" /\ backup = "publish"
  /\ \/ backup' = "none" /\ UNCHANGED failures
     \/ Fails /\ backup' = "retry"
  /\ At(u, "finalizing")
  /\ UNCHANGED <<disk, generation, loaded, thread, coord, pending, unresolved>>

FinalizeFile(u) ==
  /\ thread = u
  /\ job[u].at = "finalizing" \/ (job[u].at = "published" /\ backup = "none")
  /\ \/ pending' = NoCleanup /\ UNCHANGED failures
     \/ Fails /\ UNCHANGED pending
  /\ thread' = "free" /\ FinishUpdate(u)
  /\ UNCHANGED <<disk, generation, loaded, coord, backup, unresolved>>

-----------------------------------------------------------------------------
(* close, the runtime's own cleanup and the operator *)

\* close(): no new updates; a later call retries a close that failed.
CallClose ==
  /\ thread = "free" /\ ~coord.closing /\ coord.state # "stopped"
  /\ coord' = [coord EXCEPT !.closing = TRUE,
                            !.state = IF coord.restart THEN @ ELSE "stopping"]
  /\ UNCHANGED <<disk, generation, loaded, job, thread, pending, backup, unresolved,
                 failures>>

\* _close_impl waits for the admitted updates, then repairs in this order: an
\* undo, the comments backup, a finalize, the unresolved generations.  The
\* first failure ends the attempt.
CloseEnd(state) == coord' = [coord EXCEPT !.state = state, !.closing = FALSE]
Retryable == IF coord.restart THEN "broken" ELSE "stopping"

CloseUndo ==
  /\ pending.action \in {"abort", "rollback"}
  /\ \/ /\ pending.action = "abort" \/ disk[pending.source] = pending.by
        /\ disk' = IF pending.action = "abort" THEN disk
                   ELSE [disk EXCEPT ![pending.source] = pending.old]
        /\ pending' = NoCleanup /\ UNCHANGED <<coord, failures>>
     \/ /\ pending.action = "rollback" /\ disk[pending.source] # pending.by
        /\ CloseEnd("broken") /\ UNCHANGED <<disk, pending, failures>>
     \/ /\ Fails /\ CloseEnd("broken") /\ UNCHANGED <<disk, pending>>
  /\ UNCHANGED <<backup, unresolved>>

CloseBackup ==
  /\ pending.action \notin {"abort", "rollback"} /\ backup # "none"
  /\ \/ backup' = "none" /\ UNCHANGED <<coord, failures>>
     \/ Fails /\ CloseEnd(Retryable) /\ backup' \in {backup, IF backup = "abort" THEN "abort" ELSE "retry"}
  /\ UNCHANGED <<disk, pending, unresolved>>

CloseFinalize ==
  /\ pending.action = "finalize" /\ backup = "none"
  /\ \/ pending' = NoCleanup /\ UNCHANGED <<coord, failures>>
     \/ Fails /\ CloseEnd("broken") /\ UNCHANGED pending
  /\ UNCHANGED <<disk, backup, unresolved>>

CloseGenerations ==
  /\ pending = NoCleanup /\ backup = "none"
  /\ \/ unresolved' = 0 /\ CloseEnd(IF coord.restart THEN "broken" ELSE "stopped")
        /\ UNCHANGED failures
     \/ unresolved > 0 /\ Fails /\ CloseEnd(Retryable) /\ UNCHANGED unresolved
  /\ UNCHANGED <<disk, pending, backup>>

CloseStep ==
  /\ thread = "free" /\ coord.closing /\ Active = {}
  /\ CloseUndo \/ CloseBackup \/ CloseFinalize \/ CloseGenerations
  /\ UNCHANGED <<generation, loaded, job, thread>>

\* The runtime manager's own retry of a failed cleanup.
ResolveCleanup ==
  /\ unresolved > 0 /\ unresolved' = unresolved - 1
  /\ UNCHANGED <<disk, generation, loaded, job, thread, coord, pending, backup, failures>>

\* An out-of-band edit at any moment, or an operator who takes it back.
OutsideEdit ==
  /\ \E f \in Sources :
    /\ byHand' = byHand \cup {f}
    /\ \/ \E e \in OutsideEdits :
            /\ \A g \in Sources : e \notin {disk[g], loaded[g]}
            /\ disk' = [disk EXCEPT ![f] = e]
       \/ disk[f] \in OutsideEdits /\ disk' = [disk EXCEPT ![f] = loaded[f]]
  /\ UNCHANGED <<generation, loaded, job, thread, coord, pending, backup, unresolved,
                 failures>>

UpdateStep(u) ==
  \/ CaptureBase(u) \/ Admit(u) \/ Build(u) \/ CancelWaiting(u) \/ Discard(u)
  \/ CommitLock(u) \/ Precheck(u) \/ WriteFile(u) \/ BindPersisted(u)
  \/ Publish(u) \/ PublishBackup(u) \/ FinalizeFile(u)

\* A source the gateway writes is no longer the operator's.
Gateway(step) == step /\ byHand' = {f \in byHand : disk'[f] = disk[f]}

CUNext == \/ \E u \in Updaters : Gateway(UpdateStep(u))
          \/ Gateway(CallClose) \/ Gateway(CloseStep) \/ Gateway(ResolveCleanup)
          \/ OutsideEdit

CUSpec == CUInit /\ [][CUNext]_cuvars

\* The event loop runs every admitted update and the close task to their ends.
CUFairness == /\ \A u \in Updaters : WF_cuvars(Gateway(UpdateStep(u) /\ job[u].at \notin {"away", "captured"}))
              /\ WF_cuvars(Gateway(CloseStep))

-----------------------------------------------------------------------------
(* Properties *)

\* What the gateway wrote and left in a file is what it serves: outside the
\* commit section, unless the coordinator says it is broken or still owes a
\* cleanup, a source the operator did not write last holds the content of the
\* active generation, whichever step of a save failed.
FileMatchesRuntime ==
  (thread = "free" /\ coord.state # "broken" /\ pending = NoCleanup /\ ~coord.restart) =>
    \A f \in Sources \ byHand : disk[f] = loaded[f]

\* No published save is undone by an update built on an older base: a
\* publication changes only the source its updater saved, having seen the
\* content it replaces, and sources the operator wrote.
NoLostUpdate ==
  [][generation' # generation =>
       \E u \in Updaters :
         /\ thread = u
         /\ \A f \in Sources \ byHand :
              \/ loaded'[f] = loaded[f]
              \/ /\ job[u].kind # "resync" /\ f = job[u].source
                 /\ job[u].bundle[f] = loaded[f]]_cuvars

\* A close that was asked for and has not ended: it waits for the updates that
\* were admitted, never for one that waits for the lock it needs.
ClosePending == coord.closing
=============================================================================
