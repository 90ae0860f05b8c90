--------------------------- MODULE CommentsBackup ---------------------------
(***************************************************************************)
(* CommentsBackupLifecycle (config/comments_backup.py): before a config    *)
(* file with comments is replaced, its bytes are saved next to it under a  *)
(* timestamped public name; the backup is removed when the save fails, and *)
(* old backups are rotated when it succeeds.  The operator owns the same   *)
(* directory and moves, deletes and creates files under those names        *)
(* between any two system calls.                                           *)
(*                                                                         *)
(* A file is its inode, a number; names are their timestamps, so a later   *)
(* name is greater.  An inode in odd is not a regular single-link file.    *)
(***************************************************************************)
EXTENDS Naturals, FiniteSets, Sequences, FiniteSetsExt, SequencesExt

CONSTANTS BackupNames,     \* number of timestamps, the first ones in use at the start
          PastBackups,     \* backups of earlier saves, one inode each
          MaxBackups,      \* _MAX_BACKUPS
          OperatorFiles,   \* bound on files the operator creates
          BackupFaults     \* bound on failing system calls

VARIABLES names,     \* public name -> inode, 0 when free
          private,   \* the private cleanup name: [inode, target, expect], inode 0 when unused
          own,       \* _state, _cleanup_action, _backup_name, _artifact_identity, _published_name;
                     \* failing: prepare itself is cleaning up
          call,      \* the call in progress: where it is, and the entries still to rotate
          needSync,  \* _rotation_needs_sync
          dirty,     \* names the lifecycle changed last and has not synced
          odd, edited, \* inodes that are not plain files; artifacts overwritten in place
          next,      \* next fresh inode
          stamp,     \* _last_timestamp
          created, backupFaults,
          known, lost \* history: inodes it created or listed as backups; inodes it destroyed

cbvars == <<names, private, own, call, needSync, dirty, odd, edited, next,
            stamp, created, backupFaults, known, lost>>

Idle == [at |-> "idle"]
NoMove == [inode |-> 0, target |-> 0, expect |-> 0]
FreeNames == {n \in 1..BackupNames : names[n] = 0}

CBInit ==
  /\ names = [n \in 1..BackupNames |-> IF n <= PastBackups THEN n ELSE 0]
  /\ private = NoMove
  /\ own = [state |-> "ready", action |-> "none", name |-> 0, inode |-> 0, published |-> 0, failing |-> FALSE]
  /\ call = Idle /\ needSync = FALSE /\ dirty = {}
  /\ odd = {} /\ edited = {} /\ next = PastBackups + 1
  /\ stamp = PastBackups
  /\ created = 0 /\ backupFaults = 0 /\ known = {} /\ lost = {}

\* A system call of the step raises; an OSError ends the call, whose cleanup
\* action stays owned.
Fault == backupFaults < BackupFaults /\ backupFaults' = backupFaults + 1

Stage(where) == call' = [call EXCEPT !.at = where]
Frame == UNCHANGED <<odd, edited, created, stamp, known>>

-----------------------------------------------------------------------------
(* prepare *)

\* _create_unique_backup: the next timestamp, exclusively created.
CreateBackup(then) ==
  \E n \in FreeNames :
    /\ n > stamp /\ \A m \in FreeNames : m > stamp => n <= m
    /\ stamp' = n /\ known' = known \cup {next}
    /\ names' = [names EXCEPT ![n] = next]
    /\ own' = [own EXCEPT !.name = n, !.inode = next]
    /\ next' = next + 1 /\ dirty' = dirty \cup {n}
    /\ call' = [at |-> then]

PrepareBackup ==
  /\ call = Idle /\ own.state = "ready"
  /\ \/ CreateBackup("prepareSync") /\ UNCHANGED backupFaults
     \/ \* the config file changed, or nothing could be created
        /\ Fault /\ own' = [own EXCEPT !.state = "failed"]
        /\ UNCHANGED <<names, next, dirty, call, stamp, known>>
  /\ UNCHANGED <<private, needSync, odd, edited, created, lost>>

\* The bytes are written and fsynced, then the directory; a failure from the
\* creation on removes the backup again.
PrepareSync ==
  /\ call.at = "prepareSync"
  /\ \/ /\ dirty' = {} /\ call' = Idle
        /\ own' = [own EXCEPT !.state = "prepared"] /\ UNCHANGED backupFaults
     \/ /\ Fault /\ Stage("abort") /\ UNCHANGED dirty
        /\ own' = [own EXCEPT !.state = "cleanup", !.action = "abort", !.failing = TRUE]
  /\ UNCHANGED <<names, private, needSync, next, lost>> /\ Frame

-----------------------------------------------------------------------------
(* _detach_owned_path: move the name aside, then delete only the expected inode *)

IsOwned(inode, expect) == inode = expect /\ inode \notin odd

\* Where a detach returns to: with what it removed, or by an exception.
Return(removed) ==
  CASE call.for = "rotate" -> [at |-> "rotate", rest |-> call.rest, excess |-> call.excess - removed]
    [] call.for = "list"   -> [at |-> "list"]
    [] OTHER               -> [at |-> "removed"]

\* The open, the two identity checks and the rename with RENAME_NOREPLACE:
\* whatever holds the name at the rename is moved.
DetachCheck ==
  /\ call.at = "detach"
  /\ \/ /\ IsOwned(names[call.name], call.expect)
        /\ Stage("rename") /\ UNCHANGED <<needSync, backupFaults>>
     \/ /\ ~IsOwned(names[call.name], call.expect)
        /\ call' = Return(0) /\ UNCHANGED <<needSync, backupFaults>>
     \/ Fault /\ call' = Idle /\ UNCHANGED needSync
  /\ UNCHANGED <<names, private, own, dirty, next, lost>> /\ Frame

DetachRename ==
  /\ call.at = "rename"
  /\ \/ /\ names[call.name] # 0
        /\ private' = [inode |-> names[call.name], target |-> call.name, expect |-> call.expect]
        /\ names' = [names EXCEPT ![call.name] = 0]
        /\ needSync' = TRUE /\ dirty' = dirty \cup {call.name}
        /\ Stage("resolve") /\ UNCHANGED backupFaults
     \/ /\ names[call.name] = 0
        /\ call' = Return(0) /\ UNCHANGED <<names, private, needSync, dirty, backupFaults>>
     \/ Fault /\ call' = Idle /\ UNCHANGED <<names, private, needSync, dirty>>
  /\ UNCHANGED <<own, next, lost>> /\ Frame

\* mutant: the name was checked, so what was moved is deleted
UnlinkWhatWasMoved ==
  /\ call.at = "resolve"
  /\ private' = NoMove /\ lost' = lost \cup {private.inode} /\ call' = Return(1)
  /\ needSync' = TRUE /\ dirty' = dirty \cup {private.target}
  /\ UNCHANGED <<names, backupFaults, own, next>> /\ Frame

\* _resolve_moved_path and _unlink_private_owned: the expected inode is
\* unlinked; a foreign one goes back to its name unless somebody has taken it
\* meanwhile, and is then left under the private name for a later attempt.
ResolveMoved ==
  /\ call.at = "resolve"
  /\ \/ /\ IsOwned(private.inode, private.expect)
        /\ private' = NoMove /\ lost' = lost \cup {private.inode} /\ call' = Return(1)
        /\ needSync' = TRUE /\ dirty' = dirty \cup {private.target} /\ UNCHANGED <<names, backupFaults>>
     \/ /\ ~IsOwned(private.inode, private.expect) /\ names[private.target] = 0
        /\ names' = [names EXCEPT ![private.target] = private.inode]
        /\ private' = NoMove /\ call' = Return(0)
        /\ needSync' = TRUE /\ dirty' = dirty \cup {private.target} /\ UNCHANGED <<lost, backupFaults>>
     \/ /\ ~IsOwned(private.inode, private.expect) /\ names[private.target] # 0
        /\ call' = Idle /\ UNCHANGED <<names, private, needSync, dirty, lost, backupFaults>>
     \/ Fault /\ call' = Idle /\ UNCHANGED <<names, private, needSync, dirty, lost>>
  /\ UNCHANGED <<own, next>> /\ Frame

-----------------------------------------------------------------------------
(* abort *)

\* abort, from every state that allows it; a retry of it resumes a moved name.
AbortBackup ==
  /\ call = Idle
  /\ own.state \in {"ready", "prepared", "failed"} \/ (own.state = "cleanup" /\ own.action = "abort")
  /\ own' = [own EXCEPT !.state = "cleanup", !.action = "abort", !.failing = FALSE]
  /\ call' = [at |-> IF own.state \in {"ready", "failed"} THEN "finishAbort" ELSE "abort"]
  /\ UNCHANGED <<names, private, needSync, dirty, next, backupFaults, lost>> /\ Frame

\* _complete_abort_cleanup: _resume_path_cleanup, then _remove_owned_backup.
AbortCleanup ==
  /\ call.at = "abort"
  /\ call' = CASE private.inode # 0 -> [at |-> "resolve", for |-> "abort"]
               [] private.inode = 0 /\ own.name # 0 ->
                    [at |-> "detach", name |-> own.name, expect |-> own.inode, for |-> "abort"]
               [] OTHER -> [at |-> "removed"]
  /\ UNCHANGED <<names, private, own, needSync, dirty, next, backupFaults, lost>> /\ Frame

\* mutant: the directory is synced only when this attempt removed something
SyncForgotten ==
  /\ call.at = "removed"
  /\ own' = [own EXCEPT !.name = 0, !.inode = 0]
  /\ needSync' = FALSE /\ Stage("finishAbort")
  /\ UNCHANGED <<names, private, dirty, next, backupFaults, lost>> /\ Frame

\* The rest of it: the artifact is forgotten, the directory synced if a name
\* moved in this attempt or in one that failed.
AbortSync ==
  /\ call.at = "removed"
  /\ own' = [own EXCEPT !.name = 0, !.inode = 0]
  /\ \/ needSync' = FALSE /\ dirty' = (IF needSync THEN {} ELSE dirty)
        /\ Stage("finishAbort") /\ UNCHANGED backupFaults
     \/ needSync /\ Fault /\ call' = Idle /\ UNCHANGED <<needSync, dirty>>
  /\ UNCHANGED <<names, private, next, lost>> /\ Frame

\* _finish_abort closes the descriptors; the failed prepare ends in FAILED.
FinishAbort ==
  /\ call.at = "finishAbort"
  /\ call' = Idle
  /\ \/ own' = [own EXCEPT !.state = IF own.failing THEN "failed" ELSE "aborted", !.action = "none"]
        /\ UNCHANGED backupFaults
     \/ Fault /\ UNCHANGED own
  /\ UNCHANGED <<names, private, needSync, dirty, next, lost>> /\ Frame

-----------------------------------------------------------------------------
(* publish, rotation and their retry *)

\* _current_backup_is_owned
BackupIntact == /\ own.name # 0 /\ IsOwned(names[own.name], own.inode)
                /\ own.inode \notin edited

\* publish: a backup that is no longer ours is forgotten, to be made again.
PublishSaved ==
  /\ call = Idle /\ own.state = "prepared"
  /\ \/ /\ BackupIntact
        /\ own' = [own EXCEPT !.state = "cleanup", !.action = "rotate", !.published = own.name]
        /\ call' = [at |-> "list"] /\ UNCHANGED backupFaults
     \/ /\ ~BackupIntact
        /\ own' = [own EXCEPT !.state = "cleanup", !.action = "rotate", !.name = 0, !.inode = 0]
        /\ UNCHANGED <<call, backupFaults>>
     \/ /\ Fault /\ own' = [own EXCEPT !.state = "cleanup", !.action = "rotate"]
        /\ UNCHANGED call
  /\ UNCHANGED <<names, private, needSync, dirty, next, lost>> /\ Frame

\* retry_cleanup of a rotation.
RetryRotation ==
  /\ call = Idle /\ own.state = "cleanup" /\ own.action = "rotate"
  /\ \/ /\ own.published # 0 /\ call' = [at |-> "list"]
        /\ UNCHANGED <<names, own, next, dirty, stamp, known>>
     \/ own.published = 0 /\ CreateBackup("recreateSync")
  /\ UNCHANGED <<private, needSync, odd, edited, created, backupFaults, lost>>

\* _recreate_published_backup: synced and verified it is the published one, a
\* failure removes it again.
RecreateSync ==
  /\ call.at = "recreateSync"
  /\ \/ /\ dirty' = {} /\ BackupIntact
        /\ own' = [own EXCEPT !.published = own.name]
        /\ call' = [at |-> "list"] /\ UNCHANGED backupFaults
     \/ /\ dirty' = {} /\ ~BackupIntact /\ call' = Idle /\ UNCHANGED <<own, backupFaults>>
     \/ /\ Fault /\ UNCHANGED <<own, dirty>>
        /\ call' = [at |-> "detach", name |-> own.name, expect |-> own.inode, for |-> "recreate"]
  /\ UNCHANGED <<names, private, needSync, next, lost>> /\ Frame

\* The end of the failed recreation, whose errors are swallowed.
RecreateRemoved ==
  /\ call.at = "removed" /\ own.action = "rotate"
  /\ own' = [own EXCEPT !.name = 0, !.inode = 0]
  /\ \/ needSync' = FALSE /\ dirty' = (IF needSync THEN {} ELSE dirty) /\ UNCHANGED backupFaults
     \/ needSync /\ Fault /\ UNCHANGED <<needSync, dirty>>
  /\ call' = Idle
  /\ UNCHANGED <<names, private, next, lost>> /\ Frame

\* _verified_rotation_entries, by timestamp.
Entries == {n \in 1..BackupNames : names[n] # 0 /\ names[n] \notin odd}

\* _rotate_backups up to its loop: the oldest entries in excess, never the
\* backup just published.
ListBackups ==
  /\ call.at = "list"
  /\ IF private.inode # 0
     THEN call' = [at |-> "resolve", for |-> "list"] /\ UNCHANGED known
     ELSE LET old == SetToSortSeq(Entries \ {own.published}, <) IN
          /\ call' = [at |-> "rotate", rest |-> [i \in 1..Len(old) |-> <<old[i], names[old[i]]>>],
                      excess |-> IF Cardinality(Entries) > MaxBackups
                                 THEN Cardinality(Entries) - MaxBackups ELSE 0]
          /\ known' = known \cup {names[n] : n \in Entries}
  /\ UNCHANGED <<names, private, own, needSync, dirty, odd, edited, next, stamp, created, backupFaults, lost>>

\* The loop over the candidates, the sync and the closing checks.
Rotate ==
  /\ call.at = "rotate"
  /\ \/ /\ call.excess > 0 /\ call.rest # << >>
        /\ call' = [at |-> "detach", name |-> Head(call.rest)[1], expect |-> Head(call.rest)[2],
                    for |-> "rotate", rest |-> Tail(call.rest), excess |-> call.excess]
        /\ UNCHANGED <<own, needSync, dirty, backupFaults>>
     \/ /\ call.excess > 0 /\ call.rest = << >>
        /\ call' = Idle /\ UNCHANGED <<own, needSync, dirty, backupFaults>>
     \/ /\ call.excess = 0
        /\ needSync' = FALSE /\ dirty' = (IF needSync THEN {} ELSE dirty)
        /\ Stage("verify") /\ UNCHANGED <<own, backupFaults>>
     \/ call.excess = 0 /\ Fault /\ call' = Idle /\ UNCHANGED <<own, needSync, dirty>>
  /\ UNCHANGED <<names, private, next, lost>> /\ Frame

\* Final retention and ownership checks, and the descriptors.
VerifyRotation ==
  /\ call.at = "verify" /\ call' = Idle
  /\ \/ /\ Cardinality(Entries) <= MaxBackups /\ BackupIntact
        /\ own' = [own EXCEPT !.state = "published", !.action = "none"] /\ UNCHANGED backupFaults
     \/ /\ Cardinality(Entries) > MaxBackups /\ UNCHANGED <<own, backupFaults>>
     \/ /\ Cardinality(Entries) <= MaxBackups /\ ~BackupIntact
        /\ own' = [own EXCEPT !.name = 0, !.inode = 0, !.published = 0] /\ UNCHANGED backupFaults
     \/ Fault /\ UNCHANGED own
  /\ UNCHANGED <<names, private, needSync, dirty, next, lost>> /\ Frame

-----------------------------------------------------------------------------
(* The operator, between any two system calls *)

OperatorStep ==
  /\ \E n \in 1..BackupNames :
       \/ \* deletes a backup, or puts another file, or a directory, in its place
          /\ created < OperatorFiles /\ created' = created + 1
          /\ \/ names[n] # 0 /\ names' = [names EXCEPT ![n] = 0] /\ UNCHANGED <<next, odd>>
             \/ /\ names' = [names EXCEPT ![n] = next] /\ next' = next + 1
                /\ odd' \in {odd, odd \cup {next}}
          /\ dirty' = dirty \ {n} /\ UNCHANGED edited
       \/ \* edits the current backup in place
          /\ n = own.name /\ names[n] = own.inode /\ own.inode \notin edited
          /\ edited' = edited \cup {own.inode}
          /\ UNCHANGED <<names, next, odd, created, dirty>>
  /\ UNCHANGED <<private, own, call, needSync, stamp, backupFaults, known, lost>>

CBNext ==
  \/ PrepareBackup \/ PrepareSync \/ DetachCheck \/ DetachRename \/ ResolveMoved
  \/ AbortBackup \/ AbortCleanup \/ (own.action = "abort" /\ AbortSync) \/ FinishAbort
  \/ PublishSaved \/ RetryRotation \/ RecreateSync \/ RecreateRemoved
  \/ ListBackups \/ Rotate \/ VerifyRotation \/ OperatorStep

-----------------------------------------------------------------------------
(* Properties *)

\* Only backups are destroyed: an inode the lifecycle unlinks is an artifact of
\* its own or one it listed as a surplus backup, never a file the operator put
\* under that name after it was checked, nor the backup being published.
OnlyBackupsDestroyed ==
  [][\A i \in lost' \ lost : /\ i \in known
                             /\ own.action = "rotate" /\ own.published # 0 => i # own.inode]_cbvars

\* A lifecycle that says it is over left the directory as it says: every
\* change it made is synced, and no file is left under a private name.
BackupSettled ==
  own.state \in {"prepared", "published", "aborted", "failed"} /\ call = Idle =>
    dirty = {} /\ private = NoMove
=============================================================================
