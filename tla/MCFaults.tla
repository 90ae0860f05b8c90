------------------------------- MODULE MCFaults ------------------------------
(***************************************************************************)
(* Work that fails in the middle.  On disk, through crashes, failed calls  *)
(* and other processes: a config transaction and a comments backup with an *)
(* operator in their directory, the state directory's lease and the        *)
(* lifespan it protects, the image volume, the migration of a host, the    *)
(* usage history.  In a request, through failing routes, cancelled calls   *)
(* and unreadable pages: the operations that are not chat, and web         *)
(* research.  They share no state: each behaviour steps the one named by   *)
(* focus.                                                                  *)
(***************************************************************************)
EXTENDS AtomicConfig, CommentsBackup, Lifespan, ImageVolume, SystemdMigration, UsageHistory, Operations, WebResearch

CONSTANTS l1, l3, q2
VARIABLE focus

TwoProcesses == [l \in Lifespans |-> IF l = l3 THEN "q" ELSE "p"]

\* A second request matters where it shares something: the upload memory, the job.
Partner == op'.req[q2].kind \in {"none", "audio", "create", "poll"}

\* Two backups share their destination alone: they run together while nothing else uses the volume, and
\* a backup that has read the volume links its files while nobody is at work in it.
Linking(b) == im'.bk[b].pc \in {"archive", "manifest", "done"}
Together == /\ \/ im'.gw = "off" /\ im'.cli.pc = "idle"
               \/ \A b, c \in Backups : im'.bk[b].pc # "idle" /\ im'.bk[c].pc # "idle" => b = c
            /\ (\E b \in Backups : Linking(b)) => im'.pub.pc = "idle" /\ im'.ret.pc = "idle" /\ im'.cli.pc = "idle"

\* A part that does not step has one initial state.
MCInit ==
  /\ focus \in {"config", "backup", "lifespan", "images", "migration", "history", "operations", "research"}
  /\ Init /\ CBInit /\ LFInit /\ IMInit /\ SMInit /\ UHInit /\ OPInit /\ WRInit
  /\ focus # "config" => expected = "old"
  /\ focus # "migration" => sm.dir = "none"
  /\ focus # "history" => uh.db.schema = 0 /\ \A r \in Rows : uh.hour[r] = 1
MCNext ==
  /\ \/ focus = "config" /\ Next /\ UNCHANGED <<cbvars, lf, im, sm, uh, op, wr>>
     \/ focus = "backup" /\ CBNext /\ UNCHANGED <<vars, lf, im, sm, uh, op, wr>>
     \/ focus = "lifespan" /\ LFNext /\ UNCHANGED <<vars, cbvars, im, sm, uh, op, wr>>
     \/ focus = "images" /\ IMNext /\ Together /\ UNCHANGED <<vars, cbvars, lf, sm, uh, op, wr>>
     \/ focus = "migration" /\ SMNext /\ UNCHANGED <<vars, cbvars, lf, im, uh, op, wr>>
     \/ focus = "history" /\ UHNext /\ UNCHANGED <<vars, cbvars, lf, im, sm, op, wr>>
     \/ focus = "operations" /\ OPNext /\ Partner /\ UNCHANGED <<vars, cbvars, lf, im, sm, uh, wr>>
     \/ focus = "research" /\ WRNext /\ UNCHANGED <<vars, cbvars, lf, im, sm, uh, op>>
  /\ UNCHANGED focus
MCSpec == MCInit /\ [][MCNext]_<<vars, cbvars, lf, im, sm, uh, op, wr, focus>>

\* Who edits a config file wins: no exchange, restore, recovery or cleanup of
\* atomic_config_transaction destroys the last version an editor wrote, an ended
\* or recovered transaction leaves the editor's version and no artifact, and the
\* start is refused only when an editor interfered or the journal was torn.  What
\* a caller was told survives a power loss, and a comments backup that is over
\* left its directory synced and without private names.
ConfigKept == /\ focus = "config" => NoLostEdit /\ EditorWins /\ RefusedOnlyByEditor /\ PromiseDurable
              /\ focus = "backup" => BackupSettled

\* Nothing of somebody else is taken away: the comments lifecycle destroys only
\* backups, a migration never replaces what is published, and a gateway starts
\* on a restored volume only when it has the whole backup.
NothingTaken == OnlyBackupsDestroyed /\ NothingReplaced /\ RestoreWhole

\* A non-chat call that is answered carried its whole upload, is paid once, and
\* leaves nothing behind, whatever failed and whoever left (operation_accounting,
\* audio, images, operations_proxy).
OperationsExact == focus = "operations" => OperationsAccounted /\ BodiesWhole

\* A research answer that is charged rests on pages that were read, grouped as
\* their names connect them (build_evidence_matrix, web_research).
AnswersGrounded == focus = "research" => MatrixExact /\ ResearchGrounded

=============================================================================
