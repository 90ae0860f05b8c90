--------------------------- MODULE SystemdMigration ---------------------------
(***************************************************************************)
(* The offline migration of a deployment into the layout of the systemd     *)
(* service (docker/systemd_migration.py with its plan, apply and fs parts). *)
(* A plan takes snapshots of the sources and of the targets; each artifact  *)
(* whose target is missing is copied to a temporary name, compared with its *)
(* snapshot and published without ever replacing anything.  Several         *)
(* migrations may run, the old service may still write its database, and    *)
(* the machine may stop at any moment.                                      *)
(***************************************************************************)
EXTENDS Naturals, Sequences, FiniteSets

CONSTANTS Migrators,       \* runs of the tool; each is one process
          MaxChanges,      \* bound: changes of the sources
          MaxFailures      \* bound: failed operations and crashes

ASSUME MigrationAssumption == MaxChanges \in Nat /\ MaxFailures \in Nat

VARIABLE sm    \* src: the version of each part of a source; dst: what is published, durable or not, with the temporary
               \* that shares its inode; left: temporary names in the state directory; dir: the state directory;
               \* run: the migrations; told: the artifacts a finished migration reported;
               \* unsure: a sync failed, or the target of another migration was reported before its sync

Order == <<"config", "db", "letter", "cache">>         \* gateway.env is copied the way the configs are
Artifacts == {Order[i] : i \in 1..Len(Order)}
Parts == {"main", "wal"}                               \* of a database; the other artifacts have one part
PartsOf(a) == IF a = "db" THEN Parts ELSE {"main"}
Absent == [main |-> 0, wal |-> 0]
NoTarget == [have |-> Absent, durable |-> FALSE, shared |-> {}]
NoRun == [pc |-> "new", i |-> 1, snap |-> [a \in Artifacts |-> Absent], found |-> {}, temp |-> Absent, todo |-> {}]
SMInit ==
  \E dir \in {"none", "drift"} :
    sm = [src |-> [a \in Artifacts |-> [p \in Parts |-> IF p \in PartsOf(a) THEN 1 ELSE 0]],
          dst |-> [a \in Artifacts |-> NoTarget], left |-> {}, dir |-> dir, run |-> [k \in Migrators |-> NoRun],
          told |-> {}, unsure |-> {}, changes |-> 0, failures |-> 0]

Failing == sm.failures < MaxFailures
Failed(c) == [c EXCEPT !.failures = @ + 1]
Run(k) == sm.run[k]
Item(k) == Order[Run(k).i]
Target(a) == sm.dst[a]
Published(a) == Target(a).have # Absent
\* validate_target_file: a regular file with one link.
Valid(a) == Published(a) /\ Target(a).shared = {}

\* The old service changes a source: both parts of its database at once.
SourceChanges(a) ==
  /\ sm.changes < MaxChanges
  /\ sm' = [sm EXCEPT !.changes = @ + 1, !.src[a] = [p \in Parts |-> IF p \in PartsOf(a) THEN @[p] + 1 ELSE 0]]

-----------------------------------------------------------------------------
(* build_plan.                                                             *)

\* _validate_state_names, validate_target_file, validate_directory_metadata:
\* unknown names, a target with a second link and a half-made directory are refused.
Plannable == sm.left = {} /\ sm.dir # "raw" /\ \A a \in Artifacts : Published(a) => Valid(a)
RefusePlan(k) == Run(k).pc = "new" /\ ~Plannable /\ sm' = [sm EXCEPT !.run[k].pc = "error"]
StartPlan(k) ==
  /\ Run(k).pc = "new" /\ Plannable
  /\ sm' = [sm EXCEPT !.run[k] = [@ EXCEPT !.pc = "plan", !.found = {a \in Artifacts : Published(a)},
                                           !.todo = {t \in Artifacts \X Parts : t[2] \in PartsOf(t[1])}]]
\* The snapshots are taken one after another, a database before its sidecars.
MainFirst(todo) == {t \in todo : t[2] = "wal" => <<t[1], "main">> \notin todo}
Before(a, b) == \E i, j \in 1..Len(Order) : i <= j /\ Order[i] = a /\ Order[j] = b
PlanOrder(k) == {t \in MainFirst(Run(k).todo) : \A u \in Run(k).todo : Before(t[1], u[1])}
Snapshot(k) ==
  /\ Run(k).pc = "plan"
  /\ \E t \in PlanOrder(k) :
       /\ sm' = [sm EXCEPT !.run[k] = [@ EXCEPT !.snap[t[1]][t[2]] = sm.src[t[1]][t[2]], !.todo = Run(k).todo \ {t},
                                                !.pc = IF Run(k).todo = {t} THEN "dirs" ELSE "plan"]]

-----------------------------------------------------------------------------
(* apply_plan.                                                             *)

\* The temporary of a failed copy is removed; that may fail as well.
CleanUp(c, k, kept) ==
  [c EXCEPT !.run[k] = [@ EXCEPT !.pc = "error", !.temp = Absent],
            !.left = IF kept THEN @ ELSE @ \ {<<k, Item(k)>>},
            !.dst = [a \in Artifacts |-> IF kept THEN c.dst[a] ELSE [c.dst[a] EXCEPT !.shared = @ \ {k}]]]

\* normalize_directory_metadata of a directory whose mode drifted; ensure_directory makes a missing one.
\* Its chown, chmod and two syncs are one step: a crash does not take the directory away.
Directories(k) ==
  /\ Run(k).pc = "dirs"
  /\ \/ sm.dir = "ok" /\ sm' = [sm EXCEPT !.run[k].pc = "next"]
     \/ sm.dir = "drift" /\ sm' = [sm EXCEPT !.dir = "ok", !.run[k].pc = "next"]
     \/ sm.dir = "none" /\ sm' = [sm EXCEPT !.dir = "raw", !.run[k].pc = "chown"]
     \/ sm.dir = "raw" /\ sm' = [sm EXCEPT !.run[k].pc = "error"]           \* another migration is making it
EnsureDirectory(k) ==
  /\ Run(k).pc = "chown"
  /\ \/ sm' = [sm EXCEPT !.dir = "ok", !.run[k].pc = "next"]
     \/ Failing /\ \E gone \in BOOLEAN : sm' = Failed([sm EXCEPT !.dir = IF gone THEN "none" ELSE "raw", !.run[k].pc = "error"])

\* The artifacts in their order; one that was found is left as it is.
NextItem(c, k) ==
  IF Run(k).i = Len(Order) THEN [c EXCEPT !.run[k] = [@ EXCEPT !.pc = "done", !.temp = Absent], !.told = Artifacts]
  ELSE [c EXCEPT !.run[k] = [@ EXCEPT !.pc = "next", !.temp = Absent, !.i = Run(k).i + 1]]
Found(k) == NextItem([sm EXCEPT !.unsure = IF Target(Item(k)).durable THEN @ ELSE @ \cup {Item(k)}], k)
Skip(k) == Run(k).pc = "next" /\ Item(k) \in Run(k).found /\ sm' = Found(k)

\* The cache is looked at again before it is copied.
CacheThere(k) == Run(k).pc = "next" /\ Item(k) = "cache" /\ Item(k) \notin Run(k).found /\ Published("cache") /\ sm' = Found(k)
StartCopy(k) ==
  /\ Run(k).pc = "next" /\ Item(k) \notin Run(k).found /\ (Item(k) = "cache" => ~Published("cache"))
  /\ sm' = [sm EXCEPT !.run[k] = [@ EXCEPT !.pc = "copy", !.todo = {<<Item(k), p>> : p \in PartsOf(Item(k))}],
                      !.left = IF Item(k) \in {"config", "cache"} THEN @ ELSE @ \cup {<<k, Item(k)>>}]  \* only the state directory is scanned

\* mutant: the copy is made of whatever has the name
UnchangedName(k, p) == TRUE

\* open_snapshot: the file is the one of the plan, before and after it is read.
Unchanged(k, p) == sm.src[Item(k)][p] = Run(k).snap[Item(k)][p]
Copied(k, t) == [sm EXCEPT !.run[k] = [@ EXCEPT !.temp[t[2]] = sm.src[t[1]][t[2]], !.todo = Run(k).todo \ {t},
                                                 !.pc = IF Run(k).todo = {t} THEN "link" ELSE "copy"]]
\* copy_snapshot_to_new: one file, of a database (_stage_database) the log after it.
CopyPart(k) ==
  /\ Run(k).pc = "copy" /\ Item(k) # "cache"
  /\ \E t \in MainFirst(Run(k).todo) : sm' = IF Unchanged(k, t[2]) THEN Copied(k, t) ELSE CleanUp(sm, k, FALSE)
\* _populate_cache: the files are compared with the manifest of the plan.
Populate(k) ==
  /\ Run(k).pc = "copy" /\ Item(k) = "cache"
  /\ \E t \in Run(k).todo : sm' = IF Unchanged(k, "main") THEN Copied(k, t) ELSE CleanUp(sm, k, FALSE)
CopyFails(k) == Run(k).pc = "copy" /\ Failing /\ \E kept \in BOOLEAN : sm' = Failed(CleanUp(sm, k, kept))

\* mutant: the target is replaced
PublishOver(k) ==
  /\ Run(k).pc = "link"
  /\ sm' = [sm EXCEPT !.dst[Item(k)] = [have |-> Run(k).temp, durable |-> FALSE, shared |-> {}], !.run[k].pc = "sync"]

\* os.link or renameat2(RENAME_NOREPLACE); the database's sources are compared once more.
Publish(k) ==
  /\ Run(k).pc = "link"
  /\ LET a == Item(k) IN
     \/ a = "db" /\ (\E p \in Parts : ~Unchanged(k, p)) /\ sm' = CleanUp(sm, k, FALSE)
     \/ /\ a = "db" => \A p \in Parts : Unchanged(k, p)
        /\ ~Published(a)
        /\ sm' = [sm EXCEPT !.dst[a] = [have |-> Run(k).temp, durable |-> FALSE, shared |-> IF a = "cache" THEN {} ELSE {k}],
                            !.run[k].pc = "sync"]
     \/ /\ a = "db" => \A p \in Parts : Unchanged(k, p)
        /\ Published(a)
        /\ sm' = IF Valid(a) THEN [sm EXCEPT !.run[k].pc = IF a = "config" \/ a = "letter" THEN "unlink" ELSE "sync"]
                 ELSE CleanUp(sm, k, FALSE)
\* fsync of the directory; after an error the target stays where it is.
SyncTarget(k) ==
  /\ Run(k).pc = "sync"
  /\ \/ sm' = [sm EXCEPT !.dst[Item(k)].durable = TRUE, !.run[k].pc = "unlink"]
     \/ Failing /\ \E kept \in BOOLEAN : sm' = Failed([CleanUp(sm, k, kept) EXCEPT !.unsure = @ \cup {Item(k)}])
\* The temporary goes, and the target is looked at once more.
Unlink(k) ==
  /\ Run(k).pc = "unlink"
  /\ LET c == [sm EXCEPT !.left = @ \ {<<k, Item(k)>>}, !.dst[Item(k)].shared = @ \ {k}] IN
     \/ sm' = IF Target(Item(k)).shared \subseteq {k} \/ Item(k) = "db" THEN NextItem(c, k) ELSE CleanUp(sm, k, FALSE)
     \/ Failing /\ sm' = Failed(CleanUp(sm, k, TRUE))

-----------------------------------------------------------------------------
\* The machine stops: the processes are gone, and what was not synced may be.
MachineStops ==
  /\ Failing /\ \E k \in Migrators : Run(k).pc \notin {"new", "done", "error"}
  /\ \E lost \in SUBSET {a \in Artifacts : Published(a) /\ ~Target(a).durable} :
       sm' = Failed([sm EXCEPT !.dst = [a \in Artifacts |-> IF a \in lost THEN NoTarget ELSE [@[a] EXCEPT !.durable = Published(a)]],
                               !.run = [k \in Migrators |-> IF @[k].pc \in {"new", "done"} THEN @[k] ELSE [NoRun EXCEPT !.pc = "error"]]])

Migrate(k) ==
  \/ RefusePlan(k) \/ StartPlan(k) \/ Snapshot(k) \/ Directories(k) \/ EnsureDirectory(k) \/ Skip(k) \/ CacheThere(k) \/ StartCopy(k)
  \/ CopyPart(k) \/ Populate(k) \/ CopyFails(k) \/ Publish(k) \/ SyncTarget(k) \/ Unlink(k)
SMNext == MachineStops \/ (\E a \in Artifacts : SourceChanges(a)) \/ \E k \in Migrators : Migrate(k)
SMSpec == SMInit /\ [][SMNext]_sm

-----------------------------------------------------------------------------
\* What is published is one version of its source, never a database of one
\* moment with the log of another, however the service and other migrations
\* run meanwhile; and what a finished migration reported is there, and durable
\* unless its sync failed or another migration had not yet synced it.
MigrationWhole ==
  /\ \A a \in Artifacts : Published(a) => \A p \in PartsOf(a) : Target(a).have[p] = Target(a).have["main"]
  /\ \A a \in sm.told \ sm.unsure : Published(a) /\ Target(a).durable

\* A migration never changes what is already at a target.
NothingReplaced == [][\A a \in Artifacts : Published(a) => sm'.dst[a].have \in {Target(a).have, Absent}
                                                          /\ (sm'.dst[a].have = Absent => ~Target(a).durable)]_sm
=============================================================================
