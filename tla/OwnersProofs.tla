---------------------------- MODULE OwnersProofs ----------------------------
(***************************************************************************)
(* What four owners of work that outlives a request promise, for any       *)
(* number of requests.                                                     *)
(*                                                                         *)
(* Config updates: FileMatchesRuntime and NoLostUpdate, for any updaters,  *)
(* sources, edits of the operator and failures.  The invariant says what   *)
(* each place of the commit section knows: the base of the save is the     *)
(* active generation and its bundle the loaded one, a file that is written *)
(* but not yet bound is the only one that may differ, and a rollback that  *)
(* is owed would put the loaded content back.                              *)
(*                                                                         *)
(* Deep research runner: NothingOutlivesItsRun, for any runs and capacity. *)
(* The invariant ties each stage of a cleanup to what its process can      *)
(* still do: a process is signalled exactly when its cleanup has begun, a  *)
(* job or a group belongs to a call that saw the ready frame, and a        *)
(* cleanup that gives up leaves only what was sent a SIGKILL.              *)
(*                                                                         *)
(* Model scoring: ScoringConsistent, for any models and any number of      *)
(* refreshes.  The invariant says that the flags of the service tell what  *)
(* its tasks do, that a lease is held only by a task at work and the lock  *)
(* only by one that fetches or evaluates, and that the ranking counts what *)
(* it lists.                                                               *)
(*                                                                         *)
(* Deep research accounting: RollupExact, for any parents, children and    *)
(* limits.  The invariant ties the list of a registered parent to its      *)
(* children: it names each child that holds or held a reservation once, a  *)
(* drained list has only settled ones, and a parent that left the registry *)
(* has no child open, so what it rolled up stays what was charged.         *)
(***************************************************************************)
EXTENDS ConfigUpdates, ResearchRunner, ModelScoring, ResearchAccounting, SequenceTheorems, FiniteSetTheorems, TLAPS

Sync == {"locked", "staged", "written", "publishing", "published", "finalizing"}
Live == {"captured", "building", "waiting", "discarding"} \cup Sync
Bundles == [Sources -> Contents]
NoJobs == {[at |-> "away"], [at |-> "done"]}
LiveJobs == [at : Live, source : Sources, kind : Kinds, base : Nat, bundle : Bundles, seen : Bundles]
Cleanups == [action : {"abort", "rollback", "finalize"}, source : Sources, by : Updaters, old : Contents]
Backups == {"none", "abort", "publish", "retry"}
Coords == [state : {"running", "stopping", "broken", "stopped"}, restart : BOOLEAN, closing : BOOLEAN]

JobsOK == job \in [Updaters -> NoJobs \cup LiveJobs]
CUTypeOK ==
  /\ disk \in Bundles /\ loaded \in Bundles
  /\ generation \in Nat /\ unresolved \in Nat /\ failures \in Nat
  /\ JobsOK
  /\ thread \in Updaters \cup {"free"}
  /\ coord \in Coords
  /\ pending \in Cleanups \cup {NoCleanup}
  /\ backup \in Backups
  /\ byHand \in SUBSET Sources

SectionAlone == \A u \in Updaters : job[u].at \in Sync <=> thread = u
RestartBroken == coord.restart => coord.state = "broken"

\* The base a request took is the active generation or an older one.
BaseRight(u) ==
  job[u].at \in Live => job[u].base <= generation /\ (job[u].base = generation => job[u].bundle = loaded)

\* A save that passed the preconditions, and files that hold a bundle.
SaveBase(u) == job[u].kind # "resync" /\ job[u].base = generation /\ job[u].seen = job[u].bundle
Holds(c) == \A f \in Sources \ byHand : disk[f] = c[f]
Owed(u) == [action |-> "rollback", source |-> job[u].source, by |-> u, old |-> job[u].seen[job[u].source]]

Section(u) ==
  /\ job[u].at \in {"staged", "written"} => ~coord.restart /\ pending = NoCleanup /\ SaveBase(u)
  /\ job[u].at = "written" => disk[job[u].source] = u \/ job[u].source \in byHand
  /\ job[u].at = "publishing" => ~coord.restart /\ job[u].base = generation /\ Holds(Candidate(u))
  /\ job[u].at = "publishing" /\ job[u].kind = "resync" => pending = NoCleanup
  /\ job[u].at = "publishing" /\ job[u].kind # "resync" => pending = Owed(u) /\ SaveBase(u)
  /\ job[u].at \in {"published", "finalizing"} => pending.action = "finalize" /\ ~coord.restart

Unbound == {f \in Sources : \E u \in Updaters : job[u].at = "written" /\ job[u].source = f}
FilesRight ==
  ~coord.restart =>
    /\ pending.action = "rollback" =>
         /\ \A f \in Sources \ (byHand \cup {pending.source}) : disk[f] = loaded[f]
         /\ pending.old = loaded[pending.source]
    /\ pending.action # "rollback" => \A f \in Sources \ (byHand \cup Unbound) : disk[f] = loaded[f]

Sections == \A u \in Updaters : BaseRight(u) /\ Section(u)
CUInv == CUTypeOK /\ SectionAlone /\ RestartBroken /\ Sections /\ FilesRight

-----------------------------------------------------------------------------
(* Jobs.                                                                   *)

Others(u) == \A v \in Updaters \ {u} : job'[v] = job[v]
SameRequest(u) == /\ job'[u].source = job[u].source /\ job'[u].kind = job[u].kind
                  /\ job'[u].base = job[u].base /\ job'[u].bundle = job[u].bundle
Moved(u, where) == JobsOK' /\ Others(u) /\ SameRequest(u) /\ job'[u].at = where
Ended(u) == JobsOK' /\ Others(u) /\ job'[u].at = "done"

\* A request that is under way has its record, with what it captured (CaptureBase).
LEMMA LiveRecord ==
  ASSUME JobsOK, NEW u \in Updaters, job[u].at \in Live
  PROVE job[u] \in LiveJobs
BY DEF JobsOK, NoJobs, Live, Sync

\* A step that gives one request a new record moves only that request.
LEMMA RecordMoves ==
  ASSUME JobsOK, NEW u \in Updaters, NEW next \in NoJobs \cup LiveJobs, job' = [job EXCEPT ![u] = next]
  PROVE JobsOK' /\ Others(u) /\ job'[u] = next
BY DEF JobsOK, Others

\* A step of a request keeps what it captured and moves only that request (At).
LEMMA AtMoves ==
  ASSUME JobsOK, NEW u \in Updaters, job[u].at \in Live, NEW where \in Live, At(u, where)
  PROVE Moved(u, where) /\ job'[u].seen = job[u].seen
<1>1. job[u] \in LiveJobs
  BY LiveRecord
<1> DEFINE next == [job[u] EXCEPT !.at = where]
<1>2. /\ next \in LiveJobs /\ next.at = where /\ next.source = job[u].source /\ next.kind = job[u].kind
      /\ next.base = job[u].base /\ next.bundle = job[u].bundle /\ next.seen = job[u].seen
  BY <1>1 DEF LiveJobs
<1>3. job' = [job EXCEPT ![u] = next]
  BY DEF At
<1> HIDE DEF next
<1>4. JobsOK' /\ Others(u) /\ job'[u] = next
  BY <1>2, <1>3, RecordMoves
<1> QED BY <1>2, <1>4 DEF Moved, SameRequest

\* So does a step that also takes the files it saw (Admit, Precheck).
LEMMA SeenMoves ==
  ASSUME JobsOK, NEW u \in Updaters, job[u].at \in Live, NEW where \in Live, NEW files \in Bundles,
         job' = [job EXCEPT ![u].at = where, ![u].seen = files]
  PROVE Moved(u, where) /\ job'[u].seen = files
<1>1. job[u] \in LiveJobs
  BY LiveRecord
<1> DEFINE next == [job[u] EXCEPT !.at = where]
<1>2. /\ next \in LiveJobs /\ next.at = where /\ next.source = job[u].source /\ next.kind = job[u].kind
      /\ next.base = job[u].base /\ next.bundle = job[u].bundle
  BY <1>1 DEF LiveJobs
<1> DEFINE last == [next EXCEPT !.seen = files]
<1>3. job' = [job EXCEPT ![u] = last]
  BY DEF JobsOK
<1> HIDE DEF next
<1>4. /\ last \in LiveJobs /\ last.at = where /\ last.source = job[u].source /\ last.kind = job[u].kind
      /\ last.base = job[u].base /\ last.bundle = job[u].bundle /\ last.seen = files
  BY <1>2 DEF LiveJobs
<1> HIDE DEF last
<1>5. JobsOK' /\ Others(u) /\ job'[u] = last
  BY <1>3, <1>4, RecordMoves
<1> QED BY <1>4, <1>5 DEF Moved, SameRequest

\* The end of a request moves only that request (FinishUpdate).
LEMMA FinishEnds ==
  ASSUME JobsOK, NEW u \in Updaters, FinishUpdate(u)
  PROVE Ended(u)
<1> DEFINE next == [at |-> "done"]
<1>1. next \in NoJobs /\ next.at = "done"
  BY DEF NoJobs
<1>2. job' = [job EXCEPT ![u] = next]
  BY DEF FinishUpdate
<1> HIDE DEF next
<1>3. JobsOK' /\ Others(u) /\ job'[u] = next
  BY <1>1, <1>2, RecordMoves
<1> QED BY <1>1, <1>3 DEF Ended

-----------------------------------------------------------------------------
(* Steps of one request.                                                   *)

SameFiles == UNCHANGED <<disk, loaded, byHand>>
Turn(u) == /\ thread \in {u, "free"} /\ thread' \in {u, "free"}
           /\ job'[u].at \in Sync <=> thread' = u

\* No other request is in the commit section of this one, before or after (CommitLock).
LEMMA AloneStep ==
  ASSUME SectionAlone, NEW u \in Updaters, Others(u), Turn(u)
  PROVE SectionAlone' /\ (\A v \in Updaters \ {u} : job[v].at \notin Sync /\ job'[v].at \notin Sync)
BY UpdatesAssumption DEF SectionAlone, Others, Turn

\* What a request captured stays a base: the generation stands, or a new one follows (Publish).
LEMMA BaseKept ==
  ASSUME CUTypeOK, NEW u \in Updaters, BaseRight(u), job[u].at \in Live, SameRequest(u),
         UNCHANGED <<generation, loaded>> \/ generation' = generation + 1
  PROVE BaseRight(u)'
<1>1. job[u].base \in Nat /\ generation \in Nat
  BY LiveRecord DEF CUTypeOK, LiveJobs
<1> QED BY <1>1 DEF BaseRight, SameRequest

\* The other requests hold what they held.
LEMMA SectionsStep ==
  ASSUME CUTypeOK, SectionAlone, Sections, NEW u \in Updaters, Others(u), Turn(u),
         UNCHANGED <<generation, loaded>> \/ generation' = generation + 1,
         BaseRight(u)', Section(u)'
  PROVE Sections'
<1> SUFFICES ASSUME NEW v \in Updaters \ {u}
             PROVE BaseRight(v)' /\ Section(v)'
  BY DEF Sections
<1>1. job'[v] = job[v] /\ job'[v].at \notin Sync
  BY AloneStep DEF Others
<1>2. Section(v)'
  BY <1>1 DEF Section, Sync
<1>3. BaseRight(v)'
  <2>1. CASE job[v].at \in Live
    BY <2>1, <1>1, BaseKept DEF SameRequest, Sections
  <2>2. CASE job[v].at \notin Live
    BY <2>2, <1>1 DEF BaseRight
  <2> QED BY <2>1, <2>2
<1> QED BY <1>2, <1>3

\* A file is unbound only while the request that wrote it is.
LEMMA NoneUnbound ==
  ASSUME NEW u \in Updaters,
         \A v \in Updaters \ {u} : job[v].at \notin Sync /\ job'[v].at \notin Sync
  PROVE /\ job[u].at # "written" => Unbound = {}
        /\ job'[u].at # "written" => Unbound' = {}
        /\ job'[u].at = "written" => Unbound' \subseteq {job'[u].source}
        /\ job'[u].at = "written" => Unbound' = {f \in Sources : f = job'[u].source}
BY DEF Unbound, Sync

\* A step of a request that leaves the files, the generation and the debts alone.
LEMMA QuietStep ==
  ASSUME CUInv, NEW u \in Updaters, JobsOK', Others(u), Turn(u), SameFiles,
         UNCHANGED <<generation, coord, pending>>, backup' \in Backups, unresolved' \in Nat, failures' \in Nat,
         job[u].at # "written", job'[u].at # "written", BaseRight(u)', Section(u)'
  PROVE CUInv'
<1>1. CUTypeOK'
  BY DEF CUInv, CUTypeOK, SameFiles, Turn
<1>2. SectionAlone' /\ \A v \in Updaters \ {u} : job[v].at \notin Sync /\ job'[v].at \notin Sync
  BY AloneStep DEF CUInv
<1>3. Sections'
  BY SectionsStep DEF CUInv, SameFiles
<1>4. Unbound = {} /\ Unbound' = {}
  BY <1>2, NoneUnbound
<1>5. FilesRight' /\ RestartBroken'
  BY <1>4 DEF CUInv, FilesRight, RestartBroken, SameFiles
<1> QED BY <1>1, <1>2, <1>3, <1>5 DEF CUInv

-----------------------------------------------------------------------------
(* Up to the commit lock.                                                  *)

\* The operator's sources stay his while no step writes them (Gateway).
LEMMA HandKept ==
  ASSUME CUTypeOK, byHand' = {f \in byHand : disk'[f] = disk[f]}, disk' = disk
  PROVE byHand' = byHand
OBVIOUS

\* CaptureBase takes the active generation and its bundle.
LEMMA CaptureKeeps ==
  ASSUME CUInv, NEW u \in Updaters, Gateway(CaptureBase(u))
  PROVE CUInv'
<1>1. PICK f \in Sources, k \in Kinds :
        job' = [job EXCEPT ![u] = [at |-> "captured", source |-> f, kind |-> k,
                                   base |-> generation, bundle |-> loaded, seen |-> loaded]]
  BY DEF Gateway, CaptureBase
<1> DEFINE next == [at |-> "captured", source |-> f, kind |-> k,
                    base |-> generation, bundle |-> loaded, seen |-> loaded]
<1>2. next \in LiveJobs /\ next.at = "captured" /\ next.base = generation /\ next.bundle = loaded
  BY DEF CUInv, CUTypeOK, LiveJobs, Live
<1>3. job' = [job EXCEPT ![u] = next]
  BY <1>1
<1> HIDE DEF next
<1>4. JobsOK' /\ Others(u) /\ job'[u] = next
  BY <1>2, <1>3, RecordMoves DEF CUInv, CUTypeOK
<1>5. job[u].at = "away" /\ UNCHANGED <<disk, generation, loaded, thread, coord, pending, backup, unresolved, failures>>
  BY DEF Gateway, CaptureBase
<1>6. job[u].at \notin Sync /\ job'[u].at \notin Sync /\ byHand' = byHand
  BY <1>2, <1>4, <1>5, HandKept DEF Gateway, CUInv, CUTypeOK, Sync
<1>7. CUTypeOK' /\ RestartBroken'
  BY <1>4, <1>5, <1>6 DEF CUInv, CUTypeOK, RestartBroken
<1>8. SectionAlone'
  BY <1>4, <1>5, <1>6 DEF CUInv, SectionAlone, Others
<1>9. Sections'
  <2> SUFFICES ASSUME NEW v \in Updaters
               PROVE BaseRight(v)' /\ Section(v)'
    BY DEF Sections
  <2>1. CASE v = u
    BY <2>1, <1>2, <1>4, <1>5, <1>6 DEF BaseRight, Section, Sync, CUInv, CUTypeOK
  <2>2. CASE v # u
    <3>1. job'[v] = job[v] /\ BaseRight(v) /\ Section(v)
      BY <2>2, <1>4 DEF Others, CUInv, Sections
    <3>2. BaseRight(v)'
      BY <3>1, <1>5 DEF BaseRight
    <3>3. Section(v)'
      BY <3>1, <1>5, <1>6 DEF Section, SaveBase, Owed, Holds, Candidate
    <3> QED BY <3>2, <3>3
  <2> QED BY <2>1, <2>2
<1>10. FilesRight'
  <2>1. Unbound' = Unbound
    BY <1>4, <1>6 DEF Unbound, Others, Sync
  <2> QED BY <2>1, <1>5, <1>6 DEF CUInv, FilesRight
<1> QED BY <1>7, <1>8, <1>9, <1>10 DEF CUInv

\* Outside the commit section nothing is said of a request but its base.
LEMMA FreeSection ==
  ASSUME NEW u \in Updaters, job'[u].at \notin {"staged", "written", "publishing", "published", "finalizing"}
  PROVE Section(u)'
BY DEF Section

\* A step from one place to another that is not in the section of the files.
LEMMA QuietMove ==
  ASSUME CUInv, NEW u \in Updaters, NEW where \in Live, Moved(u, where), Turn(u), disk' = disk, loaded' = loaded,
         byHand' = {f \in byHand : disk'[f] = disk[f]}, job[u].at \in Live,
         UNCHANGED <<generation, coord, pending>>, backup' \in Backups, unresolved' \in Nat, failures' \in Nat,
         job[u].at # "written", where \notin {"staged", "written", "publishing", "published", "finalizing"}
  PROVE CUInv'
<1>1. SameFiles
  BY HandKept DEF CUInv, SameFiles
<1>2. BaseRight(u)'
  BY BaseKept DEF CUInv, Sections, Moved
<1>3. Section(u)'
  BY FreeSection DEF Moved
<1> QED BY <1>1, <1>2, <1>3, QuietStep DEF Moved

\* An end outside the section of the files.
LEMMA QuietEnd ==
  ASSUME CUInv, NEW u \in Updaters, Ended(u), thread = "free", thread' = thread, disk' = disk, loaded' = loaded,
         byHand' = {f \in byHand : disk'[f] = disk[f]},
         UNCHANGED <<generation, coord, pending>>, backup' \in Backups, unresolved' \in Nat, failures' \in Nat
  PROVE CUInv'
<1>1. SameFiles
  BY HandKept DEF CUInv, SameFiles
<1>2. BaseRight(u)' /\ Section(u)' /\ Turn(u)
  BY UpdatesAssumption DEF Ended, BaseRight, Section, Turn, Live, Sync
<1>3. job[u].at # "written" /\ job'[u].at # "written"
  BY UpdatesAssumption DEF CUInv, SectionAlone, Sync, Ended
<1> QED BY <1>1, <1>2, <1>3, QuietStep DEF Ended

\* Admit reads the files for the request that enters, or ends it.
LEMMA AdmitKeeps ==
  ASSUME CUInv, NEW u \in Updaters, Gateway(Admit(u))
  PROVE CUInv'
<1>1. /\ thread = "free" /\ job[u].at = "captured"
      /\ UNCHANGED <<disk, generation, loaded, thread, coord, pending, backup, unresolved, failures>>
      /\ byHand' = {f \in byHand : disk'[f] = disk[f]}
  BY DEF Gateway, Admit
<1>2. CASE job' = [job EXCEPT ![u].at = "building", ![u].seen = disk]
  <2>1. Moved(u, "building")
    BY <1>1, <1>2, SeenMoves DEF CUInv, CUTypeOK, Live
  <2>2. Turn(u)
    BY <1>1, <2>1, UpdatesAssumption DEF Turn, Moved, Sync
  <2> QED BY <1>1, <2>1, <2>2, QuietMove DEF CUInv, CUTypeOK, Live
<1>3. CASE FinishUpdate(u)
  <2>1. Ended(u)
    BY <1>3, FinishEnds DEF CUInv, CUTypeOK
  <2> QED BY <1>1, <2>1, QuietEnd DEF CUInv, CUTypeOK
<1> QED BY <1>2, <1>3 DEF Gateway, Admit

\* Build, CancelWaiting and CommitLock move the request and leave the files.
LEMMA BuildKeeps ==
  ASSUME CUInv, NEW u \in Updaters, Gateway(Build(u)) \/ Gateway(CancelWaiting(u)) \/ Gateway(CommitLock(u))
  PROVE CUInv'
<1>1. /\ thread = "free" /\ job[u].at \in {"building", "waiting"}
      /\ UNCHANGED <<disk, generation, loaded, coord, pending, backup, unresolved>>
      /\ byHand' = {f \in byHand : disk'[f] = disk[f]} /\ failures' \in Nat
  BY DEF Gateway, Build, CancelWaiting, CommitLock, Fails, CUInv, CUTypeOK
<1>2. PICK where \in {"waiting", "discarding", "locked"} :
        At(u, where) /\ thread' = (IF where = "locked" THEN u ELSE "free")
  BY <1>1 DEF Gateway, Build, CancelWaiting, CommitLock
<1>3. Moved(u, where)
  BY <1>1, <1>2, AtMoves DEF CUInv, CUTypeOK, Live, Sync
<1>4. Turn(u)
  BY <1>1, <1>2, <1>3, UpdatesAssumption DEF Turn, Moved, Sync
<1> QED BY <1>1, <1>3, <1>4, QuietMove DEF CUInv, CUTypeOK, Live, Sync

\* Discard ends the request and may leave a candidate to the runtime.
LEMMA DiscardKeeps ==
  ASSUME CUInv, NEW u \in Updaters, Gateway(Discard(u))
  PROVE CUInv'
<1>1. /\ thread = "free" /\ FinishUpdate(u) /\ unresolved' \in Nat /\ failures' \in Nat /\ backup' \in Backups
      /\ UNCHANGED <<disk, generation, loaded, thread, coord, pending>>
      /\ byHand' = {f \in byHand : disk'[f] = disk[f]}
  BY DEF Gateway, Discard, Fails, CUInv, CUTypeOK
<1>2. Ended(u)
  BY <1>1, FinishEnds DEF CUInv, CUTypeOK
<1> QED BY <1>1, <1>2, QuietEnd

-----------------------------------------------------------------------------
(* Under the commit lock.                                                  *)

\* A step under the lock is right when what it writes is.
LEMMA SectionStep ==
  ASSUME CUInv, NEW u \in Updaters, Others(u), Turn(u),
         UNCHANGED <<generation, loaded>> \/ generation' = generation + 1,
         CUTypeOK', RestartBroken', BaseRight(u)', Section(u)', FilesRight'
  PROVE CUInv'
BY AloneStep, SectionsStep DEF CUInv

\* The thread of the section holds the only unbound file.
LEMMA InSection ==
  ASSUME CUInv, NEW u \in Updaters, job[u].at \in Sync, Others(u), Turn(u)
  PROVE /\ job[u] \in LiveJobs /\ BaseRight(u) /\ Section(u)
        /\ Unbound = {f \in Sources : job[u].at = "written" /\ f = job[u].source}
        /\ Unbound' = {f \in Sources : job'[u].at = "written" /\ f = job'[u].source}
<1>1. \A v \in Updaters \ {u} : job[v].at \notin Sync /\ job'[v].at \notin Sync
  BY AloneStep DEF CUInv
<1>2. job[u] \in LiveJobs /\ BaseRight(u) /\ Section(u)
  BY LiveRecord DEF CUInv, CUTypeOK, Live, Sections
<1> QED BY <1>1, <1>2 DEF Unbound, Sync

\* Precheck passes only a save whose base is active, on the files it replaces.
LEMMA PrecheckKeeps ==
  ASSUME CUInv, NEW u \in Updaters, Gateway(Precheck(u))
  PROVE CUInv'
<1>1. /\ thread = u /\ job[u].at = "locked" /\ job[u].at \in Live /\ failures' \in Nat /\ backup' \in Backups
      /\ UNCHANGED <<disk, generation, loaded, coord, pending, backup, unresolved>> /\ unresolved' \in Nat
      /\ byHand' = {f \in byHand : disk'[f] = disk[f]} /\ JobsOK
  BY DEF Gateway, Precheck, Fails, CUInv, CUTypeOK, Live, Sync
<1>2. CASE thread' = "free" /\ At(u, "discarding")
  <2>1. Moved(u, "discarding")
    BY <1>1, <1>2, AtMoves DEF Live
  <2>2. Turn(u)
    BY <1>1, <1>2, <2>1, UpdatesAssumption DEF Turn, Moved, Sync
  <2> QED BY <1>1, <2>1, <2>2, QuietMove DEF Live
<1>3. ASSUME NEW where \in {"publishing", "staged"}, CommitPreconditions(u), thread' = thread,
             where = (IF job[u].kind = "resync" THEN "publishing" ELSE "staged"),
             job' = [job EXCEPT ![u].at = where, ![u].seen = disk]
      PROVE CUInv'
  <2>1. Moved(u, where) /\ job'[u].seen = disk
    <3>1. where \in Live /\ disk \in Bundles
      BY DEF Live, Sync, CUInv, CUTypeOK
    <3> QED BY <1>1, <1>3, <3>1, SeenMoves
  <2>2. Turn(u)
    BY <1>1, <1>3, <2>1 DEF Turn, Moved, Sync
  <2>3. SameFiles
    BY <1>1, HandKept DEF CUInv, SameFiles
  <2>4. BaseRight(u)'
    BY <1>1, <2>1, BaseKept DEF CUInv, Sections, Moved
  <2>5. Section(u)'
    <3>1. ~coord'.restart /\ pending' = NoCleanup /\ job'[u].base = generation'
      BY <1>1, <1>3, <2>1 DEF CommitPreconditions, CUInv, RestartBroken, Moved, SameRequest
    <3>2. CASE job[u].kind = "resync"
      <4>1. where = "publishing" /\ job'[u].kind = "resync" /\ job'[u].at = where
        BY <1>3, <2>1, <3>2 DEF Moved, SameRequest
      <4>2. Holds(Candidate(u))'
        BY <4>1, <2>1, <1>1 DEF Holds, Candidate
      <4> QED BY <3>1, <4>1, <4>2 DEF Section
    <3>3. CASE job[u].kind # "resync"
      <4>1. where = "staged" /\ job'[u].kind # "resync" /\ job'[u].at = where
        BY <1>3, <2>1, <3>3 DEF Moved, SameRequest
      <4>2. SaveBase(u)'
        BY <4>1, <3>1, <2>1, <1>3, <3>3 DEF SaveBase, CommitPreconditions, Moved, SameRequest
      <4> QED BY <3>1, <4>1, <4>2 DEF Section
    <3> QED BY <3>2, <3>3
  <2> QED BY <1>1, <2>1, <2>2, <2>3, <2>4, <2>5, QuietStep DEF Moved
<1> QED BY <1>2, <1>3 DEF Gateway, Precheck

\* A restart that is required excuses the files; else they are right with no
\* rollback owed when every source but the unbound one is.
LEMMA FilesStep ==
  ASSUME ~coord'.restart => pending'.action # "rollback"
                            /\ \A f \in Sources \ (byHand' \cup Unbound') : disk'[f] = loaded'[f]
  PROVE FilesRight'
BY DEF FilesRight

\* WriteFile replaces only the source it saves, on a base that is the loaded bundle.
LEMMA WriteKeeps ==
  ASSUME CUInv, NEW u \in Updaters, Gateway(WriteFile(u))
  PROVE CUInv'
<1> DEFINE f == job[u].source
<1>1. /\ thread = u /\ job[u].at = "staged" /\ job[u].at \in Live /\ job[u].at \in Sync /\ failures' \in Nat
      /\ backup' \in Backups /\ UNCHANGED <<generation, loaded, unresolved>> /\ unresolved' \in Nat
      /\ byHand' = {g \in byHand : disk'[g] = disk[g]} /\ byHand' \in SUBSET Sources /\ JobsOK
  BY DEF Gateway, WriteFile, Fails, CUInv, CUTypeOK, Live, Sync, AbortBackup, Backups
<1>2. PICK where \in {"written", "discarding"} :
        At(u, where) /\ thread' = (IF where = "written" THEN u ELSE "free")
  BY <1>1 DEF Gateway, WriteFile
<1>3. Moved(u, where) /\ job'[u].seen = job[u].seen
  BY <1>1, <1>2, AtMoves DEF Live, Sync
<1>4. Turn(u)
  BY <1>1, <1>2, <1>3, UpdatesAssumption DEF Turn, Moved, Sync
<1>5. /\ job[u] \in LiveJobs /\ Unbound = {} /\ ~coord.restart /\ pending = NoCleanup /\ SaveBase(u)
      /\ Unbound' = {g \in Sources : where = "written" /\ g = f}
  BY <1>1, <1>3, <1>4, InSection DEF Moved, SameRequest, Section
<1>6. BaseRight(u)'
  BY <1>1, <1>3, BaseKept DEF CUInv, Sections, Moved
<1>7. \A g \in Sources \ byHand : disk[g] = loaded[g]
  BY <1>5 DEF CUInv, FilesRight, NoCleanup
<1>8. CASE disk' = [disk EXCEPT ![f] = u] /\ At(u, "written") /\ UNCHANGED <<thread, coord, pending>>
  <2>1. where = "written" /\ f \in Sources /\ disk'[f] = u
    BY <1>1, <1>2, <1>5, <1>8, UpdatesAssumption DEF LiveJobs, CUInv, CUTypeOK, Bundles
  <2>2. CUTypeOK' /\ RestartBroken'
    BY <1>1, <1>3, <1>8, <2>1 DEF CUInv, CUTypeOK, RestartBroken, Moved, Bundles, Contents
  <2>3. Section(u)'
    BY <1>1, <1>3, <1>5, <1>8, <2>1 DEF Section, SaveBase, Moved, SameRequest
  <2>4. \A g \in Sources \ (byHand' \cup Unbound') : disk'[g] = loaded'[g]
    BY <1>1, <1>5, <1>7, <1>8, <2>1 DEF CUInv, CUTypeOK, Bundles
  <2>5. FilesRight'
    BY <1>5, <1>8, <2>4, FilesStep DEF NoCleanup
  <2> QED BY <1>1, <1>3, <1>4, <1>6, <2>2, <2>3, <2>5, SectionStep DEF Moved
<1>9. CASE thread' = "free" /\ UNCHANGED <<disk, coord, pending>>
  <2>1. where = "discarding"
    BY <1>1, <1>2, <1>9, UpdatesAssumption
  <2> QED BY <1>1, <1>3, <1>4, <1>9, <2>1, QuietMove DEF Live
<1>10. ASSUME NEW action \in {"abort", "none"}, thread' = "free", Broken(u, action),
              disk' \in IF action = "none" THEN {disk, [disk EXCEPT ![f] = u]} ELSE {disk}
       PROVE CUInv'
  <2>1. where = "discarding"
    BY <1>1, <1>2, <1>10, UpdatesAssumption
  <2>2. coord' \in Coords /\ coord'.state = "broken" /\ (action = "none" => coord'.restart)
    BY <1>10 DEF Broken, CUInv, CUTypeOK, Coords
  <2>3. pending' \in Cleanups \cup {NoCleanup} /\ pending'.action # "rollback" /\ disk' \in Bundles
    BY <1>5, <1>10 DEF Broken, CUInv, CUTypeOK, LiveJobs, Cleanups, NoCleanup, Bundles, Contents
  <2>4. CUTypeOK' /\ RestartBroken'
    BY <1>1, <1>3, <1>10, <2>2, <2>3 DEF CUInv, CUTypeOK, RestartBroken, Moved
  <2>5. Section(u)'
    BY <1>3, <2>1, FreeSection DEF Moved
  <2>6. FilesRight'
    BY <1>1, <1>7, <1>10, <2>2, <2>3, FilesStep
  <2> QED BY <1>1, <1>3, <1>4, <1>6, <2>4, <2>5, <2>6, SectionStep DEF Moved
<1> QED BY <1>8, <1>9, <1>10 DEF Gateway, WriteFile

\* Undo puts the loaded content back over the candidate of its own save, or
\* leaves a rollback that would (_resolve_failed_transaction).
LEMMA UndoKeeps ==
  ASSUME CUInv, NEW u \in Updaters, thread = u, job[u].at \in {"written", "publishing"}, job[u].kind # "resync",
         Undo(u), At(u, "discarding"), thread' = "free", backup' \in Backups,
         UNCHANGED <<generation, loaded, unresolved>>,
         byHand' = {g \in byHand : disk'[g] = disk[g]}
  PROVE CUInv'
<1> DEFINE f == job[u].source
<1>1. Moved(u, "discarding")
  BY AtMoves DEF Live, Sync, CUInv, CUTypeOK
<1>2. Turn(u)
  BY <1>1, UpdatesAssumption DEF Turn, Moved, Sync
<1>3. /\ job[u] \in LiveJobs /\ f \in Sources /\ ~coord.restart /\ SaveBase(u) /\ job[u].bundle = loaded
      /\ Unbound \subseteq {f} /\ Unbound' = {}
  BY <1>1, <1>2, InSection DEF Moved, Section, LiveJobs, BaseRight, SaveBase, Live, Sync
<1>4. job[u].seen[f] = loaded[f] /\ loaded[f] \in Contents
  BY <1>3 DEF SaveBase, CUInv, CUTypeOK, Bundles
<1>5. \A g \in Sources \ (byHand \cup {f}) : disk[g] = loaded[g]
  <2>1. CASE job[u].at = "written"
    <3>1. pending = NoCleanup
      BY <2>1, <1>1, <1>2, InSection DEF Section, Sync, Moved
    <3> QED BY <1>3, <3>1 DEF CUInv, FilesRight, NoCleanup
  <2>2. CASE job[u].at = "publishing"
    <3>1. pending = Owed(u)
      BY <2>2, <1>1, <1>2, InSection DEF Section, Sync, Moved
    <3>2. pending.action = "rollback" /\ pending.source = f
      BY <3>1 DEF Owed
    <3> QED BY <1>3, <3>2 DEF CUInv, FilesRight
  <2> QED BY <2>1, <2>2
<1>6. BaseRight(u)' /\ Section(u)'
  BY <1>1, FreeSection, BaseKept DEF Moved, CUInv, Sections, Live, Sync
<1>7. byHand' \in SUBSET Sources /\ failures' \in Nat
  BY DEF Undo, Fails, CUInv, CUTypeOK
<1>8. CASE /\ disk' = [disk EXCEPT ![f] = job[u].seen[f]] /\ pending' = NoCleanup /\ UNCHANGED coord
  <2>1. CUTypeOK' /\ RestartBroken'
    BY <1>1, <1>3, <1>4, <1>7, <1>8 DEF CUInv, CUTypeOK, RestartBroken, Moved, Bundles
  <2>2. \A g \in Sources \ (byHand' \cup Unbound') : disk'[g] = loaded'[g]
    BY <1>3, <1>4, <1>5, <1>8 DEF CUInv, CUTypeOK, Bundles
  <2>3. FilesRight'
    BY <1>8, <2>2, FilesStep DEF NoCleanup
  <2> QED BY <1>1, <1>2, <1>6, <2>1, <2>3, SectionStep DEF Moved
<1>9. CASE Broken(u, "rollback") /\ UNCHANGED disk
  <2>1. coord' \in Coords /\ coord'.state = "broken"
    BY <1>9 DEF Broken, CUInv, CUTypeOK, Coords
  <2>2. pending' = Owed(u) /\ Owed(u) \in Cleanups
    BY <1>3, <1>4, <1>9 DEF Broken, Owed, Cleanups
  <2>3. CUTypeOK' /\ RestartBroken'
    BY <1>1, <1>7, <1>9, <2>1, <2>2 DEF CUInv, CUTypeOK, RestartBroken, Moved
  <2>4. /\ pending'.action = "rollback" /\ pending'.source = f /\ pending'.old = loaded[f]
    BY <1>4, <2>2 DEF Owed
  <2>5. FilesRight'
    BY <1>5, <1>9, <2>4 DEF FilesRight
  <2> QED BY <1>1, <1>2, <1>6, <2>3, <2>5, SectionStep DEF Moved
<1> QED BY <1>8, <1>9 DEF Undo

\* BindPersisted owes the rollback of what it recaptured, or undoes it.
LEMMA BindKeeps ==
  ASSUME CUInv, NEW u \in Updaters, Gateway(BindPersisted(u))
  PROVE CUInv'
<1> DEFINE f == job[u].source
<1>1. /\ thread = u /\ job[u].at = "written" /\ job[u].at \in Live /\ job[u].at \in Sync
      /\ backup' \in Backups /\ UNCHANGED <<generation, loaded, unresolved>> /\ unresolved' \in Nat
      /\ byHand' = {g \in byHand : disk'[g] = disk[g]} /\ byHand' \in SUBSET Sources /\ JobsOK
  BY DEF Gateway, BindPersisted, CUInv, CUTypeOK, Live, Sync, AbortBackup, Backups
<1>2. job[u] \in LiveJobs /\ BaseRight(u) /\ ~coord.restart /\ SaveBase(u)
  <2>1. Section(u) /\ BaseRight(u)
    BY DEF CUInv, Sections
  <2> QED BY <1>1, <2>1, LiveRecord DEF Section
<1>3. CASE /\ disk = Candidate(u) /\ pending' = Owed(u) /\ At(u, "publishing")
           /\ UNCHANGED <<disk, thread, coord, failures>>
  <2>1. Moved(u, "publishing") /\ job'[u].seen = job[u].seen
    BY <1>1, <1>3, AtMoves DEF Live, Sync
  <2>2. Turn(u)
    BY <1>1, <1>3, <2>1 DEF Turn, Moved, Sync
  <2>3. job[u].bundle = loaded /\ f \in Sources /\ job[u].seen[f] = loaded[f] /\ loaded[f] \in Contents
    BY <1>1, <1>2 DEF BaseRight, SaveBase, LiveJobs, CUInv, CUTypeOK, Bundles
  <2>4. Owed(u) \in Cleanups /\ Owed(u)' = Owed(u) /\ Candidate(u)' = Candidate(u)
    BY <2>1, <2>3 DEF Owed, Cleanups, Moved, SameRequest, Candidate
  <2>5. CUTypeOK' /\ RestartBroken'
    BY <1>1, <1>3, <2>1, <2>4 DEF CUInv, CUTypeOK, RestartBroken, Moved
  <2>6. BaseRight(u)'
    BY <1>1, <2>1, BaseKept DEF CUInv, Sections, Moved
  <2>7. Section(u)'
    <3>1. /\ SaveBase(u)' /\ ~coord'.restart /\ pending' = Owed(u)'
          /\ job'[u].kind # "resync" /\ job'[u].base = generation'
      BY <1>1, <1>2, <1>3, <2>1, <2>4 DEF SaveBase, Moved, SameRequest
    <3>2. Holds(Candidate(u))'
      BY <1>3, <2>4 DEF Holds
    <3> QED BY <2>1, <3>1, <3>2 DEF Section, Moved
  <2>8. FilesRight'
    <3>1. pending'.action = "rollback" /\ pending'.source = f /\ pending'.old = loaded[f]
      BY <1>3, <2>3 DEF Owed
    <3>2. \A g \in Sources \ {f} : disk'[g] = loaded'[g]
      BY <1>1, <1>2, <1>3, <2>3 DEF Candidate, SaveBase, CUInv, CUTypeOK, Bundles
    <3> QED BY <1>1, <3>1, <3>2 DEF FilesRight
  <2> QED BY <1>1, <2>1, <2>2, <2>5, <2>6, <2>7, <2>8, SectionStep DEF Moved
<1>4. CASE Undo(u) /\ thread' = "free" /\ At(u, "discarding")
  BY <1>1, <1>2, <1>4, UndoKeeps DEF SaveBase
<1> QED BY <1>3, <1>4 DEF Gateway, BindPersisted, Owed

\* Publish makes the candidate of the active base the next generation.
LEMMA PublishKeeps ==
  ASSUME CUInv, NEW u \in Updaters, Gateway(Publish(u))
  PROVE CUInv'
<1>1. /\ thread = u /\ job[u].at = "publishing" /\ job[u].at \in Live /\ job[u].at \in Sync /\ unresolved' = unresolved
      /\ byHand' = {g \in byHand : disk'[g] = disk[g]} /\ JobsOK /\ failures' \in Nat
  BY DEF Gateway, Publish, Fails, Undo, CUInv, CUTypeOK, Live, Sync
<1>2. job[u] \in LiveJobs /\ BaseRight(u) /\ Section(u)
  BY <1>1, LiveRecord DEF CUInv, Sections
<1>3. /\ ~coord.restart /\ job[u].base = generation /\ generation \in Nat
      /\ Holds(Candidate(u)) /\ Candidate(u) \in Bundles
  BY <1>1, <1>2 DEF Section, Candidate, LiveJobs, Bundles, Contents, CUInv, CUTypeOK
<1>4. Promoted(u) \in Cleanups \cup {NoCleanup} /\ Promoted(u).action # "rollback"
      /\ (job[u].kind # "resync" => Promoted(u).action = "finalize")
  <2>1. CASE job[u].kind = "resync"
    BY <1>1, <1>2, <2>1 DEF Promoted, Section, NoCleanup
  <2>2. CASE job[u].kind # "resync"
    <3>1. pending = Owed(u) /\ Owed(u) \in Cleanups
      BY <1>1, <1>2, <2>2 DEF Section, Owed, LiveJobs, Cleanups, Bundles
    <3> QED BY <2>2, <3>1 DEF Promoted, Cleanups
  <2> QED BY <2>1, <2>2
<1>5. CASE /\ At(u, "discarding") /\ thread' = "free" /\ UNCHANGED <<generation, loaded>>
           /\ \/ UNCHANGED <<disk, coord, pending, backup>>
              \/ job[u].kind # "resync" /\ Undo(u) /\ backup' \in Backups
  <2>1. Moved(u, "discarding")
    BY <1>1, <1>5, AtMoves DEF Live
  <2>2. Turn(u)
    BY <1>1, <1>5, <2>1, UpdatesAssumption DEF Turn, Moved, Sync
  <2>3. CASE UNCHANGED <<disk, coord, pending, backup>>
    BY <1>1, <1>5, <2>1, <2>2, <2>3, QuietMove DEF CUInv, CUTypeOK, Live
  <2>4. CASE job[u].kind # "resync" /\ Undo(u) /\ backup' \in Backups
    BY <1>1, <1>5, <2>4, UndoKeeps
  <2> QED BY <1>5, <2>3, <2>4
<1>6. ASSUME NEW where \in {"published", "done"}, 
             pending' = Promoted(u), backup' \in Backups, disk' = disk, JobsOK', Others(u),
             job'[u].at = where, where = "published" => SameRequest(u) /\ job[u].kind # "resync" /\ coord' = coord,
             Turn(u), coord' \in Coords, RestartBroken',
             \/ generation' = generation + 1 /\ loaded' = Candidate(u)
             \/ where = "done" /\ coord'.restart /\ UNCHANGED <<generation, loaded>>
      PROVE CUInv'
  <2>1. byHand' = byHand
    BY <1>1, <1>6, HandKept DEF CUInv
  <2>2. CUTypeOK'
    BY <1>1, <1>3, <1>4, <1>6, <2>1 DEF CUInv, CUTypeOK, Turn
  <2>3. BaseRight(u)'
    <3>1. CASE where = "published"
      BY <1>1, <1>3, <1>6, <3>1 DEF BaseRight, SameRequest
    <3>2. CASE where = "done"
      BY <1>6, <3>2 DEF BaseRight, Live, Sync
    <3> QED BY <3>1, <3>2
  <2>4. Section(u)'
    BY <1>3, <1>4, <1>6 DEF Section
  <2>5. FilesRight'
    BY <1>3, <1>4, <1>6, <2>1, FilesStep DEF Holds
  <2> QED BY <1>6, <2>2, <2>3, <2>4, <2>5, SectionStep
<1>7. backup' \in Backups
  BY DEF Gateway, Publish, AbortBackup, Backups, CUInv, CUTypeOK
<1>8. CASE At(u, "published") /\ thread' = thread /\ job[u].kind # "resync" /\ UNCHANGED <<coord, disk>>
           /\ generation' = generation + 1 /\ loaded' = Candidate(u) /\ pending' = Promoted(u)
  <2>1. Moved(u, "published")
    BY <1>1, <1>8, AtMoves DEF Live, Sync
  <2>2. Turn(u) /\ coord' \in Coords /\ RestartBroken'
    BY <1>1, <1>8, <2>1 DEF Turn, Moved, Sync, CUInv, CUTypeOK, RestartBroken
  <2> QED BY <1>6, <1>7, <1>8, <2>1, <2>2 DEF Moved
<1>9. CASE /\ FinishUpdate(u) /\ thread' = "free" /\ pending' = Promoted(u) /\ disk' = disk
           /\ \/ generation' = generation + 1 /\ loaded' = Candidate(u) /\ coord' = coord
              \/ coord' = [coord EXCEPT !.state = "broken", !.restart = TRUE] /\ UNCHANGED <<generation, loaded>>
              \/ /\ coord' = [coord EXCEPT !.state = "broken", !.restart = TRUE]
                 /\ generation' = generation + 1 /\ loaded' = Candidate(u)
  <2>1. Ended(u)
    BY <1>1, <1>9, FinishEnds
  <2>2. Turn(u)
    BY <1>1, <1>9, <2>1, UpdatesAssumption DEF Turn, Ended, Sync
  <2>3. /\ coord' \in Coords /\ RestartBroken'
        /\ coord' = [coord EXCEPT !.state = "broken", !.restart = TRUE] => coord'.restart
    BY <1>9 DEF CUInv, CUTypeOK, RestartBroken, Coords
  <2> QED BY <1>6, <1>7, <1>9, <2>1, <2>2, <2>3 DEF Ended
<1> QED BY <1>5, <1>7, <1>8, <1>9 DEF Gateway, Publish

\* PublishBackup and FinalizeFile settle what a published save still owes.
LEMMA FinalizeKeeps ==
  ASSUME CUInv, NEW u \in Updaters, Gateway(PublishBackup(u)) \/ Gateway(FinalizeFile(u))
  PROVE CUInv'
<1>1. /\ thread = u /\ job[u].at \in {"published", "finalizing"} /\ job[u].at \in Live /\ job[u].at \in Sync
      /\ UNCHANGED <<disk, generation, loaded, coord, unresolved>> /\ failures' \in Nat /\ backup' \in Backups
      /\ byHand' = byHand /\ JobsOK
  BY HandKept DEF Gateway, PublishBackup, FinalizeFile, Fails, CUInv, CUTypeOK, Live, Sync, Backups
<1>2. pending.action = "finalize" /\ ~coord.restart
  BY <1>1 DEF CUInv, Sections, Section
<1>3. pending' \in {pending, NoCleanup} /\ pending'.action # "rollback"
  BY <1>2 DEF Gateway, PublishBackup, FinalizeFile, NoCleanup
<1>4. ASSUME Others(u), Turn(u), JobsOK', job'[u].at \in {"finalizing", "done"}, BaseRight(u)', Section(u)'
      PROVE CUInv'
  <2>1. CUTypeOK' /\ RestartBroken'
    BY <1>1, <1>3, <1>4 DEF CUInv, CUTypeOK, RestartBroken, Turn
  <2>2. Unbound = {}
    BY <1>1, <1>4, InSection
  <2>3. FilesRight'
    BY <1>1, <1>2, <1>3, <2>2, FilesStep DEF CUInv, FilesRight
  <2> QED BY <1>1, <1>4, <2>1, <2>3, SectionStep
<1>5. CASE PublishBackup(u)
  <2>1. Moved(u, "finalizing")
    BY <1>1, <1>5, AtMoves DEF PublishBackup, Live, Sync
  <2>2. Turn(u) /\ BaseRight(u)'
    BY <1>1, <1>5, <2>1, BaseKept DEF PublishBackup, Turn, Moved, Sync, CUInv, Sections
  <2>3. Section(u)'
    BY <1>1, <1>2, <1>5, <2>1 DEF PublishBackup, Moved, Section
  <2> QED BY <1>4, <2>1, <2>2, <2>3 DEF Moved
<1>6. CASE FinalizeFile(u)
  <2>1. Ended(u)
    BY <1>1, <1>6, FinishEnds DEF FinalizeFile
  <2>2. Turn(u) /\ BaseRight(u)' /\ Section(u)'
    BY <1>1, <1>6, <2>1, UpdatesAssumption DEF FinalizeFile, Turn, Ended, Sync, Live, BaseRight, Section
  <2> QED BY <1>4, <2>1, <2>2 DEF Ended
<1> QED BY <1>5, <1>6 DEF Gateway

-----------------------------------------------------------------------------
(* close, the runtime's cleanup and the operator.                          *)

\* With the lock free no file is unbound, and a close moves no request.
LEMMA FreeStep ==
  ASSUME CUInv, thread = "free", UNCHANGED <<thread, job, generation, loaded>>, CUTypeOK', RestartBroken',
         FilesRight'
  PROVE CUInv'
<1>1. \A u \in Updaters : job[u].at \notin Sync
  BY UpdatesAssumption DEF CUInv, SectionAlone
<1>2. SectionAlone' /\ Sections'
  BY <1>1 DEF CUInv, SectionAlone, Sections, BaseRight, Section, Sync
<1> QED BY <1>2 DEF CUInv

\* With the lock free the files are the loaded ones, unless a rollback is owed.
LEMMA FreeFiles ==
  ASSUME CUInv, thread = "free", ~coord.restart
  PROVE /\ Unbound = {}
        /\ pending.action # "rollback" => \A f \in Sources \ byHand : disk[f] = loaded[f]
<1>1. Unbound = {}
  BY UpdatesAssumption DEF CUInv, SectionAlone, Unbound, Sync
<1> QED BY <1>1 DEF CUInv, FilesRight

\* CallClose stops the admission and touches no file.
LEMMA CallCloseKeeps ==
  ASSUME CUInv, Gateway(CallClose)
  PROVE CUInv'
<1>1. /\ thread = "free" /\ UNCHANGED <<disk, generation, loaded, job, thread, pending, backup, unresolved, failures>>
      /\ byHand' = byHand
  BY HandKept DEF Gateway, CallClose, CUInv, CUTypeOK
<1>2. coord' \in Coords /\ coord'.restart = coord.restart /\ (coord.restart => coord'.state = coord.state)
  BY DEF Gateway, CallClose, CUInv, CUTypeOK, Coords
<1>3. CUTypeOK' /\ RestartBroken'
  BY <1>1, <1>2 DEF CUInv, CUTypeOK, JobsOK, RestartBroken
<1>4. Unbound' = Unbound
  BY <1>1 DEF Unbound
<1>5. FilesRight'
  BY <1>1, <1>2, <1>4 DEF CUInv, FilesRight
<1> QED BY <1>1, <1>3, <1>5, FreeStep

\* A close repairs what is owed, or keeps owing it; it never excuses a restart.
LEMMA CloseKeeps ==
  ASSUME CUInv, Gateway(CloseStep)
  PROVE CUInv'
<1>1. /\ thread = "free" /\ UNCHANGED <<generation, loaded, job, thread>>
      /\ byHand' = {f \in byHand : disk'[f] = disk[f]} /\ byHand' \in SUBSET Sources
  BY DEF Gateway, CloseStep, CUInv, CUTypeOK
<1>2. CloseUndo \/ CloseBackup \/ CloseFinalize \/ CloseGenerations
  BY DEF Gateway, CloseStep
<1>3. /\ coord' \in Coords /\ coord'.restart = coord.restart
      /\ RestartBroken'
  BY <1>2 DEF CUInv, CUTypeOK, Coords, RestartBroken, CloseEnd, Retryable,
              CloseUndo, CloseBackup, CloseFinalize, CloseGenerations
<1>4. /\ unresolved' \in Nat /\ failures' \in Nat /\ backup' \in Backups /\ pending' \in {pending, NoCleanup}
      /\ pending' \in Cleanups \cup {NoCleanup}
  BY <1>2 DEF CUInv, CUTypeOK, Backups, Fails, CloseUndo, CloseBackup, CloseFinalize, CloseGenerations
<1>5. Unbound = {} /\ Unbound' = {}
  <2>1. Unbound' = Unbound
    BY <1>1 DEF Unbound
  <2> QED BY <1>1, <2>1, UpdatesAssumption DEF CUInv, SectionAlone, Unbound, Sync
<1>6. ASSUME disk' = disk, pending' = pending \/ pending.action # "rollback"
      PROVE CUInv'
  <2>1. byHand' = byHand
    BY <1>1, <1>6, HandKept DEF CUInv
  <2>2. CUTypeOK'
    BY <1>1, <1>3, <1>4, <1>6 DEF CUInv, CUTypeOK, JobsOK
  <2>3. FilesRight'
    BY <1>1, <1>3, <1>4, <1>5, <1>6, <2>1 DEF CUInv, FilesRight, NoCleanup
  <2> QED BY <1>1, <1>3, <2>2, <2>3, FreeStep
<1>7. ASSUME pending.action = "rollback", pending' = NoCleanup, disk[pending.source] = pending.by,
             disk' = [disk EXCEPT ![pending.source] = pending.old], coord' = coord
      PROVE CUInv'
  <2>1. pending \in Cleanups
    BY <1>7 DEF CUInv, CUTypeOK, NoCleanup
  <2>2. pending.source \in Sources /\ pending.old \in Contents
    BY <2>1 DEF Cleanups
  <2>3. CUTypeOK'
    BY <1>1, <1>3, <1>4, <1>7, <2>2 DEF CUInv, CUTypeOK, JobsOK, Bundles
  <2>4. ~coord'.restart => \A f \in Sources \ (byHand' \cup Unbound') : disk'[f] = loaded'[f]
    BY <1>1, <1>5, <1>7, <2>2 DEF CUInv, CUTypeOK, FilesRight, Bundles
  <2>5. FilesRight'
    BY <1>7, <2>4, FilesStep DEF NoCleanup
  <2> QED BY <1>1, <1>3, <2>3, <2>5, FreeStep
<1>8. CASE CloseUndo
  BY <1>6, <1>7, <1>8 DEF CloseUndo
<1>9. CASE CloseBackup \/ CloseFinalize \/ CloseGenerations
  BY <1>6, <1>9 DEF CloseBackup, CloseFinalize, CloseGenerations, NoCleanup
<1> QED BY <1>2, <1>8, <1>9

\* The runtime's own cleanup touches no file and no request (ResolveCleanup).
LEMMA ResolveKeeps ==
  ASSUME CUInv, Gateway(ResolveCleanup)
  PROVE CUInv'
<1>1. /\ UNCHANGED <<disk, generation, loaded, job, thread, coord, pending, backup, failures>>
      /\ byHand' = byHand
  BY HandKept DEF Gateway, ResolveCleanup, CUInv, CUTypeOK
<1>2. CUTypeOK'
  BY <1>1 DEF CUInv, CUTypeOK, JobsOK, Gateway, ResolveCleanup
<1>3. SectionAlone' /\ RestartBroken'
  BY <1>1 DEF CUInv, SectionAlone, RestartBroken
<1>4. Sections'
  BY <1>1 DEF CUInv, Sections, BaseRight, Section, SaveBase, Owed, Holds, Candidate
<1>5. FilesRight'
  BY <1>1 DEF CUInv, FilesRight, Unbound
<1> QED BY <1>2, <1>3, <1>4, <1>5 DEF CUInv

\* A source the operator writes is his, whatever it held (OutsideEdit).
LEMMA EditKeeps ==
  ASSUME CUInv, OutsideEdit
  PROVE CUInv'
<1>1. PICK f \in Sources :
        /\ byHand' = byHand \cup {f} /\ disk' \in Bundles /\ \A g \in Sources \ {f} : disk'[g] = disk[g]
  BY DEF OutsideEdit, CUInv, CUTypeOK, Bundles, Contents
<1>2. UNCHANGED <<generation, loaded, job, thread, coord, pending, backup, unresolved, failures>>
  BY DEF OutsideEdit
<1>3. CUTypeOK'
  BY <1>1, <1>2 DEF CUInv, CUTypeOK, JobsOK
<1>4. SectionAlone' /\ RestartBroken'
  BY <1>2 DEF CUInv, SectionAlone, RestartBroken
<1>5. Sections'
  <2> SUFFICES ASSUME NEW u \in Updaters
               PROVE BaseRight(u)' /\ Section(u)'
    BY DEF Sections
  <2>1. BaseRight(u) /\ Section(u) /\ (job[u].at = "written" => job[u].source \in Sources)
    BY LiveRecord DEF CUInv, CUTypeOK, Sections, Live, Sync, LiveJobs
  <2>2. Candidate(u)' = Candidate(u) /\ Owed(u)' = Owed(u) /\ SaveBase(u)' = SaveBase(u)
    BY <1>2 DEF Candidate, Owed, SaveBase
  <2>3. Holds(Candidate(u)) => Holds(Candidate(u))'
    BY <1>1, <2>2 DEF Holds
  <2>4. job[u].at = "written" => disk'[job[u].source] = u \/ job[u].source \in byHand'
    BY <1>1, <2>1 DEF Section
  <2> QED BY <1>2, <2>1, <2>2, <2>3, <2>4 DEF BaseRight, Section
<1>6. FilesRight'
  <2>1. Unbound' = Unbound
    BY <1>2 DEF Unbound
  <2> QED BY <1>1, <1>2, <2>1 DEF CUInv, FilesRight
<1> QED BY <1>3, <1>4, <1>5, <1>6 DEF CUInv

-----------------------------------------------------------------------------
(* Theorems.                                                               *)

\* Before the first request nothing is owed and the files are the loaded ones.
LEMMA UpdatesInit == CUInit => CUInv
<1> SUFFICES ASSUME CUInit
             PROVE CUInv
  OBVIOUS
<1>1. \A u \in Updaters : job[u] = Away
  BY DEF CUInit
<1>2. CUTypeOK /\ RestartBroken
  BY UpdatesAssumption DEF CUInit, CUTypeOK, RestartBroken, Bundles, Contents, JobsOK, NoJobs, Away, Coords, Backups
<1>3. SectionAlone /\ Sections /\ FilesRight
  BY <1>1, UpdatesAssumption DEF CUInit, SectionAlone, Sections, BaseRight, Section, FilesRight,
                                 Away, NoCleanup, Live, Sync
<1> QED BY <1>2, <1>3 DEF CUInv

\* Every step of the requests, the close, the runtime and the operator keeps it (CUNext).
LEMMA UpdatesStep == CUInv /\ [CUNext]_cuvars => CUInv'
<1> SUFFICES ASSUME CUInv, [CUNext]_cuvars
             PROVE CUInv'
  OBVIOUS
<1>1. ASSUME NEW u \in Updaters, Gateway(UpdateStep(u))
      PROVE CUInv'
  BY <1>1, CaptureKeeps, AdmitKeeps, BuildKeeps, DiscardKeeps, PrecheckKeeps, WriteKeeps, BindKeeps,
     PublishKeeps, FinalizeKeeps DEF UpdateStep, Gateway
<1>2. CASE UNCHANGED cuvars
  <2>1. CUTypeOK' /\ SectionAlone' /\ RestartBroken' /\ FilesRight'
    BY <1>2 DEF cuvars, CUInv, CUTypeOK, JobsOK, SectionAlone, RestartBroken, FilesRight, Unbound
  <2>2. Sections'
    BY <1>2 DEF cuvars, CUInv, Sections, BaseRight, Section, SaveBase, Owed, Holds, Candidate
  <2> QED BY <2>1, <2>2 DEF CUInv
<1> QED BY <1>1, <1>2, CallCloseKeeps, CloseKeeps, ResolveKeeps, EditKeeps DEF CUNext

\* The invariant the two properties rest on: the base of every save in the
\* commit section is active, and the files it has not yet bound are the loaded
\* ones or have their rollback owed (_validate_commit_preconditions,
\* _resolve_failed_transaction).
THEOREM UpdatesInvariant == CUSpec => []CUInv
<1> QED BY UpdatesInit, UpdatesStep, PTL DEF CUSpec

\* What the gateway left in a file is what it serves, whichever step of a save
\* failed and wherever the operator edited, for any number of requests.
THEOREM FilesAlwaysMatch == CUSpec => []FileMatchesRuntime
<1>1. CUInv => FileMatchesRuntime
  <2> SUFFICES ASSUME CUInv, thread = "free", pending = NoCleanup, ~coord.restart
               PROVE \A f \in Sources \ byHand : disk[f] = loaded[f]
    BY DEF FileMatchesRuntime
  <2> QED BY FreeFiles DEF NoCleanup
<1> QED BY <1>1, UpdatesInvariant, PTL

\* A publication changes a source the operator did not write only for the
\* request that saved it over the content that was loaded (Publish).
Publishes ==
  generation' # generation =>
    \E u \in Updaters :
      /\ thread = u
      /\ \A f \in Sources \ byHand :
           \/ loaded'[f] = loaded[f]
           \/ /\ job[u].kind # "resync" /\ f = job[u].source
              /\ job[u].bundle[f] = loaded[f]

\* No published save is undone by one built on an older base, in any order of
\* any requests (validate_publish, _validate_commit_preconditions).
THEOREM NoUpdateIsLost == CUSpec => NoLostUpdate
<1>1. CUInv /\ [CUNext]_cuvars => [Publishes]_cuvars
  <2> SUFFICES ASSUME CUInv, CUNext, generation' # generation
               PROVE Publishes
    BY DEF Publishes
  <2>1. PICK u \in Updaters : Publish(u)
    BY DEF CUNext, Gateway, UpdateStep, CaptureBase, Admit, Build, CancelWaiting, Discard, CommitLock,
           Precheck, WriteFile, BindPersisted, PublishBackup, FinalizeFile, CallClose, CloseStep,
           ResolveCleanup, OutsideEdit
  <2>2. thread = u /\ job[u].at = "publishing" /\ loaded' = Candidate(u)
    BY <2>1 DEF Publish, Undo
  <2>3. job[u] \in LiveJobs /\ BaseRight(u) /\ Section(u) /\ SectionAlone
    BY <2>2, LiveRecord DEF CUInv, CUTypeOK, Sections, Live, Sync
  <2>4. ~coord.restart /\ job[u].bundle = loaded /\ Holds(Candidate(u))
    BY <2>2, <2>3 DEF BaseRight, Section, Live, Sync
  <2>5. CASE job[u].kind # "resync"
    <3>1. \A f \in Sources : f # job[u].source => loaded'[f] = loaded[f]
      BY <2>2, <2>3, <2>4, <2>5 DEF Candidate, CUInv, CUTypeOK, Bundles
    <3> QED BY <2>2, <2>4, <2>5, <3>1 DEF Publishes
  <2>6. CASE job[u].kind = "resync"
    <3>1. pending = NoCleanup
      BY <2>2, <2>3, <2>6 DEF Section
    <3>2. Unbound = {}
      BY <2>2, <2>3 DEF SectionAlone, Unbound, Sync
    <3>3. \A f \in Sources \ byHand : disk[f] = loaded[f] /\ disk[f] = loaded'[f]
      BY <2>2, <2>4, <3>1, <3>2 DEF CUInv, FilesRight, NoCleanup, Holds
    <3> QED BY <2>2, <3>3 DEF Publishes
  <2> QED BY <2>5, <2>6
<1>2. CUSpec => [][Publishes]_cuvars
  BY <1>1, UpdatesInvariant, PTL DEF CUSpec
<1> QED BY <1>2 DEF NoLostUpdate, Publishes

-----------------------------------------------------------------------------
(* The runner of the research processes.                                   *)

Early == {"new", "admit", "granted", "admitted", "slot"}
Pcs == Early \cup {"boot", "serve", "unwind", "finish", "final", "over"}
Cleans == {"none", "term", "kill", "group", "groupkill", "closed", "failed"}
Frames == {"ready", "call", "result", "error"}
Outs == Frames \cup {"none", "closed", "timeout", "cancelled"}
Calls == [pc : Pcs, slot : BOOLEAN, reg : BOOLEAN, owned : BOOLEAN, ready : BOOLEAN, handling : Nat, unwinding : Nat,
          clean : Cleans, pg : BOOLEAN, out : Outs]
Sigs == {"none", "term", "kill"}
Processes == [st : {"none", "boot", "ready", "job", "dead"}, sig : Sigs, group : BOOLEAN, groupsig : Sigs,
              pipe : Seq(Frames), asked : Nat]
RRState == [state : {"running", "closing", "closed"}, free : Nat, close : {"none", "owners", "drain", "done"},
            snapshot : SUBSET Runs, run : [Runs -> Calls], proc : [Runs -> Processes]]

Holding(u) == u.slot \/ u.pc \in {"granted", "admitted"}
Doomed(p) == Alive(p) => p.sig = "kill"
GroupDoomed(p) == p.group => p.groupsig = "kill"
CallOK(u) ==
  /\ u.pc \in {"new", "admit", "granted", "admitted", "over"} => ~u.slot
  /\ u.pc \in Early \cup {"over"} => ~u.owned
  /\ u.pc \in {"boot", "serve", "unwind", "finish"} => u.owned
  /\ u.reg <=> u.pc \notin {"new", "over"}
  /\ u.handling # 0 => u.pc = "serve"
  /\ u.pc \in {"finish", "final"} /\ u.owned => u.clean # "none"
  /\ u.pc = "final" /\ u.owned => u.clean \in {"closed", "failed"}
  /\ u.pc = "over" => u.clean \in {"none", "closed", "failed"}
ProcessOK(u, p) ==
  /\ u.pc # "over" /\ ~u.owned => p.st = "none" /\ p.sig = "none" /\ ~p.group /\ u.clean = "none"
  /\ u.pc # "over" /\ (p.st = "job" \/ p.group) => u.ready /\ (u.clean = "none" \/ u.pg)
  /\ u.pc # "over" /\ Alive(p) => (u.clean = "none" <=> p.sig = "none")
  /\ u.clean \in {"kill", "failed"} \/ u.pc = "over" => Doomed(p) /\ GroupDoomed(p)
  /\ u.clean \in {"group", "groupkill", "closed"} => ~Alive(p)
  /\ u.clean = "groupkill" => GroupDoomed(p)
  /\ u.clean = "closed" => ~p.group
RunnerOK ==
  /\ rr.state = "running" <=> rr.close = "none"
  /\ rr.state = "closed" => rr.close = "done" /\ \A r \in Runs : rr.run[r].pc \in {"new", "over"}
  /\ rr.state # "running" => \A r \in Runs \ rr.snapshot : Doomed(rr.proc[r])
  /\ rr.close \in {"drain", "done"} => \A r \in Runs : Doomed(rr.proc[r])
  /\ \A r \in rr.snapshot : rr.run[r].clean # "none"
SlotsOK == rr.free + Cardinality({r \in Runs : Holding(rr.run[r])}) = Capacity
RunOK(u, p) == u \in Calls /\ p \in Processes /\ CallOK(u) /\ ProcessOK(u, p)
RRInv == rr \in RRState /\ RunnerOK /\ SlotsOK /\ \A r \in Runs : RunOK(rr.run[r], rr.proc[r])

-----------------------------------------------------------------------------
(* The state after a step of one run.                                      *)

Put(c, f, r, u, p) ==
  [state |-> c.state, free |-> f, close |-> c.close, snapshot |-> c.snapshot,
   run |-> [c.run EXCEPT ![r] = u], proc |-> [c.proc EXCEPT ![r] = p]]

FinishedCall(u) == IF u.clean # "none" THEN u ELSE [u EXCEPT !.clean = "term", !.pg = u.ready]
FinishedProcess(u, p) == IF u.clean # "none" THEN p ELSE Signal(p, u.ready, "term")
Ending(c, r, out) == [c EXCEPT !.run[r].pc = "finish", !.run[r].out = out]
EndedCall(u, out) == [u EXCEPT !.pc = "finish", !.out = out]
LeftCall(u, out) == IF u.owned THEN EndedCall(FinishedCall(u), out)
                    ELSE [u EXCEPT !.pc = "final", !.out = out]
LeftProcess(u, p) == IF u.owned THEN FinishedProcess(u, p) ELSE p
UnwoundCall(u, out) == IF u.handling = 0 THEN LeftCall(u, out)
                       ELSE [u EXCEPT !.pc = "unwind", !.out = out, !.unwinding = u.handling, !.handling = 0]
UnwoundProcess(u, p) == IF u.handling = 0 THEN LeftProcess(u, p) ELSE p

\* A record put in its place is read back, and a later one replaces it.
LEMMA PutFields ==
  ASSUME NEW c \in RRState, NEW f \in Nat, NEW r \in Runs, NEW u \in Calls, NEW p \in Processes
  PROVE /\ Put(c, f, r, u, p) \in RRState
        /\ Put(c, f, r, u, p).run[r] = u /\ Put(c, f, r, u, p).proc[r] = p /\ Put(c, f, r, u, p).free = f
        /\ \A g, v, q : Put(Put(c, f, r, u, p), g, r, v, q) = Put(c, g, r, v, q)
<1>1. Put(c, f, r, u, p) \in RRState
  BY DEF RRState, Put
<1>2. Put(c, f, r, u, p).run[r] = u /\ Put(c, f, r, u, p).proc[r] = p /\ Put(c, f, r, u, p).free = f
  BY DEF RRState, Put
<1>3. \A g, v, q : Put(Put(c, f, r, u, p), g, r, v, q) = Put(c, g, r, v, q)
  <2> TAKE g, v, q
  <2>1. [[c.run EXCEPT ![r] = u] EXCEPT ![r] = v] = [c.run EXCEPT ![r] = v]
    BY DEF RRState
  <2>2. [[c.proc EXCEPT ![r] = p] EXCEPT ![r] = q] = [c.proc EXCEPT ![r] = q]
    BY DEF RRState
  <2> QED BY <2>1, <2>2 DEF Put
<1> QED BY <1>1, <1>2, <1>3

\* The records a step leaves are of their types (Signal, Finish).
LEMMA FinishTyped ==
  ASSUME NEW u \in Calls, NEW p \in Processes
  PROVE /\ FinishedCall(u) \in Calls /\ FinishedProcess(u, p) \in Processes
        /\ \A ready \in BOOLEAN : Signal(p, ready, "kill") \in Processes
<1>1. FinishedCall(u) \in Calls
  BY DEF FinishedCall, Calls, Cleans
<1>2. ASSUME NEW sig \in Sigs, NEW ready \in BOOLEAN
      PROVE Signal(p, ready, sig) \in Processes
  <2>1. CASE ready
    BY <2>1 DEF Signal, Processes
  <2>2. CASE ~ready
    BY <2>2 DEF Signal, Processes
  <2> QED BY <2>1, <2>2
<1>3. "term" \in Sigs /\ "kill" \in Sigs /\ u.ready \in BOOLEAN
  BY DEF Sigs, Calls
<1> QED BY <1>1, <1>2, <1>3 DEF FinishedProcess

\* A run that ends, in its record (Leave).
LEMMA PutEnd ==
  ASSUME NEW c \in RRState, NEW r \in Runs, NEW out
  PROVE Ending(c, r, out) = Put(c, c.free, r, EndedCall(c.run[r], out), c.proc[r])
<1>1. c.proc = [c.proc EXCEPT ![r] = c.proc[r]]
  BY DEF RRState
<1> DEFINE u == [c.run[r] EXCEPT !.pc = "finish", !.out = out]
<1>2. [c EXCEPT !.run[r].pc = "finish", !.run[r].out = out] = [c EXCEPT !.run = [c.run EXCEPT ![r] = u]]
  BY DEF RRState
<1> HIDE DEF u
<1>3. [c EXCEPT !.run = [c.run EXCEPT ![r] = u]] = Put(c, c.free, r, u, c.proc[r])
  BY <1>1 DEF RRState, Put
<1> QED BY <1>2, <1>3 DEF u, EndedCall, Ending

\* Finish, field by field.
LEMMA FinishIs ==
  ASSUME NEW c \in RRState, NEW r \in Runs
  PROVE Finish(c, r) = Put(c, c.free, r, FinishedCall(c.run[r]), FinishedProcess(c.run[r], c.proc[r]))
BY DEF RRState, Finish, Put, FinishedCall, FinishedProcess

\* Leave, field by field.
LEMMA LeaveIs ==
  ASSUME NEW c \in RRState, NEW r \in Runs, NEW out
  PROVE Leave(c, r, out) = Put(c, c.free, r, LeftCall(c.run[r], out), LeftProcess(c.run[r], c.proc[r]))
<1>1. CASE c.run[r].owned
  <2> DEFINE u == FinishedCall(c.run[r])
             p == FinishedProcess(c.run[r], c.proc[r])
  <2>1. Finish(c, r) = Put(c, c.free, r, u, p)
    BY FinishIs
  <2>2. u \in Calls /\ p \in Processes /\ c.free \in Nat
    BY FinishTyped DEF RRState
  <2> HIDE DEF u, p
  <2> DEFINE d == Put(c, c.free, r, u, p)
  <2>3. /\ Finish(c, r) = d /\ d \in RRState /\ d.run[r] = u /\ d.proc[r] = p /\ d.free = c.free
        /\ \A g, v, q : Put(d, g, r, v, q) = Put(c, g, r, v, q)
    BY <2>1, <2>2, PutFields
  <2> HIDE DEF d
  <2>4. Ending(d, r, out) = Put(c, c.free, r, EndedCall(u, out), p)
    BY <2>3, PutEnd
  <2>5. Leave(c, r, out) = Ending(d, r, out)
    BY <1>1, <2>3 DEF Leave, Ending
  <2>6. LeftCall(c.run[r], out) = EndedCall(u, out) /\ LeftProcess(c.run[r], c.proc[r]) = p
    BY <1>1 DEF LeftCall, LeftProcess, u, p
  <2> QED BY <2>4, <2>5, <2>6
<1>2. CASE ~c.run[r].owned
  BY <1>2 DEF RRState, Put, Leave, LeftCall, LeftProcess
<1> QED BY <1>1, <1>2

\* EndServe, field by field.
LEMMA EndServeIs ==
  ASSUME NEW c \in RRState, NEW r \in Runs, NEW out
  PROVE EndServe(c, r, out) = Put(c, c.free, r, UnwoundCall(c.run[r], out), UnwoundProcess(c.run[r], c.proc[r]))
<1>1. CASE c.run[r].handling = 0
  BY <1>1, LeaveIs DEF EndServe, UnwoundCall, UnwoundProcess
<1>2. CASE c.run[r].handling # 0
  BY <1>2 DEF RRState, Put, EndServe, UnwoundCall, UnwoundProcess
<1> QED BY <1>1, <1>2

-----------------------------------------------------------------------------
(* What a step of one run may change.                                      *)

SlotsMove(f, u, v) ==
  \/ f = rr.free /\ (Holding(v) <=> Holding(u))
  \/ f = rr.free - 1 /\ Holding(v) /\ ~Holding(u)
  \/ f = rr.free + 1 /\ ~Holding(v) /\ Holding(u)
Allowed(f, u, p, v, q) ==
  /\ f \in Nat /\ RunOK(v, q) /\ SlotsMove(f, u, v)
  /\ u.clean # "none" => v.clean # "none"
  /\ rr.state # "running" => (Doomed(p) => Doomed(q))
  /\ u.pc \in {"new", "over"} /\ rr.state = "closed" => v.pc \in {"new", "over"}

\* The slots are counted by who holds them, and one run moves one slot.
LEMMA SlotsStep ==
  ASSUME RRInv, NEW r \in Runs, NEW f \in Nat, NEW v \in Calls, NEW q \in Processes,
         SlotsMove(f, rr.run[r], v), rr' = Put(rr, f, r, v, q)
  PROVE SlotsOK'
<1> DEFINE S == {s \in Runs : Holding(rr.run[s])}
           T == {s \in Runs : Holding(rr'.run[s])}
<1>1. S \subseteq Runs /\ IsFiniteSet(S) /\ IsFiniteSet(T) /\ Cardinality(S) \in Nat /\ Cardinality(T) \in Nat
  BY RunnerAssumption, FS_Subset, FS_CardinalityType
<1>2. rr.free + Cardinality(S) = Capacity /\ rr.free \in Nat
  BY DEF RRInv, SlotsOK, RRState
<1>3. rr'.free = f /\ rr'.run[r] = v /\ \A s \in Runs \ {r} : rr'.run[s] = rr.run[s]
  BY DEF RRInv, RRState, Put
<1>4. CASE f = rr.free /\ (Holding(v) <=> Holding(rr.run[r]))
  <2>1. T = S
    BY <1>3, <1>4
  <2> QED BY <1>2, <1>3, <1>4, <2>1 DEF SlotsOK
<1>5. CASE f = rr.free - 1 /\ Holding(v) /\ ~Holding(rr.run[r])
  <2>1. T = S \cup {r} /\ r \notin S
    BY <1>3, <1>5
  <2>2. Cardinality(T) = Cardinality(S) + 1
    <3> HIDE DEF S, T
    <3> QED BY <1>1, <2>1, FS_AddElement
  <2> QED BY <1>1, <1>2, <1>3, <1>5, <2>2 DEF SlotsOK
<1>6. CASE f = rr.free + 1 /\ ~Holding(v) /\ Holding(rr.run[r])
  <2>1. T = S \ {r} /\ r \in S
    BY <1>3, <1>6
  <2>2. Cardinality(T) = Cardinality(S) - 1
    <3> HIDE DEF S, T
    <3> QED BY <1>1, <2>1, FS_RemoveElement
  <2> QED BY <1>1, <1>2, <1>3, <1>6, <2>2 DEF SlotsOK
<1> QED BY <1>4, <1>5, <1>6 DEF SlotsMove

\* A step of one run keeps the invariant when its own records are right.
LEMMA RunnerStep ==
  ASSUME RRInv, NEW r \in Runs, NEW f, NEW v, NEW q,
         Allowed(f, rr.run[r], rr.proc[r], v, q), rr' = Put(rr, f, r, v, q)
  PROVE RRInv'
<1>1. f \in Nat /\ v \in Calls /\ q \in Processes /\ RunOK(v, q)
  BY DEF Allowed, RunOK
<1>2. rr' \in RRState /\ SlotsOK'
  BY <1>1, PutFields, SlotsStep DEF Allowed, RRInv
<1>3. /\ rr'.state = rr.state /\ rr'.close = rr.close /\ rr'.snapshot = rr.snapshot
      /\ rr'.run[r] = v /\ rr'.proc[r] = q
      /\ \A s \in Runs \ {r} : rr'.run[s] = rr.run[s] /\ rr'.proc[s] = rr.proc[s]
  BY <1>1 DEF RRInv, RRState, Put
<1>4. RunnerOK'
  <2>1. rr.snapshot \subseteq Runs
    BY DEF RRInv, RRState
  <2> QED BY <1>3, <2>1 DEF RRInv, RunnerOK, Allowed
<1>5. \A s \in Runs : RunOK(rr'.run[s], rr'.proc[s])
  BY <1>1, <1>3 DEF RRInv
<1> QED BY <1>2, <1>4, <1>5 DEF RRInv

\* The first signal of a cleanup reaches a process that is alive (Signal).
LEMMA FinishedSignal ==
  ASSUME NEW p \in Processes, NEW ready \in BOOLEAN, NEW sig \in Sigs
  PROVE LET q == Signal(p, ready, sig) IN
        /\ q \in Processes /\ q.st = p.st /\ q.group = p.group /\ (Alive(q) => q.sig = sig)
        /\ ready /\ q.group => q.groupsig = sig
<1>1. CASE ready
  BY <1>1 DEF Signal, Processes, Alive
<1>2. CASE ~ready
  BY <1>2 DEF Signal, Processes, Alive
<1> QED BY <1>1, <1>2

\* A run that leaves starts its cleanup, or had one, or never had a process.
LEMMA LeaveOK ==
  ASSUME NEW u, NEW p, NEW out \in Outs, RunOK(u, p), u.handling = 0,
         u.pc \in {"admit", "granted", "admitted", "slot", "boot", "serve", "unwind"}
  PROVE /\ RunOK(LeftCall(u, out), LeftProcess(u, p))
        /\ LeftCall(u, out).pc \in {"finish", "final"}
        /\ Holding(LeftCall(u, out)) <=> u.slot
        /\ u.clean # "none" => LeftCall(u, out).clean # "none"
        /\ Doomed(p) => Doomed(LeftProcess(u, p))
<1>1. CASE ~u.owned
  BY <1>1 DEF RunOK, LeftCall, LeftProcess, Calls, CallOK, ProcessOK, Holding, Doomed, GroupDoomed, Alive, Early, Pcs
<1>2. CASE u.owned /\ u.clean # "none"
  <2> DEFINE w == EndedCall(u, out)
  <2>1. /\ w \in Calls /\ w.pc = "finish" /\ w.slot = u.slot /\ w.reg = u.reg /\ w.owned /\ w.ready = u.ready
        /\ w.handling = 0 /\ w.clean = u.clean /\ w.pg = u.pg
    BY <1>2 DEF EndedCall, RunOK, Calls, Pcs
  <2>2. LeftCall(u, out) = w /\ LeftProcess(u, p) = p
    BY <1>2 DEF LeftCall, LeftProcess, FinishedCall, FinishedProcess
  <2> HIDE DEF w
  <2>3. CallOK(w) /\ ProcessOK(w, p) /\ (Holding(w) <=> u.slot)
    BY <1>2, <2>1 DEF RunOK, CallOK, ProcessOK, Holding, Early
  <2> QED BY <2>1, <2>2, <2>3 DEF RunOK
<1>3. CASE u.owned /\ u.clean = "none"
  <2> DEFINE v == FinishedCall(u)
             q == FinishedProcess(u, p)
  <2>1. /\ v \in Calls /\ v.pc = u.pc /\ v.slot = u.slot /\ v.reg = u.reg /\ v.owned /\ v.ready = u.ready
        /\ v.handling = 0 /\ v.clean = "term" /\ v.pg = u.ready
    BY <1>3 DEF FinishedCall, RunOK, Calls, Cleans
  <2>2. /\ q \in Processes /\ q.st = p.st /\ q.group = p.group
        /\ Alive(q) => q.sig = "term"
    <3>1. q = Signal(p, u.ready, "term") /\ u.ready \in BOOLEAN /\ p \in Processes /\ "term" \in Sigs
      BY <1>3 DEF FinishedProcess, RunOK, Calls, Sigs
    <3> HIDE DEF q
    <3> QED BY <3>1, FinishedSignal
  <2>3. Doomed(p) => ~Alive(p)
    BY <1>3 DEF Doomed, RunOK, ProcessOK, CallOK
  <2> HIDE DEF v, q
  <2> DEFINE w == EndedCall(v, out)
  <2>4. /\ w \in Calls /\ w.pc = "finish" /\ w.slot = u.slot /\ w.reg = u.reg /\ w.owned /\ w.ready = u.ready
        /\ w.handling = 0 /\ w.clean = "term" /\ w.pg = u.ready
    BY <2>1 DEF EndedCall, Calls, Pcs
  <2> HIDE DEF w
  <2>5. LeftCall(u, out) = w /\ LeftProcess(u, p) = q
    BY <1>3 DEF LeftCall, LeftProcess, v, q, w
  <2>6. CallOK(w) /\ (Holding(w) <=> u.slot)
    BY <2>4 DEF RunOK, CallOK, Holding, Early
  <2>7. ProcessOK(w, q) /\ (Doomed(p) => Doomed(q))
    BY <2>2, <2>3, <2>4 DEF RunOK, CallOK, ProcessOK, Doomed, Alive
  <2> QED BY <2>2, <2>4, <2>5, <2>6, <2>7 DEF RunOK
<1> QED BY <1>1, <1>2, <1>3 DEF RunOK, Calls

\* So does one whose callbacks are cancelled first (EndServe).
LEMMA UnwindOK ==
  ASSUME NEW u, NEW p, NEW out \in Outs, RunOK(u, p), u.pc = "serve"
  PROVE /\ RunOK(UnwoundCall(u, out), UnwoundProcess(u, p))
        /\ UnwoundCall(u, out).pc \in {"unwind", "finish", "final"}
        /\ Holding(UnwoundCall(u, out)) <=> u.slot
        /\ u.clean # "none" => UnwoundCall(u, out).clean # "none"
        /\ Doomed(p) => Doomed(UnwoundProcess(u, p))
<1>1. CASE u.handling = 0
  BY <1>1, LeaveOK DEF UnwoundCall, UnwoundProcess
<1>2. CASE u.handling # 0
  <2> DEFINE v == [u EXCEPT !.pc = "unwind", !.out = out, !.unwinding = u.handling, !.handling = 0]
  <2>1. /\ v \in Calls /\ v.pc = "unwind" /\ v.slot = u.slot /\ v.reg = u.reg /\ v.owned = u.owned
        /\ v.ready = u.ready /\ v.handling = 0 /\ v.clean = u.clean /\ v.pg = u.pg
    BY DEF RunOK, Calls, Pcs
  <2>2. UnwoundCall(u, out) = v /\ UnwoundProcess(u, p) = p
    BY <1>2 DEF UnwoundCall, UnwoundProcess
  <2> HIDE DEF v
  <2>3. CallOK(v) /\ ProcessOK(v, p) /\ (Holding(v) <=> u.slot)
    BY <2>1 DEF RunOK, CallOK, ProcessOK, Holding, Early
  <2> QED BY <2>1, <2>2, <2>3 DEF RunOK
<1> QED BY <1>1, <1>2

-----------------------------------------------------------------------------
(* Admission.                                                              *)

\* What the invariant says of one run.
LEMMA RunFacts ==
  ASSUME RRInv, NEW r \in Runs
  PROVE /\ RunOK(rr.run[r], rr.proc[r]) /\ rr.run[r] \in Calls /\ rr.proc[r] \in Processes
        /\ rr.free \in Nat /\ rr \in RRState
        /\ rr.state = "closed" => rr.run[r].pc \in {"new", "over"}
BY DEF RRInv, RRState, RunOK, RunnerOK

SetCall(c, r, v) == [c EXCEPT !.run = [c.run EXCEPT ![r] = v]]
SetProcess(c, r, q) == [c EXCEPT !.proc = [c.proc EXCEPT ![r] = q]]

\* Steps that write the call, or the process, field by field.
LEMMA SetIs ==
  ASSUME NEW c \in RRState, NEW r \in Runs, NEW v, NEW q
  PROVE /\ SetCall(c, r, v) = Put(c, c.free, r, v, c.proc[r])
        /\ SetProcess(c, r, q) = Put(c, c.free, r, c.run[r], q)
<1>1. c.proc = [c.proc EXCEPT ![r] = c.proc[r]] /\ c.run = [c.run EXCEPT ![r] = c.run[r]]
  BY DEF RRState
<1> QED BY <1>1 DEF RRState, Put, SetCall, SetProcess

\* A step that hands the slot back, or takes one, in the number of free slots.
LEMMA FreeIs ==
  ASSUME NEW c \in RRState, NEW r \in Runs, NEW f
  PROVE [c EXCEPT !.free = f] = Put(c, f, r, c.run[r], c.proc[r])
<1>1. c.proc = [c.proc EXCEPT ![r] = c.proc[r]] /\ c.run = [c.run EXCEPT ![r] = c.run[r]]
  BY DEF RRState
<1> QED BY <1>1 DEF RRState, Put

\* The slot a run that leaves held goes back, or stays with it until its end.
SlotLeft(f, u, v) == \/ f = rr.free /\ (Holding(u) <=> v.slot)
                     \/ f = rr.free + 1 /\ Holding(u) /\ ~v.slot
Before(f, u, p, v, q) ==
  /\ f \in Nat /\ RunOK(v, q) /\ SlotLeft(f, u, v) /\ u.pc \notin {"new", "over"}
  /\ u.clean # "none" => v.clean # "none"
  /\ Doomed(p) => Doomed(q)

\* What such a step leaves behind is read back (PutFields).
LEMMA PutBefore ==
  ASSUME RRInv, NEW r \in Runs, NEW f, NEW v, NEW q, Before(f, rr.run[r], rr.proc[r], v, q)
  PROVE LET d == Put(rr, f, r, v, q) IN
        /\ d \in RRState /\ d.run[r] = v /\ d.proc[r] = q /\ d.free = f
        /\ \A g, w, x : Put(d, g, r, w, x) = Put(rr, g, r, w, x)
<1>1. f \in Nat /\ v \in Calls /\ q \in Processes /\ rr \in RRState
  BY RunFacts DEF Before, RunOK
<1> HIDE DEF Before
<1> QED BY <1>1, PutFields

\* Leaving keeps the invariant, whatever the run had just read or given back.
LEMMA LeaveKeeps ==
  ASSUME RRInv, NEW r \in Runs, NEW f, NEW v, NEW q, NEW out \in Outs,
         Before(f, rr.run[r], rr.proc[r], v, q), v.handling = 0,
         v.pc \in {"admit", "granted", "admitted", "slot", "boot", "serve", "unwind"},
         rr' = Leave(Put(rr, f, r, v, q), r, out)
  PROVE RRInv'
<1> DEFINE d == Put(rr, f, r, v, q)
<1>1. /\ d \in RRState /\ d.run[r] = v /\ d.proc[r] = q /\ d.free = f
      /\ \A g, w, x : Put(d, g, r, w, x) = Put(rr, g, r, w, x)
  BY PutBefore
<1>2. rr' = Leave(d, r, out)
  OBVIOUS
<1> HIDE DEF d
<1> DEFINE w == LeftCall(v, out)
           x == LeftProcess(v, q)
<1>3. rr' = Put(rr, f, r, w, x)
  BY <1>1, <1>2, LeaveIs
<1>4. /\ RunOK(w, x) /\ (Holding(w) <=> v.slot) /\ (v.clean # "none" => w.clean # "none")
      /\ (Doomed(q) => Doomed(x)) /\ RunOK(v, q)
  BY LeaveOK DEF Before
<1> HIDE DEF w, x
<1>5. Allowed(f, rr.run[r], rr.proc[r], w, x)
  BY <1>4 DEF Before, Allowed, SlotsMove, SlotLeft
<1> QED BY <1>3, <1>5, RunnerStep

\* So does the end of the callbacks' loop.
LEMMA UnwindKeeps ==
  ASSUME RRInv, NEW r \in Runs, NEW f, NEW v, NEW q, NEW out \in Outs,
         Before(f, rr.run[r], rr.proc[r], v, q), v.pc = "serve",
         rr' = EndServe(Put(rr, f, r, v, q), r, out)
  PROVE RRInv'
<1> DEFINE d == Put(rr, f, r, v, q)
<1>1. /\ d \in RRState /\ d.run[r] = v /\ d.proc[r] = q /\ d.free = f
      /\ \A g, w, x : Put(d, g, r, w, x) = Put(rr, g, r, w, x)
  BY PutBefore
<1>2. rr' = EndServe(d, r, out)
  OBVIOUS
<1> HIDE DEF d
<1> DEFINE w == UnwoundCall(v, out)
           x == UnwoundProcess(v, q)
<1>3. rr' = Put(rr, f, r, w, x)
  BY <1>1, <1>2, EndServeIs
<1>4. /\ RunOK(w, x) /\ (Holding(w) <=> v.slot) /\ (v.clean # "none" => w.clean # "none")
      /\ (Doomed(q) => Doomed(x)) /\ RunOK(v, q)
  BY UnwindOK DEF Before
<1> HIDE DEF w, x
<1>5. Allowed(f, rr.run[r], rr.proc[r], w, x)
  BY <1>4 DEF Before, Allowed, SlotsMove, SlotLeft
<1> QED BY <1>3, <1>5, RunnerStep

\* A record that is written back changes nothing.
LEMMA PutSelf ==
  ASSUME RRInv, NEW r \in Runs
  PROVE /\ rr = Put(rr, rr.free, r, rr.run[r], rr.proc[r])
        /\ rr.run[r].pc \notin {"new", "over", "granted", "admitted"} =>
             Before(rr.free, rr.run[r], rr.proc[r], rr.run[r], rr.proc[r])
<1>1. rr = Put(rr, rr.free, r, rr.run[r], rr.proc[r])
  <2>1. rr = [rr EXCEPT !.free = rr.free]
    BY RunFacts DEF RRState
  <2> QED BY <2>1, RunFacts, FreeIs
<1>2. rr.run[r].pc \notin {"new", "over", "granted", "admitted"} =>
        Before(rr.free, rr.run[r], rr.proc[r], rr.run[r], rr.proc[r])
  BY RunFacts DEF Before, SlotLeft, Holding, RunOK
<1> QED BY <1>1, <1>2

\* A run may leave as it stands.
LEMMA LeaveNow ==
  ASSUME RRInv, NEW r \in Runs, NEW out \in Outs, rr.run[r].handling = 0,
         rr.run[r].pc \in {"admit", "slot", "boot", "serve", "unwind"}, rr' = Leave(rr, r, out)
  PROVE RRInv'
BY PutSelf, LeaveKeeps

\* So may the loop of its callbacks end.
LEMMA UnwindNow ==
  ASSUME RRInv, NEW r \in Runs, NEW out \in Outs, rr.run[r].pc = "serve", rr' = EndServe(rr, r, out)
  PROVE RRInv'
BY PutSelf, UnwindKeeps

\* Register: a call that comes before the close waits for a slot.
LEMMA RegisterKeeps ==
  ASSUME RRInv, NEW r \in Runs, Register(r)
  PROVE RRInv'
<1> DEFINE u == rr.run[r]
           p == rr.proc[r]
           over == [u EXCEPT !.pc = "over", !.out = "closed"]
           admit == [u EXCEPT !.pc = "admit", !.reg = TRUE]
<1>1. u.pc = "new" /\ rr \in RRState /\ RunOK(u, p) /\ rr.free \in Nat
  BY RunFacts DEF Register
<1>2. CASE rr.state # "running"
  <2>1. /\ over \in Calls /\ over.pc = "over" /\ over.slot = u.slot /\ over.reg = u.reg /\ over.owned = u.owned
        /\ over.ready = u.ready /\ over.handling = u.handling /\ over.clean = u.clean /\ over.pg = u.pg
    BY <1>1 DEF RunOK, Calls, Pcs, Outs
  <2>2. rr' = SetCall(rr, r, over)
    BY <1>1, <1>2 DEF Register, SetCall, RRState
  <2> HIDE DEF over
  <2>3. Allowed(rr.free, u, p, over, p)
    BY <1>1, <2>1 DEF Allowed, SlotsMove, RunOK, CallOK, ProcessOK, Holding, Doomed, GroupDoomed, Alive, Early
  <2> QED BY <1>1, <2>2, <2>3, SetIs, RunnerStep
<1>3. CASE rr.state = "running"
  <2>1. /\ admit \in Calls /\ admit.pc = "admit" /\ admit.slot = u.slot /\ admit.reg /\ admit.owned = u.owned
        /\ admit.ready = u.ready /\ admit.handling = u.handling /\ admit.clean = u.clean /\ admit.pg = u.pg
    BY <1>1 DEF RunOK, Calls, Pcs, Early
  <2>2. rr' = SetCall(rr, r, admit)
    BY <1>1, <1>3 DEF Register, SetCall, RRState
  <2> HIDE DEF admit
  <2>3. Allowed(rr.free, u, p, admit, p)
    BY <1>1, <1>3, <2>1 DEF Allowed, SlotsMove, RunOK, CallOK, ProcessOK, Holding, Doomed, GroupDoomed, Alive, Early
  <2> QED BY <1>1, <2>2, <2>3, SetIs, RunnerStep
<1> QED BY <1>2, <1>3

\* GrantSlot takes a slot that is free.
LEMMA GrantKeeps ==
  ASSUME RRInv, NEW r \in Runs, GrantSlot(r)
  PROVE RRInv'
<1> DEFINE u == rr.run[r]
           p == rr.proc[r]
           v == [u EXCEPT !.pc = "granted"]
<1>1. u.pc = "admit" /\ rr.free > 0 /\ RunOK(u, p) /\ rr.free \in Nat /\ rr \in RRState
  BY RunFacts DEF GrantSlot
<1>2. /\ v \in Calls /\ v.pc = "granted" /\ v.slot = u.slot /\ v.reg = u.reg /\ v.owned = u.owned
      /\ v.ready = u.ready /\ v.handling = u.handling /\ v.clean = u.clean /\ v.pg = u.pg
  BY <1>1 DEF RunOK, Calls, Pcs, Early
<1>3. rr' = Put(rr, rr.free - 1, r, v, p)
  <2> DEFINE d == [rr EXCEPT !.free = rr.free - 1]
  <2>1. d = Put(rr, rr.free - 1, r, u, p) /\ rr.free - 1 \in Nat /\ u \in Calls /\ p \in Processes
    BY <1>1, FreeIs DEF RunOK
  <2>2. rr' = [d EXCEPT !.run = [d.run EXCEPT ![r] = v]]
    BY <1>1 DEF GrantSlot, RRState
  <2>3. d \in RRState /\ d.proc[r] = p /\ d.free = rr.free - 1 /\ \A g, w, x : Put(d, g, r, w, x) = Put(rr, g, r, w, x)
    BY <1>1, <2>1, PutFields
  <2> HIDE DEF d, v
  <2> QED BY <2>2, <2>3, SetIs DEF SetCall
<1> HIDE DEF v
<1>4. Allowed(rr.free - 1, u, p, v, p)
  BY <1>1, <1>2 DEF Allowed, SlotsMove, RunOK, CallOK, ProcessOK, Holding, Doomed, GroupDoomed, Alive, Early
<1> QED BY <1>3, <1>4, RunnerStep

\* RefuseSlot ends the call before it has a slot.
LEMMA RefuseKeeps ==
  ASSUME RRInv, NEW r \in Runs, RefuseSlot(r)
  PROVE RRInv'
<1>1. rr.run[r].pc = "admit" /\ rr.run[r].handling = 0
  BY RunFacts DEF RefuseSlot, RunOK, CallOK
<1>2. PICK out \in Outs : rr' = Leave(rr, r, out)
  BY DEF RefuseSlot, Outs
<1> QED BY <1>1, <1>2, LeaveNow

\* A slot that was granted goes back when its call ends before it starts.
LEMMA GiveBack ==
  ASSUME RRInv, NEW r \in Runs, NEW out \in Outs, rr.run[r].pc \in {"granted", "admitted"},
         rr' = Leave([rr EXCEPT !.free = @ + 1], r, out)
  PROVE RRInv'
<1>1. /\ RunOK(rr.run[r], rr.proc[r]) /\ rr.free + 1 \in Nat /\ rr \in RRState
      /\ rr.run[r].handling = 0 /\ ~rr.run[r].slot
  BY RunFacts DEF RunOK, CallOK
<1>2. [rr EXCEPT !.free = @ + 1] = Put(rr, rr.free + 1, r, rr.run[r], rr.proc[r])
  BY <1>1, FreeIs
<1>3. Before(rr.free + 1, rr.run[r], rr.proc[r], rr.run[r], rr.proc[r])
  BY <1>1 DEF Before, SlotLeft, Holding
<1> QED BY <1>1, <1>2, <1>3, LeaveKeeps

\* AcquireSlot and ResumeAdmitted: the slot passes from the grant to the call.
LEMMA AcquireKeeps ==
  ASSUME RRInv, NEW r \in Runs, AcquireSlot(r) \/ ResumeAdmitted(r)
  PROVE RRInv'
<1> DEFINE u == rr.run[r]
           p == rr.proc[r]
           v == [u EXCEPT !.pc = "admitted"]
           w == [u EXCEPT !.pc = "slot", !.slot = TRUE]
<1>1. u.pc \in {"granted", "admitted"} /\ RunOK(u, p) /\ rr.free \in Nat /\ rr \in RRState
  BY RunFacts DEF AcquireSlot, ResumeAdmitted
<1>2. /\ v \in Calls /\ v.pc = "admitted" /\ v.slot = u.slot /\ v.reg = u.reg /\ v.owned = u.owned
      /\ v.ready = u.ready /\ v.handling = u.handling /\ v.clean = u.clean /\ v.pg = u.pg
  BY <1>1 DEF RunOK, Calls, Pcs, Early
<1>3. /\ w \in Calls /\ w.pc = "slot" /\ w.slot /\ w.reg = u.reg /\ w.owned = u.owned
      /\ w.ready = u.ready /\ w.handling = u.handling /\ w.clean = u.clean /\ w.pg = u.pg
  BY <1>1 DEF RunOK, Calls, Pcs, Early
<1>4. \/ rr' = SetCall(rr, r, v) \/ rr' = SetCall(rr, r, w)
      \/ rr' = Leave([rr EXCEPT !.free = @ + 1], r, "closed")
  <2>1. CASE AcquireSlot(r)
    BY <1>1, <2>1 DEF AcquireSlot, SetCall, RRState
  <2>2. CASE ResumeAdmitted(r)
    BY <1>1, <2>2 DEF ResumeAdmitted, SetCall, RRState
  <2> QED BY <2>1, <2>2
<1> HIDE DEF v, w
<1>5. Allowed(rr.free, u, p, v, p) /\ Allowed(rr.free, u, p, w, p)
  BY <1>1, <1>2, <1>3 DEF Allowed, SlotsMove, RunOK, CallOK, ProcessOK, Holding, Doomed, GroupDoomed, Alive, Early
<1>6. CASE rr' = Leave([rr EXCEPT !.free = @ + 1], r, "closed")
  BY <1>1, <1>6, GiveBack DEF Outs
<1> QED BY <1>1, <1>4, <1>5, <1>6, SetIs, RunnerStep

\* SpawnOwner starts a process only while the runner is running.
LEMMA SpawnKeeps ==
  ASSUME RRInv, NEW r \in Runs, SpawnOwner(r)
  PROVE RRInv'
<1> DEFINE u == rr.run[r]
           p == rr.proc[r]
           v == [u EXCEPT !.pc = "boot", !.owned = TRUE]
           q == [p EXCEPT !.st = "boot"]
<1>1. u.pc = "slot" /\ RunOK(u, p) /\ rr.free \in Nat /\ rr \in RRState /\ u.handling = 0
  BY RunFacts DEF SpawnOwner, RunOK, CallOK
<1>2. CASE \E out \in Outs : rr' = Leave(rr, r, out)
  BY <1>1, <1>2, LeaveNow
<1>3. CASE rr.state = "running" /\ rr' = [rr EXCEPT !.run[r].pc = "boot", !.run[r].owned = TRUE, !.proc[r].st = "boot"]
  <2>1. /\ v \in Calls /\ v.pc = "boot" /\ v.slot = u.slot /\ v.reg = u.reg /\ v.owned
        /\ v.ready = u.ready /\ v.handling = u.handling /\ v.clean = u.clean /\ v.pg = u.pg
    BY <1>1 DEF RunOK, Calls, Pcs
  <2>2. q \in Processes /\ q.st = "boot" /\ q.sig = p.sig /\ q.group = p.group /\ q.groupsig = p.groupsig
    BY <1>1 DEF RunOK, Processes
  <2>3. rr' = [rr EXCEPT !.run = [rr.run EXCEPT ![r] = v], !.proc = [rr.proc EXCEPT ![r] = q]]
    BY <1>1, <1>3 DEF RRState
  <2> HIDE DEF v, q
  <2>4. rr' = Put(rr, rr.free, r, v, q)
    BY <1>1, <2>3 DEF Put, RRState
  <2>5. Allowed(rr.free, u, p, v, q)
    BY <1>1, <1>3, <2>1, <2>2 DEF Allowed, SlotsMove, RunOK, CallOK, ProcessOK, Holding, Doomed, GroupDoomed, Alive, Early
  <2> QED BY <2>4, <2>5, RunnerStep
<1> QED BY <1>2, <1>3 DEF SpawnOwner, Outs, Frames

\* The request may be cancelled at every await of its run (CancelRun).
LEMMA CancelKeeps ==
  ASSUME RRInv, NEW r \in Runs, CancelRun(r)
  PROVE RRInv'
<1>1. RunOK(rr.run[r], rr.proc[r]) /\ rr \in RRState /\ rr.free \in Nat
  BY RunFacts
<1>2. CASE rr.run[r].pc \in {"admit", "boot"} /\ rr' = Leave(rr, r, "cancelled")
  BY <1>1, <1>2, LeaveNow DEF RunOK, CallOK, Outs
<1>3. CASE rr.run[r].pc \in {"granted", "admitted"} /\ rr' = Leave([rr EXCEPT !.free = @ + 1], r, "cancelled")
  BY <1>3, GiveBack DEF Outs
<1>4. CASE rr.run[r].pc = "serve" /\ rr' = EndServe(rr, r, "cancelled")
  BY <1>1, <1>4, UnwindNow DEF Outs
<1> QED BY <1>2, <1>3, <1>4 DEF CancelRun

-----------------------------------------------------------------------------
(* The process.                                                            *)

SaidBy(p, frame) == [p EXCEPT !.pipe = Append(@, frame)]
DiedFrom(p) == [p EXCEPT !.st = "dead", !.sig = "none", !.asked = 0]

\* What a process does by itself, or the system to it, in the fields the
\* invariant is about: it moves on, forks while it runs a job, dies, or its
\* descendants end.
Lives(p, q) ==
  /\ q \in Processes /\ q.groupsig = p.groupsig
  /\ \/ q.st = p.st /\ q.sig = p.sig /\ q.group = p.group
     \/ p.st = "boot" /\ q.st = "ready" /\ q.sig = p.sig /\ q.group = p.group
     \/ p.st = "job" /\ Free(p) /\ q.st = p.st /\ q.sig = p.sig /\ q.group
     \/ Alive(p) /\ q.st = "dead" /\ q.sig = "none" /\ q.group = p.group
     \/ q.st = p.st /\ q.sig = p.sig /\ ~q.group

\* Any of these keeps the invariant: a process that was sent a SIGKILL neither
\* moves on nor forks.
LEMMA LivesKeeps ==
  ASSUME RRInv, NEW r \in Runs, NEW q, Lives(rr.proc[r], q), rr' = SetProcess(rr, r, q)
  PROVE RRInv'
<1>1. /\ RunOK(rr.run[r], rr.proc[r]) /\ rr.free \in Nat /\ rr \in RRState
      /\ rr.state = "closed" => rr.run[r].pc \in {"new", "over"}
  BY RunFacts
<1>2. ProcessOK(rr.run[r], q) /\ (Doomed(rr.proc[r]) => Doomed(q))
  BY <1>1 DEF Lives, RunOK, CallOK, ProcessOK, Doomed, GroupDoomed, Alive, Free, Processes, Sigs
<1>3. Allowed(rr.free, rr.run[r], rr.proc[r], rr.run[r], q)
  BY <1>1, <1>2 DEF Allowed, SlotsMove, RunOK, Lives
<1> QED BY <1>1, <1>3, SetIs, RunnerStep

\* Say, field by field.
LEMMA SayIs ==
  ASSUME NEW c \in RRState, NEW r \in Runs, NEW frame \in Frames
  PROVE /\ Say(c, r, frame) = SetProcess(c, r, SaidBy(c.proc[r], frame))
        /\ SaidBy(c.proc[r], frame) \in Processes
        /\ SaidBy(c.proc[r], frame).st = c.proc[r].st /\ SaidBy(c.proc[r], frame).sig = c.proc[r].sig
        /\ SaidBy(c.proc[r], frame).group = c.proc[r].group /\ SaidBy(c.proc[r], frame).groupsig = c.proc[r].groupsig
<1>1. Say(c, r, frame) = SetProcess(c, r, SaidBy(c.proc[r], frame))
  BY DEF RRState, Say, SetProcess, SaidBy
<1> DEFINE p == c.proc[r]
<1>2. p \in Processes
  BY DEF RRState
<1> HIDE DEF p
<1>3. Append(p.pipe, frame) \in Seq(Frames)
  BY <1>2 DEF Processes
<1>4. /\ SaidBy(p, frame) \in Processes /\ SaidBy(p, frame).st = p.st /\ SaidBy(p, frame).sig = p.sig
      /\ SaidBy(p, frame).group = p.group /\ SaidBy(p, frame).groupsig = p.groupsig
  BY <1>2, <1>3 DEF Processes, SaidBy
<1> QED BY <1>1, <1>4 DEF p

\* Die, field by field.
LEMMA DieIs ==
  ASSUME NEW c \in RRState, NEW r \in Runs
  PROVE /\ Die(c, r) = SetProcess(c, r, DiedFrom(c.proc[r]))
        /\ DiedFrom(c.proc[r]) \in Processes
        /\ DiedFrom(c.proc[r]).st = "dead" /\ DiedFrom(c.proc[r]).sig = "none"
        /\ DiedFrom(c.proc[r]).group = c.proc[r].group /\ DiedFrom(c.proc[r]).groupsig = c.proc[r].groupsig
<1>1. Die(c, r) = SetProcess(c, r, DiedFrom(c.proc[r]))
  BY DEF RRState, Die, SetProcess, DiedFrom
<1> DEFINE p == c.proc[r]
<1>2. p \in Processes
  BY DEF RRState
<1> HIDE DEF p
<1>3. /\ DiedFrom(p) \in Processes /\ DiedFrom(p).st = "dead" /\ DiedFrom(p).sig = "none"
      /\ DiedFrom(p).group = p.group /\ DiedFrom(p).groupsig = p.groupsig
  BY <1>2 DEF Processes, DiedFrom, Sigs
<1> QED BY <1>1, <1>3 DEF p

\* A process record is read back, and a later one replaces it.
LEMMA SetFields ==
  ASSUME NEW c \in RRState, NEW r \in Runs, NEW p \in Processes
  PROVE /\ SetProcess(c, r, p) \in RRState /\ SetProcess(c, r, p).proc[r] = p
        /\ SetProcess(c, r, p).run = c.run /\ SetProcess(c, r, p).free = c.free
        /\ \A q : SetProcess(SetProcess(c, r, p), r, q) = SetProcess(c, r, q)
<1>1. c.free \in Nat /\ c.run[r] \in Calls /\ c.run = [c.run EXCEPT ![r] = c.run[r]]
  BY DEF RRState
<1>2. SetProcess(c, r, p) = Put(c, c.free, r, c.run[r], p)
  BY SetIs
<1> DEFINE d == SetProcess(c, r, p)
<1>3. /\ d \in RRState /\ d.run[r] = c.run[r] /\ d.proc[r] = p /\ d.free = c.free
      /\ \A g, v, q : Put(d, g, r, v, q) = Put(c, g, r, v, q)
  BY <1>1, <1>2, PutFields
<1>4. SetProcess(c, r, p).run = c.run
  BY DEF RRState, SetProcess
<1> HIDE DEF d
<1>5. ASSUME NEW q
      PROVE SetProcess(d, r, q) = SetProcess(c, r, q)
  <2>1. SetProcess(d, r, q) = Put(d, d.free, r, d.run[r], q)
    BY <1>3, SetIs
  <2>2. SetProcess(c, r, q) = Put(c, c.free, r, c.run[r], q)
    BY SetIs
  <2> QED BY <1>3, <2>1, <2>2
<1> QED BY <1>3, <1>4, <1>5 DEF d

\* A process that moves on and says so.
LEMMA SayAfter ==
  ASSUME NEW c \in RRState, NEW r \in Runs, NEW frame \in Frames, NEW q \in Processes
  PROVE /\ Say(SetProcess(c, r, q), r, frame) = SetProcess(c, r, SaidBy(q, frame))
        /\ SaidBy(q, frame) \in Processes /\ SaidBy(q, frame).st = q.st /\ SaidBy(q, frame).sig = q.sig
        /\ SaidBy(q, frame).group = q.group /\ SaidBy(q, frame).groupsig = q.groupsig
<1> DEFINE d == SetProcess(c, r, q)
<1>1. d \in RRState /\ d.proc[r] = q /\ \A x : SetProcess(d, r, x) = SetProcess(c, r, x)
  BY SetFields
<1> HIDE DEF d
<1>2. Say(d, r, frame) = SetProcess(c, r, SaidBy(q, frame))
  BY <1>1, SayIs
<1>3. /\ SaidBy(q, frame) \in Processes /\ SaidBy(q, frame).st = q.st /\ SaidBy(q, frame).sig = q.sig
      /\ SaidBy(q, frame).group = q.group /\ SaidBy(q, frame).groupsig = q.groupsig
  BY <1>1, SayIs
<1> QED BY <1>2, <1>3 DEF d

\* The steps of the child, and of the system (ChildReady to GroupEnds).
LEMMA ChildKeeps ==
  ASSUME RRInv, NEW r \in Runs,
         \/ ChildReady(r) \/ ChildCalls(r) \/ ChildForks(r) \/ ChildEnds(r) \/ ChildCrashes(r)
         \/ ChildKilled(r) \/ GroupKilled(r) \/ GroupEnds(r)
  PROVE RRInv'
<1> DEFINE p == rr.proc[r]
<1>1. rr \in RRState /\ p \in Processes
  BY RunFacts DEF RunOK
<1>2. CASE ChildReady(r)
  <2> DEFINE q == [p EXCEPT !.st = "ready"]
  <2>1. q \in Processes /\ q.st = "ready" /\ q.sig = p.sig /\ q.group = p.group /\ q.groupsig = p.groupsig
    BY <1>1 DEF Processes
  <2>2. rr' = Say(SetProcess(rr, r, q), r, "ready") /\ p.st = "boot"
    BY <1>1, <1>2 DEF ChildReady, RRState, SetProcess
  <2> HIDE DEF p, q
  <2>3. rr' = SetProcess(rr, r, SaidBy(q, "ready")) /\ Lives(p, SaidBy(q, "ready"))
    <3>1. "ready" \in Frames
      BY DEF Frames
    <3> QED BY <1>1, <2>1, <2>2, <3>1, SayAfter DEF Lives
  <2> QED BY <2>3, LivesKeeps DEF p
<1>3. CASE ChildCalls(r)
  <2> DEFINE q == [p EXCEPT !.asked = @ + 1]
  <2>1. q \in Processes /\ q.st = p.st /\ q.sig = p.sig /\ q.group = p.group /\ q.groupsig = p.groupsig
    <3> HIDE DEF p
    <3> QED BY <1>1 DEF Processes
  <2>2. rr' = Say(SetProcess(rr, r, q), r, "call")
    BY <1>1, <1>3 DEF ChildCalls, RRState, SetProcess
  <2> HIDE DEF p, q
  <2>3. rr' = SetProcess(rr, r, SaidBy(q, "call")) /\ Lives(p, SaidBy(q, "call"))
    <3>1. "call" \in Frames
      BY DEF Frames
    <3> QED BY <1>1, <2>1, <2>2, <3>1, SayAfter DEF Lives
  <2> QED BY <2>3, LivesKeeps DEF p
<1>4. CASE ChildForks(r)
  <2> DEFINE q == [p EXCEPT !.group = TRUE]
  <2>1. q \in Processes /\ q.st = p.st /\ q.sig = p.sig /\ q.group /\ q.groupsig = p.groupsig
    BY <1>1 DEF Processes
  <2>2. rr' = SetProcess(rr, r, q) /\ p.st = "job" /\ Free(p)
    BY <1>1, <1>4 DEF ChildForks, RRState, SetProcess
  <2> HIDE DEF q
  <2> QED BY <2>1, <2>2, LivesKeeps DEF Lives
<1>5. CASE ChildEnds(r)
  <2>1. PICK frame \in Frames : rr' = Die(Say(rr, r, frame), r)
    BY <1>5 DEF ChildEnds, Frames
  <2>2. Alive(p)
    BY <1>5 DEF ChildEnds, Free
  <2> DEFINE q == SaidBy(p, frame)
  <2>3. Say(rr, r, frame) = SetProcess(rr, r, q) /\ q \in Processes /\ q.group = p.group /\ q.groupsig = p.groupsig
    BY <1>1, SayIs
  <2> HIDE DEF q
  <2>4. rr' = SetProcess(rr, r, DiedFrom(q)) /\ Lives(p, DiedFrom(q))
    BY <1>1, <2>1, <2>2, <2>3, SetFields, DieIs DEF Lives
  <2> QED BY <2>4, LivesKeeps
<1>6. CASE ChildCrashes(r) \/ ChildKilled(r)
  <2>1. rr' = SetProcess(rr, r, DiedFrom(p)) /\ Lives(p, DiedFrom(p))
    BY <1>1, <1>6, DieIs DEF Lives, ChildCrashes, ChildKilled, Free
  <2> QED BY <2>1, LivesKeeps
<1>7. CASE GroupKilled(r) \/ GroupEnds(r)
  <2> DEFINE q == [p EXCEPT !.group = FALSE]
  <2>1. q \in Processes /\ q.st = p.st /\ q.sig = p.sig /\ ~q.group /\ q.groupsig = p.groupsig
    BY <1>1 DEF Processes
  <2>2. rr' = SetProcess(rr, r, q)
    BY <1>1, <1>7 DEF GroupKilled, GroupEnds, RRState, SetProcess
  <2> HIDE DEF q
  <2> QED BY <2>1, <2>2, LivesKeeps DEF Lives
<1> QED BY <1>2, <1>3, <1>4, <1>5, <1>6, <1>7

-----------------------------------------------------------------------------
(* The cleanup and the end.                                                *)

WithClean(u, clean) == [u EXCEPT !.clean = clean]

\* The stage of a cleanup, and nothing else of the call (_finish_child).
LEMMA CleanIs ==
  ASSUME NEW u \in Calls, NEW clean \in Cleans
  PROVE LET v == WithClean(u, clean) IN
        /\ v \in Calls /\ v.clean = clean /\ v.pc = u.pc /\ v.slot = u.slot /\ v.reg = u.reg /\ v.owned = u.owned
        /\ v.ready = u.ready /\ v.handling = u.handling /\ v.pg = u.pg
BY DEF WithClean, Calls

\* Reap: the process is dead, and its group is next or there never was one.
LEMMA ReapKeeps ==
  ASSUME RRInv, NEW r \in Runs, Reap(r)
  PROVE RRInv'
<1> DEFINE u == rr.run[r]
           p == rr.proc[r]
           clean == IF u.pg THEN "group" ELSE "closed"
           v == WithClean(u, clean)
<1>1. /\ RunOK(u, p) /\ rr.free \in Nat /\ rr \in RRState /\ clean \in Cleans
      /\ u.clean \in {"term", "kill"} /\ p.st = "dead" /\ (rr.state = "closed" => u.pc \in {"new", "over"})
  BY RunFacts DEF Reap, Cleans
<1>2. rr' = SetCall(rr, r, v)
  BY <1>1 DEF Reap, RRState, SetCall, WithClean
<1>3. /\ v \in Calls /\ v.clean = clean /\ v.pc = u.pc /\ v.slot = u.slot /\ v.reg = u.reg /\ v.owned = u.owned
      /\ v.ready = u.ready /\ v.handling = u.handling /\ v.pg = u.pg
  BY <1>1, CleanIs DEF RunOK
<1> HIDE DEF v
<1>4. Allowed(rr.free, u, p, v, p)
  BY <1>1, <1>3 DEF Allowed, SlotsMove, RunOK, CallOK, ProcessOK, Holding, Doomed, GroupDoomed, Alive, Early
<1> QED BY <1>1, <1>2, <1>4, SetIs, RunnerStep

\* ReapTimeout: SIGKILL, and at last the runner gives up on a doomed process.
LEMMA TimeoutKeeps ==
  ASSUME RRInv, NEW r \in Runs, ReapTimeout(r)
  PROVE RRInv'
<1> DEFINE u == rr.run[r]
           p == rr.proc[r]
           q == Signal(p, u.ready, "kill")
           v == WithClean(u, "kill")
           w == WithClean(u, "failed")
<1>1. /\ RunOK(u, p) /\ rr.free \in Nat /\ rr \in RRState /\ u.clean \in {"term", "kill"} /\ Alive(p)
      /\ (rr.state = "closed" => u.pc \in {"new", "over"})
  BY RunFacts DEF ReapTimeout
<1>2. \/ u.clean = "term" /\ rr' = [rr EXCEPT !.run = [rr.run EXCEPT ![r] = v], !.proc = [rr.proc EXCEPT ![r] = q]]
      \/ u.clean = "kill" /\ rr' = SetCall(rr, r, w)
  BY <1>1 DEF ReapTimeout, RRState, SetCall, WithClean
<1>3. /\ v \in Calls /\ v.clean = "kill" /\ v.pc = u.pc /\ v.slot = u.slot /\ v.reg = u.reg /\ v.owned = u.owned
      /\ v.ready = u.ready /\ v.handling = u.handling /\ v.pg = u.pg
  BY <1>1, CleanIs DEF RunOK, Cleans
<1>4. /\ w \in Calls /\ w.clean = "failed" /\ w.pc = u.pc /\ w.slot = u.slot /\ w.reg = u.reg /\ w.owned = u.owned
      /\ w.ready = u.ready /\ w.handling = u.handling /\ w.pg = u.pg
  BY <1>1, CleanIs DEF RunOK, Cleans
<1>5. /\ q \in Processes /\ q.st = p.st /\ q.group = p.group /\ (Alive(q) => q.sig = "kill")
      /\ u.ready /\ q.group => q.groupsig = "kill"
  <2>1. u.ready \in BOOLEAN /\ p \in Processes /\ "kill" \in Sigs
    BY <1>1 DEF RunOK, Calls, Sigs
  <2> QED BY <2>1, FinishedSignal
<1> HIDE DEF v, w, q
<1>6. CASE u.clean = "term" /\ rr' = [rr EXCEPT !.run = [rr.run EXCEPT ![r] = v], !.proc = [rr.proc EXCEPT ![r] = q]]
  <2>1. rr' = Put(rr, rr.free, r, v, q)
    BY <1>1, <1>6 DEF Put, RRState
  <2>2. Allowed(rr.free, u, p, v, q)
    BY <1>1, <1>3, <1>5, <1>6 DEF Allowed, SlotsMove, RunOK, CallOK, ProcessOK, Holding, Doomed, GroupDoomed, Alive, Early
  <2> QED BY <2>1, <2>2, RunnerStep
<1>7. CASE u.clean = "kill" /\ rr' = SetCall(rr, r, w)
  <2>1. Allowed(rr.free, u, p, w, p)
    BY <1>1, <1>4, <1>7 DEF Allowed, SlotsMove, RunOK, CallOK, ProcessOK, Holding, Doomed, GroupDoomed, Alive, Early
  <2> QED BY <1>1, <1>7, <2>1, SetIs, RunnerStep
<1> QED BY <1>2, <1>6, <1>7

\* DrainGroup: no descendant is left, or each one left was sent a SIGKILL.
LEMMA DrainKeeps ==
  ASSUME RRInv, NEW r \in Runs, DrainGroup(r)
  PROVE RRInv'
<1> DEFINE u == rr.run[r]
           p == rr.proc[r]
           q == [p EXCEPT !.groupsig = "kill"]
           v == WithClean(u, "groupkill")
<1>1. /\ RunOK(u, p) /\ rr.free \in Nat /\ rr \in RRState /\ u.clean \in {"group", "groupkill"}
      /\ (rr.state = "closed" => u.pc \in {"new", "over"})
  BY RunFacts DEF DrainGroup
<1>2. ASSUME NEW clean \in {"closed", "failed"}, rr' = SetCall(rr, r, WithClean(u, clean)),
             clean = "closed" => ~p.group, clean = "failed" => GroupDoomed(p)
      PROVE RRInv'
  <2> DEFINE w == WithClean(u, clean)
  <2>1. /\ w \in Calls /\ w.clean = clean /\ w.pc = u.pc /\ w.slot = u.slot /\ w.reg = u.reg /\ w.owned = u.owned
        /\ w.ready = u.ready /\ w.handling = u.handling /\ w.pg = u.pg
    BY <1>1, CleanIs DEF RunOK, Cleans
  <2> HIDE DEF w
  <2>2. Allowed(rr.free, u, p, w, p)
    BY <1>1, <1>2, <2>1 DEF Allowed, SlotsMove, RunOK, CallOK, ProcessOK, Holding, Doomed, GroupDoomed, Alive, Early
  <2> QED BY <1>1, <1>2, <2>2, SetIs, RunnerStep DEF w
<1>3. CASE ~p.group /\ rr' = [rr EXCEPT !.run[r].clean = "closed"]
  <2>1. rr' = SetCall(rr, r, WithClean(u, "closed"))
    BY <1>1, <1>3 DEF RRState, SetCall, WithClean
  <2> QED BY <1>2, <1>3, <2>1
<1>4. CASE u.clean = "groupkill" /\ rr' = [rr EXCEPT !.run[r].clean = "failed"]
  <2>1. rr' = SetCall(rr, r, WithClean(u, "failed"))
    BY <1>1, <1>4 DEF RRState, SetCall, WithClean
  <2> QED BY <1>1, <1>2, <1>4, <2>1 DEF RunOK, ProcessOK
<1>5. CASE u.clean = "group" /\ rr' = [rr EXCEPT !.run[r].clean = "groupkill", !.proc[r].groupsig = "kill"]
  <2>1. rr' = [rr EXCEPT !.run = [rr.run EXCEPT ![r] = v], !.proc = [rr.proc EXCEPT ![r] = q]]
    BY <1>1, <1>5 DEF RRState, WithClean
  <2>2. /\ v \in Calls /\ v.clean = "groupkill" /\ v.pc = u.pc /\ v.slot = u.slot /\ v.reg = u.reg /\ v.owned = u.owned
        /\ v.ready = u.ready /\ v.handling = u.handling /\ v.pg = u.pg
    BY <1>1, CleanIs DEF RunOK, Cleans
  <2>3. q \in Processes /\ q.st = p.st /\ q.sig = p.sig /\ q.group = p.group /\ q.groupsig = "kill"
    BY <1>1 DEF RunOK, Processes, Sigs
  <2> HIDE DEF v, q
  <2>4. rr' = Put(rr, rr.free, r, v, q)
    BY <1>1, <2>1 DEF Put, RRState
  <2>5. Allowed(rr.free, u, p, v, q)
    BY <1>1, <1>5, <2>2, <2>3 DEF Allowed, SlotsMove, RunOK, CallOK, ProcessOK, Holding, Doomed, GroupDoomed, Alive, Early
  <2> QED BY <2>4, <2>5, RunnerStep
<1> QED BY <1>3, <1>4, <1>5 DEF DrainGroup

WithPipe(p, pipe) == [p EXCEPT !.pipe = pipe]

\* What is read of the pipe, and nothing else of the process.
LEMMA PipeIs ==
  ASSUME NEW p \in Processes, NEW pipe \in Seq(Frames)
  PROVE LET q == WithPipe(p, pipe) IN
        /\ q \in Processes /\ q.st = p.st /\ q.sig = p.sig /\ q.group = p.group /\ q.groupsig = p.groupsig
        /\ q.pipe = pipe
BY DEF WithPipe, Processes

\* Finished and EndRun: a run ends after its cleanup, and gives its slot back.
LEMMA EndKeeps ==
  ASSUME RRInv, NEW r \in Runs, Finished(r) \/ EndRun(r)
  PROVE RRInv'
<1> DEFINE u == rr.run[r]
           p == rr.proc[r]
<1>1. /\ RunOK(u, p) /\ rr.free \in Nat /\ rr \in RRState /\ u.pc \in {"finish", "final"}
      /\ (rr.state = "closed" => u.pc \in {"new", "over"})
  BY RunFacts DEF Finished, EndRun
<1>2. CASE Finished(r)
  <2> DEFINE v == [u EXCEPT !.pc = "final"]
  <2>1. /\ v \in Calls /\ v.pc = "final" /\ v.clean = u.clean /\ v.slot = u.slot /\ v.reg = u.reg /\ v.owned = u.owned
        /\ v.ready = u.ready /\ v.handling = u.handling /\ v.pg = u.pg
    BY <1>1 DEF RunOK, Calls, Pcs
  <2>2. rr' = SetCall(rr, r, v) /\ u.pc = "finish" /\ u.clean \in {"closed", "failed"}
    BY <1>1, <1>2 DEF Finished, RRState, SetCall, Open
  <2> HIDE DEF v
  <2>3. Allowed(rr.free, u, p, v, p)
    BY <1>1, <2>1, <2>2 DEF Allowed, SlotsMove, RunOK, CallOK, ProcessOK, Holding, Doomed, GroupDoomed, Alive, Early
  <2> QED BY <1>1, <2>2, <2>3, SetIs, RunnerStep
<1>3. CASE EndRun(r)
  <2> DEFINE v == [NewRun EXCEPT !.pc = "over", !.out = u.out, !.clean = u.clean, !.handling = u.handling]
             q == WithPipe(p, << >>)
             f == IF u.slot THEN rr.free + 1 ELSE rr.free
  <2>1. /\ v \in Calls /\ v.pc = "over" /\ v.clean = u.clean /\ ~v.slot /\ ~v.reg /\ ~v.owned
        /\ ~v.ready /\ v.handling = u.handling /\ ~v.pg
    BY <1>1 DEF RunOK, Calls, Pcs, NewRun
  <2>2. q \in Processes /\ q.st = p.st /\ q.sig = p.sig /\ q.group = p.group /\ q.groupsig = p.groupsig
    <3>1. << >> \in Seq(Frames)
      OBVIOUS
    <3> QED BY <1>1, <3>1, PipeIs DEF RunOK
  <2>3. rr' = [rr EXCEPT !.free = f, !.run = [rr.run EXCEPT ![r] = v], !.proc = [rr.proc EXCEPT ![r] = q]]
    BY <1>1, <1>3 DEF EndRun, RRState, WithPipe
  <2>4. u.pc = "final" /\ f \in Nat /\ (u.slot => f = rr.free + 1) /\ (~u.slot => f = rr.free)
    BY <1>1, <1>3 DEF EndRun
  <2> HIDE DEF v, q, f
  <2>5. rr' = Put(rr, f, r, v, q)
    BY <1>1, <2>3 DEF Put, RRState
  <2>6. Allowed(f, u, p, v, q)
    BY <1>1, <2>1, <2>2, <2>4 DEF Allowed, SlotsMove, RunOK, CallOK, ProcessOK, Holding, Doomed, GroupDoomed, Alive, Early
  <2> QED BY <2>5, <2>6, RunnerStep
<1> QED BY <1>2, <1>3
-----------------------------------------------------------------------------
(* What the run reads of its process.                                      *)

ReadFrom(p) == WithPipe(p, Tail(p.pipe))
ServedCall(u) == [u EXCEPT !.ready = TRUE, !.pc = "serve"]
ServedProcess(p, sig) == [p EXCEPT !.st = IF sig = "none" THEN "job" ELSE @]

\* A frame that is read changes the pipe alone.
LEMMA ReadIs ==
  ASSUME RRInv, NEW r \in Runs, rr.proc[r].pipe # << >>
  PROVE LET q == ReadFrom(rr.proc[r])
            rest == [rr EXCEPT !.proc[r].pipe = Tail(@)] IN
        /\ rest = Put(rr, rr.free, r, rr.run[r], q) /\ Head(rr.proc[r].pipe) \in Frames
        /\ q \in Processes /\ q.st = rr.proc[r].st /\ q.sig = rr.proc[r].sig
        /\ q.group = rr.proc[r].group /\ q.groupsig = rr.proc[r].groupsig
        /\ rest \in RRState /\ rest.free = rr.free /\ rest.run[r] = rr.run[r] /\ rest.proc[r] = q
        /\ \A g, w, x : Put(rest, g, r, w, x) = Put(rr, g, r, w, x)
<1> DEFINE p == rr.proc[r]
           q == ReadFrom(p)
           rest == [rr EXCEPT !.proc[r].pipe = Tail(@)]
<1>1. p \in Processes /\ rr \in RRState /\ rr.free \in Nat /\ rr.run[r] \in Calls
  BY RunFacts
<1>2. p.pipe \in Seq(Frames) /\ p.pipe # << >>
  BY <1>1 DEF Processes
<1>3. rest = SetProcess(rr, r, q)
  BY <1>1 DEF SetProcess, ReadFrom, WithPipe, RRState
<1> HIDE DEF p, rest
<1>4. Head(p.pipe) \in Frames /\ Tail(p.pipe) \in Seq(Frames)
  BY <1>2
<1>5. /\ q \in Processes /\ q.st = p.st /\ q.sig = p.sig /\ q.group = p.group /\ q.groupsig = p.groupsig
  BY <1>1, <1>4, PipeIs DEF ReadFrom
<1> HIDE DEF q
<1>6. rest = Put(rr, rr.free, r, rr.run[r], q)
  BY <1>1, <1>3, SetIs
<1>7. /\ rest \in RRState /\ rest.free = rr.free /\ rest.run[r] = rr.run[r] /\ rest.proc[r] = q
      /\ \A g, w, x : Put(rest, g, r, w, x) = Put(rr, g, r, w, x)
  BY <1>1, <1>5, <1>6, PutFields
<1> QED BY <1>4, <1>5, <1>6, <1>7 DEF p, q, rest

\* Reading does not disturb what is known of the process.
LEMMA ReadKeeps ==
  ASSUME NEW u, NEW p, NEW q \in Processes, RunOK(u, p), q.st = p.st, q.sig = p.sig, q.group = p.group, q.groupsig = p.groupsig
  PROVE RunOK(u, q) /\ (Doomed(p) => Doomed(q))
BY DEF RunOK, ProcessOK, Doomed, GroupDoomed, Alive

Sent(c, r, sig) == [c EXCEPT !.proc[r].st = IF sig = "none" THEN "job" ELSE @]

\* The job reaches a process that was not signalled.
LEMMA SentIs ==
  ASSUME NEW c \in RRState, NEW r \in Runs, NEW sig
  PROVE Sent(c, r, sig) = Put(c, c.free, r, c.run[r], ServedProcess(c.proc[r], sig))
<1>1. Sent(c, r, sig) = SetProcess(c, r, ServedProcess(c.proc[r], sig))
  BY DEF RRState, Sent, SetProcess, ServedProcess
<1> QED BY <1>1, SetIs

\* Bootstrap: the ready frame, and then the job.
LEMMA BootstrapKeeps ==
  ASSUME RRInv, NEW r \in Runs, Bootstrap(r)
  PROVE RRInv'
<1> DEFINE u == rr.run[r]
           p == rr.proc[r]
           rest == [rr EXCEPT !.proc[r].pipe = Tail(@)]
           q == ReadFrom(p)
           j == ServedProcess(q, p.sig)
           v == [u EXCEPT !.ready = TRUE]
           w == ServedCall(u)
<1>1. /\ u.pc = "boot" /\ u.handling = 0 /\ u.owned /\ RunOK(u, p) /\ rr \in RRState /\ rr.free \in Nat
      /\ ~(rr.state = "closed") /\ "error" \in Outs
  BY RunFacts DEF Bootstrap, RunOK, CallOK, Outs, Frames
<1>2. CASE rr' = Leave(rr, r, "error")
  BY <1>1, <1>2, LeaveNow
<1>3. CASE p.pipe # << >> /\ ~(rr' = Leave(rr, r, "error"))
  <2>1. /\ rest = Put(rr, rr.free, r, u, q)
        /\ q \in Processes /\ q.st = p.st /\ q.sig = p.sig /\ q.group = p.group /\ q.groupsig = p.groupsig
        /\ rest \in RRState /\ rest.free = rr.free /\ rest.run[r] = u /\ rest.proc[r] = q
        /\ \A g, x, y : Put(rest, g, r, x, y) = Put(rr, g, r, x, y)
    BY <1>3, ReadIs
  <2>2. RunOK(u, q) /\ (Doomed(p) => Doomed(q))
    <3> HIDE DEF rest, q, u, p
    <3> QED BY <1>1, <2>1, ReadKeeps
  <2>3. /\ v \in Calls /\ v.pc = "boot" /\ v.clean = u.clean /\ v.slot = u.slot /\ v.reg = u.reg /\ v.owned
        /\ v.ready /\ v.handling = 0 /\ v.pg = u.pg
    BY <1>1 DEF RunOK, Calls
  <2>4. /\ w \in Calls /\ w.pc = "serve" /\ w.clean = u.clean /\ w.slot = u.slot /\ w.reg = u.reg /\ w.owned
        /\ w.ready /\ w.handling = 0 /\ w.pg = u.pg
    BY <1>1 DEF RunOK, Calls, Pcs, ServedCall
  <2>5. \/ rr' = Leave(rest, r, "error")
        \/ p.st = "ready" /\ rr' = Sent(SetCall(rest, r, w), r, p.sig)
        \/ rr' = Leave(SetCall(rest, r, v), r, "error")
        \/ rr' = SetCall(rest, r, w)
    <3> HIDE DEF q, j, rest
    <3>1. \/ rr' = Leave(rest, r, "error")
          \/ /\ p.st = "ready"
             /\ rr' = Sent([rest EXCEPT !.run[r].ready = TRUE, !.run[r].pc = "serve"], r, p.sig)
          \/ rr' = Leave([rest EXCEPT !.run[r].ready = TRUE], r, "error")
          \/ rr' = [rest EXCEPT !.run[r].ready = TRUE, !.run[r].pc = "serve"]
      BY <1>3 DEF Bootstrap, Sent, rest
    <3>2. [rest EXCEPT !.run[r].ready = TRUE] = SetCall(rest, r, v)
      BY <2>1 DEF SetCall, RRState
    <3>3. [rest EXCEPT !.run[r].ready = TRUE, !.run[r].pc = "serve"] = SetCall(rest, r, w)
      BY <2>1 DEF SetCall, RRState, ServedCall
    <3> QED BY <3>1, <3>2, <3>3
  <2>6. /\ j \in Processes /\ j.sig = p.sig /\ j.group = p.group /\ j.groupsig = p.groupsig
        /\ p.st = "ready" => j.st \in {"ready", "job"} /\ (j.st = "job" => p.sig = "none")
    <3> HIDE DEF q
    <3> QED BY <2>1 DEF Processes, ServedProcess
  <2> HIDE DEF rest, q, j, v, w
  <2>7. CASE rr' = Leave(rest, r, "error")
    <3>1. Before(rr.free, u, p, u, q)
      BY <1>1, <2>1, <2>2 DEF Before, SlotLeft, Holding
    <3> QED BY <1>1, <2>1, <2>7, <3>1, LeaveKeeps
  <2>8. CASE p.st = "ready" /\ rr' = Sent(SetCall(rest, r, w), r, p.sig)
    <3> DEFINE d == SetCall(rest, r, w)
    <3>1. /\ d \in RRState /\ d.run[r] = w /\ d.proc[r] = q /\ d.free = rr.free
          /\ \A g, x, y : Put(d, g, r, x, y) = Put(rr, g, r, x, y)
      <4>1. d = Put(rr, rr.free, r, w, q)
        BY <2>1, SetIs
      <4> HIDE DEF d
      <4> QED BY <1>1, <2>1, <2>4, <4>1, PutFields
    <3> HIDE DEF d
    <3>3. rr' = Put(rr, rr.free, r, w, j)
      BY <2>8, <3>1, SentIs DEF d, j
    <3>2. Allowed(rr.free, u, p, w, j)
      BY <1>1, <2>4, <2>6, <2>8 DEF Allowed, SlotsMove, RunOK, CallOK, ProcessOK, Holding, Doomed, GroupDoomed, Alive, Early
    <3> QED BY <3>2, <3>3, RunnerStep
  <2>9. CASE rr' = Leave(SetCall(rest, r, v), r, "error")
    <3>1. SetCall(rest, r, v) = Put(rr, rr.free, r, v, q)
      BY <2>1, SetIs
    <3>2. CallOK(v) /\ ProcessOK(v, q)
      BY <1>1, <2>2, <2>3 DEF RunOK, CallOK, ProcessOK, Early
    <3>3. Before(rr.free, u, p, v, q)
      BY <1>1, <2>1, <2>2, <2>3, <3>2 DEF Before, SlotLeft, Holding, RunOK
    <3> QED BY <1>1, <2>3, <2>9, <3>1, <3>3, LeaveKeeps
  <2>10. CASE rr' = SetCall(rest, r, w)
    <3>1. rr' = Put(rr, rr.free, r, w, q)
      BY <2>1, <2>10, SetIs
    <3>2. CallOK(w) /\ ProcessOK(w, q)
      BY <1>1, <2>2, <2>4 DEF RunOK, CallOK, ProcessOK, Early
    <3>3. Allowed(rr.free, u, p, w, q)
      BY <1>1, <2>1, <2>2, <2>4, <3>2 DEF Allowed, SlotsMove, Holding, RunOK
    <3> QED BY <3>1, <3>3, RunnerStep
  <2> QED BY <2>5, <2>7, <2>8, <2>9, <2>10
<1> QED BY <1>2, <1>3 DEF Bootstrap

\* Serve: a callback starts, or the run ends with what the process said.
LEMMA ServeKeeps ==
  ASSUME RRInv, NEW r \in Runs, Serve(r)
  PROVE RRInv'
<1> DEFINE u == rr.run[r]
           p == rr.proc[r]
           rest == [rr EXCEPT !.proc[r].pipe = Tail(@)]
           q == ReadFrom(p)
           v == [u EXCEPT !.handling = @ + 1]
<1>1. /\ u.pc = "serve" /\ RunOK(u, p) /\ rr \in RRState /\ rr.free \in Nat /\ u.handling \in Nat
      /\ ~(rr.state = "closed") /\ "error" \in Outs
  BY RunFacts DEF Serve, RunOK, Outs, Frames, Calls
<1>2. CASE rr' = EndServe(rr, r, "error")
  BY <1>1, <1>2, UnwindNow
<1>3. CASE p.pipe # << >> /\ ~(rr' = EndServe(rr, r, "error"))
  <2>1. /\ rest = Put(rr, rr.free, r, u, q) /\ Head(p.pipe) \in Frames
        /\ q \in Processes /\ q.st = p.st /\ q.sig = p.sig /\ q.group = p.group /\ q.groupsig = p.groupsig
        /\ rest \in RRState /\ rest.free = rr.free /\ rest.run[r] = u /\ rest.proc[r] = q
        /\ \A g, x, y : Put(rest, g, r, x, y) = Put(rr, g, r, x, y)
    BY <1>3, ReadIs
  <2>2. RunOK(u, q) /\ (Doomed(p) => Doomed(q))
    <3> HIDE DEF rest, q, u, p
    <3> QED BY <1>1, <2>1, ReadKeeps
  <2>3. /\ v \in Calls /\ v.pc = "serve" /\ v.clean = u.clean /\ v.slot = u.slot /\ v.reg = u.reg /\ v.owned = u.owned
        /\ v.ready = u.ready /\ v.pg = u.pg
    BY <1>1 DEF RunOK, Calls
  <2>4. Before(rr.free, u, p, u, q)
    BY <1>1, <2>1, <2>2 DEF Before, SlotLeft, Holding
  <2> HIDE DEF q
  <2>5. \/ rr' = [rest EXCEPT !.run[r].handling = @ + 1]
        \/ rr' = EndServe(rest, r, "error")
        \/ u.handling = 0 /\ rr' = Leave(rest, r, Head(p.pipe))
    <3>1. /\ p.pipe # << >>
          /\ rr' = CASE Head(p.pipe) = "call" -> [rest EXCEPT !.run[r].handling = @ + 1]
                     [] Head(p.pipe) # "call" /\ u.handling > 0 -> EndServe(rest, r, "error")
                     [] OTHER -> Leave(rest, r, Head(p.pipe))
      BY <1>3 DEF Serve, rest
    <3> HIDE DEF rest
    <3>2. CASE Head(p.pipe) = "call"
      BY <3>1, <3>2
    <3>3. CASE Head(p.pipe) # "call" /\ u.handling > 0
      BY <3>1, <3>3
    <3>4. CASE Head(p.pipe) # "call" /\ ~(u.handling > 0)
      BY <1>1, <3>1, <3>4
    <3> QED BY <3>2, <3>3, <3>4
  <2>6. [rest EXCEPT !.run[r].handling = @ + 1] = SetCall(rest, r, v)
    <3> HIDE DEF rest
    <3> QED BY <2>1 DEF SetCall, RRState
  <2> HIDE DEF rest, v
  <2>7. CASE rr' = SetCall(rest, r, v)
    <3>1. rr' = Put(rr, rr.free, r, v, q)
      BY <2>1, <2>7, SetIs
    <3>2. CallOK(v) /\ ProcessOK(v, q)
      BY <1>1, <2>2, <2>3 DEF RunOK, CallOK, ProcessOK, Early
    <3>3. Allowed(rr.free, u, p, v, q)
      BY <1>1, <2>1, <2>2, <2>3, <3>2 DEF Allowed, SlotsMove, Holding, RunOK
    <3> QED BY <3>1, <3>3, RunnerStep
  <2>8. CASE rr' = EndServe(rest, r, "error")
    BY <1>1, <2>1, <2>4, <2>8, UnwindKeeps
  <2>9. CASE u.handling = 0 /\ rr' = Leave(rest, r, Head(p.pipe))
    <3>1. Head(p.pipe) \in Outs
      BY <2>1 DEF Outs
    <3> QED BY <1>1, <2>1, <2>4, <2>9, <3>1, LeaveKeeps
  <2> QED BY <2>5, <2>6, <2>7, <2>8, <2>9
<1> QED BY <1>2, <1>3 DEF Serve

\* AnswerCallback and CallbackCancelled: one callback less is at work.
LEMMA CallbackKeeps ==
  ASSUME RRInv, NEW r \in Runs, AnswerCallback(r) \/ CallbackCancelled(r)
  PROVE RRInv'
<1> DEFINE u == rr.run[r]
           p == rr.proc[r]
           v == [u EXCEPT !.handling = @ - 1]
           w == [u EXCEPT !.unwinding = @ - 1]
           z == [u EXCEPT !.unwinding = 0]
<1>1. /\ u.pc \in {"serve", "unwind"} /\ RunOK(u, p) /\ rr \in RRState /\ rr.free \in Nat
      /\ ~(rr.state = "closed") /\ "error" \in Outs /\ u.out \in Outs
  BY RunFacts DEF AnswerCallback, CallbackCancelled, RunOK, Outs, Frames, Calls
<1>2. CASE AnswerCallback(r)
  <2>1. u.pc = "serve" /\ u.handling > 0 /\ (rr' = SetCall(rr, r, v) \/ rr' = EndServe(SetCall(rr, r, v), r, "error"))
    BY <1>1, <1>2 DEF AnswerCallback, SetCall, RRState
  <2>2. /\ v \in Calls /\ v.pc = "serve" /\ v.clean = u.clean /\ v.slot = u.slot /\ v.reg = u.reg /\ v.owned = u.owned
        /\ v.ready = u.ready /\ v.pg = u.pg
    BY <1>1, <2>1 DEF RunOK, Calls
  <2> HIDE DEF v
  <2>3. CallOK(v) /\ ProcessOK(v, p)
    BY <1>1, <2>1, <2>2 DEF RunOK, CallOK, ProcessOK, Early
  <2>4. Allowed(rr.free, u, p, v, p) /\ Before(rr.free, u, p, v, p)
    BY <1>1, <2>1, <2>2, <2>3 DEF Allowed, SlotsMove, Before, SlotLeft, Holding, RunOK
  <2>5. SetCall(rr, r, v) = Put(rr, rr.free, r, v, p)
    BY <1>1, SetIs
  <2>6. CASE rr' = SetCall(rr, r, v)
    BY <2>4, <2>5, <2>6, RunnerStep
  <2>7. CASE rr' = EndServe(SetCall(rr, r, v), r, "error")
    BY <1>1, <2>2, <2>4, <2>5, <2>7, UnwindKeeps
  <2> QED BY <2>1, <2>6, <2>7
<1>3. CASE CallbackCancelled(r)
  <2>1. /\ u.pc = "unwind" /\ u.unwinding > 0 /\ u.handling = 0
        /\ \/ u.unwinding > 1 /\ rr' = SetCall(rr, r, w)
           \/ rr' = Leave(SetCall(rr, r, z), r, u.out)
    <3>1. [rr EXCEPT !.run[r].unwinding = @ - 1] = SetCall(rr, r, w) /\ [rr EXCEPT !.run[r].unwinding = 0] = SetCall(rr, r, z)
      BY <1>1 DEF SetCall, RRState
    <3> QED BY <1>1, <1>3, <3>1 DEF CallbackCancelled, RunOK, CallOK
  <2>2. /\ u.unwinding > 1 => w \in Calls
        /\ w.pc = u.pc /\ w.clean = u.clean /\ w.slot = u.slot /\ w.reg = u.reg /\ w.owned = u.owned
        /\ w.ready = u.ready /\ w.pg = u.pg /\ w.handling = u.handling
    BY <1>1, <2>1 DEF RunOK, Calls
  <2>3. /\ z \in Calls /\ z.pc = u.pc /\ z.clean = u.clean /\ z.slot = u.slot /\ z.reg = u.reg /\ z.owned = u.owned
        /\ z.ready = u.ready /\ z.pg = u.pg /\ z.handling = u.handling
    BY <1>1, <2>1 DEF RunOK, Calls
  <2> HIDE DEF w, z
  <2>4. CASE u.unwinding > 1 /\ rr' = SetCall(rr, r, w)
    <3>1. CallOK(w) /\ ProcessOK(w, p)
      BY <1>1, <2>2 DEF RunOK, CallOK, ProcessOK, Early
    <3>2. Allowed(rr.free, u, p, w, p)
      BY <1>1, <2>1, <2>2, <2>4, <3>1 DEF Allowed, SlotsMove, Holding, RunOK
    <3> QED BY <1>1, <2>4, <3>2, SetIs, RunnerStep
  <2>5. CASE rr' = Leave(SetCall(rr, r, z), r, u.out)
    <3>1. CallOK(z) /\ ProcessOK(z, p)
      BY <1>1, <2>3 DEF RunOK, CallOK, ProcessOK, Early
    <3>2. Before(rr.free, u, p, z, p)
      BY <1>1, <2>1, <2>3, <3>1 DEF Before, SlotLeft, Holding, RunOK
    <3>3. SetCall(rr, r, z) = Put(rr, rr.free, r, z, p)
      BY <1>1, SetIs
    <3> QED BY <1>1, <2>1, <2>3, <2>5, <3>2, <3>3, LeaveKeeps
  <2> QED BY <2>1, <2>4, <2>5
<1> QED BY <1>2, <1>3

-----------------------------------------------------------------------------
(* The close.                                                              *)

\* The close starts the cleanup of every process there is (Finish).
LEMMA FinishOK ==
  ASSUME NEW u, NEW p, RunOK(u, p)
  PROVE /\ u.owned => /\ RunOK(FinishedCall(u), FinishedProcess(u, p)) /\ FinishedCall(u).clean # "none"
                      /\ Holding(FinishedCall(u)) <=> Holding(u)
        /\ ~u.owned => Doomed(p)
<1>1. CASE ~u.owned
  BY <1>1 DEF RunOK, ProcessOK, Doomed, Alive
<1>2. CASE u.owned /\ u.clean # "none"
  BY <1>2 DEF FinishedCall, FinishedProcess
<1>3. CASE u.owned /\ u.clean = "none"
  <2> DEFINE v == FinishedCall(u)
             q == FinishedProcess(u, p)
  <2>1. /\ v \in Calls /\ v.pc = u.pc /\ v.slot = u.slot /\ v.reg = u.reg /\ v.owned /\ v.ready = u.ready
        /\ v.handling = u.handling /\ v.clean = "term" /\ v.pg = u.ready
    BY <1>3 DEF FinishedCall, RunOK, Calls, Cleans
  <2>2. q \in Processes /\ q.st = p.st /\ q.group = p.group /\ (Alive(q) => q.sig = "term")
    <3>1. q = Signal(p, u.ready, "term") /\ u.ready \in BOOLEAN /\ p \in Processes /\ "term" \in Sigs
      BY <1>3 DEF FinishedProcess, RunOK, Calls, Sigs
    <3> HIDE DEF q
    <3> QED BY <3>1, FinishedSignal
  <2> HIDE DEF v, q
  <2>3. CallOK(v) /\ ProcessOK(v, q)
    BY <1>3, <2>1, <2>2 DEF RunOK, CallOK, ProcessOK, Alive, Early
  <2> QED BY <1>3, <2>1, <2>2, <2>3 DEF RunOK, Holding, v, q
<1> QED BY <1>1, <1>2, <1>3 DEF RunOK, Calls

\* StartClose.
LEMMA StartKeeps ==
  ASSUME RRInv, StartClose
  PROVE RRInv'
<1> DEFINE U(r) == IF rr.run[r].owned THEN FinishedCall(rr.run[r]) ELSE rr.run[r]
           P(r) == IF rr.run[r].owned THEN FinishedProcess(rr.run[r], rr.proc[r]) ELSE rr.proc[r]
<1>1. ASSUME NEW r \in Runs
      PROVE /\ Finish(rr, r).run[r] = FinishedCall(rr.run[r])
            /\ Finish(rr, r).proc[r] = FinishedProcess(rr.run[r], rr.proc[r])
            /\ RunOK(rr.run[r], rr.proc[r])
  <2>1. rr \in RRState /\ rr.run[r] \in Calls /\ rr.proc[r] \in Processes /\ rr.free \in Nat /\ RunOK(rr.run[r], rr.proc[r])
    BY RunFacts
  <2> DEFINE v == FinishedCall(rr.run[r])
             q == FinishedProcess(rr.run[r], rr.proc[r])
  <2>2. Finish(rr, r) = Put(rr, rr.free, r, v, q) /\ v \in Calls /\ q \in Processes
    BY <2>1, FinishIs, FinishTyped
  <2> HIDE DEF v, q
  <2> QED BY <2>1, <2>2, PutFields DEF v, q
<1>2. /\ rr.state = "running" /\ rr'.state = "closing" /\ rr'.free = rr.free /\ rr'.close = "owners" /\ rr'.snapshot = Owned
      /\ rr' = [state |-> "closing", free |-> rr.free, close |-> "owners", snapshot |-> Owned,
                run |-> [r \in Runs |-> U(r)], proc |-> [r \in Runs |-> P(r)]]
  <2>1. ASSUME NEW r \in Runs
        PROVE /\ (IF r \in Owned THEN Finish(rr, r) ELSE rr).run[r] = U(r)
              /\ (IF r \in Owned THEN Finish(rr, r) ELSE rr).proc[r] = P(r)
    <3>1. CASE rr.run[r].owned
      BY <1>1, <3>1 DEF Owned
    <3>2. CASE ~rr.run[r].owned
      BY <3>2 DEF Owned
    <3> QED BY <3>1, <3>2
  <2> HIDE DEF U, P
  <2>2. /\ [r \in Runs |-> (IF r \in Owned THEN Finish(rr, r) ELSE rr).run[r]] = [r \in Runs |-> U(r)]
        /\ [r \in Runs |-> (IF r \in Owned THEN Finish(rr, r) ELSE rr).proc[r]] = [r \in Runs |-> P(r)]
    BY <2>1
  <2> QED BY <2>2 DEF StartClose
<1>3. ASSUME NEW r \in Runs
      PROVE /\ RunOK(U(r), P(r)) /\ (Holding(U(r)) <=> Holding(rr.run[r]))
            /\ r \in Owned => U(r).clean # "none"
            /\ r \notin Owned => Doomed(P(r))
  BY <1>1, FinishOK DEF Owned
<1> HIDE DEF U, P
<1>4. \A r \in Runs : U(r) \in Calls /\ P(r) \in Processes
  BY <1>3 DEF RunOK
<1>5. \A r \in Runs : rr'.run[r] = U(r) /\ rr'.proc[r] = P(r)
  BY <1>2
<1>6. rr' \in RRState
  <2>1. rr.free \in Nat /\ Owned \subseteq Runs
    BY DEF RRInv, RRState, Owned
  <2> QED BY <1>2, <1>4, <2>1 DEF RRState
<1>7. RunnerOK'
  BY <1>2, <1>3, <1>5 DEF RunnerOK, Owned
<1>8. SlotsOK'
  <2>1. {r \in Runs : Holding(rr'.run[r])} = {r \in Runs : Holding(rr.run[r])}
    BY <1>3, <1>5
  <2> QED BY <1>2, <2>1 DEF RRInv, SlotsOK
<1> QED BY <1>3, <1>5, <1>6, <1>7, <1>8 DEF RRInv

\* CloseOwners and CloseDrained: every cleanup has ended, then every run.
LEMMA ClosingKeeps ==
  ASSUME RRInv, CloseOwners \/ CloseDrained
  PROVE RRInv'
<1>1. rr \in RRState /\ \A r \in Runs : RunOK(rr.run[r], rr.proc[r])
  BY DEF RRInv
<1>2. /\ rr'.run = rr.run /\ rr'.proc = rr.proc /\ rr'.free = rr.free /\ rr'.snapshot = rr.snapshot /\ rr' \in RRState
      /\ \/ rr.close = "owners" /\ rr'.close = "drain" /\ rr'.state = rr.state /\ \A r \in rr.snapshot : ~Open(rr.run[r])
         \/ /\ rr.close = "drain" /\ rr'.close = "done" /\ rr'.state = "closed"
            /\ \A r \in Runs : ~rr.run[r].reg
  BY <1>1 DEF CloseOwners, CloseDrained, RRState
<1>3. SlotsOK' /\ \A r \in Runs : RunOK(rr'.run[r], rr'.proc[r])
  BY <1>1, <1>2 DEF RRInv, SlotsOK
<1>4. RunnerOK'
  <2>1. CASE rr.close = "owners" /\ rr'.close = "drain" /\ rr'.state = rr.state /\ \A r \in rr.snapshot : ~Open(rr.run[r])
    <3>1. \A r \in rr.snapshot : Doomed(rr.proc[r])
      BY <1>1, <2>1 DEF RRState, Open, RunOK, ProcessOK, Doomed
    <3> QED BY <1>2, <2>1, <3>1 DEF RRInv, RunnerOK
  <2>2. CASE rr.close = "drain" /\ rr'.close = "done" /\ rr'.state = "closed" /\ \A r \in Runs : ~rr.run[r].reg
    <3>1. \A r \in Runs : rr.run[r].pc \in {"new", "over"}
      BY <1>1, <2>2 DEF RunOK, CallOK
    <3> QED BY <1>2, <2>2, <3>1 DEF RRInv, RunnerOK
  <2> QED BY <1>2, <2>1, <2>2
<1> QED BY <1>2, <1>3, <1>4 DEF RRInv

-----------------------------------------------------------------------------

\* No run has begun.
LEMMA RunnerStarts ==
  ASSUME RRInit
  PROVE RRInv
<1>1. NewRun \in Calls /\ NoProcess \in Processes
  <2>1. << >> \in Seq(Frames)
    OBVIOUS
  <2> QED BY <2>1 DEF NewRun, NoProcess, Calls, Processes, Pcs, Early, Cleans, Outs, Sigs
<1>2. RunOK(NewRun, NoProcess) /\ ~Holding(NewRun)
  BY <1>1 DEF RunOK, CallOK, ProcessOK, NewRun, NoProcess, Doomed, GroupDoomed, Alive, Early, Holding
<1>3. /\ rr.state = "running" /\ rr.free = Capacity /\ rr.close = "none" /\ rr.snapshot = {}
      /\ \A r \in Runs : rr.run[r] = NewRun /\ rr.proc[r] = NoProcess
  BY DEF RRInit
<1>4. rr \in RRState
  BY <1>1, RunnerAssumption DEF RRInit, RRState
<1>5. RunnerOK
  BY <1>3 DEF RunnerOK
<1>6. SlotsOK
  <2>1. {r \in Runs : Holding(rr.run[r])} = {}
    BY <1>2, <1>3
  <2> QED BY <1>3, <2>1, FS_EmptySet, RunnerAssumption DEF SlotsOK
<1> QED BY <1>2, <1>3, <1>4, <1>5, <1>6 DEF RRInv

\* The slots, the calls and their processes stay in step, whatever happens to
\* them (deep_research_process.py).
THEOREM RunnerInvariant == RRSpec => []RRInv
<1>1. RRInit => RRInv
  BY RunnerStarts
<1>2. RRInv /\ [RRNext]_rr => RRInv'
  <2> SUFFICES ASSUME RRInv, [RRNext]_rr PROVE RRInv'
    OBVIOUS
  <2>1. CASE UNCHANGED rr
    <3>1. /\ RRState' = RRState /\ RunnerOK' = RunnerOK /\ SlotsOK' = SlotsOK
      BY <2>1 DEF RRState, RunnerOK, SlotsOK
    <3> QED BY <2>1, <3>1 DEF RRInv
  <2>2. ASSUME NEW r \in Runs, RunStep(r)
        PROVE RRInv'
    BY <2>2, RegisterKeeps, AcquireKeeps, SpawnKeeps, ServeKeeps, CallbackKeeps, ReapKeeps, TimeoutKeeps, DrainKeeps,
       EndKeeps DEF RunStep
  <2>3. ASSUME NEW r \in Runs,
               \/ GrantSlot(r) \/ RefuseSlot(r) \/ Bootstrap(r) \/ CancelRun(r) \/ ChildReady(r) \/ ChildCalls(r)
               \/ ChildForks(r) \/ ChildEnds(r) \/ ChildCrashes(r) \/ ChildKilled(r) \/ GroupKilled(r) \/ GroupEnds(r)
        PROVE RRInv'
    BY <2>3, GrantKeeps, RefuseKeeps, BootstrapKeeps, CancelKeeps, ChildKeeps
  <2>4. CASE StartClose \/ CloseOwners \/ CloseDrained
    BY <2>4, StartKeeps, ClosingKeeps
  <2> QED BY <2>1, <2>2, <2>3, <2>4 DEF RRNext
<1> QED BY <1>1, <1>2, PTL DEF RRSpec

\* A run that is over, and a runner that is closed, leave no process behind
\* that was not sent a SIGKILL, and every slot is accounted for (run(),
\* _finish_child, aclose in deep_research_process.py).
THEOREM NothingIsLeftRunning == RRSpec => []NothingOutlivesItsRun
<1>1. RRInv => NothingOutlivesItsRun
  <2> SUFFICES ASSUME RRInv PROVE NothingOutlivesItsRun
    OBVIOUS
  <2>1. rr.free + Cardinality({r \in Runs : rr.run[r].slot \/ rr.run[r].pc \in {"granted", "admitted"}}) = Capacity
    BY DEF RRInv, SlotsOK, Holding
  <2>2. ASSUME NEW r \in Runs
        PROVE /\ rr.run[r].pc = "over" => /\ Alive(rr.proc[r]) => rr.proc[r].sig = "kill"
                                          /\ rr.proc[r].group => rr.proc[r].groupsig = "kill"
                                          /\ rr.run[r].handling = 0
              /\ rr.state = "closed" => rr.run[r].pc \in {"new", "over"}
              /\ rr.close \in {"drain", "done"} /\ Alive(rr.proc[r]) => rr.proc[r].sig = "kill"
    BY DEF RRInv, RunnerOK, RunOK, CallOK, ProcessOK, Doomed, GroupDoomed
  <2> QED BY <2>1, <2>2 DEF NothingOutlivesItsRun
<1> QED BY <1>1, RunnerInvariant, PTL

-----------------------------------------------------------------------------
(* The scoring tasks.                                                      *)

Places == {"none", "acquired", "fetch", "evaluate", "finally", "release", "sleep", "turn", "ended"}
Working == {"acquired", "fetch", "evaluate", "finally", "release"}
TaskRecords == [pc : Places, lease : Nat, catalog : SUBSET Models, full : BOOLEAN, cancel : BOOLEAN]
Snapshots == [models : SUBSET Models, done : SUBSET Models, count : Nat, ready : BOOLEAN]
MSState == [life : {"new", "running", "stopping", "stopped"}, running : BOOLEAN, manualRunning : BOOLEAN,
            lock : Refreshers \cup {"free"}, snap : Snapshots, gen : Nat, configured : BOOLEAN, asked : Nat, evals : Nat,
            evalRunning : BOOLEAN, evalStopping : BOOLEAN, stop : {"no", "cancel", "wait"}, task : [Tasks -> TaskRecords]]

Over(k) == k.pc \in {"none", "ended"}
TasksOK(c) ==
  /\ \A t \in Tasks : c.task[t].lease # 0 => c.task[t].pc \in Working
  /\ \A t \in Refreshers : c.lock = t => c.task[t].pc \in {"fetch", "evaluate"}
  /\ c.task["eval"].pc = "evaluate" => c.evalRunning
LifeOK(c) ==
  /\ c.running <=> c.life = "running"
  /\ c.life \in {"new", "stopped"} => \A t \in Refreshers : Over(c.task[t])
  /\ c.manualRunning <=> c.life = "running" /\ ~Over(c.task["manual"])
  /\ c.stop # "no" => c.life = "stopping"
SnapshotOK(s) == s.count = Cardinality(s.done) /\ s.done \subseteq s.models
ScoringOK(c) == c \in MSState /\ TasksOK(c) /\ LifeOK(c) /\ SnapshotOK(c.snap)

\* A step of one task: its record, the lock and the flag of the manual one.
TaskTurn(c, t, k, l, b) == [c EXCEPT !.task = [c.task EXCEPT ![t] = k], !.lock = l, !.manualRunning = b]

\* The fields such a step leaves.
LEMMA TurnIs ==
  ASSUME NEW c \in MSState, NEW t \in Tasks, NEW k \in TaskRecords, NEW l \in Refreshers \cup {"free"}, NEW b \in BOOLEAN
  PROVE LET d == TaskTurn(c, t, k, l, b) IN
        /\ d \in MSState /\ d.task[t] = k /\ (\A s \in Tasks \ {t} : d.task[s] = c.task[s])
        /\ d.lock = l /\ d.manualRunning = b /\ d.life = c.life /\ d.running = c.running /\ d.snap = c.snap
        /\ d.evalRunning = c.evalRunning /\ d.stop = c.stop
BY DEF MSState, TaskTurn

\* A task may move on with its lease and its lock, or without either.
LEMMA TurnKeeps ==
  ASSUME NEW c, ScoringOK(c), NEW t \in Refreshers, NEW k \in TaskRecords, NEW l \in Refreshers \cup {"free"}, NEW b \in BOOLEAN,
         k.lease # 0 => k.pc \in Working,
         l = c.lock \/ l = "free" \/ (l = t /\ k.pc \in {"fetch", "evaluate"}),
         l = t => k.pc \in {"fetch", "evaluate"},
         c.life \in {"new", "stopped"} => Over(k),
         t = "manual" => (b <=> c.life = "running" /\ ~Over(k)),
         t = "periodic" => b = c.manualRunning
  PROVE ScoringOK(TaskTurn(c, t, k, l, b))
<1> DEFINE d == TaskTurn(c, t, k, l, b)
<1>1. c \in MSState /\ TasksOK(c) /\ LifeOK(c) /\ SnapshotOK(c.snap) /\ t \in Tasks /\ t # "eval"
  BY DEF ScoringOK, Refreshers, Tasks
<1>2. /\ d \in MSState /\ d.task[t] = k /\ (\A s \in Tasks \ {t} : d.task[s] = c.task[s])
      /\ d.lock = l /\ d.manualRunning = b /\ d.life = c.life /\ d.running = c.running /\ d.snap = c.snap
      /\ d.evalRunning = c.evalRunning /\ d.stop = c.stop
  BY <1>1, TurnIs
<1> HIDE DEF d
<1>3. TasksOK(d)
  <2>1. "eval" \in Tasks /\ Refreshers \subseteq Tasks
    BY DEF Tasks, Refreshers
  <2>2. \A s \in Tasks : d.task[s].lease # 0 => d.task[s].pc \in Working
    BY <1>1, <1>2 DEF TasksOK
  <2>3. \A s \in Refreshers : d.lock = s => d.task[s].pc \in {"fetch", "evaluate"}
    <3>1. TAKE s \in Refreshers
    <3>2. s # "free"
      BY DEF Refreshers
    <3>3. CASE s = t
      BY <1>2, <3>3
    <3>4. CASE s # t
      BY <1>1, <1>2, <2>1, <3>2, <3>4 DEF TasksOK
    <3> QED BY <3>3, <3>4
  <2>4. d.task["eval"].pc = "evaluate" => d.evalRunning
    BY <1>1, <1>2, <2>1 DEF TasksOK
  <2> QED BY <2>2, <2>3, <2>4 DEF TasksOK
<1>4. LifeOK(d)
  <2>1. "manual" \in Tasks /\ Refreshers = {"manual", "periodic"} /\ Refreshers \subseteq Tasks
    BY DEF Tasks, Refreshers
  <2> QED BY <1>1, <1>2, <2>1 DEF LifeOK
<1> QED BY <1>1, <1>2, <1>3, <1>4 DEF ScoringOK, d

EndedTask == [NoTask EXCEPT !.pc = "ended"]
EndManual(c, t) == [End(c, t) EXCEPT !.manualRunning = FALSE]
LockAfter(c, t) == IF c.lock = t THEN "free" ELSE c.lock

\* A task that ends, field by field (End).
LEMMA EndIs ==
  ASSUME NEW c \in MSState, NEW t \in Tasks
  PROVE /\ End(c, t) = TaskTurn(c, t, EndedTask, LockAfter(c, t), c.manualRunning)
        /\ EndManual(c, t) = TaskTurn(c, t, EndedTask, LockAfter(c, t), FALSE)
        /\ EndedTask \in TaskRecords /\ EndedTask.pc = "ended" /\ EndedTask.lease = 0
        /\ LockAfter(c, t) \in Refreshers \cup {"free"}
<1>1. EndedTask \in TaskRecords /\ EndedTask.pc = "ended" /\ EndedTask.lease = 0
  BY DEF EndedTask, NoTask, TaskRecords, Places
<1>2. End(c, t) = TaskTurn(c, t, EndedTask, LockAfter(c, t), c.manualRunning)
  BY DEF End, TaskTurn, EndedTask, LockAfter, MSState
<1>3. EndManual(c, t) = TaskTurn(c, t, EndedTask, LockAfter(c, t), FALSE)
  BY DEF EndManual, End, TaskTurn, EndedTask, LockAfter, MSState
<1>4. LockAfter(c, t) \in Refreshers \cup {"free"}
  BY DEF LockAfter, MSState
<1> QED BY <1>1, <1>2, <1>3, <1>4

AtRest(c, t) == [c EXCEPT !.lock = IF @ = t THEN "free" ELSE @, !.task[t].lease = 0, !.task[t].catalog = {}]
IdleTask(k) == [k EXCEPT !.lease = 0, !.catalog = {}]
Rest(c, t) == [c EXCEPT !.task[t].pc = IF c.running THEN "sleep" ELSE "ended"]
RestedTask(k, running) == [k EXCEPT !.pc = IF running THEN "sleep" ELSE "ended"]

\* The lock and the lease that go back, and the place where the loop rests.
LEMMA IdleIs ==
  ASSUME NEW c \in MSState, NEW t \in Tasks
  PROVE /\ AtRest(c, t) = TaskTurn(c, t, IdleTask(c.task[t]), LockAfter(c, t), c.manualRunning)
        /\ IdleTask(c.task[t]) \in TaskRecords /\ IdleTask(c.task[t]).lease = 0
        /\ Rest(c, t) = TaskTurn(c, t, RestedTask(c.task[t], c.running), c.lock, c.manualRunning)
<1>1. AtRest(c, t) = TaskTurn(c, t, IdleTask(c.task[t]), LockAfter(c, t), c.manualRunning)
  BY DEF AtRest, TaskTurn, IdleTask, LockAfter, MSState
<1>2. Rest(c, t) = TaskTurn(c, t, RestedTask(c.task[t], c.running), c.lock, c.manualRunning)
  BY DEF Rest, TaskTurn, RestedTask, MSState
<1>3. IdleTask(c.task[t]) \in TaskRecords /\ IdleTask(c.task[t]).lease = 0
  <2> DEFINE k == c.task[t]
  <2>1. k \in TaskRecords
    BY DEF MSState
  <2> HIDE DEF k
  <2>2. IdleTask(k) \in TaskRecords /\ IdleTask(k).lease = 0
    BY <2>1 DEF IdleTask, TaskRecords
  <2> QED BY <2>2 DEF k
<1> QED BY <1>1, <1>2, <1>3

\* A second step of the same task replaces the first.
LEMMA TurnTwice ==
  ASSUME NEW c \in MSState, NEW t \in Tasks, NEW k, NEW l, NEW b, NEW x, NEW m, NEW e
  PROVE TaskTurn(TaskTurn(c, t, k, l, b), t, x, m, e) = TaskTurn(c, t, x, m, e)
<1>1. [[c.task EXCEPT ![t] = k] EXCEPT ![t] = x] = [c.task EXCEPT ![t] = x]
  BY DEF MSState
<1> QED BY <1>1 DEF TaskTurn, MSState

\* The end of a refresh keeps the promise: the lock and the lease go back.
LEMMA AfterRunKeeps ==
  ASSUME NEW c, ScoringOK(c), NEW t \in Refreshers, ~Over(c.task[t])
  PROVE ScoringOK(AfterRun(c, t))
<1>1. c \in MSState /\ t \in Tasks /\ c.task[t] \in TaskRecords /\ c.manualRunning \in BOOLEAN /\ LifeOK(c) /\ c.running \in BOOLEAN
  BY DEF ScoringOK, MSState, Refreshers, Tasks
<1>2. LockAfter(c, t) \in Refreshers \cup {"free"} /\ LockAfter(c, t) # t /\ (LockAfter(c, t) = c.lock \/ LockAfter(c, t) = "free")
  BY <1>1 DEF LockAfter, MSState, Refreshers
<1> DEFINE d == AtRest(c, t)
           k == IdleTask(c.task[t])
           l == LockAfter(c, t)
<1>3. d = TaskTurn(c, t, k, l, c.manualRunning) /\ k \in TaskRecords /\ k.lease = 0
  BY <1>1, IdleIs
<1>4. /\ AfterRun(c, t) = IF t = "periodic" THEN Rest(d, t) ELSE EndManual(d, t)
  BY DEF AfterRun, Rest, AtRest, EndManual
<1> HIDE DEF d, k
<1>5. /\ d \in MSState /\ d.task[t] = k /\ d.lock = l /\ d.manualRunning = c.manualRunning /\ d.running = c.running
      /\ \A x, m, e : TaskTurn(d, t, x, m, e) = TaskTurn(c, t, x, m, e)
  <2>1. l \in Refreshers \cup {"free"}
    BY <1>2
  <2> HIDE DEF l
  <2>2. /\ d \in MSState /\ d.task[t] = k /\ d.lock = l /\ d.manualRunning = c.manualRunning /\ d.running = c.running
    BY <1>1, <1>3, <2>1, TurnIs
  <2>3. \A x, m, e : TaskTurn(d, t, x, m, e) = TaskTurn(c, t, x, m, e)
    BY <1>1, <1>3, TurnTwice
  <2> QED BY <2>2, <2>3
<1>6. LockAfter(d, t) = l
  BY <1>2, <1>5 DEF LockAfter
<1> HIDE DEF l
<1>7. CASE t = "periodic"
  <2> DEFINE x == RestedTask(k, c.running)
  <2>1. x \in TaskRecords /\ x.lease = 0 /\ x.pc = IF c.running THEN "sleep" ELSE "ended"
    BY <1>1, <1>3 DEF RestedTask, TaskRecords, Places
  <2>2. AfterRun(c, t) = TaskTurn(c, t, x, l, c.manualRunning)
    BY <1>1, <1>4, <1>5, <1>7, IdleIs
  <2> HIDE DEF x
  <2>3. ScoringOK(TaskTurn(c, t, x, l, c.manualRunning))
    BY <1>1, <1>2, <1>7, <2>1, TurnKeeps DEF LifeOK, Over, l
  <2> QED BY <2>2, <2>3
<1>8. CASE t = "manual"
  <2>1. /\ AfterRun(c, t) = TaskTurn(c, t, EndedTask, l, FALSE)
        /\ EndedTask \in TaskRecords /\ EndedTask.pc = "ended" /\ EndedTask.lease = 0
    <3>1. AfterRun(c, t) = EndManual(d, t)
      BY <1>4, <1>8
    <3>2. /\ EndManual(d, t) = TaskTurn(d, t, EndedTask, LockAfter(d, t), FALSE)
          /\ EndedTask \in TaskRecords /\ EndedTask.pc = "ended" /\ EndedTask.lease = 0
      BY <1>1, <1>5, EndIs
    <3> QED BY <1>5, <1>6, <3>1, <3>2
  <2>2. ScoringOK(TaskTurn(c, t, EndedTask, l, FALSE))
    BY <1>1, <1>2, <1>8, <2>1, TurnKeeps DEF LifeOK, Over, l
  <2> QED BY <2>1, <2>2
<1> QED BY <1>7, <1>8 DEF Refreshers

WithTask(c, t, k) == [c EXCEPT !.task = [c.task EXCEPT ![t] = k]]

\* A step that touches neither the lock nor the flag.
LEMMA WithTaskIs ==
  ASSUME NEW c \in MSState, NEW t, NEW k
  PROVE WithTask(c, t, k) = TaskTurn(c, t, k, c.lock, c.manualRunning)
BY DEF WithTask, TaskTurn, MSState

\* A ranking that is right may be written at any time.
LEMMA SnapshotKeeps ==
  ASSUME NEW c, ScoringOK(c), NEW s \in Snapshots, SnapshotOK(s)
  PROVE ScoringOK([c EXCEPT !.snap = s]) /\ [c EXCEPT !.snap = s].task = c.task
<1> DEFINE d == [c EXCEPT !.snap = s]
<1>1. c \in MSState /\ TasksOK(c) /\ LifeOK(c)
  BY DEF ScoringOK
<1>2. /\ d \in MSState /\ d.task = c.task /\ d.lock = c.lock /\ d.manualRunning = c.manualRunning /\ d.life = c.life
      /\ d.running = c.running /\ d.snap = s /\ d.evalRunning = c.evalRunning /\ d.stop = c.stop
  BY <1>1 DEF MSState
<1> HIDE DEF d
<1>3. TasksOK(d) /\ LifeOK(d)
  BY <1>1, <1>2 DEF TasksOK, LifeOK
<1> QED BY <1>2, <1>3 DEF ScoringOK, d

\* The rankings a refresh writes (Full, LatencyOnly): what counts as evaluated
\* is what is evaluated.
LEMMA RankingRight ==
  ASSUME NEW s \in Snapshots, SnapshotOK(s), NEW catalog \in SUBSET Models, NEW healthy \in SUBSET catalog
  PROVE /\ Full(catalog, healthy) \in Snapshots /\ SnapshotOK(Full(catalog, healthy))
        /\ s.models = catalog => LatencyOnly(s, healthy) \in Snapshots /\ SnapshotOK(LatencyOnly(s, healthy))
<1>1. IsFiniteSet(healthy) /\ IsFiniteSet(s.done) /\ IsFiniteSet(healthy \ s.done) /\ s.done \in SUBSET Models
  <2>1. s.done \in SUBSET Models
    BY DEF Snapshots
  <2> QED BY <2>1, ScoringAssumption, FS_Subset
<1>2. Cardinality(healthy) \in Nat /\ Cardinality(s.done) \in Nat /\ Cardinality(healthy \ s.done) \in Nat
  BY <1>1, FS_CardinalityType
<1>3. Full(catalog, healthy) \in Snapshots /\ SnapshotOK(Full(catalog, healthy))
  BY <1>2 DEF Full, Snapshots, SnapshotOK
<1>4. ASSUME s.models = catalog
      PROVE LatencyOnly(s, healthy) \in Snapshots /\ SnapshotOK(LatencyOnly(s, healthy))
  <2> DEFINE untested == healthy \ s.done
             d == LatencyOnly(s, healthy)
  <2>1. s.done \cap untested = {} /\ s.done \cup untested \in SUBSET catalog
    BY <1>4 DEF SnapshotOK
  <2>2. Cardinality(s.done \cup untested) = Cardinality(s.done) + Cardinality(untested)
    <3>1. Cardinality({}) = 0
      BY FS_EmptySet
    <3>2. Cardinality(s.done \cup untested) = Cardinality(s.done) + Cardinality(untested) - Cardinality(s.done \cap untested)
      BY <1>1, FS_Union
    <3> QED BY <1>2, <2>1, <3>1, <3>2
  <2>3. d \in Snapshots /\ d.done = s.done \cup untested /\ d.count = s.count + Cardinality(untested) /\ d.models = catalog
    <3>1. d = [s EXCEPT !.done = s.done \cup untested, !.count = s.count + Cardinality(untested)]
      BY DEF LatencyOnly, Snapshots
    <3>2. s.done \cup untested \in SUBSET Models /\ s.count + Cardinality(untested) \in Nat
      BY <1>1, <1>2, <2>1 DEF Snapshots
    <3> HIDE DEF untested, d
    <3> QED BY <1>4, <3>1, <3>2 DEF Snapshots
  <2> HIDE DEF d
  <2> QED BY <2>1, <2>2, <2>3 DEF SnapshotOK, d
<1> QED BY <1>3, <1>4

MovedTask(k, pc) == [k EXCEPT !.pc = pc]
FetchedTask(k, catalog) == [k EXCEPT !.pc = "evaluate", !.catalog = catalog]

\* A refresh keeps the promise at each of its awaits (_execute_runtime_run).
LEMMA RefreshKeeps ==
  ASSUME ScoringOK(ms), NEW t \in Refreshers, RefreshStep(t)
  PROVE ScoringOK(ms')
<1> DEFINE k == ms.task[t]
<1>1. /\ ms \in MSState /\ t \in Tasks /\ k \in TaskRecords /\ ms.manualRunning \in BOOLEAN /\ LifeOK(ms) /\ TasksOK(ms)
      /\ SnapshotOK(ms.snap) /\ ms.snap \in Snapshots /\ ms.lock \in Refreshers \cup {"free"} /\ t # "free"
  BY DEF ScoringOK, MSState, Refreshers, Tasks
<1>2. CASE ~Over(k) /\ ms' = AfterRun(ms, t)
  BY <1>2, AfterRunKeeps
<1>3. CASE LockRefresh(t) /\ ~(ms' = AfterRun(ms, t))
  <2> DEFINE x == MovedTask(k, "fetch")
  <2>1. x \in TaskRecords /\ x.pc = "fetch" /\ x.lease = k.lease
    BY <1>1 DEF MovedTask, TaskRecords, Places
  <2>2. ms' = TaskTurn(ms, t, x, t, ms.manualRunning) /\ k.pc = "acquired"
    BY <1>1, <1>3 DEF LockRefresh, TaskTurn, MovedTask, MSState
  <2> HIDE DEF x
  <2>3. ScoringOK(TaskTurn(ms, t, x, t, ms.manualRunning))
    BY <1>1, <2>1, <2>2, TurnKeeps DEF LifeOK, Over, Working
  <2> QED BY <2>2, <2>3
<1>4. CASE Fetch(t) /\ ~(ms' = AfterRun(ms, t))
  <2>1. PICK m \in SUBSET Models : ms' = [ms EXCEPT !.task[t].pc = "evaluate", !.task[t].catalog = m]
    BY <1>4 DEF Fetch
  <2> DEFINE x == FetchedTask(k, m)
  <2>2. x \in TaskRecords /\ x.pc = "evaluate" /\ x.lease = k.lease
    BY <1>1 DEF FetchedTask, TaskRecords, Places
  <2>3. ms' = TaskTurn(ms, t, x, ms.lock, ms.manualRunning) /\ k.pc = "fetch"
    <3>1. ms' = WithTask(ms, t, x)
      BY <1>1, <2>1 DEF WithTask, FetchedTask, MSState
    <3>2. k.pc = "fetch"
      BY <1>4 DEF Fetch
    <3> HIDE DEF x
    <3> QED BY <1>1, <3>1, <3>2, WithTaskIs
  <2> HIDE DEF x
  <2>4. ScoringOK(TaskTurn(ms, t, x, ms.lock, ms.manualRunning))
    BY <1>1, <2>2, <2>3, TurnKeeps DEF LifeOK, Over, Working
  <2> QED BY <2>3, <2>4
<1>5. CASE Refresh(t)
  <2>1. PICK healthy \in SUBSET k.catalog :
          ms' = AfterRun([ms EXCEPT !.snap = IF ~k.full /\ @.ready /\ @.models = k.catalog THEN LatencyOnly(@, healthy)
                                             ELSE Full(k.catalog, healthy)], t)
    BY <1>5 DEF Refresh
  <2> DEFINE s == IF ~k.full /\ ms.snap.ready /\ ms.snap.models = k.catalog THEN LatencyOnly(ms.snap, healthy)
                  ELSE Full(k.catalog, healthy)
             d == [ms EXCEPT !.snap = s]
  <2>2. k.catalog \in SUBSET Models /\ k.pc = "evaluate"
    BY <1>1, <1>5 DEF TaskRecords, Refresh
  <2>3. s \in Snapshots /\ SnapshotOK(s)
    BY <1>1, <2>2, RankingRight
  <2>4. ms' = AfterRun(d, t)
    BY <2>1
  <2> HIDE DEF s
  <2>5. ScoringOK(d) /\ d.task = ms.task
    BY <2>3, SnapshotKeeps
  <2> HIDE DEF d
  <2>6. ~Over(d.task[t])
    BY <2>2, <2>5 DEF Over
  <2> QED BY <2>4, <2>5, <2>6, AfterRunKeeps
<1>6. CASE Cancelled(t)
  <2> DEFINE b == IF t = "manual" THEN FALSE ELSE ms.manualRunning
             l == LockAfter(ms, t)
  <2>1. ms' = TaskTurn(ms, t, EndedTask, l, b)
    BY <1>1, <1>6 DEF Cancelled, End, TaskTurn, EndedTask, LockAfter, MSState
  <2>2. /\ EndedTask \in TaskRecords /\ EndedTask.pc = "ended" /\ EndedTask.lease = 0
        /\ l \in Refreshers \cup {"free"} /\ l # t /\ (l = ms.lock \/ l = "free")
    BY <1>1, EndIs DEF LockAfter
  <2> HIDE DEF l
  <2>3. ScoringOK(TaskTurn(ms, t, EndedTask, l, b))
    BY <1>1, <2>2, TurnKeeps DEF LifeOK, Over, Refreshers
  <2> QED BY <2>1, <2>3
<1>7. LockRefresh(t) \/ Fetch(t) => ~Over(k)
  BY DEF LockRefresh, Fetch, Over
<1> QED BY <1>2, <1>3, <1>4, <1>5, <1>6, <1>7 DEF RefreshStep

-----------------------------------------------------------------------------
(* The service and the evaluation.                                         *)

\* A step of the service: its life, the counters, and the records of its tasks.
Service(c, life, running, manualRunning, stop, asked, p, m) ==
  [life |-> life, running |-> running, manualRunning |-> manualRunning, lock |-> c.lock, snap |-> c.snap, gen |-> c.gen,
   configured |-> c.configured, asked |-> asked, evals |-> c.evals, evalRunning |-> c.evalRunning,
   evalStopping |-> c.evalStopping, stop |-> stop, task |-> [c.task EXCEPT !["periodic"] = p, !["manual"] = m]]
\* A step of the evaluation.
Evaluation(c, evals, evalRunning, evalStopping, k) ==
  [life |-> c.life, running |-> c.running, manualRunning |-> c.manualRunning, lock |-> c.lock, snap |-> c.snap, gen |-> c.gen,
   configured |-> c.configured, asked |-> c.asked, evals |-> evals, evalRunning |-> evalRunning,
   evalStopping |-> evalStopping, stop |-> c.stop, task |-> [c.task EXCEPT !["eval"] = k]]

\* What the flags and the tasks must say of each other.
ServiceFits(c, life, running, manualRunning, stop, asked, p, m) ==
  /\ life \in {"new", "running", "stopping", "stopped"} /\ running \in BOOLEAN /\ manualRunning \in BOOLEAN
  /\ stop \in {"no", "cancel", "wait"} /\ asked \in Nat /\ p \in TaskRecords /\ m \in TaskRecords
  /\ p.lease # 0 => p.pc \in Working
  /\ m.lease # 0 => m.pc \in Working
  /\ p.pc = c.task["periodic"].pc \/ Over(c.task["periodic"])
  /\ m.pc = c.task["manual"].pc \/ Over(c.task["manual"])
  /\ running <=> life = "running"
  /\ life \in {"new", "stopped"} => Over(p) /\ Over(m)
  /\ manualRunning <=> life = "running" /\ ~Over(m)
  /\ stop # "no" => life = "stopping"

\* A step that writes the record of the evaluation alone.
LEMMA WithEvalIs ==
  ASSUME NEW c \in MSState, NEW k
  PROVE WithTask(c, "eval", k) = Evaluation(c, c.evals, c.evalRunning, c.evalStopping, k)
BY DEF WithTask, Evaluation, MSState

\* The service may go on when its flags say what its tasks do.
LEMMA ServiceKeeps ==
  ASSUME NEW c, ScoringOK(c), NEW life, NEW running, NEW manualRunning, NEW stop, NEW asked, NEW p, NEW m,
         ServiceFits(c, life, running, manualRunning, stop, asked, p, m)
  PROVE ScoringOK(Service(c, life, running, manualRunning, stop, asked, p, m))
<1> DEFINE d == Service(c, life, running, manualRunning, stop, asked, p, m)
<1>1. c \in MSState /\ TasksOK(c) /\ LifeOK(c) /\ SnapshotOK(c.snap)
  BY DEF ScoringOK
<1>0. /\ life \in {"new", "running", "stopping", "stopped"} /\ running \in BOOLEAN /\ manualRunning \in BOOLEAN
      /\ stop \in {"no", "cancel", "wait"} /\ asked \in Nat /\ p \in TaskRecords /\ m \in TaskRecords
  BY DEF ServiceFits
<1>2. /\ d \in MSState /\ d.task["periodic"] = p /\ d.task["manual"] = m /\ d.task["eval"] = c.task["eval"]
      /\ d.lock = c.lock /\ d.manualRunning = manualRunning /\ d.life = life /\ d.running = running /\ d.snap = c.snap
      /\ d.evalRunning = c.evalRunning /\ d.stop = stop
  <2> DEFINE task == [c.task EXCEPT !["periodic"] = p, !["manual"] = m]
  <2>1. task \in [Tasks -> TaskRecords] /\ task["periodic"] = p /\ task["manual"] = m /\ task["eval"] = c.task["eval"]
    BY <1>0, <1>1 DEF MSState, Tasks
  <2> QED BY <1>0, <1>1, <2>1 DEF MSState, Service
<1> HIDE DEF d
<1>3. TasksOK(d)
  BY <1>0, <1>1, <1>2 DEF TasksOK, Tasks, Refreshers, Over, ServiceFits
<1>4. LifeOK(d)
  BY <1>0, <1>2 DEF LifeOK, Refreshers, ServiceFits
<1> QED BY <1>1, <1>2, <1>3, <1>4 DEF ScoringOK, d

\* The evaluation may go on while its flag covers the work.
LEMMA EvaluationKeeps ==
  ASSUME NEW c, ScoringOK(c), NEW evals \in Nat, NEW evalRunning \in BOOLEAN, NEW evalStopping \in BOOLEAN, NEW k \in TaskRecords,
         k.lease # 0 => k.pc \in Working, k.pc = "evaluate" => evalRunning
  PROVE ScoringOK(Evaluation(c, evals, evalRunning, evalStopping, k))
<1> DEFINE d == Evaluation(c, evals, evalRunning, evalStopping, k)
<1>1. c \in MSState /\ TasksOK(c) /\ LifeOK(c) /\ SnapshotOK(c.snap)
  BY DEF ScoringOK
<1>2. /\ d \in MSState /\ d.task["periodic"] = c.task["periodic"] /\ d.task["manual"] = c.task["manual"] /\ d.task["eval"] = k
      /\ d.lock = c.lock /\ d.manualRunning = c.manualRunning /\ d.life = c.life /\ d.running = c.running /\ d.snap = c.snap
      /\ d.evalRunning = evalRunning /\ d.stop = c.stop
  BY <1>1 DEF MSState, Evaluation, Tasks
<1> HIDE DEF d
<1>3. TasksOK(d)
  BY <1>1, <1>2 DEF TasksOK, Tasks, Refreshers
<1>4. LifeOK(d)
  BY <1>1, <1>2 DEF LifeOK, Refreshers
<1> QED BY <1>1, <1>2, <1>3, <1>4 DEF ScoringOK, d

AcquiredTask(lease) == [NoTask EXCEPT !.pc = "acquired", !.lease = lease]
ManualTask(lease) == [NoTask EXCEPT !.pc = "acquired", !.lease = lease, !.full = TRUE]
CancelledTask(k, b) == [k EXCEPT !.cancel = b]

\* The records these steps write.
LEMMA NoTaskIs == NoTask \in TaskRecords /\ NoTask.pc = "none" /\ NoTask.lease = 0
BY DEF NoTask, TaskRecords, Places

\* A task that begins with the lease of a generation.
LEMMA AcquiredIs ==
  ASSUME NEW lease \in Nat
  PROVE /\ AcquiredTask(lease) \in TaskRecords /\ AcquiredTask(lease).pc = "acquired"
        /\ ManualTask(lease) \in TaskRecords /\ ManualTask(lease).pc = "acquired"
BY DEF NoTask, TaskRecords, Places, AcquiredTask, ManualTask

\* A task that is cancelled, or no longer.
LEMMA CancelledIs ==
  ASSUME NEW k \in TaskRecords, NEW b \in BOOLEAN
  PROVE CancelledTask(k, b) \in TaskRecords /\ CancelledTask(k, b).pc = k.pc /\ CancelledTask(k, b).lease = k.lease
BY DEF TaskRecords, CancelledTask

\* A task that moves on.
LEMMA MovedIs ==
  ASSUME NEW k \in TaskRecords, NEW pc \in Places
  PROVE MovedTask(k, pc) \in TaskRecords /\ MovedTask(k, pc).pc = pc /\ MovedTask(k, pc).lease = k.lease
BY DEF TaskRecords, MovedTask

\* What is known of the service before a step.
LEMMA ScoringFacts ==
  ASSUME ScoringOK(ms)
  PROVE /\ ms \in MSState /\ TasksOK(ms) /\ LifeOK(ms)
        /\ ms.life \in {"new", "running", "stopping", "stopped"} /\ ms.running \in BOOLEAN /\ ms.manualRunning \in BOOLEAN
        /\ ms.stop \in {"no", "cancel", "wait"} /\ ms.asked \in Nat /\ ms.asked + 1 \in Nat /\ ms.gen \in Nat
        /\ ms.evals \in Nat /\ ms.evals + 1 \in Nat /\ ms.evalRunning \in BOOLEAN /\ ms.evalStopping \in BOOLEAN
        /\ \A t \in Tasks : ms.task[t] \in TaskRecords
        /\ \A t \in Tasks : ms.task[t].lease # 0 => ms.task[t].pc \in Working
        /\ "periodic" \in Tasks /\ "manual" \in Tasks /\ "eval" \in Tasks
        /\ "periodic" \in Refreshers /\ "manual" \in Refreshers
BY DEF ScoringOK, MSState, TasksOK, Tasks, Refreshers

\* The steps of the service (start_runtime, the loop, stop).
LEMMA ServiceStepKeeps ==
  ASSUME ScoringOK(ms), StartRuntime \/ StartManual \/ Stop \/ CancelOwned \/ FinishStop \/ Restart
  PROVE ScoringOK(ms')
<1> DEFINE p == ms.task["periodic"]
           m == ms.task["manual"]
<1>1. /\ p = ms.task["periodic"] /\ m = ms.task["manual"] /\ p \in TaskRecords /\ m \in TaskRecords
       /\ (p.lease # 0 => p.pc \in Working) /\ (m.lease # 0 => m.pc \in Working)
  BY ScoringFacts
<1>00. /\ ms.life \in {"new", "running", "stopping", "stopped"} /\ ms.running \in BOOLEAN /\ ms.manualRunning \in BOOLEAN
       /\ ms.stop \in {"no", "cancel", "wait"} /\ ms.asked \in Nat /\ ms.asked + 1 \in Nat
  BY ScoringFacts
<1>0. ms \in MSState /\ "periodic" \in Tasks /\ "manual" \in Tasks /\ "eval" \in Tasks
  BY ScoringFacts
<1>2. CASE StartRuntime
  <2> DEFINE x == AcquiredTask(ms.gen)
  <2>1. x \in TaskRecords /\ x.pc = "acquired"
    BY ScoringFacts, AcquiredIs
  <2>2. ms' = Service(ms, "running", TRUE, ms.manualRunning, ms.stop, ms.asked, x, m) /\ ms.life = "new"
    <3>1. ms.life = "new"
      BY <1>2 DEF StartRuntime
    <3>2. ms' = [ms EXCEPT !.life = "running", !.running = TRUE, !.task["periodic"] = x]
      BY <1>2 DEF StartRuntime, AcquiredTask
    <3> HIDE DEF x
    <3> QED BY <1>0, <3>1, <3>2 DEF Service, MSState
  <2>3. Over(p) /\ Over(m) /\ ~ms.manualRunning /\ ms.stop = "no"
    BY <2>2, ScoringFacts DEF LifeOK
  <2> HIDE DEF x
  <2>4. ScoringOK(Service(ms, "running", TRUE, ms.manualRunning, ms.stop, ms.asked, x, m))
    <3>1. ServiceFits(ms, "running", TRUE, ms.manualRunning, ms.stop, ms.asked, x, m)
      BY <1>1, <2>1, <2>3, <1>00 DEF ServiceFits, Working
    <3> QED BY <3>1, ServiceKeeps
  <2> QED BY <2>2, <2>4
<1>3. CASE StartManual
  <2> DEFINE x == ManualTask(ms.gen)
  <2>1. x \in TaskRecords /\ x.pc = "acquired"
    BY ScoringFacts, AcquiredIs
  <2>2. /\ ms.life = "running" /\ ~ms.manualRunning
        /\ \/ ms' = Service(ms, ms.life, ms.running, TRUE, ms.stop, ms.asked + 1, p, x)
           \/ ms' = Service(ms, ms.life, ms.running, ms.manualRunning, ms.stop, ms.asked + 1, p, m)
    <3>1. /\ ms.life = "running" /\ ~ms.manualRunning
          /\ \/ ms' = [ms EXCEPT !.manualRunning = TRUE, !.asked = @ + 1, !.task["manual"] = x]
             \/ ms' = [ms EXCEPT !.asked = @ + 1]
      BY <1>3 DEF StartManual, ManualTask
    <3> HIDE DEF x
    <3>2. CASE ms' = [ms EXCEPT !.manualRunning = TRUE, !.asked = @ + 1, !.task["manual"] = x]
      <4>1. ms' = Service(ms, ms.life, ms.running, TRUE, ms.stop, ms.asked + 1, p, x)
        BY <1>0, <3>2 DEF Service, MSState
      <4> QED BY <3>1, <4>1
    <3>3. CASE ms' = [ms EXCEPT !.asked = @ + 1]
      <4>1. ms' = Service(ms, ms.life, ms.running, ms.manualRunning, ms.stop, ms.asked + 1, p, m)
        BY <1>0, <3>3 DEF Service, MSState
      <4> QED BY <3>1, <4>1
    <3> QED BY <3>1, <3>2, <3>3
  <2>3. Over(m) /\ ms.running /\ ms.stop = "no"
    BY <2>2, ScoringFacts DEF LifeOK
  <2> HIDE DEF x
  <2>4. ScoringOK(Service(ms, ms.life, ms.running, TRUE, ms.stop, ms.asked + 1, p, x))
    <3>1. ServiceFits(ms, ms.life, ms.running, TRUE, ms.stop, ms.asked + 1, p, x)
      BY <1>1, <2>1, <2>2, <2>3, <1>00 DEF ServiceFits, Working, Over
    <3> QED BY <3>1, ServiceKeeps
  <2>5. ScoringOK(Service(ms, ms.life, ms.running, ms.manualRunning, ms.stop, ms.asked + 1, p, m))
    <3>1. ServiceFits(ms, ms.life, ms.running, ms.manualRunning, ms.stop, ms.asked + 1, p, m)
      BY <1>1, <2>2, <2>3, <1>00 DEF ServiceFits
    <3> QED BY <3>1, ServiceKeeps
  <2> QED BY <2>2, <2>4, <2>5
<1>4. CASE Stop
  <2>1. ms' = Service(ms, "stopping", FALSE, FALSE, "cancel", ms.asked, p, m)
    BY <1>0, <1>4 DEF Stop, Service, MSState
  <2>2. ScoringOK(Service(ms, "stopping", FALSE, FALSE, "cancel", ms.asked, p, m))
    <3>1. ServiceFits(ms, "stopping", FALSE, FALSE, "cancel", ms.asked, p, m)
      BY <1>1, <1>00 DEF ServiceFits
    <3> QED BY <3>1, ServiceKeeps
  <2> QED BY <2>1, <2>2
<1>5. CASE CancelOwned
  <2> DEFINE x == CancelledTask(p, TRUE)
             y == CancelledTask(m, TRUE)
  <2>1. x \in TaskRecords /\ x.pc = p.pc /\ x.lease = p.lease /\ y \in TaskRecords /\ y.pc = m.pc /\ y.lease = m.lease
    BY <1>1, CancelledIs
  <2>2. ms' = Service(ms, ms.life, ms.running, ms.manualRunning, "wait", ms.asked, x, y)
    <3>1. ms' = [ms EXCEPT !.stop = "wait", !.task["periodic"] = x, !.task["manual"] = y]
      BY <1>0, <1>5 DEF CancelOwned, CancelledTask, MSState
    <3> HIDE DEF x, y
    <3> QED BY <1>0, <3>1 DEF Service, MSState
  <2>3. ms.life = "stopping" /\ ~ms.running /\ ~ms.manualRunning
    BY <1>5, ScoringFacts DEF CancelOwned, LifeOK
  <2> HIDE DEF x, y
  <2>4. ScoringOK(Service(ms, ms.life, ms.running, ms.manualRunning, "wait", ms.asked, x, y))
    <3>1. ServiceFits(ms, ms.life, ms.running, ms.manualRunning, "wait", ms.asked, x, y)
      BY <1>1, <2>1, <2>3, <1>00 DEF ServiceFits
    <3> QED BY <3>1, ServiceKeeps
  <2> QED BY <2>2, <2>4
<1>6. CASE FinishStop
  <2>1. ms' = Service(ms, "stopped", ms.running, ms.manualRunning, "no", ms.asked, p, m)
    BY <1>0, <1>6 DEF FinishStop, Service, MSState
  <2>2. ~ms.running /\ ~ms.manualRunning /\ Over(p) /\ Over(m)
    BY <1>6, ScoringFacts DEF FinishStop, LifeOK, Over
  <2>3. ScoringOK(Service(ms, "stopped", ms.running, ms.manualRunning, "no", ms.asked, p, m))
    <3>1. ServiceFits(ms, "stopped", ms.running, ms.manualRunning, "no", ms.asked, p, m)
      BY <1>1, <2>2, <1>00 DEF ServiceFits
    <3> QED BY <3>1, ServiceKeeps
  <2> QED BY <2>1, <2>3
<1>7. CASE Restart
  <2> DEFINE x == AcquiredTask(ms.gen)
  <2>1. x \in TaskRecords /\ x.pc = "acquired" /\ NoTask \in TaskRecords /\ NoTask.pc = "none" /\ NoTask.lease = 0
    BY ScoringFacts, AcquiredIs, NoTaskIs
  <2>2. ms' = Service(ms, "running", TRUE, ms.manualRunning, ms.stop, ms.asked + 1, x, NoTask) /\ ms.life = "stopped"
    <3>1. ms.life = "stopped"
      BY <1>7 DEF Restart
    <3>2. ms' = [ms EXCEPT !.life = "running", !.running = TRUE, !.asked = @ + 1, !.task["manual"] = NoTask, !.task["periodic"] = x]
      BY <1>7 DEF Restart, AcquiredTask
    <3> HIDE DEF x
    <3> QED BY <1>0, <3>1, <3>2 DEF Service, MSState
  <2>3. Over(p) /\ Over(m) /\ ~ms.manualRunning /\ ms.stop = "no"
    BY <2>2, ScoringFacts DEF LifeOK
  <2> HIDE DEF x
  <2>4. ScoringOK(Service(ms, "running", TRUE, ms.manualRunning, ms.stop, ms.asked + 1, x, NoTask))
    <3>1. ServiceFits(ms, "running", TRUE, ms.manualRunning, ms.stop, ms.asked + 1, x, NoTask)
      BY <1>1, <2>1, <2>3, <1>00 DEF ServiceFits, Working, Over
    <3> QED BY <3>1, ServiceKeeps
  <2> QED BY <2>2, <2>4
<1> QED BY <1>2, <1>3, <1>4, <1>5, <1>6, <1>7

\* The turns of the loop, and another configuration.
LEMMA LoopKeeps ==
  ASSUME ScoringOK(ms), AcquireRun \/ Sleep \/ Reconfigure
  PROVE ScoringOK(ms')
<1> DEFINE p == ms.task["periodic"]
<1>1. p \in TaskRecords /\ (p.lease # 0 => p.pc \in Working) /\ ms.lock \in Refreshers \cup {"free"}
  BY ScoringFacts DEF MSState
<1>2. CASE AcquireRun /\ ms.running
  <2> DEFINE k == [p EXCEPT !.pc = "acquired", !.lease = ms.gen]
  <2>1. k \in TaskRecords /\ k.pc = "acquired"
    BY <1>1, ScoringFacts DEF TaskRecords, Places
  <2>2. ms' = WithTask(ms, "periodic", k) /\ p.pc = "turn"
    BY <1>2, ScoringFacts DEF AcquireRun, WithTask, MSState
  <2> HIDE DEF k
  <2>3. ms' = TaskTurn(ms, "periodic", k, ms.lock, ms.manualRunning)
    BY <2>2, ScoringFacts, WithTaskIs
  <2>4. ms.lock # "periodic" /\ ms.life = "running"
    BY <1>2, <2>2, ScoringFacts DEF TasksOK, LifeOK
  <2>5. ScoringOK(TaskTurn(ms, "periodic", k, ms.lock, ms.manualRunning))
    BY <1>1, <2>1, <2>4, ScoringFacts, TurnKeeps DEF Working
  <2> QED BY <2>3, <2>5
<1>3. CASE AcquireRun /\ ~ms.running
  <2> DEFINE l == LockAfter(ms, "periodic")
  <2>1. /\ ms' = TaskTurn(ms, "periodic", EndedTask, l, ms.manualRunning)
        /\ EndedTask \in TaskRecords /\ EndedTask.pc = "ended" /\ EndedTask.lease = 0
        /\ l \in Refreshers \cup {"free"} /\ l # "periodic" /\ (l = ms.lock \/ l = "free")
    BY <1>1, <1>3, ScoringFacts, EndIs DEF AcquireRun, LockAfter
  <2> HIDE DEF l
  <2>2. ScoringOK(TaskTurn(ms, "periodic", EndedTask, l, ms.manualRunning))
    BY <1>1, <2>1, ScoringFacts, TurnKeeps DEF Over
  <2> QED BY <2>1, <2>2
<1>4. CASE Sleep
  <2> DEFINE k == MovedTask(p, "turn")
  <2>1. k \in TaskRecords /\ k.pc = "turn" /\ k.lease = p.lease
    BY <1>1, MovedIs DEF Places
  <2>2. ms' = WithTask(ms, "periodic", k) /\ p.pc = "sleep"
    BY <1>4, ScoringFacts DEF Sleep, WithTask, MovedTask, MSState
  <2> HIDE DEF k
  <2>3. ms' = TaskTurn(ms, "periodic", k, ms.lock, ms.manualRunning)
    BY <2>2, ScoringFacts, WithTaskIs
  <2>4. ms.lock # "periodic" /\ ms.life \notin {"new", "stopped"} /\ p.lease = 0
    BY <1>1, <2>2, ScoringFacts DEF TasksOK, LifeOK, Over, Working
  <2>5. ScoringOK(TaskTurn(ms, "periodic", k, ms.lock, ms.manualRunning))
    BY <1>1, <2>1, <2>4, ScoringFacts, TurnKeeps
  <2> QED BY <2>3, <2>5
<1>5. CASE Reconfigure
  <2>1. PICK b \in BOOLEAN : ms' = [ms EXCEPT !.gen = ms.gen + 1, !.configured = b]
    BY <1>5 DEF Reconfigure
  <2>2. /\ ms' \in MSState /\ ms'.task = ms.task /\ ms'.lock = ms.lock /\ ms'.manualRunning = ms.manualRunning
        /\ ms'.life = ms.life /\ ms'.running = ms.running /\ ms'.snap = ms.snap /\ ms'.evalRunning = ms.evalRunning
        /\ ms'.stop = ms.stop
    <3>1. ms \in MSState /\ ms.gen + 1 \in Nat
      BY ScoringFacts
    <3> QED BY <2>1, <3>1 DEF MSState
  <2> QED BY <2>2 DEF ScoringOK, TasksOK, LifeOK
<1> QED BY <1>2, <1>3, <1>4, <1>5

\* The steps of the evaluation (fallback_model_evals.py).
LEMMA EvalKeeps ==
  ASSUME ScoringOK(ms), StartEval \/ EvalStep \/ StopEval \/ EndStopEval
  PROVE ScoringOK(ms')
<1> DEFINE k == ms.task["eval"]
<1>1. k \in TaskRecords /\ (k.lease # 0 => k.pc \in Working) /\ (k.pc = "evaluate" => ms.evalRunning)
  BY ScoringFacts DEF TasksOK
<1>0. ms \in MSState /\ "periodic" \in Tasks /\ "manual" \in Tasks /\ "eval" \in Tasks
  BY ScoringFacts
<1>2. ASSUME NEW evals \in Nat, NEW running \in BOOLEAN, NEW stopping \in BOOLEAN, NEW x \in TaskRecords,
             x.lease # 0 => x.pc \in Working, x.pc = "evaluate" => running, ms' = Evaluation(ms, evals, running, stopping, x)
      PROVE ScoringOK(ms')
  BY <1>2, EvaluationKeeps
<1>3. CASE StartEval
  <2> DEFINE x == [NoTask EXCEPT !.pc = "evaluate", !.lease = ms.gen]
  <2>1. x \in TaskRecords /\ x.pc = "evaluate"
    BY ScoringFacts DEF NoTask, TaskRecords, Places
  <2>2. \/ ms' = Evaluation(ms, ms.evals + 1, ms.evalRunning, ms.evalStopping, k)
        \/ ms' = Evaluation(ms, ms.evals + 1, TRUE, ms.evalStopping, x)
    BY <1>0, <1>3 DEF StartEval, Evaluation, MSState
  <2> HIDE DEF x
  <2>3. CASE ms' = Evaluation(ms, ms.evals + 1, ms.evalRunning, ms.evalStopping, k)
    BY <1>1, <1>2, <2>3, ScoringFacts
  <2>4. CASE ms' = Evaluation(ms, ms.evals + 1, TRUE, ms.evalStopping, x)
    BY <1>2, <2>1, <2>4, ScoringFacts DEF Working
  <2> QED BY <2>2, <2>3, <2>4
<1>4. CASE Evaluate \/ EndEval
  <2>1. ASSUME NEW pc \in {"finally", "release"}
        PROVE MovedTask(k, pc) \in TaskRecords /\ MovedTask(k, pc).pc = pc
    BY <1>1, <2>1, MovedIs DEF Places
  <2>2. \/ ms' = Evaluation(ms, ms.evals, ms.evalRunning, ms.evalStopping, MovedTask(k, "finally"))
        \/ ms' = Evaluation(ms, ms.evals, FALSE, ms.evalStopping, MovedTask(k, "release"))
    <3>1. CASE Evaluate
      BY <1>0, <3>1 DEF Evaluate, Evaluation, MSState, MovedTask
    <3>2. CASE EndEval
      BY <1>0, <3>2 DEF EndEval, Evaluation, MSState, MovedTask
    <3> QED BY <1>4, <3>1, <3>2
  <2>3. CASE ms' = Evaluation(ms, ms.evals, ms.evalRunning, ms.evalStopping, MovedTask(k, "finally"))
    BY <1>2, <2>1, <2>3, ScoringFacts DEF Working
  <2>4. CASE ms' = Evaluation(ms, ms.evals, FALSE, ms.evalStopping, MovedTask(k, "release"))
    BY <1>2, <2>1, <2>4, ScoringFacts DEF Working
  <2> QED BY <2>2, <2>3, <2>4
<1>5. CASE ReleaseEval
  <2>1. ms' = Evaluation(ms, ms.evals, ms.evalRunning, ms.evalStopping, EndedTask)
    BY <1>0, <1>5 DEF ReleaseEval, End, Evaluation, EndedTask, MSState, Refreshers
  <2>2. EndedTask \in TaskRecords /\ EndedTask.pc = "ended" /\ EndedTask.lease = 0
    BY ScoringFacts, EndIs
  <2> QED BY <1>2, <2>1, <2>2, ScoringFacts
<1>6. CASE CancelEval
  <2> DEFINE x == [k EXCEPT !.pc = "finally", !.cancel = FALSE]
  <2>1. x \in TaskRecords /\ x.pc = "finally"
    BY <1>1 DEF TaskRecords, Places
  <2>2. ms' = Evaluation(ms, ms.evals, ms.evalRunning, ms.evalStopping, x)
    <3>1. ms' = WithTask(ms, "eval", x)
      BY <1>0, <1>6 DEF CancelEval, WithTask, MSState
    <3> HIDE DEF x
    <3> QED BY <1>0, <3>1, WithEvalIs
  <2> HIDE DEF x
  <2> QED BY <1>2, <2>1, <2>2, ScoringFacts DEF Working
<1>7. CASE StopEval
  <2> DEFINE b == k.pc \notin {"none", "ended"}
             x == CancelledTask(k, b)
  <2>1. x \in TaskRecords /\ x.pc = k.pc /\ x.lease = k.lease
    BY <1>1, CancelledIs
  <2>2. ms' = Evaluation(ms, ms.evals, ms.evalRunning, TRUE, x)
    BY <1>0, <1>7 DEF StopEval, Evaluation, CancelledTask, MSState
  <2> HIDE DEF x
  <2> QED BY <1>1, <1>2, <2>1, <2>2, ScoringFacts
<1>8. CASE EndStopEval
  <2>1. ms' = Evaluation(ms, ms.evals, FALSE, FALSE, NoTask)
    BY <1>0, <1>8 DEF EndStopEval, Evaluation, MSState
  <2> QED BY <1>2, <2>1, NoTaskIs, ScoringFacts
<1> QED BY <1>3, <1>4, <1>5, <1>6, <1>7, <1>8 DEF EvalStep

\* A service that was never started.
LEMMA ScoringStarts ==
  ASSUME MSInit
  PROVE ScoringOK(ms)
<1>1. ms \in MSState
  BY NoTaskIs, ScoringAssumption DEF MSInit, MSState, Snapshots, NoSnapshot
<1>2. \A t \in Tasks : ms.task[t] = NoTask
  BY DEF MSInit
<1>3. /\ ms.lock = "free" /\ ms.life = "new" /\ ~ms.running /\ ~ms.manualRunning /\ ms.stop = "no"
      /\ ms.snap = NoSnapshot
  BY DEF MSInit
<1>4. TasksOK(ms) /\ LifeOK(ms)
  BY <1>2, <1>3, NoTaskIs DEF TasksOK, LifeOK, Tasks, Refreshers, Over
<1>5. SnapshotOK(ms.snap)
  BY <1>3, FS_EmptySet DEF SnapshotOK, NoSnapshot
<1> QED BY <1>1, <1>4, <1>5 DEF ScoringOK

\* However refreshes, evaluations, stops, restarts and cancellations interleave,
\* a lease belongs to a task at work, the flags say what the tasks do, and the
\* ranking counts exactly what was evaluated (openrouter_free_models.py,
\* fallback_model_evals.py).
THEOREM ScoringAlwaysConsistent == MSSpec => []ScoringConsistent
<1>1. MSInit => ScoringOK(ms)
  BY ScoringStarts
<1>2. ScoringOK(ms) /\ [MSNext]_ms => ScoringOK(ms)'
  <2> SUFFICES ASSUME ScoringOK(ms), [MSNext]_ms PROVE ScoringOK(ms')
    OBVIOUS
  <2>1. CASE UNCHANGED ms
    BY <2>1
  <2>2. ASSUME NEW t \in Refreshers, RefreshStep(t)
        PROVE ScoringOK(ms')
    BY <2>2, RefreshKeeps
  <2> QED BY <2>1, <2>2, ServiceStepKeeps, LoopKeeps, EvalKeeps DEF MSNext
<1>3. ScoringOK(ms) => ScoringConsistent
  <2> SUFFICES ASSUME ScoringOK(ms) PROVE ScoringConsistent
    OBVIOUS
  <2>1. \A t \in Tasks : Held(t) => ms.task[t].pc \in {"acquired", "fetch", "evaluate", "finally", "release"}
    BY ScoringFacts DEF Held, Working
  <2>2. ms.life \in {"new", "stopped"} => /\ \A t \in Refreshers : ~Held(t) /\ ms.task[t].pc \in {"none", "ended"}
                                          /\ ms.lock = "free" /\ ~ms.running /\ ~ms.manualRunning
    <3> SUFFICES ASSUME ms.life \in {"new", "stopped"}
                 PROVE /\ \A t \in Refreshers : ~Held(t) /\ ms.task[t].pc \in {"none", "ended"}
                       /\ ms.lock = "free" /\ ~ms.running /\ ~ms.manualRunning
      OBVIOUS
    <3>1. ~ms.running /\ ~ms.manualRunning /\ \A t \in Refreshers : ms.task[t].pc \in {"none", "ended"}
      BY ScoringFacts DEF LifeOK, Over
    <3>2. \A t \in Refreshers : ~Held(t)
      BY <3>1, ScoringFacts DEF Held, Working, Refreshers
    <3>3. ms.lock = "free"
      BY <3>1, ScoringFacts DEF TasksOK, MSState
    <3> QED BY <3>1, <3>2, <3>3
  <2>3. ms.life = "running" => (ms.manualRunning <=> ms.task["manual"].pc \notin {"none", "ended"})
    BY ScoringFacts DEF LifeOK, Over
  <2>4. ms.task["eval"].pc = "evaluate" => ms.evalRunning
    BY ScoringFacts DEF TasksOK
  <2>5. ms.snap.count = Cardinality(ms.snap.done) /\ ms.snap.done \subseteq ms.snap.models
    BY DEF ScoringOK, SnapshotOK
  <2> QED BY <2>1, <2>2, <2>3, <2>4, <2>5 DEF ScoringConsistent
<1> QED BY <1>1, <1>2, <1>3, PTL DEF MSSpec

-----------------------------------------------------------------------------
(* The rollup of deep research.                                            *)

\* What is left of a list, place by place, when a child is taken out of it
\* (abort_child).
LEMMA DropFirst ==
  ASSUME NEW S, NEW s \in Seq(S), IsInjective(s), NEW c \in S, NEW n \in 1..Len(s), s[n] = c
  PROVE  LET t == RemoveFirst(s, c) IN
         t \in Seq(S) /\ Len(t) = Len(s) - 1 /\ \A i \in 1..Len(t) : t[i] = IF i < n THEN s[i] ELSE s[i + 1]
<1>1. SelectInSeq(s, LAMBDA v : v = c) = n
  <2>1. {i \in 1..Len(s) : s[i] = c} = {n}
    BY DEF IsInjective
  <2>2. Min({n}) = n
    BY DEF Min
  <2> QED BY <2>1, <2>2 DEF SelectInSeq
<1> DEFINE a == SubSeq(s, 1, n - 1)
           b == SubSeq(s, n + 1, Len(s))
<1>2. RemoveFirst(s, c) = a \o b
  BY <1>1 DEF RemoveFirst, RemoveAt
<1>3. a \in Seq(S) /\ Len(a) = n - 1 /\ \A i \in 1..(n - 1) : a[i] = s[i]
  OBVIOUS
<1>4. b \in Seq(S) /\ Len(b) = Len(s) - n /\ \A i \in 1..(Len(s) - n) : b[i] = s[n + i]
  OBVIOUS
<1> HIDE DEF a, b
<1>5. a \o b \in Seq(S) /\ Len(a \o b) = Len(s) - 1
  <2>1. a \o b \in Seq(S) /\ Len(a \o b) = Len(a) + Len(b)
    BY <1>3, <1>4, ConcatProperties
  <2> QED BY <1>3, <1>4, <2>1
<1>6. ASSUME NEW i \in 1..(Len(s) - 1)
      PROVE  (a \o b)[i] = IF i < n THEN s[i] ELSE s[i + 1]
  <2>1. (a \o b)[i] = IF i <= Len(a) THEN a[i] ELSE b[i - Len(a)]
    BY <1>3, <1>4, ConcatProperties
  <2>2. CASE i < n
    BY <1>3, <2>1, <2>2
  <2>3. CASE ~(i < n)
    <3>1. i - (n - 1) \in 1..(Len(s) - n) /\ n + (i - (n - 1)) = i + 1
      BY <2>3
    <3> QED BY <1>3, <1>4, <2>1, <2>3, <3>1
  <2> QED BY <2>2, <2>3
<1> QED BY <1>2, <1>5, <1>6

\* list.remove takes one child from the list, and keeps the others once each
\* (abort_child).
LEMMA DropOne ==
  ASSUME NEW S, NEW s \in Seq(S), IsInjective(s), NEW c \in S, c \in Range(s)
  PROVE  LET t == RemoveFirst(s, c) IN t \in Seq(S) /\ IsInjective(t) /\ Range(t) = Range(s) \ {c}
<1>1. PICK n \in 1..Len(s) : s[n] = c
  BY DEF Range
<1> DEFINE t == RemoveFirst(s, c)
<1>2. t \in Seq(S) /\ Len(t) = Len(s) - 1 /\ \A i \in 1..Len(t) : t[i] = IF i < n THEN s[i] ELSE s[i + 1]
  BY <1>1, DropFirst
<1> HIDE DEF t
<1>3. \A i, j \in 1..Len(s) : s[i] = s[j] => i = j
  BY DEF IsInjective
<1>4. IsInjective(t)
  BY <1>2, <1>3 DEF IsInjective
<1>5. Range(t) \subseteq Range(s) \ {c}
  <2>1. ASSUME NEW i \in 1..Len(t) PROVE t[i] \in Range(s) \ {c}
    <3>1. PICK j \in 1..Len(s) : t[i] = s[j] /\ j # n
      BY <1>1, <1>2, <2>1
    <3> QED BY <1>1, <1>3, <3>1 DEF Range
  <2> QED BY <1>2, <2>1 DEF Range
<1>6. ASSUME NEW d \in Range(s), d # c PROVE d \in Range(t)
  <2>1. PICK i \in 1..Len(s) : s[i] = d
    BY DEF Range
  <2>2. CASE i < n
    <3>1. i \in 1..Len(t) /\ t[i] = d
      BY <1>2, <2>1, <2>2
    <3> QED BY <1>2, <3>1 DEF Range
  <2>3. CASE i > n
    <3> DEFINE j == i - 1
    <3>2. j \in 1..Len(t) /\ ~(j < n) /\ j + 1 = i
      BY <1>1, <1>2, <2>1, <2>3
    <3> HIDE DEF j
    <3>3. t[j] = s[j + 1]
      BY <1>2, <3>2
    <3>1. j \in 1..Len(t) /\ t[j] = d
      BY <2>1, <3>2, <3>3
    <3> QED BY <1>2, <3>1 DEF Range
  <2> QED BY <1>1, <1>6, <2>1, <2>2, <2>3
<1> QED BY <1>2, <1>4, <1>5, <1>6 DEF t

\* list.append adds a child that is not yet in the list (prepare_child).
LEMMA AddOne ==
  ASSUME NEW S, NEW s \in Seq(S), IsInjective(s), NEW c \in S, c \notin Range(s)
  PROVE  LET t == Append(s, c) IN t \in Seq(S) /\ IsInjective(t) /\ Range(t) = Range(s) \cup {c}
<1> DEFINE t == Append(s, c)
<1>1. t \in Seq(S) /\ Len(t) = Len(s) + 1 /\ \A i \in 1..Len(t) : t[i] = IF i <= Len(s) THEN s[i] ELSE c
  OBVIOUS
<1> HIDE DEF t
<1>2. IsInjective(t)
  BY <1>1 DEF IsInjective, Range
<1>3. Range(t) \subseteq Range(s) \cup {c}
  BY <1>1 DEF Range
<1>4. c \in Range(t)
  BY <1>1 DEF Range
<1>5. ASSUME NEW d \in Range(s) PROVE d \in Range(t)
  <2>1. PICK i \in 1..Len(s) : s[i] = d
    BY DEF Range
  <2>2. i \in 1..Len(t) /\ t[i] = d
    BY <1>1, <2>1
  <2> QED BY <1>1, <2>2 DEF Range
<1> QED BY <1>1, <1>2, <1>3, <1>4, <1>5 DEF t

ListedStates == {"prepared", "bound", "committing", "unsettled"} \cup Terminal
CallbackStates == {"prepared", "bound", "committing", "backoff"}
ChildRecords == [st : ListedStates \cup CallbackStates \cup Idle, tries : Nat]
Rollups == UNION {[places -> Children] : places \in SUBSET Nat}
OwnerRecords ==
  [st : {"open", "active", "sealing", "ready", "committing", "releasing", "closed"},
   pc : {"begin", "run", "seal", "sealing", "collect", "refuse", "respond", "commit", "cancelling", "release", "over"},
   ctx : BOOLEAN, accepting : BOOLEAN, drained : BOOLEAN, slots : Seq(Children),
   rollup : Rollups, resv : {"held", "committed", "released"},
   expired : BOOLEAN, cut : BOOLEAN]
RAState == [owner : [Parents -> OwnerRecords], child : [Parents -> [Children -> ChildRecords]]]

\* Where an owner stands: whether its context is registered and accepts children.
StandOK(o) ==
  /\ <<o.pc, o.st>> \in {<<"begin", "open">>, <<"run", "active">>, <<"seal", "active">>, <<"sealing", "sealing">>,
                         <<"collect", "sealing">>, <<"respond", "ready">>, <<"commit", "committing">>, <<"refuse", "open">>,
                         <<"refuse", "active">>, <<"refuse", "ready">>, <<"cancelling", "releasing">>,
                         <<"release", "releasing">>, <<"over", "closed">>}
  /\ o.ctx <=> o.st \in {"active", "sealing"} \/ o.pc = "cancelling" \/ o.cut
  /\ o.accepting => o.st = "active"
  /\ o.cut => o.pc \in {"release", "over"}
  /\ o.resv = "committed" => o.pc = "over" /\ ~o.cut
  /\ o.pc = "collect" => o.drained
\* The list of a registered context names its children that hold or held a
\* reservation, once each, and a drained one has only settled ones.
ListOK(o, ch) ==
  /\ IsInjective(o.slots)
  /\ o.pc = "begin" => o.slots = << >> /\ \A c \in Children : ch[c].st = "no"
  /\ o.ctx => Range(o.slots) = {c \in Children : ch[c].st \in ListedStates}
  /\ o.drained => \A c \in Children : ch[c].st \in ListedStates => ch[c].st \in Terminal
ChildrenOK(o, ch) ==
  /\ \A c \in Children : ch[c].st = "backoff" => c \in Callbacks
  /\ \A c \in Callbacks : ch[c].st \in CallbackStates => o.pc = "run"
  /\ ~o.ctx => \A c \in Children : ch[c].st \in Idle
Rolled(o, ch) ==
  /\ DOMAIN o.rollup # {} /\ IsInjective(o.rollup)
  /\ Range(o.rollup) = {c \in Children : ch[c].st = "committed"}
RollOK(o, ch) ==
  /\ o \in OwnerRecords /\ ch \in [Children -> ChildRecords]
  /\ StandOK(o) /\ ListOK(o, ch) /\ ChildrenOK(o, ch)
  /\ o.pc \in {"respond", "commit"} \/ o.resv = "committed" => Rolled(o, ch)
RAInv == ra \in RAState /\ \A p \in Parents : RollOK(ra.owner[p], ra.child[p])

-----------------------------------------------------------------------------
SetParent(a, p, o, ch) == [owner |-> [a.owner EXCEPT ![p] = o], child |-> [a.child EXCEPT ![p] = ch]]

\* Every step is one parent's: what it leaves behind decides (the registry
\* works on one context at a time).
LEMMA PutKeeps ==
  ASSUME RAInv, NEW p \in Parents, NEW o, NEW ch, RollOK(o, ch), ra' = SetParent(ra, p, o, ch)
  PROVE  RAInv'
<1>1. ra \in RAState /\ \A q \in Parents : RollOK(ra.owner[q], ra.child[q])
  BY DEF RAInv
<1>2. o \in OwnerRecords /\ ch \in [Children -> ChildRecords]
  BY DEF RollOK
<1>3. ra' \in RAState
  BY <1>1, <1>2 DEF RAState, SetParent
<1>4. ASSUME NEW q \in Parents PROVE RollOK(ra'.owner[q], ra'.child[q])
  <2>1. CASE q = p
    <3>1. ra'.owner[q] = o /\ ra'.child[q] = ch
      BY <1>1, <2>1 DEF SetParent, RAState
    <3> QED BY <3>1
  <2>2. CASE q # p
    <3>1. ra'.owner[q] = ra.owner[q] /\ ra'.child[q] = ra.child[q]
      BY <1>1, <2>2 DEF SetParent, RAState
    <3> QED BY <1>1, <3>1
  <2> QED BY <2>1, <2>2
<1> QED BY <1>3, <1>4 DEF RAInv

\* The parts of the registry have their shape, and each parent its invariant.
LEMMA OwnerPut ==
  ASSUME RAInv, NEW p \in Parents
  PROVE  /\ RollOK(ra.owner[p], ra.child[p])
         /\ ra = [owner |-> ra.owner, child |-> ra.child]
         /\ ra.child = [ra.child EXCEPT ![p] = ra.child[p]]
         /\ ra.owner = [ra.owner EXCEPT ![p] = ra.owner[p]]
BY DEF RAInv, RAState

\* Once a parent has drained, its children are over (seal_success,
\* cancel_and_drain_children).
LEMMA DrainedIdle ==
  ASSUME NEW o, NEW ch, RollOK(o, ch), o.drained, o.pc # "run", NEW c \in Children
  PROVE  ch[c].st \in Idle
<1>1. ch[c].st \in ListedStates \cup CallbackStates \cup Idle
  BY DEF RollOK, ChildRecords
<1>2. CASE ch[c].st \in ListedStates
  BY <1>2 DEF RollOK, ListOK, Terminal, Idle
<1>3. ch[c].st \notin CallbackStates \ ListedStates
  BY DEF RollOK, ChildrenOK, CallbackStates, ListedStates
<1> QED BY <1>1, <1>2, <1>3

\* seal_success closes the list and waits.
LEMMA SealKeeps ==
  ASSUME RAInv, NEW p \in Parents, Seal(p) PROVE RAInv'
<1> DEFINE o == ra.owner[p]
           ch == ra.child[p]
           o2 == [StartDrain(o) EXCEPT !.st = "sealing", !.pc = "sealing"]
<1>1. RollOK(o, ch)
  BY OwnerPut
<1>2. ra' = SetParent(ra, p, o2, ch)
  BY OwnerPut DEF Seal, SetParent, RAInv, RAState
<1>3. RollOK(o2, ch)
  BY <1>1 DEF RollOK, StandOK, ListOK, ChildrenOK, Rolled, OwnerRecords, Seal, StartDrain
<1> HIDE DEF o, ch, o2
<1> QED BY <1>2, <1>3, PutKeeps
\* The waiter of seal_success wakes up.
LEMMA SealWakesKeeps == ASSUME RAInv, NEW p \in Parents, SealWakes(p) PROVE RAInv'
<1> DEFINE o == ra.owner[p]
           ch == ra.child[p]
           o2 == [o EXCEPT !.pc = "collect"]
<1>1. RollOK(o, ch)
  BY OwnerPut
<1>2. ra' = SetParent(ra, p, o2, ch)
  BY OwnerPut DEF SealWakes, SetParent, RAInv, RAState
<1>3. RollOK(o2, ch)
  BY <1>1 DEF RollOK, StandOK, ListOK, ChildrenOK, Rolled, OwnerRecords, SealWakes
<1> HIDE DEF o, ch, o2
<1> QED BY <1>2, <1>3, PutKeeps

\* _commit_rollup begins.
LEMMA CommitRollupKeeps == ASSUME RAInv, NEW p \in Parents, CommitRollup(p) PROVE RAInv'
<1> DEFINE o == ra.owner[p]
           ch == ra.child[p]
           o2 == [o EXCEPT !.st = "committing", !.pc = "commit"]
<1>1. RollOK(o, ch)
  BY OwnerPut
<1>2. ra' = SetParent(ra, p, o2, ch)
  BY OwnerPut DEF CommitRollup, SetParent, RAInv, RAState
<1>3. RollOK(o2, ch)
  BY <1>1 DEF RollOK, StandOK, ListOK, ChildrenOK, Rolled, OwnerRecords, CommitRollup
<1> HIDE DEF o, ch, o2
<1> QED BY <1>2, <1>3, PutKeeps

\* The supervisor gives up the wait for the children.
LEMMA CutShortKeeps == ASSUME RAInv, NEW p \in Parents, CutShort(p) PROVE RAInv'
<1> DEFINE o == ra.owner[p]
           ch == ra.child[p]
           o2 == [o EXCEPT !.pc = "release", !.cut = TRUE]
<1>1. RollOK(o, ch)
  BY OwnerPut
<1>2. ra' = SetParent(ra, p, o2, ch)
  BY OwnerPut DEF CutShort, SetParent, RAInv, RAState
<1>3. RollOK(o2, ch)
  BY <1>1 DEF RollOK, StandOK, ListOK, ChildrenOK, Rolled, OwnerRecords, CutShort
<1> HIDE DEF o, ch, o2
<1> QED BY <1>2, <1>3, PutKeeps

\* The parent's reservation is released.
LEMMA EndReleaseKeeps == ASSUME RAInv, NEW p \in Parents, EndRelease(p) PROVE RAInv'
<1> DEFINE o == ra.owner[p]
           ch == ra.child[p]
           o2 == [o EXCEPT !.resv = "released", !.st = "closed", !.pc = "over"]
<1>1. RollOK(o, ch)
  BY OwnerPut
<1>2. ra' = SetParent(ra, p, o2, ch)
  BY OwnerPut DEF EndRelease, SetParent, RAInv, RAState
<1>3. RollOK(o2, ch)
  BY <1>1 DEF RollOK, StandOK, ListOK, ChildrenOK, Rolled, OwnerRecords, EndRelease
<1> HIDE DEF o, ch, o2
<1> QED BY <1>2, <1>3, PutKeeps

\* A context gets too old to take more children.
LEMMA ExpireKeeps == ASSUME RAInv, NEW p \in Parents, Expire(p) PROVE RAInv'
<1> DEFINE o == ra.owner[p]
           ch == ra.child[p]
           o2 == [o EXCEPT !.expired = TRUE]
<1>1. RollOK(o, ch) /\ o \in OwnerRecords /\ ra' = SetParent(ra, p, o2, ch)
  BY OwnerPut DEF Expire, SetParent, RAInv, RAState, RollOK
<1> HIDE DEF o, ch
<1>2. /\ o2 \in OwnerRecords /\ o2.st = o.st /\ o2.pc = o.pc /\ o2.ctx = o.ctx /\ o2.accepting = o.accepting /\ o2.drained = o.drained
      /\ o2.slots = o.slots /\ o2.rollup = o.rollup /\ o2.resv = o.resv /\ o2.cut = o.cut
  BY <1>1 DEF OwnerRecords
<1> HIDE DEF o2
<1>3. StandOK(o2)
  BY <1>1, <1>2 DEF RollOK, StandOK
<1>4. ListOK(o2, ch) /\ ChildrenOK(o2, ch)
  BY <1>1, <1>2 DEF RollOK, ListOK, ChildrenOK
<1>5. Rolled(o, ch) => Rolled(o2, ch)
  BY <1>2 DEF Rolled
<1>6. RollOK(o2, ch)
  BY <1>1, <1>2, <1>3, <1>4, <1>5 DEF RollOK
<1> QED BY <1>1, <1>6, PutKeeps DEF o, ch

\* cancel_and_drain_children ends with the registration.
LEMMA CancelChildrenKeeps == ASSUME RAInv, NEW p \in Parents, CancelChildren(p) PROVE RAInv'
<1> DEFINE o == ra.owner[p]
           ch == ra.child[p]
           o2 == [RemoveContext(o) EXCEPT !.pc = "release"]
<1>1. RollOK(o, ch) /\ o.drained /\ o.pc = "cancelling"
  BY OwnerPut DEF CancelChildren
<1>2. ra' = SetParent(ra, p, o2, ch)
  BY OwnerPut DEF CancelChildren, SetParent, RAInv, RAState
<1>3. \A c \in Children : ch[c].st \in Idle
  BY <1>1, DrainedIdle
<1>4. << >> \in Seq(Children) /\ IsInjective(<< >>)
  BY DEF IsInjective
<1>5. o2 \in OwnerRecords /\ StandOK(o2)
  BY <1>1, <1>4 DEF RollOK, OwnerRecords, StandOK, RemoveContext
<1>6. ListOK(o2, ch) /\ ChildrenOK(o2, ch)
  BY <1>1, <1>3, <1>4 DEF RollOK, OwnerRecords, ListOK, ChildrenOK, CallbackStates, RemoveContext
<1>7. RollOK(o2, ch)
  BY <1>1, <1>5, <1>6 DEF RollOK, OwnerRecords, StandOK, RemoveContext
<1> HIDE DEF o, ch, o2
<1> QED BY <1>2, <1>7, PutKeeps

\* The rollup's commit is answered.
LEMMA EndCommitKeeps == ASSUME RAInv, NEW p \in Parents, EndCommit(p) PROVE RAInv'
<1> DEFINE o == ra.owner[p]
           ch == ra.child[p]
           o2(resv) == [o EXCEPT !.resv = resv, !.st = "closed", !.pc = "over"]
<1>1. RollOK(o, ch)
  BY OwnerPut
<1>2. PICK resv \in {"committed", "released"} : ra' = SetParent(ra, p, o2(resv), ch)
  BY OwnerPut DEF EndCommit, SetParent, RAInv, RAState
<1>3. RollOK(o2(resv), ch)
  BY <1>1 DEF RollOK, StandOK, ListOK, ChildrenOK, Rolled, OwnerRecords, EndCommit
<1> HIDE DEF o, ch, o2
<1> QED BY <1>2, <1>3, PutKeeps

\* The process ends, and its callbacks with it.
LEMMA EndResearchKeeps == ASSUME RAInv, NEW p \in Parents, EndResearch(p) PROVE RAInv'
<1> DEFINE o == ra.owner[p]
           ch == ra.child[p]
           o2(pc) == [o EXCEPT !.pc = pc]
<1>1. RollOK(o, ch)
  BY OwnerPut
<1>2. PICK pc \in {"seal", "refuse"} : ra' = SetParent(ra, p, o2(pc), ch)
  BY OwnerPut DEF EndResearch, SetParent, RAInv, RAState
<1>3. RollOK(o2(pc), ch)
  BY <1>1 DEF RollOK, StandOK, ListOK, ChildrenOK, Rolled, OwnerRecords, EndResearch, CallbacksOver, CallbackStates, Idle
<1> HIDE DEF o, ch, o2
<1> QED BY <1>2, <1>3, PutKeeps

\* A request is registered, or refused.
LEMMA BeginKeeps == ASSUME RAInv, NEW p \in Parents, Begin(p) PROVE RAInv'
<1> DEFINE o == ra.owner[p]
           ch == ra.child[p]
           begun == [o EXCEPT !.st = "active", !.ctx = TRUE, !.accepting = TRUE, !.pc = "run"]
           refused == [o EXCEPT !.pc = "refuse"]
<1>1. RollOK(o, ch) /\ o.pc = "begin"
  BY OwnerPut DEF Begin
<1>2. CASE ra' = [ra EXCEPT !.owner[p] = [@ EXCEPT !.st = "active", !.ctx = TRUE, !.accepting = TRUE, !.pc = "run"]]
  <2>1. ra' = SetParent(ra, p, begun, ch)
    BY <1>2, OwnerPut DEF SetParent, RAInv, RAState
  <2>2. Range(<< >>) = {} /\ "no" \notin ListedStates /\ "no" \notin CallbackStates
    BY DEF Range, ListedStates, Terminal, CallbackStates
  <2>3. begun \in OwnerRecords /\ StandOK(begun)
    BY <1>1 DEF RollOK, StandOK, OwnerRecords
  <2>4. ListOK(begun, ch) /\ ChildrenOK(begun, ch)
    BY <1>1, <2>2 DEF RollOK, OwnerRecords, ListOK, ChildrenOK
  <2>5. RollOK(begun, ch)
    BY <1>1, <2>3, <2>4 DEF RollOK, OwnerRecords, StandOK
  <2> HIDE DEF o, ch, begun
  <2> QED BY <2>1, <2>5, PutKeeps
<1>3. CASE ra' = [ra EXCEPT !.owner[p].pc = "refuse"]
  <2>1. ra' = SetParent(ra, p, refused, ch)
    BY <1>3, OwnerPut DEF SetParent, RAInv, RAState
  <2>2. RollOK(refused, ch)
    BY <1>1 DEF RollOK, StandOK, ListOK, ChildrenOK, Rolled, OwnerRecords, CallbackStates
  <2> HIDE DEF o, ch, refused
  <2> QED BY <2>1, <2>2, PutKeeps
<1> QED BY <1>2, <1>3 DEF Begin

\* The request is cancelled while it waits or responds.
LEMMA CancelRequestKeeps == ASSUME RAInv, NEW p \in Parents, CancelRequest(p) PROVE RAInv'
<1> DEFINE o == ra.owner[p]
           ch == ra.child[p]
           reopened == [o EXCEPT !.st = "active", !.pc = "refuse"]
           refused == [o EXCEPT !.pc = "refuse"]
<1>1. RollOK(o, ch)
  BY OwnerPut
<1>2. CASE o.pc \in {"sealing", "collect"} /\ ra' = [ra EXCEPT !.owner[p] = [@ EXCEPT !.st = "active", !.pc = "refuse"]]
  <2>1. ra' = SetParent(ra, p, reopened, ch)
    BY <1>2, OwnerPut DEF SetParent, RAInv, RAState
  <2>2. RollOK(reopened, ch)
    BY <1>1, <1>2 DEF RollOK, StandOK, ListOK, ChildrenOK, Rolled, OwnerRecords
  <2> HIDE DEF o, ch, reopened
  <2> QED BY <2>1, <2>2, PutKeeps
<1>3. CASE o.pc = "respond" /\ ra' = [ra EXCEPT !.owner[p].pc = "refuse"]
  <2>1. ra' = SetParent(ra, p, refused, ch)
    BY <1>3, OwnerPut DEF SetParent, RAInv, RAState
  <2>2. RollOK(refused, ch)
    BY <1>1, <1>3 DEF RollOK, StandOK, ListOK, ChildrenOK, Rolled, OwnerRecords
  <2> HIDE DEF o, ch, refused
  <2> QED BY <2>1, <2>2, PutKeeps
<1> QED BY <1>2, <1>3 DEF CancelRequest

\* _release_if_open drains what is registered, or releases at once.
LEMMA ReleaseKeeps == ASSUME RAInv, NEW p \in Parents, Release(p) PROVE RAInv'
<1> DEFINE o == ra.owner[p]
           ch == ra.child[p]
           draining == [StartDrain(o) EXCEPT !.st = "releasing", !.pc = "cancelling"]
           releasing == [o EXCEPT !.st = "releasing", !.pc = "release"]
<1>1. RollOK(o, ch) /\ o.pc = "refuse"
  BY OwnerPut DEF Release
<1>2. CASE o.st \in {"active", "sealing"}
  <2>1. ra' = SetParent(ra, p, draining, ch)
    BY <1>2, OwnerPut DEF Release, SetParent, RAInv, RAState
  <2>2. RollOK(draining, ch)
    BY <1>1, <1>2 DEF StartDrain, RollOK, StandOK, ListOK, ChildrenOK, Rolled, OwnerRecords
  <2> HIDE DEF o, ch, draining
  <2> QED BY <2>1, <2>2, PutKeeps
<1>3. CASE o.st \notin {"active", "sealing"}
  <2>1. ra' = SetParent(ra, p, releasing, ch)
    BY <1>3, OwnerPut DEF Release, SetParent, RAInv, RAState
  <2>2. RollOK(releasing, ch)
    BY <1>1, <1>3 DEF RollOK, StandOK, ListOK, ChildrenOK, Rolled, OwnerRecords
  <2> HIDE DEF o, ch, releasing
  <2> QED BY <2>1, <2>2, PutKeeps
<1> QED BY <1>2, <1>3

\* The rollup is taken once the list has drained: what it names are the
\* receipts of the children that were charged (seal_success).
LEMMA CollectSealKeeps == ASSUME RAInv, NEW p \in Parents, CollectSeal(p) PROVE RAInv'
<1> DEFINE o == ra.owner[p]
           ch == ra.child[p]
           paid == {i \in 1..Len(o.slots) : ch[o.slots[i]].st = "committed"}
           receipts == Restrict(o.slots, paid)
           none == [o EXCEPT !.st = "active", !.pc = "refuse"]
           ready == [RemoveContext(o) EXCEPT !.rollup = receipts, !.st = "ready", !.pc = "respond"]
<1>1. RollOK(o, ch) /\ o.pc = "collect"
  BY OwnerPut DEF CollectSeal
<1>2. CASE DOMAIN receipts = {}
  <2>1. ra' = SetParent(ra, p, none, ch)
    BY <1>2, OwnerPut DEF CollectSeal, SetParent, RAInv, RAState
  <2>2. RollOK(none, ch)
    BY <1>1, <1>2 DEF RollOK, StandOK, ListOK, ChildrenOK, Rolled, OwnerRecords
  <2> HIDE DEF o, ch, none
  <2> QED BY <2>1, <2>2, PutKeeps
<1>3. CASE DOMAIN receipts # {}
  <2>1. ra' = SetParent(ra, p, ready, ch)
    BY <1>3, OwnerPut DEF CollectSeal, SetParent, RAInv, RAState
  <2>2. /\ o \in OwnerRecords /\ ch \in [Children -> ChildRecords] /\ StandOK(o) /\ ListOK(o, ch) /\ ChildrenOK(o, ch)
        /\ o.slots \in Seq(Children) /\ o.ctx /\ o.drained /\ o.resv # "committed" /\ IsInjective(o.slots) /\ ~o.cut
    BY <1>1 DEF RollOK, OwnerRecords, StandOK, ListOK
  <2>16. receipts = [i \in paid |-> o.slots[i]] /\ paid \in SUBSET (1..Len(o.slots))
    BY DEF Restrict
  <2>3. DOMAIN receipts = paid /\ \A i \in paid : receipts[i] = o.slots[i] /\ i \in 1..Len(o.slots)
    BY <2>16
  <2>4. receipts \in [paid -> Children] /\ paid \in SUBSET Nat
    <3>1. \A i \in 1..Len(o.slots) : o.slots[i] \in Children /\ i \in Nat
      BY <2>2
    <3> HIDE DEF paid, receipts
    <3> QED BY <2>16, <3>1
  <2>5. \A i \in paid : ch[o.slots[i]].st = "committed" /\ o.slots[i] \in Children
    BY <2>2
  <2>6. \A i \in 1..Len(o.slots) : ch[o.slots[i]].st = "committed" => i \in paid
    OBVIOUS
  <2> HIDE DEF receipts, paid
  <2>7. IsInjective(receipts)
    <3>1. \A i, j \in 1..Len(o.slots) : o.slots[i] = o.slots[j] => i = j
      BY <2>2 DEF IsInjective
    <3> QED BY <2>3, <3>1 DEF IsInjective
  <2>8. Range(receipts) = {c \in Children : ch[c].st = "committed"}
    <3>1. Range(receipts) \subseteq {c \in Children : ch[c].st = "committed"}
      BY <2>3, <2>5 DEF Range
    <3>2. ASSUME NEW c \in Children, ch[c].st = "committed" PROVE c \in Range(receipts)
      <4>1. c \in Range(o.slots)
        BY <2>2, <3>2 DEF ListOK, ListedStates, Terminal
      <4>2. PICK i \in 1..Len(o.slots) : o.slots[i] = c
        BY <2>2, <4>1 DEF Range
      <4> QED BY <2>3, <2>6, <3>2, <4>2 DEF Range
    <3> QED BY <3>1, <3>2
  <2>9. receipts \in Rollups /\ << >> \in Seq(Children) /\ IsInjective(<< >>)
    BY <2>4 DEF Rollups, IsInjective
  <2>11. \A c \in Children : ch[c].st \in Idle
    BY <1>1, <2>2, DrainedIdle
  <2>12. ready \in OwnerRecords /\ StandOK(ready)
    BY <1>1, <2>2, <2>9 DEF OwnerRecords, StandOK, RemoveContext
  <2>13. ListOK(ready, ch) /\ ChildrenOK(ready, ch)
    BY <1>1, <2>2, <2>9, <2>11 DEF OwnerRecords, ListOK, ChildrenOK, CallbackStates, RemoveContext
  <2>14. ready.rollup = receipts
    BY <2>2 DEF OwnerRecords, RemoveContext
  <2>15. Rolled(ready, ch)
    BY <1>3, <2>7, <2>8, <2>14 DEF Rolled
  <2>10. RollOK(ready, ch)
    BY <2>2, <2>12, <2>13, <2>15 DEF RollOK
  <2> HIDE DEF o, ch, ready
  <2> QED BY <2>1, <2>10, PutKeeps
<1> QED BY <1>2, <1>3

\* A step of a child of a registered parent moves the list and whether it has
\* drained, and nothing else of its owner.
SameStand(o2, o) ==
  /\ o2 \in OwnerRecords
  /\ o2.st = o.st /\ o2.pc = o.pc /\ o2.ctx = o.ctx /\ o2.accepting = o.accepting
  /\ o2.rollup = o.rollup /\ o2.resv = o.resv /\ o2.cut = o.cut
\* What such a step must show keeps the parent's invariant.
LEMMA ChildMoves ==
  ASSUME NEW o, NEW ch, RollOK(o, ch), o.ctx, NEW c \in Children, NEW k \in ChildRecords, NEW o2, SameStand(o2, o),
         ListOK(o2, [ch EXCEPT ![c] = k]), o.pc = "collect" => o2.drained,
         k.st = "backoff" => c \in Callbacks, c \in Callbacks /\ k.st \in CallbackStates => o.pc = "run"
  PROVE  RollOK(o2, [ch EXCEPT ![c] = k])
<1> DEFINE ch2 == [ch EXCEPT ![c] = k]
<1>1. /\ o \in OwnerRecords /\ ch \in [Children -> ChildRecords] /\ StandOK(o) /\ ChildrenOK(o, ch)
  BY DEF RollOK
<1>2. ch2 \in [Children -> ChildRecords] /\ \A d \in Children : ch2[d] = IF d = c THEN k ELSE ch[d]
  BY <1>1
<1> HIDE DEF ch2
<1>3. StandOK(o2)
  BY <1>1 DEF SameStand, StandOK
<1>4. ChildrenOK(o2, ch2)
  <2>1. o2.ctx /\ o2.pc = o.pc
    BY DEF SameStand
  <2>2. \A d \in Children : ch2[d].st = "backoff" => d \in Callbacks
    BY <1>1, <1>2 DEF ChildrenOK
  <2>3. \A d \in Callbacks : d \in Children => (ch2[d].st \in CallbackStates => o.pc = "run")
    BY <1>1, <1>2 DEF ChildrenOK
  <2> QED BY <2>1, <2>2, <2>3, ResearchAssumption DEF ChildrenOK
<1>5. ~(o2.pc \in {"respond", "commit"} \/ o2.resv = "committed")
  BY <1>1 DEF SameStand, StandOK
<1>6. o2 \in OwnerRecords
  BY DEF SameStand
<1> QED BY <1>2, <1>3, <1>4, <1>5, <1>6 DEF RollOK, ch2

\* A child that holds a reservation is on the list of a registered parent.
LEMMA ActiveListed ==
  ASSUME NEW o, NEW ch, RollOK(o, ch), NEW c \in Children, ch[c].st \notin Idle
  PROVE  /\ o.ctx /\ (ch[c].st # "backoff" => c \in Range(o.slots)) /\ o \in OwnerRecords /\ ch \in [Children -> ChildRecords]
         /\ ch[c].st \in ListedStates => ~o.drained /\ o.pc # "collect"
         /\ IsInjective(o.slots) /\ o.slots \in Seq(Children) /\ Range(o.slots) = {d \in Children : ch[d].st \in ListedStates}
         /\ o.drained => \A d \in Children : ch[d].st \in ListedStates => ch[d].st \in Terminal
         /\ o.pc # "begin"
<1>1. o.ctx
  BY DEF RollOK, ChildrenOK
<1>2. ch[c].st \in ListedStates \cup {"backoff"}
  BY DEF RollOK, ChildRecords, ListedStates, CallbackStates, Terminal, Idle
<1>3. ch[c].st \notin Terminal
  BY DEF Terminal, Idle
<1> QED BY <1>1, <1>2, <1>3 DEF RollOK, ListOK, StandOK, OwnerRecords

\* The states of a child that keeps its place.
LEMMA StateMoves ==
  ASSUME RAInv, NEW p \in Parents, NEW c \in Children, NEW st \in {"bound", "committing", "unsettled"},
         ra.child[p][c].st \in {"prepared", "bound", "committing"}, ra' = [ra EXCEPT !.child[p][c].st = st]
  PROVE  RAInv'
<1> DEFINE o == ra.owner[p]
           ch == ra.child[p]
           k == [ch[c] EXCEPT !.st = st]
           ch2 == [ch EXCEPT ![c] = k]
<1>1. RollOK(o, ch)
  BY OwnerPut
<1>2. ra' = SetParent(ra, p, o, ch2)
  BY OwnerPut DEF SetParent, RAInv, RAState
<1>3. ch[c].st \notin Idle /\ ch[c].st \in ListedStates /\ ch[c].st # "backoff"
  BY DEF Idle, ListedStates
<1>4. k \in ChildRecords /\ k.st = st
  BY <1>1 DEF RollOK, ChildRecords, ListedStates
<1>5. st \in ListedStates \ Terminal /\ st # "backoff"
  BY DEF ListedStates, Terminal
<1> HIDE DEF o, ch
<1>6. o.ctx /\ ch \in [Children -> ChildRecords] /\ ~o.drained /\ o.pc # "collect" /\ o.pc # "begin"
  BY <1>1, <1>3, ActiveListed
<1> HIDE DEF k
<1>7. ListOK(o, ch2)
  <2>1. \A d \in Children : ch2[d] = IF d = c THEN k ELSE ch[d]
    BY <1>6
  <2> HIDE DEF ch2
  <2> QED BY <1>1, <1>3, <1>4, <1>5, <1>6, <2>1 DEF RollOK, ListOK
<1>8. SameStand(o, o)
  BY <1>1 DEF SameStand, RollOK
<1>9. c \in Callbacks => o.pc = "run"
  BY <1>1 DEF RollOK, ChildrenOK, CallbackStates, o, ch
<1>10. RollOK(o, ch2)
  BY <1>1, <1>4, <1>5, <1>6, <1>7, <1>8, <1>9, ChildMoves
<1> HIDE DEF ch2
<1> QED BY <1>2, <1>10, PutKeeps

\* finish_child_commit and finish_child_release: the child's receipt is final,
\* and the last one to finish wakes who waits.
LEMMA FinishKeeps ==
  ASSUME RAInv, NEW p \in Parents, NEW c \in Children, NEW st \in Terminal,
         ra.child[p][c].st \in {"bound", "committing", "unsettled"}, ra' = FinishSlot(ra, p, c, st)
  PROVE  RAInv'
<1> DEFINE o == ra.owner[p]
           ch == ra.child[p]
           k == [ch[c] EXCEPT !.st = st]
           ch2 == [ch EXCEPT ![c] = k]
           o2 == [o EXCEPT !.drained = @ \/ AllTerminal(o, ch2)]
<1>1. RollOK(o, ch)
  BY OwnerPut
<1>2. ra' = SetParent(ra, p, o2, ch2)
  BY OwnerPut DEF FinishSlot, SetParent, RAInv, RAState
<1>3. ch[c].st \notin Idle /\ ch[c].st \in ListedStates /\ ch[c].st # "backoff"
  BY DEF Idle, ListedStates
<1>4. k \in ChildRecords /\ k.st = st
  BY <1>1 DEF RollOK, ChildRecords, ListedStates
<1>5. st \in ListedStates /\ st # "backoff" /\ st \notin CallbackStates
  BY DEF ListedStates, Terminal, CallbackStates
<1> HIDE DEF o, ch
<1>6. /\ o.ctx /\ o \in OwnerRecords /\ ch \in [Children -> ChildRecords] /\ ~o.drained /\ o.pc # "collect" /\ o.pc # "begin"
      /\ IsInjective(o.slots) /\ o.slots \in Seq(Children) /\ Range(o.slots) = {d \in Children : ch[d].st \in ListedStates}
  BY <1>1, <1>3, ActiveListed
<1> HIDE DEF k
<1>7. \A d \in Children : ch2[d] = IF d = c THEN k ELSE ch[d]
  BY <1>6
<1> HIDE DEF ch2
<1>8. AllTerminal(o, ch2) \in BOOLEAN /\ (AllTerminal(o, ch2) => \A d \in Children : ch2[d].st \in ListedStates => ch2[d].st \in Terminal)
  <2>1. ASSUME AllTerminal(o, ch2), NEW d \in Children, ch2[d].st \in ListedStates PROVE ch2[d].st \in Terminal
    <3>1. d \in Range(o.slots)
      BY <1>3, <1>6, <1>7, <2>1
    <3>2. PICK i \in 1..Len(o.slots) : o.slots[i] = d
      BY <1>6, <3>1 DEF Range
    <3> QED BY <2>1, <3>2 DEF AllTerminal
  <2> QED BY <2>1 DEF AllTerminal
<1>9. SameStand(o2, o) /\ o2.slots = o.slots /\ (o2.drained <=> AllTerminal(o, ch2))
  BY <1>6, <1>8 DEF SameStand, OwnerRecords
<1> HIDE DEF o2
<1>10. ListOK(o2, ch2)
  BY <1>3, <1>4, <1>5, <1>6, <1>7, <1>8, <1>9 DEF ListOK, SameStand
<1>11. RollOK(o2, ch2)
  BY <1>1, <1>4, <1>5, <1>6, <1>9, <1>10, ChildMoves DEF ch2
<1> QED BY <1>2, <1>11, PutKeeps

\* abort_child: the child leaves the list, whose last open one may have been it.
LEMMA AbortKeeps ==
  ASSUME RAInv, NEW p \in Parents, NEW c \in Children, NEW st \in {"over", "backoff"}, st = "backoff" => c \in Callbacks,
         ra.child[p][c].st = "prepared", ra' = [ra EXCEPT !.owner[p] = AbortChild(@, ra.child[p], c), !.child[p][c].st = st]
  PROVE  RAInv'
<1> DEFINE o == ra.owner[p]
           ch == ra.child[p]
           k == [ch[c] EXCEPT !.st = st]
           ch2 == [ch EXCEPT ![c] = k]
           o1 == [o EXCEPT !.slots = RemoveFirst(@, c)]
           o2 == AbortChild(o, ch, c)
<1>1. RollOK(o, ch)
  BY OwnerPut
<1>2. ra' = SetParent(ra, p, o2, ch2)
  BY OwnerPut DEF SetParent, RAInv, RAState
<1>3. ch[c].st \notin Idle /\ ch[c].st \in ListedStates /\ ch[c].st # "backoff" /\ ch[c].st \in CallbackStates
  BY DEF Idle, ListedStates, CallbackStates
<1>4. k \in ChildRecords /\ k.st = st
  BY <1>1 DEF RollOK, ChildRecords, CallbackStates, Idle
<1>5. st \notin ListedStates
  BY DEF ListedStates, Terminal
<1>9. c \in Callbacks => o.pc = "run"
  BY <1>1, <1>3 DEF RollOK, ChildrenOK
<1> HIDE DEF o, ch, o2
<1>6. /\ o.ctx /\ o \in OwnerRecords /\ ch \in [Children -> ChildRecords] /\ ~o.drained /\ o.pc # "collect" /\ o.pc # "begin"
      /\ IsInjective(o.slots) /\ o.slots \in Seq(Children) /\ Range(o.slots) = {d \in Children : ch[d].st \in ListedStates}
  BY <1>1, <1>3, ActiveListed
<1>7. \A d \in Children : ch2[d] = IF d = c THEN k ELSE ch[d]
  BY <1>6
<1> DEFINE t == RemoveFirst(o.slots, c)
<1>8. t \in Seq(Children) /\ IsInjective(t) /\ Range(t) = Range(o.slots) \ {c}
  <2>1. c \in Range(o.slots)
    BY <1>3, <1>6
  <2> QED BY <1>6, <2>1, DropOne
<1>10. o1 \in OwnerRecords /\ o1.slots = t /\ o1.drained = o.drained
  BY <1>6, <1>8 DEF OwnerRecords
<1>11. SameStand(o1, o)
  BY <1>6, <1>10 DEF SameStand, OwnerRecords
<1>17. o2 = [o1 EXCEPT !.drained = @ \/ AllTerminal(o1, ch)]
  BY DEF AbortChild, o2
<1> HIDE DEF k, ch2, t, o1
<1>12. AllTerminal(o1, ch) \in BOOLEAN /\ (AllTerminal(o1, ch) => \A d \in Children : ch2[d].st \in ListedStates => ch2[d].st \in Terminal)
  <2>1. ASSUME AllTerminal(o1, ch), NEW d \in Children, ch2[d].st \in ListedStates PROVE ch2[d].st \in Terminal
    <3>1. d # c /\ ch2[d] = ch[d]
      BY <1>4, <1>5, <1>7, <2>1
    <3>2. d \in Range(t)
      BY <1>6, <1>8, <2>1, <3>1
    <3>3. PICK i \in 1..Len(t) : t[i] = d
      BY <1>8, <3>2 DEF Range
    <3> QED BY <1>10, <2>1, <3>1, <3>3 DEF AllTerminal
  <2> QED BY <2>1 DEF AllTerminal
<1>13. SameStand(o2, o) /\ o2.slots = t /\ (o2.drained <=> AllTerminal(o1, ch))
  BY <1>6, <1>10, <1>11, <1>12, <1>17 DEF SameStand, OwnerRecords
<1>14. Range(t) = {d \in Children : ch2[d].st \in ListedStates}
  BY <1>4, <1>5, <1>6, <1>7, <1>8
<1>15. ListOK(o2, ch2)
  BY <1>6, <1>8, <1>12, <1>13, <1>14 DEF ListOK, SameStand
<1>16. RollOK(o2, ch2)
  BY <1>1, <1>4, <1>6, <1>9, <1>13, <1>15, ChildMoves DEF ch2
<1> QED BY <1>2, <1>16, PutKeeps

\* prepare_child: the child goes to the end of a list that is open.
LEMMA PrepareKeeps ==
  ASSUME RAInv, NEW p \in Parents, NEW c \in Children, ra.child[p][c].st \in {"no", "backoff"}, Resolves(ra.owner[p]),
         c \in Callbacks => ra.owner[p].pc = "run", ra' = Prepare(ra, p, c)
  PROVE  RAInv'
<1> DEFINE o == ra.owner[p]
           ch == ra.child[p]
           k == [st |-> "prepared", tries |-> ch[c].tries + 1]
           ch2 == [ch EXCEPT ![c] = k]
           o2 == [o EXCEPT !.slots = Append(@, c), !.drained = FALSE]
<1>1. RollOK(o, ch) /\ o \in OwnerRecords /\ ch \in [Children -> ChildRecords]
  BY OwnerPut DEF RollOK
<1>2. ra' = SetParent(ra, p, o2, ch2)
  BY OwnerPut DEF Prepare, SetParent, RAInv, RAState
<1>3. ch[c].st \notin ListedStates /\ "prepared" \in ListedStates /\ "prepared" \in CallbackStates
  BY DEF ListedStates, Terminal, CallbackStates
<1>4. k \in ChildRecords /\ k.st = "prepared"
  BY <1>1, <1>3 DEF ChildRecords
<1>5. o.ctx /\ o.accepting /\ (c \in Callbacks => o.pc = "run")
  BY DEF Resolves
<1> HIDE DEF o, ch
<1>6. o.pc # "collect" /\ o.pc # "begin"
  BY <1>1, <1>5 DEF RollOK, StandOK
<1>7. \A d \in Children : ch2[d] = IF d = c THEN k ELSE ch[d]
  BY <1>1
<1>8. IsInjective(o.slots) /\ o.slots \in Seq(Children) /\ Range(o.slots) = {d \in Children : ch[d].st \in ListedStates}
  BY <1>1, <1>5 DEF RollOK, ListOK, OwnerRecords
<1> DEFINE t == Append(o.slots, c)
<1>9. t \in Seq(Children) /\ IsInjective(t) /\ Range(t) = Range(o.slots) \cup {c}
  <2>1. c \notin Range(o.slots)
    BY <1>3, <1>8
  <2> QED BY <1>8, <2>1, AddOne
<1> HIDE DEF k, ch2, t
<1>10. SameStand(o2, o) /\ o2.slots = t /\ o2.drained = FALSE
  BY <1>1, <1>9 DEF SameStand, OwnerRecords, t
<1> HIDE DEF o2
<1>11. Range(t) = {d \in Children : ch2[d].st \in ListedStates}
  BY <1>3, <1>4, <1>7, <1>8, <1>9
<1>12. ListOK(o2, ch2)
  BY <1>5, <1>6, <1>9, <1>10, <1>11 DEF ListOK, SameStand
<1>13. RollOK(o2, ch2)
  BY <1>1, <1>4, <1>5, <1>6, <1>10, <1>12, ChildMoves DEF ch2
<1> QED BY <1>2, <1>13, PutKeeps

\* A child that is refused a place is over.
LEMMA OverKeeps ==
  ASSUME RAInv, NEW p \in Parents, NEW c \in Children, ra.child[p][c].st \in {"no", "backoff"}, ra.owner[p].pc # "begin",
         ra' = [ra EXCEPT !.child[p][c].st = "over"]
  PROVE  RAInv'
<1> DEFINE o == ra.owner[p]
           ch == ra.child[p]
           k == [ch[c] EXCEPT !.st = "over"]
           ch2 == [ch EXCEPT ![c] = k]
<1>1. RollOK(o, ch) /\ o \in OwnerRecords /\ ch \in [Children -> ChildRecords]
  BY OwnerPut DEF RollOK
<1>2. ra' = SetParent(ra, p, o, ch2)
  BY OwnerPut DEF SetParent, RAInv, RAState
<1>3. /\ ch[c].st \notin ListedStates /\ ch[c].st # "committed"
      /\ "over" \notin ListedStates /\ "over" \notin CallbackStates /\ "over" \in Idle /\ "over" # "committed"
  BY DEF ListedStates, Terminal, CallbackStates, Idle
<1>4. k \in ChildRecords /\ k.st = "over"
  BY <1>1, <1>3 DEF ChildRecords
<1>13. o.pc # "begin"
  OBVIOUS
<1> HIDE DEF o, ch
<1>5. \A d \in Children : ch2[d] = IF d = c THEN k ELSE ch[d]
  BY <1>1
<1>6. ch2 \in [Children -> ChildRecords]
  BY <1>1, <1>4
<1> HIDE DEF k, ch2
<1>7. {d \in Children : ch2[d].st \in ListedStates} = {d \in Children : ch[d].st \in ListedStates}
  BY <1>3, <1>4, <1>5
<1>8. {d \in Children : ch2[d].st = "committed"} = {d \in Children : ch[d].st = "committed"}
  BY <1>3, <1>4, <1>5
<1>9. ListOK(o, ch2)
  BY <1>1, <1>3, <1>4, <1>5, <1>7, <1>13 DEF RollOK, ListOK
<1>10. ChildrenOK(o, ch2)
  BY <1>1, <1>3, <1>4, <1>5, ResearchAssumption DEF RollOK, ChildrenOK
<1>11. Rolled(o, ch) => Rolled(o, ch2)
  BY <1>8 DEF Rolled
<1>12. RollOK(o, ch2)
  BY <1>1, <1>6, <1>9, <1>10, <1>11 DEF RollOK
<1> QED BY <1>2, <1>12, PutKeeps

\* A child is given its place, or refused one.
LEMMA PrepareChildKeeps == ASSUME RAInv, NEW p \in Parents, NEW c \in Children, PrepareChild(p, c) PROVE RAInv'
<1>1. ra.child[p][c].st = "no" /\ (c \in Callbacks => ra.owner[p].pc = "run") /\ (ra.owner[p].ctx \/ ra.owner[p].pc # "begin")
  BY DEF PrepareChild
<1>2. CASE Resolves(ra.owner[p]) /\ ra' = Prepare(ra, p, c)
  BY <1>1, <1>2, PrepareKeeps
<1>3. CASE ra' = [ra EXCEPT !.child[p][c].st = "over"]
  <2>1. ra.owner[p].pc # "begin"
    BY <1>1, OwnerPut DEF RollOK, StandOK
  <2> QED BY <1>1, <1>3, <2>1, OverKeeps
<1> QED BY <1>2, <1>3 DEF PrepareChild

\* A child's reservation, work, commit and settlement.
LEMMA ChildStepKeeps == ASSUME RAInv, NEW p \in Parents, NEW c \in Children, ChildStep(p, c) PROVE RAInv'
<1>1. CASE ReserveChild(p, c)
  <2>1. ra.child[p][c].st = "prepared"
    BY <1>1 DEF ReserveChild
  <2>2. CASE ra' = [ra EXCEPT !.child[p][c].st = "bound"]
    BY <2>1, <2>2, StateMoves
  <2>3. CASE ra' = [ra EXCEPT !.owner[p] = AbortChild(@, ra.child[p], c), !.child[p][c].st = "over"]
    BY <2>1, <2>3, AbortKeeps
  <2>4. CASE c \in Callbacks /\ ra' = [ra EXCEPT !.owner[p] = AbortChild(@, ra.child[p], c), !.child[p][c].st = "backoff"]
    BY <2>1, <2>4, AbortKeeps
  <2> QED BY <1>1, <2>2, <2>3, <2>4 DEF ReserveChild
<1>2. CASE RetryReserve(p, c)
  <2>1. ra.child[p][c].st = "backoff" /\ ra.owner[p].pc = "run"
    <3>1. ra.child[p][c].st = "backoff" /\ "backoff" \in CallbackStates
      BY <1>2 DEF RetryReserve, CallbackStates
    <3>2. ChildrenOK(ra.owner[p], ra.child[p])
      BY OwnerPut DEF RollOK
    <3> QED BY <3>1, <3>2 DEF ChildrenOK
  <2>2. CASE Resolves(ra.owner[p]) /\ ra' = Prepare(ra, p, c)
    BY <2>1, <2>2, PrepareKeeps
  <2>3. CASE ra' = [ra EXCEPT !.child[p][c].st = "over"]
    BY <2>1, <2>3, OverKeeps
  <2> QED BY <1>2, <2>2, <2>3 DEF RetryReserve
<1>3. CASE WorkChild(p, c)
  <2>1. ra.child[p][c].st = "bound" /\ "released" \in Terminal
    BY <1>3 DEF WorkChild, Terminal
  <2>2. CASE ra' = [ra EXCEPT !.child[p][c].st = "committing"]
    BY <2>1, <2>2, StateMoves
  <2>3. CASE ra' = FinishSlot(ra, p, c, "released")
    BY <2>1, <2>3, FinishKeeps
  <2> QED BY <1>3, <2>2, <2>3 DEF WorkChild
<1>4. CASE CommitChild(p, c)
  <2>1. ra.child[p][c].st = "committing" /\ "released" \in Terminal /\ "committed" \in Terminal
    BY <1>4 DEF CommitChild, Terminal
  <2>2. CASE ra' = [ra EXCEPT !.child[p][c].st = "unsettled"]
    BY <2>1, <2>2, StateMoves
  <2>3. CASE ra' = FinishSlot(ra, p, c, "released")
    BY <2>1, <2>3, FinishKeeps
  <2>4. CASE ra' = FinishSlot(ra, p, c, "committed")
    BY <2>1, <2>4, FinishKeeps
  <2> QED BY <1>4, <2>2, <2>3, <2>4 DEF CommitChild
<1>5. CASE SettleChild(p, c)
  BY <1>5, FinishKeeps DEF SettleChild
<1> QED BY <1>1, <1>2, <1>3, <1>4, <1>5 DEF ChildStep

\* A parent whose registration is gone has no child open, and what it rolled up
\* stays: the invariant says what RollupExact says.
LEMMA RollupInvariant ==
  /\ RAInit => RAInv
  /\ RAInv /\ [RANext]_ra => RAInv'
  /\ RAInv => RollupExact
<1>1. ASSUME RAInit PROVE RAInv
  <2> DEFINE ch == [c \in Children |-> NewChild]
  <2>1. << >> \in Seq(Children) /\ IsInjective(<< >>) /\ << >> \in Rollups
    <3>1. << >> \in [{} -> Children]
      OBVIOUS
    <3> QED BY <3>1 DEF IsInjective, Rollups
  <2>2. NewOwner \in OwnerRecords /\ NewChild \in ChildRecords
    BY <2>1 DEF NewOwner, OwnerRecords, NewChild, ChildRecords, Idle
  <2>3. \A c \in Children : ch[c].st = "no"
    BY DEF NewChild
  <2>4. ch \in [Children -> ChildRecords]
    BY <2>2
  <2> HIDE DEF ch
  <2>5. "no" \notin ListedStates /\ "no" \notin CallbackStates /\ "no" \in Idle /\ "no" # "backoff"
    BY DEF ListedStates, Terminal, CallbackStates, Idle
  <2>6. StandOK(NewOwner)
    BY DEF StandOK, NewOwner
  <2>9. NewOwner.slots = << >> /\ NewOwner.ctx = FALSE
    BY DEF NewOwner
  <2>7. ListOK(NewOwner, ch) /\ ChildrenOK(NewOwner, ch)
    <3>1. IsInjective(NewOwner.slots)
      BY <2>1, <2>9
    <3>2. ListOK(NewOwner, ch)
      BY <2>3, <2>5, <2>9, <3>1 DEF ListOK
    <3> QED BY <2>3, <2>5, <2>9, <3>2, ResearchAssumption DEF ChildrenOK
  <2>8. RollOK(NewOwner, ch)
    BY <2>2, <2>4, <2>6, <2>7 DEF RollOK, NewOwner
  <2> QED BY <1>1, <2>2, <2>4, <2>8 DEF RAInit, RAInv, RAState, ch
<1>2. ASSUME RAInv, [RANext]_ra PROVE RAInv'
  <2>1. CASE UNCHANGED ra
    BY <1>2, <2>1 DEF RAInv
  <2>2. ASSUME NEW p \in Parents, OwnerStep(p) PROVE RAInv'
    BY <1>2, <2>2, EndResearchKeeps, SealKeeps, SealWakesKeeps, CollectSealKeeps, CommitRollupKeeps, EndCommitKeeps,
       ReleaseKeeps, CancelChildrenKeeps, EndReleaseKeeps DEF OwnerStep
  <2>3. ASSUME NEW p \in Parents, Begin(p) \/ Expire(p) \/ CancelRequest(p) \/ CutShort(p) PROVE RAInv'
    BY <1>2, <2>3, BeginKeeps, ExpireKeeps, CancelRequestKeeps, CutShortKeeps
  <2>4. ASSUME NEW p \in Parents, NEW c \in Children, ChildStep(p, c) \/ PrepareChild(p, c) PROVE RAInv'
    BY <1>2, <2>4, ChildStepKeeps, PrepareChildKeeps
  <2> QED BY <1>2, <2>1, <2>2, <2>3, <2>4 DEF RANext
<1>3. ASSUME RAInv PROVE RollupExact
  <2> SUFFICES ASSUME NEW p \in Parents
               PROVE  LET o == ra.owner[p]
                          charged == {c \in Children : ra.child[p][c].st = "committed"}
                          open == {c \in Children : ra.child[p][c].st \notin Idle} IN
                      /\ o.resv = "committed" => DOMAIN o.rollup # {} /\ Range(o.rollup) = charged /\ IsInjective(o.rollup)
                      /\ o.st \in {"ready", "committing", "closed"} /\ ~o.cut => open = {} /\ ~o.ctx
    BY DEF RollupExact
  <2>1. RollOK(ra.owner[p], ra.child[p])
    BY <1>3, OwnerPut
  <2> QED BY <2>1 DEF RollOK, StandOK, ChildrenOK, Rolled
<1> QED BY <1>1, <1>2, <1>3

\* RollupExact holds of every number of parents, children, callbacks, contexts and attempts.
THEOREM RollupAlwaysExact == RASpec => []RollupExact
<1>1. RAInit => RAInv
  BY RollupInvariant
<1>2. RAInv /\ [RANext]_ra => RAInv'
  BY RollupInvariant
<1>3. RAInv => RollupExact
  BY RollupInvariant
<1> QED BY <1>1, <1>2, <1>3, PTL DEF RASpec
====
