----------------------- MODULE AccountingBooksProofs -----------------------
(***************************************************************************)
(* The tables of Accounting agree: the ledger's reservations with the      *)
(* sessions still to be charged, and the events the service counts as      *)
(* unsettled with what the databases have not finished.  Then what the     *)
(* service has settled when it says so: nothing is left when stop()        *)
(* reports STOPPED, and no accepted event of the key when its spending is  *)
(* set to zero.                                                            *)
(***************************************************************************)
EXTENDS AccountingProofs

\* A session whose commit has its answer from the source.
Late == {"project", "retrying", "resetting", "terminal"}
From(source) == Projecting /\ mem.from = source

\* The tables, the ledger and the source agree about session s.
SessionBooks(s) ==
    /\ s \in mem.reserved <=> (mem.pc[s] \in LivePcs /\ s \notin mem.liable)
    /\ mem.pc[s] = "none" => s \notin mem.liable
    /\ mem.pc[s] = "project" => s \in mem.liable
    /\ mem.future[s] = "receipt" => s \in mem.liable
    /\ s \in mem.retained => mem.pc[s] \in Late
    /\ mem.pc[s] \in {"accept", "answered"} => s \in mem.inflight
    /\ mem.pc[s] \in {"none", "reserved", "releasing", "accept"} => s \notin db.accepted
    /\ (mem.pc[s] = "answered" /\ mem.answer[s] = "permanent") => s \notin db.accepted

\* What is still to be retried is retained; an event the retry has stored is
\* charged to the session that waits for it; a session that holds the lock
\* finishes its own projection or the reset of its key.
RetryBooks ==
    /\ (mem.step = "retained" \/ From("retained")) => mem.todo \subseteq mem.retained
    /\ From("retained") =>
          /\ mem.pc[mem.ev] \in Late
          /\ mem.pc[mem.ev] \in {"project", "retrying"} => mem.ev \in mem.liable
    /\ (mem.owner \in Sessions /\ ~ From("session")) => mem.pc[mem.owner] = "resetting"

\* From the listing of the backlog on, each unprojected event is tracked or still
\* to be worked on.
ListBooks ==
    /\ (mem.step \in {"pending", "drained", "audit"} \/ From("pending")) =>
           db.accepted \ db.projected \subseteq Unsettled(mem) \cup mem.todo
    /\ mem.step \in {"drained", "audit"} => mem.todo = {}

\* No event is marked before it is charged, none charged before it is accepted.
DurableOrder ==
    /\ db.projected \subseteq db.receipts /\ db.receipts \subseteq db.accepted
    /\ mem.step = "mark" => mem.ev \in db.receipts

\* Without key mutations nothing waits for one.
NoMutators ==
    Operations = {} =>
        /\ mem.resetPending = {}
        /\ \A j \in Mutations : mem.job[j].pc = "idle"
        /\ \A s \in Sessions : mem.pc[s] # "resetting"

BooksInv ==
    /\ WorkInv
    /\ \A s \in Sessions : SessionBooks(s)
    /\ RetryBooks /\ ListBooks /\ DurableOrder /\ NoMutators
    /\ perms \in Nat /\ UnsettledTracked

---------------------------------------------------------------------------
(* What keeps each part.                                                   *)

\* A session whose entries do not change, but for an error it is told, a receipt
\* after its charge, or the end of the reset it made.
LEMMA SessionKept ==
    ASSUME BooksInv, NEW q \in Sessions,
           \/ mem'.pc[q] = mem.pc[q]
           \/ mem.pc[q] = "resetting" /\ mem'.pc[q] = "terminal",
           mem'.answer[q] = mem.answer[q],
           mem'.future[q] = "receipt" => mem.future[q] = "receipt" \/ q \in mem'.liable,
           q \in mem'.liable <=> q \in mem.liable,
           q \in mem'.reserved <=> q \in mem.reserved,
           q \in mem'.retained => q \in mem.retained,
           q \in mem.inflight => q \in mem'.inflight,
           q \in db'.accepted => q \in db.accepted
    PROVE  SessionBooks(q)'
<1>1. SessionBooks(q) BY DEF BooksInv
<1>2. CASE mem'.pc[q] = mem.pc[q] BY <1>1, <1>2 DEF SessionBooks
<1>3. CASE mem.pc[q] = "resetting" /\ mem'.pc[q] = "terminal"
  BY <1>1, <1>3 DEF SessionBooks, LivePcs, Late
<1> QED BY <1>2, <1>3

\* The tables still cover the backlog.
LEMMA TrackedKept ==
    ASSUME BooksInv, perms' \in Nat, perms' = 0 => perms = 0,
           mem'.init => mem.init, mem.fatal => mem'.fatal,
           \A e \in db'.accepted \ db'.projected :
               \/ e \in db.accepted \ db.projected /\ (e \in Unsettled(mem) => e \in Unsettled(mem'))
               \/ e \in Unsettled(mem')
    PROVE  UnsettledTracked'
  BY DEF BooksInv, UnsettledTracked, Unsettled

LEMMA SameUnsettled ==
    ASSUME NEW m, NEW n, SameTables(n, m) PROVE Unsettled(n) = Unsettled(m)
  BY DEF SameTables, Unsettled

\* Steps that leave the databases alone.
LEMMA DurableKept ==
    ASSUME BooksInv, db' = db, mem'.step = "mark" => mem.step = "mark" /\ mem'.ev = mem.ev
    PROVE  DurableOrder'
  BY DEF BooksInv, DurableOrder

---------------------------------------------------------------------------
(* The steps of a request.                                                 *)

LEMMA RequestKeepsBooks ==
    ASSUME BooksInv, NEW s \in Sessions, RequestStep(mem', mem), WorkInv',
           perms' \in Nat, perms' = 0 => perms = 0,
           db' = db \/ db' = AcceptedBy(db, s),
           mem.pc[s] \notin {"project", "resetting", "terminal"},
           SessionBooks(s)',
           \A q \in Sessions \ {s} : /\ mem'.pc[q] = mem.pc[q] /\ mem'.answer[q] = mem.answer[q]
                                     /\ mem'.future[q] = mem.future[q],
           \A q \in Sessions \ {s} :
               /\ q \in mem'.liable <=> q \in mem.liable
               /\ q \in mem'.reserved <=> q \in mem.reserved,
           \A q \in Sessions \ {s} :
               /\ q \in mem'.retained <=> q \in mem.retained
               /\ q \in mem'.inflight <=> q \in mem.inflight
               /\ q \in mem'.pending <=> q \in mem.pending,
           s \in mem.retained => s \in mem'.retained,
           mem.pc[s] = "retrying" => mem'.pc[s] \in {"terminal", "resetting"},
           mem'.pc[s] = "resetting" => mem.resetPending # {},
           mem.fatal => mem'.fatal,
           s \in db'.accepted \ db.projected =>
               s \in Unsettled(mem') \/ (s \in db.accepted /\ Unsettled(mem') = Unsettled(mem))
    PROVE  BooksInv'
<1>0. /\ mem \in MemoryType /\ db \in DatabaseType /\ mem' \in MemoryType
      /\ mem'.job = mem.job /\ mem'.init = mem.init /\ SameKeys(mem', mem) /\ SameDrain(mem', mem)
  BY DEF BooksInv, WorkInv, TypeOK, RequestStep
<1>1. /\ db'.projected = db.projected /\ db'.receipts = db.receipts
      /\ db.accepted \subseteq db'.accepted
      /\ \A q \in Sessions \ {s} : q \in db'.accepted <=> q \in db.accepted
  BY <1>0, AcceptedByEffect
<1>2. ASSUME NEW q \in Sessions PROVE SessionBooks(q)'
  <2>1. CASE q = s BY <2>1
  <2>2. CASE q # s BY <1>1, <2>2, SessionKept
  <2> QED BY <2>1, <2>2
<1>3. RetryBooks'
  <2>1. /\ mem'.owner = mem.owner /\ mem'.step = mem.step /\ mem'.todo = mem.todo
        /\ mem'.ev = mem.ev /\ mem'.from = mem.from
        /\ \A f : From(f)' <=> From(f)
    BY <1>0 DEF SameDrain, From, Projecting
  <2>2. mem.todo \subseteq Sessions /\ mem'.retained \subseteq Sessions BY <1>0 DEF MemoryType
  <2>3. (mem'.step = "retained" \/ From("retained")') => mem'.todo \subseteq mem'.retained
    BY <2>1, <2>2 DEF BooksInv, RetryBooks
  <2>4. From("retained")' =>
          /\ mem'.pc[mem'.ev] \in Late
          /\ mem'.pc[mem'.ev] \in {"project", "retrying"} => mem'.ev \in mem'.liable
    <3>1. SUFFICES ASSUME From("retained")
                   PROVE  /\ mem'.pc[mem.ev] \in Late
                          /\ mem'.pc[mem.ev] \in {"project", "retrying"} => mem.ev \in mem'.liable
      BY <2>1
    <3>2. /\ mem.ev \in Sessions /\ mem.pc[mem.ev] \in Late
          /\ mem.pc[mem.ev] \in {"project", "retrying"} => mem.ev \in mem.liable
      BY <1>0, <3>1 DEF BooksInv, RetryBooks, From, WorkInv, DrainOK, DatabaseType
    <3>3. CASE mem.ev # s BY <3>2, <3>3
    <3>4. CASE mem.ev = s BY <3>2, <3>4 DEF Late
    <3> QED BY <3>3, <3>4
  <2>5. (mem'.owner \in Sessions /\ ~ From("session")') => mem'.pc[mem'.owner] = "resetting"
    BY <2>1 DEF BooksInv, RetryBooks
  <2> QED BY <2>3, <2>4, <2>5 DEF RetryBooks
<1>4. \A e \in db'.accepted \ db'.projected :
          \/ e \in db.accepted \ db.projected /\ (e \in Unsettled(mem) => e \in Unsettled(mem'))
          \/ e \in Unsettled(mem')
  <2> SUFFICES ASSUME NEW e \in db'.accepted \ db'.projected
               PROVE  \/ /\ e \in db.accepted \ db.projected
                         /\ e \in Unsettled(mem) => e \in Unsettled(mem')
                      \/ e \in Unsettled(mem')
    OBVIOUS
  <2>1. e \in Sessions BY DEF WorkInv, TypeOK, DatabaseType
  <2>2. CASE e = s BY <1>1, <2>2
  <2>3. CASE e # s
    <3>1. e \in Unsettled(mem) => e \in Unsettled(mem') BY <2>1, <2>3 DEF Unsettled
    <3> QED BY <1>1, <2>1, <2>3, <3>1
  <2> QED BY <2>2, <2>3
<1>5. ListBooks'
  <2>1. /\ mem'.step = mem.step /\ mem'.todo = mem.todo /\ \A f : From(f)' <=> From(f)
    BY <1>0 DEF SameDrain, From, Projecting
  <2> QED BY <1>4, <2>1 DEF BooksInv, ListBooks
<1>6. DurableOrder' BY <1>0, <1>1 DEF BooksInv, DurableOrder, SameDrain
<1>7. NoMutators'
  <2>1. mem'.resetPending = mem.resetPending BY <1>0 DEF SameKeys
  <2> QED BY <1>0, <2>1 DEF BooksInv, NoMutators
<1>8. UnsettledTracked' /\ perms' \in Nat
  BY <1>0, <1>4, TrackedKept
<1> QED BY <1>2, <1>3, <1>5, <1>6, <1>7, <1>8 DEF BooksInv

LEMMA PermsGrow ==
    ASSUME BooksInv, Next
    PROVE  perms' \in Nat /\ (perms' = 0 => perms = 0)
<1>1. perms' = perms \/ perms' = perms + 1
  <2>1. ASSUME NEW s \in Sessions,
               \/ Reserve(s) \/ Release(s) \/ ReleaseSession(s)
               \/ Commit(s) \/ SourceAccept(s) \/ SourceAnswered(s) \/ RetryResolved(s)
        PROVE  perms' = perms \/ perms' = perms + 1
    BY <2>1 DEF Reserve, Release, ReleaseSession, Commit, SourceAccept, SourceAnswered,
                RetryResolved, NoFault, Fault, Permanent
  <2>2. ASSUME NEW o \in Sessions \cup Jobs, TakeDrain(o) PROVE perms' = perms
    BY <2>2 DEF TakeDrain, NoFault
  <2>3. ASSUME NEW e \in Sessions, RetryAccept(e) \/ DrainPending(e)
        PROVE  perms' = perms \/ perms' = perms + 1
    BY <2>3 DEF RetryAccept, DrainPending, NoFault, Fault, Permanent
  <2>4. CASE \/ RetainedBatch \/ ListPending \/ PassEnds
             \/ ApplySpendEvent \/ MarkProjected \/ MarkFailed
    BY <2>4 DEF RetainedBatch, ListPending, PassEnds, ApplySpendEvent, MarkProjected,
                MarkFailed,
                NoFault, Fault, Permanent
  <2>5. CASE \/ Start \/ StartDrained \/ StartAudited \/ ProjectorTurn \/ ProjectorDrained
             \/ Stop \/ StopBegins \/ StopSessionsDone \/ StopProjectorJoined
             \/ StopDrained \/ StopAudited \/ FenceDueKey \/ MutatorDrained
             \/ MutateSink \/ MutationApplied \/ Crash
    BY <2>5 DEF Start, StartDrained, StartAudited, ProjectorTurn, ProjectorDrained,
                Stop, StopBegins, StopSessionsDone, StopProjectorJoined, StopDrained,
                StopAudited, FenceDueKey, MutatorDrained, MutateSink, MutationApplied, Crash,
                NoFault, Fault
  <2>6. ASSUME NEW k \in Keys, (\E reset \in BOOLEAN : UpdateKey(k, reset))
                               \/ ListDueBudgets(k) \/ DeleteKey(k)
        PROVE  perms' = perms
    BY <2>6 DEF UpdateKey, ListDueBudgets, DeleteKey, NoFault
  <2> QED BY <2>1, <2>2, <2>3, <2>4, <2>5, <2>6 DEF Next
<1>2. perms \in Nat BY DEF BooksInv
<1> QED BY <1>1, <1>2

LEMMA RequestsKeepBooks ==
    ASSUME BooksInv, WorkInv', Next, NEW s \in Sessions,
           \/ Reserve(s) \/ Release(s) \/ ReleaseSession(s)
           \/ Commit(s) \/ SourceAccept(s) \/ SourceAnswered(s) \/ RetryResolved(s)
    PROVE  BooksInv'
<1>0. /\ mem \in MemoryType /\ db \in DatabaseType /\ WorkInv /\ SessionBooks(s)
      /\ mem.pc \in [Sessions -> SessionPcs] /\ mem.answer \in [Sessions -> Answers]
      /\ perms' \in Nat /\ (perms' = 0 => perms = 0)
  BY PermsGrow DEF BooksInv, WorkInv, TypeOK, MemoryType
<1>1. CASE Reserve(s)
  <2>1. /\ RequestStep(mem', mem) /\ db' = db /\ mem.pc[s] = "none"
        /\ SameTables(mem', mem) /\ SameAnswers(mem', mem) /\ SameLife(mem', mem)
        /\ mem'.liable = mem.liable
        /\ \/ mem'.pc = mem.pc /\ mem'.reserved = mem.reserved
           \/ /\ mem'.pc = [mem.pc EXCEPT ![s] = "reserved"]
              /\ mem'.reserved = mem.reserved \cup {s}
    BY <1>0, <1>1, ReserveEffect
  <2>2. /\ mem'.answer = mem.answer /\ mem'.future = mem.future /\ mem'.fatal = mem.fatal
        /\ mem'.retained = mem.retained /\ mem'.inflight = mem.inflight
        /\ mem'.pending = mem.pending /\ Unsettled(mem') = Unsettled(mem)
    BY <2>1, SameUnsettled DEF SameTables, SameAnswers, SameLife
  <2>3. /\ \A q \in Sessions \ {s} : mem'.pc[q] = mem.pc[q]
        /\ \A q \in Sessions \ {s} : q \in mem'.reserved <=> q \in mem.reserved
        /\ \/ mem'.pc[s] = "none" /\ (s \in mem'.reserved <=> s \in mem.reserved)
           \/ mem'.pc[s] = "reserved" /\ s \in mem'.reserved
    BY <1>0, <2>1
  <2>4. SessionBooks(s)' BY <1>0, <2>1, <2>2, <2>3 DEF SessionBooks, LivePcs, Late
  <2> QED BY <1>0, <2>1, <2>2, <2>3, <2>4, RequestKeepsBooks
<1>2. CASE Release(s)
  <2>1. /\ RequestStep(mem', mem) /\ db' = db
        /\ mem.pc[s] = "reserved" /\ mem'.pc = [mem.pc EXCEPT ![s] = "releasing"]
        /\ SameTables(mem', mem) /\ SameAnswers(mem', mem) /\ SameCharges(mem', mem)
        /\ SameLife(mem', mem)
    BY <1>0, <1>2, ReleaseStepEffect
  <2>2. /\ mem'.answer = mem.answer /\ mem'.future = mem.future /\ mem'.fatal = mem.fatal
        /\ mem'.retained = mem.retained /\ mem'.inflight = mem.inflight
        /\ mem'.pending = mem.pending /\ Unsettled(mem') = Unsettled(mem)
        /\ mem'.liable = mem.liable /\ mem'.reserved = mem.reserved
    BY <2>1, SameUnsettled DEF SameTables, SameAnswers, SameCharges, SameLife
  <2>3. /\ \A q \in Sessions \ {s} : mem'.pc[q] = mem.pc[q]
        /\ mem'.pc[s] = "releasing"
    BY <1>0, <2>1
  <2>4. SessionBooks(s)' BY <1>0, <2>1, <2>2, <2>3 DEF SessionBooks, LivePcs, Late
  <2> QED BY <1>0, <2>1, <2>2, <2>3, <2>4, RequestKeepsBooks
<1>3. CASE ReleaseSession(s)
  <2>1. /\ RequestStep(mem', mem) /\ db' = db
        /\ mem.pc[s] = "releasing" /\ Leaves(mem', mem, s)
        /\ mem'.reserved = mem.reserved \ {s} /\ mem'.liable = mem.liable
        /\ SameTables(mem', mem) /\ SameAnswers(mem', mem) /\ SameLife(mem', mem)
    BY <1>0, <1>3, ReleaseSessionEffect
  <2>2. /\ mem'.answer = mem.answer /\ mem'.future = mem.future /\ mem'.fatal = mem.fatal
        /\ mem'.retained = mem.retained /\ mem'.inflight = mem.inflight
        /\ mem'.pending = mem.pending /\ Unsettled(mem') = Unsettled(mem)
    BY <2>1, SameUnsettled DEF SameTables, SameAnswers, SameLife
  <2>3. /\ \A q \in Sessions \ {s} : mem'.pc[q] = mem.pc[q]
        /\ mem'.pc[s] \in {"terminal", "resetting"}
        /\ mem'.pc[s] = "resetting" => mem.resetPending # {}
    BY <1>0, <2>1, LeavesAt
  <2>4. SessionBooks(s)' BY <1>0, <2>1, <2>2, <2>3 DEF SessionBooks, LivePcs, Late
  <2> QED BY <1>0, <2>1, <2>2, <2>3, <2>4, RequestKeepsBooks
<1>4. CASE Commit(s)
  <2>1. /\ RequestStep(mem', mem) /\ db' = db
        /\ mem.pc[s] = "reserved" /\ mem'.pc = [mem.pc EXCEPT ![s] = "accept"]
        /\ mem'.inflight = mem.inflight \cup {s}
        /\ mem'.retained = mem.retained /\ mem'.pending = mem.pending
        /\ SameAnswers(mem', mem) /\ SameCharges(mem', mem) /\ SameLife(mem', mem)
    BY <1>0, <1>4, CommitEffect
  <2>2. /\ mem'.answer = mem.answer /\ mem'.future = mem.future /\ mem'.fatal = mem.fatal
        /\ mem'.liable = mem.liable /\ mem'.reserved = mem.reserved
        /\ s \in Unsettled(mem')
    BY <2>1 DEF SameAnswers, SameCharges, SameLife, Unsettled
  <2>3. /\ \A q \in Sessions \ {s} : mem'.pc[q] = mem.pc[q]
        /\ mem'.pc[s] = "accept"
    BY <1>0, <2>1
  <2>4. SessionBooks(s)' BY <1>0, <2>1, <2>2, <2>3 DEF SessionBooks, LivePcs, Late
  <2> QED BY <1>0, <2>1, <2>2, <2>3, <2>4, RequestKeepsBooks
<1>5. CASE SourceAccept(s)
  <2>1. /\ RequestStep(mem', mem)
        /\ mem.pc[s] = "accept" /\ mem'.pc = [mem.pc EXCEPT ![s] = "answered"]
        /\ SameTables(mem', mem) /\ SameCharges(mem', mem) /\ SameLife(mem', mem)
        /\ mem'.future = mem.future
        /\ db' = db \/ db' = AcceptedBy(db, s)
    BY <1>0, <1>5, SourceAcceptEffect
  <2>2. PICK a \in {"accepted", "transient", "permanent"} :
           /\ mem'.answer = [mem.answer EXCEPT ![s] = a]
           /\ a = "permanent" => db' = db
    BY <1>0, <1>5, SourceAcceptEffect
  <2>3. /\ mem'.fatal = mem.fatal
        /\ mem'.retained = mem.retained /\ mem'.inflight = mem.inflight
        /\ mem'.pending = mem.pending
        /\ mem'.liable = mem.liable /\ mem'.reserved = mem.reserved
    BY <2>1 DEF SameTables, SameCharges, SameLife
  <2>4. s \in Unsettled(mem') BY <1>0, <2>1, <2>3 DEF SessionBooks, Unsettled
  <2>5. /\ \A q \in Sessions \ {s} : mem'.pc[q] = mem.pc[q] /\ mem'.answer[q] = mem.answer[q]
        /\ mem'.pc[s] = "answered" /\ mem'.answer[s] = a
    BY <1>0, <2>1, <2>2
  <2>6. SessionBooks(s)' BY <1>0, <2>1, <2>2, <2>3, <2>5 DEF SessionBooks, LivePcs, Late
  <2> QED BY <1>0, <2>1, <2>3, <2>4, <2>5, <2>6, RequestKeepsBooks
<1>6. CASE SourceAnswered(s)
  <2>1. /\ RequestStep(mem', mem) /\ db' = db /\ mem.pc[s] = "answered"
        /\ mem'.answer = [mem.answer EXCEPT ![s] = "none"] /\ mem'.future = mem.future
        /\ AnswerAccepted(s) \/ AnswerTransient(s) \/ AnswerPermanent(s)
    BY <1>0, <1>6, SourceAnsweredEffect
  <2>2. /\ mem'.answer[s] = "none" /\ s \notin mem.retained
        /\ \A q \in Sessions \ {s} : mem'.answer[q] = mem.answer[q]
    BY <1>0, <2>1 DEF SessionBooks, Late
  <2>3. CASE AnswerAccepted(s)
    <3>1. /\ mem'.pc = [mem.pc EXCEPT ![s] = "project"]
          /\ mem'.inflight = mem.inflight \ {s} /\ mem'.retained = mem.retained \ {s}
          /\ mem'.pending = mem.pending \cup {s} /\ mem'.liable = mem.liable \cup {s}
          /\ mem'.reserved = IF s \in mem.liable THEN mem.reserved ELSE mem.reserved \ {s}
          /\ mem'.fatal = mem.fatal
      BY <2>3 DEF AnswerAccepted
    <3>2. mem'.pc[s] = "project" /\ \A q \in Sessions \ {s} : mem'.pc[q] = mem.pc[q]
      BY <1>0, <3>1
    <3>3. SessionBooks(s)' BY <1>0, <2>1, <2>2, <3>1, <3>2 DEF SessionBooks, LivePcs, Late
    <3>4. s \in Unsettled(mem') BY <3>1 DEF Unsettled
    <3> QED BY <1>0, <2>1, <2>2, <3>1, <3>2, <3>3, <3>4, RequestKeepsBooks
  <2>4. CASE AnswerTransient(s)
    <3>1. /\ mem'.pc = [mem.pc EXCEPT ![s] = "retrying"]
          /\ mem'.inflight = mem.inflight \ {s} /\ mem'.retained = mem.retained \cup {s}
          /\ mem'.pending = mem.pending
          /\ mem'.liable = mem.liable /\ mem'.reserved = mem.reserved
          /\ mem'.fatal = mem.fatal
      BY <2>4 DEF AnswerTransient, SameCharges
    <3>2. mem'.pc[s] = "retrying" /\ \A q \in Sessions \ {s} : mem'.pc[q] = mem.pc[q]
      BY <1>0, <3>1
    <3>3. SessionBooks(s)' BY <1>0, <2>1, <2>2, <3>1, <3>2 DEF SessionBooks, LivePcs, Late
    <3>4. s \in Unsettled(mem') BY <3>1 DEF Unsettled
    <3> QED BY <1>0, <2>1, <2>2, <3>1, <3>2, <3>3, <3>4, RequestKeepsBooks
  <2>5. CASE AnswerPermanent(s)
    <3>1. /\ mem.answer[s] = "permanent" /\ Leaves(mem', mem, s)
          /\ mem'.inflight = mem.inflight \ {s} /\ mem'.retained = mem.retained \ {s}
          /\ mem'.pending = mem.pending /\ mem'.liable = mem.liable
          /\ mem'.reserved = IF s \in mem.liable THEN mem.reserved ELSE mem.reserved \ {s}
          /\ mem'.fatal = TRUE
      BY <2>5 DEF AnswerPermanent
    <3>2. /\ mem'.pc[s] \in {"terminal", "resetting"}
          /\ \A q \in Sessions \ {s} : mem'.pc[q] = mem.pc[q]
          /\ mem'.pc[s] = "resetting" => mem.resetPending # {}
      BY <1>0, <3>1, LeavesAt
    <3>3. SessionBooks(s)' BY <1>0, <2>1, <2>2, <3>1, <3>2 DEF SessionBooks, LivePcs, Late
    <3>4. s \notin db'.accepted BY <1>0, <2>1, <3>1 DEF SessionBooks
    <3> QED BY <1>0, <2>1, <2>2, <3>1, <3>2, <3>3, <3>4, RequestKeepsBooks
  <2> QED BY <2>1, <2>3, <2>4, <2>5
<1>7. CASE RetryResolved(s)
  <2>1. /\ RequestStep(mem', mem) /\ db' = db
        /\ mem.pc[s] = "retrying" /\ Leaves(mem', mem, s)
        /\ SameTables(mem', mem) /\ SameAnswers(mem', mem) /\ SameLife(mem', mem)
        /\ mem'.liable = mem.liable
        /\ mem'.reserved = IF mem.future[s] = "receipt" \/ s \in mem.liable
                           THEN mem.reserved ELSE mem.reserved \ {s}
    BY <1>0, <1>7, RetryResolvedEffect
  <2>2. /\ mem'.answer = mem.answer /\ mem'.future = mem.future /\ mem'.fatal = mem.fatal
        /\ mem'.retained = mem.retained /\ mem'.inflight = mem.inflight
        /\ mem'.pending = mem.pending /\ Unsettled(mem') = Unsettled(mem)
    BY <2>1, SameUnsettled DEF SameTables, SameAnswers, SameLife
  <2>3. /\ \A q \in Sessions \ {s} : mem'.pc[q] = mem.pc[q]
        /\ mem'.pc[s] \in {"terminal", "resetting"}
        /\ mem'.pc[s] = "resetting" => mem.resetPending # {}
    BY <1>0, <2>1, LeavesAt
  <2>4. SessionBooks(s)' BY <1>0, <2>1, <2>2, <2>3 DEF SessionBooks, LivePcs, Late
  <2> QED BY <1>0, <2>1, <2>2, <2>3, <2>4, RequestKeepsBooks
<1> QED BY <1>1, <1>2, <1>3, <1>4, <1>5, <1>6, <1>7

---------------------------------------------------------------------------
(* The steps of the holder of the drain lock.                              *)

\* Requests, charges and acceptances are left alone; what leaves the tables is
\* projected, unless the service fails or a key mutation met a permanent failure.
LEMMA BooksKept ==
    ASSUME BooksInv, WorkInv', perms' \in Nat, perms' = 0 => perms = 0,
           \A q \in Sessions : \/ mem'.pc[q] = mem.pc[q]
                               \/ mem.pc[q] = "resetting" /\ mem'.pc[q] = "terminal",
           mem'.answer = mem.answer, SameCharges(mem', mem),
           \A q \in Sessions :
               mem'.future[q] = "receipt" => mem.future[q] = "receipt" \/ q \in mem.liable,
           mem'.retained \subseteq mem.retained, mem'.inflight = mem.inflight,
           db'.accepted = db.accepted, db.projected \subseteq db'.projected,
           \/ mem'.fatal \/ (perms' # 0 /\ Operations # {})
           \/ \A e \in db.accepted \ db'.projected :
                  e \in Unsettled(mem) => e \in Unsettled(mem'),
           mem'.init => mem.init, mem.fatal => mem'.fatal,
           RetryBooks', ListBooks', DurableOrder', NoMutators'
    PROVE  BooksInv'
<1>1. \A q \in Sessions : SessionBooks(q)' BY SessionKept DEF SameCharges
<1>2. UnsettledTracked'
  <2>1. CASE mem'.fatal \/ (perms' # 0 /\ Operations # {}) BY <2>1 DEF UnsettledTracked
  <2>2. CASE \A e \in db.accepted \ db'.projected :
                 e \in Unsettled(mem) => e \in Unsettled(mem')
    BY <2>2, TrackedKept
  <2> QED BY <2>1, <2>2
<1> QED BY <1>1, <1>2 DEF BooksInv

LEMMA NoMutatorsKept ==
    ASSUME BooksInv, mem'.resetPending \subseteq mem.resetPending,
           \A j \in Mutations : mem.job[j].pc = "idle" => mem'.job[j].pc = "idle",
           \A s \in Sessions : mem'.pc[s] = "resetting" => mem.pc[s] = "resetting" \/ mem.resetPending # {}
    PROVE  NoMutators'
  BY DEF BooksInv, NoMutators

LEMMA FreeBooks == ASSUME DrainFree(mem') PROVE RetryBooks' /\ ListBooks'
<1>1. /\ mem'.owner = "free" /\ mem'.step = "free" /\ "free" \notin Sessions
      /\ \A f : ~ From(f)'
  BY AccountingNames DEF DrainFree, From, Projecting
<1> QED BY <1>1 DEF RetryBooks, ListBooks

\* A pass that goes on: the tables stay, the next step knows its events.
LEMMA PassKeepsBooks ==
    ASSUME BooksInv, WorkInv', PassStep(mem', mem), perms' \in Nat, perms' = 0 => perms = 0,
           db'.accepted = db.accepted, db.projected \subseteq db'.projected,
           RetryBooks', ListBooks', DurableOrder'
    PROVE  BooksInv'
<1>1. /\ mem'.pc = mem.pc /\ mem'.job = mem.job /\ SameTables(mem', mem)
      /\ SameCharges(mem', mem) /\ mem'.answer = mem.answer /\ mem'.future = mem.future
      /\ mem'.resetPending = mem.resetPending /\ mem'.init = mem.init /\ mem'.fatal = mem.fatal
  BY DEF PassStep, SameAnswers, SameKeys, SameLife
<1>2. mem'.retained = mem.retained /\ mem'.inflight = mem.inflight BY <1>1 DEF SameTables
<1>3. Unsettled(mem') = Unsettled(mem) BY <1>1, SameUnsettled
<1>4. NoMutators' BY <1>1, NoMutatorsKept
<1>5. \A q \in Sessions : mem'.future[q] = "receipt" => mem.future[q] = "receipt" BY <1>1
<1> QED BY <1>1, <1>2, <1>3, <1>4, <1>5, BooksKept

\* An exception that comes out of a pass, raised in the memory m.
LEMMA RaisedKeepsBooks ==
    ASSUME BooksInv, WorkInv', perms' \in Nat, perms' = 0 => perms = 0,
           mem.owner # "free", ~ From("session"),
           NEW m \in MemoryType, m.pc = mem.pc, m.job = mem.job, m.owner = mem.owner,
           m.answer = mem.answer, SameCharges(m, mem),
           \A q \in Sessions : m.future[q] = "receipt" => mem.future[q] = "receipt",
           m.retained \subseteq mem.retained, m.inflight = mem.inflight,
           m.resetPending = mem.resetPending, m.init = mem.init, m.fatal = mem.fatal,
           NEW p, Raised(mem', m, p),
           db'.accepted = db.accepted, db.projected \subseteq db'.projected,
           \/ mem'.fatal \/ (perms' # 0 /\ Operations # {})
           \/ \A e \in db.accepted \ db'.projected :
                  e \in Unsettled(mem) => e \in Unsettled(m),
           DurableOrder'
    PROVE  BooksInv'
<1>1. /\ m.owner \in Sessions \cup Jobs /\ m.job \in [Jobs -> JobType] BY DEF MemoryType
<1>2. /\ DrainFree(mem') /\ SameTables(mem', m) /\ SameCharges(mem', m)
      /\ mem'.answer = m.answer /\ mem'.resetPending = m.resetPending /\ mem'.init = m.init
      /\ \A s \in Sessions : mem'.future[s] = m.future[s] \/ mem'.future[s] = "error"
      /\ m.fatal => mem'.fatal
  BY DEF Raised, RaisedFrame, RaisedRequests, RaisedLife
<1>3. /\ \A q \in Sessions : mem'.pc[q] = IF q = m.owner THEN "terminal" ELSE m.pc[q]
      /\ \A j \in Jobs : j # m.owner => mem'.job[j] = m.job[j]
      /\ m.owner \in Jobs \ {"projector"} => mem'.job[m.owner] = Idle
  BY <1>1, RaisedAt
<1>4. mem.owner \in Sessions => mem.pc[mem.owner] = "resetting" BY DEF BooksInv, RetryBooks
<1>5. \A q \in Sessions : \/ mem'.pc[q] = mem.pc[q]
                          \/ mem.pc[q] = "resetting" /\ mem'.pc[q] = "terminal"
  BY <1>3, <1>4
<1>6. \A j \in Mutations : mem.job[j].pc = "idle" => mem'.job[j].pc = "idle"
  BY <1>1, <1>3 DEF Mutations, Jobs, Idle
<1>7. NoMutators' BY <1>2, <1>5, <1>6, NoMutatorsKept
<1>8. Unsettled(mem') = Unsettled(m) BY <1>2, SameUnsettled
<1>9. mem'.retained \subseteq mem.retained /\ mem'.inflight = mem.inflight
  BY <1>2 DEF SameTables
<1>10. SameCharges(mem', mem) BY <1>2 DEF SameCharges
<1>11. \A q \in Sessions : mem'.future[q] = "receipt" => mem.future[q] = "receipt" BY <1>2
<1>12. RetryBooks' /\ ListBooks' BY <1>2, FreeBooks
<1>13. \/ mem'.fatal \/ (perms' # 0 /\ Operations # {})
       \/ \A e \in db.accepted \ db'.projected :
              e \in Unsettled(mem) => e \in Unsettled(mem')
  BY <1>8
<1>14. /\ mem'.answer = mem.answer /\ (mem'.init => mem.init) /\ (mem.fatal => mem'.fatal)
  BY <1>2
<1> QED BY <1>5, <1>7, <1>9, <1>10, <1>11, <1>12, <1>13, <1>14, BooksKept

\* The same when it was raised in the memory the holder found.
LEMMA RaisedHereKeepsBooks ==
    ASSUME BooksInv, WorkInv', perms' \in Nat, perms' = 0 => perms = 0,
           mem.owner # "free", ~ From("session"), NEW p, Raised(mem', mem, p),
           db'.accepted = db.accepted, db.projected \subseteq db'.projected, DurableOrder'
    PROVE  BooksInv'
<1>1. mem \in MemoryType /\ SameCharges(mem, mem)
  BY DEF BooksInv, WorkInv, TypeOK, SameCharges
<1> QED BY <1>1, RaisedKeepsBooks

\* A task that gives the lock up, or goes on beside it.
LEMMA TaskKeepsBooks ==
    ASSUME BooksInv, WorkInv', TaskStep(mem', mem), db' = db,
           perms' \in Nat, perms' = 0 => perms = 0,
           mem'.init => mem.init, mem.fatal => mem'.fatal,
           \A j \in Mutations : mem.job[j].pc = "idle" => mem'.job[j].pc = "idle",
           DrainFree(mem') \/ SameDrain(mem', mem)
    PROVE  BooksInv'
<1>1. /\ mem'.pc = mem.pc /\ SameTables(mem', mem) /\ SameCharges(mem', mem)
      /\ mem'.answer = mem.answer /\ mem'.future = mem.future
      /\ mem'.resetPending = mem.resetPending
  BY DEF TaskStep, SameAnswers, SameKeys
<1>2. mem'.retained = mem.retained /\ mem'.inflight = mem.inflight /\ mem'.liable = mem.liable
  BY <1>1 DEF SameTables, SameCharges
<1>3. Unsettled(mem') = Unsettled(mem) BY <1>1, SameUnsettled
<1>4. NoMutators' BY <1>1, NoMutatorsKept
<1>5. CASE DrainFree(mem')
  <2>1. RetryBooks' /\ ListBooks' BY <1>5, FreeBooks
  <2>2. mem'.step # "mark" BY <1>5 DEF DrainFree
  <2>3. DurableOrder' BY <2>2, DurableKept
  <2> QED BY <1>1, <1>2, <1>3, <1>4, <2>1, <2>3, BooksKept
<1>6. CASE SameDrain(mem', mem)
  <2>1. /\ mem'.owner = mem.owner /\ mem'.step = mem.step /\ mem'.todo = mem.todo
        /\ mem'.ev = mem.ev /\ mem'.from = mem.from /\ \A f : From(f)' <=> From(f)
    BY <1>6 DEF SameDrain, From, Projecting
  <2>2. RetryBooks' BY <1>1, <1>2, <2>1 DEF BooksInv, RetryBooks
  <2>3. ListBooks' BY <1>3, <2>1 DEF BooksInv, ListBooks
  <2>4. DurableOrder' BY <2>1, DurableKept
  <2> QED BY <1>1, <1>2, <1>3, <1>4, <2>2, <2>3, <2>4, BooksKept
<1> QED BY <1>5, <1>6
\* What the source's mark leaves of the databases.
LEMMA MarkedEffect ==
    ASSUME BooksInv, mem.ev \in Sessions,
           db' = db \/ (db' = ProjectedBy(db, mem.ev) /\ mem.step = "mark")
    PROVE  /\ db'.accepted = db.accepted /\ db.projected \subseteq db'.projected
           /\ mem'.step # "mark" => DurableOrder'
<1>1. db \in DatabaseType /\ DurableOrder BY DEF BooksInv, WorkInv, TypeOK
<1>2. CASE db' = db BY <1>1, <1>2 DEF DurableOrder
<1>3. CASE db' = ProjectedBy(db, mem.ev) /\ mem.step = "mark"
  <2>1. /\ db'.projected = db.projected \cup {mem.ev}
        /\ db'.accepted = db.accepted /\ db'.receipts = db.receipts
    BY <1>1, <1>3, ProjectedByEffect
  <2> QED BY <1>1, <1>3, <2>1 DEF DurableOrder
<1> QED BY <1>2, <1>3

\* The end of a projection, from the memory its verdict is drawn from.
LEMMA EndKeepsBooks ==
    ASSUME BooksInv, WorkInv', perms' \in Nat, perms' = 0 => perms = 0,
           mem.step \in {"mark", "fail"}, mem.ev \in Sessions, mem.owner # "free",
           db' = db \/ (db' = ProjectedBy(db, mem.ev) /\ mem.step = "mark"),
           NEW m, NEW res, Verdict(m), ProjectionEnds(mem', m, res)
    PROVE  BooksInv'
<1>0. WorkInv /\ mem \in MemoryType /\ db \in DatabaseType /\ Projecting
  BY DEF BooksInv, WorkInv, TypeOK, Projecting
<1>1. /\ m \in MemoryType /\ m.pc = mem.pc /\ m.job = mem.job
      /\ m.inflight = mem.inflight /\ m.retained = mem.retained
      /\ m.pending = mem.pending \/ (m.pending = mem.pending \ {mem.ev} /\ mem.ev \in db'.projected)
      /\ m.answer = mem.answer /\ m.future = mem.future /\ SameCharges(m, mem) /\ SameKeys(m, mem)
      /\ m.owner = mem.owner /\ m.todo = mem.todo /\ m.ev = mem.ev /\ m.from = mem.from
      /\ m.fatal = mem.fatal /\ m.init = mem.init
  BY DEF Verdict, SameAnswers, SameDrain
<1>2. \A e \in db.accepted \ db'.projected : e \in Unsettled(mem) => e \in Unsettled(m)
  BY <1>1 DEF Unsettled
<1>3. /\ db'.accepted = db.accepted /\ db.projected \subseteq db'.projected
      /\ mem'.step # "mark" => DurableOrder'
  BY MarkedEffect
<1>4. CASE mem.from = "session"
  <2>1. EndsSession(mem', m, res) BY <1>1, <1>4 DEF ProjectionEnds
  <2>2. mem.owner = mem.ev /\ mem.pc[mem.ev] = "project" BY <1>0, <1>4 DEF WorkInv, DrainOK
  <2>3. SessionBooks(mem.ev) /\ mem.ev \in mem.liable /\ mem.ev \notin mem.reserved
    BY <2>2 DEF BooksInv, SessionBooks
  <2>4. /\ DrainFree(mem') /\ mem'.job = mem.job /\ Leaves(mem', m, mem.ev)
        /\ mem'.liable = mem.liable /\ mem'.reserved = mem.reserved
        /\ SameTables(mem', m) /\ mem'.answer = mem.answer /\ mem'.future = mem.future
        /\ mem'.resetPending = mem.resetPending /\ mem'.init = mem.init
        /\ mem.fatal => mem'.fatal
    BY <1>1, <2>1, <2>3 DEF EndsSession, SameAnswers, SameCharges, SameKeys
  <2>5. /\ \A q \in Sessions \ {mem.ev} : mem'.pc[q] = mem.pc[q]
        /\ mem'.pc[mem.ev] \in {"terminal", "resetting"}
        /\ mem'.pc[mem.ev] = "resetting" => mem.resetPending # {}
    BY <1>1, <2>4, LeavesAt DEF SameKeys
  <2>6. /\ mem'.retained = mem.retained /\ mem'.inflight = mem.inflight
        /\ Unsettled(mem') = Unsettled(m)
    BY <1>1, <2>4, SameUnsettled DEF SameTables
  <2>7. ASSUME NEW q \in Sessions, q = mem.ev PROVE SessionBooks(q)'
    BY <2>3, <2>4, <2>5, <2>6, <2>7 DEF SessionBooks, LivePcs, Late
  <2>8. ASSUME NEW q \in Sessions, q # mem.ev PROVE SessionBooks(q)'
    BY <1>3, <2>4, <2>5, <2>6, <2>8, SessionKept
  <2>9. RetryBooks' /\ ListBooks' BY <2>4, FreeBooks
  <2>10. DurableOrder' BY <1>3, <2>4 DEF DrainFree
  <2>11. NoMutators' BY <2>4, <2>5, NoMutatorsKept
  <2>12. UnsettledTracked' BY <1>2, <1>3, <2>4, <2>6, TrackedKept
  <2> QED BY <2>7, <2>8, <2>9, <2>10, <2>11, <2>12 DEF BooksInv
<1>5. CASE mem.from # "session" /\ res = "permanent"
  <2>1. Raised(mem', m, TRUE) BY <1>1, <1>5 DEF ProjectionEnds
  <2>2. ~ From("session") BY <1>5 DEF From
  <2>3. DurableOrder' BY <1>3, <2>1 DEF Raised, RaisedFrame, DrainFree
  <2>4. m.resetPending = mem.resetPending BY <1>1 DEF SameKeys
  <2> QED BY <1>1, <1>2, <1>3, <2>1, <2>2, <2>3, <2>4, RaisedKeepsBooks
<1>6. CASE mem.from # "session" /\ res # "permanent"
  <2>1. Resumes(mem', m) BY <1>1, <1>6 DEF ProjectionEnds
  <2>2. /\ mem'.step = mem.from /\ mem.from \in {"retained", "pending"}
        /\ mem'.owner = mem.owner /\ mem'.todo = mem.todo /\ mem'.pc = mem.pc
        /\ mem'.job = mem.job /\ mem'.answer = mem.answer
        /\ SameCharges(mem', mem) /\ mem'.resetPending = mem.resetPending
        /\ mem'.init = mem.init /\ mem'.fatal = mem.fatal
        /\ mem'.retained = mem.retained /\ mem'.inflight = mem.inflight
        /\ Unsettled(mem') = Unsettled(m)
    BY <1>0, <1>1, <1>6, <2>1, SameUnsettled
    DEF Resumes, MemoryType, SameCharges, SameKeys, SameLife, SameTables
  <2>3. \A q \in Sessions : mem'.future[q] = "receipt" => mem.future[q] = "receipt" \/ q \in mem.liable
    <3> SUFFICES ASSUME NEW q \in Sessions, mem'.future[q] # mem.future[q]
                 PROVE  q \in mem.liable
      OBVIOUS
    <3>1. mem.from = "retained" /\ q = mem.ev /\ q \in RetrySessions(m)
      BY <1>1, <2>1 DEF Resumes
    <3>2. mem.pc[q] \in Late /\ mem.pc[q] \in {"accept", "answered", "project", "retrying"}
      BY <1>0, <1>1, <3>1 DEF BooksInv, RetryBooks, From, RetrySessions
    <3>3. mem.pc[q] \in {"project", "retrying"} BY <3>2 DEF Late
    <3> QED BY <1>0, <3>1, <3>3 DEF BooksInv, RetryBooks, From
  <2>4. ~ Projecting' /\ ~ From("session") BY <1>6, <2>2 DEF Projecting, From
  <2>5. RetryBooks'
    BY <1>0, <2>2, <2>4 DEF BooksInv, RetryBooks, From
  <2>6. ListBooks'
    BY <1>0, <1>2, <1>3, <2>2, <2>4 DEF BooksInv, ListBooks, From
  <2>7. DurableOrder' BY <1>3, <2>2
  <2>8. NoMutators' BY <2>2, NoMutatorsKept
  <2> QED BY <1>2, <1>3, <2>2, <2>3, <2>5, <2>6, <2>7, <2>8, BooksKept
<1> QED BY <1>4, <1>5, <1>6
LEMMA RetryKeepsBooks ==
    ASSUME BooksInv, WorkInv', perms' \in Nat, perms' = 0 => perms = 0,
           NEW e \in Sessions, RetryAccept(e)
    PROVE  BooksInv'
<1>0. WorkInv /\ mem \in MemoryType /\ db \in DatabaseType BY DEF BooksInv, WorkInv, TypeOK
<1>1. /\ mem.step = "retained" /\ e \in mem.todo /\ mem.owner # "free"
      /\ \/ e \in db.projected /\ RetryReceipt(mem', mem, e) /\ db' = AcceptedBy(db, e)
         \/ e \notin db.projected /\ RetryProjects(mem', mem, e) /\ db' = AcceptedBy(db, e)
         \/ RetryFails(mem', mem, e) /\ (db' = db \/ db' = AcceptedBy(db, e))
         \/ /\ Raised(mem', Dropped(mem, e), TRUE) /\ db' = db
            /\ perms < MaxPermanent /\ perms' = perms + 1
  BY <1>0, RetryAcceptEffect
<1>2. mem.todo \subseteq mem.retained /\ \A f : ~ From(f)
  BY <1>1 DEF BooksInv, RetryBooks, From, Projecting
<1>3. e \in mem.retained /\ mem.pc[e] \in Late BY <1>1, <1>2 DEF BooksInv, SessionBooks
<1>4. mem.owner \in Sessions => mem.pc[mem.owner] = "resetting"
  BY <1>2 DEF BooksInv, RetryBooks
<1>5. db' = db \/ db' = AcceptedBy(db, e) =>
      /\ db'.projected = db.projected /\ db'.receipts = db.receipts
      /\ db.accepted \subseteq db'.accepted
      /\ db'.accepted \subseteq db.accepted \cup {e}
      /\ mem'.step # "mark" => DurableOrder'
  BY <1>0, AcceptedByEffect DEF BooksInv, DurableOrder
<1>6. SessionBooks(e) BY DEF BooksInv
<1>7. CASE \/ e \in db.projected /\ RetryReceipt(mem', mem, e) /\ db' = AcceptedBy(db, e)
           \/ e \notin db.projected /\ RetryProjects(mem', mem, e) /\ db' = AcceptedBy(db, e)
  <2>1. RetryStored(mem', mem, e) BY <1>7 DEF RetryReceipt, RetryProjects
  <2>2. /\ mem'.pc = mem.pc /\ mem'.job = mem.job /\ mem'.answer = mem.answer
        /\ mem'.inflight = mem.inflight \ {e} /\ mem'.retained = mem.retained \ {e}
        /\ mem'.liable = IF e \in RetrySessions(mem) THEN mem.liable \cup {e} ELSE mem.liable
        /\ mem'.reserved = IF e \in RetrySessions(mem) /\ e \notin mem.liable
                           THEN mem.reserved \ {e} ELSE mem.reserved
        /\ mem'.resetPending = mem.resetPending /\ mem'.owner = mem.owner
        /\ mem'.todo = mem.todo \ {e} /\ mem'.fatal = mem.fatal /\ mem'.init = mem.init
    BY <2>1 DEF RetryStored, SameKeys
  <2>3. e \in RetrySessions(mem) <=> mem.pc[e] \in {"project", "retrying"}
    BY <1>3 DEF RetrySessions, Late
  <2>4. /\ \A q \in Sessions \ {e} : mem'.future[q] = mem.future[q]
        /\ \/ mem'.future[e] = mem.future[e]
           \/ mem'.future[e] = "receipt" /\ e \in RetrySessions(mem)
    BY <1>7 DEF RetryReceipt, RetryProjects
  <2>5. SessionBooks(e)' BY <1>3, <1>6, <2>2, <2>3, <2>4 DEF SessionBooks, LivePcs, Late
  <2>6. ASSUME NEW q \in Sessions, q # e PROVE SessionBooks(q)'
    <3>1. q \in db'.accepted => q \in db.accepted BY <1>5, <1>7, <2>6
    <3>2. /\ q \in mem'.liable <=> q \in mem.liable
          /\ q \in mem'.reserved <=> q \in mem.reserved
          /\ q \in mem'.retained => q \in mem.retained
          /\ q \in mem.inflight => q \in mem'.inflight
      BY <2>2, <2>6
    <3> QED BY <2>2, <2>4, <2>6, <3>1, <3>2, SessionKept
  <2>7. /\ mem'.step = "retained" \/ (mem'.step = "sink" /\ mem'.ev = e /\ mem'.from = "retained")
        /\ mem'.pending = mem.pending \cup {e}
           \/ (mem'.pending = mem.pending \ {e} /\ e \in db.projected)
    BY <1>1, <1>7 DEF RetryReceipt, RetryProjects
  <2>8. RetryBooks'
    <3>1. mem'.todo \subseteq mem'.retained BY <1>2, <2>2
    <3>2. From("retained")' => mem'.ev = e BY <2>7 DEF From, Projecting
    <3>3. mem'.pc[e] \in Late /\ (mem'.pc[e] \in {"project", "retrying"} => e \in mem'.liable)
      BY <1>3, <2>2, <2>3
    <3>4. (mem'.owner \in Sessions /\ ~ From("session")') => mem'.pc[mem'.owner] = "resetting"
      BY <1>4, <2>2
    <3> QED BY <3>1, <3>2, <3>3, <3>4 DEF RetryBooks
  <2>9. ListBooks' BY <2>7 DEF ListBooks, From, Projecting
  <2>10. DurableOrder' BY <1>5, <1>7, <2>7
  <2>11. NoMutators' BY <2>2, NoMutatorsKept
  <2>12. UnsettledTracked'
    <3>1. ASSUME NEW x \in db'.accepted \ db'.projected
          PROVE  \/ /\ x \in db.accepted \ db.projected
                    /\ x \in Unsettled(mem) => x \in Unsettled(mem')
                 \/ x \in Unsettled(mem')
      <4>1. CASE x = e BY <1>5, <1>7, <2>7, <3>1, <4>1 DEF Unsettled
      <4>2. CASE x # e BY <1>5, <1>7, <2>2, <2>7, <3>1, <4>2 DEF Unsettled
      <4> QED BY <4>1, <4>2
    <3> QED BY <2>2, <3>1, TrackedKept
  <2> QED BY <2>5, <2>6, <2>8, <2>9, <2>10, <2>11, <2>12 DEF BooksInv
<1>8. CASE RetryFails(mem', mem, e) /\ (db' = db \/ db' = AcceptedBy(db, e))
  <2>1. /\ mem'.pc = mem.pc /\ mem'.job = mem.job /\ mem'.answer = mem.answer
        /\ mem'.future = mem.future /\ mem'.liable = mem.liable /\ mem'.reserved = mem.reserved
        /\ mem'.retained = mem.retained /\ mem'.inflight = mem.inflight
        /\ Unsettled(mem') = Unsettled(mem)
        /\ mem'.resetPending = mem.resetPending /\ mem'.owner = mem.owner
        /\ mem'.step = "retained" /\ mem'.todo = mem.todo \ {e}
        /\ mem'.fatal = mem.fatal /\ mem'.init = mem.init
    BY <1>1, <1>8, SameUnsettled
       DEF RetryFails, SameTables, SameAnswers, SameCharges, SameKeys
  <2>2. SessionBooks(e)' BY <1>3, <1>6, <2>1 DEF SessionBooks, LivePcs, Late
  <2>3. ASSUME NEW q \in Sessions, q # e PROVE SessionBooks(q)'
    <3>1. q \in db'.accepted => q \in db.accepted BY <1>5, <1>8, <2>3
    <3> QED BY <2>1, <3>1, SessionKept
  <2>4. \A f : ~ From(f)' BY <2>1 DEF From, Projecting
  <2>5. RetryBooks' BY <1>2, <1>4, <2>1, <2>4 DEF RetryBooks
  <2>6. ListBooks' BY <2>1, <2>4 DEF ListBooks
  <2>7. DurableOrder' BY <1>5, <1>8, <2>1
  <2>8. NoMutators' BY <2>1, NoMutatorsKept
  <2>9. UnsettledTracked'
    <3>1. e \in Unsettled(mem') BY <1>3, <2>1 DEF Unsettled
    <3> QED BY <1>5, <1>8, <2>1, <3>1, TrackedKept
  <2> QED BY <2>2, <2>3, <2>5, <2>6, <2>7, <2>8, <2>9 DEF BooksInv
<1>9. CASE /\ Raised(mem', Dropped(mem, e), TRUE) /\ db' = db
           /\ perms < MaxPermanent /\ perms' = perms + 1
  <2> DEFINE m == Dropped(mem, e)
  <2>1. /\ m \in MemoryType /\ m.pc = mem.pc /\ m.job = mem.job
        /\ m.retained = mem.retained \ {e} /\ m.inflight = mem.inflight
        /\ m.answer = mem.answer
        /\ \A s \in Sessions : m.future[s] = mem.future[s] \/ m.future[s] = "error"
        /\ SameCharges(m, mem) /\ m.resetPending = mem.resetPending
        /\ m.fatal = mem.fatal /\ m.init = mem.init
        /\ m.owner = mem.owner
    BY <1>0, DroppedEffect DEF SameKeys, SameLife
  <2> HIDE DEF m
  <2>2. Raised(mem', m, TRUE) BY <1>9 DEF m
  <2>3. mem'.fatal \/ (perms' # 0 /\ Operations # {})
    <3>1. CASE mem.owner \in {"projector", "start", "stop"}
      BY <2>1, <2>2, <3>1 DEF Raised, RaisedLife
    <3>2. CASE mem.owner \notin {"projector", "start", "stop"}
      <4>1. mem.owner \in Sessions \cup Mutations
        BY <1>0, <1>1, <3>2 DEF MemoryType, Jobs, Mutations
      <4>2. CASE mem.owner \in Sessions
        BY <1>4, <1>9, <4>2 DEF BooksInv, NoMutators
      <4>3. CASE mem.owner \in Mutations
        <5>1. mem.job[mem.owner].pc = "working"
          BY <1>0, <4>3 DEF WorkInv, DrainOK, Mutations, Jobs
        <5> QED BY <1>9, <4>3, <5>1 DEF BooksInv, NoMutators
      <4> QED BY <4>1, <4>2, <4>3
    <3> QED BY <3>1, <3>2
  <2>4. DurableOrder' BY <1>5, <1>9, <2>2 DEF Raised, RaisedFrame, DrainFree
  <2>5. \A q \in Sessions : m.future[q] = "receipt" => mem.future[q] = "receipt" BY <2>1
  <2>6. m.retained \subseteq mem.retained BY <2>1
  <2> QED BY <1>1, <1>2, <1>9, <2>1, <2>2, <2>3, <2>4, <2>5, <2>6, RaisedKeepsBooks
<1> QED BY <1>1, <1>7, <1>8, <1>9
LEMMA PassesKeepBooks ==
    ASSUME BooksInv, WorkInv', Next,
           \/ \E o \in Sessions \cup Jobs : TakeDrain(o)
           \/ RetainedBatch \/ PassEnds \/ ListPending
           \/ \E e \in Sessions : RetryAccept(e) \/ DrainPending(e)
           \/ ApplySpendEvent \/ MarkProjected \/ MarkFailed
    PROVE  BooksInv'
<1>0. /\ WorkInv /\ mem \in MemoryType /\ db \in DatabaseType
      /\ perms' \in Nat /\ (perms' = 0 => perms = 0)
  BY PermsGrow DEF BooksInv, WorkInv, TypeOK
<1>1. ASSUME NEW o \in Sessions \cup Jobs, TakeDrain(o) PROVE BooksInv'
  <2>1. /\ db' = db /\ mem.owner = "free" /\ mem'.owner = o /\ mem'.todo = mem.todo
        /\ mem'.pc = mem.pc
        /\ SameTables(mem', mem) /\ SameAnswers(mem', mem) /\ SameCharges(mem', mem)
        /\ SameKeys(mem', mem) /\ SameLife(mem', mem)
        /\ \/ /\ o \in Sessions /\ mem.pc[o] = "project" /\ mem'.job = mem.job
              /\ mem'.step = "sink" /\ mem'.ev = o /\ mem'.from = "session"
           \/ /\ o \in Sessions /\ mem.pc[o] = "resetting" /\ mem'.job = mem.job
              /\ mem'.step = "retained"
           \/ /\ o \in Jobs /\ mem.job[o].pc = "lock" /\ mem'.job = Moved(mem.job, o, "working")
              /\ mem'.step = FirstStep(o)
    BY <1>0, <1>1, TakeDrainEffect
  <2>2. mem'.todo = {} BY <1>0, <2>1 DEF WorkInv, DrainOK
  <2>3. \A j \in Mutations : mem.job[j].pc = "idle" => mem'.job[j].pc = "idle"
    <3>1. CASE mem'.job = mem.job BY <3>1
    <3>2. CASE o \in Jobs /\ mem.job[o].pc = "lock" /\ mem'.job = Moved(mem.job, o, "working")
      <4>1. \A j \in Jobs : j # o => mem'.job[j] = mem.job[j]
        BY <1>0, <3>2, MovedAt DEF MemoryType
      <4> QED BY <3>2, <4>1 DEF Mutations, Jobs
    <3> QED BY <2>1, <3>1, <3>2
  <2>4. \/ From("session")'
        \/ /\ ~ Projecting' /\ mem'.step \in {"retained", "list", "mutate"}
           /\ o \in Sessions => mem'.pc[o] = "resetting"
    <3>1. o \in Jobs => o \notin Sessions BY AccountingNames
    <3> QED BY <2>1, <3>1 DEF From, Projecting, FirstStep
  <2>5. RetryBooks'
    <3>1. ~ From("retained")' BY <2>1, <2>4 DEF From
    <3> QED BY <2>1, <2>2, <2>4, <3>1 DEF RetryBooks
  <2>6. ListBooks'
    <3>1. ~ From("pending")' BY <2>4 DEF From
    <3>2. mem'.step \notin {"pending", "drained", "audit"} BY <2>4 DEF From, Projecting
    <3> QED BY <3>1, <3>2 DEF ListBooks
  <2>7. DurableOrder'
    <3>1. mem'.step # "mark" BY <2>1 DEF FirstStep
    <3> QED BY <2>1, <3>1, DurableKept
  <2>8. NoMutators' BY <2>1, <2>3, NoMutatorsKept DEF SameKeys
  <2>9. /\ mem'.answer = mem.answer /\ mem'.future = mem.future /\ mem'.init = mem.init
        /\ mem'.fatal = mem.fatal /\ mem'.retained = mem.retained
        /\ mem'.inflight = mem.inflight /\ Unsettled(mem') = Unsettled(mem)
    BY <2>1, SameUnsettled DEF SameTables, SameAnswers, SameLife
  <2> QED BY <1>0, <2>1, <2>5, <2>6, <2>7, <2>8, <2>9, BooksKept
<1>2. CASE RetainedBatch
  <2>1. /\ PassStep(mem', mem) /\ db' = db /\ mem.step = "retained" /\ mem'.owner = mem.owner
        /\ \/ mem'.step = "retained" /\ mem'.todo = mem.retained
           \/ mem'.step = "list" /\ mem'.todo = {}
    BY <1>0, <1>2, RetainedBatchEffect
  <2>2. mem'.pc = mem.pc /\ mem'.retained = mem.retained BY <2>1 DEF PassStep, SameTables
  <2>3. /\ \A f : ~ From(f)' /\ ~ From(f)
    BY <2>1 DEF From, Projecting
  <2>4. RetryBooks' BY <2>1, <2>2, <2>3 DEF BooksInv, RetryBooks
  <2>5. ListBooks' BY <2>1, <2>3 DEF ListBooks
  <2>6. DurableOrder' BY <2>1, DurableKept
  <2> QED BY <1>0, <2>1, <2>4, <2>5, <2>6, PassKeepsBooks
<1>3. CASE PassEnds
  <2>1. /\ PassStep(mem', mem) /\ db' = db /\ mem.step = "pending" /\ mem.todo = {}
        /\ mem'.owner = mem.owner /\ mem'.step = "drained" /\ mem'.todo = {}
    BY <1>0, <1>3, PassEndsEffect
  <2>2. mem'.pc = mem.pc /\ Unsettled(mem') = Unsettled(mem)
    BY <2>1, SameUnsettled DEF PassStep
  <2>3. /\ \A f : ~ From(f)' /\ ~ From(f)
    BY <2>1 DEF From, Projecting
  <2>4. RetryBooks' BY <2>1, <2>2, <2>3 DEF BooksInv, RetryBooks
  <2>5. ListBooks' BY <2>1, <2>2, <2>3 DEF BooksInv, ListBooks
  <2>6. DurableOrder' BY <2>1, DurableKept
  <2> QED BY <1>0, <2>1, <2>4, <2>5, <2>6, PassKeepsBooks
<1>4. CASE ListPending
  <2>1. /\ mem.step = "list" /\ db' = db /\ mem.owner # "free"
        /\ \/ /\ PassStep(mem', mem) /\ mem'.owner = mem.owner
              /\ mem'.step = "pending" /\ mem'.todo = db.accepted \ db.projected
           \/ \E p \in BOOLEAN : Raised(mem', mem, p)
    BY <1>0, <1>4, ListPendingEffect
  <2>2. \A f : ~ From(f) BY <2>1 DEF From, Projecting
  <2>3. CASE /\ PassStep(mem', mem) /\ mem'.owner = mem.owner
             /\ mem'.step = "pending" /\ mem'.todo = db.accepted \ db.projected
    <3>1. mem'.pc = mem.pc /\ \A f : ~ From(f)' BY <2>3 DEF PassStep, From, Projecting
    <3>2. RetryBooks' BY <2>2, <2>3, <3>1 DEF BooksInv, RetryBooks
    <3>3. ListBooks' BY <2>1, <2>3, <3>1 DEF ListBooks
    <3>4. DurableOrder' BY <2>1, <2>3, DurableKept
    <3> QED BY <1>0, <2>1, <2>3, <3>2, <3>3, <3>4, PassKeepsBooks
  <2>4. ASSUME NEW p \in BOOLEAN, Raised(mem', mem, p) PROVE BooksInv'
    <3>1. mem'.step # "mark" BY <2>4 DEF Raised, RaisedFrame, DrainFree
    <3>2. DurableOrder' BY <2>1, <3>1, DurableKept
    <3> QED BY <1>0, <2>1, <2>2, <2>4, <3>2, RaisedHereKeepsBooks
  <2> QED BY <2>1, <2>3, <2>4
<1>5. ASSUME NEW e \in Sessions, RetryAccept(e) PROVE BooksInv'
  BY <1>0, <1>5, RetryKeepsBooks
<1>6. ASSUME NEW e \in Sessions, DrainPending(e) PROVE BooksInv'
  <2>1. /\ mem.step = "pending" /\ e \in mem.todo /\ db' = db /\ mem.owner # "free"
        /\ \/ /\ mem'.pc = mem.pc /\ mem'.job = mem.job
              /\ mem'.pending = mem.pending \cup {e}
              /\ mem'.retained = mem.retained /\ mem'.inflight = mem.inflight
              /\ SameAnswers(mem', mem) /\ SameCharges(mem', mem) /\ SameKeys(mem', mem)
              /\ SameLife(mem', mem) /\ mem'.owner = mem.owner
              /\ mem'.todo = mem.todo \ {e} /\ mem'.step = "sink" /\ mem'.ev = e
              /\ mem'.from = "pending"
           \/ Raised(mem', mem, FALSE)
    BY <1>0, <1>6, DrainPendingEffect
  <2>2. \A f : ~ From(f) BY <2>1 DEF From, Projecting
  <2>3. CASE Raised(mem', mem, FALSE)
    <3>1. mem'.step # "mark" BY <2>3 DEF Raised, RaisedFrame, DrainFree
    <3>2. DurableOrder' BY <2>1, <3>1, DurableKept
    <3> QED BY <1>0, <2>1, <2>2, <2>3, <3>2, RaisedHereKeepsBooks
  <2>4. CASE /\ mem'.pc = mem.pc /\ mem'.job = mem.job
             /\ mem'.pending = mem.pending \cup {e}
             /\ mem'.retained = mem.retained /\ mem'.inflight = mem.inflight
             /\ SameAnswers(mem', mem) /\ SameCharges(mem', mem) /\ SameKeys(mem', mem)
             /\ SameLife(mem', mem) /\ mem'.owner = mem.owner
             /\ mem'.todo = mem.todo \ {e} /\ mem'.step = "sink" /\ mem'.ev = e
             /\ mem'.from = "pending"
    <3>1. \A x \in Unsettled(mem) \cup {e} : x \in Unsettled(mem') BY <2>4 DEF Unsettled
    <3>2. RetryBooks'
      <4>1. ~ From("retained")' /\ mem'.step # "retained" BY <2>4 DEF From
      <4> QED BY <2>2, <2>4, <4>1 DEF BooksInv, RetryBooks
    <3>3. ListBooks' BY <2>1, <2>4, <3>1 DEF BooksInv, ListBooks
    <3>4. DurableOrder' BY <2>1, <2>4, DurableKept
    <3>5. NoMutators' BY <2>4, NoMutatorsKept DEF SameKeys
    <3>6. /\ mem'.answer = mem.answer /\ mem'.future = mem.future /\ mem'.init = mem.init
          /\ mem'.fatal = mem.fatal
      BY <2>4 DEF SameAnswers, SameLife
    <3> QED BY <1>0, <2>1, <2>4, <3>1, <3>2, <3>3, <3>4, <3>5, <3>6, BooksKept
  <2> QED BY <2>1, <2>3, <2>4
<1>7. CASE ApplySpendEvent
  <2>1. /\ PassStep(mem', mem) /\ mem.step = "sink" /\ mem'.owner = mem.owner
        /\ mem'.todo = mem.todo /\ mem'.ev = mem.ev /\ mem'.from = mem.from
        /\ \/ mem'.step = "mark" /\ db' = AppliedBy(db, mem.ev)
           \/ mem'.step = "fail" /\ (db' = db \/ db' = AppliedBy(db, mem.ev))
    BY <1>0, <1>7, ApplySpendEffect
  <2>2. mem.ev \in db.accepted /\ mem.ev \in Sessions
    BY <1>0, <2>1 DEF WorkInv, DrainOK, Projecting, DatabaseType
  <2>3. ASSUME db' = AppliedBy(db, mem.ev)
        PROVE  /\ db'.accepted = db.accepted /\ db'.projected = db.projected
               /\ db'.receipts = db.receipts \cup {mem.ev}
    BY <1>0, <2>2, <2>3, AppliedByEffect
  <2>4. db'.accepted = db.accepted /\ db'.projected = db.projected BY <2>1, <2>3
  <2>5. /\ mem'.pc = mem.pc /\ Unsettled(mem') = Unsettled(mem)
        /\ mem'.retained = mem.retained /\ mem'.liable = mem.liable
        /\ \A f : From(f)' <=> From(f)
    BY <2>1, SameUnsettled DEF PassStep, SameTables, SameCharges, From, Projecting
  <2>6. RetryBooks' BY <2>1, <2>5 DEF BooksInv, RetryBooks
  <2>7. ListBooks' BY <2>1, <2>4, <2>5 DEF BooksInv, ListBooks
  <2>8. DurableOrder'
    <3>1. db' = db \/ db'.receipts = db.receipts \cup {mem.ev} BY <2>1, <2>3
    <3>2. mem'.step = "mark" => db'.receipts = db.receipts \cup {mem.ev} BY <2>1, <2>3
    <3> QED BY <2>1, <2>2, <2>4, <3>1, <3>2 DEF BooksInv, DurableOrder
  <2> QED BY <1>0, <2>1, <2>4, <2>6, <2>7, <2>8, PassKeepsBooks
<1>8. CASE MarkProjected \/ MarkFailed
  <2>1. /\ mem.step \in {"mark", "fail"} /\ mem.ev \in Sessions /\ mem.owner # "free"
        /\ db' = db \/ (db' = ProjectedBy(db, mem.ev) /\ mem.step = "mark")
    BY <1>0, <1>8, VerdictEffect
  <2>2. PICK m, res : Verdict(m) /\ ProjectionEnds(mem', m, res)
    BY <1>0, <1>8, VerdictEffect
  <2> QED BY <1>0, <2>1, <2>2, EndKeepsBooks
<1> QED BY <1>1, <1>2, <1>3, <1>4, <1>5, <1>6, <1>7, <1>8
\* A pass that has drained the backlog and goes on under the lock.
LEMMA DrainedKeepsBooks ==
    ASSUME BooksInv, WorkInv', perms' \in Nat, perms' = 0 => perms = 0,
           mem.step \in {"drained", "audit", "mutate"}, PassStep(mem', mem),
           mem'.step \in {"audit", "mutate", "applied"}, mem'.step = "audit" => mem.step # "mutate",
           mem'.owner = mem.owner, mem'.todo = mem.todo,
           db'.accepted = db.accepted, db'.projected = db.projected,
           db'.receipts = db.receipts
    PROVE  BooksInv'
<1>1. mem'.pc = mem.pc /\ Unsettled(mem') = Unsettled(mem)
  BY SameUnsettled DEF PassStep
<1>2. \A f : ~ From(f)' /\ ~ From(f) BY DEF From, Projecting
<1>3. RetryBooks' BY <1>1, <1>2 DEF BooksInv, RetryBooks
<1>4. ListBooks' BY <1>1, <1>2 DEF BooksInv, ListBooks
<1>5. DurableOrder' BY DEF BooksInv, DurableOrder
<1> QED BY <1>3, <1>4, <1>5, PassKeepsBooks

LEMMA TasksKeepBooks ==
    ASSUME BooksInv, WorkInv', Next,
           \/ Start \/ StartDrained \/ StartAudited
           \/ ProjectorTurn \/ ProjectorDrained
           \/ Stop \/ StopBegins \/ StopSessionsDone \/ StopProjectorJoined
           \/ StopDrained \/ StopAudited
    PROVE  BooksInv'
<1>0. /\ WorkInv /\ mem \in MemoryType /\ mem.job \in [Jobs -> JobType]
      /\ "start" \in Jobs /\ "projector" \in Jobs /\ "stop" \in Jobs
      /\ \A j \in Mutations : j \in Jobs /\ j \notin {"start", "projector", "stop"}
      /\ perms' \in Nat /\ (perms' = 0 => perms = 0)
  BY PermsGrow DEF BooksInv, WorkInv, TypeOK, MemoryType, Jobs, Mutations
<1>1. ASSUME NEW jobs, \A j \in Mutations : jobs[j] = mem.job[j], db' = db,
             JobStep(mem', mem, jobs)
      PROVE  BooksInv'
  <2>1. /\ TaskStep(mem', mem) /\ SameDrain(mem', mem) /\ mem'.job = jobs
        /\ mem'.fatal = mem.fatal /\ mem'.init = mem.init
    BY <1>1 DEF JobStep
  <2> QED BY <1>0, <1>1, <2>1, TaskKeepsBooks
<1>2. ASSUME NEW jobs, \A j \in Mutations : jobs[j] = mem.job[j], db' = db,
             LeavesDrain(mem', mem, jobs), mem'.init = mem.init, mem.fatal => mem'.fatal
      PROVE  BooksInv'
  <2>1. TaskStep(mem', mem) /\ DrainFree(mem') /\ mem'.job = jobs BY <1>2 DEF LeavesDrain
  <2> QED BY <1>0, <1>2, <2>1, TaskKeepsBooks
<1>3. ASSUME mem.step \in {"drained", "audit"}, mem.owner # "free", db' = db,
             Raised(mem', mem, FALSE)
      PROVE  BooksInv'
  <2>1. ~ From("session") BY <1>3 DEF From, Projecting
  <2>2. mem'.step # "mark" BY <1>3 DEF Raised, RaisedFrame, DrainFree
  <2>3. DurableOrder' BY <1>3, <2>2, DurableKept
  <2> QED BY <1>0, <1>3, <2>1, <2>3, RaisedHereKeepsBooks
<1>4. CASE Start
  <2>1. /\ TaskStep(mem', mem) /\ db' = db /\ SameDrain(mem', mem)
        /\ mem'.job = Moved(mem.job, "start", "lock")
        /\ mem'.fatal = mem.fatal /\ mem'.init = mem.init
    BY <1>0, <1>4, StartEffect
  <2>2. \A j \in Mutations : Moved(mem.job, "start", "lock")[j] = mem.job[j] BY <1>0, MovedAt
  <2> QED BY <1>1, <2>1, <2>2 DEF JobStep
<1>5. CASE StartDrained \/ StartAudited
  <2>1. /\ mem.owner = "start" /\ mem.step \in {"drained", "audit"} /\ db' = db
        /\ \/ /\ PassStep(mem', mem) /\ mem'.step = "audit" /\ mem'.owner = mem.owner
              /\ mem'.todo = mem.todo
           \/ StartOpens(mem', mem)
           \/ StartEnds(mem', mem)
           \/ Raised(mem', mem, FALSE)
    BY <1>0, <1>5, StartWorkEffect
  <2>2. CASE /\ PassStep(mem', mem) /\ mem'.step = "audit" /\ mem'.owner = mem.owner
             /\ mem'.todo = mem.todo
    BY <1>0, <2>1, <2>2, DrainedKeepsBooks
  <2>3. CASE StartOpens(mem', mem)
    <3> DEFINE mv == Moved(mem.job, "projector", "wait")
    <3>1. mv \in [Jobs -> JobType] BY <1>0 DEF Moved, JobType, JobPcs
    <3>2. \A j \in Mutations : mv[j] = mem.job[j] BY <1>0, MovedAt
    <3> HIDE DEF mv
    <3>3. \A j \in Mutations : Ended(mv, "start")[j] = mem.job[j]
      BY <1>0, <3>1, <3>2, EndedAt
    <3>4. LeavesDrain(mem', mem, Ended(mv, "start")) /\ mem'.fatal = mem.fatal
      BY <2>3 DEF StartOpens, mv
    <3>5. /\ mem'.pc = mem.pc /\ SameTables(mem', mem) /\ SameCharges(mem', mem)
          /\ mem'.answer = mem.answer /\ mem'.future = mem.future
          /\ mem'.resetPending = mem.resetPending
          /\ DrainFree(mem') /\ mem'.job = Ended(mv, "start")
      BY <3>4 DEF LeavesDrain, TaskStep, SameAnswers, SameKeys
    <3>6. \A q \in Sessions : SessionBooks(q)'
      BY <2>1, <3>5, SessionKept DEF SameTables, SameCharges
    <3>7. RetryBooks' /\ ListBooks' BY <3>5, FreeBooks
    <3>8. DurableOrder'
      <4>1. mem'.step # "mark" BY <3>5 DEF DrainFree
      <4> QED BY <2>1, <4>1, DurableKept
    <3>9. NoMutators' BY <3>3, <3>5, NoMutatorsKept
    <3>10. UnsettledTracked'
      <4>1. db.accepted \ db.projected \subseteq Unsettled(mem)
        BY <2>1 DEF BooksInv, ListBooks
      <4>2. Unsettled(mem') = Unsettled(mem) BY <3>5, SameUnsettled
      <4> QED BY <2>1, <4>1, <4>2 DEF UnsettledTracked
    <3> QED BY <1>0, <3>6, <3>7, <3>8, <3>9, <3>10 DEF BooksInv
  <2>4. CASE StartEnds(mem', mem)
    <3>1. \A j \in Mutations : Ended(mem.job, "start")[j] = mem.job[j]
      BY <1>0, EndedAt
    <3> QED BY <1>2, <2>1, <2>4, <3>1 DEF StartEnds
  <2>5. CASE Raised(mem', mem, FALSE) BY <1>3, <2>1, <2>5
  <2> QED BY <2>1, <2>2, <2>3, <2>4, <2>5
<1>6. CASE ProjectorTurn
  <2>1. db' = db BY <1>0, <1>6, ProjectorTurnEffect
  <2>2. PICK pc \in {"exited", "lock"} : JobStep(mem', mem, Moved(mem.job, "projector", pc))
    BY <1>0, <1>6, ProjectorTurnEffect
  <2>3. \A j \in Mutations : Moved(mem.job, "projector", pc)[j] = mem.job[j] BY <1>0, MovedAt
  <2> QED BY <1>1, <2>1, <2>2, <2>3
<1>7. CASE ProjectorDrained
  <2>1. /\ db' = db /\ LeavesDrain(mem', mem, Moved(mem.job, "projector", "wait"))
        /\ mem'.fatal = mem.fatal /\ mem'.init = mem.init
    BY <1>0, <1>7, ProjectorDrainedEffect
  <2>2. \A j \in Mutations : Moved(mem.job, "projector", "wait")[j] = mem.job[j]
    BY <1>0, MovedAt
  <2> QED BY <1>2, <2>1, <2>2
<1>8. CASE Stop
  <2>1. /\ db' = db
        /\ JobStep(mem', mem, mem.job) \/ JobStep(mem', mem, Moved(mem.job, "stop", "start"))
    BY <1>0, <1>8, StopEffect
  <2>2. \A j \in Mutations : Moved(mem.job, "stop", "start")[j] = mem.job[j] BY <1>0, MovedAt
  <2>3. CASE JobStep(mem', mem, mem.job) BY <1>1, <2>1, <2>3
  <2>4. CASE JobStep(mem', mem, Moved(mem.job, "stop", "start")) BY <1>1, <2>1, <2>2, <2>4
  <2> QED BY <2>1, <2>3, <2>4
<1>9. CASE StopBegins
  <2>1. /\ db' = db /\ JobStep(mem', mem, Moved(mem.job, "stop", "sessions"))
    BY <1>0, <1>9, StopBeginsEffect
  <2>2. \A j \in Mutations : Moved(mem.job, "stop", "sessions")[j] = mem.job[j]
    BY <1>0, MovedAt
  <2> QED BY <1>1, <2>1, <2>2
<1>10. CASE StopSessionsDone
  <2>1. /\ db' = db /\ JobStep(mem', mem, Moved(mem.job, "stop", "projector"))
    BY <1>0, <1>10, StopSessionsDoneEffect
  <2>2. \A j \in Mutations : Moved(mem.job, "stop", "projector")[j] = mem.job[j]
    BY <1>0, MovedAt
  <2> QED BY <1>1, <2>1, <2>2
<1>11. CASE StopProjectorJoined
  <2> DEFINE en == Ended(mem.job, "projector")
  <2>1. /\ db' = db /\ JobStep(mem', mem, Moved(en, "stop", "lock"))
    BY <1>0, <1>11, StopProjectorJoinedEffect
  <2>2. en \in [Jobs -> JobType] BY <1>0 DEF Ended, Idle, JobType, JobPcs
  <2>3. \A i \in Jobs : en[i] = IF i = "projector" THEN Idle ELSE mem.job[i] BY <1>0, EndedAt
  <2> HIDE DEF en
  <2>4. \A j \in Mutations : Moved(en, "stop", "lock")[j] = mem.job[j]
    BY <1>0, <2>2, <2>3, MovedAt
  <2> QED BY <1>1, <2>1, <2>4
<1>12. CASE StopDrained \/ StopAudited
  <2>1. /\ mem.owner = "stop" /\ mem.step \in {"drained", "audit"} /\ db' = db
        /\ \/ /\ PassStep(mem', mem) /\ mem'.step = "audit" /\ mem'.owner = mem.owner
              /\ mem'.todo = mem.todo
           \/ /\ LeavesDrain(mem', mem, Ended(mem.job, "stop")) /\ mem'.init = mem.init
              /\ mem.fatal => mem'.fatal
           \/ Raised(mem', mem, FALSE)
    BY <1>0, <1>12, StopWorkEffect
  <2>2. CASE /\ PassStep(mem', mem) /\ mem'.step = "audit" /\ mem'.owner = mem.owner
             /\ mem'.todo = mem.todo
    BY <1>0, <2>1, <2>2, DrainedKeepsBooks
  <2>3. CASE /\ LeavesDrain(mem', mem, Ended(mem.job, "stop")) /\ mem'.init = mem.init
             /\ mem.fatal => mem'.fatal
    <3>1. \A j \in Mutations : Ended(mem.job, "stop")[j] = mem.job[j] BY <1>0, EndedAt
    <3> QED BY <1>2, <2>1, <2>3, <3>1
  <2>4. CASE Raised(mem', mem, FALSE) BY <1>3, <2>1, <2>4
  <2> QED BY <2>1, <2>2, <2>3, <2>4
<1> QED BY <1>4, <1>5, <1>6, <1>7, <1>8, <1>9, <1>10, <1>11, <1>12
\* The beginning of a key mutation.
LEMMA BeginKeepsBooks ==
    ASSUME BooksInv, WorkInv', perms' \in Nat, perms' = 0 => perms = 0,
           db' = db, KeyStep(mem', mem), Operations # {}
    PROVE  BooksInv'
<1>1. /\ mem'.pc = mem.pc /\ SameTables(mem', mem) /\ SameCharges(mem', mem)
      /\ mem'.answer = mem.answer /\ mem'.future = mem.future
      /\ mem'.init = mem.init /\ mem'.fatal = mem.fatal
      /\ mem'.owner = mem.owner /\ mem'.step = mem.step /\ mem'.todo = mem.todo
      /\ mem'.ev = mem.ev /\ mem'.from = mem.from
  BY DEF KeyStep, SameAnswers, SameLife, SameDrain
<1>2. /\ mem'.retained = mem.retained /\ mem'.inflight = mem.inflight /\ mem'.liable = mem.liable
      /\ Unsettled(mem') = Unsettled(mem) /\ \A f : From(f)' <=> From(f)
  BY <1>1, SameUnsettled DEF SameTables, SameCharges, From, Projecting
<1>3. RetryBooks' BY <1>1, <1>2 DEF BooksInv, RetryBooks
<1>4. ListBooks' BY <1>1, <1>2 DEF BooksInv, ListBooks
<1>5. DurableOrder' BY <1>1, DurableKept
<1>6. NoMutators' BY DEF NoMutators
<1> QED BY <1>1, <1>2, <1>3, <1>4, <1>5, <1>6, BooksKept

LEMMA KeysKeepBooks ==
    ASSUME BooksInv, WorkInv', Next,
           \/ \E k \in Keys : \/ \E reset \in BOOLEAN : UpdateKey(k, reset)
                              \/ ListDueBudgets(k) \/ DeleteKey(k)
           \/ FenceDueKey \/ MutatorDrained \/ MutateSink \/ MutationApplied
    PROVE  BooksInv'
<1>0. /\ WorkInv /\ mem \in MemoryType /\ db \in DatabaseType
      /\ perms' \in Nat /\ (perms' = 0 => perms = 0)
      /\ Mutations \subseteq Jobs /\ "reset" \in Mutations
  BY PermsGrow DEF BooksInv, WorkInv, TypeOK, Mutations, Jobs
<1>1. ASSUME NEW k \in Keys, NEW reset \in BOOLEAN, UpdateKey(k, reset) PROVE BooksInv'
  <2>1. db' = db /\ KeyStep(mem', mem) /\ "update" \in Operations
    BY <1>0, <1>1, UpdateKeyEffect
  <2> QED BY <1>0, <2>1, BeginKeepsBooks
<1>2. ASSUME NEW k \in Keys, ListDueBudgets(k) PROVE BooksInv'
  <2>1. db' = db /\ KeyStep(mem', mem) /\ "reset" \in Operations
    BY <1>0, <1>2, ListDueEffect
  <2> QED BY <1>0, <2>1, BeginKeepsBooks
<1>3. ASSUME NEW k \in Keys, DeleteKey(k) PROVE BooksInv'
  <2>1. db' = db /\ KeyStep(mem', mem) /\ "delete" \in Operations
    BY <1>0, <1>3, DeleteKeyEffect
  <2> QED BY <1>0, <2>1, BeginKeepsBooks
<1>4. CASE FenceDueKey
  <2>1. db' = db /\ KeyStep(mem', mem) /\ mem.job["reset"].pc = "listed"
    BY <1>0, <1>4, FenceDueEffect
  <2>2. Operations # {} BY <1>0, <2>1 DEF BooksInv, NoMutators
  <2> QED BY <1>0, <2>1, <2>2, BeginKeepsBooks
<1>5. ASSUME mem.step \in {"drained", "mutate", "applied"}, mem.owner # "free",
             Raised(mem', mem, FALSE), DurableOrder',
             db'.accepted = db.accepted, db'.projected = db.projected
      PROVE  BooksInv'
  <2>1. ~ From("session") BY <1>5 DEF From, Projecting
  <2> QED BY <1>0, <1>5, <2>1, RaisedHereKeepsBooks
<1>6. CASE MutatorDrained
  <2>1. /\ mem.step = "drained" /\ db' = db
        /\ \/ /\ PassStep(mem', mem) /\ mem'.step = "mutate" /\ mem'.owner = mem.owner
              /\ mem'.todo = mem.todo
           \/ Raised(mem', mem, FALSE)
    BY <1>0, <1>6, MutatorDrainedEffect
  <2>2. mem.owner # "free" BY <1>0, <2>1 DEF WorkInv, DrainOK
  <2>3. CASE /\ PassStep(mem', mem) /\ mem'.step = "mutate" /\ mem'.owner = mem.owner
             /\ mem'.todo = mem.todo
    BY <1>0, <2>1, <2>3, DrainedKeepsBooks
  <2>4. CASE Raised(mem', mem, FALSE)
    <3>1. mem'.step # "mark" BY <2>4 DEF Raised, RaisedFrame, DrainFree
    <3>2. DurableOrder' BY <2>1, <3>1, DurableKept
    <3> QED BY <1>5, <2>1, <2>2, <2>4, <3>2
  <2> QED BY <2>1, <2>3, <2>4
<1>7. CASE MutateSink
  <2>1. /\ mem.step = "mutate" /\ MutatedKey \in Keys
        /\ \/ /\ PassStep(mem', mem) /\ mem'.step = "applied" /\ mem'.owner = mem.owner
              /\ mem'.todo = mem.todo
           \/ Raised(mem', mem, FALSE)
        /\ db' = db \/ db' = MutatedBy(db, MutatedKey)
    BY <1>0, <1>7, MutateSinkEffect
  <2>2. mem.owner # "free" BY <1>0, <2>1 DEF WorkInv, DrainOK
  <2>3. ASSUME db' = MutatedBy(db, MutatedKey)
        PROVE  db'.accepted = db.accepted /\ db'.projected = db.projected
               /\ db'.receipts = db.receipts
    BY <1>0, <2>1, <2>3, MutatedByEffect
  <2>4. db'.accepted = db.accepted /\ db'.projected = db.projected /\ db'.receipts = db.receipts
    BY <2>1, <2>3
  <2>5. CASE /\ PassStep(mem', mem) /\ mem'.step = "applied" /\ mem'.owner = mem.owner
             /\ mem'.todo = mem.todo
    BY <1>0, <2>1, <2>4, <2>5, DrainedKeepsBooks
  <2>6. CASE Raised(mem', mem, FALSE)
    <3>1. mem'.step # "mark" BY <2>6 DEF Raised, RaisedFrame, DrainFree
    <3>2. DurableOrder' BY <2>4, <3>1 DEF BooksInv, DurableOrder
    <3> QED BY <1>5, <2>1, <2>2, <2>4, <2>6, <3>2
  <2> QED BY <2>1, <2>5, <2>6
<1>8. CASE MutationApplied
  <2>1. /\ mem.step = "applied" /\ db' = db /\ mem.owner \in Sessions \cup Mutations
        /\ \/ UpdateEnds(mem', mem, MutatedKey)
           \/ mem.owner \in Sessions \cup {"reset"} /\ ResetEnds(mem', mem, MutatedKey)
           \/ DeleteEnds(mem', mem, MutatedKey)
           \/ Raised(mem', mem, FALSE)
    BY <1>0, <1>8, MutationAppliedEffect
  <2>2. mem.owner # "free" BY <1>0, <2>1 DEF WorkInv, DrainOK
  <2>3. mem.owner \in Sessions => mem.pc[mem.owner] = "resetting"
    BY <2>1 DEF BooksInv, RetryBooks, From, Projecting
  <2>4. Operations # {}
    <3>1. CASE mem.owner \in Sessions BY <2>3, <3>1 DEF BooksInv, NoMutators
    <3>2. CASE mem.owner \in Mutations
      <4>1. mem.job[mem.owner].pc = "working" BY <1>0, <3>2 DEF WorkInv, DrainOK
      <4> QED BY <3>2, <4>1 DEF BooksInv, NoMutators
    <3> QED BY <2>1, <3>1, <3>2
  <2>5. ASSUME KeyEnds(mem', mem),
               \A q \in Sessions : \/ mem'.pc[q] = mem.pc[q]
                                   \/ mem.pc[q] = "resetting" /\ mem'.pc[q] = "terminal"
        PROVE  BooksInv'
    <3>1. /\ DrainFree(mem') /\ SameTables(mem', mem) /\ SameCharges(mem', mem)
          /\ mem'.answer = mem.answer /\ mem'.future = mem.future
          /\ mem'.init = mem.init /\ mem'.fatal = mem.fatal
      BY <2>5 DEF KeyEnds, SameAnswers, SameLife
    <3>2. /\ mem'.retained = mem.retained /\ mem'.inflight = mem.inflight
          /\ Unsettled(mem') = Unsettled(mem) /\ mem'.step # "mark"
      BY <3>1, SameUnsettled DEF SameTables, DrainFree
    <3>3. RetryBooks' /\ ListBooks' BY <3>1, FreeBooks
    <3>4. DurableOrder' BY <2>1, <3>2, DurableKept
    <3>5. NoMutators' BY <2>4 DEF NoMutators
    <3> QED BY <1>0, <2>1, <2>5, <3>1, <3>2, <3>3, <3>4, <3>5, BooksKept
  <2>6. CASE UpdateEnds(mem', mem, MutatedKey) BY <2>5, <2>6 DEF UpdateEnds
  <2>7. CASE DeleteEnds(mem', mem, MutatedKey) BY <2>5, <2>7 DEF DeleteEnds
  <2>8. CASE mem.owner \in Sessions \cup {"reset"} /\ ResetEnds(mem', mem, MutatedKey)
    <3>1. CASE mem.owner \notin Sessions BY <2>5, <2>8, <3>1 DEF ResetEnds
    <3>2. CASE mem.owner \in Sessions
      <4>1. KeyEnds(mem', mem) /\ mem'.pc = [mem.pc EXCEPT ![mem.owner] = "terminal"]
        BY <2>8, <3>2 DEF ResetEnds
      <4>2. mem.pc \in [Sessions -> SessionPcs] BY <1>0 DEF MemoryType
      <4> QED BY <2>3, <2>5, <3>2, <4>1, <4>2
    <3> QED BY <3>1, <3>2
  <2>9. CASE Raised(mem', mem, FALSE)
    <3>1. mem'.step # "mark" BY <2>9 DEF Raised, RaisedFrame, DrainFree
    <3>2. DurableOrder' BY <2>1, <3>1, DurableKept
    <3> QED BY <1>5, <2>1, <2>2, <2>9, <3>2
  <2> QED BY <2>1, <2>6, <2>7, <2>8, <2>9
<1> QED BY <1>1, <1>2, <1>3, <1>4, <1>6, <1>7, <1>8

LEMMA CrashKeepsBooks ==
    ASSUME BooksInv, WorkInv', Crash
    PROVE  BooksInv'
<1>1. /\ Fresh(mem') /\ db' = db /\ perms' = perms
      /\ \A s \in Sessions : mem.pc[s] # "none" => mem'.pc[s] = "terminal"
  BY CrashEffect DEF BooksInv, Crash
<1>2. /\ DrainFree(mem') /\ mem'.retained = {} /\ mem'.liable = {} /\ mem'.reserved = {}
      /\ mem'.resetPending = {} /\ mem'.init = FALSE
      /\ \A s \in Sessions : mem'.pc[s] \in {"none", "terminal"} /\ mem'.future[s] = "none"
      /\ \A j \in Jobs : mem'.job[j] = Idle
  BY <1>1 DEF Fresh
<1>3. ASSUME NEW s \in Sessions PROVE SessionBooks(s)'
  <2>1. mem'.pc[s] = "none" => s \notin db'.accepted BY <1>1 DEF BooksInv, SessionBooks
  <2> QED BY <1>2, <2>1 DEF SessionBooks, LivePcs, Late
<1>4. RetryBooks' /\ ListBooks' BY <1>2, FreeBooks
<1>5. DurableOrder' BY <1>1, <1>2 DEF BooksInv, DurableOrder, DrainFree
<1>6. NoMutators' BY <1>2 DEF NoMutators, Mutations, Jobs, Idle
<1>7. UnsettledTracked' BY <1>2 DEF UnsettledTracked
<1> QED BY <1>1, <1>3, <1>4, <1>5, <1>6, <1>7 DEF BooksInv

---------------------------------------------------------------------------
LEMMA BooksInit == Init => BooksInv
<1> SUFFICES ASSUME Init PROVE BooksInv OBVIOUS
<1> DEFINE p == [s \in Sessions |-> "none"]
<1>1. mem = InitMem(p) /\ db = InitDb /\ perms = 0 BY DEF Init
<1>2. Fresh(mem) BY <1>1, InitMemFresh
<1>3. WorkInv BY WorkInit
<1>4. /\ DrainFree(mem) /\ mem.retained = {} /\ mem.liable = {} /\ mem.reserved = {}
      /\ mem.resetPending = {} /\ mem.init = FALSE
      /\ \A s \in Sessions : mem.pc[s] \in {"none", "terminal"} /\ mem.future[s] = "none"
      /\ \A j \in Jobs : mem.job[j] = Idle
  BY <1>2 DEF Fresh
<1>5. db.accepted = {} /\ db.projected = {} /\ db.receipts = {} BY <1>1 DEF InitDb
<1>6. \A s \in Sessions : SessionBooks(s) BY <1>4, <1>5 DEF SessionBooks, LivePcs, Late
<1>7. RetryBooks /\ ListBooks
  <2>1. /\ mem.owner = "free" /\ mem.step = "free" /\ "free" \notin Sessions /\ \A f : ~ From(f)
    BY <1>4, AccountingNames DEF DrainFree, From, Projecting
  <2> QED BY <2>1 DEF RetryBooks, ListBooks
<1>8. DurableOrder BY <1>4, <1>5 DEF DurableOrder, DrainFree
<1>9. NoMutators BY <1>4 DEF NoMutators, Mutations, Jobs, Idle
<1>10. UnsettledTracked BY <1>4 DEF UnsettledTracked
<1> QED BY <1>1, <1>3, <1>6, <1>7, <1>8, <1>9, <1>10 DEF BooksInv

LEMMA BooksStep == BooksInv /\ [Next]_vars => BooksInv'
<1> SUFFICES ASSUME BooksInv, [Next]_vars PROVE BooksInv' OBVIOUS
<1>1. WorkInv' BY WorkStep DEF BooksInv
<1>2. CASE UNCHANGED vars
  <2>1. mem' = mem /\ db' = db /\ perms' = perms BY <1>2 DEF vars
  <2>2. (\A s \in Sessions : SessionBooks(s)') /\ RetryBooks' /\ ListBooks' /\ DurableOrder'
    BY <2>1 DEF BooksInv, SessionBooks, RetryBooks, ListBooks, DurableOrder, From, Projecting
  <2>3. NoMutators' /\ UnsettledTracked' BY <2>1 DEF BooksInv, NoMutators, UnsettledTracked
  <2> QED BY <1>1, <2>1, <2>2, <2>3 DEF BooksInv
<1>3. CASE Next
  BY <1>1, <1>3, RequestsKeepBooks, PassesKeepBooks, TasksKeepBooks, KeysKeepBooks,
     CrashKeepsBooks DEF Next
<1> QED BY <1>2, <1>3

\* No reservation leaks and none is given back twice: the ledger holds one exactly
\* for every session still to be charged or released.
THEOREM ReservationsAreBalanced == Spec => []ReservationsBalance
<1>1. ASSUME BooksInv PROVE ReservationsBalance
  <2>1. mem.reserved \subseteq Sessions BY <1>1 DEF BooksInv, WorkInv, TypeOK, MemoryType
  <2>2. \A s \in Sessions : s \in mem.reserved <=> (mem.pc[s] \in LivePcs /\ s \notin mem.liable)
    BY <1>1 DEF BooksInv, SessionBooks
  <2> QED BY <2>1, <2>2 DEF ReservationsBalance, Live
<1> QED BY BooksInit, BooksStep, <1>1, PTL DEF Spec

\* The service counts every accepted event that is not projected as unsettled.
THEOREM BacklogIsTracked == Spec => []UnsettledTracked
<1>1. BooksInv => UnsettledTracked BY DEF BooksInv
<1> QED BY BooksInit, BooksStep, <1>1, PTL DEF Spec

---------------------------------------------------------------------------
(* Stop.                                                                   *)

StopPc == mem.job["stop"].pc
\* No request is admitted, no key mutation begins and no start is under way.
Closed == mem.state \in {"stopping", "failed"} /\ mem.job["start"].pc = "idle"

\* How far a stop has come: it has joined the start, then the sessions and the key
\* mutations, then the projector.
StopOrder ==
    /\ mem.state = "new" => ~ mem.init
    /\ StopPc \in {"sessions", "projector", "lock", "working"} => Closed
    /\ StopPc \in {"projector", "lock", "working"} => SessionsDrained
    /\ StopPc \in {"lock", "working"} => mem.job["projector"].pc = "idle"

StopInv == BooksInv /\ StopOrder /\ StoppedSettled

StateMoves(x, y) ==
    /\ y \in {"new", "stopped"} => y = x
    /\ x \in {"stopping", "failed"} => y \in {"stopping", "failed"}

\* A stopped service makes no step but the end of its process.
LEMMA StoppedIsQuiet ==
    ASSUME StopInv, mem.state = "stopped", mem.init, Next
    PROVE  Crash
<1>1. /\ WorkInv /\ mem.owner = "free" /\ mem.step = "free"
      /\ \A s \in Sessions : mem.pc[s] \in {"none", "terminal"}
      /\ \A j \in Jobs : mem.job[j].pc = "idle"
  BY DEF StopInv, BooksInv, WorkInv, DrainOK, StoppedSettled
<1>2. "free" \notin Jobs /\ "free" \notin Sessions BY AccountingNames DEF Jobs
<1>3. /\ mem.job["start"].pc = "idle" /\ mem.job["projector"].pc = "idle"
      /\ mem.job["stop"].pc = "idle" /\ mem.job["reset"].pc = "idle"
  BY <1>1 DEF Jobs
<1>4. ASSUME NEW s \in Sessions
      PROVE  ~ (\/ Reserve(s) \/ Release(s) \/ ReleaseSession(s)
                \/ Commit(s) \/ SourceAccept(s) \/ SourceAnswered(s) \/ RetryResolved(s))
  BY <1>1 DEF Reserve, Release, ReleaseSession, Commit, SourceAccept, SourceAnswered,
              RetryResolved
<1>5. ASSUME NEW o \in Sessions \cup Jobs PROVE ~ TakeDrain(o)
  BY <1>1 DEF TakeDrain, WaitsForDrain
<1>6. /\ ~ RetainedBatch /\ ~ ListPending /\ ~ PassEnds
      /\ \A e \in Sessions : ~ RetryAccept(e) /\ ~ DrainPending(e)
      /\ ~ ApplySpendEvent /\ ~ MarkProjected /\ ~ MarkFailed
  BY <1>1 DEF RetainedBatch, ListPending, PassEnds, RetryAccept, DrainPending,
              ApplySpendEvent,
              MarkProjected, MarkFailed
<1>7. /\ ~ Start /\ ~ StartDrained /\ ~ StartAudited /\ ~ ProjectorTurn /\ ~ ProjectorDrained
      /\ ~ Stop /\ ~ StopBegins /\ ~ StopSessionsDone /\ ~ StopProjectorJoined
      /\ ~ StopDrained /\ ~ StopAudited
  BY <1>1, <1>3 DEF Start, StartDrained, StartAudited, ProjectorTurn, ProjectorDrained,
                    Stop, StopBegins, StopSessionsDone, StopProjectorJoined, StopDrained, StopAudited
<1>8. \A k \in Keys : /\ \A reset \in BOOLEAN : ~ UpdateKey(k, reset)
                      /\ ~ ListDueBudgets(k) /\ ~ DeleteKey(k)
  BY DEF UpdateKey, ListDueBudgets, DeleteKey, Mutable
<1>9. ~ FenceDueKey /\ ~ MutatorDrained /\ ~ MutateSink /\ ~ MutationApplied
  BY <1>1, <1>3 DEF FenceDueKey, MutatorDrained, MutateSink, MutationApplied
<1> QED BY <1>4, <1>5, <1>6, <1>7, <1>8, <1>9 DEF Next

\* A step that does not end a stop well, and takes it no further.
LEMMA StepKeepsStop ==
    ASSUME StopInv, BooksInv',
           mem'.state \in {"new", "stopped"} => ~ mem'.init,
           Closed => Closed',
           StopPc' \in {"idle", "start", StopPc},
           Closed /\ SessionsDrained => SessionsDrained',
           Closed /\ mem.job["projector"].pc = "idle" => mem'.job["projector"].pc = "idle"
    PROVE  StopInv'
<1>1. StopOrder' BY DEF StopInv, StopOrder
<1>2. StoppedSettled' BY DEF StoppedSettled
<1> QED BY <1>1, <1>2 DEF StopInv

\* Neither does one that leaves the tasks alone.
LEMMA RequestKeepsStop ==
    ASSUME StopInv, BooksInv', ~ (mem.state = "stopped" /\ mem.init),
           mem'.job = mem.job, mem'.init = mem.init, StateMoves(mem.state, mem'.state),
           \/ mem'.pc = mem.pc \/ ~ Closed
           \/ \E s \in Sessions : mem.pc[s] \notin {"none", "terminal"}
    PROVE  StopInv'
<1>1. mem'.state \in {"new", "stopped"} => ~ mem'.init BY DEF StopInv, StopOrder, StateMoves
<1>2. Closed => Closed' BY DEF Closed, StateMoves
<1>3. Closed /\ SessionsDrained => SessionsDrained' BY DEF SessionsDrained
<1> QED BY <1>1, <1>2, <1>3, StepKeepsStop DEF StopPc

\* A step of a pass takes a stop no further.
LEMMA PassKeepsStop ==
    ASSUME StopInv, BooksInv', ~ (mem.state = "stopped" /\ mem.init), PassStep(mem', mem)
    PROVE  StopInv'
<1>1. mem'.job = mem.job /\ mem'.pc = mem.pc /\ mem'.init = mem.init /\ mem'.state = mem.state
  BY DEF PassStep, SameLife
<1> QED BY <1>1, RequestKeepsStop DEF StateMoves

\* A task that moves on beside the other tasks.
LEMMA TaskKeepsStop ==
    ASSUME StopInv, BooksInv', ~ (mem.state = "stopped" /\ mem.init),
           NEW j \in Jobs \ {"stop"}, mem.job[j].pc # "idle" \/ ~ Closed,
           \A i \in Jobs : i # j => mem'.job[i] = mem.job[i],
           mem'.pc = mem.pc, Closed => j # "start",
           mem'.state \in {"new", "stopped"} => ~ mem'.init,
           mem.state \in {"stopping", "failed"} /\ j # "start" => mem'.state \in {"stopping", "failed"}
    PROVE  StopInv'
<1>1. StopPc' = StopPc BY DEF StopPc, Jobs
<1>2. Closed => Closed' BY DEF Closed, Jobs
<1>3. Closed /\ SessionsDrained => SessionsDrained'
  BY DEF SessionsDrained, Jobs
<1>4. Closed /\ mem.job["projector"].pc = "idle" => mem'.job["projector"].pc = "idle"
  BY DEF Jobs
<1> QED BY <1>1, <1>2, <1>3, <1>4, StepKeepsStop

\* Nor does an exception out of the lock.
LEMMA RaisedKeepsStop ==
    ASSUME StopInv, BooksInv', ~ (mem.state = "stopped" /\ mem.init), mem.owner # "free",
           NEW m \in MemoryType, m.pc = mem.pc, m.job = mem.job, m.owner = mem.owner,
           m.init = mem.init, StateMoves(mem.state, m.state), NEW p, Raised(mem', m, p)
    PROVE  StopInv'
<1>1. /\ m.owner \in Sessions \cup Jobs
      /\ m.owner \in Jobs => mem.job[m.owner].pc = "working" /\ m.owner \notin Sessions
  BY AccountingNames DEF MemoryType, StopInv, BooksInv, WorkInv, DrainOK
<1>2. /\ \A q \in Sessions : mem'.pc[q] = IF q = m.owner THEN "terminal" ELSE m.pc[q]
      /\ \A j \in Jobs : j # m.owner => mem'.job[j] = m.job[j]
      /\ m.owner \in Jobs \ {"projector"} => mem'.job[m.owner] = Idle
  BY <1>1, RaisedAt
<1>3. RaisedLife(mem', m, p) /\ mem'.init = mem.init BY DEF Raised, RaisedFrame
<1>4. /\ m.owner = "start" => mem'.state \in {"failed", "blocked"}
      /\ m.owner # "start" => StateMoves(m.state, mem'.state)
  BY <1>3 DEF RaisedLife, StateMoves
<1>5. mem'.state \in {"new", "stopped"} => mem'.state = mem.state
  BY <1>4 DEF StateMoves
<1>6. mem'.state \in {"new", "stopped"} => ~ mem'.init
  BY <1>3, <1>5 DEF StopInv, StopOrder
<1>7. Closed => Closed'
  <2>1. m.owner = "start" => ~ Closed BY <1>1 DEF Closed, Jobs
  <2>2. m.owner # "start" => mem'.job["start"] = mem.job["start"] BY <1>2 DEF Jobs
  <2> QED BY <1>4, <2>1, <2>2 DEF Closed, StateMoves
<1>8. StopPc' \in {"idle", "start", StopPc}
  BY <1>2 DEF StopPc, Jobs, Idle
<1>9. SessionsDrained => SessionsDrained'
  <2>1. ASSUME NEW j \in {"update", "reset", "delete"}, mem.job[j].pc = "idle"
        PROVE  mem'.job[j].pc = "idle"
    BY <1>1, <1>2, <2>1 DEF Jobs
  <2> QED BY <1>2, <2>1 DEF SessionsDrained
<1>10. mem.job["projector"].pc = "idle" => mem'.job["projector"].pc = "idle"
  BY <1>1, <1>2 DEF Jobs
<1> QED BY <1>6, <1>7, <1>8, <1>9, <1>10, StepKeepsStop

\* No request's step undoes a stop.
LEMMA RequestsKeepStop ==
    ASSUME StopInv, BooksInv', ~ (mem.state = "stopped" /\ mem.init), NEW s \in Sessions,
           \/ Reserve(s) \/ Release(s) \/ ReleaseSession(s)
           \/ Commit(s) \/ SourceAccept(s) \/ SourceAnswered(s) \/ RetryResolved(s)
    PROVE  StopInv'
<1>0. WorkInv BY DEF StopInv, BooksInv
<1>1. ASSUME RequestStep(mem', mem), StateMoves(mem.state, mem'.state),
             mem.pc[s] \notin {"none", "terminal"} \/ ~ Closed
      PROVE  StopInv'
  <2>1. mem'.job = mem.job /\ mem'.init = mem.init BY <1>1 DEF RequestStep
  <2> QED BY <1>1, <2>1, RequestKeepsStop
<1>2. CASE Reserve(s)
  <2>1. RequestStep(mem', mem) /\ mem.state = "running" /\ SameLife(mem', mem)
    BY <1>0, <1>2, ReserveEffect
  <2> QED BY <1>1, <2>1 DEF SameLife, StateMoves, Closed
<1>3. CASE Release(s)
  <2>1. RequestStep(mem', mem) /\ mem.pc[s] = "reserved" /\ SameLife(mem', mem)
    BY <1>0, <1>3, ReleaseStepEffect
  <2> QED BY <1>1, <2>1 DEF SameLife, StateMoves
<1>4. CASE ReleaseSession(s)
  <2>1. RequestStep(mem', mem) /\ mem.pc[s] = "releasing" /\ SameLife(mem', mem)
    BY <1>0, <1>4, ReleaseSessionEffect
  <2> QED BY <1>1, <2>1 DEF SameLife, StateMoves
<1>5. CASE Commit(s)
  <2>1. RequestStep(mem', mem) /\ mem.pc[s] = "reserved" /\ SameLife(mem', mem)
    BY <1>0, <1>5, CommitEffect
  <2> QED BY <1>1, <2>1 DEF SameLife, StateMoves
<1>6. CASE SourceAccept(s)
  <2>1. RequestStep(mem', mem) /\ mem.pc[s] = "accept" /\ SameLife(mem', mem)
    BY <1>0, <1>6, SourceAcceptEffect
  <2> QED BY <1>1, <2>1 DEF SameLife, StateMoves
<1>7. CASE SourceAnswered(s)
  <2>1. /\ RequestStep(mem', mem) /\ mem.pc[s] = "answered"
        /\ AnswerAccepted(s) \/ AnswerTransient(s) \/ AnswerPermanent(s)
    BY <1>0, <1>7, SourceAnsweredEffect
  <2>2. \/ mem'.state = mem.state \/ (mem.state = "blocked" /\ mem'.state = "running")
        \/ (mem.state \notin {"stopping", "stopped", "failed"} /\ mem'.state = "blocked")
        \/ mem'.state = "failed"
    BY <2>1 DEF AnswerAccepted, AnswerTransient, AnswerPermanent
  <2>3. StateMoves(mem.state, mem'.state) BY <2>2 DEF StateMoves
  <2> QED BY <1>1, <2>1, <2>3
<1>8. CASE RetryResolved(s)
  <2>1. RequestStep(mem', mem) /\ mem.pc[s] = "retrying" /\ SameLife(mem', mem)
    BY <1>0, <1>8, RetryResolvedEffect
  <2> QED BY <1>1, <2>1 DEF SameLife, StateMoves
<1> QED BY <1>2, <1>3, <1>4, <1>5, <1>6, <1>7, <1>8

\* Nor does any step of a pass.
LEMMA PassesKeepStop ==
    ASSUME StopInv, BooksInv', ~ (mem.state = "stopped" /\ mem.init),
           \/ \E o \in Sessions \cup Jobs : TakeDrain(o)
           \/ RetainedBatch \/ PassEnds \/ ListPending
           \/ \E e \in Sessions : RetryAccept(e) \/ DrainPending(e)
           \/ ApplySpendEvent \/ MarkProjected \/ MarkFailed
    PROVE  StopInv'
<1>0. WorkInv /\ BooksInv /\ mem \in MemoryType
  BY DEF StopInv, BooksInv, WorkInv, TypeOK
<1>1. ASSUME mem'.job = mem.job, mem'.pc = mem.pc, mem'.init = mem.init,
             StateMoves(mem.state, mem'.state)
      PROVE  StopInv'
  BY <1>1, RequestKeepsStop
<1>2. ASSUME NEW p, Raised(mem', mem, p), mem.owner # "free" PROVE StopInv'
  BY <1>0, <1>2, RaisedKeepsStop DEF StateMoves
<1>3. ASSUME NEW o \in Sessions \cup Jobs, TakeDrain(o) PROVE StopInv'
  <2>1. /\ mem'.pc = mem.pc /\ SameLife(mem', mem)
        /\ \/ mem'.job = mem.job
           \/ /\ o \in Jobs /\ mem.job[o].pc = "lock" /\ mem'.job = Moved(mem.job, o, "working")
    BY <1>0, <1>3, TakeDrainEffect
  <2>2. /\ mem'.init = mem.init /\ StateMoves(mem.state, mem'.state) /\ mem'.state = mem.state
        /\ mem'.state \in {"new", "stopped"} => ~ mem'.init
    BY <2>1 DEF SameLife, StateMoves, StopInv, StopOrder
  <2>3. CASE mem'.job = mem.job BY <1>1, <2>1, <2>2, <2>3
  <2>4. CASE /\ o \in Jobs /\ mem.job[o].pc = "lock" /\ mem'.job = Moved(mem.job, o, "working")
    <3>1. /\ \A i \in Jobs : i # o => mem'.job[i] = mem.job[i]
          /\ mem'.job[o].pc = "working"
      BY <1>0, <2>4, MovedAt DEF MemoryType
    <3>2. CASE o # "stop"
      <4>1. Closed => o # "start" BY <2>4 DEF Closed
      <4> QED BY <2>1, <2>2, <2>4, <3>1, <3>2, <4>1, TaskKeepsStop
    <3>3. CASE o = "stop"
      <4>1. Closed /\ SessionsDrained /\ mem.job["projector"].pc = "idle"
        BY <2>4, <3>3 DEF StopInv, StopOrder, StopPc
      <4>2. Closed' /\ SessionsDrained' /\ mem'.job["projector"].pc = "idle"
        BY <2>1, <2>2, <3>1, <3>3, <4>1 DEF Closed, SessionsDrained, Jobs
      <4>3. StopOrder' BY <2>2, <4>2 DEF StopOrder
      <4>4. StoppedSettled' BY <2>2 DEF StoppedSettled
      <4> QED BY <4>3, <4>4 DEF StopInv
    <3> QED BY <3>2, <3>3
  <2> QED BY <2>1, <2>3, <2>4
<1>4. CASE RetainedBatch BY <1>0, <1>4, RetainedBatchEffect, PassKeepsStop
<1>5. CASE PassEnds BY <1>0, <1>5, PassEndsEffect, PassKeepsStop
<1>6. CASE ListPending
  <2>1. PassStep(mem', mem) \/ \E p \in BOOLEAN : Raised(mem', mem, p) /\ mem.owner # "free"
    BY <1>0, <1>6, ListPendingEffect
  <2> QED BY <1>2, <2>1, PassKeepsStop
<1>7. ASSUME NEW e \in Sessions, RetryAccept(e) PROVE StopInv'
  <2>1. /\ mem.owner # "free"
        /\ \/ RetryReceipt(mem', mem, e) \/ RetryProjects(mem', mem, e)
           \/ RetryFails(mem', mem, e) \/ Raised(mem', Dropped(mem, e), TRUE)
    BY <1>0, <1>7, RetryAcceptEffect
  <2>2. CASE RetryReceipt(mem', mem, e) \/ RetryProjects(mem', mem, e)
    <3>1. RetryStored(mem', mem, e) BY <2>2 DEF RetryReceipt, RetryProjects
    <3> QED BY <1>1, <3>1 DEF RetryStored, StateMoves
  <2>3. CASE RetryFails(mem', mem, e) BY <1>1, <2>3 DEF RetryFails, StateMoves
  <2>4. CASE Raised(mem', Dropped(mem, e), TRUE)
    <3> DEFINE m == Dropped(mem, e)
    <3>1. /\ m \in MemoryType /\ m.pc = mem.pc /\ m.job = mem.job /\ m.owner = mem.owner
          /\ m.init = mem.init /\ StateMoves(mem.state, m.state)
      BY <1>0, DroppedEffect DEF SameLife, StateMoves
    <3> HIDE DEF m
    <3>2. Raised(mem', m, TRUE) BY <2>4 DEF m
    <3> QED BY <2>1, <3>1, <3>2, RaisedKeepsStop
  <2> QED BY <2>1, <2>2, <2>3, <2>4
<1>8. ASSUME NEW e \in Sessions, DrainPending(e) PROVE StopInv'
  <2>1. \/ mem'.pc = mem.pc /\ mem'.job = mem.job /\ SameLife(mem', mem)
        \/ Raised(mem', mem, FALSE) /\ mem.owner # "free"
    BY <1>0, <1>8, DrainPendingEffect
  <2> QED BY <1>1, <1>2, <2>1 DEF SameLife, StateMoves
<1>9. CASE ApplySpendEvent BY <1>0, <1>9, ApplySpendEffect, PassKeepsStop
<1>10. CASE MarkProjected \/ MarkFailed
  <2>1. mem.step \in {"mark", "fail"} /\ mem.ev \in Sessions /\ mem.owner # "free"
    BY <1>0, <1>10, VerdictEffect
  <2>2. PICK m, res : Verdict(m) /\ ProjectionEnds(mem', m, res)
    BY <1>0, <1>10, VerdictEffect
  <2>3. /\ m \in MemoryType /\ m.pc = mem.pc /\ m.job = mem.job /\ m.owner = mem.owner
        /\ m.init = mem.init /\ m.from = mem.from /\ m.ev = mem.ev
        /\ StateMoves(mem.state, m.state)
    BY <2>2 DEF Verdict, SameDrain, StateMoves
  <2>4. CASE m.from = "session"
    <3>1. EndsSession(mem', m, res) BY <2>2, <2>4 DEF ProjectionEnds
    <3>2. mem.pc[mem.ev] = "project"
      BY <1>0, <2>1, <2>3, <2>4 DEF WorkInv, DrainOK, Projecting
    <3>3. mem'.job = mem.job /\ mem'.init = mem.init /\ StateMoves(mem.state, mem'.state)
      BY <2>3, <3>1 DEF EndsSession, StateMoves
    <3> QED BY <2>1, <3>2, <3>3, RequestKeepsStop
  <2>5. CASE m.from # "session" /\ res = "permanent"
    <3>1. Raised(mem', m, TRUE) BY <2>2, <2>5 DEF ProjectionEnds
    <3> QED BY <2>1, <2>3, <3>1, RaisedKeepsStop
  <2>6. CASE m.from # "session" /\ res # "permanent"
    <3>1. Resumes(mem', m) BY <2>2, <2>6 DEF ProjectionEnds
    <3> QED BY <1>1, <2>3, <3>1 DEF Resumes, SameLife
  <2> QED BY <2>4, <2>5, <2>6
<1> QED BY <1>3, <1>4, <1>5, <1>6, <1>7, <1>8, <1>9, <1>10

\* Nor does a step of the start, the projector or the stop itself.
LEMMA TasksKeepStop ==
    ASSUME StopInv, BooksInv', ~ (mem.state = "stopped" /\ mem.init),
           \/ Start \/ StartDrained \/ StartAudited
           \/ ProjectorTurn \/ ProjectorDrained
           \/ Stop \/ StopBegins \/ StopSessionsDone \/ StopProjectorJoined
           \/ StopDrained \/ StopAudited
    PROVE  StopInv'
<1>0. /\ WorkInv /\ BooksInv /\ mem \in MemoryType /\ mem.job \in [Jobs -> JobType]
      /\ "start" \in Jobs /\ "projector" \in Jobs /\ "stop" \in Jobs
      /\ mem.owner \in Jobs => mem.job[mem.owner].pc = "working"
  BY DEF StopInv, BooksInv, WorkInv, TypeOK, MemoryType, Jobs, DrainOK
<1>1. ASSUME NEW p, Raised(mem', mem, p), mem.owner # "free" PROVE StopInv'
  BY <1>0, <1>1, RaisedKeepsStop DEF StateMoves
<1>3. CASE Start
  <2>1. /\ TaskStep(mem', mem) /\ mem'.job = Moved(mem.job, "start", "lock")
        /\ mem.state \in {"new", "blocked"} /\ mem'.state = "starting"
    BY <1>0, <1>3, StartEffect
  <2>2. mem'.pc = mem.pc /\ ~ Closed BY <2>1 DEF TaskStep, Closed
  <2>3. \A i \in Jobs : i # "start" => mem'.job[i] = mem.job[i] BY <1>0, <2>1, MovedAt
  <2> QED BY <1>0, <2>1, <2>2, <2>3, TaskKeepsStop
<1>4. CASE StartDrained \/ StartAudited
  <2>1. /\ mem.owner = "start"
        /\ \/ PassStep(mem', mem)
           \/ StartOpens(mem', mem)
           \/ StartEnds(mem', mem)
           \/ Raised(mem', mem, FALSE)
    BY <1>0, <1>4, StartWorkEffect
  <2>2. mem.job["start"].pc = "working" /\ ~ Closed BY <1>0, <2>1 DEF Closed
  <2>3. CASE StartOpens(mem', mem)
    <3> DEFINE mv == Moved(mem.job, "projector", "wait")
    <3>1. mv \in [Jobs -> JobType] BY <1>0 DEF Moved, JobType, JobPcs
    <3>2. \A j \in Jobs : j # "projector" => mv[j] = mem.job[j] BY <1>0, MovedAt
    <3> HIDE DEF mv
    <3>3. \A j \in Jobs : Ended(mv, "start")[j] = IF j = "start" THEN Idle ELSE mv[j]
      BY <1>0, <3>1, EndedAt
    <3>4. /\ mem'.job = Ended(mv, "start") /\ mem'.state = "running"
      BY <2>3 DEF StartOpens, LeavesDrain, mv
    <3>5. StopPc' = StopPc BY <1>0, <3>2, <3>3, <3>4 DEF StopPc
    <3> QED BY <2>2, <3>4, <3>5, StepKeepsStop
  <2>4. CASE StartEnds(mem', mem)
    <3>1. \A j \in Jobs : j # "start" => Ended(mem.job, "start")[j] = mem.job[j]
      BY <1>0, EndedAt
    <3>2. /\ mem'.job = Ended(mem.job, "start") /\ mem'.pc = mem.pc /\ mem'.init = mem.init
          /\ mem'.state = mem.state \/ mem'.state \in {"failed", "blocked"}
      BY <2>4 DEF StartEnds, LeavesDrain, TaskStep
    <3>3. mem'.state \in {"new", "stopped"} => ~ mem'.init BY <3>2 DEF StopInv, StopOrder
    <3> QED BY <1>0, <2>2, <3>1, <3>2, <3>3, TaskKeepsStop
  <2>5. CASE Raised(mem', mem, FALSE) BY <1>1, <2>1, <2>5
  <2> QED BY <2>1, <2>3, <2>4, <2>5, PassKeepsStop
<1>5. CASE ProjectorTurn
  <2>1. mem.job["projector"].pc = "wait" /\ mem'.state = mem.state
    BY <1>0, <1>5, ProjectorTurnEffect
  <2>2. PICK pc \in {"exited", "lock"} : JobStep(mem', mem, Moved(mem.job, "projector", pc))
    BY <1>0, <1>5, ProjectorTurnEffect
  <2>3. mem'.pc = mem.pc /\ mem'.init = mem.init /\ mem'.job = Moved(mem.job, "projector", pc)
    BY <2>2 DEF JobStep, TaskStep
  <2>4. \A i \in Jobs : i # "projector" => mem'.job[i] = mem.job[i] BY <1>0, <2>3, MovedAt
  <2>5. mem'.state \in {"new", "stopped"} => ~ mem'.init BY <2>1, <2>3 DEF StopInv, StopOrder
  <2> QED BY <1>0, <2>1, <2>3, <2>4, <2>5, TaskKeepsStop
<1>6. CASE ProjectorDrained
  <2>1. /\ mem.owner = "projector" /\ LeavesDrain(mem', mem, Moved(mem.job, "projector", "wait"))
        /\ mem'.init = mem.init
        /\ mem'.state = mem.state \/ (mem.state = "blocked" /\ mem'.state = "running")
    BY <1>0, <1>6, ProjectorDrainedEffect
  <2>2. mem'.pc = mem.pc /\ mem'.job = Moved(mem.job, "projector", "wait")
    BY <2>1 DEF LeavesDrain, TaskStep
  <2>3. \A i \in Jobs : i # "projector" => mem'.job[i] = mem.job[i] BY <1>0, <2>2, MovedAt
  <2>4. mem'.state \in {"new", "stopped"} => ~ mem'.init BY <2>1 DEF StopInv, StopOrder
  <2> QED BY <1>0, <2>1, <2>2, <2>3, <2>4, TaskKeepsStop
<1>7. CASE Stop
  <2>1. \/ mem.state = "new" /\ mem'.state = "stopped" /\ JobStep(mem', mem, mem.job)
        \/ mem'.state = "stopping" /\ JobStep(mem', mem, Moved(mem.job, "stop", "start"))
    BY <1>0, <1>7, StopEffect
  <2>2. CASE mem.state = "new" /\ mem'.state = "stopped" /\ JobStep(mem', mem, mem.job)
    <3>1. /\ mem'.job = mem.job /\ mem'.pc = mem.pc /\ mem'.init = mem.init
          /\ ~ mem.init /\ ~ Closed
      BY <2>2 DEF JobStep, TaskStep, StopInv, StopOrder, Closed
    <3> QED BY <3>1, StepKeepsStop DEF StopPc
  <2>3. CASE mem'.state = "stopping" /\ JobStep(mem', mem, Moved(mem.job, "stop", "start"))
    <3>1. mem'.job = Moved(mem.job, "stop", "start") /\ mem'.pc = mem.pc
      BY <2>3 DEF JobStep, TaskStep
    <3>2. /\ \A i \in Jobs : i # "stop" => mem'.job[i] = mem.job[i]
          /\ mem'.job["stop"].pc = "start"
      BY <1>0, <3>1, MovedAt
    <3>3. SessionsDrained => SessionsDrained' BY <3>1, <3>2 DEF SessionsDrained, Jobs
    <3>4. Closed => Closed' BY <1>0, <2>3, <3>2 DEF Closed
    <3> QED BY <1>0, <2>3, <3>2, <3>3, <3>4, StepKeepsStop DEF StopPc
  <2> QED BY <2>1, <2>2, <2>3
<1>8. CASE StopBegins
  <2>1. /\ mem.job["start"].pc = "idle" /\ mem'.state = "stopping"
        /\ mem'.job = Moved(mem.job, "stop", "sessions")
    BY <1>0, <1>8, StopBeginsEffect DEF JobStep
  <2>2. /\ \A i \in Jobs : i # "stop" => mem'.job[i] = mem.job[i]
        /\ StopPc' = "sessions"
    BY <1>0, <2>1, MovedAt DEF StopPc
  <2>3. Closed' BY <1>0, <2>1, <2>2 DEF Closed
  <2> QED BY <2>1, <2>2, <2>3 DEF StopInv, StopOrder, StoppedSettled
<1>9. CASE StopSessionsDone
  <2>1. /\ StopPc = "sessions" /\ SessionsDrained /\ mem'.state = mem.state
        /\ mem'.job = Moved(mem.job, "stop", "projector") /\ mem'.pc = mem.pc
        /\ mem'.init = mem.init
    BY <1>0, <1>9, StopSessionsDoneEffect DEF JobStep, TaskStep, StopPc
  <2>2. /\ \A i \in Jobs : i # "stop" => mem'.job[i] = mem.job[i]
        /\ StopPc' = "projector"
    BY <1>0, <2>1, MovedAt DEF StopPc
  <2>3. Closed' /\ SessionsDrained'
    BY <1>0, <2>1, <2>2 DEF Closed, SessionsDrained, Jobs, StopInv, StopOrder
  <2>4. StopOrder' BY <2>1, <2>2, <2>3 DEF StopInv, StopOrder
  <2> QED BY <2>1, <2>4 DEF StopInv, StoppedSettled
<1>10. CASE StopProjectorJoined
  <2> DEFINE en == Ended(mem.job, "projector")
  <2>1. /\ StopPc = "projector" /\ mem'.state = mem.state
        /\ mem'.job = Moved(en, "stop", "lock") /\ mem'.pc = mem.pc /\ mem'.init = mem.init
    BY <1>0, <1>10, StopProjectorJoinedEffect DEF JobStep, TaskStep, StopPc
  <2>2. en \in [Jobs -> JobType] BY <1>0 DEF Ended, Idle, JobType, JobPcs
  <2>3. \A i \in Jobs : en[i] = IF i = "projector" THEN Idle ELSE mem.job[i] BY <1>0, EndedAt
  <2> HIDE DEF en
  <2>4. /\ \A i \in Jobs : i # "stop" => mem'.job[i] = en[i]
        /\ StopPc' = "lock"
    BY <1>0, <2>1, <2>2, MovedAt DEF StopPc
  <2>5. Closed /\ SessionsDrained BY <2>1 DEF StopInv, StopOrder
  <2>6. Closed' /\ SessionsDrained' /\ mem'.job["projector"].pc = "idle"
    BY <1>0, <2>1, <2>3, <2>4, <2>5 DEF Closed, SessionsDrained, Jobs, Idle
  <2>7. StopOrder' BY <2>1, <2>4, <2>6 DEF StopInv, StopOrder
  <2> QED BY <2>1, <2>7 DEF StopInv, StoppedSettled
<1>11. CASE StopDrained \/ StopAudited
  <2>1. /\ mem.owner = "stop" /\ db' = db
        /\ \/ PassStep(mem', mem)
           \/ /\ LeavesDrain(mem', mem, Ended(mem.job, "stop"))
              /\ mem'.fatal = mem.fatal
              /\ AuditClean /\ TerminalClean
           \/ /\ LeavesDrain(mem', mem, Ended(mem.job, "stop")) /\ mem'.state = "failed"
           \/ Raised(mem', mem, FALSE)
    BY <1>0, <1>11, StopWorkEffect
  <2>2. StopPc = "working" BY <1>0, <2>1 DEF StopPc
  <2>3. Closed /\ SessionsDrained /\ mem.job["projector"].pc = "idle"
    BY <2>2 DEF StopInv, StopOrder
  <2>4. ASSUME LeavesDrain(mem', mem, Ended(mem.job, "stop"))
        PROVE  /\ \A j \in Jobs : mem'.job[j] = IF j = "stop" THEN Idle ELSE mem.job[j]
               /\ mem'.pc = mem.pc /\ DrainFree(mem') /\ mem'.reserved = mem.reserved
               /\ StopPc' = "idle" /\ SessionsDrained' /\ mem'.job["start"].pc = "idle"
               /\ mem'.job["projector"].pc = "idle"
    <3>1. \A j \in Jobs : Ended(mem.job, "stop")[j] = IF j = "stop" THEN Idle ELSE mem.job[j]
      BY <1>0, EndedAt
    <3>2. /\ mem'.job = Ended(mem.job, "stop") /\ mem'.pc = mem.pc /\ DrainFree(mem')
          /\ mem'.reserved = mem.reserved
      BY <2>4 DEF LeavesDrain, TaskStep, SameCharges
    <3> QED BY <1>0, <2>3, <3>1, <3>2 DEF StopPc, Idle, SessionsDrained, Jobs, Closed
  <2>5. CASE /\ LeavesDrain(mem', mem, Ended(mem.job, "stop")) /\ mem'.fatal = mem.fatal
             /\ AuditClean /\ TerminalClean
    <3>1. StopOrder'
      <4>1. mem'.state # "new" \/ ~ mem'.init
        BY <1>0, <1>11, StopWorkEffect, <2>3
           DEF StopInv, StopOrder, PassStep, SameLife, Closed,
           Raised, RaisedLife
      <4> QED BY <2>4, <2>5, <4>1 DEF StopOrder
    <3>2. \A j \in Jobs : mem'.job[j].pc = "idle"
      BY <2>3, <2>4, <2>5 DEF Jobs, Idle, SessionsDrained, Closed
    <3>3. mem.reserved = {}
      <4>1. mem.reserved \subseteq Sessions BY <1>0 DEF MemoryType
      <4>2. \A s \in Sessions : s \notin mem.reserved
        BY <1>0, <2>3 DEF BooksInv, SessionBooks, SessionsDrained, LivePcs
      <4> QED BY <4>1, <4>2
    <3>4. StoppedSettled'
      BY <2>1, <2>3, <2>4, <2>5, <3>2, <3>3
      DEF StoppedSettled, AuditClean, TerminalClean, SessionsDrained, DrainFree
    <3> QED BY <3>1, <3>4 DEF StopInv
  <2>6. CASE LeavesDrain(mem', mem, Ended(mem.job, "stop")) /\ mem'.state = "failed"
    <3>1. Closed' BY <2>4, <2>6 DEF Closed
    <3> QED BY <2>4, <2>6, <3>1, StepKeepsStop
  <2>7. CASE Raised(mem', mem, FALSE) BY <1>1, <2>1, <2>7
  <2> QED BY <2>1, <2>5, <2>6, <2>7, PassKeepsStop
<1> QED BY <1>3, <1>4, <1>5, <1>6, <1>7, <1>8, <1>9, <1>10, <1>11

\* Nor does a key mutation.
LEMMA KeysKeepStop ==
    ASSUME StopInv, BooksInv', ~ (mem.state = "stopped" /\ mem.init),
           \/ \E k \in Keys : \/ \E reset \in BOOLEAN : UpdateKey(k, reset)
                              \/ ListDueBudgets(k) \/ DeleteKey(k)
           \/ FenceDueKey \/ MutatorDrained \/ MutateSink \/ MutationApplied
    PROVE  StopInv'
<1>0. /\ WorkInv /\ BooksInv /\ mem \in MemoryType /\ mem.job \in [Jobs -> JobType]
      /\ Mutations \subseteq Jobs \ {"stop", "start"} /\ "free" \notin Sessions \cup Jobs
      /\ mem.owner \in Jobs => mem.job[mem.owner].pc = "working"
  BY AccountingNames
     DEF StopInv, BooksInv, WorkInv, TypeOK, MemoryType, Jobs, Mutations, DrainOK
<1>1. ASSUME NEW p, Raised(mem', mem, p), mem.owner # "free" PROVE StopInv'
  BY <1>0, <1>1, RaisedKeepsStop DEF StateMoves
<1>2. ASSUME NEW j \in Mutations, mem.job[j].pc # "idle" \/ ~ Closed,
             \A i \in Jobs : i # j => mem'.job[i] = mem.job[i],
             mem'.pc = mem.pc, SameLife(mem', mem)
      PROVE  StopInv'
  <2>1. j \in Jobs \ {"stop"} /\ j # "start" BY <1>0
  <2>2. mem'.state \in {"new", "stopped"} => ~ mem'.init
    BY <1>2 DEF SameLife, StopInv, StopOrder
  <2> QED BY <1>2, <2>1, <2>2, TaskKeepsStop DEF SameLife
<1>3. ASSUME NEW j \in Mutations, NEW r, KeyStep(mem', mem), Mutable,
             mem'.job = Begun(mem.job, j, r)
      PROVE  StopInv'
  <2>1. \A i \in Jobs : i # j => mem'.job[i] = mem.job[i] BY <1>0, <1>3, BegunAt
  <2>2. ~ Closed BY <1>3 DEF Mutable, Closed
  <2> QED BY <1>2, <1>3, <2>1, <2>2 DEF KeyStep
<1>4. ASSUME NEW k \in Keys, NEW reset \in BOOLEAN, UpdateKey(k, reset) PROVE StopInv'
  BY <1>0, <1>3, <1>4, UpdateKeyEffect DEF Mutations
<1>5. ASSUME NEW k \in Keys, ListDueBudgets(k) PROVE StopInv'
  BY <1>0, <1>3, <1>5, ListDueEffect DEF Mutations
<1>6. ASSUME NEW k \in Keys, DeleteKey(k) PROVE StopInv'
  BY <1>0, <1>3, <1>6, DeleteKeyEffect DEF Mutations
<1>7. ASSUME NEW j \in Mutations, mem.job[j].pc # "idle",
             mem'.job = Ended(mem.job, j), mem'.pc = mem.pc, SameLife(mem', mem)
      PROVE  StopInv'
  <2>1. \A i \in Jobs : i # j => mem'.job[i] = mem.job[i] BY <1>0, <1>7, EndedAt
  <2> QED BY <1>2, <1>7, <2>1
<1>8. CASE FenceDueKey
  <2>1. /\ KeyStep(mem', mem) /\ mem.job["reset"].pc = "listed" /\ "reset" \in Mutations
        /\ \/ mem'.job = Ended(mem.job, "reset") \/ mem'.job = Moved(mem.job, "reset", "lock")
    BY <1>0, <1>8, FenceDueEffect DEF DueSkipped, DueFenced, Mutations
  <2>2. \A i \in Jobs : i # "reset" => mem'.job[i] = mem.job[i]
    BY <1>0, <2>1, EndedAt, MovedAt
  <2> QED BY <1>2, <2>1, <2>2 DEF KeyStep
<1>9. CASE MutatorDrained \/ MutateSink
  <2>1. mem.owner # "free" /\ (PassStep(mem', mem) \/ Raised(mem', mem, FALSE))
    BY <1>0, <1>9, MutatorDrainedEffect, MutateSinkEffect DEF Mutators, Jobs, Mutations
  <2> QED BY <1>1, <2>1, PassKeepsStop
<1>10. CASE MutationApplied
  <2>1. /\ mem.owner \in Sessions \cup Mutations
        /\ \/ mem.owner = "update" /\ UpdateEnds(mem', mem, MutatedKey)
           \/ mem.owner \in Sessions \cup {"reset"} /\ ResetEnds(mem', mem, MutatedKey)
           \/ mem.owner = "delete" /\ DeleteEnds(mem', mem, MutatedKey)
           \/ Raised(mem', mem, FALSE)
    BY <1>0, <1>10, MutationAppliedEffect
  <2>2. /\ mem.owner \in Mutations => mem.owner \notin Sessions /\ mem.job[mem.owner].pc # "idle"
        /\ mem.owner # "free"
    BY <1>0, <2>1, AccountingNames
  <2>3. CASE mem.owner = "update" /\ UpdateEnds(mem', mem, MutatedKey)
    BY <1>0, <1>7, <2>2, <2>3 DEF UpdateEnds, KeyEnds, Mutations
  <2>4. CASE mem.owner = "delete" /\ DeleteEnds(mem', mem, MutatedKey)
    BY <1>0, <1>7, <2>2, <2>4 DEF DeleteEnds, KeyEnds, Mutations
  <2>5. CASE mem.owner = "reset" /\ ResetEnds(mem', mem, MutatedKey)
    <3>1. "reset" \in Mutations BY DEF Mutations
    <3> QED BY <1>0, <1>7, <2>2, <2>5, <3>1 DEF ResetEnds, KeyEnds
  <2>6. CASE mem.owner \in Sessions /\ ResetEnds(mem', mem, MutatedKey)
    <3>1. /\ mem'.pc = [mem.pc EXCEPT ![mem.owner] = "terminal"] /\ mem'.job = mem.job
          /\ SameLife(mem', mem)
      BY <2>6 DEF ResetEnds, KeyEnds
    <3>2. mem.pc \in [Sessions -> SessionPcs] BY <1>0 DEF MemoryType
    <3>3. SessionsDrained => SessionsDrained' BY <3>1, <3>2 DEF SessionsDrained
    <3>4. mem'.state \in {"new", "stopped"} => ~ mem'.init
      BY <3>1 DEF SameLife, StopInv, StopOrder
    <3>5. StopPc' = StopPc /\ (Closed => Closed') BY <3>1 DEF SameLife, StopPc, Closed
    <3> QED BY <3>1, <3>3, <3>4, <3>5, StepKeepsStop
  <2> QED BY <1>1, <2>1, <2>2, <2>3, <2>4, <2>5, <2>6
<1> QED BY <1>4, <1>5, <1>6, <1>8, <1>9, <1>10

\* A crash ends the stop with its process.
LEMMA CrashKeepsStop == ASSUME StopInv, BooksInv', Crash PROVE StopInv'
<1>1. Fresh(mem') BY CrashEffect DEF StopInv, BooksInv
<1>2. /\ mem'.state = "new" /\ ~ mem'.init
      /\ \A j \in Jobs : mem'.job[j].pc = "idle"
  BY <1>1 DEF Fresh, Idle
<1> QED BY <1>2 DEF StopInv, StopOrder, StoppedSettled, StopPc, Jobs

\* A new process has no stop under way.
LEMMA StopInit == Init => StopInv
<1> SUFFICES ASSUME Init PROVE StopInv OBVIOUS
<1> DEFINE p == [s \in Sessions |-> "none"]
<1>1. mem = InitMem(p) BY DEF Init
<1>2. Fresh(mem) BY <1>1, InitMemFresh
<1>3. /\ mem.state = "new" /\ ~ mem.init
      /\ \A j \in Jobs : mem.job[j].pc = "idle"
  BY <1>2 DEF Fresh, Idle
<1> QED BY <1>3, BooksInit DEF StopInv, StopOrder, StoppedSettled, StopPc, Jobs

\* StopInv is inductive.
LEMMA StopStep == StopInv /\ [Next]_vars => StopInv'
<1> SUFFICES ASSUME StopInv, [Next]_vars PROVE StopInv' OBVIOUS
<1>1. BooksInv' BY BooksStep DEF StopInv
<1>2. CASE UNCHANGED vars
  BY <1>1, <1>2 DEF vars, StopInv, StopOrder, StoppedSettled, StopPc, Closed, SessionsDrained
<1>3. CASE Next /\ mem.state = "stopped" /\ mem.init
  BY <1>1, <1>3, StoppedIsQuiet, CrashKeepsStop
<1>4. CASE Next /\ ~ (mem.state = "stopped" /\ mem.init)
  BY <1>1, <1>4, RequestsKeepStop, PassesKeepStop, TasksKeepStop, KeysKeepStop,
     CrashKeepsStop DEF Next
<1> QED BY <1>2, <1>3, <1>4

\* stop() reports STOPPED only when every accepted event has been charged and marked,
\* nothing fatal has happened, and nothing is left that could still write.
THEOREM StopSettlesEverything == Spec => []StoppedSettled
<1>1. StopInv => StoppedSettled BY DEF StopInv
<1> QED BY StopInit, StopStep, <1>1, PTL DEF Spec

---------------------------------------------------------------------------
(* The end of a budget period.                                             *)

\* Task j is at work on key k; the key has no request under way; a reset of the key
\* has been begun.
Works(j, k) == mem.job[j].pc # "idle" /\ mem.job[j].key = k
KeyRests(k) == \A s \in Sessions : KeyOf[s] = k => mem.pc[s] \notin LivePcs
Resetting(k) ==
    \/ mem.job["reset"].pc \in {"lock", "working"} /\ mem.job["reset"].key = k
    \/ \E s \in Sessions : KeyOf[s] = k /\ mem.pc[s] = "resetting"

\* A key is fenced as long as an administrator's task or a pending reset needs it, and
\* no request of the key is under way while its spending is set to zero.
KeyBooks(k) ==
    /\ k \in mem.resetPending => mem.fence[k] \in {"reset", "closed"}
    /\ Works("update", k) =>
           mem.fence[k] = "in_flight" /\ (mem.job["update"].flag => KeyRests(k))
    /\ Works("delete", k) =>
           mem.fence[k] = "closed" /\ (k \in mem.resetPending => mem.job["delete"].flag)
    /\ k \in db.due \cap db.active /\ Resetting(k) => k \in mem.resetPending /\ KeyRests(k)

\* The mutation the holder is about to make sets the spending of its key to zero.
Zeroes ==
    \/ mem.owner = "update" /\ mem.job["update"].flag
    \/ mem.owner \in Sessions \cup {"reset"} /\ MutatedKey \in db.due \cap db.active

\* It finds every event of the key charged, and a reset that was made is not made again.
MutationBooks ==
    /\ mem.step = "applied" /\ mem.owner # "update" => MutatedKey \notin db.due \cap db.active
    /\ mem.step = "mutate" /\ Zeroes =>
           \A e \in Sessions : KeyOf[e] = MutatedKey => e \notin db.accepted \ db.receipts

KeyInv == BooksInv /\ (\A k \in Keys : KeyBooks(k)) /\ MutationBooks

\* What a step may do to a task, to a request and to the databases without a word to
\* the keys.
JobFollows(j) ==
    mem'.job[j].pc # "idle" =>
        /\ mem.job[j].pc # "idle"
        /\ mem'.job[j].key = mem.job[j].key /\ mem'.job[j].flag = mem.job[j].flag
        /\ mem'.job[j].pc \in {"lock", "working"} => mem.job[j].pc \in {"lock", "working"}
SessionFollows(s) ==
    /\ mem'.pc[s] \in LivePcs => mem.pc[s] \in LivePcs
    /\ mem'.pc[s] = "resetting" =>
          \/ mem.pc[s] = "resetting"
          \/ KeyOf[s] \in mem.resetPending /\ ActiveByKey(mem', KeyOf[s]) = {}
DataFollows ==
    /\ db'.due \subseteq db.due /\ db'.active \subseteq db.active
    /\ mem'.step = "mutate" =>
           \A e \in Sessions : e \in db'.accepted \ db'.receipts =>
               e \in db.accepted \ db.receipts \/ mem.pc[e] = "accept"

\* A fence is lifted when no task needs it, and a pending reset is dropped when it is
\* no longer due.
LEMMA KeyFreed ==
    ASSUME KeyInv, NEW k \in Keys,
           Works("update", k)' \/ Works("delete", k)' => mem'.fence[k] = mem.fence[k],
           k \in mem'.resetPending => k \in mem.resetPending /\ mem'.fence[k] \in {"reset", "closed"},
           k \in db'.due \cap db'.active /\ k \in mem.resetPending => k \in mem'.resetPending,
           \A j \in Mutations : JobFollows(j), \A s \in Sessions : SessionFollows(s), DataFollows
    PROVE  KeyBooks(k)'
<1>1. KeyBooks(k) /\ {"update", "reset", "delete"} \subseteq Mutations
  BY DEF KeyInv, Mutations
<1>2. KeyRests(k) => KeyRests(k)' BY DEF KeyRests, SessionFollows
<1>3. \A s \in Sessions : KeyOf[s] = k /\ ActiveByKey(mem', k) = {} => KeyRests(k)'
  BY DEF KeyRests, ActiveByKey, Live
<1>4. Works("update", k)' => Works("update", k) /\ mem'.job["update"].flag = mem.job["update"].flag
  BY <1>1 DEF Works, JobFollows
<1>5. Works("delete", k)' => Works("delete", k) /\ mem'.job["delete"].flag = mem.job["delete"].flag
  BY <1>1 DEF Works, JobFollows
<1>6. Resetting(k)' => Resetting(k) \/ (k \in mem.resetPending /\ KeyRests(k)')
  BY <1>1, <1>3 DEF Resetting, JobFollows, SessionFollows
<1>7. k \in db'.due \cap db'.active => k \in db.due \cap db.active BY DEF DataFollows
<1> QED BY <1>1, <1>2, <1>4, <1>5, <1>6, <1>7 DEF KeyBooks

\* A step that moves no task or session onto the key keeps its books.
LEMMA KeyKept ==
    ASSUME KeyInv, NEW k \in Keys,
           mem'.fence[k] = mem.fence[k], k \in mem'.resetPending <=> k \in mem.resetPending,
           \A j \in Mutations : JobFollows(j), \A s \in Sessions : SessionFollows(s), DataFollows
    PROVE  KeyBooks(k)'
<1>1. k \in mem.resetPending => mem.fence[k] \in {"reset", "closed"} BY DEF KeyInv, KeyBooks
<1> QED BY <1>1, KeyFreed

\* While a key's spending is about to be set to zero no request of the key is under way.
LEMMA ZeroedKeyRests ==
    ASSUME KeyInv, mem.step = "mutate", Zeroes
    PROVE  MutatedKey \in Keys /\ KeyRests(MutatedKey)
<1> DEFINE k == MutatedKey
<1>1. /\ WorkInv /\ k \in Keys /\ KeyBooks(k) /\ "reset" \notin Sessions /\ "update" \notin Sessions
      /\ {"reset", "update"} \subseteq Jobs
  BY MutatedKeyIsKey, AccountingNames DEF KeyInv, BooksInv, Jobs
<1>2. mem.owner \in Jobs => mem.job[mem.owner].pc = "working" BY <1>1 DEF WorkInv, DrainOK
<1>3. CASE mem.owner = "update" /\ mem.job["update"].flag
  BY <1>1, <1>2, <1>3 DEF KeyBooks, Works, MutatedKey
<1>4. CASE mem.owner = "reset" /\ k \in db.due \cap db.active
  BY <1>1, <1>2, <1>4 DEF KeyBooks, Resetting, MutatedKey
<1>5. CASE mem.owner \in Sessions /\ k \in db.due \cap db.active
  <2>1. mem.pc[mem.owner] = "resetting"
    BY <1>5 DEF KeyInv, BooksInv, RetryBooks, From, Projecting
  <2> QED BY <1>1, <1>5, <2>1 DEF KeyBooks, Resetting, MutatedKey
<1> QED BY <1>1, <1>3, <1>4, <1>5 DEF Zeroes

\* A step that leaves the mutation alone keeps what it found.
LEMMA MutationKept ==
    ASSUME KeyInv, DataFollows,
           mem'.step \in {"mutate", "applied"} =>
               /\ mem'.step = mem.step /\ mem'.owner = mem.owner
               /\ mem.owner \in Mutations => mem'.job[mem.owner] = mem.job[mem.owner]
    PROVE  MutationBooks'
<1>1. CASE mem'.step \notin {"mutate", "applied"} BY <1>1 DEF MutationBooks
<1>2. CASE mem'.step \in {"mutate", "applied"}
  <2>1. MutatedKey \in Keys /\ mem.owner \in Sessions \cup Mutations
    BY <1>2, MutatedKeyIsKey DEF KeyInv, BooksInv
  <2>2. MutatedKey' = MutatedKey BY <1>2, <2>1 DEF MutatedKey
  <2>3. Zeroes' => Zeroes
    BY <1>2, <2>1, <2>2 DEF Zeroes, DataFollows, Mutations
  <2>4. mem'.step = "applied" /\ mem'.owner # "update" => MutatedKey \notin db'.due \cap db'.active
    BY <1>2 DEF KeyInv, MutationBooks, DataFollows
  <2>5. ASSUME mem'.step = "mutate", Zeroes', NEW e \in Sessions, KeyOf[e] = MutatedKey
        PROVE  e \notin db'.accepted \ db'.receipts
    <3>1. mem.step = "mutate" /\ Zeroes BY <1>2, <2>3, <2>5
    <3>2. mem.pc[e] # "accept" BY <2>5, <3>1, ZeroedKeyRests DEF KeyRests, LivePcs
    <3> QED BY <2>5, <3>1, <3>2 DEF KeyInv, MutationBooks, DataFollows
  <2> QED BY <2>2, <2>4, <2>5 DEF MutationBooks
<1> QED BY <1>1, <1>2

\* A step that leaves the fences alone.
LEMMA FollowsKeepsKeys ==
    ASSUME KeyInv, BooksInv', mem'.fence = mem.fence, mem'.resetPending = mem.resetPending,
           \A j \in Mutations : JobFollows(j), \A s \in Sessions : SessionFollows(s), DataFollows,
           mem'.step \in {"mutate", "applied"} =>
               /\ mem'.step = mem.step /\ mem'.owner = mem.owner
               /\ mem.owner \in Mutations => mem'.job[mem.owner] = mem.job[mem.owner]
    PROVE  KeyInv'
<1>1. \A k \in Keys : KeyBooks(k)' BY KeyKept
<1> QED BY <1>1, MutationKept DEF KeyInv

\* A step that leaves the databases alone follows.
LEMMA SameDataFollows == ASSUME db' = db PROVE DataFollows
  BY DEF DataFollows

\* So does an acceptance, except of a session still in flight while a key is zeroed.
LEMMA AcceptedFollows ==
    ASSUME KeyInv, NEW e \in Sessions, mem.pc[e] = "accept" \/ mem'.step # "mutate",
           db' = db \/ db' = AcceptedBy(db, e)
    PROVE  DataFollows
<1>1. db \in DatabaseType BY DEF KeyInv, BooksInv, WorkInv, TypeOK
<1> QED BY <1>1, AcceptedByEffect DEF DataFollows

\* An exception gives the lock up: the task ends and its fence goes.
LEMMA RaisedKeepsKeys ==
    ASSUME KeyInv, BooksInv', mem.owner # "free", DataFollows,
           NEW m \in MemoryType, m.pc = mem.pc, m.job = mem.job, m.owner = mem.owner,
           m.fence = mem.fence, m.resetPending = mem.resetPending, NEW p, Raised(mem', m, p)
    PROVE  KeyInv'
<1>1. /\ m.owner \in Sessions \cup Jobs /\ m.fence \in [Keys -> Fences]
      /\ m.owner \in Jobs => mem.job[m.owner].pc = "working" /\ m.owner \notin Sessions
      /\ m.owner \in Mutations => mem.job[m.owner].key \in Keys
      /\ Mutations \subseteq Jobs \ {"projector"} /\ "update" \in Mutations /\ "delete" \in Mutations
  BY AccountingNames DEF MemoryType, KeyInv, BooksInv, WorkInv, DrainOK, Mutations, Jobs
<1>2. /\ \A q \in Sessions : mem'.pc[q] = IF q = m.owner THEN "terminal" ELSE m.pc[q]
      /\ \A j \in Jobs : j # m.owner => mem'.job[j] = m.job[j]
      /\ m.owner \in Jobs \ {"projector"} => mem'.job[m.owner] = Idle
  BY <1>1, RaisedAt
<1>3. /\ mem'.step = "free" /\ mem'.resetPending = mem.resetPending /\ RaisedFence(mem', m)
  BY DEF Raised, RaisedFrame, DrainFree
<1>4. \A s \in Sessions : SessionFollows(s) BY <1>2 DEF SessionFollows, LivePcs
<1>5. \A j \in Mutations : JobFollows(j)
  <2> SUFFICES ASSUME NEW j \in Mutations PROVE JobFollows(j) OBVIOUS
  <2>1. CASE j = m.owner BY <1>1, <1>2, <2>1 DEF JobFollows, Idle
  <2>2. CASE j # m.owner BY <1>1, <1>2, <2>2 DEF JobFollows
  <2> QED BY <2>1, <2>2
<1>6. MutationBooks' BY <1>3 DEF MutationBooks
<1>7. ASSUME NEW k \in Keys PROVE KeyBooks(k)'
  <2>1. KeyBooks(k) BY DEF KeyInv
  <2>2. CASE mem'.fence[k] = mem.fence[k] BY <1>3, <1>4, <1>5, <2>2, KeyKept
  <2>3. CASE mem'.fence[k] # mem.fence[k]
    <3>1. CASE m.owner = "update" /\ mem'.fence = Lifted(m.fence, m.job["update"].key, "none")
      <4>1. mem.job["update"].key = k BY <1>1, <2>3, <3>1, LiftedAt
      <4>2. Works("update", k) BY <1>1, <3>1, <4>1 DEF Works
      <4>3. k \notin mem.resetPending /\ ~ Works("delete", k) BY <2>1, <4>2 DEF KeyBooks
      <4>4. ~ Works("update", k)' BY <1>1, <1>2, <3>1 DEF Works, Idle
      <4>5. ~ Works("delete", k)' BY <1>1, <1>5, <4>3 DEF Works, JobFollows
      <4> QED BY <1>3, <1>4, <1>5, <4>3, <4>4, <4>5, KeyFreed
    <3>2. CASE /\ m.owner = "delete"
               /\ mem'.fence = Lifted(m.fence, m.job["delete"].key,
                                      IF m.job["delete"].flag THEN "reset" ELSE "none")
      <4>1. mem.job["delete"].key = k /\ (mem.job["delete"].flag => mem'.fence[k] = "reset")
        BY <1>1, <2>3, <3>2, LiftedAt
      <4>2. Works("delete", k) BY <1>1, <3>2, <4>1 DEF Works
      <4>3. (k \in mem.resetPending => mem.job["delete"].flag) /\ ~ Works("update", k)
        BY <2>1, <4>2 DEF KeyBooks
      <4>4. ~ Works("delete", k)' BY <1>1, <1>2, <3>2 DEF Works, Idle
      <4>5. ~ Works("update", k)' BY <1>1, <1>5, <4>3 DEF Works, JobFollows
      <4> QED BY <1>3, <1>4, <1>5, <4>1, <4>3, <4>4, <4>5, KeyFreed
    <3> QED BY <1>3, <2>3, <3>1, <3>2 DEF RaisedFence
  <2> QED BY <2>2, <2>3
<1> QED BY <1>6, <1>7 DEF KeyInv

\* The keys' books, through the steps of requests.
LEMMA RequestsKeepKeys ==
    ASSUME KeyInv, BooksInv', NEW s \in Sessions,
           \/ Reserve(s) \/ Release(s) \/ ReleaseSession(s)
           \/ Commit(s) \/ SourceAccept(s) \/ SourceAnswered(s) \/ RetryResolved(s)
    PROVE  KeyInv'
<1>0. /\ WorkInv /\ mem \in MemoryType /\ db \in DatabaseType /\ mem.pc \in [Sessions -> SessionPcs]
  BY DEF KeyInv, BooksInv, WorkInv, TypeOK, MemoryType
<1>1. ASSUME RequestStep(mem', mem), DataFollows, \A q \in Sessions : SessionFollows(q)
      PROVE  KeyInv'
  <2>1. /\ mem'.job = mem.job /\ mem'.fence = mem.fence /\ mem'.resetPending = mem.resetPending
        /\ mem'.step = mem.step /\ mem'.owner = mem.owner
    BY <1>1 DEF RequestStep, SameKeys, SameDrain
  <2>2. \A j \in Mutations : JobFollows(j) BY <2>1 DEF JobFollows
  <2> QED BY <1>1, <2>1, <2>2, FollowsKeepsKeys
<1>2. ASSUME NEW pc, mem'.pc = [mem.pc EXCEPT ![s] = pc], mem.pc[s] \in LivePcs, pc # "resetting"
      PROVE  \A q \in Sessions : SessionFollows(q)
  BY <1>0, <1>2 DEF SessionFollows
<1>3. ASSUME Leaves(mem', mem, s) PROVE \A q \in Sessions : SessionFollows(q)
  BY <1>0, <1>3, LeavesAt DEF SessionFollows, LivePcs
<1>4. CASE Reserve(s)
  <2>1. /\ RequestStep(mem', mem) /\ db' = db /\ mem.fence[KeyOf[s]] = "none"
        /\ mem'.pc = mem.pc \/ mem'.pc = [mem.pc EXCEPT ![s] = "reserved"]
    BY <1>0, <1>4, ReserveEffect
  <2>2. /\ mem'.job = mem.job /\ mem'.fence = mem.fence /\ mem'.resetPending = mem.resetPending
        /\ mem'.step = mem.step /\ mem'.owner = mem.owner
    BY <2>1 DEF RequestStep, SameKeys, SameDrain
  <2>3. MutationBooks' BY <2>1, <2>2, SameDataFollows, MutationKept
  <2>4. ASSUME NEW k \in Keys PROVE KeyBooks(k)'
    <3>1. /\ KeyBooks(k) /\ (Works("update", k)' <=> Works("update", k))
          /\ (Works("delete", k)' <=> Works("delete", k))
      BY <2>2 DEF KeyInv, Works
    <3>2. Resetting(k)' => Resetting(k) BY <1>0, <2>1, <2>2 DEF Resetting
    <3>3. KeyOf[s] # k => (KeyRests(k) => KeyRests(k)') BY <1>0, <2>1 DEF KeyRests
    <3>4. KeyOf[s] = k => mem.fence[k] = "none" BY <2>1
    <3> QED BY <2>1, <2>2, <3>1, <3>2, <3>3, <3>4 DEF KeyBooks
  <2> QED BY <2>3, <2>4 DEF KeyInv
<1>5. CASE Release(s)
  <2>1. RequestStep(mem', mem) /\ db' = db /\ mem.pc[s] \in LivePcs
        /\ mem'.pc = [mem.pc EXCEPT ![s] = "releasing"]
    BY <1>0, <1>5, ReleaseStepEffect DEF LivePcs
  <2> QED BY <1>1, <1>2, <2>1, SameDataFollows
<1>6. CASE ReleaseSession(s)
  <2>1. RequestStep(mem', mem) /\ db' = db /\ Leaves(mem', mem, s)
    BY <1>0, <1>6, ReleaseSessionEffect
  <2> QED BY <1>1, <1>3, <2>1, SameDataFollows
<1>7. CASE Commit(s)
  <2>1. RequestStep(mem', mem) /\ db' = db /\ mem.pc[s] \in LivePcs
        /\ mem'.pc = [mem.pc EXCEPT ![s] = "accept"]
    BY <1>0, <1>7, CommitEffect DEF LivePcs
  <2> QED BY <1>1, <1>2, <2>1, SameDataFollows
<1>8. CASE SourceAccept(s)
  <2>1. /\ RequestStep(mem', mem) /\ mem.pc[s] = "accept" /\ mem.pc[s] \in LivePcs
        /\ mem'.pc = [mem.pc EXCEPT ![s] = "answered"]
        /\ db' = db \/ db' = AcceptedBy(db, s)
    BY <1>0, <1>8, SourceAcceptEffect DEF LivePcs
  <2>2. DataFollows BY <2>1, AcceptedFollows
  <2> QED BY <1>1, <1>2, <2>1, <2>2
<1>9. CASE SourceAnswered(s)
  <2>1. /\ RequestStep(mem', mem) /\ db' = db /\ mem.pc[s] \in LivePcs
        /\ AnswerAccepted(s) \/ AnswerTransient(s) \/ AnswerPermanent(s)
    BY <1>0, <1>9, SourceAnsweredEffect DEF LivePcs
  <2>2. \/ mem'.pc = [mem.pc EXCEPT ![s] = "project"]
        \/ mem'.pc = [mem.pc EXCEPT ![s] = "retrying"]
        \/ Leaves(mem', mem, s)
    BY <2>1 DEF AnswerAccepted, AnswerTransient, AnswerPermanent
  <2>3. \A q \in Sessions : SessionFollows(q) BY <1>2, <1>3, <2>1, <2>2
  <2> QED BY <1>1, <2>1, <2>3, SameDataFollows
<1>10. CASE RetryResolved(s)
  <2>1. RequestStep(mem', mem) /\ db' = db /\ Leaves(mem', mem, s)
    BY <1>0, <1>10, RetryResolvedEffect
  <2> QED BY <1>1, <1>3, <2>1, SameDataFollows
<1> QED BY <1>4, <1>5, <1>6, <1>7, <1>8, <1>9, <1>10

\* The keys' books, through the steps of a pass.
LEMMA PassesKeepKeys ==
    ASSUME KeyInv, BooksInv',
           \/ \E o \in Sessions \cup Jobs : TakeDrain(o)
           \/ RetainedBatch \/ PassEnds \/ ListPending
           \/ \E e \in Sessions : RetryAccept(e) \/ DrainPending(e)
           \/ ApplySpendEvent \/ MarkProjected \/ MarkFailed
    PROVE  KeyInv'
<1>0. /\ WorkInv /\ mem \in MemoryType /\ db \in DatabaseType /\ mem.job \in [Jobs -> JobType]
      /\ mem.pc \in [Sessions -> SessionPcs]
  BY DEF KeyInv, BooksInv, WorkInv, TypeOK, MemoryType
<1>1. ASSUME DataFollows, mem'.pc = mem.pc, mem'.job = mem.job, SameKeys(mem', mem),
             mem'.step \notin {"mutate", "applied"}
      PROVE  KeyInv'
  <2>1. mem'.fence = mem.fence /\ mem'.resetPending = mem.resetPending BY <1>1 DEF SameKeys
  <2>2. \A s \in Sessions : SessionFollows(s) BY <1>1 DEF SessionFollows
  <2>3. \A j \in Mutations : JobFollows(j) BY <1>1 DEF JobFollows
  <2> QED BY <1>1, <2>1, <2>2, <2>3, FollowsKeepsKeys
<1>2. ASSUME DataFollows, PassStep(mem', mem), mem'.step \notin {"mutate", "applied"}
      PROVE  KeyInv'
  BY <1>1, <1>2 DEF PassStep
<1>3. ASSUME NEW p, Raised(mem', mem, p), mem.owner # "free", DataFollows PROVE KeyInv'
  BY <1>0, <1>3, RaisedKeepsKeys
<1>4. ASSUME NEW o \in Sessions \cup Jobs, TakeDrain(o) PROVE KeyInv'
  <2>1. /\ mem'.pc = mem.pc /\ SameKeys(mem', mem) /\ db' = db /\ mem'.owner = o
        /\ \/ mem'.job = mem.job /\ mem'.step \in {"sink", "retained"}
           \/ /\ o \in Jobs /\ mem.job[o].pc = "lock" /\ mem'.job = Moved(mem.job, o, "working")
              /\ mem'.step = FirstStep(o)
    BY <1>0, <1>4, TakeDrainEffect
  <2>2. DataFollows BY <2>1, SameDataFollows
  <2>3. CASE mem'.job = mem.job /\ mem'.step \in {"sink", "retained"}
    BY <1>1, <2>1, <2>2, <2>3
  <2>4. CASE /\ o \in Jobs /\ mem.job[o].pc = "lock" /\ mem'.job = Moved(mem.job, o, "working")
             /\ mem'.step = FirstStep(o)
    <3>1. \A j \in Mutations : JobFollows(j)
      <4>1. Mutations \subseteq Jobs BY DEF Mutations, Jobs
      <4> QED BY <1>0, <2>4, <4>1, MovedAt DEF JobFollows
    <3>2. \A s \in Sessions : SessionFollows(s) BY <2>1 DEF SessionFollows
    <3>3. mem'.fence = mem.fence /\ mem'.resetPending = mem.resetPending BY <2>1 DEF SameKeys
    <3>4. mem'.step # "applied" /\ (mem'.step = "mutate" => o = "delete")
      BY <2>4 DEF FirstStep
    <3>5. "delete" \notin Sessions BY AccountingNames DEF Jobs
    <3>6. MutationBooks' BY <2>1, <3>4, <3>5 DEF MutationBooks, Zeroes
    <3>7. \A k \in Keys : KeyBooks(k)' BY <2>2, <3>1, <3>2, <3>3, KeyKept
    <3> QED BY <3>6, <3>7 DEF KeyInv
  <2> QED BY <2>1, <2>3, <2>4
<1>5. CASE RetainedBatch
  <2>1. PassStep(mem', mem) /\ db' = db /\ mem'.step \in {"retained", "list"}
    BY <1>0, <1>5, RetainedBatchEffect
  <2> QED BY <1>2, <2>1, SameDataFollows
<1>6. CASE PassEnds
  <2>1. PassStep(mem', mem) /\ db' = db /\ mem'.step = "drained" BY <1>0, <1>6, PassEndsEffect
  <2> QED BY <1>2, <2>1, SameDataFollows
<1>7. CASE ListPending
  <2>1. /\ db' = db /\ mem.owner # "free"
        /\ \/ PassStep(mem', mem) /\ mem'.step = "pending"
           \/ \E p \in BOOLEAN : Raised(mem', mem, p)
    BY <1>0, <1>7, ListPendingEffect
  <2> QED BY <1>2, <1>3, <2>1, SameDataFollows
<1>8. ASSUME NEW e \in Sessions, RetryAccept(e) PROVE KeyInv'
  <2>1. /\ mem.step = "retained" /\ mem.owner # "free" /\ (db' = db \/ db' = AcceptedBy(db, e))
        /\ \/ RetryReceipt(mem', mem, e) \/ RetryProjects(mem', mem, e)
           \/ RetryFails(mem', mem, e) \/ Raised(mem', Dropped(mem, e), TRUE)
    BY <1>0, <1>8, RetryAcceptEffect
  <2>2. CASE RetryReceipt(mem', mem, e) \/ RetryProjects(mem', mem, e)
    <3>1. /\ mem'.step \in {"retained", "sink"} /\ mem'.pc = mem.pc /\ mem'.job = mem.job
          /\ SameKeys(mem', mem)
      BY <2>1, <2>2 DEF RetryReceipt, RetryProjects, RetryStored
    <3> QED BY <1>1, <2>1, <3>1, AcceptedFollows
  <2>3. CASE RetryFails(mem', mem, e)
    <3>1. /\ mem'.step = "retained" /\ mem'.pc = mem.pc /\ mem'.job = mem.job
          /\ SameKeys(mem', mem)
      BY <2>1, <2>3 DEF RetryFails
    <3> QED BY <1>1, <2>1, <3>1, AcceptedFollows
  <2>4. CASE Raised(mem', Dropped(mem, e), TRUE)
    <3> DEFINE m == Dropped(mem, e)
    <3>1. /\ m \in MemoryType /\ m.pc = mem.pc /\ m.job = mem.job /\ m.owner = mem.owner
          /\ m.fence = mem.fence /\ m.resetPending = mem.resetPending
      BY <1>0, DroppedEffect DEF SameKeys
    <3> HIDE DEF m
    <3>2. Raised(mem', m, TRUE) BY <2>4 DEF m
    <3>3. mem'.step = "free" BY <3>2 DEF Raised, RaisedFrame, DrainFree
    <3>4. DataFollows BY <2>1, <3>3, AcceptedFollows
    <3> QED BY <2>1, <3>1, <3>2, <3>4, RaisedKeepsKeys
  <2> QED BY <2>1, <2>2, <2>3, <2>4
<1>9. ASSUME NEW e \in Sessions, DrainPending(e) PROVE KeyInv'
  <2>1. /\ db' = db /\ mem.owner # "free"
        /\ \/ mem'.pc = mem.pc /\ mem'.job = mem.job /\ SameKeys(mem', mem) /\ mem'.step = "sink"
           \/ Raised(mem', mem, FALSE)
    BY <1>0, <1>9, DrainPendingEffect
  <2> QED BY <1>1, <1>3, <2>1, SameDataFollows
<1>10. CASE ApplySpendEvent
  <2>1. /\ PassStep(mem', mem) /\ mem'.step \in {"mark", "fail"} /\ mem.ev \in Sessions
        /\ db' = db \/ db' = AppliedBy(db, mem.ev)
    BY <1>0, <1>10, ApplySpendEffect DEF WorkInv, DrainOK, Projecting, DatabaseType
  <2>2. DataFollows
    <3>1. ASSUME db' = AppliedBy(db, mem.ev) PROVE db'.due = db.due /\ db'.active = db.active
      BY <1>0, <2>1, <3>1, AppliedByEffect
    <3> QED BY <2>1, <3>1 DEF DataFollows
  <2> QED BY <1>2, <2>1, <2>2
<1>11. CASE MarkProjected \/ MarkFailed
  <2>1. /\ mem.step \in {"mark", "fail"} /\ mem.ev \in Sessions /\ mem.owner # "free"
        /\ db' = db \/ db' = ProjectedBy(db, mem.ev)
    BY <1>0, <1>11, VerdictEffect
  <2>2. DataFollows BY <1>0, <2>1, ProjectedByEffect DEF DataFollows
  <2>3. PICK m, res : Verdict(m) /\ ProjectionEnds(mem', m, res)
    BY <1>0, <1>11, VerdictEffect
  <2>4. /\ m \in MemoryType /\ m.pc = mem.pc /\ m.job = mem.job /\ m.owner = mem.owner
        /\ m.fence = mem.fence /\ m.resetPending = mem.resetPending /\ SameKeys(m, mem)
        /\ m.ev = mem.ev /\ m.from \in {"session", "retained", "pending"}
    BY <2>3 DEF Verdict, SameDrain, SameKeys, MemoryType
  <2>5. CASE m.from = "session"
    <3>1. EndsSession(mem', m, res) BY <2>3, <2>5 DEF ProjectionEnds
    <3>2. /\ mem'.job = mem.job /\ mem'.fence = mem.fence /\ mem'.resetPending = mem.resetPending
          /\ mem'.step = "free" /\ Leaves(mem', m, mem.ev)
      BY <2>4, <3>1 DEF EndsSession, SameKeys, DrainFree
    <3>3. \A s \in Sessions : SessionFollows(s)
      BY SMTT(30), <2>1, <2>4, <3>2, LeavesAt DEF SessionFollows, LivePcs
    <3>4. \A j \in Mutations : JobFollows(j) BY <3>2 DEF JobFollows
    <3> QED BY <2>2, <3>2, <3>3, <3>4, FollowsKeepsKeys
  <2>6. CASE m.from # "session" /\ res = "permanent"
    <3>1. Raised(mem', m, TRUE) BY <2>3, <2>6 DEF ProjectionEnds
    <3> QED BY <2>1, <2>2, <2>4, <3>1, RaisedKeepsKeys
  <2>7. CASE m.from # "session" /\ res # "permanent"
    <3>1. Resumes(mem', m) BY <2>3, <2>7 DEF ProjectionEnds
    <3>2. mem'.pc = mem.pc /\ mem'.job = mem.job /\ SameKeys(mem', mem) /\ mem'.step = m.from
      BY <2>4, <3>1 DEF Resumes, SameKeys
    <3> QED BY <1>1, <2>2, <2>4, <3>2
  <2> QED BY <2>5, <2>6, <2>7
<1> QED BY <1>4, <1>5, <1>6, <1>7, <1>8, <1>9, <1>10, <1>11

\* The keys' books, through the steps of start, projector and stop.
LEMMA TasksKeepKeys ==
    ASSUME KeyInv, BooksInv',
           \/ Start \/ StartDrained \/ StartAudited
           \/ ProjectorTurn \/ ProjectorDrained
           \/ Stop \/ StopBegins \/ StopSessionsDone \/ StopProjectorJoined
           \/ StopDrained \/ StopAudited
    PROVE  KeyInv'
<1>0. /\ WorkInv /\ mem \in MemoryType /\ mem.job \in [Jobs -> JobType]
      /\ "start" \in Jobs /\ "projector" \in Jobs /\ "stop" \in Jobs
      /\ Mutations \subseteq Jobs \ {"start", "projector", "stop"}
      /\ "free" \notin {"start", "projector", "stop"}
  BY DEF KeyInv, BooksInv, WorkInv, TypeOK, MemoryType, Jobs, Mutations
<1>1. ASSUME db' = db, TaskStep(mem', mem),
             SameDrain(mem', mem) \/ mem'.step \in {"free", "audit"},
             \A j \in Mutations : mem'.job[j] = mem.job[j]
      PROVE  KeyInv'
  <2>1. mem'.fence = mem.fence /\ mem'.resetPending = mem.resetPending /\ mem'.pc = mem.pc
    BY <1>1 DEF TaskStep, SameKeys
  <2>2. \A s \in Sessions : SessionFollows(s) BY <2>1 DEF SessionFollows
  <2>3. \A j \in Mutations : JobFollows(j) BY <1>1 DEF JobFollows
  <2>4. mem'.step \in {"mutate", "applied"} => mem'.step = mem.step /\ mem'.owner = mem.owner
    BY <1>1 DEF SameDrain
  <2>5. DataFollows BY <1>1, SameDataFollows
  <2> QED BY <1>1, <2>1, <2>2, <2>3, <2>4, <2>5, FollowsKeepsKeys
<1>2. ASSUME NEW p, Raised(mem', mem, p), mem.owner # "free", db' = db PROVE KeyInv'
  BY <1>0, <1>2, SameDataFollows, RaisedKeepsKeys
<1>3. ASSUME db' = db, PassStep(mem', mem), mem'.step = "audit" PROVE KeyInv'
  <2>1. TaskStep(mem', mem) /\ mem'.job = mem.job BY <1>3 DEF PassStep, TaskStep
  <2> QED BY <1>1, <1>3, <2>1
<1>4. ASSUME NEW j \in {"start", "projector", "stop"}, NEW pc
      PROVE  \A i \in Mutations : Moved(mem.job, j, pc)[i] = mem.job[i]
  BY <1>0, MovedAt
<1>5. ASSUME NEW j \in {"start", "projector", "stop"}
      PROVE  \A i \in Mutations : Ended(mem.job, j)[i] = mem.job[i]
  BY <1>0, EndedAt
<1>6. ASSUME NEW jobs, LeavesDrain(mem', mem, jobs), db' = db,
             \A i \in Mutations : jobs[i] = mem.job[i]
      PROVE  KeyInv'
  BY <1>1, <1>6 DEF LeavesDrain, DrainFree
<1>7. ASSUME NEW jobs, JobStep(mem', mem, jobs), db' = db,
             \A i \in Mutations : jobs[i] = mem.job[i]
      PROVE  KeyInv'
  BY <1>1, <1>7 DEF JobStep
<1>8. CASE Start
  <2>1. /\ db' = db /\ TaskStep(mem', mem) /\ SameDrain(mem', mem)
        /\ mem'.job = Moved(mem.job, "start", "lock")
    BY <1>0, <1>8, StartEffect
  <2> QED BY <1>1, <1>4, <2>1
<1>9. CASE StartDrained \/ StartAudited
  <2>1. /\ db' = db /\ mem.owner = "start"
        /\ \/ PassStep(mem', mem) /\ mem'.step = "audit"
           \/ StartOpens(mem', mem) \/ StartEnds(mem', mem) \/ Raised(mem', mem, FALSE)
    BY <1>0, <1>9, StartWorkEffect
  <2>2. CASE StartOpens(mem', mem)
    <3> DEFINE mv == Moved(mem.job, "projector", "wait")
    <3>1. mv \in [Jobs -> JobType] BY <1>0 DEF Moved, JobType, JobPcs
    <3>2. \A i \in Mutations : mv[i] = mem.job[i] BY <1>4
    <3> HIDE DEF mv
    <3>3. \A i \in Mutations : Ended(mv, "start")[i] = mem.job[i] BY <1>0, <3>1, <3>2, EndedAt
    <3>4. LeavesDrain(mem', mem, Ended(mv, "start")) BY <2>2 DEF StartOpens, mv
    <3> QED BY <1>6, <2>1, <3>3, <3>4
  <2>3. CASE StartEnds(mem', mem) BY <1>5, <1>6, <2>1, <2>3 DEF StartEnds
  <2> QED BY <1>0, <1>2, <1>3, <2>1, <2>2, <2>3
<1>10. CASE ProjectorTurn
  <2>1. db' = db BY <1>0, <1>10, ProjectorTurnEffect
  <2>2. PICK pc \in {"exited", "lock"} : JobStep(mem', mem, Moved(mem.job, "projector", pc))
    BY <1>0, <1>10, ProjectorTurnEffect
  <2> QED BY <1>4, <1>7, <2>1, <2>2
<1>11. CASE ProjectorDrained
  <2>1. db' = db /\ LeavesDrain(mem', mem, Moved(mem.job, "projector", "wait"))
    BY <1>0, <1>11, ProjectorDrainedEffect
  <2> QED BY <1>4, <1>6, <2>1
<1>12. CASE Stop
  <2>1. /\ db' = db
        /\ JobStep(mem', mem, mem.job) \/ JobStep(mem', mem, Moved(mem.job, "stop", "start"))
    BY <1>0, <1>12, StopEffect
  <2> QED BY <1>4, <1>7, <2>1
<1>13. CASE StopBegins
  <2>1. db' = db /\ JobStep(mem', mem, Moved(mem.job, "stop", "sessions"))
    BY <1>0, <1>13, StopBeginsEffect
  <2> QED BY <1>4, <1>7, <2>1
<1>14. CASE StopSessionsDone
  <2>1. db' = db /\ JobStep(mem', mem, Moved(mem.job, "stop", "projector"))
    BY <1>0, <1>14, StopSessionsDoneEffect
  <2> QED BY <1>4, <1>7, <2>1
<1>15. CASE StopProjectorJoined
  <2> DEFINE en == Ended(mem.job, "projector")
  <2>1. db' = db /\ JobStep(mem', mem, Moved(en, "stop", "lock"))
    BY <1>0, <1>15, StopProjectorJoinedEffect
  <2>2. en \in [Jobs -> JobType] BY <1>0 DEF Ended, Idle, JobType, JobPcs
  <2>3. \A i \in Mutations : en[i] = mem.job[i] BY <1>5
  <2> HIDE DEF en
  <2>4. \A i \in Mutations : Moved(en, "stop", "lock")[i] = mem.job[i]
    BY <1>0, <2>2, <2>3, MovedAt
  <2> QED BY <1>7, <2>1, <2>4
<1>16. CASE StopDrained \/ StopAudited
  <2>1. /\ db' = db /\ mem.owner = "stop"
        /\ \/ PassStep(mem', mem) /\ mem'.step = "audit"
           \/ LeavesDrain(mem', mem, Ended(mem.job, "stop"))
           \/ Raised(mem', mem, FALSE)
    BY <1>0, <1>16, StopWorkEffect
  <2> QED BY <1>0, <1>2, <1>3, <1>5, <1>6, <2>1
<1> QED BY <1>8, <1>9, <1>10, <1>11, <1>12, <1>13, <1>14, <1>15, <1>16

\* An administrator's task begins on a key.
LEMMA BeginKeepsKeys ==
    ASSUME KeyInv, BooksInv', NEW k0 \in Keys,
           \/ \E reset \in BOOLEAN : UpdateKey(k0, reset)
           \/ ListDueBudgets(k0) \/ DeleteKey(k0)
    PROVE  KeyInv'
<1>0. /\ WorkInv /\ mem \in MemoryType /\ mem.job \in [Jobs -> JobType]
      /\ mem.fence \in [Keys -> Fences] /\ Mutations \subseteq Jobs
      /\ "update" \in Mutations /\ "delete" \in Mutations /\ "reset" \in Mutations
      /\ mem.owner \in Jobs => mem.job[mem.owner].pc = "working"
  BY DEF KeyInv, BooksInv, WorkInv, TypeOK, MemoryType, Jobs, Mutations, DrainOK
<1>1. ASSUME NEW j \in Mutations, NEW r, KeyStep(mem', mem), db' = db,
             mem.job[j].pc = "idle", mem'.job = Begun(mem.job, j, r)
      PROVE  /\ mem'.job[j] = r /\ \A i \in Jobs : i # j => mem'.job[i] = mem.job[i]
             /\ MutationBooks'
             /\ \A k \in Keys : KeyBooks(k) /\ (KeyRests(k)' <=> KeyRests(k))
  <2>1. mem'.job[j] = r /\ \A i \in Jobs : i # j => mem'.job[i] = mem.job[i]
    BY <1>0, <1>1, BegunAt
  <2>2. /\ mem'.pc = mem.pc /\ mem'.step = mem.step /\ mem'.owner = mem.owner
        /\ mem.owner \in Mutations => mem'.job[mem.owner] = mem.job[mem.owner]
    BY <1>0, <1>1, <2>1 DEF KeyStep, SameDrain
  <2>3. MutationBooks' BY <1>1, <2>2, SameDataFollows, MutationKept
  <2>4. \A k \in Keys : KeyBooks(k) /\ (KeyRests(k)' <=> KeyRests(k))
    BY <2>2 DEF KeyInv, KeyRests
  <2> QED BY <2>1, <2>3, <2>4
<1>2. ASSUME NEW reset \in BOOLEAN, UpdateKey(k0, reset) PROVE KeyInv'
  <2> DEFINE r == [pc |-> "lock", key |-> k0, flag |-> reset]
  <2>1. /\ db' = db /\ KeyStep(mem', mem) /\ mem.job["update"].pc = "idle"
        /\ mem.fence[k0] = "none" /\ (reset => ActiveByKey(mem, k0) = {})
        /\ mem'.fence = Lifted(mem.fence, k0, "in_flight")
        /\ mem'.resetPending = mem.resetPending /\ mem'.job = Begun(mem.job, "update", r)
    BY <1>0, <1>2, UpdateKeyEffect
  <2>2. /\ mem'.job["update"] = r /\ MutationBooks'
        /\ mem'.job["reset"] = mem.job["reset"] /\ mem'.job["delete"] = mem.job["delete"]
        /\ \A k \in Keys : KeyBooks(k) /\ (KeyRests(k)' <=> KeyRests(k))
    BY <1>0, <1>1, <2>1
  <2>3. mem'.fence[k0] = "in_flight" /\ \A k \in Keys : k # k0 => mem'.fence[k] = mem.fence[k]
    BY <1>0, <2>1, LiftedAt
  <2>4. ASSUME NEW k \in Keys PROVE KeyBooks(k)'
    <3>1. (Resetting(k)' <=> Resetting(k)) /\ (Works("delete", k)' <=> Works("delete", k))
      BY <2>1, <2>2 DEF Resetting, Works, KeyStep
    <3>2. Works("update", k)' => k = k0 BY <2>2 DEF Works
    <3>3. k = k0 /\ reset => KeyRests(k) BY <2>1 DEF KeyRests, ActiveByKey, Live
    <3> QED BY <2>1, <2>2, <2>3, <3>1, <3>2, <3>3 DEF KeyBooks
  <2> QED BY <2>2, <2>4 DEF KeyInv
<1>3. CASE ListDueBudgets(k0)
  <2> DEFINE r == [pc |-> "listed", key |-> k0, flag |-> FALSE]
  <2>1. /\ db' = db /\ KeyStep(mem', mem) /\ mem.job["reset"].pc = "idle"
        /\ mem'.fence = mem.fence /\ mem'.resetPending = mem.resetPending
        /\ mem'.job = Begun(mem.job, "reset", r)
    BY <1>0, <1>3, ListDueEffect DEF SameKeys
  <2>2. /\ mem'.job["reset"] = r /\ MutationBooks'
        /\ mem'.job["update"] = mem.job["update"] /\ mem'.job["delete"] = mem.job["delete"]
        /\ \A k \in Keys : KeyBooks(k) /\ (KeyRests(k)' <=> KeyRests(k))
    BY <1>0, <1>1, <2>1
  <2>3. ASSUME NEW k \in Keys PROVE KeyBooks(k)'
    <3>1. /\ Resetting(k)' => Resetting(k)
          /\ Works("delete", k)' <=> Works("delete", k)
          /\ Works("update", k)' <=> Works("update", k)
      BY <2>1, <2>2 DEF Resetting, Works, KeyStep
    <3> QED BY <2>1, <2>2, <3>1 DEF KeyBooks
  <2> QED BY <2>2, <2>3 DEF KeyInv
<1>4. CASE DeleteKey(k0)
  <2> DEFINE r == [pc |-> "lock", key |-> k0, flag |-> k0 \in mem.resetPending]
  <2>1. /\ db' = db /\ KeyStep(mem', mem) /\ mem.job["delete"].pc = "idle"
        /\ mem.fence[k0] = "none" \/ k0 \in mem.resetPending
        /\ mem'.fence = Lifted(mem.fence, k0, "closed")
        /\ mem'.resetPending = mem.resetPending /\ mem'.job = Begun(mem.job, "delete", r)
    BY <1>0, <1>4, DeleteKeyEffect
  <2>2. /\ mem'.job["delete"] = r /\ MutationBooks'
        /\ mem'.job["reset"] = mem.job["reset"] /\ mem'.job["update"] = mem.job["update"]
        /\ \A k \in Keys : KeyBooks(k) /\ (KeyRests(k)' <=> KeyRests(k))
    BY <1>0, <1>1, <2>1
  <2>3. mem'.fence[k0] = "closed" /\ \A k \in Keys : k # k0 => mem'.fence[k] = mem.fence[k]
    BY <1>0, <2>1, LiftedAt
  <2>4. ASSUME NEW k \in Keys PROVE KeyBooks(k)'
    <3>1. (Resetting(k)' <=> Resetting(k)) /\ (Works("update", k)' <=> Works("update", k))
      BY <2>1, <2>2 DEF Resetting, Works, KeyStep
    <3>2. Works("delete", k)' => k = k0 BY <2>2 DEF Works
    <3>3. k = k0 => ~ Works("update", k) BY <2>1, <2>2 DEF KeyBooks
    <3>4. mem'.job["delete"].flag = (k0 \in mem.resetPending) BY <2>2
    <3> HIDE DEF r
    <3>5. Works("delete", k)' =>
              mem'.fence[k] = "closed" /\ (k \in mem'.resetPending => mem'.job["delete"].flag)
      BY <2>1, <2>3, <3>2, <3>4
    <3>6. k \in mem'.resetPending => mem'.fence[k] \in {"reset", "closed"}
      BY <2>1, <2>2, <2>3 DEF KeyBooks
    <3>7. Works("update", k)' =>
              mem'.fence[k] = "in_flight" /\ (mem'.job["update"].flag => KeyRests(k)')
      BY <2>2, <2>3, <3>1, <3>3 DEF KeyBooks
    <3>8. k \in db'.due \cap db'.active /\ Resetting(k)' => k \in mem'.resetPending /\ KeyRests(k)'
      BY <2>1, <2>2, <3>1 DEF KeyBooks
    <3> QED BY <3>5, <3>6, <3>7, <3>8 DEF KeyBooks
  <2> QED BY <2>2, <2>4 DEF KeyInv
<1> QED BY <1>2, <1>3, <1>4

\* The due key is fenced, and reset when it has no request under way.
LEMMA FenceKeepsKeys ==
    ASSUME KeyInv, BooksInv', FenceDueKey
    PROVE  KeyInv'
<1> DEFINE k0 == mem.job["reset"].key
<1>0. /\ WorkInv /\ mem \in MemoryType /\ mem.job \in [Jobs -> JobType]
      /\ mem.fence \in [Keys -> Fences] /\ Mutations \subseteq Jobs /\ "reset" \in Jobs
      /\ mem.owner \in Jobs => mem.job[mem.owner].pc = "working"
  BY DEF KeyInv, BooksInv, WorkInv, TypeOK, MemoryType, Jobs, Mutations, DrainOK
<1>1. /\ db' = db /\ KeyStep(mem', mem) /\ mem.job["reset"].pc = "listed" /\ k0 \in Keys
      /\ DueSkipped(mem', mem) \/ DueFenced(mem', mem)
  BY <1>0, FenceDueEffect
<1>2. mem'.job = Ended(mem.job, "reset") \/ mem'.job = Moved(mem.job, "reset", "lock")
  BY <1>1 DEF DueSkipped, DueFenced
<1>3. \A i \in Jobs : i # "reset" => mem'.job[i] = mem.job[i]
  BY <1>0, <1>2, EndedAt, MovedAt
<1>4. /\ mem'.pc = mem.pc /\ mem'.step = mem.step /\ mem'.owner = mem.owner
      /\ mem.owner \in Mutations => mem'.job[mem.owner] = mem.job[mem.owner]
  BY <1>0, <1>1, <1>3 DEF KeyStep, SameDrain
<1>5. DataFollows /\ \A s \in Sessions : SessionFollows(s)
  BY <1>1, <1>4, SameDataFollows DEF SessionFollows
<1>6. CASE DueSkipped(mem', mem)
  <2>1. /\ mem'.fence = mem.fence /\ mem'.resetPending = mem.resetPending
        /\ mem'.job = Ended(mem.job, "reset")
    BY <1>6 DEF DueSkipped, SameKeys
  <2>2. \A j \in Mutations : JobFollows(j) BY <1>0, <1>3, <2>1, EndedAt DEF JobFollows, Idle
  <2> QED BY <1>4, <1>5, <2>1, <2>2, FollowsKeepsKeys
<1>7. CASE DueFenced(mem', mem)
  <2>1. /\ mem.fence[k0] \in {"none", "reset"} /\ mem'.fence = Lifted(mem.fence, k0, "reset")
        /\ mem'.resetPending = mem.resetPending \cup {k0}
        /\ \/ mem'.job = Ended(mem.job, "reset")
           \/ mem'.job = Moved(mem.job, "reset", "lock") /\ ActiveByKey(mem, k0) = {}
    BY <1>7 DEF DueFenced
  <2>2. mem'.fence[k0] = "reset" /\ \A k \in Keys : k # k0 => mem'.fence[k] = mem.fence[k]
    BY <1>0, <1>1, <2>1, LiftedAt
  <2>3. MutationBooks' BY <1>4, <1>5, MutationKept
  <2>4. mem'.job["reset"].pc \in {"lock", "working"} =>
            mem'.job["reset"].key = k0 /\ ActiveByKey(mem, k0) = {}
    BY <1>0, <2>1, EndedAt, MovedAt DEF Idle
  <2>5. ASSUME NEW k \in Keys PROVE KeyBooks(k)'
    <3>1. KeyBooks(k) /\ (KeyRests(k)' <=> KeyRests(k)) BY <1>4 DEF KeyInv, KeyRests
    <3>2. /\ Works("update", k)' <=> Works("update", k)
          /\ Works("delete", k)' <=> Works("delete", k)
          /\ mem'.job["delete"] = mem.job["delete"] /\ mem'.job["update"] = mem.job["update"]
      BY <1>3 DEF Works, Jobs
    <3>3. ActiveByKey(mem, k0) = {} /\ k = k0 => KeyRests(k)
      BY DEF KeyRests, ActiveByKey, Live
    <3>4. Resetting(k)' => Resetting(k) \/ (k = k0 /\ KeyRests(k))
      BY <1>4, <2>4, <3>3 DEF Resetting
    <3> QED BY <1>1, <2>1, <2>2, <3>1, <3>2, <3>4 DEF KeyBooks
  <2> QED BY <2>3, <2>5 DEF KeyInv
<1> QED BY <1>1, <1>6, <1>7

\* The keys' books, through the steps of a mutation at work.
LEMMA MutationsKeepKeys ==
    ASSUME KeyInv, BooksInv', MutatorDrained \/ MutateSink \/ MutationApplied
    PROVE  KeyInv'
<1> DEFINE k0 == MutatedKey
<1>0. /\ WorkInv /\ mem \in MemoryType /\ db \in DatabaseType /\ mem.job \in [Jobs -> JobType]
      /\ mem.pc \in [Sessions -> SessionPcs] /\ mem.fence \in [Keys -> Fences]
      /\ Mutations \subseteq Jobs
      /\ "update" \in Mutations /\ "delete" \in Mutations /\ "reset" \in Mutations
      /\ mem.owner \in Jobs => mem.job[mem.owner].pc = "working"
      /\ "free" \notin Sessions \cup Jobs /\ \A j \in Jobs : j \notin Sessions
  BY AccountingNames
  DEF KeyInv, BooksInv, WorkInv, TypeOK, MemoryType, Jobs, Mutations, DrainOK
<1>1. ASSUME PassStep(mem', mem), DataFollows PROVE \A k \in Keys : KeyBooks(k)'
  <2>1. /\ mem'.pc = mem.pc /\ mem'.job = mem.job
        /\ mem'.fence = mem.fence /\ mem'.resetPending = mem.resetPending
    BY <1>1 DEF PassStep, SameKeys
  <2>2. \A j \in Mutations : JobFollows(j) BY <2>1 DEF JobFollows
  <2>3. \A s \in Sessions : SessionFollows(s) BY <2>1 DEF SessionFollows
  <2> QED BY <1>1, <2>1, <2>2, <2>3, KeyKept
<1>2. ASSUME Raised(mem', mem, FALSE), mem.owner # "free", DataFollows PROVE KeyInv'
  BY <1>0, <1>2, RaisedKeepsKeys
<1>3. CASE MutatorDrained
  <2>1. /\ mem.owner # "free" /\ db' = db /\ mem.step = "drained"
        /\ \/ PassStep(mem', mem) /\ mem'.step = "mutate" /\ BacklogDrained
           \/ Raised(mem', mem, FALSE)
    BY <1>0, <1>3, MutatorDrainedEffect DEF Mutators, Jobs
  <2>2. DataFollows BY <2>1, SameDataFollows
  <2>3. CASE PassStep(mem', mem) /\ mem'.step = "mutate" /\ BacklogDrained
    <3>1. Unsettled(mem) = {} BY <2>3 DEF BacklogDrained
    <3>2. db.accepted \ db.projected = {}
      BY <2>1, <3>1 DEF KeyInv, BooksInv, ListBooks
    <3>3. db'.accepted \ db'.receipts = {}
      BY <2>1, <3>2 DEF KeyInv, BooksInv, DurableOrder
    <3>4. MutationBooks' BY <2>3, <3>3 DEF MutationBooks
    <3> QED BY <1>1, <2>2, <2>3, <3>4 DEF KeyInv
  <2> QED BY <1>2, <2>1, <2>2, <2>3
<1>4. CASE MutateSink
  <2>1. /\ k0 \in Keys /\ mem.owner \in Sessions \cup Mutations
        /\ \/ /\ PassStep(mem', mem) /\ mem'.step = "applied" /\ mem'.owner = mem.owner
              /\ db' = MutatedBy(db, k0)
           \/ Raised(mem', mem, FALSE) /\ (db' = db \/ db' = MutatedBy(db, k0))
    BY <1>0, <1>4, MutateSinkEffect
  <2>2. ASSUME db' = MutatedBy(db, k0)
        PROVE  /\ db'.due \subseteq db.due /\ db'.active \subseteq db.active
               /\ mem.owner # "update" => k0 \notin db'.due \cap db'.active
    BY <1>0, <2>1, <2>2, MutatedByEffect
  <2>3. CASE /\ PassStep(mem', mem) /\ mem'.step = "applied" /\ mem'.owner = mem.owner
             /\ db' = MutatedBy(db, k0)
    <3>1. DataFollows BY <2>2, <2>3 DEF DataFollows
    <3>2. MutatedKey' = k0 BY <2>3 DEF MutatedKey, PassStep
    <3>3. MutationBooks' BY <2>2, <2>3, <3>2 DEF MutationBooks
    <3> QED BY <1>1, <2>3, <3>1, <3>3 DEF KeyInv
  <2>4. CASE Raised(mem', mem, FALSE) /\ (db' = db \/ db' = MutatedBy(db, k0))
    <3>1. mem'.step = "free" BY <2>4 DEF Raised, RaisedFrame, DrainFree
    <3>2. DataFollows BY <2>2, <2>4, <3>1 DEF DataFollows
    <3> QED BY <1>0, <1>2, <2>1, <2>4, <3>2
  <2> QED BY <2>1, <2>3, <2>4
<1>5. CASE MutationApplied
  <2>1. /\ mem.step = "applied" /\ db' = db /\ k0 \in Keys /\ mem.owner \in Sessions \cup Mutations
        /\ \/ mem.owner = "update" /\ UpdateEnds(mem', mem, k0)
           \/ mem.owner \in Sessions \cup {"reset"} /\ ResetEnds(mem', mem, k0)
           \/ mem.owner = "delete" /\ DeleteEnds(mem', mem, k0)
           \/ Raised(mem', mem, FALSE)
    BY <1>0, <1>5, MutationAppliedEffect
  <2>2. /\ DataFollows /\ (mem.owner # "update" => k0 \notin db.due \cap db.active)
        /\ \A k \in Keys : KeyBooks(k)
    BY <2>1, SameDataFollows DEF KeyInv, MutationBooks
  <2>3. ASSUME NEW j \in Mutations, mem'.job = Ended(mem.job, j)
        PROVE  \A i \in Mutations : JobFollows(i)
    BY <1>0, <2>3, EndedAt DEF JobFollows, Idle
  <2>4. ASSUME mem'.pc = mem.pc PROVE \A s \in Sessions : SessionFollows(s)
    BY <2>4 DEF SessionFollows
  <2>5. CASE mem.owner = "update" /\ UpdateEnds(mem', mem, k0)
    <3>1. /\ mem'.pc = mem.pc /\ mem'.job = Ended(mem.job, "update") /\ mem'.step = "free"
          /\ mem'.resetPending = mem.resetPending
          /\ \/ mem'.fence = mem.fence
             \/ mem'.fence = Lifted(mem.fence, k0, "none") /\ mem.fence[k0] = "in_flight"
      BY <2>5 DEF UpdateEnds, KeyEnds, DrainFree
    <3>2. (\A i \in Mutations : JobFollows(i)) /\ \A s \in Sessions : SessionFollows(s)
      BY <1>0, <2>3, <2>4, <3>1
    <3>3. MutationBooks' BY <3>1 DEF MutationBooks
    <3>4. ASSUME NEW k \in Keys PROVE KeyBooks(k)'
      <4>1. CASE mem'.fence[k] = mem.fence[k] BY <2>2, <3>1, <3>2, <4>1, KeyKept
      <4>2. CASE mem'.fence[k] # mem.fence[k]
        <5>1. k = k0 /\ mem.fence[k] = "in_flight" BY <1>0, <2>1, <3>1, <4>2, LiftedAt
        <5>2. k \notin mem.resetPending /\ ~ Works("delete", k) BY <2>2, <5>1 DEF KeyBooks
        <5>3. ~ Works("update", k)' BY <1>0, <3>1, EndedAt DEF Works, Idle
        <5>4. ~ Works("delete", k)' BY <1>0, <3>2, <5>2 DEF Works, JobFollows
        <5> QED BY <2>2, <3>1, <3>2, <5>2, <5>3, <5>4, KeyFreed
      <4> QED BY <4>1, <4>2
    <3> QED BY <3>3, <3>4 DEF KeyInv
  <2>6. CASE mem.owner \in Sessions \cup {"reset"} /\ ResetEnds(mem', mem, k0)
    <3>1. /\ mem'.step = "free" /\ mem'.resetPending = mem.resetPending \ {k0}
          /\ \/ mem'.fence = mem.fence
             \/ mem'.fence = Lifted(mem.fence, k0, "none") /\ mem.fence[k0] = "reset"
          /\ IF mem.owner \in Sessions
             THEN mem'.pc = [mem.pc EXCEPT ![mem.owner] = "terminal"] /\ mem'.job = mem.job
             ELSE mem'.pc = mem.pc /\ mem'.job = Ended(mem.job, "reset")
      BY <2>6 DEF ResetEnds, KeyEnds, DrainFree
    <3>2. (\A i \in Mutations : JobFollows(i)) /\ \A s \in Sessions : SessionFollows(s)
      <4>1. CASE mem.owner \in Sessions
        BY <1>0, <3>1, <4>1 DEF JobFollows, SessionFollows, LivePcs
      <4>2. CASE mem.owner \notin Sessions BY <1>0, <2>3, <2>4, <3>1, <4>2
      <4> QED BY <4>1, <4>2
    <3>3. MutationBooks' BY <3>1 DEF MutationBooks
    <3>4. k0 \notin db'.due \cap db'.active
      <4>1. "update" \notin Sessions BY <1>0
      <4> QED BY <2>1, <2>2, <2>6, <4>1
    <3>5. ASSUME NEW k \in Keys PROVE KeyBooks(k)'
      <4>1. mem'.fence[k] = mem.fence[k] \/ (k = k0 /\ mem.fence[k] = "reset")
        BY <1>0, <2>1, <3>1, LiftedAt
      <4>2. Works("update", k)' \/ Works("delete", k)' => mem'.fence[k] = mem.fence[k]
        <5>1. Works("update", k)' \/ Works("delete", k)' => Works("update", k) \/ Works("delete", k)
          BY <1>0, <3>2 DEF Works, JobFollows
        <5>2. Works("update", k) \/ Works("delete", k) => mem.fence[k] # "reset"
          BY <2>2 DEF KeyBooks
        <5> QED BY <4>1, <5>1, <5>2
      <4>3. k \in mem'.resetPending => k \in mem.resetPending /\ mem'.fence[k] \in {"reset", "closed"}
        BY <2>2, <3>1, <4>1 DEF KeyBooks
      <4>4. k \in db'.due \cap db'.active /\ k \in mem.resetPending => k \in mem'.resetPending
        BY <3>1, <3>4
      <4> QED BY <2>2, <3>2, <4>2, <4>3, <4>4, KeyFreed
    <3> QED BY <3>3, <3>5 DEF KeyInv
  <2>7. CASE mem.owner = "delete" /\ DeleteEnds(mem', mem, k0)
    <3>1. /\ mem'.pc = mem.pc /\ mem'.job = Ended(mem.job, "delete") /\ mem'.step = "free"
          /\ mem'.resetPending = mem.resetPending \ {k0} /\ mem'.fence = mem.fence
      BY <2>7 DEF DeleteEnds, KeyEnds, DrainFree
    <3>2. (\A i \in Mutations : JobFollows(i)) /\ \A s \in Sessions : SessionFollows(s)
      BY <1>0, <2>3, <2>4, <3>1
    <3>3. MutationBooks' BY <3>1 DEF MutationBooks
    <3>4. k0 \notin db'.due \cap db'.active BY <2>1, <2>2, <2>7
    <3>5. ASSUME NEW k \in Keys PROVE KeyBooks(k)'
      <4>1. k \in mem.resetPending => mem.fence[k] \in {"reset", "closed"}
        BY <2>2 DEF KeyBooks
      <4> QED BY <2>2, <3>1, <3>2, <3>4, <4>1, KeyFreed
    <3> QED BY <3>3, <3>5 DEF KeyInv
  <2>8. CASE Raised(mem', mem, FALSE)
    <3>1. mem.owner # "free" BY <1>0, <2>1
    <3> QED BY <1>2, <2>2, <2>8, <3>1
  <2> QED BY <2>1, <2>5, <2>6, <2>7, <2>8
<1> QED BY <1>3, <1>4, <1>5

\* A process that starts has no mutation under way.
LEMMA FreshKeys == Fresh(mem) => (\A k \in Keys : KeyBooks(k)) /\ MutationBooks
<1> SUFFICES ASSUME Fresh(mem) PROVE (\A k \in Keys : KeyBooks(k)) /\ MutationBooks OBVIOUS
<1>1. /\ mem.resetPending = {} /\ mem.step = "free"
      /\ \A j \in Jobs : mem.job[j].pc = "idle"
      /\ \A s \in Sessions : mem.pc[s] \in {"none", "terminal"}
  BY DEF Fresh, Idle, DrainFree
<1>2. \A k \in Keys : ~ Resetting(k) /\ ~ Works("update", k) /\ ~ Works("delete", k)
  BY <1>1 DEF Resetting, Works, Jobs
<1> QED BY <1>1, <1>2 DEF KeyBooks, MutationBooks

\* So has a new one.
LEMMA KeyInit == Init => KeyInv
<1> SUFFICES ASSUME Init PROVE KeyInv OBVIOUS
<1> DEFINE p == [s \in Sessions |-> "none"]
<1>1. mem = InitMem(p) BY DEF Init
<1>2. Fresh(mem) BY <1>1, InitMemFresh
<1> QED BY <1>2, FreshKeys, BooksInit DEF KeyInv

\* KeyInv is inductive.
LEMMA KeyStepHolds == KeyInv /\ [Next]_vars => KeyInv'
<1> SUFFICES ASSUME KeyInv, [Next]_vars PROVE KeyInv' OBVIOUS
<1>1. BooksInv' BY BooksStep DEF KeyInv
<1>2. CASE UNCHANGED vars
  <2>1. mem' = mem /\ db' = db BY <1>2 DEF vars
  <2>2. (\A k \in Keys : KeyBooks(k)') /\ MutationBooks'
    BY <2>1 DEF KeyInv, KeyBooks, MutationBooks, Works, KeyRests, Resetting, Zeroes,
                MutatedKey
  <2> QED BY <1>1, <2>2 DEF KeyInv
<1>3. CASE Crash
  <2>1. Fresh(mem)' BY <1>3, CrashEffect DEF KeyInv, BooksInv
  <2>2. ((\A k \in Keys : KeyBooks(k)) /\ MutationBooks)'
    BY <2>1, FreshKeys, PTL
  <2> QED BY <1>1, <2>2 DEF KeyInv
<1>4. CASE Next /\ ~ Crash
  BY <1>1, <1>4, RequestsKeepKeys, PassesKeepKeys, TasksKeepKeys, BeginKeepsKeys,
     FenceKeepsKeys, MutationsKeepKeys DEF Next
<1> QED BY <1>2, <1>3, <1>4

\* A key's spending falls only by a mutation that found all its events charged.
LEMMA SpendingFalls ==
    ASSUME KeyInv, [Next]_vars, NEW k \in Keys, db'.spent[k] < db.spent[k]
    PROVE  {e \in db.accepted \ db.receipts : KeyOf[e] = k} = {}
<1>0. /\ WorkInv /\ db \in DatabaseType /\ db.spent \in [Keys -> Nat]
      /\ db.accepted \subseteq Sessions /\ DatabaseStep
  BY DatabaseSteps DEF KeyInv, BooksInv, WorkInv, TypeOK, DatabaseType
<1>1. db'.spent # db.spent
  <2>1. db.spent[k] \in Nat BY <1>0
  <2> QED BY <2>1
<1>2. ASSUME NEW e \in Sessions PROVE db' # AcceptedBy(db, e) /\ db' # ProjectedBy(db, e)
  BY <1>0, <1>1, AcceptedByEffect, ProjectedByEffect
<1>3. ASSUME NEW e \in Sessions PROVE db' # AppliedBy(db, e)
  <2> SUFFICES ASSUME db' = AppliedBy(db, e) PROVE FALSE OBVIOUS
  <2>1. db'.spent = IF e \in db.receipts THEN db.spent
                    ELSE [db.spent EXCEPT ![KeyOf[e]] = @ + Cost[e]]
    BY <1>0, AppliedByEffect
  <2>2. Cost[e] \in Nat /\ db.spent[k] \in Nat BY <1>0, AccountingConstants
  <2>3. db'.spent[k] = db.spent[k] + Cost[e] \/ db'.spent[k] = db.spent[k] BY <1>0, <2>1
  <2> QED BY <2>2, <2>3
<1>4. PICK k0 \in Keys : mem.step = "mutate" /\ k0 = MutatedKey /\ db' = MutatedBy(db, k0)
  BY <1>0, <1>1, <1>2, <1>3 DEF DatabaseStep
<1>5. /\ db'.spent = [db.spent EXCEPT ![k0] = 0] /\ k0 \in db.active /\ mem.owner # "delete"
      /\ mem.owner = "update" => mem.job["update"].flag
      /\ mem.owner # "update" => k0 \in db.due
  <2>1. \/ db'.spent = db.spent
        \/ /\ db'.spent = [db.spent EXCEPT ![k0] = 0] /\ k0 \in db.active /\ mem.owner # "delete"
           /\ mem.owner = "update" => mem.job["update"].flag
           /\ mem.owner # "update" => k0 \in db.due
    BY <1>0, <1>4, MutatedByEffect
  <2> QED BY <1>1, <2>1
<1>6. k = k0
  <2>1. k # k0 => db'.spent[k] = db.spent[k] BY <1>0, <1>5
  <2>2. db.spent[k] \in Nat BY <1>0
  <2> QED BY <2>1, <2>2
<1>7. Zeroes
  <2>1. mem.owner \in Sessions \cup Mutations BY <1>0, <1>4, MutatedKeyIsKey
  <2> QED BY <1>4, <1>5, <2>1 DEF Zeroes, Mutations
<1>8. \A e \in Sessions : KeyOf[e] = k0 => e \notin db.accepted \ db.receipts
  BY <1>4, <1>7 DEF KeyInv, MutationBooks
<1> QED BY <1>0, <1>6, <1>8

\* A budget period ends on settled books: spent_usd is zeroed only when every accepted
\* event of the key has been charged.
THEOREM ResetsFindBooksSettled == Spec => ResetsSettled
<1>1. KeyInv /\ [Next]_vars =>
          [\A k \in Keys : db'.spent[k] < db.spent[k] =>
              {e \in db.accepted \ db.receipts : KeyOf[e] = k} = {}]_vars
  BY SpendingFalls
<1> QED BY KeyInit, KeyStepHolds, <1>1, PTL DEF Spec, ResetsSettled

\* The service's tables agree with each other and with the databases: the parts are
\* the type and the three invariants proved above.
THEOREM BooksAlwaysBalance == Spec => []BooksBalance
<1>1. TypeOK /\ ReservationsBalance /\ UnsettledTracked /\ StoppedSettled => BooksBalance
  BY DEF BooksBalance
<1> QED
  BY <1>1, AccountingTypeCorrect, ReservationsAreBalanced, BacklogIsTracked,
     StopSettlesEverything, PTL
=============================================================================
