-------------------------- MODULE AccountingProofs --------------------------
(***************************************************************************)
(* Proofs about Accounting, for every set of requests and of keys and      *)
(* every bound.                                                            *)
(***************************************************************************)
EXTENDS Accounting, TLAPS

---------------------------------------------------------------------------
(* What a helper leaves alone, in groups of fields of the memory, and what *)
(* it writes.                                                              *)

SameTables(n, m) ==
    n.retained = m.retained /\ n.inflight = m.inflight /\ n.pending = m.pending
SameAnswers(n, m) == n.answer = m.answer /\ n.future = m.future
SameCharges(n, m) == n.liable = m.liable /\ n.reserved = m.reserved
SameKeys(n, m) ==
    n.fence = m.fence /\ n.resetPending = m.resetPending /\ n.deleted = m.deleted
SameDrain(n, m) ==
    /\ n.owner = m.owner /\ n.step = m.step /\ n.todo = m.todo /\ n.ev = m.ev
    /\ n.from = m.from /\ n.err = m.err /\ n.record = m.record
DrainFree(n) == n.owner = "free" /\ n.step = "free" /\ n.todo = {} /\ n.record = {}
SameLife(n, m) == n.state = m.state /\ n.fatal = m.fatal /\ n.init = m.init

\* Changes of one entry, named so that a lemma can be cited for any entry.
Ended(jobs, j) == [jobs EXCEPT ![j] = Idle]
Moved(jobs, j, pc) == [jobs EXCEPT ![j].pc = pc]
Lifted(fence, k, to) == [fence EXCEPT ![k] = to]

USE DEF SameTables, SameAnswers, SameCharges, SameKeys, SameDrain, SameLife, DrainFree

\* Freeing the drain lock changes nothing but the lock's own fields.
LEMMA FreeDrainEffect ==
    ASSUME NEW m \in MemoryType
    PROVE  LET n == FreeDrain(m) IN
           /\ n \in MemoryType /\ DrainFree(n) /\ n.pc = m.pc /\ n.job = m.job
           /\ SameTables(n, m) /\ SameAnswers(n, m) /\ SameCharges(n, m) /\ SameKeys(n, m)
           /\ SameLife(n, m) /\ n.from = m.from
<1> DEFINE n == FreeDrain(m)
<1>1. n \in MemoryType BY ZenonT(60) DEF FreeDrain, MemoryType, DrainSteps
<1>2. DrainFree(n) /\ n.pc = m.pc /\ n.job = m.job /\ n.from = m.from
  BY DEF FreeDrain, MemoryType
<1>3. SameTables(n, m) /\ SameAnswers(n, m) /\ SameCharges(n, m)
  BY DEF FreeDrain, MemoryType
<1>4. SameKeys(n, m) /\ SameLife(n, m)
  BY DEF FreeDrain, MemoryType
<1> QED BY <1>1, <1>2, <1>3, <1>4

\* A transient block closes admission and leaves every table alone.
LEMMA BlocksEffect ==
    ASSUME NEW m \in MemoryType
    PROVE  LET n == Blocks(m) IN
           /\ n \in MemoryType
           /\ n.pc = m.pc /\ n.job = m.job
           /\ SameTables(n, m) /\ SameAnswers(n, m) /\ SameCharges(n, m) /\ SameKeys(n, m)
           /\ SameDrain(n, m) /\ n.fatal = m.fatal /\ n.init = m.init
           /\ IF m.state \in {"stopping", "stopped", "failed"} THEN n.state = m.state
              ELSE n.state = "blocked"
  BY SMTT(30) DEF Blocks, MemoryType, States

\* A fatal error closes admission for good and leaves every table alone.
LEMMA FailsEffect ==
    ASSUME NEW m \in MemoryType
    PROVE  LET n == Fails(m) IN
           /\ n \in MemoryType
           /\ n.pc = m.pc /\ n.job = m.job
           /\ SameTables(n, m) /\ SameAnswers(n, m) /\ SameCharges(n, m) /\ SameKeys(n, m)
           /\ SameDrain(n, m) /\ n.fatal = TRUE /\ n.init = m.init /\ n.state = "failed"
  BY ZenonT(60) DEF Fails, MemoryType, States

\* Lifting a transient block touches the state alone, and only in a blocked service.
LEMMA ClearEffect ==
    ASSUME NEW m \in MemoryType
    PROVE  LET n == ClearTransientBlock(m) IN
           /\ n \in MemoryType
           /\ n.pc = m.pc /\ n.job = m.job
           /\ SameTables(n, m) /\ SameAnswers(n, m) /\ SameCharges(n, m) /\ SameKeys(n, m)
           /\ SameDrain(n, m) /\ n.fatal = m.fatal /\ n.init = m.init
           /\ n.state = m.state \/ (m.state = "blocked" /\ n.state = "running")
  BY SMTT(30) DEF ClearTransientBlock, MemoryType, States

\* Waking the projector sets its event and nothing else.
LEMMA WakeEffect ==
    ASSUME NEW m \in MemoryType
    PROVE  LET n == WakeProjector(m) IN
           /\ n \in MemoryType
           /\ n.pc = m.pc /\ n.job = m.job
           /\ SameTables(n, m) /\ SameAnswers(n, m) /\ SameCharges(n, m) /\ SameKeys(n, m)
           /\ SameDrain(n, m) /\ SameLife(n, m)
  BY ZenonT(60) DEF WakeProjector, MemoryType

\* Publishing an outcome answers exactly the waiting sessions it names.
LEMMA PublishEffect ==
    ASSUME NEW m \in MemoryType, NEW S, NEW what \in {"receipt", "error"}
    PROVE  LET n == Publish(m, S, what) IN
           /\ n \in MemoryType
           /\ n.pc = m.pc /\ n.job = m.job /\ n.answer = m.answer
           /\ SameTables(n, m) /\ SameCharges(n, m) /\ SameKeys(n, m)
           /\ SameDrain(n, m) /\ SameLife(n, m)
           /\ \A s \in Sessions : n.future[s] = m.future[s]
                  \/ (n.future[s] = what /\ s \in S \cap RetrySessions(m))
<1> DEFINE f == [s \in Sessions |->
        IF s \in S \cap RetrySessions(m) /\ m.future[s] = "none" THEN what ELSE m.future[s]]
<1>1. f \in [Sessions -> {"none", "receipt", "error"}] BY DEF MemoryType
<1>2. \A s \in Sessions : f[s] = m.future[s] \/ (f[s] = what /\ s \in S \cap RetrySessions(m))
  <2> SUFFICES ASSUME NEW s \in Sessions
               PROVE  f[s] = m.future[s] \/ (f[s] = what /\ s \in S \cap RetrySessions(m))
    OBVIOUS
  <2>1. CASE s \in S \cap RetrySessions(m) /\ m.future[s] = "none" BY <2>1
  <2>2. CASE ~ (s \in S \cap RetrySessions(m) /\ m.future[s] = "none") BY <2>2
  <2> QED BY <2>1, <2>2
<1>3. Publish(m, S, what) = [m EXCEPT !.future = f] BY DEF Publish
<1> HIDE DEF f
<1> QED BY SMTT(30), <1>1, <1>2, <1>3 DEF MemoryType

\* A task that moves on changes its own program counter.
LEMMA JobToEffect ==
    ASSUME NEW m \in MemoryType, NEW j \in Jobs, NEW pc \in JobPcs
    PROVE  LET n == JobTo(m, j, pc) IN
           /\ n \in MemoryType
           /\ n.job = Moved(m.job, j, pc) /\ n.pc = m.pc
           /\ SameTables(n, m) /\ SameAnswers(n, m) /\ SameCharges(n, m) /\ SameKeys(n, m)
           /\ SameDrain(n, m) /\ SameLife(n, m)
<1> DEFINE f == [m.job EXCEPT ![j].pc = pc]
<1>1. f \in [Jobs -> JobType] BY DEF MemoryType, JobType
<1>2. JobTo(m, j, pc) = [m EXCEPT !.job = f] BY DEF JobTo, MemoryType
<1> HIDE DEF f
<1>3. LET n == [m EXCEPT !.job = f] IN
      /\ n \in MemoryType /\ n.job = f /\ n.pc = m.pc
      /\ SameTables(n, m) /\ SameAnswers(n, m) /\ SameCharges(n, m) /\ SameKeys(n, m)
      /\ SameDrain(n, m) /\ SameLife(n, m)
  BY SMTT(30), <1>1 DEF MemoryType
<1> QED BY <1>2, <1>3 DEF f, Moved

\* A task that ends leaves the other tasks alone.
LEMMA JobDoneEffect ==
    ASSUME NEW m \in MemoryType, NEW j \in Jobs
    PROVE  LET n == JobDone(m, j) IN
           /\ n \in MemoryType
           /\ n.job = Ended(m.job, j) /\ n.pc = m.pc
           /\ SameTables(n, m) /\ SameAnswers(n, m) /\ SameCharges(n, m) /\ SameKeys(n, m)
           /\ SameDrain(n, m) /\ SameLife(n, m)
  BY ZenonT(60) DEF JobDone, MemoryType, JobType, Idle, JobPcs, Ended

\* Lifting one fence leaves every table but the fences alone.
LEMMA UnfenceEffect ==
    ASSUME NEW m \in MemoryType, NEW k, NEW f
    PROVE  LET n == Unfence(m, k, f) IN
           /\ n \in MemoryType
           /\ n.pc = m.pc /\ n.job = m.job
           /\ SameTables(n, m) /\ SameAnswers(n, m) /\ SameCharges(n, m)
           /\ n.resetPending = m.resetPending /\ n.deleted = m.deleted
           /\ n.fence = m.fence \/ (n.fence = Lifted(m.fence, k, "none") /\ m.fence[k] = f)
           /\ SameDrain(n, m) /\ SameLife(n, m)
<1> DEFINE g == [m.fence EXCEPT ![k] = "none"]
<1>1. g \in [Keys -> Fences] BY DEF MemoryType, Fences
<1>2. [m EXCEPT !.fence[k] = "none"] = [m EXCEPT !.fence = g] BY DEF MemoryType
<1> HIDE DEF g
<1>3. LET n == [m EXCEPT !.fence = g] IN
      /\ n \in MemoryType /\ n.fence = g /\ n.job = m.job /\ n.pc = m.pc
      /\ SameTables(n, m) /\ SameAnswers(n, m) /\ SameCharges(n, m)
      /\ n.resetPending = m.resetPending /\ n.deleted = m.deleted
      /\ SameDrain(n, m) /\ SameLife(n, m)
  BY ZenonT(60), <1>1 DEF MemoryType
<1>4. CASE m.fence[k] = f
  <2>1. Unfence(m, k, f) = [m EXCEPT !.fence = g] BY <1>2, <1>4 DEF Unfence
  <2> QED BY <2>1, <1>3, <1>4 DEF g, Lifted
<1>5. CASE m.fence[k] # f
  BY <1>5, Unfence(m, k, f) = m DEF Unfence
<1> QED BY <1>4, <1>5

\* Discarding a key's record changes the ledger alone.
LEMMA DiscardEffect ==
    ASSUME NEW m \in MemoryType, NEW k
    PROVE  LET n == Discard(m, k) IN
           /\ n \in MemoryType
           /\ n.pc = m.pc /\ n.job = m.job
           /\ SameTables(n, m) /\ SameAnswers(n, m) /\ SameCharges(n, m) /\ SameKeys(n, m)
           /\ SameDrain(n, m) /\ SameLife(n, m)
<1> DEFINE l == [m.ledger EXCEPT ![k] = 0]
           d == m.known \ {k}
<1>1. l \in [Keys -> Nat] /\ d \in SUBSET Keys BY DEF MemoryType
<1>2. Discard(m, k) = [m EXCEPT !.known = d, !.ledger = l] BY DEF Discard, MemoryType
<1> HIDE DEF l, d
<1>3. [m EXCEPT !.known = d, !.ledger = l] \in MemoryType BY <1>1 DEF MemoryType
<1>4. LET n == [m EXCEPT !.known = d, !.ledger = l] IN
      /\ n.pc = m.pc /\ n.job = m.job
      /\ SameTables(n, m) /\ SameAnswers(n, m) /\ SameCharges(n, m) /\ SameKeys(n, m)
      /\ SameDrain(n, m) /\ SameLife(n, m)
  BY DEF MemoryType
<1> QED BY <1>2, <1>3, <1>4

\* Session s leaves; the reset or the removal of its key may go on with it.
Leaves(n, m, s) ==
    \/ n.pc = [m.pc EXCEPT ![s] = "terminal"]
    \/ /\ n.pc = [m.pc EXCEPT ![s] = "resetting"]
       /\ KeyOf[s] \in m.resetPending /\ KeyOf[s] \notin m.deleted
       /\ ActiveByKey(n, KeyOf[s]) = {}

\* A session that detaches becomes terminal and every table stays.
LEMMA DetachEffect ==
    ASSUME NEW m \in MemoryType, NEW s \in Sessions
    PROVE  LET n == Detach(m, s) IN
           /\ n \in MemoryType
           /\ Leaves(n, m, s)
           /\ n.job = m.job
           /\ SameTables(n, m) /\ SameAnswers(n, m) /\ SameCharges(n, m) /\ SameKeys(n, m)
           /\ SameDrain(n, m) /\ SameLife(n, m)
<1> DEFINE k == KeyOf[s]
           p == [m.pc EXCEPT ![s] = "terminal"]
           r == [m.pc EXCEPT ![s] = "resetting"]
           gone == [m EXCEPT !.pc = p]
           reset == [m EXCEPT !.pc = r]
<1>1. p \in [Sessions -> SessionPcs] /\ r \in [Sessions -> SessionPcs]
  BY DEF MemoryType, SessionPcs
<1>2. /\ [m EXCEPT !.pc[s] = "terminal"] = gone
      /\ [gone EXCEPT !.pc[s] = "resetting"] = reset
  BY DEF MemoryType
<1>3. \A q \in Sessions : p[q] \in LivePcs <=> r[q] \in LivePcs
  BY DEF MemoryType, LivePcs
<1> HIDE DEF p, r
<1>4. /\ gone \in MemoryType /\ gone.pc = p /\ gone.job = m.job
      /\ SameTables(gone, m) /\ SameAnswers(gone, m) /\ SameCharges(gone, m)
      /\ SameKeys(gone, m) /\ SameDrain(gone, m) /\ SameLife(gone, m)
  BY ZenonT(60), <1>1 DEF MemoryType
<1>5. /\ reset \in MemoryType /\ reset.pc = r /\ reset.job = m.job
      /\ SameTables(reset, m) /\ SameAnswers(reset, m) /\ SameCharges(reset, m)
      /\ SameKeys(reset, m) /\ SameDrain(reset, m) /\ SameLife(reset, m)
  BY ZenonT(60), <1>1 DEF MemoryType
<1>6. ActiveByKey(gone, k) = ActiveByKey(reset, k)
  BY <1>3, <1>4, <1>5 DEF ActiveByKey, Live
<1>7. Detach(m, s) = IF ActiveByKey(gone, k) = {} /\ k \in m.deleted THEN Discard(gone, k)
                     ELSE IF ActiveByKey(gone, k) = {} /\ k \in m.resetPending THEN reset
                     ELSE gone
  BY <1>2, <1>4 DEF Detach
<1> HIDE DEF gone, reset
<1>8. CASE ActiveByKey(gone, k) = {} /\ k \in m.deleted
  <2>1. Detach(m, s) = Discard(gone, k) BY <1>7, <1>8
  <2> QED BY <2>1, <1>4, DiscardEffect DEF p, Leaves
<1>9. CASE ~ (ActiveByKey(gone, k) = {} /\ k \in m.deleted)
  <2>1. CASE ActiveByKey(gone, k) = {} /\ k \in m.resetPending
    <3>1. Detach(m, s) = reset BY <1>7, <1>9, <2>1
    <3> QED BY <3>1, <1>5, <1>6, <2>1, <1>9 DEF r, Leaves
  <2>2. CASE ~ (ActiveByKey(gone, k) = {} /\ k \in m.resetPending)
    <3>1. Detach(m, s) = gone BY <1>7, <1>9, <2>2
    <3> QED BY <3>1, <1>4 DEF p, Leaves
  <2> QED BY <2>1, <2>2
<1> QED BY <1>8, <1>9

\* Releasing a request drops its reservation and charges nothing.
LEMMA ReleaseEffect ==
    ASSUME NEW m \in MemoryType, NEW s \in Sessions
    PROVE  LET n == ReleaseRequest(m, s) IN
           /\ n \in MemoryType
           /\ n.pc = m.pc /\ n.job = m.job /\ n.liable = m.liable
           /\ n.reserved = m.reserved \ {s}
           /\ SameTables(n, m) /\ SameAnswers(n, m) /\ SameKeys(n, m)
           /\ SameDrain(n, m) /\ SameLife(n, m)
  BY SMTT(30) DEF ReleaseRequest, MemoryType

\* Like Detach, and the reservation goes with a session that is not charged.
LEMMA FinishEffect ==
    ASSUME NEW m \in MemoryType, NEW s \in Sessions
    PROVE  LET n == FinishFailed(m, s) IN
           /\ n \in MemoryType
           /\ Leaves(n, m, s)
           /\ n.job = m.job /\ n.liable = m.liable
           /\ n.reserved = IF s \in m.liable THEN m.reserved ELSE m.reserved \ {s}
           /\ SameTables(n, m) /\ SameAnswers(n, m) /\ SameKeys(n, m)
           /\ SameDrain(n, m) /\ SameLife(n, m)
<1> DEFINE r == IF s \in m.liable THEN m ELSE ReleaseRequest(m, s)
<1>1. /\ r \in MemoryType /\ r.pc = m.pc /\ r.job = m.job /\ r.liable = m.liable
      /\ r.reserved = IF s \in m.liable THEN m.reserved ELSE m.reserved \ {s}
      /\ SameTables(r, m) /\ SameAnswers(r, m) /\ SameKeys(r, m)
      /\ SameDrain(r, m) /\ SameLife(r, m)
  BY ZenonT(60), ReleaseEffect
<1>2. FinishFailed(m, s) = Detach(r, s) BY DEF FinishFailed
<1> HIDE DEF r
<1> DEFINE n == Detach(r, s)
<1>3. /\ n \in MemoryType
      /\ Leaves(n, r, s)
      /\ n.job = r.job
      /\ SameTables(n, r) /\ SameAnswers(n, r) /\ SameCharges(n, r) /\ SameKeys(n, r)
      /\ SameDrain(n, r) /\ SameLife(n, r)
  BY <1>1, DetachEffect
<1> HIDE DEF n
<1>4. FinishFailed(m, s) = n BY <1>2 DEF n
<1>5. Leaves(n, m, s) BY <1>1, <1>3 DEF Leaves
<1> QED BY <1>1, <1>3, <1>4, <1>5

\* Applying a liability turns the session's reservation into a charge, once.
LEMMA LiabilityEffect ==
    ASSUME NEW m \in MemoryType, NEW s \in Sessions
    PROVE  LET n == ApplyLiability(m, s) IN
           /\ n \in MemoryType
           /\ n.pc = m.pc /\ n.job = m.job /\ n.liable = m.liable \cup {s}
           /\ n.reserved = IF s \in m.liable THEN m.reserved ELSE m.reserved \ {s}
           /\ SameTables(n, m) /\ SameAnswers(n, m) /\ SameKeys(n, m)
           /\ SameDrain(n, m) /\ SameLife(n, m)
<1> DEFINE l == [m.ledger EXCEPT ![KeyOf[s]] = @ + Cost[s]]
           c == [m EXCEPT !.reserved = @ \ {s}, !.ledger = l]
<1>1. l \in [Keys -> Nat]
  <2>1. KeyOf[s] \in Keys /\ Cost[s] \in Nat /\ m.ledger \in [Keys -> Nat]
    BY AccountingConstants DEF MemoryType
  <2> QED BY <2>1
<1>2. CommitRequest(m, s) = c BY DEF CommitRequest, MemoryType
<1> HIDE DEF l
<1>3. /\ c \in MemoryType /\ c.pc = m.pc /\ c.job = m.job /\ c.liable = m.liable
      /\ c.reserved = m.reserved \ {s}
      /\ SameTables(c, m) /\ SameAnswers(c, m) /\ SameKeys(c, m)
      /\ SameDrain(c, m) /\ SameLife(c, m)
  BY ZenonT(60), <1>1 DEF MemoryType
<1> HIDE DEF c
<1>4. CASE s \in m.liable
  <2>1. ApplyLiability(m, s) = m BY <1>4 DEF ApplyLiability
  <2> QED BY <2>1, <1>4
<1>5. CASE s \notin m.liable
  <2>1. ApplyLiability(m, s) = [c EXCEPT !.liable = @ \cup {s}]
    BY <1>2, <1>5 DEF ApplyLiability
  <2>2. LET n == [c EXCEPT !.liable = @ \cup {s}] IN
        /\ n \in MemoryType
        /\ n.pc = c.pc /\ n.job = c.job /\ n.liable = c.liable \cup {s}
        /\ n.reserved = c.reserved
        /\ SameTables(n, c) /\ SameAnswers(n, c) /\ SameKeys(n, c)
        /\ SameDrain(n, c) /\ SameLife(n, c)
    BY SMTT(30), <1>3 DEF MemoryType
  <2> QED BY <2>1, <2>2, <1>3, <1>5
<1> QED BY <1>4, <1>5

\* A session whose retry is resolved is charged, if it still waited.
LEMMA RecoverEffect ==
    ASSUME NEW m \in MemoryType, NEW s \in Sessions
    PROVE  LET n == RecoverSession(m, s) IN
           /\ n \in MemoryType
           /\ n.pc = m.pc /\ n.job = m.job
           /\ n.liable = IF s \in RetrySessions(m) THEN m.liable \cup {s} ELSE m.liable
           /\ n.reserved = IF s \in RetrySessions(m) /\ s \notin m.liable
                           THEN m.reserved \ {s} ELSE m.reserved
           /\ SameTables(n, m) /\ SameAnswers(n, m) /\ SameKeys(n, m)
           /\ SameDrain(n, m) /\ SameLife(n, m)
<1>1. CASE s \in RetrySessions(m)
  BY SMTT(30), <1>1, LiabilityEffect DEF RecoverSession
<1>2. CASE s \notin RetrySessions(m)
  BY <1>2 DEF RecoverSession
<1> QED BY <1>1, <1>2

\* An accepted event leaves the two tables it may have waited in for the pending one.
LEMMA AcceptEffect ==
    ASSUME NEW m \in MemoryType, NEW s \in Sessions
    PROVE  LET n == AcceptSourceResult(m, s) IN
           /\ n \in MemoryType
           /\ n.pc = m.pc /\ n.job = m.job
           /\ n.inflight = m.inflight \ {s} /\ n.retained = m.retained \ {s}
           /\ n.pending = m.pending \cup {s}
           /\ SameAnswers(n, m) /\ SameCharges(n, m) /\ SameKeys(n, m)
           /\ SameDrain(n, m) /\ n.fatal = m.fatal /\ n.init = m.init
           /\ n.state = m.state \/ (m.state = "blocked" /\ n.state = "running")
<1> DEFINE c == [m EXCEPT !.inflight = @ \ {s}, !.retained = @ \ {s}, !.pending = @ \cup {s}]
<1>1. c \in MemoryType BY ZenonT(60) DEF MemoryType
<1>2. /\ c.pc = m.pc /\ c.job = m.job
      /\ c.inflight = m.inflight \ {s} /\ c.retained = m.retained \ {s}
      /\ c.pending = m.pending \cup {s}
      /\ SameAnswers(c, m) /\ SameCharges(c, m) /\ SameKeys(c, m)
      /\ SameDrain(c, m) /\ SameLife(c, m)
  BY DEF MemoryType
<1>3. AcceptSourceResult(m, s) = ClearTransientBlock(c) BY DEF AcceptSourceResult
<1> HIDE DEF c
<1> QED BY <1>1, <1>2, <1>3, ClearEffect

\* An event kept for retry moves from the events in flight to the retained ones.
LEMMA RetainEffect ==
    ASSUME NEW m \in MemoryType, NEW s \in Sessions
    PROVE  LET n == RetainForRetry(m, s) IN
           /\ n \in MemoryType
           /\ n.pc = m.pc /\ n.job = m.job
           /\ n.inflight = m.inflight \ {s} /\ n.retained = m.retained \cup {s}
           /\ n.pending = m.pending
           /\ SameAnswers(n, m) /\ SameCharges(n, m) /\ SameKeys(n, m)
           /\ SameDrain(n, m) /\ SameLife(n, m)
  BY ZenonT(60) DEF RetainForRetry, MemoryType

\* A projected event leaves the pending table.
LEMMA ClearPendingEffect ==
    ASSUME NEW m \in MemoryType, NEW e
    PROVE  LET n == ClearPending(m, e) IN
           /\ n \in MemoryType
           /\ n.pc = m.pc /\ n.job = m.job
           /\ n.inflight = m.inflight /\ n.retained = m.retained
           /\ n.pending = m.pending \ {e}
           /\ SameAnswers(n, m) /\ SameCharges(n, m) /\ SameKeys(n, m)
           /\ SameDrain(n, m) /\ n.fatal = m.fatal /\ n.init = m.init
           /\ n.state = m.state \/ (m.state = "blocked" /\ n.state = "running")
<1> DEFINE c == [m EXCEPT !.pending = @ \ {e}]
<1>1. /\ c \in MemoryType /\ c.pc = m.pc /\ c.job = m.job
      /\ c.inflight = m.inflight /\ c.retained = m.retained
      /\ c.pending = m.pending \ {e}
      /\ SameAnswers(c, m) /\ SameCharges(c, m) /\ SameKeys(c, m)
      /\ SameDrain(c, m) /\ SameLife(c, m)
  BY SMTT(30) DEF MemoryType
<1>2. ClearPending(m, e) = ClearTransientBlock(c) BY DEF ClearPending
<1> HIDE DEF c
<1> QED BY <1>1, <1>2, ClearEffect

---------------------------------------------------------------------------
(* The ends of a pass and of a projection.                                 *)

HIDE DEF SameTables, SameAnswers, SameCharges, SameKeys, SameDrain, SameLife, DrainFree

\* What the holder leaves behind when an exception comes out of its pass.
RaisedFrame(n, m) ==
    /\ n \in MemoryType /\ DrainFree(n) /\ n.from = m.from
    /\ SameTables(n, m) /\ SameCharges(n, m) /\ n.answer = m.answer
    /\ n.resetPending = m.resetPending /\ n.deleted = m.deleted /\ n.init = m.init
RaisedRequests(n, m) ==
    /\ n.pc = IF m.owner \in Sessions THEN [m.pc EXCEPT ![m.owner] = "terminal"] ELSE m.pc
    /\ \A s \in Sessions : n.future[s] = m.future[s]
           \/ (n.future[s] = "error" /\ s \in RetrySessions(m))
RaisedJobs(n, m) ==
    /\ m.owner \in Sessions => n.job = m.job
    /\ m.owner = "projector" =>
          n.job \in {Moved(m.job, "projector", "wait"), Moved(m.job, "projector", "exited")}
    /\ m.owner \notin Sessions \cup {"projector"} => n.job = Ended(m.job, m.owner)
RaisedFence(n, m) ==
    \/ n.fence = m.fence /\ m.owner # "delete"
    \/ LET k == m.job["update"].key
       IN  /\ m.owner = "update" /\ m.fence[k] = "in_flight"
           /\ n.fence = Lifted(m.fence, k, "none")
    \/ LET k == m.job["delete"].key
       IN  /\ m.owner = "delete"
           /\ n.fence = Lifted(m.fence, k, IF m.job["delete"].flag THEN "reset" ELSE "none")
RaisedLife(n, m, permanent) ==
    /\ n.fatal = (m.fatal \/ (permanent /\ m.owner \in {"projector", "start", "stop"}))
    /\ m.owner = "stop" => n.state = "failed"
    /\ m.owner = "start" => n.state = IF n.fatal THEN "failed" ELSE "blocked"
    /\ m.owner = "projector" =>
          n.state = IF permanent THEN "failed"
                    ELSE IF m.state \in {"stopping", "stopped", "failed"} THEN m.state ELSE "blocked"
    /\ m.owner \notin {"stop", "start", "projector"} => n.state = m.state
Raised(n, m, permanent) ==
    /\ RaisedFrame(n, m) /\ RaisedRequests(n, m) /\ RaisedJobs(n, m)
    /\ RaisedFence(n, m) /\ RaisedLife(n, m, permanent)

\* Recording a failure, transient or permanent, touches no table.
LEMMA RecordEffect ==
    ASSUME NEW m \in MemoryType, NEW permanent \in BOOLEAN
    PROVE  LET n == IF permanent THEN Fails(FreeDrain(m)) ELSE Blocks(FreeDrain(m)) IN
           /\ n \in MemoryType /\ DrainFree(n) /\ n.pc = m.pc /\ n.job = m.job
           /\ SameTables(n, m) /\ SameAnswers(n, m) /\ SameCharges(n, m) /\ SameKeys(n, m)
           /\ n.init = m.init /\ n.from = m.from
           /\ n.fatal = (m.fatal \/ permanent)
           /\ n.state = IF permanent THEN "failed"
                        ELSE IF m.state \in {"stopping", "stopped", "failed"} THEN m.state
                        ELSE "blocked"
<1>0. m.fatal \in BOOLEAN BY DEF MemoryType
<1> DEFINE f == FreeDrain(m)
<1>a. /\ f \in MemoryType /\ DrainFree(f) /\ f.pc = m.pc /\ f.job = m.job
      /\ SameTables(f, m) /\ SameAnswers(f, m) /\ SameCharges(f, m) /\ SameKeys(f, m)
      /\ SameLife(f, m) /\ f.from = m.from
  BY FreeDrainEffect
<1> DEFINE r == IF permanent THEN Fails(f) ELSE Blocks(f)
<1> SUFFICES /\ r \in MemoryType /\ DrainFree(r) /\ r.pc = m.pc /\ r.job = m.job
             /\ SameTables(r, m) /\ SameAnswers(r, m) /\ SameCharges(r, m) /\ SameKeys(r, m)
             /\ r.init = m.init /\ r.from = m.from
             /\ r.fatal = (m.fatal \/ permanent)
             /\ r.state = IF permanent THEN "failed"
                          ELSE IF m.state \in {"stopping", "stopped", "failed"} THEN m.state
                          ELSE "blocked"
  OBVIOUS
<1> HIDE DEF f
<1>1. CASE permanent
  <2>1. LET n == Fails(f) IN
        /\ n \in MemoryType
        /\ n.pc = f.pc /\ n.job = f.job
        /\ SameTables(n, f) /\ SameAnswers(n, f) /\ SameCharges(n, f) /\ SameKeys(n, f)
        /\ SameDrain(n, f) /\ n.fatal = TRUE /\ n.init = f.init /\ n.state = "failed"
    BY <1>a, FailsEffect
  <2> QED BY ZenonT(60), <1>0, <1>a, <1>1, <2>1
             DEF SameTables, SameAnswers, SameCharges, SameKeys, SameDrain, SameLife,
                 DrainFree
<1>2. CASE ~ permanent
  <2>1. LET n == Blocks(f) IN
        /\ n \in MemoryType
        /\ n.pc = f.pc /\ n.job = f.job
        /\ SameTables(n, f) /\ SameAnswers(n, f) /\ SameCharges(n, f) /\ SameKeys(n, f)
        /\ SameDrain(n, f) /\ n.fatal = f.fatal /\ n.init = f.init
        /\ IF f.state \in {"stopping", "stopped", "failed"} THEN n.state = f.state
           ELSE n.state = "blocked"
    BY <1>a, BlocksEffect
  <2> QED BY <1>0, <1>a, <1>2, <2>1
             DEF SameTables, SameAnswers, SameCharges, SameKeys, SameDrain, SameLife,
                 DrainFree
<1> QED BY <1>1, <1>2

\* What an exception out of the drain lock does, whoever held the lock.
LEMMA RaiseEffect ==
    ASSUME NEW m \in MemoryType, NEW permanent \in BOOLEAN, m.owner \in Sessions \cup Jobs
    PROVE  Raised(RaiseOut(m, permanent), m, permanent)
<1> DEFINE o == m.owner
           f == FreeDrain(m)
           r == IF permanent THEN Fails(f) ELSE Blocks(f)
           n == RaiseOut(m, permanent)
<1>1. /\ f \in MemoryType /\ DrainFree(f) /\ f.pc = m.pc /\ f.job = m.job
      /\ SameTables(f, m) /\ SameAnswers(f, m) /\ SameCharges(f, m) /\ SameKeys(f, m)
      /\ SameLife(f, m) /\ f.from = m.from
  BY FreeDrainEffect
<1>2. /\ r \in MemoryType /\ DrainFree(r) /\ r.pc = m.pc /\ r.job = m.job
      /\ SameTables(r, m) /\ SameAnswers(r, m) /\ SameCharges(r, m) /\ SameKeys(r, m)
      /\ r.init = m.init /\ r.from = m.from
      /\ r.fatal = (m.fatal \/ permanent)
      /\ r.state = IF permanent THEN "failed"
                   ELSE IF m.state \in {"stopping", "stopped", "failed"} THEN m.state
                   ELSE "blocked"
  BY RecordEffect
<1>3. /\ o \in Sessions \/ o \in Jobs
      /\ \A j \in Jobs : j \notin Sessions
      /\ m.fatal \in BOOLEAN /\ m.job \in [Jobs -> JobType]
  BY AccountingNames DEF MemoryType
<1>a. /\ {"projector", "start", "stop", "update", "reset", "delete"} \subseteq Jobs
      /\ "projector" \in Jobs /\ "update" \in Jobs /\ "reset" \in Jobs /\ "delete" \in Jobs
      /\ o \in {"start", "stop"} => o \in Jobs
      /\ "wait" \in JobPcs /\ "exited" \in JobPcs
  BY DEF Jobs, JobPcs
<1>4. n = CASE o \in Sessions -> [f EXCEPT !.pc[o] = "terminal"]
          [] o = "projector" /\ permanent ->
                JobTo(Publish(r, Sessions, "error"), o, "exited")
          [] o = "projector" /\ ~ permanent ->
                [JobTo(r, o, "wait") EXCEPT !.retryNeeded = TRUE]
          [] o = "start" -> JobDone([r EXCEPT
                                !.state = IF r.fatal THEN "failed" ELSE "blocked"], o)
          [] o = "stop" -> JobDone([r EXCEPT !.state = "failed"], o)
          [] o = "update" -> JobDone(Unfence(f, IF o \in Jobs THEN f.job[o].key ELSE NoKey,
                                             "in_flight"), o)
          [] o = "reset" -> JobDone(f, o)
          [] o = "delete" -> JobDone([f EXCEPT !.fence[IF o \in Jobs THEN f.job[o].key ELSE NoKey] =
                                        IF f.job[o].flag THEN "reset" ELSE "none"], o)
  BY DEF RaiseOut
<1> SUFFICES Raised(n, m, permanent) OBVIOUS
<1> HIDE DEF f, r, n
<1>5. CASE o \in Sessions
  <2> DEFINE p == [f.pc EXCEPT ![o] = "terminal"]
  <2>1. p \in [Sessions -> SessionPcs] BY <1>1 DEF MemoryType, SessionPcs
  <2>4. o \notin Jobs /\ o \notin {"projector", "start", "stop", "update", "reset", "delete"}
    BY <1>3, <1>5 DEF Jobs
  <2>2. n = [f EXCEPT !.pc = p]
    <3>1. n = [f EXCEPT !.pc[o] = "terminal"] BY <1>4, <1>5, <2>4
    <3> QED BY <1>1, <3>1 DEF MemoryType
  <2> HIDE DEF p
  <2>3. /\ n \in MemoryType /\ DrainFree(n) /\ n.pc = p /\ n.job = f.job
        /\ SameTables(n, f) /\ SameAnswers(n, f) /\ SameCharges(n, f) /\ SameKeys(n, f)
        /\ SameLife(n, f) /\ n.from = f.from
    BY SMTT(30), <1>1, <2>1, <2>2
       DEF MemoryType, SameTables, SameAnswers, SameCharges, SameKeys, SameDrain, SameLife,
           DrainFree
  <2>10. RaisedFrame(n, m) BY <1>1, <1>3, <1>5, <2>3, <2>4
                              DEF RaisedFrame, SameTables, SameAnswers, SameCharges,
                                  SameKeys, SameDrain, SameLife, DrainFree, p
  <2>11. RaisedRequests(n, m) BY <1>1, <1>3, <1>5, <2>3, <2>4
                                 DEF RaisedRequests, SameAnswers, p
  <2>12. RaisedJobs(n, m) BY <1>1, <1>3, <1>5, <2>3, <2>4 DEF RaisedJobs, p
  <2>14. RaisedFence(n, m) BY <1>1, <1>3, <1>5, <2>3, <2>4 DEF RaisedFence, SameKeys, p
  <2>15. RaisedLife(n, m, permanent)
    BY <1>1, <1>3, <1>5, <2>3, <2>4 DEF RaisedLife, SameLife, p
  <2> QED BY <2>10, <2>11, <2>12, <2>14, <2>15 DEF Raised
<1>6. CASE o = "projector"
  <2>1. CASE permanent
    <3> DEFINE q == Publish(r, Sessions, "error")
    <3>1. /\ q \in MemoryType /\ q.pc = r.pc /\ q.job = r.job /\ q.answer = r.answer
          /\ SameTables(q, r) /\ SameCharges(q, r) /\ SameKeys(q, r)
          /\ SameDrain(q, r) /\ SameLife(q, r)
          /\ \A s \in Sessions : q.future[s] = r.future[s]
                 \/ (q.future[s] = "error" /\ s \in Sessions \cap RetrySessions(r))
      BY <1>2, PublishEffect
    <3>2. n = JobTo(q, "projector", "exited") BY <1>3, <1>4, <1>6, <2>1 DEF Jobs
    <3> HIDE DEF q
    <3>3. /\ n \in MemoryType /\ n.job = Moved(q.job, "projector", "exited") /\ n.pc = q.pc
          /\ SameTables(n, q) /\ SameAnswers(n, q) /\ SameCharges(n, q) /\ SameKeys(n, q)
          /\ SameDrain(n, q) /\ SameLife(n, q)
      BY <1>a, <3>1, <3>2, JobToEffect
    <3>4. RetrySessions(r) = RetrySessions(m) BY <1>2 DEF RetrySessions
    <3>5. o \notin Sessions BY <1>a, <1>3, <1>6
    <3>10. RaisedFrame(n, m) BY <1>2, <1>3, <1>6, <2>1, <3>1, <3>3, <3>4, <3>5
                                DEF RaisedFrame, SameTables, SameAnswers, SameCharges,
                                    SameKeys, SameDrain, SameLife, DrainFree, JobType
    <3>11. RaisedRequests(n, m)
      BY <1>2, <1>3, <1>6, <2>1, <3>1, <3>3, <3>4, <3>5
         DEF RaisedRequests, SameAnswers, JobType
    <3>12. RaisedJobs(n, m) BY <1>2, <1>3, <1>6, <2>1, <3>1, <3>3, <3>4, <3>5 DEF RaisedJobs
    <3>14. RaisedFence(n, m) BY <1>2, <1>3, <1>6, <2>1, <3>1, <3>3, <3>4, <3>5
                                DEF RaisedFence, SameKeys, JobType
    <3>15. RaisedLife(n, m, permanent)
      BY <1>2, <1>3, <1>6, <2>1, <3>1, <3>3, <3>4, <3>5 DEF RaisedLife, SameLife, JobType
    <3> QED BY <3>10, <3>11, <3>12, <3>14, <3>15 DEF Raised
  <2>2. CASE ~ permanent
    <3> DEFINE q == JobTo(r, "projector", "wait")
    <3>1. /\ q \in MemoryType /\ q.job = Moved(r.job, "projector", "wait") /\ q.pc = r.pc
          /\ SameTables(q, r) /\ SameAnswers(q, r) /\ SameCharges(q, r) /\ SameKeys(q, r)
          /\ SameDrain(q, r) /\ SameLife(q, r)
      BY <1>a, <1>2, JobToEffect
    <3>2. n = [q EXCEPT !.retryNeeded = TRUE] BY <1>3, <1>4, <1>6, <2>2 DEF Jobs
    <3> HIDE DEF q
    <3>3. /\ n \in MemoryType /\ n.job = q.job /\ n.pc = q.pc
          /\ SameTables(n, q) /\ SameAnswers(n, q) /\ SameCharges(n, q) /\ SameKeys(n, q)
          /\ SameDrain(n, q) /\ SameLife(n, q)
      BY ZenonT(60), <3>1, <3>2
         DEF MemoryType, SameTables, SameAnswers, SameCharges, SameKeys, SameDrain,
             SameLife, DrainFree
    <3>5. o \notin Sessions BY <1>a, <1>3, <1>6
    <3>10. RaisedFrame(n, m) BY <1>2, <1>3, <1>6, <2>2, <3>1, <3>3, <3>5
                                DEF RaisedFrame, SameTables, SameAnswers, SameCharges,
                                    SameKeys, SameDrain, SameLife, DrainFree, JobType
    <3>11. RaisedRequests(n, m)
      BY <1>2, <1>3, <1>6, <2>2, <3>1, <3>3, <3>5 DEF RaisedRequests, SameAnswers, JobType
    <3>12. RaisedJobs(n, m) BY <1>2, <1>3, <1>6, <2>2, <3>1, <3>3, <3>5 DEF RaisedJobs
    <3>14. RaisedFence(n, m) BY <1>2, <1>3, <1>6, <2>2, <3>1, <3>3, <3>5
                                DEF RaisedFence, SameKeys, JobType
    <3>15. RaisedLife(n, m, permanent)
      BY <1>2, <1>3, <1>6, <2>2, <3>1, <3>3, <3>5 DEF RaisedLife, SameLife, JobType
    <3> QED BY <3>10, <3>11, <3>12, <3>14, <3>15 DEF Raised
  <2> QED BY <2>1, <2>2
<1>7. CASE o \in {"start", "stop"}
  <2> DEFINE x == IF o = "stop" THEN "failed" ELSE IF r.fatal THEN "failed" ELSE "blocked"
             q == [r EXCEPT !.state = x]
  <2>1. x \in States BY DEF States
  <2>2. n = JobDone(q, o) BY <1>3, <1>4, <1>7 DEF Jobs
  <2> HIDE DEF x
  <2>3. /\ q \in MemoryType /\ q.job = r.job /\ q.pc = r.pc
        /\ SameTables(q, r) /\ SameAnswers(q, r) /\ SameCharges(q, r) /\ SameKeys(q, r)
        /\ SameDrain(q, r) /\ q.state = x /\ q.fatal = r.fatal /\ q.init = r.init
    BY SMTT(30), <1>2, <2>1
       DEF MemoryType, SameTables, SameAnswers, SameCharges, SameKeys, SameDrain, SameLife,
           DrainFree
  <2> HIDE DEF q
  <2>4. /\ n \in MemoryType /\ n.job = Ended(q.job, o) /\ n.pc = q.pc
        /\ SameTables(n, q) /\ SameAnswers(n, q) /\ SameCharges(n, q) /\ SameKeys(n, q)
        /\ SameDrain(n, q) /\ SameLife(n, q)
    BY <1>a, <1>7, <2>2, <2>3, JobDoneEffect
  <2>5. o \notin Sessions BY <1>a, <1>3, <1>7
  <2>10. RaisedFrame(n, m) BY <1>2, <1>3, <1>7, <2>3, <2>4, <2>5
                              DEF RaisedFrame, SameTables, SameAnswers, SameCharges,
                                  SameKeys, SameDrain, SameLife, DrainFree, x
  <2>11. RaisedRequests(n, m) BY <1>2, <1>3, <1>7, <2>3, <2>4, <2>5
                                 DEF RaisedRequests, SameAnswers, x
  <2>12. RaisedJobs(n, m) BY <1>2, <1>3, <1>7, <2>3, <2>4, <2>5 DEF RaisedJobs, x
  <2>14. RaisedFence(n, m) BY <1>2, <1>3, <1>7, <2>3, <2>4, <2>5 DEF RaisedFence, SameKeys, x
  <2>15. RaisedLife(n, m, permanent)
    BY <1>2, <1>3, <1>7, <2>3, <2>4, <2>5 DEF RaisedLife, SameLife, x
  <2> QED BY <2>10, <2>11, <2>12, <2>14, <2>15 DEF Raised
<1>8. CASE o = "update"
  <2> DEFINE k == f.job["update"].key
             q == Unfence(f, k, "in_flight")
  <2>1. n = JobDone(q, "update") BY <1>a, <1>3, <1>4, <1>8
  <2>2. /\ q \in MemoryType
        /\ q.pc = f.pc /\ q.job = f.job
        /\ SameTables(q, f) /\ SameAnswers(q, f) /\ SameCharges(q, f)
        /\ q.resetPending = f.resetPending /\ q.deleted = f.deleted
        /\ q.fence = f.fence \/ (q.fence = Lifted(f.fence, k, "none") /\ f.fence[k] = "in_flight")
        /\ SameDrain(q, f) /\ SameLife(q, f)
    BY <1>1, UnfenceEffect
  <2> HIDE DEF q
  <2>3. /\ n \in MemoryType /\ n.job = Ended(q.job, "update") /\ n.pc = q.pc
        /\ SameTables(n, q) /\ SameAnswers(n, q) /\ SameCharges(n, q) /\ SameKeys(n, q)
        /\ SameDrain(n, q) /\ SameLife(n, q)
    BY <1>a, <2>1, <2>2, JobDoneEffect
  <2>4. o \notin Sessions BY <1>a, <1>3, <1>8
  <2>10. RaisedFrame(n, m) BY <1>1, <1>3, <1>8, <2>2, <2>3, <2>4
                              DEF RaisedFrame, SameTables, SameAnswers, SameCharges,
                                  SameKeys, SameDrain, SameLife, DrainFree
  <2>11. RaisedRequests(n, m) BY <1>1, <1>3, <1>8, <2>2, <2>3, <2>4
                                 DEF RaisedRequests, SameAnswers
  <2>12. RaisedJobs(n, m) BY <1>1, <1>3, <1>8, <2>2, <2>3, <2>4 DEF RaisedJobs
  <2>14. RaisedFence(n, m) BY <1>1, <1>3, <1>8, <2>2, <2>3, <2>4 DEF RaisedFence, SameKeys
  <2>15. RaisedLife(n, m, permanent)
    BY <1>1, <1>3, <1>8, <2>2, <2>3, <2>4 DEF RaisedLife, SameLife
  <2> QED BY <2>10, <2>11, <2>12, <2>14, <2>15 DEF Raised
<1>9. CASE o = "reset"
  <2>1. n = JobDone(f, "reset") BY <1>3, <1>4, <1>9 DEF Jobs
  <2>2. /\ n \in MemoryType /\ n.job = Ended(f.job, "reset") /\ n.pc = f.pc
        /\ SameTables(n, f) /\ SameAnswers(n, f) /\ SameCharges(n, f) /\ SameKeys(n, f)
        /\ SameDrain(n, f) /\ SameLife(n, f)
    BY <1>a, <1>1, <2>1, JobDoneEffect
  <2>3. o \notin Sessions BY <1>a, <1>3, <1>9
  <2>10. RaisedFrame(n, m) BY <1>1, <1>3, <1>9, <2>2, <2>3
                              DEF RaisedFrame, SameTables, SameAnswers, SameCharges,
                                  SameKeys, SameDrain, SameLife, DrainFree
  <2>11. RaisedRequests(n, m) BY <1>1, <1>3, <1>9, <2>2, <2>3 DEF RaisedRequests, SameAnswers
  <2>12. RaisedJobs(n, m) BY <1>1, <1>3, <1>9, <2>2, <2>3 DEF RaisedJobs
  <2>14. RaisedFence(n, m) BY <1>1, <1>3, <1>9, <2>2, <2>3 DEF RaisedFence, SameKeys
  <2>15. RaisedLife(n, m, permanent) BY <1>1, <1>3, <1>9, <2>2, <2>3 DEF RaisedLife, SameLife
  <2> QED BY <2>10, <2>11, <2>12, <2>14, <2>15 DEF Raised
<1>10. CASE o = "delete"
  <2> DEFINE k == f.job["delete"].key
             x == IF f.job["delete"].flag THEN "reset" ELSE "none"
             g == [f.fence EXCEPT ![k] = x]
             q == [f EXCEPT !.fence = g]
  <2>1. g \in [Keys -> Fences] BY <1>1 DEF MemoryType, Fences
  <2>2. n = JobDone(q, "delete")
    <3>1. n = JobDone([f EXCEPT !.fence[k] = x], "delete") BY <1>3, <1>4, <1>10 DEF Jobs
    <3>2. [f EXCEPT !.fence[k] = x] = q BY <1>1 DEF MemoryType
    <3> QED BY <3>1, <3>2
  <2> HIDE DEF g
  <2>3. /\ q \in MemoryType /\ q.job = f.job /\ q.pc = f.pc
        /\ SameTables(q, f) /\ SameAnswers(q, f) /\ SameCharges(q, f)
        /\ q.fence = g /\ q.resetPending = f.resetPending /\ q.deleted = f.deleted
        /\ SameDrain(q, f) /\ SameLife(q, f)
    BY SMTT(30), <1>1, <2>1
       DEF MemoryType, SameTables, SameAnswers, SameCharges, SameKeys, SameDrain, SameLife,
           DrainFree
  <2> HIDE DEF q
  <2>4. /\ n \in MemoryType /\ n.job = Ended(q.job, "delete") /\ n.pc = q.pc
        /\ SameTables(n, q) /\ SameAnswers(n, q) /\ SameCharges(n, q) /\ SameKeys(n, q)
        /\ SameDrain(n, q) /\ SameLife(n, q)
    BY <1>a, <2>2, <2>3, JobDoneEffect
  <2>5. o \notin Sessions BY <1>a, <1>3, <1>10
  <2>10. RaisedFrame(n, m) BY <1>1, <1>3, <1>10, <2>3, <2>4, <2>5
                              DEF RaisedFrame, SameTables, SameAnswers, SameCharges,
                                  SameKeys, SameDrain, SameLife, DrainFree, g
  <2>11. RaisedRequests(n, m) BY <1>1, <1>3, <1>10, <2>3, <2>4, <2>5
                                 DEF RaisedRequests, SameAnswers, g
  <2>12. RaisedJobs(n, m) BY <1>1, <1>3, <1>10, <2>3, <2>4, <2>5 DEF RaisedJobs, g
  <2>14. RaisedFence(n, m) BY <1>1, <1>3, <1>10, <2>3, <2>4, <2>5
                              DEF RaisedFence, SameKeys, g, Lifted
  <2>15. RaisedLife(n, m, permanent)
    BY <1>1, <1>3, <1>10, <2>3, <2>4, <2>5 DEF RaisedLife, SameLife, g
  <2> QED BY <2>10, <2>11, <2>12, <2>14, <2>15 DEF Raised
<1> QED BY <1>3, <1>5, <1>6, <1>7, <1>8, <1>9, <1>10 DEF Jobs

\* What the end of a projection leaves behind, by the caller it was made for.
EndsSession(n, m, res) ==
    /\ n \in MemoryType /\ DrainFree(n) /\ n.from = m.from /\ n.job = m.job
    /\ Leaves(n, m, m.ev) /\ n.liable = m.liable
    /\ n.reserved = IF res = "permanent" /\ m.ev \notin m.liable
                    THEN m.reserved \ {m.ev} ELSE m.reserved
    /\ SameTables(n, m) /\ SameAnswers(n, m) /\ SameKeys(n, m)
    /\ n.init = m.init
    /\ IF res = "permanent" THEN n.fatal = TRUE /\ n.state = "failed"
       ELSE n.fatal = m.fatal /\ n.state = m.state
Resumes(n, m) ==
    /\ n \in MemoryType /\ n.step = m.from /\ n.owner = m.owner /\ n.todo = m.todo
    /\ n.from = m.from /\ n.record = m.record /\ n.pc = m.pc /\ n.job = m.job
    /\ n.answer = m.answer
    /\ \A s \in Sessions : n.future[s] = m.future[s]
           \/ /\ n.future[s] = "receipt" /\ m.from = "retained"
              /\ s = m.ev /\ s \in RetrySessions(m)
    /\ SameTables(n, m) /\ SameCharges(n, m) /\ SameKeys(n, m) /\ SameLife(n, m)
ProjectionEnds(n, m, res) ==
    /\ m.from = "session" => EndsSession(n, m, res)
    /\ m.from # "session" /\ res = "permanent" => Raised(n, m, TRUE)
    /\ m.from # "session" /\ res # "permanent" => Resumes(n, m)

\* What the end of a projection does, for each result.
LEMMA EndEffect ==
    ASSUME NEW m \in MemoryType, m.ev \in Sessions, m.owner \in Sessions \cup Jobs, NEW res
    PROVE  ProjectionEnds(EndProjection(m, res), m, res)
<1> DEFINE e == m.ev
           noted == IF m.from = "session" /\ res \in {"tolerated", "permanent"}
                    THEN WakeProjector(m) ELSE m
           c == [noted EXCEPT !.ev = NoEvent, !.err = "none"]
           n == EndProjection(m, res)
<1>1. /\ noted \in MemoryType /\ noted.pc = m.pc /\ noted.job = m.job
      /\ SameTables(noted, m) /\ SameAnswers(noted, m) /\ SameCharges(noted, m)
      /\ SameKeys(noted, m) /\ SameDrain(noted, m) /\ SameLife(noted, m)
  <2>1. CASE m.from = "session" /\ res \in {"tolerated", "permanent"}
    <3>1. noted = WakeProjector(m) BY <2>1
    <3> HIDE DEF noted
    <3> QED BY <3>1, WakeEffect
  <2>2. CASE ~ (m.from = "session" /\ res \in {"tolerated", "permanent"})
    <3>1. noted = m BY <2>2
    <3> HIDE DEF noted
    <3> QED BY <3>1 DEF SameTables, SameAnswers, SameCharges, SameKeys, SameDrain,
           SameLife, DrainFree
  <2> QED BY <2>1, <2>2
<1>2. n = CASE c.from = "session" /\ res = "permanent" -> FinishFailed(Fails(FreeDrain(c)), e)
          [] c.from = "session" /\ res # "permanent" -> Detach(FreeDrain(c), e)
          [] c.from = "retained" /\ res = "permanent" -> RaiseOut(Publish(c, {e}, "error"), TRUE)
          [] c.from = "retained" /\ res # "permanent" ->
                [Publish(c, {e}, "receipt") EXCEPT !.step = "retained", !.ok = @ /\ res # "pending"]
          [] c.from = "pending" /\ res = "permanent" -> RaiseOut(c, TRUE)
          [] c.from = "pending" /\ res # "permanent" ->
                [c EXCEPT !.step = "pending", !.penClean = @ /\ res # "pending",
                          !.tolerated = @ \/ res = "tolerated"]
  BY DEF EndProjection
<1> SUFFICES ProjectionEnds(n, m, res) OBVIOUS
<1> HIDE DEF noted
<1>3. c \in MemoryType BY ZenonT(60), <1>1 DEF MemoryType
<1>4. /\ c.pc = m.pc /\ c.job = m.job
      /\ SameTables(c, m) /\ SameAnswers(c, m) /\ SameCharges(c, m)
      /\ SameKeys(c, m) /\ SameLife(c, m)
  BY <1>1 DEF MemoryType, SameTables, SameAnswers, SameCharges, SameKeys, SameDrain,
           SameLife, DrainFree
<1>5. c.owner = m.owner /\ c.step = m.step /\ c.todo = m.todo /\ c.from = m.from /\ c.record = m.record
  BY <1>1 DEF MemoryType, SameDrain
<1>6. m.from \in {"session", "retained", "pending"} BY DEF MemoryType
<1> HIDE DEF c, n
<1> DEFINE f == FreeDrain(c)
<1>7. /\ f \in MemoryType /\ DrainFree(f) /\ f.pc = c.pc /\ f.job = c.job
      /\ SameTables(f, c) /\ SameAnswers(f, c) /\ SameCharges(f, c) /\ SameKeys(f, c)
      /\ SameLife(f, c) /\ f.from = c.from
  BY <1>3, FreeDrainEffect
<1> HIDE DEF f
<1>8. CASE m.from = "session" /\ res = "permanent"
  <2> DEFINE g == Fails(f)
  <2>1. n = FinishFailed(g, e) BY <1>2, <1>5, <1>8 DEF f
  <2>2. /\ g \in MemoryType /\ g.pc = f.pc /\ g.job = f.job
        /\ SameTables(g, f) /\ SameAnswers(g, f) /\ SameCharges(g, f) /\ SameKeys(g, f)
        /\ SameDrain(g, f) /\ g.fatal = TRUE /\ g.init = f.init /\ g.state = "failed"
    BY <1>7, FailsEffect
  <2> HIDE DEF g
  <2>3. /\ n \in MemoryType /\ Leaves(n, g, e)
        /\ n.job = g.job /\ n.liable = g.liable
        /\ n.reserved = IF e \in g.liable THEN g.reserved ELSE g.reserved \ {e}
        /\ SameTables(n, g) /\ SameAnswers(n, g) /\ SameKeys(n, g)
        /\ SameDrain(n, g) /\ SameLife(n, g)
    BY <2>1, <2>2, FinishEffect
  <2>4. Leaves(n, m, e) BY <1>4, <1>7, <2>2, <2>3 DEF Leaves, SameKeys
  <2>5. EndsSession(n, m, res)
    BY <1>4, <1>5, <1>7, <1>8, <2>2, <2>3, <2>4
    DEF EndsSession, SameTables, SameAnswers, SameCharges, SameKeys, SameDrain,
           SameLife, DrainFree
  <2> QED BY <1>8, <2>5 DEF ProjectionEnds
<1>9. CASE m.from = "session" /\ res # "permanent"
  <2>1. n = Detach(f, e) BY <1>2, <1>5, <1>9 DEF f
  <2>2. /\ n \in MemoryType /\ Leaves(n, f, e) /\ n.job = f.job
        /\ SameTables(n, f) /\ SameAnswers(n, f) /\ SameCharges(n, f) /\ SameKeys(n, f)
        /\ SameDrain(n, f) /\ SameLife(n, f)
    BY <1>7, <2>1, DetachEffect
  <2>3. Leaves(n, m, e) BY <1>4, <1>7, <2>2 DEF Leaves, SameKeys
  <2>4. EndsSession(n, m, res)
    BY <1>4, <1>5, <1>7, <1>9, <2>2, <2>3
    DEF EndsSession, SameTables, SameAnswers, SameCharges, SameKeys, SameDrain,
           SameLife, DrainFree
  <2> QED BY <1>9, <2>4 DEF ProjectionEnds
<1>10. CASE m.from = "retained" /\ res = "permanent"
  <2> DEFINE g == Publish(c, {e}, "error")
  <2>1. n = RaiseOut(g, TRUE) BY <1>2, <1>5, <1>10
  <2>2. /\ g \in MemoryType /\ g.pc = c.pc /\ g.job = c.job /\ g.answer = c.answer
        /\ SameTables(g, c) /\ SameCharges(g, c) /\ SameKeys(g, c)
        /\ SameDrain(g, c) /\ SameLife(g, c)
        /\ \A s \in Sessions : g.future[s] = c.future[s]
               \/ (g.future[s] = "error" /\ s \in {e} \cap RetrySessions(c))
    BY <1>3, PublishEffect
  <2> HIDE DEF g
  <2>3. Raised(n, g, TRUE)
    <3>1. g.owner \in Sessions \cup Jobs BY <1>5, <2>2 DEF SameDrain
    <3> QED BY <2>1, <2>2, <3>1, RaiseEffect
  <2>4. RetrySessions(g) = RetrySessions(m) /\ RetrySessions(c) = RetrySessions(m)
    BY <1>4, <2>2 DEF RetrySessions
  <2>5. RaisedFrame(n, m) BY <1>4, <1>5, <2>2, <2>3
                             DEF Raised, RaisedFrame, SameTables, SameAnswers, SameCharges,
                                 SameKeys, SameDrain,
           SameLife, DrainFree
  <2>6. RaisedRequests(n, m)
    BY <1>4, <1>5, <2>2, <2>3, <2>4 DEF Raised, RaisedRequests, SameAnswers, SameDrain
  <2>7. RaisedJobs(n, m) BY <1>4, <1>5, <2>2, <2>3 DEF Raised, RaisedJobs, SameDrain
  <2>8. RaisedFence(n, m) BY <1>4, <1>5, <2>2, <2>3
                             DEF Raised, RaisedFence, SameDrain, SameKeys
  <2>9. RaisedLife(n, m, TRUE)
    BY <1>4, <1>5, <2>2, <2>3 DEF Raised, RaisedLife, SameDrain, SameLife
  <2> QED BY <1>10, <2>5, <2>6, <2>7, <2>8, <2>9 DEF ProjectionEnds, Raised
<1>11. CASE m.from = "pending" /\ res = "permanent"
  <2>1. n = RaiseOut(c, TRUE) BY <1>2, <1>5, <1>11
  <2>2. Raised(n, c, TRUE)
    <3>1. c.owner \in Sessions \cup Jobs BY <1>5
    <3> QED BY <1>3, <2>1, <3>1, RaiseEffect
  <2>3. RetrySessions(c) = RetrySessions(m) BY <1>4 DEF RetrySessions
  <2>4. RaisedFrame(n, m) BY <1>4, <1>5, <2>2
                             DEF Raised, RaisedFrame, SameTables, SameAnswers, SameCharges,
                                 SameKeys, SameDrain,
           SameLife, DrainFree
  <2>5. RaisedRequests(n, m)
    BY <1>4, <1>5, <2>2, <2>3 DEF Raised, RaisedRequests, SameAnswers
  <2>6. RaisedJobs(n, m) BY <1>4, <1>5, <2>2 DEF Raised, RaisedJobs
  <2>7. RaisedFence(n, m) BY <1>4, <1>5, <2>2 DEF Raised, RaisedFence, SameKeys
  <2>8. RaisedLife(n, m, TRUE) BY <1>4, <1>5, <2>2 DEF Raised, RaisedLife, SameLife
  <2> QED BY <1>11, <2>4, <2>5, <2>6, <2>7, <2>8 DEF ProjectionEnds, Raised
<1>12. CASE m.from = "retained" /\ res # "permanent"
  <2> DEFINE g == Publish(c, {e}, "receipt")
             ok == g.ok /\ res # "pending"
  <2>1. n = [g EXCEPT !.step = "retained", !.ok = ok] BY <1>2, <1>5, <1>12
  <2>2. /\ g \in MemoryType /\ g.pc = c.pc /\ g.job = c.job /\ g.answer = c.answer
        /\ SameTables(g, c) /\ SameCharges(g, c) /\ SameKeys(g, c)
        /\ SameDrain(g, c) /\ SameLife(g, c)
        /\ \A s \in Sessions : g.future[s] = c.future[s]
               \/ (g.future[s] = "receipt" /\ s \in {e} \cap RetrySessions(c))
    BY <1>3, PublishEffect
  <2>3. ok \in BOOLEAN OBVIOUS
  <2> HIDE DEF g, ok
  <2>4. n \in MemoryType BY ZenonT(60), <2>1, <2>2, <2>3 DEF MemoryType, DrainSteps
  <2>5. /\ n.step = "retained" /\ n.owner = g.owner /\ n.todo = g.todo /\ n.from = g.from
        /\ n.record = g.record /\ n.pc = g.pc /\ n.job = g.job /\ n.answer = g.answer
        /\ n.future = g.future
    BY <2>1, <2>2 DEF MemoryType
  <2>6. SameTables(n, g) /\ SameCharges(n, g) /\ SameKeys(n, g) /\ SameLife(n, g)
    BY <2>1, <2>2 DEF MemoryType, SameTables, SameCharges, SameKeys, SameLife
  <2>7. RetrySessions(c) = RetrySessions(m) BY <1>4 DEF RetrySessions
  <2>8. Resumes(n, m)
    BY <1>4, <1>5, <1>12, <2>2, <2>4, <2>5, <2>6, <2>7
    DEF Resumes, SameTables, SameAnswers, SameCharges, SameKeys, SameLife, SameDrain
  <2> QED BY <1>12, <2>8 DEF ProjectionEnds
<1>13. CASE m.from = "pending" /\ res # "permanent"
  <2> DEFINE clean == c.penClean /\ res # "pending"
             tolerated == c.tolerated \/ res = "tolerated"
  <2>1. n = [c EXCEPT !.step = "pending", !.penClean = clean, !.tolerated = tolerated]
    BY <1>2, <1>5, <1>13
  <2>3. clean \in BOOLEAN /\ tolerated \in BOOLEAN OBVIOUS
  <2> HIDE DEF clean, tolerated
  <2>4. n \in MemoryType
    <3> DEFINE x == [c EXCEPT !.step = "pending", !.penClean = clean]
    <3>1. x \in MemoryType BY ZenonT(60), <1>3, <2>3 DEF MemoryType, DrainSteps
    <3>2. n = [x EXCEPT !.tolerated = tolerated] BY <1>3, <2>1 DEF MemoryType
    <3> HIDE DEF x
    <3> QED BY SMTT(30), <3>1, <3>2, <2>3 DEF MemoryType
  <2>5. /\ n.step = "pending" /\ n.owner = c.owner /\ n.todo = c.todo /\ n.from = c.from
        /\ n.record = c.record /\ n.pc = c.pc /\ n.job = c.job
    BY <1>3, <2>1 DEF MemoryType
  <2>6. /\ SameTables(n, c) /\ SameAnswers(n, c) /\ SameCharges(n, c) /\ SameKeys(n, c)
        /\ SameLife(n, c)
    BY <1>3, <2>1 DEF MemoryType, SameTables, SameAnswers, SameCharges, SameKeys, SameLife
  <2>8. Resumes(n, m)
    BY <1>4, <1>5, <1>13, <2>4, <2>5, <2>6
    DEF Resumes, SameTables, SameAnswers, SameCharges, SameKeys, SameLife
  <2> QED BY <1>13, <2>8 DEF ProjectionEnds
<1> QED BY <1>6, <1>8, <1>9, <1>10, <1>11, <1>12, <1>13

---------------------------------------------------------------------------
(* What the database calls write.                                          *)

\* The source's transaction only adds the event to the accepted ones.
LEMMA AcceptedByEffect ==
    ASSUME NEW d \in DatabaseType, NEW e \in Sessions
    PROVE  LET c == AcceptedBy(d, e) IN
           /\ c \in DatabaseType /\ c.accepted = d.accepted \cup {e}
           /\ c.projected = d.projected /\ c.receipts = d.receipts /\ c.spent = d.spent
           /\ c.active = d.active /\ c.due = d.due
  BY DEF AcceptedBy, DatabaseType

\* The mark in the source only adds the event to the projected ones.
LEMMA ProjectedByEffect ==
    ASSUME NEW d \in DatabaseType, NEW e \in Sessions
    PROVE  LET c == ProjectedBy(d, e) IN
           /\ c \in DatabaseType /\ c.projected = d.projected \cup {e}
           /\ c.accepted = d.accepted /\ c.receipts = d.receipts /\ c.spent = d.spent
           /\ c.active = d.active /\ c.due = d.due
  BY DEF ProjectedBy, DatabaseType

\* The sink charges an event with its receipt, or has charged it before.
LEMMA AppliedByEffect ==
    ASSUME NEW d \in DatabaseType, NEW e \in Sessions
    PROVE  LET c == AppliedBy(d, e) IN
           /\ c \in DatabaseType
           /\ c.receipts = d.receipts \cup {e}
           /\ c.accepted = d.accepted /\ c.projected = d.projected
           /\ c.active = d.active /\ c.due = d.due
           /\ c.spent = IF e \in d.receipts THEN d.spent
                        ELSE [d.spent EXCEPT ![KeyOf[e]] = @ + Cost[e]]
<1>1. CASE e \in d.receipts
  <2>1. AppliedBy(d, e) = d BY <1>1 DEF AppliedBy
  <2>2. d.receipts = d.receipts \cup {e} BY <1>1
  <2> QED BY <1>1, <2>1, <2>2
<1>2. CASE e \notin d.receipts
  <2> DEFINE g == [d.spent EXCEPT ![KeyOf[e]] = @ + Cost[e]]
  <2>1. g \in [Keys -> Nat]
    <3>1. KeyOf[e] \in Keys /\ Cost[e] \in Nat /\ d.spent \in [Keys -> Nat]
      BY AccountingConstants DEF DatabaseType
    <3> QED BY <3>1
  <2>2. AppliedBy(d, e) = [d EXCEPT !.receipts = @ \cup {e}, !.spent = g]
    BY <1>2 DEF AppliedBy, DatabaseType
  <2> HIDE DEF g
  <2>3. LET c == [d EXCEPT !.receipts = @ \cup {e}, !.spent = g] IN
        /\ c \in DatabaseType /\ c.receipts = d.receipts \cup {e} /\ c.spent = g
        /\ c.accepted = d.accepted /\ c.projected = d.projected
        /\ c.active = d.active /\ c.due = d.due
    BY <2>1 DEF DatabaseType
  <2> QED BY <1>2, <2>2, <2>3 DEF g
<1> QED BY <1>1, <1>2

\* A key mutation touches the spend, the life and the due date of its key alone.
LEMMA MutatedByEffect ==
    ASSUME NEW d \in DatabaseType, NEW k \in Keys
    PROVE  LET c == MutatedBy(d, k) IN
           /\ c \in DatabaseType
           /\ c.accepted = d.accepted /\ c.projected = d.projected /\ c.receipts = d.receipts
           /\ c.active \subseteq d.active /\ c.due \subseteq d.due
           /\ \/ c.spent = d.spent
              \/ /\ c.spent = [d.spent EXCEPT ![k] = 0] /\ k \in d.active /\ mem.owner # "delete"
                 /\ mem.owner = "update" => mem.job["update"].flag
                 /\ mem.owner # "update" => k \in d.due
           /\ mem.owner \notin {"update", "delete"} => k \notin c.due \cap c.active
           /\ mem.owner = "delete" => k \notin c.active
<1> DEFINE c == MutatedBy(d, k)
           z == [d.spent EXCEPT ![k] = 0]
<1>1. c = IF k \notin d.active THEN d
          ELSE CASE mem.owner = "delete" -> [d EXCEPT !.active = @ \ {k}]
                 [] mem.owner = "update" ->
                      IF mem.job["update"].flag THEN [d EXCEPT !.spent[k] = 0] ELSE d
                 [] OTHER -> IF k \in d.due THEN [d EXCEPT !.spent[k] = 0, !.due = @ \ {k}] ELSE d
  BY DEF MutatedBy
<1>2. z \in [Keys -> Nat] BY DEF DatabaseType
<1>3. /\ [d EXCEPT !.spent[k] = 0] = [d EXCEPT !.spent = z]
      /\ [d EXCEPT !.spent[k] = 0, !.due = @ \ {k}] = [d EXCEPT !.spent = z, !.due = @ \ {k}]
  BY DEF DatabaseType
<1> SUFFICES /\ c \in DatabaseType
             /\ c.accepted = d.accepted /\ c.projected = d.projected /\ c.receipts = d.receipts
             /\ c.active \subseteq d.active /\ c.due \subseteq d.due
             /\ \/ c.spent = d.spent
                \/ /\ c.spent = z /\ k \in d.active /\ mem.owner # "delete"
                   /\ mem.owner = "update" => mem.job["update"].flag
                   /\ mem.owner # "update" => k \in d.due
             /\ mem.owner \notin {"update", "delete"} => k \notin c.due \cap c.active
             /\ mem.owner = "delete" => k \notin c.active
  OBVIOUS
<1> HIDE DEF c, z
<1>4. CASE k \notin d.active
  <2>1. c = d BY <1>1, <1>4
  <2> QED BY <2>1, <1>4
<1>5. CASE k \in d.active /\ mem.owner = "delete"
  <2>1. c = [d EXCEPT !.active = @ \ {k}] BY <1>1, <1>5
  <2> QED BY <2>1, <1>5 DEF DatabaseType
<1>6. CASE k \in d.active /\ mem.owner = "update"
  <2>1. c = IF mem.job["update"].flag THEN [d EXCEPT !.spent = z] ELSE d BY <1>1, <1>3, <1>6
  <2> QED BY <2>1, <1>2, <1>6 DEF DatabaseType
<1>7. CASE k \in d.active /\ mem.owner \notin {"update", "delete"}
  <2>1. c = IF k \in d.due THEN [d EXCEPT !.spent = z, !.due = @ \ {k}] ELSE d
    BY <1>1, <1>3, <1>7
  <2> QED BY <2>1, <1>2, <1>7 DEF DatabaseType
<1> QED BY <1>4, <1>5, <1>6, <1>7

---------------------------------------------------------------------------
(* The drain lock, the projection in progress and the sessions it works    *)
(* for.                                                                    *)

Projecting == mem.step \in {"sink", "mark", "fail"}
Mutations == {"update", "reset", "delete"}

\* Only accepted events are listed or projected; a holder of the drain lock is at
\* work, and a mutation knows its key.
DrainOK ==
    /\ \A s \in Sessions : mem.pc[s] = "project" => s \in db.accepted
    /\ \A s \in Sessions : mem.pc[s] = "answered" =>
          /\ mem.answer[s] \in {"accepted", "transient", "permanent"}
          /\ mem.answer[s] = "accepted" => s \in db.accepted
    /\ mem.owner = "free" <=> mem.step = "free"
    /\ mem.step = "free" => mem.todo = {}
    /\ mem.owner \in Jobs => mem.job[mem.owner].pc = "working"
    /\ Projecting =>
          /\ mem.ev \in db.accepted
          /\ mem.from = "session" => mem.owner = mem.ev /\ mem.pc[mem.ev] = "project"
    /\ mem.step = "pending" \/ (Projecting /\ mem.from = "pending") => mem.todo \subseteq db.accepted
    /\ mem.step \in {"mutate", "applied"} => mem.owner \in Sessions \cup Mutations
    /\ \A j \in Mutations : mem.job[j].pc # "idle" => mem.job[j].key \in Keys

WorkInv == TypeOK /\ DrainOK

---------------------------------------------------------------------------
(* What the actions do, field by field.                                    *)

Goes(m, s, pc) == [m EXCEPT !.pc[s] = pc]

\* A session that moves on changes its own program counter.
LEMMA GoesEffect ==
    ASSUME NEW m \in MemoryType, NEW s \in Sessions, NEW pc \in SessionPcs
    PROVE  LET n == Goes(m, s, pc) IN
           /\ n \in MemoryType /\ n.pc = [m.pc EXCEPT ![s] = pc] /\ n.job = m.job
           /\ SameTables(n, m) /\ SameAnswers(n, m) /\ SameCharges(n, m) /\ SameKeys(n, m)
           /\ SameDrain(n, m) /\ SameLife(n, m)
<1> DEFINE p == [m.pc EXCEPT ![s] = pc]
<1>1. p \in [Sessions -> SessionPcs] BY DEF MemoryType
<1>2. Goes(m, s, pc) = [m EXCEPT !.pc = p] BY DEF Goes, MemoryType
<1> SUFFICES LET n == [m EXCEPT !.pc = p] IN
             /\ n \in MemoryType /\ n.pc = p /\ n.job = m.job
             /\ SameTables(n, m) /\ SameAnswers(n, m) /\ SameCharges(n, m) /\ SameKeys(n, m)
             /\ SameDrain(n, m) /\ SameLife(n, m)
  BY <1>2
<1> HIDE DEF p
<1> QED BY SMTT(30), <1>1
           DEF MemoryType, SameTables, SameAnswers, SameCharges, SameKeys, SameDrain, SameLife

\* A step of a request leaves the tasks, the drain and the keys alone.
RequestStep(n, m) ==
    /\ n \in MemoryType /\ n.job = m.job /\ n.init = m.init
    /\ SameKeys(n, m) /\ SameDrain(n, m)

\* Synchronising a key's record from the sink changes the ledger alone.
LEMMA SyncEffect ==
    ASSUME NEW m \in MemoryType, NEW k \in Keys, db \in DatabaseType
    PROVE  LET n == SyncRecord(m, k) IN
           /\ n \in MemoryType /\ n.pc = m.pc /\ n.job = m.job
           /\ SameTables(n, m) /\ SameAnswers(n, m) /\ SameCharges(n, m) /\ SameKeys(n, m)
           /\ SameDrain(n, m) /\ SameLife(n, m)
<1> DEFINE l == [m.ledger EXCEPT ![k] = db.spent[k]]
           d == m.known \cup {k}
           c == [m EXCEPT !.known = d, !.ledger = l]
<1>1. l \in [Keys -> Nat] /\ d \in SUBSET Keys BY DEF MemoryType, DatabaseType
<1>2. SyncRecord(m, k) = IF k \in m.known THEN m ELSE c BY DEF SyncRecord, MemoryType
<1> HIDE DEF l, d
<1>3. c \in MemoryType BY <1>1 DEF MemoryType
<1>4. /\ c.pc = m.pc /\ c.job = m.job
      /\ SameTables(c, m) /\ SameAnswers(c, m) /\ SameCharges(c, m) /\ SameKeys(c, m)
      /\ SameDrain(c, m) /\ SameLife(c, m)
  BY DEF MemoryType, SameTables, SameAnswers, SameCharges, SameKeys, SameDrain, SameLife
<1> HIDE DEF c
<1> QED BY <1>2, <1>3, <1>4
        DEF SameTables, SameAnswers, SameCharges, SameKeys, SameDrain, SameLife

\* A request is admitted only by a running service, on a key without a fence.
LEMMA ReserveEffect ==
    ASSUME WorkInv, NEW s \in Sessions, Reserve(s)
    PROVE  /\ RequestStep(mem', mem) /\ db' = db
           /\ mem.pc[s] = "none" /\ mem.state = "running" /\ mem.fence[KeyOf[s]] = "none"
           /\ SameTables(mem', mem) /\ SameAnswers(mem', mem) /\ SameLife(mem', mem)
           /\ mem'.liable = mem.liable
           /\ \/ mem'.pc = mem.pc /\ mem'.reserved = mem.reserved
              \/ /\ mem'.pc = [mem.pc EXCEPT ![s] = "reserved"]
                 /\ mem'.reserved = mem.reserved \cup {s}
<1> DEFINE k == KeyOf[s]
           m == SyncRecord(mem, k)
<1>1. KeyOf[s] \in Keys /\ mem \in MemoryType /\ db \in DatabaseType
  BY AccountingConstants DEF WorkInv, TypeOK
<1>2. /\ m \in MemoryType /\ m.pc = mem.pc /\ m.job = mem.job
      /\ SameTables(m, mem) /\ SameAnswers(m, mem) /\ SameCharges(m, mem) /\ SameKeys(m, mem)
      /\ SameDrain(m, mem) /\ SameLife(m, mem)
  BY <1>1, SyncEffect
<1>3. /\ mem.pc[s] = "none" /\ mem.state = "running" /\ mem.fence[k] = "none" /\ db' = db
      /\ mem' = [m EXCEPT !.pc[s] = "reserved", !.reserved = @ \cup {s}] \/ mem' = m
  BY DEF Reserve
<1> HIDE DEF m
<1>4. CASE mem' = m
  BY <1>2, <1>3, <1>4 DEF RequestStep, SameCharges, SameLife
<1>5. CASE mem' = [m EXCEPT !.pc[s] = "reserved", !.reserved = @ \cup {s}]
  <2> DEFINE g == Goes(m, s, "reserved")
  <2>1. /\ g \in MemoryType /\ g.pc = [m.pc EXCEPT ![s] = "reserved"] /\ g.job = m.job
        /\ SameTables(g, m) /\ SameAnswers(g, m) /\ SameCharges(g, m) /\ SameKeys(g, m)
        /\ SameDrain(g, m) /\ SameLife(g, m)
    <3>1. "reserved" \in SessionPcs BY DEF SessionPcs
    <3> QED BY <1>2, <3>1, GoesEffect
  <2>2. mem' = [g EXCEPT !.reserved = @ \cup {s}] BY <1>2, <1>5 DEF Goes, MemoryType
  <2> HIDE DEF g
  <2>3. /\ mem' \in MemoryType /\ mem'.pc = g.pc /\ mem'.job = g.job
        /\ mem'.reserved = g.reserved \cup {s} /\ mem'.liable = g.liable
        /\ SameTables(mem', g) /\ SameAnswers(mem', g) /\ SameKeys(mem', g)
        /\ SameDrain(mem', g) /\ SameLife(mem', g)
    BY SMTT(30), <2>1, <2>2
       DEF MemoryType, SameTables, SameAnswers, SameKeys, SameDrain, SameLife
  <2> QED BY <1>2, <1>3, <2>1, <2>3
          DEF RequestStep, SameTables, SameAnswers, SameCharges, SameKeys, SameDrain, SameLife
<1> QED BY <1>3, <1>4, <1>5

\* A release begins: the session alone moves on.
LEMMA ReleaseStepEffect ==
    ASSUME WorkInv, NEW s \in Sessions, Release(s)
    PROVE  /\ RequestStep(mem', mem) /\ db' = db
           /\ mem.pc[s] = "reserved" /\ mem'.pc = [mem.pc EXCEPT ![s] = "releasing"]
           /\ SameTables(mem', mem) /\ SameAnswers(mem', mem) /\ SameCharges(mem', mem)
           /\ SameLife(mem', mem)
<1>1. mem \in MemoryType /\ "releasing" \in SessionPcs BY DEF WorkInv, TypeOK, SessionPcs
<1>2. mem.pc[s] = "reserved" /\ db' = db /\ mem' = Goes(mem, s, "releasing")
  BY DEF Release, Goes
<1> QED BY <1>1, <1>2, GoesEffect DEF RequestStep, SameLife

\* A release ends: the reservation is given back, nothing is charged.
LEMMA ReleaseSessionEffect ==
    ASSUME WorkInv, NEW s \in Sessions, ReleaseSession(s)
    PROVE  /\ RequestStep(mem', mem) /\ db' = db
           /\ mem.pc[s] = "releasing" /\ Leaves(mem', mem, s)
           /\ mem'.reserved = mem.reserved \ {s} /\ mem'.liable = mem.liable
           /\ SameTables(mem', mem) /\ SameAnswers(mem', mem) /\ SameLife(mem', mem)
<1> DEFINE r == ReleaseRequest(mem, s)
<1>1. mem \in MemoryType BY DEF WorkInv, TypeOK
<1>2. /\ r \in MemoryType /\ r.pc = mem.pc /\ r.job = mem.job /\ r.liable = mem.liable
      /\ r.reserved = mem.reserved \ {s}
      /\ SameTables(r, mem) /\ SameAnswers(r, mem) /\ SameKeys(r, mem)
      /\ SameDrain(r, mem) /\ SameLife(r, mem)
  BY <1>1, ReleaseEffect
<1>3. mem.pc[s] = "releasing" /\ db' = db /\ mem' = Detach(r, s) BY DEF ReleaseSession
<1> HIDE DEF r
<1>4. /\ mem' \in MemoryType /\ Leaves(mem', r, s) /\ mem'.job = r.job
      /\ SameTables(mem', r) /\ SameAnswers(mem', r) /\ SameCharges(mem', r) /\ SameKeys(mem', r)
      /\ SameDrain(mem', r) /\ SameLife(mem', r)
  BY <1>2, <1>3, DetachEffect
<1>5. Leaves(mem', mem, s) BY <1>2, <1>4 DEF Leaves, SameKeys
<1> QED BY <1>2, <1>3, <1>4, <1>5
        DEF RequestStep, SameTables, SameAnswers, SameCharges, SameKeys, SameDrain, SameLife

\* A commit charges the session in memory and puts its event in flight.
LEMMA CommitEffect ==
    ASSUME WorkInv, NEW s \in Sessions, Commit(s)
    PROVE  /\ RequestStep(mem', mem) /\ db' = db
           /\ mem.pc[s] = "reserved" /\ mem'.pc = [mem.pc EXCEPT ![s] = "accept"]
           /\ mem'.inflight = mem.inflight \cup {s}
           /\ mem'.retained = mem.retained /\ mem'.pending = mem.pending
           /\ SameAnswers(mem', mem) /\ SameCharges(mem', mem) /\ SameLife(mem', mem)
<1> DEFINE g == Goes(mem, s, "accept")
<1>1. mem \in MemoryType /\ "accept" \in SessionPcs BY DEF WorkInv, TypeOK, SessionPcs
<1>2. /\ g \in MemoryType /\ g.pc = [mem.pc EXCEPT ![s] = "accept"] /\ g.job = mem.job
      /\ SameTables(g, mem) /\ SameAnswers(g, mem) /\ SameCharges(g, mem) /\ SameKeys(g, mem)
      /\ SameDrain(g, mem) /\ SameLife(g, mem)
  BY <1>1, GoesEffect
<1>3. mem.pc[s] = "reserved" /\ db' = db /\ mem' = [g EXCEPT !.inflight = @ \cup {s}]
  BY <1>1 DEF Commit, Goes, MemoryType
<1> HIDE DEF g
<1>4. /\ mem' \in MemoryType /\ mem'.pc = g.pc /\ mem'.job = g.job
      /\ mem'.inflight = g.inflight \cup {s}
      /\ mem'.retained = g.retained /\ mem'.pending = g.pending
      /\ SameAnswers(mem', g) /\ SameCharges(mem', g) /\ SameKeys(mem', g)
      /\ SameDrain(mem', g) /\ SameLife(mem', g)
  BY SMTT(30), <1>2, <1>3
     DEF MemoryType, SameAnswers, SameCharges, SameKeys, SameDrain, SameLife
<1> QED BY <1>2, <1>3, <1>4
        DEF RequestStep, SameTables, SameAnswers, SameCharges, SameKeys, SameDrain, SameLife

\* The source thread answers the session, having accepted the event or not.
LEMMA SourceAcceptEffect ==
    ASSUME WorkInv, NEW s \in Sessions, SourceAccept(s)
    PROVE  /\ RequestStep(mem', mem)
           /\ mem.pc[s] = "accept" /\ mem'.pc = [mem.pc EXCEPT ![s] = "answered"]
           /\ SameTables(mem', mem) /\ SameCharges(mem', mem) /\ SameLife(mem', mem)
           /\ mem'.future = mem.future
           /\ \E a \in {"accepted", "transient", "permanent"} :
                 /\ mem'.answer = [mem.answer EXCEPT ![s] = a]
                 /\ a = "accepted" => db' = AcceptedBy(db, s)
                 /\ a = "permanent" => db' = db
           /\ db' = db \/ db' = AcceptedBy(db, s)
<1>1. mem \in MemoryType /\ "answered" \in SessionPcs BY DEF WorkInv, TypeOK, SessionPcs
<1>2. PICK a \in {"accepted", "transient", "permanent"} :
         /\ mem' = [mem EXCEPT !.pc[s] = "answered", !.answer[s] = a]
         /\ a = "accepted" => db' = AcceptedBy(db, s)
         /\ a = "permanent" => db' = db
         /\ db' = db \/ db' = AcceptedBy(db, s)
  BY DEF SourceAccept, Failed
<1>3. mem.pc[s] = "accept" BY DEF SourceAccept
<1> DEFINE g == Goes(mem, s, "answered")
           f == [mem.answer EXCEPT ![s] = a]
<1>4. /\ g \in MemoryType /\ g.pc = [mem.pc EXCEPT ![s] = "answered"] /\ g.job = mem.job
      /\ SameTables(g, mem) /\ SameAnswers(g, mem) /\ SameCharges(g, mem) /\ SameKeys(g, mem)
      /\ SameDrain(g, mem) /\ SameLife(g, mem)
  BY <1>1, GoesEffect
<1>5. mem' = [g EXCEPT !.answer = f] BY <1>1, <1>2 DEF Goes, MemoryType
<1>6. f \in [Sessions -> Answers] BY <1>1 DEF MemoryType, Answers
<1> HIDE DEF g, f
<1>7. /\ mem' \in MemoryType /\ mem'.pc = g.pc /\ mem'.job = g.job
      /\ mem'.answer = f /\ mem'.future = g.future
      /\ SameTables(mem', g) /\ SameCharges(mem', g) /\ SameKeys(mem', g)
      /\ SameDrain(mem', g) /\ SameLife(mem', g)
  BY SMTT(30), <1>4, <1>5, <1>6
     DEF MemoryType, SameTables, SameCharges, SameKeys, SameDrain, SameLife
<1> QED BY <1>2, <1>3, <1>4, <1>7
        DEF RequestStep, f, SameTables, SameAnswers, SameCharges, SameKeys, SameDrain, SameLife

\* A session whose event was retried leaves with the outcome.
LEMMA RetryResolvedEffect ==
    ASSUME WorkInv, NEW s \in Sessions, RetryResolved(s)
    PROVE  /\ RequestStep(mem', mem) /\ db' = db
           /\ mem.pc[s] = "retrying" /\ Leaves(mem', mem, s)
           /\ SameTables(mem', mem) /\ SameAnswers(mem', mem) /\ SameLife(mem', mem)
           /\ mem'.liable = mem.liable
           /\ mem'.reserved = IF mem.future[s] = "receipt" \/ s \in mem.liable
                             THEN mem.reserved ELSE mem.reserved \ {s}
<1>1. mem \in MemoryType BY DEF WorkInv, TypeOK
<1>2. /\ mem.pc[s] = "retrying" /\ db' = db
      /\ \/ mem.future[s] = "receipt" /\ mem' = Detach(mem, s)
         \/ mem.future[s] = "error" /\ mem' = FinishFailed(mem, s)
  BY DEF RetryResolved
<1>3. CASE mem.future[s] = "receipt" /\ mem' = Detach(mem, s)
  <2>1. /\ mem' \in MemoryType /\ Leaves(mem', mem, s) /\ mem'.job = mem.job
        /\ SameTables(mem', mem) /\ SameAnswers(mem', mem) /\ SameCharges(mem', mem)
        /\ SameKeys(mem', mem) /\ SameDrain(mem', mem) /\ SameLife(mem', mem)
    BY <1>1, <1>3, DetachEffect
  <2> QED BY <1>2, <1>3, <2>1 DEF RequestStep, SameCharges, SameLife
<1>4. CASE mem.future[s] = "error" /\ mem' = FinishFailed(mem, s)
  <2>1. /\ mem' \in MemoryType /\ Leaves(mem', mem, s)
        /\ mem'.job = mem.job /\ mem'.liable = mem.liable
        /\ mem'.reserved = IF s \in mem.liable THEN mem.reserved ELSE mem.reserved \ {s}
        /\ SameTables(mem', mem) /\ SameAnswers(mem', mem) /\ SameKeys(mem', mem)
        /\ SameDrain(mem', mem) /\ SameLife(mem', mem)
    BY <1>1, <1>4, FinishEffect
  <2> QED BY <1>2, <1>4, <2>1 DEF RequestStep, SameLife
<1> QED BY <1>2, <1>3, <1>4

\* The answer of the source: accepted and charged, retained for a retry, or failed
\* for good.
AnswerAccepted(s) ==
    /\ mem.answer[s] = "accepted" /\ mem'.pc = [mem.pc EXCEPT ![s] = "project"]
    /\ mem'.inflight = mem.inflight \ {s} /\ mem'.retained = mem.retained \ {s}
    /\ mem'.pending = mem.pending \cup {s}
    /\ mem'.liable = mem.liable \cup {s}
    /\ mem'.reserved = IF s \in mem.liable THEN mem.reserved ELSE mem.reserved \ {s}
    /\ mem'.fatal = mem.fatal
    /\ mem'.state = mem.state \/ (mem.state = "blocked" /\ mem'.state = "running")
AnswerTransient(s) ==
    /\ mem.answer[s] = "transient" /\ mem'.pc = [mem.pc EXCEPT ![s] = "retrying"]
    /\ mem'.inflight = mem.inflight \ {s} /\ mem'.retained = mem.retained \cup {s}
    /\ mem'.pending = mem.pending
    /\ SameCharges(mem', mem) /\ mem'.fatal = mem.fatal
    /\ mem'.state = IF mem.state \in {"stopping", "stopped", "failed"} THEN mem.state ELSE "blocked"
AnswerPermanent(s) ==
    /\ mem.answer[s] = "permanent" /\ Leaves(mem', mem, s)
    /\ mem'.inflight = mem.inflight \ {s} /\ mem'.retained = mem.retained \ {s}
    /\ mem'.pending = mem.pending
    /\ mem'.liable = mem.liable
    /\ mem'.reserved = IF s \in mem.liable THEN mem.reserved ELSE mem.reserved \ {s}
    /\ mem'.fatal = TRUE /\ mem'.state = "failed"

\* The session takes the source's answer: accepted, retained for retry, or fatal.
LEMMA SourceAnsweredEffect ==
    ASSUME WorkInv, NEW s \in Sessions, SourceAnswered(s)
    PROVE  /\ RequestStep(mem', mem) /\ db' = db
           /\ mem.pc[s] = "answered"
           /\ mem'.answer = [mem.answer EXCEPT ![s] = "none"] /\ mem'.future = mem.future
           /\ AnswerAccepted(s) \/ AnswerTransient(s) \/ AnswerPermanent(s)
<1> DEFINE a == [mem.answer EXCEPT ![s] = "none"]
           m == [mem EXCEPT !.answer = a]
<1>1. mem \in MemoryType BY DEF WorkInv, TypeOK
<1>2. a \in [Sessions -> Answers] BY <1>1 DEF MemoryType, Answers
<1>3. [mem EXCEPT !.answer[s] = "none"] = m BY <1>1 DEF MemoryType
<1>4. mem.pc[s] = "answered" /\ mem.answer[s] \in {"accepted", "transient", "permanent"} /\ db' = db
  BY DEF SourceAnswered, WorkInv, DrainOK
<1>5. mem' = CASE mem.answer[s] = "accepted" ->
                    [ApplyLiability(AcceptSourceResult(m, s), s) EXCEPT !.pc[s] = "project"]
               [] mem.answer[s] = "transient" ->
                    [WakeProjector(Blocks(RetainForRetry(m, s))) EXCEPT !.pc[s] = "retrying"]
               [] mem.answer[s] = "permanent" ->
                    FinishFailed(WakeProjector([Fails(m) EXCEPT !.inflight = @ \ {s},
                                                         !.retained = @ \ {s}]), s)
  BY <1>3 DEF SourceAnswered
<1> HIDE DEF a
<1>6. /\ m \in MemoryType /\ m.pc = mem.pc /\ m.job = mem.job /\ m.answer = a
      /\ m.future = mem.future
      /\ SameTables(m, mem) /\ SameCharges(m, mem) /\ SameKeys(m, mem)
      /\ SameDrain(m, mem) /\ SameLife(m, mem)
  BY ZenonT(60), <1>1, <1>2 DEF MemoryType, SameTables, SameCharges, SameKeys, SameDrain, SameLife
<1> HIDE DEF m
<1>7. CASE mem.answer[s] = "accepted"
  <2> DEFINE c == AcceptSourceResult(m, s)
             l == ApplyLiability(c, s)
  <2>1. /\ c \in MemoryType
        /\ c.pc = m.pc /\ c.job = m.job
        /\ c.inflight = m.inflight \ {s} /\ c.retained = m.retained \ {s}
        /\ c.pending = m.pending \cup {s}
        /\ SameAnswers(c, m) /\ SameCharges(c, m) /\ SameKeys(c, m)
        /\ SameDrain(c, m) /\ c.fatal = m.fatal /\ c.init = m.init
        /\ c.state = m.state \/ (m.state = "blocked" /\ c.state = "running")
    BY <1>6, AcceptEffect
  <2> HIDE DEF c
  <2>2. /\ l \in MemoryType
        /\ l.pc = c.pc /\ l.job = c.job /\ l.liable = c.liable \cup {s}
        /\ l.reserved = IF s \in c.liable THEN c.reserved ELSE c.reserved \ {s}
        /\ SameTables(l, c) /\ SameAnswers(l, c) /\ SameKeys(l, c)
        /\ SameDrain(l, c) /\ SameLife(l, c)
    BY <2>1, LiabilityEffect
  <2> HIDE DEF l
  <2>3. mem' = Goes(l, s, "project") BY <1>5, <1>7 DEF Goes, c, l
  <2>4. /\ mem' \in MemoryType /\ mem'.pc = [l.pc EXCEPT ![s] = "project"] /\ mem'.job = l.job
        /\ SameTables(mem', l) /\ SameAnswers(mem', l) /\ SameCharges(mem', l)
        /\ SameKeys(mem', l) /\ SameDrain(mem', l) /\ SameLife(mem', l)
    <3>1. "project" \in SessionPcs BY DEF SessionPcs
    <3> QED BY <2>2, <2>3, <3>1, GoesEffect
  <2>5. AnswerAccepted(s)
    BY <1>6, <1>7, <2>1, <2>2, <2>4
    DEF AnswerAccepted, SameTables, SameCharges, SameLife
  <2>6. RequestStep(mem', mem)
    BY <1>6, <2>1, <2>2, <2>4 DEF RequestStep, SameKeys, SameDrain, SameLife
  <2> QED BY <1>4, <1>6, <2>1, <2>2, <2>4, <2>5, <2>6 DEF a, SameAnswers
<1>8. CASE mem.answer[s] = "transient"
  <2> DEFINE c == RetainForRetry(m, s)
             b == Blocks(c)
             w == WakeProjector(b)
  <2>1. /\ c \in MemoryType
        /\ c.pc = m.pc /\ c.job = m.job
        /\ c.inflight = m.inflight \ {s} /\ c.retained = m.retained \cup {s}
        /\ c.pending = m.pending
        /\ SameAnswers(c, m) /\ SameCharges(c, m) /\ SameKeys(c, m)
        /\ SameDrain(c, m) /\ SameLife(c, m)
    BY <1>6, RetainEffect
  <2> HIDE DEF c
  <2>2. /\ b \in MemoryType
        /\ b.pc = c.pc /\ b.job = c.job
        /\ SameTables(b, c) /\ SameAnswers(b, c) /\ SameCharges(b, c) /\ SameKeys(b, c)
        /\ SameDrain(b, c) /\ b.fatal = c.fatal /\ b.init = c.init
        /\ IF c.state \in {"stopping", "stopped", "failed"} THEN b.state = c.state
           ELSE b.state = "blocked"
    BY <2>1, BlocksEffect
  <2> HIDE DEF b
  <2>3. /\ w \in MemoryType
        /\ w.pc = b.pc /\ w.job = b.job
        /\ SameTables(w, b) /\ SameAnswers(w, b) /\ SameCharges(w, b) /\ SameKeys(w, b)
        /\ SameDrain(w, b) /\ SameLife(w, b)
    BY <2>2, WakeEffect
  <2> HIDE DEF w
  <2>4. mem' = Goes(w, s, "retrying") BY <1>5, <1>8 DEF Goes, c, b, w
  <2>5. /\ mem' \in MemoryType /\ mem'.pc = [w.pc EXCEPT ![s] = "retrying"] /\ mem'.job = w.job
        /\ SameTables(mem', w) /\ SameAnswers(mem', w) /\ SameCharges(mem', w)
        /\ SameKeys(mem', w) /\ SameDrain(mem', w) /\ SameLife(mem', w)
    <3>1. "retrying" \in SessionPcs BY DEF SessionPcs
    <3> QED BY <2>3, <2>4, <3>1, GoesEffect
  <2>6. AnswerTransient(s)
    BY <1>6, <1>8, <2>1, <2>2, <2>3, <2>5
    DEF AnswerTransient, SameTables, SameCharges, SameLife
  <2>7. RequestStep(mem', mem)
    BY <1>6, <2>1, <2>2, <2>3, <2>5 DEF RequestStep, SameKeys, SameDrain, SameLife
  <2> QED BY <1>4, <1>6, <2>1, <2>2, <2>3, <2>5, <2>6, <2>7 DEF a, SameAnswers
<1>9. CASE mem.answer[s] = "permanent"
  <2> DEFINE f == Fails(m)
             c == [f EXCEPT !.inflight = @ \ {s}, !.retained = @ \ {s}]
             w == WakeProjector(c)
  <2>1. /\ f \in MemoryType
        /\ f.pc = m.pc /\ f.job = m.job
        /\ SameTables(f, m) /\ SameAnswers(f, m) /\ SameCharges(f, m) /\ SameKeys(f, m)
        /\ SameDrain(f, m) /\ f.fatal = TRUE /\ f.init = m.init /\ f.state = "failed"
    BY <1>6, FailsEffect
  <2> HIDE DEF f
  <2>2. /\ c \in MemoryType
        /\ c.pc = f.pc /\ c.job = f.job
        /\ c.inflight = f.inflight \ {s} /\ c.retained = f.retained \ {s}
        /\ c.pending = f.pending
        /\ SameAnswers(c, f) /\ SameCharges(c, f) /\ SameKeys(c, f)
        /\ SameDrain(c, f) /\ SameLife(c, f)
    BY ZenonT(60), <2>1 DEF MemoryType, SameAnswers, SameCharges, SameKeys, SameDrain, SameLife
  <2> HIDE DEF c
  <2>3. /\ w \in MemoryType
        /\ w.pc = c.pc /\ w.job = c.job
        /\ SameTables(w, c) /\ SameAnswers(w, c) /\ SameCharges(w, c) /\ SameKeys(w, c)
        /\ SameDrain(w, c) /\ SameLife(w, c)
    BY <2>2, WakeEffect
  <2> HIDE DEF w
  <2>4. mem' = FinishFailed(w, s) BY <1>5, <1>9 DEF f, c, w
  <2>5. /\ mem' \in MemoryType /\ Leaves(mem', w, s)
        /\ mem'.job = w.job /\ mem'.liable = w.liable
        /\ mem'.reserved = IF s \in w.liable THEN w.reserved ELSE w.reserved \ {s}
        /\ SameTables(mem', w) /\ SameAnswers(mem', w) /\ SameKeys(mem', w)
        /\ SameDrain(mem', w) /\ SameLife(mem', w)
    BY <2>3, <2>4, FinishEffect
  <2>6. Leaves(mem', mem, s) BY <1>6, <2>1, <2>2, <2>3, <2>5 DEF Leaves, SameKeys
  <2>7. AnswerPermanent(s)
    BY <1>6, <1>9, <2>1, <2>2, <2>3, <2>5, <2>6
    DEF AnswerPermanent, SameTables, SameCharges, SameLife
  <2>8. RequestStep(mem', mem)
    BY <1>6, <2>1, <2>2, <2>3, <2>5 DEF RequestStep, SameKeys, SameDrain, SameLife
  <2> QED BY <1>4, <1>6, <2>1, <2>2, <2>3, <2>5, <2>7, <2>8 DEF a, SameAnswers
<1> QED BY <1>4, <1>7, <1>8, <1>9

\* A step of the holder of the drain lock that moves its pass on and no more.
PassStep(n, m) ==
    /\ n \in MemoryType /\ n.pc = m.pc /\ n.job = m.job
    /\ SameTables(n, m) /\ SameAnswers(n, m) /\ SameCharges(n, m) /\ SameKeys(n, m)
    /\ SameLife(n, m)

\* The lock goes from free to one waiting session or task.
LEMMA TakeDrainEffect ==
    ASSUME WorkInv, NEW o \in Sessions \cup Jobs, TakeDrain(o)
    PROVE  /\ mem' \in MemoryType /\ db' = db
           /\ mem.owner = "free" /\ mem'.owner = o /\ mem'.todo = mem.todo
           /\ mem'.record = mem.record /\ mem'.pc = mem.pc
           /\ SameTables(mem', mem) /\ SameAnswers(mem', mem) /\ SameCharges(mem', mem)
           /\ SameKeys(mem', mem) /\ SameLife(mem', mem)
           /\ \/ /\ o \in Sessions /\ mem.pc[o] = "project" /\ mem'.job = mem.job
                 /\ mem'.step = "sink" /\ mem'.ev = o /\ mem'.from = "session"
              \/ /\ o \in Sessions /\ mem.pc[o] = "resetting" /\ mem'.job = mem.job
                 /\ mem'.step = "retained"
              \/ /\ o \in Jobs /\ mem.job[o].pc = "lock" /\ mem'.job = Moved(mem.job, o, "working")
                 /\ mem'.step = FirstStep(o)
<1> DEFINE m == [mem EXCEPT !.owner = o]
<1>1. mem \in MemoryType BY DEF WorkInv, TypeOK
<1>2. /\ mem.owner = "free" /\ WaitsForDrain(o) /\ db' = db
      /\ mem' = CASE o \in Sessions /\ mem.pc[o] = "project" ->
                         [m EXCEPT !.step = "sink", !.ev = o, !.from = "session"]
                  [] o \in Sessions /\ mem.pc[o] = "resetting" -> [m EXCEPT !.step = "retained"]
                  [] o \in Jobs -> [m EXCEPT !.job[o].pc = "working", !.step = FirstStep(o)]
  BY DEF TakeDrain
<1>3. /\ m \in MemoryType /\ m.owner = o /\ m.todo = mem.todo /\ m.record = mem.record
      /\ m.pc = mem.pc /\ m.job = mem.job
      /\ SameTables(m, mem) /\ SameAnswers(m, mem) /\ SameCharges(m, mem) /\ SameKeys(m, mem)
      /\ SameLife(m, mem)
  BY SMTT(30), <1>1 DEF MemoryType, SameTables, SameAnswers, SameCharges, SameKeys, SameLife
<1>4. o \in Sessions => o \notin Jobs BY AccountingNames
<1> HIDE DEF m
<1>5. CASE o \in Sessions /\ mem.pc[o] = "project"
  <2>1. mem' = [m EXCEPT !.step = "sink", !.ev = o, !.from = "session"] BY <1>2, <1>4, <1>5
  <2>2. mem' \in MemoryType
    <3> DEFINE x == [m EXCEPT !.ev = o]
    <3>1. x \in MemoryType
      <4>1. o \in Sessions \cup {NoEvent} BY <1>5
      <4> QED BY <1>3, <4>1 DEF MemoryType
    <3>2. mem' = [x EXCEPT !.step = "sink", !.from = "session"] BY <1>3, <2>1 DEF MemoryType
    <3> HIDE DEF x
    <3> QED BY ZenonT(60), <3>1, <3>2 DEF MemoryType, DrainSteps
  <2>3. /\ mem'.owner = m.owner /\ mem'.todo = m.todo /\ mem'.record = m.record
        /\ mem'.pc = m.pc /\ mem'.job = m.job
        /\ mem'.step = "sink" /\ mem'.ev = o /\ mem'.from = "session"
    BY <1>3, <2>1 DEF MemoryType
  <2>4. /\ SameTables(mem', m) /\ SameAnswers(mem', m) /\ SameCharges(mem', m)
        /\ SameKeys(mem', m) /\ SameLife(mem', m)
    BY <1>3, <2>1 DEF MemoryType, SameTables, SameAnswers, SameCharges, SameKeys, SameLife
  <2> QED BY <1>2, <1>3, <1>5, <2>2, <2>3, <2>4
          DEF SameTables, SameAnswers, SameCharges, SameKeys, SameLife
<1>6. CASE o \in Sessions /\ mem.pc[o] = "resetting"
  <2>1. mem' = [m EXCEPT !.step = "retained"] BY <1>2, <1>4, <1>6
  <2>2. /\ mem' \in MemoryType
        /\ mem'.owner = m.owner /\ mem'.todo = m.todo /\ mem'.record = m.record
        /\ mem'.pc = m.pc /\ mem'.job = m.job /\ mem'.step = "retained"
    BY SMTT(30), <1>3, <2>1 DEF MemoryType, DrainSteps
  <2>4. /\ SameTables(mem', m) /\ SameAnswers(mem', m) /\ SameCharges(mem', m)
        /\ SameKeys(mem', m) /\ SameLife(mem', m)
    BY <1>3, <2>1 DEF MemoryType, SameTables, SameAnswers, SameCharges, SameKeys, SameLife
  <2> QED BY <1>2, <1>3, <1>6, <2>2, <2>4
          DEF SameTables, SameAnswers, SameCharges, SameKeys, SameLife
<1>7. CASE o \in Jobs
  <2> DEFINE g == JobTo(m, o, "working")
  <2>1. /\ g \in MemoryType
        /\ g.job = Moved(m.job, o, "working") /\ g.pc = m.pc
        /\ SameTables(g, m) /\ SameAnswers(g, m) /\ SameCharges(g, m) /\ SameKeys(g, m)
        /\ SameDrain(g, m) /\ SameLife(g, m)
    <3>1. "working" \in JobPcs BY DEF JobPcs
    <3> QED BY <1>3, <1>7, <3>1, JobToEffect
  <2>2. mem' = [g EXCEPT !.step = FirstStep(o)]
    <3>1. mem' = [m EXCEPT !.job[o].pc = "working", !.step = FirstStep(o)]
      BY <1>2, <1>4, <1>7
    <3> QED BY <1>3, <3>1 DEF JobTo, MemoryType
  <2>3. FirstStep(o) \in DrainSteps BY DEF FirstStep, DrainSteps
  <2> HIDE DEF g
  <2>4. /\ mem' \in MemoryType
        /\ mem'.owner = g.owner /\ mem'.todo = g.todo /\ mem'.record = g.record
        /\ mem'.pc = g.pc /\ mem'.job = g.job /\ mem'.step = FirstStep(o)
        /\ SameTables(mem', g) /\ SameAnswers(mem', g) /\ SameCharges(mem', g)
        /\ SameKeys(mem', g) /\ SameLife(mem', g)
    BY <2>1, <2>2, <2>3
    DEF MemoryType, SameTables, SameAnswers, SameCharges, SameKeys, SameLife
  <2>5. mem.job[o].pc = "lock" BY <1>2, <1>4, <1>7 DEF WaitsForDrain
  <2> QED BY <1>2, <1>3, <1>7, <2>1, <2>4, <2>5
          DEF SameTables, SameAnswers, SameCharges, SameKeys, SameDrain, SameLife
<1>8. o \in Sessions => mem.pc[o] \in {"project", "resetting"} BY <1>2 DEF WaitsForDrain
<1> QED BY <1>5, <1>6, <1>7, <1>8

\* A pass takes the retained events and then lists the pending ones.
LEMMA RetainedBatchEffect ==
    ASSUME WorkInv, RetainedBatch
    PROVE  /\ PassStep(mem', mem) /\ db' = db
           /\ mem.step = "retained" /\ mem.todo = {} /\ mem'.owner = mem.owner
           /\ mem'.ev = mem.ev /\ mem'.from = mem.from /\ mem'.record = mem.record
           /\ \/ mem'.step = "retained" /\ mem'.todo = mem.retained
              \/ mem'.step = "list" /\ mem'.todo = {}
<1>1. mem \in MemoryType BY DEF WorkInv, TypeOK
<1>2. /\ mem.step = "retained" /\ mem.todo = {} /\ db' = db
      /\ \/ mem' = [mem EXCEPT !.todo = mem.retained]
         \/ mem' = [mem EXCEPT !.retClean = mem.ok, !.step = "list"]
  BY DEF RetainedBatch
<1>3. CASE mem' = [mem EXCEPT !.todo = mem.retained]
  BY SMTT(30), <1>1, <1>2, <1>3
     DEF PassStep, MemoryType, SameTables, SameAnswers, SameCharges, SameKeys, SameLife
<1>4. CASE mem' = [mem EXCEPT !.retClean = mem.ok, !.step = "list"]
  <2>1. mem' \in MemoryType BY ZenonT(60), <1>1, <1>4 DEF MemoryType, DrainSteps
  <2>2. /\ mem'.pc = mem.pc /\ mem'.job = mem.job /\ mem'.owner = mem.owner
        /\ mem'.ev = mem.ev /\ mem'.from = mem.from /\ mem'.record = mem.record
        /\ mem'.step = "list" /\ mem'.todo = mem.todo
    BY <1>1, <1>4 DEF MemoryType
  <2>3. /\ SameTables(mem', mem) /\ SameAnswers(mem', mem) /\ SameCharges(mem', mem)
        /\ SameKeys(mem', mem) /\ SameLife(mem', mem)
    BY <1>1, <1>4 DEF MemoryType, SameTables, SameAnswers, SameCharges, SameKeys, SameLife
  <2> QED BY <1>2, <2>1, <2>2, <2>3 DEF PassStep
<1> QED BY <1>2, <1>3, <1>4

\* A pass ends with nothing left to do.
LEMMA PassEndsEffect ==
    ASSUME WorkInv, PassEnds
    PROVE  /\ PassStep(mem', mem) /\ db' = db
           /\ mem.step = "pending" /\ mem.todo = {} /\ mem'.owner = mem.owner
           /\ mem'.step = "drained" /\ mem'.todo = {} /\ mem'.record = mem.record
<1>1. mem \in MemoryType BY DEF WorkInv, TypeOK
<1>2. mem.step = "pending" /\ mem.todo = {} /\ db' = db /\ mem' = [mem EXCEPT !.step = "drained"]
  BY DEF PassEnds
<1> QED BY SMTT(30), <1>1, <1>2
        DEF PassStep, MemoryType, DrainSteps, SameTables, SameAnswers, SameCharges, SameKeys, SameLife

\* A pass lists exactly the events accepted and not projected, or fails.
LEMMA ListPendingEffect ==
    ASSUME WorkInv, ListPending
    PROVE  /\ mem.step = "list" /\ db' = db /\ mem.owner # "free"
           /\ \/ /\ PassStep(mem', mem) /\ mem'.owner = mem.owner /\ mem'.record = mem.record
                 /\ mem'.step = "pending" /\ mem'.todo = db.accepted \ db.projected
              \/ \E p \in BOOLEAN : Raised(mem', mem, p)
<1>1. mem \in MemoryType /\ db \in DatabaseType BY DEF WorkInv, TypeOK
<1>2. /\ mem.step = "list" /\ db' = db
      /\ \/ mem' = [mem EXCEPT !.step = "pending", !.todo = db.accepted \ db.projected]
         \/ \E p \in BOOLEAN : mem' = RaiseOut(mem, p)
  BY DEF ListPending
<1>3. mem.owner # "free" /\ mem.owner \in Sessions \cup Jobs
  BY <1>1, <1>2 DEF WorkInv, DrainOK, MemoryType
<1>4. CASE mem' = [mem EXCEPT !.step = "pending", !.todo = db.accepted \ db.projected]
  <2>1. mem' \in MemoryType BY ZenonT(60), <1>1, <1>4 DEF MemoryType, DatabaseType, DrainSteps
  <2>2. /\ mem'.pc = mem.pc /\ mem'.job = mem.job /\ mem'.owner = mem.owner
        /\ mem'.record = mem.record
        /\ mem'.step = "pending" /\ mem'.todo = db.accepted \ db.projected
    BY <1>1, <1>4 DEF MemoryType
  <2>3. /\ SameTables(mem', mem) /\ SameAnswers(mem', mem) /\ SameCharges(mem', mem)
        /\ SameKeys(mem', mem) /\ SameLife(mem', mem)
    BY <1>1, <1>4 DEF MemoryType, SameTables, SameAnswers, SameCharges, SameKeys, SameLife
  <2> QED BY <1>2, <1>3, <2>1, <2>2, <2>3 DEF PassStep
<1>5. ASSUME NEW p \in BOOLEAN, mem' = RaiseOut(mem, p) PROVE Raised(mem', mem, p)
  BY <1>1, <1>3, <1>5, RaiseEffect
<1> QED BY <1>2, <1>3, <1>4, <1>5

\* A listed event is counted as pending before it is projected.
LEMMA DrainPendingEffect ==
    ASSUME WorkInv, NEW e \in Sessions, DrainPending(e)
    PROVE  /\ mem.step = "pending" /\ e \in mem.todo /\ db' = db /\ mem.owner # "free"
           /\ \/ /\ mem' \in MemoryType /\ mem'.pc = mem.pc /\ mem'.job = mem.job
                 /\ mem'.pending = mem.pending \cup {e}
                 /\ mem'.retained = mem.retained /\ mem'.inflight = mem.inflight
                 /\ SameAnswers(mem', mem) /\ SameCharges(mem', mem) /\ SameKeys(mem', mem)
                 /\ SameLife(mem', mem) /\ mem'.owner = mem.owner /\ mem'.record = mem.record
                 /\ mem'.todo = mem.todo \ {e} /\ mem'.step = "sink" /\ mem'.ev = e
                 /\ mem'.from = "pending"
              \/ Raised(mem', mem, FALSE)
<1>1. mem \in MemoryType BY DEF WorkInv, TypeOK
<1>2. /\ mem.step = "pending" /\ e \in mem.todo /\ db' = db
      /\ \/ mem' = [mem EXCEPT !.todo = @ \ {e}, !.pending = @ \cup {e},
                               !.step = "sink", !.ev = e, !.from = "pending"]
         \/ mem' = RaiseOut(mem, FALSE)
  BY DEF DrainPending
<1>3. mem.owner # "free" /\ mem.owner \in Sessions \cup Jobs
  BY <1>1, <1>2 DEF WorkInv, DrainOK, MemoryType
<1>4. CASE mem' = [mem EXCEPT !.todo = @ \ {e}, !.pending = @ \cup {e},
                              !.step = "sink", !.ev = e, !.from = "pending"]
  <2> DEFINE x == [mem EXCEPT !.todo = @ \ {e}, !.pending = @ \cup {e}]
  <2>1. x \in MemoryType BY ZenonT(60), <1>1 DEF MemoryType
  <2>2. /\ x.pc = mem.pc /\ x.job = mem.job /\ x.owner = mem.owner /\ x.record = mem.record
        /\ x.todo = mem.todo \ {e} /\ x.pending = mem.pending \cup {e}
        /\ x.retained = mem.retained /\ x.inflight = mem.inflight
        /\ SameAnswers(x, mem) /\ SameCharges(x, mem) /\ SameKeys(x, mem) /\ SameLife(x, mem)
    BY <1>1 DEF MemoryType, SameAnswers, SameCharges, SameKeys, SameLife
  <2>3. mem' = [x EXCEPT !.step = "sink", !.ev = e, !.from = "pending"]
    BY <1>1, <1>4 DEF MemoryType
  <2> HIDE DEF x
  <2>4. mem' \in MemoryType BY ZenonT(60), <2>1, <2>3 DEF MemoryType, DrainSteps
  <2>5. /\ mem'.pc = x.pc /\ mem'.job = x.job /\ mem'.owner = x.owner /\ mem'.record = x.record
        /\ mem'.todo = x.todo /\ mem'.pending = x.pending
        /\ mem'.retained = x.retained /\ mem'.inflight = x.inflight
        /\ mem'.step = "sink" /\ mem'.ev = e /\ mem'.from = "pending"
    BY <2>1, <2>3 DEF MemoryType
  <2>6. SameAnswers(mem', x) /\ SameCharges(mem', x) /\ SameKeys(mem', x) /\ SameLife(mem', x)
    BY <2>1, <2>3 DEF MemoryType, SameAnswers, SameCharges, SameKeys, SameLife
  <2> QED BY <1>2, <1>3, <2>2, <2>4, <2>5, <2>6
             DEF SameAnswers, SameCharges, SameKeys, SameLife
<1>5. CASE mem' = RaiseOut(mem, FALSE)
  BY <1>1, <1>2, <1>3, <1>5, RaiseEffect
<1> QED BY <1>2, <1>4, <1>5

\* The source holds the retained event: it is no longer retained, and the session
\* that waits for it is charged.
RetryStored(n, m, e) ==
    /\ n \in MemoryType /\ n.pc = m.pc /\ n.job = m.job /\ n.answer = m.answer
    /\ n.inflight = m.inflight \ {e} /\ n.retained = m.retained \ {e}
    /\ n.liable = IF e \in RetrySessions(m) THEN m.liable \cup {e} ELSE m.liable
    /\ n.reserved = IF e \in RetrySessions(m) /\ e \notin m.liable
                    THEN m.reserved \ {e} ELSE m.reserved
    /\ SameKeys(n, m) /\ n.owner = m.owner /\ n.record = m.record /\ n.todo = m.todo \ {e}
    /\ n.fatal = m.fatal /\ n.init = m.init
    /\ n.state = m.state \/ (m.state = "blocked" /\ n.state = "running")

\* The events still to be retried once e is taken up.
Taken(m, e) == [m EXCEPT !.todo = @ \ {e}]

\* Taking an event off the list changes nothing else.
LEMMA TakenEffect ==
    ASSUME NEW m \in MemoryType, NEW e
    PROVE  LET n == Taken(m, e) IN
           /\ n \in MemoryType /\ n.pc = m.pc /\ n.job = m.job /\ n.todo = m.todo \ {e}
           /\ SameTables(n, m) /\ SameAnswers(n, m) /\ SameCharges(n, m) /\ SameKeys(n, m)
           /\ SameLife(n, m)
           /\ n.owner = m.owner /\ n.step = m.step /\ n.ev = m.ev /\ n.from = m.from
           /\ n.record = m.record
  BY ZenonT(60) DEF Taken, MemoryType, SameTables, SameAnswers, SameCharges, SameKeys, SameLife

\* A retained event the source refuses for good is dropped, and its session told.
Dropped(m, e) == Publish([Taken(m, e) EXCEPT !.retained = @ \ {e}], {e}, "error")

\* A permanently failed retry leaves the retained table.
LEMMA DroppedEffect ==
    ASSUME NEW m \in MemoryType, NEW e
    PROVE  LET n == Dropped(m, e) IN
           /\ n \in MemoryType /\ n.pc = m.pc /\ n.job = m.job /\ n.todo = m.todo \ {e}
           /\ n.retained = m.retained \ {e} /\ n.inflight = m.inflight
           /\ n.pending = m.pending /\ n.answer = m.answer
           /\ \A s \in Sessions : n.future[s] = m.future[s]
                  \/ (n.future[s] = "error" /\ s = e /\ s \in RetrySessions(m))
           /\ SameCharges(n, m) /\ SameKeys(n, m) /\ SameLife(n, m)
           /\ n.owner = m.owner /\ n.step = m.step /\ n.ev = m.ev /\ n.from = m.from
<1> DEFINE t == Taken(m, e)
           c == [t EXCEPT !.retained = @ \ {e}]
           n == Publish(c, {e}, "error")
<1>1. /\ t \in MemoryType /\ t.pc = m.pc /\ t.job = m.job /\ t.todo = m.todo \ {e}
      /\ SameTables(t, m) /\ SameAnswers(t, m) /\ SameCharges(t, m) /\ SameKeys(t, m)
      /\ SameLife(t, m)
      /\ t.owner = m.owner /\ t.step = m.step /\ t.ev = m.ev /\ t.from = m.from
      /\ t.record = m.record
  BY TakenEffect
<1> SUFFICES
           /\ n \in MemoryType /\ n.pc = m.pc /\ n.job = m.job /\ n.todo = m.todo \ {e}
           /\ n.retained = m.retained \ {e} /\ n.inflight = m.inflight
           /\ n.pending = m.pending /\ n.answer = m.answer
           /\ \A s \in Sessions : n.future[s] = m.future[s]
                  \/ (n.future[s] = "error" /\ s = e /\ s \in RetrySessions(m))
           /\ SameCharges(n, m) /\ SameKeys(n, m) /\ SameLife(n, m)
           /\ n.owner = m.owner /\ n.step = m.step /\ n.ev = m.ev /\ n.from = m.from
  BY DEF Dropped
<1> HIDE DEF t
<1>2. /\ c \in MemoryType /\ c.pc = t.pc /\ c.job = t.job /\ c.todo = t.todo
      /\ c.retained = t.retained \ {e} /\ c.inflight = t.inflight /\ c.pending = t.pending
      /\ SameAnswers(c, t) /\ SameCharges(c, t) /\ SameKeys(c, t) /\ SameLife(c, t)
      /\ c.owner = t.owner /\ c.step = t.step /\ c.ev = t.ev /\ c.from = t.from
  BY SMTT(30), <1>1 DEF MemoryType, SameAnswers, SameCharges, SameKeys, SameLife
<1> HIDE DEF c
<1>3. /\ n \in MemoryType
      /\ n.pc = c.pc /\ n.job = c.job /\ n.answer = c.answer
      /\ SameTables(n, c) /\ SameCharges(n, c) /\ SameKeys(n, c)
      /\ SameDrain(n, c) /\ SameLife(n, c)
      /\ \A s \in Sessions : n.future[s] = c.future[s]
             \/ (n.future[s] = "error" /\ s \in {e} \cap RetrySessions(c))
  BY <1>2, PublishEffect
<1>4. RetrySessions(c) = RetrySessions(m) BY <1>1, <1>2 DEF RetrySessions
<1> HIDE DEF n
<1> QED BY <1>1, <1>2, <1>3, <1>4
        DEF SameTables, SameAnswers, SameCharges, SameKeys, SameDrain, SameLife

Stored(m, e) == RecoverSession(AcceptSourceResult(Taken(m, e), e), e)

\* A retried event that the source has now accepted moves to the pending table.
LEMMA StoredEffect ==
    ASSUME NEW m \in MemoryType, NEW e \in Sessions
    PROVE  LET n == Stored(m, e) IN
           /\ RetryStored(n, m, e) /\ n.pending = m.pending \cup {e} /\ n.future = m.future
           /\ n.step = m.step /\ n.ev = m.ev /\ n.from = m.from
<1> DEFINE t == Taken(m, e)
           c == AcceptSourceResult(t, e)
           n == RecoverSession(c, e)
<1>1. /\ t \in MemoryType /\ t.pc = m.pc /\ t.job = m.job /\ t.todo = m.todo \ {e}
      /\ SameTables(t, m) /\ SameAnswers(t, m) /\ SameCharges(t, m) /\ SameKeys(t, m)
      /\ SameLife(t, m)
      /\ t.owner = m.owner /\ t.step = m.step /\ t.ev = m.ev /\ t.from = m.from
      /\ t.record = m.record
  BY TakenEffect
<1> SUFFICES /\ RetryStored(n, m, e) /\ n.pending = m.pending \cup {e} /\ n.future = m.future
             /\ n.step = m.step /\ n.ev = m.ev /\ n.from = m.from
  BY DEF Stored
<1> HIDE DEF t
<1>2. /\ c \in MemoryType
      /\ c.pc = t.pc /\ c.job = t.job
      /\ c.inflight = t.inflight \ {e} /\ c.retained = t.retained \ {e}
      /\ c.pending = t.pending \cup {e}
      /\ SameAnswers(c, t) /\ SameCharges(c, t) /\ SameKeys(c, t)
      /\ SameDrain(c, t) /\ c.fatal = t.fatal /\ c.init = t.init
      /\ c.state = t.state \/ (t.state = "blocked" /\ c.state = "running")
  BY <1>1, AcceptEffect
<1> HIDE DEF c
<1>3. /\ n \in MemoryType
      /\ n.pc = c.pc /\ n.job = c.job
      /\ n.liable = IF e \in RetrySessions(c) THEN c.liable \cup {e} ELSE c.liable
      /\ n.reserved = IF e \in RetrySessions(c) /\ e \notin c.liable
                      THEN c.reserved \ {e} ELSE c.reserved
      /\ SameTables(n, c) /\ SameAnswers(n, c) /\ SameKeys(n, c)
      /\ SameDrain(n, c) /\ SameLife(n, c)
  BY <1>2, RecoverEffect
<1>4. RetrySessions(c) = RetrySessions(m) BY <1>1, <1>2 DEF RetrySessions
<1> HIDE DEF n
<1>5. /\ n.step = m.step /\ n.ev = m.ev /\ n.from = m.from
      /\ n.pending = m.pending \cup {e} /\ n.future = m.future
      /\ n.inflight = m.inflight \ {e} /\ n.retained = m.retained \ {e}
      /\ n.answer = m.answer
  BY <1>1, <1>2, <1>3 DEF SameTables, SameAnswers, SameDrain
<1>6. /\ n.liable = IF e \in RetrySessions(m) THEN m.liable \cup {e} ELSE m.liable
      /\ n.reserved = IF e \in RetrySessions(m) /\ e \notin m.liable
                      THEN m.reserved \ {e} ELSE m.reserved
      /\ SameKeys(n, m) /\ n.pc = m.pc /\ n.job = m.job
  BY <1>1, <1>2, <1>3, <1>4 DEF SameCharges, SameKeys
<1>7. /\ n.owner = m.owner /\ n.record = m.record /\ n.todo = m.todo \ {e}
      /\ n.fatal = m.fatal /\ n.init = m.init
      /\ n.state = m.state \/ (m.state = "blocked" /\ n.state = "running")
  BY <1>1, <1>2, <1>3 DEF SameDrain, SameLife
<1> QED BY <1>3, <1>5, <1>6, <1>7 DEF RetryStored

\* What a retry of the source write comes to: the event had been projected before,
\* goes on to its projection, stays retained, or is dropped for good.
RetryReceipt(n, m, e) ==
    /\ RetryStored(n, m, e) /\ n.pending = m.pending \ {e}
    /\ n.step = m.step /\ n.from = m.from
    /\ \A s \in Sessions : n.future[s] = m.future[s]
           \/ (n.future[s] = "receipt" /\ s = e /\ s \in RetrySessions(m))
RetryProjects(n, m, e) ==
    /\ RetryStored(n, m, e) /\ n.pending = m.pending \cup {e} /\ n.future = m.future
    /\ n.step = "sink" /\ n.ev = e /\ n.from = "retained"
RetryFails(n, m, e) ==
    /\ n \in MemoryType /\ n.pc = m.pc /\ n.job = m.job
    /\ SameTables(n, m) /\ SameAnswers(n, m) /\ SameCharges(n, m) /\ SameKeys(n, m)
    /\ n.todo = m.todo \ {e} /\ n.owner = m.owner /\ n.step = m.step /\ n.from = m.from
    /\ n.record = m.record /\ n.fatal = m.fatal /\ n.init = m.init
    /\ IF m.state \in {"stopping", "stopped", "failed"} THEN n.state = m.state
       ELSE n.state = "blocked"

\* The outcomes of a retry: receipt, projection to come, transient or permanent
\* failure.
LEMMA RetryAcceptEffect ==
    ASSUME WorkInv, NEW e \in Sessions, RetryAccept(e)
    PROVE  /\ mem.step = "retained" /\ e \in mem.todo /\ mem.owner # "free"
           /\ \/ e \in db.projected /\ RetryReceipt(mem', mem, e) /\ db' = AcceptedBy(db, e)
              \/ e \notin db.projected /\ RetryProjects(mem', mem, e) /\ db' = AcceptedBy(db, e)
              \/ RetryFails(mem', mem, e) /\ (db' = db \/ db' = AcceptedBy(db, e))
              \/ /\ Raised(mem', Dropped(mem, e), TRUE) /\ db' = db
                 /\ perms < MaxPermanent /\ perms' = perms + 1
<1> DEFINE t == Taken(mem, e)
           st == Stored(mem, e)
<1>1. mem \in MemoryType BY DEF WorkInv, TypeOK
<1>2. /\ mem.step = "retained" /\ e \in mem.todo
      /\ \/ /\ e \in db.projected /\ mem' = Publish(ClearPending(st, e), {e}, "receipt")
            /\ db' = AcceptedBy(db, e)
         \/ /\ e \notin db.projected
            /\ mem' = [st EXCEPT !.step = "sink", !.ev = e, !.from = "retained"]
            /\ db' = AcceptedBy(db, e)
         \/ mem' = [Blocks(t) EXCEPT !.ok = FALSE] /\ (db' = db \/ db' = AcceptedBy(db, e))
         \/ /\ mem' = RaiseOut(Dropped(mem, e), TRUE) /\ db' = db
            /\ perms < MaxPermanent /\ perms' = perms + 1
  BY DEF RetryAccept, Stored, Taken, Dropped, ClearPending, Failed, Permanent
<1>3. mem.owner # "free" /\ mem.owner \in Sessions \cup Jobs
  BY <1>1, <1>2 DEF WorkInv, DrainOK, MemoryType
<1>4. /\ RetryStored(st, mem, e) /\ st.pending = mem.pending \cup {e} /\ st.future = mem.future
      /\ st.step = mem.step /\ st.ev = mem.ev /\ st.from = mem.from
  BY <1>1, StoredEffect
<1>5. st \in MemoryType BY <1>4 DEF RetryStored
<1> HIDE DEF st
<1>6. CASE /\ e \in db.projected /\ mem' = Publish(ClearPending(st, e), {e}, "receipt")
           /\ db' = AcceptedBy(db, e)
  <2> DEFINE c == ClearPending(st, e)
  <2>1. /\ c \in MemoryType
        /\ c.pc = st.pc /\ c.job = st.job
        /\ c.inflight = st.inflight /\ c.retained = st.retained
        /\ c.pending = st.pending \ {e}
        /\ SameAnswers(c, st) /\ SameCharges(c, st) /\ SameKeys(c, st)
        /\ SameDrain(c, st) /\ c.fatal = st.fatal /\ c.init = st.init
        /\ c.state = st.state \/ (st.state = "blocked" /\ c.state = "running")
    BY <1>5, ClearPendingEffect
  <2>2. mem' = Publish(c, {e}, "receipt") BY <1>6
  <2> HIDE DEF c
  <2>3. /\ mem' \in MemoryType
        /\ mem'.pc = c.pc /\ mem'.job = c.job /\ mem'.answer = c.answer
        /\ SameTables(mem', c) /\ SameCharges(mem', c) /\ SameKeys(mem', c)
        /\ SameDrain(mem', c) /\ SameLife(mem', c)
        /\ \A s \in Sessions : mem'.future[s] = c.future[s]
               \/ (mem'.future[s] = "receipt" /\ s \in {e} \cap RetrySessions(c))
    BY <2>1, <2>2, PublishEffect
  <2>4. RetrySessions(c) = RetrySessions(mem) BY <1>4, <2>1 DEF RetrySessions, RetryStored
  <2>5. /\ mem'.inflight = mem.inflight \ {e} /\ mem'.retained = mem.retained \ {e}
        /\ mem'.pending = mem.pending \ {e} /\ mem'.pc = mem.pc /\ mem'.job = mem.job
        /\ mem'.answer = mem.answer
    BY <1>4, <2>1, <2>3 DEF RetryStored, SameTables, SameAnswers
  <2>6. /\ mem'.liable = IF e \in RetrySessions(mem) THEN mem.liable \cup {e} ELSE mem.liable
        /\ mem'.reserved = IF e \in RetrySessions(mem) /\ e \notin mem.liable
                           THEN mem.reserved \ {e} ELSE mem.reserved
        /\ SameKeys(mem', mem)
    BY <1>4, <2>1, <2>3 DEF RetryStored, SameCharges, SameKeys
  <2>7. /\ mem'.owner = mem.owner /\ mem'.record = mem.record /\ mem'.todo = mem.todo \ {e}
        /\ mem'.step = mem.step /\ mem'.from = mem.from
        /\ mem'.fatal = mem.fatal /\ mem'.init = mem.init
        /\ mem'.state = mem.state \/ (mem.state = "blocked" /\ mem'.state = "running")
    BY <1>4, <2>1, <2>3 DEF RetryStored, SameDrain, SameLife
  <2>8. \A s \in Sessions : mem'.future[s] = mem.future[s]
            \/ (mem'.future[s] = "receipt" /\ s = e /\ s \in RetrySessions(mem))
    BY <1>4, <2>1, <2>3, <2>4 DEF SameAnswers
  <2>9. RetryReceipt(mem', mem, e)
    BY <2>3, <2>5, <2>6, <2>7, <2>8 DEF RetryReceipt, RetryStored
  <2> QED BY <1>2, <1>3, <1>6, <2>9
<1>7. CASE /\ e \notin db.projected
           /\ mem' = [st EXCEPT !.step = "sink", !.ev = e, !.from = "retained"]
           /\ db' = AcceptedBy(db, e)
  <2> DEFINE x == [st EXCEPT !.ev = e]
  <2>1. x \in MemoryType BY <1>5 DEF MemoryType
  <2>2. /\ x.pc = st.pc /\ x.job = st.job /\ x.answer = st.answer /\ x.future = st.future
        /\ SameTables(x, st) /\ SameCharges(x, st) /\ SameKeys(x, st) /\ SameLife(x, st)
        /\ x.owner = st.owner /\ x.record = st.record /\ x.todo = st.todo /\ x.ev = e
    BY <1>5 DEF MemoryType, SameTables, SameCharges, SameKeys, SameLife
  <2>3. mem' = [x EXCEPT !.step = "sink", !.from = "retained"] BY <1>5, <1>7 DEF MemoryType
  <2> HIDE DEF x
  <2>4. mem' \in MemoryType BY ZenonT(60), <2>1, <2>3 DEF MemoryType, DrainSteps
  <2>5. /\ mem'.pc = x.pc /\ mem'.job = x.job /\ mem'.answer = x.answer /\ mem'.future = x.future
        /\ SameTables(mem', x) /\ SameCharges(mem', x) /\ SameKeys(mem', x) /\ SameLife(mem', x)
        /\ mem'.owner = x.owner /\ mem'.record = x.record /\ mem'.todo = x.todo /\ mem'.ev = x.ev
        /\ mem'.step = "sink" /\ mem'.from = "retained"
    BY <2>1, <2>3 DEF MemoryType, SameTables, SameCharges, SameKeys, SameLife
  <2>6. /\ mem'.inflight = mem.inflight \ {e} /\ mem'.retained = mem.retained \ {e}
        /\ mem'.pending = mem.pending \cup {e} /\ mem'.pc = mem.pc /\ mem'.job = mem.job
        /\ mem'.answer = mem.answer /\ mem'.future = mem.future
    BY <1>4, <2>2, <2>5 DEF RetryStored, SameTables
  <2>7. /\ mem'.liable = IF e \in RetrySessions(mem) THEN mem.liable \cup {e} ELSE mem.liable
        /\ mem'.reserved = IF e \in RetrySessions(mem) /\ e \notin mem.liable
                           THEN mem.reserved \ {e} ELSE mem.reserved
        /\ SameKeys(mem', mem)
    BY <1>4, <2>2, <2>5 DEF RetryStored, SameCharges, SameKeys
  <2>8. /\ mem'.owner = mem.owner /\ mem'.record = mem.record /\ mem'.todo = mem.todo \ {e}
        /\ mem'.fatal = mem.fatal /\ mem'.init = mem.init
        /\ mem'.state = mem.state \/ (mem.state = "blocked" /\ mem'.state = "running")
    BY <1>4, <2>2, <2>5 DEF RetryStored, SameLife
  <2>9. RetryProjects(mem', mem, e)
    BY <2>2, <2>4, <2>5, <2>6, <2>7, <2>8 DEF RetryProjects, RetryStored
  <2> QED BY <1>2, <1>3, <1>7, <2>9
<1>8. CASE mem' = [Blocks(t) EXCEPT !.ok = FALSE] /\ (db' = db \/ db' = AcceptedBy(db, e))
  <2> DEFINE b == Blocks(t)
  <2>1. /\ t \in MemoryType /\ t.pc = mem.pc /\ t.job = mem.job /\ t.todo = mem.todo \ {e}
        /\ SameTables(t, mem) /\ SameAnswers(t, mem) /\ SameCharges(t, mem) /\ SameKeys(t, mem)
        /\ SameLife(t, mem)
        /\ t.owner = mem.owner /\ t.step = mem.step /\ t.ev = mem.ev /\ t.from = mem.from
        /\ t.record = mem.record
    BY <1>1, TakenEffect
  <2> HIDE DEF t
  <2>2. /\ b \in MemoryType
        /\ b.pc = t.pc /\ b.job = t.job
        /\ SameTables(b, t) /\ SameAnswers(b, t) /\ SameCharges(b, t) /\ SameKeys(b, t)
        /\ SameDrain(b, t) /\ b.fatal = t.fatal /\ b.init = t.init
        /\ IF t.state \in {"stopping", "stopped", "failed"} THEN b.state = t.state
           ELSE b.state = "blocked"
    BY <2>1, BlocksEffect
  <2>3. mem' = [b EXCEPT !.ok = FALSE] BY <1>8
  <2> HIDE DEF b
  <2>4. /\ mem' \in MemoryType /\ mem'.pc = b.pc /\ mem'.job = b.job
        /\ SameTables(mem', b) /\ SameAnswers(mem', b) /\ SameCharges(mem', b)
        /\ SameKeys(mem', b) /\ SameDrain(mem', b) /\ SameLife(mem', b)
    BY ZenonT(60), <2>2, <2>3
    DEF MemoryType, SameTables, SameAnswers, SameCharges, SameKeys, SameDrain, SameLife
  <2>5. RetryFails(mem', mem, e)
    BY <2>1, <2>2, <2>4
    DEF RetryFails, SameTables, SameAnswers, SameCharges, SameKeys, SameDrain, SameLife
  <2> QED BY <1>2, <1>3, <1>8, <2>5
<1>9. CASE /\ mem' = RaiseOut(Dropped(mem, e), TRUE) /\ db' = db
           /\ perms < MaxPermanent /\ perms' = perms + 1
  <2> DEFINE m == Dropped(mem, e)
  <2>1. m \in MemoryType /\ m.owner = mem.owner BY <1>1, DroppedEffect
  <2>2. Raised(mem', m, TRUE)
    <3> HIDE DEF m
    <3>1. mem' = RaiseOut(m, TRUE) BY <1>9 DEF m
    <3> QED BY <1>3, <2>1, <3>1, RaiseEffect
  <2> QED BY <1>2, <1>3, <1>9, <2>2
<1> QED BY <1>2, <1>6, <1>7, <1>8, <1>9

\* The sink charges the event or fails; the pass goes on to the mark or to the failure.
LEMMA ApplySpendEffect ==
    ASSUME WorkInv, ApplySpendEvent
    PROVE  /\ PassStep(mem', mem) /\ mem.step = "sink" /\ mem.owner # "free"
           /\ mem'.owner = mem.owner /\ mem'.todo = mem.todo /\ mem'.ev = mem.ev
           /\ mem'.from = mem.from /\ mem'.record = mem.record
           /\ \/ mem'.step = "mark" /\ db' = AppliedBy(db, mem.ev)
              \/ mem'.step = "fail" /\ (db' = db \/ db' = AppliedBy(db, mem.ev))
<1>1. mem \in MemoryType BY DEF WorkInv, TypeOK
<1>2. mem.step = "sink" BY DEF ApplySpendEvent
<1>3. PICK step \in {"mark", "fail"}, err \in {"none", "tolerated", "pending", "permanent"} :
         /\ mem' = [mem EXCEPT !.step = step, !.err = err]
         /\ \/ step = "mark" /\ db' = AppliedBy(db, mem.ev)
            \/ step = "fail" /\ (db' = db \/ db' = AppliedBy(db, mem.ev))
  BY DEF ApplySpendEvent, Failed
<1>4. mem.owner # "free" BY <1>1, <1>2 DEF WorkInv, DrainOK
<1>5. mem' \in MemoryType
  <2>1. step \in DrainSteps BY DEF DrainSteps
  <2> QED BY ZenonT(60), <1>1, <1>3, <2>1 DEF MemoryType
<1>6. /\ mem'.pc = mem.pc /\ mem'.job = mem.job /\ mem'.owner = mem.owner
      /\ mem'.todo = mem.todo /\ mem'.ev = mem.ev /\ mem'.from = mem.from
      /\ mem'.record = mem.record /\ mem'.step = step
  BY <1>1, <1>3 DEF MemoryType
<1>7. /\ SameTables(mem', mem) /\ SameAnswers(mem', mem) /\ SameCharges(mem', mem)
      /\ SameKeys(mem', mem) /\ SameLife(mem', mem)
  BY <1>1, <1>3 DEF MemoryType, SameTables, SameAnswers, SameCharges, SameKeys, SameLife
<1> QED BY <1>2, <1>3, <1>4, <1>5, <1>6, <1>7 DEF PassStep

\* What the verdict of a projection is drawn from: the memory, with the event no
\* longer pending once it is projected, and the service blocked or open again.
Verdict(m) ==
    /\ m \in MemoryType /\ m.pc = mem.pc /\ m.job = mem.job
    /\ m.inflight = mem.inflight /\ m.retained = mem.retained
    /\ \/ m.pending = mem.pending
       \/ m.pending = mem.pending \ {mem.ev} /\ mem.ev \in db'.projected
    /\ SameAnswers(m, mem) /\ SameCharges(m, mem) /\ SameKeys(m, mem) /\ SameDrain(m, mem)
    /\ m.fatal = mem.fatal /\ m.init = mem.init
    /\ \/ m.state = mem.state
       \/ mem.state \notin {"stopping", "stopped", "failed"} /\ m.state = "blocked"
       \/ mem.state = "blocked" /\ m.state = "running"

\* A mark that succeeded, was lost or failed ends the projection with a result.
LEMMA VerdictEffect ==
    ASSUME WorkInv, MarkProjected \/ MarkFailed
    PROVE  /\ mem.step \in {"mark", "fail"} /\ mem.ev \in Sessions /\ mem.owner # "free"
           /\ db' = db \/ (db' = ProjectedBy(db, mem.ev) /\ mem.step = "mark")
           /\ \E m, res : Verdict(m) /\ ProjectionEnds(mem', m, res)
<1>1. mem \in MemoryType /\ db \in DatabaseType BY DEF WorkInv, TypeOK
<1>2. mem.step \in {"mark", "fail"} BY DEF MarkProjected, MarkFailed
<1>3. mem.ev \in Sessions /\ mem.owner # "free" /\ mem.owner \in Sessions \cup Jobs
  BY <1>1, <1>2 DEF WorkInv, DrainOK, Projecting, DatabaseType, MemoryType
<1>4. Verdict(mem)
  BY <1>1 DEF Verdict, SameAnswers, SameCharges, SameKeys, SameDrain
<1>5. ASSUME NEW m, Verdict(m)
      PROVE  Verdict(WakeProjector(m))
  <2> DEFINE w == WakeProjector(m)
  <2>1. /\ w \in MemoryType
        /\ w.pc = m.pc /\ w.job = m.job
        /\ SameTables(w, m) /\ SameAnswers(w, m) /\ SameCharges(w, m) /\ SameKeys(w, m)
        /\ SameDrain(w, m) /\ SameLife(w, m)
    BY <1>5, WakeEffect DEF Verdict
  <2> SUFFICES Verdict(w) OBVIOUS
  <2> HIDE DEF w
  <2> QED BY <1>5, <2>1 DEF Verdict, SameTables, SameAnswers, SameCharges, SameKeys,
                            SameDrain, SameLife
<1>6. ASSUME NEW m, Verdict(m), m.state = mem.state
      PROVE  Verdict(Blocks(m))
  <2> DEFINE w == Blocks(m)
  <2>1. /\ w \in MemoryType
        /\ w.pc = m.pc /\ w.job = m.job
        /\ SameTables(w, m) /\ SameAnswers(w, m) /\ SameCharges(w, m) /\ SameKeys(w, m)
        /\ SameDrain(w, m) /\ w.fatal = m.fatal /\ w.init = m.init
        /\ IF m.state \in {"stopping", "stopped", "failed"} THEN w.state = m.state
           ELSE w.state = "blocked"
    BY <1>6, BlocksEffect DEF Verdict
  <2> SUFFICES Verdict(w) OBVIOUS
  <2> HIDE DEF w
  <2> QED BY <1>6, <2>1 DEF Verdict, SameTables, SameAnswers, SameCharges, SameKeys,
                            SameDrain, SameLife
<1>7. ASSUME NEW m, Verdict(m), m.pending = mem.pending, m.state = mem.state,
             mem.ev \in db'.projected
      PROVE  Verdict(ClearPending(m, mem.ev))
  <2> DEFINE w == ClearPending(m, mem.ev)
  <2>1. /\ w \in MemoryType
        /\ w.pc = m.pc /\ w.job = m.job
        /\ w.inflight = m.inflight /\ w.retained = m.retained
        /\ w.pending = m.pending \ {mem.ev}
        /\ SameAnswers(w, m) /\ SameCharges(w, m) /\ SameKeys(w, m)
        /\ SameDrain(w, m) /\ w.fatal = m.fatal /\ w.init = m.init
        /\ w.state = m.state \/ (m.state = "blocked" /\ w.state = "running")
    BY <1>7, ClearPendingEffect DEF Verdict
  <2> SUFFICES Verdict(w) OBVIOUS
  <2> HIDE DEF w
  <2> QED BY <1>7, <2>1 DEF Verdict, SameTables, SameAnswers, SameCharges, SameKeys,
                            SameDrain, SameLife
<1>8. ASSUME NEW m, Verdict(m), NEW res, mem' = EndProjection(m, res)
      PROVE  \E n, r : Verdict(n) /\ ProjectionEnds(mem', n, r)
  <2>1. m \in MemoryType /\ m.ev = mem.ev /\ m.owner = mem.owner
    BY <1>8 DEF Verdict, SameDrain
  <2>2. ProjectionEnds(mem', m, res) BY <1>3, <1>8, <2>1, EndEffect
  <2> QED BY <1>8, <2>2
<1> DEFINE w == WakeProjector(mem)
<1>9. Verdict(w) /\ w.state = mem.state /\ w.pending = mem.pending /\ w.ev = mem.ev /\ w.err = mem.err
  BY <1>1, <1>4, <1>5, WakeEffect DEF SameLife, SameTables, SameDrain
<1> HIDE DEF w
<1> DEFINE wb == WakeProjector(Blocks(mem))
           bw == Blocks(w)
           cm == ClearPending(mem, mem.ev)
           cw == ClearPending(w, mem.ev)
<1>10. Verdict(wb) BY <1>4, <1>5, <1>6
<1>11. Verdict(bw) BY <1>6, <1>9
<1>12. mem.ev \in db'.projected => Verdict(cm) /\ Verdict(cw)
  BY <1>4, <1>7, <1>9
<1>13. CASE MarkProjected
  <2>1. mem.step = "mark"
        /\ \/ mem' = EndProjection(cm, "done") /\ db' = ProjectedBy(db, mem.ev)
           \/ mem' = EndProjection(wb, "pending") /\ (db' = db \/ db' = ProjectedBy(db, mem.ev))
           \/ mem' = EndProjection(mem, "permanent") /\ db' = db
    BY <1>13 DEF MarkProjected, Failed
  <2>2. db' = ProjectedBy(db, mem.ev) => mem.ev \in db'.projected
    BY <1>1, <1>3, ProjectedByEffect
  <2> HIDE DEF cm, wb
  <2> QED BY <1>2, <1>3, <1>4, <1>8, <1>10, <1>12, <2>1, <2>2
<1>14. CASE MarkFailed
  <2>1. /\ db' = db
        /\ \/ mem.ev \notin db.projected /\ mem' = EndProjection(w, mem.err)
           \/ /\ mem.ev \in db.projected
              /\ \E r : mem' = EndProjection(cw, r)
           \/ mem' = EndProjection(bw, mem.err)
           \/ mem' = EndProjection(w, "permanent")
    BY <1>9, <1>14 DEF MarkFailed, w
  <2> HIDE DEF cw, bw
  <2> QED BY <1>2, <1>3, <1>8, <1>9, <1>11, <1>12, <2>1
<1> QED BY <1>13, <1>14

\* A start that opens admission leaves every table alone.
LEMMA OpensEffect ==
    ASSUME NEW m \in MemoryType
    PROVE  LET n == Opens(m) IN
           /\ n \in MemoryType /\ n.pc = m.pc
           /\ SameTables(n, m) /\ SameAnswers(n, m) /\ SameCharges(n, m) /\ SameKeys(n, m)
           /\ SameDrain(n, m) /\ n.fatal = m.fatal
           /\ \/ /\ m.state = "starting" /\ n.state = "running" /\ n.init = TRUE
                 /\ n.job = Moved(m.job, "projector", "wait")
              \/ n.job = m.job /\ n.state = m.state /\ n.init = m.init
<1>1. CASE m.state # "starting"
  BY <1>1, Opens(m) = m
     DEF Opens, SameTables, SameAnswers, SameCharges, SameKeys, SameDrain, SameLife
<1>2. CASE m.state = "starting"
  <2> DEFINE g == JobTo(m, "projector", "wait")
             h == [g EXCEPT !.state = "running", !.init = TRUE]
             i == [h EXCEPT !.stopping = FALSE, !.wake = FALSE]
             n == Opens(m)
  <2>1. /\ g \in MemoryType /\ g.job = Moved(m.job, "projector", "wait") /\ g.pc = m.pc
        /\ SameTables(g, m) /\ SameAnswers(g, m) /\ SameCharges(g, m) /\ SameKeys(g, m)
        /\ SameDrain(g, m) /\ SameLife(g, m)
    <3>1. "wait" \in JobPcs /\ "projector" \in Jobs BY DEF JobPcs, Jobs
    <3> QED BY <3>1, JobToEffect
  <2>2. n = [g EXCEPT !.state = "running", !.init = TRUE,
                      !.stopping = FALSE, !.wake = FALSE, !.retryNeeded = FALSE]
    BY <1>2 DEF Opens
  <2> SUFFICES /\ n \in MemoryType /\ n.pc = m.pc
               /\ SameTables(n, m) /\ SameAnswers(n, m) /\ SameCharges(n, m) /\ SameKeys(n, m)
               /\ SameDrain(n, m) /\ n.fatal = m.fatal
               /\ n.state = "running" /\ n.init = TRUE
               /\ n.job = Moved(m.job, "projector", "wait")
    BY <1>2
  <2> HIDE DEF n
  <2>3. n = [i EXCEPT !.retryNeeded = FALSE] BY <2>1, <2>2 DEF MemoryType
  <2> HIDE DEF g
  <2>4. /\ h \in MemoryType /\ h.job = g.job /\ h.pc = g.pc
        /\ SameTables(h, g) /\ SameAnswers(h, g) /\ SameCharges(h, g) /\ SameKeys(h, g)
        /\ SameDrain(h, g) /\ h.fatal = g.fatal /\ h.state = "running" /\ h.init = TRUE
    <3>1. h \in MemoryType
      <4> DEFINE x == [g EXCEPT !.init = TRUE]
      <4>1. x \in MemoryType BY ZenonT(60), <2>1 DEF MemoryType
      <4>2. h = [x EXCEPT !.state = "running"] BY <2>1 DEF MemoryType
      <4> HIDE DEF x, h
      <4>3. "running" \in States BY DEF States
      <4> QED BY SMTT(30), <4>1, <4>2, <4>3 DEF MemoryType
    <3>2. /\ h.job = g.job /\ h.pc = g.pc /\ h.fatal = g.fatal /\ h.state = "running"
          /\ h.init = TRUE
      BY <2>1 DEF MemoryType
    <3>3. /\ SameTables(h, g) /\ SameAnswers(h, g) /\ SameCharges(h, g) /\ SameKeys(h, g)
          /\ SameDrain(h, g)
      BY <2>1 DEF MemoryType, SameTables, SameAnswers, SameCharges, SameKeys, SameDrain
    <3> QED BY <3>1, <3>2, <3>3
  <2> HIDE DEF h
  <2>5. /\ i \in MemoryType /\ i.job = h.job /\ i.pc = h.pc
        /\ SameTables(i, h) /\ SameAnswers(i, h) /\ SameCharges(i, h) /\ SameKeys(i, h)
        /\ SameDrain(i, h) /\ SameLife(i, h)
    <3>1. i \in MemoryType BY ZenonT(60), <2>4 DEF MemoryType
    <3>2. i.job = h.job /\ i.pc = h.pc BY <2>4 DEF MemoryType
    <3>3. /\ SameTables(i, h) /\ SameAnswers(i, h) /\ SameCharges(i, h) /\ SameKeys(i, h)
          /\ SameDrain(i, h) /\ SameLife(i, h)
      BY <2>4 DEF MemoryType, SameTables, SameAnswers, SameCharges, SameKeys, SameDrain,
                  SameLife
    <3> QED BY <3>1, <3>2, <3>3
  <2> HIDE DEF i
  <2>6. /\ n \in MemoryType /\ n.job = i.job /\ n.pc = i.pc
        /\ SameTables(n, i) /\ SameAnswers(n, i) /\ SameCharges(n, i) /\ SameKeys(n, i)
        /\ SameDrain(n, i) /\ SameLife(n, i)
    BY ZenonT(60), <2>3, <2>5
       DEF MemoryType, SameTables, SameAnswers, SameCharges, SameKeys, SameDrain, SameLife
  <2> QED BY <2>1, <2>4, <2>5, <2>6
             DEF SameTables, SameAnswers, SameCharges, SameKeys, SameDrain, SameLife
<1> QED BY <1>1, <1>2

\* A change of the reported state alone.
Reports(m, x) == [m EXCEPT !.state = x]

\* Reporting a state changes the state alone.
LEMMA ReportsEffect ==
    ASSUME NEW m \in MemoryType, NEW x \in States
    PROVE  LET n == Reports(m, x) IN
           /\ n \in MemoryType /\ n.pc = m.pc /\ n.job = m.job
           /\ SameTables(n, m) /\ SameAnswers(n, m) /\ SameCharges(n, m) /\ SameKeys(n, m)
           /\ SameDrain(n, m) /\ n.fatal = m.fatal /\ n.init = m.init /\ n.state = x
  BY DEF Reports, MemoryType, SameTables, SameAnswers, SameCharges, SameKeys, SameDrain,
         SameLife

\* A step of a task leaves the requests, the tables and the keys alone.
TaskStep(n, m) ==
    /\ n \in MemoryType /\ n.pc = m.pc
    /\ SameTables(n, m) /\ SameAnswers(n, m) /\ SameCharges(n, m) /\ SameKeys(n, m)

\* A start begins once, in a new service or one blocked before it was ever open.
LEMMA StartEffect ==
    ASSUME WorkInv, Start
    PROVE  /\ TaskStep(mem', mem) /\ db' = db /\ SameDrain(mem', mem)
           /\ mem.job["start"].pc = "idle" /\ mem'.job = Moved(mem.job, "start", "lock")
           /\ mem.state = "new" \/ (mem.state = "blocked" /\ ~ mem.init /\ ~ mem.fatal)
           /\ mem'.state = "starting" /\ mem'.fatal = mem.fatal /\ mem'.init = mem.init
<1> DEFINE g == JobTo(mem, "start", "lock")
<1>1. mem \in MemoryType /\ "lock" \in JobPcs /\ "start" \in Jobs /\ "starting" \in States
  BY DEF WorkInv, TypeOK, JobPcs, Jobs, States
<1>2. /\ mem.job["start"].pc = "idle" /\ db' = db /\ mem' = Reports(g, "starting")
      /\ mem.state = "new" \/ (mem.state = "blocked" /\ ~ mem.init /\ ~ mem.fatal)
  BY DEF Start, Reports
<1>3. /\ g \in MemoryType /\ g.job = Moved(mem.job, "start", "lock") /\ g.pc = mem.pc
      /\ SameTables(g, mem) /\ SameAnswers(g, mem) /\ SameCharges(g, mem) /\ SameKeys(g, mem)
      /\ SameDrain(g, mem) /\ SameLife(g, mem)
  BY <1>1, JobToEffect
<1> HIDE DEF g
<1>4. /\ mem' \in MemoryType /\ mem'.pc = g.pc /\ mem'.job = g.job
      /\ SameTables(mem', g) /\ SameAnswers(mem', g) /\ SameCharges(mem', g)
      /\ SameKeys(mem', g) /\ SameDrain(mem', g)
      /\ mem'.fatal = g.fatal /\ mem'.init = g.init /\ mem'.state = "starting"
  BY <1>1, <1>2, <1>3, ReportsEffect
<1> QED BY <1>2, <1>3, <1>4
           DEF TaskStep, SameTables, SameAnswers, SameCharges, SameKeys, SameDrain, SameLife

\* A task that ends its pass under the drain lock: the lock is free, its job is jobs.
LeavesDrain(n, m, jobs) ==
    /\ TaskStep(n, m) /\ DrainFree(n) /\ n.from = m.from /\ n.job = jobs

\* A start that opens the service, or gives up.
StartOpens(n, m) ==
    /\ LeavesDrain(n, m, Ended(Moved(m.job, "projector", "wait"), "start"))
    /\ m.state = "starting" /\ n.state = "running" /\ n.init = TRUE /\ n.fatal = m.fatal
StartEnds(n, m) ==
    /\ LeavesDrain(n, m, Ended(m.job, "start"))
    /\ n.init = m.init /\ (m.fatal => n.fatal)
    /\ \/ n.state = m.state
       \/ n.state \in {"failed", "blocked"}

\* The end of a start either opens admission or ends the task.
LEMMA FinishStartEffect ==
    ASSUME NEW m \in MemoryType
    PROVE  LET n == JobDone(Opens(FreeDrain(m)), "start")
           IN  StartOpens(n, m) \/ StartEnds(n, m)
<1> DEFINE f == FreeDrain(m)
           g == Opens(f)
           n == JobDone(g, "start")
<1>1. /\ f \in MemoryType /\ DrainFree(f) /\ f.pc = m.pc /\ f.job = m.job
      /\ SameTables(f, m) /\ SameAnswers(f, m) /\ SameCharges(f, m) /\ SameKeys(f, m)
      /\ SameLife(f, m) /\ f.from = m.from
  BY FreeDrainEffect
<1> SUFFICES StartOpens(n, m) \/ StartEnds(n, m) OBVIOUS
<1> HIDE DEF f
<1>2. /\ g \in MemoryType /\ g.pc = f.pc
      /\ SameTables(g, f) /\ SameAnswers(g, f) /\ SameCharges(g, f) /\ SameKeys(g, f)
      /\ SameDrain(g, f) /\ g.fatal = f.fatal
      /\ \/ /\ f.state = "starting" /\ g.state = "running" /\ g.init = TRUE
            /\ g.job = Moved(f.job, "projector", "wait")
         \/ g.job = f.job /\ g.state = f.state /\ g.init = f.init
  BY <1>1, OpensEffect
<1> HIDE DEF g
<1>3. /\ n \in MemoryType /\ n.job = Ended(g.job, "start") /\ n.pc = g.pc
      /\ SameTables(n, g) /\ SameAnswers(n, g) /\ SameCharges(n, g) /\ SameKeys(n, g)
      /\ SameDrain(n, g) /\ SameLife(n, g)
  <2>1. "start" \in Jobs BY DEF Jobs
  <2> QED BY <1>2, <2>1, JobDoneEffect
<1> HIDE DEF n
<1>4. TaskStep(n, m) /\ DrainFree(n) /\ n.from = m.from
  BY <1>1, <1>2, <1>3
     DEF TaskStep, DrainFree, SameTables, SameAnswers, SameCharges, SameKeys, SameDrain,
         SameLife
<1>5. n.fatal = m.fatal /\ n.state = g.state /\ n.init = g.init /\ f.state = m.state /\ f.init = m.init
  BY <1>1, <1>2, <1>3 DEF SameLife
<1> QED BY <1>1, <1>2, <1>3, <1>4, <1>5 DEF StartOpens, StartEnds, LeavesDrain

\* A holder that frees the lock and ends its job reporting a failure.
LEMMA FinishJobEffect ==
    ASSUME NEW m \in MemoryType, NEW j \in Jobs, NEW x \in States
    PROVE  LET n == JobDone(Reports(FreeDrain(m), x), j)
           IN  /\ LeavesDrain(n, m, Ended(m.job, j)) /\ n.state = x
               /\ n.fatal = m.fatal /\ n.init = m.init
<1> DEFINE f == FreeDrain(m)
           g == Reports(f, x)
           n == JobDone(g, j)
<1>1. /\ f \in MemoryType /\ DrainFree(f) /\ f.pc = m.pc /\ f.job = m.job
      /\ SameTables(f, m) /\ SameAnswers(f, m) /\ SameCharges(f, m) /\ SameKeys(f, m)
      /\ SameLife(f, m) /\ f.from = m.from
  BY FreeDrainEffect
<1> SUFFICES /\ LeavesDrain(n, m, Ended(m.job, j)) /\ n.state = x
             /\ n.fatal = m.fatal /\ n.init = m.init
  OBVIOUS
<1> HIDE DEF f
<1>2. /\ g \in MemoryType /\ g.pc = f.pc /\ g.job = f.job
      /\ SameTables(g, f) /\ SameAnswers(g, f) /\ SameCharges(g, f) /\ SameKeys(g, f)
      /\ SameDrain(g, f) /\ g.fatal = f.fatal /\ g.init = f.init /\ g.state = x
  BY <1>1, ReportsEffect
<1> HIDE DEF g
<1>3. /\ n \in MemoryType /\ n.job = Ended(g.job, j) /\ n.pc = g.pc
      /\ SameTables(n, g) /\ SameAnswers(n, g) /\ SameCharges(n, g) /\ SameKeys(n, g)
      /\ SameDrain(n, g) /\ SameLife(n, g)
  BY <1>2, JobDoneEffect
<1> HIDE DEF n
<1> QED BY <1>1, <1>2, <1>3
           DEF LeavesDrain, TaskStep, DrainFree, SameTables, SameAnswers, SameCharges,
               SameKeys, SameDrain, SameLife

\* A task that fails ends with the service fatal.
LEMMA FailJobEffect ==
    ASSUME NEW m \in MemoryType, NEW j \in Jobs
    PROVE  LET n == JobDone(Fails(FreeDrain(m)), j)
           IN  /\ LeavesDrain(n, m, Ended(m.job, j)) /\ n.state = "failed"
               /\ n.fatal = TRUE /\ n.init = m.init
<1> DEFINE f == FreeDrain(m)
           g == Fails(f)
           n == JobDone(g, j)
<1>1. /\ f \in MemoryType /\ DrainFree(f) /\ f.pc = m.pc /\ f.job = m.job
      /\ SameTables(f, m) /\ SameAnswers(f, m) /\ SameCharges(f, m) /\ SameKeys(f, m)
      /\ SameLife(f, m) /\ f.from = m.from
  BY FreeDrainEffect
<1> SUFFICES /\ LeavesDrain(n, m, Ended(m.job, j)) /\ n.state = "failed"
             /\ n.fatal = TRUE /\ n.init = m.init
  OBVIOUS
<1> HIDE DEF f
<1>2. /\ g \in MemoryType
      /\ g.pc = f.pc /\ g.job = f.job
      /\ SameTables(g, f) /\ SameAnswers(g, f) /\ SameCharges(g, f) /\ SameKeys(g, f)
      /\ SameDrain(g, f) /\ g.fatal = TRUE /\ g.init = f.init /\ g.state = "failed"
  BY <1>1, FailsEffect
<1> HIDE DEF g
<1>3. /\ n \in MemoryType /\ n.job = Ended(g.job, j) /\ n.pc = g.pc
      /\ SameTables(n, g) /\ SameAnswers(n, g) /\ SameCharges(n, g) /\ SameKeys(n, g)
      /\ SameDrain(n, g) /\ SameLife(n, g)
  BY <1>2, JobDoneEffect
<1> HIDE DEF n
<1> QED BY <1>1, <1>2, <1>3
           DEF LeavesDrain, TaskStep, DrainFree, SameTables, SameAnswers, SameCharges,
               SameKeys, SameDrain, SameLife

\* The holder goes on to its audit or to its mutation.
LEMMA StepToEffect ==
    ASSUME NEW m \in MemoryType, NEW x \in DrainSteps
    PROVE  LET n == [m EXCEPT !.step = x] IN
           /\ PassStep(n, m) /\ n.step = x /\ n.owner = m.owner /\ n.todo = m.todo
           /\ n.ev = m.ev /\ n.from = m.from /\ n.record = m.record
  BY DEF MemoryType, PassStep, SameTables, SameAnswers, SameCharges, SameKeys, SameLife

\* The steps of a start under the lock: its audit, its end or its failure.
LEMMA StartWorkEffect ==
    ASSUME WorkInv, StartDrained \/ StartAudited
    PROVE  /\ mem.owner = "start" /\ mem.step \in {"drained", "audit"} /\ db' = db
           /\ \/ /\ PassStep(mem', mem) /\ mem'.step = "audit" /\ mem'.owner = mem.owner
                 /\ mem'.todo = mem.todo /\ mem'.record = mem.record
              \/ StartOpens(mem', mem)
              \/ StartEnds(mem', mem)
              \/ Raised(mem', mem, FALSE)
<1>1. mem \in MemoryType /\ "start" \in Jobs BY DEF WorkInv, TypeOK, Jobs
<1>2. mem.owner = "start" /\ mem.step \in {"drained", "audit"} /\ db' = db
  BY DEF StartDrained, StartAudited
<1> DEFINE x == IF mem.fatal THEN "failed" ELSE "blocked"
<1>3. \/ mem' = [mem EXCEPT !.step = "audit"]
      \/ mem' = JobDone(Opens(FreeDrain(mem)), "start")
      \/ mem' = JobDone(Reports(FreeDrain(mem), x), "start")
      \/ mem' = JobDone(Fails(FreeDrain(mem)), "start")
      \/ mem' = RaiseOut(mem, FALSE)
  <2>1. mem.penClean \in BOOLEAN /\ mem.tolerated \in BOOLEAN BY <1>1 DEF MemoryType
  <2> QED BY <2>1 DEF StartDrained, StartAudited, Reports
<1>4. x \in States /\ x \in {"failed", "blocked"} /\ "audit" \in DrainSteps
  BY DEF States, DrainSteps
<1> HIDE DEF x
<1>5. CASE mem' = [mem EXCEPT !.step = "audit"]
  BY <1>1, <1>2, <1>4, <1>5, StepToEffect
<1>6. CASE mem' = JobDone(Opens(FreeDrain(mem)), "start")
  BY <1>1, <1>2, <1>6, FinishStartEffect
<1>7. CASE mem' = JobDone(Reports(FreeDrain(mem), x), "start")
  BY <1>1, <1>2, <1>4, <1>7, FinishJobEffect DEF StartEnds
<1>8. CASE mem' = JobDone(Fails(FreeDrain(mem)), "start")
  BY <1>1, <1>2, <1>8, FailJobEffect DEF StartEnds
<1>9. CASE mem' = RaiseOut(mem, FALSE)
  BY <1>1, <1>2, <1>9, RaiseEffect
<1> QED BY <1>3, <1>5, <1>6, <1>7, <1>8, <1>9

\* A job moved to its next wait, with nothing else of the memory that counts here.
JobStep(n, m, jobs) ==
    /\ TaskStep(n, m) /\ SameDrain(n, m) /\ n.job = jobs
    /\ n.fatal = m.fatal /\ n.init = m.init

\* A turn of the projector leaves the loop or goes for the lock.
LEMMA ProjectorTurnEffect ==
    ASSUME WorkInv, ProjectorTurn
    PROVE  /\ db' = db /\ mem.job["projector"].pc = "wait" /\ mem'.state = mem.state
           /\ \E pc \in {"exited", "lock"} : JobStep(mem', mem, Moved(mem.job, "projector", pc))
<1> DEFINE g == [mem EXCEPT !.wake = FALSE]
           pc == IF mem.stopping \/ mem.fatal THEN "exited" ELSE "lock"
<1>1. mem \in MemoryType /\ "projector" \in Jobs /\ pc \in JobPcs /\ pc \in {"exited", "lock"}
  BY DEF WorkInv, TypeOK, Jobs, JobPcs
<1>2. db' = db /\ mem.job["projector"].pc = "wait" /\ mem' = JobTo(g, "projector", pc)
  BY DEF ProjectorTurn
<1> HIDE DEF pc
<1>3. /\ g \in MemoryType /\ g.pc = mem.pc /\ g.job = mem.job
      /\ SameTables(g, mem) /\ SameAnswers(g, mem) /\ SameCharges(g, mem) /\ SameKeys(g, mem)
      /\ SameDrain(g, mem) /\ SameLife(g, mem)
  BY ZenonT(60), <1>1
     DEF MemoryType, SameTables, SameAnswers, SameCharges, SameKeys, SameDrain, SameLife
<1> HIDE DEF g
<1>4. /\ mem' \in MemoryType /\ mem'.job = Moved(g.job, "projector", pc) /\ mem'.pc = g.pc
      /\ SameTables(mem', g) /\ SameAnswers(mem', g) /\ SameCharges(mem', g)
      /\ SameKeys(mem', g) /\ SameDrain(mem', g) /\ SameLife(mem', g)
  BY <1>1, <1>2, <1>3, JobToEffect
<1>5. JobStep(mem', mem, Moved(mem.job, "projector", pc)) /\ mem'.state = mem.state
  BY <1>3, <1>4 DEF JobStep, TaskStep, SameTables, SameAnswers, SameCharges, SameKeys,
                    SameDrain, SameLife
<1> QED BY <1>1, <1>2, <1>5

\* A pass of the projector ends and it waits again.
LEMMA ProjectorDrainedEffect ==
    ASSUME WorkInv, ProjectorDrained
    PROVE  /\ mem.owner = "projector" /\ mem.step = "drained" /\ db' = db
           /\ LeavesDrain(mem', mem, Moved(mem.job, "projector", "wait"))
           /\ mem'.fatal = mem.fatal /\ mem'.init = mem.init
           /\ mem'.state = mem.state \/ (mem.state = "blocked" /\ mem'.state = "running")
<1> DEFINE f == FreeDrain(mem)
           m == JobTo(f, "projector", "wait")
           n == [m EXCEPT !.retryNeeded = FALSE]
<1>1. mem \in MemoryType /\ "projector" \in Jobs /\ "wait" \in JobPcs
  BY DEF WorkInv, TypeOK, Jobs, JobPcs
<1>2. /\ mem.owner = "projector" /\ mem.step = "drained" /\ db' = db
      /\ \/ mem' = ClearTransientBlock(n)
         \/ mem' = [m EXCEPT !.retryNeeded = TRUE]
  BY DEF ProjectorDrained
<1>3. /\ f \in MemoryType /\ DrainFree(f) /\ f.pc = mem.pc /\ f.job = mem.job
      /\ SameTables(f, mem) /\ SameAnswers(f, mem) /\ SameCharges(f, mem) /\ SameKeys(f, mem)
      /\ SameLife(f, mem) /\ f.from = mem.from
  BY <1>1, FreeDrainEffect
<1> HIDE DEF f
<1>4. /\ m \in MemoryType /\ m.job = Moved(f.job, "projector", "wait") /\ m.pc = f.pc
      /\ SameTables(m, f) /\ SameAnswers(m, f) /\ SameCharges(m, f) /\ SameKeys(m, f)
      /\ SameDrain(m, f) /\ SameLife(m, f)
  BY <1>1, <1>3, JobToEffect
<1> HIDE DEF m
<1>5. /\ n \in MemoryType /\ n.job = m.job /\ n.pc = m.pc
      /\ SameTables(n, m) /\ SameAnswers(n, m) /\ SameCharges(n, m) /\ SameKeys(n, m)
      /\ SameDrain(n, m) /\ SameLife(n, m)
  BY ZenonT(60), <1>4
     DEF MemoryType, SameTables, SameAnswers, SameCharges, SameKeys, SameDrain, SameLife
<1> HIDE DEF n
<1>6. CASE mem' = ClearTransientBlock(n)
  <2>1. /\ mem' \in MemoryType
        /\ mem'.pc = n.pc /\ mem'.job = n.job
        /\ SameTables(mem', n) /\ SameAnswers(mem', n) /\ SameCharges(mem', n)
        /\ SameKeys(mem', n) /\ SameDrain(mem', n)
        /\ mem'.fatal = n.fatal /\ mem'.init = n.init
        /\ mem'.state = n.state \/ (n.state = "blocked" /\ mem'.state = "running")
    BY <1>5, <1>6, ClearEffect
  <2> QED BY <1>2, <1>3, <1>4, <1>5, <2>1
             DEF LeavesDrain, TaskStep, DrainFree, SameTables, SameAnswers, SameCharges,
                 SameKeys, SameDrain, SameLife
<1>7. CASE mem' = [m EXCEPT !.retryNeeded = TRUE]
  <2>1. /\ mem' \in MemoryType /\ mem'.job = m.job /\ mem'.pc = m.pc
        /\ SameTables(mem', m) /\ SameAnswers(mem', m) /\ SameCharges(mem', m)
        /\ SameKeys(mem', m) /\ SameDrain(mem', m) /\ SameLife(mem', m)
    BY ZenonT(60), <1>4, <1>7
       DEF MemoryType, SameTables, SameAnswers, SameCharges, SameKeys, SameDrain, SameLife
  <2> QED BY <1>2, <1>3, <1>4, <2>1
             DEF LeavesDrain, TaskStep, DrainFree, SameTables, SameAnswers, SameCharges,
                 SameKeys, SameDrain, SameLife
<1> QED BY <1>2, <1>6, <1>7

\* stop() takes over, or ends at once what never started.
LEMMA StopEffect ==
    ASSUME WorkInv, Stop
    PROVE  /\ db' = db /\ mem.job["stop"].pc = "idle" /\ mem.state # "stopped"
           /\ \/ mem.state = "new" /\ mem'.state = "stopped" /\ JobStep(mem', mem, mem.job)
              \/ mem'.state = "stopping" /\ JobStep(mem', mem, Moved(mem.job, "stop", "start"))
<1> DEFINE g == JobTo(mem, "stop", "start")
<1>1. mem \in MemoryType /\ "start" \in JobPcs /\ "stop" \in Jobs
      /\ "stopped" \in States /\ "stopping" \in States
  BY DEF WorkInv, TypeOK, JobPcs, Jobs, States
<1>2. /\ db' = db /\ mem.job["stop"].pc = "idle" /\ mem.state # "stopped"
      /\ \/ mem.state = "new" /\ mem' = Reports(mem, "stopped")
         \/ mem' = Reports(g, "stopping")
  BY DEF Stop, Reports
<1>3. /\ g \in MemoryType /\ g.job = Moved(mem.job, "stop", "start") /\ g.pc = mem.pc
      /\ SameTables(g, mem) /\ SameAnswers(g, mem) /\ SameCharges(g, mem) /\ SameKeys(g, mem)
      /\ SameDrain(g, mem) /\ SameLife(g, mem)
  BY <1>1, JobToEffect
<1> HIDE DEF g
<1>4. CASE mem.state = "new" /\ mem' = Reports(mem, "stopped")
  <2>1. /\ mem' \in MemoryType /\ mem'.pc = mem.pc /\ mem'.job = mem.job
        /\ SameTables(mem', mem) /\ SameAnswers(mem', mem) /\ SameCharges(mem', mem)
        /\ SameKeys(mem', mem) /\ SameDrain(mem', mem)
        /\ mem'.fatal = mem.fatal /\ mem'.init = mem.init /\ mem'.state = "stopped"
    BY <1>1, <1>4, ReportsEffect
  <2> QED BY <1>2, <1>4, <2>1 DEF JobStep, TaskStep
<1>5. CASE mem' = Reports(g, "stopping")
  <2>1. /\ mem' \in MemoryType /\ mem'.pc = g.pc /\ mem'.job = g.job
        /\ SameTables(mem', g) /\ SameAnswers(mem', g) /\ SameCharges(mem', g)
        /\ SameKeys(mem', g) /\ SameDrain(mem', g)
        /\ mem'.fatal = g.fatal /\ mem'.init = g.init /\ mem'.state = "stopping"
    BY <1>1, <1>3, <1>5, ReportsEffect
  <2> QED BY <1>2, <1>3, <2>1
             DEF JobStep, TaskStep, SameTables, SameAnswers, SameCharges, SameKeys,
                 SameDrain, SameLife
<1> QED BY <1>2, <1>4, <1>5

\* A stop that has joined the start closes admission.
LEMMA StopBeginsEffect ==
    ASSUME WorkInv, StopBegins
    PROVE  /\ db' = db /\ mem.job["stop"].pc = "start" /\ mem.job["start"].pc = "idle"
           /\ mem'.state = "stopping" /\ JobStep(mem', mem, Moved(mem.job, "stop", "sessions"))
<1> DEFINE g == JobTo(mem, "stop", "sessions")
<1>1. mem \in MemoryType /\ "sessions" \in JobPcs /\ "stop" \in Jobs /\ "stopping" \in States
  BY DEF WorkInv, TypeOK, JobPcs, Jobs, States
<1>2. /\ db' = db /\ mem.job["stop"].pc = "start" /\ mem.job["start"].pc = "idle"
      /\ mem' = Reports(g, "stopping")
  BY DEF StopBegins, Reports
<1>3. /\ g \in MemoryType /\ g.job = Moved(mem.job, "stop", "sessions") /\ g.pc = mem.pc
      /\ SameTables(g, mem) /\ SameAnswers(g, mem) /\ SameCharges(g, mem) /\ SameKeys(g, mem)
      /\ SameDrain(g, mem) /\ SameLife(g, mem)
  BY <1>1, JobToEffect
<1> HIDE DEF g
<1>4. /\ mem' \in MemoryType /\ mem'.pc = g.pc /\ mem'.job = g.job
      /\ SameTables(mem', g) /\ SameAnswers(mem', g) /\ SameCharges(mem', g)
      /\ SameKeys(mem', g) /\ SameDrain(mem', g)
      /\ mem'.fatal = g.fatal /\ mem'.init = g.init /\ mem'.state = "stopping"
  BY <1>1, <1>2, <1>3, ReportsEffect
<1> QED BY <1>2, <1>3, <1>4
           DEF JobStep, TaskStep, SameTables, SameAnswers, SameCharges, SameKeys, SameDrain,
               SameLife

\* A stop goes on once the sessions and the key mutations are drained.
LEMMA StopSessionsDoneEffect ==
    ASSUME WorkInv, StopSessionsDone
    PROVE  /\ db' = db /\ mem.job["stop"].pc = "sessions" /\ SessionsDrained
           /\ mem'.state = mem.state /\ JobStep(mem', mem, Moved(mem.job, "stop", "projector"))
<1> DEFINE g == JobTo(mem, "stop", "projector")
<1>1. mem \in MemoryType /\ "projector" \in JobPcs /\ "stop" \in Jobs
  BY DEF WorkInv, TypeOK, JobPcs, Jobs
<1>2. /\ db' = db /\ mem.job["stop"].pc = "sessions" /\ SessionsDrained
      /\ mem' = [g EXCEPT !.stopping = TRUE, !.wake = TRUE]
  BY DEF StopSessionsDone
<1>3. /\ g \in MemoryType /\ g.job = Moved(mem.job, "stop", "projector") /\ g.pc = mem.pc
      /\ SameTables(g, mem) /\ SameAnswers(g, mem) /\ SameCharges(g, mem) /\ SameKeys(g, mem)
      /\ SameDrain(g, mem) /\ SameLife(g, mem)
  BY <1>1, JobToEffect
<1> HIDE DEF g
<1>4. mem' \in MemoryType BY ZenonT(60), <1>2, <1>3 DEF MemoryType
<1>5. mem'.pc = g.pc /\ mem'.job = g.job /\ mem'.state = g.state
  BY <1>2, <1>3 DEF MemoryType
<1>6. /\ SameTables(mem', g) /\ SameAnswers(mem', g) /\ SameCharges(mem', g)
      /\ SameKeys(mem', g) /\ SameDrain(mem', g) /\ SameLife(mem', g)
  BY <1>2, <1>3 DEF MemoryType, SameTables, SameAnswers, SameCharges, SameKeys, SameDrain,
                    SameLife
<1> QED BY <1>2, <1>3, <1>4, <1>5, <1>6
           DEF JobStep, TaskStep, SameTables, SameAnswers, SameCharges, SameKeys, SameDrain,
               SameLife

\* A stop goes for the lock once the projector is joined.
LEMMA StopProjectorJoinedEffect ==
    ASSUME WorkInv, StopProjectorJoined
    PROVE  /\ db' = db /\ mem.job["stop"].pc = "projector"
           /\ mem.job["projector"].pc \in {"idle", "exited"} /\ mem'.state = mem.state
           /\ JobStep(mem', mem, Moved(Ended(mem.job, "projector"), "stop", "lock"))
<1> DEFINE g == JobDone(mem, "projector")
<1>1. mem \in MemoryType /\ "lock" \in JobPcs /\ "stop" \in Jobs /\ "projector" \in Jobs
  BY DEF WorkInv, TypeOK, JobPcs, Jobs
<1>2. /\ db' = db /\ mem.job["stop"].pc = "projector"
      /\ mem.job["projector"].pc \in {"idle", "exited"} /\ mem' = JobTo(g, "stop", "lock")
  BY DEF StopProjectorJoined
<1>3. /\ g \in MemoryType /\ g.job = Ended(mem.job, "projector") /\ g.pc = mem.pc
      /\ SameTables(g, mem) /\ SameAnswers(g, mem) /\ SameCharges(g, mem) /\ SameKeys(g, mem)
      /\ SameDrain(g, mem) /\ SameLife(g, mem)
  BY <1>1, JobDoneEffect
<1> HIDE DEF g
<1>4. /\ mem' \in MemoryType /\ mem'.job = Moved(g.job, "stop", "lock") /\ mem'.pc = g.pc
      /\ SameTables(mem', g) /\ SameAnswers(mem', g) /\ SameCharges(mem', g)
      /\ SameKeys(mem', g) /\ SameDrain(mem', g) /\ SameLife(mem', g)
  BY <1>1, <1>2, <1>3, JobToEffect
<1> QED BY <1>2, <1>3, <1>4
           DEF JobStep, TaskStep, SameTables, SameAnswers, SameCharges, SameKeys, SameDrain,
               SameLife

\* The final drain goes on to its audit, and ends in a clean stop or in a failure.
LEMMA StopWorkEffect ==
    ASSUME WorkInv, StopDrained \/ StopAudited
    PROVE  /\ mem.owner = "stop" /\ mem.step \in {"drained", "audit"} /\ db' = db
           /\ \/ /\ PassStep(mem', mem) /\ mem'.step = "audit" /\ mem'.owner = mem.owner
                 /\ mem'.todo = mem.todo /\ mem'.record = mem.record
              \/ /\ LeavesDrain(mem', mem, Ended(mem.job, "stop")) /\ mem'.init = mem.init
                 /\ mem'.fatal = mem.fatal
                 /\ mem.step = "audit" /\ AuditClean /\ TerminalClean /\ mem'.state = "stopped"
              \/ /\ LeavesDrain(mem', mem, Ended(mem.job, "stop")) /\ mem'.init = mem.init
                 /\ mem'.state = "failed" /\ (mem.fatal => mem'.fatal)
              \/ Raised(mem', mem, FALSE)
<1>1. mem \in MemoryType /\ "stop" \in Jobs BY DEF WorkInv, TypeOK, Jobs
<1>2. mem.owner = "stop" /\ mem.step \in {"drained", "audit"} /\ db' = db
  BY DEF StopDrained, StopAudited
<1>3. \/ mem' = [mem EXCEPT !.step = "audit"]
      \/ mem' = JobDone(Reports(FreeDrain(mem), "failed"), "stop")
      \/ /\ mem' = JobDone(Reports(FreeDrain(mem), "stopped"), "stop")
         /\ mem.step = "audit" /\ AuditClean /\ TerminalClean
      \/ mem' = JobDone(Fails(FreeDrain(mem)), "stop")
      \/ mem' = RaiseOut(mem, FALSE)
  BY DEF StopDrained, StopAudited, Reports
<1>4. "stopped" \in States /\ "failed" \in States /\ "audit" \in DrainSteps
  BY DEF States, DrainSteps
<1>5. CASE mem' = [mem EXCEPT !.step = "audit"]
  BY <1>1, <1>2, <1>4, <1>5, StepToEffect
<1>6. CASE mem' = JobDone(Reports(FreeDrain(mem), "failed"), "stop")
  BY <1>1, <1>2, <1>4, <1>6, FinishJobEffect
<1>7. CASE /\ mem' = JobDone(Reports(FreeDrain(mem), "stopped"), "stop")
           /\ mem.step = "audit" /\ AuditClean /\ TerminalClean
  BY <1>1, <1>2, <1>4, <1>7, FinishJobEffect
<1>8. CASE mem' = JobDone(Fails(FreeDrain(mem)), "stop")
  BY <1>1, <1>2, <1>8, FailJobEffect
<1>9. CASE mem' = RaiseOut(mem, FALSE)
  BY <1>1, <1>2, <1>9, RaiseEffect
<1> QED BY <1>3, <1>5, <1>6, <1>7, <1>8, <1>9

---------------------------------------------------------------------------
(* The key mutations.                                                      *)

Begun(jobs, j, r) == [jobs EXCEPT ![j] = r]
JobBegins(m, j, r) == [m EXCEPT !.job[j] = r]

\* A task that begins leaves the other tasks alone.
LEMMA JobBeginsEffect ==
    ASSUME NEW m \in MemoryType, NEW j \in Jobs, NEW r \in JobType
    PROVE  LET n == JobBegins(m, j, r) IN
           /\ n \in MemoryType
           /\ n.job = Begun(m.job, j, r) /\ n.pc = m.pc
           /\ SameTables(n, m) /\ SameAnswers(n, m) /\ SameCharges(n, m) /\ SameKeys(n, m)
           /\ SameDrain(n, m) /\ SameLife(n, m)
<1> DEFINE f == [m.job EXCEPT ![j] = r]
<1>1. f \in [Jobs -> JobType] BY DEF MemoryType
<1>2. JobBegins(m, j, r) = [m EXCEPT !.job = f] BY DEF JobBegins, MemoryType
<1> HIDE DEF f
<1>3. LET n == [m EXCEPT !.job = f] IN
      /\ n \in MemoryType /\ n.job = f /\ n.pc = m.pc
      /\ SameTables(n, m) /\ SameAnswers(n, m) /\ SameCharges(n, m) /\ SameKeys(n, m)
      /\ SameDrain(n, m) /\ SameLife(n, m)
  BY <1>1 DEF MemoryType, SameTables, SameAnswers, SameCharges, SameKeys, SameDrain, SameLife
<1> QED BY <1>2, <1>3 DEF f, Begun

Fenced(m, k, to) == [m EXCEPT !.fence[k] = to]

\* Fencing a key changes the fences alone.
LEMMA FencedEffect ==
    ASSUME NEW m \in MemoryType, NEW k, NEW to \in Fences
    PROVE  LET n == Fenced(m, k, to) IN
           /\ n \in MemoryType /\ n.pc = m.pc /\ n.job = m.job
           /\ n.fence = Lifted(m.fence, k, to)
           /\ n.resetPending = m.resetPending /\ n.deleted = m.deleted
           /\ SameTables(n, m) /\ SameAnswers(n, m) /\ SameCharges(n, m)
           /\ SameDrain(n, m) /\ SameLife(n, m)
<1> DEFINE g == [m.fence EXCEPT ![k] = to]
<1>1. g \in [Keys -> Fences] BY DEF MemoryType
<1>2. Fenced(m, k, to) = [m EXCEPT !.fence = g] BY DEF Fenced, MemoryType
<1> HIDE DEF g
<1>3. LET n == [m EXCEPT !.fence = g] IN
      /\ n \in MemoryType /\ n.fence = g /\ n.job = m.job /\ n.pc = m.pc
      /\ n.resetPending = m.resetPending /\ n.deleted = m.deleted
      /\ SameTables(n, m) /\ SameAnswers(n, m) /\ SameCharges(n, m)
      /\ SameDrain(n, m) /\ SameLife(n, m)
  BY SMTT(30), <1>1
     DEF MemoryType, SameTables, SameAnswers, SameCharges, SameKeys, SameDrain, SameLife
<1> QED BY <1>2, <1>3 DEF g, Lifted

\* A step of an administrator's task: the requests, the tables and the drain wait.
KeyStep(n, m) ==
    /\ n \in MemoryType /\ n.pc = m.pc /\ n.deleted = m.deleted
    /\ SameTables(n, m) /\ SameAnswers(n, m) /\ SameCharges(n, m)
    /\ SameDrain(n, m) /\ SameLife(n, m)

\* An update begins on an active key without a fence.
LEMMA UpdateKeyEffect ==
    ASSUME WorkInv, NEW k \in Keys, NEW reset \in BOOLEAN, UpdateKey(k, reset)
    PROVE  /\ db' = db /\ KeyStep(mem', mem)
           /\ "update" \in Operations /\ mem.job["update"].pc = "idle" /\ Mutable
           /\ k \notin mem.deleted /\ mem.fence[k] = "none"
           /\ reset => ActiveByKey(mem, k) = {}
           /\ mem'.fence = Lifted(mem.fence, k, "in_flight")
           /\ mem'.resetPending = mem.resetPending
           /\ mem'.job = Begun(mem.job, "update", [pc |-> "lock", key |-> k, flag |-> reset])
<1> DEFINE r == [pc |-> "lock", key |-> k, flag |-> reset]
           g == Fenced(mem, k, "in_flight")
<1>1. mem \in MemoryType /\ r \in JobType /\ "update" \in Jobs /\ "in_flight" \in Fences
  BY DEF WorkInv, TypeOK, JobType, JobPcs, Jobs, Fences
<1>2. /\ db' = db /\ "update" \in Operations /\ mem.job["update"].pc = "idle" /\ Mutable
      /\ k \notin mem.deleted /\ mem.fence[k] = "none"
      /\ reset => ActiveByKey(mem, k) = {}
      /\ mem' = [mem EXCEPT !.fence[k] = "in_flight", !.job["update"] = r]
  BY DEF UpdateKey
<1>3. mem' = JobBegins(g, "update", r) BY <1>1, <1>2 DEF JobBegins, Fenced, MemoryType
<1>4. /\ g \in MemoryType /\ g.pc = mem.pc /\ g.job = mem.job
      /\ g.fence = Lifted(mem.fence, k, "in_flight")
      /\ g.resetPending = mem.resetPending /\ g.deleted = mem.deleted
      /\ SameTables(g, mem) /\ SameAnswers(g, mem) /\ SameCharges(g, mem)
      /\ SameDrain(g, mem) /\ SameLife(g, mem)
  BY <1>1, FencedEffect
<1> HIDE DEF g, r
<1>5. /\ mem' \in MemoryType
      /\ mem'.job = Begun(g.job, "update", r) /\ mem'.pc = g.pc
      /\ SameTables(mem', g) /\ SameAnswers(mem', g) /\ SameCharges(mem', g)
      /\ SameKeys(mem', g) /\ SameDrain(mem', g) /\ SameLife(mem', g)
  BY <1>1, <1>3, <1>4, JobBeginsEffect
<1> QED BY <1>2, <1>4, <1>5
           DEF KeyStep, r, SameTables, SameAnswers, SameCharges, SameKeys, SameDrain, SameLife

\* A reset begins by listing a key; the lock comes later.
LEMMA ListDueEffect ==
    ASSUME WorkInv, NEW k \in Keys, ListDueBudgets(k)
    PROVE  /\ db' = db /\ KeyStep(mem', mem) /\ SameKeys(mem', mem)
           /\ "reset" \in Operations /\ mem.job["reset"].pc = "idle" /\ Mutable
           /\ mem'.job = Begun(mem.job, "reset", [pc |-> "listed", key |-> k, flag |-> FALSE])
<1> DEFINE r == [pc |-> "listed", key |-> k, flag |-> FALSE]
<1>1. mem \in MemoryType /\ r \in JobType /\ "reset" \in Jobs
  BY DEF WorkInv, TypeOK, JobType, JobPcs, Jobs
<1>2. /\ db' = db /\ "reset" \in Operations /\ mem.job["reset"].pc = "idle" /\ Mutable
      /\ mem' = JobBegins(mem, "reset", r)
  BY DEF ListDueBudgets, JobBegins
<1> HIDE DEF r
<1>5. /\ mem' \in MemoryType
      /\ mem'.job = Begun(mem.job, "reset", r) /\ mem'.pc = mem.pc
      /\ SameTables(mem', mem) /\ SameAnswers(mem', mem) /\ SameCharges(mem', mem)
      /\ SameKeys(mem', mem) /\ SameDrain(mem', mem) /\ SameLife(mem', mem)
  BY <1>1, <1>2, JobBeginsEffect
<1> QED BY <1>2, <1>5 DEF KeyStep, SameKeys, r

\* A deletion begins on a key without a fence, or over a pending reset.
LEMMA DeleteKeyEffect ==
    ASSUME WorkInv, NEW k \in Keys, DeleteKey(k)
    PROVE  /\ db' = db /\ KeyStep(mem', mem)
           /\ "delete" \in Operations /\ mem.job["delete"].pc = "idle" /\ Mutable
           /\ k \notin mem.deleted /\ (mem.fence[k] = "none" \/ k \in mem.resetPending)
           /\ mem'.fence = Lifted(mem.fence, k, "closed")
           /\ mem'.resetPending = mem.resetPending
           /\ mem'.job = Begun(mem.job, "delete",
                               [pc |-> "lock", key |-> k, flag |-> k \in mem.resetPending])
<1> DEFINE r == [pc |-> "lock", key |-> k, flag |-> k \in mem.resetPending]
           g == Fenced(mem, k, "closed")
<1>1. mem \in MemoryType /\ r \in JobType /\ "delete" \in Jobs /\ "closed" \in Fences
  BY DEF WorkInv, TypeOK, JobType, JobPcs, Jobs, Fences
<1>2. /\ db' = db /\ "delete" \in Operations /\ mem.job["delete"].pc = "idle" /\ Mutable
      /\ k \notin mem.deleted /\ (mem.fence[k] = "none" \/ k \in mem.resetPending)
      /\ mem' = [mem EXCEPT !.fence[k] = "closed", !.job["delete"] = r]
  BY DEF DeleteKey
<1>3. mem' = JobBegins(g, "delete", r) BY <1>1, <1>2 DEF JobBegins, Fenced, MemoryType
<1>4. /\ g \in MemoryType /\ g.pc = mem.pc /\ g.job = mem.job
      /\ g.fence = Lifted(mem.fence, k, "closed")
      /\ g.resetPending = mem.resetPending /\ g.deleted = mem.deleted
      /\ SameTables(g, mem) /\ SameAnswers(g, mem) /\ SameCharges(g, mem)
      /\ SameDrain(g, mem) /\ SameLife(g, mem)
  BY <1>1, FencedEffect
<1> HIDE DEF g, r
<1>5. /\ mem' \in MemoryType
      /\ mem'.job = Begun(g.job, "delete", r) /\ mem'.pc = g.pc
      /\ SameTables(mem', g) /\ SameAnswers(mem', g) /\ SameCharges(mem', g)
      /\ SameKeys(mem', g) /\ SameDrain(mem', g) /\ SameLife(mem', g)
  BY <1>1, <1>3, <1>4, JobBeginsEffect
<1> QED BY <1>2, <1>4, <1>5
           DEF KeyStep, r, SameTables, SameAnswers, SameCharges, SameKeys, SameDrain, SameLife

\* The due key is left alone, fenced until its last session ends, or fenced and reset.
DueSkipped(n, m) ==
    LET k == m.job["reset"].key
    IN  /\ k \in m.deleted \/ m.fence[k] \notin {"none", "reset"}
        /\ SameKeys(n, m) /\ n.job = Ended(m.job, "reset")
DueFenced(n, m) ==
    LET k == m.job["reset"].key
    IN  /\ k \notin m.deleted /\ m.fence[k] \in {"none", "reset"}
        /\ n.fence = Lifted(m.fence, k, "reset")
        /\ n.resetPending = m.resetPending \cup {k}
        /\ \/ n.job = Ended(m.job, "reset")
           \/ n.job = Moved(m.job, "reset", "lock") /\ ActiveByKey(m, k) = {}

\* The due key is skipped, or fenced with its reset pending.
LEMMA FenceDueEffect ==
    ASSUME WorkInv, FenceDueKey
    PROVE  /\ db' = db /\ KeyStep(mem', mem)
           /\ mem.job["reset"].pc = "listed" /\ mem.job["reset"].key \in Keys
           /\ DueSkipped(mem', mem) \/ DueFenced(mem', mem)
<1> DEFINE k == mem.job["reset"].key
           p == mem.resetPending \cup {k}
           g == Fenced(mem, k, "reset")
           m == [g EXCEPT !.resetPending = p]
<1>1. /\ mem \in MemoryType /\ "reset" \in Jobs /\ "reset" \in Fences /\ "lock" \in JobPcs
      /\ k \notin mem.deleted /\ ~ (mem.fence[k] \notin {"none", "reset"}) =>
            mem.fence[k] \in {"none", "reset"}
  BY DEF WorkInv, TypeOK, Jobs, Fences, JobPcs
<1>2. /\ mem.job["reset"].pc = "listed" /\ db' = db
      /\ \/ /\ k \in mem.deleted \/ mem.fence[k] \notin {"none", "reset"}
            /\ mem' = JobDone(mem, "reset")
         \/ /\ k \notin mem.deleted /\ mem.fence[k] \in {"none", "reset"}
            /\ \/ mem' = JobDone([mem EXCEPT !.resetPending = @ \cup {k}, !.fence[k] = "reset"],
                                 "reset")
               \/ /\ ActiveByKey(mem, k) = {}
                  /\ mem' = JobTo([mem EXCEPT !.resetPending = @ \cup {k}, !.fence[k] = "reset"],
                                  "reset", "lock")
  BY DEF FenceDueKey
<1>3. k \in Keys
  <2>1. "reset" \in Mutations BY DEF Mutations
  <2> QED BY <1>2, <2>1 DEF WorkInv, DrainOK
<1>4. [mem EXCEPT !.resetPending = @ \cup {k}, !.fence[k] = "reset"] = m
  BY <1>1 DEF Fenced, MemoryType
<1>5. /\ g \in MemoryType /\ g.pc = mem.pc /\ g.job = mem.job
      /\ g.fence = Lifted(mem.fence, k, "reset")
      /\ g.resetPending = mem.resetPending /\ g.deleted = mem.deleted
      /\ SameTables(g, mem) /\ SameAnswers(g, mem) /\ SameCharges(g, mem)
      /\ SameDrain(g, mem) /\ SameLife(g, mem)
  BY <1>1, FencedEffect
<1>6. p \in SUBSET Keys BY <1>1, <1>3 DEF MemoryType
<1> HIDE DEF g, p
<1>7. /\ m \in MemoryType /\ m.pc = g.pc /\ m.job = g.job /\ m.fence = g.fence
      /\ m.resetPending = p /\ m.deleted = g.deleted
      /\ SameTables(m, g) /\ SameAnswers(m, g) /\ SameCharges(m, g)
      /\ SameDrain(m, g) /\ SameLife(m, g)
  BY SMTT(30), <1>5, <1>6
     DEF MemoryType, SameTables, SameAnswers, SameCharges, SameKeys, SameDrain, SameLife
<1> HIDE DEF m
<1>8. CASE (k \in mem.deleted \/ mem.fence[k] \notin {"none", "reset"}) /\ mem' = JobDone(mem, "reset")
  <2>1. /\ mem' \in MemoryType
        /\ mem'.job = Ended(mem.job, "reset") /\ mem'.pc = mem.pc
        /\ SameTables(mem', mem) /\ SameAnswers(mem', mem) /\ SameCharges(mem', mem)
        /\ SameKeys(mem', mem) /\ SameDrain(mem', mem) /\ SameLife(mem', mem)
    BY <1>1, <1>8, JobDoneEffect
  <2>2. DueSkipped(mem', mem) BY <1>8, <2>1 DEF DueSkipped
  <2> QED BY <1>2, <1>3, <2>1, <2>2 DEF KeyStep, SameKeys
<1>9. ASSUME k \notin mem.deleted, mem.fence[k] \in {"none", "reset"},
             \/ mem' = JobDone(m, "reset")
             \/ mem' = JobTo(m, "reset", "lock") /\ ActiveByKey(mem, k) = {}
      PROVE  KeyStep(mem', mem) /\ DueFenced(mem', mem)
  <2>1. /\ mem' \in MemoryType /\ mem'.pc = m.pc
        /\ SameTables(mem', m) /\ SameAnswers(mem', m) /\ SameCharges(mem', m)
        /\ SameKeys(mem', m) /\ SameDrain(mem', m) /\ SameLife(mem', m)
        /\ \/ mem'.job = Ended(m.job, "reset")
           \/ mem'.job = Moved(m.job, "reset", "lock") /\ ActiveByKey(mem, k) = {}
    <3>1. CASE mem' = JobDone(m, "reset") BY <1>1, <1>7, <3>1, JobDoneEffect
    <3>2. CASE mem' = JobTo(m, "reset", "lock") /\ ActiveByKey(mem, k) = {}
      BY <1>1, <1>7, <3>2, JobToEffect
    <3> QED BY <1>9, <3>1, <3>2
  <2>2. DueFenced(mem', mem) BY <1>5, <1>7, <1>9, <2>1 DEF DueFenced, SameKeys, p
  <2> QED BY <1>5, <1>7, <2>1, <2>2
             DEF KeyStep, SameTables, SameAnswers, SameCharges, SameKeys, SameDrain, SameLife
<1> QED BY <1>2, <1>3, <1>4, <1>8, <1>9

\* A mutation at work in the sink knows its key.
LEMMA MutatedKeyIsKey ==
    ASSUME WorkInv, mem.step \in {"mutate", "applied"}
    PROVE  MutatedKey \in Keys /\ mem.owner \in Sessions \cup Mutations
<1>1. mem.owner \in Sessions \cup Mutations BY DEF WorkInv, DrainOK
<1>2. CASE mem.owner \in Sessions BY <1>1, <1>2, AccountingConstants DEF MutatedKey
<1>3. CASE mem.owner \notin Sessions
  <2>1. mem.owner \in Mutations /\ mem.owner \in Jobs BY <1>1, <1>3 DEF Mutations, Jobs
  <2>2. mem.job[mem.owner].key \in Keys BY <2>1 DEF WorkInv, DrainOK
  <2> QED BY <1>1, <1>3, <2>2 DEF MutatedKey
<1> QED BY <1>2, <1>3

\* A mutator whose pass is over goes on only with the backlog drained.
LEMMA MutatorDrainedEffect ==
    ASSUME WorkInv, MutatorDrained
    PROVE  /\ mem.owner \in Mutators /\ mem.step = "drained" /\ db' = db
           /\ \/ /\ PassStep(mem', mem) /\ mem'.step = "mutate" /\ mem'.owner = mem.owner
                 /\ mem'.todo = mem.todo /\ mem'.record = mem.record /\ BacklogDrained
              \/ Raised(mem', mem, FALSE)
<1>1. mem \in MemoryType /\ "mutate" \in DrainSteps BY DEF WorkInv, TypeOK, DrainSteps
<1>2. /\ mem.owner \in Mutators /\ mem.step = "drained" /\ db' = db
      /\ \/ BacklogDrained /\ mem' = [mem EXCEPT !.step = "mutate"]
         \/ mem' = RaiseOut(mem, FALSE)
  BY DEF MutatorDrained
<1>3. mem.owner \in Sessions \cup Jobs BY <1>2 DEF Mutators, Jobs
<1>4. CASE BacklogDrained /\ mem' = [mem EXCEPT !.step = "mutate"]
  BY <1>1, <1>2, <1>4, StepToEffect
<1>5. CASE mem' = RaiseOut(mem, FALSE) BY <1>1, <1>2, <1>3, <1>5, RaiseEffect
<1> QED BY <1>2, <1>4, <1>5

\* The sink's transaction mutates the key, or fails.
LEMMA MutateSinkEffect ==
    ASSUME WorkInv, MutateSink
    PROVE  /\ mem.step = "mutate" /\ MutatedKey \in Keys /\ mem.owner \in Sessions \cup Mutations
           /\ \/ /\ PassStep(mem', mem) /\ mem'.step = "applied" /\ mem'.owner = mem.owner
                 /\ mem'.todo = mem.todo /\ db' = MutatedBy(db, MutatedKey)
                 /\ mem'.record = ReturnedRecord(db', MutatedKey)
              \/ Raised(mem', mem, FALSE) /\ (db' = db \/ db' = MutatedBy(db, MutatedKey))
<1> DEFINE k == MutatedKey
           d == MutatedBy(db, k)
           r == ReturnedRecord(d, k)
<1>1. mem \in MemoryType /\ db \in DatabaseType /\ "applied" \in DrainSteps
  BY DEF WorkInv, TypeOK, DrainSteps
<1>2. /\ mem.step = "mutate"
      /\ \/ mem' = [mem EXCEPT !.step = "applied", !.record = r] /\ db' = d
         \/ mem' = RaiseOut(mem, FALSE) /\ (db' = db \/ db' = d)
  BY DEF MutateSink, Failed
<1>3. k \in Keys /\ mem.owner \in Sessions \cup Mutations BY <1>2, MutatedKeyIsKey
<1>4. mem.owner \in Sessions \cup Jobs BY <1>3 DEF Mutations, Jobs
<1>5. d \in DatabaseType BY <1>1, <1>3, MutatedByEffect
<1>6. r \in SUBSET Nat BY <1>3, <1>5 DEF ReturnedRecord, DatabaseType
<1>7. db' = d => r = ReturnedRecord(db', k) OBVIOUS
<1> HIDE DEF r, d
<1>8. CASE mem' = [mem EXCEPT !.step = "applied", !.record = r] /\ db' = d
  <2>1. mem' \in MemoryType BY ZenonT(60), <1>1, <1>6, <1>8 DEF MemoryType
  <2>2. /\ mem'.pc = mem.pc /\ mem'.job = mem.job /\ mem'.owner = mem.owner
        /\ mem'.todo = mem.todo /\ mem'.step = "applied" /\ mem'.record = r
    BY <1>1, <1>8 DEF MemoryType
  <2>3. /\ SameTables(mem', mem) /\ SameAnswers(mem', mem) /\ SameCharges(mem', mem)
        /\ SameKeys(mem', mem) /\ SameLife(mem', mem)
    BY <1>1, <1>8 DEF MemoryType, SameTables, SameAnswers, SameCharges, SameKeys, SameLife
  <2> QED BY <1>2, <1>3, <1>7, <1>8, <2>1, <2>2, <2>3 DEF PassStep, d
<1>9. CASE mem' = RaiseOut(mem, FALSE) /\ (db' = db \/ db' = d)
  BY <1>1, <1>2, <1>3, <1>4, <1>9, RaiseEffect DEF d
<1> QED BY <1>2, <1>8, <1>9

\* What the end of a mutation leaves, by the kind of its holder.
KeyEnds(n, m) ==
    /\ n \in MemoryType /\ DrainFree(n) /\ n.from = m.from
    /\ SameTables(n, m) /\ SameAnswers(n, m) /\ SameCharges(n, m) /\ SameLife(n, m)
UpdateEnds(n, m, k) ==
    /\ KeyEnds(n, m) /\ n.pc = m.pc /\ n.job = Ended(m.job, "update")
    /\ n.resetPending = m.resetPending /\ n.deleted = m.deleted
    /\ n.fence = m.fence \/ (n.fence = Lifted(m.fence, k, "none") /\ m.fence[k] = "in_flight")
ResetEnds(n, m, k) ==
    /\ KeyEnds(n, m)
    /\ n.resetPending = m.resetPending \ {k} /\ n.deleted = m.deleted
    /\ n.fence = m.fence \/ (n.fence = Lifted(m.fence, k, "none") /\ m.fence[k] = "reset")
    /\ IF m.owner \in Sessions
       THEN n.pc = [m.pc EXCEPT ![m.owner] = "terminal"] /\ n.job = m.job
       ELSE n.pc = m.pc /\ n.job = Ended(m.job, "reset")
DeleteEnds(n, m, k) ==
    /\ KeyEnds(n, m) /\ n.pc = m.pc /\ n.job = Ended(m.job, "delete")
    /\ n.resetPending = m.resetPending \ {k} /\ n.deleted = m.deleted \cup {k}
    /\ n.fence = m.fence

\* So does applying a record that was read earlier.
LEMMA SyncKeyEffect ==
    ASSUME NEW m \in MemoryType, NEW k \in Keys, NEW r \in SUBSET Nat
    PROVE  LET n == SyncKeyRecord(m, k, r) IN
           /\ n \in MemoryType /\ n.pc = m.pc /\ n.job = m.job
           /\ SameTables(n, m) /\ SameAnswers(n, m) /\ SameCharges(n, m) /\ SameKeys(n, m)
           /\ SameDrain(n, m) /\ SameLife(n, m)
<1>1. CASE r = {}
  BY <1>1, SyncKeyRecord(m, k, r) = m
     DEF SyncKeyRecord, SameTables, SameAnswers, SameCharges, SameKeys, SameDrain, SameLife
<1>2. CASE r # {}
  <2> DEFINE v == CHOOSE x \in r : TRUE
             l == [m.ledger EXCEPT ![k] = v]
             d == m.known \cup {k}
             n == [m EXCEPT !.known = d, !.ledger = l]
  <2>1. v \in Nat BY <1>2
  <2> HIDE DEF v
  <2>2. l \in [Keys -> Nat] /\ d \in SUBSET Keys BY <2>1 DEF MemoryType
  <2>3. SyncKeyRecord(m, k, r) = n BY <1>2 DEF SyncKeyRecord, MemoryType, v
  <2> HIDE DEF l, d
  <2>4. n \in MemoryType BY <2>2 DEF MemoryType
  <2>5. /\ n.pc = m.pc /\ n.job = m.job
        /\ SameTables(n, m) /\ SameAnswers(n, m) /\ SameCharges(n, m) /\ SameKeys(n, m)
        /\ SameDrain(n, m) /\ SameLife(n, m)
    BY DEF MemoryType, SameTables, SameAnswers, SameCharges, SameKeys, SameDrain, SameLife
  <2> HIDE DEF n
  <2> QED BY <2>3, <2>4, <2>5
<1> QED BY <1>1, <1>2

\* The pending reset of key k is done with.
ResetDone(m, k) == [m EXCEPT !.resetPending = @ \ {k}]

\* A reset that is done is no longer pending.
LEMMA ResetDoneEffect ==
    ASSUME NEW m \in MemoryType, NEW k
    PROVE  LET n == ResetDone(m, k) IN
           /\ n \in MemoryType /\ n.pc = m.pc /\ n.job = m.job
           /\ n.resetPending = m.resetPending \ {k} /\ n.fence = m.fence /\ n.deleted = m.deleted
           /\ SameTables(n, m) /\ SameAnswers(n, m) /\ SameCharges(n, m)
           /\ SameDrain(n, m) /\ SameLife(n, m)
  BY SMTT(30) DEF ResetDone, MemoryType, SameTables, SameAnswers, SameCharges, SameKeys,
                  SameDrain, SameLife

\* The ends of a mutation: update, deletion, or reset by a session or the reset task.
LEMMA MutationAppliedEffect ==
    ASSUME WorkInv, MutationApplied
    PROVE  /\ mem.step = "applied" /\ db' = db /\ MutatedKey \in Keys
           /\ mem.owner \in Sessions \cup Mutations
           /\ \/ mem.owner = "update" /\ UpdateEnds(mem', mem, MutatedKey)
              \/ mem.owner \in Sessions \cup {"reset"} /\ ResetEnds(mem', mem, MutatedKey)
              \/ mem.owner = "delete" /\ mem.record # {} /\ DeleteEnds(mem', mem, MutatedKey)
              \/ mem.owner = "delete" /\ mem.record = {} /\ Raised(mem', mem, FALSE)
<1> DEFINE o == mem.owner
           k == MutatedKey
           f == FreeDrain(mem)
           sy == SyncKeyRecord(f, k, mem.record)
           rd == ResetDone(sy, k)
           un == Unfence(rd, k, "reset")
           dl == [f EXCEPT !.deleted = @ \cup {k}, !.resetPending = @ \ {k}]
<1>1. mem \in MemoryType BY DEF WorkInv, TypeOK
<1>2. mem.step = "applied" /\ db' = db BY DEF MutationApplied
<1>3. k \in Keys /\ o \in Sessions \cup Mutations BY <1>2, MutatedKeyIsKey
<1>4. /\ o \in Sessions => o \notin {"update", "reset", "delete"}
      /\ o \in Mutations => o \notin Sessions
      /\ "update" \in Jobs /\ "reset" \in Jobs /\ "delete" \in Jobs
  BY AccountingNames DEF Jobs, Mutations
<1>5. mem' = CASE o = "update" -> JobDone(Unfence(sy, k, "in_flight"), o)
               [] o = "reset" -> JobDone(un, o)
               [] o \in Sessions -> [un EXCEPT !.pc[o] = "terminal"]
               [] o = "delete" /\ mem.record = {} -> RaiseOut(mem, FALSE)
               [] o = "delete" /\ mem.record # {} ->
                    JobDone(IF ActiveByKey(f, k) = {} THEN Discard(dl, k) ELSE dl, o)
  BY DEF MutationApplied, ResetDone
<1>6. /\ f \in MemoryType /\ DrainFree(f) /\ f.pc = mem.pc /\ f.job = mem.job
      /\ SameTables(f, mem) /\ SameAnswers(f, mem) /\ SameCharges(f, mem) /\ SameKeys(f, mem)
      /\ SameLife(f, mem) /\ f.from = mem.from
  BY <1>1, FreeDrainEffect
<1>7. mem.record \in SUBSET Nat BY <1>1 DEF MemoryType
<1> HIDE DEF f, k
<1>8. /\ sy \in MemoryType /\ sy.pc = f.pc /\ sy.job = f.job
      /\ SameTables(sy, f) /\ SameAnswers(sy, f) /\ SameCharges(sy, f) /\ SameKeys(sy, f)
      /\ SameDrain(sy, f) /\ SameLife(sy, f)
  BY <1>3, <1>6, <1>7, SyncKeyEffect
<1> HIDE DEF sy
<1>9. /\ rd \in MemoryType /\ rd.pc = sy.pc /\ rd.job = sy.job
      /\ rd.resetPending = sy.resetPending \ {k} /\ rd.fence = sy.fence
      /\ rd.deleted = sy.deleted
      /\ SameTables(rd, sy) /\ SameAnswers(rd, sy) /\ SameCharges(rd, sy)
      /\ SameDrain(rd, sy) /\ SameLife(rd, sy)
  BY <1>8, ResetDoneEffect
<1> HIDE DEF rd
<1>10. /\ un \in MemoryType
       /\ un.pc = rd.pc /\ un.job = rd.job
       /\ SameTables(un, rd) /\ SameAnswers(un, rd) /\ SameCharges(un, rd)
       /\ un.resetPending = rd.resetPending /\ un.deleted = rd.deleted
       /\ un.fence = rd.fence \/ (un.fence = Lifted(rd.fence, k, "none") /\ rd.fence[k] = "reset")
       /\ SameDrain(un, rd) /\ SameLife(un, rd)
  BY <1>9, UnfenceEffect
<1> HIDE DEF un
<1>11. /\ un.resetPending = mem.resetPending \ {k} /\ un.deleted = mem.deleted
       /\ un.fence = mem.fence \/ (un.fence = Lifted(mem.fence, k, "none") /\ mem.fence[k] = "reset")
       /\ un.pc = mem.pc /\ un.job = mem.job
  BY <1>6, <1>8, <1>9, <1>10 DEF SameKeys
<1>12. KeyEnds(un, mem)
  BY <1>6, <1>8, <1>9, <1>10
     DEF KeyEnds, DrainFree, SameTables, SameAnswers, SameCharges, SameKeys, SameDrain,
         SameLife
<1>13. CASE o = "update"
  <2> DEFINE u == Unfence(sy, k, "in_flight")
  <2>1. /\ u \in MemoryType
        /\ u.pc = sy.pc /\ u.job = sy.job
        /\ SameTables(u, sy) /\ SameAnswers(u, sy) /\ SameCharges(u, sy)
        /\ u.resetPending = sy.resetPending /\ u.deleted = sy.deleted
        /\ u.fence = sy.fence
           \/ (u.fence = Lifted(sy.fence, k, "none") /\ sy.fence[k] = "in_flight")
        /\ SameDrain(u, sy) /\ SameLife(u, sy)
    BY <1>8, UnfenceEffect
  <2>2. mem' = JobDone(u, "update") BY <1>4, <1>5, <1>13
  <2> HIDE DEF u
  <2>3. /\ mem' \in MemoryType
        /\ mem'.job = Ended(u.job, "update") /\ mem'.pc = u.pc
        /\ SameTables(mem', u) /\ SameAnswers(mem', u) /\ SameCharges(mem', u)
        /\ SameKeys(mem', u) /\ SameDrain(mem', u) /\ SameLife(mem', u)
    BY <1>4, <2>1, <2>2, JobDoneEffect
  <2>4. KeyEnds(mem', mem)
    BY <1>6, <1>8, <2>1, <2>3
       DEF KeyEnds, DrainFree, SameTables, SameAnswers, SameCharges, SameKeys, SameDrain,
           SameLife
  <2>5. UpdateEnds(mem', mem, k)
    BY <1>6, <1>8, <2>1, <2>3, <2>4 DEF UpdateEnds, SameKeys
  <2> QED BY <1>2, <1>3, <1>13, <2>5 DEF k
<1>14. CASE o = "reset"
  <2>1. mem' = JobDone(un, "reset") BY <1>4, <1>5, <1>14
  <2>2. /\ mem' \in MemoryType
        /\ mem'.job = Ended(un.job, "reset") /\ mem'.pc = un.pc
        /\ SameTables(mem', un) /\ SameAnswers(mem', un) /\ SameCharges(mem', un)
        /\ SameKeys(mem', un) /\ SameDrain(mem', un) /\ SameLife(mem', un)
    BY <1>4, <1>10, <2>1, JobDoneEffect
  <2>3. KeyEnds(mem', mem) BY <1>12, <2>2
                              DEF KeyEnds, DrainFree, SameTables, SameAnswers, SameCharges,
                                  SameKeys, SameDrain, SameLife
  <2>4. ResetEnds(mem', mem, k)
    BY <1>4, <1>11, <1>14, <2>2, <2>3 DEF ResetEnds, SameKeys, Mutations
  <2> QED BY <1>2, <1>3, <1>14, <2>4 DEF k
<1>15. CASE o \in Sessions
  <2>1. mem' = Goes(un, o, "terminal") BY <1>4, <1>5, <1>15 DEF Goes
  <2>2. /\ mem' \in MemoryType /\ mem'.pc = [un.pc EXCEPT ![o] = "terminal"] /\ mem'.job = un.job
        /\ SameTables(mem', un) /\ SameAnswers(mem', un) /\ SameCharges(mem', un)
        /\ SameKeys(mem', un) /\ SameDrain(mem', un) /\ SameLife(mem', un)
    <3>1. "terminal" \in SessionPcs BY DEF SessionPcs
    <3> QED BY <1>10, <1>15, <2>1, <3>1, GoesEffect
  <2>3. KeyEnds(mem', mem) BY <1>12, <2>2
                              DEF KeyEnds, DrainFree, SameTables, SameAnswers, SameCharges,
                                  SameKeys, SameDrain, SameLife
  <2>4. ResetEnds(mem', mem, k) BY <1>11, <1>15, <2>2, <2>3 DEF ResetEnds, SameKeys
  <2> QED BY <1>2, <1>3, <1>15, <2>4 DEF k
<1>16. CASE o = "delete" /\ mem.record = {}
  <2>1. mem' = RaiseOut(mem, FALSE) BY <1>4, <1>5, <1>16 DEF Mutations
  <2>2. o \in Sessions \cup Jobs BY <1>4, <1>16
  <2> QED BY <1>1, <1>2, <1>3, <1>16, <2>1, <2>2, RaiseEffect DEF k
<1>17. CASE o = "delete" /\ mem.record # {}
  <2> DEFINE p == f.resetPending \ {k}
             g == f.deleted \cup {k}
             c == IF ActiveByKey(f, k) = {} THEN Discard(dl, k) ELSE dl
  <2>1. p \in SUBSET Keys /\ g \in SUBSET Keys BY <1>3, <1>6 DEF MemoryType
  <2>2. dl = [f EXCEPT !.deleted = g, !.resetPending = p] OBVIOUS
  <2>3. mem' = JobDone(c, "delete") BY <1>4, <1>5, <1>17 DEF Mutations
  <2> HIDE DEF p, g, dl
  <2>4. /\ dl \in MemoryType /\ dl.pc = f.pc /\ dl.job = f.job
        /\ dl.deleted = g /\ dl.resetPending = p /\ dl.fence = f.fence
        /\ SameTables(dl, f) /\ SameAnswers(dl, f) /\ SameCharges(dl, f)
        /\ SameDrain(dl, f) /\ SameLife(dl, f)
    BY ZenonT(60), <1>6, <2>1, <2>2
       DEF MemoryType, SameTables, SameAnswers, SameCharges, SameKeys, SameDrain, SameLife
  <2>5. /\ c \in MemoryType /\ c.pc = dl.pc /\ c.job = dl.job
        /\ SameTables(c, dl) /\ SameAnswers(c, dl) /\ SameCharges(c, dl) /\ SameKeys(c, dl)
        /\ SameDrain(c, dl) /\ SameLife(c, dl)
    <3>1. CASE ActiveByKey(f, k) = {}
      <4>1. c = Discard(dl, k) BY <3>1
      <4> HIDE DEF c
      <4> QED BY <2>4, <4>1, DiscardEffect
    <3>2. CASE ActiveByKey(f, k) # {}
      <4>1. c = dl BY <3>2
      <4> HIDE DEF c
      <4> QED BY <2>4, <4>1 DEF SameTables, SameAnswers, SameCharges, SameKeys, SameDrain,
                                SameLife
    <3> QED BY <3>1, <3>2
  <2> HIDE DEF c
  <2>6. /\ mem' \in MemoryType
        /\ mem'.job = Ended(c.job, "delete") /\ mem'.pc = c.pc
        /\ SameTables(mem', c) /\ SameAnswers(mem', c) /\ SameCharges(mem', c)
        /\ SameKeys(mem', c) /\ SameDrain(mem', c) /\ SameLife(mem', c)
    BY <1>4, <2>3, <2>5, JobDoneEffect
  <2>7. KeyEnds(mem', mem)
    BY <1>6, <2>4, <2>5, <2>6
       DEF KeyEnds, DrainFree, SameTables, SameAnswers, SameCharges, SameKeys, SameDrain,
           SameLife
  <2>8. DeleteEnds(mem', mem, k)
    BY <1>6, <2>4, <2>5, <2>6, <2>7 DEF DeleteEnds, SameKeys, p, g
  <2> QED BY <1>2, <1>3, <1>17, <2>8 DEF k
<1> QED BY <1>3, <1>13, <1>14, <1>15, <1>16, <1>17 DEF Mutations

---------------------------------------------------------------------------
(* A process that has just started.                                        *)

\* Memory as a fresh process has it: nothing is held, nobody is at work.
Fresh(m) ==
    /\ m \in MemoryType /\ DrainFree(m)
    /\ m.retained = {} /\ m.inflight = {} /\ m.pending = {}
    /\ m.liable = {} /\ m.reserved = {}
    /\ m.resetPending = {} /\ m.deleted = {}
    /\ \A k \in Keys : m.fence[k] = "none"
    /\ \A s \in Sessions : m.pc[s] \in {"none", "terminal"}
    /\ \A s \in Sessions : m.answer[s] = "none" /\ m.future[s] = "none"
    /\ \A j \in Jobs : m.job[j] = Idle
    /\ m.state = "new" /\ m.init = FALSE /\ m.fatal = FALSE

\* A process that starts has empty tables.
LEMMA InitMemFresh ==
    ASSUME NEW p \in [Sessions -> {"none", "terminal"}]
    PROVE  Fresh(InitMem(p))
<1> DEFINE n == InitMem(p)
           a == [s \in Sessions |-> "none"]
           l == [k \in Keys |-> 0]
           f == [k \in Keys |-> "none"]
           j == [i \in Jobs |-> Idle]
<1>1. /\ p \in [Sessions -> SessionPcs]
      /\ \A s \in Sessions : p[s] \in {"none", "terminal"}
  BY DEF SessionPcs
<1>2. /\ a \in [Sessions -> Answers] /\ a \in [Sessions -> {"none", "receipt", "error"}]
      /\ \A s \in Sessions : a[s] = "none"
  BY DEF Answers
<1>3. l \in [Keys -> Nat] OBVIOUS
<1>4. f \in [Keys -> Fences] /\ \A k \in Keys : f[k] = "none" BY DEF Fences
<1>5. j \in [Jobs -> JobType] /\ \A i \in Jobs : j[i] = Idle BY DEF JobType, JobPcs, Idle
<1>6. n = [state |-> "new", fatal |-> FALSE, init |-> FALSE, pc |-> p,
           liable |-> {}, answer |-> a, future |-> a,
           retained |-> {}, inflight |-> {}, pending |-> {},
           ledger |-> l, reserved |-> {}, known |-> {},
           fence |-> f, resetPending |-> {}, deleted |-> {},
           wake |-> FALSE, retryNeeded |-> FALSE, stopping |-> FALSE,
           job |-> j,
           owner |-> "free", step |-> "free", todo |-> {}, ev |-> NoEvent, from |-> "session",
           ok |-> TRUE, retClean |-> TRUE, penClean |-> TRUE, tolerated |-> FALSE,
           err |-> "none", record |-> {}]
  BY DEF InitMem
<1> SUFFICES Fresh(n) OBVIOUS
<1> HIDE DEF n, a, l, f, j
<1>7. n \in MemoryType BY <1>1, <1>2, <1>3, <1>4, <1>5, <1>6
                          DEF MemoryType, States, DrainSteps
<1>8. /\ n.retained = {} /\ n.inflight = {} /\ n.pending = {}
      /\ n.liable = {} /\ n.reserved = {} /\ n.resetPending = {} /\ n.deleted = {}
      /\ n.state = "new" /\ n.init = FALSE /\ n.fatal = FALSE
      /\ n.fence = f /\ n.pc = p /\ n.answer = a /\ n.future = a /\ n.job = j
      /\ n.owner = "free" /\ n.step = "free" /\ n.todo = {} /\ n.record = {}
  BY <1>6
<1> QED BY <1>1, <1>2, <1>4, <1>5, <1>7, <1>8 DEF Fresh, DrainFree

\* A crash leaves the databases and a fresh process.
LEMMA CrashEffect ==
    ASSUME WorkInv, Crash
    PROVE  /\ Fresh(mem') /\ db' = db
           /\ \A s \in Sessions : mem.pc[s] # "none" => mem'.pc[s] = "terminal"
<1> DEFINE p == [s \in Sessions |-> IF mem.pc[s] = "none" THEN "none" ELSE "terminal"]
<1>1. p \in [Sessions -> {"none", "terminal"}] OBVIOUS
<1>2. mem' = InitMem(p) /\ db' = db BY DEF Crash
<1>3. Fresh(mem') BY <1>1, <1>2, InitMemFresh
<1>4. mem'.pc = p BY <1>2 DEF InitMem
<1> QED BY <1>2, <1>3, <1>4

---------------------------------------------------------------------------
(* WorkInv is inductive.  The actions fall into four kinds: a request      *)
(* moves on, a task or an administrator moves on beside the drain lock,    *)
(* the holder goes on with its pass, and the holder gives the lock up.     *)

AcceptedKept == db' \in DatabaseType /\ db.accepted \subseteq db'.accepted

\* A request's step keeps WorkInv when its session is in order afterwards.
LEMMA RequestKeepsWork ==
    ASSUME WorkInv, RequestStep(mem', mem), AcceptedKept,
           NEW s \in Sessions, mem.pc[s] # "project",
           \A q \in Sessions \ {s} : mem'.pc[q] = mem.pc[q] /\ mem'.answer[q] = mem.answer[q],
           mem'.pc[s] = "project" => s \in db'.accepted,
           mem'.pc[s] = "answered" =>
               /\ mem'.answer[s] \in {"accepted", "transient", "permanent"}
               /\ mem'.answer[s] = "accepted" => s \in db'.accepted
    PROVE  WorkInv'
<1>1. mem' \in MemoryType /\ mem'.job = mem.job /\ SameDrain(mem', mem) BY DEF RequestStep
<1>2. TypeOK' BY <1>1 DEF TypeOK, AcceptedKept
<1>3. /\ \A q \in Sessions : mem'.pc[q] = "project" => q \in db'.accepted
      /\ \A q \in Sessions : mem'.pc[q] = "answered" =>
            /\ mem'.answer[q] \in {"accepted", "transient", "permanent"}
            /\ mem'.answer[q] = "accepted" => q \in db'.accepted
  BY DEF WorkInv, DrainOK, AcceptedKept
<1>4. /\ mem'.owner = "free" <=> mem'.step = "free"
      /\ mem'.step = "free" => mem'.todo = {}
      /\ mem'.owner \in Jobs => mem'.job[mem'.owner].pc = "working"
      /\ mem'.step \in {"mutate", "applied"} => mem'.owner \in Sessions \cup Mutations
      /\ \A j \in Mutations : mem'.job[j].pc # "idle" => mem'.job[j].key \in Keys
  BY <1>1 DEF WorkInv, DrainOK, SameDrain
<1>5. /\ Projecting' =>
            /\ mem'.ev \in db'.accepted
            /\ mem'.from = "session" => mem'.owner = mem'.ev /\ mem'.pc[mem'.ev] = "project"
      /\ mem'.step = "pending" \/ (Projecting' /\ mem'.from = "pending") =>
            mem'.todo \subseteq db'.accepted
  <2>1. db.accepted \subseteq Sessions BY DEF WorkInv, TypeOK, DatabaseType
  <2> QED BY <1>1, <2>1 DEF WorkInv, DrainOK, SameDrain, Projecting, AcceptedKept
<1>6. DrainOK' BY <1>3, <1>4, <1>5 DEF DrainOK
<1> QED BY <1>2, <1>6 DEF WorkInv

\* So does a step beside the drain lock.
LEMMA AsideKeepsWork ==
    ASSUME WorkInv, mem' \in MemoryType, SameDrain(mem', mem), db' = db,
           mem'.pc = mem.pc, SameAnswers(mem', mem),
           \A j \in Jobs : mem.job[j].pc = "working" => mem'.job[j].pc = "working",
           \A j \in Mutations : mem'.job[j].pc # "idle" => mem'.job[j].key \in Keys
    PROVE  WorkInv'
<1>1. TypeOK' BY DEF WorkInv, TypeOK
<1>2. /\ \A q \in Sessions : mem'.pc[q] = "project" => q \in db'.accepted
      /\ \A q \in Sessions : mem'.pc[q] = "answered" =>
            /\ mem'.answer[q] \in {"accepted", "transient", "permanent"}
            /\ mem'.answer[q] = "accepted" => q \in db'.accepted
  BY DEF WorkInv, DrainOK, SameAnswers
<1>3. /\ mem'.owner = "free" <=> mem'.step = "free"
      /\ mem'.step = "free" => mem'.todo = {}
      /\ mem'.owner \in Jobs => mem'.job[mem'.owner].pc = "working"
      /\ mem'.step \in {"mutate", "applied"} => mem'.owner \in Sessions \cup Mutations
  BY DEF WorkInv, DrainOK, SameDrain
<1>4. /\ Projecting' =>
            /\ mem'.ev \in db'.accepted
            /\ mem'.from = "session" => mem'.owner = mem'.ev /\ mem'.pc[mem'.ev] = "project"
      /\ mem'.step = "pending" \/ (Projecting' /\ mem'.from = "pending") =>
            mem'.todo \subseteq db'.accepted
  BY DEF WorkInv, DrainOK, SameDrain, Projecting
<1> QED BY <1>1, <1>2, <1>3, <1>4 DEF WorkInv, DrainOK

\* So does a step under the lock whose event is accepted and whose holder stays.
LEMMA PassKeepsWork ==
    ASSUME WorkInv, mem' \in MemoryType, AcceptedKept,
           mem'.pc = mem.pc, mem'.job = mem.job, mem'.answer = mem.answer,
           mem'.owner = mem.owner, mem.owner # "free", mem'.step # "free",
           Projecting' =>
               /\ mem'.ev \in db'.accepted
               /\ mem'.from = "session" => mem'.owner = mem'.ev /\ mem'.pc[mem'.ev] = "project",
           mem'.step = "pending" \/ (Projecting' /\ mem'.from = "pending") =>
               mem'.todo \subseteq db'.accepted,
           mem'.step \in {"mutate", "applied"} => mem'.owner \in Sessions \cup Mutations
    PROVE  WorkInv'
<1>1. TypeOK' BY DEF TypeOK, AcceptedKept
<1>2. /\ \A q \in Sessions : mem'.pc[q] = "project" => q \in db'.accepted
      /\ \A q \in Sessions : mem'.pc[q] = "answered" =>
            /\ mem'.answer[q] \in {"accepted", "transient", "permanent"}
            /\ mem'.answer[q] = "accepted" => q \in db'.accepted
  BY DEF WorkInv, DrainOK, AcceptedKept
<1>3. /\ mem'.owner = "free" <=> mem'.step = "free"
      /\ mem'.step = "free" => mem'.todo = {}
      /\ mem'.owner \in Jobs => mem'.job[mem'.owner].pc = "working"
      /\ \A j \in Mutations : mem'.job[j].pc # "idle" => mem'.job[j].key \in Keys
  BY DEF WorkInv, DrainOK
<1> QED BY <1>1, <1>2, <1>3 DEF WorkInv, DrainOK

\* So does a step that frees the lock.
LEMMA FreeKeepsWork ==
    ASSUME WorkInv, mem' \in MemoryType, DrainFree(mem'), AcceptedKept,
           \A s \in Sessions : mem'.pc[s] = "project" => mem.pc[s] = "project",
           \A s \in Sessions : mem'.pc[s] = "answered" =>
               mem.pc[s] = "answered" /\ mem'.answer[s] = mem.answer[s],
           \A j \in Mutations : mem'.job[j].pc # "idle" =>
               mem.job[j].pc # "idle" /\ mem'.job[j].key = mem.job[j].key
    PROVE  WorkInv'
<1>1. TypeOK' BY DEF TypeOK, AcceptedKept
<1>2. /\ \A q \in Sessions : mem'.pc[q] = "project" => q \in db'.accepted
      /\ \A q \in Sessions : mem'.pc[q] = "answered" =>
            /\ mem'.answer[q] \in {"accepted", "transient", "permanent"}
            /\ mem'.answer[q] = "accepted" => q \in db'.accepted
  BY DEF WorkInv, DrainOK, AcceptedKept
<1>3. \A j \in Mutations : mem'.job[j].pc # "idle" => mem'.job[j].key \in Keys
  BY DEF WorkInv, DrainOK
<1>4. /\ mem'.owner = "free" /\ mem'.step = "free" /\ mem'.todo = {} /\ ~ Projecting'
      /\ "free" \notin Jobs
  BY DEF DrainFree, Projecting, Jobs
<1> QED BY <1>1, <1>2, <1>3, <1>4 DEF WorkInv, DrainOK

\* The tasks after one of them ended.
LEMMA EndedAt ==
    ASSUME NEW jobs \in [Jobs -> JobType], NEW j \in Jobs
    PROVE  \A i \in Jobs : Ended(jobs, j)[i] = IF i = j THEN Idle ELSE jobs[i]
  BY DEF Ended

\* The tasks after one of them moved on.
LEMMA MovedAt ==
    ASSUME NEW jobs \in [Jobs -> JobType], NEW j \in Jobs, NEW pc
    PROVE  /\ \A i \in Jobs : i # j => Moved(jobs, j, pc)[i] = jobs[i]
           /\ Moved(jobs, j, pc)[j].pc = pc /\ Moved(jobs, j, pc)[j].key = jobs[j].key
           /\ Moved(jobs, j, pc)[j].flag = jobs[j].flag
  BY DEF Moved, JobType

\* The tasks after one of them began.
LEMMA BegunAt ==
    ASSUME NEW jobs \in [Jobs -> JobType], NEW j \in Jobs, NEW r
    PROVE  Begun(jobs, j, r)[j] = r /\ \A i \in Jobs : i # j => Begun(jobs, j, r)[i] = jobs[i]
  BY DEF Begun

\* The fences after one of them changed.
LEMMA LiftedAt ==
    ASSUME NEW f \in [Keys -> Fences], NEW k \in Keys, NEW to
    PROVE  Lifted(f, k, to)[k] = to /\ \A q \in Keys : q # k => Lifted(f, k, to)[q] = f[q]
  BY DEF Lifted

\* Where a session that leaves may be found.
LEMMA LeavesAt ==
    ASSUME NEW m \in MemoryType, NEW n, NEW s \in Sessions, Leaves(n, m, s)
    PROVE  /\ \A q \in Sessions \ {s} : n.pc[q] = m.pc[q]
           /\ n.pc[s] \in {"terminal", "resetting"}
           /\ n.pc[s] = "resetting" => KeyOf[s] \in m.resetPending /\ KeyOf[s] \notin m.deleted
                                       /\ ActiveByKey(n, KeyOf[s]) = {}
  BY DEF Leaves, MemoryType

\* The requests and the tasks after an exception came out of the pass.
LEMMA RaisedAt ==
    ASSUME NEW m \in MemoryType, m.owner \in Sessions \cup Jobs, NEW n, NEW p, Raised(n, m, p)
    PROVE  /\ \A q \in Sessions : n.pc[q] = IF q = m.owner THEN "terminal" ELSE m.pc[q]
           /\ \A j \in Jobs : j # m.owner => n.job[j] = m.job[j]
           /\ m.owner \in Jobs \ {"projector"} => n.job[m.owner] = Idle
           /\ m.owner = "projector" => n.job["projector"].pc \in {"wait", "exited"}
<1>1. m.job \in [Jobs -> JobType] /\ m.pc \in [Sessions -> SessionPcs] BY DEF MemoryType
<1>2. RaisedRequests(n, m) /\ RaisedJobs(n, m) BY DEF Raised
<1>3. \A j \in Jobs : j \notin Sessions BY AccountingNames
<1>4. "projector" \in Jobs BY DEF Jobs
<1>5. CASE m.owner \in Sessions
  <2>1. m.owner \notin Jobs /\ m.owner # "projector" BY <1>3, <1>4, <1>5
  <2>2. n.pc = [m.pc EXCEPT ![m.owner] = "terminal"] /\ n.job = m.job
    BY <1>2, <1>5 DEF RaisedRequests, RaisedJobs
  <2> QED BY <1>1, <1>5, <2>1, <2>2
<1>6. CASE m.owner = "projector"
  BY <1>1, <1>2, <1>3, <1>4, <1>6, MovedAt DEF RaisedRequests, RaisedJobs
<1>7. CASE m.owner \in Jobs \ {"projector"}
  <2>1. n.job = Ended(m.job, m.owner) /\ n.pc = m.pc
    BY <1>2, <1>3, <1>7 DEF RaisedRequests, RaisedJobs
  <2> QED BY <1>1, <1>3, <1>7, <2>1, EndedAt
<1> QED BY <1>5, <1>6, <1>7

\* An exception out of the lock keeps WorkInv.
LEMMA RaisedKeepsWork ==
    ASSUME WorkInv, AcceptedKept, mem.owner # "free",
           NEW m \in MemoryType, m.pc = mem.pc, m.job = mem.job, m.answer = mem.answer,
           m.owner = mem.owner, NEW p, Raised(mem', m, p)
    PROVE  WorkInv'
<1>1. m.owner \in Sessions \cup Jobs BY DEF MemoryType
<1>2. mem' \in MemoryType /\ DrainFree(mem') /\ mem'.answer = mem.answer
  BY DEF Raised, RaisedFrame
<1>3. /\ \A q \in Sessions : mem'.pc[q] = IF q = m.owner THEN "terminal" ELSE m.pc[q]
      /\ \A j \in Jobs : j # m.owner => mem'.job[j] = m.job[j]
      /\ m.owner \in Jobs \ {"projector"} => mem'.job[m.owner] = Idle
  BY <1>1, RaisedAt
<1>4. \A j \in Mutations : mem'.job[j].pc # "idle" =>
          mem.job[j].pc # "idle" /\ mem'.job[j].key = mem.job[j].key
  BY <1>1, <1>3 DEF Mutations, Jobs, Idle
<1> QED BY <1>2, <1>3, <1>4, FreeKeepsWork

\* The end of a projection, from the memory its verdict is drawn from.
LEMMA EndKeepsWork ==
    ASSUME WorkInv, AcceptedKept, mem.step \in {"mark", "fail"}, mem.ev \in Sessions,
           NEW m, NEW res, Verdict(m), ProjectionEnds(mem', m, res)
    PROVE  WorkInv'
<1>1. /\ m \in MemoryType /\ m.pc = mem.pc /\ m.job = mem.job /\ m.answer = mem.answer
      /\ m.owner = mem.owner /\ m.todo = mem.todo /\ m.ev = mem.ev /\ m.from = mem.from
  BY DEF Verdict, SameAnswers, SameDrain
<1>2. mem.owner # "free" BY DEF WorkInv, DrainOK
<1>3. CASE m.from = "session"
  <2>1. EndsSession(mem', m, res) BY <1>3 DEF ProjectionEnds
  <2>2. /\ mem' \in MemoryType /\ DrainFree(mem') /\ mem'.job = mem.job
        /\ mem'.answer = mem.answer /\ Leaves(mem', m, mem.ev)
    BY <1>1, <2>1 DEF EndsSession, SameAnswers
  <2>3. /\ \A q \in Sessions \ {mem.ev} : mem'.pc[q] = m.pc[q]
        /\ mem'.pc[mem.ev] \in {"terminal", "resetting"}
    BY <1>1, <2>2, LeavesAt
  <2> QED BY <1>1, <2>2, <2>3, FreeKeepsWork
<1>4. CASE m.from # "session" /\ res = "permanent"
  <2>1. Raised(mem', m, TRUE) BY <1>4 DEF ProjectionEnds
  <2> QED BY <1>1, <1>2, <2>1, RaisedKeepsWork
<1>5. CASE m.from # "session" /\ res # "permanent"
  <2>1. Resumes(mem', m) BY <1>5 DEF ProjectionEnds
  <2>2. /\ mem' \in MemoryType /\ mem'.pc = mem.pc /\ mem'.job = mem.job
        /\ mem'.answer = mem.answer /\ mem'.owner = mem.owner
        /\ mem'.step = mem.from /\ mem'.step \in {"retained", "pending"} /\ mem'.todo = mem.todo
    BY <1>1, <1>5, <2>1 DEF Resumes, MemoryType
  <2>3. mem'.step = "pending" => mem'.todo \subseteq db'.accepted
    BY <2>2 DEF WorkInv, DrainOK, Projecting, AcceptedKept
  <2>4. ~ Projecting' BY <2>2 DEF Projecting
  <2> QED BY <1>2, <2>2, <2>3, <2>4, PassKeepsWork
<1> QED BY <1>3, <1>4, <1>5

\* A step that leaves the databases alone loses no accepted event.
LEMMA SameDatabase == ASSUME WorkInv, db' = db PROVE AcceptedKept
  BY DEF WorkInv, TypeOK, AcceptedKept

\* Nor does the source's transaction.
LEMMA AcceptedByKept ==
    ASSUME WorkInv, NEW e \in Sessions, db' = db \/ db' = AcceptedBy(db, e)
    PROVE  AcceptedKept
  BY AcceptedByEffect DEF WorkInv, TypeOK, AcceptedKept

\* WorkInv, through the steps of requests.
LEMMA RequestsKeepWork ==
    ASSUME WorkInv, NEW s \in Sessions,
           \/ Reserve(s) \/ Release(s) \/ ReleaseSession(s)
           \/ Commit(s) \/ SourceAccept(s) \/ SourceAnswered(s) \/ RetryResolved(s)
    PROVE  WorkInv'
<1>0. /\ mem \in MemoryType /\ db \in DatabaseType
      /\ mem.pc \in [Sessions -> SessionPcs] /\ mem.answer \in [Sessions -> Answers]
  BY DEF WorkInv, TypeOK, MemoryType
<1>1. CASE Reserve(s)
  <2>1. /\ RequestStep(mem', mem) /\ db' = db /\ mem.pc[s] = "none"
        /\ SameAnswers(mem', mem)
        /\ mem'.pc = mem.pc \/ mem'.pc = [mem.pc EXCEPT ![s] = "reserved"]
    BY <1>1, ReserveEffect
  <2>2. AcceptedKept BY <2>1, SameDatabase
  <2> QED BY <1>0, <2>1, <2>2, RequestKeepsWork DEF SameAnswers
<1>2. CASE Release(s)
  <2>1. /\ RequestStep(mem', mem) /\ db' = db /\ SameAnswers(mem', mem)
        /\ mem.pc[s] = "reserved" /\ mem'.pc = [mem.pc EXCEPT ![s] = "releasing"]
    BY <1>2, ReleaseStepEffect
  <2>2. AcceptedKept BY <2>1, SameDatabase
  <2> QED BY <1>0, <2>1, <2>2, RequestKeepsWork DEF SameAnswers
<1>3. CASE ReleaseSession(s)
  <2>1. /\ RequestStep(mem', mem) /\ db' = db /\ SameAnswers(mem', mem)
        /\ mem.pc[s] = "releasing" /\ Leaves(mem', mem, s)
    BY <1>3, ReleaseSessionEffect
  <2>2. AcceptedKept BY <2>1, SameDatabase
  <2>3. \A q \in Sessions \ {s} : mem'.pc[q] = mem.pc[q] BY <1>0, <2>1, LeavesAt
  <2>4. mem'.pc[s] \in {"terminal", "resetting"} BY <1>0, <2>1, LeavesAt
  <2> QED BY <2>1, <2>2, <2>3, <2>4, RequestKeepsWork DEF SameAnswers
<1>4. CASE Commit(s)
  <2>1. /\ RequestStep(mem', mem) /\ db' = db /\ SameAnswers(mem', mem)
        /\ mem.pc[s] = "reserved" /\ mem'.pc = [mem.pc EXCEPT ![s] = "accept"]
    BY <1>4, CommitEffect
  <2>2. AcceptedKept BY <2>1, SameDatabase
  <2> QED BY <1>0, <2>1, <2>2, RequestKeepsWork DEF SameAnswers
<1>5. CASE SourceAccept(s)
  <2>1. /\ RequestStep(mem', mem) /\ mem.pc[s] = "accept"
        /\ mem'.pc = [mem.pc EXCEPT ![s] = "answered"]
        /\ db' = db \/ db' = AcceptedBy(db, s)
    BY <1>5, SourceAcceptEffect
  <2>2. PICK a \in {"accepted", "transient", "permanent"} :
           /\ mem'.answer = [mem.answer EXCEPT ![s] = a]
           /\ a = "accepted" => db' = AcceptedBy(db, s)
    BY <1>5, SourceAcceptEffect
  <2>3. AcceptedKept BY <2>1, AcceptedByKept
  <2>4. a = "accepted" => s \in db'.accepted BY <1>0, <2>2, AcceptedByEffect
  <2>5. mem'.answer[s] = a /\ \A q \in Sessions \ {s} : mem'.answer[q] = mem.answer[q]
    BY <1>0, <2>2
  <2>6. mem'.pc[s] = "answered" /\ \A q \in Sessions \ {s} : mem'.pc[q] = mem.pc[q]
    BY <1>0, <2>1
  <2> QED BY <2>1, <2>3, <2>4, <2>5, <2>6, RequestKeepsWork
<1>6. CASE SourceAnswered(s)
  <2>1. /\ RequestStep(mem', mem) /\ db' = db /\ mem.pc[s] = "answered"
        /\ mem'.answer = [mem.answer EXCEPT ![s] = "none"]
        /\ AnswerAccepted(s) \/ AnswerTransient(s) \/ AnswerPermanent(s)
    BY <1>6, SourceAnsweredEffect
  <2>2. AcceptedKept BY <2>1, SameDatabase
  <2>3. \A q \in Sessions \ {s} : mem'.answer[q] = mem.answer[q] BY <1>0, <2>1
  <2>4. CASE AnswerAccepted(s)
    <3>1. mem.answer[s] = "accepted" /\ mem'.pc = [mem.pc EXCEPT ![s] = "project"]
      BY <2>4 DEF AnswerAccepted
    <3>2. s \in db'.accepted BY <2>1, <3>1 DEF WorkInv, DrainOK
    <3>3. mem'.pc[s] = "project" /\ \A q \in Sessions \ {s} : mem'.pc[q] = mem.pc[q]
      BY <1>0, <3>1
    <3> QED BY <2>1, <2>2, <2>3, <3>2, <3>3, RequestKeepsWork
  <2>5. CASE AnswerTransient(s)
    <3>1. mem'.pc = [mem.pc EXCEPT ![s] = "retrying"] BY <2>5 DEF AnswerTransient
    <3>3. mem'.pc[s] = "retrying" /\ \A q \in Sessions \ {s} : mem'.pc[q] = mem.pc[q]
      BY <1>0, <3>1
    <3> QED BY <2>1, <2>2, <2>3, <3>3, RequestKeepsWork
  <2>6. CASE AnswerPermanent(s)
    <3>1. Leaves(mem', mem, s) BY <2>6 DEF AnswerPermanent
    <3>3. /\ mem'.pc[s] \in {"terminal", "resetting"}
          /\ \A q \in Sessions \ {s} : mem'.pc[q] = mem.pc[q]
      BY <1>0, <3>1, LeavesAt
    <3> QED BY <2>1, <2>2, <2>3, <3>3, RequestKeepsWork
  <2> QED BY <2>1, <2>4, <2>5, <2>6
<1>7. CASE RetryResolved(s)
  <2>1. /\ RequestStep(mem', mem) /\ db' = db /\ SameAnswers(mem', mem)
        /\ mem.pc[s] = "retrying" /\ Leaves(mem', mem, s)
    BY <1>7, RetryResolvedEffect
  <2>2. AcceptedKept BY <2>1, SameDatabase
  <2>3. \A q \in Sessions \ {s} : mem'.pc[q] = mem.pc[q] BY <1>0, <2>1, LeavesAt
  <2>4. mem'.pc[s] \in {"terminal", "resetting"} BY <1>0, <2>1, LeavesAt
  <2> QED BY <2>1, <2>2, <2>3, <2>4, RequestKeepsWork DEF SameAnswers
<1> QED BY <1>1, <1>2, <1>3, <1>4, <1>5, <1>6, <1>7

\* WorkInv, through the steps of a pass.
LEMMA PassesKeepWork ==
    ASSUME WorkInv,
           \/ \E o \in Sessions \cup Jobs : TakeDrain(o)
           \/ RetainedBatch \/ PassEnds \/ ListPending
           \/ \E e \in Sessions : RetryAccept(e) \/ DrainPending(e)
           \/ ApplySpendEvent \/ MarkProjected \/ MarkFailed
    PROVE  WorkInv'
<1>0. mem \in MemoryType /\ db \in DatabaseType BY DEF WorkInv, TypeOK
<1>1. ASSUME NEW o \in Sessions \cup Jobs, TakeDrain(o) PROVE WorkInv'
  <2>1. /\ mem' \in MemoryType /\ db' = db
        /\ mem.owner = "free" /\ mem'.owner = o /\ mem'.todo = mem.todo /\ mem'.pc = mem.pc
        /\ SameAnswers(mem', mem)
        /\ \/ /\ o \in Sessions /\ mem.pc[o] = "project" /\ mem'.job = mem.job
              /\ mem'.step = "sink" /\ mem'.ev = o /\ mem'.from = "session"
           \/ /\ o \in Sessions /\ mem.pc[o] = "resetting" /\ mem'.job = mem.job
              /\ mem'.step = "retained"
           \/ /\ o \in Jobs /\ mem.job[o].pc = "lock" /\ mem'.job = Moved(mem.job, o, "working")
              /\ mem'.step = FirstStep(o)
    BY <1>1, TakeDrainEffect
  <2>2. TypeOK' BY <2>1, <1>0 DEF TypeOK
  <2>3. /\ \A q \in Sessions : mem'.pc[q] = "project" => q \in db'.accepted
        /\ \A q \in Sessions : mem'.pc[q] = "answered" =>
              /\ mem'.answer[q] \in {"accepted", "transient", "permanent"}
              /\ mem'.answer[q] = "accepted" => q \in db'.accepted
    BY <2>1 DEF WorkInv, DrainOK, SameAnswers
  <2>4. mem'.owner # "free" BY <2>1, AccountingNames DEF Jobs
  <2>5. mem.todo = {} BY <2>1 DEF WorkInv, DrainOK
  <2>6. CASE o \in Sessions
    <3>1. o \notin Jobs BY <2>6, AccountingNames
    <3>2. o \in Sessions /\ mem.pc[o] = "project" => o \in db.accepted
      BY DEF WorkInv, DrainOK
    <3>3. mem'.step \in {"sink", "retained"} /\ mem'.job = mem.job
          /\ (mem'.step = "sink" => mem'.ev = o /\ mem'.from = "session" /\ mem.pc[o] = "project")
      BY <2>1, <3>1
    <3>4. /\ Projecting' =>
                /\ mem'.ev \in db'.accepted
                /\ mem'.from = "session" => mem'.owner = mem'.ev /\ mem'.pc[mem'.ev] = "project"
          /\ mem'.step = "pending" \/ (Projecting' /\ mem'.from = "pending") =>
                mem'.todo \subseteq db'.accepted
      BY <2>1, <2>5, <2>6, <3>2, <3>3 DEF Projecting
    <3>5. \A j \in Mutations : mem'.job[j].pc # "idle" => mem'.job[j].key \in Keys
      BY <3>3 DEF WorkInv, DrainOK
    <3> QED BY <2>1, <2>2, <2>3, <2>4, <2>6, <3>1, <3>3, <3>4, <3>5 DEF WorkInv, DrainOK
  <2>7. CASE o \in Jobs
    <3>1. o \notin Sessions BY <2>7, AccountingNames
    <3>2. /\ mem.job[o].pc = "lock" /\ mem'.job = Moved(mem.job, o, "working")
          /\ mem'.step \in {"list", "mutate", "retained"} /\ (mem'.step = "mutate" => o = "delete")
      BY <2>1, <3>1 DEF FirstStep
    <3>3. mem'.job[o].pc = "working"
          /\ \A j \in Jobs : mem'.job[j].key = mem.job[j].key /\ (j # o => mem'.job[j] = mem.job[j])
      BY <1>0, <2>7, <3>2, MovedAt DEF MemoryType
    <3>4. \A j \in Mutations : mem'.job[j].pc # "idle" => mem'.job[j].key \in Keys
      BY <3>2, <3>3 DEF WorkInv, DrainOK, Mutations, Jobs
    <3>5. ~ Projecting' /\ mem'.step # "pending" /\ mem'.step # "applied" /\ mem'.step # "free"
      BY <3>2 DEF Projecting
    <3>6. "delete" \in Mutations BY DEF Mutations
    <3> QED BY <2>1, <2>2, <2>3, <2>4, <3>2, <3>3, <3>4, <3>5, <3>6 DEF WorkInv, DrainOK
  <2> QED BY <2>6, <2>7
<1>2. CASE RetainedBatch
  <2>1. /\ PassStep(mem', mem) /\ db' = db /\ mem.step = "retained" /\ mem'.owner = mem.owner
        /\ mem'.step \in {"retained", "list"}
    BY <1>2, RetainedBatchEffect
  <2>2. AcceptedKept BY <2>1, SameDatabase
  <2>3. mem.owner # "free" BY <2>1 DEF WorkInv, DrainOK
  <2>4. ~ Projecting' BY <2>1 DEF Projecting
  <2> QED BY <2>1, <2>2, <2>3, <2>4, PassKeepsWork DEF PassStep, SameAnswers
<1>3. CASE PassEnds
  <2>1. /\ PassStep(mem', mem) /\ db' = db /\ mem.step = "pending" /\ mem'.owner = mem.owner
        /\ mem'.step = "drained"
    BY <1>3, PassEndsEffect
  <2>2. AcceptedKept BY <2>1, SameDatabase
  <2>3. mem.owner # "free" BY <2>1 DEF WorkInv, DrainOK
  <2>4. ~ Projecting' BY <2>1 DEF Projecting
  <2> QED BY <2>1, <2>2, <2>3, <2>4, PassKeepsWork DEF PassStep, SameAnswers
<1>4. CASE ListPending
  <2>1. /\ mem.step = "list" /\ db' = db /\ mem.owner # "free"
        /\ \/ /\ PassStep(mem', mem) /\ mem'.owner = mem.owner
              /\ mem'.step = "pending" /\ mem'.todo = db.accepted \ db.projected
           \/ \E p \in BOOLEAN : Raised(mem', mem, p)
    BY <1>4, ListPendingEffect
  <2>2. AcceptedKept BY <2>1, SameDatabase
  <2>3. CASE /\ PassStep(mem', mem) /\ mem'.owner = mem.owner
             /\ mem'.step = "pending" /\ mem'.todo = db.accepted \ db.projected
    <3>1. ~ Projecting' /\ mem'.todo \subseteq db'.accepted BY <2>1, <2>3 DEF Projecting
    <3> QED BY <2>1, <2>2, <2>3, <3>1, PassKeepsWork DEF PassStep, SameAnswers
  <2>4. CASE \E p \in BOOLEAN : Raised(mem', mem, p)
    BY <1>0, <2>1, <2>2, <2>4, RaisedKeepsWork
  <2> QED BY <2>1, <2>3, <2>4
<1>5. ASSUME NEW e \in Sessions, RetryAccept(e) PROVE WorkInv'
  <2>1. /\ mem.step = "retained" /\ e \in mem.todo /\ mem.owner # "free"
        /\ \/ RetryReceipt(mem', mem, e) /\ db' = AcceptedBy(db, e)
           \/ RetryProjects(mem', mem, e) /\ db' = AcceptedBy(db, e)
           \/ RetryFails(mem', mem, e) /\ (db' = db \/ db' = AcceptedBy(db, e))
           \/ Raised(mem', Dropped(mem, e), TRUE) /\ db' = db
    BY <1>5, RetryAcceptEffect
  <2>2. AcceptedKept BY <2>1, AcceptedByKept
  <2>3. CASE RetryReceipt(mem', mem, e)
    <3>1. /\ mem' \in MemoryType /\ mem'.pc = mem.pc /\ mem'.job = mem.job
          /\ mem'.answer = mem.answer /\ mem'.owner = mem.owner /\ mem'.step = "retained"
      BY <2>1, <2>3 DEF RetryReceipt, RetryStored
    <3>2. ~ Projecting' BY <3>1 DEF Projecting
    <3> QED BY <2>1, <2>2, <3>1, <3>2, PassKeepsWork
  <2>4. CASE RetryProjects(mem', mem, e) /\ db' = AcceptedBy(db, e)
    <3>1. /\ mem' \in MemoryType /\ mem'.pc = mem.pc /\ mem'.job = mem.job
          /\ mem'.answer = mem.answer /\ mem'.owner = mem.owner /\ mem'.step = "sink"
          /\ mem'.ev = e /\ mem'.from = "retained"
      BY <2>4 DEF RetryProjects, RetryStored
    <3>2. e \in db'.accepted BY <1>0, <2>4, AcceptedByEffect
    <3> QED BY <2>1, <2>2, <3>1, <3>2, PassKeepsWork
  <2>5. CASE RetryFails(mem', mem, e)
    <3>1. /\ mem' \in MemoryType /\ mem'.pc = mem.pc /\ mem'.job = mem.job
          /\ mem'.answer = mem.answer /\ mem'.owner = mem.owner /\ mem'.step = "retained"
      BY <2>1, <2>5 DEF RetryFails, SameAnswers
    <3>2. ~ Projecting' BY <3>1 DEF Projecting
    <3> QED BY <2>1, <2>2, <3>1, <3>2, PassKeepsWork
  <2>6. CASE Raised(mem', Dropped(mem, e), TRUE)
    <3> DEFINE m == Dropped(mem, e)
    <3>1. /\ m \in MemoryType /\ m.pc = mem.pc /\ m.job = mem.job /\ m.answer = mem.answer
          /\ m.owner = mem.owner
      BY <1>0, DroppedEffect
    <3> HIDE DEF m
    <3>2. Raised(mem', m, TRUE) BY <2>6 DEF m
    <3> QED BY <2>1, <2>2, <3>1, <3>2, RaisedKeepsWork
  <2> QED BY <2>1, <2>3, <2>4, <2>5, <2>6
<1>6. ASSUME NEW e \in Sessions, DrainPending(e) PROVE WorkInv'
  <2>1. /\ mem.step = "pending" /\ e \in mem.todo /\ db' = db /\ mem.owner # "free"
        /\ \/ /\ mem' \in MemoryType /\ mem'.pc = mem.pc /\ mem'.job = mem.job
              /\ SameAnswers(mem', mem) /\ mem'.owner = mem.owner
              /\ mem'.todo = mem.todo \ {e} /\ mem'.step = "sink" /\ mem'.ev = e
              /\ mem'.from = "pending"
           \/ Raised(mem', mem, FALSE)
    BY <1>6, DrainPendingEffect
  <2>2. AcceptedKept BY <2>1, SameDatabase
  <2>3. mem.todo \subseteq db'.accepted BY <2>1 DEF WorkInv, DrainOK
  <2>4. CASE Raised(mem', mem, FALSE) BY <1>0, <2>1, <2>2, <2>4, RaisedKeepsWork
  <2>5. CASE /\ mem' \in MemoryType /\ mem'.pc = mem.pc /\ mem'.job = mem.job
             /\ SameAnswers(mem', mem) /\ mem'.owner = mem.owner
             /\ mem'.todo = mem.todo \ {e} /\ mem'.step = "sink" /\ mem'.ev = e
             /\ mem'.from = "pending"
    <3>1. mem'.ev \in db'.accepted /\ mem'.todo \subseteq db'.accepted BY <2>1, <2>3, <2>5
    <3> QED BY <2>1, <2>2, <2>5, <3>1, PassKeepsWork DEF SameAnswers
  <2> QED BY <2>1, <2>4, <2>5
<1>7. CASE ApplySpendEvent
  <2>1. /\ PassStep(mem', mem) /\ mem.step = "sink" /\ mem.owner # "free"
        /\ mem'.owner = mem.owner /\ mem'.todo = mem.todo /\ mem'.ev = mem.ev
        /\ mem'.from = mem.from /\ mem'.step \in {"mark", "fail"}
        /\ db' = db \/ db' = AppliedBy(db, mem.ev)
    BY <1>7, ApplySpendEffect
  <2>2. /\ mem.ev \in db.accepted /\ mem.ev \in Sessions
        /\ mem.from = "session" => mem.owner = mem.ev /\ mem.pc[mem.ev] = "project"
        /\ mem.from = "pending" => mem.todo \subseteq db.accepted
    BY <1>0, <2>1 DEF WorkInv, DrainOK, Projecting, DatabaseType
  <2>3. AcceptedKept
    <3>1. CASE db' = db BY <1>0, <3>1 DEF AcceptedKept
    <3>2. CASE db' = AppliedBy(db, mem.ev)
      <4>1. db' \in DatabaseType /\ db'.accepted = db.accepted
        BY <1>0, <2>2, <3>2, AppliedByEffect
      <4> QED BY <4>1 DEF AcceptedKept
    <3> QED BY <2>1, <3>1, <3>2
  <2>4. /\ mem' \in MemoryType /\ mem'.pc = mem.pc /\ mem'.job = mem.job
        /\ mem'.answer = mem.answer
    BY <2>1 DEF PassStep, SameAnswers
  <2>5. /\ mem'.ev \in db'.accepted
        /\ mem'.from = "session" => mem'.owner = mem'.ev /\ mem'.pc[mem'.ev] = "project"
        /\ mem'.from = "pending" => mem'.todo \subseteq db'.accepted
    BY <2>1, <2>2, <2>3, <2>4 DEF AcceptedKept
  <2> QED BY <2>1, <2>3, <2>4, <2>5, PassKeepsWork
<1>8. CASE MarkProjected \/ MarkFailed
  <2>1. /\ mem.step \in {"mark", "fail"} /\ mem.ev \in Sessions
        /\ db' = db \/ db' = ProjectedBy(db, mem.ev)
    BY <1>8, VerdictEffect
  <2>2. PICK m, res : Verdict(m) /\ ProjectionEnds(mem', m, res) BY <1>8, VerdictEffect
  <2>3. AcceptedKept BY <1>0, <2>1, ProjectedByEffect DEF AcceptedKept
  <2> QED BY <2>1, <2>2, <2>3, EndKeepsWork
<1> QED BY <1>1, <1>2, <1>3, <1>4, <1>5, <1>6, <1>7, <1>8

\* A task that leaves the lock keeps WorkInv.
LEMMA LeavesDrainKeepsWork ==
    ASSUME WorkInv, AcceptedKept, NEW jobs, LeavesDrain(mem', mem, jobs),
           \A j \in Mutations : jobs[j].pc # "idle" =>
               mem.job[j].pc # "idle" /\ jobs[j].key = mem.job[j].key
    PROVE  WorkInv'
  BY FreeKeepsWork DEF LeavesDrain, TaskStep, SameAnswers

\* A task's step beside the lock keeps WorkInv.
LEMMA JobKeepsWork ==
    ASSUME WorkInv, db' = db, NEW jobs, JobStep(mem', mem, jobs),
           \A j \in Jobs : mem.job[j].pc = "working" => jobs[j].pc = "working",
           \A j \in Mutations : jobs[j] = mem.job[j]
    PROVE  WorkInv'
<1>1. /\ mem' \in MemoryType /\ mem'.pc = mem.pc /\ mem'.job = jobs
      /\ SameDrain(mem', mem) /\ SameAnswers(mem', mem)
  BY DEF JobStep, TaskStep
<1>2. \A j \in Mutations : jobs[j].pc # "idle" => jobs[j].key \in Keys
  BY DEF WorkInv, DrainOK
<1> QED BY <1>1, <1>2, AsideKeepsWork

\* WorkInv, through the steps of start, projector and stop.
LEMMA TasksKeepWork ==
    ASSUME WorkInv,
           \/ Start \/ StartDrained \/ StartAudited
           \/ ProjectorTurn \/ ProjectorDrained
           \/ Stop \/ StopBegins \/ StopSessionsDone \/ StopProjectorJoined
           \/ StopDrained \/ StopAudited
    PROVE  WorkInv'
<1>0. /\ mem \in MemoryType /\ mem.job \in [Jobs -> JobType]
      /\ "start" \in Jobs /\ "projector" \in Jobs /\ "stop" \in Jobs
      /\ \A j \in Mutations : j \in Jobs /\ j \notin {"start", "projector", "stop"}
  BY DEF WorkInv, TypeOK, MemoryType, Jobs, Mutations
<1>1. CASE Start
  <2>1. /\ TaskStep(mem', mem) /\ db' = db /\ SameDrain(mem', mem)
        /\ mem.job["start"].pc = "idle" /\ mem'.job = Moved(mem.job, "start", "lock")
        /\ mem'.fatal = mem.fatal /\ mem'.init = mem.init
    BY <1>1, StartEffect
  <2> QED BY <1>0, <2>1, MovedAt, JobKeepsWork DEF JobStep
<1>2. CASE StartDrained \/ StartAudited
  <2>1. /\ mem.owner = "start" /\ mem.step \in {"drained", "audit"} /\ db' = db
        /\ \/ /\ PassStep(mem', mem) /\ mem'.step = "audit" /\ mem'.owner = mem.owner
           \/ StartOpens(mem', mem)
           \/ StartEnds(mem', mem)
           \/ Raised(mem', mem, FALSE)
    BY <1>2, StartWorkEffect
  <2>2. AcceptedKept BY <2>1, SameDatabase
  <2>3. mem.owner # "free" BY <2>1
  <2>4. CASE PassStep(mem', mem) /\ mem'.step = "audit" /\ mem'.owner = mem.owner
    <3>1. ~ Projecting' BY <2>4 DEF Projecting
    <3> QED BY <2>2, <2>3, <2>4, <3>1, PassKeepsWork DEF PassStep, SameAnswers
  <2>5. CASE StartOpens(mem', mem)
    <3> DEFINE mv == Moved(mem.job, "projector", "wait")
    <3>1. mv \in [Jobs -> JobType] BY <1>0 DEF Moved, JobType, JobPcs
    <3>2. \A j \in Mutations : mv[j] = mem.job[j] BY <1>0, MovedAt
    <3> HIDE DEF mv
    <3>3. \A j \in Mutations : Ended(mv, "start")[j] = mem.job[j]
      BY <1>0, <3>1, <3>2, EndedAt
    <3>4. LeavesDrain(mem', mem, Ended(mv, "start")) BY <2>5 DEF StartOpens, mv
    <3> QED BY <2>2, <3>3, <3>4, LeavesDrainKeepsWork
  <2>6. CASE StartEnds(mem', mem)
    <3>3. \A j \in Mutations : Ended(mem.job, "start")[j] = mem.job[j]
      BY <1>0, EndedAt
    <3>4. LeavesDrain(mem', mem, Ended(mem.job, "start")) BY <2>6 DEF StartEnds
    <3> QED BY <2>2, <3>3, <3>4, LeavesDrainKeepsWork
  <2>7. CASE Raised(mem', mem, FALSE) BY <1>0, <2>2, <2>3, <2>7, RaisedKeepsWork
  <2> QED BY <2>1, <2>4, <2>5, <2>6, <2>7
<1>3. CASE ProjectorTurn
  <2>1. db' = db /\ mem.job["projector"].pc = "wait" BY <1>3, ProjectorTurnEffect
  <2>2. PICK pc \in {"exited", "lock"} : JobStep(mem', mem, Moved(mem.job, "projector", pc))
    BY <1>3, ProjectorTurnEffect
  <2> QED BY <1>0, <2>1, <2>2, MovedAt, JobKeepsWork
<1>4. CASE ProjectorDrained
  <2>1. /\ db' = db /\ LeavesDrain(mem', mem, Moved(mem.job, "projector", "wait"))
    BY <1>4, ProjectorDrainedEffect
  <2>2. AcceptedKept BY <2>1, SameDatabase
  <2>3. \A j \in Mutations : Moved(mem.job, "projector", "wait")[j] = mem.job[j]
    BY <1>0, MovedAt
  <2> QED BY <2>1, <2>2, <2>3, LeavesDrainKeepsWork
<1>5. CASE Stop
  <2>1. /\ db' = db /\ mem.job["stop"].pc = "idle"
        /\ JobStep(mem', mem, mem.job) \/ JobStep(mem', mem, Moved(mem.job, "stop", "start"))
    BY <1>5, StopEffect
  <2>2. CASE JobStep(mem', mem, mem.job) BY <2>1, <2>2, JobKeepsWork
  <2>3. CASE JobStep(mem', mem, Moved(mem.job, "stop", "start"))
    BY <1>0, <2>1, <2>3, MovedAt, JobKeepsWork
  <2> QED BY <2>1, <2>2, <2>3
<1>6. CASE StopBegins
  <2>1. /\ db' = db /\ mem.job["stop"].pc = "start"
        /\ JobStep(mem', mem, Moved(mem.job, "stop", "sessions"))
    BY <1>6, StopBeginsEffect
  <2> QED BY <1>0, <2>1, MovedAt, JobKeepsWork
<1>7. CASE StopSessionsDone
  <2>1. /\ db' = db /\ mem.job["stop"].pc = "sessions"
        /\ JobStep(mem', mem, Moved(mem.job, "stop", "projector"))
    BY <1>7, StopSessionsDoneEffect
  <2> QED BY <1>0, <2>1, MovedAt, JobKeepsWork
<1>8. CASE StopProjectorJoined
  <2> DEFINE en == Ended(mem.job, "projector")
  <2>1. /\ db' = db /\ mem.job["stop"].pc = "projector"
        /\ mem.job["projector"].pc \in {"idle", "exited"}
        /\ JobStep(mem', mem, Moved(en, "stop", "lock"))
    BY <1>8, StopProjectorJoinedEffect
  <2>2. en \in [Jobs -> JobType] BY <1>0 DEF Ended, Idle, JobType, JobPcs
  <2>3. \A i \in Jobs : en[i] = IF i = "projector" THEN Idle ELSE mem.job[i] BY <1>0, EndedAt
  <2> HIDE DEF en
  <2>4. /\ \A j \in Jobs : mem.job[j].pc = "working" => Moved(en, "stop", "lock")[j].pc = "working"
        /\ \A j \in Mutations : Moved(en, "stop", "lock")[j] = mem.job[j]
    BY <1>0, <2>1, <2>2, <2>3, MovedAt
  <2> QED BY <2>1, <2>4, JobKeepsWork
<1>9. CASE StopDrained \/ StopAudited
  <2>1. /\ mem.owner = "stop" /\ mem.step \in {"drained", "audit"} /\ db' = db
        /\ \/ PassStep(mem', mem) /\ mem'.step = "audit" /\ mem'.owner = mem.owner
           \/ LeavesDrain(mem', mem, Ended(mem.job, "stop"))
           \/ Raised(mem', mem, FALSE)
    BY <1>9, StopWorkEffect
  <2>2. AcceptedKept BY <2>1, SameDatabase
  <2>3. mem.owner # "free" BY <2>1
  <2>4. CASE PassStep(mem', mem) /\ mem'.step = "audit" /\ mem'.owner = mem.owner
    <3>1. ~ Projecting' BY <2>4 DEF Projecting
    <3> QED BY <2>2, <2>3, <2>4, <3>1, PassKeepsWork DEF PassStep, SameAnswers
  <2>5. CASE LeavesDrain(mem', mem, Ended(mem.job, "stop"))
    <3>1. \A j \in Mutations : Ended(mem.job, "stop")[j] = mem.job[j] BY <1>0, EndedAt
    <3> QED BY <2>2, <2>5, <3>1, LeavesDrainKeepsWork
  <2>6. CASE Raised(mem', mem, FALSE) BY <1>0, <2>2, <2>3, <2>6, RaisedKeepsWork
  <2> QED BY <2>1, <2>4, <2>5, <2>6
<1> QED BY <1>1, <1>2, <1>3, <1>4, <1>5, <1>6, <1>7, <1>8, <1>9

\* WorkInv, through the steps of key mutations.
LEMMA KeysKeepWork ==
    ASSUME WorkInv,
           \/ \E k \in Keys : \/ \E reset \in BOOLEAN : UpdateKey(k, reset)
                              \/ ListDueBudgets(k) \/ DeleteKey(k)
           \/ FenceDueKey \/ MutatorDrained \/ MutateSink \/ MutationApplied
    PROVE  WorkInv'
<1>0. /\ mem \in MemoryType /\ db \in DatabaseType /\ mem.job \in [Jobs -> JobType]
      /\ "update" \in Jobs /\ "reset" \in Jobs /\ "delete" \in Jobs
      /\ Mutations \subseteq Jobs
  BY DEF WorkInv, TypeOK, MemoryType, Jobs, Mutations
<1>1. ASSUME NEW j \in Jobs, NEW r, r.key \in Keys, mem.job[j].pc = "idle", db' = db,
             KeyStep(mem', mem), mem'.job = Begun(mem.job, j, r)
      PROVE  WorkInv'
  <2>1. /\ mem' \in MemoryType /\ mem'.pc = mem.pc /\ SameDrain(mem', mem)
        /\ SameAnswers(mem', mem)
    BY <1>1 DEF KeyStep
  <2>2. mem'.job[j] = r /\ \A i \in Jobs : i # j => mem'.job[i] = mem.job[i]
    BY <1>0, <1>1, BegunAt
  <2>3. \A i \in Mutations : mem'.job[i].pc # "idle" => mem'.job[i].key \in Keys
    BY <1>0, <1>1, <2>2 DEF WorkInv, DrainOK
  <2>4. \A i \in Jobs : mem.job[i].pc = "working" => mem'.job[i].pc = "working"
    BY <1>1, <2>2
  <2> QED BY <1>1, <2>1, <2>3, <2>4, AsideKeepsWork
<1>2. ASSUME NEW k \in Keys, NEW reset \in BOOLEAN, UpdateKey(k, reset) PROVE WorkInv'
  <2>1. /\ db' = db /\ KeyStep(mem', mem) /\ mem.job["update"].pc = "idle"
        /\ mem'.job = Begun(mem.job, "update", [pc |-> "lock", key |-> k, flag |-> reset])
    BY <1>2, UpdateKeyEffect
  <2> QED BY <1>0, <1>1, <2>1
<1>3. ASSUME NEW k \in Keys, ListDueBudgets(k) PROVE WorkInv'
  <2>1. /\ db' = db /\ KeyStep(mem', mem) /\ mem.job["reset"].pc = "idle"
        /\ mem'.job = Begun(mem.job, "reset", [pc |-> "listed", key |-> k, flag |-> FALSE])
    BY <1>3, ListDueEffect
  <2> QED BY <1>0, <1>1, <2>1
<1>4. ASSUME NEW k \in Keys, DeleteKey(k) PROVE WorkInv'
  <2>1. /\ db' = db /\ KeyStep(mem', mem) /\ mem.job["delete"].pc = "idle"
        /\ mem'.job = Begun(mem.job, "delete",
                            [pc |-> "lock", key |-> k, flag |-> k \in mem.resetPending])
    BY <1>4, DeleteKeyEffect
  <2> QED BY <1>0, <1>1, <2>1
<1>5. CASE FenceDueKey
  <2>1. /\ db' = db /\ KeyStep(mem', mem)
        /\ mem.job["reset"].pc = "listed" /\ mem.job["reset"].key \in Keys
        /\ mem'.job = Ended(mem.job, "reset") \/ mem'.job = Moved(mem.job, "reset", "lock")
    BY <1>5, FenceDueEffect DEF DueSkipped, DueFenced
  <2>2. /\ mem' \in MemoryType /\ mem'.pc = mem.pc /\ SameDrain(mem', mem)
        /\ SameAnswers(mem', mem)
    BY <2>1 DEF KeyStep
  <2>3. /\ \A i \in Jobs : i # "reset" => mem'.job[i] = mem.job[i]
        /\ mem'.job["reset"].pc # "idle" => mem'.job["reset"].key = mem.job["reset"].key
    <3>1. CASE mem'.job = Ended(mem.job, "reset") BY <1>0, <3>1, EndedAt DEF Idle
    <3>2. CASE mem'.job = Moved(mem.job, "reset", "lock") BY <1>0, <3>2, MovedAt
    <3> QED BY <2>1, <3>1, <3>2
  <2>4. \A i \in Mutations : mem'.job[i].pc # "idle" => mem'.job[i].key \in Keys
    BY <1>0, <2>1, <2>3 DEF WorkInv, DrainOK
  <2>5. \A i \in Jobs : mem.job[i].pc = "working" => mem'.job[i].pc = "working"
    BY <2>1, <2>3
  <2> QED BY <2>1, <2>2, <2>4, <2>5, AsideKeepsWork
<1>6. CASE MutatorDrained
  <2>1. /\ mem.owner \in Mutators /\ mem.step = "drained" /\ db' = db
        /\ \/ PassStep(mem', mem) /\ mem'.step = "mutate" /\ mem'.owner = mem.owner
           \/ Raised(mem', mem, FALSE)
    BY <1>6, MutatorDrainedEffect
  <2>2. AcceptedKept BY <2>1, SameDatabase
  <2>3. mem.owner # "free" BY <2>1 DEF WorkInv, DrainOK
  <2>4. CASE PassStep(mem', mem) /\ mem'.step = "mutate" /\ mem'.owner = mem.owner
    <3>1. ~ Projecting' /\ mem.owner \in Sessions \cup Mutations
      BY <2>1, <2>4 DEF Projecting, Mutators, Mutations
    <3> QED BY <2>2, <2>3, <2>4, <3>1, PassKeepsWork DEF PassStep, SameAnswers
  <2>5. CASE Raised(mem', mem, FALSE) BY <1>0, <2>2, <2>3, <2>5, RaisedKeepsWork
  <2> QED BY <2>1, <2>4, <2>5
<1>7. CASE MutateSink
  <2>1. /\ mem.step = "mutate" /\ MutatedKey \in Keys /\ mem.owner \in Sessions \cup Mutations
        /\ \/ PassStep(mem', mem) /\ mem'.step = "applied" /\ mem'.owner = mem.owner
           \/ Raised(mem', mem, FALSE)
        /\ db' = db \/ db' = MutatedBy(db, MutatedKey)
    BY <1>7, MutateSinkEffect
  <2>2. AcceptedKept
    <3>1. CASE db' = db BY <3>1, SameDatabase
    <3>2. CASE db' = MutatedBy(db, MutatedKey)
      <4>1. db' \in DatabaseType /\ db'.accepted = db.accepted
        BY <1>0, <2>1, <3>2, MutatedByEffect
      <4> QED BY <4>1 DEF AcceptedKept
    <3> QED BY <2>1, <3>1, <3>2
  <2>3. mem.owner # "free" BY <2>1 DEF WorkInv, DrainOK
  <2>4. CASE PassStep(mem', mem) /\ mem'.step = "applied" /\ mem'.owner = mem.owner
    <3>1. ~ Projecting' BY <2>4 DEF Projecting
    <3> QED BY <2>1, <2>2, <2>3, <2>4, <3>1, PassKeepsWork DEF PassStep, SameAnswers
  <2>5. CASE Raised(mem', mem, FALSE) BY <1>0, <2>2, <2>3, <2>5, RaisedKeepsWork
  <2> QED BY <2>1, <2>4, <2>5
<1>8. CASE MutationApplied
  <2>1. /\ mem.step = "applied" /\ db' = db
        /\ \/ UpdateEnds(mem', mem, MutatedKey)
           \/ mem.owner \in Sessions \cup {"reset"} /\ ResetEnds(mem', mem, MutatedKey)
           \/ DeleteEnds(mem', mem, MutatedKey)
           \/ Raised(mem', mem, FALSE)
    BY <1>8, MutationAppliedEffect
  <2>2. AcceptedKept BY <2>1, SameDatabase
  <2>3. mem.owner # "free" BY <2>1 DEF WorkInv, DrainOK
  <2>4. ASSUME NEW j \in Jobs, KeyEnds(mem', mem), mem'.pc = mem.pc,
               mem'.job = Ended(mem.job, j)
        PROVE  WorkInv'
    <3>1. \A i \in Jobs : mem'.job[i] = IF i = j THEN Idle ELSE mem.job[i]
      BY <1>0, <2>4, EndedAt
    <3>2. \A i \in Mutations : mem'.job[i].pc # "idle" => mem'.job[i] = mem.job[i]
      BY <1>0, <3>1 DEF Idle
    <3> QED BY <2>2, <2>4, <3>2, FreeKeepsWork DEF KeyEnds, SameAnswers
  <2>5. CASE UpdateEnds(mem', mem, MutatedKey) BY <1>0, <2>4, <2>5 DEF UpdateEnds
  <2>6. CASE DeleteEnds(mem', mem, MutatedKey) BY <1>0, <2>4, <2>6 DEF DeleteEnds
  <2>7. CASE mem.owner \in Sessions \cup {"reset"} /\ ResetEnds(mem', mem, MutatedKey)
    <3>1. CASE mem.owner \notin Sessions BY <1>0, <2>4, <2>7, <3>1 DEF ResetEnds
    <3>2. CASE mem.owner \in Sessions
      <4>1. /\ mem'.job = mem.job /\ KeyEnds(mem', mem)
            /\ mem'.pc = [mem.pc EXCEPT ![mem.owner] = "terminal"]
        BY <2>7, <3>2 DEF ResetEnds
      <4>2. mem.pc \in [Sessions -> SessionPcs] BY <1>0 DEF MemoryType
      <4>3. \A s \in Sessions : mem'.pc[s] \in {"project", "answered"} => mem'.pc[s] = mem.pc[s]
        BY <4>1, <4>2
      <4> QED BY <2>2, <4>1, <4>3, FreeKeepsWork DEF KeyEnds, SameAnswers
    <3> QED BY <3>1, <3>2
  <2>8. CASE Raised(mem', mem, FALSE) BY <1>0, <2>2, <2>3, <2>8, RaisedKeepsWork
  <2> QED BY <2>1, <2>5, <2>6, <2>7, <2>8
<1> QED BY <1>2, <1>3, <1>4, <1>5, <1>6, <1>7, <1>8

---------------------------------------------------------------------------
\* A new process satisfies WorkInv.
LEMMA WorkInit == Init => WorkInv
<1> SUFFICES ASSUME Init PROVE WorkInv OBVIOUS
<1> DEFINE p == [s \in Sessions |-> "none"]
<1>1. mem = InitMem(p) /\ db = InitDb BY DEF Init
<1>2. p \in [Sessions -> {"none", "terminal"}] OBVIOUS
<1>3. Fresh(mem) /\ mem.pc = p
  <2>1. InitMem(p).pc = p BY DEF InitMem
  <2> QED BY <1>1, <1>2, <2>1, InitMemFresh
<1>4. db \in DatabaseType BY <1>1, AccountingConstants DEF InitDb, DatabaseType
<1>5. TypeOK BY <1>3, <1>4 DEF TypeOK, Fresh
<1>6. DrainOK BY <1>3 DEF Fresh, DrainFree, DrainOK, Projecting, Mutations, Jobs, Idle
<1> QED BY <1>5, <1>6 DEF WorkInv

\* And so does one that starts after a crash.
LEMMA CrashKeepsWork == ASSUME WorkInv, Crash PROVE WorkInv'
<1>1. Fresh(mem') /\ db' = db BY CrashEffect
<1>2. TypeOK' BY <1>1 DEF WorkInv, TypeOK, Fresh
<1>3. DrainOK' BY <1>1 DEF Fresh, DrainFree, DrainOK, Projecting, Mutations, Jobs, Idle
<1> QED BY <1>2, <1>3 DEF WorkInv

\* WorkInv is inductive.
LEMMA WorkStep == WorkInv /\ [Next]_vars => WorkInv'
<1> SUFFICES ASSUME WorkInv, [Next]_vars PROVE WorkInv' OBVIOUS
<1>1. CASE UNCHANGED vars
  BY <1>1 DEF vars, WorkInv, TypeOK, DrainOK, Projecting
<1>2. CASE Next
  BY <1>2, RequestsKeepWork, PassesKeepWork, TasksKeepWork, KeysKeepWork, CrashKeepsWork
     DEF Next
<1> QED BY <1>1, <1>2

\* Every table of the service and of its databases keeps its type.
THEOREM AccountingTypeCorrect == Spec => []TypeOK
<1>1. WorkInv => TypeOK BY DEF WorkInv
<1> QED BY WorkInit, WorkStep, <1>1, PTL DEF Spec

---------------------------------------------------------------------------
(* The spend contract.                                                     *)

\* What a step may write to the databases: the row an event is accepted with,
\* the charge of an accepted event, its mark, or the mutation of a key.
DatabaseStep ==
    \/ db' = db
    \/ \E e \in Sessions : db' = AcceptedBy(db, e) \/ db' = ProjectedBy(db, e)
    \/ \E e \in db.accepted : db' = AppliedBy(db, e)
    \/ \E k \in Keys : mem.step = "mutate" /\ k = MutatedKey /\ db' = MutatedBy(db, k)

\* Every step of the system is one of five changes to the databases, or none.
LEMMA DatabaseSteps == ASSUME WorkInv, [Next]_vars PROVE DatabaseStep
<1>1. CASE UNCHANGED vars BY <1>1 DEF vars, DatabaseStep
<1>2. ASSUME NEW s \in Sessions,
             \/ Reserve(s) \/ Release(s) \/ ReleaseSession(s)
             \/ Commit(s) \/ SourceAnswered(s) \/ RetryResolved(s)
      PROVE  db' = db
  BY <1>2 DEF Reserve, Release, ReleaseSession, Commit, SourceAnswered, RetryResolved
<1>3. ASSUME NEW s \in Sessions, SourceAccept(s) PROVE db' = db \/ db' = AcceptedBy(db, s)
  BY <1>3, SourceAcceptEffect
<1>4. ASSUME NEW o \in Sessions \cup Jobs, TakeDrain(o) PROVE db' = db BY <1>4 DEF TakeDrain
<1>5. ASSUME NEW e \in Sessions, RetryAccept(e) PROVE db' = db \/ db' = AcceptedBy(db, e)
  BY <1>5, RetryAcceptEffect
<1>6. CASE \/ RetainedBatch \/ \E e \in Sessions : DrainPending(e)
           \/ ListPending \/ PassEnds
           \/ Start \/ StartDrained \/ StartAudited \/ ProjectorTurn \/ ProjectorDrained
           \/ Stop \/ StopBegins \/ StopSessionsDone \/ StopProjectorJoined
           \/ StopDrained \/ StopAudited
           \/ \E k \in Keys : \/ \E reset \in BOOLEAN : UpdateKey(k, reset)
                              \/ ListDueBudgets(k) \/ DeleteKey(k)
           \/ FenceDueKey \/ MutatorDrained \/ MutationApplied \/ Crash
  <2>1. db' = db
    BY <1>6 DEF RetainedBatch, DrainPending, ListPending, PassEnds, Start, StartDrained,
                StartAudited, ProjectorTurn, ProjectorDrained, Stop, StopBegins,
                StopSessionsDone, StopProjectorJoined, StopDrained, StopAudited, UpdateKey,
                ListDueBudgets, DeleteKey, FenceDueKey, MutatorDrained, MutationApplied, Crash
  <2> QED BY <2>1 DEF DatabaseStep
<1>7. CASE ApplySpendEvent
  <2>1. mem.step = "sink" /\ (db' = db \/ db' = AppliedBy(db, mem.ev))
    BY <1>7, ApplySpendEffect
  <2>2. mem.ev \in db.accepted BY <2>1 DEF WorkInv, DrainOK, Projecting
  <2> QED BY <2>1, <2>2 DEF DatabaseStep
<1>8. CASE MarkProjected \/ MarkFailed
  <2>1. mem.ev \in Sessions /\ (db' = db \/ db' = ProjectedBy(db, mem.ev))
    BY <1>8, VerdictEffect
  <2> QED BY <2>1 DEF DatabaseStep
<1>9. CASE MutateSink
  <2>1. /\ mem.step = "mutate" /\ MutatedKey \in Keys
        /\ db' = db \/ db' = MutatedBy(db, MutatedKey)
    BY <1>9, MutateSinkEffect
  <2> QED BY <2>1 DEF DatabaseStep
<1> QED BY <1>1, <1>2, <1>3, <1>4, <1>5, <1>6, <1>7, <1>8, <1>9 DEF Next, DatabaseStep

\* Each write is a step of the contract, or changes nothing the contract speaks of.
LEMMA DatabaseKeepsContract ==
    ASSUME WorkInv, DatabaseStep
    PROVE  [Contract!Next]_(Contract!contractVars)
<1>0. db \in DatabaseType /\ db.accepted \subseteq Sessions /\ db.spent \in [Keys -> Nat]
  BY DEF WorkInv, TypeOK, DatabaseType
<1>1. CASE db' = db BY <1>1 DEF Contract!contractVars
<1>2. ASSUME NEW e \in Sessions, db' = AcceptedBy(db, e) PROVE Contract!Accept(e)
  <2>1. /\ db'.accepted = db.accepted \cup {e}
        /\ db'.receipts = db.receipts /\ db'.spent = db.spent
    BY <1>0, <1>2, AcceptedByEffect
  <2> QED BY <2>1 DEF Contract!Accept
<1>3. ASSUME NEW e \in Sessions, db' = ProjectedBy(db, e) PROVE UNCHANGED Contract!contractVars
  <2>1. /\ db'.accepted = db.accepted
        /\ db'.receipts = db.receipts /\ db'.spent = db.spent
    BY <1>0, <1>3, ProjectedByEffect
  <2> QED BY <2>1 DEF Contract!contractVars
<1>4. ASSUME NEW e \in db.accepted, db' = AppliedBy(db, e)
      PROVE  Contract!Charge(e) \/ UNCHANGED Contract!contractVars
  <2>1. /\ db'.accepted = db.accepted /\ db'.receipts = db.receipts \cup {e}
        /\ db'.spent = IF e \in db.receipts THEN db.spent
                       ELSE [db.spent EXCEPT ![KeyOf[e]] = @ + Cost[e]]
    BY <1>0, <1>4, AppliedByEffect
  <2>2. CASE e \in db.receipts
    <3>1. db'.receipts = db.receipts /\ db'.spent = db.spent BY <2>1, <2>2
    <3> QED BY <2>1, <3>1 DEF Contract!contractVars
  <2>3. CASE e \notin db.receipts
    <3>1. db'.spent = [db.spent EXCEPT ![KeyOf[e]] = @ + Cost[e]] BY <2>1, <2>3
    <3> QED BY <2>1, <2>3, <3>1 DEF Contract!Charge
  <2> QED BY <2>2, <2>3
<1>5. ASSUME NEW k \in Keys, db' = MutatedBy(db, k)
      PROVE  Contract!ResetBudget(k) \/ UNCHANGED Contract!contractVars
  <2>1. /\ db'.accepted = db.accepted /\ db'.receipts = db.receipts
        /\ db'.spent = db.spent \/ db'.spent = [db.spent EXCEPT ![k] = 0]
    BY <1>0, <1>5, MutatedByEffect
  <2> QED BY <2>1 DEF Contract!ResetBudget, Contract!contractVars
<1> QED BY <1>0, <1>1, <1>2, <1>3, <1>4, <1>5 DEF DatabaseStep, Contract!Next

\* The durable tables keep the spend contract, whatever fails and however often
\* the process dies: no event is charged twice, none before it was accepted, and
\* spent_usd moves only by a charge or by a budget reset.
THEOREM EveryEventChargedOnce == Spec => ChargesOnce
<1>1. Init => Contract!Init BY DEF Init, InitDb, Contract!Init
<1>2. WorkInv /\ [Next]_vars => [Contract!Next]_(Contract!contractVars)
  BY DatabaseSteps, DatabaseKeepsContract
<1> QED BY WorkInit, WorkStep, <1>1, <1>2, PTL DEF Spec, ChargesOnce, Contract!Spec
=============================================================================
