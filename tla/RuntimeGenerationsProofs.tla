--------------------- MODULE RuntimeGenerationsProofs ---------------------
(* Proofs about RuntimeGenerations for every number of generations, slots, *)
(* lease handles, clients and every retiring cap.                          *)
EXTENDS RuntimeGenerations, FiniteSetTheorems, TLAPS

---------------------------------------------------------------------------
(* The helpers keep records in their types.                                *)

\* Closing slots keeps their type and the clients of every slot.
LEMMA BeginCloseType ==
    ASSUME slot \in [SlotIds -> SlotRecord], NEW S, NEW Refused
    PROVE  /\ BeginClose(S, Refused) \in [SlotIds -> SlotRecord]
           /\ \A s \in SlotIds : BeginClose(S, Refused)[s].clients = slot[s].clients
<1>1. ASSUME NEW s \in SlotIds
      PROVE  /\ BeginClose(S, Refused)[s] \in SlotRecord
             /\ BeginClose(S, Refused)[s].clients = slot[s].clients
  <2>1. slot[s] \in SlotRecord
    OBVIOUS
  <2>2. CASE s \notin S
    BY <2>1, <2>2 DEF BeginClose
  <2>3. CASE s \in S /\ slot[s].clients = {}
    BY <2>1, <2>3 DEF BeginClose, NoSlot, SlotRecord
  <2>4. CASE s \in S /\ slot[s].clients # {}
    BY <2>1, <2>4 DEF BeginClose, SlotRecord
  <2>. QED  BY <2>2, <2>3, <2>4
<1>. QED  BY <1>1 DEF BeginClose

\* Scheduling a cleanup changes the status of the scheduled generations alone.
LEMMA ScheduleCleanupType ==
    ASSUME NEW G \in [Gens -> GenerationRecord], NEW R, NEW Refused
    PROVE  /\ ScheduleCleanup(G, R, Refused) \in [Gens -> GenerationRecord]
           /\ \A g \in Gens :
                 /\ ScheduleCleanup(G, R, Refused)[g].clients = G[g].clients
                 /\ ScheduleCleanup(G, R, Refused)[g].leases = G[g].leases
                 /\ g \notin R => ScheduleCleanup(G, R, Refused)[g] = G[g]
                 /\ g \in R => ScheduleCleanup(G, R, Refused)[g].status
                                  \in {"closing", "closed", "close_failed"}
<1>1. ASSUME NEW g \in Gens
      PROVE  /\ ScheduleCleanup(G, R, Refused)[g] \in GenerationRecord
             /\ ScheduleCleanup(G, R, Refused)[g].clients = G[g].clients
             /\ ScheduleCleanup(G, R, Refused)[g].leases = G[g].leases
             /\ g \notin R => ScheduleCleanup(G, R, Refused)[g] = G[g]
             /\ g \in R => ScheduleCleanup(G, R, Refused)[g].status
                              \in {"closing", "closed", "close_failed"}
  <2>1. G[g] \in GenerationRecord
    OBVIOUS
  <2>2. CASE g \notin R
    BY <2>1, <2>2 DEF ScheduleCleanup
  <2>3. CASE g \in R \ Refused
    BY <2>1, <2>3 DEF ScheduleCleanup, GenerationRecord, RuntimeGenerationStatus
  <2>4. CASE g \in R /\ g \in Refused
    BY <2>1, <2>4 DEF ScheduleCleanup, GenerationRecord, RuntimeGenerationStatus
  <2>. QED  BY <2>2, <2>3, <2>4
<1>. QED  BY <1>1 DEF ScheduleCleanup

\* Retiring the current generation keeps the type.
LEMMA RetireCurrentType ==
    ASSUME gen \in [Gens -> GenerationRecord]
    PROVE  RetireCurrent(gen) \in [Gens -> GenerationRecord]
<1>1. ASSUME NEW g \in Gens
      PROVE  [gen[g] EXCEPT !.status = "retired"] \in GenerationRecord
  BY DEF GenerationRecord, RuntimeGenerationStatus
<1>. QED  BY <1>1 DEF RetireCurrent

\* What FinishCleanup and RetryFailedGeneration do to a generation.
LEMMA CloseSomeType ==
    ASSUME gen \in [Gens -> GenerationRecord], closed \subseteq Clients, NEW g \in Gens,
           NEW Unclosed \in SUBSET gen[g].clients, NEW st \in RuntimeGenerationStatus
    PROVE  /\ [gen EXCEPT ![g].status = st, ![g].clients = Unclosed]
                  \in [Gens -> GenerationRecord]
           /\ closed \cup (gen[g].clients \ Unclosed) \subseteq Clients
<1>1. gen[g] \in GenerationRecord /\ gen[g].clients \subseteq Clients
  BY DEF GenerationRecord
<1>2. [gen[g] EXCEPT !.status = st, !.clients = Unclosed] \in GenerationRecord
  BY <1>1 DEF GenerationRecord
<1>3. [gen EXCEPT ![g].status = st, ![g].clients = Unclosed]
         = [gen EXCEPT ![g] = [gen[g] EXCEPT !.status = st, !.clients = Unclosed]]
  OBVIOUS
<1>. QED  BY <1>1, <1>2, <1>3

---------------------------------------------------------------------------
(* The inductive invariant.                                                *)

\* Before the initial candidate is installed there is no generation, and
\* afterwards a generation above the current one does not exist.
Fresh ==
    /\ status = "new" => current = 0
    /\ status = "running" => current # 0
    /\ \A g \in Gens : g > current => gen[g] = NoGen

\* Only clients that are still open have an owner.
OwnedOpen ==
    /\ \A g \in Gens : gen[g].clients \cap closed = {}
    /\ \A s \in SlotIds : slot[s].clients \cap closed = {}

\* A recovery works on failed generations only, under _recovery_lock.
RecoveryWork ==
    \A p \in Procs :
        /\ pc[p] = "failed" => lock = p
        /\ work[p] # {} => pc[p] = "failed"
        /\ work[p] \subseteq FailedGenerations

\* A leased generation still has its snapshot.
LeasedAlive ==
    \A l \in Leases : lease[l] # 0 => gen[lease[l]].status \in {"active", "retired"}

\* The shutdown task runs exactly under the status shutdown() gave it.
ShutdownStatus == pc["shutdown"] # "idle" => status = "stopping"

IInv ==
    /\ TypeOK
    /\ ShutdownStatus
    /\ Fresh
    /\ OneActive
    /\ LeaseCount
    /\ LeasedAlive
    /\ SingleOwner
    /\ OwnedOpen
    /\ RecoveryWork

---------------------------------------------------------------------------
(* Type correctness.                                                       *)

\* The initial state has its type.
LEMMA TypeInit == Init => TypeOK
BY RuntimeConstants
   DEF Init, TypeOK, RuntimeManagerStatus, RuntimeGenerationStatus, Gens, SlotIds, Procs,
       Places, GenerationRecord, SlotRecord, NoGen, NoSlot

\* Every action keeps the type.
LEMMA TypeStep == TypeOK /\ [Next]_vars => TypeOK'
<1>. SUFFICES ASSUME TypeOK, [Next]_vars PROVE TypeOK'
  OBVIOUS
<1>. USE RuntimeConstants DEF TypeOK, procVars
<1>1. CASE OpenUnpublishedSlot
  <2>. DEFINE r == [open |-> TRUE, gen |-> current + 1, clients |-> {}, accepting |-> TRUE,
                    close_failed |-> FALSE, closing |-> FALSE]
  <2>1. r \in SlotRecord
    BY DEF SlotRecord
  <2>2. slot' = [slot EXCEPT ![nextSlot] = r] /\ nextSlot' = nextSlot + 1
        /\ nextSlot <= MaxSlots
    BY <1>1 DEF OpenUnpublishedSlot
  <2>. HIDE DEF r
  <2>3. slot' \in [SlotIds -> SlotRecord] /\ nextSlot' \in 1 .. MaxSlots + 1
    BY <2>1, <2>2 DEF SlotIds
  <2>. QED  BY <1>1, <2>3 DEF OpenUnpublishedSlot
<1>2. ASSUME NEW s \in SlotIds, NEW c \in Clients, RegisterHttpClient(s, c)
      PROVE  TypeOK'
  BY <1>2 DEF RegisterHttpClient, SlotRecord
<1>3. ASSUME NEW s \in SlotIds, CloseUnpublishedSlot(s)
      PROVE  TypeOK'
  BY <1>3, BeginCloseType DEF CloseUnpublishedSlot
<1>4. ASSUME NEW s \in SlotIds, FinishSlotClose(s)
      PROVE  TypeOK'
  <2>1. PICK Unclosed \in SUBSET slot[s].clients :
           /\ closed' = closed \cup (slot[s].clients \ Unclosed)
           /\ slot' = [slot EXCEPT ![s] =
                          IF Unclosed = {} THEN NoSlot
                          ELSE [@ EXCEPT !.clients = Unclosed, !.closing = FALSE,
                                         !.close_failed = TRUE]]
    BY <1>4 DEF FinishSlotClose
  <2>2. slot[s] \in SlotRecord /\ NoSlot \in SlotRecord
    BY DEF SlotRecord, NoSlot
  <2>3. slot[s].clients \subseteq Clients
    BY <2>2 DEF SlotRecord
  <2>4. [slot[s] EXCEPT !.clients = Unclosed, !.closing = FALSE, !.close_failed = TRUE]
          \in SlotRecord
    BY <2>2, <2>3 DEF SlotRecord
  <2>5. slot' \in [SlotIds -> SlotRecord]
    BY <2>1, <2>2, <2>4
  <2>6. closed' \subseteq Clients
    BY <2>1, <2>3
  <2>7. awaiting' \in [Procs -> SUBSET SlotIds]
    BY <1>4 DEF FinishSlotClose
  <2>. QED  BY <1>4, <2>5, <2>6, <2>7 DEF FinishSlotClose
<1>5. ASSUME NEW s \in SlotIds, InstallInitialCandidate(s)
      PROVE  TypeOK'
  BY <1>5 DEF InstallInitialCandidate, SlotRecord, NoSlot, GenerationRecord, Gens,
              RuntimeGenerationStatus, RuntimeManagerStatus
<1>6. ASSUME NEW s \in SlotIds, PublishCandidate(s)
      PROVE  TypeOK'
  <2>. DEFINE G == [RetireCurrent(gen) EXCEPT ![current + 1] =
                      [status |-> "active", leases |-> 0, clients |-> slot[s].clients]]
  <2>1. slot[s].clients \in SUBSET Clients
    BY DEF SlotRecord
  <2>2. RetireCurrent(gen) \in [Gens -> GenerationRecord]
    BY RetireCurrentType
  <2>3. G \in [Gens -> GenerationRecord]
    BY <2>1, <2>2 DEF GenerationRecord, RuntimeGenerationStatus
  <2>4. PICK R, Refused : gen' = ScheduleCleanup(G, R, Refused)
    BY <1>6 DEF PublishCandidate
  <2>. HIDE DEF G
  <2>5. gen' \in [Gens -> GenerationRecord]
    BY <2>3, <2>4, ScheduleCleanupType
  <2>6. slot' \in [SlotIds -> SlotRecord]
    BY <1>6 DEF PublishCandidate, SlotRecord, NoSlot
  <2>7. current' \in 0 .. MaxGen
    BY <1>6 DEF PublishCandidate
  <2>. QED  BY <1>6, <2>5, <2>6, <2>7 DEF PublishCandidate
<1>7. ASSUME NEW l \in Leases, NEW g \in 0 .. MaxGen, Acquire(l, g)
      PROVE  TypeOK'
  <2>1. gen' \in [Gens -> GenerationRecord]
    <3>1. CASE g \in Gens
      <4>1. gen[g] \in GenerationRecord /\ gen[g].leases + 1 \in Nat
        BY <3>1 DEF GenerationRecord
      <4>2. [gen[g] EXCEPT !.leases = @ + 1] \in GenerationRecord
        BY <4>1 DEF GenerationRecord
      <4>. QED  BY <1>7, <4>2 DEF Acquire
    <3>2. CASE g \notin Gens
      BY <1>7, <3>2 DEF Acquire
    <3>. QED  BY <3>1, <3>2
  <2>. QED  BY <1>7, <2>1 DEF Acquire
<1>8. ASSUME NEW l \in Leases, Release(l)
      PROVE  TypeOK'
  <2>. DEFINE G == [gen EXCEPT ![lease[l]].leases = @ - 1]
  <2>1. lease[l] \in Gens /\ gen[lease[l]] \in GenerationRecord
    BY <1>8 DEF Release, Gens
  <2>2. gen[lease[l]].leases - 1 \in Nat
    BY <1>8, <2>1 DEF Release, GenerationRecord
  <2>3. G \in [Gens -> GenerationRecord]
    BY <2>1, <2>2 DEF GenerationRecord
  <2>4. PICK R, Refused : gen' = ScheduleCleanup(G, R, Refused)
    BY <1>8 DEF Release
  <2>. HIDE DEF G
  <2>5. gen' \in [Gens -> GenerationRecord]
    BY <2>3, <2>4, ScheduleCleanupType
  <2>6. lease' \in [Leases -> 0 .. MaxGen]
    BY <1>8 DEF Release
  <2>. QED  BY <1>8, <2>5, <2>6 DEF Release
<1>9. ASSUME NEW g \in Gens, FinishCleanup(g)
      PROVE  TypeOK'
  <2>1. PICK Unclosed \in SUBSET gen[g].clients :
           /\ closed' = closed \cup (gen[g].clients \ Unclosed)
           /\ gen' = [gen EXCEPT
                         ![g].status = IF Unclosed = {} THEN "closed" ELSE "close_failed",
                         ![g].clients = Unclosed]
    BY <1>9 DEF FinishCleanup
  <2>2. (IF Unclosed = {} THEN "closed" ELSE "close_failed") \in RuntimeGenerationStatus
    BY DEF RuntimeGenerationStatus, GenerationRecord
  <2>3. gen' \in [Gens -> GenerationRecord] /\ closed' \subseteq Clients
    BY <2>1, <2>2, CloseSomeType
  <2>. QED  BY <1>9, <2>3 DEF FinishCleanup
<1>10. ASSUME NEW p \in Procs, EndRetrySlots(p)
       PROVE  TypeOK'
  BY <1>10 DEF EndRetrySlots, Places
<1>11. ASSUME NEW p \in Procs, TakeRecoveryLock(p)
       PROVE  TypeOK'
  BY <1>11 DEF TakeRecoveryLock, Places, FailedGenerations
<1>12. ASSUME NEW p \in Procs, NEW g \in Gens, RetryFailedGeneration(p, g)
       PROVE  TypeOK'
  <2>1. PICK Unclosed \in SUBSET gen[g].clients :
           /\ closed' = closed \cup (gen[g].clients \ Unclosed)
           /\ gen' = [gen EXCEPT
                         ![g].status = IF Unclosed = {} THEN "closed" ELSE @,
                         ![g].clients = Unclosed]
    BY <1>12 DEF RetryFailedGeneration
  <2>2. (IF Unclosed = {} THEN "closed" ELSE gen[g].status) \in RuntimeGenerationStatus
    BY DEF RuntimeGenerationStatus, GenerationRecord
  <2>3. gen' \in [Gens -> GenerationRecord] /\ closed' \subseteq Clients
    BY ZenonT(60), <2>1, <2>2, CloseSomeType
  <2>. QED  BY <1>12, <2>3 DEF RetryFailedGeneration
<1>13. CASE RetryFailedCleanup
  BY <1>13, BeginCloseType
     DEF RetryFailedCleanup, BeginRetrySlots, Joined, FailedSlots, Unpublished, Places, Procs
<1>14. CASE FinishRecovery
  BY <1>14 DEF FinishRecovery, Places, RuntimeManagerStatus
<1>15. CASE Shutdown
  <2>1. gen' \in [Gens -> GenerationRecord]
    BY <1>15, RetireCurrentType DEF Shutdown
  <2>2. PICK Refused \in SUBSET Unpublished :
           /\ slot' = BeginClose(Unpublished, Refused)
           /\ awaiting' = [awaiting EXCEPT !["shutdown"] = Joined(Unpublished, Refused)]
    BY <1>15 DEF Shutdown
  <2>3. slot' \in [SlotIds -> SlotRecord]
    BY <2>2, BeginCloseType
  <2>4. awaiting' \in [Procs -> SUBSET SlotIds]
    BY <2>2 DEF Joined, Unpublished
  <2>. QED  BY <1>15, <2>1, <2>3, <2>4 DEF Shutdown, Places, RuntimeManagerStatus
<1>16. CASE ShutdownSlotsClosed
  BY <1>16 DEF ShutdownSlotsClosed, Places
<1>17. CASE ShutdownLeasesGone
  <2>1. gen' \in [Gens -> GenerationRecord]
    BY <1>17, ScheduleCleanupType DEF ShutdownLeasesGone
  <2>. QED  BY <1>17, <2>1 DEF ShutdownLeasesGone, Places
<1>18. CASE ShutdownDrained
  BY <1>18, BeginCloseType
     DEF ShutdownDrained, BeginRetrySlots, Joined, FailedSlots, Unpublished, Places, Procs
<1>19. CASE FinishShutdown
  BY <1>19 DEF FinishShutdown, Places, RuntimeManagerStatus
<1>20. CASE ShutdownAborted
  BY <1>20 DEF ShutdownAborted, Places, RuntimeManagerStatus
<1>21. CASE UNCHANGED vars
  BY <1>21 DEF vars
<1>22. ASSUME NEW l \in Leases,
              \/ AcquireCurrent(l)
              \/ \E g \in Gens : RetainActive(l, g)
              \/ \E m \in Leases : RetainFromLease(l, m)
       PROVE  TypeOK'
  BY <1>7, <1>22 DEF AcquireCurrent, RetainActive, RetainFromLease, Gens
<1>. QED
  BY <1>1, <1>2, <1>3, <1>4, <1>5, <1>6, <1>8, <1>9, <1>10, <1>11, <1>12, <1>13,
     <1>14, <1>15, <1>16, <1>17, <1>18, <1>19, <1>20, <1>21, <1>22 DEF Next

\* Every variable of the manager keeps its type in every behaviour.
THEOREM TypeCorrect == Spec => []TypeOK
<1>. QED  BY TypeInit, TypeStep, PTL DEF Spec

---------------------------------------------------------------------------
(* What the steps that touch generations do, generation by generation.     *)

\* The first install makes generation 1 active with the slot's clients.
LEMMA InstallEffect ==
    ASSUME TypeOK, NEW s \in SlotIds, InstallInitialCandidate(s)
    PROVE  /\ 1 \in Gens
           /\ gen'[1].status = "active" /\ gen'[1].leases = 0
           /\ gen'[1].clients = slot[s].clients
           /\ \A h \in Gens \ {1} : gen'[h] = gen[h]
           /\ slot'[s].clients = {}
           /\ \A t \in SlotIds \ {s} : slot'[t] = slot[t]
BY RuntimeConstants DEF TypeOK, InstallInitialCandidate, Gens, NoSlot

\* A publish makes the next generation active and retires the current one.
LEMMA PublishEffect ==
    ASSUME TypeOK, NEW s \in SlotIds, PublishCandidate(s), current # 0
    PROVE  /\ current \in Gens /\ current + 1 \in Gens
           /\ gen'[current + 1].status = "active" /\ gen'[current + 1].leases = 0
           /\ gen'[current + 1].clients = slot[s].clients
           /\ gen'[current].clients = gen[current].clients
           /\ gen'[current].leases = gen[current].leases
           /\ \/ gen'[current].status = "retired"
              \/ /\ gen[current].leases = 0
                 /\ gen'[current].status \in {"closing", "closed", "close_failed"}
           /\ \A h \in Gens \ {current, current + 1} : gen'[h] = gen[h]
           /\ slot'[s].clients = {}
           /\ \A t \in SlotIds \ {s} : slot'[t] = slot[t]
<1>. DEFINE G == [RetireCurrent(gen) EXCEPT ![current + 1] =
                    [status |-> "active", leases |-> 0, clients |-> slot[s].clients]]
            R == {g \in {current} : gen[g].leases = 0}
<1>1. current \in Gens /\ current + 1 \in Gens /\ current # current + 1
  BY RuntimeConstants DEF TypeOK, PublishCandidate, Gens
<1>2. slot[s].clients \in SUBSET Clients /\ gen[current] \in GenerationRecord
  BY <1>1 DEF TypeOK, SlotRecord
<1>3. RetireCurrent(gen) \in [Gens -> GenerationRecord]
  BY RetireCurrentType DEF TypeOK
<1>4. G \in [Gens -> GenerationRecord]
  BY <1>2, <1>3 DEF GenerationRecord, RuntimeGenerationStatus
<1>5. /\ G[current + 1].status = "active" /\ G[current + 1].leases = 0
      /\ G[current + 1].clients = slot[s].clients
      /\ G[current].status = "retired" /\ G[current].leases = gen[current].leases
      /\ G[current].clients = gen[current].clients
      /\ \A h \in Gens \ {current, current + 1} : G[h] = gen[h]
  BY <1>1, <1>2 DEF RetireCurrent, TypeOK, GenerationRecord
<1>6. PICK Refused \in SUBSET R : gen' = ScheduleCleanup(G, R, Refused)
  BY DEF PublishCandidate
<1>7. current + 1 \notin R /\ (current \in R <=> gen[current].leases = 0)
      /\ \A h \in Gens \ {current, current + 1} : h \notin R
  BY <1>1
<1>. HIDE DEF G, R
<1>8. \A g \in Gens :
         /\ gen'[g].clients = G[g].clients
         /\ gen'[g].leases = G[g].leases
         /\ g \notin R => gen'[g] = G[g]
         /\ g \in R => gen'[g].status \in {"closing", "closed", "close_failed"}
  BY <1>4, <1>6, ScheduleCleanupType
<1>9. slot'[s].clients = {} /\ \A t \in SlotIds \ {s} : slot'[t] = slot[t]
  BY DEF PublishCandidate, TypeOK, NoSlot
<1>. QED  BY <1>1, <1>5, <1>7, <1>8, <1>9

\* A release counts one lease down, and closes a retired generation only with its last.
LEMMA ReleaseEffect ==
    ASSUME TypeOK, NEW l \in Leases, Release(l), NEW g, g = lease[l]
    PROVE  /\ g \in Gens
           /\ gen'[g].clients = gen[g].clients
           /\ gen[g].leases \in Nat \ {0}
           /\ gen'[g].leases = gen[g].leases - 1
           /\ \/ gen'[g].status = gen[g].status
              \/ /\ gen[g].leases = 1 /\ gen[g].status = "retired"
                 /\ gen'[g].status \in {"closing", "closed", "close_failed"}
           /\ \A h \in Gens \ {g} : gen'[h] = gen[h]
<1>. DEFINE G == [gen EXCEPT ![g].leases = @ - 1]
            R == {h \in {g} : ClosesNow(G, h)}
<1>1. g \in Gens /\ gen[g] \in GenerationRecord
  BY DEF TypeOK, Release, Gens
<1>2. gen[g].leases \in Nat \ {0} /\ gen[g].leases - 1 \in Nat
  BY <1>1 DEF Release, GenerationRecord
<1>3. G \in [Gens -> GenerationRecord]
  BY <1>1, <1>2 DEF TypeOK, GenerationRecord
<1>4. /\ G[g].leases = gen[g].leases - 1 /\ G[g].status = gen[g].status
      /\ G[g].clients = gen[g].clients
      /\ \A h \in Gens \ {g} : G[h] = gen[h]
  BY <1>1 DEF TypeOK, GenerationRecord
<1>5. PICK Refused \in SUBSET R : gen' = ScheduleCleanup(G, R, Refused)
  BY DEF Release
<1>6. g \in R => gen[g].leases = 1 /\ gen[g].status = "retired"
  BY <1>2, <1>4 DEF ClosesNow
<1>7. \A h \in Gens \ {g} : h \notin R
  OBVIOUS
<1>. HIDE DEF G, R
<1>8. \A h \in Gens :
         /\ gen'[h].clients = G[h].clients
         /\ gen'[h].leases = G[h].leases
         /\ h \notin R => gen'[h] = G[h]
         /\ h \in R => gen'[h].status \in {"closing", "closed", "close_failed"}
  BY <1>3, <1>5, ScheduleCleanupType
<1>. QED  BY <1>1, <1>2, <1>4, <1>6, <1>7, <1>8

\* An acquire counts one lease up.
LEMMA AcquireEffect ==
    ASSUME TypeOK, NEW l \in Leases, NEW g \in Gens, Acquire(l, g)
    PROVE  /\ gen'[g].clients = gen[g].clients
           /\ gen'[g].status = gen[g].status
           /\ gen[g].leases \in Nat
           /\ gen'[g].leases = gen[g].leases + 1
           /\ \A h \in Gens \ {g} : gen'[h] = gen[h]
BY DEF TypeOK, Acquire, GenerationRecord

\* FinishCleanup and RetryFailedGeneration: some clients of g close.
CloseSome(g) ==
    /\ closed' = closed \cup (gen[g].clients \ gen'[g].clients)
    /\ gen'[g].clients \subseteq gen[g].clients
    /\ gen'[g].leases = gen[g].leases
    /\ gen'[g].status \in {"closed", "close_failed"}
    /\ gen'[g].clients # {} => gen'[g].status = "close_failed"
    /\ \A h \in Gens \ {g} : gen'[h] = gen[h]

\* The end of a cleanup closes some clients of its generation.
LEMMA FinishCleanupEffect ==
    ASSUME TypeOK, NEW g \in Gens, FinishCleanup(g)
    PROVE  CloseSome(g)
<1>1. PICK Unclosed \in SUBSET gen[g].clients :
           /\ closed' = closed \cup (gen[g].clients \ Unclosed)
           /\ gen' = [gen EXCEPT
                         ![g].status = IF Unclosed = {} THEN "closed" ELSE "close_failed",
                         ![g].clients = Unclosed]
  BY DEF FinishCleanup
<1>2. /\ gen'[g].clients = Unclosed /\ gen'[g].leases = gen[g].leases
      /\ gen'[g].status = IF Unclosed = {} THEN "closed" ELSE "close_failed"
      /\ \A h \in Gens \ {g} : gen'[h] = gen[h]
  BY <1>1 DEF TypeOK, GenerationRecord
<1>. QED  BY <1>1, <1>2 DEF CloseSome

\* So does a retry of a failed one.
LEMMA RetryEffect ==
    ASSUME TypeOK, NEW p \in Procs, NEW g \in Gens, RetryFailedGeneration(p, g),
           gen[g].status = "close_failed"
    PROVE  CloseSome(g)
<1>1. PICK Unclosed \in SUBSET gen[g].clients :
           /\ closed' = closed \cup (gen[g].clients \ Unclosed)
           /\ gen' = [gen EXCEPT
                         ![g].status = IF Unclosed = {} THEN "closed" ELSE @,
                         ![g].clients = Unclosed]
  BY DEF RetryFailedGeneration
<1>2. /\ gen'[g].clients = Unclosed /\ gen'[g].leases = gen[g].leases
      /\ gen'[g].status = IF Unclosed = {} THEN "closed" ELSE gen[g].status
      /\ \A h \in Gens \ {g} : gen'[h] = gen[h]
  BY <1>1 DEF TypeOK, GenerationRecord
<1>. QED  BY <1>1, <1>2 DEF CloseSome

\* A shutdown retires the current generation and leaves the others alone.
LEMMA ShutdownEffect ==
    ASSUME TypeOK, Shutdown, status = "running" => current # 0
    PROVE  /\ \A g \in Gens :
                 /\ gen'[g].clients = gen[g].clients /\ gen'[g].leases = gen[g].leases
                 /\ ~ (status = "running" /\ g = current) => gen'[g] = gen[g]
           /\ status = "running" => gen'[current].status = "retired"
           /\ \A s \in SlotIds : slot'[s].clients = slot[s].clients
<1>1. \A s \in SlotIds : slot'[s].clients = slot[s].clients
  BY BeginCloseType DEF Shutdown, TypeOK
<1>2. \A g \in Gens : gen[g] \in GenerationRecord
  BY DEF TypeOK
<1>3. CASE status = "running"
  BY <1>1, <1>2, <1>3 DEF Shutdown, RetireCurrent, TypeOK, Gens, GenerationRecord
<1>. QED  BY <1>1, <1>2, <1>3 DEF Shutdown

\* Once the leases are gone the retired generations are scheduled for cleanup.
LEMMA LeasesGoneEffect ==
    ASSUME TypeOK, ShutdownLeasesGone
    PROVE  \A g \in Gens :
              /\ gen'[g].clients = gen[g].clients /\ gen'[g].leases = gen[g].leases
              /\ \/ gen'[g] = gen[g]
                 \/ /\ gen[g].leases = 0 /\ gen[g].status = "retired"
                    /\ gen'[g].status \in {"closing", "closed", "close_failed"}
<1>. DEFINE R == {g \in Managed : gen[g].status = "retired"}
<1>1. PICK Refused \in SUBSET R : gen' = ScheduleCleanup(gen, R, Refused)
  BY DEF ShutdownLeasesGone
<1>2. \A g \in R : gen[g].leases = 0 /\ gen[g].status = "retired"
  BY DEF ShutdownLeasesGone
<1>. HIDE DEF R
<1>3. \A g \in Gens :
         /\ gen'[g].clients = gen[g].clients
         /\ gen'[g].leases = gen[g].leases
         /\ g \notin R => gen'[g] = gen[g]
         /\ g \in R => gen'[g].status \in {"closing", "closed", "close_failed"}
  BY <1>1, ScheduleCleanupType DEF TypeOK
<1>. QED  BY <1>2, <1>3

---------------------------------------------------------------------------
(* The invariant is inductive.                                             *)

\* The initial state satisfies the inductive invariant.
LEMMA IInvInit == Init => IInv
<1>. SUFFICES ASSUME Init PROVE IInv
  OBVIOUS
<1>1. TypeOK
  BY TypeInit
<1>2. \A g \in Gens : gen[g] = NoGen /\ g > 0
  BY DEF Init, Gens
<1>3. \A s \in SlotIds : slot[s] = NoSlot
  BY DEF Init
<1>4. \A g \in Gens : Held(g) = {}
  BY <1>2 DEF Init, Held
<1>5. LeaseCount
  BY <1>2, <1>4, FS_EmptySet DEF LeaseCount, NoGen
<1>6. SingleOwner /\ OwnedOpen
  BY <1>2, <1>3 DEF Init, SingleOwner, OwnedOpen, NoGen, NoSlot, OwnedByGenerations, OwnedBySlots
<1>7. Fresh /\ OneActive
  BY <1>2 DEF Init, Fresh, OneActive, NoGen
<1>8. LeasedAlive /\ RecoveryWork /\ ShutdownStatus
  BY DEF Init, LeasedAlive, RecoveryWork, ShutdownStatus, Procs
<1>. QED  BY <1>1, <1>5, <1>6, <1>7, <1>8 DEF IInv

\* The steps that touch generations, leases or the current generation.
TouchesGenerations ==
    \/ \E s \in SlotIds : InstallInitialCandidate(s) \/ PublishCandidate(s)
    \/ \E l \in Leases : Release(l) \/ \E g \in Gens : Acquire(l, g)
    \/ \E g \in Gens : FinishCleanup(g)
    \/ \E p \in Procs, g \in Gens : RetryFailedGeneration(p, g)
    \/ Shutdown
    \/ ShutdownLeasesGone

\* A step either touches generations or leaves generations, leases and the current one
\* alone.
LEMMA StepKinds ==
    ASSUME IInv, [Next]_vars
    PROVE  \/ TouchesGenerations
           \/ /\ UNCHANGED <<gen, lease, current>>
              /\ status = "running" <=> status' = "running"
              /\ status = "new" <=> status' = "new"
<1>. USE DEF IInv, procVars
<1>1. CASE OpenUnpublishedSlot
  BY <1>1 DEF OpenUnpublishedSlot
<1>2. CASE \E s \in SlotIds, c \in Clients : RegisterHttpClient(s, c)
  BY <1>2 DEF RegisterHttpClient
<1>3. CASE \E s \in SlotIds : CloseUnpublishedSlot(s) \/ FinishSlotClose(s)
  BY <1>3 DEF CloseUnpublishedSlot, FinishSlotClose
<1>4. ASSUME NEW l \in Leases,
              \/ AcquireCurrent(l)
              \/ \E g \in Gens : RetainActive(l, g)
              \/ \E m \in Leases : RetainFromLease(l, m)
      PROVE  TouchesGenerations
  <2>1. CASE AcquireCurrent(l)
    BY <2>1 DEF AcquireCurrent, Fresh, TypeOK, TouchesGenerations, Gens
  <2>2. CASE \E g \in Gens : RetainActive(l, g)
    BY <2>2 DEF RetainActive, TouchesGenerations
  <2>3. CASE \E m \in Leases : RetainFromLease(l, m)
    BY <2>3 DEF RetainFromLease, TypeOK, TouchesGenerations, Gens
  <2>. QED  BY <1>4, <2>1, <2>2, <2>3
<1>5. CASE \E p \in Procs : EndRetrySlots(p) \/ TakeRecoveryLock(p)
  BY <1>5 DEF EndRetrySlots, TakeRecoveryLock
<1>6. CASE RetryFailedCleanup \/ FinishRecovery \/ ShutdownSlotsClosed \/ ShutdownDrained
  BY <1>6 DEF RetryFailedCleanup, FinishRecovery, ShutdownSlotsClosed, ShutdownDrained
<1>7. CASE FinishShutdown \/ ShutdownAborted
  BY <1>7 DEF FinishShutdown, ShutdownAborted, ShutdownStatus
<1>8. CASE UNCHANGED vars
  BY <1>8 DEF vars
<1>. QED
  BY <1>1, <1>2, <1>3, <1>4, <1>5, <1>6, <1>7, <1>8 DEF Next, TouchesGenerations

\* The shutdown task runs only while the manager is stopping.
LEMMA ShutdownStatusStep ==
    ASSUME IInv, [Next]_vars
    PROVE  ShutdownStatus'
BY DEF IInv, TypeOK, ShutdownStatus, Next, vars, procVars, Procs, OpenUnpublishedSlot,
       RegisterHttpClient, CloseUnpublishedSlot, FinishSlotClose, InstallInitialCandidate,
       PublishCandidate, ValidatePublish, AcquireCurrent, RetainActive, RetainFromLease,
       Acquire, Release, FinishCleanup, EndRetrySlots, TakeRecoveryLock,
       RetryFailedGeneration, RetryFailedCleanup, FinishRecovery, Shutdown,
       ShutdownSlotsClosed, ShutdownLeasesGone, ShutdownDrained, FinishShutdown,
       ShutdownAborted

\* One generation is active while the manager runs, and none is numbered
\* above the current one.
LEMMA CurrentStep ==
    ASSUME IInv, [Next]_vars
    PROVE  Fresh' /\ OneActive'
<1>. USE RuntimeConstants DEF IInv, Fresh
<1>1. TypeOK' /\ \A g \in Gens : g \in Nat /\ g > 0
  BY TypeStep DEF Gens
<1>2. /\ status = "running" => current \in Gens
      /\ \A g \in Gens : gen[g].status = "active" <=> status = "running" /\ g = current
  BY DEF OneActive, TypeOK, Gens
<1>3. \A g \in Gens : gen[g].status # "none" => g <= current
  BY <1>1 DEF NoGen, TypeOK
<1>4. CASE UNCHANGED <<gen, lease, current>> /\ (status = "running" <=> status' = "running")
           /\ (status = "new" <=> status' = "new")
  BY <1>4 DEF OneActive
<1>5. ASSUME NEW s \in SlotIds, InstallInitialCandidate(s)
      PROVE  Fresh' /\ OneActive'
  <2>1. status' = "running" /\ current' = 1 /\ current = 0 /\ status = "new"
    BY <1>5 DEF InstallInitialCandidate
  <2>. QED  BY <1>1, <1>2, <1>5, <2>1, InstallEffect DEF OneActive
<1>6. ASSUME NEW s \in SlotIds, PublishCandidate(s)
      PROVE  Fresh' /\ OneActive'
  <2>1. status' = "running" /\ current' = current + 1 /\ status = "running"
    BY <1>6 DEF PublishCandidate, ValidatePublish
  <2>2. \A g \in Gens : gen'[g].status = "active" <=> g = current + 1
    BY <1>1, <1>2, <1>6, <2>1, PublishEffect DEF TypeOK
  <2>3. \A g \in Gens : g > current + 1 => gen'[g] = NoGen
    BY <1>1, <1>6, <2>1, PublishEffect DEF TypeOK
  <2>. QED  BY <1>1, <1>2, <1>6, <2>1, <2>2, <2>3, PublishEffect DEF OneActive
<1>7. ASSUME NEW l \in Leases, Release(l)
      PROVE  Fresh' /\ OneActive'
  <2>1. gen[lease[l]].status \in {"active", "retired"} /\ UNCHANGED <<status, current>>
    BY <1>7 DEF LeasedAlive, Release
  <2>2. \A g \in Gens : gen'[g].status = "active" <=> gen[g].status = "active"
    BY <1>7, <2>1, ReleaseEffect
  <2>3. \A g \in Gens : g > current => gen'[g] = gen[g]
    BY <1>1, <1>3, <1>7, <2>1, ReleaseEffect DEF TypeOK
  <2>. QED  BY <2>1, <2>2, <2>3 DEF OneActive
<1>8. ASSUME NEW l \in Leases, NEW g \in Gens, Acquire(l, g)
      PROVE  Fresh' /\ OneActive'
  <2>1. gen[g].status \in {"active", "retired"} /\ UNCHANGED <<status, current>>
    BY <1>8 DEF Acquire
  <2>2. \A h \in Gens : gen'[h].status = "active" <=> gen[h].status = "active"
    BY <1>8, AcquireEffect
  <2>3. \A h \in Gens : h > current => gen'[h] = gen[h]
    BY <1>1, <1>3, <1>8, <2>1, AcquireEffect DEF TypeOK
  <2>. QED  BY <2>1, <2>2, <2>3 DEF OneActive
<1>9. ASSUME NEW g \in Gens, CloseSome(g), gen[g].status \in {"closing", "close_failed"},
             UNCHANGED <<status, current>>
      PROVE  Fresh' /\ OneActive'
  <2>1. \A h \in Gens : gen'[h].status = "active" <=> gen[h].status = "active"
    BY <1>9 DEF CloseSome
  <2>2. \A h \in Gens : h > current => gen'[h] = gen[h]
    BY <1>1, <1>3, <1>9 DEF CloseSome, TypeOK
  <2>. QED  BY <1>9, <2>1, <2>2 DEF OneActive
<1>10. ASSUME NEW g \in Gens, FinishCleanup(g)
       PROVE  Fresh' /\ OneActive'
  BY <1>9, <1>10, FinishCleanupEffect DEF FinishCleanup
<1>11. ASSUME NEW p \in Procs, NEW g \in Gens, RetryFailedGeneration(p, g)
       PROVE  Fresh' /\ OneActive'
  <2>1. gen[g].status = "close_failed"
    BY <1>11 DEF RetryFailedGeneration, RecoveryWork, FailedGenerations
  <2>. QED  BY <1>9, <1>11, <2>1, RetryEffect DEF RetryFailedGeneration
<1>12. CASE Shutdown
  <2>1. status' = "stopping" /\ UNCHANGED current
    BY <1>12 DEF Shutdown
  <2>2. \A g \in Gens : gen'[g].status # "active"
    BY <1>2, <1>12, ShutdownEffect
  <2>3. \A g \in Gens : g > current => gen'[g] = gen[g]
    BY <1>1, <1>12, ShutdownEffect DEF TypeOK
  <2>. QED  BY <2>1, <2>2, <2>3 DEF OneActive
<1>13. CASE ShutdownLeasesGone
  <2>1. UNCHANGED <<status, current>>
    BY <1>13 DEF ShutdownLeasesGone
  <2>2. \A g \in Gens : gen'[g].status = "active" <=> gen[g].status = "active"
    BY <1>13, LeasesGoneEffect
  <2>3. \A g \in Gens : g > current => gen'[g] = gen[g]
    BY <1>1, <1>3, <1>13, LeasesGoneEffect DEF TypeOK
  <2>. QED  BY <2>1, <2>2, <2>3 DEF OneActive
<1>. QED
  BY StepKinds, <1>4, <1>5, <1>6, <1>7, <1>8, <1>10, <1>11, <1>12, <1>13 DEF TouchesGenerations

\* The lease counters count handles, and no generation that is leased starts
\* to close: cleanup is scheduled only at zero.
LEMMA LeaseStep ==
    ASSUME IInv, [Next]_vars
    PROVE  LeaseCount' /\ LeasedAlive'
<1>. USE RuntimeConstants DEF IInv
<1>1. /\ \A g \in Gens : IsFiniteSet(Held(g)) /\ gen[g].leases = Cardinality(Held(g))
      /\ \A l \in Leases : lease[l] # 0 => lease[l] \in Gens
  BY FS_Subset DEF Held, LeaseCount, TypeOK, Gens
<1>2. \A l \in Leases, g \in Gens : lease[l] = g => gen[g].leases # 0
  BY <1>1, FS_EmptySet DEF Held
<1>3. ASSUME UNCHANGED lease, \A g \in Gens : gen'[g].leases = gen[g].leases,
             \A l \in Leases : lease[l] # 0 =>
                 gen'[lease[l]].status \in {"active", "retired"}
      PROVE  LeaseCount' /\ LeasedAlive'
  BY <1>3 DEF LeaseCount, LeasedAlive, Held
<1>4. CASE UNCHANGED <<gen, lease, current>>
  BY <1>3, <1>4 DEF LeasedAlive
<1>5. ASSUME NEW s \in SlotIds, InstallInitialCandidate(s)
      PROVE  LeaseCount' /\ LeasedAlive'
  <2>1. \A g \in Gens : gen[g] = NoGen
    BY <1>5 DEF InstallInitialCandidate, Fresh, TypeOK, Gens
  <2>2. \A l \in Leases : lease[l] = 0
    BY <1>1, <2>1 DEF LeasedAlive, NoGen
  <2>. QED  BY <1>3, <1>5, <2>1, <2>2, InstallEffect DEF InstallInitialCandidate, NoGen
<1>6. ASSUME NEW s \in SlotIds, PublishCandidate(s)
      PROVE  LeaseCount' /\ LeasedAlive'
  <2>1. current # 0 /\ UNCHANGED lease
    BY <1>6 DEF PublishCandidate, ValidatePublish, Fresh
  <2>2. current + 1 \in Gens /\ gen[current + 1] = NoGen
    BY <1>6, <2>1, PublishEffect DEF Fresh, TypeOK
  <2>3. \A l \in Leases : lease[l] # current + 1
    BY <1>2, <2>2 DEF NoGen
  <2>4. \A g \in Gens : gen'[g].leases = gen[g].leases
    BY <1>6, <2>1, <2>2, PublishEffect DEF NoGen
  <2>5. \A l \in Leases : lease[l] # 0 => gen'[lease[l]].status \in {"active", "retired"}
    BY <1>1, <1>2, <1>6, <2>1, <2>3, PublishEffect DEF LeasedAlive
  <2>. QED  BY <1>3, <2>1, <2>4, <2>5
<1>7. ASSUME NEW l \in Leases, Release(l)
      PROVE  LeaseCount' /\ LeasedAlive'
  <2>0. PICK g \in Gens : g = lease[l]
    BY <1>7, ReleaseEffect
  <2>1. /\ g \in Gens
        /\ gen[g].leases \in Nat \ {0}
        /\ gen'[g].leases = gen[g].leases - 1
        /\ \/ gen'[g].status = gen[g].status
           \/ gen[g].leases = 1
        /\ \A h \in Gens \ {g} : gen'[h] = gen[h]
    BY <1>7, <2>0, ReleaseEffect
  <2>2. lease' = [lease EXCEPT ![l] = 0] /\ g # 0
    BY <1>7, <2>0 DEF Release
  <2>3. Held(g)' = Held(g) \ {l} /\ l \in Held(g)
    BY <2>0, <2>1, <2>2 DEF Held, TypeOK
  <2>4. \A h \in Gens \ {g} : Held(h)' = Held(h)
    BY <2>0, <2>2 DEF Held, TypeOK, Gens
  <2>5. Cardinality(Held(g)') = Cardinality(Held(g)) - 1
    <3>1. IsFiniteSet(Held(g))
      BY <1>1, <2>1
    <3>2. Cardinality(Held(g) \ {l}) = Cardinality(Held(g)) - 1
      <4>. HIDE DEF IInv
      <4>. QED  BY <2>3, <3>1, FS_RemoveElement
    <3>. QED  BY <2>3, <3>2
  <2>6. LeaseCount'
    BY <1>1, <2>1, <2>3, <2>4, <2>5 DEF LeaseCount
  <2>7. ASSUME NEW m \in Leases, lease'[m] # 0
        PROVE  gen'[lease'[m]].status \in {"active", "retired"}
    <3>1. m # l /\ lease'[m] = lease[m] /\ lease[m] \in Gens
      BY <1>1, <2>2, <2>7 DEF TypeOK
    <3>2. CASE lease[m] # g
      BY <2>1, <2>7, <3>1, <3>2 DEF LeasedAlive
    <3>3. CASE lease[m] = g
      <4>1. m \in Held(g) \ {l}
        BY <3>1, <3>3 DEF Held
      <4>2. Cardinality(Held(g) \ {l}) # 0
        <5>1. IsFiniteSet(Held(g))
          BY <1>1, <2>1
        <5>2. IsFiniteSet(Held(g) \ {l})
          BY <5>1, FS_RemoveElement
        <5>. QED  BY <4>1, <5>2, FS_EmptySet
      <4>3. gen[g].leases # 1
        BY <1>1, <2>1, <2>3, <2>5, <4>2
      <4>. QED  BY <2>1, <2>7, <3>1, <3>3, <4>3 DEF LeasedAlive
    <3>. QED  BY <3>2, <3>3
  <2>. QED  BY <2>6, <2>7 DEF LeasedAlive
<1>8. ASSUME NEW l \in Leases, NEW g \in Gens, Acquire(l, g)
      PROVE  LeaseCount' /\ LeasedAlive'
  <2>1. /\ gen'[g].status = gen[g].status /\ gen'[g].leases = gen[g].leases + 1
        /\ \A h \in Gens \ {g} : gen'[h] = gen[h]
    BY <1>8, AcquireEffect
  <2>2. /\ lease' = [lease EXCEPT ![l] = g] /\ lease[l] = 0 /\ g # 0
        /\ gen[g].status \in {"active", "retired"}
    BY <1>8 DEF Acquire, Gens
  <2>3. Held(g)' = Held(g) \cup {l} /\ l \notin Held(g)
    BY <2>2 DEF Held, TypeOK
  <2>4. \A h \in Gens \ {g} : Held(h)' = Held(h)
    BY <2>2 DEF Held, TypeOK, Gens
  <2>5. Cardinality(Held(g)') = Cardinality(Held(g)) + 1
    <3>1. IsFiniteSet(Held(g))
      BY <1>1
    <3>2. Cardinality(Held(g) \cup {l}) = Cardinality(Held(g)) + 1
      <4>. HIDE DEF IInv
      <4>. QED  BY <2>3, <3>1, FS_AddElement
    <3>. QED  BY <2>3, <3>2
  <2>6. LeaseCount'
    BY <1>1, <2>1, <2>4, <2>5 DEF LeaseCount
  <2>7. LeasedAlive'
    BY <1>1, <2>1, <2>2 DEF LeasedAlive, TypeOK
  <2>. QED  BY <2>6, <2>7
<1>9. ASSUME NEW g \in Gens, CloseSome(g), gen[g].status \in {"closing", "close_failed"},
             UNCHANGED lease
      PROVE  LeaseCount' /\ LeasedAlive'
  <2>1. \A l \in Leases : lease[l] # g
    BY <1>9 DEF LeasedAlive, Gens
  <2>. QED  BY <1>1, <1>3, <1>9, <2>1 DEF LeasedAlive, CloseSome
<1>10. ASSUME NEW g \in Gens, FinishCleanup(g)
       PROVE  LeaseCount' /\ LeasedAlive'
  BY <1>9, <1>10, FinishCleanupEffect DEF FinishCleanup
<1>11. ASSUME NEW p \in Procs, NEW g \in Gens, RetryFailedGeneration(p, g)
       PROVE  LeaseCount' /\ LeasedAlive'
  <2>1. gen[g].status = "close_failed"
    BY <1>11 DEF RetryFailedGeneration, RecoveryWork, FailedGenerations
  <2>. QED  BY <1>9, <1>11, <2>1, RetryEffect DEF RetryFailedGeneration
<1>12. CASE Shutdown
  <2>1. UNCHANGED lease /\ (status = "running" => current # 0)
    BY <1>12 DEF Shutdown, Fresh
  <2>. QED  BY <1>1, <1>3, <1>12, <2>1, ShutdownEffect DEF LeasedAlive
<1>13. CASE ShutdownLeasesGone
  <2>1. UNCHANGED lease
    BY <1>13 DEF ShutdownLeasesGone
  <2>. QED  BY <1>1, <1>2, <1>3, <1>13, <2>1, LeasesGoneEffect DEF LeasedAlive
<1>. QED
  BY StepKinds, <1>4, <1>5, <1>6, <1>7, <1>8, <1>10, <1>11, <1>12, <1>13 DEF TouchesGenerations

\* A client has one owner, and an owner only holds clients that are open.
LEMMA OwnerStep ==
    ASSUME IInv, [Next]_vars
    PROVE  SingleOwner' /\ OwnedOpen'
<1>. USE RuntimeConstants DEF IInv, procVars
<1>1. /\ \A g, h \in Gens : g # h => gen[g].clients \cap gen[h].clients = {}
      /\ \A s, t \in SlotIds : s # t => slot[s].clients \cap slot[t].clients = {}
      /\ \A g \in Gens, s \in SlotIds : gen[g].clients \cap slot[s].clients = {}
      /\ \A g \in Gens : gen[g].clients \cap closed = {}
      /\ \A s \in SlotIds : slot[s].clients \cap closed = {}
  BY DEF SingleOwner, OwnedOpen, OwnedByGenerations, OwnedBySlots
<1>2. ASSUME \A g, h \in Gens : g # h => gen'[g].clients \cap gen'[h].clients = {},
             \A s, t \in SlotIds : s # t => slot'[s].clients \cap slot'[t].clients = {},
             \A g \in Gens, s \in SlotIds : gen'[g].clients \cap slot'[s].clients = {},
             \A g \in Gens : gen'[g].clients \cap closed' = {},
             \A s \in SlotIds : slot'[s].clients \cap closed' = {}
      PROVE  SingleOwner' /\ OwnedOpen'
  BY <1>2 DEF SingleOwner, OwnedOpen, OwnedByGenerations, OwnedBySlots
<1>3. ASSUME \A g \in Gens : gen'[g].clients \subseteq gen[g].clients,
             \A s \in SlotIds : slot'[s].clients \subseteq slot[s].clients,
             closed' = closed
      PROVE  SingleOwner' /\ OwnedOpen'
  <2>1. \A g, h \in Gens : g # h => gen'[g].clients \cap gen'[h].clients = {}
    BY <1>1, <1>3
  <2>2. \A s, t \in SlotIds : s # t => slot'[s].clients \cap slot'[t].clients = {}
    BY <1>1, <1>3
  <2>3. \A g \in Gens, s \in SlotIds : gen'[g].clients \cap slot'[s].clients = {}
    BY <1>1, <1>3
  <2>. QED  BY <1>1, <1>2, <1>3, <2>1, <2>2, <2>3
<1>4. ASSUME NEW g \in Gens, CloseSome(g), UNCHANGED slot
      PROVE  SingleOwner' /\ OwnedOpen'
  BY <1>1, <1>2, <1>4 DEF CloseSome
<1>5. ASSUME NEW n \in Gens, gen[n] = NoGen, NEW s \in SlotIds,
             gen'[n].clients = slot[s].clients, slot'[s].clients = {},
             \A g \in Gens \ {n} : gen'[g].clients = gen[g].clients,
             \A t \in SlotIds \ {s} : slot'[t] = slot[t],
             UNCHANGED closed
      PROVE  SingleOwner' /\ OwnedOpen'
  <2>1. \A g, h \in Gens : g # h => gen'[g].clients \cap gen'[h].clients = {}
    BY <1>1, <1>5
  <2>2. \A t, u \in SlotIds : t # u => slot'[t].clients \cap slot'[u].clients = {}
    BY <1>1, <1>5
  <2>3. \A g \in Gens, t \in SlotIds : gen'[g].clients \cap slot'[t].clients = {}
    BY <1>1, <1>5
  <2>4. \A g \in Gens : gen'[g].clients \cap closed' = {}
    BY <1>1, <1>5
  <2>5. \A t \in SlotIds : slot'[t].clients \cap closed' = {}
    BY <1>1, <1>5
  <2>. QED  BY <1>2, <2>1, <2>2, <2>3, <2>4, <2>5
<1>6. CASE OpenUnpublishedSlot
  <2>1. \A s \in SlotIds : slot'[s].clients \subseteq slot[s].clients
    BY <1>6 DEF OpenUnpublishedSlot, TypeOK
  <2>. QED  BY <1>3, <1>6, <2>1 DEF OpenUnpublishedSlot
<1>7. ASSUME NEW s \in SlotIds, NEW c \in Clients, RegisterHttpClient(s, c)
      PROVE  SingleOwner' /\ OwnedOpen'
  <2>1. /\ slot'[s].clients = slot[s].clients \cup {c}
        /\ \A t \in SlotIds \ {s} : slot'[t] = slot[t]
    BY <1>7 DEF RegisterHttpClient, TypeOK, SlotRecord
  <2>2. /\ c \notin closed /\ UNCHANGED <<gen, closed>>
        /\ \A g \in Gens : c \notin gen[g].clients
        /\ \A t \in SlotIds : c \notin slot[t].clients
    BY <1>7 DEF RegisterHttpClient, OwnsHttpClient, OwnedByGenerations, OwnedBySlots
  <2>3. \A t, u \in SlotIds : t # u => slot'[t].clients \cap slot'[u].clients = {}
    BY <1>1, <2>1, <2>2
  <2>4. \A g \in Gens, t \in SlotIds : gen'[g].clients \cap slot'[t].clients = {}
    BY <1>1, <2>1, <2>2
  <2>5. \A t \in SlotIds : slot'[t].clients \cap closed' = {}
    BY <1>1, <2>1, <2>2
  <2>. QED  BY <1>1, <1>2, <2>2, <2>3, <2>4, <2>5
<1>8. ASSUME NEW s \in SlotIds, CloseUnpublishedSlot(s)
      PROVE  SingleOwner' /\ OwnedOpen'
  BY <1>3, <1>8, BeginCloseType DEF CloseUnpublishedSlot, TypeOK
<1>9. ASSUME NEW s \in SlotIds, FinishSlotClose(s)
      PROVE  SingleOwner' /\ OwnedOpen'
  <2>1. PICK Unclosed \in SUBSET slot[s].clients :
           /\ closed' = closed \cup (slot[s].clients \ Unclosed)
           /\ slot' = [slot EXCEPT ![s] =
                          IF Unclosed = {} THEN NoSlot
                          ELSE [@ EXCEPT !.clients = Unclosed, !.closing = FALSE,
                                         !.close_failed = TRUE]]
    BY <1>9 DEF FinishSlotClose
  <2>2. slot'[s].clients = Unclosed /\ \A t \in SlotIds \ {s} : slot'[t] = slot[t]
    BY <2>1 DEF TypeOK, SlotRecord, NoSlot
  <2>3. UNCHANGED gen
    BY <1>9 DEF FinishSlotClose
  <2>4. \A t, u \in SlotIds : t # u => slot'[t].clients \cap slot'[u].clients = {}
    BY <1>1, <2>1, <2>2
  <2>5. \A g \in Gens, t \in SlotIds : gen'[g].clients \cap slot'[t].clients = {}
    BY <1>1, <2>1, <2>2, <2>3
  <2>6. \A t \in SlotIds : slot'[t].clients \cap closed' = {}
    BY <1>1, <2>1, <2>2
  <2>7. \A g \in Gens : gen'[g].clients \cap closed' = {}
    BY <1>1, <2>1, <2>3
  <2>. QED  BY <1>1, <1>2, <2>3, <2>4, <2>5, <2>6, <2>7
<1>10. ASSUME NEW s \in SlotIds, InstallInitialCandidate(s)
       PROVE  SingleOwner' /\ OwnedOpen'
  <2>1. 1 \in Gens /\ gen[1] = NoGen /\ UNCHANGED closed
    BY <1>10 DEF InstallInitialCandidate, Fresh, Gens
  <2>. QED  BY <1>5, <1>10, <2>1, InstallEffect
<1>11. ASSUME NEW s \in SlotIds, PublishCandidate(s)
       PROVE  SingleOwner' /\ OwnedOpen'
  <2>1. current # 0 /\ UNCHANGED closed
    BY <1>11 DEF PublishCandidate, ValidatePublish, Fresh
  <2>2. current + 1 \in Gens /\ gen[current + 1] = NoGen
    BY <1>11, <2>1, PublishEffect DEF Fresh, TypeOK
  <2>. QED  BY <1>5, <1>11, <2>1, <2>2, PublishEffect
<1>12. ASSUME NEW l \in Leases, Release(l)
       PROVE  SingleOwner' /\ OwnedOpen'
  <2>1. \A g \in Gens : gen'[g].clients = gen[g].clients
    BY <1>12, ReleaseEffect
  <2>. QED  BY <1>3, <1>12, <2>1 DEF Release
<1>13. ASSUME NEW l \in Leases, NEW g \in Gens, Acquire(l, g)
       PROVE  SingleOwner' /\ OwnedOpen'
  <2>1. \A h \in Gens : gen'[h].clients = gen[h].clients
    BY <1>13, AcquireEffect
  <2>. QED  BY <1>3, <1>13, <2>1 DEF Acquire
<1>14. ASSUME NEW g \in Gens, FinishCleanup(g)
       PROVE  SingleOwner' /\ OwnedOpen'
  BY <1>4, <1>14, FinishCleanupEffect DEF FinishCleanup
<1>15. ASSUME NEW p \in Procs, NEW g \in Gens, RetryFailedGeneration(p, g)
       PROVE  SingleOwner' /\ OwnedOpen'
  <2>1. gen[g].status = "close_failed"
    BY <1>15 DEF RetryFailedGeneration, RecoveryWork, FailedGenerations
  <2>. QED  BY <1>4, <1>15, <2>1, RetryEffect DEF RetryFailedGeneration
<1>16. CASE Shutdown
  BY <1>3, <1>16, ShutdownEffect DEF Shutdown, Fresh
<1>17. CASE ShutdownLeasesGone
  BY <1>3, <1>17, LeasesGoneEffect DEF ShutdownLeasesGone
<1>18. CASE RetryFailedCleanup \/ ShutdownDrained
  BY <1>3, <1>18, BeginCloseType DEF RetryFailedCleanup, ShutdownDrained, BeginRetrySlots, TypeOK
<1>19. CASE \E p \in Procs : EndRetrySlots(p) \/ TakeRecoveryLock(p)
  BY <1>3, <1>19 DEF EndRetrySlots, TakeRecoveryLock
<1>20. CASE FinishRecovery \/ ShutdownSlotsClosed \/ FinishShutdown \/ ShutdownAborted
  BY <1>3, <1>20 DEF FinishRecovery, ShutdownSlotsClosed, FinishShutdown, ShutdownAborted
<1>21. CASE UNCHANGED vars
  BY <1>3, <1>21 DEF vars
<1>22. ASSUME NEW l \in Leases,
              \/ AcquireCurrent(l)
              \/ \E g \in Gens : RetainActive(l, g)
              \/ \E m \in Leases : RetainFromLease(l, m)
       PROVE  SingleOwner' /\ OwnedOpen'
  BY <1>13, <1>22 DEF AcquireCurrent, RetainActive, RetainFromLease, Fresh, TypeOK, Gens
<1>. QED
  BY <1>6, <1>7, <1>8, <1>9, <1>10, <1>11, <1>12, <1>14, <1>15, <1>16, <1>17, <1>18, <1>19,
     <1>20, <1>21, <1>22 DEF Next

\* A failed generation stays failed while a recovery has it on its list.
LEMMA RecoveryStep ==
    ASSUME IInv, [Next]_vars
    PROVE  RecoveryWork'
<1>. USE RuntimeConstants DEF IInv, procVars
<1>1. TypeOK'
  BY TypeStep
<1>2. ASSUME UNCHANGED <<pc, work, lock>>,
             \A g \in Gens : gen[g].status = "close_failed" => gen'[g].status = "close_failed"
      PROVE  RecoveryWork'
  BY <1>2 DEF RecoveryWork, FailedGenerations, TypeOK
<1>3. CASE UNCHANGED <<gen, pc, work, lock>>
  BY <1>3 DEF RecoveryWork, FailedGenerations
<1>4. ASSUME NEW s \in SlotIds, InstallInitialCandidate(s)
      PROVE  RecoveryWork'
  <2>1. 1 \in Gens /\ gen[1] = NoGen
    BY <1>4 DEF InstallInitialCandidate, Fresh, Gens
  <2>. QED  BY <1>2, <1>4, <2>1, InstallEffect DEF InstallInitialCandidate, NoGen
<1>5. ASSUME NEW s \in SlotIds, PublishCandidate(s)
      PROVE  RecoveryWork'
  <2>1. current # 0 /\ status = "running"
    BY <1>5 DEF PublishCandidate, ValidatePublish, Fresh
  <2>2. gen[current].status = "active" /\ gen[current + 1] = NoGen
    BY <1>5, <2>1, PublishEffect DEF OneActive, Fresh, TypeOK
  <2>3. \A g \in Gens \ {current, current + 1} : gen'[g] = gen[g]
    BY <1>5, <2>1, PublishEffect
  <2>4. \A g \in Gens : gen[g].status = "close_failed" => gen'[g].status = "close_failed"
    BY <2>2, <2>3 DEF NoGen
  <2>. QED  BY <1>2, <1>5, <2>4 DEF PublishCandidate
<1>6. ASSUME NEW l \in Leases, Release(l)
      PROVE  RecoveryWork'
  <2>1. \A g \in Gens : gen[g].status = "close_failed" => gen'[g].status = "close_failed"
    BY <1>6, ReleaseEffect
  <2>. QED  BY <1>2, <1>6, <2>1 DEF Release
<1>7. ASSUME NEW l \in Leases, NEW g \in Gens, Acquire(l, g)
      PROVE  RecoveryWork'
  <2>1. \A h \in Gens : gen[h].status = "close_failed" => gen'[h].status = "close_failed"
    BY <1>7, AcquireEffect
  <2>. QED  BY <1>2, <1>7, <2>1 DEF Acquire
<1>8. ASSUME NEW g \in Gens, FinishCleanup(g)
      PROVE  RecoveryWork'
  <2>1. gen[g].status = "closing" /\ CloseSome(g)
    BY <1>8, FinishCleanupEffect DEF FinishCleanup
  <2>. QED  BY <1>2, <1>8, <2>1 DEF FinishCleanup, CloseSome
<1>9. ASSUME NEW p \in Procs, NEW g \in Gens, RetryFailedGeneration(p, g)
      PROVE  RecoveryWork'
  <2>1. /\ gen[g].status = "close_failed" /\ pc[p] = "failed" /\ g \in work[p]
        /\ work' = [work EXCEPT ![p] = @ \ {g}] /\ UNCHANGED <<pc, lock>>
    BY <1>9 DEF RetryFailedGeneration, RecoveryWork, FailedGenerations
  <2>2. \A h \in Gens \ {g} : gen'[h] = gen[h]
    BY <1>9, <2>1, RetryEffect DEF CloseSome
  <2>3. \A q \in Procs \ {p} : work[q] = {}
    BY <2>1 DEF RecoveryWork
  <2>. QED  BY <2>1, <2>2, <2>3 DEF RecoveryWork, FailedGenerations, TypeOK
<1>10. CASE Shutdown
  <2>1. \A g \in Gens : gen[g].status = "close_failed" => gen'[g].status = "close_failed"
    BY <1>10, ShutdownEffect DEF Fresh, OneActive
  <2>2. /\ pc["shutdown"] = "idle" /\ pc' = [pc EXCEPT !["shutdown"] = "slots"]
        /\ UNCHANGED <<work, lock>>
    BY <1>10 DEF Shutdown
  <2>. QED  BY <2>1, <2>2 DEF RecoveryWork, FailedGenerations, TypeOK, Procs
<1>11. CASE ShutdownLeasesGone
  <2>1. \A g \in Gens : gen[g].status = "close_failed" => gen'[g].status = "close_failed"
    BY <1>11, LeasesGoneEffect
  <2>2. /\ pc["shutdown"] = "leases" /\ pc' = [pc EXCEPT !["shutdown"] = "drain"]
        /\ UNCHANGED <<work, lock>>
    BY <1>11 DEF ShutdownLeasesGone
  <2>. QED  BY <2>1, <2>2 DEF RecoveryWork, FailedGenerations, TypeOK, Procs
<1>12. ASSUME NEW p \in Procs, EndRetrySlots(p)
       PROVE  RecoveryWork'
  BY <1>12 DEF EndRetrySlots, RecoveryWork, FailedGenerations, TypeOK
<1>13. ASSUME NEW p \in Procs, TakeRecoveryLock(p)
       PROVE  RecoveryWork'
  BY <1>13 DEF TakeRecoveryLock, RecoveryWork, FailedGenerations, TypeOK, Procs
<1>14. CASE FinishRecovery \/ FinishShutdown
  BY <1>14 DEF FinishRecovery, FinishShutdown, RecoveryWork, FailedGenerations, TypeOK, Procs
<1>15. CASE RetryFailedCleanup \/ ShutdownSlotsClosed \/ ShutdownDrained \/ ShutdownAborted
  BY <1>15 DEF RetryFailedCleanup, ShutdownSlotsClosed, ShutdownDrained, ShutdownAborted,
               RecoveryWork, FailedGenerations, TypeOK, Procs
<1>16. CASE OpenUnpublishedSlot \/ UNCHANGED vars
  BY <1>3, <1>16 DEF OpenUnpublishedSlot, vars
<1>17. ASSUME NEW s \in SlotIds,
              \/ \E c \in Clients : RegisterHttpClient(s, c)
              \/ CloseUnpublishedSlot(s)
              \/ FinishSlotClose(s)
       PROVE  RecoveryWork'
  BY <1>3, <1>17 DEF RegisterHttpClient, CloseUnpublishedSlot, FinishSlotClose
<1>18. ASSUME NEW l \in Leases,
              \/ AcquireCurrent(l)
              \/ \E g \in Gens : RetainActive(l, g)
              \/ \E m \in Leases : RetainFromLease(l, m)
       PROVE  RecoveryWork'
  BY <1>7, <1>18 DEF AcquireCurrent, RetainActive, RetainFromLease, Fresh, TypeOK, Gens
<1>. QED
  BY <1>4, <1>5, <1>6, <1>8, <1>9, <1>10, <1>11, <1>12, <1>13, <1>14, <1>15, <1>16, <1>17,
     <1>18 DEF Next

\* IInv is inductive.
LEMMA IInvStep == IInv /\ [Next]_vars => IInv'
BY TypeStep, ShutdownStatusStep, CurrentStep, LeaseStep, OwnerStep, RecoveryStep DEF IInv

\* IInv holds in every behaviour.
LEMMA Inductive == Spec => []IInv
BY IInvInit, IInvStep, PTL DEF Spec

\* A request holding a lease always has a generation that is active or
\* retired and whose proxy clients are all open, for every number of leases,
\* generations and clients: acquire, release, publish, shutdown, recovery and
\* the close tasks may interleave in any way.
THEOREM LeasesSafe == Spec => []LeaseSafety
<1>1. IInv => LeaseSafety
  BY DEF IInv, LeaseSafety, LeasedAlive, OwnedOpen, TypeOK, Gens
<1>. QED  BY Inductive, <1>1, PTL

\* active_leases is the number of live RuntimeLease handles.
THEOREM LeasesCounted == Spec => []LeaseCount
<1>1. IInv => LeaseCount
  BY DEF IInv
<1>. QED  BY Inductive, <1>1, PTL

\* Exactly the current generation is active while the manager runs.
THEOREM CurrentActive == Spec => []OneActive
<1>1. IInv => OneActive
  BY DEF IInv
<1>. QED  BY Inductive, <1>1, PTL

\* No HTTP client ever has two owners that would both close it.
THEOREM ClientsOwnedOnce == Spec => []SingleOwner
<1>1. IInv => SingleOwner
  BY DEF IInv
<1>. QED  BY Inductive, <1>1, PTL

\* What the manager promises to the requests that hold its snapshots, at every
\* step of every interleaving of publishes, leases, shutdown and recovery.
THEOREM RuntimeIsSafe == Spec => []RuntimeSafe
<1>1. TypeOK /\ LeaseSafety /\ LeaseCount /\ OneActive /\ SingleOwner => RuntimeSafe
  BY DEF RuntimeSafe
<1>. QED  BY TypeCorrect, LeasesSafe, LeasesCounted, CurrentActive, ClientsOwnedOnce, <1>1, PTL

---------------------------------------------------------------------------
(* Nothing leaks.  NothingLeaks is not inductive either: "stopped" is       *)
(* reported from statuses and open slots, so that a generation that is over *)
(* and a slot that is gone must not hold clients (TerminalEmpty).           *)

TerminalEmpty ==
    /\ \A g \in Gens : gen[g].status \in {"none", "closed"} => gen[g].clients = {}
    /\ \A s \in SlotIds : ~ slot[s].open => slot[s].clients = {}

\* A slot that was never opened is not open.
UnopenedSlots == \A s \in SlotIds : s >= nextSlot => ~ slot[s].open

LeakInv == IInv /\ TerminalEmpty /\ UnopenedSlots /\ NothingLeaks

\* A generation that is closed by scheduling has given up its clients.
LEMMA ScheduleCleanupClosed ==
    ASSUME NEW G \in [Gens -> GenerationRecord], NEW R, NEW Refused, NEW g \in Gens,
           ScheduleCleanup(G, R, Refused)[g].status \in {"none", "closed"}
    PROVE  \/ ScheduleCleanup(G, R, Refused)[g] = G[g]
           \/ ScheduleCleanup(G, R, Refused)[g].clients = {}
<1>1. G[g] \in GenerationRecord
  OBVIOUS
<1>2. CASE g \notin R
  BY <1>2 DEF ScheduleCleanup
<1>3. CASE g \in R \ Refused
  BY <1>1, <1>3 DEF ScheduleCleanup, GenerationRecord
<1>4. CASE g \in R /\ g \in Refused
  BY <1>1, <1>4 DEF ScheduleCleanup, GenerationRecord
<1>. QED  BY <1>2, <1>3, <1>4

\* A slot that closes has given up its clients.
LEMMA BeginCloseOpen ==
    ASSUME slot \in [SlotIds -> SlotRecord], NEW S, NEW Refused, NEW s \in SlotIds,
           slot[s].open # BeginClose(S, Refused)[s].open
    PROVE  slot[s].open /\ BeginClose(S, Refused)[s].clients = {}
<1>1. slot[s] \in SlotRecord
  OBVIOUS
<1>2. CASE s \notin S
  BY <1>2 DEF BeginClose
<1>3. CASE s \in S /\ slot[s].clients = {}
  BY <1>1, <1>3 DEF BeginClose, NoSlot, SlotRecord
<1>4. CASE s \in S /\ slot[s].clients # {}
  BY <1>1, <1>4 DEF BeginClose, SlotRecord
<1>. QED  BY <1>2, <1>3, <1>4

\* A closed generation never has clients again.
LEMMA TerminalEmptyStep ==
    ASSUME IInv, TerminalEmpty, [Next]_vars
    PROVE  TerminalEmpty'
<1>. USE RuntimeConstants DEF IInv, procVars
<1>1. /\ \A g \in Gens : gen[g] \in GenerationRecord
      /\ \A s \in SlotIds : slot[s] \in SlotRecord
  BY DEF TypeOK
<1>2. ASSUME \A g \in Gens : gen'[g].status \in {"none", "closed"} =>
                 gen'[g] = gen[g] \/ gen'[g].clients = {},
             \A s \in SlotIds : ~ slot'[s].open => slot'[s] = slot[s] \/ slot'[s].clients = {}
      PROVE  TerminalEmpty'
  BY <1>2 DEF TerminalEmpty
<1>3. ASSUME NEW S, NEW Refused, slot' = BeginClose(S, Refused)
      PROVE  \A s \in SlotIds : ~ slot'[s].open => slot'[s].clients = {}
  BY <1>3, BeginCloseOpen, BeginCloseType DEF TerminalEmpty, TypeOK
<1>4. ASSUME NEW g \in Gens, CloseSome(g), UNCHANGED slot
      PROVE  TerminalEmpty'
  BY <1>2, <1>4 DEF CloseSome
<1>5. CASE OpenUnpublishedSlot
  BY <1>2, <1>5 DEF OpenUnpublishedSlot, TypeOK
<1>6. ASSUME NEW s \in SlotIds, NEW c \in Clients, RegisterHttpClient(s, c)
      PROVE  TerminalEmpty'
  BY <1>1, <1>2, <1>6 DEF RegisterHttpClient, TypeOK, SlotRecord
<1>7. ASSUME NEW s \in SlotIds, CloseUnpublishedSlot(s)
      PROVE  TerminalEmpty'
  BY <1>2, <1>3, <1>7 DEF CloseUnpublishedSlot
<1>8. ASSUME NEW s \in SlotIds, FinishSlotClose(s)
      PROVE  TerminalEmpty'
  <2>1. PICK Unclosed \in SUBSET slot[s].clients :
           slot' = [slot EXCEPT ![s] =
                       IF Unclosed = {} THEN NoSlot
                       ELSE [@ EXCEPT !.clients = Unclosed, !.closing = FALSE,
                                      !.close_failed = TRUE]]
    BY <1>8 DEF FinishSlotClose
  <2>2. \A t \in SlotIds \ {s} : slot'[t] = slot[t]
    BY <2>1 DEF TypeOK
  <2>3. CASE Unclosed = {}
    BY <1>2, <1>8, <2>1, <2>2, <2>3 DEF FinishSlotClose, TypeOK, NoSlot
  <2>4. CASE Unclosed # {}
    <3>1. slot'[s].open = slot[s].open
      BY <1>1, <2>1, <2>4 DEF TypeOK, SlotRecord
    <3>2. slot[s].open
      BY <2>4 DEF TerminalEmpty
    <3>. QED  BY <1>2, <1>8, <2>2, <3>1, <3>2 DEF FinishSlotClose
  <2>. QED  BY <2>3, <2>4
<1>9. ASSUME NEW s \in SlotIds, InstallInitialCandidate(s)
      PROVE  TerminalEmpty'
  BY <1>2, <1>9, InstallEffect
<1>10. ASSUME NEW s \in SlotIds, PublishCandidate(s)
       PROVE  TerminalEmpty'
  <2>. DEFINE G == [RetireCurrent(gen) EXCEPT ![current + 1] =
                      [status |-> "active", leases |-> 0, clients |-> slot[s].clients]]
  <2>1. current \in Gens /\ current + 1 \in Gens /\ current # 0
    BY <1>10, PublishEffect DEF PublishCandidate, ValidatePublish, Fresh
  <2>2. slot[s].clients \in SUBSET Clients /\ RetireCurrent(gen) \in [Gens -> GenerationRecord]
    BY <1>1, RetireCurrentType DEF TypeOK, SlotRecord
  <2>3. G \in [Gens -> GenerationRecord]
    BY <2>2 DEF GenerationRecord, RuntimeGenerationStatus
  <2>4. \A g \in Gens : G[g].status \in {"none", "closed"} => G[g] = gen[g]
    BY <1>1, <2>1 DEF RetireCurrent, TypeOK, GenerationRecord
  <2>5. PICK R, Refused : gen' = ScheduleCleanup(G, R, Refused)
    BY <1>10 DEF PublishCandidate
  <2>. HIDE DEF G
  <2>6. \A g \in Gens : gen'[g].status \in {"none", "closed"} =>
                            gen'[g] = gen[g] \/ gen'[g].clients = {}
    BY <2>3, <2>4, <2>5, ScheduleCleanupClosed
  <2>. QED  BY <1>2, <1>10, <2>1, <2>6, PublishEffect
<1>11. ASSUME NEW l \in Leases, Release(l)
       PROVE  TerminalEmpty'
  <2>. DEFINE G == [gen EXCEPT ![lease[l]].leases = @ - 1]
  <2>1. lease[l] \in Gens /\ gen[lease[l]].leases - 1 \in Nat
    BY <1>1, <1>11 DEF Release, TypeOK, Gens, GenerationRecord
  <2>2. G \in [Gens -> GenerationRecord]
    BY <1>1, <2>1 DEF TypeOK, GenerationRecord
  <2>3. \A g \in Gens : G[g].status = gen[g].status /\ G[g].clients = gen[g].clients
    BY <1>1, <2>1 DEF TypeOK, GenerationRecord
  <2>4. PICK R, Refused : gen' = ScheduleCleanup(G, R, Refused)
    BY <1>11 DEF Release
  <2>. HIDE DEF G
  <2>5. \A g \in Gens : gen'[g].status \in {"none", "closed"} => gen'[g].clients = {}
    BY <2>2, <2>3, <2>4, ScheduleCleanupClosed DEF TerminalEmpty
  <2>. QED  BY <1>2, <1>11, <2>5 DEF Release
<1>12. ASSUME NEW l \in Leases, NEW g \in Gens, Acquire(l, g)
       PROVE  TerminalEmpty'
  <2>1. \A h \in Gens : gen'[h].status = gen[h].status /\ gen'[h].clients = gen[h].clients
    BY <1>12, AcquireEffect
  <2>. QED  BY <1>12, <2>1 DEF Acquire, TerminalEmpty
<1>13. ASSUME NEW g \in Gens, FinishCleanup(g)
       PROVE  TerminalEmpty'
  BY <1>4, <1>13, FinishCleanupEffect DEF FinishCleanup
<1>14. ASSUME NEW p \in Procs, NEW g \in Gens, RetryFailedGeneration(p, g)
       PROVE  TerminalEmpty'
  <2>1. gen[g].status = "close_failed"
    BY <1>14 DEF RetryFailedGeneration, RecoveryWork, FailedGenerations
  <2>. QED  BY <1>4, <1>14, <2>1, RetryEffect DEF RetryFailedGeneration
<1>15. CASE Shutdown
  <2>1. \A g \in Gens : gen'[g].status \in {"none", "closed"} => gen'[g] = gen[g]
    BY <1>15, ShutdownEffect DEF Fresh
  <2>2. \A s \in SlotIds : ~ slot'[s].open => slot'[s].clients = {}
    BY <1>3, <1>15 DEF Shutdown
  <2>. QED  BY <1>2, <2>1, <2>2
<1>16. CASE ShutdownLeasesGone
  <2>1. PICK R, Refused : gen' = ScheduleCleanup(gen, R, Refused)
    BY <1>16 DEF ShutdownLeasesGone
  <2>2. \A g \in Gens : gen'[g].status \in {"none", "closed"} =>
                            gen'[g] = gen[g] \/ gen'[g].clients = {}
    BY <2>1, ScheduleCleanupClosed DEF TypeOK
  <2>. QED  BY <1>2, <1>16, <2>2 DEF ShutdownLeasesGone
<1>17. CASE RetryFailedCleanup \/ ShutdownDrained
  <2>1. PICK Refused : slot' = BeginClose(FailedSlots, Refused)
    BY <1>17 DEF RetryFailedCleanup, ShutdownDrained, BeginRetrySlots
  <2>. QED  BY <1>2, <1>3, <1>17, <2>1 DEF RetryFailedCleanup, ShutdownDrained
<1>18. CASE \/ \E p \in Procs : EndRetrySlots(p) \/ TakeRecoveryLock(p)
            \/ FinishRecovery \/ ShutdownSlotsClosed \/ FinishShutdown \/ ShutdownAborted
            \/ UNCHANGED vars
  BY <1>2, <1>18 DEF EndRetrySlots, TakeRecoveryLock, FinishRecovery, ShutdownSlotsClosed,
                     FinishShutdown, ShutdownAborted, vars
<1>19. ASSUME NEW l \in Leases,
              \/ AcquireCurrent(l)
              \/ \E g \in Gens : RetainActive(l, g)
              \/ \E m \in Leases : RetainFromLease(l, m)
       PROVE  TerminalEmpty'
  BY <1>12, <1>19 DEF AcquireCurrent, RetainActive, RetainFromLease, Fresh, TypeOK, Gens
<1>. QED
  BY <1>5, <1>6, <1>7, <1>8, <1>9, <1>10, <1>11, <1>13, <1>14, <1>15, <1>16, <1>17, <1>18,
     <1>19 DEF Next

\* Only a publish makes a generation retiring, and only the one it supersedes.
LEMMA RetiringStep ==
    ASSUME IInv, RetiringBound, [Next]_vars
    PROVE  RetiringBound'
<1>. USE RuntimeConstants DEF IInv
<1>1. IsFiniteSet(Gens) /\ \A g \in Gens : gen[g] \in GenerationRecord
  BY FS_Interval DEF Gens, TypeOK
<1>2. IsFiniteSet(Retiring) /\ Cardinality(Retiring) \in Nat
  BY <1>1, FS_Subset, FS_CardinalityType DEF Retiring, Managed
<1>3. ASSUME Retiring' \subseteq Retiring
      PROVE  RetiringBound'
  <2>1. Cardinality(Retiring') <= Cardinality(Retiring)
    BY <1>2, <1>3, FS_Subset
  <2>2. IsFiniteSet(Retiring') /\ Cardinality(Retiring') \in Nat
    BY <1>2, <1>3, FS_Subset, FS_CardinalityType
  <2>. QED  BY <1>2, <2>1, <2>2 DEF RetiringBound
<1>4. ASSUME UNCHANGED current,
             \A g \in Gens : gen'[g].status \in {"retired", "closing"} =>
                                \/ gen[g].status \in {"retired", "closing"}
                                \/ g = current
      PROVE  RetiringBound'
  BY <1>3, <1>4 DEF Retiring, Managed
<1>5. CASE UNCHANGED <<gen, current>>
  BY <1>4, <1>5
<1>6. ASSUME NEW s \in SlotIds, InstallInitialCandidate(s)
      PROVE  RetiringBound'
  <2>1. current = 0 /\ \A g \in Gens : gen[g] = NoGen
    BY <1>6 DEF InstallInitialCandidate, Fresh, Gens
  <2>2. Retiring' \subseteq Retiring
    BY <1>6, <2>1, InstallEffect DEF Retiring, Managed, NoGen, InstallInitialCandidate
  <2>. QED  BY <1>3, <2>2
<1>7. ASSUME NEW s \in SlotIds, PublishCandidate(s)
      PROVE  RetiringBound'
  <2>1. current # 0 /\ Cardinality(Retiring) < MaxRetiring /\ current' = current + 1
    BY <1>7 DEF PublishCandidate, ValidatePublish, RetirementAdmitted, Fresh
  <2>2. Retiring' \subseteq Retiring \cup {current}
    BY <1>7, <2>1, PublishEffect DEF Retiring, Managed, Fresh, NoGen
  <2>3. /\ IsFiniteSet(Retiring \cup {current})
        /\ Cardinality(Retiring \cup {current}) <= Cardinality(Retiring) + 1
    <3>1. current \notin Retiring
      BY DEF Retiring
    <3>2. Cardinality(Retiring \cup {current}) = Cardinality(Retiring) + 1
      BY <1>2, <3>1, FS_AddElement
    <3>. QED  BY <1>2, <3>2, FS_AddElement
  <2>4. /\ IsFiniteSet(Retiring')
        /\ Cardinality(Retiring') <= Cardinality(Retiring \cup {current})
    BY <2>2, <2>3, FS_Subset
  <2>5. Cardinality(Retiring') \in Nat /\ Cardinality(Retiring \cup {current}) \in Nat
    BY <2>3, <2>4, FS_CardinalityType
  <2>. QED  BY <1>2, <2>1, <2>3, <2>4, <2>5 DEF RetiringBound
<1>8. ASSUME NEW l \in Leases, Release(l)
      PROVE  RetiringBound'
  <2>1. \A g \in Gens : gen'[g].status \in {"retired", "closing"} =>
                            gen[g].status \in {"retired", "closing"}
    BY <1>8, ReleaseEffect
  <2>. QED  BY <1>4, <1>8, <2>1 DEF Release
<1>9. ASSUME NEW l \in Leases, NEW g \in Gens, Acquire(l, g)
      PROVE  RetiringBound'
  <2>1. \A h \in Gens : gen'[h].status = gen[h].status
    BY <1>9, AcquireEffect
  <2>. QED  BY <1>4, <1>9, <2>1 DEF Acquire
<1>10. ASSUME NEW g \in Gens, FinishCleanup(g)
       PROVE  RetiringBound'
  BY <1>4, <1>10, FinishCleanupEffect DEF FinishCleanup, CloseSome
<1>11. ASSUME NEW p \in Procs, NEW g \in Gens, RetryFailedGeneration(p, g)
       PROVE  RetiringBound'
  <2>1. gen[g].status = "close_failed"
    BY <1>11 DEF RetryFailedGeneration, RecoveryWork, FailedGenerations
  <2>. QED  BY <1>4, <1>11, <2>1, RetryEffect DEF RetryFailedGeneration, CloseSome
<1>12. CASE Shutdown
  BY <1>4, <1>12, ShutdownEffect DEF Shutdown, Fresh
<1>13. CASE ShutdownLeasesGone
  BY <1>4, <1>13, LeasesGoneEffect DEF ShutdownLeasesGone
<1>. QED
  BY <1>5, <1>6, <1>7, <1>8, <1>9, <1>10, <1>11, <1>12, <1>13, StepKinds DEF TouchesGenerations

\* A slot never opened stays empty.
LEMMA UnopenedStep ==
    ASSUME IInv, UnopenedSlots, [Next]_vars
    PROVE  UnopenedSlots'
<1>. USE RuntimeConstants DEF IInv, procVars
<1>1. /\ nextSlot \in Nat /\ \A s \in SlotIds : s \in Nat /\ slot[s] \in SlotRecord
      /\ nextSlot' \in Nat
  BY TypeStep DEF TypeOK, SlotIds
<1>2. ASSUME nextSlot' >= nextSlot, \A s \in SlotIds : slot'[s].open => slot[s].open
      PROVE  UnopenedSlots'
  BY <1>1, <1>2 DEF UnopenedSlots
<1>3. ASSUME NEW S, NEW Refused, slot' = BeginClose(S, Refused), UNCHANGED nextSlot
      PROVE  UnopenedSlots'
  <2>1. \A s \in SlotIds : slot'[s].open => slot[s].open
    BY <1>3, BeginCloseType, BeginCloseOpen DEF TypeOK, SlotRecord
  <2>. QED  BY <1>1, <1>2, <1>3, <2>1
<1>4. CASE UNCHANGED <<slot, nextSlot>>
  BY <1>4 DEF UnopenedSlots
<1>5. CASE OpenUnpublishedSlot
  <2>1. /\ nextSlot' = nextSlot + 1
        /\ \A s \in SlotIds \ {nextSlot} : slot'[s] = slot[s]
    BY <1>5 DEF OpenUnpublishedSlot, TypeOK
  <2>. QED  BY <1>1, <2>1 DEF UnopenedSlots
<1>6. ASSUME NEW s \in SlotIds, NEW c \in Clients, RegisterHttpClient(s, c)
      PROVE  UnopenedSlots'
  BY <1>1, <1>2, <1>6 DEF RegisterHttpClient, TypeOK, SlotRecord
<1>7. ASSUME NEW s \in SlotIds, CloseUnpublishedSlot(s)
      PROVE  UnopenedSlots'
  BY <1>3, <1>7 DEF CloseUnpublishedSlot
<1>8. ASSUME NEW s \in SlotIds, FinishSlotClose(s)
      PROVE  UnopenedSlots'
  <2>1. PICK Unclosed \in SUBSET slot[s].clients :
           slot' = [slot EXCEPT ![s] =
                       IF Unclosed = {} THEN NoSlot
                       ELSE [@ EXCEPT !.clients = Unclosed, !.closing = FALSE,
                                      !.close_failed = TRUE]]
    BY <1>8 DEF FinishSlotClose
  <2>2. CASE Unclosed = {}
    BY <1>1, <1>2, <1>8, <2>1, <2>2 DEF FinishSlotClose, TypeOK, NoSlot
  <2>3. CASE Unclosed # {}
    <3>1. slot'[s].open = slot[s].open /\ \A t \in SlotIds \ {s} : slot'[t] = slot[t]
      BY <1>1, <2>1, <2>3 DEF TypeOK, SlotRecord
    <3>. QED  BY <1>1, <1>2, <1>8, <3>1 DEF FinishSlotClose
  <2>. QED  BY <2>2, <2>3
<1>9. ASSUME NEW s \in SlotIds, InstallInitialCandidate(s) \/ PublishCandidate(s)
      PROVE  UnopenedSlots'
  BY <1>1, <1>2, <1>9 DEF InstallInitialCandidate, PublishCandidate, TypeOK, NoSlot
<1>10. CASE RetryFailedCleanup \/ ShutdownDrained
  BY <1>3, <1>10 DEF RetryFailedCleanup, ShutdownDrained, BeginRetrySlots
<1>11. CASE Shutdown
  BY <1>3, <1>11 DEF Shutdown
<1>12. CASE \/ \E p \in Procs :
                  \/ EndRetrySlots(p) \/ TakeRecoveryLock(p)
                  \/ \E g \in Gens : RetryFailedGeneration(p, g)
            \/ \E l \in Leases :
                  \/ AcquireCurrent(l) \/ Release(l)
                  \/ \E g \in Gens : RetainActive(l, g)
                  \/ \E m \in Leases : RetainFromLease(l, m)
            \/ \E g \in Gens : FinishCleanup(g)
            \/ FinishRecovery \/ ShutdownSlotsClosed \/ ShutdownLeasesGone \/ FinishShutdown
            \/ ShutdownAborted \/ UNCHANGED vars
  BY <1>4, <1>12 DEF EndRetrySlots, TakeRecoveryLock, RetryFailedGeneration, AcquireCurrent,
                     RetainActive, RetainFromLease, Acquire, Release, FinishCleanup,
                     FinishRecovery, ShutdownSlotsClosed, ShutdownLeasesGone, FinishShutdown,
                     ShutdownAborted, vars
<1>. QED
  BY <1>5, <1>6, <1>7, <1>8, <1>9, <1>10, <1>11, <1>12 DEF Next

\* A client that was registered and is open always has an owner: it changes
\* owners when its slot is published, and loses its owner only by being closed.
LEMMA LeakStep ==
    ASSUME IInv, TerminalEmpty, UnopenedSlots, NoLeak, [Next]_vars
    PROVE  NoLeak'
<1>. USE RuntimeConstants DEF IInv, procVars
<1>1. ASSUME \A g \in Gens : gen[g].clients \subseteq gen'[g].clients \cup closed',
             \A s \in SlotIds : slot[s].clients \subseteq slot'[s].clients \cup closed',
             closed \subseteq closed', born' = born
      PROVE  NoLeak'
  <2>1. \A c : OwnsHttpClient(c) => c \in closed' \/ OwnsHttpClient(c)'
    BY <1>1 DEF OwnsHttpClient, OwnedByGenerations, OwnedBySlots
  <2>. QED  BY <1>1, <2>1 DEF NoLeak
<1>2. ASSUME NEW n \in Gens, gen[n] = NoGen, NEW s \in SlotIds,
             gen'[n].clients = slot[s].clients,
             \A g \in Gens \ {n} : gen'[g].clients = gen[g].clients,
             \A t \in SlotIds \ {s} : slot'[t] = slot[t],
             UNCHANGED <<closed, born>>
      PROVE  NoLeak'
  <2>1. \A c : OwnsHttpClient(c) => OwnsHttpClient(c)'
    BY <1>2 DEF OwnsHttpClient, OwnedByGenerations, OwnedBySlots, NoGen
  <2>. QED  BY <1>2, <2>1 DEF NoLeak
<1>3. ASSUME NEW g \in Gens, CloseSome(g), UNCHANGED <<slot, born>>
      PROVE  NoLeak'
  <2>1. \A h \in Gens : gen[h].clients \subseteq gen'[h].clients \cup closed'
    BY <1>3 DEF CloseSome
  <2>. QED  BY <1>1, <1>3, <2>1 DEF CloseSome
<1>4. CASE OpenUnpublishedSlot
  <2>1. \A s \in SlotIds \ {nextSlot} : slot'[s] = slot[s]
    BY <1>4 DEF OpenUnpublishedSlot, TypeOK
  <2>2. nextSlot \in SlotIds => slot[nextSlot].clients = {}
    BY DEF TypeOK, SlotIds, UnopenedSlots, TerminalEmpty
  <2>. QED  BY <1>1, <1>4, <2>1, <2>2 DEF OpenUnpublishedSlot
<1>5. ASSUME NEW s \in SlotIds, NEW c \in Clients, RegisterHttpClient(s, c)
      PROVE  NoLeak'
  <2>1. /\ slot'[s].clients = slot[s].clients \cup {c}
        /\ \A t \in SlotIds \ {s} : slot'[t] = slot[t]
        /\ born' = born \cup {c} /\ UNCHANGED <<gen, closed>>
    BY <1>5 DEF RegisterHttpClient, TypeOK, SlotRecord
  <2>2. \A d : OwnsHttpClient(d) => OwnsHttpClient(d)'
    BY <2>1 DEF OwnsHttpClient, OwnedByGenerations, OwnedBySlots
  <2>3. OwnsHttpClient(c)'
    BY <2>1 DEF OwnsHttpClient, OwnedBySlots
  <2>. QED  BY <2>1, <2>2, <2>3 DEF NoLeak
<1>6. ASSUME NEW s \in SlotIds, CloseUnpublishedSlot(s)
      PROVE  NoLeak'
  BY <1>1, <1>6, BeginCloseType DEF CloseUnpublishedSlot, TypeOK
<1>7. ASSUME NEW s \in SlotIds, FinishSlotClose(s)
      PROVE  NoLeak'
  <2>1. PICK Unclosed \in SUBSET slot[s].clients :
           /\ closed' = closed \cup (slot[s].clients \ Unclosed)
           /\ slot' = [slot EXCEPT ![s] =
                          IF Unclosed = {} THEN NoSlot
                          ELSE [@ EXCEPT !.clients = Unclosed, !.closing = FALSE,
                                         !.close_failed = TRUE]]
    BY <1>7 DEF FinishSlotClose
  <2>2. slot'[s].clients = Unclosed /\ \A t \in SlotIds \ {s} : slot'[t] = slot[t]
    BY <2>1 DEF TypeOK, SlotRecord, NoSlot
  <2>3. \A t \in SlotIds : slot[t].clients \subseteq slot'[t].clients \cup closed'
    BY <2>1, <2>2
  <2>. QED  BY <1>1, <1>7, <2>1, <2>3 DEF FinishSlotClose
<1>8. ASSUME NEW s \in SlotIds, InstallInitialCandidate(s)
      PROVE  NoLeak'
  <2>1. 1 \in Gens /\ gen[1] = NoGen /\ UNCHANGED <<closed, born>>
    BY <1>8 DEF InstallInitialCandidate, Fresh, Gens
  <2>. QED  BY <1>2, <1>8, <2>1, InstallEffect
<1>9. ASSUME NEW s \in SlotIds, PublishCandidate(s)
      PROVE  NoLeak'
  <2>1. current # 0 /\ UNCHANGED <<closed, born>>
    BY <1>9 DEF PublishCandidate, ValidatePublish, Fresh
  <2>2. current + 1 \in Gens /\ gen[current + 1] = NoGen
    BY <1>9, <2>1, PublishEffect DEF Fresh, TypeOK
  <2>. QED  BY <1>2, <1>9, <2>1, <2>2, PublishEffect
<1>10. ASSUME NEW l \in Leases, Release(l)
       PROVE  NoLeak'
  <2>1. \A g \in Gens : gen'[g].clients = gen[g].clients
    BY <1>10, ReleaseEffect
  <2>. QED  BY <1>1, <1>10, <2>1 DEF Release
<1>11. ASSUME NEW l \in Leases, NEW g \in Gens, Acquire(l, g)
       PROVE  NoLeak'
  <2>1. \A h \in Gens : gen'[h].clients = gen[h].clients
    BY <1>11, AcquireEffect
  <2>. QED  BY <1>1, <1>11, <2>1 DEF Acquire
<1>12. ASSUME NEW g \in Gens, FinishCleanup(g)
       PROVE  NoLeak'
  BY <1>3, <1>12, FinishCleanupEffect DEF FinishCleanup
<1>13. ASSUME NEW p \in Procs, NEW g \in Gens, RetryFailedGeneration(p, g)
       PROVE  NoLeak'
  <2>1. gen[g].status = "close_failed"
    BY <1>13 DEF RetryFailedGeneration, RecoveryWork, FailedGenerations
  <2>. QED  BY <1>3, <1>13, <2>1, RetryEffect DEF RetryFailedGeneration
<1>14. CASE Shutdown
  BY <1>1, <1>14, ShutdownEffect DEF Shutdown, Fresh
<1>15. CASE ShutdownLeasesGone
  BY <1>1, <1>15, LeasesGoneEffect DEF ShutdownLeasesGone
<1>16. CASE RetryFailedCleanup \/ ShutdownDrained
  BY <1>1, <1>16, BeginCloseType DEF RetryFailedCleanup, ShutdownDrained, BeginRetrySlots, TypeOK
<1>17. CASE \/ \E p \in Procs : EndRetrySlots(p) \/ TakeRecoveryLock(p)
            \/ FinishRecovery \/ ShutdownSlotsClosed \/ FinishShutdown \/ ShutdownAborted
            \/ UNCHANGED vars
  BY <1>1, <1>17 DEF EndRetrySlots, TakeRecoveryLock, FinishRecovery, ShutdownSlotsClosed,
                     FinishShutdown, ShutdownAborted, vars
<1>18. ASSUME NEW l \in Leases,
              \/ AcquireCurrent(l)
              \/ \E g \in Gens : RetainActive(l, g)
              \/ \E m \in Leases : RetainFromLease(l, m)
       PROVE  NoLeak'
  BY <1>11, <1>18 DEF AcquireCurrent, RetainActive, RetainFromLease, Fresh, TypeOK, Gens
<1>. QED
  BY <1>4, <1>5, <1>6, <1>7, <1>8, <1>9, <1>10, <1>12, <1>13, <1>14, <1>15, <1>16, <1>17,
     <1>18 DEF Next

\* A manager that reports "stopped" found no generation and no slot that could
\* still own a client, and lets nobody in afterwards.
LEMMA StoppedStep ==
    ASSUME LeakInv, [Next]_vars
    PROVE  StoppedClean'
<1>. USE RuntimeConstants DEF LeakInv, IInv, NothingLeaks, procVars
<1>1. /\ pc["shutdown"] = "failed" => status = "stopping"
      /\ "shutdown" \in Procs /\ "recovery" \in Procs
  BY DEF ShutdownStatus, Procs
<1>2. ASSUME NothingManaged, FailedGenerations = {}
      PROVE  born \subseteq closed /\ \A l \in Leases : lease[l] = 0
  <2>1. \A g \in Gens : gen[g].status \in {"none", "closed"}
    BY <1>2 DEF NothingManaged, Managed, FailedGenerations, TypeOK, GenerationRecord,
                RuntimeGenerationStatus
  <2>2. OwnedByGenerations = {}
    BY <2>1 DEF OwnedByGenerations, TerminalEmpty
  <2>3. OwnedBySlots = {}
    <3>1. \A s \in SlotIds : slot[s].clients = {}
      BY <1>2 DEF NothingManaged, Unpublished, TerminalEmpty
    <3>. QED  BY <3>1 DEF OwnedBySlots
  <2>4. ASSUME NEW l \in Leases, lease[l] # 0
        PROVE  FALSE
    <3>1. lease[l] \in Gens
      BY <2>4 DEF TypeOK, Gens
    <3>2. gen[lease[l]].status \in {"active", "retired"}
      BY <2>4 DEF LeasedAlive
    <3>. QED  BY <2>1, <3>1, <3>2
  <2>. QED  BY <2>2, <2>3, <2>4 DEF NoLeak, OwnsHttpClient
<1>3. ASSUME status = "stopped", status' = "stopped"
      PROVE  UNCHANGED <<born, lease>> /\ closed \subseteq closed'
  <2>1. status \notin {"new", "running", "stopping"}
    BY <1>3
  <2>2. \A l \in Leases : lease[l] = 0
    BY <1>3 DEF StoppedClean
  <2>. QED
    BY <1>1, <2>1, <2>2
       DEF Next, vars, OpenUnpublishedSlot, RegisterHttpClient, CloseUnpublishedSlot,
           FinishSlotClose, InstallInitialCandidate, PublishCandidate, ValidatePublish,
           AcquireCurrent, RetainActive, RetainFromLease, Release, FinishCleanup,
           EndRetrySlots, TakeRecoveryLock, RetryFailedGeneration, RetryFailedCleanup,
           FinishRecovery, Shutdown, ShutdownSlotsClosed, ShutdownLeasesGone,
           ShutdownDrained, FinishShutdown, ShutdownAborted
<1>4. ASSUME status # "stopped", status' = "stopped"
      PROVE  NothingManaged /\ FailedGenerations = {} /\ UNCHANGED <<born, lease, closed>>
  BY <1>4
     DEF Next, vars, OpenUnpublishedSlot, RegisterHttpClient, CloseUnpublishedSlot,
         FinishSlotClose, InstallInitialCandidate, PublishCandidate, AcquireCurrent,
         RetainActive, RetainFromLease, Acquire, Release, FinishCleanup, EndRetrySlots,
         TakeRecoveryLock, RetryFailedGeneration, RetryFailedCleanup, FinishRecovery,
         Shutdown, ShutdownSlotsClosed, ShutdownLeasesGone, ShutdownDrained,
         FinishShutdown, ShutdownAborted, Recovered
<1>. QED  BY <1>2, <1>3, <1>4 DEF StoppedClean

\* The initial state leaks nothing.
LEMMA LeakInvInit == Init => LeakInv
<1>. SUFFICES ASSUME Init PROVE LeakInv
  OBVIOUS
<1>1. IInv
  BY IInvInit
<1>2. TerminalEmpty /\ UnopenedSlots /\ NoLeak /\ StoppedClean
  BY DEF Init, TerminalEmpty, UnopenedSlots, NoLeak, StoppedClean, NoGen, NoSlot
<1>3. Retiring = {}
  BY DEF Init, Retiring, Managed, NoGen
<1>4. RetiringBound
  BY <1>3, FS_EmptySet, RuntimeConstants DEF RetiringBound
<1>. QED  BY <1>1, <1>2, <1>4 DEF LeakInv, NothingLeaks

\* The retiring generations are bounded, no registered client is lost, and a
\* manager that reports "stopped" has closed every client and holds no lease.
THEOREM NothingEverLeaks == Spec => []NothingLeaks
<1>1. LeakInv /\ [Next]_vars => LeakInv'
  BY IInvStep, TerminalEmptyStep, UnopenedStep, RetiringStep, LeakStep, StoppedStep
     DEF LeakInv, NothingLeaks
<1>2. LeakInv => NothingLeaks
  BY DEF LeakInv
<1>. QED  BY LeakInvInit, <1>1, <1>2, PTL DEF Spec

===========================================================================
