--------------------------- MODULE UploadAdmission ---------------------------
(***************************************************************************)
(* UploadAdmission (services/upload_admission.py): strict-FIFO admission   *)
(* of uploads by weight.  The event loop is single threaded: between the   *)
(* moment a waiter's future is resolved, or its task is cancelled or times *)
(* out, and the moment that task runs, anything else may run.              *)
(***************************************************************************)
EXTENDS Naturals, Sequences, FiniteSets, FiniteSetsExt, SequencesExt

CONSTANTS Uploads, UploadWeight, MaxUploadBytes

ASSUME UploadAssumption == /\ IsFiniteSet(Uploads) /\ MaxUploadBytes \in Nat \ {0}
                           /\ UploadWeight \in [Uploads -> Nat \ {0}]

VARIABLES upTask,    \* where each request's task is
          upFuture,  \* its waiter's future: "none", "pending", "lease" or "closed"
          upQueue, upActive, upClosed

upvars == <<upTask, upFuture, upQueue, upActive, upClosed>>

UPInit == /\ upTask = [u \in Uploads |-> "start"]
          /\ upFuture = [u \in Uploads |-> "none"]
          /\ upQueue = << >> /\ upActive = 0 /\ upClosed = FALSE

Weights(us) == MapThenSumSet(LAMBDA u : UploadWeight[u], us)
Fits(active, w) == active + w <= MaxUploadBytes

\* _drain: grant the longest prefix of the queue that fits.
Drain(queue, active) ==
  LET n == IF upClosed THEN 0
           ELSE Max({k \in 0..Len(queue) : Fits(active, Weights(Range(SubSeq(queue, 1, k))))})
      granted == Range(SubSeq(queue, 1, n))
  IN /\ upQueue' = SubSeq(queue, n + 1, Len(queue))
     /\ upActive' = active + Weights(granted)
     /\ upFuture' = [u \in Uploads |-> IF u \in granted THEN "lease" ELSE upFuture[u]]

\* acquire: at once when nobody waits and it fits, else queued.
AcquireUpload(u) ==
  /\ upTask[u] = "start"
  /\ \/ /\ UploadWeight[u] > MaxUploadBytes \/ upClosed
        /\ upTask' = [upTask EXCEPT ![u] = "done"]
        /\ UNCHANGED <<upFuture, upQueue, upActive>>
     \/ /\ UploadWeight[u] <= MaxUploadBytes /\ ~upClosed
        /\ IF upQueue = << >> /\ Fits(upActive, UploadWeight[u])
           THEN /\ upActive' = upActive + UploadWeight[u]
                /\ upTask' = [upTask EXCEPT ![u] = "holding"]
                /\ UNCHANGED <<upFuture, upQueue>>
           ELSE /\ upQueue' = Append(upQueue, u)
                /\ upFuture' = [upFuture EXCEPT ![u] = "pending"]
                /\ upTask' = [upTask EXCEPT ![u] = "waiting"]
                /\ UNCHANGED upActive
  /\ UNCHANGED upClosed

\* The task runs after its future was resolved.
WakeUpload(u) ==
  /\ upTask[u] = "waiting" /\ upFuture[u] \in {"lease", "closed"}
  /\ upTask' = [upTask EXCEPT ![u] = IF upFuture[u] = "lease" THEN "holding" ELSE "done"]
  /\ UNCHANGED <<upFuture, upQueue, upActive, upClosed>>

\* The timeout fires or the client leaves; the shielded future stays.
InterruptUpload(u) ==
  /\ upTask[u] = "waiting"
  /\ upTask' = [upTask EXCEPT ![u] = "interrupted"]
  /\ UNCHANGED <<upFuture, upQueue, upActive, upClosed>>

\* mutant: a withdrawn waiter leaves the queue without serving the next one
WithdrawOnly(u) ==
  /\ upTask[u] = "interrupted"
  /\ upTask' = [upTask EXCEPT ![u] = "done"]
  /\ \/ /\ \E i \in DOMAIN upQueue : upQueue[i] = u /\ upQueue' = RemoveAt(upQueue, i)
        /\ UNCHANGED <<upActive, upFuture>>
     \/ u \notin Range(upQueue) /\ upFuture[u] = "lease" /\ Drain(upQueue, upActive - UploadWeight[u])
     \/ /\ u \notin Range(upQueue) /\ upFuture[u] # "lease"
        /\ UNCHANGED <<upQueue, upActive, upFuture>>
  /\ UNCHANGED upClosed

\* _withdraw: out of the queue, or the lease granted meanwhile is released.
WithdrawUpload(u) ==
  /\ upTask[u] = "interrupted"
  /\ upTask' = [upTask EXCEPT ![u] = "done"]
  /\ \/ \E i \in DOMAIN upQueue : upQueue[i] = u /\ Drain(RemoveAt(upQueue, i), upActive)
     \/ u \notin Range(upQueue) /\ upFuture[u] = "lease" /\ Drain(upQueue, upActive - UploadWeight[u])
     \/ /\ u \notin Range(upQueue) /\ upFuture[u] # "lease"
        /\ UNCHANGED <<upQueue, upActive, upFuture>>
  /\ UNCHANGED upClosed

\* release, once
ReleaseUpload(u) ==
  /\ upTask[u] = "holding"
  /\ upTask' = [upTask EXCEPT ![u] = "done"]
  /\ Drain(upQueue, upActive - UploadWeight[u])
  /\ UNCHANGED upClosed

\* mutant: close refuses new uploads and forgets the ones that wait
CloseForgetsWaiters ==
  /\ ~upClosed /\ upClosed' = TRUE
  /\ upQueue' = << >>
  /\ UNCHANGED <<upTask, upFuture, upActive>>

\* close: every waiter's future is resolved.
CloseUploads ==
  /\ ~upClosed /\ upClosed' = TRUE
  /\ upFuture' = [u \in Uploads |-> IF u \in Range(upQueue) THEN "closed" ELSE upFuture[u]]
  /\ upQueue' = << >>
  /\ UNCHANGED <<upTask, upActive>>

\* A finished request may be followed by another one of the same weight.
NextUpload(u) ==
  /\ upTask[u] = "done" /\ ~upClosed
  /\ upTask' = [upTask EXCEPT ![u] = "start"]
  /\ upFuture' = [upFuture EXCEPT ![u] = "none"]
  /\ UNCHANGED <<upQueue, upActive, upClosed>>

UPNext == \/ \E u \in Uploads : \/ AcquireUpload(u) \/ WakeUpload(u) \/ InterruptUpload(u)
                                \/ WithdrawUpload(u) \/ ReleaseUpload(u) \/ NextUpload(u)
          \/ CloseUploads

UPSpec == UPInit /\ [][UPNext]_upvars

\* Tasks that can run do run, and an admitted upload ends.
UPFairness == \A u \in Uploads :
  WF_upvars(WakeUpload(u)) /\ WF_upvars(WithdrawUpload(u)) /\ WF_upvars(ReleaseUpload(u))

-----------------------------------------------------------------------------
UploadOwners == {u \in Uploads : \/ upTask[u] = "holding"
                                 \/ upTask[u] \in {"waiting", "interrupted"} /\ upFuture[u] = "lease"}

\* Admitted weight is exactly what somebody holds or has just been granted,
\* whichever of grant, timeout, cancellation and close came first, and is
\* within the limit; free capacity the first waiter needs is never left idle.
UploadsAccounted ==
  /\ upActive = Weights(UploadOwners) /\ upActive <= MaxUploadBytes
  /\ upQueue # << >> => ~upClosed /\ ~Fits(upActive, UploadWeight[Head(upQueue)])

\* Nobody waits for ever: a large upload is not starved by small ones.
UploadServed == \A u \in Uploads : []<>(upTask[u] # "waiting")
=============================================================================
