--------------------------- MODULE StreamCapacity ---------------------------
(***************************************************************************)
(* StreamObservationCapacity and its leases (services/                     *)
(* stream_observation.py): every buffered stream holds one item and the    *)
(* bytes it retains, and merges the lease of each new chunk into its own.  *)
(* A cancelled waiter's future is cancelled at once, its queue entry goes  *)
(* when its task runs or when a drain meets it.                            *)
(***************************************************************************)
EXTENDS Naturals, Sequences, FiniteSets, FiniteSetsExt, SequencesExt

CONSTANTS Chunks,           \* acquisitions
          ChunkSizes,       \* bytes a chunk may have
          MaxItems, MaxBytes

ASSUME CapacityAssumption == /\ IsFiniteSet(Chunks) /\ ChunkSizes \subseteq Nat \ {0}
                             /\ MaxItems \in Nat \ {0} /\ MaxBytes \in Nat \ {0}

VARIABLES scTask,    \* "new", "waiting", "cancelled", "holding" or "done"
          scFuture,  \* "none", "pending", "lease", "cancelled" or "closed"
          scBytes,   \* bytes requested, then _remaining_bytes of the lease
          scItem,    \* _owns_item of the lease
          scQueue, scActive, scClosed

scvars == <<scTask, scFuture, scBytes, scItem, scQueue, scActive, scClosed>>

SCInit == /\ scTask = [c \in Chunks |-> "new"] /\ scFuture = [c \in Chunks |-> "none"]
          /\ scBytes = [c \in Chunks |-> 0] /\ scItem = [c \in Chunks |-> FALSE]
          /\ scQueue = << >> /\ scActive = [items |-> 0, bytes |-> 0] /\ scClosed = FALSE

ChunkFits(active, items, bytes) ==
  active.items + items <= MaxItems /\ active.bytes + bytes <= MaxBytes

\* What cs retain together.
BytesOf(bytes, cs) == MapThenSumSet(LAMBDA c : bytes[c], cs)

\* _drain_waiters: from the head, drop what was cancelled, grant what fits.
DrainChunks(queue, active, items) ==
  LET Waits(k) == {c \in Range(SubSeq(queue, 1, k)) : scFuture[c] = "pending"}
      n == Max({k \in 0..Len(queue) : Waits(k) = {} \/
                  (~scClosed /\ ChunkFits(active, Cardinality(Waits(k)), BytesOf(scBytes, Waits(k))))})
  IN /\ scQueue' = SubSeq(queue, n + 1, Len(queue))
     /\ scActive' = [items |-> active.items + Cardinality(Waits(n)), bytes |-> active.bytes + BytesOf(scBytes, Waits(n))]
     /\ scFuture' = [c \in Chunks |-> IF c \in Waits(n) THEN "lease" ELSE scFuture[c]]
     /\ scItem' = [c \in Chunks |-> items[c] \/ c \in Waits(n)]

\* acquire and try_acquire; only acquire waits.
AcquireChunk(c) ==
  /\ scTask[c] = "new"
  /\ \E b \in ChunkSizes :
       \/ /\ ~scClosed /\ b <= MaxBytes /\ scQueue = << >> /\ ChunkFits(scActive, 1, b)
          /\ scTask' = [scTask EXCEPT ![c] = "holding"]
          /\ scBytes' = [scBytes EXCEPT ![c] = b] /\ scItem' = [scItem EXCEPT ![c] = TRUE]
          /\ scActive' = [items |-> scActive.items + 1, bytes |-> scActive.bytes + b]
          /\ UNCHANGED <<scFuture, scQueue>>
       \/ /\ ~scClosed /\ b <= MaxBytes /\ ~ (scQueue = << >> /\ ChunkFits(scActive, 1, b))
          /\ \/ /\ scTask' = [scTask EXCEPT ![c] = "waiting"]
                /\ scFuture' = [scFuture EXCEPT ![c] = "pending"]
                /\ scBytes' = [scBytes EXCEPT ![c] = b]
                /\ scQueue' = Append(scQueue, c)
             \/ scTask' = [scTask EXCEPT ![c] = "done"] /\ UNCHANGED <<scFuture, scBytes, scQueue>>
          /\ UNCHANGED <<scItem, scActive>>
       \/ /\ scClosed \/ b > MaxBytes
          /\ scTask' = [scTask EXCEPT ![c] = "done"]
          /\ UNCHANGED <<scFuture, scBytes, scQueue, scItem, scActive>>
  /\ UNCHANGED scClosed

WakeChunk(c) ==
  /\ scTask[c] = "waiting" /\ scFuture[c] \in {"lease", "closed"}
  /\ scTask' = [scTask EXCEPT ![c] = IF scFuture[c] = "lease" THEN "holding" ELSE "done"]
  /\ UNCHANGED <<scFuture, scBytes, scItem, scQueue, scActive, scClosed>>

\* Task cancellation reaches a pending future at once, a resolved one too late.
CancelChunk(c) ==
  /\ scTask[c] = "waiting"
  /\ scTask' = [scTask EXCEPT ![c] = "cancelled"]
  /\ scFuture' = [scFuture EXCEPT ![c] = IF @ = "pending" THEN "cancelled" ELSE @]
  /\ UNCHANGED <<scBytes, scItem, scQueue, scActive, scClosed>>

Less(c, bytes, item) == [items |-> scActive.items - (IF item THEN 1 ELSE 0),
                         bytes |-> scActive.bytes - bytes]
Without(c) == [scItem EXCEPT ![c] = FALSE]

\* The queue after waiters.remove(c), if c is in it.
Dequeued(c) == IF c \in Range(scQueue) THEN RemoveAt(scQueue, CHOOSE i \in DOMAIN scQueue : scQueue[i] = c) ELSE scQueue

\* mutant: a lease granted before the cancellation is not given back
CancelForgetsLease(c) ==
  /\ scTask[c] = "cancelled"
  /\ scTask' = [scTask EXCEPT ![c] = "done"]
  /\ DrainChunks(Dequeued(c), scActive, scItem)
  /\ UNCHANGED <<scBytes, scClosed>>

\* _cancel_waiter, when the cancelled task runs.
CancelWaiter(c) ==
  /\ scTask[c] = "cancelled"
  /\ scTask' = [scTask EXCEPT ![c] = "done"]
  /\ \/ /\ scFuture[c] = "lease"
        /\ DrainChunks(scQueue, Less(c, scBytes[c], TRUE), Without(c))
        /\ scBytes' = [scBytes EXCEPT ![c] = 0]
     \/ /\ scFuture[c] # "lease"
        /\ DrainChunks(Dequeued(c), scActive, scItem)
        /\ UNCHANGED scBytes
  /\ UNCHANGED scClosed

\* absorb: both items are released, the bytes move to the first lease.
AbsorbChunk(c, d) ==
  /\ c # d /\ scTask[c] = "holding" /\ scTask[d] = "holding" /\ scBytes[d] > 0
  /\ LET freed == {e \in {c, d} : scItem[e]} IN
     DrainChunks(scQueue, [scActive EXCEPT !.items = @ - Cardinality(freed)],
                 [e \in Chunks |-> scItem[e] /\ e \notin freed])
  /\ scBytes' = [scBytes EXCEPT ![c] = scBytes[c] + scBytes[d], ![d] = 0]
  /\ scTask' = [scTask EXCEPT ![d] = "done"]
  /\ UNCHANGED scClosed

\* consume: some bytes, or all of them and the item.
ConsumeChunk(c) ==
  /\ scTask[c] = "holding"
  /\ \E b \in 1..scBytes[c] :
       /\ DrainChunks(scQueue, Less(c, b, b = scBytes[c] /\ scItem[c]),
                      IF b = scBytes[c] THEN Without(c) ELSE scItem)
       /\ scBytes' = [scBytes EXCEPT ![c] = @ - b]
       /\ scTask' = [scTask EXCEPT ![c] = IF b = scBytes[c] THEN "done" ELSE @]
  /\ UNCHANGED scClosed

ReleaseAll(c) ==
  /\ scTask[c] = "holding"
  /\ DrainChunks(scQueue, Less(c, scBytes[c], scItem[c]), Without(c))
  /\ scBytes' = [scBytes EXCEPT ![c] = 0] /\ scTask' = [scTask EXCEPT ![c] = "done"]
  /\ UNCHANGED scClosed

CloseCapacity ==
  /\ ~scClosed /\ scClosed' = TRUE /\ scQueue' = << >>
  /\ scFuture' = [c \in Chunks |-> IF c \in Range(scQueue) /\ scFuture[c] = "pending"
                                   THEN "closed" ELSE scFuture[c]]
  /\ UNCHANGED <<scTask, scBytes, scItem, scActive>>

SCNext == \/ \E c \in Chunks : \/ AcquireChunk(c) \/ WakeChunk(c) \/ CancelChunk(c) \/ CancelWaiter(c)
                               \/ ConsumeChunk(c) \/ ReleaseAll(c)
                               \/ \E d \in Chunks : AbsorbChunk(c, d)
          \/ CloseCapacity
SCSpec == SCInit /\ [][SCNext]_scvars

-----------------------------------------------------------------------------
LeaseOwners == {c \in Chunks : \/ scTask[c] = "holding"
                               \/ scTask[c] \in {"waiting", "cancelled"} /\ scFuture[c] = "lease"}

\* The process-wide counters are what the live leases own, through merges,
\* partial consumption and cancellations that lose the race with a grant; they
\* stay in their limits, and a waiter that fits is never left behind.
CapacityAccounted ==
  /\ scActive.bytes = BytesOf(scBytes, LeaseOwners)
  /\ scActive.items = Cardinality({c \in LeaseOwners : scItem[c]})
  /\ scActive.items <= MaxItems /\ scActive.bytes <= MaxBytes
  /\ scQueue # << >> => LET h == Head(scQueue) IN
       scFuture[h] = "pending" => ~ChunkFits(scActive, 1, scBytes[h])
=============================================================================
