--------------------------- MODULE WriteBatcher ---------------------------
(***************************************************************************)
(* WriteBatcher of llm_gateway_core/db/write_batcher.py: a bounded,        *)
(* thread-safe batching queue in front of SQLite.  Producers call enqueue  *)
(* on the owner event loop or on any other thread (a handoff that the loop *)
(* completes later); one consumer task gathers batches and flushes them; a *)
(* failing batch is split until the failing rows are alone, and those go   *)
(* to the dead-letter file.  Bodies under _state_lock are one step;        *)
(* everything else interleaves at awaits and between threads.              *)
(*                                                                         *)
(* An item is <<producer, n>>, the n-th write of that producer.            *)
(***************************************************************************)
EXTENDS Naturals, Sequences, FiniteSets, SequencesExt

CONSTANTS
    LoopProducers,    \* producers that run on the owner event loop
    ThreadProducers,  \* producers on other threads
    MaxWrites,        \* bound: enqueue calls per producer
    Capacity,         \* queue_maxsize
    BatchSize         \* batch_size

ASSUME BatcherConstants ==
    /\ LoopProducers \cap ThreadProducers = {}
    /\ MaxWrites \in Nat \ {0}
    /\ Capacity \in Nat \ {0}
    /\ BatchSize \in Nat \ {0}

VARIABLES
    state,           \* _state
    accepting,       \* _accepting
    consumerFailed,  \* _consumer_failed
    preStart,        \* _pre_start_buffer
    handoff,         \* _handoff_items, in the order of their callbacks
    queue,           \* _queue
    queued,          \* _queued
    inFlight,        \* _in_flight
    batch,           \* current_batch, or the direct batch of _stop_impl
    pending,         \* the sub-batches _flush_or_split has still to write
    accepted,        \* _accepted
    committed,       \* _committed
    diagnostic,      \* _diagnostic_terminal
    consumer,        \* none | get | flush | done
    stopAfterBatch,  \* the _STOP sentinel ended the current batch
    stopper,         \* none | called | handoff | direct | join | done
    loopOpen,        \* the owner event loop has not been closed
    calls,           \* enqueue calls each producer has made
    admitted,        \* items enqueue accepted
    rows,            \* rows of the database, in commit order
    deadLetters,     \* items given to _write_dead_letter
    inDoubt          \* items of a write that was cancelled while committing

counters == <<accepted, committed, diagnostic>>
ghosts == <<rows, deadLetters, inDoubt>>
vars == <<state, accepting, consumerFailed, preStart, handoff, queue, queued, inFlight,
          batch, pending, counters, consumer, stopAfterBatch, stopper, calls, admitted, ghosts,
          loopOpen>>

WriteBatcherState == {"new", "running", "stopping", "stopped", "failed"}
Producers == LoopProducers \cup ThreadProducers
Items == Producers \X (1 .. MaxWrites)
STOP == <<"stop", 0>>

Reserved == Len(preStart) + Len(handoff) + queued + inFlight

Init ==
    /\ state = "new" /\ accepting = TRUE /\ consumerFailed = FALSE
    /\ preStart = <<>> /\ handoff = <<>> /\ queue = <<>>
    /\ queued = 0 /\ inFlight = 0
    /\ batch = <<>> /\ pending = <<>>
    /\ accepted = 0 /\ committed = 0 /\ diagnostic = 0
    /\ consumer = "none" /\ stopAfterBatch = FALSE /\ stopper = "none"
    /\ calls = [p \in Producers |-> 0]
    /\ admitted = {}
    /\ rows = <<>> /\ deadLetters = {} /\ inDoubt = {}
    /\ loopOpen = TRUE

---------------------------------------------------------------------------
\* start() moves the buffer to the queue and creates the consumer.
Start ==
    /\ loopOpen
    /\ state = "new"
    /\ queue' = queue \o preStart
    /\ queued' = queued + Len(preStart)
    /\ preStart' = <<>>
    /\ state' = "running"
    /\ consumer' = "get"
    /\ UNCHANGED <<accepting, consumerFailed, handoff, inFlight, batch, pending, counters,
                   stopAfterBatch, stopper, calls, admitted, ghosts, loopOpen>>

OverCapacity == Reserved <= Capacity                              \* mutant
HasCapacity == Reserved < Capacity

Admits == accepting /\ state \in {"new", "running"}
ItemOf(p) == <<p, calls[p] + 1>>

\* enqueue on a batcher that accepts and has room.
EnqueueAccepts(p) ==
    /\ Admits /\ HasCapacity
    /\ accepted' = accepted + 1
    /\ admitted' = admitted \cup {ItemOf(p)}
    /\ \/ /\ state = "new"
          /\ preStart' = Append(preStart, ItemOf(p))
          /\ UNCHANGED <<queue, queued, handoff>>
       \/ /\ state = "running" /\ p \in LoopProducers /\ loopOpen
          /\ queue' = Append(queue, ItemOf(p))
          /\ queued' = queued + 1
          /\ UNCHANGED <<preStart, handoff>>
       \/ /\ state = "running" /\ p \in ThreadProducers /\ loopOpen
          /\ handoff' = Append(handoff, ItemOf(p))
          /\ UNCHANGED <<preStart, queue, queued>>
    /\ UNCHANGED <<state, accepting, consumerFailed, diagnostic, deadLetters>>

\* call_soon_threadsafe raises on the closed loop: every handoff is stranded.
EnqueueStrands(p) ==
    /\ Admits /\ HasCapacity
    /\ state = "running" /\ p \in ThreadProducers /\ ~ loopOpen
    /\ accepted' = accepted + 1
    /\ admitted' = admitted \cup {ItemOf(p)}
    /\ handoff' = <<>>
    /\ diagnostic' = diagnostic + Len(handoff) + 1
    /\ deadLetters' = deadLetters \cup ToSet(handoff) \cup {ItemOf(p)}
    /\ state' = "failed" /\ accepting' = FALSE /\ consumerFailed' = TRUE
    /\ UNCHANGED <<preStart, queue, queued>>

\* A refused call leaves no trace, except that an overload writes the item,
\* which was never accepted, to the dead-letter file.
EnqueueRefuses(p) ==
    /\ ~ (Admits /\ HasCapacity)
    /\ deadLetters' = IF Admits THEN deadLetters \cup {ItemOf(p)} ELSE deadLetters
    /\ UNCHANGED <<state, accepting, consumerFailed, accepted, diagnostic, admitted, preStart,
                   queue, queued, handoff>>

Enqueue(p) ==
    /\ calls[p] < MaxWrites
    /\ EnqueueAccepts(p) \/ EnqueueStrands(p) \/ EnqueueRefuses(p)
    /\ calls' = [calls EXCEPT ![p] = @ + 1]
    /\ UNCHANGED <<inFlight, batch, pending, committed, consumer, stopAfterBatch, stopper,
                   rows, inDoubt, loopOpen>>

\* The handoff callback runs on the loop.
CompleteHandoff ==
    /\ loopOpen
    /\ handoff # <<>>
    /\ handoff' = Tail(handoff)
    /\ \/ /\ consumerFailed
          /\ diagnostic' = diagnostic + 1
          /\ deadLetters' = deadLetters \cup {Head(handoff)}
          /\ UNCHANGED <<queue, queued>>
       \/ /\ ~ consumerFailed
          /\ queue' = Append(queue, Head(handoff))
          /\ queued' = queued + 1
          /\ UNCHANGED <<diagnostic, deadLetters>>
    /\ UNCHANGED <<state, accepting, consumerFailed, preStart, inFlight, batch, pending,
                   accepted, committed, consumer, stopAfterBatch, stopper, calls, admitted,
                   rows, inDoubt, loopOpen>>

---------------------------------------------------------------------------
(* The consumer.                                                           *)

\* The items the consumer takes in one go: up to BatchSize, ending early at
\* the end of the queue or at the sentinel.
Gathered ==
    LET Whole(n) == n <= Len(queue) /\ \A i \in 1 .. n : queue[i] # STOP
        size == CHOOSE n \in 1 .. BatchSize :
                    Whole(n) /\ (n = BatchSize \/ ~ Whole(n + 1))
    IN  SubSeq(queue, 1, size)

SentinelLost(met) == FALSE                                        \* mutant
\* stop_after_batch, when the gather loop met the sentinel.
StopsAfter(met) == met

WaitsForFullBatch == Len(queue) >= BatchSize                      \* mutant
\* await queue.get() returns as soon as anything is queued.
ItemReady == queue # <<>>

GatherBatch ==
    /\ loopOpen
    /\ consumer = "get" /\ ItemReady /\ Head(queue) # STOP
    /\ LET got == Gathered
           n == Len(got)
           met == n < BatchSize /\ n < Len(queue)    \* then queue[n + 1] = STOP
       IN  /\ batch' = got
           /\ pending' = <<got>>
           /\ queue' = SubSeq(queue, IF met THEN n + 2 ELSE n + 1, Len(queue))
           /\ queued' = queued - n
           /\ inFlight' = inFlight + n
           /\ stopAfterBatch' = StopsAfter(met)
    /\ consumer' = "flush"
    /\ UNCHANGED <<state, accepting, consumerFailed, preStart, handoff, counters, stopper,
                   calls, admitted, ghosts, loopOpen>>

\* The consumer returns, at the sentinel or after the last batch.
StoppedUnlessFailed(s) == IF s = "failed" THEN "failed" ELSE "stopped"

ConsumerMeetsStop ==
    /\ loopOpen
    /\ consumer = "get" /\ ItemReady /\ Head(queue) = STOP
    /\ queue' = Tail(queue)
    /\ consumer' = "done"
    /\ state' = StoppedUnlessFailed(state)
    /\ UNCHANGED <<accepting, consumerFailed, preStart, handoff, queued, inFlight, batch,
                   pending, counters, stopAfterBatch, stopper, calls, admitted, ghosts,
                   loopOpen>>

Flushing == consumer = "flush" \/ stopper = "direct"

\* What follows a flush that leaves rest to write; st is the state so far.
AfterFlush(rest, st) ==
    /\ pending' = rest
    /\ batch' = IF rest = <<>> THEN <<>> ELSE batch
    /\ \/ /\ rest # <<>>
          /\ state' = st
          /\ UNCHANGED <<consumer, stopper>>
       \/ /\ rest = <<>> /\ consumer = "flush"
          /\ consumer' = IF stopAfterBatch THEN "done" ELSE "get"
          /\ state' = IF stopAfterBatch THEN StoppedUnlessFailed(st) ELSE st
          /\ UNCHANGED stopper
       \/ /\ rest = <<>> /\ consumer # "flush"
          /\ stopper' = "done"
          /\ state' = StoppedUnlessFailed(st)
          /\ UNCHANGED consumer

\* _flush_once succeeds: the whole sub-batch is one transaction.
FlushCommits ==
    /\ loopOpen /\ Flushing
    /\ rows' = rows \o Head(pending)
    /\ inFlight' = inFlight - Len(Head(pending))
    /\ committed' = committed + Len(Head(pending))
    /\ AfterFlush(Tail(pending), state)
    /\ UNCHANGED <<accepting, consumerFailed, preStart, handoff, queue, queued, accepted,
                   diagnostic, stopAfterBatch, calls, admitted, deadLetters, inDoubt, loopOpen>>

\* mutant: the halves are written in the wrong order.
HalvesSwapped(b) ==
    <<SubSeq(b, Len(b) \div 2 + 1, Len(b)), SubSeq(b, 1, Len(b) \div 2)>>
Halves(b) ==
    <<SubSeq(b, 1, Len(b) \div 2), SubSeq(b, Len(b) \div 2 + 1, Len(b))>>

\* _flush_once fails and rolled back: split, or give the single row up.
FlushSplits ==
    /\ loopOpen /\ Flushing
    /\ Len(Head(pending)) > 1
    /\ pending' = Halves(Head(pending)) \o Tail(pending)
    /\ UNCHANGED <<state, accepting, consumerFailed, preStart, handoff, queue, queued, inFlight,
                   batch, counters, consumer, stopAfterBatch, stopper, calls, admitted, ghosts,
                   loopOpen>>

FlushGivesUp ==
    /\ loopOpen /\ Flushing
    /\ Len(Head(pending)) = 1
    /\ inFlight' = inFlight - 1
    /\ diagnostic' = diagnostic + 1
    /\ accepting' = FALSE
    /\ deadLetters' = deadLetters \cup {Head(pending)[1]}
    /\ AfterFlush(Tail(pending), "failed")
    /\ UNCHANGED <<consumerFailed, preStart, handoff, queue, queued, accepted, committed,
                   stopAfterBatch, calls, admitted, rows, inDoubt, loopOpen>>

---------------------------------------------------------------------------
(* Failure of the writer.                                                  *)

WholeBatch(b, n) == ToSet(b)                                      \* mutant
\* The part of the current batch not yet accounted for: its last n items.
Unsettled(b, n) == ToSet(SubSeq(b, Len(b) - n + 1, Len(b)))

\* _terminalize_writer_failure, after a cancellation (or another
\* BaseException) of the consumer or of the direct flush.  A flush cancelled
\* at its commit may have become durable.
WriterCancelled ==
    /\ loopOpen
    /\ consumer \in {"get", "flush"} \/ stopper = "direct"
    /\ \E durable \in BOOLEAN :
          LET hit == IF durable /\ pending # <<>> THEN Head(pending) ELSE <<>>
          IN  /\ rows' = rows \o hit
              /\ inDoubt' = inDoubt \cup ToSet(hit)
    /\ deadLetters' = deadLetters \cup Unsettled(batch, inFlight)
                        \cup (ToSet(queue) \ {STOP}) \cup ToSet(preStart) \cup ToSet(handoff)
    /\ diagnostic' = diagnostic + Reserved
    /\ inFlight' = 0 /\ queued' = 0
    /\ queue' = <<>> /\ preStart' = <<>> /\ handoff' = <<>>
    /\ batch' = <<>> /\ pending' = <<>>
    /\ state' = "failed" /\ accepting' = FALSE /\ consumerFailed' = TRUE
    /\ consumer' = IF consumer = "none" THEN "none" ELSE "done"
    /\ stopper' = IF stopper = "direct" THEN "done" ELSE stopper
    /\ UNCHANGED <<accepted, committed, stopAfterBatch, calls, admitted, loopOpen>>

\* The owner loop is closed under the writer; nothing on it runs again.
LoopCloses ==
    /\ loopOpen
    /\ loopOpen' = FALSE
    /\ UNCHANGED <<state, accepting, consumerFailed, preStart, handoff, queue, queued, inFlight,
                   batch, pending, counters, consumer, stopAfterBatch, stopper, calls, admitted,
                   ghosts>>

---------------------------------------------------------------------------
(* stop() and the one _stop_impl task all its callers share.               *)

Stop ==
    /\ loopOpen
    /\ stopper = "none"
    /\ stopper' = "called"
    /\ UNCHANGED <<state, accepting, consumerFailed, preStart, handoff, queue, queued, inFlight,
                   batch, pending, counters, consumer, stopAfterBatch, calls, admitted, ghosts,
                   loopOpen>>

StopSkipsHandoffs == TRUE                                         \* mutant
StopSeesNoHandoff == handoff = <<>>

\* The sentinel follows everything accepted; without a consumer the stop is
\* over.
SendSentinel(st) ==
    /\ queue' = IF consumer \in {"get", "flush"} THEN Append(queue, STOP) ELSE queue
    /\ stopper' = IF consumer = "none" THEN "done" ELSE "join"
    /\ state' = IF consumer = "none" THEN StoppedUnlessFailed(st) ELSE st

StopBegins ==
    /\ loopOpen
    /\ stopper = "called"
    /\ accepting' = FALSE
    /\ LET st == IF state \in {"new", "running"} THEN "stopping" ELSE state
       IN  \/ /\ consumer = "none" /\ preStart # <<>>
              /\ batch' = preStart /\ pending' = <<preStart>>
              /\ preStart' = <<>>
              /\ inFlight' = inFlight + Len(preStart)
              /\ stopper' = "direct" /\ state' = st
              /\ UNCHANGED queue
           \/ /\ consumer # "none" \/ preStart = <<>>
              /\ ~ StopSeesNoHandoff
              /\ stopper' = "handoff" /\ state' = st
              /\ UNCHANGED <<batch, pending, preStart, inFlight, queue>>
           \/ /\ consumer # "none" \/ preStart = <<>>
              /\ StopSeesNoHandoff
              /\ SendSentinel(st)
              /\ UNCHANGED <<batch, pending, preStart, inFlight>>
    /\ UNCHANGED <<consumerFailed, handoff, queued, counters, consumer, stopAfterBatch, calls,
                   admitted, ghosts, loopOpen>>

\* The handoff waiter is resolved once no handoff is left.
StopHandoffsDone ==
    /\ loopOpen
    /\ stopper = "handoff" /\ handoff = <<>>
    /\ SendSentinel(state)
    /\ UNCHANGED <<accepting, consumerFailed, preStart, handoff, queued, inFlight, batch, pending,
                   counters, consumer, stopAfterBatch, calls, admitted, ghosts, loopOpen>>

StopJoins ==
    /\ loopOpen
    /\ stopper = "join" /\ consumer = "done"
    /\ stopper' = "done"
    /\ state' = StoppedUnlessFailed(state)
    /\ UNCHANGED <<accepting, consumerFailed, preStart, handoff, queue, queued, inFlight, batch,
                   pending, counters, consumer, stopAfterBatch, calls, admitted, ghosts, loopOpen>>

---------------------------------------------------------------------------
Next ==
    \/ Start
    \/ \E p \in Producers : Enqueue(p)
    \/ CompleteHandoff
    \/ GatherBatch
    \/ ConsumerMeetsStop
    \/ FlushCommits
    \/ FlushSplits
    \/ FlushGivesUp
    \/ WriterCancelled
    \/ LoopCloses
    \/ Stop
    \/ StopBegins
    \/ StopHandoffsDone
    \/ StopJoins

\* The loop runs its ready callbacks and tasks.
Fairness ==
    /\ WF_vars(CompleteHandoff)
    /\ WF_vars(GatherBatch)
    /\ WF_vars(ConsumerMeetsStop)
    /\ WF_vars(FlushCommits \/ FlushSplits \/ FlushGivesUp)
    /\ WF_vars(StopBegins)
    /\ WF_vars(StopHandoffsDone)
    /\ WF_vars(StopJoins)

Spec == Init /\ [][Next]_vars
FairSpec == Spec /\ Fairness

---------------------------------------------------------------------------
(* Properties.                                                             *)

\* Every variable of the batcher stays in its type.
TypeOK ==
    /\ state \in WriteBatcherState
    /\ {accepting, consumerFailed, stopAfterBatch, loopOpen} \subseteq BOOLEAN
    /\ ToSet(preStart) \cup ToSet(handoff) \cup ToSet(batch) \cup ToSet(rows) \subseteq Items
    /\ ToSet(queue) \subseteq Items \cup {STOP}
    /\ \A i \in DOMAIN pending : ToSet(pending[i]) \subseteq Items /\ pending[i] # <<>>
    /\ {queued, inFlight, accepted, committed, diagnostic} \subseteq Nat
    /\ consumer \in {"none", "get", "flush", "done"}
    /\ stopper \in {"none", "called", "handoff", "direct", "join", "done"}
    /\ calls \in [Producers -> 0 .. MaxWrites]
    /\ admitted \cup deadLetters \cup inDoubt \subseteq Items

QueuedItems == SelectSeq(queue, LAMBDA x : x # STOP)
Live == preStart \o handoff \o QueuedItems \o FlattenSeq(pending)

\* The two invariants health_snapshot asserts, at every moment and not only
\* when health is read: the reserved count is the number of live items and
\* within capacity, every accepted item is committed, diagnosed or reserved,
\* and the queue (capacity + 1, for the sentinel) never overflows.
HealthInvariant ==
    /\ TypeOK
    /\ Reserved = Len(Live)
    /\ Reserved <= Capacity
    /\ accepted = committed + diagnostic + Reserved
    /\ Len(queue) <= Capacity + 1

\* No accepted item is lost or written twice: it is live in one place, a row,
\* or a dead letter, and only a write cancelled at its commit may be both.
ExactlyOnce ==
    /\ IsInjective(Live \o rows)
    /\ admitted \subseteq ToSet(Live) \cup ToSet(rows) \cup deadLetters
    /\ ToSet(Live) \cap deadLetters = {}
    /\ ToSet(rows) \cap deadLetters \subseteq inDoubt

\* The rows of one producer are committed in the order it enqueued them,
\* through handoffs, batching, splitting and restarts of a failed flush.
ProducerOrder ==
    \A i, j \in DOMAIN rows :
        i < j /\ rows[i][1] = rows[j][1] => rows[i][2] < rows[j][2]

\* _assert_terminal_locked never fires, and what it stands for holds: when
\* stop() returns every accepted item is a row or a dead letter.
StopReport ==
    stopper = "done" =>
        /\ Reserved = 0
        /\ accepted = committed + diagnostic
        /\ admitted \subseteq ToSet(rows) \cup deadLetters

\* Every accepted item is live in one place until it is a row or a dead letter,
\* never two rows; the rows of a producer come in its order; what a stop and a
\* health report say of the counters is true.
WritesKept == HealthInvariant /\ ExactlyOnce /\ ProducerOrder /\ StopReport

\* A stop was asked for and has not ended, or the writer runs and an accepted
\* item is neither a row nor a dead letter, while the loop is open.
WritesPending ==
    /\ loopOpen
    /\ \/ stopper \notin {"none", "done"}
       \/ consumer # "none" /\ ~(admitted \subseteq ToSet(rows) \cup deadLetters)

===========================================================================
