--------------------------- MODULE ChunkObserver ---------------------------
(***************************************************************************)
(* ChunkProcessor of middleware/chat_logging.py: every response body is    *)
(* copied, chunk by chunk and before the client gets it, into the queue of *)
(* a background task that frames and reads it.  All streams of the process *)
(* share one StreamObservationCapacity, so a producer that waits for room  *)
(* holds up its client: no stream may wait for what it, or a stream that   *)
(* waits for it, owns.  The text that is read is left out; a framer        *)
(* consumes some of the bytes it retains, or refuses them.  The capacity   *)
(* is the one of StreamCapacity, seen from the owners of its leases.       *)
(***************************************************************************)
EXTENDS Naturals, Sequences, FiniteSets, FiniteSetsExt, SequencesExt

CONSTANTS Streams,
          ObserverItems, ObserverBytes,   \* the capacity
          QueueMax,                       \* STREAM_CHUNK_QUEUE_MAXSIZE
          BodySizes,                      \* bytes of a chunk
          Gzipped,                        \* streams that may be compressed
          EventLimit,                     \* stream_event_max_bytes, what a gzip step leases
          MaxLeases                       \* leases a stream asks for

VARIABLE co   \* st: the streams, used: what is leased, waiters, granted: futures of the capacity

ABORT == [mark |-> "abort", bytes |-> 0]
END == [mark |-> "end", bytes |-> 0]
Chunk(b) == [mark |-> "chunk", bytes |-> b]

COInit ==
  co = [st |-> [s \in Streams |->
                  [pc |-> "idle",          \* "idle", "progress", "capacity", "leaving", "put" or "over"
                   want |-> 0, use |-> "none",
                   gzip |-> "unknown",     \* "unknown", "plain", "gzip" or "complete"
                   probe |-> 0, queue |-> << >>, retained |-> 0,
                   owned |-> 0,            \* _owned_observation_bytes
                   failed |-> FALSE, event |-> FALSE,
                   proc |-> "running",     \* "running", "ended" or "cancelled"
                   finishing |-> FALSE, finished |-> FALSE, leases |-> 0]],
        used |-> [items |-> 0, bytes |-> 0], waiters |-> << >>, granted |-> {}]

Queued(st) == Cardinality({i \in DOMAIN st.queue : st.queue[i].mark = "chunk"})
QueuedBytes(st) == MapThenSumSet(LAMBDA i : st.queue[i].bytes, DOMAIN st.queue)

\* A lease, or part of one, goes back: the waiters that now fit are granted in turn.
GiveBack(c, items, bytes) ==
  LET used == [items |-> c.used.items - items, bytes |-> c.used.bytes - bytes]
      Want(k) == MapThenSumSet(LAMBDA i : c.st[c.waiters[i]].want, 1..k)
      n == Max({k \in 0..Len(c.waiters) : k = 0 \/ (used.items + k <= ObserverItems
                                                    /\ used.bytes + Want(k) <= ObserverBytes)})
      served == Range(SubSeq(c.waiters, 1, n))
  IN IF c.waiters = << >> THEN [c EXCEPT !.used = used] ELSE
     [c EXCEPT !.granted = @ \cup served,
               !.used = [items |-> used.items + n, bytes |-> used.bytes + Want(n)],
               !.waiters = SubSeq(@, n + 1, Len(@))]

\* _release_owned_lease
ReleaseOwned(c, s, items, bytes) == GiveBack([c EXCEPT !.st[s].owned = @ - bytes], items, bytes)

DropProbe(c, s) ==
  IF c.st[s].probe = 0 THEN c ELSE ReleaseOwned([c EXCEPT !.st[s].probe = 0], s, 1, 1)

\* _fail_observation
FailObservation(c, s) ==
  DropProbe([c EXCEPT !.st[s].failed = TRUE,
                      !.st[s].queue = IF Len(@) < QueueMax THEN Append(@, ABORT) ELSE @], s)

\* _publish_observed_chunk
PublishObserved(c, s, b, allow, owned) ==
  LET st == c.st[s]
      Drop(d) == IF owned THEN ReleaseOwned(d, s, 1, b) ELSE GiveBack(d, 1, b) IN
  IF st.failed \/ st.finished \/ (st.finishing /\ ~allow) \/ st.proc # "running" THEN Drop(c)
  ELSE IF Len(st.queue) >= QueueMax THEN FailObservation(Drop(c), s)
  ELSE [c EXCEPT !.st[s].queue = Append(@, Chunk(b)), !.st[s].owned = IF owned THEN @ ELSE @ + b]

Pause(c, s, pc) == [c EXCEPT !.st[s].pc = pc]

\* A lease arrives: what the probe, a plain chunk or a gzip step does with it.
\* Results the decompressor may give: broken or trailing data, no output, or
\* some; with the end of the stream, more to do (TRUE) or nothing left.
UseLease(c, s) ==
  LET st == c.st[s]
      d == [c EXCEPT !.st[s].pc = "idle", !.st[s].want = 0, !.granted = @ \ {s}]
      Then(x) == \/ co' = x
                 \/ ~x.st[s].failed /\ co' = [x EXCEPT !.st[s].gzip = "complete"]
                 \/ ~x.st[s].failed /\ x.st[s].leases < MaxLeases /\ co' = Pause(x, s, "again") IN
  \/ st.use = "probe" /\ co' = [d EXCEPT !.st[s].probe = 1, !.st[s].owned = @ + 1]
  \/ st.use = "plain" /\ co' = PublishObserved(d, s, st.want, FALSE, FALSE)
  \/ st.use = "gzip" /\ co' = FailObservation(GiveBack(d, 1, st.want), s)
  \/ st.use = "gzip" /\ Then(GiveBack(d, 1, st.want))
  \/ /\ st.use = "gzip"
     /\ \E b \in 1..st.want : Then(PublishObserved(GiveBack(d, 0, st.want - b), s, b, FALSE, FALSE))

\* mutant: a stream that retains part of an event waits for room like any other
WaitRetaining(c, s) ==
  LET st == c.st[s]
      full == c.used.bytes + st.want > ObserverBytes
      pressed == c.waiters # << >> \/ c.used.items >= ObserverItems \/ full IN
  CASE st.want > ObserverBytes -> "fail"
    [] st.want <= ObserverBytes /\ st.owned > 0 /\ pressed /\ Queued(st) > 0 -> "progress"
    [] OTHER -> IF pressed THEN "capacity" ELSE "now"

\* _acquire_observation_lease: wait for the stream's own queue, give up, wait for
\* the capacity, or be served.
AcquireVerdict(c, s) ==
  LET st == c.st[s]
      full == c.used.bytes + st.want > ObserverBytes
      pressed == c.waiters # << >> \/ c.used.items >= ObserverItems \/ full IN
  CASE st.want > ObserverBytes -> "fail"
    [] st.want <= ObserverBytes /\ st.owned > 0 /\ pressed /\ Queued(st) > 0 -> "progress"
    [] st.want <= ObserverBytes /\ ~(st.owned > 0 /\ pressed /\ Queued(st) > 0)
         /\ st.retained > 0 /\ (c.waiters # << >> \/ full) -> "fail"
    [] OTHER -> IF pressed THEN "capacity" ELSE "now"

AcquireWanted(c, s) ==
  LET v == AcquireVerdict(c, s) IN
  \/ v = "fail" /\ co' = [FailObservation(c, s) EXCEPT !.st[s].pc = "idle", !.st[s].want = 0]
  \/ v = "progress" /\ co' = [c EXCEPT !.st[s].pc = "progress", !.st[s].event = FALSE]
  \/ v = "capacity" /\ co' = [c EXCEPT !.st[s].pc = "capacity", !.waiters = Append(@, s)]
  \/ v = "now" /\ UseLease([c EXCEPT !.used.items = @ + 1, !.used.bytes = @ + c.st[s].want], s)

\* _acquire_observation_lease for b bytes.
AcquireObservation(c, s, use, b) ==
  AcquireWanted([c EXCEPT !.st[s].use = use, !.st[s].want = b, !.st[s].leases = @ + 1], s)

\* enqueue_chunk, until it returns or waits.
EnqueueChunk(s) ==
  LET st == co.st[s] IN
  /\ st.pc = "idle" /\ ~st.finishing /\ ~st.failed /\ st.leases < MaxLeases
  /\ \/ st.proc # "running" /\ co' = [co EXCEPT !.st[s].failed = TRUE]
     \/ st.proc = "running" /\ st.gzip = "complete" /\ co' = FailObservation(co, s)
     \/ /\ st.proc = "running" /\ st.gzip = "unknown" /\ st.probe = 0
        /\ AcquireObservation(co, s, "probe", 1)
     \/ /\ st.proc = "running" /\ st.gzip \in {"unknown", "plain"}
        /\ LET c == [co EXCEPT !.st[s].gzip = "plain", !.st[s].probe = 0]
               d == IF st.probe = 0 THEN c ELSE PublishObserved(c, s, 1, FALSE, TRUE) IN
           IF d.st[s].failed THEN co' = d ELSE \E b \in BodySizes : AcquireObservation(d, s, "plain", b)
     \/ /\ st.proc = "running" /\ st.gzip \in {"unknown", "gzip"} /\ s \in Gzipped
        /\ LET c == DropProbe([co EXCEPT !.st[s].gzip = "gzip"], s) IN
           \/ st.probe > 0 /\ co' = FailObservation(c, s)      \* the prefix does not decompress
           \/ AcquireObservation(c, s, "gzip", EventLimit)

\* The loop of _enqueue_gzip_chunk comes round.
ContinueGzip(s) ==
  /\ co.st[s].pc = "again"
  /\ AcquireObservation(Pause(co, s, "idle"), s, "gzip", EventLimit)

\* The queue progress event wakes the producer, which looks again.
WakeProgress(s) ==
  /\ co.st[s].pc = "progress" /\ co.st[s].event
  /\ AcquireWanted(Pause(co, s, "idle"), s)

WakeCapacity(s) ==
  /\ co.st[s].pc = "capacity" /\ s \in co.granted
  /\ UseLease(co, s)

\* The request task is cancelled while it waits.
CancelProducer(s) ==
  LET st == co.st[s]
      c == [co EXCEPT !.st[s].pc = "leaving", !.st[s].want = 0, !.granted = @ \ {s}] IN
  /\ st.pc \in {"progress", "capacity"}
  /\ co' = IF st.pc = "progress" THEN c
           ELSE IF s \in co.granted THEN GiveBack(c, 1, st.want)
           ELSE GiveBack([c EXCEPT !.waiters = SelectSeq(@, LAMBDA t : t # s)], 0, 0)

\* finish, from finish_transport; and _finish in its own task, to the last put.
FinishObserver(s) ==
  /\ co.st[s].pc \in {"idle", "leaving"} /\ ~co.st[s].finishing
  /\ co' = [co EXCEPT !.st[s].finishing = TRUE, !.st[s].pc = "ending"]
RunFinish(s) ==
  LET st == co.st[s]
      c == IF st.probe > 0 /\ ~st.failed
           THEN PublishObserved([co EXCEPT !.st[s].probe = 0, !.st[s].gzip = "plain"], s, 1, TRUE, TRUE) ELSE co
      d == IF st.gzip = "gzip" /\ ~c.st[s].failed THEN FailObservation(c, s) ELSE c IN
  /\ st.pc = "ending"
  /\ co' = IF st.proc # "running" THEN [co EXCEPT !.st[s].finished = TRUE, !.st[s].pc = "over"]
           ELSE Pause(d, s, "put")
PutEnd(s) ==
  /\ co.st[s].pc = "put" /\ Len(co.st[s].queue) < QueueMax
  /\ co' = [co EXCEPT !.st[s].queue = Append(@, END), !.st[s].finished = TRUE, !.st[s].pc = "over"]

DropRetained(c, s) ==
  IF c.st[s].retained = 0 THEN c
  ELSE ReleaseOwned([c EXCEPT !.st[s].retained = 0], s, 0, c.st[s].retained)

\* mutant: the queue is emptied and its leases are forgotten
CleanupForgets(c, s, end) ==
  [DropProbe(DropRetained(c, s), s) EXCEPT !.st[s].queue = << >>, !.st[s].event = TRUE, !.st[s].proc = end]

\* The finally clause of _run, with _drain_pending_observation_queue.
Cleanup(c, s, end) ==
  LET d == DropProbe(DropRetained(c, s), s)
      st == d.st[s] IN
  ReleaseOwned([d EXCEPT !.st[s].queue = << >>, !.st[s].event = TRUE, !.st[s].proc = end],
               s, Queued(st), QueuedBytes(st))

\* _run takes one entry of the queue; the framer consumes part of what is
\* retained, refuses it, or finds an event whose payload is invalid.
ProcessEntry(s) ==
  LET st == co.st[s]
      e == Head(st.queue)
      c == [co EXCEPT !.st[s].queue = Tail(@)]
      woken == [c EXCEPT !.st[s].event = TRUE]
      kept == GiveBack([woken EXCEPT !.st[s].retained = @ + e.bytes], 1, 0)
      Consume(k) == IF k = 0 THEN kept ELSE ReleaseOwned([kept EXCEPT !.st[s].retained = @ - k], s, 0, k) IN
  /\ st.proc = "running" /\ st.queue # << >>
  /\ \/ e.mark = "abort" /\ co' = DropRetained(c, s)
     \/ e.mark = "end" /\ co' = Cleanup(c, s, "ended")
     \/ e.mark = "chunk" /\ st.failed /\ co' = ReleaseOwned(DropRetained(woken, s), s, 1, e.bytes)
     \/ /\ e.mark = "chunk" /\ ~st.failed
        /\ \E k \in 0..(st.retained + e.bytes) :
             \/ co' = Consume(k)
             \/ k > 0 /\ co' = FailObservation(Consume(k), s)
     \/ /\ e.mark = "chunk" /\ ~st.failed
        /\ co' = DropRetained([kept EXCEPT !.st[s].failed = TRUE], s)

\* The task supervisor cancels the task at shutdown.
CancelProcessor(s) == co.st[s].proc = "running" /\ co' = Cleanup(co, s, "cancelled")

ProducerSteps(s) == ContinueGzip(s) \/ WakeProgress(s) \/ WakeCapacity(s) \/ FinishObserver(s) \/ RunFinish(s) \/ PutEnd(s)
CONext == \E s \in Streams : \/ EnqueueChunk(s) \/ ProducerSteps(s) \/ CancelProducer(s)
                             \/ ProcessEntry(s) \/ CancelProcessor(s)

-----------------------------------------------------------------------------
Held(st) == QueuedBytes(st) + st.retained + st.probe

\* The capacity's counters are exactly what the streams own, each stream's own
\* count agrees, and a stream whose task has ended holds nothing of it.
ObserverBalanced ==
  /\ co.used.bytes = MapThenSumSet(LAMBDA s : Held(co.st[s]) + (IF s \in co.granted THEN co.st[s].want ELSE 0), Streams)
  /\ co.used.items = MapThenSumSet(LAMBDA s : Queued(co.st[s]) + co.st[s].probe
                                              + (IF s \in co.granted THEN 1 ELSE 0), Streams)
  /\ \A s \in Streams : co.st[s].owned = Held(co.st[s])
  /\ \A s \in Streams : co.st[s].pc = "over" /\ co.st[s].proc = "ended" => Held(co.st[s]) = 0

\* A client's chunk waits for the queue or for the capacity.
ObserverWaits == \E s \in Streams : co.st[s].pc \in {"progress", "capacity"}
=============================================================================
