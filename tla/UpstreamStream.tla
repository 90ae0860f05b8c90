--------------------------- MODULE UpstreamStream ---------------------------
(***************************************************************************)
(* _make_streaming_request of services/request_handler.py and what it      *)
(* hands on: the upstream response is decoded in leased pieces, inspected  *)
(* until its first content (only then may an attempt still fail over to    *)
(* another upstream), and forwarded piece by piece.  All streams draw on   *)
(* one StreamObservationCapacity.  A stream holds raw bytes (leased before *)
(* they arrive), the framer's copy, the primed bytes and, with an item of  *)
(* the capacity, the piece its client is being sent.  Payloads are reduced *)
(* to what inspect_events finds in them.  Everything between two awaits is *)
(* one action; a cancellation may come at every await.                     *)
(***************************************************************************)
EXTENDS Naturals, Sequences, FiniteSets, FiniteSetsExt, SequencesExt

CONSTANTS Upstreams,
          Compressed,      \* the ones with a Content-Encoding
          PieceLimit,      \* _chunk_limit, at most a third of the capacity
          UpstreamItems, UpstreamBytes,
          MaxPieces        \* network chunks a stream receives

ASSUME PieceFits == PieceLimit \in Nat \ {0} /\ UpstreamBytes \in Nat /\ 3 * PieceLimit <= UpstreamBytes
ASSUME StreamsFinite == IsFiniteSet(Upstreams) /\ Compressed \subseteq Upstreams /\ UpstreamItems \in Nat \ {0}

VARIABLE us    \* st: the streams; used, waiters, granted: the capacity

NewStream ==
  [pc |-> "connect",
   phase |-> "prime",                  \* "prime", "error" or "forward"
   raw |-> 0, pending |-> 0, probe |-> 0, drain |-> FALSE, copy |-> 0, primed |-> 0,
   out |-> 0, want |-> 0, pieces |-> 0, read |-> FALSE, eof |-> FALSE,
   content |-> FALSE, finish |-> FALSE, done |-> FALSE, bad |-> FALSE,
   sent |-> "nothing",                 \* to the client: "nothing", "part" or "done"
   result |-> "none",                  \* "error", "local", "raised" or "stream"
   opened |-> FALSE, exits |-> 0, callbacks |-> 0]   \* history: context entered, left; callbacks

USInit == us = [st |-> [s \in Upstreams |-> NewStream],
                used |-> [items |-> 0, bytes |-> 0], waiters |-> << >>, granted |-> {}]

Put(c, s, st) == [c EXCEPT !.st[s] = st]
Moved(c, s, pc) == Put(c, s, [c.st[s] EXCEPT !.pc = pc])
\* Items and bytes are leased, or given back.
Leased(c, items, bytes) == [c EXCEPT !.used = [items |-> @.items + items, bytes |-> @.bytes + bytes]]

Blocked(c, bytes) == c.waiters # << >> \/ c.used.items >= UpstreamItems \/ c.used.bytes + bytes > UpstreamBytes

\* What ss want, or hold, together.
TotalIn(w, ss) == MapThenSumSet(LAMBDA s : w[s], ss)

\* Capacity goes back, and waiters that fit are served in turn.
Return(c, items, bytes) ==
  LET used == [items |-> c.used.items - items, bytes |-> c.used.bytes - bytes]
      First(k) == Range(SubSeq(c.waiters, 1, k))
      Want(k) == TotalIn([s \in Upstreams |-> c.st[s].want], First(k))
      n == Max({k \in 0..Len(c.waiters) : k = 0 \/ (used.items + k <= UpstreamItems
                                                    /\ used.bytes + Want(k) <= UpstreamBytes)})
  IN [c EXCEPT !.used = [items |-> used.items + n, bytes |-> used.bytes + Want(n)],
               !.granted = @ \cup First(n), !.waiters = SubSeq(@, n + 1, Len(@))]

Wait(c, s, b, pc) == [Put(c, s, [c.st[s] EXCEPT !.pc = pc, !.want = b]) EXCEPT !.waiters = Append(@, s)]
\* A waiter leaves before it is served.
Leave(c, s) == [c EXCEPT !.waiters = IF s \in Range(@) THEN RemoveAt(@, CHOOSE i \in DOMAIN @ : @[i] = s) ELSE @]

Fail(c, s, result) == Put(c, s, [c.st[s] EXCEPT !.pc = "closing", !.result = result])

-----------------------------------------------------------------------------
(* _DecodedResponseReader.read.  Each operator runs to the next await.     *)

FailIfBlocked(st) == CASE st.phase = "prime" -> st.primed > 0
                       [] st.phase = "error" -> st.read
                       [] st.phase = "forward" -> st.copy > 0

\* A failure that is not the upstream's: no other upstream is tried.
Local(c, s) == Fail(c, s, IF c.st[s].phase = "forward" THEN "stream" ELSE "local")
\* raw_ and decode_capacity_exhausted only truncate the body of an HTTP error.
Exhausted(c, s) == IF c.st[s].phase = "error" THEN Fail(c, s, "error") ELSE Local(c, s)

\* The output lease: never waited for behind a copy, and for an error body only
\* when nothing was read yet.
TakeOutput(c, s, b) ==
  IF ~Blocked(c, b) THEN Put(Leased(c, 1, b), s, [c.st[s] EXCEPT !.out = b, !.pc = "decode"])
  ELSE IF c.st[s].phase # "error"
       THEN Local(Return(Put(c, s, [c.st[s] EXCEPT !.copy = @ - b]), 0, b), s)
  ELSE Wait(c, s, b, "outwait")

PieceOf(st, s) == IF s \in Compressed THEN PieceLimit ELSE st.pending

\* The bytes are there: lease the framer's copy, then the output.
ReservePiece(c, s) ==
  LET st == c.st[s]
      b == PieceOf(st, s)
      copied == Put(Leased(c, 0, b), s, [st EXCEPT !.copy = @ + b]) IN
  IF FailIfBlocked(st) /\ Blocked(c, IF st.phase = "error" THEN b ELSE 2 * b) THEN Exhausted(c, s)
  ELSE IF st.phase = "error" THEN TakeOutput(c, s, b)
  ELSE IF ~Blocked(c, b) THEN TakeOutput(copied, s, b)
  ELSE IF st.copy > 0 THEN Local(c, s)              \* retention_capacity_exhausted
  ELSE Wait(c, s, b, "copywait")

\* Start of a read: pending input first, else lease a raw chunk and wait for it.
StartRead(c, s) ==
  LET st == c.st[s] IN
  IF st.pending > 0 \/ st.drain THEN ReservePiece(c, s)
  ELSE IF ~Blocked(c, PieceLimit) THEN Put(Leased(c, 0, PieceLimit), s, [st EXCEPT !.raw = @ + PieceLimit, !.pc = "net"])
  ELSE IF FailIfBlocked(st) THEN Exhausted(c, s)
  ELSE IF st.raw > 0 THEN Local(c, s)               \* the byte of a probe is held
  ELSE Wait(c, s, PieceLimit, "rawwait")

\* _decode_piece consumes input and gives output; the leases shrink to the output.
Decoded(c, s, left, data) ==
  LET st == c.st[s]
      spare == st.out - data
      taken == st.pending + st.probe - left IN
  Return(Put(c, s, [st EXCEPT !.pending = left, !.probe = 0, !.raw = @ - taken, !.out = data,
                              !.copy = IF st.phase = "error" THEN @ ELSE @ - spare,
                              !.drain = s \in Compressed /\ data = st.out /\ left = 0]),
         IF data = 0 THEN 1 ELSE 0, taken + (IF st.phase = "error" THEN spare ELSE 2 * spare))
\* The output is given back unused, and the framer's copy of it.
Unused(c, s, st) ==
  Return(Put(c, s, [st EXCEPT !.out = 0, !.copy = IF st.phase = "error" THEN @ ELSE @ - st.out]),
         1, IF st.phase = "error" THEN st.out ELSE 2 * st.out)
\* The first byte of a deflate stream does not decide its format: it is kept.
Probed(c, s) == Unused(c, s, [c.st[s] EXCEPT !.pending = 0, !.probe = 1])

-----------------------------------------------------------------------------
\* client.stream and its __aenter__, then the first read.
Connect(s) ==
  /\ us.st[s].pc = "connect"
  /\ \/ us' = Put(us, s, [us.st[s] EXCEPT !.pc = "over", !.result = "error"])         \* RequestError
     \/ \E phase \in {"prime", "error"} : us' = StartRead(Put(us, s, [us.st[s] EXCEPT !.phase = phase, !.opened = TRUE]), s)

\* The raw iterator yields a chunk, ends or raises.
ReceiveRaw(s) ==
  LET st == us.st[s]
      Give(b, new) == Return(Put(us, s, [new EXCEPT !.raw = @ - b]), 0, b)
      ended == Give(PieceLimit, [st EXCEPT !.eof = TRUE]) IN
  /\ st.pc = "net"
  /\ \/ /\ st.pieces < MaxPieces /\ ~st.eof
        /\ \E n \in 1..PieceLimit :
             us' = ReservePiece(Give(PieceLimit - n, [st EXCEPT !.pending = n, !.pieces = @ + 1]), s)
     \/ us' = Moved(ended, s, "eof")
     \/ us' = Fail(ended, s, IF st.phase = "forward" THEN "stream" ELSE "error")

\* A wait of the reader is over.
WakeReader(s) ==
  LET st == us.st[s]
      Served(new) == Put([us EXCEPT !.granted = @ \ {s}], s, [new EXCEPT !.want = 0]) IN
  /\ s \in us.granted
  /\ us' = CASE st.pc = "rawwait" -> Return(Served([st EXCEPT !.raw = @ + PieceLimit, !.pc = "net"]), 1, 0)
             [] st.pc = "copywait" -> TakeOutput(Return(Served([st EXCEPT !.copy = @ + st.want]), 1, 0), s, st.want)
             [] st.pc = "outwait" -> Served([st EXCEPT !.out = st.want, !.pc = "decode"])

\* inspect_events: what the piece completes, and how many bytes of the copy.
\* A stream whose upstream has said [DONE] says nothing more.
Findings == {"nothing", "content", "finish", "done", "error", "framing"}
Inspect(c, s, found) ==
  LET st == c.st[s] IN
  Put(c, s, [st EXCEPT !.content = @ \/ found = "content", !.finish = @ \/ found = "finish", !.done = @ \/ found = "done",
                       !.bad = @ \/ found \in {"error", "framing"} \/ (found = "done" /\ ~st.content)])

\* A read has returned a piece (or nothing): one turn of the loop around it.
ErrorBody(c, s) == StartRead(Return(Put(c, s, [c.st[s] EXCEPT !.out = 0, !.read = TRUE]), 1, c.st[s].out), s)

PrimeTurn(c, s) ==
  LET st == c.st[s]
      dropped == Return(Put(c, s, [st EXCEPT !.out = 0]), 1, st.out)
      kept == Return(Put(c, s, [st EXCEPT !.out = 0, !.primed = @ + st.out]), 1, 0) IN
  IF st.bad THEN Fail(dropped, s, "error")
  ELSE IF ~(st.content \/ st.done) THEN StartRead(kept, s)
  ELSE Moved(kept, s, "handoff")

\* The piece is decoded: its data is inspected, and sent, kept or dropped.
DecodePiece(s) ==
  LET st == us.st[s]
      packed == s \in Compressed IN
  /\ st.pc = "decode"
  /\ \/ packed /\ st.pending = 1 /\ st.pieces = 1 /\ us' = StartRead(Probed(us, s), s)
     \/ /\ packed /\ us' = StartRead(Decoded(us, s, 0, 0), s)
     \/ \E left \in (IF packed THEN 0..(st.pending + st.probe) ELSE {0}), data \in (IF packed THEN 1..st.out ELSE {st.out}) :
          LET c == Decoded(us, s, left, data) IN
          \/ st.phase = "error" /\ us' = ErrorBody(c, s)
          \/ /\ st.phase # "error"
             /\ \E found \in Findings, k \in 0..c.st[s].copy :
                  LET seen == Inspect(Return(Put(c, s, [c.st[s] EXCEPT !.copy = @ - k]), 0, k), s, found) IN
                  /\ found = "framing" => k = 0
                  /\ found \notin {"nothing", "framing"} => k > 0
                  /\ us' = IF st.phase = "prime" THEN PrimeTurn(seen, s) ELSE Moved(seen, s, "send")
     \/ /\ packed                                                \* DecodingError
        /\ us' = Fail(Unused(us, s, st), s, IF st.phase = "forward" THEN "stream" ELSE "error")

\* End of the body: the framer's tail, then the verdict.
EndOfBody(s) ==
  LET st == us.st[s]
      Told(found) == Inspect(Return(Put(us, s, [st EXCEPT !.copy = 0]), 0, st.copy), s, found)
      Tails == IF st.copy = 0 THEN {"nothing"} ELSE Findings IN
  /\ st.pc = "eof"
  /\ \/ st.phase = "error" /\ us' = Fail(us, s, "error")
     \/ /\ st.phase = "prime"
        /\ \E found \in Tails :
             LET c == Told(found) IN
             us' = IF c.st[s].bad \/ c.st[s].primed = 0 \/ ~c.st[s].content THEN Fail(c, s, "error")
                   ELSE Moved(c, s, "handoff")
     \/ st.phase = "forward" /\ \E found \in Tails : us' = Moved(Told(found), s, "tail")

\* _OwnedStreamingResponse takes over the owner; the caller adds its callback.
HandOff(s) ==
  /\ us.st[s].pc = "handoff"
  /\ us' = Put(us, s, [us.st[s] EXCEPT !.pc = "begin", !.phase = "forward", !.result = "stream"])

\* combined_generator: the primed bytes, with everything after [DONE] cut off.
SendPrimed(s) ==
  LET st == us.st[s]
      Sent(what) == Return(Put(us, s, [st EXCEPT !.primed = 0, !.sent = what]), 0, st.primed) IN
  /\ st.pc = "begin"
  /\ us' = IF st.done THEN Moved(Sent("done"), s, "closing") ELSE StartRead(Sent("part"), s)

\* The client took the piece.
SendPiece(s) ==
  LET st == us.st[s]
      sent == Return(Put(us, s, [st EXCEPT !.out = 0, !.sent = IF st.done THEN "done" ELSE "part"]), 1, st.out) IN
  /\ st.pc = "send"
  /\ us' = IF st.bad \/ st.done THEN Moved(sent, s, "tail") ELSE StartRead(sent, s)

\* mutant: every stream that was not reported broken ends with [DONE]
FinishAlways(s) ==
  LET st == us.st[s] IN
  /\ st.pc = "tail"
  /\ us' = Put(us, s, [st EXCEPT !.pc = "closing", !.sent = IF ~st.bad THEN "done" ELSE @])

\* The end of the generator: [DONE] is made up only after a finish reason.
FinishStream(s) ==
  LET st == us.st[s] IN
  /\ st.pc = "tail"
  /\ us' = Put(us, s, [st EXCEPT !.pc = "closing", !.sent = IF ~st.bad /\ (st.done \/ st.finish) THEN "done" ELSE @])

\* mutant: the owner forgets the bytes of a generator that never ran
CloseForgetsPrimed(c, s) ==
  LET st == c.st[s] IN
  Return(Put(c, s, [st EXCEPT !.copy = 0, !.out = 0, !.raw = 0, !.pending = 0, !.probe = 0, !.drain = FALSE]),
         IF st.out > 0 THEN 1 ELSE 0, st.copy + st.out + st.raw)

\* close_stream_resources, and the finally clauses of the generator before it.
CloseResources(c, s) ==
  LET st == c.st[s] IN
  Return(Put(c, s, [st EXCEPT !.copy = 0, !.primed = 0, !.out = 0, !.raw = 0,
                              !.pending = 0, !.probe = 0, !.drain = FALSE]),
         IF st.out > 0 THEN 1 ELSE 0, st.copy + st.primed + st.out + st.raw)

\* _StreamResourceOwner.close: the first caller closes, later ones find it done.
CloseOwner(c, s) ==
  IF c.st[s].exits > 0 THEN c
  ELSE LET closed == CloseResources(c, s) IN Put(closed, s, [closed.st[s] EXCEPT !.exits = 1])

\* The attempt failed: its finally closes.  Or the generator ended, and after it
\* the response closes its iterators and the owner and runs the callbacks.
CloseAttempt(s) ==
  /\ us.st[s].pc = "closing"
  /\ us' = Moved(CloseOwner(us, s), s, IF us.st[s].result # "stream" THEN "over" ELSE "response")
CloseResponse(s) ==
  LET closed == CloseOwner(us, s) IN
  /\ us.st[s].pc = "response"
  /\ us' = Put(closed, s, [closed.st[s] EXCEPT !.pc = "over", !.callbacks = @ + 1])

\* The request task is cancelled, or the client leaves, at any await; a response
\* that was handed over may be closed before its generator has started.
CancelUpstream(s) ==
  LET st == us.st[s]
      quit == Put(us, s, [st EXCEPT !.want = 0])
      d == IF s \in us.granted THEN Return([quit EXCEPT !.granted = @ \ {s}], 1, st.want) ELSE Return(Leave(quit, s), 0, 0) IN
  \/ /\ st.pc \in {"rawwait", "copywait", "outwait", "net", "send"}
     /\ us' = Fail(d, s, IF st.phase = "forward" THEN "stream" ELSE "raised")
  \/ st.pc = "begin" /\ us' = Moved(d, s, "response")
  \/ st.pc = "connect" /\ us' = Put(d, s, [d.st[s] EXCEPT !.pc = "over", !.result = "raised"])

StreamStep(s) == \/ Connect(s) \/ ReceiveRaw(s) \/ WakeReader(s) \/ DecodePiece(s) \/ EndOfBody(s) \/ HandOff(s)
                 \/ SendPrimed(s) \/ SendPiece(s) \/ FinishStream(s) \/ CloseAttempt(s) \/ CloseResponse(s)
USNext == \E s \in Upstreams : StreamStep(s) \/ CancelUpstream(s)
USSpec == USInit /\ [][USNext]_us

-----------------------------------------------------------------------------
Holds(st) == st.raw + st.copy + st.primed + st.out

\* The capacity's counters are what the streams hold; a stream that is over, in
\* whatever way, holds nothing, has left its upstream connection exactly once
\* and, if it was handed over, has run its close callback exactly once.
StreamsReturnAll ==
  /\ us.used.bytes = TotalIn([s \in Upstreams |-> Holds(us.st[s]) + (IF s \in us.granted THEN us.st[s].want ELSE 0)], Upstreams)
  /\ us.used.items = Cardinality({s \in Upstreams : us.st[s].out > 0 \/ s \in us.granted})
  /\ \A s \in Upstreams : LET st == us.st[s] IN
       st.pc = "over" => /\ Holds(st) = 0
                         /\ st.exits = (IF st.opened THEN 1 ELSE 0)
                         /\ st.callbacks = (IF st.result = "stream" THEN 1 ELSE 0)

\* A client is told that its answer is complete only if the upstream finished it,
\* and an attempt fails over only while its client has seen nothing.
TruncationShown ==
  \A s \in Upstreams : LET st == us.st[s] IN
    /\ st.sent = "done" => (st.finish \/ st.done) /\ st.content /\ ~st.bad
    /\ st.result \in {"error", "local", "raised"} => st.sent = "nothing"

\* README.md on STREAM_OBSERVATION_BUFFER_MAX_BYTES: a producer waits for capacity
\* to be freed.  Whenever a stream waits there is one that does not, and that
\* holds some of the capacity and will give it back.
NoCircularWait ==
  us.waiters # << >> => \E s \in Upstreams : s \notin Range(us.waiters) /\ (s \in us.granted \/ Holds(us.st[s]) > 0)
=============================================================================
