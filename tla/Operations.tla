----------------------------- MODULE Operations -----------------------------
(***************************************************************************)
(* The operations that are not chat: embeddings and rerank, images, audio,  *)
(* PDF conversions (api/v1/embeddings.py, images.py, audio.py, pdf.py with  *)
(* operation_proxy.py, audio_adapters.py and operation_accounting.py).      *)
(* A request takes the owner of its reservation, tries its routes in order, *)
(* each with retries, holds a lease of the upload memory while a route      *)
(* works on its file, and ends with a charge bound to the response or with  *)
(* the reservation released.  A speaker transcription runs two such calls   *)
(* side by side on the same upload.                                        *)
(***************************************************************************)
EXTENDS Naturals, Sequences, FiniteSets, FiniteSetsExt

CONSTANTS Requests,       \* the requests
          OpKinds,        \* what they may ask for, out of AllKinds
          MaxRoute,       \* bound: the routes of a model
          RivaRoutes,     \* the routes that call the blocking gRPC adapter
          Retries,        \* retry_count of every route
          FileSize,       \* the upload, in chunks
          UploadRoom,     \* capacity of the upload admission, in uploads
          Fingerprints    \* how a finished PDF job may be priced

AllKinds == {"json", "image", "audio", "speaker", "speech", "convert", "create", "poll"}
ASSUME OperationsAssumption ==
  /\ OpKinds \subseteq AllKinds /\ {MaxRoute, FileSize, UploadRoom} \subseteq Nat \ {0} /\ Retries \in Nat
  /\ RivaRoutes \subseteq 1..MaxRoute

VARIABLE op    \* req: the requests; room: free upload memory; charged: how often each event was charged, and its price

Branches == {"a", "b"}                                \* b: the diarization of a speaker transcription
Job == "job"                                          \* the PDF job the requests create and poll
JobKinds == {"create", "poll"}
OpEvents == Requests \cup {Job}
Uploading(k) == k \in {"image", "audio", "speaker", "convert", "create"}
Routes(k) == IF k \in {"json", "image", "audio", "speaker"} THEN MaxRoute ELSE 1
NoBranch == [pc |-> "off", route |-> 1, attempt |-> 0, sent |-> <<>>, lease |-> 0, worker |-> FALSE]
NoRequest == [kind |-> "none", pc |-> "new", owner |-> "none", br |-> [b \in Branches |-> NoBranch], pos |-> [b \in Branches |-> 0],
              event |-> Job, price |-> 0, paid |-> FALSE]

OPInit == op = [req |-> [r \in Requests |-> NoRequest], room |-> UploadRoom, charged |-> [e \in OpEvents |-> [times |-> 0, price |-> 0]]]

Br(r, b) == op.req[r].br[b]
AtStep(r, b, pc) == Br(r, b).pc = pc
Put(r, b, x) == op' = [op EXCEPT !.req[r].br[b] = x]
\* An image route is prepared before its memory is asked for, the others after.
First(k) == IF Uploading(k) /\ k # "image" THEN "admit" ELSE "prepare"
Riva(r, b) == op.req[r].kind \in {"audio", "speaker"} /\ Br(r, b).route \in RivaRoutes
\* A route that decodes the audio asks for that memory as well.
Weight(r, b) == IF Riva(r, b) THEN 2 ELSE 1

\* take_operation_terminal_owner, or its refusal.  What a job costs is charged
\* under the job's event, everything else under the request's.
OwnedOp(r, k, event) ==
  op' = [op EXCEPT !.req[r] =
          [NoRequest EXCEPT !.kind = k, !.pc = "routes", !.owner = "open", !.event = event,
                            !.br = [b \in Branches |-> IF b = "a" \/ k = "speaker" THEN [NoBranch EXCEPT !.pc = First(k)] ELSE NoBranch]]]
TakeOwner(r, k) == op.req[r].pc = "new" /\ k \notin JobKinds /\ OwnedOp(r, k, r)
TakeJob(r, k) == op.req[r].pc = "new" /\ k \in JobKinds /\ OwnedOp(r, k, Job)
RefuseOwner(r) == op.req[r].pc = "new" /\ op' = [op EXCEPT !.req[r].pc = "over"]

-----------------------------------------------------------------------------
(* One route after the other.                                              *)

\* _should_try_next_route: what sends a request to its next route.  An
\* accounting error does so for embeddings and rerank alone.
TriesNext(k, error) ==
  CASE k = "json" -> error \in {"downstream", "502", "503", "accounting"}
    [] k = "image" -> error \in {"downstream", "413", "503"}
    [] k \in {"audio", "speaker"} -> error \in {"downstream", "503"}
    [] OTHER -> FALSE
\* The lease goes back before the next route, or before the error leaves.
FailAttempt(r, b, error) ==
  LET x == Br(r, b) IN
  op' = [op EXCEPT !.room = @ + x.lease,
                   !.req[r].br[b] = IF TriesNext(op.req[r].kind, error) /\ x.route < Routes(op.req[r].kind)
                                    THEN [NoBranch EXCEPT !.pc = First(op.req[r].kind), !.route = x.route + 1]
                                    ELSE [NoBranch EXCEPT !.pc = "raised"]]

\* admit_upload_processing: its errors end the request, whatever routes are left.
Refused(r, b) == op' = [op EXCEPT !.req[r].br[b] = [NoBranch EXCEPT !.pc = "raised"]]
Admit(r, b) ==
  /\ AtStep(r, b, "admit") /\ Weight(r, b) <= op.room
  /\ op' = [op EXCEPT !.room = @ - Weight(r, b), !.req[r].br[b].lease = Weight(r, b),
                      !.req[r].br[b].pc = IF op.req[r].kind = "image" THEN "send" ELSE "prepare"]
AdmitRefused(r, b) == AtStep(r, b, "admit") /\ Weight(r, b) > op.room /\ Refused(r, b)
PrepareRoute(r, b) ==
  /\ AtStep(r, b, "prepare")
  /\ \/ Put(r, b, [Br(r, b) EXCEPT !.pc = IF op.req[r].kind = "image" THEN "admit" ELSE "send"])
     \/ \E error \in {"500", "503"} : FailAttempt(r, b, error)             \* no provider, no credentials

-----------------------------------------------------------------------------
(* operation_proxy and the gRPC adapter: one attempt.                      *)

\* mutant: both calls of a speaker transcription read the same handle
SharedHandle(r, b) == "a"

\* _copied_upload: the second call reads a copy of its own.
UploadHandle(r, b) == b
\* _rewind_multipart_files, then the post.
SendUpstream(r, b) ==
  /\ AtStep(r, b, "send")
  /\ op' = [op EXCEPT !.req[r].pos[UploadHandle(r, b)] = 0,
                      !.req[r].br[b] = [@ EXCEPT !.attempt = @ + 1, !.sent = <<>>, !.worker = Riva(r, b),
                                                 !.pc = IF Uploading(op.req[r].kind) /\ ~Riva(r, b) THEN "sending" ELSE "wait"]]
\* The client reads the file while it sends the body.
ReadChunk(r, b) ==
  LET h == UploadHandle(r, b) IN
  /\ AtStep(r, b, "sending")
  /\ op' = IF op.req[r].pos[h] = FileSize THEN [op EXCEPT !.req[r].br[b].pc = "wait"]
           ELSE [op EXCEPT !.req[r].pos[h] = @ + 1, !.req[r].br[b].sent = Append(@, op.req[r].pos[h] + 1)]
\* A retryable status or a broken connection is tried again; a refusal is not.
Again(r, b, error) ==
  IF Br(r, b).attempt <= Retries THEN Put(r, b, [Br(r, b) EXCEPT !.pc = "send", !.sent = <<>>, !.worker = FALSE])
  ELSE FailAttempt(r, b, error)
Broken(r, b) == (AtStep(r, b, "sending") \/ AtStep(r, b, "wait")) /\ Again(r, b, "503")
Overloaded(r, b) == AtStep(r, b, "wait") /\ Again(r, b, "downstream")
Declined(r, b) == AtStep(r, b, "wait") /\ FailAttempt(r, b, "downstream")
\* A success: readable and shaped as the route says, or not.
Answered(r, b) ==
  /\ AtStep(r, b, "wait")
  /\ \/ Put(r, b, [Br(r, b) EXCEPT !.pc = "answered", !.worker = FALSE])
     \/ \E error \in {"503", "502", "500"} : FailAttempt(r, b, error)

-----------------------------------------------------------------------------
(* The observation that is charged.                                        *)

\* parse_upstream_operation_observation: token operations need a usage with
\* tokens; the others have a price of their own unless the stated cost is bad.
Priced(k, usage) == IF k = "json" THEN usage = "tokens" ELSE usage # "bad"
Usages == {"none", "tokens", "bad"}
Synthesized(r) == op.req[r].kind \in {"speech", "speaker"} \/ Riva(r, "a")    \* the usage is not read
Bound(r, c, fp) == [c EXCEPT !.req[r].owner = "bound", !.req[r].pc = "respond", !.req[r].price = fp]
Unleased(c, r) == [c EXCEPT !.room = @ + c.req[r].br["a"].lease, !.req[r].br["a"] = [NoBranch EXCEPT !.pc = "done"]]
\* finalize_buffered_operation after the one call of the request.
FinalizeOp(r) ==
  /\ AtStep(r, "a", "answered") /\ op.req[r].kind \notin JobKinds \cup {"speaker"}
  /\ \E usage \in Usages :
       IF Priced(op.req[r].kind, usage) \/ Synthesized(r) THEN op' = Bound(r, Unleased(op, r), 1)
       ELSE IF op.req[r].kind = "json" THEN FailAttempt(r, "a", "accounting")
       ELSE op' = [Unleased(op, r) EXCEPT !.req[r].br["a"].pc = "raised"]
\* A call of a speaker transcription gives its memory back when it ends.
ChildDone(r, b) ==
  /\ op.req[r].kind = "speaker" /\ AtStep(r, b, "answered")
  /\ op' = [op EXCEPT !.room = @ + Br(r, b).lease, !.req[r].br[b] = [NoBranch EXCEPT !.pc = "done"]]
Merge(r) ==
  /\ op.req[r].kind = "speaker" /\ op.req[r].pc = "routes" /\ \A b \in Branches : AtStep(r, b, "done")
  /\ \/ op' = Bound(r, op, 1)
     \/ op' = [op EXCEPT !.req[r].br["a"].pc = "raised"]              \* a child's answer cannot be merged
\* _finalize_pdf_job_response: an unfinished job costs nothing, a finished one
\* is charged under the job's own event.
FinalizeJob(r) ==
  /\ AtStep(r, "a", "answered") /\ op.req[r].kind \in JobKinds
  /\ LET c == Unleased(op, r) IN
     \/ op' = [c EXCEPT !.req[r].owner = "closed", !.req[r].pc = "over"]
     \/ \E fp \in Fingerprints : op' = Bound(r, c, fp)
     \/ op' = [c EXCEPT !.req[r].br["a"].pc = "raised"]               \* no id, another job's id, a bad cost

-----------------------------------------------------------------------------
(* The end: the terminal owner.                                            *)

\* The response is delivered: the charge is committed, or found made already;
\* a charge of another price is refused.
CommitOp(r) ==
  LET q == op.req[r]  c == op.charged[q.event] IN
  /\ q.pc = "respond"
  /\ op' = [op EXCEPT !.req[r].owner = "closed", !.req[r].pc = "over", !.req[r].paid = c.times = 0 \/ c.price = q.price,
                      !.charged[q.event] = IF c.times = 0 THEN [times |-> 1, price |-> q.price] ELSE @]
\* The response is not delivered.
Undelivered(r) == op.req[r].pc = "respond" /\ op' = [op EXCEPT !.req[r].owner = "closed", !.req[r].pc = "over"]

\* mutant: the memory goes back at the cancellation, the worker goes on
CancelAtOnce(c, r, b) ==
  [c EXCEPT !.room = @ + c.req[r].br[b].lease, !.req[r].br[b] = [NoBranch EXCEPT !.pc = "off", !.worker = c.req[r].br[b].worker]]

\* A cancellation waits for a blocking worker (_run_owned_blocking).
CancelBranch(c, r, b) ==
  IF c.req[r].br[b].worker THEN [c EXCEPT !.req[r].br[b].pc = "finishing"]
  ELSE [c EXCEPT !.room = @ + c.req[r].br[b].lease, !.req[r].br[b] = NoBranch]
WorkerEnds(r, b) ==
  /\ AtStep(r, b, "finishing") /\ op.req[r].br[b].worker
  /\ op' = [op EXCEPT !.room = @ + Br(r, b).lease, !.req[r].br[b] = NoBranch]
\* The task group cancels the other call; a client that leaves cancels both.
Siblings(r) ==
  /\ op.req[r].pc = "routes" /\ \E b \in Branches : AtStep(r, b, "raised")
  /\ op' = CancelBranch(CancelBranch([op EXCEPT !.req[r].pc = "release"], r, "a"), r, "b")
DisconnectOp(r) ==
  /\ op.req[r].pc = "routes" /\ ~\E b \in Branches : AtStep(r, b, "raised")
  /\ op' = CancelBranch(CancelBranch([op EXCEPT !.req[r].pc = "release"], r, "a"), r, "b")
\* release_operation_if_open
ReleaseOpOwner(r) ==
  /\ op.req[r].pc = "release" /\ \A b \in Branches : Br(r, b).pc \in {"off", "done", "raised"}
  /\ op' = [op EXCEPT !.req[r].owner = "closed", !.req[r].pc = "over"]

CallStep(r, b) ==
  /\ op.req[r].pc \in {"routes", "release"}
  /\ \/ Admit(r, b) \/ AdmitRefused(r, b) \/ PrepareRoute(r, b) \/ SendUpstream(r, b) \/ ReadChunk(r, b)
     \/ Broken(r, b) \/ Overloaded(r, b) \/ Declined(r, b) \/ Answered(r, b) \/ ChildDone(r, b) \/ WorkerEnds(r, b)
OPNext == \E r \in Requests :
  \/ (\E k \in OpKinds : TakeOwner(r, k) \/ TakeJob(r, k)) \/ RefuseOwner(r) \/ (\E b \in Branches : CallStep(r, b))
  \/ FinalizeOp(r) \/ Merge(r) \/ FinalizeJob(r) \/ CommitOp(r) \/ Undelivered(r) \/ Siblings(r) \/ DisconnectOp(r) \/ ReleaseOpOwner(r)

-----------------------------------------------------------------------------
\* Whatever fails, and wherever a client leaves: upload memory is held by the
\* calls at work and by nothing else, a blocking worker never outlives its
\* lease, a request that is over holds nothing and owns no open reservation,
\* no event is charged twice, and a client that got its answer has paid for it.
OperationsAccounted ==
  /\ op.room + MapThenSumSet(LAMBDA x : Br(x[1], x[2]).lease, Requests \X Branches) = UploadRoom
  /\ \A r \in Requests, b \in Branches : Br(r, b).worker => Br(r, b).lease > 0
  /\ \A r \in Requests : op.req[r].pc = "over" => /\ op.req[r].owner \in {"none", "closed"}
                                                 /\ \A b \in Branches : Br(r, b).lease = 0
                                                 /\ op.req[r].paid => op.charged[op.req[r].event].times = 1
  /\ \A e \in OpEvents : op.charged[e].times <= 1
  /\ \A r \in Requests : op.charged[r].times = 1 => op.req[r].paid

\* Every attempt that is answered carried the whole upload, from its first
\* chunk to its last, however often it is retried and whoever else reads it.
BodiesWhole == \A r \in Requests, b \in Branches :
  AtStep(r, b, "wait") /\ Uploading(op.req[r].kind) /\ ~Riva(r, b) => Br(r, b).sent = [i \in 1..FileSize |-> i]
=============================================================================
