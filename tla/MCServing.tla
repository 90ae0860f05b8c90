----------------------------- MODULE MCServing -----------------------------
(***************************************************************************)
(* What a request of the gateway owns while it is served: the request      *)
(* through its middlewares, the uploads that wait for memory, the          *)
(* observers of two responses, and the writer of the log rows.  They share *)
(* no state here: each behaviour steps the one named by focus.             *)
(***************************************************************************)
EXTENDS TLC, Serving, ChunkObserver, WriteBatcher, UploadAdmission

CONSTANTS u1, u2, u3
VARIABLE focus

Weight3 == u1 :> 3 @@ u2 :> 2 @@ u3 :> 1

MCInit == /\ focus \in {"request", "observers", "writes", "uploads"}
          /\ SVInit /\ COInit /\ Init /\ UPInit
          /\ focus # "request" => sv.kind = "chat" /\ sv.streaming   \* sv is idle then
MCNext ==
  /\ \/ focus = "request" /\ SVNext /\ UNCHANGED <<co, vars, upvars>>
     \/ focus = "observers" /\ CONext /\ UNCHANGED <<sv, vars, upvars>>
     \/ focus = "writes" /\ Next /\ UNCHANGED <<sv, co, upvars>>
     \/ focus = "uploads" /\ UPNext /\ UNCHANGED <<sv, co, vars>>
  /\ UNCHANGED focus

\* The event loop runs what can run; endpoints end because every upstream call
\* and every stream has a timeout.
RequestFairness == /\ WF_sv(focus = "request" /\ RequestStep)
                   /\ WF_sv(focus = "request" /\ EndpointEnds)
                   /\ WF_sv(focus = "request" /\ RunFinalizer)
ObserverFairness == \A s \in Streams : /\ WF_co(focus = "observers" /\ ProducerSteps(s))
                                       /\ WF_co(focus = "observers" /\ ProcessEntry(s))

MCSpec == /\ MCInit /\ [][MCNext]_<<sv, co, vars, upvars, focus>>
          /\ RequestFairness /\ ObserverFairness /\ Fairness /\ UPFairness

\* Nothing of a request outlives it: a request that is over gave up all it held
\* (response_observation, the usage and active-request middleware), the
\* observation capacity is exactly what the open streams hold (chat_logging), and
\* the upload memory exactly what the admitted uploads hold (upload_admission).
NothingHeld == NothingLeftBehind /\ ObserverBalanced /\ UploadsAccounted

\* Every request that arrived ends and is settled, a client never waits for ever
\* for the observer of its response, and an accepted write or a stop of the
\* batcher is settled: always, at some later time, none of these is pending.
\* And an upload that waits for memory gets it or is turned away.
ServingSettles == []<>~(RequestPending \/ ObserverWaits \/ WritesPending) /\ UploadServed
=============================================================================
