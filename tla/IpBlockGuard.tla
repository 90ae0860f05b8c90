---------------------------- MODULE IpBlockGuard ----------------------------
(***************************************************************************)
(* The brute-force guard of one client address: IpBlockGuard (services/    *)
(* ip_blocklist.py), the requests of middleware/auth.py that consult it    *)
(* before an awaited key lookup and report to it after, the ip_blocked     *)
(* events that reach rejections.db through the write batcher, the hourly   *)
(* scan that turns repeat offenders into permanent bans, and the           *)
(* administrator who lifts them.  One clock stands for both the monotonic  *)
(* and the wall clock.                                                     *)
(***************************************************************************)
EXTENDS Integers, Sequences, FiniteSets, FiniteSetsExt

CONSTANTS AuthRequests, MaxFailures, BlockSeconds, Day, MaxGuardTime

NotReleased == -1

VARIABLES ibNow,
          ibPhase,      \* where each request is: "idle" or "lookup"
          ibFailures, ibUntil,   \* _IpState of the address; 0, 0 when it has none
          ibPermanent,  \* the address is in _permanent
          ibRow,        \* its permanent_ip_blocks row: "none", "banned" or "released"
          ibReleased,   \* released_at of that row
          ibQueue,      \* timestamps of ip_blocked events still in the write batcher
          ibEvents,     \* timestamps of ip_blocked events in rejection_events
          ibTriggers    \* history: blocks since the last release, with the process that made them

ibvars == <<ibNow, ibPhase, ibFailures, ibUntil, ibPermanent, ibRow, ibReleased,
            ibQueue, ibEvents, ibTriggers>>

IBInit == /\ ibNow = 1 /\ ibPhase = [r \in AuthRequests |-> "idle"]
          /\ ibFailures = 0 /\ ibUntil = 0 /\ ibPermanent = FALSE
          /\ ibRow = "none" /\ ibReleased = NotReleased
          /\ ibQueue = {} /\ ibEvents = {} /\ ibTriggers = {}

Running == ibUntil > ibNow

\* _prepare_api_key_auth and login_submit: check_blocked, before the lookup.
CheckBlocked(r) ==
  /\ ibPhase[r] = "idle"
  /\ \/ (ibPermanent \/ Running) /\ UNCHANGED <<ibPhase, ibFailures, ibUntil>>
     \/ /\ ~ibPermanent /\ ~Running
        /\ ibPhase' = [ibPhase EXCEPT ![r] = "lookup"]
        /\ ibUntil' = 0 /\ ibFailures' = IF ibUntil > 0 THEN 0 ELSE ibFailures
  /\ UNCHANGED <<ibNow, ibPermanent, ibRow, ibReleased, ibQueue, ibEvents, ibTriggers>>

\* _note_auth_failure: the key is unknown, or its lookup failed; the failure
\* that reaches the limit is audited.
NoteAuthFailure(r) ==
  /\ ibPhase[r] = "lookup" /\ ibPhase' = [ibPhase EXCEPT ![r] = "idle"]
  /\ \/ Running /\ UNCHANGED <<ibFailures, ibUntil, ibQueue, ibTriggers>>
     \/ /\ ~Running /\ ibFailures + 1 < MaxFailures
        /\ ibFailures' = ibFailures + 1 /\ ibUntil' = 0 /\ UNCHANGED <<ibQueue, ibTriggers>>
     \/ /\ ~Running /\ ibFailures + 1 >= MaxFailures
        /\ ibFailures' = 0 /\ ibUntil' = ibNow + BlockSeconds
        /\ ibQueue' = ibQueue \cup {ibNow}
        /\ ibTriggers' = ibTriggers \cup {ibNow}
  /\ UNCHANGED <<ibNow, ibPermanent, ibRow, ibReleased, ibEvents>>

\* _note_auth_success; a disabled key neither fails nor succeeds.
NoteAuthSuccess(r) ==
  /\ ibPhase[r] = "lookup" /\ ibPhase' = [ibPhase EXCEPT ![r] = "idle"]
  /\ \/ Running /\ UNCHANGED <<ibFailures, ibUntil>>
     \/ ~Running /\ ibFailures' = 0 /\ ibUntil' = 0
     \/ UNCHANGED <<ibFailures, ibUntil>>
  /\ UNCHANGED <<ibNow, ibPermanent, ibRow, ibReleased, ibQueue, ibEvents, ibTriggers>>

\* The batcher commits what insert_rejection queued.
FlushRejections ==
  /\ ibQueue # {} /\ ibEvents' = ibEvents \cup ibQueue /\ ibQueue' = {}
  /\ UNCHANGED <<ibNow, ibPhase, ibFailures, ibUntil, ibPermanent, ibRow, ibReleased, ibTriggers>>

\* mutant: blocks from before the last release still count
CountedEver == {t \in ibEvents : t >= ibNow - Day /\ t <= ibNow}

\* The blocks promote_repeat_ip_blocks counts for an address.
Counted == {t \in ibEvents : t >= ibNow - Day /\ t <= ibNow /\ (ibRow = "released" => t > ibReleased)}

\* scan_permanent_blocks and promote_repeat_ip_blocks.
ScanPermanentBlocks ==
  /\ \/ /\ ibRow # "banned" /\ Cardinality(Counted) >= 2
        /\ ibRow' = "banned" /\ ibReleased' = NotReleased
     \/ ibRow = "banned" /\ UNCHANGED <<ibRow, ibReleased>>
     \/ ibRow # "banned" /\ Cardinality(Counted) < 2 /\ UNCHANGED <<ibRow, ibReleased>>
  /\ ibPermanent' = (ibRow' = "banned")
  /\ UNCHANGED <<ibNow, ibPhase, ibFailures, ibUntil, ibQueue, ibEvents, ibTriggers>>

\* unblock_permanent_ip and release_permanent_ip_block.
UnblockPermanentIp ==
  /\ ibRow = "banned"
  /\ ibRow' = "released" /\ ibReleased' = ibNow
  /\ ibPermanent' = FALSE /\ ibFailures' = 0 /\ ibUntil' = 0
  /\ ibTriggers' = {}
  /\ UNCHANGED <<ibNow, ibPhase, ibQueue, ibEvents>>

\* The process ends, with or without its last batch, and starts again.
RestartGateway ==
  /\ ibPhase' = [r \in AuthRequests |-> "idle"]
  /\ ibFailures' = 0 /\ ibUntil' = 0
  /\ ibPermanent' = (ibRow = "banned")
  /\ ibEvents' \in {ibEvents, ibEvents \cup ibQueue} /\ ibQueue' = {}
  /\ UNCHANGED <<ibNow, ibRow, ibReleased, ibTriggers>>

GuardTick ==
  /\ ibNow < MaxGuardTime /\ ibNow' = ibNow + 1
  /\ UNCHANGED <<ibPhase, ibFailures, ibUntil, ibPermanent, ibRow, ibReleased,
                 ibQueue, ibEvents, ibTriggers>>

IBNext == \/ \E r \in AuthRequests : CheckBlocked(r) \/ NoteAuthFailure(r) \/ NoteAuthSuccess(r)
          \/ FlushRejections \/ ScanPermanentBlocks \/ UnblockPermanentIp
          \/ RestartGateway \/ GuardTick

-----------------------------------------------------------------------------
\* A permanent ban rests on two blocks of the last day, both triggered after
\* the last release: an event that was still queued when the administrator
\* released the address, or one written late, never bans it again.  What the
\* process enforces is what the database says.  A block that is running ends by
\* time, by a release or with the process, whatever late lookups report, and
\* one burst of failures is one block: within it no second one is recorded.
BansJustified ==
  [][/\ (ibRow' = "banned" /\ ibRow # "banned") =>
          Cardinality({t \in ibTriggers : t >= ibNow - Day}) >= 2
     /\ ibPermanent' = (ibRow' = "banned")
     /\ (Running /\ ibUntil' # ibUntil) => (UnblockPermanentIp \/ RestartGateway)
     /\ (ibTriggers' \ ibTriggers # {}) => ~Running]_ibvars
=============================================================================
