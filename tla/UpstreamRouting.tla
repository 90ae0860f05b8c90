-------------------------- MODULE UpstreamRouting --------------------------
(***************************************************************************)
(* UpstreamRoutingState of                                                 *)
(* llm_gateway_core/services/upstream_routing_state.py: the in-memory      *)
(* cooldowns, quota windows, manual pauses and concurrency slots of the    *)
(* upstream keys of one provider.                                          *)
(*                                                                         *)
(* Every method runs under one lock, so each is one step; the operators    *)
(* below map the state of the object to its next state, and ChatDispatch   *)
(* calls them.  The specification of this module is the most general       *)
(* caller: attempts begin, end in any way and overlap in any way.  Time is *)
(* counted in ticks, and the durations of the code are constants.          *)
(*                                                                         *)
(* Left abstract: the order in which a strategy prefers the available keys *)
(* (any of them may be chosen), token windows (they are checked like the   *)
(* request windows) and limits learned from error texts.                   *)
(***************************************************************************)
EXTENDS Naturals, FiniteSets, Sequences

CONSTANTS
    Callers,        \* chat requests, each with at most one attempt in flight
    Keys,           \* upstream key fingerprints
    Models,         \* models of the provider
    KeyRpm,         \* upstream_limits.rpm of the provider: shared by the models
    ModelRpm,       \* upstream_limits.rpm of a model, per key
    MaxConcurrency, \* upstream_limits.max_concurrency
    Minute,         \* length of the rpm window
    Transient,      \* RATE_LIMIT_TRANSIENT_COOLDOWN_SECONDS
    Ladder,         \* RATE_LIMIT_ESCALATION_LADDER_SECONDS
    HitWindow,      \* RATE_LIMIT_HIT_WINDOW_SECONDS
    ExhaustWindow,  \* RATE_LIMIT_EXHAUSTION_WINDOW_SECONDS
    Overload,       \* UPSTREAM_OVERLOAD_COOLDOWN_SECONDS
    Default,        \* DEFAULT_COOLDOWN_SECONDS
    Ceiling,        \* COOLDOWN_CEILING_SECONDS
    Midnight,       \* the time of the next UTC midnight
    Floors,         \* Retry-After hints, 0 for none
    Failures,       \* the failures upstreams answer with
    Pauses,         \* bound: manual pauses an administrator sets
    MaxTime         \* bound: length of a behaviour

FailureKinds ==
    {"rate_limit", "daily", "overload", "transient", "denied", "behavior", "overflow",
     "tool_choice", "other"}

NoKey == "no key"

ASSUME RoutingConstants ==
    /\ IsFiniteSet(Callers) /\ IsFiniteSet(Keys) /\ NoKey \notin Keys
    /\ {KeyRpm, ModelRpm, MaxConcurrency, Transient, Overload, Default, Ceiling} \subseteq Nat \ {0}
    /\ {Minute, HitWindow, ExhaustWindow, Midnight, Pauses, MaxTime} \subseteq Nat
    /\ Midnight > MaxTime
    /\ Ladder \in Seq(Nat \ {0}) /\ Ladder # <<>>
    /\ Floors \subseteq Nat
    /\ Failures \subseteq FailureKinds

VARIABLES
    now,      \* the monotonic clock
    route,    \* the UpstreamRoutingState object
    lease,    \* the slot each caller holds: an UpstreamConcurrencyLease
    calling   \* the attempt each caller has in flight

routingVars == <<now, route, lease, calling>>

Refs == Models \X Keys
Scopes == Keys \X (Models \cup {"all"})
NoCall == <<"none", NoKey>>

InitRoute ==
    [cool |-> [r \in Refs |-> 0],        \* cooldown_until, 0 for None
     hits |-> [r \in Refs |-> <<>>],     \* _rate_limit_hit_windows
     exhaust |-> [r \in Refs |-> <<>>],  \* _exhaustion_windows
     starts |-> [r \in Refs |-> <<>>],   \* _request_windows
     shared |-> [k \in Keys |-> <<>>],   \* _key_request_windows
     zero |-> [r \in Refs |-> 0],        \* reset time of a remaining = 0 reading
     active |-> [k \in Keys |-> 0],      \* _active_concurrency
     paused |-> [s \in Scopes |-> 0],    \* expiry of _manual_pauses
     pauses |-> 0,                       \* pauses set so far
     midnight |-> [r \in Refs |-> FALSE], \* a daily quota error with no success since
     unforced |-> {}]                    \* _forced_tool_choice_unsupported

---------------------------------------------------------------------------
(* Reading the state.                                                      *)

Larger(a, b) == IF a >= b THEN a ELSE b
Smaller(a, b) == IF a <= b THEN a ELSE b

\* _trim_numeric_window at time t: a window is in the order of its times, so what
\* is too old is at its head.
Outdated(times, t, seconds) == {i \in DOMAIN times : times[i] + seconds < t}
Trimmed(times, t, seconds) ==
    SubSeq(times, Cardinality(Outdated(times, t, seconds)) + 1, Len(times))

\* The window as _trim_numeric_window and _count_since see it now.
Since(times, seconds) == Trimmed(times, now, seconds)

Cooling(rt, r) == rt.cool[r] > now
ActivePause(rt, m, k) == rt.paused[<<k, "all">>] > now \/ rt.paused[<<k, m>>] > now

\* The requests of the last minute through a key, for whatever model.
KeyStarts(rt, k) == Len(Since(rt.shared[k], Minute))

UnsharedQuota(rt, k) == FALSE                                       \* mutant
\* _key_quota_block_reason without the concurrency check.
KeyQuotaBlocks(rt, k) == KeyStarts(rt, k) >= KeyRpm
SlotTaken(rt, k) == rt.active[k] > MaxConcurrency                   \* mutant
KeyBusy(rt, k) == rt.active[k] >= MaxConcurrency

\* _quota_block_reason: a remaining = 0 reading that is not reset yet, or
\* the requests of the model through the key.
ModelQuotaBlocks(rt, r) ==
    rt.zero[r] > now \/ Len(Since(rt.starts[r], Minute)) >= ModelRpm

\* select_key_from_candidates: the candidates that are not blocked.
Available(rt, m) ==
    {k \in Keys :
        /\ ~ ActivePause(rt, m, k)
        /\ ~ Cooling(rt, <<m, k>>)
        /\ ~ ModelQuotaBlocks(rt, <<m, k>>)
        /\ ~ KeyBusy(rt, k)
        /\ ~ KeyQuotaBlocks(rt, k)}

\* Every candidate is blocked by its concurrency slots alone.
OnlyBusy(rt, m) ==
    \A k \in Keys : /\ ~ ActivePause(rt, m, k) /\ ~ Cooling(rt, <<m, k>>)
                    /\ ~ ModelQuotaBlocks(rt, <<m, k>>) /\ KeyBusy(rt, k)

---------------------------------------------------------------------------
(* The methods that change it.                                             *)

\* acquire_concurrency, once KeyBusy has been excluded, and its release.
AcquireConcurrency(rt, k) == [rt EXCEPT !.active[k] = @ + 1]
ReleaseConcurrency(rt, k) == [rt EXCEPT !.active[k] = IF @ <= 1 THEN 0 ELSE @ - 1]

\* record_attempt_start, refused by a pause or by the key's shared quota.
StartRefused(rt, m, k) == ActivePause(rt, m, k) \/ KeyQuotaBlocks(rt, k)
RecordAttemptStart(rt, m, k) ==
    [rt EXCEPT !.starts[<<m, k>>] = Append(Since(@, Minute), now),
               !.shared[k] = Append(Since(@, Minute), now)]

\* mark_health("healthy"), which record_success calls.
MarkHealthy(rt, r) ==
    [rt EXCEPT !.cool[r] = 0, !.hits[r] = <<>>, !.exhaust[r] = <<>>, !.midnight[r] = FALSE]

\* record_observed_limit from a response header.
ObserveRemaining(rt, r, reset) == [rt EXCEPT !.zero[r] = reset]

\* record_forced_tool_choice_unsupported.
LearnUnforced(rt, m) == [rt EXCEPT !.unforced = @ \cup {m}]

CoolFor(rt, r, seconds) == [rt EXCEPT !.cool[r] = now + Smaller(seconds, Ceiling)]

\* mutant: Retry-After replaces the cooldown that is running.
RetryAfterWins(rt, r, floor) ==
    CoolFor(rt, r, IF floor > 0 THEN floor ELSE Transient)
\* mutant: a 429 during a cooldown counts as a new exhaustion.
ClimbsAlways(rt, r, floor) ==
    LET exhausted == Append(Since(rt.exhaust[r], ExhaustWindow), now)
    IN  [CoolFor(rt, r, Larger(Ladder[Smaller(Len(exhausted), Len(Ladder))], floor))
            EXCEPT !.exhaust[r] = exhausted]
\* The 429 branch of record_failure with _rate_limit_ladder_cooldown_seconds.
RateLimited(rt, r, floor) ==
    LET hits == Append(Since(rt.hits[r], HitWindow), now)
        exhausted == Append(Since(rt.exhaust[r], ExhaustWindow), now)
        rung == Ladder[Smaller(Len(exhausted), Len(Ladder))]
    IN  IF Cooling(rt, r) THEN CoolFor(rt, r, Larger(rt.cool[r] - now, floor))
        ELSE IF Len(hits) >= 2
        THEN [CoolFor(rt, r, Larger(rung, floor)) EXCEPT !.hits[r] = hits, !.exhaust[r] = exhausted]
        ELSE [CoolFor(rt, r, Larger(Transient, floor)) EXCEPT !.hits[r] = hits]

\* _daily_quota_cooldown_seconds.
UntilMidnight(floor) == IF floor > 0 THEN floor ELSE Midnight - now

\* record_failure: only the 429 branch looks at a cooldown already running.
RecordFailure(rt, r, kind, floor) ==
    CASE kind = "daily" ->
            [CoolFor(rt, r, UntilMidnight(floor)) EXCEPT !.midnight[r] = @ \/ floor = 0]
      [] kind = "overload" -> CoolFor(rt, r, Larger(Overload, floor))
      [] kind = "rate_limit" -> RateLimited(rt, r, floor)
      [] kind = "transient" ->
            [rt EXCEPT !.cool[r] = now + (IF floor > 0 THEN floor ELSE Default)]
      [] kind = "denied" -> [rt EXCEPT !.cool[r] = now + Default]
      [] OTHER -> rt

\* Whether record_failure asks for another key: an HTTP 429.  An overload is
\* one or is a 503.
AsksSwitch(kind) ==
    CASE kind \in {"rate_limit", "daily"} -> {TRUE}
      [] kind = "overload" -> BOOLEAN
      [] OTHER -> {FALSE}

---------------------------------------------------------------------------
(* The most general caller.                                                *)

RoutingInit ==
    /\ now = 0
    /\ route = InitRoute
    /\ lease = [c \in Callers |-> NoKey]
    /\ calling = [c \in Callers |-> NoCall]

\* What has expired by time t and the entries out of their windows: the code
\* drops them when it next looks (_cooldown_remaining, _active_pause,
\* _trim_numeric_window), the model at once.
Expire(rt, t) ==
    LET still(until) == IF until > t THEN until ELSE 0
    IN  [rt EXCEPT !.cool = [r \in Refs |-> still(@[r])],
                   !.zero = [r \in Refs |-> still(@[r])],
                   !.paused = [s \in Scopes |-> still(@[s])],
                   !.hits = [r \in Refs |-> Trimmed(@[r], t, HitWindow)],
                   !.exhaust = [r \in Refs |-> Trimmed(@[r], t, ExhaustWindow)],
                   !.starts = [r \in Refs |-> Trimmed(@[r], t, Minute)],
                   !.shared = [k \in Keys |-> Trimmed(@[k], t, Minute)]]

Tick ==
    /\ now < MaxTime
    /\ now' = now + 1
    /\ route' = Expire(route, now + 1)
    /\ UNCHANGED <<lease, calling>>

\* A slot is taken on a key that may have been chosen some time ago.
Begin(c, m, k) ==
    /\ lease[c] = NoKey
    /\ ~ KeyBusy(route, k)
    /\ IF StartRefused(route, m, k)
       THEN UNCHANGED <<route, lease, calling>>
       ELSE /\ route' = RecordAttemptStart(AcquireConcurrency(route, k), m, k)
            /\ lease' = [lease EXCEPT ![c] = k]
            /\ calling' = [calling EXCEPT ![c] = <<m, k>>]
    /\ UNCHANGED now

Freed(c) == ReleaseConcurrency(route, lease[c])

Ends(c) ==
    /\ lease[c] # NoKey
    /\ lease' = [lease EXCEPT ![c] = NoKey]
    /\ calling' = [calling EXCEPT ![c] = NoCall]
    /\ UNCHANGED now

Succeeds(c) ==
    /\ Ends(c)
    /\ route' = MarkHealthy(Freed(c), calling[c])

Fails(c, kind, floor) ==
    /\ Ends(c)
    /\ route' = RecordFailure(Freed(c), calling[c], kind, floor)

Cancelled(c) ==
    /\ Ends(c)
    /\ route' = Freed(c)

Observes(c, reset) ==
    /\ lease[c] # NoKey
    /\ route' = ObserveRemaining(route, calling[c], reset)
    /\ UNCHANGED <<now, lease, calling>>

\* pause_key and resume_key, for a model or for all.
PauseKey(s) ==
    /\ route.pauses < Pauses
    /\ route' = [route EXCEPT !.paused[s] = now + 1, !.pauses = @ + 1]
    /\ UNCHANGED <<now, lease, calling>>

ResumeKey(s) ==
    /\ route.paused[s] # 0
    /\ route' = [route EXCEPT !.paused[s] = 0]
    /\ UNCHANGED <<now, lease, calling>>

RoutingNext ==
    \/ Tick
    \/ \E c \in Callers :
          \/ \E m \in Models, k \in Keys : Begin(c, m, k)
          \/ Succeeds(c) \/ Cancelled(c)
          \/ \E kind \in Failures, floor \in Floors : Fails(c, kind, floor)
          \/ \E reset \in {0, now + 1} : Observes(c, reset)
    \/ \E s \in Scopes : PauseKey(s) \/ ResumeKey(s)

RoutingSpec == RoutingInit /\ [][RoutingNext]_routingVars

---------------------------------------------------------------------------
(* Properties.                                                             *)

RouteType ==
    [cool : [Refs -> Nat], hits : [Refs -> Seq(Nat)], exhaust : [Refs -> Seq(Nat)],
     starts : [Refs -> Seq(Nat)], shared : [Keys -> Seq(Nat)], zero : [Refs -> Nat],
     active : [Keys -> Nat], paused : [Scopes -> Nat], pauses : Nat,
     midnight : [Refs -> BOOLEAN], unforced : SUBSET Models]

\* The state stays in its type, and a caller holds a slot exactly while it has an
\* attempt in flight, of the key it calls.
RoutingTypeOK ==
    /\ now \in Nat
    /\ route \in RouteType
    /\ lease \in [Callers -> Keys \cup {NoKey}]
    /\ calling \in [Callers -> Refs \cup {NoCall}]
    /\ \A c \in Callers : lease[c] = calling[c][2] /\ (lease[c] # NoKey => calling[c] \in Refs)

\* A key's slots are exactly the leases callers hold and never exceed
\* max_concurrency: no attempt leaks a slot, however it ends.
SlotsHeld ==
    \A k \in Keys :
        /\ route.active[k] = Cardinality({c \in Callers : lease[c] = k})
        /\ route.active[k] <= MaxConcurrency

\* The requests started through a key within any minute, over all the models,
\* stay within its shared rpm, though a key is chosen well before the attempt
\* starts and its shared window is kept apart from those of the models.
StartsThrough(rt, k) == UNION {{m} \X DOMAIN rt.starts[<<m, k>>] : m \in Models}
KeyQuotaHeld == \A k \in Keys : Cardinality(StartsThrough(route, k)) <= KeyRpm

\* Two exhaustion events of a key are separated by a cooldown: a burst of
\* 429s from overlapping requests and retries climbs one rung of the ladder.
BurstClimbsOnce ==
    \A r \in Refs : \A i \in 1 .. Len(route.exhaust[r]) - 1 :
        route.exhaust[r][i] < route.exhaust[r][i + 1]

\* A key serves no more requests at once or in a minute than it may, loses no
\* slot, and a burst of 429s climbs one rung of its ladder.
KeysHeld == SlotsHeld /\ KeyQuotaHeld /\ BurstClimbsOnce

\* A cooldown that is running is only cut short by an attempt on its own key and
\* model: a success clears it, a failure of another class puts its own in the
\* place, and a 429, in whatever order the attempts of a burst end, leaves it at
\* least as long, up to the ceiling. No failure makes the key free at once
\* (record_failure, record_success).
FailsSomehow(c) == \E kind \in Failures, floor \in Floors : Fails(c, kind, floor)
CutShort(r) == Cooling(route, r) /\ now' < route.cool[r] /\ route'.cool[r] < route.cool[r]
RateLimitKeeps ==
    \A c \in Callers, floor \in Floors :
        (Fails(c, "rate_limit", floor) /\ Cooling(route, calling[c]))
            => route'.cool[calling[c]] >= Smaller(route.cool[calling[c]], now + Ceiling)
CutByItsOwn ==
    \A r \in Refs : CutShort(r) =>
        \E c \in Callers :
            calling[c] = r /\ (Succeeds(c) \/ (FailsSomehow(c) /\ route'.cool[r] > now))
CooldownHeld == [][RateLimitKeeps /\ CutByItsOwn]_routingVars

\* A key that ran out of its daily quota is not chosen again before midnight,
\* unless a request through it succeeded.  This does not hold: see the README on
\* a "daily" and an "overload" failure of overlapping requests.
DailyQuotaHeld ==
    \A r \in Refs :
        (route.midnight[r] /\ now < Smaller(Midnight, Ceiling)) => r[2] \notin Available(route, r[1])

============================================================================
