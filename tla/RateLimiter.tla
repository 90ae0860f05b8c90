---------------------------- MODULE RateLimiter ----------------------------
(***************************************************************************)
(* RateLimiter (services/rate_limiter.py): the sliding window of one       *)
(* virtual key.  Requests are admitted when they start and charged their   *)
(* tokens when they end, in any order and any number of times; expired     *)
(* events leave lazily, at the next call.                                  *)
(***************************************************************************)
EXTENDS Naturals, Sequences, FiniteSets, FiniteSetsExt, SequencesExt

CONSTANTS RateRequests, TokenCounts, Window, RpmLimit, TpmLimit, MaxRateTime

VARIABLES rlNow, rlEvents, rlRpm, rlTpm,
          rlOpen,       \* request_events entries still without an event
          rlTerminal,   \* request_events entries whose event is in the window
          rlAdmitted,   \* history: <<request, time>> of each admission since the last reset
          rlSpent       \* history: tokens of each attribution since the last reset, with its time

rlvars == <<rlNow, rlEvents, rlRpm, rlTpm, rlOpen, rlTerminal, rlAdmitted, rlSpent>>

RLInit == /\ rlNow = 0 /\ rlEvents = << >> /\ rlRpm = 0 /\ rlTpm = 0
          /\ rlOpen = {} /\ rlTerminal = {} /\ rlAdmitted = {} /\ rlSpent = {}

Total(s, F(_)) == FoldLeft(LAMBDA acc, e : acc + F(e), 0, s)

\* mutant: an expired charge leaves the window but not the token count
PurgeKeepsTokens(now) ==
  LET old == SelectSeq(rlEvents, LAMBDA e : e.ts + Window < now) IN
  [events |-> SelectSeq(rlEvents, LAMBDA e : e.ts + Window >= now),
   rpm |-> rlRpm - Total(old, LAMBDA e : e.rpm),
   tpm |-> rlTpm,
   terminal |-> rlTerminal \ {old[i].req : i \in DOMAIN old}]

\* _purge: what the window is once the expired events are dropped.
Purge(now) ==
  LET old == SelectSeq(rlEvents, LAMBDA e : e.ts + Window < now) IN
  [events |-> SelectSeq(rlEvents, LAMBDA e : e.ts + Window >= now),
   rpm |-> rlRpm - Total(old, LAMBDA e : e.rpm),
   tpm |-> rlTpm - Total(old, LAMBDA e : e.tokens),
   terminal |-> rlTerminal \ {old[i].req : i \in DOMAIN old}]

KeepPurged(p) == /\ rlEvents' = p.events /\ rlRpm' = p.rpm /\ rlTpm' = p.tpm
                 /\ rlTerminal' = p.terminal

\* admit_request; a repeated identifier is admitted without counting while it
\* is open and refused once it is terminal.
AdmitRequest(r) ==
  LET p == Purge(rlNow)
      refused == r \in rlOpen \cup p.terminal \/ p.rpm >= RpmLimit \/ p.tpm >= TpmLimit IN
  /\ \/ refused /\ KeepPurged(p) /\ UNCHANGED <<rlOpen, rlAdmitted>>
     \/ /\ ~refused
        /\ KeepPurged([p EXCEPT !.events = Append(@, [ts |-> rlNow, tokens |-> 0, rpm |-> 1, req |-> "none"]),
                                !.rpm = @ + 1])
        /\ rlOpen' = rlOpen \cup {r}
        /\ rlAdmitted' = rlAdmitted \cup {<<r, rlNow>>}
  /\ UNCHANGED <<rlNow, rlSpent>>

\* attribute_request_tokens: once, however often the end is reported.
AttributeRequestTokens(r, n) ==
  LET p == Purge(rlNow) IN
  /\ \/ r \notin rlOpen /\ KeepPurged(p) /\ UNCHANGED <<rlOpen, rlSpent>>
     \/ /\ r \in rlOpen
        /\ KeepPurged([p EXCEPT !.events = Append(@, [ts |-> rlNow, tokens |-> n, rpm |-> 0, req |-> r]),
                                !.tpm = @ + n, !.terminal = @ \cup {r}])
        /\ rlOpen' = rlOpen \ {r}
        /\ rlSpent' = rlSpent \cup {[req |-> r, tokens |-> n, ts |-> rlNow]}
  /\ UNCHANGED <<rlNow, rlAdmitted>>

\* reset, when a key's counters are cleared or the key goes.
ResetWindow == /\ rlEvents' = << >> /\ rlRpm' = 0 /\ rlTpm' = 0
               /\ rlOpen' = {} /\ rlTerminal' = {} /\ rlAdmitted' = {} /\ rlSpent' = {}
               /\ UNCHANGED rlNow

RateTick == /\ rlNow < MaxRateTime /\ rlNow' = rlNow + 1
            /\ UNCHANGED <<rlEvents, rlRpm, rlTpm, rlOpen, rlTerminal, rlAdmitted, rlSpent>>

RLNext == \/ \E r \in RateRequests : \/ AdmitRequest(r)
                                     \/ \E n \in TokenCounts : AttributeRequestTokens(r, n)
          \/ ResetWindow \/ RateTick

-----------------------------------------------------------------------------
\* Over every interval as long as the window at most RpmLimit requests were
\* admitted, and the counters, once purged, are exactly the admissions and the
\* tokens of that interval: no charge is counted twice, lost, or outlives it.
WindowExact ==
  LET p == Purge(rlNow)
      recent == {a \in rlAdmitted : a[2] + Window >= rlNow}
      spent == {s \in rlSpent : s.ts + Window >= rlNow} IN
  /\ Cardinality(recent) <= RpmLimit
  /\ p.rpm = Cardinality(recent)
  /\ p.tpm = MapThenSumSet(LAMBDA s : s.tokens, spent)
  /\ p.terminal = {s.req : s \in spent}
=============================================================================
