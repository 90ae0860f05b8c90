# TLA+ verification of LLMApiGateway

LLMApiGateway is a single-process asyncio gateway in front of LLM providers.
This directory holds a TLA+ development of it: modules that model the stateful
parts, TLC configurations that check them on small instances, and TLAPS proofs.
Paths below are relative to `src/llm_gateway_core/` unless they start with
`src/`.

## 1. The system

A request passes the middleware (authentication and the address blocklist, rate
window, a lease on the current runtime generation, a budget reservation), and is
then served by an endpoint: chat is dispatched over a chain of fallback rules to
upstream keys, an ensemble asks several models, the other operations try their
routes. A streamed answer runs through filters and a dialect converter, is
observed by the logging middleware while the client reads it, and ends by
committing one usage event. Around this run a projector that settles usage
events, batchers that write logs, refreshers that score models, the publication
of new configurations, the owner of deep-research processes, and an orderly
start and shutdown. Offline tools move the state of a deployment.

| Component | State it keeps | Operations | What makes it correct |
|---|---|---|---|
| Runtime generations (`services/runtime_config.py`) | generations with lease counts and HTTP clients, unpublished slots, manager status | lease, retain, release, open slot, publish, discard, close tasks, recovery, shutdown | a leased snapshot stays usable; no client leaks or is closed twice; retiring is bounded; shutdown ends |
| Accounting (`services/accounting_service.py`, `db/tokens_usage_db.py`, `db/api_keys_db.py`, `services/access_control.py`) | sessions, three tables of unsettled events, fences, drain lock; outbox; receipts and spend; reservations | start, reserve, commit, release, project, retry, key update/reset/delete, stop | an event is charged once and never lost; budget held; a clean stop means settled books |
| Usage history (`db/tokens_usage_db.py`, `db/accounting_schema.py`) | raw rows, hourly and lifetime counters, schema version | accept, migrate, retire | counters that outlive the rows count each event once |
| Write batcher (`db/write_batcher.py`) | pre-start buffer, handoffs, queue, batch, counters | enqueue (loop and threads), flush, split, dead-letter, stop | every accepted write ends exactly once, in order |
| Request serving (`middleware/response_observation*.py`, `middleware/auth.py`, `services/active_requests.py`) | what one request owns: reservation, admission, entry, terminal owner | admit, observe, flush, finalize, abort, clean up | settled exactly once, before the client sees the end; nothing outlives the request |
| Chunk observer (`middleware/chat_logging.py`) | queue and leases per response | feed, wait, process, abort | capacity balanced; a client never waits for its own observer |
| Gates (`services/upload_admission.py`, `services/stream_observation.py`, `services/rate_limiter.py`, `services/ip_blocklist.py`) | active bytes, FIFO of waiters; sliding window; failures and bans | acquire, withdraw, absorb, release, close; admit, attribute, purge; report, scan, release | no grant leaks to a withdrawn waiter; counters equal the window; a ban rests on counted failures |
| Upstream key routing (`services/upstream_routing_state.py`) | cooldowns, windows, slots, pauses, readings | select, acquire/release slot, record start/failure/success, pause | slots balance; quotas hold under overlap; only success shortens a cooldown |
| Chat dispatch (`api/v1/chat_dispatch.py`, `api/v1/chat_accounting.py`) | per-request retry, sub-provider, key-switch and budget counters | begin rule, acquire, call, probe, switch, downgrade, fall back, abort | attempts are bounded; the slot follows the call; one publication to accounting |
| Ensembles and router (`services/fusion_ensemble.py`, `services/router_model.py`) | panel slots, components of the bill | ask, tool rounds, refill, judge, main, decide | the manifest holds what answered, or the request fails |
| Upstream stream (`services/request_handler.py`) | leases of raw, framed and primed bytes | open, prime, read, forward, finish, close | all leases return; an error is told from an end; failover only before anything was shown |
| Filters and dialects (`api/v1/chat_streaming.py`) | buffers per choice; blocks, items and usage per stream | strip, sanitize, rescue; convert, observe | independent of chunking; the client's protocol is obeyed; the bill is the last usage |
| Config files (`config/atomic_config_transaction.py`, `config/comments_backup.py`, `services/config_updates.py`) | journal, candidate and rollback artifacts; backups; commit lock and job states | prepare, commit, rollback, finalize, recover; publish, rotate; update, resync, close | a crash or a concurrent edit loses nothing; file and runtime agree or a restart is demanded |
| Lifecycle (`src/main.py`, `services/single_process.py`, `services/task_supervisor.py`) | lock file and session secret; stack of cleanups; supervised tasks | bootstrap, start steps, drain, shutdown | one gateway per directory; whatever was opened is closed, in order |
| Deep research (`services/deep_research_process.py`, `services/deep_research_accounting.py`) | slots, processes and groups; parents, children, receipts | run, callback, terminate, reap, close; begin, admit, complete, drain, roll up | no process outlives its run; the rollup is exactly the children's receipts |
| Model scoring (`services/openrouter_free_models.py`, `services/fallback_model_evals.py`) | refresh tasks, snapshot, leases, lifecycle | start, refresh, evaluate, stop | one refresh at a time on a leased generation; stop ends all |
| Other operations (`api/v1/audio.py`, `images.py`, `embeddings.py`, `pdf.py`, `operation_*.py`) | routes, attempts, branches, uploads, jobs | take owner, try, retry, finalize, poll, disconnect | paid once, whole body sent, memory returned |
| Web research (`api/v1/web*.py`) | articles, candidate groups, sources, tasks | plan, search, read, extract, merge, rank, answer | evidence is grouped as the names connect it; an answer rests on pages read |
| Image volume (`services/image_storage*.py`, `image_retention.py`) | files, restore marker, backups | publish, retire, restore, back up | a reported image survives; a restored volume is whole |
| Migration (`src/docker/*systemd_migration*.py`) | snapshots, temporary names, targets | plan, copy, verify, link, clean up | a published target is a consistent copy; nothing is replaced |

The remaining parts (validation of configurations, statistics, administration,
user interface) parse, format or read; `PROJECT.json` lists each with the reason
it is left out.

**How the parts interact.** A request holds a generation lease for its whole
life, and the provider settings chat dispatch reads come from that snapshot.
Dispatch calls routing synchronously between awaits, so every await is a point
where another request may take the slot or the quota it has just been offered.
The answer is handed to accounting through a one-shot owner and committed when
the response ends; the observation middleware decides when that is. The
accounting service calls its databases in worker threads; its drain lock orders
projection, key mutations and stop. The upstream stream and the observer draw on
shared capacities of bytes, so that streams wait for one another. Logs go through
write batchers, also from threads. A configuration update writes the file and
then publishes a generation; scoring and research hold generations as well.

**What is hard.** Interleavings at awaits (everywhere), threads handing items to a
loop (batcher), database calls that fail before or after they become durable
(accounting), crashes between two statements, two renames or a rename and its
sync (history, config files, images, migration), an operator who edits the same
directory (config files, backups, lock file), cancellation at any await, streams
that wait for each other's bytes, chunks that cut anything anywhere, bursts of
errors that come back in another order than they were caused (routing), processes
that do not die (research), and shutdown against all of these.

## 2. Modules

| Module | Models | State |
|---|---|---|
| `RuntimeGenerations` | `RuntimeGenerationManager` | `gen` joins `_generations`, `_failed_generations` and the terminal history; `slot` is `_unpublished_slots`; `pc`, `awaiting`, `work`, `lock` are the shutdown task and `retry_failed_cleanup` between their awaits |
| `RuntimeGenerationsProofs` | theorems about it | |
| `WriteBatcher` | `WriteBatcher` | the three places an item waits, `pending` for the split batch, the health counters, `rows`/`deadLetters` as what is durable |
| `Accounting` | `AccountingService` with source, sink and ledger | `mem` is lost in a crash, `db` is on disk; `owner`/`step` say who holds the drain lock and where in the drain it stands |
| `AccountingProofs`, `AccountingBooksProofs` | theorems about it: the contract; reservations, backlog, the settled stop and the resets | |
| `SpendContract` | what accounting promises about money | `accepted`, `charged`, `spent`; refined by `Accounting` |
| `UsageHistory` | usage tables, retention, schema migrations | `uh.db` is committed, `uh.tx` the open transaction's view, `uh.acked` what deliveries were told |
| `StorageProofs` | theorems about `UsageHistory`, `SystemdMigration`, `ImageVolume` and `Lifespan` | |
| `UpstreamRouting` | `UpstreamRoutingState` | `route` is the object: per model the cooldowns, ladders and windows, per key the slots and the window shared by its models; `lease` and `calling` are the callers' attempts |
| `ChatDispatch` | `dispatch_chat_request`, `attempt_model_fallback_rule`, `_acquire_upstream_slot` | `req` holds the local variables of each request; extends `UpstreamRouting` and calls its operators |
| `ChatDispatchProofs` | theorems about `UpstreamRouting` alone, about `ChatDispatch`, and about routing as dispatch drives it | |
| `Ensembles` | Fusion and router models | `en.slots` is a member per place of the panel, `comps` and `manifest` what is billed |
| `UpstreamStream` | `_make_streaming_request` and the reader under it | per stream the stage it is in and its leases; the capacity with its waiters |
| `StreamFilters` | think, JSON and rescue filters, the error guard | `fl.stages` is the pipeline, `sts` the buffers of its stages |
| `StreamDialects` | the converters and the observer behind them | `dl` holds the converter's state, what the client got and what will be billed |
| `Serving` | one request through its middlewares | `sv`: what it owns, what was sent, who settles it |
| `ServingProofs` | theorems about it: paid before delivered, nothing left behind; about the sums of `UploadAdmission` and `StreamCapacity`; about the leases of `UpstreamStream` | |
| `Sums` | lemmas on sums over finite sets, by induction on the set | |
| `ChunkObserver` | `ChunkProcessor` | `co.st`: queue, bytes and task per stream; the capacity seen from its owners |
| `UploadAdmission`, `StreamCapacity` | the two FIFO capacities | a task and a future per waiter: between the resolution of a future and the run of its task anything may happen |
| `SSEFraming` | `SSEFramer` | buffer and search positions against the history of all bytes fed |
| `RateLimiter` | the window of one key | events, and what each request still has to report |
| `IpBlockGuard` | one address: guard, auth middleware, events, scan | memory, the batched events and the ban table, under one clock |
| `AtomicConfig` | one config transaction with its recovery | `fs` is the directory, `disks` every directory a power loss may leave |
| `CommentsBackup` | the backup lifecycle next to an operator | inodes under public and private names |
| `ConfigUpdates` | `ConfigUpdateCoordinator` | jobs between their awaits, the files, the published generation; the transaction is the contract `AtomicConfig` checks |
| `Lifespan` | `lifespan()` of two processes over one directory | the lock file's inode and mode, each lifespan's position and stack |
| `ResearchRunner`, `ResearchAccounting` | processes of deep research; their receipts | runs with their processes and signals; parents with their children |
| `ModelScoring` | refresh, evaluation, stop | tasks with their leases, the snapshot |
| `OwnersProofs` | theorems about `ConfigUpdates`, `ResearchRunner`, `ResearchAccounting` and `ModelScoring` | |
| `Operations`, `WebResearch` | the other operations; web research | requests with their branches; one research with its evidence matrix |
| `ImageVolume`, `SystemdMigration` | image volume; migration of a host | what is seen and what is durable |

Modules compose in the `MC...` modules, which also give constants their values:
`MCServing` (serving, observer, batcher, uploads), `MCTraffic` (gates, routing,
ensembles), `MCStreams` and `MCChatAnswers` (upstream stream, filters, dialects
and the chain that calls them), `MCFaults` (all that survives a crash or meets
failing parts), `MCOwners` (services that own work in memory), `MCAccounting`,
`MCChatDispatch`, `MCRuntimeGenerations`. Parts that share no state are stepped
one at a time: `focus` names the part a behaviour steps, and a part that does not
step has one initial state. That adds the parts' states instead of multiplying
them; the properties they are joined in are conjunctions, each part's conjunct
about the behaviours that step it.

One action is the code between two awaits (or, for a thread, between two
acquisitions of a lock; on disk, one system call), so that the actions are the
atomic pieces the event loop or the operating system schedules. Abstractions that
deserve a word:

- *Database calls.* A call made under the drain lock is one step with the code
  that follows it, since nobody else can see the state in between; calls made
  without the lock are two steps. A failing call either left nothing or, with
  `Ambiguous`, became durable before it failed.
- *Synchronous stretches of dispatch.* The places `chain`, `loop` and `acquire`
  have no await; while a request is in one, no other request moves (`Runs`).
- *Choice of keys.* Routing strategies only order the available keys, so the
  model picks any of them.
- *Disks.* An entry that was not synced is kept or lost after a power loss, each by
  itself; a file's identity is its inode with its digest.
- *Texts.* A text is a short sequence of letters over tags with the prefixes and
  overlaps of the real ones; in `StreamDialects` it is the item it belongs to.
- *Calls of other parts.* `Ensembles` and `Operations` call models as atomic steps
  with all their outcomes; `Serving` hands the reservation over once, what
  happens to it then is `Accounting`.

The definitions marked `\* mutant` are plausible wrong versions of the definition
that follows them. They are used by no action; replacing the correct definition by
one of them makes TLC refute a property, which shows that the property depends on
that code. `PROJECT.json` pairs one with each property; a property that is a
conjunction has further ones, which break its other conjuncts:

| Property | Definition → mutant |
|---|---|
| `RuntimeSafe` | `Release` → `ReleaseTwice`, `RetireCurrent` → `KeepActive` |
| `NothingLeaks` | `OwnsHttpClient` → `OwnsUnpublishedOnly`, `ScheduleCleanup` → `ScheduleForgets`, `Recovered` → `SlotsRecovered` |
| `RuntimeSettles` | `ClosesNow` → `NeverCloses` |
| `BooksBalance` | `AcceptSourceResult` → `AcceptUntracked`, `TerminalClean` → `ForgivesFatal`, `CommitRequest` → `CommitRefunds` |
| `LedgerKept` | `RecoverSession` → `RecoversUncharged` |
| `ChargesOnce` | `MutatedBy` → `MutationDropsReceipts` |
| `AccountingSettles` | `WakeProjector` → `NoWake`, `Publish` → `PublishNothing`, `RetainForRetry` → `RetainsNothing` |
| `NothingHeld` | `Cleanup` → `CleanupForgets`, `WithdrawUpload` → `WithdrawOnly` |
| `WritesKept` | `HasCapacity` → `OverCapacity`, `Halves` → `HalvesSwapped`, `StopSeesNoHandoff` → `StopSkipsHandoffs` |
| `ServingSettles` | `EndAbort` → `AbortAwaitsSuccess`, `StopsAfter` → `SentinelLost`, `ItemReady` → `WaitsForFullBatch`, `CloseUploads` → `CloseForgetsWaiters` |
| `AdmissionExact` | `Purge` → `PurgeKeepsTokens` |
| `ShownExactly` | `FinalizeChoice` → `FinalizeClaims` |
| `AnswerFaithful` | `Observe` → `ObserveLast`, `FinishStream` → `FinishAlways` |
| `KeysHeld` | `KeyBusy` → `SlotTaken`, `RateLimited` → `ClimbsAlways` |
| `SlotsFollowRequests` | `NextRetry` → `RetriesUncounted` |
| `ConfigKept` | `RollbackCleanup` → `RollbackKeepsCandidate`, `ConfirmReplaced` → `ReportsEarly`, `CommitJournal` → `JournalSkipped`, `AbortSync` → `SyncForgotten` |
| `LifespanSafe` | `DrainStep` → `DrainImpatient`, `DrainStep` → `DrainAbruptly` |
| `ImagesKept` | `SyncParent` → `MakeUnsynced` |
| `OperationsExact` | `UploadHandle` → `SharedHandle` |
| `AnswersGrounded` | `Filter` → `FilterNothing` |
| `NothingTaken` | `Publish` → `PublishOver`, `SyncOutputs` → `SyncLoosely` |
| `OwnersSettle` | `ReapTimeout` → `ReapPatiently`, `AbortChild` → `AbortQuietly`, `CancelOwned` → `CancelManual` |

## 3. Runs

Deadlock is not checked in runs where the system may rest (all requests done,
stopped, or a part that has nothing left to do).

| Run | Checks | Bounds and why they suffice |
|---|---|---|
| `runtime_generations` | `RuntimeSafe`, `NothingLeaks`, `RuntimeSettles` | 3 generations (current, retiring, refused or next), 3 slots, 2 leases (one outlives the other), 2 clients, cap 1 so that the cap is met |
| `accounting` | `BooksBalance`, `LedgerKept`, `ChargesOnce`, `ResetsSettled` | 3 requests of one key with a budget for two, one ambiguous and one permanent failure, one crash, a retained table of 2 so that it fills; with two requests also an update, a due reset and a deletion of the key |
| `accounting_liveness` | `AccountingSettles` | 2 requests, one passing failure |
| `serving` | `NothingHeld`, `PaidBeforeDelivered`, `WritesKept`, `ServingSettles` | one request with every way to end; 2 observed streams sharing 2 queue items and 3 bytes; a loop and a thread producer, 3 writes, capacity 3, batch 3 (splits twice); 3 uploads of 3, 2 and 1 of 3 bytes, so that a big head blocks small ones |
| `traffic` | `AdmissionExact`, `ChunkingInvisible`, `KeysHeld`, `EnsembleBilled`, `BansJustified`, `CooldownHeld` | 3 chunks, events of at most 3 bytes out of 7; 3 requests in a window of 2; 2 authentications; 3 overlapping callers (interchangeable, so symmetric) of one key with 2 slots and 2 requests a minute, a ladder of 2 rungs, all five classes of failure in any mix and a `Retry-After` beyond the ceiling; a panel of 2 with a reserve |
| `chat_dispatch` | `SlotsFollowRequests`, `ChainBudget`, `HandoffOnce`, `ChainEnds` | a streaming and a plain request, two keys of one slot, a chain of a rule with a sub-provider and a plain one, plus the overflow fallback; rate limits, overflows and refused tool choices; budget 2 |
| `chat_answers` | `CallsBounded`, `StreamsReturnAll`, `ShownExactly`, `AnswerFaithful` | one request without a budget: retries, sub-providers, two keys, the downgrade; two upstream streams over one capacity; texts around every tag; 5 stream events |
| `faults` | `ConfigKept`, `LifespanSafe`, `ImagesKept`, `MigrationWhole`, `HistoryKept`, `OperationsExact`, `AnswersGrounded`, `NothingTaken` | one config edit with a foreign editor of 2 edits, 2 crashes and an I/O error, so that a recovery is interrupted too; 4 backup names; 2 processes over one directory; 2 crashes or failed steps in the image volume and in the migration, 2 deaths and 2 failed calls for the history; in the volume two backups run together only while nothing else does (`Together`) |
| `owners` | `FileMatchesRuntime`, `NothingOutlivesItsRun`, `RollupExact`, `ScoringConsistent`, `NoLostUpdate`, `OwnersSettle` | 2 updates of 2 sources with an outside edit; 2 research runs for one place; a parent with 3 children; 2 models over 2 generations |
| `accounting_fatal` (violation) | `RetryAnswered` | as `accounting_liveness`, plus one permanent failure |
| `stream_stall` (violation) | `NoCircularWait` | 3 streams over 3 bytes, each holding a raw chunk |
| `stream_truncated` (violation) | `TruncationNeverMasked` | one dialect stream of 3 events that stops without a finish reason |

Names that join several statements: `RuntimeSafe` is `TypeOK`, `LeaseSafety`,
`LeaseCount`, `OneActive`, `SingleOwner`; `NothingLeaks` is `RetiringBound`, `NoLeak`,
`StoppedClean`; `BooksBalance` is `TypeOK`, `ReservationsBalance`, `UnsettledTracked`,
`StoppedSettled`; `LedgerKept` is `BacklogKept`, `LedgerCovers`, `BudgetHeld`; `ServingSettles` includes
`UploadServed`; `NothingHeld` is `NothingLeftBehind`,
`ObserverBalanced`, `UploadsAccounted`; `WritesKept` is `HealthInvariant`, `ExactlyOnce`,
`ProducerOrder`, `StopReport`; `AdmissionExact` is `CapacityAccounted`, `WindowExact`;
`KeysHeld` is `SlotsHeld`, `KeyQuotaHeld`, `BurstClimbsOnce`; `ShownExactly` is
`FiltersExact`, `RescueSound`; `AnswerFaithful` is `DialectFaithful`, `UsageBilled`,
`TruncationShown`; `ConfigKept` is `NoLostEdit`, `EditorWins`, `RefusedOnlyByEditor`,
`PromiseDurable`, `BackupSettled`; `LifespanSafe` is `OneGateway`, `LifespanClean`;
`OperationsExact` is `OperationsAccounted`, `BodiesWhole`; `AnswersGrounded` is
`MatrixExact`, `ResearchGrounded`; `NothingTaken` is `OnlyBackupsDestroyed`,
`NothingReplaced`, `RestoreWhole`.

**What the violation runs show.**

- `accounting_fatal`: a commit whose source write failed waits on
  `session.retry_result`; when another request then meets a *permanent* source
  error, the projector leaves its loop (`services/accounting_service.py:2375`)
  without failing the waiters, so the commit is never answered and `stop()` waits
  at `_session_drain.wait()`. `src/tests/test_accounting_service.py:3304` tests that
  a terminal failure unblocks commit and stop, for the order of events in which
  it does.
- `stream_stall`: a reader keeps the lease of a raw chunk while it waits for the
  framer's copy of it (`services/request_handler.py:392`). When the raw chunks of all
  streams fill the capacity, every stream waits for bytes only another could
  return. `src/README.md:630` promises backpressure.
- `stream_truncated`: the Messages and Responses converters end a stream that
  stops without a finish reason as a completed answer
  (`api/v1/chat_streaming.py:1743`, `2035`, `1449`), against the comment at
  `services/request_handler.py:1718`.

**Observations without a run.** Changing constants shows more behaviour that
maintainers may want to know. It contradicts no doc unless one is named.

*Accounting.*
- The record a key update read can replace the ledger entry after a later charge
  (`services/accounting_service.py:1636`, `services/access_control.py:71`), so with
  mutations and a commit in flight `LedgerCovers` can fail; the run's part `keys`
  therefore checks the contract, the books and the resets, not the ledger, and no
  property covers that hazard.
- A mark that committed but failed its read-back, or an event the sink refuses,
  keeps the unsettled tables from emptying, and a block is only lifted at zero.
- A mutator's drain can project an event whose acceptance is still on its way
  back; the late acceptance puts it back into the pending table, and a passing
  block may then never lift. `accounting_liveness` has no mutations and one fault.
- With an ambiguous accept, a reset draining and a permanent failure the reset
  job ends without the fatal flag.
- A permanent failure met by the retry a key mutation makes drops the event from
  its table, and the service goes on (`:2160`); `UnsettledTracked` names this as its
  one exception.
- `delete_key` begun while a reset is pending, whose reset then finishes
  meanwhile: if the deletion fails or finds nothing to delete, it restores the
  fence of a reset nobody has pending any more (`:1779-1831`), and admission,
  updates and further deletions of the key are refused until a restart.

*Routing and dispatch.*
- `record_failure` assigns a shorter cooldown over one that runs until midnight;
  an overlapping failure of another class reopens a key whose daily quota is gone,
  while `src/README_EN.MD:1020` says that "daily-quota errors block the key until UTC
  midnight" (`services/upstream_routing_state.py:532-581`). `CooldownHeld` therefore
  claims what the code keeps: a running cooldown is cut short only by a success or
  a failure of its own key and model, never by a rate limit, and no failure frees
  the key at once. TLC refutes the documented statement, `DailyQuotaHeld`, under
  the constants of `traffic`, and with `Failures = {"daily", "overload"}` alone.
- In the sub-provider loop the tool_choice downgrade repeats the call without
  asking for the budget, so a request can make one call more than
  `max_total_attempts`, "a hard cap on the total number of attempts" in
  `src/README_EN.MD:43` (`api/v1/chat_dispatch.py:1455-1456`). The run `chat_dispatch`
  reaches that call; `ChainBudget` states that there is one such call at most and no
  other way past the cap. TLC refutes the cap without the exception.
- A streamed dialect answer without usage is not billed, against `src/README.md:30`
  (`api/v1/chat_streaming.py:845`; `AnsweredIsBilled`).

*Config files.*
- A crash between the creation and the writing of `journal.prepared` leaves a torn
  journal that recovery refuses (as `tests/test_atomic_config_recovery.py:330` wants).
- A rollback retried after its last fsync failed is refused, though its docstring
  promises a retry. An editor who deletes the file during recovery can bring an
  earlier edit back.
- An outside edit between commit and bind makes the coordinator broken until
  restart; a pending finalize or backup blocks all updates until close.
- When closing a directory descriptor reports an error after it closed it, the
  cleanup of a rotation cannot finish; abort recovers.

*Gates and observers.*
- An SSE event of exactly the size limit is refused when a chunk boundary splits
  its CRLF delimiter, and accepted in one chunk.
- A failed key lookup counts as a failed authentication; the scan holds the
  guard's lock during database work.
- `check`, `record`, `try_acquire` and `add_tokens` of the rate limiter have no caller;
  events never attributed are never purged.
- A gzip-probe lease granted after the processor was cancelled at shutdown is
  not returned (`ObserverBalanced` exempts cancelled processors).

*Streams.*
- Buffers are keyed by the position of a choice in the chunk, not by its index;
  content in the finish chunk passes unfiltered; at an end without a finish or
  `[DONE]` the think filter drops up to 7 letters; a text that is only a prefix of a
  tag is dropped.
- Rescue of tool calls depends on chunking, is switched off by a delta without
  text, and can leave the finish reason at `stop`.

*Lifecycle, research, scoring.*
- If a process survives SIGKILL for two seconds while its run awaits a frame, the
  socket is closed under the pending read and `aclose` waits for ever
  (`RunnerPending` exempts it). A cancelled run whose cleanup fails raises the
  cleanup's error in place of the cancellation.
- `lifespan()` closes the configuration coordinator before the supervisor whose
  capability-autofill task calls it (`src/main.py:878`, `902-906`, `337-366`). The
  coordinator waits for an update it admitted and answers a later one with
  `UPDATE_UNAVAILABLE`, which the task logs; `LifespanClean` names it (`Refusing`) as
  the one resource closed before a user of it.

*Operations.*
- `src/README.md:275` says embeddings are recorded without a downstream `usage`, but
  the component builder raises and the request fails over. An answer of the first
  route that cannot be priced is dropped, though the upstream was paid.
- Upload-admission errors bypass fallback routes. A PDF job is charged by the
  status poll that sees success, not by result or download.
- A panel member that answered tool rounds and then fails is not billed, nor is
  a failed decision call.

*Files.*
- When the fsync after `mkdir` of a research directory fails, the publication
  fails, but the next one finds the directory, syncs only inside it and reports
  its image: a crash may take the directory with the image
  (`services/image_storage.py:173-180`; `shaky` in `ImageVolume`, the exception of
  `ImagesKept`).
- When the fsync after the restore's `os.replace` fails, the marker stays; a second
  restore finds the volume complete and clears the marker without syncing the
  rename first (`services/image_storage_cli.py:188-189`, `211-212`). A crash may then
  keep the removal of the marker and lose the rename, and the gateway starts on a
  volume without what was restored (`unsynced`, the exception of `RestoreWhole`).
- A roll-back unlink of a backup that fails leaves an archive without a manifest
  (`services/_image_storage_cli_archive.py:69-115`); the tool reports
  `backup-cleanup-failed` (`dirty` in `ImageVolume`).
- After a failed fsync a crash can bring a restore marker back that the gateway
  believes removed; start and restore then refuse until it is removed by hand. A
  leftover temporary file does the same to a restore or a migration plan.
- `insert_usage` and `insert_usage_once` (no caller) would add rows without the fold
  into the hourly counters; the cleanup of `fallback_events` compares naive local
  time with UTC.

## 4. Fairness

The liveness properties assume what the event loop and the operating system give:

- every ready task or callback eventually runs, a worker thread's database call
  ends, a process that was killed dies (weak fairness of each step of the
  gateway's tasks);
- `asyncio.Lock` is first come, first served, so a waiter gets it (strong fairness
  of taking `_recovery_lock` and the drain lock);
- requests that hand one generation on to each other are finitely many (strong
  fairness of the last release of a generation);
- a request ends: handlers have timeouts, retry delays are finite, a stream ends
  or its client leaves. Lease release, commit or release of a reservation, the
  endpoints in `Serving` and every step of a dispatch are fair for that reason.

Nothing outside is fair: publishes, failures, cancellations, administrators,
enqueues, time, children of deep research and the closing of the loop may or may
not happen. Liveness is stated as "it is again and again true that nothing is
pending".

## 5. Proofs

TLC checks small instances; the theorems below hold for every value of the
constants. Each follows from an inductive invariant. The lemmas come in three
kinds: what an operator or an action does, field by field (`...Effect`); what a kind of change
preserves (`...Kept`, `...Keeps...`); and the step of the invariant, one case per
action or group of actions that write the same fields.

**Runtime generations** (`RuntimeGenerationsProofs`; any number of generations,
slots, leases and clients, any retiring cap). `TypeCorrect`, `LeasesSafe`,
`LeasesCounted`, `CurrentActive`, `ClientsOwnedOnce`, together `RuntimeIsSafe`; and
`NothingEverLeaks`. The inductive invariant `IInv` adds to what is to be shown:
`LeasedAlive` and `LeaseCount` together, since cleanup is scheduled at a *count* of
zero and harms a *handle*; `OwnedOpen` (an owned client is open), because
`LeaseSafety` speaks of closed clients and a close must not hit another owner's
client, which needs `SingleOwner`; `Fresh`, because a publish must find the next
generation's entry unused; `RecoveryWork`, because a retry may only touch
generations that failed to close, never leased ones; `ShutdownStatus`, because the
shutdown task runs only in status `stopping`. `LeakInv` adds `TerminalEmpty`, because
"stopped" is reported from statuses and open slots and must mean that no client
is left, and `UnopenedSlots`, because opening a slot overwrites its record.

**Routing** (`ChatDispatchProofs`; any models, keys, quotas, ladders, callers).
`RoutingTypeCorrect`; `KeysAlwaysHeld`: the calls in flight on a key are counted
exactly and within its limit, its starts of the last minute stay within its quota,
and the rate-limit ladder climbs once per episode. `RoutingInv` is `Sound` with the
lease bookkeeping, and `Sound` has two parts beyond types. `Episodes`: an exhaustion
recorded now has a cooldown that runs beyond now, so the next exhaustion is
strictly later. `Windows`: the code checks the quota in the window the models of a
key share, while the property counts the models' own windows; so the invariant
says that all windows are ordered and recent, and that each remembered start has
a place of its own in the shared window (`Placed`, an injection), from which the
count follows. `CooldownAlwaysHeld` is `CooldownHeld` for every mix of failure classes:
each action that writes a cooldown is one of an attempt for that key and model,
and every class of failure sets one that runs beyond now. It does not say that a
daily block lasts until midnight, which is false in the code (section 3, observations).

**Chat dispatch** (`ChatDispatchProofs`; any number of concurrent requests, chains,
retries, sub-providers). `DispatchTypeCorrect`, `SlotsAlwaysFollow`,
`DispatchKeysHeld`, `HandoffAlwaysOnce`, `CallsAlwaysBounded`, `ChainBudgetHolds`.
`DispatchInv` ties each request to the routing state (a request holds a lease
exactly at the places in `Holding`) and says per request what its place in the code
implies (`Sane`): the handoff is published at one place only, and the bound on calls
is a potential: calls made, plus the switches and downgrades left (`Spare`), plus the
sub-providers left (`Rest`), never exceed the rule's limit, and every call consumes
a part of it. `ChainBudgetHolds` needs no condition on rules or failures: every call is
preceded by a look at the budget but for the one repeated by a tool-choice downgrade
in the loop over sub-providers, and the invariant remembers that a request past
its cap was downgraded there or went on to the overflow fallback, which calls no
more (section 3, observations).

**Accounting** (any sessions, keys, costs, budgets, faults, crashes, and any subset
of the key operations). Four inductive invariants, each extending the one before:

- `WorkInv` (`AccountingProofs`) = `TypeOK` and `DrainOK`: only accepted events are
  listed or projected, the holder of the drain lock is at work, a mutation knows
  its key. It gives `AccountingTypeCorrect` and, with `DatabaseSteps` (every step
  makes one of five changes to the databases, or none), `EveryEventChargedOnce`: the
  accounting implements `SpendContract`, step by step.
- `BooksInv` (`AccountingBooksProofs`) adds `SessionBooks` (per session: where it
  stands, whether it is charged, reserved, retained and accepted agree), `RetryBooks`
  (what a pass retries is retained, and its waiting session is charged before the
  receipt reaches it), `ListBooks` (from the listing on every unprojected event is
  tracked or still on the list; the opening start relies on it), `DurableOrder`
  (marked ⊆ charged ⊆ accepted) and `NoMutators` (without key operations a permanent
  failure of a retry makes the service fatal). It gives `ReservationsAreBalanced` and
  `BacklogIsTracked`. `UnsettledTracked` has one exception, which the code has too: a
  permanent failure met by the retry of a key mutation.
- `StopInv` adds `StopOrder`, how far `stop()` has come: it
  has joined the start, then the sessions and mutations, then the projector. Each
  stage excludes the writers joined so far, and a stopped service makes no step but
  the end of its process (`StoppedIsQuiet`). It gives `StopSettlesEverything` and,
  with the above, `BooksAlwaysBalance`.
- `KeyInv` adds `KeyBooks` (a key needed by an update, a deletion or a pending reset is
  fenced, so that no request of it begins; a due key being reset has none under
  way) and `MutationBooks` (the mutation that zeroes a spending found the backlog
  settled, and a reset made is not made again). `ListBooks` gives the settled
  backlog, `ZeroedKeyRests` keeps it until the write, and `ResetsFindBooksSettled`
  follows.

**Serving** (`ServingProofs`; one request of any kind, any way to end). `DeliveredIsPaid`
and `NothingIsLeftBehind`. `SVInv` follows the reservation: while it is held, the auth
context or an open owner answers for it, never both, and nobody does once it was
handed over (`HoldOK`). `FinOK` says that a finalizer that ended has closed its owner,
and that a finalizer that ended well after a success has charged or found the result
free: that is what the client's end waits for (`SeenOK`: nothing is sent as settled
before the finalizer ended well). `PlaceOK` says at which places of the request the
finalizer has been started, so that no way out skips it.

**Upload admission and stream capacity** (`ServingProofs`, `Sums`; any finite set of
uploads or observers, any sizes and limits). `UploadsAlwaysAccounted` and
`CapacityAlwaysAccounted`: the parts of `NothingHeld` and `AdmissionExact` that speak of
sums. `Sums` proves what a sum over a finite set does when one member joins, leaves or
changes. Induction over finite sets needs no operator parameter here: a set of natural
numbers that are counterexamples has a least one. On these the invariants rest: who
waits is in the queue exactly once, a granted future is an owner of its bytes whether
its task has run or not, and a drain grants a prefix of the queue (`Drained`), which moves
exactly the bytes of that prefix from one sum to the other.

**Upstream streams** (`ServingProofs`; any upstreams, piece size, capacity and number of
pieces). `StreamsAlwaysReturnAll` and `TruncationAlwaysShown`. `StreamsInv` has a part per
stream and one for the capacity. `StreamOK` says what each place in the code implies:
who waits holds no output and wants something; a stream that decodes has its
output leased and, unless it reads an error body, the framer's copy of it; a raw
lease covers the input not yet decoded; and once a stream is forwarded it has
content, so that a failure can no longer be turned into a failover (`Tells`). `Over`
compares the counters with what the streams hold. An action takes up to five steps
on the capacity (part of a raw lease returned, the line of waiters served, the copy
and the output leased, a failure), and between two of them the counters are off by what is
just being moved: `Turn` is the invariant with that slack, and has one lemma for each
kind of step (`TakeTurn`, `GiveTurn`, `ReturnTurn`, `CloseTurn`, `QuitTurn`). The actions are
compositions of these.

**Usage history** (`StorageProofs`; any finite sets of rows and events, any
hours, retention, deaths and failed calls). `HistoryInvariant` and
`HistoryAlwaysKept`. `UHInv` says of each place of the process what the committed
tables hold and what the open transaction would commit. Before the backfill the
counters are right or still empty beside all the rows, which is why a start that
died half way may run it again; empty counters that are right mean that there are no
rows (`NothingCounted`). From then on they are right, and stay so because a written
event is new (`WrittenRight`, `CountOneMore`). A pending event keeps its raw row, so a
repeated delivery is never a conflict. The rows the migration promised are the ones
in the transaction it commits, so no later start is refused.

**Migration** (`StorageProofs`; any migrations at once, any changes of the sources,
failures and crashes). `MigrationAlwaysWhole` and `MigrationReplacesNothing`. `SMInv` says
that the parts of a source change together (`SourcesOK`), that a target is one version
of it and, until it is settled, shares its inode with the temporary of a migration that
has yet to sync it (`TargetsOK`), that what a migration has copied
equals its snapshot (`Staged`), and that the artifacts it has passed are settled, or in
doubt (`Place`). The doubt comes from `CleanUp`, which unlinks after a failed sync.

**Images** (`StorageProofs`; any images and backups, one gateway, one restore tool).
`ImagesAlwaysKept` and `RestoreAlwaysWhole`. `IMInv` follows two views of the volume,
the one processes see and those a loss of power may leave: which entries of the images
directory are durable, whether a research directory is one of them, and, while the
entry of the volume itself is not synced, which volumes may come back in its place
(`behind`). An acknowledged image is in both. While the tool copies, the volume is
empty or gone and the marker is in both views; and once a restore began, whenever
one view has no marker every volume that may come back holds the whole backup,
unless the rename was never synced: a crash on either side of the marker's removal
leaves a restored volume or a refused one. What is at a backup's destination belongs
to the backup that linked it, until a clean-up failed.

**Lifespans** (`StorageProofs`; any lifespans in any processes, any operator).
`LifespanAlwaysSafe`. `LFInv` has two halves. Per lifespan (`Stands`): the stack is the
first `n` of one list of resources, what is open is what these `n` opened, what is
closed is the `m` after them, the last one first; the place in the code fixes `n`. The
order of closing follows, since a resource uses only earlier ones of the list
(`UsesEarlier`), but for the coordinator, which is closed first only when no update
of the tasks is in it; and so does the clean end, since a worker's thread needs the
supervisor's cleanup below it. For the lock (`LockOK`): who passed the lock holds the inode it has
open, and a lease's inode is the named one, which nobody else can unlink because that
takes its lock. Two lifespans with a lease would hold one inode.

**Config updates** (`OwnersProofs`; any updaters, sources, edits of the operator and
failures). `FilesAlwaysMatch` and `NoUpdateIsLost`. `CUInv` says of each place of the
commit section what the request there knows: at most one request is in it
(`SectionAlone`), its base is the active generation and the bundle it took is the
loaded one (`BaseRight`: a base never exceeds the generation, and a bundle that
differs belongs to an older base), the file it wrote but has not bound is the only
one that may differ (`Unbound`), and a rollback that is owed would put the loaded
content back over it (`FilesRight`). `UndoKeeps` is the heart: whichever step failed,
either the loaded content is back or its rollback is recorded.

**Deep research runner** (`OwnersProofs`; any finite set of runs, any capacity, any
child). `RunnerInvariant` and `NothingIsLeftRunning`. `RRInv` has a part per actor. Per
run, `CallOK` says which places own a process, a slot or a registration, and `ProcessOK`
what the stage of the cleanup means for the process: it is signalled exactly when its
cleanup has begun, a job or a group belongs to a call that saw the ready frame, and a
cleanup that gives up leaves only what was sent SIGKILL. For the runner, `RunnerOK`
says that once it refuses runs, every process outside the snapshot of the close is
doomed, and every run of the snapshot has its cleanup begun; after the drain all are
doomed. `SlotsOK` counts the slots by their holders.

**Model scoring** (`OwnersProofs`; any finite set of models, any configurations,
refreshes and evaluations). `ScoringAlwaysConsistent`. `ScoringOK` says that the flags
of the service tell what its tasks do (`LifeOK`: a service that is new or stopped has
no refresh left, and the manual flag is that of a manual refresh not over), that
a lease is held only by a task at work and the lock only by one that fetches
or evaluates (`TasksOK`), and that the ranking counts what it lists (`SnapshotOK`: each
path adds to the count exactly the models that were not done before).

**Deep research accounting** (`OwnersProofs`; any parents, children, callbacks and
limits). `RollupAlwaysExact`. `RAInv` says per parent where its owner stands
(`StandOK`: which places have a registered context, and which accept children), that
the list of a registered context names exactly the children that hold or held a
reservation, once each, and that a drained one has only settled ones (`ListOK`), that
a callback is under way only while the process runs (`ChildrenOK`), and that a rollup,
once taken, names what was charged (`Rolled`). `DrainedIdle` is the heart: a parent that
no longer accepts and has drained gets no charged child later. The rollup is a
function from the places of the list, so that no recursion over sequences stands
between it and the children.

**Assumptions.** The named `ASSUME`s of the modules: sets of actors are finite,
bounds are naturals, costs are naturals, keys of sessions are keys, a piece is at most a
third of the capacity (`_DecodedResponseReader` cuts its limit to that; `PieceFits`), and
placeholders are no members of the sets they stand beside (`AccountingNames`,
`VolumeAssumption`, `LifespanAssumption`). TLC
evaluates them in every run.

**Model-checked only.** All liveness (`RuntimeSettles`, `AccountingSettles`,
`ServingSettles`, `ChainEnds`, `OwnersSettle`): the prover has no ENABLED.
`LedgerKept`: the ledger and the spending are sums over sessions and events; its
inductive invariant has not been proved. `WritesKept`: batches are split recursively and
the order is one of sequences, which needs induction over data. The parser and
converter properties (`ChunkingInvisible`, `ShownExactly`, `AnswerFaithful` but for
`TruncationShown`), which are recursive over texts. The remaining properties of section 3 have no theorem yet;
section 7 names those worth one.

## 6. Not modelled

Within the modelled parts: a second `commit()` of a transaction that failed in
`REPLACED` (its one caller rolls back instead); `record()` and `reconcile()` of the accounting service
(called by tests only), follower sessions of one event,
statistics queries; session affinity, penalties, token windows and limits learned from
error texts in routing; payload building and non-streaming conversions; password
and session checks of the web interface; the dead-letter file's format; UTF-8
decoding; fetching and scoring of texts; streamed embeddings. Left out altogether:
parsing and validation of configurations, administration, statistics and the user
interface. `PROJECT.json` says why for each component.

## 7. What is left

In the order of importance:

1. `LedgerKept`: the sums of `Sums` over the sessions and the events of `Accounting`.
2. `CommentsBackup` (`BackupSettled`, `OnlyBackupsDestroyed`) and `AtomicConfig`, whose
   invariants quantify over every directory a power loss may leave.

`WriteBatcher` and the framers are left to TLC (section 5).
