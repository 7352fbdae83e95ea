# Verification of sol-token-listener

TLA+ models of the listener, its paper and live trading, its tools and its JitoSOL bot. TLC
checks them on small instances (section 3); TLAPS proves the theorems of section 6 for every
value of the constants. `PROJECT.json` maps every definition to the lines it models, lists the
hazards line by line, and names for each property a faulty variant of the code that breaks it.

## 1. The system and its parts

The program observes Pump.fun launches on Solana and can trade them, on paper or live.

**Ingestion.** A failover supervisor keeps one WebSocket session, the *incumbent*, to one of
several providers. A *candidate* session is opened beside it, scanned behind by strict catch-up
and promoted; every phase is written to the row `listener_websocket_health` through a reporter
that also bounds the shutdown. Its notifications, the pages of *strict catch-up* and the sweeps
of the pollers of tracked curves and pools all end in `enqueue` or
`recordCatchUpClassification`, which merge an announcement into a row of
`chain_transaction_inbox`. The row holds the confirmation the transaction is known to have, an
ingestion hint, a priority class, a lease, a retry budget, the stored snapshot and the finality
evidence.

**Processing.** Workers claim rows by priority through a durable rotation, locate the
transaction (alone or in a whole block that scans, workers and classifiers share), store its
snapshot, run the *observed-transaction pipeline* and complete the row. The pipeline projects
launches, curve trades, migrations, pools, pool trades and reserves, rebuilds the qualification
report, and enqueues paper decisions. A row completed at a terminal confirmation gets a
*receipt* that outlives it.

**Finality.** A reconciler polls completed rows at a pinned provider. Enough missing polls of
one provider in a row orphan a transaction; a terminal status reopens the row for a replay.
Retention deletes settled rows after four hours.

**Strict catch-up.** For every program key there is a durable checkpoint. A scan lists the
signatures newer than the checkpoint page by page, admits them, and moves the checkpoint by
compare-and-swap. A walk longer than the page budget leaves an ACTIVE *run* (frozen head,
cursor, provider), which pins the next scans to its provider; history the provider no longer
has is a *window failure*.

**Paper trading.** Leased jobs decide, from a snapshot of one mint, whether a position is
opened, held or closed; sessions, positions and intents survive crashes, retractions of the
events they rest on, and later jobs for the same mint.

**Execution.** An order is an *intent*: created once per logical order, claimed under a lease
token and a state revision, evaluated (quote, build plan, simulation) in numbered attempts, and
retired into a tombstone. A *live* BUY additionally needs an armament, which an auto-arm daemon
or the operator grants inside an envelope, and an exposure reservation of its wallet generation;
signing goes through a pre-signature lock, the signed bytes are persisted before they are sent,
and a recovery process follows the transaction to a reconciled effect. A SELL is the exit of the
position and may be replaced by a re-exit. Operators stop, resume, arm and revoke at any time. A
*pre-flight* prepares a pair of intents before the first live trade.

**Around it.** The public API with its event stream; the start and close of the listener
process; the provisioning of database roles and the validators that live processes run at
start-up; and the JitoSOL bot, a process of its own with a journal file.

The parts that are not modelled are in section 5.

### What makes it hard, and what has to be right

| Part | Hard behaviour | Must hold |
| --- | --- | --- |
| Claim scheduler | counters shared by all processes | no class starves |
| Inbox | a dozen writers of one row, late announcements, retention, CHECK constraints | a sealed signature stays sealed, live work is not purged, no write is refused by a constraint, but for two known cases |
| Workers, projections | lease loss and crash between two awaits, forks, replays | retractions win, what is published is backed by the chain |
| Reconciler | stale listings, lagging providers | a row is orphaned on evidence that still stands, a landed one never |
| Strict catch-up | overlapping scans, pauses, lost history | the checkpoint never passes an unadmitted signature; a failed run proves a loss; a success bridges the head; catch-up converges |
| Failover supervisor | three tasks suspended at awaits, a mutex, a failing health row, close | RUNNING misses nothing, deafness is repaired, no session leaks, close ends |
| Intents | takeover mid-attempt, unknown commit outcome, expiry | one artifact per attempt, every intent settles |
| Live execution | crash around signing and sending, operator races, unknown effects | one transaction in flight, exposure held, never sold twice, unknown effects block, a dead exit can be replaced |
| Arming, evaluation, paper | daemon against operator, usage snapshots, bounded provider sessions, retracted evidence | armaments hold exposure, drafts are storable, one entry stands, an exit is final |
| Hydration, API stream | shared permits, a cache with one slot, late commits, reconnects | answers come from the bound provider, no waiter is forgotten, the stream has no gap |
| Stand-alone parts | two listeners, two preparers, crashes around a file or a transaction, timers | see the properties of the run `Standalone` |

## 2. Modules

| Module | Models | State and actions |
| --- | --- | --- |
| `ClaimRotation`, `ClaimScheduler` | `selectClaimCandidate`, migration 052 | the two durable counters; one action per claim, with any set of classes waiting; proofs |
| `InboxDomain`, `InboxSchema` | the pure decisions (`convergeIngestion`, `classificationDecision`, `reconcileConfirmationStatus`) and the CHECK constraints of migrations 009 to 063 | none |
| `TransactionInbox`, `InboxProperties`, `InboxContract` | `TransactionInboxRepository` under a most general client; the contract it implements | a row or nothing per signature, receipts, scheduler counters, tracked mints; one action per committed transaction, retention and the clocks included |
| `InboxWorker` | `TransactionInboxWorker`, the pipeline's effect on `raw_chain_events` and launches | the phase of every worker: one action per await, a crash at each |
| `FinalityReconciler` | `FinalityReconciler` and two providers | a pass with its listing, the provider's answers, one poll or revision per row |
| `Projections` | the projection stages of the pipeline and the qualification rebuild | the tables of one mint, the runners: one action per stage |
| `IntentLedger`, `ExecutionIntents` | intent, simulation and dry-run repositories and workers | intents, attempts, journal, artifacts, tombstones |
| `ExecutionLive` | live, risk and operations repositories; executor and recovery workers; the chain | control state, unknown_block, exposure, intents, entries (armament, reservation, lock, position, exit authorization), signed artifacts with their fate on chain |
| `EntryArming` | operations, envelopes, auto-arm daemon, risk and provider-usage ledgers | one action per repository transaction, the daemon suspended between two |
| `AttemptEvaluation` | the evaluator, the provider session, the venue adapters' build plans, the inspector, the resume of signed bytes | `session`, `attempt`: one action per await |
| `PaperLedger`, `PaperDecisions` | the paper decision repository and worker, the trading engine | chain events, reports, jobs, sessions, positions, intents; one action per durable effect |
| `CatchUpStore`, `StrictCatchUp` | the checkpoint, run and failure transactions; `StrictCatchUpScanner`, the pin, providers that grow, lag and forget | one record per running scan; one action per await, an abort at each |
| `FailoverDomain`, `FailoverSupervisor` | the supervisor's memory and synchronous methods; its tasks, the reporter, the health row, the sessions | `m`, `health`, `reporter`, `closer`, `chain`; one action per segment between two awaits |
| `BlockHydration` | `ProviderAffineCatchUpHydration`, `HydrationGroupAdmission`, the block cache | permits, routes, flights, waiters |
| `ApiStream` | `api_event_stream`, the SSE route and session, a client | committers, the stream row, the session's timers and cursor |
| `FastEntry`, `Preflight`, `JitoBot`, `TrackedPools`, `ListenerLifecycle`, `RoleProvisioning` | the parts of those names | see each header |
| `MC...` | instances for TLC | |
| `TransactionInboxProofs`, `InboxRowProofs`, `StrictCatchUpProofs`, `ExecutionLiveInvariant`, `ExecutionLiveExecutor`, `ExecutionLiveRecoverer`, `ExecutionLiveProofs` | proofs | |

Conventions. One action is one committed database transaction or one await of a process. A
call that throws commits nothing; where the caller goes on differently after it, that is a
step of the caller. Leases and deadlines are not clocks unless two of them are compared: a
lease or a retry delay may lapse at any step, because each process compares its own clock. NULL
is a model value or 0. Definitions commented *Faulty variant* are slips the properties must
notice; nothing refers to them.

Composition. `InboxWorker` and `FinalityReconciler` extend `TransactionInbox` and call its
actions, so workers, reconciler and announcers act on the same rows. `ExecutionLive` puts
intents, signed artifacts, risk and operations together because one transaction of the code
writes all of them. `PaperDecisions` extends `PaperLedger`, `StrictCatchUp` extends
`CatchUpStore`. `FailoverSupervisor` takes a recovery scan as one step that succeeds or fails,
and from `StrictCatchUp` that a successful scan covers everything before its start, which is
`ScanBridgesHead`, a theorem. Components that share no state are run in one TLC model, where a
behaviour follows one of them (`focus`) and the others stand still.

The supervisor runs on one thread: a promise that has settled resumes its waiters before the
next timer, socket or database event. `Next` therefore takes a `Microtasks` step whenever one
is enabled, and everything else only when `Calm`.

## 3. Runs

| Run | Instance | Shows |
| --- | --- | --- |
| `Inbox` | one creation (2 attempts, claims, versions, 2 providers, 2 snapshots), or one trade announced and classified in every way | the row satisfies the schema, announcements and classifications are storable but for the two cases of section 4, the row agrees with its receipt, and the inbox implements `InboxContract` |
| `InboxProcesses` | two workers on a creation that is finalized or dropped; reconciler passes over two rows of a slot with two providers; two runners that project one mint, one of them overtaken or killed | a retracted launch stays retracted, a row is orphaned on evidence that still stands and a landed one never, market tables and reports rest on the chain |
| `DeferredWakeup` | a creation and a deferred trade, fair workers | rows come to rest, the trade wakes |
| `Settling` | one fair scanner, 4 signatures, one per page, 2 pages per pass, two providers; or two identities of one order, two simulators, one dry-runner | success bridges the head, the checkpoint reaches it; artifact and outcome agree, every intent settles |
| `LiveEntry` | two BUYs, one executor, one recoverer | exposure is held, unknown effects block |
| `LiveExit` | one BUY from the start or an open position, two exits of two attempts, two executors, one recoverer | one transaction in flight, nothing given up lands, never sold twice, dead exits replaceable |
| `Failover` | two providers, 5 session records, three disturbances at any awaits | the promises of the supervisor |
| `Services` | arming with an operator's intervention, a usage snapshot or faults; one evaluation; paper decisions of one mint in five scenarios | an armament holds its exposure, drafts are storable, one entry stands, an exit is final |
| `Runtime` | two scanners, 3 signatures, pages of 2, a provider that forgets, retention; hydration by two claimants, a scan and a reader; a stream of 3 revisions with a client that reconnects | checkpoints cover history, a failed run proves a loss, answers are affine, nobody is forgotten, the stream is complete |
| `Standalone` | two listeners and mints; two preparers and runs; two bots; a pool of 6 signatures; one listener's life; drifting roles | the eight properties of those parts |
| `FinalizedWithoutReplay`, `SignedResume` | | refuted: see section 4 |

Why the bounds are enough. The repository operations act on one row (or one run) at a time
and compare it with one caller's earlier reading, so two actors and one object exhibit every
race between them; a second object is added where an operation spans several (a creation and
its trade, two BUYs of a generation, two rows of a reconciler pass, two mints of a fast entry).
Attempts, versions and claims are bounded so that each limit is reached and crossed: a row
exhausts its attempts and is recovered, the version saturates, a lease is taken over twice.
Page size and budget are chosen so that a walk takes several passes, and in `Runtime` so that
the boundary can be on the first page of one scan and not of the other. Symmetry is used only
for safety, and only over identities that no constant tells apart. Deadlock is not checked
where claims, intents, exits or clocks are finite and the system may simply be done, or where
it can be closed. Three disturbances are what it takes to reach every await of the supervisor:
the failure of an incumbent that is just being replaced needs a failed heartbeat to start the
cycle, the end of the session, and the failure of what waits for its degradation. Five records
are never exhausted. Constants of the code that are too large to reach are scaled: the
reconciler's reporting cadence 12 to 3 and its saturation 2^53-1 to 7, page sizes and budgets of
the pollers, recipients of a simulation 8 to 2, lease renewals of a preparer 4 to 1, amounts of
the bot. For the inbox, strict catch-up and live execution the theorems of section 6 remove the
bounds altogether.

Fairness. `DeferredWakeup`: the workers' loops and the reconciler's timer keep running and
clocks advance; crashes stay possible, within the retry budget. `Settling`: the clock passes and
the retention sweep runs; the supervisor retries for ever and offers every provider (or the
pinned one) again and again, scans left alone finish, and interruptions end (conflicts need not:
they are outcomes of the scan itself); without the last assumption a scan may be aborted at
every attempt. `Failover`: the event loop drains its microtasks and, while `close` waits, the
database calls of `start` and of the reporter's stop settle, and the shutdown timeouts fire;
nothing is assumed of sessions, scans or transitions in flight. In the live models nothing is
assumed and no liveness is stated: claims are bounded there.

## 4. Findings

Two runs are refuted by TLC; `PROJECT.json` quotes the lines they contradict.

- `FinalizedWithoutReplay`: an announcement raises a row to finalized while a worker runs it as
  confirmed; `markProcessed` completes and seals it as finalized, and the finalized replay never
  happens.
- `SignedResume`: a SELL whose executor died after `persistSigned` cannot be resumed. The signed
  minimum is the quote's (`attempt-evaluator.ts:407-410`, `:521-524`), the resume compares it
  with the intent's (`signed-simulation-context.ts:102-139`); the design
  `docs/superpowers/specs/2026-08-31-executor-live-canary-design.md:462-463` has it resumed.

More disagreements were met while modelling. They have no run of their own; what is stated here
is what the listed runs leave out or take as given.

Inbox and ingestion
- `recordCatchUpClassification`: a pristine row announced twice and then classified DEFERRED
  keeps `finality_evidence_version` 1, which the deferred constraint of migration 047 refuses
  (`syncTrackedMint` resets it for the same transition).
- `convergeIngestion`: the curve poller's hint for a trade that catch-up has classified is
  refused by the constraint of migration 049, which migration 063 did not extend.
  In both cases the statement fails and nothing is committed, and the model's `Write` is
  disabled as the constraint disables the statement. So that this hides nothing,
  `SchemaChecksHold` speaks of the row each statement would submit: every row that enqueue and
  `recordCatchUpClassification` compute, in every reachable state, is `Storable`, except in the
  cases named `DefersRevised` (the first) and `Contradicts` (an announcement of another action
  or mint than its row was classified with, the second among them).
- `cancelPeriodicFrontier`: an aborted periodic scan may still create a run of one key while a
  recovery scan of another provider creates the other key's; `readPinnedProviderId` then throws
  from then on.
- `#degradeActiveIncumbent`: when the session of the incumbent ends while the RUNNING transition
  of its replacement is being written, its DEGRADED is refused by the row, which has moved on;
  the refusal stops the reporter for good and closes the promoted session.
  `docs/superpowers/specs/2026-08-27-solana-websocket-failover-design.md:397` says "a stale
  close/error from an older generation cannot demote the promoted candidate". `Serving` excludes
  a stopped reporter.
- `#failClosedPeriodicPausePersistence` stops the reporter with an empty cleanup, and the stop
  is remembered: a later `close` reuses it and reports STOPPED while the session of a candidate
  may still be open.
  `docs/superpowers/specs/2026-08-28-websocket-supervisor-activation-design.md:136` has
  "`STOPPED` only after complete cleanup". `SessionsAreOwned` states it for the other stops.
- `#armPeriodicFrontier`: an aborted periodic scan that ends while the failed close of the
  previous incumbent is being handled arms the timer for that incumbent; the next promotion
  finds a timer, the timer finds another incumbent and is not armed again, and the RUNNING
  supervisor no longer scans its frontier.
- Projections: a migration that lands again after a fork is refused until the old rows are
  purged (the old pool row is active, or stays retracted and fails `assertActivePool`); a pool
  trade of the other fork, finalized against the old pool row, makes its orphaning fail for good.

Execution
- `recoverStrandedPreSignatureLock`: a BUY that fails, or expires after a crash, once its
  signature was authorized is no longer PROCESSING with a started attempt, and its lock is
  refused on every recovery pass.
- `reconcile` reads the height, the history and the transaction concurrently; read around a late
  landing they prove NO_EFFECT of a transaction that took effect. The live runs set
  `PromptReads`: the reads are closer together than landing and finality. Three theorems have it
  as a hypothesis.
- Pre-flight: a crash between the publication of the manifest and `markPrepared` publishes a
  byte-different manifest on resume, which ends FAILED, against section 5 of
  `docs/superpowers/specs/2026-09-08-executor-preflight-intent-preparation-design.md`; a crash
  between recording an assessment and binding it ends FAILED TARGET_FENCE_LOST; one between the
  probe's transition and `beginAttempt` ends SIMULATION_FAILED.
- Evaluation: an empty list of log lines cannot be stored; a truncated base token account
  throws.

Paper
- `docs/superpowers/specs/2026-08-26-creation-entry-v1-design.md:220`: when the source is
  orphaned and replayed the job fails twice and is CANCELLED, and its position stays
  PAPER_HOLDING; `:225` holds for the same job only.
- Finalization freezes the session against later retractions (`pumpfun-v1.md:497-506`,
  `2026-07-29-pr-f-paper-trading-design.md:140`). An abandoned entry may have a position
  (`paper-decision.repository`); a retraction of a CLOSED session is rejected and leaves it with
  a RETRACTED position; a source orphaned while its job is pending makes it rotate for ever.

API: an up-to-date client gets EVENT_CURSOR_EXPIRED after four quiet hours; a client that has
received nothing skips what is committed while it reconnects; `toPaperPosition` throws when the
session of a position's lineage was purged.

Observed and not counted as findings, because no document says otherwise: a confirmed but not
yet finalized reconciliation is held as UNKNOWN and stops entries; a BUY that landed and failed
is a MISMATCH no path resolves; NO_EFFECT for a CONFIRMED BUY is a conflict for good; a
supervisor whose COMMIT outcome is unknown never learns the new revision; a DEGRADED supervisor
may keep a live incumbent without a scheduled recovery; after a confirmation expiry the
reservation stays RESERVED; a failing pre-pass of the executor blocks the SELL lanes too; one
conflict ends a whole reconciler pass; a run whose provider is gone for good pins recovery to
it; an intent may be recorded for a launch orphaned between the fast entry's read and its write;
a target promoted once is never armable again; a pool checkpoint seeded from an activation that
is orphaned later never confirms its boundary; the provisioning script does not revoke PUBLIC
grants on observational tables (the validators then refuse).

## 5. What the models leave out

Not modelled at all, with the reason, in `PROJECT.json`: decoders and generated interface
descriptions, strategies and the intent producer, the scores of qualification, HTTP RPC clients,
the window scanner, the operator API, read-only API projections. From the modelled parts:

- Inbox: heartbeats, counters, canary evidence; timestamps except as "passed" or "not passed".
- Projections: one mint; a transaction is one of a cast of stories; qualification is one step;
  errors of stale reports.
- Intents: `finishAttempt`, which nothing calls, and the exact pre-flight claim.
- Live: one wallet generation; freshness gates are refusals that may happen at any time;
  renewing a lease is no step, since lapsing is an event that may not happen; an armament's
  expiry is the moment a transaction terminalizes it; `Send` sends the worker's own signed bytes,
  which may be late or never reach the network.
- Arming: one billing period; numeric limits as counts; version 1 of arming; refused admissions
  keep an intent out until it expires.
- Evaluation: addresses by role, derivations, amounts of one unit.
- Paper: `persist` is atomic, the pipeline's projection and enqueue are one step; the legacy
  count of validated external buys.
- Catch-up: timestamps (they only add refusals); a fork never removes a signature from a
  provider's list, lists are complete, in order and cut at slots; the hydration permit that
  serialises scans in launchpad-only mode is not assumed, so scans overlap more than there.
- Failover: the filtering and deduplication inside a session, the reasons and counters of the
  row, backoff delays, failures of the scheduler itself. A session's `close` settles within 5 s,
  the periodic timer takes 30 s, so the timer armed at a promotion does not fire during the
  close of the previous incumbent. Heartbeats fail only once the supervisor has started. The
  chain is taken to be busy: whenever no session accepts, a transaction is missed.
- Hydration: the path of a worker that knows its block (nothing reaches it); the limit of 1024
  waiters; several waiters cancelled by one abort go in one step.
- API stream: one client; HEAD and OPTIONS; the bytes of frames.
- Fast entry: one decision per mint; capacity is read but not reserved, as in the code.
- Pre-flight: one output path; snapshots as one time; arming replays.
- Bot: one position; `fits` stands for the checks of `evaluateObservation`; an operator removes
  only the lock of a dead process; Jupiter's answers are taken as validated.
- Pools: one address, one timed-out sweep at a time.
- Lifecycle: supervisor, inbox workers and paper worker by their life only.
- Roles: tables by class; columns, schemas, sequences, functions and other databases left out, and
  with them the re-check that closes a quarantine; one piece of open work at a time.

## 6. Theorems

All are proved for every value of the constants, under the named `ASSUME`s only: bounds are
numbers (positive where the code needs it), null values lie outside their sets, inputs are well
typed, the chain's slots do not decrease.

**Claim scheduler** (`ClaimScheduler`). `RotationIsInvariant`, `WaitsAreBounded`
(`NoClassIsStarved`, which no run repeats: at the real limits 32 and 3 it is an instance of the
theorem). The bounds are not inductive: a class may have waited for long while the counter that
will serve it has just been reset. `RotationInv` relates each wait to the counters, and is
preserved case by case on the class served.

**Inbox** (`TransactionInboxProofs`, `InboxRowProofs`). `InboxInvariant` (`TypeOK` and
`ReceiptSealsRow`), `SealedIsForever`, `SchemaIsKept` (`SchemaChecksHold`) and
`InboxImplementsContract` (`InboxKeepsContract`, the refinement of `InboxContract`). The first
invariant is `InboxInv`: every row is a row of the schema's types, a receipt agrees with its
row, and a completed terminal row has its receipt. The last conjunct is what makes it inductive:
it excludes that an operation meets a terminal row it takes for open. The CHECK constraints
alone are not inductive either: `RowInv` adds what they leave out (only a claim leads to work,
only completion dates a row, a parked row is still as it was classified, a row that was never
attempted has no missed polls), one lemma per UPDATE says that it keeps `RowInv`, and one per
action that it writes only such rows. What enqueue and `recordCatchUpClassification` would
submit is shown to be storable row by row (`AnnouncedRowIsStored` to `ClassifiedRowIsStored`)
from `RowInv` and from what the pure decisions return (`IngestionDecisionFits`,
`CatchUpDecisionFits`), outside `Contradicts` and `DefersRevised`. The refinement maps a row to
its phase and a receipt to its seal; every action is a step of the contract or a stutter.

**Strict catch-up** (`StrictCatchUpProofs`). `CheckpointIsCovered` (`CheckpointCoversHistory`),
`LossIsProven` (`FailedRunProvesLoss`), `HeadIsBridged` (`ScanBridgesHead`), for every chain, set
of keys, providers and scanners and every page size and budget. None of the properties is
inductive, since a scanner carries what it read across awaits. `CatchUpInvariant` says of every
run, stored or in a scanner's hands, that all of its key from cursor to head is admitted, that
the cursor lies above the boundary and that its provider lists it; of a page, that its rows are
the newest of what the walk has left, reach the boundary when it was found, and prove it
forgotten when the page is the last and does not show it. It speaks of values, not of
variables, so that "what another scanner does only adds" is one lemma. `HeadIsBridged` assumes
`Retained = 0`, providers keep their history: when one forgets, a key without a checkpoint whose
provider lists nothing may be reported done while another scanner bootstraps it.

**Live execution** (`ExecutionLiveInvariant`, `ExecutionLiveExecutor`, `ExecutionLiveRecoverer`,
`ExecutionLiveProofs`), for any number of BUYs, exits, attempts, executors and recoverers.
`ExposureIsCounted` (`ExposureIsHeld`), `UnknownEffectsBlock` (`UnknownEffectBlocks`) and
`ExitsAreReplaceable` (`DeadExitIsReplaceable`) hold unconditionally; `TransactionsAreSingle`
(`OneTransactionInFlight`), `GivenUpIsDead` (`GivenUpNeverLands`) and `PositionsAreSoldOnce`
(`NeverSoldTwice`) under `PromptReads` (section 4). `LiveInv` is `TypeOK`, `DatabaseInv` and
`WorkersInv`. `DatabaseInv` ties the status of an intent to its latest signed transaction, its
evidence and its fate on chain (`Fits`), and both to the entry: what armament, reservation,
lock, position and exit authorization may be in that status; all earlier transactions are dead
or failed. `WorkersInv` is what a worker's memory is worth: who holds the lease of an intent
has a claim with its current status and attempt, two workers never hold the same token, a
worker that is sending has a transaction whose submission is recorded, a reader's view is where
the transaction's fate came from, and a decision that was read is still true. Without it the
writes fenced by token and revision could not be shown to write what the database still allows.
There is one lemma per action; frame lemmas say once what a write to one intent, one entry or
one artifact leaves alone.

Only model-checked: liveness (`EveryRowComesToRest`, `DeferredTradeWakes`, `WalkConverges`,
`IntentSettles`, `CloseTerminates`), which is outside the prover's reach, and the invariants of
workers, reconciler, projections, intents, failover, arming, evaluation, paper, hydration, API
stream and the stand-alone parts. What recursive definitions compute (lists of a pool's pages,
for instance) is checked by evaluation on the instances.
