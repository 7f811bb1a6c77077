# TLA+ verification of rust_events

`rust_events` is a transactional outbox for PostgreSQL. An application calls
`Outbox::dispatch` inside its own transaction; one worker process delivers each
event to each registered handler at least once, through the external job queue
`pg_work_queue` (pgwq), and keeps an audit row per delivery in
`outbox.handler_deliveries`. This directory models that system in TLA+, checks
it with TLC on small instances and proves its safety properties with TLAPS.

## The system and its parts

| Part | State | Operations | Talks to |
|---|---|---|---|
| dispatch (`src/outbox.rs`) | rows of `events`, `dispatch_keys`, `handler_deliveries`, pgwq jobs, staged in the caller's transaction | reserve key, insert, push | the caller's transaction, PostgreSQL locks |
| worker wrapper `handle_envelope` (`src/runtime.rs`) | the audit row: status, attempts, lease token, last error | claim CTE, handler call, four `mark_*_fenced` | pgwq (claim, verdict), the user's handler |
| pgwq (external) | jobs: status, attempts, lease token | push, claim, verdict, reaper, outer timeout | the wrapper |
| purge functions (`src/purge.rs`) | none | delete settled rows, keys, events | all tables, concurrently |
| start and shutdown (`src/outbox.rs`, `src/handle.rs`) | `started` flag, the worker | `start`, `shutdown`, drop | callers of `start()` |
| builder (`src/builder.rs`, `src/registry.rs`, `src/limits.rs`) | configuration, pending handlers; the registry once built | `config`, `register_handler`, `build` with its validations | start, dispatch (fan-out, concurrency keys), the wrapper (timeouts) |
| text and error helpers (`src/util.rs`, `src/error.rs`) | none | sanitize, truncate, classify, redact | the wrapper, dispatch, both `last_error` columns |
| history (`src/history.rs`) | none | read-only queries | - |

What is hard here:

* two tables (`pgwq.jobs` and `handler_deliveries`) record one delivery and are
  never written in one transaction; the process may stop between the writes;
* leases: a job may run twice at the same time, and only the lease token in the
  audit row tells the tasks apart;
* a statement may fail, or commit and lose its reply; pgwq's outer timeout may
  cancel the wrapper between or inside statements;
* purges delete rows beside running tasks, a redeploy may drop a handler whose
  deliveries are still queued;
* dispatch runs in transactions of others, which interleave, deadlock, roll
  back, or commit when they should not;
* four clocks run at once (pgwq's lease, pgwq's `handler_timeout`, the wrapper's
  own timeout, `now()` of PostgreSQL) and only validation in the builder keeps
  them in order;
* jobs outlive builds: a job is stamped by the build that dispatched it and run
  by whatever build is there later;
* texts are measured in characters, in bytes, before and after cleaning, in
  serde's form and in jsonb's, by this crate, by pgwq and by CHECK constraints.

`PROJECT.json` lists these hazards one by one, at the line where each bites and
with the properties that cover it.

## Modules

| Module | Models |
|---|---|
| `OutboxSchema` | one audit row: the status CHECK constraint, the claim UPDATE (`Stamp`), the fenced marks (`MarkFenced`); operators only |
| `PgWorkQueue` | one pgwq job, as far as this crate relies on it (external) |
| `Runtime` | `handle_envelope` run by concurrent tasks, with pgwq's poll loop, verdicts, outer timeout and reaper, purges, crashes and redeploys |
| `DeliveryLifecycle` | the abstract promise: queued once, settled once, sent only if the handler succeeded |
| `RuntimeInvariants` | the inductive invariants of `Runtime`, as named parts |
| `RuntimeProofs`, `RuntimeFencingProofs`, `RuntimeAuditProofs` | proofs about `Runtime`: types and history, fencing and settlement, the audit row and the refinement |
| `Dispatch`, `DispatchProofs` | `Outbox::dispatch` in concurrent transactions, with keys, row locks, deferred foreign key, purges; proofs |
| `Lifecycle`, `LifecycleProofs` | `start()`, `StartedGuard`, `OutboxHandle`; proofs |
| `Builder` | `OutboxConfigBuilder`, `HandlerOptions`, `OutboxBuilder` and the registry it builds; extended by the next two |
| `Deadlines`, `DeadlinesProofs` | one delivery in real time: lease, both timeouts, slow statements, the temporal CHECK; proofs |
| `ConcurrencyLimits`, `ConcurrencyLimitsProofs` | concurrency keys, limits and the registry across redeploys, with pgwq's slots and permits; proofs |
| `ErrorText`, `ErrorTextProofs` | reasons, headers and SQL errors between the crate, pgwq and the CHECKs; proofs |
| `MCRuntime`, `MCDispatch`, `MCLifecycle`, `MCDeadlines`, `MCConcurrencyLimits` | the instances TLC checks (`ErrorText` needs none) |

`Runtime` leaves out clocks, concurrency keys and texts; `Deadlines`,
`ConcurrencyLimits` and `ErrorText` each take up one of them again, around the
part of the delivery that it concerns. `Runtime` lets a lease expire in the
phases a constant names; `Deadlines` says when it can.

Operators whose comment describes a fault in the code they stand beside
(`StatusOnly`, `LateDead`, `NoFK`, ...) are used only as mutants: each replaces
the definition that follows it, to show that a property can fail.

### Runtime

`tasks[d][n]` is the task that runs `handle_envelope` for the n-th lease of
delivery `d`; n doubles as the lease token, since pgwq never gives out a token
twice. A task goes `claimed` (pgwq has claimed, the CTE has not run), `handler`,
`mark`, `report` (the wrapper has returned, pgwq is to write the verdict). Every
SQL statement is one atomic action. The claim CTE with its four results is
`RowMissing`, `AlreadyTerminal`, `StartHandler` and `HandlerNotRegistered`; the
branch "non-terminal row failed to UPDATE" (`runtime.rs:283`) cannot be taken,
as the row is locked by the same statement. `HandlerReturns` covers every
`HandlerOutcome`, a caught panic and our timeout, mapped by the panic policy and
the decode strategy. `MarkDelivery` is the mark and the `JobError` built from
it; `MarkFails` is `map_mark_err`.

Constants say what may go wrong: `Faults` (transient, lost reply,
deterministic, failed verdict write), `ExpiryPhases` (phases in which the lease
of a live task may run out: a handler that blocks its thread cannot be
cancelled), `CancelPhases` (where pgwq's outer timeout may cancel), `Reaping`
(whether a reaped job keeps its attempts), `Configs` (what a restarted process
may be deployed with). `verdict` and `succeeded` are history variables. The
timestamps, the backoff and the text of `last_error` are left out; `last_error`
keeps what kind of reason it holds.

### Dispatch

A transaction's writes are staged in `tx[t]` and take effect at `Commit`, which
checks the deferred foreign key. `lock` holds the row locks that the upsert
takes on `dispatch_keys`; purges and other upserts wait for them. Callers may
make several calls per transaction, drop the future of a call at an await
(`DropCall`), roll back at any point and, with `Careless`, commit although a
call returned an `Err` or was dropped. A transaction that waits in a circle with
others is broken by PostgreSQL (`DeadlockVictim`). Retrying after an
unknown commit is just calling again. Sizes are abstract: `Reject` is any
validation error, `HeadersTooLarge` is apart because it comes after the
reservation. Three steps stand for `Runtime`: `StartHandler` (a claim that finds
an active row and calls the handler with the key it joins), `Settle` (a terminal
mark) and `EndJob` (pgwq's verdict). They are independent of each other, as a
crash, the reaper or a stale task can put anything between them: a job may end
before its row is settled, a row may be settled and purged while its job is
queued or leased. `Runtime` in turn has `DispatchCommit` for the whole of
`Dispatch`.

### Lifecycle

Tasks share one `Outbox`. `Enter` is the `swap`, `Panic` the `Handle::current()`
that comes before the guard, `CheckPool`, `Probe`, `BuildFails` and `Started`
the rest; `Fail` includes the guard's drop. Nothing sets the flag back once a
start succeeded. The pending-count query of `shutdown` changes no state.

### Builder and Deadlines

`Builder` keeps the three things a deployment is made of: the configuration, the
registrations in order, and the result of `build()`. A configuration that
`OutboxConfigBuilder::build` refuses never becomes the outbox's; `EntryError`
follows the order of the checks in `build()`. Durations are in units of 100 ms,
so that `HANDLER_CLEANUP_BUDGET` (200 ms) is 2 and the floor of 100 ms is 1.

`Deadlines` runs one delivery of a built outbox against a clock. A statement is
two steps, the one in which its transaction begins (which fixes `now()`) and the
one in which it takes the row lock and commits, with any time between them;
waiting for a connection is a phase of its own. `Tick` does not pass a timer
that can fire, which is what tokio promises; a handler that blocks its thread
holds off both timers, so `Blocks` is an action. pgwq's timer starts at the first
poll of the spawned task and the lease at the claim: the time between the two is
bounded by nothing in this crate, and `late` remembers when it exceeded
`lease_timeout - handler_timeout`.

### ConcurrencyLimits

A plan is a configuration with registrations; `Redeploy` ends the running
process with its tasks and starts to build another plan, which may fail. The key
of a job is set by the build that dispatches it, the limits are those of the
build that runs. pgwq's side (`Admits`) is external: a slot per task, a permit per
task whose job has a limited key, both held until the task is over, blocked or
not. `Slow` handlers may take any time over a call, or block their thread
(`Blocks`), so that the reaper takes the lease away. Backoff and poll interval are left out. `"none"` is the type of an event
that was not dispatched, so no event type has that name.

### ErrorText

Characters are one ASCII letter, one wide character, NUL and a C1 control
character (two bytes in UTF-8, of which cleaning makes one); limits are scaled
to a few bytes and a prefix such as `skipped: ` to one character. A header map
is reduced to its number of members, the length of its keys and values, and what
jsonb adds to its numbers. `BytesTo` (the bytes of every prefix) and `MoveBack`
(the loop of `truncate_utf8`) are recursive functions. `DispatchFails`,
`ClaimFails` and `MarkFails` run through every SQLSTATE class and `sqlx::Error`
variant that `is_sqlx_deterministic` distinguishes; a statement that fails with
`Io` or `Tls` may have been committed (`LosesReply`).

A task may be lost before its claim CTE (`ClaimLost`) or after it (`TaskLost`):
the process crashes, pgwq cancels it, or its lease expires and it runs on. The
reaper puts the job back, and a task that ran on may still claim and mark the row
(`Overtake`). So the audit row and pgwq's job do not always show the same handler
call: the row has the handler's text and pgwq a redacted database error when the
reply to a mark is lost, and the text of the attempt before when the process dies
ahead of the report. `shown` and `heard` remember which of the two tables shows
the text of `call`, and `SameTextBothSides` speaks of those that both do.

## What TLC checks

| Run | Bounds | Shows |
|---|---|---|
| `runtime_fencing` | 1 event, 1 handler, 2 attempts, 4 claims, 2 crashes; leases expire in `handler` and `mark` | the owner's mark is never fenced out, a stale one always is; job and row settle together; no `dead` beside `sent` |
| `runtime_faults` | same with 3 claims, 1 crash, every fault, expiry and cancellation | the CHECK is never violated, `last_error` fits the status, no delivery is lost silently, verdicts are final, no run after a verdict, attempts never regress, refinement of `DeliveryLifecycle` |
| `runtime_liveness` | 2 handlers, 1 slot, 1 crash, 4 claims, transient faults, lost replies, cancellation in every phase, both purges | every job ends with its row settled, or stranded by a failure of the last attempt; `purge_events` takes nothing that is still needed |
| `dispatch_keys` | 2 transactions of 2 calls, 2 keys, 4 events, no handlers (the audit-only path), dropped calls, deadlock victims, careless callers, purges | a key names a live event, one event per key, `Duplicate` stays true |
| `dispatch_fanout` | 2 transactions of 2 calls, no keys, 2 events, 2 handlers, careless callers, all purges | rows and jobs are committed together, a purge takes nothing that is not settled |
| `lifecycle_flag` | 3 tasks, 2 calls each | one worker, an honest flag |
| `deadlines` | 4 configurations, 4 per-handler timeouts, 2 registrations, 2 claims, 1 crash, clock to 8 | the timeout budget leaves time for the mark, the lease covers the delivery, the temporal CHECK refuses nothing unless a task was polled late |
| `concurrency_limits` | 4 plans, 2 deployments, 2 events, 2 handlers of which one is slow and may block, 2 claims | only jobs from before the limit exceed it; events of another type only from an earlier deployment; the other handler's jobs end while the slow one is saturated |
| `error_text` | reasons of up to 3 characters against 3 bytes, headers of up to 3 members against 12 bytes, 2 attempts, 3 claims | no text breaks a write, as much as fits is kept, two tables that show one call show one text, the gap between the two measures of the headers |

Three more runs are expected to fail; each is a disagreement between the code and
its documentation, described under "findings" in `PROJECT.json`:
`runtime_dead_sent`, `runtime_stale_claim`, `dispatch_key_view`.

What else the modelling showed:

* `Deadlines`: `runtime.rs:317-320` says our timeout "always fires before
  pgwq's". It does as long as the claim CTE, the mark and the waits for their
  connections take less than 200 ms together (`MarkHasTime`); a slower database
  is cancelled by pgwq and retried.
* `Deadlines`: a task that is polled later than `lease_timeout -
  handler_timeout` after its claim can run beside the next owner. If it stamps
  the row first and the owner's CTE began earlier, the owner's
  `last_attempted_at` is before `first_attempted_at`, the CHECK refuses it
  (23514) and `map_sql` makes it an abort: the job is dead, the row is not.
* `ConcurrencyLimits`: README.md:361 "at most `n` tasks" does not hold for jobs
  that were dispatched while the handler had no limit; they carry no key.
* `ConcurrencyLimits`: `handle_envelope` looks up by handler id alone, so an id
  that a redeploy moves to another event type is given the old events.
* `ErrorText`: the comment at `runtime.rs:427-428` ("bytes <= chars") has the
  inequality the wrong way round, and a skip's text, which gets its prefix after
  the cut, can exceed pgwq's cap; no more than the prefix's length is lost.
  `util.rs:16-17` says cleaning preserves the byte length, which is not so for
  C1 characters; the code cuts after cleaning and does not rely on it.
* `ErrorText`: headers in the gap between the two measures get
  `DispatchError::Constraint` and not the typed error `outbox.rs:197-198`
  announces.
* `Lifecycle`: `AlreadyStarted` is documented (`outbox.rs:337-338`) as "a
  previous start() succeeded", and is also returned while another call is still
  under way and may yet fail.

**Why the bounds are enough.** Deliveries interact only through their event (its
purge) and the worker's slots, so one delivery shows every race on a row and two
show the rest. Two attempts distinguish first, last and "one before last";
three claims let a stale task, its successor and a third one overlap; a fourth
lets a crash happen in addition. Two transactions suffice for every lock
conflict and for a cycle of two keys, for which their calls need four event ids. `MaxClaims` cuts off behaviours in which a
job is reaped again and again: in `runtime_liveness` two attempts and one crash
need three claims, so the bound of four never stops a job. In `deadlines` the
configurations are at the floor, just above it, and with a lease that is too
short, that leaves one tick, and that leaves two; eight ticks let a lease run
out and the next owner go through its own handler call. The theorems below make
all safety properties independent of these numbers. In `concurrency_limits`
a job needs one claim per deployment, as `max_attempts` is 1 and only a redeploy
or a blocked task loses it. In `error_text` a wide character is as long as
the limit, so that three characters put every width on, before and across it,
and the limits enter the code only through comparisons; three claims are two
attempts and one more after a reaper that resets them. In `dispatch_keys` the
handlers play no part, and in `dispatch_fanout` the keys play none: the two sides
of `Dispatch` meet in the events only, and the proofs treat them together. `CHECK_DEADLOCK` is
off because a system with nothing left to deliver stops.

**Fairness.** `Runtime!Fairness`: weak fairness of each task's own steps (tokio
polls every ready task, and the handler call ends because our timeout ends it),
of pgwq's poll loop and reaper (timer loops) and of the restart by a
supervisor. No fairness is assumed of users, purges, faults or crashes.
README known limitation 6 documents that a failed mark on the last attempt
strands a row; `EveryDeliverySettles` allows that and nothing else.
`ConcurrencyLimits!Fairness`: pgwq takes the oldest job it may claim, so a job
that can be claimed again and again is not passed over for ever (strong
fairness of `Claim`), and handlers that are not slow end at their timeout; of
slow calls nothing is assumed. All of it is assumed only while no handler blocks
its thread: `handler.rs:173-181` and `outbox.rs:344-348` say that the poll loop,
the reaper, the timers and other handlers may starve then, and
`NoHeadOfLineBlocking`, like README.md:361, is about saturated handlers and not
about blocked ones. `Deadlines`, `Dispatch`, `Lifecycle` and `ErrorText` need no
fairness; that a reservation returns is left to PostgreSQL's deadlock detector
and to callers that end their transactions.

## What is proved

All theorems hold for every value of the constants that the modules' `ASSUME`s
admit; the groups on fencing and settlement also assume what they say of the
failures. Every safety property that a passing run checks, and the refinement,
has its theorem, `<property>Holds`. Each group rests on one inductive invariant.

Runtime:

* `TypeCorrect` (`RuntimeProofs`). `TypeOK` alone is not inductive: `MarkStatus`
  and `ReportJob` are defined only for the right kind of outcome, so `TypeInv`
  adds `PhaseOutcome`.
* `NoSilentLossHolds`, `VerdictFinalHolds`, `NoRunAfterVerdictHolds`
  (`RuntimeProofs`), under all faults. `HistoryInv` adds that an event
  that was not dispatched has left no trace (`FreshEvents`), that the row shows
  the verdict until it is purged (`VerdictShown`), and that good news is true at
  every stage between the handler and pgwq's table (`NewsIsTrue`).
* `RowsMeetCheckHolds`, `ErrorExplainsStatusHolds`, `PurgedOnlySettledHolds`,
  `AttemptsMonotoneHolds`, `LifecycleImplemented` (`RuntimeAuditProofs`), under
  all faults. `AuditInv` adds to `HistoryInv` that a deleted row leaves nothing
  behind (`AbsentIsEmpty`), that a row counts at least the attempt of the task
  that holds it (`StampCounts`, without which a mark with a retry reason could
  give up too early), that a row is missing only once it was settled
  (`GoneIsSettled`), and that a handler is called only for a stamped row
  (`CalledIsStamped`). The refinement maps a step to the abstract action of the
  delivery whose row it changes: every building block changes one row, and a
  purged row keeps the verdict it had.
* `OwnerHoldsRowHolds`, `StaleMarkIsFencedHolds` (`RuntimeFencingProofs`), under
  all faults, crashes and cancellations, assuming `ClaimsInTime`: no lease runs
  out between pgwq's claim and the claim CTE. The run `runtime_stale_claim`
  shows that the assumption is needed. `FencingInv` adds to `HistoryInv` that
  live tasks hold leases that were given out, and the current one knows pgwq's
  attempt (`LeasesGiven`), that a task which has not stamped its row is the
  owner (`ClaimedOwns`), and that the newest task that stamped a running row is
  the one whose token it carries (`StampsAscend`).
* `SettledTogetherHolds`, `NoDeadSentHolds` (`RuntimeFencingProofs`), with
  crashes, redeploys, purges and leases that run out under a handler, a mark or
  a report, assuming `NothingFails`: `ClaimsInTime`, no failed statement, no
  outer timeout. The run `runtime_dead_sent` shows what one lost reply does.
  `SettlementInv` adds that a row has its event (`RowsHaveEvents`) and that a
  verdict which will end the job finds the row settled, and not as `sent` unless
  the verdict is ok (`ReportAgrees`). A stale task cannot disturb this: it may
  mark only a running row, and the owner's row is settled before its report.

The other components:

* `DispatchTypeCorrect`, `KeyNamesLiveEventHolds`, `OneEventPerKeyHolds`,
  `DuplicateHoldsHolds`, `NoOrphanRowHolds`, `UnsettledJobHasRowHolds`
  (`DispatchProofs`), with careless callers, dropped calls, failing
  statements, deadlock victims and all purges. The committed tables alone are not inductive: what a
  commit does to them depends on what the transaction staged. `DispatchInv` adds
  what a transaction looks like in each phase (`TxShape`), that its event ids
  are its own (`Exclusive`) and still unused, that the keys it reserved or was
  told of are locked by it (`TxTables`), and that a committed key is the one its
  event was dispatched with, for as long as neither is purged (`KeyHasOrigin`,
  `Remembered`). The lock is what makes `Duplicate` stay true.
* `OneWorkerHolds`, `FlagHonestHolds`, `StartsOnceHolds` (`LifecycleProofs`).
  `OneWorker` and the flag need each other: a failing start clears the flag for
  everyone, which is safe only because nobody else can be inside.
* `DeadlinesTypeCorrect`, `MarkHasTimeHolds`, `LeaseCoversHolds`,
  `RefusedOnlyLateHolds` (`DeadlinesProofs`), for all configurations,
  registrations and bounds.
  `DeadlinesInv` adds what validation gives (`Sound`, `Checked`), that nothing
  runs before the dispatch (`Dispatched`), where each task's timers stand
  against the clock (`TimersOK`: an unblocked handler is within our timeout of
  its start, which is the poll plus the overhead so far) and whose lease ends
  when (`LeaseOK`: a task that lost its lease before its first poll was polled
  late). `ClockInv` adds to it how the stamps of the row are ordered against the
  statements still under way (`ClockRow`, `ClockTask`): while nobody is late,
  every stamp an owner can meet is no later than its own claim, since a task
  that has yet to stamp the row still holds its lease.
* `OverLimitIsLegacyHolds`, `MisdirectedOnlyByRedeployHolds`
  (`ConcurrencyLimitsProofs`), for any plans, limits and redeploys. A limit
  counts the tasks that run, whereas a permit is given to a job with a key:
  `LimitsInv` adds that a job has a key or is legacy (`JobsDispatched`), that
  no more tasks with a key run than the limit allows (`PermitsCounted`), and
  that what the running build dispatched it has a handler of the right type for.
* `TextAcceptedHolds`, `LongestFitHolds`, `SameTextBothSidesHolds`,
  `HeadersGapHolds` (`ErrorTextProofs`), for reasons of any length and any
  limits. `TextInv` adds what `shown` and `heard` stand for: the row, or the
  job, has the text of the last call (`TextsShown`), which needs row, job and
  task to be in step (`InStep`): while a task runs its job is leased, and neither
  table shows its call before its mark and its report. Under it are facts about the recursive
  functions: the bytes of prefixes ascend strictly, a text has at least as many
  bytes as characters (so pgwq's cap in characters never cuts what fits in
  bytes), and `MoveBack` ends at the last boundary that is not beyond the limit.
  The provers have no usable induction rule, so such a fact is proved by its
  least counterexample: a set of naturals that is not empty has a least element
  (`Least`, from `WFMin`), and the step before or after it contradicts this.

Only model-checked, and staying so because fairness and `ENABLED` are out of the
prover's reach: `EveryDeliverySettles` and `NoHeadOfLineBlocking`. The three runs that are expected to fail are counterexamples and need no proof.

## Not modelled, and the plan

Left to do: no safety property of a run is without a theorem. The components
share abstractions of each other (the worker's three steps in `Dispatch` for `Runtime`,
`Runtime!DispatchCommit` for `Dispatch`, `ExpiryPhases` for `Deadlines`) that are
stated and not proved to be implemented.

Not modelled:

* `history.rs`: two SELECTs that keep no state. (`history.rs:74` describes
  `Skipped` as "no handler registered at runtime"; the code marks such a delivery
  `dead`, as `Runtime!HandlerNotRegistered` does.)
* `handler.rs`, `lib.rs`: traits and data types; their variants are the inputs of
  `Runtime!HandlerReturns` and `ErrorText!HandlerFails`.
* `cutoff_from` in `purge.rs`: purges choose rows without a clock. The fallback
  for a huge `older_than` is one chrono expression, within reach of a unit test.
* pgwq's backoff, poll interval and own purge, the checksums of the migrator,
  tracing and wording, sqlx and PostgreSQL below the level of statements, locks
  and constraints.
