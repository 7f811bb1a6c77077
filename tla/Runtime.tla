------------------------------- MODULE Runtime ------------------------------
(***************************************************************************)
(* OutboxRuntime::handle_envelope (src/runtime.rs) run by the tasks of one *)
(* pg_work_queue worker, with the tables it shares with the reaper, the    *)
(* purge functions and a process that may crash at any point.              *)
(*                                                                         *)
(* A task is one claim of one job: tasks[d][n] runs handle_envelope for    *)
(* the n-th lease of delivery d.  Every SQL statement is one atomic step;  *)
(* between two statements anything may happen.                             *)
(***************************************************************************)
EXTENDS OutboxSchema, PgWorkQueue, FiniteSets

CONSTANTS
    MaxAttempts,   \* OutboxConfig::max_attempts
    Concurrency,   \* OutboxConfig::concurrency
    Configs,       \* what a (re)started process may be deployed with
    Faults,        \* what may go wrong with a statement
    ExpiryPhases,  \* phases in which the lease of a live task may run out
    CancelPhases,  \* phases in which pgwq's outer handler_timeout may fire
    Reaping,       \* what the reaper may do to attempts
    MaxClaims,     \* bound: claims per job
    MaxCrashes     \* bound: crashes per behaviour

\* "claimed": claimed by pgwq, the CTE has not run.  "handler": the user's
\* handler is running.  "mark": a mark_*_fenced is due.  "report": the wrapper
\* has returned and pgwq is to write the verdict.
Phases == {"claimed", "handler", "mark", "report"}

\* "transient": the statement fails and leaves nothing.  "lost": it commits
\* and the reply is lost, so the caller sees an I/O error.  "deterministic":
\* an error is_sqlx_deterministic calls permanent.  "report": pgwq fails to
\* write the verdict.
FaultKinds == {"transient", "lost", "deterministic", "report"}

\* The part of OutboxConfig and Registry that the wrapper consults.
Config == [registry : SUBSET Handlers,
           panic_policy : {"retry", "dead"},
           decode_error_strategy : {"retry", "abort"}]

ASSUME RuntimeAssumption ==
    /\ MaxAttempts \in Nat \ {0}
    /\ Concurrency \in Nat \ {0}
    /\ Configs \subseteq Config
    /\ Faults \subseteq FaultKinds
    /\ ExpiryPhases \subseteq Phases
    /\ CancelPhases \subseteq Phases \ {"report"}
    /\ Reaping \subseteq ReapModes
    /\ MaxClaims \in Nat \ {0}
    /\ MaxCrashes \in Nat

Claims == 1..MaxClaims

\* What a handler call ends with (HandlerOutcome, a caught panic, our
\* timeout), and what handle_envelope makes of it (Result<(), HandlerError>).
HandlerOutcomes == {"ok", "retry", "skip", "abort", "decode_failed", "panic", "timeout"}
HandlerResults  == {"ok", "retry", "skip", "abort"}

Task == [pc      : Phases \cup {"idle"},
         attempt : Nat,                                  \* JobContext.attempt
         outcome : HandlerResults \cup Verdicts \cup {"none"}]

NoTask == [pc |-> "idle", attempt |-> 0, outcome |-> "none"]

VARIABLES
    events,     \* outbox.events: "none", "live" or "purged"
    rows,       \* outbox.handler_deliveries
    jobs,       \* pgwq.jobs
    tasks,      \* the wrapper's tasks, by delivery and lease token
    config,     \* configuration and registry of the running process
    up,         \* is the worker process running
    crashes,    \* number of crashes so far
    verdict,    \* history: the terminal status the audit row ever had
    succeeded   \* history: deliveries whose handler returned Ok(())

vars == <<events, rows, jobs, tasks, config, up, crashes, verdict, succeeded>>

Running == {c \in Deliveries \X Claims : tasks[c[1]][c[2]].pc # "idle"}

Init ==
    /\ events = [e \in Events |-> "none"]
    /\ rows = [d \in Deliveries |-> NoRow]
    /\ jobs = [d \in Deliveries |-> NoJob]
    /\ tasks = [d \in Deliveries |-> [n \in Claims |-> NoTask]]
    /\ config \in Configs
    /\ up = TRUE
    /\ crashes = 0
    /\ verdict = [d \in Deliveries |-> "none"]
    /\ succeeded = {}

-----------------------------------------------------------------------------
(* Dispatch and pgwq's poll loop.                                          *)

\* The user's transaction commits: event, one audit row and one job for each
\* registered handler, all together.
DispatchCommit(e) ==
    /\ up
    /\ events[e] = "none"
    /\ events' = [events EXCEPT ![e] = "live"]
    /\ rows' = [d \in Deliveries |->
                  IF d[1] = e /\ d[2] \in config.registry THEN NewRow ELSE rows[d]]
    /\ jobs' = [d \in Deliveries |->
                  IF d[1] = e /\ d[2] \in config.registry THEN PushedJob ELSE jobs[d]]
    /\ UNCHANGED <<tasks, config, up, crashes, verdict, succeeded>>

\* The poll loop claims a queued job and spawns the wrapper.
Claim(d) ==
    /\ up
    /\ jobs[d].status = "queued"
    /\ jobs[d].token < MaxClaims
    /\ Cardinality(Running) < Concurrency
    /\ jobs' = [jobs EXCEPT ![d] = ClaimJob(@)]
    /\ tasks' = [tasks EXCEPT ![d][jobs[d].token + 1] =
                   [pc |-> "claimed", attempt |-> jobs[d].attempts + 1, outcome |-> "none"]]
    /\ UNCHANGED <<events, rows, config, up, crashes, verdict, succeeded>>

-----------------------------------------------------------------------------
(* handle_envelope, steps 2 and 3: the claim CTE and what its result means.*)

Goto(d, n, pc, outcome) ==
    tasks' = [tasks EXCEPT ![d][n] = [@ EXCEPT !.pc = pc, !.outcome = outcome]]

StampRow(d, n) == rows' = [rows EXCEPT ![d] = Stamp(@, tasks[d][n].attempt, n)]

\* No event row, or no audit row: abort, nothing to mark.
RowMissing(d, n) ==
    /\ tasks[d][n].pc = "claimed"
    /\ events[d[1]] # "live" \/ rows[d].status = Absent
    /\ StampRow(d, n)
    /\ Goto(d, n, "report", "abort")
    /\ UNCHANGED <<events, jobs, config, up, crashes, verdict, succeeded>>

\* Already terminal: skip the handler, return Ok.
AlreadyTerminal(d, n) ==
    /\ tasks[d][n].pc = "claimed"
    /\ events[d[1]] = "live"
    /\ rows[d].status \in Terminal
    /\ StampRow(d, n)
    /\ Goto(d, n, "report", "ok")
    /\ UNCHANGED <<events, jobs, config, up, crashes, verdict, succeeded>>

\* A row that is not terminal is stamped and the handler is called.
StartHandler(d, n) ==
    /\ tasks[d][n].pc = "claimed"
    /\ events[d[1]] = "live"
    /\ rows[d].status \in Active
    /\ d[2] \in config.registry
    /\ StampRow(d, n)
    /\ Goto(d, n, "handler", "none")
    /\ UNCHANGED <<events, jobs, config, up, crashes, verdict, succeeded>>

\* Stamped, but this process has no such handler: mark_dead, abort.
HandlerNotRegistered(d, n) ==
    /\ tasks[d][n].pc = "claimed"
    /\ events[d[1]] = "live"
    /\ rows[d].status \in Active
    /\ d[2] \notin config.registry
    /\ StampRow(d, n)
    /\ Goto(d, n, "mark", "abort")
    /\ UNCHANGED <<events, jobs, config, up, crashes, verdict, succeeded>>

\* The CTE fails: map_sql turns the error into retry or abort.
FetchFails(d, n) ==
    /\ tasks[d][n].pc = "claimed"
    /\ \/ /\ "transient" \in Faults
          /\ Goto(d, n, "report", "retry")
          /\ UNCHANGED rows
       \/ /\ "lost" \in Faults
          /\ Goto(d, n, "report", "retry")
          /\ StampRow(d, n)
       \/ /\ "deterministic" \in Faults
          /\ Goto(d, n, "report", "abort")
          /\ UNCHANGED rows
    /\ UNCHANGED <<events, jobs, config, up, crashes, verdict, succeeded>>

-----------------------------------------------------------------------------
(* Steps 5 and 6: the handler call under catch_unwind and our timeout.     *)

\* Without the DecodeStrategy: the internal outcome escapes.
UndecodedResult(o) ==
    CASE o = "panic"   -> IF config.panic_policy = "retry" THEN "retry" ELSE "abort"
      [] o = "timeout" -> "retry"
      [] OTHER         -> o

HandlerResult(o) ==
    CASE o = "panic"         -> IF config.panic_policy = "retry" THEN "retry" ELSE "abort"
      [] o = "timeout"       -> "retry"
      [] o = "decode_failed" -> config.decode_error_strategy
      [] OTHER               -> o

HandlerReturns(d, n) ==
    /\ tasks[d][n].pc = "handler"
    /\ \E o \in HandlerOutcomes :
         /\ Goto(d, n, "mark", HandlerResult(o))
         /\ succeeded' = IF o = "ok" THEN succeeded \cup {d} ELSE succeeded
    /\ UNCHANGED <<events, rows, jobs, config, up, crashes, verdict>>

-----------------------------------------------------------------------------
(* Step 7: the terminal transition, then the JobError for pgwq.            *)

\* The last attempt taken for one more retry.
LateDead(result, attempt) ==
    CASE result = "ok"    -> "sent"
      [] result = "skip"  -> "skipped"
      [] result = "abort" -> "dead"
      [] result = "retry" -> IF attempt > MaxAttempts THEN "dead" ELSE "awaiting_retry"

\* Given up one attempt early.
EarlyDead(result, attempt) ==
    CASE result = "ok"    -> "sent"
      [] result = "skip"  -> "skipped"
      [] result = "abort" -> "dead"
      [] result = "retry" -> IF attempt + 1 >= MaxAttempts THEN "dead" ELSE "awaiting_retry"

MarkStatus(result, attempt) ==
    CASE result = "ok"    -> "sent"
      [] result = "skip"  -> "skipped"
      [] result = "abort" -> "dead"
      [] result = "retry" -> IF attempt >= MaxAttempts THEN "dead" ELSE "awaiting_retry"

MarkReason(result) == IF result = "ok" THEN "null" ELSE result

\* Every completed mark taken for a completed job.
AlwaysOk(result) == IF result \in {"ok", "retry"} THEN "ok" ELSE "abort"

JobVerdict(result) ==
    CASE result = "ok"    -> "ok"
      [] result = "retry" -> "retry"
      [] OTHER            -> "abort"

MarkRow(d, n) ==
    LET t == tasks[d][n]
        r == MarkFenced(rows[d], n, MarkStatus(t.outcome, t.attempt), MarkReason(t.outcome))
    IN  /\ rows' = [rows EXCEPT ![d] = r]
        /\ verdict' = [verdict EXCEPT ![d] = IF r.status \in Terminal THEN r.status ELSE @]

\* The UPDATE matches the row or is fenced out: the wrapper goes on either way.
MarkDelivery(d, n) ==
    /\ tasks[d][n].pc = "mark"
    /\ MarkRow(d, n)
    /\ Goto(d, n, "report", JobVerdict(tasks[d][n].outcome))
    /\ UNCHANGED <<events, jobs, config, up, crashes, succeeded>>

\* The UPDATE fails: map_mark_err returns before the verdict is formed.
MarkFails(d, n) ==
    /\ tasks[d][n].pc = "mark"
    /\ \/ /\ "transient" \in Faults
          /\ Goto(d, n, "report", "retry")
          /\ UNCHANGED <<rows, verdict>>
       \/ /\ "lost" \in Faults
          /\ Goto(d, n, "report", "retry")
          /\ MarkRow(d, n)
       \/ /\ "deterministic" \in Faults
          /\ Goto(d, n, "report", "abort")
          /\ UNCHANGED <<rows, verdict>>
    /\ UNCHANGED <<events, jobs, config, up, crashes, succeeded>>

-----------------------------------------------------------------------------
(* pgwq around the wrapper: outer timeout, verdict write, reaper.          *)

\* pgwq's handler_timeout drops the wrapper's future and counts a retry.  A
\* statement that was in flight has landed or not.
OuterTimeout(d, n) ==
    /\ tasks[d][n].pc \in CancelPhases
    /\ Goto(d, n, "report", "retry")
    /\ \/ UNCHANGED <<rows, verdict>>
       \/ tasks[d][n].pc = "claimed" /\ StampRow(d, n) /\ UNCHANGED verdict
       \/ tasks[d][n].pc = "mark" /\ MarkRow(d, n)
    /\ UNCHANGED <<events, jobs, config, up, crashes, succeeded>>

EndTask(d, n) == tasks' = [tasks EXCEPT ![d][n] = NoTask]

Report(d, n) ==
    /\ tasks[d][n].pc = "report"
    /\ jobs' = [jobs EXCEPT ![d] = ReportJob(@, n, tasks[d][n].outcome, MaxAttempts)]
    /\ EndTask(d, n)
    /\ UNCHANGED <<events, rows, config, up, crashes, verdict, succeeded>>

ReportFails(d, n) ==
    /\ "report" \in Faults
    /\ tasks[d][n].pc = "report"
    /\ EndTask(d, n)
    /\ UNCHANGED <<events, rows, jobs, config, up, crashes, verdict, succeeded>>

\* A lease runs out once nobody works on it, or under a task that is stuck in
\* one of ExpiryPhases (a handler that blocks its thread, a task never polled).
Reap(d) ==
    /\ up
    /\ jobs[d].status = "leased"
    /\ tasks[d][jobs[d].token].pc \in ExpiryPhases \cup {"idle"}
    /\ \E mode \in Reaping : jobs' = [jobs EXCEPT ![d] = ReapJob(@, mode)]
    /\ UNCHANGED <<events, rows, tasks, config, up, crashes, verdict, succeeded>>

-----------------------------------------------------------------------------
(* The process, and the purge functions of src/purge.rs.                   *)

\* Crash, kill, or a dropped OutboxHandle: every task is gone, leases stay.
Crash ==
    /\ up
    /\ crashes < MaxCrashes
    /\ up' = FALSE
    /\ crashes' = crashes + 1
    /\ tasks' = [d \in Deliveries |-> [n \in Claims |-> NoTask]]
    /\ UNCHANGED <<events, rows, jobs, config, verdict, succeeded>>

\* A new process, perhaps of a new version: build() and start() again.
Restart ==
    /\ ~up
    /\ up' = TRUE
    /\ config' \in Configs
    /\ UNCHANGED <<events, rows, jobs, tasks, crashes, verdict, succeeded>>

\* One row of a chunk of purge_terminal_deliveries.
PurgeTerminalDelivery(d) ==
    /\ rows[d].status \in Terminal
    /\ rows' = [rows EXCEPT ![d] = NoRow]
    /\ UNCHANGED <<events, jobs, tasks, config, up, crashes, verdict, succeeded>>

\* purge_events without its NOT EXISTS.
AnyDeliveries(e) == TRUE

\* EXISTS a settled delivery, for NOT EXISTS an active one.
SomeSettled(e) == \E h \in Handlers : rows[<<e, h>>].status \in Terminal

\* NOT EXISTS a delivery in queued, running or awaiting_retry.
NoActiveDelivery(e) == \A h \in Handlers : rows[<<e, h>>].status \notin Active

\* One event of a chunk of purge_events, with the rows it cascades to.
PurgeEvent(e) ==
    /\ events[e] = "live"
    /\ NoActiveDelivery(e)
    /\ events' = [events EXCEPT ![e] = "purged"]
    /\ rows' = [d \in Deliveries |-> IF d[1] = e THEN NoRow ELSE rows[d]]
    /\ UNCHANGED <<jobs, tasks, config, up, crashes, verdict, succeeded>>

-----------------------------------------------------------------------------
\* A step of the wrapper itself, for one task.
Wrapper(d, n) ==
    \/ RowMissing(d, n)
    \/ AlreadyTerminal(d, n)
    \/ StartHandler(d, n)
    \/ HandlerNotRegistered(d, n)
    \/ HandlerReturns(d, n)
    \/ MarkDelivery(d, n)
    \/ Report(d, n)

\* What may go wrong with it.
Failure(d, n) ==
    \/ FetchFails(d, n)
    \/ MarkFails(d, n)
    \/ OuterTimeout(d, n)
    \/ ReportFails(d, n)

Next ==
    \/ \E d \in Deliveries, n \in Claims : Wrapper(d, n) \/ Failure(d, n)
    \/ \E d \in Deliveries : Claim(d) \/ Reap(d) \/ PurgeTerminalDelivery(d)
    \/ \E e \in Events : DispatchCommit(e) \/ PurgeEvent(e)
    \/ Crash
    \/ Restart

Spec == Init /\ [][Next]_vars

\* tokio runs every task that can make progress and our timeout ends every
\* handler call, pgwq polls and reaps in a loop, and a supervisor restarts
\* the process.  Nothing is assumed of users, purges, failures or crashes.
Fairness ==
    /\ \A d \in Deliveries, n \in Claims : WF_vars(Wrapper(d, n))
    /\ \A d \in Deliveries : WF_vars(Claim(d)) /\ WF_vars(Reap(d))
    /\ WF_vars(Restart)

FairSpec == Spec /\ Fairness

-----------------------------------------------------------------------------
(* Properties.                                                             *)

\* The variables have their types.
TypeOK ==
    /\ events \in [Events -> {"none", "live", "purged"}]
    /\ rows \in [Deliveries -> Row]
    /\ jobs \in [Deliveries -> Job]
    /\ tasks \in [Deliveries -> [Claims -> Task]]
    /\ config \in Config
    /\ up \in BOOLEAN
    /\ crashes \in Nat
    /\ verdict \in [Deliveries -> Terminal \cup {"none"}]
    /\ succeeded \subseteq Deliveries

\* No UPDATE of the wrapper leaves a row that the CHECK constraint refuses:
\* whatever is stale, fenced or lost, a claim or a mark never fails on it.
RowsMeetCheck == \A d \in Deliveries : rows[d].status # Absent => StatusInvariants(rows[d])

\* last_error belongs to the status it stands beside, and a delivery given up
\* on a retry reason had used its whole retry budget.
ErrorExplainsStatus ==
    \A d \in Deliveries :
        LET r == rows[d]
        IN  /\ r.last_error = "null" <=> r.status \in {Absent, "queued", "running", "sent"}
            /\ r.last_error = "skip" <=> r.status = "skipped"
            /\ r.status = "awaiting_retry" => r.last_error = "retry"
            /\ r.status = "dead" /\ r.last_error = "retry" => r.attempts >= MaxAttempts

\* The task that holds the lease also holds the audit row from the end of its
\* claim to its mark, so the owner's own mark is never fenced out.
OwnerHoldsRow ==
    \A d \in Deliveries, n \in Claims :
        /\ tasks[d][n].pc \in {"handler", "mark"}
        /\ jobs[d].status = "leased" /\ jobs[d].token = n
        => Fence(rows[d], n)

\* README.md:254: once a newer lease has stamped the row, the mark of an older
\* one changes nothing.
StaleMarkIsFenced ==
    [][\A d \in Deliveries, n, m \in Claims :
          /\ tasks[d][n].pc = "mark" /\ tasks'[d][n].pc = "report"
          /\ n < m /\ tasks[d][m].pc \in {"handler", "mark"}
          => rows'[d] = rows[d]]_vars

\* Nothing is stranded: once pgwq will not run the job again, the audit row is
\* terminal or purged.
SettledTogether ==
    \A d \in Deliveries : jobs[d].status \in {"done", "dead"} => rows[d].status \notin Active

\* README.md, known limitation 4: pgwq 'dead' beside our 'sent' never happens.
NoDeadSent == \A d \in Deliveries : ~(jobs[d].status = "dead" /\ rows[d].status = "sent")

\* A job pgwq counts as done was handled: its handler returned Ok at least once,
\* or the audit row was given up explicitly; and 'sent' is never a lie.
NoSilentLoss ==
    \A d \in Deliveries :
        /\ jobs[d].status = "done" => d \in succeeded \/ verdict[d] \in {"dead", "skipped"}
        /\ verdict[d] = "sent" => d \in succeeded

\* The first terminal verdict on a delivery stays, whoever wakes up late: the
\* row keeps it until it is purged and never comes back.
VerdictFinal ==
    [][\A d \in Deliveries :
          verdict[d] # "none" =>
             /\ verdict'[d] = verdict[d]
             /\ rows'[d].status \in {rows[d].status, Absent}]_vars

\* No handler call starts for a delivery that was ever settled, even after its
\* audit row was purged and its job queued again.
NoRunAfterVerdict ==
    [][\A d \in Deliveries, n \in Claims :
          tasks[d][n].pc # "handler" /\ tasks'[d][n].pc = "handler" => verdict[d] = "none"]_vars

\* purge_events deletes no event that a delivery still needs, and no sibling of
\* a settled delivery is deleted with it before it is settled itself.
PurgedOnlySettled ==
    \A d \in Deliveries :
        events[d[1]] = "purged" /\ jobs[d].status # "absent" => verdict[d] # "none"

\* The audit counter never runs backwards, even when pgwq's own does.
AttemptsMonotone ==
    [][\A d \in Deliveries :
          rows'[d].status # Absent => rows'[d].attempts >= rows[d].attempts]_vars

\* Every delivery behaves as DeliveryLifecycle says, through all failures.
AuditStatus ==
    [d \in Deliveries |->
        IF rows[d].status # Absent THEN rows[d].status
        ELSE IF verdict[d] = "none" THEN "absent" ELSE "purged"]

Lifecycle == INSTANCE DeliveryLifecycle WITH status <- AuditStatus

ImplementsLifecycle == Lifecycle!Spec

\* Only a failure of the last attempt's own statements may end a job whose
\* audit row is still active (README.md, known limitation 6); a failure of any
\* other attempt heals itself.
StrandedOnLastAttempt(d) ==
    /\ Faults \cup CancelPhases # {}
    /\ jobs[d].status = "dead" /\ jobs[d].attempts >= MaxAttempts
    /\ rows[d].status \in Active

\* Every dispatched delivery is settled and its job ended, or stranded by its
\* last attempt, after any number of retries, panics, timeouts, failed and
\* cancelled statements and crashes within the bounds.
EveryDeliverySettles ==
    \A d \in Deliveries :
        rows[d].status = "queued" ~>
            /\ jobs[d].status \in {"done", "dead"}
            /\ verdict[d] # "none" \/ StrandedOnLastAttempt(d)
=============================================================================
