------------------------------ MODULE Deadlines -----------------------------
(***************************************************************************)
(* Real time around handle_envelope (src/runtime.rs): pgwq's lease, pgwq's *)
(* outer handler_timeout, our own timeout around the handler, and the      *)
(* now() that PostgreSQL writes into the audit row, for one delivery of an *)
(* outbox that Builder has built.  Statements, connection waits and the    *)
(* spawning of a task may take any time; timers fire when they are due,    *)
(* unless a handler blocks the thread they would fire on.                  *)
(***************************************************************************)
EXTENDS Builder, FiniteSets

CONSTANTS
    MayBlock,    \* may a handler block its thread
    MaxClaims,   \* bound: leases of the job
    MaxCrashes,  \* bound: crashes
    MaxTime      \* bound: the clock, and the leases that can run out on it

ASSUME DeadlinesAssumption ==
    /\ MayBlock \in BOOLEAN
    /\ MaxClaims \in Nat /\ MaxCrashes \in Nat /\ MaxTime \in Nat

Claims == 1..MaxClaims
Time   == Nat

\* "spawned": claimed by pgwq, not polled yet.  "fetch" and "mark": waiting for
\* a connection.  "fetching" and "marking": the statement is in PostgreSQL.
Timed  == {"fetch", "fetching", "handler", "mark", "marking"}
Phases == Timed \cup {"idle", "spawned", "report"}

\* A task keeps what its phase still needs.
Task == [pc      : Phases,
         claimed : Time,     \* the lease began
         polled  : Time,     \* pgwq's outer timer began
         since   : Time,     \* our timer began, or the handler call ended
         used    : Nat,      \* overhead before the handler call
         began   : Time,     \* now() of the statement in progress
         blocked : BOOLEAN,  \* the handler has blocked its thread
         verdict : {"none", "ok", "retry", "refused"}]

NoTask == [pc |-> "idle", claimed |-> 0, polled |-> 0, since |-> 0, used |-> 0,
           began |-> 0, blocked |-> FALSE, verdict |-> "none"]

\* The clock columns of the audit row, None for NULL, and who is to mark it.
Row == [status : {"queued", "running", "awaiting_retry", "settled"}, lease_token : Nat,
        first_attempted_at : Time \cup {None}, last_attempted_at : Time \cup {None},
        finished_at : Time \cup {None}]

CREATED_AT == 0

NewRow == [status |-> "queued", lease_token |-> 0, first_attempted_at |-> None,
           last_attempted_at |-> None, finished_at |-> None]

VARIABLES
    now,      \* the clock of the database server
    handler,  \* position of the delivery's handler in the registry, 0 before dispatch
    job,      \* pgwq's job: status, token of the last lease, end of that lease
    tasks,    \* the wrapper's tasks, by lease
    row,      \* the audit row
    crashes,  \* number of crashes so far
    late      \* history: a task was polled later than the lease allows for

timed == <<now, handler, job, tasks, row, crashes, late>>
vars  == <<builder, timed>>

Init ==
    /\ BuilderInit
    /\ now = 0
    /\ handler = 0
    /\ job = [status |-> "absent", token |-> 0, until |-> 0]
    /\ tasks = [n \in Claims |-> NoTask]
    /\ row = NewRow
    /\ crashes = 0
    /\ late = FALSE

Owner(n) == job.status = "leased" /\ job.token = n

-----------------------------------------------------------------------------
(* The temporal CHECK and the two UPDATEs that stamp the clock.            *)

\* CONSTRAINT handler_deliveries_temporal.
TemporalCheck(r) ==
    /\ r.first_attempted_at # None => r.first_attempted_at >= CREATED_AT
    /\ r.last_attempted_at # None =>
         r.last_attempted_at >= (IF r.first_attempted_at # None
                                   THEN r.first_attempted_at ELSE CREATED_AT)
    /\ r.finished_at # None =>
         r.finished_at >= (IF r.last_attempted_at # None
                             THEN r.last_attempted_at ELSE CREATED_AT)

\* clock_timestamp() in one column and now() in the other.
StampedAtCommit(n) ==
    [row EXCEPT !.status = "running", !.lease_token = n,
                !.last_attempted_at = tasks[n].began,
                !.first_attempted_at = IF @ = None THEN now ELSE @]

\* The claim's SET: now() is the time at which its transaction began.
Stamped(n) ==
    [row EXCEPT !.status = "running", !.lease_token = n,
                !.last_attempted_at = tasks[n].began,
                !.first_attempted_at = IF @ = None THEN tasks[n].began ELSE @]

\* mark_*_fenced.
Marked(n, status) ==
    IF row.status = "running" /\ row.lease_token = n
      THEN [row EXCEPT !.status = status, !.lease_token = 0,
                       !.finished_at = IF status = "settled" THEN tasks[n].began ELSE @]
      ELSE row

-----------------------------------------------------------------------------
(* Dispatch and claim.                                                     *)

Dispatch(i) ==
    /\ Ready
    /\ handler = 0
    /\ config.lease_timeout <= MaxTime
    /\ handler' = i
    /\ job' = [job EXCEPT !.status = "queued"]
    /\ UNCHANGED <<builder, now, tasks, row, crashes, late>>

\* The poll loop leases the job and spawns the wrapper.
Claim(n) ==
    /\ job.status = "queued"
    /\ n = job.token + 1
    /\ Cardinality({m \in Claims : tasks[m].pc # "idle"}) < config.concurrency
    /\ job' = [status |-> "leased", token |-> n, until |-> now + config.lease_timeout]
    /\ tasks' = [tasks EXCEPT ![n] = [NoTask EXCEPT !.pc = "spawned", !.claimed = now]]
    /\ UNCHANGED <<builder, now, handler, row, crashes, late>>

-----------------------------------------------------------------------------
(* The wrapper.                                                            *)

Become(n, t) ==
    /\ tasks' = [tasks EXCEPT ![n] = t]
    /\ UNCHANGED <<builder, now, handler, job, crashes>>

\* The wrapper's future is over, with or without its consent.
Return(n, verdict) == Become(n, [NoTask EXCEPT !.pc = "report", !.verdict = verdict])

\* What the configuration leaves between pgwq's claim and the first poll.
Slack == config.lease_timeout - config.handler_timeout

\* The first poll starts pgwq's timer.
FirstPoll(n) ==
    /\ tasks[n].pc = "spawned"
    /\ Become(n, [tasks[n] EXCEPT !.pc = "fetch", !.polled = now])
    /\ late' = (late \/ now - tasks[n].claimed >= Slack)
    /\ UNCHANGED row

\* A connection is there, the claim CTE begins.
BeginFetch(n) ==
    /\ tasks[n].pc = "fetch"
    /\ Become(n, [tasks[n] EXCEPT !.pc = "fetching", !.began = now])
    /\ UNCHANGED <<row, late>>

\* The CTE gets the row lock and commits: the handler is called and our timer
\* starts, unless the row is settled.
Fetched(n) ==
    /\ tasks[n].pc = "fetching"
    /\ row.status # "settled" => TemporalCheck(Stamped(n))
    /\ IF row.status = "settled"
         THEN /\ Return(n, "ok")
              /\ UNCHANGED row
         ELSE /\ Become(n, [tasks[n] EXCEPT !.pc = "handler", !.since = now, !.began = 0,
                                             !.used = now - tasks[n].polled])
              /\ row' = Stamped(n)
    /\ UNCHANGED late

\* The CHECK refuses the stamp (SQLSTATE 23514): map_sql makes it an abort.
FetchRefused(n) ==
    /\ tasks[n].pc = "fetching"
    /\ row.status # "settled" /\ ~TemporalCheck(Stamped(n))
    /\ Return(n, "refused")
    /\ UNCHANGED <<row, late>>

\* The handler enters code that does not yield to the runtime.
Blocks(n) ==
    /\ MayBlock
    /\ tasks[n].pc = "handler" /\ ~tasks[n].blocked
    /\ Become(n, [tasks[n] EXCEPT !.blocked = TRUE])
    /\ UNCHANGED <<row, late>>

\* tokio::time::timeout(our_timeout, ..) is over.
OursDue(n) ==
    /\ tasks[n].pc = "handler" /\ ~tasks[n].blocked
    /\ now >= tasks[n].since + OurTimeout(handler)

\* The handler returns or panics, or our timeout ends the call.
HandlerEnds(n) ==
    /\ tasks[n].pc = "handler"
    /\ Become(n, [tasks[n] EXCEPT !.pc = "mark", !.since = now])
    /\ UNCHANGED <<row, late>>

BeginMark(n) ==
    /\ tasks[n].pc = "mark"
    /\ Become(n, [tasks[n] EXCEPT !.pc = "marking", !.began = now])
    /\ UNCHANGED <<row, late>>

\* A mark commits or is fenced out, and the wrapper returns its verdict; one
\* that the CHECK refused would be an abort.
MarkLands(n) ==
    /\ tasks[n].pc = "marking"
    /\ \E status \in {"awaiting_retry", "settled"} :
         IF TemporalCheck(Marked(n, status))
           THEN /\ row' = Marked(n, status)
                /\ Return(n, IF status = "settled" THEN "ok" ELSE "retry")
           ELSE UNCHANGED row /\ Return(n, "refused")
    /\ UNCHANGED late

-----------------------------------------------------------------------------
(* pgwq and the process.                                                   *)

\* pgwq's handler_timeout is over, and the task is one it can cancel.
OuterDue(n) ==
    /\ tasks[n].pc \in Timed
    /\ tasks[n].pc = "handler" => ~tasks[n].blocked
    /\ now >= tasks[n].polled + config.handler_timeout

\* The wrapper is dropped; a statement in progress has landed or not.
OuterTimeout(n) ==
    /\ OuterDue(n)
    /\ Return(n, "retry")
    /\ \/ UNCHANGED row
       \/ /\ tasks[n].pc = "fetching" /\ row.status # "settled"
          /\ TemporalCheck(Stamped(n)) /\ row' = Stamped(n)
       \/ /\ tasks[n].pc = "marking"
          /\ \E status \in {"awaiting_retry", "settled"} :
               TemporalCheck(Marked(n, status)) /\ row' = Marked(n, status)
    /\ UNCHANGED late

\* pgwq writes the verdict, under the fence of its own token.
Report(n) ==
    /\ tasks[n].pc = "report"
    /\ tasks' = [tasks EXCEPT ![n] = NoTask]
    /\ job' = [job EXCEPT !.status =
                 IF ~Owner(n) THEN @ ELSE IF tasks[n].verdict = "retry" THEN "queued" ELSE "ended"]
    /\ UNCHANGED <<builder, now, handler, row, crashes, late>>

\* The reaper finds the lease expired.
Reap ==
    /\ job.status = "leased"
    /\ now >= job.until
    /\ job' = [job EXCEPT !.status = "queued"]
    /\ UNCHANGED <<builder, now, handler, tasks, row, crashes, late>>

\* The process dies and is started again with the same build.
Crash ==
    /\ Ready
    /\ crashes < MaxCrashes
    /\ crashes' = crashes + 1
    /\ tasks' = [n \in Claims |-> NoTask]
    /\ UNCHANGED <<builder, now, handler, job, row, late>>

\* Time passes, but not past a timer that can fire.
Tick ==
    /\ handler # 0
    /\ now < MaxTime
    /\ \A n \in Claims : ~OursDue(n) /\ ~OuterDue(n)
    /\ now' = now + 1
    /\ UNCHANGED <<builder, handler, job, tasks, row, crashes, late>>

-----------------------------------------------------------------------------
Wrapper(n) ==
    \/ FirstPoll(n) \/ BeginFetch(n) \/ Fetched(n) \/ FetchRefused(n)
    \/ Blocks(n) \/ HandlerEnds(n)
    \/ BeginMark(n) \/ MarkLands(n)

Next ==
    \/ BuilderNext /\ UNCHANGED timed
    \/ \E i \in DOMAIN pending : Dispatch(i)
    \/ \E n \in Claims : Claim(n) \/ Wrapper(n) \/ OuterTimeout(n) \/ Report(n)
    \/ Reap
    \/ Crash
    \/ Tick

Spec == Init /\ [][Next]_vars

-----------------------------------------------------------------------------
(* Properties.                                                             *)

\* The variables have their types.
TypeOK ==
    /\ BuilderType
    /\ now \in Time /\ handler \in 0..Len(pending) /\ crashes \in Nat
    /\ job \in [status : {"absent", "queued", "leased", "ended"}, token : Nat, until : Time]
    /\ tasks \in [Claims -> Task]
    /\ row \in Row
    /\ late \in BOOLEAN

\* What the wrapper itself has used of pgwq's handler_timeout: the claim CTE,
\* the mark, and the waits for their connections.
Overhead(n) ==
    LET t == tasks[n]
    IN  CASE t.pc \in {"fetch", "fetching"} -> now - t.polled
          [] t.pc = "handler"               -> t.used
          [] t.pc \in {"mark", "marking"}   -> t.used + (now - t.since)
          [] OTHER                          -> 0

\* runtime.rs:344-346: as long as its own statements have used less than
\* HANDLER_CLEANUP_BUDGET, the wrapper is not cancelled by pgwq, however long
\* the handler takes and whatever timeout it was registered with.  (A handler
\* that has blocked its thread past the timeout is beyond any timer.)
MarkHasTime ==
    \A n \in Claims :
        tasks[n].pc \in Timed /\ ~tasks[n].blocked /\ Overhead(n) < HANDLER_CLEANUP_BUDGET
            => ~OuterDue(n)

\* A task that was polled at once, or within lease_timeout - handler_timeout of
\* its claim, still has its lease whenever it claims, runs or marks: the reaper
\* cannot give the job to another one beside it, unless its handler blocks.
LeaseCovers ==
    \A n \in Claims :
        /\ tasks[n].pc \in Timed /\ ~tasks[n].blocked
        /\ tasks[n].polled - tasks[n].claimed < Slack \/ tasks[n].polled = tasks[n].claimed
        => Owner(n)

\* As long as every task is polled in time, the temporal CHECK refuses no claim
\* and no mark: not with retries, blocked handlers, expired leases or crashes.
RefusedOnlyLate == (\E n \in Claims : tasks[n].verdict = "refused") => late
=============================================================================
