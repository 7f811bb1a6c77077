------------------------------ MODULE Lifecycle -----------------------------
(***************************************************************************)
(* Outbox::start with its StartedGuard (src/outbox.rs) and the             *)
(* OutboxHandle it returns (src/handle.rs): one Outbox shared by several   *)
(* tasks that may all call start(), retry it, or drop the call half way.   *)
(***************************************************************************)
EXTENDS Naturals

CONSTANTS
    Callers,   \* tasks that hold the Arc<Outbox>
    MayPanic,  \* may Handle::current() panic (start polled outside tokio)
    MaxCalls   \* bound: calls of start() per task

ASSUME LifecycleAssumption ==
    MayPanic \in BOOLEAN /\ MaxCalls \in Nat

\* "entered": the flag is swapped, the guard is not yet there.  "probing": the
\* guard is armed and the schema probe is awaited.  "building": Worker::build
\* and start are awaited.  "running": the call returned a handle.  "draining":
\* shutdown awaits the worker.
Phases == {"idle", "entered", "probing", "building", "running", "draining"}

Answers == {"none", "ok", "already_started", "err", "panic"}

VARIABLES
    started,   \* Outbox::started
    roomy,     \* does the pool have concurrency * 2 + 2 connections
    migrated,  \* do the outbox tables exist
    pc,        \* where each task is
    answer,    \* what its last start() returned
    calls,     \* how often it has called start()
    workers,   \* tasks whose pgwq worker is alive
    ever       \* history: every answer start() has given

vars == <<started, roomy, migrated, pc, answer, calls, workers, ever>>

Init ==
    /\ started = FALSE
    /\ roomy \in BOOLEAN
    /\ migrated = FALSE
    /\ pc = [c \in Callers |-> "idle"]
    /\ answer = [c \in Callers |-> "none"]
    /\ calls = [c \in Callers |-> 0]
    /\ workers = {}
    /\ ever = {}

\* The operator runs the migrator.
Migrate ==
    /\ ~migrated
    /\ migrated' = TRUE
    /\ UNCHANGED <<started, roomy, pc, answer, calls, workers, ever>>

-----------------------------------------------------------------------------
(* start()                                                                 *)

Answer(c, a) ==
    /\ answer' = [answer EXCEPT ![c] = a]
    /\ ever' = ever \cup {a}

\* A load and a store instead of one swap: two tasks may both see FALSE.
EnterRacing(c) ==
    /\ pc[c] = "idle" /\ calls[c] < MaxCalls
    /\ calls' = [calls EXCEPT ![c] = @ + 1]
    /\ IF started /\ \A b \in Callers : pc[b] # "entered"
         THEN Answer(c, "already_started") /\ UNCHANGED pc
         ELSE pc' = [pc EXCEPT ![c] = "entered"] /\ UNCHANGED <<answer, ever>>
    /\ started' = TRUE
    /\ UNCHANGED <<roomy, migrated, workers>>

\* started.swap(true): AlreadyStarted, or on to the runtime-flavor check.
Enter(c) ==
    /\ pc[c] = "idle" /\ calls[c] < MaxCalls
    /\ calls' = [calls EXCEPT ![c] = @ + 1]
    /\ IF started
         THEN Answer(c, "already_started") /\ UNCHANGED pc
         ELSE pc' = [pc EXCEPT ![c] = "entered"] /\ UNCHANGED <<answer, ever>>
    /\ started' = TRUE
    /\ UNCHANGED <<roomy, migrated, workers>>

\* Handle::current() outside a runtime, before the guard exists.
Panic(c) ==
    /\ MayPanic
    /\ pc[c] = "entered"
    /\ pc' = [pc EXCEPT ![c] = "idle"]
    /\ Answer(c, "panic")
    /\ UNCHANGED <<started, roomy, migrated, calls, workers>>

\* Drop for StartedGuard that forgets the flag.
GuardLeaks == UNCHANGED started

\* Drop for StartedGuard while armed.
GuardReleases == started' = FALSE

\* A `?` or a return below the guard.
Fail(c) ==
    /\ pc' = [pc EXCEPT ![c] = "idle"]
    /\ Answer(c, "err")
    /\ GuardReleases
    /\ UNCHANGED <<roomy, migrated, calls, workers>>

\* Guard, then the pool floor: PoolTooSmall, or the schema probe is sent.
CheckPool(c) ==
    /\ pc[c] = "entered"
    /\ \/ ~roomy /\ Fail(c)
       \/ /\ roomy
          /\ pc' = [pc EXCEPT ![c] = "probing"]
          /\ UNCHANGED <<started, roomy, migrated, answer, calls, workers, ever>>

\* SchemaMissing, or on; other probe errors are left to pgwq to report.
Probe(c) ==
    /\ pc[c] = "probing"
    /\ \/ ~migrated /\ Fail(c)
       \/ /\ pc' = [pc EXCEPT ![c] = "building"]
          /\ UNCHANGED <<started, roomy, migrated, answer, calls, workers, ever>>

\* Worker::builder()...build()?.start().await? fails.
BuildFails(c) == pc[c] = "building" /\ Fail(c)

\* The caller drops the future of start() at one of its awaits.
CancelStart(c) == pc[c] \in {"probing", "building"} /\ Fail(c)

\* The worker runs, guard.disarm(), Ok(OutboxHandle).
Started(c) ==
    /\ pc[c] = "building"
    /\ pc' = [pc EXCEPT ![c] = "running"]
    /\ Answer(c, "ok")
    /\ workers' = workers \cup {c}
    /\ UNCHANGED <<started, roomy, migrated, calls>>

-----------------------------------------------------------------------------
(* OutboxHandle                                                            *)

\* shutdown(timeout): inner.shutdown is awaited.
Shutdown(c) ==
    /\ pc[c] = "running"
    /\ pc' = [pc EXCEPT ![c] = "draining"]
    /\ UNCHANGED <<started, roomy, migrated, answer, calls, workers, ever>>

\* A shutdown that frees the flag for another start().
DrainedFreesFlag(c) ==
    /\ pc[c] = "draining"
    /\ pc' = [pc EXCEPT ![c] = "idle"]
    /\ workers' = workers \ {c}
    /\ started' = FALSE
    /\ UNCHANGED <<roomy, migrated, answer, calls, ever>>

\* Drained, out of time or failed: the worker is gone, and the count query,
\* answered or not, only makes the statistics.  The flag is left alone.
Drained(c) ==
    /\ pc[c] = "draining"
    /\ pc' = [pc EXCEPT ![c] = "idle"]
    /\ workers' = workers \ {c}
    /\ UNCHANGED <<started, roomy, migrated, answer, calls, ever>>

\* The handle, or the future of shutdown that owns it, is dropped.
DropHandle(c) ==
    /\ pc[c] \in {"running", "draining"}
    /\ pc' = [pc EXCEPT ![c] = "idle"]
    /\ workers' = workers \ {c}
    /\ UNCHANGED <<started, roomy, migrated, answer, calls, ever>>

-----------------------------------------------------------------------------
StartStep(c) == CheckPool(c) \/ Probe(c) \/ BuildFails(c) \/ Started(c)

Next ==
    \/ Migrate
    \/ \E c \in Callers :
         \/ Enter(c) \/ Panic(c) \/ CancelStart(c) \/ StartStep(c)
         \/ Shutdown(c) \/ Drained(c) \/ DropHandle(c)

Spec == Init /\ [][Next]_vars

-----------------------------------------------------------------------------
(* Properties.                                                             *)

\* The variables have their types.
TypeOK ==
    /\ started \in BOOLEAN /\ roomy \in BOOLEAN /\ migrated \in BOOLEAN
    /\ pc \in [Callers -> Phases]
    /\ answer \in [Callers -> Answers]
    /\ calls \in [Callers -> Nat]
    /\ workers \subseteq Callers
    /\ ever \subseteq Answers

InStart == {c \in Callers : pc[c] \in {"entered", "probing", "building"}}

\* The per-handler limits are in-process counters: however start() calls
\* overlap, at most one worker is alive or coming up.
OneWorker == \A b, c \in workers \cup InStart : b = c

\* The flag is honest: it is set only while a start() is under way, after one
\* has succeeded, or after one has panicked; so a failed or cancelled start()
\* can be retried.
FlagHonest ==
    started => InStart # {} \/ "ok" \in ever \/ "panic" \in ever

\* Start once per process: a worker that was shut down is not replaced.
StartsOnce == []["ok" \in ever => workers' \subseteq workers]_vars
=============================================================================
