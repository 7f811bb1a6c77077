------------------------------- MODULE Builder ------------------------------
(***************************************************************************)
(* OutboxConfigBuilder, HandlerOptions and OutboxBuilder (src/builder.rs): *)
(* what a process may be deployed with.  Durations are in units of 100 ms. *)
(* A deployment is built by one thread; the modules that extend this one   *)
(* say what the built outbox then does.                                    *)
(***************************************************************************)
EXTENDS Integers, Sequences

CONSTANTS
    HandlerIds,   \* the ids callers register under
    IdBytes,      \* their lengths in bytes
    EventTypes,   \* DomainEvent::EVENT_TYPE of the handlers' events
    Configs,      \* the configurations callers ask OutboxConfig::builder() for
    Timeouts,     \* HandlerOptions::handler_timeout
    Limits,       \* HandlerOptions::concurrency_limit
    MaxHandlers   \* bound: calls of register_handler

\* Option::None of the HandlerOptions.
None == -1

HANDLER_CLEANUP_BUDGET == 2
MIN_TIMEOUT            == 1
MAX_HANDLER_ID_BYTES   == 128
I32_MAX                == 2147483647

OutboxConfig == [concurrency : Nat, max_attempts : Nat,
                 handler_timeout : Nat, lease_timeout : Nat]

\* impl Default for OutboxConfig: 240 s of 300 s, 16 slots, 5 attempts.
DefaultConfig == [concurrency |-> 16, max_attempts |-> 5,
                  handler_timeout |-> 2400, lease_timeout |-> 3000]

PendingHandler == [handler_id : HandlerIds, event_type : EventTypes,
                   handler_timeout : Timeouts, concurrency_limit : Limits]

ASSUME BuilderAssumption ==
    /\ IdBytes \in [HandlerIds -> Nat]
    /\ Configs \subseteq OutboxConfig
    /\ Timeouts \subseteq Nat \cup {None}
    /\ Limits \subseteq Nat \cup {None}
    /\ MaxHandlers \in Nat

VARIABLES
    config,    \* OutboxBuilder::config, the default until it is set
    pending,   \* OutboxBuilder::pending
    outcome    \* "building", "ready", or the BuildError

builder == <<config, pending, outcome>>

BuilderInit ==
    /\ config = DefaultConfig
    /\ pending = <<>>
    /\ outcome = "building"

-----------------------------------------------------------------------------
(* Validation.                                                             *)

\* handler_timeout_floor_check fails.
BelowFloor(d) == d <= 2 * HANDLER_CLEANUP_BUDGET

\* A handler_timeout that is not compared with the lease.
LeaseUnchecked(c) ==
    \/ c.concurrency = 0
    \/ c.max_attempts = 0
    \/ BelowFloor(c.handler_timeout)

\* OutboxConfigBuilder::build returns Err.
ConfigInvalid(c) ==
    \/ c.concurrency = 0
    \/ c.max_attempts = 0
    \/ c.handler_timeout >= c.lease_timeout
    \/ BelowFloor(c.handler_timeout)

\* A per-handler timeout that is only checked from below.
NoCeiling(p) == p.handler_timeout # None /\ BelowFloor(p.handler_timeout)

\* A per-handler timeout may only tighten the global one.
TimeoutInvalid(p) ==
    /\ p.handler_timeout # None
    /\ BelowFloor(p.handler_timeout) \/ p.handler_timeout > config.handler_timeout

LimitInvalid(p) ==
    /\ p.concurrency_limit # None
    /\ p.concurrency_limit = 0 \/ p.concurrency_limit > I32_MAX

\* An id that is only compared with ids of the same event type.
DuplicateInType(i) ==
    \E j \in 1..(i - 1) :
        /\ pending[j].handler_id = pending[i].handler_id
        /\ pending[j].event_type = pending[i].event_type

\* handlers.contains_key: over all event types.
DuplicateId(i) == \E j \in 1..(i - 1) : pending[j].handler_id = pending[i].handler_id

\* The error of the i-th registration, in the order of build()'s checks.
EntryError(i) ==
    CASE IdBytes[pending[i].handler_id] = 0                    -> "HandlerIdEmpty"
      [] IdBytes[pending[i].handler_id] > MAX_HANDLER_ID_BYTES -> "HandlerIdTooLong"
      [] IdBytes[pending[i].handler_id] \in 1..MAX_HANDLER_ID_BYTES /\ DuplicateId(i)
                                                               -> "DuplicateHandlerId"
      [] OTHER -> IF TimeoutInvalid(pending[i]) \/ LimitInvalid(pending[i])
                    THEN "ConfigInvalid" ELSE "none"

\* build() returns the error of the first bad registration.
BuildOutcome(result) ==
    \/ /\ result = "ready"
       /\ \A i \in DOMAIN pending : EntryError(i) = "none"
    \/ \E i \in DOMAIN pending :
         /\ EntryError(i) # "none" /\ result = EntryError(i)
         /\ \A j \in 1..(i - 1) : EntryError(j) = "none"

BuildErrors == {"ConfigInvalid", "HandlerIdEmpty", "HandlerIdTooLong", "DuplicateHandlerId"}

-----------------------------------------------------------------------------
(* The builder's methods.                                                  *)

\* OutboxConfigBuilder::build, then OutboxBuilder::config.
SetConfig(c) ==
    /\ outcome = "building"
    /\ IF ConfigInvalid(c)
         THEN outcome' = "ConfigInvalid" /\ UNCHANGED config
         ELSE config' = c /\ UNCHANGED outcome
    /\ UNCHANGED pending

RegisterHandler(p) ==
    /\ outcome = "building"
    /\ Len(pending) < MaxHandlers
    /\ pending' = Append(pending, p)
    /\ UNCHANGED <<config, outcome>>

Build ==
    /\ outcome = "building"
    /\ \E result \in BuildErrors \cup {"ready"} : BuildOutcome(result) /\ outcome' = result
    /\ UNCHANGED <<config, pending>>

BuilderNext ==
    \/ \E c \in Configs : SetConfig(c)
    \/ \E p \in PendingHandler : RegisterHandler(p)
    \/ Build

BuilderType ==
    /\ config \in OutboxConfig
    /\ pending \in Seq(PendingHandler)
    /\ outcome \in BuildErrors \cup {"building", "ready"}

-----------------------------------------------------------------------------
(* The registry of a built outbox.                                         *)

Ready == outcome = "ready"

\* Registry::lookup: the positions under which an id was registered.
Lookup(h) == {i \in DOMAIN pending : pending[i].handler_id = h}

\* Registry::handler_ids_for.
HandlersFor(t) == {pending[i].handler_id : i \in {j \in DOMAIN pending : pending[j].event_type = t}}

\* effective_timeout of handle_envelope.
EffectiveTimeout(i) ==
    IF pending[i].handler_timeout = None THEN config.handler_timeout
                                         ELSE pending[i].handler_timeout

\* effective_timeout.saturating_sub(HANDLER_CLEANUP_BUDGET).max(100ms)
OurTimeout(i) ==
    IF EffectiveTimeout(i) - HANDLER_CLEANUP_BUDGET >= MIN_TIMEOUT
      THEN EffectiveTimeout(i) - HANDLER_CLEANUP_BUDGET
      ELSE MIN_TIMEOUT
=============================================================================
