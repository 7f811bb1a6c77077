-------------------------- MODULE DeliveryLifecycle -------------------------
(***************************************************************************)
(* What the crate promises about a delivery, without workers, leases or    *)
(* tokens: the state machine of README.md ("State machine and schema").    *)
(* A delivery is queued once, runs until it is settled, is settled once,   *)
(* and is recorded as sent only if its handler returned Ok.  Deliveries    *)
(* of one event may move together: they are inserted and deleted with it.  *)
(***************************************************************************)
CONSTANT Deliveries

VARIABLES status,    \* the audit row, "absent" before it and "purged" after it
          succeeded  \* deliveries whose handler has returned Ok(())

Settled == {"sent", "dead", "skipped"}

Init ==
    /\ status = [d \in Deliveries |-> "absent"]
    /\ succeeded = {}

Becomes(d, before, after) == status[d] \in before /\ status'[d] \in after

Enqueue(d) == Becomes(d, {"absent"}, {"queued"})

Start(d) == Becomes(d, {"queued", "awaiting_retry"}, {"running"})

Retry(d) == Becomes(d, {"running"}, {"awaiting_retry"})

Send(d) == Becomes(d, {"running"}, {"sent"}) /\ d \in succeeded

GiveUp(d) == Becomes(d, {"running"}, {"dead", "skipped"})

Purge(d) == Becomes(d, Settled, {"purged"})

Move(d) == Enqueue(d) \/ Start(d) \/ Retry(d) \/ Send(d) \/ GiveUp(d) \/ Purge(d)

\* A handler that was called may succeed, whatever its audit row says by then.
Succeed(d) ==
    /\ status[d] \notin {"absent", "queued"}
    /\ succeeded' = succeeded \cup {d}
    /\ UNCHANGED status

Next ==
    \/ /\ \A d \in Deliveries : status'[d] = status[d] \/ Move(d)
       /\ UNCHANGED succeeded
    \/ \E d \in Deliveries : Succeed(d)

Spec == Init /\ [][Next]_<<status, succeeded>>
=============================================================================
