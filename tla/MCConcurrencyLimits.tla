------------------------ MODULE MCConcurrencyLimits -------------------------
(* A small instance of ConcurrencyLimits for TLC. *)
EXTENDS ConcurrencyLimits, TLC

NoConfigs    == {}
SomeTimeouts == {None}
SomeLimits   == {None, 0, 1}

Bytes == ("slow" :> 4) @@ ("fast" :> 4)

Handler(h, t, limit) ==
    [handler_id |-> h, event_type |-> t, handler_timeout |-> None, concurrency_limit |-> limit]

Plan(slots, handlers) ==
    [config |-> [DefaultConfig EXCEPT !.concurrency = slots, !.max_attempts = 1],
     handlers |-> handlers]

\* The limit is there; it is gone, the id "slow" has moved to the other type and
\* the other handler is dropped; "slow" is registered for both types; the limit
\* is zero.
SomePlans ==
    {Plan(2, <<Handler("slow", "t1", 1), Handler("fast", "t1", None)>>),
     Plan(2, <<Handler("slow", "t2", None)>>),
     Plan(2, <<Handler("slow", "t1", 1), Handler("slow", "t2", None)>>),
     Plan(2, <<Handler("slow", "t1", 0)>>)}
=============================================================================
