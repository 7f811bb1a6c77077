---------------------------- MODULE MCDeadlines -----------------------------
(* A small instance of Deadlines for TLC. *)
EXTENDS Deadlines, TLC

Bytes == ("h" :> 1) @@ ("" :> 0) @@ ("too long" :> 129)

Cfg(timeout, lease) ==
    [concurrency |-> 2, max_attempts |-> 5, handler_timeout |-> timeout, lease_timeout |-> lease]

\* At the floor and just above it; a lease that is too short, that leaves one
\* tick and that leaves two; a timeout of its own that tightens or exceeds.
SomeConfigs  == {Cfg(4, 7), Cfg(5, 5), Cfg(5, 7), Cfg(6, 7)}
SomeTimeouts == {None, 4, 5, 7}
SomeLimits   == {None, 0}
=============================================================================
