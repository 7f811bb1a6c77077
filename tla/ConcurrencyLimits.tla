------------------------- MODULE ConcurrencyLimits --------------------------
(***************************************************************************)
(* Per-handler concurrency limits and the registry across redeploys.  A    *)
(* job's concurrency key is stamped when it is dispatched, by the build    *)
(* that runs then (src/outbox.rs, step 9); the limits are handed to pgwq   *)
(* when a build is started; jobs outlive builds.  What a handler call does *)
(* to the audit row is in Runtime: here a delivery is a task that holds a  *)
(* worker slot and, if its job has a key, a permit of that key.            *)
(***************************************************************************)
EXTENDS Builder, PgWorkQueue, FiniteSets, FiniteSetsExt

CONSTANTS
    Events,      \* the events callers dispatch
    Plans,       \* what the deployments are built from: config and handlers
    Slow,        \* the handlers whose calls may take as long as they like
    MaxDeploys,  \* bound: deployments
    MaxClaims    \* bound: leases of a job

ASSUME ConcurrencyLimitsAssumption ==
    /\ Plans \subseteq [config : OutboxConfig, handlers : Seq(PendingHandler)]
    /\ Slow \subseteq HandlerIds
    /\ MaxDeploys \in Nat /\ MaxClaims \in Nat
    /\ "none" \notin EventTypes

Deliveries == Events \X HandlerIds
HandlerOf(d) == d[2]

VARIABLES
    deploys,  \* number of deployments so far: the running one's name
    events,   \* outbox.events: type, and history: the deployment that dispatched it
    jobs,     \* pgwq.jobs
    keyed,    \* the jobs with a concurrency_key
    legacy,   \* history: the jobs dispatched while their handler had no limit
    tasks     \* the running worker's tasks

queue == <<deploys, events, jobs, keyed, legacy, tasks>>
vars  == <<builder, queue>>

Init ==
    /\ BuilderInit
    /\ deploys = 0
    /\ events = [e \in Events |-> [type |-> "none", by |-> 0]]
    /\ jobs = [d \in Deliveries |-> NoJob]
    /\ keyed = {} /\ legacy = {} /\ tasks = {}

-----------------------------------------------------------------------------
(* Limits and keys.                                                        *)

\* The registration that handlers.insert left: there is one, unless build()
\* let a later one overwrite it.
Registered(h) == pending[Max(Lookup(h))]

LimitOf(h) == IF Lookup(h) = {} THEN None ELSE Registered(h).concurrency_limit

\* A worker that is built without .concurrency_limits(..).
NotInstalled(h) == None

\* What start() hands to pgwq for this key.
InstalledLimit(h) == LimitOf(h)

\* Envelopes that are pushed without a key.
NeverKeyed(h) == FALSE

\* dispatch stamps a key iff the handler has a limit in the running registry.
HasKey(h) == LimitOf(h) # None

Live(h) == {t \in tasks : HandlerOf(t.delivery) = h}

\* pgwq's claim: a free slot, and a permit if the key is limited.
Admits(d) ==
    /\ Cardinality(tasks) < config.concurrency
    /\ d \in keyed /\ InstalledLimit(HandlerOf(d)) # None =>
         Cardinality({t \in Live(HandlerOf(d)) : t.delivery \in keyed})
             < InstalledLimit(HandlerOf(d))

-----------------------------------------------------------------------------
(* Deployments, producers, worker.                                         *)

\* The process ends or crashes with its tasks; the next one starts to build.
Redeploy(p) ==
    /\ deploys < MaxDeploys
    /\ ~ConfigInvalid(p.config)
    /\ deploys' = deploys + 1
    /\ config' = p.config
    /\ pending' = p.handlers
    /\ outcome' = "building"
    /\ tasks' = {}
    /\ UNCHANGED <<events, jobs, keyed, legacy>>

\* Outbox::dispatch of an event of type t by the running build.
Dispatch(e, t) ==
    LET fanout == {e} \X HandlersFor(t)
    IN  /\ Ready
        /\ events[e].type = "none"
        /\ fanout # {}
        /\ events' = [events EXCEPT ![e] = [type |-> t, by |-> deploys]]
        /\ jobs' = [d \in Deliveries |-> IF d \in fanout THEN PushedJob ELSE jobs[d]]
        /\ keyed' = keyed \cup {d \in fanout : HasKey(HandlerOf(d))}
        /\ legacy' = legacy \cup {d \in fanout : LimitOf(HandlerOf(d)) = None}
        /\ UNCHANGED <<builder, deploys, tasks>>

Claim(d) ==
    /\ Ready
    /\ jobs[d].status = "queued" /\ jobs[d].token < MaxClaims
    /\ Admits(d)
    /\ jobs' = [jobs EXCEPT ![d] = ClaimJob(@)]
    /\ tasks' = tasks \cup {[delivery |-> d, token |-> jobs'[d].token, blocked |-> FALSE]}
    /\ UNCHANGED <<builder, deploys, events, keyed, legacy>>

\* The wrapper calls the handler, which does not await but blocks its thread.
Blocks(t) ==
    /\ HandlerOf(t.delivery) \in Slow /\ Lookup(HandlerOf(t.delivery)) # {}
    /\ ~t.blocked
    /\ tasks' = (tasks \ {t}) \cup {[t EXCEPT !.blocked = TRUE]}
    /\ UNCHANGED <<builder, deploys, events, jobs, keyed, legacy>>

\* handle_envelope returns, blocked ones late; pgwq writes its verdict if the
\* lease still holds, and frees slot and permit.
Ends(t) ==
    /\ \E verdict \in Verdicts :
         jobs' = [jobs EXCEPT ![t.delivery] =
                    ReportJob(@, t.token, verdict, config.max_attempts)]
    /\ tasks' = tasks \ {t}
    /\ UNCHANGED <<builder, deploys, events, keyed, legacy>>

\* The lease of a blocked or lost task runs out.
Reap(d) ==
    /\ Ready
    /\ jobs[d].status = "leased"
    /\ ~ \E t \in tasks : t.delivery = d /\ t.token = jobs[d].token /\ ~t.blocked
    /\ \E mode \in ReapModes : jobs' = [jobs EXCEPT ![d] = ReapJob(@, mode)]
    /\ UNCHANGED <<builder, deploys, events, keyed, legacy, tasks>>

TaskEnds(d) == \E t \in tasks : t.delivery = d /\ Ends(t)

Next ==
    \/ \E p \in Plans : Redeploy(p)
    \/ Build /\ UNCHANGED queue
    \/ \E e \in Events, t \in EventTypes : Dispatch(e, t)
    \/ \E d \in Deliveries : Claim(d) \/ TaskEnds(d) \/ Reap(d)
    \/ \E t \in tasks : Blocks(t)

\* A blocked thread starves whatever runs on it: other handlers, the poll loop,
\* the reaper, the timers.
NothingBlocks == \A t \in tasks : ~t.blocked

\* While no thread is blocked, calls that are not slow end, at their timeout if
\* not before, and the poll loop takes the oldest job it may, so that none is
\* passed over for ever.  Of a slow call nothing is assumed.
Fairness ==
    \A d \in Deliveries :
        /\ SF_vars(NothingBlocks /\ Claim(d))
        /\ WF_vars(NothingBlocks /\ Reap(d))
        /\ HandlerOf(d) \notin Slow => WF_vars(NothingBlocks /\ TaskEnds(d))

Spec == Init /\ [][Next]_vars /\ Fairness

-----------------------------------------------------------------------------
(* Properties.                                                             *)

\* README.md:361, "at most n tasks for that handler run concurrently", as far
\* as it is true: through redeploys that add, change or drop the limit, crashes
\* and leases that expire under a blocked task, a handler exceeds its limit
\* only by jobs that were dispatched while it had none.
OverLimitIsLegacy ==
    \A h \in HandlerIds :
        Ready /\ LimitOf(h) # None =>
            Cardinality({t \in Live(h) : t.delivery \notin legacy}) <= LimitOf(h)

\* handle_envelope never looks at the event's type: a handler is called with an
\* event of another type only if the event was dispatched by an earlier
\* deployment, one in which the id was registered for that other type.
MisdirectedOnlyByRedeploy ==
    \A t \in tasks :
        LET e == t.delivery[1]
            h == HandlerOf(t.delivery)
        IN  /\ Lookup(h) # {}
            /\ Registered(h).event_type # events[e].type
            => events[e].by < deploys

\* Every slow handler is limited, the limits leave a slot, no job of such a
\* handler without a key is left to take it, and no thread is blocked, against
\* which a limit is no protection (handler.rs:173-181).
Protected ==
    LET running == {h \in Slow : Lookup(h) # {}}
    IN  /\ Ready
        /\ NothingBlocks
        /\ \A h \in running : LimitOf(h) # None
        /\ MapThenSumSet(LimitOf, running) < config.concurrency
        /\ \A d \in legacy : HandlerOf(d) \in running =>
               jobs[d].status \in {"done", "dead"} /\ ~ \E t \in tasks : t.delivery = d

\* README.md:361: a saturated handler's jobs "neither occupy worker slots nor
\* block other handlers".  Once the last deployment is protected, every job of
\* a handler that is not slow ends, though the slow ones hold all their permits
\* and have more jobs queued, however long their calls take.
NoHeadOfLineBlocking ==
    \A d \in Deliveries :
        HandlerOf(d) \notin Slow =>
            (<>[]Protected => (jobs[d].status = "queued" ~> jobs[d].status \in {"done", "dead"}))
=============================================================================
