------------------------------ MODULE Dispatch ------------------------------
(***************************************************************************)
(* Outbox::dispatch (src/outbox.rs) called from concurrent transactions of *)
(* the application, with the idempotency table outbox.dispatch_keys, the   *)
(* purge functions that run beside them, and callers that retry, dispatch  *)
(* twice, drop a call half way or commit what they should roll back.       *)
(*                                                                         *)
(* Every SQL statement is one step.  What a transaction wrote is staged in *)
(* its own record until it commits; a row of dispatch_keys it touched is   *)
(* locked until it ends.  Of a worker, which Runtime models, three steps   *)
(* are left: a handler call, the mark of the row, the end of the job.      *)
(***************************************************************************)
EXTENDS Naturals

CONSTANTS
    Txs,             \* transactions open at the same time
    Keys,            \* (tenant_id, idempotency_key) pairs
    Requests,        \* what calls are made with: keys, NoKey for none
    Registry,        \* handlers registered for the event type
    AllowNoHandlers, \* OutboxBuilder::allow_no_handlers
    MaxEvents,       \* bound: event ids
    MaxDispatches,   \* bound: calls per transaction
    Purging,         \* do the purge functions run
    Careless,        \* may a caller commit without an Ok of dispatch
    NoTx, NoKey

ASSUME DispatchAssumption ==
    /\ NoTx \notin Txs /\ NoKey \notin Keys
    /\ Requests \subseteq Keys \cup {NoKey}
    /\ AllowNoHandlers \in BOOLEAN /\ Purging \in BOOLEAN /\ Careless \in BOOLEAN
    /\ MaxEvents \in Nat /\ MaxDispatches \in Nat

Events  == 1..MaxEvents
NoEvent == 0

Deliveries == Events \X Registry

\* "idle": no transaction.  "open": between two calls.  "reserve", "insert",
\* "push": the statement of dispatch that is due.  "broken": a statement
\* failed, and PostgreSQL refuses everything but a rollback.
Phases == {"idle", "open", "reserve", "insert", "push", "broken"}

Tx == [pc       : Phases,
       calls    : Nat,
       key      : Keys \cup {NoKey},               \* of the call in progress
       event    : Events \cup {NoEvent},           \* its client-side event_id
       reserved : [Keys -> Events \cup {NoEvent}], \* staged dispatch_keys rows
       events   : SUBSET Events,                   \* staged events
       rows     : SUBSET Events,                   \* staged with audit rows
       jobs     : SUBSET Events,                   \* staged with pgwq jobs
       told     : SUBSET (Keys \X Events),         \* Duplicate answers
       erred    : BOOLEAN]                         \* some call gave Err or was dropped

NoTxState == [pc |-> "idle", calls |-> 0, key |-> NoKey, event |-> NoEvent,
              reserved |-> [k \in Keys |-> NoEvent], events |-> {}, rows |-> {},
              jobs |-> {}, told |-> {}, erred |-> FALSE]

VARIABLES
    tx,        \* the transactions
    keys,      \* outbox.dispatch_keys, committed
    lock,      \* row locks on dispatch_keys, by transaction
    events,    \* outbox.events: "none", "live", "purged"
    rows,      \* outbox.handler_deliveries: "absent", "active", "settled"
    jobs,      \* pgwq.jobs: "none", "live", "ended"
    origin,    \* history: the key an event was committed with
    forgotten, \* history: events whose key purge_dispatch_keys deleted
    seen,      \* history: the key each handler call was given
    settled,   \* history: deliveries whose row was marked
    careless   \* history: events committed without an Ok

tables == <<keys, events, rows, jobs, origin, forgotten, seen, settled, careless>>
vars == <<tx, lock, tables>>

Init ==
    /\ tx = [t \in Txs |-> NoTxState]
    /\ keys = [k \in Keys |-> NoEvent]
    /\ lock = [k \in Keys |-> NoTx]
    /\ events = [e \in Events |-> "none"]
    /\ rows = [d \in Deliveries |-> "absent"]
    /\ jobs = [d \in Deliveries |-> "none"]
    /\ origin = [e \in Events |-> NoKey]
    /\ forgotten = {} /\ seen = {} /\ settled = {} /\ careless = {}

-----------------------------------------------------------------------------
(* Steps 1 to 4: validation, event_id, handler lookup.  No statement yet.  *)

Calling(t) == tx[t].pc \in {"idle", "open"} /\ tx[t].calls < MaxDispatches

Unused(e) ==
    /\ events[e] = "none"
    /\ \A t \in Txs :
         tx[t].event # e /\ e \notin tx[t].events /\ \A k \in Keys : tx[t].reserved[k] # e

\* Uuid::now_v7(): an id nobody has.  Which one does not matter: the least.
Fresh(e) == Unused(e) /\ \A f \in Events : Unused(f) => e <= f

Call(t, k) ==
    /\ Calling(t)
    /\ Registry # {} \/ AllowNoHandlers
    /\ \E e \in Events :
         /\ Fresh(e)
         /\ tx' = [tx EXCEPT ![t].pc = IF k = NoKey THEN "insert" ELSE "reserve",
                             ![t].calls = @ + 1, ![t].key = k, ![t].event = e]
    /\ UNCHANGED <<lock, tables>>

\* A size is out of bounds, or strict mode finds no handler: Err.
Reject(t) ==
    /\ Calling(t)
    /\ tx' = [tx EXCEPT ![t].pc = "open", ![t].calls = @ + 1, ![t].erred = TRUE]
    /\ UNCHANGED <<lock, tables>>

-----------------------------------------------------------------------------
(* Step 5: INSERT ... ON CONFLICT DO UPDATE ... RETURNING (xmax = 0).      *)

\* The transaction whose row lock the upsert has to wait for.
Blocker(t) == lock[tx[t].key]

\* An upsert that does not see rows of transactions still open.
NeverWaits(t) == FALSE

Blocked(t) == tx[t].pc = "reserve" /\ Blocker(t) \notin {NoTx, t}

\* What the upsert finds: the row this transaction staged, or the committed one.
Found(t) ==
    LET k == tx[t].key
    IN  IF tx[t].reserved[k] # NoEvent THEN tx[t].reserved[k] ELSE keys[k]

\* A Duplicate that leaves the row unlocked, as DO NOTHING and a SELECT would.
LockIfNew(t) == IF Found(t) = NoEvent THEN [lock EXCEPT ![tx[t].key] = t] ELSE lock

\* Inserted or found, the row is locked until the transaction ends.
UpsertLock(t) == [lock EXCEPT ![tx[t].key] = t]

Reserve(t) ==
    /\ tx[t].pc = "reserve"
    /\ ~Blocked(t)
    /\ lock' = UpsertLock(t)
    /\ IF Found(t) = NoEvent
         THEN tx' = [tx EXCEPT ![t].reserved[tx[t].key] = tx[t].event, ![t].pc = "insert"]
         ELSE tx' = [tx EXCEPT ![t].told = @ \cup {<<tx[t].key, Found(t)>>},
                               ![t].pc = "open", ![t].event = NoEvent]
    /\ UNCHANGED tables

-----------------------------------------------------------------------------
(* Steps 6 to 9: headers check, the INSERT of event and audit rows, jobs.  *)

\* The headers are measured only after the key is reserved: Err.
HeadersTooLarge(t) ==
    /\ tx[t].pc = "insert"
    /\ tx' = [tx EXCEPT ![t].pc = "open", ![t].event = NoEvent, ![t].erred = TRUE]
    /\ UNCHANGED <<lock, tables>>

\* One statement inserts the event and one audit row per handler; without
\* handlers it inserts the event alone and returns NoHandlers.
InsertEvent(t) ==
    /\ tx[t].pc = "insert"
    /\ tx' = [tx EXCEPT ![t].events = @ \cup {tx[t].event},
                        ![t].rows = IF Registry = {} THEN @ ELSE @ \cup {tx[t].event},
                        ![t].event = IF Registry = {} THEN NoEvent ELSE @,
                        ![t].pc = IF Registry = {} THEN "open" ELSE "push"]
    /\ UNCHANGED <<lock, tables>>

\* Jobs pushed on another connection than tx, and lost.
PushElsewhere(t) ==
    /\ tx[t].pc = "push"
    /\ tx' = [tx EXCEPT ![t].event = NoEvent, ![t].pc = "open"]
    /\ UNCHANGED <<lock, tables>>

\* Pusher::push_batch, then Ok(Dispatched).
PushJobs(t) ==
    /\ tx[t].pc = "push"
    /\ tx' = [tx EXCEPT ![t].jobs = @ \cup {tx[t].event}, ![t].event = NoEvent,
                        ![t].pc = "open"]
    /\ UNCHANGED <<lock, tables>>

\* push_batch fails before it reaches the database: Err, the rows stay staged.
PushFails(t) ==
    /\ tx[t].pc = "push"
    /\ tx' = [tx EXCEPT ![t].pc = "open", ![t].event = NoEvent, ![t].erred = TRUE]
    /\ UNCHANGED <<lock, tables>>

-----------------------------------------------------------------------------
(* PostgreSQL and the caller.                                              *)

\* A statement fails in the database: Err, and the transaction is aborted.
StatementFails(t) ==
    /\ tx[t].pc \in {"reserve", "insert", "push"}
    /\ tx' = [tx EXCEPT ![t].pc = "broken"]
    /\ UNCHANGED <<lock, tables>>

\* The caller drops the future of dispatch at an await, before or after the
\* statement has run, and keeps its transaction.
DropCall(t) ==
    /\ tx[t].pc \in {"reserve", "insert", "push"}
    /\ tx' = [tx EXCEPT ![t].pc = "open", ![t].event = NoEvent, ![t].erred = TRUE]
    /\ UNCHANGED <<lock, tables>>

\* Transactions that reserve two keys in opposite orders wait for each other in
\* a circle, until the deadlock detector fails one of them.
Deadlocked(t) ==
    \E S \in SUBSET Txs :
        t \in S /\ (\A s \in S : Blocked(s)) /\ S = {Blocker(s) : s \in S}

DeadlockVictim(t) ==
    /\ Deadlocked(t)
    /\ tx' = [tx EXCEPT ![t].pc = "broken"]
    /\ UNCHANGED <<lock, tables>>

EndTx(t) ==
    /\ tx' = [tx EXCEPT ![t] = NoTxState]
    /\ lock' = [k \in Keys |-> IF lock[k] = t THEN NoTx ELSE lock[k]]

\* dispatch_keys without its foreign key.
NoFK(t) == TRUE

\* dispatch_keys.event_id REFERENCES outbox.events(id), checked at COMMIT.
DeferredFK(t) == \A k \in Keys : tx[t].reserved[k] # NoEvent => tx[t].reserved[k] \in tx[t].events

\* The caller's discipline: roll back unless every call returned Ok.
MayCommit(t) == tx[t].pc = "open" /\ (tx[t].erred => Careless)

Commit(t) ==
    /\ MayCommit(t)
    /\ DeferredFK(t)
    /\ keys' = [k \in Keys |-> IF tx[t].reserved[k] # NoEvent THEN tx[t].reserved[k] ELSE keys[k]]
    /\ events' = [e \in Events |-> IF e \in tx[t].events THEN "live" ELSE events[e]]
    /\ rows' = [d \in Deliveries |-> IF d[1] \in tx[t].rows THEN "active" ELSE rows[d]]
    /\ jobs' = [d \in Deliveries |-> IF d[1] \in tx[t].jobs THEN "live" ELSE jobs[d]]
    /\ origin' = [e \in Events |->
                    IF \E k \in Keys : tx[t].reserved[k] = e
                      THEN CHOOSE k \in Keys : tx[t].reserved[k] = e
                      ELSE origin[e]]
    /\ careless' = IF tx[t].erred THEN careless \cup tx[t].events ELSE careless
    /\ EndTx(t)
    /\ UNCHANGED <<forgotten, seen, settled>>

\* COMMIT fails on the deferred constraint and rolls back.
CommitRefused(t) ==
    /\ MayCommit(t)
    /\ ~DeferredFK(t)
    /\ EndTx(t)
    /\ UNCHANGED tables

\* ROLLBACK, a dropped Transaction, a lost connection or a crashed process.
Rollback(t) ==
    /\ tx[t].pc # "idle"
    /\ EndTx(t)
    /\ UNCHANGED tables

-----------------------------------------------------------------------------
(* Beside them: purges and the workers.                                    *)

\* The row stays, with NULL for its event.
SetNull(k) == [keys EXCEPT ![k] = NoKey]

\* The row is deleted.
Forget(k) == [keys EXCEPT ![k] = NoEvent]

\* One row of a chunk of purge_dispatch_keys.
PurgeDispatchKey(k) ==
    /\ Purging
    /\ keys[k] # NoEvent
    /\ lock[k] = NoTx
    /\ keys' = Forget(k)
    /\ forgotten' = forgotten \cup {keys[k]}
    /\ UNCHANGED <<tx, lock, events, rows, jobs, origin, seen, settled, careless>>

\* The cascades of deleting event e.
Cascade(e) == [k \in Keys |-> IF keys[k] = e THEN NoEvent ELSE keys[k]]

\* purge_events without its NOT EXISTS.
AnyDeliveries(e) == TRUE

\* NOT EXISTS a delivery in queued, running or awaiting_retry.
NoActiveDelivery(e) == \A h \in Registry : rows[<<e, h>>] # "active"

\* One event of a chunk of purge_events; the cascade waits for row locks.
PurgeEvent(e) ==
    /\ Purging
    /\ events[e] = "live"
    /\ NoActiveDelivery(e)
    /\ \A k \in Keys : keys[k] = e => lock[k] = NoTx
    /\ events' = [events EXCEPT ![e] = "purged"]
    /\ rows' = [d \in Deliveries |-> IF d[1] = e THEN "absent" ELSE rows[d]]
    /\ keys' = Cascade(e)
    /\ UNCHANGED <<tx, lock, jobs, origin, forgotten, seen, settled, careless>>

\* One row of a chunk of purge_terminal_deliveries, its job ended or not.
PurgeDelivery(d) ==
    /\ Purging
    /\ rows[d] = "settled"
    /\ rows' = [rows EXCEPT ![d] = "absent"]
    /\ UNCHANGED <<tx, lock, keys, events, jobs, origin, forgotten, seen, settled, careless>>

\* The LEFT JOIN of the worker's claim: the key of event e, if it has one.
KeyOf(e) == {k \in Keys : keys[k] = e}

\* The claim CTE finds an active row, at any attempt, of a stale task too; the
\* handler is called with the key that the join finds.
StartHandler(d) ==
    /\ jobs[d] # "none" /\ rows[d] = "active"
    /\ seen' = seen \cup {<<d, KeyOf(d[1])>>}
    /\ UNCHANGED <<tx, lock, keys, events, rows, jobs, origin, forgotten, settled, careless>>

\* A terminal mark lands, whether or not pgwq still has the job.
Settle(d) ==
    /\ jobs[d] # "none" /\ rows[d] = "active"
    /\ rows' = [rows EXCEPT ![d] = "settled"]
    /\ settled' = settled \cup {d}
    /\ UNCHANGED <<tx, lock, keys, events, jobs, origin, forgotten, seen, careless>>

\* pgwq ends the job: after the mark, because a claim found no row or failed
\* for good, or because a statement of the last attempt failed.
EndJob(d) ==
    /\ jobs[d] = "live"
    /\ jobs' = [jobs EXCEPT ![d] = "ended"]
    /\ UNCHANGED <<tx, lock, keys, events, rows, origin, forgotten, seen, settled, careless>>

-----------------------------------------------------------------------------
\* What the database and the crate do by themselves once a call is made.
Statement(t) == Reserve(t) \/ InsertEvent(t) \/ PushJobs(t)

EndOfTx(t) == Commit(t) \/ CommitRefused(t) \/ Rollback(t)

Next ==
    \/ \E t \in Txs, k \in Requests : Call(t, k)
    \/ \E t \in Txs :
         \/ Reject(t) \/ HeadersTooLarge(t) \/ PushFails(t)
         \/ StatementFails(t) \/ DropCall(t) \/ DeadlockVictim(t)
         \/ Statement(t) \/ EndOfTx(t)
    \/ \E k \in Keys : PurgeDispatchKey(k)
    \/ \E e \in Events : PurgeEvent(e)
    \/ \E d \in Deliveries : PurgeDelivery(d) \/ StartHandler(d) \/ Settle(d) \/ EndJob(d)

Spec == Init /\ [][Next]_vars

-----------------------------------------------------------------------------
(* Properties.                                                             *)

\* The variables have their types.
TypeOK ==
    /\ tx \in [Txs -> Tx]
    /\ keys \in [Keys -> Events \cup {NoEvent}]
    /\ lock \in [Keys -> Txs \cup {NoTx}]
    /\ events \in [Events -> {"none", "live", "purged"}]
    /\ rows \in [Deliveries -> {"absent", "active", "settled"}]
    /\ jobs \in [Deliveries -> {"none", "live", "ended"}]
    /\ origin \in [Events -> Keys \cup {NoKey}]
    /\ forgotten \subseteq Events /\ careless \subseteq Events /\ settled \subseteq Deliveries
    /\ seen \subseteq (Deliveries \X SUBSET Keys)

\* A committed key always names an event that exists, also after a caller has
\* committed in spite of an Err that came between reservation and INSERT.
KeyNamesLiveEvent == \A k \in Keys : keys[k] # NoEvent => events[keys[k]] = "live"

\* Dispatching again under a key, concurrently or later, never makes a second
\* event while the first is remembered.
OneEventPerKey ==
    \A e, f \in Events :
        /\ e # f /\ events[e] = "live" /\ events[f] = "live"
        /\ origin[e] = origin[f] /\ origin[e] # NoKey
        => e \in forgotten \/ f \in forgotten

\* outbox.rs:172-174: a caller that was told Duplicate can rely on it until its
\* transaction ends: neither purge takes the key or the event away, and one
\* told of its own unfinished dispatch cannot commit.
DuplicateHolds ==
    \A t \in Txs : \A a \in tx[t].told :
        \/ keys[a[1]] = a[2] /\ events[a[2]] = "live"
        \/ tx[t].reserved[a[1]] = a[2] /\ (a[2] \in tx[t].events \/ ~DeferredFK(t))

\* Audit rows and jobs are committed together: a row that never had a job, which
\* nobody would ever run, needs a caller that committed without an Ok.
NoOrphanRow ==
    \A d \in Deliveries : rows[d] # "absent" /\ jobs[d] = "none" => d[1] \in careless

\* runtime.rs:260-274 gives a job up whose event or audit row is gone.  Nothing
\* is lost by that: the purges, which run beside the marks and do not look at
\* pgwq's jobs, take neither before the delivery was settled.
UnsettledJobHasRow ==
    \A d \in Deliveries :
        jobs[d] = "live" /\ d \notin settled => rows[d] = "active" /\ events[d[1]] = "live"

\* README.md:252: the key "the same across all handlers for the same event
\* dispatch".
SameKeyForAllHandlers ==
    \A p, q \in seen : p[1][1] = q[1][1] /\ p[1][2] # q[1][2] => p[2] = q[2]
=============================================================================
