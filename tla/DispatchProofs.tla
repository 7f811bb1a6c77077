--------------------------- MODULE DispatchProofs ---------------------------
(***************************************************************************)
(* Idempotency and atomicity of Outbox::dispatch, for any number of        *)
(* transactions, keys, events and handlers: careless callers, failing      *)
(* statements, deadlock victims and purges included.  The inductive        *)
(* invariant says who may use an event id, what a row lock on              *)
(* dispatch_keys protects, and what the committed tables remember.         *)
(***************************************************************************)
EXTENDS Dispatch, TLAPS

-----------------------------------------------------------------------------
(* The inductive invariant.                                                *)

\* Transaction record x uses the event id e.
UsesId(x, e) == x.event = e \/ e \in x.events \/ \E k \in Keys : x.reserved[k] = e

\* What holds of a transaction by itself.
TxShape(x) ==
    /\ x.pc \in {"idle", "open"} => x.event = NoEvent
    /\ x.pc \in {"reserve", "insert", "push"} => x.event \in Events
    /\ x.pc = "reserve" => x.key \in Keys /\ \A k \in Keys : x.reserved[k] # x.event
    /\ x.pc = "push" => x.event \in x.rows
    /\ x.jobs \subseteq x.rows /\ x.rows \subseteq x.events
    /\ \A j, k \in Keys : x.reserved[j] = x.reserved[k] /\ x.reserved[j] # NoEvent => j = k
    /\ \A e \in x.rows \ x.jobs : \/ x.erred
                                  \/ x.pc = "broken"
                                  \/ x.pc = "push" /\ x.event = e

\* What it may assume of the committed tables: its ids are its own, and the
\* keys it has reserved or was told of are locked.
TxTables(t, x, es, ks, locks) ==
    /\ \A e \in Events : UsesId(x, e) => es[e] = "none"
    /\ \A k \in Keys : x.reserved[k] # NoEvent => locks[k] = t /\ ks[k] = NoEvent
    /\ \A a \in x.told : /\ locks[a[1]] = t
                         /\ ks[a[1]] = a[2] \/ x.reserved[a[1]] = a[2]

\* No two transactions use one event id.
Exclusive ==
    \A t, u \in Txs : t # u => \A e \in Events : ~(UsesId(tx[t], e) /\ UsesId(tx[u], e))

\* A key names the event that was committed with it.
KeyHasOrigin == \A k \in Keys : keys[k] # NoEvent => origin[keys[k]] = k

\* A live event that was committed with a key is still found under it, unless
\* purge_dispatch_keys has deleted the key.
Remembered ==
    \A e \in Events :
        events[e] = "live" /\ origin[e] # NoKey /\ e \notin forgotten => keys[origin[e]] = e

\* An event that was never committed has no key.
FreshHasNoOrigin == \A e \in Events : events[e] = "none" => origin[e] = NoKey

TablesInv == KeyNamesLiveEvent /\ KeyHasOrigin /\ Remembered /\ FreshHasNoOrigin

DeliveryInv == NoOrphanRow /\ UnsettledJobHasRow

DispatchInv ==
    /\ TypeOK
    /\ \A t \in Txs : TxShape(tx[t]) /\ TxTables(t, tx[t], events, keys, lock)
    /\ Exclusive
    /\ TablesInv
    /\ DeliveryInv

-----------------------------------------------------------------------------
(* Steps of one transaction that leave the committed tables alone.         *)

LEMMA NoTxFacts ==
    /\ NoTxState \in Tx /\ TxShape(NoTxState)
    /\ \A e \in Events : ~UsesId(NoTxState, e)
    /\ \A k \in Keys : NoTxState.reserved[k] = NoEvent
    /\ NoTxState.told = {}
<1>1. NoTxState \in Tx
  BY DEF NoTxState, Tx, Phases
<1>2. \A e \in Events : e # NoEvent
  BY DEF Events, NoEvent
<1> QED
  BY <1>1, <1>2 DEF NoTxState, TxShape, UsesId

\* The tables are as they were, one transaction has another record, and locks
\* of others are untouched.
LEMMA ChangeTx ==
    ASSUME DispatchInv, NEW t \in Txs, NEW T \in Tx, tx' = [tx EXCEPT ![t] = T],
           UNCHANGED tables, lock' \in [Keys -> Txs \cup {NoTx}],
           \A k \in Keys : lock[k] \in Txs \ {t} => lock'[k] = lock[k],
           TxShape(T), TxTables(t, T, events, keys, lock'),
           \A e \in Events : UsesId(T, e) => UsesId(tx[t], e) \/ Unused(e)
    PROVE  DispatchInv'
<1>0. UNCHANGED <<keys, events, rows, jobs, origin, forgotten, seen, settled, careless>>
  BY DEF tables
<1>1. tx \in [Txs -> Tx] /\ tx' \in [Txs -> Tx]
  BY DEF DispatchInv, TypeOK
<1>2. tx'[t] = T /\ \A u \in Txs : u # t => tx'[u] = tx[u]
  BY <1>1
<1>3. TypeOK'
  BY <1>0, <1>1 DEF DispatchInv, TypeOK
<1>4. ASSUME NEW u \in Txs
      PROVE  (TxShape(tx[u]) /\ TxTables(u, tx[u], events, keys, lock))'
  <2>1. CASE u = t
    BY <1>0, <1>2, <2>1
  <2>2. CASE u # t
    <3>1. TxShape(tx[u]) /\ TxTables(u, tx[u], events, keys, lock)
      BY DEF DispatchInv
    <3>2. \A a \in tx[u].told : a[1] \in Keys
      BY <1>1 DEF Tx
    <3>3. TxTables(u, tx[u], events, keys, lock')
      BY <2>2, <3>1, <3>2 DEF TxTables
    <3> QED BY <1>0, <1>2, <2>2, <3>1, <3>3
  <2> QED BY <2>1, <2>2
<1>5. Exclusive'
  <2> SUFFICES ASSUME NEW u \in Txs, NEW v \in Txs, u # v, NEW e \in Events,
                      UsesId(tx'[u], e), UsesId(tx'[v], e)
               PROVE  FALSE
    BY DEF Exclusive, UsesId
  <2>1. \A w \in Txs \ {t} : Unused(e) => ~UsesId(tx[w], e)
    BY DEF Unused, UsesId
  <2> QED BY <1>2, <2>1 DEF DispatchInv, Exclusive
<1>6. TablesInv' /\ DeliveryInv'
  BY <1>0 DEF DispatchInv, TablesInv, DeliveryInv, KeyNamesLiveEvent, KeyHasOrigin, Remembered,
     FreshHasNoOrigin, NoOrphanRow, UnsettledJobHasRow
<1> QED BY <1>3, <1>4, <1>5, <1>6 DEF DispatchInv

\* The same for a step that takes no lock, reserves nothing and is told nothing.
LEMMA OwnStep ==
    ASSUME DispatchInv, NEW t \in Txs, NEW T \in Tx, tx' = [tx EXCEPT ![t] = T],
           UNCHANGED <<lock, tables>>, TxShape(T),
           T.reserved = tx[t].reserved, T.told = tx[t].told,
           \A e \in Events : UsesId(T, e) => UsesId(tx[t], e) \/ Unused(e)
    PROVE  DispatchInv'
<1>1. lock' = lock /\ lock \in [Keys -> Txs \cup {NoTx}]
  BY DEF DispatchInv, TypeOK
<1>2. TxTables(t, tx[t], events, keys, lock)
  BY DEF DispatchInv
<1>3. \A e \in Events : Unused(e) => events[e] = "none"
  BY DEF Unused
<1>4. TxTables(t, T, events, keys, lock')
  BY <1>1, <1>2, <1>3 DEF TxTables
<1> QED BY <1>1, <1>4, ChangeTx

\* Facts about the record of a transaction that every step starts from.
LEMMA TxFacts ==
    ASSUME DispatchInv, NEW t \in Txs
    PROVE  /\ tx \in [Txs -> Tx] /\ tx[t] \in Tx
           /\ TxShape(tx[t]) /\ TxTables(t, tx[t], events, keys, lock)
BY DEF DispatchInv, TypeOK

LEMMA CallKeeps ==
    ASSUME DispatchInv, NEW t \in Txs, NEW k \in Requests, Call(t, k)
    PROVE  DispatchInv'
<1>1. PICK e \in Events :
        /\ Fresh(e)
        /\ tx' = [tx EXCEPT ![t].pc = IF k = NoKey THEN "insert" ELSE "reserve",
                            ![t].calls = @ + 1, ![t].key = k, ![t].event = e]
  BY DEF Call
<1>2. tx \in [Txs -> Tx] /\ tx[t] \in Tx /\ TxShape(tx[t])
  BY TxFacts
<1> DEFINE T == [tx[t] EXCEPT !.pc = IF k = NoKey THEN "insert" ELSE "reserve",
                              !.calls = @ + 1, !.key = k, !.event = e]
<1>3. tx' = [tx EXCEPT ![t] = T]
  BY <1>1, <1>2 DEF Tx
<1>4. /\ T.pc = (IF k = NoKey THEN "insert" ELSE "reserve") /\ T.key = k /\ T.event = e
      /\ T.reserved = tx[t].reserved /\ T.told = tx[t].told /\ T.events = tx[t].events
      /\ T.rows = tx[t].rows /\ T.jobs = tx[t].jobs /\ T.erred = tx[t].erred
  BY <1>2 DEF Tx
<1>5. T \in Tx /\ (k # NoKey => k \in Keys)
  BY <1>1, <1>2, DispatchAssumption DEF Tx, Phases
<1>6. Unused(e) /\ \A j \in Keys : tx[t].reserved[j] # e
  BY <1>1 DEF Fresh, Unused
<1>7. tx[t].pc \in {"idle", "open"} /\ UNCHANGED <<lock, tables>>
  BY DEF Call, Calling
<1> HIDE DEF T
<1>8. TxShape(T)
  BY <1>1, <1>2, <1>4, <1>5, <1>6, <1>7 DEF TxShape
<1>9. \A f \in Events : UsesId(T, f) => UsesId(tx[t], f) \/ Unused(f)
  BY <1>4, <1>6 DEF UsesId
<1> QED BY <1>3, <1>4, <1>5, <1>7, <1>8, <1>9, OwnStep

LEMMA RejectKeeps ==
    ASSUME DispatchInv, NEW t \in Txs, Reject(t)
    PROVE  DispatchInv'
<1>2. tx \in [Txs -> Tx] /\ tx[t] \in Tx /\ TxShape(tx[t])
  BY TxFacts
<1> DEFINE T == [tx[t] EXCEPT !.pc = "open", !.calls = @ + 1, !.erred = TRUE]
<1>3. tx' = [tx EXCEPT ![t] = T]
  BY <1>2 DEF Tx, Reject
<1>4. /\ T.pc = "open" /\ T.key = tx[t].key /\ T.event = tx[t].event
      /\ T.reserved = tx[t].reserved /\ T.told = tx[t].told /\ T.events = tx[t].events
      /\ T.rows = tx[t].rows /\ T.jobs = tx[t].jobs /\ T.erred = TRUE
  BY <1>2 DEF Tx
<1>5. T \in Tx
  <2>1. tx[t].calls + 1 \in Nat
    BY <1>2 DEF Tx
  <2> QED BY <1>2, <2>1, Zenon DEF Tx, Phases
<1>7. tx[t].pc \in {"idle", "open"} /\ UNCHANGED <<lock, tables>>
  BY DEF Reject, Calling
<1> HIDE DEF T
<1>8. TxShape(T)
  BY <1>2, <1>4, <1>7 DEF TxShape
<1>9. \A f \in Events : UsesId(T, f) => UsesId(tx[t], f) \/ Unused(f)
  BY <1>4 DEF UsesId
<1> QED BY <1>3, <1>4, <1>5, <1>7, <1>8, <1>9, OwnStep

\* An Err, or a dropped call, that leaves the transaction usable: what was staged stays staged.
LEMMA ErrKeeps ==
    ASSUME DispatchInv, NEW t \in Txs, UNCHANGED <<lock, tables>>,
           tx' = [tx EXCEPT ![t].pc = "open", ![t].event = NoEvent, ![t].erred = TRUE]
    PROVE  DispatchInv'
<1>2. tx \in [Txs -> Tx] /\ tx[t] \in Tx /\ TxShape(tx[t])
  BY TxFacts
<1> DEFINE T == [tx[t] EXCEPT !.pc = "open", !.event = NoEvent, !.erred = TRUE]
<1>3. tx' = [tx EXCEPT ![t] = T]
  BY <1>2 DEF Tx
<1>4. /\ T.pc = "open" /\ T.event = NoEvent
      /\ T.reserved = tx[t].reserved /\ T.told = tx[t].told /\ T.events = tx[t].events
      /\ T.rows = tx[t].rows /\ T.jobs = tx[t].jobs /\ T.erred = TRUE
  BY <1>2 DEF Tx
<1>5. T \in Tx
  BY <1>2, Zenon DEF Tx, Phases
<1> HIDE DEF T
<1>6. TxShape(T)
  BY <1>2, <1>4 DEF TxShape
<1>7. \A f \in Events : UsesId(T, f) => UsesId(tx[t], f) \/ Unused(f)
  BY <1>4 DEF UsesId, Events, NoEvent
<1> QED BY <1>3, <1>4, <1>5, <1>6, <1>7, OwnStep

LEMMA InsertEventKeeps ==
    ASSUME DispatchInv, NEW t \in Txs, InsertEvent(t)
    PROVE  DispatchInv'
<1>1. /\ tx[t].pc = "insert" /\ UNCHANGED <<lock, tables>>
      /\ tx' = [tx EXCEPT ![t].events = @ \cup {tx[t].event},
                          ![t].rows = IF Registry = {} THEN @ ELSE @ \cup {tx[t].event},
                          ![t].event = IF Registry = {} THEN NoEvent ELSE @,
                          ![t].pc = IF Registry = {} THEN "open" ELSE "push"]
  BY DEF InsertEvent
<1>2. tx \in [Txs -> Tx] /\ tx[t] \in Tx /\ TxShape(tx[t])
  BY TxFacts
<1> DEFINE T == [tx[t] EXCEPT !.events = @ \cup {tx[t].event},
                              !.rows = IF Registry = {} THEN @ ELSE @ \cup {tx[t].event},
                              !.event = IF Registry = {} THEN NoEvent ELSE @,
                              !.pc = IF Registry = {} THEN "open" ELSE "push"]
<1>3. tx' = [tx EXCEPT ![t] = T]
  BY <1>1, <1>2 DEF Tx
<1>4. /\ T.events = tx[t].events \cup {tx[t].event}
      /\ T.rows = (IF Registry = {} THEN tx[t].rows ELSE tx[t].rows \cup {tx[t].event})
      /\ T.event = (IF Registry = {} THEN NoEvent ELSE tx[t].event)
      /\ T.pc = (IF Registry = {} THEN "open" ELSE "push")
      /\ T.reserved = tx[t].reserved /\ T.told = tx[t].told
      /\ T.jobs = tx[t].jobs /\ T.erred = tx[t].erred
  BY <1>2 DEF Tx
<1>5. tx[t].event \in Events
  BY <1>1, <1>2 DEF TxShape
<1>6. T \in Tx
  <2>1. CASE Registry = {}
    BY <1>2, <1>5, <2>1 DEF Tx, Phases
  <2>2. CASE Registry # {}
    BY <1>2, <1>5, <2>2 DEF Tx, Phases
  <2> QED BY <2>1, <2>2
<1> HIDE DEF T
<1>7. TxShape(T)
  <2>1. T.jobs \subseteq T.rows /\ T.rows \subseteq T.events /\ (T.pc = "push" => T.event \in T.rows)
    BY <1>2, <1>4 DEF TxShape
  <2>2. \A e \in T.rows \ T.jobs : T.erred \/ (T.pc = "push" /\ T.event = e)
    <3>1. \A e \in tx[t].rows \ tx[t].jobs : tx[t].erred
      BY <1>1, <1>2 DEF TxShape
    <3>2. CASE Registry = {}
      BY <1>4, <3>1, <3>2
    <3>3. CASE Registry # {}
      BY <1>4, <3>1, <3>3
    <3> QED BY <3>2, <3>3
  <2>3. /\ T.pc \in {"idle", "open"} => T.event = NoEvent
        /\ T.pc \in {"reserve", "insert", "push"} => T.event \in Events
        /\ T.pc # "reserve"
    BY <1>4, <1>5
  <2> QED BY <1>2, <1>4, <2>1, <2>2, <2>3 DEF TxShape
<1>8. \A f \in Events : UsesId(T, f) => UsesId(tx[t], f) \/ Unused(f)
  BY <1>4 DEF UsesId, Events, NoEvent
<1> QED BY <1>1, <1>3, <1>4, <1>6, <1>7, <1>8, OwnStep

LEMMA PushJobsKeeps ==
    ASSUME DispatchInv, NEW t \in Txs, PushJobs(t)
    PROVE  DispatchInv'
<1>1. /\ tx[t].pc = "push" /\ UNCHANGED <<lock, tables>>
      /\ tx' = [tx EXCEPT ![t].jobs = @ \cup {tx[t].event}, ![t].event = NoEvent,
                          ![t].pc = "open"]
  BY DEF PushJobs
<1>2. tx \in [Txs -> Tx] /\ tx[t] \in Tx /\ TxShape(tx[t])
  BY TxFacts
<1> DEFINE T == [tx[t] EXCEPT !.jobs = @ \cup {tx[t].event}, !.event = NoEvent,
                              !.pc = "open"]
<1>3. tx' = [tx EXCEPT ![t] = T]
  BY <1>1, <1>2 DEF Tx
<1>4. /\ T.jobs = tx[t].jobs \cup {tx[t].event} /\ T.event = NoEvent /\ T.pc = "open"
      /\ T.reserved = tx[t].reserved /\ T.told = tx[t].told /\ T.events = tx[t].events
      /\ T.rows = tx[t].rows /\ T.erred = tx[t].erred
  BY <1>2 DEF Tx
<1>5. tx[t].event \in Events /\ tx[t].event \in tx[t].rows
  BY <1>1, <1>2 DEF TxShape
<1>6. T \in Tx
  BY <1>2, <1>5 DEF Tx, Phases
<1> HIDE DEF T
<1>7. TxShape(T)
  BY <1>1, <1>2, <1>4, <1>5 DEF TxShape
<1>8. \A f \in Events : UsesId(T, f) => UsesId(tx[t], f) \/ Unused(f)
  BY <1>4 DEF UsesId, Events, NoEvent
<1> QED BY <1>1, <1>3, <1>4, <1>6, <1>7, <1>8, OwnStep

\* A failed statement or a deadlock victim.
LEMMA AbortKeeps ==
    ASSUME DispatchInv, NEW t \in Txs, UNCHANGED <<lock, tables>>,
           tx' = [tx EXCEPT ![t].pc = "broken"]
    PROVE  DispatchInv'
<1>2. tx \in [Txs -> Tx] /\ tx[t] \in Tx /\ TxShape(tx[t])
  BY TxFacts
<1> DEFINE T == [tx[t] EXCEPT !.pc = "broken"]
<1>3. tx' = [tx EXCEPT ![t] = T]
  BY <1>2 DEF Tx
<1>4. /\ T.pc = "broken" /\ T.event = tx[t].event
      /\ T.reserved = tx[t].reserved /\ T.told = tx[t].told /\ T.events = tx[t].events
      /\ T.rows = tx[t].rows /\ T.jobs = tx[t].jobs /\ T.erred = tx[t].erred
  BY <1>2 DEF Tx
<1>5. T \in Tx
  BY <1>2 DEF Tx, Phases
<1> HIDE DEF T
<1>6. TxShape(T)
  BY <1>2, <1>4 DEF TxShape
<1>7. \A f \in Events : UsesId(T, f) => UsesId(tx[t], f) \/ Unused(f)
  BY <1>4 DEF UsesId
<1> QED BY <1>3, <1>4, <1>5, <1>6, <1>7, OwnStep

\* The upsert: a key nobody holds is reserved, or the row it finds is locked.
LEMMA ReserveKeeps ==
    ASSUME DispatchInv, NEW t \in Txs, Reserve(t)
    PROVE  DispatchInv'
<1> DEFINE k == tx[t].key
<1>1. /\ tx[t].pc = "reserve" /\ ~Blocked(t) /\ UNCHANGED tables
      /\ lock' = [lock EXCEPT ![k] = t]
  BY DEF Reserve, UpsertLock
<1>2. /\ tx \in [Txs -> Tx] /\ tx[t] \in Tx
      /\ TxShape(tx[t]) /\ TxTables(t, tx[t], events, keys, lock)
  BY TxFacts
<1>3. /\ k \in Keys /\ tx[t].event \in Events /\ tx[t].event # NoEvent
      /\ \A j \in Keys : tx[t].reserved[j] # tx[t].event
  BY <1>1, <1>2 DEF TxShape, Events, NoEvent
<1>4. lock[k] \in {NoTx, t}
  BY <1>1 DEF Blocked, Blocker
<1>5. /\ lock \in [Keys -> Txs \cup {NoTx}] /\ lock' \in [Keys -> Txs \cup {NoTx}]
      /\ keys \in [Keys -> Events \cup {NoEvent}]
  BY <1>1 DEF DispatchInv, TypeOK
<1>6. /\ lock'[k] = t /\ \A j \in Keys : j # k => lock'[j] = lock[j]
      /\ \A j \in Keys : lock[j] \in Txs \ {t} => lock'[j] = lock[j]
      /\ \A j \in Keys : lock[j] = t => lock'[j] = t
  BY <1>1, <1>3, <1>4, <1>5, DispatchAssumption
<1>a. \A a \in tx[t].told : a[1] \in Keys
  BY <1>2 DEF Tx
<1>7. CASE Found(t) = NoEvent
  <2> DEFINE T == [tx[t] EXCEPT !.reserved[k] = tx[t].event, !.pc = "insert"]
  <2>1. tx' = [tx EXCEPT ![t].reserved[k] = tx[t].event, ![t].pc = "insert"]
    BY <1>7 DEF Reserve
  <2>2. tx' = [tx EXCEPT ![t] = T]
    BY <1>2, <2>1 DEF Tx
  <2>3. /\ T.reserved = [tx[t].reserved EXCEPT ![k] = tx[t].event] /\ T.pc = "insert"
        /\ T.event = tx[t].event /\ T.told = tx[t].told /\ T.events = tx[t].events
        /\ T.rows = tx[t].rows /\ T.jobs = tx[t].jobs /\ T.erred = tx[t].erred
    BY <1>2 DEF Tx
  <2>4. tx[t].reserved \in [Keys -> Events \cup {NoEvent}]
    BY <1>2 DEF Tx
  <2>5. T \in Tx
    BY <1>2, <1>3, <2>4 DEF Tx, Phases
  <2>6. T.reserved[k] = tx[t].event /\ \A j \in Keys : j # k => T.reserved[j] = tx[t].reserved[j]
    BY <1>3, <2>3, <2>4
  <2>7. tx[t].reserved[k] = NoEvent /\ keys[k] = NoEvent
    BY <1>7 DEF Found
  <2> HIDE DEF T
  <2>8. TxShape(T)
    BY <1>1, <1>2, <1>3, <2>3, <2>6 DEF TxShape
  <2>9. \A f \in Events : UsesId(T, f) => UsesId(tx[t], f)
    BY <1>3, <2>3, <2>6 DEF UsesId
  <2>10. TxTables(t, T, events, keys, lock')
    <3>1. \A f \in Events : UsesId(T, f) => events[f] = "none"
      BY <1>2, <2>9 DEF TxTables
    <3>2. \A j \in Keys : T.reserved[j] # NoEvent => lock'[j] = t /\ keys[j] = NoEvent
      BY <1>2, <1>6, <2>6, <2>7 DEF TxTables
    <3>3. ASSUME NEW a \in T.told
          PROVE  lock'[a[1]] = t /\ (keys[a[1]] = a[2] \/ T.reserved[a[1]] = a[2])
      <4>1. /\ a \in tx[t].told /\ a[1] \in Keys /\ a[2] \in Events /\ a[2] # NoEvent
            /\ lock[a[1]] = t
        BY <1>2, <2>3, <3>3 DEF Tx, TxTables, Events, NoEvent
      <4>2. keys[a[1]] = a[2] \/ tx[t].reserved[a[1]] = a[2]
        BY <1>2, <4>1 DEF TxTables
      <4> QED BY <1>6, <2>6, <2>7, <4>1, <4>2
    <3> QED BY <3>1, <3>2, <3>3 DEF TxTables
  <2> QED BY <1>1, <1>5, <1>6, <2>2, <2>5, <2>8, <2>9, <2>10, ChangeTx
<1>8. CASE Found(t) # NoEvent
  <2> DEFINE T == [tx[t] EXCEPT !.told = @ \cup {<<k, Found(t)>>}, !.pc = "open",
                                !.event = NoEvent]
  <2>1. tx' = [tx EXCEPT ![t].told = @ \cup {<<k, Found(t)>>}, ![t].pc = "open",
                         ![t].event = NoEvent]
    BY <1>8 DEF Reserve
  <2>2. tx' = [tx EXCEPT ![t] = T]
    BY <1>2, <2>1 DEF Tx
  <2>3. /\ T.told = tx[t].told \cup {<<k, Found(t)>>} /\ T.pc = "open" /\ T.event = NoEvent
        /\ T.reserved = tx[t].reserved /\ T.events = tx[t].events
        /\ T.rows = tx[t].rows /\ T.jobs = tx[t].jobs /\ T.erred = tx[t].erred
    BY <1>2 DEF Tx
  <2>4. /\ Found(t) \in Events
        /\ Found(t) = keys[k] \/ Found(t) = tx[t].reserved[k]
    <3>1. tx[t].reserved \in [Keys -> Events \cup {NoEvent}]
      BY <1>2 DEF Tx
    <3> QED BY <1>3, <1>5, <1>8, <3>1 DEF Found
  <2>5. T \in Tx
    <3>1. tx[t].told \cup {<<k, Found(t)>>} \in SUBSET (Keys \X Events)
      BY <1>2, <1>3, <2>4 DEF Tx
    <3> QED BY <1>2, <3>1, Zenon DEF Tx, Phases
  <2> HIDE DEF T
  <2>6. TxShape(T)
    BY <1>1, <1>2, <2>3 DEF TxShape
  <2>7. \A f \in Events : UsesId(T, f) => UsesId(tx[t], f)
    BY <2>3 DEF UsesId, Events, NoEvent
  <2>8. TxTables(t, T, events, keys, lock')
    <3>1. \A a \in T.told : a \in tx[t].told \/ (a[1] = k /\ a[2] = Found(t))
      BY <2>3
    <3> QED BY <1>2, <1>6, <1>a, <2>3, <2>4, <2>7, <3>1 DEF TxTables
  <2> QED BY <1>1, <1>5, <1>6, <2>2, <2>5, <2>6, <2>7, <2>8, ChangeTx
<1> QED BY <1>7, <1>8

-----------------------------------------------------------------------------
(* The end of a transaction.                                               *)

\* What EndTx does to the locks: the transaction's own are gone.
LEMMA EndTxLocks ==
    ASSUME DispatchInv, NEW t \in Txs, EndTx(t)
    PROVE  /\ lock' \in [Keys -> Txs \cup {NoTx}]
           /\ \A k \in Keys : lock[k] \in Txs \ {t} => lock'[k] = lock[k]
BY DEF EndTx, DispatchInv, TypeOK

\* A rollback, or a COMMIT refused by the deferred foreign key.
LEMMA AbandonKeeps ==
    ASSUME DispatchInv, NEW t \in Txs, EndTx(t), UNCHANGED tables
    PROVE  DispatchInv'
<1>1. TxTables(t, NoTxState, events, keys, lock')
  BY NoTxFacts DEF TxTables
<1>2. tx' = [tx EXCEPT ![t] = NoTxState]
  BY DEF EndTx
<1> QED BY <1>1, <1>2, NoTxFacts, EndTxLocks, ChangeTx

LEMMA CommitKeeps ==
    ASSUME DispatchInv, NEW t \in Txs, Commit(t)
    PROVE  DispatchInv'
<1> DEFINE x == tx[t]
<1>1. /\ tx \in [Txs -> Tx] /\ x \in Tx
      /\ TxShape(x) /\ TxTables(t, x, events, keys, lock)
  BY TxFacts
<1>2. /\ x.pc = "open" /\ DeferredFK(t) /\ EndTx(t) /\ UNCHANGED <<forgotten, seen, settled>>
      /\ keys' = [k \in Keys |-> IF x.reserved[k] # NoEvent THEN x.reserved[k] ELSE keys[k]]
      /\ events' = [e \in Events |-> IF e \in x.events THEN "live" ELSE events[e]]
      /\ rows' = [d \in Deliveries |-> IF d[1] \in x.rows THEN "active" ELSE rows[d]]
      /\ jobs' = [d \in Deliveries |-> IF d[1] \in x.jobs THEN "live" ELSE jobs[d]]
      /\ origin' = [e \in Events |->
                      IF \E k \in Keys : x.reserved[k] = e
                        THEN CHOOSE k \in Keys : x.reserved[k] = e
                        ELSE origin[e]]
      /\ careless' = IF x.erred THEN careless \cup x.events ELSE careless
  BY DEF Commit, MayCommit
<1>3. /\ x.reserved \in [Keys -> Events \cup {NoEvent}] /\ x.events \subseteq Events
      /\ x.rows \subseteq x.events /\ x.jobs \subseteq x.rows /\ x.erred \in BOOLEAN
      /\ \A k \in Keys : x.reserved[k] # NoEvent =>
           x.reserved[k] \in x.events /\ keys[k] = NoEvent /\ lock[k] = t
      /\ \A e \in Events : UsesId(x, e) => events[e] = "none"
  BY <1>1, <1>2 DEF Tx, TxShape, TxTables, DeferredFK
<1>4. /\ keys \in [Keys -> Events \cup {NoEvent}] /\ lock \in [Keys -> Txs \cup {NoTx}]
      /\ events \in [Events -> {"none", "live", "purged"}] /\ jobs \in [Deliveries -> {"none", "live", "ended"}]
      /\ rows \in [Deliveries -> {"absent", "active", "settled"}]
      /\ origin \in [Events -> Keys \cup {NoKey}]
  BY DEF DispatchInv, TypeOK
<1>5. tx' = [tx EXCEPT ![t] = NoTxState] /\ tx' \in [Txs -> Tx]
  BY <1>1, <1>2, NoTxFacts DEF EndTx
<1>6. tx'[t] = NoTxState /\ \A u \in Txs : u # t => tx'[u] = tx[u]
  BY <1>1, <1>5
<1>7. \A k \in Keys : keys'[k] = IF x.reserved[k] # NoEvent THEN x.reserved[k] ELSE keys[k]
  BY <1>2
<1>8. \A e \in Events : events'[e] = IF e \in x.events THEN "live" ELSE events[e]
  BY <1>2
<1>9. \A e \in x.events : events[e] = "none"
  BY <1>3 DEF UsesId
<1>10. \A k \in Keys : x.reserved[k] # NoEvent => origin'[x.reserved[k]] = k
  <2> SUFFICES ASSUME NEW k \in Keys, x.reserved[k] # NoEvent
               PROVE  origin'[x.reserved[k]] = k
    OBVIOUS
  <2>1. x.reserved[k] \in Events
    BY <1>3
  <2>2. \A j \in Keys : x.reserved[j] = x.reserved[k] => j = k
    BY <1>1 DEF TxShape
  <2>3. (CHOOSE j \in Keys : x.reserved[j] = x.reserved[k]) = k
    BY <2>2
  <2> QED BY <1>2, <2>1, <2>3
<1>11. \A e \in Events : (\A k \in Keys : x.reserved[k] # e) => origin'[e] = origin[e]
  BY <1>2
<1>12. \A e \in Events : events[e] # "none" => origin'[e] = origin[e] /\ events'[e] = events[e]
  BY <1>3, <1>8, <1>11 DEF UsesId
<1>13. \A e \in Events : e # NoEvent
  BY DEF Events, NoEvent
<1>14. TypeOK'
  <2>1. keys' \in [Keys -> Events \cup {NoEvent}]
    BY <1>2, <1>3, <1>4
  <2>2. lock' \in [Keys -> Txs \cup {NoTx}]
    BY <1>2, EndTxLocks
  <2>3. events' \in [Events -> {"none", "live", "purged"}]
    BY <1>2, <1>4
  <2>4. rows' \in [Deliveries -> {"absent", "active", "settled"}]
    BY <1>2, <1>4
  <2>5. jobs' \in [Deliveries -> {"none", "live", "ended"}]
    BY <1>2, <1>4
  <2>6. origin' \in [Events -> Keys \cup {NoKey}]
    <3>1. ASSUME NEW e \in Events
          PROVE  origin'[e] \in Keys \cup {NoKey}
      BY <1>4, <1>10, <1>11, <1>13
    <3> QED BY <1>2, <3>1
  <2>7. /\ forgotten' \subseteq Events /\ careless' \subseteq Events /\ settled' \subseteq Deliveries
        /\ seen' \subseteq (Deliveries \X SUBSET Keys)
    BY <1>2, <1>3 DEF DispatchInv, TypeOK
  <2> QED BY <1>5, <2>1, <2>2, <2>3, <2>4, <2>5, <2>6, <2>7 DEF TypeOK
<1>15. ASSUME NEW u \in Txs
       PROVE  (TxShape(tx[u]) /\ TxTables(u, tx[u], events, keys, lock))'
  <2>1. CASE u = t
    <3>1. TxTables(t, NoTxState, events', keys', lock')
      BY NoTxFacts DEF TxTables
    <3> QED BY <1>6, <2>1, <3>1, NoTxFacts
  <2>2. CASE u # t
    <3>1. TxShape(tx[u]) /\ TxTables(u, tx[u], events, keys, lock) /\ tx[u] \in Tx
      BY TxFacts
    <3>2. \A k \in Keys : lock[k] = u => lock'[k] = u /\ keys'[k] = keys[k]
      BY <1>2, <1>3, <1>7, <2>2, EndTxLocks
    <3>3. \A e \in Events : UsesId(tx[u], e) => e \notin x.events
      BY <2>2 DEF DispatchInv, Exclusive, UsesId
    <3>4. \A a \in tx[u].told : a[1] \in Keys
      BY <3>1 DEF Tx
    <3>5. TxTables(u, tx[u], events', keys', lock')
      BY <1>8, <3>1, <3>2, <3>3, <3>4 DEF TxTables
    <3> QED BY <1>6, <2>2, <3>1, <3>5
  <2> QED BY <2>1, <2>2
<1>16. Exclusive'
  <2> SUFFICES ASSUME NEW u \in Txs, NEW v \in Txs, u # v, NEW e \in Events,
                      UsesId(tx'[u], e), UsesId(tx'[v], e)
               PROVE  FALSE
    BY DEF Exclusive, UsesId
  <2> QED BY <1>6, NoTxFacts DEF DispatchInv, Exclusive
<1>17. TablesInv'
  <2>0. KeyNamesLiveEvent /\ KeyHasOrigin /\ Remembered /\ FreshHasNoOrigin
    BY DEF DispatchInv, TablesInv
  <2>1. \A k \in Keys : keys[k] # NoEvent =>
          keys[k] \in Events /\ events[keys[k]] = "live" /\ origin[keys[k]] = k
    BY <1>4, <2>0 DEF KeyNamesLiveEvent, KeyHasOrigin
  <2>2. KeyNamesLiveEvent' /\ KeyHasOrigin'
    <3> SUFFICES ASSUME NEW k \in Keys, keys'[k] # NoEvent
                 PROVE  events'[keys'[k]] = "live" /\ origin'[keys'[k]] = k
      BY DEF KeyNamesLiveEvent, KeyHasOrigin
    <3>1. CASE x.reserved[k] # NoEvent
      BY <1>3, <1>7, <1>8, <1>10, <3>1
    <3>2. CASE x.reserved[k] = NoEvent
      BY <1>7, <1>12, <2>1, <3>2
    <3> QED BY <3>1, <3>2
  <2>3. Remembered'
    <3> SUFFICES ASSUME NEW e \in Events, events'[e] = "live", origin'[e] # NoKey, e \notin forgotten
                 PROVE  keys'[origin'[e]] = e
      BY <1>2 DEF Remembered
    <3>1. CASE \E k \in Keys : x.reserved[k] = e
      BY <1>7, <1>10, <1>13, <3>1
    <3>2. CASE \A k \in Keys : x.reserved[k] # e
      <4>1. origin'[e] = origin[e] /\ origin[e] # NoKey
        BY <1>11, <3>2
      <4>2. events[e] = "live"
        BY <1>8, <1>9, <2>0, <4>1 DEF FreshHasNoOrigin
      <4>3. keys[origin[e]] = e /\ origin[e] \in Keys
        BY <1>4, <2>0, <4>1, <4>2 DEF Remembered
      <4> QED BY <1>3, <1>7, <1>13, <4>1, <4>3
    <3> QED BY <3>1, <3>2
  <2>4. FreshHasNoOrigin'
    <3> SUFFICES ASSUME NEW e \in Events, events'[e] = "none"
                 PROVE  origin'[e] = NoKey
      BY DEF FreshHasNoOrigin
    <3>1. e \notin x.events /\ events[e] = "none"
      BY <1>8
    <3>2. \A k \in Keys : x.reserved[k] # e
      BY <1>3, <1>13, <3>1
    <3> QED BY <1>11, <2>0, <3>1, <3>2 DEF FreshHasNoOrigin
  <2> QED BY <2>2, <2>3, <2>4 DEF TablesInv
<1>18. NoOrphanRow'
  <2> SUFFICES ASSUME NEW d \in Deliveries, rows'[d] # "absent", jobs'[d] = "none"
               PROVE  d[1] \in careless'
    BY DEF NoOrphanRow
  <2>1. d[1] \in Events /\ d[2] \in Registry /\ d = <<d[1], d[2]>>
    BY DEF Deliveries
  <2>2. CASE d[1] \in x.rows
    <3>1. d[1] \notin x.jobs
      BY <1>2, <2>1
    <3>2. x.erred
      BY <1>1, <1>2, <2>2, <3>1 DEF TxShape
    <3> QED BY <1>2, <1>3, <2>2, <3>2
  <2>3. CASE d[1] \notin x.rows
    <3>1. rows[d] # "absent" /\ jobs[d] = "none"
      BY <1>2, <2>3
    <3>2. d[1] \in careless
      BY <3>1 DEF DispatchInv, DeliveryInv, NoOrphanRow
    <3> QED BY <1>2, <3>2
  <2> QED BY <2>2, <2>3
<1>19. UnsettledJobHasRow'
  <2> SUFFICES ASSUME NEW d \in Deliveries, jobs'[d] = "live", d \notin settled
               PROVE  rows'[d] = "active" /\ events'[d[1]] = "live"
    BY <1>2 DEF UnsettledJobHasRow
  <2>1. d[1] \in Events
    BY DEF Deliveries
  <2>2. CASE d[1] \in x.jobs
    BY <1>2, <1>3, <1>8, <2>1, <2>2
  <2>3. CASE d[1] \notin x.jobs
    <3>1. jobs[d] = "live"
      BY <1>2, <2>3
    <3>2. rows[d] = "active" /\ events[d[1]] = "live"
      BY <3>1 DEF DispatchInv, DeliveryInv, UnsettledJobHasRow
    <3> QED BY <1>2, <1>8, <2>1, <3>2
  <2> QED BY <2>2, <2>3
<1> QED BY <1>14, <1>15, <1>16, <1>17, <1>18, <1>19 DEF DispatchInv, DeliveryInv

-----------------------------------------------------------------------------
(* The purges and the workers.                                             *)

\* Only committed tables change, and no key that an open transaction has
\* locked, nor an event id in its hands, is touched.
LEMMA TablesChange ==
    ASSUME DispatchInv, UNCHANGED <<tx, lock>>,
           \A k \in Keys : lock[k] # NoTx => keys'[k] = keys[k],
           \A e \in Events : events[e] = "none" => events'[e] = "none",
           TypeOK', TablesInv', DeliveryInv'
    PROVE  DispatchInv'
<1>1. ASSUME NEW u \in Txs
      PROVE  (TxShape(tx[u]) /\ TxTables(u, tx[u], events, keys, lock))'
  <2>1. TxShape(tx[u]) /\ TxTables(u, tx[u], events, keys, lock) /\ tx[u] \in Tx
    BY TxFacts
  <2>2. \A a \in tx[u].told : a[1] \in Keys
    BY <2>1 DEF Tx
  <2>3. \A k \in Keys : lock[k] = u => keys'[k] = keys[k]
    BY DispatchAssumption
  <2>4. TxTables(u, tx[u], events', keys', lock)
    BY <2>1, <2>2, <2>3 DEF TxTables
  <2> QED BY <2>1, <2>4
<1>2. Exclusive'
  BY DEF DispatchInv, Exclusive, UsesId
<1> QED BY <1>1, <1>2 DEF DispatchInv

LEMMA PurgeDispatchKeyKeeps ==
    ASSUME DispatchInv, NEW k \in Keys, PurgeDispatchKey(k)
    PROVE  DispatchInv'
<1>1. /\ keys[k] # NoEvent /\ lock[k] = NoTx /\ forgotten' = forgotten \cup {keys[k]}
      /\ keys' = [keys EXCEPT ![k] = NoEvent]
      /\ UNCHANGED <<tx, lock, events, rows, jobs, origin, seen, settled, careless>>
  BY DEF PurgeDispatchKey, Forget
<1>2. keys \in [Keys -> Events \cup {NoEvent}] /\ origin \in [Events -> Keys \cup {NoKey}]
  BY DEF DispatchInv, TypeOK
<1>3. TypeOK'
  BY <1>1, <1>2 DEF DispatchInv, TypeOK
<1>4. keys'[k] = NoEvent /\ \A j \in Keys : j # k => keys'[j] = keys[j]
  BY <1>1, <1>2
<1>5. KeyNamesLiveEvent' /\ KeyHasOrigin' /\ FreshHasNoOrigin'
  BY <1>1, <1>4 DEF DispatchInv, TablesInv, KeyNamesLiveEvent, KeyHasOrigin, FreshHasNoOrigin
<1>6. Remembered'
  <2> SUFFICES ASSUME NEW e \in Events, events[e] = "live", origin[e] # NoKey, e \notin forgotten'
               PROVE  keys'[origin[e]] = e
    BY <1>1 DEF Remembered
  <2>1. keys[origin[e]] = e /\ origin[e] \in Keys
    BY <1>1, <1>2 DEF DispatchInv, TablesInv, Remembered
  <2> QED BY <1>1, <1>4, <2>1
<1>7. DeliveryInv'
  BY <1>1 DEF DispatchInv, DeliveryInv, NoOrphanRow, UnsettledJobHasRow
<1> QED BY <1>1, <1>3, <1>4, <1>5, <1>6, <1>7, TablesChange DEF TablesInv

LEMMA PurgeEventKeeps ==
    ASSUME DispatchInv, NEW e \in Events, PurgeEvent(e)
    PROVE  DispatchInv'
<1>1. /\ events[e] = "live" /\ NoActiveDelivery(e)
      /\ \A k \in Keys : keys[k] = e => lock[k] = NoTx
      /\ events' = [events EXCEPT ![e] = "purged"]
      /\ rows' = [d \in Deliveries |-> IF d[1] = e THEN "absent" ELSE rows[d]]
      /\ keys' = [k \in Keys |-> IF keys[k] = e THEN NoEvent ELSE keys[k]]
      /\ UNCHANGED <<tx, lock, jobs, origin, forgotten, seen, settled, careless>>
  BY DEF PurgeEvent, Cascade
<1>2. /\ keys \in [Keys -> Events \cup {NoEvent}] /\ origin \in [Events -> Keys \cup {NoKey}]
      /\ events \in [Events -> {"none", "live", "purged"}] /\ jobs \in [Deliveries -> {"none", "live", "ended"}]
      /\ rows \in [Deliveries -> {"absent", "active", "settled"}]
  BY DEF DispatchInv, TypeOK
<1>3. TypeOK'
  BY <1>1, <1>2 DEF DispatchInv, TypeOK
<1>4. events'[e] = "purged" /\ \A f \in Events : f # e => events'[f] = events[f]
  BY <1>1, <1>2
<1>5. \A k \in Keys : keys'[k] = IF keys[k] = e THEN NoEvent ELSE keys[k]
  BY <1>1
<1>6. KeyNamesLiveEvent' /\ KeyHasOrigin' /\ FreshHasNoOrigin'
  BY <1>1, <1>2, <1>4, <1>5
     DEF DispatchInv, TablesInv, KeyNamesLiveEvent, KeyHasOrigin, FreshHasNoOrigin
<1>7. Remembered'
  BY <1>1, <1>2, <1>4, <1>5 DEF DispatchInv, TablesInv, Remembered
<1>8. \A d \in Deliveries : rows[d] = "active" => d[1] # e
  BY <1>1 DEF NoActiveDelivery, Deliveries
<1>9. NoOrphanRow'
  BY <1>1 DEF DispatchInv, DeliveryInv, NoOrphanRow
<1>10. UnsettledJobHasRow'
  <2> SUFFICES ASSUME NEW d \in Deliveries, jobs[d] = "live", d \notin settled
               PROVE  rows'[d] = "active" /\ events'[d[1]] = "live"
    BY <1>1 DEF UnsettledJobHasRow
  <2>1. rows[d] = "active" /\ events[d[1]] = "live" /\ d[1] \in Events
    BY DEF DispatchInv, DeliveryInv, UnsettledJobHasRow, Deliveries
  <2> QED BY <1>1, <1>4, <1>8, <2>1
<1> QED BY <1>1, <1>3, <1>4, <1>5, <1>6, <1>7, <1>9, <1>10, TablesChange DEF TablesInv, DeliveryInv

\* A step of a worker, or the purge of a settled row: keys and events stay.
LEMMA DeliveryStep ==
    ASSUME DispatchInv, UNCHANGED <<tx, lock, keys, events, origin, forgotten>>,
           TypeOK', DeliveryInv'
    PROVE  DispatchInv'
<1>1. TablesInv'
  BY DEF DispatchInv, TablesInv, KeyNamesLiveEvent, KeyHasOrigin, Remembered, FreshHasNoOrigin
<1> QED BY <1>1, TablesChange

LEMMA PurgeDeliveryKeeps ==
    ASSUME DispatchInv, NEW d \in Deliveries, PurgeDelivery(d)
    PROVE  DispatchInv'
<1>1. /\ rows[d] = "settled" /\ rows' = [rows EXCEPT ![d] = "absent"]
      /\ UNCHANGED <<tx, lock, keys, events, jobs, origin, forgotten, seen, settled, careless>>
  BY DEF PurgeDelivery
<1>2. TypeOK'
  BY <1>1 DEF DispatchInv, TypeOK
<1>3. DeliveryInv'
  BY <1>1 DEF DispatchInv, TypeOK, DeliveryInv, NoOrphanRow, UnsettledJobHasRow
<1> QED BY <1>1, <1>2, <1>3, DeliveryStep

LEMMA StartHandlerKeeps ==
    ASSUME DispatchInv, NEW d \in Deliveries, StartHandler(d)
    PROVE  DispatchInv'
<1>1. /\ seen' = seen \cup {<<d, KeyOf(d[1])>>}
      /\ UNCHANGED <<tx, lock, keys, events, rows, jobs, origin, forgotten, settled, careless>>
  BY DEF StartHandler
<1>2. seen' \subseteq (Deliveries \X SUBSET Keys)
  BY <1>1 DEF DispatchInv, TypeOK, KeyOf
<1>3. TypeOK'
  BY <1>1, <1>2 DEF DispatchInv, TypeOK
<1>4. DeliveryInv'
  BY <1>1 DEF DispatchInv, DeliveryInv, NoOrphanRow, UnsettledJobHasRow
<1> QED BY <1>1, <1>3, <1>4, DeliveryStep

LEMMA SettleKeeps ==
    ASSUME DispatchInv, NEW d \in Deliveries, Settle(d)
    PROVE  DispatchInv'
<1>1. /\ rows[d] = "active" /\ rows' = [rows EXCEPT ![d] = "settled"]
      /\ settled' = settled \cup {d}
      /\ UNCHANGED <<tx, lock, keys, events, jobs, origin, forgotten, seen, careless>>
  BY DEF Settle
<1>2. TypeOK'
  BY <1>1 DEF DispatchInv, TypeOK
<1>3. DeliveryInv'
  BY <1>1 DEF DispatchInv, TypeOK, DeliveryInv, NoOrphanRow, UnsettledJobHasRow
<1> QED BY <1>1, <1>2, <1>3, DeliveryStep

LEMMA EndJobKeeps ==
    ASSUME DispatchInv, NEW d \in Deliveries, EndJob(d)
    PROVE  DispatchInv'
<1>1. /\ jobs[d] = "live" /\ jobs' = [jobs EXCEPT ![d] = "ended"]
      /\ UNCHANGED <<tx, lock, keys, events, rows, origin, forgotten, seen, settled, careless>>
  BY DEF EndJob
<1>2. TypeOK'
  BY <1>1 DEF DispatchInv, TypeOK
<1>3. DeliveryInv'
  BY <1>1 DEF DispatchInv, TypeOK, DeliveryInv, NoOrphanRow, UnsettledJobHasRow
<1> QED BY <1>1, <1>2, <1>3, DeliveryStep

-----------------------------------------------------------------------------
(* The invariant is inductive.                                             *)

LEMMA InitDispatch == Init => DispatchInv
<1> SUFFICES ASSUME Init PROVE DispatchInv
  OBVIOUS
<1>1. /\ \A t \in Txs : tx[t] = NoTxState
      /\ \A k \in Keys : keys[k] = NoEvent
      /\ \A e \in Events : events[e] = "none" /\ origin[e] = NoKey
      /\ \A d \in Deliveries : rows[d] = "absent" /\ jobs[d] = "none"
  BY DEF Init
<1>2. TypeOK
  BY NoTxFacts DEF Init, TypeOK
<1>3. \A t \in Txs : TxShape(tx[t]) /\ TxTables(t, tx[t], events, keys, lock)
  BY <1>1, NoTxFacts DEF TxTables
<1>4. Exclusive
  BY <1>1, NoTxFacts DEF Exclusive
<1>5. TablesInv /\ DeliveryInv
  BY <1>1 DEF TablesInv, DeliveryInv, KeyNamesLiveEvent, KeyHasOrigin, Remembered,
     FreshHasNoOrigin, NoOrphanRow, UnsettledJobHasRow
<1> QED BY <1>2, <1>3, <1>4, <1>5 DEF DispatchInv

LEMMA NextDispatch == DispatchInv /\ [Next]_vars => DispatchInv'
<1> SUFFICES ASSUME DispatchInv, [Next]_vars PROVE DispatchInv'
  OBVIOUS
<1>1. ASSUME NEW t \in Txs, NEW k \in Requests, Call(t, k) PROVE DispatchInv'
  BY <1>1, CallKeeps
<1>2. ASSUME NEW t \in Txs,
             \/ Reject(t) \/ HeadersTooLarge(t) \/ PushFails(t)
             \/ StatementFails(t) \/ DropCall(t) \/ DeadlockVictim(t)
      PROVE  DispatchInv'
  <2>1. CASE Reject(t)
    BY <2>1, RejectKeeps
  <2>2. CASE HeadersTooLarge(t) \/ PushFails(t) \/ DropCall(t)
    BY <2>2, ErrKeeps DEF HeadersTooLarge, PushFails, DropCall
  <2>3. CASE StatementFails(t) \/ DeadlockVictim(t)
    BY <2>3, AbortKeeps DEF StatementFails, DeadlockVictim
  <2> QED BY <1>2, <2>1, <2>2, <2>3
<1>3. ASSUME NEW t \in Txs, Statement(t) PROVE DispatchInv'
  BY <1>3, ReserveKeeps, InsertEventKeeps, PushJobsKeeps DEF Statement
<1>4. ASSUME NEW t \in Txs, EndOfTx(t) PROVE DispatchInv'
  BY <1>4, CommitKeeps, AbandonKeeps DEF EndOfTx, CommitRefused, Rollback
<1>5. ASSUME NEW k \in Keys, PurgeDispatchKey(k) PROVE DispatchInv'
  BY <1>5, PurgeDispatchKeyKeeps
<1>6. ASSUME NEW e \in Events, PurgeEvent(e) PROVE DispatchInv'
  BY <1>6, PurgeEventKeeps
<1>7. ASSUME NEW d \in Deliveries,
             PurgeDelivery(d) \/ StartHandler(d) \/ Settle(d) \/ EndJob(d)
      PROVE  DispatchInv'
  BY <1>7, PurgeDeliveryKeeps, StartHandlerKeeps, SettleKeeps, EndJobKeeps
<1>8. CASE UNCHANGED vars
  <2>1. UNCHANGED <<tx, lock, keys, events, rows, jobs, origin, forgotten, seen, settled, careless>>
    BY <1>8 DEF vars, tables
  <2>2. TypeOK' /\ TablesInv' /\ DeliveryInv'
    BY <2>1 DEF DispatchInv, TypeOK, TablesInv, DeliveryInv, KeyNamesLiveEvent, KeyHasOrigin,
       Remembered, FreshHasNoOrigin, NoOrphanRow, UnsettledJobHasRow
  <2> QED BY <2>1, <2>2, TablesChange
<1> QED BY <1>1, <1>2, <1>3, <1>4, <1>5, <1>6, <1>7, <1>8 DEF Next

LEMMA DispatchInvariant == Spec => []DispatchInv
BY InitDispatch, NextDispatch, PTL DEF Spec

-----------------------------------------------------------------------------
(* The theorems.                                                           *)

\* The staged and the committed tables keep their types through every
\* interleaving of calls, failures, commits and purges.
THEOREM DispatchTypeCorrect == Spec => []TypeOK
<1>1. DispatchInv => TypeOK
  BY DEF DispatchInv
<1> QED BY <1>1, DispatchInvariant, PTL

\* outbox.rs reserves the key before it inserts the event; the deferred foreign
\* key and the cascade still leave no committed key without its event.
THEOREM KeyNamesLiveEventHolds == Spec => []KeyNamesLiveEvent
<1>1. DispatchInv => KeyNamesLiveEvent
  BY DEF DispatchInv, TablesInv
<1> QED BY <1>1, DispatchInvariant, PTL

\* Idempotency of Outbox::dispatch: two live events dispatched under one key
\* need a purge_dispatch_keys that deleted the key in between.
THEOREM OneEventPerKeyHolds == Spec => []OneEventPerKey
<1>1. DispatchInv => OneEventPerKey
  BY DEF DispatchInv, TablesInv, Remembered, OneEventPerKey
<1> QED BY <1>1, DispatchInvariant, PTL

\* The answer Duplicate stays true until the transaction that got it ends: the
\* upsert locked the row, and both purges wait for the lock.
THEOREM DuplicateHoldsHolds == Spec => []DuplicateHolds
<1>1. DispatchInv => DuplicateHolds
  <2> SUFFICES ASSUME DispatchInv, NEW t \in Txs, NEW a \in tx[t].told
               PROVE  \/ keys[a[1]] = a[2] /\ events[a[2]] = "live"
                      \/ tx[t].reserved[a[1]] = a[2] /\ (a[2] \in tx[t].events \/ ~DeferredFK(t))
    BY DEF DuplicateHolds
  <2>1. a[1] \in Keys /\ a[2] \in Events /\ a[2] # NoEvent
    BY TxFacts DEF Tx, Events, NoEvent
  <2>2. keys[a[1]] = a[2] \/ tx[t].reserved[a[1]] = a[2]
    BY TxFacts DEF TxTables
  <2>3. CASE keys[a[1]] = a[2]
    BY <2>1, <2>3 DEF DispatchInv, TablesInv, KeyNamesLiveEvent
  <2>4. CASE tx[t].reserved[a[1]] = a[2]
    BY <2>1, <2>4 DEF DeferredFK
  <2> QED BY <2>2, <2>3, <2>4
<1> QED BY <1>1, DispatchInvariant, PTL

\* Audit rows and jobs are committed together by every caller that rolls back
\* unless dispatch returned Ok.
THEOREM NoOrphanRowHolds == Spec => []NoOrphanRow
<1>1. DispatchInv => NoOrphanRow
  BY DEF DispatchInv, DeliveryInv
<1> QED BY <1>1, DispatchInvariant, PTL

\* The purges take neither the audit row nor the event of a delivery that is
\* still to be settled, however the worker's marks, pgwq's verdicts and the
\* purges interleave: what runtime.rs:260-274 gives up is settled already.
THEOREM UnsettledJobHasRowHolds == Spec => []UnsettledJobHasRow
<1>1. DispatchInv => UnsettledJobHasRow
  BY DEF DispatchInv, DeliveryInv
<1> QED BY <1>1, DispatchInvariant, PTL
=============================================================================
