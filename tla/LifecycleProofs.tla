--------------------------- MODULE LifecycleProofs --------------------------
(***************************************************************************)
(* Proofs about Lifecycle, for any number of tasks and calls.              *)
(***************************************************************************)
EXTENDS Lifecycle, TLAPS

\* A worker is alive exactly while its task holds the handle.
HandlesOwnWorkers == workers = {c \in Callers : pc[c] \in {"running", "draining"}}

\* The flag is set while anyone is in start() or has a worker.
FlagGuards == workers \cup InStart # {} => started

\* Once a start() has succeeded the flag is never released again.
FlagStays == "ok" \in ever => started /\ InStart = {}

\* One inductive invariant: OneWorker needs the flag, and the flag, which any
\* failing start() clears, needs OneWorker.
LifecycleInv ==
    TypeOK /\ HandlesOwnWorkers /\ FlagGuards /\ FlagStays /\ OneWorker /\ FlagHonest

USE DEF Phases, Answers, InStart

LEMMA LifecycleInit == Init => LifecycleInv
<1> SUFFICES ASSUME Init PROVE LifecycleInv
  OBVIOUS
<1>1. TypeOK
  BY DEF Init, TypeOK
<1>2. InStart = {} /\ workers = {} /\ started = FALSE /\ ever = {}
  BY DEF Init
<1>3. HandlesOwnWorkers
  BY DEF Init, HandlesOwnWorkers
<1> QED
  BY <1>1, <1>2, <1>3 DEF LifecycleInv, FlagGuards, FlagStays, OneWorker, FlagHonest

\* Types, by themselves.
LEMMA TypeStep == TypeOK /\ [Next]_vars => TypeOK'
<1> SUFFICES ASSUME TypeOK, [Next]_vars PROVE TypeOK'
  OBVIOUS
<1> USE DEF TypeOK, Fail, GuardReleases, Answer
<1>1. CASE Migrate
  BY <1>1 DEF Migrate
<1>2. ASSUME NEW c \in Callers, Enter(c) \/ Panic(c) PROVE TypeOK'
  <2>1. CASE Panic(c)
    <3>1. /\ pc' = [pc EXCEPT ![c] = "idle"] /\ Answer(c, "panic")
          /\ UNCHANGED <<started, roomy, migrated, calls, workers>>
      BY <2>1, Zenon DEF Panic
    <3> QED BY <3>1
  <2>2. CASE Enter(c)
    <3>1. /\ calls' = [calls EXCEPT ![c] = @ + 1] /\ started' = TRUE
          /\ UNCHANGED <<roomy, migrated, workers>>
      BY <2>2, Zenon DEF Enter
    <3>2. \/ Answer(c, "already_started") /\ pc' = pc
          \/ pc' = [pc EXCEPT ![c] = "entered"] /\ UNCHANGED <<answer, ever>>
      BY <2>2, Zenon DEF Enter
    <3>3. calls' \in [Callers -> Nat]
      BY <3>1
    <3>4. pc' \in [Callers -> Phases] /\ answer' \in [Callers -> Answers] /\ ever' \subseteq Answers
      BY <3>2
    <3>5. started' \in BOOLEAN /\ roomy' \in BOOLEAN /\ migrated' \in BOOLEAN /\ workers' \subseteq Callers
      BY <3>1
    <3> QED BY <3>3, <3>4, <3>5
  <2> QED BY <1>2, <2>1, <2>2
<1>3. ASSUME NEW c \in Callers, CancelStart(c) \/ BuildFails(c) PROVE TypeOK'
  BY <1>3 DEF CancelStart, BuildFails
<1>4. ASSUME NEW c \in Callers, CheckPool(c) \/ Probe(c) \/ Started(c) PROVE TypeOK'
  <2>1. CASE Fail(c)
    BY <2>1
  <2>2. CASE Started(c)
    BY <2>2 DEF Started
  <2>3. CASE ~Fail(c) /\ ~Started(c)
    <3>1. /\ \E p \in {"probing", "building"} : pc' = [pc EXCEPT ![c] = p]
          /\ UNCHANGED <<started, roomy, migrated, answer, calls, workers, ever>>
      BY <1>4, <2>3, Zenon DEF CheckPool, Probe
    <3> QED BY <3>1
  <2> QED BY <1>4, <2>1, <2>2, <2>3
<1>5. ASSUME NEW c \in Callers, Shutdown(c) \/ Drained(c) \/ DropHandle(c) PROVE TypeOK'
  BY <1>5 DEF Shutdown, Drained, DropHandle
<1>6. CASE UNCHANGED vars
  BY <1>6 DEF vars
<1> QED
  BY <1>1, <1>2, <1>3, <1>4, <1>5, <1>6 DEF Next, StartStep

\* A start() that fails was the only one, so releasing the flag is safe.
LEMMA FailStep ==
  ASSUME LifecycleInv, NEW c \in Callers, c \in InStart, Fail(c)
  PROVE  LifecycleInv'
<1>0. TypeOK /\ HandlesOwnWorkers /\ FlagGuards /\ FlagStays /\ OneWorker
  BY DEF LifecycleInv
<1>1. pc' = [pc EXCEPT ![c] = "idle"] /\ started' = FALSE /\ workers' = workers
      /\ ever' = ever \cup {"err"} /\ answer' = [answer EXCEPT ![c] = "err"]
      /\ roomy' = roomy /\ migrated' = migrated /\ calls' = calls
  BY DEF Fail, GuardReleases, Answer
<1>2. TypeOK'
  BY <1>0, <1>1 DEF TypeOK
<1>3. workers = {}
  <2>1. ASSUME NEW b \in workers PROVE FALSE
    <3>1. b = c
      BY <1>0, <2>1 DEF OneWorker
    <3> QED BY <1>0, <2>1, <3>1 DEF HandlesOwnWorkers
  <2> QED BY <2>1
<1>4. InStart' = {}
  <2>1. ASSUME NEW b \in InStart' PROVE FALSE
    <3>1. b # c /\ b \in InStart
      BY <1>0, <1>1, <2>1 DEF TypeOK
    <3> QED BY <1>0, <3>1 DEF OneWorker
  <2> QED BY <2>1
<1>5. "ok" \notin ever'
  BY <1>0, <1>1 DEF FlagStays
<1>6. HandlesOwnWorkers'
  BY <1>0, <1>1, <1>3 DEF HandlesOwnWorkers, TypeOK
<1> QED
  BY <1>1, <1>2, <1>3, <1>4, <1>5, <1>6
     DEF LifecycleInv, FlagGuards, FlagStays, OneWorker, FlagHonest

LEMMA LifecycleStep == LifecycleInv /\ [Next]_vars => LifecycleInv'
<1> SUFFICES ASSUME LifecycleInv, [Next]_vars PROVE LifecycleInv'
  OBVIOUS
<1>0. TypeOK /\ HandlesOwnWorkers /\ FlagGuards /\ FlagStays /\ OneWorker /\ FlagHonest
  BY DEF LifecycleInv
<1>T. TypeOK'
  BY <1>0, TypeStep
<1> USE DEF LifecycleInv, HandlesOwnWorkers, FlagGuards, FlagStays, OneWorker, FlagHonest
<1>1. CASE Migrate
  BY <1>0, <1>1, <1>T DEF Migrate
<1>2. ASSUME NEW c \in Callers, Enter(c) PROVE LifecycleInv'
  <2>1. CASE started
    BY <1>0, <1>2, <1>T, <2>1 DEF Enter, Answer, TypeOK
  <2>2. CASE ~started
    <3>1. workers = {} /\ InStart = {} /\ "ok" \notin ever
      BY <1>0, <2>2
    <3>2. pc' = [pc EXCEPT ![c] = "entered"] /\ started' /\ workers' = workers /\ ever' = ever
      BY <1>2, <2>2 DEF Enter
    <3>3. InStart' = {c}
      BY <1>0, <3>1, <3>2 DEF TypeOK
    <3>4. HandlesOwnWorkers'
      BY <1>0, <3>1, <3>2 DEF TypeOK
    <3> QED BY <1>T, <3>1, <3>2, <3>3, <3>4
  <2> QED BY <2>1, <2>2
<1>3. ASSUME NEW c \in Callers, Panic(c) PROVE LifecycleInv'
  BY <1>0, <1>3, <1>T DEF Panic, Answer, TypeOK
<1>4. ASSUME NEW c \in Callers, CancelStart(c) \/ BuildFails(c) PROVE LifecycleInv'
  BY <1>4, FailStep DEF CancelStart, BuildFails
<1>5. ASSUME NEW c \in Callers, CheckPool(c) \/ Probe(c) PROVE LifecycleInv'
  <2>1. CASE Fail(c)
    BY <1>5, <2>1, FailStep DEF CheckPool, Probe
  <2>2. CASE ~Fail(c)
    BY <1>0, <1>5, <2>2, <1>T DEF CheckPool, Probe, TypeOK
  <2> QED BY <2>1, <2>2
<1>6. ASSUME NEW c \in Callers, Started(c) PROVE LifecycleInv'
  <2>1. InStart' = {}
    BY <1>0, <1>6 DEF Started, TypeOK
  <2>2. workers = {} /\ workers' = {c}
    BY <1>0, <1>6 DEF Started
  <2>3. HandlesOwnWorkers'
    BY <1>0, <1>6, <2>2 DEF Started, TypeOK
  <2> QED BY <1>0, <1>6, <1>T, <2>1, <2>2, <2>3 DEF Started, Answer
<1>7. ASSUME NEW c \in Callers, Shutdown(c) PROVE LifecycleInv'
  BY <1>0, <1>7, <1>T DEF Shutdown, TypeOK
<1>8. ASSUME NEW c \in Callers, Drained(c) \/ DropHandle(c) PROVE LifecycleInv'
  BY <1>0, <1>8, <1>T DEF Drained, DropHandle, TypeOK
<1>9. CASE UNCHANGED vars
  BY <1>0, <1>9, <1>T DEF vars
<1> QED
  BY <1>1, <1>2, <1>3, <1>4, <1>5, <1>6, <1>7, <1>8, <1>9 DEF Next, StartStep

LEMMA LifecycleHolds == Spec => []LifecycleInv
BY LifecycleInit, LifecycleStep, PTL DEF Spec

\* However calls of start() overlap, fail or are dropped, at most one worker is
\* alive or coming up (outbox.rs:340 and the guard).
THEOREM OneWorkerHolds == Spec => []OneWorker
<1>1. LifecycleInv => OneWorker
  BY DEF LifecycleInv
<1> QED BY <1>1, LifecycleHolds, PTL

\* A failed or cancelled start() never leaves the flag set (StartedGuard).
THEOREM FlagHonestHolds == Spec => []FlagHonest
<1>1. LifecycleInv => FlagHonest
  BY DEF LifecycleInv
<1> QED BY <1>1, LifecycleHolds, PTL

\* No second worker after the first start() that succeeded.
THEOREM StartsOnceHolds == Spec => StartsOnce
<1>1. ASSUME LifecycleInv, [Next]_vars, "ok" \in ever PROVE workers' \subseteq workers
  <2>1. InStart = {}
    BY <1>1 DEF LifecycleInv, FlagStays
  <2> QED
    BY <1>1, <2>1 DEF Next, vars, Migrate, Enter, Panic, CancelStart, StartStep, CheckPool,
       Probe, BuildFails, Started, Shutdown, Drained, DropHandle, Fail, LifecycleInv, TypeOK
<1> QED BY <1>1, LifecycleHolds, PTL DEF Spec, StartsOnce
=============================================================================
