---------------------- MODULE ConcurrencyLimitsProofs -----------------------
(***************************************************************************)
(* Per-handler limits and the registry across redeploys, for any number of *)
(* events, handlers, deployments and leases, any limits and any plans.     *)
(* The inductive invariant says that a job remembers the build that        *)
(* dispatched it: its key if its handler had a limit then, and its event's *)
(* type if that build still runs.                                          *)
(***************************************************************************)
EXTENDS ConcurrencyLimits, FiniteSetTheorems, TLAPS

WorkerTask == [delivery : Deliveries, token : Nat, blocked : BOOLEAN]

LimitsType ==
    /\ BuilderType
    /\ deploys \in Nat
    /\ events \in [Events -> [type : EventTypes \cup {"none"}, by : Nat]]
    /\ jobs \in [Deliveries -> Job]
    /\ tasks \subseteq WorkerTask /\ IsFiniteSet(tasks)

\* build() has no error to report.
NoEntryError == \A i \in DOMAIN pending : EntryError(i) = "none"

\* build() has checked every registration, and only a built outbox has tasks.
Checked ==
    /\ Ready => NoEntryError
    /\ tasks # {} => Ready

\* A job is one that a deployment dispatched, with a key or as legacy; what the
\* running deployment dispatched, it has a handler of the event's type for.
JobsDispatched ==
    \A d \in Deliveries :
        jobs[d].status # "absent" =>
            /\ d \in keyed \cup legacy
            /\ events[d[1]].type # "none"
            /\ events[d[1]].by = deploys => HandlerOf(d) \in HandlersFor(events[d[1]].type)

\* No event was dispatched by a deployment still to come.
NoneFromFuture == \A e \in Events : events[e].by <= deploys

\* A task runs a job that was pushed.
TasksHaveJobs == \A t \in tasks : jobs[t.delivery].status # "absent"

\* The permits of h that are taken.
Taken(h) == {t \in Live(h) : t.delivery \in keyed}

\* pgwq gives out no more permits of a limited handler than it has.
PermitsCounted ==
    \A h \in HandlerIds : Ready /\ LimitOf(h) # None => Cardinality(Taken(h)) <= LimitOf(h)

LimitsInv ==
    /\ LimitsType /\ Checked
    /\ JobsDispatched /\ NoneFromFuture /\ TasksHaveJobs
    /\ PermitsCounted

-----------------------------------------------------------------------------
(* The registry of a built outbox.                                         *)

\* A registration without an error has an id of its own.
LEMMA EntryErrorFacts ==
    ASSUME BuilderType, NEW i \in DOMAIN pending
    PROVE  /\ EntryError(i) \in BuildErrors \cup {"none"}
           /\ EntryError(i) = "none" => ~DuplicateId(i)
<1>1. pending[i] \in PendingHandler
  BY DEF BuilderType
<1>2. IdBytes[pending[i].handler_id] \in Nat
  BY <1>1, BuilderAssumption DEF PendingHandler
<1> QED BY <1>2 DEF EntryError, BuildErrors, MAX_HANDLER_ID_BYTES

\* An id has one registration, so the lookup of the registry finds that one.
LEMMA OneRegistration ==
    ASSUME BuilderType, NoEntryError, NEW h \in HandlerIds, NEW j \in Lookup(h)
    PROVE  Registered(h) = pending[j]
<1>1. ASSUME NEW i \in Lookup(h), i # j PROVE FALSE
  <2>1. /\ i \in DOMAIN pending /\ j \in DOMAIN pending /\ i \in Nat /\ j \in Nat
        /\ pending[i].handler_id = pending[j].handler_id
    BY <1>1 DEF Lookup, BuilderType
  <2>2. ~DuplicateId(i) /\ ~DuplicateId(j)
    BY <2>1, EntryErrorFacts DEF NoEntryError
  <2>3. i \in 1..(j - 1) \/ j \in 1..(i - 1)
    BY <1>1, <2>1 DEF BuilderType
  <2> QED BY <2>1, <2>2, <2>3 DEF DuplicateId
<1>2. Lookup(h) = {j}
  BY <1>1
<1>3. j \in Int
  BY DEF Lookup, BuilderType
<1>4. Max({j}) = j
  BY <1>3 DEF Max
<1> QED BY <1>2, <1>4 DEF Registered

\* What a built registry says of a handler's limit.
LEMMA LimitFacts ==
    ASSUME BuilderType, NoEntryError, NEW h \in HandlerIds
    PROVE  LimitOf(h) \in Nat \cup {None}
<1>1. CASE Lookup(h) = {}
  BY <1>1 DEF LimitOf
<1>2. ASSUME NEW j \in Lookup(h) PROVE LimitOf(h) \in Nat \cup {None}
  <2>1. pending[j] \in PendingHandler
    BY <1>2 DEF Lookup, BuilderType
  <2>2. LimitOf(h) = pending[j].concurrency_limit
    BY <1>2, OneRegistration DEF LimitOf
  <2> QED BY <2>1, <2>2, BuilderAssumption DEF PendingHandler
<1> QED BY <1>1, <1>2

\* A build that keeps its configuration and registrations keeps what is made
\* of them.
LEMMA SameBuild ==
    ASSUME UNCHANGED <<config, pending>>
    PROVE  /\ \A h : LimitOf(h)' = LimitOf(h)
           /\ \A t : HandlersFor(t)' = HandlersFor(t)
           /\ \A i : EntryError(i)' = EntryError(i)
<1>1. \A h : Lookup(h)' = Lookup(h) /\ Registered(h)' = Registered(h)
  BY DEF Lookup, Registered
<1>2. \A h : LimitOf(h)' = LimitOf(h)
  BY <1>1 DEF LimitOf
<1>3. \A t : HandlersFor(t)' = HandlersFor(t)
  BY DEF HandlersFor
<1>4. \A i : EntryError(i)' = EntryError(i)
  BY DEF EntryError, DuplicateId, TimeoutInvalid, LimitInvalid
<1> QED BY <1>2, <1>3, <1>4

-----------------------------------------------------------------------------
(* Sets of tasks.                                                          *)

LEMMA TakenFinite ==
    ASSUME LimitsType, NEW h
    PROVE  IsFiniteSet(Taken(h)) /\ Cardinality(Taken(h)) \in Nat
<1>1. Taken(h) \subseteq tasks
  BY DEF Taken, Live
<1>2. IsFiniteSet(Taken(h))
  BY <1>1, FS_Subset DEF LimitsType
<1> QED BY <1>2, FS_CardinalityType

\* One task takes the place of another, of the same delivery.
LEMMA Replaced ==
    ASSUME NEW S, IsFiniteSet(S), NEW x \in S, NEW y
    PROVE  /\ IsFiniteSet((S \ {x}) \cup {y})
           /\ Cardinality((S \ {x}) \cup {y}) <= Cardinality(S)
<1>1. IsFiniteSet(S \ {x}) /\ Cardinality(S \ {x}) = Cardinality(S) - 1
  BY FS_RemoveElement
<1>2. /\ IsFiniteSet((S \ {x}) \cup {y})
      /\ \/ Cardinality((S \ {x}) \cup {y}) = Cardinality(S \ {x})
         \/ Cardinality((S \ {x}) \cup {y}) = Cardinality(S \ {x}) + 1
  BY <1>1, FS_AddElement
<1>3. Cardinality(S) \in Nat
  BY FS_CardinalityType
<1> QED BY <1>1, <1>2, <1>3

\* No fewer permits are left.
LEMMA PermitsLeft ==
    ASSUME LimitsInv, UNCHANGED builder,
           \A h \in HandlerIds : /\ Cardinality(Taken(h)') \in Nat
                                 /\ Cardinality(Taken(h)') <= Cardinality(Taken(h))
    PROVE  PermitsCounted'
<1> SUFFICES ASSUME NEW h \in HandlerIds, Ready, LimitOf(h) # None
             PROVE  Cardinality(Taken(h)') <= LimitOf(h)
  <2>1. Ready' = Ready /\ \A h \in HandlerIds : LimitOf(h)' = LimitOf(h)
    BY SameBuild DEF builder, Ready
  <2> QED BY <2>1 DEF PermitsCounted
<1>1. LimitOf(h) \in Nat
  BY LimitFacts DEF LimitsInv, LimitsType, Checked
<1>2. Cardinality(Taken(h)) <= LimitOf(h) /\ Cardinality(Taken(h)) \in Nat
  BY TakenFinite DEF LimitsInv, PermitsCounted
<1> QED BY <1>1, <1>2

\* Nothing but the tasks and the jobs changes, and no job disappears.
LEMMA WorkerStep ==
    ASSUME LimitsInv, UNCHANGED <<builder, deploys, events, keyed, legacy>>,
           jobs' \in [Deliveries -> Job], tasks' \subseteq WorkerTask, IsFiniteSet(tasks'),
           tasks' # {} => Ready,
           \A d \in Deliveries : (jobs'[d].status = "absent") <=> (jobs[d].status = "absent"),
           \A t \in tasks' : jobs[t.delivery].status # "absent",
           PermitsCounted'
    PROVE  LimitsInv'
<1>0. UNCHANGED <<config, pending, outcome>>
  BY DEF builder
<1>1. LimitsType'
  BY <1>0 DEF LimitsInv, LimitsType, BuilderType
<1>2. Checked'
  BY <1>0, SameBuild DEF LimitsInv, Checked, NoEntryError, Ready
<1>3. JobsDispatched'
  BY <1>0, SameBuild DEF LimitsInv, JobsDispatched
<1>4. NoneFromFuture'
  BY DEF LimitsInv, NoneFromFuture
<1>5. TasksHaveJobs'
  BY <1>1 DEF TasksHaveJobs, LimitsType, WorkerTask
<1> QED BY <1>1, <1>2, <1>3, <1>4, <1>5 DEF LimitsInv

-----------------------------------------------------------------------------
(* The invariant is inductive.                                             *)

LEMMA InitLimits == Init => LimitsInv
<1> SUFFICES ASSUME Init PROVE LimitsInv
  OBVIOUS
<1> USE DEF Init, BuilderInit
<1>1. BuilderType /\ ~Ready
  BY DEF BuilderType, DefaultConfig, OutboxConfig, Ready
<1>2. NoJob \in Job /\ NoJob.status = "absent"
  BY DEF NoJob, Job
<1>3. \A d \in Deliveries : jobs[d].status = "absent"
  BY <1>2
<1>4. LimitsType
  <2>1. jobs \in [Deliveries -> Job]
    BY <1>2
  <2>2. events \in [Events -> [type : EventTypes \cup {"none"}, by : Nat]] /\ deploys \in Nat
    OBVIOUS
  <2> QED BY <1>1, <2>1, <2>2, FS_EmptySet DEF LimitsType
<1>5. Checked /\ JobsDispatched /\ TasksHaveJobs /\ PermitsCounted
  BY <1>1, <1>3 DEF Checked, JobsDispatched, TasksHaveJobs, PermitsCounted
<1>6. NoneFromFuture
  BY DEF NoneFromFuture
<1> QED BY <1>4, <1>5, <1>6 DEF LimitsInv

LEMMA RedeployOK == ASSUME LimitsInv, NEW p \in Plans, Redeploy(p) PROVE LimitsInv'
<1>1. /\ deploys' = deploys + 1 /\ config' = p.config /\ pending' = p.handlers
      /\ outcome' = "building" /\ tasks' = {}
      /\ UNCHANGED <<events, jobs, keyed, legacy>>
  BY DEF Redeploy
<1>2. p.config \in OutboxConfig /\ p.handlers \in Seq(PendingHandler)
  BY ConcurrencyLimitsAssumption
<1>3. LimitsType'
  <2>1. BuilderType'
    BY <1>1, <1>2 DEF BuilderType
  <2> QED BY <1>1, <2>1, FS_EmptySet DEF LimitsInv, LimitsType
<1>4. ~Ready'
  BY <1>1 DEF Ready
<1>5. Checked' /\ TasksHaveJobs' /\ PermitsCounted'
  BY <1>1, <1>4 DEF Checked, TasksHaveJobs, PermitsCounted
<1>6. \A e \in Events : events[e].by \in Nat /\ events[e].by <= deploys /\ deploys \in Nat
  BY DEF LimitsInv, LimitsType, NoneFromFuture
<1>7. NoneFromFuture'
  BY <1>1, <1>6 DEF NoneFromFuture
<1>8. JobsDispatched'
  <2> SUFFICES ASSUME NEW d \in Deliveries, jobs[d].status # "absent"
               PROVE  /\ d \in keyed \cup legacy /\ events[d[1]].type # "none"
                      /\ events[d[1]].by # deploys'
    BY <1>1 DEF JobsDispatched
  <2>1. d[1] \in Events
    BY DEF Deliveries
  <2> QED BY <1>1, <1>6, <2>1 DEF LimitsInv, JobsDispatched
<1> QED BY <1>3, <1>5, <1>7, <1>8 DEF LimitsInv

LEMMA BuildOK == ASSUME LimitsInv, Build, UNCHANGED queue PROVE LimitsInv'
<1>1. UNCHANGED <<config, pending, deploys, events, jobs, keyed, legacy, tasks>> /\ outcome = "building"
  BY DEF Build, queue
<1>2. PICK result \in BuildErrors \cup {"ready"} : BuildOutcome(result) /\ outcome' = result
  BY DEF Build
<1>3. LimitsType'
  BY <1>1, <1>2 DEF LimitsInv, LimitsType, BuilderType
<1>4. tasks = {}
  BY <1>1 DEF LimitsInv, Checked, Ready
<1>5. ASSUME Ready', NEW i \in DOMAIN pending PROVE EntryError(i) = "none"
  <2>1. result = "ready"
    BY <1>2, <1>5 DEF Ready
  <2>2. \A j \in DOMAIN pending : EntryError(j) # "ready"
    BY EntryErrorFacts DEF LimitsInv, LimitsType, BuildErrors
  <2> QED BY <1>2, <1>5, <2>1, <2>2 DEF BuildOutcome
<1>6. Checked'
  BY <1>1, <1>4, <1>5, SameBuild DEF Checked, NoEntryError
<1>7. JobsDispatched'
  BY <1>1, SameBuild DEF LimitsInv, JobsDispatched
<1>8. NoneFromFuture' /\ TasksHaveJobs'
  BY <1>1 DEF LimitsInv, NoneFromFuture, TasksHaveJobs
<1>9. PermitsCounted'
  <2> SUFFICES ASSUME NEW h \in HandlerIds, Ready', LimitOf(h)' # None
               PROVE  Cardinality(Taken(h)') <= LimitOf(h)'
    BY DEF PermitsCounted
  <2>1. Taken(h)' = {}
    BY <1>1, <1>4 DEF Taken, Live
  <2>2. LimitOf(h)' \in Nat
    <3>1. NoEntryError
      BY <1>5 DEF NoEntryError
    <3>2. LimitOf(h) \in Nat \cup {None}
      BY <3>1, LimitFacts DEF LimitsInv, LimitsType
    <3>3. LimitOf(h)' = LimitOf(h)
      BY <1>1, SameBuild
    <3> QED BY <3>2, <3>3
  <2> QED BY <2>1, <2>2, FS_EmptySet
<1> QED BY <1>3, <1>6, <1>7, <1>8, <1>9 DEF LimitsInv

\* The event is new, so no task of it is there yet.
LEMMA DispatchOK ==
    ASSUME LimitsInv, NEW e \in Events, NEW ty \in EventTypes, Dispatch(e, ty) PROVE LimitsInv'
<1> DEFINE fanout == {e} \X HandlersFor(ty)
<1>1. /\ Ready /\ events[e].type = "none"
      /\ events' = [events EXCEPT ![e] = [type |-> ty, by |-> deploys]]
      /\ jobs' = [d \in Deliveries |-> IF d \in fanout THEN PushedJob ELSE jobs[d]]
      /\ keyed' = keyed \cup {d \in fanout : HasKey(HandlerOf(d))}
      /\ legacy' = legacy \cup {d \in fanout : LimitOf(HandlerOf(d)) = None}
      /\ UNCHANGED <<builder, deploys, tasks>>
  BY DEF Dispatch
<1>2. UNCHANGED <<config, pending, outcome>>
  BY <1>1 DEF builder
<1>3. ty # "none"
  BY ConcurrencyLimitsAssumption
<1>4. PushedJob \in Job /\ PushedJob.status = "queued"
  BY DEF PushedJob, NoJob, Job
<1>5. events \in [Events -> [type : EventTypes \cup {"none"}, by : Nat]] /\ deploys \in Nat
  BY DEF LimitsInv, LimitsType
<1>6. /\ events'[e].type = ty /\ events'[e].by = deploys
      /\ \A x \in Events \ {e} : events'[x] = events[x]
  BY <1>1, <1>5
<1>7. LimitsType'
  <2>1. BuilderType' /\ deploys' \in Nat /\ tasks' \subseteq WorkerTask /\ IsFiniteSet(tasks')
    BY <1>1, <1>2 DEF LimitsInv, LimitsType, BuilderType
  <2>2. jobs' \in [Deliveries -> Job]
    BY <1>1, <1>4 DEF LimitsInv, LimitsType
  <2>3. events' \in [Events -> [type : EventTypes \cup {"none"}, by : Nat]]
    BY <1>1, <1>5
  <2> QED BY <2>1, <2>2, <2>3 DEF LimitsType
<1>8. Checked'
  BY <1>1, <1>2, SameBuild DEF LimitsInv, Checked, NoEntryError, Ready
<1>9. ASSUME NEW d \in Deliveries, jobs'[d].status # "absent"
      PROVE  /\ d \in keyed' \cup legacy' /\ events'[d[1]].type # "none"
             /\ events'[d[1]].by = deploys' => HandlerOf(d) \in HandlersFor(events'[d[1]].type)
  <2>0. d[1] \in Events
    BY DEF Deliveries
  <2>1. CASE d \in fanout
    <3>1. d[1] = e /\ HandlerOf(d) \in HandlersFor(ty)
      BY <2>1 DEF HandlerOf
    <3>2. d \in keyed' \cup legacy'
      BY <1>1, <2>1 DEF HasKey
    <3> QED BY <1>3, <1>6, <3>1, <3>2
  <2>2. CASE d \notin fanout
    <3>1. jobs[d].status # "absent"
      BY <1>1, <1>9, <2>2
    <3>2. /\ d \in keyed \cup legacy /\ events[d[1]].type # "none"
          /\ events[d[1]].by = deploys => HandlerOf(d) \in HandlersFor(events[d[1]].type)
      BY <3>1 DEF LimitsInv, JobsDispatched
    <3>3. events'[d[1]] = events[d[1]]
      BY <1>1, <1>6, <2>0, <3>2
    <3> QED BY <1>1, <3>2, <3>3
  <2> QED BY <2>1, <2>2
<1>10. JobsDispatched'
  BY <1>2, <1>9 DEF JobsDispatched, HandlersFor, HandlerOf
<1>11. NoneFromFuture'
  <2>1. \A x \in Events : events'[x].by = IF x = e THEN deploys ELSE events[x].by
    BY <1>6
  <2> QED BY <1>1, <1>5, <2>1 DEF LimitsInv, NoneFromFuture
<1>12. TasksHaveJobs'
  <2> SUFFICES ASSUME NEW t \in tasks PROVE jobs'[t.delivery].status # "absent"
    BY <1>1 DEF TasksHaveJobs
  <2>1. t.delivery \in Deliveries /\ jobs[t.delivery].status # "absent"
    BY DEF LimitsInv, LimitsType, WorkerTask, TasksHaveJobs
  <2> QED BY <1>1, <1>4, <2>1
<1>13. PermitsCounted'
  <2>1. ASSUME NEW h \in HandlerIds PROVE Taken(h)' = Taken(h)
    <3>1. ASSUME NEW t \in tasks PROVE t.delivery \in keyed' <=> t.delivery \in keyed
      <4>1. t.delivery \in Deliveries /\ events[t.delivery[1]].type # "none"
        BY DEF LimitsInv, LimitsType, WorkerTask, TasksHaveJobs, JobsDispatched
      <4>2. t.delivery \notin fanout
        BY <1>1, <4>1
      <4> QED BY <1>1, <4>2
    <3> QED BY <1>1, <3>1 DEF Taken, Live
  <2>2. \A h \in HandlerIds : Cardinality(Taken(h)) \in Nat
    BY TakenFinite DEF LimitsInv
  <2> QED BY <1>1, <2>1, <2>2, PermitsLeft
<1> QED BY <1>7, <1>8, <1>10, <1>11, <1>12, <1>13 DEF LimitsInv

\* A claim of a keyed job takes one permit more, and there was one.
LEMMA ClaimOK == ASSUME LimitsInv, NEW d \in Deliveries, Claim(d) PROVE LimitsInv'
<1> DEFINE new == [delivery |-> d, token |-> jobs'[d].token, blocked |-> FALSE]
<1>1. /\ Ready /\ jobs[d].status = "queued" /\ Admits(d)
      /\ jobs' = [jobs EXCEPT ![d] = ClaimJob(jobs[d])] /\ tasks' = tasks \cup {new}
      /\ UNCHANGED <<builder, deploys, events, keyed, legacy>>
  BY DEF Claim
<1>2. /\ jobs \in [Deliveries -> Job] /\ tasks \subseteq WorkerTask /\ IsFiniteSet(tasks)
  BY DEF LimitsInv, LimitsType
<1>3. ClaimJob(jobs[d]) \in Job /\ ClaimJob(jobs[d]).status = "leased"
  BY <1>2 DEF ClaimJob, Job
<1>4. jobs' \in [Deliveries -> Job] /\ jobs'[d].token \in Nat
  BY <1>1, <1>2, <1>3 DEF Job
<1>5. new \in WorkerTask
  BY <1>4, Zenon DEF WorkerTask
<1>6. new.delivery = d
  OBVIOUS
<1>7. tasks' \subseteq WorkerTask
  BY <1>1, <1>2, <1>5
<1>8. IsFiniteSet(tasks')
  BY <1>1, <1>2, FS_AddElement
<1>9. \A x \in Deliveries : (jobs'[x].status = "absent") <=> (jobs[x].status = "absent")
  BY <1>1, <1>2, <1>3
<1> HIDE DEF new
<1>10. \A t \in tasks' : jobs[t.delivery].status # "absent"
  BY <1>1, <1>6 DEF LimitsInv, TasksHaveJobs
<1>11. ASSUME NEW h \in HandlerIds, Ready, LimitOf(h) # None
       PROVE  Cardinality(Taken(h)') <= LimitOf(h)
  <2>1. LimitOf(h) \in Nat
    BY <1>11, LimitFacts DEF LimitsInv, LimitsType, Checked
  <2>2. /\ Cardinality(Taken(h)) <= LimitOf(h)
        /\ Cardinality(Taken(h)) \in Nat /\ IsFiniteSet(Taken(h))
    BY <1>11, TakenFinite DEF LimitsInv, PermitsCounted
  <2>3. CASE h = HandlerOf(d) /\ d \in keyed
    <3>1. Cardinality(Taken(h)) < LimitOf(h)
      BY <1>1, <1>11, <2>3 DEF Admits, InstalledLimit, Taken
    <3>2. Taken(h)' = Taken(h) \cup {new}
      BY <1>1, <1>6, <2>3 DEF Taken, Live
    <3>3. \/ Cardinality(Taken(h)') = Cardinality(Taken(h))
          \/ Cardinality(Taken(h)') = Cardinality(Taken(h)) + 1
      BY <2>2, <3>2, FS_AddElement
    <3> QED BY <2>1, <2>2, <3>1, <3>3
  <2>4. CASE ~(h = HandlerOf(d) /\ d \in keyed)
    <3>1. Taken(h)' = Taken(h)
      BY <1>1, <1>6, <2>4 DEF Taken, Live
    <3> QED BY <2>2, <3>1
  <2> QED BY <2>3, <2>4
<1>12. PermitsCounted'
  <2>1. (Ready' <=> Ready) /\ \A h \in HandlerIds : LimitOf(h)' = LimitOf(h)
    BY <1>1, SameBuild DEF builder, Ready
  <2> QED BY <1>11, <2>1 DEF PermitsCounted
<1> QED BY <1>1, <1>4, <1>7, <1>8, <1>9, <1>10, <1>12, WorkerStep

LEMMA BlocksOK == ASSUME LimitsInv, NEW t \in tasks, Blocks(t) PROVE LimitsInv'
<1> DEFINE new == [t EXCEPT !.blocked = TRUE]
<1>1. /\ tasks' = (tasks \ {t}) \cup {new}
      /\ UNCHANGED <<builder, deploys, events, jobs, keyed, legacy>>
  BY DEF Blocks
<1>2. /\ jobs \in [Deliveries -> Job] /\ tasks \subseteq WorkerTask /\ IsFiniteSet(tasks)
  BY DEF LimitsInv, LimitsType
<1>3. new \in WorkerTask /\ new.delivery = t.delivery
  BY <1>2 DEF WorkerTask
<1>4. tasks' \subseteq WorkerTask
  BY <1>1, <1>2, <1>3
<1>5. IsFiniteSet(tasks')
  BY <1>1, <1>2, Replaced
<1> HIDE DEF new
<1>6. \A x \in tasks' : jobs[x.delivery].status # "absent"
  BY <1>1, <1>3 DEF LimitsInv, TasksHaveJobs
<1>7. Ready
  BY DEF LimitsInv, Checked
<1>8. ASSUME NEW h \in HandlerIds
      PROVE  Cardinality(Taken(h)') \in Nat /\ Cardinality(Taken(h)') <= Cardinality(Taken(h))
  <2>1. IsFiniteSet(Taken(h)) /\ Cardinality(Taken(h)) \in Nat
    BY TakenFinite DEF LimitsInv
  <2>2. CASE t \in Taken(h)
    <3>1. Taken(h)' = (Taken(h) \ {t}) \cup {new}
      BY <1>1, <1>3, <2>2 DEF Taken, Live
    <3> QED BY <2>1, <2>2, <3>1, Replaced, FS_CardinalityType
  <2>3. CASE t \notin Taken(h)
    <3>1. Taken(h)' = Taken(h)
      BY <1>1, <1>3, <2>3 DEF Taken, Live
    <3> QED BY <2>1, <3>1
  <2> QED BY <2>2, <2>3
<1>9. PermitsCounted'
  BY <1>1, <1>8, PermitsLeft
<1> QED BY <1>1, <1>2, <1>4, <1>5, <1>6, <1>7, <1>9, WorkerStep

\* Tasks only go.
LEMMA FewerTasks ==
    ASSUME LimitsInv, UNCHANGED <<builder, deploys, events, keyed, legacy>>,
           jobs' \in [Deliveries -> Job], tasks' \subseteq tasks,
           \A d \in Deliveries : (jobs'[d].status = "absent") <=> (jobs[d].status = "absent")
    PROVE  LimitsInv'
<1>1. tasks' \subseteq WorkerTask /\ IsFiniteSet(tasks')
  BY FS_Subset DEF LimitsInv, LimitsType
<1>2. (tasks' # {} => Ready) /\ \A t \in tasks' : jobs[t.delivery].status # "absent"
  BY DEF LimitsInv, Checked, TasksHaveJobs
<1>3. ASSUME NEW h \in HandlerIds
      PROVE  Cardinality(Taken(h)') \in Nat /\ Cardinality(Taken(h)') <= Cardinality(Taken(h))
  <2>1. IsFiniteSet(Taken(h))
    BY TakenFinite DEF LimitsInv
  <2>2. Taken(h)' \subseteq Taken(h)
    BY DEF Taken, Live
  <2> QED BY <2>1, <2>2, FS_Subset, FS_CardinalityType
<1>4. PermitsCounted'
  BY <1>3, PermitsLeft
<1> QED BY <1>1, <1>2, <1>4, WorkerStep

LEMMA TaskEndsOK == ASSUME LimitsInv, NEW d \in Deliveries, TaskEnds(d) PROVE LimitsInv'
<1>1. PICK t \in tasks : t.delivery = d /\ Ends(t)
  BY DEF TaskEnds
<1>2. PICK verdict \in Verdicts :
        jobs' = [jobs EXCEPT ![d] = ReportJob(jobs[d], t.token, verdict, config.max_attempts)]
  BY <1>1 DEF Ends
<1>3. tasks' = tasks \ {t} /\ UNCHANGED <<builder, deploys, events, keyed, legacy>>
  BY <1>1 DEF Ends
<1>4. jobs \in [Deliveries -> Job]
  BY DEF LimitsInv, LimitsType
<1>5. /\ ReportJob(jobs[d], t.token, verdict, config.max_attempts) \in Job
      /\ ReportJob(jobs[d], t.token, verdict, config.max_attempts).status = "absent"
           <=> jobs[d].status = "absent"
  BY <1>4 DEF ReportJob, Verdicts, Job
<1>6. jobs' \in [Deliveries -> Job]
  BY <1>2, <1>4, <1>5
<1>7. \A x \in Deliveries : (jobs'[x].status = "absent") <=> (jobs[x].status = "absent")
  BY <1>2, <1>4, <1>5
<1> QED BY <1>3, <1>6, <1>7, FewerTasks

LEMMA ReapOK == ASSUME LimitsInv, NEW d \in Deliveries, Reap(d) PROVE LimitsInv'
<1>1. PICK mode \in ReapModes : jobs' = [jobs EXCEPT ![d] = ReapJob(jobs[d], mode)]
  BY DEF Reap
<1>2. jobs[d].status = "leased" /\ UNCHANGED <<builder, deploys, events, keyed, legacy, tasks>>
  BY DEF Reap
<1>3. jobs \in [Deliveries -> Job]
  BY DEF LimitsInv, LimitsType
<1>4. ReapJob(jobs[d], mode) \in Job /\ ReapJob(jobs[d], mode).status = "queued"
  BY <1>3 DEF ReapJob, Job
<1>5. jobs' \in [Deliveries -> Job]
  BY <1>1, <1>3, <1>4
<1>6. \A x \in Deliveries : (jobs'[x].status = "absent") <=> (jobs[x].status = "absent")
  BY <1>1, <1>2, <1>3, <1>4
<1> QED BY <1>2, <1>5, <1>6, FewerTasks

LEMMA LimitsStep == LimitsInv /\ [Next]_vars => LimitsInv'
<1> SUFFICES ASSUME LimitsInv, [Next]_vars PROVE LimitsInv'
  OBVIOUS
<1>1. CASE UNCHANGED vars
  <2>1. UNCHANGED <<builder, deploys, events, keyed, legacy>> /\ jobs' = jobs /\ tasks' = tasks
    BY <1>1 DEF vars, queue
  <2>2. jobs' \in [Deliveries -> Job]
    BY <2>1 DEF LimitsInv, LimitsType
  <2> QED BY <2>1, <2>2, FewerTasks
<1>2. CASE Next
  BY <1>2, RedeployOK, BuildOK, DispatchOK, ClaimOK, TaskEndsOK, ReapOK, BlocksOK DEF Next
<1> QED BY <1>1, <1>2

\* Permits, keys and events stay accounted for through every dispatch, claim,
\* blocked handler, reaped lease and redeploy.
THEOREM LimitsInvHolds == Spec => []LimitsInv
<1>1. LimitsInv /\ [Next]_vars => LimitsInv'
  BY LimitsStep
<1> QED BY InitLimits, <1>1, PTL DEF Spec

-----------------------------------------------------------------------------
(* The theorems.                                                           *)

\* README.md:361, "at most n tasks for that handler run concurrently", for
\* every limit, handler set and sequence of deployments: the keys dispatch
\* stamps and the limits start() hands to pgwq keep a handler within its
\* limit, but for jobs that were dispatched while it had none.
THEOREM OverLimitIsLegacyHolds == Spec => []OverLimitIsLegacy
<1>1. ASSUME LimitsInv, NEW h \in HandlerIds, Ready, LimitOf(h) # None
      PROVE  Cardinality({t \in Live(h) : t.delivery \notin legacy}) <= LimitOf(h)
  <2> DEFINE S == {t \in Live(h) : t.delivery \notin legacy}
  <2>1. \A t \in tasks : t.delivery \in keyed \cup legacy
    BY <1>1 DEF LimitsInv, LimitsType, WorkerTask, TasksHaveJobs, JobsDispatched
  <2>2. S \subseteq Taken(h)
    BY <2>1 DEF Taken, Live
  <2>3. IsFiniteSet(Taken(h)) /\ Cardinality(Taken(h)) \in Nat
    BY <1>1, TakenFinite DEF LimitsInv
  <2>4. Cardinality(S) <= Cardinality(Taken(h)) /\ Cardinality(S) \in Nat
    BY <2>2, <2>3, FS_Subset, FS_CardinalityType
  <2>5. LimitOf(h) \in Nat
    BY <1>1, LimitFacts DEF LimitsInv, LimitsType, Checked
  <2>6. Cardinality(Taken(h)) <= LimitOf(h)
    BY <1>1 DEF LimitsInv, PermitsCounted
  <2> HIDE DEF S
  <2>7. Cardinality(S) <= LimitOf(h)
    BY <2>3, <2>4, <2>5, <2>6
  <2> QED BY <2>7 DEF S
<1>2. LimitsInv => OverLimitIsLegacy
  BY <1>1 DEF OverLimitIsLegacy
<1> QED BY <1>2, LimitsInvHolds, PTL

\* handle_envelope looks a handler up by its id alone: within one deployment
\* the id determines the event type (build() refuses a duplicate id), so a
\* handler meets an event of another type only from an earlier deployment.
THEOREM MisdirectedOnlyByRedeployHolds == Spec => []MisdirectedOnlyByRedeploy
<1>1. ASSUME LimitsInv, NEW t \in tasks, Lookup(HandlerOf(t.delivery)) # {},
             Registered(HandlerOf(t.delivery)).event_type # events[t.delivery[1]].type
      PROVE  events[t.delivery[1]].by < deploys
  <2> DEFINE d == t.delivery
             h == HandlerOf(d)
             ty == events[d[1]].type
  <2>1. d \in Deliveries /\ d[1] \in Events /\ h \in HandlerIds
    BY <1>1 DEF LimitsInv, LimitsType, WorkerTask, Deliveries, HandlerOf
  <2>2. Ready /\ jobs[d].status # "absent"
    BY <1>1 DEF LimitsInv, Checked, TasksHaveJobs
  <2>3. ASSUME h \in HandlersFor(ty) PROVE FALSE
    <3>1. PICK j \in DOMAIN pending : pending[j].event_type = ty /\ pending[j].handler_id = h
      BY <2>3 DEF HandlersFor
    <3>2. j \in Lookup(h)
      BY <3>1 DEF Lookup
    <3>3. Registered(h) = pending[j]
      BY <1>1, <2>1, <2>2, <3>2, OneRegistration DEF LimitsInv, LimitsType, Checked
    <3> QED BY <1>1, <3>1, <3>3
  <2>4. events[d[1]].by # deploys
    BY <1>1, <2>1, <2>2, <2>3 DEF LimitsInv, JobsDispatched
  <2>5. events[d[1]].by \in Nat /\ deploys \in Nat /\ events[d[1]].by <= deploys
    BY <1>1, <2>1 DEF LimitsInv, LimitsType, NoneFromFuture
  <2> QED BY <2>4, <2>5
<1>2. LimitsInv => MisdirectedOnlyByRedeploy
  BY <1>1 DEF MisdirectedOnlyByRedeploy
<1> QED BY <1>2, LimitsInvHolds, PTL
=============================================================================
