--------------------------- MODULE DeadlinesProofs --------------------------
(***************************************************************************)
(* For every configuration and registration the builder accepts, every     *)
(* bound and every schedule: the wrapper's budget and pgwq's lease cover   *)
(* the delivery.  The inductive invariant relates each task's timers to    *)
(* the clock, and its lease to the job's.                                  *)
(***************************************************************************)
EXTENDS Deadlines, TLAPS

\* What a valid configuration gives.
Sound == config.handler_timeout < config.lease_timeout /\ ~BelowFloor(config.handler_timeout)

\* build() has checked every registration.
Checked == Ready => \A i \in DOMAIN pending : ~TimeoutInvalid(pending[i])

\* Jobs and tasks exist only once the delivery was dispatched.
Dispatched ==
    /\ handler # 0 => Ready
    /\ handler = 0 => job.status = "absent" /\ \A n \in Claims : tasks[n].pc = "idle"

\* The timers of a task against the clock.
TimersOK(t) ==
    /\ t.pc = "spawned" => t.claimed <= now
    /\ t.pc \in Timed => t.claimed <= t.polled /\ t.polled <= now
    /\ t.pc \in Timed /\ ~t.blocked => now <= t.polled + config.handler_timeout
    /\ t.pc = "handler" => t.since = t.polled + t.used
    /\ t.pc = "handler" /\ ~t.blocked => now <= t.since + OurTimeout(handler)
    /\ t.pc \in {"mark", "marking"} /\ ~t.blocked =>
         t.since <= now /\ t.since <= t.polled + t.used + OurTimeout(handler)

\* The lease of a task against the job's.
LeaseOK(n, t) ==
    /\ t.pc # "idle" => n <= job.token
    /\ t.pc \in Timed \cup {"spawned"} /\ Owner(n) => job.until = t.claimed + config.lease_timeout
    /\ t.pc = "spawned" /\ ~Owner(n) => now >= t.claimed + config.lease_timeout
    /\ /\ t.pc \in Timed /\ ~t.blocked
       /\ t.polled - t.claimed < Slack \/ t.polled = t.claimed
       => Owner(n)

DeadlinesInv ==
    /\ TypeOK
    /\ Sound /\ Checked /\ Dispatched
    /\ \A n \in Claims : TimersOK(tasks[n]) /\ LeaseOK(n, tasks[n])

-----------------------------------------------------------------------------
(* The builder.                                                            *)

LEMMA EntryErrorFacts ==
    ASSUME BuilderType, NEW i \in DOMAIN pending
    PROVE  /\ EntryError(i) \in BuildErrors \cup {"none"}
           /\ EntryError(i) = "none" => ~TimeoutInvalid(pending[i])
BY BuilderAssumption DEF BuilderType, EntryError, BuildErrors, PendingHandler, MAX_HANDLER_ID_BYTES

LEMMA OurTimeoutFacts ==
    ASSUME BuilderType, Sound, Checked, Ready, NEW i \in DOMAIN pending
    PROVE  /\ OurTimeout(i) \in Nat
           /\ OurTimeout(i) + HANDLER_CLEANUP_BUDGET <= config.handler_timeout
<1>1. config.handler_timeout \in Nat
  BY DEF BuilderType, OutboxConfig
<1>2. pending[i].handler_timeout \in Nat \cup {None}
  <2>1. pending[i] \in PendingHandler
    BY DEF BuilderType
  <2>2. pending[i].handler_timeout \in Timeouts
    BY <2>1 DEF PendingHandler
  <2> QED BY <2>2, BuilderAssumption
<1>3. ~TimeoutInvalid(pending[i])
  BY DEF Checked
<1> QED
  BY <1>1, <1>2, <1>3 DEF OurTimeout, EffectiveTimeout, TimeoutInvalid, Sound, BelowFloor,
     HANDLER_CLEANUP_BUDGET, MIN_TIMEOUT, None

LEMMA BuilderStep ==
    ASSUME BuilderType, Sound, Checked, BuilderNext
    PROVE  BuilderType' /\ Sound' /\ Checked' /\ outcome = "building"
           /\ Len(pending') \in Nat /\ Len(pending) <= Len(pending')
<1>1. ASSUME NEW c \in Configs, SetConfig(c)
      PROVE  BuilderType' /\ Sound' /\ Checked' /\ outcome = "building" /\ pending' = pending
  <2>1. c \in OutboxConfig
    BY BuilderAssumption
  <2>2. CASE ConfigInvalid(c)
    BY <1>1, <2>2 DEF SetConfig, BuilderType, Sound, Checked, Ready, BelowFloor, BuildErrors
  <2>3. CASE ~ConfigInvalid(c)
    <3>1. config' = c /\ outcome' = outcome /\ pending' = pending /\ outcome = "building"
      BY <1>1, <2>3 DEF SetConfig
    <3>2. Sound'
      BY <2>1, <2>3, <3>1 DEF ConfigInvalid, Sound, BelowFloor, OutboxConfig
    <3> QED
      BY <2>1, <3>1, <3>2 DEF BuilderType, Checked, Ready
  <2> QED BY <2>2, <2>3
<1>2. ASSUME NEW p \in PendingHandler, RegisterHandler(p)
      PROVE  BuilderType' /\ Sound' /\ Checked' /\ outcome = "building"
             /\ Len(pending') = Len(pending) + 1
  BY <1>2 DEF RegisterHandler, BuilderType, Sound, Checked, Ready, BelowFloor
<1>3. ASSUME Build
      PROVE  BuilderType' /\ Sound' /\ Checked' /\ outcome = "building" /\ pending' = pending
  <2>1. PICK result \in BuildErrors \cup {"ready"} : BuildOutcome(result) /\ outcome' = result
    BY <1>3 DEF Build
  <2>2. UNCHANGED <<config, pending>> /\ outcome = "building"
    BY <1>3 DEF Build
  <2>3. BuilderType' /\ Sound'
    BY <2>1, <2>2 DEF BuilderType, Sound, BelowFloor
  <2>4. ASSUME Ready', NEW i \in DOMAIN pending PROVE ~TimeoutInvalid(pending[i])
    <3>1. result = "ready"
      BY <2>1, <2>4 DEF Ready
    <3>2. \A j \in DOMAIN pending : EntryError(j) # "ready"
      BY EntryErrorFacts DEF BuildErrors
    <3>3. EntryError(i) = "none"
      BY <2>1, <3>1, <3>2 DEF BuildOutcome
    <3> QED BY <3>3, EntryErrorFacts
  <2>5. Checked'
    BY <2>2, <2>4 DEF Checked, TimeoutInvalid
  <2> QED BY <2>2, <2>3, <2>5
<1>4. Len(pending) \in Nat /\ Len(pending') \in Nat
  BY <1>1, <1>2, <1>3 DEF BuilderNext, BuilderType
<1> QED BY <1>1, <1>2, <1>3, <1>4 DEF BuilderNext

-----------------------------------------------------------------------------
(* Steps of one task, with everything else as it was.                      *)

LEMMA InitOK == Init => DeadlinesInv
<1> SUFFICES ASSUME Init PROVE DeadlinesInv
  OBVIOUS
<1> USE DEF Init, BuilderInit
<1>1. BuilderType /\ Sound /\ Checked
  BY DEF BuilderType, Sound, Checked, Ready, DefaultConfig, OutboxConfig, BelowFloor,
     HANDLER_CLEANUP_BUDGET
<1>2. NoTask \in Task
  BY DEF NoTask, Task, Phases, Timed, Time
<1>3. row \in Row
  BY DEF NewRow, Row, Time
<1>4. TypeOK
  <2>1. tasks \in [Claims -> Task]
    BY <1>2
  <2>2. late \in BOOLEAN
    OBVIOUS
  <2>3. now \in Time /\ handler \in 0..Len(pending) /\ crashes \in Nat
    BY DEF Time
  <2>4. job \in [status : {"absent", "queued", "leased", "ended"}, token : Nat, until : Time]
    BY DEF Time
  <2> QED BY <1>1, <1>3, <2>1, <2>2, <2>3, <2>4 DEF TypeOK
<1>5. Dispatched
  BY DEF Dispatched, NoTask
<1>6. ASSUME NEW n \in Claims PROVE TimersOK(tasks[n]) /\ LeaseOK(n, tasks[n])
  BY DEF TimersOK, LeaseOK, NoTask, Timed
<1> QED BY <1>1, <1>4, <1>5, <1>6 DEF DeadlinesInv

\* A step that replaces one task, and perhaps stamps the row.
LEMMA BecomeOK ==
    ASSUME DeadlinesInv, NEW n \in Claims, NEW t \in Task, Become(n, t),
           handler # 0, TimersOK(t), LeaseOK(n, t), row' \in Row, late' \in BOOLEAN
    PROVE  DeadlinesInv'
<1>0. /\ tasks' = [tasks EXCEPT ![n] = t]
      /\ UNCHANGED <<config, pending, outcome, now, handler, job, crashes>>
  BY DEF Become, builder
<1>1. TypeOK'
  <2>1. tasks' \in [Claims -> Task]
    BY <1>0 DEF DeadlinesInv, TypeOK
  <2>2. BuilderType'
    BY <1>0 DEF DeadlinesInv, TypeOK, BuilderType
  <2> QED BY <1>0, <2>1, <2>2 DEF DeadlinesInv, TypeOK
<1>2. Sound' /\ Checked' /\ Dispatched'
  <2>1. Sound' /\ Checked'
    BY <1>0 DEF DeadlinesInv, Sound, Checked, Ready, BelowFloor, TimeoutInvalid
  <2>2. Dispatched'
    BY <1>0 DEF DeadlinesInv, Dispatched, Ready
  <2> QED BY <2>1, <2>2
<1>3. ASSUME NEW m \in Claims PROVE (TimersOK(tasks[m]) /\ LeaseOK(m, tasks[m]))'
  <2>1. tasks'[m] = IF m = n THEN t ELSE tasks[m]
    BY <1>0 DEF DeadlinesInv, TypeOK
  <2>2. TimersOK(tasks'[m]) /\ LeaseOK(m, tasks'[m])
    BY <2>1 DEF DeadlinesInv
  <2> QED BY <1>0, <2>2 DEF TimersOK, LeaseOK, Owner, Slack, OurTimeout, EffectiveTimeout
<1> QED BY <1>1, <1>2, <1>3 DEF DeadlinesInv

\* What the invariant says of a task that is not idle.
LEMMA TaskFacts ==
    ASSUME DeadlinesInv, NEW n \in Claims, tasks[n].pc # "idle"
    PROVE  /\ handler # 0 /\ handler \in DOMAIN pending /\ Ready
           /\ tasks[n] \in Task /\ n \in Nat
           /\ now \in Nat /\ config.handler_timeout \in Nat /\ config.lease_timeout \in Nat
           /\ OurTimeout(handler) \in Nat
           /\ OurTimeout(handler) + HANDLER_CLEANUP_BUDGET <= config.handler_timeout
           /\ TimersOK(tasks[n]) /\ LeaseOK(n, tasks[n])
<1>1. handler # 0 /\ Ready
  BY DEF DeadlinesInv, Dispatched
<1>2. handler \in DOMAIN pending
  BY <1>1 DEF DeadlinesInv, TypeOK, BuilderType
<1>3. tasks[n] \in Task /\ n \in Nat /\ now \in Nat
  BY DeadlinesAssumption DEF DeadlinesInv, TypeOK, Claims, Time
<1>4. config.handler_timeout \in Nat /\ config.lease_timeout \in Nat
  BY DEF DeadlinesInv, TypeOK, BuilderType, OutboxConfig
<1>5. BuilderType /\ Sound /\ Checked
  BY DEF DeadlinesInv, TypeOK
<1>6. OurTimeout(handler) \in Nat /\ OurTimeout(handler) + HANDLER_CLEANUP_BUDGET <= config.handler_timeout
  BY <1>1, <1>2, <1>5, OurTimeoutFacts
<1> QED BY <1>1, <1>2, <1>3, <1>4, <1>6 DEF DeadlinesInv

LEMMA RowFacts ==
    ASSUME DeadlinesInv, NEW n \in Claims
    PROVE  /\ row \in Row /\ Stamped(n) \in Row
           /\ \A status \in {"awaiting_retry", "settled"} : Marked(n, status) \in Row
<1>1. row \in Row
  BY DEF DeadlinesInv, TypeOK
<1>2. tasks[n].began \in Time /\ n \in Nat
  BY DeadlinesAssumption DEF DeadlinesInv, TypeOK, Claims, Task
<1>3. Stamped(n) \in Row
  BY <1>1, <1>2 DEF Stamped, Row, Time
<1>4. ASSUME NEW status \in {"awaiting_retry", "settled"} PROVE Marked(n, status) \in Row
  BY <1>1, <1>2 DEF Marked, Row, Time
<1> QED BY <1>1, <1>3, <1>4

\* The wrapper's future is over.
LEMMA ReturnOK ==
    ASSUME DeadlinesInv, NEW n \in Claims, tasks[n].pc # "idle",
           NEW v \in {"ok", "retry", "refused"}, Return(n, v), row' \in Row, late' = late
    PROVE  DeadlinesInv'
<1> DEFINE t == [NoTask EXCEPT !.pc = "report", !.verdict = v]
<1>1. t \in Task
  BY DEF NoTask, Task, Phases, Timed, Time
<1>2. handler # 0 /\ n <= job.token
  BY TaskFacts DEF LeaseOK
<1>3. t.pc = "report"
  BY DEF NoTask
<1>4. TimersOK(t) /\ LeaseOK(n, t)
  BY <1>2, <1>3 DEF TimersOK, LeaseOK, Timed
<1>5. Become(n, t)
  BY DEF Return
<1>6. late' \in BOOLEAN
  BY DEF DeadlinesInv, TypeOK
<1> HIDE DEF t
<1> QED BY <1>1, <1>2, <1>4, <1>5, <1>6, BecomeOK

LEMMA FirstPollOK == ASSUME DeadlinesInv, NEW n \in Claims, FirstPoll(n) PROVE DeadlinesInv'
<1> DEFINE t == [tasks[n] EXCEPT !.pc = "fetch", !.polled = now]
<1>0. tasks[n].pc = "spawned"
  BY DEF FirstPoll
<1>1. /\ handler # 0 /\ tasks[n] \in Task /\ now \in Nat
      /\ config.handler_timeout \in Nat /\ config.lease_timeout \in Nat
      /\ TimersOK(tasks[n]) /\ LeaseOK(n, tasks[n])
  BY <1>0, TaskFacts
<1>2. t \in Task
  BY <1>1 DEF Task, Phases, Timed, Time
<1>3. /\ t.pc = "fetch" /\ t.polled = now /\ t.claimed = tasks[n].claimed
      /\ t.claimed \in Nat
  BY <1>1 DEF Task, Time
<1>4. TimersOK(t)
  BY <1>0, <1>1, <1>3 DEF TimersOK
<1>5. Sound
  BY DEF DeadlinesInv
<1>6. LeaseOK(n, t)
  BY <1>0, <1>1, <1>3, <1>5 DEF LeaseOK, Slack, Sound, BelowFloor, HANDLER_CLEANUP_BUDGET, Timed
<1>7. Become(n, t) /\ row' = row
  BY DEF FirstPoll
<1>8. late' \in BOOLEAN
  BY DEF FirstPoll
<1>9. row' \in Row
  BY <1>7, RowFacts
<1> HIDE DEF t
<1> QED BY <1>1, <1>2, <1>4, <1>6, <1>7, <1>8, <1>9, BecomeOK

\* A step that changes nothing of a task but its phase and its statement's clock.
LEMMA SamePhaseOK ==
    ASSUME DeadlinesInv, NEW n \in Claims, NEW t \in Task, Become(n, t),
           row' = row, late' = late, tasks[n].pc # "idle",
           t.claimed = tasks[n].claimed, t.polled = tasks[n].polled, t.blocked = tasks[n].blocked,
           \/ tasks[n].pc = "fetch" /\ t.pc = "fetching"
           \/ /\ tasks[n].pc = "mark" /\ t.pc = "marking"
              /\ t.since = tasks[n].since /\ t.used = tasks[n].used
    PROVE  DeadlinesInv'
<1>1. handler # 0 /\ TimersOK(tasks[n]) /\ LeaseOK(n, tasks[n])
  BY TaskFacts
<1>2. TimersOK(t)
  BY <1>1 DEF TimersOK, Timed
<1>3. LeaseOK(n, t)
  BY <1>1 DEF LeaseOK, Timed
<1>4. row' \in Row /\ late' \in BOOLEAN
  BY DEF DeadlinesInv, TypeOK
<1> QED BY <1>1, <1>2, <1>3, <1>4, BecomeOK

LEMMA BeginOK ==
    ASSUME DeadlinesInv, NEW n \in Claims, BeginFetch(n) \/ BeginMark(n) PROVE DeadlinesInv'
<1>1. tasks[n].pc # "idle"
  BY DEF BeginFetch, BeginMark
<1>2. tasks[n] \in Task /\ now \in Nat
  BY <1>1, TaskFacts
<1>3. CASE BeginFetch(n)
  <2> DEFINE t == [tasks[n] EXCEPT !.pc = "fetching", !.began = now]
  <2>1. t \in Task
    BY <1>2 DEF Task, Phases, Timed, Time
  <2>2. /\ t.claimed = tasks[n].claimed /\ t.polled = tasks[n].polled
        /\ t.blocked = tasks[n].blocked /\ t.pc = "fetching"
    BY <1>2 DEF Task
  <2>3. tasks[n].pc = "fetch" /\ Become(n, t) /\ row' = row /\ late' = late
    BY <1>3 DEF BeginFetch
  <2> HIDE DEF t
  <2> QED BY <1>1, <2>1, <2>2, <2>3, SamePhaseOK
<1>4. CASE BeginMark(n)
  <2> DEFINE t == [tasks[n] EXCEPT !.pc = "marking", !.began = now]
  <2>1. t \in Task
    BY <1>2 DEF Task, Phases, Timed, Time
  <2>2. /\ t.claimed = tasks[n].claimed /\ t.polled = tasks[n].polled
        /\ t.blocked = tasks[n].blocked /\ t.pc = "marking"
        /\ t.since = tasks[n].since /\ t.used = tasks[n].used
    BY <1>2 DEF Task
  <2>3. tasks[n].pc = "mark" /\ Become(n, t) /\ row' = row /\ late' = late
    BY <1>4 DEF BeginMark
  <2> HIDE DEF t
  <2> QED BY <1>1, <2>1, <2>2, <2>3, SamePhaseOK
<1> QED BY <1>3, <1>4

\* The claim commits: our timer starts now.
LEMMA FetchedOK == ASSUME DeadlinesInv, NEW n \in Claims, Fetched(n) PROVE DeadlinesInv'
<1>0. tasks[n].pc = "fetching" /\ late' = late
  BY DEF Fetched
<1>1. /\ handler # 0 /\ tasks[n] \in Task /\ now \in Nat
      /\ OurTimeout(handler) \in Nat
      /\ TimersOK(tasks[n]) /\ LeaseOK(n, tasks[n])
  BY <1>0, TaskFacts
<1>2. CASE row.status = "settled"
  <2>1. Return(n, "ok") /\ row' = row
    BY <1>2 DEF Fetched
  <2> QED BY <1>0, <2>1, RowFacts, ReturnOK
<1>3. CASE row.status # "settled"
  <2> DEFINE t == [tasks[n] EXCEPT !.pc = "handler", !.since = now, !.began = 0,
                                   !.used = now - tasks[n].polled]
  <2>1. tasks[n].polled \in Nat /\ tasks[n].polled <= now
    BY <1>0, <1>1 DEF Task, Time, TimersOK, Timed
  <2>2. now - tasks[n].polled \in Nat
    BY <1>1, <2>1
  <2>3. t \in Task
    BY <1>1, <2>2 DEF Task, Phases, Timed, Time
  <2>4. /\ t.pc = "handler" /\ t.claimed = tasks[n].claimed /\ t.polled = tasks[n].polled
        /\ t.blocked = tasks[n].blocked /\ t.since = now /\ t.used = now - tasks[n].polled
    BY <1>1 DEF Task
  <2>5. TimersOK(t)
    BY <1>0, <1>1, <2>1, <2>4 DEF TimersOK, Timed
  <2>6. LeaseOK(n, t)
    BY <1>0, <1>1, <2>4 DEF LeaseOK, Timed
  <2>7. Become(n, t) /\ row' = Stamped(n)
    BY <1>3 DEF Fetched
  <2>8. row' \in Row /\ late' \in BOOLEAN
    BY <1>0, <2>7, RowFacts DEF DeadlinesInv, TypeOK
  <2> HIDE DEF t
  <2> QED BY <1>1, <2>3, <2>5, <2>6, <2>7, <2>8, BecomeOK
<1> QED BY <1>2, <1>3

LEMMA HandlerStepOK ==
    ASSUME DeadlinesInv, NEW n \in Claims, Blocks(n) \/ HandlerEnds(n) PROVE DeadlinesInv'
<1>0. tasks[n].pc = "handler" /\ late' = late /\ row' = row
  BY DEF Blocks, HandlerEnds
<1>1. /\ handler # 0 /\ tasks[n] \in Task /\ now \in Nat
      /\ TimersOK(tasks[n]) /\ LeaseOK(n, tasks[n])
  BY <1>0, TaskFacts
<1>2. row' \in Row /\ late' \in BOOLEAN
  BY <1>0 DEF DeadlinesInv, TypeOK
<1>3. CASE Blocks(n)
  <2> DEFINE t == [tasks[n] EXCEPT !.blocked = TRUE]
  <2>1. t \in Task
    BY <1>1 DEF Task
  <2>2. /\ t.pc = "handler" /\ t.claimed = tasks[n].claimed /\ t.polled = tasks[n].polled
        /\ t.since = tasks[n].since /\ t.used = tasks[n].used
    BY <1>0, <1>1 DEF Task
  <2>3. t.blocked
    BY <1>1 DEF Task
  <2>4. TimersOK(t) /\ LeaseOK(n, t)
    BY <1>0, <1>1, <2>2, <2>3 DEF TimersOK, LeaseOK, Timed
  <2>5. Become(n, t)
    BY <1>3 DEF Blocks
  <2> HIDE DEF t
  <2> QED BY <1>1, <1>2, <2>1, <2>4, <2>5, BecomeOK
<1>4. CASE HandlerEnds(n)
  <2> DEFINE t == [tasks[n] EXCEPT !.pc = "mark", !.since = now]
  <2>1. t \in Task
    BY <1>1 DEF Task, Phases, Timed, Time
  <2>2. /\ t.pc = "mark" /\ t.claimed = tasks[n].claimed /\ t.polled = tasks[n].polled
        /\ t.since = now /\ t.used = tasks[n].used /\ t.blocked = tasks[n].blocked
    BY <1>1 DEF Task
  <2>3. TimersOK(t)
    BY <1>0, <1>1, <2>2 DEF TimersOK, Timed
  <2>4. LeaseOK(n, t)
    BY <1>0, <1>1, <2>2 DEF LeaseOK, Timed
  <2>5. Become(n, t)
    BY <1>4 DEF HandlerEnds
  <2> HIDE DEF t
  <2> QED BY <1>1, <1>2, <2>1, <2>3, <2>4, <2>5, BecomeOK
<1> QED BY <1>3, <1>4

LEMMA EndOK ==
    ASSUME DeadlinesInv, NEW n \in Claims, FetchRefused(n) \/ MarkLands(n) \/ OuterTimeout(n)
    PROVE  DeadlinesInv'
<1>1. tasks[n].pc # "idle"
  BY DEF FetchRefused, MarkLands, OuterTimeout, OuterDue, Timed
<1>2. CASE FetchRefused(n)
  BY <1>1, <1>2, RowFacts, ReturnOK DEF FetchRefused
<1>3. CASE MarkLands(n)
  <2>1. PICK status \in {"awaiting_retry", "settled"} :
          IF TemporalCheck(Marked(n, status))
            THEN row' = Marked(n, status) /\ Return(n, IF status = "settled" THEN "ok" ELSE "retry")
            ELSE row' = row /\ Return(n, "refused")
    BY <1>3 DEF MarkLands
  <2>2. row' \in Row /\ late' = late
    BY <1>3, <2>1, RowFacts DEF MarkLands
  <2>3. \E v \in {"ok", "retry", "refused"} : Return(n, v)
    BY <2>1
  <2> QED BY <1>1, <2>2, <2>3, ReturnOK
<1>4. CASE OuterTimeout(n)
  <2>1. row' \in Row
    BY <1>4, RowFacts DEF OuterTimeout
  <2>2. Return(n, "retry") /\ late' = late
    BY <1>4 DEF OuterTimeout
  <2> QED BY <1>1, <2>1, <2>2, ReturnOK
<1> QED BY <1>2, <1>3, <1>4

-----------------------------------------------------------------------------
(* Steps of pgwq, the clock and the process.                               *)

\* A step that leaves the builder's work alone keeps what it checked.
LEMMA BuilderSame ==
    ASSUME DeadlinesInv, UNCHANGED builder
    PROVE  BuilderType' /\ Sound' /\ Checked'
<1>1. UNCHANGED <<config, pending, outcome>>
  BY DEF builder
<1> QED
  BY <1>1 DEF DeadlinesInv, TypeOK, BuilderType, Sound, Checked, Ready, BelowFloor, TimeoutInvalid

JobType == [status : {"absent", "queued", "leased", "ended"}, token : Nat, until : Time]

LEMMA ClaimOK == ASSUME DeadlinesInv, NEW n \in Claims, Claim(n) PROVE DeadlinesInv'
<1> DEFINE t == [NoTask EXCEPT !.pc = "spawned", !.claimed = now]
<1>1. /\ job.status = "queued" /\ n = job.token + 1
      /\ job' = [status |-> "leased", token |-> n, until |-> now + config.lease_timeout]
      /\ tasks' = [tasks EXCEPT ![n] = t]
      /\ UNCHANGED <<builder, now, handler, row, crashes, late>>
  BY DEF Claim
<1>2. /\ now \in Nat /\ config.lease_timeout \in Nat /\ job.token \in Nat
      /\ tasks \in [Claims -> Task] /\ handler # 0
  BY <1>1 DEF DeadlinesInv, TypeOK, BuilderType, OutboxConfig, Time, Dispatched
<1>3. t \in Task /\ t.pc = "spawned" /\ t.claimed = now
  BY <1>2 DEF NoTask, Task, Phases, Timed, Time
<1>4. UNCHANGED <<config, pending, outcome, now, handler>>
  BY <1>1 DEF builder
<1>5. job' \in JobType /\ tasks' \in [Claims -> Task]
  BY <1>1, <1>2, <1>3 DEF JobType, Time
<1>6. TypeOK'
  BY <1>1, <1>4, <1>5, BuilderSame DEF DeadlinesInv, TypeOK, JobType
<1>7. Dispatched'
  BY <1>2, <1>4 DEF DeadlinesInv, Dispatched, Ready
<1>8. ASSUME NEW m \in Claims PROVE (TimersOK(tasks[m]) /\ LeaseOK(m, tasks[m]))'
  <2>0. m \in Nat
    BY DeadlinesAssumption DEF Claims
  <2>1. CASE m = n
    <3>1. tasks'[m] = t
      BY <1>1, <1>2, <2>1
    <3>2. Owner(m)'
      BY <1>1, <2>1 DEF Owner
    <3>3. job'.until = now + config.lease_timeout /\ job'.token = n
      BY <1>1
    <3> HIDE DEF t
    <3> QED BY <1>2, <1>3, <1>4, <2>0, <2>1, <3>1, <3>2, <3>3 DEF TimersOK, LeaseOK, Timed
  <2>2. CASE m # n
    <3>1. tasks'[m] = tasks[m] /\ TimersOK(tasks[m]) /\ LeaseOK(m, tasks[m])
      BY <1>1, <1>2, <2>2 DEF DeadlinesInv
    <3>2. ~Owner(m) /\ ~Owner(m)' /\ job'.token = job.token + 1
      BY <1>1, <2>2 DEF Owner
    <3>3. TimersOK(tasks[m])'
      BY <1>4, <3>1 DEF TimersOK, OurTimeout, EffectiveTimeout
    <3>4. LeaseOK(m, tasks[m])'
      BY <1>2, <1>4, <2>0, <3>1, <3>2 DEF LeaseOK, Slack
    <3> QED BY <3>3, <3>4
  <2> QED BY <2>1, <2>2
<1>9. Sound' /\ Checked'
  BY <1>1, BuilderSame
<1> QED BY <1>6, <1>7, <1>8, <1>9 DEF DeadlinesInv

\* A step that gives the job another status, and may end the owner's task.
LEMMA JobStepOK ==
    ASSUME DeadlinesInv, UNCHANGED <<builder, now, handler, row, crashes, late>>, handler # 0,
           NEW status \in {"absent", "queued", "leased", "ended"},
           job' = [job EXCEPT !.status = status], tasks' \in [Claims -> Task],
           \A m \in Claims : \/ tasks'[m] = NoTask
                             \/ /\ tasks'[m] = tasks[m]
                                /\ (Owner(m)' <=> Owner(m)) \/ (now >= job.until /\ ~Owner(m)')
    PROVE  DeadlinesInv'
<1>1. UNCHANGED <<config, pending, outcome, now, handler>>
  BY DEF builder
<1>2. job \in JobType /\ now \in Nat
  BY DEF DeadlinesInv, TypeOK, JobType, Time
<1>3. job' \in JobType /\ job'.token = job.token /\ job'.until = job.until
  BY <1>2 DEF JobType
<1>4. TypeOK'
  BY <1>1, <1>3, BuilderSame DEF DeadlinesInv, TypeOK, JobType
<1>5. Dispatched'
  BY <1>1 DEF DeadlinesInv, Dispatched, Ready
<1>6. ASSUME NEW m \in Claims PROVE (TimersOK(tasks[m]) /\ LeaseOK(m, tasks[m]))'
  <2>1. CASE tasks'[m] = NoTask
    BY <2>1 DEF TimersOK, LeaseOK, NoTask, Timed
  <2>2. CASE tasks'[m] = tasks[m] /\ tasks[m].pc = "idle"
    BY <2>2 DEF TimersOK, LeaseOK, Timed
  <2>3. CASE tasks'[m] = tasks[m] /\ tasks[m].pc # "idle" /\ tasks'[m] # NoTask
    <3>1. /\ TimersOK(tasks[m]) /\ LeaseOK(m, tasks[m]) /\ tasks[m] \in Task
          /\ config.handler_timeout \in Nat /\ config.lease_timeout \in Nat
      BY <2>3, TaskFacts
    <3>2. TimersOK(tasks[m])'
      BY <1>1, <2>3, <3>1 DEF TimersOK, OurTimeout, EffectiveTimeout
    <3>3. CASE Owner(m)' <=> Owner(m)
      BY <1>1, <1>3, <2>3, <3>1, <3>2, <3>3 DEF LeaseOK, Slack
    <3>4. CASE now >= job.until /\ ~Owner(m)' /\ Owner(m)
      <4>1. Sound
        BY DEF DeadlinesInv
      <4>2. tasks[m].claimed \in Nat /\ tasks[m].polled \in Nat
        BY <3>1 DEF Task, Time
      <4>3. tasks[m].pc \in Timed \cup {"spawned"} => now >= tasks[m].claimed + config.lease_timeout
        BY <3>1, <3>4 DEF LeaseOK
      <4>4. tasks[m].pc \in Timed /\ ~tasks[m].blocked =>
              ~(tasks[m].polled - tasks[m].claimed < Slack \/ tasks[m].polled = tasks[m].claimed)
        BY <1>2, <3>1, <4>1, <4>2, <4>3 DEF TimersOK, Slack, Sound
      <4>5. tasks[m].pc # "idle" => m <= job.token
        BY <3>1 DEF LeaseOK
      <4> QED BY <1>1, <1>3, <2>3, <3>2, <3>4, <4>3, <4>4, <4>5 DEF LeaseOK, Slack
    <3> QED BY <2>3, <3>2, <3>3, <3>4 DEF Owner
  <2> QED BY <2>1, <2>2, <2>3
<1>7. Sound' /\ Checked'
  BY BuilderSame
<1> QED BY <1>4, <1>5, <1>6, <1>7 DEF DeadlinesInv

LEMMA ReapOK == ASSUME DeadlinesInv, Reap PROVE DeadlinesInv'
<1>1. /\ job.status = "leased" /\ now >= job.until /\ job' = [job EXCEPT !.status = "queued"]
      /\ UNCHANGED <<builder, now, handler, tasks, row, crashes, late>>
  BY DEF Reap
<1>2. handler # 0 /\ tasks \in [Claims -> Task] /\ job \in JobType
  BY <1>1 DEF DeadlinesInv, Dispatched, TypeOK, JobType
<1>3. \A m \in Claims : ~Owner(m)'
  BY <1>1, <1>2 DEF Owner, JobType
<1> QED BY <1>1, <1>2, <1>3, JobStepOK

LEMMA ReportOK == ASSUME DeadlinesInv, NEW n \in Claims, Report(n) PROVE DeadlinesInv'
<1>1. /\ tasks[n].pc = "report" /\ tasks' = [tasks EXCEPT ![n] = NoTask]
      /\ UNCHANGED <<builder, now, handler, row, crashes, late>>
  BY DEF Report
<1>2. handler # 0
  BY <1>1, TaskFacts
<1>3. tasks \in [Claims -> Task] /\ job \in JobType
  BY DEF DeadlinesInv, TypeOK, JobType
<1>4. PICK status \in {"absent", "queued", "leased", "ended"} :
        job' = [job EXCEPT !.status = status] /\ (~Owner(n) => status = job.status)
  BY <1>3 DEF Report, JobType
<1>5. tasks' \in [Claims -> Task]
  BY <1>1, <1>3 DEF NoTask, Task, Phases, Timed, Time
<1>6. ASSUME NEW m \in Claims
      PROVE  tasks'[m] = NoTask \/ (tasks'[m] = tasks[m] /\ (Owner(m)' <=> Owner(m)))
  <2>1. CASE m = n
    BY <1>1, <1>3, <2>1
  <2>2. CASE m # n
    <3>1. tasks'[m] = tasks[m]
      BY <1>1, <1>3, <2>2
    <3>2. Owner(m)' <=> Owner(m)
      BY <1>3, <1>4, <2>2 DEF Owner, JobType
    <3> QED BY <3>1, <3>2
  <2> QED BY <2>1, <2>2
<1> QED BY <1>1, <1>2, <1>4, <1>5, <1>6, JobStepOK

LEMMA CrashOK == ASSUME DeadlinesInv, Crash PROVE DeadlinesInv'
<1>1. /\ tasks' = [n \in Claims |-> NoTask] /\ crashes' = crashes + 1
      /\ UNCHANGED <<builder, now, handler, job, row, late>>
  BY DEF Crash
<1>2. UNCHANGED <<config, pending, outcome>>
  BY <1>1 DEF builder
<1>3. tasks' \in [Claims -> Task] /\ crashes' \in Nat
  BY <1>1 DEF DeadlinesInv, TypeOK, NoTask, Task, Phases, Timed, Time
<1>4. TypeOK'
  BY <1>1, <1>2, <1>3, BuilderSame DEF DeadlinesInv, TypeOK
<1>5. Dispatched'
  BY <1>1, <1>2 DEF DeadlinesInv, Dispatched, Ready, NoTask
<1>6. ASSUME NEW m \in Claims PROVE (TimersOK(tasks[m]) /\ LeaseOK(m, tasks[m]))'
  <2>1. tasks'[m] = NoTask
    BY <1>1
  <2> QED BY <2>1 DEF TimersOK, LeaseOK, NoTask, Timed
<1> QED BY <1>1, <1>4, <1>5, <1>6, BuilderSame DEF DeadlinesInv

\* The clock stops at every timer that can fire.
LEMMA TickOK == ASSUME DeadlinesInv, Tick PROVE DeadlinesInv'
<1>1. /\ now' = now + 1 /\ \A n \in Claims : ~OursDue(n) /\ ~OuterDue(n)
      /\ UNCHANGED <<builder, handler, job, tasks, row, crashes, late>>
  BY DEF Tick
<1>2. UNCHANGED <<config, pending, outcome>>
  BY <1>1 DEF builder
<1>3. TypeOK'
  BY <1>1, <1>2, BuilderSame DEF DeadlinesInv, TypeOK, Time
<1>4. Dispatched'
  BY <1>1, <1>2 DEF DeadlinesInv, Dispatched, Ready
<1>5. ASSUME NEW m \in Claims PROVE (TimersOK(tasks[m]) /\ LeaseOK(m, tasks[m]))'
  <2>1. CASE tasks[m].pc = "idle"
    BY <1>1, <2>1 DEF TimersOK, LeaseOK, Timed
  <2>2. CASE tasks[m].pc # "idle"
    <3>1. /\ TimersOK(tasks[m]) /\ LeaseOK(m, tasks[m]) /\ tasks[m] \in Task /\ now \in Nat
          /\ config.handler_timeout \in Nat /\ config.lease_timeout \in Nat
          /\ OurTimeout(handler) \in Nat
      BY <2>2, TaskFacts
    <3>2. /\ tasks[m].claimed \in Nat /\ tasks[m].polled \in Nat
          /\ tasks[m].since \in Nat /\ tasks[m].used \in Nat
      BY <3>1 DEF Task, Time
    <3>3. OurTimeout(handler)' = OurTimeout(handler)
      BY <1>1, <1>2 DEF OurTimeout, EffectiveTimeout
    <3>4. ~OursDue(m) /\ ~OuterDue(m)
      BY <1>1
    <3>5. TimersOK(tasks[m])'
      BY <1>1, <1>2, <3>1, <3>2, <3>3, <3>4 DEF TimersOK, OursDue, OuterDue, Timed
    <3>6. Owner(m)' <=> Owner(m)
      BY <1>1 DEF Owner
    <3>7. LeaseOK(m, tasks[m])'
      BY <1>1, <1>2, <3>1, <3>2, <3>6 DEF LeaseOK, Slack
    <3> QED BY <3>5, <3>7
  <2> QED BY <2>1, <2>2
<1> QED BY <1>1, <1>3, <1>4, <1>5, BuilderSame DEF DeadlinesInv

LEMMA DispatchOK == ASSUME DeadlinesInv, NEW i \in DOMAIN pending, Dispatch(i) PROVE DeadlinesInv'
<1>1. /\ Ready /\ handler = 0 /\ handler' = i /\ job' = [job EXCEPT !.status = "queued"]
      /\ UNCHANGED <<builder, now, tasks, row, crashes, late>>
  BY DEF Dispatch
<1>2. UNCHANGED <<config, pending, outcome>>
  BY <1>1 DEF builder
<1>3. i \in 0..Len(pending) /\ i # 0 /\ job \in JobType
  BY DEF DeadlinesInv, TypeOK, BuilderType, JobType
<1>4. job' \in JobType
  BY <1>1, <1>3 DEF JobType
<1>5. TypeOK'
  BY <1>1, <1>2, <1>3, <1>4, BuilderSame DEF DeadlinesInv, TypeOK, JobType
<1>6. Dispatched'
  BY <1>1, <1>2, <1>3 DEF Dispatched, Ready
<1>7. ASSUME NEW m \in Claims PROVE (TimersOK(tasks[m]) /\ LeaseOK(m, tasks[m]))'
  <2>1. tasks'[m].pc = "idle"
    BY <1>1 DEF DeadlinesInv, Dispatched
  <2> QED BY <2>1 DEF TimersOK, LeaseOK, Timed
<1> QED BY <1>1, <1>5, <1>6, <1>7, BuilderSame DEF DeadlinesInv

LEMMA BuildingOK == ASSUME DeadlinesInv, BuilderNext, UNCHANGED timed PROVE DeadlinesInv'
<1>1. UNCHANGED <<now, handler, job, tasks, row, crashes, late>>
  BY DEF timed
<1>2. /\ BuilderType' /\ Sound' /\ Checked' /\ outcome = "building"
      /\ Len(pending') \in Nat /\ Len(pending) <= Len(pending')
  BY BuilderStep DEF DeadlinesInv, TypeOK
<1>3. handler = 0
  BY <1>2 DEF DeadlinesInv, Dispatched, Ready
<1>4. TypeOK'
  BY <1>1, <1>2, <1>3 DEF DeadlinesInv, TypeOK
<1>5. Dispatched'
  BY <1>1, <1>3 DEF DeadlinesInv, Dispatched
<1>6. ASSUME NEW m \in Claims PROVE (TimersOK(tasks[m]) /\ LeaseOK(m, tasks[m]))'
  <2>1. tasks'[m].pc = "idle"
    BY <1>1, <1>3 DEF DeadlinesInv, Dispatched
  <2> QED BY <2>1 DEF TimersOK, LeaseOK, Timed
<1> QED BY <1>2, <1>4, <1>5, <1>6 DEF DeadlinesInv

LEMMA DeadlinesStep == DeadlinesInv /\ [Next]_vars => DeadlinesInv'
<1> SUFFICES ASSUME DeadlinesInv, [Next]_vars PROVE DeadlinesInv'
  OBVIOUS
<1>1. CASE BuilderNext /\ UNCHANGED timed
  BY <1>1, BuildingOK
<1>2. ASSUME NEW i \in DOMAIN pending, Dispatch(i) PROVE DeadlinesInv'
  BY <1>2, DispatchOK
<1>3. ASSUME NEW n \in Claims, Claim(n) \/ Wrapper(n) \/ OuterTimeout(n) \/ Report(n)
      PROVE  DeadlinesInv'
  BY <1>3, ClaimOK, FirstPollOK, BeginOK, FetchedOK, HandlerStepOK, EndOK, ReportOK DEF Wrapper
<1>4. CASE Reap \/ Crash \/ Tick
  BY <1>4, ReapOK, CrashOK, TickOK
<1>5. CASE UNCHANGED vars
  <2>1. UNCHANGED <<config, pending, outcome, now, handler, job, tasks, row, crashes, late>>
    BY <1>5 DEF vars, builder, timed
  <2>2. TypeOK' /\ Dispatched' /\ Sound' /\ Checked'
    BY <2>1, BuilderSame DEF DeadlinesInv, TypeOK, Dispatched, Ready, builder
  <2>3. ASSUME NEW m \in Claims PROVE (TimersOK(tasks[m]) /\ LeaseOK(m, tasks[m]))'
    BY <2>1 DEF DeadlinesInv, TimersOK, LeaseOK, Owner, Slack, OurTimeout, EffectiveTimeout
  <2> QED BY <2>2, <2>3 DEF DeadlinesInv
<1> QED BY <1>1, <1>2, <1>3, <1>4, <1>5 DEF Next

\* Timers and leases stand as the builder's validation left them, in every
\* reachable state.
THEOREM DeadlinesInvHolds == Spec => []DeadlinesInv
<1>1. DeadlinesInv /\ [Next]_vars => DeadlinesInv'
  BY DeadlinesStep
<1> QED BY InitOK, <1>1, PTL DEF Spec

-----------------------------------------------------------------------------
(* The theorems.                                                           *)

\* Type correctness of Deadlines, for every set of configurations and
\* registrations and every bound: what the builder lets through, the clock, the
\* tasks and the audit row's clock columns keep their types.
THEOREM DeadlinesTypeCorrect == Spec => []TypeOK
<1>1. DeadlinesInv => TypeOK
  BY DEF DeadlinesInv
<1> QED BY <1>1, DeadlinesInvHolds, PTL

\* runtime.rs:344-346 for every configuration and per-handler timeout build()
\* accepts: as long as its own statements have used less than the cleanup
\* budget, the wrapper is not cancelled by pgwq before it has marked the row.
THEOREM MarkHasTimeHolds == Spec => []MarkHasTime
<1>1. ASSUME DeadlinesInv, NEW n \in Claims, tasks[n].pc \in Timed, ~tasks[n].blocked,
             Overhead(n) < HANDLER_CLEANUP_BUDGET
      PROVE  ~OuterDue(n)
  <2>1. /\ tasks[n] \in Task /\ now \in Nat
        /\ config.handler_timeout \in Nat
        /\ OurTimeout(handler) \in Nat
        /\ OurTimeout(handler) + HANDLER_CLEANUP_BUDGET <= config.handler_timeout
        /\ TimersOK(tasks[n])
    BY <1>1, TaskFacts DEF Timed
  <2>2. tasks[n].polled \in Nat /\ tasks[n].since \in Nat /\ tasks[n].used \in Nat
    BY <2>1 DEF Task, Time
  <2>3. CASE tasks[n].pc \in {"fetch", "fetching"}
    <3>1. Overhead(n) = now - tasks[n].polled
      BY <2>3 DEF Overhead
    <3> QED BY <1>1, <2>1, <2>2, <3>1 DEF OuterDue, HANDLER_CLEANUP_BUDGET
  <2>4. CASE tasks[n].pc = "handler"
    <3>1. Overhead(n) = tasks[n].used
      BY <2>4 DEF Overhead
    <3>2. now <= tasks[n].polled + tasks[n].used + OurTimeout(handler)
      BY <1>1, <2>1, <2>4 DEF TimersOK
    <3> QED BY <1>1, <2>1, <2>2, <3>1, <3>2 DEF OuterDue, HANDLER_CLEANUP_BUDGET
  <2>5. CASE tasks[n].pc \in {"mark", "marking"}
    <3>1. Overhead(n) = tasks[n].used + (now - tasks[n].since)
      BY <2>5 DEF Overhead
    <3>2. tasks[n].since <= tasks[n].polled + tasks[n].used + OurTimeout(handler)
      BY <1>1, <2>1, <2>5 DEF TimersOK
    <3> QED BY <1>1, <2>1, <2>2, <3>1, <3>2 DEF OuterDue, HANDLER_CLEANUP_BUDGET
  <2> QED BY <1>1, <2>3, <2>4, <2>5 DEF Timed
<1>2. DeadlinesInv => MarkHasTime
  BY <1>1 DEF MarkHasTime
<1> QED BY <1>2, DeadlinesInvHolds, PTL

\* The floor of lease_timeout over handler_timeout in builder.rs is enough: a
\* task that was polled within the slack of its claim holds its lease whenever
\* it claims, runs or marks, so the reaper cannot run the delivery twice at
\* once unless a handler blocks its thread.
THEOREM LeaseCoversHolds == Spec => []LeaseCovers
<1>1. DeadlinesInv => LeaseCovers
  BY DEF DeadlinesInv, LeaseOK, LeaseCovers
<1> QED BY <1>1, DeadlinesInvHolds, PTL

-----------------------------------------------------------------------------
(* The clock columns of the audit row.                                     *)

\* The row passes its own CHECK, was stamped in the past, and has its first
\* stamp and its last one from the same statements.
ClockRow ==
    /\ TemporalCheck(row)
    /\ row.first_attempted_at # None => row.last_attempted_at # None
    /\ row.last_attempted_at # None => row.last_attempted_at <= now
    /\ row.status # "settled" => row.finished_at = None

\* Lease n's task against the row: its own statements began after every stamp
\* they can meet, as long as nobody was polled late.
ClockTask(n, t) ==
    /\ t.pc \in {"spawned", "fetch", "fetching"} => ~t.blocked
    /\ t.pc \in {"fetching", "marking"} => t.polled <= t.began /\ t.began <= now
    /\ t.pc = "marking" /\ row.status = "running" /\ row.lease_token = n
         => row.last_attempted_at <= t.began
    /\ ~late /\ t.pc \in Timed => t.polled - t.claimed < Slack
    /\ ~late /\ t.pc \in {"spawned", "fetch", "fetching"} /\ Owner(n)
         => row.last_attempted_at <= t.claimed
    /\ t.verdict = "refused" => late

ClockInv == ClockRow /\ \A n \in Claims : ClockTask(n, tasks[n])

LEMMA InitClock == Init => ClockInv
<1> SUFFICES ASSUME Init PROVE ClockInv
  OBVIOUS
<1>1. ClockRow
  BY DEF Init, ClockRow, NewRow, TemporalCheck, None
<1>2. ASSUME NEW n \in Claims PROVE ClockTask(n, tasks[n])
  <2>1. tasks[n] = NoTask
    BY DEF Init
  <2> QED BY <2>1 DEF ClockTask, NoTask, Timed
<1> QED BY <1>1, <1>2 DEF ClockInv

\* The numbers in the row and in a task are integers, None included.
LEMMA ClockFacts ==
    ASSUME DeadlinesInv, ClockInv, NEW n \in Claims
    PROVE  /\ row \in Row /\ row.last_attempted_at \in Int /\ row.first_attempted_at \in Int
           /\ row.last_attempted_at <= now /\ now \in Nat
           /\ tasks[n] \in Task /\ tasks[n].claimed \in Nat /\ tasks[n].polled \in Nat
           /\ tasks[n].began \in Nat
           /\ config.handler_timeout \in Nat /\ config.lease_timeout \in Nat
           /\ TimersOK(tasks[n]) /\ LeaseOK(n, tasks[n]) /\ ClockTask(n, tasks[n]) /\ ClockRow
<1>1. row \in Row /\ now \in Nat /\ tasks[n] \in Task
  BY DEF DeadlinesInv, TypeOK, Time
<1>2. config.handler_timeout \in Nat /\ config.lease_timeout \in Nat
  BY DEF DeadlinesInv, TypeOK, BuilderType, OutboxConfig
<1>3. row.last_attempted_at \in Int /\ row.first_attempted_at \in Int
  BY <1>1 DEF Row, Time, None
<1>4. tasks[n].claimed \in Nat /\ tasks[n].polled \in Nat /\ tasks[n].began \in Nat
  BY <1>1 DEF Task, Time
<1>5. ClockRow /\ ClockTask(n, tasks[n])
  BY DEF ClockInv
<1>6. row.last_attempted_at <= now
  BY <1>1, <1>3, <1>5 DEF ClockRow, None
<1>7. TimersOK(tasks[n]) /\ LeaseOK(n, tasks[n])
  BY DEF DeadlinesInv
<1> QED BY <1>1, <1>2, <1>3, <1>4, <1>5, <1>6, <1>7

\* While nobody was polled late, the task whose claim is in progress holds the
\* lease, and began after every stamp of the row.
LEMMA ClaimIsCurrent ==
    ASSUME DeadlinesInv, ClockInv, NEW n \in Claims, tasks[n].pc = "fetching", ~late
    PROVE  Owner(n) /\ row.last_attempted_at <= tasks[n].began
<1>1. /\ row.last_attempted_at \in Int /\ tasks[n].claimed \in Nat /\ tasks[n].polled \in Nat
      /\ tasks[n].began \in Nat
      /\ TimersOK(tasks[n]) /\ LeaseOK(n, tasks[n]) /\ ClockTask(n, tasks[n])
  BY ClockFacts
<1>2. ~tasks[n].blocked /\ tasks[n].polled <= tasks[n].began /\ tasks[n].claimed <= tasks[n].polled
  BY <1>1 DEF ClockTask, TimersOK, Timed
<1>3. tasks[n].polled - tasks[n].claimed < Slack
  BY <1>1 DEF ClockTask, Timed
<1>4. Owner(n)
  BY <1>1, <1>2, <1>3 DEF LeaseOK, Timed
<1>5. row.last_attempted_at <= tasks[n].claimed
  BY <1>1, <1>4 DEF ClockTask
<1> QED BY <1>1, <1>2, <1>4, <1>5

\* handler_deliveries_temporal accepts the stamp of a claim that began after
\* the stamps the row has.
LEMMA StampPasses ==
    ASSUME DeadlinesInv, ClockInv, NEW n \in Claims, row.status # "settled",
           row.last_attempted_at <= tasks[n].began
    PROVE  TemporalCheck(Stamped(n))
<1>1. /\ row \in Row /\ row.last_attempted_at \in Int /\ row.first_attempted_at \in Int
      /\ tasks[n].began \in Nat /\ ClockRow
  BY ClockFacts
<1>2. row.finished_at = None
  BY <1>1 DEF ClockRow
<1>3. row.first_attempted_at # None =>
        row.first_attempted_at >= 0 /\ tasks[n].began >= row.first_attempted_at
  BY <1>1 DEF ClockRow, TemporalCheck, CREATED_AT
<1>4. /\ Stamped(n).last_attempted_at = tasks[n].began
      /\ Stamped(n).finished_at = None
      /\ Stamped(n).first_attempted_at =
           IF row.first_attempted_at = None THEN tasks[n].began ELSE row.first_attempted_at
  BY <1>1, <1>2 DEF Stamped, Row
<1> QED BY <1>1, <1>3, <1>4 DEF TemporalCheck, CREATED_AT, None

\* It accepts every mark: the holder's statement began after its own claim.
LEMMA MarkPasses ==
    ASSUME DeadlinesInv, ClockInv, NEW n \in Claims, tasks[n].pc = "marking",
           NEW status \in {"awaiting_retry", "settled"}
    PROVE  TemporalCheck(Marked(n, status))
<1>1. /\ row \in Row /\ row.last_attempted_at \in Int /\ row.first_attempted_at \in Int
      /\ tasks[n].began \in Nat /\ ClockRow /\ ClockTask(n, tasks[n])
  BY ClockFacts
<1>2. CASE row.status = "running" /\ row.lease_token = n
  <2>1. row.last_attempted_at <= tasks[n].began /\ row.finished_at = None
    BY <1>1, <1>2 DEF ClockTask, ClockRow
  <2>2. /\ Marked(n, status).last_attempted_at = row.last_attempted_at
        /\ Marked(n, status).first_attempted_at = row.first_attempted_at
        /\ Marked(n, status).finished_at = IF status = "settled" THEN tasks[n].began ELSE None
    BY <1>1, <1>2, <2>1 DEF Marked, Row
  <2> QED BY <1>1, <2>1, <2>2 DEF ClockRow, TemporalCheck, CREATED_AT, None
<1>3. CASE ~(row.status = "running" /\ row.lease_token = n)
  BY <1>1, <1>3 DEF Marked, ClockRow
<1> QED BY <1>2, <1>3

\* A step of one task leaves the clock and the leases alone.
LEMMA BecomeSame ==
    ASSUME DeadlinesInv, NEW n \in Claims, NEW t, Become(n, t)
    PROVE  /\ tasks'[n] = t /\ \A m \in Claims \ {n} : tasks'[m] = tasks[m]
           /\ now' = now /\ \A m \in Claims : Owner(m)' <=> Owner(m)
           /\ Slack' = Slack
<1>1. /\ tasks' = [tasks EXCEPT ![n] = t] /\ tasks \in [Claims -> Task]
      /\ now' = now /\ job' = job /\ config' = config
  BY DEF Become, builder, DeadlinesInv, TypeOK
<1> QED BY <1>1 DEF Owner, Slack

\* How the row may change beside another task: a mark keeps the stamps, and a
\* stamp is the lease owner's unless somebody was polled late.
RowStep(n) ==
    \/ /\ row'.last_attempted_at = row.last_attempted_at
       /\ row'.status = "running" => row' = row
    \/ row'.lease_token = n /\ (~late => Owner(n))

\* A step of one task keeps the others' clocks.
LEMMA BecomeClock ==
    ASSUME DeadlinesInv, ClockInv, NEW n \in Claims, NEW t, Become(n, t), late => late',
           ClockRow', ClockTask(n, tasks[n])', RowStep(n)
    PROVE  ClockInv'
<1>1. ASSUME NEW m \in Claims, m # n PROVE ClockTask(m, tasks[m])'
  <2>1. tasks'[m] = tasks[m] /\ now' = now /\ (Owner(m)' <=> Owner(m)) /\ Slack' = Slack
    BY <1>1, BecomeSame
  <2>2. /\ row.last_attempted_at \in Int /\ now \in Nat /\ tasks[m].claimed \in Nat
        /\ tasks[m].began \in Nat /\ ClockTask(m, tasks[m])
    BY ClockFacts
  <2>3. Owner(n) => ~Owner(m)
    BY <1>1 DEF Owner
  <2> QED BY <1>1, <2>1, <2>2, <2>3 DEF ClockTask, RowStep
<1> QED BY <1>1 DEF ClockInv

\* A step that does not touch the row.
LEMMA RowSame == ASSUME ClockRow, row' = row, now' = now PROVE ClockRow'
BY DEF ClockRow, TemporalCheck, CREATED_AT

LEMMA RowSameStep == ASSUME NEW n \in Claims, row' = row PROVE RowStep(n)
BY DEF RowStep

\* A stamp the CHECK accepted.
LEMMA StampClock ==
    ASSUME DeadlinesInv, ClockInv, NEW n \in Claims, tasks[n].pc = "fetching",
           row.status # "settled", TemporalCheck(Stamped(n)), row' = Stamped(n), now' = now
    PROVE  ClockRow' /\ RowStep(n)
<1>1. /\ row \in Row /\ tasks[n].began \in Nat /\ now \in Nat /\ ClockRow /\ ClockTask(n, tasks[n])
  BY ClockFacts
<1>2. tasks[n].began <= now /\ row.finished_at = None
  BY <1>1 DEF ClockTask, ClockRow
<1>3. /\ row'.last_attempted_at = tasks[n].began /\ row'.finished_at = None
      /\ row'.status = "running" /\ row'.lease_token = n
  BY <1>1, <1>2 DEF Stamped, Row
<1>4. TemporalCheck(row)'
  BY DEF TemporalCheck, CREATED_AT
<1>5. ClockRow'
  BY <1>1, <1>2, <1>3, <1>4 DEF ClockRow, None
<1>6. RowStep(n)
  BY <1>3, ClaimIsCurrent DEF RowStep
<1> QED BY <1>5, <1>6

\* A mark the CHECK accepted.
LEMMA MarkClock ==
    ASSUME DeadlinesInv, ClockInv, NEW n \in Claims, tasks[n].pc = "marking",
           NEW status \in {"awaiting_retry", "settled"},
           row' = Marked(n, status), now' = now
    PROVE  ClockRow' /\ RowStep(n)
<1>1. row \in Row /\ ClockRow
  BY ClockFacts
<1>2. TemporalCheck(row)'
  BY MarkPasses DEF TemporalCheck, CREATED_AT
<1>3. CASE row.status = "running" /\ row.lease_token = n
  <2>1. /\ row'.last_attempted_at = row.last_attempted_at
        /\ row'.first_attempted_at = row.first_attempted_at
        /\ row'.status = status
        /\ status # "settled" => row'.finished_at = row.finished_at
    BY <1>1, <1>3 DEF Marked, Row
  <2> QED BY <1>1, <1>2, <1>3, <2>1 DEF ClockRow, RowStep
<1>4. CASE ~(row.status = "running" /\ row.lease_token = n)
  <2>1. row' = row
    BY <1>4 DEF Marked
  <2> QED BY <1>1, <2>1, RowSame, RowSameStep
<1> QED BY <1>3, <1>4

-----------------------------------------------------------------------------
(* Every step keeps the clock invariant.                                   *)

LEMMA ReturnClock ==
    ASSUME DeadlinesInv, ClockInv, NEW n \in Claims, NEW v, Return(n, v), late' = late,
           v = "refused" => late, ClockRow', RowStep(n)
    PROVE  ClockInv'
<1> DEFINE t == [NoTask EXCEPT !.pc = "report", !.verdict = v]
<1>1. Become(n, t)
  BY DEF Return
<1>2. tasks'[n] = t
  BY <1>1, BecomeSame
<1>3. tasks'[n].pc = "report" /\ tasks'[n].verdict = v
  BY <1>2 DEF NoTask
<1>4. ClockTask(n, tasks[n])'
  BY <1>3 DEF ClockTask, Timed
<1> HIDE DEF t
<1> QED BY <1>1, <1>4, BecomeClock

LEMMA FirstPollClock == ASSUME DeadlinesInv, ClockInv, NEW n \in Claims, FirstPoll(n) PROVE ClockInv'
<1> DEFINE t == [tasks[n] EXCEPT !.pc = "fetch", !.polled = now]
<1>1. /\ tasks[n].pc = "spawned" /\ Become(n, t) /\ row' = row
      /\ late' = (late \/ now - tasks[n].claimed >= Slack)
  BY DEF FirstPoll
<1>2. /\ tasks[n] \in Task /\ tasks[n].claimed \in Nat /\ now \in Nat
      /\ config.handler_timeout \in Nat /\ config.lease_timeout \in Nat
      /\ ClockTask(n, tasks[n]) /\ ClockRow
  BY ClockFacts
<1>3. tasks'[n] = t /\ now' = now /\ (Owner(n)' <=> Owner(n)) /\ Slack' = Slack
  BY <1>1, BecomeSame
<1>4. /\ tasks'[n].pc = "fetch" /\ tasks'[n].polled = now
      /\ tasks'[n].claimed = tasks[n].claimed /\ tasks'[n].blocked = tasks[n].blocked
      /\ tasks'[n].verdict = tasks[n].verdict
  BY <1>2, <1>3 DEF Task
<1>5. Slack \in Int
  BY <1>2 DEF Slack
<1>6. ~late' => ~late /\ now - tasks[n].claimed < Slack
  <2>1. ~(now - tasks[n].claimed >= Slack) => now - tasks[n].claimed < Slack
    BY <1>2, <1>5
  <2> QED BY <1>1, <2>1, Zenon
<1>7. ClockTask(n, tasks[n])'
  BY <1>1, <1>2, <1>3, <1>4, <1>6 DEF ClockTask
<1>8. ClockRow' /\ RowStep(n)
  BY <1>1, <1>2, <1>3, RowSame, RowSameStep
<1>9. late => late'
  BY <1>1
<1> HIDE DEF t
<1> QED BY <1>1, <1>7, <1>8, <1>9, BecomeClock

LEMMA BeginClock ==
    ASSUME DeadlinesInv, ClockInv, NEW n \in Claims, BeginFetch(n) \/ BeginMark(n)
    PROVE  ClockInv'
<1>1. PICK pc \in {"fetching", "marking"} :
        /\ tasks[n].pc = IF pc = "fetching" THEN "fetch" ELSE "mark"
        /\ Become(n, [tasks[n] EXCEPT !.pc = pc, !.began = now])
        /\ row' = row /\ late' = late
  BY DEF BeginFetch, BeginMark
<1> DEFINE t == [tasks[n] EXCEPT !.pc = pc, !.began = now]
<1>2. /\ tasks[n] \in Task /\ tasks[n].polled \in Nat /\ tasks[n].claimed \in Nat /\ now \in Nat
      /\ row.last_attempted_at <= now
      /\ TimersOK(tasks[n]) /\ ClockTask(n, tasks[n]) /\ ClockRow
  BY ClockFacts
<1>3. tasks'[n] = t /\ now' = now /\ (Owner(n)' <=> Owner(n)) /\ Slack' = Slack
  BY <1>1, BecomeSame
<1>4. /\ tasks'[n].pc = pc /\ tasks'[n].began = now /\ tasks'[n].polled = tasks[n].polled
      /\ tasks'[n].claimed = tasks[n].claimed /\ tasks'[n].blocked = tasks[n].blocked
      /\ tasks'[n].verdict = tasks[n].verdict
  BY <1>2, <1>3 DEF Task
<1>5. tasks[n].polled <= now
  BY <1>1, <1>2 DEF TimersOK, Timed
<1>6. ClockTask(n, tasks[n])'
  BY <1>1, <1>2, <1>3, <1>4, <1>5 DEF ClockTask, Timed
<1>7. ClockRow' /\ RowStep(n)
  BY <1>1, <1>2, <1>3, RowSame, RowSameStep
<1> HIDE DEF t
<1> QED BY <1>1, <1>6, <1>7, BecomeClock

LEMMA FetchClock ==
    ASSUME DeadlinesInv, ClockInv, NEW n \in Claims, Fetched(n) \/ FetchRefused(n)
    PROVE  ClockInv'
<1>0. tasks[n].pc = "fetching" /\ late' = late
  BY DEF Fetched, FetchRefused
<1>1. tasks[n] \in Task /\ ClockTask(n, tasks[n]) /\ ClockRow
  BY ClockFacts
<1>2. CASE Fetched(n) /\ row.status = "settled"
  <2>1. Return(n, "ok") /\ row' = row
    BY <1>2 DEF Fetched
  <2>2. now' = now
    BY <2>1 DEF Return, Become
  <2> QED BY <1>0, <1>1, <2>1, <2>2, RowSame, RowSameStep, ReturnClock
<1>3. CASE Fetched(n) /\ row.status # "settled"
  <2> DEFINE t == [tasks[n] EXCEPT !.pc = "handler", !.since = now, !.began = 0,
                                   !.used = now - tasks[n].polled]
  <2>1. Become(n, t) /\ row' = Stamped(n) /\ TemporalCheck(Stamped(n))
    BY <1>3 DEF Fetched
  <2>2. tasks'[n] = t /\ now' = now /\ Slack' = Slack
    BY <2>1, BecomeSame
  <2>3. /\ tasks'[n].pc = "handler" /\ tasks'[n].verdict = tasks[n].verdict
        /\ tasks'[n].claimed = tasks[n].claimed /\ tasks'[n].polled = tasks[n].polled
    BY <1>1, <2>2 DEF Task
  <2>4. ClockTask(n, tasks[n])'
    BY <1>0, <1>1, <2>2, <2>3 DEF ClockTask, Timed
  <2>5. ClockRow' /\ RowStep(n)
    BY <1>0, <1>3, <2>1, <2>2, StampClock
  <2> HIDE DEF t
  <2> QED BY <1>0, <2>1, <2>4, <2>5, BecomeClock
<1>4. CASE FetchRefused(n)
  <2>1. row.status # "settled" /\ ~TemporalCheck(Stamped(n)) /\ Return(n, "refused") /\ row' = row
    BY <1>4 DEF FetchRefused
  <2>2. late
    BY <1>0, <2>1, ClaimIsCurrent, StampPasses
  <2>3. now' = now
    BY <2>1 DEF Return, Become
  <2> QED BY <1>0, <1>1, <2>1, <2>2, <2>3, RowSame, RowSameStep, ReturnClock
<1> QED BY <1>2, <1>3, <1>4

LEMMA HandlerClock ==
    ASSUME DeadlinesInv, ClockInv, NEW n \in Claims, Blocks(n) \/ HandlerEnds(n)
    PROVE  ClockInv'
<1>1. PICK t : /\ Become(n, t)
               /\ \/ t = [tasks[n] EXCEPT !.blocked = TRUE]
                  \/ t = [tasks[n] EXCEPT !.pc = "mark", !.since = now]
  BY DEF Blocks, HandlerEnds
<1>2. tasks[n].pc = "handler" /\ row' = row /\ late' = late
  BY DEF Blocks, HandlerEnds
<1>3. tasks[n] \in Task /\ ClockTask(n, tasks[n]) /\ ClockRow
  BY ClockFacts
<1>4. tasks'[n] = t /\ now' = now /\ Slack' = Slack
  BY <1>1, BecomeSame
<1>5. /\ t.pc \in {"handler", "mark"} /\ t.verdict = tasks[n].verdict
      /\ t.claimed = tasks[n].claimed /\ t.polled = tasks[n].polled
  BY <1>1, <1>2, <1>3 DEF Task
<1>6. ClockTask(n, tasks[n])'
  BY <1>2, <1>3, <1>4, <1>5 DEF ClockTask, Timed
<1>7. ClockRow' /\ RowStep(n)
  BY <1>2, <1>3, <1>4, RowSame, RowSameStep
<1> QED BY <1>1, <1>2, <1>6, <1>7, BecomeClock

LEMMA MarkLandsClock == ASSUME DeadlinesInv, ClockInv, NEW n \in Claims, MarkLands(n) PROVE ClockInv'
<1>1. tasks[n].pc = "marking" /\ late' = late
  BY DEF MarkLands
<1>2. PICK status \in {"awaiting_retry", "settled"} :
        /\ row' = Marked(n, status)
        /\ Return(n, IF status = "settled" THEN "ok" ELSE "retry")
  BY <1>1, MarkPasses DEF MarkLands
<1>3. now' = now
  BY <1>2 DEF Return, Become
<1>4. ClockRow' /\ RowStep(n)
  BY <1>1, <1>2, <1>3, MarkClock
<1> QED BY <1>1, <1>2, <1>4, ReturnClock

LEMMA OuterTimeoutClock ==
    ASSUME DeadlinesInv, ClockInv, NEW n \in Claims, OuterTimeout(n) PROVE ClockInv'
<1>1. Return(n, "retry") /\ late' = late
  BY DEF OuterTimeout
<1>2. now' = now
  BY <1>1 DEF Return, Become
<1>3. CASE row' = row
  BY <1>2, <1>3, RowSame, RowSameStep, ReturnClock, <1>1 DEF ClockInv
<1>4. CASE /\ tasks[n].pc = "fetching" /\ row.status # "settled"
           /\ TemporalCheck(Stamped(n)) /\ row' = Stamped(n)
  BY <1>1, <1>2, <1>4, StampClock, ReturnClock
<1>5. CASE /\ tasks[n].pc = "marking"
           /\ \E status \in {"awaiting_retry", "settled"} : row' = Marked(n, status)
  BY <1>1, <1>2, <1>5, MarkClock, ReturnClock
<1> QED BY <1>3, <1>4, <1>5 DEF OuterTimeout

\* A step of pgwq or of the process: the row stays, a task stays or is gone, and
\* nobody becomes the owner of a lease.
LEMMA ElsewhereClock ==
    ASSUME DeadlinesInv, ClockInv, row' = row, late' = late, now' \in Nat, now <= now',
           \A m \in Claims : \/ tasks'[m] = NoTask
                             \/ tasks'[m].pc = "idle" /\ tasks'[m] = tasks[m]
                             \/ /\ tasks'[m] = tasks[m] /\ Slack' = Slack
                                /\ Owner(m)' => Owner(m)
    PROVE  ClockInv'
<1>1. ClockRow'
  <2>1. /\ row \in Row /\ now \in Nat /\ ClockRow
    BY DEF ClockInv, DeadlinesInv, TypeOK, Time
  <2>2. row.last_attempted_at \in Int
    BY <2>1 DEF Row, Time, None
  <2> QED BY <2>1, <2>2 DEF ClockRow, TemporalCheck, CREATED_AT
<1>2. ASSUME NEW m \in Claims PROVE ClockTask(m, tasks[m])'
  <2>1. /\ now \in Nat /\ tasks[m].began \in Nat /\ ClockTask(m, tasks[m])
    BY ClockFacts
  <2>2. CASE tasks'[m] = NoTask
    BY <2>2 DEF ClockTask, NoTask, Timed
  <2>3. CASE tasks'[m].pc = "idle" /\ tasks'[m] = tasks[m]
    BY <2>1, <2>3 DEF ClockTask, Timed
  <2>4. CASE tasks'[m] = tasks[m] /\ Slack' = Slack /\ (Owner(m)' => Owner(m))
    BY <2>1, <2>4 DEF ClockTask
  <2> QED BY <2>2, <2>3, <2>4
<1> QED BY <1>1, <1>2 DEF ClockInv

LEMMA ClaimClock == ASSUME DeadlinesInv, ClockInv, NEW n \in Claims, Claim(n) PROVE ClockInv'
<1> DEFINE t == [NoTask EXCEPT !.pc = "spawned", !.claimed = now]
<1>1. /\ job.status = "queued" /\ tasks' = [tasks EXCEPT ![n] = t]
      /\ job' = [status |-> "leased", token |-> n, until |-> now + config.lease_timeout]
      /\ UNCHANGED <<builder, now, row, late>>
  BY DEF Claim
<1>2. tasks \in [Claims -> Task] /\ config' = config
  BY <1>1 DEF DeadlinesInv, TypeOK, builder
<1>3. ClockRow'
  BY <1>1, RowSame DEF ClockInv
<1>4. ClockTask(n, tasks[n])'
  <2>1. row.last_attempted_at <= now
    BY ClockFacts
  <2>2. tasks'[n] = t
    BY <1>1, <1>2
  <2>3. /\ tasks'[n].pc = "spawned" /\ tasks'[n].claimed = now
        /\ ~tasks'[n].blocked /\ tasks'[n].verdict = "none"
    BY <2>2 DEF NoTask
  <2> QED BY <1>1, <2>1, <2>3 DEF ClockTask, Timed
<1>5. ASSUME NEW m \in Claims, m # n PROVE ClockTask(m, tasks[m])'
  <2>1. tasks'[m] = tasks[m] /\ ClockTask(m, tasks[m])
    BY <1>1, <1>2, <1>5 DEF ClockInv
  <2>2. ~Owner(m)' /\ Slack' = Slack
    BY <1>1, <1>2, <1>5 DEF Owner, Slack
  <2> QED BY <1>1, <2>1, <2>2 DEF ClockTask
<1> QED BY <1>3, <1>4, <1>5 DEF ClockInv

LEMMA ClockStep == DeadlinesInv /\ ClockInv /\ [Next]_vars => ClockInv'
<1> SUFFICES ASSUME DeadlinesInv, ClockInv, [Next]_vars PROVE ClockInv'
  OBVIOUS
<1>0. now \in Nat /\ tasks \in [Claims -> Task] /\ job \in JobType
  BY DEF DeadlinesInv, TypeOK, Time, JobType
<1>1. ASSUME handler = 0, UNCHANGED <<now, tasks, row, late>> PROVE ClockInv'
  <2>1. \A m \in Claims : tasks[m].pc = "idle"
    BY <1>1 DEF DeadlinesInv, Dispatched
  <2> QED BY <1>0, <1>1, <2>1, ElsewhereClock
<1>2. CASE BuilderNext /\ UNCHANGED timed
  <2>1. outcome = "building"
    BY <1>2, BuilderStep DEF DeadlinesInv, TypeOK
  <2>2. handler = 0
    BY <2>1 DEF DeadlinesInv, Dispatched, Ready
  <2> QED BY <1>1, <1>2, <2>2 DEF timed
<1>3. ASSUME NEW i \in DOMAIN pending, Dispatch(i) PROVE ClockInv'
  BY <1>1, <1>3 DEF Dispatch
<1>4. ASSUME NEW n \in Claims, Report(n) PROVE ClockInv'
  <2>1. /\ UNCHANGED <<builder, now, row, late>> /\ tasks' = [tasks EXCEPT ![n] = NoTask]
    BY <1>4 DEF Report
  <2>2. \A m \in Claims : Owner(m)' => Owner(m)
    BY <1>0, <1>4 DEF Report, Owner, JobType
  <2>3. Slack' = Slack
    BY <2>1 DEF builder, Slack
  <2>4. \A m \in Claims : tasks'[m] = NoTask \/ tasks'[m] = tasks[m]
    BY <1>0, <2>1
  <2> QED BY <1>0, <2>1, <2>2, <2>3, <2>4, ElsewhereClock
<1>5. CASE Reap
  <2>1. UNCHANGED <<builder, now, tasks, row, late>> /\ job' = [job EXCEPT !.status = "queued"]
    BY <1>5 DEF Reap
  <2>2. Slack' = Slack /\ \A m \in Claims : ~Owner(m)'
    BY <1>0, <2>1 DEF builder, Slack, Owner, JobType
  <2> QED BY <1>0, <2>1, <2>2, ElsewhereClock
<1>6. CASE Crash
  BY <1>0, <1>6, ElsewhereClock DEF Crash
<1>7. CASE Tick
  <2>1. UNCHANGED <<builder, job, tasks, row, late>> /\ now' = now + 1
    BY <1>7 DEF Tick
  <2>2. Slack' = Slack /\ \A m \in Claims : Owner(m)' <=> Owner(m)
    BY <2>1 DEF builder, Slack, Owner
  <2> QED BY <1>0, <2>1, <2>2, ElsewhereClock
<1>8. CASE UNCHANGED vars
  <2>1. UNCHANGED <<config, now, job, tasks, row, late>>
    BY <1>8 DEF vars, builder, timed
  <2>2. Slack' = Slack /\ \A m \in Claims : Owner(m)' <=> Owner(m)
    BY <2>1 DEF Slack, Owner
  <2> QED BY <1>0, <2>1, <2>2, ElsewhereClock
<1>9. ASSUME NEW n \in Claims, Claim(n) \/ Wrapper(n) \/ OuterTimeout(n) PROVE ClockInv'
  BY <1>9, ClaimClock, FirstPollClock, BeginClock, FetchClock, HandlerClock, MarkLandsClock,
     OuterTimeoutClock DEF Wrapper
<1> QED BY <1>2, <1>3, <1>4, <1>5, <1>6, <1>7, <1>8, <1>9 DEF Next

\* handler_deliveries_temporal with now() in every stamp, for every
\* configuration the builder accepts and every schedule: as long as every task
\* is polled within lease_timeout - handler_timeout of its claim, the CHECK
\* refuses no claim and no mark, so no delivery is aborted by its own clock.
THEOREM RefusedOnlyLateHolds == Spec => []RefusedOnlyLate
<1>1. DeadlinesInv /\ ClockInv /\ [Next]_vars => ClockInv'
  BY ClockStep
<1>2. ClockInv => RefusedOnlyLate
  BY DEF ClockInv, ClockTask, RefusedOnlyLate
<1> QED BY InitClock, <1>1, <1>2, DeadlinesInvHolds, PTL DEF Spec
=============================================================================
