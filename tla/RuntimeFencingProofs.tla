------------------------ MODULE RuntimeFencingProofs ------------------------
(***************************************************************************)
(* Fencing works if a task runs its claim CTE before its lease runs out,   *)
(* under every other fault: FencingInv is inductive.  On top of it, pgwq's *)
(* table and the audit table settle together if moreover no statement      *)
(* fails and no task is cancelled, under every crash, reaped handler,      *)
(* redeployment and purge: SettlementInv is inductive.                     *)
(***************************************************************************)
EXTENDS RuntimeProofs

-----------------------------------------------------------------------------
(* One task moves.                                                         *)

\* What a step of task (d, n) may do to the row without harming the others.
LEMMA MoveFencing ==
    ASSUME FencingInv, NEW d \in Deliveries, NEW n \in Claims, NEW pc \in Phases \ {"claimed"},
           NEW o, Goto(d, n, pc, o), tasks[d][n].pc # "idle", UNCHANGED jobs,
           \A x \in Deliveries : x # d => rows'[x] = rows[x],
           \A m \in Claims : m # n /\ Owner(d, m) /\ Fence(rows[d], m) => Fence(rows'[d], m),
           pc \in {"handler", "mark"} /\ Owner(d, n) => Fence(rows'[d], n),
           \A m \in Claims :
              /\ tasks'[d][m].pc \in {"handler", "mark"} /\ rows'[d].status = "running"
              => m <= rows'[d].lease_token
    PROVE  LeasesGiven' /\ ClaimedOwns' /\ StampsAscend' /\ OwnerHoldsRow'
<1>1. /\ tasks'[d][n].pc = pc /\ tasks'[d][n].attempt = tasks[d][n].attempt
      /\ \A x \in Deliveries, m \in Claims : x # d \/ m # n => tasks'[x][m] = tasks[x][m]
  BY GotoEffect DEF FencingInv, HistoryInv
<1>2. \A x \in Deliveries, m \in Claims : Owner(x, m)' <=> Owner(x, m)
  BY DEF Owner
<1>3. LeasesGiven'
  <2> SUFFICES ASSUME NEW x \in Deliveries, NEW m \in Claims, tasks'[x][m].pc # "idle"
               PROVE  /\ jobs'[x].status # "absent" /\ m <= jobs'[x].token
                      /\ Owner(x, m)' => tasks'[x][m].attempt = jobs'[x].attempts
    BY DEF LeasesGiven
  <2>1. tasks[x][m].pc # "idle" /\ tasks'[x][m].attempt = tasks[x][m].attempt
    BY <1>1
  <2> QED
    BY <1>2, <2>1 DEF FencingInv, LeasesGiven
<1>4. ClaimedOwns'
  BY <1>1, <1>2 DEF FencingInv, ClaimedOwns
<1>5. StampsAscend'
  BY <1>1 DEF FencingInv, StampsAscend
<1>6. OwnerHoldsRow'
  <2> SUFFICES ASSUME NEW x \in Deliveries, NEW m \in Claims,
                      tasks'[x][m].pc \in {"handler", "mark"}, Owner(x, m)
               PROVE  Fence(rows'[x], m)
    BY <1>2 DEF OwnerHoldsRow, Owner
  <2>1. CASE x = d /\ m = n
    BY <1>1, <2>1
  <2>2. CASE x # d \/ m # n
    <3>1. Fence(rows[x], m)
      BY <1>1, <2>2 DEF FencingInv, OwnerHoldsRow, Owner
    <3> QED
      BY <2>2, <3>1
  <2> QED
    BY <2>1, <2>2
<1> QED
  BY <1>3, <1>4, <1>5, <1>6

\* The row is left alone and the task does not become an owner of it.
LEMMA MoveOnly ==
    ASSUME FencingInv, NEW d \in Deliveries, NEW n \in Claims, NEW pc \in {"mark", "report"},
           NEW o, Goto(d, n, pc, o), tasks[d][n].pc # "idle", UNCHANGED <<rows, jobs>>,
           pc = "mark" => tasks[d][n].pc = "handler"
    PROVE  LeasesGiven' /\ ClaimedOwns' /\ StampsAscend' /\ OwnerHoldsRow'
<1>1. /\ tasks'[d][n].pc = pc
      /\ \A x \in Deliveries, m \in Claims : x # d \/ m # n => tasks'[x][m] = tasks[x][m]
  BY GotoEffect DEF FencingInv, HistoryInv
<1>2. pc = "mark" /\ Owner(d, n) => Fence(rows'[d], n)
  BY DEF FencingInv, OwnerHoldsRow, Owner
<1>3. \A m \in Claims :
         /\ tasks'[d][m].pc \in {"handler", "mark"} /\ rows'[d].status = "running"
         => m <= rows'[d].lease_token
  BY <1>1 DEF FencingInv, StampsAscend
<1> QED
  BY <1>2, <1>3, MoveFencing DEF Phases

\* The claim CTE runs under a lease that is still held.
LEMMA MoveStamp ==
    ASSUME FencingInv, NEW d \in Deliveries, NEW n \in Claims, NEW pc \in Phases \ {"claimed"},
           NEW o, Goto(d, n, pc, o), tasks[d][n].pc = "claimed", StampRow(d, n), UNCHANGED jobs,
           pc # "report" => rows[d].status \in Active
    PROVE  LeasesGiven' /\ ClaimedOwns' /\ StampsAscend' /\ OwnerHoldsRow'
<1>0. TypeInv
  BY DEF FencingInv, HistoryInv
<1>1. /\ tasks'[d][n].pc = pc
      /\ \A m \in Claims : m # n => tasks'[d][m] = tasks[d][m]
  BY <1>0, GotoEffect
<1>2. /\ rows[d].status \in Active => rows'[d].status = "running" /\ rows'[d].lease_token = n
      /\ rows[d].status \notin Active => rows'[d] = rows[d]
      /\ \A x \in Deliveries : x # d => rows'[x] = rows[x]
  BY <1>0, StampEffect
<1>3. Owner(d, n)
  BY DEF FencingInv, ClaimedOwns
<1>4. \A m \in Claims : m # n => ~Owner(d, m)
  BY <1>3 DEF Owner
<1>5. pc \in {"handler", "mark"} => Fence(rows'[d], n)
  BY <1>2 DEF Fence
<1>6. ASSUME NEW m \in Claims, tasks'[d][m].pc \in {"handler", "mark"}, rows'[d].status = "running"
      PROVE  m <= rows'[d].lease_token
  <2>1. rows[d].status \in Active /\ rows'[d].lease_token = n
    BY <1>2, <1>6 DEF Active
  <2>2. m # n => m <= n
    BY <1>1, <1>3, <1>6 DEF FencingInv, LeasesGiven, Owner
  <2>3. m = n => m <= n
    BY RuntimeAssumption DEF Claims
  <2> QED
    BY <2>1, <2>2, <2>3
<1> QED
  BY <1>2, <1>4, <1>5, <1>6, MoveFencing

\* A mark lands only on a row that carries its own token.
LEMMA MoveMark ==
    ASSUME FencingInv, NEW d \in Deliveries, NEW n \in Claims,
           NEW o, Goto(d, n, "report", o), tasks[d][n].pc = "mark", MarkRow(d, n), UNCHANGED jobs
    PROVE  LeasesGiven' /\ ClaimedOwns' /\ StampsAscend' /\ OwnerHoldsRow'
<1>0. TypeInv
  BY DEF FencingInv, HistoryInv
<1>1. /\ tasks'[d][n].pc = "report"
      /\ \A m \in Claims : m # n => tasks'[d][m] = tasks[d][m]
  BY <1>0, GotoEffect
<1>2. /\ Fence(rows[d], n) => rows'[d].status # "running"
      /\ ~Fence(rows[d], n) => rows'[d] = rows[d]
      /\ \A x \in Deliveries : x # d => rows'[x] = rows[x]
  BY <1>0, MarkEffect DEF Terminal
<1>3. \A m \in Claims : m # n /\ Fence(rows[d], m) => Fence(rows'[d], m)
  BY <1>2 DEF Fence
<1>4. \A m \in Claims :
         /\ tasks'[d][m].pc \in {"handler", "mark"} /\ rows'[d].status = "running"
         => m <= rows'[d].lease_token
  BY <1>1, <1>2 DEF FencingInv, StampsAscend
<1> QED
  BY <1>2, <1>3, <1>4, MoveFencing DEF Phases

\* A task ends, and only the owner's report changes the job.
LEMMA EndFencing ==
    ASSUME FencingInv, NEW d \in Deliveries, NEW n \in Claims, tasks[d][n].pc = "report",
           EndTask(d, n), UNCHANGED rows,
           \A x \in Deliveries : x # d => jobs'[x] = jobs[x],
           jobs'[d] = jobs[d] \/
             (Owner(d, n) /\ jobs'[d].token = jobs[d].token
              /\ jobs'[d].status \in {"queued", "done", "dead"})
    PROVE  LeasesGiven' /\ ClaimedOwns' /\ StampsAscend' /\ OwnerHoldsRow'
<1>1. /\ tasks'[d][n].pc = "idle"
      /\ \A x \in Deliveries, m \in Claims : x # d \/ m # n => tasks'[x][m] = tasks[x][m]
  BY EndTaskEffect DEF FencingInv, HistoryInv
<1>2. \A x \in Deliveries, m \in Claims : Owner(x, m)' => Owner(x, m) /\ jobs'[x] = jobs[x]
  BY DEF Owner
<1>3. \A x \in Deliveries, m \in Claims :
         Owner(x, m) /\ ~Owner(x, m)' => x = d /\ m = n
  BY DEF Owner
<1>4. LeasesGiven'
  <2> SUFFICES ASSUME NEW x \in Deliveries, NEW m \in Claims, tasks'[x][m].pc # "idle"
               PROVE  /\ jobs'[x].status # "absent" /\ m <= jobs'[x].token
                      /\ Owner(x, m)' => tasks'[x][m].attempt = jobs'[x].attempts
    BY DEF LeasesGiven
  <2>1. tasks'[x][m] = tasks[x][m]
    BY <1>1
  <2>2. /\ jobs[x].status # "absent" /\ m <= jobs[x].token
        /\ Owner(x, m) => tasks[x][m].attempt = jobs[x].attempts
    BY <2>1 DEF FencingInv, LeasesGiven
  <2> QED
    BY <1>2, <2>1, <2>2
<1>5. ClaimedOwns'
  BY <1>1, <1>3 DEF FencingInv, ClaimedOwns
<1>6. StampsAscend'
  BY <1>1 DEF FencingInv, StampsAscend
<1>7. OwnerHoldsRow'
  BY <1>1, <1>2 DEF FencingInv, OwnerHoldsRow, Owner
<1> QED
  BY <1>4, <1>5, <1>6, <1>7

-----------------------------------------------------------------------------
(* The actions.                                                            *)

\* A step of the wrapper keeps the fence.
LEMMA WrapperFencing ==
    ASSUME FencingInv, NEW d \in Deliveries, NEW n \in Claims, Wrapper(d, n)
    PROVE  LeasesGiven' /\ ClaimedOwns' /\ StampsAscend' /\ OwnerHoldsRow'
<1>1. CASE RowMissing(d, n)
  BY <1>1, MoveStamp DEF RowMissing, Phases
<1>2. CASE AlreadyTerminal(d, n)
  BY <1>2, MoveStamp DEF AlreadyTerminal, Phases
<1>3. CASE StartHandler(d, n)
  BY <1>3, MoveStamp DEF StartHandler, Phases
<1>4. CASE HandlerNotRegistered(d, n)
  BY <1>4, MoveStamp DEF HandlerNotRegistered, Phases
<1>5. CASE HandlerReturns(d, n)
  BY <1>5, MoveOnly DEF HandlerReturns
<1>6. CASE MarkDelivery(d, n)
  BY <1>6, MoveMark DEF MarkDelivery
<1>7. CASE Report(d, n)
  <2> DEFINE j == ReportJob(jobs[d], n, tasks[d][n].outcome, MaxAttempts)
  <2>1. jobs[d] \in Job /\ tasks[d][n].outcome \in Verdicts
    BY <1>7 DEF Report, FencingInv, HistoryInv, TypeInv, TypeOK, PhaseOutcome
  <2>2. j = jobs[d] \/ (Owner(d, n) /\ j.token = jobs[d].token
                        /\ j.status \in {"queued", "done", "dead"})
    BY <2>1 DEF ReportJob, Owner, Job, Verdicts
  <2>3. jobs'[d] = j /\ \A x \in Deliveries : x # d => jobs'[x] = jobs[x]
    BY <1>7 DEF Report, FencingInv, HistoryInv, TypeInv, TypeOK
  <2> HIDE DEF j
  <2> QED
    BY <1>7, <2>2, <2>3, EndFencing DEF Report
<1> QED
  BY <1>1, <1>2, <1>3, <1>4, <1>5, <1>6, <1>7 DEF Wrapper

\* A failure keeps the fence.
LEMMA FailureFencing ==
    ASSUME FencingInv, NEW d \in Deliveries, NEW n \in Claims, Failure(d, n)
    PROVE  LeasesGiven' /\ ClaimedOwns' /\ StampsAscend' /\ OwnerHoldsRow'
<1>1. CASE FetchFails(d, n)
  BY <1>1, MoveOnly, MoveStamp DEF FetchFails, Phases
<1>2. CASE MarkFails(d, n)
  BY <1>2, MoveOnly, MoveMark DEF MarkFails
<1>3. CASE OuterTimeout(d, n)
  <2>1. tasks[d][n].pc # "idle"
    BY <1>3, RuntimeAssumption DEF OuterTimeout, Phases
  <2> QED
    BY <1>3, <2>1, MoveOnly, MoveStamp, MoveMark DEF OuterTimeout, Phases
<1>4. CASE ReportFails(d, n)
  BY <1>4, EndFencing DEF ReportFails
<1> QED
  BY <1>1, <1>2, <1>3, <1>4 DEF Failure

\* A claim gives out a lease newer than all others.
LEMMA ClaimFencing ==
    ASSUME FencingInv, NEW d \in Deliveries, Claim(d)
    PROVE  LeasesGiven' /\ ClaimedOwns' /\ StampsAscend' /\ OwnerHoldsRow'
<1> DEFINE k == jobs[d].token + 1
           t == [pc |-> "claimed", attempt |-> jobs[d].attempts + 1, outcome |-> "none"]
<1>0. TypeInv
  BY DEF FencingInv, HistoryInv
<1>1. jobs[d].token \in Nat
  BY <1>0 DEF TypeInv, TypeOK, Job
<1>2. /\ jobs'[d].status = "leased" /\ jobs'[d].token = k /\ jobs'[d].attempts = t.attempt
      /\ \A x \in Deliveries : x # d => jobs'[x] = jobs[x]
  BY <1>0 DEF Claim, ClaimJob, TypeInv, TypeOK
<1>3. t.pc = "claimed" /\ jobs[d].status = "queued"
  BY DEF Claim
<1>4. tasks' = [tasks EXCEPT ![d][k] = t]
  BY DEF Claim
<1>5. UNCHANGED rows
  BY DEF Claim
<1>6. \A m \in Claims : ~Owner(d, m)
  BY <1>3 DEF Owner
<1> HIDE DEF t
<1>7. \A x \in Deliveries, m \in Claims :
         IF x = d /\ m = k THEN tasks'[x][m] = t ELSE tasks'[x][m] = tasks[x][m]
  BY <1>0, <1>4 DEF TypeInv, TypeOK
<1>8. ASSUME NEW x \in Deliveries, NEW m \in Claims, ~(x = d /\ m = k), tasks'[x][m].pc # "idle"
      PROVE  Owner(x, m)' <=> Owner(x, m)
  <2>1. CASE x = d
    BY <1>2, <1>6, <1>8, <2>1 DEF Owner
  <2>2. CASE x # d
    BY <1>2, <2>2 DEF Owner
  <2> QED
    BY <2>1, <2>2
<1>9. Claims \subseteq Nat
  BY RuntimeAssumption DEF Claims
<1>10. LeasesGiven'
  <2> SUFFICES ASSUME NEW x \in Deliveries, NEW m \in Claims, tasks'[x][m].pc # "idle"
               PROVE  /\ jobs'[x].status # "absent" /\ m <= jobs'[x].token
                      /\ Owner(x, m)' => tasks'[x][m].attempt = jobs'[x].attempts
    BY DEF LeasesGiven
  <2>1. CASE x = d /\ m = k
    BY <1>1, <1>2, <1>7, <2>1
  <2>2. CASE ~(x = d /\ m = k)
    <3>1. tasks'[x][m] = tasks[x][m]
      BY <1>7, <2>2
    <3>2. /\ jobs[x].status # "absent" /\ m <= jobs[x].token
          /\ Owner(x, m) => tasks[x][m].attempt = jobs[x].attempts
      BY <3>1 DEF FencingInv, LeasesGiven
    <3>3. Owner(x, m)' <=> Owner(x, m)
      BY <1>8, <2>2
    <3>4. jobs'[x].status # "absent" /\ m <= jobs'[x].token
      BY <1>1, <1>2, <1>9, <3>2
    <3> QED
      BY <1>2, <1>6, <3>1, <3>2, <3>3, <3>4
  <2> QED
    BY <2>1, <2>2
<1>11. ClaimedOwns'
  <2> SUFFICES ASSUME NEW x \in Deliveries, NEW m \in Claims, tasks'[x][m].pc = "claimed"
               PROVE  Owner(x, m)'
    BY DEF ClaimedOwns
  <2>1. CASE x = d /\ m = k
    BY <1>2, <2>1 DEF Owner
  <2>2. CASE ~(x = d /\ m = k)
    BY <1>7, <1>8, <2>2 DEF FencingInv, ClaimedOwns
  <2> QED
    BY <2>1, <2>2
<1>12. StampsAscend'
  BY <1>3, <1>5, <1>7 DEF FencingInv, StampsAscend
<1>13. OwnerHoldsRow'
  <2> SUFFICES ASSUME NEW x \in Deliveries, NEW m \in Claims,
                      tasks'[x][m].pc \in {"handler", "mark"}, Owner(x, m)'
               PROVE  Fence(rows[x], m)
    BY <1>5 DEF OwnerHoldsRow, Owner
  <2>1. ~(x = d /\ m = k) /\ tasks'[x][m] = tasks[x][m]
    BY <1>3, <1>7
  <2>2. Owner(x, m)
    BY <1>8, <2>1
  <2> QED
    BY <2>1, <2>2 DEF FencingInv, OwnerHoldsRow, Owner
<1> QED
  BY <1>10, <1>11, <1>12, <1>13

\* The reaper takes a lease from nobody who has not stamped the row yet.
LEMMA ReapFencing ==
    ASSUME ClaimsInTime, FencingInv, NEW d \in Deliveries, Reap(d)
    PROVE  LeasesGiven' /\ ClaimedOwns' /\ StampsAscend' /\ OwnerHoldsRow'
<1>1. PICK mode \in Reaping : jobs' = [jobs EXCEPT ![d] = ReapJob(@, mode)]
  BY DEF Reap
<1>2. jobs[d] \in Job
  BY DEF FencingInv, HistoryInv, TypeInv, TypeOK
<1>3. ReapJob(jobs[d], mode).status = "queued" /\ ReapJob(jobs[d], mode).token = jobs[d].token
  BY <1>2 DEF ReapJob, Job
<1>4. /\ jobs'[d].status = "queued" /\ jobs'[d].token = jobs[d].token
      /\ \A x \in Deliveries : x # d => jobs'[x] = jobs[x]
  BY <1>1, <1>3 DEF FencingInv, HistoryInv, TypeInv, TypeOK
<1>5. UNCHANGED <<rows, tasks>>
  BY DEF Reap
<1>6. \A x \in Deliveries, m \in Claims : Owner(x, m)' => Owner(x, m) /\ jobs'[x] = jobs[x]
  BY <1>4 DEF Owner
<1>7. LeasesGiven'
  <2> SUFFICES ASSUME NEW x \in Deliveries, NEW m \in Claims, tasks[x][m].pc # "idle"
               PROVE  /\ jobs'[x].status # "absent" /\ m <= jobs'[x].token
                      /\ Owner(x, m)' => tasks[x][m].attempt = jobs'[x].attempts
    BY <1>5 DEF LeasesGiven
  <2>1. /\ jobs[x].status # "absent" /\ m <= jobs[x].token
        /\ Owner(x, m) => tasks[x][m].attempt = jobs[x].attempts
    BY DEF FencingInv, LeasesGiven
  <2> QED
    BY <1>4, <1>6, <2>1
<1>8. ClaimedOwns'
  <2> SUFFICES ASSUME NEW x \in Deliveries, NEW m \in Claims, tasks[x][m].pc = "claimed"
               PROVE  Owner(x, m)'
    BY <1>5 DEF ClaimedOwns
  <2>1. Owner(x, m)
    BY DEF FencingInv, ClaimedOwns
  <2>2. x # d
    BY <2>1 DEF Owner, Reap, ClaimsInTime
  <2> QED
    BY <1>4, <2>1, <2>2 DEF Owner
<1>9. StampsAscend'
  BY <1>5 DEF FencingInv, StampsAscend
<1>10. OwnerHoldsRow'
  BY <1>5, <1>6 DEF FencingInv, OwnerHoldsRow, Owner
<1> QED
  BY <1>7, <1>8, <1>9, <1>10

\* Dispatch, purges, crash and restart keep the fence.
LEMMA EnvironmentFencing ==
    ASSUME FencingInv,
           \/ \E d \in Deliveries : PurgeTerminalDelivery(d)
           \/ \E e \in Events : DispatchCommit(e) \/ PurgeEvent(e)
           \/ Crash
           \/ Restart
    PROVE  LeasesGiven' /\ ClaimedOwns' /\ StampsAscend' /\ OwnerHoldsRow'
<1>0. TypeInv
  BY DEF FencingInv, HistoryInv
<1>1. ASSUME UNCHANGED <<jobs, tasks>>,
             \A x \in Deliveries : \/ rows'[x] = rows[x]
                                   \/ rows[x].status # "running" /\ rows'[x].status # "running"
      PROVE  LeasesGiven' /\ ClaimedOwns' /\ StampsAscend' /\ OwnerHoldsRow'
  <2>1. LeasesGiven' /\ ClaimedOwns'
    BY <1>1 DEF FencingInv, LeasesGiven, ClaimedOwns, Owner
  <2>2. StampsAscend'
    BY <1>1 DEF FencingInv, StampsAscend
  <2>3. OwnerHoldsRow'
    BY <1>1 DEF FencingInv, OwnerHoldsRow, Fence
  <2> QED
    BY <2>1, <2>2, <2>3
<1>2. ASSUME NEW d \in Deliveries, PurgeTerminalDelivery(d)
      PROVE  LeasesGiven' /\ ClaimedOwns' /\ StampsAscend' /\ OwnerHoldsRow'
  <2>1. \A x \in Deliveries : \/ rows'[x] = rows[x]
                              \/ rows[x].status # "running" /\ rows'[x].status # "running"
    BY <1>0, <1>2 DEF PurgeTerminalDelivery, NoRow, Absent, Terminal, TypeInv, TypeOK
  <2> QED
    BY <1>1, <1>2, <2>1 DEF PurgeTerminalDelivery
<1>3. ASSUME NEW e \in Events, PurgeEvent(e)
      PROVE  LeasesGiven' /\ ClaimedOwns' /\ StampsAscend' /\ OwnerHoldsRow'
  <2>1. \A x \in Deliveries : x[1] = e => rows[x].status \notin Active
    BY <1>3 DEF PurgeEvent, NoActiveDelivery, Deliveries
  <2>2. \A x \in Deliveries : \/ rows'[x] = rows[x]
                              \/ rows[x].status # "running" /\ rows'[x].status # "running"
    BY <1>3, <2>1 DEF PurgeEvent, NoRow, Absent, Active
  <2> QED
    BY <1>1, <1>3, <2>2 DEF PurgeEvent
<1>4. ASSUME NEW e \in Events, DispatchCommit(e)
      PROVE  LeasesGiven' /\ ClaimedOwns' /\ StampsAscend' /\ OwnerHoldsRow'
  <2>1. ASSUME NEW x \in Deliveries
        PROVE  \/ rows'[x] = rows[x] /\ jobs'[x] = jobs[x]
               \/ \A m \in Claims : tasks[x][m].pc = "idle"
    <3>1. CASE x[1] = e
      BY <1>4, <3>1 DEF DispatchCommit, FencingInv, HistoryInv, FreshEvents, Undispatched,
         LeasesGiven
    <3>2. CASE x[1] # e
      BY <1>4, <3>2 DEF DispatchCommit
    <3> QED
      BY <3>1, <3>2
  <2>2. UNCHANGED tasks
    BY <1>4 DEF DispatchCommit
  <2>3. LeasesGiven' /\ ClaimedOwns'
    BY <2>1, <2>2 DEF FencingInv, LeasesGiven, ClaimedOwns, Owner
  <2>4. StampsAscend' /\ OwnerHoldsRow'
    BY <2>1, <2>2 DEF FencingInv, StampsAscend, OwnerHoldsRow
  <2> QED
    BY <2>3, <2>4
<1>5. CASE Crash
  <2>1. \A x \in Deliveries, m \in Claims : tasks'[x][m].pc = "idle"
    BY <1>5 DEF Crash, NoTask
  <2> QED
    BY <2>1 DEF LeasesGiven, ClaimedOwns, StampsAscend, OwnerHoldsRow
<1>6. CASE Restart
  BY <1>1, <1>6 DEF Restart
<1> QED
  BY <1>2, <1>3, <1>4, <1>5, <1>6

\* FencingInv is inductive.
LEMMA FencingInductive ==
    ASSUME ClaimsInTime
    PROVE  /\ Init => FencingInv
           /\ FencingInv /\ [Next]_vars => FencingInv'
<1>1. ASSUME Init PROVE FencingInv
  <2>1. \A x \in Deliveries, m \in Claims : tasks[x][m].pc = "idle"
    BY <1>1 DEF Init, NoTask
  <2> QED
    BY <1>1, <2>1, HistoryInductive
    DEF FencingInv, LeasesGiven, ClaimedOwns, StampsAscend, OwnerHoldsRow
<1>2. ASSUME FencingInv, [Next]_vars PROVE FencingInv'
  <2>1. HistoryInv'
    BY <1>2, HistoryInductive DEF FencingInv
  <2>2. LeasesGiven' /\ ClaimedOwns' /\ StampsAscend' /\ OwnerHoldsRow'
    <3>1. CASE UNCHANGED vars
      BY <1>2, <3>1 DEF vars, FencingInv, LeasesGiven, ClaimedOwns, StampsAscend, OwnerHoldsRow,
         Owner
    <3>2. CASE Next
      BY <1>2, <3>2, WrapperFencing, FailureFencing, ClaimFencing, ReapFencing,
         EnvironmentFencing DEF Next
    <3> QED
      BY <1>2, <3>1, <3>2
  <2> QED
    BY <2>1, <2>2 DEF FencingInv
<1> QED
  BY <1>1, <1>2

-----------------------------------------------------------------------------
(* The theorems about fencing.                                             *)

\* If no lease runs out before the claim CTE, the task that holds the lease
\* holds the audit row from its claim to its mark, under every fault, crash,
\* cancellation and reaped handler.
THEOREM OwnerHoldsRowHolds ==
    ASSUME ClaimsInTime
    PROVE  Spec => []OwnerHoldsRow
<1>1. FencingInv => OwnerHoldsRow
  BY DEF FencingInv
<1> QED
  BY <1>1, FencingInductive, PTL DEF Spec

\* And the mark of a task whose row was stamped by a newer lease changes
\* nothing, as README.md:254 promises.
THEOREM StaleMarkIsFencedHolds ==
    ASSUME ClaimsInTime
    PROVE  Spec => StaleMarkIsFenced
<1> DEFINE A == \A d \in Deliveries, n, m \in Claims :
                  /\ tasks[d][n].pc = "mark" /\ tasks'[d][n].pc = "report"
                  /\ n < m /\ tasks[d][m].pc \in {"handler", "mark"}
                  => rows'[d] = rows[d]
<1>1. ASSUME FencingInv, [Next]_vars PROVE A
  <2> SUFFICES ASSUME NEW d \in Deliveries, NEW n \in Claims, NEW m \in Claims,
                      tasks[d][n].pc = "mark", tasks'[d][n].pc = "report",
                      n < m, tasks[d][m].pc \in {"handler", "mark"}
               PROVE  rows'[d] = rows[d]
    OBVIOUS
  <2>0. TypeInv
    BY <1>1 DEF FencingInv, HistoryInv
  <2>1. ~Fence(rows[d], n)
    <3>1. n \in Nat /\ m \in Nat /\ rows[d].lease_token \in Nat
      BY <2>0, RuntimeAssumption DEF Claims, TypeInv, TypeOK, Row
    <3>2. rows[d].status = "running" => m <= rows[d].lease_token
      BY <1>1 DEF FencingInv, StampsAscend
    <3> QED
      BY <3>1, <3>2 DEF Fence
  <2>2. ASSUME NEW x \in Deliveries, NEW k \in Claims, NEW pc, NEW o, Goto(x, k, pc, o)
        PROVE  x = d /\ k = n
    BY <2>0, <2>2, GotoEffect
  <2>3. ASSUME NEW x \in Deliveries, NEW k \in Claims, EndTask(x, k)
        PROVE  FALSE
    BY <2>0, <2>3, EndTaskEffect
  <2>4. MarkRow(d, n) => rows'[d] = rows[d]
    BY <2>0, <2>1, MarkEffect
  <2>5. ASSUME NEW x \in Deliveries, NEW k \in Claims, Wrapper(x, k)
        PROVE  rows'[d] = rows[d]
    <3>1. CASE RowMissing(x, k) \/ AlreadyTerminal(x, k) \/ StartHandler(x, k)
               \/ HandlerNotRegistered(x, k)
      BY <2>2, <3>1 DEF RowMissing, AlreadyTerminal, StartHandler, HandlerNotRegistered
    <3>2. CASE HandlerReturns(x, k)
      BY <3>2 DEF HandlerReturns
    <3>3. CASE MarkDelivery(x, k)
      BY <2>2, <2>4, <3>3 DEF MarkDelivery
    <3>4. CASE Report(x, k)
      BY <2>3, <3>4 DEF Report
    <3> QED
      BY <2>5, <3>1, <3>2, <3>3, <3>4 DEF Wrapper
  <2>6. ASSUME NEW x \in Deliveries, NEW k \in Claims, Failure(x, k)
        PROVE  rows'[d] = rows[d]
    <3>1. CASE FetchFails(x, k)
      BY <2>2, <3>1 DEF FetchFails
    <3>2. CASE MarkFails(x, k)
      BY <2>2, <2>4, <3>2 DEF MarkFails
    <3>3. CASE OuterTimeout(x, k)
      BY <2>2, <2>4, <3>3 DEF OuterTimeout
    <3>4. CASE ReportFails(x, k)
      BY <2>3, <3>4 DEF ReportFails
    <3> QED
      BY <2>6, <3>1, <3>2, <3>3, <3>4 DEF Failure
  <2>7. ASSUME NEW x \in Deliveries, Claim(x) \/ Reap(x) \/ PurgeTerminalDelivery(x)
        PROVE  rows'[d] = rows[d]
    BY <2>0, <2>7 DEF Claim, Reap, PurgeTerminalDelivery
  <2>8. ASSUME NEW e \in Events, DispatchCommit(e) \/ PurgeEvent(e)
        PROVE  rows'[d] = rows[d]
    BY <2>8 DEF DispatchCommit, PurgeEvent
  <2>9. CASE Crash \/ Restart \/ UNCHANGED vars
    BY <2>9 DEF Crash, Restart, vars
  <2> QED
    BY <1>1, <2>5, <2>6, <2>7, <2>8, <2>9 DEF Next
<1> QED
  BY <1>1, FencingInductive, PTL DEF Spec, StaleMarkIsFenced

-----------------------------------------------------------------------------
(* Settlement: the building blocks.                                        *)

\* A row that only changes while it is active, or by a purge, disturbs no job
\* that has ended.
LEMMA EndedJobsKept ==
    ASSUME SettlementInv, UNCHANGED jobs,
           \A x \in Deliveries : \/ rows'[x] = rows[x]
                                 \/ rows[x].status \in Active
                                 \/ rows'[x].status = Absent
    PROVE  SettledTogether' /\ NoDeadSent'
<1>1. Absent \notin Active /\ Absent # "sent"
  BY DEF Absent, Active
<1>2. SettledTogether'
  BY <1>1 DEF SettlementInv, SettledTogether
<1>3. NoDeadSent'
  BY <1>1 DEF SettlementInv, SettledTogether, NoDeadSent
<1> QED
  BY <1>2, <1>3

\* What is left to show when one task moves on: that its report is honest.
LEMMA MoveSettlement ==
    ASSUME SettlementInv, NEW d \in Deliveries, NEW n \in Claims, NEW pc, NEW o,
           Goto(d, n, pc, o), UNCHANGED <<events, jobs>>,
           \A x \in Deliveries : x # d => rows'[x] = rows[x],
           rows[d].status \notin Active => rows'[d] = rows[d],
           /\ pc = "report" /\ Owner(d, n)
           /\ o \in {"ok", "abort"} \/ (o = "retry" /\ tasks[d][n].attempt >= MaxAttempts)
           => rows'[d].status \notin Active /\ (o # "ok" => rows'[d].status # "sent")
    PROVE  RowsHaveEvents' /\ ReportAgrees' /\ SettledTogether' /\ NoDeadSent'
<1>1. /\ tasks'[d][n].pc = pc /\ tasks'[d][n].outcome = o
      /\ tasks'[d][n].attempt = tasks[d][n].attempt
      /\ \A x \in Deliveries, m \in Claims : x # d \/ m # n => tasks'[x][m] = tasks[x][m]
  BY GotoEffect DEF SettlementInv, FencingInv, HistoryInv
<1>2. RowsHaveEvents'
  BY DEF SettlementInv, RowsHaveEvents, Absent, Active
<1>3. ReportAgrees'
  <2> SUFFICES ASSUME NEW x \in Deliveries, NEW m \in Claims,
                      tasks'[x][m].pc = "report", Owner(x, m)', EndsJob(x, m)'
               PROVE  /\ rows'[x].status \notin Active
                      /\ tasks'[x][m].outcome # "ok" => rows'[x].status # "sent"
    BY DEF ReportAgrees
  <2>1. Owner(x, m)
    BY DEF Owner
  <2>2. CASE x = d /\ m = n
    BY <1>1, <2>1, <2>2 DEF EndsJob
  <2>3. CASE x # d \/ m # n
    <3>1. tasks'[x][m] = tasks[x][m]
      BY <1>1, <2>3
    <3>2. EndsJob(x, m)
      BY <3>1 DEF EndsJob
    <3>3. /\ rows[x].status \notin Active
          /\ tasks[x][m].outcome # "ok" => rows[x].status # "sent"
      BY <2>1, <3>1, <3>2 DEF SettlementInv, ReportAgrees
    <3>4. rows'[x] = rows[x]
      BY <3>3
    <3> QED
      BY <3>1, <3>3, <3>4
  <2> QED
    BY <2>2, <2>3
<1>4. SettledTogether' /\ NoDeadSent'
  BY EndedJobsKept
<1> QED
  BY <1>2, <1>3, <1>4

-----------------------------------------------------------------------------
(* The actions.                                                            *)

\* The claim CTE runs for a job that is leased.
LEMMA FetchSettlement ==
    ASSUME SettlementInv, NEW d \in Deliveries, NEW n \in Claims,
           \/ RowMissing(d, n)
           \/ AlreadyTerminal(d, n)
           \/ StartHandler(d, n)
           \/ HandlerNotRegistered(d, n)
    PROVE  RowsHaveEvents' /\ ReportAgrees' /\ SettledTogether' /\ NoDeadSent'
<1>1. /\ rows[d].status \notin Active => rows'[d] = rows[d]
      /\ \A x \in Deliveries : x # d => rows'[x] = rows[x]
  BY StampEffect DEF RowMissing, AlreadyTerminal, StartHandler, HandlerNotRegistered,
     SettlementInv, FencingInv, HistoryInv
<1>2. CASE RowMissing(d, n)
  <2>1. rows[d].status = Absent
    BY <1>2 DEF RowMissing, SettlementInv, RowsHaveEvents
  <2>2. rows'[d].status \notin Active /\ rows'[d].status # "sent"
    BY <1>1, <2>1 DEF Absent, Active
  <2> QED
    BY <1>1, <1>2, <2>2, MoveSettlement DEF RowMissing
<1>3. CASE AlreadyTerminal(d, n)
  <2>1. rows'[d].status \notin Active
    BY <1>1, <1>3 DEF AlreadyTerminal, Active, Terminal
  <2> QED
    BY <1>1, <1>3, <2>1, MoveSettlement DEF AlreadyTerminal
<1>4. CASE StartHandler(d, n)
  BY <1>1, <1>4, MoveSettlement DEF StartHandler
<1>5. CASE HandlerNotRegistered(d, n)
  BY <1>1, <1>5, MoveSettlement DEF HandlerNotRegistered
<1> QED
  BY <1>2, <1>3, <1>4, <1>5

\* The owner's mark lands, and writes the status that pgwq will agree with.
LEMMA MarkSettlement ==
    ASSUME SettlementInv, NEW d \in Deliveries, NEW n \in Claims, MarkDelivery(d, n)
    PROVE  RowsHaveEvents' /\ ReportAgrees' /\ SettledTogether' /\ NoDeadSent'
<1> DEFINE o == tasks[d][n].outcome
           a == tasks[d][n].attempt
<1>0. TypeInv /\ tasks[d][n].pc = "mark" /\ MarkRow(d, n)
  BY DEF MarkDelivery, SettlementInv, FencingInv, HistoryInv
<1>1. /\ o \in HandlerResults
      /\ Fence(rows[d], n) => rows'[d].status = MarkStatus(o, a)
      /\ ~Fence(rows[d], n) => rows'[d] = rows[d]
      /\ \A x \in Deliveries : x # d => rows'[x] = rows[x]
  BY <1>0, MarkEffect
<1>2. rows[d].status \notin Active => rows'[d] = rows[d]
  BY <1>1 DEF Fence, Active
<1>3. Owner(d, n) => rows'[d].status = MarkStatus(o, a)
  BY <1>0, <1>1 DEF Owner, SettlementInv, FencingInv, OwnerHoldsRow
<1>4. ASSUME JobVerdict(o) \in {"ok", "abort"} \/ (JobVerdict(o) = "retry" /\ a >= MaxAttempts)
      PROVE  /\ MarkStatus(o, a) \notin Active
             /\ JobVerdict(o) # "ok" => MarkStatus(o, a) # "sent"
  BY <1>1, <1>4 DEF HandlerResults, JobVerdict, MarkStatus, Active
<1> HIDE DEF o, a
<1>5. Goto(d, n, "report", JobVerdict(o)) /\ UNCHANGED <<events, jobs>>
  BY DEF MarkDelivery, o
<1> QED
  BY <1>1, <1>2, <1>3, <1>4, <1>5, MoveSettlement DEF a

\* The owner's verdict ends the job only when the row is settled.
LEMMA ReportSettlement ==
    ASSUME SettlementInv, NEW d \in Deliveries, NEW n \in Claims, Report(d, n)
    PROVE  RowsHaveEvents' /\ ReportAgrees' /\ SettledTogether' /\ NoDeadSent'
<1> DEFINE j == ReportJob(jobs[d], n, tasks[d][n].outcome, MaxAttempts)
<1>0. TypeInv
  BY DEF SettlementInv, FencingInv, HistoryInv
<1>1. /\ tasks'[d][n].pc = "idle"
      /\ \A x \in Deliveries, m \in Claims : x # d \/ m # n => tasks'[x][m] = tasks[x][m]
  BY <1>0, EndTaskEffect DEF Report
<1>2. jobs'[d] = j /\ \A x \in Deliveries : x # d => jobs'[x] = jobs[x]
  BY <1>0 DEF Report, TypeInv, TypeOK
<1>3. UNCHANGED <<events, rows>> /\ tasks[d][n].pc = "report"
  BY DEF Report
<1>4. jobs[d] \in Job /\ tasks[d][n].outcome \in Verdicts
  BY <1>0, <1>3 DEF TypeInv, TypeOK, PhaseOutcome
<1>5. Owner(d, n) => tasks[d][n].attempt = jobs[d].attempts
  BY <1>3 DEF SettlementInv, FencingInv, LeasesGiven
<1>6. \/ j = jobs[d]
      \/ Owner(d, n) /\ j.status = "queued"
      \/ Owner(d, n) /\ j.status = "done" /\ tasks[d][n].outcome = "ok"
      \/ Owner(d, n) /\ j.status = "dead" /\ tasks[d][n].outcome # "ok" /\ EndsJob(d, n)
  BY <1>4, <1>5 DEF ReportJob, Owner, Job, Verdicts, EndsJob
<1> HIDE DEF j
<1>7. RowsHaveEvents'
  BY <1>3 DEF SettlementInv, RowsHaveEvents
<1>8. ReportAgrees'
  <2> SUFFICES ASSUME NEW x \in Deliveries, NEW m \in Claims,
                      tasks'[x][m].pc = "report", Owner(x, m)', EndsJob(x, m)'
               PROVE  /\ rows[x].status \notin Active
                      /\ tasks'[x][m].outcome # "ok" => rows[x].status # "sent"
    BY <1>3 DEF ReportAgrees
  <2>1. tasks'[x][m] = tasks[x][m]
    BY <1>1
  <2>2. Owner(x, m)
    BY <1>2, <1>6 DEF Owner
  <2>3. EndsJob(x, m)
    BY <2>1 DEF EndsJob
  <2> QED
    BY <2>1, <2>2, <2>3 DEF SettlementInv, ReportAgrees
<1>9. /\ jobs'[d].status \in {"done", "dead"} => rows[d].status \notin Active
      /\ jobs'[d].status = "dead" => rows[d].status # "sent"
  <2>1. tasks[d][n].outcome = "ok" => EndsJob(d, n)
    BY DEF EndsJob
  <2>2. Owner(d, n) /\ EndsJob(d, n) =>
           /\ rows[d].status \notin Active
           /\ tasks[d][n].outcome # "ok" => rows[d].status # "sent"
    BY <1>3 DEF SettlementInv, ReportAgrees
  <2> QED
    BY <1>2, <1>6, <2>1, <2>2 DEF SettlementInv, SettledTogether, NoDeadSent
<1>10. SettledTogether' /\ NoDeadSent'
  BY <1>2, <1>3, <1>9 DEF SettlementInv, SettledTogether, NoDeadSent
<1> QED
  BY <1>7, <1>8, <1>10

\* pgwq's poll loop and reaper give out and take away leases, and end no job.
LEMMA QueueSettlement ==
    ASSUME SettlementInv, NEW d \in Deliveries, Claim(d) \/ Reap(d)
    PROVE  RowsHaveEvents' /\ ReportAgrees' /\ SettledTogether' /\ NoDeadSent'
<1>0. TypeInv
  BY DEF SettlementInv, FencingInv, HistoryInv
<1>1. UNCHANGED <<events, rows>>
  BY DEF Claim, Reap
<1>2. /\ \A x \in Deliveries : x # d => jobs'[x] = jobs[x]
      /\ jobs'[d].status \in {"queued", "leased"}
      /\ \A m \in Claims : Owner(d, m)' => tasks'[d][m].pc = "claimed"
  <2>1. CASE Claim(d)
    <3> DEFINE k == jobs[d].token + 1
               t == [pc |-> "claimed", attempt |-> jobs[d].attempts + 1, outcome |-> "none"]
    <3>1. t.pc = "claimed"
      OBVIOUS
    <3>2. tasks' = [tasks EXCEPT ![d][k] = t]
      BY <2>1 DEF Claim
    <3>3. /\ jobs'[d].status = "leased" /\ jobs'[d].token = k
          /\ \A x \in Deliveries : x # d => jobs'[x] = jobs[x]
      BY <1>0, <2>1 DEF Claim, ClaimJob, TypeInv, TypeOK
    <3> HIDE DEF k, t
    <3>4. k \in Claims => tasks'[d][k] = t
      BY <1>0, <3>2 DEF TypeInv, TypeOK
    <3> QED
      BY <3>1, <3>3, <3>4 DEF Owner
  <2>2. CASE Reap(d)
    <3>1. PICK mode \in Reaping : jobs' = [jobs EXCEPT ![d] = ReapJob(@, mode)]
      BY <2>2 DEF Reap
    <3>2. ReapJob(jobs[d], mode).status = "queued"
      BY <1>0 DEF ReapJob, Job, TypeInv, TypeOK
    <3>3. jobs'[d].status = "queued" /\ \A x \in Deliveries : x # d => jobs'[x] = jobs[x]
      BY <1>0, <3>1, <3>2 DEF TypeInv, TypeOK
    <3> QED
      BY <3>3 DEF Owner
  <2> QED
    BY <2>1, <2>2
<1>3. \A x \in Deliveries, m \in Claims : x # d => tasks'[x][m] = tasks[x][m]
  <2>1. CASE Claim(d)
    <3> DEFINE k == jobs[d].token + 1
               t == [pc |-> "claimed", attempt |-> jobs[d].attempts + 1, outcome |-> "none"]
    <3>1. tasks' = [tasks EXCEPT ![d][k] = t]
      BY <2>1 DEF Claim
    <3> HIDE DEF k, t
    <3> QED
      BY <1>0, <3>1 DEF TypeInv, TypeOK
  <2>2. CASE Reap(d)
    BY <2>2 DEF Reap
  <2> QED
    BY <2>1, <2>2
<1>4. RowsHaveEvents'
  BY <1>1 DEF SettlementInv, RowsHaveEvents
<1>5. ReportAgrees'
  <2> SUFFICES ASSUME NEW x \in Deliveries, NEW m \in Claims,
                      tasks'[x][m].pc = "report", Owner(x, m)', EndsJob(x, m)'
               PROVE  /\ rows[x].status \notin Active
                      /\ tasks'[x][m].outcome # "ok" => rows[x].status # "sent"
    BY <1>1 DEF ReportAgrees
  <2>1. x # d /\ tasks'[x][m] = tasks[x][m] /\ jobs'[x] = jobs[x]
    BY <1>2, <1>3
  <2>2. Owner(x, m)
    BY <2>1 DEF Owner
  <2>3. EndsJob(x, m)
    BY <2>1 DEF EndsJob
  <2> QED
    BY <2>1, <2>2, <2>3 DEF SettlementInv, ReportAgrees
<1>6. SettledTogether' /\ NoDeadSent'
  BY <1>1, <1>2 DEF SettlementInv, SettledTogether, NoDeadSent
<1> QED
  BY <1>4, <1>5, <1>6

\* Purges only remove what is settled; dispatch only adds what was not there;
\* a crash leaves both tables as they are.
LEMMA EnvironmentSettlement ==
    ASSUME SettlementInv,
           \/ \E d \in Deliveries : PurgeTerminalDelivery(d)
           \/ \E e \in Events : DispatchCommit(e) \/ PurgeEvent(e)
           \/ Crash
           \/ Restart
    PROVE  RowsHaveEvents' /\ ReportAgrees' /\ SettledTogether' /\ NoDeadSent'
<1>0. TypeInv
  BY DEF SettlementInv, FencingInv, HistoryInv
<1>1. Absent \notin Active /\ Absent # "sent"
  BY DEF Absent, Active
<1>2. ASSUME UNCHANGED <<jobs, tasks>>,
             \A x \in Deliveries : rows'[x] = rows[x] \/ rows'[x].status = Absent
      PROVE  ReportAgrees' /\ SettledTogether' /\ NoDeadSent'
  <2>1. ReportAgrees'
    BY <1>1, <1>2 DEF SettlementInv, ReportAgrees, Owner, EndsJob
  <2> QED
    BY <1>2, <2>1, EndedJobsKept
<1>3. ASSUME NEW d \in Deliveries, PurgeTerminalDelivery(d)
      PROVE  RowsHaveEvents' /\ ReportAgrees' /\ SettledTogether' /\ NoDeadSent'
  <2>1. \A x \in Deliveries : rows'[x] = rows[x] \/ rows'[x].status = Absent
    BY <1>0, <1>3 DEF PurgeTerminalDelivery, NoRow, TypeInv, TypeOK
  <2>2. RowsHaveEvents'
    BY <1>3, <2>1 DEF PurgeTerminalDelivery, SettlementInv, RowsHaveEvents
  <2> QED
    BY <1>2, <1>3, <2>1, <2>2 DEF PurgeTerminalDelivery
<1>4. ASSUME NEW e \in Events, PurgeEvent(e)
      PROVE  RowsHaveEvents' /\ ReportAgrees' /\ SettledTogether' /\ NoDeadSent'
  <2>1. \A x \in Deliveries :
           /\ rows'[x] = rows[x] \/ rows'[x].status = Absent
           /\ x[1] # e => rows'[x] = rows[x] /\ events'[x[1]] = events[x[1]]
           /\ x[1] = e => rows'[x].status = Absent
    BY <1>0, <1>4 DEF PurgeEvent, NoRow, Deliveries, TypeInv, TypeOK
  <2>2. RowsHaveEvents'
    BY <2>1 DEF SettlementInv, RowsHaveEvents
  <2> QED
    BY <1>2, <1>4, <2>1, <2>2 DEF PurgeEvent
<1>5. ASSUME NEW e \in Events, DispatchCommit(e)
      PROVE  RowsHaveEvents' /\ ReportAgrees' /\ SettledTogether' /\ NoDeadSent'
  <2>1. ASSUME NEW x \in Deliveries
        PROVE  \/ /\ events'[x[1]] = "live" /\ jobs'[x].status = "queued"
               \/ /\ rows'[x] = rows[x] /\ jobs'[x] = jobs[x]
                  /\ events'[x[1]] = "live" \/ events'[x[1]] = events[x[1]]
    BY <1>0, <1>5 DEF DispatchCommit, PushedJob, NoJob, Deliveries, TypeInv, TypeOK
  <2>2. UNCHANGED tasks
    BY <1>5 DEF DispatchCommit
  <2>3. RowsHaveEvents'
    BY <2>1 DEF SettlementInv, RowsHaveEvents
  <2>4. ReportAgrees'
    <3> SUFFICES ASSUME NEW x \in Deliveries, NEW m \in Claims,
                        tasks[x][m].pc = "report", Owner(x, m)', EndsJob(x, m)
                 PROVE  /\ rows'[x].status \notin Active
                        /\ tasks[x][m].outcome # "ok" => rows'[x].status # "sent"
      BY <2>2 DEF ReportAgrees, EndsJob
    <3>1. rows'[x] = rows[x] /\ jobs'[x] = jobs[x]
      BY <2>1 DEF Owner
    <3> QED
      BY <3>1 DEF SettlementInv, ReportAgrees, Owner
  <2>5. SettledTogether' /\ NoDeadSent'
    BY <2>1 DEF SettlementInv, SettledTogether, NoDeadSent
  <2> QED
    BY <2>3, <2>4, <2>5
<1>6. CASE Crash
  <2>1. \A x \in Deliveries, m \in Claims : tasks'[x][m].pc = "idle"
    BY <1>6 DEF Crash, NoTask
  <2>2. ReportAgrees'
    BY <2>1 DEF ReportAgrees
  <2> QED
    BY <1>6, <2>2 DEF Crash, SettlementInv, RowsHaveEvents, SettledTogether, NoDeadSent
<1>7. CASE Restart
  <2>1. RowsHaveEvents'
    BY <1>7 DEF Restart, SettlementInv, RowsHaveEvents
  <2> QED
    BY <1>2, <1>7, <2>1 DEF Restart
<1> QED
  BY <1>3, <1>4, <1>5, <1>6, <1>7

\* SettlementInv is inductive.
LEMMA SettlementInductive ==
    ASSUME NothingFails
    PROVE  /\ Init => SettlementInv
           /\ SettlementInv /\ [Next]_vars => SettlementInv'
<1>0. ClaimsInTime
  BY DEF NothingFails
<1>1. ASSUME Init PROVE SettlementInv
  <2>1. FencingInv
    BY <1>0, <1>1, FencingInductive
  <2>2. \A d \in Deliveries : /\ rows[d].status = Absent /\ jobs[d].status = "absent"
                              /\ \A n \in Claims : tasks[d][n].pc = "idle"
    BY <1>1 DEF Init, NoRow, NoJob, NoTask
  <2>3. RowsHaveEvents /\ ReportAgrees /\ SettledTogether /\ NoDeadSent
    BY <2>2 DEF RowsHaveEvents, ReportAgrees, SettledTogether, NoDeadSent
  <2> QED
    BY <2>1, <2>3 DEF SettlementInv
<1>2. ASSUME SettlementInv, [Next]_vars PROVE SettlementInv'
  <2>1. FencingInv'
    BY <1>0, <1>2, FencingInductive DEF SettlementInv
  <2>2. CASE UNCHANGED vars
    <3>1. RowsHaveEvents' /\ ReportAgrees'
      BY <1>2, <2>2 DEF vars, SettlementInv, RowsHaveEvents, ReportAgrees, Owner, EndsJob
    <3>2. SettledTogether' /\ NoDeadSent'
      BY <1>2, <2>2 DEF vars, SettlementInv, SettledTogether, NoDeadSent
    <3> QED
      BY <2>1, <3>1, <3>2 DEF SettlementInv
  <2>3. ASSUME NEW d \in Deliveries, NEW n \in Claims, Wrapper(d, n)
        PROVE  RowsHaveEvents' /\ ReportAgrees' /\ SettledTogether' /\ NoDeadSent'
    <3>1. CASE HandlerReturns(d, n)
      BY <1>2, <3>1, MoveSettlement DEF HandlerReturns
    <3> QED
      BY <1>2, <2>3, <3>1, FetchSettlement, MarkSettlement, ReportSettlement DEF Wrapper
  <2>4. ASSUME NEW d \in Deliveries, NEW n \in Claims, Failure(d, n)
        PROVE  FALSE
    BY <2>4 DEF Failure, FetchFails, MarkFails, OuterTimeout, ReportFails, NothingFails
  <2>5. CASE Next
    BY <1>2, <2>1, <2>3, <2>4, <2>5, QueueSettlement, EnvironmentSettlement
    DEF Next, SettlementInv
  <2> QED
    BY <1>2, <2>2, <2>5
<1> QED
  BY <1>1, <1>2

-----------------------------------------------------------------------------
(* The theorems about settlement.                                          *)

\* If nothing fails, a job that pgwq will not run again leaves no delivery
\* queued, running or awaiting a retry that would never come: through every
\* crash, reaped handler, redeployment and purge.
THEOREM SettledTogetherHolds ==
    ASSUME NothingFails
    PROVE  Spec => []SettledTogether
<1>1. SettlementInv => SettledTogether
  BY DEF SettlementInv
<1> QED
  BY <1>1, SettlementInductive, PTL DEF Spec

\* If nothing fails, pgwq calls no delivery dead that the audit table calls
\* sent (README.md, known limitation 4).
THEOREM NoDeadSentHolds ==
    ASSUME NothingFails
    PROVE  Spec => []NoDeadSent
<1>1. SettlementInv => NoDeadSent
  BY DEF SettlementInv
<1> QED
  BY <1>1, SettlementInductive, PTL DEF Spec
=============================================================================
