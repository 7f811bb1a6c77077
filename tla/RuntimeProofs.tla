--------------------------- MODULE RuntimeProofs ----------------------------
(***************************************************************************)
(* Machine-checked proofs about Runtime, for every set of events and       *)
(* handlers, every bound, every set of faults and every configuration: the *)
(* types, and that a verdict is final and never a lie, HistoryInv being    *)
(* inductive.                                                              *)
(***************************************************************************)
EXTENDS RuntimeInvariants, TLAPS

-----------------------------------------------------------------------------
(* What the UPDATEs of the schema do to a row.                             *)

\* The claim CTE stamps an active row and leaves any other row alone.
LEMMA StampFacts ==
    ASSUME NEW r \in Row, NEW a \in Nat, NEW t \in Nat
    PROVE  /\ Stamp(r, a, t) \in Row
           /\ r.status \in Active => /\ Stamp(r, a, t).status = "running"
                                     /\ Stamp(r, a, t).lease_token = t
           /\ r.status \notin Active => Stamp(r, a, t) = r
<1>1. NextAttempts(r.attempts, a) \in Nat
  BY DEF Row, NextAttempts, Greatest
<1>2. QED
  BY <1>1 DEF Stamp, Row, Active, Terminal, Reasons

\* A fenced mark writes the status over a row it holds and leaves any other
\* row alone.
LEMMA MarkFacts ==
    ASSUME NEW r \in Row, NEW t \in Nat,
           NEW s \in Active \cup Terminal, NEW why \in Reasons
    PROVE  /\ MarkFenced(r, t, s, why) \in Row
           /\ Fence(r, t) => MarkFenced(r, t, s, why).status = s
           /\ ~Fence(r, t) => MarkFenced(r, t, s, why) = r
<1>1. Marked(r, s, why) \in Row
  <2>1. (IF s \in Terminal THEN TRUE ELSE r.finished) \in BOOLEAN
    BY DEF Row
  <2>2. Null \in Nat
    BY DEF Null
  <2>3. QED
    BY <2>1, <2>2 DEF Marked, Row
<1>2. Marked(r, s, why).status = s
  BY DEF Marked, Row
<1>3. QED
  BY <1>1, <1>2 DEF MarkFenced, Fence

\* A handler result has a status to mark, a reason and a verdict.
LEMMA ResultFacts ==
    ASSUME NEW o \in HandlerResults, NEW a \in Nat
    PROVE  /\ MarkStatus(o, a) \in Terminal \cup {"awaiting_retry"}
           /\ MarkStatus(o, a) = "sent" <=> o = "ok"
           /\ MarkReason(o) \in Reasons
           /\ JobVerdict(o) \in Verdicts
           /\ JobVerdict(o) = "ok" <=> o = "ok"
BY DEF HandlerResults, MarkStatus, MarkReason, JobVerdict, Terminal, Reasons, Verdicts

\* handle_envelope turns every end of a handler call into a handler result,
\* and only an Ok into "ok".
LEMMA OutcomeFacts ==
    ASSUME config \in Config, NEW o \in HandlerOutcomes
    PROVE  /\ HandlerResult(o) \in HandlerResults
           /\ HandlerResult(o) = "ok" <=> o = "ok"
BY DEF Config, HandlerOutcomes, HandlerResult, HandlerResults

\* pgwq's verdict write yields a job.
LEMMA ReportFacts ==
    ASSUME NEW j \in Job, NEW t \in Nat, NEW v \in Verdicts, NEW m \in Nat
    PROVE  ReportJob(j, t, v, m) \in Job
BY DEF ReportJob, Job, Verdicts

-----------------------------------------------------------------------------
(* Type correctness.                                                       *)

\* Moving a task to a phase with an outcome that fits it keeps the types.
LEMMA GotoTypes ==
    ASSUME TypeInv, NEW d \in Deliveries, NEW n \in Claims,
           NEW pc \in Phases, NEW o \in HandlerResults \cup Verdicts \cup {"none"},
           Goto(d, n, pc, o),
           pc = "mark" => o \in HandlerResults,
           pc = "report" => o \in Verdicts
    PROVE  /\ tasks' \in [Deliveries -> [Claims -> Task]]
           /\ PhaseOutcome'
<1>1. [tasks[d][n] EXCEPT !.pc = pc, !.outcome = o] \in Task
  <2>1. tasks[d][n] \in Task
    BY DEF TypeInv, TypeOK
  <2>2. pc \in Phases \cup {"idle"}
    OBVIOUS
  <2>3. QED
    BY <2>1, <2>2 DEF Task
<1>2. tasks' = [tasks EXCEPT ![d][n] = [tasks[d][n] EXCEPT !.pc = pc, !.outcome = o]]
  BY DEF Goto
<1>3. tasks' \in [Deliveries -> [Claims -> Task]]
  BY <1>1, <1>2 DEF TypeInv, TypeOK
<1>4. \A x \in Deliveries, m \in Claims :
         \/ x = d /\ m = n /\ tasks'[x][m].pc = pc /\ tasks'[x][m].outcome = o
         \/ tasks'[x][m] = tasks[x][m]
  BY <1>2 DEF TypeInv, TypeOK, Task
<1>5. PhaseOutcome'
  BY <1>4 DEF PhaseOutcome, TypeInv
<1>6. QED
  BY <1>3, <1>5

\* Ending a task keeps the types.
LEMMA EndTaskTypes ==
    ASSUME TypeInv, NEW d \in Deliveries, NEW n \in Claims, EndTask(d, n)
    PROVE  /\ tasks' \in [Deliveries -> [Claims -> Task]]
           /\ PhaseOutcome'
<1>1. NoTask \in Task /\ NoTask.pc = "idle"
  BY DEF NoTask, Task
<1>2. tasks' \in [Deliveries -> [Claims -> Task]]
  BY <1>1 DEF EndTask, TypeInv, TypeOK
<1>3. \A x \in Deliveries, m \in Claims :
         tasks'[x][m] = NoTask \/ tasks'[x][m] = tasks[x][m]
  BY DEF EndTask, TypeInv, TypeOK
<1>4. PhaseOutcome'
  BY <1>1, <1>3 DEF PhaseOutcome, TypeInv
<1>5. QED
  BY <1>2, <1>4

\* The claim CTE keeps the types.
LEMMA StampRowTypes ==
    ASSUME TypeInv, NEW d \in Deliveries, NEW n \in Claims, StampRow(d, n)
    PROVE  rows' \in [Deliveries -> Row]
<1>1. n \in Nat /\ tasks[d][n].attempt \in Nat /\ rows[d] \in Row
  BY RuntimeAssumption DEF TypeInv, TypeOK, Task, Claims
<1>2. Stamp(rows[d], tasks[d][n].attempt, n) \in Row
  BY <1>1, StampFacts
<1>3. QED
  BY <1>2 DEF StampRow, TypeInv, TypeOK

\* A mark keeps the types.
LEMMA MarkRowTypes ==
    ASSUME TypeInv, NEW d \in Deliveries, NEW n \in Claims,
           tasks[d][n].pc = "mark", MarkRow(d, n)
    PROVE  /\ rows' \in [Deliveries -> Row]
           /\ verdict' \in [Deliveries -> Terminal \cup {"none"}]
<1> DEFINE t == tasks[d][n]
           r == MarkFenced(rows[d], n, MarkStatus(t.outcome, t.attempt), MarkReason(t.outcome))
<1>1. n \in Nat /\ t.attempt \in Nat /\ rows[d] \in Row /\ t.outcome \in HandlerResults
  BY RuntimeAssumption DEF TypeInv, TypeOK, Task, Claims, PhaseOutcome
<1>2. /\ MarkStatus(t.outcome, t.attempt) \in Active \cup Terminal
      /\ MarkReason(t.outcome) \in Reasons
  BY <1>1, ResultFacts DEF Active
<1>3. r \in Row
  BY <1>1, <1>2, MarkFacts
<1>4. /\ rows' = [rows EXCEPT ![d] = r]
      /\ verdict' = [verdict EXCEPT ![d] = IF r.status \in Terminal THEN r.status ELSE @]
  BY DEF MarkRow
<1>5. QED
  BY <1>3, <1>4 DEF TypeInv, TypeOK

\* Init makes a state of the right types.
LEMMA InitTypes == Init => TypeInv
<1> SUFFICES ASSUME Init PROVE TypeInv
  OBVIOUS
<1>1. NoRow \in Row
  BY DEF NoRow, Row, Absent, Null, Reasons
<1>2. NoJob \in Job
  BY DEF NoJob, Job
<1>3. NoTask \in Task
  BY DEF NoTask, Task
<1>4. config \in Config
  BY RuntimeAssumption DEF Init
<1>5. TypeOK
  BY <1>1, <1>2, <1>3, <1>4 DEF Init, TypeOK
<1>6. PhaseOutcome
  BY DEF Init, PhaseOutcome, NoTask
<1>7. QED
  BY <1>5, <1>6 DEF TypeInv

\* A step of the wrapper keeps the types.
LEMMA WrapperTypes ==
    ASSUME TypeInv, NEW d \in Deliveries, NEW n \in Claims, Wrapper(d, n)
    PROVE  TypeInv'
<1>1. CASE RowMissing(d, n)
  <2>1. rows' \in [Deliveries -> Row]
    BY <1>1, StampRowTypes DEF RowMissing
  <2>2. tasks' \in [Deliveries -> [Claims -> Task]] /\ PhaseOutcome'
    BY <1>1, GotoTypes DEF RowMissing, Phases, Verdicts
  <2>3. QED
    BY <1>1, <2>1, <2>2 DEF RowMissing, TypeInv, TypeOK
<1>2. CASE AlreadyTerminal(d, n)
  <2>1. rows' \in [Deliveries -> Row]
    BY <1>2, StampRowTypes DEF AlreadyTerminal
  <2>2. tasks' \in [Deliveries -> [Claims -> Task]] /\ PhaseOutcome'
    BY <1>2, GotoTypes DEF AlreadyTerminal, Phases, Verdicts
  <2>3. QED
    BY <1>2, <2>1, <2>2 DEF AlreadyTerminal, TypeInv, TypeOK
<1>3. CASE StartHandler(d, n)
  <2>1. rows' \in [Deliveries -> Row]
    BY <1>3, StampRowTypes DEF StartHandler
  <2>2. tasks' \in [Deliveries -> [Claims -> Task]] /\ PhaseOutcome'
    BY <1>3, GotoTypes DEF StartHandler, Phases
  <2>3. QED
    BY <1>3, <2>1, <2>2 DEF StartHandler, TypeInv, TypeOK
<1>4. CASE HandlerNotRegistered(d, n)
  <2>1. rows' \in [Deliveries -> Row]
    BY <1>4, StampRowTypes DEF HandlerNotRegistered
  <2>2. tasks' \in [Deliveries -> [Claims -> Task]] /\ PhaseOutcome'
    BY <1>4, GotoTypes DEF HandlerNotRegistered, Phases, HandlerResults
  <2>3. QED
    BY <1>4, <2>1, <2>2 DEF HandlerNotRegistered, TypeInv, TypeOK
<1>5. CASE HandlerReturns(d, n)
  <2>1. PICK o \in HandlerOutcomes :
           /\ Goto(d, n, "mark", HandlerResult(o))
           /\ succeeded' = IF o = "ok" THEN succeeded \cup {d} ELSE succeeded
    BY <1>5 DEF HandlerReturns
  <2>2. HandlerResult(o) \in HandlerResults
    BY OutcomeFacts DEF TypeInv, TypeOK
  <2>3. tasks' \in [Deliveries -> [Claims -> Task]] /\ PhaseOutcome'
    BY <2>1, <2>2, GotoTypes DEF Phases
  <2>4. succeeded' \subseteq Deliveries
    BY <2>1 DEF TypeInv, TypeOK
  <2>5. QED
    BY <1>5, <2>3, <2>4 DEF HandlerReturns, TypeInv, TypeOK
<1>6. CASE MarkDelivery(d, n)
  <2>1. /\ rows' \in [Deliveries -> Row]
        /\ verdict' \in [Deliveries -> Terminal \cup {"none"}]
    BY <1>6, MarkRowTypes DEF MarkDelivery
  <2>2. JobVerdict(tasks[d][n].outcome) \in Verdicts
    BY <1>6 DEF MarkDelivery, TypeInv, PhaseOutcome, JobVerdict, Verdicts
  <2>3. tasks' \in [Deliveries -> [Claims -> Task]] /\ PhaseOutcome'
    BY <1>6, <2>2, GotoTypes DEF MarkDelivery, Phases
  <2>4. QED
    BY <1>6, <2>1, <2>3 DEF MarkDelivery, TypeInv, TypeOK
<1>7. CASE Report(d, n)
  <2>1. /\ jobs[d] \in Job /\ n \in Nat /\ MaxAttempts \in Nat
        /\ tasks[d][n].outcome \in Verdicts
    BY <1>7, RuntimeAssumption DEF Report, TypeInv, TypeOK, PhaseOutcome, Claims
  <2>2. ReportJob(jobs[d], n, tasks[d][n].outcome, MaxAttempts) \in Job
    BY <2>1, ReportFacts
  <2>3. jobs' \in [Deliveries -> Job]
    BY <1>7, <2>2 DEF Report, TypeInv, TypeOK
  <2>4. tasks' \in [Deliveries -> [Claims -> Task]] /\ PhaseOutcome'
    BY <1>7, EndTaskTypes DEF Report
  <2>5. QED
    BY <1>7, <2>3, <2>4 DEF Report, TypeInv, TypeOK
<1>8. QED
  BY <1>1, <1>2, <1>3, <1>4, <1>5, <1>6, <1>7 DEF Wrapper

\* A failure keeps the types.
LEMMA FailureTypes ==
    ASSUME TypeInv, NEW d \in Deliveries, NEW n \in Claims, Failure(d, n)
    PROVE  TypeInv'
<1>1. CASE FetchFails(d, n)
  <2>1. rows' \in [Deliveries -> Row]
    BY <1>1, StampRowTypes DEF FetchFails, TypeInv, TypeOK
  <2>2. tasks' \in [Deliveries -> [Claims -> Task]] /\ PhaseOutcome'
    BY <1>1, GotoTypes DEF FetchFails, Phases, Verdicts
  <2>3. QED
    BY <1>1, <2>1, <2>2 DEF FetchFails, TypeInv, TypeOK
<1>2. CASE MarkFails(d, n)
  <2>1. /\ rows' \in [Deliveries -> Row]
        /\ verdict' \in [Deliveries -> Terminal \cup {"none"}]
    BY <1>2, MarkRowTypes DEF MarkFails, TypeInv, TypeOK
  <2>2. tasks' \in [Deliveries -> [Claims -> Task]] /\ PhaseOutcome'
    BY <1>2, GotoTypes DEF MarkFails, Phases, Verdicts
  <2>3. QED
    BY <1>2, <2>1, <2>2 DEF MarkFails, TypeInv, TypeOK
<1>3. CASE OuterTimeout(d, n)
  <2>1. /\ rows' \in [Deliveries -> Row]
        /\ verdict' \in [Deliveries -> Terminal \cup {"none"}]
    BY <1>3, MarkRowTypes, StampRowTypes DEF OuterTimeout, TypeInv, TypeOK
  <2>2. tasks' \in [Deliveries -> [Claims -> Task]] /\ PhaseOutcome'
    BY <1>3, GotoTypes DEF OuterTimeout, Phases, Verdicts
  <2>3. QED
    BY <1>3, <2>1, <2>2 DEF OuterTimeout, TypeInv, TypeOK
<1>4. CASE ReportFails(d, n)
  <2>1. tasks' \in [Deliveries -> [Claims -> Task]] /\ PhaseOutcome'
    BY <1>4, EndTaskTypes DEF ReportFails
  <2>2. QED
    BY <1>4, <2>1 DEF ReportFails, TypeInv, TypeOK
<1>5. QED
  BY <1>1, <1>2, <1>3, <1>4 DEF Failure

\* pgwq's poll loop and reaper keep the types.
LEMMA QueueTypes ==
    ASSUME TypeInv, NEW d \in Deliveries, Claim(d) \/ Reap(d)
    PROVE  TypeInv'
<1>0. jobs[d] \in Job
  BY DEF TypeInv, TypeOK
<1>1. CASE Claim(d)
  <2> DEFINE k == jobs[d].token + 1
             t == [pc |-> "claimed", attempt |-> jobs[d].attempts + 1, outcome |-> "none"]
  <2>1. ClaimJob(jobs[d]) \in Job
    BY <1>0 DEF ClaimJob, Job
  <2>2. jobs' \in [Deliveries -> Job]
    BY <1>1, <2>1 DEF Claim, TypeInv, TypeOK
  <2>3. k \in Claims
    BY <1>0, <1>1, RuntimeAssumption DEF Claim, Claims, Job
  <2>4. t \in Task
    BY <1>0 DEF Job, Task, Phases
  <2>5. tasks' = [tasks EXCEPT ![d][k] = t]
    BY <1>1 DEF Claim
  <2>6. tasks' \in [Deliveries -> [Claims -> Task]]
    BY <2>4, <2>5 DEF TypeInv, TypeOK
  <2>7. \A x \in Deliveries, m \in Claims :
           tasks'[x][m] = t \/ tasks'[x][m] = tasks[x][m]
    BY <2>5 DEF TypeInv, TypeOK
  <2>8. PhaseOutcome'
    BY <2>7 DEF PhaseOutcome, TypeInv
  <2>9. QED
    BY <1>1, <2>2, <2>6, <2>8 DEF Claim, TypeInv, TypeOK
<1>2. CASE Reap(d)
  <2>1. \A mode \in Reaping : ReapJob(jobs[d], mode) \in Job
    BY <1>0 DEF ReapJob, Job
  <2>2. jobs' \in [Deliveries -> Job]
    BY <1>2, <2>1 DEF Reap, TypeInv, TypeOK
  <2>3. QED
    BY <1>2, <2>2 DEF Reap, TypeInv, TypeOK, PhaseOutcome
<1>3. QED
  BY <1>1, <1>2

\* Dispatch, purges, crash and restart keep the types.
LEMMA EnvironmentTypes ==
    ASSUME TypeInv,
           \/ \E d \in Deliveries : PurgeTerminalDelivery(d)
           \/ \E e \in Events : DispatchCommit(e) \/ PurgeEvent(e)
           \/ Crash
           \/ Restart
    PROVE  TypeInv'
<1>0. NoRow \in Row /\ NewRow \in Row /\ PushedJob \in Job /\ NoTask \in Task
  BY DEF NoRow, NewRow, Row, Absent, Null, Reasons, Active, NoJob, PushedJob, Job, NoTask, Task
<1>1. CASE \E d \in Deliveries : PurgeTerminalDelivery(d)
  BY <1>0, <1>1 DEF PurgeTerminalDelivery, TypeInv, TypeOK, PhaseOutcome
<1>2. CASE \E e \in Events : DispatchCommit(e)
  BY <1>0, <1>2 DEF DispatchCommit, TypeInv, TypeOK, PhaseOutcome
<1>3. CASE \E e \in Events : PurgeEvent(e)
  BY <1>0, <1>3 DEF PurgeEvent, TypeInv, TypeOK, PhaseOutcome
<1>4. CASE Crash
  <2>1. tasks' \in [Deliveries -> [Claims -> Task]]
    BY <1>0, <1>4 DEF Crash
  <2>2. PhaseOutcome'
    BY <1>4 DEF Crash, PhaseOutcome, NoTask
  <2>3. crashes' \in Nat
    BY <1>4 DEF Crash, TypeInv, TypeOK
  <2>4. up' \in BOOLEAN
    BY <1>4 DEF Crash
  <2>5. QED
    BY <1>4, <2>1, <2>2, <2>3, <2>4 DEF Crash, TypeInv, TypeOK
<1>5. CASE Restart
  BY <1>5, RuntimeAssumption DEF Restart, TypeInv, TypeOK, PhaseOutcome
<1>6. QED
  BY <1>1, <1>2, <1>3, <1>4, <1>5

\* Every step keeps the types.
LEMMA StepTypes == TypeInv /\ [Next]_vars => TypeInv'
<1> SUFFICES ASSUME TypeInv, [Next]_vars PROVE TypeInv'
  OBVIOUS
<1>1. CASE UNCHANGED vars
  BY <1>1 DEF vars, TypeInv, TypeOK, PhaseOutcome
<1>2. CASE Next
  BY <1>2, WrapperTypes, FailureTypes, QueueTypes, EnvironmentTypes DEF Next
<1>3. QED
  BY <1>1, <1>2

\* The types of every variable hold in every reachable state, whatever the
\* bounds, the faults and the deployments.
THEOREM TypeCorrect == Spec => []TypeOK
<1>1. TypeInv => TypeOK
  BY DEF TypeInv
<1>2. QED
  BY <1>1, InitTypes, StepTypes, PTL DEF Spec

-----------------------------------------------------------------------------
(* The effect of the building blocks of an action, point by point.         *)

\* Goto changes one task, in its phase and outcome only.
LEMMA GotoEffect ==
    ASSUME TypeInv, NEW d \in Deliveries, NEW n \in Claims, NEW pc, NEW o, Goto(d, n, pc, o)
    PROVE  /\ tasks'[d][n].pc = pc
           /\ tasks'[d][n].outcome = o
           /\ tasks'[d][n].attempt = tasks[d][n].attempt
           /\ \A x \in Deliveries, m \in Claims :
                x # d \/ m # n => tasks'[x][m] = tasks[x][m]
<1>1. tasks' = [tasks EXCEPT ![d][n] = [tasks[d][n] EXCEPT !.pc = pc, !.outcome = o]]
  BY DEF Goto
<1>2. QED
  BY <1>1 DEF TypeInv, TypeOK, Task

\* EndTask changes one task.
LEMMA EndTaskEffect ==
    ASSUME TypeInv, NEW d \in Deliveries, NEW n \in Claims, EndTask(d, n)
    PROVE  /\ tasks'[d][n].pc = "idle"
           /\ \A x \in Deliveries, m \in Claims :
                x # d \/ m # n => tasks'[x][m] = tasks[x][m]
BY DEF EndTask, NoTask, TypeInv, TypeOK

\* The claim CTE stamps the row if it is active.
LEMMA StampEffect ==
    ASSUME TypeInv, NEW d \in Deliveries, NEW n \in Claims, StampRow(d, n)
    PROVE  /\ rows[d].status \in Active => /\ rows'[d].status = "running"
                                           /\ rows'[d].lease_token = n
           /\ rows[d].status \notin Active => rows'[d] = rows[d]
           /\ \A x \in Deliveries : x # d => rows'[x] = rows[x]
<1>1. n \in Nat /\ tasks[d][n].attempt \in Nat /\ rows[d] \in Row
  BY RuntimeAssumption DEF TypeInv, TypeOK, Task, Claims
<1>2. rows'[d] = Stamp(rows[d], tasks[d][n].attempt, n)
  BY DEF StampRow, TypeInv, TypeOK
<1>3. \A x \in Deliveries : x # d => rows'[x] = rows[x]
  BY DEF StampRow, TypeInv, TypeOK
<1>4. QED
  BY <1>1, <1>2, <1>3, StampFacts

\* A mark either writes the status of its task over the row or is fenced out.
LEMMA MarkEffect ==
    ASSUME TypeInv, NEW d \in Deliveries, NEW n \in Claims,
           tasks[d][n].pc = "mark", MarkRow(d, n)
    PROVE  LET s == MarkStatus(tasks[d][n].outcome, tasks[d][n].attempt)
           IN  /\ tasks[d][n].outcome \in HandlerResults
               /\ s \in Terminal \cup {"awaiting_retry"}
               /\ Fence(rows[d], n) =>
                    /\ rows'[d].status = s
                    /\ verdict'[d] = IF s \in Terminal THEN s ELSE verdict[d]
               /\ ~Fence(rows[d], n) =>
                    /\ rows'[d] = rows[d]
                    /\ verdict'[d] = IF rows[d].status \in Terminal THEN rows[d].status
                                     ELSE verdict[d]
               /\ \A x \in Deliveries :
                    x # d => rows'[x] = rows[x] /\ verdict'[x] = verdict[x]
<1> DEFINE t == tasks[d][n]
           s == MarkStatus(t.outcome, t.attempt)
           r == MarkFenced(rows[d], n, s, MarkReason(t.outcome))
<1>1. n \in Nat /\ t.attempt \in Nat /\ rows[d] \in Row /\ t.outcome \in HandlerResults
  BY RuntimeAssumption DEF TypeInv, TypeOK, Task, Claims, PhaseOutcome
<1>2. /\ s \in Terminal \cup {"awaiting_retry"}
      /\ s \in Active \cup Terminal
      /\ MarkReason(t.outcome) \in Reasons
  BY <1>1, ResultFacts DEF Active
<1>3. /\ Fence(rows[d], n) => r.status = s
      /\ ~Fence(rows[d], n) => r = rows[d]
  BY <1>1, <1>2, MarkFacts
<1>4. /\ rows' = [rows EXCEPT ![d] = r]
      /\ verdict' = [verdict EXCEPT ![d] = IF r.status \in Terminal THEN r.status ELSE @]
  BY DEF MarkRow
<1>5. /\ rows'[d] = r
      /\ verdict'[d] = IF r.status \in Terminal THEN r.status ELSE verdict[d]
      /\ \A x \in Deliveries : x # d => rows'[x] = rows[x] /\ verdict'[x] = verdict[x]
  BY <1>4 DEF TypeInv, TypeOK
<1>6. QED
  BY <1>1, <1>2, <1>3, <1>5

-----------------------------------------------------------------------------
(* History is kept.                                                        *)

\* The claim CTE leaves the history alone.
LEMMA StampHistory ==
    ASSUME HistoryInv, NEW d \in Deliveries, NEW n \in Claims,
           StampRow(d, n), UNCHANGED <<events, jobs, verdict>>
    PROVE  FreshEvents' /\ VerdictShown'
<1>1. /\ rows[d].status \in Active => rows'[d].status = "running"
      /\ rows[d].status \notin Active => rows'[d] = rows[d]
      /\ \A x \in Deliveries : x # d => rows'[x] = rows[x]
  BY StampEffect DEF HistoryInv
<1>2. FreshEvents'
  BY <1>1 DEF HistoryInv, FreshEvents, Undispatched, Active, Absent
<1>3. VerdictShown'
  BY <1>1 DEF HistoryInv, VerdictShown, Active, Terminal
<1>4. QED
  BY <1>2, <1>3

\* A mark settles a delivery at most once, and as sent only if its handler
\* returned Ok.
LEMMA MarkHistory ==
    ASSUME HistoryInv, NEW d \in Deliveries, NEW n \in Claims,
           tasks[d][n].pc = "mark", MarkRow(d, n), UNCHANGED <<events, jobs, succeeded>>
    PROVE  /\ FreshEvents' /\ VerdictShown'
           /\ \A x \in Deliveries : verdict[x] # "none" => verdict'[x] = verdict[x]
           /\ \A x \in Deliveries : verdict'[x] = "sent" => x \in succeeded'
<1> DEFINE s == MarkStatus(tasks[d][n].outcome, tasks[d][n].attempt)
<1>0. TypeInv
  BY DEF HistoryInv
<1>1. /\ tasks[d][n].outcome \in HandlerResults
      /\ s \in Terminal \cup {"awaiting_retry"}
      /\ Fence(rows[d], n) => /\ rows'[d].status = s
                              /\ verdict'[d] = IF s \in Terminal THEN s ELSE verdict[d]
      /\ ~Fence(rows[d], n) => /\ rows'[d] = rows[d]
                               /\ verdict'[d] = IF rows[d].status \in Terminal
                                                THEN rows[d].status ELSE verdict[d]
      /\ \A x \in Deliveries : x # d => rows'[x] = rows[x] /\ verdict'[x] = verdict[x]
  BY <1>0, MarkEffect
<1>2. s = "sent" => tasks[d][n].outcome = "ok"
  <2>1. tasks[d][n].attempt \in Nat
    BY <1>0 DEF TypeInv, TypeOK, Task
  <2>2. QED
    BY <1>1, <2>1, ResultFacts
<1>3. CASE Fence(rows[d], n)
  <2>1. /\ rows[d].status = "running" /\ verdict[d] = "none" /\ events[d[1]] # "none"
    BY <1>3 DEF Fence, HistoryInv, VerdictShown, FreshEvents, Undispatched, Active, Absent
  <2>2. FreshEvents'
    BY <1>1, <1>3, <2>1 DEF HistoryInv, FreshEvents, Undispatched
  <2>3. VerdictShown'
    BY <1>1, <1>3, <2>1 DEF HistoryInv, VerdictShown, Active, Terminal
  <2>4. s = "sent" => d \in succeeded
    BY <1>2 DEF HistoryInv, NewsIsTrue
  <2>5. QED
    BY <1>1, <1>3, <2>1, <2>2, <2>3, <2>4 DEF HistoryInv, NewsIsTrue, Terminal
<1>4. CASE ~Fence(rows[d], n)
  <2>1. \A x \in Deliveries : rows'[x] = rows[x] /\ verdict'[x] = verdict[x]
    BY <1>1, <1>4 DEF HistoryInv, VerdictShown
  <2>2. QED
    BY <2>1 DEF HistoryInv, FreshEvents, Undispatched, VerdictShown, NewsIsTrue
<1>5. QED
  BY <1>3, <1>4

\* What was handled stays handled.
LEMMA HandledStays ==
    ASSUME NEW x \in Deliveries, succeeded \subseteq succeeded',
           verdict[x] # "none" => verdict'[x] = verdict[x], Handled(x)
    PROVE  Handled(x)'
BY DEF Handled

\* Moving a task keeps the news true if the news it now carries is true.
LEMMA GotoNews ==
    ASSUME HistoryInv, NEW d \in Deliveries, NEW n \in Claims, NEW pc, NEW o, Goto(d, n, pc, o),
           UNCHANGED jobs, succeeded \subseteq succeeded',
           \A x \in Deliveries : verdict[x] # "none" => verdict'[x] = verdict[x],
           \A x \in Deliveries : verdict'[x] = "sent" => x \in succeeded',
           pc = "mark" /\ o = "ok" => d \in succeeded',
           pc = "report" /\ o = "ok" => Handled(d)'
    PROVE  NewsIsTrue'
<1>1. /\ tasks'[d][n].pc = pc /\ tasks'[d][n].outcome = o
      /\ \A x \in Deliveries, m \in Claims :
           x # d \/ m # n => tasks'[x][m] = tasks[x][m]
  BY GotoEffect DEF HistoryInv
<1>2. \A x \in Deliveries : Handled(x) => Handled(x)'
  BY HandledStays
<1>3. \A x \in Deliveries : jobs'[x].status = "done" => Handled(x)'
  BY <1>2 DEF HistoryInv, NewsIsTrue
<1>4. ASSUME NEW x \in Deliveries, NEW m \in Claims
      PROVE  /\ tasks'[x][m].pc = "mark" /\ tasks'[x][m].outcome = "ok" => x \in succeeded'
             /\ tasks'[x][m].pc = "report" /\ tasks'[x][m].outcome = "ok" => Handled(x)'
  <2>1. CASE x = d /\ m = n
    BY <1>1, <2>1
  <2>2. CASE x # d \/ m # n
    BY <1>1, <1>2, <2>2 DEF HistoryInv, NewsIsTrue
  <2>3. QED
    BY <2>1, <2>2
<1>5. QED
  BY <1>3, <1>4 DEF NewsIsTrue

\* Ending a task keeps the news true if what pgwq now counts as done was handled.
LEMMA EndTaskNews ==
    ASSUME HistoryInv, NEW d \in Deliveries, NEW n \in Claims, EndTask(d, n),
           UNCHANGED <<verdict, succeeded>>,
           \A x \in Deliveries : jobs'[x].status = "done" => Handled(x)
    PROVE  NewsIsTrue'
<1>1. /\ tasks'[d][n].pc = "idle"
      /\ \A x \in Deliveries, m \in Claims :
           x # d \/ m # n => tasks'[x][m] = tasks[x][m]
  BY EndTaskEffect DEF HistoryInv
<1>2. ASSUME NEW x \in Deliveries, NEW m \in Claims
      PROVE  /\ tasks'[x][m].pc = "mark" /\ tasks'[x][m].outcome = "ok" => x \in succeeded
             /\ tasks'[x][m].pc = "report" /\ tasks'[x][m].outcome = "ok" => Handled(x)
  <2>1. CASE x = d /\ m = n
    BY <1>1, <2>1
  <2>2. CASE x # d \/ m # n
    BY <1>1, <2>2 DEF HistoryInv, NewsIsTrue
  <2>3. QED
    BY <2>1, <2>2
<1>3. QED
  BY <1>2 DEF HistoryInv, NewsIsTrue, Handled

\* A step of the wrapper keeps the history.
LEMMA WrapperHistory ==
    ASSUME HistoryInv, NEW d \in Deliveries, NEW n \in Claims, Wrapper(d, n)
    PROVE  HistoryInv'
<1>0. /\ TypeInv'
      /\ \A x \in Deliveries : verdict[x] = "sent" => x \in succeeded
  BY WrapperTypes DEF HistoryInv, NewsIsTrue
<1>1. CASE RowMissing(d, n)
  <2>1. FreshEvents' /\ VerdictShown'
    BY <1>1, StampHistory DEF RowMissing
  <2>2. NewsIsTrue'
    BY <1>1, <1>0, GotoNews DEF RowMissing
  <2>3. QED
    BY <1>0, <2>1, <2>2 DEF HistoryInv
<1>2. CASE AlreadyTerminal(d, n)
  <2>1. FreshEvents' /\ VerdictShown'
    BY <1>2, StampHistory DEF AlreadyTerminal
  <2>2. Handled(d)'
    BY <1>2 DEF AlreadyTerminal, HistoryInv, VerdictShown, NewsIsTrue, Handled, Terminal
  <2>3. NewsIsTrue'
    BY <1>2, <1>0, <2>2, GotoNews DEF AlreadyTerminal
  <2>4. QED
    BY <1>0, <2>1, <2>3 DEF HistoryInv
<1>3. CASE StartHandler(d, n)
  <2>1. FreshEvents' /\ VerdictShown'
    BY <1>3, StampHistory DEF StartHandler
  <2>2. NewsIsTrue'
    BY <1>3, <1>0, GotoNews DEF StartHandler
  <2>3. QED
    BY <1>0, <2>1, <2>2 DEF HistoryInv
<1>4. CASE HandlerNotRegistered(d, n)
  <2>1. FreshEvents' /\ VerdictShown'
    BY <1>4, StampHistory DEF HandlerNotRegistered
  <2>2. NewsIsTrue'
    BY <1>4, <1>0, GotoNews DEF HandlerNotRegistered
  <2>3. QED
    BY <1>0, <2>1, <2>2 DEF HistoryInv
<1>5. CASE HandlerReturns(d, n)
  <2>1. PICK o \in HandlerOutcomes :
           /\ Goto(d, n, "mark", HandlerResult(o))
           /\ succeeded' = IF o = "ok" THEN succeeded \cup {d} ELSE succeeded
    BY <1>5 DEF HandlerReturns
  <2>2. HandlerResult(o) = "ok" <=> o = "ok"
    BY OutcomeFacts DEF HistoryInv, TypeInv, TypeOK
  <2>3. NewsIsTrue'
    BY <1>5, <1>0, <2>1, <2>2, GotoNews DEF HandlerReturns
  <2>4. QED
    BY <1>5, <1>0, <2>3 DEF HandlerReturns, HistoryInv, FreshEvents, Undispatched, VerdictShown
<1>6. CASE MarkDelivery(d, n)
  <2>1. /\ FreshEvents' /\ VerdictShown'
        /\ \A x \in Deliveries : verdict[x] # "none" => verdict'[x] = verdict[x]
        /\ \A x \in Deliveries : verdict'[x] = "sent" => x \in succeeded'
    BY <1>6, MarkHistory DEF MarkDelivery
  <2>2. JobVerdict(tasks[d][n].outcome) = "ok" => d \in succeeded
    BY <1>6 DEF MarkDelivery, JobVerdict, HistoryInv, NewsIsTrue
  <2>3. NewsIsTrue'
    BY <1>6, <2>1, <2>2, GotoNews DEF MarkDelivery, Handled
  <2>4. QED
    BY <1>0, <2>1, <2>3 DEF HistoryInv
<1>7. CASE Report(d, n)
  <2>1. ASSUME NEW x \in Deliveries, jobs'[x].status = "done"
        PROVE  Handled(x)
    <3>1. CASE x # d
      BY <1>7, <2>1, <3>1 DEF Report, HistoryInv, NewsIsTrue, TypeInv, TypeOK
    <3>2. CASE x = d
      <4>1. jobs'[d] = ReportJob(jobs[d], n, tasks[d][n].outcome, MaxAttempts)
        BY <1>7 DEF Report, HistoryInv, TypeInv, TypeOK
      <4>2. jobs[d].status = "done" \/ tasks[d][n].outcome = "ok"
        <5>1. jobs[d] \in Job /\ tasks[d][n].outcome \in Verdicts
          BY <1>7 DEF Report, HistoryInv, TypeInv, TypeOK, PhaseOutcome
        <5>2. QED
          BY <2>1, <3>2, <4>1, <5>1 DEF ReportJob, Job, Verdicts
      <4>3. QED
        BY <1>7, <3>2, <4>2 DEF Report, HistoryInv, NewsIsTrue
    <3>3. QED
      BY <3>1, <3>2
  <2>2. NewsIsTrue'
    BY <1>7, <2>1, EndTaskNews DEF Report
  <2>3. FreshEvents'
    <3>1. \A x \in Deliveries : jobs[x].status = "absent" => jobs'[x].status = "absent"
      BY <1>7 DEF Report, ReportJob, HistoryInv, TypeInv, TypeOK
    <3>2. QED
      BY <1>7, <3>1 DEF Report, HistoryInv, FreshEvents, Undispatched
  <2>4. QED
    BY <1>7, <1>0, <2>2, <2>3 DEF Report, HistoryInv, VerdictShown
<1>8. QED
  BY <1>1, <1>2, <1>3, <1>4, <1>5, <1>6, <1>7 DEF Wrapper

\* A failure keeps the history.
LEMMA FailureHistory ==
    ASSUME HistoryInv, NEW d \in Deliveries, NEW n \in Claims, Failure(d, n)
    PROVE  HistoryInv'
<1>0. /\ TypeInv'
      /\ \A x \in Deliveries : verdict[x] = "sent" => x \in succeeded
  BY FailureTypes DEF HistoryInv, NewsIsTrue
<1> DEFINE MarkKept ==
             /\ FreshEvents' /\ VerdictShown'
             /\ \A x \in Deliveries : verdict[x] # "none" => verdict'[x] = verdict[x]
             /\ \A x \in Deliveries : verdict'[x] = "sent" => x \in succeeded'
<1>1. ASSUME UNCHANGED <<events, jobs, rows, verdict, succeeded>>
      PROVE  MarkKept
  BY <1>0, <1>1 DEF HistoryInv, FreshEvents, Undispatched, VerdictShown
<1>2. ASSUME UNCHANGED <<events, jobs, verdict, succeeded>>, StampRow(d, n)
      PROVE  MarkKept
  BY <1>0, <1>2, StampHistory
<1>3. ASSUME UNCHANGED <<events, jobs, succeeded>>, tasks[d][n].pc = "mark", MarkRow(d, n)
      PROVE  MarkKept
  BY <1>3, MarkHistory
<1>4. ASSUME MarkKept, UNCHANGED <<jobs, succeeded>>, NEW o \in {"retry", "abort"},
             Goto(d, n, "report", o)
      PROVE  HistoryInv'
  <2>1. NewsIsTrue'
    BY <1>4, GotoNews
  <2>2. QED
    BY <1>0, <1>4, <2>1 DEF HistoryInv
<1>5. CASE FetchFails(d, n)
  BY <1>1, <1>2, <1>4, <1>5 DEF FetchFails
<1>6. CASE MarkFails(d, n)
  BY <1>1, <1>3, <1>4, <1>6 DEF MarkFails
<1>7. CASE OuterTimeout(d, n)
  BY <1>1, <1>2, <1>3, <1>4, <1>7 DEF OuterTimeout
<1>8. CASE ReportFails(d, n)
  <2>1. NewsIsTrue'
    BY <1>8, EndTaskNews DEF ReportFails, HistoryInv, NewsIsTrue
  <2>2. QED
    BY <1>0, <1>8, <2>1 DEF ReportFails, HistoryInv, FreshEvents, Undispatched, VerdictShown
<1>9. QED
  BY <1>5, <1>6, <1>7, <1>8 DEF Failure

\* pgwq's poll loop and reaper keep the history.
LEMMA QueueHistory ==
    ASSUME HistoryInv, NEW d \in Deliveries, Claim(d) \/ Reap(d)
    PROVE  HistoryInv'
<1>0. TypeInv' /\ TypeInv
  BY QueueTypes DEF HistoryInv
<1>1. /\ \A x \in Deliveries : x # d => jobs'[x] = jobs[x]
      /\ jobs[d].status \in {"queued", "leased"} /\ jobs'[d].status \in {"queued", "leased"}
  <2>1. jobs[d] \in Job
    BY <1>0 DEF TypeInv, TypeOK
  <2>2. CASE Claim(d)
    BY <1>0, <2>2 DEF Claim, ClaimJob, TypeInv, TypeOK
  <2>3. CASE Reap(d)
    <3>1. \A mode \in Reaping : ReapJob(jobs[d], mode).status = "queued"
      BY <2>1 DEF ReapJob, Job
    <3>2. PICK mode \in Reaping : jobs' = [jobs EXCEPT ![d] = ReapJob(@, mode)]
      BY <2>3 DEF Reap
    <3>3. QED
      BY <1>0, <2>3, <3>1, <3>2 DEF Reap, TypeInv, TypeOK
  <2>4. QED
    BY <2>2, <2>3
<1>2. \A x \in Deliveries, m \in Claims :
         \/ tasks'[x][m] = tasks[x][m]
         \/ tasks'[x][m].pc = "claimed"
  <2>1. CASE Claim(d)
    <3> DEFINE k == jobs[d].token + 1
               t == [pc |-> "claimed", attempt |-> jobs[d].attempts + 1, outcome |-> "none"]
    <3>1. t.pc = "claimed"
      OBVIOUS
    <3>2. tasks' = [tasks EXCEPT ![d][k] = t]
      BY <2>1 DEF Claim
    <3> HIDE DEF k, t
    <3>3. QED
      BY <1>0, <3>1, <3>2 DEF TypeInv, TypeOK
  <2>2. CASE Reap(d)
    BY <2>2 DEF Reap
  <2>3. QED
    BY <2>1, <2>2
<1>3. FreshEvents' /\ VerdictShown'
  BY <1>1 DEF Claim, Reap, HistoryInv, FreshEvents, Undispatched, VerdictShown
<1>4. NewsIsTrue'
  BY <1>1, <1>2 DEF Claim, Reap, HistoryInv, NewsIsTrue, Handled
<1>5. QED
  BY <1>0, <1>3, <1>4 DEF HistoryInv

\* Dispatch, purges, crash and restart keep the history.
LEMMA EnvironmentHistory ==
    ASSUME HistoryInv,
           \/ \E d \in Deliveries : PurgeTerminalDelivery(d)
           \/ \E e \in Events : DispatchCommit(e) \/ PurgeEvent(e)
           \/ Crash
           \/ Restart
    PROVE  HistoryInv'
<1>0. TypeInv' /\ TypeInv
  BY EnvironmentTypes DEF HistoryInv
<1> USE DEF HistoryInv, FreshEvents, Undispatched, VerdictShown, NewsIsTrue, Handled
<1>1. ASSUME NEW d \in Deliveries, PurgeTerminalDelivery(d)
      PROVE  HistoryInv'
  BY <1>0, <1>1 DEF PurgeTerminalDelivery, NoRow, Absent, Active, Terminal, TypeInv, TypeOK
<1>2. ASSUME NEW e \in Events, DispatchCommit(e)
      PROVE  HistoryInv'
  <2>1. ASSUME NEW x \in Deliveries
        PROVE  \/ /\ x[1] = e /\ events[x[1]] = "none" /\ events'[x[1]] = "live"
                  /\ rows'[x].status = "queued" /\ jobs'[x].status = "queued"
               \/ /\ rows'[x] = rows[x] /\ jobs'[x] = jobs[x]
                  /\ events'[x[1]] = "none" => events[x[1]] = "none"
    BY <1>0, <1>2 DEF DispatchCommit, NewRow, NoRow, PushedJob, NoJob, Deliveries, TypeInv, TypeOK
  <2>2. UNCHANGED <<tasks, verdict, succeeded>>
    BY <1>2 DEF DispatchCommit
  <2>3. FreshEvents' /\ VerdictShown'
    BY <2>1, <2>2 DEF Active, Terminal
  <2>4. NewsIsTrue'
    BY <2>1, <2>2
  <2>5. QED
    BY <1>0, <2>3, <2>4
<1>3. ASSUME NEW e \in Events, PurgeEvent(e)
      PROVE  HistoryInv'
  <2>1. \A x \in Deliveries :
           /\ rows'[x].status = Absent \/ rows'[x] = rows[x]
           /\ events'[x[1]] = "none" => events[x[1]] = "none"
    BY <1>0, <1>3 DEF PurgeEvent, NoRow, Deliveries, TypeInv, TypeOK
  <2>2. UNCHANGED <<jobs, tasks, verdict, succeeded>>
    BY <1>3 DEF PurgeEvent
  <2>3. FreshEvents' /\ VerdictShown'
    BY <2>1, <2>2 DEF Absent, Active, Terminal
  <2>4. QED
    BY <1>0, <2>2, <2>3
<1>4. CASE Crash
  <2>1. \A x \in Deliveries, m \in Claims : tasks'[x][m].pc = "idle"
    BY <1>4 DEF Crash, NoTask
  <2>2. QED
    BY <1>0, <1>4, <2>1 DEF Crash
<1>5. CASE Restart
  BY <1>0, <1>5 DEF Restart
<1>6. QED
  BY <1>1, <1>2, <1>3, <1>4, <1>5

\* HistoryInv is inductive.
LEMMA HistoryInductive ==
    /\ Init => HistoryInv
    /\ HistoryInv /\ [Next]_vars => HistoryInv'
<1>1. ASSUME Init PROVE HistoryInv
  BY <1>1, InitTypes DEF Init, HistoryInv, FreshEvents, Undispatched, VerdictShown, NewsIsTrue,
     NoRow, NoJob, NoTask, Absent, Active, Terminal
<1>2. ASSUME HistoryInv, [Next]_vars PROVE HistoryInv'
  <2>1. CASE UNCHANGED vars
    BY <1>2, <2>1, StepTypes DEF vars, HistoryInv, FreshEvents, Undispatched, VerdictShown,
       NewsIsTrue, Handled
  <2>2. CASE Next
    BY <1>2, <2>2, WrapperHistory, FailureHistory, QueueHistory, EnvironmentHistory DEF Next
  <2>3. QED
    BY <1>2, <2>1, <2>2
<1>3. QED
  BY <1>1, <1>2

\* HistoryInv holds in every reachable state.
LEMMA HistoryHolds == Spec => []HistoryInv
BY HistoryInductive, PTL DEF Spec

-----------------------------------------------------------------------------
(* The theorems.                                                           *)

\* A job that pgwq counts as done was handled, and an audit row that says
\* sent is backed by a handler that returned Ok: under every fault, crash,
\* cancellation, stale lease and purge.
THEOREM NoSilentLossHolds == Spec => []NoSilentLoss
<1>1. HistoryInv => NoSilentLoss
  BY DEF HistoryInv, NewsIsTrue, Handled, NoSilentLoss
<1>2. QED
  BY <1>1, HistoryHolds, PTL

\* No step changes a verdict or brings a settled row back.
LEMMA VerdictStep ==
    ASSUME HistoryInv, [Next]_vars, NEW d \in Deliveries, verdict[d] # "none"
    PROVE  verdict'[d] = verdict[d] /\ rows'[d].status \in {rows[d].status, Absent}
<1>0. TypeInv /\ rows[d].status \notin Active /\ ~(events[d[1]] = "none")
  BY DEF HistoryInv, VerdictShown, FreshEvents, Undispatched
<1>1. ASSUME UNCHANGED <<rows, verdict>>
      PROVE  verdict'[d] = verdict[d] /\ rows'[d].status \in {rows[d].status, Absent}
  BY <1>1
<1>2. ASSUME NEW x \in Deliveries, NEW n \in Claims, StampRow(x, n), UNCHANGED verdict
      PROVE  verdict'[d] = verdict[d] /\ rows'[d].status \in {rows[d].status, Absent}
  BY <1>0, <1>2, StampEffect
<1>3. ASSUME NEW x \in Deliveries, NEW n \in Claims, tasks[x][n].pc = "mark", MarkRow(x, n)
      PROVE  verdict'[d] = verdict[d] /\ rows'[d].status \in {rows[d].status, Absent}
  <2>1. x = d => ~Fence(rows[x], n)
    BY <1>0 DEF Fence, Active
  <2>2. QED
    BY <1>0, <1>3, <2>1, MarkEffect DEF HistoryInv, VerdictShown
<1>4. ASSUME NEW x \in Deliveries, NEW n \in Claims, Wrapper(x, n)
      PROVE  verdict'[d] = verdict[d] /\ rows'[d].status \in {rows[d].status, Absent}
  BY <1>1, <1>2, <1>3, <1>4 DEF Wrapper, RowMissing, AlreadyTerminal, StartHandler,
     HandlerNotRegistered, HandlerReturns, MarkDelivery, Report
<1>5. ASSUME NEW x \in Deliveries, NEW n \in Claims, Failure(x, n)
      PROVE  verdict'[d] = verdict[d] /\ rows'[d].status \in {rows[d].status, Absent}
  BY <1>1, <1>2, <1>3, <1>5 DEF Failure, FetchFails, MarkFails, OuterTimeout, ReportFails
<1>6. ASSUME NEW x \in Deliveries, Claim(x) \/ Reap(x) \/ PurgeTerminalDelivery(x)
      PROVE  verdict'[d] = verdict[d] /\ rows'[d].status \in {rows[d].status, Absent}
  BY <1>0, <1>1, <1>6 DEF Claim, Reap, PurgeTerminalDelivery, NoRow, TypeInv, TypeOK
<1>7. ASSUME NEW e \in Events, DispatchCommit(e) \/ PurgeEvent(e)
      PROVE  verdict'[d] = verdict[d] /\ rows'[d].status \in {rows[d].status, Absent}
  BY <1>0, <1>7 DEF DispatchCommit, PurgeEvent, NoRow, TypeInv, TypeOK
<1>8. CASE Crash \/ Restart \/ UNCHANGED vars
  BY <1>1, <1>8 DEF Crash, Restart, vars
<1>9. QED
  BY <1>4, <1>5, <1>6, <1>7, <1>8 DEF Next

\* The first terminal verdict on a delivery is its last.
THEOREM VerdictFinalHolds == Spec => VerdictFinal
<1> DEFINE A == \A d \in Deliveries :
                  verdict[d] # "none" =>
                     /\ verdict'[d] = verdict[d]
                     /\ rows'[d].status \in {rows[d].status, Absent}
<1>1. HistoryInv /\ [Next]_vars => A
  BY VerdictStep
<1>2. QED
  BY <1>1, HistoryHolds, PTL DEF Spec, VerdictFinal

\* No handler call starts for a delivery that was ever settled.
THEOREM NoRunAfterVerdictHolds == Spec => NoRunAfterVerdict
<1> DEFINE A == \A d \in Deliveries, n \in Claims :
                  tasks[d][n].pc # "handler" /\ tasks'[d][n].pc = "handler" => verdict[d] = "none"
<1>1. ASSUME HistoryInv, [Next]_vars PROVE A
  <2> SUFFICES ASSUME NEW d \in Deliveries, NEW n \in Claims,
                      tasks[d][n].pc # "handler", tasks'[d][n].pc = "handler"
               PROVE  verdict[d] = "none"
    OBVIOUS
  <2>0. TypeInv
    BY <1>1 DEF HistoryInv
  <2>1. ASSUME NEW x \in Deliveries, NEW m \in Claims, NEW pc, NEW o, Goto(x, m, pc, o),
               pc # "handler"
        PROVE  FALSE
    BY <2>0, <2>1, GotoEffect
  <2>2. ASSUME NEW x \in Deliveries, NEW m \in Claims, EndTask(x, m)
        PROVE  FALSE
    BY <2>0, <2>2, EndTaskEffect
  <2>3. ASSUME NEW x \in Deliveries, NEW m \in Claims, StartHandler(x, m)
        PROVE  x = d
    BY <2>0, <2>3, GotoEffect DEF StartHandler
  <2>4. ASSUME NEW x \in Deliveries, NEW m \in Claims, Wrapper(x, m)
        PROVE  verdict[d] = "none"
    <3>1. CASE StartHandler(x, m)
      BY <1>1, <2>3, <3>1 DEF StartHandler, HistoryInv, VerdictShown
    <3>2. CASE RowMissing(x, m) \/ AlreadyTerminal(x, m) \/ HandlerNotRegistered(x, m)
      BY <2>1, <3>2 DEF RowMissing, AlreadyTerminal, HandlerNotRegistered
    <3>3. CASE HandlerReturns(x, m) \/ MarkDelivery(x, m)
      BY <2>1, <3>3 DEF HandlerReturns, MarkDelivery
    <3>4. CASE Report(x, m)
      BY <2>2, <3>4 DEF Report
    <3>5. QED
      BY <2>4, <3>1, <3>2, <3>3, <3>4 DEF Wrapper
  <2>5. ASSUME NEW x \in Deliveries, NEW m \in Claims, Failure(x, m)
        PROVE  FALSE
    BY <2>1, <2>2, <2>5 DEF Failure, FetchFails, MarkFails, OuterTimeout, ReportFails
  <2>6. ASSUME NEW x \in Deliveries, Claim(x)
        PROVE  FALSE
    <3> DEFINE k == jobs[x].token + 1
               t == [pc |-> "claimed", attempt |-> jobs[x].attempts + 1, outcome |-> "none"]
    <3>1. t.pc = "claimed"
      OBVIOUS
    <3>2. tasks' = [tasks EXCEPT ![x][k] = t]
      BY <2>6 DEF Claim
    <3> HIDE DEF k, t
    <3>3. tasks'[d][n] = tasks[d][n] \/ tasks'[d][n] = t
      BY <2>0, <3>2 DEF TypeInv, TypeOK
    <3>4. QED
      BY <3>1, <3>3
  <2>7. ASSUME NEW x \in Deliveries, Reap(x) \/ PurgeTerminalDelivery(x)
        PROVE  FALSE
    BY <2>7 DEF Reap, PurgeTerminalDelivery
  <2>8. ASSUME NEW e \in Events, DispatchCommit(e) \/ PurgeEvent(e)
        PROVE  FALSE
    BY <2>8 DEF DispatchCommit, PurgeEvent
  <2>9. CASE Crash
    BY <2>9 DEF Crash, NoTask
  <2>10. CASE Restart \/ UNCHANGED vars
    BY <2>10 DEF Restart, vars
  <2>11. QED
    BY <1>1, <2>4, <2>5, <2>6, <2>7, <2>8, <2>9, <2>10 DEF Next
<1>2. QED
  BY <1>1, HistoryHolds, PTL DEF Spec, NoRunAfterVerdict

=============================================================================
