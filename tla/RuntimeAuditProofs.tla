------------------------- MODULE RuntimeAuditProofs -------------------------
(***************************************************************************)
(* The audit table tells the truth under every fault, crash, cancellation  *)
(* and stale lease: no UPDATE breaks its CHECK constraint, last_error      *)
(* belongs to its status, purges delete only what is settled, and every    *)
(* delivery goes through the state machine that the README promises.       *)
(***************************************************************************)
EXTENDS RuntimeProofs

-----------------------------------------------------------------------------
(* What the UPDATEs do to a sound row.                                     *)

\* The part of AuditInv that is about one row.
SoundRow(r) ==
    /\ r.status # Absent => StatusInvariants(r)
    /\ r.last_error = "null" <=> r.status \in {Absent, "queued", "running", "sent"}
    /\ r.last_error = "skip" <=> r.status = "skipped"
    /\ r.status = "awaiting_retry" => r.last_error = "retry"
    /\ r.status = "dead" /\ r.last_error = "retry" => r.attempts >= MaxAttempts
    /\ r.status = Absent => r.attempts = 0

\* Deleted and new rows are sound.
LEMMA EmptyRows ==
    /\ NoRow.status = Absent /\ NoRow.attempts = 0 /\ SoundRow(NoRow)
    /\ NewRow.status = "queued" /\ NewRow.attempts = 0 /\ SoundRow(NewRow)
BY DEF NoRow, NewRow, SoundRow, StatusInvariants, Absent, Null

\* The claim CTE keeps an active row sound and counts its own attempt.
LEMMA StampSound ==
    ASSUME NEW r \in Row, SoundRow(r), r.status \in Active, NEW a \in Nat, NEW t \in Nat \ {0}
    PROVE  /\ SoundRow(Stamp(r, a, t))
           /\ Stamp(r, a, t).status = "running"
           /\ Stamp(r, a, t).attempts >= r.attempts
           /\ Stamp(r, a, t).attempts >= a
<1> DEFINE s == Stamp(r, a, t)
           k == NextAttempts(r.attempts, a)
<1>1. k \in Nat /\ k >= r.attempts /\ k >= a /\ k >= 1
  BY DEF Row, NextAttempts, Greatest
<1> HIDE DEF k
<1>2. /\ s.status = "running" /\ s.lease_token = t /\ s.attempts = k /\ s.attempted = TRUE
      /\ s.finished = r.finished /\ s.last_error = "null"
  BY DEF Stamp, Row, k
<1>3. ~r.finished
  BY DEF SoundRow, StatusInvariants, Active, Terminal, Absent
<1> HIDE DEF s
<1>4. StatusInvariants(s)
  BY <1>1, <1>2, <1>3 DEF StatusInvariants, Null
<1>5. SoundRow(s)
  BY <1>1, <1>2, <1>4 DEF SoundRow, Absent
<1> QED
  BY <1>1, <1>2, <1>5 DEF s

\* A mark of the task that holds the row keeps it sound.
LEMMA MarkSound ==
    ASSUME NEW r \in Row, SoundRow(r), r.status = "running",
           NEW o \in HandlerResults, NEW a \in Nat, r.attempts >= a
    PROVE  LET m == Marked(r, MarkStatus(o, a), MarkReason(o))
           IN  /\ SoundRow(m) /\ m.attempts = r.attempts
               /\ m.status = MarkStatus(o, a)
<1> DEFINE s == MarkStatus(o, a)
           m == Marked(r, s, MarkReason(o))
<1>1. /\ m.status = s /\ m.lease_token = Null /\ m.attempts = r.attempts
      /\ m.attempted = r.attempted /\ m.last_error = MarkReason(o)
      /\ m.finished = (IF s \in Terminal THEN TRUE ELSE r.finished)
  BY DEF Marked, Row
<1>2. r.attempts \in Nat /\ r.attempts > 0 /\ r.attempted /\ ~r.finished
  BY DEF Row, SoundRow, StatusInvariants, Terminal, Absent
<1>3. /\ o = "ok" => s = "sent" /\ MarkReason(o) = "null"
      /\ o = "skip" => s = "skipped" /\ MarkReason(o) = "skip"
      /\ o = "abort" => s = "dead" /\ MarkReason(o) = "abort"
      /\ o = "retry" => s = (IF a >= MaxAttempts THEN "dead" ELSE "awaiting_retry")
                        /\ MarkReason(o) = "retry"
  BY DEF MarkStatus, MarkReason
<1>4. o \in {"ok", "skip", "abort", "retry"}
  BY DEF HandlerResults
<1> HIDE DEF s, m
<1>5. StatusInvariants(m)
  BY <1>1, <1>2, <1>3, <1>4 DEF StatusInvariants, Terminal
<1>6. SoundRow(m)
  BY <1>1, <1>2, <1>3, <1>4, <1>5, RuntimeAssumption DEF SoundRow, Absent
<1> QED
  BY <1>1, <1>6 DEF m, s

-----------------------------------------------------------------------------
(* The ways in which a step may change the audit row of a delivery.        *)

Kept(d) == rows'[d] = rows[d] /\ verdict'[d] = verdict[d]

\* By the claim CTE of lease n.
Stamped(d, n) ==
    /\ tasks[d][n].pc = "claimed" /\ rows[d].status \in Active
    /\ rows'[d] = Stamp(rows[d], tasks[d][n].attempt, n)
    /\ verdict'[d] = verdict[d]

\* By the mark of lease n, which the fence lets through.
Settles(d, n) ==
    LET t == tasks[d][n]
    IN  /\ t.pc = "mark" /\ Fence(rows[d], n)
        /\ rows'[d] = Marked(rows[d], MarkStatus(t.outcome, t.attempt), MarkReason(t.outcome))
        /\ verdict'[d] = IF rows'[d].status \in Terminal THEN rows'[d].status ELSE verdict[d]

\* By one of the purges, with its event or without it.
Deleted(d) == rows[d].status \notin Active /\ rows'[d] = NoRow /\ verdict'[d] = verdict[d]

\* By a dispatch.
Inserted(d) ==
    /\ events[d[1]] = "none" /\ events'[d[1]] = "live"
    /\ rows'[d] = NewRow /\ verdict'[d] = verdict[d]

RowChange(d) ==
    \/ Kept(d)
    \/ \E n \in Claims : Stamped(d, n) \/ Settles(d, n)
    \/ Deleted(d)
    \/ Inserted(d)

LEMMA StampChange ==
    ASSUME HistoryInv, NEW d \in Deliveries, NEW n \in Claims, tasks[d][n].pc = "claimed",
           StampRow(d, n), UNCHANGED verdict
    PROVE  \A x \in Deliveries : Kept(x) \/ (x = d /\ Stamped(d, n))
<1>1. /\ rows'[d] = Stamp(rows[d], tasks[d][n].attempt, n)
      /\ \A x \in Deliveries : x # d => rows'[x] = rows[x]
  BY DEF StampRow, HistoryInv, TypeInv, TypeOK
<1>2. rows[d].status \notin Active => rows'[d] = rows[d]
  BY <1>1 DEF Stamp
<1> QED
  BY <1>1, <1>2 DEF Kept, Stamped

LEMMA MarkChange ==
    ASSUME HistoryInv, NEW d \in Deliveries, NEW n \in Claims, tasks[d][n].pc = "mark",
           MarkRow(d, n)
    PROVE  \A x \in Deliveries : Kept(x) \/ (x = d /\ Settles(d, n))
<1> DEFINE t == tasks[d][n]
           r == MarkFenced(rows[d], n, MarkStatus(t.outcome, t.attempt), MarkReason(t.outcome))
<1>1. /\ rows' = [rows EXCEPT ![d] = r]
      /\ verdict' = [verdict EXCEPT ![d] = IF r.status \in Terminal THEN r.status ELSE @]
  BY DEF MarkRow
<1>2. rows \in [Deliveries -> Row] /\ verdict \in [Deliveries -> Terminal \cup {"none"}]
  BY DEF HistoryInv, TypeInv, TypeOK
<1>3. /\ rows'[d] = r /\ verdict'[d] = IF r.status \in Terminal THEN r.status ELSE verdict[d]
      /\ \A x \in Deliveries : x # d => rows'[x] = rows[x] /\ verdict'[x] = verdict[x]
  BY <1>1, <1>2
<1>4. CASE Fence(rows[d], n)
  <2>1. r = Marked(rows[d], MarkStatus(t.outcome, t.attempt), MarkReason(t.outcome))
    BY <1>4 DEF MarkFenced
  <2> QED
    BY <1>3, <1>4, <2>1 DEF Kept, Settles
<1>5. CASE ~Fence(rows[d], n)
  <2>1. r = rows[d]
    BY <1>5 DEF MarkFenced
  <2>2. rows[d].status \in Terminal => verdict[d] = rows[d].status
    BY DEF HistoryInv, VerdictShown
  <2> QED
    BY <1>3, <2>1, <2>2 DEF Kept
<1> QED
  BY <1>4, <1>5

\* There are no others.
LEMMA RowChanges ==
    ASSUME HistoryInv, [Next]_vars
    PROVE  \A d \in Deliveries : RowChange(d)
<1>0. /\ rows \in [Deliveries -> Row] /\ events \in [Events -> {"none", "live", "purged"}]
      /\ \A d \in Deliveries : d[1] \in Events /\ d = <<d[1], d[2]>> /\ d[2] \in Handlers
  BY DEF HistoryInv, TypeInv, TypeOK, Deliveries
<1>1. ASSUME UNCHANGED <<rows, verdict>>
      PROVE  \A d \in Deliveries : RowChange(d)
  BY <1>1 DEF RowChange, Kept
<1>2. ASSUME NEW x \in Deliveries, NEW n \in Claims, tasks[x][n].pc = "claimed",
             StampRow(x, n), UNCHANGED verdict
      PROVE  \A d \in Deliveries : RowChange(d)
  BY <1>2, StampChange DEF RowChange
<1>3. ASSUME NEW x \in Deliveries, NEW n \in Claims, tasks[x][n].pc = "mark", MarkRow(x, n)
      PROVE  \A d \in Deliveries : RowChange(d)
  BY <1>3, MarkChange DEF RowChange
<1>4. ASSUME NEW x \in Deliveries, NEW n \in Claims, Wrapper(x, n)
      PROVE  \A d \in Deliveries : RowChange(d)
  BY <1>1, <1>2, <1>3, <1>4 DEF Wrapper, RowMissing, AlreadyTerminal, StartHandler,
     HandlerNotRegistered, HandlerReturns, MarkDelivery, Report
<1>5. ASSUME NEW x \in Deliveries, NEW n \in Claims, Failure(x, n)
      PROVE  \A d \in Deliveries : RowChange(d)
  BY <1>1, <1>2, <1>3, <1>5 DEF Failure, FetchFails, MarkFails, OuterTimeout, ReportFails
<1>6. ASSUME NEW x \in Deliveries, Claim(x) \/ Reap(x)
      PROVE  \A d \in Deliveries : RowChange(d)
  BY <1>1, <1>6 DEF Claim, Reap
<1>7. ASSUME NEW x \in Deliveries, PurgeTerminalDelivery(x)
      PROVE  \A d \in Deliveries : RowChange(d)
  BY <1>0, <1>7 DEF PurgeTerminalDelivery, RowChange, Kept, Deleted, Active, Terminal
<1>8. ASSUME NEW e \in Events, DispatchCommit(e)
      PROVE  \A d \in Deliveries : RowChange(d)
  BY <1>0, <1>8 DEF DispatchCommit, RowChange, Kept, Inserted
<1>9. ASSUME NEW e \in Events, PurgeEvent(e)
      PROVE  \A d \in Deliveries : RowChange(d)
  <2> SUFFICES ASSUME NEW d \in Deliveries, d[1] = e
               PROVE  RowChange(d)
    BY <1>0, <1>9 DEF PurgeEvent, RowChange, Kept
  <2> QED
    BY <1>0, <1>9 DEF PurgeEvent, NoActiveDelivery, RowChange, Deleted
<1>10. CASE Crash \/ Restart \/ UNCHANGED vars
  BY <1>1, <1>10 DEF Crash, Restart, vars
<1> QED
  BY <1>4, <1>5, <1>6, <1>7, <1>8, <1>9, <1>10 DEF Next

\* A task with a handler result to mark, or on its way to one, has stamped the
\* row, and its attempt is the one it was claimed with.
LEMMA TaskChanges ==
    ASSUME HistoryInv, [Next]_vars, NEW d \in Deliveries, NEW n \in Claims,
           tasks'[d][n].pc \in {"handler", "mark"}
    PROVE  /\ tasks'[d][n].attempt = tasks[d][n].attempt
           /\ \/ tasks[d][n].pc = "handler"
              \/ tasks[d][n].pc = "mark" /\ tasks'[d][n].pc = "mark"
              \/ Stamped(d, n)
<1>0. TypeInv
  BY DEF HistoryInv
<1> DEFINE Fine == /\ tasks'[d][n].attempt = tasks[d][n].attempt
                   /\ \/ tasks[d][n].pc = "handler"
                      \/ tasks[d][n].pc = "mark" /\ tasks'[d][n].pc = "mark"
                      \/ Stamped(d, n)
<1>1. ASSUME tasks'[d][n] = tasks[d][n]
      PROVE  Fine
  BY <1>1
<1>2. ASSUME NEW x \in Deliveries, NEW m \in Claims, NEW o, Goto(x, m, "report", o)
      PROVE  Fine
  BY <1>0, <1>1, <1>2, GotoEffect
<1>3. ASSUME NEW x \in Deliveries, NEW m \in Claims, EndTask(x, m)
      PROVE  Fine
  BY <1>0, <1>1, <1>3, EndTaskEffect
<1>4. ASSUME NEW x \in Deliveries, NEW m \in Claims, NEW pc, NEW o, Goto(x, m, pc, o),
             tasks[x][m].pc = "claimed", rows[x].status \in Active, StampRow(x, m),
             UNCHANGED verdict
      PROVE  Fine
  <2>1. CASE x = d /\ m = n
    <3>1. Stamped(d, n)
      BY <1>4, <2>1 DEF Stamped, StampRow, HistoryInv, TypeInv, TypeOK
    <3> QED
      BY <1>0, <1>4, <2>1, <3>1, GotoEffect
  <2>2. CASE x # d \/ m # n
    BY <1>0, <1>1, <1>4, <2>2, GotoEffect
  <2> QED
    BY <2>1, <2>2
<1>5. ASSUME NEW x \in Deliveries, NEW m \in Claims, HandlerReturns(x, m)
      PROVE  Fine
  <2>1. PICK o : Goto(x, m, "mark", o)
    BY <1>5 DEF HandlerReturns
  <2>2. tasks[x][m].pc = "handler"
    BY <1>5 DEF HandlerReturns
  <2> QED
    BY <1>0, <1>1, <2>1, <2>2, GotoEffect
<1>6. ASSUME NEW x \in Deliveries, NEW m \in Claims, Wrapper(x, m)
      PROVE  Fine
  BY <1>2, <1>3, <1>4, <1>5, <1>6 DEF Wrapper, RowMissing, AlreadyTerminal, StartHandler,
     HandlerNotRegistered, MarkDelivery, Report
<1>7. ASSUME NEW x \in Deliveries, NEW m \in Claims, Failure(x, m)
      PROVE  Fine
  BY <1>2, <1>3, <1>7 DEF Failure, FetchFails, MarkFails, OuterTimeout, ReportFails
<1>8. ASSUME NEW x \in Deliveries, Claim(x)
      PROVE  Fine
  <2> DEFINE k == jobs[x].token + 1
             t == [pc |-> "claimed", attempt |-> jobs[x].attempts + 1, outcome |-> "none"]
  <2>1. t.pc = "claimed"
    OBVIOUS
  <2>2. tasks' = [tasks EXCEPT ![x][k] = t]
    BY <1>8 DEF Claim
  <2> HIDE DEF k, t
  <2>3. tasks'[d][n] = tasks[d][n] \/ tasks'[d][n] = t
    BY <1>0, <2>2 DEF TypeInv, TypeOK
  <2> QED
    BY <1>1, <2>1, <2>3
<1>9. ASSUME UNCHANGED tasks
      PROVE  Fine
  BY <1>1, <1>9
<1>10. ASSUME Crash
       PROVE  Fine
  BY <1>10 DEF Crash, NoTask
<1>11. ASSUME NEW x \in Deliveries, Reap(x) \/ PurgeTerminalDelivery(x)
       PROVE  Fine
  BY <1>9, <1>11 DEF Reap, PurgeTerminalDelivery
<1>12. ASSUME NEW e \in Events, DispatchCommit(e) \/ PurgeEvent(e)
       PROVE  Fine
  BY <1>9, <1>12 DEF DispatchCommit, PurgeEvent
<1>13. ASSUME Restart \/ UNCHANGED vars
       PROVE  Fine
  BY <1>9, <1>13 DEF Restart, vars
<1> HIDE DEF Fine
<1>14. Fine
  BY <1>6, <1>7, <1>8, <1>10, <1>11, <1>12, <1>13 DEF Next
<1> QED
  BY <1>14 DEF Fine

\* What a step may do to the event and the job of a delivery, beside its row.
LEMMA EventChanges ==
    ASSUME HistoryInv, [Next]_vars, NEW d \in Deliveries
    PROVE  /\ events'[d[1]] \in {events[d[1]], "live"} \/ rows'[d].status = Absent
           /\ jobs'[d].status # "absent" => jobs[d].status # "absent" \/ rows'[d].status # Absent
<1> DEFINE Fine == /\ events'[d[1]] \in {events[d[1]], "live"} \/ rows'[d].status = Absent
                   /\ jobs'[d].status # "absent" =>
                        jobs[d].status # "absent" \/ rows'[d].status # Absent
<1>0. /\ jobs \in [Deliveries -> Job] /\ events \in [Events -> {"none", "live", "purged"}]
      /\ d[1] \in Events
  BY DEF HistoryInv, TypeInv, TypeOK, Deliveries
<1>1. ASSUME UNCHANGED <<events, jobs>>
      PROVE  Fine
  BY <1>1
<1>2. ASSUME NEW x \in Deliveries, NEW n \in Claims, Report(x, n)
      PROVE  Fine
  BY <1>0, <1>2 DEF Report, ReportJob
<1>3. ASSUME NEW x \in Deliveries, NEW n \in Claims, Wrapper(x, n) \/ Failure(x, n)
      PROVE  Fine
  BY <1>1, <1>2, <1>3 DEF Wrapper, RowMissing, AlreadyTerminal, StartHandler,
     HandlerNotRegistered, HandlerReturns, MarkDelivery,
     Failure, FetchFails, MarkFails, OuterTimeout, ReportFails
<1>4. ASSUME NEW x \in Deliveries, Claim(x) \/ Reap(x) \/ PurgeTerminalDelivery(x)
      PROVE  Fine
  BY <1>0, <1>4 DEF Claim, Reap, PurgeTerminalDelivery
<1>5. ASSUME NEW e \in Events, DispatchCommit(e)
      PROVE  Fine
  BY <1>0, <1>5, EmptyRows DEF DispatchCommit, Absent
<1>6. ASSUME NEW e \in Events, PurgeEvent(e)
      PROVE  Fine
  BY <1>0, <1>6, EmptyRows DEF PurgeEvent
<1>7. ASSUME Crash \/ Restart \/ UNCHANGED vars
      PROVE  Fine
  BY <1>1, <1>7 DEF Crash, Restart, vars
<1> HIDE DEF Fine
<1>8. Fine
  BY <1>3, <1>4, <1>5, <1>6, <1>7 DEF Next
<1> QED
  BY <1>8 DEF Fine

-----------------------------------------------------------------------------
(* Refinement: every step is a step of DeliveryLifecycle or a stutter.     *)

\* The status that DeliveryLifecycle sees changes as it allows.
LEMMA MoveAllowed ==
    ASSUME HistoryInv, NEW d \in Deliveries, RowChange(d)
    PROVE  AuditStatus'[d] = AuditStatus[d] \/ Lifecycle!Move(d)
<1> DEFINE old == AuditStatus[d]
           new == AuditStatus'[d]
<1>0. /\ old = (IF rows[d].status # Absent THEN rows[d].status
                 ELSE IF verdict[d] = "none" THEN "absent" ELSE "purged")
      /\ new = (IF rows'[d].status # Absent THEN rows'[d].status
                 ELSE IF verdict'[d] = "none" THEN "absent" ELSE "purged")
  BY DEF AuditStatus
<1>1. /\ rows[d] \in Row
      /\ rows[d].status \in Active \cup Terminal \cup {Absent}
  BY DEF HistoryInv, TypeInv, TypeOK, Row
<1> HIDE DEF old, new
<1>2. CASE Kept(d)
  BY <1>0, <1>2 DEF Kept, old, new
<1>3. ASSUME NEW n \in Claims, Stamped(d, n)
      PROVE  new = old \/ (old \in {"queued", "awaiting_retry"} /\ new = "running")
  <2>1. rows'[d].status = "running" /\ rows[d].status \in Active
    BY <1>1, <1>3 DEF Stamped, Stamp, Row
  <2> QED
    BY <1>0, <2>1 DEF Active, Absent
<1>4. ASSUME NEW n \in Claims, Settles(d, n)
      PROVE  /\ old = "running"
             /\ new \in {"awaiting_retry", "dead", "skipped"} \/ (new = "sent" /\ d \in succeeded)
  <2> DEFINE t == tasks[d][n]
  <2>1. t.outcome \in HandlerResults /\ t.attempt \in Nat /\ rows[d].status = "running"
    BY <1>1, <1>4 DEF Settles, Fence, HistoryInv, TypeInv, TypeOK, PhaseOutcome, Task
  <2>2. rows'[d].status = MarkStatus(t.outcome, t.attempt)
    BY <1>1, <1>4 DEF Settles, Marked, Row
  <2>3. /\ rows'[d].status \in Terminal \cup {"awaiting_retry"}
        /\ rows'[d].status = "sent" => t.outcome = "ok"
    BY <2>1, <2>2, ResultFacts
  <2>4. t.outcome = "ok" => d \in succeeded
    BY <1>1, <1>4 DEF Settles, HistoryInv, NewsIsTrue
  <2> QED
    BY <1>0, <2>1, <2>3, <2>4 DEF Terminal, Absent
<1>5. CASE Deleted(d)
  <2>1. rows'[d].status = Absent /\ verdict'[d] = verdict[d]
    BY <1>5, EmptyRows DEF Deleted
  <2>2. rows[d].status = Absent \/ (rows[d].status \in Terminal /\ verdict[d] = rows[d].status)
    BY <1>1, <1>5 DEF Deleted, HistoryInv, VerdictShown
  <2>3. new = old \/ (old \in {"sent", "dead", "skipped"} /\ new = "purged")
    BY <1>0, <2>1, <2>2 DEF Terminal, Absent
  <2> QED
    BY <2>3 DEF Lifecycle!Move, Lifecycle!Purge, Lifecycle!Becomes, Lifecycle!Settled, old, new
<1>6. CASE Inserted(d)
  <2>1. rows[d].status = Absent /\ verdict[d] = "none" /\ rows'[d].status = "queued"
    BY <1>1, <1>6, EmptyRows DEF Inserted, HistoryInv, FreshEvents, Undispatched
  <2>2. old = "absent" /\ new = "queued"
    BY <1>0, <2>1 DEF Absent
  <2> QED
    BY <2>2 DEF Lifecycle!Move, Lifecycle!Enqueue, Lifecycle!Becomes, old, new
<1>7. ASSUME NEW n \in Claims, Stamped(d, n) \/ Settles(d, n)
      PROVE  new = old \/ Lifecycle!Move(d)
  BY <1>3, <1>4, <1>7 DEF Lifecycle!Move, Lifecycle!Start, Lifecycle!Retry, Lifecycle!Send,
     Lifecycle!GiveUp, Lifecycle!Becomes, old, new
<1> QED
  BY <1>2, <1>5, <1>6, <1>7 DEF RowChange, old, new

\* A delivery that was started never looks fresh again.
LEMMA StartedStays ==
    ASSUME NEW d \in Deliveries, AuditStatus[d] \notin {"absent", "queued"},
           AuditStatus'[d] = AuditStatus[d] \/ Lifecycle!Move(d)
    PROVE  AuditStatus'[d] \notin {"absent", "queued"}
BY DEF Lifecycle!Move, Lifecycle!Enqueue, Lifecycle!Start, Lifecycle!Retry, Lifecycle!Send,
   Lifecycle!GiveUp, Lifecycle!Purge, Lifecycle!Becomes

\* Only a handler that returns Ok makes a delivery succeed.
LEMMA SuccessChange ==
    ASSUME HistoryInv, [Next]_vars
    PROVE  \/ succeeded' = succeeded
           \/ \E d \in Deliveries, n \in Claims :
                /\ tasks[d][n].pc = "handler"
                /\ succeeded' = succeeded \cup {d}
                /\ UNCHANGED <<rows, verdict>>
<1>1. ASSUME NEW d \in Deliveries, NEW n \in Claims, HandlerReturns(d, n)
      PROVE  \/ succeeded' = succeeded
             \/ /\ tasks[d][n].pc = "handler"
                /\ succeeded' = succeeded \cup {d}
                /\ UNCHANGED <<rows, verdict>>
  BY <1>1 DEF HandlerReturns
<1>2. ASSUME NEW d \in Deliveries, NEW n \in Claims,
             (Wrapper(d, n) /\ ~HandlerReturns(d, n)) \/ Failure(d, n)
      PROVE  succeeded' = succeeded
  BY <1>2 DEF Wrapper, RowMissing, AlreadyTerminal, StartHandler, HandlerNotRegistered,
     MarkDelivery, Report, Failure, FetchFails, MarkFails, OuterTimeout, ReportFails
<1>3. ASSUME NEW d \in Deliveries, Claim(d) \/ Reap(d) \/ PurgeTerminalDelivery(d)
      PROVE  succeeded' = succeeded
  BY <1>3 DEF Claim, Reap, PurgeTerminalDelivery
<1>4. ASSUME NEW e \in Events, DispatchCommit(e) \/ PurgeEvent(e)
      PROVE  succeeded' = succeeded
  BY <1>4 DEF DispatchCommit, PurgeEvent
<1>5. ASSUME Crash \/ Restart \/ UNCHANGED vars
      PROVE  succeeded' = succeeded
  BY <1>5 DEF Crash, Restart, vars
<1> QED
  BY <1>1, <1>2, <1>3, <1>4, <1>5 DEF Next

\* Every step of the runtime is one of DeliveryLifecycle, or none.
LEMMA LifecycleStep ==
    ASSUME AuditInv, [Next]_vars
    PROVE  [Lifecycle!Next]_<<AuditStatus, succeeded>>
<1>0. HistoryInv
  BY DEF AuditInv
<1>1. CASE succeeded' = succeeded
  <2>1. \A d \in Deliveries : AuditStatus'[d] = AuditStatus[d] \/ Lifecycle!Move(d)
    BY <1>0, RowChanges, MoveAllowed
  <2> QED
    BY <1>1, <2>1 DEF Lifecycle!Next
<1>2. ASSUME NEW d \in Deliveries, NEW n \in Claims, tasks[d][n].pc = "handler",
             succeeded' = succeeded \cup {d}, UNCHANGED <<rows, verdict>>
      PROVE  Lifecycle!Next
  <2>1. AuditStatus[d] \notin {"absent", "queued"}
    BY <1>2 DEF AuditInv, CalledIsStamped
  <2>2. AuditStatus' = AuditStatus
    BY <1>2 DEF AuditStatus
  <2>3. Lifecycle!Succeed(d)
    BY <1>2, <2>1, <2>2 DEF Lifecycle!Succeed
  <2> QED
    BY <2>3 DEF Lifecycle!Next
<1> QED
  BY <1>0, <1>1, <1>2, SuccessChange

-----------------------------------------------------------------------------
(* AuditInv is inductive.                                                  *)

LEMMA SoundRows ==
    AuditInv => \A d \in Deliveries : SoundRow(rows[d])
BY DEF AuditInv, RowsMeetCheck, ErrorExplainsStatus, AbsentIsEmpty, SoundRow

\* What a step leaves in the row of a delivery.
LEMMA RowAfter ==
    ASSUME AuditInv, NEW d \in Deliveries, RowChange(d)
    PROVE  /\ SoundRow(rows'[d])
           /\ rows'[d].status # Absent => rows'[d].attempts >= rows[d].attempts
<1>1. /\ rows[d] \in Row /\ SoundRow(rows[d]) /\ rows[d].attempts \in Nat /\ HistoryInv
  BY SoundRows DEF AuditInv, HistoryInv, TypeInv, TypeOK, Row
<1>2. CASE Kept(d)
  BY <1>1, <1>2 DEF Kept
<1>3. ASSUME NEW n \in Claims, Stamped(d, n)
      PROVE  SoundRow(rows'[d]) /\ rows'[d].attempts >= rows[d].attempts
  <2>1. n \in Nat \ {0} /\ tasks[d][n].attempt \in Nat
    BY <1>1, RuntimeAssumption DEF HistoryInv, TypeInv, TypeOK, Task, Claims
  <2> QED
    BY <1>1, <1>3, <2>1, StampSound DEF Stamped
<1>4. ASSUME NEW n \in Claims, Settles(d, n)
      PROVE  SoundRow(rows'[d]) /\ rows'[d].attempts >= rows[d].attempts
  <2>1. tasks[d][n].attempt \in Nat /\ tasks[d][n].outcome \in HandlerResults
    BY <1>1, <1>4 DEF Settles, HistoryInv, TypeInv, TypeOK, PhaseOutcome, Task
  <2>2. rows[d].attempts >= tasks[d][n].attempt /\ rows[d].status = "running"
    BY <1>4 DEF Settles, AuditInv, StampCounts, Fence
  <2> QED
    BY <1>1, <1>4, <2>1, <2>2, MarkSound DEF Settles
<1>5. CASE Deleted(d)
  BY <1>5, EmptyRows DEF Deleted
<1>6. CASE Inserted(d)
  <2>1. rows[d].attempts = 0
    BY <1>1, <1>6 DEF Inserted, SoundRow, HistoryInv, FreshEvents, Undispatched
  <2> QED
    BY <1>6, <2>1, EmptyRows DEF Inserted
<1> QED
  BY <1>2, <1>3, <1>4, <1>5, <1>6 DEF RowChange

\* The statuses that a stamp and a mark leave.
LEMMA StatusAfter ==
    ASSUME HistoryInv, NEW d \in Deliveries, NEW n \in Claims
    PROVE  /\ Stamped(d, n) => rows'[d].status = "running" /\ rows'[d].lease_token = n
           /\ Settles(d, n) => rows'[d].status \in Terminal \cup {"awaiting_retry"}
<1>1. rows[d] \in Row /\ tasks[d][n].attempt \in Nat
  BY DEF HistoryInv, TypeInv, TypeOK, Task
<1>2. ASSUME Stamped(d, n)
      PROVE  rows'[d].status = "running" /\ rows'[d].lease_token = n
  BY <1>1, <1>2 DEF Stamped, Stamp, Row
<1>3. ASSUME Settles(d, n)
      PROVE  rows'[d].status \in Terminal \cup {"awaiting_retry"}
  <2>1. tasks[d][n].outcome \in HandlerResults
    BY <1>3 DEF Settles, HistoryInv, TypeInv, PhaseOutcome
  <2>2. rows'[d].status = MarkStatus(tasks[d][n].outcome, tasks[d][n].attempt)
    BY <1>1, <1>3 DEF Settles, Marked, Row
  <2> QED
    BY <1>1, <2>1, <2>2, ResultFacts
<1> QED
  BY <1>2, <1>3

LEMMA AuditInductive ==
    /\ Init => AuditInv
    /\ AuditInv /\ [Next]_vars => AuditInv'
<1>1. ASSUME Init PROVE AuditInv
  <2>1. /\ HistoryInv
        /\ \A d \in Deliveries : rows[d] = NoRow /\ jobs[d].status = "absent"
        /\ \A d \in Deliveries, n \in Claims : tasks[d][n].pc = "idle"
    BY <1>1, HistoryInductive DEF Init, NoJob, NoTask
  <2>2. \A d \in Deliveries : rows[d].status = Absent /\ SoundRow(rows[d])
    BY <2>1, EmptyRows
  <2> QED
    BY <2>1, <2>2 DEF AuditInv, SoundRow, RowsHaveEvents, RowsMeetCheck, ErrorExplainsStatus,
       AbsentIsEmpty, StampCounts, GoneIsSettled, CalledIsStamped
<1>2. ASSUME AuditInv, [Next]_vars PROVE AuditInv'
  <2>0. HistoryInv /\ HistoryInv'
    BY <1>2, HistoryInductive DEF AuditInv
  <2>1. \A d \in Deliveries : RowChange(d)
    BY <1>2, <2>0, RowChanges
  <2>2. \A d \in Deliveries : SoundRow(rows'[d])
    BY <1>2, <2>1, RowAfter
  <2>3. (RowsMeetCheck /\ ErrorExplainsStatus /\ AbsentIsEmpty)'
    BY <2>2 DEF RowsMeetCheck, ErrorExplainsStatus, AbsentIsEmpty, SoundRow
  <2>4. RowsHaveEvents'
    <3> SUFFICES ASSUME NEW d \in Deliveries, events'[d[1]] # "live"
                 PROVE  rows'[d].status = Absent
      BY DEF RowsHaveEvents
    <3>1. CASE events'[d[1]] = events[d[1]]
      <4>1. rows[d].status = Absent
        BY <1>2, <3>1 DEF AuditInv, RowsHaveEvents
      <4>2. Kept(d) \/ Deleted(d)
        BY <2>1, <4>1 DEF RowChange, Stamped, Settles, Fence, Inserted, Active, Absent
      <4> QED
        BY <4>1, <4>2, EmptyRows DEF Kept, Deleted
    <3> QED
      BY <1>2, <2>0, <3>1, EventChanges
  <2>5. StampCounts'
    <3> SUFFICES ASSUME NEW d \in Deliveries, NEW n \in Claims,
                        tasks'[d][n].pc \in {"handler", "mark"}, Fence(rows'[d], n)
                 PROVE  rows'[d].attempts >= tasks'[d][n].attempt
      BY DEF StampCounts, Fence
    <3>1. /\ tasks'[d][n].attempt = tasks[d][n].attempt
          /\ tasks[d][n].pc \in {"handler", "mark"} \/ Stamped(d, n)
      BY <1>2, <2>0, TaskChanges
    <3>2. CASE Stamped(d, n)
      <4>1. /\ n \in Nat \ {0} /\ tasks[d][n].attempt \in Nat
            /\ rows[d] \in Row /\ SoundRow(rows[d])
        BY <1>2, <2>0, SoundRows, RuntimeAssumption DEF HistoryInv, TypeInv, TypeOK, Task, Claims
      <4> QED
        BY <3>1, <3>2, <4>1, StampSound DEF Stamped
    <3>3. CASE tasks[d][n].pc \in {"handler", "mark"}
      <4>1. \A m \in Claims : ~Settles(d, m)
        BY <2>0, StatusAfter DEF Fence, Terminal
      <4>2. \A m \in Claims : ~Stamped(d, m)
        BY <2>0, <3>3, StatusAfter DEF Fence, Stamped
      <4>3. ~Deleted(d) /\ ~Inserted(d)
        BY EmptyRows DEF Deleted, Inserted, Fence, Absent
      <4>4. rows'[d] = rows[d]
        BY <2>1, <4>1, <4>2, <4>3 DEF RowChange, Kept
      <4> QED
        BY <1>2, <3>1, <3>3, <4>4 DEF AuditInv, StampCounts
    <3> QED
      BY <3>1, <3>2, <3>3
  <2>6. GoneIsSettled'
    <3> SUFFICES ASSUME NEW d \in Deliveries, rows'[d].status = Absent, jobs'[d].status # "absent"
                 PROVE  verdict'[d] # "none"
      BY DEF GoneIsSettled
    <3>1. jobs[d].status # "absent"
      BY <1>2, <2>0, EventChanges
    <3>2. Kept(d) \/ Deleted(d)
      BY <2>0, <2>1, StatusAfter, EmptyRows DEF RowChange, Inserted, Absent, Terminal
    <3>3. rows[d].status = Absent => verdict[d] # "none"
      BY <1>2, <3>1 DEF AuditInv, GoneIsSettled
    <3>4. rows[d].status \in Terminal => verdict[d] = rows[d].status
      BY <2>0 DEF HistoryInv, VerdictShown
    <3>5. rows[d].status \in Active \cup Terminal \cup {Absent}
      BY <2>0 DEF HistoryInv, TypeInv, TypeOK, Row
    <3> QED
      BY <3>2, <3>3, <3>4, <3>5 DEF Kept, Deleted, Terminal
  <2>7. CalledIsStamped'
    <3> SUFFICES ASSUME NEW d \in Deliveries, NEW n \in Claims, tasks'[d][n].pc = "handler"
                 PROVE  AuditStatus'[d] \notin {"absent", "queued"}
      BY DEF CalledIsStamped
    <3>1. CASE Stamped(d, n)
      BY <2>0, <3>1, StatusAfter DEF AuditStatus, Absent
    <3>2. CASE tasks[d][n].pc = "handler"
      <4>1. AuditStatus[d] \notin {"absent", "queued"}
        BY <1>2, <3>2 DEF AuditInv, CalledIsStamped
      <4> QED
        BY <2>0, <2>1, <4>1, MoveAllowed, StartedStays
    <3> QED
      BY <1>2, <2>0, <3>1, <3>2, TaskChanges
  <2> QED
    BY <2>0, <2>3, <2>4, <2>5, <2>6, <2>7 DEF AuditInv
<1> QED
  BY <1>1, <1>2

LEMMA AuditHolds == Spec => []AuditInv
BY AuditInductive, PTL DEF Spec

-----------------------------------------------------------------------------
(* The theorems.                                                           *)

\* No claim or mark of runtime.rs leaves a row that the CHECK constraint of
\* outbox.handler_deliveries refuses, whatever is stale, lost or reaped.
THEOREM RowsMeetCheckHolds == Spec => []RowsMeetCheck
<1>1. AuditInv => RowsMeetCheck
  BY DEF AuditInv
<1> QED
  BY <1>1, AuditHolds, PTL

\* last_error belongs to the status beside it, and a delivery that ended on a
\* retry reason had used up max_attempts.
THEOREM ErrorExplainsStatusHolds == Spec => []ErrorExplainsStatus
<1>1. AuditInv => ErrorExplainsStatus
  BY DEF AuditInv
<1> QED
  BY <1>1, AuditHolds, PTL

\* purge_events deletes an event only after each of its deliveries was settled.
THEOREM PurgedOnlySettledHolds == Spec => []PurgedOnlySettled
<1>1. AuditInv => PurgedOnlySettled
  BY DEF AuditInv, PurgedOnlySettled, RowsHaveEvents, GoneIsSettled
<1> QED
  BY <1>1, AuditHolds, PTL

\* GREATEST in the claim CTE: the audit counter never runs backwards, even when
\* the reaper resets pgwq's.
THEOREM AttemptsMonotoneHolds == Spec => AttemptsMonotone
<1> DEFINE A == \A d \in Deliveries :
                  rows'[d].status # Absent => rows'[d].attempts >= rows[d].attempts
<1>1. ASSUME AuditInv, [Next]_vars PROVE A
  <2>1. \A d \in Deliveries : RowChange(d)
    BY <1>1, RowChanges DEF AuditInv
  <2> QED
    BY <1>1, <2>1, RowAfter
<1> QED
  BY <1>1, AuditHolds, PTL DEF Spec, AttemptsMonotone

\* The runtime implements DeliveryLifecycle, the state machine of the README:
\* workers, leases, faults, crashes and purges add no transition to it.
THEOREM LifecycleImplemented == Spec => ImplementsLifecycle
<1>1. Init => Lifecycle!Init
  BY DEF Init, NoRow, Absent, AuditStatus, Lifecycle!Init
<1>2. AuditInv /\ [Next]_vars => [Lifecycle!Next]_<<AuditStatus, succeeded>>
  BY LifecycleStep
<1> QED
  BY <1>1, <1>2, AuditHolds, PTL DEF Spec, ImplementsLifecycle, Lifecycle!Spec
=============================================================================
