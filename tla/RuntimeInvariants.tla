------------------------- MODULE RuntimeInvariants --------------------------
(***************************************************************************)
(* The inductive invariants behind the properties of Runtime, as           *)
(* conjunctions of named parts.                                            *)
(***************************************************************************)
EXTENDS Runtime

-----------------------------------------------------------------------------
(* Types, strengthened with what a phase says about the outcome.           *)

\* A task that is to mark carries a handler result, one that is to report
\* carries a verdict.
PhaseOutcome ==
    \A d \in Deliveries, n \in Claims :
        /\ tasks[d][n].pc = "mark" => tasks[d][n].outcome \in HandlerResults
        /\ tasks[d][n].pc = "report" => tasks[d][n].outcome \in Verdicts

TypeInv == TypeOK /\ PhaseOutcome

-----------------------------------------------------------------------------
(* History: what is settled, and on whose word.                            *)

\* A delivery whose event was not dispatched has left no trace.
Undispatched(d) ==
    /\ rows[d].status = Absent
    /\ jobs[d].status = "absent"
    /\ verdict[d] = "none"

FreshEvents == \A d \in Deliveries : events[d[1]] = "none" => Undispatched(d)

\* The audit row shows the verdict until it is purged.
VerdictShown ==
    \A d \in Deliveries :
        /\ rows[d].status \in Terminal => verdict[d] = rows[d].status
        /\ verdict[d] # "none" => rows[d].status \notin Active

\* The handler succeeded or the delivery was given up.
Handled(d) == d \in succeeded \/ verdict[d] \in {"dead", "skipped"}

\* Good news is true on its whole way from the handler to pgwq's table.
NewsIsTrue ==
    \A d \in Deliveries :
        /\ verdict[d] = "sent" => d \in succeeded
        /\ jobs[d].status = "done" => Handled(d)
        /\ \A n \in Claims :
             /\ tasks[d][n].pc = "mark" /\ tasks[d][n].outcome = "ok" => d \in succeeded
             /\ tasks[d][n].pc = "report" /\ tasks[d][n].outcome = "ok" => Handled(d)

HistoryInv == TypeInv /\ FreshEvents /\ VerdictShown /\ NewsIsTrue

-----------------------------------------------------------------------------
(* Fencing: who owns a row.                                                *)

\* A task runs its claim CTE before its lease can run out.
ClaimsInTime == "claimed" \notin ExpiryPhases

Owner(d, n) == jobs[d].status = "leased" /\ jobs[d].token = n

\* Every live task has a lease that was given out, and the current one knows
\* the attempt pgwq counts.
LeasesGiven ==
    \A d \in Deliveries, n \in Claims :
        tasks[d][n].pc # "idle" =>
            /\ jobs[d].status # "absent"
            /\ n <= jobs[d].token
            /\ Owner(d, n) => tasks[d][n].attempt = jobs[d].attempts

\* A task that has not stamped its row still has its lease.
ClaimedOwns ==
    \A d \in Deliveries, n \in Claims : tasks[d][n].pc = "claimed" => Owner(d, n)

\* A running row was stamped last by the newest of the tasks that stamped it.
StampsAscend ==
    \A d \in Deliveries, n \in Claims :
        /\ tasks[d][n].pc \in {"handler", "mark"}
        /\ rows[d].status = "running"
        => n <= rows[d].lease_token

FencingInv == HistoryInv /\ LeasesGiven /\ ClaimedOwns /\ StampsAscend /\ OwnerHoldsRow

-----------------------------------------------------------------------------
(* Settlement: pgwq and the audit row agree when no statement fails.       *)

NothingFails == ClaimsInTime /\ Faults = {} /\ CancelPhases = {}

\* An audit row has its event.
RowsHaveEvents ==
    \A d \in Deliveries : events[d[1]] # "live" => rows[d].status = Absent

\* The verdict that the owner is about to report ends the job.
EndsJob(d, n) ==
    \/ tasks[d][n].outcome \in {"ok", "abort"}
    \/ tasks[d][n].outcome = "retry" /\ tasks[d][n].attempt >= MaxAttempts

ReportAgrees ==
    \A d \in Deliveries, n \in Claims :
        tasks[d][n].pc = "report" /\ Owner(d, n) /\ EndsJob(d, n) =>
            /\ rows[d].status \notin Active
            /\ tasks[d][n].outcome # "ok" => rows[d].status # "sent"

SettlementInv ==
    FencingInv /\ RowsHaveEvents /\ ReportAgrees /\ SettledTogether /\ NoDeadSent

-----------------------------------------------------------------------------
(* Audit: what a row says, and what its absence means.                     *)

\* A row that is not there has nothing in its columns.
AbsentIsEmpty ==
    \A d \in Deliveries :
        rows[d].status = Absent => rows[d].attempts = 0 /\ rows[d].last_error = "null"

\* The row counts the attempt of the task that holds it.
StampCounts ==
    \A d \in Deliveries, n \in Claims :
        /\ tasks[d][n].pc \in {"handler", "mark"}
        /\ Fence(rows[d], n)
        => rows[d].attempts >= tasks[d][n].attempt

\* A dispatched delivery without a row was settled and purged.
GoneIsSettled ==
    \A d \in Deliveries :
        rows[d].status = Absent /\ jobs[d].status # "absent" => verdict[d] # "none"

\* A handler is called for a delivery whose audit row was stamped.
CalledIsStamped ==
    \A d \in Deliveries, n \in Claims :
        tasks[d][n].pc = "handler" => AuditStatus[d] \notin {"absent", "queued"}

AuditInv ==
    /\ HistoryInv /\ RowsHaveEvents
    /\ RowsMeetCheck /\ ErrorExplainsStatus
    /\ AbsentIsEmpty /\ StampCounts /\ GoneIsSettled /\ CalledIsStamped
=============================================================================
