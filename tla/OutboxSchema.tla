---------------------------- MODULE OutboxSchema ----------------------------
(***************************************************************************)
(* The audit table outbox.handler_deliveries: its status machine, the      *)
(* CHECK constraint that ties the columns to the status, and the UPDATEs   *)
(* that src/runtime.rs applies to one row.  No state here: a row is a      *)
(* record, and an UPDATE is an operator from a row to a row.               *)
(***************************************************************************)
EXTENDS Integers

CONSTANTS Events,    \* the event ids that may be dispatched
          Handlers   \* the handler ids that any deployed version registers

\* One audit row and one pgwq job exist per (event, handler) pair.
Deliveries == Events \X Handlers

Active   == {"queued", "running", "awaiting_retry"}
Terminal == {"sent", "dead", "skipped"}

\* "absent" stands for a row that is not in the table (not yet inserted, or
\* purged).  Null is SQL's NULL in the lease_token column.
Absent == "absent"
Null   == 0

\* last_error keeps only what the reason was given for.
Reasons == {"null", "retry", "abort", "skip"}

Row == [status      : Active \cup Terminal \cup {Absent},
        attempts    : Nat,
        lease_token : Nat,
        attempted   : BOOLEAN,   \* first_ and last_attempted_at IS NOT NULL
        finished    : BOOLEAN,   \* finished_at IS NOT NULL
        last_error  : Reasons]

NoRow == [status |-> Absent, attempts |-> 0, lease_token |-> Null,
          attempted |-> FALSE, finished |-> FALSE, last_error |-> "null"]

\* A row as the column defaults make it.
NewRow == [NoRow EXCEPT !.status = "queued"]

-----------------------------------------------------------------------------
\* CONSTRAINT handler_deliveries_status_invariants.
StatusInvariants(r) ==
    \/ /\ r.status = "queued"
       /\ r.attempts = 0 /\ ~r.attempted /\ ~r.finished
       /\ r.lease_token = Null
    \/ /\ r.status = "running"
       /\ r.attempts > 0 /\ r.attempted /\ ~r.finished
       /\ r.lease_token # Null
    \/ /\ r.status = "awaiting_retry"
       /\ r.attempts > 0 /\ r.attempted /\ ~r.finished
       /\ r.lease_token = Null
    \/ /\ r.status \in Terminal
       /\ r.attempts > 0 /\ r.attempted /\ r.finished
       /\ r.lease_token = Null

-----------------------------------------------------------------------------
(* The claim CTE of handle_envelope: GREATEST(hd.attempts, $3, 1).         *)
Greatest(a, b) == IF a >= b THEN a ELSE b

\* A counter that follows ctx.attempt down when pgwq starts it again.
LatestAttempt(a, b) == b

\* The counter the claim writes over the row's own.
NextAttempts(a, attempt) == Greatest(Greatest(a, attempt), 1)

\* A claim that re-stamps whatever row it finds.
StampAlways(r, attempt, token) ==
    IF r.status # Absent
      THEN [r EXCEPT !.status = "running", !.lease_token = token,
                     !.attempts = NextAttempts(@, attempt),
                     !.attempted = TRUE, !.finished = FALSE,
                     !.last_error = "null"]
      ELSE r

\* A claim that leaves a row alone that an earlier lease left running.
StampNotRunning(r, attempt, token) ==
    IF r.status \in {"queued", "awaiting_retry"}
      THEN [r EXCEPT !.status = "running", !.lease_token = token,
                     !.attempts = NextAttempts(@, attempt),
                     !.attempted = TRUE, !.last_error = "null"]
      ELSE r

\* UPDATE ... SET status='running' ... WHERE status NOT IN ('sent','dead','skipped').
Stamp(r, attempt, token) ==
    IF r.status \in Active
      THEN [r EXCEPT !.status = "running", !.lease_token = token,
                     !.attempts = NextAttempts(@, attempt),
                     !.attempted = TRUE, !.last_error = "null"]
      ELSE r

-----------------------------------------------------------------------------
(* The four mark_*_fenced UPDATEs.  All share the same fence.              *)

\* WHERE ... AND status='running'
StatusOnly(r, token) == r.status = "running"

\* WHERE ... AND status='running' AND lease_token=$3
Fence(r, token) == r.status = "running" /\ r.lease_token = token

\* SET without lease_token=NULL.
KeepToken(r, status, reason) ==
    [r EXCEPT !.status = status, !.finished = IF status \in Terminal THEN TRUE ELSE @,
              !.last_error = reason]

\* SET status=..., finished_at=now() (terminal only), lease_token=NULL, last_error=...
Marked(r, status, reason) ==
    [r EXCEPT !.status = status, !.finished = IF status \in Terminal THEN TRUE ELSE @,
              !.lease_token = Null, !.last_error = reason]

MarkFenced(r, token, status, reason) ==
    IF Fence(r, token) THEN Marked(r, status, reason) ELSE r
=============================================================================
