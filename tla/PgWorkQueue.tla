---------------------------- MODULE PgWorkQueue -----------------------------
(***************************************************************************)
(* The job table of the external crate pg_work_queue (pgwq.jobs), as far   *)
(* as this crate relies on it: push, claim with a fresh lease token, the   *)
(* fenced write of a worker's verdict, and the reaper.  Not part of src/:  *)
(* modelled from how src/src/runtime.rs and README.md use it.              *)
(***************************************************************************)
EXTENDS Integers

Verdicts == {"ok", "retry", "abort"}

\* attempts: claims counted against max_attempts.  token: how often the job
\* was ever claimed, which names the lease (a UUID there, never used twice).
Job == [status   : {"absent", "queued", "leased", "done", "dead"},
        attempts : Nat,
        token    : Nat]

NoJob == [status |-> "absent", attempts |-> 0, token |-> 0]

\* Pusher::push_batch
PushedJob == [NoJob EXCEPT !.status = "queued"]

\* The claim of the poll loop: JobContext.attempt is the new attempts.
ClaimJob(j) == [status |-> "leased", attempts |-> j.attempts + 1, token |-> j.token + 1]

\* The verdict of the worker that holds lease `token`: fenced like our marks.
ReportJob(j, token, verdict, max) ==
    IF j.status = "leased" /\ j.token = token
      THEN [j EXCEPT !.status =
              CASE verdict = "ok"    -> "done"
                [] verdict = "abort" -> "dead"
                [] verdict = "retry" -> IF j.attempts >= max THEN "dead" ELSE "queued"]
      ELSE j

\* What the reaper does to attempts is not visible here: runtime.rs:212-214
\* expects ctx.attempt to start again, README.md:491 only that the job is
\* queued again.  "keep" and "reset" are the two.
ReapModes == {"keep", "reset"}

ReapJob(j, mode) ==
    [j EXCEPT !.status = "queued", !.attempts = IF mode = "reset" THEN 0 ELSE @]
=============================================================================
