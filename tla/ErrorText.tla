----------------------------- MODULE ErrorText ------------------------------
(***************************************************************************)
(* The texts and errors this crate sends to PostgreSQL and gets from it:   *)
(* a handler's reason on its way into handler_deliveries.last_error and    *)
(* pgwq.jobs.last_error (src/util.rs, src/runtime.rs), a dispatch's        *)
(* headers on their way into outbox.events (src/outbox.rs), and what a     *)
(* failed statement is made of (src/util.rs, src/error.rs).  A text is a   *)
(* sequence of characters, of which only the width in UTF-8 and whether    *)
(* it is a control character matter; the byte limits are scaled down.      *)
(***************************************************************************)
EXTENDS Integers, Sequences, SequencesExt, FiniteSetsExt

CONSTANTS
    MAX_LAST_ERROR_BYTES,  \* 8192 in limits.rs and in the CHECK
    MAX_HEADERS_BYTES,     \* 16384 in limits.rs and in the CHECK
    MaxAttempts,           \* OutboxConfig::max_attempts
    MaxClaims,             \* bound: attempts pgwq counts on a job
    MaxChars,              \* bound: characters of a handler's reason
    MaxMembers             \* bound: members of a header map

ASSUME ErrorTextAssumption ==
    {MAX_LAST_ERROR_BYTES, MAX_HEADERS_BYTES, MaxAttempts, MaxClaims, MaxChars, MaxMembers}
        \subseteq Nat \ {0}

\* A letter, a wide character, NUL, and a control character of the C1 range.
Chars    == {"a", "wide", "nul", "c1"}
Controls == {"nul", "c1"}
Width    == [a |-> 1, wide |-> 3, nul |-> 1, c1 |-> 2, subst |-> 1, prefix |-> 1]

\* The bytes of the first n characters, for every n.
BytesTo(s) ==
    LET to[n \in 0..Len(s)] == IF n = 0 THEN 0 ELSE to[n - 1] + Width[s[n]]
    IN  to

Bytes(s) == BytesTo(s)[Len(s)]

-----------------------------------------------------------------------------
(* util.rs: reasons.                                                       *)

\* A filter that lets NUL through.
KeepsNul(s) == [i \in DOMAIN s |-> IF s[i] = "c1" THEN "subst" ELSE s[i]]

\* Every control character becomes '?'.
sanitize_reason(s) == [i \in DOMAIN s |-> IF s[i] \in Controls THEN "subst" ELSE s[i]]

Boundaries(s) == {BytesTo(s)[n] : n \in 0..Len(s)}

\* s[..end], for a character boundary.
PrefixOfBytes(s, end) == SubSeq(s, 1, CHOOSE n \in 0..Len(s) : BytesTo(s)[n] = end)

\* The loop that moves the cut back to a character boundary, from every end.
MoveBack(s, max) ==
    LET back[end \in 0..max] ==
            IF end > 0 /\ end \notin Boundaries(s) THEN back[end - 1] ELSE end
    IN  back

truncate_utf8(s, max) ==
    IF max >= Bytes(s) THEN s ELSE PrefixOfBytes(s, MoveBack(s, max)[max])

\* A reason that is cut first and cleaned then.
CutThenClean(r) == sanitize_reason(truncate_utf8(r, MAX_LAST_ERROR_BYTES))

\* What mark_*_fenced binds as last_error.
LastError(r) == truncate_utf8(sanitize_reason(r), MAX_LAST_ERROR_BYTES)

\* A skip whose reason is not cut before the prefix is added.
CutByPgwq(error, r) ==
    IF error = "skip" THEN <<"prefix">> \o sanitize_reason(r) ELSE LastError(r)

\* The text of the JobError; a skip's begins with "skipped: ".
PgwqReason(error, r) ==
    IF error = "skip" THEN <<"prefix">> \o LastError(r) ELSE LastError(r)

\* pgwq's own cap, which counts characters.
PgwqCap(s) == SubSeq(s, 1, Min({Len(s), MAX_LAST_ERROR_BYTES}))

\* The reason of a caught panic, "panic: " and the payload.
PanicReason(payload) == <<"prefix">> \o sanitize_reason(payload)

-----------------------------------------------------------------------------
(* outbox.rs: headers.  `content' is what the keys and values take in      *)
(* serde's form, `growth' how much longer jsonb prints the numbers.        *)

HeaderMap == [members : 0..MaxMembers, content : 0..MAX_HEADERS_BYTES, growth : 0..1]

\* serde_json::to_string: braces, a ':' per member, a ',' between two.
Compact(h) == h.content + (IF h.members = 0 THEN 2 ELSE 2 * h.members + 1)

\* headers::text has a space after every ':' and ','.
JsonbText(h) == Compact(h) + h.growth + (IF h.members = 0 THEN 0 ELSE 2 * h.members - 1)

\* No check before the INSERT.
LeftToTheDatabase(h) == FALSE

HeadersTooLarge(h) == Compact(h) > MAX_HEADERS_BYTES

-----------------------------------------------------------------------------
(* util.rs and error.rs: failed statements.                                *)

\* sqlx::Error: a SQLSTATE class of the database, or another variant.
DatabaseClasses == {"08", "0A", "22", "23", "25", "28", "3F", "40", "42", "44", "53", "57", "none"}
OtherVariants   == {"Io", "Tls", "PoolTimedOut", "PoolClosed", "RowNotFound", "Protocol",
                    "TypeNotFound", "ColumnDecode", "Encode", "Decode", "Configuration"}
SqlxErrors == [variant : {"Database"}, class : DatabaseClasses]
                  \cup [variant : OtherVariants, class : {"none"}]

Sqlstate(class) == [variant |-> "Database", class |-> class]

is_sqlx_deterministic(e) ==
    IF e.variant = "Database"
      THEN e.class \in {"0A", "22", "23", "25", "28", "3F", "42", "44"}
      ELSE e.variant \in {"Protocol", "TypeNotFound", "ColumnDecode", "Encode", "Decode",
                          "Configuration"}

\* map_sql, map_mark_err: the verdict; its text is redacted to code or variant.
MapSql(e) == IF is_sqlx_deterministic(e) THEN "abort" ELSE "retry"

\* From<sqlx::Error> for DispatchError.
DispatchErrorOf(e) == IF is_sqlx_deterministic(e) THEN "Constraint" ELSE "Transient"

\* DispatchError::is_retriable.
IsRetriable(told) == told = "Transient"

\* What a TEXT column with a byte limit raises: 22021 for NUL, 23514 for its CHECK.
Refusals(s, max) ==
    IF "nul" \in Range(s) THEN {Sqlstate("22")}
    ELSE IF Bytes(s) > max THEN {Sqlstate("23")} ELSE {}

-----------------------------------------------------------------------------
VARIABLES
    told,     \* dispatch's answer: "none" before, "Dispatched", or its error
    headers,  \* the headers of a dispatch that failed
    row,      \* handler_deliveries: status and last_error
    job,      \* pgwq.jobs: status, attempts and last_error
    call,     \* the handler call of the last task that got so far: error and reason
    pc,       \* the task: "idle", "handler", "mark", "report"
    marked,   \* its mark: "none" before, "ok", or the verdict of the mark's error
    late,     \* may a task that lost its lease still be running
    shown,    \* history: the row shows the text of `call'
    heard     \* history: pgwq has written the text of `call'

texts == <<row, job, call, pc, marked, late, shown, heard>>
vars  == <<told, headers, texts>>

NoText    == <<>>
NoHeaders == [members |-> 0, content |-> 0, growth |-> 0]
NoCall    == [error |-> "none", reason |-> NoText]

Reasons == UNION {[1..n -> Chars] : n \in 0..MaxChars}

Init ==
    /\ told = "none"
    /\ headers = NoHeaders
    /\ row = [status |-> "absent", last_error |-> NoText]
    /\ job = [status |-> "absent", attempts |-> 0, last_error |-> NoText]
    /\ call = NoCall
    /\ pc = "idle"
    /\ marked = "none"
    /\ late = FALSE /\ shown = FALSE /\ heard = FALSE

-----------------------------------------------------------------------------
(* Dispatch.                                                               *)

\* dispatch: the check, then the INSERT and its CHECK, then the push.
Dispatch(h) ==
    /\ told = "none"
    /\ told' = IF HeadersTooLarge(h) THEN "HeadersTooLarge"
               ELSE IF JsonbText(h) > MAX_HEADERS_BYTES THEN DispatchErrorOf(Sqlstate("23"))
               ELSE "Dispatched"
    /\ IF told' = "Dispatched"
         THEN /\ row' = [row EXCEPT !.status = "queued"]
              /\ job' = [job EXCEPT !.status = "queued"]
              /\ UNCHANGED headers
         ELSE headers' = h /\ UNCHANGED <<row, job>>
    /\ UNCHANGED <<call, pc, marked, late, shown, heard>>

\* The same INSERT fails for another reason.
DispatchFails(e) ==
    /\ told = "none"
    /\ told' = DispatchErrorOf(e)
    /\ UNCHANGED <<headers, texts>>

-----------------------------------------------------------------------------
(* The delivery.  A call that succeeds writes no text: it is in Runtime.   *)

Terminal == {"skipped", "dead"}
Failed   == Terminal \cup {"awaiting_retry"}

\* Text of a failed statement: its code or variant, never the message.
Redacted == <<"a">>

\* An error that leaves open whether the statement was committed.
LosesReply(e) == e.variant \in {"Io", "Tls"}

\* The claim CTE's UPDATE.
Claimed == [status |-> "running", last_error |-> NoText]

\* pgwq's verdict on attempt n.
JobStatus(verdict, n) == IF verdict = "retry" /\ n < MaxAttempts THEN "queued" ELSE "dead"

CanClaim == job.status = "queued" /\ job.attempts < MaxClaims

\* pgwq's claim and the claim CTE of a row that is not settled.
Claim ==
    /\ CanClaim
    /\ row.status \notin Terminal
    /\ job' = [job EXCEPT !.status = "leased", !.attempts = @ + 1]
    /\ row' = Claimed
    /\ call' = NoCall /\ pc' = "handler"
    /\ shown' = FALSE /\ heard' = FALSE
    /\ UNCHANGED <<told, headers, marked, late>>

\* The CTE finds a terminal row: Ok, and no handler call.
ClaimSettled ==
    /\ CanClaim
    /\ row.status \in Terminal
    /\ job' = [job EXCEPT !.status = "done", !.attempts = @ + 1]
    /\ UNCHANGED <<told, headers, row, call, pc, marked, late, shown, heard>>

\* The CTE fails, or is committed and its reply lost; pgwq gets a redacted text.
ClaimFails(e) ==
    /\ CanClaim
    /\ job' = [status |-> JobStatus(MapSql(e), job.attempts + 1),
               attempts |-> job.attempts + 1, last_error |-> Redacted]
    /\ \/ UNCHANGED <<row, shown>>
       \/ LosesReply(e) /\ row.status \notin Terminal /\ row' = Claimed /\ shown' = FALSE
    /\ heard' = FALSE
    /\ UNCHANGED <<told, headers, call, pc, marked, late>>

\* Retry, Skip or Abort with a reason, a panic under either policy, a timeout,
\* or a payload that does not decode under either strategy.
HandlerFails(error, reason) ==
    /\ pc = "handler"
    /\ call' = [error |-> error, reason |-> reason]
    /\ pc' = "mark"
    /\ UNCHANGED <<told, headers, row, job, marked, late, shown, heard>>

\* The row after the mark for an error on attempt n.
MarkStatus(error, n) ==
    CASE error = "skip"  -> "skipped"
      [] error = "abort" -> "dead"
      [] error = "retry" -> IF n >= MaxAttempts THEN "dead" ELSE "awaiting_retry"

MarkedRow == [status     |-> MarkStatus(call.error, job.attempts),
              last_error |-> LastError(call.reason)]

\* What the UPDATE raises: a row another task has marked does not match, and
\* no constraint is looked at.
MarkRefusals ==
    IF row.status = "running" THEN Refusals(MarkedRow.last_error, MAX_LAST_ERROR_BYTES) ELSE {}

WriteMark ==
    IF row.status = "running" THEN row' = MarkedRow /\ shown' = TRUE ELSE UNCHANGED <<row, shown>>

\* mark_*_fenced: the text is stored, fenced out, or refused.
Mark ==
    /\ pc = "mark"
    /\ pc' = "report"
    /\ IF MarkRefusals = {}
         THEN WriteMark /\ marked' = "ok"
         ELSE (\E e \in MarkRefusals : marked' = MapSql(e)) /\ UNCHANGED <<row, shown>>
    /\ UNCHANGED <<told, headers, job, call, late, heard>>

\* The mark fails for another reason than its text, or is committed and its
\* reply lost.
MarkFails(e) ==
    /\ pc = "mark"
    /\ pc' = "report"
    /\ marked' = MapSql(e)
    /\ \/ UNCHANGED <<row, shown>>
       \/ LosesReply(e) /\ MarkRefusals = {} /\ WriteMark
    /\ UNCHANGED <<told, headers, job, call, late, heard>>

\* The task's JobError and its text, from the error of the mark or from the
\* handler's.
Verdict ==
    IF marked # "ok" THEN marked ELSE IF call.error = "retry" THEN "retry" ELSE "abort"

JobText == IF marked # "ok" THEN Redacted ELSE PgwqReason(call.error, call.reason)

\* pgwq writes verdict and text; a NUL would break the worker.
Report ==
    /\ pc = "report"
    /\ IF "nul" \in Range(JobText)
         THEN pc' = "broken" /\ UNCHANGED <<job, heard>>
         ELSE /\ pc' = "idle"
              /\ heard' = (marked = "ok")
              /\ job' = [job EXCEPT !.last_error = PgwqCap(JobText),
                                    !.status = JobStatus(Verdict, job.attempts)]
    /\ marked' = "none"
    /\ UNCHANGED <<told, headers, row, call, late, shown>>

\* The task is lost between two steps: the process crashes, pgwq cancels the
\* task, or its lease expires and it runs on, its report fenced out by pgwq.
TaskLost ==
    /\ pc \in {"handler", "mark", "report"}
    /\ pc' = "idle" /\ marked' = "none"
    /\ late' \in {late, TRUE}
    /\ UNCHANGED <<told, headers, row, job, call, shown, heard>>

\* It is lost before its claim CTE.
ClaimLost ==
    /\ CanClaim
    /\ job' = [job EXCEPT !.status = "leased", !.attempts = @ + 1]
    /\ late' \in {late, TRUE}
    /\ UNCHANGED <<told, headers, row, call, pc, marked, shown, heard>>

\* The reaper puts the job back, with its attempts or without.
Reap ==
    /\ job.status = "leased" /\ pc = "idle"
    /\ \E n \in {0, job.attempts} : job' = [job EXCEPT !.status = "queued", !.attempts = n]
    /\ UNCHANGED <<told, headers, row, call, pc, marked, late, shown, heard>>

\* Texts of other calls are not told apart: one stands for all.
LateText == LastError(<<"a">>)

\* A late task claims the row, if it had not, and marks it with its own text.
Overtake(status) ==
    /\ late
    /\ row.status \in {"queued", "running", "awaiting_retry"}
    /\ row' = [status |-> status, last_error |-> LateText]
    /\ late' = FALSE /\ shown' = FALSE
    /\ UNCHANGED <<told, headers, job, call, pc, marked, heard>>

Next ==
    \/ \E h \in HeaderMap : Dispatch(h)
    \/ \E e \in SqlxErrors : DispatchFails(e) \/ ClaimFails(e) \/ MarkFails(e)
    \/ Claim \/ ClaimSettled \/ ClaimLost \/ TaskLost \/ Reap
    \/ \E error \in {"retry", "skip", "abort"}, r \in Reasons : HandlerFails(error, r)
    \/ \E error \in {"retry", "abort"}, r \in Reasons : HandlerFails(error, PanicReason(r))
    \/ Mark
    \/ Report
    \/ \E status \in Failed : Overtake(status)

Spec == Init /\ [][Next]_vars

-----------------------------------------------------------------------------
(* Properties.                                                             *)

\* util.rs:8-11: no text a handler can come up with makes a mark fail or
\* breaks pgwq's own write: not NUL, not a length, not a wide character across
\* the limit.
TextAccepted ==
    /\ pc # "broken"
    /\ pc = "mark" => Refusals(LastError(call.reason), MAX_LAST_ERROR_BYTES) = {}

\* As much of the cleaned reason as fits is kept: one more character, and the
\* CHECK would refuse it.  The budget counts the bytes after cleaning, which
\* may be fewer than before.
LongestFit ==
    row.status \in Failed /\ shown =>
        LET clean == sanitize_reason(call.reason)
            kept  == row.last_error
        IN  /\ IsPrefix(kept, clean)
            /\ kept # clean =>
                 Bytes(SubSeq(clean, 1, Len(kept) + 1)) > MAX_LAST_ERROR_BYTES

\* runtime.rs:464-467 sends operators from pgwq's last_error to the audit row:
\* if both show the same call, they show one text, behind "skipped: " for a
\* skip, of which pgwq's cap takes off no more than the prefix is long.  They
\* show the same call unless the mark's reply or the report was lost, a late
\* task has marked the row, or a later claim has failed.
SameTextBothSides ==
    row.status \in Failed /\ shown /\ heard =>
        IF row.status = "skipped"
          THEN /\ IsPrefix(job.last_error, <<"prefix">> \o row.last_error)
               /\ Len(job.last_error) >= Len(row.last_error)
          ELSE job.last_error = row.last_error

\* outbox.rs:197-198: headers are refused by the opaque CHECK only in the gap
\* between the two forms, and by the typed error only if the CHECK would refuse
\* them too; in either case the caller is not told to try again.
HeadersGap ==
    headers # NoHeaders =>
        /\ JsonbText(headers) > MAX_HEADERS_BYTES
        /\ Compact(headers) <= MAX_HEADERS_BYTES <=> told # "HeadersTooLarge"
        /\ ~IsRetriable(told)
=============================================================================
