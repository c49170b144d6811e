---------------------------- MODULE WebhookQueue ----------------------------
(***************************************************************************)
(* The webhook_jobs queue: what upload, review and erasure requests do to  *)
(* a client record and its job, and the worker processes that claim due    *)
(* jobs, POST them, write the audit row and settle the job.                *)
(*                                                                         *)
(* The database is PostgreSQL at READ COMMITTED; an action is one          *)
(* statement or one transaction that no other session can observe in part. *)
(* A worker's pass over one job spans two transactions, because            *)
(* deliver_attempt() commits the audit row itself:                         *)
(*   idle --Claim--> claimed --Post--> posted --RecordDelivery--> recorded *)
(*        --Reload--> reloaded --Settle--> idle                            *)
(* The job row is locked while its worker is claimed or posted, no longer. *)
(***************************************************************************)
EXTENDS Naturals, Sequences, FiniteSets

CONSTANTS
    Records,        \* client records, each the row of one upload
    Workers,        \* worker processes (scripts/webhook_worker.py)
    NoRecord,       \* the record of a worker that has no job in hand
    MaxAttempts,    \* settings.webhook_max_attempts
    MaxEdits,       \* bound: PATCH and mapping-review transactions
    MaxCrashes,     \* bound: worker deaths that no database error explains
    MaxRedeploys    \* bound: redeployments that set or unset WEBHOOK_URL

ASSUME QueueAssumption ==
    /\ NoRecord \notin Records /\ IsFiniteSet(Workers)
    /\ MaxAttempts \in Nat \ {0}
    /\ MaxEdits \in Nat /\ MaxCrashes \in Nat /\ MaxRedeploys \in Nat

VARIABLES
    record,         \* client_records: the row and its two review columns
    job,            \* webhook_jobs: the one job of a record
    deliveries,     \* webhook_deliveries: a record's audit trail, in id order
    worker,         \* what each worker process holds in memory
    deleting,       \* records whose DELETE waits for a locked job row
    configured,     \* settings.webhook_url is set
    \* history and bounds
    sent,           \* POSTs put on the wire for a record's job
    accepted,       \* records whose notification the receiver has processed
    cleared,        \* records that passed the review gate at some time
    leaked,         \* records POSTed with a payload that was not ready
    edits, crashes, redeploys

vars == <<record, job, deliveries, worker, deleting, configured, sent,
          accepted, cleared, leaked, edits, crashes, redeploys>>
rows == <<record, job, deliveries, deleting>>
history == <<sent, accepted, leaked>>
bounds == <<edits, crashes, redeploys>>

Terminal == {"done", "dead"}
NoJob == [status |-> "none", attempt |-> 1, due |-> FALSE]
Idle == [pc |-> "idle", rec |-> NoRecord, attempt |-> 0, outcome |-> "none"]
Down == [Idle EXCEPT !.pc = "down"]

\* ClientRecord.is_ready() / .ready: not flagged, or a human approved it.
Ready(r) == /\ record[r].row = "live"
            /\ ~record[r].flagged \/ record[r].approved

\* FOR UPDATE OF webhook_jobs, until deliver_attempt()'s own commit.
JobLocked(r) == \E w \in Workers : /\ worker[w].rec = r
                                   /\ worker[w].pc \in {"claimed", "posted"}

Live == {r \in Records : record[r].row = "live"}

\* A row update waits for a DELETE that already locked the row.
Writable(r) == r \in Live \ deleting

TypeOK ==
    /\ record \in [Records -> [row : {"new", "live", "erased"},
                               flagged : BOOLEAN, approved : BOOLEAN]]
    /\ job \in [Records -> [status : {"none", "pending"} \cup Terminal,
                            attempt : 1..MaxAttempts, due : BOOLEAN]]
    /\ deliveries \in [Records -> Seq([attempt : 1..MaxAttempts,
                                       success : BOOLEAN])]
    /\ worker \in [Workers ->
            [pc : {"down", "idle", "claimed", "posted", "recorded", "reloaded"},
             rec : Records \cup {NoRecord}, attempt : 0..MaxAttempts,
             outcome : {"none", "ok", "failed", "done", "dead", "retry", "keep"}]]
    /\ deleting \subseteq Records
    /\ configured \in BOOLEAN
    /\ sent \in [Records -> Nat]
    /\ accepted \subseteq Records
    /\ cleared \subseteq Records
    /\ leaked \subseteq Records
    /\ edits \in Nat /\ crashes \in Nat /\ redeploys \in Nat

Init ==
    /\ record = [r \in Records |->
                    [row |-> "new", flagged |-> FALSE, approved |-> FALSE]]
    /\ job = [r \in Records |-> NoJob]
    /\ deliveries = [r \in Records |-> <<>>]
    /\ worker = [w \in Workers |-> Idle]
    /\ deleting = {}
    /\ configured \in BOOLEAN
    /\ sent = [r \in Records |-> 0]
    /\ accepted = {} /\ cleared = {} /\ leaked = {}
    /\ edits = 0 /\ crashes = 0 /\ redeploys = 0

-----------------------------------------------------------------------------
(* Requests                                                                *)

\* Every step remembers which records have been past the gate.
RememberCleared == cleared' = cleared \cup {r \in Records : Ready(r)'}

\* ingest_file's one transaction: the row, flagged or clean, and its job.
Ingest(r) ==
    /\ record[r].row = "new"
    /\ \E flagged \in BOOLEAN :
        record' = [record EXCEPT ![r] =
                    [row |-> "live", flagged |-> flagged, approved |-> FALSE]]
    /\ job' = IF configured
              THEN [job EXCEPT ![r] = [status |-> "pending", attempt |-> 1,
                                       due |-> TRUE]]
              ELSE job
    /\ RememberCleared
    /\ UNCHANGED <<deliveries, worker, deleting, configured, history, bounds>>

\* PATCH /records/{id}. The ORM leaves a column whose value it saw unchanged
\* out of the UPDATE, so beside another request on the same record either
\* review column may keep what that request wrote.
Patch(r) ==
    /\ Writable(r)
    /\ edits < MaxEdits /\ edits' = edits + 1
    /\ \E revalidated \in BOOLEAN :
       \E flagged \in {revalidated, record[r].flagged},
          approved \in {FALSE, record[r].approved} :
        record' = [record EXCEPT ![r] =
            [row |-> "live", flagged |-> flagged, approved |-> approved]]
    /\ RememberCleared
    /\ UNCHANGED <<job, deliveries, worker, deleting, configured, history,
                   crashes, redeploys>>

\* PUT /column-mappings/{fingerprint}: re-validates the records of a run
\* and, unlike PATCH, leaves approved_at alone.
ReviewMapping(run) ==
    /\ run # {} /\ \A r \in run : Writable(r)
    /\ edits < MaxEdits /\ edits' = edits + 1
    /\ \E flagged \in [run -> BOOLEAN] :
        record' = [r \in Records |-> IF r \in run
                    THEN [record[r] EXCEPT !.flagged = flagged[r]]
                    ELSE record[r]]
    /\ RememberCleared
    /\ UNCHANGED <<job, deliveries, worker, deleting, configured, history,
                   crashes, redeploys>>

\* POST /records/{id}/approve: approves flagged and clean records alike.
Approve(r) ==
    /\ Writable(r)
    /\ ~record[r].approved
    /\ record' = [record EXCEPT ![r].approved = TRUE]
    /\ RememberCleared
    /\ UNCHANGED <<job, deliveries, worker, deleting, configured, history,
                   bounds>>

\* Mutation: webhook_deliveries' foreign key without ON DELETE CASCADE.
EraseKeepsTrail(r) ==
    /\ record' = [record EXCEPT ![r] =
                    [row |-> "erased", flagged |-> FALSE, approved |-> FALSE]]
    /\ job' = [job EXCEPT ![r] = NoJob]
    /\ deleting' = deleting \ {r}
    /\ UNCHANGED deliveries

\* The DELETE and what ON DELETE CASCADE takes with it.
Erase(r) ==
    /\ record' = [record EXCEPT ![r] =
                    [row |-> "erased", flagged |-> FALSE, approved |-> FALSE]]
    /\ job' = [job EXCEPT ![r] = NoJob]
    /\ deliveries' = [deliveries EXCEPT ![r] = <<>>]
    /\ deleting' = deleting \ {r}

\* A delete (one record, a selection, an expired run, a whole account). If
\* the cascade meets a locked job row it waits there, the record row locked.
Delete(r) ==
    /\ Writable(r)
    /\ IF JobLocked(r)
       THEN deleting' = deleting \cup {r} /\ UNCHANGED <<record, job, deliveries>>
       ELSE Erase(r)
    /\ UNCHANGED <<worker, configured, cleared, history, bounds>>

\* The holder of the job row went away; the waiting cascade goes through.
DeleteResumes(r) ==
    /\ r \in deleting /\ ~JobLocked(r)
    /\ Erase(r)
    /\ UNCHANGED <<worker, configured, cleared, history, bounds>>

\* available_at passes.
BackoffElapses(r) ==
    /\ job[r].status = "pending" /\ ~job[r].due
    /\ job' = [job EXCEPT ![r].due = TRUE]
    /\ UNCHANGED <<record, deliveries, worker, deleting, configured, cleared,
                   history, bounds>>

-----------------------------------------------------------------------------
(* The worker's pass over one job                                          *)

Due(r) == job[r].status = "pending" /\ job[r].due

\* Mutations: no review gate; no status filter; the last attempt never due.
ClaimableUngated(r) == Due(r) /\ r \in Live /\ ~JobLocked(r)
ClaimableSettled(r) == job[r].status # "none" /\ Ready(r) /\ ~JobLocked(r)
ClaimableBeforeLast(r) == /\ Due(r) /\ Ready(r) /\ ~JobLocked(r)
                          /\ job[r].attempt < MaxAttempts

\* The claim query: pending, due, ready, and not locked by another worker.
Claimable(r) == Due(r) /\ Ready(r) /\ ~JobLocked(r)

Claim(w, r) ==
    /\ configured
    /\ worker[w].pc = "idle"
    /\ Claimable(r)
    /\ worker' = [worker EXCEPT ![w] =
                    [pc |-> "claimed", rec |-> r,
                     attempt |-> job[r].attempt, outcome |-> "none"]]
    /\ UNCHANGED <<rows, configured, cleared, history, bounds>>

\* No receiver configured, or no claimable job: the poll ends.
Poll(w) ==
    /\ worker[w].pc = "idle"
    /\ configured => \A r \in Records : ~Claimable(r)
    /\ UNCHANGED vars

\* Mutation: a record that is not ready any more is passed over, its job still
\* in hand.
MayPostIfReady(w) == worker[w].pc = "claimed" /\ Ready(worker[w].rec)
MayPost(w) == worker[w].pc = "claimed"

\* db.get() reads the record as it is now, and the payload goes out. A reply
\* may be lost after the receiver took the notification.
Post(w) ==
    LET r == worker[w].rec IN
    /\ MayPost(w)
    /\ \E taken \in BOOLEAN, reply \in {"ok", "failed"} :
        /\ reply = "ok" => taken
        /\ accepted' = IF taken THEN accepted \cup {r} ELSE accepted
        /\ worker' = [worker EXCEPT ![w].pc = "posted", ![w].outcome = reply]
    /\ sent' = [sent EXCEPT ![r] = @ + 1]
    /\ leaked' = IF Ready(r) THEN leaked ELSE leaked \cup {r}
    /\ UNCHANGED <<rows, configured, cleared, bounds>>

\* The audit row, and the commit that also ends the claim's lock.
AuditedAs(w, attempt) ==
    [deliveries EXCEPT ![worker[w].rec] =
        Append(@, [attempt |-> attempt, success |-> worker[w].outcome = "ok"])]

\* Mutations: only successes are recorded; the row carries the next number.
AuditedSuccesses(w) == IF worker[w].outcome = "ok"
                       THEN AuditedAs(w, worker[w].attempt) ELSE deliveries

Audited(w) == AuditedAs(w, worker[w].attempt)

RecordDelivery(w) ==
    /\ worker[w].pc = "posted"
    /\ worker[w].rec \notin deleting
    /\ deliveries' = Audited(w)
    /\ worker' = [worker EXCEPT ![w].pc = "recorded"]
    /\ UNCHANGED <<record, job, deleting, configured, cleared, history, bounds>>

\* The INSERT needs the record row the DELETE holds, the DELETE needs the
\* job row the worker holds: PostgreSQL aborts one of the two.
DeadlockAbortsWorker(w) ==
    /\ worker[w].pc = "posted"
    /\ worker[w].rec \in deleting
    /\ worker' = [worker EXCEPT ![w] = Down]
    /\ Erase(worker[w].rec)
    /\ UNCHANGED <<configured, cleared, history, bounds>>

DeadlockAbortsDelete(w) ==
    /\ worker[w].pc = "posted"
    /\ worker[w].rec \in deleting
    /\ deleting' = deleting \ {worker[w].rec}
    /\ deliveries' = Audited(w)
    /\ worker' = [worker EXCEPT ![w].pc = "recorded"]
    /\ UNCHANGED <<record, job, configured, cleared, history, bounds>>

\* The commit expired every loaded object. The log line reloads the record,
\* the failure branch the job: ObjectDeletedError if they are gone. What
\* will be written is decided on this fresh read; a status already "dead"
\* is no change, so nothing is written.
VerdictUpTo(w, max) ==
    LET j == job[worker[w].rec] IN
    CASE worker[w].outcome = "ok"    -> "done"
      [] worker[w].outcome # "ok" /\ j.attempt < max -> "retry"
      [] OTHER -> IF j.status = "dead" THEN "keep" ELSE "dead"

\* Mutations: any reply settles the job; one attempt too many; one too few;
\* the attempt count is looked at before the success.
VerdictAnyReply(w) == "done"
VerdictOneMore(w) == VerdictUpTo(w, MaxAttempts + 1)
VerdictOneFewer(w) == VerdictUpTo(w, MaxAttempts - 1)

Verdict(w) == VerdictUpTo(w, MaxAttempts)

Reload(w) ==
    LET r == worker[w].rec IN
    /\ worker[w].pc = "recorded"
    /\ worker' = [worker EXCEPT ![w] =
            IF record[r].row = "live"
            THEN [pc |-> "reloaded", rec |-> r,
                  attempt |-> job[r].attempt, outcome |-> Verdict(w)]
            ELSE Down]
    /\ UNCHANGED <<rows, configured, cleared, history, bounds>>

\* Mutation: the retry branch writes the status as well.
RescheduledAnew(j, attempt) ==
    [status |-> "pending", attempt |-> attempt + 1, due |-> FALSE]

Rescheduled(j, attempt) ==
    [status |-> j.status, attempt |-> attempt + 1, due |-> FALSE]

Settled(j, verdict, attempt) ==
    CASE verdict \in Terminal -> [j EXCEPT !.status = verdict]
      [] verdict = "retry"    -> Rescheduled(j, attempt)
      [] OTHER                -> j

\* The second commit. It waits for another worker's lock on the row, never
\* looks at the status it overwrites, and raises StaleDataError if the row
\* is gone.
Settle(w) ==
    LET r == worker[w].rec
        me == worker[w] IN
    /\ me.pc = "reloaded"
    /\ me.outcome # "keep" => ~JobLocked(r)
    /\ IF job[r].status = "none" /\ me.outcome # "keep"
       THEN /\ worker' = [worker EXCEPT ![w] = Down]
            /\ UNCHANGED job
       ELSE /\ worker' = [worker EXCEPT ![w] = Idle]
            /\ job' = [job EXCEPT ![r] = Settled(@, me.outcome, me.attempt)]
    /\ UNCHANGED <<record, deliveries, deleting, configured, cleared, history,
                   bounds>>

-----------------------------------------------------------------------------
(* Failures                                                                *)

\* The process dies; its open transaction rolls back with the connection.
Crash(w) ==
    /\ worker[w].pc # "down"
    /\ crashes < MaxCrashes /\ crashes' = crashes + 1
    /\ worker' = [worker EXCEPT ![w] = Down]
    /\ UNCHANGED <<rows, configured, cleared, history, edits, redeploys>>

\* Railway restarts the service.
Restart(w) ==
    /\ worker[w].pc = "down"
    /\ worker' = [worker EXCEPT ![w] = Idle]
    /\ UNCHANGED <<rows, configured, cleared, history, bounds>>

\* A redeploy with WEBHOOK_URL set or removed replaces every process.
Redeploy ==
    /\ redeploys < MaxRedeploys /\ redeploys' = redeploys + 1
    /\ configured' = ~configured
    /\ worker' = [w \in Workers |-> Down]
    /\ UNCHANGED <<rows, cleared, history, edits, crashes>>

Request(r) == \/ Ingest(r) \/ Patch(r) \/ Approve(r)
              \/ Delete(r) \/ DeleteResumes(r) \/ BackoffElapses(r)

WorkerStep(w) == \/ \E r \in Records : Claim(w, r)
                 \/ Poll(w) \/ Post(w)
                 \/ RecordDelivery(w)
                 \/ DeadlockAbortsWorker(w) \/ DeadlockAbortsDelete(w)
                 \/ Reload(w) \/ Settle(w) \/ Restart(w)

Next == \/ \E r \in Records : Request(r)
        \/ \E run \in SUBSET Records : ReviewMapping(run)
        \/ \E w \in Workers : WorkerStep(w) \/ Crash(w)
        \/ Redeploy

\* Workers loop for ever and are restarted when they die, time passes, and
\* PostgreSQL wakes a waiting DELETE. Nothing obliges a user to act.
Fairness == /\ \A w \in Workers : WF_vars(WorkerStep(w))
            /\ \A r \in Records : /\ WF_vars(BackoffElapses(r))
                                  /\ WF_vars(DeleteResumes(r))

Spec == Init /\ [][Next]_vars
FairSpec == Spec /\ Fairness

-----------------------------------------------------------------------------
(* What must hold, whatever the number of workers                          *)

HasSuccess(r) == \E i \in 1..Len(deliveries[r]) : deliveries[r][i].success

\* A job reads "done" only if the audit trail shows a successful delivery
\* and the receiver did take the notification (process_due_jobs writes the
\* status in a later transaction than deliver_attempt wrote the row).
DoneMeansDelivered ==
    \A r \in Records : job[r].status = "done" => HasSuccess(r) /\ r \in accepted

\* Nothing is ever sent about a record that has never been clean or
\* approved, through whichever request its flags changed (is_ready()).
NeverReadyNeverSent ==
    \A r \in Records \ cleared : sent[r] = 0 /\ deliveries[r] = <<>>

\* Every POST about a live record has its audit row, is about to get it, or
\* was made by a process that then died (WebhookDelivery's docstring).
InFlight(r) == Cardinality({w \in Workers : /\ worker[w].rec = r
                                            /\ worker[w].pc = "posted"})
Deaths == crashes + redeploys * Cardinality(Workers)
EveryPostAudited ==
    \A r \in Live : LET known == Len(deliveries[r]) + InFlight(r) IN
        known <= sent[r] /\ sent[r] <= known + Deaths

\* A settled job is never owed again: the retry branch of a worker that was
\* overtaken writes attempt and time, not the status.
NeverPendingAgain ==
    [][\A r \in Records :
        job[r].status \in Terminal => job'[r].status # "pending"]_vars

\* The queue keeps the promises of module Notification.
stageOf == [r \in Records |->
                CASE record[r].row = "new"    -> "absent"
                  [] record[r].row = "erased" -> "erased"
                  [] OTHER                    -> job[r].status]
logOf == [r \in Records |->
                [i \in 1..Len(deliveries[r]) |-> deliveries[r][i].success]]
Promise == INSTANCE Notification
            WITH stage <- stageOf, log <- logOf, AtMostOnceClosed <- FALSE
ImplementsNotification == Promise!Spec

-----------------------------------------------------------------------------
(* What holds as long as one worker process runs at a time                 *)

\* A dead job failed at every attempt number up to the maximum.
DeadMeansExhausted ==
    \A r \in Records : job[r].status = "dead" =>
        \A n \in 1..MaxAttempts :
            \E i \in 1..Len(deliveries[r]) :
                deliveries[r][i].attempt = n /\ ~deliveries[r][i].success

\* A receiver is sent a job's notification at most webhook_max_attempts
\* times, plus once for every time the process died.
AttemptBudget == \A r \in Records : sent[r] <= MaxAttempts + Deaths

\* A settled job keeps its status until its record is erased.
PromiseKeptOnce == INSTANCE Notification
            WITH stage <- stageOf, log <- logOf, AtMostOnceClosed <- TRUE
SettledOnce == PromiseKeptOnce!Spec

-----------------------------------------------------------------------------
(* What the README says and the code does not do                           *)

\* README: only ready records leave tidybridge.
OnlyReadyLeaves == leaked = {}

-----------------------------------------------------------------------------
(* Progress                                                                *)

\* A due notification does not wait for ever: as long as the record stays
\* ready and a receiver configured, its job is settled, whatever crashes.
Owed(r) == configured /\ Ready(r) /\ job[r].status = "pending"
OwedIsSettled == \A r \in Records : Owed(r) ~> ~Owed(r)

\* A DELETE that waits for a job row is let through or rolled back.
DeletesEnd == \A r \in Records : r \in deleting ~> r \notin deleting
=============================================================================
