---------------------------- MODULE Provisioning ----------------------------
(***************************************************************************)
(* The provisioning_jobs of one client record: the job its upload may have *)
(* queued, the replays that reset or add one, the workers that claim a due *)
(* job and create the user on a SCIM target, and the target itself, which  *)
(* answers 409 when the user is there already.                             *)
(* A worker's pass spans two transactions, as in WebhookQueue:             *)
(*   idle --Claim--> claimed --Post--> posted --RecordAttempt--> recorded  *)
(*        --Reload--> reloaded --Settle--> idle                            *)
(* A replay reads the job and writes it later, in one transaction:         *)
(*   idle --ReplayRead--> loaded --ReplayCommit--> idle                    *)
(* How a DELETE waits for a locked job is in WebhookQueue; here it happens *)
(* at once, or wins its deadlock against a worker's audit row.             *)
(***************************************************************************)
EXTENDS Naturals, FiniteSets

CONSTANTS
    Jobs,           \* slots for the rows of provisioning_jobs
    Workers,        \* worker processes
    Requests,       \* request threads that may replay
    NoJob,
    MaxAttempts,    \* settings.webhook_max_attempts
    MaxReplays,     \* bound: replays that write
    MaxEdits,       \* bound: reviews and edits of the record
    MaxCrashes      \* bound: worker deaths that no database error explains

ASSUME ProvisioningAssumption ==
    /\ NoJob \notin Jobs /\ Jobs # {}
    /\ MaxAttempts \in Nat \ {0}
    /\ MaxReplays \in Nat /\ MaxEdits \in Nat /\ MaxCrashes \in Nat

VARIABLES
    record,         \* the record: there, past the gate, with a userName
    job,            \* provisioning_jobs
    attempts,       \* provisioning_attempts; nothing reads in which order they came
    worker,         \* what each worker holds in memory
    replay,         \* what each replay request holds in memory
    user,           \* the target has the user
    \* history and bounds
    keys,           \* idempotency keys drawn so far
    edits, crashes

vars == <<record, job, attempts, worker, replay, user, keys, edits, crashes>>
rows == <<record, job, attempts>>
bounds == <<edits, crashes>>

Resolved == {"done", "skipped_exists"}
Terminal == Resolved \cup {"dead"}
None == [status |-> "none", attempt |-> 1, due |-> FALSE, key |-> 0, remote |-> FALSE]
Fresh(key) == [status |-> "pending", attempt |-> 1, due |-> TRUE, key |-> key,
               remote |-> FALSE]
Idle == [pc |-> "idle", job |-> NoJob, attempt |-> 1, key |-> 0, outcome |-> "none"]
Down == [Idle EXCEPT !.pc = "down"]
NoReplay == [pc |-> "idle", job |-> NoJob, row |-> None]

\* What the target answers: a 2xx with an id, a 2xx without one, 409, the rest.
Good == {"created", "unnamed", "exists"}
Answers == Good \cup {"failed"}

Row == [status : {"none", "pending"} \cup Terminal, attempt : 1..MaxAttempts,
        due : BOOLEAN, key : Nat, remote : BOOLEAN]
Stored == {j \in Jobs : job[j].status # "none"}
Ready == record.live /\ record.ready

\* FOR UPDATE OF provisioning_jobs, until the attempt's own commit.
JobLocked(j) == \E w \in Workers : /\ worker[w].job = j
                                   /\ worker[w].pc \in {"claimed", "posted"}

TypeOK ==
    /\ record \in [live : BOOLEAN, ready : BOOLEAN, named : BOOLEAN]
    /\ job \in [Jobs -> Row]
    /\ attempts \subseteq [attempt : 1..MaxAttempts, key : Nat, outcome : Answers]
    /\ worker \in [Workers ->
            [pc : {"down", "idle", "claimed", "posted", "recorded", "reloaded"},
             job : Jobs \cup {NoJob}, attempt : 1..MaxAttempts, key : Nat,
             outcome : {"none", "done_unnamed", "retry", "keep"}
                       \cup Answers \cup Terminal]]
    /\ replay \in [Requests -> [pc : {"idle", "loaded"}, job : Jobs \cup {NoJob},
                                row : Row]]
    /\ user \in BOOLEAN
    /\ keys \in Nat /\ edits \in Nat /\ crashes \in Nat

\* After the upload: a job if a target was configured and the record had a
\* userName. Somebody else may have created the user before.
Init ==
    /\ \E ready \in BOOLEAN, named \in BOOLEAN :
        /\ record = [live |-> TRUE, ready |-> ready, named |-> named]
        /\ \E queued \in SUBSET Jobs :
            /\ Cardinality(queued) <= 1 /\ (queued # {} => named)
            /\ job = [j \in Jobs |-> IF j \in queued THEN Fresh(0) ELSE None]
    /\ attempts = {}
    /\ worker = [w \in Workers |-> Idle]
    /\ replay = [q \in Requests |-> NoReplay]
    /\ user \in BOOLEAN
    /\ keys = 0 /\ edits = 0 /\ crashes = 0

-----------------------------------------------------------------------------
(* The record                                                              *)

\* PATCH, approve and mapping review move the record through the gate; a
\* PATCH may also give it an e-mail address or take it away.
Review ==
    /\ record.live
    /\ edits < MaxEdits /\ edits' = edits + 1
    /\ \E ready \in BOOLEAN, named \in BOOLEAN :
        record' = [live |-> TRUE, ready |-> ready, named |-> named]
    /\ UNCHANGED <<job, attempts, worker, replay, user, keys, crashes>>

\* The row and what ON DELETE CASCADE takes with it.
Erase ==
    /\ record' = [live |-> FALSE, ready |-> FALSE, named |-> FALSE]
    /\ job' = [j \in Jobs |-> None]
    /\ attempts' = {}

Delete ==
    /\ record.live /\ \A j \in Jobs : ~JobLocked(j)
    /\ Erase
    /\ UNCHANGED <<worker, replay, user, keys, bounds>>

\* The waiting DELETE and the audit row deadlock, and the worker is aborted.
DeleteAborts(w) ==
    /\ worker[w].pc = "posted"
    /\ \A j \in Jobs \ {worker[w].job} : ~JobLocked(j)
    /\ worker' = [worker EXCEPT ![w] = Down]
    /\ Erase
    /\ UNCHANGED <<replay, user, keys, bounds>>

-----------------------------------------------------------------------------
(* POST /records/{id}/provisioning/replay                                  *)

\* The checks of the endpoint, then the job, if there is exactly one or none:
\* scalar_one_or_none raises when there are several.
ReplayRead(q) ==
    /\ replay[q].pc = "idle"
    /\ Ready /\ record.named
    /\ keys + Cardinality({p \in Requests : replay[p].pc = "loaded"}) < MaxReplays
    /\ \/ Stored = {} /\ replay' = [replay EXCEPT ![q].pc = "loaded"]
       \/ \E j \in Jobs :
            /\ Stored = {j}
            /\ replay' = [replay EXCEPT ![q] =
                            [pc |-> "loaded", job |-> j, row |-> job[j]]]
    /\ UNCHANGED <<rows, worker, user, keys, bounds>>

\* A column keeps what is there if the request saw no change.
Column(computed, loaded, current) == IF computed # loaded THEN computed ELSE current

\* The reset, as far as the replay saw something to reset.
Reset(current, loaded, key) ==
    [status  |-> Column("pending", loaded.status, current.status),
     attempt |-> Column(1, loaded.attempt, current.attempt),
     due |-> TRUE, key |-> key,
     remote  |-> Column(FALSE, loaded.remote, current.remote)]

\* The UPDATE waits for a worker's lock and fails if the job is gone; the
\* INSERT fails if the record is.
ReplayCommit(q) ==
    LET j == replay[q].job IN
    /\ replay[q].pc = "loaded"
    /\ replay' = [replay EXCEPT ![q] = NoReplay]
    /\ IF ~record.live THEN UNCHANGED <<job, keys>>
       ELSE /\ keys' = keys + 1
            /\ \/ /\ j # NoJob /\ ~JobLocked(j)
                  /\ job' = [job EXCEPT ![j] = Reset(@, replay[q].row, keys + 1)]
               \/ /\ j = NoJob
                  /\ \E free \in Jobs \ Stored :
                        job' = [job EXCEPT ![free] = Fresh(keys + 1)]
    /\ UNCHANGED <<record, attempts, worker, user, bounds>>

-----------------------------------------------------------------------------
(* The worker's pass over one job                                          *)

Due(j) == job[j].status = "pending" /\ job[j].due

\* Mutation: the claim checks for a userName, too.
ClaimableNamed(j) == Due(j) /\ Ready /\ record.named /\ ~JobLocked(j)
Claimable(j) == Due(j) /\ Ready /\ ~JobLocked(j)

Claim(w, j) ==
    /\ worker[w].pc = "idle"
    /\ Claimable(j)
    /\ worker' = [worker EXCEPT ![w] =
            [pc |-> "claimed", job |-> j, attempt |-> job[j].attempt,
             key |-> job[j].key, outcome |-> "none"]]
    /\ UNCHANGED <<rows, replay, user, keys, bounds>>

\* The target creates the user, or has it already (409), or the attempt
\* fails, possibly after the target has created the user.
Post(w) ==
    LET me == worker[w] IN
    /\ me.pc = "claimed"
    /\ \E outcome \in {"failed"} \cup
                        (IF user THEN {"exists"} ELSE {"created", "unnamed"}) :
        /\ worker' = [worker EXCEPT ![w] =
                [pc |-> "posted", job |-> me.job, attempt |-> me.attempt,
                 key |-> me.key, outcome |-> outcome]]
        /\ user' \in {user, TRUE} /\ (outcome # "failed" => user')
    /\ UNCHANGED <<rows, replay, keys, bounds>>

\* The audit row, and the commit that also ends the claim's lock.
RecordAttempt(w) ==
    /\ worker[w].pc = "posted"
    /\ attempts' = attempts \cup {[attempt |-> worker[w].attempt, key |-> worker[w].key,
                                  outcome |-> worker[w].outcome]}
    /\ worker' = [worker EXCEPT ![w] = [@ EXCEPT !.pc = "recorded"]]
    /\ UNCHANGED <<record, job, replay, user, keys, bounds>>

\* Mutation: a timeout passes for a 409.
VerdictTimeoutIsConflict(outcome, row) ==
    CASE outcome = "created" -> "done"
      [] outcome = "unnamed" -> "done_unnamed"
      [] OTHER -> "skipped_exists"

\* What the worker will write, decided on what it reads after the commit; a
\* status that is "dead" already is no change.
Verdict(outcome, row) ==
    CASE outcome = "exists"  -> "skipped_exists"
      [] outcome = "created" -> "done"
      [] outcome = "unnamed" -> "done_unnamed"
      [] outcome = "failed" /\ row.attempt < MaxAttempts -> "retry"
      [] OTHER -> IF row.status = "dead" THEN "keep" ELSE "dead"

\* The log line reloads the record, the failure branch the job.
Reload(w) ==
    LET me == worker[w] IN
    /\ me.pc = "recorded"
    /\ worker' = [worker EXCEPT ![w] =
            IF record.live
            THEN [pc |-> "reloaded", job |-> me.job, attempt |-> job[me.job].attempt,
                  key |-> me.key, outcome |-> Verdict(me.outcome, job[me.job])]
            ELSE Down]
    /\ UNCHANGED <<rows, replay, user, keys, bounds>>

\* Mutation: the retry branch writes the status as well.
SettledAnew(row, verdict, attempt) ==
    CASE verdict \in {"done", "done_unnamed"} ->
            [row EXCEPT !.status = "done", !.remote = (verdict = "done")]
      [] verdict \in {"skipped_exists", "dead"} -> [row EXCEPT !.status = verdict]
      [] verdict = "retry" -> [row EXCEPT !.status = "pending",
                                          !.attempt = attempt + 1, !.due = FALSE]
      [] OTHER -> row

\* The UPDATE of the second commit: each verdict writes its own columns.
Settled(row, verdict, attempt) ==
    CASE verdict \in {"done", "done_unnamed"} ->
            [row EXCEPT !.status = "done", !.remote = (verdict = "done")]
      [] verdict \in {"skipped_exists", "dead"} -> [row EXCEPT !.status = verdict]
      [] verdict = "retry" -> [row EXCEPT !.attempt = attempt + 1, !.due = FALSE]
      [] OTHER -> row

Settle(w) ==
    LET me == worker[w] IN
    /\ me.pc = "reloaded"
    /\ me.outcome # "keep" => ~JobLocked(me.job)
    /\ IF me.job \in Stored
       THEN /\ job' = [job EXCEPT ![me.job] = Settled(@, me.outcome, me.attempt)]
            /\ worker' = [worker EXCEPT ![w] = Idle]
       ELSE /\ worker' = [worker EXCEPT ![w] = IF me.outcome = "keep" THEN Idle ELSE Down]
            /\ UNCHANGED job
    /\ UNCHANGED <<record, attempts, replay, user, keys, bounds>>

\* available_at passes.
BackoffElapses(j) ==
    /\ job[j].status = "pending" /\ ~job[j].due
    /\ job' = [job EXCEPT ![j] = [@ EXCEPT !.due = TRUE]]
    /\ UNCHANGED <<record, attempts, worker, replay, user, keys, bounds>>

Crash(w) ==
    /\ worker[w].pc # "down"
    /\ crashes < MaxCrashes /\ crashes' = crashes + 1
    /\ worker' = [worker EXCEPT ![w] = Down]
    /\ UNCHANGED <<rows, replay, user, keys, edits>>

Restart(w) ==
    /\ worker[w].pc = "down"
    /\ worker' = [worker EXCEPT ![w] = Idle]
    /\ UNCHANGED <<rows, replay, user, keys, bounds>>

WorkerStep(w) == \/ \E j \in Jobs : Claim(w, j)
                 \/ Post(w) \/ RecordAttempt(w) \/ Reload(w) \/ Settle(w)
                 \/ Restart(w)

Next == \/ \E w \in Workers : WorkerStep(w) \/ Crash(w) \/ DeleteAborts(w)
        \/ \E q \in Requests : ReplayRead(q) \/ ReplayCommit(q)
        \/ \E j \in Jobs : BackoffElapses(j)
        \/ Review \/ Delete

Spec == Init /\ [][Next]_vars
\* Workers run and are restarted, time passes, and a request goes on.
FairSpec == /\ Spec
            /\ \A w \in Workers : WF_vars(WorkerStep(w))
            /\ \A j \in Jobs : WF_vars(BackoffElapses(j))
            /\ \A q \in Requests : WF_vars(ReplayCommit(q))

-----------------------------------------------------------------------------
(* Properties                                                              *)

Outcomes == {row.outcome : row \in attempts}

\* A job that is done or skipped is backed by an answer of the target on
\* record, and the user is there: whatever workers and replays overlap.
ResolvedMeansUser ==
    \A j \in Jobs : job[j].status \in Resolved => user /\ Outcomes \cap Good # {}

\* A remote id belongs to the run that ended "done": a replay forgets it and
\* no other ending has one (one worker, one replay at a time).
IdOnlyWhenDone == \A j \in Jobs : job[j].remote => job[j].status = "done"

\* Only a replay reopens a job that was settled.
OnlyReplayReopens ==
    [][\A j \in Jobs :
        job[j].status \in Terminal /\ job'[j].status = "pending" =>
            \E q \in Requests : replay[q].job = j /\ replay'[q] = NoReplay]_vars

\* A job that stays past the gate is settled, replays included.
OwedIsSettled ==
    \A j \in Jobs : []<>(job[j].status # "pending" \/ ~Ready)

\* "dead": the last attempt number was used up and failed (one worker).
DeadSpentLastAttempt ==
    (\E j \in Jobs : job[j].status = "dead") =>
        \E row \in attempts : row.attempt = MaxAttempts /\ row.outcome = "failed"
=============================================================================
