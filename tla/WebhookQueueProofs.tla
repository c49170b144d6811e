------------------------- MODULE WebhookQueueProofs -------------------------
(***************************************************************************)
(* Proofs about WebhookQueue for any set of records, any finite set of     *)
(* worker processes and any bounds, in four parts:                         *)
(*   - the inductive invariant QueueInv: what a worker holds in memory     *)
(*     between its two transactions agrees with the rows the other         *)
(*     sessions see, or the record it belongs to is gone;                  *)
(*   - the audit account: every POST is in the trail, in flight, or died   *)
(*     with the process that made it;                                      *)
(*   - the refinement: under the mapping stageOf, logOf every step of a    *)
(*     request or of a worker is a step of Notification or changes nothing *)
(*     a notification shows;                                               *)
(*   - one worker process: what only holds while a single worker runs.     *)
(***************************************************************************)
EXTENDS WebhookQueue, TLAPS, FiniteSetTheorems, SequenceTheorems

Hands == [pc : {"down", "idle", "claimed", "posted", "recorded", "reloaded"},
          rec : Records \cup {NoRecord}, attempt : 0..MaxAttempts,
          outcome : {"none", "ok", "failed", "done", "dead", "retry", "keep"}]
Working == {"claimed", "posted", "recorded", "reloaded"}

\* The trail of r has an entry with this outcome.
HasOutcome(r, success) ==
    \E i \in 1..Len(deliveries[r]) : deliveries[r][i].success = success

\* Rows exist only with their record; what was ready once is in cleared.
RowsOK ==
    /\ \A r \in Records : record[r].row # "live" =>
                            job[r] = NoJob /\ deliveries[r] = <<>>
    /\ deleting \subseteq Live
    /\ \A r \in Records : Ready(r) => r \in cleared
    /\ \A r \in cleared : record[r].row # "new"
    /\ NeverReadyNeverSent

\* A settled job has the log entry that settles it.
SettledOK ==
    /\ \A r \in Records : job[r].status = "done" => HasOutcome(r, TRUE)
    /\ \A r \in Records : job[r].status = "dead" => HasOutcome(r, FALSE)
    /\ \A r \in Records : HasOutcome(r, TRUE) => r \in accepted

\* What worker w holds.
HandOK(w) ==
    LET me == worker[w] IN
    /\ me.pc \in Working <=> me.rec # NoRecord
    /\ me.pc \in Working => me.rec \in cleared /\ me.attempt \in 1..MaxAttempts
    /\ me.pc \in {"claimed", "posted"} =>
            me.rec \in Live /\ job[me.rec].status = "pending"
    /\ me.pc \in {"posted", "recorded"} => me.outcome \in {"ok", "failed"}
    /\ me.pc = "reloaded" => me.outcome \in {"done", "dead", "retry", "keep"}
    /\ me.pc = "recorded" /\ me.rec \in Live =>
            HasOutcome(me.rec, me.outcome = "ok")
    /\ me.pc = "reloaded" /\ me.rec \in Live /\ me.outcome \in Terminal =>
            HasOutcome(me.rec, me.outcome = "done")
    /\ me.outcome = "ok" => me.rec \in accepted
    /\ me.outcome = "retry" => me.attempt < MaxAttempts

\* The job row's lock has one holder.
LockOK ==
    \A v, w \in Workers :
        /\ worker[v].pc \in {"claimed", "posted"}
        /\ worker[w].pc \in {"claimed", "posted"}
        /\ worker[v].rec = worker[w].rec
        => v = w

QueueInv == /\ TypeOK /\ RowsOK /\ SettledOK /\ LockOK
            /\ \A w \in Workers : HandOK(w)

-----------------------------------------------------------------------------
LEMMA InitInv == Init => QueueInv
  BY QueueAssumption
  DEF Init, QueueInv, TypeOK, RowsOK, SettledOK, LockOK, HandOK, HasOutcome,
      NeverReadyNeverSent, Ready, Live, NoJob, Idle, Terminal, Working

\* Review requests touch the two review columns of live rows only.
LEMMA ReviewInv ==
  ASSUME QueueInv,
         record' \in [Records -> [row : {"new", "live", "erased"},
                                  flagged : BOOLEAN, approved : BOOLEAN]],
         \A r \in Records : record'[r].row = record[r].row,
         RememberCleared, edits' \in Nat,
         UNCHANGED <<job, deliveries, worker, deleting, configured, history,
                     crashes, redeploys>>
  PROVE  QueueInv'
<1>1. cleared' \subseteq Records /\ cleared \subseteq cleared'
  BY DEF QueueInv, TypeOK, RememberCleared
<1>2. \A r \in Records : Ready(r)' => r \in cleared'
  BY DEF RememberCleared
<1>9. \A r \in cleared' : record'[r].row # "new"
  <2>1. \A r \in cleared : record'[r].row # "new"
    BY DEF QueueInv, RowsOK, TypeOK
  <2>2. \A r \in Records : Ready(r)' => record'[r].row # "new"
    BY DEF Ready
  <2>3. QED
    BY <2>1, <2>2 DEF RememberCleared, Ready
<1>3. Live' = Live
  BY DEF Live
<1>4. TypeOK'
  BY <1>1 DEF QueueInv, TypeOK, history
<1>5. RowsOK'
  BY <1>1, <1>2, <1>9, <1>3 DEF QueueInv, RowsOK, NeverReadyNeverSent, history
<1>6. SettledOK'
  BY DEF QueueInv, SettledOK, HasOutcome, history
<1>7. \A w \in Workers : HandOK(w)'
  BY <1>1, <1>3 DEF QueueInv, HandOK, HasOutcome, history
<1>8. LockOK'
  BY DEF QueueInv, LockOK
<1>10. QED
  BY <1>4, <1>5, <1>6, <1>7, <1>8 DEF QueueInv

LEMMA IngestInv == ASSUME QueueInv, NEW r \in Records, Ingest(r) PROVE QueueInv'
<1>1. TypeOK' /\ cleared \subseteq cleared'
  <2>1. record' \in [Records -> [row : {"new", "live", "erased"},
                                 flagged : BOOLEAN, approved : BOOLEAN]]
    BY DEF QueueInv, TypeOK, Ingest
  <2>2. job' \in [Records -> [status : {"none", "pending"} \cup Terminal,
                              attempt : 1..MaxAttempts, due : BOOLEAN]]
    BY QueueAssumption DEF QueueInv, TypeOK, Ingest
  <2>3. cleared' \subseteq Records /\ cleared \subseteq cleared'
    BY DEF QueueInv, TypeOK, Ingest, RememberCleared
  <2>4. QED
    BY <2>1, <2>2, <2>3 DEF QueueInv, TypeOK, Ingest, history, bounds
<1>2. Live' = Live \cup {r} /\ r \notin Live
  BY DEF QueueInv, TypeOK, Ingest, Live
<1>3. \A q \in Records : q # r => record'[q] = record[q] /\ job'[q] = job[q]
  BY DEF QueueInv, TypeOK, Ingest
<1>4. job'[r].status \in {"none", "pending"} /\ record'[r].row = "live"
      /\ deliveries[r] = <<>>
  BY DEF QueueInv, TypeOK, Ingest, RowsOK, NoJob
<1>5. RowsOK'
  <2>1. \A q \in Records : Ready(q)' => q \in cleared'
    BY DEF Ingest, RememberCleared
  <2>2. \A q \in Records : record'[q].row # "live" =>
                            job'[q] = NoJob /\ deliveries'[q] = <<>>
    BY <1>3, <1>4 DEF QueueInv, RowsOK, Ingest
  <2>3. (deleting \subseteq Live)'
    BY <1>2 DEF QueueInv, RowsOK, Ingest
  <2>4. NeverReadyNeverSent'
    BY <1>1 DEF QueueInv, RowsOK, NeverReadyNeverSent, Ingest, history
  <2>5. \A q \in cleared' : record'[q].row # "new"
    <3>1. SUFFICES ASSUME NEW q \in cleared' PROVE record'[q].row # "new"
      OBVIOUS
    <3>2. CASE q \in cleared
      BY <3>2, <1>1, <1>3, <1>4 DEF QueueInv, TypeOK, RowsOK
    <3>3. CASE Ready(q)'
      BY <3>3 DEF Ready
    <3>4. QED
      BY <3>1, <3>2, <3>3 DEF Ingest, RememberCleared, Ready
  <2>6. QED
    BY <2>1, <2>2, <2>3, <2>4, <2>5 DEF RowsOK
<1>6. SettledOK'
  BY <1>3, <1>4 DEF QueueInv, SettledOK, HasOutcome, Ingest, history
<1>7. \A w \in Workers : HandOK(w)'
  <2>1. SUFFICES ASSUME NEW w \in Workers PROVE HandOK(w)'
    OBVIOUS
  <2>2. HandOK(w) /\ worker' = worker /\ deliveries' = deliveries
        /\ accepted' = accepted
    BY DEF QueueInv, Ingest, history
  <2>3. worker[w].rec = r => ~(worker[w].pc \in {"claimed", "posted"})
    BY <1>2, <2>2 DEF HandOK
  <2>4. worker[w].rec # r => (worker[w].rec \in Live' <=> worker[w].rec \in Live)
    BY <1>2
  <2>5. worker[w].rec # r /\ worker[w].rec \in Live =>
            job'[worker[w].rec] = job[worker[w].rec]
    BY <1>3 DEF Live
  <2>6. worker[w].rec # r
    BY <2>2, QueueAssumption DEF HandOK, Working, QueueInv, RowsOK, Ingest, TypeOK
  <2>7. QED
    BY <1>1, <2>2, <2>3, <2>4, <2>5, <2>6 DEF HandOK, HasOutcome
<1>8. LockOK'
  BY DEF QueueInv, LockOK, Ingest
<1>9. QED
  BY <1>1, <1>5, <1>6, <1>7, <1>8 DEF QueueInv

LEMMA PatchRows ==
  ASSUME QueueInv, NEW r \in Records, Patch(r)
  PROVE  /\ record' \in [Records -> [row : {"new", "live", "erased"},
                                    flagged : BOOLEAN, approved : BOOLEAN]]
         /\ \A q \in Records : record'[q].row = record[q].row
<1>1. PICK f \in BOOLEAN, a \in BOOLEAN :
        record' = [record EXCEPT ![r] =
                    [row |-> "live", flagged |-> f, approved |-> a]]
  <2>1. record[r].flagged \in BOOLEAN /\ record[r].approved \in BOOLEAN
    BY DEF QueueInv, TypeOK
  <2>2. PICK v \in BOOLEAN : \E f \in {v, record[r].flagged},
                                a \in {FALSE, record[r].approved} :
        record' = [record EXCEPT ![r] =
                    [row |-> "live", flagged |-> f, approved |-> a]]
    BY DEF Patch
  <2>3. PICK f \in {v, record[r].flagged}, a \in {FALSE, record[r].approved} :
        record' = [record EXCEPT ![r] =
                    [row |-> "live", flagged |-> f, approved |-> a]]
    BY <2>2
  <2>4. f \in BOOLEAN /\ a \in BOOLEAN
    BY <2>1
  <2>5. QED
    BY <2>3, <2>4
<1>2. QED
  BY <1>1 DEF QueueInv, TypeOK, Patch, Writable, Live

LEMMA PatchInv == ASSUME QueueInv, NEW r \in Records, Patch(r) PROVE QueueInv'
<1>1. edits' \in Nat
  BY DEF Patch, QueueInv, TypeOK
<1>2. QED
  BY <1>1, PatchRows, ReviewInv DEF Patch

LEMMA ReviewMappingInv ==
  ASSUME QueueInv, NEW run \in SUBSET Records, ReviewMapping(run) PROVE QueueInv'
<1>1. PICK f \in [run -> BOOLEAN] :
        record' = [r \in Records |-> IF r \in run
                    THEN [record[r] EXCEPT !.flagged = f[r]] ELSE record[r]]
  BY DEF ReviewMapping
<1>2. edits' \in Nat
  BY DEF ReviewMapping, QueueInv, TypeOK
<1>3. /\ record' \in [Records -> [row : {"new", "live", "erased"},
                                  flagged : BOOLEAN, approved : BOOLEAN]]
      /\ \A q \in Records : record'[q].row = record[q].row
  <2>1. ASSUME NEW q \in Records
        PROVE  /\ record'[q] \in [row : {"new", "live", "erased"},
                                  flagged : BOOLEAN, approved : BOOLEAN]
               /\ record'[q].row = record[q].row
    <3>1. record[q] \in [row : {"new", "live", "erased"},
                         flagged : BOOLEAN, approved : BOOLEAN]
      BY DEF QueueInv, TypeOK
    <3>2. CASE q \in run
      <4>1. PICK flag \in BOOLEAN : flag = f[q]
        BY <3>2
      <4>2. record'[q] = [record[q] EXCEPT !.flagged = flag]
        BY <1>1, <3>2, <4>1
      <4>3. QED
        BY <3>1, <4>2
    <3>3. CASE q \notin run
      BY <1>1, <3>1, <3>3
    <3>4. QED
      BY <3>2, <3>3
  <2>2. record' = [q \in Records |-> record'[q]]
    BY <1>1
  <2>3. QED
    BY <2>1, <2>2
<1>4. QED
  BY <1>2, <1>3, ReviewInv DEF ReviewMapping

LEMMA ApproveInv == ASSUME QueueInv, NEW r \in Records, Approve(r) PROVE QueueInv'
  BY ReviewInv DEF Approve, QueueInv, TypeOK, bounds


\* Erasing a record no worker holds locked, from then on held only by workers
\* that are past their first transaction.
LEMMA EraseInv ==
  ASSUME QueueInv, NEW r \in Live, Erase(r),
         worker' \in [Workers -> {worker[w] : w \in Workers} \cup {Down}],
         \A w \in Workers : worker'[w] \in {worker[w], Down},
         \A w \in Workers : worker[w].rec = r /\ worker'[w] = worker[w]
                                => worker[w].pc \notin {"claimed", "posted"},
         UNCHANGED <<configured, cleared, history, bounds>>
  PROVE  QueueInv'
<1>1. r \in Records /\ Live' = Live \ {r}
  BY DEF QueueInv, TypeOK, Erase, Live
<1>2. \A q \in Records : q # r => /\ record'[q] = record[q]
                                  /\ job'[q] = job[q]
                                  /\ deliveries'[q] = deliveries[q]
  BY DEF QueueInv, TypeOK, Erase
<1>3. /\ record'[r].row = "erased"
      /\ job'[r] = NoJob
      /\ deliveries'[r] = <<>>
  BY <1>1 DEF QueueInv, TypeOK, Erase
<1>4. TypeOK'
  <2>1. record' \in [Records -> [row : {"new", "live", "erased"},
                                 flagged : BOOLEAN, approved : BOOLEAN]]
    BY <1>1 DEF QueueInv, TypeOK, Erase
  <2>2. job' \in [Records -> [status : {"none", "pending"} \cup Terminal,
                              attempt : 1..MaxAttempts, due : BOOLEAN]]
    BY <1>1, QueueAssumption DEF QueueInv, TypeOK, Erase, NoJob
  <2>3. deliveries' \in [Records -> Seq([attempt : 1..MaxAttempts,
                                         success : BOOLEAN])]
    <3>1. <<>> \in Seq([attempt : 1..MaxAttempts, success : BOOLEAN])
      OBVIOUS
    <3>2. QED
      BY <3>1, <1>1 DEF QueueInv, TypeOK, Erase
  <2>4. worker' \in [Workers ->
            [pc : {"down", "idle"} \cup Working, rec : Records \cup {NoRecord},
             attempt : 0..MaxAttempts,
             outcome : {"none", "ok", "failed", "done", "dead", "retry", "keep"}]]
    BY QueueAssumption DEF QueueInv, TypeOK, Down, Idle, Working
  <2>5. QED
    BY <2>1, <2>2, <2>3, <2>4 DEF QueueInv, TypeOK, Erase, history, bounds, Working
<1>5. RowsOK'
  <2>1. \A q \in Records : record'[q].row # "live" =>
                            job'[q] = NoJob /\ deliveries'[q] = <<>>
    BY <1>2, <1>3 DEF QueueInv, RowsOK
  <2>2. (deleting \subseteq Live)'
    BY <1>1 DEF QueueInv, RowsOK, Erase
  <2>3. \A q \in Records : Ready(q)' => q \in cleared'
    BY <1>1, <1>2, <1>3 DEF QueueInv, RowsOK, Ready
  <2>4. \A q \in cleared' : record'[q].row # "new"
    BY <1>2, <1>3 DEF QueueInv, TypeOK, RowsOK
  <2>5. NeverReadyNeverSent'
    BY <1>2, <1>3 DEF QueueInv, RowsOK, NeverReadyNeverSent, history
  <2>6. QED
    BY <2>1, <2>2, <2>3, <2>4, <2>5 DEF RowsOK
<1>6. SettledOK'
  BY <1>1, <1>2, <1>3 DEF QueueInv, SettledOK, HasOutcome, NoJob, history
<1>7. \A w \in Workers : HandOK(w)'
  <2>1. SUFFICES ASSUME NEW w \in Workers PROVE HandOK(w)'
    OBVIOUS
  <2>2. CASE worker'[w] = Down
    BY <2>2, QueueAssumption DEF HandOK, Down, Idle, Working
  <2>3. CASE worker'[w] = worker[w]
    <3>1. worker[w].rec = r => worker[w].pc \notin {"claimed", "posted"}
      BY <2>3
    <3>2. worker[w].rec # r /\ worker[w].rec \in Live =>
            /\ job'[worker[w].rec] = job[worker[w].rec]
            /\ deliveries'[worker[w].rec] = deliveries[worker[w].rec]
      BY <1>2 DEF Live
    <3>3. HandOK(w) /\ accepted' = accepted /\ cleared' = cleared
      BY DEF QueueInv, history
    <3>4. QED
      BY <1>1, <2>3, <3>1, <3>2, <3>3 DEF HandOK, HasOutcome
  <2>4. QED
    BY <2>2, <2>3
<1>8. LockOK'
  BY DEF QueueInv, LockOK, Down, Idle
<1>9. QED
  BY <1>4, <1>5, <1>6, <1>7, <1>8 DEF QueueInv

LEMMA DeleteInv == ASSUME QueueInv, NEW r \in Records, Delete(r) PROVE QueueInv'
<1>1. CASE JobLocked(r)
  <2>1. /\ deleting' = deleting \cup {r} /\ r \in Live
        /\ UNCHANGED <<record, job, deliveries>>
    BY <1>1 DEF Delete, Writable
  <2>2. TypeOK' /\ RowsOK'
    BY <2>1 DEF Delete, QueueInv, TypeOK, RowsOK, NeverReadyNeverSent, Ready,
       Live, history, bounds
  <2>3. SettledOK' /\ LockOK'
    BY <2>1 DEF Delete, QueueInv, SettledOK, LockOK, HasOutcome, history
  <2>4. \A w \in Workers : HandOK(w)'
    BY <2>1 DEF Delete, QueueInv, HandOK, HasOutcome, Live, history
  <2>5. QED
    BY <2>2, <2>3, <2>4 DEF QueueInv
<1>2. CASE ~JobLocked(r)
  <2>1. Erase(r) /\ r \in Live /\ worker' = worker
    BY <1>2 DEF Delete, Writable
  <2>2. worker' \in [Workers -> {worker[w] : w \in Workers} \cup {Down}]
    BY <2>1 DEF QueueInv, TypeOK
  <2>3. QED
    BY <1>2, <2>1, <2>2, EraseInv DEF Delete, JobLocked
<1>3. QED
  BY <1>1, <1>2

LEMMA DeleteResumesInv ==
  ASSUME QueueInv, NEW r \in Records, DeleteResumes(r) PROVE QueueInv'
<1>1. Erase(r) /\ r \in Live /\ worker' = worker
  BY DEF DeleteResumes, QueueInv, RowsOK
<1>2. worker' \in [Workers -> {worker[w] : w \in Workers} \cup {Down}]
  BY <1>1 DEF QueueInv, TypeOK
<1>3. QED
  BY <1>1, <1>2, EraseInv DEF DeleteResumes, JobLocked

LEMMA BackoffElapsesInv ==
  ASSUME QueueInv, NEW r \in Records, BackoffElapses(r) PROVE QueueInv'
<1>0. /\ job \in [Records -> [status : {"none", "pending"} \cup Terminal,
                              attempt : 1..MaxAttempts, due : BOOLEAN]]
      /\ job' = [job EXCEPT ![r] = [job[r] EXCEPT !.due = TRUE]]
      /\ job[r].status = "pending"
  BY DEF BackoffElapses, QueueInv, TypeOK
<1>1. \A q \in Records : job'[q].status = job[q].status
                         /\ (job[q] = NoJob => job'[q] = NoJob)
  <2>1. job'[r].status = job[r].status /\ job[r] # NoJob
    BY <1>0 DEF NoJob
  <2>2. \A q \in Records : q # r => job'[q] = job[q]
    BY <1>0
  <2>3. QED
    BY <2>1, <2>2
<1>2. TypeOK'
  <2>1. job' \in [Records -> [status : {"none", "pending"} \cup Terminal,
                              attempt : 1..MaxAttempts, due : BOOLEAN]]
    BY <1>0
  <2>2. QED
    BY <2>1 DEF BackoffElapses, QueueInv, TypeOK, history, bounds
<1>3. RowsOK' /\ SettledOK' /\ LockOK'
  BY <1>1 DEF BackoffElapses, QueueInv, RowsOK, SettledOK, LockOK, HasOutcome,
     NeverReadyNeverSent, Ready, Live, history
<1>4. \A w \in Workers : HandOK(w)'
  BY <1>1 DEF BackoffElapses, QueueInv, HandOK, HasOutcome, Live, history
<1>5. QED
  BY <1>2, <1>3, <1>4 DEF QueueInv

\* A step of one worker that writes nothing but its own memory and, when it
\* sends, the history of a record that has been past the gate.
LEMMA HandInv ==
  ASSUME QueueInv, NEW w \in Workers, NEW h \in Hands,
         worker' = [worker EXCEPT ![w] = h],
         UNCHANGED <<rows, configured, cleared>>,
         edits' \in Nat, crashes' \in Nat, redeploys' \in Nat,
         sent' \in [Records -> Nat],
         \A r \in Records \ cleared : sent'[r] = sent[r],
         accepted \subseteq accepted', accepted' \subseteq Records,
         leaked' \subseteq Records,
         HandOK(w)',
         h.pc \in {"claimed", "posted"} =>
            \A v \in Workers \ {w} : worker[v].pc \in {"claimed", "posted"} =>
                                        worker[v].rec # h.rec
  PROVE  QueueInv'
<1>1. /\ worker'[w] = h
      /\ \A v \in Workers \ {w} : worker'[v] = worker[v]
      /\ worker' \in [Workers -> Hands]
  BY DEF QueueInv, TypeOK, Hands
<1>2. TypeOK'
  BY <1>1 DEF QueueInv, TypeOK, Hands, rows
<1>3. RowsOK' /\ SettledOK'
  BY DEF QueueInv, RowsOK, SettledOK, NeverReadyNeverSent, HasOutcome, Ready,
     Live, rows
<1>4. LockOK'
  BY <1>1 DEF QueueInv, LockOK
<1>5. \A v \in Workers : HandOK(v)'
  <2>1. SUFFICES ASSUME NEW v \in Workers \ {w} PROVE HandOK(v)'
    OBVIOUS
  <2>2. HandOK(v) /\ worker'[v] = worker[v]
    BY <1>1 DEF QueueInv
  <2>3. QED
    BY <2>2 DEF HandOK, HasOutcome, Live, rows
<1>6. QED
  BY <1>2, <1>3, <1>4, <1>5 DEF QueueInv

LEMMA ClaimInv ==
  ASSUME QueueInv, NEW w \in Workers, NEW r \in Records, Claim(w, r)
  PROVE  QueueInv'
<1> DEFINE h == [pc |-> "claimed", rec |-> r,
                 attempt |-> job[r].attempt, outcome |-> "none"]
<1>1. job[r].attempt \in 1..MaxAttempts /\ worker' = [worker EXCEPT ![w] = h]
  BY DEF QueueInv, TypeOK, Claim
<1>2. h \in Hands
  BY <1>1 DEF Hands
<1>3. worker'[w] = h
  BY <1>1 DEF QueueInv, TypeOK
<1>4. r \in Live /\ r \in cleared /\ job[r].status = "pending"
  BY DEF Claim, Claimable, Due, Ready, Live, QueueInv, RowsOK
<1>5. HandOK(w)'
  <2>1. UNCHANGED <<record, job, deliveries, cleared, accepted>>
    BY DEF Claim, rows, history
  <2>2. QED
    BY <1>1, <1>3, <1>4, <2>1, QueueAssumption
    DEF HandOK, Working, HasOutcome, Terminal, Live
<1>6. \A v \in Workers : worker[v].pc \in {"claimed", "posted"} =>
                            worker[v].rec # r
  BY DEF Claim, Claimable, JobLocked
<1>7. QED
  BY <1>1, <1>2, <1>5, <1>6, HandInv DEF Claim, QueueInv, TypeOK, history, bounds

LEMMA PostInv == ASSUME QueueInv, NEW w \in Workers, Post(w) PROVE QueueInv'
<1> DEFINE r == worker[w].rec
<1>1. PICK taken \in BOOLEAN, reply \in {"ok", "failed"} :
        /\ reply = "ok" => taken
        /\ accepted' = IF taken THEN accepted \cup {r} ELSE accepted
        /\ worker' = [worker EXCEPT ![w].pc = "posted", ![w].outcome = reply]
  BY DEF Post, MayPost
<1> DEFINE h == [worker[w] EXCEPT !.pc = "posted", !.outcome = reply]
<1>2. /\ worker[w].pc = "claimed" /\ worker[w] \in Hands
      /\ worker' = [worker EXCEPT ![w] = h]
  BY <1>1 DEF Post, MayPost, QueueInv, TypeOK, Hands
<1>3. h \in Hands /\ worker'[w] = h
  BY <1>2 DEF Hands, QueueInv, TypeOK
<1>4. /\ r \in Records /\ r \in Live /\ r \in cleared
      /\ job[r].status = "pending"
  BY <1>2 DEF QueueInv, HandOK, Live, Working
<1>5. HandOK(w)'
  <2>1. UNCHANGED <<record, job, deliveries, cleared>>
    BY DEF Post, MayPost, rows
  <2>2. /\ h.pc = "posted" /\ h.rec = r /\ h.outcome = reply
        /\ h.attempt = worker[w].attempt
    BY <1>2 DEF Hands
  <2>3. worker[w].attempt \in 1..MaxAttempts /\ r # NoRecord
    BY <1>2, <1>4, QueueAssumption DEF QueueInv, HandOK, Working
  <2>4. reply = "ok" => r \in accepted'
    BY <1>1
  <2>5. QED
    BY <1>3, <1>4, <2>1, <2>2, <2>3, <2>4 DEF HandOK, Working, HasOutcome, Live
<1>6. \A v \in Workers \ {w} : worker[v].pc \in {"claimed", "posted"} =>
                                worker[v].rec # h.rec
  BY <1>2 DEF QueueInv, LockOK, Hands
<1>7. /\ sent' \in [Records -> Nat]
      /\ \A q \in Records \ cleared : sent'[q] = sent[q]
      /\ accepted \subseteq accepted' /\ accepted' \subseteq Records
      /\ leaked' \subseteq Records
  BY <1>1, <1>4 DEF Post, MayPost, QueueInv, TypeOK
<1>8. edits' \in Nat /\ crashes' \in Nat /\ redeploys' \in Nat
      /\ UNCHANGED <<rows, configured, cleared>>
  BY DEF Post, MayPost, QueueInv, TypeOK, bounds
<1>9. QED
  BY <1>2, <1>3, <1>5, <1>6, <1>7, <1>8, HandInv

\* Down and Idle hold nothing.
LEMMA EmptyHanded == Down \in Hands /\ Idle \in Hands
  BY QueueAssumption DEF Down, Idle, Hands

LEMMA LetGoInv ==
  ASSUME QueueInv, NEW w \in Workers, NEW h \in {Down, Idle},
         worker' = [worker EXCEPT ![w] = h],
         UNCHANGED <<rows, configured, cleared, history, edits, redeploys>>,
         crashes' \in Nat
  PROVE  QueueInv'
<1>1. h \in Hands /\ worker'[w] = h
  BY EmptyHanded DEF QueueInv, TypeOK
<1>2. HandOK(w)'
  BY <1>1, QueueAssumption DEF HandOK, Down, Idle, Working
<1>3. h.pc \notin {"claimed", "posted"}
  BY DEF Down, Idle
<1>4. /\ sent' \in [Records -> Nat] /\ sent' = sent
      /\ accepted \subseteq accepted' /\ accepted' \subseteq Records
      /\ leaked' \subseteq Records
      /\ edits' \in Nat /\ redeploys' \in Nat
  BY DEF QueueInv, TypeOK, history
<1>5. QED
  BY <1>1, <1>2, <1>3, <1>4, HandInv

LEMMA CrashInv == ASSUME QueueInv, NEW w \in Workers, Crash(w) PROVE QueueInv'
<1>1. crashes' \in Nat
  BY DEF Crash, QueueInv, TypeOK
<1>2. worker' = [worker EXCEPT ![w] = Down]
      /\ UNCHANGED <<rows, configured, cleared, history, edits, redeploys>>
  BY DEF Crash
<1>3. QED
  BY <1>1, <1>2, LetGoInv

LEMMA RestartInv == ASSUME QueueInv, NEW w \in Workers, Restart(w) PROVE QueueInv'
<1>1. crashes' \in Nat /\ UNCHANGED <<edits, redeploys>>
  BY DEF Restart, QueueInv, TypeOK, bounds
<1>2. worker' = [worker EXCEPT ![w] = Idle]
      /\ UNCHANGED <<rows, configured, cleared, history>>
  BY DEF Restart
<1>3. QED
  BY <1>1, <1>2, LetGoInv

LEMMA RedeployInv == ASSUME QueueInv, Redeploy PROVE QueueInv'
<1>1. worker' \in [Workers -> Hands] /\ \A w \in Workers : worker'[w] = Down
  BY EmptyHanded DEF Redeploy
<1>2. TypeOK'
  <2>1. configured' \in BOOLEAN
    BY ZenonT(30) DEF Redeploy, QueueInv, TypeOK
  <2>2. redeploys' \in Nat
    BY DEF Redeploy, QueueInv, TypeOK
  <2>3. UNCHANGED <<record, job, deliveries, deleting, sent, accepted, cleared,
                    leaked, edits, crashes>>
    BY DEF Redeploy, rows, history
  <2>4. QED
    BY <1>1, <2>1, <2>2, <2>3 DEF QueueInv, TypeOK, Hands
<1>3. RowsOK' /\ SettledOK'
  BY DEF Redeploy, QueueInv, RowsOK, SettledOK, NeverReadyNeverSent, HasOutcome,
     Ready, Live, rows, history
<1>4. LockOK'
  BY <1>1 DEF LockOK, Down, Idle
<1>5. \A w \in Workers : HandOK(w)'
  BY <1>1, QueueAssumption DEF HandOK, Down, Idle, Working
<1>6. QED
  BY <1>2, <1>3, <1>4, <1>5 DEF QueueInv

LEMMA ReloadInv == ASSUME QueueInv, NEW w \in Workers, Reload(w) PROVE QueueInv'
<1> DEFINE me == worker[w]
           r == me.rec
           h == [pc |-> "reloaded", rec |-> r, attempt |-> job[r].attempt,
                 outcome |-> Verdict(w)]
<1>1. /\ me \in Hands /\ me.pc = "recorded" /\ r \in Records /\ r \in cleared
      /\ me.outcome \in {"ok", "failed"}
      /\ me.outcome = "ok" => r \in accepted
      /\ r \in Live => HasOutcome(r, me.outcome = "ok")
  BY DEF Reload, QueueInv, TypeOK, RowsOK, HandOK, Hands, Working
<1>2. CASE record[r].row # "live"
  BY <1>2, LetGoInv DEF Reload, QueueInv, TypeOK, bounds
<1>3. CASE record[r].row = "live"
  <2>1. /\ job[r].attempt \in 1..MaxAttempts
        /\ Verdict(w) \in {"done", "dead", "retry", "keep"}
        /\ Verdict(w) = "done" <=> me.outcome = "ok"
        /\ Verdict(w) = "retry" => job[r].attempt < MaxAttempts
    BY <1>1 DEF Verdict, VerdictUpTo, QueueInv, TypeOK
  <2>2. h \in Hands
    BY <1>1, <2>1 DEF Hands
  <2>3. worker' = [worker EXCEPT ![w] = h]
    BY <1>3 DEF Reload
  <2>4. worker'[w] = h
    BY <2>3 DEF QueueInv, TypeOK
  <2>5. UNCHANGED <<record, job, deliveries, cleared, accepted>>
    BY DEF Reload, rows, history
  <2>6. HandOK(w)'
    <3>1. r # NoRecord
      BY <1>1, QueueAssumption
    <3>2. Verdict(w) \in Terminal /\ r \in Live =>
            HasOutcome(r, Verdict(w) = "done")
      BY <1>1, <2>1 DEF Terminal
    <3>3. QED
      BY <1>1, <2>1, <2>4, <2>5, <3>1, <3>2 DEF HandOK, Working, HasOutcome, Live
  <2>7. /\ sent' \in [Records -> Nat] /\ sent' = sent
        /\ accepted' \subseteq Records /\ leaked' \subseteq Records
        /\ edits' \in Nat /\ crashes' \in Nat /\ redeploys' \in Nat
        /\ UNCHANGED <<rows, configured, cleared>>
    BY DEF Reload, QueueInv, TypeOK, history, bounds
  <2>8. QED
    BY <2>2, <2>3, <2>5, <2>6, <2>7, HandInv
<1>4. QED
  BY <1>2, <1>3

LEMMA AppendTyped ==
  ASSUME NEW T, NEW s \in Seq(T), NEW e \in T
  PROVE  Append(s, e) \in Seq(T)
  OBVIOUS

\* The audit row: the trail of one record grows by one entry, and every
\* outcome it had it still has.
LEMMA AuditedTrail ==
  ASSUME QueueInv, NEW w \in Workers, worker[w].pc = "posted"
  PROVE  LET r == worker[w].rec  IN
         /\ r \in Records /\ r \in Live /\ r \in cleared /\ r # NoRecord
         /\ Audited(w) \in [Records -> Seq([attempt : 1..MaxAttempts,
                                            success : BOOLEAN])]
         /\ \A q \in Records \ {r} : Audited(w)[q] = deliveries[q]
         /\ Audited(w)[r] = Append(deliveries[r],
                [attempt |-> worker[w].attempt,
                 success |-> worker[w].outcome = "ok"])
<1>1. /\ worker[w].rec \in Live /\ worker[w].rec \in cleared
      /\ worker[w].rec # NoRecord /\ worker[w].attempt \in 1..MaxAttempts
  BY QueueAssumption DEF QueueInv, HandOK, Working
<1>2. worker[w].rec \in Records
  BY <1>1 DEF Live
<1>3. [attempt |-> worker[w].attempt, success |-> worker[w].outcome = "ok"]
        \in [attempt : 1..MaxAttempts, success : BOOLEAN]
  BY <1>1
<1>4. deliveries \in [Records -> Seq([attempt : 1..MaxAttempts,
                                      success : BOOLEAN])]
  BY DEF QueueInv, TypeOK
<1>5. QED
  BY <1>1, <1>2, <1>3, <1>4, AppendTyped DEF Audited, AuditedAs

\* What the audit row of worker w changes in the invariant.
LEMMA AuditInv ==
  ASSUME QueueInv, NEW w \in Workers, worker[w].pc = "posted",
         deliveries' = Audited(w),
         worker' = [worker EXCEPT ![w].pc = "recorded"],
         deleting' \subseteq deleting,
         UNCHANGED <<record, job, configured, cleared, history, bounds>>
  PROVE  QueueInv'
<1>0. PICK r \in Records, ok \in BOOLEAN :
        r = worker[w].rec /\ ok = (worker[w].outcome = "ok")
  BY AuditedTrail
<1>1. /\ r \in Records /\ r \in Live /\ r \in cleared /\ r # NoRecord
      /\ deliveries' \in [Records -> Seq([attempt : 1..MaxAttempts,
                                          success : BOOLEAN])]
      /\ \A q \in Records \ {r} : deliveries'[q] = deliveries[q]
      /\ deliveries'[r] = Append(deliveries[r],
                [attempt |-> worker[w].attempt, success |-> ok])
  BY <1>0, AuditedTrail
<1>2. /\ HasOutcome(r, ok)'
      /\ \A s \in BOOLEAN : HasOutcome(r, s)' => s = ok \/ HasOutcome(r, s)
      /\ \A s \in BOOLEAN : HasOutcome(r, s) => HasOutcome(r, s)'
  <2>1. deliveries[r] \in Seq([attempt : 1..MaxAttempts, success : BOOLEAN])
    BY <1>1 DEF QueueInv, TypeOK
  <2>2. Len(deliveries'[r]) = Len(deliveries[r]) + 1 /\ Len(deliveries[r]) \in Nat
    BY <1>1, <2>1
  <2>3. /\ deliveries'[r][Len(deliveries[r]) + 1].success = ok
        /\ \A i \in 1..Len(deliveries[r]) : deliveries'[r][i] = deliveries[r][i]
    BY <1>1, <2>1
  <2>4. HasOutcome(r, ok)'
    BY <2>2, <2>3 DEF HasOutcome
  <2>5. ASSUME NEW s \in BOOLEAN, HasOutcome(r, s)'
        PROVE  s = ok \/ HasOutcome(r, s)
    <3>1. PICK i \in 1..Len(deliveries'[r]) : deliveries'[r][i].success = s
      BY <2>5 DEF HasOutcome
    <3>2. CASE i = Len(deliveries[r]) + 1
      BY <2>3, <3>1, <3>2
    <3>3. CASE i \in 1..Len(deliveries[r])
      BY <2>3, <3>1, <3>3 DEF HasOutcome
    <3>4. QED
      BY <2>2, <3>1, <3>2, <3>3
  <2>6. ASSUME NEW s \in BOOLEAN, HasOutcome(r, s)
        PROVE  HasOutcome(r, s)'
    <3>1. PICK i \in 1..Len(deliveries[r]) : deliveries[r][i].success = s
      BY <2>6 DEF HasOutcome
    <3>2. i \in 1..Len(deliveries'[r]) /\ deliveries'[r][i].success = s
      BY <2>2, <2>3, <3>1
    <3>3. QED
      BY <3>2 DEF HasOutcome
  <2>7. QED
    BY <2>4, <2>5, <2>6
<1>12. \A i \in 1..Len(deliveries[r]) :
         i \in 1..Len(deliveries'[r]) /\ deliveries'[r][i] = deliveries[r][i]
  BY <1>1 DEF QueueInv, TypeOK
<1>3. \A q \in Records \ {r} : \A s \in BOOLEAN : HasOutcome(q, s)' <=> HasOutcome(q, s)
  BY <1>1 DEF HasOutcome
<1>4. /\ worker[w] \in Hands /\ worker' \in [Workers -> Hands]
      /\ \A v \in Workers \ {w} : worker'[v] = worker[v]
      /\ worker'[w].pc = "recorded" /\ worker'[w].rec = r
      /\ worker'[w].attempt = worker[w].attempt
      /\ worker'[w].outcome = worker[w].outcome
  BY <1>0 DEF QueueInv, TypeOK, Hands
<1>5. HandOK(w) /\ ok \in BOOLEAN /\ (ok => r \in accepted)
  BY <1>0 DEF QueueInv, HandOK
<1>6. TypeOK'
  BY <1>1, <1>4 DEF QueueInv, TypeOK, Hands, history, bounds
<1>7. RowsOK'
  <2>1. \A q \in Records : record'[q].row # "live" =>
                            job'[q] = NoJob /\ deliveries'[q] = <<>>
    BY <1>1 DEF QueueInv, RowsOK, Live
  <2>2. NeverReadyNeverSent'
    BY <1>1 DEF QueueInv, RowsOK, NeverReadyNeverSent, history
  <2>3. QED
    BY <2>1, <2>2 DEF QueueInv, RowsOK, Ready, Live
<1>8. SettledOK'
  BY <1>2, <1>3, <1>5 DEF QueueInv, SettledOK, history
<1>9. LockOK'
  BY <1>4 DEF QueueInv, LockOK
<1>10. \A v \in Workers : HandOK(v)'
  <2>1. HandOK(w)'
    BY <1>0, <1>1, <1>2, <1>4, <1>5 DEF HandOK, Working, Live, history
  <2>2. ASSUME NEW v \in Workers \ {w} PROVE HandOK(v)'
    <3>1. HandOK(v) /\ worker'[v] = worker[v] /\ Live' = Live
      BY <1>4 DEF QueueInv, Live
    <3>2. \A q \in Live : \A i \in 1..Len(deliveries[q]) :
            i \in 1..Len(deliveries'[q]) /\ deliveries'[q][i] = deliveries[q][i]
      BY <1>1, <1>12 DEF Live
    <3>3. worker'[v].pc \in {"claimed", "posted"} =>
            worker'[v].rec \in Live' /\ job'[worker'[v].rec].status = "pending"
      BY <3>1 DEF HandOK
    <3>4. worker'[v].pc = "recorded" /\ worker'[v].rec \in Live' =>
            HasOutcome(worker[v].rec, worker[v].outcome = "ok")'
      BY <3>1, <3>2 DEF HandOK, HasOutcome
    <3>5. worker'[v].pc = "reloaded" /\ worker'[v].rec \in Live'
            /\ worker'[v].outcome \in Terminal =>
                HasOutcome(worker[v].rec, worker[v].outcome = "done")'
      BY <3>1, <3>2 DEF HandOK, HasOutcome
    <3>6. QED
      BY <3>1, <3>3, <3>4, <3>5 DEF HandOK, HasOutcome, history
  <2>3. QED
    BY <2>1, <2>2
<1>11. QED
  BY <1>6, <1>7, <1>8, <1>9, <1>10 DEF QueueInv

LEMMA RecordDeliveryInv ==
  ASSUME QueueInv, NEW w \in Workers, RecordDelivery(w) PROVE QueueInv'
  BY AuditInv DEF RecordDelivery

LEMMA DeadlockAbortsDeleteInv ==
  ASSUME QueueInv, NEW w \in Workers, DeadlockAbortsDelete(w) PROVE QueueInv'
  BY AuditInv DEF DeadlockAbortsDelete

LEMMA DeadlockAbortsWorkerInv ==
  ASSUME QueueInv, NEW w \in Workers, DeadlockAbortsWorker(w) PROVE QueueInv'
<1> DEFINE r == worker[w].rec
<1>1. r \in Live /\ Erase(r)
  BY DEF DeadlockAbortsWorker, QueueInv, RowsOK
<1>2. /\ worker'[w] = Down /\ worker[w].pc = "posted"
      /\ \A v \in Workers \ {w} : worker'[v] = worker[v]
      /\ DOMAIN worker' = Workers /\ worker' = [v \in Workers |-> worker'[v]]
  BY DEF DeadlockAbortsWorker, QueueInv, TypeOK
<1>3. \A v \in Workers : worker'[v] \in {worker[v], Down}
  BY <1>2
<1>4. worker' \in [Workers -> {worker[v] : v \in Workers} \cup {Down}]
  BY <1>2, <1>3
<1>5. \A v \in Workers : worker[v].rec = r /\ worker'[v] = worker[v] =>
                            worker[v].pc \notin {"claimed", "posted"}
  BY <1>2 DEF QueueInv, LockOK, Down, Idle
<1>6. QED
  BY <1>1, <1>3, <1>4, <1>5, EraseInv DEF DeadlockAbortsWorker

\* The second commit.
LEMMA SettleInv == ASSUME QueueInv, NEW w \in Workers, Settle(w) PROVE QueueInv'
<1>0. PICK r \in Records, me \in Hands : r = worker[w].rec /\ me = worker[w]
  BY DEF Settle, QueueInv, TypeOK, RowsOK, HandOK, Hands, Working
<1>1. /\ me.pc = "reloaded" /\ me.rec = r
      /\ me.attempt \in 1..MaxAttempts
      /\ me.outcome \in {"done", "dead", "retry", "keep"}
      /\ me.outcome = "retry" => me.attempt < MaxAttempts
      /\ r \in Live /\ me.outcome \in Terminal => HasOutcome(r, me.outcome = "done")
  BY <1>0 DEF Settle, QueueInv, HandOK, Working
<1>2. CASE job[r].status = "none" /\ me.outcome # "keep"
  <2>1. worker' = [worker EXCEPT ![w] = Down] /\ job' = job
    BY <1>0, <1>2 DEF Settle
  <2>2. UNCHANGED <<rows, configured, cleared, history, edits, redeploys>>
        /\ crashes' \in Nat
    BY <2>1 DEF Settle, rows, bounds, QueueInv, TypeOK
  <2>3. QED
    BY <2>1, <2>2, LetGoInv
<1>3. CASE me.outcome = "keep"
  <2>1. /\ worker' = [worker EXCEPT ![w] = Idle]
        /\ job' = [job EXCEPT ![r] = job[r]]
    BY <1>0, <1>3 DEF Settle, Settled, Terminal
  <2>2. job' = job
    BY <2>1 DEF QueueInv, TypeOK
  <2>3. UNCHANGED <<rows, configured, cleared, history, edits, redeploys>>
        /\ crashes' \in Nat
    BY <2>2 DEF Settle, rows, bounds, QueueInv, TypeOK
  <2>4. QED
    BY <2>1, <2>3, LetGoInv
<1>4. CASE job[r].status # "none" /\ me.outcome # "keep"
  <2>1. /\ worker' = [worker EXCEPT ![w] = Idle]
        /\ job' = [job EXCEPT ![r] = Settled(job[r], me.outcome, me.attempt)]
        /\ ~JobLocked(r)
        /\ UNCHANGED <<record, deliveries, deleting, configured, cleared,
                       history, bounds>>
    BY <1>0, <1>4 DEF Settle
  <2>2. job[r] \in [status : {"none", "pending"} \cup Terminal,
                    attempt : 1..MaxAttempts, due : BOOLEAN]
    BY DEF QueueInv, TypeOK
  <2> DEFINE j == Settled(job[r], me.outcome, me.attempt)
  <2>3. /\ j \in [status : {"none", "pending"} \cup Terminal,
                  attempt : 1..MaxAttempts, due : BOOLEAN]
        /\ me.outcome \in Terminal => j.status = me.outcome
        /\ me.outcome = "retry" => j.status = job[r].status
    <3>1. CASE me.outcome \in Terminal
      <4>1. j = [job[r] EXCEPT !.status = me.outcome] /\ me.outcome # "retry"
        BY <3>1 DEF Settled, Terminal
      <4>2. QED
        BY <2>2, <3>1, <4>1
    <3>2. CASE me.outcome = "retry"
      <4>1. me.attempt + 1 \in 1..MaxAttempts
        BY <1>1, <3>2, QueueAssumption
      <4>2. j = [status |-> job[r].status, attempt |-> me.attempt + 1,
                 due |-> FALSE]
        BY <3>2 DEF Settled, Rescheduled, Terminal
      <4>3. job[r].status \in {"none", "pending"} \cup Terminal
        BY <2>2
      <4>4. [status |-> job[r].status, attempt |-> me.attempt + 1, due |-> FALSE]
              \in [status : {"none", "pending"} \cup Terminal,
                   attempt : 1..MaxAttempts, due : BOOLEAN]
        BY <4>1, <4>3
      <4>5. me.outcome \notin Terminal
        BY <3>2 DEF Terminal
      <4>6. j.status = job[r].status
        BY <4>2
      <4>7. j \in [status : {"none", "pending"} \cup Terminal,
                   attempt : 1..MaxAttempts, due : BOOLEAN]
        BY <4>2, <4>4
      <4>8. QED
        BY <4>5, <4>6, <4>7
    <3>3. QED
      BY <1>1, <1>4, <3>1, <3>2 DEF Terminal
  <2>4. job'[r] = j /\ \A q \in Records \ {r} : job'[q] = job[q]
    BY <2>1, <2>3 DEF QueueInv, TypeOK
  <2>5. r \in Live /\ (me.outcome \in Terminal => HasOutcome(r, me.outcome = "done"))
    BY <1>1, <1>4 DEF QueueInv, RowsOK, Live, NoJob
  <2>6. worker' \in [Workers -> Hands] /\ worker'[w] = Idle
        /\ \A v \in Workers \ {w} : worker'[v] = worker[v]
    BY <2>1, EmptyHanded DEF QueueInv, TypeOK, Hands
  <2>7. TypeOK'
    <3>1. job' \in [Records -> [status : {"none", "pending"} \cup Terminal,
                                attempt : 1..MaxAttempts, due : BOOLEAN]]
      BY <2>1, <2>3 DEF QueueInv, TypeOK
    <3>2. QED
      BY <2>1, <2>6, <3>1 DEF QueueInv, TypeOK, Hands, history, bounds
  <2>8. RowsOK'
    <3>1. \A q \in Records : record'[q].row # "live" =>
                              job'[q] = NoJob /\ deliveries'[q] = <<>>
      BY <2>1, <2>4, <2>5 DEF QueueInv, RowsOK, Live
    <3>2. QED
      BY <2>1, <3>1 DEF QueueInv, RowsOK, Ready, Live, NeverReadyNeverSent, history
  <2>9. SettledOK'
    <3>1. /\ j.status = "done" => HasOutcome(r, TRUE)
          /\ j.status = "dead" => HasOutcome(r, FALSE)
      BY <1>1, <1>4, <2>3, <2>5 DEF QueueInv, SettledOK, Terminal
    <3>2. QED
      BY <2>1, <2>4, <3>1 DEF QueueInv, SettledOK, HasOutcome, history
  <2>10. LockOK'
    BY <2>6 DEF QueueInv, LockOK, Idle
  <2>11. \A v \in Workers : HandOK(v)'
    <3>1. HandOK(w)'
      BY <2>6, QueueAssumption DEF HandOK, Idle, Working
    <3>2. ASSUME NEW v \in Workers \ {w} PROVE HandOK(v)'
      <4>1. HandOK(v) /\ worker'[v] = worker[v] /\ Live' = Live
        BY <2>1, <2>6 DEF QueueInv, Live
      <4>2. worker[v].pc \in {"claimed", "posted"} =>
                job'[worker[v].rec] = job[worker[v].rec]
        BY <2>1, <2>4, <4>1 DEF JobLocked, HandOK, Live
      <4>3. QED
        BY <2>1, <4>1, <4>2 DEF HandOK, HasOutcome, history
    <3>3. QED
      BY <3>1, <3>2
  <2>12. QED
    BY <2>7, <2>8, <2>9, <2>10, <2>11 DEF QueueInv
<1>5. QED
  BY <1>2, <1>3, <1>4

-----------------------------------------------------------------------------
LEMMA NextInv == QueueInv /\ [Next]_vars => QueueInv'
<1> SUFFICES ASSUME QueueInv, [Next]_vars PROVE QueueInv'
  OBVIOUS
<1>1. ASSUME NEW r \in Records, Request(r) PROVE QueueInv'
  BY <1>1, IngestInv, PatchInv, ApproveInv, DeleteInv, DeleteResumesInv,
     BackoffElapsesInv DEF Request
<1>2. ASSUME UNCHANGED vars PROVE QueueInv'
  <2>1. TypeOK' /\ RowsOK' /\ SettledOK' /\ LockOK'
    BY <1>2 DEF vars, QueueInv, TypeOK, RowsOK, SettledOK, LockOK,
       NeverReadyNeverSent, HasOutcome, Ready, Live
  <2>2. \A w \in Workers : HandOK(w)'
    BY <1>2 DEF vars, QueueInv, HandOK, HasOutcome, Live
  <2>3. QED
    BY <2>1, <2>2 DEF QueueInv
<1>3. ASSUME NEW w \in Workers, WorkerStep(w) PROVE QueueInv'
  BY <1>2, <1>3, ClaimInv, PostInv, RecordDeliveryInv, DeadlockAbortsWorkerInv,
     DeadlockAbortsDeleteInv, ReloadInv, SettleInv, RestartInv
  DEF WorkerStep, Poll
<1>4. QED
  BY <1>1, <1>2, <1>3, ReviewMappingInv, CrashInv, RedeployInv DEF Next

\* Everything the worker processes and the requests of any number of
\* records do to the queue keeps the inductive invariant.
THEOREM InductiveInvariant == Spec => []QueueInv
<1>1. Init => QueueInv
  BY InitInv
<1>2. QueueInv /\ [Next]_vars => QueueInv'
  BY NextInv
<1>3. QED
  BY <1>1, <1>2, PTL DEF Spec

\* Every variable keeps its type; in particular no attempt number ever
\* exceeds webhook_max_attempts, whatever several workers do to one job.
THEOREM TypeCorrect == Spec => []TypeOK
<1>1. QueueInv => TypeOK
  BY DEF QueueInv
<1>2. QED
  BY <1>1, InductiveInvariant, PTL

\* "done" is backed by a successful audit row and a receiver that took the
\* notification, although status and row are written in two transactions
\* and the job row is unlocked between them.
THEOREM Delivered == Spec => []DoneMeansDelivered
<1>1. QueueInv => DoneMeansDelivered
  BY DEF QueueInv, SettledOK, DoneMeansDelivered, HasSuccess, HasOutcome
<1>2. QED
  BY <1>1, InductiveInvariant, PTL

\* No record that was flagged from the start and never approved is ever
\* sent, whichever order reviews, claims and restarts come in.
THEOREM GateRespected == Spec => []NeverReadyNeverSent
<1>1. QueueInv => NeverReadyNeverSent
  BY DEF QueueInv, RowsOK
<1>2. QED
  BY <1>1, InductiveInvariant, PTL

-----------------------------------------------------------------------------
(* The audit account: every POST about a live record is in its trail, in   *)
(* flight, or was lost with the process that made it.                      *)

\* Workers whose POST about r is out and not yet audited.
Posting(r) == {w \in Workers : worker[w].rec = r /\ worker[w].pc = "posted"}

LEMMA WorkersFinite ==
  ASSUME NEW S \in SUBSET Workers
  PROVE  /\ IsFiniteSet(S) /\ Cardinality(S) \in Nat
         /\ Cardinality(Workers) \in Nat
         /\ Cardinality(S) <= Cardinality(Workers)
<1>1. IsFiniteSet(Workers)
  BY QueueAssumption
<1>2. IsFiniteSet(S) /\ Cardinality(S) <= Cardinality(Workers)
  BY <1>1, FS_Subset
<1>3. QED
  BY <1>1, <1>2, FS_CardinalityType

LEMMA InFlightCounts ==
  ASSUME NEW r
  PROVE  /\ InFlight(r) = Cardinality(Posting(r))
         /\ InFlight(r)' = Cardinality(Posting(r)')
         /\ InFlight(r) \in Nat /\ InFlight(r)' \in Nat
<1>1. InFlight(r) = Cardinality(Posting(r))
  BY DEF InFlight, Posting
<1>2. InFlight(r)' = Cardinality(Posting(r)')
  BY DEF InFlight, Posting
<1>3. Posting(r) \in SUBSET Workers /\ Posting(r)' \in SUBSET Workers
  BY DEF Posting
<1>4. QED
  BY <1>1, <1>2, <1>3, WorkersFinite

\* One worker moves: the count of r moves with it.
LEMMA InFlightMoves ==
  ASSUME NEW w \in Workers, NEW r,
         \A v \in Workers \ {w} : v \in Posting(r)' <=> v \in Posting(r)
  PROVE  /\ (w \in Posting(r) <=> w \in Posting(r)') => InFlight(r)' = InFlight(r)
         /\ w \notin Posting(r) /\ w \in Posting(r)' =>
                InFlight(r)' = InFlight(r) + 1
         /\ w \in Posting(r) /\ w \notin Posting(r)' =>
                InFlight(r) = InFlight(r)' + 1
<1>1. /\ InFlight(r) = Cardinality(Posting(r))
      /\ InFlight(r)' = Cardinality(Posting(r)')
  BY InFlightCounts
<1>2. Posting(r) \in SUBSET Workers /\ Posting(r)' \in SUBSET Workers
  BY DEF Posting
<1>3. IsFiniteSet(Posting(r)) /\ IsFiniteSet(Posting(r)')
  BY <1>2, WorkersFinite
<1>4. CASE w \in Posting(r) <=> w \in Posting(r)'
  <2>1. Posting(r)' = Posting(r)
    BY <1>2, <1>4
  <2>2. QED
    BY <1>1, <1>4, <2>1
<1>5. CASE w \notin Posting(r) /\ w \in Posting(r)'
  <2>1. Posting(r)' = Posting(r) \cup {w}
    BY <1>2, <1>5
  <2>2. Cardinality(Posting(r) \cup {w}) = Cardinality(Posting(r)) + 1
    BY <1>3, <1>5, FS_AddElement
  <2>3. QED
    BY <1>1, <1>5, <2>1, <2>2
<1>6. CASE w \in Posting(r) /\ w \notin Posting(r)'
  <2>1. Posting(r) = Posting(r)' \cup {w}
    BY <1>2, <1>6
  <2>2. Cardinality(Posting(r)' \cup {w}) = Cardinality(Posting(r)') + 1
    BY <1>3, <1>6, FS_AddElement
  <2>3. QED
    BY <1>1, <1>6, <2>1, <2>2
<1>7. QED
  BY <1>4, <1>5, <1>6

\* The account of one record.
Accounted(r) == /\ Len(deliveries[r]) + InFlight(r) <= sent[r]
                /\ sent[r] <= Len(deliveries[r]) + InFlight(r) + Deaths

LEMMA EveryPostAccounted == EveryPostAudited <=> \A r \in Live : Accounted(r)
  BY DEF EveryPostAudited, Accounted

LEMMA AccountTyped ==
  ASSUME QueueInv, NEW r \in Records
  PROVE  Len(deliveries[r]) \in Nat /\ sent[r] \in Nat /\ Deaths \in Nat
<1>1. deliveries[r] \in Seq([attempt : 1..MaxAttempts, success : BOOLEAN])
      /\ sent[r] \in Nat /\ crashes \in Nat /\ redeploys \in Nat
  BY DEF QueueInv, TypeOK
<1>2. Cardinality(Workers) \in Nat
  BY WorkersFinite
<1>3. QED
  BY <1>1, <1>2 DEF Deaths

LEMMA AccountKept ==
  ASSUME NEW r, Accounted(r), UNCHANGED <<crashes, redeploys>>,
         deliveries'[r] = deliveries[r], sent'[r] = sent[r],
         InFlight(r)' = InFlight(r)
  PROVE  Accounted(r)'
  BY DEF Accounted, Deaths

\* A record that was not stored yet owes no account.
LEMMA NewAccount ==
  ASSUME QueueInv, NEW r \in Records, record[r].row = "new"
  PROVE  sent[r] = 0 /\ deliveries[r] = <<>> /\ InFlight(r) = 0
<1>1. r \notin cleared
  BY DEF QueueInv, RowsOK
<1>2. Posting(r) = {}
  BY <1>1 DEF Posting, QueueInv, HandOK, Working
<1>3. QED
  BY <1>1, <1>2, InFlightCounts, FS_EmptySet DEF QueueInv, RowsOK, NeverReadyNeverSent

LEMMA IngestAccounts ==
  ASSUME QueueInv, EveryPostAudited, NEW r \in Records, Ingest(r)
  PROVE  EveryPostAudited'
<1>1. Live' = Live \cup {r} /\ record[r].row = "new"
  BY DEF Ingest, Live, QueueInv, TypeOK
<1>2. UNCHANGED <<deliveries, worker, sent, crashes, redeploys>>
  BY DEF Ingest, history, bounds
<1>3. \A q \in Records : InFlight(q)' = InFlight(q)
  BY <1>2 DEF InFlight
<1>4. \A q \in Live : Accounted(q)'
  BY <1>2, <1>3, EveryPostAccounted, AccountKept DEF Live
<1>5. Accounted(r)'
  <2>1. sent[r] = 0 /\ deliveries[r] = <<>> /\ InFlight(r) = 0
    BY <1>1, NewAccount
  <2>2. Len(deliveries[r]) = 0 /\ Deaths \in Nat
    BY <2>1, AccountTyped
  <2>3. Deaths' = Deaths
    BY <1>2 DEF Deaths
  <2>4. QED
    BY <1>2, <1>3, <2>1, <2>2, <2>3 DEF Accounted
<1>6. QED
  BY <1>1, <1>4, <1>5 DEF EveryPostAudited, Accounted

\* A step that moves nobody in or out of "posted" and writes no trail.
LEMMA QuietAccounts ==
  ASSUME EveryPostAudited, Live' \subseteq Live,
         UNCHANGED <<sent, crashes, redeploys>>,
         \A r \in Live' : deliveries'[r] = deliveries[r] /\ Posting(r)' = Posting(r)
  PROVE  EveryPostAudited'
<1>1. ASSUME NEW r \in Live' PROVE Accounted(r)'
  <2>1. Accounted(r)
    BY EveryPostAccounted
  <2>2. InFlight(r)' = InFlight(r)
    BY InFlightCounts
  <2>3. QED
    BY <2>1, <2>2, AccountKept
<1>2. QED
  BY <1>1 DEF EveryPostAudited, Accounted

\* Worker w puts h in hand, neither before nor after with a POST out.
LEMMA UnpostedMove ==
  ASSUME QueueInv, NEW w \in Workers, NEW h, NEW r,
         worker' = [worker EXCEPT ![w] = h],
         worker[w].pc # "posted", h.pc # "posted"
  PROVE  Posting(r)' = Posting(r)
<1>1. worker'[w] = h /\ \A v \in Workers \ {w} : worker'[v] = worker[v]
  BY DEF QueueInv, TypeOK
<1>2. QED
  BY <1>1 DEF Posting

LEMMA EraseAccounts ==
  ASSUME QueueInv, EveryPostAudited, NEW r \in Live, Erase(r),
         \A w \in Workers : worker'[w] = worker[w]
                            \/ (worker[w].rec = r /\ worker'[w] = Down),
         UNCHANGED <<history, bounds>>
  PROVE  EveryPostAudited'
<1>1. r \in Records /\ Live' = Live \ {r}
  BY DEF Erase, Live, QueueInv, TypeOK
<1>2. \A q \in Live' : deliveries'[q] = deliveries[q]
  BY <1>1 DEF Erase, QueueInv, TypeOK, Live
<1>3. \A q \in Live' : Posting(q)' = Posting(q)
  <2>1. SUFFICES ASSUME NEW q \in Live', NEW w \in Workers
                 PROVE  w \in Posting(q)' <=> w \in Posting(q)
    BY DEF Posting
  <2>2. q # r /\ q \in Records
    BY <1>1 DEF Live
  <2>3. CASE worker'[w] = worker[w]
    BY <2>3 DEF Posting
  <2>4. CASE worker[w].rec = r /\ worker'[w] = Down
    BY <2>2, <2>4 DEF Posting, Down, Idle
  <2>5. QED
    BY <2>3, <2>4
<1>4. QED
  BY <1>1, <1>2, <1>3, QuietAccounts DEF history, bounds

LEMMA RequestAccounts ==
  ASSUME QueueInv, EveryPostAudited, NEW r \in Records, Request(r)
  PROVE  EveryPostAudited'
<1>1. CASE Patch(r) \/ Approve(r) \/ BackoffElapses(r)
  <2>1. UNCHANGED <<deliveries, worker, sent, crashes, redeploys>>
    BY <1>1 DEF Patch, Approve, BackoffElapses, history, bounds
  <2>2. Live' = Live
    <3>1. CASE Patch(r)
      BY <3>1, PatchRows DEF Live
    <3>2. CASE Approve(r)
      BY <3>2 DEF Approve, Live, QueueInv, TypeOK
    <3>3. CASE BackoffElapses(r)
      BY <3>3 DEF BackoffElapses, Live
    <3>4. QED
      BY <1>1, <3>1, <3>2, <3>3
  <2>3. QED
    BY <2>1, <2>2, QuietAccounts DEF Posting
<1>2. CASE Delete(r) \/ DeleteResumes(r)
  <2>1. worker' = worker /\ UNCHANGED <<history, bounds>>
    BY <1>2 DEF Delete, DeleteResumes
  <2>2. CASE Erase(r)
    <3>1. r \in Live
      BY <1>2 DEF Delete, DeleteResumes, Writable, QueueInv, RowsOK
    <3>2. QED
      BY <2>1, <2>2, <3>1, EraseAccounts
  <2>3. CASE UNCHANGED <<record, job, deliveries>>
    BY <2>1, <2>3, QuietAccounts DEF Posting, Live, history, bounds
  <2>4. QED
    BY <1>2, <2>2, <2>3 DEF Delete, DeleteResumes
<1>3. QED
  BY <1>1, <1>2, IngestAccounts DEF Request

LEMMA ReviewMappingAccounts ==
  ASSUME QueueInv, EveryPostAudited, NEW run \in SUBSET Records,
         ReviewMapping(run)
  PROVE  EveryPostAudited'
<1>1. Live' = Live
  BY DEF ReviewMapping, Live, QueueInv, TypeOK
<1>2. UNCHANGED <<deliveries, worker, sent, crashes, redeploys>>
  BY DEF ReviewMapping, history
<1>3. QED
  BY <1>1, <1>2, QuietAccounts DEF Posting

\* The POST goes out: one more sent, one more in flight.
LEMMA PostAccounts ==
  ASSUME QueueInv, EveryPostAudited, NEW w \in Workers, Post(w)
  PROVE  EveryPostAudited'
<1>1. PICK r \in Records : r = worker[w].rec /\ r \in Live
  BY DEF Post, MayPost, QueueInv, HandOK, Live
<1>2. PICK reply \in {"ok", "failed"} :
        worker' = [worker EXCEPT ![w].pc = "posted", ![w].outcome = reply]
  BY DEF Post
<1>3. /\ worker[w].pc = "claimed"
      /\ worker'[w].pc = "posted" /\ worker'[w].rec = r
      /\ \A v \in Workers \ {w} : worker'[v] = worker[v]
  BY <1>1, <1>2 DEF Post, MayPost, QueueInv, TypeOK
<1>4. /\ sent'[r] = sent[r] + 1
      /\ \A q \in Records \ {r} : sent'[q] = sent[q]
      /\ UNCHANGED <<record, deliveries, crashes, redeploys>>
  BY <1>1 DEF Post, QueueInv, TypeOK, rows, bounds
<1>5. \A q \in Records : \A v \in Workers \ {w} :
        v \in Posting(q)' <=> v \in Posting(q)
  BY <1>3 DEF Posting
<1>6. /\ w \notin Posting(r) /\ w \in Posting(r)'
      /\ \A q \in Records \ {r} : w \notin Posting(q) /\ w \notin Posting(q)'
  BY <1>1, <1>3 DEF Posting
<1>7. ASSUME NEW q \in Live' PROVE Accounted(q)'
  <2>1. q \in Records /\ q \in Live /\ Accounted(q)
    BY <1>4, EveryPostAccounted DEF Live
  <2>2. CASE q # r
    <3>1. InFlight(q)' = InFlight(q)
      BY <1>5, <1>6, <2>1, <2>2, InFlightMoves
    <3>2. QED
      BY <1>4, <2>1, <2>2, <3>1, AccountKept
  <2>3. CASE q = r
    <3>1. InFlight(r)' = InFlight(r) + 1 /\ InFlight(r) \in Nat
      BY <1>5, <1>6, InFlightMoves, InFlightCounts
    <3>2. Len(deliveries[r]) \in Nat /\ sent[r] \in Nat /\ Deaths \in Nat
      BY AccountTyped
    <3>3. Deaths' = Deaths
      BY <1>4 DEF Deaths
    <3>4. QED
      BY <1>4, <2>1, <2>3, <3>1, <3>2, <3>3 DEF Accounted
  <2>4. QED
    BY <2>2, <2>3
<1>8. QED
  BY <1>7 DEF EveryPostAudited, Accounted

\* The audit row: one more in the trail, one fewer in flight.
LEMMA AuditAccounts ==
  ASSUME QueueInv, EveryPostAudited, NEW w \in Workers,
         worker[w].pc = "posted", deliveries' = Audited(w),
         worker' = [worker EXCEPT ![w].pc = "recorded"],
         UNCHANGED <<record, history, bounds>>
  PROVE  EveryPostAudited'
<1>1. PICK r \in Records : r = worker[w].rec
  BY AuditedTrail
<1>2. /\ \A q \in Records \ {r} : deliveries'[q] = deliveries[q]
      /\ Len(deliveries'[r]) = Len(deliveries[r]) + 1
  <2>1. deliveries[r] \in Seq([attempt : 1..MaxAttempts, success : BOOLEAN])
    BY DEF QueueInv, TypeOK
  <2>2. \A q \in Records \ {r} : deliveries'[q] = deliveries[q]
    BY <1>1, AuditedTrail
  <2>3. PICK e : deliveries'[r] = Append(deliveries[r], e)
    BY <1>1, AuditedTrail
  <2>4. Len(deliveries'[r]) = Len(deliveries[r]) + 1
    BY <2>1, <2>3
  <2>5. QED
    BY <2>2, <2>4
<1>3. /\ worker'[w].pc = "recorded" /\ worker[w].rec = r
      /\ \A v \in Workers \ {w} : worker'[v] = worker[v]
  BY <1>1 DEF QueueInv, TypeOK
<1>4. UNCHANGED <<sent, crashes, redeploys>> /\ Live' = Live
  BY DEF history, bounds, Live
<1>5. \A q \in Records : \A v \in Workers \ {w} :
        v \in Posting(q)' <=> v \in Posting(q)
  BY <1>3 DEF Posting
<1>6. /\ w \in Posting(r) /\ w \notin Posting(r)'
      /\ \A q \in Records \ {r} : w \notin Posting(q) /\ w \notin Posting(q)'
  BY <1>3 DEF Posting
<1>7. ASSUME NEW q \in Live' PROVE Accounted(q)'
  <2>1. q \in Records /\ q \in Live /\ Accounted(q)
    BY <1>4, EveryPostAccounted DEF Live
  <2>2. CASE q # r
    <3>1. InFlight(q)' = InFlight(q)
      BY <1>5, <1>6, <2>1, <2>2, InFlightMoves
    <3>2. QED
      BY <1>2, <1>4, <2>1, <2>2, <3>1, AccountKept
  <2>3. CASE q = r
    <3>1. InFlight(r) = InFlight(r)' + 1 /\ InFlight(r)' \in Nat
      BY <1>5, <1>6, InFlightMoves, InFlightCounts
    <3>2. Len(deliveries[r]) \in Nat /\ sent[r] \in Nat /\ Deaths \in Nat
      BY AccountTyped
    <3>3. Deaths' = Deaths
      BY <1>4 DEF Deaths
    <3>4. QED
      BY <1>2, <1>4, <2>1, <2>3, <3>1, <3>2, <3>3 DEF Accounted
  <2>4. QED
    BY <2>2, <2>3
<1>8. QED
  BY <1>7 DEF EveryPostAudited, Accounted

LEMMA CrashDeaths ==
  ASSUME QueueInv, NEW w \in Workers, Crash(w) PROVE Deaths' = Deaths + 1
<1>1. crashes' = crashes + 1 /\ redeploys' = redeploys
  BY DEF Crash
<1>2. crashes \in Nat /\ redeploys \in Nat /\ Cardinality(Workers) \in Nat
  BY WorkersFinite DEF QueueInv, TypeOK
<1>3. PICK lost \in Nat : lost = redeploys * Cardinality(Workers)
  BY <1>2
<1>4. Deaths = crashes + lost /\ Deaths' = crashes' + lost
  BY <1>1, <1>3 DEF Deaths
<1>5. QED
  BY <1>1, <1>2, <1>3, <1>4

LEMMA RedeployDeaths ==
  ASSUME QueueInv, Redeploy PROVE Deaths' = Deaths + Cardinality(Workers)
<1>1. redeploys' = redeploys + 1 /\ crashes' = crashes
  BY DEF Redeploy
<1>2. PICK n \in Nat : n = Cardinality(Workers)
  BY WorkersFinite
<1>3. crashes \in Nat /\ redeploys \in Nat
  BY DEF QueueInv, TypeOK
<1>4. (redeploys + 1) * n = redeploys * n + n
  BY <1>2, <1>3
<1>5. redeploys * n \in Nat
  BY <1>2, <1>3
<1>6. Deaths' = crashes + (redeploys + 1) * n
  BY <1>1, <1>2 DEF Deaths
<1>7. Deaths = crashes + redeploys * n
  BY <1>2 DEF Deaths
<1>8. QED
  BY <1>2, <1>3, <1>4, <1>5, <1>6, <1>7

\* What a death loses is counted: at most one POST of the process.
LEMMA CrashAccounts ==
  ASSUME QueueInv, EveryPostAudited, NEW w \in Workers, Crash(w)
  PROVE  EveryPostAudited'
<1>1. /\ worker'[w] = Down /\ Down.pc = "down"
      /\ \A v \in Workers \ {w} : worker'[v] = worker[v]
      /\ crashes' = crashes + 1
      /\ UNCHANGED <<record, deliveries, sent, redeploys>>
  BY DEF Crash, QueueInv, TypeOK, rows, history, Down, Idle
<1>2. Deaths' = Deaths + 1
  BY CrashDeaths
<1>3. ASSUME NEW q \in Live' PROVE Accounted(q)'
  <2>1. q \in Records /\ q \in Live /\ Accounted(q)
    BY <1>1, EveryPostAccounted DEF Live
  <2>2. \A v \in Workers \ {w} : v \in Posting(q)' <=> v \in Posting(q)
    BY <1>1 DEF Posting
  <2>3. w \notin Posting(q)'
    BY <1>1 DEF Posting
  <2>4. InFlight(q) = InFlight(q)' \/ InFlight(q) = InFlight(q)' + 1
    BY <2>2, <2>3, InFlightMoves
  <2>5. InFlight(q) \in Nat /\ InFlight(q)' \in Nat /\ Deaths \in Nat
        /\ Len(deliveries[q]) \in Nat /\ sent[q] \in Nat
    BY <2>1, InFlightCounts, AccountTyped
  <2>6. QED
    BY <1>1, <1>2, <2>1, <2>4, <2>5 DEF Accounted
<1>4. QED
  BY <1>3 DEF EveryPostAudited, Accounted

\* A redeploy loses at most one POST of each process it replaces.
LEMMA RedeployAccounts ==
  ASSUME QueueInv, EveryPostAudited, Redeploy PROVE EveryPostAudited'
<1>1. /\ \A w \in Workers : worker'[w].pc = "down"
      /\ redeploys' = redeploys + 1
      /\ UNCHANGED <<record, deliveries, sent, crashes>>
  BY DEF Redeploy, rows, history, Down, Idle
<1>2. PICK n \in Nat : n = Cardinality(Workers)
  BY WorkersFinite
<1>3. Deaths' = Deaths + n
  BY <1>2, RedeployDeaths
<1>4. ASSUME NEW q \in Live' PROVE Accounted(q)'
  <2>1. q \in Records /\ q \in Live /\ Accounted(q)
    BY <1>1, EveryPostAccounted DEF Live
  <2>2. Posting(q)' = {} /\ Posting(q) \in SUBSET Workers
    BY <1>1 DEF Posting
  <2>3. InFlight(q)' = 0 /\ InFlight(q) <= n
    BY <1>2, <2>2, InFlightCounts, WorkersFinite, FS_EmptySet
  <2>4. InFlight(q) \in Nat /\ Deaths \in Nat
        /\ Len(deliveries[q]) \in Nat /\ sent[q] \in Nat
    BY <2>1, InFlightCounts, AccountTyped
  <2>5. QED
    BY <1>1, <1>2, <1>3, <2>1, <2>3, <2>4 DEF Accounted
<1>5. QED
  BY <1>4 DEF EveryPostAudited, Accounted

LEMMA WorkerAccounts ==
  ASSUME QueueInv, EveryPostAudited, NEW w \in Workers, WorkerStep(w)
  PROVE  EveryPostAudited'
<1>1. CASE (\E r \in Records : Claim(w, r)) \/ Reload(w) \/ Settle(w) \/ Restart(w)
  <2>1. PICK h : /\ worker' = [worker EXCEPT ![w] = h]
                 /\ worker[w].pc # "posted" /\ h.pc # "posted"
    <3>1. CASE \E r \in Records : Claim(w, r)
      BY <3>1 DEF Claim
    <3>2. CASE Reload(w)
      <4>1. PICK h : /\ worker' = [worker EXCEPT ![w] = h]
                     /\ h = IF record[worker[w].rec].row = "live"
                            THEN [pc |-> "reloaded", rec |-> worker[w].rec,
                                  attempt |-> job[worker[w].rec].attempt,
                                  outcome |-> Verdict(w)]
                            ELSE Down
        BY <3>2 DEF Reload
      <4>2. h.pc # "posted" /\ worker[w].pc # "posted"
        BY <3>2, <4>1 DEF Reload, Down, Idle
      <4>3. QED
        BY <4>1, <4>2
    <3>3. CASE Settle(w) \/ Restart(w)
      BY <3>3 DEF Settle, Restart, Down, Idle
    <3>4. QED
      BY <1>1, <3>1, <3>2, <3>3
  <2>2. UNCHANGED <<record, deliveries, sent, crashes, redeploys>>
    BY <1>1 DEF Claim, Reload, Settle, Restart, rows, history, bounds
  <2>3. \A r \in Records : Posting(r)' = Posting(r)
    BY <2>1, UnpostedMove
  <2>4. QED
    BY <2>2, <2>3, QuietAccounts DEF Live
<1>2. CASE RecordDelivery(w) \/ DeadlockAbortsDelete(w)
  BY <1>2, AuditAccounts DEF RecordDelivery, DeadlockAbortsDelete
<1>3. CASE DeadlockAbortsWorker(w)
  <2>1. worker[w].rec \in Live /\ Erase(worker[w].rec)
    BY <1>3 DEF DeadlockAbortsWorker, QueueInv, RowsOK
  <2>2. \A v \in Workers : worker'[v] = worker[v]
                           \/ (worker[v].rec = worker[w].rec /\ worker'[v] = Down)
    BY <1>3 DEF DeadlockAbortsWorker, QueueInv, TypeOK
  <2>3. QED
    BY <1>3, <2>1, <2>2, EraseAccounts DEF DeadlockAbortsWorker
<1>4. CASE Poll(w)
  BY <1>4, QuietAccounts DEF Poll, vars, Live, Posting
<1>5. QED
  BY <1>1, <1>2, <1>3, <1>4, PostAccounts DEF WorkerStep

\* Every POST about a live record has its row in webhook_deliveries, is about
\* to get it, or was made by a process that died before its commit
\* (WebhookDelivery's docstring; deliver_attempt).
THEOREM PostsAudited == Spec => []EveryPostAudited
<1>1. Init => EveryPostAudited
  BY DEF Init, EveryPostAudited, Live
<1>2. QueueInv /\ EveryPostAudited /\ [Next]_vars => EveryPostAudited'
  <2>1. SUFFICES ASSUME QueueInv, EveryPostAudited, [Next]_vars
                 PROVE  EveryPostAudited'
    OBVIOUS
  <2>2. CASE UNCHANGED vars
    BY <2>1, <2>2, QuietAccounts DEF vars, Live, Posting
  <2>3. QED
    BY <2>1, <2>2, RequestAccounts, ReviewMappingAccounts, WorkerAccounts,
       CrashAccounts, RedeployAccounts DEF Next
<1>3. QED
  BY <1>1, <1>2, InductiveInvariant, PTL DEF Spec

-----------------------------------------------------------------------------
(* The refinement: the mapping                                             *)

LEMMA LogIsSequence ==
  ASSUME QueueInv, NEW r \in Records
  PROVE  /\ logOf[r] \in Seq(BOOLEAN)
         /\ Len(logOf[r]) = Len(deliveries[r])
         /\ \A i \in 1..Len(deliveries[r]) : logOf[r][i] = deliveries[r][i].success
<1>1. deliveries[r] \in Seq([attempt : 1..MaxAttempts, success : BOOLEAN])
  BY DEF QueueInv, TypeOK
<1>2. Len(deliveries[r]) \in Nat /\ \A i \in 1..Len(deliveries[r]) :
                                        deliveries[r][i].success \in BOOLEAN
  <2>1. \A i \in 1..Len(deliveries[r]) :
            deliveries[r][i] \in [attempt : 1..MaxAttempts, success : BOOLEAN]
    BY <1>1, ElementOfSeq
  <2>2. Len(deliveries[r]) \in Nat
    BY <1>1, LenProperties
  <2>3. QED
    BY <2>1, <2>2
<1>3. logOf[r] = [i \in 1..Len(deliveries[r]) |-> deliveries[r][i].success]
  BY DEF logOf
<1>4. QED
  BY <1>2, <1>3, IsASeq

LEMMA EmptyLog ==
  ASSUME QueueInv, NEW r \in Records, deliveries[r] = <<>>
  PROVE  logOf[r] = <<>>
<1>1. logOf[r] \in Seq(BOOLEAN) /\ Len(logOf[r]) = 0
  BY LogIsSequence
<1>2. QED
  BY <1>1, EmptySeq

\* Only r moves.
LEMMA OneStage ==
  ASSUME NEW r \in Records,
         \A q \in Records \ {r} : /\ record'[q].row = record[q].row
                                  /\ job'[q].status = job[q].status
  PROVE  stageOf' = [stageOf EXCEPT ![r] = stageOf'[r]]
  BY DEF stageOf

LEMMA SameStage ==
  ASSUME \A q \in Records : /\ record'[q].row = record[q].row
                            /\ job'[q].status = job[q].status
  PROVE  stageOf' = stageOf
  BY DEF stageOf

LEMMA OneLog ==
  ASSUME NEW r \in Records,
         \A q \in Records \ {r} : deliveries'[q] = deliveries[q]
  PROVE  logOf' = [logOf EXCEPT ![r] = logOf'[r]]
  BY DEF logOf

-----------------------------------------------------------------------------
LEMMA InitMaps == Init => Promise!Init
<1> SUFFICES ASSUME Init PROVE Promise!Init
  OBVIOUS
<1>1. QueueInv
  BY InitInv
<1>2. stageOf = [r \in Records |-> "absent"]
  BY DEF Init, stageOf
<1>3. \A r \in Records : logOf[r] = <<>>
  BY <1>1, EmptyLog DEF Init
<1>4. logOf = [r \in Records |-> <<>>]
  BY <1>3 DEF logOf
<1>5. QED
  BY <1>2, <1>4 DEF Init, Promise!Init

LEMMA IngestMaps ==
  ASSUME QueueInv, NEW r \in Records, Ingest(r) PROVE Promise!Register(r)
<1>1. stageOf[r] = "absent"
  BY DEF Ingest, stageOf
<1>2. /\ \A q \in Records \ {r} : record'[q] = record[q] /\ job'[q] = job[q]
      /\ record'[r].row = "live" /\ job'[r].status \in {"pending", "none"}
  BY DEF Ingest, QueueInv, TypeOK, RowsOK, NoJob
<1>3. stageOf' = [stageOf EXCEPT ![r] = stageOf'[r]]
  BY <1>2, OneStage
<1>4. stageOf'[r] \in {"pending", "none"}
  BY <1>2 DEF stageOf
<1>5. cleared' \in {cleared, cleared \cup {r}}
  <2>1. \A q \in Records \ {r} : Ready(q)' => q \in cleared
    BY <1>2 DEF Ready, QueueInv, RowsOK
  <2>2. CASE Ready(r)'
    BY <2>1, <2>2 DEF Ingest, RememberCleared, Ready
  <2>3. CASE ~Ready(r)'
    BY <2>1, <2>3 DEF Ingest, RememberCleared, Ready
  <2>4. QED
    BY <2>2, <2>3
<1>6. logOf' = logOf
  BY DEF Ingest, logOf
<1>7. QED
  BY <1>1, <1>3, <1>4, <1>5, <1>6 DEF Promise!Register

\* A review changes no stage and no log; what it lets past the gate is live.
LEMMA ReviewMaps ==
  ASSUME QueueInv, QueueInv', RememberCleared,
         \A r \in Records : record'[r].row = record[r].row,
         UNCHANGED <<job, deliveries>>
  PROVE  \E rs \in SUBSET Records : Promise!Clear(rs)
<1> DEFINE passed == {r \in Records : Ready(r)'}
<1>1. stageOf' = stageOf /\ logOf' = logOf
  BY SameStage DEF logOf
<1>2. \A r \in passed : stageOf[r] \notin {"absent", "erased"}
  <2>1. \A r \in passed : record[r].row = "live"
    BY DEF Ready
  <2>2. \A r \in Records : job[r].status \notin {"absent", "erased"}
    BY DEF QueueInv, TypeOK, Terminal
  <2>3. QED
    BY <2>1, <2>2 DEF stageOf
<1>3. cleared' = cleared \cup passed
  BY DEF RememberCleared
<1>4. Promise!Clear(passed)
  BY <1>1, <1>2, <1>3 DEF Promise!Clear
<1>5. QED
  BY <1>4

LEMMA EraseMaps ==
  ASSUME QueueInv, QueueInv', NEW r \in Live, Erase(r), cleared' = cleared
  PROVE  r \in Records /\ Promise!Erase(r)
<1>1. r \in Records /\ record[r].row = "live"
  BY DEF Live
<1>2. stageOf[r] # "absent"
  <2>1. job[r].status # "absent"
    BY <1>1 DEF QueueInv, TypeOK, Terminal
  <2>2. QED
    BY <1>1, <2>1 DEF stageOf
<1>3. /\ \A q \in Records \ {r} : /\ record'[q] = record[q] /\ job'[q] = job[q]
                                  /\ deliveries'[q] = deliveries[q]
      /\ record'[r].row = "erased" /\ deliveries'[r] = <<>>
  BY <1>1 DEF Erase, QueueInv, TypeOK
<1>4. stageOf' = [stageOf EXCEPT ![r] = "erased"]
  <2>1. stageOf'[r] = "erased"
    BY <1>1, <1>3 DEF stageOf
  <2>2. stageOf' = [stageOf EXCEPT ![r] = stageOf'[r]]
    BY <1>1, <1>3, OneStage
  <2>3. QED
    BY <2>1, <2>2
<1>5. logOf' = [logOf EXCEPT ![r] = <<>>]
  <2>1. logOf'[r] = <<>>
    <3>1. logOf'[r] = [i \in 1..Len(deliveries'[r]) |-> deliveries'[r][i].success]
      BY <1>1 DEF logOf
    <3>2. logOf'[r] \in Seq(BOOLEAN) /\ Len(logOf'[r]) = 0
      BY <1>3, <3>1, EmptySeq, IsASeq
    <3>3. QED
      BY <3>2, EmptySeq
  <2>2. logOf' = [logOf EXCEPT ![r] = logOf'[r]]
    BY <1>1, <1>3, OneLog
  <2>3. QED
    BY <2>1, <2>2
<1>6. QED
  BY <1>1, <1>2, <1>4, <1>5 DEF Promise!Erase

LEMMA AuditMaps ==
  ASSUME QueueInv, QueueInv', NEW w \in Workers, worker[w].pc = "posted",
         deliveries' = Audited(w), UNCHANGED <<record, job, cleared>>
  PROVE  \E r \in Records, ok \in BOOLEAN : Promise!Attempt(r, ok)
<1>0. PICK r \in Records, ok \in BOOLEAN :
        r = worker[w].rec /\ ok = (worker[w].outcome = "ok")
  BY AuditedTrail
<1>1. /\ r \in Live /\ r \in cleared
      /\ \A q \in Records \ {r} : deliveries'[q] = deliveries[q]
      /\ deliveries'[r] = Append(deliveries[r],
                [attempt |-> worker[w].attempt, success |-> ok])
      /\ job[r].status = "pending"
      /\ worker[w].attempt \in 1..MaxAttempts
  BY <1>0, AuditedTrail DEF QueueInv, HandOK, Working
<1>2. stageOf' = stageOf /\ stageOf[r] = "pending"
  BY <1>1, SameStage DEF stageOf, Live
<1>3. logOf'[r] = Append(logOf[r], ok)
  <2> DEFINE T == [attempt : 1..MaxAttempts, success : BOOLEAN]
             e == [attempt |-> worker[w].attempt, success |-> ok]
             n == Len(deliveries[r])
  <2>1. deliveries[r] \in Seq(T) /\ e \in T /\ n \in Nat
    BY <1>1, LenProperties DEF QueueInv, TypeOK
  <2>2. /\ Len(deliveries'[r]) = n + 1
        /\ \A i \in 1..n : deliveries'[r][i] = deliveries[r][i]
        /\ deliveries'[r][n + 1] = e
    BY <1>1, <2>1, AppendProperties
  <2>3. /\ logOf[r] \in Seq(BOOLEAN) /\ Len(logOf[r]) = n
        /\ \A i \in 1..n : logOf[r][i] = deliveries[r][i].success
    BY LogIsSequence
  <2>4. logOf'[r] = [i \in 1..(n + 1) |-> deliveries'[r][i].success]
    BY <2>2 DEF logOf
  <2>5. \A i \in 1..(n + 1) : deliveries'[r][i].success =
            IF i = n + 1 THEN ok ELSE logOf[r][i]
    <3>1. \A i \in 1..n : deliveries'[r][i].success = logOf[r][i]
      BY <2>2, <2>3
    <3>2. deliveries'[r][n + 1].success = ok
      BY <2>2
    <3>3. \A i \in 1..(n + 1) : i = n + 1 \/ i \in 1..n
      BY <2>1
    <3>4. n + 1 \notin 1..n
      BY <2>1
    <3>5. QED
      BY <3>1, <3>2, <3>3, <3>4
  <2>6. /\ Append(logOf[r], ok) \in Seq(BOOLEAN)
        /\ Len(Append(logOf[r], ok)) = n + 1
        /\ \A i \in 1..n : Append(logOf[r], ok)[i] = logOf[r][i]
        /\ Append(logOf[r], ok)[n + 1] = ok
    BY <2>3, AppendProperties
  <2>7. \A i \in 1..(n + 1) : deliveries'[r][i].success = Append(logOf[r], ok)[i]
    BY <2>1, <2>5, <2>6
  <2>8. \A i \in 1..(n + 1) : deliveries'[r][i].success \in BOOLEAN
    BY <2>1, <2>5, <2>3, ElementOfSeq
  <2>9. /\ logOf'[r] \in Seq(BOOLEAN) /\ Len(logOf'[r]) = n + 1
        /\ \A i \in 1..(n + 1) : logOf'[r][i] = Append(logOf[r], ok)[i]
    <3>1. logOf'[r] \in [1..(n + 1) -> BOOLEAN] /\ n + 1 \in Nat
      BY <2>1, <2>4, <2>8
    <3>2. logOf'[r] \in Seq(BOOLEAN) /\ Len(logOf'[r]) = n + 1
      BY <3>1
    <3>3. QED
      BY <2>4, <2>7, <3>2
  <2>10. QED
    BY <2>6, <2>9, SeqEqual
<1>4. logOf' = [logOf EXCEPT ![r] = logOf'[r]]
  BY <1>1, OneLog
<1>5. Promise!Attempt(r, ok)
  BY <1>1, <1>2, <1>3, <1>4 DEF Promise!Attempt
<1>6. QED
  BY <1>5

\* Settling a job closes the notification on a logged outcome, or reschedules
\* it, which the notification does not show.
LEMMA SettleMaps ==
  ASSUME QueueInv, QueueInv', NEW w \in Workers, Settle(w)
  PROVE  \/ \E r \in Records, v \in {"done", "dead"} : Promise!Close(r, v)
         \/ UNCHANGED <<stageOf, logOf, cleared>>
<1>0. PICK r \in Records, me \in Hands : r = worker[w].rec /\ me = worker[w]
  BY DEF Settle, QueueInv, TypeOK, RowsOK, HandOK, Hands, Working
<1>1. /\ me.pc = "reloaded"
      /\ me.outcome \in {"done", "dead", "retry", "keep"}
      /\ r \in Live /\ me.outcome \in Terminal => HasOutcome(r, me.outcome = "done")
      /\ UNCHANGED <<record, deliveries, cleared>>
  BY <1>0 DEF Settle, QueueInv, HandOK
<1>2. logOf' = logOf /\ \A q \in Records : record'[q].row = record[q].row
  BY <1>1 DEF logOf
<1>3. /\ job \in [Records -> [status : {"none", "pending"} \cup Terminal,
                              attempt : 1..MaxAttempts, due : BOOLEAN]]
      /\ job' = job \/ job' = [job EXCEPT ![r] = Settled(job[r], me.outcome,
                                                         me.attempt)]
  BY <1>0 DEF Settle, QueueInv, TypeOK
<1>4. CASE me.outcome \in Terminal /\ job' # job
  <2>1. job[r].status # "none"
    BY <1>0, <1>4 DEF Settle, Terminal
  <2>2. r \in Live /\ HasOutcome(r, me.outcome = "done")
    BY <1>1, <1>4, <2>1 DEF QueueInv, RowsOK, Live, NoJob
  <2>3. job' = [job EXCEPT ![r] = [job[r] EXCEPT !.status = me.outcome]]
    <3>1. Settled(job[r], me.outcome, me.attempt)
            = [job[r] EXCEPT !.status = me.outcome]
      BY <1>4 DEF Settled, Terminal
    <3>2. QED
      BY <1>3, <1>4, <3>1
  <2>4. job'[r].status = me.outcome
        /\ \A q \in Records \ {r} : job'[q].status = job[q].status
    <3>1. PICK j : /\ j = [job[r] EXCEPT !.status = me.outcome]
                   /\ job' = [job EXCEPT ![r] = j]
      BY <2>3
    <3>2. job[r] \in [status : {"none", "pending"} \cup Terminal,
                      attempt : 1..MaxAttempts, due : BOOLEAN]
      BY <1>3
    <3>3. j.status = me.outcome
      BY <3>1, <3>2
    <3>4. job'[r] = j /\ \A q \in Records \ {r} : job'[q] = job[q]
      BY <1>3, <3>1
    <3>5. QED
      BY <3>3, <3>4
  <2>5. stageOf'[r] = me.outcome /\ stageOf[r] = job[r].status
    BY <1>2, <2>2, <2>4 DEF stageOf, Live
  <2>6. stageOf' = [stageOf EXCEPT ![r] = me.outcome]
    <3>1. stageOf' = [stageOf EXCEPT ![r] = stageOf'[r]]
      BY <1>2, <2>4, OneStage
    <3>2. QED
      BY <2>5, <3>1
  <2>7. stageOf[r] \in {"pending", "done", "dead"}
    BY <1>3, <2>1, <2>5 DEF Terminal
  <2>8. \E i \in 1..Len(logOf[r]) : logOf[r][i] = (me.outcome = "done")
    BY <2>2, LogIsSequence DEF HasOutcome
  <2>9. me.outcome \in {"done", "dead"} /\ Promise!Close(r, me.outcome)
    BY <1>1, <1>2, <1>4, <2>6, <2>7, <2>8 DEF Promise!Close, Terminal
  <2>10. QED
    BY <2>9
<1>5. CASE me.outcome \notin Terminal \/ job' = job
  <2>1. me.outcome \notin Terminal => Settled(job[r], me.outcome, me.attempt).status
                                        = job[r].status
    BY <1>1 DEF Settled, Rescheduled, Terminal
  <2>2. \A q \in Records : job'[q].status = job[q].status
    BY <1>3, <1>5, <2>1
  <2>3. stageOf' = stageOf
    BY <1>2, <2>2, SameStage
  <2>4. QED
    BY <1>1, <1>2, <2>3
<1>6. QED
  BY <1>4, <1>5

-----------------------------------------------------------------------------
LEMMA RowsStutter ==
  ASSUME UNCHANGED <<record, job, deliveries, cleared>>
  PROVE  UNCHANGED <<stageOf, logOf, cleared>>
  BY DEF stageOf, logOf

LEMMA RequestMaps ==
  ASSUME QueueInv, QueueInv', NEW r \in Records, Request(r)
  PROVE  Promise!Next \/ UNCHANGED <<stageOf, logOf, cleared>>
<1>1. CASE Ingest(r)
  BY <1>1, IngestMaps DEF Promise!Next
<1>2. CASE Patch(r) \/ Approve(r)
  <2>1. \A q \in Records : record'[q].row = record[q].row
    <3>1. CASE Patch(r)
      BY <3>1, PatchRows
    <3>2. CASE Approve(r)
      BY <3>2 DEF Approve, QueueInv, TypeOK
    <3>3. QED
      BY <1>2, <3>1, <3>2
  <2>2. QED
    BY <1>2, <2>1, ReviewMaps DEF Patch, Approve, Promise!Next
<1>3. CASE Delete(r) \/ DeleteResumes(r)
  <2>1. r \in Live /\ cleared' = cleared
        /\ (Erase(r) \/ UNCHANGED <<record, job, deliveries>>)
    BY <1>3 DEF Delete, DeleteResumes, Writable, QueueInv, RowsOK
  <2>2. QED
    BY <2>1, EraseMaps, RowsStutter DEF Promise!Next
<1>4. CASE BackoffElapses(r)
  <2>1. /\ job \in [Records -> [status : {"none", "pending"} \cup Terminal,
                                attempt : 1..MaxAttempts, due : BOOLEAN]]
        /\ job' = [job EXCEPT ![r] = [job[r] EXCEPT !.due = TRUE]]
        /\ UNCHANGED <<record, deliveries, cleared>>
    BY <1>4 DEF BackoffElapses, QueueInv, TypeOK
  <2>2. \A q \in Records : job'[q].status = job[q].status
    BY <2>1
  <2>3. QED
    BY <2>1, <2>2, SameStage DEF logOf
<1>5. QED
  BY <1>1, <1>2, <1>3, <1>4 DEF Request

LEMMA WorkerMaps ==
  ASSUME QueueInv, QueueInv', NEW w \in Workers, WorkerStep(w) \/ Crash(w)
  PROVE  Promise!Next \/ UNCHANGED <<stageOf, logOf, cleared>>
<1>1. CASE RecordDelivery(w) \/ DeadlockAbortsDelete(w)
  BY <1>1, AuditMaps DEF RecordDelivery, DeadlockAbortsDelete, Promise!Next
<1>2. CASE DeadlockAbortsWorker(w)
  <2>1. worker[w].rec \in Live /\ Erase(worker[w].rec) /\ cleared' = cleared
    BY <1>2 DEF DeadlockAbortsWorker, QueueInv, RowsOK
  <2>2. QED
    BY <2>1, EraseMaps DEF Promise!Next
<1>3. CASE Settle(w)
  BY <1>3, SettleMaps DEF Promise!Next
<1>4. CASE (\E r \in Records : Claim(w, r)) \/ Poll(w) \/ Post(w) \/ Reload(w)
            \/ Restart(w) \/ Crash(w)
  BY <1>4, RowsStutter DEF Claim, Poll, Post, MayPost, Reload, Restart, Crash, rows, vars
<1>5. QED
  BY <1>1, <1>2, <1>3, <1>4 DEF WorkerStep

LEMMA StepMaps ==
  ASSUME QueueInv, QueueInv', [Next]_vars
  PROVE  [Promise!Next]_<<stageOf, logOf, cleared>>
<1>1. ASSUME NEW run \in SUBSET Records, ReviewMapping(run)
      PROVE  Promise!Next
  <2>1. \A q \in Records : record'[q].row = record[q].row
    BY <1>1 DEF ReviewMapping, QueueInv, TypeOK
  <2>2. QED
    BY <1>1, <2>1, ReviewMaps DEF ReviewMapping, Promise!Next
<1>2. CASE Redeploy
  BY <1>2, RowsStutter DEF Redeploy, rows
<1>3. CASE UNCHANGED vars
  BY <1>3, RowsStutter DEF vars
<1>4. QED
  BY <1>1, <1>2, <1>3, RequestMaps, WorkerMaps DEF Next

\* The queue, with its locks, its two transactions per attempt and its
\* crashes, keeps every promise of module Notification (webhook_worker.py,
\* webhooks.py and the requests of main.py taken together).
THEOREM QueueImplementsNotification == Spec => ImplementsNotification
<1>1. Init => Promise!Init
  BY InitMaps
<1>2. QueueInv /\ QueueInv' /\ [Next]_vars => [Promise!Next]_(Promise!nvars)
  BY StepMaps DEF Promise!nvars
<1>3. QED
  BY <1>1, <1>2, InductiveInvariant, PTL DEF Spec, ImplementsNotification, Promise!Spec

\* A job that was settled is never owed again: the write of a worker that
\* another one overtook changes attempt and time, never the status back to
\* pending (process_due_jobs' retry branch).
THEOREM NoReopening == Spec => NeverPendingAgain
<1>1. QueueInv /\ QueueInv' /\ [Next]_vars =>
        \A r \in Records : job[r].status \in Terminal =>
                                job'[r].status # "pending"
  <2>1. SUFFICES ASSUME QueueInv, QueueInv', [Next]_vars,
                        NEW r \in Records, job[r].status \in Terminal
                 PROVE  job'[r].status # "pending"
    OBVIOUS
  <2>2. stageOf[r] \in Terminal
    BY <2>1 DEF stageOf, QueueInv, RowsOK, NoJob, Terminal
  <2>3. stageOf'[r] # "pending"
    <3>1. DOMAIN stageOf = Records
      BY DEF stageOf
    <3>2. [Promise!Next]_<<stageOf, logOf, cleared>>
      BY <2>1, StepMaps
    <3>3. QED
      BY <2>2, <3>1, <3>2 DEF Promise!Next, Promise!Register, Promise!Erase,
         Promise!Attempt, Promise!Close, Promise!Clear, Terminal
  <2>4. job'[r].status = "pending" => record'[r].row = "live"
    BY <2>1 DEF QueueInv, RowsOK, NoJob
  <2>5. QED
    BY <2>3, <2>4 DEF stageOf
<1>2. QED
  BY <1>1, InductiveInvariant, PTL DEF Spec, NeverPendingAgain

-----------------------------------------------------------------------------
(* One worker process.  What its hand holds then agrees with the job row   *)
(* until the row is settled or gone: attempt numbers are used once, in     *)
(* order, and a verdict always meets a pending job.                        *)

OneWorker == \A v, w \in Workers : v = w

\* The trail of r has a failed entry for attempt n; for every one below n.
FailedAt(r, n) == \E i \in 1..Len(deliveries[r]) :
                    deliveries[r][i].attempt = n /\ ~deliveries[r][i].success
FailedBelow(r, n) == \A m \in 1..(n - 1) : FailedAt(r, m)

\* The current attempt of r's job has been sent and is not settled yet.
Tried(r) == \E w \in Workers : /\ worker[w].rec = r
                               /\ worker[w].pc \in {"posted", "recorded", "reloaded"}

TrailSolo(r) ==
    /\ job[r].status = "pending" => FailedBelow(r, job[r].attempt)
    /\ job[r].status = "dead" => FailedBelow(r, MaxAttempts + 1)

BudgetSolo(r) ==
    /\ sent[r] <= MaxAttempts + Deaths
    /\ job[r].status = "pending" => sent[r] <= job[r].attempt + Deaths
    /\ job[r].status = "pending" /\ ~Tried(r) => sent[r] < job[r].attempt + Deaths

HandSolo(w) ==
    LET me == worker[w] IN
    me.pc \in Working /\ me.rec \in Live =>
        /\ job[me.rec].status = "pending" /\ me.attempt = job[me.rec].attempt
        /\ me.pc = "recorded" /\ me.outcome = "failed" =>
                FailedAt(me.rec, me.attempt)
        /\ me.pc = "reloaded" => me.outcome # "keep"
        /\ me.pc = "reloaded" /\ me.outcome \in {"retry", "dead"} =>
                FailedAt(me.rec, me.attempt)
        /\ me.pc = "reloaded" /\ me.outcome = "dead" => me.attempt = MaxAttempts

SoloInv == /\ \A r \in Records : TrailSolo(r) /\ BudgetSolo(r)
           /\ \A w \in Workers : HandSolo(w)

LEMMA InitSolo == Init => SoloInv
<1> SUFFICES ASSUME Init PROVE SoloInv
  OBVIOUS
<1>1. \A r \in Records : job[r].status = "none" /\ sent[r] = 0
  BY DEF Init, NoJob
<1>2. Deaths \in Nat
  <2>1. crashes \in Nat /\ redeploys \in Nat
    BY DEF Init
  <2>2. QED
    BY <2>1, WorkersFinite DEF Deaths
<1>3. \A r \in Records : TrailSolo(r) /\ BudgetSolo(r)
  BY <1>1, <1>2, QueueAssumption DEF TrailSolo, BudgetSolo
<1>4. \A w \in Workers : HandSolo(w)
  BY DEF Init, HandSolo, Working, Idle
<1>5. QED
  BY <1>3, <1>4 DEF SoloInv

\* With one worker, its own hand says all about the attempts in the air.
LEMMA TriedByOne ==
  ASSUME OneWorker, NEW w \in Workers, NEW r
  PROVE  /\ Tried(r) <=> /\ worker[w].rec = r
                         /\ worker[w].pc \in {"posted", "recorded", "reloaded"}
         /\ Tried(r)' <=> /\ worker'[w].rec = r
                          /\ worker'[w].pc \in {"posted", "recorded", "reloaded"}
  BY DEF Tried, OneWorker

LEMMA BudgetTyped ==
  ASSUME QueueInv, NEW r \in Records
  PROVE  /\ sent[r] \in Nat /\ Deaths \in Nat /\ MaxAttempts \in Nat
         /\ job[r].attempt \in 1..MaxAttempts
  BY AccountTyped, QueueAssumption DEF QueueInv, TypeOK

\* What TrailSolo and BudgetSolo of one record depend on.
LEMMA RecordKept ==
  ASSUME NEW r \in Records, TrailSolo(r), BudgetSolo(r),
         job'[r].status = job[r].status, job'[r].attempt = job[r].attempt,
         deliveries'[r] = deliveries[r], sent'[r] = sent[r],
         Deaths' = Deaths, Tried(r)' <=> Tried(r)
  PROVE  TrailSolo(r)' /\ BudgetSolo(r)'
<1>1. TrailSolo(r)'
  BY DEF TrailSolo, FailedBelow, FailedAt
<1>2. BudgetSolo(r)'
  BY DEF BudgetSolo
<1>3. QED
  BY <1>1, <1>2

LEMMA HandKept ==
  ASSUME NEW w \in Workers, HandSolo(w), worker'[w] = worker[w],
         worker[w].rec \in Live' =>
            /\ worker[w].rec \in Live
            /\ job'[worker[w].rec].status = job[worker[w].rec].status
            /\ job'[worker[w].rec].attempt = job[worker[w].rec].attempt
            /\ deliveries'[worker[w].rec] = deliveries[worker[w].rec]
  PROVE  HandSolo(w)'
  BY DEF HandSolo, FailedAt

\* Nothing but review columns and due times moves.
LEMMA SoloKept ==
  ASSUME SoloInv, Live' = Live,
         \A r \in Records : /\ job'[r].status = job[r].status
                            /\ job'[r].attempt = job[r].attempt,
         UNCHANGED <<deliveries, worker, sent, crashes, redeploys>>
  PROVE  SoloInv'
<1>1. Deaths' = Deaths /\ \A r \in Records : Tried(r)' <=> Tried(r)
  BY DEF Deaths, Tried
<1>2. \A r \in Records : TrailSolo(r)' /\ BudgetSolo(r)'
  BY <1>1, RecordKept DEF SoloInv
<1>3. \A w \in Workers : HandSolo(w)'
  BY HandKept DEF SoloInv, Live
<1>4. QED
  BY <1>2, <1>3 DEF SoloInv

LEMMA IngestSolo ==
  ASSUME QueueInv, SoloInv, NEW r \in Records, Ingest(r) PROVE SoloInv'
<1>1. /\ Live' = Live \cup {r} /\ record[r].row = "new"
      /\ UNCHANGED <<deliveries, worker, sent, crashes, redeploys>>
      /\ \A q \in Records \ {r} : job'[q] = job[q]
  BY DEF Ingest, Live, QueueInv, TypeOK, history, bounds
<1>2. /\ job'[r].attempt = 1 /\ job'[r].status \in {"none", "pending"}
  BY <1>1 DEF Ingest, QueueInv, TypeOK, RowsOK, NoJob
<1>3. Deaths' = Deaths /\ \A q \in Records : Tried(q)' <=> Tried(q)
  BY <1>1 DEF Deaths, Tried
<1>4. \A q \in Records \ {r} : TrailSolo(q)' /\ BudgetSolo(q)'
  BY <1>1, <1>3, RecordKept DEF SoloInv
<1>5. TrailSolo(r)'
  BY <1>2 DEF TrailSolo, FailedBelow
<1>6. BudgetSolo(r)'
  <2>1. sent'[r] = 0
    BY <1>1, NewAccount
  <2>2. PICK d \in Nat : Deaths' = d
    BY <1>3, BudgetTyped
  <2>3. 0 <= MaxAttempts + d /\ 0 <= 1 + d /\ 0 < 1 + d
    BY <2>2, BudgetTyped
  <2>4. QED
    BY <1>2, <2>1, <2>2, <2>3 DEF BudgetSolo
<1>7. ASSUME NEW w \in Workers PROVE HandSolo(w)'
  <2>1. worker[w].rec # r \/ worker[w].pc \notin Working
    BY <1>1 DEF QueueInv, HandOK, RowsOK
  <2>2. CASE worker[w].pc \notin Working
    BY <1>1, <2>2 DEF HandSolo
  <2>3. CASE worker[w].rec # r
    BY <1>1, <2>3, HandKept DEF SoloInv, Live
  <2>4. QED
    BY <2>1, <2>2, <2>3
<1>8. QED
  BY <1>4, <1>5, <1>6, <1>7 DEF SoloInv

LEMMA EraseSolo ==
  ASSUME QueueInv, SoloInv, NEW r \in Live, Erase(r),
         \A w \in Workers : worker'[w] = worker[w]
                            \/ (worker[w].rec = r /\ worker'[w] = Down),
         UNCHANGED <<history, bounds>>
  PROVE  SoloInv'
<1>1. r \in Records /\ Live' = Live \ {r} /\ job'[r].status = "none"
      /\ \A q \in Records \ {r} : /\ job'[q] = job[q]
                                  /\ deliveries'[q] = deliveries[q]
  BY DEF Erase, Live, QueueInv, TypeOK, NoJob
<1>2. UNCHANGED <<sent, Deaths>>
  BY DEF history, bounds, Deaths
<1>3. \A q \in Records \ {r} : Tried(q)' <=> Tried(q)
  BY DEF Tried, Down, Idle
<1>4. \A q \in Records \ {r} : TrailSolo(q)' /\ BudgetSolo(q)'
  BY <1>1, <1>2, <1>3, RecordKept DEF SoloInv
<1>5. TrailSolo(r)' /\ BudgetSolo(r)'
  BY <1>1, <1>2 DEF SoloInv, TrailSolo, BudgetSolo
<1>6. ASSUME NEW w \in Workers PROVE HandSolo(w)'
  <2>1. CASE worker'[w] = Down
    BY <2>1 DEF HandSolo, Working, Down, Idle
  <2>2. CASE worker'[w] = worker[w]
    BY <1>1, <2>2, HandKept DEF SoloInv, Live
  <2>3. QED
    BY <2>1, <2>2
<1>7. QED
  BY <1>1, <1>4, <1>5, <1>6 DEF SoloInv

LEMMA RequestSolo ==
  ASSUME QueueInv, SoloInv, NEW r \in Records, Request(r) PROVE SoloInv'
<1>1. CASE Patch(r) \/ Approve(r)
  <2>1. UNCHANGED <<job, deliveries, worker, sent, crashes, redeploys>>
    BY <1>1 DEF Patch, Approve, history, bounds
  <2>2. Live' = Live
    <3>1. CASE Patch(r)
      BY <3>1, PatchRows DEF Live
    <3>2. CASE Approve(r)
      BY <3>2 DEF Approve, Live, QueueInv, TypeOK
    <3>3. QED
      BY <1>1, <3>1, <3>2
  <2>3. QED
    BY <2>1, <2>2, SoloKept
<1>2. CASE BackoffElapses(r)
  <2>1. /\ job \in [Records -> [status : {"none", "pending"} \cup Terminal,
                                attempt : 1..MaxAttempts, due : BOOLEAN]]
        /\ job' = [job EXCEPT ![r] = [job[r] EXCEPT !.due = TRUE]]
        /\ UNCHANGED <<record, deliveries, worker, sent, crashes, redeploys>>
    BY <1>2 DEF BackoffElapses, QueueInv, TypeOK, history, bounds
  <2>2. \A q \in Records : /\ job'[q].status = job[q].status
                           /\ job'[q].attempt = job[q].attempt
    BY <2>1
  <2>3. QED
    BY <2>1, <2>2, SoloKept DEF Live
<1>3. CASE Delete(r) \/ DeleteResumes(r)
  <2>1. worker' = worker /\ UNCHANGED <<history, bounds>>
    BY <1>3 DEF Delete, DeleteResumes
  <2>2. CASE Erase(r)
    <3>1. r \in Live
      BY <1>3 DEF Delete, DeleteResumes, Writable, QueueInv, RowsOK
    <3>2. QED
      BY <2>1, <2>2, <3>1, EraseSolo
  <2>3. CASE UNCHANGED <<record, job, deliveries>>
    BY <2>1, <2>3, SoloKept DEF Live, history, bounds
  <2>4. QED
    BY <1>3, <2>2, <2>3 DEF Delete, DeleteResumes
<1>4. QED
  BY <1>1, <1>2, <1>3, IngestSolo DEF Request

LEMMA ReviewMappingSolo ==
  ASSUME QueueInv, SoloInv, NEW run \in SUBSET Records, ReviewMapping(run)
  PROVE  SoloInv'
<1>1. Live' = Live
  BY DEF ReviewMapping, Live, QueueInv, TypeOK
<1>2. UNCHANGED <<job, deliveries, worker, sent, crashes, redeploys>>
  BY DEF ReviewMapping, history
<1>3. QED
  BY <1>1, <1>2, SoloKept

\* The one worker moves and writes nothing; what it sends is not here.
LEMMA HandMovesSolo ==
  ASSUME SoloInv, OneWorker, NEW w \in Workers,
         UNCHANGED <<rows, sent, crashes, redeploys>>,
         \A r \in Records : Tried(r)' <=> Tried(r),
         HandSolo(w)'
  PROVE  SoloInv'
<1>1. \A r \in Records : TrailSolo(r)' /\ BudgetSolo(r)'
  BY RecordKept DEF SoloInv, rows, Deaths
<1>2. QED
  BY <1>1 DEF SoloInv, OneWorker

LEMMA ClaimSolo ==
  ASSUME QueueInv, SoloInv, OneWorker, NEW w \in Workers, NEW r \in Records,
         Claim(w, r)
  PROVE  SoloInv'
<1>1. /\ worker'[w] = [pc |-> "claimed", rec |-> r,
                       attempt |-> job[r].attempt, outcome |-> "none"]
      /\ worker[w].pc = "idle" /\ job[r].status = "pending"
      /\ UNCHANGED <<rows, sent, crashes, redeploys>>
  BY DEF Claim, Claimable, Due, QueueInv, TypeOK, history, bounds
<1>2. \A q \in Records : Tried(q)' <=> Tried(q)
  BY <1>1, TriedByOne
<1>3. HandSolo(w)'
  BY <1>1 DEF HandSolo, rows
<1>4. QED
  BY <1>1, <1>2, <1>3, HandMovesSolo

\* Restart, and a reload that finds the record gone: a hand let go that has
\* no attempt of a pending job in the air.
LEMMA RestartSolo ==
  ASSUME QueueInv, SoloInv, OneWorker, NEW w \in Workers, Restart(w)
  PROVE  SoloInv'
<1>1. /\ worker'[w] = Idle /\ worker[w].pc = "down"
      /\ UNCHANGED <<rows, sent, crashes, redeploys>>
  BY DEF Restart, QueueInv, TypeOK, history, bounds
<1>2. \A q \in Records : Tried(q)' <=> Tried(q)
  BY <1>1, TriedByOne DEF Idle
<1>3. HandSolo(w)'
  BY <1>1 DEF HandSolo, Working, Idle
<1>4. QED
  BY <1>1, <1>2, <1>3, HandMovesSolo

LEMMA PostSolo ==
  ASSUME QueueInv, SoloInv, OneWorker, NEW w \in Workers, Post(w)
  PROVE  SoloInv'
<1>1. PICK r \in Records : /\ r = worker[w].rec /\ r \in Live
                           /\ job[r].status = "pending"
  BY DEF Post, MayPost, QueueInv, HandOK, Live
<1>2. PICK reply \in {"ok", "failed"} :
        worker' = [worker EXCEPT ![w].pc = "posted", ![w].outcome = reply]
  BY DEF Post
<1>3. /\ worker[w].pc = "claimed"
      /\ worker'[w].pc = "posted" /\ worker'[w].rec = r
      /\ worker'[w].attempt = worker[w].attempt
  BY <1>1, <1>2 DEF Post, MayPost, QueueInv, TypeOK
<1>4. /\ sent'[r] = sent[r] + 1
      /\ \A q \in Records \ {r} : sent'[q] = sent[q]
      /\ UNCHANGED <<record, job, deliveries, crashes, redeploys>>
  BY <1>1 DEF Post, QueueInv, TypeOK, rows, bounds
<1>5. \A q \in Records : ~Tried(q) /\ (Tried(q)' <=> q = r)
  BY <1>3, TriedByOne
<1>6. Deaths' = Deaths
  BY <1>4 DEF Deaths
<1>7. \A q \in Records \ {r} : TrailSolo(q)' /\ BudgetSolo(q)'
  BY <1>4, <1>5, <1>6, RecordKept DEF SoloInv
<1>8. TrailSolo(r)'
  BY <1>4 DEF SoloInv, TrailSolo, FailedBelow, FailedAt
<1>9. BudgetSolo(r)'
  <2>1. sent[r] < job[r].attempt + Deaths
    BY <1>1, <1>5 DEF SoloInv, BudgetSolo
  <2>2. /\ sent[r] \in Nat /\ Deaths \in Nat /\ MaxAttempts \in Nat
        /\ job[r].attempt \in Nat /\ job[r].attempt <= MaxAttempts
    BY BudgetTyped
  <2>3. sent'[r] <= job[r].attempt + Deaths /\ sent'[r] <= MaxAttempts + Deaths
    BY <1>4, <2>1, <2>2
  <2>4. QED
    BY <1>4, <1>5, <1>6, <2>3 DEF BudgetSolo
<1>10. HandSolo(w)'
  <2>1. worker[w].attempt = job[r].attempt
    BY <1>1, <1>3 DEF SoloInv, HandSolo, Working
  <2>2. QED
    BY <1>1, <1>3, <1>4, <2>1 DEF HandSolo
<1>11. QED
  BY <1>7, <1>8, <1>9, <1>10 DEF SoloInv, OneWorker

\* The audit row is about the current attempt.
LEMMA AuditSolo ==
  ASSUME QueueInv, SoloInv, OneWorker, NEW w \in Workers,
         worker[w].pc = "posted", deliveries' = Audited(w),
         worker' = [worker EXCEPT ![w].pc = "recorded"],
         UNCHANGED <<record, job, history, bounds>>
  PROVE  SoloInv'
<1>1. PICK r \in Records : r = worker[w].rec /\ r \in Live
  BY AuditedTrail
<1>2. PICK e : /\ e = [attempt |-> worker[w].attempt,
                       success |-> worker[w].outcome = "ok"]
               /\ deliveries'[r] = Append(deliveries[r], e)
  BY <1>1, AuditedTrail
<1>3. \A q \in Records \ {r} : deliveries'[q] = deliveries[q]
  BY <1>1, AuditedTrail
<1>4. /\ Len(deliveries[r]) \in Nat
      /\ Len(deliveries'[r]) = Len(deliveries[r]) + 1
      /\ \A i \in 1..Len(deliveries[r]) : deliveries'[r][i] = deliveries[r][i]
      /\ deliveries'[r][Len(deliveries[r]) + 1] = e
  <2>1. deliveries[r] \in Seq([attempt : 1..MaxAttempts, success : BOOLEAN])
    BY DEF QueueInv, TypeOK
  <2>2. QED
    BY <1>2, <2>1
<1>5. \A n : FailedAt(r, n) => FailedAt(r, n)'
  <2>1. SUFFICES ASSUME NEW n, FailedAt(r, n) PROVE FailedAt(r, n)'
    OBVIOUS
  <2>2. PICK i \in 1..Len(deliveries[r]) :
            deliveries[r][i].attempt = n /\ ~deliveries[r][i].success
    BY <2>1 DEF FailedAt
  <2>3. i \in 1..Len(deliveries'[r])
        /\ deliveries'[r][i].attempt = n /\ ~deliveries'[r][i].success
    BY <1>4, <2>2
  <2>4. QED
    BY <2>3 DEF FailedAt
<1>6. worker[w].outcome = "failed" => FailedAt(r, worker[w].attempt)'
  <2>1. SUFFICES ASSUME worker[w].outcome = "failed"
                 PROVE  FailedAt(r, worker[w].attempt)'
    OBVIOUS
  <2>2. e.attempt = worker[w].attempt /\ ~e.success
    BY <1>2, <2>1
  <2>3. Len(deliveries[r]) + 1 \in 1..Len(deliveries'[r])
    BY <1>4
  <2>4. \E i \in 1..Len(deliveries'[r]) :
            deliveries'[r][i].attempt = worker[w].attempt
            /\ ~deliveries'[r][i].success
    BY <1>4, <2>2, <2>3
  <2>5. PICK n : n = worker[w].attempt
    OBVIOUS
  <2>6. worker'[w].attempt = n
    BY <2>5 DEF QueueInv, TypeOK
  <2>7. QED
    BY <2>4, <2>5, <2>6 DEF FailedAt
<1>7. /\ worker'[w].pc = "recorded" /\ worker'[w].rec = r
      /\ worker'[w].attempt = worker[w].attempt
      /\ worker'[w].outcome = worker[w].outcome
  BY <1>1 DEF QueueInv, TypeOK
<1>8. UNCHANGED <<sent, Deaths>> /\ Live' = Live
      /\ \A q \in Records : Tried(q)' <=> Tried(q)
  BY <1>1, <1>7, TriedByOne DEF history, bounds, Deaths, Live
<1>9. \A q \in Records \ {r} : TrailSolo(q)' /\ BudgetSolo(q)'
  BY <1>3, <1>8, RecordKept DEF SoloInv
<1>10. TrailSolo(r)' /\ BudgetSolo(r)'
  <2>1. BudgetSolo(r)'
    BY <1>8 DEF SoloInv, BudgetSolo
  <2>2. \A n : FailedBelow(r, n) => FailedBelow(r, n)'
    BY <1>5 DEF FailedBelow
  <2>3. TrailSolo(r)'
    BY <2>2 DEF SoloInv, TrailSolo
  <2>4. QED
    BY <2>1, <2>3
<1>11. HandSolo(w)'
  <2>1. worker[w].attempt = job[r].attempt /\ job[r].status = "pending"
    BY <1>1 DEF SoloInv, HandSolo, Working
  <2>2. QED
    BY <1>6, <1>7, <2>1 DEF HandSolo, FailedAt
<1>12. QED
  BY <1>9, <1>10, <1>11 DEF SoloInv, OneWorker

LEMMA ReloadSolo ==
  ASSUME QueueInv, SoloInv, OneWorker, NEW w \in Workers, Reload(w)
  PROVE  SoloInv'
<1>1. PICK r \in Records : r = worker[w].rec
  BY DEF Reload, QueueInv, RowsOK, HandOK, TypeOK, Working
<1>2. /\ worker[w].pc = "recorded" /\ worker[w].outcome \in {"ok", "failed"}
      /\ UNCHANGED <<rows, sent, crashes, redeploys>>
  BY DEF Reload, QueueInv, HandOK, history, bounds
<1>3. CASE r \in Live
  <2>1. worker'[w] = [pc |-> "reloaded", rec |-> r,
                      attempt |-> job[r].attempt, outcome |-> Verdict(w)]
    BY <1>1, <1>3 DEF Reload, QueueInv, TypeOK, Live
  <2>2. /\ job[r].status = "pending" /\ worker[w].attempt = job[r].attempt
        /\ worker[w].outcome = "failed" => FailedAt(r, job[r].attempt)
    BY <1>1, <1>2, <1>3 DEF SoloInv, HandSolo, Working
  <2>3. /\ Verdict(w) # "keep"
        /\ Verdict(w) \in {"retry", "dead"} => worker[w].outcome = "failed"
        /\ Verdict(w) = "dead" => job[r].attempt = MaxAttempts
    <3>1. job[r].attempt \in 1..MaxAttempts /\ MaxAttempts \in Nat
      BY BudgetTyped
    <3>2. CASE worker[w].outcome = "ok"
      BY <3>2 DEF Verdict, VerdictUpTo
    <3>3. CASE worker[w].outcome = "failed" /\ job[r].attempt < MaxAttempts
      BY <1>1, <3>3 DEF Verdict, VerdictUpTo
    <3>4. CASE worker[w].outcome = "failed" /\ ~(job[r].attempt < MaxAttempts)
      <4>1. Verdict(w) = "dead"
        BY <1>1, <2>2, <3>4 DEF Verdict, VerdictUpTo
      <4>2. job[r].attempt = MaxAttempts
        BY <3>1, <3>4
      <4>3. QED
        BY <3>4, <4>1, <4>2
    <3>5. QED
      BY <1>2, <3>2, <3>3, <3>4
  <2>4. \A q \in Records : Tried(q)' <=> Tried(q)
    BY <1>1, <1>2, <2>1, TriedByOne
  <2>5. HandSolo(w)'
    BY <1>2, <2>1, <2>2, <2>3 DEF HandSolo, FailedAt, rows
  <2>6. QED
    BY <1>2, <2>4, <2>5, HandMovesSolo
<1>4. CASE r \notin Live
  <2>1. worker'[w] = Down
    BY <1>1, <1>4 DEF Reload, QueueInv, TypeOK, Live
  <2>2. \A q \in Records \ {r} : Tried(q)' <=> Tried(q)
    BY <1>1, <2>1, TriedByOne DEF Down, Idle
  <2>3. \A q \in Records \ {r} : TrailSolo(q)' /\ BudgetSolo(q)'
    BY <1>2, <2>2, RecordKept DEF SoloInv, rows, Deaths
  <2>4. job[r].status = "none"
    BY <1>4 DEF QueueInv, RowsOK, Live, NoJob
  <2>5. TrailSolo(r)' /\ BudgetSolo(r)'
    BY <1>2, <2>4 DEF SoloInv, TrailSolo, BudgetSolo, rows, Deaths
  <2>6. HandSolo(w)'
    BY <2>1 DEF HandSolo, Working, Down, Idle
  <2>7. QED
    BY <2>3, <2>5, <2>6 DEF SoloInv, OneWorker
<1>5. QED
  BY <1>3, <1>4

\* The verdict meets the pending job it was made for, or nothing.
LEMMA SettleMeetsPending ==
  ASSUME QueueInv, SoloInv, NEW w \in Workers, Settle(w)
  PROVE  /\ worker[w].rec \in Live =>
                job[worker[w].rec].status = "pending" /\ worker[w].outcome # "keep"
         /\ worker[w].rec \notin Live =>
                job' = job /\ job[worker[w].rec].status = "none"
<1>1. worker[w].pc = "reloaded" /\ worker[w].rec \in Records
      /\ worker[w].outcome \in {"done", "dead", "retry", "keep"}
  BY DEF Settle, QueueInv, HandOK, RowsOK, TypeOK, Working
<1>2. CASE worker[w].rec \in Live
  BY <1>1, <1>2 DEF SoloInv, HandSolo, Working
<1>3. CASE worker[w].rec \notin Live
  <2>1. job[worker[w].rec].status = "none"
    BY <1>1, <1>3 DEF QueueInv, RowsOK, Live, NoJob
  <2>2. CASE worker[w].outcome # "keep"
    BY <1>3, <2>1, <2>2 DEF Settle
  <2>3. CASE worker[w].outcome = "keep"
    <3>1. job' = [job EXCEPT ![worker[w].rec] = job[worker[w].rec]]
      BY <2>3 DEF Settle, Settled, Terminal
    <3>2. QED
      BY <2>1, <3>1, <1>3 DEF QueueInv, TypeOK
  <2>4. QED
    BY <1>3, <2>1, <2>2, <2>3
<1>4. QED
  BY <1>2, <1>3

LEMMA SettleSolo ==
  ASSUME QueueInv, SoloInv, OneWorker, NEW w \in Workers, Settle(w)
  PROVE  SoloInv'
<1>1. PICK r \in Records, me \in Hands : r = worker[w].rec /\ me = worker[w]
  BY DEF Settle, QueueInv, TypeOK, RowsOK, HandOK, Hands, Working
<1>2. /\ me.pc = "reloaded" /\ me.rec = r
      /\ me.outcome \in {"done", "dead", "retry", "keep"}
      /\ worker'[w] \in {Down, Idle}
      /\ UNCHANGED <<record, deliveries, sent, crashes, redeploys>>
  BY <1>1 DEF Settle, QueueInv, HandOK, TypeOK, history, bounds
<1>3. Deaths' = Deaths /\ \A q \in Records : ~Tried(q)' /\ (Tried(q) <=> q = r)
  BY <1>1, <1>2, TriedByOne DEF Deaths, Down, Idle
<1>4. HandSolo(w)'
  BY <1>2 DEF HandSolo, Working, Down, Idle
<1>5. \A q \in Records \ {r} : job'[q] = job[q]
  BY <1>1 DEF Settle, QueueInv, TypeOK
<1>6. \A q \in Records \ {r} : TrailSolo(q)' /\ BudgetSolo(q)'
  BY <1>2, <1>3, <1>5, RecordKept DEF SoloInv
<1>7. CASE r \in Live
  <2>1. /\ job[r].status = "pending" /\ me.outcome # "keep"
        /\ me.attempt = job[r].attempt
        /\ me.outcome \in {"retry", "dead"} => FailedAt(r, job[r].attempt)
        /\ me.outcome = "dead" => job[r].attempt = MaxAttempts
    BY <1>1, <1>2, <1>7 DEF SoloInv, HandSolo, Working
  <2>2. job[r] \in [status : {"none", "pending"} \cup Terminal,
                    attempt : 1..MaxAttempts, due : BOOLEAN]
    BY DEF QueueInv, TypeOK
  <2>3. job'[r] = Settled(job[r], me.outcome, job[r].attempt)
    BY <1>1, <2>1 DEF Settle, QueueInv, TypeOK
  <2>4. /\ sent[r] \in Nat /\ Deaths \in Nat /\ MaxAttempts \in Nat
        /\ job[r].attempt \in Nat /\ job[r].attempt <= MaxAttempts
        /\ sent[r] <= job[r].attempt + Deaths /\ sent[r] <= MaxAttempts + Deaths
    BY <2>1, BudgetTyped DEF SoloInv, BudgetSolo
  <2>5. FailedBelow(r, job[r].attempt)
    BY <2>1 DEF SoloInv, TrailSolo
  <2>6. \A n : FailedBelow(r, n)' <=> FailedBelow(r, n)
    BY <1>2 DEF FailedBelow, FailedAt
  <2>7. FailedAt(r, job[r].attempt) => FailedBelow(r, job[r].attempt + 1)
    BY <2>4, <2>5 DEF FailedBelow
  <2>8. TrailSolo(r)' /\ BudgetSolo(r)'
    <3>1. CASE me.outcome = "done"
      <4>1. job'[r].status = "done"
        BY <2>2, <2>3, <3>1 DEF Settled, Terminal
      <4>2. QED
        BY <1>2, <1>3, <2>4, <4>1 DEF TrailSolo, BudgetSolo
    <3>2. CASE me.outcome = "dead"
      <4>1. job'[r].status = "dead" /\ FailedBelow(r, MaxAttempts + 1)'
        BY <2>1, <2>2, <2>3, <2>6, <2>7, <3>2 DEF Settled, Terminal
      <4>2. QED
        BY <1>2, <1>3, <2>4, <4>1 DEF TrailSolo, BudgetSolo
    <3>3. CASE me.outcome = "retry"
      <4>1. PICK n : n = job[r].attempt + 1
        OBVIOUS
      <4>2. job'[r] = [status |-> "pending", attempt |-> n, due |-> FALSE]
        BY <2>1, <2>3, <3>3, <4>1 DEF Settled, Rescheduled, Terminal
      <4>3. FailedBelow(r, n)'
        BY <2>1, <2>6, <2>7, <3>3, <4>1
      <4>4. TrailSolo(r)'
        BY <4>2, <4>3 DEF TrailSolo, FailedBelow, FailedAt
      <4>5. sent[r] < n + Deaths /\ sent[r] <= n + Deaths
        BY <2>4, <4>1
      <4>6. BudgetSolo(r)'
        BY <1>2, <1>3, <2>4, <4>2, <4>5 DEF BudgetSolo
      <4>7. QED
        BY <4>4, <4>6
    <3>4. QED
      BY <1>2, <2>1, <3>1, <3>2, <3>3
  <2>9. QED
    BY <1>4, <1>6, <2>8 DEF SoloInv, OneWorker
<1>8. CASE r \notin Live
  <2>1. job' = job /\ job[r].status = "none"
    BY <1>1, <1>8, SettleMeetsPending
  <2>2. TrailSolo(r)' /\ BudgetSolo(r)'
    BY <1>2, <1>3, <2>1 DEF SoloInv, TrailSolo, BudgetSolo
  <2>3. QED
    BY <1>4, <1>6, <2>2 DEF SoloInv, OneWorker
<1>9. QED
  BY <1>7, <1>8

\* A death gives back the attempt it interrupts, and is counted.
LEMMA DeathSolo ==
  ASSUME QueueInv, SoloInv, NEW n \in Nat, Deaths' = Deaths + n,
         UNCHANGED <<record, job, deliveries, sent>>,
         \A w \in Workers : worker'[w] = Down,
         (\E r \in Records : Tried(r)) => n >= 1
  PROVE  SoloInv'
<1>1. ASSUME NEW r \in Records PROVE TrailSolo(r)' /\ BudgetSolo(r)'
  <2>1. TrailSolo(r)'
    BY DEF SoloInv, TrailSolo, FailedBelow, FailedAt
  <2>2. /\ sent[r] \in Nat /\ Deaths \in Nat /\ MaxAttempts \in Nat
        /\ job[r].attempt \in Nat
    BY BudgetTyped
  <2>3. BudgetSolo(r) /\ (Tried(r) => n >= 1)
    BY DEF SoloInv
  <2>4. /\ sent[r] <= MaxAttempts + (Deaths + n)
        /\ job[r].status = "pending" => sent[r] < job[r].attempt + (Deaths + n)
        /\ job[r].status = "pending" => sent[r] <= job[r].attempt + (Deaths + n)
    BY <2>2, <2>3 DEF BudgetSolo
  <2>5. BudgetSolo(r)'
    BY <2>4 DEF BudgetSolo
  <2>6. QED
    BY <2>1, <2>5
<1>2. \A w \in Workers : HandSolo(w)'
  BY DEF HandSolo, Working, Down, Idle
<1>3. QED
  BY <1>1, <1>2 DEF SoloInv

LEMMA CrashSolo ==
  ASSUME QueueInv, SoloInv, OneWorker, NEW w \in Workers, Crash(w)
  PROVE  SoloInv'
<1>1. worker'[w] = Down /\ UNCHANGED <<record, job, deliveries, sent>>
  BY DEF Crash, QueueInv, TypeOK, rows, history
<1>2. \A v \in Workers : worker'[v] = Down
  BY <1>1 DEF OneWorker
<1>3. Deaths' = Deaths + 1
  BY CrashDeaths
<1>4. QED
  BY <1>1, <1>2, <1>3, DeathSolo

LEMMA RedeploySolo == ASSUME QueueInv, SoloInv, Redeploy PROVE SoloInv'
<1>1. (\A w \in Workers : worker'[w] = Down)
      /\ UNCHANGED <<record, job, deliveries, sent>>
  BY DEF Redeploy, rows, history
<1>2. PICK n \in Nat : n = Cardinality(Workers)
  BY WorkersFinite
<1>3. Deaths' = Deaths + n
  BY <1>2, RedeployDeaths
<1>4. (\E r \in Records : Tried(r)) => n >= 1
  <2>1. n = 0 => Workers = {}
    BY <1>2, QueueAssumption, FS_EmptySet
  <2>2. QED
    BY <1>2, <2>1 DEF Tried
<1>5. QED
  BY <1>1, <1>2, <1>3, <1>4, DeathSolo

LEMMA WorkerSolo ==
  ASSUME QueueInv, SoloInv, OneWorker, NEW w \in Workers, WorkerStep(w)
  PROVE  SoloInv'
<1>1. CASE RecordDelivery(w) \/ DeadlockAbortsDelete(w)
  BY <1>1, AuditSolo DEF RecordDelivery, DeadlockAbortsDelete
<1>2. CASE DeadlockAbortsWorker(w)
  <2>1. worker[w].rec \in Live /\ Erase(worker[w].rec)
    BY <1>2 DEF DeadlockAbortsWorker, QueueInv, RowsOK
  <2>2. \A v \in Workers : worker'[v] = worker[v]
                           \/ (worker[v].rec = worker[w].rec /\ worker'[v] = Down)
    BY <1>2 DEF DeadlockAbortsWorker, QueueInv, TypeOK
  <2>3. QED
    BY <1>2, <2>1, <2>2, EraseSolo DEF DeadlockAbortsWorker
<1>3. CASE Poll(w)
  BY <1>3, SoloKept DEF Poll, vars, Live
<1>4. QED
  BY <1>1, <1>2, <1>3, ClaimSolo, PostSolo, ReloadSolo, SettleSolo, RestartSolo
  DEF WorkerStep

LEMMA NextSolo ==
  ASSUME OneWorker PROVE QueueInv /\ SoloInv /\ [Next]_vars => SoloInv'
<1> SUFFICES ASSUME QueueInv, SoloInv, [Next]_vars PROVE SoloInv'
  OBVIOUS
<1>1. CASE UNCHANGED vars
  BY <1>1, SoloKept DEF vars, Live
<1>2. QED
  BY <1>1, RequestSolo, ReviewMappingSolo, WorkerSolo, CrashSolo, RedeploySolo
  DEF Next

\* With one worker process, its hand and the job row agree: the inductive
\* invariant under the three theorems below.
THEOREM OneWorkerInvariant == ASSUME OneWorker PROVE Spec => []SoloInv
<1>1. Init => SoloInv
  BY InitSolo
<1>2. QueueInv /\ SoloInv /\ [Next]_vars => SoloInv'
  BY NextSolo
<1>3. QED
  BY <1>1, <1>2, InductiveInvariant, PTL DEF Spec

\* With one worker process a job is dead only after a logged failure at every
\* attempt number up to webhook_max_attempts (process_due_jobs).
THEOREM DeadAfterEveryAttempt ==
  ASSUME OneWorker PROVE Spec => []DeadMeansExhausted
<1>1. SoloInv => DeadMeansExhausted
  <2>1. SUFFICES ASSUME SoloInv, NEW r \in Records, job[r].status = "dead",
                        NEW n \in 1..MaxAttempts
                 PROVE  FailedAt(r, n)
    BY DEF DeadMeansExhausted, FailedAt
  <2>2. FailedBelow(r, MaxAttempts + 1)
    BY <2>1 DEF SoloInv, TrailSolo
  <2>3. n \in 1..((MaxAttempts + 1) - 1)
    BY <2>1, QueueAssumption
  <2>4. QED
    BY <2>2, <2>3 DEF FailedBelow
<1>2. QED
  BY <1>1, OneWorkerInvariant, PTL

\* With one worker process a receiver gets at most webhook_max_attempts POSTs
\* about a record, and one more for each time the process died.
THEOREM BudgetRespected == ASSUME OneWorker PROVE Spec => []AttemptBudget
<1>1. SoloInv => AttemptBudget
  BY DEF SoloInv, BudgetSolo, AttemptBudget
<1>2. QED
  BY <1>1, OneWorkerInvariant, PTL

LEMMA EraseKeepsOthers ==
  ASSUME QueueInv, NEW q, Erase(q), NEW r \in Records
  PROVE  \/ record'[r].row = "erased"
         \/ record'[r].row = record[r].row /\ job'[r].status = job[r].status
  BY DEF Erase, QueueInv, TypeOK

\* What any step may do to a settled job of a stored record.
LEMMA SettledKept ==
  ASSUME QueueInv, SoloInv, OneWorker, [Next]_vars,
         NEW r \in Records, job[r].status \in Terminal
  PROVE  \/ record'[r].row = "erased"
         \/ record'[r].row = record[r].row /\ job'[r].status = job[r].status
<1> DEFINE Kept == record'[r].row = record[r].row /\ job'[r].status = job[r].status
           Gone == record'[r].row = "erased"
<1>1. record[r].row = "live" /\ job[r].status \notin {"none", "pending"}
  BY DEF QueueInv, RowsOK, NoJob, Terminal
<1>2. ASSUME NEW q \in Records, Request(q) PROVE Gone \/ Kept
  <2>1. CASE Ingest(q)
    BY <1>1, <2>1 DEF Ingest, QueueInv, TypeOK
  <2>2. CASE Patch(q)
    BY <2>2, PatchRows DEF Patch
  <2>3. CASE Approve(q)
    BY <2>3 DEF Approve, QueueInv, TypeOK
  <2>4. CASE Delete(q) \/ DeleteResumes(q)
    BY <2>4, EraseKeepsOthers DEF Delete, DeleteResumes
  <2>5. CASE BackoffElapses(q)
    BY <1>1, <2>5 DEF BackoffElapses, QueueInv, TypeOK
  <2>6. QED
    BY <1>2, <2>1, <2>2, <2>3, <2>4, <2>5 DEF Request
<1>3. ASSUME NEW run \in SUBSET Records, ReviewMapping(run) PROVE Gone \/ Kept
  BY <1>3 DEF ReviewMapping, QueueInv, TypeOK
<1>4. ASSUME NEW w \in Workers, WorkerStep(w) PROVE Gone \/ Kept
  <2>1. CASE Settle(w)
    <3>1. record' = record
      BY <2>1 DEF Settle
    <3>2. CASE worker[w].rec = r
      BY <1>1, <2>1, <3>2, SettleMeetsPending DEF Live
    <3>3. CASE worker[w].rec # r
      <4>1. job'[r] = job[r]
        BY <2>1, <3>3 DEF Settle, QueueInv, TypeOK
      <4>2. QED
        BY <3>1, <4>1
    <3>4. QED
      BY <3>2, <3>3
  <2>2. CASE DeadlockAbortsWorker(w)
    BY <2>2, EraseKeepsOthers DEF DeadlockAbortsWorker
  <2>3. CASE (\E q \in Records : Claim(w, q)) \/ Poll(w) \/ Post(w) \/ Reload(w)
              \/ RecordDelivery(w) \/ DeadlockAbortsDelete(w) \/ Restart(w)
    BY <2>3 DEF Claim, Poll, Post, Reload, RecordDelivery, DeadlockAbortsDelete,
       Restart, rows, vars
  <2>4. QED
    BY <1>4, <2>1, <2>2, <2>3 DEF WorkerStep
<1>5. CASE UNCHANGED vars
  BY <1>5 DEF vars
<1>6. CASE Redeploy \/ \E w \in Workers : Crash(w)
  BY <1>6 DEF Redeploy, Crash, rows
<1>7. QED
  BY <1>2, <1>3, <1>4, <1>5, <1>6 DEF Next

\* A step of the notification that leaves settled ones alone is a step of the
\* notification that is settled once, or changes nothing.
LEMMA OnceMaps ==
  ASSUME [Promise!Next]_<<stageOf, logOf, cleared>>,
         \A r \in Records : stageOf[r] \in Terminal =>
                                stageOf'[r] \in {stageOf[r], "erased"}
  PROVE  [PromiseKeptOnce!Next]_<<stageOf, logOf, cleared>>
<1>0. DOMAIN stageOf = Records /\ stageOf = [r \in Records |-> stageOf[r]]
  BY DEF stageOf
<1>1. ASSUME NEW r \in Records, Promise!Register(r) PROVE PromiseKeptOnce!Next
  BY <1>1 DEF Promise!Register, PromiseKeptOnce!Register, PromiseKeptOnce!Next
<1>2. ASSUME NEW r \in Records, Promise!Erase(r) PROVE PromiseKeptOnce!Next
  BY <1>2 DEF Promise!Erase, PromiseKeptOnce!Erase, PromiseKeptOnce!Next
<1>3. ASSUME NEW r \in Records, NEW ok \in BOOLEAN, Promise!Attempt(r, ok)
      PROVE  PromiseKeptOnce!Next
  BY <1>3 DEF Promise!Attempt, PromiseKeptOnce!Attempt, PromiseKeptOnce!Next
<1>4. ASSUME NEW rs \in SUBSET Records, Promise!Clear(rs) PROVE PromiseKeptOnce!Next
  BY <1>4 DEF Promise!Clear, PromiseKeptOnce!Clear, PromiseKeptOnce!Next
<1>5. ASSUME NEW r \in Records, NEW v \in {"done", "dead"}, Promise!Close(r, v)
      PROVE  PromiseKeptOnce!Next \/ UNCHANGED <<stageOf, logOf, cleared>>
  <2>1. /\ stageOf' = [stageOf EXCEPT ![r] = v] /\ UNCHANGED <<logOf, cleared>>
        /\ stageOf[r] \in {"pending", "done", "dead"}
    BY <1>5 DEF Promise!Close
  <2>2. CASE stageOf[r] = "pending"
    <3>1. PromiseKeptOnce!Close(r, v)
      BY <1>5, <2>2 DEF Promise!Close, PromiseKeptOnce!Close
    <3>2. QED
      BY <3>1 DEF PromiseKeptOnce!Next
  <2>3. CASE stageOf[r] \in Terminal
    <3>1. stageOf'[r] = v /\ v # "erased"
      BY <1>0, <2>1
    <3>2. stageOf[r] = v
      BY <2>3, <3>1
    <3>3. stageOf' = stageOf
      BY <1>0, <2>1, <3>2
    <3>4. QED
      BY <2>1, <3>3
  <2>4. QED
    BY <2>1, <2>2, <2>3 DEF Terminal
<1>6. QED
  BY <1>1, <1>2, <1>3, <1>4, <1>5 DEF Promise!Next

\* With one worker process a notification is settled once: delivered or dead,
\* it keeps its status until its record is erased (process_due_jobs).
THEOREM QueueSettlesOnce == ASSUME OneWorker PROVE Spec => SettledOnce
<1>1. Init => PromiseKeptOnce!Init
  BY InitMaps DEF Promise!Init, PromiseKeptOnce!Init
<1>2. QueueInv /\ QueueInv' /\ SoloInv /\ [Next]_vars
        => [PromiseKeptOnce!Next]_(PromiseKeptOnce!nvars)
  <2>1. SUFFICES ASSUME QueueInv, QueueInv', SoloInv, [Next]_vars
                 PROVE  [PromiseKeptOnce!Next]_<<stageOf, logOf, cleared>>
    BY DEF PromiseKeptOnce!nvars
  <2>2. \A r \in Records : stageOf[r] \in Terminal =>
                                stageOf'[r] \in {stageOf[r], "erased"}
    <3>1. SUFFICES ASSUME NEW r \in Records, stageOf[r] \in Terminal
                   PROVE  stageOf'[r] \in {stageOf[r], "erased"}
      OBVIOUS
    <3>2. /\ record[r].row \notin {"new", "erased"}
          /\ job[r].status \in Terminal /\ stageOf[r] = job[r].status
      BY <3>1 DEF stageOf, Terminal
    <3>3. \/ record'[r].row = "erased"
          \/ record'[r].row = record[r].row /\ job'[r].status = job[r].status
      BY <2>1, <3>2, SettledKept
    <3>4. QED
      BY <3>2, <3>3 DEF stageOf
  <2>3. [Promise!Next]_<<stageOf, logOf, cleared>>
    BY <2>1, StepMaps
  <2>4. QED
    BY <2>2, <2>3, OnceMaps
<1>3. QED
  BY <1>1, <1>2, InductiveInvariant, OneWorkerInvariant, PTL
  DEF Spec, SettledOnce, PromiseKeptOnce!Spec
=============================================================================
