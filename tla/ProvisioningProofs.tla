------------------------- MODULE ProvisioningProofs -------------------------
(***************************************************************************)
(* Proofs about Provisioning for any number of job rows, worker processes, *)
(* replay requests and any bounds.  ProvisioningInv adds to the types what *)
(* a worker's memory says about the audit rows and the target between its  *)
(* two transactions.                                                       *)
(***************************************************************************)
EXTENDS Provisioning, TLAPS

Attempt == [attempt : 1..MaxAttempts, key : Nat, outcome : Answers]
Hand == [pc : {"down", "idle", "claimed", "posted", "recorded", "reloaded"},
         job : Jobs \cup {NoJob}, attempt : 1..MaxAttempts, key : Nat,
         outcome : {"none", "done_unnamed", "retry", "keep"}
                   \cup Answers \cup Terminal]
ReplayHand == [pc : {"idle", "loaded"}, job : Jobs \cup {NoJob}, row : Row]
Review3 == [live : BOOLEAN, ready : BOOLEAN, named : BOOLEAN]
Confirming == {"done", "done_unnamed", "skipped_exists"}

\* An attempt on record says that the user is there.
Backed == \E row \in attempts : row.outcome \in Good

\* An erased record has no job.
RowsOK == ~record.live => \A j \in Jobs : job[j].status = "none"

\* A job that is resolved has the attempt and the user that resolve it.
ResolvedOK == \A j \in Jobs : job[j].status \in Resolved => user /\ Backed

\* What worker w holds.
HandOK(w) ==
    LET me == worker[w] IN
    /\ me.pc \in {"claimed", "posted", "recorded", "reloaded"} => me.job \in Jobs
    /\ me.pc \in {"posted", "recorded"} => me.outcome \in Answers
    /\ me.pc \in {"posted", "recorded"} /\ me.outcome \in Good => user
    /\ me.pc = "recorded" /\ me.outcome \in Good => (record.live => Backed)
    /\ me.pc = "reloaded" =>
            /\ me.outcome \in Confirming \cup {"dead", "retry", "keep"}
            /\ me.outcome \in Confirming => user /\ (record.live => Backed)
            /\ me.outcome = "retry" => me.attempt < MaxAttempts

ProvisioningInv == /\ TypeOK /\ RowsOK /\ ResolvedOK
                   /\ \A w \in Workers : HandOK(w)

-----------------------------------------------------------------------------
LEMMA RowsTyped == /\ None \in Row
                   /\ \A key \in Nat : Fresh(key) \in Row
                   /\ Idle \in Hand /\ Down \in Hand /\ NoReplay \in ReplayHand
  BY ProvisioningAssumption
  DEF None, Fresh, Row, Idle, Down, Hand, NoReplay, ReplayHand, Terminal, Resolved

LEMMA Typed ==
  /\ TypeOK <=> /\ record \in Review3
             /\ job \in [Jobs -> Row]
             /\ attempts \subseteq Attempt
             /\ worker \in [Workers -> Hand]
             /\ replay \in [Requests -> ReplayHand]
             /\ user \in BOOLEAN
             /\ keys \in Nat /\ edits \in Nat /\ crashes \in Nat
  /\ TypeOK' <=> /\ record' \in Review3
              /\ job' \in [Jobs -> Row]
              /\ attempts' \subseteq Attempt
              /\ worker' \in [Workers -> Hand]
              /\ replay' \in [Requests -> ReplayHand]
              /\ user' \in BOOLEAN
              /\ keys' \in Nat /\ edits' \in Nat /\ crashes' \in Nat
  BY DEF TypeOK, Review3, Attempt, Hand, ReplayHand

LEMMA InitInv == Init => ProvisioningInv
<1> SUFFICES ASSUME Init PROVE ProvisioningInv
  OBVIOUS
<1>1. job \in [Jobs -> Row] /\ \A j \in Jobs : job[j].status \in {"none", "pending"}
  BY RowsTyped DEF Init, Fresh, None
<1>2. TypeOK
  BY <1>1, RowsTyped, Typed DEF Init, Review3
<1>3. RowsOK /\ ResolvedOK
  BY <1>1 DEF Init, RowsOK, ResolvedOK, Resolved
<1>4. \A w \in Workers : HandOK(w)
  BY DEF Init, HandOK, Idle
<1>5. QED
  BY <1>2, <1>3, <1>4 DEF ProvisioningInv

\* One worker moves, nothing it has not told the others changes.
LEMMA WorkerMoves ==
  ASSUME ProvisioningInv, NEW w \in Workers, NEW hand \in Hand,
         worker' = [worker EXCEPT ![w] = hand], HandOK(w)',
         user' \in BOOLEAN, user => user', crashes' \in Nat,
         UNCHANGED <<rows, replay, keys, edits>>
  PROVE  ProvisioningInv'
<1>1. TypeOK'
  BY Typed DEF ProvisioningInv, rows
<1>2. RowsOK' /\ ResolvedOK' /\ Backed' = Backed
  BY DEF ProvisioningInv, RowsOK, ResolvedOK, Backed, rows
<1>3. \A v \in Workers : HandOK(v)'
  <2>1. SUFFICES ASSUME NEW v \in Workers, v # w PROVE HandOK(v)'
    OBVIOUS
  <2>2. worker'[v] = worker[v]
    BY <2>1, Typed DEF ProvisioningInv
  <2>3. QED
    BY <1>2, <2>2 DEF ProvisioningInv, HandOK, rows
<1>4. QED
  BY <1>1, <1>2, <1>3 DEF ProvisioningInv

LEMMA DownOK == ASSUME ProvisioningInv, NEW w \in Workers, NEW hand \in {Idle, Down},
                       worker' = [worker EXCEPT ![w] = hand]
                PROVE  HandOK(w)'
  BY Typed DEF ProvisioningInv, HandOK, Idle, Down

\* The record, its job and its attempts go at once.
LEMMA EraseInv ==
  ASSUME ProvisioningInv, Erase,
         worker' = worker \/ \E w \in Workers : worker' = [worker EXCEPT ![w] = Down],
         UNCHANGED <<replay, user, keys, bounds>>
  PROVE  ProvisioningInv'
<1>1. worker' \in [Workers -> Hand]
  BY Typed, RowsTyped DEF ProvisioningInv
<1>2. job' \in [Jobs -> Row] /\ \A j \in Jobs : job'[j].status = "none"
  BY RowsTyped DEF Erase, None
<1>3. TypeOK'
  <2>1. record' \in Review3 /\ attempts' \subseteq Attempt
    BY DEF Erase, Review3
  <2>2. QED
    BY <1>1, <1>2, <2>1, Typed DEF ProvisioningInv, bounds
<1>4. RowsOK' /\ ResolvedOK'
  BY <1>2 DEF RowsOK, ResolvedOK, Resolved
<1>5. \A v \in Workers : HandOK(v)'
  <2>1. SUFFICES ASSUME NEW v \in Workers PROVE HandOK(v)'
    OBVIOUS
  <2>2. worker'[v] = worker[v] \/ worker'[v] = Down
    BY Typed DEF ProvisioningInv
  <2>3. ~record'.live
    BY DEF Erase
  <2>4. QED
    BY <2>2, <2>3 DEF ProvisioningInv, HandOK, Down, Idle
<1>6. QED
  BY <1>3, <1>4, <1>5 DEF ProvisioningInv

LEMMA ReviewInv == ASSUME ProvisioningInv, Review PROVE ProvisioningInv'
<1>1. record' \in Review3 /\ record'.live
  BY DEF Review, Review3
<1>2. TypeOK'
  BY <1>1, Typed DEF ProvisioningInv, Review
<1>3. RowsOK' /\ ResolvedOK' /\ Backed' = Backed
  BY <1>1 DEF ProvisioningInv, Review, RowsOK, ResolvedOK, Backed
<1>4. \A w \in Workers : HandOK(w)'
  BY <1>3 DEF ProvisioningInv, Review, HandOK
<1>5. QED
  BY <1>2, <1>3, <1>4 DEF ProvisioningInv

\* A job row changes, without a resolved status that had no ground.
LEMMA JobChanges ==
  ASSUME ProvisioningInv, record.live, job' \in [Jobs -> Row],
         \A j \in Jobs : job'[j].status \in Resolved =>
                job[j].status \in Resolved \/ (user /\ Backed),
         worker' \in [Workers -> Hand],
         \A w \in Workers : worker'[w] \in {worker[w], Idle},
         replay' \in [Requests -> ReplayHand], keys' \in Nat,
         UNCHANGED <<record, attempts, user, bounds>>
  PROVE  ProvisioningInv'
<1>1. TypeOK'
  BY Typed DEF ProvisioningInv, bounds
<1>2. RowsOK' /\ ResolvedOK' /\ Backed' = Backed
  BY DEF ProvisioningInv, RowsOK, ResolvedOK, Backed
<1>3. \A w \in Workers : HandOK(w)'
  BY <1>2 DEF ProvisioningInv, HandOK, Idle
<1>4. QED
  BY <1>1, <1>2, <1>3 DEF ProvisioningInv

LEMMA ReplayReadInv ==
  ASSUME ProvisioningInv, NEW q \in Requests, ReplayRead(q) PROVE ProvisioningInv'
<1>1. replay' \in [Requests -> ReplayHand]
  <2>1. CASE replay' = [replay EXCEPT ![q].pc = "loaded"]
    BY <2>1, Typed DEF ProvisioningInv, ReplayHand
  <2>2. CASE \E j \in Jobs : replay' = [replay EXCEPT ![q] =
                            [pc |-> "loaded", job |-> j, row |-> job[j]]]
    BY <2>2, Typed DEF ProvisioningInv, ReplayHand
  <2>3. QED
    BY <2>1, <2>2 DEF ReplayRead
<1>2. QED
  BY <1>1, JobChanges, Typed DEF ReplayRead, rows, bounds, Ready, ProvisioningInv

\* A reset job is pending or was resolved before.
LEMMA ResetRow ==
  ASSUME NEW current \in Row, NEW loaded \in Row, NEW key \in Nat
  PROVE  /\ Reset(current, loaded, key) \in Row
         /\ Reset(current, loaded, key).status \in {"pending", current.status}
<1>1. Column(FALSE, loaded.remote, current.remote) \in BOOLEAN
  BY Zenon DEF Column, Row
<1>2. PICK remote \in BOOLEAN : remote = Column(FALSE, loaded.remote, current.remote)
  BY <1>1
<1>3. Column("pending", loaded.status, current.status) \in {"pending", current.status}
      /\ Column(1, loaded.attempt, current.attempt) \in 1..MaxAttempts
  BY ProvisioningAssumption DEF Column, Row
<1>4. Reset(current, loaded, key) =
        [status  |-> Column("pending", loaded.status, current.status),
         attempt |-> Column(1, loaded.attempt, current.attempt),
         due |-> TRUE, key |-> key, remote |-> remote]
  BY <1>2 DEF Reset
<1>5. QED
  BY <1>3, <1>4 DEF Row

LEMMA ReplayCommitInv ==
  ASSUME ProvisioningInv, NEW q \in Requests, ReplayCommit(q) PROVE ProvisioningInv'
<1>1. replay' \in [Requests -> ReplayHand]
  BY Typed, RowsTyped DEF ReplayCommit, ProvisioningInv
<1>2. CASE ~record.live
  <2>1. TypeOK'
    BY <1>1, <1>2, Typed DEF ProvisioningInv, ReplayCommit, bounds
  <2>2. RowsOK' /\ ResolvedOK' /\ \A w \in Workers : HandOK(w)'
    BY <1>2 DEF ProvisioningInv, ReplayCommit, RowsOK, ResolvedOK, HandOK, Backed
  <2>3. QED
    BY <2>1, <2>2 DEF ProvisioningInv
<1>3. CASE record.live
  <2>1. keys' = keys + 1 /\ keys + 1 \in Nat
    BY <1>3, Typed DEF ReplayCommit, ProvisioningInv
  <2>2. job' \in [Jobs -> Row] /\ \A j \in Jobs :
            job'[j].status \in {job[j].status, "pending"}
    <3>1. CASE \E free \in Jobs : job' = [job EXCEPT ![free] = Fresh(keys + 1)]
      <4>1. Fresh(keys + 1) \in Row /\ Fresh(keys + 1).status = "pending"
        BY <2>1, RowsTyped DEF Fresh
      <4>2. QED
        BY <3>1, <4>1, Typed DEF ProvisioningInv
    <3>2. CASE /\ replay[q].job # NoJob
               /\ job' = [job EXCEPT ![replay[q].job] =
                            Reset(@, replay[q].row, keys + 1)]
      <4>1. replay[q].job \in Jobs /\ replay[q].row \in Row
        BY <3>2, Typed DEF ProvisioningInv, ReplayHand
      <4>2. PICK j \in Jobs : j = replay[q].job
        BY <4>1
      <4>3. PICK reset \in Row : /\ reset = Reset(job[j], replay[q].row, keys + 1)
                                 /\ reset.status \in {"pending", job[j].status}
        BY <2>1, <4>1, <4>2, ResetRow, Typed DEF ProvisioningInv
      <4>4. job' = [job EXCEPT ![j] = reset]
        BY <3>2, <4>2, <4>3
      <4>5. QED
        BY <4>3, <4>4, Typed DEF ProvisioningInv
    <3>3. QED
      BY <1>3, <3>1, <3>2 DEF ReplayCommit
  <2>3. \A j \in Jobs : job'[j].status \in Resolved => job[j].status \in Resolved
    BY <2>2 DEF Resolved
  <2>4. QED
    BY <1>1, <1>3, <2>1, <2>2, <2>3, JobChanges, Typed
    DEF ReplayCommit, ProvisioningInv
<1>4. QED
  BY <1>2, <1>3, Typed DEF ProvisioningInv, Review3
-----------------------------------------------------------------------------
LEMMA ClaimInv ==
  ASSUME ProvisioningInv, NEW w \in Workers, NEW j \in Jobs, Claim(w, j)
  PROVE  ProvisioningInv'
<1> DEFINE hand == [pc |-> "claimed", job |-> j, attempt |-> job[j].attempt,
                    key |-> job[j].key, outcome |-> "none"]
<1>1. hand \in Hand
  BY Typed DEF ProvisioningInv, Hand, Row
<1>2. worker' = [worker EXCEPT ![w] = hand]
  BY DEF Claim
<1>3. HandOK(w)'
  BY <1>1, <1>2, Typed DEF ProvisioningInv, HandOK
<1>4. QED
  BY <1>1, <1>2, <1>3, WorkerMoves, Typed DEF Claim, ProvisioningInv, bounds

LEMMA PostInv ==
  ASSUME ProvisioningInv, NEW w \in Workers, Post(w) PROVE ProvisioningInv'
<1>1. PICK outcome \in Answers :
        /\ worker' = [worker EXCEPT ![w] =
                [pc |-> "posted", job |-> worker[w].job, attempt |-> worker[w].attempt,
                 key |-> worker[w].key, outcome |-> outcome]]
        /\ user' \in {user, TRUE} /\ (outcome # "failed" => user')
  BY DEF Post, Answers, Good
<1> DEFINE hand == [pc |-> "posted", job |-> worker[w].job,
                    attempt |-> worker[w].attempt, key |-> worker[w].key,
                    outcome |-> outcome]
<1>2. hand \in Hand /\ worker[w] \in Hand /\ worker[w].job \in Jobs
  BY Typed DEF ProvisioningInv, Hand, Post, HandOK
<1>3. worker' = [worker EXCEPT ![w] = hand]
  BY <1>1
<1>4. HandOK(w)'
  BY <1>1, <1>2, <1>3, Typed DEF ProvisioningInv, HandOK, Answers, Good
<1>5. user' \in BOOLEAN /\ (user => user')
  <2>1. user' = user \/ user' = TRUE
    BY <1>1
  <2>2. user \in BOOLEAN
    BY Typed DEF ProvisioningInv
  <2>3. CASE user' = user
    BY <2>2, <2>3
  <2>4. CASE user' = TRUE
    BY <2>4
  <2>5. QED
    BY <2>1, <2>3, <2>4
<1>6. QED
  BY <1>2, <1>3, <1>4, <1>5, WorkerMoves, Typed DEF Post, ProvisioningInv, bounds

LEMMA RecordAttemptInv ==
  ASSUME ProvisioningInv, NEW w \in Workers, RecordAttempt(w) PROVE ProvisioningInv'
<1> DEFINE entry == [attempt |-> worker[w].attempt, key |-> worker[w].key,
                     outcome |-> worker[w].outcome]
           hand == [pc |-> "recorded", job |-> worker[w].job,
                    attempt |-> worker[w].attempt, key |-> worker[w].key,
                    outcome |-> worker[w].outcome]
<1>1. worker[w] \in Hand /\ worker[w].outcome \in Answers /\ worker[w].job \in Jobs
  BY Typed DEF ProvisioningInv, HandOK, RecordAttempt
<1>2. hand \in Hand /\ entry \in Attempt
  BY <1>1 DEF Hand, Attempt
<1>3. worker' = [worker EXCEPT ![w] = hand] /\ attempts' = attempts \cup {entry}
  <2>1. hand = [worker[w] EXCEPT !.pc = "recorded"]
    BY <1>1 DEF Hand
  <2>2. QED
    BY <2>1 DEF RecordAttempt
<1>4. attempts' \subseteq Attempt /\ entry \in attempts' /\ attempts \subseteq attempts'
  BY <1>2, <1>3, Typed DEF ProvisioningInv
<1>5. (Backed => Backed') /\ (worker[w].outcome \in Good => Backed')
  BY <1>4 DEF Backed
<1>6. TypeOK'
  <2>1. worker' \in [Workers -> Hand]
    BY <1>2, <1>3, Typed DEF ProvisioningInv
  <2>2. UNCHANGED <<record, job, replay, user, keys, edits, crashes>>
    BY DEF RecordAttempt, bounds
  <2>3. QED
    BY <1>4, <2>1, <2>2, Typed DEF ProvisioningInv
<1>7. RowsOK' /\ ResolvedOK'
  BY <1>5 DEF ProvisioningInv, RecordAttempt, RowsOK, ResolvedOK
<1>8. \A v \in Workers : HandOK(v)'
  <2>1. HandOK(w)'
    BY <1>1, <1>3, <1>5, Typed DEF ProvisioningInv, HandOK, RecordAttempt
  <2>2. ASSUME NEW v \in Workers, v # w PROVE HandOK(v)'
    <3>1. worker'[v] = worker[v]
      BY <1>3, <2>2, Typed DEF ProvisioningInv
    <3>2. QED
      BY <1>5, <3>1 DEF ProvisioningInv, HandOK, RecordAttempt
  <2>3. QED
    BY <2>1, <2>2
<1>9. QED
  BY <1>6, <1>7, <1>8 DEF ProvisioningInv

\* What the verdict may be, and what it says.
LEMMA VerdictSound ==
  ASSUME NEW outcome \in Answers, NEW row \in Row
  PROVE  /\ Verdict(outcome, row) \in Confirming \cup {"dead", "retry", "keep"}
         /\ Verdict(outcome, row) \in Confirming => outcome \in Good
         /\ Verdict(outcome, row) = "retry" => row.attempt < MaxAttempts
  BY DEF Verdict, Confirming, Answers, Good

LEMMA ReloadInv ==
  ASSUME ProvisioningInv, NEW w \in Workers, Reload(w) PROVE ProvisioningInv'
<1>1. worker[w] \in Hand /\ worker[w].job \in Jobs /\ worker[w].outcome \in Answers
  BY Typed DEF ProvisioningInv, HandOK, Reload
<1>2. PICK row \in Row : row = job[worker[w].job]
  BY <1>1, Typed DEF ProvisioningInv
<1>3. PICK verdict : verdict = Verdict(worker[w].outcome, row)
  OBVIOUS
<1> DEFINE hand == [pc |-> "reloaded", job |-> worker[w].job, attempt |-> row.attempt,
                    key |-> worker[w].key, outcome |-> verdict]
<1>4. /\ verdict \in Confirming \cup {"dead", "retry", "keep"}
      /\ verdict \in Confirming => worker[w].outcome \in Good
      /\ verdict = "retry" => row.attempt < MaxAttempts
  BY <1>1, <1>2, <1>3, VerdictSound
<1>5. hand \in Hand
  BY <1>1, <1>2, <1>4 DEF Hand, Row, Confirming, Terminal, Resolved
<1>6. UNCHANGED <<rows, replay, user, keys, bounds>>
  BY DEF Reload
<1>7. CASE record.live
  <2>1. worker' = [worker EXCEPT ![w] = hand]
    BY <1>2, <1>3, <1>7 DEF Reload
  <2>2. Backed' = Backed
    BY <1>6 DEF Backed, rows
  <2>3. worker'[w] = hand
    BY <1>5, <2>1, Typed DEF ProvisioningInv
  <2>4. HandOK(w)'
    BY <1>1, <1>4, <1>6, <1>7, <2>2, <2>3 DEF ProvisioningInv, HandOK, Reload, rows
  <2>5. QED
    BY <1>5, <1>6, <2>1, <2>4, WorkerMoves, Typed DEF ProvisioningInv, bounds
<1>8. CASE ~record.live
  <2>1. worker' = [worker EXCEPT ![w] = Down]
    BY <1>8 DEF Reload
  <2>2. QED
    BY <1>6, <2>1, DownOK, RowsTyped, WorkerMoves, Typed DEF ProvisioningInv, bounds
<1>9. QED
  BY <1>7, <1>8, Typed DEF ProvisioningInv, Review3

\* Each verdict writes its own columns: none reopens a job, and only a
\* confirmation resolves one.
LEMMA SettledRow ==
  ASSUME NEW row \in Row, NEW attempt \in 1..MaxAttempts,
         NEW verdict \in Confirming \cup {"dead", "retry", "keep"},
         verdict = "retry" => attempt < MaxAttempts
  PROVE  /\ Settled(row, verdict, attempt) \in Row
         /\ Settled(row, verdict, attempt).status = "pending" => row.status = "pending"
         /\ Settled(row, verdict, attempt).status \in Resolved =>
                row.status \in Resolved \/ verdict \in Confirming
<1>1. CASE verdict \in {"done", "done_unnamed"}
  <2>1. PICK known \in BOOLEAN : known = (verdict = "done")
    OBVIOUS
  <2>2. Settled(row, verdict, attempt) = [row EXCEPT !.status = "done", !.remote = known]
    BY <1>1, <2>1 DEF Settled
  <2>3. QED
    BY <1>1, <2>2 DEF Row, Terminal, Resolved, Confirming
<1>2. CASE verdict \in {"skipped_exists", "dead"}
  BY <1>2 DEF Settled, Row, Terminal, Resolved, Confirming
<1>3. CASE verdict = "retry"
  <2>1. Settled(row, verdict, attempt) =
            [status |-> row.status, attempt |-> attempt + 1, due |-> FALSE,
             key |-> row.key, remote |-> row.remote]
    BY <1>3 DEF Settled, Row
  <2>2. attempt + 1 \in 1..MaxAttempts
    BY <1>3, ProvisioningAssumption
  <2>3. Settled(row, verdict, attempt) \in Row
    BY <2>1, <2>2 DEF Row
  <2>4. QED
    BY <1>3, <2>1, <2>3
<1>4. CASE verdict = "keep"
  BY <1>4 DEF Settled
<1>5. QED
  BY <1>1, <1>2, <1>3, <1>4 DEF Confirming

LEMMA SettleInv ==
  ASSUME ProvisioningInv, NEW w \in Workers, Settle(w) PROVE ProvisioningInv'
<1>1. /\ worker[w] \in Hand /\ worker[w].job \in Jobs
      /\ worker[w].outcome \in Confirming \cup {"dead", "retry", "keep"}
      /\ worker[w].outcome \in Confirming => user /\ (record.live => Backed)
      /\ worker[w].outcome = "retry" => worker[w].attempt < MaxAttempts
  BY Typed DEF ProvisioningInv, HandOK, Settle
<1>2. CASE worker[w].job \in Stored
  <2>1. PICK j \in Jobs : j = worker[w].job
    BY <1>1
  <2>2. record.live
    BY <1>2, Typed DEF Stored, ProvisioningInv, RowsOK, Review3
  <2>3. job[j] \in Row /\ worker[w].attempt \in 1..MaxAttempts
    BY <1>1, <2>1, Typed DEF ProvisioningInv, Hand
  <2>4. PICK row \in Row :
            /\ row = Settled(job[j], worker[w].outcome, worker[w].attempt)
            /\ row.status \in Resolved =>
                    job[j].status \in Resolved \/ worker[w].outcome \in Confirming
    BY <1>1, <2>3, SettledRow
  <2>5. job' = [job EXCEPT ![j] = row] /\ worker' = [worker EXCEPT ![w] = Idle]
    BY <1>2, <2>1, <2>4 DEF Settle
  <2>6. job' \in [Jobs -> Row] /\ \A k \in Jobs : job'[k].status \in Resolved =>
            job[k].status \in Resolved \/ (user /\ Backed)
    BY <1>1, <2>2, <2>4, <2>5, Typed DEF ProvisioningInv
  <2>7. /\ worker' \in [Workers -> Hand]
        /\ \A v \in Workers : worker'[v] \in {worker[v], Idle}
    BY <2>5, RowsTyped, Typed DEF ProvisioningInv
  <2>8. QED
    BY <2>2, <2>6, <2>7, JobChanges, Typed DEF ProvisioningInv, Settle
<1>3. CASE worker[w].job \notin Stored
  <2>1. PICK hand \in {Idle, Down} : worker' = [worker EXCEPT ![w] = hand]
    BY <1>3 DEF Settle
  <2>2. QED
    BY <1>3, <2>1, DownOK, RowsTyped, WorkerMoves, Typed
    DEF Settle, ProvisioningInv, rows, bounds
<1>4. QED
  BY <1>2, <1>3

LEMMA BackoffElapsesInv ==
  ASSUME ProvisioningInv, NEW j \in Jobs, BackoffElapses(j) PROVE ProvisioningInv'
<1>1. record.live
  BY Typed DEF BackoffElapses, ProvisioningInv, RowsOK, Review3
<1>2. PICK row \in Row : row = [job[j] EXCEPT !.due = TRUE] /\ row.status = "pending"
  <2>1. job[j] \in Row /\ job[j].status = "pending"
    BY Typed DEF BackoffElapses, ProvisioningInv
  <2>2. [job[j] EXCEPT !.due = TRUE] \in Row
    BY <2>1 DEF Row
  <2>3. [job[j] EXCEPT !.due = TRUE].status = "pending"
    BY <2>1 DEF Row
  <2>4. QED
    BY <2>2, <2>3
<1>3. job' = [job EXCEPT ![j] = row]
  BY <1>2 DEF BackoffElapses
<1>4. job' \in [Jobs -> Row] /\ \A k \in Jobs :
        job'[k].status \in Resolved => job[k].status \in Resolved
  BY <1>2, <1>3, Typed DEF ProvisioningInv, Resolved
<1>5. QED
  BY <1>1, <1>4, JobChanges, Typed DEF ProvisioningInv, BackoffElapses, bounds

LEMMA StopInv ==
  ASSUME ProvisioningInv, NEW w \in Workers, Crash(w) \/ Restart(w)
  PROVE  ProvisioningInv'
<1>1. PICK hand \in {Idle, Down} : worker' = [worker EXCEPT ![w] = hand]
  BY DEF Crash, Restart
<1>2. crashes' \in Nat /\ UNCHANGED <<rows, replay, user, keys, edits>>
  BY Typed DEF ProvisioningInv, Crash, Restart, bounds
<1>3. QED
  BY <1>1, <1>2, DownOK, RowsTyped, WorkerMoves, Typed DEF ProvisioningInv

LEMMA NextInv == ProvisioningInv /\ [Next]_vars => ProvisioningInv'
<1> SUFFICES ASSUME ProvisioningInv, [Next]_vars PROVE ProvisioningInv'
  OBVIOUS
<1>1. ASSUME NEW w \in Workers, WorkerStep(w) PROVE ProvisioningInv'
  BY <1>1, ClaimInv, PostInv, RecordAttemptInv, ReloadInv, SettleInv, StopInv
  DEF WorkerStep
<1>2. ASSUME NEW w \in Workers, DeleteAborts(w) PROVE ProvisioningInv'
  BY <1>2, EraseInv DEF DeleteAborts
<1>3. CASE Delete
  BY <1>3, EraseInv DEF Delete
<1>4. CASE UNCHANGED vars
  <2>1. TypeOK' /\ RowsOK' /\ ResolvedOK'
    BY <1>4 DEF vars, ProvisioningInv, TypeOK, RowsOK, ResolvedOK, Backed
  <2>2. \A w \in Workers : HandOK(w)'
    BY <1>4 DEF vars, ProvisioningInv, HandOK, Backed
  <2>3. QED
    BY <2>1, <2>2 DEF ProvisioningInv
<1>5. QED
  BY <1>1, <1>2, <1>3, <1>4, StopInv, ReplayReadInv, ReplayCommitInv,
     BackoffElapsesInv, ReviewInv DEF Next

\* Workers, replays, reviews and erasures keep the inductive invariant.
THEOREM ProvisioningInvariant == Spec => []ProvisioningInv
  BY InitInv, NextInv, PTL DEF Spec

\* Every variable keeps its type; in particular no attempt number exceeds
\* webhook_max_attempts, however replays and several workers overlap.
THEOREM ProvisioningTypes == Spec => []TypeOK
<1>1. ProvisioningInv => TypeOK
  BY DEF ProvisioningInv
<1>2. QED
  BY <1>1, ProvisioningInvariant, PTL

\* A job that says "done" or "skipped_exists" is backed by an attempt on
\* record and by the user on the target, although a worker decides in one
\* transaction and writes in the next, with replays in between.
THEOREM Resolution == Spec => []ResolvedMeansUser
<1>1. ProvisioningInv => ResolvedMeansUser
  <2>1. SUFFICES ASSUME ProvisioningInv, Backed PROVE Outcomes \cap Good # {}
    BY DEF ProvisioningInv, ResolvedOK, ResolvedMeansUser
  <2>2. QED
    BY <2>1 DEF Backed, Outcomes
<1>2. QED
  BY <1>1, ProvisioningInvariant, PTL

\* A step that makes a settled job pending again is the commit of a replay
\* that had loaded that job: no worker, however stale, reopens one.
THEOREM ReopeningIsReplay == Spec => OnlyReplayReopens
<1> DEFINE Reopens(j) == job[j].status \in Terminal /\ job'[j].status = "pending"
           Replayed(j) == \E q \in Requests : replay[q].job = j /\ replay'[q] = NoReplay
<1>1. ProvisioningInv /\ [Next]_vars => [\A j \in Jobs : Reopens(j) => Replayed(j)]_vars
  <2>1. SUFFICES ASSUME ProvisioningInv, Next, NEW j \in Jobs, Reopens(j)
                 PROVE  Replayed(j)
    OBVIOUS
  <2>2. job' # job
    BY <2>1 DEF Terminal, Resolved
  <2>3. ASSUME NEW w \in Workers, Settle(w) PROVE FALSE
    <3>1. /\ worker[w] \in Hand
          /\ worker[w].outcome \in Confirming \cup {"dead", "retry", "keep"}
          /\ worker[w].outcome = "retry" => worker[w].attempt < MaxAttempts
      BY <2>1, <2>3, Typed DEF ProvisioningInv, HandOK, Settle
    <3>2. job' = [job EXCEPT ![worker[w].job] =
                    Settled(@, worker[w].outcome, worker[w].attempt)]
      BY <2>2, <2>3 DEF Settle
    <3>3. job[j] \in Row /\ worker[w].attempt \in 1..MaxAttempts
      BY <2>1, <3>1, Typed DEF ProvisioningInv, Hand
    <3>4. PICK row : /\ row = Settled(job[j], worker[w].outcome, worker[w].attempt)
                     /\ row.status = "pending" => job[j].status = "pending"
      BY <3>1, <3>3, SettledRow
    <3>5. job'[j] \in {job[j], row}
      BY <3>2, <3>4, <2>1, Typed DEF ProvisioningInv
    <3>6. QED
      BY <2>1, <3>4, <3>5 DEF Terminal, Resolved
  <2>4. ASSUME Erase PROVE FALSE
    BY <2>1, <2>4 DEF Erase, None
  <2>5. ASSUME NEW k \in Jobs, BackoffElapses(k) PROVE FALSE
    BY <2>1, <2>5, Typed DEF ProvisioningInv, BackoffElapses, Terminal, Resolved, Row
  <2>6. ASSUME NEW q \in Requests, ReplayCommit(q) PROVE Replayed(j)
    <3>1. replay'[q] = NoReplay
      BY <2>1, <2>6, Typed DEF ProvisioningInv, ReplayCommit
    <3>2. CASE \E free \in Jobs \ Stored : job' = [job EXCEPT ![free] = Fresh(keys + 1)]
      BY <2>1, <3>2, Typed DEF ProvisioningInv, Stored, Terminal, Resolved
    <3>3. CASE job' = [job EXCEPT ![replay[q].job] =
                            Reset(@, replay[q].row, keys + 1)]
      <4>1. replay[q].job = j
        BY <2>1, <3>3, Typed DEF ProvisioningInv, Terminal, Resolved
      <4>2. QED
        BY <3>1, <4>1
    <3>4. QED
      BY <2>2, <2>6, <3>2, <3>3 DEF ReplayCommit
  <2>7. QED
    BY <2>1, <2>2, <2>3, <2>4, <2>5, <2>6
    DEF Next, WorkerStep, Claim, Post, RecordAttempt, Reload, Restart, Crash,
        DeleteAborts, Delete, ReplayRead, Review, rows
<1>2. QED
  BY <1>1, ProvisioningInvariant, PTL DEF Spec, OnlyReplayReopens

-----------------------------------------------------------------------------
(* One worker process.  Its job is then pending until it settles it, with  *)
(* the attempt number that was claimed, or reset to 1.  If replays come one*)
(* at a time too, a settled job stays what the replay loaded until the     *)
(* replay writes it.                                                       *)

OneWorker == \A v, w \in Workers : v = w
OneReplay == \A p, q \in Requests : p = q

\* The audit rows have a failed attempt with the last number.
LastFailed == \E row \in attempts : row.attempt = MaxAttempts /\ row.outcome = "failed"

\* The attempt that w made is on record.
Audited(w) == \E row \in attempts : /\ row.attempt = worker[w].attempt
                                   /\ row.outcome = worker[w].outcome

Working(w) == worker[w].pc \in {"claimed", "posted", "recorded", "reloaded"}

HandSolo(w) ==
    LET me == worker[w] IN
    Working(w) /\ record.live =>
        /\ job[me.job].status = "pending"
        /\ me.pc # "reloaded" => job[me.job].attempt \in {1, me.attempt}
        /\ me.pc = "recorded" => Audited(w)
        /\ me.pc = "reloaded" => /\ me.outcome # "keep"
                                 /\ me.outcome = "dead" => LastFailed

LoadedSolo(q) ==
    LET my == replay[q] IN
    /\ my.pc = "idle" => my.job = NoJob
    /\ OneReplay /\ my.job # NoJob /\ record.live /\ my.row.status # "pending" =>
            /\ job[my.job].status = my.row.status
            /\ job[my.job].remote = my.row.remote

JobSolo(j) == /\ OneReplay /\ job[j].remote => job[j].status = "done"
              /\ job[j].status = "dead" => LastFailed

SoloInv == /\ ProvisioningInv
           /\ \A w \in Workers : HandSolo(w)
           /\ \A q \in Requests : LoadedSolo(q)
           /\ \A j \in Jobs : JobSolo(j)

LEMMA SoloTyped ==
  ASSUME ProvisioningInv
  PROVE  /\ job \in [Jobs -> Row] /\ worker \in [Workers -> Hand]
         /\ replay \in [Requests -> ReplayHand] /\ record \in Review3
         /\ attempts \subseteq Attempt
         /\ \A w \in Workers : Working(w) => worker[w].job \in Jobs
  BY Typed DEF ProvisioningInv, HandOK, Working

LEMMA InitSolo == Init => SoloInv
<1> SUFFICES ASSUME Init PROVE SoloInv
  OBVIOUS
<1>1. \A w \in Workers : HandSolo(w)
  BY DEF Init, Idle, HandSolo, Working
<1>2. \A q \in Requests : LoadedSolo(q)
  BY DEF Init, NoReplay, LoadedSolo
<1>3. \A j \in Jobs : JobSolo(j)
  BY DEF Init, JobSolo, Fresh, None
<1>4. QED
  BY <1>1, <1>2, <1>3, InitInv DEF SoloInv

\* Rows and replays as they were; the worker that moves shows what it holds.
LEMMA WorkerMovesSolo ==
  ASSUME SoloInv, ProvisioningInv', NEW w \in Workers, NEW hand \in Hand,
         worker' = [worker EXCEPT ![w] = hand], HandSolo(w)',
         UNCHANGED <<rows, replay>>
  PROVE  SoloInv'
<1>1. LastFailed' = LastFailed
  BY DEF LastFailed, rows
<1>2. \A v \in Workers : HandSolo(v)'
  <2>1. SUFFICES ASSUME NEW v \in Workers, v # w PROVE HandSolo(v)'
    OBVIOUS
  <2>2. worker'[v] = worker[v]
    BY <2>1, SoloTyped DEF SoloInv
  <2>3. HandSolo(v)
    BY DEF SoloInv
  <2>4. Audited(v)' = Audited(v)
    BY <2>2 DEF Audited, rows
  <2>5. QED
    BY <1>1, <2>2, <2>3, <2>4 DEF HandSolo, Working, rows
<1>3. \A q \in Requests : LoadedSolo(q)'
  BY DEF SoloInv, LoadedSolo, rows
<1>4. \A j \in Jobs : JobSolo(j)'
  BY <1>1 DEF SoloInv, JobSolo, rows
<1>5. QED
  BY <1>2, <1>3, <1>4 DEF SoloInv

LEMMA RestsSolo ==
  ASSUME SoloInv, ProvisioningInv', NEW w \in Workers, NEW hand \in {Idle, Down},
         worker' = [worker EXCEPT ![w] = hand], UNCHANGED <<rows, replay>>
  PROVE  SoloInv'
<1>1. hand \in Hand /\ hand.pc \in {"idle", "down"}
  BY RowsTyped DEF Idle, Down
<1>2. worker'[w] = hand
  BY SoloTyped DEF SoloInv
<1>3. HandSolo(w)'
  BY <1>1, <1>2 DEF HandSolo, Working
<1>4. QED
  BY <1>1, <1>3, WorkerMovesSolo

\* A record that is gone has no job, and nobody's memory matters any more.
LEMMA GoneSolo ==
  ASSUME SoloInv, ProvisioningInv', UNCHANGED replay, ~record'.live, \A j \in Jobs : job'[j] = None
  PROVE  SoloInv'
<1>1. (\A w \in Workers : HandSolo(w)') /\ \A q \in Requests : LoadedSolo(q)'
  BY DEF SoloInv, HandSolo, LoadedSolo
<1>2. \A j \in Jobs : JobSolo(j)'
  BY DEF JobSolo, None
<1>3. QED
  BY <1>1, <1>2 DEF SoloInv

LEMMA EraseSolo ==
  ASSUME SoloInv, ProvisioningInv', Erase, UNCHANGED replay PROVE SoloInv'
  BY GoneSolo DEF Erase

LEMMA ReviewSolo ==
  ASSUME SoloInv, ProvisioningInv', Review PROVE SoloInv'
<1>1. record.live /\ UNCHANGED <<job, attempts, worker, replay>>
  BY DEF Review
<1>2. (\A w \in Workers : HandSolo(w)') /\ \A j \in Jobs : JobSolo(j)'
  BY <1>1 DEF SoloInv, HandSolo, JobSolo, LastFailed, Audited, Working
<1>3. \A q \in Requests : LoadedSolo(q)'
  BY <1>1 DEF SoloInv, LoadedSolo
<1>4. QED
  BY <1>2, <1>3 DEF SoloInv

LEMMA ReplayReadSolo ==
  ASSUME SoloInv, ProvisioningInv', NEW q \in Requests, ReplayRead(q) PROVE SoloInv'
<1>1. UNCHANGED <<record, job, attempts, worker>>
  BY DEF ReplayRead, rows
<1>2. (\A w \in Workers : HandSolo(w)') /\ \A j \in Jobs : JobSolo(j)'
  BY <1>1 DEF SoloInv, HandSolo, JobSolo, LastFailed, Audited, Working
<1>3. \A p \in Requests : LoadedSolo(p)'
  <2>1. SUFFICES ASSUME NEW p \in Requests PROVE LoadedSolo(p)'
    OBVIOUS
  <2>2. CASE replay'[p] = replay[p]
    BY <1>1, <2>2 DEF SoloInv, LoadedSolo
  <2>3. CASE replay'[p] # replay[p]
    <3>1. p = q
      BY <2>3, SoloTyped DEF ReplayRead, SoloInv
    <3>2. CASE replay' = [replay EXCEPT ![q].pc = "loaded"]
      <4>1. replay[q] \in ReplayHand /\ replay'[q] = [replay[q] EXCEPT !.pc = "loaded"]
        BY <3>2, SoloTyped DEF SoloInv
      <4>2. replay[q].job = NoJob
        BY DEF SoloInv, LoadedSolo, ReplayRead
      <4>3. QED
        BY <1>1, <3>1, <4>1, <4>2 DEF LoadedSolo, ReplayHand
    <3>3. ASSUME NEW j \in Jobs, replay' = [replay EXCEPT ![q] =
                            [pc |-> "loaded", job |-> j, row |-> job[j]]]
          PROVE  LoadedSolo(p)'
      <4>1. replay'[q] = [pc |-> "loaded", job |-> j, row |-> job[j]]
        BY <3>3, SoloTyped DEF SoloInv
      <4>2. QED
        BY <1>1, <3>1, <4>1 DEF LoadedSolo
    <3>4. QED
      BY <3>2, <3>3 DEF ReplayRead
  <2>4. QED
    BY <2>2, <2>3
<1>4. QED
  BY <1>2, <1>3 DEF SoloInv

\* What a reset leaves: it never raises the attempt, and a status or a
\* remote id it did not see to change is the one that was there.
LEMMA ResetSolo ==
  ASSUME NEW current \in Row, NEW loaded \in Row, NEW key \in Nat
  PROVE  LET new == Reset(current, loaded, key) IN
         /\ new.attempt \in {1, current.attempt}
         /\ loaded.status # "pending" => new.status = "pending"
         /\ loaded.status = "pending" => new.status = current.status
         /\ loaded.remote => ~new.remote
         /\ ~loaded.remote => new.remote = current.remote
<1>1. Column(FALSE, loaded.remote, current.remote) =
            IF loaded.remote THEN FALSE ELSE current.remote
  BY Zenon DEF Column, Row
<1>2. /\ Reset(current, loaded, key).remote = Column(FALSE, loaded.remote, current.remote)
      /\ Reset(current, loaded, key).status = Column("pending", loaded.status, current.status)
      /\ Reset(current, loaded, key).attempt = Column(1, loaded.attempt, current.attempt)
  BY DEF Reset
<1>3. /\ loaded.remote => ~Reset(current, loaded, key).remote
      /\ ~loaded.remote => Reset(current, loaded, key).remote = current.remote
  BY <1>1, <1>2, Zenon
<1>4. QED
  BY <1>2, <1>3 DEF Column

LEMMA ReplayCommitSolo ==
  ASSUME SoloInv, OneWorker, ProvisioningInv', NEW q \in Requests, ReplayCommit(q)
  PROVE  SoloInv'
<1>1. UNCHANGED <<record, attempts, worker>> /\ LastFailed' = LastFailed
  BY DEF ReplayCommit, LastFailed
<1>2. \A p \in Requests : LoadedSolo(p)'
  <2>1. SUFFICES ASSUME NEW p \in Requests PROVE LoadedSolo(p)'
    OBVIOUS
  <2>2. LoadedSolo(p) /\ replay' = [replay EXCEPT ![q] = NoReplay]
    BY DEF ReplayCommit, SoloInv
  <2>3. CASE p = q
    <3>1. replay'[p] = NoReplay
      BY <2>2, <2>3, SoloTyped DEF SoloInv
    <3>2. QED
      BY <3>1 DEF LoadedSolo, NoReplay
  <2>4. CASE p # q
    <3>1. ~OneReplay /\ replay'[p] = replay[p]
      BY <2>2, <2>4, SoloTyped DEF OneReplay, SoloInv
    <3>2. QED
      BY <2>2, <3>1 DEF LoadedSolo
  <2>5. QED
    BY <2>3, <2>4
<1>3. CASE job' = job
  <2>1. \A w \in Workers : HandSolo(w)'
    BY <1>1, <1>3 DEF SoloInv, HandSolo, Audited, Working
  <2>2. \A j \in Jobs : JobSolo(j)'
    BY <1>1, <1>3 DEF SoloInv, JobSolo
  <2>3. QED
    BY <1>2, <2>1, <2>2 DEF SoloInv
<1>4. ASSUME NEW j \in Jobs, NEW row \in Row, job' = [job EXCEPT ![j] = row],
             \A w \in Workers : Working(w) /\ worker[w].job = j /\ record.live =>
                    row.status = "pending" /\ row.attempt \in {1, job[j].attempt},
             OneReplay /\ row.remote => row.status = "done",
             row.status = "dead" => LastFailed
      PROVE  SoloInv'
  <2>1. /\ job'[j] = row
        /\ \A k \in Jobs : k # j => job'[k] = job[k]
    BY <1>4, SoloTyped DEF SoloInv
  <2>2. \A w \in Workers : HandSolo(w)'
    <3>1. SUFFICES ASSUME NEW w \in Workers, Working(w), record.live PROVE HandSolo(w)'
      BY <1>1 DEF HandSolo, Working
    <3>2. HandSolo(w) /\ worker[w].job \in Jobs
      BY <3>1, SoloTyped DEF SoloInv
    <3>3. Audited(w)' = Audited(w)
      BY <1>1 DEF Audited
    <3>4. CASE worker[w].job # j
      BY <1>1, <2>1, <3>2, <3>3, <3>4 DEF HandSolo, Working
    <3>5. CASE worker[w].job = j
      BY <1>1, <1>4, <2>1, <3>1, <3>2, <3>3, <3>5 DEF HandSolo, Working
    <3>6. QED
      BY <3>4, <3>5
  <2>3. \A k \in Jobs : JobSolo(k)'
    <3>1. SUFFICES ASSUME NEW k \in Jobs PROVE JobSolo(k)'
      OBVIOUS
    <3>2. JobSolo(k)
      BY DEF SoloInv
    <3>3. CASE k = j
      BY <1>1, <1>4, <2>1, <3>3 DEF JobSolo
    <3>4. CASE k # j
      BY <1>1, <2>1, <3>2, <3>4 DEF JobSolo
    <3>5. QED
      BY <3>3, <3>4
  <2>4. QED
    BY <1>2, <2>2, <2>3 DEF SoloInv
<1>5. ASSUME record.live, NEW free \in Jobs \ Stored,
             job' = [job EXCEPT ![free] = Fresh(keys + 1)]
      PROVE  SoloInv'
  <2>1. PICK row \in Row : row = Fresh(keys + 1) /\ row.status = "pending" /\ ~row.remote
    <3>1. Fresh(keys + 1) \in Row
      BY RowsTyped, Typed DEF SoloInv, ProvisioningInv
    <3>2. QED
      BY <3>1 DEF Fresh
  <2>2. \A w \in Workers : Working(w) => worker[w].job # free
    BY <1>5 DEF SoloInv, HandSolo, Stored
  <2>3. QED
    BY <1>4, <1>5, <2>1, <2>2
<1>6. ASSUME record.live, replay[q].job # NoJob,
             job' = [job EXCEPT ![replay[q].job] = Reset(@, replay[q].row, keys + 1)]
      PROVE  SoloInv'
  <2>1. replay[q].job \in Jobs /\ replay[q].row \in Row /\ keys + 1 \in Nat
    BY <1>6, Typed DEF SoloInv, ProvisioningInv, ReplayHand
  <2>2. PICK j \in Jobs : j = replay[q].job
    BY <2>1
  <2>3. PICK loaded \in Row : loaded = replay[q].row
    BY <2>1
  <2>4. job[j] \in Row
    BY SoloTyped DEF SoloInv
  <2>5. PICK row \in Row :
            /\ row = Reset(job[j], loaded, keys + 1)
            /\ row.attempt \in {1, job[j].attempt}
            /\ loaded.status # "pending" => row.status = "pending"
            /\ loaded.status = "pending" => row.status = job[j].status
            /\ loaded.remote => ~row.remote
            /\ ~loaded.remote => row.remote = job[j].remote
    <3>1. PICK key \in Nat : key = keys + 1
      BY <2>1
    <3>2. PICK current \in Row : current = job[j]
      BY <2>4
    <3>3. Reset(current, loaded, key) \in Row
      BY ResetRow
    <3>4. LET new == Reset(current, loaded, key) IN
          /\ new.attempt \in {1, current.attempt}
          /\ loaded.status # "pending" => new.status = "pending"
          /\ loaded.status = "pending" => new.status = current.status
          /\ loaded.remote => ~new.remote
          /\ ~loaded.remote => new.remote = current.remote
      BY ResetSolo
    <3>5. QED
      BY <3>1, <3>2, <3>3, <3>4
  <2>6. job' = [job EXCEPT ![j] = row]
    BY <1>6, <2>2, <2>3, <2>5
  <2>7. JobSolo(j) /\ LoadedSolo(q)
    BY DEF SoloInv
  <2>8. OneReplay /\ loaded.status # "pending" =>
            job[j].status = loaded.status /\ job[j].remote = loaded.remote
    BY <1>6, <2>2, <2>3, <2>7 DEF LoadedSolo
  <2>9. \A w \in Workers : Working(w) /\ worker[w].job = j /\ record.live =>
            row.status = "pending" /\ row.attempt \in {1, job[j].attempt}
    BY <2>5 DEF SoloInv, HandSolo
  <2>10. OneReplay /\ row.remote => row.status = "done"
    <3>1. CASE loaded.status = "pending"
      BY <2>5, <2>7, <3>1, Zenon DEF JobSolo
    <3>2. CASE loaded.status # "pending"
      BY <2>5, <2>8, <3>2, Zenon
    <3>3. QED
      BY <3>1, <3>2
  <2>11. row.status = "dead" => LastFailed
    BY <2>5, <2>7 DEF JobSolo
  <2>12. QED
    BY <1>4, <2>6, <2>9, <2>10, <2>11
<1>7. QED
  BY <1>3, <1>5, <1>6 DEF ReplayCommit

LEMMA ClaimSolo ==
  ASSUME SoloInv, ProvisioningInv', NEW w \in Workers, NEW j \in Jobs, Claim(w, j)
  PROVE  SoloInv'
<1> DEFINE hand == [pc |-> "claimed", job |-> j, attempt |-> job[j].attempt,
                    key |-> job[j].key, outcome |-> "none"]
<1>1. hand \in Hand
  BY SoloTyped DEF SoloInv, Hand, Row
<1>2. worker' = [worker EXCEPT ![w] = hand] /\ UNCHANGED <<rows, replay>>
  BY DEF Claim
<1>3. worker'[w] = hand
  BY <1>1, <1>2, SoloTyped DEF SoloInv
<1>4. HandSolo(w)'
  BY <1>2, <1>3 DEF HandSolo, Claim, Claimable, Due, rows
<1>5. QED
  BY <1>1, <1>2, <1>4, WorkerMovesSolo

LEMMA PostSolo ==
  ASSUME SoloInv, ProvisioningInv', NEW w \in Workers, Post(w) PROVE SoloInv'
<1>1. PICK outcome \in Answers : worker' = [worker EXCEPT ![w] =
                [pc |-> "posted", job |-> worker[w].job, attempt |-> worker[w].attempt,
                 key |-> worker[w].key, outcome |-> outcome]]
  BY DEF Post, Answers, Good
<1> DEFINE hand == [pc |-> "posted", job |-> worker[w].job,
                    attempt |-> worker[w].attempt, key |-> worker[w].key,
                    outcome |-> outcome]
<1>2. hand \in Hand /\ worker' = [worker EXCEPT ![w] = hand]
  BY <1>1, SoloTyped DEF SoloInv, Hand
<1>3. worker'[w] = hand /\ UNCHANGED <<rows, replay>> /\ Working(w)
  BY <1>2, SoloTyped DEF SoloInv, Post, Working
<1>4. HandSolo(w)'
  BY <1>3 DEF HandSolo, SoloInv, Post, rows
<1>5. QED
  BY <1>2, <1>3, <1>4, WorkerMovesSolo

LEMMA RecordAttemptSolo ==
  ASSUME SoloInv, OneWorker, ProvisioningInv', NEW w \in Workers, RecordAttempt(w)
  PROVE  SoloInv'
<1> DEFINE entry == [attempt |-> worker[w].attempt, key |-> worker[w].key,
                     outcome |-> worker[w].outcome]
<1>1. worker[w] \in Hand /\ worker[w].outcome \in Answers /\ Working(w)
  BY Typed DEF SoloInv, ProvisioningInv, HandOK, RecordAttempt, Working
<1>2. entry \in Attempt /\ attempts' = attempts \cup {entry}
  BY <1>1 DEF Attempt, Hand, RecordAttempt
<1>3. entry \in attempts' /\ attempts \subseteq attempts'
  BY <1>2
<1>4. LastFailed => LastFailed'
  BY <1>3 DEF LastFailed
<1>5. worker'[w] = [worker[w] EXCEPT !.pc = "recorded"]
      /\ UNCHANGED <<record, job, replay>>
  BY SoloTyped DEF SoloInv, RecordAttempt
<1>6. \A v \in Workers : HandSolo(v)'
  <2>1. SUFFICES HandSolo(w)'
    BY DEF OneWorker
  <2>2. Audited(w)'
    BY <1>1, <1>3, <1>5 DEF Audited, Hand
  <2>3. QED
    BY <1>1, <1>5, <2>2 DEF HandSolo, SoloInv, RecordAttempt, Hand
<1>7. \A q \in Requests : LoadedSolo(q)'
  BY <1>5 DEF SoloInv, LoadedSolo
<1>8. \A j \in Jobs : JobSolo(j)'
  BY <1>4, <1>5 DEF SoloInv, JobSolo
<1>9. QED
  BY <1>6, <1>7, <1>8 DEF SoloInv

LEMMA ReloadSolo ==
  ASSUME SoloInv, ProvisioningInv', NEW w \in Workers, Reload(w) PROVE SoloInv'
<1>1. /\ worker[w] \in Hand /\ worker[w].job \in Jobs /\ worker[w].outcome \in Answers
      /\ Working(w) /\ UNCHANGED <<rows, replay>>
  BY Typed DEF SoloInv, ProvisioningInv, HandOK, Reload, Working
<1>2. PICK row \in Row : row = job[worker[w].job]
  BY <1>1, SoloTyped DEF SoloInv
<1>3. PICK verdict : verdict = Verdict(worker[w].outcome, row)
  OBVIOUS
<1> DEFINE hand == [pc |-> "reloaded", job |-> worker[w].job, attempt |-> row.attempt,
                    key |-> worker[w].key, outcome |-> verdict]
<1>4. CASE record.live
  <2>1. worker' = [worker EXCEPT ![w] = hand]
    BY <1>2, <1>3, <1>4 DEF Reload
  <2>2. verdict \in Confirming \cup {"dead", "retry", "keep"}
    BY <1>1, <1>3, VerdictSound
  <2>3. hand \in Hand
    BY <1>1, <2>2 DEF Hand, Row, Confirming, Terminal, Resolved
  <2>4. worker'[w] = hand
    BY <2>1, <2>3, SoloTyped DEF SoloInv
  <2>5. /\ row.status = "pending" /\ row.attempt \in {1, worker[w].attempt}
        /\ Audited(w)
    BY <1>1, <1>2, <1>4 DEF SoloInv, HandSolo, Reload
  <2>6. verdict # "keep"
    BY <1>3, <2>5 DEF Verdict
  <2>7. verdict = "dead" => LastFailed
    <3>1. SUFFICES ASSUME verdict = "dead" PROVE LastFailed
      OBVIOUS
    <3>2. worker[w].outcome = "failed" /\ ~(row.attempt < MaxAttempts)
      BY <1>1, <1>3, <3>1 DEF Verdict, Answers, Good
    <3>3. worker[w].attempt \in 1..MaxAttempts /\ row.attempt \in 1..MaxAttempts
      BY <1>1 DEF Hand, Row
    <3>4. worker[w].attempt = MaxAttempts
      BY <2>5, <3>2, <3>3, ProvisioningAssumption
    <3>5. QED
      BY <2>5, <3>2, <3>4 DEF Audited, LastFailed
  <2>8. LastFailed' = LastFailed
    BY <1>1 DEF LastFailed, rows
  <2>9. HandSolo(w)'
    BY <1>1, <2>4, <2>5, <2>6, <2>7, <2>8, <1>2 DEF HandSolo, rows
  <2>10. QED
    BY <1>1, <2>1, <2>3, <2>9, WorkerMovesSolo
<1>5. CASE ~record.live
  <2>1. worker' = [worker EXCEPT ![w] = Down]
    BY <1>5 DEF Reload
  <2>2. QED
    BY <1>1, <2>1, RestsSolo
<1>6. QED
  BY <1>4, <1>5

\* A pending job changes and stays in order; the worker that wrote it rests.
LEMMA PendingJobSolo ==
  ASSUME SoloInv, OneWorker, ProvisioningInv', NEW j \in Jobs, NEW row \in Row,
         job[j].status = "pending", record.live,
         job' = [job EXCEPT ![j] = row],
         OneReplay /\ row.remote => row.status = "done",
         row.status = "dead" => LastFailed,
         \/ UNCHANGED worker /\ row.status = "pending" /\ row.attempt = job[j].attempt
         \/ \E w \in Workers : worker' = [worker EXCEPT ![w] = Idle],
         UNCHANGED <<record, attempts, replay>>
  PROVE  SoloInv'
<1>1. job'[j] = row /\ \A k \in Jobs : k # j => job'[k] = job[k]
  BY SoloTyped DEF SoloInv
<1>2. \A w \in Workers : HandSolo(w)'
  <2>1. SUFFICES ASSUME NEW w \in Workers PROVE HandSolo(w)'
    OBVIOUS
  <2>2. CASE \E v \in Workers : worker' = [worker EXCEPT ![v] = Idle]
    <3>1. worker' = [worker EXCEPT ![w] = Idle]
      BY <2>2 DEF OneWorker
    <3>2. worker'[w] = Idle
      BY <3>1, SoloTyped DEF SoloInv
    <3>3. QED
      BY <3>2 DEF HandSolo, Working, Idle
  <2>3. CASE UNCHANGED worker /\ row.status = "pending" /\ row.attempt = job[j].attempt
    <3>1. HandSolo(w) /\ (Working(w) => worker[w].job \in Jobs)
      BY SoloTyped DEF SoloInv
    <3>2. Audited(w)' = Audited(w) /\ LastFailed' = LastFailed
      BY <2>3 DEF Audited, LastFailed
    <3>3. QED
      BY <1>1, <2>3, <3>1, <3>2 DEF HandSolo, Working
  <2>4. QED
    BY <2>2, <2>3
<1>3. \A q \in Requests : LoadedSolo(q)'
  <2>1. SUFFICES ASSUME NEW q \in Requests PROVE LoadedSolo(q)'
    OBVIOUS
  <2>2. LoadedSolo(q) /\ replay[q].job \in Jobs \cup {NoJob}
    BY SoloTyped DEF SoloInv, ReplayHand
  <2>3. CASE replay[q].job = j
    BY <1>1, <2>2, <2>3 DEF LoadedSolo
  <2>4. CASE replay[q].job # j
    BY <1>1, <2>2, <2>4 DEF LoadedSolo
  <2>5. QED
    BY <2>3, <2>4
<1>4. \A k \in Jobs : JobSolo(k)'
  <2>1. SUFFICES ASSUME NEW k \in Jobs PROVE JobSolo(k)'
    OBVIOUS
  <2>2. JobSolo(k) /\ LastFailed' = LastFailed
    BY DEF SoloInv, LastFailed
  <2>3. CASE k = j
    BY <1>1, <2>2, <2>3 DEF JobSolo
  <2>4. CASE k # j
    BY <1>1, <2>2, <2>4 DEF JobSolo
  <2>5. QED
    BY <2>3, <2>4
<1>5. QED
  BY <1>2, <1>3, <1>4 DEF SoloInv

LEMMA SettleSolo ==
  ASSUME SoloInv, OneWorker, ProvisioningInv', NEW w \in Workers, Settle(w)
  PROVE  SoloInv'
<1>1. /\ worker[w] \in Hand /\ worker[w].job \in Jobs /\ Working(w)
      /\ worker[w].outcome \in Confirming \cup {"dead", "retry", "keep"}
      /\ worker[w].outcome = "retry" => worker[w].attempt < MaxAttempts
  BY Typed DEF SoloInv, ProvisioningInv, HandOK, Settle, Working
<1>2. CASE worker[w].job \in Stored
  <2>1. PICK j \in Jobs : j = worker[w].job
    BY <1>1
  <2>2. record.live
    BY <1>2, Typed DEF Stored, SoloInv, ProvisioningInv, RowsOK, Review3
  <2>3. job[j] \in Row /\ worker[w].attempt \in 1..MaxAttempts
    BY <1>1, SoloTyped DEF SoloInv, Hand
  <2>4. /\ job[j].status = "pending" /\ worker[w].outcome # "keep"
        /\ worker[w].outcome = "dead" => LastFailed
        /\ OneReplay => ~job[j].remote
    BY <1>1, <2>1, <2>2 DEF SoloInv, HandSolo, Settle, JobSolo
  <2>5. PICK row \in Row : row = Settled(job[j], worker[w].outcome, worker[w].attempt)
    BY <1>1, <2>3, SettledRow
  <2>6. job' = [job EXCEPT ![j] = row] /\ worker' = [worker EXCEPT ![w] = Idle]
    BY <1>2, <2>1, <2>5 DEF Settle
  <2>7. /\ OneReplay /\ row.remote => row.status = "done"
        /\ row.status = "dead" => LastFailed
    <3>1. CASE worker[w].outcome \in {"done", "done_unnamed"}
      BY <2>3, <2>5, <3>1 DEF Settled, Row
    <3>2. CASE worker[w].outcome \in {"skipped_exists", "dead"}
      BY <2>3, <2>4, <2>5, <3>2 DEF Settled, Row
    <3>3. CASE worker[w].outcome = "retry"
      BY <2>3, <2>4, <2>5, <3>3 DEF Settled, Row
    <3>4. QED
      BY <1>1, <2>4, <3>1, <3>2, <3>3 DEF Confirming
  <2>8. QED
    BY <2>2, <2>4, <2>6, <2>7, PendingJobSolo DEF Settle
<1>3. CASE worker[w].job \notin Stored
  <2>1. PICK hand \in {Idle, Down} : worker' = [worker EXCEPT ![w] = hand]
    BY <1>3 DEF Settle
  <2>2. UNCHANGED <<rows, replay>>
    BY <1>3 DEF Settle, rows
  <2>3. QED
    BY <2>1, <2>2, RestsSolo
<1>4. QED
  BY <1>2, <1>3

LEMMA BackoffElapsesSolo ==
  ASSUME SoloInv, OneWorker, ProvisioningInv', NEW j \in Jobs, BackoffElapses(j)
  PROVE  SoloInv'
<1>1. job[j] \in Row /\ job[j].status = "pending" /\ JobSolo(j)
  BY SoloTyped DEF BackoffElapses, SoloInv
<1>2. record.live
  BY <1>1, Typed DEF SoloInv, ProvisioningInv, RowsOK, Review3
<1>3. PICK row \in Row : /\ row = [job[j] EXCEPT !.due = TRUE]
                         /\ row.status = "pending" /\ row.attempt = job[j].attempt
                         /\ row.remote = job[j].remote
  <2>1. [job[j] EXCEPT !.due = TRUE] \in Row
    BY <1>1 DEF Row
  <2>2. QED
    BY <1>1, <2>1 DEF Row
<1>4. job' = [job EXCEPT ![j] = row] /\ UNCHANGED <<record, attempts, worker, replay>>
  BY <1>3 DEF BackoffElapses
<1>5. OneReplay => ~row.remote
  BY <1>1, <1>3, Zenon DEF JobSolo
<1>6. QED
  BY <1>1, <1>2, <1>3, <1>4, <1>5, PendingJobSolo

LEMMA NextSolo == OneWorker /\ SoloInv /\ [Next]_vars => SoloInv'
<1> SUFFICES ASSUME OneWorker, SoloInv, [Next]_vars PROVE SoloInv'
  OBVIOUS
<1>0. ProvisioningInv'
  BY NextInv DEF SoloInv
<1>1. ASSUME NEW w \in Workers, Crash(w) \/ Restart(w) PROVE SoloInv'
  <2>1. PICK hand \in {Idle, Down} : worker' = [worker EXCEPT ![w] = hand]
    BY <1>1 DEF Crash, Restart
  <2>2. UNCHANGED <<rows, replay>>
    BY <1>1 DEF Crash, Restart
  <2>3. QED
    BY <1>0, <2>1, <2>2, RestsSolo
<1>2. ASSUME NEW w \in Workers, WorkerStep(w) PROVE SoloInv'
  BY <1>0, <1>1, <1>2, ClaimSolo, PostSolo, RecordAttemptSolo, ReloadSolo, SettleSolo
  DEF WorkerStep
<1>3. ASSUME NEW w \in Workers, DeleteAborts(w) PROVE SoloInv'
  BY <1>0, <1>3, EraseSolo DEF DeleteAborts
<1>4. CASE Delete
  BY <1>0, <1>4, EraseSolo DEF Delete
<1>5. CASE UNCHANGED vars
  <2>1. \A w \in Workers : HandSolo(w)'
    BY <1>5 DEF vars, SoloInv, HandSolo, Working, Audited, LastFailed
  <2>2. \A q \in Requests : LoadedSolo(q)'
    BY <1>5 DEF vars, SoloInv, LoadedSolo
  <2>3. \A j \in Jobs : JobSolo(j)'
    BY <1>5 DEF vars, SoloInv, JobSolo, LastFailed
  <2>4. QED
    BY <1>0, <2>1, <2>2, <2>3 DEF SoloInv
<1>6. QED
  BY <1>0, <1>1, <1>2, <1>3, <1>4, <1>5, ReplayReadSolo, ReplayCommitSolo,
     BackoffElapsesSolo, ReviewSolo DEF Next

\* One worker: its job is pending until it settles it, whatever replays do
\* meanwhile; and if these come one at a time, what a replay loaded as settled
\* is still so when the replay writes it.
THEOREM OneWorkerInvariant == ASSUME OneWorker PROVE Spec => []SoloInv
  BY InitSolo, NextSolo, PTL DEF Spec

\* A "dead" job had its last attempt number used up by a failed attempt,
\* although the worker decides on the attempt number it reloads, which a
\* replay may have reset since the attempt was made.
THEOREM DeadAfterLastAttempt == ASSUME OneWorker PROVE Spec => []DeadSpentLastAttempt
<1>1. SoloInv => DeadSpentLastAttempt
  BY DEF SoloInv, JobSolo, LastFailed, DeadSpentLastAttempt
<1>2. QED
  BY <1>1, OneWorkerInvariant, PTL

\* A remote id stands only at a job that ended "done": a replay that overlaps
\* the worker's two transactions either forgets the id and reopens the job or
\* leaves both.
THEOREM RemoteIdOfDone == ASSUME OneWorker, OneReplay PROVE Spec => []IdOnlyWhenDone
<1>1. SoloInv => IdOnlyWhenDone
  BY DEF SoloInv, JobSolo, IdOnlyWhenDone
<1>2. QED
  BY <1>1, OneWorkerInvariant, PTL
=============================================================================
