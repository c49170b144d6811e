---------------------------- MODULE RecordEditing ----------------------------
(***************************************************************************)
(* The requests that change the records of one ingestion run after the     *)
(* upload: PATCH /records/{id}, POST .../approve, PUT /column-mappings and *)
(* DELETE, each in a session and a transaction of its own, at READ         *)
(* COMMITTED.  A request reads, computes in memory and writes later; the   *)
(* ORM leaves a column out of its UPDATE when the value it computed equals *)
(* the value it read.                                                      *)
(*   PATCH:   patch -> patching -> flushed -> totalled -> counted -> commit*)
(*   approve: approve -> commit                                            *)
(*   review:  review -> reviewing -> locked -> commit                      *)
(***************************************************************************)
EXTENDS Integers, FiniteSets

CONSTANTS
    Records,        \* the records of the run
    Requests,       \* request threads
    NoRequest,
    Values,         \* what a record's fields may hold
    Doubtful,       \* values the validators refuse under the strict mapping
    Misread,        \* values only the checks on an invoice's reading doubt
    MaxRequests     \* bound: requests that edit, approve or review

ASSUME EditingAssumption ==
    /\ IsFiniteSet(Records)
    /\ NoRequest \notin Requests
    /\ Values # {} /\ Doubtful \subseteq Values /\ Misread \subseteq Values
    /\ MaxRequests \in Nat

VARIABLES
    rows,           \* committed client_records
    run,            \* committed ingestion_runs row: its mapping and counters
    request,        \* what each request holds in memory, and its unseen writes
    runLock,        \* the request that has updated the run and not committed
    \* history and bounds
    seen,           \* the fields a record had when its approver looked at it
    recast,         \* records whose approved fields a review has changed since
    raced,          \* records written while another request had read them
    overlapped,     \* two requests that count, or one and a delete, overlapped
    stale,          \* a record was deleted since the counters were computed
    begun

vars == <<rows, run, request, runLock, seen, recast, raced, overlapped, stale, begun>>
history == <<seen, recast, raced, overlapped, stale>>

Row == [live : BOOLEAN, value : Values, flagged : BOOLEAN, approved : BOOLEAN]
Run == [strict : BOOLEAN, flagged : Int, clean : Int]
Pcs == {"idle", "patch", "patching", "flushed", "totalled", "counted", "approve",
        "review", "reviewing", "locked"}

\* coerce_and_validate finds an issue with these fields under this mapping.
Issue(strict, value) == strict /\ value \in Doubtful

Live == {r \in Records : rows[r].live}
FlaggedOf(table) == {r \in Records : table[r].live /\ table[r].flagged}
Ready(row) == ~row.flagged \/ row.approved
Active == {s \in Requests : request[s].pc # "idle"}
\* An edit or a review writes the run's counters, an approval does not.
Counting(s) == request[s].pc \notin {"idle", "approve"}

\* No request, nothing read, nothing counted.
AnyRun == [strict |-> FALSE, flagged |-> 0, clean |-> 0]
NoCounts == [total |-> 0, flagged |-> 0]
AnyValue == CHOOSE v \in Values : TRUE
Gone == [live |-> FALSE, value |-> AnyValue, flagged |-> FALSE, approved |-> FALSE]
NoRows == [r \in {} |-> Gone]
Idle == [pc |-> "idle", read |-> NoRows, run |-> AnyRun, made |-> [r \in {} |-> AnyValue],
         strict |-> FALSE, counts |-> NoCounts]

TypeOK ==
    /\ rows \in [Records -> Row]
    /\ run \in Run
    /\ \A s \in Requests :
        /\ request[s].pc \in Pcs
        /\ DOMAIN request[s].read \subseteq Records
        /\ request[s].pc \notin {"idle", "review", "reviewing", "locked"}
                => Cardinality(DOMAIN request[s].read) = 1
    /\ runLock = NoRequest \/ request[runLock].pc = "locked"
    /\ raced \subseteq Records /\ recast \subseteq Records /\ begun \in 0..MaxRequests

\* A run right after its upload: flags and counters are ingest_file's, which
\* seeds a record's issues with those its extraction found.
Init ==
    /\ \E strict \in BOOLEAN, value \in [Records -> Values] :
        LET bad == {r \in Records : \/ Issue(strict, value[r])
                                   \/ value[r] \in Misread} IN
        /\ rows = [r \in Records |-> [live |-> TRUE, value |-> value[r],
                                      flagged |-> r \in bad, approved |-> FALSE]]
        /\ run = [strict |-> strict, flagged |-> Cardinality(bad),
                  clean |-> Cardinality(Records \ bad)]
    /\ request = [s \in Requests |-> Idle]
    /\ runLock = NoRequest
    /\ seen = [r \in Records |-> AnyValue]
    /\ recast = {} /\ raced = {} /\ overlapped = FALSE /\ stale = FALSE
    /\ begun = 0

-----------------------------------------------------------------------------
(* Steps every request shares                                              *)

\* What a request uses again of a row it has read: an approval the fields its
\* approver looks at, an edit and a review what the ORM compares with.
Loaded(pc, row) ==
    [live |-> TRUE, value |-> IF pc = "approve" THEN row.value ELSE AnyValue,
     flagged |-> row.flagged, approved |-> pc # "review" /\ row.approved]

\* "made": what the request's body makes of the fields of each record it reads.
Begin(s, pc, set, made, strict) ==
    /\ request[s].pc = "idle"
    /\ begun < MaxRequests /\ begun' = begun + 1
    /\ set # {} /\ set \subseteq Live
    /\ request' = [request EXCEPT ![s] =
            [pc |-> pc, read |-> [r \in set |-> Loaded(pc, rows[r])], run |-> AnyRun,
             made |-> made, strict |-> strict, counts |-> NoCounts]]
    /\ UNCHANGED <<rows, run, runLock, history>>

\* The request goes on; it keeps what it has read.
Moved(q, pc, loaded, counts) ==
    [pc |-> pc, read |-> q.read, run |-> loaded, made |-> q.made,
     strict |-> q.strict, counts |-> counts]

\* The one record of a PATCH or an approval.
Of(s) == CHOOSE r \in DOMAIN request[s].read : TRUE

\* A PATCH holds its row from the flush to the commit.
RowLocked(r) == \E s \in Requests : /\ request[s].pc \in {"flushed", "totalled", "counted"}
                                    /\ r \in DOMAIN request[s].read

\* The session is closed: its locks go, its uncommitted writes with them.
Released(s) == IF runLock = s THEN NoRequest ELSE runLock
Fail(s) == /\ request' = [request EXCEPT ![s] = Idle]
           /\ runLock' = Released(s)
           /\ UNCHANGED <<rows, run, history, begun>>

\* A commit of s that writes these records or the run.
Commit(s, written) ==
    /\ request' = [request EXCEPT ![s] = Idle]
    /\ runLock' = Released(s)
    /\ raced' = raced \cup {r \in written : \E t \in Active \ {s} :
                                            r \in DOMAIN request[t].read}
    /\ overlapped' = \/ overlapped
                     \/ Counting(s) /\ \E t \in Requests \ {s} : Counting(t)
    /\ UNCHANGED begun

\* A column keeps what is there if the request saw no change.
Column(computed, loaded, current) == IF computed # loaded THEN computed ELSE current

\* Mutation: rows_clean counts all the records.
RunWrittenTotal(s, strict, flagged, total) ==
    LET me == request[s] IN
    [strict  |-> Column(strict, me.run.strict, run.strict),
     flagged |-> Column(flagged, me.run.flagged, run.flagged),
     clean   |-> Column(total, me.run.clean, run.clean)]

\* The run's UPDATE, computed from these counts.
RunWritten(s, strict, flagged, total) ==
    LET me == request[s] IN
    [strict  |-> Column(strict, me.run.strict, run.strict),
     flagged |-> Column(flagged, me.run.flagged, run.flagged),
     clean   |-> Column(total - flagged, me.run.clean, run.clean)]

WritesRun(s, strict, flagged, total) ==
    [strict |-> strict, flagged |-> flagged, clean |-> total - flagged]
        # request[s].run

-----------------------------------------------------------------------------
(* PATCH /records/{id}                                                     *)

PatchRead(s, r, v) == Begin(s, "patch", {r}, [k \in {r} |-> v], FALSE)

\* record.ingestion_run: the mapping the new values are validated against.
LoadRun(s) ==
    /\ request[s].pc \in {"patch", "review"}
    /\ request' = [request EXCEPT ![s] = Moved(@,
            IF @.pc = "patch" THEN "patching" ELSE "reviewing", run, NoCounts)]
    /\ UNCHANGED <<rows, run, runLock, history, begun>>

\* A field the run's mapping does not have: 400.
Refuse(s) == request[s].pc = "patching" /\ Fail(s)

\* Mutation: a row that is gone is tried again, in the hope that it comes back.
FlushRetries(s) == /\ request[s].pc = "patching"
                   /\ ~RowLocked(Of(s)) /\ Of(s) \in Live
                   /\ request' = [request EXCEPT ![s] = Moved(@, "flushed", @.run, NoCounts)]
                   /\ UNCHANGED <<rows, run, runLock, history, begun>>
\* db.flush(): waits for the row, fails if it is gone.
Flush(s) ==
    /\ request[s].pc = "patching"
    /\ ~RowLocked(Of(s))
    /\ IF Of(s) \in Live
       THEN /\ request' = [request EXCEPT ![s] = Moved(@, "flushed", @.run, NoCounts)]
            /\ UNCHANGED <<rows, run, runLock, history, begun>>
       ELSE Fail(s)

\* Mutations: has_issues, approved_at not written.
PatchedKeepsFlag(s) ==
    LET me == request[s] old == me.read[Of(s)] IN
    [rows EXCEPT ![Of(s)] =
        [live |-> TRUE, value |-> me.made[Of(s)], flagged |-> @.flagged,
         approved |-> Column(FALSE, old.approved, @.approved)]]
PatchedKeepsApproval(s) ==
    LET me == request[s] old == me.read[Of(s)] IN
    [rows EXCEPT ![Of(s)] =
        [live |-> TRUE, value |-> me.made[Of(s)],
         flagged |-> Column(Issue(me.run.strict, me.made[Of(s)]), old.flagged, @.flagged),
         approved |-> @.approved]]

\* The table as the PATCH sees it after its flush and everybody after its
\* commit.
Patched(s) ==
    LET me == request[s] old == me.read[Of(s)] IN
    [rows EXCEPT ![Of(s)] =
        [live |-> TRUE, value |-> me.made[Of(s)],
         flagged |-> Column(Issue(me.run.strict, me.made[Of(s)]), old.flagged, @.flagged),
         approved |-> Column(FALSE, old.approved, @.approved)]]

\* Mutation: the flagged records are counted first.
CountsSwapped(s) ==
    IF request[s].pc = "flushed"
    THEN [total |-> 0, flagged |-> Cardinality(FlaggedOf(Patched(s)))]
    ELSE [total |-> Cardinality(Live), flagged |-> request[s].counts.flagged]

\* Two statements: all records of the run, then the flagged ones.
Counts(s) ==
    IF request[s].pc = "flushed"
    THEN [total |-> Cardinality(Live), flagged |-> 0]
    ELSE [total |-> request[s].counts.total,
          flagged |-> Cardinality(FlaggedOf(Patched(s)))]

Count(s) ==
    /\ request[s].pc \in {"flushed", "totalled"}
    /\ request' = [request EXCEPT ![s] = Moved(@,
            IF @.pc = "flushed" THEN "totalled" ELSE "counted", @.run, Counts(s))]
    /\ UNCHANGED <<rows, run, runLock, history, begun>>

\* The commit updates the run, so it waits for a review that holds it.
PatchCommit(s) ==
    LET total == request[s].counts.total
        flagged == request[s].counts.flagged
        strict == request[s].run.strict IN
    /\ request[s].pc = "counted"
    /\ WritesRun(s, strict, flagged, total) => runLock = NoRequest
    /\ rows' = Patched(s)
    /\ run' = RunWritten(s, strict, flagged, total)
    /\ Commit(s, {Of(s)})
    /\ recast' = recast \ {Of(s)} /\ stale' = FALSE
    /\ UNCHANGED seen

-----------------------------------------------------------------------------
(* POST /records/{id}/approve                                              *)

ApproveRead(s, r) == Begin(s, "approve", {r}, [k \in {r} |-> rows[r].value], FALSE)

Approve(s) ==
    LET r == Of(s) IN
    /\ request[s].pc = "approve"
    /\ IF request[s].read[r].approved THEN Fail(s)
       ELSE /\ ~RowLocked(r)
            /\ IF r \in Live
               THEN /\ rows' = [rows EXCEPT ![r] = [live |-> TRUE, value |-> @.value,
                                flagged |-> @.flagged, approved |-> TRUE]]
                    /\ seen' = [seen EXCEPT ![r] = request[s].read[r].value]
                    /\ recast' = recast \ {r}
                    /\ Commit(s, {r})
                    /\ UNCHANGED <<run, stale>>
               ELSE Fail(s)

-----------------------------------------------------------------------------
(* PUT /column-mappings/{fingerprint} with apply_to_run_id                 *)

\* The new mapping renames and drops fields, and coerces the others anew.
ReviewRead(s, made, strict) == Begin(s, "review", Live, made, strict)

ReviewFlagged(s) == {r \in DOMAIN request[s].read :
                        Issue(request[s].strict, request[s].made[r])}
ReviewTotal(s) == Cardinality(DOMAIN request[s].read)
ReviewWritesRun(s) == WritesRun(s, request[s].strict,
                                Cardinality(ReviewFlagged(s)), ReviewTotal(s))

\* The flush at commit updates the parent first: the run, then its records.
ReviewLock(s) ==
    /\ request[s].pc = "reviewing"
    /\ ReviewWritesRun(s) => runLock = NoRequest
    /\ runLock' = IF ReviewWritesRun(s) THEN s ELSE runLock
    /\ request' = [request EXCEPT ![s] = Moved(@, "locked", @.run, NoCounts)]
    /\ UNCHANGED <<rows, run, history, begun>>

\* The records' UPDATEs wait for PATCHes that hold one, and fail if one of
\* them is gone.  All fields are written, approved_at is not.
ReviewCommit(s) ==
    LET me == request[s] set == DOMAIN request[s].read IN
    /\ me.pc = "locked"
    /\ \A r \in set : ~RowLocked(r)
    /\ IF set \subseteq Live
       THEN /\ rows' = [r \in Records |->
                IF r \in set
                THEN [live |-> TRUE, value |-> me.made[r],
                      flagged |-> Column(r \in ReviewFlagged(s),
                                         me.read[r].flagged, rows[r].flagged),
                      approved |-> rows[r].approved]
                ELSE rows[r]]
            /\ run' = RunWritten(s, me.strict, Cardinality(ReviewFlagged(s)),
                                 ReviewTotal(s))
            /\ Commit(s, set)
            /\ recast' = recast \cup {r \in set : rows[r].approved /\ me.made[r] # rows[r].value}
            /\ stale' = FALSE
            /\ UNCHANGED seen
       ELSE Fail(s)

-----------------------------------------------------------------------------
(* DELETE /records/{id}: one statement; the run's counters stay.           *)
Delete(r) ==
    /\ r \in Live /\ ~RowLocked(r)
    /\ rows' = [rows EXCEPT ![r] = Gone]
    /\ seen' = [seen EXCEPT ![r] = AnyValue]
    /\ recast' = recast \ {r} /\ raced' = raced \ {r}
    /\ stale' = TRUE
    /\ overlapped' = (overlapped \/ \E s \in Requests : Counting(s))
    /\ UNCHANGED <<run, request, runLock, begun>>

\* A PATCH that waits for the run and a review that waits for its record:
\* PostgreSQL aborts one of them.
DeadlockAborts(s, t) ==
    /\ request[s].pc = "counted"
    /\ WritesRun(s, request[s].run.strict, request[s].counts.flagged, request[s].counts.total)
    /\ runLock = t
    /\ Of(s) \in DOMAIN request[t].read
    /\ Fail(s) \/ Fail(t)

Step(s) == \/ LoadRun(s) \/ Flush(s) \/ Count(s) \/ PatchCommit(s)
           \/ Approve(s) \/ ReviewLock(s) \/ ReviewCommit(s)
           \/ \E t \in Requests : DeadlockAborts(s, t)

Next == \/ \E s \in Requests :
            \/ \E r \in Records : ApproveRead(s, r)
                                  \/ \E v \in Values : PatchRead(s, r, v)
            \/ \E made \in [Live -> Values], strict \in BOOLEAN : ReviewRead(s, made, strict)
            \/ Refuse(s)
            \/ Step(s)
        \/ \E r \in Records : Delete(r)

Spec == Init /\ [][Next]_vars
\* A request that has begun goes on; nobody is obliged to begin one.
FairSpec == Spec /\ \A s \in Requests : WF_vars(Step(s))

-----------------------------------------------------------------------------
(* What holds however requests overlap                                     *)

\* The counters of a run never go below zero, although the two counts are
\* taken by two statements between which other requests delete records.
CountersNonNegative == run.flagged >= 0 /\ run.clean >= 0

\* Every request ends, by a commit or an error, although reviews lock the run
\* before its records and edits the other way round.
EveryRequestEnds == \A s \in Requests : []<>(s \notin Active)

(* What holds for a record as long as no two requests on it overlap        *)

\* has_issues says what the validators would say about the fields under the
\* run's present mapping, or what the reading's own checks said about them,
\* after any sequence of edits and mapping reviews, whatever happens to other
\* records.
FlagDescribesFields ==
    \A r \in Live \ raced :
        /\ Issue(run.strict, rows[r].value) => rows[r].flagged
        /\ rows[r].flagged => \/ Issue(run.strict, rows[r].value)
                              \/ rows[r].value \in Misread

\* What may leave tidybridge is valid, or was approved with these very fields,
\* or with those that mapping reviews have turned into these since: no edit, and
\* no order of edits, approvals and reviews on other records, leaves an approval
\* over fields nobody looked at (main.py:1002-1004, 1034-1037).
ReadyIsReviewed ==
    \A r \in Live \ raced :
        Ready(rows[r]) => \/ ~Issue(run.strict, rows[r].value)
                          \/ rows[r].approved /\ (seen[r] = rows[r].value \/ r \in recast)

\* The run's counters describe its records, whatever approvals go on beside
\* the edits and reviews, until a record is deleted after the last of them.
CountersDescribeRun ==
    ~overlapped /\ ~stale =>
        run.flagged = Cardinality(FlaggedOf(rows))
        /\ run.clean = Cardinality(Live) - run.flagged

-----------------------------------------------------------------------------
(* What the repository says, and the code does not do                      *)

Vouched(r) == ~rows[r].flagged \/ (rows[r].approved /\ seen[r] = rows[r].value)

\* is_ready() "keeps unreviewed records from going downstream, whichever path
\* (upload, edit, mapping review, approve) changed the flags" (models.py:135-140):
\* but a mapping review leaves approved_at when it rewrites the fields.
NoPathSkipsReview == \A r \in Live \ raced : Ready(rows[r]) => Vouched(r)
=============================================================================
