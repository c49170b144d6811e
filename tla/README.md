# A TLA+ verification of tidybridge

tidybridge takes spreadsheets and invoices, cleans them into client records,
holds the doubtful ones for a human, and passes the accepted ones on to a
webhook and a SCIM receiver. This directory models the parts of it where the
order of events decides what is correct. Paths below are relative to the
repository root.

## 1. Inventory

| Component | State it keeps | Operations |
|---|---|---|
| Notification queue and worker (`webhooks.py`, `webhook_worker.py`, `scripts/webhook_worker.py`) | `webhook_jobs`, `webhook_deliveries`; a worker's session | enqueue (in the upload's transaction), claim, POST, audit row, settle, backoff, poll, crash and restart |
| Records and review gate (`main.py`, `models.py`) | `client_records.has_issues`, `approved_at`, `fields` | PATCH, approve, mapping review, delete, bulk delete |
| Manual replay (`webhooks.py`) | the request's loop | up to `webhook_max_attempts` synchronous POSTs with a key of their own |
| Provisioning (`provisioning.py`, `webhook_worker.py`) | `provisioning_jobs`, `provisioning_attempts` | as the notification queue, plus replay and the 409 outcome |
| Ingestion (`ingest.py`) | `ingestion_runs` with its counters, `client_records` | parse, map, coerce, deduplicate, insert, enqueue |
| Column mapping (`mapping.py`, `main.py`) | `column_mappings` | default resolution, validate, save, rename stored fields |
| Invoice extraction (`extract.py`) | none | classify, ask the model, check totals and tax ids |
| Accounts (`auth.py`, `auth_models.py`) | users, access tokens, invitations, OAuth accounts | invite, accept, log in, reset, change password, delete |
| Housekeeping (`retention.py`, `backup.py`) | rows by age, dump files by age | sweep, dump, delete old dumps |
| Rate limits, statistics, export (`main.py`) | counters in slowapi; none | read-only or library code |
| Session (`frontend/src/auth`, `api/client.ts`, `ProtectedRoute`, `Layout`, sign-in and settings pages) | the token in localStorage, shared by all tabs; each tab's user and page | sign in (password, GitHub callback), read the user, save the profile, change the password, log out, delete the account |
| Records list (`RecordsPage.tsx`, `IngestionRunsPage.tsx`, `UploadPicker.tsx`) | the upload in the address, the list, filter, search, selection, dialog, last upload's result | load page by page, choose an upload, select, delete, upload |
| Record page (`RecordDetailPage.tsx`) | the record and its badges as last read, the edit form, the dialog | load, edit, save, approve, retry, delete |
| Account pages (`AcceptInvitePage`, `ForgotPasswordPage`, `ResetPasswordPage`, `PilotInvitePage`; `marketing/.../PilotForm.tsx`) | one form each | submit, hear the answer, or not |
| Mapping review page (`ColumnMappingReviewPage.tsx`) | the mapping being edited | show, edit, save |

Requests run in a thread pool, each with a database session of its own, against
PostgreSQL at READ COMMITTED; workers are separate processes; retention and
backup are cron jobs. They interact through rows only: an upload writes a record
and its jobs in one transaction, a review changes the two columns the workers'
claim query filters on, and an erasure removes a record's jobs and audit rows by
foreign key. A browser's pages hold copies of what they once read, change them by
what answers say, and meet the server only in requests, which may be answered in
any order, late, or not at all.

What is hard here is listed, line by line, under `hazards` in `PROJECT.json`.
The heart of it: a worker's pass over one job spans two transactions, because
`deliver_attempt()` commits the audit row, and with that commit the lock the
worker claimed the job under is gone.

What makes each component correct, in a phrase: the queue settles every due
notification and its trail is true; nothing unreviewed is ready, and flags
describe what is stored; a resolved provisioning job has its user; an upload
loses no row and counts each once; a review leaves values with their columns; a
tab acts for whom it shows; a session ends with its password and a link works
once; a page at rest shows what the server has, and a save sends what was typed.

## 2. Modules

| Module | Models | Proofs |
|---|---|---|
| `WebhookQueue`, abstract specification `Notification` | queue, worker and the requests that race with it | `WebhookQueueProofs` |
| `RecordEditing` | two concurrent requests on one run with their read sets and the ORM's column omission | `RecordEditingProofs` |
| `Provisioning` | the second queue with replay, remote id and 409 | `ProvisioningProofs` |
| `Ingestion` | concurrent uploads, deduplication and counters | `IngestionProofs` |
| `ColumnMapping` | default names, lookup by shape, and the renames of a review against the reference "upload again" | second half of `RecordListProofs`, whose lemmas it needs |
| `Accounts` | invitations, sign-in, password changes and resets, page and handler together | `AccountsProofs` |
| `Session` | the tabs of one browser, their shared token and each one's user | `SessionProofs` |
| `RecordPage` | the page of one record against a changing server | `RecordPageProofs` |
| `RecordList` | the list of records, read page by page while rows come and go | first half of `RecordListProofs` |
| `Positions` | members of a list chosen by position; used by `ColumnMapping` and `RecordList` | lemmas in `RecordListProofs` |

Each has an `MC` module with the constants of its runs. The server modules cover
each other's ground only at the edges named below; `RecordPage` and `RecordList`
take a whole request of the server as one step, since what happens inside one is
the subject of `RecordEditing` and `Ingestion`. All modules are free of RECURSIVE
operators. Constants carry only the assumptions named in their modules.

## 3. WebhookQueue

### State and code

| Variable | Code |
|---|---|
| `record[r]` | the `client_records` row: not yet uploaded, live or erased; `flagged` is `has_issues`, `approved` is `approved_at IS NOT NULL` |
| `job[r]` | the `webhook_jobs` row; `due` is `available_at <= now` |
| `deliveries[r]` | the `webhook_deliveries` rows of the record, in id order |
| `worker[w]` | one worker process: its program counter, the record of the job in its session, the attempt number it read, the outcome or verdict it holds |
| `deleting` | records whose `DELETE` waits for a job row's lock |
| `configured` | `settings.webhook_url` is set |
| `sent`, `accepted`, `cleared`, `leaked` | history: POSTs made, notifications the receiver took, records that were ready at some time, records sent while not ready |

A worker goes through `Claim` (the `SELECT ... FOR UPDATE SKIP LOCKED`), `Post`
(second read of the record, then the request), `RecordDelivery` (insert and
commit, which ends the lock), `Reload` (every object was expired by the commit:
the log line reads the record again and the failure branch the job) and
`Settle` (the second commit). A request is one transaction and one action;
`Delete` may have to wait in the middle of its cascade, so `DeleteResumes`
completes it. `DeadlockAbortsWorker` and `DeadlockAbortsDelete` are the two ways
PostgreSQL can resolve the cycle of the waiting cascade and the audit row's
foreign key. `Crash`, `Restart` and `Redeploy` are the environment. The
payload, signature, status codes and back-off lengths are abstracted: a reply is
good or not, and may be lost after the receiver took the request.

### Runs

| Run | Bounds | Shows |
|---|---|---|
| `queue_workers` | 1 record, 2 workers, 2 attempts, 1 edit, 1 crash, 1 redeploy | types; "done" is backed by a logged success and a receiver that took it; nothing is sent that was never ready; every POST is audited up to the deaths; nothing settled becomes pending; the queue implements `Notification`; an owed notification is settled; a waiting delete ends |
| `queue_single` | 2 records, 1 worker, 3 attempts, 1 edit, 1 crash | with one process: "dead" exhausted every number, the number of POSTs is bounded, a settled job stays as it is |
| `queue_gate_toctou` | 1 record | a record flagged between the claim and the worker's second read leaves all the same; see `findings` |

The jobs of different records meet only in a worker's choice of the next job, so
one record is enough for what two workers do to one job, and two records for what
one worker does to several. Two attempts include a first, a last and a retried
one; three add one that is neither. One crash, edit and redeploy at any moment
reach every pair of neighbouring steps.

Two more places where a comment says more than the code does, both visible in
the model. The comment at `webhook_worker.py:60-65` has a DELETE wait until the
job is settled, but the audit commit lets it through: `RecordDelivery` followed
by `DeleteResumes` leaves a worker holding an erased record, and its reload
raises. And "dead" (`models.py:242-244`) excludes a delivery only if no worker
died between its two commits: a job that was delivered, whose worker died before
the second commit, is tried again and may end "dead".

### Fairness

`scripts/webhook_worker.py` loops for ever and Railway restarts it, hence weak
fairness of each worker's step (with `Restart`); time passes (`BackoffElapses`);
PostgreSQL wakes a waiter when the lock is free (`DeleteResumes`). No user
action and no crash is fair.

### Proofs

`WebhookQueueProofs` proves, for any records, workers, attempts and bounds,
`Spec => []QueueInv`. The checked invariants are not inductive: that "done"
has a successful audit row needs to know that a worker that is about to write
"done" has already committed one, or that its record is gone. `QueueInv` says so
for every worker (`HandOK`), with the rows that exist only beside their record
(`RowsOK`), settled jobs and their log entries (`SettledOK`) and the one holder
of a job row's lock (`LockOK`). From it follow `TypeCorrect`, `Delivered` and
`GateRespected`. The module's other parts rest on `QueueInv`:

- the audit account: every step moves a POST of a live record from the set of
  workers about to commit it to the trail or to the deaths, one for one, so that
  the sum of `EveryPostAudited` stays what it is (`PostsAudited`). The workers are
  counted, hence `IsFiniteSet(Workers)` in `QueueAssumption`;
- the refinement: `Spec` implements `Notification` under `stageOf` and `logOf`
  (`QueueImplementsNotification`), and from that `NoReopening`;
- one worker: under the hypothesis `OneWorker` (what `queue_single` checks, and
  how the process is deployed), `SoloInv` says that the worker's hand agrees with
  the job row, that the trail has a failure for every number below the attempt,
  and how many POSTs were made by then. From it follow `DeadAfterEveryAttempt`,
  `BudgetRespected` and, with the refinement, `QueueSettlesOnce`. With two workers
  all three are false: a worker that was overtaken writes over the other's verdict.

The only assumption on the constants is `QueueAssumption`. Only model-checked:
what needs fairness (`OwedIsSettled`, `DeletesEnd`).

## 4. RecordEditing

### State and code

`WebhookQueue` takes an edit or an approval as one step, which is enough for
what workers see of it. This module opens the request: what it reads, what it
holds in memory while others commit, what its UPDATE leaves out, what it locks.

| Variable | Code |
|---|---|
| `rows[r]` | the `client_records` row: `value` stands for the whole `fields` blob, `flagged` for `has_issues`, `approved` for `approved_at IS NOT NULL` |
| `run` | the `ingestion_runs` row: the mapping (`resolution`, strict or not) and `rows_flagged`, `rows_clean` |
| `request[s]` | one request's session: what it uses again of the rows it read (`Loaded`), the run as it loaded it, what its body makes of the rows' fields (`made`), the counts it has taken |
| `runLock` | the request whose flush has updated the run's row and has not committed |
| `seen`, `recast`, `raced`, `overlapped`, `stale` | history: what an approver looked at; records whose approved fields a review has changed since; records written while another request had them read; requests that count overlapped; a record was deleted since the last count |

`PATCH` is `PatchRead`, `LoadRun` (the lazy relationship, a statement of its
own), `Refuse` (400) or `Flush`, two `Count`s and `PatchCommit`. The approval is
`ApproveRead`, `Approve`. The mapping review is `ReviewRead`, `LoadRun`,
`ReviewLock` (the unit of work flushes the run before its records) and
`ReviewCommit`. `Delete` is one statement; a bulk delete is several of them.
`Column` is SQLAlchemy's rule that an assignment of the value that was loaded is
not written. `DeadlockAborts` is PostgreSQL's way out when an edit that holds
its record waits for the run, and a review that holds the run for the record.

The validators are external: a value is fine, doubted under the strict mapping
only (`Doubtful`), or doubted only by the checks made when an invoice was read
(`Misread`), which are not repeated after the upload. A review renames and drops
fields and coerces the rest under the new types; here it may turn the fields of
each record into any others, computed from what it read (`made`), and writes all of
them. Where renames put a value is `ColumnMapping`'s subject. The records' UPDATEs
of one review are taken together at its commit. Runs without a stored mapping (409) cannot be edited and are left out.

### Runs

| Run | Bounds | Shows |
|---|---|---|
| `editing` | 2 records, 2 requests at a time, 3 in all, 2 values, any number of deletions | flags describe fields, for every record that no two requests wrote at once; an approval there covers the fields its approver saw, or what reviews alone have made of them; counters describe the records unless edits overlapped; every request ends |
| `editing_review_approval` | 1 record, 1 request at a time | a review rewrites the fields under a standing approval; see section 12 |

Two requests and two records give every pair of overlapping handlers, on one
record and on two; the third request finds the state that two left behind. A
value that is fine under the lenient mapping and doubted under the strict one
serves as both; a second one, of the reader's doubts, makes what an approver saw
differ from what a review writes.

Fairness: a request that has begun takes its next step (`WF_vars(Step(s))`);
nobody is obliged to begin one, to delete, or to send a body that is refused.

### Proofs

`RecordEditingProofs` proves for any number of records, requests, values and
any bound: `EditTypes`, `CountersStayNonNegative`, `FlagsDescribeFields`,
`ReadyWasReviewed`. The last says what the approval of a ready record is worth: it
was given for the fields the record has, or for those which reviews, and no edit,
have turned into them since (`recast`); that the latter happens is what
`editing_review_approval` shows. None of the properties is inductive: that a commit writes
the right flag needs to know that what its request read long ago is still so.
`EditInv` adds that (`FreshOK`: unless another request wrote the record), that a
review has read every live record, hence none escapes a change of mapping
(`ReadOK`), that a row held by an edit is not deleted (`HeldOK`), and that the
second count cannot exceed the first because records are only ever deleted
(`CountOK`). `CountersInv` adds exact numbers for `CountersAreExact`: until two
requests that count overlap, or one and a delete, whatever a request that counts
has read, loaded or counted is still so at its commit (`Alone`), and its second
count is the number of flagged records its commit leaves behind
(`FlaggedAfter`). Approvals may overlap it, since they write neither. The only
assumption is `EditingAssumption`. `EveryRequestEnds` (fairness) is model-checked
only.

## 5. Provisioning

### State and code

| Variable | Code |
|---|---|
| `record` | the one client record: there, past the gate, with something that maps to `userName` |
| `job[j]` | the `provisioning_jobs` rows of the record; more than one slot because nothing in the schema forbids a second row; `key` numbers the idempotency keys, `remote` is `remote_id IS NOT NULL` |
| `attempts` | its `provisioning_attempts`, as the set of their attempt number, key and outcome: nothing reads their order, and equal rows count once |
| `worker[w]` | one worker process, as in `WebhookQueue` |
| `replay[q]` | one replay request: the job as it loaded it |
| `user` | the target has the user |

A worker's pass is the one of `WebhookQueue` with three endings more: a 2xx with
an id, a 2xx without one, a 409. The target is external: it answers 409 when the
user is there, and a failed attempt may have created the user all the same
(timeout, or a body over the size limit). A replay is two actions, since what it
writes depends on what it read: `Column` again leaves out what seems unchanged,
so a replay of a pending job does not write `status`. `Delete` waits for a locked
job by not being enabled; its two halves and deadlocks are in `WebhookQueue`.
The target's URL is taken to be configured throughout.

### Runs

| Run | Bounds | Shows |
|---|---|---|
| `provisioning` | 1 job, 2 workers, 1 replay, 2 attempts, 1 review, 1 crash | a resolved job is backed by an attempt on record and by the user; only a replay reopens a settled job; a job past the gate is settled |

A replay meets a worker in any of its five states, and the stale worker's write
meets the fresh job. With two workers the remote id may stay on a job that ends
"skipped_exists" (one created the user and the other found it), which is why
`IdOnlyWhenDone` is not among the run's properties but proved for one. A replay that
commits between a worker's two commits is overwritten by the worker's verdict on
the attempt before it: the job can be "dead" under a key nothing was sent with,
which `models.py:314-316` does not say.

Fairness: workers' steps, time, and a replay that has read; as in
`WebhookQueue`.

### Proofs

`ProvisioningProofs` proves for any number of job rows, workers, replays and any
bounds: `ProvisioningTypes`, `Resolution`, `ReopeningIsReplay`. The invariant
adds what a worker's memory says between its transactions: an answer it holds is
backed by the user, and from the audit commit on by an attempt, unless the record
is gone (`HandOK`); an erased record has no job (`RowsOK`). A stale worker can
therefore write whatever it likes over a replay without making
`ResolvedMeansUser` false.

`DeadAfterLastAttempt` has the hypothesis `OneWorker`, one worker process with any
number of replay requests around its steps; `RemoteIdOfDone` has `OneReplay`
besides, one replay request at a time. `SoloInv` says
that the job in the worker's hand is pending with the attempt it claimed, unless a
replay has reset that to 1, and, if replays come one at a time, that what a replay
loaded as settled is so when it writes. The hypotheses are needed: with two
workers both properties are false, and with two replays of one job at a time
`IdOnlyWhenDone` is, since one that had loaded the job dead, without an id, and
commits after the other's was carried out makes it pending and leaves the id. The
only assumption on the constants is `ProvisioningAssumption`. Model-checked only: `OwedIsSettled`
(fairness).

## 6. Ingestion

### State and code

`ingest_file()` runs in one transaction at READ COMMITTED, so each row's look for
a stored duplicate sees what other requests have committed by then, and its own
rows. No unique constraint backs that look.

| Variable | Code |
|---|---|
| `mapping` | the `column_mappings` row of the shape: name of the key field, dedup on or off |
| `upload[u]` | one call of `ingest_file()`: the file, the mapping it read, `kept` (`deduped.index`), `rest` (indices the loop has still to visit), `inserted` |
| `records` | the committed `client_records`, by run and row index: key field, `odd` for `has_issues` |
| `runs[u]` | the committed `ingestion_runs` row: the key's name in `resolution` and the counters |
| `before`, `moved`, `lost`, `erased` | history: uploads finished when another began; records whose key was corrected, renamed or coerced anew; names and keys that left the store since the upload last skipped a row for them; how many records of a run were deleted |

`Receive` is everything up to the first row, `Row` one turn of the loop,
`Commit` and `Fail` its two ends. `Delete`, `Correct` (PATCH), `Save` and
`Review` (the two forms of `PUT /column-mappings`) and `Sweep` are one
transaction each here; what happens inside a PATCH or a review is
`RecordEditing`'s subject. Every query is scoped to the owner, so one owner is
enough, and all files are of one shape. A dedup key of several fields is taken
as one. A row is its key and whether the validators doubt it; parsing, the
invoice reader and tidycsv are external, and whether `flag_duplicates` takes
empty keys to repeat each other is left open. An empty key matches nothing
stored, because it is compared as the text "None" with JSON's null. A review
coerces every field of its run anew under the new types, and a rename may overwrite
another field: here it may leave any key and any doubt in each record, and those
whose key it changes (`Recoerced`) count as moved. A row's doubts are joined to it
by its index in the file (`IssueMap`), which the frames keep as their label. The jobs
enqueued with a record belong to the two queues.

### Runs

| Run | Bounds | Shows |
|---|---|---|
| `ingestion` | 2 uploads, 3 files of 1 or 2 rows, 2 keys and the empty one, 2 names of the key field, 2 other requests | two records whose keys are as uploaded share one only if their uploads overlapped or the later one did not deduplicate; no row is lost; counters account for every row but those whose records were deleted |

A duplicate takes two uploads. One file repeats its key in a doubted row, one has
two empty keys, one is what the others may repeat; the second key is one that
corrections and reviews put in. Reviews may make duplicates of their own: two keys
that differ as text may be one date. They are outside `DuplicatesRaced`, which is
about records as uploaded, and so is the old key, which a later upload no longer
finds (`lost`). Two other
requests at any moment are enough for a key to leave (deletion, correction,
review or sweep) between a row's check and the commit, and for a deletion
followed by a recount. `README.md:159-161` has the counters "always" sum to
`rows_total`; after a deletion (which leaves them) and an edit (which takes them
anew) they fall short, hence the range in `RunsAddUp`. There is no fairness: an upload is obliged to nothing but
to end one way or the other, and the properties are safety properties.

### Proofs

`IngestionProofs` proves the type invariant and all three properties of the run for any uploads, files,
keys, names and any number of other requests. `Sound` adds to the types how far
each upload is (`UploadOK`: inserted rows are visited rows of the file, a finished
upload has visited all) and ties records to inserted rows (`RecordsOK`).
`StepKinds` sorts the steps: those of an upload, and those after which records,
names and uploads are as before or have left a trace in `moved` or `lost`
(`Quiet`). On it rest three further invariants: `DuplicatesInv` says of an upload
still loading that no row it has inserted repeats another, or a record stored
before it began; `LostInv` that every visited row is represented; `CountsInv`
that the records of a run and its deleted ones together are what the upload
inserted, with clean plus flagged in between. The only
assumption is `IngestionAssumption`.

## 7. ColumnMapping

### State and code

| Variable | Code |
|---|---|
| `mappings` | `column_mappings`: `header_fingerprint` to `field_resolutions` |
| `runs[r]` | the `ingestion_runs` row with the `fields` of its records; `sent` is history: the resolution it was uploaded with and those its reviewers sent, which is what a client may know it by; `tidy` is history too |
| `refused` | history: uploads that ended in `KeyError`, with the mapping looked up for them |

A header is its normalised name, its text without case and its casing. A value is
the sequence of columns it was made from: renaming, joining and blanking are then
visible and cleaning is not. All records of a run are treated alike by what is
modelled here, so one stands for all, and every run has one. `Upload` and
`UploadRefused` look a mapping up by fingerprint and apply it. `Save` is the PUT as
the review screen sends it (`Shown`, `Edited`), with the run named or not and the
old resolution as the client knows it; `Reviewed` is what becomes of the stored
fields: `Renamed` goes through `rename_map` in the order a dict keeps, `Dropped` is
`drop_fields`, `MapColumns` is tidycsv's. Types and required flags, dedup keys and
the check of names (`validate_resolution`) are left out: what coercing anew does to
stored values is in `RecordEditing` and `Ingestion`.

### Runs

| Run | Bounds | Shows |
|---|---|---|
| `column_mapping` | 4 files of 2 or 3 columns, 3 target names, 2 uploads (failing ones included), 2 saves | orderly reviews amount to uploading again under the new mapping; no review mixes or copies values; default names keep columns apart; a file fails on a saved mapping only for its spelling |

The files are two spellings and orders of one shape, one of the same texts with a
column more (its last header looks like a suffixed one), and three headers of one
name. Three columns and three names have every chain and
cycle of renames, two saves a stale old resolution, two uploads a run the request
did not mean. `Orderly` says what keeps values: every old field moves as a whole
to a name of its own, none that was left out is taken up again, and a name is
taken only after its holder has moved away. An exchange of two names is not
orderly, and one value is lost.

There is no fairness, the properties being safety properties.

### Proofs

All four properties are theorems, for any set of files of any length, any names
and any number of uploads and saves: `ValuesFollow`, `NothingMadeUp`,
`DefaultsStayApart`, `OnlySpellingFails`, and `MappingTypes`. They stand in
`RecordListProofs`, because both modules pick members of a list by their positions
(`Picked`: JavaScript's `filter`, the lists of `by_target`, the keys of
`rename_map`) and share the lemmas for it. Hence the names `MappingInit`,
`MappingNext` and `MappingSpec`: that module extends both.

`MappingInv` adds to them what a later request relies on: a mapping saved for a
shape maps exactly the columns of that shape, each once (`Fits`), and so does
every resolution a client may name a run by. Without it nothing could be said of a
save that shows the saved mapping instead of the run's own.

- `rename_map` is gone through by a recursive function (`Loop`). It exists, and
  what holds of it at every step is shown, by the least counterexample
  (`LoopExists`, `RenamedWhole`, `PlacedAll`).
- `NothingMadeUp` holds of every single rename: what the new name held is lost,
  and the value has one name again (`RelabelWhole`). It is said of values that
  are not blank, since `map_columns` blanks all that is missing.
- `ValuesFollow` is the hard one. `MovesInTurn` turns `Orderly` into a statement
  about the moves alone (`InTurn`), `OldNamesInTurn` shows that `rename_map` has each
  old name once, ordered by its first column, with one new name. `Placed` then says
  where every column's value is after k renames: under the new name if the old one
  has had its turn, else under the old one. In a step (`PlacedStep`) the name that
  is taken is nobody's: its holder, if it had one, has moved before. In the end all
  values are where `apply_mapping` would put them, and none of these names is in
  `drop_fields` (`OrderlyReview`).
- `DefaultsStayApart`: of two headers of one name the later one has more of that name
  before it (`EarlierGrows`), so the suffixes differ; the names of two headers with
  different names differ by `LooksSuffixed`.
- `OnlySpellingFails`: equal fingerprints mean each text is as often in one file as
  in the other, hence an injection text by text, and files of one length
  (`ShapeLength`, `SameShape`).

The only assumption is `MappingAssumption`: the headers of a file are distinct
(pandas numbers repeated ones when it reads a file), equal texts have equal names (both the
normalised name and the alias are functions of the lower-cased header), names are
sequences, and no name, with or without a suffix, is the null target.

## 8. Accounts

### State and code

| Variable | Code |
|---|---|
| `state[e]` | no `users` row, one that is not `is_verified`, one that is |
| `has[e]`, `hash[e]` | `has_password`; `hashed_password` by version, since each hashing takes a new salt; 0 is the random one nobody knows |
| `sessions` | `accesstoken` rows: whose, and the hash the sign-in was checked against |
| `requests` | `pilot_requests` |
| `links`, `expired` | every link e-mailed, with the fingerprint of the hash it was made for, and those too old |
| `tab[w]` | the form of a browser tab, how far its request is, what the page says |
| `raced`, `lapsed` | history: two password writes of one account were both past their checks; a change stopped between its commits, or a sign-in went across one |

A page's form and its handler are one request in steps that follow the handler's
commits: `Submit`, `Check` (`accept_invite`, `update`, `oauth_callback` and
fastapi-users' reset and login up to the first write), `Write` (the hash; for an
invitation `is_verified` and `has_password` with it), `SetFlag`
(`on_after_update`, `on_after_reset_password`), `Revoke` (`_revoke_sessions`),
`Hear`. A sign-in is `Check`, then `Insert`, which does not look at the password
again. `Lost` ends a request anywhere: the connection goes, or the process dies
between two commits. Accounts are never deleted here; `Session` has that.
Password rules are a refusal that may always happen ("failed").

### Runs

`accounts`: a firm to be invited and an older GitHub account, two tabs, five
acts. Two tabs are two requests at a time in any interleaving of their commits;
five acts are enough for request, invitation, acceptance, sign-in and a change
of password, or for two links to one account and both used twice. It shows that
a session of an old password outlives it only where the code's gap is (`lapsed`),
that what a page says of an account stays so, and that a link sets a password
once, unless two uses had both passed their checks. There is no fairness: these are
safety properties, and nobody has to answer a form.

### Proofs

`AccountsProofs` proves, for any tabs, e-mail addresses and number of acts, type
correctness and all three properties (`SoundAlways`, `OldSessionsEndAlways`,
`PagesTellTheTruthAlways`, `LinksWorkOnceAlways`). `Sound` ties a request to its
page and its link to its e-mail (`FormOK`) and says that links carry hashes not
newer than the account's and belong to accounts that exist (`LinkOK`). `SaidOK`
adds what a page's words rest on, `SessionOK` that a request between write and
revocation accounts for every older session, `LinksOnce` that what `Check` found
still holds when `Write` comes, or two requests overlapped. The step fact `Moves`
says that states, flags and hashes only move forward. The only assumption is
`AccountsAssumption`.

## 9. Session

### State and code

| Variable | Code |
|---|---|
| `owner`, `live` | `accesstoken`: the account a token was issued to, the rows left |
| `known`, `named` | accounts that exist, those with a `first_name` |
| `stored` | `localStorage.tidybridge_token`, read by `apiHeaders()` whenever a request is built |
| `at[w]`, `user[w]`, `loading[w]` | a tab's route, and `AuthContext`'s `user` and `loading` |
| `sent[w][k]` | a tab's request of each kind: its token, then its answer |
| `crossed[w]`, `stuck[w]` | history: the token changed under a tab's user or its requests; the requests a tab heard 401 for since it loaded, and stayed |

`Route` is `ProtectedRoute`; `Load` a page load, after which `AuthProvider` asks
for the user; `Rejected` the 401 branch of `request()`; `HearUser` and
`RefreshFails` are `refreshUser()`, with the navigation of the page that called
it; `HearLogin`, `HearProfile`, `HearPassword` and `HearSignOut` are what the
context and the settings page do with an answer. All pages behind the layout are
one, with the forms of the settings page on it. "read" stands for what any page may
ask through `request()`, "export" for the CSV download, `exportRecords()`, which does
a `fetch()` of its own and takes a 401 for an error like any other. The CSRF cookie and the staging gate are left
out.

### Runs

`session`: two tabs, two accounts, four tokens, three acts of users here and
elsewhere. Two tabs make one change the token under the other; three acts are a
sign-in, a sign-out or a change elsewhere, and a request across them. It shows
that a tab that shows a user acts for that user while the token has not changed
under it, that a page whose `request()` was rejected gives way to the login page, and
that every tab comes to rest. A rejected download does not make a page give way, and
`RejectedGivesWay` says nothing of it (section 12).

Fairness: the server answers and the browser runs what waits for the answers
(`WF` of all answers together, which is enough because acts are bounded and every
answer ends a request). Failing and losing answers are not fair; they only end
requests too.

### Proofs

`SessionProofs` proves, for any tabs, accounts, number of tokens and of acts,
`SessionTypes`, `ActsAsShownAlways` and `RejectedGivesWayAlways`. Neither property
is inductive. `TabOK` adds that a request of a tab that has not been crossed was
sent with the token that is stored now, that an answered one names that token's
account, and that a tab that is not crossed can be stuck with a download only; `TokensOK` that every token in
use was issued to an account. The only assumption is `SessionAssumption`. `TabsSettle` needs fairness and is model-checked
only.

## 10. RecordPage

### State and code

| Variable | Code |
|---|---|
| `live`, `fields`, `approved`, `job` | the server: the records, their values, approvals and the status of their job |
| `page`, `record`, `badge`, `loading`, `failed` | the address's id; `record`, `webhookStatus`/`provisioningStatus`, `loading`, `error` |
| `loads[r]` | the effect's `Promise.all`, by record |
| `editing`, `draft`, `confirming` | the form, `editValues`, `confirmingDelete` |
| `sent[b]` | the request of each button, what it answered, the re-reading of badges after it |
| `typed`, `late`, `swapped`, `blurred` | history: fields typed since the form opened, and since Save; the record was replaced under the form; something happened that the page cannot know of |

The page's actions are its handlers, cut at each `await`: `SaveEdits`,
`ServeSave`, `HearSaved`, `ReadBadges`, `HearBadges`. `Jump` is the browser's
history between two records: React keeps the component, hence form and dialog.
`Merged` is the PATCH's merge and coercion; a value that validation rewrites and
one that it flags stand for all. The two badges are taken as one, since both are
read and shown alike; tables of attempts and the webhook resend are left out.

### Run

`record_page`: a record held for review and a clean one, two fields, three values,
five acts of the user, other users and the worker. Two records are needed for the
history; five acts open a record, edit, type, save and let something else happen.
It shows that a page at rest shows what the server has, when nothing was done
elsewhere and no two requests were out at once; that a save sends only what was
typed; that what was typed is what is stored. The exceptions are the code's, see
below.

### Proofs

`RecordPageProofs` proves type correctness and all three properties for any
records, fields, values and number of acts (`RecordPageTypes`,
`AtRestShowsServerAlways`, `UntouchedIsNotSentEver`, `TypedIsSavedAlways`). `FormOK` says that an untouched field
of an open form is the record's, unless the record was swapped; `ViewOK` follows
one request or one load at a time from click to answer: what it carries is what
the server holds, as long as nothing has blurred the view; `SavingOK` does so for
the text of a save; `SentOK` says that no page hears the requests of one that was
left. The two properties of steps also need to know which steps move the save
button's request on (`SaveSteps`). The only assumption is `RecordPageAssumption`.

## 11. RecordList

### State and code

| Variable | Code |
|---|---|
| `uploads`, `live` | the server: runs in the order they were stored, records stored |
| `page`, `run` | records page or another; `?ingestion_run_id=` |
| `shown`, `loading`, `failed`, `loads[n]` | `records`, `loading`, `error`; each call of `load()` and what `listRecords()` has read so far |
| `listed`, `runReads` | `runs` (whether there are any to offer), its requests |
| `filter`, `query`, `ticked`, `dialog` | filter, search, selection, pending deletion |
| `file`, `mine`, `since`, `result`, `saved` | how far uploads are, the one of this page and the upload chosen when it began, `lastResult` and its copy in sessionStorage |
| `deletes` | deletions under way |
| `told`, `risky` | history: records the page was told are deleted; those a load had read by then |

`ReadPage` is one request of `listRecords()`'s loop, with a fresh order of rows
that tie in `created_at`. `HearUpload` calls the `load()` of the render in which
the upload began. Sorting, export and the mapping summary are left out.

### Run

`record_list`: two uploads of one record each, one row to a page, two loads at a
time, three acts of the user and of others. One row to a page makes every listing
as long as the table and puts a boundary between any two rows; two loads are an
old and a new one; three acts are, for example, a choice of upload, a deletion and
an upload from elsewhere. It shows that deleted records stay away, unless a load
had read them; that an undisturbed listing is whole, unless tied rows straddle a
boundary; that spinners stop. One record an upload leaves ties out of this
instance, hence `Straddles` matters only in larger ones.

Fairness: as in `Session`.

### Proofs

`RecordListProofs` proves, for any finite set of records, any uploads, page size,
number of loads and acts, `RecordListTypes`, `DeletedStaysAway` and
`ListingsAreWhole`. `ListInv` adds to `DeletedStaysAway` what it rests on: a record that was deleted was stored before and is
never stored again (`OnlyKnown`, `Deleted`), and a load in flight holds none that
the page was told is gone, unless it is marked (`LoadsFresh`). That a filtered
selection or list is a sequence again, with the kept members only
(`WithoutProperties`), is a case of `PickedProperties`, which is shown by counting the
kept positions (`UpToCounts`, `NthIsMember`), by the least counterexample
(`LeastNatural`).

`ListingsAreWhole` is `QuietListingIsWhole`, for pages of any size and uploads of
any number of rows, which the run's instance has not. Its argument is the one that
`listRecords()` relies on without saying so. As long as no row comes or goes, each
request is answered from some order of the same rows, and two such orders differ
only in how they arrange the rows of one upload. If no upload has rows on both
sides of a page boundary, then every answer has the same rows before that boundary
(`PagesAgree`): a row that one answer puts before it and another behind it would
have the same `created_at` as one that is exchanged for it (`BetweenTies`), and all
rows in between would be of that upload too. Hence the invariant of each load in
flight (`WholeSoFar`): what it has read are, each once, the rows that every answer
begins with, and it stands at a page boundary; the next page prolongs that
(`PageExtends`), and the load ends with as many rows as there are, which are then
all of them. `WholeInv` needs `Filed` besides: a stored row is of a stored upload,
otherwise its age would be unknown.

The only assumption is `RecordListAssumption`; records are counted, hence finite.

Model-checked only: `SpinnersStop` (fairness).

## 12. Where the code differs from what is written of it

Two runs are expected to fail. Each checks one sentence of the repository, and
`findings` in `PROJECT.json` quotes it:

| Run | What the code does |
|---|---|
| `queue_gate_toctou` | a record flagged between the worker's claim and its second read leaves all the same (`webhook_worker.py:66`; `README.md:134`) |
| `editing_review_approval` | a mapping review rewrites the fields of an approved record and leaves the approval (`main.py:609-650`; `models.py:137-140`) |

`NeverReadyNeverSent` and `ReadyIsReviewed` say how far these sentences hold. Reading
the code turned up more, which the models reproduce and the properties named here
make room for:

- An approval that commits while an edit is under way survives it: the edit assigns
  `approved_at = None` to an object that was loaded with None, and the ORM leaves it
  out (`main.py:1004`; `README.md:141-142`; `raced` in `ReadyIsReviewed`).
- Deleted records leave the counters at the next edit or review, and the sum falls
  short of `rows_total` (`main.py:1017`; `README.md:159-161`; the range in `RunsAddUp`).
- A review that coerces dedup keys anew may leave two records of one upload with one
  key, or a skipped row without the record it was skipped for (`main.py:636-646`;
  `moved` in `DuplicatesRaced`, `lost` in `NoRowLost`).
- A suffixed default name may be another header's own (`mapping.py:54`;
  `mapping.py:41-43`; `LooksSuffixed` in `DefaultsKeepColumnsApart`).
- A file cased otherwise than the one a mapping was saved for matches its
  fingerprint and fails with KeyError (`mapping.py:139`; `README.md:210-212`;
  `FailsOnSpellingOnly`).
- A download that is told 401 leaves token and page (`client.ts:394-402`;
  `client.ts:131-133`; "export" in `RejectedGivesWay`).
- Two requests with one link both pass its check (`auth.py:353`; `auth.py:329`;
  `raced` in `LinksWorkOnce`).
- A handler that stops after the commit of the password leaves the old sessions
  (`auth.py:241`; `auth.py:225-226`; `lapsed` in `OldSessionsEnd`).
- A mapping review recomputes `has_issues` from the validators alone
  (`main.py:649`) and drops the doubts the invoice reader had (`ingest.py:223`;
  `README.md:138-139`).
- Two replays of a record without a provisioning job insert one each
  (`provisioning.py:247`; `models.py:293-295`).
- A replay's docstring says nothing mutates a record's fields after ingestion
  (`main.py:1098-1101`), `models.py:22-25` that a run is never updated; edits and
  reviews do both. `README.md:781` still has retries inside the upload request,
  `README.md:67-68` a match by e-mail only.
- `_revoke_sessions()` also misses a session whose sign-in was checked before and
  inserted after it (`auth.py:225`; `lapsed`).
- `refreshUser()` drops the token on any error, a lost connection included;
  `AuthContext.tsx:41-42` speaks of tokens that will never work. The token is
  read from localStorage on every request, not once (`client.ts:25-28`). A late
  401 of an old token drops a newer one; where no token is stored any more, a
  page that hears 401 stays (`client.ts:131-137`), which is why
  `RejectedGivesWay` excepts crossed tabs. A profile answer after a sign-out
  shows a user without a token; a slow first check overwrites a newer sign-in.
- The form of a record is compared with the record at the time of saving
  (`RecordDetailPage.tsx:97-99`): if an answer or the browser's history has
  replaced it, untouched fields are sent. What is typed while a save is out is
  lost; the dialog survives a jump to another record and then deletes that one; a
  deletion's late answer leads away from whatever page is open.
- The list may show another upload than the address names, after an upload that
  began before the choice, or two loads answered out of order
  (`RecordsPage.tsx:652-653`). A record deleted while a load is under way comes
  back until the next one. A selection survives a change of filter.
- Changing the password on the settings page sends the names as they stand in the
  other form, saved or not (`SettingsPage.tsx:80-82`).

## 13. Not modelled

`components` in `PROJECT.json` gives the reason part by part. In short: the
manual webhook resend, invoice extraction and the backup are sequences without
anything that interleaves with them; statistics and export only read; rate limits
are a library's; configuration, schemas, migrations, translations, layout and the
marketing site's pages have no behaviour of their own. Of the modelled pages,
sorting, what a CSV download contains, the mapping summary, tables of attempts and the language
switch are left out.

Liveness and what rests on ENABLED are out of the prover's reach and stay with
TLC. Every other property of the passing runs is a theorem. Induction over numbers is done
by hand where it is needed, from the library's theorem that every non-empty set of
naturals has a least member (`RecordListProofs`, `LeastNatural`). The models
therefore use recursive functions and counted positions where a library fold would
do for TLC alone: the prover cannot look inside those.
