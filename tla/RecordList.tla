------------------------------ MODULE RecordList ------------------------------
(***************************************************************************)
(* The records page of one account: the list that the API client walks     *)
(* page by page, the picker that chooses an upload, filter and selection,  *)
(* deletion of one record or of the selection, and the upload button.      *)
(* Requests are answered in any order.  Another browser and the retention  *)
(* sweep add and delete rows between any two of them.                      *)
(* Left out: sorting, export, the mapping summary, the wording of errors.  *)
(***************************************************************************)
EXTENDS Positions

CONSTANTS
    Records, Runs,  \* records, and the uploads (ingestion runs) they come from
    RunOf,          \* the upload that creates each record
    Flagged,        \* records with has_issues
    Approved,       \* records somebody approved
    Queries,        \* searches, each the set of records it matches
    Before,         \* the uploads stored when the page mounts
    Limit,          \* MAX_PAGE_SIZE
    Loads,          \* bound: calls of load() in flight, 1..n
    MaxActs,        \* bound: what the user (closing a dialog apart) and others do
    All, None       \* no upload chosen; no value

ASSUME RecordListAssumption ==
    /\ IsFiniteSet(Records) /\ RunOf \in [Records -> Runs]
    /\ Before \in Seq(Runs)
    /\ Limit \in Nat \ {0} /\ MaxActs \in Nat
    /\ 1 \in Loads /\ Loads \subseteq Nat
    /\ Queries \subseteq SUBSET Records
    /\ All \notin Runs /\ None \notin Runs \cup Records
    /\ "bulk" \notin Records

VARIABLES
    \* the server
    uploads,        \* ingestion runs stored, oldest first
    live,           \* records stored
    \* the page
    page,           \* "records", or "history": the upload history or any other page
    run,            \* ?ingestion_run_id= of the address
    shown,          \* records
    loading, failed,
    loads,          \* what each call of load() has read
    listed,         \* whether the picker, or the history, has uploads to offer
    runReads,       \* calls of listIngestionRuns() in flight
    filter, query, ticked,
    dialog,         \* pendingDeleteId, "bulk" for pendingBulkDelete, or None
    \* uploading and deleting
    file,           \* how far the upload of each file is
    mine,           \* the file this page is uploading
    since,          \* ?ingestion_run_id= when that upload began
    result, saved,  \* lastResult, and its copy in sessionStorage
    deletes,        \* deletions in flight
    \* history
    told,           \* records the page was told are deleted
    risky,          \* those a load in flight had read by then
    acts            \* the bound's count

server == <<uploads, live>>
listing == <<run, shown, loading, failed, loads>>
choices == <<filter, query, ticked, dialog>>
upload == <<file, mine, since, result, saved>>
history == <<told, risky>>
vars == <<server, page, listing, listed, runReads, choices, upload, deletes, history, acts>>

Statuses == {"Clean", "Needs review", "Approved"}
Choices == Runs \cup {All}
FileStates == {"none", "sent", "stored", "answered", "done"}

NoLoad == [at |-> "idle", run |-> All, got |-> <<>>, quiet |-> TRUE, uploaded |-> FALSE]
Load == [at : {"idle", "reading", "read"}, run : Choices, got : Seq(Records),
         quiet : BOOLEAN, uploaded : BOOLEAN]
Deletion == [ids : SUBSET Records, how : {"one", "bulk", "left"}, at : {"sent", "done"}]

TypeOK ==
    /\ uploads \in Seq(Runs) /\ live \subseteq Records
    /\ page \in {"records", "history"}
    /\ run \in Choices /\ shown \in Seq(Records)
    /\ loading \in BOOLEAN /\ failed \in BOOLEAN
    /\ loads \in [Loads -> Load]
    /\ listed \in BOOLEAN /\ runReads \subseteq {"mount", "upload"}
    /\ filter \in Statuses \cup {"all"} /\ query \in SUBSET Records
    /\ ticked \subseteq Records /\ dialog \in Records \cup {"bulk", None}
    /\ file \in [Runs -> FileStates]
    /\ mine \in Runs \cup {None} /\ since \in Choices
    /\ result \in Runs \cup {None} /\ saved \in Runs \cup {None}
    /\ deletes \subseteq Deletion
    /\ told \subseteq Records /\ risky \subseteq Records
    /\ acts \in 0..MaxActs

-----------------------------------------------------------------------------
(* What GET /records and GET /ingestion-runs answer.                       *)

Rows(u) == {r \in live : u \in {All, RunOf[r]}}
Newer(r, s) == \E i, j \in DOMAIN uploads : i > j /\ uploads[i] = RunOf[r] /\ uploads[j] = RunOf[s]

\* Rows by created_at, newest first.  It is the time of the transaction, so
\* the rows of one upload tie, and their order may differ between two queries.
Listings(u) ==
    {s \in [1..Cardinality(Rows(u)) -> Rows(u)] :
        \A i, j \in DOMAIN s : i < j => s[i] # s[j] /\ ~Newer(s[j], s[i])}

\* The rows from an offset on, at most Limit of them.
PageOf(s, offset) == SubSeq(s, offset + 1, IF offset + Limit < Len(s) THEN offset + Limit ELSE Len(s))

\* Rows came or went: no listing in progress sees one state of the table.
Disturbed == [n \in Loads |-> [loads[n] EXCEPT !.quiet = FALSE]]

-----------------------------------------------------------------------------
(* What the page shows, and which controls it offers.                      *)

StatusOf(r) == IF r \notin Flagged THEN "Clean" ELSE IF r \in Approved THEN "Approved" ELSE "Needs review"
Cards == [status \in Statuses |-> Cardinality({i \in DOMAIN shown : StatusOf(shown[i]) = status})]
Filtered == {r \in Elements(shown) : filter \in {"all", StatusOf(r)} /\ r \in query}

\* The page under a confirmation dialog cannot be used.
Free == page = "records" /\ dialog = None
CardsShown == ~loading /\ ~failed /\ shown # <<>>
TableShown == CardsShown /\ Filtered # {}
Uploading == mine # None
BulkDeleting == \E d \in deletes : d.how = "bulk"

\* What the list of uploads may offer: it can be older than the server's.
Options == IF listed THEN Elements(uploads) \cup {All} ELSE {All}

-----------------------------------------------------------------------------
(* Loading the list.                                                       *)

Started(u, uploaded) == [NoLoad EXCEPT !.at = "reading", !.run = u, !.uploaded = uploaded]

\* load(), for the run its closure has.
CallLoad(n, u, uploaded) ==
    /\ loads[n].at = "idle" /\ \A m \in Loads : m < n => loads[m].at # "idle"
    /\ loads' = [loads EXCEPT ![n] = Started(u, uploaded)]
    /\ loading' = TRUE /\ failed' = FALSE

\* Mutant: one row too early.
EndsEarly(got, last, total) == last = <<>> \/ Len(got) + 1 >= total

\* listRecords() stops at an empty page, or once it has as many as the total.
Ends(got, last, total) == last = <<>> \/ Len(got) >= total

\* The server answers for one page, its two queries (the total, the rows) as
\* one step; listRecords() asks for the next page or ends.
ReadPage(n) ==
    /\ loads[n].at = "reading"
    /\ \E s \in Listings(loads[n].run) :
        LET last == PageOf(s, Len(loads[n].got))
            got == loads[n].got \o last
        IN  loads' = [loads EXCEPT ![n].got = got,
                                   ![n].at = IF Ends(got, last, Len(s)) THEN "read" ELSE "reading"]
    /\ UNCHANGED <<server, page, run, shown, loading, failed, listed, runReads, choices,
                   upload, deletes, history>>

\* The last answer arrives, some time later.
LoadEnds(n) ==
    /\ loads[n].at = "read"
    /\ loads' = [loads EXCEPT ![n] = NoLoad]
    /\ shown' = loads[n].got
    /\ loading' = FALSE
    /\ UNCHANGED <<server, page, run, failed, listed, runReads, choices, upload, deletes, history>>

\* Mutant: loading is reset on success alone, not in finally.
LoadFailsSpinning(n) ==
    /\ loads[n].at # "idle"
    /\ loads' = [loads EXCEPT ![n] = NoLoad]
    /\ failed' = TRUE
    /\ UNCHANGED <<server, page, run, shown, loading, listed, runReads, choices, upload, deletes, history>>

LoadFails(n) ==
    /\ loads[n].at # "idle"
    /\ loads' = [loads EXCEPT ![n] = NoLoad]
    /\ failed' = TRUE /\ loading' = FALSE
    /\ UNCHANGED <<server, page, run, shown, listed, runReads, choices, upload, deletes, history>>

\* listIngestionRuns() for the picker, or for the upload history.
ServeRuns(read) ==
    /\ read \in runReads
    /\ runReads' = runReads \ {read}
    /\ listed' = (uploads # <<>>)
    /\ loading' = (loading /\ page = "records")
    /\ UNCHANGED <<server, page, run, shown, failed, loads, choices, upload, deletes, history>>

\* The records page hides its picker, the history page shows the error.
RunsFail(read) ==
    /\ read \in runReads
    /\ runReads' = runReads \ {read}
    /\ listed' = FALSE
    /\ loading' = (loading /\ page = "records")
    /\ failed' = (failed \/ page = "history")
    /\ UNCHANGED <<server, page, run, shown, loads, choices, upload, deletes, history>>

-----------------------------------------------------------------------------
(* Coming, going, choosing an upload.                                      *)

Emptied ==
    /\ shown' = <<>> /\ listed' = FALSE /\ runReads' = {"mount"}
    /\ filter' = "all" /\ query' = Records /\ ticked' = {} /\ dialog' = None

\* The page mounts: by the navigation, or by a link of the upload history.
Visit(n, u) ==
    /\ page = "history" /\ u \in Options
    /\ page' = "records" /\ run' = u
    /\ CallLoad(n, u, FALSE)
    /\ Emptied
    /\ result' = saved
    /\ UNCHANGED <<server, file, mine, since, saved, deletes, history>>

\* It unmounts.  What it asked for still happens; nobody uses the answers,
\* but an upload's result still goes to sessionStorage.
Leave ==
    /\ page = "records" /\ dialog = None
    /\ page' = "history" /\ run' = All
    /\ Emptied
    /\ loading' = TRUE /\ failed' = FALSE
    /\ loads' = [n \in Loads |-> NoLoad]
    /\ file' = [u \in Runs |-> IF file[u] = "answered" THEN "done" ELSE file[u]]
    /\ mine' = None /\ since' = All /\ result' = None
    /\ deletes' = {[d EXCEPT !.how = "left"] : d \in {e \in deletes : e.at = "sent"}}
    /\ UNCHANGED <<server, saved, history>>

\* The address names another upload: load has a new closure, and runs.
GoTo(n, u) ==
    /\ run' = u /\ u # run
    /\ CallLoad(n, u, FALSE)
    /\ UNCHANGED <<server, page, shown, listed, runReads, choices, upload, deletes, history>>

\* The picker: open, move to an option, choose it.
Choose(n, u) ==
    /\ Free /\ ~Uploading /\ listed
    /\ u \in Options
    /\ GoTo(n, u)

\* The browser's Back and Forward: no control of the page disables them.
Back(n, u) ==
    /\ page = "records" /\ u \in Elements(uploads) \cup {All}
    /\ GoTo(n, u)

\* A card can be pressed; so can a number of the upload's banner, unless it
\* is zero.
Pressable == CardsShown /\ ~Uploading
Counted(status) ==
    /\ result # None /\ status \in {"Clean", "Needs review"}
    /\ \E r \in Records : RunOf[r] = result /\ (status = "Clean") = (r \notin Flagged)

SetFilter(status) ==
    /\ Free /\ status # filter
    /\ Pressable \/ Counted(status)
    /\ filter' = status
    /\ UNCHANGED <<server, page, listing, listed, runReads, query, ticked, dialog, upload, deletes, history>>

Search(matches) ==
    /\ Free /\ ~Uploading /\ matches # query
    /\ query' = matches
    /\ UNCHANGED <<server, page, listing, listed, runReads, filter, ticked, dialog, upload, deletes, history>>

Ticks(set) ==
    /\ Free /\ TableShown
    /\ ticked' = set
    /\ UNCHANGED <<server, page, listing, listed, runReads, filter, query, dialog, upload, deletes, history>>

Tick(r) == r \in Filtered /\ Ticks(IF r \in ticked THEN ticked \ {r} ELSE ticked \cup {r})
TickAll == Ticks(IF Filtered \subseteq ticked THEN ticked \ Filtered ELSE ticked \cup Filtered)

-----------------------------------------------------------------------------
(* Deleting.                                                               *)

Ask(what) ==
    /\ Free /\ TableShown
    /\ dialog' = what
    /\ UNCHANGED <<server, page, listing, listed, runReads, filter, query, ticked, upload, deletes, history>>

AskDelete(r) == r \in Filtered /\ Ask(r)
AskBulkDelete == ticked # {} /\ ~BulkDeleting /\ Ask("bulk")

Cancel ==
    /\ dialog # None /\ dialog' = None
    /\ UNCHANGED <<server, page, listing, listed, runReads, filter, query, ticked, upload, deletes, history>>

Confirm(d) ==
    /\ d.at = "sent" /\ d \notin deletes
    /\ dialog' = None
    /\ deletes' = deletes \cup {d}
    /\ UNCHANGED <<server, page, listing, listed, runReads, filter, query, ticked, upload, history>>

ConfirmDelete == dialog \in Records /\ Confirm([ids |-> {dialog}, how |-> "one", at |-> "sent"])
ConfirmBulkDelete == dialog = "bulk" /\ Confirm([ids |-> ticked, how |-> "bulk", at |-> "sent"])

\* The server deletes what it still has.  One missing record is a 404; a
\* selection is deleted as far as it exists.
ServeDelete(d) ==
    /\ d \in deletes /\ d.at = "sent"
    /\ d.how = "one" => d.ids \subseteq live
    /\ live' = live \ d.ids
    /\ loads' = Disturbed
    /\ deletes' = (deletes \ {d}) \cup IF d.how = "left" THEN {} ELSE {[d EXCEPT !.at = "done"]}
    /\ UNCHANGED <<uploads, page, run, shown, loading, failed, listed, runReads, choices, upload, history>>

\* Refused (one record already gone is a 404), or the connection lost before
\* or after the server acted: an alert or a banner, and nothing else.
DeleteFails(d) ==
    /\ d \in deletes
    /\ deletes' = deletes \ {d}
    /\ UNCHANGED <<server, page, listing, listed, runReads, choices, upload, history>>

\* filter() keeps the others' order.
Without(s, ids) == Picked(s, {i \in DOMAIN s : s[i] \notin ids})

\* Mutant: a bulk delete keeps the selection.
UntickedAlone(d) == IF d.how = "bulk" THEN ticked ELSE ticked \ d.ids

\* A record alone leaves the selection; a bulk delete clears the selection.
Unticked(d) == IF d.how = "bulk" THEN {} ELSE ticked \ d.ids

HearDeleted(d) ==
    /\ d \in deletes /\ d.at = "done"
    /\ deletes' = deletes \ {d}
    /\ shown' = Without(shown, d.ids)
    /\ ticked' = Unticked(d)
    /\ told' = told \cup d.ids
    /\ risky' = risky \cup {r \in d.ids : \E n \in Loads : r \in Elements(loads[n].got)}
    /\ UNCHANGED <<server, page, run, loading, failed, loads, listed, runReads, filter, query, dialog, upload>>

-----------------------------------------------------------------------------
(* Uploading.                                                              *)

\* handleFileChange() up to its first await.
PickFile(u) ==
    /\ Free /\ ~Uploading /\ file[u] = "none"
    /\ file' = [file EXCEPT ![u] = "sent"]
    /\ mine' = u /\ since' = run
    /\ result' = None /\ saved' = None
    /\ UNCHANGED <<server, page, listing, listed, runReads, choices, deletes, history>>

Store(u) ==
    /\ uploads' = Append(uploads, u)
    /\ live' = live \cup {r \in Records : RunOf[r] = u}
    /\ loads' = Disturbed

ServeUpload(u) ==
    /\ file[u] = "sent"
    /\ file' = [file EXCEPT ![u] = "stored"]
    /\ Store(u)
    /\ UNCHANGED <<page, run, shown, loading, failed, listed, runReads, choices, mine, since, result,
                   saved, deletes, history>>

\* Refused, or the connection lost before or after the server stored it.
UploadFails(u) ==
    /\ file[u] \in {"sent", "stored"}
    /\ file' = [file EXCEPT ![u] = IF file[u] = "sent" THEN "none" ELSE "done"]
    /\ mine' = IF u = mine THEN None ELSE mine
    /\ UNCHANGED <<server, page, listing, listed, runReads, choices, since, result, saved,
                   deletes, history>>

\* The result is shown and kept; load() and loadRuns() run as they were when
\* the upload began.
HearUpload(n, u) ==
    /\ file[u] = "stored" /\ u = mine
    /\ file' = [file EXCEPT ![u] = "answered"]
    /\ result' = u /\ saved' = u
    /\ CallLoad(n, since, TRUE)
    /\ runReads' = runReads \cup {"upload"}
    /\ UNCHANGED <<server, page, run, shown, listed, choices, mine, since, deletes, history>>

\* The same for a page that was left: only sessionStorage sees it.
HearUploadLate(u) ==
    /\ file[u] = "stored" /\ u # mine
    /\ file' = [file EXCEPT ![u] = "done"]
    /\ saved' = u
    /\ UNCHANGED <<server, page, listing, listed, runReads, choices, mine, since, result, deletes, history>>

\* Both reads have ended: Promise.all() resolves.
EndUpload ==
    /\ Uploading /\ file[mine] = "answered"
    /\ \A n \in Loads : ~loads[n].uploaded
    /\ "upload" \notin runReads
    /\ file' = [file EXCEPT ![mine] = "done"]
    /\ mine' = None
    /\ UNCHANGED <<server, page, listing, listed, runReads, choices, since, result, saved, deletes, history>>

Dismiss ==
    /\ Free /\ result # None
    /\ result' = None /\ saved' = None
    /\ UNCHANGED <<server, page, listing, listed, runReads, choices, file, mine, since, deletes, history>>

\* External: the same account elsewhere, the retention sweep.
UploadElsewhere(u) ==
    /\ file[u] = "none"
    /\ file' = [file EXCEPT ![u] = "done"]
    /\ Store(u)
    /\ UNCHANGED <<page, run, shown, loading, failed, listed, runReads, choices, mine, since, result,
                   saved, deletes, history>>

DeleteElsewhere(r) ==
    /\ r \in live /\ live' = live \ {r}
    /\ loads' = Disturbed
    /\ UNCHANGED <<uploads, page, run, shown, loading, failed, listed, runReads, choices, upload, deletes, history>>

-----------------------------------------------------------------------------
\* The page mounts in a fresh tab.
Init ==
    /\ uploads = Before
    /\ live = {r \in Records : RunOf[r] \in Elements(uploads)}
    /\ page = "records" /\ run = All /\ shown = <<>>
    /\ loading = TRUE /\ failed = FALSE
    /\ loads = [n \in Loads |-> IF n = 1 THEN Started(All, FALSE) ELSE NoLoad]
    /\ listed = FALSE /\ runReads = {"mount"}
    /\ filter = "all" /\ query = Records /\ ticked = {} /\ dialog = None
    /\ file = [u \in Runs |-> IF u \in Elements(uploads) THEN "done" ELSE "none"]
    /\ mine = None /\ since = All /\ result = None /\ saved = None
    /\ deletes = {} /\ told = {} /\ risky = {}
    /\ acts = 0

Answering ==
    \/ \E n \in Loads : ReadPage(n) \/ LoadEnds(n)
    \/ \E read \in runReads : ServeRuns(read)
    \/ \E u \in Runs : ServeUpload(u) \/ HearUploadLate(u) \/ \E n \in Loads : HearUpload(n, u)
    \/ EndUpload
    \/ \E d \in deletes : ServeDelete(d) \/ HearDeleted(d)

Failing ==
    \/ \E n \in Loads : LoadFails(n)
    \/ \E read \in runReads : RunsFail(read)
    \/ \E u \in Runs : UploadFails(u)
    \/ \E d \in deletes : DeleteFails(d)

\* A confirmation dialog is closed one way or the other.
Deciding == Cancel \/ ConfirmDelete \/ ConfirmBulkDelete

Using ==
    \/ Leave \/ TickAll \/ AskBulkDelete \/ Dismiss
    \/ \E n \in Loads, u \in Choices : Visit(n, u) \/ Choose(n, u) \/ Back(n, u)
    \/ \E status \in Statuses \cup {"all"} : SetFilter(status)
    \/ \E matches \in Queries : Search(matches)
    \/ \E r \in Records : Tick(r) \/ AskDelete(r)
    \/ \E u \in Runs : PickFile(u)

Elsewhere ==
    \/ \E u \in Runs : UploadElsewhere(u)
    \/ \E r \in Records : DeleteElsewhere(r)

Next ==
    \/ (Answering \/ Failing \/ Deciding) /\ acts' = acts
    \/ (Using \/ Elsewhere) /\ acts < MaxActs /\ acts' = acts + 1

\* The server goes on answering and the browser runs what awaits the answers:
\* nothing has to fail for the page to come to rest.
Spec == Init /\ [][Next]_vars /\ WF_vars(Answering /\ acts' = acts)

-----------------------------------------------------------------------------
\* A listing that no upload or deletion disturbs ends with every row of its
\* upload once, so that the cards add up to what is stored; unless rows with
\* one created_at fall on both sides of a page boundary (listRecords()).
Straddles(u) ==
    \E s \in Listings(u) : \E i \in DOMAIN s :
        i % Limit = 0 /\ i < Len(s) /\ RunOf[s[i]] = RunOf[s[i + 1]]

QuietListingIsWhole ==
    [][\A n \in Loads :
        (/\ loads[n].at = "read" /\ loads'[n].at = "idle" /\ page' = "records" /\ ~failed'
         /\ loads[n].quiet /\ ~Straddles(loads[n].run))
        => \A status \in Statuses :
            Cards'[status] = Cardinality({r \in Rows(loads[n].run) : StatusOf(r) = status})]_vars

\* A record the page was told is deleted is neither listed nor selected any
\* more, unless a load that was under way had read it (confirmDelete(),
\* confirmBulkDelete()).
GoneStaysGone == (told \ risky) \cap (Elements(shown) \cup ticked) = {}

\* The list stops loading and the upload button comes back, however the
\* requests end (load(), handleFileChange()).
SpinnersStop == (loading ~> ~loading) /\ (Uploading ~> ~Uploading)
=============================================================================
