------------------------------ MODULE Ingestion ------------------------------
(***************************************************************************)
(* POST /records/upload of one owner: ingest_file() works through a file   *)
(* row by row inside one transaction at READ COMMITTED, while other        *)
(* uploads, corrections, reviews, deletions and the retention sweep commit *)
(* around it.  Deduplication compares one field, the mapping's dedup key:  *)
(* with the file's earlier rows (tidycsv's flag_duplicates), then with what*)
(* is stored.  No constraint of the database makes that key unique.        *)
(***************************************************************************)
EXTENDS Integers, FiniteSets

CONSTANTS
    Uploads,        \* upload requests, each with a run of its own
    Keys,           \* what a key field may hold
    Blank,          \* the empty cell: str(None) equals no stored text
    Names,          \* target_fields the mapping may give the key column (or columns)
    Files,          \* files as their mapping coerces them: functions from 1..n
                    \* to the key and whether the row has an issue
    MaxChanges      \* bound: requests other than uploads

ASSUME IngestionAssumption ==
    /\ IsFiniteSet(Uploads)
    /\ Blank \in Keys
    /\ Names # {}
    /\ MaxChanges \in Nat
    /\ \A file \in Files :
        /\ IsFiniteSet(DOMAIN file)
        /\ file \in [1..Cardinality(DOMAIN file) -> [key : Keys, odd : BOOLEAN]]

VARIABLES
    mapping,        \* the saved column mapping: the key column's name, dedup on or off
    upload,         \* what each ingest_file() holds
    records,        \* committed client_records, by run and row of its file
    runs,           \* committed ingestion_runs: name in its resolution, counters
    \* history and bounds
    before,         \* <<u, v>>: u had committed when v read the mapping
    moved,          \* records whose key was corrected, renamed or coerced anew since
    lost,           \* names and keys that left the store since an upload last
                    \* skipped a row for them
    erased,         \* how many of a run's records were deleted
    changes

vars == <<mapping, upload, records, runs, before, moved, lost, erased, changes>>

Mapping == [name : Names, dedup : BOOLEAN]
NoFile == [i \in {} |-> [key |-> Blank, odd |-> FALSE]]
AnyName == CHOOSE name \in Names : TRUE
Idle == [pc |-> "idle", file |-> NoFile, name |-> AnyName, dedup |-> FALSE,
         kept |-> {}, rest |-> {}, inserted |-> {}]
NoRun == [name |-> AnyName, total |-> 0, clean |-> 0, flagged |-> 0,
          dropped |-> 0, skipped |-> 0]

Live == DOMAIN records
OfRun(u) == {id \in Live : id[1] = u}
NameOf(id) == runs[id[1]].name
KeyOf(u, i) == upload[u].file[i].key
Committed == {u \in Uploads : upload[u].pc = "done"}

Upload == [pc : {"idle", "loading", "done", "failed", "swept"},
           file : Files \cup {NoFile}, name : Names, dedup : BOOLEAN,
           kept : SUBSET Nat, rest : SUBSET Nat, inserted : SUBSET Nat]
Run == [name : Names, total : Nat, clean : Nat, flagged : Nat, dropped : Nat, skipped : Nat]

TypeOK ==
    /\ mapping \in Mapping
    /\ upload \in [Uploads -> Upload]
    /\ runs \in [Uploads -> Run]
    /\ records \in [Live -> [key : Keys, odd : BOOLEAN]]
    /\ Live \subseteq Committed \X Nat
    /\ changes \in 0..MaxChanges

Init ==
    /\ mapping \in Mapping
    /\ upload = [u \in Uploads |-> Idle]
    /\ records = [id \in {} |-> [key |-> Blank, odd |-> FALSE]]
    /\ runs = [u \in Uploads |-> NoRun]
    /\ before = {} /\ moved = {}
    /\ lost = [u \in Uploads |-> {}]
    /\ erased = [u \in Uploads |-> 0]
    /\ changes = 0

-----------------------------------------------------------------------------
(* An upload *)

\* flag_duplicates keeps the first of the rows with one key.  Whether empty
\* keys repeat each other is tidycsv's choice.
Kept(file, dedup, collapse) ==
    {i \in DOMAIN file : dedup =>
        ~\E j \in DOMAIN file :
            j < i /\ file[j].key = file[i].key /\ (file[i].key # Blank \/ collapse)}

\* Everything before the first row: the mapping is read, the file mapped and
\* checked, the run inserted (and not yet committed).
Receive(u, file, collapse) ==
    LET kept == Kept(file, mapping.dedup, collapse) IN
    /\ upload[u].pc = "idle"
    /\ upload' = [upload EXCEPT ![u] =
            [pc |-> "loading", file |-> file, name |-> mapping.name,
             dedup |-> mapping.dedup, kept |-> kept, rest |-> kept, inserted |-> {}]]
    /\ before' = before \cup (Committed \X {u})
    /\ UNCHANGED <<mapping, records, runs, moved, lost, erased, changes>>

StoredAnyName(u, key) ==
    key # Blank /\ \E id \in Live : records[id].key = key
StoredByRun(u, key) ==
    key # Blank /\ \E i \in upload[u].inserted : KeyOf(u, i) = key
\* SELECT ... WHERE fields[name] = key: what others have committed by now and
\* what this upload has flushed.  An empty key matches nothing.
Stored(u, key) ==
    /\ key # Blank
    /\ \/ \E id \in Live : NameOf(id) = upload[u].name /\ records[id].key = key
       \/ \E i \in upload[u].inserted : KeyOf(u, i) = key

\* An upload, further on.
Now(up, pc, rest, inserted) ==
    [pc |-> pc, file |-> up.file, name |-> up.name, dedup |-> up.dedup,
     kept |-> up.kept, rest |-> rest, inserted |-> inserted]
Ended(up, pc) == Now(up, pc, up.rest, up.inserted)

Row(u, i) ==
    LET up == upload[u]
        skip == up.dedup /\ Stored(u, KeyOf(u, i)) IN
    /\ up.pc = "loading" /\ i \in up.rest /\ \A j \in up.rest : i <= j
    /\ upload' = [upload EXCEPT ![u] = Now(up, "loading", up.rest \ {i},
            IF skip THEN up.inserted ELSE up.inserted \cup {i})]
    /\ lost' = [v \in Uploads |->
            IF v = u /\ skip THEN lost[v] \ {<<up.name, KeyOf(u, i)>>} ELSE lost[v]]
    /\ UNCHANGED <<mapping, records, runs, before, moved, erased, changes>>

\* The rows of the file that have issues, by the index they have in the file;
\* the rows that deduplication leaves are looked up by that same index.
IssueMap(u) == {i \in DOMAIN upload[u].file : upload[u].file[i].odd}
Flagged(u, i) == i \in IssueMap(u)

InsertedRecords(u) ==
    [id \in {u} \X upload[u].inserted |->
        [key |-> KeyOf(u, id[2]), odd |-> Flagged(u, id[2])]]

Counters(u) ==
    LET up == upload[u]
        odd == {i \in up.inserted : Flagged(u, i)} IN
    [name |-> up.name, total |-> Cardinality(DOMAIN up.file),
     clean |-> Cardinality(up.inserted) - Cardinality(odd),
     flagged |-> Cardinality(odd),
     dropped |-> Cardinality(DOMAIN up.file) - Cardinality(up.kept),
     skipped |-> Cardinality(up.kept) - Cardinality(up.inserted)]

Commit(u) ==
    LET new == InsertedRecords(u) IN
    /\ upload[u].pc = "loading" /\ upload[u].rest = {}
    /\ upload' = [upload EXCEPT ![u] = Ended(upload[u], "done")]
    /\ records' = [id \in Live \cup DOMAIN new |->
                    IF id \in DOMAIN new THEN new[id] ELSE records[id]]
    /\ runs' = [runs EXCEPT ![u] = Counters(u)]
    /\ UNCHANGED <<mapping, before, moved, lost, erased, changes>>

\* Anything may raise, or the process die: nothing was committed.
Fail(u) ==
    /\ upload[u].pc = "loading"
    /\ upload' = [upload EXCEPT ![u] = Ended(upload[u], "failed")]
    /\ UNCHANGED <<mapping, records, runs, before, moved, lost, erased, changes>>

-----------------------------------------------------------------------------
(* The other requests, each one transaction *)

Change == changes < MaxChanges /\ changes' = changes + 1

\* The records that stop holding what they held, for NoRowLost.
Leave(ids) == lost' = [u \in Uploads |->
    lost[u] \cup {<<NameOf(id), records[id].key>> : id \in ids}]

WithCounts(u, name, clean, flagged) ==
    [name |-> name, total |-> runs[u].total, clean |-> clean, flagged |-> flagged,
     dropped |-> runs[u].dropped, skipped |-> runs[u].skipped]
RecountedFlags(u, name, table) ==
    WithCounts(u, name, runs[u].clean,
         Cardinality({id \in DOMAIN table : id[1] = u /\ table[id].odd}))
\* Counts over a table, by PATCH and by PUT /column-mappings.
Recounted(u, name, table) ==
    LET all == {id \in DOMAIN table : id[1] = u}
        odd == {id \in all : table[id].odd} IN
    WithCounts(u, name, Cardinality(all) - Cardinality(odd), Cardinality(odd))

\* DELETE /records/{id}, POST /records/bulk-delete.  The counters stay.
Delete(ids) ==
    /\ Change /\ ids # {} /\ ids \subseteq Live
    /\ records' = [id \in Live \ ids |-> records[id]]
    /\ erased' = [u \in Uploads |-> erased[u] + Cardinality(ids \cap OfRun(u))]
    /\ Leave(ids)
    /\ UNCHANGED <<mapping, upload, runs, before, moved>>

\* PATCH /records/{id} of the key field, or of another.
Correct(id, key, odd) ==
    /\ Change /\ id \in Live
    /\ records' = [records EXCEPT ![id] = [key |-> key, odd |-> odd]]
    /\ runs' = [runs EXCEPT ![id[1]] = Recounted(id[1], NameOf(id), records')]
    /\ moved' = IF key = records[id].key THEN moved ELSE moved \cup {id}
    /\ Leave(IF key = records[id].key THEN {} ELSE {id})
    /\ UNCHANGED <<mapping, upload, before, erased>>

\* PUT /column-mappings without a run to apply it to.
Save(new) ==
    /\ Change
    /\ mapping' = new
    /\ UNCHANGED <<upload, records, runs, before, moved, lost, erased>>

\* The records whose dedup key a review of their run changes: all if the field is
\* renamed, else those that the new type, or another field's value, changes.
Recoerced(u, name, keys) ==
    {id \in OfRun(u) : name # runs[u].name \/ keys[id] # records[id].key}

\* PUT /column-mappings applied to a run: its fields are renamed and coerced anew
\* under the types of the new mapping, and some rows are found odd.
Review(u, new, keys, odd) ==
    /\ Change /\ OfRun(u) # {}
    /\ mapping' = new
    /\ records' = [id \in Live |-> IF id \in OfRun(u)
                                  THEN [key |-> keys[id], odd |-> odd[id]]
                                  ELSE records[id]]
    /\ runs' = [runs EXCEPT ![u] = Recounted(u, new.name, records')]
    /\ moved' = moved \cup Recoerced(u, new.name, keys)
    /\ Leave(Recoerced(u, new.name, keys))
    /\ UNCHANGED <<upload, before, erased>>

\* The retention sweep: every run that began before the cutoff, with its records.
Sweep(old) ==
    LET ids == {id \in Live : id[1] \in old} IN
    /\ Change /\ old # {} /\ old \subseteq Committed
    /\ \A u \in old, v \in Committed : <<v, u>> \in before => v \in old
    /\ upload' = [u \in Uploads |->
            IF u \in old THEN Ended(upload[u], "swept") ELSE upload[u]]
    /\ records' = [id \in Live \ ids |-> records[id]]
    /\ Leave(ids)
    /\ UNCHANGED <<mapping, runs, before, moved, erased>>

Next ==
    \/ \E u \in Uploads :
        \/ \E file \in Files, collapse \in BOOLEAN : Receive(u, file, collapse)
        \/ \E i \in upload[u].rest : Row(u, i)
        \/ Commit(u)
        \/ Fail(u)
        \/ \E new \in Mapping, keys \in [OfRun(u) -> Keys], odd \in [OfRun(u) -> BOOLEAN] :
                Review(u, new, keys, odd)
    \/ \E old \in SUBSET Committed : Sweep(old)
    \/ \E ids \in SUBSET Live : Delete(ids)
    \/ \E id \in Live, key \in Keys, odd \in BOOLEAN : Correct(id, key, odd)
    \/ \E new \in Mapping : Save(new)

Spec == Init /\ [][Next]_vars

-----------------------------------------------------------------------------
(* Properties *)

\* v looked for duplicates of what u had stored.
Guarded(u, v) == upload[v].dedup /\ (u = v \/ <<u, v>> \in before)
SameKey(r, s) ==
    NameOf(r) = NameOf(s) /\ records[r].key = records[s].key /\ records[r].key # Blank

\* Two records whose keys are still as uploaded share a dedup key only if their
\* uploads overlapped or the later one did not deduplicate: ingest_file's check
\* (ingest.py:259-277) leaves no other way in, through skipped rows, erasures, and
\* corrections and reviews of other records.
DuplicatesRaced ==
    \A r, s \in Live \ moved : r # s /\ SameKey(r, s) => ~Guarded(r[1], s[1])

\* A row of a finished upload is in the store, repeats an earlier row of its file,
\* or was skipped for a stored record that was there with its key, and still is
\* unless a request has erased it, or corrected, renamed or coerced its key anew,
\* since the row was skipped (ingest.py:219-289).
Represented(u, i) ==
    \/ i \in upload[u].inserted
    \/ /\ upload[u].dedup
       /\ \E j \in DOMAIN upload[u].file : j < i /\ KeyOf(u, j) = KeyOf(u, i)
    \/ /\ upload[u].dedup /\ KeyOf(u, i) # Blank
       /\ \/ \E id \in Live : NameOf(id) = upload[u].name /\ records[id].key = KeyOf(u, i)
          \/ <<upload[u].name, KeyOf(u, i)>> \in lost[u]
NoRowLost ==
    \A u \in Committed : \A i \in DOMAIN upload[u].file : Represented(u, i)

\* The five counters of a run account for each row of its file once, and fall
\* short of the total only by rows whose records were deleted since
\* (ingest.py:237-240, 291-293, main.py:1006-1017, 652-655).
Unaccounted(u) ==
    runs[u].total - (runs[u].clean + runs[u].flagged + runs[u].dropped + runs[u].skipped)
RunsAddUp == \A u \in Committed : Unaccounted(u) \in 0..erased[u]
=============================================================================
