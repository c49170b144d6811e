---------------------------- MODULE ColumnMapping ----------------------------
(***************************************************************************)
(* Which field a file's column becomes, and what happens to stored fields  *)
(* when a review changes that: mapping.py, the lookup in ingest_file() and *)
(* PUT /column-mappings/{fingerprint}, of one owner.                       *)
(*                                                                         *)
(* A value is abstracted to the columns whose cells it was made from, in   *)
(* order; every record of a run is treated alike, so one stands for all.   *)
(***************************************************************************)
EXTENDS Positions

CONSTANTS
    Files,          \* header rows: sequences of distinct headers
    Targets,        \* field names a review may choose
    NoTarget,       \* target_field: null, the column is left out
    MaxUploads,     \* bound: uploads, those that fail included
    MaxReviews      \* bound: saves

(***************************************************************************)
(* A header is [name, text, upper]: its normalised (or alias-matched) name,*)
(* its text without case, and how it is cased.  A name is a sequence, so   *)
(* that Append(name, 2) is the name with "_2".                             *)
(***************************************************************************)
Headers == UNION {Elements(file) : file \in Files}

ASSUME MappingAssumption ==
    /\ \A file \in Files :
        /\ file \in Seq(Elements(file))
        /\ \A i, j \in DOMAIN file : file[i] = file[j] => i = j
        /\ \A h \in Elements(file) :
            /\ h.name \in Seq(Elements(h.name))
            /\ NoTarget \notin {h.name} \cup {Append(h.name, k) : k \in 2..Len(file)}
    /\ \A h, g \in Headers : h.text = g.text => h.name = g.name
    /\ NoTarget \notin Targets
    /\ MaxUploads \in Nat /\ MaxReviews \in Nat

VARIABLES
    mappings,       \* column_mappings: from header_fingerprint to field_resolutions
    runs,           \* ingestion_runs, in order, with the fields of their records
    refused,        \* history: uploads that ended in an error, with their mapping
    reviews

mappingVars == <<mappings, runs, refused, reviews>>

-----------------------------------------------------------------------------
(* mapping.py                                                              *)

FingerprintOfSet(file) == [t \in {file[i].text : i \in DOMAIN file} |-> 1]
\* The multiset of lower-cased headers.
Fingerprint(file) ==
    [t \in {file[i].text : i \in DOMAIN file} |->
        Cardinality({i \in DOMAIN file : file[i].text = t})]

DefaultTargetOnce(file, i) ==
    IF \E j \in 1..i-1 : file[j].name = file[i].name
    THEN Append(file[i].name, 2) ELSE file[i].name
\* The k-th header of one name gets the suffix k, from the second on.
DefaultTarget(file, i) ==
    LET earlier == {j \in 1..i-1 : file[j].name = file[i].name} IN
    IF earlier = {} THEN file[i].name
    ELSE Append(file[i].name, Cardinality(earlier) + 1)

DefaultResolution(file) ==
    [i \in DOMAIN file |-> [column |-> file[i], target |-> DefaultTarget(file, i)]]

TargetsOf(resolution) == {resolution[i].target : i \in DOMAIN resolution} \ {NoTarget}
ColumnsOf(resolution) == [i \in DOMAIN resolution |-> resolution[i].column]

\* Columns that share a target are joined in the resolution's order.
ApplyMapping(resolution) ==
    [t \in TargetsOf(resolution) |->
        Picked(ColumnsOf(resolution), {i \in DOMAIN resolution : resolution[i].target = t})]

-----------------------------------------------------------------------------
(* A review applied to stored fields                                       *)

\* old_by_raw: a column the old resolution does not name had no field.
OldTarget(old, column) ==
    IF \E i \in DOMAIN old : old[i].column = column
    THEN old[CHOOSE i \in DOMAIN old : old[i].column = column].target
    ELSE NoTarget

Moves(old, new) ==
    [i \in DOMAIN new |-> [from |-> OldTarget(old, new[i].column), to |-> new[i].target]]
Changed(moves) ==
    {i \in DOMAIN moves : moves[i].from # NoTarget /\ moves[i].from # moves[i].to}

\* rename_map: an old name keeps the place of its first entry and takes the
\* value of its last.
Renames(moves) == {i \in Changed(moves) : moves[i].to # NoTarget}
OldNames(moves) ==
    Picked([i \in DOMAIN moves |-> moves[i].from],
           {i \in Renames(moves) : \A j \in Renames(moves) : j < i => moves[j].from # moves[i].from})
NewName(moves, name) ==
    moves[CHOOSE i \in Renames(moves) :
        /\ moves[i].from = name
        /\ \A j \in Renames(moves) : j > i => moves[j].from # name].to

RelabelCopying(fields, name, new) ==
    IF name \notin DOMAIN fields THEN fields
    ELSE [t \in DOMAIN fields \cup {new} |-> IF t = new THEN fields[name] ELSE fields[t]]
\* updated_fields[new] = updated_fields.pop(name): what new held is gone.
Relabel(fields, name, new) ==
    IF name \notin DOMAIN fields THEN fields
    ELSE [t \in (DOMAIN fields \ {name}) \cup {new} |->
            IF t = new THEN fields[name] ELSE fields[t]]

Renamed(fields, moves) ==
    LET names == OldNames(moves)
        after[k \in 0..Len(names)] ==
            IF k = 0 THEN fields
            ELSE Relabel(after[k - 1], names[k], NewName(moves, names[k]))
    IN  after[Len(names)]

DroppedAndRenamed(moves) == {moves[i].from : i \in Changed(moves)}
\* drop_fields
Dropped(moves) == {moves[i].from : i \in Changed(moves) \ Renames(moves)}

\* map_columns: exactly the schema's fields, those that are missing blank.
MapColumns(fields, targets) ==
    [t \in targets |-> IF t \in DOMAIN fields THEN fields[t] ELSE <<>>]

Reviewed(fields, old, new) ==
    LET moves == Moves(old, new)
        renamed == Renamed(fields, moves)
    IN  MapColumns([t \in DOMAIN renamed \ Dropped(moves) |-> renamed[t]], TargetsOf(new))

-----------------------------------------------------------------------------
(* Requests                                                                *)

MappingInit == mappings = [shape \in {} |-> <<>>] /\ runs = <<>> /\ refused = {} /\ reviews = 0

ResolutionFor(file) ==
    IF Fingerprint(file) \in DOMAIN mappings THEN mappings[Fingerprint(file)]
    ELSE DefaultResolution(file)

\* A mapped column must be in the file under the very name the mapping has.
Mappable(file, resolution) ==
    \A entry \in Elements(resolution) : entry.target # NoTarget => entry.column \in Elements(file)

Upload(file) ==
    LET resolution == ResolutionFor(file) IN
    /\ Len(runs) + Cardinality(refused) < MaxUploads
    /\ Mappable(file, resolution)
    /\ runs' = Append(runs, [headers |-> file, resolution |-> resolution,
                             sent |-> <<resolution>>,
                             fields |-> ApplyMapping(resolution), tidy |-> TRUE])
    /\ UNCHANGED <<mappings, refused, reviews>>

\* raw[...] raises KeyError; nothing is stored.
UploadRefused(file) ==
    LET resolution == ResolutionFor(file) IN
    /\ Len(runs) + Cardinality(refused) < MaxUploads
    /\ ~Mappable(file, resolution)
    /\ refused' = refused \cup {[file |-> file, resolution |-> resolution]}
    /\ UNCHANGED <<mappings, runs, reviews>>

\* The review screen shows the saved mapping of the run's shape, else the one
\* the run came with, and lets every target be changed.
Shown(run, old) ==
    IF Fingerprint(run.headers) \in DOMAIN mappings THEN mappings[Fingerprint(run.headers)]
    ELSE old
TargetChoices(shown) == [DOMAIN shown -> Targets \cup {NoTarget}]
Edited(shown, choice) ==
    [i \in DOMAIN shown |-> [column |-> shown[i].column, target |-> choice[i]]]

\* Every old field moves as a whole, to a name of its own that no other field
\* holds at that moment, and none comes back that had been left out.
FirstOf(resolution, t) ==
    CHOOSE i \in DOMAIN resolution :
        resolution[i].target = t /\ \A j \in 1..i-1 : resolution[j].target # t
Orderly(old, new) ==
    /\ Len(old) = Len(new) /\ \A i \in DOMAIN old : old[i].column = new[i].column
    /\ \A i \in DOMAIN old : old[i].target = NoTarget => new[i].target = NoTarget
    /\ \A i, j \in DOMAIN old : new[i].target # NoTarget =>
        /\ old[i].target = old[j].target <=> new[i].target = new[j].target
        /\ new[i].target = old[j].target /\ old[i].target # old[j].target =>
            /\ new[j].target # NoTarget
            /\ FirstOf(old, old[j].target) < FirstOf(old, old[i].target)

\* The client keeps what it saved beside the run's result.
Known(run, new) == [run EXCEPT !.sent = Append(@, new)]

\* What PUT does to the records and the row of the run it is applied to.
Applied(run, old, new) ==
    [headers |-> run.headers, resolution |-> new, sent |-> run.sent,
     fields |-> Reviewed(run.fields, old, new),
     tidy |-> run.tidy /\ old = run.resolution /\ Orderly(old, new)]

\* PUT /column-mappings of run r's shape.  The client names the run or not, and
\* sends a resolution it knows the run by, or none; with neither it only saves.
\* A request that names no run is applied to the owner's latest one.
Save(r, old, choice, named) ==
    LET new == Edited(Shown(runs[r], old), choice)
        target == IF named THEN r ELSE Len(runs)
        told == [runs EXCEPT ![r] = Known(runs[r], new)] IN
    /\ reviews < MaxReviews /\ reviews' = reviews + 1
    /\ Shown(runs[r], old) # <<>>
    /\ mappings' = [shape \in DOMAIN mappings \cup {Fingerprint(runs[r].headers)} |->
                    IF shape = Fingerprint(runs[r].headers) THEN new ELSE mappings[shape]]
    /\ runs' = IF named \/ old # <<>>
               THEN [told EXCEPT ![target] = Applied(told[target], old, new)]
               ELSE told
    /\ UNCHANGED refused

MappingNext ==
    \/ \E file \in Files : Upload(file) \/ UploadRefused(file)
    \/ \E r \in DOMAIN runs, named \in BOOLEAN :
        \E old \in Elements(runs[r].sent) \cup {<<>>} :
            \E choice \in TargetChoices(Shown(runs[r], old)) :
                Save(r, old, choice, named)

MappingSpec == MappingInit /\ [][MappingNext]_mappingVars

-----------------------------------------------------------------------------
(* Properties                                                              *)

\* Records have exactly the fields of their run's resolution, whatever the client
\* claims the run was mapped by before (main.py:636-646).
MappingTypeOK ==
    /\ \A shape \in DOMAIN mappings : TargetsOf(mappings[shape]) \subseteq Targets
    /\ \A r \in DOMAIN runs :
        /\ runs[r].headers \in Files
        /\ runs[r].fields \in [TargetsOf(runs[r].resolution) -> Seq(Headers)]
    /\ reviews \in 0..MaxReviews

\* Orderly reviews amount to uploading the file again under the new mapping: every
\* field holds the columns the resolution gives it (main.py:592-646).
ValuesFollowTheirColumns ==
    \A r \in DOMAIN runs :
        runs[r].tidy => runs[r].fields = ApplyMapping(runs[r].resolution)

\* Whatever is sent, a review moves values or loses them: it never makes one up
\* from two, nor leaves one in two fields (main.py:611-619).
Blank(value) == value = <<>>
ValuesStayWhole ==
    \A r \in DOMAIN runs : LET fields == runs[r].fields  made == ApplyMapping(runs[r].sent[1]) IN
        /\ \A t \in DOMAIN fields :
            Blank(fields[t]) \/ \E u \in DOMAIN made : fields[t] = made[u]
        /\ \A t, u \in DOMAIN fields : fields[t] = fields[u] /\ ~Blank(fields[t]) => t = u

\* A file nobody has reviewed gets a field of its own for each column
\* (mapping.py:47-58), unless a header looks like another with a suffix.
LooksSuffixed(file) ==
    \E i, j \in DOMAIN file : \E k \in 2..Len(file) : file[i].name = Append(file[j].name, k)
DefaultsKeepColumnsApart ==
    \A r \in DOMAIN runs : LET run == runs[r] IN
        run.tidy /\ run.resolution = DefaultResolution(run.headers) /\ ~LooksSuffixed(run.headers) =>
            \A i \in DOMAIN run.headers :
                \E t \in DOMAIN run.fields : run.fields[t] = <<run.headers[i]>>

\* A file that fails on the mapping saved for its shape has the mapped columns, as
\* many, and spells one differently (mapping.py:16-21, 139-141).
FailsOnSpellingOnly ==
    \A upload \in refused :
        /\ Len(upload.file) = Len(upload.resolution)
        /\ \A entry \in Elements(upload.resolution) :
            \E h \in Elements(upload.file) : h.text = entry.column.text
=============================================================================
