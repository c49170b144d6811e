--------------------------- MODULE IngestionProofs ---------------------------
(***************************************************************************)
(* Proofs about Ingestion for any uploads, files, keys, names and bound.   *)
(* Sound adds to the types how far each upload is.  Duplicates, lost rows  *)
(* and counters rest on it and on two facts about every step: what a step  *)
(* leaves as it was (Frame), and what an upload's own step does.           *)
(***************************************************************************)
EXTENDS Ingestion, FiniteSetTheorems, TLAPS

Cell == [key : Keys, odd : BOOLEAN]

\* How far upload u is: rows before rest are done, inserted or skipped.
UploadOK(u) ==
    LET up == upload[u] IN
    /\ up.rest \subseteq up.kept
    /\ up.inserted \subseteq up.kept \ up.rest
    /\ up.kept \subseteq DOMAIN up.file
    /\ up.pc \in {"done", "swept"} => up.rest = {}

RecordsOK ==
    /\ IsFiniteSet(Live)
    /\ \A id \in Live : id[2] \in upload[id[1]].inserted

Sound == TypeOK /\ (\A u \in Uploads : UploadOK(u)) /\ RecordsOK

-----------------------------------------------------------------------------
LEMMA FilesTyped ==
  ASSUME NEW file \in Files \cup {NoFile}
  PROVE  /\ IsFiniteSet(DOMAIN file) /\ DOMAIN file \subseteq Nat
         /\ \A i \in DOMAIN file : file[i] \in Cell
<1>1. CASE file = NoFile
  BY <1>1, FS_EmptySet DEF NoFile
<1>2. CASE file \in Files
  <2>1. /\ IsFiniteSet(DOMAIN file)
        /\ file \in [1..Cardinality(DOMAIN file) -> Cell]
    BY <1>2, IngestionAssumption DEF Cell
  <2>2. Cardinality(DOMAIN file) \in Nat
    BY <2>1, FS_CardinalityType
  <2> QED
    BY <2>1, <2>2
<1> QED
  BY <1>1, <1>2

LEMMA StartTyped == AnyName \in Names /\ Idle \in Upload /\ NoRun \in Run
  BY IngestionAssumption DEF AnyName, Idle, Upload, NoRun, Run

\* The sets an upload counts are finite, and so are their cardinalities.
LEMMA Finite ==
  ASSUME Sound, NEW u \in Uploads
  PROVE  /\ IsFiniteSet(DOMAIN upload[u].file)
         /\ IsFiniteSet(upload[u].kept) /\ IsFiniteSet(upload[u].inserted)
         /\ Cardinality(DOMAIN upload[u].file) \in Nat
         /\ Cardinality(upload[u].kept) \in 0..Cardinality(DOMAIN upload[u].file)
         /\ Cardinality(upload[u].inserted) \in 0..Cardinality(upload[u].kept)
         /\ upload[u] \in Upload
<1>1. upload[u] \in Upload /\ UploadOK(u)
  BY DEF Sound, TypeOK
<1>2. IsFiniteSet(DOMAIN upload[u].file)
  BY <1>1, FilesTyped DEF Upload
<1>3. upload[u].kept \in SUBSET (DOMAIN upload[u].file)
  BY <1>1 DEF UploadOK
<1>4. upload[u].inserted \in SUBSET upload[u].kept
  BY <1>1 DEF UploadOK
<1>5. /\ IsFiniteSet(upload[u].kept)
      /\ Cardinality(upload[u].kept) <= Cardinality(DOMAIN upload[u].file)
  BY <1>2, <1>3, FS_Subset
<1>6. /\ IsFiniteSet(upload[u].inserted)
      /\ Cardinality(upload[u].inserted) <= Cardinality(upload[u].kept)
  BY <1>5, <1>4, FS_Subset
<1>7. /\ Cardinality(DOMAIN upload[u].file) \in Nat
      /\ Cardinality(upload[u].kept) \in Nat
      /\ Cardinality(upload[u].inserted) \in Nat
  BY <1>2, <1>5, <1>6, FS_CardinalityType
<1> QED
  BY <1>1, <1>2, <1>5, <1>6, <1>7

\* A part of the live records is finite.
LEMMA FiniteLive ==
  ASSUME Sound, NEW S \in SUBSET Live
  PROVE  IsFiniteSet(S) /\ Cardinality(S) \in Nat /\ Cardinality(S) <= Cardinality(Live)
<1>1. IsFiniteSet(Live)
  BY DEF Sound, RecordsOK
<1>2. IsFiniteSet(S) /\ Cardinality(S) <= Cardinality(Live)
  BY <1>1, FS_Subset
<1> QED
  BY <1>2, FS_CardinalityType

\* What a commit counts.
LEMMA CountersTyped ==
  ASSUME Sound, NEW u \in Uploads
  PROVE  /\ Counters(u) \in Run
         /\ Counters(u).name = upload[u].name
         /\ Counters(u).clean + Counters(u).flagged = Cardinality(upload[u].inserted)
<1> DEFINE odd == {i \in upload[u].inserted : Flagged(u, i)}
<1>1. odd \in SUBSET upload[u].inserted /\ IsFiniteSet(upload[u].inserted)
  BY Finite
<1>2. /\ Cardinality(odd) \in Nat
      /\ Cardinality(odd) <= Cardinality(upload[u].inserted)
  BY <1>1, FS_Subset, FS_CardinalityType
<1>3. Counters(u) = [name |-> upload[u].name,
                     total |-> Cardinality(DOMAIN upload[u].file),
                     clean |-> Cardinality(upload[u].inserted) - Cardinality(odd),
                     flagged |-> Cardinality(odd),
                     dropped |-> Cardinality(DOMAIN upload[u].file) - Cardinality(upload[u].kept),
                     skipped |-> Cardinality(upload[u].kept) - Cardinality(upload[u].inserted)]
  BY DEF Counters
<1> HIDE DEF odd
<1> QED
  BY <1>2, <1>3, Finite DEF Run, Upload

\* What a recount finds in a finite table.
LEMMA RecountTyped ==
  ASSUME runs \in [Uploads -> Run], NEW u \in Uploads, NEW name \in Names, NEW table,
         IsFiniteSet(DOMAIN table)
  PROVE  /\ Recounted(u, name, table) \in Run
         /\ Recounted(u, name, table).name = name
         /\ Recounted(u, name, table).total = runs[u].total
         /\ Recounted(u, name, table).dropped = runs[u].dropped
         /\ Recounted(u, name, table).skipped = runs[u].skipped
         /\ Recounted(u, name, table).clean + Recounted(u, name, table).flagged
                = Cardinality({id \in DOMAIN table : id[1] = u})
<1> DEFINE all == {id \in DOMAIN table : id[1] = u}
           odd == {id \in all : table[id].odd}
<1>1. all \in SUBSET DOMAIN table /\ odd \in SUBSET all
  OBVIOUS
<1>2. IsFiniteSet(all) /\ Cardinality(all) \in Nat
  BY <1>1, FS_Subset, FS_CardinalityType
<1>3. Cardinality(odd) \in Nat /\ Cardinality(odd) <= Cardinality(all)
  BY <1>1, <1>2, FS_Subset, FS_CardinalityType
<1>4. Recounted(u, name, table) =
        [name |-> name, total |-> runs[u].total,
         clean |-> Cardinality(all) - Cardinality(odd), flagged |-> Cardinality(odd),
         dropped |-> runs[u].dropped, skipped |-> runs[u].skipped]
  BY DEF Recounted, WithCounts
<1>5. runs[u] \in Run
  OBVIOUS
<1> HIDE DEF all, odd
<1>6. /\ Recounted(u, name, table) \in Run
      /\ Recounted(u, name, table).name = name
      /\ Recounted(u, name, table).total = runs[u].total
      /\ Recounted(u, name, table).dropped = runs[u].dropped
      /\ Recounted(u, name, table).skipped = runs[u].skipped
      /\ Recounted(u, name, table).clean + Recounted(u, name, table).flagged
            = Cardinality(all)
  BY <1>2, <1>3, <1>4, <1>5 DEF Run
<1> QED
  BY <1>6 DEF all

-----------------------------------------------------------------------------
(* Soundness *)

LEMMA SoundInit == Init => Sound
<1> SUFFICES ASSUME Init PROVE Sound
  OBVIOUS
<1>1. Live = {} /\ records \in [Live -> Cell]
  BY DEF Init, Live
<1>2. TypeOK
  BY <1>1, StartTyped, IngestionAssumption DEF Init, TypeOK, Cell
<1>3. \A u \in Uploads : UploadOK(u)
  BY DEF Init, UploadOK, Idle, NoFile
<1>4. RecordsOK
  BY <1>1, FS_EmptySet DEF RecordsOK
<1> QED
  BY <1>2, <1>3, <1>4 DEF Sound

\* A step that takes one upload further and leaves the store alone.
LEMMA SoundUpload ==
  ASSUME Sound, NEW u \in Uploads, NEW up \in Upload,
         upload' = [upload EXCEPT ![u] = up],
         UNCHANGED <<records, runs, changes>>, mapping' \in Mapping,
         upload[u].pc \notin {"done", "swept"}, up.pc \notin {"done", "swept"},
         UploadOK(u)'
  PROVE  Sound'
<1>1. /\ upload' \in [Uploads -> Upload]
      /\ upload'[u] = up
      /\ \A v \in Uploads \ {u} : upload'[v] = upload[v]
  BY DEF Sound, TypeOK
<1>2. Committed' = Committed
  BY <1>1 DEF Committed
<1>3. Live' = Live
  BY DEF Live
<1>4. TypeOK'
  BY <1>1, <1>2, <1>3 DEF Sound, TypeOK
<1>5. \A v \in Uploads : UploadOK(v)'
  BY <1>1 DEF Sound, UploadOK
<1>6. \A id \in Live : id[1] # u /\ id[1] \in Uploads
  BY DEF Sound, TypeOK, Committed
<1>7. RecordsOK'
  BY <1>1, <1>3, <1>6 DEF Sound, RecordsOK
<1> QED
  BY <1>4, <1>5, <1>7 DEF Sound

LEMMA SoundReceive ==
  ASSUME Sound, NEW u \in Uploads, NEW file \in Files, NEW collapse \in BOOLEAN,
         Receive(u, file, collapse)
  PROVE  Sound'
<1> DEFINE kept == Kept(file, mapping.dedup, collapse)
           up == [pc |-> "loading", file |-> file, name |-> mapping.name,
                  dedup |-> mapping.dedup, kept |-> kept, rest |-> kept, inserted |-> {}]
<1>1. kept \subseteq DOMAIN file
  BY DEF Kept
<1>2. DOMAIN file \subseteq Nat
  BY FilesTyped
<1>3. mapping \in Mapping
  BY DEF Sound, TypeOK
<1> HIDE DEF kept
<1>4. up \in Upload
  BY <1>1, <1>2, <1>3 DEF Upload, Mapping
<1>5. /\ upload' = [upload EXCEPT ![u] = up] /\ upload[u].pc = "idle"
      /\ UNCHANGED <<records, runs, changes, mapping>>
  BY DEF Receive, kept
<1>6. upload'[u] = up
  BY <1>5 DEF Sound, TypeOK
<1>7. UploadOK(u)'
  BY <1>1, <1>6 DEF UploadOK
<1> QED
  BY <1>3, <1>4, <1>5, <1>7, SoundUpload

\* What an upload becomes has its type.
LEMMA NowTyped ==
  ASSUME NEW up \in Upload, NEW pc \in {"loading", "done", "failed", "swept"},
         NEW rest \in SUBSET Nat, NEW inserted \in SUBSET Nat
  PROVE  /\ Now(up, pc, rest, inserted) \in Upload
         /\ Now(up, pc, rest, inserted).pc = pc
         /\ Now(up, pc, rest, inserted).file = up.file
         /\ Now(up, pc, rest, inserted).name = up.name
         /\ Now(up, pc, rest, inserted).dedup = up.dedup
         /\ Now(up, pc, rest, inserted).kept = up.kept
         /\ Now(up, pc, rest, inserted).rest = rest
         /\ Now(up, pc, rest, inserted).inserted = inserted
  BY DEF Now, Upload

LEMMA EndedTyped ==
  ASSUME NEW up \in Upload, NEW pc \in {"done", "failed", "swept"}
  PROVE  /\ Ended(up, pc) \in Upload
         /\ Ended(up, pc).pc = pc
         /\ Ended(up, pc).file = up.file
         /\ Ended(up, pc).name = up.name
         /\ Ended(up, pc).dedup = up.dedup
         /\ Ended(up, pc).kept = up.kept
         /\ Ended(up, pc).rest = up.rest
         /\ Ended(up, pc).inserted = up.inserted
<1> up.rest \in SUBSET Nat /\ up.inserted \in SUBSET Nat
  BY DEF Upload
<1> QED
  BY NowTyped DEF Ended

\* What one row changes in its upload.
LEMMA RowMoves ==
  ASSUME Sound, NEW u \in Uploads, NEW i \in upload[u].rest, Row(u, i)
  PROVE  /\ upload[u] \in Upload /\ UploadOK(u) /\ upload[u].pc = "loading"
         /\ upload'[u] \in Upload /\ upload' = [upload EXCEPT ![u] = upload'[u]]
         /\ upload'[u].rest = upload[u].rest \ {i}
         /\ upload'[u].inserted = IF upload[u].dedup /\ Stored(u, KeyOf(u, i))
                                  THEN upload[u].inserted ELSE upload[u].inserted \cup {i}
         /\ \A v \in Uploads \ {u} : upload'[v] = upload[v]
         /\ \A v \in Uploads :
                /\ upload'[v].pc = upload[v].pc /\ upload'[v].file = upload[v].file
                /\ upload'[v].name = upload[v].name /\ upload'[v].dedup = upload[v].dedup
                /\ upload'[v].kept = upload[v].kept
         /\ UNCHANGED <<mapping, records, runs, before, moved, erased, changes>>
<1> DEFINE up == upload[u]
           more == IF up.dedup /\ Stored(u, KeyOf(u, i)) THEN up.inserted
                   ELSE up.inserted \cup {i}
           now == Now(up, "loading", up.rest \ {i}, more)
<1>1. up \in Upload /\ UploadOK(u)
  BY DEF Sound, TypeOK
<1>2. /\ up.pc = "loading" /\ upload' = [upload EXCEPT ![u] = now]
      /\ UNCHANGED <<mapping, records, runs, before, moved, erased, changes>>
  BY DEF Row
<1>3. more \in SUBSET Nat /\ up.rest \ {i} \in SUBSET Nat
  BY <1>1 DEF Upload
<1> HIDE DEF more
<1>4. /\ now \in Upload /\ now.pc = "loading" /\ now.file = up.file /\ now.name = up.name
      /\ now.dedup = up.dedup /\ now.kept = up.kept
      /\ now.rest = up.rest \ {i} /\ now.inserted = more
  BY <1>1, <1>3, NowTyped
<1> HIDE DEF now
<1>5. upload'[u] = now /\ \A v \in Uploads \ {u} : upload'[v] = upload[v]
  BY <1>2 DEF Sound, TypeOK
<1> QED
  BY <1>1, <1>2, <1>4, <1>5 DEF more

\* A row that is skipped for a key forgets that the key ever left the store.
LEMMA RowForgets ==
  ASSUME NEW u \in Uploads, NEW i, Row(u, i)
  PROVE  /\ \A v \in Uploads \ {u} : lost'[v] = lost[v]
         /\ \/ lost'[u] = lost[u]
            \/ /\ upload[u].dedup /\ Stored(u, KeyOf(u, i))
               /\ lost'[u] = lost[u] \ {<<upload[u].name, KeyOf(u, i)>>}
  BY DEF Row

LEMMA SoundRow ==
  ASSUME Sound, NEW u \in Uploads, NEW i \in upload[u].rest, Row(u, i)
  PROVE  Sound'
<1>1. upload'[u].inserted \subseteq upload[u].inserted \cup {i}
  BY RowMoves
<1>2. UploadOK(u)'
  BY <1>1, RowMoves DEF UploadOK
<1>3. mapping' \in Mapping
  BY RowMoves DEF Sound, TypeOK
<1> QED
  BY <1>2, <1>3, RowMoves, SoundUpload

LEMMA SoundFail ==
  ASSUME Sound, NEW u \in Uploads, Fail(u)
  PROVE  Sound'
<1>1. upload[u] \in Upload /\ UploadOK(u) /\ mapping \in Mapping
  BY DEF Sound, TypeOK
<1> DEFINE now == Ended(upload[u], "failed")
<1>2. /\ now \in Upload /\ now.pc = "failed"
      /\ now.file = upload[u].file /\ now.kept = upload[u].kept
      /\ now.rest = upload[u].rest /\ now.inserted = upload[u].inserted
  BY <1>1, EndedTyped
<1>3. /\ upload' = [upload EXCEPT ![u] = now] /\ upload[u].pc = "loading"
      /\ UNCHANGED <<mapping, records, runs, changes>>
  BY <1>2 DEF Fail
<1> HIDE DEF now
<1>4. upload'[u] = now
  BY <1>3 DEF Sound, TypeOK
<1>5. UploadOK(u)'
  BY <1>1, <1>2, <1>4 DEF UploadOK
<1> QED
  BY <1>1, <1>2, <1>3, <1>5, SoundUpload

\* The store after a commit: what was there and the inserted rows.
LEMMA CommitMoves ==
  ASSUME Sound, NEW u \in Uploads, Commit(u)
  PROVE  /\ upload' = [upload EXCEPT ![u] = Ended(upload[u], "done")]
         /\ upload'[u] = Ended(upload[u], "done") /\ upload[u] \in Upload
         /\ \A v \in Uploads \ {u} : upload'[v] = upload[v]
         /\ \A v \in Uploads : /\ upload'[v].file = upload[v].file
                              /\ upload'[v].name = upload[v].name
                              /\ upload'[v].dedup = upload[v].dedup
                              /\ upload'[v].kept = upload[v].kept
                              /\ upload'[v].rest = upload[v].rest
                              /\ upload'[v].inserted = upload[v].inserted
         /\ upload[u].pc = "loading" /\ upload[u].rest = {}
         /\ runs' = [runs EXCEPT ![u] = Counters(u)]
         /\ runs'[u] = Counters(u)
         /\ \A v \in Uploads \ {u} : runs'[v] = runs[v]
         /\ Live' = Live \cup ({u} \X upload[u].inserted)
         /\ \A id \in Live : id[1] \in Uploads \ {u} /\ records'[id] = records[id]
         /\ \A i \in upload[u].inserted :
                records'[<<u, i>>] = [key |-> KeyOf(u, i), odd |-> Flagged(u, i)]
         /\ UNCHANGED <<mapping, before, moved, lost, erased, changes>>
<1> DEFINE new == InsertedRecords(u)
<1>1. /\ upload[u].pc = "loading" /\ upload[u].rest = {}
      /\ upload' = [upload EXCEPT ![u] = Ended(upload[u], "done")]
      /\ records' = [id \in Live \cup DOMAIN new |->
                        IF id \in DOMAIN new THEN new[id] ELSE records[id]]
      /\ runs' = [runs EXCEPT ![u] = Counters(u)]
      /\ UNCHANGED <<mapping, before, moved, lost, erased, changes>>
  BY DEF Commit
<1>2. /\ upload'[u] = Ended(upload[u], "done")
      /\ \A v \in Uploads \ {u} : upload'[v] = upload[v]
      /\ runs'[u] = Counters(u) /\ \A v \in Uploads \ {u} : runs'[v] = runs[v]
  BY <1>1 DEF Sound, TypeOK
<1>3. /\ DOMAIN new = {u} \X upload[u].inserted
      /\ \A i \in upload[u].inserted :
            new[<<u, i>>] = [key |-> KeyOf(u, i), odd |-> Flagged(u, i)]
  BY DEF InsertedRecords
<1>4. \A id \in Live : id[1] \in Uploads \ {u}
  BY <1>1 DEF Sound, TypeOK, Committed
<1>5. upload[u] \in Upload
  BY DEF Sound, TypeOK
<1>6. /\ Ended(upload[u], "done").file = upload[u].file
      /\ Ended(upload[u], "done").name = upload[u].name
      /\ Ended(upload[u], "done").dedup = upload[u].dedup
      /\ Ended(upload[u], "done").kept = upload[u].kept
      /\ Ended(upload[u], "done").rest = upload[u].rest
      /\ Ended(upload[u], "done").inserted = upload[u].inserted
  BY <1>5, EndedTyped
<1> HIDE DEF new
<1>7. /\ Live' = Live \cup ({u} \X upload[u].inserted)
      /\ \A i \in upload[u].inserted : records'[<<u, i>>] = new[<<u, i>>]
      /\ \A id \in Live : records'[id] = records[id]
  BY <1>1, <1>3, <1>4 DEF Live
<1> QED
  BY <1>1, <1>2, <1>3, <1>4, <1>5, <1>6, <1>7

LEMMA SoundCommit ==
  ASSUME Sound, NEW u \in Uploads, Commit(u)
  PROVE  Sound'
<1>1. upload' \in [Uploads -> Upload] /\ upload'[u].pc = "done"
  <2>1. Ended(upload[u], "done") \in Upload /\ Ended(upload[u], "done").pc = "done"
    BY EndedTyped DEF Sound, TypeOK
  <2> QED
    BY <2>1, CommitMoves DEF Sound, TypeOK
<1>2. runs' \in [Uploads -> Run]
  BY CommitMoves, CountersTyped DEF Sound, TypeOK
<1>3. Committed' = Committed \cup {u}
  BY <1>1, CommitMoves DEF Committed
<1>4. Live' \subseteq Committed' \X Nat
  <2>1. upload[u].inserted \subseteq Nat
    BY CommitMoves DEF Upload
  <2> QED
    BY <1>3, <2>1, CommitMoves DEF Sound, TypeOK
<1>5. records' \in [Live' -> Cell]
  <2>1. \A i \in upload[u].inserted : upload[u].file[i] \in Cell
    BY CommitMoves, FilesTyped DEF Sound, UploadOK, Upload
  <2>2. \A i \in upload[u].inserted : records'[<<u, i>>] \in Cell
    <3> SUFFICES ASSUME NEW i \in upload[u].inserted PROVE records'[<<u, i>>] \in Cell
      OBVIOUS
    <3>1. PICK flag \in BOOLEAN : flag = Flagged(u, i)
      <4>1. PICK issues : issues = IssueMap(u)
        OBVIOUS
      <4>2. (i \in issues) \in BOOLEAN
        OBVIOUS
      <4> QED
        BY <4>1, <4>2, Zenon DEF Flagged
    <3>2. records'[<<u, i>>] = [key |-> KeyOf(u, i), odd |-> flag]
      BY <3>1, CommitMoves
    <3> QED
      BY <2>1, <3>2 DEF KeyOf, Cell
  <2>3. \A id \in Live : records'[id] \in Cell
    BY CommitMoves DEF Sound, TypeOK, Cell
  <2>4. records' = [id \in Live' |-> records'[id]]
    BY DEF Commit, Live
  <2>5. \A id \in {u} \X upload[u].inserted :
            \E i \in upload[u].inserted : id = <<u, i>>
    OBVIOUS
  <2>6. \A id \in Live' : records'[id] \in Cell
    BY <2>2, <2>3, <2>5, CommitMoves
  <2> QED
    BY <2>4, <2>6
<1>6. TypeOK'
  BY <1>1, <1>2, <1>4, <1>5, CommitMoves DEF Sound, TypeOK, Cell
<1>7. \A v \in Uploads : UploadOK(v)'
  <2>1. UploadOK(u)'
    BY <1>1, CommitMoves DEF Sound, UploadOK
  <2> QED
    BY <2>1, CommitMoves DEF Sound, UploadOK
<1>8. RecordsOK'
  <2>1. IsFiniteSet({u} \X upload[u].inserted)
    BY Finite, FS_Singleton, FS_Product
  <2>2. IsFiniteSet(Live')
    <3>1. IsFiniteSet(Live \cup ({u} \X upload[u].inserted))
      BY <2>1, FS_Union DEF Sound, RecordsOK
    <3> QED
      BY <3>1, CommitMoves
  <2>3. \A id \in Live' : id[2] \in upload[id[1]].inserted
    BY CommitMoves DEF Sound, RecordsOK
  <2> QED
    BY <2>2, <2>3, <1>4, CommitMoves DEF RecordsOK, Committed
<1> QED
  BY <1>6, <1>7, <1>8 DEF Sound

\* A request that keeps the uploads and adds no record.
LEMMA SoundRequest ==
  ASSUME Sound, upload' = upload, Live' \subseteq Live, records' \in [Live' -> Cell],
         runs' \in [Uploads -> Run], mapping' \in Mapping, Change
  PROVE  Sound'
<1>1. changes' \in 0..MaxChanges
  BY IngestionAssumption DEF Sound, TypeOK, Change
<1>2. Committed' = Committed
  BY DEF Committed
<1>3. TypeOK'
  BY <1>1, <1>2 DEF Sound, TypeOK, Cell
<1>4. IsFiniteSet(Live')
  BY FS_Subset DEF Sound, RecordsOK
<1> QED
  BY <1>3, <1>4 DEF Sound, RecordsOK, UploadOK

LEMMA SoundDelete ==
  ASSUME Sound, NEW ids \in SUBSET Live, Delete(ids)
  PROVE  Sound'
<1>1. records' = [id \in Live \ ids |-> records[id]] /\ Live' = Live \ ids
  BY DEF Delete, Live
<1> QED
  BY <1>1, SoundRequest DEF Delete, Sound, TypeOK, Cell

LEMMA SoundCorrect ==
  ASSUME Sound, NEW id \in Live, NEW key \in Keys, NEW odd \in BOOLEAN,
         Correct(id, key, odd)
  PROVE  Sound'
<1>1. records' = [records EXCEPT ![id] = [key |-> key, odd |-> odd]] /\ Live' = Live
  BY DEF Correct, Live
<1>2. records' \in [Live' -> Cell]
  BY <1>1 DEF Sound, TypeOK, Cell
<1>3. id[1] \in Uploads /\ runs[id[1]] \in Run
  BY DEF Sound, TypeOK, Committed
<1>4. IsFiniteSet(DOMAIN records')
  BY <1>1 DEF Sound, RecordsOK, Live
<1>5. NameOf(id) \in Names
  BY <1>3 DEF NameOf, Run
<1>6. Recounted(id[1], NameOf(id), records') \in Run
  BY <1>3, <1>4, <1>5, RecountTyped DEF Sound, TypeOK
<1>7. runs' \in [Uploads -> Run]
  BY <1>6 DEF Correct, Sound, TypeOK
<1> QED
  BY <1>1, <1>2, <1>7, SoundRequest DEF Correct, Sound, TypeOK

LEMMA SoundReview ==
  ASSUME Sound, NEW u \in Uploads, NEW new \in Mapping, NEW keys \in [OfRun(u) -> Keys],
         NEW odd \in [OfRun(u) -> BOOLEAN], Review(u, new, keys, odd)
  PROVE  Sound'
<1>1. /\ records' = [id \in Live |-> IF id \in OfRun(u)
                                   THEN [key |-> keys[id], odd |-> odd[id]]
                                   ELSE records[id]]
      /\ Live' = Live
  BY DEF Review, Live
<1>2. \A id \in Live : records[id] \in Cell
  BY DEF Sound, TypeOK, Cell
<1>3. records' \in [Live' -> Cell]
  <2> SUFFICES ASSUME NEW id \in Live PROVE records'[id] \in Cell
    BY <1>1
  <2>1. CASE id \in OfRun(u)
    <3>1. records'[id] = [key |-> keys[id], odd |-> odd[id]]
      BY <1>1, <2>1
    <3> QED
      BY <2>1, <3>1 DEF Cell
  <2>2. CASE id \notin OfRun(u)
    BY <1>1, <1>2, <2>2
  <2> QED
    BY <2>1, <2>2
<1>4. IsFiniteSet(DOMAIN records')
  BY <1>1 DEF Sound, RecordsOK, Live
<1>5. new.name \in Names
  BY DEF Mapping
<1>6. Recounted(u, new.name, records') \in Run
  BY <1>4, <1>5, RecountTyped DEF Sound, TypeOK
<1>7. runs' \in [Uploads -> Run] /\ mapping' \in Mapping /\ upload' = upload /\ Change
  BY <1>6 DEF Review, Sound, TypeOK
<1> QED
  BY <1>1, <1>3, <1>7, SoundRequest

LEMMA SoundSave ==
  ASSUME Sound, NEW new \in Mapping, Save(new)
  PROVE  Sound'
<1>1. Live' = Live
  BY DEF Save, Live
<1> QED
  BY <1>1, SoundRequest DEF Save, Sound, TypeOK, Cell

\* What the sweep leaves of an upload and of the store.
LEMMA SweepMoves ==
  ASSUME Sound, NEW old \in SUBSET Committed, Sweep(old)
  PROVE  /\ upload' \in [Uploads -> Upload]
         /\ \A u \in Uploads : /\ upload'[u].pc = IF u \in old THEN "swept" ELSE upload[u].pc
                              /\ upload'[u].file = upload[u].file
                              /\ upload'[u].name = upload[u].name
                              /\ upload'[u].dedup = upload[u].dedup
                              /\ upload'[u].kept = upload[u].kept
                              /\ upload'[u].rest = upload[u].rest
                              /\ upload'[u].inserted = upload[u].inserted
         /\ Live' = {id \in Live : id[1] \notin old}
         /\ \A id \in Live' : records'[id] = records[id]
         /\ UNCHANGED <<mapping, runs, before, moved, erased>>
<1>1. \A u \in old : upload[u] \in Upload /\ u \in Uploads
  BY DEF Sound, TypeOK, Committed
<1>2. \A u \in old : /\ Ended(upload[u], "swept") \in Upload
                     /\ Ended(upload[u], "swept").pc = "swept"
                     /\ Ended(upload[u], "swept").file = upload[u].file
                     /\ Ended(upload[u], "swept").name = upload[u].name
                     /\ Ended(upload[u], "swept").dedup = upload[u].dedup
                     /\ Ended(upload[u], "swept").kept = upload[u].kept
                     /\ Ended(upload[u], "swept").rest = upload[u].rest
                     /\ Ended(upload[u], "swept").inserted = upload[u].inserted
  BY <1>1, EndedTyped
<1>3. /\ upload' = [u \in Uploads |->
            IF u \in old THEN Ended(upload[u], "swept") ELSE upload[u]]
      /\ records' = [id \in Live \ {id \in Live : id[1] \in old} |-> records[id]]
      /\ UNCHANGED <<mapping, runs, before, moved, erased>>
  BY DEF Sweep
<1>4. upload' \in [Uploads -> Upload]
  BY <1>2, <1>3 DEF Sound, TypeOK
<1>5. /\ Live' = {id \in Live : id[1] \notin old}
      /\ \A id \in Live' : records'[id] = records[id]
  BY <1>3 DEF Live
<1> QED
  BY <1>2, <1>3, <1>4, <1>5

LEMMA SoundSweep ==
  ASSUME Sound, NEW old \in SUBSET Committed, Sweep(old)
  PROVE  Sound'
<1>1. Committed' = Committed \ old
  BY SweepMoves DEF Committed
<1>2. changes' \in 0..MaxChanges
  BY IngestionAssumption DEF Sound, TypeOK, Sweep, Change
<1>3. records' \in [Live' -> Cell]
  <2>1. records' = [id \in Live' |-> records'[id]]
    BY DEF Sweep, Live
  <2> QED
    BY <2>1, SweepMoves DEF Sound, TypeOK, Cell
<1>4. Live' \subseteq Committed' \X Nat
  BY <1>1, SweepMoves DEF Sound, TypeOK
<1>5. TypeOK'
  BY <1>2, <1>3, <1>4, SweepMoves DEF Sound, TypeOK, Cell
<1>6. \A u \in Uploads : UploadOK(u)'
  BY SweepMoves DEF Sound, UploadOK, Committed
<1>7. Live' \in SUBSET Live
  BY SweepMoves
<1>8. IsFiniteSet(Live')
  BY <1>7, FS_Subset DEF Sound, RecordsOK
<1>9. \A id \in Live' : id[2] \in upload[id[1]].inserted /\ id[1] \in Uploads
  BY <1>7 DEF Sound, RecordsOK, TypeOK, Committed
<1>10. RecordsOK'
  BY <1>8, <1>9, SweepMoves DEF RecordsOK
<1> QED
  BY <1>5, <1>6, <1>10 DEF Sound

LEMMA SoundNext == Sound /\ [Next]_vars => Sound'
<1> SUFFICES ASSUME Sound, [Next]_vars PROVE Sound'
  OBVIOUS
<1>1. CASE UNCHANGED vars
  BY <1>1 DEF vars, Sound, TypeOK, UploadOK, RecordsOK, Live, Committed
<1>2. CASE Next
  BY <1>2, SoundReceive, SoundRow, SoundCommit, SoundFail, SoundReview, SoundSweep,
     SoundDelete, SoundCorrect, SoundSave DEF Next
<1> QED
  BY <1>1, <1>2

\* What an upload, a run and a record hold is always of its type; in particular
\* no count, and no difference of counts, is negative (ingest.py:291-293).
THEOREM IngestionTypes == Spec => []TypeOK
<1>1. Sound => TypeOK
  BY DEF Sound
<1> QED
  BY <1>1, SoundInit, SoundNext, PTL DEF Spec

-----------------------------------------------------------------------------
(* Duplicates and lost rows *)

\* Record r is still there, under the same name and with the same key.
Stays(r) == r \in Live' /\ NameOf(r)' = NameOf(r) /\ records'[r].key = records[r].key

\* A step that ends uploads at most and adds no record; a record that does not
\* stay leaves its key behind in lost and, if it is still live, is moved.
Quiet ==
    /\ Live' \subseteq Live /\ before' = before
    /\ \A u \in Uploads :
        /\ upload'[u].file = upload[u].file /\ upload'[u].name = upload[u].name
        /\ upload'[u].dedup = upload[u].dedup /\ upload'[u].kept = upload[u].kept
        /\ upload'[u].rest = upload[u].rest /\ upload'[u].inserted = upload[u].inserted
        /\ \/ upload'[u].pc = upload[u].pc
           \/ upload[u].pc = "loading" /\ upload'[u].pc = "failed"
           \/ upload[u].pc = "done" /\ upload'[u].pc = "swept"
        /\ lost[u] \subseteq lost'[u]
    /\ \A r \in Live :
        \/ Stays(r)
        \/ \A u \in Uploads : <<NameOf(r), records[r].key>> \in lost'[u]
    /\ \A r \in Live' \ moved' : r \notin moved /\ Stays(r)

LEMMA QuietFail ==
  ASSUME Sound, NEW u \in Uploads, Fail(u)
  PROVE  Quiet
<1>1. upload[u] \in Upload
  BY DEF Sound, TypeOK
<1>2. /\ upload' = [upload EXCEPT ![u] = Ended(upload[u], "failed")]
      /\ upload[u].pc = "loading"
      /\ UNCHANGED <<mapping, records, runs, before, moved, lost, erased, changes>>
  BY DEF Fail
<1>3. /\ upload'[u] = Ended(upload[u], "failed")
      /\ \A v \in Uploads \ {u} : upload'[v] = upload[v]
  BY <1>2 DEF Sound, TypeOK
<1>4. \A v \in Uploads :
        /\ upload'[v].file = upload[v].file /\ upload'[v].name = upload[v].name
        /\ upload'[v].dedup = upload[v].dedup /\ upload'[v].kept = upload[v].kept
        /\ upload'[v].rest = upload[v].rest /\ upload'[v].inserted = upload[v].inserted
        /\ \/ upload'[v].pc = upload[v].pc
           \/ upload[v].pc = "loading" /\ upload'[v].pc = "failed"
  BY <1>1, <1>2, <1>3, EndedTyped
<1>5. Live' = Live /\ \A r \in Live : Stays(r)
  BY <1>2 DEF Live, Stays, NameOf
<1> QED
  BY <1>2, <1>4, <1>5 DEF Quiet

LEMMA QuietSweep ==
  ASSUME Sound, NEW old \in SUBSET Committed, Sweep(old)
  PROVE  Quiet
<1>1. \A r \in Live' : r \in Live /\ Stays(r)
  BY SweepMoves DEF Stays, NameOf
<1>2. \A u \in Uploads : lost'[u] = lost[u] \cup
            {<<NameOf(id), records[id].key>> : id \in {id \in Live : id[1] \in old}}
  BY DEF Sweep, Leave
<1>3. \A r \in Live \ Live' : \A u \in Uploads : <<NameOf(r), records[r].key>> \in lost'[u]
  BY <1>2, SweepMoves
<1> QED
  BY <1>1, <1>2, <1>3, SweepMoves DEF Quiet, Committed

LEMMA QuietDelete ==
  ASSUME Sound, NEW ids \in SUBSET Live, Delete(ids)
  PROVE  Quiet
<1>1. /\ Live' = Live \ ids /\ \A r \in Live' : records'[r] = records[r]
      /\ UNCHANGED <<upload, runs, before, moved>>
  BY DEF Delete, Live
<1>2. \A r \in Live' : Stays(r)
  BY <1>1 DEF Stays, NameOf
<1>3. \A u \in Uploads : lost'[u] =
            lost[u] \cup {<<NameOf(id), records[id].key>> : id \in ids}
  BY DEF Delete, Leave
<1> QED
  BY <1>1, <1>2, <1>3 DEF Quiet

LEMMA QuietCorrect ==
  ASSUME Sound, NEW id \in Live, NEW key \in Keys, NEW odd \in BOOLEAN,
         Correct(id, key, odd)
  PROVE  Quiet
<1>1. /\ Live' = Live /\ records'[id] = [key |-> key, odd |-> odd]
      /\ \A r \in Live \ {id} : records'[r] = records[r]
      /\ UNCHANGED <<upload, before>>
  BY DEF Correct, Live, Sound, TypeOK
<1>2. \A r \in Live : r[1] \in Uploads
  BY DEF Sound, TypeOK, Committed
<1>3. \A u \in Uploads : runs'[u].name = runs[u].name
  <2>1. IsFiniteSet(DOMAIN records')
    BY <1>1 DEF Sound, RecordsOK, Live
  <2>2. NameOf(id) \in Names
    BY <1>2 DEF NameOf, Sound, TypeOK, Run
  <2>3. Recounted(id[1], NameOf(id), records').name = NameOf(id)
    BY <1>2, <2>1, <2>2, RecountTyped DEF Sound, TypeOK
  <2> QED
    BY <2>3, <1>2 DEF Correct, NameOf, Sound, TypeOK
<1>4. \A r \in Live : NameOf(r)' = NameOf(r)
  BY <1>2, <1>3 DEF NameOf
<1>5. \A u \in Uploads : lost'[u] = lost[u] \cup
        {<<NameOf(r), records[r].key>> : r \in IF key = records[id].key THEN {} ELSE {id}}
  BY DEF Correct, Leave
<1>6. moved' = IF key = records[id].key THEN moved ELSE moved \cup {id}
  BY DEF Correct
<1>7. CASE key = records[id].key
  BY <1>1, <1>4, <1>5, <1>6, <1>7 DEF Quiet, Stays
<1>8. CASE key # records[id].key
  <2>1. \A r \in Live \ {id} : Stays(r)
    BY <1>1, <1>4 DEF Stays
  <2>2. \A u \in Uploads : /\ lost[u] \subseteq lost'[u]
                          /\ <<NameOf(id), records[id].key>> \in lost'[u]
    BY <1>5, <1>8
  <2> QED
    BY <1>1, <1>6, <1>8, <2>1, <2>2 DEF Quiet
<1> QED
  BY <1>7, <1>8

LEMMA QuietReview ==
  ASSUME Sound, NEW u \in Uploads, NEW new \in Mapping, NEW keys \in [OfRun(u) -> Keys],
         NEW odd \in [OfRun(u) -> BOOLEAN], Review(u, new, keys, odd)
  PROVE  Quiet
<1> DEFINE changed == Recoerced(u, new.name, keys)
<1>1. /\ Live' = Live /\ UNCHANGED <<upload, before>>
      /\ \A r \in Live : records'[r].key = IF r \in OfRun(u) THEN keys[r] ELSE records[r].key
  BY DEF Review, Live
<1>2. \A r \in Live : r[1] \in Uploads
  BY DEF Sound, TypeOK, Committed
<1>3. runs'[u].name = new.name /\ \A v \in Uploads \ {u} : runs'[v] = runs[v]
  <2>1. Recounted(u, new.name, records').name = new.name
    BY DEF Recounted, WithCounts
  <2> QED
    BY <2>1 DEF Review, Sound, TypeOK
<1>4. \A r \in Live \ changed : Stays(r)
  <2>1. ASSUME NEW r \in OfRun(u), r \notin changed PROVE Stays(r)
    <3>1. keys[r] = records[r].key /\ new.name = runs[u].name
      BY <2>1 DEF Recoerced
    <3> QED
      BY <1>1, <1>3, <3>1 DEF Stays, NameOf, OfRun
  <2>2. ASSUME NEW r \in Live, r \notin OfRun(u) PROVE Stays(r)
    BY <1>1, <1>2, <1>3, <2>2 DEF Stays, NameOf, OfRun
  <2> QED
    BY <2>1, <2>2
<1>5. \A v \in Uploads :
        lost'[v] = lost[v] \cup {<<NameOf(r), records[r].key>> : r \in changed}
  BY DEF Review, Leave
<1>6. moved' = moved \cup changed
  BY DEF Review
<1> HIDE DEF changed
<1>7. \A v \in Uploads : /\ lost[v] \subseteq lost'[v]
                        /\ \A r \in changed : <<NameOf(r), records[r].key>> \in lost'[v]
  BY <1>5
<1> QED
  BY <1>1, <1>4, <1>6, <1>7 DEF Quiet

LEMMA QuietSave ==
  ASSUME Sound, UNCHANGED <<upload, records, runs, before, moved, lost>>
  PROVE  Quiet
<1>1. Live' = Live /\ \A r \in Live : Stays(r)
  BY DEF Live, Stays, NameOf
<1> QED
  BY <1>1 DEF Quiet

\* Every step is quiet but those of an upload that reads, inserts or commits.
LEMMA StepKinds ==
  ASSUME Sound, [Next]_vars
  PROVE  \/ Quiet
         \/ \E u \in Uploads :
                \/ \E file \in Files, collapse \in BOOLEAN : Receive(u, file, collapse)
                \/ \E i \in upload[u].rest : Row(u, i)
                \/ Commit(u)
<1>1. CASE UNCHANGED vars
  BY <1>1, QuietSave DEF vars
<1>2. ASSUME NEW new \in Mapping, Save(new) PROVE Quiet
  BY <1>2, QuietSave DEF Save
<1>3. CASE Next
  BY <1>2, <1>3, QuietFail, QuietSweep, QuietDelete, QuietCorrect, QuietReview DEF Next
<1> QED
  BY <1>1, <1>3

-----------------------------------------------------------------------------
\* Only an upload that has committed came before another one.
BeforeOK == \A u, v \in Uploads : <<u, v>> \in before => upload[u].pc \in {"done", "swept"}

\* A record that has not moved is still the row it was made from.
AsUploaded == \A r \in Live \ moved :
    NameOf(r) = upload[r[1]].name /\ records[r].key = KeyOf(r[1], r[2])

\* The rows that deduplication keeps have different keys.
Distinct == \A u \in Uploads : upload[u].dedup =>
    \A i, j \in upload[u].kept : i # j /\ KeyOf(u, i) = KeyOf(u, j) => KeyOf(u, i) = Blank

\* What an upload under way has inserted repeats nothing that was stored when it
\* began and is still as it was.
Checked == \A u \in Uploads : upload[u].pc = "loading" /\ upload[u].dedup =>
    \A i \in upload[u].inserted, r \in Live \ moved :
        <<r[1], u>> \in before /\ NameOf(r) = upload[u].name
            /\ records[r].key = KeyOf(u, i) => KeyOf(u, i) = Blank

DuplicatesInv == BeforeOK /\ AsUploaded /\ Distinct /\ Checked /\ DuplicatesRaced

LEMMA LiveOf ==
  ASSUME Sound, NEW r \in Live
  PROVE  /\ r[1] \in Uploads /\ upload[r[1]].pc = "done" /\ r = <<r[1], r[2]>>
         /\ r[2] \in upload[r[1]].inserted /\ r[2] \in upload[r[1]].kept
  BY DEF Sound, TypeOK, RecordsOK, UploadOK, Committed

LEMMA DuplicatesQuiet ==
  ASSUME Sound, Sound', DuplicatesInv, Quiet
  PROVE  DuplicatesInv'
<1>1. \A r \in Live' \ moved' : r \in Live \ moved /\ Stays(r) /\ r[1] \in Uploads
  BY LiveOf DEF Quiet
<1>2. \A u \in Uploads :
        /\ upload'[u].file = upload[u].file /\ upload'[u].name = upload[u].name
        /\ upload'[u].dedup = upload[u].dedup /\ upload'[u].kept = upload[u].kept
        /\ upload'[u].inserted = upload[u].inserted
        /\ upload[u].pc \in {"done", "swept"} => upload'[u].pc \in {"done", "swept"}
        /\ upload'[u].pc = "loading" => upload[u].pc = "loading"
  BY DEF Quiet
<1>3. \A u \in Uploads : \A i : KeyOf(u, i)' = KeyOf(u, i)
  BY <1>2 DEF KeyOf
<1>4. before' = before
  BY DEF Quiet
<1>5. BeforeOK'
  BY <1>2, <1>4 DEF BeforeOK, DuplicatesInv
<1>6. AsUploaded'
  BY <1>1, <1>2, <1>3 DEF AsUploaded, DuplicatesInv, Stays
<1>7. Distinct'
  BY <1>2, <1>3 DEF Distinct, DuplicatesInv
<1>8. Checked'
  BY <1>1, <1>2, <1>3, <1>4 DEF Checked, DuplicatesInv, Stays
<1>9. DuplicatesRaced'
  BY <1>1, <1>2, <1>4
  DEF DuplicatesRaced, DuplicatesInv, Stays, SameKey, Guarded
<1> QED
  BY <1>5, <1>6, <1>7, <1>8, <1>9 DEF DuplicatesInv

LEMMA DuplicatesReceive ==
  ASSUME Sound, Sound', DuplicatesInv, NEW u \in Uploads, NEW file \in Files,
         NEW collapse \in BOOLEAN, Receive(u, file, collapse)
  PROVE  DuplicatesInv'
<1>1. /\ upload'[u] = [pc |-> "loading", file |-> file, name |-> mapping.name,
                       dedup |-> mapping.dedup, kept |-> Kept(file, mapping.dedup, collapse),
                       rest |-> Kept(file, mapping.dedup, collapse), inserted |-> {}]
      /\ \A v \in Uploads \ {u} : upload'[v] = upload[v]
      /\ upload[u].pc = "idle"
      /\ before' = before \cup (Committed \X {u})
      /\ UNCHANGED <<records, runs, moved>>
  BY DEF Receive, Sound, TypeOK
<1>2. Live' = Live /\ \A r \in Live : r[1] \in Uploads \ {u}
  BY <1>1, LiveOf DEF Live
<1>3. BeforeOK'
  BY <1>1 DEF BeforeOK, DuplicatesInv, Committed
<1>4. AsUploaded'
  BY <1>1, <1>2 DEF AsUploaded, DuplicatesInv, NameOf, KeyOf
<1>5. Distinct'
  <2>1. ASSUME mapping.dedup, NEW i \in Kept(file, mapping.dedup, collapse),
               NEW j \in Kept(file, mapping.dedup, collapse),
               i # j, file[i].key = file[j].key
        PROVE  file[i].key = Blank
    <3>1. DOMAIN file \subseteq Nat
      BY FilesTyped
    <3>2. i < j \/ j < i
      BY <2>1, <3>1 DEF Kept
    <3> QED
      BY <2>1, <3>2 DEF Kept
  <2>2. ASSUME upload'[u].dedup, NEW i \in upload'[u].kept, NEW j \in upload'[u].kept,
               i # j, KeyOf(u, i)' = KeyOf(u, j)'
        PROVE  KeyOf(u, i)' = Blank
    BY <1>1, <2>1, <2>2 DEF KeyOf
  <2> QED
    BY <1>1, <2>2 DEF Distinct, DuplicatesInv, KeyOf
<1>6. Checked'
  BY <1>1, <1>2 DEF Checked, DuplicatesInv, NameOf, KeyOf
<1>7. DuplicatesRaced'
  BY <1>1, <1>2 DEF DuplicatesRaced, DuplicatesInv, SameKey, Guarded, NameOf
<1> QED
  BY <1>3, <1>4, <1>5, <1>6, <1>7 DEF DuplicatesInv

LEMMA DuplicatesRow ==
  ASSUME Sound, Sound', DuplicatesInv, NEW u \in Uploads, NEW i \in upload[u].rest, Row(u, i)
  PROVE  DuplicatesInv'
<1>1. /\ \A v \in Uploads :
            /\ upload'[v].file = upload[v].file /\ upload'[v].name = upload[v].name
            /\ upload'[v].dedup = upload[v].dedup /\ upload'[v].kept = upload[v].kept
            /\ upload'[v].pc = upload[v].pc
      /\ \A v \in Uploads \ {u} : upload'[v].inserted = upload[v].inserted
      /\ UNCHANGED <<records, runs, before, moved>>
  BY RowMoves
<1>2. upload'[u].inserted = IF upload[u].dedup /\ Stored(u, KeyOf(u, i))
                            THEN upload[u].inserted ELSE upload[u].inserted \cup {i}
  BY RowMoves
<1>3. Live' = Live /\ \A r \in Live : r[1] \in Uploads
  BY <1>1, LiveOf DEF Live
<1>4. \A v \in Uploads : \A j : KeyOf(v, j)' = KeyOf(v, j)
  BY <1>1 DEF KeyOf
<1>5. \A r \in Live : NameOf(r)' = NameOf(r) /\ records'[r] = records[r]
  BY <1>1 DEF NameOf
<1>6. BeforeOK' /\ AsUploaded' /\ Distinct' /\ DuplicatesRaced'
  <2>1. BeforeOK' /\ Distinct'
    BY <1>1, <1>4 DEF BeforeOK, Distinct, DuplicatesInv
  <2>2. AsUploaded'
    BY <1>1, <1>3, <1>4, <1>5 DEF AsUploaded, DuplicatesInv
  <2>3. DuplicatesRaced'
    BY <1>1, <1>3, <1>5 DEF DuplicatesRaced, DuplicatesInv, SameKey, Guarded
  <2> QED
    BY <2>1, <2>2, <2>3
<1>7. Checked'
  <2> SUFFICES ASSUME NEW v \in Uploads, upload'[v].pc = "loading", upload'[v].dedup,
                      NEW j \in upload'[v].inserted, NEW r \in Live' \ moved',
                      <<r[1], v>> \in before', NameOf(r)' = upload'[v].name,
                      records'[r].key = KeyOf(v, j)'
               PROVE  KeyOf(v, j)' = Blank
    BY DEF Checked
  <2>1. CASE j \in upload[v].inserted
    BY <2>1, <1>1, <1>3, <1>4, <1>5 DEF Checked, DuplicatesInv
  <2>2. CASE j \notin upload[v].inserted
    <3>1. v = u /\ j = i /\ ~Stored(u, KeyOf(u, i))
      BY <2>2, <1>1, <1>2
    <3> QED
      BY <3>1, <1>1, <1>3, <1>4, <1>5 DEF Stored
  <2> QED
    BY <2>1, <2>2
<1> QED
  BY <1>6, <1>7 DEF DuplicatesInv

LEMMA DuplicatesCommit ==
  ASSUME Sound, Sound', DuplicatesInv, NEW u \in Uploads, Commit(u)
  PROVE  DuplicatesInv'
<1>1. /\ \A v \in Uploads :
            /\ upload'[v].file = upload[v].file /\ upload'[v].name = upload[v].name
            /\ upload'[v].dedup = upload[v].dedup /\ upload'[v].kept = upload[v].kept
            /\ upload'[v].inserted = upload[v].inserted
      /\ \A v \in Uploads \ {u} : upload'[v] = upload[v] /\ runs'[v] = runs[v]
      /\ upload[u].pc = "loading" /\ before' = before /\ moved' = moved
      /\ Live' = Live \cup ({u} \X upload[u].inserted)
  BY CommitMoves
<1>2. \A r \in Live : /\ r[1] \in Uploads \ {u} /\ records'[r] = records[r]
                      /\ NameOf(r)' = NameOf(r)
  BY CommitMoves DEF NameOf
<1>3. upload'[u].pc = "done"
  BY CommitMoves, EndedTyped
<1>4. \A v \in Uploads : \A j : KeyOf(v, j)' = KeyOf(v, j)
  BY <1>1 DEF KeyOf
<1>5. \A r \in Live' \ Live :
        /\ r[1] = u /\ r[2] \in upload[u].inserted /\ r = <<u, r[2]>>
        /\ records'[r].key = KeyOf(u, r[2]) /\ NameOf(r)' = upload[u].name
  <2>1. runs'[u].name = upload[u].name
    BY CommitMoves, CountersTyped
  <2>2. ASSUME NEW j \in upload[u].inserted
        PROVE  records'[<<u, j>>].key = KeyOf(u, j)
    <3>1. records'[<<u, j>>] = [key |-> KeyOf(u, j), odd |-> Flagged(u, j)]
      BY CommitMoves
    <3> QED
      BY <3>1
  <2> QED
    BY <1>1, <2>1, <2>2 DEF NameOf
<1>6. BeforeOK'
  BY <1>1, <1>3 DEF BeforeOK, DuplicatesInv
<1>7. AsUploaded'
  BY <1>1, <1>2, <1>4, <1>5 DEF AsUploaded, DuplicatesInv
<1>8. Distinct'
  BY <1>1, <1>4 DEF Distinct, DuplicatesInv
<1>9. Checked'
  <2> SUFFICES ASSUME NEW v \in Uploads, upload'[v].pc = "loading", upload'[v].dedup,
                      NEW j \in upload'[v].inserted, NEW r \in Live' \ moved',
                      <<r[1], v>> \in before', NameOf(r)' = upload'[v].name,
                      records'[r].key = KeyOf(v, j)'
               PROVE  KeyOf(v, j)' = Blank
    BY DEF Checked
  <2>1. v # u
    BY <1>3
  <2>2. r \in Live
    BY <1>1, <1>5 DEF BeforeOK, DuplicatesInv
  <2> QED
    BY <2>1, <2>2, <1>1, <1>2, <1>4 DEF Checked, DuplicatesInv
<1>10. DuplicatesRaced'
  <2> SUFFICES ASSUME NEW r \in Live' \ moved', NEW s \in Live' \ moved', r # s,
                      SameKey(r, s)', Guarded(r[1], s[1])'
               PROVE  FALSE
    BY DEF DuplicatesRaced
  <2>1. CASE r \in Live /\ s \in Live
    BY <2>1, <1>1, <1>2 DEF DuplicatesRaced, DuplicatesInv, SameKey, Guarded
  <2>2. CASE r \in Live /\ s \notin Live
    <3>1. /\ upload[u].dedup /\ <<r[1], u>> \in before
          /\ NameOf(r) = upload[u].name /\ records[r].key = KeyOf(u, s[2])
          /\ s[2] \in upload[u].inserted /\ KeyOf(u, s[2]) # Blank
      BY <2>2, <1>1, <1>2, <1>5 DEF SameKey, Guarded
    <3> QED
      BY <3>1, <2>2, <1>1 DEF Checked, DuplicatesInv
  <2>3. CASE r \notin Live /\ s \in Live
    <3>1. <<u, s[1]>> \in before
      BY <2>3, <1>1, <1>2, <1>5 DEF Guarded
    <3> QED
      BY <3>1, <2>3, <1>1, <1>2 DEF BeforeOK, DuplicatesInv
  <2>4. CASE r \notin Live /\ s \notin Live
    <3>1. /\ upload[u].dedup /\ r[2] # s[2]
          /\ r[2] \in upload[u].inserted /\ s[2] \in upload[u].inserted
          /\ KeyOf(u, r[2]) = KeyOf(u, s[2]) /\ KeyOf(u, r[2]) # Blank
      BY <2>4, <1>1, <1>5 DEF SameKey, Guarded
    <3> QED
      BY <3>1 DEF Distinct, DuplicatesInv, Sound, UploadOK
  <2> QED
    BY <2>1, <2>2, <2>3, <2>4
<1> QED
  BY <1>6, <1>7, <1>8, <1>9, <1>10 DEF DuplicatesInv

LEMMA DuplicatesInit == Init => DuplicatesInv
  BY DEF Init, DuplicatesInv, BeforeOK, AsUploaded, Distinct, Checked, DuplicatesRaced,
     Live, Idle

LEMMA DuplicatesNext == Sound /\ DuplicatesInv /\ [Next]_vars => DuplicatesInv'
<1> SUFFICES ASSUME Sound, DuplicatesInv, [Next]_vars PROVE DuplicatesInv'
  OBVIOUS
<1>1. Sound'
  BY SoundNext
<1> QED
  BY <1>1, StepKinds, DuplicatesQuiet, DuplicatesReceive, DuplicatesRow, DuplicatesCommit

\* Two records whose keys no correction or review has changed share a dedup key
\* only if their uploads overlapped or the later one did not deduplicate
\* (ingest.py:259-277), for any number of uploads and of other requests between
\* their rows.
THEOREM Duplicates == Spec => []DuplicatesRaced
<1>1. DuplicatesInv => DuplicatesRaced
  BY DEF DuplicatesInv
<1> QED
  BY <1>1, SoundInit, SoundNext, DuplicatesInit, DuplicatesNext, PTL DEF Spec

-----------------------------------------------------------------------------
\* The rows an upload is past, and all of them once it is done.
LostInv == \A u \in Uploads : upload[u].pc \in {"loading", "done"} =>
    \A i \in DOMAIN upload[u].file \ upload[u].rest : Represented(u, i)

LEMMA LostQuiet ==
  ASSUME Sound, LostInv, Quiet
  PROVE  LostInv'
<1> SUFFICES ASSUME NEW u \in Uploads, upload'[u].pc \in {"loading", "done"},
                    NEW i \in DOMAIN upload'[u].file \ upload'[u].rest
             PROVE  Represented(u, i)'
  BY DEF LostInv
<1>1. /\ upload'[u].file = upload[u].file /\ upload'[u].name = upload[u].name
      /\ upload'[u].dedup = upload[u].dedup /\ upload'[u].rest = upload[u].rest
      /\ upload'[u].inserted = upload[u].inserted
      /\ upload[u].pc \in {"loading", "done"} /\ lost[u] \subseteq lost'[u]
  BY DEF Quiet
<1>2. \A j : KeyOf(u, j)' = KeyOf(u, j)
  BY <1>1 DEF KeyOf
<1>3. Represented(u, i)
  BY <1>1 DEF LostInv
<1>4. ASSUME NEW r \in Live, NameOf(r) = upload[u].name, records[r].key = KeyOf(u, i)
      PROVE  \/ \E id \in Live' : NameOf(id)' = upload[u].name /\ records'[id].key = KeyOf(u, i)
             \/ <<upload[u].name, KeyOf(u, i)>> \in lost'[u]
  BY <1>4 DEF Quiet, Stays
<1> QED
  BY <1>1, <1>2, <1>3, <1>4 DEF Represented

LEMMA LostReceive ==
  ASSUME Sound, LostInv, NEW u \in Uploads, NEW file \in Files,
         NEW collapse \in BOOLEAN, Receive(u, file, collapse)
  PROVE  LostInv'
<1>1. /\ upload'[u] = [pc |-> "loading", file |-> file, name |-> mapping.name,
                       dedup |-> mapping.dedup, kept |-> Kept(file, mapping.dedup, collapse),
                       rest |-> Kept(file, mapping.dedup, collapse), inserted |-> {}]
      /\ \A v \in Uploads \ {u} : upload'[v] = upload[v]
      /\ UNCHANGED <<records, runs, lost>>
  BY DEF Receive, Sound, TypeOK
<1>2. \A i \in DOMAIN file \ Kept(file, mapping.dedup, collapse) : Represented(u, i)'
  <2> SUFFICES ASSUME NEW i \in DOMAIN file, i \notin Kept(file, mapping.dedup, collapse)
               PROVE  Represented(u, i)'
    OBVIOUS
  <2>1. mapping.dedup /\ \E j \in DOMAIN file : j < i /\ file[j].key = file[i].key
    BY DEF Kept
  <2> QED
    BY <1>1, <2>1 DEF Represented, KeyOf
<1>3. \A v \in Uploads \ {u} : \A i : Represented(v, i) => Represented(v, i)'
  BY <1>1 DEF Represented, KeyOf, NameOf, Live
<1> QED
  BY <1>1, <1>2, <1>3 DEF LostInv

LEMMA LostRow ==
  ASSUME Sound, Distinct, LostInv, NEW u \in Uploads, NEW i \in upload[u].rest, Row(u, i)
  PROVE  LostInv'
<1>1. /\ \A v \in Uploads :
            /\ upload'[v].file = upload[v].file /\ upload'[v].name = upload[v].name
            /\ upload'[v].dedup = upload[v].dedup /\ upload'[v].pc = upload[v].pc
            /\ upload[v].inserted \subseteq upload'[v].inserted
      /\ \A v \in Uploads \ {u} : upload'[v].rest = upload[v].rest
      /\ upload'[u].rest = upload[u].rest \ {i}
      /\ UNCHANGED <<records, runs>>
  BY RowMoves
<1>2. \A v \in Uploads : \A j : KeyOf(v, j)' = KeyOf(v, j)
  BY <1>1 DEF KeyOf
<1>3. Live' = Live /\ \A r : NameOf(r)' = NameOf(r)
  BY <1>1 DEF Live, NameOf
<1>4. \A v \in Uploads \ {u} : \A j : Represented(v, j) => Represented(v, j)'
  BY <1>1, <1>2, <1>3, RowForgets DEF Represented
<1>5. ASSUME upload[u].dedup /\ Stored(u, KeyOf(u, i))
      PROVE  /\ KeyOf(u, i) # Blank
             /\ \E id \in Live : NameOf(id) = upload[u].name /\ records[id].key = KeyOf(u, i)
  <2>1. ~\E j \in upload[u].inserted : KeyOf(u, j) = KeyOf(u, i)
    BY <1>5 DEF Stored, Distinct, Sound, UploadOK
  <2> QED
    BY <1>5, <2>1 DEF Stored
<1>6. Represented(u, i)'
  <2>1. CASE i \in upload'[u].inserted
    BY <2>1 DEF Represented
  <2>2. CASE i \notin upload'[u].inserted
    <3>1. upload[u].dedup /\ Stored(u, KeyOf(u, i))
      BY <2>2, RowMoves
    <3> QED
      BY <1>1, <1>2, <1>3, <1>5, <3>1 DEF Represented
  <2> QED
    BY <2>1, <2>2
<1>7. ASSUME NEW j, Represented(u, j) PROVE Represented(u, j)'
  <2>1. CASE upload[u].dedup /\ Stored(u, KeyOf(u, i)) /\ KeyOf(u, j) = KeyOf(u, i)
    BY <1>1, <1>2, <1>3, <1>5, <2>1 DEF Represented
  <2>2. CASE ~(upload[u].dedup /\ Stored(u, KeyOf(u, i)) /\ KeyOf(u, j) = KeyOf(u, i))
    <3>1. <<upload[u].name, KeyOf(u, j)>> \in lost[u]
            => <<upload[u].name, KeyOf(u, j)>> \in lost'[u]
      BY <2>2, RowForgets
    <3> QED
      BY <1>1, <1>2, <1>3, <1>7, <3>1 DEF Represented
  <2> QED
    BY <2>1, <2>2
<1> QED
  BY <1>1, <1>4, <1>6, <1>7 DEF LostInv

LEMMA LostCommit ==
  ASSUME Sound, LostInv, NEW u \in Uploads, Commit(u)
  PROVE  LostInv'
<1>1. /\ \A v \in Uploads :
            /\ upload'[v].file = upload[v].file /\ upload'[v].name = upload[v].name
            /\ upload'[v].dedup = upload[v].dedup /\ upload'[v].rest = upload[v].rest
            /\ upload'[v].inserted = upload[v].inserted
      /\ \A v \in Uploads \ {u} : upload'[v].pc = upload[v].pc
      /\ upload[u].pc = "loading" /\ lost' = lost /\ Live \subseteq Live'
  BY CommitMoves
<1>2. \A r \in Live : records'[r] = records[r] /\ NameOf(r)' = NameOf(r)
  BY CommitMoves DEF NameOf
<1>3. \A v \in Uploads : \A j : KeyOf(v, j)' = KeyOf(v, j)
  BY <1>1 DEF KeyOf
<1>4. \A v \in Uploads : \A j : Represented(v, j) => Represented(v, j)'
  BY <1>1, <1>2, <1>3 DEF Represented
<1> QED
  BY <1>1, <1>4 DEF LostInv

\* No row of a finished upload is without a trace: it is stored, repeats an earlier
\* row, or its key was stored when it was skipped, and only a request since then can
\* have erased or changed it (ingest.py:219-289).
THEOREM RowsKept == Spec => []NoRowLost
<1>1. Init => LostInv
  BY DEF Init, LostInv, Idle
<1>2. Sound /\ DuplicatesInv /\ LostInv /\ [Next]_vars => LostInv'
  BY StepKinds, LostQuiet, LostReceive, LostRow, LostCommit DEF DuplicatesInv
<1>3. Sound /\ LostInv => NoRowLost
  BY DEF LostInv, NoRowLost, Committed, Sound, UploadOK
<1> QED
  BY <1>1, <1>2, <1>3, SoundInit, SoundNext, DuplicatesInit, DuplicatesNext, PTL DEF Spec

-----------------------------------------------------------------------------
(* Counters *)

\* What a finished upload inserted is still there or was deleted, and the two
\* counters of its records lie between what is there and what was inserted.
CountedOK(u) ==
    LET up == upload[u]  r == runs[u] IN
    /\ r.total = Cardinality(DOMAIN up.file)
    /\ r.dropped = Cardinality(DOMAIN up.file) - Cardinality(up.kept)
    /\ r.skipped = Cardinality(up.kept) - Cardinality(up.inserted)
    /\ Cardinality(OfRun(u)) + erased[u] = Cardinality(up.inserted)
    /\ r.clean + r.flagged \in Cardinality(OfRun(u))..Cardinality(up.inserted)

CountsInv ==
    /\ erased \in [Uploads -> Nat]
    /\ \A u \in Uploads : upload[u].pc \in {"idle", "loading"} => erased[u] = 0
    /\ \A u \in Committed : CountedOK(u)

\* A step that changes neither the counters nor the records of a run that stays
\* committed.
LEMMA CountsKept ==
  ASSUME Sound, CountsInv, erased' = erased,
         NEW u \in Uploads, u \in Committed', u \in Committed, OfRun(u)' = OfRun(u),
         upload'[u] = upload[u], runs'[u] = runs[u]
  PROVE  CountedOK(u)'
  BY DEF CountsInv, CountedOK

LEMMA CountsReceive ==
  ASSUME Sound, CountsInv, NEW u \in Uploads, NEW file \in Files,
         NEW collapse \in BOOLEAN, Receive(u, file, collapse)
  PROVE  CountsInv'
<1>1. /\ upload'[u].pc = "loading" /\ upload[u].pc = "idle"
      /\ \A v \in Uploads \ {u} : upload'[v] = upload[v]
      /\ UNCHANGED <<records, runs, erased>>
  BY DEF Receive, Sound, TypeOK
<1>2. \A v \in Committed' : v \in Uploads \ {u} /\ v \in Committed /\ OfRun(v)' = OfRun(v)
  BY <1>1 DEF Committed, OfRun, Live
<1> QED
  BY <1>1, <1>2, CountsKept DEF CountsInv

LEMMA CountsRow ==
  ASSUME Sound, CountsInv, NEW u \in Uploads, NEW i \in upload[u].rest, Row(u, i)
  PROVE  CountsInv'
<1>1. /\ \A v \in Uploads : upload'[v].pc = upload[v].pc
      /\ upload[u].pc = "loading"
      /\ \A v \in Uploads \ {u} : upload'[v] = upload[v]
      /\ UNCHANGED <<records, runs, erased>>
  BY RowMoves
<1>2. \A v \in Committed' : v \in Uploads \ {u} /\ v \in Committed /\ OfRun(v)' = OfRun(v)
  BY <1>1 DEF Committed, OfRun, Live
<1> QED
  BY <1>1, <1>2, CountsKept DEF CountsInv

LEMMA CountsFail ==
  ASSUME Sound, CountsInv, NEW u \in Uploads, Fail(u)
  PROVE  CountsInv'
<1>1. /\ upload[u].pc = "loading" /\ upload'[u] = Ended(upload[u], "failed")
      /\ upload[u] \in Upload
      /\ \A v \in Uploads \ {u} : upload'[v] = upload[v]
      /\ UNCHANGED <<records, runs, erased>>
  BY DEF Fail, Sound, TypeOK
<1>2. upload'[u].pc = "failed"
  BY <1>1, EndedTyped
<1>3. \A v \in Committed' : v \in Uploads \ {u} /\ v \in Committed /\ OfRun(v)' = OfRun(v)
  BY <1>1, <1>2 DEF Committed, OfRun, Live
<1> QED
  BY <1>1, <1>2, <1>3, CountsKept DEF CountsInv

LEMMA CountsCommit ==
  ASSUME Sound, CountsInv, NEW u \in Uploads, Commit(u)
  PROVE  CountsInv'
<1>1. /\ upload[u].pc = "loading" /\ upload[u] \in Upload
      /\ upload'[u].file = upload[u].file /\ upload'[u].kept = upload[u].kept
      /\ upload'[u].inserted = upload[u].inserted
      /\ \A v \in Uploads \ {u} : upload'[v] = upload[v] /\ runs'[v] = runs[v]
      /\ erased' = erased /\ runs'[u] = Counters(u)
      /\ Live' = Live \cup ({u} \X upload[u].inserted)
      /\ \A id \in Live : id[1] \in Uploads \ {u}
  BY CommitMoves
<1>2. upload'[u].pc = "done"
  BY CommitMoves, EndedTyped
<1>3. \A v \in Committed' \ {u} : v \in Uploads \ {u} /\ v \in Committed /\ OfRun(v)' = OfRun(v)
  BY <1>1 DEF Committed, OfRun
<1>4. OfRun(u)' = {u} \X upload[u].inserted
  BY <1>1 DEF OfRun
<1>5. Cardinality(OfRun(u)') = Cardinality(upload[u].inserted)
  <2>1. IsFiniteSet(upload[u].inserted) /\ Cardinality(upload[u].inserted) \in Nat
    BY Finite, FS_CardinalityType
  <2>2. IsFiniteSet({u}) /\ Cardinality({u}) = 1
    BY FS_Singleton
  <2>3. Cardinality({u} \X upload[u].inserted) = Cardinality({u}) * Cardinality(upload[u].inserted)
    BY <2>1, <2>2, FS_Product
  <2> QED
    BY <1>4, <2>1, <2>2, <2>3
<1>6. /\ Counters(u).total = Cardinality(DOMAIN upload[u].file)
      /\ Counters(u).dropped = Cardinality(DOMAIN upload[u].file) - Cardinality(upload[u].kept)
      /\ Counters(u).skipped = Cardinality(upload[u].kept) - Cardinality(upload[u].inserted)
  BY DEF Counters
<1>7. Counters(u).clean + Counters(u).flagged = Cardinality(upload[u].inserted)
  BY CountersTyped
<1>8. erased[u] = 0
  BY <1>1 DEF CountsInv
<1>9. CountedOK(u)'
  BY <1>1, <1>5, <1>6, <1>7, <1>8, Finite DEF CountedOK
<1>10. \A v \in Committed' \ {u} : CountedOK(v)'
  BY <1>1, <1>3, CountsKept
<1> QED
  BY <1>1, <1>2, <1>9, <1>10 DEF CountsInv

LEMMA CountsDelete ==
  ASSUME Sound, CountsInv, NEW ids \in SUBSET Live, Delete(ids)
  PROVE  CountsInv'
<1>1. /\ Live' = Live \ ids
      /\ erased' = [u \in Uploads |-> erased[u] + Cardinality(ids \cap OfRun(u))]
      /\ UNCHANGED <<upload, runs>>
  BY DEF Delete, Live
<1>2. ASSUME NEW u \in Uploads
      PROVE  /\ IsFiniteSet(OfRun(u)) /\ Cardinality(OfRun(u)) \in Nat
             /\ Cardinality(ids \cap OfRun(u)) \in Nat
  <2>1. OfRun(u) \in SUBSET Live /\ ids \cap OfRun(u) \in SUBSET Live
    BY DEF OfRun
  <2> QED
    BY <2>1, FiniteLive
<1>3. \A u \in Uploads : erased'[u] = erased[u] + Cardinality(ids \cap OfRun(u))
  BY <1>1
<1>4. erased' \in [Uploads -> Nat]
  <2>1. ASSUME NEW u \in Uploads PROVE erased[u] + Cardinality(ids \cap OfRun(u)) \in Nat
    <3>1. erased[u] \in Nat /\ Cardinality(ids \cap OfRun(u)) \in Nat
      BY <1>2 DEF CountsInv
    <3> QED
      BY <3>1
  <2> QED
    BY <1>1, <2>1
<1>5. \A u \in Uploads : upload'[u].pc \in {"idle", "loading"} => erased'[u] = 0
  <2> SUFFICES ASSUME NEW u \in Uploads, upload[u].pc \in {"idle", "loading"}
               PROVE  erased'[u] = 0
    BY <1>1
  <2>1. ids \cap OfRun(u) = {}
    BY LiveOf DEF OfRun
  <2> QED
    BY <2>1, <1>3, FS_EmptySet DEF CountsInv
<1>6. ASSUME NEW u \in Committed'
      PROVE  CountedOK(u)'
  <2>1. u \in Uploads /\ u \in Committed /\ runs[u] \in Run
    BY <1>1, <1>6 DEF Committed, Sound, TypeOK
  <2>2. CountedOK(u) /\ erased[u] \in Nat
    BY <2>1 DEF CountsInv
  <2>3. runs[u].clean \in Nat /\ runs[u].flagged \in Nat
    BY <2>1 DEF Run
  <2>4. CountedOK(u)' <=>
          /\ runs[u].total = Cardinality(DOMAIN upload[u].file)
          /\ runs[u].dropped = Cardinality(DOMAIN upload[u].file) - Cardinality(upload[u].kept)
          /\ runs[u].skipped = Cardinality(upload[u].kept) - Cardinality(upload[u].inserted)
          /\ Cardinality(OfRun(u)') + erased'[u] = Cardinality(upload[u].inserted)
          /\ runs[u].clean + runs[u].flagged
                \in Cardinality(OfRun(u)')..Cardinality(upload[u].inserted)
    BY <1>1 DEF CountedOK
  <2> DEFINE gone == ids \cap OfRun(u)
  <2>5. OfRun(u)' = OfRun(u) \ gone /\ OfRun(u) \cap gone = gone
    BY <1>1 DEF OfRun
  <2>6. IsFiniteSet(OfRun(u)) /\ Cardinality(OfRun(u)) \in Nat /\ Cardinality(gone) \in Nat
    BY <1>2, <2>1
  <2>7. IsFiniteSet(OfRun(u)') /\ Cardinality(OfRun(u)') = Cardinality(OfRun(u)) - Cardinality(gone)
    <3> HIDE DEF gone
    <3>1. /\ IsFiniteSet(OfRun(u) \ gone)
          /\ Cardinality(OfRun(u) \ gone) = Cardinality(OfRun(u)) - Cardinality(OfRun(u) \cap gone)
      BY <2>6, FS_Difference
    <3> QED
      BY <2>5, <3>1
  <2>8. Cardinality(OfRun(u)') \in Nat
    BY <2>7, FS_CardinalityType
  <2>9. erased'[u] = erased[u] + Cardinality(gone)
    BY <1>3, <2>1
  <2>10. Cardinality(upload[u].inserted) \in Nat
    BY <2>1, Finite, FS_CardinalityType
  <2> HIDE DEF gone
  <2> QED
    BY <2>2, <2>3, <2>4, <2>6, <2>7, <2>8, <2>9, <2>10 DEF CountedOK
<1> QED
  BY <1>4, <1>5, <1>6 DEF CountsInv

\* A recount of the run of some records that all stay.
LEMMA CountsRecount ==
  ASSUME Sound, CountsInv, upload' = upload, erased' = erased, Live' = Live,
         NEW u \in Uploads, NEW name \in Names,
         runs' = [runs EXCEPT ![u] = Recounted(u, name, records')]
  PROVE  CountsInv'
<1>1. \A v \in Uploads : OfRun(v)' = OfRun(v)
  BY DEF OfRun
<1>2. Committed' = Committed
  BY DEF Committed
<1>3. IsFiniteSet(DOMAIN records') /\ {id \in DOMAIN records' : id[1] = u} = OfRun(u)
  BY DEF Sound, RecordsOK, Live, OfRun
<1>4. /\ runs'[u] = Recounted(u, name, records')
      /\ \A v \in Uploads \ {u} : runs'[v] = runs[v]
  BY DEF Sound, TypeOK
<1>5. /\ runs'[u].total = runs[u].total /\ runs'[u].dropped = runs[u].dropped
      /\ runs'[u].skipped = runs[u].skipped
      /\ runs'[u].clean + runs'[u].flagged = Cardinality(OfRun(u))
  <2>1. runs \in [Uploads -> Run]
    BY DEF Sound, TypeOK
  <2> DEFINE table == records'
  <2> HIDE DEF table
  <2>2. IsFiniteSet(DOMAIN table) /\ {id \in DOMAIN table : id[1] = u} = OfRun(u)
    BY <1>3 DEF table
  <2>3. runs'[u] = Recounted(u, name, table)
    BY <1>4 DEF table
  <2>4. Recounted(u, name, table).clean + Recounted(u, name, table).flagged
            = Cardinality({id \in DOMAIN table : id[1] = u})
    BY <2>1, <2>2, RecountTyped
  <2>5. /\ Recounted(u, name, table).total = runs[u].total
        /\ Recounted(u, name, table).dropped = runs[u].dropped
        /\ Recounted(u, name, table).skipped = runs[u].skipped
    BY DEF Recounted, WithCounts
  <2> QED
    BY <2>2, <2>3, <2>4, <2>5
<1>6. u \in Committed => CountedOK(u)'
  <2> SUFFICES ASSUME u \in Committed PROVE CountedOK(u)'
    OBVIOUS
  <2>1. CountedOK(u) /\ erased[u] \in Nat
    BY DEF CountsInv
  <2>2. OfRun(u) \in SUBSET Live
    BY DEF OfRun
  <2>3. Cardinality(OfRun(u)) \in Nat
    BY <2>2, FiniteLive
  <2> QED
    BY <1>1, <1>5, <2>1, <2>3, Finite DEF CountedOK
<1>7. \A v \in Committed \ {u} : CountedOK(v)'
  BY <1>1, <1>2, <1>4, CountsKept DEF Committed
<1> QED
  BY <1>2, <1>6, <1>7 DEF CountsInv

LEMMA CountsSweep ==
  ASSUME Sound, CountsInv, NEW old \in SUBSET Committed, Sweep(old)
  PROVE  CountsInv'
<1>1. \A u \in Committed' : u \in Committed \ old /\ u \in Uploads /\ OfRun(u)' = OfRun(u)
  BY SweepMoves DEF Committed, OfRun
<1>2. \A u \in Uploads \ old : upload'[u] = upload[u]
  BY DEF Sweep
<1>3. erased' = erased /\ runs' = runs
  BY SweepMoves
<1>4. \A u \in Uploads : upload'[u].pc \in {"idle", "loading"} => upload[u].pc \in {"idle", "loading"}
  BY SweepMoves
<1> QED
  BY <1>1, <1>2, <1>3, <1>4, CountsKept DEF CountsInv

LEMMA CountsNext == Sound /\ CountsInv /\ [Next]_vars => CountsInv'
<1> SUFFICES ASSUME Sound, CountsInv, [Next]_vars PROVE CountsInv'
  OBVIOUS
<1>1. ASSUME UNCHANGED <<upload, records, runs, erased>>
      PROVE  CountsInv'
  BY <1>1 DEF CountsInv, CountedOK, Committed, OfRun, Live
<1>2. ASSUME NEW id \in Live, NEW key \in Keys, NEW odd \in BOOLEAN, Correct(id, key, odd)
      PROVE  CountsInv'
  <2>1. /\ Live' = Live /\ upload' = upload /\ erased' = erased
        /\ runs' = [runs EXCEPT ![id[1]] = Recounted(id[1], NameOf(id), records')]
    BY <1>2 DEF Correct, Live
  <2>2. id[1] \in Uploads /\ NameOf(id) \in Names
    BY LiveOf DEF NameOf, Sound, TypeOK, Run
  <2> QED
    BY <2>1, <2>2, CountsRecount
<1>3. ASSUME NEW u \in Uploads, NEW new \in Mapping, NEW keys \in [OfRun(u) -> Keys],
             NEW odd \in [OfRun(u) -> BOOLEAN], Review(u, new, keys, odd)
      PROVE  CountsInv'
  <2>1. /\ Live' = Live /\ upload' = upload /\ erased' = erased
        /\ runs' = [runs EXCEPT ![u] = Recounted(u, new.name, records')]
    BY <1>3 DEF Review, Live
  <2>2. new.name \in Names
    BY DEF Mapping
  <2> QED
    BY <2>1, <2>2, CountsRecount
<1>4. ASSUME NEW new \in Mapping, Save(new) PROVE CountsInv'
  BY <1>1, <1>4 DEF Save
<1>5. CASE UNCHANGED vars
  BY <1>1, <1>5 DEF vars
<1>6. CASE Next
  BY <1>2, <1>3, <1>4, <1>6, CountsReceive, CountsRow, CountsCommit, CountsFail,
     CountsSweep, CountsDelete DEF Next
<1> QED
  BY <1>5, <1>6

\* The counters of a run account for every row of its file at most once and leave
\* out only rows whose records were deleted (ingest.py:237-240, 291-293, main.py:1006-1017).
THEOREM Accounting == Spec => []RunsAddUp
<1>1. Init => CountsInv
  BY DEF Init, CountsInv, Committed, Idle
<1>2. Sound /\ CountsInv => RunsAddUp
  <2> SUFFICES ASSUME Sound, CountsInv, NEW u \in Committed
               PROVE  Unaccounted(u) \in 0..erased[u]
    BY DEF RunsAddUp
  <2>1. u \in Uploads /\ runs[u] \in Run /\ CountedOK(u) /\ erased[u] \in Nat
    BY DEF Committed, Sound, TypeOK, CountsInv
  <2>2. OfRun(u) \in SUBSET Live
    BY DEF OfRun
  <2>3. Cardinality(OfRun(u)) \in Nat
    BY <2>2, FiniteLive
  <2> QED
    BY <2>1, <2>3, Finite DEF CountedOK, Unaccounted, Run
<1> QED
  BY <1>1, <1>2, SoundInit, SoundNext, CountsNext, PTL DEF Spec

=============================================================================
