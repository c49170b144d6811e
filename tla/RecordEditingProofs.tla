-------------------------- MODULE RecordEditingProofs --------------------------
(***************************************************************************)
(* RecordEditing for any records, requests, values and bound: its types,   *)
(* that the counters of a run never go below zero, that has_issues         *)
(* describes the fields and that what may leave has been reviewed (EditInv)*)
(* and that the counters are exact while no two requests that count        *)
(* overlap (CountersInv).                                                  *)
(***************************************************************************)
EXTENDS RecordEditing, TLAPS, FiniteSetTheorems

Reads == UNION {[set -> Row] : set \in SUBSET Records}
Bodies == UNION {[set -> Values] : set \in SUBSET Records}
Requested == [pc : Pcs, read : Reads, run : Run, made : Bodies, strict : BOOLEAN,
              counts : [total : Nat, flagged : Nat]]

\* Who holds the run is about to commit a review.
LockOK == runLock # NoRequest => request[runLock].pc = "locked"

Single(s) == \E r \in Records : DOMAIN request[s].read = {r}
Reviewing(s) == request[s].pc \in {"review", "reviewing", "locked"}

\* What a request has read, and makes anew: nothing, one record, or all that
\* live. No record is ever added to a run, so a review never misses one.
ReadOK == \A s \in Requests :
    /\ DOMAIN request[s].made = DOMAIN request[s].read
    /\ request[s].pc = "idle" => DOMAIN request[s].read = {}
    /\ Reviewing(s) => Live \subseteq DOMAIN request[s].read
    /\ request[s].pc # "idle" /\ ~Reviewing(s) => Single(s)

\* A row that an edit has updated and not committed cannot be deleted.
HeldOK == \A s \in Requests :
    request[s].pc \in {"flushed", "totalled", "counted"} =>
        DOMAIN request[s].read \subseteq Live

\* The second count follows the first, so it can only have fewer records.
CountOK == \A s \in Requests :
    /\ request[s].pc = "totalled" => Cardinality(Live) <= request[s].counts.total
    /\ request[s].pc = "counted" => request[s].counts.flagged <= request[s].counts.total

\* What a request uses again of a row it has read is what the row holds.
Known(q, r) ==
    /\ q.read[r].flagged = rows[r].flagged
    /\ q.pc \notin {"review", "reviewing", "locked"} =>
            q.read[r].approved = rows[r].approved
    /\ q.pc = "approve" => q.read[r].value = rows[r].value

\* What a request has read of a record nobody else has written is still true,
\* and so is the mapping it validates under: only a review changes the
\* mapping, and a review writes every record.
FreshOK == \A s \in Requests : \A r \in DOMAIN request[s].read :
    r \in Live /\ r \notin raced =>
        /\ Known(request[s], r)
        /\ request[s].pc \notin {"patch", "approve", "review"} =>
                request[s].run.strict = run.strict

\* An approval is for the fields its approver saw, until a review changes them.
SeenOK == \A r \in Live \ raced :
            rows[r].approved => seen[r] = rows[r].value \/ r \in recast

Types ==
    /\ rows \in [Records -> Row]
    /\ run \in Run
    /\ request \in [Requests -> Requested]
    /\ runLock \in Requests \cup {NoRequest}
    /\ seen \in [Records -> Values]
    /\ raced \subseteq Records /\ recast \subseteq Records
    /\ overlapped \in BOOLEAN /\ stale \in BOOLEAN
    /\ begun \in 0..MaxRequests

EditInv == /\ Types /\ LockOK /\ ReadOK /\ HeldOK /\ CountOK /\ FreshOK
           /\ SeenOK /\ CountersNonNegative /\ FlagDescribesFields

-----------------------------------------------------------------------------
(* What the operators of the model return                                  *)

\* No request and no count: the values an idle request holds have their types.
LEMMA IdleTyped ==
    ASSUME EditingAssumption
    PROVE  /\ AnyValue \in Values /\ Gone \in Row /\ Idle \in Requested
           /\ DOMAIN Idle.read = {} /\ DOMAIN Idle.made = {} /\ Idle.pc = "idle"
<1>1. AnyValue \in Values
    BY DEF EditingAssumption, AnyValue
<1>2. Gone \in Row
    BY <1>1 DEF Gone, Row
<1>3. NoRows \in [{} -> Row] /\ DOMAIN NoRows = {}
    BY DEF NoRows
<1>4. NoRows \in Reads
    BY <1>3 DEF Reads
<1>5. AnyRun \in Run /\ NoCounts \in [total : Nat, flagged : Nat]
    BY DEF AnyRun, NoCounts, Run
<1>6. [r \in {} |-> AnyValue] \in Bodies
    BY <1>1 DEF Bodies
<1> QED
    BY <1>1, <1>2, <1>3, <1>4, <1>5, <1>6 DEF Idle, Requested, Pcs

\* A function that a request has read has a subset of the records as domain.
LEMMA ReadTyped ==
    ASSUME NEW read \in Reads
    PROVE  /\ DOMAIN read \subseteq Records
           /\ \A r \in DOMAIN read : read[r] \in Row
    BY DEF Reads

\* What a body makes of a record has the type of a record's fields.
LEMMA MadeTyped ==
    ASSUME NEW made \in Bodies
    PROVE  \A r \in DOMAIN made : made[r] \in Values
    BY DEF Bodies

\* The record of a request that has read one.
LEMMA OfSingle ==
    ASSUME NEW s \in Requests, Single(s)
    PROVE  Of(s) \in Records /\ DOMAIN request[s].read = {Of(s)}
    BY DEF Single, Of

\* The records of a table are finitely many, the flagged ones among the live.
LEMMA Counted ==
    ASSUME EditingAssumption, NEW set \in SUBSET Records, NEW part \in SUBSET set
    PROVE  /\ IsFiniteSet(set)
           /\ Cardinality(set) \in Nat /\ Cardinality(part) \in Nat
           /\ Cardinality(part) <= Cardinality(set)
<1>1. IsFiniteSet(set)
    BY FS_Subset DEF EditingAssumption
<1>2. IsFiniteSet(part) /\ Cardinality(part) <= Cardinality(set)
    BY <1>1, FS_Subset
<1> QED
    BY <1>1, <1>2, FS_CardinalityType

\* An UPDATE of a column leaves one of two values, both of the column's type.
LEMMA ColumnTyped ==
    ASSUME NEW T, NEW computed \in T, NEW loaded, NEW current \in T
    PROVE  Column(computed, loaded, current) \in T
    BY DEF Column

\* The run's UPDATE keeps the types, and the counters at or above zero.
LEMMA RunWrittenTyped ==
    ASSUME run \in Run, CountersNonNegative, NEW s \in Requests,
           NEW strict \in BOOLEAN, NEW flagged \in Nat, NEW total \in Nat,
           flagged <= total
    PROVE  /\ RunWritten(s, strict, flagged, total) \in Run
           /\ RunWritten(s, strict, flagged, total).flagged >= 0
           /\ RunWritten(s, strict, flagged, total).clean >= 0
<1> DEFINE me == request[s]
<1>1. Column(strict, me.run.strict, run.strict) \in BOOLEAN
    BY ColumnTyped DEF Run
<1>2. run.flagged \in Nat /\ run.clean \in Nat
    BY DEF Run, CountersNonNegative
<1>3. Column(flagged, me.run.flagged, run.flagged) \in Nat
    BY <1>2 DEF Column
<1>4. Column(total - flagged, me.run.clean, run.clean) \in Nat
    <2>1. total - flagged \in Nat
        OBVIOUS
    <2> QED
        BY <1>2, <2>1 DEF Column
<1> QED
    BY <1>1, <1>3, <1>4 DEF RunWritten, Run

-----------------------------------------------------------------------------
(* The initial states                                                      *)

\* Right after an upload nothing is read, and the flags are the validators'.
LEMMA InitInv ==
    ASSUME EditingAssumption, Init
    PROVE  EditInv
<1>1. PICK strict \in BOOLEAN, value \in [Records -> Values] :
        LET bad == {r \in Records : Issue(strict, value[r]) \/ value[r] \in Misread} IN
        /\ rows = [r \in Records |-> [live |-> TRUE, value |-> value[r],
                                      flagged |-> r \in bad, approved |-> FALSE]]
        /\ run = [strict |-> strict, flagged |-> Cardinality(bad),
                  clean |-> Cardinality(Records \ bad)]
    BY DEF Init
<1>2. PICK bad \in SUBSET Records :
        bad = {r \in Records : Issue(strict, value[r]) \/ value[r] \in Misread}
    OBVIOUS
<1>3. Cardinality(bad) \in Nat /\ Cardinality(Records \ bad) \in Nat
    BY Counted
<1>4. /\ rows \in [Records -> Row]
      /\ \A r \in Records : /\ rows[r].value = value[r]
                            /\ rows[r].flagged = (r \in bad)
                            /\ rows[r].approved = FALSE
    BY <1>1, <1>2 DEF Row
<1>5. /\ run \in Run /\ run.strict = strict
      /\ CountersNonNegative
    BY <1>1, <1>2, <1>3 DEF Run, CountersNonNegative
<1>6. /\ request \in [Requests -> Requested]
      /\ \A s \in Requests : /\ request[s].pc = "idle" /\ DOMAIN request[s].read = {}
                            /\ DOMAIN request[s].made = {}
    BY IdleTyped DEF Init
<1>7. Types
    <2>1. seen \in [Records -> Values]
        BY IdleTyped DEF Init
    <2>2. begun \in 0..MaxRequests
        BY DEF Init, EditingAssumption
    <2>3. runLock \in Requests \cup {NoRequest} /\ raced \subseteq Records
          /\ recast \subseteq Records /\ overlapped \in BOOLEAN /\ stale \in BOOLEAN
        BY DEF Init
    <2> QED
        BY <1>4, <1>5, <1>6, <2>1, <2>2, <2>3 DEF Types
<1>8. LockOK /\ ReadOK /\ HeldOK /\ CountOK /\ FreshOK
    BY <1>6 DEF LockOK, ReadOK, HeldOK, CountOK, FreshOK, Init, Reviewing
<1>9. SeenOK /\ FlagDescribesFields
    BY <1>2, <1>4, <1>5 DEF SeenOK, FlagDescribesFields, Live
<1> QED
    BY <1>5, <1>7, <1>8, <1>9 DEF EditInv

-----------------------------------------------------------------------------
(* Steps that change what one request holds and nothing of the table       *)

\* What the invariant asks of the request that takes such a step.
Fits(q) ==
    /\ q \in Requested
    /\ DOMAIN q.made = DOMAIN q.read
    /\ q.pc = "idle" => DOMAIN q.read = {}
    /\ q.pc \in {"review", "reviewing", "locked"} => Live \subseteq DOMAIN q.read
    /\ q.pc \notin {"idle", "review", "reviewing", "locked"} =>
            \E r \in Records : DOMAIN q.read = {r}
    /\ q.pc \in {"flushed", "totalled", "counted"} => DOMAIN q.read \subseteq Live
    /\ q.pc = "totalled" => Cardinality(Live) <= q.counts.total
    /\ q.pc = "counted" => q.counts.flagged <= q.counts.total
    /\ \A r \in DOMAIN q.read : r \in Live /\ r \notin raced =>
            /\ Known(q, r)
            /\ q.pc \notin {"patch", "approve", "review"} => q.run.strict = run.strict

\* Every request fits, and a step to a request that fits keeps the invariant.
LEMMA AllFit ==
    ASSUME EditInv, NEW s \in Requests
    PROVE  Fits(request[s])
    BY DEF EditInv, Types, ReadOK, HeldOK, CountOK, FreshOK, Known, Fits, Single, Reviewing

LEMMA OwnStep ==
    ASSUME EditInv, NEW s \in Requests, NEW q, Fits(q),
           request' = [request EXCEPT ![s] = q],
           UNCHANGED <<rows, run, history>>,
           runLock' \in Requests \cup {NoRequest}, LockOK',
           begun' \in 0..MaxRequests
    PROVE  EditInv'
<1>1. /\ request[s] \in Requested /\ request \in [Requests -> Requested]
      /\ request'[s] = q
      /\ \A t \in Requests \ {s} : request'[t] = request[t]
    BY DEF EditInv, Types
<1>2. Live' = Live /\ UNCHANGED <<rows, run, seen, recast, raced, overlapped, stale>>
    BY DEF Live, history
<1>3. Types'
    BY <1>1, <1>2 DEF EditInv, Types, Fits
<1>4. ReadOK'
    BY <1>1, <1>2 DEF EditInv, ReadOK, Fits, Single, Reviewing
<1>5. CountOK' /\ HeldOK'
    BY <1>1, <1>2 DEF EditInv, CountOK, HeldOK, Fits
<1>6. FreshOK'
    BY <1>1, <1>2 DEF EditInv, FreshOK, Fits, Known
<1>7. SeenOK' /\ CountersNonNegative' /\ FlagDescribesFields'
    BY <1>2 DEF EditInv, SeenOK, CountersNonNegative, FlagDescribesFields
<1> QED
    BY <1>3, <1>4, <1>5, <1>6, <1>7 DEF EditInv

\* A request that ends without a commit leaves the tables as they are.
LEMMA FailInv ==
    ASSUME EditingAssumption, EditInv, NEW s \in Requests, Fail(s)
    PROVE  EditInv'
<1>1. Fits(Idle)
    BY IdleTyped DEF Fits
<1>2. /\ request' = [request EXCEPT ![s] = Idle]
      /\ runLock' = Released(s) /\ begun' = begun
      /\ UNCHANGED <<rows, run, history>>
    BY DEF Fail
<1>3. runLock' \in Requests \cup {NoRequest} /\ LockOK'
    BY <1>2 DEF EditInv, Types, LockOK, Released
<1>4. begun' \in 0..MaxRequests
    BY <1>2 DEF EditInv, Types
<1> QED
    BY <1>1, <1>2, <1>3, <1>4, OwnStep

\* A request that begins reads the records as they are.
LEMMA BeginInv ==
    ASSUME EditingAssumption, EditInv, NEW s \in Requests, NEW pc,
           NEW set \in SUBSET Records, NEW made \in [set -> Values], NEW strict \in BOOLEAN,
           \/ pc = "review" /\ set = Live
           \/ pc \in {"patch", "approve"} /\ \E r \in Records : set = {r},
           Begin(s, pc, set, made, strict)
    PROVE  EditInv'
<1> DEFINE q == [pc |-> pc, read |-> [r \in set |-> Loaded(pc, rows[r])], run |-> AnyRun,
                 made |-> made, strict |-> strict, counts |-> NoCounts]
<1>1. [r \in set |-> Loaded(pc, rows[r])] \in [set -> Row]
    BY IdleTyped DEF EditInv, Types, Loaded, Row
<1>2. q.read \in Reads /\ q.made \in Bodies
    BY <1>1 DEF Reads, Bodies
<1>3. q \in Requested
    BY <1>2 DEF Requested, Pcs, AnyRun, NoCounts, Run
<1>4. Fits(q)
    <2>1. ASSUME NEW r \in set PROVE Known(q, r)
        BY DEF Known, Loaded, EditInv, Types, Row
    <2> QED
        BY <1>3, <2>1 DEF Fits
<1>5. /\ request' = [request EXCEPT ![s] = q] /\ request[s].pc = "idle"
      /\ UNCHANGED <<rows, run, history, runLock>>
      /\ begun < MaxRequests /\ begun' = begun + 1
    BY DEF Begin
<1>6. begun' \in 0..MaxRequests
    BY <1>5 DEF EditInv, Types, EditingAssumption
<1>7. runLock' \in Requests \cup {NoRequest} /\ LockOK'
    BY <1>5 DEF EditInv, Types, LockOK
<1> HIDE DEF q
<1> QED
    BY <1>4, <1>5, <1>6, <1>7, OwnStep

\* The steps of a request between its reading and its commit.
LEMMA MovedInv ==
    ASSUME EditInv, NEW s \in Requests, NEW pc, NEW loaded, NEW counts,
           Fits(Moved(request[s], pc, loaded, counts)),
           request' = [request EXCEPT ![s] = Moved(request[s], pc, loaded, counts)],
           UNCHANGED <<rows, run, history, begun>>,
           \/ runLock' = runLock /\ runLock # s
           \/ runLock' = s /\ pc = "locked"
    PROVE  EditInv'
<1> DEFINE q == Moved(request[s], pc, loaded, counts)
<1>1. q.pc = pc
    BY DEF Moved
<1>2. runLock' \in Requests \cup {NoRequest} /\ LockOK'
    BY <1>1 DEF EditInv, Types, LockOK
<1>3. begun' \in 0..MaxRequests /\ UNCHANGED <<rows, run, history>>
    BY DEF EditInv, Types
<1> HIDE DEF q
<1> QED
    BY <1>2, <1>3, OwnStep DEF q

\* The run is locked by nobody but a request that is about to commit a review.
LEMMA NotHolder ==
    ASSUME EditInv, NEW s \in Requests, request[s].pc # "locked",
           EditingAssumption
    PROVE  runLock # s
    BY DEF EditInv, LockOK, EditingAssumption

LEMMA LoadRunInv ==
    ASSUME EditingAssumption, EditInv, NEW s \in Requests, LoadRun(s)
    PROVE  EditInv'
<1> DEFINE pc == IF request[s].pc = "patch" THEN "patching" ELSE "reviewing"
           q == Moved(request[s], pc, run, NoCounts)
<1>1. /\ request[s].pc \in {"patch", "review"}
      /\ request' = [request EXCEPT ![s] = q]
      /\ UNCHANGED <<rows, run, runLock, history, begun>>
    BY DEF LoadRun, EditInv, Types
<1>2. q \in Requested
    BY <1>1, AllFit DEF Fits, Moved, Requested, Pcs, NoCounts, EditInv, Types
<1>3. Fits(q)
    BY <1>1, <1>2, AllFit DEF Fits, Known, Moved
<1>4. runLock # s
    BY <1>1, NotHolder
<1> QED
    BY <1>1, <1>3, <1>4, MovedInv

LEMMA FlushInv ==
    ASSUME EditingAssumption, EditInv, NEW s \in Requests, Flush(s)
    PROVE  EditInv'
<1>1. CASE Fail(s)
    BY <1>1, FailInv
<1>2. CASE ~Fail(s)
    <2> DEFINE q == Moved(request[s], "flushed", request[s].run, NoCounts)
    <2>1. /\ request[s].pc = "patching"
          /\ request' = [request EXCEPT ![s] = q]
          /\ UNCHANGED <<rows, run, runLock, history, begun>>
        BY <1>2 DEF Flush, EditInv, Types
    <2>2. q \in Requested
        BY <2>1, AllFit DEF Fits, Moved, Requested, Pcs, NoCounts
    <2>3. Fits(q)
        <3>1. Of(s) \in Live /\ DOMAIN q.read = {Of(s)}
            BY <1>2, <2>1, AllFit, OfSingle DEF Flush, Fits, Moved, Single
        <3> QED
            BY <2>1, <2>2, <3>1, AllFit DEF Fits, Known, Moved
    <2>4. runLock # s
        BY <2>1, NotHolder
    <2> QED
        BY <2>1, <2>3, <2>4, MovedInv
<1> QED
    BY <1>1, <1>2

\* The flagged records of the table the PATCH sees are among the live ones.
LEMMA PatchedFlagged ==
    ASSUME EditInv, NEW s \in Requests, Single(s), Of(s) \in Live
    PROVE  FlaggedOf(Patched(s)) \subseteq Live
<1>1. \A r \in Records \ {Of(s)} : Patched(s)[r] = rows[r]
    BY DEF Patched, EditInv, Types
<1> QED
    BY <1>1 DEF FlaggedOf, Live

\* Between the two counts records may be deleted, never added.
LEMMA CountInv ==
    ASSUME EditingAssumption, EditInv, NEW s \in Requests, Count(s)
    PROVE  EditInv'
<1> DEFINE pc == IF request[s].pc = "flushed" THEN "totalled" ELSE "counted"
           q == Moved(request[s], pc, request[s].run, Counts(s))
<1>1. /\ request[s].pc \in {"flushed", "totalled"}
      /\ request' = [request EXCEPT ![s] = q]
      /\ UNCHANGED <<rows, run, runLock, history, begun>>
    BY DEF Count, EditInv, Types
<1>2. Fits(request[s]) /\ Single(s)
    BY <1>1, AllFit DEF Fits, Single
<1>3. FlaggedOf(Patched(s)) \subseteq Live /\ Live \subseteq Records
    BY <1>1, <1>2, OfSingle, PatchedFlagged DEF Fits, Live
<1>4. /\ Cardinality(Live) \in Nat /\ Cardinality(FlaggedOf(Patched(s))) \in Nat
      /\ Cardinality(FlaggedOf(Patched(s))) <= Cardinality(Live)
    BY <1>3, Counted
<1>5. /\ Counts(s) \in [total : Nat, flagged : Nat]
      /\ pc = "totalled" => Cardinality(Live) <= Counts(s).total
      /\ pc = "counted" => Counts(s).flagged <= Counts(s).total
    BY <1>1, <1>2, <1>4 DEF Counts, Fits, Requested
<1>6. q \in Requested
    BY <1>1, <1>2, <1>5 DEF Fits, Moved, Requested, Pcs
<1>7. Fits(q)
    BY <1>1, <1>2, <1>5, <1>6 DEF Fits, Known, Moved
<1>8. runLock # s
    BY <1>1, NotHolder
<1> QED
    BY <1>1, <1>7, <1>8, MovedInv

LEMMA ReviewLockInv ==
    ASSUME EditingAssumption, EditInv, NEW s \in Requests, ReviewLock(s)
    PROVE  EditInv'
<1> DEFINE q == Moved(request[s], "locked", request[s].run, NoCounts)
<1>1. /\ request[s].pc = "reviewing"
      /\ request' = [request EXCEPT ![s] = q]
      /\ UNCHANGED <<rows, run, history, begun>>
      /\ runLock' = runLock \/ runLock' = s
    BY DEF ReviewLock, EditInv, Types
<1>2. q \in Requested
    BY <1>1, AllFit DEF Fits, Moved, Requested, Pcs, NoCounts
<1>3. Fits(q)
    BY <1>1, <1>2, AllFit DEF Fits, Known, Moved
<1>4. runLock # s
    BY <1>1, NotHolder
<1> QED
    BY <1>1, <1>3, <1>4, MovedInv

-----------------------------------------------------------------------------
(* Commits                                                                 *)

\* A commit ends its request and marks what others had read of what it wrote.
LEMMA CommitShape ==
    ASSUME EditingAssumption, EditInv, NEW s \in Requests,
           NEW written \in SUBSET Records, Commit(s, written)
    PROVE  /\ request' \in [Requests -> Requested] /\ request'[s] = Idle
           /\ \A t \in Requests \ {s} : request'[t] = request[t]
           /\ runLock' \in Requests \cup {NoRequest} /\ LockOK'
           /\ raced \subseteq raced' /\ raced' \subseteq Records
           /\ \A t \in Requests \ {s} : \A r \in DOMAIN request[t].read :
                    r \in written => r \in raced'
           /\ overlapped' \in BOOLEAN /\ begun' \in 0..MaxRequests
<1>1. /\ request' \in [Requests -> Requested] /\ request'[s] = Idle
      /\ \A t \in Requests \ {s} : request'[t] = request[t]
    BY IdleTyped DEF Commit, EditInv, Types
<1>2. runLock' \in Requests \cup {NoRequest} /\ LockOK'
    BY <1>1 DEF Commit, EditInv, Types, LockOK, Released
<1>3. /\ raced \subseteq raced' /\ raced' \subseteq Records
      /\ begun' \in 0..MaxRequests
    BY DEF Commit, EditInv, Types
<1>4. overlapped' \in BOOLEAN
    BY DEF Commit
<1>5. ASSUME NEW t \in Requests \ {s}, NEW r \in DOMAIN request[t].read, r \in written
      PROVE  r \in raced'
    <2>1. t \in Active \ {s}
        BY <1>5 DEF Active, EditInv, ReadOK
    <2> QED
        BY <1>5, <2>1 DEF Commit
<1> QED
    BY <1>1, <1>2, <1>3, <1>4, <1>5

\* A commit that leaves the set of records alone keeps what the invariant says
\* of the requests, provided a change of mapping writes all that live.
LEMMA Committed ==
    ASSUME EditingAssumption, EditInv, NEW s \in Requests,
           NEW written \in SUBSET Records, Commit(s, written),
           rows' \in [Records -> Row], Live' = Live,
           \A r \in Records \ written : rows'[r] = rows[r],
           run' \in Run, CountersNonNegative',
           run'.strict = run.strict \/ Live \subseteq written,
           seen' \in [Records -> Values], stale' \in BOOLEAN,
           recast' \subseteq Records
    PROVE  Types' /\ LockOK' /\ ReadOK' /\ HeldOK' /\ CountOK' /\ FreshOK'
<1> USE CommitShape, IdleTyped
<1>1. Types' /\ LockOK'
    BY DEF Types
<1>2. ReadOK'
    BY DEF ReadOK, EditInv, Single, Reviewing
<1>3. HeldOK' /\ CountOK'
    BY DEF HeldOK, CountOK, EditInv
<1>4. FreshOK'
    <2> SUFFICES ASSUME NEW t \in Requests \ {s}, NEW r \in DOMAIN request[t].read,
                        r \in Live, r \notin raced'
                 PROVE  /\ Known(request[t], r)'
                        /\ request[t].pc \notin {"patch", "approve", "review"} =>
                                request[t].run.strict = run'.strict
        BY DEF FreshOK
    <2>1. r \notin written /\ r \notin raced /\ r \in Records
        BY DEF Live
    <2>2. rows'[r] = rows[r] /\ run'.strict = run.strict
        BY <2>1
    <2> QED
        BY <2>1, <2>2 DEF EditInv, FreshOK, Known
<1> QED
    BY <1>1, <1>2, <1>3, <1>4

\* An edit computes the flag under the mapping and from the row it read; if
\* nobody else wrote the row both are still the present ones.
LEMMA PatchCommitInv ==
    ASSUME EditingAssumption, EditInv, NEW s \in Requests, PatchCommit(s)
    PROVE  EditInv'
<1> DEFINE me == request[s]
           old == me.read[Of(s)]
           total == me.counts.total
           flagged == me.counts.flagged
<1>1. /\ me.pc = "counted" /\ rows' = Patched(s) /\ Commit(s, {Of(s)})
      /\ run' = RunWritten(s, me.run.strict, flagged, total)
      /\ stale' = FALSE /\ seen' = seen /\ recast' = recast \ {Of(s)}
    BY DEF PatchCommit
<1>2. Fits(me) /\ Single(s) /\ me \in Requested
    BY <1>1, AllFit DEF Fits, Single
<1>3. /\ Of(s) \in Records /\ Of(s) \in Live /\ DOMAIN me.read = {Of(s)}
      /\ old \in Row
    BY <1>1, <1>2, OfSingle, ReadTyped DEF Fits, Requested
<1> PICK made : made = me.made[Of(s)]
    OBVIOUS
<1>4. /\ made \in Values /\ me.run \in Run /\ me.run.strict \in BOOLEAN
      /\ total \in Nat /\ flagged \in Nat /\ flagged <= total
    BY <1>1, <1>2, <1>3, MadeTyped DEF Fits, Requested, Run
<1>5. /\ rows \in [Records -> Row] /\ run \in Run /\ CountersNonNegative
      /\ seen \in [Records -> Values] /\ recast \subseteq Records
    BY DEF EditInv, Types
<1>6. PICK issue \in BOOLEAN : issue = Issue(me.run.strict, made)
    BY <1>4 DEF Issue
<1>7. PICK k \in Records : k = Of(s)
    BY <1>3
<1>8. rows[k] \in Row /\ old \in Row /\ k \in Live
    BY <1>3, <1>5, <1>7
<1>9. PICK flag \in BOOLEAN, approval \in BOOLEAN :
        /\ flag = Column(issue, old.flagged, rows[k].flagged)
        /\ approval = Column(FALSE, old.approved, rows[k].approved)
    <2>1. /\ rows[k].flagged \in BOOLEAN /\ rows[k].approved \in BOOLEAN
          /\ FALSE \in BOOLEAN
        BY <1>8 DEF Row
    <2>2. Column(issue, old.flagged, rows[k].flagged) \in BOOLEAN
        BY <2>1, ColumnTyped, Zenon
    <2>3. Column(FALSE, old.approved, rows[k].approved) \in BOOLEAN
        BY <2>1, ColumnTyped, Zenon
    <2> QED
        BY <2>2, <2>3
<1>10. rows' = [rows EXCEPT ![k] = [live |-> TRUE, value |-> made,
                                    flagged |-> flag, approved |-> approval]]
    BY <1>1, <1>6, <1>7, <1>9 DEF Patched
<1>11. [live |-> TRUE, value |-> made, flagged |-> flag, approved |-> approval] \in Row
    BY <1>4 DEF Row
<1>12. /\ rows' \in [Records -> Row]
       /\ rows'[k].live /\ rows'[k].value = made
       /\ rows'[k].flagged = flag /\ rows'[k].approved = approval
       /\ \A r \in Records \ {k} : rows'[r] = rows[r]
    BY <1>5, <1>10, <1>11
<1>13. Live' = Live
    BY <1>8, <1>12 DEF Live
<1>14. run' \in Run /\ CountersNonNegative'
    BY <1>1, <1>4, <1>5, RunWrittenTyped DEF CountersNonNegative
<1>15. run'.strict = run.strict
    BY <1>1 DEF RunWritten, Column
<1>16. Types' /\ LockOK' /\ ReadOK' /\ HeldOK' /\ CountOK' /\ FreshOK'
    BY <1>1, <1>5, <1>7, <1>14, <1>15, <1>12, <1>13, Committed
<1>17. raced \subseteq raced'
    BY <1>1, <1>7, CommitShape
<1>18. k \notin raced => flag = issue /\ approval = FALSE /\ me.run.strict = run.strict
    <2> SUFFICES ASSUME k \notin raced
                 PROVE  flag = issue /\ approval = FALSE /\ me.run.strict = run.strict
        OBVIOUS
    <2>1. /\ old.flagged = rows[k].flagged /\ old.approved = rows[k].approved
          /\ me.run.strict = run.strict
        BY <1>1, <1>2, <1>3, <1>7 DEF Fits, Known
    <2>2. flag = issue
        BY <1>9, <2>1, Zenon DEF Column
    <2>3. approval = FALSE
        BY <1>9, <2>1, Zenon DEF Column
    <2> QED
        BY <2>1, <2>2, <2>3
<1>19. SeenOK'
    <2> SUFFICES ASSUME NEW r \in Live, r \notin raced', rows'[r].approved
                 PROVE  seen'[r] = rows'[r].value \/ r \in recast'
        BY <1>13 DEF SeenOK
    <2>1. r \in Records /\ r \notin raced
        BY <1>17 DEF Live
    <2>2. r # k
        BY <1>18, <1>12, <2>1
    <2>3. rows'[r] = rows[r]
        BY <1>12, <2>1, <2>2
    <2> QED
        BY <1>1, <1>7, <2>1, <2>2, <2>3 DEF SeenOK, EditInv
<1>20. FlagDescribesFields'
    <2> SUFFICES ASSUME NEW r \in Live, r \notin raced'
                 PROVE  /\ Issue(run.strict, rows'[r].value) => rows'[r].flagged
                        /\ rows'[r].flagged => \/ Issue(run.strict, rows'[r].value)
                                               \/ rows'[r].value \in Misread
        BY <1>15, <1>13 DEF FlagDescribesFields, Issue
    <2>1. r \in Records /\ r \notin raced
        BY <1>17 DEF Live
    <2>2. CASE r = k
        BY <1>6, <1>18, <1>12, <2>1, <2>2
    <2>3. CASE r # k
        <3>1. rows'[r] = rows[r]
            BY <1>12, <2>1, <2>3
        <3> QED
            BY <2>1, <3>1 DEF FlagDescribesFields, EditInv
    <2> QED
        BY <2>2, <2>3
<1> QED
    BY <1>14, <1>16, <1>19, <1>20 DEF EditInv

LEMMA ApproveInv ==
    ASSUME EditingAssumption, EditInv, NEW s \in Requests, Approve(s)
    PROVE  EditInv'
<1>1. CASE Fail(s)
    BY <1>1, FailInv
<1>2. CASE ~Fail(s)
    <2>1. request[s].pc = "approve" /\ Fits(request[s]) /\ Single(s)
        BY AllFit DEF Approve, Fits, Single
    <2>2. PICK k \in Records : k = Of(s) /\ DOMAIN request[s].read = {k}
        BY <2>1, OfSingle
    <2>3. /\ k \in Live
          /\ rows' = [rows EXCEPT ![k] = [live |-> TRUE, value |-> rows[k].value,
                                flagged |-> rows[k].flagged, approved |-> TRUE]]
          /\ seen' = [seen EXCEPT ![k] = request[s].read[k].value]
          /\ Commit(s, {k}) /\ UNCHANGED <<run, stale>> /\ recast' = recast \ {k}
        BY <1>2, <2>2 DEF Approve, EditInv, Types
    <2>4. rows \in [Records -> Row] /\ rows[k] \in Row /\ request[s].read[k] \in Row
        BY <2>1, <2>2, ReadTyped DEF EditInv, Types, Fits, Requested
    <2>5. PICK row \in Row : row = [live |-> TRUE, value |-> rows[k].value,
                                flagged |-> rows[k].flagged, approved |-> TRUE]
        BY <2>4 DEF Row
    <2>6. /\ rows' \in [Records -> Row]
          /\ rows'[k].live /\ rows'[k].value = rows[k].value
          /\ rows'[k].flagged = rows[k].flagged
          /\ \A r \in Records \ {k} : rows'[r] = rows[r]
        BY <2>3, <2>4, <2>5
    <2>7. Live' = Live
        BY <2>3, <2>6 DEF Live
    <2>8. seen' \in [Records -> Values] /\ stale' \in BOOLEAN /\ recast' \subseteq Records
        BY <2>3, <2>4 DEF EditInv, Types, Row
    <2>9. run' \in Run /\ CountersNonNegative' /\ run' = run
        BY <2>3 DEF EditInv, Types, CountersNonNegative
    <2>10. Types' /\ LockOK' /\ ReadOK' /\ HeldOK' /\ CountOK' /\ FreshOK'
        BY <2>3, <2>6, <2>7, <2>8, <2>9, Committed
    <2>11. raced \subseteq raced'
        BY <2>3, CommitShape
    <2>12. k \notin raced => seen'[k] = rows[k].value
        BY <2>1, <2>2, <2>3 DEF Fits, Known, EditInv, Types
    <2>13. SeenOK'
        <3> SUFFICES ASSUME NEW r \in Live, r \notin raced', rows'[r].approved
                     PROVE  seen'[r] = rows'[r].value \/ r \in recast'
            BY <2>7 DEF SeenOK
        <3>1. r \in Records /\ r \notin raced
            BY <2>11 DEF Live
        <3>2. CASE r = k
            BY <2>6, <2>12, <3>1, <3>2
        <3>3. CASE r # k
            BY <2>3, <2>6, <3>1, <3>3 DEF SeenOK, EditInv, Types
        <3> QED
            BY <3>2, <3>3
    <2>14. FlagDescribesFields'
        <3> SUFFICES ASSUME NEW r \in Live, r \notin raced'
                     PROVE  /\ Issue(run.strict, rows'[r].value) => rows'[r].flagged
                            /\ rows'[r].flagged => \/ Issue(run.strict, rows'[r].value)
                                                   \/ rows'[r].value \in Misread
            BY <2>7, <2>9 DEF FlagDescribesFields, Issue
        <3>1. r \in Records /\ r \notin raced
            BY <2>11 DEF Live
        <3>2. rows'[r].value = rows[r].value /\ rows'[r].flagged = rows[r].flagged
            BY <2>6, <3>1
        <3> QED
            BY <3>1, <3>2 DEF FlagDescribesFields, EditInv
    <2> QED
        BY <2>9, <2>10, <2>13, <2>14 DEF EditInv
<1> QED
    BY <1>1, <1>2

\* A review writes every record that lives, so a record nobody else has
\* written is flagged as the new mapping says.
LEMMA ReviewCommitInv ==
    ASSUME EditingAssumption, EditInv, NEW s \in Requests, ReviewCommit(s)
    PROVE  EditInv'
<1>1. CASE Fail(s)
    BY <1>1, FailInv
<1>2. CASE ~Fail(s)
    <2> DEFINE me == request[s]
    <2>1. PICK set : set = DOMAIN me.read
        OBVIOUS
    <2>2. PICK flagged : flagged = ReviewFlagged(s)
        OBVIOUS
    <2>3. me.pc = "locked" /\ Fits(me) /\ me \in Requested
        BY AllFit DEF ReviewCommit, Fits
    <2>4. /\ set \subseteq Live /\ run' = RunWritten(s, me.strict, Cardinality(flagged),
                                                     ReviewTotal(s))
          /\ Commit(s, set) /\ stale' = FALSE /\ seen' = seen
          /\ recast' = recast \cup {r \in set : rows[r].approved /\ me.made[r] # rows[r].value}
          /\ rows' = [r \in Records |->
                IF r \in set
                THEN [live |-> TRUE, value |-> me.made[r],
                      flagged |-> Column(r \in flagged,
                                         me.read[r].flagged, rows[r].flagged),
                      approved |-> rows[r].approved]
                ELSE rows[r]]
        BY <1>2, <2>1, <2>2 DEF ReviewCommit
    <2>5. /\ set = Live /\ set \in SUBSET Records /\ flagged \in SUBSET set
          /\ \A r \in set : me.read[r] \in Row /\ me.made[r] \in Values
        BY <2>1, <2>2, <2>3, <2>4, ReadTyped, MadeTyped DEF Fits, Requested, Live, ReviewFlagged
    <2>6. /\ rows \in [Records -> Row] /\ run \in Run /\ CountersNonNegative
          /\ seen \in [Records -> Values] /\ recast \subseteq Records
        BY DEF EditInv, Types
    <2>7. /\ Cardinality(flagged) \in Nat /\ ReviewTotal(s) \in Nat
          /\ Cardinality(flagged) <= ReviewTotal(s)
        BY <2>1, <2>5, Counted DEF ReviewTotal
    <2>8. me.strict \in BOOLEAN
        BY <2>3 DEF Requested
    <2>9. run' \in Run /\ CountersNonNegative'
        BY <2>4, <2>6, <2>7, <2>8, RunWrittenTyped DEF CountersNonNegative
    <2>10. ASSUME NEW r \in set
           PROVE  /\ rows'[r] \in Row /\ rows'[r].live
                  /\ rows'[r].value = me.made[r]
                  /\ rows'[r].approved = rows[r].approved
                  /\ rows'[r].flagged = Column(r \in flagged, me.read[r].flagged,
                                               rows[r].flagged)
        <3>1. /\ rows[r] \in Row /\ me.read[r] \in Row /\ r \in Records
              /\ me.made[r] \in Values
            BY <2>5, <2>6
        <3>2. rows[r].flagged \in BOOLEAN /\ (r \in flagged) \in BOOLEAN
            BY <3>1 DEF Row
        <3>3. PICK flag \in BOOLEAN :
                flag = Column(r \in flagged, me.read[r].flagged, rows[r].flagged)
            BY <3>2, ColumnTyped, Zenon
        <3>4. rows'[r] = [live |-> TRUE, value |-> me.made[r],
                          flagged |-> flag, approved |-> rows[r].approved]
            BY <2>4, <3>1, <3>3
        <3> QED
            BY <3>1, <3>3, <3>4 DEF Row
    <2>11. \A r \in Records \ set : rows'[r] = rows[r]
        BY <2>4
    <2>12. rows' \in [Records -> Row]
        <3>1. \A r \in Records : rows'[r] \in Row
            BY <2>6, <2>10, <2>11
        <3> QED
            BY <2>4, <3>1
    <2>13. Live' = Live
        BY <2>5, <2>10, <2>11 DEF Live
    <2>14. Types' /\ LockOK' /\ ReadOK' /\ HeldOK' /\ CountOK' /\ FreshOK'
        BY <2>4, <2>5, <2>6, <2>9, <2>11, <2>12, <2>13, Committed
    <2>15. raced \subseteq raced'
        BY <2>4, <2>5, CommitShape
    <2>16. ASSUME NEW r \in Live, r \notin raced
           PROVE  me.read[r].flagged = rows[r].flagged /\ me.run.strict = run.strict
        BY <2>1, <2>3, <2>5, <2>16 DEF Fits, Known
    <2>17. SeenOK'
        <3> SUFFICES ASSUME NEW r \in Live, r \notin raced', rows'[r].approved
                     PROVE  seen'[r] = rows'[r].value \/ r \in recast'
            BY <2>13 DEF SeenOK
        <3>1. r \notin raced /\ r \in set
            BY <2>5, <2>15
        <3>2. rows'[r].value = me.made[r] /\ rows[r].approved
            BY <2>10, <3>1
        <3>3. seen[r] = rows[r].value \/ r \in recast
            BY <3>1, <3>2 DEF SeenOK, EditInv
        <3> QED
            BY <2>4, <3>1, <3>2, <3>3
    <2>18. FlagDescribesFields'
        <3> SUFFICES ASSUME NEW r \in Live, r \notin raced'
                     PROVE  rows'[r].flagged <=> Issue(run'.strict, rows'[r].value)
            BY <2>13 DEF FlagDescribesFields, Issue
        <3>1. r \notin raced /\ r \in set
            BY <2>5, <2>15
        <3>2. me.read[r].flagged = rows[r].flagged /\ me.run.strict = run.strict
            BY <2>16, <3>1
        <3>3. run'.strict = me.strict
            BY <2>4, <3>2 DEF RunWritten, Column
        <3>4. rows'[r].value = me.made[r]
            BY <2>10, <3>1
        <3>5. rows'[r].flagged = (r \in flagged)
            <4>1. rows'[r].flagged = Column(r \in flagged, rows[r].flagged,
                                            rows[r].flagged)
                BY <2>10, <3>1, <3>2
            <4> QED
                BY <4>1, Zenon DEF Column
        <3>6. r \in flagged <=> Issue(me.strict, me.made[r])
            BY <2>1, <2>2, <3>1, <3>2 DEF ReviewFlagged, Issue
        <3> QED
            BY <3>3, <3>4, <3>5, <3>6 DEF Issue
    <2> QED
        BY <2>9, <2>14, <2>17, <2>18 DEF EditInv
<1> QED
    BY <1>1, <1>2

\* A deletion takes a record no edit holds; what others read of it is void.
LEMMA DeleteInv ==
    ASSUME EditingAssumption, EditInv, NEW d \in Records, Delete(d)
    PROVE  EditInv'
<1>1. /\ d \in Live /\ ~RowLocked(d)
      /\ rows' = [rows EXCEPT ![d] = Gone] /\ seen' = [seen EXCEPT ![d] = AnyValue]
      /\ recast' = recast \ {d} /\ raced' = raced \ {d} /\ stale' = TRUE
      /\ overlapped' = (overlapped \/ \E s \in Requests : Counting(s))
      /\ UNCHANGED <<run, request, runLock, begun>>
    BY DEF Delete
<1>2. /\ rows \in [Records -> Row] /\ rows' \in [Records -> Row]
      /\ \A r \in Records \ {d} : rows'[r] = rows[r] /\ seen'[r] = seen[r]
      /\ ~rows'[d].live /\ seen' \in [Records -> Values]
    BY <1>1, IdleTyped DEF EditInv, Types, Gone
<1>3. Live' = Live \ {d} /\ Live \in SUBSET Records /\ Live' \in SUBSET Live
    BY <1>1, <1>2 DEF Live
<1>4. /\ Cardinality(Live) \in Nat /\ Cardinality(Live') \in Nat
      /\ Cardinality(Live') <= Cardinality(Live)
    BY <1>3, Counted
<1>5. overlapped' \in BOOLEAN
    BY <1>1 DEF EditInv, Types
<1>6. Types'
    BY <1>1, <1>2, <1>5 DEF EditInv, Types
<1>7. LockOK' /\ CountersNonNegative'
    BY <1>1 DEF EditInv, LockOK, CountersNonNegative
<1>8. ReadOK'
    BY <1>1, <1>3 DEF EditInv, ReadOK, Single, Reviewing
<1>9. HeldOK'
    BY <1>1, <1>3 DEF EditInv, HeldOK, RowLocked
<1>10. CountOK'
    <2> SUFFICES ASSUME NEW s \in Requests
                 PROVE  /\ request[s].pc = "totalled" =>
                                Cardinality(Live') <= request[s].counts.total
                        /\ request[s].pc = "counted" =>
                                request[s].counts.flagged <= request[s].counts.total
        BY <1>1 DEF CountOK
    <2>1. request[s].counts.total \in Nat
        BY AllFit DEF Fits, Requested
    <2> QED
        BY <1>4, <2>1 DEF EditInv, CountOK
<1>11. FreshOK'
    BY <1>1, <1>2, <1>3 DEF EditInv, FreshOK, Known
<1>12. SeenOK' /\ FlagDescribesFields'
    BY <1>1, <1>2, <1>3 DEF EditInv, SeenOK, FlagDescribesFields, Issue
<1> QED
    BY <1>6, <1>7, <1>8, <1>9, <1>10, <1>11, <1>12 DEF EditInv

-----------------------------------------------------------------------------
(* The theorems                                                            *)

\* Every step keeps the invariant.
LEMMA NextInv ==
    ASSUME EditingAssumption, EditInv, Next
    PROVE  EditInv'
<1>1. ASSUME NEW s \in Requests, NEW r \in Records, ApproveRead(s, r)
      PROVE  EditInv'
    <2>1. [k \in {r} |-> rows[r].value] \in [{r} -> Values]
        BY DEF EditInv, Types, Row
    <2> QED
        BY <1>1, <2>1, BeginInv DEF ApproveRead
<1>2. ASSUME NEW s \in Requests, NEW r \in Records, NEW v \in Values, PatchRead(s, r, v)
      PROVE  EditInv'
    <2>1. [k \in {r} |-> v] \in [{r} -> Values]
        OBVIOUS
    <2> QED
        BY <1>2, <2>1, BeginInv DEF PatchRead
<1>3. ASSUME NEW s \in Requests, NEW made \in [Live -> Values], NEW strict \in BOOLEAN,
             ReviewRead(s, made, strict)
      PROVE  EditInv'
    <2>1. Live \in SUBSET Records
        BY DEF Live
    <2> QED
        BY <1>3, <2>1, BeginInv DEF ReviewRead
<1>4. ASSUME NEW s \in Requests, Refuse(s)
      PROVE  EditInv'
    BY <1>4, FailInv DEF Refuse
<1>5. ASSUME NEW s \in Requests, NEW t \in Requests, DeadlockAborts(s, t)
      PROVE  EditInv'
    BY <1>5, FailInv DEF DeadlockAborts
<1>6. ASSUME NEW s \in Requests, Step(s)
      PROVE  EditInv'
    BY <1>5, <1>6, LoadRunInv, FlushInv, CountInv, PatchCommitInv, ApproveInv,
       ReviewLockInv, ReviewCommitInv DEF Step
<1>7. ASSUME NEW r \in Records, Delete(r)
      PROVE  EditInv'
    BY <1>7, DeleteInv
<1> QED
    BY <1>1, <1>2, <1>3, <1>4, <1>6, <1>7 DEF Next

\* A step that changes no variable keeps the invariant.
LEMMA StutterInv ==
    ASSUME EditInv, UNCHANGED vars
    PROVE  EditInv'
<1>1. UNCHANGED <<rows, run, request, runLock, seen, recast, raced, overlapped, stale,
                  begun>>
    BY DEF vars
<1>2. Live' = Live
    BY <1>1 DEF Live
<1> QED
    BY <1>1, <1>2 DEF EditInv, Types, LockOK, ReadOK, HeldOK, CountOK, FreshOK, Known, SeenOK,
       CountersNonNegative, FlagDescribesFields, Single, Reviewing, Issue

\* The invariant holds in every state of every behaviour: the requests of
\* main.py may interleave as they like.
THEOREM EditInvariant == Spec => []EditInv
<1>1. Init => EditInv
    BY InitInv, EditingAssumption
<1>2. EditInv /\ [Next]_vars => EditInv'
    BY NextInv, StutterInv, EditingAssumption
<1> QED
    BY <1>1, <1>2, PTL DEF Spec

\* Rows, run and requests keep their types, and the run's lock its holder.
THEOREM EditTypes == Spec => []TypeOK
<1>1. EditInv => TypeOK
    <2> SUFFICES ASSUME EditInv PROVE TypeOK
        OBVIOUS
    <2>1. ASSUME NEW s \in Requests
          PROVE  /\ request[s].pc \in Pcs
                 /\ DOMAIN request[s].read \subseteq Records
                 /\ request[s].pc \notin {"idle", "review", "reviewing", "locked"} =>
                        Cardinality(DOMAIN request[s].read) = 1
        <3>1. Fits(request[s])
            BY AllFit
        <3>2. \A r \in Records : Cardinality({r}) = 1
            BY FS_Singleton
        <3> QED
            BY <3>1, <3>2, ReadTyped DEF Fits, Requested
    <2> QED
        BY <2>1 DEF EditInv, Types, LockOK, TypeOK
<1> QED
    BY <1>1, EditInvariant, PTL

\* rows_flagged and rows_clean are never negative, although PATCH takes the
\* two counts they come from in two statements (main.py, update_record_fields).
THEOREM CountersStayNonNegative == Spec => []CountersNonNegative
<1>1. EditInv => CountersNonNegative
    BY DEF EditInv
<1> QED
    BY <1>1, EditInvariant, PTL

\* has_issues describes the fields of every record that no two requests have
\* written at the same time.
THEOREM FlagsDescribeFields == Spec => []FlagDescribesFields
<1>1. EditInv => FlagDescribesFields
    BY DEF EditInv
<1> QED
    BY <1>1, EditInvariant, PTL

\* What the gate lets out is valid, or an approver saw these fields, or those
\* that only mapping reviews have rewritten since, which leave approved_at.
THEOREM ReadyWasReviewed == Spec => []ReadyIsReviewed
<1>1. EditInv => ReadyIsReviewed
    BY DEF EditInv, FlagDescribesFields, SeenOK, ReadyIsReviewed, Ready
<1> QED
    BY <1>1, EditInvariant, PTL

-----------------------------------------------------------------------------
(* The counters.  Until two requests that count overlap, or one and a      *)
(* delete, a request that counts works alone: what it read, but for the    *)
(* approvals, is what the tables hold.                                     *)

\* The flagged records once the PATCH s is committed.
FlaggedAfter(s) ==
    {r \in Live : \/ r \in DOMAIN request[s].read
                     /\ Issue(request[s].run.strict, request[s].made[r])
                  \/ r \notin DOMAIN request[s].read /\ rows[r].flagged}

Alone(s) ==
    Counting(s) =>
        /\ \A r \in DOMAIN request[s].read :
                /\ r \in Live
                /\ request[s].read[r].flagged = rows[r].flagged
        /\ request[s].pc \notin {"patch", "review"} => request[s].run = run
        /\ request[s].pc \in {"totalled", "counted"} =>
                request[s].counts.total = Cardinality(Live)
        /\ request[s].pc = "counted" =>
                request[s].counts.flagged = Cardinality(FlaggedAfter(s))

Exact == /\ run.flagged = Cardinality(FlaggedOf(rows))
         /\ run.clean = Cardinality(Live) - run.flagged

CountersInv == /\ EditInv
               /\ ~overlapped => \A s \in Requests : Alone(s)
               /\ ~overlapped /\ ~stale => Exact

LEMMA CountersInit ==
    ASSUME EditingAssumption, Init
    PROVE  CountersInv
<1>1. PICK strict \in BOOLEAN, value \in [Records -> Values] :
        LET bad == {r \in Records : Issue(strict, value[r]) \/ value[r] \in Misread} IN
        /\ rows = [r \in Records |-> [live |-> TRUE, value |-> value[r],
                                      flagged |-> r \in bad, approved |-> FALSE]]
        /\ run = [strict |-> strict, flagged |-> Cardinality(bad),
                  clean |-> Cardinality(Records \ bad)]
    BY DEF Init
<1>2. PICK bad \in SUBSET Records :
        bad = {r \in Records : Issue(strict, value[r]) \/ value[r] \in Misread}
    OBVIOUS
<1>3. \A r \in Records : rows[r].live /\ rows[r].flagged = (r \in bad)
    BY <1>1, <1>2
<1>4. Live = Records /\ FlaggedOf(rows) = bad
    BY <1>3 DEF Live, FlaggedOf
<1>5. Cardinality(Records \ bad) = Cardinality(Records) - Cardinality(bad)
    <2>1. Records \cap bad = bad
        OBVIOUS
    <2> QED
        BY <2>1, FS_Difference DEF EditingAssumption
<1>6. Exact
    BY <1>1, <1>2, <1>4, <1>5 DEF Exact
<1>7. \A s \in Requests : Alone(s)
    BY IdleTyped DEF Init, Alone, Counting
<1> QED
    BY <1>6, <1>7, InitInv DEF CountersInv

\* A request that changes what it holds and nothing of the tables.
LEMMA OwnCounters ==
    ASSUME CountersInv, EditInv', NEW s \in Requests, NEW q,
           request' = [request EXCEPT ![s] = q],
           UNCHANGED <<rows, run, history>>,
           ~overlapped => Alone(s)'
    PROVE  CountersInv'
<1>1. /\ request'[s] = q
      /\ \A t \in Requests \ {s} : request'[t] = request[t]
    BY DEF CountersInv, EditInv, Types
<1>2. UNCHANGED <<rows, run, overlapped, stale>> /\ Live' = Live
    BY DEF history, Live
<1>3. ~overlapped => \A t \in Requests : Alone(t)'
    <2> SUFFICES ASSUME ~overlapped, NEW t \in Requests \ {s} PROVE Alone(t)'
        OBVIOUS
    <2>1. Alone(t) /\ request'[t] = request[t]
        BY <1>1 DEF CountersInv
    <2>2. FlaggedAfter(t)' = FlaggedAfter(t)
        BY <1>2, <2>1 DEF FlaggedAfter, Issue
    <2> QED
        BY <1>2, <2>1, <2>2 DEF Alone, Counting
<1>4. Exact' = Exact
    BY <1>2 DEF Exact, FlaggedOf
<1> QED
    BY <1>2, <1>3, <1>4 DEF CountersInv

LEMMA FailCounters ==
    ASSUME EditingAssumption, CountersInv, EditInv', NEW s \in Requests, Fail(s)
    PROVE  CountersInv'
<1>1. request' = [request EXCEPT ![s] = Idle] /\ UNCHANGED <<rows, run, history>>
    BY DEF Fail
<1>2. request'[s].pc = "idle"
    BY <1>1, IdleTyped DEF CountersInv, EditInv, Types
<1>3. Alone(s)'
    BY <1>2 DEF Alone, Counting
<1> QED
    BY <1>1, <1>3, OwnCounters

LEMMA BeginCounters ==
    ASSUME CountersInv, EditInv', NEW s \in Requests, NEW pc \in {"patch", "approve", "review"},
           NEW set \in SUBSET Records, NEW made, NEW strict,
           Begin(s, pc, set, made, strict)
    PROVE  CountersInv'
<1> DEFINE q == [pc |-> pc, read |-> [r \in set |-> Loaded(pc, rows[r])], run |-> AnyRun,
                 made |-> made, strict |-> strict, counts |-> NoCounts]
<1>1. /\ request' = [request EXCEPT ![s] = q] /\ UNCHANGED <<rows, run, history>>
      /\ set \subseteq Live
    BY DEF Begin
<1>2. request'[s] = q
    BY <1>1 DEF CountersInv, EditInv, Types
<1>3. Live' = Live
    BY <1>1 DEF Live
<1>4. DOMAIN q.read = set /\ \A r \in set : q.read[r].flagged = rows[r].flagged
    BY DEF Loaded
<1>5. q.pc = pc
    OBVIOUS
<1> HIDE DEF q
<1>6. \A r \in DOMAIN q.read :
            r \in Live' /\ q.read[r].flagged = rows'[r].flagged
    BY <1>1, <1>3, <1>4
<1>7. q.pc \in {"patch", "approve", "review"} /\ (q.pc = "approve" => ~Counting(s)')
    BY <1>2, <1>5 DEF Counting
<1>8. Alone(s)'
    BY <1>2, <1>6, <1>7 DEF Alone
<1> QED
    BY <1>1, <1>8, OwnCounters

\* What a request that moves on still knows.
LEMMA MovedCounters ==
    ASSUME CountersInv, EditInv', NEW s \in Requests, NEW pc, NEW loaded, NEW counts,
           Counting(s),
           request' = [request EXCEPT ![s] = Moved(request[s], pc, loaded, counts)],
           UNCHANGED <<rows, run, history>>,
           ~overlapped =>
                /\ pc \notin {"patch", "review"} => loaded = run
                /\ pc \in {"totalled", "counted"} => counts.total = Cardinality(Live)
                /\ pc = "counted" => counts.flagged = Cardinality(FlaggedAfter(s)')
    PROVE  CountersInv'
<1> DEFINE q == Moved(request[s], pc, loaded, counts)
<1>1. request'[s] = q
    BY DEF CountersInv, EditInv, Types
<1>2. /\ q.pc = pc /\ q.read = request[s].read /\ q.run = loaded
      /\ q.counts = counts
    BY DEF Moved
<1>3. Live' = Live /\ UNCHANGED <<rows, run>>
    BY DEF Live
<1>4. ~overlapped => Alone(s)'
    <2> SUFFICES ASSUME ~overlapped PROVE Alone(s)'
        OBVIOUS
    <2>1. Alone(s)
        BY DEF CountersInv
    <2>2. \A r \in DOMAIN q.read :
                r \in Live' /\ q.read[r].flagged = rows'[r].flagged
        BY <1>2, <1>3, <2>1 DEF Alone
    <2>3. q.pc \notin {"patch", "review"} => q.run = run'
        BY <1>2, <1>3
    <2>4. q.pc \in {"totalled", "counted"} => q.counts.total = Cardinality(Live')
        BY <1>2, <1>3
    <2>5. q.pc = "counted" => q.counts.flagged = Cardinality(FlaggedAfter(s)')
        BY <1>2
    <2> HIDE DEF q
    <2> QED
        BY <1>1, <2>2, <2>3, <2>4, <2>5 DEF Alone
<1> HIDE DEF q
<1> QED
    BY <1>4, OwnCounters DEF q

LEMMA LoadRunCounters ==
    ASSUME CountersInv, EditInv', NEW s \in Requests, LoadRun(s)
    PROVE  CountersInv'
<1>1. request[s].pc \in {"patch", "review"}
    BY DEF LoadRun
<1>2. PICK pc \in {"patching", "reviewing"} :
            request' = [request EXCEPT ![s] = Moved(request[s], pc, run, NoCounts)]
    BY <1>1 DEF LoadRun, CountersInv, EditInv, Types
<1>3. UNCHANGED <<rows, run, history>> /\ Counting(s)
    BY <1>1 DEF LoadRun, Counting
<1> QED
    BY <1>2, <1>3, MovedCounters

LEMMA FlushCounters ==
    ASSUME EditingAssumption, CountersInv, EditInv', NEW s \in Requests, Flush(s)
    PROVE  CountersInv'
<1>1. CASE Fail(s)
    BY <1>1, FailCounters
<1>2. CASE ~Fail(s)
    <2>1. /\ request[s].pc = "patching" /\ UNCHANGED <<rows, run, history>>
          /\ request' = [request EXCEPT ![s] =
                            Moved(request[s], "flushed", request[s].run, NoCounts)]
        BY <1>2 DEF Flush, CountersInv, EditInv, Types
    <2>2. Counting(s) /\ (~overlapped => request[s].run = run)
        BY <2>1 DEF CountersInv, Alone, Counting
    <2> QED
        BY <2>1, <2>2, MovedCounters
<1> QED
    BY <1>1, <1>2

LEMMA ReviewLockCounters ==
    ASSUME CountersInv, EditInv', NEW s \in Requests, ReviewLock(s)
    PROVE  CountersInv'
<1>1. /\ request[s].pc = "reviewing" /\ UNCHANGED <<rows, run, history>>
      /\ request' = [request EXCEPT ![s] =
                        Moved(request[s], "locked", request[s].run, NoCounts)]
    BY DEF ReviewLock, CountersInv, EditInv, Types
<1>2. Counting(s) /\ (~overlapped => request[s].run = run)
    BY <1>1 DEF CountersInv, Alone, Counting
<1> QED
    BY <1>1, <1>2, MovedCounters

\* The table as a PATCH that works alone sees it.
LEMMA PatchedTable ==
    ASSUME EditInv, NEW s \in Requests, Alone(s),
           request[s].pc \in {"flushed", "totalled", "counted"}
    PROVE  /\ FlaggedOf(Patched(s)) = FlaggedAfter(s)
           /\ {r \in Records : Patched(s)[r].live} = Live
<1>1. Fits(request[s]) /\ Single(s)
    BY AllFit DEF Fits, Single
<1>2. PICK k \in Records : k = Of(s) /\ DOMAIN request[s].read = {k}
    BY <1>1, OfSingle
<1>3. k \in Live /\ request[s].read[k].flagged = rows[k].flagged
    BY <1>2 DEF Alone, Counting
<1>4. PICK issue \in BOOLEAN : issue = Issue(request[s].run.strict, request[s].made[k])
    <2>1. request[s].run.strict \in BOOLEAN
        BY <1>1 DEF Fits, Requested, Run
    <2> QED
        BY <2>1 DEF Issue
<1>5. PICK flag : flag = Column(issue, request[s].read[k].flagged, rows[k].flagged)
    OBVIOUS
<1>6. flag = issue
    BY <1>3, <1>5, Zenon DEF Column
<1>7. PICK approval :
        approval = Column(FALSE, request[s].read[k].approved, rows[k].approved)
    OBVIOUS
<1>8. Patched(s) = [rows EXCEPT ![k] = [live |-> TRUE, value |-> request[s].made[k],
                                        flagged |-> flag, approved |-> approval]]
    BY <1>2, <1>4, <1>5, <1>7 DEF Patched
<1>9. /\ Patched(s)[k].live /\ Patched(s)[k].flagged = flag
      /\ \A r \in Records \ {k} : Patched(s)[r] = rows[r]
    BY <1>8 DEF EditInv, Types
<1>10. {r \in Records : Patched(s)[r].live} = Live
    BY <1>3, <1>9 DEF Live
<1>11. FlaggedOf(Patched(s)) = FlaggedAfter(s)
    <2>1. ASSUME NEW r \in Records
          PROVE  r \in FlaggedOf(Patched(s)) <=> r \in FlaggedAfter(s)
        <3>1. CASE r = k
            BY <1>2, <1>3, <1>4, <1>6, <1>9, <3>1 DEF FlaggedOf, FlaggedAfter
        <3>2. CASE r # k
            BY <1>2, <1>9, <3>2 DEF FlaggedOf, FlaggedAfter, Live
        <3> QED
            BY <3>1, <3>2
    <2>2. FlaggedOf(Patched(s)) \subseteq Records /\ FlaggedAfter(s) \subseteq Records
        BY DEF FlaggedOf, FlaggedAfter, Live
    <2> QED
        BY <2>1, <2>2
<1> QED
    BY <1>10, <1>11

LEMMA CountCounters ==
    ASSUME CountersInv, EditInv', NEW s \in Requests, Count(s)
    PROVE  CountersInv'
<1>1. request[s].pc \in {"flushed", "totalled"} /\ UNCHANGED <<rows, run, history>>
    BY DEF Count
<1> PICK counts : counts = Counts(s)
    OBVIOUS
<1>2. PICK pc \in {"totalled", "counted"} :
        /\ pc = IF request[s].pc = "flushed" THEN "totalled" ELSE "counted"
        /\ counts = Counts(s)
        /\ request' = [request EXCEPT ![s] = Moved(request[s], pc, request[s].run, counts)]
    BY <1>1 DEF Count, CountersInv, EditInv, Types
<1>3. Counting(s)
    BY <1>1 DEF Counting
<1>4. ASSUME ~overlapped
      PROVE  /\ request[s].run = run
             /\ counts.total = Cardinality(Live)
             /\ pc = "counted" => counts.flagged = Cardinality(FlaggedAfter(s)')
    <2>1. Alone(s)
        BY <1>4 DEF CountersInv
    <2>2. request[s].run = run
          /\ (request[s].pc = "totalled" => request[s].counts.total = Cardinality(Live))
        BY <1>1, <1>3, <2>1 DEF Alone
    <2>3. FlaggedAfter(s)' = FlaggedAfter(s)
        <3>1. request'[s] = Moved(request[s], pc, request[s].run, counts)
            BY <1>2 DEF CountersInv, EditInv, Types
        <3>2. /\ request'[s].read = request[s].read /\ request'[s].run = request[s].run
              /\ request'[s].made = request[s].made
            BY <3>1 DEF Moved
        <3>3. Live' = Live
            BY <1>1 DEF Live
        <3> QED
            BY <1>1, <3>2, <3>3 DEF FlaggedAfter, Issue
    <2>4. FlaggedOf(Patched(s)) = FlaggedAfter(s)
        BY <1>1, <2>1, PatchedTable DEF CountersInv
    <2> QED
        BY <1>1, <1>2, <2>2, <2>3, <2>4 DEF Counts
<1> QED
    BY <1>1, <1>2, <1>3, <1>4, MovedCounters

\* A commit of a request that counts is made alone, or overlapped is set.
LEMMA CommitAlone ==
    ASSUME EditingAssumption, EditInv, NEW s \in Requests, Counting(s),
           NEW written \in SUBSET Records, Commit(s, written), ~overlapped'
    PROVE  ~overlapped /\ \A t \in Requests : Alone(t)'
<1>1. ~overlapped /\ \A t \in Requests \ {s} : ~Counting(t)
    BY DEF Commit
<1>2. \A t \in Requests : request'[t].pc = "idle" \/ (t # s /\ request'[t] = request[t])
    BY CommitShape, IdleTyped
<1> QED
    BY <1>1, <1>2 DEF Alone, Counting

\* Alone, the run's UPDATE writes what was computed.
LEMMA RunWrittenAlone ==
    ASSUME NEW s \in Requests, request[s].run = run,
           NEW strict, NEW flagged, NEW total
    PROVE  /\ RunWritten(s, strict, flagged, total).flagged = flagged
           /\ RunWritten(s, strict, flagged, total).clean = total - flagged
    BY DEF RunWritten, Column

LEMMA PatchCommitCounters ==
    ASSUME EditingAssumption, CountersInv, EditInv', NEW s \in Requests, PatchCommit(s)
    PROVE  CountersInv'
<1>1. /\ request[s].pc = "counted" /\ rows' = Patched(s) /\ Commit(s, {Of(s)})
      /\ run' = RunWritten(s, request[s].run.strict, request[s].counts.flagged,
                           request[s].counts.total)
    BY DEF PatchCommit
<1>2. Counting(s) /\ {Of(s)} \in SUBSET Records
    BY <1>1, AllFit, OfSingle DEF Counting, CountersInv, Fits, Single
<1>3. ASSUME ~overlapped' PROVE Exact' /\ \A t \in Requests : Alone(t)'
    <2>1. ~overlapped /\ \A t \in Requests : Alone(t)'
        BY <1>1, <1>2, <1>3, CommitAlone DEF CountersInv
    <2>2. Alone(s)
        BY <2>1 DEF CountersInv
    <2>3. /\ request[s].run = run
          /\ request[s].counts.total = Cardinality(Live)
          /\ request[s].counts.flagged = Cardinality(FlaggedAfter(s))
        BY <1>1, <1>2, <2>2 DEF Alone
    <2>4. FlaggedOf(Patched(s)) = FlaggedAfter(s)
          /\ {r \in Records : Patched(s)[r].live} = Live
        BY <1>1, <2>2, PatchedTable DEF CountersInv
    <2>5. FlaggedOf(rows)' = FlaggedAfter(s) /\ Live' = Live
        BY <1>1, <2>4 DEF FlaggedOf, Live
    <2>6. /\ run'.flagged = request[s].counts.flagged
          /\ run'.clean = request[s].counts.total - request[s].counts.flagged
        BY <1>1, <2>3, RunWrittenAlone
    <2>7. Exact'
        BY <2>3, <2>5, <2>6 DEF Exact
    <2> QED
        BY <2>1, <2>7
<1> QED
    BY <1>3 DEF CountersInv

LEMMA ReviewCommitCounters ==
    ASSUME EditingAssumption, CountersInv, EditInv', NEW s \in Requests, ReviewCommit(s)
    PROVE  CountersInv'
<1>1. CASE Fail(s)
    BY <1>1, FailCounters
<1>2. CASE ~Fail(s)
    <2>1. PICK set : set = DOMAIN request[s].read
        OBVIOUS
    <2>2. PICK flagged : flagged = ReviewFlagged(s)
        OBVIOUS
    <2>3. /\ set \subseteq Live /\ Commit(s, set)
          /\ run' = RunWritten(s, request[s].strict, Cardinality(flagged), ReviewTotal(s))
          /\ rows' = [r \in Records |->
                IF r \in set
                THEN [live |-> TRUE, value |-> request[s].made[r],
                      flagged |-> Column(r \in flagged, request[s].read[r].flagged,
                                         rows[r].flagged),
                      approved |-> rows[r].approved]
                ELSE rows[r]]
          /\ request[s].pc = "locked"
        BY <1>2, <2>1, <2>2 DEF ReviewCommit
    <2>4. set = Live /\ set \in SUBSET Records /\ flagged \in SUBSET set
        BY <2>1, <2>2, <2>3, AllFit DEF CountersInv, Fits, Live, ReviewFlagged
    <2>5. Counting(s)
        BY <2>3 DEF Counting
    <2>6. ASSUME ~overlapped' PROVE Exact' /\ \A t \in Requests : Alone(t)'
        <3>1. ~overlapped /\ \A t \in Requests : Alone(t)'
            BY <2>3, <2>4, <2>5, <2>6, CommitAlone DEF CountersInv
        <3>2. Alone(s)
            BY <3>1 DEF CountersInv
        <3>3. /\ request[s].run = run
              /\ \A r \in set : request[s].read[r].flagged = rows[r].flagged
            BY <2>1, <2>3, <2>5, <3>2 DEF Alone
        <3>4. ASSUME NEW r \in Records
              PROVE  /\ rows'[r].live <=> rows[r].live
                     /\ rows'[r].live /\ rows'[r].flagged <=> r \in flagged
            <4>1. CASE r \in set
                <5>1. PICK flag : flag = Column(r \in flagged, request[s].read[r].flagged,
                                                rows[r].flagged)
                    OBVIOUS
                <5>2. flag = (r \in flagged)
                    BY <3>3, <4>1, <5>1, Zenon DEF Column
                <5>3. rows'[r].live /\ rows'[r].flagged = flag
                    BY <2>3, <4>1, <5>1
                <5> QED
                    BY <2>4, <4>1, <5>2, <5>3 DEF Live
            <4>2. CASE r \notin set
                BY <2>3, <2>4, <4>2 DEF Live
            <4> QED
                BY <4>1, <4>2
        <3>5. FlaggedOf(rows)' = flagged /\ Live' = Live
            BY <2>4, <3>4 DEF FlaggedOf, Live
        <3>6. /\ run'.flagged = Cardinality(flagged)
              /\ run'.clean = ReviewTotal(s) - Cardinality(flagged)
            BY <2>3, <3>3, RunWrittenAlone
        <3>7. Exact'
            BY <2>1, <2>4, <3>5, <3>6 DEF Exact, ReviewTotal
        <3> QED
            BY <3>1, <3>7
    <2> QED
        BY <2>6 DEF CountersInv
<1> QED
    BY <1>1, <1>2

\* An approval changes no flag, and what the others read of flags stays true.
LEMMA ApproveCounters ==
    ASSUME EditingAssumption, CountersInv, EditInv', NEW s \in Requests, Approve(s)
    PROVE  CountersInv'
<1>1. CASE Fail(s)
    BY <1>1, FailCounters
<1>2. CASE ~Fail(s)
    <2>1. PICK k \in Records : k = Of(s)
        BY AllFit, OfSingle DEF Approve, CountersInv, Fits, Single
    <2>2. /\ request[s].pc = "approve" /\ k \in Live
          /\ rows' = [rows EXCEPT ![k] = [live |-> TRUE, value |-> rows[k].value,
                                flagged |-> rows[k].flagged, approved |-> TRUE]]
          /\ Commit(s, {k}) /\ UNCHANGED <<run, stale>>
        BY <1>2, <2>1 DEF Approve, CountersInv, EditInv, Types
    <2>3. \A r \in Records : rows'[r].live = rows[r].live /\ rows'[r].flagged = rows[r].flagged
        BY <2>2 DEF CountersInv, EditInv, Types, Live, Row
    <2>4. Live' = Live /\ FlaggedOf(rows)' = FlaggedOf(rows)
        BY <2>3 DEF Live, FlaggedOf
    <2>5. overlapped' = overlapped
        <3>1. ~Counting(s) /\ overlapped \in BOOLEAN
            BY <2>2 DEF Counting, CountersInv, EditInv, Types
        <3> QED
            BY <2>2, <3>1 DEF Commit
    <2>6. ASSUME ~overlapped, NEW t \in Requests PROVE Alone(t)'
        <3>1. CASE t = s
            BY <2>2, <3>1, CommitShape, IdleTyped DEF Alone, Counting, CountersInv
        <3>2. CASE t # s
            <4>1. request'[t] = request[t] /\ Alone(t) /\ DOMAIN request[t].read \subseteq Records
                BY <2>2, <2>6, <3>2, CommitShape, AllFit, ReadTyped
                DEF CountersInv, Fits, Requested
            <4>2. FlaggedAfter(t)' = FlaggedAfter(t)
                <5>1. Live \subseteq Records
                    BY DEF Live
                <5> QED
                    BY <2>3, <2>4, <4>1, <5>1 DEF FlaggedAfter, Issue
            <4> QED
                BY <2>2, <2>3, <2>4, <4>1, <4>2 DEF Alone, Counting
        <3> QED
            BY <3>1, <3>2
    <2>7. Exact' = Exact
        BY <2>2, <2>4 DEF Exact
    <2> QED
        BY <2>2, <2>5, <2>6, <2>7 DEF CountersInv
<1> QED
    BY <1>1, <1>2

LEMMA DeleteCounters ==
    ASSUME CountersInv, EditInv', NEW d \in Records, Delete(d)
    PROVE  CountersInv'
<1>1. stale' = TRUE /\ request' = request
      /\ overlapped' = (overlapped \/ \E s \in Requests : Counting(s))
    BY DEF Delete
<1>2. ~overlapped' => \A s \in Requests : Alone(s)'
    BY <1>1 DEF Alone, Counting
<1> QED
    BY <1>1, <1>2 DEF CountersInv

LEMMA CountersNext ==
    ASSUME EditingAssumption, CountersInv, [Next]_vars
    PROVE  CountersInv'
<1>0. EditInv'
    BY NextInv, StutterInv DEF CountersInv
<1>1. ASSUME NEW s \in Requests, NEW r \in Records, ApproveRead(s, r)
      PROVE  CountersInv'
    BY <1>0, <1>1, BeginCounters DEF ApproveRead
<1>2. ASSUME NEW s \in Requests, NEW r \in Records, NEW v \in Values, PatchRead(s, r, v)
      PROVE  CountersInv'
    BY <1>0, <1>2, BeginCounters DEF PatchRead
<1>3. ASSUME NEW s \in Requests, NEW made \in [Live -> Values], NEW strict \in BOOLEAN,
             ReviewRead(s, made, strict)
      PROVE  CountersInv'
    <2>1. Live \in SUBSET Records
        BY DEF Live
    <2> QED
        BY <1>0, <1>3, <2>1, BeginCounters DEF ReviewRead
<1>4. ASSUME NEW s \in Requests, Refuse(s) \/ \E t \in Requests : DeadlockAborts(s, t)
      PROVE  CountersInv'
    BY <1>0, <1>4, FailCounters DEF Refuse, DeadlockAborts
<1>5. ASSUME NEW s \in Requests, Step(s)
      PROVE  CountersInv'
    BY <1>0, <1>4, <1>5, LoadRunCounters, FlushCounters, CountCounters, PatchCommitCounters,
       ApproveCounters, ReviewLockCounters, ReviewCommitCounters DEF Step
<1>6. ASSUME NEW r \in Records, Delete(r)
      PROVE  CountersInv'
    BY <1>0, <1>6, DeleteCounters
<1>7. CASE UNCHANGED vars
    <2>1. UNCHANGED <<rows, run, request, overlapped, stale>> /\ Live' = Live
        BY <1>7 DEF vars, Live
    <2>2. \A s \in Requests : FlaggedAfter(s)' = FlaggedAfter(s)
        BY <2>1 DEF FlaggedAfter, Issue
    <2>3. \A s \in Requests : Alone(s)' <=> Alone(s)
        BY <2>1, <2>2 DEF Alone, Counting
    <2>4. Exact' = Exact
        BY <2>1 DEF Exact, FlaggedOf
    <2> QED
        BY <1>0, <2>1, <2>3, <2>4 DEF CountersInv
<1> QED
    BY <1>1, <1>2, <1>3, <1>4, <1>5, <1>6, <1>7 DEF Next

\* Edits, reviews, approvals and deletions keep what a request that counts
\* knows, as long as it counts alone.
THEOREM CountersInvariant == Spec => []CountersInv
<1>1. Init => CountersInv
    BY CountersInit, EditingAssumption
<1>2. CountersInv /\ [Next]_vars => CountersInv'
    BY CountersNext, EditingAssumption
<1> QED
    BY <1>1, <1>2, PTL DEF Spec

\* rows_flagged and rows_clean are the numbers of flagged and other records of
\* the run, whatever approvals overlap the edits and reviews that count, until
\* two of these overlap or a record is deleted.
THEOREM CountersAreExact == Spec => []CountersDescribeRun
<1>1. CountersInv => CountersDescribeRun
    BY DEF CountersInv, Exact, CountersDescribeRun
<1> QED
    BY <1>1, CountersInvariant, PTL
=============================================================================
