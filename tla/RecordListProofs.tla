--------------------------- MODULE RecordListProofs ---------------------------
(***************************************************************************)
(* Proofs about RecordList for any finite set of records, any uploads, any *)
(* page size, any number of calls of load() in flight and any bound.       *)
(* ListInv adds to GoneStaysGone what it rests on: a deleted record never  *)
(* comes back, and what the page and its requests hold was stored once.    *)
(* WholeInv adds what QuietListingIsWhole rests on: what a load has read is *)
(* what every answer begins with.  The proofs about ColumnMapping follow.  *)
(***************************************************************************)
EXTENDS RecordList, ColumnMapping, TLAPS, FiniteSetTheorems, SequenceTheorems, WellFoundedInduction

\* Records that an upload has brought into the table at some time: no record
\* comes back once it is deleted.
Stored == {r \in Records : file[RunOf[r]] \notin {"none", "sent"}}

\* What the page and its requests hold are records that were there.
OnlyKnown ==
    /\ live \subseteq Stored /\ told \subseteq Stored
    /\ Elements(shown) \subseteq Stored /\ ticked \subseteq Stored
    /\ dialog \in Records => dialog \in Stored
    /\ \A n \in Loads : Elements(loads[n].got) \subseteq Stored
    /\ \A d \in deletes : d.ids \subseteq Stored

\* What the server said it deleted is not there.
Deleted ==
    /\ told \cap live = {}
    /\ \A d \in deletes : d.at = "done" => d.ids \cap live = {}

\* No load in flight holds what the page was told after it had read.
LoadsFresh == \A n \in Loads : (told \ risky) \cap Elements(loads[n].got) = {}

ListInv == TypeOK /\ OnlyKnown /\ Deleted /\ LoadsFresh /\ GoneStaysGone
-----------------------------------------------------------------------------
(* Positions: what filter() keeps.                                         *)

LEMMA LeastNatural ==
  ASSUME NEW T \in SUBSET Nat, T # {}
  PROVE  \E x \in T : \A y \in T : x <= y
<1>1. IsWellFoundedOn(OpToRel(<,Nat), Nat)
  BY NatLessThanWellFounded
<1>2. PICK x \in T : \A y \in T : ~ (<<y, x>> \in OpToRel(<,Nat))
  BY <1>1, WFMin
<1>3. \A y \in T : ~(y < x)
  BY <1>2 DEF OpToRel
<1>4. QED
  BY <1>3

\* Members of a set of positions up to n.
UpTo(set, n) == {j \in set : j <= n}

LEMMA UpToCounts ==
  ASSUME NEW len \in Nat, NEW set \in SUBSET (1..len)
  PROVE  /\ IsFiniteSet(set) /\ Cardinality(set) \in Nat
         /\ \A n \in Nat : /\ IsFiniteSet(UpTo(set, n))
                           /\ Cardinality(UpTo(set, n)) \in Nat
         /\ Cardinality(UpTo(set, 0)) = 0 /\ UpTo(set, len) = set
         /\ \A n \in Nat : Cardinality(UpTo(set, n + 1)) =
                IF n + 1 \in set THEN Cardinality(UpTo(set, n)) + 1
                                 ELSE Cardinality(UpTo(set, n))
<1>0. \A j \in set : j \in Nat /\ 1 <= j /\ j <= len
  OBVIOUS
<1>1. IsFiniteSet(1..len)
  BY FS_Interval
<1>2. \A T \in SUBSET (1..len) : IsFiniteSet(T) /\ Cardinality(T) \in Nat
  BY <1>1, FS_Subset, FS_CardinalityType
<1>3. \A n \in Nat : UpTo(set, n) \in SUBSET (1..len)
  BY DEF UpTo
<1>4. UpTo(set, 0) = {} /\ UpTo(set, len) = set
  <2>1. \A j \in set : ~(j <= 0)
    BY <1>0
  <2>2. QED
    BY <1>0, <2>1, Zenon DEF UpTo
<1>5. ASSUME NEW n \in Nat
      PROVE  Cardinality(UpTo(set, n + 1)) =
                IF n + 1 \in set THEN Cardinality(UpTo(set, n)) + 1
                                 ELSE Cardinality(UpTo(set, n))
  <2>1. CASE n + 1 \in set
    <3>1. UpTo(set, n + 1) = UpTo(set, n) \cup {n + 1} /\ n + 1 \notin UpTo(set, n)
      <4>1. \A j \in set : j <= n + 1 <=> j <= n \/ j = n + 1
        BY <1>0
      <4>2. ~(n + 1 <= n) /\ n + 1 <= n + 1
        OBVIOUS
      <4>3. QED
        BY <2>1, <4>1, <4>2, Zenon DEF UpTo
    <3>2. QED
      BY <1>2, <1>3, <2>1, <3>1, FS_AddElement
  <2>2. CASE n + 1 \notin set
    <3>1. UpTo(set, n + 1) = UpTo(set, n)
      <4>1. \A j \in set : j <= n + 1 <=> j <= n
        BY <1>0, <2>2
      <4>2. QED
        BY <4>1, Zenon DEF UpTo
    <3>2. QED
      BY <2>2, <3>1
  <2>3. QED
    BY <2>1, <2>2
<1>6. Cardinality(UpTo(set, 0)) = 0
  BY <1>4, FS_EmptySet
<1>7. QED
  BY <1>2, <1>3, <1>4, <1>5, <1>6

LEMMA NthIsMember ==
  ASSUME NEW len \in Nat, NEW set \in SUBSET (1..len),
         NEW k \in 1..Cardinality(set)
  PROVE  Nth(set, k) \in set /\ Cardinality(UpTo(set, Nth(set, k))) = k
<1> DEFINE T == {n \in Nat : k <= Cardinality(UpTo(set, n))}
<1>1. len \in T
  BY UpToCounts
<1>2. PICK n \in T : \A m \in T : n <= m
  <2>1. T \in SUBSET Nat /\ T # {}
    BY <1>1
  <2>2. QED
    BY <2>1, LeastNatural
<1>3. n # 0 /\ n \in Nat /\ k \in Nat
  <2>1. Cardinality(set) \in Nat /\ Cardinality(UpTo(set, 0)) = 0
    BY UpToCounts
  <2>2. n \in Nat /\ k <= Cardinality(UpTo(set, n))
    BY <1>2
  <2>3. QED
    BY <2>1, <2>2
<1>4. PICK m \in Nat : n = m + 1
  <2>1. n - 1 \in Nat /\ n = (n - 1) + 1
    BY <1>3
  <2>2. QED
    BY <2>1
<1>5. ~(k <= Cardinality(UpTo(set, m)))
  BY <1>2, <1>4
<1>6. n \in set /\ Cardinality(UpTo(set, n)) = k
  <2>1. Cardinality(UpTo(set, m)) \in Nat /\ k <= Cardinality(UpTo(set, n))
    BY <1>2, <1>4, UpToCounts
  <2>2. Cardinality(UpTo(set, n)) = IF n \in set THEN Cardinality(UpTo(set, m)) + 1
                                                 ELSE Cardinality(UpTo(set, m))
    <3>1. Cardinality(UpTo(set, m + 1)) = IF m + 1 \in set
                THEN Cardinality(UpTo(set, m)) + 1 ELSE Cardinality(UpTo(set, m))
      BY UpToCounts
    <3>2. QED
      BY <1>4, <3>1, Zenon
  <2>3. QED
    BY <1>3, <1>5, <2>1, <2>2
<1>7. QED
  BY <1>6 DEF Nth, UpTo

\* The members of a set of positions in order.
LEMMA NthCounts ==
  ASSUME NEW len \in Nat, NEW set \in SUBSET (1..len)
  PROVE  /\ \A i \in set : /\ Cardinality(UpTo(set, i)) \in 1..Cardinality(set)
                           /\ Nth(set, Cardinality(UpTo(set, i))) = i
         /\ \A i, j \in set : i < j => Cardinality(UpTo(set, i)) < Cardinality(UpTo(set, j))
<1>0. \A j \in set : j \in Nat /\ 1 <= j /\ j <= len
  OBVIOUS
<1>1. /\ IsFiniteSet(set) /\ Cardinality(set) \in Nat
      /\ \A n \in Nat : IsFiniteSet(UpTo(set, n)) /\ Cardinality(UpTo(set, n)) \in Nat
  BY UpToCounts
<1>2. ASSUME NEW i \in set, NEW j \in set, i < j
      PROVE  Cardinality(UpTo(set, i)) < Cardinality(UpTo(set, j))
  <2>1. UpTo(set, i) \subseteq UpTo(set, j) /\ j \in UpTo(set, j) /\ j \notin UpTo(set, i)
    <3>1. /\ \A m \in set : m <= i => m <= j
          /\ j <= j /\ ~(j <= i)
      BY <1>0, <1>2
    <3>2. QED
      BY <1>2, <3>1, Zenon DEF UpTo
  <2>2. UpTo(set, i) # UpTo(set, j)
    BY <2>1
  <2>3. IsFiniteSet(UpTo(set, j))
    BY <1>0, <1>1
  <2>4. QED
    BY <2>1, <2>2, <2>3, FS_Subset, <1>0, <1>1
<1>3. ASSUME NEW i \in set
      PROVE  Cardinality(UpTo(set, i)) \in 1..Cardinality(set)
  <2>1. UpTo(set, i) \subseteq set /\ i \in UpTo(set, i)
    BY <1>0 DEF UpTo
  <2>2. Cardinality(UpTo(set, i)) <= Cardinality(set)
    BY <1>1, <2>1, FS_Subset
  <2>3. Cardinality(UpTo(set, i)) # 0
    BY <1>0, <1>1, <2>1, FS_EmptySet
  <2>4. QED
    BY <1>0, <1>1, <2>2, <2>3
<1>4. ASSUME NEW i \in set
      PROVE  Nth(set, Cardinality(UpTo(set, i))) = i
  <2>1. \A j \in set : Cardinality(UpTo(set, j)) = Cardinality(UpTo(set, i)) => j = i
    BY <1>0, <1>1, <1>2
  <2>2. Cardinality({m \in set : m <= i}) = Cardinality(UpTo(set, i))
    BY DEF UpTo
  <2>3. \A j \in set : Cardinality({m \in set : m <= j}) = Cardinality(UpTo(set, i)) => j = i
    BY <2>1 DEF UpTo
  <2>4. QED
    BY <2>2, <2>3 DEF Nth
<1>5. QED
  BY <1>2, <1>3, <1>4

LEMMA PickedProperties ==
  ASSUME NEW S, NEW s \in Seq(S), NEW set \in SUBSET DOMAIN s
  PROVE  /\ Cardinality(set) \in Nat
         /\ Picked(s, set) \in Seq(S) /\ Len(Picked(s, set)) = Cardinality(set)
         /\ \A k \in 1..Cardinality(set) :
                Nth(set, k) \in set /\ Picked(s, set)[k] = s[Nth(set, k)]
         /\ \A i \in set : \E k \in 1..Cardinality(set) : i = Nth(set, k)
<1>1. Len(s) \in Nat /\ DOMAIN s = 1..Len(s) /\ \A i \in 1..Len(s) : s[i] \in S
  BY ElementOfSeq, LenProperties
<1>2. set \in SUBSET (1..Len(s))
  BY <1>1
<1>3. Cardinality(set) \in Nat
  BY <1>1, <1>2, UpToCounts
<1>4. \A k \in 1..Cardinality(set) : Nth(set, k) \in set
  BY <1>1, <1>2, NthIsMember
<1>5. \A i \in set : \E k \in 1..Cardinality(set) : i = Nth(set, k)
  BY <1>1, <1>2, NthCounts
<1>6. PICK t : t = [k \in 1..Cardinality(set) |-> s[Nth(set, k)]]
  OBVIOUS
<1>7. \A k \in 1..Cardinality(set) : s[Nth(set, k)] \in S
  BY <1>1, <1>4
<1>8. t \in Seq(S)
  BY <1>3, <1>6, <1>7, IsASeq
<1>9. Len(t) = Cardinality(set) /\ \A k \in 1..Cardinality(set) : t[k] = s[Nth(set, k)]
  BY <1>3, <1>6
<1>10. Picked(s, set) = t
  BY <1>6 DEF Picked
<1>11. QED
  BY <1>3, <1>4, <1>5, <1>8, <1>9, <1>10, Zenon

LEMMA NthOrdered ==
  ASSUME NEW len \in Nat, NEW set \in SUBSET (1..len),
         NEW k \in 1..Cardinality(set), NEW l \in 1..Cardinality(set)
  PROVE  k < l <=> Nth(set, k) < Nth(set, l)
<1>1. /\ Nth(set, k) \in set /\ Cardinality(UpTo(set, Nth(set, k))) = k
      /\ Nth(set, l) \in set /\ Cardinality(UpTo(set, Nth(set, l))) = l
  BY NthIsMember
<1>2. PICK i \in set, j \in set : i = Nth(set, k) /\ j = Nth(set, l)
  BY <1>1
<1>3. i \in Nat /\ j \in Nat
  OBVIOUS
<1>4. /\ i < j => Cardinality(UpTo(set, i)) < Cardinality(UpTo(set, j))
      /\ j < i => Cardinality(UpTo(set, j)) < Cardinality(UpTo(set, i))
  BY NthCounts
<1>5. Cardinality(set) \in Nat
  BY UpToCounts
<1>6. QED
  BY <1>1, <1>2, <1>3, <1>4, <1>5

\* What filter() leaves: members of the list that were not named.
LEMMA WithoutProperties ==
  ASSUME NEW S, NEW s \in Seq(S), NEW ids
  PROVE  /\ Without(s, ids) \in Seq(S)
         /\ Elements(Without(s, ids)) \subseteq Elements(s) \ ids
<1>1. PICK kept : kept = {i \in DOMAIN s : s[i] \notin ids}
  OBVIOUS
<1>2. PICK rest : rest = Picked(s, kept)
  OBVIOUS
<1>3. /\ Cardinality(kept) \in Nat /\ rest \in Seq(S) /\ Len(rest) = Cardinality(kept)
      /\ \A k \in 1..Cardinality(kept) : Nth(kept, k) \in kept /\ rest[k] = s[Nth(kept, k)]
  BY <1>1, <1>2, PickedProperties
<1>4. DOMAIN rest = 1..Cardinality(kept)
  BY <1>3, LenProperties
<1>5. \A k \in DOMAIN rest : rest[k] \in Elements(s) \ ids
  BY <1>1, <1>3, <1>4 DEF Elements
<1>6. rest = Without(s, ids)
  BY <1>1, <1>2 DEF Without
<1>7. QED
  BY <1>3, <1>5, <1>6 DEF Elements

LEMMA ElementsProperties ==
  ASSUME NEW S, NEW s \in Seq(S), NEW t \in Seq(S)
  PROVE  /\ Elements(s) \subseteq S /\ Elements(<<>>) = {}
         /\ Elements(s \o t) = Elements(s) \cup Elements(t)
         /\ s \o t \in Seq(S)
<1>1. /\ Len(s) \in Nat /\ DOMAIN s = 1..Len(s) /\ \A i \in 1..Len(s) : s[i] \in S
      /\ Len(t) \in Nat /\ DOMAIN t = 1..Len(t)
  BY ElementOfSeq, LenProperties
<1>2. /\ s \o t \in Seq(S) /\ Len(s \o t) = Len(s) + Len(t)
      /\ \A i \in 1..(Len(s) + Len(t)) :
            (s \o t)[i] = IF i <= Len(s) THEN s[i] ELSE t[i - Len(s)]
  BY ConcatProperties
<1>3. DOMAIN (s \o t) = 1..(Len(s) + Len(t))
  BY <1>2, LenProperties
<1>4. Elements(s) \subseteq S /\ Elements(<<>>) = {}
  BY <1>1 DEF Elements
<1>5. ASSUME NEW x \in Elements(s) \cup Elements(t) PROVE x \in Elements(s \o t)
  <2>1. CASE x \in Elements(s)
    BY <1>1, <1>2, <1>3, <2>1 DEF Elements
  <2>2. CASE x \in Elements(t)
    <3>1. PICK i \in 1..Len(t) : x = t[i]
      BY <1>1, <2>2 DEF Elements
    <3>2. (s \o t)[Len(s) + i] = x /\ Len(s) + i \in 1..(Len(s) + Len(t))
      BY <1>1, <1>2, <3>1
    <3>3. QED
      BY <1>3, <3>2 DEF Elements
  <2>3. QED
    BY <1>5, <2>1, <2>2
<1>6. ASSUME NEW x \in Elements(s \o t) PROVE x \in Elements(s) \cup Elements(t)
  <2>1. PICK i \in 1..(Len(s) + Len(t)) : x = (s \o t)[i]
    BY <1>3, <1>6 DEF Elements
  <2>2. CASE i <= Len(s)
    BY <1>1, <1>2, <2>1, <2>2 DEF Elements
  <2>3. CASE ~(i <= Len(s))
    <3>1. i - Len(s) \in 1..Len(t) /\ x = t[i - Len(s)]
      BY <1>1, <1>2, <2>1, <2>3
    <3>2. QED
      BY <1>1, <3>1 DEF Elements
  <2>4. QED
    BY <2>2, <2>3
<1>7. QED
  BY <1>2, <1>4, <1>5, <1>6

\* A page of an answer holds rows of the table.
LEMMA PageHoldsRows ==
  ASSUME RecordListAssumption, TypeOK, NEW u, NEW s \in Listings(u), NEW offset \in Nat
  PROVE  /\ PageOf(s, offset) \in Seq(Records)
         /\ Elements(PageOf(s, offset)) \subseteq live
<1> DEFINE size == Cardinality(Rows(u))
           last == IF offset + Limit < Len(s) THEN offset + Limit ELSE Len(s)
<1>1. Rows(u) \subseteq live /\ live \subseteq Records
  BY DEF Rows, TypeOK
<1>2. size \in Nat
  BY <1>1, RecordListAssumption, FS_Subset, FS_CardinalityType DEF RecordListAssumption
<1>3. s \in [1..size -> Rows(u)]
  BY DEF Listings
<1>4. s \in Seq(Rows(u)) /\ Len(s) = size
  BY <1>2, <1>3, IsASeq
<1>5. last \in Nat /\ last <= size /\ offset + 1 \in Nat
  BY <1>2, <1>4, RecordListAssumption DEF RecordListAssumption
<1>6. PICK to \in Nat : to = last /\ to <= size
  BY <1>5
<1>7. PICK from \in Nat : from = offset + 1
  BY <1>5
<1>8. \A i \in from..to : s[i] \in Rows(u)
  BY <1>3, <1>6, <1>7, <1>2
<1>9. SubSeq(s, from, to) \in Seq(Rows(u))
  BY <1>6, <1>7, <1>8, SubSeqProperties
<1>10. PageOf(s, offset) = SubSeq(s, from, to)
  BY <1>6, <1>7 DEF PageOf
<1>11. PICK p \in Seq(Rows(u)) : p = PageOf(s, offset)
  BY <1>9, <1>10
<1>12. Elements(p) \subseteq Rows(u)
  BY ElementsProperties
<1>13. p \in Seq(Records)
  BY <1>1, SeqMonotonic
<1>14. QED
  BY <1>1, <1>11, <1>12, <1>13

-----------------------------------------------------------------------------
(* Types                                                                   *)

LEMMA StartedFrom ==
  ASSUME NEW u, NEW uploaded \in BOOLEAN, NEW load,
         load = [at |-> "idle", run |-> All, got |-> <<>>, quiet |-> TRUE, uploaded |-> FALSE]
  PROVE  [load EXCEPT !.at = "reading", !.run = u, !.uploaded = uploaded] \in
            [at : {"reading"}, run : {u}, got : {<<>>}, quiet : BOOLEAN, uploaded : BOOLEAN]
  OBVIOUS

LEMMA LoadsTyped ==
  /\ NoLoad \in Load
  /\ \A u \in Choices, uploaded \in BOOLEAN :
        Started(u, uploaded) \in Load /\ Started(u, uploaded).got = <<>>
<1>1. <<>> \in Seq(Records)
  OBVIOUS
<1>2. NoLoad \in Load
  BY <1>1 DEF NoLoad, Load, Choices
<1>3. ASSUME NEW u \in Choices, NEW uploaded \in BOOLEAN
      PROVE  Started(u, uploaded) \in Load /\ Started(u, uploaded).got = <<>>
  <2>1. PICK load : load = NoLoad /\ load = [at |-> "idle", run |-> All, got |-> <<>>,
                                             quiet |-> TRUE, uploaded |-> FALSE]
    BY DEF NoLoad
  <2>2. [load EXCEPT !.at = "reading", !.run = u, !.uploaded = uploaded] \in
            [at : {"reading"}, run : {u}, got : {<<>>}, quiet : BOOLEAN, uploaded : BOOLEAN]
    BY <2>1, StartedFrom
  <2>3. Started(u, uploaded) \in
            [at : {"reading"}, run : {u}, got : {<<>>}, quiet : BOOLEAN, uploaded : BOOLEAN]
    BY <2>1, <2>2 DEF Started
  <2>4. QED
    BY <1>1, <2>3 DEF Load
<1>4. QED
  BY <1>2, <1>3

\* A call of load() starts with nothing read; the others are as they were.
LEMMA CallLoadTyped ==
  ASSUME TypeOK, NEW n \in Loads, NEW u \in Choices, NEW uploaded \in BOOLEAN,
         CallLoad(n, u, uploaded)
  PROVE  /\ loads' \in [Loads -> Load] /\ loading' \in BOOLEAN /\ failed' \in BOOLEAN
         /\ \A m \in Loads : loads'[m].got \in {loads[m].got, <<>>}
<1>1. PICK load \in Load : load = Started(u, uploaded) /\ load.got = <<>>
  BY LoadsTyped
<1>2. loads' = [loads EXCEPT ![n] = load]
  BY <1>1 DEF CallLoad
<1>3. loads \in [Loads -> Load]
  BY DEF TypeOK
<1>4. QED
  BY <1>1, <1>2, <1>3 DEF CallLoad

LEMMA DisturbedTyped ==
  ASSUME TypeOK
  PROVE  /\ Disturbed \in [Loads -> Load]
         /\ \A n \in Loads : Disturbed[n].got = loads[n].got
  BY DEF TypeOK, Disturbed, Load

LEMMA UploadsTyped ==
  ASSUME TypeOK, NEW u \in Runs
  PROVE  Append(uploads, u) \in Seq(Runs) /\ Elements(uploads) \subseteq Runs
<1>1. uploads \in Seq(Runs)
  BY DEF TypeOK
<1>2. Append(uploads, u) \in Seq(Runs)
  BY <1>1, AppendProperties
<1>3. QED
  BY <1>1, <1>2, ElementsProperties

LEMMA ShownTyped ==
  ASSUME TypeOK
  PROVE  /\ Elements(shown) \subseteq Records /\ Elements(<<>>) = {}
         /\ Filtered \subseteq Elements(shown)
<1>1. shown \in Seq(Records)
  BY DEF TypeOK
<1>2. QED
  BY <1>1, ElementsProperties DEF Filtered
-----------------------------------------------------------------------------
(* The page, as long as no row comes or goes.                              *)

\* Nothing is learnt but from the list or from what a load has read.
PageKept ==
    /\ Stored \subseteq Stored'
    /\ UNCHANGED <<live, told, risky>>
    /\ \A n \in Loads : loads'[n].got \in {loads[n].got, <<>>}
    /\ \/ shown' \in {shown, <<>>}
       \/ \E n \in Loads : shown' = loads[n].got
    /\ ticked' \subseteq ticked \cup Elements(shown)
    /\ dialog' \in {dialog, None, "bulk"} \cup Elements(shown)
    /\ \A d \in deletes' :
            \/ \E e \in deletes : d.ids = e.ids /\ d.at = e.at
            \/ d.at = "sent" /\ d.ids \subseteq Stored

LEMMA PageKeeps ==
  ASSUME RecordListAssumption, ListInv, TypeOK', PageKept PROVE ListInv'
<1>1. Elements(<<>>) = {}
  BY ShownTyped DEF ListInv
<1>2. \A n \in Loads : Elements(loads'[n].got) \in {Elements(loads[n].got), {}}
  BY <1>1 DEF PageKept
<1>3. \/ Elements(shown') \in {Elements(shown), {}}
      \/ \E n \in Loads : Elements(shown') = Elements(loads[n].got)
  BY <1>1 DEF PageKept
<1>4. OnlyKnown'
  <2>1. live' \subseteq Stored' /\ told' \subseteq Stored'
    BY DEF ListInv, OnlyKnown, PageKept
  <2>2. Elements(shown') \subseteq Stored'
    BY <1>3 DEF ListInv, OnlyKnown, PageKept
  <2>3. ticked' \subseteq Stored'
    BY DEF ListInv, OnlyKnown, PageKept
  <2>4. dialog' \in Records => dialog' \in Stored'
    BY RecordListAssumption DEF ListInv, OnlyKnown, PageKept, RecordListAssumption
  <2>5. \A n \in Loads : Elements(loads'[n].got) \subseteq Stored'
    BY <1>2 DEF ListInv, OnlyKnown, PageKept
  <2>6. \A d \in deletes' : d.ids \subseteq Stored'
    BY DEF ListInv, OnlyKnown, PageKept
  <2>7. QED
    BY <2>1, <2>2, <2>3, <2>4, <2>5, <2>6 DEF OnlyKnown
<1>5. Deleted'
  BY DEF ListInv, Deleted, PageKept
<1>6. LoadsFresh'
  BY <1>2 DEF ListInv, LoadsFresh, PageKept
<1>7. GoneStaysGone'
  <2>1. (told \ risky) \cap (Elements(shown') \cup ticked') = {}
    BY <1>3 DEF ListInv, LoadsFresh, GoneStaysGone, PageKept
  <2>2. QED
    BY <2>1 DEF GoneStaysGone, PageKept
<1>8. QED
  BY <1>4, <1>5, <1>6, <1>7 DEF ListInv

\* The file of a record's upload does not go back to being under way.
LEMMA SameFiles == ASSUME UNCHANGED file PROVE Stored \subseteq Stored'
  BY DEF Stored

\* What a step of the page leaves alone here.
LEMMA QuietPage ==
  ASSUME UNCHANGED <<live, told, risky, loads, shown, ticked, dialog, deletes>>,
         Stored \subseteq Stored'
  PROVE  PageKept
  BY DEF PageKept

-----------------------------------------------------------------------------
(* Loading                                                                 *)

LEMMA ReadPageInv ==
  ASSUME RecordListAssumption, ListInv, NEW n \in Loads, ReadPage(n),
         acts' \in 0..MaxActs
  PROVE  ListInv'
<1>0. TypeOK /\ loads \in [Loads -> Load] /\ loads[n] \in Load
  BY DEF ListInv, TypeOK
<1>1. PICK s \in Listings(loads[n].run) :
        LET last == PageOf(s, Len(loads[n].got))
            got == loads[n].got \o last
        IN  loads' = [loads EXCEPT ![n].got = got,
                                   ![n].at = IF Ends(got, last, Len(s)) THEN "read" ELSE "reading"]
  BY DEF ReadPage
<1>2. loads[n].got \in Seq(Records) /\ Len(loads[n].got) \in Nat
  BY <1>0, LenProperties DEF Load
<1>3. PICK last \in Seq(Records) : /\ last = PageOf(s, Len(loads[n].got))
                                   /\ Elements(last) \subseteq live
  BY <1>0, <1>2, PageHoldsRows
<1>4. PICK got \in Seq(Records) : /\ got = loads[n].got \o last
                                  /\ Elements(got) = Elements(loads[n].got) \cup Elements(last)
  <2>1. PICK before \in Seq(Records) : before = loads[n].got
    BY <1>2
  <2>2. before \o last \in Seq(Records)
        /\ Elements(before \o last) = Elements(before) \cup Elements(last)
    BY ElementsProperties
  <2>3. QED
    BY <2>1, <2>2
<1>5. PICK at \in {"read", "reading"} :
            at = IF Ends(got, last, Len(s)) THEN "read" ELSE "reading"
  OBVIOUS
<1>6. loads' = [loads EXCEPT ![n].got = got, ![n].at = at]
  BY <1>1, <1>3, <1>4, <1>5
<1>7. /\ loads' \in [Loads -> Load] /\ loads'[n].got = got
      /\ \A m \in Loads : m # n => loads'[m] = loads[m]
  BY <1>0, <1>6 DEF Load
<1>8. /\ UNCHANGED <<server, page, run, shown, loading, failed, listed, runReads, choices,
                     upload, deletes, history>>
      /\ Stored' = Stored
  BY DEF ReadPage, Stored, upload
<1>9. TypeOK'
  BY <1>0, <1>7, <1>8 DEF TypeOK, server, choices, upload, history
<1>10. Elements(got) \subseteq Stored /\ (told \ risky) \cap Elements(got) = {}
  BY <1>3, <1>4 DEF ListInv, OnlyKnown, Deleted, LoadsFresh
<1>11. OnlyKnown'
  <2>1. \A m \in Loads : Elements(loads'[m].got) \subseteq Stored
    BY <1>7, <1>10 DEF ListInv, OnlyKnown
  <2>2. QED
    BY <1>8, <2>1 DEF ListInv, OnlyKnown, server, choices, history
<1>12. LoadsFresh'
  <2>1. \A m \in Loads : (told \ risky) \cap Elements(loads'[m].got) = {}
    BY <1>7, <1>10 DEF ListInv, LoadsFresh
  <2>2. QED
    BY <1>8, <2>1 DEF LoadsFresh, history
<1>13. Deleted' /\ GoneStaysGone'
  BY <1>8 DEF ListInv, Deleted, GoneStaysGone, server, choices, history
<1>14. QED
  BY <1>9, <1>11, <1>12, <1>13 DEF ListInv

LEMMA LoadEndsInv ==
  ASSUME RecordListAssumption, ListInv, NEW n \in Loads, LoadEnds(n) \/ LoadFails(n),
         acts' \in 0..MaxActs
  PROVE  ListInv'
<1>1. /\ loads' = [loads EXCEPT ![n] = NoLoad] /\ loads \in [Loads -> Load]
      /\ NoLoad.got = <<>>
  BY DEF LoadEnds, LoadFails, ListInv, TypeOK, NoLoad
<1>2. /\ loads' \in [Loads -> Load]
      /\ \A m \in Loads : loads'[m].got \in {loads[m].got, <<>>}
  BY <1>1, LoadsTyped
<1>3. shown' = shown \/ shown' = loads[n].got
  BY DEF LoadEnds, LoadFails
<1>4. shown' \in Seq(Records)
  <2>1. loads[n] \in Load /\ shown \in Seq(Records)
    BY <1>1 DEF ListInv, TypeOK
  <2>2. loads[n].got \in Seq(Records)
    BY <2>1 DEF Load
  <2>3. QED
    BY <1>3, <2>1, <2>2
<1>5. TypeOK'
  <2>1. /\ UNCHANGED <<server, page, run, listed, runReads, choices, upload, deletes, history>>
        /\ failed' \in {failed, TRUE} /\ loading' = FALSE
    BY DEF LoadEnds, LoadFails
  <2>2. failed' \in BOOLEAN /\ loading' \in BOOLEAN
    BY <2>1 DEF ListInv, TypeOK
  <2>3. QED
    BY <1>2, <1>4, <2>1, <2>2 DEF ListInv, TypeOK, server, choices, upload, history
<1>6. Stored \subseteq Stored'
  BY SameFiles DEF LoadEnds, LoadFails, upload
<1>7. PageKept
  BY <1>2, <1>3, <1>6
  DEF LoadEnds, LoadFails, PageKept, server, choices, upload, history
<1>8. QED
  BY <1>5, <1>7, PageKeeps

LEMMA RunsAnsweredInv ==
  ASSUME RecordListAssumption, ListInv, NEW read \in runReads,
         ServeRuns(read) \/ RunsFail(read), acts' \in 0..MaxActs
  PROVE  ListInv'
<1>1. /\ UNCHANGED <<server, page, run, shown, loads, choices, upload, deletes, history>>
      /\ runReads' \subseteq runReads
      /\ listed' \in BOOLEAN /\ loading' \in BOOLEAN /\ failed' \in BOOLEAN
  <2>1. loading \in BOOLEAN /\ failed \in BOOLEAN
    BY DEF ListInv, TypeOK
  <2>2. CASE ServeRuns(read)
    BY <2>1, <2>2, Zenon DEF ServeRuns
  <2>3. CASE RunsFail(read)
    BY <2>1, <2>3, Zenon DEF RunsFail
  <2>4. QED
    BY <2>2, <2>3
<1>2. TypeOK'
  BY <1>1 DEF ListInv, TypeOK, server, choices, upload, history
<1>3. PageKept
  BY <1>1, SameFiles, QuietPage DEF server, choices, upload, history
<1>4. QED
  BY <1>2, <1>3, PageKeeps
-----------------------------------------------------------------------------
(* Coming, going, choosing                                                 *)

LEMMA EmptiedTyped ==
  ASSUME Emptied
  PROVE  /\ shown' \in Seq(Records) /\ listed' \in BOOLEAN
         /\ runReads' \subseteq {"mount", "upload"}
         /\ filter' \in Statuses \cup {"all"} /\ query' \in SUBSET Records
         /\ ticked' \subseteq Records /\ dialog' \in Records \cup {"bulk", None}
<1>1. <<>> \in Seq(Records)
  OBVIOUS
<1>2. QED
  BY <1>1 DEF Emptied

LEMMA VisitInv ==
  ASSUME RecordListAssumption, ListInv, NEW n \in Loads, NEW u \in Choices, Visit(n, u),
         acts' \in 0..MaxActs
  PROVE  ListInv'
<1>1. /\ loads' \in [Loads -> Load] /\ loading' \in BOOLEAN /\ failed' \in BOOLEAN
      /\ \A m \in Loads : loads'[m].got \in {loads[m].got, <<>>}
  BY CallLoadTyped DEF Visit, ListInv
<1>2. /\ UNCHANGED <<server, file, mine, since, saved, deletes, history>>
      /\ page' = "records" /\ run' = u /\ result' = saved /\ Emptied
  BY DEF Visit
<1>3. TypeOK'
  BY <1>1, <1>2, EmptiedTyped DEF ListInv, TypeOK, server, history
<1>4. PageKept
  BY <1>1, <1>2, SameFiles DEF PageKept, Emptied, server, history
<1>5. QED
  BY <1>3, <1>4, PageKeeps

LEMMA LeaveInv ==
  ASSUME RecordListAssumption, ListInv, Leave, acts' \in 0..MaxActs PROVE ListInv'
<1>1. loads' \in [Loads -> Load] /\ \A n \in Loads : loads'[n].got = <<>>
  BY LoadsTyped DEF Leave, NoLoad
<1>2. file' \in [Runs -> FileStates] /\ Stored \subseteq Stored'
  BY RecordListAssumption DEF Leave, Stored, ListInv, TypeOK, FileStates, RecordListAssumption
<1>3. /\ deletes' \subseteq Deletion
      /\ \A d \in deletes' : d.at = "sent" /\ d.ids \subseteq Stored
  <2>1. SUFFICES ASSUME NEW d \in deletes'
                 PROVE  d \in Deletion /\ d.at = "sent" /\ d.ids \subseteq Stored
    OBVIOUS
  <2>2. PICK e \in deletes : e.at = "sent" /\ d = [e EXCEPT !.how = "left"]
    BY DEF Leave
  <2>3. e \in Deletion /\ e.ids \subseteq Stored
    BY DEF ListInv, TypeOK, OnlyKnown
  <2>4. QED
    BY <2>2, <2>3 DEF Deletion
<1>4. TypeOK'
  BY <1>1, <1>2, <1>3, EmptiedTyped
  DEF Leave, ListInv, TypeOK, Choices, server, history
<1>5. PageKept
  BY <1>1, <1>2, <1>3 DEF Leave, Emptied, PageKept, server, history
<1>6. QED
  BY <1>4, <1>5, PageKeeps

LEMMA GoToInv ==
  ASSUME RecordListAssumption, ListInv, NEW n \in Loads, NEW u \in Choices, GoTo(n, u),
         acts' \in 0..MaxActs
  PROVE  ListInv'
<1>1. /\ loads' \in [Loads -> Load] /\ loading' \in BOOLEAN /\ failed' \in BOOLEAN
      /\ \A m \in Loads : loads'[m].got \in {loads[m].got, <<>>}
  BY CallLoadTyped DEF GoTo, ListInv
<1>2. TypeOK'
  BY <1>1 DEF GoTo, ListInv, TypeOK, server, choices, upload, history
<1>3. PageKept
  BY <1>1, SameFiles DEF GoTo, PageKept, server, choices, upload, history
<1>4. QED
  BY <1>2, <1>3, PageKeeps

\* Filtering, searching, ticking, asking and changing one's mind.
LEMMA ChoosingInv ==
  ASSUME RecordListAssumption, ListInv, acts' \in 0..MaxActs,
         UNCHANGED <<server, page, listing, listed, runReads, upload, deletes, history>>,
         filter' \in Statuses \cup {"all"}, query' \in SUBSET Records,
         ticked' \subseteq ticked \cup Elements(shown),
         dialog' \in {dialog, None, "bulk"} \cup Elements(shown)
  PROVE  ListInv'
<1>1. TypeOK'
  BY ShownTyped DEF ListInv, TypeOK, server, listing, upload, history
<1>2. PageKept
  BY SameFiles DEF PageKept, server, listing, upload, history
<1>3. QED
  BY <1>1, <1>2, PageKeeps

LEMMA UsingInv ==
  ASSUME RecordListAssumption, ListInv, acts' \in 0..MaxActs,
         \/ TickAll \/ AskBulkDelete \/ Cancel
         \/ \E status \in Statuses \cup {"all"} : SetFilter(status)
         \/ \E matches \in Queries : Search(matches)
         \/ \E r \in Records : Tick(r) \/ AskDelete(r)
  PROVE  ListInv'
<1>1. /\ Filtered \subseteq Elements(shown) /\ Elements(shown) \subseteq Records
      /\ filter \in Statuses \cup {"all"} /\ query \in SUBSET Records
  BY ShownTyped DEF ListInv, TypeOK
<1>2. ASSUME NEW set \in SUBSET (ticked \cup Elements(shown)), Ticks(set) PROVE ListInv'
  BY <1>1, <1>2, ChoosingInv DEF Ticks
<1>3. ASSUME NEW what \in {"bulk"} \cup Elements(shown), Ask(what) PROVE ListInv'
  BY <1>1, <1>3, ChoosingInv DEF Ask
<1>4. CASE TickAll
  BY <1>1, <1>2, <1>4 DEF TickAll
<1>5. CASE AskBulkDelete
  BY <1>3, <1>5 DEF AskBulkDelete
<1>6. CASE Cancel
  BY <1>1, <1>6, ChoosingInv DEF Cancel
<1>7. ASSUME NEW status \in Statuses \cup {"all"}, SetFilter(status) PROVE ListInv'
  BY <1>1, <1>7, ChoosingInv DEF SetFilter
<1>8. ASSUME NEW matches \in Queries, Search(matches) PROVE ListInv'
  BY <1>1, <1>8, ChoosingInv, RecordListAssumption DEF Search, RecordListAssumption
<1>9. ASSUME NEW r \in Records, Tick(r) PROVE ListInv'
  BY <1>1, <1>2, <1>9 DEF Tick
<1>10. ASSUME NEW r \in Records, AskDelete(r) PROVE ListInv'
  BY <1>1, <1>3, <1>10 DEF AskDelete
<1>11. QED
  BY <1>4, <1>5, <1>6, <1>7, <1>8, <1>9, <1>10

-----------------------------------------------------------------------------
(* Deleting                                                                *)

LEMMA ConfirmInv ==
  ASSUME RecordListAssumption, ListInv, ConfirmDelete \/ ConfirmBulkDelete,
         acts' \in 0..MaxActs
  PROVE  ListInv'
<1>1. PICK d \in Deletion : d.at = "sent" /\ d.ids \subseteq Stored /\ Confirm(d)
  <2>1. CASE ConfirmDelete
    <3>1. dialog \in Records /\ dialog \in Stored
      BY <2>1 DEF ConfirmDelete, ListInv, OnlyKnown
    <3>2. [ids |-> {dialog}, how |-> "one", at |-> "sent"] \in Deletion
      BY <3>1 DEF Deletion
    <3>3. QED
      BY <2>1, <3>1, <3>2 DEF ConfirmDelete
  <2>2. CASE ConfirmBulkDelete
    <3>1. ticked \subseteq Records /\ ticked \subseteq Stored
      BY DEF ListInv, TypeOK, OnlyKnown
    <3>2. [ids |-> ticked, how |-> "bulk", at |-> "sent"] \in Deletion
      BY <3>1 DEF Deletion
    <3>3. QED
      BY <2>2, <3>1, <3>2 DEF ConfirmBulkDelete
  <2>3. QED
    BY <2>1, <2>2
<1>2. TypeOK'
  BY <1>1 DEF Confirm, ListInv, TypeOK, server, listing, upload, history
<1>3. PageKept
  BY <1>1, SameFiles DEF Confirm, PageKept, server, listing, upload, history
<1>4. QED
  BY <1>2, <1>3, PageKeeps

LEMMA DeleteFailsInv ==
  ASSUME RecordListAssumption, ListInv, NEW d \in deletes, DeleteFails(d),
         acts' \in 0..MaxActs
  PROVE  ListInv'
<1>1. TypeOK'
  BY DEF DeleteFails, ListInv, TypeOK, server, listing, choices, upload, history
<1>2. PageKept
  BY SameFiles DEF DeleteFails, PageKept, server, listing, choices, upload, history
<1>3. QED
  BY <1>1, <1>2, PageKeeps

\* Rows go, and only rows that were never there come.
LEMMA RowsComeAndGo ==
  ASSUME ListInv, TypeOK', Stored \subseteq Stored', live' \ live \subseteq Stored' \ Stored,
         loads' = Disturbed, UNCHANGED <<shown, ticked, dialog, told, risky>>,
         \A d \in deletes' : \E e \in deletes :
            /\ d.ids = e.ids
            /\ d.at = "done" => e.at = "done" \/ d.ids \cap live' = {}
  PROVE  ListInv'
<1>1. \A n \in Loads : loads'[n].got = loads[n].got
  BY DisturbedTyped DEF ListInv
<1>2. OnlyKnown'
  BY <1>1 DEF ListInv, OnlyKnown
<1>3. Deleted'
  <2>1. told \cap live' = {}
    BY DEF ListInv, OnlyKnown, Deleted
  <2>2. ASSUME NEW d \in deletes', d.at = "done" PROVE d.ids \cap live' = {}
    <3>1. PICK e \in deletes : /\ d.ids = e.ids
                               /\ e.at = "done" \/ d.ids \cap live' = {}
      BY <2>2
    <3>2. CASE e.at = "done"
      BY <3>1, <3>2 DEF ListInv, OnlyKnown, Deleted
    <3>3. QED
      BY <3>1, <3>2
  <2>3. QED
    BY <2>1, <2>2 DEF Deleted
<1>4. LoadsFresh' /\ GoneStaysGone'
  BY <1>1 DEF ListInv, LoadsFresh, GoneStaysGone
<1>5. QED
  BY <1>2, <1>3, <1>4 DEF ListInv

LEMMA ServeDeleteInv ==
  ASSUME RecordListAssumption, ListInv, NEW d \in deletes, ServeDelete(d),
         acts' \in 0..MaxActs
  PROVE  ListInv'
<1>1. PICK done \in Deletion : /\ done = [d EXCEPT !.at = "done"]
                               /\ done.ids = d.ids /\ done.at = "done"
  <2>1. d \in Deletion
    BY DEF ListInv, TypeOK
  <2>2. [d EXCEPT !.at = "done"] \in Deletion
    BY <2>1 DEF Deletion
  <2>3. [d EXCEPT !.at = "done"].ids = d.ids /\ [d EXCEPT !.at = "done"].at = "done"
    BY <2>1 DEF Deletion
  <2>4. QED
    BY <2>2, <2>3
<1>2. deletes' \subseteq deletes \cup {done} /\ live' = live \ d.ids /\ loads' = Disturbed
  BY <1>1 DEF ServeDelete
<1>3. UNCHANGED <<uploads, page, run, shown, loading, failed, listed, runReads, choices,
                  upload, history>>
  BY DEF ServeDelete
<1>4. TypeOK'
  BY <1>2, <1>3, DisturbedTyped DEF ListInv, TypeOK, choices, upload, history
<1>5. \A e \in deletes' : \E f \in deletes :
            e.ids = f.ids /\ (e.at = "done" => f.at = "done" \/ e.ids \cap live' = {})
  BY <1>1, <1>2
<1>6. QED
  BY <1>2, <1>3, <1>4, <1>5, SameFiles, RowsComeAndGo DEF choices, upload, history

LEMMA HearDeletedInv ==
  ASSUME RecordListAssumption, ListInv, NEW d \in deletes, HearDeleted(d),
         acts' \in 0..MaxActs
  PROVE  ListInv'
<1>0. TypeOK /\ OnlyKnown /\ Deleted /\ LoadsFresh /\ GoneStaysGone
  BY DEF ListInv
<1>1. /\ deletes' = deletes \ {d} /\ told' = told \cup d.ids
      /\ risky' = risky \cup {r \in d.ids : \E n \in Loads : r \in Elements(loads[n].got)}
      /\ UNCHANGED <<server, page, run, loading, failed, loads, listed, runReads, filter,
                     query, dialog, upload>>
      /\ shown' = Without(shown, d.ids) /\ ticked' = Unticked(d) /\ d.at = "done"
  BY DEF HearDeleted
<1>2. shown' \in Seq(Records) /\ Elements(shown') \subseteq Elements(shown) \ d.ids
  <2>1. shown \in Seq(Records)
    BY <1>0 DEF TypeOK
  <2>2. QED
    BY <1>1, <2>1, WithoutProperties
<1>3. ticked' \subseteq ticked \ d.ids
  BY <1>1 DEF Unticked
<1>4. d.ids \subseteq Records /\ d.ids \subseteq Stored /\ d.ids \cap live = {}
  BY <1>0, <1>1 DEF TypeOK, Deletion, OnlyKnown, Deleted
<1>5. Stored' = Stored
  BY <1>1 DEF Stored, upload
<1>6. TypeOK'
  BY <1>0, <1>1, <1>2, <1>3, <1>4 DEF TypeOK, server, upload
<1>7. OnlyKnown'
  BY <1>0, <1>1, <1>2, <1>3, <1>4, <1>5 DEF OnlyKnown, server
<1>8. Deleted'
  BY <1>0, <1>1, <1>4 DEF Deleted, server
<1>9. LoadsFresh'
  BY <1>0, <1>1 DEF LoadsFresh
<1>10. GoneStaysGone'
  BY <1>0, <1>1, <1>2, <1>3 DEF GoneStaysGone
<1>11. QED
  BY <1>6, <1>7, <1>8, <1>9, <1>10 DEF ListInv
-----------------------------------------------------------------------------
(* Uploading                                                               *)

\* The upload moves on without a row: picking, failing, hearing, ending.
LEMMA UploadMoves ==
  ASSUME RecordListAssumption, ListInv, acts' \in 0..MaxActs,
         UNCHANGED <<server, page, run, shown, listed, choices, deletes, history>>,
         file' \in [Runs -> FileStates],
         \A u \in Runs : file[u] \notin {"none", "sent"} => file'[u] \notin {"none", "sent"},
         mine' \in Runs \cup {None}, since' \in Choices,
         result' \in Runs \cup {None}, saved' \in Runs \cup {None},
         loads' \in [Loads -> Load], loading' \in BOOLEAN, failed' \in BOOLEAN,
         \A n \in Loads : loads'[n].got \in {loads[n].got, <<>>},
         runReads' \subseteq {"mount", "upload"}
  PROVE  ListInv'
<1>1. TypeOK'
  BY DEF ListInv, TypeOK, server, choices, history
<1>2. Stored \subseteq Stored'
  BY RecordListAssumption DEF Stored, RecordListAssumption
<1>3. PageKept
  BY <1>2 DEF PageKept, server, choices, history
<1>4. QED
  BY <1>1, <1>3, PageKeeps

LEMMA UploadStepInv ==
  ASSUME RecordListAssumption, ListInv, NEW u \in Runs, acts' \in 0..MaxActs,
         \/ PickFile(u) \/ UploadFails(u) \/ HearUploadLate(u) \/ EndUpload \/ Dismiss
         \/ \E n \in Loads : HearUpload(n, u)
  PROVE  ListInv'
<1>1. /\ file \in [Runs -> FileStates] /\ mine \in Runs \cup {None} /\ since \in Choices
      /\ result \in Runs \cup {None} /\ saved \in Runs \cup {None} /\ run \in Choices
      /\ loads \in [Loads -> Load] /\ loading \in BOOLEAN /\ failed \in BOOLEAN
      /\ runReads \subseteq {"mount", "upload"} /\ TypeOK
  BY DEF ListInv, TypeOK
<1>2. CASE PickFile(u)
  <2>1. file' \in [Runs -> FileStates] /\ \A v \in Runs :
            file[v] \notin {"none", "sent"} => file'[v] \notin {"none", "sent"}
    BY <1>1, <1>2 DEF PickFile, FileStates
  <2>2. QED
    BY <1>1, <1>2, <2>1, UploadMoves DEF PickFile, listing
<1>3. CASE UploadFails(u)
  <2>1. file' \in [Runs -> FileStates] /\ \A v \in Runs :
            file[v] \notin {"none", "sent"} => file'[v] \notin {"none", "sent"}
    BY <1>1, <1>3 DEF UploadFails, FileStates
  <2>2. QED
    BY <1>1, <1>3, <2>1, UploadMoves DEF UploadFails, listing
<1>4. CASE HearUploadLate(u)
  <2>1. file' \in [Runs -> FileStates] /\ \A v \in Runs :
            file[v] \notin {"none", "sent"} => file'[v] \notin {"none", "sent"}
    BY <1>1, <1>4 DEF HearUploadLate, FileStates
  <2>2. QED
    BY <1>1, <1>4, <2>1, UploadMoves DEF HearUploadLate, listing
<1>5. CASE EndUpload
  <2>1. file' \in [Runs -> FileStates] /\ \A v \in Runs :
            file[v] \notin {"none", "sent"} => file'[v] \notin {"none", "sent"}
    BY <1>1, <1>5 DEF EndUpload, Uploading, FileStates
  <2>2. QED
    BY <1>1, <1>5, <2>1, UploadMoves DEF EndUpload, listing
<1>6. CASE Dismiss
  BY <1>1, <1>6, UploadMoves DEF Dismiss, listing
<1>7. ASSUME NEW n \in Loads, HearUpload(n, u) PROVE ListInv'
  <2>1. file' \in [Runs -> FileStates] /\ \A v \in Runs :
            file[v] \notin {"none", "sent"} => file'[v] \notin {"none", "sent"}
    BY <1>1, <1>7 DEF HearUpload, FileStates
  <2>2. /\ loads' \in [Loads -> Load] /\ loading' \in BOOLEAN /\ failed' \in BOOLEAN
        /\ \A m \in Loads : loads'[m].got \in {loads[m].got, <<>>}
    BY <1>1, <1>7, CallLoadTyped DEF HearUpload
  <2>3. QED
    BY <1>1, <1>7, <2>1, <2>2, UploadMoves DEF HearUpload
<1>8. QED
  BY <1>2, <1>3, <1>4, <1>5, <1>6, <1>7

\* Rows are stored: those of an upload that was not there before.
LEMMA StoreInv ==
  ASSUME RecordListAssumption, ListInv, NEW u \in Runs, acts' \in 0..MaxActs,
         ServeUpload(u) \/ UploadElsewhere(u)
  PROVE  ListInv'
<1>1. /\ file \in [Runs -> FileStates] /\ TypeOK
      /\ RunOf \in [Records -> Runs]
  BY RecordListAssumption DEF ListInv, TypeOK, RecordListAssumption
<1>2. PICK state \in {"stored", "done"} : file' = [file EXCEPT ![u] = state]
  BY DEF ServeUpload, UploadElsewhere
<1>3. /\ file[u] \in {"none", "sent"} /\ Store(u)
      /\ UNCHANGED <<page, run, shown, loading, failed, listed, runReads, choices, mine,
                     since, result, saved, deletes, history>>
  BY DEF ServeUpload, UploadElsewhere
<1>4. TypeOK'
  <2>1. uploads' \in Seq(Runs) /\ loads' \in [Loads -> Load]
    BY <1>1, <1>3, UploadsTyped, DisturbedTyped DEF Store
  <2>2. live' \subseteq Records /\ file' \in [Runs -> FileStates]
    BY <1>1, <1>2, <1>3 DEF Store, TypeOK, FileStates
  <2>3. QED
    BY <1>1, <1>3, <2>1, <2>2 DEF TypeOK, choices, history
<1>5. Stored \subseteq Stored'
  BY <1>1, <1>2 DEF Stored
<1>6. live' \ live \subseteq Stored' \ Stored
  BY <1>1, <1>2, <1>3 DEF Stored, Store
<1>7. QED
  BY <1>3, <1>4, <1>5, <1>6, RowsComeAndGo DEF Store, choices, history

LEMMA DeleteElsewhereInv ==
  ASSUME RecordListAssumption, ListInv, NEW r \in Records, DeleteElsewhere(r),
         acts' \in 0..MaxActs
  PROVE  ListInv'
<1>1. TypeOK'
  BY DisturbedTyped DEF DeleteElsewhere, ListInv, TypeOK, choices, upload, history
<1>2. QED
  BY <1>1, SameFiles, RowsComeAndGo DEF DeleteElsewhere, choices, upload, history
-----------------------------------------------------------------------------
LEMMA InitInv == ASSUME RecordListAssumption PROVE Init => ListInv
<1> SUFFICES ASSUME Init PROVE ListInv
  OBVIOUS
<1>1. /\ RunOf \in [Records -> Runs] /\ Before \in Seq(Runs) /\ MaxActs \in Nat
      /\ <<>> \in Seq(Records)
  BY RecordListAssumption DEF RecordListAssumption
<1>2. loads \in [Loads -> Load] /\ \A n \in Loads : loads[n].got = <<>>
  BY LoadsTyped DEF Init, Choices, NoLoad
<1>3. file \in [Runs -> FileStates]
  BY DEF Init, FileStates
<1>4. TypeOK
  <2>1. uploads \in Seq(Runs) /\ shown \in Seq(Records)
    BY <1>1 DEF Init
  <2>2. /\ live \subseteq Records /\ page \in {"records", "history"} /\ run \in Choices
        /\ loading \in BOOLEAN /\ failed \in BOOLEAN /\ listed \in BOOLEAN
        /\ runReads \subseteq {"mount", "upload"}
        /\ filter \in Statuses \cup {"all"} /\ query \in SUBSET Records
    BY DEF Init, Choices
  <2>3. /\ ticked \subseteq Records /\ dialog \in Records \cup {"bulk", None}
        /\ mine \in Runs \cup {None} /\ since \in Choices
        /\ result \in Runs \cup {None} /\ saved \in Runs \cup {None}
        /\ deletes \subseteq Deletion /\ told \subseteq Records /\ risky \subseteq Records
    BY DEF Init, Choices
  <2>4. acts \in 0..MaxActs
    BY <1>1 DEF Init
  <2>5. QED
    BY <1>2, <1>3, <2>1, <2>2, <2>3, <2>4 DEF TypeOK
<1>5. Elements(<<>>) = {}
  BY <1>4, ShownTyped
<1>6. live \subseteq Stored
  BY <1>1 DEF Init, Stored
<1>7. OnlyKnown
  BY <1>2, <1>5, <1>6, RecordListAssumption DEF Init, OnlyKnown, RecordListAssumption
<1>8. Deleted /\ LoadsFresh /\ GoneStaysGone
  BY DEF Init, Deleted, LoadsFresh, GoneStaysGone
<1>9. QED
  BY <1>4, <1>7, <1>8 DEF ListInv

LEMMA NextInv == ASSUME RecordListAssumption PROVE ListInv /\ [Next]_vars => ListInv'
<1> SUFFICES ASSUME ListInv, [Next]_vars PROVE ListInv'
  OBVIOUS
<1>1. CASE UNCHANGED vars
  <2>1. TypeOK'
    BY <1>1 DEF ListInv, TypeOK, vars, server, listing, choices, upload, history
  <2>2. PageKept
    BY <1>1, SameFiles DEF PageKept, vars, server, listing, choices, upload, history
  <2>3. QED
    BY <2>1, <2>2, PageKeeps
<1>2. CASE Next
  <2>1. acts' \in 0..MaxActs
    BY <1>2, RecordListAssumption DEF Next, ListInv, TypeOK, RecordListAssumption
  <2>2. CASE Answering
    BY <2>1, <2>2, ReadPageInv, LoadEndsInv, RunsAnsweredInv, StoreInv, UploadStepInv,
       ServeDeleteInv, HearDeletedInv DEF Answering, EndUpload, Uploading, ListInv, TypeOK
  <2>3. CASE Failing
    BY <2>1, <2>3, LoadEndsInv, RunsAnsweredInv, UploadStepInv, DeleteFailsInv DEF Failing
  <2>4. CASE Deciding
    BY <2>1, <2>4, UsingInv, ConfirmInv DEF Deciding
  <2>5. CASE Using
    BY <2>1, <2>5, UsingInv, LeaveInv, VisitInv, GoToInv, UploadStepInv
    DEF Using, Choose, Back, Dismiss, ListInv, TypeOK
  <2>6. CASE Elsewhere
    BY <2>1, <2>6, StoreInv, DeleteElsewhereInv DEF Elsewhere
  <2>7. QED
    BY <1>2, <2>2, <2>3, <2>4, <2>5, <2>6 DEF Next
<1>3. QED
  BY <1>1, <1>2

\* The page, its requests and whoever else has the account keep the inductive
\* invariant.
THEOREM RecordListInvariant == Spec => []ListInv
  BY InitInv, NextInv, RecordListAssumption, PTL DEF Spec

\* Every variable keeps its type, however the requests are answered.
THEOREM RecordListTypes == Spec => []TypeOK
<1>1. ListInv => TypeOK
  BY DEF ListInv
<1>2. QED
  BY <1>1, RecordListInvariant, PTL

\* A record the page was told is deleted is neither listed nor selected
\* again, whatever else is loaded, uploaded or deleted meanwhile, unless a
\* load that was under way had read it before.
THEOREM DeletedStaysAway == Spec => []GoneStaysGone
<1>1. ListInv => GoneStaysGone
  BY DEF ListInv
<1>2. QED
  BY <1>1, RecordListInvariant, PTL
-----------------------------------------------------------------------------
(* A listing that no upload or deletion disturbs: while its upload does    *)
(* not straddle a page boundary, every answer has the same rows up to a    *)
(* boundary, in whatever order rows tie.                                   *)

\* Every stored record is of a stored upload.
Filed == \A r \in live : RunOf[r] \in Elements(uploads)

Distinct(s) == \A i, j \in DOMAIN s : s[i] = s[j] => i = j

\* The first rows of an answer.
Prefix(s, k) == {s[i] : i \in 1..k}

\* What a load has read so far is what each answer begins with.
WholeSoFar(load) ==
    load.quiet /\ load.at # "idle" /\ ~Straddles(load.run) =>
        /\ Len(load.got) <= Cardinality(Rows(load.run))
        /\ Distinct(load.got)
        /\ \A s \in Listings(load.run) : Elements(load.got) = Prefix(s, Len(load.got))
        /\ load.at = "reading" => Len(load.got) % Limit = 0
        /\ load.at = "read" => Elements(load.got) = Rows(load.run)

WholeInv == ListInv /\ Filed /\ \A n \in Loads : WholeSoFar(loads[n])

LEMMA NextBoundary ==
  ASSUME NEW k \in Nat, NEW limit \in Nat \ {0}, k % limit = 0
  PROVE  (k + limit) % limit = 0
<1>1. PICK m \in Nat : k = limit * m
  <2>1. k = limit * (k \div limit) /\ k \div limit \in Nat
    OBVIOUS
  <2>2. QED
    BY <2>1
<1>2. PICK n \in Nat : n = m + 1
  OBVIOUS
<1>3. k + limit = limit * n
  BY <1>1, <1>2
<1>4. (limit * n) % limit = 0
  OBVIOUS
<1>5. QED
  BY <1>3, <1>4

LEMMA PrefixCounts ==
  ASSUME NEW S, NEW s \in Seq(S), Distinct(s), NEW k \in 0..Len(s)
  PROVE  IsFiniteSet(Prefix(s, k)) /\ Cardinality(Prefix(s, k)) = k
<1>0. DOMAIN s = 1..Len(s) /\ Len(s) \in Nat /\ k \in Nat /\ k <= Len(s)
  BY LenProperties
<1>1. PICK f : f = [i \in 1..k |-> s[i]]
  OBVIOUS
<1>2. f \in Bijection(1..k, Prefix(s, k))
  <2>1. f \in [1..k -> Prefix(s, k)] /\ \A i \in 1..k : f[i] = s[i]
    BY <1>1 DEF Prefix
  <2>2. \A x \in Prefix(s, k) : \E i \in 1..k : f[i] = x
    BY <2>1 DEF Prefix
  <2>3. \A i, j \in 1..k : f[i] = f[j] => i = j
    BY <1>0, <2>1 DEF Distinct
  <2>4. QED
    BY <2>1, <2>2, <2>3 DEF Bijection, Injection, Surjection, IsInjective
<1>3. IsFiniteSet(1..k) /\ Cardinality(1..k) = k
  BY <1>0, FS_Interval
<1>4. QED
  BY <1>2, <1>3, FS_Bijection DEF ExistsBijection

\* An answer has every row once, newer ones first.
LEMMA ListingIsWhole ==
  ASSUME RecordListAssumption, live \subseteq Records, NEW u, NEW s \in Listings(u)
  PROVE  /\ IsFiniteSet(Rows(u)) /\ Cardinality(Rows(u)) \in Nat
         /\ s \in [1..Cardinality(Rows(u)) -> Rows(u)] /\ Len(s) = Cardinality(Rows(u))
         /\ s \in Seq(Rows(u))
         /\ Distinct(s)
         /\ \A i, j \in 1..Cardinality(Rows(u)) : i < j => ~Newer(s[j], s[i])
         /\ Prefix(s, Cardinality(Rows(u))) = Rows(u)
<1>1. IsFiniteSet(Rows(u)) /\ Cardinality(Rows(u)) \in Nat
  BY FS_Subset, FS_CardinalityType DEF RecordListAssumption, Rows
<1>2. PICK m \in Nat : m = Cardinality(Rows(u))
  BY <1>1
<1>3. s \in [1..m -> Rows(u)] /\ Len(s) = m /\ s \in Seq(Rows(u))
  <2>1. s \in [1..m -> Rows(u)]
    BY <1>2 DEF Listings
  <2>2. QED
    BY <2>1, IsASeq
<1>4. \A i, j \in 1..m : i < j => s[i] # s[j] /\ ~Newer(s[j], s[i])
  BY <1>2, <1>3 DEF Listings
<1>5. Distinct(s)
  BY <1>3, <1>4 DEF Distinct
<1>6. IsFiniteSet(Prefix(s, m)) /\ Cardinality(Prefix(s, m)) = m
  <2>1. m \in 0..m
    BY <1>2
  <2>2. QED
    BY <1>3, <1>5, <2>1, PrefixCounts
<1>7. Prefix(s, m) \subseteq Rows(u)
  BY <1>3 DEF Prefix
<1>8. Prefix(s, m) = Rows(u)
  BY <1>1, <1>2, <1>6, <1>7, FS_Subset
<1>9. QED
  BY <1>1, <1>2, <1>3, <1>4, <1>5, <1>8

\* A row between two of one upload is of that upload.
LEMMA BetweenTies ==
  ASSUME Filed, uploads \in Seq(Runs), NEW x \in live, NEW y \in live, NEW z \in live,
         RunOf[x] = RunOf[y], ~Newer(z, x), ~Newer(y, z)
  PROVE  RunOf[z] = RunOf[x]
<1>1. PICK p \in DOMAIN uploads : uploads[p] = RunOf[z]
  BY DEF Filed, Elements
<1>2. PICK q \in DOMAIN uploads : uploads[q] = RunOf[x]
  BY DEF Filed, Elements
<1>3. ~(p > q) /\ ~(q > p)
  BY <1>1, <1>2 DEF Newer
<1>4. p \in Nat /\ q \in Nat
  BY LenProperties
<1>5. p = q
  BY <1>3, <1>4
<1>6. QED
  BY <1>1, <1>2, <1>5


\* Two answers begin with the same rows, up to a page boundary.
LEMMA PagesAgree ==
  ASSUME RecordListAssumption, Filed, uploads \in Seq(Runs), live \subseteq Records,
         NEW u, ~Straddles(u), NEW s \in Listings(u), NEW t \in Listings(u),
         NEW k \in 0..Cardinality(Rows(u)), k % Limit = 0
  PROVE  Prefix(s, k) = Prefix(t, k)
<1>1. PICK m \in Nat : m = Cardinality(Rows(u))
  BY ListingIsWhole
<1>2. /\ s \in [1..m -> Rows(u)] /\ Len(s) = m
      /\ Distinct(s) /\ s \in Seq(Rows(u))
      /\ \A i, j \in 1..m : i < j => ~Newer(s[j], s[i])
      /\ Prefix(s, m) = Rows(u)
  BY <1>1, ListingIsWhole
<1>3. /\ t \in [1..m -> Rows(u)]
      /\ Distinct(t) /\ t \in Seq(Rows(u)) /\ Len(t) = m
      /\ \A i, j \in 1..m : i < j => ~Newer(t[j], t[i])
      /\ Prefix(t, m) = Rows(u)
  BY <1>1, ListingIsWhole
<1>4. k \in 0..m /\ k \in Nat /\ k <= m
  BY <1>1
<1>5. /\ IsFiniteSet(Prefix(s, k)) /\ Cardinality(Prefix(s, k)) = k
      /\ IsFiniteSet(Prefix(t, k)) /\ Cardinality(Prefix(t, k)) = k
  BY <1>2, <1>3, <1>4, PrefixCounts
<1>6. SUFFICES ASSUME Prefix(s, k) # Prefix(t, k) PROVE FALSE
  OBVIOUS
<1>7. PICK x \in Prefix(s, k) : x \notin Prefix(t, k)
  BY <1>5, <1>6, FS_Subset
<1>8. PICK y \in Prefix(t, k) : y \notin Prefix(s, k)
  BY <1>5, <1>6, FS_Subset
<1>9. PICK a \in 1..k, b \in 1..k : x = s[a] /\ y = t[b]
  BY <1>7, <1>8 DEF Prefix
<1>10. x \in Rows(u) /\ y \in Rows(u)
  BY <1>2, <1>3, <1>4, <1>9
<1>11. PICK c \in 1..m, d \in 1..m : y = s[c] /\ x = t[d]
  BY <1>2, <1>3, <1>10 DEF Prefix
<1>12. k < c /\ k < d
  BY <1>4, <1>7, <1>8, <1>11 DEF Prefix
<1>13. \A r \in Rows(u) : r \in live
  BY DEF Rows
<1>14. ~Newer(y, x) /\ ~Newer(x, y)
  <2>1. a \in 1..m /\ b \in 1..m /\ a < c /\ b < d
    BY <1>4, <1>9, <1>11, <1>12
  <2>2. ~Newer(s[c], s[a]) /\ ~Newer(t[d], t[b])
    BY <1>2, <1>3, <2>1
  <2>3. QED
    BY <1>9, <1>11, <2>2
<1>15. RunOf[y] = RunOf[x]
  BY <1>10, <1>13, <1>14, BetweenTies
<1>16. \A i \in 1..m : a <= i /\ i <= c => RunOf[s[i]] = RunOf[x]
  <2>1. SUFFICES ASSUME NEW i \in 1..m, a <= i, i <= c PROVE RunOf[s[i]] = RunOf[x]
    OBVIOUS
  <2>2. CASE i = a \/ i = c
    BY <1>9, <1>11, <1>15, <2>2
  <2>3. CASE a < i /\ i < c
    <3>1. a \in 1..m
      BY <1>4, <1>9
    <3>2. ~Newer(s[i], s[a]) /\ ~Newer(s[c], s[i]) /\ s[i] \in Rows(u)
      BY <1>2, <2>3, <3>1
    <3>3. PICK z \in live : z = s[i]
      BY <1>13, <3>2
    <3>4. ~Newer(z, x) /\ ~Newer(y, z)
      BY <1>9, <1>11, <3>2, <3>3
    <3>5. QED
      BY <1>10, <1>13, <1>15, <3>3, <3>4, BetweenTies
  <2>4. QED
    BY <2>1, <2>2, <2>3, <1>9
<1>17. /\ k \in 1..m /\ k + 1 \in 1..m /\ a <= k /\ k <= c /\ a <= k + 1 /\ k + 1 <= c
       /\ k < m
  BY <1>4, <1>9, <1>11, <1>12
<1>18. RunOf[s[k]] = RunOf[s[k + 1]]
  BY <1>16, <1>17
<1>19. k \in DOMAIN s /\ k < Len(s)
  BY <1>2, <1>17
<1>20. QED
  BY <1>18, <1>19 DEF Straddles


\* One more page of an answer: what was read before is where that answer
\* begins, up to the next boundary or the answer's end.
LEMMA PageExtends ==
  ASSUME RecordListAssumption, live \subseteq Records, NEW u, NEW s \in Listings(u),
         NEW got \in Seq(Records), Len(got) <= Cardinality(Rows(u)), Distinct(got),
         Elements(got) = Prefix(s, Len(got))
  PROVE  LET more == got \o PageOf(s, Len(got))
             to == IF Len(got) + Limit < Len(s) THEN Len(got) + Limit ELSE Len(s)
         IN  /\ to \in 0..Cardinality(Rows(u)) /\ Len(more) = to
             /\ Distinct(more) /\ Elements(more) = Prefix(s, to)
<1>01. PICK last : last = PageOf(s, Len(got))
  OBVIOUS
<1>02. PICK more : more = got \o last
  OBVIOUS
<1>03. PICK to : to = IF Len(got) + Limit < Len(s) THEN Len(got) + Limit ELSE Len(s)
  OBVIOUS
<1>1. PICK m \in Nat : m = Cardinality(Rows(u))
  BY ListingIsWhole
<1>2. s \in Seq(Rows(u)) /\ s \in [1..m -> Rows(u)] /\ Len(s) = m /\ Distinct(s)
  BY <1>1, ListingIsWhole
<1>3. PICK k \in Nat : k = Len(got) /\ k <= m
  BY <1>1, LenProperties
<1>4. to \in Nat /\ k <= to /\ to <= m /\ Limit \in Nat
      /\ to = IF k + Limit < m THEN k + Limit ELSE m
  BY <1>03, <1>2, <1>3 DEF RecordListAssumption
<1>5. PICK from \in Nat : from = k + 1
  BY <1>3
<1>6. last = SubSeq(s, from, to)
  BY <1>01, <1>03, <1>2, <1>3, <1>5 DEF PageOf
<1>7. /\ last \in Seq(Rows(u)) /\ Len(last) = to - k
      /\ \A i \in 1..(to - k) : last[i] = s[k + i]
  <2>1. \A i \in from..to : s[i] \in Rows(u)
    BY <1>2, <1>4, <1>5
  <2>2. /\ last \in Seq(Rows(u))
        /\ Len(last) = IF from <= to THEN to - from + 1 ELSE 0
        /\ \A i \in 1..(to - from + 1) : last[i] = s[from + i - 1]
    BY <1>4, <1>5, <1>6, <2>1, SubSeqProperties
  <2>3. Len(last) = to - k
    BY <1>3, <1>4, <1>5, <2>2
  <2>4. ASSUME NEW i \in 1..(to - k) PROVE last[i] = s[k + i]
    <3>1. i \in 1..(to - from + 1) /\ from + i - 1 = k + i
      BY <1>3, <1>4, <1>5, <2>4
    <3>2. QED
      BY <2>2, <3>1
  <2>5. QED
    BY <2>2, <2>3, <2>4
<1>8. Rows(u) \subseteq Records
  BY DEF Rows
<1>9. last \in Seq(Records)
  BY <1>7, <1>8, SeqMonotonic
<1>10. /\ more \in Seq(Records) /\ Len(more) = to
       /\ \A i \in 1..k : more[i] = got[i]
       /\ \A i \in (k + 1)..to : more[i] = s[i]
  <2>1. /\ more \in Seq(Records) /\ Len(more) = Len(got) + Len(last)
        /\ \A i \in 1..(Len(got) + Len(last)) :
                more[i] = IF i <= Len(got) THEN got[i] ELSE last[i - Len(got)]
    BY <1>02, <1>9, ConcatProperties
  <2>2. Len(got) + Len(last) = to
    BY <1>3, <1>4, <1>7
  <2>3. ASSUME NEW i \in 1..k PROVE more[i] = got[i]
    BY <1>3, <1>4, <2>1, <2>2
  <2>4. ASSUME NEW i \in (k + 1)..to PROVE more[i] = s[i]
    <3>1. /\ i \in 1..to /\ ~(i <= k) /\ i - k \in 1..(to - k) /\ k + (i - k) = i
      BY <1>3, <1>4
    <3>2. more[i] = last[i - k]
      BY <1>3, <2>1, <2>2, <3>1
    <3>3. last[i - k] = s[k + (i - k)]
      BY <1>7, <3>1
    <3>4. QED
      BY <3>1, <3>2, <3>3
  <2>5. QED
    BY <2>1, <2>2, <2>3, <2>4
<1>11. DOMAIN more = 1..to /\ DOMAIN got = 1..k /\ DOMAIN s = 1..m
  BY <1>2, <1>3, <1>10, LenProperties
<1>12. \A i \in 1..k : got[i] \in Prefix(s, k)
  BY <1>3, <1>11 DEF Elements
<1>13. \A i \in (k + 1)..to : s[i] \notin Prefix(s, k)
  <2>1. SUFFICES ASSUME NEW i \in (k + 1)..to, NEW j \in 1..k, s[i] = s[j] PROVE FALSE
    BY DEF Prefix
  <2>2. i \in 1..m /\ j \in 1..m /\ i # j
    BY <1>3, <1>4
  <2>3. QED
    BY <1>2, <1>11, <2>1, <2>2 DEF Distinct
<1>14. Distinct(more)
  <2>1. SUFFICES ASSUME NEW i \in 1..to, NEW j \in 1..to, more[i] = more[j] PROVE i = j
    BY <1>11 DEF Distinct
  <2>2. /\ i \in 1..k \/ i \in (k + 1)..to
        /\ j \in 1..k \/ j \in (k + 1)..to
    BY <1>3, <1>4
  <2>3. CASE i \in 1..k /\ j \in 1..k
    <3>1. got[i] = got[j]
      BY <1>10, <2>1, <2>3
    <3>2. QED
      BY <1>11, <2>3, <3>1 DEF Distinct
  <2>4. CASE i \in (k + 1)..to /\ j \in (k + 1)..to
    <3>1. i \in 1..m /\ j \in 1..m /\ s[i] = s[j]
      BY <1>3, <1>4, <1>10, <2>1, <2>4
    <3>2. QED
      BY <1>2, <1>11, <3>1 DEF Distinct
  <2>5. CASE i \in 1..k /\ j \in (k + 1)..to
    BY <1>10, <1>12, <1>13, <2>1, <2>5
  <2>6. CASE i \in (k + 1)..to /\ j \in 1..k
    BY <1>10, <1>12, <1>13, <2>1, <2>6
  <2>7. QED
    BY <2>2, <2>3, <2>4, <2>5, <2>6
<1>15. Elements(more) = Prefix(s, to)
  <2>1. ASSUME NEW i \in 1..to PROVE more[i] \in Prefix(s, to)
    <3>1. CASE i \in 1..k
      <4>1. more[i] \in Prefix(s, k)
        BY <1>10, <1>12, <3>1
      <4>2. PICK j \in 1..k : more[i] = s[j]
        BY <4>1 DEF Prefix
      <4>3. j \in 1..to
        BY <1>3, <1>4
      <4>4. QED
        BY <4>2, <4>3 DEF Prefix
    <3>2. CASE i \in (k + 1)..to
      <4>1. more[i] = s[i]
        BY <1>10, <3>2
      <4>2. QED
        BY <2>1, <4>1 DEF Prefix
    <3>3. i \in 1..k \/ i \in (k + 1)..to
      BY <1>3, <1>4, <2>1
    <3>4. QED
      BY <3>1, <3>2, <3>3
  <2>2. ASSUME NEW i \in 1..to PROVE \E j \in 1..to : s[i] = more[j]
    <3>1. CASE i \in 1..k
      <4>1. s[i] \in Elements(got)
        BY <1>3, <3>1 DEF Prefix
      <4>2. PICK j \in 1..k : s[i] = got[j]
        BY <1>11, <4>1 DEF Elements
      <4>3. j \in 1..to /\ more[j] = got[j]
        BY <1>3, <1>4, <1>10
      <4>4. QED
        BY <4>2, <4>3
    <3>2. CASE i \in (k + 1)..to
      <4>1. more[i] = s[i]
        BY <1>10, <3>2
      <4>2. QED
        BY <2>2, <4>1
    <3>3. i \in 1..k \/ i \in (k + 1)..to
      BY <1>3, <1>4, <2>2
    <3>4. QED
      BY <3>1, <3>2, <3>3
  <2>3. Elements(more) \subseteq Prefix(s, to)
    BY <1>11, <2>1 DEF Elements
  <2>4. Prefix(s, to) \subseteq Elements(more)
    BY <1>11, <2>2 DEF Elements, Prefix
  <2>5. QED
    BY <2>3, <2>4
<1>16. to \in 0..Cardinality(Rows(u))
  BY <1>1, <1>4
<1>17. QED
  BY <1>01, <1>02, <1>03, <1>10, <1>14, <1>15, <1>16


LEMMA ReadPageWhole ==
  ASSUME RecordListAssumption, WholeInv, TypeOK', NEW n \in Loads, ReadPage(n)
  PROVE  \A m \in Loads : WholeSoFar(loads[m])'
<1>0. /\ live \subseteq Records /\ uploads \in Seq(Runs) /\ Filed
      /\ loads \in [Loads -> Load] /\ loads[n] \in Load
  BY DEF WholeInv, ListInv, TypeOK
<1>1. PICK u : u = loads[n].run
  OBVIOUS
<1>2. PICK got \in Seq(Records) : got = loads[n].got
  BY <1>0 DEF Load
<1>3. PICK s \in Listings(u) :
        LET last == PageOf(s, Len(got))
        IN  loads' = [loads EXCEPT ![n].got = got \o last,
                        ![n].at = IF Ends(got \o last, last, Len(s)) THEN "read" ELSE "reading"]
  BY <1>1, <1>2 DEF ReadPage
<1>4. PICK last : last = PageOf(s, Len(got))
  OBVIOUS
<1>5. PICK more : more = got \o last
  OBVIOUS
<1>6. PICK at \in {"read", "reading"} :
            at = IF Ends(more, last, Len(s)) THEN "read" ELSE "reading"
  OBVIOUS
<1>7. loads' = [loads EXCEPT ![n].got = more, ![n].at = at]
  BY <1>3, <1>4, <1>5, <1>6
<1>8. /\ loads'[n].got = more /\ loads'[n].at = at
      /\ loads'[n].run = u /\ loads'[n].quiet = loads[n].quiet
      /\ \A m \in Loads : m # n => loads'[m] = loads[m]
  BY <1>0, <1>1, <1>7 DEF Load
<1>9. UNCHANGED <<uploads, live>>
  BY DEF ReadPage, server
<1>10. \A v : Rows(v)' = Rows(v) /\ Listings(v)' = Listings(v) /\ Straddles(v)' = Straddles(v)
  BY <1>9 DEF Rows, Listings, Newer, Straddles
<1>11. ASSUME NEW m \in Loads, m # n PROVE WholeSoFar(loads[m])'
  BY <1>8, <1>10, <1>11 DEF WholeInv, WholeSoFar
<1>12. WholeSoFar(loads[n])'
  <2>1. SUFFICES ASSUME loads[n].quiet, ~Straddles(u)
                 PROVE  /\ Len(more) <= Cardinality(Rows(u)) /\ Distinct(more)
                        /\ \A t \in Listings(u) : Elements(more) = Prefix(t, Len(more))
                        /\ at = "reading" => Len(more) % Limit = 0
                        /\ at = "read" => Elements(more) = Rows(u)
    BY <1>8, <1>10 DEF WholeSoFar
  <2>2. /\ loads[n].at = "reading" /\ WholeSoFar(loads[n])
    BY DEF ReadPage, WholeInv
  <2>3. /\ Len(got) <= Cardinality(Rows(u)) /\ Distinct(got)
        /\ Elements(got) = Prefix(s, Len(got)) /\ Len(got) % Limit = 0
    BY <1>1, <1>2, <2>1, <2>2 DEF WholeSoFar
  <2>4. PICK to : to = IF Len(got) + Limit < Len(s) THEN Len(got) + Limit ELSE Len(s)
    OBVIOUS
  <2>5. /\ to \in 0..Cardinality(Rows(u)) /\ Len(more) = to
        /\ Distinct(more) /\ Elements(more) = Prefix(s, to)
    BY <1>0, <1>4, <1>5, <2>3, <2>4, PageExtends
  <2>6. /\ Len(s) = Cardinality(Rows(u)) /\ Cardinality(Rows(u)) \in Nat
        /\ \A t \in Listings(u) : Prefix(t, Cardinality(Rows(u))) = Rows(u)
    BY <1>0, ListingIsWhole
  <2>7. Len(got) \in Nat /\ Limit \in Nat \ {0}
    BY LenProperties DEF RecordListAssumption
  <2>8. to = Cardinality(Rows(u)) \/ to % Limit = 0
    BY <2>3, <2>4, <2>6, <2>7, NextBoundary
  <2>9. \A t \in Listings(u) : Elements(more) = Prefix(t, to)
    <3>1. CASE to = Cardinality(Rows(u))
      BY <2>5, <2>6, <3>1
    <3>2. CASE to % Limit = 0
      BY <1>0, <2>1, <2>5, <3>2, PagesAgree
    <3>3. QED
      BY <2>8, <3>1, <3>2
  <2>10. at = "reading" => Len(more) % Limit = 0
    <3>1. at = "reading" => ~(Len(more) >= Len(s))
      BY <1>6 DEF Ends
    <3>2. QED
      BY <2>5, <2>6, <2>8, <3>1
  <2>11. at = "read" => to = Cardinality(Rows(u))
    <3>1. SUFFICES ASSUME at = "read", to # Cardinality(Rows(u)) PROVE FALSE
      OBVIOUS
    <3>2. last = <<>>
      BY <1>6, <2>5, <2>6, <3>1 DEF Ends
    <3>3. more = got
      BY <1>2, <1>5, <3>2, ConcatEmptySeq
    <3>4. QED
      BY <2>4, <2>5, <2>6, <2>7, <3>1, <3>3
  <2>12. QED
    BY <2>5, <2>6, <2>9, <2>10, <2>11
<1>13. QED
  BY <1>11, <1>12

-----------------------------------------------------------------------------
(* The other steps.                                                        *)

\* No row comes or goes.  A load starts or ends; it fails if an error is
\* shown or the page is left.
Kept ==
    /\ UNCHANGED server
    /\ \A n \in Loads :
        \/ loads'[n] = loads[n]
        \/ loads[n].at = "idle" /\ loads'[n].at = "reading" /\ loads'[n].got = <<>>
        \/ loads'[n].at = "idle" /\ (LoadEnds(n) \/ failed' \/ page' = "history")

\* Rows come or go, and every listing under way knows.
Upset == Filed' /\ \A n \in Loads : ~loads'[n].quiet /\ loads'[n].at = loads[n].at

LEMMA CallLoadKept ==
  ASSUME TypeOK, UNCHANGED server, NEW n \in Loads, NEW u, NEW uploaded \in BOOLEAN,
         CallLoad(n, u, uploaded)
  PROVE  Kept
<1>1. PICK load : load = NoLoad /\ load = [at |-> "idle", run |-> All, got |-> <<>>,
                                           quiet |-> TRUE, uploaded |-> FALSE]
  BY DEF NoLoad
<1>2. [load EXCEPT !.at = "reading", !.run = u, !.uploaded = uploaded] \in
            [at : {"reading"}, run : {u}, got : {<<>>}, quiet : BOOLEAN, uploaded : BOOLEAN]
  BY <1>1, StartedFrom
<1>3. Started(u, uploaded).at = "reading" /\ Started(u, uploaded).got = <<>>
  BY <1>1, <1>2 DEF Started
<1>4. /\ loads[n].at = "idle" /\ loads'[n] = Started(u, uploaded)
      /\ \A m \in Loads : m # n => loads'[m] = loads[m]
  BY DEF CallLoad, TypeOK
<1>5. QED
  BY <1>3, <1>4 DEF Kept

LEMMA EndsKept ==
  ASSUME TypeOK, NEW n \in Loads, LoadEnds(n) \/ LoadFails(n)
  PROVE  Kept
<1>1. /\ loads' = [loads EXCEPT ![n] = NoLoad] /\ NoLoad.at = "idle"
      /\ loads \in [Loads -> Load] /\ UNCHANGED server
  BY DEF LoadEnds, LoadFails, TypeOK, NoLoad
<1>2. loads'[n].at = "idle" /\ \A m \in Loads : m # n => loads'[m] = loads[m]
  BY <1>1
<1>3. LoadEnds(n) \/ failed'
  BY DEF LoadFails
<1>4. QED
  BY <1>1, <1>2, <1>3 DEF Kept

LEMMA LeaveKept == ASSUME Leave PROVE Kept
<1>1. /\ \A n \in Loads : loads'[n] = NoLoad
      /\ page' = "history" /\ UNCHANGED server
  BY DEF Leave
<1>2. \A n \in Loads : loads'[n].at = "idle"
  BY <1>1 DEF NoLoad
<1>3. QED
  BY <1>1, <1>2 DEF Kept

LEMMA StaysKept == ASSUME UNCHANGED <<server, loads>> PROVE Kept
  BY DEF Kept

LEMMA UpsetLoads ==
  ASSUME TypeOK, loads' = Disturbed, Filed' PROVE Upset
<1>1. \A n \in Loads : Disturbed[n] = [loads[n] EXCEPT !.quiet = FALSE] /\ loads[n] \in Load
  BY DEF Disturbed, TypeOK
<1>2. \A n \in Loads : ~Disturbed[n].quiet /\ Disturbed[n].at = loads[n].at
  BY <1>1 DEF Load
<1>3. QED
  BY <1>2 DEF Upset

LEMMA StoreUpsets ==
  ASSUME TypeOK, Filed, NEW u \in Runs, Store(u) PROVE Upset
<1>1. uploads \in Seq(Runs) /\ <<u>> \in Seq(Runs)
  BY DEF TypeOK
<1>2. uploads' = Append(uploads, u)
  BY DEF Store
<1>3. /\ Len(uploads') = Len(uploads) + 1 /\ Len(uploads) \in Nat
      /\ DOMAIN uploads = 1..Len(uploads) /\ DOMAIN uploads' = 1..Len(uploads')
      /\ uploads'[Len(uploads) + 1] = u
      /\ \A i \in 1..Len(uploads) : uploads'[i] = uploads[i]
  BY <1>1, <1>2
<1>4. u \in Elements(uploads') /\ Elements(uploads) \subseteq Elements(uploads')
  BY <1>3 DEF Elements
<1>5. \A r \in live' : RunOf[r] \in Elements(uploads')
  BY <1>4 DEF Store, Filed
<1>6. Filed'
  BY <1>5 DEF Filed
<1>7. QED
  BY <1>6, UpsetLoads DEF Store

LEMMA RemovalUpsets ==
  ASSUME TypeOK, Filed, UNCHANGED uploads, live' \subseteq live, loads' = Disturbed
  PROVE  Upset
<1>1. Filed'
  BY DEF Filed
<1>2. QED
  BY <1>1, UpsetLoads

\* A step reads a page, or brings or takes rows, or does neither.
LEMMA StepKinds ==
  ASSUME TypeOK, Filed, [Next]_vars
  PROVE  Kept \/ Upset \/ \E n \in Loads : ReadPage(n)
<1>1. ASSUME NEW n \in Loads, LoadEnds(n) \/ LoadFails(n) PROVE Kept
  BY <1>1, EndsKept
<1>2. ASSUME NEW read \in runReads, ServeRuns(read) \/ RunsFail(read) PROVE Kept
  BY <1>2, StaysKept DEF ServeRuns, RunsFail
<1>3. ASSUME NEW u \in Runs, ServeUpload(u) \/ UploadElsewhere(u) PROVE Upset
  BY <1>3, StoreUpsets DEF ServeUpload, UploadElsewhere
<1>4. ASSUME NEW u \in Runs, HearUploadLate(u) \/ UploadFails(u) PROVE Kept
  BY <1>4, StaysKept DEF HearUploadLate, UploadFails, listing
<1>5. ASSUME NEW n \in Loads, NEW u \in Runs, HearUpload(n, u) PROVE Kept
  BY <1>5, CallLoadKept DEF HearUpload
<1>6. CASE EndUpload
  BY <1>6, StaysKept DEF EndUpload, listing
<1>7. ASSUME NEW d \in deletes, ServeDelete(d) PROVE Upset
  BY <1>7, RemovalUpsets DEF ServeDelete
<1>8. ASSUME NEW d \in deletes, HearDeleted(d) \/ DeleteFails(d) PROVE Kept
  BY <1>8, StaysKept DEF HearDeleted, DeleteFails, listing
<1>9. ASSUME NEW r \in Records, DeleteElsewhere(r) PROVE Upset
  BY <1>9, RemovalUpsets DEF DeleteElsewhere
<1>10. CASE Deciding
  BY <1>10, StaysKept DEF Deciding, Cancel, ConfirmDelete, ConfirmBulkDelete, Confirm, listing
<1>11. CASE Leave
  BY <1>11, LeaveKept
<1>12. CASE TickAll \/ AskBulkDelete \/ Dismiss
  BY <1>12, StaysKept DEF TickAll, Ticks, AskBulkDelete, Ask, Dismiss, listing
<1>13. ASSUME NEW n \in Loads, NEW u, Visit(n, u) \/ Choose(n, u) \/ Back(n, u) PROVE Kept
  BY <1>13, CallLoadKept DEF Visit, Choose, Back, GoTo
<1>14. ASSUME NEW status, SetFilter(status) PROVE Kept
  BY <1>14, StaysKept DEF SetFilter, listing
<1>15. ASSUME NEW matches, Search(matches) PROVE Kept
  BY <1>15, StaysKept DEF Search, listing
<1>16. ASSUME NEW r, Tick(r) \/ AskDelete(r) PROVE Kept
  BY <1>16, StaysKept DEF Tick, Ticks, AskDelete, Ask, listing
<1>17. ASSUME NEW u, PickFile(u) PROVE Kept
  BY <1>17, StaysKept DEF PickFile, listing
<1>18. CASE UNCHANGED vars
  BY <1>18, StaysKept DEF vars, listing
<1>19. CASE Answering
  BY <1>1, <1>2, <1>3, <1>4, <1>5, <1>6, <1>7, <1>8, <1>19 DEF Answering
<1>20. CASE Failing
  BY <1>1, <1>2, <1>4, <1>8, <1>20 DEF Failing
<1>21. CASE Using
  BY <1>11, <1>12, <1>13, <1>14, <1>15, <1>16, <1>17, <1>21 DEF Using
<1>22. CASE Elsewhere
  BY <1>3, <1>9, <1>22 DEF Elsewhere
<1>23. QED
  BY <1>10, <1>18, <1>19, <1>20, <1>21, <1>22 DEF Next


LEMMA StartedWhole ==
  ASSUME RecordListAssumption, live \subseteq Records,
         NEW load, load.at = "reading", load.got = <<>>
  PROVE  WholeSoFar(load)
<1>1. Rows(load.run) \subseteq Records /\ Limit \in Nat \ {0}
  BY DEF Rows, RecordListAssumption
<1>2. Cardinality(Rows(load.run)) \in Nat
  BY <1>1, FS_Subset, FS_CardinalityType DEF RecordListAssumption
<1>3. Len(load.got) = 0 /\ DOMAIN load.got = {} /\ 0 % Limit = 0
  BY <1>1
<1>4. \A s : Prefix(s, 0) = {} /\ Elements(load.got) = {}
  BY <1>3 DEF Prefix, Elements
<1>5. /\ 0 <= Cardinality(Rows(load.run))
      /\ Distinct(load.got)
      /\ \A s \in Listings(load.run) : Elements(load.got) = Prefix(s, 0)
  <2>1. 0 <= Cardinality(Rows(load.run))
    BY <1>2
  <2>2. Distinct(load.got)
    BY <1>3 DEF Distinct
  <2>3. \A s \in Listings(load.run) : Elements(load.got) = Prefix(s, 0)
    BY <1>4, Zenon
  <2>4. QED
    BY <2>1, <2>2, <2>3
<1>6. load.at # "read"
  OBVIOUS
<1>7. QED
  BY <1>3, <1>5, <1>6, Zenon DEF WholeSoFar

LEMMA KeptWhole ==
  ASSUME RecordListAssumption, WholeInv, TypeOK', Kept
  PROVE  \A n \in Loads : WholeSoFar(loads[n])'
<1>1. UNCHANGED <<uploads, live>> /\ live' \subseteq Records
  BY DEF Kept, server, TypeOK
<1>2. \A v : Rows(v)' = Rows(v) /\ Listings(v)' = Listings(v) /\ Straddles(v)' = Straddles(v)
  BY <1>1 DEF Rows, Listings, Newer, Straddles
<1>3. SUFFICES ASSUME NEW n \in Loads PROVE WholeSoFar(loads[n])'
  OBVIOUS
<1>4. PICK load : load = loads'[n]
  OBVIOUS
<1>5. WholeSoFar(load)
  <2>1. CASE load = loads[n]
    BY <2>1 DEF WholeInv
  <2>2. CASE load.at = "reading" /\ load.got = <<>>
    BY <1>1, <2>2, StartedWhole
  <2>3. CASE load.at = "idle"
    BY <2>3 DEF WholeSoFar
  <2>4. QED
    BY <1>4, <2>1, <2>2, <2>3 DEF Kept
<1>6. QED
  BY <1>2, <1>4, <1>5 DEF WholeSoFar

LEMMA InitWhole == ASSUME RecordListAssumption, Init PROVE WholeInv
<1>1. ListInv
  BY InitInv
<1>2. Filed
  BY DEF Init, Filed
<1>3. ASSUME NEW n \in Loads PROVE WholeSoFar(loads[n])
  <2>1. PICK load : load = NoLoad /\ load = [at |-> "idle", run |-> All, got |-> <<>>,
                                             quiet |-> TRUE, uploaded |-> FALSE]
    BY DEF NoLoad
  <2>2. [load EXCEPT !.at = "reading", !.run = All, !.uploaded = FALSE] \in
            [at : {"reading"}, run : {All}, got : {<<>>}, quiet : BOOLEAN, uploaded : BOOLEAN]
    BY <2>1, StartedFrom
  <2>3. Started(All, FALSE).at = "reading" /\ Started(All, FALSE).got = <<>>
    BY <2>1, <2>2 DEF Started
  <2>4. loads[n] = Started(All, FALSE) \/ loads[n].at = "idle"
    <3>1. loads = [m \in Loads |-> IF m = 1 THEN Started(All, FALSE) ELSE NoLoad]
      BY DEF Init
    <3>2. NoLoad.at = "idle"
      BY <2>1
    <3>3. loads[n] = IF n = 1 THEN Started(All, FALSE) ELSE NoLoad
      BY <1>3, <3>1
    <3>4. QED
      BY <3>2, <3>3
  <2>5. live \subseteq Records
    BY DEF Init
  <2>6. QED
    BY <2>3, <2>4, <2>5, StartedWhole DEF WholeSoFar
<1>4. QED
  BY <1>1, <1>2, <1>3 DEF WholeInv

LEMMA NextWhole ==
  ASSUME RecordListAssumption, WholeInv, [Next]_vars PROVE WholeInv'
<1>1. ListInv' /\ TypeOK /\ TypeOK' /\ Filed
  BY NextInv DEF WholeInv, ListInv
<1>2. CASE Kept
  <2>1. Filed'
    BY <1>1, <1>2 DEF Kept, server, Filed
  <2>2. QED
    BY <1>1, <1>2, <2>1, KeptWhole DEF WholeInv
<1>3. CASE Upset
  <2>1. \A n \in Loads : WholeSoFar(loads[n])'
    BY <1>3 DEF Upset, WholeSoFar
  <2>2. QED
    BY <1>1, <1>3, <2>1 DEF WholeInv, Upset
<1>4. ASSUME NEW n \in Loads, ReadPage(n) PROVE WholeInv'
  <2>1. Filed'
    BY <1>1, <1>4 DEF ReadPage, server, Filed
  <2>2. QED
    BY <1>1, <1>4, <2>1, ReadPageWhole DEF WholeInv
<1>5. QED
  BY <1>1, <1>2, <1>3, <1>4, StepKinds

\* Every row once: as many cards of a status as rows.
LEMMA CardsCount ==
  ASSUME NEW S, IsFiniteSet(S), NEW got, Distinct(got), Elements(got) = S, NEW status,
         NEW A, A = {i \in DOMAIN got : StatusOf(got[i]) = status},
         NEW B, B = {r \in S : StatusOf(r) = status}
  PROVE  Cardinality(A) = Cardinality(B)
<1>3. IsFiniteSet(B)
  BY FS_Subset
<1>4. PICK f : f = [i \in A |-> got[i]]
  OBVIOUS
<1>5. f \in [A -> B] /\ \A i \in A : f[i] = got[i]
  BY <1>4 DEF Elements
<1>6. \A i, j \in A : f[i] = f[j] => i = j
  BY <1>5 DEF Distinct
<1>7. \A r \in B : \E i \in A : f[i] = r
  BY <1>5 DEF Elements
<1>8. f \in Injection(A, B) /\ f \in Surjection(A, B)
  BY <1>5, <1>6, <1>7 DEF Injection, Surjection, IsInjective
<1>9. QED
  BY <1>3, <1>8, FS_Injection

\* What the loads in flight have read is what every answer begins with, as long
\* as no row comes or goes and no upload straddles a page boundary.
THEOREM WholeInvariant == Spec => []WholeInv
<1>1. Init => WholeInv
  BY InitWhole, RecordListAssumption
<1>2. WholeInv /\ [Next]_vars => WholeInv'
  BY NextWhole, RecordListAssumption
<1>3. QED
  BY <1>1, <1>2, PTL DEF Spec

\* A listing that no upload or deletion disturbs ends with every row of its
\* upload once, for any page size and any order of tied rows, unless an upload
\* straddles a page boundary (listRecords()).
THEOREM ListingsAreWhole == Spec => QuietListingIsWhole
<1>1. WholeInv /\ [Next]_vars =>
    [\A n \in Loads :
        (/\ loads[n].at = "read" /\ loads'[n].at = "idle" /\ page' = "records" /\ ~failed'
         /\ loads[n].quiet /\ ~Straddles(loads[n].run))
        => \A status \in Statuses :
            Cards'[status] = Cardinality({r \in Rows(loads[n].run) : StatusOf(r) = status})]_vars
  <2>1. SUFFICES
          ASSUME WholeInv, Next, NEW n \in Loads,
                 loads[n].at = "read", loads'[n].at = "idle", page' = "records", ~failed',
                 loads[n].quiet, ~Straddles(loads[n].run)
          PROVE  \A status \in Statuses :
                    Cards'[status] = Cardinality({r \in Rows(loads[n].run) : StatusOf(r) = status})
    OBVIOUS
  <2>2. TypeOK /\ Filed /\ WholeSoFar(loads[n])
    BY <2>1 DEF WholeInv, ListInv
  <2>3. Kept
    <3>1. ~Upset
      BY <2>1 DEF Upset
    <3>2. ASSUME NEW m \in Loads, ReadPage(m) PROVE FALSE
      <4>1. loads[n] # loads'[n]
        BY <2>1
      <4>2. loads[m].at = "reading" /\ \A k \in Loads : k # m => loads'[k] = loads[k]
        BY <2>2, <3>2 DEF ReadPage, TypeOK
      <4>3. QED
        BY <2>1, <4>1, <4>2
    <3>3. QED
      BY <2>1, <2>2, <3>1, <3>2, StepKinds
  <2>4. LoadEnds(n)
    BY <2>1, <2>3 DEF Kept
  <2>5. PICK got : got = loads[n].got
    OBVIOUS
  <2>6. shown' = got
    BY <2>4, <2>5 DEF LoadEnds
  <2>7. Distinct(got) /\ Elements(got) = Rows(loads[n].run)
    BY <2>1, <2>2, <2>5 DEF WholeSoFar
  <2>8. IsFiniteSet(Rows(loads[n].run))
    BY <2>2, FS_Subset, RecordListAssumption DEF Rows, TypeOK, RecordListAssumption
  <2>9. ASSUME NEW status \in Statuses
        PROVE  Cards'[status] =
                    Cardinality({r \in Rows(loads[n].run) : StatusOf(r) = status})
    <3>1. Cards' = [k \in Statuses |->
                        Cardinality({i \in DOMAIN got : StatusOf(got[i]) = k})]
      BY <2>6 DEF Cards, StatusOf
    <3>2. Cards'[status] = Cardinality({i \in DOMAIN got : StatusOf(got[i]) = status})
      BY <2>9, <3>1
    <3>3. PICK A : A = {i \in DOMAIN got : StatusOf(got[i]) = status}
      OBVIOUS
    <3>4. PICK B : B = {r \in Rows(loads[n].run) : StatusOf(r) = status}
      OBVIOUS
    <3>5. Cardinality(A) = Cardinality(B)
      BY <2>7, <2>8, <3>3, <3>4, CardsCount
    <3>6. QED
      BY <3>2, <3>3, <3>4, <3>5
  <2>10. QED
    BY <2>9
<1>2. QED
  BY <1>1, WholeInvariant, PTL DEF Spec, QuietListingIsWhole

-----------------------------------------------------------------------------
(***************************************************************************)
(* Proofs about ColumnMapping for any files, names and bounds.  They stand *)
(* here for the lemmas they share with those above: the positions of a     *)
(* sequence (Picked), and the least counterexample.  MappingInv says of    *)
(* every saved mapping whose columns it maps, and of every run what its    *)
(* fields are made of.                                                     *)
(***************************************************************************)

-----------------------------------------------------------------------------
(* The loop over rename_map.                                               *)

\* The k-th old name is given its new one.
Turn(g, k, moves) ==
    Relabel(g, OldNames(moves)[k], NewName(moves, OldNames(moves)[k]))

\* The fields after each of its steps.
Loop(f, n, fields, moves) ==
    f = [k \in 0..n |-> IF k = 0 THEN fields
                        ELSE Turn(f[k - 1], k, moves)]

LEMMA LoopExists ==
  ASSUME NEW fields, NEW moves, NEW n \in Nat
  PROVE  \E f : Loop(f, n, fields, moves)
<1> DEFINE T == {m \in Nat : ~\E f : Loop(f, m, fields, moves)}
<1>1. SUFFICES ASSUME n \in T PROVE FALSE
  OBVIOUS
<1>2. PICK m \in T : \A l \in T : m <= l
  <2>1. T \in SUBSET Nat /\ T # {}
    BY <1>1
  <2>2. QED
    BY <2>1, LeastNatural
<1>3. m # 0
  <2>1. PICK f : f = [k \in 0..0 |-> fields]
    OBVIOUS
  <2>2. Loop(f, 0, fields, moves)
    BY <2>1 DEF Loop
  <2>3. QED
    BY <1>2, <2>2
<1>4. m - 1 \in Nat /\ m - 1 \notin T
  BY <1>2, <1>3
<1>5. PICK f : Loop(f, m - 1, fields, moves)
  BY <1>4
<1>6. PICK x : x = Turn(f[m - 1], m, moves)
  OBVIOUS
<1>7. PICK g : g = [k \in 0..m |-> IF k = m THEN x ELSE f[k]]
  OBVIOUS
<1>8. \A k \in 0..m-1 : g[k] = f[k]
  BY <1>2, <1>7
<1>9. ASSUME NEW k \in 0..m
      PROVE  g[k] = IF k = 0 THEN fields
                    ELSE Turn(g[k - 1], k, moves)
  <2>1. CASE k = m
    <3>1. g[k] = x /\ g[m - 1] = f[m - 1] /\ k # 0
      BY <1>2, <1>3, <1>7, <1>8, <2>1
    <3>2. QED
      BY <1>6, <2>1, <3>1
  <2>2. CASE k # m
    <3>1. k \in 0..m-1 /\ (k # 0 => k - 1 \in 0..m-1)
      BY <1>2, <2>2
    <3>2. f[k] = IF k = 0 THEN fields
                 ELSE Turn(f[k - 1], k, moves)
      BY <1>5, <3>1 DEF Loop
    <3>3. QED
      BY <1>8, <3>1, <3>2
  <2>3. QED
    BY <2>1, <2>2
<1>10. Loop(g, m, fields, moves)
  BY <1>7, <1>9 DEF Loop
<1>11. QED
  BY <1>2, <1>10

LEMMA RenamedIsLoop ==
  ASSUME NEW fields, NEW moves, Len(OldNames(moves)) \in Nat
  PROVE  \E f : /\ Renamed(fields, moves) = f[Len(OldNames(moves))]
                /\ f[0] = fields
                /\ \A k \in 1..Len(OldNames(moves)) :
                      f[k] = Turn(f[k - 1], k, moves)
<1>1. PICK f : f = CHOOSE g : Loop(g, Len(OldNames(moves)), fields, moves)
  OBVIOUS
<1>2. Loop(f, Len(OldNames(moves)), fields, moves)
  BY <1>1, LoopExists
<1>3. Renamed(fields, moves) = f[Len(OldNames(moves))]
  BY <1>1 DEF Renamed, Loop, Turn
<1>4. f[0] = fields
  BY <1>2 DEF Loop
<1>5. \A k \in 1..Len(OldNames(moves)) :
         f[k] = Turn(f[k - 1], k, moves)
  BY <1>2 DEF Loop
<1>6. QED
  BY <1>3, <1>4, <1>5

-----------------------------------------------------------------------------
(* Types of what the mapping is made of.                                   *)

FieldNames == Targets \cup {NoTarget} \cup
              UNION {{DefaultTarget(f, i) : i \in DOMAIN f} : f \in Files}
Entry == [column : Headers, target : FieldNames]

ColumnsOnce(resolution) ==
    \A i, j \in DOMAIN resolution : resolution[i].column = resolution[j].column => i = j

\* A mapping of the columns of one shape.
Fits(resolution, shape) ==
    /\ resolution \in Seq(Entry) /\ ColumnsOnce(resolution)
    /\ Fingerprint(ColumnsOf(resolution)) = shape

LEMMA FileType ==
  ASSUME MappingAssumption, NEW f \in Files
  PROVE  f \in Seq(Headers) /\ \A i, j \in DOMAIN f : f[i] = f[j] => i = j
<1>1. f \in Seq(Elements(f)) /\ \A i, j \in DOMAIN f : f[i] = f[j] => i = j
  BY DEF MappingAssumption
<1>2. Elements(f) \subseteq Headers
  BY DEF Headers
<1>3. QED
  BY <1>1, <1>2, SeqMonotonic

\* Mappings of the same columns.
LEMMA SameColumnsFit ==
  ASSUME NEW r \in Seq(Entry), NEW s \in Seq(Entry), NEW shape,
         ColumnsOf(r) = ColumnsOf(s), Fits(r, shape)
  PROVE  Fits(s, shape)
<1>1. DOMAIN r = DOMAIN s
  BY DEF ColumnsOf
<1>2. \A i \in DOMAIN r : r[i].column = s[i].column
  BY <1>1 DEF ColumnsOf
<1>3. ColumnsOnce(s)
  BY <1>1, <1>2 DEF Fits, ColumnsOnce
<1>4. QED
  BY <1>3 DEF Fits

LEMMA DefaultFits ==
  ASSUME MappingAssumption, NEW f \in Files
  PROVE  Fits(DefaultResolution(f), Fingerprint(f))
<1>1. /\ f \in Seq(Headers) /\ \A i, j \in DOMAIN f : f[i] = f[j] => i = j
      /\ Len(f) \in Nat /\ DOMAIN f = 1..Len(f) /\ \A i \in DOMAIN f : f[i] \in Headers
  BY FileType, LenProperties, ElementOfSeq
<1>2. PICK r : r = [i \in DOMAIN f |-> [column |-> f[i], target |-> DefaultTarget(f, i)]]
  OBVIOUS
<1>3. \A i \in DOMAIN f : [column |-> f[i], target |-> DefaultTarget(f, i)] \in Entry
  BY <1>1 DEF Entry, FieldNames
<1>4. r \in Seq(Entry) /\ DOMAIN r = DOMAIN f
  BY <1>1, <1>2, <1>3, IsASeq
<1>5. \A i \in DOMAIN f : r[i].column = f[i]
  BY <1>2
<1>6. ColumnsOnce(r)
  BY <1>1, <1>4, <1>5 DEF ColumnsOnce
<1>7. ColumnsOf(r) = f
  BY <1>1, <1>4, <1>5 DEF ColumnsOf
<1>8. r = DefaultResolution(f)
  BY <1>2 DEF DefaultResolution
<1>9. QED
  BY <1>4, <1>6, <1>7, <1>8 DEF Fits

LEMMA EditedFits ==
  ASSUME NEW s, NEW shape, Fits(s, shape), NEW choice \in TargetChoices(s)
  PROVE  /\ Fits(Edited(s, choice), shape)
         /\ TargetsOf(Edited(s, choice)) \subseteq Targets
<1>1. /\ s \in Seq(Entry) /\ Len(s) \in Nat /\ DOMAIN s = 1..Len(s)
      /\ \A i \in DOMAIN s : s[i] \in Entry
  BY LenProperties, ElementOfSeq DEF Fits
<1>2. choice \in [DOMAIN s -> Targets \cup {NoTarget}]
  BY DEF TargetChoices
<1>3. PICK r : r = [i \in DOMAIN s |-> [column |-> s[i].column, target |-> choice[i]]]
  OBVIOUS
<1>4. \A i \in DOMAIN s : [column |-> s[i].column, target |-> choice[i]] \in Entry
  BY <1>1, <1>2 DEF Entry, FieldNames
<1>5. r \in Seq(Entry) /\ DOMAIN r = DOMAIN s
  BY <1>1, <1>3, <1>4, IsASeq
<1>6. \A i \in DOMAIN s : r[i].column = s[i].column /\ r[i].target \in Targets \cup {NoTarget}
  BY <1>2, <1>3
<1>7. ColumnsOf(s) = ColumnsOf(r)
  BY <1>5, <1>6 DEF ColumnsOf
<1>8. Fits(r, shape)
  BY <1>1, <1>5, <1>7, SameColumnsFit
<1>9. TargetsOf(r) \subseteq Targets
  BY <1>5, <1>6 DEF TargetsOf
<1>10. r = Edited(s, choice)
  BY <1>3 DEF Edited
<1>11. QED
  BY <1>8, <1>9, <1>10

-----------------------------------------------------------------------------
(* What a review does to stored fields, whatever it is.                    *)

\* ValuesStayWhole of one run's fields: made are those of its upload.
Whole(fields, made) ==
    /\ \A t \in DOMAIN fields : Blank(fields[t]) \/ \E u \in DOMAIN made : fields[t] = made[u]
    /\ \A t, u \in DOMAIN fields : fields[t] = fields[u] /\ ~Blank(fields[t]) => t = u

Fields(fields) == fields \in [DOMAIN fields -> Seq(Headers)]

LEMMA MadeWhole ==
  ASSUME NEW r \in Seq(Entry), ColumnsOnce(r)
  PROVE  /\ ApplyMapping(r) \in [TargetsOf(r) -> Seq(Headers)]
         /\ Whole(ApplyMapping(r), ApplyMapping(r))
<1>1. Len(r) \in Nat /\ DOMAIN r = 1..Len(r) /\ \A i \in DOMAIN r : r[i] \in Entry
  BY LenProperties, ElementOfSeq
<1>2. ColumnsOf(r) \in Seq(Headers) /\ DOMAIN ColumnsOf(r) = DOMAIN r
  <2>1. PICK c : c = [i \in DOMAIN r |-> r[i].column]
    OBVIOUS
  <2>2. \A i \in DOMAIN r : r[i].column \in Headers
    BY <1>1 DEF Entry
  <2>3. c \in Seq(Headers) /\ DOMAIN c = DOMAIN r
    BY <1>1, <2>1, <2>2, IsASeq
  <2>4. QED
    BY <2>1, <2>3 DEF ColumnsOf
<1>3. PICK at : at = [t \in TargetsOf(r) |-> {i \in DOMAIN r : r[i].target = t}]
  OBVIOUS
<1>4. \A t \in TargetsOf(r) : at[t] = {i \in DOMAIN r : r[i].target = t}
  BY <1>3
<1>5. ApplyMapping(r) =
        [t \in TargetsOf(r) |-> Picked(ColumnsOf(r), at[t])]
  BY <1>4 DEF ApplyMapping
<1>6. ASSUME NEW t \in TargetsOf(r)
      PROVE  /\ Picked(ColumnsOf(r), at[t]) \in Seq(Headers)
             /\ Picked(ColumnsOf(r), at[t]) # <<>> =>
                    \E i \in at[t] :
                        Picked(ColumnsOf(r), at[t])[1] = ColumnsOf(r)[i]
  <2>1. at[t] \in SUBSET DOMAIN ColumnsOf(r)
    BY <1>2, <1>4
  <2>2. PICK n : n = Cardinality(at[t])
    OBVIOUS
  <2>3. PICK p : p = Picked(ColumnsOf(r), at[t])
    OBVIOUS
  <2>4. /\ n \in Nat /\ p \in Seq(Headers) /\ Len(p) = n
        /\ \A k \in 1..n : Nth(at[t], k) \in at[t] /\ p[k] = ColumnsOf(r)[Nth(at[t], k)]
    BY <1>2, <2>1, <2>2, <2>3, PickedProperties
  <2>5. p # <<>> => 1 \in 1..n
    BY <2>4, EmptySeq
  <2>6. QED
    BY <2>3, <2>4, <2>5
<1>7. ASSUME NEW t \in TargetsOf(r), NEW u \in TargetsOf(r),
             Picked(ColumnsOf(r), at[t]) = Picked(ColumnsOf(r), at[u]),
             Picked(ColumnsOf(r), at[t]) # <<>>
      PROVE  t = u
  <2>1. PICK i \in at[t], j \in at[u] : ColumnsOf(r)[i] = ColumnsOf(r)[j]
    BY <1>6, <1>7
  <2>2. i \in DOMAIN r /\ j \in DOMAIN r /\ r[i].target = t /\ r[j].target = u
    BY <1>4, <1>7
  <2>3. r[i].column = r[j].column
    BY <2>1, <2>2 DEF ColumnsOf
  <2>4. QED
    BY <2>2, <2>3 DEF ColumnsOnce
<1>8. PICK made : made = ApplyMapping(r)
  OBVIOUS
<1>9. /\ made \in [TargetsOf(r) -> Seq(Headers)]
      /\ \A t \in TargetsOf(r) : made[t] = Picked(ColumnsOf(r), at[t])
  BY <1>5, <1>6, <1>8
<1>10. \A t, u \in TargetsOf(r) : made[t] = made[u] /\ made[t] # <<>> => t = u
  BY <1>7, <1>9
<1>11. Whole(made, made)
  BY <1>9, <1>10 DEF Whole, Blank
<1>12. QED
  BY <1>8, <1>9, <1>11

LEMMA RelabelWhole ==
  ASSUME NEW fields, Fields(fields), NEW made, Whole(fields, made), NEW name, NEW new
  PROVE  Fields(Relabel(fields, name, new)) /\ Whole(Relabel(fields, name, new), made)
<1>1. CASE name \notin DOMAIN fields
  BY <1>1 DEF Relabel
<1>2. CASE name \in DOMAIN fields
  <2>1. PICK g : g = [t \in (DOMAIN fields \ {name}) \cup {new} |->
                          IF t = new THEN fields[name] ELSE fields[t]]
    OBVIOUS
  <2>2. PICK h : h = [t \in (DOMAIN fields \ {name}) \cup {new} |->
                          IF t = new THEN name ELSE t]
    OBVIOUS
  <2>3. DOMAIN g = (DOMAIN fields \ {name}) \cup {new} /\ DOMAIN h = DOMAIN g
    BY <2>1, <2>2
  <2>4. \A t \in DOMAIN g : h[t] \in DOMAIN fields /\ g[t] = fields[h[t]]
    BY <1>2, <2>1, <2>2, <2>3
  <2>5. \A t, u \in DOMAIN g : h[t] = h[u] => t = u
    BY <2>2, <2>3
  <2>6. Fields(g)
    <3>1. \A t \in DOMAIN g : g[t] \in Seq(Headers)
      BY <2>4 DEF Fields
    <3>2. QED
      BY <2>1, <3>1 DEF Fields
  <2>7. Whole(g, made)
    BY <2>4, <2>5 DEF Whole
  <2>8. g = Relabel(fields, name, new)
    BY <1>2, <2>1 DEF Relabel
  <2>9. QED
    BY <2>6, <2>7, <2>8
<1>3. QED
  BY <1>1, <1>2

\* The old names are a sequence: the loop ends.
LEMMA OldNamesType ==
  ASSUME NEW old, NEW new \in Seq(Entry)
  PROVE  Len(OldNames(Moves(old, new))) \in Nat
<1>1. Len(new) \in Nat /\ DOMAIN new = 1..Len(new)
  BY LenProperties
<1>2. PICK moves : moves = Moves(old, new)
  OBVIOUS
<1>3. DOMAIN moves = 1..Len(new)
  BY <1>1, <1>2 DEF Moves
<1>4. PICK s : s = [i \in DOMAIN moves |-> moves[i].from]
  OBVIOUS
<1>5. PICK S : S = {moves[i].from : i \in DOMAIN moves}
  OBVIOUS
<1>6. s \in Seq(S) /\ DOMAIN s = DOMAIN moves
  <2>1. \A i \in 1..Len(new) : moves[i].from \in S
    BY <1>3, <1>5
  <2>2. QED
    BY <1>1, <1>3, <1>4, <2>1, IsASeq
<1>7. PICK set : set = {i \in Renames(moves) : \A j \in Renames(moves) :
                            j < i => moves[j].from # moves[i].from}
  OBVIOUS
<1>8. set \in SUBSET DOMAIN s
  BY <1>6, <1>7 DEF Renames, Changed
<1>9. Len(Picked(s, set)) = Cardinality(set) /\ Cardinality(set) \in Nat
  BY <1>6, <1>8, PickedProperties
<1>10. OldNames(moves) = Picked(s, set)
  BY <1>4, <1>7 DEF OldNames
<1>11. QED
  BY <1>2, <1>9, <1>10

LEMMA RenamedWhole ==
  ASSUME NEW fields, Fields(fields), NEW made, Whole(fields, made),
         NEW moves, Len(OldNames(moves)) \in Nat
  PROVE  Fields(Renamed(fields, moves)) /\ Whole(Renamed(fields, moves), made)
<1>1. PICK f : /\ Renamed(fields, moves) = f[Len(OldNames(moves))]
               /\ f[0] = fields
               /\ \A k \in 1..Len(OldNames(moves)) :
                     f[k] = Turn(f[k - 1], k, moves)
  BY RenamedIsLoop
<1>2. PICK n \in Nat : n = Len(OldNames(moves))
  OBVIOUS
<1> DEFINE T == {k \in 0..n : ~(Fields(f[k]) /\ Whole(f[k], made))}
<1>3. T = {}
  <2>1. SUFFICES ASSUME T # {} PROVE FALSE
    OBVIOUS
  <2>2. PICK k \in T : \A l \in T : k <= l
    <3>1. T \in SUBSET Nat
      OBVIOUS
    <3>2. QED
      BY <2>1, <3>1, LeastNatural
  <2>3. k # 0
    BY <1>1, <2>2
  <2>4. k \in 1..n /\ k - 1 \in 0..n /\ ~(k <= k - 1)
    BY <2>2, <2>3
  <2>5. Fields(f[k - 1]) /\ Whole(f[k - 1], made)
    BY <2>2, <2>4
  <2>6. PICK g, name, new : g = f[k - 1] /\ name = OldNames(moves)[k]
                            /\ new = NewName(moves, OldNames(moves)[k])
    OBVIOUS
  <2>7. Fields(Relabel(g, name, new)) /\ Whole(Relabel(g, name, new), made)
    BY <2>5, <2>6, RelabelWhole
  <2>8. f[k] = Relabel(g, name, new)
    BY <1>1, <1>2, <2>4, <2>6 DEF Turn
  <2>9. QED
    BY <2>2, <2>7, <2>8
<1>4. n \in 0..n
  BY <1>2
<1>5. QED
  BY <1>1, <1>2, <1>3, <1>4

LEMMA ReviewedWhole ==
  ASSUME NEW fields, Fields(fields), NEW made, Whole(fields, made),
         NEW old, NEW new \in Seq(Entry)
  PROVE  /\ Reviewed(fields, old, new) \in [TargetsOf(new) -> Seq(Headers)]
         /\ Whole(Reviewed(fields, old, new), made)
<1>1. PICK moves : moves = Moves(old, new)
  OBVIOUS
<1>2. PICK f : f = Renamed(fields, moves)
  OBVIOUS
<1>3. Fields(f) /\ Whole(f, made)
  BY <1>1, <1>2, OldNamesType, RenamedWhole
<1>4. PICK kept : kept = DOMAIN f \ Dropped(moves)
  OBVIOUS
<1>5. PICK g : g = [t \in TargetsOf(new) |-> IF t \in kept THEN f[t] ELSE <<>>]
  OBVIOUS
<1>6. \A t \in TargetsOf(new) :
         (t \in DOMAIN f /\ g[t] = f[t]) \/ g[t] = <<>>
  BY <1>4, <1>5
<1>7. DOMAIN g = TargetsOf(new)
  BY <1>5
<1>8. <<>> \in Seq(Headers)
  BY EmptySeq
<1>9. g \in [TargetsOf(new) -> Seq(Headers)]
  BY <1>3, <1>5, <1>6, <1>8 DEF Fields
<1>10. Whole(g, made)
  BY <1>3, <1>6, <1>7 DEF Whole, Blank
<1>11. PICK h : h = [t \in kept |-> f[t]]
  OBVIOUS
<1>12. Reviewed(fields, old, new) = MapColumns(h, TargetsOf(new))
  BY <1>1, <1>2, <1>4, <1>11 DEF Reviewed
<1>13. MapColumns(h, TargetsOf(new)) = g
  BY <1>5, <1>11 DEF MapColumns
<1>14. QED
  BY <1>9, <1>10, <1>12, <1>13

-----------------------------------------------------------------------------
(* An orderly review: no field is overwritten while it is still needed.    *)

\* The same, of the moves it makes: a name is taken only by the columns of one
\* old field, and, from another field, once that one has had its turn.
InTurn(moves, m) ==
    /\ DOMAIN moves = 1..m
    /\ \A i \in 1..m : moves[i].from = NoTarget => moves[i].to = NoTarget
    /\ \A i, j \in 1..m : moves[i].to # NoTarget =>
            (moves[i].from = moves[j].from <=> moves[i].to = moves[j].to)
    /\ \A i, j \in 1..m :
            moves[i].to # NoTarget /\ moves[i].to = moves[j].from /\ moves[i].from # moves[j].from =>
                /\ moves[j].to # NoTarget
                /\ \E a \in 1..m : /\ moves[a].from = moves[j].from
                                   /\ \A b \in 1..m : moves[b].from = moves[i].from => a < b

LEMMA FirstOfIsFirst ==
  ASSUME NEW res \in Seq(Entry), NEW i \in DOMAIN res
  PROVE  /\ FirstOf(res, res[i].target) \in DOMAIN res
         /\ res[FirstOf(res, res[i].target)].target = res[i].target
         /\ \A j \in DOMAIN res : res[j].target = res[i].target =>
                FirstOf(res, res[i].target) <= j
<1>1. Len(res) \in Nat /\ DOMAIN res = 1..Len(res)
  BY LenProperties
<1> DEFINE T == {j \in DOMAIN res : res[j].target = res[i].target}
<1>2. PICK a \in T : \A j \in T : a <= j
  <2>1. T \in SUBSET Nat /\ i \in T
    BY <1>1
  <2>2. QED
    BY <2>1, LeastNatural
<1>3. a \in DOMAIN res /\ res[a].target = res[i].target /\ a \in Nat
  BY <1>1, <1>2
<1>4. \A j \in 1..a-1 : res[j].target # res[i].target
  <2>1. SUFFICES ASSUME NEW j \in 1..a-1, res[j].target = res[i].target PROVE FALSE
    OBVIOUS
  <2>2. j \in T /\ ~(a <= j)
    BY <1>1, <1>3, <2>1
  <2>3. QED
    BY <1>2, <2>2
<1>5. PICK b : b = FirstOf(res, res[i].target)
  OBVIOUS
<1>6. /\ b \in DOMAIN res /\ res[b].target = res[i].target
      /\ \A j \in 1..b-1 : res[j].target # res[i].target
  BY <1>3, <1>4, <1>5 DEF FirstOf
<1>7. \A j \in DOMAIN res : res[j].target = res[i].target => b <= j
  <2>1. SUFFICES ASSUME NEW j \in DOMAIN res, res[j].target = res[i].target, ~(b <= j) PROVE FALSE
    OBVIOUS
  <2>2. j \in 1..b-1
    BY <1>1, <1>6, <2>1
  <2>3. QED
    BY <1>6, <2>1, <2>2
<1>8. QED
  BY <1>5, <1>6, <1>7

LEMMA MovesInTurn ==
  ASSUME NEW old \in Seq(Entry), NEW new \in Seq(Entry), ColumnsOnce(old), Orderly(old, new)
  PROVE  /\ Len(old) \in Nat /\ InTurn(Moves(old, new), Len(old))
         /\ DOMAIN old = 1..Len(old) /\ DOMAIN new = 1..Len(old)
         /\ \A i \in 1..Len(old) : /\ Moves(old, new)[i].from = old[i].target
                                   /\ Moves(old, new)[i].to = new[i].target
         /\ ColumnsOf(old) = ColumnsOf(new)
<1>1. PICK m \in Nat : m = Len(old) /\ DOMAIN old = 1..m /\ DOMAIN new = 1..m
  BY LenProperties DEF Orderly
<1>2. \A i \in 1..m : old[i].column = new[i].column
  BY <1>1 DEF Orderly
<1>3. ColumnsOf(old) = ColumnsOf(new)
  BY <1>1, <1>2 DEF ColumnsOf
<1>4. ASSUME NEW i \in 1..m PROVE OldTarget(old, new[i].column) = old[i].target
  <2>1. PICK c : c = new[i].column
    OBVIOUS
  <2>2. old[i].column = c /\ \A j \in 1..m : old[j].column = c => j = i
    BY <1>1, <1>2, <1>4, <2>1 DEF ColumnsOnce
  <2>3. OldTarget(old, c) = old[i].target
    BY <1>1, <1>4, <2>2 DEF OldTarget
  <2>4. QED
    BY <2>1, <2>3
<1>5. PICK moves : moves = Moves(old, new)
  OBVIOUS
<1>6. /\ DOMAIN moves = 1..m
      /\ \A i \in 1..m : moves[i].from = old[i].target /\ moves[i].to = new[i].target
  BY <1>1, <1>4, <1>5 DEF Moves
<1>7. ASSUME NEW i \in 1..m, NEW j \in 1..m, moves[i].to # NoTarget,
             moves[i].to = moves[j].from, moves[i].from # moves[j].from
      PROVE  /\ moves[j].to # NoTarget
             /\ \E a \in 1..m : /\ moves[a].from = moves[j].from
                                /\ \A b \in 1..m : moves[b].from = moves[i].from => a < b
  <2>1. new[i].target # NoTarget /\ new[i].target = old[j].target /\ old[i].target # old[j].target
    BY <1>6, <1>7
  <2>2. /\ new[j].target # NoTarget
        /\ FirstOf(old, old[j].target) < FirstOf(old, old[i].target)
    BY <1>1, <2>1, <1>7 DEF Orderly
  <2>3. PICK a, c : a = FirstOf(old, old[j].target) /\ c = FirstOf(old, old[i].target)
    OBVIOUS
  <2>4. /\ a \in 1..m /\ old[a].target = old[j].target
        /\ c \in 1..m /\ \A b \in 1..m : old[b].target = old[i].target => c <= b
    BY <1>1, <1>7, <2>3, FirstOfIsFirst
  <2>5. a < c
    BY <2>2, <2>3
  <2>6. \A b \in 1..m : old[b].target = old[i].target => a < b
    BY <2>4, <2>5
  <2>7. QED
    BY <1>6, <2>2, <2>4, <2>6
<1>8. ASSUME NEW i \in 1..m, NEW j \in 1..m, moves[i].to # NoTarget
      PROVE  moves[i].from = moves[j].from <=> moves[i].to = moves[j].to
  BY <1>1, <1>6, <1>8 DEF Orderly
<1>9. \A i \in 1..m : moves[i].from = NoTarget => moves[i].to = NoTarget
  BY <1>1, <1>6 DEF Orderly
<1>10. InTurn(moves, m)
  BY <1>6, <1>7, <1>8, <1>9 DEF InTurn
<1>11. QED
  BY <1>1, <1>3, <1>5, <1>6, <1>10

\* rename_map has each renamed field once, in the order of its first column.
InOrder(names, moves, m) ==
    /\ Len(names) \in Nat
    /\ \A k \in 1..Len(names) : \E a \in Renames(moves) :
            names[k] = moves[a].from /\ NewName(moves, names[k]) = moves[a].to
    /\ \A k, l \in 1..Len(names) : names[k] = names[l] => k = l
    /\ \A i \in Renames(moves) : \E k \in 1..Len(names) : names[k] = moves[i].from
    /\ \A i \in Renames(moves), k \in 1..Len(names) :
            (\E a \in 1..m : /\ moves[a].from = moves[i].from
                             /\ \A b \in 1..m : moves[b].from = names[k] => a < b)
            => \E l \in 1..Len(names) : l < k /\ names[l] = moves[i].from

LEMMA OldNamesInTurn ==
  ASSUME NEW m \in Nat, NEW moves, InTurn(moves, m)
  PROVE  InOrder(OldNames(moves), moves, m)
<1>1. PICK first : first = {i \in Renames(moves) : \A j \in Renames(moves) :
                                j < i => moves[j].from # moves[i].from}
  OBVIOUS
<1>2. PICK s : s = [i \in DOMAIN moves |-> moves[i].from]
  OBVIOUS
<1>3. PICK S : S = {moves[i].from : i \in 1..m}
  OBVIOUS
<1>4. s \in Seq(S) /\ DOMAIN s = 1..m /\ \A i \in 1..m : s[i] = moves[i].from
  <2>1. \A i \in 1..m : moves[i].from \in S
    BY <1>3
  <2>2. QED
    BY <1>2, <2>1, IsASeq DEF InTurn
<1>5. /\ Renames(moves) \subseteq 1..m
      /\ \A i \in Renames(moves) : moves[i].to # NoTarget /\ moves[i].from # NoTarget
                                   /\ moves[i].from # moves[i].to
  BY DEF Renames, Changed, InTurn
<1>6. first \in SUBSET DOMAIN s /\ first \in SUBSET (1..m)
  BY <1>1, <1>4, <1>5
<1>7. PICK names : names = OldNames(moves)
  OBVIOUS
<1>8. names = Picked(s, first)
  BY <1>1, <1>2, <1>7 DEF OldNames
<1>9. PICK n : n = Cardinality(first)
  OBVIOUS
<1>10. /\ n \in Nat /\ Len(names) = n
       /\ \A k \in 1..n : Nth(first, k) \in first /\ names[k] = s[Nth(first, k)]
       /\ \A i \in first : \E k \in 1..n : i = Nth(first, k)
  BY <1>4, <1>6, <1>8, <1>9, PickedProperties
<1>11. PICK at : at = [k \in 1..n |-> Nth(first, k)]
  OBVIOUS
<1>12. /\ at \in [1..n -> first] /\ \A k \in 1..n : names[k] = moves[at[k]].from
       /\ \A i \in first : \E k \in 1..n : i = at[k]
       /\ \A k, l \in 1..n : k < l <=> at[k] < at[l]
  <2>1. \A k, l \in 1..n : k < l <=> Nth(first, k) < Nth(first, l)
    BY <1>6, <1>9, NthOrdered
  <2>2. at \in [1..n -> first] /\ \A i \in first : \E k \in 1..n : i = at[k]
    BY <1>10, <1>11
  <2>3. \A k \in 1..n : names[k] = moves[at[k]].from
    BY <1>4, <1>6, <1>10, <1>11
  <2>4. \A k, l \in 1..n : k < l <=> at[k] < at[l]
    BY <1>11, <2>1
  <2>5. QED
    BY <2>2, <2>3, <2>4
\* The first column of a renamed field.
<1>13. ASSUME NEW i \in Renames(moves)
       PROVE  \E c \in first : /\ moves[c].from = moves[i].from
                               /\ \A b \in 1..m : moves[b].from = moves[i].from => c <= b
  <2> DEFINE T == {j \in Renames(moves) : moves[j].from = moves[i].from}
  <2>1. T \in SUBSET Nat /\ i \in T
    BY <1>5
  <2>2. PICK c \in T : \A j \in T : c <= j
    BY <2>1, LeastNatural
  <2>3. c \in Nat /\ \A j \in Renames(moves) : j \in Nat
    BY <1>5, <2>2
  <2>4. c \in first
    BY <1>1, <2>2, <2>3
  <2>5. ASSUME NEW b \in 1..m, moves[b].from = moves[i].from
        PROVE  b \in T
    <3>1. i \in 1..m /\ moves[i].to # NoTarget /\ moves[i].from # NoTarget
          /\ moves[i].from # moves[i].to
      BY <1>5
    <3>2. moves[b].to = moves[i].to
      BY <2>5, <3>1 DEF InTurn
    <3>3. b \in Renames(moves)
      BY <2>5, <3>1, <3>2 DEF Renames, Changed, InTurn
    <3>4. QED
      BY <2>5, <3>3
  <2>6. QED
    BY <2>2, <2>4, <2>5
<1>14. ASSUME NEW i \in Renames(moves)
       PROVE  \E k \in 1..n : names[k] = moves[i].from
  BY <1>12, <1>13
<1>15. ASSUME NEW k \in 1..n, NEW l \in 1..n, names[k] = names[l] PROVE k = l
  <2>1. at[k] \in first /\ at[l] \in first /\ moves[at[k]].from = moves[at[l]].from
    BY <1>12, <1>15
  <2>2. /\ at[k] \in Nat /\ at[l] \in Nat
        /\ at[k] \in Renames(moves) /\ at[l] \in Renames(moves)
    BY <1>1, <1>6, <2>1
  <2>3. ~(at[k] < at[l]) /\ ~(at[l] < at[k])
    BY <1>1, <2>1, <2>2
  <2>4. QED
    BY <1>10, <1>12, <2>3
<1>16. ASSUME NEW k \in 1..n
       PROVE  \E a \in Renames(moves) :
                names[k] = moves[a].from /\ NewName(moves, names[k]) = moves[a].to
  <2>1. PICK a : a = at[k]
    OBVIOUS
  <2>2. a \in Renames(moves) /\ a \in 1..m /\ names[k] = moves[a].from /\ moves[a].to # NoTarget
    BY <1>1, <1>5, <1>12, <1>16, <2>1
  <2> DEFINE T == {d \in 0..m : \E j \in Renames(moves) : moves[j].from = names[k] /\ d = m - j}
  <2>3. T \in SUBSET Nat /\ m - a \in T
    BY <2>2
  <2>4. PICK d \in T : \A e \in T : d <= e
    BY <2>3, LeastNatural
  <2>5. PICK z \in Renames(moves) : moves[z].from = names[k] /\ d = m - z
    BY <2>4
  <2>6. ASSUME NEW j \in Renames(moves), j > z PROVE moves[j].from # names[k]
    <3>1. SUFFICES ASSUME moves[j].from = names[k] PROVE FALSE
      OBVIOUS
    <3>2. j \in 1..m /\ z \in 1..m
      BY <1>5, <2>6
    <3>3. m - j \in T /\ ~(d <= m - j)
      BY <2>5, <2>6, <3>1, <3>2
    <3>4. QED
      BY <2>4, <3>3
  <2>7. PICK y : y = CHOOSE i \in Renames(moves) :
                        /\ moves[i].from = names[k]
                        /\ \A j \in Renames(moves) : j > i => moves[j].from # names[k]
    OBVIOUS
  <2>8. y \in Renames(moves) /\ moves[y].from = names[k]
    BY <2>5, <2>6, <2>7
  <2>9. NewName(moves, names[k]) = moves[y].to
    BY <2>7 DEF NewName
  <2>10. QED
    BY <2>8, <2>9
<1>17. ASSUME NEW i \in Renames(moves), NEW k \in 1..n, NEW a \in 1..m,
              moves[a].from = moves[i].from,
              \A b \in 1..m : moves[b].from = names[k] => a < b
       PROVE  \E l \in 1..n : l < k /\ names[l] = moves[i].from
  <2>1. PICK c \in first : /\ moves[c].from = moves[i].from
                           /\ \A b \in 1..m : moves[b].from = moves[i].from => c <= b
    BY <1>13
  <2>2. PICK l \in 1..n : c = at[l]
    BY <1>12
  <2>3. at[k] \in 1..m /\ c \in 1..m /\ a < at[k] /\ c <= a
    BY <1>6, <1>12, <1>17, <2>1
  <2>4. at[l] < at[k]
    BY <2>2, <2>3
  <2>5. l < k /\ names[l] = moves[i].from
    BY <1>12, <2>1, <2>2, <2>4
  <2>6. QED
    BY <2>5
<1>18. \A i \in Renames(moves), k \in 1..n :
            (\E a \in 1..m : /\ moves[a].from = moves[i].from
                             /\ \A b \in 1..m : moves[b].from = names[k] => a < b)
            => \E l \in 1..n : l < k /\ names[l] = moves[i].from
  BY <1>17
<1>19. InOrder(names, moves, m)
  BY <1>10, <1>14, <1>15, <1>16, <1>18 DEF InOrder
<1>20. QED
  BY <1>7, <1>19

\* Where the value of each column's old field is, after k old names.
Place(moves, k, i) ==
    IF \E l \in 1..k : OldNames(moves)[l] = moves[i].from THEN moves[i].to ELSE moves[i].from
Had(moves, m) == {i \in 1..m : moves[i].from # NoTarget}
Placed(g, k, fields, moves, m) ==
    /\ DOMAIN g = {Place(moves, k, i) : i \in Had(moves, m)}
    /\ \A i \in Had(moves, m) : g[Place(moves, k, i)] = fields[moves[i].from]

LEMMA PlaceFacts ==
  ASSUME NEW m \in Nat, NEW moves, InTurn(moves, m)
  PROVE  \A a \in Renames(moves) :
            /\ a \in 1..m /\ moves[a].to # NoTarget /\ moves[a].from # NoTarget
            /\ moves[a].from # moves[a].to
            /\ \A i \in 1..m : /\ moves[i].from = moves[a].from <=> moves[i].to = moves[a].to
                               /\ moves[i].from = moves[a].from => i \in Renames(moves)
<1>0. SUFFICES
        ASSUME NEW a \in Renames(moves)
        PROVE  /\ a \in 1..m /\ moves[a].to # NoTarget /\ moves[a].from # NoTarget
               /\ moves[a].from # moves[a].to
               /\ \A i \in 1..m : /\ moves[i].from = moves[a].from <=> moves[i].to = moves[a].to
                                  /\ moves[i].from = moves[a].from => i \in Renames(moves)
  OBVIOUS
<1>1. /\ a \in 1..m /\ moves[a].to # NoTarget /\ moves[a].from # NoTarget
      /\ moves[a].from # moves[a].to
  BY DEF Renames, Changed, InTurn
<1>2. \A i \in 1..m : moves[a].from = moves[i].from <=> moves[a].to = moves[i].to
  BY <1>1 DEF InTurn
<1>3. \A i \in 1..m : moves[i].from = moves[a].from => i \in Renames(moves)
  BY <1>1, <1>2 DEF Renames, Changed, InTurn
<1>4. QED
  BY <1>1, <1>2, <1>3

LEMMA PlacedStep ==
  ASSUME NEW m \in Nat, NEW moves, InTurn(moves, m), NEW fields, NEW g,
         NEW k \in 1..Len(OldNames(moves)), Placed(g, k - 1, fields, moves, m)
  PROVE  Placed(Turn(g, k, moves), k, fields, moves, m)
<1>1. PICK names : names = OldNames(moves)
  OBVIOUS
<1>2. InOrder(names, moves, m) /\ k \in 1..Len(names) /\ Len(names) \in Nat
  <2>1. InOrder(OldNames(moves), moves, m)
    BY OldNamesInTurn
  <2>2. InOrder(names, moves, m) /\ k \in 1..Len(names)
    BY <1>1, <2>1
  <2>3. Len(names) \in Nat
    BY <2>2 DEF InOrder
  <2>4. QED
    BY <2>2, <2>3
<1>3. PICK a \in Renames(moves) :
        names[k] = moves[a].from /\ NewName(moves, names[k]) = moves[a].to
  BY <1>2 DEF InOrder
<1>4. PICK old, new : old = moves[a].from /\ new = moves[a].to
  OBVIOUS
<1>5. /\ a \in 1..m /\ a \in Had(moves, m) /\ new # NoTarget /\ old # NoTarget /\ old # new
      /\ \A i \in 1..m : /\ moves[i].from = old <=> moves[i].to = new
                         /\ moves[i].from = old => i \in Renames(moves)
  <2>1. /\ a \in 1..m /\ moves[a].to # NoTarget /\ moves[a].from # NoTarget
        /\ moves[a].from # moves[a].to
        /\ \A i \in 1..m : /\ moves[i].from = moves[a].from <=> moves[i].to = moves[a].to
                           /\ moves[i].from = moves[a].from => i \in Renames(moves)
    BY PlaceFacts
  <2>2. QED
    BY <1>4, <2>1 DEF Had
<1>6. \A i \in 1..m : Place(moves, k - 1, i) =
        IF \E l \in 1..k-1 : names[l] = moves[i].from THEN moves[i].to ELSE moves[i].from
  BY <1>1 DEF Place
<1>7. \A i \in 1..m : Place(moves, k, i) =
        IF \E l \in 1..k : names[l] = moves[i].from THEN moves[i].to ELSE moves[i].from
  BY <1>1 DEF Place
<1>8. /\ \A l \in 1..k-1 : l \in 1..k /\ l \in 1..Len(names) /\ l # k /\ l < k
      /\ \A l \in 1..k : l = k \/ l \in 1..k-1
      /\ k \in 1..k
  BY <1>2
<1>9. \A l \in 1..k-1 : names[l] # old
  BY <1>2, <1>3, <1>4, <1>8 DEF InOrder
\* The columns of the field that moves.
<1>10. ASSUME NEW i \in 1..m, moves[i].from = old
       PROVE  Place(moves, k - 1, i) = old /\ Place(moves, k, i) = new
  BY <1>3, <1>4, <1>5, <1>6, <1>7, <1>8, <1>9, <1>10
\* The others stay where they are, elsewhere.
<1>11. ASSUME NEW i \in Had(moves, m), moves[i].from # old
       PROVE  /\ Place(moves, k, i) = Place(moves, k - 1, i)
              /\ Place(moves, k, i) # old /\ Place(moves, k, i) # new
  <2>1. i \in 1..m /\ moves[i].from # NoTarget
    BY DEF Had
  <2>2. Place(moves, k, i) = Place(moves, k - 1, i)
    BY <1>3, <1>4, <1>6, <1>7, <1>8, <1>11, <2>1
  <2>3. CASE \E l \in 1..k-1 : names[l] = moves[i].from
    <3>1. PICK l \in 1..k-1 : names[l] = moves[i].from
      BY <2>3
    <3>2. l \in 1..Len(names) /\ l < k /\ l \in Nat /\ k \in Nat
      BY <1>2, <1>8
    <3>3. PICK c \in Renames(moves) : names[l] = moves[c].from
      BY <1>2, <3>2 DEF InOrder
    <3>4. i \in Renames(moves) /\ moves[i].to # NoTarget
      <4>1. moves[i].from = moves[c].from
        BY <3>1, <3>3
      <4>2. i \in Renames(moves)
        BY <2>1, <4>1, PlaceFacts
      <4>3. QED
        BY <4>2, PlaceFacts
    <3>5. Place(moves, k, i) = moves[i].to
      BY <1>6, <2>1, <2>2, <2>3
    <3>6. moves[i].to # new
      BY <1>5, <1>11, <2>1
    <3>7. moves[i].to # old
      <4>1. SUFFICES ASSUME moves[i].to = old PROVE FALSE
        OBVIOUS
      <4>2. \E b \in 1..m : /\ moves[b].from = moves[a].from
                            /\ \A c_1 \in 1..m : moves[c_1].from = moves[i].from => b < c_1
        BY <1>4, <1>5, <1>11, <2>1, <3>4, <4>1 DEF InTurn
      <4>3. PICK e \in 1..Len(names) : e < l /\ names[e] = moves[a].from
        BY <1>2, <3>1, <3>2, <4>2 DEF InOrder
      <4>4. e = k
        BY <1>2, <1>3, <4>3 DEF InOrder
      <4>5. QED
        BY <3>2, <4>3, <4>4
    <3>8. QED
      BY <2>2, <3>5, <3>6, <3>7
  <2>4. CASE ~\E l \in 1..k-1 : names[l] = moves[i].from
    <3>1. Place(moves, k, i) = moves[i].from
      BY <1>6, <2>1, <2>2, <2>4
    <3>2. moves[i].from # new
      <4>1. SUFFICES ASSUME moves[i].from = new PROVE FALSE
        OBVIOUS
      <4>2. /\ moves[i].to # NoTarget
            /\ \E b \in 1..m : /\ moves[b].from = moves[i].from
                               /\ \A c \in 1..m : moves[c].from = moves[a].from => b < c
        BY <1>4, <1>5, <1>11, <2>1, <4>1 DEF InTurn
      <4>3. moves[i].to # new
        BY <1>5, <1>11, <2>1
      <4>4. i \in Renames(moves)
        BY <2>1, <4>1, <4>2, <4>3 DEF Renames, Changed, InTurn
      <4>5. PICK l \in 1..Len(names) : l < k /\ names[l] = moves[i].from
        BY <1>2, <1>3, <4>2, <4>4 DEF InOrder
      <4>6. l \in 1..k-1
        BY <1>2, <4>5
      <4>7. QED
        BY <2>4, <4>5, <4>6
    <3>3. QED
      BY <1>11, <2>2, <3>1, <3>2
  <2>5. QED
    BY <2>3, <2>4
<1>12. /\ DOMAIN g = {Place(moves, k - 1, i) : i \in Had(moves, m)}
       /\ \A i \in Had(moves, m) : g[Place(moves, k - 1, i)] = fields[moves[i].from]
  BY DEF Placed
<1>13. old \in DOMAIN g /\ g[old] = fields[old]
  BY <1>4, <1>5, <1>10, <1>12
<1>14. PICK h : h = [t \in (DOMAIN g \ {old}) \cup {new} |-> IF t = new THEN g[old] ELSE g[t]]
  OBVIOUS
<1>15. h = Relabel(g, old, new)
  BY <1>13, <1>14 DEF Relabel
<1>16. ASSUME NEW i \in Had(moves, m)
       PROVE  Place(moves, k, i) \in DOMAIN h /\ h[Place(moves, k, i)] = fields[moves[i].from]
  <2>1. i \in 1..m
    BY DEF Had
  <2>2. CASE moves[i].from = old
    BY <1>10, <1>13, <1>14, <2>1, <2>2
  <2>3. CASE moves[i].from # old
    <3>1. PICK t : t = Place(moves, k, i)
      OBVIOUS
    <3>2. t # old /\ t # new /\ t \in DOMAIN g /\ g[t] = fields[moves[i].from]
      BY <1>11, <1>12, <2>3, <3>1
    <3>3. t \in DOMAIN h /\ h[t] = g[t]
      BY <1>14, <3>2
    <3>4. QED
      BY <3>1, <3>2, <3>3
  <2>4. QED
    BY <2>2, <2>3
<1>17. ASSUME NEW t \in DOMAIN h
       PROVE  \E i \in Had(moves, m) : t = Place(moves, k, i)
  <2>1. CASE t = new
    BY <1>4, <1>5, <1>10, <2>1
  <2>2. CASE t # new
    <3>1. t \in DOMAIN g /\ t # old
      BY <1>14, <1>17, <2>2
    <3>2. PICK i \in Had(moves, m) : t = Place(moves, k - 1, i)
      BY <1>12, <3>1
    <3>3. i \in 1..m
      BY DEF Had
    <3>4. moves[i].from # old
      BY <1>10, <3>1, <3>2, <3>3
    <3>5. QED
      BY <1>11, <3>2, <3>4
  <2>3. QED
    BY <2>1, <2>2
<1>18. Placed(h, k, fields, moves, m)
  BY <1>16, <1>17 DEF Placed
<1>19. QED
  BY <1>1, <1>3, <1>4, <1>15, <1>18 DEF Turn

LEMMA PlacedAll ==
  ASSUME NEW m \in Nat, NEW moves, InTurn(moves, m), NEW fields,
         DOMAIN fields = {moves[i].from : i \in Had(moves, m)}
  PROVE  Placed(Renamed(fields, moves), Len(OldNames(moves)), fields, moves, m)
<1>1. PICK n \in Nat : n = Len(OldNames(moves))
  BY OldNamesInTurn DEF InOrder
<1>2. PICK f : /\ Renamed(fields, moves) = f[Len(OldNames(moves))]
               /\ f[0] = fields
               /\ \A k \in 1..Len(OldNames(moves)) :
                     f[k] = Turn(f[k - 1], k, moves)
  BY <1>1, RenamedIsLoop
<1> DEFINE T == {k \in 0..n : ~Placed(f[k], k, fields, moves, m)}
<1>3. Placed(f[0], 0, fields, moves, m)
  <2>1. \A i \in 1..m : Place(moves, 0, i) = moves[i].from
    BY DEF Place
  <2>2. \A i \in Had(moves, m) : i \in 1..m
    BY DEF Had
  <2>3. {moves[i].from : i \in Had(moves, m)} = {Place(moves, 0, i) : i \in Had(moves, m)}
    BY <2>1, <2>2
  <2>4. QED
    BY <1>2, <2>1, <2>2, <2>3 DEF Placed
<1>4. T = {}
  <2>1. SUFFICES ASSUME T # {} PROVE FALSE
    OBVIOUS
  <2>2. PICK k \in T : \A l \in T : k <= l
    <3>1. T \in SUBSET Nat
      OBVIOUS
    <3>2. QED
      BY <2>1, <3>1, LeastNatural
  <2>3. k # 0
    BY <1>3, <2>2
  <2>4. k \in 1..n /\ k - 1 \in 0..n /\ ~(k <= k - 1)
    BY <2>2, <2>3
  <2>5. PICK g : g = f[k - 1]
    OBVIOUS
  <2>6. Placed(g, k - 1, fields, moves, m)
    BY <2>2, <2>4, <2>5
  <2>7. k \in 1..Len(OldNames(moves))
    BY <1>1, <2>4
  <2>8. Placed(Turn(g, k, moves), k, fields, moves, m)
    BY <2>6, <2>7, PlacedStep
  <2>9. f[k] = Turn(g, k, moves)
    BY <1>2, <2>5, <2>7
  <2>10. QED
    BY <2>2, <2>8, <2>9
<1>5. n \in 0..n
  BY <1>1
<1>6. Placed(f[n], n, fields, moves, m)
  BY <1>4, <1>5
<1>7. QED
  BY <1>1, <1>2, <1>6

\* An orderly review is an upload under the new mapping.
LEMMA OrderlyReview ==
  ASSUME NEW old \in Seq(Entry), NEW new \in Seq(Entry), ColumnsOnce(old), Orderly(old, new)
  PROVE  Reviewed(ApplyMapping(old), old, new) = ApplyMapping(new)
<1>1. PICK moves : moves = Moves(old, new)
  OBVIOUS
<1>2. PICK m \in Nat :
        /\ InTurn(moves, m) /\ DOMAIN old = 1..m /\ DOMAIN new = 1..m
        /\ \A i \in 1..m : moves[i].from = old[i].target /\ moves[i].to = new[i].target
        /\ ColumnsOf(old) = ColumnsOf(new)
  BY <1>1, MovesInTurn
<1>3. PICK c : c = ColumnsOf(new)
  OBVIOUS
<1>4. PICK fields : fields = ApplyMapping(old)
  OBVIOUS
<1>5. DOMAIN fields = TargetsOf(old)
      /\ \A t \in TargetsOf(old) :
            fields[t] = Picked(c, {i \in DOMAIN old : old[i].target = t})
  BY <1>2, <1>3, <1>4 DEF ApplyMapping
<1>6. \A t : t \in TargetsOf(old) <=> \E i \in Had(moves, m) : t = moves[i].from
  <2>1. \A i : i \in Had(moves, m) <=> i \in 1..m /\ old[i].target # NoTarget
    BY <1>2 DEF Had
  <2>2. QED
    BY <1>2, <2>1 DEF TargetsOf
<1>7. PICK f, n : f = Renamed(fields, moves) /\ n = Len(OldNames(moves))
  OBVIOUS
<1>8. Placed(f, n, fields, moves, m)
  <2>1. DOMAIN fields = {moves[i].from : i \in Had(moves, m)}
    BY <1>5, <1>6
  <2>2. QED
    BY <1>2, <1>7, <2>1, PlacedAll
\* Where everything is in the end.
<1>9. ASSUME NEW i \in 1..m, moves[i].to # NoTarget
      PROVE  /\ i \in Had(moves, m) /\ Place(moves, n, i) = moves[i].to
             /\ moves[i].to \in DOMAIN f /\ f[moves[i].to] = fields[moves[i].from]
  <2>1. i \in Had(moves, m)
    BY <1>2, <1>9 DEF Had, InTurn
  <2>2. Place(moves, n, i) = moves[i].to
    <3>1. CASE moves[i].from = moves[i].to
      BY <3>1 DEF Place
    <3>2. CASE moves[i].from # moves[i].to
      <4>1. i \in Renames(moves)
        BY <1>2, <1>9, <2>1, <3>2 DEF Renames, Changed, InTurn, Had
      <4>2. InOrder(OldNames(moves), moves, m)
        BY <1>2, OldNamesInTurn
      <4>3. \E k \in 1..n : OldNames(moves)[k] = moves[i].from
        BY <1>7, <4>1, <4>2 DEF InOrder
      <4>4. QED
        BY <4>3 DEF Place
    <3>3. QED
      BY <3>1, <3>2
  <2>3. QED
    BY <1>8, <2>1, <2>2 DEF Placed
<1>10. ASSUME NEW i \in 1..m, moves[i].to # NoTarget
       PROVE  moves[i].to \notin Dropped(moves)
  <2>1. SUFFICES ASSUME moves[i].to \in Dropped(moves) PROVE FALSE
    OBVIOUS
  <2>2. PICK j \in 1..m : moves[i].to = moves[j].from /\ moves[j].to = NoTarget
    BY <1>2, <2>1 DEF Dropped, Renames, Changed, InTurn
  <2>3. CASE moves[i].from = moves[j].from
    <3>1. moves[i].to = moves[j].to
      BY <1>2, <1>10, <2>3 DEF InTurn
    <3>2. QED
      BY <1>10, <2>2, <3>1
  <2>4. CASE moves[i].from # moves[j].from
    BY <1>2, <1>10, <2>2, <2>4 DEF InTurn
  <2>5. QED
    BY <2>3, <2>4
<1>11. ASSUME NEW t \in TargetsOf(new)
       PROVE  /\ t \in DOMAIN f /\ t \notin Dropped(moves)
              /\ f[t] = Picked(c, {i \in DOMAIN new : new[i].target = t})
  <2>1. PICK i \in 1..m : t = moves[i].to /\ moves[i].to # NoTarget
    BY <1>2, <1>11 DEF TargetsOf
  <2>2. t \in DOMAIN f /\ t \notin Dropped(moves) /\ f[t] = fields[moves[i].from]
        /\ i \in Had(moves, m)
    BY <1>9, <1>10, <2>1
  <2>3. moves[i].from \in TargetsOf(old)
    BY <1>6, <2>2
  <2>4. PICK u : u = moves[i].from
    OBVIOUS
  <2>5. fields[u] = Picked(c, {j \in DOMAIN old : old[j].target = u})
    BY <1>5, <2>3, <2>4
  <2>6. \A j \in 1..m : old[j].target = u <=> new[j].target = t
    <3>1. \A j \in 1..m : moves[i].from = moves[j].from <=> moves[i].to = moves[j].to
      BY <1>2, <2>1 DEF InTurn
    <3>2. QED
      BY <1>2, <2>1, <2>4, <3>1
  <2>7. {j \in DOMAIN old : old[j].target = u} = {j \in DOMAIN new : new[j].target = t}
    BY <1>2, <2>6
  <2>8. QED
    BY <2>2, <2>4, <2>5, <2>7
<1>12. PICK h : h = [t \in DOMAIN f \ Dropped(moves) |-> f[t]]
  OBVIOUS
<1>13. Reviewed(fields, old, new) = MapColumns(h, TargetsOf(new))
  BY <1>1, <1>7, <1>12 DEF Reviewed
<1>14. PICK a : a = [t \in TargetsOf(new) |->
                        Picked(c, {i \in DOMAIN new : new[i].target = t})]
  OBVIOUS
<1>15. a = ApplyMapping(new)
  BY <1>3, <1>14 DEF ApplyMapping
<1>16. \A t \in TargetsOf(new) :
        t \in DOMAIN h /\ h[t] = Picked(c, {i \in DOMAIN new : new[i].target = t})
  BY <1>11, <1>12
<1>17. MapColumns(h, TargetsOf(new)) = a
  BY <1>14, <1>16 DEF MapColumns
<1>18. QED
  BY <1>4, <1>13, <1>15, <1>17

-----------------------------------------------------------------------------
(* Files of one shape.                                                     *)

\* Each text as often in one as in the other: an injection text by text.
LEMMA ShapeLength ==
  ASSUME NEW S, NEW s \in Seq(S), NEW T, NEW t \in Seq(T),
         Fingerprint(s) = Fingerprint(t)
  PROVE  Len(s) <= Len(t)
<1>1. PICK m \in Nat, n \in Nat : m = Len(s) /\ n = Len(t) /\ DOMAIN s = 1..m /\ DOMAIN t = 1..n
  <2>1. Len(s) \in Nat /\ Len(t) \in Nat /\ DOMAIN s = 1..Len(s) /\ DOMAIN t = 1..Len(t)
    BY LenProperties
  <2>2. QED
    BY <2>1
<1>2. PICK X : X = {s[i].text : i \in DOMAIN s}
  OBVIOUS
<1>3. X = {t[j].text : j \in DOMAIN t}
  BY <1>2 DEF Fingerprint
<1>4. PICK A, B : /\ A = [x \in X |-> {i \in DOMAIN s : s[i].text = x}]
                  /\ B = [x \in X |-> {j \in DOMAIN t : t[j].text = x}]
  OBVIOUS
<1>5. ASSUME NEW x \in X
      PROVE  Injection(A[x], B[x]) # {}
  <2>1. /\ Fingerprint(s)[x] = Cardinality({i \in DOMAIN s : s[i].text = x})
        /\ Fingerprint(t)[x] = Cardinality({j \in DOMAIN t : t[j].text = x})
    BY <1>2, <1>3 DEF Fingerprint
  <2>2. PICK a, b : /\ a = {i \in DOMAIN s : s[i].text = x}
                    /\ b = {j \in DOMAIN t : t[j].text = x}
    OBVIOUS
  <2>3. Cardinality(a) = Cardinality(b)
    BY <2>1, <2>2
  <2>4. a \in SUBSET (1..m) /\ b \in SUBSET (1..n)
    BY <1>1, <2>2
  <2>5. IsFiniteSet(a) /\ IsFiniteSet(b)
    BY <2>4, UpToCounts
  <2>6. ExistsBijection(a, b)
    BY <2>3, <2>5, FS_SameCardinalityBij
  <2>7. Injection(a, b) # {}
    BY <2>6 DEF ExistsBijection, Bijection
  <2>8. A[x] = a /\ B[x] = b
    BY <1>4, <2>2
  <2>9. QED
    BY <2>7, <2>8
<1>6. PICK b : b = [x \in X |-> CHOOSE f : f \in Injection(A[x], B[x])]
  OBVIOUS
<1>7. \A x \in X : /\ b[x] \in [A[x] -> B[x]]
                   /\ \A i, j \in A[x] : b[x][i] = b[x][j] => i = j
  <2>1. \A x \in X : b[x] \in Injection(A[x], B[x])
    BY <1>5, <1>6
  <2>2. QED
    BY <2>1 DEF Injection, IsInjective
<1>8. \A i \in 1..m : s[i].text \in X /\ i \in A[s[i].text]
  BY <1>1, <1>2, <1>4
<1>9. \A x \in X : \A j \in B[x] : j \in 1..n /\ t[j].text = x
  BY <1>1, <1>4
<1>10. PICK h : h = [i \in 1..m |-> b[s[i].text][i]]
  OBVIOUS
<1>11. \A i \in 1..m : h[i] \in 1..n /\ t[h[i]].text = s[i].text
  <2>1. SUFFICES ASSUME NEW i \in 1..m
                 PROVE  h[i] \in 1..n /\ t[h[i]].text = s[i].text
    OBVIOUS
  <2>2. PICK x \in X : x = s[i].text /\ i \in A[x]
    BY <1>8
  <2>3. b[x][i] \in B[x]
    BY <1>7, <2>2
  <2>4. h[i] = b[x][i]
    BY <1>10, <2>2
  <2>5. QED
    BY <1>9, <2>2, <2>3, <2>4
<1>12. ASSUME NEW i \in 1..m, NEW j \in 1..m, h[i] = h[j] PROVE i = j
  <2>1. s[i].text = s[j].text
    BY <1>11, <1>12
  <2>2. PICK x \in X : x = s[i].text /\ i \in A[x] /\ j \in A[x]
    BY <1>8, <2>1
  <2>3. b[x][i] = b[x][j]
    BY <1>10, <1>12, <2>1, <2>2
  <2>4. QED
    BY <1>7, <2>2, <2>3
<1>13. h \in Injection(1..m, 1..n)
  BY <1>10, <1>11, <1>12 DEF Injection, IsInjective
<1>14. /\ IsFiniteSet(1..m) /\ Cardinality(1..m) = m
       /\ IsFiniteSet(1..n) /\ Cardinality(1..n) = n
  BY FS_Interval
<1>15. m <= n
  BY <1>13, <1>14, FS_Injection
<1>16. QED
  BY <1>1, <1>15

\* A mapping of a file's shape has as many columns, each spelt as one of its headers.
LEMMA SameShape ==
  ASSUME MappingAssumption, NEW f \in Files, NEW res, Fits(res, Fingerprint(f))
  PROVE  /\ Len(f) = Len(res)
         /\ \A e \in Elements(res) : \E h \in Elements(f) : h.text = e.column.text
<1>1. f \in Seq(Headers)
  BY FileType
<1>2. /\ res \in Seq(Entry) /\ Len(res) \in Nat /\ DOMAIN res = 1..Len(res)
      /\ \A i \in DOMAIN res : res[i] \in Entry
  BY LenProperties, ElementOfSeq DEF Fits
<1>3. PICK c : c = [i \in DOMAIN res |-> res[i].column]
  OBVIOUS
<1>4. c \in Seq(Headers) /\ DOMAIN c = DOMAIN res /\ Len(c) = Len(res)
  <2>1. \A i \in DOMAIN res : res[i].column \in Headers
    BY <1>2 DEF Entry
  <2>2. c \in Seq(Headers)
    BY <1>2, <1>3, <2>1, IsASeq
  <2>3. DOMAIN c = 1..Len(res)
    BY <1>2, <1>3
  <2>4. QED
    BY <1>2, <2>2, <2>3, LenProperties
<1>5. Fingerprint(c) = Fingerprint(f)
  <2>1. c = ColumnsOf(res)
    BY <1>3 DEF ColumnsOf
  <2>2. QED
    BY <2>1 DEF Fits
<1>6. Len(c) <= Len(f) /\ \A i \in DOMAIN c : \E j \in DOMAIN f : f[j].text = c[i].text
  <2>1. Len(c) <= Len(f)
    BY <1>1, <1>4, <1>5, ShapeLength
  <2>2. PICK X : X = {c[i].text : i \in DOMAIN c}
    OBVIOUS
  <2>3. X = {f[j].text : j \in DOMAIN f}
    BY <1>5, <2>2 DEF Fingerprint
  <2>4. \A x \in X : \E j \in DOMAIN f : f[j].text = x
    BY <2>3
  <2>5. \A i \in DOMAIN c : c[i].text \in X
    BY <2>2
  <2>6. QED
    BY <2>1, <2>4, <2>5
<1>7. Len(f) <= Len(c)
  BY <1>1, <1>4, <1>5, ShapeLength
<1>8. Len(f) \in Nat
  BY <1>1, LenProperties
<1>9. \A i \in DOMAIN res : \E j \in DOMAIN f : f[j].text = res[i].column.text
  BY <1>3, <1>4, <1>6
<1>10. \A e \in Elements(res) : \E h \in Elements(f) : h.text = e.column.text
  BY <1>9 DEF Elements
<1>11. QED
  BY <1>2, <1>4, <1>6, <1>7, <1>8, <1>10

-----------------------------------------------------------------------------
(* The fields of a file nobody has reviewed.                               *)

\* The headers before the i-th with its name.
Earlier(f, i) == {j \in 1..i-1 : f[j].name = f[i].name}

\* Names with different suffixes differ.
LEMMA AppendDiffers ==
  ASSUME NEW x, x \in Seq(Elements(x)), NEW y, y \in Seq(Elements(y)),
         NEW k \in Nat, NEW l \in Nat, Append(x, k) = Append(y, l)
  PROVE  x = y /\ k = l
<1>1. PICK S : S = Elements(x) \cup Elements(y) \cup Nat
  OBVIOUS
<1>2. Elements(x) \subseteq S /\ Elements(y) \subseteq S /\ k \in S /\ l \in S
  BY <1>1
<1>3. x \in Seq(S) /\ y \in Seq(S)
  BY <1>2, SeqMonotonic
<1>4. QED
  BY <1>2, <1>3, AppendInjective

LEMMA NameType ==
  ASSUME MappingAssumption, NEW f \in Files, NEW i \in DOMAIN f
  PROVE  /\ f[i].name \in Seq(Elements(f[i].name))
         /\ f[i].name # NoTarget /\ \A k \in 2..Len(f) : Append(f[i].name, k) # NoTarget
<1>1. PICK h \in Elements(f) : h = f[i]
  BY DEF Elements
<1>2. /\ h.name \in Seq(Elements(h.name))
      /\ NoTarget \notin {h.name} \cup {Append(h.name, k) : k \in 2..Len(f)}
  BY DEF MappingAssumption
<1>3. \A k \in 2..Len(f) : Append(h.name, k) # NoTarget
  BY <1>2
<1>4. QED
  BY <1>1, <1>2, <1>3

LEMMA DefaultTargetIs ==
  ASSUME NEW f, NEW n \in Nat, NEW i \in 1..n
  PROVE  /\ IsFiniteSet(Earlier(f, i)) /\ Cardinality(Earlier(f, i)) \in 0..n-1
         /\ Earlier(f, i) = {} => DefaultTarget(f, i) = f[i].name
         /\ Earlier(f, i) # {} =>
                /\ Cardinality(Earlier(f, i)) + 1 \in 2..n
                /\ DefaultTarget(f, i) = Append(f[i].name, Cardinality(Earlier(f, i)) + 1)
<1>1. Earlier(f, i) \in SUBSET (1..i-1) /\ i - 1 \in Nat
  BY DEF Earlier
<1>2. IsFiniteSet(1..i-1) /\ Cardinality(1..i-1) = i - 1
  BY <1>1, FS_Interval
<1>3. /\ IsFiniteSet(Earlier(f, i)) /\ Cardinality(Earlier(f, i)) \in Nat
      /\ Cardinality(Earlier(f, i)) <= i - 1
  BY <1>1, <1>2, FS_Subset, FS_CardinalityType
<1>4. Earlier(f, i) # {} => Cardinality(Earlier(f, i)) # 0
  BY <1>3, FS_EmptySet
<1>5. Earlier(f, i) = {} => DefaultTarget(f, i) = f[i].name
  BY DEF DefaultTarget, Earlier
<1>6. DefaultTarget(f, i) = IF Earlier(f, i) = {} THEN f[i].name
                            ELSE Append(f[i].name, Cardinality(Earlier(f, i)) + 1)
  BY DEF DefaultTarget, Earlier
<1>7. QED
  BY <1>3, <1>4, <1>5, <1>6

\* The count of one name's headers grows along the file.
LEMMA EarlierGrows ==
  ASSUME NEW f, NEW n \in Nat, NEW i \in 1..n, NEW j \in 1..n,
         i < j, f[i].name = f[j].name
  PROVE  Earlier(f, j) # {} /\ Cardinality(Earlier(f, i)) < Cardinality(Earlier(f, j))
<1>1. /\ i \in Earlier(f, j) /\ i \notin Earlier(f, i)
      /\ Earlier(f, i) \subseteq Earlier(f, j)
  BY DEF Earlier
<1>2. IsFiniteSet(Earlier(f, j)) /\ Earlier(f, i) # Earlier(f, j)
  BY <1>1, DefaultTargetIs
<1>3. /\ Cardinality(Earlier(f, i)) \in Nat /\ Cardinality(Earlier(f, j)) \in Nat
  BY DefaultTargetIs
<1>4. QED
  BY <1>1, <1>2, <1>3, FS_Subset

LEMMA NotSuffixed ==
  ASSUME NEW f, ~LooksSuffixed(f), NEW i \in DOMAIN f, NEW j \in DOMAIN f, NEW k \in 2..Len(f)
  PROVE  f[i].name # Append(f[j].name, k)
BY Zenon DEF LooksSuffixed

LEMMA DefaultsDiffer ==
  ASSUME MappingAssumption, NEW f \in Files, ~LooksSuffixed(f),
         NEW i \in DOMAIN f, NEW j \in DOMAIN f, i < j
  PROVE  DefaultTarget(f, i) # DefaultTarget(f, j)
<1>1. PICK n \in Nat : n = Len(f) /\ DOMAIN f = 1..n
  BY FileType, LenProperties
<1>2. i \in 1..n /\ j \in 1..n
  BY <1>1
<1>3. ASSUME NEW k \in 2..n
      PROVE  f[i].name # Append(f[j].name, k) /\ f[j].name # Append(f[i].name, k)
  <2>1. k \in 2..Len(f)
    BY <1>1
  <2>2. QED
    BY <2>1, NotSuffixed
<1>4. CASE f[i].name = f[j].name
  <2>1. Earlier(f, j) # {} /\ Cardinality(Earlier(f, i)) < Cardinality(Earlier(f, j))
    BY <1>2, <1>4, EarlierGrows
  <2>2. PICK x, k : x = f[i].name /\ k = Cardinality(Earlier(f, j)) + 1
    OBVIOUS
  <2>3. DefaultTarget(f, j) = Append(x, k) /\ k \in 2..n
    BY <1>2, <1>4, <2>1, <2>2, DefaultTargetIs
  <2>4. CASE Earlier(f, i) = {}
    <3>1. DefaultTarget(f, i) = x
      BY <1>2, <2>2, <2>4, DefaultTargetIs
    <3>2. x # Append(x, k)
      BY <1>3, <1>4, <2>2, <2>3, Zenon
    <3>3. QED
      BY <2>3, <3>1, <3>2
  <2>5. CASE Earlier(f, i) # {}
    <3>1. PICK l : l = Cardinality(Earlier(f, i)) + 1
      OBVIOUS
    <3>2. DefaultTarget(f, i) = Append(x, l) /\ l \in 2..n
      BY <1>2, <2>2, <2>5, <3>1, DefaultTargetIs
    <3>3. l # k
      <4>1. Cardinality(Earlier(f, i)) \in Nat /\ Cardinality(Earlier(f, j)) \in Nat
        BY <1>2, DefaultTargetIs
      <4>2. QED
        BY <2>1, <2>2, <3>1, <4>1
    <3>4. Append(x, l) # Append(x, k)
      <4>1. x \in Seq(Elements(x)) /\ k \in Nat /\ l \in Nat
        BY <2>2, <2>3, <3>2, NameType
      <4>2. QED
        BY <3>3, <4>1, AppendDiffers
    <3>5. QED
      BY <2>3, <3>2, <3>4
  <2>6. QED
    BY <2>4, <2>5
<1>5. CASE f[i].name # f[j].name
  <2>1. PICK x, y : x = f[i].name /\ y = f[j].name
    OBVIOUS
  <2>2. \A k, l \in 2..n : Append(x, k) # Append(y, l)
    <3>1. x \in Seq(Elements(x)) /\ y \in Seq(Elements(y)) /\ x # y
      BY <1>5, <2>1, NameType
    <3>2. ASSUME NEW k \in 2..n, NEW l \in 2..n PROVE Append(x, k) # Append(y, l)
      BY <3>1, AppendDiffers
    <3>3. QED
      BY <3>2
  <2>3. DefaultTarget(f, i) = x \/ \E k \in 2..n : DefaultTarget(f, i) = Append(x, k)
    BY <1>2, <2>1, DefaultTargetIs
  <2>4. DefaultTarget(f, j) = y \/ \E k \in 2..n : DefaultTarget(f, j) = Append(y, k)
    BY <1>2, <2>1, DefaultTargetIs
  <2>5. QED
    BY <1>3, <1>5, <2>1, <2>2, <2>3, <2>4
<1>6. QED
  BY <1>4, <1>5

\* Each of their columns is alone in its field.
LEMMA DefaultsApart ==
  ASSUME MappingAssumption, NEW f \in Files, ~LooksSuffixed(f), NEW i \in DOMAIN f
  PROVE  \E t \in DOMAIN ApplyMapping(DefaultResolution(f)) :
            ApplyMapping(DefaultResolution(f))[t] = <<f[i]>>
<1>1. PICK n \in Nat : n = Len(f) /\ DOMAIN f = 1..n
  BY FileType, LenProperties
<1>2. PICK r : r = [j \in DOMAIN f |-> [column |-> f[j], target |-> DefaultTarget(f, j)]]
  OBVIOUS
<1>3. DOMAIN r = 1..n /\ \A j \in 1..n : r[j].column = f[j] /\ r[j].target = DefaultTarget(f, j)
  BY <1>1, <1>2
<1>4. ColumnsOf(r) = f
  <2>1. ColumnsOf(r) = [j \in 1..n |-> f[j]]
    BY <1>3 DEF ColumnsOf
  <2>2. f \in Seq(Headers)
    BY FileType
  <2>3. QED
    BY <1>1, <2>1, <2>2
<1>5. PICK t : t = DefaultTarget(f, i)
  OBVIOUS
<1>6. t # NoTarget
  <2>1. i \in 1..n
    BY <1>1
  <2>2. t = f[i].name \/ \E k \in 2..n : t = Append(f[i].name, k)
    BY <1>5, <2>1, DefaultTargetIs
  <2>3. QED
    BY <1>1, <2>2, NameType
<1>7. t \in TargetsOf(r)
  BY <1>1, <1>3, <1>5, <1>6 DEF TargetsOf
<1>8. PICK set : set = {j \in DOMAIN r : r[j].target = t}
  OBVIOUS
<1>9. set = {i}
  <2>1. \A j \in 1..n : DefaultTarget(f, j) = DefaultTarget(f, i) => j = i
    <3>1. ASSUME NEW j \in 1..n, DefaultTarget(f, j) = DefaultTarget(f, i) PROVE j = i
      <4>1. ~(j < i) /\ ~(i < j)
        BY <1>1, <3>1, DefaultsDiffer
      <4>2. j \in Nat /\ i \in Nat
        BY <1>1
      <4>3. QED
        BY <4>1, <4>2
    <3>2. QED
      BY <3>1
  <2>2. QED
    BY <1>1, <1>3, <1>5, <1>8, <2>1
<1>10. PICK p : p = Picked(f, set)
  OBVIOUS
<1>11. p = <<f[i]>>
  <2>1. f \in Seq(Headers) /\ set \in SUBSET DOMAIN f
    BY <1>9, FileType
  <2>2. Cardinality(set) = 1
    BY <1>9, FS_Singleton
  <2>3. /\ p \in Seq(Headers) /\ Len(p) = 1
        /\ \A k \in 1..1 : Nth(set, k) \in set /\ p[k] = f[Nth(set, k)]
    <3>1. PICK c : c = Cardinality(set)
      OBVIOUS
    <3>2. /\ p \in Seq(Headers) /\ Len(p) = c
          /\ \A k \in 1..c : Nth(set, k) \in set /\ p[k] = f[Nth(set, k)]
      BY <1>10, <2>1, <3>1, PickedProperties
    <3>3. QED
      BY <2>2, <3>1, <3>2
  <2>4. p[1] = f[i]
    BY <1>9, <2>3
  <2>5. QED
    BY <2>3, <2>4
<1>12. ApplyMapping(r)[t] = p /\ t \in DOMAIN ApplyMapping(r)
  <2>1. ApplyMapping(r) =
          [u \in TargetsOf(r) |-> Picked(f, {j \in DOMAIN r : r[j].target = u})]
    BY <1>4 DEF ApplyMapping
  <2>2. QED
    BY <1>7, <1>8, <1>10, <2>1
<1>13. r = DefaultResolution(f)
  BY <1>2 DEF DefaultResolution
<1>14. QED
  BY <1>11, <1>12, <1>13

-----------------------------------------------------------------------------
(* The inductive invariant of ColumnMapping.                               *)

Run == [headers : Files, resolution : Seq(Entry), sent : Seq(Seq(Entry)),
        fields : UNION {[T -> Seq(Headers)] : T \in SUBSET FieldNames}, tidy : BOOLEAN]

\* A run's records have its resolution's fields, made of what its upload made; all
\* the resolutions the client knows it by map the columns of its file.
RunOK(u) ==
    /\ u \in Run /\ ColumnsOnce(u.resolution)
    /\ u.fields \in [TargetsOf(u.resolution) -> Seq(Headers)]
    /\ Len(u.sent) >= 1 /\ \A n \in DOMAIN u.sent : Fits(u.sent[n], Fingerprint(u.headers))
    /\ Whole(u.fields, ApplyMapping(u.sent[1]))
    /\ u.tidy => u.fields = ApplyMapping(u.resolution)

MappingInv ==
    /\ runs \in Seq(Run) /\ \A r \in DOMAIN runs : RunOK(runs[r])
    /\ \A shape \in DOMAIN mappings :
        Fits(mappings[shape], shape) /\ TargetsOf(mappings[shape]) \subseteq Targets
    /\ FailsOnSpellingOnly
    /\ reviews \in 0..MaxReviews

LEMMA TargetsType ==
  ASSUME NEW res \in Seq(Entry)
  PROVE  TargetsOf(res) \subseteq FieldNames
<1>1. \A i \in DOMAIN res : res[i] \in Entry
  BY LenProperties, ElementOfSeq
<1>2. QED
  BY <1>1 DEF TargetsOf, Entry

LEMMA ResolutionFits ==
  ASSUME MappingAssumption, MappingInv, NEW f \in Files
  PROVE  Fits(ResolutionFor(f), Fingerprint(f))
<1>1. CASE Fingerprint(f) \in DOMAIN mappings
  BY <1>1 DEF ResolutionFor, MappingInv
<1>2. CASE Fingerprint(f) \notin DOMAIN mappings
  BY <1>2, DefaultFits DEF ResolutionFor
<1>3. QED
  BY <1>1, <1>2

\* A run built from its parts.
LEMMA RunBuilt ==
  ASSUME NEW h \in Files, NEW res \in Seq(Entry), NEW sent \in Seq(Seq(Entry)), NEW y \in BOOLEAN,
         NEW fields \in [TargetsOf(res) -> Seq(Headers)]
  PROVE  [headers |-> h, resolution |-> res, sent |-> sent, fields |-> fields, tidy |-> y] \in Run
<1>1. fields \in UNION {[T -> Seq(Headers)] : T \in SUBSET FieldNames}
  BY TargetsType
<1>2. QED
  BY <1>1 DEF Run

LEMMA RunsAppend ==
  ASSUME NEW s \in Seq(Run), \A r \in DOMAIN s : RunOK(s[r]), NEW u, RunOK(u)
  PROVE  Append(s, u) \in Seq(Run) /\ \A r \in DOMAIN Append(s, u) : RunOK(Append(s, u)[r])
<1>1. u \in Run
  BY DEF RunOK
<1>2. PICK n \in Nat : n = Len(s) /\ DOMAIN s = 1..n
  BY LenProperties
<1>3. PICK t : t = Append(s, u)
  OBVIOUS
<1>4. /\ t \in Seq(Run) /\ Len(t) = n + 1 /\ DOMAIN t = 1..n+1
      /\ \A r \in 1..n : t[r] = s[r]
      /\ t[n + 1] = u
  BY <1>1, <1>2, <1>3, AppendProperties, LenProperties
<1>5. \A r \in 1..n+1 : r = n + 1 \/ r \in 1..n
  BY <1>2
<1>6. \A r \in DOMAIN t : RunOK(t[r])
  BY <1>2, <1>4, <1>5
<1>7. QED
  BY <1>3, <1>4, <1>6

LEMMA RunsExcept ==
  ASSUME NEW s \in Seq(Run), \A r \in DOMAIN s : RunOK(s[r]), NEW k \in DOMAIN s, NEW u, RunOK(u)
  PROVE  /\ [s EXCEPT ![k] = u] \in Seq(Run) /\ DOMAIN [s EXCEPT ![k] = u] = DOMAIN s
         /\ \A r \in DOMAIN s : RunOK([s EXCEPT ![k] = u][r])
<1>1. u \in Run
  BY DEF RunOK
<1>2. PICK t : t = [s EXCEPT ![k] = u]
  OBVIOUS
<1>3. t \in Seq(Run) /\ DOMAIN t = DOMAIN s
  BY <1>1, <1>2, ExceptSeq
<1>4. \A r \in DOMAIN s : t[r] = IF r = k THEN u ELSE s[r]
  BY <1>2
<1>5. \A r \in DOMAIN s : RunOK(t[r])
  BY <1>4
<1>6. QED
  BY <1>2, <1>3, <1>5

LEMMA MappingStart ==
  ASSUME MappingAssumption, MappingInit
  PROVE  MappingInv
<1>1. runs = <<>> /\ refused = {} /\ reviews = 0 /\ DOMAIN mappings = {}
  BY DEF MappingInit
<1>2. runs \in Seq(Run) /\ DOMAIN runs = {}
  BY <1>1, EmptySeq
<1>3. FailsOnSpellingOnly
  BY <1>1 DEF FailsOnSpellingOnly
<1>4. reviews \in 0..MaxReviews
  BY <1>1 DEF MappingAssumption
<1>5. QED
  BY <1>1, <1>2, <1>3, <1>4 DEF MappingInv

LEMMA UploadStep ==
  ASSUME MappingAssumption, MappingInv, NEW f \in Files, Upload(f)
  PROVE  MappingInv'
<1>1. PICK res : res = ResolutionFor(f)
  OBVIOUS
<1>2. Fits(res, Fingerprint(f)) /\ res \in Seq(Entry) /\ ColumnsOnce(res)
  BY <1>1, ResolutionFits DEF Fits
<1>3. PICK fields : fields = ApplyMapping(res)
  OBVIOUS
<1>4. fields \in [TargetsOf(res) -> Seq(Headers)] /\ Whole(fields, fields)
  BY <1>2, <1>3, MadeWhole
<1>5. PICK sent : sent = <<res>>
  OBVIOUS
<1>6. sent \in Seq(Seq(Entry)) /\ Len(sent) = 1 /\ DOMAIN sent = 1..1 /\ sent[1] = res
  BY <1>2, <1>5
<1>7. PICK u : u = [headers |-> f, resolution |-> res, sent |-> sent, fields |-> fields, tidy |-> TRUE]
  OBVIOUS
<1>8. /\ u \in Run /\ u.headers = f /\ u.resolution = res /\ u.sent = sent /\ u.fields = fields
  BY <1>2, <1>4, <1>6, <1>7, RunBuilt
<1>9. RunOK(u)
  <2>1. \A n \in DOMAIN u.sent : Fits(u.sent[n], Fingerprint(u.headers))
    BY <1>2, <1>6, <1>8
  <2>2. u.fields = ApplyMapping(u.resolution) /\ ApplyMapping(u.sent[1]) = fields
    BY <1>3, <1>6, <1>8
  <2>3. /\ ColumnsOnce(u.resolution)
        /\ u.fields \in [TargetsOf(u.resolution) -> Seq(Headers)]
    BY <1>2, <1>4, <1>8
  <2>4. Len(u.sent) >= 1 /\ Whole(u.fields, ApplyMapping(u.sent[1]))
    <3>1. Len(u.sent) >= 1
      <4>1. Len(u.sent) = 1
        BY <1>6, <1>8
      <4>2. \A n : n = 1 => n >= 1
        OBVIOUS
      <4>3. QED
        BY <4>1, <4>2
    <3>2. Whole(u.fields, ApplyMapping(u.sent[1]))
      BY <1>4, <1>8, <2>2, Zenon
    <3>3. QED
      BY <3>1, <3>2
  <2>5. QED
    BY <1>8, <2>1, <2>2, <2>3, <2>4 DEF RunOK
<1>10. runs' = Append(runs, u) /\ UNCHANGED <<mappings, refused, reviews>>
  BY <1>1, <1>3, <1>5, <1>7 DEF Upload
<1>11. runs' \in Seq(Run) /\ \A r \in DOMAIN runs' : RunOK(runs'[r])
  BY <1>9, <1>10, RunsAppend DEF MappingInv
<1>12. QED
  BY <1>10, <1>11 DEF MappingInv, FailsOnSpellingOnly

LEMMA UploadRefusedStep ==
  ASSUME MappingAssumption, MappingInv, NEW f \in Files, UploadRefused(f)
  PROVE  MappingInv'
<1>1. PICK res : res = ResolutionFor(f)
  OBVIOUS
<1>2. Fits(res, Fingerprint(f))
  BY <1>1, ResolutionFits
<1>3. /\ Len(f) = Len(res)
      /\ \A e \in Elements(res) : \E h \in Elements(f) : h.text = e.column.text
  BY <1>2, SameShape
<1>4. PICK u : u = [file |-> f, resolution |-> res]
  OBVIOUS
<1>5. refused' = refused \cup {u} /\ UNCHANGED <<mappings, runs, reviews>>
  BY <1>1, <1>4 DEF UploadRefused
<1>6. u.file = f /\ u.resolution = res
  BY <1>4
<1>7. FailsOnSpellingOnly'
  <2>1. \A w \in refused' : w \in refused \/ w = u
    BY <1>5
  <2>2. FailsOnSpellingOnly
    BY DEF MappingInv
  <2>3. QED
    BY <1>3, <1>6, <2>1, <2>2 DEF FailsOnSpellingOnly
<1>8. QED
  BY <1>5, <1>7 DEF MappingInv

\* What the review screen sends is a mapping of the run's columns.
LEMMA ShownFits ==
  ASSUME MappingInv, NEW r \in DOMAIN runs, NEW old \in Elements(runs[r].sent) \cup {<<>>},
         Shown(runs[r], old) # <<>>
  PROVE  Fits(Shown(runs[r], old), Fingerprint(runs[r].headers))
<1>1. PICK u : u = runs[r]
  OBVIOUS
<1>2. RunOK(u)
  BY <1>1 DEF MappingInv
<1>3. CASE Fingerprint(u.headers) \in DOMAIN mappings
  BY <1>1, <1>3 DEF Shown, MappingInv
<1>4. CASE Fingerprint(u.headers) \notin DOMAIN mappings
  <2>1. Shown(u, old) = old
    BY <1>4 DEF Shown
  <2>2. PICK n \in DOMAIN u.sent : old = u.sent[n]
    BY <1>1, <2>1 DEF Elements
  <2>3. Fits(old, Fingerprint(u.headers))
    BY <1>2, <2>2 DEF RunOK
  <2>4. QED
    BY <1>1, <2>1, <2>3
<1>5. QED
  BY <1>1, <1>3, <1>4

LEMMA KnownOK ==
  ASSUME NEW u, RunOK(u), NEW new, Fits(new, Fingerprint(u.headers))
  PROVE  RunOK(Known(u, new))
<1>1. PICK sent : sent = Append(u.sent, new)
  OBVIOUS
<1>2. u.sent \in Seq(Seq(Entry)) /\ new \in Seq(Entry) /\ Len(u.sent) >= 1
  BY DEF RunOK, Run, Fits
<1>3. PICK n \in Nat : n = Len(u.sent) /\ DOMAIN u.sent = 1..n
  BY <1>2, LenProperties
<1>4. /\ sent \in Seq(Seq(Entry)) /\ Len(sent) = n + 1 /\ DOMAIN sent = 1..n+1
      /\ \A i \in 1..n : sent[i] = u.sent[i]
      /\ sent[n + 1] = new
  BY <1>1, <1>2, <1>3, AppendProperties, LenProperties
<1>5. PICK v : v = [u EXCEPT !.sent = sent]
  OBVIOUS
<1>6. /\ v \in Run /\ v.sent = sent /\ v.headers = u.headers /\ v.resolution = u.resolution
      /\ v.fields = u.fields /\ v.tidy = u.tidy
  BY <1>4, <1>5 DEF RunOK, Run
<1>7. \A i \in 1..n+1 : i = n + 1 \/ i \in 1..n
  BY <1>3
<1>8. \A i \in 1..n : Fits(u.sent[i], Fingerprint(u.headers))
  BY <1>3 DEF RunOK
<1>9. \A i \in DOMAIN v.sent : Fits(v.sent[i], Fingerprint(v.headers))
  <2>1. \A i \in 1..n+1 : Fits(sent[i], Fingerprint(u.headers))
    BY <1>4, <1>7, <1>8
  <2>2. QED
    BY <1>4, <1>6, <2>1
<1>10. Len(v.sent) >= 1 /\ v.sent[1] = u.sent[1]
  BY <1>2, <1>3, <1>4, <1>6
<1>11. RunOK(v)
  <2>1. /\ ColumnsOnce(u.resolution)
        /\ u.fields \in [TargetsOf(u.resolution) -> Seq(Headers)]
        /\ Whole(u.fields, ApplyMapping(u.sent[1]))
        /\ u.tidy => u.fields = ApplyMapping(u.resolution)
    BY DEF RunOK
  <2>2. QED
    BY <1>6, <1>9, <1>10, <2>1 DEF RunOK
<1>12. v = Known(u, new)
  BY <1>1, <1>5 DEF Known
<1>13. QED
  BY <1>11, <1>12

\* Whatever run it is applied to, and whatever that run is said to have been.
LEMMA AppliedOK ==
  ASSUME NEW u, RunOK(u), NEW old, NEW new \in Seq(Entry), ColumnsOnce(new)
  PROVE  RunOK(Applied(u, old, new))
<1>1. PICK fields, made : fields = u.fields /\ made = ApplyMapping(u.sent[1])
  OBVIOUS
<1>2. Fields(fields) /\ Whole(fields, made)
  BY <1>1 DEF RunOK, Fields
<1>3. PICK after : after = Reviewed(fields, old, new)
  OBVIOUS
<1>4. after \in [TargetsOf(new) -> Seq(Headers)] /\ Whole(after, made)
  BY <1>2, <1>3, ReviewedWhole
<1>5. PICK y : y = (u.tidy /\ old = u.resolution /\ Orderly(old, new))
  OBVIOUS
<1>6. y => after = ApplyMapping(new)
  <2>1. SUFFICES ASSUME y PROVE after = ApplyMapping(new)
    OBVIOUS
  <2>2. u.tidy /\ old = u.resolution /\ Orderly(old, new)
    BY <1>5, <2>1
  <2>3. old \in Seq(Entry) /\ ColumnsOnce(old) /\ fields = ApplyMapping(old)
    BY <1>1, <2>2 DEF RunOK, Run
  <2>4. Reviewed(ApplyMapping(old), old, new) = ApplyMapping(new)
    BY <2>2, <2>3, OrderlyReview
  <2>5. QED
    BY <1>3, <2>3, <2>4
<1>7. PICK v : v = [headers |-> u.headers, resolution |-> new, sent |-> u.sent,
                    fields |-> after, tidy |-> y]
  OBVIOUS
<1>8. v = Applied(u, old, new)
  BY <1>1, <1>3, <1>5, <1>7 DEF Applied
<1>9. /\ v \in Run /\ v.headers = u.headers /\ v.resolution = new /\ v.sent = u.sent
      /\ v.fields = after /\ v.tidy = y
  <2>1. u.headers \in Files /\ u.sent \in Seq(Seq(Entry))
    BY DEF RunOK, Run
  <2>2. y \in BOOLEAN
    BY <1>5
  <2>3. v \in Run
    BY <1>4, <1>7, <2>1, <2>2, RunBuilt
  <2>4. QED
    BY <1>7, <2>3
<1>10. /\ Len(u.sent) >= 1
       /\ \A n \in DOMAIN u.sent : Fits(u.sent[n], Fingerprint(u.headers))
  BY DEF RunOK
<1>11. \A n \in DOMAIN v.sent : Fits(v.sent[n], Fingerprint(v.headers))
  BY <1>9, <1>10
<1>12. Len(v.sent) >= 1 /\ Whole(v.fields, ApplyMapping(v.sent[1]))
  BY <1>1, <1>4, <1>9, <1>10
<1>13. v.tidy => v.fields = ApplyMapping(v.resolution)
  BY <1>6, <1>9
<1>14. /\ ColumnsOnce(v.resolution)
       /\ v.fields \in [TargetsOf(v.resolution) -> Seq(Headers)]
  BY <1>4, <1>9
<1>15. RunOK(v)
  BY <1>9, <1>11, <1>12, <1>13, <1>14 DEF RunOK
<1>16. QED
  BY <1>8, <1>15

LEMMA SaveStep ==
  ASSUME MappingAssumption, MappingInv, NEW r \in DOMAIN runs, NEW named \in BOOLEAN,
         NEW old \in Elements(runs[r].sent) \cup {<<>>},
         NEW choice \in TargetChoices(Shown(runs[r], old)),
         Save(r, old, choice, named)
  PROVE  MappingInv'
<1>1. PICK screen, new : screen = Shown(runs[r], old) /\ new = Edited(screen, choice)
  OBVIOUS
<1>2. PICK u, shape : u = runs[r] /\ shape = Fingerprint(u.headers)
  OBVIOUS
<1>3. RunOK(u)
  BY <1>2 DEF MappingInv
<1>4. Fits(screen, shape)
  <2>1. Shown(runs[r], old) # <<>>
    BY DEF Save
  <2>2. QED
    BY <1>1, <1>2, <2>1, ShownFits
<1>5. Fits(new, shape) /\ TargetsOf(new) \subseteq Targets
  BY <1>1, <1>4, EditedFits
<1>6. new \in Seq(Entry) /\ ColumnsOnce(new)
  BY <1>5 DEF Fits
<1>7. /\ reviews < MaxReviews /\ reviews' = reviews + 1 /\ refused' = refused
      /\ mappings' = [s \in DOMAIN mappings \cup {shape} |-> IF s = shape THEN new ELSE mappings[s]]
  BY <1>1, <1>2 DEF Save
\* The saved mapping.
<1>8. \A s \in DOMAIN mappings' :
        Fits(mappings'[s], s) /\ TargetsOf(mappings'[s]) \subseteq Targets
  <2>1. SUFFICES ASSUME NEW s \in DOMAIN mappings'
                 PROVE  Fits(mappings'[s], s) /\ TargetsOf(mappings'[s]) \subseteq Targets
    OBVIOUS
  <2>2. CASE s = shape
    <3>1. mappings'[s] = new
      BY <1>7, <2>2
    <3>2. QED
      BY <1>5, <2>2, <3>1
  <2>3. CASE s # shape
    <3>1. s \in DOMAIN mappings /\ mappings'[s] = mappings[s]
      BY <1>7, <2>1, <2>3
    <3>2. QED
      BY <3>1 DEF MappingInv
  <2>4. QED
    BY <2>2, <2>3
\* The run it was shown beside, and the one it is applied to.
<1>9. PICK known : known = Known(u, new)
  OBVIOUS
<1>10. RunOK(known)
  BY <1>2, <1>3, <1>5, <1>9, KnownOK
<1>11. runs \in Seq(Run) /\ \A k \in DOMAIN runs : RunOK(runs[k])
  BY DEF MappingInv
<1>12. PICK written : written = [runs EXCEPT ![r] = known]
  OBVIOUS
<1>13. /\ written \in Seq(Run) /\ DOMAIN written = DOMAIN runs
       /\ \A k \in DOMAIN written : RunOK(written[k])
  BY <1>10, <1>11, <1>12, RunsExcept
<1>14. PICK target : target = IF named THEN r ELSE Len(runs)
  OBVIOUS
<1>15. target \in DOMAIN runs
  <2>1. Len(runs) \in Nat /\ DOMAIN runs = 1..Len(runs)
    BY <1>11, LenProperties
  <2>2. QED
    BY <1>14, <2>1
<1>16. PICK changed : changed = Applied(written[target], old, new)
  OBVIOUS
<1>17. RunOK(changed)
  BY <1>6, <1>13, <1>15, <1>16, AppliedOK
<1>18. runs' = [written EXCEPT ![target] = changed] \/ runs' = written
  BY <1>1, <1>2, <1>9, <1>12, <1>14, <1>16 DEF Save
<1>19. runs' \in Seq(Run) /\ \A k \in DOMAIN runs' : RunOK(runs'[k])
  <2>1. CASE runs' = written
    BY <1>13, <2>1
  <2>2. CASE runs' = [written EXCEPT ![target] = changed]
    BY <1>13, <1>15, <1>17, <2>2, RunsExcept
  <2>3. QED
    BY <1>18, <2>1, <2>2
<1>20. FailsOnSpellingOnly'
  BY <1>7 DEF MappingInv, FailsOnSpellingOnly
<1>21. reviews' \in 0..MaxReviews
  BY <1>7 DEF MappingInv, MappingAssumption
<1>22. QED
  BY <1>8, <1>19, <1>20, <1>21 DEF MappingInv

\* What uploads and saves preserve: every mapping saved for a shape maps the columns
\* of that shape, once each and to fields of the schema; every run's records have the
\* fields of its resolution, each made of what the upload made of one field
\* (main.py:536-646).
THEOREM MappingInvariant ==
  ASSUME MappingAssumption
  PROVE  MappingSpec => []MappingInv
<1>1. MappingInit => MappingInv
  BY MappingStart
<1>2. MappingInv /\ [MappingNext]_mappingVars => MappingInv'
  <2>1. SUFFICES ASSUME MappingInv, [MappingNext]_mappingVars
                 PROVE  MappingInv'
    OBVIOUS
  <2>2. ASSUME NEW f \in Files, Upload(f) \/ UploadRefused(f)
        PROVE  MappingInv'
    BY <2>1, <2>2, UploadStep, UploadRefusedStep
  <2>3. ASSUME NEW r \in DOMAIN runs, NEW named \in BOOLEAN,
               NEW old \in Elements(runs[r].sent) \cup {<<>>},
               NEW choice \in TargetChoices(Shown(runs[r], old)),
               Save(r, old, choice, named)
        PROVE  MappingInv'
    BY <2>1, <2>3, SaveStep
  <2>4. CASE UNCHANGED mappingVars
    BY <2>1, <2>4 DEF mappingVars, MappingInv, FailsOnSpellingOnly
  <2>5. QED
    BY <2>1, <2>2, <2>3, <2>4 DEF MappingNext
<1>3. QED
  BY <1>1, <1>2, PTL DEF MappingSpec

\* Records have exactly the fields of their run's resolution, whatever the client
\* claims the run was mapped by before (main.py:636-646).
THEOREM MappingTypes ==
  ASSUME MappingAssumption
  PROVE  MappingSpec => []MappingTypeOK
<1>1. MappingInv => MappingTypeOK
  BY DEF MappingInv, RunOK, Run, MappingTypeOK
<1>2. QED
  BY <1>1, MappingInvariant, PTL

\* Orderly reviews amount to uploading the file again under the new mapping: no rename
\* takes a name whose field is still to be renamed (main.py:592-646).
THEOREM ValuesFollow ==
  ASSUME MappingAssumption
  PROVE  MappingSpec => []ValuesFollowTheirColumns
<1>1. MappingInv => ValuesFollowTheirColumns
  BY DEF MappingInv, RunOK, ValuesFollowTheirColumns
<1>2. QED
  BY <1>1, MappingInvariant, PTL

\* Whatever mapping a review claims and sends, in whatever order, it moves values or
\* loses them, and never leaves one in two fields (main.py:611-619).
THEOREM NothingMadeUp ==
  ASSUME MappingAssumption
  PROVE  MappingSpec => []ValuesStayWhole
<1>1. MappingInv => ValuesStayWhole
  BY DEF MappingInv, RunOK, ValuesStayWhole, Whole
<1>2. QED
  BY <1>1, MappingInvariant, PTL

\* A file nobody has reviewed gets a field of its own for each column, unless a header
\* looks like another with a suffix (mapping.py:47-58).
THEOREM DefaultsStayApart ==
  ASSUME MappingAssumption
  PROVE  MappingSpec => []DefaultsKeepColumnsApart
<1>1. MappingInv => DefaultsKeepColumnsApart
  <2>1. SUFFICES ASSUME MappingInv, NEW r \in DOMAIN runs, runs[r].tidy,
                        runs[r].resolution = DefaultResolution(runs[r].headers),
                        ~LooksSuffixed(runs[r].headers),
                        NEW i \in DOMAIN runs[r].headers
                 PROVE  \E t \in DOMAIN runs[r].fields :
                            runs[r].fields[t] = <<runs[r].headers[i]>>
    BY DEF DefaultsKeepColumnsApart
  <2>2. PICK u, f : u = runs[r] /\ f = u.headers
    OBVIOUS
  <2>3. f \in Files /\ u.fields = ApplyMapping(DefaultResolution(f))
    BY <2>1, <2>2 DEF MappingInv, RunOK, Run
  <2>4. \E t \in DOMAIN ApplyMapping(DefaultResolution(f)) :
            ApplyMapping(DefaultResolution(f))[t] = <<f[i]>>
    BY <2>1, <2>2, <2>3, DefaultsApart
  <2>5. QED
    BY <2>2, <2>3, <2>4
<1>2. QED
  BY <1>1, MappingInvariant, PTL

\* A file that fails on the mapping of its shape has the mapped columns, as many, and
\* spells one differently (mapping.py:16-21, 139-141).
THEOREM OnlySpellingFails ==
  ASSUME MappingAssumption
  PROVE  MappingSpec => []FailsOnSpellingOnly
<1>1. MappingInv => FailsOnSpellingOnly
  BY DEF MappingInv
<1>2. QED
  BY <1>1, MappingInvariant, PTL
=============================================================================
