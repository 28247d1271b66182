---- MODULE DictBackendProofs ----
(***************************************************************************)
(* Proofs about DictBackend, for every set of keys, values, hashes, table  *)
(* sizes and every probe sequence that covers the table.                   *)
(***************************************************************************)
EXTENDS DictBackend, Integers, SequencesExt, FiniteSetTheorems, SequenceTheorems,
        WellFoundedInduction, TLAPS

-----------------------------------------------------------------------------
(* Sequences and numbers *)

(* A non-empty set of naturals has a least element, and Min returns it. *)
LEMMA MinOfNats ==
  ASSUME NEW S, S \subseteq Nat, S # {}
  PROVE  Min(S) \in S /\ \A y \in S : Min(S) <= y
<1>1. PICK x \in S : \A y \in S : ~ (<<y, x>> \in OpToRel(<, Nat))
  BY NatLessThanWellFounded, WFMin
<1>2. ASSUME NEW y \in S PROVE x <= y
  <2>1. x \in Nat /\ y \in Nat
    OBVIOUS
  <2>2. ~(y < x)
    BY <1>1, <2>1 DEF OpToRel
  <2>. QED  BY <2>1, <2>2
<1>. QED  BY <1>2 DEF Min

(* it move down by one.                                                     *)
LEMMA RemoveAtProperties ==
  ASSUME NEW S, NEW s \in Seq(S), NEW i \in 1 .. Len(s)
  PROVE  /\ RemoveAt(s, i) \in Seq(S)
         /\ Len(RemoveAt(s, i)) = Len(s) - 1
         /\ \A j \in 1 .. (Len(s) - 1) :
              RemoveAt(s, i)[j] = IF j < i THEN s[j] ELSE s[j + 1]
<1>. DEFINE a == SubSeq(s, 1, i - 1)
            b == SubSeq(s, i + 1, Len(s))
<1>1. a \in Seq(S) /\ Len(a) = i - 1 /\ \A j \in 1 .. (i - 1) : a[j] = s[j]
  BY SubSeqProperties
<1>2. b \in Seq(S) /\ Len(b) = Len(s) - i /\ \A j \in 1 .. (Len(s) - i) : b[j] = s[i + j]
  <2>1. \A j \in (i + 1) .. Len(s) : s[j] \in S
    OBVIOUS
  <2>2. /\ b \in Seq(S)
        /\ Len(b) = IF i + 1 <= Len(s) THEN Len(s) - (i + 1) + 1 ELSE 0
        /\ \A j \in 1 .. (Len(s) - (i + 1) + 1) : b[j] = s[(i + 1) + j - 1]
    BY <2>1, SubSeqProperties
  <2>. QED  BY <2>2
<1>3. /\ a \o b \in Seq(S)
      /\ Len(a \o b) = Len(a) + Len(b)
      /\ \A j \in 1 .. Len(a) + Len(b) : (a \o b)[j] = IF j <= Len(a) THEN a[j] ELSE b[j - Len(a)]
  BY <1>1, <1>2, ConcatProperties
<1>4. RemoveAt(s, i) = a \o b
  BY DEF RemoveAt
<1>5. ASSUME NEW j \in 1 .. (Len(s) - 1)
      PROVE  RemoveAt(s, i)[j] = IF j < i THEN s[j] ELSE s[j + 1]
  <2>1. CASE j < i
    <3>. HIDE DEF a, b
    <3>1. j \in 1 .. (i - 1) /\ j \in 1 .. Len(a) + Len(b) /\ j <= Len(a)
      BY <2>1, <1>1, <1>2
    <3>2. (a \o b)[j] = a[j]
      BY <3>1, <1>3
    <3>3. a[j] = s[j]
      BY <3>1, <1>1
    <3>. QED  BY <3>2, <3>3, <1>4, <2>1
  <2>2. CASE ~(j < i)
    <3>. HIDE DEF a, b
    <3>1. (a \o b)[j] = b[j - Len(a)]
      BY <2>2, <1>1, <1>2, <1>3
    <3>2. j - Len(a) \in 1 .. (Len(s) - i) /\ i + (j - Len(a)) = j + 1
      BY <2>2, <1>1
    <3>3. b[j - Len(a)] = s[i + (j - Len(a))]
      BY <3>2, <1>2
    <3>4. RemoveAt(s, i)[j] = s[j + 1]
      BY <3>1, <3>2, <3>3, <1>4
    <3>. QED  BY <3>4, <2>2
  <2>. QED  BY <2>1, <2>2
<1>6. RemoveAt(s, i) \in Seq(S) /\ Len(RemoveAt(s, i)) = Len(s) - 1
  <2>. HIDE DEF a, b
  <2>1. Len(a) + Len(b) = Len(s) - 1
    BY <1>1, <1>2, LenProperties
  <2>2. Len(a \o b) = Len(s) - 1
    BY <1>3, <2>1
  <2>. QED  BY <1>3, <1>4, <2>2, Zenon
<1>. QED  BY <1>5, <1>6

(* The n slots of a table are a finite set of n members. *)
LEMMA SlotInterval ==
  ASSUME NEW n \in Nat
  PROVE  IsFiniteSet(0 .. (n - 1)) /\ Cardinality(0 .. (n - 1)) = n
BY FS_Interval

-----------------------------------------------------------------------------
(* The inductive invariant *)

\* No key takes the linear path of an unhashable one.
AllHashable == \A k \in Keys : LookupHash[k] # NoHash

\* The entries that the slot table accounts for.
Placed == IF pc = "rebuild" THEN cursor - 1 ELSE Len(entries)

NonEmptySlots == {s \in 0 .. (size - 1) : slots[s].kind # "empty"}
OccupiedSlots == {s \in 0 .. (size - 1) : slots[s].kind = "occupied"}

\* An insertion has doubled the table and will take a vacant slot of it.
Growing == pc = "place" \/ (pc = "rebuild" /\ after = "place")

ControlInv ==
  /\ \A e \in 1 .. Len(entries) : entryHashes[e] \in Hashes
  /\ pc \in {"probe", "place", "rebuild"} => size # 0
  /\ pc \in {"rebuild", "retain"} => cursor \in 1 .. (Len(entries) + 1)
  /\ Len(entries) <= size
  /\ Growing => 2 * Len(entries) <= size
  /\ \A q, r \in req : q = r

TrackedInv ==
  pc # "retain" =>
    /\ Len(entrySlots) = Len(entries)
    /\ \A e \in 1 .. Placed :
         /\ entrySlots[e] \in 0 .. (size - 1)
         /\ slots[entrySlots[e]] = Occupied(entryHashes[e], e)
    /\ \A s \in OccupiedSlots :
         slots[s].entry \in 1 .. Placed /\ entrySlots[slots[s].entry] = s

\* No empty slot lies before an entry's slot on the path of its hash.
Reaches(h, s) ==
  \E i \in Rounds(size) :
    /\ Probe[h][size][i] = s
    /\ \A j \in 0 .. (i - 1) : slots[Probe[h][size][j]].kind # "empty"

ReachableInv ==
  pc # "retain" => \A e \in 1 .. Placed : Reaches(entryHashes[e], entrySlots[e])

DistinctInv ==
  /\ \A e, f \in 1 .. Len(entries) :
       entries[e].key = entries[f].key /\ entryHashes[e] = entryHashes[f] => e = f
  /\ Growing => \A r \in req, e \in 1 .. Len(entries) :
       ~(entries[e].key = r.key /\ entryHashes[e] = r.hash)

CountedInv ==
  pc # "retain" =>
    /\ used = Len(entries)
    /\ filled = Cardinality(NonEmptySlots)
    /\ Placed = Cardinality(OccupiedSlots)
    /\ pc \in {"rebuild", "place"} => filled = Placed
    /\ pc # "rebuild" => filled - used <= used

IInv ==
  /\ TypeOK /\ ControlInv /\ TrackedInv
  /\ ReachableInv /\ DistinctInv /\ CountedInv

-----------------------------------------------------------------------------
(* Lemmas about probing *)

(* A vacant lookup in a table that is not full of occupied slots returns a  *)
(* slot that is free and that a later probe will reach.                     *)
LEMMA VacantSlotIsFree ==
  ASSUME TypeOK, size # 0, NEW h \in Hashes,
         \E s \in 0 .. (size - 1) : slots[s].kind # "occupied"
  PROVE  /\ VacantSlot(h) \in 0 .. (size - 1)
         /\ slots[VacantSlot(h)].kind # "occupied"
         /\ Reaches(h, VacantSlot(h))
<1>1. size \in TableSizes /\ size \in Nat
  BY SizeAssumption DEF TypeOK
<1>2. FreeRounds(h) # {} /\ FreeRounds(h) \subseteq Nat
  <2>1. PICK s \in 0 .. (size - 1) : slots[s].kind # "occupied"
    OBVIOUS
  <2>2. PICK i \in Rounds(size) : Probe[h][size][i] = s
    BY <1>1, <2>1, ProbeAssumption
  <2>3. i \in FreeRounds(h)
    BY <2>1, <2>2 DEF FreeRounds, SlotAt
  <2>. QED  BY <2>3, <1>1, SizeAssumption DEF FreeRounds, Rounds
<1>. DEFINE m == Min(FreeRounds(h))
<1>3. m \in FreeRounds(h) /\ \A y \in FreeRounds(h) : m <= y
  BY <1>2, MinOfNats
<1>4. VacantSlot(h) = Probe[h][size][m]
  BY <1>2 DEF VacantSlot
<1>. HIDE DEF m
<1>5. m \in Rounds(size) /\ slots[Probe[h][size][m]].kind # "occupied"
  BY <1>3 DEF FreeRounds, SlotAt
<1>6. m \in 0 .. (size + MaxPerturbRounds)
  BY <1>5, <1>1, SizeAssumption DEF Rounds
<1>7. VacantSlot(h) \in 0 .. (size - 1)
  BY <1>4, <1>6, <1>1, ProbeAssumption
<1>8. ASSUME NEW j \in 0 .. (m - 1)
      PROVE  slots[Probe[h][size][j]].kind # "empty"
  <2>1. j \in Rounds(size) /\ ~(m <= j)
    BY <1>5, <1>1, SizeAssumption DEF Rounds
  <2>2. j \notin FreeRounds(h)
    BY <2>1, <1>3
  <2>. QED  BY <2>1, <2>2 DEF FreeRounds, SlotAt
<1>. QED  BY <1>4, <1>5, <1>7, <1>8 DEF Reaches

(* While the count of non-empty slots is below the size, some slot is empty. *)
LEMMA EmptySlotExists ==
  ASSUME TypeOK, filled = Cardinality(NonEmptySlots), filled < size
  PROVE  \E s \in 0 .. (size - 1) : slots[s].kind = "empty"
<1>1. size \in Nat
  BY SizeAssumption DEF TypeOK
<1>2. IsFiniteSet(0 .. (size - 1)) /\ Cardinality(0 .. (size - 1)) = size
  BY <1>1, FS_Interval
<1>3. NonEmptySlots # 0 .. (size - 1)
  BY <1>2, <1>1
<1>. QED  BY <1>3 DEF NonEmptySlots

(* A probe finds exactly the entry stored under a key and a hash. *)
LEMMA FoundIsStored ==
  ASSUME TypeOK, ControlInv, TrackedInv, ReachableInv, DistinctInv,
         pc \notin {"retain", "rebuild"}, size # 0,
         NEW k \in Keys, NEW h \in Hashes
  PROVE  Found(k, h) =
           {e \in 1 .. Len(entries) : entries[e].key = k /\ entryHashes[e] = h}
<1>. DEFINE stored == {e \in 1 .. Len(entries) : entries[e].key = k /\ entryHashes[e] = h}
<1>1. /\ size \in TableSizes /\ size \in Nat
      /\ Placed = Len(entries) /\ Len(entries) \in Nat
  BY SizeAssumption DEF TypeOK, Placed
<1>2. Hits(k, h) \subseteq Nat
  BY <1>1, SizeAssumption DEF Hits, Rounds
<1>3. ASSUME NEW i \in Hits(k, h)
      PROVE  SlotAt(h, i).entry \in stored
  <2>1. /\ i \in Rounds(size)
        /\ SlotAt(h, i).kind = "occupied" /\ SlotAt(h, i).hash = h
        /\ entries[SlotAt(h, i).entry].key = k
    BY DEF Hits, Holds
  <2>. DEFINE s == Probe[h][size][i]
  <2>2. s \in 0 .. (size - 1)
    <3>1. i \in 0 .. (size + MaxPerturbRounds)
      BY <2>1, <1>1, SizeAssumption DEF Rounds
    <3>. QED  BY <3>1, <1>1, ProbeAssumption
  <2>3. s \in OccupiedSlots
    BY <2>1, <2>2 DEF OccupiedSlots, SlotAt
  <2>4. slots[s].entry \in 1 .. Len(entries) /\ entrySlots[slots[s].entry] = s
    BY <2>3, <1>1 DEF TrackedInv
  <2>5. slots[s] = Occupied(entryHashes[slots[s].entry], slots[s].entry)
    BY <2>4, <1>1 DEF TrackedInv
  <2>6. entryHashes[slots[s].entry] = h
    BY <2>5, <2>1 DEF Occupied, SlotAt
  <2>. QED  BY <2>4, <2>6, <2>1 DEF SlotAt
<1>4. ASSUME NEW e \in stored
      PROVE  Hits(k, h) # {}
  <2>1. e \in 1 .. Placed
    BY <1>1
  <2>2. Reaches(h, entrySlots[e])
    BY <2>1 DEF ReachableInv
  <2>3. slots[entrySlots[e]] = Occupied(h, e)
    BY <2>1 DEF TrackedInv
  <2>4. PICK i \in Rounds(size) :
          /\ Probe[h][size][i] = entrySlots[e]
          /\ \A j \in 0 .. (i - 1) : slots[Probe[h][size][j]].kind # "empty"
    BY <2>2 DEF Reaches
  <2>5. Holds(k, h, i)
    BY <2>3, <2>4 DEF Holds, SlotAt, Occupied
  <2>. QED  BY <2>4, <2>5 DEF Hits, OnPath, SlotAt
<1>5. \A e, f \in stored : e = f
  BY DEF DistinctInv
<1>6. CASE Hits(k, h) = {}
  BY <1>4, <1>6 DEF Found
<1>7. CASE Hits(k, h) # {}
  <2>1. Min(Hits(k, h)) \in Hits(k, h)
    BY <1>2, <1>7, MinOfNats
  <2>2. SlotAt(h, Min(Hits(k, h))).entry \in stored
    BY <2>1, <1>3
  <2>3. Found(k, h) = {SlotAt(h, Min(Hits(k, h))).entry}
    BY <1>7 DEF Found
  <2>. QED  BY <2>2, <2>3, <1>5
<1>. QED  BY <1>6, <1>7

-----------------------------------------------------------------------------
(* Lemmas about the steps that several actions share *)

(* A fresh table over the entries that remain satisfies the invariant. *)
LEMMA StartRebuildInv ==
  ASSUME IInv, AllHashable, NEW n \in TableSizes, NEW c \in Nat,
         NEW next \in {"ready", "probe", "place"},
         StartRebuild(n, c, next),
         entries' \in Seq(Entry), Len(entries') = c,
         entryHashes' \in Seq(Hashes \cup {NoHash}), Len(entryHashes') = c,
         \A e \in 1 .. c : entryHashes'[e] \in Hashes,
         \A e, f \in 1 .. c :
           entries'[e].key = entries'[f].key /\ entryHashes'[e] = entryHashes'[f] => e = f,
         req' \subseteq Request, \A q, r \in req' : q = r,
         c <= n,
         next = "place" =>
           /\ 2 * c <= n
           /\ \A r \in req', e \in 1 .. c : ~(entries'[e].key = r.key /\ entryHashes'[e] = r.hash)
  PROVE  IInv'
<1>1. n \in Nat /\ n # 0
  BY SizeAssumption
<1>2. /\ size' = n /\ slots' = [s \in 0 .. (n - 1) |-> Empty]
      /\ entrySlots' = [i \in 1 .. c |-> NoSlot] /\ filled' = 0 /\ used' = c
      /\ cursor' = 1 /\ pc' = "rebuild" /\ after' = next
  BY DEF StartRebuild
<1>3. TypeOK'
  <2>1. entrySlots' \in Seq(0 .. (n - 1) \cup {NoSlot}) /\ Len(entrySlots') = c
    <3>1. entrySlots' \in [1 .. c -> 0 .. (n - 1) \cup {NoSlot}]
      BY <1>2
    <3>. QED  BY <3>1
  <2>2. slots' \in [0 .. (n - 1) -> [kind : {"empty", "dummy", "occupied"},
                                    hash : Hashes \cup {NoHash}, entry : Nat]]
    BY <1>2 DEF Empty
  <2>. QED  BY <1>2, <2>1, <2>2 DEF TypeOK
<1>4. Placed' = 0
  BY <1>2 DEF Placed
<1>5. NonEmptySlots' = {} /\ OccupiedSlots' = {}
  BY <1>2 DEF NonEmptySlots, OccupiedSlots, Empty
<1>6. ControlInv'
  BY <1>1, <1>2 DEF ControlInv, Growing
<1>7. TrackedInv'
  <2>1. Len(entrySlots') = c
    BY <1>2
  <2>. QED  BY <1>2, <1>4, <1>5, <2>1 DEF TrackedInv
<1>8. ReachableInv'
  BY <1>2, <1>4 DEF ReachableInv
<1>9. DistinctInv'
  BY <1>2 DEF DistinctInv, Growing
<1>10. CountedInv'
  BY <1>2, <1>4, <1>5, FS_EmptySet DEF CountedInv
<1>. QED  BY <1>3, <1>6, <1>7, <1>8, <1>9, <1>10 DEF IInv

(* An empty dict satisfies the invariant. *)
LEMMA ResetInv ==
  ASSUME Reset
  PROVE  IInv'
<1>1. /\ entries' = <<>> /\ entryHashes' = <<>> /\ entrySlots' = <<>>
      /\ size' = 0 /\ slots' = [s \in {} |-> Empty] /\ used' = 0 /\ filled' = 0
      /\ pc' = "ready" /\ after' = "ready" /\ cursor' = 0 /\ req' = {}
  BY DEF Reset
<1>2. Placed' = 0 /\ Len(entries') = 0
  BY <1>1 DEF Placed
<1>3. NonEmptySlots' = {} /\ OccupiedSlots' = {}
  BY <1>1 DEF NonEmptySlots, OccupiedSlots
<1>4. TypeOK'
  <2>1. slots' \in [0 .. (0 - 1) -> [kind : {"empty", "dummy", "occupied"},
                                    hash : Hashes \cup {NoHash}, entry : Nat]]
    BY <1>1
  <2>. QED  BY <1>1, <2>1 DEF TypeOK
<1>5. ControlInv' /\ TrackedInv' /\ ReachableInv' /\ DistinctInv'
  BY <1>1, <1>2, <1>3 DEF ControlInv, TrackedInv, ReachableInv, DistinctInv, Growing
<1>6. CountedInv'
  BY <1>1, <1>2, <1>3, FS_EmptySet DEF CountedInv
<1>. QED  BY <1>4, <1>5, <1>6 DEF IInv

(* Writing Occupied into a free slot: what it does to the counted sets. *)
LEMMA OccupySlot ==
  ASSUME TypeOK, NEW s \in 0 .. (size - 1), NEW h \in Hashes, NEW e \in Nat,
         slots[s].kind # "occupied",
         slots' = [slots EXCEPT ![s] = Occupied(h, e)], size' = size
  PROVE  /\ OccupiedSlots' = OccupiedSlots \cup {s}
         /\ NonEmptySlots' = NonEmptySlots \cup {s}
         /\ Cardinality(OccupiedSlots') = Cardinality(OccupiedSlots) + 1
         /\ Cardinality(NonEmptySlots') =
              IF slots[s].kind = "empty" THEN Cardinality(NonEmptySlots) + 1
                                         ELSE Cardinality(NonEmptySlots)
         /\ \A t \in 0 .. (size - 1) : slots[t].kind # "empty" => slots'[t].kind # "empty"
         /\ \A t \in 0 .. (size - 1) : t # s => slots'[t] = slots[t]
         /\ slots'[s] = Occupied(h, e)
<1>1. size \in Nat /\ DOMAIN slots = 0 .. (size - 1)
  BY SizeAssumption DEF TypeOK
<1>2. /\ \A t \in 0 .. (size - 1) : t # s => slots'[t] = slots[t]
      /\ slots'[s] = Occupied(h, e) /\ slots'[s].kind = "occupied"
  BY <1>1 DEF Occupied
<1>3. OccupiedSlots' = OccupiedSlots \cup {s} /\ s \notin OccupiedSlots
  BY <1>2 DEF OccupiedSlots
<1>4. NonEmptySlots' = NonEmptySlots \cup {s} /\ (s \in NonEmptySlots <=> slots[s].kind # "empty")
  BY <1>2 DEF NonEmptySlots
<1>5. IsFiniteSet(OccupiedSlots) /\ IsFiniteSet(NonEmptySlots)
  <2>1. IsFiniteSet(0 .. (size - 1))
    BY <1>1, FS_Interval
  <2>2. OccupiedSlots \in SUBSET (0 .. (size - 1)) /\ NonEmptySlots \in SUBSET (0 .. (size - 1))
    BY DEF OccupiedSlots, NonEmptySlots
  <2>. QED  BY <2>1, <2>2, FS_Subset
<1>6. Cardinality(OccupiedSlots') = Cardinality(OccupiedSlots) + 1
  BY <1>3, <1>5, FS_AddElement
<1>7. Cardinality(NonEmptySlots') = IF slots[s].kind = "empty" THEN Cardinality(NonEmptySlots) + 1
                                                              ELSE Cardinality(NonEmptySlots)
  BY <1>4, <1>5, FS_AddElement
<1>. QED  BY <1>2, <1>3, <1>4, <1>6, <1>7

(* A path that reached a slot still reaches it when no slot became empty. *)
LEMMA ReachesPreserved ==
  ASSUME TypeOK, size # 0, size' = size, NEW h \in Hashes, NEW s, Reaches(h, s),
         \A t \in 0 .. (size - 1) : slots[t].kind # "empty" => slots'[t].kind # "empty"
  PROVE  Reaches(h, s)'
<1>1. size \in TableSizes /\ size \in Nat
  BY SizeAssumption DEF TypeOK
<1>2. PICK i \in Rounds(size) :
        /\ Probe[h][size][i] = s
        /\ \A j \in 0 .. (i - 1) : slots[Probe[h][size][j]].kind # "empty"
  BY DEF Reaches
<1>3. ASSUME NEW j \in 0 .. (i - 1)
      PROVE  slots'[Probe[h][size][j]].kind # "empty"
  <2>1. j \in 0 .. (size + MaxPerturbRounds)
    BY <1>1, SizeAssumption DEF Rounds
  <2>2. Probe[h][size][j] \in 0 .. (size - 1)
    BY <1>1, <2>1, ProbeAssumption
  <2>. QED  BY <2>2, <1>2
<1>4. i \in Rounds(size')
  BY <1>2 DEF Rounds
<1>. QED  BY <1>2, <1>3, <1>4 DEF Reaches

(* An insertion of a new key into a free slot keeps the invariant. *)
LEMMA PlaceInv ==
  ASSUME IInv, AllHashable, NEW r \in Request, pc \in {"probe", "place"}, filled < size,
         \A e \in 1 .. Len(entries) : ~(entries[e].key = r.key /\ entryHashes[e] = r.hash),
         Place(r, VacantSlot(r.hash))
  PROVE  IInv'
<1>. PICK s : s = VacantSlot(r.hash)
  OBVIOUS
<1>. PICK n : n = Len(entries) + 1
  OBVIOUS
<1>0. TypeOK /\ ControlInv /\ TrackedInv /\ ReachableInv /\ DistinctInv /\ CountedInv
  BY DEF IInv
<1>1. /\ TypeOK /\ ControlInv /\ TrackedInv /\ ReachableInv /\ DistinctInv /\ CountedInv
      /\ r.hash \in Hashes /\ r.key \in Keys /\ r.val \in Vals
      /\ size # 0 /\ size \in Nat /\ size \in TableSizes
      /\ Placed = Len(entries) /\ Len(entries) \in Nat /\ n = Len(entries) + 1 /\ n \in Nat
  <2>1. r.hash \in Hashes /\ r.key \in Keys /\ r.val \in Vals
    BY DEF Request
  <2>2. size # 0 /\ size \in Nat /\ size \in TableSizes
    BY <1>0, SizeAssumption DEF TypeOK, ControlInv
  <2>3. Placed = Len(entries) /\ Len(entries) \in Nat
    BY <1>0 DEF TypeOK, Placed
  <2>. QED  BY <1>0, <2>1, <2>2, <2>3
<1>2. \E t \in 0 .. (size - 1) : slots[t].kind # "occupied"
  <2>1. filled = Cardinality(NonEmptySlots)
    BY <1>1 DEF CountedInv
  <2>. QED  BY <1>1, <2>1, EmptySlotExists
<1>3. s \in 0 .. (size - 1) /\ slots[s].kind # "occupied" /\ Reaches(r.hash, s)
  BY <1>1, <1>2, VacantSlotIsFree
<1>4. /\ entries' = Append(entries, [key |-> r.key, val |-> r.val])
      /\ entryHashes' = Append(entryHashes, r.hash)
      /\ entrySlots' = Append(entrySlots, s)
      /\ used' = used + 1
      /\ filled' = IF slots[s].kind = "empty" THEN filled + 1 ELSE filled
      /\ slots' = [slots EXCEPT ![s] = Occupied(r.hash, n)]
      /\ pc' = "ready" /\ req' = {} /\ size' = size /\ after' = after /\ cursor' = cursor
  BY DEF Place, FilledAfter
<1>5. /\ OccupiedSlots' = OccupiedSlots \cup {s}
      /\ Cardinality(OccupiedSlots') = Cardinality(OccupiedSlots) + 1
      /\ Cardinality(NonEmptySlots') =
           IF slots[s].kind = "empty" THEN Cardinality(NonEmptySlots) + 1
                                      ELSE Cardinality(NonEmptySlots)
      /\ \A t \in 0 .. (size - 1) : slots[t].kind # "empty" => slots'[t].kind # "empty"
      /\ \A t \in 0 .. (size - 1) : t # s => slots'[t] = slots[t]
      /\ slots'[s] = Occupied(r.hash, n)
  BY <1>1, <1>3, <1>4, OccupySlot
<1>6. /\ entries' \in Seq(Entry) /\ Len(entries') = n
      /\ \A e \in 1 .. Len(entries) : entries'[e] = entries[e]
      /\ entries'[n] = [key |-> r.key, val |-> r.val]
  <2>1. [key |-> r.key, val |-> r.val] \in Entry
    BY <1>1 DEF Entry
  <2>2. entries \in Seq(Entry)
    BY <1>1 DEF TypeOK
  <2>. QED  BY <1>1, <1>4, <2>1, <2>2, AppendProperties
<1>7. /\ entryHashes' \in Seq(Hashes \cup {NoHash}) /\ Len(entryHashes') = n
      /\ \A e \in 1 .. Len(entries) : entryHashes'[e] = entryHashes[e]
      /\ entryHashes'[n] = r.hash
  BY <1>1, <1>4, AppendProperties DEF TypeOK
<1>8. /\ entrySlots' \in Seq(0 .. (size - 1) \cup {NoSlot}) /\ Len(entrySlots') = n
      /\ \A e \in 1 .. Len(entries) : entrySlots'[e] = entrySlots[e]
      /\ entrySlots'[n] = s
  <2>1. Len(entrySlots) = Len(entries)
    BY <1>1 DEF TrackedInv
  <2>2. entrySlots \in Seq(0 .. (size - 1) \cup {NoSlot})
    BY <1>1 DEF TypeOK
  <2>. QED  BY <1>1, <1>3, <1>4, <2>1, <2>2, AppendProperties
<1>9. Placed' = n
  BY <1>4, <1>6 DEF Placed
<1>10. n <= size
  <2>1. n = Cardinality(OccupiedSlots')
    BY <1>1, <1>5 DEF CountedInv
  <2>2. OccupiedSlots' \in SUBSET (0 .. (size - 1))
    BY <1>4 DEF OccupiedSlots
  <2>3. IsFiniteSet(0 .. (size - 1)) /\ Cardinality(0 .. (size - 1)) = size
    <3>1. size \in Nat
      BY <1>1
    <3>. QED  BY <3>1, SlotInterval
  <2>4. Cardinality(OccupiedSlots') <= Cardinality(0 .. (size - 1))
    BY <2>2, <2>3, FS_Subset
  <2>. QED  BY <2>1, <2>3, <2>4
<1>11. TypeOK'
  <2>1. slots' \in [0 .. (size - 1) -> [kind : {"empty", "dummy", "occupied"},
                                       hash : Hashes \cup {NoHash}, entry : Nat]]
    BY <1>1, <1>3, <1>4 DEF TypeOK, Occupied
  <2>2. used' \in Nat /\ filled' \in Nat
    BY <1>1, <1>4 DEF TypeOK
  <2>. QED  BY <1>1, <1>4, <1>6, <1>7, <1>8, <2>1, <2>2 DEF TypeOK
<1>12. ControlInv'
  BY <1>1, <1>4, <1>6, <1>7, <1>10 DEF ControlInv, Growing
<1>13. TrackedInv'
  <2>1. ASSUME NEW e \in 1 .. n
        PROVE  /\ entrySlots'[e] \in 0 .. (size' - 1)
               /\ slots'[entrySlots'[e]] = Occupied(entryHashes'[e], e)
    <3>1. CASE e = n
      BY <3>1, <1>3, <1>4, <1>5, <1>7, <1>8
    <3>2. CASE e # n
      <4>1. e \in 1 .. Placed
        BY <3>2, <1>1
      <4>2. entrySlots[e] \in 0 .. (size - 1) /\ slots[entrySlots[e]] = Occupied(entryHashes[e], e)
        BY <4>1, <1>1, <1>4 DEF TrackedInv
      <4>3. entrySlots[e] # s
        BY <4>2, <1>3 DEF Occupied
      <4>. QED  BY <4>1, <4>2, <4>3, <1>1, <1>4, <1>5, <1>7, <1>8
    <3>. QED  BY <3>1, <3>2
  <2>2. ASSUME NEW t \in OccupiedSlots'
        PROVE  slots'[t].entry \in 1 .. n /\ entrySlots'[slots'[t].entry] = t
    <3>1. CASE t = s
      BY <3>1, <1>1, <1>5, <1>8 DEF Occupied
    <3>2. CASE t # s
      <4>1. t \in OccupiedSlots /\ t \in 0 .. (size - 1)
        BY <3>2, <1>5 DEF OccupiedSlots
      <4>2. slots[t].entry \in 1 .. Len(entries) /\ entrySlots[slots[t].entry] = t
        BY <4>1, <1>1 DEF TrackedInv
      <4>. QED  BY <4>1, <4>2, <3>2, <1>1, <1>5, <1>8
    <3>. QED  BY <3>1, <3>2
  <2>. QED  BY <2>1, <2>2, <1>6, <1>8, <1>9 DEF TrackedInv
<1>14. ReachableInv'
  <2>1. ASSUME NEW e \in 1 .. n
        PROVE  Reaches(entryHashes[e], entrySlots[e])'
    <3>1. CASE e = n
      <4>1. Reaches(r.hash, s)'
        BY <1>1, <1>3, <1>4, <1>5, ReachesPreserved
      <4>. QED  BY <4>1, <3>1, <1>7, <1>8 DEF Reaches
    <3>2. CASE e # n
      <4>1. e \in 1 .. Placed /\ e \in 1 .. Len(entries)
        BY <3>2, <1>1
      <4>. PICK h, q : h = entryHashes[e] /\ q = entrySlots[e]
        OBVIOUS
      <4>2. Reaches(h, q) /\ h \in Hashes
        BY <4>1, <1>1 DEF ReachableInv, ControlInv
      <4>3. Reaches(h, q)'
        BY <4>2, <1>1, <1>4, <1>5, ReachesPreserved
      <4>4. h = entryHashes'[e] /\ q = entrySlots'[e]
        BY <4>1, <1>7, <1>8
      <4>. QED  BY <4>3, <4>4 DEF Reaches
    <3>. QED  BY <3>1, <3>2
  <2>. QED  BY <2>1, <1>9 DEF ReachableInv, Reaches
<1>15. DistinctInv'
  <2>1. ASSUME NEW e \in 1 .. n, NEW f \in 1 .. n,
               entries'[e].key = entries'[f].key, entryHashes'[e] = entryHashes'[f]
        PROVE  e = f
    <3>1. CASE e = n /\ f = n
      BY <3>1
    <3>2. CASE e # n /\ f # n
      <4>1. e \in 1 .. Len(entries) /\ f \in 1 .. Len(entries)
        BY <3>2, <1>1
      <4>2. entries[e].key = entries[f].key /\ entryHashes[e] = entryHashes[f]
        BY <4>1, <2>1, <1>6, <1>7
      <4>. QED  BY <4>1, <4>2, <1>1 DEF DistinctInv
    <3>3. CASE e # n /\ f = n
      BY <3>3, <2>1, <1>1, <1>6, <1>7
    <3>4. CASE e = n /\ f # n
      BY <3>4, <2>1, <1>1, <1>6, <1>7
    <3>. QED  BY <3>1, <3>2, <3>3, <3>4
  <2>2. Len(entries') = n /\ ~Growing'
    BY <1>4, <1>6 DEF Growing
  <2>. QED  BY ONLY <2>1, <2>2 DEF DistinctInv
<1>16. CountedInv'
  <2>1. /\ used = Len(entries) /\ filled = Cardinality(NonEmptySlots)
        /\ Len(entries) = Cardinality(OccupiedSlots) /\ filled - used <= used
        /\ filled \in Nat
    BY <1>1 DEF CountedInv, TypeOK
  <2>. QED  BY SMTT(60), <2>1, <1>1, <1>4, <1>5, <1>6, <1>9 DEF CountedInv
<1>. QED  BY <1>11, <1>12, <1>13, <1>14, <1>15, <1>16 DEF IInv

(* One round of the rebuild loop keeps the invariant. *)
LEMMA RebuildEntryInv ==
  ASSUME IInv, AllHashable, RebuildEntry
  PROVE  IInv'
<1>. PICK h, s : h = RebuildHash(cursor) /\ s = VacantSlot(h)
  OBVIOUS
<1>0. TypeOK /\ ControlInv /\ TrackedInv /\ ReachableInv /\ DistinctInv /\ CountedInv
  BY DEF IInv
<1>1. /\ pc = "rebuild" /\ cursor <= Len(entries) /\ cursor \in Nat /\ Len(entries) \in Nat
      /\ size # 0 /\ size \in Nat /\ size \in TableSizes
      /\ cursor \in 1 .. Len(entries) /\ Placed = cursor - 1 /\ Len(entries) <= size
  BY <1>0, SizeAssumption DEF RebuildEntry, TypeOK, ControlInv, Placed
<1>2. h = entryHashes[cursor] /\ h \in Hashes /\ h # NoHash
  BY <1>0, <1>1, HashAssumption DEF ControlInv, RebuildHash, NoHash
<1>3. /\ filled = cursor - 1 /\ filled = Cardinality(NonEmptySlots)
      /\ cursor - 1 = Cardinality(OccupiedSlots) /\ used = Len(entries)
  BY <1>0, <1>1 DEF CountedInv
<1>4. s \in 0 .. (size - 1) /\ slots[s].kind # "occupied" /\ Reaches(h, s)
  <2>1. \E t \in 0 .. (size - 1) : slots[t].kind # "occupied"
    <3>1. filled < size
      BY <1>1, <1>3
    <3>. QED  BY <3>1, <1>0, <1>3, EmptySlotExists
  <2>. QED  BY <2>1, <1>0, <1>1, <1>2, VacantSlotIsFree
<1>5. slots[s].kind = "empty"
  <2>1. OccupiedSlots \subseteq NonEmptySlots /\ NonEmptySlots \in SUBSET (0 .. (size - 1))
    BY DEF OccupiedSlots, NonEmptySlots
  <2>2. IsFiniteSet(NonEmptySlots)
    BY <2>1, <1>1, SlotInterval, FS_Subset
  <2>3. NonEmptySlots = OccupiedSlots
    BY <2>1, <2>2, <1>3, FS_Subset
  <2>. QED  BY <2>3, <1>4 DEF OccupiedSlots, NonEmptySlots
<1>6. /\ entryHashes' = [entryHashes EXCEPT ![cursor] = h]
      /\ slots' = [slots EXCEPT ![s] = Occupied(h, cursor)]
      /\ entrySlots' = [entrySlots EXCEPT ![cursor] = s]
      /\ filled' = filled + 1 /\ cursor' = cursor + 1
      /\ entries' = entries /\ size' = size /\ used' = used
      /\ pc' = pc /\ after' = after /\ req' = req
  BY <1>2 DEF RebuildEntry
<1>7. entryHashes' = entryHashes
  BY <1>0, <1>1, <1>2, <1>6 DEF TypeOK
<1>8. /\ OccupiedSlots' = OccupiedSlots \cup {s}
      /\ Cardinality(OccupiedSlots') = Cardinality(OccupiedSlots) + 1
      /\ Cardinality(NonEmptySlots') = Cardinality(NonEmptySlots) + 1
      /\ \A t \in 0 .. (size - 1) : slots[t].kind # "empty" => slots'[t].kind # "empty"
      /\ \A t \in 0 .. (size - 1) : t # s => slots'[t] = slots[t]
      /\ slots'[s] = Occupied(h, cursor)
  BY <1>0, <1>1, <1>2, <1>4, <1>5, <1>6, OccupySlot
<1>9. Placed' = cursor /\ Len(entrySlots) = Len(entries)
  BY <1>0, <1>1, <1>6 DEF Placed, TrackedInv
<1>10. /\ entrySlots' \in Seq(0 .. (size - 1) \cup {NoSlot}) /\ Len(entrySlots') = Len(entries)
       /\ \A e \in 1 .. (cursor - 1) : entrySlots'[e] = entrySlots[e]
       /\ entrySlots'[cursor] = s
  BY <1>0, <1>1, <1>4, <1>6, <1>9, ExceptSeq DEF TypeOK
<1>11. TypeOK'
  <2>1. slots' \in [0 .. (size - 1) -> [kind : {"empty", "dummy", "occupied"},
                                       hash : Hashes \cup {NoHash}, entry : Nat]]
    BY <1>0, <1>1, <1>2, <1>4, <1>6 DEF TypeOK, Occupied
  <2>2. filled' \in Nat /\ cursor' \in Nat
    BY <1>0, <1>1, <1>6 DEF TypeOK
  <2>. QED  BY <1>0, <1>6, <1>7, <1>10, <2>1, <2>2 DEF TypeOK
<1>12. ControlInv'
  BY <1>0, <1>1, <1>6, <1>7 DEF ControlInv, Growing
<1>13. TrackedInv'
  <2>1. ASSUME NEW e \in 1 .. cursor
        PROVE  /\ entrySlots'[e] \in 0 .. (size' - 1)
               /\ slots'[entrySlots'[e]] = Occupied(entryHashes'[e], e)
    <3>1. CASE e = cursor
      BY <3>1, <1>2, <1>4, <1>6, <1>7, <1>8, <1>10
    <3>2. CASE e # cursor
      <4>1. e \in 1 .. (cursor - 1)
        BY <3>2, <1>1
      <4>2. entrySlots[e] \in 0 .. (size - 1) /\ slots[entrySlots[e]] = Occupied(entryHashes[e], e)
        BY <4>1, <1>0, <1>1 DEF TrackedInv
      <4>3. entrySlots[e] # s
        BY <4>2, <1>4 DEF Occupied
      <4>. QED  BY <4>1, <4>2, <4>3, <1>6, <1>7, <1>8, <1>10
    <3>. QED  BY <3>1, <3>2
  <2>2. ASSUME NEW t \in OccupiedSlots'
        PROVE  slots'[t].entry \in 1 .. cursor /\ entrySlots'[slots'[t].entry] = t
    <3>1. CASE t = s
      BY <3>1, <1>1, <1>8, <1>10 DEF Occupied
    <3>2. CASE t # s
      <4>1. t \in OccupiedSlots /\ t \in 0 .. (size - 1)
        BY <3>2, <1>8 DEF OccupiedSlots
      <4>2. slots[t].entry \in 1 .. (cursor - 1) /\ entrySlots[slots[t].entry] = t
        BY <4>1, <1>0, <1>1 DEF TrackedInv
      <4>. QED  BY <4>1, <4>2, <3>2, <1>1, <1>8, <1>10
    <3>. QED  BY <3>1, <3>2
  <2>. QED  BY <2>1, <2>2, <1>6, <1>9, <1>10 DEF TrackedInv
<1>14. ReachableInv'
  <2>1. ASSUME NEW e \in 1 .. cursor
        PROVE  Reaches(entryHashes[e], entrySlots[e])'
    <3>1. CASE e = cursor
      <4>1. Reaches(h, s)'
        BY <1>0, <1>1, <1>2, <1>4, <1>6, <1>8, ReachesPreserved
      <4>2. h = entryHashes'[e] /\ s = entrySlots'[e]
        BY <3>1, <1>2, <1>7, <1>10
      <4>. QED  BY <4>1, <4>2 DEF Reaches
    <3>2. CASE e # cursor
      <4>1. e \in 1 .. (cursor - 1) /\ e \in 1 .. Len(entries)
        BY <3>2, <1>1
      <4>. PICK g, q : g = entryHashes[e] /\ q = entrySlots[e]
        OBVIOUS
      <4>2. Reaches(g, q) /\ g \in Hashes
        BY <4>1, <1>0, <1>1 DEF ReachableInv, ControlInv
      <4>3. Reaches(g, q)'
        BY <4>2, <1>0, <1>1, <1>6, <1>8, ReachesPreserved
      <4>4. g = entryHashes'[e] /\ q = entrySlots'[e]
        BY <4>1, <1>7, <1>10
      <4>. QED  BY <4>3, <4>4 DEF Reaches
    <3>. QED  BY <3>1, <3>2
  <2>. QED  BY <2>1, <1>9 DEF ReachableInv, Reaches
<1>15. DistinctInv'
  BY <1>0, <1>6, <1>7 DEF DistinctInv, Growing
<1>16. CountedInv'
  BY <1>1, <1>3, <1>6, <1>8, <1>9 DEF CountedInv
<1>. QED  BY <1>11, <1>12, <1>13, <1>14, <1>15, <1>16 DEF IInv

(* Removing one entry from both vectors keeps what is known of the rest. *)
LEMMA RemoveAtKeeps ==
  ASSUME TypeOK, ControlInv, DistinctInv, NEW i \in 1 .. Len(entries),
         entries' = RemoveAt(entries, i), entryHashes' = RemoveAt(entryHashes, i)
  PROVE  /\ entries' \in Seq(Entry) /\ Len(entries') = Len(entries) - 1
         /\ entryHashes' \in Seq(Hashes \cup {NoHash}) /\ Len(entryHashes') = Len(entries) - 1
         /\ \A e \in 1 .. (Len(entries) - 1) :
              /\ entries'[e] = IF e < i THEN entries[e] ELSE entries[e + 1]
              /\ entryHashes'[e] = IF e < i THEN entryHashes[e] ELSE entryHashes[e + 1]
              /\ entryHashes'[e] \in Hashes
         /\ \A e, f \in 1 .. (Len(entries) - 1) :
              entries'[e].key = entries'[f].key /\ entryHashes'[e] = entryHashes'[f] => e = f
<1>0. /\ entries \in Seq(Entry) /\ entryHashes \in Seq(Hashes \cup {NoHash})
      /\ Len(entryHashes) = Len(entries) /\ Len(entries) \in Nat
  BY DEF TypeOK
<1>1. /\ entries' \in Seq(Entry) /\ Len(entries') = Len(entries) - 1
      /\ \A e \in 1 .. (Len(entries) - 1) :
           entries'[e] = IF e < i THEN entries[e] ELSE entries[e + 1]
  BY <1>0, RemoveAtProperties
<1>2. /\ entryHashes' \in Seq(Hashes \cup {NoHash}) /\ Len(entryHashes') = Len(entries) - 1
      /\ \A e \in 1 .. (Len(entries) - 1) :
           entryHashes'[e] = IF e < i THEN entryHashes[e] ELSE entryHashes[e + 1]
  <2>1. i \in 1 .. Len(entryHashes)
    BY <1>0
  <2>. QED  BY <1>0, <2>1, RemoveAtProperties
<1>3. \A e \in 1 .. (Len(entries) - 1) : entryHashes'[e] \in Hashes
  BY SMTT(60), <1>0, <1>2 DEF ControlInv
<1>4. ASSUME NEW e \in 1 .. (Len(entries) - 1), NEW f \in 1 .. (Len(entries) - 1),
             entries'[e].key = entries'[f].key, entryHashes'[e] = entryHashes'[f]
      PROVE  e = f
  <2>. DEFINE a == IF e < i THEN e ELSE e + 1
              b == IF f < i THEN f ELSE f + 1
  <2>1. a \in 1 .. Len(entries) /\ b \in 1 .. Len(entries)
    BY <1>0
  <2>2. /\ entries'[e] = entries[a] /\ entries'[f] = entries[b]
        /\ entryHashes'[e] = entryHashes[a] /\ entryHashes'[f] = entryHashes[b]
    BY <1>1, <1>2
  <2>3. a = b
    BY <1>4, <2>1, <2>2 DEF DistinctInv
  <2>. QED  BY <1>0, <2>3
<1>. QED  BY <1>1, <1>2, <1>3, <1>4

(* A removal that needs no rebuild: the slot becomes a tombstone and the    *)
(* indices of the entries that moved down are adjusted.                     *)
LEMMA CompactInv ==
  ASSUME IInv, AllHashable, NEW i \in 1 .. Len(entries), pc = "ready",
         entries' = RemoveAt(entries, i), entryHashes' = RemoveAt(entryHashes, i),
         entrySlots' = RemoveAt(entrySlots, i), slots' = SlotsAfterRemove(i),
         used' = Len(entries) - 1, ~TooManyDummies(Len(entries) - 1),
         UNCHANGED <<size, filled, pc, after, cursor, req>>
  PROVE  IInv'
<1>0. TypeOK /\ ControlInv /\ TrackedInv /\ ReachableInv /\ DistinctInv /\ CountedInv
  BY DEF IInv
<1>. PICK n : n = Len(entries) - 1
  OBVIOUS
<1>1. /\ Len(entries) \in Nat /\ n \in Nat /\ Len(entries) = n + 1 /\ Placed = Len(entries)
      /\ size \in Nat /\ Len(entries) <= size /\ size # 0 /\ size \in TableSizes
      /\ size' = size /\ filled' = filled /\ pc' = "ready" /\ after' = after
      /\ cursor' = cursor /\ req' = req /\ used' = n
  <2>1. Len(entries) \in Nat /\ size \in Nat /\ size \in TableSizes \cup {0}
    BY <1>0, SizeAssumption DEF TypeOK
  <2>2. Len(entries) <= size
    BY <1>0 DEF ControlInv
  <2>. QED  BY <2>1, <2>2 DEF Placed
<1>2. /\ entries' \in Seq(Entry) /\ Len(entries') = n
      /\ entryHashes' \in Seq(Hashes \cup {NoHash}) /\ Len(entryHashes') = n
      /\ \A e \in 1 .. n :
           /\ entryHashes'[e] = IF e < i THEN entryHashes[e] ELSE entryHashes[e + 1]
           /\ entryHashes'[e] \in Hashes
      /\ \A e, f \in 1 .. n :
           entries'[e].key = entries'[f].key /\ entryHashes'[e] = entryHashes'[f] => e = f
  BY <1>0, <1>1, RemoveAtKeeps
<1>3. /\ entrySlots' \in Seq(0 .. (size - 1) \cup {NoSlot}) /\ Len(entrySlots') = n
      /\ \A e \in 1 .. n : entrySlots'[e] = IF e < i THEN entrySlots[e] ELSE entrySlots[e + 1]
  <2>1. entrySlots \in Seq(0 .. (size - 1) \cup {NoSlot}) /\ Len(entrySlots) = Len(entries)
    BY <1>0, <1>1 DEF TypeOK, TrackedInv
  <2>2. i \in 1 .. Len(entrySlots)
    BY <2>1
  <2>. QED  BY <1>1, <2>1, <2>2, RemoveAtProperties
<1>4. \A e \in 1 .. Len(entries) :
        /\ entrySlots[e] \in 0 .. (size - 1)
        /\ slots[entrySlots[e]] = Occupied(entryHashes[e], e)
        /\ slots[entrySlots[e]].kind = "occupied" /\ slots[entrySlots[e]].entry = e
        /\ slots[entrySlots[e]].hash = entryHashes[e]
  BY <1>0, <1>1 DEF TrackedInv, Occupied
<1>5. \A s \in OccupiedSlots : slots[s].entry \in 1 .. Len(entries) /\ entrySlots[slots[s].entry] = s
  BY <1>0, <1>1 DEF TrackedInv
<1>. PICK q : q = entrySlots[i]
  OBVIOUS
<1>6. /\ q \in 0 .. (size - 1) /\ q \in OccupiedSlots
      /\ slots[q].kind = "occupied" /\ slots[q].entry = i /\ q # NoSlot
  BY <1>4, <1>1 DEF OccupiedSlots, NoSlot
<1>7. DOMAIN slots = 0 .. (size - 1)
  BY <1>0 DEF TypeOK
<1>8. SlotsMarked(i) = [slots EXCEPT ![q] = Dummy]
  BY <1>6, <1>7 DEF SlotsMarked
<1>9. /\ slots' \in [0 .. (size - 1) -> [kind : {"empty", "dummy", "occupied"},
                                       hash : Hashes \cup {NoHash}, entry : Nat]]
      /\ slots'[q] = Dummy
      /\ \A s \in 0 .. (size - 1) : s # q /\ slots[s].kind # "occupied" => slots'[s] = slots[s]
      /\ \A s \in 0 .. (size - 1) : s # q /\ slots[s].kind = "occupied" =>
           slots'[s] = Occupied(slots[s].hash, IF slots[s].entry > i THEN slots[s].entry - 1
                                                                     ELSE slots[s].entry)
  <2>. DEFINE moved == {entrySlots[j] : j \in (i + 1) .. Len(entrySlots)}
  <2>1. slots' = [s \in 0 .. (size - 1) |->
                    LET t == [slots EXCEPT ![q] = Dummy][s]
                    IN  IF s \in moved /\ t.kind = "occupied" /\ t.entry > i
                          THEN [t EXCEPT !.entry = @ - 1] ELSE t]
    BY <1>6, <1>7, <1>8 DEF SlotsAfterRemove, SlotsAdjusted
  <2>2. slots'[q] = Dummy
    BY <2>1, <1>6, <1>7 DEF Dummy
  <2>3. ASSUME NEW s \in 0 .. (size - 1), s # q, slots[s].kind # "occupied"
        PROVE  slots'[s] = slots[s]
    BY <2>1, <2>3, <1>7
  <2>4. ASSUME NEW s \in 0 .. (size - 1), s # q, slots[s].kind = "occupied"
        PROVE  slots'[s] = Occupied(slots[s].hash, IF slots[s].entry > i THEN slots[s].entry - 1
                                                                         ELSE slots[s].entry)
    <3>1. slots[s].entry \in 1 .. Len(entries) /\ entrySlots[slots[s].entry] = s
      BY <2>4, <1>5 DEF OccupiedSlots
    <3>2. slots[s] = [kind |-> "occupied", hash |-> slots[s].hash, entry |-> slots[s].entry]
      BY <2>4, <1>0 DEF TypeOK
    <3>3. slots[s].entry > i => s \in moved
      <4>1. Len(entrySlots) = Len(entries)
        BY <1>0, <1>1 DEF TrackedInv
      <4>. QED  BY <4>1, <3>1, <1>1
    <3>4. [slots EXCEPT ![q] = Dummy][s] = slots[s]
      BY <2>4, <1>7
    <3>5. slots'[s] = IF s \in moved /\ slots[s].entry > i
                        THEN [slots[s] EXCEPT !.entry = @ - 1] ELSE slots[s]
      BY <2>1, <2>4, <3>4
    <3>. QED  BY <3>2, <3>3, <3>5 DEF Occupied
  <2>5. slots' \in [0 .. (size - 1) -> [kind : {"empty", "dummy", "occupied"},
                                       hash : Hashes \cup {NoHash}, entry : Nat]]
    <3>1. ASSUME NEW s \in 0 .. (size - 1)
          PROVE  slots'[s] \in [kind : {"empty", "dummy", "occupied"},
                                hash : Hashes \cup {NoHash}, entry : Nat]
      <4>1. CASE s = q
        BY <4>1, <2>2 DEF Dummy
      <4>2. CASE s # q /\ slots[s].kind # "occupied"
        BY <4>2, <2>3, <1>0 DEF TypeOK
      <4>3. CASE s # q /\ slots[s].kind = "occupied"
        <5>1. slots[s].entry \in 1 .. Len(entries)
          BY <4>3, <1>5 DEF OccupiedSlots
        <5>2. slots[s].hash \in Hashes \cup {NoHash}
          BY <1>0 DEF TypeOK
        <5>3. (IF slots[s].entry > i THEN slots[s].entry - 1 ELSE slots[s].entry) \in Nat
          BY <5>1, <1>1
        <5>4. slots'[s] = [kind |-> "occupied", hash |-> slots[s].hash,
                           entry |-> IF slots[s].entry > i THEN slots[s].entry - 1 ELSE slots[s].entry]
          BY <4>3, <2>4 DEF Occupied
        <5>. QED  BY <5>2, <5>3, <5>4
      <4>. QED  BY <4>1, <4>2, <4>3
    <3>. QED  BY <2>1, <3>1
  <2>. QED  BY <2>2, <2>3, <2>4, <2>5
<1>10. OccupiedSlots' = OccupiedSlots \ {q} /\ NonEmptySlots' = NonEmptySlots
  <2>1. ASSUME NEW s \in 0 .. (size - 1)
        PROVE  slots'[s].kind = IF s = q THEN "dummy" ELSE slots[s].kind
    <3>1. CASE s = q
      BY <3>1, <1>9 DEF Dummy
    <3>2. CASE s # q /\ slots[s].kind = "occupied"
      BY <3>2, <1>9 DEF Occupied
    <3>3. CASE s # q /\ slots[s].kind # "occupied"
      BY <3>3, <1>9
    <3>. QED  BY <3>1, <3>2, <3>3
  <2>. QED  BY <2>1, <1>1, <1>6 DEF OccupiedSlots, NonEmptySlots
<1>11. Placed' = n
  BY <1>1, <1>2 DEF Placed
<1>12. TypeOK'
  BY <1>0, <1>1, <1>2, <1>3, <1>9 DEF TypeOK
<1>13. ControlInv'
  BY <1>0, <1>1, <1>2 DEF ControlInv, Growing
<1>14. TrackedInv'
  <2>1. ASSUME NEW e \in 1 .. n
        PROVE  /\ entrySlots'[e] \in 0 .. (size - 1)
               /\ slots'[entrySlots'[e]] = Occupied(entryHashes'[e], e)
    <3>. PICK a : a = IF e < i THEN e ELSE e + 1
      OBVIOUS
    <3>1. a \in 1 .. Len(entries) /\ a # i /\ (IF a > i THEN a - 1 ELSE a) = e
      BY <1>1
    <3>2. entrySlots'[e] = entrySlots[a] /\ entryHashes'[e] = entryHashes[a]
      BY <1>2, <1>3
    <3>3. /\ entrySlots[a] \in 0 .. (size - 1)
          /\ slots[entrySlots[a]].kind = "occupied" /\ slots[entrySlots[a]].entry = a
          /\ slots[entrySlots[a]].hash = entryHashes[a]
      BY <3>1, <1>4
    <3>4. entrySlots[a] # q
      BY <3>1, <3>3, <1>6
    <3>5. slots'[entrySlots[a]] = Occupied(entryHashes[a], IF a > i THEN a - 1 ELSE a)
      BY <3>3, <3>4, <1>9
    <3>. QED  BY <3>1, <3>2, <3>3, <3>5
  <2>2. ASSUME NEW s \in OccupiedSlots'
        PROVE  slots'[s].entry \in 1 .. n /\ entrySlots'[slots'[s].entry] = s
    <3>1. s \in OccupiedSlots /\ s # q /\ s \in 0 .. (size - 1) /\ slots[s].kind = "occupied"
      BY <1>10 DEF OccupiedSlots
    <3>. PICK a : a = slots[s].entry
      OBVIOUS
    <3>2. a \in 1 .. Len(entries) /\ entrySlots[a] = s /\ a # i
      BY <3>1, <1>5
    <3>3. slots'[s].entry = IF a > i THEN a - 1 ELSE a
      BY <3>1, <1>9 DEF Occupied
    <3>4. CASE a > i
      <4>1. a - 1 \in 1 .. n /\ ~(a - 1 < i) /\ (a - 1) + 1 = a
        BY <3>2, <3>4, <1>1
      <4>2. entrySlots'[a - 1] = entrySlots[a]
        BY <4>1, <1>3
      <4>. QED  BY <4>1, <4>2, <3>2, <3>3, <3>4
    <3>5. CASE a < i
      <4>1. a \in 1 .. n
        BY <3>2, <3>5, <1>1
      <4>2. entrySlots'[a] = entrySlots[a]
        BY <4>1, <3>5, <1>3
      <4>3. slots'[s].entry = a
        BY <3>3, <3>5, <4>1
      <4>. QED  BY <4>1, <4>2, <4>3, <3>2
    <3>. QED  BY <3>2, <3>4, <3>5, <1>1
  <2>. QED  BY <2>1, <2>2, <1>1, <1>2, <1>3, <1>11 DEF TrackedInv
<1>15. ReachableInv'
  <2>1. ASSUME NEW e \in 1 .. n
        PROVE  Reaches(entryHashes[e], entrySlots[e])'
    <3>. PICK a : a = IF e < i THEN e ELSE e + 1
      OBVIOUS
    <3>. PICK h, s : h = entryHashes[a] /\ s = entrySlots[a]
      OBVIOUS
    <3>1. a \in 1 .. Len(entries) /\ h = entryHashes'[e] /\ s = entrySlots'[e]
      <4>1. a \in 1 .. Len(entries)
        BY <1>1
      <4>2. h = entryHashes'[e]
        BY <1>2
      <4>3. s = entrySlots'[e]
        BY <1>3
      <4>. QED  BY <4>1, <4>2, <4>3
    <3>2. h \in Hashes /\ Reaches(h, s)
      BY <3>1, <1>0, <1>1 DEF ControlInv, ReachableInv
    <3>3. \A t \in 0 .. (size - 1) : slots[t].kind # "empty" => slots'[t].kind # "empty"
      BY <1>6, <1>9 DEF Dummy, Occupied
    <3>4. Reaches(h, s)'
      BY <3>2, <3>3, <1>0, <1>1, ReachesPreserved
    <3>. QED  BY <3>1, <3>4 DEF Reaches
  <2>. QED  BY <2>1, <1>11 DEF ReachableInv, Reaches
<1>16. DistinctInv'
  BY <1>1, <1>2 DEF DistinctInv, Growing
<1>17. CountedInv'
  <2>1. /\ filled = Cardinality(NonEmptySlots) /\ Len(entries) = Cardinality(OccupiedSlots)
        /\ filled \in Nat
    BY <1>0, <1>1 DEF CountedInv, TypeOK
  <2>2. IsFiniteSet(OccupiedSlots)
    <3>1. OccupiedSlots \in SUBSET (0 .. (size - 1))
      BY DEF OccupiedSlots
    <3>. QED  BY <3>1, <1>1, SlotInterval, FS_Subset
  <2>3. Cardinality(OccupiedSlots') = Cardinality(OccupiedSlots) - 1
    BY <2>2, <1>6, <1>10, FS_RemoveElement
  <2>4. filled' - used' <= used'
    BY <2>1, <1>1 DEF TooManyDummies
  <2>. QED  BY <2>1, <2>3, <2>4, <1>1, <1>2, <1>10, <1>11 DEF CountedInv
<1>. QED  BY <1>12, <1>13, <1>14, <1>15, <1>16, <1>17 DEF IInv

-----------------------------------------------------------------------------
(* The invariant holds initially and every step keeps it *)

(* An empty, linear dict satisfies the invariant. *)
LEMMA InitInv == Init => IInv
<1>. SUFFICES ASSUME Init PROVE IInv
  OBVIOUS
<1>1. /\ entries = <<>> /\ entryHashes = <<>> /\ entrySlots = <<>>
      /\ size = 0 /\ slots = [s \in {} |-> Empty] /\ used = 0 /\ filled = 0
      /\ pc = "ready" /\ after = "ready" /\ cursor = 0 /\ req = {}
  BY DEF Init
<1>2. Placed = 0 /\ Len(entries) = 0
  BY <1>1 DEF Placed
<1>3. NonEmptySlots = {} /\ OccupiedSlots = {}
  BY <1>1 DEF NonEmptySlots, OccupiedSlots
<1>4. TypeOK
  <2>1. slots \in [0 .. (0 - 1) -> [kind : {"empty", "dummy", "occupied"},
                                   hash : Hashes \cup {NoHash}, entry : Nat]]
    BY <1>1
  <2>. QED  BY <1>1, <2>1 DEF TypeOK
<1>5. ControlInv /\ TrackedInv /\ ReachableInv /\ DistinctInv
  BY <1>1, <1>2, <1>3 DEF ControlInv, TrackedInv, ReachableInv, DistinctInv, Growing
<1>6. CountedInv
  BY <1>1, <1>2, <1>3, FS_EmptySet DEF CountedInv
<1>. QED  BY <1>4, <1>5, <1>6 DEF IInv

(* Replacing the value of one entry disturbs nothing else. *)
LEMMA SetValueKeeps ==
  ASSUME TypeOK, NEW i \in 1 .. Len(entries), NEW v \in Vals,
         entries' = [entries EXCEPT ![i].val = v]
  PROVE  /\ entries' \in Seq(Entry) /\ Len(entries') = Len(entries)
         /\ \A e \in 1 .. Len(entries) : entries'[e].key = entries[e].key
<1>1. entries \in Seq(Entry) /\ Len(entries) \in Nat
  BY DEF TypeOK
<1>2. entries[i] \in Entry
  BY <1>1
<1>3. [entries[i] EXCEPT !.val = v] \in Entry /\ [entries[i] EXCEPT !.val = v].key = entries[i].key
  BY <1>2 DEF Entry
<1>4. entries' = [entries EXCEPT ![i] = [entries[i] EXCEPT !.val = v]]
  OBVIOUS
<1>. QED  BY <1>1, <1>3, <1>4, ExceptSeq

(* The call of insert_with_hash keeps the invariant. *)
LEMMA InsertInv ==
  ASSUME IInv, AllHashable, NEW k \in Keys, NEW v \in Vals, NEW h \in HashesOf(k),
         InsertWithHash(k, v, h)
  PROVE  IInv'
<1>0. TypeOK /\ ControlInv /\ TrackedInv /\ ReachableInv /\ DistinctInv /\ CountedInv
  BY DEF IInv
<1>1. h \in Hashes
  BY HashAssumption DEF HashesOf
<1>2. req' \subseteq Request /\ pc = "ready" /\ entries' = entries /\ entryHashes' = entryHashes
  BY <1>1 DEF InsertWithHash, Request, table
<1>2a. \A q, r \in req' : q = r
  BY DEF InsertWithHash
<1>3. CASE size = 0
  <2>1. StartRebuild(MinTableSize, Len(entries), "probe")
    BY <1>3 DEF InsertWithHash
  <2>2. Len(entries) = 0 /\ Len(entries) \in Nat /\ MinTableSize \in Nat
    BY <1>0, <1>3, SizeAssumption DEF ControlInv, TypeOK
  <2>3. entries \in Seq(Entry) /\ entryHashes \in Seq(Hashes \cup {NoHash}) /\ Len(entryHashes) = 0
    BY <1>0, <2>2 DEF TypeOK
  <2>. QED  BY <1>0, <1>2, <1>2a, <2>1, <2>2, <2>3, SizeAssumption, StartRebuildInv
<1>4. CASE size # 0
  <2>1. pc' = "probe" /\ UNCHANGED <<entries, table, after, cursor>>
    BY <1>4 DEF InsertWithHash
  <2>2. Placed' = Placed /\ OccupiedSlots' = OccupiedSlots /\ NonEmptySlots' = NonEmptySlots
    BY <1>2, <2>1 DEF Placed, OccupiedSlots, NonEmptySlots, table
  <2>3. TypeOK'
    BY <1>0, <1>2, <2>1 DEF TypeOK, table
  <2>4. ControlInv' /\ DistinctInv'
    BY <1>0, <1>2, <1>2a, <1>4, <2>1 DEF ControlInv, DistinctInv, Growing, table
  <2>5. TrackedInv' /\ CountedInv'
    BY <1>0, <1>2, <2>1, <2>2 DEF TrackedInv, CountedInv, table
  <2>6. ReachableInv'
    BY <1>0, <1>2, <2>1, <2>2 DEF ReachableInv, Reaches, table
  <2>. QED  BY <2>3, <2>4, <2>5, <2>6 DEF IInv
<1>. QED  BY <1>3, <1>4

(* Each step that follows the call of an insert (update, append, grow, place) keeps the invariant. *)
LEMMA InsertStepInv ==
  ASSUME IInv, AllHashable, NEW r \in req,
         InsertUpdate(r) \/ InsertAppend(r) \/ InsertGrow(r) \/ InsertPlace(r)
  PROVE  IInv'
<1>0. TypeOK /\ ControlInv /\ TrackedInv /\ ReachableInv /\ DistinctInv /\ CountedInv
  BY DEF IInv
<1>1. r \in Request /\ r.key \in Keys /\ r.val \in Vals /\ r.hash \in Hashes /\ Len(entries) \in Nat
      /\ size \in Nat /\ filled \in Nat
  BY <1>0, SizeAssumption DEF TypeOK, Request
<1>2. ASSUME pc = "probe"
      PROVE  Found(r.key, r.hash) =
               {e \in 1 .. Len(entries) : entries[e].key = r.key /\ entryHashes[e] = r.hash}
  <2>1. size # 0
    BY <1>0, <1>2 DEF ControlInv
  <2>. QED  BY <1>0, <1>1, <1>2, <2>1, FoundIsStored
<1>3. CASE InsertUpdate(r)
  <2>1. pc = "probe"
    BY <1>3 DEF InsertUpdate
  <2>2. PICK e \in Found(r.key, r.hash) :
          /\ entries' = [entries EXCEPT ![e].val = r.val]
          /\ entryHashes' = [entryHashes EXCEPT ![e] = r.hash]
    BY <1>3 DEF InsertUpdate
  <2>3. e \in 1 .. Len(entries) /\ entryHashes[e] = r.hash
    BY <1>2, <2>1
  <2>4. entryHashes' = entryHashes
    BY <1>0, <2>2, <2>3 DEF TypeOK
  <2>5. /\ entries' \in Seq(Entry) /\ Len(entries') = Len(entries)
        /\ \A f \in 1 .. Len(entries) : entries'[f].key = entries[f].key
    BY <1>0, <1>1, <2>2, <2>3, SetValueKeeps
  <2>6. /\ pc' = "ready" /\ req' = {}
        /\ UNCHANGED <<entrySlots, size, slots, used, filled, after, cursor>>
    BY <1>3 DEF InsertUpdate
  <2>7. Placed' = Placed /\ OccupiedSlots' = OccupiedSlots /\ NonEmptySlots' = NonEmptySlots
    BY <2>1, <2>5, <2>6 DEF Placed, OccupiedSlots, NonEmptySlots
  <2>8. TypeOK'
    BY <1>0, <2>4, <2>5, <2>6 DEF TypeOK
  <2>9. ControlInv' /\ DistinctInv'
    BY <1>0, <2>4, <2>5, <2>6 DEF ControlInv, DistinctInv, Growing
  <2>10. TrackedInv' /\ CountedInv'
    BY <1>0, <2>1, <2>4, <2>5, <2>6, <2>7 DEF TrackedInv, CountedInv
  <2>11. ReachableInv'
    BY <1>0, <2>1, <2>4, <2>6, <2>7 DEF ReachableInv, Reaches
  <2>. QED  BY <2>8, <2>9, <2>10, <2>11 DEF IInv
<1>4. CASE InsertAppend(r)
  <2>1. /\ pc = "probe" /\ Found(r.key, r.hash) = {}
        /\ filled + 1 <= UsableSlots /\ Place(r, VacantSlot(r.hash))
    BY <1>4 DEF InsertAppend
  <2>2. filled < size
    BY <1>1, <2>1 DEF UsableSlots
  <2>3. \A e \in 1 .. Len(entries) : ~(entries[e].key = r.key /\ entryHashes[e] = r.hash)
    BY <1>2, <2>1
  <2>. QED  BY <1>1, <2>1, <2>2, <2>3, PlaceInv
<1>5. CASE InsertPlace(r)
  <2>1. pc = "place" /\ Place(r, VacantSlot(r.hash))
    BY <1>5 DEF InsertPlace
  <2>2. size # 0 /\ 2 * Len(entries) <= size
    BY <1>0, <2>1 DEF ControlInv, Growing
  <2>3. filled = Len(entries)
    BY <1>0, <1>1, <2>1 DEF CountedInv, Placed
  <2>4. filled < size
    BY <2>2, <2>3, <1>1
  <2>5. \A e \in 1 .. Len(entries) : ~(entries[e].key = r.key /\ entryHashes[e] = r.hash)
    BY <1>0, <2>1 DEF DistinctInv, Growing
  <2>. QED  BY <1>1, <2>1, <2>4, <2>5, PlaceInv
<1>6. CASE InsertGrow(r)
  <2>1. /\ pc = "probe" /\ Found(r.key, r.hash) = {} /\ size * 2 \in TableSizes
        /\ StartRebuild(size * 2, Len(entries), "place")
        /\ entries' = entries /\ entryHashes' = entryHashes /\ req' = req
    BY <1>6 DEF InsertGrow
  <2>2. Len(entries) <= size * 2 /\ 2 * Len(entries) <= size * 2
    BY <1>0, <1>1 DEF ControlInv
  <2>3. \A q \in req, e \in 1 .. Len(entries) : ~(entries[e].key = q.key /\ entryHashes[e] = q.hash)
    <3>1. \A q \in req : q = r
      BY <1>0 DEF ControlInv
    <3>. QED  BY <3>1, <1>2, <2>1
  <2>4. /\ entries' \in Seq(Entry) /\ Len(entries') = Len(entries)
        /\ entryHashes' \in Seq(Hashes \cup {NoHash}) /\ Len(entryHashes') = Len(entries)
        /\ req' \subseteq Request /\ \A p, q \in req' : p = q
    BY <1>0, <2>1 DEF TypeOK, ControlInv
  <2>5. /\ \A e \in 1 .. Len(entries) : entryHashes'[e] \in Hashes
        /\ \A e, f \in 1 .. Len(entries) :
             entries'[e].key = entries'[f].key /\ entryHashes'[e] = entryHashes'[f] => e = f
    BY <1>0, <2>1 DEF ControlInv, DistinctInv
  <2>6. \A q \in req', e \in 1 .. Len(entries) :
          ~(entries'[e].key = q.key /\ entryHashes'[e] = q.hash)
    BY <2>1, <2>3
  <2>. QED  BY <1>1, <2>1, <2>2, <2>4, <2>5, <2>6, StartRebuildInv
<1>. QED  BY <1>3, <1>4, <1>5, <1>6

(* Removing the entry at an index keeps the invariant. *)
LEMMA RemoveInv ==
  ASSUME IInv, AllHashable, NEW i \in 1 .. Len(entries), RemoveEntry(i)
  PROVE  IInv'
<1>0. TypeOK /\ ControlInv /\ TrackedInv /\ ReachableInv /\ DistinctInv /\ CountedInv
  BY DEF IInv
<1>. PICK left : left = Len(entries) - 1
  OBVIOUS
<1>1. /\ Len(entries) \in Nat /\ left \in Nat /\ size \in TableSizes \cup {0}
      /\ size \in Nat /\ Len(entries) <= size /\ size \in TableSizes /\ pc = "ready"
  <2>1. Len(entries) \in Nat /\ size \in Nat /\ size \in TableSizes \cup {0} /\ Len(entries) <= size
    BY <1>0, SizeAssumption DEF TypeOK, ControlInv
  <2>. QED  BY <2>1 DEF RemoveEntry
<1>2. CASE left = 0
  <2>1. Reset
    BY <1>2 DEF RemoveEntry
  <2>. QED  BY <2>1, ResetInv
<1>3. CASE left # 0
  <2>1. /\ entries' = RemoveAt(entries, i) /\ entryHashes' = RemoveAt(entryHashes, i) /\ req' = req
    BY <1>3 DEF RemoveEntry
  <2>2. /\ entries' \in Seq(Entry) /\ Len(entries') = left
        /\ entryHashes' \in Seq(Hashes \cup {NoHash}) /\ Len(entryHashes') = left
        /\ \A e \in 1 .. left : entryHashes'[e] \in Hashes
        /\ \A e, f \in 1 .. left :
             entries'[e].key = entries'[f].key /\ entryHashes'[e] = entryHashes'[f] => e = f
    BY <1>0, <2>1, RemoveAtKeeps
  <2>3. req' \subseteq Request /\ \A q, r \in req' : q = r
    BY <1>0, <2>1 DEF TypeOK, ControlInv
  <2>4. ASSUME NEW n \in TableSizes, left <= n, StartRebuild(n, left, "ready")
        PROVE  IInv'
    BY <1>1, <2>2, <2>3, <2>4, StartRebuildInv
  <2>5. CASE TooManyDummies(left)
    <3>1. StartRebuild(IF size > MinTableSize THEN size ELSE MinTableSize, left, "ready")
      BY <1>3, <2>5 DEF RemoveEntry
    <3>2. size >= MinTableSize /\ MinTableSize \in Nat
      BY <1>1, SizeAssumption
    <3>3. StartRebuild(size, left, "ready")
      BY <3>1, <3>2, <1>1
    <3>. QED  BY <3>3, <2>4, <1>1
  <2>6. CASE ~TooManyDummies(left) /\ Sparse(left)
    <3>1. StartRebuild(size \div 2, left, "ready")
      BY <1>3, <2>6 DEF RemoveEntry
    <3>2. size > MinTableSize /\ left * 8 <= size
      BY <2>6 DEF Sparse
    <3>3. size \div 2 \in TableSizes /\ left <= size \div 2
      BY <3>2, <1>1, SizeAssumption
    <3>. QED  BY <3>1, <3>3, <2>4
  <2>7. CASE ~TooManyDummies(left) /\ ~Sparse(left)
    <3>1. /\ entrySlots' = RemoveAt(entrySlots, i) /\ slots' = SlotsAfterRemove(i)
          /\ used' = Len(entries) - 1 /\ UNCHANGED <<size, filled, pc, after, cursor, req>>
      BY <1>3, <2>7 DEF RemoveEntry
    <3>. QED  BY <3>1, <2>1, <2>7, <1>1, CompactInv
  <2>. QED  BY <2>5, <2>6, <2>7
<1>. QED  BY <1>2, <1>3

(* retain keeps the invariant, with and without entries to drop. *)
LEMMA RetainInv ==
  ASSUME IInv, AllHashable, RetainStart \/ RetainKeep \/ RetainDrop \/ RetainDone
  PROVE  IInv'
<1>0. /\ TypeOK /\ ControlInv /\ TrackedInv /\ ReachableInv /\ DistinctInv /\ CountedInv
      /\ Len(entries) \in Nat /\ cursor \in Nat /\ size \in Nat
  BY SizeAssumption DEF IInv, TypeOK
<1>1. ASSUME pc' = "retain", cursor' \in 1 .. (Len(entries) + 1),
             UNCHANGED <<entries, table, after, req>>
      PROVE  IInv'
  <2>1. TypeOK'
    BY <1>0, <1>1 DEF TypeOK, table
  <2>2. ControlInv' /\ DistinctInv'
    BY <1>0, <1>1 DEF ControlInv, DistinctInv, Growing, table
  <2>3. TrackedInv' /\ ReachableInv' /\ CountedInv'
    BY <1>1 DEF TrackedInv, ReachableInv, CountedInv
  <2>. QED  BY <2>1, <2>2, <2>3 DEF IInv
<1>2. CASE RetainStart
  <2>1. pc' = "retain" /\ cursor' = 1 /\ UNCHANGED <<entries, table, after, req>>
    BY <1>2 DEF RetainStart
  <2>2. cursor' \in 1 .. (Len(entries) + 1)
    BY <1>0, <2>1
  <2>. QED  BY <1>1, <2>1, <2>2
<1>3. CASE RetainKeep
  <2>1. /\ pc = "retain" /\ pc' = pc /\ cursor <= Len(entries) /\ cursor' = cursor + 1
        /\ UNCHANGED <<entries, table, after, req>>
    BY <1>3 DEF RetainKeep
  <2>2. cursor' \in 1 .. (Len(entries) + 1)
    BY <1>0, <2>1 DEF ControlInv
  <2>. QED  BY <1>1, <2>1, <2>2
<1>4. CASE RetainDrop
  <2>1. /\ pc = "retain" /\ cursor <= Len(entries) /\ cursor \in 1 .. Len(entries)
        /\ entries' = RemoveAt(entries, cursor) /\ entryHashes' = RemoveAt(entryHashes, cursor)
        /\ UNCHANGED <<entrySlots, size, slots, used, filled, pc, after, cursor, req>>
    BY <1>4, <1>0 DEF RetainDrop, ControlInv, control
  <2>2. /\ entries' \in Seq(Entry) /\ Len(entries') = Len(entries) - 1
        /\ entryHashes' \in Seq(Hashes \cup {NoHash}) /\ Len(entryHashes') = Len(entries) - 1
        /\ \A e \in 1 .. (Len(entries) - 1) : entryHashes'[e] \in Hashes
        /\ \A e, f \in 1 .. (Len(entries) - 1) :
             entries'[e].key = entries'[f].key /\ entryHashes'[e] = entryHashes'[f] => e = f
    <3>. PICK i : i = cursor
      OBVIOUS
    <3>1. i \in 1 .. Len(entries) /\ entries' = RemoveAt(entries, i) /\ entryHashes' = RemoveAt(entryHashes, i)
      BY <2>1
    <3>. QED  BY <3>1, <1>0, RemoveAtKeeps
  <2>3. TypeOK'
    BY <1>0, <2>1, <2>2 DEF TypeOK
  <2>4. ControlInv' /\ DistinctInv'
    BY <1>0, <2>1, <2>2 DEF ControlInv, DistinctInv, Growing
  <2>5. TrackedInv' /\ ReachableInv' /\ CountedInv'
    BY <2>1 DEF TrackedInv, ReachableInv, CountedInv
  <2>. QED  BY <2>3, <2>4, <2>5 DEF IInv
<1>5. CASE RetainDone
  <2>1. CASE entries = <<>>
    BY <1>5, <2>1, ResetInv DEF RetainDone
  <2>2. CASE entries # <<>>
    <3>. PICK n, c : n = TableSizeFor(Len(entries)) /\ c = Len(entries)
      OBVIOUS
    <3>1. StartRebuild(n, c, "ready") /\ entries' = entries /\ entryHashes' = entryHashes /\ req' = req
      BY <1>5, <2>2 DEF RetainDone
    <3>2. c \in Nat /\ c # 0 /\ c <= size /\ size \in TableSizes
      <4>1. c # 0
        BY <1>0, <2>2, EmptySeq DEF TypeOK
      <4>. QED  BY <4>1, <1>0 DEF TypeOK, ControlInv
    <3>3. n \in TableSizes /\ c <= n
      <4>1. size \in {m \in TableSizes : m >= c} /\ {m \in TableSizes : m >= c} \subseteq Nat
        BY <3>2, SizeAssumption
      <4>2. n = Min({m \in TableSizes : m >= c})
        BY DEF TableSizeFor
      <4>3. n \in {m \in TableSizes : m >= c}
        BY <4>1, <4>2, MinOfNats
      <4>. QED  BY <4>3, <3>2, SizeAssumption
    <3>4. /\ entries' \in Seq(Entry) /\ Len(entries') = c
          /\ entryHashes' \in Seq(Hashes \cup {NoHash}) /\ Len(entryHashes') = c
          /\ req' \subseteq Request /\ \A q, r \in req' : q = r
      BY <1>0, <3>1 DEF TypeOK, ControlInv
    <3>5. /\ \A e \in 1 .. c : entryHashes'[e] \in Hashes
          /\ \A e, f \in 1 .. c :
               entries'[e].key = entries'[f].key /\ entryHashes'[e] = entryHashes'[f] => e = f
      BY <1>0, <3>1 DEF ControlInv, DistinctInv
    <3>. QED  BY <3>1, <3>2, <3>3, <3>4, <3>5, StartRebuildInv
  <2>. QED  BY <2>1, <2>2
<1>. QED  BY <1>2, <1>3, <1>4, <1>5

(* The end of the rebuild loop keeps the invariant. *)
LEMMA RebuildDoneInv ==
  ASSUME IInv, RebuildDone
  PROVE  IInv'
<1>0. TypeOK /\ ControlInv /\ TrackedInv /\ ReachableInv /\ DistinctInv /\ CountedInv
  BY DEF IInv
<1>1. /\ pc = "rebuild" /\ cursor > Len(entries) /\ pc' = after /\ after' = "ready" /\ cursor' = 0
      /\ UNCHANGED <<entries, table, req>>
  BY DEF RebuildDone
<1>2. cursor - 1 = Len(entries) /\ Len(entries) \in Nat /\ after \in {"ready", "probe", "place"}
  BY <1>0, <1>1 DEF ControlInv, TypeOK
<1>3. /\ Placed' = Placed /\ Placed = Len(entries)
      /\ OccupiedSlots' = OccupiedSlots /\ NonEmptySlots' = NonEmptySlots
  BY <1>1, <1>2 DEF Placed, OccupiedSlots, NonEmptySlots, table
<1>4. TypeOK'
  BY <1>0, <1>1 DEF TypeOK, table
<1>5. ControlInv' /\ DistinctInv'
  BY <1>0, <1>1, <1>2 DEF ControlInv, DistinctInv, Growing, table
<1>6. TrackedInv'
  BY <1>0, <1>1, <1>3 DEF TrackedInv, table
<1>7. ReachableInv'
  BY <1>0, <1>1, <1>3 DEF ReachableInv, Reaches, table
<1>8. CountedInv'
  BY <1>0, <1>1, <1>2, <1>3 DEF CountedInv, table
<1>. QED  BY <1>4, <1>5, <1>6, <1>7, <1>8 DEF IInv

(* Writing a value by entry index keeps the invariant. *)
LEMMA SetValueAtInv ==
  ASSUME IInv, NEW i \in 1 .. Len(entries), NEW v \in Vals, SetValueAt(i, v)
  PROVE  IInv'
<1>0. TypeOK /\ ControlInv /\ TrackedInv /\ ReachableInv /\ DistinctInv /\ CountedInv
  BY DEF IInv
<1>1. entries' = [entries EXCEPT ![i].val = v] /\ UNCHANGED <<table, control>>
  BY DEF SetValueAt
<1>2. /\ entries' \in Seq(Entry) /\ Len(entries') = Len(entries)
      /\ \A e \in 1 .. Len(entries) : entries'[e].key = entries[e].key
  BY <1>0, <1>1, SetValueKeeps
<1>3. Placed' = Placed /\ OccupiedSlots' = OccupiedSlots /\ NonEmptySlots' = NonEmptySlots
  BY <1>1, <1>2 DEF Placed, OccupiedSlots, NonEmptySlots, table, control
<1>4. TypeOK'
  BY <1>0, <1>1, <1>2 DEF TypeOK, table, control
<1>5. ControlInv' /\ DistinctInv'
  BY <1>0, <1>1, <1>2 DEF ControlInv, DistinctInv, Growing, table, control
<1>6. TrackedInv' /\ CountedInv'
  BY <1>0, <1>1, <1>2, <1>3 DEF TrackedInv, CountedInv, table, control
<1>7. ReachableInv'
  BY <1>0, <1>1, <1>3 DEF ReachableInv, Reaches, table, control
<1>. QED  BY <1>4, <1>5, <1>6, <1>7 DEF IInv

(* A key is removed at an index of the entries. *)
LEMMA FindIsEntry ==
  ASSUME IInv, NEW k \in Keys, NEW h \in HashesOf(k), pc = "ready"
  PROVE  FindIndexWithHash(k, h) \subseteq DOMAIN entries
<1>0. DOMAIN entries = 1 .. Len(entries)
  BY DEF IInv, TypeOK
<1>1. TypeOK /\ ControlInv /\ TrackedInv /\ ReachableInv /\ DistinctInv /\ h \in Hashes
  BY HashAssumption DEF IInv, HashesOf
<1>2. CASE size > 0
  <2>1. Found(k, h) \subseteq 1 .. Len(entries)
    BY <1>1, <1>2, FoundIsStored
  <2>. QED  BY <2>1, <1>2, <1>0 DEF FindIndexWithHash
<1>3. CASE ~(size > 0)
  <2>1. size = 0 /\ Len(entries) = 0
    BY <1>1, <1>3, SizeAssumption DEF TypeOK, ControlInv
  <2>2. Linear(k) = {}
    BY <2>1, <1>0 DEF Linear
  <2>. QED  BY <1>3, <2>2 DEF FindIndexWithHash
<1>. QED  BY <1>2, <1>3

(* Every step of the specification keeps the invariant. *)
LEMMA NextInv ==
  ASSUME AllHashable, IInv, [Next]_vars
  PROVE  IInv'
<1>0. DOMAIN entries = 1 .. Len(entries)
  BY DEF IInv, TypeOK
<1>1. ASSUME NEW k \in Keys, NEW v \in Vals, InsertUnhashable(k, v)
      PROVE  IInv'
  BY <1>1 DEF InsertUnhashable, AllHashable
<1>2. ASSUME NEW k \in Keys, NEW v \in Vals, NEW h \in HashesOf(k), InsertWithHash(k, v, h)
      PROVE  IInv'
  BY <1>2, InsertInv
<1>3. ASSUME NEW i \in DOMAIN entries, NEW v \in Vals, SetValueAt(i, v)
      PROVE  IInv'
  BY <1>0, <1>3, SetValueAtInv
<1>4. ASSUME NEW i \in DOMAIN entries, RemoveEntry(i)
      PROVE  IInv'
  BY <1>0, <1>4, RemoveInv
<1>5. ASSUME NEW k \in Keys, NEW h \in HashesOf(k), pc = "ready"
      PROVE  FindIndexWithHash(k, h) \subseteq DOMAIN entries
  BY <1>5, FindIsEntry
<1>6. ASSUME NEW k \in Keys, RemoveKey(k)
      PROVE  IInv'
  <2>1. pc = "ready" /\ LookupHash[k] \in HashesOf(k) /\ LookupHash[k] # NoHash
    BY <1>6 DEF RemoveKey, HashesOf, AllHashable
  <2>2. FindIndex(k) \subseteq DOMAIN entries
    BY <2>1, <1>5 DEF FindIndex
  <2>. QED  BY <1>4, <1>6, <2>2 DEF RemoveKey
<1>7. ASSUME NEW k \in Keys, NEW h \in HashesOf(k), RemoveKeyWithHash(k, h)
      PROVE  IInv'
  BY <1>4, <1>5, <1>7 DEF RemoveKeyWithHash
<1>8. CASE Clear
  BY <1>8, ResetInv DEF Clear
<1>9. CASE RetainStart \/ RetainKeep \/ RetainDrop \/ RetainDone
  BY <1>9, RetainInv
<1>10. ASSUME NEW r \in req, InsertUpdate(r) \/ InsertAppend(r) \/ InsertGrow(r) \/ InsertPlace(r)
       PROVE  IInv'
  BY <1>10, InsertStepInv
<1>11. CASE RebuildEntry
  BY <1>11, RebuildEntryInv
<1>12. CASE RebuildDone
  BY <1>12, RebuildDoneInv
<1>13. CASE UNCHANGED vars
  BY <1>13 DEF IInv, TypeOK, ControlInv, TrackedInv, ReachableInv, DistinctInv, CountedInv,
     Placed, NonEmptySlots, OccupiedSlots, Growing, Reaches, vars, table, control
<1>14. CASE Call
  BY <1>14, <1>1, <1>2, <1>3, <1>4, <1>6, <1>7, <1>8, <1>9 DEF Call
<1>15. CASE Step
  BY <1>15, <1>9, <1>10, <1>11, <1>12 DEF Step
<1>. QED  BY <1>13, <1>14, <1>15 DEF Next

-----------------------------------------------------------------------------
(* Theorems *)

(* The inductive invariant holds in every reachable state, whenever every   *)
(* key has a lookup hash (normal Python paths check hashability first).     *)
THEOREM Invariance ==
  ASSUME AllHashable
  PROVE  Spec => []IInv
<1>1. Init => IInv
  BY InitInv
<1>2. IInv /\ [Next]_vars => IInv'
  BY NextInv
<1>. QED  BY <1>1, <1>2, PTL DEF Spec

(* Every variable of the backend keeps its type. *)
THEOREM TypeCorrect ==
  ASSUME AllHashable
  PROVE  Spec => []TypeOK
<1>1. IInv => TypeOK
  BY DEF IInv
<1>. QED  BY <1>1, Invariance, PTL

(* Between calls the slot table and the entries describe each other. *)
THEOREM SlotsMatch ==
  ASSUME AllHashable
  PROVE  Spec => []SlotsMatchEntries
<1>1. IInv => SlotsMatchEntries
  <2>. SUFFICES ASSUME IInv, pc = "ready"
                PROVE  /\ \A e \in DOMAIN entries :
                            entrySlots[e] # NoSlot => slots[entrySlots[e]] = Occupied(entryHashes[e], e)
                       /\ \A s \in DOMAIN slots :
                            slots[s].kind = "occupied" =>
                              slots[s].entry \in DOMAIN entries /\ entrySlots[slots[s].entry] = s
    BY DEF SlotsMatchEntries
  <2>1. /\ DOMAIN entries = 1 .. Len(entries) /\ DOMAIN slots = 0 .. (size - 1)
        /\ Placed = Len(entries)
    BY DEF IInv, TypeOK, Placed
  <2>. QED  BY <2>1 DEF IInv, TrackedInv, OccupiedSlots
<1>. QED  BY <1>1, Invariance, PTL

(* Between calls a probe finds exactly what is stored under a key and hash. *)
THEOREM ProbesAreExact ==
  ASSUME AllHashable
  PROVE  Spec => []ProbeExact
<1>1. IInv => ProbeExact
  <2>. SUFFICES ASSUME IInv, pc = "ready", size > 0, NEW k \in Keys, NEW h \in Hashes
                PROVE  Found(k, h) =
                         {e \in DOMAIN entries : entries[e].key = k /\ entryHashes[e] = h}
    BY DEF ProbeExact
  <2>1. DOMAIN entries = 1 .. Len(entries)
    BY DEF IInv, TypeOK
  <2>2. size # 0 /\ pc \notin {"retain", "rebuild"}
    OBVIOUS
  <2>. QED  BY <2>1, <2>2, FoundIsStored DEF IInv
<1>. QED  BY <1>1, Invariance, PTL

(* Between calls the candidates for a hash are all the entries under it. *)
THEOREM CandidatesAreComplete ==
  ASSUME AllHashable
  PROVE  Spec => []CandidatesComplete
<1>1. IInv => CandidatesComplete
  <2>. SUFFICES ASSUME IInv, pc = "ready", NEW h \in Hashes
                PROVE  Candidates(h) = {e \in DOMAIN entries : entryHashes[e] = h}
    BY DEF CandidatesComplete
  <2>1. /\ TypeOK /\ ControlInv /\ TrackedInv /\ ReachableInv
        /\ DOMAIN entries = 1 .. Len(entries) /\ Len(entries) \in Nat /\ size \in Nat
        /\ Placed = Len(entries)
    BY SizeAssumption DEF IInv, TypeOK, Placed
  <2>2. CASE size = 0
    <3>1. DOMAIN entries = {}
      BY <2>1, <2>2 DEF ControlInv
    <3>. QED  BY <3>1, <2>2 DEF Candidates
  <2>3. CASE size # 0
    <3>. DEFINE stored == {e \in DOMAIN entries : entryHashes[e] = h}
    <3>1. ASSUME NEW i \in Rounds(size), SlotAt(h, i).kind = "occupied", SlotAt(h, i).hash = h
          PROVE  SlotAt(h, i).entry \in stored
      <4>1. PICK s : s = Probe[h][size][i]
        OBVIOUS
      <4>2. s \in 0 .. (size - 1)
        <5>1. size \in TableSizes /\ i \in 0 .. (size + MaxPerturbRounds)
          BY <2>1, <2>3, SizeAssumption DEF TypeOK, Rounds
        <5>. QED  BY <4>1, <5>1, ProbeAssumption
      <4>3. SlotAt(h, i) = slots[s]
        BY <4>1 DEF SlotAt
      <4>4. slots[s].entry \in 1 .. Len(entries) /\ entrySlots[slots[s].entry] = s
        BY <2>1, <3>1, <4>2, <4>3 DEF TrackedInv, OccupiedSlots
      <4>5. slots[s].hash = entryHashes[slots[s].entry]
        <5>1. PICK e \in 1 .. Len(entries) : e = slots[s].entry /\ entrySlots[e] = s
          BY <4>4
        <5>2. slots[s] = Occupied(entryHashes[e], e)
          BY <2>1, <5>1 DEF TrackedInv
        <5>3. slots[s].hash = entryHashes[e]
          BY <5>2 DEF Occupied
        <5>. QED  BY <5>1, <5>3
      <4>. QED  BY <2>1, <3>1, <4>3, <4>4, <4>5
    <3>2. ASSUME NEW e \in stored
          PROVE  \E i \in Rounds(size) :
                   /\ SlotAt(h, i).kind = "occupied" /\ SlotAt(h, i).hash = h
                   /\ OnPath(h, i) /\ SlotAt(h, i).entry = e
      <4>1. e \in 1 .. Len(entries) /\ entryHashes[e] = h
        BY <2>1
      <4>2. slots[entrySlots[e]] = Occupied(h, e) /\ Reaches(h, entrySlots[e])
        BY <2>1, <4>1 DEF TrackedInv, ReachableInv
      <4>. QED  BY <4>2 DEF Reaches, SlotAt, OnPath, Occupied
    <3>. QED  BY <2>3, <3>1, <3>2 DEF Candidates
  <2>. QED  BY <2>2, <2>3
<1>. QED  BY <1>1, Invariance, PTL

(* Between calls both searches find exactly what is stored.               *)
THEOREM LookupIsExact ==
  ASSUME AllHashable
  PROVE  Spec => []LookupExact
<1>1. ProbeExact /\ CandidatesComplete => LookupExact
  BY DEF LookupExact
<1>. QED  BY <1>1, ProbesAreExact, CandidatesAreComplete, PTL

(* Between calls the two counters are exact, and tombstones never          *)
(* outnumber entries: the removal that would make one too many rebuilds    *)
(* the table (maybe_resize_after_remove).                                  *)
THEOREM CountersAreExact ==
  ASSUME AllHashable
  PROVE  Spec => []CountersExact
<1>1. IInv => CountersExact
  <2>. SUFFICES ASSUME IInv, pc = "ready"
                PROVE  /\ used = Len(entries)
                       /\ filled = Cardinality({s \in DOMAIN slots : slots[s].kind # "empty"})
                       /\ filled - used <= used
    BY DEF CountersExact
  <2>1. DOMAIN slots = 0 .. (size - 1)
    BY DEF IInv, TypeOK
  <2>. QED  BY <2>1 DEF IInv, CountedInv, NonEmptySlots
<1>. QED  BY <1>1, Invariance, PTL

-----------------------------------------------------------------------------
(* Refinement of the insertion-ordered map *)

Item == [id : Keys \X (Hashes \cup {NoHash}), val : Vals]

ItemsOf(es, hs) ==
  [i \in DOMAIN es |-> [id |-> <<es[i].key, hs[i]>>, val |-> es[i].val]]

(* The items of the ordered map are the pairs of the entries, in order. *)
LEMMA ItemsShape ==
  ASSUME NEW es \in Seq(Entry), NEW hs \in Seq(Hashes \cup {NoHash}), Len(hs) = Len(es)
  PROVE  /\ ItemsOf(es, hs) \in Seq(Item) /\ Len(ItemsOf(es, hs)) = Len(es)
         /\ DOMAIN ItemsOf(es, hs) = 1 .. Len(es) /\ Len(es) \in Nat
         /\ \A e \in 1 .. Len(es) :
              ItemsOf(es, hs)[e] = [id |-> <<es[e].key, hs[e]>>, val |-> es[e].val]
<1>1. DOMAIN es = 1 .. Len(es) /\ Len(es) \in Nat
  OBVIOUS
<1>2. \A e \in 1 .. Len(es) : ItemsOf(es, hs)[e] = [id |-> <<es[e].key, hs[e]>>, val |-> es[e].val]
  BY <1>1 DEF ItemsOf
<1>3. ASSUME NEW e \in 1 .. Len(es)
      PROVE  [id |-> <<es[e].key, hs[e]>>, val |-> es[e].val] \in Item
  <2>1. es[e] \in Entry /\ hs[e] \in Hashes \cup {NoHash}
    OBVIOUS
  <2>. QED  BY <2>1 DEF Entry, Item
<1>4. ItemsOf(es, hs) \in [1 .. Len(es) -> Item]
  BY <1>1, <1>3 DEF ItemsOf
<1>. QED  BY <1>1, <1>2, <1>4

(* Adding a pair appends its item. *)
LEMMA ItemsAppend ==
  ASSUME NEW es \in Seq(Entry), NEW hs \in Seq(Hashes \cup {NoHash}), Len(hs) = Len(es),
         NEW x \in Entry, NEW h \in Hashes \cup {NoHash}
  PROVE  ItemsOf(Append(es, x), Append(hs, h)) =
           Append(ItemsOf(es, hs), [id |-> <<x.key, h>>, val |-> x.val])
<1>. DEFINE n == Len(es)
<1>1. PICK item : item = [id |-> <<x.key, h>>, val |-> x.val]
  OBVIOUS
<1>2. PICK es2 : es2 = Append(es, x)
  OBVIOUS
<1>3. PICK hs2 : hs2 = Append(hs, h)
  OBVIOUS
<1>4. item \in Item
  BY <1>1 DEF Item, Entry
<1>5. /\ es2 \in Seq(Entry) /\ Len(es2) = n + 1 /\ es2[n + 1] = x
      /\ \A e \in 1 .. n : es2[e] = es[e]
  BY <1>2, AppendProperties
<1>6. /\ hs2 \in Seq(Hashes \cup {NoHash}) /\ Len(hs2) = n + 1 /\ hs2[n + 1] = h
      /\ \A e \in 1 .. n : hs2[e] = hs[e]
  BY <1>3, AppendProperties
<1>7. PICK old : old = ItemsOf(es, hs)
  OBVIOUS
<1>8. PICK new : new = ItemsOf(es2, hs2)
  OBVIOUS
<1>9. /\ old \in Seq(Item) /\ Len(old) = n /\ n \in Nat
      /\ \A e \in 1 .. n : old[e] = [id |-> <<es[e].key, hs[e]>>, val |-> es[e].val]
  BY <1>7, ItemsShape
<1>10. /\ new \in Seq(Item) /\ Len(new) = n + 1
       /\ \A e \in 1 .. (n + 1) : new[e] = [id |-> <<es2[e].key, hs2[e]>>, val |-> es2[e].val]
  BY <1>5, <1>6, <1>8, ItemsShape
<1>11. PICK app : app = Append(old, item)
  OBVIOUS
<1>12. /\ app \in Seq(Item) /\ Len(app) = n + 1 /\ app[n + 1] = item
       /\ \A e \in 1 .. n : app[e] = old[e]
  BY <1>4, <1>9, <1>11, AppendProperties
<1>13. ASSUME NEW e \in 1 .. (n + 1)
       PROVE  new[e] = app[e]
  <2>1. CASE e = n + 1
    <3>1. es2[e] = x /\ hs2[e] = h
      BY <2>1, <1>5, <1>6
    <3>. QED  BY <2>1, <3>1, <1>1, <1>10, <1>12
  <2>2. CASE e # n + 1
    <3>1. e \in 1 .. n
      BY <2>2, <1>9
    <3>2. es2[e] = es[e] /\ hs2[e] = hs[e]
      BY <3>1, <1>5, <1>6
    <3>. QED  BY <3>1, <3>2, <1>9, <1>10, <1>12
  <2>. QED  BY <2>1, <2>2
<1>14. new = app
  BY <1>10, <1>12, <1>13, SeqEqual
<1>. QED  BY <1>1, <1>2, <1>3, <1>7, <1>8, <1>11, <1>14

(* Removing an entry removes its item. *)
LEMMA ItemsRemove ==
  ASSUME NEW es \in Seq(Entry), NEW hs \in Seq(Hashes \cup {NoHash}), Len(hs) = Len(es),
         NEW i \in 1 .. Len(es)
  PROVE  ItemsOf(RemoveAt(es, i), RemoveAt(hs, i)) = RemoveAt(ItemsOf(es, hs), i)
<1>. DEFINE n == Len(es)
<1>1. PICK es2 : es2 = RemoveAt(es, i)
  OBVIOUS
<1>2. PICK hs2 : hs2 = RemoveAt(hs, i)
  OBVIOUS
<1>3. PICK old : old = ItemsOf(es, hs)
  OBVIOUS
<1>4. PICK new : new = ItemsOf(es2, hs2)
  OBVIOUS
<1>5. PICK rem : rem = RemoveAt(old, i)
  OBVIOUS
<1>6. /\ es2 \in Seq(Entry) /\ Len(es2) = n - 1
      /\ \A f \in 1 .. (n - 1) : es2[f] = IF f < i THEN es[f] ELSE es[f + 1]
  BY <1>1, RemoveAtProperties
<1>7. /\ hs2 \in Seq(Hashes \cup {NoHash}) /\ Len(hs2) = n - 1
      /\ \A f \in 1 .. (n - 1) : hs2[f] = IF f < i THEN hs[f] ELSE hs[f + 1]
  <2>1. i \in 1 .. Len(hs)
    OBVIOUS
  <2>. QED  BY <1>2, <2>1, RemoveAtProperties
<1>8. /\ old \in Seq(Item) /\ Len(old) = n /\ n \in Nat
      /\ \A e \in 1 .. n : old[e] = [id |-> <<es[e].key, hs[e]>>, val |-> es[e].val]
  BY <1>3, ItemsShape
<1>9. /\ new \in Seq(Item) /\ Len(new) = n - 1
      /\ \A f \in 1 .. (n - 1) : new[f] = [id |-> <<es2[f].key, hs2[f]>>, val |-> es2[f].val]
  <2>1. Len(hs2) = Len(es2)
    BY <1>6, <1>7
  <2>2. /\ new \in Seq(Item) /\ Len(new) = Len(es2)
        /\ \A f \in 1 .. Len(es2) : new[f] = [id |-> <<es2[f].key, hs2[f]>>, val |-> es2[f].val]
    BY <1>4, <1>6, <1>7, <2>1, ItemsShape
  <2>. QED  BY <1>6, <2>2
<1>10. /\ rem \in Seq(Item) /\ Len(rem) = n - 1
       /\ \A f \in 1 .. (n - 1) : rem[f] = IF f < i THEN old[f] ELSE old[f + 1]
  <2>1. i \in 1 .. Len(old)
    BY <1>8
  <2>2. Len(old) = n
    BY <1>8
  <2>. QED  BY <1>5, <1>8, <2>1, <2>2, RemoveAtProperties
<1>11. ASSUME NEW f \in 1 .. (n - 1)
       PROVE  new[f] = rem[f]
  <2>1. f \in 1 .. n /\ f + 1 \in 1 .. n
    BY <1>8
  <2>2. CASE f < i
    <3>1. es2[f] = es[f] /\ hs2[f] = hs[f] /\ rem[f] = old[f]
      BY <2>2, <1>6, <1>7, <1>10
    <3>. QED  BY <2>1, <3>1, <1>8, <1>9
  <2>3. CASE ~(f < i)
    <3>1. es2[f] = es[f + 1] /\ hs2[f] = hs[f + 1] /\ rem[f] = old[f + 1]
      BY <2>3, <1>6, <1>7, <1>10
    <3>. QED  BY <2>1, <3>1, <1>8, <1>9
  <2>. QED  BY <2>2, <2>3
<1>12. new = rem
  BY <1>8, <1>9, <1>10, <1>11, SeqEqual
<1>. QED  BY <1>1, <1>2, <1>3, <1>4, <1>5, <1>12

(* A step that appends, updates, deletes or leaves the items alone is a step *)
(* of the ordered map.                                                       *)
LEMMA AppendRefines ==
  ASSUME TypeOK, NEW r \in Request,
         entries' = Append(entries, [key |-> r.key, val |-> r.val]),
         entryHashes' = Append(entryHashes, r.hash),
         \A e \in 1 .. Len(entries) : ~(entries[e].key = r.key /\ entryHashes[e] = r.hash)
  PROVE  Abstract!MapNext
<1>1. /\ entries \in Seq(Entry) /\ entryHashes \in Seq(Hashes \cup {NoHash})
      /\ Len(entryHashes) = Len(entries)
  BY DEF TypeOK
<1>2. PICK x : x = [key |-> r.key, val |-> r.val]
  OBVIOUS
<1>3. /\ x \in Entry /\ x.key = r.key /\ x.val = r.val
      /\ r.key \in Keys /\ r.val \in Vals /\ r.hash \in Hashes \cup {NoHash}
  BY <1>2 DEF Entry, Request
<1>4. PICK d : d = <<r.key, r.hash>>
  OBVIOUS
<1>5. d \in Keys \X (Hashes \cup {NoHash})
  BY <1>3, <1>4
<1>6. Items' = ItemsOf(Append(entries, x), Append(entryHashes, r.hash))
  BY <1>2 DEF Items, ItemsOf
<1>7. Items = ItemsOf(entries, entryHashes)
  BY DEF Items, ItemsOf
<1>8. Items' = Append(Items, [id |-> d, val |-> r.val])
  <2>1. ItemsOf(Append(entries, x), Append(entryHashes, r.hash)) =
          Append(ItemsOf(entries, entryHashes), [id |-> <<x.key, r.hash>>, val |-> x.val])
    BY <1>1, <1>3, ItemsAppend
  <2>. QED  BY <2>1, <1>3, <1>4, <1>6, <1>7
<1>9. Abstract!PositionsOf(d) = {}
  <2>1. /\ DOMAIN Items = 1 .. Len(entries)
        /\ \A e \in 1 .. Len(entries) :
             Items[e] = [id |-> <<entries[e].key, entryHashes[e]>>, val |-> entries[e].val]
    BY <1>1, <1>7, ItemsShape
  <2>2. ASSUME NEW e \in 1 .. Len(entries) PROVE Items[e].id # d
    <3>1. PICK c : c = <<entries[e].key, entryHashes[e]>>
      OBVIOUS
    <3>2. c # d
      <4>1. c[1] = entries[e].key /\ c[2] = entryHashes[e] /\ d[1] = r.key /\ d[2] = r.hash
        BY <3>1, <1>4
      <4>. QED  BY <4>1
    <3>3. Items[e] = [id |-> c, val |-> entries[e].val]
      BY <2>1, <3>1
    <3>. QED  BY <3>2, <3>3
  <2>. QED  BY <2>1, <2>2 DEF Abstract!PositionsOf
<1>10. Abstract!Put(d, r.val)
  BY <1>8, <1>9 DEF Abstract!Put
<1>. QED  BY <1>3, <1>5, <1>10 DEF Abstract!MapNext

(* Overwriting the value of a stored key is the ordered map's update. *)
LEMMA UpdateRefines ==
  ASSUME TypeOK, NEW i \in 1 .. Len(entries), NEW v \in Vals,
         entries' = [entries EXCEPT ![i].val = v], entryHashes' = entryHashes
  PROVE  Abstract!MapNext
<1>1. /\ entries \in Seq(Entry) /\ entryHashes \in Seq(Hashes \cup {NoHash})
      /\ Len(entryHashes) = Len(entries)
  BY DEF TypeOK
<1>2. PICK d : d = <<entries[i].key, entryHashes[i]>>
  OBVIOUS
<1>3. d \in Keys \X (Hashes \cup {NoHash})
  <2>1. entries[i] \in Entry /\ entryHashes[i] \in Hashes \cup {NoHash}
    BY <1>1
  <2>. QED  BY <1>2, <2>1 DEF Entry
<1>4. Items = ItemsOf(entries, entryHashes)
  BY DEF Items, ItemsOf
<1>5. /\ DOMAIN Items = 1 .. Len(entries) /\ DOMAIN entries = 1 .. Len(entries)
      /\ \A e \in 1 .. Len(entries) :
           Items[e] = [id |-> <<entries[e].key, entryHashes[e]>>, val |-> entries[e].val]
  BY <1>1, <1>4, ItemsShape
<1>6. Items' = [Items EXCEPT ![i].val = v]
  <2>1. entries'[i] = [entries[i] EXCEPT !.val = v] /\ DOMAIN entries' = 1 .. Len(entries)
        /\ \A e \in 1 .. Len(entries) : e # i => entries'[e] = entries[e]
    BY <1>5
  <2>2. entries'[i].key = entries[i].key /\ entries'[i].val = v
    <3>1. entries[i] \in Entry
      BY <1>1
    <3>. QED  BY <2>1, <3>1 DEF Entry
  <2>3. Items' = [e \in 1 .. Len(entries) |->
                    [id |-> <<entries'[e].key, entryHashes[e]>>, val |-> entries'[e].val]]
    BY <2>1 DEF Items
  <2>4. [Items EXCEPT ![i].val = v] =
          [e \in 1 .. Len(entries) |-> IF e = i THEN [Items[i] EXCEPT !.val = v] ELSE Items[e]]
    BY <1>5
  <2>5. PICK w : w = entries[i].val
    OBVIOUS
  <2>6. Items[i] = [id |-> d, val |-> w]
    BY <1>2, <1>5, <2>5
  <2>7. [[id |-> d, val |-> w] EXCEPT !.val = v] = [id |-> d, val |-> v]
    OBVIOUS
  <2>8. ASSUME NEW e \in 1 .. Len(entries)
        PROVE  [id |-> <<entries'[e].key, entryHashes[e]>>, val |-> entries'[e].val] =
               IF e = i THEN [Items[i] EXCEPT !.val = v] ELSE Items[e]
    <3>1. CASE e = i
      <4>1. [id |-> <<entries'[e].key, entryHashes[e]>>, val |-> entries'[e].val] = [id |-> d, val |-> v]
        BY <3>1, <1>2, <2>2
      <4>. QED  BY <3>1, <4>1, <2>6, <2>7
    <3>2. CASE e # i
      BY <3>2, <1>5, <2>1
    <3>. QED  BY <3>1, <3>2
  <2>. QED  BY ONLY <2>3, <2>4, <2>8
<1>7. i \in Abstract!PositionsOf(d)
  <2>1. /\ DOMAIN Items = 1 .. Len(entries)
        /\ Items[i] = [id |-> <<entries[i].key, entryHashes[i]>>, val |-> entries[i].val]
    BY <1>1, <1>4, ItemsShape
  <2>2. Items[i] = [id |-> d, val |-> entries[i].val]
    BY <2>1, <1>2
  <2>3. Items[i].id = d
    BY <2>2
  <2>. QED  BY <2>1, <2>3 DEF Abstract!PositionsOf
<1>8. Abstract!Put(d, v)
  BY <1>6, <1>7 DEF Abstract!Put
<1>. QED  BY <1>3, <1>8 DEF Abstract!MapNext

(* Removing the entry at an index is the ordered map's deletion. *)
LEMMA DeleteRefines ==
  ASSUME TypeOK, NEW i \in 1 .. Len(entries),
         entries' = RemoveAt(entries, i), entryHashes' = RemoveAt(entryHashes, i)
  PROVE  Abstract!MapNext
<1>1. /\ entries \in Seq(Entry) /\ entryHashes \in Seq(Hashes \cup {NoHash})
      /\ Len(entryHashes) = Len(entries)
  BY DEF TypeOK
<1>2. Items' = ItemsOf(RemoveAt(entries, i), RemoveAt(entryHashes, i))
  BY DEF Items, ItemsOf
<1>3. Items = ItemsOf(entries, entryHashes)
  BY DEF Items, ItemsOf
<1>4. Items' = RemoveAt(Items, i)
  <2>1. ItemsOf(RemoveAt(entries, i), RemoveAt(entryHashes, i)) =
          RemoveAt(ItemsOf(entries, entryHashes), i)
    BY <1>1, ItemsRemove
  <2>. QED  BY <2>1, <1>2, <1>3
<1>5. i \in DOMAIN Items
  BY <1>1, <1>3, ItemsShape
<1>. QED  BY <1>4, <1>5 DEF Abstract!MapNext, Abstract!Delete, Abstract!RemoveAt, RemoveAt

(* Clearing the backend is a step of the ordered map. *)
LEMMA ResetRefines == Reset => Abstract!MapNext
<1>. SUFFICES ASSUME Reset PROVE Abstract!MapNext
  OBVIOUS
<1>1. entries' = <<>> /\ entryHashes' = <<>>
  BY DEF Reset
<1>2. Items' = <<>>
  BY <1>1 DEF Items
<1>. QED  BY <1>2 DEF Abstract!MapNext, Abstract!MapClear

(* A step that leaves the entries alone leaves the ordered map alone. *)
LEMMA StutterRefines ==
  ASSUME entries' = entries, entryHashes' = entryHashes
  PROVE  UNCHANGED Items
BY DEF Items

(* Removing a found entry is the ordered map's deletion, or its clear. *)
LEMMA RemoveRefines ==
  ASSUME TypeOK, NEW i \in 1 .. Len(entries), RemoveEntry(i)
  PROVE  Abstract!MapNext
<1>1. CASE Reset
  BY <1>1, ResetRefines
<1>2. CASE entries' = RemoveAt(entries, i) /\ entryHashes' = RemoveAt(entryHashes, i)
  BY <1>2, DeleteRefines
<1>. QED  BY <1>1, <1>2 DEF RemoveEntry

(* Each step of an insert is an append, an update or a stutter. *)
LEMMA InsertStepRefines ==
  ASSUME IInv, NEW r \in req,
         InsertUpdate(r) \/ InsertAppend(r) \/ InsertGrow(r) \/ InsertPlace(r)
  PROVE  Abstract!MapNext \/ UNCHANGED Items
<1>0. TypeOK /\ ControlInv /\ TrackedInv /\ ReachableInv /\ DistinctInv
  BY DEF IInv
<1>1. r \in Request /\ r.key \in Keys /\ r.val \in Vals /\ r.hash \in Hashes
  BY <1>0 DEF TypeOK, Request
<1>2. ASSUME pc = "probe"
      PROVE  Found(r.key, r.hash) =
               {e \in 1 .. Len(entries) : entries[e].key = r.key /\ entryHashes[e] = r.hash}
  <2>1. size # 0
    BY <1>0, <1>2 DEF ControlInv
  <2>. QED  BY <1>0, <1>1, <1>2, <2>1, FoundIsStored
<1>3. CASE InsertUpdate(r)
  <2>1. PICK e \in Found(r.key, r.hash) :
          /\ entries' = [entries EXCEPT ![e].val = r.val]
          /\ entryHashes' = [entryHashes EXCEPT ![e] = r.hash]
    BY <1>3 DEF InsertUpdate
  <2>2. e \in 1 .. Len(entries) /\ entryHashes[e] = r.hash
    BY <2>1, <1>2, <1>3 DEF InsertUpdate
  <2>3. entryHashes' = entryHashes
    <3>1. entryHashes \in Seq(Hashes \cup {NoHash}) /\ DOMAIN entryHashes = 1 .. Len(entries)
      BY <1>0 DEF TypeOK
    <3>. QED  BY <3>1, <2>1, <2>2
  <2>. QED  BY <1>0, <1>1, <2>1, <2>2, <2>3, UpdateRefines
<1>4. CASE InsertAppend(r)
  <2>1. Found(r.key, r.hash) = {} /\ pc = "probe" /\ Place(r, VacantSlot(r.hash))
    BY <1>4 DEF InsertAppend
  <2>2. \A e \in 1 .. Len(entries) : ~(entries[e].key = r.key /\ entryHashes[e] = r.hash)
    BY <2>1, <1>2
  <2>3. /\ entries' = Append(entries, [key |-> r.key, val |-> r.val])
        /\ entryHashes' = Append(entryHashes, r.hash)
    BY <2>1 DEF Place
  <2>. QED  BY <1>0, <1>1, <2>2, <2>3, AppendRefines
<1>5. CASE InsertGrow(r)
  BY <1>5, StutterRefines DEF InsertGrow
<1>6. CASE InsertPlace(r)
  <2>1. pc = "place" /\ Place(r, VacantSlot(r.hash))
    BY <1>6 DEF InsertPlace
  <2>2. \A e \in 1 .. Len(entries) : ~(entries[e].key = r.key /\ entryHashes[e] = r.hash)
    BY <1>0, <2>1 DEF DistinctInv, Growing
  <2>3. /\ entries' = Append(entries, [key |-> r.key, val |-> r.val])
        /\ entryHashes' = Append(entryHashes, r.hash)
    BY <2>1 DEF Place
  <2>. QED  BY <1>0, <1>1, <2>2, <2>3, AppendRefines
<1>. QED  BY <1>3, <1>4, <1>5, <1>6

(* A rebuild keeps every hash: an entry with a hash is placed under it. *)
LEMMA RebuildRefines ==
  ASSUME IInv, RebuildEntry
  PROVE  UNCHANGED Items
<1>1. /\ cursor \in 1 .. Len(entries) /\ entryHashes[cursor] \in Hashes
      /\ entryHashes \in Seq(Hashes \cup {NoHash}) /\ DOMAIN entryHashes = 1 .. Len(entries)
  BY DEF IInv, ControlInv, TypeOK, RebuildEntry
<1>2. RebuildHash(cursor) = entryHashes[cursor]
  BY <1>1, HashAssumption DEF RebuildHash, NoHash
<1>3. entryHashes' = entryHashes /\ entries' = entries
  BY <1>1, <1>2 DEF RebuildEntry
<1>. QED  BY <1>3, StutterRefines

(* Every step of the backend is a step of the ordered map or a stutter. *)
LEMMA NextRefines ==
  ASSUME AllHashable, IInv, [Next]_vars
  PROVE  Abstract!MapNext \/ UNCHANGED Items
<1>. DEFINE Goal == Abstract!MapNext \/ UNCHANGED Items
<1>0. DOMAIN entries = 1 .. Len(entries) /\ TypeOK
  BY DEF IInv, TypeOK
<1>1. ASSUME NEW k \in Keys, NEW v \in Vals, InsertUnhashable(k, v)
      PROVE  Goal
  BY <1>1 DEF InsertUnhashable, AllHashable
<1>2. ASSUME NEW k \in Keys, NEW v \in Vals, NEW h \in HashesOf(k), InsertWithHash(k, v, h)
      PROVE  Goal
  BY <1>2, StutterRefines DEF InsertWithHash, table
<1>3. ASSUME NEW i \in DOMAIN entries, NEW v \in Vals, SetValueAt(i, v)
      PROVE  Goal
  BY <1>0, <1>3, UpdateRefines DEF SetValueAt, table
<1>4. ASSUME NEW i \in DOMAIN entries, RemoveEntry(i)
      PROVE  Goal
  BY <1>0, <1>4, RemoveRefines
<1>5. ASSUME NEW k \in Keys, NEW h \in HashesOf(k), pc = "ready"
      PROVE  FindIndexWithHash(k, h) \subseteq DOMAIN entries
  BY <1>5, FindIsEntry
<1>6. ASSUME NEW k \in Keys, RemoveKey(k)
      PROVE  Goal
  <2>1. pc = "ready" /\ LookupHash[k] \in HashesOf(k) /\ LookupHash[k] # NoHash
    BY <1>6 DEF RemoveKey, HashesOf, AllHashable
  <2>2. FindIndex(k) \subseteq DOMAIN entries
    BY <2>1, <1>5 DEF FindIndex
  <2>. QED  BY <1>4, <1>6, <2>2 DEF RemoveKey
<1>7. ASSUME NEW k \in Keys, NEW h \in HashesOf(k), RemoveKeyWithHash(k, h)
      PROVE  Goal
  BY <1>4, <1>5, <1>7 DEF RemoveKeyWithHash
<1>8. CASE Clear
  BY <1>8, ResetRefines DEF Clear
<1>9. CASE RetainStart \/ RetainKeep
  BY <1>9, StutterRefines DEF RetainStart, RetainKeep, table
<1>10. CASE RetainDrop
  <2>1. cursor \in 1 .. Len(entries)
    BY <1>10 DEF IInv, ControlInv, TypeOK, RetainDrop
  <2>. QED  BY <1>0, <1>10, <2>1, DeleteRefines DEF RetainDrop
<1>11. CASE RetainDone
  <2>1. Reset \/ (entries' = entries /\ entryHashes' = entryHashes)
    BY <1>11 DEF RetainDone
  <2>. QED  BY <2>1, ResetRefines, StutterRefines
<1>12. ASSUME NEW r \in req, InsertUpdate(r) \/ InsertAppend(r) \/ InsertGrow(r) \/ InsertPlace(r)
       PROVE  Goal
  BY <1>12, InsertStepRefines
<1>13. CASE RebuildEntry
  BY <1>13, RebuildRefines
<1>14. CASE RebuildDone \/ UNCHANGED vars
  BY <1>14, StutterRefines DEF RebuildDone, vars, table
<1>15. CASE Call
  BY <1>15, <1>1, <1>2, <1>3, <1>4, <1>6, <1>7, <1>8, <1>9 DEF Call
<1>16. CASE Step
  BY <1>16, <1>9, <1>10, <1>11, <1>12, <1>13, <1>14 DEF Step
<1>. QED  BY <1>14, <1>15, <1>16 DEF Next

(* The backend is an insertion-ordered map: every step of every method is a *)
(* step of OrderedMap or leaves its items alone.                            *)
THEOREM Refinement ==
  ASSUME AllHashable
  PROVE  Spec => ImplementsOrderedMap
<1>1. Init => Abstract!MapInit
  BY DEF Init, Abstract!MapInit, Items
<1>2. IInv /\ [Next]_vars => [Abstract!MapNext]_Items
  BY NextRefines
<1>. QED  BY <1>1, <1>2, Invariance, PTL DEF Spec, ImplementsOrderedMap, Abstract!MapSpec
====
