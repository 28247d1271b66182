---- MODULE DictBackend ----
(***************************************************************************)
(* DictBackend (runtime/dict_backend.rs): dense entries in insertion order *)
(* and an open-addressing slot table that maps hashes to entry indices.    *)
(*                                                                         *)
(* Every method runs under one &mut borrow.  The two loops with a cursor,  *)
(* the rebuild of the slot table (resize_slots) and the filter of retain,  *)
(* are unrolled into one step per entry: pc says where the running method  *)
(* is, and what is promised to callers is stated at pc = "ready".          *)
(*                                                                         *)
(* Entry indices are 1-based here and 0-based in the code; slot indices    *)
(* are the code's.  Key equality (value_key_equal) is equality of Keys.    *)
(***************************************************************************)
EXTENDS Integers, Sequences, FiniteSets, FiniteSetsExt, SequencesExt

CONSTANTS
  Keys, Vals,          \* dict keys and values
  Hashes,              \* the 64-bit hashes in use
  LookupHash,          \* value_lookup_hash: [Keys -> Hashes \cup {NoHash}]
  CallerHashes,        \* hashes that callers of the _with_hash methods pass
  TableSizes,          \* lengths of the slot table, MIN_TABLE_SIZE doubled
  MinTableSize,        \* MIN_TABLE_SIZE
  MaxPerturbRounds,    \* MAX_PERTURB_ROUNDS
  Probe                \* Probe[h][n][i]: the slot of hash h in a table of n, round i

NoHash == -1
NoSlot == -1

Rounds(n) == 0 .. (n + MaxPerturbRounds - 1)

ASSUME SizeAssumption ==
  /\ MaxPerturbRounds \in Nat
  /\ MinTableSize \in Nat \ {0, 1}
  /\ MinTableSize \in TableSizes
  /\ TableSizes \subseteq Nat
  /\ \A n \in TableSizes : n >= MinTableSize
  /\ \A n \in TableSizes : n > MinTableSize => n \div 2 \in TableSizes

ASSUME HashAssumption ==
  /\ Hashes \subseteq Nat
  /\ LookupHash \in [Keys -> Hashes \cup {NoHash}]
  /\ CallerHashes \in [Keys -> SUBSET Hashes]

\* Each probe path stays in the table and reaches every slot of it before the
\* loop bound slots.len() + MAX_PERTURB_ROUNDS cuts it off.
ASSUME ProbeAssumption ==
  \A h \in Hashes, n \in TableSizes :
    /\ \A i \in 0 .. (n + MaxPerturbRounds) : Probe[h][n][i] \in 0 .. (n - 1)
    /\ \A s \in 0 .. (n - 1) : \E i \in Rounds(n) : Probe[h][n][i] = s

VARIABLES
  entries,             \* Vec<(Value, Value)>
  entryHashes,         \* Vec<Option<u64>>
  entrySlots,          \* Vec<usize>, NoSlot for an entry without a slot
  size, slots,         \* Vec<DictSlot>: its length and contents
  used, filled,        \* counters
  pc,                  \* where the running method is
  after,               \* where it goes on after a rebuild
  cursor,              \* next entry of the running loop
  req                  \* the insertion in progress: {} or one request

table == <<entryHashes, entrySlots, size, slots, used, filled>>
control == <<pc, after, cursor, req>>
vars == <<entries, table, control>>

Entry == [key : Keys, val : Vals]
Request == [key : Keys, val : Vals, hash : Hashes]

Empty == [kind |-> "empty", hash |-> NoHash, entry |-> 0]
Dummy == [kind |-> "dummy", hash |-> NoHash, entry |-> 0]
Occupied(h, e) == [kind |-> "occupied", hash |-> h, entry |-> e]

Init ==
  /\ entries = <<>>
  /\ entryHashes = <<>> /\ entrySlots = <<>>
  /\ size = 0 /\ slots = [s \in {} |-> Empty]
  /\ used = 0 /\ filled = 0
  /\ pc = "ready" /\ after = "ready" /\ cursor = 0 /\ req = {}

-----------------------------------------------------------------------------
(* Probing *)

SlotAt(h, i) == slots[Probe[h][size][i]]

\* lookup_vacant_slot, and the Vacant answer of lookup_slot: the first slot on
\* the path that is not occupied (a dummy seen before the first empty slot is
\* preferred to it), or wherever the path stands when the rounds run out.
FreeRounds(h) == {i \in Rounds(size) : SlotAt(h, i).kind # "occupied"}

VacantSlot(h) ==
  Probe[h][size][IF FreeRounds(h) = {} THEN size + MaxPerturbRounds
                                       ELSE Min(FreeRounds(h))]

\* No empty slot ended the probe of h before round i.
OnPath(h, i) == \A j \in 0 .. (i - 1) : SlotAt(h, j).kind # "empty"

\* lookup_slot stops with Found at the first of these rounds: the slot holds the
\* key under the hash, and no empty slot ended the probe before.
Holds(k, h, i) ==
  /\ SlotAt(h, i).kind = "occupied"
  /\ SlotAt(h, i).hash = h
  /\ entries[SlotAt(h, i).entry].key = k

Hits(k, h) ==
  {i \in Rounds(size) : Holds(k, h, i) /\ OnPath(h, i)}

\* candidate_indices_for_hash: the entries a caller compares with user-level
\* equality, every one that the path of h meets under h before an empty slot.
Candidates(h) ==
  IF size = 0
    THEN {e \in DOMAIN entries : LookupHash[entries[e].key] = h}
    ELSE {SlotAt(h, i).entry : i \in {i \in Rounds(size) :
            /\ SlotAt(h, i).kind = "occupied" /\ SlotAt(h, i).hash = h
            /\ OnPath(h, i)}}

\* lookup_slot's Found answer, {} for Vacant.
Found(k, h) ==
  IF Hits(k, h) = {} THEN {} ELSE {SlotAt(h, Min(Hits(k, h))).entry}

Linear(k) ==
  LET same == {i \in DOMAIN entries : entries[i].key = k}
  IN  IF same = {} THEN {} ELSE {Min(same)}

FindIndexWithHash(k, h) == IF size > 0 THEN Found(k, h) ELSE Linear(k)

FindIndex(k) ==
  IF LookupHash[k] = NoHash THEN Linear(k) ELSE FindIndexWithHash(k, LookupHash[k])

-----------------------------------------------------------------------------
(* Rebuilding the slot table: resize_slots *)

\* next_power_of_two(target.max(MIN_TABLE_SIZE)), among the sizes modelled
TableSizeFor(target) == Min({n \in TableSizes : n >= target})

\* A slip: the old slots of the entries survive the resize.
StartRebuildKeepingSlots(n, count, next) ==
  /\ size' = n
  /\ slots' = [s \in 0 .. (n - 1) |-> Empty]
  /\ filled' = 0
  /\ used' = count
  /\ cursor' = 1
  /\ pc' = "rebuild"
  /\ after' = next
  /\ UNCHANGED entrySlots

\* The assignments before the loop, for a table of n slots over count entries.
StartRebuild(n, count, next) ==
  /\ size' = n
  /\ slots' = [s \in 0 .. (n - 1) |-> Empty]
  /\ entrySlots' = [i \in 1 .. count |-> NoSlot]
  /\ filled' = 0
  /\ used' = count
  /\ cursor' = 1
  /\ pc' = "rebuild"
  /\ after' = next

\* A slip: the rebuild hashes the key anew and forgets the caller's hash.
RebuildFreshHash(e) == LookupHash[entries[e].key]

RebuildHash(e) ==
  IF entryHashes[e] = NoHash THEN LookupHash[entries[e].key] ELSE entryHashes[e]

RebuildEntry ==
  /\ pc = "rebuild" /\ cursor <= Len(entries)
  /\ LET h == RebuildHash(cursor) s == VacantSlot(h) IN
       /\ entryHashes' = [entryHashes EXCEPT ![cursor] = h]
       /\ IF h = NoHash
            THEN UNCHANGED <<slots, entrySlots, filled>>
            ELSE /\ slots' = [slots EXCEPT ![s] = Occupied(h, cursor)]
                 /\ entrySlots' = [entrySlots EXCEPT ![cursor] = s]
                 /\ filled' = filled + 1
  /\ cursor' = cursor + 1
  /\ UNCHANGED <<entries, size, used, pc, after, req>>

RebuildDone ==
  /\ pc = "rebuild" /\ cursor > Len(entries)
  /\ pc' = after /\ after' = "ready" /\ cursor' = 0
  /\ UNCHANGED <<entries, table, req>>

-----------------------------------------------------------------------------
(* Insertion *)

HashesOf(k) == CallerHashes[k] \cup ({LookupHash[k]} \ {NoHash})

UsableSlots == (size * 2) \div 3

\* insert for a key without a hash: a linear search, and an entry without slot.
InsertUnhashable(k, v) ==
  /\ pc = "ready"
  /\ LookupHash[k] = NoHash
  /\ IF Linear(k) # {}
       THEN /\ \E e \in Linear(k) : entries' = [entries EXCEPT ![e].val = v]
            /\ UNCHANGED table
       ELSE /\ entries' = Append(entries, [key |-> k, val |-> v])
            /\ entryHashes' = Append(entryHashes, NoHash)
            /\ entrySlots' = Append(entrySlots, NoSlot)
            /\ used' = Len(entries) + 1
            /\ UNCHANGED <<size, slots, filled>>
  /\ UNCHANGED control

\* insert and insert_with_hash up to the first probe.
InsertWithHash(k, v, h) ==
  /\ pc = "ready"
  /\ req' = {[key |-> k, val |-> v, hash |-> h]}
  /\ IF size = 0
       THEN /\ StartRebuild(MinTableSize, Len(entries), "probe")
            /\ UNCHANGED <<entries, entryHashes>>
       ELSE /\ pc' = "probe"
            /\ UNCHANGED <<entries, table, after, cursor>>

\* The key is there: its value is replaced where it stands.
InsertUpdate(r) ==
  /\ pc = "probe"
  /\ \E e \in Found(r.key, r.hash) :
       /\ entries' = [entries EXCEPT ![e].val = r.val]
       /\ entryHashes' = [entryHashes EXCEPT ![e] = r.hash]
  /\ pc' = "ready" /\ req' = {}
  /\ UNCHANGED <<entrySlots, size, slots, used, filled, after, cursor>>

\* A slip: reusing a tombstone is counted as filling a slot.
FilledAnyway(s) == filled + 1

FilledAfter(s) == IF slots[s].kind = "empty" THEN filled + 1 ELSE filled

Place(r, s) ==
  /\ entries' = Append(entries, [key |-> r.key, val |-> r.val])
  /\ entryHashes' = Append(entryHashes, r.hash)
  /\ entrySlots' = Append(entrySlots, s)
  /\ used' = used + 1
  /\ filled' = FilledAfter(s)
  /\ slots' = [slots EXCEPT ![s] = Occupied(r.hash, Len(entries) + 1)]
  /\ pc' = "ready" /\ req' = {}
  /\ UNCHANGED <<size, after, cursor>>

\* The key is new and the table has room for one more slot.
InsertAppend(r) ==
  /\ pc = "probe"
  /\ Found(r.key, r.hash) = {}
  /\ filled + 1 <= UsableSlots
  /\ Place(r, VacantSlot(r.hash))

\* A slip: the table is rebuilt at its old size and the probe retried.
InsertRetry(r) ==
  /\ pc = "probe"
  /\ Found(r.key, r.hash) = {}
  /\ filled + 1 > UsableSlots
  /\ StartRebuild(size, Len(entries), "probe")
  /\ UNCHANGED <<entries, entryHashes, req>>

\* The key is new and the table must double first (TableSizes bounds growth).
InsertGrow(r) ==
  /\ pc = "probe"
  /\ Found(r.key, r.hash) = {}
  /\ filled + 1 > UsableSlots
  /\ size * 2 \in TableSizes
  /\ StartRebuild(size * 2, Len(entries), "place")
  /\ UNCHANGED <<entries, entryHashes, req>>

InsertPlace(r) == pc = "place" /\ Place(r, VacantSlot(r.hash))

\* set_value_at: the caller found the index with user-level equality.
SetValueAt(i, v) ==
  /\ pc = "ready"
  /\ entries' = [entries EXCEPT ![i].val = v]
  /\ UNCHANGED <<table, control>>

-----------------------------------------------------------------------------
(* Removal *)

Reset ==
  /\ entries' = <<>>
  /\ entryHashes' = <<>> /\ entrySlots' = <<>>
  /\ size' = 0 /\ slots' = [s \in {} |-> Empty]
  /\ used' = 0 /\ filled' = 0
  /\ pc' = "ready" /\ after' = "ready" /\ cursor' = 0 /\ req' = {}

Clear == pc = "ready" /\ Reset

\* A slip: the slot is emptied, cutting the probe paths that cross it.
SlotsEmptied(i) ==
  LET s == entrySlots[i]
  IN  IF s \in DOMAIN slots /\ slots[s].kind = "occupied" /\ slots[s].entry = i
        THEN [slots EXCEPT ![s] = Empty] ELSE slots

\* remove_slot_for_entry
SlotsMarked(i) ==
  LET s == entrySlots[i]
  IN  IF s \in DOMAIN slots /\ slots[s].kind = "occupied" /\ slots[s].entry = i
        THEN [slots EXCEPT ![s] = Dummy] ELSE slots

\* A slip: the entry right after the removed one is passed over.
SlotsAdjustedLate(i) ==
  LET moved == {entrySlots[j] : j \in (i + 2) .. Len(entrySlots)}
  IN  [s \in DOMAIN slots |->
         LET t == SlotsMarked(i)[s]
         IN  IF s \in moved /\ t.kind = "occupied" /\ t.entry > i
               THEN [t EXCEPT !.entry = @ - 1] ELSE t]

\* adjust_slot_indices_after_remove: the slots of the entries that follow.
SlotsAdjusted(i) ==
  LET moved == {entrySlots[j] : j \in (i + 1) .. Len(entrySlots)}
  IN  [s \in DOMAIN slots |->
         LET t == SlotsMarked(i)[s]
         IN  IF s \in moved /\ t.kind = "occupied" /\ t.entry > i
               THEN [t EXCEPT !.entry = @ - 1] ELSE t]

SlotsAfterRemove(i) == IF entrySlots[i] = NoSlot THEN slots ELSE SlotsAdjusted(i)

\* maybe_resize_after_remove, with left entries remaining
TooManyDummies(left) == filled - left > left
Sparse(left) == size > MinTableSize /\ left * 8 <= size

RemoveEntry(i) ==
  /\ pc = "ready"
  /\ LET left == Len(entries) - 1 IN
     IF left = 0 THEN Reset ELSE
       /\ entries' = RemoveAt(entries, i)
       /\ entryHashes' = RemoveAt(entryHashes, i)
       /\ UNCHANGED req
       /\ \/ /\ TooManyDummies(left)
             /\ StartRebuild(IF size > MinTableSize THEN size ELSE MinTableSize, left, "ready")
          \/ /\ ~TooManyDummies(left) /\ Sparse(left)
             /\ StartRebuild(size \div 2, left, "ready")
          \/ /\ ~TooManyDummies(left) /\ ~Sparse(left)
             /\ entrySlots' = RemoveAt(entrySlots, i)
             /\ slots' = SlotsAfterRemove(i)
             /\ used' = left
             /\ UNCHANGED <<size, filled, pc, after, cursor>>

RemoveKey(k) == pc = "ready" /\ \E e \in FindIndex(k) : RemoveEntry(e)

RemoveKeyWithHash(k, h) ==
  pc = "ready" /\ \E e \in FindIndexWithHash(k, h) : RemoveEntry(e)

\* retain: filter the entries one by one, then rebuild_slots.
RetainStart ==
  /\ pc = "ready"
  /\ pc' = "retain" /\ cursor' = 1
  /\ UNCHANGED <<entries, table, after, req>>

RetainKeep ==
  /\ pc = "retain" /\ cursor <= Len(entries)
  /\ cursor' = cursor + 1
  /\ UNCHANGED <<entries, table, pc, after, req>>

RetainDrop ==
  /\ pc = "retain" /\ cursor <= Len(entries)
  /\ entries' = RemoveAt(entries, cursor)
  /\ entryHashes' = RemoveAt(entryHashes, cursor)
  /\ UNCHANGED <<entrySlots, size, slots, used, filled, control>>

RetainDone ==
  /\ pc = "retain" /\ cursor > Len(entries)
  /\ IF entries = <<>> THEN Reset ELSE
       /\ StartRebuild(TableSizeFor(Len(entries)), Len(entries), "ready")
       /\ UNCHANGED <<entries, entryHashes, req>>

-----------------------------------------------------------------------------
Call ==
  \/ \E k \in Keys, v \in Vals : InsertUnhashable(k, v)
  \/ \E k \in Keys, v \in Vals : \E h \in HashesOf(k) : InsertWithHash(k, v, h)
  \/ \E i \in DOMAIN entries, v \in Vals : SetValueAt(i, v)
  \/ \E i \in DOMAIN entries : RemoveEntry(i)
  \/ \E k \in Keys : RemoveKey(k)
  \/ \E k \in Keys : \E h \in HashesOf(k) : RemoveKeyWithHash(k, h)
  \/ RetainStart
  \/ Clear

Step ==
  \/ \E r \in req : InsertUpdate(r) \/ InsertAppend(r) \/ InsertGrow(r) \/ InsertPlace(r)
  \/ RebuildEntry \/ RebuildDone
  \/ RetainKeep \/ RetainDrop \/ RetainDone

Next == Call \/ Step

Spec == Init /\ [][Next]_vars

\* A started method runs to its end: the steps are the loop of one thread.
FairSpec == Spec /\ WF_vars(Step)

-----------------------------------------------------------------------------
(* Properties *)

\* Every variable holds a value of its type, at every step of every method.
TypeOK ==
  /\ entries \in Seq(Entry)
  /\ entryHashes \in Seq(Hashes \cup {NoHash})
  /\ Len(entryHashes) = Len(entries)
  /\ size \in TableSizes \cup {0}
  /\ entrySlots \in Seq(0 .. (size - 1) \cup {NoSlot})
  /\ slots \in [0 .. (size - 1) -> [kind : {"empty", "dummy", "occupied"},
                                   hash : Hashes \cup {NoHash}, entry : Nat]]
  /\ used \in Nat /\ filled \in Nat
  /\ pc \in {"ready", "probe", "place", "retain", "rebuild"}
  /\ after \in {"ready", "probe", "place"}
  /\ cursor \in Nat
  /\ req \subseteq Request

\* Between calls the table and the entries describe each other: the slot of an
\* entry is occupied by its index and hash, and an occupied slot is the slot of
\* the entry it names (remove compacts the entries and shifts the indices).
SlotsMatchEntries ==
  pc = "ready" =>
    /\ \A e \in DOMAIN entries :
         entrySlots[e] # NoSlot => slots[entrySlots[e]] = Occupied(entryHashes[e], e)
    /\ \A s \in DOMAIN slots :
         slots[s].kind = "occupied" =>
           slots[s].entry \in DOMAIN entries /\ entrySlots[slots[s].entry] = s

\* Between calls a probe finds exactly what is stored: whatever was removed,
\* reused or rebuilt along its path, a key is found under the hash it was
\* inserted with, at its entry, and under no other hash.
ProbeExact ==
  pc = "ready" /\ size > 0 =>
    \A k \in Keys, h \in Hashes :
      Found(k, h) = {e \in DOMAIN entries : entries[e].key = k /\ entryHashes[e] = h}

\* Between calls the candidates of a hash are all the entries stored under it:
\* a lookup with user-level equality never misses the entry it looks for.
CandidatesComplete ==
  pc = "ready" =>
    \A h \in Hashes : Candidates(h) = {e \in DOMAIN entries : entryHashes[e] = h}

\* Neither search misses an entry or finds another one (lookup_slot,
\* candidate_indices_for_hash).
LookupExact == ProbeExact /\ CandidatesComplete

\* filled counts the slots that are not empty and used the entries, the two
\* numbers that decide when the table grows, is cleaned of dummies and shrinks;
\* between calls tombstones never outnumber live entries.
CountersExact ==
  pc = "ready" =>
    /\ used = Len(entries)
    /\ filled = Cardinality({s \in DOMAIN slots : slots[s].kind # "empty"})
    /\ filled - used <= used

\* A call that was started returns: the rebuild and the filter loops end.
CallReturns == (pc # "ready") ~> (pc = "ready")

\* What a caller sees: the entries, each under its key and hash.
Items ==
  [i \in DOMAIN entries |->
     [id |-> <<entries[i].key, entryHashes[i]>>, val |-> entries[i].val]]

Abstract == INSTANCE OrderedMap WITH
  Ids <- Keys \X (Hashes \cup {NoHash}), items <- Items

\* Every step of the backend is a step of the ordered map or invisible in it:
\* an insertion appends or updates in place, never duplicates a key, never
\* moves or loses another, and a rebuild changes nothing a caller can see.
ImplementsOrderedMap == Abstract!MapSpec
====
