---- MODULE SetStorage ----
(***************************************************************************)
(* The storage of set and frozenset objects (SetObject and IndexBucket in  *)
(* src/runtime/mod.rs): the values in a vector, and for each hash a bucket *)
(* with the positions of the values that have it.  A removal moves the     *)
(* last value into the gap.                                                *)
(*                                                                         *)
(* Two values are the same here when value_key_equal says so.  Positions   *)
(* are 1-based.  A bucket is a sequence of positions; the code drops an    *)
(* empty bucket at once, so an absent bucket is the empty sequence.  A     *)
(* method runs under one exclusive borrow; the two loops of retain are     *)
(* nevertheless unrolled, one value per step, with pc as program counter.  *)
(***************************************************************************)
EXTENDS Naturals, Sequences, SequencesExt

CONSTANTS Values,    \* what a set can hold
          Hashes,    \* the hashes
          NoHash,    \* the answer of value_lookup_hash for some values
          HashOf     \* value_lookup_hash

ASSUME SetHashAssumption ==
  /\ NoHash \notin Hashes
  /\ HashOf \in [Values -> Hashes \cup {NoHash}]

VARIABLES values,    \* SetObject::values
          index,     \* SetObject::index
          pc,        \* "ready", or the loop that runs
          cursor     \* the position that loop has reached

vars == <<values, index, pc, cursor>>

Init ==
  /\ values = <<>>
  /\ index = [h \in Hashes |-> <<>>]
  /\ pc = "ready"
  /\ cursor = 0

-----------------------------------------------------------------------------
(* Vectors and buckets *)

\* A slip: the gap closes twice.
SwapRemoveTwice(s, i) == [j \in 1 .. (Len(s) - 2) |-> IF j = i THEN s[Len(s)] ELSE s[j]]

\* Vec::swap_remove: the last element takes the place of the removed one.
SwapRemove(s, i) == [j \in 1 .. (Len(s) - 1) |-> IF j = i THEN s[Len(s)] ELSE s[j]]

PositionsOf(s, x) == {p \in DOMAIN s : s[p] = x}

FirstOf(S) == CHOOSE p \in S : \A q \in S : p <= q

\* IndexBucket::remove_index, and the normalisation that follows it.
RemoveIndex(b, i) ==
  IF PositionsOf(b, i) = {} THEN b ELSE SwapRemove(b, FirstOf(PositionsOf(b, i)))

\* IndexBucket::replace_index.
ReplaceIndex(b, old, new) ==
  IF PositionsOf(b, old) = {} THEN b ELSE [b EXCEPT ![FirstOf(PositionsOf(b, old))] = new]

\* values[p] is compared with v; a position beyond the vector would panic.
Holds(p, v) == p \in DOMAIN values /\ values[p] = v

\* The position of v, 0 when it is absent.  A value without a bucket is
\* looked for in the whole vector, even if it has a hash.
Bucketed(v) == HashOf[v] # NoHash /\ index[HashOf[v]] # <<>>

CandidatesOf(v) ==
  IF Bucketed(v)
    THEN {p \in Range(index[HashOf[v]]) : Holds(p, v)}
    ELSE PositionsOf(values, v)

FindIndex(v) == IF CandidatesOf(v) = {} THEN 0 ELSE FirstOf(CandidatesOf(v))

\* contains: unlike find_index it takes the absence of a bucket for an answer.
ContainsValue(v) ==
  IF HashOf[v] # NoHash
    THEN \E p \in Range(index[HashOf[v]]) : Holds(p, v)
    ELSE v \in Range(values)

-----------------------------------------------------------------------------
(* Methods *)

Ready == pc = "ready"

Pushed(ix, h, i) == IF h = NoHash THEN ix ELSE [ix EXCEPT ![h] = Append(@, i)]

Insert(v) ==
  /\ Ready
  /\ IF FindIndex(v) # 0
       THEN UNCHANGED <<values, index>>
       ELSE /\ values' = Append(values, v)
            /\ index' = Pushed(index, HashOf[v], Len(values) + 1)
  /\ UNCHANGED <<pc, cursor>>

\* The removed value leaves its bucket, then the value that moved into the
\* gap gets its new position.
Unindexed(ix, h, i) == IF h = NoHash THEN ix ELSE [ix EXCEPT ![h] = RemoveIndex(@, i)]

\* A slip: the moved value keeps its old position.
Unmoved(ix, i, last) == ix

Moved(ix, i, last) ==
  IF i = last \/ HashOf[values[last]] = NoHash
    THEN ix
    ELSE [ix EXCEPT ![HashOf[values[last]]] = ReplaceIndex(@, last, i)]

RemoveIt(i) ==
  /\ values' = SwapRemove(values, i)
  /\ index' = Moved(Unindexed(index, HashOf[values[i]], i), i, Len(values))

RemoveAtIndex(i) ==
  /\ Ready
  /\ RemoveIt(i)
  /\ UNCHANGED <<pc, cursor>>

RemoveValue(v) ==
  /\ Ready
  /\ IF FindIndex(v) = 0 THEN UNCHANGED <<values, index>> ELSE RemoveIt(FindIndex(v))
  /\ UNCHANGED <<pc, cursor>>

Clear ==
  /\ Ready
  /\ values' = <<>>
  /\ index' = [h \in Hashes |-> <<>>]
  /\ UNCHANGED <<pc, cursor>>

\* retain: the vector is filtered, then the index is rebuilt from nothing.
RetainStart ==
  /\ Ready
  /\ pc' = "retain" /\ cursor' = 1
  /\ UNCHANGED <<values, index>>

RetainKeep ==
  /\ pc = "retain" /\ cursor <= Len(values)
  /\ cursor' = cursor + 1
  /\ UNCHANGED <<values, index, pc>>

RetainDrop ==
  /\ pc = "retain" /\ cursor <= Len(values)
  /\ values' = RemoveAt(values, cursor)
  /\ UNCHANGED <<index, pc, cursor>>

RebuildStart ==
  /\ pc = "retain" /\ cursor > Len(values)
  /\ index' = [h \in Hashes |-> <<>>]
  /\ pc' = "rebuild" /\ cursor' = 1
  /\ UNCHANGED values

RebuildValue ==
  /\ pc = "rebuild" /\ cursor <= Len(values)
  /\ index' = Pushed(index, HashOf[values[cursor]], cursor)
  /\ cursor' = cursor + 1
  /\ UNCHANGED <<values, pc>>

RebuildDone ==
  /\ pc = "rebuild" /\ cursor > Len(values)
  /\ pc' = "ready" /\ cursor' = 0
  /\ UNCHANGED <<values, index>>

Next ==
  \/ \E v \in Values : Insert(v) \/ RemoveValue(v)
  \/ \E i \in DOMAIN values : RemoveAtIndex(i)
  \/ Clear
  \/ RetainStart \/ RetainKeep \/ RetainDrop
  \/ RebuildStart \/ RebuildValue \/ RebuildDone

Spec == Init /\ [][Next]_vars

-----------------------------------------------------------------------------
(* Properties *)

\* The type of every variable.
TypeOK ==
  /\ values \in Seq(Values)
  /\ index \in [Hashes -> Seq(Nat \ {0})]
  /\ pc \in {"ready", "retain", "rebuild"}
  /\ cursor \in Nat

\* No value is stored twice: add() of a member changes nothing, whatever
\* removals have moved it to another position.
NoDuplicates ==
  \A i, j \in DOMAIN values : values[i] = values[j] => i = j

\* Between calls the bucket of a hash lists the positions of the values with
\* that hash, each once: swap_remove and replace_index keep them in step.
IndexMatchesValues ==
  Ready =>
    \A h \in Hashes :
      /\ Range(index[h]) = {i \in DOMAIN values : HashOf[values[i]] = h}
      /\ \A p, q \in DOMAIN index[h] : index[h][p] = index[h][q] => p = q

\* Between calls both searches answer exactly for the members, although
\* find_index scans the vector where contains gives up.
SearchesAgree ==
  Ready => \A v \in Values :
             /\ ContainsValue(v) <=> v \in Range(values)
             /\ FindIndex(v) # 0 <=> v \in Range(values)

Abstract == INSTANCE FiniteSetSpec WITH members <- Range(values)

\* The vector and its buckets implement a set: no operation loses or adds a
\* member other than the one it was given.
ImplementsSet == Abstract!SetSpec
====
