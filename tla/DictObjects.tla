---- MODULE DictObjects ----
(***************************************************************************)
(* Dict objects as a program sees them (DictObject in src/runtime/mod.rs,  *)
(* dict_*_runtime in src/vm/vm_runtime_methods.rs, the legacy functions of *)
(* src/vm/containers.rs and the dict methods): a lookup takes a snapshot   *)
(* of the candidates and then runs the program's __eq__ on one after the   *)
(* other; __eq__ and default factories may use the same dict again before  *)
(* the lookup goes on.                                                     *)
(*                                                                         *)
(* The storage is the insertion-ordered map that DictBackend implements:   *)
(* it knows a key by identity and by the hash it was stored under.  Equal  *)
(* keys (to __eq__) share a class.  Candidates of one hash come in probe   *)
(* order, which is left open here.                                         *)
(***************************************************************************)
EXTENDS Naturals, Sequences, SequencesExt

CONSTANTS Keys,         \* the key objects
          Hashes,
          Vals, NoVal,  \* values, and the absence of one
          Class,        \* Class[k]: what __eq__ compares
          RuntimeHash,  \* hash_value_runtime, which calls __hash__
          LookupHash,   \* value_lookup_hash, which knows nothing of __hash__
          MaxDepth,     \* bound on calls inside __eq__ or a factory
          MaxEntries    \* bound on the size of the dict

ASSUME KeyAssumption ==
  /\ RuntimeHash \in [Keys -> Hashes]
  /\ LookupHash \in [Keys -> Hashes]
  /\ DOMAIN Class = Keys
  /\ \A j, k \in Keys : Class[j] = Class[k] => RuntimeHash[j] = RuntimeHash[k]
  /\ MaxDepth \in Nat \ {0} /\ MaxEntries \in Nat

VARIABLES entries,      \* the backend: a sequence of [key, hash, val]
          legacy,       \* DictObject::legacy_hash_fallback
          calls,        \* the calls in progress, the innermost last
          quiet         \* no step so far asks too much: see Noted

vars == <<entries, legacy, calls, quiet>>

Init == entries = <<>> /\ legacy = FALSE /\ calls = <<>> /\ quiet = TRUE

-----------------------------------------------------------------------------
(* The storage *)

Equal(j, k) == Class[j] = Class[k]

StoredAt(s, k, h) == {i \in DOMAIN s : s[i].key = k /\ s[i].hash = h}

\* insert_with_hash: in place for the same key under the same hash.
Inserted(s, k, v, h) ==
  IF StoredAt(s, k, h) # {}
    THEN [i \in DOMAIN s |->
            IF i \in StoredAt(s, k, h) THEN [s[i] EXCEPT !.val = v] ELSE s[i]]
    ELSE Append(s, [key |-> k, hash |-> h, val |-> v])

\* A slip: the flag falls with every removal.
LegacyDropped(s) == FALSE

\* remove, remove_key, retain: the flag falls with the last entry.
LegacyAfter(s) == legacy /\ s # <<>>

Store(s, flag) == entries' = s /\ legacy' = flag

-----------------------------------------------------------------------------
(* Calls *)

\* dict_lookup_entry_runtime compares the candidates of the hash first and,
\* when the flag is up, all the other entries in order.
Snapshot(S) == {[at |-> i, key |-> entries[i].key] : i \in S}

Candidates(k) == {i \in DOMAIN entries : entries[i].hash = RuntimeHash[k]}

\* A slip: the fallback is forgotten.
NoFallback(k) == {}

Fallback(k) == IF legacy THEN Snapshot(DOMAIN entries \ Candidates(k)) ELSE {}

Call(op, k, v) ==
  [op |-> op, key |-> k, val |-> v, user |-> "eq",
   todo |-> Snapshot(Candidates(k)), rest |-> Fallback(k)]

Top == Last(calls)

Pop == calls' = Front(calls)

\* What the program may not do: change the dict while another call waits for
\* __eq__ or a factory, and insert by the lookup hash a key that has a __hash__
\* or that an object of another kind is equal to: no __eq__ is called then.
Noted(waiting) == quiet' = (quiet /\ (waiting = 0 \/ entries' = entries))

OnlyItself(k) == \A j \in Keys : Equal(j, k) => j = k

NotedInsert(waiting, k) ==
  quiet' = (quiet /\ waiting = 0 /\ LookupHash[k] = RuntimeHash[k] /\ OnlyItself(k))

Replace(c) == calls' = Append(Front(calls), c)

\* What is compared next: any candidate, then the first of the rest.
NextOf(c) ==
  IF c.todo # {} THEN c.todo
  ELSE {x \in c.rest : \A y \in c.rest : x.at <= y.at}

InUserCode == Top.user = "factory" \/ NextOf(Top) # {}

\* Python code runs at the outermost level or inside __eq__ or a factory.
CanRun == calls # <<>> => Len(calls) < MaxDepth /\ InUserCode

\* The bound: every call in progress may still add an entry.
Room == Len(entries) + Len(calls) < MaxEntries

Valued == {"set", "setdefault", "getdefault"}

Plain == {"get", "del", "move_last", "move_first"}

Begin(op, k, v) ==
  /\ CanRun
  /\ op \in {"get", "del"} \/ Room
  /\ calls' = Append(calls, Call(op, k, v))
  /\ UNCHANGED <<entries, legacy, quiet>>

\* defaultdict.__missing__ goes to the factory at once.
Missing(k, v) ==
  /\ CanRun /\ Room
  /\ calls' = Append(calls, [Call("missing", k, v) EXCEPT !.user = "factory"])
  /\ UNCHANGED <<entries, legacy, quiet>>

\* dict_set_value, dict_set_value_checked: dict(pairs) and the extension API.
LegacySet(k, v) ==
  /\ CanRun /\ Room
  /\ Store(Inserted(entries, k, v, LookupHash[k]), TRUE)
  /\ NotedInsert(Len(calls), k)
  /\ UNCHANGED calls

\* dict_remove_value: first under the lookup hash, then anywhere.
LegacyPositions(k) ==
  IF StoredAt(entries, k, LookupHash[k]) # {} THEN StoredAt(entries, k, LookupHash[k])
  ELSE {i \in DOMAIN entries : entries[i].key = k}

LegacyRemove(k) ==
  /\ CanRun
  /\ \E i \in LegacyPositions(k) :
       /\ \A j \in LegacyPositions(k) : i <= j
       /\ Store(RemoveAt(entries, i), LegacyAfter(RemoveAt(entries, i)))
  /\ Noted(Len(calls))
  /\ UNCHANGED calls

Clear ==
  /\ CanRun
  /\ Store(<<>>, FALSE)
  /\ Noted(Len(calls))
  /\ UNCHANGED calls

PopItem ==
  /\ CanRun
  /\ entries # <<>>
  /\ Store(Front(entries), LegacyAfter(Front(entries)))
  /\ Noted(Len(calls))
  /\ UNCHANGED calls

-----------------------------------------------------------------------------
(* The steps of a call *)

\* A slip: the index is trusted.
Trusted(m) == m.at \in DOMAIN entries

\* The entry is still where it was when the snapshot was taken.
StillThere(m) == m.at \in DOMAIN entries /\ entries[m.at].key = m.key

\* dict_set_value_checked_runtime after its lookup.
SetAt(m, c) ==
  IF StillThere(m) THEN [entries EXCEPT ![m.at].val = c.val]
  ELSE Inserted(entries, c.key, c.val, RuntimeHash[c.key])

\* move_to_end after the removal of entry i: the key it was given goes to
\* either end by insert, under its lookup hash; a move to the front inserts
\* all the other entries again.
MovedLast(i, k) == Inserted(RemoveAt(entries, i), k, entries[i].val, LookupHash[k])

MovedFirst(i, k) ==
  LET tail == RemoveAt(entries, i)
      into[n \in 0 .. Len(tail)] ==
        IF n = 0 THEN Inserted(<<>>, k, entries[i].val, LookupHash[k])
        ELSE Inserted(into[n - 1], tail[n].key, tail[n].val, LookupHash[tail[n].key])
  IN  into[Len(tail)]

\* The compared entry m is equal to the key of call c.
HitGet(m, c) == c.op \in {"get", "setdefault", "getdefault"} /\ UNCHANGED <<entries, legacy>>

HitSet(m, c) == c.op = "set" /\ Store(SetAt(m, c), legacy)

HitDel(m, c) ==
  /\ c.op = "del"
  /\ IF StillThere(m)
       THEN Store(RemoveAt(entries, m.at), LegacyAfter(RemoveAt(entries, m.at)))
       ELSE UNCHANGED <<entries, legacy>>

HitMove(m, c) ==
  /\ c.op \in {"move_last", "move_first"}
  /\ IF StillThere(m)
       THEN Store(IF c.op = "move_last" THEN MovedLast(m.at, c.key) ELSE MovedFirst(m.at, c.key), TRUE)
       ELSE UNCHANGED <<entries, legacy>>

CompareHit(m) ==
  /\ Equal(m.key, Top.key)
  /\ HitGet(m, Top) \/ HitSet(m, Top) \/ HitDel(m, Top) \/ HitMove(m, Top)
  /\ Noted(Len(calls) - 1)
  /\ Pop

CompareMiss(m) ==
  /\ ~Equal(m.key, Top.key)
  /\ Replace([Top EXCEPT !.todo = @ \ {m}, !.rest = @ \ {m}])
  /\ UNCHANGED <<entries, legacy, quiet>>

\* __eq__ or the factory raises: the call ends without an effect.
Raises ==
  /\ InUserCode
  /\ Pop
  /\ UNCHANGED <<entries, legacy, quiet>>

\* Nothing compared equal.
NotFoundSet ==
  /\ Top.op = "set"
  /\ Store(Inserted(entries, Top.key, Top.val, RuntimeHash[Top.key]), legacy)
  /\ Noted(Len(calls) - 1)
  /\ Pop

NotFoundRetry ==
  /\ Top.op = "setdefault"
  /\ Replace(Call("set", Top.key, Top.val))
  /\ UNCHANGED <<entries, legacy, quiet>>

NotFoundFactory ==
  /\ Top.op = "getdefault"
  /\ Replace([Top EXCEPT !.user = "factory"])
  /\ UNCHANGED <<entries, legacy, quiet>>

NotFoundError ==
  /\ Top.op \in {"get", "del", "move_last", "move_first"}
  /\ Pop
  /\ UNCHANGED <<entries, legacy, quiet>>

\* The factory returns: a subscript looks the key up again before it stores,
\* __missing__ stores at once and by the lookup hash.
FactoryReturns ==
  \/ /\ Top.op = "getdefault"
     /\ Replace(Call("set", Top.key, Top.val))
     /\ UNCHANGED <<entries, legacy, quiet>>
  \/ /\ Top.op = "missing"
     /\ Store(Inserted(entries, Top.key, Top.val, LookupHash[Top.key]), TRUE)
     /\ NotedInsert(Len(calls) - 1, Top.key)
     /\ Pop

Comparing == calls # <<>> /\ Top.user = "eq"

Step ==
  \/ /\ Comparing
     /\ \E m \in NextOf(Top) : CompareHit(m) \/ CompareMiss(m)
  \/ /\ Comparing /\ NextOf(Top) = {}
     /\ NotFoundSet \/ NotFoundRetry \/ NotFoundFactory \/ NotFoundError
  \/ calls # <<>> /\ Top.user = "factory" /\ FactoryReturns
  \/ calls # <<>> /\ Raises

Next ==
  \/ \E k \in Keys, v \in Vals, op \in Valued : Begin(op, k, v)
  \/ \E k \in Keys, op \in Plain : Begin(op, k, NoVal)
  \/ \E k \in Keys, v \in Vals : Missing(k, v) \/ LegacySet(k, v)
  \/ \E k \in Keys : LegacyRemove(k)
  \/ Clear
  \/ PopItem
  \/ Step

Spec == Init /\ [][Next]_vars

-----------------------------------------------------------------------------
(* Properties *)

Entry == [key : Keys, hash : Hashes, val : Vals]

Compared == [at : Nat \ {0}, key : Keys]

\* The type of every variable.
TypeOK ==
  /\ entries \in Seq(Entry)
  /\ legacy \in BOOLEAN /\ quiet \in BOOLEAN
  /\ Len(calls) <= MaxDepth
  /\ \A i \in DOMAIN calls :
       /\ calls[i].op \in Valued \cup Plain \cup {"missing"}
       /\ calls[i].key \in Keys
       /\ calls[i].val \in IF calls[i].op \in Plain THEN {NoVal} ELSE Vals
       /\ calls[i].user \in {"eq", "factory"}
       /\ calls[i].todo \subseteq Compared /\ calls[i].rest \subseteq Compared

\* An entry that is not under the runtime hash of its key can be found only
\* by the full scan, so the flag must be up as long as there is one: through
\* removals, moves and re-entrant calls alike.
StoredKeysFound ==
  \A i \in DOMAIN entries :
    entries[i].hash = RuntimeHash[entries[i].key] \/ legacy

\* As long as the program is quiet, equal keys are one key of the dict.
NoEqualKeys ==
  quiet => \A i, j \in DOMAIN entries : Equal(entries[i].key, entries[j].key) => i = j

\* The entries whose keys are not equal to k are the same in s and t, and in
\* the same order, as far as the program sees.
OtherPlaces(s, k) == {i \in DOMAIN s : ~Equal(s[i].key, k)}

SameOthers(s, t, k) ==
  \E f \in Bijection(OtherPlaces(s, k), OtherPlaces(t, k)) :
    /\ \A i \in DOMAIN f : t[f[i]].key = s[i].key /\ t[f[i]].val = s[i].val
    /\ \A i, j \in DOMAIN f : i < j => f[i] < f[j]

\* A call that ends has changed nothing about keys that are not equal to its
\* own, whatever __eq__ did to the dict between the comparison and the write:
\* the index it found is checked again.  A completed assignment is there.
\* A move to the front inserts every entry again, which makes one of two that
\* are stored for the same key under both hashes.
CallsHitTheirKey ==
  [][Len(calls') < Len(calls) =>
       LET c == Top IN
         /\ (c.op = "move_first" => quiet) => SameOthers(entries, entries', c.key)
         /\ c.op = "set" /\ ~(entries' = entries /\ InUserCode) =>
              \E i \in DOMAIN entries' : entries'[i].val = c.val /\ Equal(entries'[i].key, c.key)]_vars

AsMap == [i \in DOMAIN entries |-> [id |-> Class[entries[i].key], val |-> entries[i].val]]

Abstract == INSTANCE PyDict WITH Ids <- Range(Class), items <- AsMap

\* As long as the program is quiet, lookups by snapshot, the two hashes and
\* the fallback implement an insertion-ordered map of classes of equal keys.
ImplementsDict == [][quiet' => Abstract!DictNext]_AsMap

\* What every step keeps of a dict object, whatever __eq__ does in between
\* (DictObject, dict_lookup_entry_runtime): types, that every entry can be
\* found, and in a quiet program that no two keys are equal.
DictConsistent == TypeOK /\ StoredKeysFound /\ NoEqualKeys
====
