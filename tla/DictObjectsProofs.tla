------------------------- MODULE DictObjectsProofs -------------------------
(***************************************************************************)
(* Proofs about dict objects: for any keys, hashes and __eq__, any depth    *)
(* of calls inside __eq__ and factories and any size, the flag of the full  *)
(* scan is up whenever it is needed, a quiet program never stores two       *)
(* equal keys, and what it sees is an insertion-ordered map.                *)
(***************************************************************************)
EXTENDS DictObjects, Integers, SequencesExt, FiniteSetTheorems, SequenceTheorems,
        WellFoundedInduction, TLAPS

-----------------------------------------------------------------------------
(* Sequences and numbers                                                    *)

(* A non-empty set of naturals has a least element, and Min returns it.     *)
LEMMA MinOfNats ==
  ASSUME NEW S, S \subseteq Nat, S # {}
  PROVE  Min(S) \in S /\ \A y \in S : Min(S) <= y
<1>1. PICK x \in S : \A y \in S : ~ (<<y, x>> \in OpToRel(<, Nat))
  BY NatLessThanWellFounded, WFMin
<1>2. ASSUME NEW y \in S PROVE x <= y
  <2>1. x \in Nat /\ y \in Nat
    OBVIOUS
  <2>2. ~(y < x)
    BY <1>1, <2>1 DEF OpToRel
  <2>. QED  BY <2>1, <2>2
<1>. QED  BY <1>2 DEF Min

(* it move down by one.                                                     *)
LEMMA RemoveAtProperties ==
  ASSUME NEW S, NEW s \in Seq(S), NEW i \in 1 .. Len(s)
  PROVE  /\ RemoveAt(s, i) \in Seq(S)
         /\ Len(RemoveAt(s, i)) = Len(s) - 1
         /\ \A j \in 1 .. (Len(s) - 1) :
              RemoveAt(s, i)[j] = IF j < i THEN s[j] ELSE s[j + 1]
<1>. DEFINE a == SubSeq(s, 1, i - 1)
            b == SubSeq(s, i + 1, Len(s))
<1>1. a \in Seq(S) /\ Len(a) = i - 1 /\ \A j \in 1 .. (i - 1) : a[j] = s[j]
  BY SubSeqProperties
<1>2. b \in Seq(S) /\ Len(b) = Len(s) - i /\ \A j \in 1 .. (Len(s) - i) : b[j] = s[i + j]
  <2>1. \A j \in (i + 1) .. Len(s) : s[j] \in S
    OBVIOUS
  <2>2. /\ b \in Seq(S)
        /\ Len(b) = IF i + 1 <= Len(s) THEN Len(s) - (i + 1) + 1 ELSE 0
        /\ \A j \in 1 .. (Len(s) - (i + 1) + 1) : b[j] = s[(i + 1) + j - 1]
    BY <2>1, SubSeqProperties
  <2>. QED  BY <2>2
<1>3. /\ a \o b \in Seq(S)
      /\ Len(a \o b) = Len(a) + Len(b)
      /\ \A j \in 1 .. Len(a) + Len(b) : (a \o b)[j] = IF j <= Len(a) THEN a[j] ELSE b[j - Len(a)]
  BY <1>1, <1>2, ConcatProperties
<1>4. RemoveAt(s, i) = a \o b
  BY DEF RemoveAt
<1>5. ASSUME NEW j \in 1 .. (Len(s) - 1)
      PROVE  RemoveAt(s, i)[j] = IF j < i THEN s[j] ELSE s[j + 1]
  <2>1. CASE j < i
    <3>. HIDE DEF a, b
    <3>1. j \in 1 .. (i - 1) /\ j \in 1 .. Len(a) + Len(b) /\ j <= Len(a)
      BY <2>1, <1>1, <1>2
    <3>2. (a \o b)[j] = a[j]
      BY <3>1, <1>3
    <3>3. a[j] = s[j]
      BY <3>1, <1>1
    <3>. QED  BY <3>2, <3>3, <1>4, <2>1
  <2>2. CASE ~(j < i)
    <3>. HIDE DEF a, b
    <3>1. (a \o b)[j] = b[j - Len(a)]
      BY <2>2, <1>1, <1>2, <1>3
    <3>2. j - Len(a) \in 1 .. (Len(s) - i) /\ i + (j - Len(a)) = j + 1
      BY <2>2, <1>1
    <3>3. b[j - Len(a)] = s[i + (j - Len(a))]
      BY <3>2, <1>2
    <3>4. RemoveAt(s, i)[j] = s[j + 1]
      BY <3>1, <3>2, <3>3, <1>4
    <3>. QED  BY <3>4, <2>2
  <2>. QED  BY <2>1, <2>2
<1>6. RemoveAt(s, i) \in Seq(S) /\ Len(RemoveAt(s, i)) = Len(s) - 1
  <2>. HIDE DEF a, b
  <2>1. Len(a) + Len(b) = Len(s) - 1
    BY <1>1, <1>2, LenProperties
  <2>2. Len(a \o b) = Len(s) - 1
    BY <1>3, <2>1
  <2>. QED  BY <1>3, <1>4, <2>2, Zenon
<1>. QED  BY <1>5, <1>6

(* What truncating a stack to its first n elements leaves.                  *)
LEMMA PrefixProperties ==
  ASSUME NEW S, NEW s \in Seq(S), NEW n \in 0 .. Len(s)
  PROVE  /\ SubSeq(s, 1, n) \in Seq(S)
         /\ Len(SubSeq(s, 1, n)) = n
         /\ \A i \in 1 .. n : SubSeq(s, 1, n)[i] = s[i]
<1>1. n \in Int /\ \A i \in 1 .. n : s[i] \in S
  OBVIOUS
<1>2. /\ SubSeq(s, 1, n) \in Seq(S)
      /\ Len(SubSeq(s, 1, n)) = IF 1 <= n THEN n - 1 + 1 ELSE 0
      /\ \A i \in 1 .. n - 1 + 1 : SubSeq(s, 1, n)[i] = s[1 + i - 1]
  BY <1>1, SubSeqProperties
<1>3. n - 1 + 1 = n /\ \A i \in 1 .. n : 1 + i - 1 = i
  BY <1>1
<1>. QED  BY <1>2, <1>3

(* What popping the top of a stack leaves.                                  *)
LEMMA FrontProperties ==
  ASSUME NEW S, NEW s \in Seq(S), s # <<>>
  PROVE  /\ Len(s) \in Nat \ {0}
         /\ Front(s) \in Seq(S)
         /\ Len(Front(s)) = Len(s) - 1
         /\ \A i \in 1 .. (Len(s) - 1) : Front(s)[i] = s[i]
         /\ Last(s) = s[Len(s)]
         /\ Last(s) \in S
<1>1. Len(s) \in Nat \ {0}
  BY EmptySeq
<1>2. Len(s) - 1 \in 0 .. Len(s)
  BY <1>1
<1>3. /\ Front(s) \in Seq(S)
      /\ Len(Front(s)) = Len(s) - 1
      /\ \A i \in 1 .. (Len(s) - 1) : Front(s)[i] = s[i]
  BY <1>2, PrefixProperties DEF Front
<1>4. Last(s) = s[Len(s)] /\ Last(s) \in S
  BY <1>1 DEF Last
<1>. QED  BY <1>1, <1>3, <1>4

-----------------------------------------------------------------------------
(* Storage                                                                  *)

Overwrites(s, k, v, h, t) ==
  /\ StoredAt(s, k, h) # {} /\ Len(t) = Len(s)
  /\ \A i \in 1 .. Len(s) :
       /\ t[i].key = s[i].key /\ t[i].hash = s[i].hash
       /\ t[i].val = IF s[i].key = k /\ s[i].hash = h THEN v ELSE s[i].val

Lengthens(s, k, v, h, t) ==
  /\ StoredAt(s, k, h) = {} /\ Len(t) = Len(s) + 1
  /\ \A i \in 1 .. Len(s) : t[i] = s[i]
  /\ t[Len(s) + 1] = [key |-> k, hash |-> h, val |-> v]

(* An insertion overwrites the value of the entry with that key and hash,   *)
(* or puts a new entry at the end.                                          *)
LEMMA InsertedProperties ==
  ASSUME NEW s \in Seq(Entry), NEW k \in Keys, NEW v \in Vals, NEW h \in Hashes,
         NEW t, t = Inserted(s, k, v, h)
  PROVE  t \in Seq(Entry) /\ (Overwrites(s, k, v, h, t) \/ Lengthens(s, k, v, h, t))
<1>1. CASE StoredAt(s, k, h) # {}
  <2>1. t = [i \in DOMAIN s |-> IF i \in StoredAt(s, k, h) THEN [s[i] EXCEPT !.val = v] ELSE s[i]]
    BY <1>1 DEF Inserted
  <2>2. DOMAIN s = 1 .. Len(s) /\ Len(s) \in Nat /\ \A i \in 1 .. Len(s) : s[i] \in Entry
    OBVIOUS
  <2>3. ASSUME NEW i \in 1 .. Len(s)
        PROVE  /\ t[i].key = s[i].key /\ t[i].hash = s[i].hash
               /\ t[i].val = IF s[i].key = k /\ s[i].hash = h THEN v ELSE s[i].val
               /\ t[i] \in Entry
    <3>1. s[i] \in Entry /\ i \in DOMAIN s
      BY <2>2
    <3>2. t[i] = IF s[i].key = k /\ s[i].hash = h THEN [s[i] EXCEPT !.val = v] ELSE s[i]
      BY <2>1, <3>1 DEF StoredAt
    <3>3. PICK e \in Entry : e = s[i]
      BY <3>1
    <3>. QED  BY <3>2, <3>3 DEF Entry
  <2>4. t \in [1 .. Len(s) -> Entry]
    BY <2>1, <2>2, <2>3
  <2>5. t \in Seq(Entry) /\ Len(t) = Len(s)
    BY <2>2, <2>4
  <2>. QED  BY <1>1, <2>3, <2>5 DEF Overwrites
<1>2. CASE StoredAt(s, k, h) = {}
  <2>1. t = Append(s, [key |-> k, hash |-> h, val |-> v])
    BY <1>2 DEF Inserted
  <2>2. [key |-> k, hash |-> h, val |-> v] \in Entry
    BY DEF Entry
  <2>. QED  BY <1>2, <2>1, <2>2, AppendProperties DEF Lengthens
<1>. QED  BY <1>1, <1>2

(* What can be said of the keys after an insertion: every entry has the key *)
(* and the hash of an old one, or those inserted.                           *)
LEMMA InsertedKeys ==
  ASSUME NEW s \in Seq(Entry), NEW k \in Keys, NEW v \in Vals, NEW h \in Hashes,
         NEW t, t = Inserted(s, k, v, h), NEW i \in DOMAIN t
  PROVE  \/ i \in DOMAIN s /\ t[i].key = s[i].key /\ t[i].hash = s[i].hash
         \/ i = Len(s) + 1 /\ t[i].key = k /\ t[i].hash = h /\ StoredAt(s, k, h) = {}
<1>1. t \in Seq(Entry) /\ (Overwrites(s, k, v, h, t) \/ Lengthens(s, k, v, h, t))
  BY InsertedProperties
<1>2. DOMAIN t = 1 .. Len(t) /\ DOMAIN s = 1 .. Len(s) /\ Len(s) \in Nat
  BY <1>1
<1>3. CASE Overwrites(s, k, v, h, t)
  BY <1>2, <1>3 DEF Overwrites
<1>4. CASE Lengthens(s, k, v, h, t)
  <2>1. i \in 1 .. Len(s) \/ i = Len(s) + 1
    BY <1>2, <1>4 DEF Lengthens
  <2>. QED  BY <1>2, <1>4, <2>1 DEF Lengthens
<1>. QED  BY <1>1, <1>3, <1>4

-----------------------------------------------------------------------------
(* The loop of a move to the front                                          *)

(* The entry moved, with the key it was asked for, then the rest of the     *)
(* entries, as they are inserted one after the other into s.                *)
Loop(first, tail, f, n) ==
  f = [j \in 0 .. n |-> IF j = 0 THEN first
                        ELSE Inserted(f[j - 1], tail[j].key, tail[j].val, LookupHash[tail[j].key])]

(* The loop is defined for every number of entries.                         *)
LEMMA LoopExists ==
  ASSUME NEW first, NEW tail, NEW n \in Nat
  PROVE  \E f : Loop(first, tail, f, n)
<1>. DEFINE Bad == {m \in Nat : ~\E f : Loop(first, tail, f, m)}
<1>1. SUFFICES ASSUME Bad # {} PROVE FALSE
  OBVIOUS
<1>2. PICK m \in Bad : \A j \in Bad : m <= j
  <2>1. Min(Bad) \in Bad /\ \A j \in Bad : Min(Bad) <= j
    BY <1>1, MinOfNats
  <2>. QED  BY <2>1
<1>3. m \in Nat
  OBVIOUS
<1>4. m # 0
  <2>1. SUFFICES \E f : Loop(first, tail, f, 0)
    OBVIOUS
  <2>2. Loop(first, tail, [j \in 0 .. 0 |-> first], 0)
    BY DEF Loop
  <2>. QED  BY <2>2
<1>5. m - 1 \in Nat /\ m - 1 \notin Bad
  BY <1>2, <1>3, <1>4
<1>6. PICK f : Loop(first, tail, f, m - 1)
  BY <1>5
<1>. DEFINE g == [j \in 0 .. m |-> IF j = m
                    THEN Inserted(f[m - 1], tail[m].key, tail[m].val, LookupHash[tail[m].key]) ELSE f[j]]
<1>7. Loop(first, tail, g, m)
  <2>1. DOMAIN g = 0 .. m
    OBVIOUS
  <2>2. ASSUME NEW j \in 0 .. m
        PROVE  g[j] = IF j = 0 THEN first
                      ELSE Inserted(g[j - 1], tail[j].key, tail[j].val, LookupHash[tail[j].key])
    <3>1. CASE j = m
      <4>1. m - 1 \in 0 .. m /\ m - 1 # m
        BY <1>3, <1>4
      <4>2. g[m - 1] = f[m - 1]
        BY <4>1
      <4>. QED  BY <3>1, <4>2, <1>4
    <3>2. CASE j # m
      <4>1. j \in 0 .. (m - 1) /\ (j # 0 => j - 1 \in 0 .. m /\ j - 1 # m)
        BY <1>3, <3>2
      <4>2. f[j] = IF j = 0 THEN first
                   ELSE Inserted(f[j - 1], tail[j].key, tail[j].val, LookupHash[tail[j].key])
        BY <1>6, <4>1 DEF Loop
      <4>3. g[j] = f[j] /\ (j # 0 => g[j - 1] = f[j - 1])
        BY <4>1, <3>2
      <4>. QED  BY <4>2, <4>3
    <3>. QED  BY <3>1, <3>2
  <2>. HIDE DEF g
  <2>3. g = [j \in 0 .. m |-> g[j]]
    BY <2>1 DEF g
  <2>. QED  BY <2>2, <2>3 DEF Loop
<1>. QED  BY <1>2, <1>7

(* A move to the front is that loop over all the other entries.             *)
LEMMA MovedFirstLoop ==
  ASSUME NEW i, NEW k, NEW first, NEW tail,
         tail = RemoveAt(entries, i), Len(tail) \in Nat,
         first = Inserted(<<>>, k, entries[i].val, LookupHash[k])
  PROVE  \E f : Loop(first, tail, f, Len(tail)) /\ MovedFirst(i, k) = f[Len(tail)]
<1>. DEFINE Into(f) == f = [n \in 0 .. Len(tail) |->
                         IF n = 0 THEN first
                         ELSE Inserted(f[n - 1], tail[n].key, tail[n].val, LookupHash[tail[n].key])]
            into == CHOOSE f : Into(f)
<1>1. \E f : Into(f)
  <2>1. PICK f : Loop(first, tail, f, Len(tail))
    BY LoopExists
  <2>2. Into(f)
    BY <2>1 DEF Loop
  <2>. QED  BY <2>2
<1>2. Into(into)
  BY <1>1
<1>3. MovedFirst(i, k) = into[Len(tail)]
  BY DEF MovedFirst
<1>4. Loop(first, tail, into, Len(tail))
  <2>. HIDE DEF into
  <2>. QED  BY <1>2 DEF Loop
<1>. QED  BY <1>3, <1>4

ByLookup(s) == \A i \in DOMAIN s : s[i].hash = LookupHash[s[i].key]

(* Whatever was stored, every entry ends up under its lookup hash.          *)
LEMMA LoopKeepsType ==
  ASSUME NEW first \in Seq(Entry), ByLookup(first), NEW tail \in Seq(Entry),
         NEW f, Loop(first, tail, f, Len(tail))
  PROVE  f[Len(tail)] \in Seq(Entry) /\ ByLookup(f[Len(tail)])
<1>. DEFINE n == Len(tail)
            Good(m) == f[m] \in Seq(Entry) /\ ByLookup(f[m])
            Bad == {m \in 0 .. n : ~Good(m)}
<1>0. n \in Nat
  OBVIOUS
<1>1. ASSUME NEW m \in 0 .. n
      PROVE  f[m] = IF m = 0 THEN first
                    ELSE Inserted(f[m - 1], tail[m].key, tail[m].val, LookupHash[tail[m].key])
  <2>1. \A g : g = [j \in 0 .. n |-> IF j = 0 THEN first
                        ELSE Inserted(f[j - 1], tail[j].key, tail[j].val, LookupHash[tail[j].key])]
               => g[m] = IF m = 0 THEN first
                    ELSE Inserted(f[m - 1], tail[m].key, tail[m].val, LookupHash[tail[m].key])
    OBVIOUS
  <2>. QED  BY <2>1 DEF Loop
<1>2. SUFFICES ASSUME Bad # {} PROVE FALSE
  BY <1>0
<1>3. PICK m \in Bad : \A j \in Bad : m <= j
  <2>1. Bad \subseteq Nat
    OBVIOUS
  <2>2. Min(Bad) \in Bad /\ \A j \in Bad : Min(Bad) <= j
    BY <1>2, <2>1, MinOfNats
  <2>. QED  BY <2>2
<1>4. m \in 0 .. n /\ ~Good(m)
  OBVIOUS
<1>5. m # 0
  BY <1>1, <1>4
<1>6. m - 1 \in 0 .. n /\ m \in 1 .. n /\ ~(m <= m - 1)
  BY <1>0, <1>4, <1>5
<1>7. Good(m - 1)
  BY <1>3, <1>6
<1>8. PICK s \in Seq(Entry) : s = f[m - 1]
  BY <1>7
<1>8a. PICK k, v : k = tail[m].key /\ v = tail[m].val
  OBVIOUS
<1>9. k \in Keys /\ v \in Vals /\ LookupHash[k] \in Hashes
  <2>1. tail[m] \in Entry
    BY <1>6
  <2>. QED  BY <1>8, <1>8a, <2>1, KeyAssumption DEF Entry
<1>10. PICK t : t = f[m]
  OBVIOUS
<1>11. t = Inserted(s, k, v, LookupHash[k])
  BY <1>1, <1>4, <1>5, <1>8, <1>8a, <1>10
<1>12. t \in Seq(Entry)
  BY <1>9, <1>11, InsertedProperties
<1>13. ASSUME NEW i \in DOMAIN t PROVE t[i].hash = LookupHash[t[i].key]
  <2>1. \/ i \in DOMAIN s /\ t[i].key = s[i].key /\ t[i].hash = s[i].hash
        \/ t[i].key = k /\ t[i].hash = LookupHash[k]
    BY <1>9, <1>11, InsertedKeys
  <2>2. ByLookup(s)
    BY <1>7, <1>8, <1>8a
  <2>. QED  BY <2>1, <2>2 DEF ByLookup
<1>. QED  BY <1>4, <1>10, <1>12, <1>13 DEF ByLookup

Rehashed(e) == [key |-> e.key, hash |-> LookupHash[e.key], val |-> e.val]

(* s is the sequence of e and then the first m elements of tail, in order.  *)
Listed(e, tail, s, m) ==
  /\ Len(s) = m + 1 /\ s[1] = e
  /\ \A j \in 1 .. m : s[j + 1] = Rehashed(tail[j])

DistinctKeys(e, tail) ==
  /\ \A i, j \in 1 .. Len(tail) : tail[i].key = tail[j].key => i = j
  /\ \A i \in 1 .. Len(tail) : tail[i].key # e.key

(* Different keys stay different entries: the order is the old one, behind  *)
(* the entry that was moved.                                                *)
LEMMA LoopOfDistinct ==
  ASSUME NEW e \in Entry, NEW tail \in Seq(Entry), DistinctKeys(e, tail),
         NEW f, Loop(<<e>>, tail, f, Len(tail)), e.hash = LookupHash[e.key]
  PROVE  Listed(e, tail, f[Len(tail)], Len(tail))
<1>. DEFINE n == Len(tail)
            Good(m) == f[m] \in Seq(Entry) /\ Listed(e, tail, f[m], m)
            Bad == {m \in 0 .. n : ~Good(m)}
<1>0. n \in Nat
  OBVIOUS
<1>1. ASSUME NEW m \in 0 .. n
      PROVE  f[m] = IF m = 0 THEN <<e>>
                    ELSE Inserted(f[m - 1], tail[m].key, tail[m].val, LookupHash[tail[m].key])
  <2>1. \A g : g = [j \in 0 .. n |-> IF j = 0 THEN <<e>>
                        ELSE Inserted(f[j - 1], tail[j].key, tail[j].val, LookupHash[tail[j].key])]
               => g[m] = IF m = 0 THEN <<e>>
                    ELSE Inserted(f[m - 1], tail[m].key, tail[m].val, LookupHash[tail[m].key])
    OBVIOUS
  <2>. QED  BY <2>1 DEF Loop
<1>2. SUFFICES ASSUME Bad # {} PROVE FALSE
  BY <1>0
<1>3. PICK m \in Bad : \A j \in Bad : m <= j
  <2>1. Bad \subseteq Nat
    OBVIOUS
  <2>2. Min(Bad) \in Bad /\ \A j \in Bad : Min(Bad) <= j
    BY <1>2, <2>1, MinOfNats
  <2>. QED  BY <2>2
<1>4. m \in 0 .. n /\ ~Good(m)
  OBVIOUS
<1>5. m # 0
  <2>1. SUFFICES ASSUME m = 0 PROVE Good(0)
    BY <1>4
  <2>2. f[0] = <<e>>
    BY <1>0, <1>1
  <2>. QED  BY <2>2 DEF Listed
<1>6. m - 1 \in 0 .. n /\ m \in 1 .. n /\ ~(m <= m - 1)
  BY <1>0, <1>4, <1>5
<1>7. Good(m - 1)
  BY <1>3, <1>6
<1>8. PICK s \in Seq(Entry) : s = f[m - 1]
  BY <1>7
<1>8a. PICK k, v, h : k = tail[m].key /\ v = tail[m].val /\ h = LookupHash[k]
  OBVIOUS
<1>9. k \in Keys /\ v \in Vals /\ h \in Hashes
  <2>1. tail[m] \in Entry
    BY <1>6
  <2>. QED  BY <1>8, <1>8a, <2>1, KeyAssumption DEF Entry
<1>10. PICK t : t = f[m]
  OBVIOUS
<1>11. t = Inserted(s, k, v, h)
  BY <1>1, <1>4, <1>5, <1>8, <1>8a, <1>10
<1>12. Len(s) = m /\ s[1] = e /\ \A j \in 1 .. (m - 1) : s[j + 1] = Rehashed(tail[j])
  <2>1. (m - 1) + 1 = m
    BY <1>6
  <2>. QED  BY <1>7, <1>8, <1>8a, <2>1 DEF Listed
<1>13. StoredAt(s, k, h) = {}
  <2>1. SUFFICES ASSUME NEW i \in DOMAIN s, s[i].key = k PROVE FALSE
    BY DEF StoredAt
  <2>2. i \in 1 .. m
    BY <1>12
  <2>3. i # 1
    BY <1>6, <1>8, <1>8a, <1>12, <2>1 DEF DistinctKeys
  <2>4. i - 1 \in 1 .. (m - 1) /\ (i - 1) + 1 = i /\ i - 1 # m /\ i - 1 \in 1 .. n
    BY <1>6, <2>2, <2>3
  <2>5. s[(i - 1) + 1] = Rehashed(tail[i - 1])
    BY <1>12, <2>4
  <2>6. tail[i - 1].key = tail[m].key
    BY <1>8, <1>8a, <2>1, <2>4, <2>5 DEF Rehashed
  <2>. QED  BY <1>6, <2>4, <2>6 DEF DistinctKeys
<1>14. t \in Seq(Entry) /\ Lengthens(s, k, v, h, t)
  BY <1>9, <1>11, <1>13, InsertedProperties DEF Overwrites
<1>15. Listed(e, tail, t, m)
  <2>1. Len(t) = m + 1 /\ (\A i \in 1 .. m : t[i] = s[i]) /\ t[m + 1] = [key |-> k, hash |-> h, val |-> v]
    BY <1>12, <1>14 DEF Lengthens
  <2>2. t[1] = e
    BY <1>6, <1>12, <2>1
  <2>3. ASSUME NEW j \in 1 .. m PROVE t[j + 1] = Rehashed(tail[j])
    <3>1. CASE j = m
      BY <3>1, <2>1, <1>8, <1>8a DEF Rehashed
    <3>2. CASE j # m
      <4>1. j \in 1 .. (m - 1) /\ j + 1 \in 1 .. m
        BY <3>2, <1>6
      <4>. QED  BY <4>1, <2>1, <1>12
    <3>. QED  BY <3>1, <3>2
  <2>. QED  BY <2>1, <2>2, <2>3 DEF Listed
<1>. QED  BY <1>4, <1>10, <1>14, <1>15

-----------------------------------------------------------------------------
(* What holds of the storage, and what each change keeps of it              *)

Known(s) == \A i \in DOMAIN s : s[i].hash = RuntimeHash[s[i].key] \/ s[i].hash = LookupHash[s[i].key]

Findable(s, flag) == \A i \in DOMAIN s : s[i].hash = RuntimeHash[s[i].key] \/ flag

Unique(s) == \A i, j \in DOMAIN s : Equal(s[i].key, s[j].key) => i = j

StoreInv(s, flag, q) ==
  /\ s \in Seq(Entry) /\ flag \in BOOLEAN /\ q \in BOOLEAN
  /\ Known(s) /\ Findable(s, flag) /\ (q => Unique(s))

(* The place that element j of a sequence had before place i was taken out. *)
Before(i, j) == IF j < i THEN j ELSE j + 1

(* Every element that is left was at another place before, and no two at    *)
(* the same.                                                                *)
LEMMA RemovedPlaces ==
  ASSUME NEW S, NEW s \in Seq(S), NEW i \in DOMAIN s, NEW t, t = RemoveAt(s, i)
  PROVE  /\ t \in Seq(S) /\ Len(t) = Len(s) - 1 /\ Len(s) \in Nat \ {0}
         /\ i \in 1 .. Len(s)
         /\ \A j \in DOMAIN t : Before(i, j) \in DOMAIN s /\ Before(i, j) # i /\ t[j] = s[Before(i, j)]
         /\ \A j, l \in DOMAIN t : Before(i, j) = Before(i, l) => j = l
<1>1. Len(s) \in Nat \ {0} /\ i \in 1 .. Len(s) /\ DOMAIN s = 1 .. Len(s)
  BY SMTT(60)
<1>2. /\ t \in Seq(S) /\ Len(t) = Len(s) - 1
      /\ \A j \in 1 .. (Len(s) - 1) : t[j] = IF j < i THEN s[j] ELSE s[j + 1]
  BY <1>1, RemoveAtProperties
<1>3. DOMAIN t = 1 .. (Len(s) - 1)
  BY <1>2
<1>4. ASSUME NEW j \in DOMAIN t
      PROVE  Before(i, j) \in DOMAIN s /\ Before(i, j) # i /\ t[j] = s[Before(i, j)]
  BY <1>1, <1>2, <1>3 DEF Before
<1>5. ASSUME NEW j \in DOMAIN t, NEW l \in DOMAIN t, Before(i, j) = Before(i, l)
      PROVE  j = l
  BY <1>1, <1>3, <1>5 DEF Before
<1>. QED  BY <1>1, <1>2, <1>4, <1>5

(* Removing an entry keeps what holds of the others; the flag falls with    *)
(* the last one.                                                            *)
LEMMA RemoveKeeps ==
  ASSUME NEW s, NEW f, NEW q, StoreInv(s, f, q), NEW i \in DOMAIN s,
         NEW t, t = RemoveAt(s, i), NEW g \in BOOLEAN, g <=> (f /\ t # <<>>),
         NEW r \in BOOLEAN, r => q
  PROVE  StoreInv(t, g, r)
<1>1. /\ t \in Seq(Entry)
      /\ \A j \in DOMAIN t : Before(i, j) \in DOMAIN s /\ t[j] = s[Before(i, j)]
      /\ \A j, l \in DOMAIN t : Before(i, j) = Before(i, l) => j = l
  <2>1. s \in Seq(Entry)
    BY DEF StoreInv
  <2>. QED  BY <2>1, RemovedPlaces
<1>2. Known(t)
  BY <1>1 DEF StoreInv, Known
<1>3. Findable(t, g)
  <2>1. SUFFICES ASSUME NEW j \in DOMAIN t, ~g PROVE t[j].hash = RuntimeHash[t[j].key]
    BY DEF Findable
  <2>2. t # <<>>
    OBVIOUS
  <2>3. ~f
    BY <2>1, <2>2
  <2>. QED  BY <1>1, <2>3 DEF StoreInv, Findable
<1>4. r => Unique(t)
  BY <1>1 DEF StoreInv, Unique
<1>. QED  BY <1>1, <1>2, <1>3, <1>4 DEF StoreInv

(* An insertion keeps them when the flag covers the hash it uses and, in a  *)
(* quiet program, no equal key is stored but the one it overwrites.         *)
LEMMA InsertKeeps ==
  ASSUME NEW s, NEW f, NEW q, StoreInv(s, f, q),
         NEW k \in Keys, NEW v \in Vals, NEW h, h = RuntimeHash[k] \/ h = LookupHash[k],
         NEW t, t = Inserted(s, k, v, h),
         NEW g \in BOOLEAN, g \/ (h = RuntimeHash[k] /\ ~f),
         NEW r \in BOOLEAN, r => q,
         r => \A i \in DOMAIN s : Equal(s[i].key, k) => i \in StoredAt(s, k, h)
  PROVE  StoreInv(t, g, r)
<1>1. h \in Hashes /\ s \in Seq(Entry)
  BY KeyAssumption DEF StoreInv
<1>2. t \in Seq(Entry)
  BY <1>1, InsertedProperties
<1>3. ASSUME NEW i \in DOMAIN t
      PROVE  \/ i \in DOMAIN s /\ t[i].key = s[i].key /\ t[i].hash = s[i].hash
             \/ i = Len(s) + 1 /\ t[i].key = k /\ t[i].hash = h /\ StoredAt(s, k, h) = {}
  BY <1>1, InsertedKeys
<1>4. Known(t)
  BY <1>3 DEF StoreInv, Known
<1>5. Findable(t, g)
  <2>1. SUFFICES ASSUME NEW i \in DOMAIN t, ~g PROVE t[i].hash = RuntimeHash[t[i].key]
    BY DEF Findable
  <2>. QED  BY <1>3, <2>1 DEF StoreInv, Findable
<1>6. ASSUME r PROVE Unique(t)
  <2>1. Unique(s) /\ \A i \in DOMAIN s : Equal(s[i].key, k) => i \in StoredAt(s, k, h)
    BY <1>6 DEF StoreInv
  <2>2. SUFFICES ASSUME NEW i \in DOMAIN t, NEW j \in DOMAIN t, Equal(t[i].key, t[j].key)
                 PROVE  i = j
    BY DEF Unique
  <2>3. CASE i \in DOMAIN s /\ t[i].key = s[i].key
    <3>1. CASE j \in DOMAIN s /\ t[j].key = s[j].key
      BY <2>1, <2>2, <2>3, <3>1 DEF Unique
    <3>2. CASE t[j].key = k /\ StoredAt(s, k, h) = {}
      BY <2>1, <2>2, <2>3, <3>2
    <3>. QED  BY <1>3, <3>1, <3>2
  <2>4. CASE i = Len(s) + 1 /\ t[i].key = k /\ StoredAt(s, k, h) = {}
    <3>1. CASE j \in DOMAIN s /\ t[j].key = s[j].key
      BY <2>1, <2>2, <2>4, <3>1 DEF Equal
    <3>2. CASE j = Len(s) + 1
      BY <2>4, <3>2
    <3>. QED  BY <1>3, <3>1, <3>2
  <2>. QED  BY <1>3, <2>3, <2>4
<1>. QED  BY <1>2, <1>4, <1>5, <1>6 DEF StoreInv

Revalued(s, i, v) == [s EXCEPT ![i].val = v]

(* A new value in an old entry changes nothing of this.                     *)
LEMMA OverwriteKeeps ==
  ASSUME NEW s, NEW f, NEW q, StoreInv(s, f, q), NEW i \in DOMAIN s, NEW v \in Vals,
         NEW t, t = Revalued(s, i, v), NEW r \in BOOLEAN, r => q
  PROVE  StoreInv(t, f, r)
<1>0. t = [s EXCEPT ![i].val = v]
  BY DEF Revalued
<1>1. s \in Seq(Entry) /\ i \in 1 .. Len(s) /\ DOMAIN t = DOMAIN s
  BY <1>0 DEF StoreInv
<1>2. ASSUME NEW j \in DOMAIN s
      PROVE  t[j] \in Entry /\ t[j].key = s[j].key /\ t[j].hash = s[j].hash
  <2>1. s[j] \in Entry
    BY <1>1
  <2>2. PICK e \in Entry : e = s[j]
    BY <2>1
  <2>3. t[j] = IF j = i THEN [e EXCEPT !.val = v] ELSE e
    BY <1>0, <1>1, <2>2
  <2>. QED  BY <2>2, <2>3 DEF Entry
<1>3. t \in Seq(Entry)
  <2>1. PICK e : e = [s[i] EXCEPT !.val = v]
    OBVIOUS
  <2>2. t = [s EXCEPT ![i] = e]
    BY <1>0, <2>1
  <2>3. e \in Entry
    <3>1. t[i] = e
      BY <1>1, <2>2
    <3>. QED  BY <3>1, <1>2
  <2>. QED  BY <1>1, <2>2, <2>3, ExceptSeq
<1>4. Known(t) /\ Findable(t, f) /\ (r => Unique(t))
  <2>1. Known(t)
    BY <1>1, <1>2 DEF StoreInv, Known
  <2>2. Findable(t, f)
    BY <1>1, <1>2 DEF StoreInv, Findable
  <2>3. r => Unique(t)
    BY <1>1, <1>2 DEF StoreInv, Unique
  <2>. QED  BY <2>1, <2>2, <2>3
<1>. QED  BY <1>3, <1>4 DEF StoreInv

-----------------------------------------------------------------------------
(* What the moves to either end leave                                       *)

(* While keys are unique, nothing that is left equals the key of the entry  *)
(* that was taken out.                                                      *)
LEMMA NothingEqualLeft ==
  ASSUME NEW s \in Seq(Entry), Unique(s), NEW i \in DOMAIN s, NEW k, Equal(s[i].key, k),
         NEW t, t = RemoveAt(s, i), NEW j \in DOMAIN t
  PROVE  ~Equal(t[j].key, k)
<1>1. Before(i, j) \in DOMAIN s /\ Before(i, j) # i /\ t[j] = s[Before(i, j)]
  BY RemovedPlaces
<1>2. ~Equal(s[Before(i, j)].key, s[i].key)
  BY <1>1 DEF Unique
<1>. QED  BY <1>1, <1>2 DEF Equal

(* A move to the end keeps them: nothing left equals the key that goes to   *)
(* the end.                                                                 *)
LEMMA MovedLastKeeps ==
  ASSUME NEW q, NEW f, StoreInv(entries, f, q), NEW i \in DOMAIN entries, NEW k \in Keys,
         Equal(entries[i].key, k), NEW t, t = MovedLast(i, k), NEW r \in BOOLEAN, r => q
  PROVE  StoreInv(t, TRUE, r)
<1>1. PICK u : u = RemoveAt(entries, i)
  OBVIOUS
<1>2. PICK g \in BOOLEAN : g <=> (f /\ u # <<>>)
  <2>1. (f /\ u # <<>>) \in BOOLEAN
    OBVIOUS
  <2>. QED  BY <2>1
<1>3. StoreInv(u, g, r)
  BY <1>1, <1>2, RemoveKeeps
<1>4. entries[i].val \in Vals
  <2>1. entries[i] \in Entry
    BY DEF StoreInv
  <2>. QED  BY <2>1 DEF Entry
<1>5. t = Inserted(u, k, entries[i].val, LookupHash[k])
  BY <1>1 DEF MovedLast
<1>6. ASSUME r, NEW j \in DOMAIN u PROVE ~Equal(u[j].key, k)
  <2>1. entries \in Seq(Entry) /\ Unique(entries)
    BY <1>6 DEF StoreInv
  <2>. QED  BY <1>1, <2>1, NothingEqualLeft
<1>7. r => \A j \in DOMAIN u : Equal(u[j].key, k) => j \in StoredAt(u, k, LookupHash[k])
  BY <1>6
<1>8. PICK v \in Vals : v = entries[i].val
  BY <1>4
<1>9. PICK h : h = LookupHash[k]
  OBVIOUS
<1>10. /\ t = Inserted(u, k, v, h) /\ (h = RuntimeHash[k] \/ h = LookupHash[k])
       /\ r => \A j \in DOMAIN u : Equal(u[j].key, k) => j \in StoredAt(u, k, h)
  BY <1>5, <1>7, <1>8, <1>9
<1>. HIDE <1>9
<1>. QED  BY ZenonT(60), <1>3, <1>10, InsertKeeps

Moved(i, k) == [key |-> k, hash |-> LookupHash[k], val |-> entries[i].val]

(* A move to the front inserts every entry under its lookup hash, and       *)
(* while keys are unique the others follow in their order.                  *)
LEMMA MovedFirstProperties ==
  ASSUME NEW f, NEW q, StoreInv(entries, f, q), NEW i \in DOMAIN entries, NEW k \in Keys,
         Equal(entries[i].key, k), NEW t, t = MovedFirst(i, k), NEW u, u = RemoveAt(entries, i)
  PROVE  /\ t \in Seq(Entry) /\ ByLookup(t)
         /\ Unique(entries) => Listed(Moved(i, k), u, t, Len(u))
<1>1. entries \in Seq(Entry) /\ entries[i] \in Entry
  BY DEF StoreInv
<1>2. u \in Seq(Entry) /\ Len(u) \in Nat
  <2>1. u \in Seq(Entry)
    BY <1>1, RemovedPlaces
  <2>. QED  BY <2>1
<1>3. PICK e \in Entry : e = Moved(i, k)
  BY <1>1, KeyAssumption DEF Moved, Entry
<1>4. Inserted(<<>>, k, entries[i].val, LookupHash[k]) = <<e>>
  <2>1. StoredAt(<<>>, k, LookupHash[k]) = {}
    BY DEF StoredAt
  <2>2. Inserted(<<>>, k, entries[i].val, LookupHash[k]) = Append(<<>>, e)
    BY <1>3, <2>1 DEF Inserted, Moved
  <2>. QED  BY <2>2
<1>5. PICK w : Loop(<<e>>, u, w, Len(u)) /\ t = w[Len(u)]
  BY <1>2, <1>4, MovedFirstLoop
<1>6. <<e>> \in Seq(Entry) /\ ByLookup(<<e>>)
  BY <1>3 DEF ByLookup, Moved
<1>7. t \in Seq(Entry) /\ ByLookup(t)
  <2>1. PICK a \in Seq(Entry) : a = <<e>>
    BY <1>6
  <2>. QED  BY <1>2, <1>5, <1>6, <2>1, LoopKeepsType
<1>8. ASSUME Unique(entries) PROVE Listed(e, u, t, Len(u))
  <2>1. ASSUME NEW j \in DOMAIN u PROVE ~Equal(u[j].key, k)
    BY <1>1, <1>8, NothingEqualLeft
  <2>2. ASSUME NEW j \in DOMAIN u, NEW l \in DOMAIN u, u[j].key = u[l].key PROVE j = l
    <3>1. /\ Before(i, j) \in DOMAIN entries /\ Before(i, l) \in DOMAIN entries
          /\ u[j] = entries[Before(i, j)] /\ u[l] = entries[Before(i, l)]
          /\ Before(i, j) = Before(i, l) => j = l
      BY <1>1, RemovedPlaces
    <3>. QED  BY <1>8, <2>2, <3>1 DEF Unique, Equal
  <2>3. DistinctKeys(e, u)
    <3>1. DOMAIN u = 1 .. Len(u)
      BY <1>2
    <3>2. e.key = k
      BY <1>3 DEF Moved
    <3>. QED  BY <2>1, <2>2, <3>1, <3>2 DEF DistinctKeys, Equal
  <2>4. e.hash = LookupHash[e.key]
    BY <1>3 DEF Moved
  <2>. QED  BY <1>2, <1>5, <2>3, <2>4, LoopOfDistinct
<1>. QED  BY <1>3, <1>7, <1>8

(* So a move to the front keeps them too.                                   *)
LEMMA MovedFirstKeeps ==
  ASSUME NEW f, NEW q, StoreInv(entries, f, q), NEW i \in DOMAIN entries, NEW k \in Keys,
         Equal(entries[i].key, k), NEW t, t = MovedFirst(i, k), NEW r \in BOOLEAN, r => q
  PROVE  StoreInv(t, TRUE, r)
<1>1. PICK u : u = RemoveAt(entries, i)
  OBVIOUS
<1>2. /\ t \in Seq(Entry) /\ ByLookup(t)
      /\ Unique(entries) => Listed(Moved(i, k), u, t, Len(u))
  BY <1>1, MovedFirstProperties
<1>3. entries \in Seq(Entry)
  BY DEF StoreInv
<1>4. ASSUME r PROVE Unique(t)
  <2>1. Unique(entries) /\ Listed(Moved(i, k), u, t, Len(u))
    BY <1>2, <1>4 DEF StoreInv
  <2>2. /\ u \in Seq(Entry)
        /\ \A j \in DOMAIN u : Before(i, j) \in DOMAIN entries /\ u[j] = entries[Before(i, j)]
        /\ \A j, l \in DOMAIN u : Before(i, j) = Before(i, l) => j = l
    BY <1>1, <1>3, RemovedPlaces
  <2>3. \A j \in DOMAIN u : ~Equal(u[j].key, k)
    BY <1>1, <1>3, <2>1, NothingEqualLeft
  <2>4. Len(u) \in Nat /\ DOMAIN u = 1 .. Len(u) /\ DOMAIN t = 1 .. (Len(u) + 1)
    BY <1>2, <2>1, <2>2 DEF Listed
  <2>5. t[1].key = k /\ \A j \in DOMAIN u : t[j + 1].key = u[j].key
    <3>1. t[1] = Moved(i, k) /\ \A j \in 1 .. Len(u) : t[j + 1] = Rehashed(u[j])
      BY <2>1 DEF Listed
    <3>2. Moved(i, k).key = k /\ \A e : Rehashed(e).key = e.key
      BY DEF Moved, Rehashed
    <3>. QED  BY <2>4, <3>1, <3>2
  <2>6. SUFFICES ASSUME NEW a \in DOMAIN t, NEW b \in DOMAIN t, Equal(t[a].key, t[b].key), a # b
                 PROVE  FALSE
    BY DEF Unique
  <2>7. a = 1 \/ (a - 1 \in DOMAIN u /\ (a - 1) + 1 = a)
    BY <2>4
  <2>8. b = 1 \/ (b - 1 \in DOMAIN u /\ (b - 1) + 1 = b)
    BY <2>4
  <2>9. CASE a = 1
    <3>1. b - 1 \in DOMAIN u /\ t[b].key = u[b - 1].key /\ t[a].key = k
      BY <2>5, <2>6, <2>8, <2>9
    <3>2. ~Equal(u[b - 1].key, k)
      BY <2>3, <3>1
    <3>. QED  BY <2>6, <3>1, <3>2 DEF Equal
  <2>10. CASE b = 1
    <3>1. a - 1 \in DOMAIN u /\ t[a].key = u[a - 1].key /\ t[b].key = k
      BY <2>5, <2>6, <2>7, <2>10
    <3>2. ~Equal(u[a - 1].key, k)
      BY <2>3, <3>1
    <3>. QED  BY <2>6, <3>1, <3>2
  <2>11. CASE a # 1 /\ b # 1
    <3>1. PICK j \in DOMAIN u, l \in DOMAIN u : j = a - 1 /\ l = b - 1
      BY <2>7, <2>8, <2>11
    <3>2. t[a].key = u[j].key /\ t[b].key = u[l].key /\ j # l
      <4>1. j + 1 = a /\ l + 1 = b
        BY <2>7, <2>8, <2>11, <3>1
      <4>. QED  BY <2>5, <2>6, <4>1
    <3>3. /\ Before(i, j) \in DOMAIN entries /\ Before(i, l) \in DOMAIN entries
          /\ u[j] = entries[Before(i, j)] /\ u[l] = entries[Before(i, l)]
          /\ Before(i, j) # Before(i, l)
      BY <2>2, <3>2
    <3>. QED  BY <2>1, <2>6, <3>2, <3>3 DEF Unique
  <2>. QED  BY <2>9, <2>10, <2>11
<1>5. Known(t)
  BY <1>2 DEF ByLookup, Known
<1>6. Findable(t, TRUE)
  BY DEF Findable
<1>. QED  BY <1>2, <1>4, <1>5, <1>6 DEF StoreInv

-----------------------------------------------------------------------------
(* The calls in progress                                                    *)

CallType ==
  [op : Valued \cup Plain \cup {"missing"}, key : Keys, val : Vals \cup {NoVal},
   user : {"eq", "factory"}, todo : SUBSET Compared, rest : SUBSET Compared]

GoodCall(c) == c \in CallType /\ c.val \in IF c.op \in Plain THEN {NoVal} ELSE Vals

(* Whatever equals the key of call c is still to be compared, and every     *)
(* entry to be compared is where the snapshot says.                         *)
Covered(c, s) ==
  \A i \in DOMAIN s : Equal(s[i].key, c.key) => [at |-> i, key |-> s[i].key] \in c.todo \cup c.rest

Valid(c, s) == \A m \in c.todo \cup c.rest : m.at \in DOMAIN s /\ s[m.at].key = m.key

Current(c, s) == Covered(c, s) /\ Valid(c, s)

CallsInv(cs, s, q) ==
  /\ cs \in Seq(CallType) /\ Len(cs) <= MaxDepth
  /\ \A i \in DOMAIN cs : GoodCall(cs[i]) /\ (q => Current(cs[i], s))

(* The strengthening of DictConsistent that every step keeps.               *)
IInv == StoreInv(entries, legacy, quiet) /\ CallsInv(calls, entries, quiet)

(* What a step may do to the dict while n calls wait, if the program is to  *)
(* stay quiet.                                                              *)
Waits(n, s, t, q, r) == r => q /\ (n = 0 \/ t = s)

(* A new call goes on top of the others.                                    *)
LEMMA PushKeeps ==
  ASSUME NEW cs, NEW s, NEW q, CallsInv(cs, s, q), NEW c, GoodCall(c), q => Current(c, s),
         cs # <<>> => Len(cs) < MaxDepth, NEW ds, ds = Append(cs, c)
  PROVE  CallsInv(ds, s, q)
<1>1. cs \in Seq(CallType) /\ Len(cs) \in Nat /\ c \in CallType /\ MaxDepth \in Nat \ {0}
  BY KeyAssumption DEF CallsInv, GoodCall
<1>2. /\ ds \in Seq(CallType) /\ Len(ds) = Len(cs) + 1
      /\ \A i \in 1 .. Len(cs) : ds[i] = cs[i]
      /\ ds[Len(cs) + 1] = c
  BY <1>1, AppendProperties
<1>3. Len(ds) <= MaxDepth
  <2>1. CASE cs = <<>>
    BY <1>1, <1>2, <2>1
  <2>2. CASE cs # <<>>
    BY <1>1, <1>2, <2>2
  <2>. QED  BY <2>1, <2>2
<1>4. ASSUME NEW i \in DOMAIN ds PROVE GoodCall(ds[i]) /\ (q => Current(ds[i], s))
  <2>1. i \in DOMAIN cs \/ i = Len(cs) + 1
    BY <1>1, <1>2
  <2>2. CASE i \in DOMAIN cs
    BY <1>1, <1>2, <2>2 DEF CallsInv
  <2>3. CASE i = Len(cs) + 1
    BY <1>2, <2>3
  <2>. QED  BY <2>1, <2>2, <2>3
<1>. QED  BY <1>2, <1>3, <1>4 DEF CallsInv

(* The last call ends. While others wait, a quiet program has left the      *)
(* dict alone, so their snapshots still fit.                                *)
LEMMA PopKeeps ==
  ASSUME NEW cs, NEW s, NEW q, CallsInv(cs, s, q), cs # <<>>,
         NEW t, NEW r, Waits(Len(cs) - 1, s, t, q, r), NEW ds, ds = Front(cs)
  PROVE  CallsInv(ds, t, r)
<1>1. cs \in Seq(CallType)
  BY DEF CallsInv
<1>2. /\ Len(cs) \in Nat \ {0} /\ ds \in Seq(CallType) /\ Len(ds) = Len(cs) - 1
      /\ \A i \in 1 .. (Len(cs) - 1) : ds[i] = cs[i]
  BY <1>1, FrontProperties
<1>3. Len(ds) <= MaxDepth
  BY <1>2, KeyAssumption DEF CallsInv
<1>4. ASSUME NEW i \in DOMAIN ds PROVE GoodCall(ds[i]) /\ (r => Current(ds[i], t))
  <2>1. i \in DOMAIN cs /\ ds[i] = cs[i] /\ Len(cs) - 1 # 0
    BY <1>1, <1>2
  <2>2. GoodCall(cs[i]) /\ (q => Current(cs[i], s))
    BY <2>1 DEF CallsInv
  <2>. QED  BY <2>1, <2>2 DEF Waits
<1>. QED  BY <1>2, <1>3, <1>4 DEF CallsInv

(* A change of the dict outside every call: nobody waits, or the program    *)
(* is not quiet any more.                                                   *)
LEMMA StayKeeps ==
  ASSUME NEW cs, NEW s, NEW q, CallsInv(cs, s, q), NEW t, NEW r, Waits(Len(cs), s, t, q, r)
  PROVE  CallsInv(cs, t, r)
<1>1. cs \in Seq(CallType)
  BY DEF CallsInv
<1>2. ASSUME NEW i \in DOMAIN cs PROVE GoodCall(cs[i]) /\ (r => Current(cs[i], t))
  <2>1. Len(cs) # 0
    BY <1>1
  <2>2. GoodCall(cs[i]) /\ (q => Current(cs[i], s))
    BY DEF CallsInv
  <2>. QED  BY <2>1, <2>2 DEF Waits
<1>. QED  BY <1>2 DEF CallsInv

(* The last call goes on with another snapshot or with less of it.          *)
LEMMA ReplaceKeeps ==
  ASSUME NEW cs, NEW s, NEW q, CallsInv(cs, s, q), cs # <<>>,
         NEW c, GoodCall(c), q => Current(c, s), NEW ds, ds = Append(Front(cs), c)
  PROVE  CallsInv(ds, s, q)
<1>1. PICK fs : fs = Front(cs)
  OBVIOUS
<1>2. CallsInv(fs, s, q)
  <2>1. Waits(Len(cs) - 1, s, s, q, q)
    BY DEF Waits
  <2>. QED  BY <1>1, <2>1, PopKeeps
<1>3. fs # <<>> => Len(fs) < MaxDepth
  <2>1. cs \in Seq(CallType) /\ Len(cs) <= MaxDepth
    BY DEF CallsInv
  <2>2. Len(cs) \in Nat \ {0} /\ Len(fs) = Len(cs) - 1
    BY <1>1, <2>1, FrontProperties
  <2>. QED  BY <2>1, <2>2, KeyAssumption
<1>4. ds = Append(fs, c)
  BY <1>1
<1>. QED  BY <1>2, <1>3, <1>4, PushKeeps

(* The call that runs is one of them.                                       *)
LEMMA TopIsGood ==
  ASSUME IInv, calls # <<>>
  PROVE  GoodCall(Top) /\ (quiet => Current(Top, entries)) /\ Len(calls) \in Nat \ {0}
<1>1. calls \in Seq(CallType)
  BY DEF IInv, CallsInv
<1>2. Len(calls) \in Nat \ {0} /\ Top = calls[Len(calls)]
  BY <1>1, FrontProperties DEF Top
<1>3. Len(calls) \in DOMAIN calls
  BY <1>1, <1>2
<1>. QED  BY <1>2, <1>3 DEF IInv, CallsInv

(* The snapshot of a new call covers every entry that equals its key: those *)
(* that are not under the hash it looks for are in the full scan.           *)
LEMMA CallIsCurrent ==
  ASSUME IInv, NEW k \in Keys, NEW op, NEW v
  PROVE  /\ Current(Call(op, k, v), entries)
         /\ Call(op, k, v).todo \subseteq Compared /\ Call(op, k, v).rest \subseteq Compared
<1>1. PICK c : c = Call(op, k, v)
  OBVIOUS
<1>2. c.key = k /\ c.todo = Snapshot(Candidates(k)) /\ c.rest = Fallback(k)
  BY <1>1 DEF Call
<1>3. entries \in Seq(Entry) /\ Findable(entries, legacy) /\ legacy \in BOOLEAN
  BY DEF IInv, StoreInv
<1>4. DOMAIN entries \subseteq Nat \ {0} /\ \A i \in DOMAIN entries : entries[i] \in Entry
  BY <1>3
<1>5. \A S \in SUBSET DOMAIN entries : \A m \in Snapshot(S) :
        m \in Compared /\ m.at \in DOMAIN entries /\ entries[m.at].key = m.key
  BY <1>4 DEF Snapshot, Compared, Entry
<1>6. Candidates(k) \subseteq DOMAIN entries /\ Fallback(k) \subseteq Snapshot(DOMAIN entries \ Candidates(k))
  BY DEF Candidates, Fallback
<1>7. c.todo \subseteq Compared /\ c.rest \subseteq Compared /\ Valid(c, entries)
  <2>1. \A m \in c.todo : m \in Compared /\ m.at \in DOMAIN entries /\ entries[m.at].key = m.key
    BY <1>2, <1>5, <1>6
  <2>2. DOMAIN entries \ Candidates(k) \in SUBSET DOMAIN entries
    OBVIOUS
  <2>3. \A m \in c.rest : m \in Compared /\ m.at \in DOMAIN entries /\ entries[m.at].key = m.key
    BY <1>2, <1>5, <1>6, <2>2
  <2>. QED  BY <2>1, <2>3 DEF Valid
<1>8. ASSUME NEW i \in DOMAIN entries, Equal(entries[i].key, k)
      PROVE  [at |-> i, key |-> entries[i].key] \in c.todo \cup c.rest
  <2>1. CASE i \in Candidates(k)
    BY <1>2, <2>1 DEF Snapshot
  <2>2. CASE i \notin Candidates(k)
    <3>1. entries[i].key \in Keys
      BY <1>4 DEF Entry
    <3>2. RuntimeHash[entries[i].key] = RuntimeHash[k]
      BY <1>8, <3>1, KeyAssumption DEF Equal
    <3>3. entries[i].hash # RuntimeHash[k]
      BY <2>2 DEF Candidates
    <3>4. legacy
      BY <1>3, <3>2, <3>3 DEF Findable
    <3>. QED  BY <1>2, <2>2, <3>4 DEF Fallback, Snapshot
  <2>. QED  BY <2>1, <2>2
<1>. QED  BY <1>1, <1>2, <1>7, <1>8 DEF Current, Covered

(* Every new call is one whose snapshot fits.                               *)
LEMMA CallIsGood ==
  ASSUME IInv, NEW k \in Keys, NEW op \in Valued \cup Plain \cup {"missing"},
         NEW v, v \in IF op \in Plain THEN {NoVal} ELSE Vals
  PROVE  GoodCall(Call(op, k, v)) /\ Current(Call(op, k, v), entries)
<1>1. /\ Current(Call(op, k, v), entries)
      /\ Call(op, k, v).todo \subseteq Compared /\ Call(op, k, v).rest \subseteq Compared
  BY CallIsCurrent
<1>2. v \in Vals \cup {NoVal}
  OBVIOUS
<1>3. Call(op, k, v) \in CallType /\ Call(op, k, v).op = op /\ Call(op, k, v).val = v
  BY <1>1, <1>2 DEF Call, CallType
<1>. QED  BY <1>1, <1>3 DEF GoodCall

-----------------------------------------------------------------------------
(* The invariant is kept by every step                                      *)

(* What Noted keeps of quiet is what the waiting calls need.                *)
LEMMA NotedWaits ==
  ASSUME IInv, NEW n, Noted(n)
  PROVE  quiet' \in BOOLEAN /\ Waits(n, entries, entries', quiet, quiet')
<1>1. quiet' <=> (quiet /\ (n = 0 \/ entries' = entries))
  BY DEF Noted
<1>2. quiet' \in BOOLEAN
  BY DEF Noted
<1>. QED  BY <1>1, <1>2, Zenon DEF Waits

(* An insertion by the lookup hash keeps quiet only for a key without a     *)
(* __hash__ of its own.                                                     *)
LEMMA NotedInsertWaits ==
  ASSUME IInv, NEW n, NEW k, NotedInsert(n, k)
  PROVE  /\ quiet' \in BOOLEAN /\ Waits(n, entries, entries', quiet, quiet')
         /\ quiet' => LookupHash[k] = RuntimeHash[k] /\ OnlyItself(k)
<1>1. quiet' <=> (quiet /\ n = 0 /\ LookupHash[k] = RuntimeHash[k] /\ OnlyItself(k))
  BY DEF NotedInsert
<1>2. quiet' \in BOOLEAN
  BY DEF NotedInsert
<1>. QED  BY <1>1, <1>2, Zenon DEF Waits

(* In a quiet program an entry for a key that equals nothing else is        *)
(* overwritten.                                                             *)
LEMMA PlainIsOverwritten ==
  ASSUME IInv, NEW k \in Keys, LookupHash[k] = RuntimeHash[k], OnlyItself(k),
         NEW i \in DOMAIN entries, Equal(entries[i].key, k)
  PROVE  i \in StoredAt(entries, k, LookupHash[k])
<1>1. entries[i] \in Entry /\ Known(entries)
  BY DEF IInv, StoreInv
<1>2. entries[i].key = k
  BY <1>1 DEF OnlyItself, Entry
<1>3. entries[i].hash = LookupHash[k]
  BY <1>1, <1>2 DEF Known
<1>. QED  BY <1>2, <1>3 DEF StoredAt

(* The last entry goes as if it were removed by its index.                  *)
LEMMA FrontIsRemoval ==
  ASSUME NEW S, NEW s \in Seq(S), s # <<>>
  PROVE  Len(s) \in DOMAIN s /\ Front(s) = RemoveAt(s, Len(s))
<1>1. /\ Len(s) \in Nat \ {0} /\ Front(s) \in Seq(S) /\ Len(Front(s)) = Len(s) - 1
      /\ \A i \in 1 .. (Len(s) - 1) : Front(s)[i] = s[i]
  BY FrontProperties
<1>2. Len(s) \in 1 .. Len(s)
  BY <1>1
<1>3. /\ RemoveAt(s, Len(s)) \in Seq(S) /\ Len(RemoveAt(s, Len(s))) = Len(s) - 1
      /\ \A j \in 1 .. (Len(s) - 1) : RemoveAt(s, Len(s))[j] = IF j < Len(s) THEN s[j] ELSE s[j + 1]
  BY <1>2, RemoveAtProperties
<1>4. PICK a \in Seq(S), b \in Seq(S) : a = Front(s) /\ b = RemoveAt(s, Len(s))
  BY <1>1, <1>3
<1>5. Len(a) = Len(b) /\ \A i \in 1 .. Len(a) : a[i] = b[i]
  <2>1. Len(a) = Len(s) - 1 /\ Len(b) = Len(s) - 1
    BY <1>1, <1>3, <1>4
  <2>2. \A i \in 1 .. (Len(s) - 1) : a[i] = s[i] /\ b[i] = s[i]
    <3>1. \A i \in 1 .. (Len(s) - 1) : i < Len(s)
      BY <1>1
    <3>. QED  BY <1>1, <1>3, <1>4, <3>1
  <2>. QED  BY <2>1, <2>2
<1>6. a = b
  BY <1>5, SeqEqual
<1>. QED  BY <1>2, <1>4, <1>6

(* The flag is up after a removal iff it was up and something is left.      *)
LEMMA LegacyAfterValue ==
  ASSUME IInv, NEW t
  PROVE  LegacyAfter(t) \in BOOLEAN /\ (LegacyAfter(t) <=> (legacy /\ t # <<>>))
BY DEF IInv, StoreInv, LegacyAfter

(* A removal of one entry while n calls wait.                               *)
LEMMA RemovalGood ==
  ASSUME IInv, NEW i \in DOMAIN entries,
         Store(RemoveAt(entries, i), LegacyAfter(RemoveAt(entries, i))), NEW n, Noted(n)
  PROVE  StoreInv(entries, legacy, quiet)'
<1>1. PICK s, f, q : s = entries /\ f = legacy /\ q = quiet
  OBVIOUS
<1>2. PICK t, g, r : t = entries' /\ g = legacy' /\ r = quiet'
  OBVIOUS
<1>3. StoreInv(s, f, q) /\ i \in DOMAIN s
  BY <1>1 DEF IInv
<1>4. t = RemoveAt(s, i)
  BY <1>1, <1>2 DEF Store
<1>5. g \in BOOLEAN /\ (g <=> (f /\ t # <<>>))
  BY <1>1, <1>2, LegacyAfterValue DEF Store
<1>6. r \in BOOLEAN /\ (r => q)
  BY <1>1, <1>2, NotedWaits DEF Waits
<1>7. StoreInv(t, g, r)
  BY <1>3, <1>4, <1>5, <1>6, RemoveKeeps
<1>. QED  BY <1>2, <1>7

(* An insertion of key k under hash h.                                      *)
LEMMA InsertionGood ==
  ASSUME IInv, NEW k \in Keys, NEW v \in Vals, NEW h, h = RuntimeHash[k] \/ h = LookupHash[k],
         NEW g \in BOOLEAN, g \/ (h = RuntimeHash[k] /\ ~legacy),
         Store(Inserted(entries, k, v, h), g),
         quiet' \in BOOLEAN, quiet' => quiet,
         quiet' => \A i \in DOMAIN entries : Equal(entries[i].key, k) => i \in StoredAt(entries, k, h)
  PROVE  StoreInv(entries, legacy, quiet)'
<1>1. PICK s, f, q : s = entries /\ f = legacy /\ q = quiet
  OBVIOUS
<1>2. PICK t, r : t = entries' /\ r = quiet'
  OBVIOUS
<1>3. StoreInv(s, f, q)
  BY <1>1 DEF IInv
<1>4. t = Inserted(s, k, v, h) /\ g = legacy'
  BY <1>1, <1>2 DEF Store
<1>5. g \/ (h = RuntimeHash[k] /\ ~f)
  BY <1>1
<1>6. /\ r \in BOOLEAN /\ (r => q)
      /\ r => \A i \in DOMAIN s : Equal(s[i].key, k) => i \in StoredAt(s, k, h)
  BY <1>1, <1>2
<1>7. StoreInv(t, g, r)
  BY <1>3, <1>4, <1>5, <1>6, InsertKeeps
<1>. QED  BY <1>2, <1>4, <1>7

(* A call begins, is replaced, ends or stays: the four things that happen   *)
(* to the stack of calls.                                                   *)
LEMMA PushGood ==
  ASSUME IInv, CanRun, NEW c, GoodCall(c), Current(c, entries), calls' = Append(calls, c),
         UNCHANGED <<entries, legacy, quiet>>
  PROVE  IInv'
<1>1. PICK ds : ds = calls'
  OBVIOUS
<1>2. CallsInv(calls, entries, quiet) /\ (calls # <<>> => Len(calls) < MaxDepth) /\ ds = Append(calls, c)
  BY <1>1 DEF IInv, CanRun
<1>3. CallsInv(ds, entries, quiet)
  BY <1>2, PushKeeps
<1>4. entries' = entries /\ legacy' = legacy /\ quiet' = quiet
  OBVIOUS
<1>. QED  BY <1>1, <1>3, <1>4 DEF IInv

(* The running call goes on.                                                *)
LEMMA ReplaceGood ==
  ASSUME IInv, calls # <<>>, NEW c, GoodCall(c), quiet => Current(c, entries), Replace(c),
         UNCHANGED <<entries, legacy, quiet>>
  PROVE  IInv'
<1>1. PICK ds : ds = calls'
  OBVIOUS
<1>2. CallsInv(calls, entries, quiet) /\ ds = Append(Front(calls), c)
  BY <1>1 DEF IInv, Replace
<1>3. CallsInv(ds, entries, quiet)
  BY <1>2, ReplaceKeeps
<1>4. entries' = entries /\ legacy' = legacy /\ quiet' = quiet
  OBVIOUS
<1>. QED  BY <1>1, <1>3, <1>4 DEF IInv

(* The running call ends.                                                   *)
LEMMA PopGood ==
  ASSUME IInv, calls # <<>>, Pop, Waits(Len(calls) - 1, entries, entries', quiet, quiet')
  PROVE  CallsInv(calls, entries, quiet)'
<1>1. PICK ds, t, r : ds = calls' /\ t = entries' /\ r = quiet'
  OBVIOUS
<1>2. CallsInv(calls, entries, quiet) /\ ds = Front(calls) /\ Waits(Len(calls) - 1, entries, t, quiet, r)
  BY <1>1 DEF IInv, Pop
<1>3. CallsInv(ds, t, r)
  BY <1>2, PopKeeps
<1>. QED  BY <1>1, <1>3

(* No call begins or ends.                                                  *)
LEMMA StayGood ==
  ASSUME IInv, UNCHANGED calls, Waits(Len(calls), entries, entries', quiet, quiet')
  PROVE  CallsInv(calls, entries, quiet)'
<1>1. PICK t, r : t = entries' /\ r = quiet'
  OBVIOUS
<1>2. CallsInv(calls, entries, quiet) /\ Waits(Len(calls), entries, t, quiet, r)
  BY <1>1 DEF IInv
<1>3. CallsInv(calls, t, r)
  BY <1>2, StayKeeps
<1>. QED  BY <1>1, <1>3

(* A call ends without an effect.                                           *)
LEMMA EndGood ==
  ASSUME IInv, calls # <<>>, Pop, UNCHANGED <<entries, legacy, quiet>>
  PROVE  IInv'
<1>1. entries' = entries /\ legacy' = legacy /\ quiet' = quiet
  OBVIOUS
<1>2. Waits(Len(calls) - 1, entries, entries', quiet, quiet')
  BY <1>1 DEF Waits
<1>3. CallsInv(calls, entries, quiet)'
  BY <1>2, PopGood
<1>4. StoreInv(entries, legacy, quiet)'
  BY <1>1 DEF IInv
<1>. QED  BY <1>3, <1>4 DEF IInv

(* An operation begins.                                                     *)
LEMMA BeginGood ==
  ASSUME IInv, NEW k \in Keys, NEW op \in Valued \cup Plain,
         NEW v, v \in IF op \in Plain THEN {NoVal} ELSE Vals, Begin(op, k, v)
  PROVE  IInv'
<1>1. GoodCall(Call(op, k, v)) /\ Current(Call(op, k, v), entries)
  BY CallIsGood
<1>. QED  BY <1>1, PushGood DEF Begin

(* __missing__ goes to the factory.                                         *)
LEMMA MissingGood ==
  ASSUME IInv, NEW k \in Keys, NEW v \in Vals, Missing(k, v)
  PROVE  IInv'
<1>1. GoodCall(Call("missing", k, v)) /\ Current(Call("missing", k, v), entries)
  BY CallIsGood DEF Plain
<1>2. PICK c : c = [Call("missing", k, v) EXCEPT !.user = "factory"]
  OBVIOUS
<1>3. GoodCall(c)
  BY <1>1, <1>2 DEF GoodCall, CallType
<1>4. Current(c, entries)
  <2>1. /\ c.key = Call("missing", k, v).key /\ c.todo = Call("missing", k, v).todo
        /\ c.rest = Call("missing", k, v).rest
    BY <1>2 DEF Call
  <2>. QED  BY <1>1, <2>1 DEF Current, Covered, Valid
<1>. QED  BY <1>2, <1>3, <1>4, PushGood DEF Missing

(* Changes by code that runs outside every call, or inside one.             *)
LEMMA LegacySetGood ==
  ASSUME IInv, NEW k \in Keys, NEW v \in Vals, LegacySet(k, v)
  PROVE  IInv'
<1>1. /\ quiet' \in BOOLEAN /\ Waits(Len(calls), entries, entries', quiet, quiet')
      /\ quiet' => LookupHash[k] = RuntimeHash[k] /\ OnlyItself(k)
  BY NotedInsertWaits DEF LegacySet
<1>2. ASSUME quiet', NEW i \in DOMAIN entries, Equal(entries[i].key, k)
      PROVE  i \in StoredAt(entries, k, LookupHash[k])
  BY <1>1, <1>2, PlainIsOverwritten
<1>3. StoreInv(entries, legacy, quiet)'
  <2>1. PICK h : h = LookupHash[k]
    OBVIOUS
  <2>2. Store(Inserted(entries, k, v, h), TRUE)
    BY <2>1 DEF LegacySet
  <2>3. quiet' => \A i \in DOMAIN entries : Equal(entries[i].key, k) => i \in StoredAt(entries, k, h)
    BY <1>2, <2>1
  <2>. QED  BY <1>1, <2>1, <2>2, <2>3, InsertionGood DEF Waits
<1>4. CallsInv(calls, entries, quiet)'
  BY <1>1, StayGood DEF LegacySet
<1>. QED  BY <1>3, <1>4 DEF IInv

(* dict_remove_value takes out one entry.                                   *)
LEMMA LegacyRemoveGood ==
  ASSUME IInv, NEW k \in Keys, LegacyRemove(k)
  PROVE  IInv'
<1>1. PICK i \in LegacyPositions(k) : Store(RemoveAt(entries, i), LegacyAfter(RemoveAt(entries, i)))
  BY DEF LegacyRemove
<1>2. i \in DOMAIN entries
  BY DEF LegacyPositions, StoredAt
<1>3. Noted(Len(calls)) /\ UNCHANGED calls
  BY DEF LegacyRemove
<1>4. StoreInv(entries, legacy, quiet)'
  BY <1>1, <1>2, <1>3, RemovalGood
<1>5. CallsInv(calls, entries, quiet)'
  BY <1>3, NotedWaits, StayGood
<1>. QED  BY <1>4, <1>5 DEF IInv

(* clear empties the storage and lets the flag fall.                        *)
LEMMA ClearGood ==
  ASSUME IInv, Clear
  PROVE  IInv'
<1>1. quiet' \in BOOLEAN /\ Waits(Len(calls), entries, entries', quiet, quiet')
  BY NotedWaits DEF Clear
<1>2. CallsInv(calls, entries, quiet)'
  BY <1>1, StayGood DEF Clear
<1>3. entries' = <<>> /\ legacy' = FALSE
  BY DEF Clear, Store
<1>4. <<>> \in Seq(Entry) /\ Known(<<>>) /\ Findable(<<>>, FALSE) /\ Unique(<<>>)
  BY DEF Known, Findable, Unique
<1>5. StoreInv(entries, legacy, quiet)'
  BY <1>1, <1>3, <1>4 DEF StoreInv
<1>. QED  BY <1>2, <1>5 DEF IInv

(* popitem takes the last entry.                                            *)
LEMMA PopItemGood ==
  ASSUME IInv, PopItem
  PROVE  IInv'
<1>1. entries \in Seq(Entry) /\ entries # <<>>
  BY DEF PopItem, IInv, StoreInv
<1>2. Len(entries) \in DOMAIN entries /\ Front(entries) = RemoveAt(entries, Len(entries))
  BY <1>1, FrontIsRemoval
<1>3. Store(RemoveAt(entries, Len(entries)), LegacyAfter(RemoveAt(entries, Len(entries))))
  BY <1>2 DEF PopItem
<1>4. Noted(Len(calls)) /\ UNCHANGED calls
  BY DEF PopItem
<1>5. StoreInv(entries, legacy, quiet)'
  BY <1>2, <1>3, <1>4, RemovalGood
<1>6. CallsInv(calls, entries, quiet)'
  BY <1>4, NotedWaits, StayGood
<1>. QED  BY <1>5, <1>6 DEF IInv

(* What is compared next is in the snapshot, and as long as the snapshot    *)
(* has anything left there is something to compare.                         *)
LEMMA NextOfProperties ==
  ASSUME NEW c, GoodCall(c)
  PROVE  /\ NextOf(c) \subseteq c.todo \cup c.rest /\ NextOf(c) \subseteq Compared
         /\ NextOf(c) = {} => c.todo \cup c.rest = {}
<1>1. c.todo \subseteq Compared /\ c.rest \subseteq Compared
  BY DEF GoodCall, CallType
<1>2. NextOf(c) \subseteq c.todo \cup c.rest
  BY DEF NextOf
<1>3. ASSUME NextOf(c) = {}, c.rest # {} PROVE FALSE
  <2>1. c.todo = {}
    BY <1>3 DEF NextOf
  <2>2. PICK A : A = {x.at : x \in c.rest}
    OBVIOUS
  <2>3. A \subseteq Nat /\ A # {}
    BY <1>1, <1>3, <2>2 DEF Compared
  <2>4. Min(A) \in A /\ \A y \in A : Min(A) <= y
    BY <2>3, MinOfNats
  <2>5. PICK x \in c.rest : x.at = Min(A)
    BY <2>2, <2>4
  <2>6. \A y \in c.rest : x.at <= y.at
    BY <2>2, <2>4, <2>5
  <2>7. x \in NextOf(c)
    BY <2>1, <2>6 DEF NextOf
  <2>. QED  BY <1>3, <2>7
<1>4. NextOf(c) = {} => c.todo = {}
  BY DEF NextOf
<1>. QED  BY <1>1, <1>2, <1>3, <1>4

(* While the program is quiet, a call that has compared everything has      *)
(* found that no entry equals its key.                                      *)
LEMMA NothingEqual ==
  ASSUME IInv, calls # <<>>, NextOf(Top) = {}, quiet, NEW i \in DOMAIN entries
  PROVE  ~Equal(entries[i].key, Top.key)
<1>1. GoodCall(Top) /\ Covered(Top, entries)
  BY TopIsGood DEF Current
<1>2. Top.todo \cup Top.rest = {}
  BY <1>1, NextOfProperties
<1>. QED  BY <1>1, <1>2 DEF Covered

(* An element of the snapshot is, in a quiet program, where it was.         *)
LEMMA NextIsThere ==
  ASSUME IInv, calls # <<>>, NEW m \in NextOf(Top)
  PROVE  /\ m \in Compared /\ m \in Top.todo \cup Top.rest
         /\ quiet => StillThere(m)
<1>1. GoodCall(Top) /\ (quiet => Valid(Top, entries))
  BY TopIsGood DEF Current
<1>2. m \in Compared /\ m \in Top.todo \cup Top.rest
  BY <1>1, NextOfProperties
<1>. QED  BY <1>1, <1>2 DEF Valid, StillThere

(* A step that leaves the storage alone.                                    *)
LEMMA NoStoreGood ==
  ASSUME IInv, NEW n, Noted(n), UNCHANGED <<entries, legacy>>
  PROVE  StoreInv(entries, legacy, quiet)'
<1>1. quiet' \in BOOLEAN /\ (quiet' => quiet) /\ entries' = entries /\ legacy' = legacy
  BY NotedWaits DEF Waits
<1>. QED  BY <1>1 DEF IInv, StoreInv

(* An assignment overwrites the entry it found or, when that has moved,     *)
(* inserts its key; a quiet program leaves it where it was.                 *)
LEMMA HitSetGood ==
  ASSUME IInv, calls # <<>>, NEW m \in NextOf(Top), NEW n, Noted(n), HitSet(m, Top)
  PROVE  StoreInv(entries, legacy, quiet)'
<1>1. /\ GoodCall(Top) /\ Top.op = "set"
      /\ Store(SetAt(m, Top), legacy)
  BY TopIsGood DEF HitSet
<1>2. Top.val \in Vals /\ Top.key \in Keys
  BY <1>1 DEF GoodCall, CallType, Plain
<1>3. quiet' \in BOOLEAN /\ (quiet' => quiet)
  BY NotedWaits DEF Waits
<1>4. PICK v \in Vals, k \in Keys : v = Top.val /\ k = Top.key
  BY <1>2
<1>5. CASE StillThere(m)
  <2>1. PICK t, r : t = entries' /\ r = quiet'
    OBVIOUS
  <2>2. t = [entries EXCEPT ![m.at].val = v] /\ legacy' = legacy
    BY <1>1, <1>4, <1>5, <2>1 DEF SetAt, Store
  <2>3. PICK i \in DOMAIN entries : i = m.at
    BY <1>5 DEF StillThere
  <2>4. StoreInv(entries, legacy, quiet) /\ t = Revalued(entries, i, v)
    BY <2>2, <2>3 DEF IInv, Revalued
  <2>5. r \in BOOLEAN /\ (r => quiet)
    BY <1>3, <2>1
  <2>6. PICK f, q : f = legacy /\ q = quiet
    OBVIOUS
  <2>7. StoreInv(entries, f, q) /\ r \in BOOLEAN /\ (r => q)
    BY <2>4, <2>5, <2>6
  <2>8. StoreInv(t, f, r)
    BY <2>4, <2>7, OverwriteKeeps
  <2>. QED  BY <2>1, <2>2, <2>6, <2>8
<1>6. CASE ~StillThere(m)
  <2>1. ~quiet'
    BY <1>3, <1>6, NextIsThere
  <2>2. PICK h : h = RuntimeHash[k]
    OBVIOUS
  <2>3. Store(Inserted(entries, k, v, h), legacy)
    BY <1>1, <1>4, <1>6, <2>2 DEF SetAt
  <2>4. legacy \in BOOLEAN
    BY DEF IInv, StoreInv
  <2>. QED  BY <1>3, <2>1, <2>2, <2>3, <2>4, InsertionGood
<1>. QED  BY <1>5, <1>6

(* A deletion takes out the entry it found, if it is still there.           *)
LEMMA HitDelGood ==
  ASSUME IInv, calls # <<>>, NEW m \in NextOf(Top), NEW n, Noted(n), HitDel(m, Top)
  PROVE  StoreInv(entries, legacy, quiet)'
<1>1. CASE StillThere(m)
  <2>1. PICK i \in DOMAIN entries : i = m.at
    BY <1>1 DEF StillThere
  <2>2. Store(RemoveAt(entries, i), LegacyAfter(RemoveAt(entries, i)))
    BY <1>1, <2>1 DEF HitDel
  <2>. QED  BY <2>2, RemovalGood
<1>2. CASE ~StillThere(m)
  BY <1>2, NoStoreGood DEF HitDel
<1>. QED  BY <1>1, <1>2

(* A move takes the entry it found to either end, if it is still there.     *)
LEMMA HitMoveGood ==
  ASSUME IInv, calls # <<>>, NEW m \in NextOf(Top), Equal(m.key, Top.key),
         NEW n, Noted(n), HitMove(m, Top)
  PROVE  StoreInv(entries, legacy, quiet)'
<1>1. CASE StillThere(m)
  <2>1. PICK i \in DOMAIN entries : i = m.at /\ Equal(entries[i].key, Top.key)
    BY <1>1 DEF StillThere
  <2>2. PICK k \in Keys : k = Top.key
    BY TopIsGood DEF GoodCall, CallType
  <2>3. PICK t, r, f, q : t = entries' /\ r = quiet' /\ f = legacy /\ q = quiet
    OBVIOUS
  <2>4. r \in BOOLEAN /\ (r => q) /\ StoreInv(entries, f, q)
    BY <2>3, NotedWaits DEF Waits, IInv
  <2>5. legacy' = TRUE
    BY <1>1 DEF HitMove, Store
  <2>6. t = MovedLast(i, k) \/ t = MovedFirst(i, k)
    BY <1>1, <2>1, <2>2, <2>3 DEF HitMove, Store
  <2>7. StoreInv(t, TRUE, r)
    BY <2>1, <2>2, <2>4, <2>6, MovedLastKeeps, MovedFirstKeeps
  <2>. QED  BY <2>3, <2>5, <2>7
<1>2. CASE ~StillThere(m)
  BY <1>2, NoStoreGood DEF HitMove
<1>. QED  BY <1>1, <1>2

(* The compared entry is equal: the call does its work and ends.            *)
LEMMA CompareHitGood ==
  ASSUME IInv, calls # <<>>, NEW m \in NextOf(Top), CompareHit(m)
  PROVE  IInv'
<1>1. /\ Equal(m.key, Top.key) /\ Noted(Len(calls) - 1) /\ Pop
      /\ HitGet(m, Top) \/ HitSet(m, Top) \/ HitDel(m, Top) \/ HitMove(m, Top)
  BY DEF CompareHit
<1>2. CallsInv(calls, entries, quiet)'
  BY <1>1, NotedWaits, PopGood
<1>3. CASE HitGet(m, Top)
  BY <1>1, <1>2, <1>3, NoStoreGood DEF HitGet, IInv
<1>4. CASE HitSet(m, Top)
  BY <1>1, <1>2, <1>4, HitSetGood DEF IInv
<1>5. CASE HitDel(m, Top)
  BY <1>1, <1>2, <1>5, HitDelGood DEF IInv
<1>6. CASE HitMove(m, Top)
  BY <1>1, <1>2, <1>6, HitMoveGood DEF IInv
<1>. QED  BY <1>1, <1>3, <1>4, <1>5, <1>6

(* The compared entry is not equal: what is left of the snapshot still has  *)
(* every equal one.                                                         *)
LEMMA CompareMissGood ==
  ASSUME IInv, calls # <<>>, NEW m \in NextOf(Top), CompareMiss(m)
  PROVE  IInv'
<1>1. PICK c : c = Top
  OBVIOUS
<1>2. PICK d : d = [c EXCEPT !.todo = @ \ {m}, !.rest = @ \ {m}]
  OBVIOUS
<1>3. GoodCall(c) /\ (quiet => Current(c, entries))
  BY <1>1, TopIsGood
<1>4. GoodCall(d) /\ d.key = c.key /\ d.todo = c.todo \ {m} /\ d.rest = c.rest \ {m}
  BY <1>2, <1>3 DEF GoodCall, CallType
<1>5. ~Equal(m.key, c.key)
  BY <1>1 DEF CompareMiss
<1>6. ASSUME quiet PROVE Current(d, entries)
  <2>1. Covered(c, entries) /\ Valid(c, entries)
    BY <1>3, <1>6 DEF Current
  <2>2. Valid(d, entries)
    BY <1>4, <2>1 DEF Valid
  <2>3. ASSUME NEW i \in DOMAIN entries, Equal(entries[i].key, d.key)
        PROVE  [at |-> i, key |-> entries[i].key] \in d.todo \cup d.rest
    <3>1. PICK x : x = [at |-> i, key |-> entries[i].key]
      OBVIOUS
    <3>2. x \in c.todo \cup c.rest
      BY <1>4, <2>1, <2>3, <3>1 DEF Covered
    <3>3. x.key = entries[i].key
      BY <3>1
    <3>4. x # m
      BY <1>4, <1>5, <2>3, <3>3
    <3>. QED  BY <1>4, <3>1, <3>2, <3>4
  <2>. QED  BY <2>2, <2>3 DEF Current, Covered
<1>7. Replace(d) /\ UNCHANGED <<entries, legacy, quiet>>
  BY <1>1, <1>2 DEF CompareMiss
<1>. QED  BY <1>4, <1>6, <1>7, ReplaceGood

(* Nothing was equal, so in a quiet program the key that is added is new.   *)
LEMMA NotFoundSetGood ==
  ASSUME IInv, calls # <<>>, NextOf(Top) = {}, NotFoundSet
  PROVE  IInv'
<1>1. /\ Top.op = "set" /\ Noted(Len(calls) - 1) /\ Pop
      /\ Store(Inserted(entries, Top.key, Top.val, RuntimeHash[Top.key]), legacy)
  BY DEF NotFoundSet
<1>2. Top.val \in Vals /\ Top.key \in Keys
  BY <1>1, TopIsGood DEF GoodCall, CallType, Plain
<1>3. PICK v \in Vals, k \in Keys : v = Top.val /\ k = Top.key
  BY <1>2
<1>3a. PICK h : h = RuntimeHash[k]
  OBVIOUS
<1>4. quiet' \in BOOLEAN /\ (quiet' => quiet) /\ legacy \in BOOLEAN
  BY <1>1, NotedWaits DEF Waits, IInv, StoreInv
<1>5. Store(Inserted(entries, k, v, h), legacy)
  BY <1>1, <1>3, <1>3a
<1>6. quiet' => \A i \in DOMAIN entries : ~Equal(entries[i].key, k)
  BY <1>3, <1>3a, <1>4, NothingEqual
<1>7. StoreInv(entries, legacy, quiet)'
  BY <1>3, <1>3a, <1>4, <1>5, <1>6, InsertionGood
<1>8. CallsInv(calls, entries, quiet)'
  BY <1>1, NotedWaits, PopGood
<1>. QED  BY <1>7, <1>8 DEF IInv

(* A call that starts over, as an assignment of the same key and value.     *)
LEMMA RetryGood ==
  ASSUME IInv, calls # <<>>, Top.op \in {"setdefault", "getdefault"},
         Replace(Call("set", Top.key, Top.val)), UNCHANGED <<entries, legacy, quiet>>
  PROVE  IInv'
<1>1. Top.val \in Vals /\ Top.key \in Keys
  BY TopIsGood DEF GoodCall, CallType, Plain
<1>2. PICK v \in Vals, k \in Keys : v = Top.val /\ k = Top.key
  BY <1>1
<1>3. GoodCall(Call("set", k, v)) /\ Current(Call("set", k, v), entries)
  BY CallIsGood DEF Valued, Plain
<1>4. Replace(Call("set", k, v))
  BY <1>2
<1>. QED  BY <1>3, <1>4, ReplaceGood

(* A defaultdict goes to its factory.                                       *)
LEMMA NotFoundFactoryGood ==
  ASSUME IInv, calls # <<>>, NotFoundFactory
  PROVE  IInv'
<1>1. PICK c : c = Top
  OBVIOUS
<1>2. PICK d : d = [c EXCEPT !.user = "factory"]
  OBVIOUS
<1>3. GoodCall(c) /\ (quiet => Current(c, entries))
  BY <1>1, TopIsGood
<1>4. GoodCall(d) /\ d.key = c.key /\ d.todo = c.todo /\ d.rest = c.rest
  BY <1>2, <1>3 DEF GoodCall, CallType
<1>5. quiet => Current(d, entries)
  BY <1>3, <1>4 DEF Current, Covered, Valid
<1>6. Replace(d) /\ UNCHANGED <<entries, legacy, quiet>>
  BY <1>1, <1>2 DEF NotFoundFactory
<1>. QED  BY <1>4, <1>5, <1>6, ReplaceGood

(* The factory returns: the value is assigned by a lookup, or stored at     *)
(* once.                                                                    *)
LEMMA FactoryReturnsGood ==
  ASSUME IInv, calls # <<>>, FactoryReturns
  PROVE  IInv'
<1>1. CASE Top.op = "getdefault"
  BY <1>1, RetryGood DEF FactoryReturns
<1>2. CASE Top.op # "getdefault"
  <2>1. /\ Top.op = "missing" /\ Pop /\ NotedInsert(Len(calls) - 1, Top.key)
        /\ Store(Inserted(entries, Top.key, Top.val, LookupHash[Top.key]), TRUE)
    BY <1>2 DEF FactoryReturns
  <2>2. Top.val \in Vals /\ Top.key \in Keys
    BY <2>1, TopIsGood DEF GoodCall, CallType, Plain
  <2>3. PICK v \in Vals, k \in Keys : v = Top.val /\ k = Top.key
    BY <2>2
  <2>3a. PICK h : h = LookupHash[k]
    OBVIOUS
  <2>4. /\ quiet' \in BOOLEAN /\ Waits(Len(calls) - 1, entries, entries', quiet, quiet')
        /\ quiet' => LookupHash[k] = RuntimeHash[k] /\ OnlyItself(k)
    BY <2>1, <2>3, <2>3a, NotedInsertWaits
  <2>5. Store(Inserted(entries, k, v, h), TRUE)
    BY <2>1, <2>3, <2>3a
  <2>6. quiet' => \A i \in DOMAIN entries : Equal(entries[i].key, k) => i \in StoredAt(entries, k, h)
    BY <2>3, <2>3a, <2>4, PlainIsOverwritten
  <2>7. StoreInv(entries, legacy, quiet)'
    BY <2>3, <2>3a, <2>4, <2>5, <2>6, InsertionGood DEF Waits
  <2>8. CallsInv(calls, entries, quiet)'
    BY <2>1, <2>4, PopGood
  <2>. QED  BY <2>7, <2>8 DEF IInv
<1>. QED  BY <1>1, <1>2

(* Every step of a call keeps the invariant.                                *)
LEMMA StepGood ==
  ASSUME IInv, Step
  PROVE  IInv'
<1>1. CASE Comparing /\ \E m \in NextOf(Top) : CompareHit(m) \/ CompareMiss(m)
  BY <1>1, CompareHitGood, CompareMissGood DEF Comparing
<1>2. CASE /\ Comparing /\ NextOf(Top) = {}
           /\ NotFoundSet \/ NotFoundRetry \/ NotFoundFactory \/ NotFoundError
  <2>1. calls # <<>> /\ NextOf(Top) = {}
    BY <1>2 DEF Comparing
  <2>2. CASE NotFoundSet
    BY <2>1, <2>2, NotFoundSetGood
  <2>3. CASE NotFoundRetry
    BY <2>1, <2>3, RetryGood DEF NotFoundRetry
  <2>4. CASE NotFoundFactory
    BY <2>1, <2>4, NotFoundFactoryGood
  <2>5. CASE NotFoundError
    BY <2>1, <2>5, EndGood DEF NotFoundError
  <2>. QED  BY <1>2, <2>2, <2>3, <2>4, <2>5
<1>3. CASE calls # <<>> /\ Top.user = "factory" /\ FactoryReturns
  BY <1>3, FactoryReturnsGood
<1>4. CASE calls # <<>> /\ Raises
  BY <1>4, EndGood DEF Raises
<1>. QED  BY <1>1, <1>2, <1>3, <1>4 DEF Step

(* Every step does.                                                         *)
LEMMA NextGood == IInv /\ [Next]_vars => IInv'
<1>. SUFFICES ASSUME IInv, [Next]_vars PROVE IInv'
  OBVIOUS
<1>1. CASE \E k \in Keys, v \in Vals, op \in Valued : Begin(op, k, v)
  <2>1. PICK k \in Keys, v \in Vals, op \in Valued : Begin(op, k, v)
    BY <1>1
  <2>2. op \in Valued \cup Plain /\ v \in IF op \in Plain THEN {NoVal} ELSE Vals
    BY DEF Valued, Plain
  <2>. QED  BY <2>1, <2>2, BeginGood
<1>2. CASE \E k \in Keys, op \in Plain : Begin(op, k, NoVal)
  <2>1. PICK k \in Keys, op \in Plain : Begin(op, k, NoVal)
    BY <1>2
  <2>2. op \in Valued \cup Plain /\ NoVal \in IF op \in Plain THEN {NoVal} ELSE Vals
    OBVIOUS
  <2>. QED  BY <2>1, <2>2, BeginGood
<1>3. CASE \E k \in Keys, v \in Vals : Missing(k, v) \/ LegacySet(k, v)
  BY <1>3, MissingGood, LegacySetGood
<1>4. CASE \E k \in Keys : LegacyRemove(k)
  BY <1>4, LegacyRemoveGood
<1>5. CASE Clear
  BY <1>5, ClearGood
<1>6. CASE PopItem
  BY <1>6, PopItemGood
<1>7. CASE Step
  BY <1>7, StepGood
<1>8. CASE UNCHANGED vars
  <2>1. entries' = entries /\ legacy' = legacy /\ calls' = calls /\ quiet' = quiet
    BY <1>8 DEF vars
  <2>. QED  BY <2>1 DEF IInv
<1>. QED  BY <1>1, <1>2, <1>3, <1>4, <1>5, <1>6, <1>7, <1>8 DEF Next

(* The empty dict has it.                                                   *)
LEMMA InitGood == Init => IInv
<1>1. SUFFICES ASSUME Init PROVE IInv
  OBVIOUS
<1>2. entries = <<>> /\ legacy = FALSE /\ calls = <<>> /\ quiet = TRUE
  BY <1>1 DEF Init
<1>3. <<>> \in Seq(Entry) /\ Known(<<>>) /\ Findable(<<>>, FALSE) /\ Unique(<<>>)
  BY DEF Known, Findable, Unique
<1>4. CallsInv(<<>>, <<>>, TRUE)
  BY KeyAssumption DEF CallsInv
<1>. QED  BY <1>2, <1>3, <1>4 DEF IInv, StoreInv

(* The strengthened invariant holds of every behaviour.                     *)
LEMMA Invariance == Spec => []IInv
BY InitGood, NextGood, PTL DEF Spec

(* It says what DictConsistent says.                                        *)
LEMMA IInvImplies == IInv => DictConsistent
<1>1. SUFFICES ASSUME IInv PROVE DictConsistent
  OBVIOUS
<1>2. /\ entries \in Seq(Entry) /\ legacy \in BOOLEAN /\ quiet \in BOOLEAN /\ Len(calls) <= MaxDepth
      /\ \A i \in DOMAIN calls : GoodCall(calls[i])
  BY <1>1 DEF IInv, StoreInv, CallsInv
<1>3. ASSUME NEW c, GoodCall(c)
      PROVE  /\ c.op \in Valued \cup Plain \cup {"missing"}
             /\ c.key \in Keys
             /\ c.val \in IF c.op \in Plain THEN {NoVal} ELSE Vals
             /\ c.user \in {"eq", "factory"}
             /\ c.todo \subseteq Compared /\ c.rest \subseteq Compared
  BY <1>3 DEF GoodCall, CallType
<1>4. TypeOK
  BY <1>2, <1>3 DEF TypeOK
<1>5. StoredKeysFound
  BY <1>1 DEF IInv, StoreInv, Findable, StoredKeysFound
<1>6. NoEqualKeys
  BY <1>1 DEF IInv, StoreInv, Unique, NoEqualKeys
<1>. QED  BY <1>4, <1>5, <1>6 DEF DictConsistent

(* Every entry of a dict object can be found, the flag of the full scan is  *)
(* up whenever that takes it, and as long as the program is quiet no two    *)
(* keys are equal (dict_lookup_entry_runtime, legacy_hash_fallback).        *)
THEOREM DictsAreConsistent == Spec => []DictConsistent
BY Invariance, IInvImplies, PTL

-----------------------------------------------------------------------------
(* What a call leaves of the other keys                                     *)

(* An order-preserving map from the places of the other keys onto those     *)
(* after the change shows that nothing happened to them.                    *)
LEMMA SameOthersBy ==
  ASSUME NEW s \in Seq(Entry), NEW t \in Seq(Entry), NEW k,
         NEW f \in [OtherPlaces(s, k) -> OtherPlaces(t, k)],
         \A i \in OtherPlaces(s, k) : t[f[i]].key = s[i].key /\ t[f[i]].val = s[i].val,
         \A i, j \in OtherPlaces(s, k) : i < j => f[i] < f[j],
         \A j \in OtherPlaces(t, k) : \E i \in OtherPlaces(s, k) : f[i] = j
  PROVE  SameOthers(s, t, k)
<1>1. OtherPlaces(s, k) \subseteq Nat /\ OtherPlaces(t, k) \subseteq Nat
  BY DEF OtherPlaces
<1>2. ASSUME NEW i \in OtherPlaces(s, k), NEW j \in OtherPlaces(s, k), f[i] = f[j]
      PROVE  i = j
  <2>1. f[i] \in Nat /\ i \in Nat /\ j \in Nat
    BY <1>1
  <2>2. ~(i < j) /\ ~(j < i)
    BY <1>2, <2>1
  <2>. QED  BY <2>1, <2>2
<1>3. f \in Bijection(OtherPlaces(s, k), OtherPlaces(t, k))
  BY <1>2 DEF Bijection, Injection, Surjection, IsInjective
<1>4. DOMAIN f = OtherPlaces(s, k)
  OBVIOUS
<1>. QED  BY <1>3, <1>4 DEF SameOthers

(* One change after the other.                                              *)
LEMMA SameOthersThen ==
  ASSUME NEW s \in Seq(Entry), NEW t \in Seq(Entry), NEW u \in Seq(Entry), NEW k,
         SameOthers(s, t, k), SameOthers(t, u, k)
  PROVE  SameOthers(s, u, k)
<1>1. PICK f \in Bijection(OtherPlaces(s, k), OtherPlaces(t, k)) :
        /\ \A i \in DOMAIN f : t[f[i]].key = s[i].key /\ t[f[i]].val = s[i].val
        /\ \A i, j \in DOMAIN f : i < j => f[i] < f[j]
  BY DEF SameOthers
<1>2. PICK g \in Bijection(OtherPlaces(t, k), OtherPlaces(u, k)) :
        /\ \A i \in DOMAIN g : u[g[i]].key = t[i].key /\ u[g[i]].val = t[i].val
        /\ \A i, j \in DOMAIN g : i < j => g[i] < g[j]
  BY DEF SameOthers
<1>3. /\ f \in [OtherPlaces(s, k) -> OtherPlaces(t, k)]
      /\ \A j \in OtherPlaces(t, k) : \E i \in OtherPlaces(s, k) : f[i] = j
  BY DEF Bijection, Surjection
<1>4. /\ g \in [OtherPlaces(t, k) -> OtherPlaces(u, k)]
      /\ \A j \in OtherPlaces(u, k) : \E i \in OtherPlaces(t, k) : g[i] = j
  BY DEF Bijection, Surjection
<1>5. PICK h : h = [i \in OtherPlaces(s, k) |-> g[f[i]]]
  OBVIOUS
<1>6. h \in [OtherPlaces(s, k) -> OtherPlaces(u, k)]
  BY <1>3, <1>4, <1>5
<1>7. \A i \in OtherPlaces(s, k) : u[h[i]].key = s[i].key /\ u[h[i]].val = s[i].val
  <2>1. \A i \in OtherPlaces(s, k) : t[f[i]].key = s[i].key /\ t[f[i]].val = s[i].val
    BY <1>1, <1>3
  <2>2. \A i \in OtherPlaces(t, k) : u[g[i]].key = t[i].key /\ u[g[i]].val = t[i].val
    BY <1>2, <1>4
  <2>3. \A i \in OtherPlaces(s, k) : f[i] \in OtherPlaces(t, k) /\ h[i] = g[f[i]]
    BY <1>3, <1>5
  <2>. QED  BY <2>1, <2>2, <2>3
<1>8. \A i, j \in OtherPlaces(s, k) : i < j => h[i] < h[j]
  BY <1>1, <1>2, <1>3, <1>4, <1>5
<1>9. \A j \in OtherPlaces(u, k) : \E i \in OtherPlaces(s, k) : h[i] = j
  BY <1>3, <1>4, <1>5
<1>. QED  BY <1>6, <1>7, <1>8, <1>9, SameOthersBy

(* The entries of t are those of s in their places, but for the values of   *)
(* keys equal to k and such a key at the end.                               *)
Extends(s, t, k) ==
  /\ Len(s) <= Len(t)
  /\ \A i \in 1 .. Len(s) : t[i].key = s[i].key /\ (~Equal(s[i].key, k) => t[i].val = s[i].val)
  /\ \A i \in 1 .. Len(t) : i > Len(s) => Equal(t[i].key, k)

(* Such a change leaves the other keys alone.                               *)
LEMMA ExtendsLeavesOthers ==
  ASSUME NEW s \in Seq(Entry), NEW t \in Seq(Entry), NEW k, Extends(s, t, k)
  PROVE  SameOthers(s, t, k)
<1>1. Len(s) \in Nat /\ Len(t) \in Nat /\ DOMAIN s = 1 .. Len(s) /\ DOMAIN t = 1 .. Len(t)
  OBVIOUS
<1>2. OtherPlaces(t, k) = OtherPlaces(s, k)
  <2>1. ASSUME NEW i \in OtherPlaces(s, k) PROVE i \in OtherPlaces(t, k)
    <3>1. i \in 1 .. Len(s) /\ ~Equal(s[i].key, k)
      BY <1>1 DEF OtherPlaces
    <3>2. t[i].key = s[i].key /\ i \in 1 .. Len(t)
      BY <1>1, <3>1 DEF Extends
    <3>. QED  BY <1>1, <3>1, <3>2 DEF OtherPlaces
  <2>2. ASSUME NEW i \in OtherPlaces(t, k) PROVE i \in OtherPlaces(s, k)
    <3>1. i \in 1 .. Len(t) /\ ~Equal(t[i].key, k)
      BY <1>1 DEF OtherPlaces
    <3>2. i \in 1 .. Len(s)
      BY <1>1, <3>1 DEF Extends
    <3>3. t[i].key = s[i].key
      BY <3>2 DEF Extends
    <3>. QED  BY <1>1, <3>1, <3>2, <3>3 DEF OtherPlaces
  <2>. QED  BY <2>1, <2>2
<1>3. PICK f : f = [i \in OtherPlaces(s, k) |-> i]
  OBVIOUS
<1>4. \A i \in OtherPlaces(s, k) : f[i] = i /\ i \in 1 .. Len(s) /\ ~Equal(s[i].key, k)
  BY <1>1, <1>3 DEF OtherPlaces
<1>5. f \in [OtherPlaces(s, k) -> OtherPlaces(t, k)]
  BY <1>2, <1>3
<1>6. \A i \in OtherPlaces(s, k) : t[f[i]].key = s[i].key /\ t[f[i]].val = s[i].val
  BY <1>4 DEF Extends
<1>7. \A i, j \in OtherPlaces(s, k) : i < j => f[i] < f[j]
  BY <1>4
<1>8. \A j \in OtherPlaces(t, k) : \E i \in OtherPlaces(s, k) : f[i] = j
  BY <1>2, <1>4
<1>. QED  BY <1>5, <1>6, <1>7, <1>8, SameOthersBy

(* An insertion of k is one, and afterwards its value is there.             *)
LEMMA InsertLeavesOthers ==
  ASSUME NEW s \in Seq(Entry), NEW k \in Keys, NEW v \in Vals, NEW h \in Hashes,
         NEW t, t = Inserted(s, k, v, h)
  PROVE  /\ t \in Seq(Entry) /\ SameOthers(s, t, k)
         /\ \E i \in DOMAIN t : t[i].val = v /\ Equal(t[i].key, k)
<1>1. t \in Seq(Entry) /\ (Overwrites(s, k, v, h, t) \/ Lengthens(s, k, v, h, t))
  BY InsertedProperties
<1>2. Len(s) \in Nat /\ Len(t) \in Nat /\ DOMAIN s = 1 .. Len(s) /\ DOMAIN t = 1 .. Len(t)
  BY <1>1
<1>3. Equal(k, k)
  BY DEF Equal
<1>4. CASE Overwrites(s, k, v, h, t)
  <2>1. Len(t) = Len(s) /\ \A i \in 1 .. Len(s) :
          t[i].key = s[i].key /\ t[i].val = IF s[i].key = k /\ s[i].hash = h THEN v ELSE s[i].val
    BY <1>4 DEF Overwrites
  <2>2. Extends(s, t, k)
    BY <1>2, <1>3, <2>1 DEF Extends
  <2>3. PICK i \in StoredAt(s, k, h) : TRUE
    BY <1>4 DEF Overwrites
  <2>4. i \in 1 .. Len(s) /\ s[i].key = k /\ s[i].hash = h
    BY <1>2 DEF StoredAt
  <2>5. t[i].val = v /\ t[i].key = k /\ i \in DOMAIN t
    BY <1>2, <2>1, <2>4
  <2>. QED  BY <1>1, <1>3, <2>2, <2>5, ExtendsLeavesOthers
<1>5. CASE Lengthens(s, k, v, h, t)
  <2>1. Len(t) = Len(s) + 1 /\ (\A i \in 1 .. Len(s) : t[i] = s[i])
        /\ t[Len(s) + 1].key = k /\ t[Len(s) + 1].val = v
    BY <1>5 DEF Lengthens
  <2>2. \A i \in 1 .. Len(t) : i > Len(s) => i = Len(s) + 1
    BY <1>2, <2>1
  <2>3. Extends(s, t, k)
    BY <1>2, <1>3, <2>1, <2>2 DEF Extends
  <2>4. Len(s) + 1 \in DOMAIN t
    BY <1>2, <2>1
  <2>. QED  BY <1>1, <1>3, <2>1, <2>3, <2>4, ExtendsLeavesOthers
<1>. QED  BY <1>1, <1>4, <1>5

(* So does taking out an entry whose key equals k.                          *)
LEMMA RemoveLeavesOthers ==
  ASSUME NEW s \in Seq(Entry), NEW i \in DOMAIN s, NEW k, Equal(s[i].key, k),
         NEW t, t = RemoveAt(s, i)
  PROVE  t \in Seq(Entry) /\ SameOthers(s, t, k)
<1>1. /\ t \in Seq(Entry) /\ Len(t) = Len(s) - 1 /\ Len(s) \in Nat \ {0}
      /\ i \in 1 .. Len(s)
      /\ \A j \in DOMAIN t : t[j] = s[Before(i, j)]
  BY RemovedPlaces
<1>2. DOMAIN s = 1 .. Len(s) /\ DOMAIN t = 1 .. (Len(s) - 1)
  BY <1>1
<1>3. PICK f : f = [j \in OtherPlaces(s, k) |-> IF j < i THEN j ELSE j - 1]
  OBVIOUS
<1>4. ASSUME NEW j \in OtherPlaces(s, k)
      PROVE  /\ f[j] \in DOMAIN t /\ Before(i, f[j]) = j
             /\ j \in 1 .. Len(s) /\ j # i /\ ~Equal(s[j].key, k)
             /\ f[j] = IF j < i THEN j ELSE j - 1
  <2>1. j \in 1 .. Len(s) /\ ~Equal(s[j].key, k) /\ j # i
    BY <1>2 DEF OtherPlaces
  <2>2. f[j] = IF j < i THEN j ELSE j - 1
    BY <1>3
  <2>3. f[j] \in DOMAIN t
    BY <1>1, <1>2, <2>1, <2>2
  <2>4. Before(i, f[j]) = j
    BY <1>1, <2>1, <2>2 DEF Before
  <2>. QED  BY <2>1, <2>2, <2>3, <2>4
<1>5. \A j \in OtherPlaces(s, k) : t[f[j]] = s[j]
  BY <1>1, <1>4
<1>6. f \in [OtherPlaces(s, k) -> OtherPlaces(t, k)]
  <2>1. \A j \in OtherPlaces(s, k) : f[j] \in OtherPlaces(t, k)
    BY <1>4, <1>5 DEF OtherPlaces
  <2>. QED  BY <1>3, <2>1
<1>7. \A j, l \in OtherPlaces(s, k) : j < l => f[j] < f[l]
  BY <1>1, <1>4
<1>8. ASSUME NEW j \in OtherPlaces(t, k) PROVE \E l \in OtherPlaces(s, k) : f[l] = j
  <2>1. j \in DOMAIN t /\ ~Equal(t[j].key, k)
    BY DEF OtherPlaces
  <2>2. Before(i, j) \in OtherPlaces(s, k)
    <3>1. Before(i, j) \in DOMAIN s /\ t[j] = s[Before(i, j)]
      BY <2>1, RemovedPlaces
    <3>. QED  BY <2>1, <3>1 DEF OtherPlaces
  <2>3. f[Before(i, j)] = j
    BY <1>1, <1>2, <1>3, <2>1, <2>2 DEF Before
  <2>. QED  BY <2>2, <2>3
<1>9. \A j \in OtherPlaces(s, k) : t[f[j]].key = s[j].key /\ t[f[j]].val = s[j].val
  BY <1>5
<1>. QED  BY <1>1, <1>6, <1>7, <1>8, <1>9, SameOthersBy

(* A move to the front puts every other entry one place further.            *)
LEMMA ListedLeavesOthers ==
  ASSUME NEW e, NEW u \in Seq(Entry), NEW t \in Seq(Entry), Listed(e, u, t, Len(u)),
         NEW k, Equal(e.key, k)
  PROVE  SameOthers(u, t, k)
<1>1. Len(u) \in Nat /\ DOMAIN u = 1 .. Len(u) /\ DOMAIN t = 1 .. (Len(u) + 1)
  BY DEF Listed
<1>2. t[1] = e /\ \A j \in 1 .. Len(u) : t[j + 1].key = u[j].key /\ t[j + 1].val = u[j].val
  <2>1. t[1] = e /\ \A j \in 1 .. Len(u) : t[j + 1] = Rehashed(u[j])
    BY DEF Listed
  <2>2. \A a : Rehashed(a).key = a.key /\ Rehashed(a).val = a.val
    BY DEF Rehashed
  <2>. QED  BY <2>1, <2>2
<1>3. PICK f : f = [j \in OtherPlaces(u, k) |-> j + 1]
  OBVIOUS
<1>4. ASSUME NEW j \in OtherPlaces(u, k)
      PROVE  f[j] = j + 1 /\ j \in 1 .. Len(u) /\ f[j] \in DOMAIN t /\ ~Equal(u[j].key, k)
  <2>1. f[j] = j + 1 /\ j \in 1 .. Len(u) /\ ~Equal(u[j].key, k)
    BY <1>1, <1>3 DEF OtherPlaces
  <2>. QED  BY <1>1, <2>1
<1>5. \A j \in OtherPlaces(u, k) : t[f[j]].key = u[j].key /\ t[f[j]].val = u[j].val
  BY <1>2, <1>4
<1>6. f \in [OtherPlaces(u, k) -> OtherPlaces(t, k)]
  <2>1. \A j \in OtherPlaces(u, k) : f[j] \in OtherPlaces(t, k)
    BY <1>4, <1>5 DEF OtherPlaces
  <2>. QED  BY <1>3, <2>1
<1>7. \A j, l \in OtherPlaces(u, k) : j < l => f[j] < f[l]
  BY <1>4
<1>8. ASSUME NEW j \in OtherPlaces(t, k) PROVE \E l \in OtherPlaces(u, k) : f[l] = j
  <2>1. j \in 1 .. (Len(u) + 1) /\ ~Equal(t[j].key, k) /\ j # 1
    BY <1>1, <1>2 DEF OtherPlaces
  <2>2. PICK l \in 1 .. Len(u) : l + 1 = j
    <3>1. j - 1 \in 1 .. Len(u) /\ (j - 1) + 1 = j
      BY <1>1, <2>1
    <3>. QED  BY <3>1
  <2>3. ~Equal(u[l].key, k)
    BY <1>2, <2>1, <2>2
  <2>4. l \in OtherPlaces(u, k)
    BY <1>1, <2>3 DEF OtherPlaces
  <2>. QED  BY <1>4, <2>2, <2>4
<1>. QED  BY <1>5, <1>6, <1>7, <1>8, SameOthersBy

(* A move of entry i, whose key equals k, to either end.                    *)
LEMMA MoveLeavesOthers ==
  ASSUME NEW f, NEW q, StoreInv(entries, f, q), NEW i \in DOMAIN entries, NEW k \in Keys,
         Equal(entries[i].key, k)
  PROVE  /\ SameOthers(entries, MovedLast(i, k), k)
         /\ q => SameOthers(entries, MovedFirst(i, k), k)
<1>1. entries \in Seq(Entry) /\ entries[i] \in Entry /\ (q => Unique(entries))
  BY DEF StoreInv
<1>2. PICK u : u = RemoveAt(entries, i)
  OBVIOUS
<1>3. u \in Seq(Entry) /\ SameOthers(entries, u, k)
  BY <1>1, <1>2, RemoveLeavesOthers
<1>4. SameOthers(entries, MovedLast(i, k), k)
  <2>1. PICK v \in Vals, h \in Hashes : v = entries[i].val /\ h = LookupHash[k]
    BY <1>1, KeyAssumption DEF Entry
  <2>1a. PICK t : t = Inserted(u, k, v, h)
    OBVIOUS
  <2>2. t \in Seq(Entry) /\ SameOthers(u, t, k)
    BY <1>3, <2>1, <2>1a, InsertLeavesOthers
  <2>3. t = MovedLast(i, k)
    BY <1>2, <2>1, <2>1a DEF MovedLast
  <2>. QED  BY <1>1, <1>3, <2>2, <2>3, SameOthersThen
<1>5. ASSUME q PROVE SameOthers(entries, MovedFirst(i, k), k)
  <2>1. PICK t : t = MovedFirst(i, k)
    OBVIOUS
  <2>2. t \in Seq(Entry) /\ Listed(Moved(i, k), u, t, Len(u))
    BY <1>1, <1>2, <1>5, <2>1, MovedFirstProperties
  <2>3. Equal(Moved(i, k).key, k)
    BY DEF Moved, Equal
  <2>4. SameOthers(u, t, k)
    BY <1>3, <2>2, <2>3, ListedLeavesOthers
  <2>. QED  BY <1>1, <1>3, <2>1, <2>2, <2>4, SameOthersThen
<1>. QED  BY <1>4, <1>5

(* No change at all.                                                        *)
LEMMA NothingLeavesOthers ==
  ASSUME NEW s \in Seq(Entry), NEW k
  PROVE  SameOthers(s, s, k)
<1>1. Extends(s, s, k)
  BY DEF Extends
<1>. QED  BY <1>1, ExtendsLeavesOthers

(* What the end of call c may have done to the dict.                        *)
HitsItsKey(c, s, t, q) ==
  /\ (c.op = "move_first" => q) => SameOthers(s, t, c.key)
  /\ c.op = "set" => \E i \in DOMAIN t : t[i].val = c.val /\ Equal(t[i].key, c.key)

(* An assignment that has compared m.                                       *)
LEMMA HitSetHits ==
  ASSUME IInv, calls # <<>>, NEW m \in NextOf(Top), Equal(m.key, Top.key), HitSet(m, Top)
  PROVE  HitsItsKey(Top, entries, entries', quiet)
<1>1. /\ GoodCall(Top) /\ Top.op = "set"
      /\ entries' = SetAt(m, Top)
  BY TopIsGood DEF HitSet, Store
<1>2. PICK v \in Vals, k \in Keys : v = Top.val /\ k = Top.key
  BY <1>1 DEF GoodCall, CallType, Plain
<1>2a. PICK t : t = entries'
  OBVIOUS
<1>3. entries \in Seq(Entry)
  BY DEF IInv, StoreInv
<1>4. SameOthers(entries, t, k) /\ \E i \in DOMAIN t : t[i].val = v /\ Equal(t[i].key, k)
  <2>1. CASE StillThere(m)
    <3>1. PICK i \in DOMAIN entries : i = m.at /\ Equal(entries[i].key, k)
      BY <1>2, <1>2a, <2>1 DEF StillThere
    <3>2. t = [entries EXCEPT ![i].val = v]
      BY <1>1, <1>2, <1>2a, <2>1, <3>1 DEF SetAt
    <3>3. DOMAIN t = DOMAIN entries /\ t[i].val = v /\ t[i].key = entries[i].key
          /\ \A j \in DOMAIN entries : t[j].key = entries[j].key /\ (j # i => t[j].val = entries[j].val)
      <4>1. \A j \in DOMAIN entries : entries[j] \in Entry
        BY <1>3
      <4>2. \A e \in Entry : [e EXCEPT !.val = v].key = e.key /\ [e EXCEPT !.val = v].val = v
        BY DEF Entry
      <4>3. DOMAIN t = DOMAIN entries
            /\ \A j \in DOMAIN entries : t[j] = IF j = i THEN [entries[j] EXCEPT !.val = v] ELSE entries[j]
        BY <3>2
      <4>. QED  BY <4>1, <4>2, <4>3
    <3>4. t \in Seq(Entry)
      <4>1. StoreInv(entries, legacy, quiet) /\ t = Revalued(entries, i, v) /\ FALSE \in BOOLEAN
        BY <3>2 DEF IInv, Revalued
      <4>2. StoreInv(t, legacy, FALSE)
        BY <4>1, OverwriteKeeps
      <4>. QED  BY <4>2 DEF StoreInv
    <3>5. Extends(entries, t, k)
      <4>1. Len(t) = Len(entries) /\ Len(t) \in Nat /\ DOMAIN entries = 1 .. Len(entries)
        BY <1>3, <3>3, <3>4
      <4>. QED  BY <3>1, <3>3, <4>1 DEF Extends
    <3>. QED  BY <1>3, <3>1, <3>3, <3>4, <3>5, ExtendsLeavesOthers
  <2>2. CASE ~StillThere(m)
    <3>1. PICK h \in Hashes : h = RuntimeHash[k]
      BY KeyAssumption
    <3>2. t = Inserted(entries, k, v, h)
      BY <1>1, <1>2, <1>2a, <2>2, <3>1 DEF SetAt
    <3>. QED  BY <1>3, <3>2, InsertLeavesOthers
  <2>. QED  BY <2>1, <2>2
<1>. QED  BY <1>2, <1>2a, <1>4 DEF HitsItsKey

(* A comparison that finds the key ends the call.                           *)
LEMMA CompareHitHits ==
  ASSUME IInv, calls # <<>>, NEW m \in NextOf(Top), CompareHit(m)
  PROVE  HitsItsKey(Top, entries, entries', quiet)
<1>1. Equal(m.key, Top.key) /\ (HitGet(m, Top) \/ HitSet(m, Top) \/ HitDel(m, Top) \/ HitMove(m, Top))
  BY DEF CompareHit
<1>2. entries \in Seq(Entry) /\ StoreInv(entries, legacy, quiet)
  BY DEF IInv, StoreInv
<1>3. PICK k \in Keys : k = Top.key
  BY TopIsGood DEF GoodCall, CallType
<1>4. CASE HitGet(m, Top)
  BY <1>2, <1>4, NothingLeavesOthers DEF HitGet, HitsItsKey
<1>5. CASE HitSet(m, Top)
  BY <1>1, <1>5, HitSetHits
<1>6. CASE (HitDel(m, Top) \/ HitMove(m, Top)) /\ ~StillThere(m)
  BY <1>2, <1>6, NothingLeavesOthers DEF HitDel, HitMove, HitsItsKey
<1>7. CASE HitDel(m, Top) /\ StillThere(m)
  <2>1. PICK i \in DOMAIN entries : i = m.at /\ Equal(entries[i].key, k)
    BY <1>1, <1>3, <1>7 DEF StillThere
  <2>2. Top.op = "del" /\ entries' = RemoveAt(entries, i)
    BY <1>7, <2>1 DEF HitDel, Store
  <2>3. SameOthers(entries, entries', k)
    <3>1. PICK t : t = entries'
      OBVIOUS
    <3>. QED  BY <1>2, <2>1, <2>2, <3>1, RemoveLeavesOthers
  <2>. QED  BY <1>3, <2>2, <2>3 DEF HitsItsKey
<1>8. CASE HitMove(m, Top) /\ StillThere(m)
  <2>1. PICK i \in DOMAIN entries : i = m.at /\ Equal(entries[i].key, k)
    BY <1>1, <1>3, <1>8 DEF StillThere
  <2>2. /\ Top.op \in {"move_last", "move_first"}
        /\ entries' = IF Top.op = "move_last" THEN MovedLast(i, k) ELSE MovedFirst(i, k)
    BY <1>3, <1>8, <2>1 DEF HitMove, Store
  <2>3. SameOthers(entries, MovedLast(i, k), k) /\ (quiet => SameOthers(entries, MovedFirst(i, k), k))
    BY <1>2, <2>1, MoveLeavesOthers
  <2>. QED  BY <1>3, <2>2, <2>3 DEF HitsItsKey
<1>. QED  BY <1>1, <1>4, <1>5, <1>6, <1>7, <1>8

(* An assignment that has found nothing equal, and a factory's value that   *)
(* is stored at once.                                                       *)
LEMMA InsertionHits ==
  ASSUME IInv, calls # <<>>, Top.op \in {"set", "missing"},
         NEW h \in Hashes, entries' = Inserted(entries, Top.key, Top.val, h)
  PROVE  HitsItsKey(Top, entries, entries', quiet)
<1>1. PICK v \in Vals, k \in Keys : v = Top.val /\ k = Top.key
  BY TopIsGood DEF GoodCall, CallType, Plain
<1>1a. PICK t : t = entries'
  OBVIOUS
<1>2. entries \in Seq(Entry) /\ t = Inserted(entries, k, v, h)
  BY <1>1, <1>1a DEF IInv, StoreInv
<1>3. SameOthers(entries, t, k) /\ \E i \in DOMAIN t : t[i].val = v /\ Equal(t[i].key, k)
  BY <1>2, InsertLeavesOthers
<1>. QED  BY <1>1, <1>1a, <1>3 DEF HitsItsKey

(* A call that begins makes the stack longer, one that goes on keeps it.    *)
LEMMA StackGrows ==
  ASSUME IInv, NEW c
  PROVE  /\ calls' = Append(calls, c) => ~(Len(calls') < Len(calls))
         /\ calls # <<>> /\ Replace(c) => ~(Len(calls') < Len(calls))
<1>1. calls \in Seq(CallType) /\ Len(calls) \in Nat
  BY DEF IInv, CallsInv
<1>2. ASSUME NEW cs \in Seq(CallType), NEW ds, ds = Append(cs, c)
      PROVE  Len(ds) = Len(cs) + 1
  <2>1. CallType \subseteq CallType \cup {c} /\ c \in CallType \cup {c}
    OBVIOUS
  <2>2. cs \in Seq(CallType \cup {c})
    BY <2>1, SeqMonotonic
  <2>. QED  BY <1>2, <2>1, <2>2, AppendProperties
<1>3. PICK ds : ds = calls'
  OBVIOUS
<1>4. calls' = Append(calls, c) => ~(Len(ds) < Len(calls))
  BY <1>1, <1>2, <1>3
<1>5. ASSUME calls # <<>>, Replace(c) PROVE ~(Len(ds) < Len(calls))
  <2>1. Front(calls) \in Seq(CallType) /\ Len(Front(calls)) = Len(calls) - 1
    BY <1>1, <1>5, FrontProperties
  <2>2. PICK cs \in Seq(CallType) : cs = Front(calls)
    BY <2>1
  <2>3. Len(ds) = Len(cs) + 1
    BY <1>2, <1>3, <1>5, <2>2 DEF Replace
  <2>. QED  BY <1>1, <2>1, <2>2, <2>3
<1>. QED  BY <1>3, <1>4, <1>5

(* A step of a call that ends it hits its key, or the code it ran has       *)
(* raised and the dict is as it was.                                        *)
LEMMA StepHits ==
  ASSUME IInv, Step, Len(calls') < Len(calls)
  PROVE  \/ HitsItsKey(Top, entries, entries', quiet)
         \/ entries' = entries /\ InUserCode
<1>1. calls # <<>>
  BY DEF Step, Comparing
<1>2. entries \in Seq(Entry)
  BY DEF IInv, StoreInv
<1>3. \A c : ~Replace(c)
  BY <1>1, StackGrows
<1>4. CASE \E m \in NextOf(Top) : CompareHit(m) \/ CompareMiss(m)
  BY <1>1, <1>3, <1>4, CompareHitHits DEF CompareMiss
<1>5. CASE NotFoundSet
  <2>1. Top.op = "set" /\ entries' = Inserted(entries, Top.key, Top.val, RuntimeHash[Top.key])
    BY <1>5 DEF NotFoundSet, Store
  <2>2. RuntimeHash[Top.key] \in Hashes
    BY <1>1, TopIsGood, KeyAssumption DEF GoodCall, CallType
  <2>. QED  BY <1>1, <2>1, <2>2, InsertionHits
<1>6. CASE NotFoundError
  BY <1>2, <1>6, NothingLeavesOthers DEF NotFoundError, HitsItsKey
<1>7. CASE FactoryReturns
  <2>1. Top.op = "missing" /\ entries' = Inserted(entries, Top.key, Top.val, LookupHash[Top.key])
    BY <1>3, <1>7 DEF FactoryReturns, Store
  <2>2. LookupHash[Top.key] \in Hashes
    BY <1>1, TopIsGood, KeyAssumption DEF GoodCall, CallType
  <2>. QED  BY <1>1, <2>1, <2>2, InsertionHits
<1>8. CASE Raises
  BY <1>8 DEF Raises
<1>. QED  BY <1>3, <1>4, <1>5, <1>6, <1>7, <1>8 DEF Step, NotFoundRetry, NotFoundFactory

(* Nothing else shortens the stack.                                         *)
LEMMA EndOfCall ==
  ASSUME IInv, [Next]_vars, Len(calls') < Len(calls)
  PROVE  \/ HitsItsKey(Top, entries, entries', quiet)
         \/ entries' = entries /\ InUserCode
<1>1. calls' # calls
  <2>1. Len(calls) \in Nat
    BY DEF IInv, CallsInv
  <2>. QED  BY <2>1
<1>2. \A c : calls' # Append(calls, c)
  BY StackGrows
<1>3. ~(UNCHANGED vars)
  BY <1>1 DEF vars
<1>4. \A k, v, op : ~Begin(op, k, v) /\ ~Missing(k, v) /\ ~LegacySet(k, v) /\ ~LegacyRemove(k)
  <2>1. \A k, v, op : ~Begin(op, k, v)
    BY <1>2 DEF Begin
  <2>2. \A k, v : ~Missing(k, v)
    BY <1>2 DEF Missing
  <2>3. \A k, v : ~LegacySet(k, v) /\ ~LegacyRemove(k)
    BY <1>1 DEF LegacySet, LegacyRemove
  <2>. QED  BY <2>1, <2>2, <2>3
<1>5. ~Clear /\ ~PopItem
  BY <1>1 DEF Clear, PopItem
<1>6. Step
  BY <1>3, <1>4, <1>5, Zenon DEF Next
<1>. QED  BY <1>6, StepHits

(* A call that ends has changed nothing about keys that are not equal to    *)
(* its own and a completed assignment is there, whatever __eq__ did to the  *)
(* dict in between (dict_set_value_checked_runtime, dict_remove_value_      *)
(* runtime and move_to_end check the index they found again).               *)
THEOREM CallsHit == Spec => CallsHitTheirKey
<1>1. ASSUME IInv, [Next]_vars, Len(calls') < Len(calls)
      PROVE  LET c == Top IN
               /\ (c.op = "move_first" => quiet) => SameOthers(entries, entries', c.key)
               /\ c.op = "set" /\ ~(entries' = entries /\ InUserCode) =>
                    \E i \in DOMAIN entries' : entries'[i].val = c.val /\ Equal(entries'[i].key, c.key)
  <2>1. entries \in Seq(Entry)
    BY <1>1 DEF IInv, StoreInv
  <2>2. CASE HitsItsKey(Top, entries, entries', quiet)
    BY <2>2 DEF HitsItsKey
  <2>3. CASE entries' = entries /\ InUserCode
    BY <2>1, <2>3, NothingLeavesOthers
  <2>. QED  BY <1>1, <2>2, <2>3, EndOfCall
<1>. QED  BY <1>1, Invariance, PTL DEF Spec, CallsHitTheirKey

-----------------------------------------------------------------------------
(* What a quiet program sees is an insertion-ordered map                    *)

Item == [id : Range(Class), val : Vals]

MapOf(s) == [i \in DOMAIN s |-> [id |-> Class[s[i].key], val |-> s[i].val]]

(* The map of a storage has an item for every entry, at the same place.     *)
LEMMA MapOfProperties ==
  ASSUME NEW s \in Seq(Entry)
  PROVE  /\ MapOf(s) \in Seq(Item) /\ Len(MapOf(s)) = Len(s) /\ Len(s) \in Nat
         /\ DOMAIN MapOf(s) = 1 .. Len(s) /\ DOMAIN s = 1 .. Len(s)
         /\ \A i \in 1 .. Len(s) : /\ MapOf(s)[i] = [id |-> Class[s[i].key], val |-> s[i].val]
                                   /\ s[i] \in Entry
<1>1. DOMAIN s = 1 .. Len(s) /\ Len(s) \in Nat /\ \A i \in 1 .. Len(s) : s[i] \in Entry
  OBVIOUS
<1>2. ASSUME NEW i \in 1 .. Len(s) PROVE [id |-> Class[s[i].key], val |-> s[i].val] \in Item
  <2>1. s[i].key \in DOMAIN Class /\ s[i].val \in Vals
    BY <1>1, KeyAssumption DEF Entry
  <2>2. Class[s[i].key] \in Range(Class)
    BY <2>1 DEF Range
  <2>. QED  BY <2>1, <2>2 DEF Item
<1>3. MapOf(s) = [i \in 1 .. Len(s) |-> [id |-> Class[s[i].key], val |-> s[i].val]]
  BY <1>1 DEF MapOf
<1>4. MapOf(s) \in [1 .. Len(s) -> Item]
  BY <1>2, <1>3
<1>5. MapOf(s) \in Seq(Item) /\ Len(MapOf(s)) = Len(s)
  BY <1>1, <1>4
<1>. QED  BY <1>1, <1>3, <1>5

(* Two sequences of items with the same elements are the same.              *)
LEMMA SameItems ==
  ASSUME NEW a \in Seq(Item), NEW b \in Seq(Item), NEW n \in Nat, Len(a) = n, Len(b) = n,
         \A i \in 1 .. n : a[i] = b[i]
  PROVE  a = b
<1>1. \A i \in 1 .. Len(a) : a[i] = b[i]
  OBVIOUS
<1>. QED  BY <1>1, SeqEqual

(* Removing an entry removes its item.                                      *)
LEMMA MapOfRemoved ==
  ASSUME NEW s \in Seq(Entry), NEW i \in DOMAIN s, NEW t, t = RemoveAt(s, i)
  PROVE  MapOf(t) = RemoveAt(MapOf(s), i)
<1>1. /\ t \in Seq(Entry) /\ Len(t) = Len(s) - 1 /\ Len(s) \in Nat \ {0} /\ i \in 1 .. Len(s)
      /\ \A j \in DOMAIN t : Before(i, j) \in DOMAIN s /\ t[j] = s[Before(i, j)]
  BY RemovedPlaces
<1>2. PICK a \in Seq(Item) : a = MapOf(s)
  BY MapOfProperties
<1>3. i \in DOMAIN a /\ Len(a) = Len(s)
  BY <1>1, <1>2, MapOfProperties
<1>4. PICK b : b = RemoveAt(a, i)
  OBVIOUS
<1>5. /\ b \in Seq(Item) /\ Len(b) = Len(a) - 1
      /\ \A j \in DOMAIN b : b[j] = a[Before(i, j)]
  BY <1>3, <1>4, RemovedPlaces
<1>6. PICK n \in Nat : n = Len(s) - 1
  BY <1>1
<1>7. ASSUME NEW j \in 1 .. n PROVE MapOf(t)[j] = b[j]
  <2>1. j \in 1 .. Len(t) /\ j \in DOMAIN t /\ j \in DOMAIN b
    BY <1>1, <1>3, <1>5, <1>6
  <2>2. Before(i, j) \in 1 .. Len(s) /\ t[j] = s[Before(i, j)]
    BY <1>1, <2>1
  <2>3. MapOf(t)[j] = [id |-> Class[t[j].key], val |-> t[j].val]
    BY <1>1, <2>1, MapOfProperties
  <2>4. a[Before(i, j)] = [id |-> Class[s[Before(i, j)].key], val |-> s[Before(i, j)].val]
    BY <1>2, <2>2, MapOfProperties
  <2>. QED  BY <1>5, <2>1, <2>2, <2>3, <2>4
<1>8. MapOf(t) \in Seq(Item) /\ Len(MapOf(t)) = n /\ Len(b) = n
  BY <1>1, <1>3, <1>5, <1>6, MapOfProperties
<1>. QED  BY <1>2, <1>4, <1>5, <1>7, <1>8, SameItems

(* The map N is M with v under id: in its place, or at the end.             *)
Puts(M, N, id, v) ==
  \/ \E i \in DOMAIN M : M[i].id = id /\ N = [M EXCEPT ![i].val = v]
  \/ (\A i \in DOMAIN M : M[i].id # id) /\ N = Append(M, [id |-> id, val |-> v])

(* A new value of an entry is a new value of its item.                      *)
LEMMA MapOfRevalued ==
  ASSUME NEW s \in Seq(Entry), NEW i \in DOMAIN s, NEW v \in Vals, NEW t \in Seq(Entry),
         Len(t) = Len(s), t[i].key = s[i].key, t[i].val = v,
         \A j \in DOMAIN s : j # i => t[j].key = s[j].key /\ t[j].val = s[j].val
  PROVE  Puts(MapOf(s), MapOf(t), Class[s[i].key], v)
<1>1. PICK M, N, id : M = MapOf(s) /\ N = MapOf(t) /\ id = Class[s[i].key]
  OBVIOUS
<1>2. PICK n \in Nat : n = Len(s) /\ i \in 1 .. n /\ DOMAIN s = 1 .. n
  OBVIOUS
<1>3. /\ M \in Seq(Item) /\ Len(M) = n /\ DOMAIN M = 1 .. n
      /\ \A j \in 1 .. n : M[j] = [id |-> Class[s[j].key], val |-> s[j].val]
  BY <1>1, <1>2, MapOfProperties
<1>4. /\ N \in Seq(Item) /\ Len(N) = n /\ DOMAIN N = 1 .. n
      /\ \A j \in 1 .. n : N[j] = [id |-> Class[t[j].key], val |-> t[j].val]
  BY <1>1, <1>2, MapOfProperties
<1>5. M[i].id = id /\ [M[i] EXCEPT !.val = v] = [id |-> id, val |-> v]
  BY <1>1, <1>2, <1>3
<1>6. N[i] = [M[i] EXCEPT !.val = v] /\ \A j \in 1 .. n : j # i => N[j] = M[j]
  <2>1. N[i] = [id |-> id, val |-> v]
    BY <1>1, <1>2, <1>4
  <2>2. \A j \in 1 .. n : j # i => t[j].key = s[j].key /\ t[j].val = s[j].val
    BY <1>2
  <2>3. \A j \in 1 .. n : j # i => N[j] = M[j]
    BY <1>3, <1>4, <2>2
  <2>. QED  BY <1>5, <2>1, <2>3
<1>7. N = [j \in 1 .. n |-> N[j]] /\ M = [j \in 1 .. n |-> M[j]]
  BY <1>3, <1>4
<1>8. N = [M EXCEPT ![i].val = v]
  BY <1>2, <1>3, <1>6, <1>7
<1>. QED  BY <1>1, <1>2, <1>3, <1>5, <1>8 DEF Puts

(* An insertion puts the value under the class of its key, when no equal    *)
(* key is stored but the entry it overwrites.                               *)
LEMMA MapOfInserted ==
  ASSUME NEW s \in Seq(Entry), Unique(s), NEW k \in Keys, NEW v \in Vals, NEW h \in Hashes,
         \A i \in DOMAIN s : Equal(s[i].key, k) => i \in StoredAt(s, k, h),
         NEW t, t = Inserted(s, k, v, h)
  PROVE  Puts(MapOf(s), MapOf(t), Class[k], v)
<1>1. t \in Seq(Entry) /\ (Overwrites(s, k, v, h, t) \/ Lengthens(s, k, v, h, t))
  BY InsertedProperties
<1>2. PICK n \in Nat : n = Len(s) /\ DOMAIN s = 1 .. n
  OBVIOUS
<1>3. CASE Overwrites(s, k, v, h, t)
  <2>1. PICK i \in StoredAt(s, k, h) : TRUE
    BY <1>3 DEF Overwrites
  <2>2. i \in DOMAIN s /\ s[i].key = k /\ s[i].hash = h
    BY DEF StoredAt
  <2>3. Len(t) = Len(s) /\ \A j \in 1 .. n :
          t[j].key = s[j].key /\ t[j].val = IF s[j].key = k /\ s[j].hash = h THEN v ELSE s[j].val
    BY <1>2, <1>3 DEF Overwrites
  <2>4. t[i].key = s[i].key /\ t[i].val = v
    BY <1>2, <2>2, <2>3
  <2>5. ASSUME NEW j \in DOMAIN s, j # i PROVE t[j].key = s[j].key /\ t[j].val = s[j].val
    <3>1. s[j].key # k
      BY <2>2, <2>5 DEF Unique, Equal
    <3>. QED  BY <1>2, <2>3, <3>1
  <2>6. Puts(MapOf(s), MapOf(t), Class[s[i].key], v)
    BY <1>1, <2>2, <2>3, <2>4, <2>5, MapOfRevalued
  <2>. QED  BY <2>2, <2>6
<1>4. CASE Lengthens(s, k, v, h, t)
  <2>1. /\ Len(t) = n + 1 /\ \A i \in 1 .. n : t[i] = s[i]
        /\ t[n + 1] = [key |-> k, hash |-> h, val |-> v]
    BY <1>2, <1>4 DEF Lengthens
  <2>2. PICK M, N, x : M = MapOf(s) /\ N = MapOf(t) /\ x = [id |-> Class[k], val |-> v]
    OBVIOUS
  <2>3. /\ M \in Seq(Item) /\ Len(M) = n /\ DOMAIN M = 1 .. n
        /\ \A j \in 1 .. n : M[j] = [id |-> Class[s[j].key], val |-> s[j].val]
    BY <1>2, <2>2, MapOfProperties
  <2>4. /\ N \in Seq(Item) /\ Len(N) = n + 1
        /\ \A j \in 1 .. (n + 1) : N[j] = [id |-> Class[t[j].key], val |-> t[j].val]
    BY <1>1, <2>1, <2>2, MapOfProperties
  <2>5. \A i \in DOMAIN M : M[i].id # Class[k]
    <3>1. \A i \in 1 .. n : ~Equal(s[i].key, k)
      BY <1>2, <1>4 DEF Lengthens
    <3>. QED  BY <2>3, <3>1 DEF Equal
  <2>6. \A j \in 1 .. n : N[j] = M[j]
    <3>1. \A j \in 1 .. n : j \in 1 .. (n + 1)
      OBVIOUS
    <3>. QED  BY SMTT(60), <2>1, <2>3, <2>4, <3>1
  <2>7. N[n + 1] = x
    BY <2>1, <2>2, <2>4
  <2>8. x \in Item
    <3>1. N[n + 1] \in Item
      BY <2>4
    <3>. QED  BY <2>7, <3>1
  <2>9. PICK b : b = Append(M, x)
    OBVIOUS
  <2>10. b \in Seq(Item) /\ Len(b) = n + 1 /\ (\A j \in 1 .. n : b[j] = M[j]) /\ b[n + 1] = x
    BY <2>3, <2>8, <2>9, AppendProperties
  <2>11. \A j \in 1 .. (n + 1) : N[j] = b[j]
    <3>1. \A j \in 1 .. (n + 1) : j \in 1 .. n \/ j = n + 1
      OBVIOUS
    <3>. QED  BY <2>6, <2>7, <2>10, <3>1
  <2>12. n + 1 \in Nat
    OBVIOUS
  <2>13. N = b
    BY <2>4, <2>10, <2>11, <2>12, SameItems
  <2>. QED  BY <2>2, <2>5, <2>9, <2>13 DEF Puts
<1>. QED  BY <1>1, <1>3, <1>4

(* A move to the end is one of the map.                                     *)
LEMMA MapOfMovedLast ==
  ASSUME entries \in Seq(Entry), Unique(entries), NEW i \in DOMAIN entries, NEW k \in Keys,
         Equal(entries[i].key, k), NEW t, t = MovedLast(i, k)
  PROVE  MapOf(t) = Append(RemoveAt(MapOf(entries), i), MapOf(entries)[i])
<1>1. PICK u : u = RemoveAt(entries, i)
  OBVIOUS
<1>2. u \in Seq(Entry) /\ MapOf(u) = RemoveAt(MapOf(entries), i)
  BY <1>1, RemovedPlaces, MapOfRemoved
<1>3. entries[i] \in Entry
  OBVIOUS
<1>4. PICK v \in Vals, h \in Hashes : v = entries[i].val /\ h = LookupHash[k]
  BY <1>3, KeyAssumption DEF Entry
<1>5. t = Inserted(u, k, v, h)
  BY <1>1, <1>4 DEF MovedLast
<1>6. \A j \in DOMAIN u : ~Equal(u[j].key, k)
  BY <1>1, NothingEqualLeft
<1>7. Unique(u)
  <2>1. /\ \A j \in DOMAIN u : Before(i, j) \in DOMAIN entries /\ u[j] = entries[Before(i, j)]
        /\ \A j, l \in DOMAIN u : Before(i, j) = Before(i, l) => j = l
    BY SMTT(60), <1>1, RemovedPlaces
  <2>. QED  BY <2>1 DEF Unique
<1>8. Puts(MapOf(u), MapOf(t), Class[k], v)
  BY <1>2, <1>5, <1>6, <1>7, MapOfInserted
<1>9. \A j \in DOMAIN MapOf(u) : MapOf(u)[j].id # Class[k]
  <2>1. DOMAIN MapOf(u) = DOMAIN u
    BY DEF MapOf
  <2>2. \A j \in DOMAIN u : MapOf(u)[j].id = Class[u[j].key]
    BY DEF MapOf
  <2>. QED  BY <1>6, <2>1, <2>2 DEF Equal
<1>10. MapOf(t) = Append(MapOf(u), [id |-> Class[k], val |-> v])
  BY <1>8, <1>9 DEF Puts
<1>11. MapOf(entries)[i] = [id |-> Class[k], val |-> v]
  BY <1>4 DEF MapOf, Equal
<1>. QED  BY <1>2, <1>10, <1>11

(* And so is a move to the front.                                           *)
LEMMA MapOfMovedFirst ==
  ASSUME NEW f, StoreInv(entries, f, TRUE), NEW i \in DOMAIN entries, NEW k \in Keys,
         Equal(entries[i].key, k), NEW t, t = MovedFirst(i, k)
  PROVE  MapOf(t) = <<MapOf(entries)[i]>> \o RemoveAt(MapOf(entries), i)
<1>1. entries \in Seq(Entry) /\ Unique(entries)
  BY DEF StoreInv
<1>2. PICK u : u = RemoveAt(entries, i)
  OBVIOUS
<1>3. u \in Seq(Entry) /\ MapOf(u) = RemoveAt(MapOf(entries), i)
  BY <1>1, <1>2, RemovedPlaces, MapOfRemoved
<1>4. t \in Seq(Entry) /\ Listed(Moved(i, k), u, t, Len(u))
  BY <1>1, <1>2, MovedFirstProperties
<1>5. PICK n \in Nat : n = Len(u)
  BY <1>3
<1>6. Len(t) = n + 1 /\ t[1] = Moved(i, k) /\ \A j \in 1 .. n : t[j + 1] = Rehashed(u[j])
  BY <1>4, <1>5 DEF Listed
<1>7. PICK M, N, x : M = MapOf(u) /\ N = MapOf(t) /\ x = MapOf(entries)[i]
  OBVIOUS
<1>8. /\ M \in Seq(Item) /\ Len(M) = n
      /\ \A j \in 1 .. n : M[j] = [id |-> Class[u[j].key], val |-> u[j].val]
  BY <1>3, <1>5, <1>7, MapOfProperties
<1>9. /\ N \in Seq(Item) /\ Len(N) = n + 1
      /\ \A j \in 1 .. (n + 1) : N[j] = [id |-> Class[t[j].key], val |-> t[j].val]
  BY <1>4, <1>6, <1>7, MapOfProperties
<1>10. x \in Item /\ x = [id |-> Class[k], val |-> entries[i].val]
  <2>1. MapOf(entries) \in Seq(Item) /\ i \in DOMAIN MapOf(entries)
    BY <1>1, MapOfProperties
  <2>2. x \in Item
    BY <1>7, <2>1
  <2>3. x = [id |-> Class[entries[i].key], val |-> entries[i].val]
    BY <1>7 DEF MapOf
  <2>. QED  BY <2>2, <2>3 DEF Equal
<1>11. N[1] = x
  <2>1. t[1].key = k /\ t[1].val = entries[i].val /\ 1 \in 1 .. (n + 1)
    BY <1>6 DEF Moved
  <2>. QED  BY <1>9, <1>10, <2>1
<1>12. \A j \in 1 .. n : N[j + 1] = M[j]
  <2>1. \A j \in 1 .. n : t[j + 1].key = u[j].key /\ t[j + 1].val = u[j].val /\ j + 1 \in 1 .. (n + 1)
    <3>1. \A a : Rehashed(a).key = a.key /\ Rehashed(a).val = a.val
      BY DEF Rehashed
    <3>. QED  BY <1>6, <3>1
  <2>. QED  BY SMTT(60), <1>8, <1>9, <2>1
<1>13. PICK a, b : a = <<x>> /\ b = a \o M
  OBVIOUS
<1>14. a \in Seq(Item) /\ Len(a) = 1 /\ a[1] = x
  BY <1>10, <1>13
<1>15. /\ b \in Seq(Item) /\ Len(b) = 1 + n
       /\ \A j \in 1 .. (1 + n) : b[j] = IF j <= 1 THEN a[j] ELSE M[j - 1]
  BY <1>8, <1>13, <1>14, ConcatProperties
<1>16. ASSUME NEW j \in 1 .. (n + 1) PROVE N[j] = b[j]
  <2>1. CASE j = 1
    BY <1>11, <1>14, <1>15, <2>1
  <2>2. CASE j # 1
    <3>1. j - 1 \in 1 .. n /\ (j - 1) + 1 = j /\ ~(j <= 1) /\ j \in 1 .. (1 + n)
      BY <2>2
    <3>2. N[(j - 1) + 1] = M[j - 1]
      BY <1>12, <3>1
    <3>. QED  BY <1>15, <3>1, <3>2
  <2>. QED  BY <2>1, <2>2
<1>17. n + 1 \in Nat /\ 1 + n = n + 1
  OBVIOUS
<1>18. N = b
  BY <1>9, <1>15, <1>16, <1>17, SameItems
<1>. QED  BY <1>3, <1>7, <1>13, <1>18

(* The steps of the ordered map.                                            *)
LEMMA PutRefines ==
  ASSUME NEW k \in Keys, NEW v \in Vals, Puts(AsMap, AsMap', Class[k], v)
  PROVE  Abstract!DictNext
<1>1. Class[k] \in Range(Class)
  BY KeyAssumption DEF Range
<1>2. Abstract!Put(Class[k], v)
  <2>1. CASE \E i \in DOMAIN AsMap : AsMap[i].id = Class[k] /\ AsMap' = [AsMap EXCEPT ![i].val = v]
    BY <2>1 DEF Abstract!Put, Abstract!PositionsOf
  <2>2. CASE (\A i \in DOMAIN AsMap : AsMap[i].id # Class[k])
             /\ AsMap' = Append(AsMap, [id |-> Class[k], val |-> v])
    BY <2>2 DEF Abstract!Put, Abstract!PositionsOf
  <2>. QED  BY <2>1, <2>2 DEF Puts
<1>. QED  BY <1>1, <1>2 DEF Abstract!DictNext, Abstract!MapNext

(* The removal of an item.                                                  *)
LEMMA DeleteRefines ==
  ASSUME NEW i \in DOMAIN AsMap, AsMap' = RemoveAt(AsMap, i)
  PROVE  Abstract!DictNext
BY DEF Abstract!DictNext, Abstract!MapNext, Abstract!Delete, Abstract!RemoveAt, RemoveAt

(* A move of an item to either end.                                         *)
LEMMA MoveRefines ==
  ASSUME NEW i \in DOMAIN AsMap,
         \/ AsMap' = Append(RemoveAt(AsMap, i), AsMap[i])
         \/ AsMap' = <<AsMap[i]>> \o RemoveAt(AsMap, i)
  PROVE  Abstract!DictNext
BY DEF Abstract!DictNext, Abstract!MoveLast, Abstract!MoveFirst, Abstract!RemoveAt, RemoveAt

(* The mapping, before and after a step.                                    *)
LEMMA AsMapIsMapOf == AsMap = MapOf(entries) /\ AsMap' = MapOf(entries')
BY DEF AsMap, MapOf

(* An insertion of a key that equals nothing stored but what it overwrites, *)
(* and the removal of an entry.                                             *)
LEMMA InsertionRefines ==
  ASSUME IInv, quiet, NEW k \in Keys, NEW v \in Vals, NEW h \in Hashes,
         \A i \in DOMAIN entries : Equal(entries[i].key, k) => i \in StoredAt(entries, k, h),
         entries' = Inserted(entries, k, v, h)
  PROVE  Abstract!DictNext
<1>1. PICK t : t = entries'
  OBVIOUS
<1>2. entries \in Seq(Entry) /\ Unique(entries)
  BY DEF IInv, StoreInv
<1>3. Puts(MapOf(entries), MapOf(t), Class[k], v)
  BY <1>1, <1>2, MapOfInserted
<1>. QED  BY <1>1, <1>3, AsMapIsMapOf, PutRefines

(* The removal of an entry is the removal of its item.                      *)
LEMMA RemovalRefines ==
  ASSUME IInv, NEW i \in DOMAIN entries, entries' = RemoveAt(entries, i)
  PROVE  Abstract!DictNext
<1>1. PICK t : t = entries'
  OBVIOUS
<1>2. entries \in Seq(Entry)
  BY DEF IInv, StoreInv
<1>3. MapOf(t) = RemoveAt(MapOf(entries), i)
  BY <1>1, <1>2, MapOfRemoved
<1>4. i \in DOMAIN AsMap
  BY DEF AsMap
<1>. QED  BY <1>1, <1>3, <1>4, AsMapIsMapOf, DeleteRefines

(* A comparison that finds the key, in a quiet program: the entry is where  *)
(* the snapshot says.                                                       *)
LEMMA CompareHitRefines ==
  ASSUME IInv, calls # <<>>, quiet, NEW m \in NextOf(Top), CompareHit(m)
  PROVE  Abstract!DictNext \/ UNCHANGED entries
<1>1. Equal(m.key, Top.key) /\ (HitGet(m, Top) \/ HitSet(m, Top) \/ HitDel(m, Top) \/ HitMove(m, Top))
  BY DEF CompareHit
<1>2. StoreInv(entries, legacy, TRUE) /\ entries \in Seq(Entry) /\ Unique(entries)
  BY DEF IInv, StoreInv
<1>3. GoodCall(Top) /\ StillThere(m)
  BY TopIsGood, NextIsThere
<1>4. PICK k \in Keys : k = Top.key
  BY <1>3 DEF GoodCall, CallType
<1>5. PICK i \in DOMAIN entries : i = m.at /\ Equal(entries[i].key, k)
  BY <1>1, <1>3, <1>4 DEF StillThere
<1>6. PICK t : t = entries'
  OBVIOUS
<1>7. i \in DOMAIN AsMap
  BY DEF AsMap
<1>8. CASE HitGet(m, Top)
  BY <1>8 DEF HitGet
<1>9. CASE HitSet(m, Top)
  <2>1. PICK v \in Vals : v = Top.val
    BY <1>3, <1>9 DEF HitSet, GoodCall, CallType, Plain
  <2>2. t = [entries EXCEPT ![i].val = v]
    BY <1>3, <1>5, <1>6, <1>9, <2>1 DEF HitSet, Store, SetAt
  <2>3. t \in Seq(Entry)
    <3>1. t = Revalued(entries, i, v) /\ FALSE \in BOOLEAN
      BY <2>2 DEF Revalued
    <3>2. StoreInv(t, legacy, FALSE)
      BY <1>2, <3>1, OverwriteKeeps
    <3>. QED  BY <3>2 DEF StoreInv
  <2>4. DOMAIN t = DOMAIN entries /\ t[i] = [entries[i] EXCEPT !.val = v]
        /\ \A j \in DOMAIN entries : j # i => t[j] = entries[j]
    BY <2>2
  <2>5. t[i].key = entries[i].key /\ t[i].val = v
    <3>1. entries[i] \in Entry
      BY <1>2
    <3>. QED  BY <2>4, <3>1 DEF Entry
  <2>6. Len(t) = Len(entries)
    BY <1>2, <2>3, <2>4
  <2>7. \A j \in DOMAIN entries : j # i => t[j].key = entries[j].key /\ t[j].val = entries[j].val
    BY <2>4
  <2>8. Puts(MapOf(entries), MapOf(t), Class[entries[i].key], v)
    BY <1>2, <2>3, <2>5, <2>6, <2>7, MapOfRevalued
  <2>9. Puts(AsMap, AsMap', Class[k], v)
    BY <1>5, <1>6, <2>8, AsMapIsMapOf DEF Equal
  <2>. QED  BY <2>9, PutRefines
<1>10. CASE HitDel(m, Top)
  BY <1>3, <1>5, <1>10, RemovalRefines DEF HitDel, Store
<1>11. CASE HitMove(m, Top)
  <2>1. t = MovedLast(i, k) \/ t = MovedFirst(i, k)
    BY <1>3, <1>4, <1>5, <1>6, <1>11 DEF HitMove, Store
  <2>2. \/ MapOf(t) = Append(RemoveAt(MapOf(entries), i), MapOf(entries)[i])
        \/ MapOf(t) = <<MapOf(entries)[i]>> \o RemoveAt(MapOf(entries), i)
    BY <1>2, <1>5, <2>1, MapOfMovedLast, MapOfMovedFirst
  <2>. QED  BY <1>6, <1>7, <2>2, AsMapIsMapOf, MoveRefines
<1>. QED  BY <1>1, <1>8, <1>9, <1>10, <1>11

(* Every step of a quiet program is a step of the ordered map, or shows     *)
(* nothing.                                                                 *)
LEMMA StepRefines ==
  ASSUME IInv, Step, quiet'
  PROVE  Abstract!DictNext \/ UNCHANGED entries
<1>1. calls # <<>>
  BY DEF Step, Comparing
<1>2. CASE \E m \in NextOf(Top) : CompareHit(m) \/ CompareMiss(m)
  <2>1. PICK m \in NextOf(Top) : CompareHit(m) \/ CompareMiss(m)
    BY <1>2
  <2>2. CASE CompareHit(m)
    <3>1. quiet
      BY <2>2 DEF CompareHit, Noted
    <3>. QED  BY <1>1, <2>2, <3>1, CompareHitRefines
  <2>. QED  BY <2>1, <2>2 DEF CompareMiss
<1>3. CASE NextOf(Top) = {} /\ NotFoundSet
  <2>1. quiet /\ Top.op = "set"
        /\ entries' = Inserted(entries, Top.key, Top.val, RuntimeHash[Top.key])
    BY <1>3 DEF NotFoundSet, Noted, Store
  <2>2. PICK v \in Vals, k \in Keys, h \in Hashes : v = Top.val /\ k = Top.key /\ h = RuntimeHash[k]
    BY <1>1, <2>1, TopIsGood, KeyAssumption DEF GoodCall, CallType, Plain
  <2>3. \A i \in DOMAIN entries : ~Equal(entries[i].key, k)
    BY <1>1, <1>3, <2>1, <2>2, NothingEqual
  <2>. QED  BY <2>1, <2>2, <2>3, InsertionRefines
<1>4. CASE FactoryReturns /\ Top.op = "missing"
  <2>1. NotedInsert(Len(calls) - 1, Top.key)
        /\ entries' = Inserted(entries, Top.key, Top.val, LookupHash[Top.key])
    BY <1>4 DEF FactoryReturns, Store
  <2>2. PICK v \in Vals, k \in Keys, h \in Hashes : v = Top.val /\ k = Top.key /\ h = LookupHash[k]
    BY <1>1, <1>4, TopIsGood, KeyAssumption DEF GoodCall, CallType, Plain
  <2>3. quiet /\ LookupHash[k] = RuntimeHash[k] /\ OnlyItself(k)
    BY <2>1, <2>2 DEF NotedInsert
  <2>4. \A i \in DOMAIN entries : Equal(entries[i].key, k) => i \in StoredAt(entries, k, h)
    BY <2>2, <2>3, PlainIsOverwritten
  <2>. QED  BY <2>1, <2>2, <2>3, <2>4, InsertionRefines
<1>5. CASE FactoryReturns /\ Top.op = "getdefault"
  BY <1>5 DEF FactoryReturns
<1>6. CASE NotFoundRetry \/ NotFoundFactory \/ NotFoundError \/ Raises
  BY <1>6 DEF NotFoundRetry, NotFoundFactory, NotFoundError, Raises
<1>7. FactoryReturns => Top.op = "missing" \/ Top.op = "getdefault"
  BY DEF FactoryReturns
<1>. QED  BY <1>2, <1>3, <1>4, <1>5, <1>6, <1>7 DEF Step

(* The same for every step.                                                 *)
LEMMA NextRefines ==
  ASSUME IInv, [Next]_vars, quiet'
  PROVE  Abstract!DictNext \/ UNCHANGED entries
<1>1. CASE \E k \in Keys, v \in Vals : LegacySet(k, v)
  <2>1. PICK k \in Keys, v \in Vals : LegacySet(k, v)
    BY <1>1
  <2>2. PICK h \in Hashes : h = LookupHash[k]
    BY KeyAssumption
  <2>3. quiet /\ LookupHash[k] = RuntimeHash[k] /\ OnlyItself(k) /\ entries' = Inserted(entries, k, v, h)
    BY <2>1, <2>2 DEF LegacySet, NotedInsert, Store
  <2>4. \A i \in DOMAIN entries : Equal(entries[i].key, k) => i \in StoredAt(entries, k, h)
    BY <2>2, <2>3, PlainIsOverwritten
  <2>. QED  BY <2>3, <2>4, InsertionRefines
<1>2. CASE \E k \in Keys : LegacyRemove(k)
  <2>1. PICK k \in Keys : LegacyRemove(k)
    BY <1>2
  <2>2. PICK i \in LegacyPositions(k) : entries' = RemoveAt(entries, i)
    BY <2>1 DEF LegacyRemove, Store
  <2>3. i \in DOMAIN entries
    BY DEF LegacyPositions, StoredAt
  <2>. QED  BY <2>2, <2>3, RemovalRefines
<1>3. CASE Clear
  <2>1. entries' = <<>>
    BY <1>3 DEF Clear, Store
  <2>2. AsMap' = <<>>
    BY <2>1 DEF AsMap
  <2>. QED  BY <2>2 DEF Abstract!DictNext, Abstract!MapNext, Abstract!MapClear
<1>4. CASE PopItem
  <2>1. entries \in Seq(Entry) /\ entries # <<>> /\ entries' = Front(entries)
    BY <1>4 DEF PopItem, Store, IInv, StoreInv
  <2>2. Len(entries) \in DOMAIN entries /\ Front(entries) = RemoveAt(entries, Len(entries))
    BY <2>1, FrontIsRemoval
  <2>. QED  BY <2>1, <2>2, RemovalRefines
<1>5. CASE Step
  BY <1>5, StepRefines
<1>6. \A k, v, op : Begin(op, k, v) \/ Missing(k, v) => UNCHANGED entries
  BY DEF Begin, Missing
<1>. QED  BY <1>1, <1>2, <1>3, <1>4, <1>5, <1>6 DEF Next, vars

(* As long as the program is quiet, lookups by snapshot, the two hashes and *)
(* the fallback of dict_lookup_entry_runtime implement an insertion-ordered *)
(* map of classes of equal keys.                                            *)
THEOREM DictObjectsImplementPyDict == Spec => ImplementsDict
<1>1. IInv /\ [Next]_vars => [quiet' => Abstract!DictNext]_AsMap
  <2>1. SUFFICES ASSUME IInv, [Next]_vars, quiet'
                 PROVE  Abstract!DictNext \/ AsMap' = AsMap
    OBVIOUS
  <2>2. UNCHANGED entries => AsMap' = AsMap
    BY DEF AsMap
  <2>. QED  BY <2>1, <2>2, NextRefines
<1>. QED  BY <1>1, Invariance, PTL DEF Spec, ImplementsDict
=============================================================================
