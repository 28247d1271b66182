------------------------- MODULE InterpreterProofs -------------------------
(***************************************************************************)
(* Proofs about GlobalCaches, for every set of modules, values and codes,  *)
(* every program, every recursion limit and every pool size; then about    *)
(* Imports, for every set of module names and every program.               *)
(***************************************************************************)
EXTENDS GlobalCaches, Imports, Integers, SequencesExt, FiniteSetTheorems, SequenceTheorems,
        WellFoundedInduction, TLAPS

-----------------------------------------------------------------------------
(* Sequences and numbers *)

(* What truncating a stack to its first n elements leaves. *)
LEMMA PrefixProperties ==
  ASSUME NEW S, NEW s \in Seq(S), NEW n \in 0 .. Len(s)
  PROVE  /\ SubSeq(s, 1, n) \in Seq(S)
         /\ Len(SubSeq(s, 1, n)) = n
         /\ \A i \in 1 .. n : SubSeq(s, 1, n)[i] = s[i]
<1>1. n \in Int /\ \A i \in 1 .. n : s[i] \in S
  OBVIOUS
<1>2. /\ SubSeq(s, 1, n) \in Seq(S)
      /\ Len(SubSeq(s, 1, n)) = IF 1 <= n THEN n - 1 + 1 ELSE 0
      /\ \A i \in 1 .. n - 1 + 1 : SubSeq(s, 1, n)[i] = s[1 + i - 1]
  BY <1>1, SubSeqProperties
<1>3. n - 1 + 1 = n /\ \A i \in 1 .. n : 1 + i - 1 = i
  BY <1>1
<1>. QED  BY <1>2, <1>3

(* What popping the top of a stack leaves. *)
LEMMA FrontProperties ==
  ASSUME NEW S, NEW s \in Seq(S), s # <<>>
  PROVE  /\ Len(s) \in Nat \ {0}
         /\ Front(s) \in Seq(S)
         /\ Len(Front(s)) = Len(s) - 1
         /\ \A i \in 1 .. (Len(s) - 1) : Front(s)[i] = s[i]
         /\ Last(s) = s[Len(s)]
         /\ Last(s) \in S
<1>1. Len(s) \in Nat \ {0}
  BY EmptySeq
<1>2. Len(s) - 1 \in 0 .. Len(s)
  BY <1>1
<1>3. /\ Front(s) \in Seq(S)
      /\ Len(Front(s)) = Len(s) - 1
      /\ \A i \in 1 .. (Len(s) - 1) : Front(s)[i] = s[i]
  BY <1>2, PrefixProperties DEF Front
<1>4. Last(s) = s[Len(s)] /\ Last(s) \in S
  BY <1>1 DEF Last
<1>. QED  BY <1>1, <1>3, <1>4

-----------------------------------------------------------------------------
(* The inductive invariant *)

\* What a cached value depends on: the versions and what lookups find.
World == [ver |-> version, bver |-> bversion, look |-> [m \in Modules |-> Lookup(m)]]

\* An entry is not newer than the versions, and holds what a lookup finds
\* while it is as new as they are.
Fresh(e, w) ==
  /\ e.module \in Modules
  /\ e.version <= w.ver[e.module] /\ e.bversion <= w.bver
  /\ e.version = w.ver[e.module] /\ e.bversion = w.bver => e.value = w.look[e.module]

\* The caches that a frame of `code` may carry.
GoodSite(code, w) ==
  {e \in Entry : e # NoEntry => e.code = code /\ (~e.lent => Fresh(e, w))}

GoodPooled(w) == {p \in Pooled : p.site \in GoodSite(p.code, w)}

GoodFrame(w) ==
  {f \in Frame : /\ f.site \in GoodSite(f.code, w)
                 /\ ~f.lent => f.version = w.ver[f.module]
                 /\ f.kind = "function" => Key(f) \in Funcs
                 /\ f.simple => f.kind = "function" /\ f.gen = NoGen}

GoodGen(w) == {f \in GoodFrame(w) : ~f.simple}

PoolsInv(pl, w) ==
  /\ pl \in [general : Seq(GoodPooled(w)), simple : Seq(GoodPooled(w)),
             slot0 : Seq(GoodPooled(w)), key : Funcs \cup {NoKey}]
  /\ \A i \in DOMAIN pl.slot0 : pl.slot0[i].code = pl.key.code
  /\ Len(pl.general) <= PoolMax /\ Len(pl.slot0) <= PoolMax

SimpleCount(fs) == Cardinality({i \in DOMAIN fs : fs[i].simple})

\* Frames of the two simple pools and on the stack.
InUse(pl, fs) == Len(pl.simple) + Len(pl.slot0) + SimpleCount(fs)

\* The state apart from frames, generators and pools.
WorldInv ==
  /\ program \in Programs
  /\ globals \in [Modules -> Values \cup {Absent}]
  /\ builtins \in Values \cup {Absent}
  /\ writes \in 0 .. MaxWrites
  /\ version \in [Modules -> 1 .. 1 + writes]
  /\ bversion \in 1 .. 1 + writes

\* No generator runs at the bottom of the stack.
FramesInv(fs, w) ==
  fs \in Seq(GoodFrame(w)) /\ Len(fs) \in 1 .. MaxDepth /\ fs[1].gen = NoGen

GensInv(gs, w) == gs \in [Gens -> GoodGen(w) \cup {NoFrame}]

IInv ==
  /\ WorldInv
  /\ FramesInv(frames, World)
  /\ GensInv(gens, World)
  /\ PoolsInv(pools, World)
  /\ InUse(pools, frames) <= MaxDepth + PoolMax

-----------------------------------------------------------------------------
(* Entries and versions *)

(* The empty entry fits every code. *)
LEMMA NoEntryGood ==
  ASSUME NEW c, NEW w
  PROVE  NoEntry \in GoodSite(c, w)
<1>1. NoEntry \in Entry
  BY CachesAssumption DEF NoEntry, Entry
<1>. QED  BY <1>1 DEF GoodSite

\* The versions only grow, and a lookup finds something else only under a
\* version that no entry has seen.
Later(w, x) ==
  /\ \A m \in Modules : w.ver[m] \in Int /\ x.ver[m] \in Int /\ w.ver[m] <= x.ver[m]
  /\ w.bver \in Int /\ x.bver \in Int /\ w.bver <= x.bver
  /\ \A m \in Modules :
       w.ver[m] = x.ver[m] /\ w.bver = x.bver => w.look[m] = x.look[m]

(* No write makes a stale entry look current. *)
LEMMA GoodSiteLater ==
  ASSUME NEW c, NEW w, NEW x, Later(w, x)
  PROVE  GoodSite(c, w) \subseteq GoodSite(c, x)
<1>. SUFFICES ASSUME NEW e \in Entry, ~e.lent, Fresh(e, w) PROVE Fresh(e, x)
  BY DEF GoodSite
<1>1. e.version \in Int /\ e.bversion \in Int
  BY CachesAssumption DEF Entry
<1>. QED  BY <1>1 DEF Fresh, Later

(* So pooled frames, which no write visits, keep their caches. *)
LEMMA GoodPooledLater ==
  ASSUME NEW w, NEW x, Later(w, x)
  PROVE  GoodPooled(w) \subseteq GoodPooled(x)
BY GoodSiteLater DEF GoodPooled

(* The pools stay as they were. *)
LEMMA PoolsLater ==
  ASSUME NEW w, NEW x, Later(w, x), NEW pl, PoolsInv(pl, w)
  PROVE  PoolsInv(pl, x)
<1>1. GoodPooled(w) \subseteq GoodPooled(x)
  BY GoodPooledLater
<1>2. \A s \in Seq(GoodPooled(w)) : s \in Seq(GoodPooled(x))
  BY <1>1, SeqMonotonic
<1>. QED  BY <1>2 DEF PoolsInv

(* propagate_module_globals_version on one frame. *)
LEMMA RenewedGood ==
  ASSUME NEW w, NEW x, Later(w, x), NEW m \in Modules, NEW v \in 1 .. 1 + MaxWrites,
         \A k \in Modules : x.ver[k] = IF k = m THEN v ELSE w.ver[k],
         NEW f \in GoodFrame(w)
  PROVE  /\ Renewed(f, m, v) \in GoodFrame(x) /\ Renewed(f, m, v).simple = f.simple
         /\ Renewed(f, m, v).gen = f.gen
<1>. DEFINE kept == IF f.site.module = m THEN [f EXCEPT !.site = NoEntry] ELSE f
            g == Renewed(f, m, v)
<1>1. f \in Frame /\ f.site \in GoodSite(f.code, w)
  BY DEF GoodFrame
<1>2. NoEntry \in Entry /\ NoEntry \in GoodSite(f.code, x) /\ f.site \in GoodSite(f.code, x)
  BY <1>1, NoEntryGood, GoodSiteLater DEF GoodSite
<1>3. /\ kept \in Frame /\ kept.site \in GoodSite(f.code, x)
      /\ kept.code = f.code /\ kept.module = f.module /\ kept.version = f.version
      /\ kept.lent = f.lent /\ kept.kind = f.kind /\ kept.simple = f.simple /\ kept.gen = f.gen
  <2>1. CASE f.site.module = m
    BY <1>1, <1>2, <2>1 DEF Frame
  <2>2. CASE f.site.module # m
    BY <1>1, <1>2, <2>2
  <2>. QED  BY <2>1, <2>2
<1>. HIDE DEF kept
<1>4. /\ g \in Frame /\ g.site \in GoodSite(g.code, x)
      /\ g.code = f.code /\ g.module = f.module /\ g.kind = f.kind /\ g.simple = f.simple
      /\ g.gen = f.gen
      /\ ~g.lent => g.version = x.ver[g.module]
  <2>1. CASE f.module = m
    <3>1. g = [kept EXCEPT !.version = v, !.lent = FALSE]
      BY <2>1 DEF Renewed, kept
    <3>2. /\ g \in Frame /\ g.site = kept.site /\ g.version = v
          /\ g.code = kept.code /\ g.module = kept.module /\ g.kind = kept.kind
          /\ g.simple = kept.simple /\ g.gen = kept.gen
      BY <1>3, <3>1 DEF Frame
    <3>. QED  BY <1>3, <2>1, <3>2
  <2>2. CASE f.module # m
    <3>1. g = kept
      BY <2>2 DEF Renewed, kept
    <3>2. f.module \in Modules /\ (~f.lent => f.version = w.ver[f.module])
      BY <1>1 DEF Frame, GoodFrame
    <3>. QED  BY <1>3, <2>2, <3>1, <3>2
  <2>. QED  BY <2>1, <2>2
<1>. HIDE DEF g
<1>5. Key(g) = Key(f)
  BY <1>4 DEF Key
<1>6. /\ f.kind = "function" => Key(f) \in Funcs
      /\ f.simple => f.kind = "function" /\ f.gen = NoGen
  BY DEF GoodFrame
<1>. QED  BY <1>4, <1>5, <1>6 DEF GoodFrame, g

-----------------------------------------------------------------------------
(* Counting simple frames *)

(* There are no more simple frames than frames. *)
LEMMA SimpleCountType ==
  ASSUME NEW S, NEW fs \in Seq(S)
  PROVE  SimpleCount(fs) \in 0 .. Len(fs)
<1>1. IsFiniteSet(1 .. Len(fs)) /\ Cardinality(1 .. Len(fs)) = Len(fs)
  <2>. DEFINE n == Len(fs)
  <2>1. n \in Nat
    BY LenProperties
  <2>. HIDE DEF n
  <2>2. IsFiniteSet(1 .. n) /\ Cardinality(1 .. n) = IF 1 > n THEN 0 ELSE n - 1 + 1
    BY <2>1, FS_Interval
  <2>3. (IF 1 > n THEN 0 ELSE n - 1 + 1) = n
    BY <2>1
  <2>. QED  BY <2>2, <2>3 DEF n
<1>2. {i \in DOMAIN fs : fs[i].simple} \subseteq 1 .. Len(fs)
  BY LenProperties
<1>3. /\ IsFiniteSet({i \in DOMAIN fs : fs[i].simple})
      /\ Cardinality({i \in DOMAIN fs : fs[i].simple}) <= Cardinality(1 .. Len(fs))
  BY <1>1, <1>2, FS_Subset
<1>4. SimpleCount(fs) \in Nat
  BY <1>3, FS_CardinalityType DEF SimpleCount
<1>. QED  BY <1>1, <1>3, <1>4 DEF SimpleCount

(* A pushed frame counts when it is simple. *)
LEMMA SimpleCountAppend ==
  ASSUME NEW S, NEW fs \in Seq(S), NEW f \in S
  PROVE  SimpleCount(Append(fs, f)) = SimpleCount(fs) + (IF f.simple THEN 1 ELSE 0)
<1>. DEFINE n == Len(fs)
            A == {i \in DOMAIN fs : fs[i].simple}
            B == {i \in DOMAIN Append(fs, f) : Append(fs, f)[i].simple}
<1>1. /\ n \in Nat /\ DOMAIN fs = 1 .. n /\ DOMAIN Append(fs, f) = 1 .. (n + 1)
      /\ \A i \in 1 .. n : Append(fs, f)[i] = fs[i]
      /\ Append(fs, f)[n + 1] = f
  BY AppendProperties, LenProperties
<1>2. \A i \in 1 .. (n + 1) : i \in 1 .. n \/ i = n + 1
  BY <1>1
<1>3. \A i \in 1 .. n : i \in 1 .. (n + 1) /\ i # n + 1
  BY <1>1
<1>4. n + 1 \in 1 .. (n + 1)
  BY <1>1
<1>5. IsFiniteSet(A) /\ Cardinality(A) \in Nat
  <2>1. A \subseteq 1 .. n /\ IsFiniteSet(1 .. n)
    BY <1>1, FS_Interval
  <2>. QED  BY <2>1, FS_Subset, FS_CardinalityType
<1>6. CASE f.simple
  <2>1. B = A \cup {n + 1} /\ n + 1 \notin A
    BY <1>1, <1>2, <1>3, <1>4, <1>6
  <2>. HIDE DEF A, B
  <2>2. Cardinality(B) = Cardinality(A) + 1
    BY <1>5, <2>1, FS_AddElement
  <2>. QED  BY <1>6, <2>2 DEF SimpleCount, A, B
<1>7. CASE ~f.simple
  <2>1. B = A
    BY <1>1, <1>2, <1>3, <1>4, <1>7
  <2>. HIDE DEF A, B
  <2>2. SimpleCount(Append(fs, f)) = Cardinality(A) /\ SimpleCount(fs) = Cardinality(A)
    BY <2>1 DEF SimpleCount, A, B
  <2>. QED  BY <1>5, <1>7, <2>2
<1>. QED  BY <1>6, <1>7

(* So does a popped one. *)
LEMMA SimpleCountFront ==
  ASSUME NEW S, NEW fs \in Seq(S), fs # <<>>
  PROVE  SimpleCount(fs) = SimpleCount(Front(fs)) + (IF Last(fs).simple THEN 1 ELSE 0)
<1>. DEFINE fr == Front(fs)
            l == Last(fs)
<1>1. /\ fr \in Seq(S) /\ l \in S /\ Len(fs) \in Nat \ {0} /\ Len(fr) = Len(fs) - 1
      /\ \A i \in 1 .. (Len(fs) - 1) : fr[i] = fs[i]
      /\ l = fs[Len(fs)]
  BY FrontProperties
<1>. HIDE DEF fr, l
<1>2. /\ Append(fr, l) \in Seq(S) /\ Len(Append(fr, l)) = Len(fs)
      /\ \A i \in 1 .. (Len(fs) - 1) : Append(fr, l)[i] = fr[i]
      /\ Append(fr, l)[Len(fs)] = l
  <2>1. /\ Append(fr, l) \in Seq(S) /\ Len(Append(fr, l)) = Len(fr) + 1
        /\ \A i \in 1 .. Len(fr) : Append(fr, l)[i] = fr[i]
        /\ Append(fr, l)[Len(fr) + 1] = l
    BY <1>1, AppendProperties
  <2>2. Len(fr) + 1 = Len(fs)
    BY <1>1
  <2>. QED  BY <1>1, <2>1, <2>2
<1>3. \A i \in 1 .. Len(fs) : Append(fr, l)[i] = fs[i]
  <2>1. \A i \in 1 .. Len(fs) : i \in 1 .. (Len(fs) - 1) \/ i = Len(fs)
    BY <1>1
  <2>. QED  BY <1>1, <1>2, <2>1
<1>4. Append(fr, l) = fs
  BY <1>2, <1>3, SeqEqual
<1>5. SimpleCount(Append(fr, l)) = SimpleCount(fr) + (IF l.simple THEN 1 ELSE 0)
  BY <1>1, SimpleCountAppend
<1>. QED  BY <1>4, <1>5 DEF fr, l

(* Changes of other fields leave the count. *)
LEMMA SimpleCountSame ==
  ASSUME NEW fs, NEW gs, DOMAIN gs = DOMAIN fs, \A i \in DOMAIN fs : gs[i].simple = fs[i].simple
  PROVE  SimpleCount(gs) = SimpleCount(fs)
<1>1. {i \in DOMAIN gs : gs[i].simple} = {i \in DOMAIN fs : fs[i].simple}
  OBVIOUS
<1>. QED  BY <1>1 DEF SimpleCount

-----------------------------------------------------------------------------
(* The pools *)

(* Taking a frame out of a pool. *)
LEMMA WithoutLastShape ==
  ASSUME NEW S, NEW pool \in Seq(S)
  PROVE  /\ WithoutLast(pool) \in Seq(S)
         /\ Len(pool) \in Nat
         /\ Len(WithoutLast(pool)) = IF Len(pool) = 0 THEN 0 ELSE Len(pool) - 1
<1>1. CASE pool = <<>>
  BY <1>1 DEF WithoutLast
<1>2. CASE pool # <<>>
  BY <1>2, FrontProperties DEF WithoutLast
<1>. QED  BY <1>1, <1>2

(* reset_for_reuse keeps the caches only for the code that filled them. *)
LEMMA SiteFromGood ==
  ASSUME NEW w, NEW pool \in Seq(GoodPooled(w)), NEW c
  PROVE  SiteFrom(pool, c) \in GoodSite(c, w)
<1>1. CASE pool = <<>>
  BY <1>1, NoEntryGood DEF SiteFrom
<1>2. CASE pool # <<>>
  <2>1. Last(pool) \in GoodPooled(w)
    BY <1>2, FrontProperties
  <2>2. CASE Last(pool).code = c
    BY <1>2, <2>1, <2>2 DEF SiteFrom, SiteFor, GoodPooled
  <2>3. CASE Last(pool).code # c
    BY <1>2, <2>3, NoEntryGood DEF SiteFrom, SiteFor
  <2>. QED  BY <2>2, <2>3
<1>. QED  BY <1>1, <1>2

(* A reversed pool holds the same frames. *)
LEMMA ReverseShape ==
  ASSUME NEW S, NEW s \in Seq(S)
  PROVE  Reverse(s) \in Seq(S) /\ Len(Reverse(s)) = Len(s)
<1>1. Len(s) \in Nat /\ \A i \in 1 .. Len(s) : s[i] \in S
  OBVIOUS
<1>2. \A i \in 1 .. Len(s) : (Len(s) - i) + 1 \in 1 .. Len(s)
  BY <1>1
<1>3. Reverse(s) \in [1 .. Len(s) -> S]
  BY <1>1, <1>2 DEF Reverse
<1>. QED  BY <1>1, <1>3

(* The general pool gives out a frame. *)
LEMMA TakeGeneral ==
  ASSUME NEW w, NEW pl, PoolsInv(pl, w)
  PROVE  LET q == [pl EXCEPT !.general = WithoutLast(@)] IN
         PoolsInv(q, w) /\ q.simple = pl.simple /\ q.slot0 = pl.slot0
<1>. DEFINE q == [pl EXCEPT !.general = WithoutLast(@)]
<1>1. pl.general \in Seq(GoodPooled(w)) /\ Len(pl.general) <= PoolMax
  BY DEF PoolsInv
<1>2. /\ WithoutLast(pl.general) \in Seq(GoodPooled(w))
      /\ Len(WithoutLast(pl.general)) <= PoolMax
  BY <1>1, WithoutLastShape, CachesAssumption
<1>3. /\ q \in [general : Seq(GoodPooled(w)), simple : Seq(GoodPooled(w)),
                slot0 : Seq(GoodPooled(w)), key : Funcs \cup {NoKey}]
      /\ q.general = WithoutLast(pl.general)
      /\ q.simple = pl.simple /\ q.slot0 = pl.slot0 /\ q.key = pl.key
  BY <1>2 DEF PoolsInv
<1>. HIDE DEF q
<1>4. PoolsInv(q, w)
  BY <1>2, <1>3 DEF PoolsInv
<1>. QED  BY <1>3, <1>4 DEF q

(* The simple pool shrinks by the frame it gives out. *)
LEMMA TakeSimple ==
  ASSUME NEW w, NEW pl, PoolsInv(pl, w)
  PROVE  LET q == [pl EXCEPT !.simple = WithoutLast(@)] IN
         /\ PoolsInv(q, w) /\ q.slot0 = pl.slot0
         /\ Len(q.simple) = IF Len(pl.simple) = 0 THEN 0 ELSE Len(pl.simple) - 1
<1>. DEFINE q == [pl EXCEPT !.simple = WithoutLast(@)]
<1>1. pl.simple \in Seq(GoodPooled(w))
  BY DEF PoolsInv
<1>2. /\ WithoutLast(pl.simple) \in Seq(GoodPooled(w))
      /\ Len(WithoutLast(pl.simple)) = IF Len(pl.simple) = 0 THEN 0 ELSE Len(pl.simple) - 1
  BY <1>1, WithoutLastShape
<1>3. /\ q \in [general : Seq(GoodPooled(w)), simple : Seq(GoodPooled(w)),
                slot0 : Seq(GoodPooled(w)), key : Funcs \cup {NoKey}]
      /\ q.general = pl.general
      /\ q.simple = WithoutLast(pl.simple) /\ q.slot0 = pl.slot0 /\ q.key = pl.key
  BY <1>2 DEF PoolsInv
<1>. HIDE DEF q
<1>4. PoolsInv(q, w)
  BY <1>3 DEF PoolsInv
<1>. QED  BY <1>2, <1>3, <1>4 DEF q

(* retarget_simple_slot0_pool moves frames and loses none. *)
LEMMA RetargetedInv ==
  ASSUME NEW w, NEW pl, PoolsInv(pl, w), NEW key \in Funcs
  PROVE  LET q == Retargeted(pl, key) IN
         /\ PoolsInv(q, w) /\ q.key = key
         /\ Len(q.simple) \in Nat /\ Len(q.slot0) \in Nat
         /\ Len(q.simple) + Len(q.slot0) = Len(pl.simple) + Len(pl.slot0)
         /\ q.slot0 = pl.slot0 \/ q.slot0 = <<>>
         /\ q.general = pl.general
<1>. DEFINE q == Retargeted(pl, key)
            r == pl.simple \o Reverse(pl.slot0)
<1>1. /\ pl.simple \in Seq(GoodPooled(w)) /\ pl.slot0 \in Seq(GoodPooled(w))
      /\ Len(pl.simple) \in Nat /\ Len(pl.slot0) \in Nat
  BY LenProperties DEF PoolsInv
<1>2. CASE pl.key = key
  BY <1>1, <1>2 DEF Retargeted
<1>3. CASE pl.key # key
  <2>1. Reverse(pl.slot0) \in Seq(GoodPooled(w)) /\ Len(Reverse(pl.slot0)) = Len(pl.slot0)
    BY <1>1, ReverseShape, Zenon
  <2>2. r \in Seq(GoodPooled(w)) /\ Len(r) = Len(pl.simple) + Len(pl.slot0)
    <3>1. r \in Seq(GoodPooled(w)) /\ Len(r) = Len(pl.simple) + Len(Reverse(pl.slot0))
      BY <1>1, <2>1, ConcatProperties, Zenon
    <3>. QED  BY <2>1, <3>1, Zenon
  <2>3. q = [pl EXCEPT !.simple = r, !.slot0 = <<>>, !.key = key]
    BY <1>3 DEF Retargeted
  <2>. HIDE DEF r
  <2>4. /\ q \in [general : Seq(GoodPooled(w)), simple : Seq(GoodPooled(w)),
                  slot0 : Seq(GoodPooled(w)), key : Funcs \cup {NoKey}]
        /\ q.general = pl.general /\ q.simple = r /\ q.slot0 = <<>> /\ q.key = key
    BY <2>2, <2>3, EmptySeq DEF PoolsInv
  <2>. HIDE DEF q
  <2>5. Len(q.slot0) = 0 /\ DOMAIN q.slot0 = {}
    BY <2>4
  <2>6. PoolsInv(q, w)
    BY <2>4, <2>5, CachesAssumption DEF PoolsInv
  <2>7. /\ Len(q.simple) \in Nat /\ Len(q.slot0) \in Nat
        /\ Len(q.simple) + Len(q.slot0) = Len(pl.simple) + Len(pl.slot0)
    <3>1. Len(q.simple) = Len(pl.simple) + Len(pl.slot0)
      BY <2>2, <2>4, Zenon
    <3>. DEFINE a == Len(pl.simple)
                b == Len(pl.slot0)
    <3>2. a \in Nat /\ b \in Nat /\ Len(q.simple) = a + b /\ Len(q.slot0) = 0
      BY <1>1, <2>5, <3>1
    <3>. HIDE DEF a, b
    <3>3. Len(q.simple) \in Nat /\ Len(q.slot0) \in Nat /\ Len(q.simple) + Len(q.slot0) = a + b
      BY <3>2
    <3>. QED  BY <3>3 DEF a, b
  <2>. QED  BY <2>4, <2>6, <2>7 DEF q
<1>. QED  BY <1>2, <1>3

(* Giving a frame back to the simple pool. *)
LEMMA GiveSimple ==
  ASSUME NEW w, NEW pl, PoolsInv(pl, w), NEW p \in GoodPooled(w)
  PROVE  LET q == [pl EXCEPT !.simple = Append(@, p)] IN
         /\ PoolsInv(q, w)
         /\ Len(q.simple) + Len(q.slot0) = Len(pl.simple) + Len(pl.slot0) + 1
<1>. DEFINE q == [pl EXCEPT !.simple = Append(@, p)]
<1>1. /\ pl.simple \in Seq(GoodPooled(w)) /\ pl.slot0 \in Seq(GoodPooled(w))
      /\ Len(pl.simple) \in Nat /\ Len(pl.slot0) \in Nat
  BY LenProperties DEF PoolsInv
<1>2. /\ Append(pl.simple, p) \in Seq(GoodPooled(w))
      /\ Len(Append(pl.simple, p)) = Len(pl.simple) + 1
  BY ZenonT(60), <1>1, AppendProperties
<1>3. /\ q \in [general : Seq(GoodPooled(w)), simple : Seq(GoodPooled(w)),
                slot0 : Seq(GoodPooled(w)), key : Funcs \cup {NoKey}]
      /\ q.general = pl.general
      /\ q.simple = Append(pl.simple, p) /\ q.slot0 = pl.slot0 /\ q.key = pl.key
  BY <1>2 DEF PoolsInv
<1>. HIDE DEF q
<1>4. PoolsInv(q, w)
  BY <1>3 DEF PoolsInv
<1>5. Len(q.simple) + Len(q.slot0) = Len(pl.simple) + Len(pl.slot0) + 1
  <2>. DEFINE a == Len(pl.simple)
              b == Len(pl.slot0)
  <2>1. Len(q.simple) = a + 1 /\ Len(q.slot0) = b
    BY <1>2, <1>3, Zenon
  <2>2. a \in Nat /\ b \in Nat
    BY <1>1
  <2>. HIDE DEF a, b
  <2>3. Len(q.simple) + Len(q.slot0) = a + b + 1
    BY <2>1, <2>2
  <2>. QED  BY <2>3 DEF a, b
<1>. QED  BY <1>4, <1>5 DEF q

(* The pool of one-argument frames takes a frame of its function. *)
LEMMA GiveSlot0 ==
  ASSUME NEW w, NEW pl, PoolsInv(pl, w), NEW p \in GoodPooled(w), p.code = pl.key.code,
         Len(pl.slot0) < PoolMax
  PROVE  LET q == [pl EXCEPT !.slot0 = Append(@, p)] IN
         /\ PoolsInv(q, w)
         /\ Len(q.simple) + Len(q.slot0) = Len(pl.simple) + Len(pl.slot0) + 1
<1>. DEFINE q == [pl EXCEPT !.slot0 = Append(@, p)]
            n == Len(pl.slot0)
<1>1. /\ pl.simple \in Seq(GoodPooled(w)) /\ pl.slot0 \in Seq(GoodPooled(w))
      /\ Len(pl.simple) \in Nat /\ n \in Nat /\ DOMAIN pl.slot0 = 1 .. n
  BY LenProperties DEF PoolsInv
<1>2. /\ Append(pl.slot0, p) \in Seq(GoodPooled(w))
      /\ Len(Append(pl.slot0, p)) = n + 1
      /\ DOMAIN Append(pl.slot0, p) = 1 .. (n + 1)
      /\ \A i \in 1 .. n : Append(pl.slot0, p)[i] = pl.slot0[i]
      /\ Append(pl.slot0, p)[n + 1] = p
  <2>1. /\ Append(pl.slot0, p) \in Seq(GoodPooled(w))
        /\ Len(Append(pl.slot0, p)) = n + 1
        /\ \A i \in 1 .. n : Append(pl.slot0, p)[i] = pl.slot0[i]
        /\ Append(pl.slot0, p)[n + 1] = p
    <3>. DEFINE a == pl.slot0
    <3>1. a \in Seq(GoodPooled(w))
      BY <1>1
    <3>. HIDE DEF a
    <3>2. /\ Append(a, p) \in Seq(GoodPooled(w))
          /\ Len(Append(a, p)) = Len(a) + 1
          /\ \A i \in 1 .. Len(a) : Append(a, p)[i] = a[i]
          /\ Append(a, p)[Len(a) + 1] = p
      BY <3>1, AppendProperties
    <3>. QED  BY <3>2 DEF a
  <2>2. DOMAIN Append(pl.slot0, p) = 1 .. Len(Append(pl.slot0, p))
    BY <2>1, LenProperties, Zenon
  <2>. QED  BY <2>1, <2>2, Zenon
<1>3. /\ q \in [general : Seq(GoodPooled(w)), simple : Seq(GoodPooled(w)),
                slot0 : Seq(GoodPooled(w)), key : Funcs \cup {NoKey}]
      /\ q.general = pl.general
      /\ q.slot0 = Append(pl.slot0, p) /\ q.simple = pl.simple /\ q.key = pl.key
  BY <1>2 DEF PoolsInv
<1>4. \A i \in 1 .. (n + 1) : i \in 1 .. n \/ i = n + 1
  BY <1>1
<1>. HIDE DEF q
<1>5. \A i \in DOMAIN q.slot0 : q.slot0[i].code = q.key.code
  BY <1>1, <1>2, <1>3, <1>4 DEF PoolsInv
<1>6. Len(q.slot0) <= PoolMax /\ Len(q.slot0) = n + 1
  BY <1>1, <1>2, <1>3, CachesAssumption
<1>7. PoolsInv(q, w)
  BY <1>3, <1>5, <1>6 DEF PoolsInv
<1>8. Len(q.simple) + Len(q.slot0) = Len(pl.simple) + Len(pl.slot0) + 1
  <2>. DEFINE a == Len(pl.simple)
  <2>1. Len(q.simple) = a /\ Len(q.slot0) = n + 1 /\ a \in Nat /\ n \in Nat
    BY <1>1, <1>3, <1>6, Zenon
  <2>. HIDE DEF a, n
  <2>2. Len(q.simple) + Len(q.slot0) = a + n + 1
    BY <2>1
  <2>. QED  BY <2>2 DEF a, n
<1>. QED  BY <1>7, <1>8 DEF q

-----------------------------------------------------------------------------
(* Steps *)

(* The parts of a state that satisfies the invariant, as the steps use them. *)
LEMMA Parts ==
  ASSUME IInv
  PROVE  /\ frames \in Seq(GoodFrame(World)) /\ frames # <<>>
         /\ Len(frames) \in 1 .. MaxDepth /\ DOMAIN frames = 1 .. Len(frames)
         /\ frames[1].gen = NoGen
         /\ top = frames[Len(frames)] /\ top \in GoodFrame(World) /\ top \in Frame
         /\ World.ver = version /\ World.bver = bversion
         /\ \A m \in Modules : World.look[m] = Lookup(m)
         /\ MaxDepth \in Nat /\ PoolMax \in Nat \ {0} /\ MaxWrites \in Nat
<1>1. /\ frames \in Seq(GoodFrame(World)) /\ Len(frames) \in 1 .. MaxDepth
      /\ frames[1].gen = NoGen
  BY DEF IInv, FramesInv
<1>2. frames # <<>>
  BY <1>1, EmptySeq
<1>3. top = frames[Len(frames)] /\ top \in GoodFrame(World)
  BY <1>1, <1>2, FrontProperties DEF top
<1>4. DOMAIN frames = 1 .. Len(frames)
  BY <1>1, LenProperties
<1>5. World.ver = version /\ World.bver = bversion /\ \A m \in Modules : World.look[m] = Lookup(m)
  BY DEF World
<1>6. top \in Frame
  BY <1>3 DEF GoodFrame
<1>. QED  BY <1>1, <1>2, <1>3, <1>4, <1>5, <1>6, CachesAssumption

(* A step that leaves globals, builtins and versions alone keeps the          *)
(* invariant when it leaves good frames, generators and pools within bounds.  *)
LEMMA QuietStep ==
  ASSUME IInv, UNCHANGED <<program, globals, builtins, version, bversion, writes>>,
         FramesInv(frames', World), GensInv(gens', World), PoolsInv(pools', World),
         InUse(pools', frames') <= MaxDepth + PoolMax
  PROVE  IInv'
<1>1. World' = World
  BY DEF World, Lookup
<1>2. WorldInv'
  BY DEF IInv, WorldInv
<1>3. FramesInv(frames, World)' /\ GensInv(gens, World)' /\ PoolsInv(pools, World)'
  BY <1>1 DEF FramesInv, GensInv, PoolsInv
<1>4. (InUse(pools, frames) <= MaxDepth + PoolMax)'
  BY DEF InUse, SimpleCount
<1>. QED  BY <1>2, <1>3, <1>4 DEF IInv

(* A load without a hit caches what the lookup found. *)
LEMMA LoadInv ==
  ASSUME IInv, LoadGlobal
  PROVE  IInv'
<1>. DEFINE n == Len(frames)
            e == [code |-> top.code, module |-> top.module, version |-> top.version,
                  bversion |-> bversion, value |-> Lookup(top.module), lent |-> top.lent]
            g == [top EXCEPT !.site = e]
<1>1. /\ frames \in Seq(GoodFrame(World)) /\ n \in 1 .. MaxDepth /\ DOMAIN frames = 1 .. n
      /\ top = frames[n] /\ top \in GoodFrame(World) /\ top \in Frame
      /\ World.ver = version /\ World.bver = bversion
      /\ \A m \in Modules : World.look[m] = Lookup(m)
      /\ MaxDepth \in Nat /\ MaxWrites \in Nat
  BY Parts
<1>2. /\ top.code \in Codes \cup {Body} /\ top.module \in Modules
      /\ top.version \in 1 .. 1 + MaxWrites /\ top.lent \in BOOLEAN
  BY <1>1 DEF Frame
<1>3. Lookup(top.module) \in Values \cup {Absent} /\ bversion \in 0 .. 1 + MaxWrites
      /\ top.version \in 0 .. 1 + MaxWrites
  BY <1>1, <1>2 DEF IInv, WorldInv, Lookup
<1>4. e \in Entry
  BY <1>2, <1>3 DEF Entry
<1>5. e \in GoodSite(top.code, World)
  <2>1. ~top.lent => top.version = version[top.module] /\ version[top.module] \in Int
    BY <1>1, <1>2 DEF GoodFrame, IInv, WorldInv
  <2>2. bversion \in Int
    BY DEF IInv, WorldInv
  <2>3. ~top.lent => Fresh(e, World)
    BY <1>1, <1>2, <2>1, <2>2 DEF Fresh
  <2>. QED  BY <1>4, <2>3 DEF GoodSite
<1>. HIDE DEF e
<1>6. /\ g \in Frame /\ g.code = top.code /\ g.module = top.module /\ g.version = top.version
      /\ g.lent = top.lent /\ g.kind = top.kind /\ g.simple = top.simple /\ g.gen = top.gen
      /\ g.site = e
  BY <1>1, <1>4 DEF Frame
<1>. HIDE DEF g
<1>7. g \in GoodFrame(World)
  <2>1. Key(g) = Key(top)
    BY <1>6 DEF Key
  <2>. QED  BY <1>1, <1>5, <1>6, <2>1 DEF GoodFrame
<1>8. frames' = [frames EXCEPT ![n] = g]
  BY SMTT(60), <1>1 DEF LoadGlobal, e, g
<1>. HIDE DEF n
<1>9. /\ frames' \in Seq(GoodFrame(World)) /\ Len(frames') = n
      /\ DOMAIN frames' = DOMAIN frames
      /\ \A j \in DOMAIN frames : /\ frames'[j].simple = frames[j].simple
                                   /\ frames'[j].gen = frames[j].gen
  <2>1. n \in 1 .. Len(frames) /\ DOMAIN frames = 1 .. Len(frames) /\ n = Len(frames)
    BY <1>1 DEF n
  <2>2. /\ frames' \in Seq(GoodFrame(World)) /\ Len(frames') = Len(frames)
        /\ \A j \in 1 .. Len(frames) : frames'[j] = IF j = n THEN g ELSE frames[j]
    BY <1>1, <1>7, <1>8, <2>1, ExceptSeq
  <2>3. DOMAIN frames' = 1 .. Len(frames')
    BY <2>2, LenProperties
  <2>. QED  BY <1>1, <1>6, <2>1, <2>2, <2>3
<1>10. InUse(pools', frames') <= MaxDepth + PoolMax
  <2>1. SimpleCount(frames') = SimpleCount(frames) /\ pools' = pools
    BY <1>9, SimpleCountSame DEF LoadGlobal
  <2>. QED  BY <2>1 DEF IInv, InUse
<1>11. FramesInv(frames', World) /\ GensInv(gens', World) /\ PoolsInv(pools', World)
  <2>1. frames'[1].gen = NoGen
    BY <1>1, <1>9, Parts
  <2>. QED  BY <1>1, <1>9, <2>1 DEF FramesInv, IInv, LoadGlobal
<1>. QED  BY <1>10, <1>11, QuietStep DEF LoadGlobal

(* A write to the globals of a module: its version grows, and the frames on   *)
(* the stack and in generators follow.                                        *)
LEMMA GlobalWriteInv ==
  ASSUME IInv, NEW m \in Modules, NEW value \in Values \cup {Absent}, Counted,
         globals' = [globals EXCEPT ![m] = value],
         version' = [version EXCEPT ![m] = @ + 1],
         Propagate(m, version'[m]),
         UNCHANGED <<program, builtins, bversion, pools>>
  PROVE  IInv'
<1>. DEFINE w == World
            x == World'
            v == version'[m]
<1>1. /\ frames \in Seq(GoodFrame(w)) /\ Len(frames) \in 1 .. MaxDepth
      /\ DOMAIN frames = 1 .. Len(frames)
      /\ w.ver = version /\ w.bver = bversion /\ \A k \in Modules : w.look[k] = Lookup(k)
      /\ MaxWrites \in Nat /\ MaxDepth \in Nat
  BY Parts
<1>2. /\ writes \in Nat /\ writes' = writes + 1 /\ writes' \in 0 .. MaxWrites
      /\ version \in [Modules -> 1 .. 1 + writes] /\ bversion \in 1 .. 1 + writes
      /\ globals \in [Modules -> Values \cup {Absent}]
  BY <1>1 DEF IInv, WorldInv, Counted
<1>3. /\ \A k \in Modules : version[k] \in 1 .. 1 + writes
      /\ \A k \in Modules : version'[k] = IF k = m THEN version[k] + 1 ELSE version[k]
      /\ \A k \in Modules : k # m => globals'[k] = globals[k]
  BY <1>2
<1>4. version' \in [Modules -> 1 .. 1 + writes'] /\ v \in 1 .. 1 + MaxWrites
  <2>1. \A k \in Modules : version'[k] \in 1 .. 1 + writes'
    BY <1>2, <1>3
  <2>2. DOMAIN version' = Modules /\ version' = [k \in Modules |-> version'[k]]
    BY <1>2
  <2>3. v \in 1 .. 1 + MaxWrites
    BY <1>1, <1>2, <2>1
  <2>. QED  BY <2>1, <2>2, <2>3
<1>5. WorldInv'
  <2>1. globals' \in [Modules -> Values \cup {Absent}] /\ bversion' \in 1 .. 1 + writes'
    BY <1>2
  <2>. QED  BY <1>2, <1>4, <2>1 DEF IInv, WorldInv
<1>6. /\ x.ver = version' /\ x.bver = bversion
      /\ \A k \in Modules : x.look[k] = Lookup(k)'
  BY DEF World
<1>7. \A k \in Modules : k # m => Lookup(k)' = Lookup(k)
  BY <1>3 DEF Lookup
<1>. HIDE DEF w, x, v
<1>8. Later(w, x)
  <2>1. \A k \in Modules : w.ver[k] \in Int /\ x.ver[k] \in Int /\ w.ver[k] <= x.ver[k]
    BY <1>1, <1>2, <1>3, <1>6
  <2>2. w.bver \in Int /\ x.bver \in Int /\ w.bver <= x.bver
    BY <1>1, <1>2, <1>6
  <2>3. ASSUME NEW k \in Modules, w.ver[k] = x.ver[k] PROVE w.look[k] = x.look[k]
    <3>1. k # m
      BY <1>1, <1>2, <1>3, <1>6, <2>3
    <3>. QED  BY <1>1, <1>6, <1>7, <3>1
  <2>. QED  BY <2>1, <2>2, <2>3 DEF Later
<1>9. \A k \in Modules : x.ver[k] = IF k = m THEN v ELSE w.ver[k]
  BY <1>1, <1>3, <1>6 DEF v
<1>10. \A f \in GoodFrame(w) : /\ Renewed(f, m, v) \in GoodFrame(x)
                                /\ Renewed(f, m, v).simple = f.simple
                                /\ Renewed(f, m, v).gen = f.gen
  BY <1>4, <1>8, <1>9, RenewedGood
<1>11. /\ frames' \in Seq(GoodFrame(x)) /\ Len(frames') = Len(frames)
       /\ DOMAIN frames' = DOMAIN frames
       /\ \A i \in DOMAIN frames : /\ frames'[i].simple = frames[i].simple
                                    /\ frames'[i].gen = frames[i].gen
  <2>1. frames' = [i \in DOMAIN frames |-> Renewed(frames[i], m, v)]
    BY DEF Propagate, v
  <2>2. \A i \in DOMAIN frames : frames[i] \in GoodFrame(w)
    BY <1>1, ElementOfSeq
  <2>3. frames' \in [1 .. Len(frames) -> GoodFrame(x)]
    BY <1>1, <1>10, <2>1, <2>2
  <2>4. frames' \in Seq(GoodFrame(x)) /\ Len(frames') = Len(frames)
    BY <1>1, <2>3
  <2>. QED  BY <1>1, <1>10, <2>1, <2>2, <2>4
<1>12. gens' \in [Gens -> GoodGen(x) \cup {NoFrame}]
  <2>1. gens \in [Gens -> GoodGen(w) \cup {NoFrame}]
    BY DEF IInv, GensInv, w
  <2>2. ASSUME NEW g \in Gens, gens[g] # NoFrame PROVE Renewed(gens[g], m, v) \in GoodGen(x)
    <3>1. gens[g] \in GoodFrame(w) /\ ~gens[g].simple
      BY <2>1, <2>2 DEF GoodGen
    <3>. QED  BY <1>10, <3>1 DEF GoodGen
  <2>3. gens' = [g \in Gens |-> IF gens[g] = NoFrame THEN NoFrame ELSE Renewed(gens[g], m, v)]
    BY DEF Propagate, v
  <2>. QED  BY <2>2, <2>3
<1>13. PoolsInv(pools', x)
  BY <1>8, PoolsLater DEF IInv, w
<1>14. InUse(pools', frames') <= MaxDepth + PoolMax
  <2>1. SimpleCount(frames') = SimpleCount(frames) /\ pools' = pools
    BY <1>11, SimpleCountSame
  <2>. QED  BY <2>1 DEF IInv, InUse
<1>15. FramesInv(frames, World)' /\ GensInv(gens, World)' /\ PoolsInv(pools, World)'
  <2>1. frames'[1].gen = NoGen
    BY <1>1, <1>11, Parts
  <2>. QED  BY <1>1, <1>11, <1>12, <1>13, <2>1 DEF FramesInv, GensInv, PoolsInv, x
<1>16. (InUse(pools, frames) <= MaxDepth + PoolMax)'
  BY <1>14 DEF InUse, SimpleCount
<1>. QED  BY <1>5, <1>15, <1>16 DEF IInv

(* A write to the builtins: every entry is now older than their version. *)
LEMMA BuiltinWriteInv ==
  ASSUME IInv, NEW value \in Values \cup {Absent}, WriteBuiltin(value)
  PROVE  IInv'
<1>. DEFINE w == World
            x == World'
<1>1. /\ writes \in Nat /\ writes' = writes + 1 /\ writes' \in 0 .. MaxWrites
      /\ version \in [Modules -> 1 .. 1 + writes] /\ bversion \in 1 .. 1 + writes
      /\ bversion' = bversion + 1 /\ builtins' = value
      /\ UNCHANGED <<program, globals, version, frames, gens, pools>>
      /\ MaxWrites \in Nat
  BY Parts DEF IInv, WorldInv, Counted, WriteBuiltin
<1>2. \A k \in Modules : version[k] \in 1 .. 1 + writes
  BY <1>1
<1>3. WorldInv'
  <2>1. \A k \in Modules : version[k] \in 1 .. 1 + writes'
    BY <1>1, <1>2
  <2>2. version' \in [Modules -> 1 .. 1 + writes'] /\ bversion' \in 1 .. 1 + writes'
    BY <1>1, <2>1
  <2>. QED  BY <1>1, <2>2 DEF IInv, WorldInv
<1>4. w.ver = version /\ w.bver = bversion /\ x.ver = version /\ x.bver = bversion + 1
  BY <1>1 DEF World
<1>. HIDE DEF w, x
<1>5. Later(w, x)
  BY <1>1, <1>2, <1>4 DEF Later
<1>6. GoodFrame(w) \subseteq GoodFrame(x)
  BY <1>4, <1>5, GoodSiteLater DEF GoodFrame
<1>7. frames' \in Seq(GoodFrame(x)) /\ Len(frames') \in 1 .. MaxDepth /\ frames'[1].gen = NoGen
  BY <1>1, <1>6, SeqMonotonic DEF IInv, FramesInv, w
<1>8. gens' \in [Gens -> GoodGen(x) \cup {NoFrame}]
  <2>1. gens \in [Gens -> GoodGen(w) \cup {NoFrame}]
    BY DEF IInv, GensInv, w
  <2>2. GoodGen(w) \subseteq GoodGen(x)
    BY <1>6 DEF GoodGen
  <2>. QED  BY <1>1, <2>1, <2>2
<1>9. PoolsInv(pools', x)
  BY <1>1, <1>5, PoolsLater DEF IInv, w
<1>10. FramesInv(frames, World)' /\ GensInv(gens, World)' /\ PoolsInv(pools, World)'
  BY <1>7, <1>8, <1>9 DEF FramesInv, GensInv, PoolsInv, x
<1>11. (InUse(pools, frames) <= MaxDepth + PoolMax)'
  BY <1>1 DEF IInv, InUse, SimpleCount
<1>. QED  BY <1>3, <1>10, <1>11 DEF IInv

-----------------------------------------------------------------------------
(* Frames pushed and popped *)

(* The sum of pooled frames and frames in use, before and after a step. *)
LEMMA RoomArithmetic ==
  ASSUME NEW a \in Nat, NEW b \in Nat, NEW c \in Nat, NEW d \in Nat,
         NEW depth \in Nat, NEW max \in Nat, a + c <= depth + max
  PROVE  /\ b <= a - 1 /\ d <= c + 1 => b + d <= depth + max
         /\ b <= max /\ d <= depth => b + d <= depth + max
         /\ b <= a /\ d <= c => b + d <= depth + max
         /\ b <= a + 1 /\ d + 1 <= c => b + d <= depth + max
OBVIOUS

\* Frames in the two simple pools.
PoolSum(pl) == Len(pl.simple) + Len(pl.slot0)

(* A pushed frame takes at most the room of the pooled frame it came from,    *)
(* or finds the simple pools with no more than one pool's frames.             *)
LEMMA PushInv ==
  ASSUME IInv, NEW f \in GoodFrame(World), PushChecked(f), PoolsInv(pools', World),
         gens' = gens \/ GensInv(gens', World),
         UNCHANGED <<program, globals, builtins, version, bversion, writes>>,
         NEW a \in Nat, NEW b \in Nat, a = PoolSum(pools), b = PoolSum(pools'),
         \/ b <= a - 1 \/ b <= PoolMax \/ (~f.simple /\ b <= a)
  PROVE  IInv'
<1>. DEFINE c == SimpleCount(frames)
            d == SimpleCount(frames')
<1>1. /\ frames \in Seq(GoodFrame(World)) /\ Len(frames) \in 1 .. MaxDepth
      /\ frames[1].gen = NoGen /\ MaxDepth \in Nat /\ PoolMax \in Nat
  BY Parts
<1>2. /\ frames' \in Seq(GoodFrame(World)) /\ Len(frames') \in 1 .. MaxDepth
      /\ frames'[1].gen = NoGen
      /\ d <= c + 1 /\ (~f.simple => d <= c)
      /\ c \in Nat /\ d \in Nat /\ d <= MaxDepth
  <2>1. c \in 0 .. Len(frames)
    BY <1>1, SimpleCountType
  <2>2. CASE Len(frames) < MaxDepth
    <3>1. frames' = Append(frames, f)
      BY <2>2 DEF PushChecked
    <3>2. /\ frames' \in Seq(GoodFrame(World)) /\ Len(frames') = Len(frames) + 1
          /\ frames'[1] = frames[1]
      BY <1>1, <3>1, AppendProperties
    <3>3. d = c + (IF f.simple THEN 1 ELSE 0)
      BY <1>1, <3>1, SimpleCountAppend
    <3>4. d \in 0 .. Len(frames')
      BY <3>2, SimpleCountType
    <3>. HIDE DEF c, d
    <3>. QED  BY <1>1, <2>1, <2>2, <3>2, <3>3, <3>4
  <2>3. CASE ~(Len(frames) < MaxDepth)
    <3>1. frames' = frames
      BY <2>3 DEF PushChecked
    <3>2. d = c
      BY <3>1
    <3>. HIDE DEF c, d
    <3>. QED  BY <1>1, <2>1, <3>1, <3>2
  <2>. QED  BY <2>2, <2>3
<1>3. FramesInv(frames', World) /\ GensInv(gens', World)
  BY <1>2 DEF FramesInv, IInv
<1>4. InUse(pools, frames) = a + c /\ InUse(pools', frames') = b + d
  BY DEF InUse, PoolSum
<1>5. a + c <= MaxDepth + PoolMax
  BY <1>4 DEF IInv
<1>. HIDE DEF c, d
<1>6. b + d <= MaxDepth + PoolMax
  <2>1. (b <= a - 1 /\ d <= c + 1) \/ (b <= PoolMax /\ d <= MaxDepth) \/ (b <= a /\ d <= c)
    BY <1>2, Zenon
  <2>2. c \in Nat /\ d \in Nat
    BY <1>2
  <2>. QED  BY <1>1, <1>5, <2>1, <2>2, RoomArithmetic
<1>. QED  BY <1>3, <1>4, <1>6, QuietStep

(* A frame that leaves the stack makes room for the one that its pool gains. *)
LEMMA PopInv ==
  ASSUME IInv, Len(frames) > 1, frames' = Front(frames),
         GensInv(gens', World), PoolsInv(pools', World),
         UNCHANGED <<program, globals, builtins, version, bversion, writes>>,
         NEW a \in Nat, NEW b \in Nat, a = PoolSum(pools), b = PoolSum(pools'),
         b <= a \/ (top.simple /\ b <= a + 1)
  PROVE  IInv'
<1>. DEFINE c == SimpleCount(frames)
            d == SimpleCount(frames')
<1>1. /\ frames \in Seq(GoodFrame(World)) /\ Len(frames) \in 1 .. MaxDepth
      /\ frames[1].gen = NoGen /\ MaxDepth \in Nat /\ PoolMax \in Nat /\ frames # <<>>
  BY Parts
<1>2. /\ frames' \in Seq(GoodFrame(World)) /\ Len(frames') = Len(frames) - 1
      /\ frames'[1] = frames[1]
  BY <1>1, FrontProperties
<1>3. c = d + (IF top.simple THEN 1 ELSE 0)
  BY <1>1, SimpleCountFront DEF top
<1>4. c \in 0 .. Len(frames) /\ d \in 0 .. Len(frames')
  BY <1>1, <1>2, SimpleCountType
<1>5. FramesInv(frames', World)
  BY <1>1, <1>2 DEF FramesInv
<1>6. InUse(pools, frames) = a + c /\ InUse(pools', frames') = b + d
  BY DEF InUse, PoolSum
<1>7. a + c <= MaxDepth + PoolMax
  BY <1>6 DEF IInv
<1>. HIDE DEF c, d
<1>8. b + d <= MaxDepth + PoolMax
  <2>1. c \in Nat /\ d \in Nat
    BY <1>1, <1>2, <1>4
  <2>2. CASE top.simple
    <3>1. c = d + 1
      BY <1>3, <2>2, Zenon
    <3>2. d <= c /\ d + 1 <= c
      BY <2>1, <3>1
    <3>3. b <= a \/ b <= a + 1
      OBVIOUS
    <3>. QED  BY <1>1, <1>7, <2>1, <3>2, <3>3, RoomArithmetic
  <2>3. CASE ~top.simple
    <3>1. c = d + 0 /\ b <= a
      BY <1>3, <2>3, Zenon
    <3>2. d <= c
      BY <2>1, <3>1
    <3>. QED  BY <1>1, <1>7, <2>1, <3>1, <3>2, RoomArithmetic
  <2>. QED  BY <2>2, <2>3
<1>. QED  BY <1>5, <1>6, <1>8, QuietStep

(* The frames in the two simple pools are counted by a number. *)
LEMMA PoolSumType ==
  ASSUME NEW w, NEW pl, PoolsInv(pl, w)
  PROVE  PoolSum(pl) \in Nat
<1>. DEFINE a == Len(pl.simple)
            b == Len(pl.slot0)
<1>1. a \in Nat /\ b \in Nat
  BY LenProperties DEF PoolsInv
<1>2. PoolSum(pl) = a + b
  BY DEF PoolSum
<1>. HIDE DEF a, b
<1>. QED  BY <1>1, <1>2

(* A frame out of the simple pool: the pools shrink, or only the pool of      *)
(* one-argument frames has any.                                               *)
LEMMA TakeSimpleSum ==
  ASSUME NEW w, NEW pl, PoolsInv(pl, w)
  PROVE  LET q == [pl EXCEPT !.simple = WithoutLast(@)] IN
         /\ PoolsInv(q, w)
         /\ PoolSum(q) <= PoolSum(pl) - 1 \/ PoolSum(q) <= PoolMax
<1>. DEFINE q == [pl EXCEPT !.simple = WithoutLast(@)]
            a == Len(pl.simple)
            b == Len(pl.slot0)
<1>1. /\ PoolsInv(q, w) /\ q.slot0 = pl.slot0
      /\ Len(q.simple) = IF a = 0 THEN 0 ELSE a - 1
  BY TakeSimple
<1>2. a \in Nat /\ b \in Nat /\ b <= PoolMax /\ PoolMax \in Nat
  BY LenProperties, CachesAssumption DEF PoolsInv
<1>. HIDE DEF q
<1>3. PoolSum(q) = (IF a = 0 THEN 0 ELSE a - 1) + b /\ PoolSum(pl) = a + b
  BY <1>1 DEF PoolSum
<1>. HIDE DEF a, b
<1>4. PoolSum(q) <= PoolSum(pl) - 1 \/ PoolSum(q) <= PoolMax
  BY <1>2, <1>3
<1>. QED  BY <1>1, <1>4 DEF q

(* The pool of one-argument frames gives out its last frame. *)
LEMMA TakeSlot0 ==
  ASSUME NEW w, NEW pl, PoolsInv(pl, w), pl.slot0 # <<>>
  PROVE  LET q == [pl EXCEPT !.slot0 = Front(@)] IN
         /\ PoolsInv(q, w) /\ PoolSum(q) <= PoolSum(pl) - 1
         /\ Last(pl.slot0) \in GoodPooled(w) /\ Last(pl.slot0).code = pl.key.code
<1>. DEFINE q == [pl EXCEPT !.slot0 = Front(@)]
            s == pl.slot0
<1>1. /\ s \in Seq(GoodPooled(w)) /\ Len(s) <= PoolMax /\ s # <<>>
      /\ \A i \in DOMAIN s : s[i].code = pl.key.code
  BY DEF PoolsInv
<1>. HIDE DEF s
<1>2. /\ Len(s) \in Nat \ {0} /\ Front(s) \in Seq(GoodPooled(w))
      /\ Len(Front(s)) = Len(s) - 1
      /\ \A i \in 1 .. (Len(s) - 1) : Front(s)[i] = s[i]
      /\ Last(s) = s[Len(s)] /\ Last(s) \in GoodPooled(w)
  BY <1>1, FrontProperties
<1>3. DOMAIN s = 1 .. Len(s) /\ DOMAIN Front(s) = 1 .. (Len(s) - 1)
  <2>1. DOMAIN s = 1 .. Len(s) /\ DOMAIN Front(s) = 1 .. Len(Front(s))
    BY <1>1, <1>2, LenProperties, Zenon
  <2>. QED  BY <1>2, <2>1, Zenon
<1>4. \A i \in 1 .. (Len(s) - 1) : i \in 1 .. Len(s)
  BY <1>2
<1>5. Len(s) \in 1 .. Len(s)
  BY <1>2
<1>6. Last(s).code = pl.key.code /\ \A i \in DOMAIN Front(s) : Front(s)[i].code = pl.key.code
  BY <1>1, <1>2, <1>3, <1>4, <1>5
<1>7. /\ q \in [general : Seq(GoodPooled(w)), simple : Seq(GoodPooled(w)),
                slot0 : Seq(GoodPooled(w)), key : Funcs \cup {NoKey}]
      /\ q.general = pl.general /\ q.simple = pl.simple /\ q.key = pl.key /\ q.slot0 = Front(s)
  BY <1>2 DEF PoolsInv, s
<1>. HIDE DEF q
<1>8. Len(q.slot0) <= PoolMax /\ Len(q.slot0) = Len(s) - 1
  BY <1>1, <1>2, <1>7, CachesAssumption
<1>9. PoolsInv(q, w)
  BY <1>6, <1>7, <1>8 DEF PoolsInv
<1>10. PoolSum(q) <= PoolSum(pl) - 1
  <2>. DEFINE a == Len(pl.simple)
              b == Len(s)
  <2>1. a \in Nat /\ b \in Nat
    BY <1>2, LenProperties DEF PoolsInv
  <2>2. PoolSum(q) = a + (b - 1) /\ PoolSum(pl) = a + b
    BY <1>7, <1>8 DEF PoolSum, s
  <2>. HIDE DEF a, b
  <2>. QED  BY <2>1, <2>2
<1>. QED  BY <1>2, <1>6, <1>9, <1>10 DEF q, s

-----------------------------------------------------------------------------
(* Frames that calls make *)

(* A call of the program names a function and its module. *)
LEMMA FunctionOfProgram ==
  ASSUME IInv, NEW fn \in program
  PROVE  /\ fn.code \in Codes /\ fn.module \in Modules /\ Key(fn) \in Funcs
         /\ version[fn.module] \in 1 .. 1 + MaxWrites
<1>1. fn \in UNION Programs
  BY DEF IInv, WorldInv
<1>2. fn.code \in Codes /\ Key(fn) \in Funcs
  BY <1>1 DEF Codes, Funcs, Key
<1>3. fn.module \in Modules
  BY <1>1, CachesAssumption
<1>4. /\ writes \in 0 .. MaxWrites /\ MaxWrites \in Nat
      /\ version[fn.module] \in 1 .. 1 + writes
  BY <1>3, CachesAssumption DEF IInv, WorldInv
<1>. QED  BY <1>2, <1>3, <1>4

(* A frame whose version is its module's, or was lent, is a good one. *)
LEMMA NewFrameGood ==
  ASSUME IInv, NEW fn \in program, NEW v \in 1 .. 1 + MaxWrites, NEW lent \in BOOLEAN,
         NEW simple \in BOOLEAN, ~lent => v = version[fn.module],
         NEW site \in GoodSite(fn.code, World)
  PROVE  /\ NewFrame(fn, v, lent, simple, site) \in GoodFrame(World)
         /\ NewFrame(fn, v, lent, simple, site).simple = simple
<1>. DEFINE f == NewFrame(fn, v, lent, simple, site)
<1>1. /\ fn.code \in Codes /\ fn.module \in Modules /\ Key(fn) \in Funcs
      /\ site \in Entry
  BY FunctionOfProgram DEF GoodSite
<1>2. /\ f \in Frame /\ f.code = fn.code /\ f.module = fn.module /\ f.version = v
      /\ f.lent = lent /\ f.kind = "function" /\ f.simple = simple /\ f.gen = NoGen
      /\ f.site = site
  BY <1>1 DEF NewFrame, Frame
<1>. HIDE DEF f
<1>3. Key(f) = Key(fn)
  BY <1>2 DEF Key
<1>4. World.ver = version
  BY DEF World
<1>. QED  BY <1>1, <1>2, <1>3, <1>4 DEF GoodFrame, f

(* So is the frame of a module or class body. *)
LEMMA BodyFrameGood ==
  ASSUME NEW m \in Modules, NEW v \in 1 .. 1 + MaxWrites, NEW lent \in BOOLEAN,
         NEW kind \in {"module", "class"}, NEW w, ~lent => v = w.ver[m]
  PROVE  LET f == [NewFrame([code |-> Body, module |-> m], v, lent, FALSE, NoEntry)
                     EXCEPT !.kind = kind]
         IN f \in GoodFrame(w) /\ f.simple = FALSE /\ f.gen = NoGen
<1>. DEFINE f == [NewFrame([code |-> Body, module |-> m], v, lent, FALSE, NoEntry)
                    EXCEPT !.kind = kind]
<1>1. NoEntry \in Entry /\ NoEntry \in GoodSite(Body, w)
  BY NoEntryGood DEF GoodSite
<1>2. /\ f \in Frame /\ f.code = Body /\ f.module = m /\ f.version = v
      /\ f.lent = lent /\ f.kind = kind /\ f.simple = FALSE /\ f.gen = NoGen
      /\ f.site = NoEntry
  BY <1>1 DEF NewFrame, Frame
<1>. HIDE DEF f
<1>3. f.kind # "function"
  BY <1>2
<1>. QED  BY <1>1, <1>2, <1>3 DEF GoodFrame, f

-----------------------------------------------------------------------------
(* Calls and returns *)

(* prepare_function_frame. *)
LEMMA CallGeneralInv ==
  ASSUME IInv, NEW fn \in program, CallGeneral(fn)
  PROVE  IInv'
<1>. DEFINE f == GeneralFrame(fn)
<1>1. PoolsInv(pools, World)
  BY DEF IInv
<1>2. f \in GoodFrame(World) /\ f.simple = FALSE
  <2>1. SiteFrom(pools.general, fn.code) \in GoodSite(fn.code, World)
    BY <1>1, SiteFromGood DEF PoolsInv
  <2>2. version[fn.module] \in 1 .. 1 + MaxWrites
    BY FunctionOfProgram
  <2>. QED  BY <2>1, <2>2, NewFrameGood DEF GeneralFrame
<1>. HIDE DEF f
<1>3. PoolsInv(pools', World) /\ pools'.simple = pools.simple /\ pools'.slot0 = pools.slot0
  BY <1>1, TakeGeneral DEF CallGeneral
<1>4. PoolSum(pools') = PoolSum(pools) /\ PoolSum(pools) \in Nat
  BY <1>1, <1>3, PoolSumType DEF PoolSum
<1>5. PoolSum(pools') <= PoolSum(pools) /\ PoolSum(pools') \in Nat
  BY <1>4
<1>6. PushChecked(f)
  BY DEF CallGeneral, f
<1>. QED  BY <1>2, <1>3, <1>4, <1>5, <1>6, PushInv DEF CallGeneral

(* acquire_simple_frame_no_cells_ref, with the version of the function's      *)
(* module or of the caller.                                                   *)
LEMMA CallSimpleInv ==
  ASSUME IInv, NEW fn \in program, CallSimple(fn) \/ CallMethod(fn)
  PROVE  IInv'
<1>. DEFINE site == SiteFrom(pools.simple, fn.code)
            f == NewFrame(fn, version[fn.module], FALSE, TRUE, site)
            g == NewFrame(fn, top.version, Lent(fn), TRUE, site)
<1>1. PoolsInv(pools, World)
  BY DEF IInv
<1>2. site \in GoodSite(fn.code, World)
  BY <1>1, SiteFromGood DEF PoolsInv
<1>. HIDE DEF site
<1>3. f \in GoodFrame(World)
  BY <1>2, FunctionOfProgram, NewFrameGood
<1>4. g \in GoodFrame(World)
  <2>1. top \in GoodFrame(World) /\ top \in Frame /\ World.ver = version
    BY Parts
  <2>2. /\ top.version \in 1 .. 1 + MaxWrites /\ Lent(fn) \in BOOLEAN
        /\ ~Lent(fn) => top.version = version[fn.module]
    BY <2>1 DEF Frame, GoodFrame, Lent
  <2>. QED  BY <1>2, <2>2, NewFrameGood
<1>5. PushChecked(f) \/ PushChecked(g)
  BY DEF CallSimple, CallMethod, f, g, site
<1>. HIDE DEF f, g
<1>6. /\ pools' = [pools EXCEPT !.simple = WithoutLast(@)]
      /\ UNCHANGED <<program, globals, builtins, version, bversion, gens, writes>>
  BY DEF CallSimple, CallMethod
<1>7. /\ PoolsInv(pools', World)
      /\ PoolSum(pools') <= PoolSum(pools) - 1 \/ PoolSum(pools') <= PoolMax
  BY <1>1, <1>6, TakeSimpleSum
<1>8. PoolSum(pools) \in Nat /\ PoolSum(pools') \in Nat
  BY <1>1, <1>7, PoolSumType
<1>9. ASSUME NEW h \in GoodFrame(World), PushChecked(h) PROVE IInv'
  BY <1>6, <1>7, <1>8, <1>9, PushInv
<1>. QED  BY <1>3, <1>4, <1>5, <1>9

(* acquire_simple_frame_slot0_no_cells_fast_ref hands out caches unseen: the  *)
(* pool's key says whose they are.                                            *)
LEMMA CallSlot0Inv ==
  ASSUME IInv, NEW fn \in program, CallSlot0(fn)
  PROVE  IInv'
<1>. DEFINE p == Retargeted(pools, Key(fn))
            site == IF p.slot0 # <<>> THEN Last(p.slot0).site ELSE SiteFrom(p.simple, fn.code)
            f == NewFrame(fn, top.version, Lent(fn), TRUE, site)
<1>1. PoolsInv(pools, World) /\ Key(fn) \in Funcs
  BY FunctionOfProgram DEF IInv
<1>2. /\ PoolsInv(p, World) /\ p.key = Key(fn)
      /\ Len(p.simple) + Len(p.slot0) = Len(pools.simple) + Len(pools.slot0)
  BY <1>1, RetargetedInv
<1>3. /\ PushChecked(f)
      /\ pools' = IF p.slot0 # <<>> THEN [p EXCEPT !.slot0 = Front(@)]
                                     ELSE [p EXCEPT !.simple = WithoutLast(@)]
      /\ UNCHANGED <<program, globals, builtins, version, bversion, gens, writes>>
  BY DEF CallSlot0
<1>4. PoolSum(p) = PoolSum(pools)
  BY <1>2 DEF PoolSum
<1>. HIDE DEF p
<1>5. /\ PoolsInv(pools', World) /\ site \in GoodSite(fn.code, World)
      /\ PoolSum(pools') <= PoolSum(p) - 1 \/ PoolSum(pools') <= PoolMax
  <2>1. CASE p.slot0 # <<>>
    <3>1. /\ PoolsInv(pools', World) /\ PoolSum(pools') <= PoolSum(p) - 1
          /\ Last(p.slot0) \in GoodPooled(World) /\ Last(p.slot0).code = p.key.code
      BY <1>2, <1>3, <2>1, TakeSlot0
    <3>2. p.key.code = fn.code
      BY <1>2 DEF Key
    <3>3. Last(p.slot0).site \in GoodSite(fn.code, World)
      BY <3>1, <3>2 DEF GoodPooled
    <3>. QED  BY <2>1, <3>1, <3>3
  <2>2. CASE p.slot0 = <<>>
    <3>1. /\ PoolsInv(pools', World)
          /\ PoolSum(pools') <= PoolSum(p) - 1 \/ PoolSum(pools') <= PoolMax
      BY <1>2, <1>3, <2>2, TakeSimpleSum
    <3>2. SiteFrom(p.simple, fn.code) \in GoodSite(fn.code, World)
      BY <1>2, SiteFromGood DEF PoolsInv
    <3>. QED  BY <2>2, <3>1, <3>2
  <2>. QED  BY <2>1, <2>2
<1>. HIDE DEF site
<1>6. f \in GoodFrame(World)
  <2>1. top \in GoodFrame(World) /\ top \in Frame /\ World.ver = version
    BY Parts
  <2>2. /\ top.version \in 1 .. 1 + MaxWrites /\ Lent(fn) \in BOOLEAN
        /\ ~Lent(fn) => top.version = version[fn.module]
    BY <2>1 DEF Frame, GoodFrame, Lent
  <2>. QED  BY <1>5, <2>2, NewFrameGood
<1>. HIDE DEF f
<1>7. PoolSum(pools) \in Nat /\ PoolSum(pools') \in Nat
  BY <1>1, <1>5, PoolSumType
<1>. QED  BY <1>3, <1>4, <1>5, <1>6, <1>7, PushInv

(* The body of a module or of a class. *)
LEMMA RunBodyInv ==
  ASSUME IInv, NEW fn \in program, RunModule(fn) \/ RunClass(fn)
  PROVE  IInv'
<1>1. /\ PoolsInv(pools, World) /\ World.ver = version /\ top \in Frame
      /\ fn.module \in Modules /\ version[fn.module] \in 1 .. 1 + MaxWrites
      /\ 1 \in 1 .. 1 + MaxWrites
  BY Parts, FunctionOfProgram, CachesAssumption DEF IInv
<1>2. ModuleFrame(fn.module) \in GoodFrame(World) /\ ModuleFrame(fn.module).simple = FALSE
  BY <1>1, BodyFrameGood DEF ModuleFrame
<1>3. ClassFrame \in GoodFrame(World) /\ ClassFrame.simple = FALSE
  <2>1. top.module \in Modules
    BY <1>1 DEF Frame
  <2>. QED  BY <1>1, <2>1, BodyFrameGood DEF ClassFrame
<1>4. /\ PoolsInv(pools', World) /\ pools'.simple = pools.simple /\ pools'.slot0 = pools.slot0
      /\ UNCHANGED <<program, globals, builtins, version, bversion, gens, writes>>
  <2>1. CASE RunModule(fn)
    BY <1>1, <2>1 DEF RunModule
  <2>2. CASE RunClass(fn)
    BY <1>1, <2>2, TakeGeneral DEF RunClass
  <2>. QED  BY <2>1, <2>2
<1>5. PoolSum(pools') = PoolSum(pools) /\ PoolSum(pools) \in Nat
  BY <1>1, <1>4, PoolSumType DEF PoolSum
<1>6. PoolSum(pools') <= PoolSum(pools) /\ PoolSum(pools') \in Nat
  BY <1>5
<1>7. PICK f \in GoodFrame(World) : PushChecked(f) /\ f.simple = FALSE
  BY <1>2, <1>3 DEF RunModule, RunClass
<1>. QED  BY <1>4, <1>5, <1>6, <1>7, PushInv

(* A generator function's frame is kept for the first resume. *)
LEMMA CallGeneratorInv ==
  ASSUME IInv, NEW fn \in program, NEW g \in Gens, CallGenerator(fn, g)
  PROVE  IInv'
<1>. DEFINE f == GeneralFrame(fn)
            h == [f EXCEPT !.gen = g]
<1>1. PoolsInv(pools, World) /\ gens \in [Gens -> GoodGen(World) \cup {NoFrame}]
  BY DEF IInv, GensInv
<1>2. f \in GoodFrame(World) /\ f.simple = FALSE
  <2>1. SiteFrom(pools.general, fn.code) \in GoodSite(fn.code, World)
    BY <1>1, SiteFromGood DEF PoolsInv
  <2>2. version[fn.module] \in 1 .. 1 + MaxWrites
    BY FunctionOfProgram
  <2>. QED  BY <2>1, <2>2, NewFrameGood DEF GeneralFrame
<1>. HIDE DEF f
<1>3. /\ f \in Frame /\ f.site \in GoodSite(f.code, World)
      /\ ~f.lent => f.version = World.ver[f.module]
      /\ f.kind = "function" => Key(f) \in Funcs
  BY <1>2 DEF GoodFrame
<1>4. /\ h \in Frame /\ h.code = f.code /\ h.module = f.module /\ h.version = f.version
      /\ h.lent = f.lent /\ h.kind = f.kind /\ h.simple = f.simple /\ h.site = f.site
  BY <1>3 DEF Frame
<1>. HIDE DEF h
<1>5. h \in GoodGen(World)
  <2>1. Key(h) = Key(f) /\ ~h.simple
    BY <1>2, <1>4 DEF Key
  <2>2. h \in GoodFrame(World)
    BY <1>3, <1>4, <2>1 DEF GoodFrame
  <2>. QED  BY <2>1, <2>2 DEF GoodGen
<1>6. GensInv(gens', World)
  <2>1. gens' = [gens EXCEPT ![g] = h]
    BY DEF CallGenerator, h, f
  <2>. QED  BY <1>1, <1>5, <2>1 DEF GensInv
<1>7. /\ PoolsInv(pools', World) /\ pools'.simple = pools.simple /\ pools'.slot0 = pools.slot0
      /\ UNCHANGED <<program, globals, builtins, version, bversion, frames, writes>>
  BY <1>1, TakeGeneral DEF CallGenerator
<1>8. FramesInv(frames', World)
  BY <1>7 DEF IInv
<1>9. InUse(pools', frames') <= MaxDepth + PoolMax
  BY <1>7 DEF IInv, InUse
<1>. QED  BY <1>6, <1>7, <1>8, <1>9, QuietStep

(* resume_generator: the frame as it was when the generator yielded. *)
LEMMA ResumeInv ==
  ASSUME IInv, NEW g \in Gens, Resume(g)
  PROVE  IInv'
<1>1. PoolsInv(pools, World) /\ gens \in [Gens -> GoodGen(World) \cup {NoFrame}]
  BY DEF IInv, GensInv
<1>2. gens[g] \in GoodFrame(World) /\ gens[g].simple = FALSE
  <2>1. gens[g] \in GoodGen(World)
    BY <1>1 DEF Resume
  <2>2. gens[g] \in GoodFrame(World) /\ ~gens[g].simple
    BY <2>1 DEF GoodGen
  <2>3. gens[g].simple \in BOOLEAN
    BY <2>2 DEF GoodFrame, Frame
  <2>. QED  BY <2>2, <2>3
<1>3. GensInv(gens', World)
  BY <1>1 DEF GensInv, Resume
<1>4. PushChecked(gens[g])
  BY DEF PushChecked, Resume
<1>5. pools' = pools /\ PoolSum(pools) \in Nat
  BY <1>1, PoolSumType DEF Resume
<1>6. PoolsInv(pools', World) /\ PoolSum(pools') \in Nat /\ PoolSum(pools') <= PoolSum(pools)
  BY <1>1, <1>5
<1>. QED  BY <1>2, <1>3, <1>4, <1>5, <1>6, PushInv DEF Resume

(* A generator never yields from the bottom of the stack. *)
LEMMA YieldInv ==
  ASSUME IInv, Yield
  PROVE  IInv'
<1>1. /\ Len(frames) \in 1 .. MaxDepth /\ MaxDepth \in Nat /\ frames[1].gen = NoGen
      /\ top = frames[Len(frames)] /\ top \in GoodFrame(World) /\ top \in Frame
  BY Parts
<1>2. Len(frames) > 1
  BY <1>1 DEF Yield
<1>3. PoolsInv(pools, World) /\ gens \in [Gens -> GoodGen(World) \cup {NoFrame}]
  BY DEF IInv, GensInv
<1>4. top \in GoodGen(World)
  BY <1>1 DEF Yield, GoodFrame, GoodGen
<1>5. GensInv(gens', World)
  BY <1>3, <1>4 DEF GensInv, Yield
<1>6. pools' = pools /\ PoolSum(pools) \in Nat
  BY <1>3, PoolSumType DEF Yield
<1>7. PoolsInv(pools', World) /\ PoolSum(pools') \in Nat /\ PoolSum(pools') <= PoolSum(pools)
  BY <1>3, <1>6
<1>. QED  BY <1>2, <1>5, <1>6, <1>7, PopInv DEF Yield

(* unwind_exception_internal drops a frame. *)
LEMMA UnwindInv ==
  ASSUME IInv, Len(frames) > 1, frames' = Front(frames),
         UNCHANGED <<program, globals, builtins, version, bversion, gens, pools, writes>>
  PROVE  IInv'
<1>1. PoolsInv(pools, World) /\ GensInv(gens', World)
  BY DEF IInv
<1>2. PoolSum(pools) \in Nat
  BY <1>1, PoolSumType
<1>3. PoolsInv(pools', World) /\ PoolSum(pools') \in Nat /\ PoolSum(pools') <= PoolSum(pools)
  BY <1>1, <1>2
<1>. QED  BY <1>1, <1>2, <1>3, PopInv

(* execute begins with one frame and no generators. *)
LEMMA ExecuteInv ==
  ASSUME IInv, Execute
  PROVE  IInv'
<1>. DEFINE f == ModuleFrame(top.module)
            c == SimpleCount(frames)
            a == PoolSum(pools)
<1>1. /\ top \in Frame /\ World.ver = version /\ frames \in Seq(GoodFrame(World))
      /\ MaxDepth \in Nat \ {0} /\ PoolMax \in Nat /\ MaxWrites \in Nat
      /\ Len(frames) \in Nat
  BY Parts, CachesAssumption
<1>2. top.module \in Modules /\ version[top.module] \in 1 .. 1 + MaxWrites
  <2>1. top.module \in Modules
    BY <1>1 DEF Frame
  <2>2. version[top.module] \in 1 .. 1 + writes /\ writes \in 0 .. MaxWrites
    BY <2>1 DEF IInv, WorldInv
  <2>. QED  BY <1>1, <2>1, <2>2
<1>3. f \in GoodFrame(World) /\ f.simple = FALSE /\ f.gen = NoGen
  BY <1>1, <1>2, BodyFrameGood DEF ModuleFrame
<1>4. frames' = <<f>>
  BY DEF Execute
<1>. HIDE DEF f
<1>5. FramesInv(frames', World)
  BY <1>1, <1>3, <1>4 DEF FramesInv
<1>6. SimpleCount(frames') = 0
  <2>1. {i \in DOMAIN frames' : frames'[i].simple} = {}
    BY <1>3, <1>4
  <2>. QED  BY <2>1, FS_EmptySet DEF SimpleCount
<1>7. GensInv(gens', World) /\ PoolsInv(pools', World) /\ pools' = pools
  BY DEF GensInv, IInv, Execute
<1>8. c \in Nat /\ a \in Nat /\ c \in 0 .. Len(frames)
  BY <1>1, <1>7, SimpleCountType, PoolSumType
<1>9. InUse(pools', frames') = a + 0 /\ InUse(pools, frames) = a + c
  BY <1>6, <1>7 DEF InUse, PoolSum
<1>10. a + c <= MaxDepth + PoolMax
  BY <1>9 DEF IInv
<1>. HIDE DEF a, c
<1>11. a + 0 <= MaxDepth + PoolMax
  BY <1>1, <1>8, <1>10
<1>. QED  BY <1>5, <1>7, <1>9, <1>11, QuietStep DEF Execute

(* recycle_frame. *)
LEMMA RecycledGeneralInv ==
  ASSUME NEW w, PoolsInv(pools, w), NEW f, AsPooled(f) \in GoodPooled(w)
  PROVE  PoolsInv(RecycledGeneral(f), w) /\ PoolSum(RecycledGeneral(f)) = PoolSum(pools)
<1>. DEFINE q == RecycledGeneral(f)
            p == AsPooled(f)
            s == pools.general
<1>1. CASE Len(s) >= PoolMax
  BY <1>1 DEF RecycledGeneral
<1>2. CASE ~(Len(s) >= PoolMax)
  <2>1. s \in Seq(GoodPooled(w))
    BY DEF PoolsInv
  <2>2. q = [pools EXCEPT !.general = Append(s, p)]
    BY <1>2 DEF RecycledGeneral
  <2>. HIDE DEF s, p
  <2>3. Append(s, p) \in Seq(GoodPooled(w)) /\ Len(Append(s, p)) = Len(s) + 1 /\ Len(s) \in Nat
    BY <2>1, AppendProperties, LenProperties DEF p
  <2>4. Len(Append(s, p)) <= PoolMax
    BY <1>2, <2>3, CachesAssumption
  <2>5. /\ q \in [general : Seq(GoodPooled(w)), simple : Seq(GoodPooled(w)),
                  slot0 : Seq(GoodPooled(w)), key : Funcs \cup {NoKey}]
        /\ q.general = Append(s, p)
        /\ q.simple = pools.simple /\ q.slot0 = pools.slot0 /\ q.key = pools.key
    BY <2>2, <2>3 DEF PoolsInv
  <2>. HIDE DEF q
  <2>6. PoolsInv(q, w)
    BY <2>4, <2>5 DEF PoolsInv
  <2>7. PoolSum(q) = PoolSum(pools)
    BY <2>5 DEF PoolSum
  <2>. QED  BY <2>6, <2>7 DEF q
<1>. QED  BY <1>1, <1>2

(* recycle_simple_frame and recycle_simple_frame_clean_slot0_unchecked: the   *)
(* two pools gain at most the frame.                                          *)
LEMMA RecycledSimpleInv ==
  ASSUME NEW w, PoolsInv(pools, w), NEW f, AsPooled(f) \in GoodPooled(w), Key(f) \in Funcs,
         NEW q, q = RecycledSimple(f) \/ q = RecycledSlot0(f)
  PROVE  PoolsInv(q, w) /\ PoolSum(q) <= PoolSum(pools) + 1
<1>. DEFINE p == Retargeted(pools, Key(f))
            c == AsPooled(f)
<1>1. /\ PoolsInv(p, w) /\ p.key = Key(f)
      /\ Len(p.simple) + Len(p.slot0) = Len(pools.simple) + Len(pools.slot0)
      /\ p.slot0 = pools.slot0 \/ p.slot0 = <<>>
  BY ZenonT(60), RetargetedInv
<1>2. PoolSum(p) = PoolSum(pools) /\ PoolSum(pools) \in Nat
  BY <1>1, PoolSumType DEF PoolSum
<1>3. c.code = p.key.code
  BY <1>1 DEF Key, AsPooled
<1>4. \/ q = pools
      \/ q = [pools EXCEPT !.simple = Append(@, c)]
      \/ q = [p EXCEPT !.simple = Append(@, c)]
      \/ Len(p.slot0) < PoolMax /\ q = [p EXCEPT !.slot0 = Append(@, c)]
  <2>1. Len(p.slot0) \in Nat /\ PoolMax \in Nat \ {0} /\ Len(pools.slot0) \in Nat
    BY <1>1, LenProperties, CachesAssumption DEF PoolsInv
  <2>2. CASE q = RecycledSimple(f)
    <3>. HIDE DEF p
    <3>1. ~(Len(p.slot0) >= PoolMax) => Len(p.slot0) < PoolMax
      BY <2>1
    <3>. QED  BY <2>2, <3>1 DEF RecycledSimple, p
  <2>3. CASE q = RecycledSlot0(f)
    <3>1. CASE Len(pools.slot0) >= PoolMax
      BY <2>3, <3>1 DEF RecycledSlot0
    <3>2. CASE ~(Len(pools.slot0) >= PoolMax)
      <4>1. q = [p EXCEPT !.slot0 = Append(@, c)]
        BY <2>3, <3>2 DEF RecycledSlot0
      <4>. HIDE DEF p
      <4>2. Len(p.slot0) < PoolMax
        BY <1>1, <2>1, <3>2
      <4>. QED  BY <4>1, <4>2
    <3>. QED  BY <3>1, <3>2
  <2>. QED  BY <2>2, <2>3
<1>. HIDE DEF p, c
<1>5. c \in GoodPooled(w)
  BY DEF c
<1>6. CASE q = pools
  BY <1>2, <1>6
<1>7. CASE q = [pools EXCEPT !.simple = Append(@, c)]
  <2>1. PoolsInv(q, w) /\ PoolSum(q) = PoolSum(pools) + 1
    BY <1>5, <1>7, GiveSimple DEF PoolSum
  <2>. QED  BY <1>2, <2>1
<1>8. CASE q = [p EXCEPT !.simple = Append(@, c)]
  <2>1. PoolsInv(q, w) /\ PoolSum(q) = PoolSum(p) + 1
    BY <1>1, <1>5, <1>8, GiveSimple DEF PoolSum
  <2>. QED  BY <1>2, <2>1
<1>9. CASE Len(p.slot0) < PoolMax /\ q = [p EXCEPT !.slot0 = Append(@, c)]
  <2>1. PoolsInv(q, w) /\ PoolSum(q) = PoolSum(p) + 1
    BY <1>1, <1>3, <1>5, <1>9, GiveSlot0 DEF PoolSum
  <2>. QED  BY <1>2, <2>1
<1>. QED  BY <1>4, <1>6, <1>7, <1>8, <1>9

(* RETURN_VALUE, RETURN_CONST and the end of the code. *)
LEMMA ReturnInv ==
  ASSUME IInv, Return
  PROVE  IInv'
<1>1. /\ Len(frames) > 1 /\ frames' = Front(frames) /\ gens' = gens
      /\ UNCHANGED <<program, globals, builtins, version, bversion, writes>>
      /\ PoolsInv(pools, World) /\ GensInv(gens', World)
  BY DEF Return, IInv
<1>2. /\ top \in Frame /\ top.site \in GoodSite(top.code, World)
      /\ top.kind = "function" => Key(top) \in Funcs
      /\ top.simple => top.kind = "function"
  BY Parts DEF GoodFrame
<1>3. PoolSum(pools) \in Nat
  BY <1>1, PoolSumType
<1>4. CASE pools' = pools
  BY <1>1, <1>4, UnwindInv
<1>5. ASSUME top.kind = "function" PROVE AsPooled(top) \in GoodPooled(World) /\ Key(top) \in Funcs
  <2>1. top.code \in Codes
    BY <1>2, <1>5 DEF Key, Funcs, Codes
  <2>2. top.site \in Entry
    BY <1>2 DEF Frame
  <2>. QED  BY <1>2, <1>5, <2>1, <2>2 DEF AsPooled, Pooled, GoodPooled
<1>6. CASE top.kind = "function" /\ pools' = RecycledGeneral(top)
  <2>1. PoolsInv(pools', World) /\ PoolSum(pools') = PoolSum(pools)
    BY <1>1, <1>5, <1>6, RecycledGeneralInv
  <2>2. PoolSum(pools') \in Nat /\ PoolSum(pools') <= PoolSum(pools)
    BY <1>3, <2>1
  <2>. QED  BY <1>1, <1>3, <2>1, <2>2, PopInv
<1>7. CASE top.simple /\ (pools' = RecycledSimple(top) \/ pools' = RecycledSlot0(top))
  <2>1. PoolsInv(pools', World) /\ PoolSum(pools') <= PoolSum(pools) + 1
    BY <1>1, <1>2, <1>5, <1>7, RecycledSimpleInv
  <2>2. PoolSum(pools') \in Nat
    BY <2>1, PoolSumType
  <2>. QED  BY <1>1, <1>3, <1>7, <2>1, <2>2, PopInv
<1>. QED  BY <1>4, <1>6, <1>7 DEF Return

-----------------------------------------------------------------------------
(* The theorems *)

(* A program starts with the frame of its module and empty pools. *)
LEMMA InitInv == Init => IInv
<1>. SUFFICES ASSUME Init PROVE IInv
  OBVIOUS
<1>1. MaxDepth \in Nat \ {0} /\ PoolMax \in Nat \ {0} /\ MaxWrites \in Nat
  BY CachesAssumption
<1>2. WorldInv /\ World.ver = version
  BY <1>1 DEF Init, WorldInv, World
<1>3. PICK m \in Modules :
        frames = << [NewFrame([code |-> Body, module |-> m], 1, FALSE, FALSE, NoEntry)
                       EXCEPT !.kind = "module"] >>
  BY DEF Init
<1>. DEFINE f == [NewFrame([code |-> Body, module |-> m], 1, FALSE, FALSE, NoEntry)
                    EXCEPT !.kind = "module"]
<1>4. f \in GoodFrame(World) /\ f.simple = FALSE /\ f.gen = NoGen
  <2>1. 1 \in 1 .. 1 + MaxWrites /\ 1 = World.ver[m]
    BY <1>1, <1>2 DEF Init
  <2>. QED  BY <2>1, BodyFrameGood
<1>5. frames = <<f>>
  BY <1>3
<1>. HIDE DEF f
<1>6. FramesInv(frames, World) /\ SimpleCount(frames) = 0
  <2>1. {i \in DOMAIN frames : frames[i].simple} = {}
    BY <1>4, <1>5
  <2>2. SimpleCount(frames) = 0
    BY <2>1, FS_EmptySet DEF SimpleCount
  <2>. QED  BY <1>1, <1>4, <1>5, <2>2 DEF FramesInv
<1>7. GensInv(gens, World)
  BY DEF Init, GensInv
<1>8. PoolsInv(pools, World)
  BY <1>1 DEF Init, PoolsInv
<1>9. InUse(pools, frames) <= MaxDepth + PoolMax
  <2>1. Len(pools.simple) = 0 /\ Len(pools.slot0) = 0
    BY DEF Init
  <2>2. InUse(pools, frames) = 0 + 0 + 0
    BY <1>6, <2>1 DEF InUse
  <2>. QED  BY <1>1, <2>2
<1>. QED  BY <1>2, <1>6, <1>7, <1>8, <1>9 DEF IInv

(* Every step keeps the invariant. *)
LEMMA NextInv == IInv /\ [Next]_vars => IInv'
<1>. SUFFICES ASSUME IInv, [Next]_vars PROVE IInv'
  OBVIOUS
<1>1. CASE LoadGlobal
  BY <1>1, LoadInv
<1>2. ASSUME NEW m \in Modules, NEW value \in Values, StoreGlobal(m, value) PROVE IInv'
  BY <1>2, GlobalWriteInv DEF StoreGlobal
<1>3. ASSUME NEW m \in Modules, DeleteGlobal(m) PROVE IInv'
  BY <1>3, GlobalWriteInv DEF DeleteGlobal
<1>4. ASSUME NEW value \in Values \cup {Absent}, WriteBuiltin(value) PROVE IInv'
  BY <1>4, BuiltinWriteInv
<1>5. CASE Write
  BY <1>2, <1>3, <1>4, <1>5 DEF Write
<1>6. CASE Call
  BY <1>6, CallGeneralInv, CallSimpleInv, CallSlot0Inv, RunBodyInv, CallGeneratorInv, ResumeInv
     DEF Call
<1>7. CASE Return
  BY <1>7, ReturnInv
<1>8. CASE Unwind
  BY <1>8, UnwindInv DEF Unwind
<1>9. CASE Execute
  BY <1>9, ExecuteInv
<1>10. CASE Yield
  BY <1>10, YieldInv
<1>11. CASE UNCHANGED vars
  <2>1. World' = World
    BY <1>11 DEF vars, World, Lookup
  <2>. QED  BY <1>11, <2>1 DEF vars, IInv, WorldInv, FramesInv, GensInv, PoolsInv, InUse, SimpleCount
<1>. QED  BY <1>1, <1>5, <1>6, <1>7, <1>8, <1>9, <1>10, <1>11 DEF Next

(* The inductive invariant holds in every reachable state. *)
THEOREM Invariance == Spec => []IInv
BY InitInv, NextInv, PTL DEF Spec

(* Every live frame is a good one. *)
LEMMA LiveGood ==
  ASSUME IInv
  PROVE  Live \subseteq GoodFrame(World)
<1>1. Range(frames) \subseteq GoodFrame(World)
  BY Parts, ElementOfSeq DEF Range
<1>2. ASSUME NEW g \in Gens, gens[g] # NoFrame PROVE gens[g] \in GoodFrame(World)
  BY <1>2 DEF IInv, GensInv, GoodGen
<1>. QED  BY <1>1, <1>2 DEF Live

(* A hit gives the value that a lookup would find, in a frame on the stack    *)
(* and in a suspended generator, unless the version was lent.                 *)
THEOREM HitsAreCurrent == Spec => []HitsCurrent
<1>1. ASSUME IInv PROVE HitsCurrent
  <2>. SUFFICES ASSUME NEW f \in Live, Hit(f)
                PROVE  /\ f.site.code = f.code
                       /\ ~f.lent /\ ~f.site.lent => f.site.value = Lookup(f.module)
    BY DEF HitsCurrent
  <2>1. f \in GoodFrame(World) /\ World.ver = version /\ World.bver = bversion
    BY <1>1, LiveGood, Parts
  <2>2. /\ f \in Frame /\ f.site \in GoodSite(f.code, World)
        /\ ~f.lent => f.version = version[f.module]
    BY <2>1 DEF GoodFrame
  <2>3. f.site.code = f.code /\ (~f.site.lent => Fresh(f.site, World))
    BY <2>2 DEF GoodSite, Hit
  <2>4. f.module \in Modules /\ World.look[f.module] = Lookup(f.module)
    BY <1>1, <2>2, Parts DEF Frame
  <2>5. ~f.lent /\ ~f.site.lent => f.site.value = Lookup(f.module)
    BY <2>1, <2>2, <2>3, <2>4 DEF Fresh, Hit
  <2>. QED  BY <2>3, <2>5
<1>. QED  BY <1>1, Invariance, PTL

(* Frames' versions are current, the pool of one-argument frames holds its    *)
(* own function's, and the pools never outgrow the deepest stack and one pool. *)
THEOREM PoolsAreConsistent == Spec => []PoolsConsistent
<1>1. ASSUME IInv PROVE PoolsConsistent
  <2>1. TypeOK
    <3>1. GoodFrame(World) \subseteq Frame /\ GoodGen(World) \subseteq Frame
      BY DEF GoodFrame, GoodGen
    <3>2. GoodPooled(World) \subseteq Pooled
      BY DEF GoodPooled
    <3>3. frames \in Seq(Frame) /\ Len(frames) \in 1 .. MaxDepth
      BY <1>1, <3>1, SeqMonotonic DEF IInv, FramesInv
    <3>4. gens \in [Gens -> Frame \cup {NoFrame}]
      BY <1>1, <3>1 DEF IInv, GensInv
    <3>5. \A s \in Seq(GoodPooled(World)) : s \in Seq(Pooled)
      BY <3>2, SeqMonotonic
    <3>6. pools \in [general : Seq(Pooled), simple : Seq(Pooled), slot0 : Seq(Pooled),
                     key : Funcs \cup {NoKey}]
      BY <1>1, <3>5 DEF IInv, PoolsInv
    <3>7. /\ MaxWrites \in Nat /\ writes \in 0 .. MaxWrites
          /\ \A k \in 1 .. 1 + writes : k \in 1 .. 1 + MaxWrites
      BY <1>1, CachesAssumption DEF IInv, WorldInv
    <3>8. /\ program \in Programs /\ globals \in [Modules -> Values \cup {Absent}]
          /\ builtins \in Values \cup {Absent}
          /\ version \in [Modules -> 1 .. 1 + MaxWrites] /\ bversion \in 1 .. 1 + MaxWrites
      BY <1>1, <3>7 DEF IInv, WorldInv
    <3>. QED  BY <3>3, <3>4, <3>6, <3>7, <3>8 DEF TypeOK
  <2>2. VersionsCurrent
    <3>1. World.ver = version
      BY DEF World
    <3>. QED  BY <1>1, <3>1, LiveGood DEF VersionsCurrent, GoodFrame
  <2>3. Slot0OfItsKey
    BY <1>1 DEF IInv, PoolsInv, Slot0OfItsKey
  <2>4. PoolsBounded
    BY <1>1 DEF IInv, PoolsInv, PoolsBounded, InUse, SimpleCount
  <2>. QED  BY <2>1, <2>2, <2>3, <2>4 DEF PoolsConsistent
<1>. QED  BY <1>1, Invariance, PTL

-----------------------------------------------------------------------------
(* Imports *)

(* Types *)

Table == UNION {[S -> Nat] : S \in SUBSET Names}

Mod == [name : Names, loader : BOOLEAN, init : BOOLEAN, st : States,
        def : BOOLEAN, bound : BOOLEAN, kids : Table]

StoreType == [cache : Table, sys : Table, obj : Seq(Mod)]

(* The tables of a store agree, and names are those of the objects. *)
TablesOK(s) ==
  /\ DOMAIN s.sys \subseteq DOMAIN s.cache
  /\ \A n \in DOMAIN s.cache : s.cache[n] \in DOMAIN s.obj /\ s.obj[s.cache[n]].name = n
  /\ \A n \in DOMAIN s.sys : s.sys[n] = s.cache[n]

KidsOK(s) ==
  \A i \in DOMAIN s.obj : \A n \in DOMAIN s.obj[i].kids :
    Parent[n] = s.obj[i].name /\ s.obj[i].kids[n] \in DOMAIN s.obj

StoreOK(s) == s \in StoreType /\ TablesOK(s) /\ KidsOK(s)

Pruned(s) == DOMAIN s.cache \subseteq DOMAIN s.sys

(* Objects stay, with their names and marks; what enters sys.modules is new. *)
Evolves(s, t) ==
  /\ Len(s.obj) <= Len(t.obj)
  /\ \A i \in DOMAIN s.obj : t.obj[i].name = s.obj[i].name

SameMarks(s, t) ==
  \A i \in DOMAIN t.obj : t.obj[i].init <=> i \in DOMAIN s.obj /\ s.obj[i].init

OldEntry(s, t, n) == n \in DOMAIN s.sys /\ t.sys[n] = s.sys[n]

NewAreNew(s, t) == \A n \in DOMAIN t.sys : OldEntry(s, t, n) \/ t.sys[n] \notin DOMAIN s.obj

Tame(s, t) ==
  StoreOK(t) /\ Evolves(s, t) /\ (Pruned(s) => Pruned(t) /\ NewAreNew(s, t))

-----------------------------------------------------------------------------
(* Tables *)

LEMMA TableFields ==
  ASSUME NEW f \in Table
  PROVE  DOMAIN f \subseteq Names /\ \A n \in DOMAIN f : f[n] \in Nat
BY DEF Table

LEMMA TableIs ==
  ASSUME NEW S \in SUBSET Names, NEW f \in [S -> Nat]
  PROVE  f \in Table /\ DOMAIN f = S
BY DEF Table

LEMMA TableSelf ==
  ASSUME NEW f \in Table
  PROVE  f = [n \in DOMAIN f |-> f[n]]
BY DEF Table

LEMMA MergeFacts ==
  ASSUME NEW f \in Table, NEW g \in Table
  PROVE  /\ Merge(f, g) \in Table /\ DOMAIN Merge(f, g) = DOMAIN f \cup DOMAIN g
         /\ \A n \in DOMAIN f : Merge(f, g)[n] = f[n]
         /\ \A n \in DOMAIN g : n \notin DOMAIN f => Merge(f, g)[n] = g[n]
<1>1. PICK h : h = Merge(f, g)
  OBVIOUS
<1>2. h = [n \in DOMAIN f \cup DOMAIN g |-> IF n \in DOMAIN f THEN f[n] ELSE g[n]]
  BY <1>1 DEF Merge
<1>3. h \in [DOMAIN f \cup DOMAIN g -> Nat] /\ DOMAIN f \cup DOMAIN g \in SUBSET Names
  BY <1>2, TableFields
<1>4. h \in Table /\ DOMAIN h = DOMAIN f \cup DOMAIN g
  BY <1>3, TableIs
<1>. QED  BY <1>1, <1>2, <1>4

LEMMA PutFacts ==
  ASSUME NEW f \in Table, NEW n \in Names, NEW o \in Nat
  PROVE  /\ Put(f, n, o) \in Table /\ DOMAIN Put(f, n, o) = DOMAIN f \cup {n} /\ Put(f, n, o)[n] = o
         /\ \A m \in DOMAIN f : m # n => Put(f, n, o)[m] = f[m]
<1>1. PICK h : h = Put(f, n, o)
  OBVIOUS
<1>2. h = [m \in DOMAIN f \cup {n} |-> IF m = n THEN o ELSE f[m]]
  BY <1>1 DEF Put
<1>3. h \in [DOMAIN f \cup {n} -> Nat] /\ DOMAIN f \cup {n} \in SUBSET Names
  BY <1>2, TableFields
<1>4. h \in Table /\ DOMAIN h = DOMAIN f \cup {n}
  BY <1>3, TableIs
<1>. QED  BY <1>1, <1>2, <1>4

(* A table with an entry that it has is the same table. *)
LEMMA PutSame ==
  ASSUME NEW f \in Table, NEW n \in DOMAIN f
  PROVE  Put(f, n, f[n]) = f
<1>1. n \in Names /\ f[n] \in Nat
  BY TableFields
<1>2. PICK h : h = Put(f, n, f[n])
  OBVIOUS
<1>3. h \in Table /\ DOMAIN h = DOMAIN f /\ \A m \in DOMAIN f : h[m] = f[m]
  <2>1. /\ h \in Table /\ DOMAIN h = DOMAIN f \cup {n} /\ h[n] = f[n]
        /\ \A m \in DOMAIN f : m # n => h[m] = f[m]
    BY ZenonT(60), <1>1, <1>2, PutFacts
  <2>. QED  BY <2>1
<1>4. h = [m \in DOMAIN h |-> h[m]] /\ f = [m \in DOMAIN f |-> f[m]]
  BY <1>3, TableSelf
<1>. QED  BY <1>2, <1>3, <1>4

LEMMA DropFacts ==
  ASSUME NEW f \in Table, NEW S
  PROVE  /\ Drop(f, S) \in Table /\ DOMAIN Drop(f, S) = DOMAIN f \ S
         /\ \A m \in DOMAIN f \ S : Drop(f, S)[m] = f[m]
<1>1. PICK h : h = Drop(f, S)
  OBVIOUS
<1>2. h = [m \in DOMAIN f \ S |-> f[m]]
  BY <1>1 DEF Drop
<1>3. h \in [DOMAIN f \ S -> Nat] /\ DOMAIN f \ S \in SUBSET Names
  BY <1>2, TableFields
<1>4. h \in Table /\ DOMAIN h = DOMAIN f \ S
  BY <1>3, TableIs
<1>. QED  BY <1>1, <1>2, <1>4

(* The same, as one predicate about the result. *)
IsPut(f, n, o, c) ==
  /\ c \in Table /\ DOMAIN c = DOMAIN f \cup {n} /\ c[n] = o
  /\ \A m \in DOMAIN f : m # n => c[m] = f[m]

IsMerge(f, g, c) ==
  /\ c \in Table /\ DOMAIN c = DOMAIN f \cup DOMAIN g
  /\ \A n \in DOMAIN f : c[n] = f[n]
  /\ \A n \in DOMAIN g : n \notin DOMAIN f => c[n] = g[n]

IsDrop(f, S, c) ==
  /\ c \in Table /\ DOMAIN c = DOMAIN f \ S
  /\ \A n \in DOMAIN f \ S : c[n] = f[n]

LEMMA PutIs ==
  ASSUME NEW f \in Table, NEW n \in Names, NEW o \in Nat
  PROVE  IsPut(f, n, o, Put(f, n, o))
BY PutFacts DEF IsPut

LEMMA MergeIs ==
  ASSUME NEW f \in Table, NEW g \in Table
  PROVE  IsMerge(f, g, Merge(f, g))
BY MergeFacts DEF IsMerge

LEMMA DropIs ==
  ASSUME NEW f \in Table, NEW S
  PROVE  IsDrop(f, S, Drop(f, S))
BY DropFacts DEF IsDrop

LEMMA EmptyTable == <<>> \in Table /\ DOMAIN <<>> = {}
<1>1. <<>> = [n \in {} |-> 0]
  OBVIOUS
<1>2. [n \in {} |-> 0] \in [{} -> Nat]
  OBVIOUS
<1>. QED  BY ZenonT(60), <1>1, <1>2, TableIs

-----------------------------------------------------------------------------
(* Stores *)

LEMMA StoreFields ==
  ASSUME NEW s \in StoreType
  PROVE  /\ s.cache \in Table /\ s.sys \in Table /\ s.obj \in Seq(Mod)
         /\ Len(s.obj) \in Nat /\ DOMAIN s.obj = 1 .. Len(s.obj)
         /\ \A i \in DOMAIN s.obj : s.obj[i] \in Mod
BY DEF StoreType

LEMMA ModFields ==
  ASSUME NEW m \in Mod
  PROVE  /\ m.name \in Names /\ m.loader \in BOOLEAN /\ m.init \in BOOLEAN /\ m.st \in States
         /\ m.def \in BOOLEAN /\ m.bound \in BOOLEAN /\ m.kids \in Table
BY DEF Mod

(* What is in the program's own table is what the VM's table has. *)
LEMMA CanonicalSame ==
  ASSUME NEW s, StoreOK(s), NEW n
  PROVE  CanonicalStore(s, n) = s
<1>1. CASE ~Has(s.sys, n)
  BY <1>1 DEF CanonicalStore
<1>2. CASE Has(s.sys, n)
  <2>1. n \in DOMAIN s.cache /\ s.sys[n] = s.cache[n] /\ s.cache \in Table
    BY <1>2, StoreFields DEF StoreOK, TablesOK, Has
  <2>2. Put(s.cache, n, s.sys[n]) = s.cache
    BY <2>1, PutSame
  <2>3. CanonicalStore(s, n) = [s EXCEPT !.cache = Put(s.cache, n, s.sys[n])]
    BY <1>2 DEF CanonicalStore, StoreOK, StoreType
  <2>4. [s EXCEPT !.cache = s.cache] = s
    BY DEF StoreOK, StoreType
  <2>. QED  BY <2>2, <2>3, <2>4
<1>. QED  BY <1>1, <1>2

LEMMA CanonicalIs ==
  ASSUME NEW s, StoreOK(s), NEW n, NEW o
  PROVE  CanonicalModule(s, n, o) = IF n \in DOMAIN s.cache THEN s.cache[n] ELSE o
BY DEF CanonicalModule, Has, StoreOK, TablesOK

-----------------------------------------------------------------------------
(* Operations on stores *)

SameBut(a, b) ==
  /\ a.name = b.name /\ a.loader = b.loader /\ a.init = b.init /\ a.st = b.st
  /\ a.def = b.def /\ a.bound = b.bound

LEMMA NewModuleFacts ==
  ASSUME NEW n \in Names, NEW l \in BOOLEAN
  PROVE  /\ NewModule(n, l) \in Mod /\ NewModule(n, l).name = n /\ NewModule(n, l).loader = l
         /\ ~NewModule(n, l).init /\ DOMAIN NewModule(n, l).kids = {}
         /\ NewModule(n, l).st = IF l THEN "queued" ELSE "empty"
<1>1. <<>> \in Table /\ DOMAIN <<>> = {}
  BY EmptyTable
<1>. QED  BY <1>1 DEF NewModule, Mod, States

Registered(s, n, m, t) == t = RegisterModule([s EXCEPT !.obj = Append(@, m)], n, Len(s.obj) + 1)

(* A new object under a name. *)
LEMMA RegisterFacts ==
  ASSUME NEW s, StoreOK(s), NEW n \in Names, NEW m \in Mod, m.name = n, DOMAIN m.kids = {},
         NEW t, Registered(s, n, m, t)
  PROVE  /\ StoreOK(t)
         /\ Len(t.obj) = Len(s.obj) + 1 /\ t.obj[Len(s.obj) + 1] = m
         /\ \A i \in DOMAIN s.obj : t.obj[i] = s.obj[i]
         /\ DOMAIN t.cache = DOMAIN s.cache \cup {n} /\ DOMAIN t.sys = DOMAIN t.cache
         /\ t.cache[n] = Len(s.obj) + 1
         /\ \A k \in DOMAIN s.cache : k # n => t.cache[k] = s.cache[k]
<1>f. PICK f, g : f = s.cache /\ g = s.sys
  OBVIOUS
<1>0. PICK o, c, y, x, u : /\ o = Len(s.obj) + 1 /\ c = Put(f, n, o) /\ y = Merge(c, g)
                           /\ x = Append(s.obj, m) /\ u = [s EXCEPT !.obj = x]
  OBVIOUS
<1>1. /\ s.cache \in Table /\ s.sys \in Table /\ s.obj \in Seq(Mod) /\ Len(s.obj) \in Nat
      /\ DOMAIN s.obj = 1 .. Len(s.obj) /\ s \in StoreType
  BY StoreFields DEF StoreOK
<1>2. x \in Seq(Mod) /\ Len(x) = o /\ x[o] = m /\ \A i \in 1 .. Len(s.obj) : x[i] = s.obj[i]
  BY <1>0, <1>1
<1>a. f \in Table /\ g \in Table /\ o \in Nat
  BY <1>0, <1>1, <1>f
<1>b. c = Put(f, n, o) /\ y = Merge(c, g)
  BY <1>0
<1>3. c \in Table /\ DOMAIN c = DOMAIN f \cup {n} /\ c[n] = o /\ \A k \in DOMAIN f : k # n => c[k] = f[k]
  <2>1. IsPut(f, n, o, c)
    BY <1>a, <1>b, PutIs
  <2>. QED  BY <2>1 DEF IsPut
<1>4. /\ y \in Table /\ DOMAIN y = DOMAIN c \cup DOMAIN g /\ \A k \in DOMAIN c : y[k] = c[k]
      /\ \A k \in DOMAIN g : k \notin DOMAIN c => y[k] = g[k]
  <2>1. IsMerge(c, g, y)
    BY <1>a, <1>b, <1>3, MergeIs
  <2>. QED  BY <2>1 DEF IsMerge
<1>6. t.cache = c /\ t.sys = y /\ t.obj = x /\ t \in StoreType
  <2>1. u.cache = s.cache /\ u.sys = s.sys /\ u.obj = x /\ u \in StoreType
    BY <1>f, <1>0, <1>1, <1>2 DEF StoreType
  <2>2. t = RegisterModule(u, n, o)
    BY <1>f, <1>0, <1>1 DEF StoreType, Registered
  <2>3. t = [u EXCEPT !.cache = c, !.sys = y]
    BY <1>f, <1>0, <2>1, <2>2 DEF RegisterModule, StoreType
  <2>. QED  BY <2>1, <2>3, <1>3, <1>4 DEF StoreType
<1>7. DOMAIN s.sys \subseteq DOMAIN s.cache
  BY DEF StoreOK, TablesOK
<1>8. TablesOK(t)
  <2>1. DOMAIN t.obj = 1 .. o /\ o = Len(s.obj) + 1
    BY <1>f, <1>0, <1>1, <1>2, <1>6
  <2>2. ASSUME NEW k \in DOMAIN c PROVE c[k] \in 1 .. o /\ x[c[k]].name = k /\ y[k] = c[k]
    BY SMTT(60), <1>f, <1>1, <1>2, <1>3, <1>4, <2>1 DEF StoreOK, TablesOK
  <2>3. DOMAIN y = DOMAIN c
    BY <1>f, <1>3, <1>4, <1>7
  <2>. QED  BY <1>6, <2>1, <2>2, <2>3 DEF TablesOK
<1>9. KidsOK(t)
  <2>1. DOMAIN t.obj = 1 .. o /\ o = Len(s.obj) + 1
    BY <1>f, <1>0, <1>1, <1>2, <1>6
  <2>2. ASSUME NEW i \in 1 .. o, NEW k \in DOMAIN x[i].kids
        PROVE  Parent[k] = x[i].name /\ x[i].kids[k] \in 1 .. o
    <3>1. i # o
      BY <1>2
    <3>2. i \in 1 .. Len(s.obj) /\ x[i] = s.obj[i]
      BY <1>1, <1>2, <2>1, <3>1
    <3>3. Parent[k] = s.obj[i].name /\ s.obj[i].kids[k] \in 1 .. Len(s.obj)
      BY <1>1, <3>2 DEF StoreOK, KidsOK
    <3>. QED  BY <1>1, <2>1, <3>2, <3>3
  <2>. QED  BY <1>6, <2>1, <2>2 DEF KidsOK
<1>10. StoreOK(t)
  BY <1>6, <1>8, <1>9 DEF StoreOK
<1>. QED  BY <1>f, <1>0, <1>1, <1>2, <1>3, <1>4, <1>6, <1>7, <1>10

(* Names that are removed go from both tables and from the registered       *)
(* packages.                                                                *)
LEMMA RemoveFacts ==
  ASSUME NEW s, StoreOK(s), NEW S, NEW t, t = RemoveModuleEntries(s, S)
  PROVE  /\ StoreOK(t) /\ Len(t.obj) = Len(s.obj)
         /\ DOMAIN t.cache = DOMAIN s.cache \ S /\ DOMAIN t.sys = DOMAIN s.sys \ S
         /\ \A n \in DOMAIN t.cache : t.cache[n] = s.cache[n]
         /\ \A n \in DOMAIN t.sys : t.sys[n] = s.sys[n]
         /\ \A i \in DOMAIN s.obj :
              /\ SameBut(s.obj[i], t.obj[i])
              /\ DOMAIN t.obj[i].kids \subseteq DOMAIN s.obj[i].kids
              /\ \A n \in DOMAIN t.obj[i].kids : t.obj[i].kids[n] = s.obj[i].kids[n]
         /\ \A p \in DOMAIN t.cache : DOMAIN t.obj[t.cache[p]].kids \cap S = {}
<1>f. PICK f, g : f = s.cache /\ g = s.sys
  OBVIOUS
<1>0. PICK c, y : c = Drop(f, S) /\ y = Drop(g, S)
  OBVIOUS
<1>. DEFINE N(i) == [s.obj[i] EXCEPT !.kids = Drop(s.obj[i].kids, S)]
            x == [i \in DOMAIN s.obj |-> IF \E p \in DOMAIN c : c[p] = i THEN N(i) ELSE s.obj[i]]
<1>1. /\ s.cache \in Table /\ s.sys \in Table /\ s.obj \in Seq(Mod) /\ Len(s.obj) \in Nat
      /\ DOMAIN s.obj = 1 .. Len(s.obj) /\ s \in StoreType
  BY StoreFields DEF StoreOK
<1>a. f \in Table /\ g \in Table
  BY <1>1, <1>f
<1>b. c \in Table /\ DOMAIN c = DOMAIN f \ S /\ \A n \in DOMAIN f \ S : c[n] = f[n]
  BY <1>a, <1>0, DropFacts
<1>c. y \in Table /\ DOMAIN y = DOMAIN g \ S /\ \A n \in DOMAIN g \ S : y[n] = g[n]
  BY <1>a, <1>0, DropFacts
<1>2. c \in Table /\ DOMAIN c = DOMAIN s.cache \ S /\ \A n \in DOMAIN c : c[n] = s.cache[n]
  BY <1>b, <1>f
<1>3. y \in Table /\ DOMAIN y = DOMAIN s.sys \ S /\ \A n \in DOMAIN y : y[n] = s.sys[n]
  BY <1>c, <1>f
<1>4. ASSUME NEW i \in DOMAIN s.obj
      PROVE  /\ N(i) \in Mod /\ SameBut(s.obj[i], N(i))
             /\ DOMAIN N(i).kids = DOMAIN s.obj[i].kids \ S
             /\ \A n \in DOMAIN N(i).kids : N(i).kids[n] = s.obj[i].kids[n]
  <2>a. PICK h : h = s.obj[i].kids
    OBVIOUS
  <2>1. PICK k : k = Drop(h, S)
    OBVIOUS
  <2>2. s.obj[i] \in Mod /\ s.obj[i].kids \in Table
    BY <1>1, ModFields
  <2>b. h \in Table
    BY <2>a, <2>2
  <2>c. k \in Table /\ DOMAIN k = DOMAIN h \ S /\ \A n \in DOMAIN h \ S : k[n] = h[n]
    BY <2>1, <2>b, DropFacts
  <2>3. /\ k \in Table /\ DOMAIN k = DOMAIN s.obj[i].kids \ S
        /\ \A n \in DOMAIN k : k[n] = s.obj[i].kids[n]
    BY <2>a, <2>c
  <2>4. N(i) = [s.obj[i] EXCEPT !.kids = k]
    BY <2>1, <2>a
  <2>. HIDE DEF N
  <2>5. N(i) \in Mod /\ N(i).kids = k /\ SameBut(s.obj[i], N(i))
    BY <2>2, <2>3, <2>4 DEF Mod, SameBut
  <2>. QED  BY <2>3, <2>5
<1>5. ASSUME NEW i \in DOMAIN s.obj PROVE SameBut(s.obj[i], s.obj[i])
  BY DEF SameBut
<1>6. t.cache = c /\ t.sys = y /\ t.obj = x
  BY <1>0, <1>f DEF RemoveModuleEntries
<1>7. x \in Seq(Mod) /\ Len(x) = Len(s.obj) /\ DOMAIN x = DOMAIN s.obj
  <2>. HIDE DEF N
  <2>. QED  BY <1>1, <1>4
<1>8. t \in StoreType
  <2>1. t = [cache |-> c, sys |-> y, obj |-> x]
    BY <1>0, <1>f DEF RemoveModuleEntries
  <2>. HIDE DEF x
  <2>. QED  BY <1>2, <1>3, <1>7, <2>1 DEF StoreType
<1>9. /\ \A i \in DOMAIN s.obj :
           /\ SameBut(s.obj[i], x[i])
           /\ DOMAIN x[i].kids \subseteq DOMAIN s.obj[i].kids
           /\ \A n \in DOMAIN x[i].kids : x[i].kids[n] = s.obj[i].kids[n]
      /\ \A p \in DOMAIN c : c[p] \in DOMAIN s.obj => DOMAIN x[c[p]].kids \cap S = {}
  <2>. HIDE DEF N
  <2>. QED  BY <1>4, <1>5
<1>. HIDE DEF x, N
<1>10. \A p \in DOMAIN c : c[p] \in DOMAIN s.obj /\ s.obj[c[p]].name = p
  BY <1>2 DEF StoreOK, TablesOK
<1>11. TablesOK(t)
  BY <1>2, <1>3, <1>6, <1>7, <1>9 DEF StoreOK, TablesOK, SameBut
<1>12. KidsOK(t)
  BY <1>6, <1>7, <1>9 DEF StoreOK, KidsOK, SameBut
<1>. QED  BY <1>2, <1>3, <1>6, <1>7, <1>8, <1>9, <1>10, <1>11, <1>12 DEF StoreOK

(* What an operation leaves of a store s in t. *)

IsRegistered(s, n, m, t) ==
  /\ StoreOK(t)
  /\ Len(t.obj) = Len(s.obj) + 1 /\ t.obj[Len(s.obj) + 1] = m
  /\ \A i \in DOMAIN s.obj : t.obj[i] = s.obj[i]
  /\ DOMAIN t.cache = DOMAIN s.cache \cup {n} /\ DOMAIN t.sys = DOMAIN t.cache
  /\ t.cache[n] = Len(s.obj) + 1
  /\ \A k \in DOMAIN s.cache : k # n => t.cache[k] = s.cache[k]

IsRemoved(s, S, t) ==
  /\ StoreOK(t) /\ Len(t.obj) = Len(s.obj)
  /\ DOMAIN t.cache = DOMAIN s.cache \ S /\ DOMAIN t.sys = DOMAIN s.sys \ S
  /\ \A n \in DOMAIN t.cache : t.cache[n] = s.cache[n]
  /\ \A n \in DOMAIN t.sys : t.sys[n] = s.sys[n]
  /\ \A i \in DOMAIN s.obj :
       /\ SameBut(s.obj[i], t.obj[i])
       /\ DOMAIN t.obj[i].kids \subseteq DOMAIN s.obj[i].kids
       /\ \A n \in DOMAIN t.obj[i].kids : t.obj[i].kids[n] = s.obj[i].kids[n]
  /\ \A p \in DOMAIN t.cache : DOMAIN t.obj[t.cache[p]].kids \cap S = {}

(* Only flags of objects change. *)
IsMarked(s, t) ==
  /\ t \in StoreType /\ t.cache = s.cache /\ t.sys = s.sys /\ Len(t.obj) = Len(s.obj)
  /\ \A i \in DOMAIN s.obj :
       /\ t.obj[i].name = s.obj[i].name /\ t.obj[i].kids = s.obj[i].kids
       /\ t.obj[i].loader = s.obj[i].loader

IsBoundIn(s, p, n, o, t) ==
  /\ StoreOK(t) /\ t.cache = s.cache /\ t.sys = s.sys /\ Len(t.obj) = Len(s.obj)
  /\ \A i \in DOMAIN s.obj : SameBut(s.obj[i], t.obj[i]) /\ (i # p => t.obj[i].kids = s.obj[i].kids)
  /\ IsPut(s.obj[p].kids, n, o, t.obj[p].kids)

SetKid(s, p, n, o) == [s EXCEPT !.obj[p].kids = Put(@, n, o)]

LEMMA RegisterIs ==
  ASSUME NEW s, StoreOK(s), NEW n \in Names, NEW m \in Mod, m.name = n, DOMAIN m.kids = {}
  PROVE  IsRegistered(s, n, m, RegisterModule([s EXCEPT !.obj = Append(@, m)], n, Len(s.obj) + 1))
<1>1. PICK t : t = RegisterModule([s EXCEPT !.obj = Append(@, m)], n, Len(s.obj) + 1)
  OBVIOUS
<1>2. Registered(s, n, m, t)
  BY <1>1 DEF Registered
<1>3. IsRegistered(s, n, m, t)
  BY <1>2, RegisterFacts DEF IsRegistered
<1>. QED  BY <1>1, <1>3

LEMMA RemoveIs ==
  ASSUME NEW s, StoreOK(s), NEW S
  PROVE  IsRemoved(s, S, RemoveModuleEntries(s, S))
<1>1. PICK t : t = RemoveModuleEntries(s, S)
  OBVIOUS
<1>2. IsRemoved(s, S, t)
  BY <1>1, RemoveFacts DEF IsRemoved
<1>. QED  BY <1>1, <1>2

LEMMA RemoveTwice ==
  ASSUME NEW s, NEW S, NEW T, NEW t, NEW u, IsRemoved(s, S, t), IsRemoved(t, T, u),
         s.obj \in Seq(Mod)
  PROVE  IsRemoved(s, S \cup T, u)
<1>1. DOMAIN s.obj = DOMAIN t.obj
  BY DEF IsRemoved, StoreOK, StoreType
<1>2. /\ StoreOK(u) /\ Len(u.obj) = Len(s.obj)
      /\ DOMAIN u.cache = DOMAIN s.cache \ (S \cup T) /\ DOMAIN u.sys = DOMAIN s.sys \ (S \cup T)
      /\ \A n \in DOMAIN u.cache : u.cache[n] = s.cache[n]
      /\ \A n \in DOMAIN u.sys : u.sys[n] = s.sys[n]
  BY DEF IsRemoved
<1>3. ASSUME NEW i \in DOMAIN s.obj
      PROVE  /\ SameBut(s.obj[i], u.obj[i])
             /\ DOMAIN u.obj[i].kids \subseteq DOMAIN t.obj[i].kids
             /\ DOMAIN t.obj[i].kids \subseteq DOMAIN s.obj[i].kids
             /\ \A n \in DOMAIN u.obj[i].kids : u.obj[i].kids[n] = s.obj[i].kids[n]
  BY <1>1 DEF IsRemoved, SameBut
<1>4. ASSUME NEW p \in DOMAIN u.cache
      PROVE  DOMAIN u.obj[u.cache[p]].kids \cap (S \cup T) = {}
  <2>1. p \in DOMAIN t.cache /\ u.cache[p] = t.cache[p] /\ t.cache[p] \in DOMAIN t.obj
    BY DEF IsRemoved, StoreOK, TablesOK
  <2>2. DOMAIN u.obj[u.cache[p]].kids \cap T = {} /\ DOMAIN t.obj[t.cache[p]].kids \cap S = {}
    BY <2>1 DEF IsRemoved
  <2>3. DOMAIN u.obj[u.cache[p]].kids \subseteq DOMAIN t.obj[t.cache[p]].kids
    BY <1>1, <1>3, <2>1
  <2>. QED  BY <2>2, <2>3
<1>. QED  BY <1>2, <1>3, <1>4 DEF IsRemoved

LEMMA BoundIs ==
  ASSUME NEW s, StoreOK(s), NEW p \in DOMAIN s.obj, NEW n \in Names, NEW o \in DOMAIN s.obj,
         Parent[n] = s.obj[p].name
  PROVE  IsBoundIn(s, p, n, o, SetKid(s, p, n, o))
<1>1. /\ s.cache \in Table /\ s.sys \in Table /\ s.obj \in Seq(Mod) /\ Len(s.obj) \in Nat
      /\ DOMAIN s.obj = 1 .. Len(s.obj) /\ s \in StoreType /\ o \in Nat
  BY StoreFields DEF StoreOK
<1>2. PICK k : k = Put(s.obj[p].kids, n, o)
  OBVIOUS
<1>3. IsPut(s.obj[p].kids, n, o, k)
  <2>1. s.obj[p].kids \in Table
    BY <1>1, ModFields
  <2>. QED  BY <1>1, <1>2, <2>1, PutIs
<1>4. PICK m : m = [s.obj[p] EXCEPT !.kids = k]
  OBVIOUS
<1>5. m \in Mod /\ SameBut(s.obj[p], m) /\ m.kids = k
  <2>1. s.obj[p] \in Mod /\ k \in Table
    BY <1>1, <1>3 DEF IsPut
  <2>. QED  BY <1>4, <2>1 DEF Mod, SameBut
<1>6. PICK x : x = [s.obj EXCEPT ![p] = m]
  OBVIOUS
<1>7. x \in Seq(Mod) /\ Len(x) = Len(s.obj) /\ x[p] = m /\ \A i \in DOMAIN s.obj : i # p => x[i] = s.obj[i]
  BY <1>1, <1>5, <1>6
<1>8. PICK t : t = SetKid(s, p, n, o)
  OBVIOUS
<1>9. t = [s EXCEPT !.obj = x]
  BY <1>2, <1>4, <1>6, <1>8 DEF SetKid
<1>10. t \in StoreType /\ t.cache = s.cache /\ t.sys = s.sys /\ t.obj = x
  BY <1>1, <1>7, <1>9 DEF StoreType
<1>11. \A i \in DOMAIN s.obj : SameBut(s.obj[i], x[i]) /\ (i # p => x[i].kids = s.obj[i].kids)
  BY <1>5, <1>7 DEF SameBut
<1>12. DOMAIN x = DOMAIN s.obj
  BY <1>1, <1>7
<1>13. TablesOK(t)
  BY <1>10, <1>11, <1>12 DEF TablesOK, StoreOK, SameBut
<1>14. KidsOK(t)
  <2>1. ASSUME NEW i \in DOMAIN s.obj, NEW j \in DOMAIN x[i].kids
        PROVE  Parent[j] = x[i].name /\ x[i].kids[j] \in DOMAIN s.obj
    <3>1. CASE i = p
      BY <3>1, <1>3, <1>5, <1>7 DEF IsPut, StoreOK, KidsOK, SameBut
    <3>2. CASE i # p
      BY <3>2, <1>11 DEF StoreOK, KidsOK, SameBut
    <3>. QED  BY <3>1, <3>2
  <2>. QED  BY <1>10, <1>12, <2>1 DEF KidsOK
<1>15. IsBoundIn(s, p, n, o, t)
  BY <1>3, <1>5, <1>7, <1>10, <1>11, <1>13, <1>14 DEF IsBoundIn, StoreOK
<1>. QED  BY <1>8, <1>15

(* Flags do not matter for the tables. *)
LEMMA MarkedOK ==
  ASSUME NEW s, StoreOK(s), NEW t, IsMarked(s, t)
  PROVE  StoreOK(t)
<1>1. DOMAIN t.obj = DOMAIN s.obj
  BY DEF IsMarked, StoreOK, StoreType
<1>. QED  BY <1>1 DEF IsMarked, StoreOK, TablesOK, KidsOK

LEMMA MarkedIs ==
  ASSUME NEW s, StoreOK(s), NEW x \in Seq(Mod), Len(x) = Len(s.obj),
         \A i \in DOMAIN s.obj : /\ x[i].name = s.obj[i].name /\ x[i].kids = s.obj[i].kids
                                 /\ x[i].loader = s.obj[i].loader
  PROVE  IsMarked(s, [s EXCEPT !.obj = x]) /\ [s EXCEPT !.obj = x].obj = x
BY DEF IsMarked, StoreOK, StoreType

LEMMA ObjDomain ==
  ASSUME NEW s, StoreOK(s)
  PROVE  /\ s.obj \in Seq(Mod) /\ Len(s.obj) \in Nat /\ DOMAIN s.obj = 1 .. Len(s.obj)
         /\ \A i \in DOMAIN s.obj : s.obj[i] \in Mod
         /\ s.cache \in Table /\ s.sys \in Table
BY StoreFields DEF StoreOK

LEMMA TameSelf ==
  ASSUME NEW s, StoreOK(s)
  PROVE  Tame(s, s) /\ SameMarks(s, s)
<1>1. Len(s.obj) <= Len(s.obj)
  BY ObjDomain
<1>. QED  BY <1>1 DEF Tame, Evolves, NewAreNew, OldEntry, SameMarks

LEMMA TameTwice ==
  ASSUME NEW s, StoreOK(s), NEW t, NEW u, Tame(s, t), Tame(t, u)
  PROVE  Tame(s, u)
<1>1. /\ DOMAIN s.obj = 1 .. Len(s.obj) /\ DOMAIN t.obj = 1 .. Len(t.obj)
      /\ Len(s.obj) \in Nat /\ Len(t.obj) \in Nat /\ Len(u.obj) \in Nat
  BY ObjDomain DEF Tame
<1>2. Len(s.obj) <= Len(t.obj) /\ Len(t.obj) <= Len(u.obj)
  BY DEF Tame, Evolves
<1>3. DOMAIN s.obj \subseteq DOMAIN t.obj
  BY <1>1, <1>2
<1>4. Evolves(s, u)
  BY <1>1, <1>2, <1>3 DEF Tame, Evolves
<1>5. ASSUME Pruned(s) PROVE Pruned(u) /\ NewAreNew(s, u)
  <2>1. Pruned(t) /\ NewAreNew(s, t) /\ Pruned(u) /\ NewAreNew(t, u)
    BY <1>5 DEF Tame
  <2>2. ASSUME NEW n \in DOMAIN u.sys, ~OldEntry(s, u, n) PROVE u.sys[n] \notin DOMAIN s.obj
    BY <1>3, <2>1, <2>2 DEF NewAreNew, OldEntry
  <2>. QED  BY <2>1, <2>2 DEF NewAreNew
<1>. QED  BY <1>4, <1>5 DEF Tame

LEMMA SameMarksTwice ==
  ASSUME NEW s, StoreOK(s), NEW t, NEW u, Tame(s, t), SameMarks(s, t), SameMarks(t, u)
  PROVE  SameMarks(s, u)
<1>1. DOMAIN s.obj \subseteq DOMAIN t.obj
  <2>1. /\ DOMAIN s.obj = 1 .. Len(s.obj) /\ DOMAIN t.obj = 1 .. Len(t.obj)
        /\ Len(s.obj) \in Nat /\ Len(t.obj) \in Nat
    BY ObjDomain DEF Tame
  <2>2. Len(s.obj) <= Len(t.obj)
    BY DEF Tame, Evolves
  <2>. QED  BY <2>1, <2>2
<1>. QED  BY <1>1 DEF SameMarks

LEMMA RemovedTame ==
  ASSUME NEW s, StoreOK(s), NEW S, NEW t, IsRemoved(s, S, t)
  PROVE  Tame(s, t) /\ SameMarks(s, t)
<1>1. DOMAIN t.obj = DOMAIN s.obj /\ Len(s.obj) <= Len(t.obj)
  BY ObjDomain DEF IsRemoved
<1>2. Evolves(s, t) /\ SameMarks(s, t)
  BY <1>1 DEF IsRemoved, Evolves, SameMarks, SameBut
<1>3. Pruned(s) => Pruned(t) /\ NewAreNew(s, t)
  BY DEF IsRemoved, Pruned, NewAreNew, OldEntry
<1>. QED  BY <1>2, <1>3 DEF Tame, IsRemoved

LEMMA MarkedTame ==
  ASSUME NEW s, StoreOK(s), NEW t, IsMarked(s, t)
  PROVE  Tame(s, t)
<1>1. Len(s.obj) <= Len(t.obj)
  BY ObjDomain DEF IsMarked
<1>. QED  BY <1>1, MarkedOK DEF Tame, IsMarked, Evolves, Pruned, NewAreNew, OldEntry

LEMMA BoundTame ==
  ASSUME NEW s, StoreOK(s), NEW p, NEW n, NEW o, NEW t, IsBoundIn(s, p, n, o, t)
  PROVE  Tame(s, t) /\ SameMarks(s, t)
<1>1. DOMAIN t.obj = DOMAIN s.obj /\ Len(s.obj) <= Len(t.obj)
  BY ObjDomain DEF IsBoundIn
<1>. QED  BY <1>1 DEF Tame, IsBoundIn, Evolves, Pruned, NewAreNew, OldEntry, SameMarks, SameBut

LEMMA RegisteredTame ==
  ASSUME NEW s, StoreOK(s), NEW n \in Names, NEW m, ~m.init, NEW t, IsRegistered(s, n, m, t)
  PROVE  Tame(s, t) /\ SameMarks(s, t)
<1>1. /\ DOMAIN s.obj = 1 .. Len(s.obj) /\ DOMAIN t.obj = 1 .. Len(s.obj) + 1
      /\ Len(s.obj) \in Nat /\ Len(t.obj) = Len(s.obj) + 1
  BY ObjDomain DEF IsRegistered
<1>2. StoreOK(t)
  BY DEF IsRegistered
<1>3. Evolves(s, t)
  BY <1>1 DEF IsRegistered, Evolves
<1>4. SameMarks(s, t)
  <2>1. ASSUME NEW i \in DOMAIN t.obj PROVE t.obj[i].init <=> i \in DOMAIN s.obj /\ s.obj[i].init
    <3>1. CASE i = Len(s.obj) + 1
      BY <3>1, <1>1 DEF IsRegistered
    <3>2. CASE i # Len(s.obj) + 1
      <4>1. i \in DOMAIN s.obj
        BY <1>1, <3>2
      <4>. QED  BY <4>1 DEF IsRegistered
    <3>. QED  BY <3>1, <3>2
  <2>. QED  BY <2>1 DEF SameMarks
<1>5. ASSUME Pruned(s) PROVE Pruned(t) /\ NewAreNew(s, t)
  <2>1. Pruned(t)
    BY DEF IsRegistered, Pruned
  <2>2. ASSUME NEW k \in DOMAIN t.sys PROVE OldEntry(s, t, k) \/ t.sys[k] \notin DOMAIN s.obj
    <3>1. t.sys[k] = t.cache[k] /\ k \in DOMAIN s.cache \cup {n}
      BY <1>2 DEF IsRegistered, StoreOK, TablesOK
    <3>2. CASE k = n
      BY <3>1, <3>2, <1>1 DEF IsRegistered
    <3>3. CASE k # n
      <4>1. k \in DOMAIN s.cache /\ t.cache[k] = s.cache[k]
        BY <3>1, <3>3 DEF IsRegistered
      <4>2. k \in DOMAIN s.sys /\ s.sys[k] = s.cache[k]
        BY <1>5, <4>1 DEF Pruned, StoreOK, TablesOK
      <4>. QED  BY <3>1, <4>1, <4>2 DEF OldEntry
    <3>. QED  BY <3>2, <3>3
  <2>. QED  BY <2>1, <2>2 DEF NewAreNew
<1>. QED  BY <1>2, <1>3, <1>4, <1>5 DEF Tame

-----------------------------------------------------------------------------
(* link_module_chain *)

Grown(s, t) ==
  /\ \A k \in DOMAIN s.cache : k \in DOMAIN t.cache /\ t.cache[k] = s.cache[k]
  /\ DOMAIN s.sys \subseteq DOMAIN t.sys
  /\ \A i \in DOMAIN s.obj : SameBut(s.obj[i], t.obj[i])

IsLinked(s, n, o, t) ==
  /\ Tame(s, t) /\ SameMarks(s, t) /\ Grown(s, t)
  /\ ~Dotted(n) => t = s
  /\ Dotted(n) => Parent[n] \in DOMAIN t.cache
  /\ Dotted(n) /\ Parent[n] \in DOMAIN s.cache => IsBoundIn(s, s.cache[Parent[n]], n, o, t)

LEMMA EnsureIs ==
  ASSUME NEW s, StoreOK(s), NEW n \in Names
  PROVE  /\ Tame(s, EnsureModule(s, n)) /\ SameMarks(s, EnsureModule(s, n))
         /\ Grown(s, EnsureModule(s, n)) /\ n \in DOMAIN EnsureModule(s, n).cache
         /\ n \in DOMAIN s.cache => EnsureModule(s, n) = s
<1>1. CASE n \in DOMAIN s.cache
  <2>1. EnsureModule(s, n) = s
    BY <1>1 DEF EnsureModule, Has
  <2>. QED  BY <1>1, <2>1, TameSelf DEF Grown, SameBut
<1>2. CASE n \notin DOMAIN s.cache
  <2>1. PICK m : m = NewModule(n, FALSE)
    OBVIOUS
  <2>2. m \in Mod /\ m.name = n /\ DOMAIN m.kids = {} /\ ~m.init
    BY <2>1, NewModuleFacts
  <2>3. PICK t : t = EnsureModule(s, n)
    OBVIOUS
  <2>4. t = RegisterModule([s EXCEPT !.obj = Append(@, m)], n, Len(s.obj) + 1)
    BY <1>2, <2>1, <2>3 DEF EnsureModule, Has
  <2>5. IsRegistered(s, n, m, t)
    BY <2>2, <2>4, RegisterIs
  <2>6. Tame(s, t) /\ SameMarks(s, t)
    BY <2>2, <2>5, RegisteredTame
  <2>7. Grown(s, t) /\ n \in DOMAIN t.cache
    BY <1>2, <2>5 DEF IsRegistered, Grown, SameBut, StoreOK, TablesOK
  <2>. QED  BY <1>2, <2>3, <2>6, <2>7
<1>. QED  BY <1>1, <1>2

LEMMA ParentName ==
  ASSUME NEW n \in Names, Dotted(n)
  PROVE  Parent[n] \in Names /\ ~Dotted(Parent[n]) /\ Parent[n] # n
BY NamesAssumption DEF Dotted

LEMMA LinkIs ==
  ASSUME NEW s, StoreOK(s), NEW n \in Names, NEW o \in DOMAIN s.obj
  PROVE  IsLinked(s, n, o, LinkModuleChain(s, n, o))
<1>1. CASE ~Dotted(n)
  <2>1. LinkModuleChain(s, n, o) = s
    BY <1>1 DEF LinkModuleChain
  <2>. QED  BY <1>1, <2>1, TameSelf DEF IsLinked, Grown, SameBut
<1>2. CASE Dotted(n)
  <2>1. Parent[n] \in Names
    BY <1>2, ParentName
  <2>2. PICK u : u = EnsureModule(s, Parent[n])
    OBVIOUS
  <2>3. /\ Tame(s, u) /\ SameMarks(s, u) /\ Grown(s, u) /\ Parent[n] \in DOMAIN u.cache
        /\ Parent[n] \in DOMAIN s.cache => u = s
    BY <2>1, <2>2, EnsureIs
  <2>4. StoreOK(u)
    BY <2>3 DEF Tame
  <2>5. PICK p : p = u.cache[Parent[n]]
    OBVIOUS
  <2>6. p \in DOMAIN u.obj /\ u.obj[p].name = Parent[n]
    BY <2>3, <2>4, <2>5 DEF StoreOK, TablesOK
  <2>7. o \in DOMAIN u.obj
    <3>1. Len(s.obj) <= Len(u.obj)
      BY <2>3 DEF Tame, Evolves
    <3>2. DOMAIN s.obj = 1 .. Len(s.obj) /\ DOMAIN u.obj = 1 .. Len(u.obj) /\ Len(s.obj) \in Nat /\ Len(u.obj) \in Nat
      BY <2>4, ObjDomain
    <3>. QED  BY <3>1, <3>2
  <2>8. PICK t : t = LinkModuleChain(s, n, o)
    BY SMTT(60)
  <2>9. t = SetKid(u, p, n, o)
    BY <1>2, <2>2, <2>5, <2>8 DEF LinkModuleChain, SetKid
  <2>10. IsBoundIn(u, p, n, o, t)
    BY <2>4, <2>6, <2>7, <2>9, BoundIs
  <2>11. Tame(u, t) /\ SameMarks(u, t)
    BY <2>4, <2>10, BoundTame
  <2>12. Tame(s, t) /\ SameMarks(s, t)
    BY <2>3, <2>11, TameTwice, SameMarksTwice
  <2>13. Grown(s, t)
    <3>1. DOMAIN s.obj \subseteq DOMAIN u.obj
      <4>1. Len(s.obj) <= Len(u.obj)
        BY <2>3 DEF Tame, Evolves
      <4>2. DOMAIN s.obj = 1 .. Len(s.obj) /\ DOMAIN u.obj = 1 .. Len(u.obj) /\ Len(s.obj) \in Nat /\ Len(u.obj) \in Nat
        BY <2>4, ObjDomain
      <4>. QED  BY <4>1, <4>2
    <3>. QED  BY <2>3, <2>10, <3>1 DEF Grown, IsBoundIn, SameBut
  <2>14. Parent[n] \in DOMAIN t.cache
    BY <2>3, <2>10 DEF IsBoundIn
  <2>15. Parent[n] \in DOMAIN s.cache => IsBoundIn(s, s.cache[Parent[n]], n, o, t)
    BY <2>3, <2>5, <2>10
  <2>. QED  BY <1>2, <2>8, <2>12, <2>13, <2>14, <2>15 DEF IsLinked
<1>. QED  BY <1>1, <1>2

-----------------------------------------------------------------------------
(* load_module *)

IsCreated(s, n, t) ==
  \E u : /\ IsRegistered(s, n, NewModule(n, TRUE), u)
         /\ IsLinked(u, n, Len(s.obj) + 1, t)

Created(s, n) ==
  LinkModuleChain(RegisterModule([s EXCEPT !.obj = Append(@, NewModule(n, TRUE))], n, Len(s.obj) + 1),
                  n, Len(s.obj) + 1)

LEMMA CreateIs ==
  ASSUME NEW s, StoreOK(s), NEW n \in Names
  PROVE  IsCreated(s, n, Created(s, n))
<1>1. PICK m, u : m = NewModule(n, TRUE) /\ u = RegisterModule([s EXCEPT !.obj = Append(@, m)], n, Len(s.obj) + 1)
  OBVIOUS
<1>2. m \in Mod /\ m.name = n /\ DOMAIN m.kids = {}
  BY <1>1, NewModuleFacts
<1>3. IsRegistered(s, n, m, u)
  BY <1>1, <1>2, RegisterIs
<1>4. StoreOK(u) /\ Len(s.obj) + 1 \in DOMAIN u.obj
  <2>1. StoreOK(u) /\ Len(u.obj) = Len(s.obj) + 1
    BY <1>3 DEF IsRegistered
  <2>2. DOMAIN u.obj = 1 .. Len(u.obj) /\ Len(s.obj) \in Nat
    BY <2>1, ObjDomain
  <2>. QED  BY <2>1, <2>2
<1>5. IsLinked(u, n, Len(s.obj) + 1, LinkModuleChain(u, n, Len(s.obj) + 1))
  BY <1>4, LinkIs
<1>. QED  BY <1>1, <1>3, <1>5 DEF IsCreated, Created

LEMMA CreatedTame ==
  ASSUME NEW s, StoreOK(s), NEW n \in Names, NEW t, IsCreated(s, n, t)
  PROVE  /\ Tame(s, t) /\ SameMarks(s, t)
         /\ Len(s.obj) + 1 \in DOMAIN t.obj /\ t.obj[Len(s.obj) + 1].name = n
         /\ t.obj[Len(s.obj) + 1].st = "queued" /\ t.obj[Len(s.obj) + 1].loader
<1>1. PICK m, u : m = NewModule(n, TRUE) /\ IsRegistered(s, n, m, u) /\ IsLinked(u, n, Len(s.obj) + 1, t)
  BY DEF IsCreated
<1>2. m \in Mod /\ m.name = n /\ DOMAIN m.kids = {} /\ ~m.init /\ m.loader /\ m.st = "queued"
  BY <1>1, NewModuleFacts
<1>3. Tame(s, u) /\ SameMarks(s, u)
  BY <1>1, <1>2, RegisteredTame
<1>4. Tame(u, t) /\ SameMarks(u, t)
  BY <1>1 DEF IsLinked
<1>5. Tame(s, t) /\ SameMarks(s, t)
  BY <1>3, <1>4, TameTwice, SameMarksTwice
<1>6. Len(s.obj) + 1 \in DOMAIN u.obj /\ Len(s.obj) + 1 \in DOMAIN t.obj
  <2>1. StoreOK(u) /\ Len(u.obj) = Len(s.obj) + 1
    BY <1>1 DEF IsRegistered
  <2>2. DOMAIN u.obj = 1 .. Len(u.obj) /\ DOMAIN t.obj = 1 .. Len(t.obj) /\ Len(s.obj) \in Nat /\ Len(t.obj) \in Nat
    BY <2>1, <1>4, ObjDomain DEF Tame
  <2>3. Len(u.obj) <= Len(t.obj)
    BY <1>4 DEF Tame, Evolves
  <2>. QED  BY <2>1, <2>2, <2>3
<1>7. u.obj[Len(s.obj) + 1] = m
  BY <1>1 DEF IsRegistered
<1>8. SameBut(u.obj[Len(s.obj) + 1], t.obj[Len(s.obj) + 1])
  BY <1>1, <1>6 DEF IsLinked, Grown
<1>. QED  BY <1>2, <1>5, <1>6, <1>7, <1>8 DEF SameBut

-----------------------------------------------------------------------------
(* cleanup_failed_module_frame, for the frames that an exception unwinds *)

IsFailed(s, lost, t) ==
  /\ IsMarked(s, t)
  /\ \A i \in DOMAIN s.obj :
       /\ t.obj[i].init <=> s.obj[i].init /\ i \notin lost
       /\ t.obj[i].st = IF i \in lost THEN IF s.obj[i].st = "queued" THEN "dropped" ELSE "failed"
                        ELSE s.obj[i].st
       /\ i \notin lost => t.obj[i] = s.obj[i]

LEMMA FailedIs ==
  ASSUME NEW s, StoreOK(s), NEW lost
  PROVE  IsFailed(s, lost, FailedModules(s, lost))
<1>. DEFINE M(i) == IF i \in lost THEN FailedModule(s.obj[i]) ELSE s.obj[i]
            x == [i \in DOMAIN s.obj |-> M(i)]
<1>1. ASSUME NEW i \in DOMAIN s.obj
      PROVE  /\ M(i) \in Mod /\ M(i).name = s.obj[i].name /\ M(i).kids = s.obj[i].kids
             /\ M(i).loader = s.obj[i].loader
             /\ M(i).init <=> s.obj[i].init /\ i \notin lost
             /\ M(i).st = IF i \in lost THEN IF s.obj[i].st = "queued" THEN "dropped" ELSE "failed"
                          ELSE s.obj[i].st
             /\ i \notin lost => M(i) = s.obj[i]
  <2>1. s.obj[i] \in Mod
    BY ObjDomain
  <2>2. CASE i \in lost
    BY <2>1, <2>2 DEF FailedModule, Mod, States
  <2>3. CASE i \notin lost
    BY <2>1, <2>3
  <2>. QED  BY <2>2, <2>3
<1>2. [s EXCEPT !.obj = x] = FailedModules(s, lost)
  BY DEF FailedModules, StoreOK, StoreType
<1>. HIDE DEF M
<1>3. x \in Seq(Mod) /\ Len(x) = Len(s.obj) /\ \A i \in DOMAIN s.obj : x[i] = M(i)
  BY <1>1, ObjDomain
<1>. HIDE DEF x
<1>4. IsMarked(s, [s EXCEPT !.obj = x]) /\ [s EXCEPT !.obj = x].obj = x
  BY <1>1, <1>3, MarkedIs
<1>5. PICK t : t = FailedModules(s, lost)
  OBVIOUS
<1>6. IsMarked(s, t) /\ t.obj = x
  BY <1>2, <1>4, <1>5
<1>7. \A i \in DOMAIN s.obj : t.obj[i] = M(i)
  BY <1>3, <1>6
<1>8. IsFailed(s, lost, t)
  BY <1>1, <1>6, <1>7 DEF IsFailed
<1>. QED  BY <1>5, <1>8

IsCleaned(s, lost, t) ==
  \E u : IsFailed(s, lost, u) /\ IsRemoved(u, {s.obj[o].name : o \in lost}, t)

LEMMA CleanedIs ==
  ASSUME NEW s, StoreOK(s), NEW lost
  PROVE  IsCleaned(s, lost, CleanupFailedFrames(s, lost))
<1>1. PICK u : u = FailedModules(s, lost)
  OBVIOUS
<1>2. IsFailed(s, lost, u)
  BY <1>1, FailedIs
<1>3. StoreOK(u)
  BY <1>2, MarkedOK DEF IsFailed
<1>4. IsRemoved(u, {s.obj[o].name : o \in lost}, CleanupFailedFrames(s, lost))
  BY <1>1, <1>3, RemoveIs DEF CleanupFailedFrames
<1>. QED  BY <1>2, <1>4 DEF IsCleaned

LEMMA CleanedTame ==
  ASSUME NEW s, StoreOK(s), NEW lost, NEW t, IsCleaned(s, lost, t)
  PROVE  /\ Tame(s, t) /\ Len(t.obj) = Len(s.obj)
         /\ \A i \in DOMAIN t.obj : t.obj[i].init <=> s.obj[i].init /\ i \notin lost
<1>1. PICK u : IsFailed(s, lost, u) /\ IsRemoved(u, {s.obj[o].name : o \in lost}, t)
  BY DEF IsCleaned
<1>2. Tame(s, u) /\ StoreOK(u)
  BY <1>1, MarkedTame, MarkedOK DEF IsFailed
<1>3. Tame(u, t) /\ SameMarks(u, t)
  BY <1>1, <1>2, RemovedTame
<1>4. Len(u.obj) = Len(s.obj) /\ Len(t.obj) = Len(u.obj)
  BY <1>1 DEF IsFailed, IsMarked, IsRemoved
<1>5. DOMAIN u.obj = DOMAIN s.obj
  BY <1>2, <1>4, ObjDomain
<1>. QED  BY <1>1, <1>2, <1>3, <1>4, <1>5, TameTwice DEF IsFailed, SameMarks

-----------------------------------------------------------------------------
(* cleanup_failed_import *)

LEMMA FailedImportIs ==
  ASSUME NEW s, StoreOK(s), NEW n, NEW existing, NEW t \in CleanupFailedImport(s, n, existing)
  PROVE  \E S : /\ IsRemoved(s, S, t) /\ S \cap existing = {}
                /\ n \in DOMAIN s.cache \ existing => n \in S
<1>. DEFINE own == {m \in DOMAIN s.cache \ existing :
                      m = n \/ (Parent[m] = n /\ Uninitialized(s.obj[s.cache[m]]))}
<1>1. PICK s1 : s1 = RemoveModuleEntries(s, own)
  OBVIOUS
<1>2. PICK s2 : s2 = RemoveModuleEntries(s1, Partial(s1, existing))
  OBVIOUS
<1>3. t = s2 \/ t = RemoveModuleEntries(s2, Partial(s2, existing))
  BY <1>1, <1>2 DEF CleanupFailedImport
<1>4. own \cap existing = {} /\ (n \in DOMAIN s.cache \ existing => n \in own)
  OBVIOUS
<1>5. \A u : Partial(u, existing) \cap existing = {}
  BY DEF Partial
<1>. HIDE DEF own
<1>6. IsRemoved(s, own, s1) /\ StoreOK(s1)
  BY <1>1, RemoveIs DEF IsRemoved
<1>7. IsRemoved(s1, Partial(s1, existing), s2) /\ StoreOK(s2)
  BY <1>2, <1>6, RemoveIs DEF IsRemoved
<1>8. IsRemoved(s, own \cup Partial(s1, existing), s2)
  BY <1>6, <1>7, RemoveTwice, ObjDomain
<1>9. CASE t = s2
  BY <1>4, <1>5, <1>8, <1>9
<1>10. CASE t = RemoveModuleEntries(s2, Partial(s2, existing))
  <2>1. IsRemoved(s2, Partial(s2, existing), t)
    BY <1>7, <1>10, RemoveIs
  <2>2. IsRemoved(s, (own \cup Partial(s1, existing)) \cup Partial(s2, existing), t)
    BY <1>8, <2>1, RemoveTwice, ObjDomain
  <2>. QED  BY <1>4, <1>5, <2>2
<1>. QED  BY <1>3, <1>9, <1>10

FrameType == [obj : Nat, fresh : BOOLEAN, again : Instr \cup {NoInstr}, guard : BOOLEAN,
              got : SUBSET Nat, ran : SUBSET Names]

ImportType == [op : {"import"}, n : Names, sync : BOOLEAN, depth : Nat, existing : SUBSET Names,
               o : Nat, pc : {"start", "meta", "loaded", "again", "drained", "rescued"}]
LoadType == [op : {"load"}, n : Names, depth : Nat, pc : {"start", "parent", "drained"}]
InstrType == [op : {"instr"}, who : Nat \ {0}, i : Instr, o : Nat,
              pc : {"start", "deferred", "head", "imported", "sub"}]
RunType == [op : {"run"}, stop : Nat \ {0}]
CallType == ImportType \cup LoadType \cup InstrType \cup RunType

InstrOK(i) == i.a # NoName => i.k = "from" /\ Parent[i.a] = i.n

Named(s, o, n) == o \in DOMAIN s.obj /\ s.obj[o].name = n

FramesOK(s, fr) ==
  /\ fr \in Seq(FrameType) /\ fr # <<>>
  /\ fr[1].obj = 0 /\ fr[1].guard
  /\ \A i \in 2 .. Len(fr) : fr[i].obj \in DOMAIN s.obj
  /\ \A i, j \in 1 .. Len(fr) : fr[i].obj = fr[j].obj => i = j
  /\ \A i \in 1 .. Len(fr) : /\ fr[i].got \subseteq DOMAIN s.obj
                             /\ fr[i].again # NoInstr => InstrOK(fr[i].again)
  /\ \A i \in DOMAIN s.obj : s.obj[i].init <=> \E j \in 1 .. Len(fr) : fr[j].obj = i

(* The frame count when a call began, or the frame it works for. *)
Level(c) == IF c.op = "instr" THEN c.who ELSE IF c.op = "run" THEN c.stop ELSE c.depth
Waits(c) == c.op \in {"import", "load"} => c.pc # "start"

CallOK(s, c) ==
  /\ c.op = "import" /\ c.pc \in {"meta", "again"} => Dotted(c.n)
  /\ c.op = "import" /\ c.pc \in {"drained", "rescued"} => Named(s, c.o, c.n)
  /\ c.op = "load" /\ c.pc \in {"parent", "drained"} => Dotted(c.n)
  /\ c.op = "instr" => InstrOK(c.i)
  /\ c.op = "instr" /\ c.pc \in {"deferred", "head"} => Dotted(c.i.n) /\ c.i.k # "resolve"
  /\ c.op = "instr" /\ c.pc = "sub" => c.i.k = "from" /\ c.i.a # NoName /\ Named(s, c.o, c.i.n)

ImportedBy(callee, caller) ==
  \/ /\ caller.op = "import" /\ caller.pc \in {"meta", "again"} /\ callee.n = Parent[caller.n]
     /\ caller.pc = "meta" => callee.sync
  \/ /\ caller.op = "instr" /\ caller.pc \in {"deferred", "head"}
     /\ callee.n = Parent[caller.i.n] /\ ~callee.sync
  \/ /\ caller.op = "instr" /\ caller.pc = "imported"
     /\ callee.n = caller.i.n /\ (callee.sync <=> caller.i.k = "resolve")
  \/ caller.op = "instr" /\ caller.pc = "sub" /\ callee.n = caller.i.a /\ ~callee.sync

LoadedBy(callee, caller) ==
  \/ caller.op = "import" /\ caller.pc = "loaded" /\ callee.n = caller.n
  \/ caller.op = "load" /\ caller.pc = "parent" /\ callee.n = Parent[caller.n]

RunBy(callee, caller) ==
  /\ \/ caller.op = "import" /\ caller.pc \in {"drained", "rescued"}
     \/ caller.op = "load" /\ caller.pc = "drained"
  /\ callee.stop = caller.depth

CalledBy(callee, caller) ==
  \/ callee.op = "import" /\ ImportedBy(callee, caller)
  \/ callee.op = "load" /\ LoadedBy(callee, caller)
  \/ callee.op = "run" /\ RunBy(callee, caller)
  \/ callee.op = "instr" /\ caller.op = "run"

StackOK(s, lim, cs) ==
  /\ cs \in Seq(CallType)
  /\ \A i \in 1 .. Len(cs) : CallOK(s, cs[i])
  /\ \A i \in 2 .. Len(cs) : Waits(cs[i])
  /\ \A i \in 1 .. Len(cs) - 1 : CalledBy(cs[i], cs[i + 1])
  /\ cs # <<>> => cs[Len(cs)].op = "instr"
  /\ \A i, j \in 1 .. Len(cs) : i < j /\ Waits(cs[i]) => Level(cs[i]) >= Level(cs[j])
  /\ \A i \in 1 .. Len(cs) : Waits(cs[i]) => Level(cs[i]) \in 1 .. lim

Returned(s, r, n) == r.ok => Named(s, r.obj, n)

RetOK(s, cs, r) ==
  cs # <<>> =>
    LET c == cs[1] IN
    /\ c.op = "import" /\ c.pc = "loaded" => Returned(s, r, c.n)
    /\ c.op = "instr" /\ c.pc = "imported" => Returned(s, r, c.i.n)
    /\ c.op = "instr" /\ c.pc = "sub" => Returned(s, r, c.i.a)

(* Before the program's first import has pruned Vm.modules. *)
Early(lim, cs) ==
  /\ lim = 1
  /\ \/ cs = <<>>
     \/ Len(cs) = 1 /\ cs[1].op = "instr" /\ cs[1].pc = "start"
     \/ Len(cs) = 2 /\ cs[1].op = "import" /\ cs[1].pc = "start"

PrunedOK(s, lim, cs, cd) == cd.body.dels = {} => Early(lim, cs) \/ Pruned(s)

Core(s, fr, cs, r, cd) ==
  /\ StoreOK(s) /\ FramesOK(s, fr) /\ StackOK(s, Len(fr), cs) /\ RetOK(s, cs, r)
  /\ r \in [ok : BOOLEAN, obj : Nat] /\ cd \in ProgramType
  /\ PrunedOK(s, Len(fr), cs, cd)

CoreInv == Core(Store, bodies, calls, ret, prog)

EntriesAreNew == prog.body.dels = {} => NewAreNew(Store, Store')

-----------------------------------------------------------------------------
(* Frames *)

LEMMA FramesFacts ==
  ASSUME NEW s, NEW fr, FramesOK(s, fr)
  PROVE  /\ fr \in Seq(FrameType) /\ Len(fr) \in Nat \ {0} /\ DOMAIN fr = 1 .. Len(fr)
         /\ \A i \in 1 .. Len(fr) :
              /\ fr[i] \in FrameType /\ fr[i].obj \in Nat /\ fr[i].fresh \in BOOLEAN
              /\ fr[i].again \in Instr \cup {NoInstr} /\ fr[i].guard \in BOOLEAN
              /\ fr[i].got \in SUBSET Nat /\ fr[i].ran \in SUBSET Names
<1>1. fr \in Seq(FrameType) /\ fr # <<>>
  BY DEF FramesOK
<1>2. Len(fr) \in Nat \ {0} /\ DOMAIN fr = 1 .. Len(fr) /\ \A i \in 1 .. Len(fr) : fr[i] \in FrameType
  BY <1>1
<1>. QED  BY <1>1, <1>2 DEF FrameType

LEMMA FramesSame ==
  ASSUME NEW s, StoreOK(s), NEW t, Tame(s, t), SameMarks(s, t), NEW fr, FramesOK(s, fr)
  PROVE  FramesOK(t, fr)
<1>1. /\ DOMAIN s.obj = 1 .. Len(s.obj) /\ DOMAIN t.obj = 1 .. Len(t.obj)
      /\ Len(s.obj) \in Nat /\ Len(t.obj) \in Nat
  BY ObjDomain DEF Tame
<1>2. Len(s.obj) <= Len(t.obj)
  BY DEF Tame, Evolves
<1>3. DOMAIN s.obj \subseteq DOMAIN t.obj
  BY <1>1, <1>2
<1>4. ASSUME NEW j \in 1 .. Len(fr), fr[j].obj \in DOMAIN t.obj PROVE fr[j].obj \in DOMAIN s.obj
  <2>1. j # 1
    BY <1>1, <1>4 DEF FramesOK
  <2>2. j \in 2 .. Len(fr)
    BY <2>1, FramesFacts
  <2>. QED  BY <2>2 DEF FramesOK
<1>5. ASSUME NEW i \in DOMAIN t.obj PROVE t.obj[i].init <=> \E j \in 1 .. Len(fr) : fr[j].obj = i
  <2>1. CASE i \in DOMAIN s.obj
    BY <2>1 DEF SameMarks, FramesOK
  <2>2. CASE i \notin DOMAIN s.obj
    BY <2>2, <1>4 DEF SameMarks
  <2>. QED  BY <2>1, <2>2
<1>. QED  BY <1>3, <1>5 DEF FramesOK

(* A body's frame is queued on top. *)
LEMMA FramesQueue ==
  ASSUME NEW s, StoreOK(s), NEW t, StoreOK(t), Evolves(s, t), NEW fr, FramesOK(s, fr),
         NEW o \in DOMAIN t.obj, o \notin DOMAIN s.obj,
         \A i \in DOMAIN t.obj : t.obj[i].init <=> i = o \/ (i \in DOMAIN s.obj /\ s.obj[i].init)
  PROVE  /\ FramesOK(t, Append(fr, QueuedFrame(o))) /\ Len(Append(fr, QueuedFrame(o))) = Len(fr) + 1
         /\ Append(fr, QueuedFrame(o))[Len(fr) + 1] = QueuedFrame(o)
         /\ \A i \in 1 .. Len(fr) : Append(fr, QueuedFrame(o))[i] = fr[i]
<1>1. /\ DOMAIN s.obj = 1 .. Len(s.obj) /\ DOMAIN t.obj = 1 .. Len(t.obj)
      /\ Len(s.obj) \in Nat /\ Len(t.obj) \in Nat
  BY ObjDomain
<1>2. DOMAIN s.obj \subseteq DOMAIN t.obj /\ o \in Nat \ {0}
  BY <1>1 DEF Evolves
<1>3. QueuedFrame(o) \in FrameType /\ QueuedFrame(o).obj = o /\ QueuedFrame(o).got = {} /\ QueuedFrame(o).again = NoInstr
  BY <1>2 DEF QueuedFrame, FrameType
<1>4. PICK g : g = Append(fr, QueuedFrame(o))
  OBVIOUS
<1>5. /\ g \in Seq(FrameType) /\ Len(g) = Len(fr) + 1 /\ g # <<>> /\ g[Len(fr) + 1] = QueuedFrame(o)
      /\ \A i \in 1 .. Len(fr) : g[i] = fr[i]
  BY <1>3, <1>4, FramesFacts
<1>6. Len(fr) \in Nat \ {0} /\ 1 \in 1 .. Len(fr)
  BY FramesFacts
<1>7. \A i \in 1 .. Len(fr) : fr[i].obj # o
  <2>1. ASSUME NEW i \in 1 .. Len(fr), fr[i].obj = o PROVE FALSE
    <3>1. CASE i = 1
      BY <3>1, <2>1, <1>2 DEF FramesOK
    <3>2. CASE i # 1
      BY <3>2, <2>1, <1>6 DEF FramesOK
    <3>. QED  BY <3>1, <3>2
  <2>. QED  BY <2>1
<1>8. \A i \in 1 .. Len(g) : i = Len(fr) + 1 \/ i \in 1 .. Len(fr)
  BY <1>5, <1>6
<1>9. g[1].obj = 0 /\ g[1].guard
  BY <1>5, <1>6 DEF FramesOK
<1>10. \A i \in 2 .. Len(g) : g[i].obj \in DOMAIN t.obj
  <2>1. ASSUME NEW i \in 2 .. Len(g) PROVE g[i].obj \in DOMAIN t.obj
    <3>1. CASE i = Len(fr) + 1
      BY <3>1, <1>3, <1>5
    <3>2. CASE i # Len(fr) + 1
      BY <3>2, <1>2, <1>5, <1>6 DEF FramesOK
    <3>. QED  BY <3>1, <3>2
  <2>. QED  BY <2>1
<1>11. \A i, j \in 1 .. Len(g) : g[i].obj = g[j].obj => i = j
  BY <1>3, <1>5, <1>7, <1>8 DEF FramesOK
<1>12. \A i \in 1 .. Len(g) : /\ g[i].got \subseteq DOMAIN t.obj
                              /\ g[i].again # NoInstr => InstrOK(g[i].again)
  BY <1>2, <1>3, <1>5, <1>8 DEF FramesOK
<1>13. ASSUME NEW i \in DOMAIN t.obj PROVE t.obj[i].init <=> \E j \in 1 .. Len(g) : g[j].obj = i
  <2>1. CASE i = o
    <3>1. Len(fr) + 1 \in 1 .. Len(g)
      BY <1>5, <1>6
    <3>. QED  BY <2>1, <3>1, <1>3, <1>5
  <2>2. CASE i # o
    <3>1. t.obj[i].init <=> i \in DOMAIN s.obj /\ s.obj[i].init
      BY <2>2
    <3>2. (\E j \in 1 .. Len(g) : g[j].obj = i) <=> \E j \in 1 .. Len(fr) : fr[j].obj = i
      <4>1. \A j \in 1 .. Len(fr) : j \in 1 .. Len(g)
        BY <1>5, <1>6
      <4>. QED  BY <2>2, <4>1, <1>3, <1>5, <1>8
    <3>3. \A j \in 1 .. Len(fr) : fr[j].obj = i => i \in DOMAIN s.obj
      <4>1. \A j \in 1 .. Len(fr) : j = 1 \/ j \in 2 .. Len(fr)
        BY <1>6
      <4>2. i # 0
        BY <1>1
      <4>. QED  BY <4>1, <4>2 DEF FramesOK
    <3>. QED  BY <3>1, <3>2, <3>3 DEF FramesOK
  <2>. QED  BY <2>1, <2>2
<1>14. FramesOK(t, g)
  BY <1>5, <1>9, <1>10, <1>11, <1>12, <1>13 DEF FramesOK
<1>. QED  BY <1>4, <1>5, <1>14

(* Frames above the k-th go, and their modules lose their marks. *)
LEMMA FramesCut ==
  ASSUME NEW s, StoreOK(s), NEW t, StoreOK(t), Evolves(s, t), NEW fr, FramesOK(s, fr),
         NEW k \in 1 .. Len(fr),
         \A i \in DOMAIN t.obj : t.obj[i].init <=> /\ i \in DOMAIN s.obj /\ s.obj[i].init
                                                   /\ i \notin {fr[j].obj : j \in k + 1 .. Len(fr)}
  PROVE  /\ FramesOK(t, SubSeq(fr, 1, k)) /\ Len(SubSeq(fr, 1, k)) = k
         /\ \A i \in 1 .. k : SubSeq(fr, 1, k)[i] = fr[i]
<1>1. /\ DOMAIN s.obj = 1 .. Len(s.obj) /\ DOMAIN t.obj = 1 .. Len(t.obj)
      /\ Len(s.obj) \in Nat /\ Len(t.obj) \in Nat
  BY ObjDomain
<1>2. DOMAIN s.obj \subseteq DOMAIN t.obj
  BY <1>1 DEF Evolves
<1>3. PICK g : g = SubSeq(fr, 1, k)
  OBVIOUS
<1>4. Len(fr) \in Nat \ {0} /\ k \in Nat \ {0} /\ k <= Len(fr)
  BY FramesFacts
<1>5. g \in Seq(FrameType) /\ Len(g) = k /\ g # <<>> /\ \A i \in 1 .. k : g[i] = fr[i] /\ i \in 1 .. Len(fr)
  BY <1>3, <1>4, FramesFacts
<1>6. ASSUME NEW i \in DOMAIN t.obj PROVE t.obj[i].init <=> \E j \in 1 .. Len(g) : g[j].obj = i
  <2>1. \A j \in 1 .. Len(fr) : j \in 1 .. k \/ j \in k + 1 .. Len(fr)
    BY <1>4
  <2>2. \A j \in k + 1 .. Len(fr) : j \in 1 .. Len(fr) /\ j \notin 1 .. k
    BY <1>4
  <2>3. \A j \in 1 .. Len(fr) : fr[j].obj = i => i \in DOMAIN s.obj
    <3>1. \A j \in 1 .. Len(fr) : j = 1 \/ j \in 2 .. Len(fr)
      BY <1>4
    <3>2. i # 0
      BY <1>1
    <3>. QED  BY <3>1, <3>2 DEF FramesOK
  <2>4. ASSUME t.obj[i].init PROVE \E j \in 1 .. Len(g) : g[j].obj = i
    BY <1>5, <2>1, <2>4 DEF FramesOK
  <2>5. ASSUME NEW j \in 1 .. Len(g), g[j].obj = i PROVE t.obj[i].init
    <3>1. j \in 1 .. Len(fr) /\ fr[j].obj = i /\ j \in 1 .. k
      BY <1>5, <2>5
    <3>2. i \in DOMAIN s.obj /\ s.obj[i].init
      BY <2>3, <3>1 DEF FramesOK
    <3>3. i \notin {fr[l].obj : l \in k + 1 .. Len(fr)}
      BY <2>2, <3>1 DEF FramesOK
    <3>. QED  BY <3>2, <3>3
  <2>. QED  BY <2>4, <2>5
<1>7. g[1].obj = 0 /\ g[1].guard
  BY <1>4, <1>5 DEF FramesOK
<1>8. \A i \in 2 .. Len(g) : g[i].obj \in DOMAIN t.obj
  BY <1>2, <1>4, <1>5 DEF FramesOK
<1>9. FramesOK(t, g)
  BY SMTT(60), <1>2, <1>5, <1>6, <1>7, <1>8 DEF FramesOK
<1>. QED  BY <1>3, <1>5, <1>9

(* Native calls *)

LEMMA CallFields ==
  ASSUME NEW c \in CallType
  PROVE  /\ c.op \in {"import", "load", "instr", "run"}
         /\ c.op = "import" => c \in ImportType
         /\ c.op = "load" => c \in LoadType
         /\ c.op = "instr" => c \in InstrType
         /\ c.op = "run" => c \in RunType
         /\ Level(c) \in Nat
BY DEF CallType, ImportType, LoadType, InstrType, RunType, Level

IsConcat(a, b, c) ==
  /\ Len(c) = Len(a) + Len(b)
  /\ \A i \in 1 .. Len(a) + Len(b) : c[i] = IF i <= Len(a) THEN a[i] ELSE b[i - Len(a)]

LEMMA ConcatIs ==
  ASSUME NEW S, NEW a \in Seq(S), NEW b \in Seq(S)
  PROVE  a \o b \in Seq(S) /\ IsConcat(a, b, a \o b)
BY ConcatProperties DEF IsConcat

IsTwoOnTop(c, h, e, d) ==
  /\ Len(d) = Len(e) + 2 /\ d[1] = c /\ d[2] = h
  /\ \A i \in 1 .. Len(e) : d[i + 2] = e[i]

IsOnTop(c, e, d) == Len(d) = Len(e) + 1 /\ d[1] = c /\ \A i \in 1 .. Len(e) : d[i + 1] = e[i]

LEMMA TwoOnTopIs ==
  ASSUME NEW S, NEW c \in S, NEW h \in S, NEW e \in Seq(S)
  PROVE  <<c, h>> \o e \in Seq(S) /\ IsTwoOnTop(c, h, e, <<c, h>> \o e)
<1>1. PICK f : f = <<c, h>>
  OBVIOUS
<1>2. f \in Seq(S) /\ Len(f) = 2 /\ f[1] = c /\ f[2] = h
  BY <1>1
<1>3. PICK d : d = f \o e
  OBVIOUS
<1>4. d \in Seq(S) /\ IsConcat(f, e, d)
  BY <1>2, <1>3, ConcatIs
<1>5. Len(e) \in Nat
  OBVIOUS
<1>6. Len(d) = Len(e) + 2 /\ d[1] = c /\ d[2] = h
  <2>1. 1 \in 1 .. 2 + Len(e) /\ 2 \in 1 .. 2 + Len(e)
    BY <1>5
  <2>. QED  BY <1>2, <1>4, <1>5, <2>1 DEF IsConcat
<1>7. ASSUME NEW i \in 1 .. Len(e) PROVE d[i + 2] = e[i]
  <2>1. i + 2 \in 1 .. 2 + Len(e) /\ ~(i + 2 <= 2) /\ (i + 2) - 2 = i
    BY <1>5
  <2>. QED  BY <1>2, <1>4, <2>1 DEF IsConcat
<1>. QED  BY <1>1, <1>3, <1>4, <1>6, <1>7 DEF IsTwoOnTop

LEMMA OnTopIs ==
  ASSUME NEW S, NEW c \in S, NEW e \in Seq(S)
  PROVE  <<c>> \o e \in Seq(S) /\ IsOnTop(c, e, <<c>> \o e)
<1>1. PICK f : f = <<c>>
  OBVIOUS
<1>2. f \in Seq(S) /\ Len(f) = 1 /\ f[1] = c
  BY <1>1
<1>3. PICK d : d = f \o e
  OBVIOUS
<1>4. d \in Seq(S) /\ IsConcat(f, e, d)
  BY <1>2, <1>3, ConcatIs
<1>5. Len(e) \in Nat
  OBVIOUS
<1>6. Len(d) = Len(e) + 1 /\ d[1] = c
  <2>1. 1 \in 1 .. 1 + Len(e)
    BY <1>5
  <2>. QED  BY <1>2, <1>4, <1>5, <2>1 DEF IsConcat
<1>7. ASSUME NEW i \in 1 .. Len(e) PROVE d[i + 1] = e[i]
  <2>1. i + 1 \in 1 .. 1 + Len(e) /\ ~(i + 1 <= 1) /\ (i + 1) - 1 = i
    BY <1>5
  <2>. QED  BY <1>2, <1>4, <2>1 DEF IsConcat
<1>. QED  BY <1>1, <1>3, <1>4, <1>6, <1>7 DEF IsOnTop

LEMMA StackFacts ==
  ASSUME NEW s, NEW lim, NEW cs, StackOK(s, lim, cs)
  PROVE  /\ cs \in Seq(CallType) /\ Len(cs) \in Nat /\ DOMAIN cs = 1 .. Len(cs)
         /\ \A i \in 1 .. Len(cs) : cs[i] \in CallType
         /\ cs # <<>> => /\ Len(cs) >= 1 /\ 1 \in 1 .. Len(cs) /\ Head(cs) = cs[1]
                         /\ Tail(cs) \in Seq(CallType) /\ Len(Tail(cs)) = Len(cs) - 1
                         /\ \A i \in 1 .. Len(cs) - 1 : Tail(cs)[i] = cs[i + 1] /\ i + 1 \in 2 .. Len(cs)
BY DEF StackOK

LEMMA NamedStays ==
  ASSUME NEW s, StoreOK(s), NEW t, StoreOK(t), Evolves(s, t), NEW o, NEW n, Named(s, o, n)
  PROVE  Named(t, o, n)
<1>1. DOMAIN s.obj = 1 .. Len(s.obj) /\ DOMAIN t.obj = 1 .. Len(t.obj) /\ Len(s.obj) \in Nat /\ Len(t.obj) \in Nat
  BY ObjDomain
<1>. QED  BY <1>1 DEF Named, Evolves

LEMMA StackStays ==
  ASSUME NEW s, StoreOK(s), NEW t, StoreOK(t), Evolves(s, t), NEW lim \in Nat, NEW more \in Nat, lim <= more,
         NEW cs, StackOK(s, lim, cs)
  PROVE  StackOK(t, more, cs)
<1>1. \A i \in 1 .. Len(cs) : CallOK(t, cs[i])
  BY NamedStays DEF StackOK, CallOK
<1>2. \A i \in 1 .. Len(cs) : Waits(cs[i]) => Level(cs[i]) \in 1 .. more
  BY DEF StackOK
<1>. QED  BY <1>1, <1>2 DEF StackOK

LEMMA StackPop ==
  ASSUME NEW s, NEW lim, NEW cs, StackOK(s, lim, cs), cs # <<>>
  PROVE  /\ StackOK(s, lim, Tail(cs))
         /\ Tail(cs) = <<>> => cs[1].op = "instr"
         /\ Tail(cs) # <<>> => CalledBy(cs[1], Tail(cs)[1]) /\ Waits(Tail(cs)[1])
<1>1. PICK d : d = Tail(cs)
  OBVIOUS
<1>2. /\ d \in Seq(CallType) /\ Len(d) = Len(cs) - 1 /\ Len(cs) \in Nat /\ Len(cs) >= 1
      /\ \A i \in 1 .. Len(d) : d[i] = cs[i + 1] /\ i + 1 \in 2 .. Len(cs) /\ i + 1 \in 1 .. Len(cs)
  BY <1>1, StackFacts
<1>3. \A i \in 1 .. Len(d) : CallOK(s, d[i]) /\ Waits(d[i]) /\ (Waits(d[i]) => Level(d[i]) \in 1 .. lim)
  BY <1>2 DEF StackOK
<1>4. \A i \in 1 .. Len(d) - 1 : CalledBy(d[i], d[i + 1])
  <2>1. ASSUME NEW i \in 1 .. Len(d) - 1 PROVE CalledBy(d[i], d[i + 1])
    <3>1. i \in 1 .. Len(d) /\ i + 1 \in 1 .. Len(d) /\ i + 1 \in 1 .. Len(cs) - 1
      BY <1>2
    <3>. QED  BY <3>1, <1>2 DEF StackOK
  <2>. QED  BY <2>1
<1>5. d # <<>> => d[Len(d)].op = "instr"
  <2>1. ASSUME d # <<>> PROVE d[Len(d)].op = "instr"
    <3>1. Len(d) \in 1 .. Len(d) /\ Len(d) + 1 = Len(cs)
      BY <1>2, <2>1
    <3>. QED  BY <3>1, <1>2 DEF StackOK
  <2>. QED  BY <2>1
<1>6. \A i, j \in 1 .. Len(d) : i < j /\ Waits(d[i]) => Level(d[i]) >= Level(d[j])
  <2>1. ASSUME NEW i \in 1 .. Len(d), NEW j \in 1 .. Len(d), i < j, Waits(d[i]) PROVE Level(d[i]) >= Level(d[j])
    <3>1. i + 1 \in 1 .. Len(cs) /\ j + 1 \in 1 .. Len(cs) /\ i + 1 < j + 1
      BY <1>2, <2>1
    <3>. QED  BY <3>1, <2>1, <1>2 DEF StackOK
  <2>. QED  BY <2>1
<1>7. \A i \in 2 .. Len(d) : Waits(d[i])
  BY <1>3
<1>8. StackOK(s, lim, d)
  BY <1>2, <1>3, <1>4, <1>5, <1>6, <1>7 DEF StackOK
<1>9. d = <<>> => cs[1].op = "instr"
  <2>1. ASSUME d = <<>> PROVE cs[1].op = "instr"
    <3>1. Len(cs) = 1
      BY <1>2, <2>1
    <3>. QED  BY <3>1 DEF StackOK
  <2>. QED  BY <2>1
<1>10. d # <<>> => CalledBy(cs[1], d[1]) /\ Waits(d[1])
  <2>1. ASSUME d # <<>> PROVE CalledBy(cs[1], d[1]) /\ Waits(d[1])
    <3>1. 1 \in 1 .. Len(d) /\ 1 \in 1 .. Len(cs) - 1
      BY <1>2, <2>1
    <3>. QED  BY <3>1, <1>2, <1>3 DEF StackOK
  <2>. QED  BY <2>1
<1>. QED  BY <1>1, <1>8, <1>9, <1>10

(* The head, updated to h, calls c. *)
Becomes(c, h) ==
  /\ h.op = c.op
  /\ c.op = "import" => h.n = c.n /\ h.sync = c.sync
  /\ c.op = "load" => h.n = c.n

LEMMA BecomesCalled ==
  ASSUME NEW c, NEW h, NEW d, Becomes(c, h), CalledBy(c, d), c.op \in {"import", "load", "instr"}
  PROVE  CalledBy(h, d)
<1>1. CASE c.op = "import"
  BY <1>1 DEF Becomes, CalledBy, ImportedBy
<1>2. CASE c.op = "load"
  BY <1>2 DEF Becomes, CalledBy, LoadedBy
<1>3. CASE c.op = "instr"
  BY <1>3 DEF Becomes, CalledBy
<1>. QED  BY <1>1, <1>2, <1>3

LEMMA StackCall ==
  ASSUME NEW s, NEW lim \in Nat, NEW cs, StackOK(s, lim, cs), cs # <<>>,
         NEW h \in CallType, Becomes(cs[1], h), cs[1].op # "run", CallOK(s, h), Waits(h),
         (Level(h) = lim /\ lim > 0) \/ (Waits(cs[1]) /\ Level(h) = Level(cs[1])),
         NEW c \in CallType, CallOK(s, c), CalledBy(c, h), Waits(c) => Level(c) = Level(h)
  PROVE  /\ StackOK(s, lim, <<c, h>> \o Tail(cs)) /\ (<<c, h>> \o Tail(cs))[1] = c
         /\ (<<c, h>> \o Tail(cs))[2] = h /\ Len(<<c, h>> \o Tail(cs)) = Len(cs) + 1
         /\ \A i \in 2 .. Len(cs) : (<<c, h>> \o Tail(cs))[i + 1] = cs[i]
<1>1. PICK d : d = <<c, h>> \o Tail(cs)
  OBVIOUS
<1>2. /\ Len(cs) \in Nat /\ Len(cs) >= 1 /\ \A i \in 1 .. Len(cs) : cs[i] \in CallType
  BY StackFacts
<1>3. /\ d \in Seq(CallType) /\ Len(d) = Len(cs) + 1 /\ d # <<>> /\ d[1] = c /\ d[2] = h
      /\ \A i \in 2 .. Len(cs) : d[i + 1] = cs[i]
  <2>1. PICK e : e = Tail(cs)
    OBVIOUS
  <2>2. e \in Seq(CallType) /\ Len(e) = Len(cs) - 1 /\ \A i \in 1 .. Len(cs) - 1 : e[i] = cs[i + 1]
    BY <2>1, StackFacts
  <2>3. d \in Seq(CallType) /\ IsTwoOnTop(c, h, e, d)
    BY <1>1, <2>1, <2>2, TwoOnTopIs
  <2>4. ASSUME NEW i \in 2 .. Len(cs) PROVE d[i + 1] = cs[i]
    <3>1. i - 1 \in 1 .. Len(cs) - 1 /\ (i - 1) + 1 = i /\ (i - 1) + 2 = i + 1
      BY <1>2
    <3>. QED  BY <2>2, <2>3, <3>1 DEF IsTwoOnTop
  <2>5. d[1] = c /\ d[2] = h /\ Len(d) = Len(cs) + 1
    BY <1>2, <2>2, <2>3 DEF IsTwoOnTop
  <2>6. d # <<>>
    BY <1>2, <2>5
  <2>. QED  BY <2>3, <2>4, <2>5, <2>6
<1>4. \A i \in 1 .. Len(d) : i = 1 \/ i = 2 \/ (i - 1 \in 2 .. Len(cs) /\ i - 1 \in 1 .. Len(cs) /\ d[i] = cs[i - 1])
  <2>1. ASSUME NEW i \in 1 .. Len(d), i # 1, i # 2 PROVE i - 1 \in 2 .. Len(cs) /\ (i - 1) + 1 = i
    BY <1>2, <1>3, <2>1
  <2>. QED  BY <2>1, <1>3
<1>5. \A i \in 1 .. Len(d) : CallOK(s, d[i])
  BY <1>3, <1>4 DEF StackOK
<1>6. \A i \in 2 .. Len(d) : Waits(d[i]) /\ i \in 1 .. Len(d)
  <2>1. \A i \in 2 .. Len(d) : i \in 1 .. Len(d) /\ i # 1
    BY <1>3
  <2>. QED  BY <2>1, <1>3, <1>4 DEF StackOK
<1>7. \A i \in 1 .. Len(d) - 1 : CalledBy(d[i], d[i + 1])
  <2>1. ASSUME NEW i \in 1 .. Len(d) - 1 PROVE CalledBy(d[i], d[i + 1])
    <3>1. CASE i = 1
      BY <3>1, <1>3
    <3>2. CASE i = 2
      <4>1. 1 \in 1 .. Len(cs) - 1 /\ 2 \in 2 .. Len(cs)
        BY <1>2, <1>3, <3>2, <2>1
      <4>2. CalledBy(cs[1], cs[2]) /\ cs[1] \in CallType
        BY <1>2, <4>1 DEF StackOK
      <4>3. CalledBy(h, cs[2])
        BY <4>2, BecomesCalled, CallFields
      <4>. QED  BY <3>2, <4>1, <4>3, <1>3
    <3>3. CASE i # 1 /\ i # 2
      <4>1. i - 1 \in 2 .. Len(cs) /\ i - 1 \in 1 .. Len(cs) - 1 /\ i \in 2 .. Len(cs) /\ (i - 1) + 1 = i
        BY <1>2, <1>3, <3>3, <2>1
      <4>2. CalledBy(cs[i - 1], cs[i])
        BY <4>1 DEF StackOK
      <4>. QED  BY <4>1, <4>2, <1>3
    <3>. QED  BY <3>1, <3>2, <3>3
  <2>. QED  BY <2>1
<1>8. d[Len(d)].op = "instr"
  <2>1. CASE Len(cs) = 1
    BY <2>1, <1>3 DEF StackOK, Becomes
  <2>2. CASE Len(cs) # 1
    <3>1. Len(cs) \in 2 .. Len(cs)
      <4>1. PICK l : l = Len(cs)
        OBVIOUS
      <4>2. l \in Nat /\ l >= 1 /\ l # 1
        BY <4>1, <1>2, <2>2
      <4>3. l \in 2 .. l
        BY <4>2
      <4>. QED  BY <4>1, <4>3
    <3>. QED  BY <3>1, <1>3 DEF StackOK
  <2>. QED  BY <2>1, <2>2
<1>9. Level(h) \in 1 .. lim /\ \A i \in 2 .. Len(cs) : Level(h) >= Level(cs[i])
  <2>1. \A i \in 2 .. Len(cs) : Waits(cs[i]) /\ i \in 1 .. Len(cs) /\ 1 < i /\ Level(cs[i]) \in 1 .. lim
    BY <1>2 DEF StackOK
  <2>2. CASE Level(h) = lim /\ lim > 0
    BY <2>1, <2>2
  <2>3. CASE Waits(cs[1]) /\ Level(h) = Level(cs[1])
    <3>1. 1 \in 1 .. Len(cs)
      BY <1>2
    <3>. QED  BY <2>1, <2>3, <3>1 DEF StackOK
  <2>. QED  BY <2>2, <2>3
<1>10. \A i \in 1 .. Len(d) : Waits(d[i]) => Level(d[i]) \in 1 .. lim
  BY <1>3, <1>4, <1>9 DEF StackOK
<1>11. ASSUME NEW i \in 1 .. Len(d), NEW j \in 1 .. Len(d), i < j, Waits(d[i]) PROVE Level(d[i]) >= Level(d[j])
  <2>0. Level(h) \in Nat /\ Level(h) >= Level(h)
    BY CallFields
  <2>1. CASE i \in {1, 2}
    <3>1. Level(d[i]) = Level(h)
      BY <1>3, <1>11, <2>1
    <3>2. j = 2 \/ (j - 1 \in 2 .. Len(cs) /\ d[j] = cs[j - 1])
      BY <1>4, <1>11, <2>1
    <3>. QED  BY <1>3, <1>9, <2>0, <3>1, <3>2
  <2>2. CASE i \notin {1, 2}
    <3>1. /\ i - 1 \in 1 .. Len(cs) /\ d[i] = cs[i - 1]
      BY <1>4, <2>2
    <3>2. j # 1 /\ j # 2 /\ i - 1 < j - 1
      BY <1>3, <1>11, <2>2
    <3>3. j - 1 \in 1 .. Len(cs) /\ d[j] = cs[j - 1]
      BY <1>4, <3>2
    <3>. QED  BY <1>11, <3>1, <3>2, <3>3 DEF StackOK
  <2>. QED  BY <2>1, <2>2
<1>12. StackOK(s, lim, d)
  BY <1>3, <1>5, <1>6, <1>7, <1>8, <1>10, <1>11 DEF StackOK
<1>. QED  BY <1>1, <1>3, <1>12

(* An instruction starts in a run of the interpreter loop. *)
Pushed(lim, i, cs) == <<InstrCall(lim, i)>> \o cs

IsPushed(s, lim, i, cs, d) ==
  StackOK(s, lim, d) /\ d[1] = InstrCall(lim, i) /\ Len(d) = Len(cs) + 1

LEMMA StackPush ==
  ASSUME NEW s, NEW lim \in Nat \ {0}, NEW cs, StackOK(s, lim, cs), cs # <<>> => cs[1].op = "run",
         NEW i \in Instr, InstrOK(i)
  PROVE  IsPushed(s, lim, i, cs, Pushed(lim, i, cs))
<1>1. PICK c : c = InstrCall(lim, i)
  OBVIOUS
<1>2. /\ c \in CallType /\ c.op = "instr" /\ c.who = lim /\ c.i = i /\ c.pc = "start"
      /\ CallOK(s, c) /\ Waits(c) /\ Level(c) = lim
  BY <1>1 DEF InstrCall, CallType, InstrType, CallOK, Waits, Level
<1>3. Len(cs) \in Nat /\ cs \in Seq(CallType)
  BY StackFacts
<1>4. PICK d : d = <<c>> \o cs
  OBVIOUS
<1>5. /\ d \in Seq(CallType) /\ Len(d) = Len(cs) + 1 /\ d # <<>> /\ d[1] = c
      /\ \A j \in 1 .. Len(cs) : d[j + 1] = cs[j]
  <2>1. d \in Seq(CallType) /\ IsOnTop(c, cs, d)
    BY <1>2, <1>3, <1>4, OnTopIs
  <2>2. d # <<>>
    BY <1>3, <2>1 DEF IsOnTop
  <2>. QED  BY <2>1, <2>2 DEF IsOnTop
<1>6. \A j \in 1 .. Len(d) : j = 1 \/ (j - 1 \in 1 .. Len(cs) /\ d[j] = cs[j - 1])
  <2>1. ASSUME NEW j \in 1 .. Len(d), j # 1 PROVE j - 1 \in 1 .. Len(cs) /\ (j - 1) + 1 = j
    BY <1>3, <1>5, <2>1
  <2>. QED  BY <2>1, <1>5
<1>7. \A j \in 1 .. Len(cs) : CallOK(s, cs[j]) /\ Waits(cs[j]) /\ Level(cs[j]) \in 1 .. lim
  <2>1. ASSUME NEW j \in 1 .. Len(cs) PROVE Waits(cs[j])
    <3>1. CASE j = 1
      BY <3>1, <2>1, <1>3 DEF Waits
    <3>2. CASE j # 1
      BY <3>2, <1>3 DEF StackOK
    <3>. QED  BY <3>1, <3>2
  <2>. QED  BY <2>1 DEF StackOK
<1>8. \A j \in 1 .. Len(d) : CallOK(s, d[j]) /\ Waits(d[j]) /\ Level(d[j]) \in 1 .. lim
  BY SMTT(60), <1>2, <1>5, <1>6, <1>7
<1>9. \A j \in 1 .. Len(d) - 1 : CalledBy(d[j], d[j + 1])
  <2>1. ASSUME NEW j \in 1 .. Len(d) - 1 PROVE CalledBy(d[j], d[j + 1])
    <3>1. j \in 1 .. Len(cs) /\ cs # <<>>
      BY <1>3, <1>5
    <3>2. CASE j = 1
      BY <3>1, <3>2, <1>2, <1>5 DEF CalledBy
    <3>3. CASE j # 1
      <4>1. j - 1 \in 1 .. Len(cs) - 1 /\ (j - 1) + 1 = j /\ d[j] = cs[j - 1] /\ d[j + 1] = cs[j]
        BY <3>1, <3>3, <1>3, <1>5
      <4>2. CalledBy(cs[j - 1], cs[j])
        BY <4>1 DEF StackOK
      <4>. QED  BY <4>1, <4>2
    <3>. QED  BY <3>2, <3>3
  <2>. QED  BY <2>1
<1>10. d[Len(d)].op = "instr"
  <2>1. CASE Len(cs) = 0
    BY <2>1, <1>2, <1>5
  <2>2. CASE Len(cs) # 0
    <3>1. Len(cs) \in 1 .. Len(cs) /\ cs # <<>>
      BY <1>3, <2>2
    <3>. QED  BY <3>1, <1>5 DEF StackOK
  <2>. QED  BY <2>1, <2>2
<1>11. ASSUME NEW j \in 1 .. Len(d), NEW k \in 1 .. Len(d), j < k, Waits(d[j]) PROVE Level(d[j]) >= Level(d[k])
  <2>1. CASE j = 1
    <3>1. Level(d[k]) \in 1 .. lim /\ Level(d[j]) = lim
      BY <1>2, <1>5, <1>8, <2>1
    <3>. QED  BY <3>1
  <2>2. CASE j # 1
    <3>1. j - 1 \in 1 .. Len(cs) /\ d[j] = cs[j - 1] /\ k # 1 /\ j - 1 < k - 1
      BY <1>5, <1>6, <1>11, <2>2
    <3>2. k - 1 \in 1 .. Len(cs) /\ d[k] = cs[k - 1]
      BY <1>6, <3>1
    <3>. QED  BY <1>11, <3>1, <3>2 DEF StackOK
  <2>. QED  BY <2>1, <2>2
<1>12. \A j \in 2 .. Len(d) : j \in 1 .. Len(d)
  BY <1>5
<1>13. StackOK(s, lim, d)
  BY <1>5, <1>8, <1>9, <1>10, <1>11, <1>12 DEF StackOK
<1>14. IsPushed(s, lim, i, cs, d)
  BY <1>1, <1>5, <1>13 DEF IsPushed
<1>. QED  BY <1>1, <1>4, <1>14 DEF Pushed

(* Frames may go down to the stop depth of the innermost run. *)
LEMMA StackCut ==
  ASSUME NEW s, NEW lim \in Nat, NEW cs, StackOK(s, lim, cs), NEW k \in Nat,
         cs # <<>> => cs[1].op = "run" /\ cs[1].stop <= k
  PROVE  StackOK(s, k, cs)
<1>1. Len(cs) \in Nat /\ \A i \in 1 .. Len(cs) : cs[i] \in CallType /\ Level(cs[i]) \in Nat
  BY StackFacts, CallFields
<1>2. ASSUME NEW i \in 1 .. Len(cs), Waits(cs[i]) PROVE Level(cs[i]) \in 1 .. k
  <2>1. cs # <<>> /\ 1 \in 1 .. Len(cs)
    BY <1>1
  <2>2. cs[1].op = "run" /\ cs[1].stop <= k
    BY <2>1
  <2>3. Waits(cs[1]) /\ Level(cs[1]) <= k
    BY <2>2 DEF Waits, Level
  <2>4. Level(cs[1]) >= Level(cs[i])
    <3>1. CASE i = 1
      BY <3>1, <1>1
    <3>2. CASE i # 1
      BY <3>2, <2>1, <2>3, <1>1 DEF StackOK
    <3>. QED  BY <3>1, <3>2
  <2>5. Level(cs[i]) \in 1 .. lim
    BY <1>2 DEF StackOK
  <2>6. Level(cs[1]) \in Nat /\ Level(cs[i]) \in Nat
    BY <1>1, <2>1
  <2>. QED  BY <2>3, <2>4, <2>5, <2>6
<1>. QED  BY <1>2 DEF StackOK

LEMMA CacheOnly ==
  ASSUME NEW s, StoreOK(s), NEW f \in Table, DOMAIN s.sys \subseteq DOMAIN f, DOMAIN f \subseteq DOMAIN s.cache,
         \A n \in DOMAIN f : f[n] = s.cache[n],
         NEW t, t = [cache |-> f, sys |-> s.sys, obj |-> s.obj]
  PROVE  /\ Tame(s, t) /\ SameMarks(s, t) /\ NewAreNew(s, t)
<1>1. t \in StoreType
  BY ObjDomain DEF StoreType
<1>2. t.cache = f /\ t.sys = s.sys /\ t.obj = s.obj
  OBVIOUS
<1>3. StoreOK(t)
  BY <1>1, <1>2 DEF StoreOK, TablesOK, KidsOK
<1>4. Evolves(s, t) /\ SameMarks(s, t)
  <2>1. Len(s.obj) <= Len(s.obj)
    BY ObjDomain
  <2>. QED  BY <1>2, <2>1 DEF Evolves, SameMarks
<1>5. NewAreNew(s, t)
  BY <1>2 DEF NewAreNew, OldEntry
<1>6. Pruned(s) => Pruned(t)
  BY <1>2 DEF Pruned
<1>. QED  BY <1>3, <1>4, <1>5, <1>6 DEF Tame

LEMMA SysDrop ==
  ASSUME NEW s, StoreOK(s), NEW S, NEW t, t = [s EXCEPT !.sys = Drop(@, S)]
  PROVE  /\ StoreOK(t) /\ Evolves(s, t) /\ SameMarks(s, t) /\ NewAreNew(s, t)
         /\ t.cache = s.cache /\ t.obj = s.obj /\ IsDrop(s.sys, S, t.sys)
<1>1. PICK g : g = Drop(s.sys, S)
  OBVIOUS
<1>2. IsDrop(s.sys, S, g)
  BY <1>1, ObjDomain, DropIs
<1>3. t.cache = s.cache /\ t.sys = g /\ t.obj = s.obj /\ t \in StoreType
  BY <1>1, <1>2 DEF StoreOK, StoreType, IsDrop
<1>4. StoreOK(t)
  BY <1>2, <1>3 DEF StoreOK, TablesOK, KidsOK, IsDrop
<1>5. Evolves(s, t) /\ SameMarks(s, t)
  <2>1. Len(s.obj) <= Len(s.obj)
    BY ObjDomain
  <2>. QED  BY <1>3, <2>1 DEF Evolves, SameMarks
<1>6. NewAreNew(s, t)
  BY <1>2, <1>3 DEF NewAreNew, OldEntry, IsDrop
<1>. QED  BY <1>2, <1>3, <1>4, <1>5, <1>6

LEMMA SysPut ==
  ASSUME NEW s, StoreOK(s), NEW n \in DOMAIN s.cache, NEW t,
         t = [s EXCEPT !.cache = Put(@, n, s.cache[n]), !.sys = Put(@, n, s.cache[n])]
  PROVE  Tame(s, t) /\ SameMarks(s, t) /\ n \in DOMAIN t.cache /\ t.cache[n] = s.cache[n]
<1>1. s.cache \in Table /\ s.sys \in Table /\ n \in Names /\ s.cache[n] \in Nat
  BY ObjDomain, TableFields
<1>2. Put(s.cache, n, s.cache[n]) = s.cache
  BY <1>1, PutSame
<1>3. PICK g : g = Put(s.sys, n, s.cache[n])
  OBVIOUS
<1>4. IsPut(s.sys, n, s.cache[n], g)
  BY <1>1, <1>3, PutIs
<1>5. t.cache = s.cache /\ t.sys = g /\ t.obj = s.obj /\ t \in StoreType
  BY <1>2, <1>3, <1>4 DEF StoreOK, StoreType, IsPut
<1>6. StoreOK(t)
  BY <1>4, <1>5 DEF StoreOK, TablesOK, KidsOK, IsPut
<1>7. Evolves(s, t) /\ SameMarks(s, t)
  <2>1. Len(s.obj) <= Len(s.obj)
    BY ObjDomain
  <2>. QED  BY <1>5, <2>1 DEF Evolves, SameMarks
<1>8. ASSUME Pruned(s) PROVE Pruned(t) /\ NewAreNew(s, t)
  <2>1. n \in DOMAIN s.sys /\ s.sys[n] = s.cache[n]
    BY <1>8 DEF Pruned, StoreOK, TablesOK
  <2>2. DOMAIN g = DOMAIN s.sys /\ \A k \in DOMAIN g : g[k] = s.sys[k]
    BY <1>4, <2>1 DEF IsPut
  <2>. QED  BY <1>5, <1>8, <2>2 DEF Pruned, NewAreNew, OldEntry
<1>. QED  BY <1>5, <1>6, <1>7, <1>8 DEF Tame

-----------------------------------------------------------------------------
(* What the invariant becomes, by what happens to the calls. *)

PrunedIf(cd, s) == cd.body.dels = {} => Pruned(s)

LEMMA CoreReturn ==
  ASSUME NEW s, NEW fr, NEW cs, NEW r, NEW cd, Core(s, fr, cs, r, cd), cs # <<>>,
         NEW t, Tame(s, t), SameMarks(s, t), PrunedIf(cd, t),
         NEW o, cs[1].op \in {"import", "load"}, Named(t, o, cs[1].n)
  PROVE  Core(t, fr, Tail(cs), [ok |-> TRUE, obj |-> o], cd)
<1>1. StoreOK(s) /\ FramesOK(s, fr) /\ StackOK(s, Len(fr), cs) /\ cd \in ProgramType
  BY DEF Core
<1>2. StoreOK(t) /\ FramesOK(t, fr) /\ o \in Nat
  BY <1>1, FramesSame, ObjDomain DEF Tame, Named
<1>3. StackOK(t, Len(fr), Tail(cs))
  <2>1. Len(fr) \in Nat /\ Len(fr) <= Len(fr)
    BY <1>1, FramesFacts
  <2>. QED  BY <1>1, <1>2, <2>1, StackPop, StackStays DEF Tame
<1>4. RetOK(t, Tail(cs), [ok |-> TRUE, obj |-> o])
  <2>1. CASE Tail(cs) = <<>>
    BY <2>1 DEF RetOK
  <2>2. CASE Tail(cs) # <<>>
    <3>1. PICK d : d = Tail(cs)[1]
      OBVIOUS
    <3>2. CalledBy(cs[1], d)
      BY <1>1, <2>2, <3>1, StackPop
    <3>3. /\ d.op = "import" /\ d.pc = "loaded" => Named(t, o, d.n)
          /\ d.op = "instr" /\ d.pc = "imported" => Named(t, o, d.i.n)
          /\ d.op = "instr" /\ d.pc = "sub" => Named(t, o, d.i.a)
      BY <3>2 DEF CalledBy, ImportedBy, LoadedBy
    <3>. QED  BY <3>1, <3>3 DEF RetOK, Returned
  <2>. QED  BY <2>1, <2>2
<1>. QED  BY <1>1, <1>2, <1>3, <1>4 DEF Core, PrunedOK, PrunedIf

LEMMA CoreFail ==
  ASSUME NEW s, NEW fr, NEW cs, NEW r, NEW cd, Core(s, fr, cs, r, cd), cs # <<>>,
         NEW t, Tame(s, t), SameMarks(s, t), PrunedIf(cd, t)
  PROVE  Core(t, fr, Tail(cs), Err, cd)
<1>1. StoreOK(s) /\ FramesOK(s, fr) /\ StackOK(s, Len(fr), cs) /\ cd \in ProgramType
  BY DEF Core
<1>2. StoreOK(t) /\ FramesOK(t, fr)
  BY <1>1, FramesSame DEF Tame
<1>3. StackOK(t, Len(fr), Tail(cs))
  <2>1. Len(fr) \in Nat /\ Len(fr) <= Len(fr)
    BY <1>1, FramesFacts
  <2>. QED  BY <1>1, <1>2, <2>1, StackPop, StackStays DEF Tame
<1>4. RetOK(t, Tail(cs), Err) /\ Err \in [ok : BOOLEAN, obj : Nat]
  BY DEF RetOK, Returned, Err
<1>. QED  BY <1>1, <1>2, <1>3, <1>4 DEF Core, PrunedOK, PrunedIf

(* A call that leaves the run of the interpreter loop, or a run that its    *)
(* caller goes on after.                                                    *)
LEMMA CoreBack ==
  ASSUME NEW s, NEW fr, NEW cs, NEW r, NEW cd, Core(s, fr, cs, r, cd), cs # <<>>,
         cs[1].op \in {"instr", "run"},
         NEW t, Tame(s, t), SameMarks(s, t), PrunedIf(cd, t),
         NEW g, FramesOK(t, g), Len(g) = Len(fr)
  PROVE  Core(t, g, Tail(cs), NoRet, cd)
<1>1. StoreOK(s) /\ FramesOK(s, fr) /\ StackOK(s, Len(fr), cs) /\ cd \in ProgramType
  BY DEF Core
<1>2. StoreOK(t)
  BY DEF Tame
<1>3. StackOK(t, Len(g), Tail(cs))
  <2>1. Len(fr) \in Nat /\ Len(fr) <= Len(fr)
    BY <1>1, FramesFacts
  <2>. QED  BY <1>1, <1>2, <2>1, StackPop, StackStays DEF Tame
<1>4. RetOK(t, Tail(cs), NoRet)
  <2>1. CASE Tail(cs) = <<>>
    BY <2>1 DEF RetOK
  <2>2. CASE Tail(cs) # <<>>
    <3>1. CalledBy(cs[1], Tail(cs)[1])
      BY <1>1, <2>2, StackPop
    <3>2. cs[1].op = "run" => Tail(cs)[1].pc \in {"drained", "rescued"}
      BY <3>1 DEF CalledBy, RunBy
    <3>3. cs[1].op = "instr" => Tail(cs)[1].op = "run"
      BY <3>1 DEF CalledBy
    <3>4. cs[1].op = "run" => Tail(cs)[1].op \in {"import", "load"}
      BY <3>1 DEF CalledBy, RunBy
    <3>. QED  BY <3>2, <3>3, <3>4 DEF RetOK
  <2>. QED  BY <2>1, <2>2
<1>5. NoRet \in [ok : BOOLEAN, obj : Nat]
  BY DEF NoRet
<1>. QED  BY <1>1, <1>2, <1>3, <1>4, <1>5 DEF Core, PrunedOK, PrunedIf

Starts(c) == c.op = "run" \/ c.pc = "start"

LEMMA CoreCall ==
  ASSUME NEW s, NEW fr, NEW cs, NEW r, NEW cd, Core(s, fr, cs, r, cd), cs # <<>>,
         NEW t, Tame(s, t), SameMarks(s, t),
         PrunedIf(cd, t) \/ (Early(Len(fr), cs) /\ cs[1].op = "instr" /\ Len(cs) = 1 /\ t = s),
         NEW h \in CallType, Becomes(cs[1], h), cs[1].op # "run", CallOK(t, h), Waits(h),
         Level(h) = Len(fr) \/ (Waits(cs[1]) /\ Level(h) = Level(cs[1])),
         NEW c \in CallType, CallOK(t, c), CalledBy(c, h), Waits(c) => Level(c) = Level(h), Starts(c),
         PrunedIf(cd, t) \/ c.op = "import"
  PROVE  Core(t, fr, <<c, h>> \o Tail(cs), NoRet, cd)
<1>1. StoreOK(s) /\ FramesOK(s, fr) /\ StackOK(s, Len(fr), cs) /\ cd \in ProgramType
  BY DEF Core
<1>2. StoreOK(t) /\ FramesOK(t, fr)
  BY <1>1, FramesSame DEF Tame
<1>3. Len(fr) \in Nat /\ Len(fr) <= Len(fr) /\ Len(fr) > 0
  BY <1>1, FramesFacts
<1>4. StackOK(t, Len(fr), cs)
  BY <1>1, <1>2, <1>3, StackStays DEF Tame
<1>5. PICK d : d = <<c, h>> \o Tail(cs)
  OBVIOUS
<1>6. StackOK(t, Len(fr), d) /\ d[1] = c /\ Len(d) = Len(cs) + 1
  BY <1>3, <1>4, <1>5, StackCall
<1>7. RetOK(t, d, NoRet) /\ NoRet \in [ok : BOOLEAN, obj : Nat]
  BY <1>6 DEF RetOK, NoRet, Starts
<1>8. PrunedOK(t, Len(fr), d, cd)
  <2>1. CASE PrunedIf(cd, t)
    BY <2>1 DEF PrunedOK, PrunedIf
  <2>2. CASE ~PrunedIf(cd, t)
    <3>1. Early(Len(fr), d)
      <4>1. Len(fr) = 1 /\ Len(cs) = 1
        BY <2>2 DEF Early
      <4>2. c.op = "import" /\ c.pc = "start"
        BY <2>2 DEF Starts
      <4>3. Len(d) = 2
        BY <4>1, <1>6
      <4>. QED  BY <4>1, <4>2, <4>3, <1>6 DEF Early
    <3>. QED  BY <3>1 DEF PrunedOK
  <2>. QED  BY <2>1, <2>2
<1>. QED  BY <1>1, <1>2, <1>5, <1>6, <1>7, <1>8 DEF Core

-----------------------------------------------------------------------------
(* The state. *)

LEMMA StoreIs ==
  /\ Store.cache = cache /\ Store.sys = sysmods /\ Store.obj = obj
  /\ Store'.cache = cache' /\ Store'.sys = sysmods' /\ Store'.obj = obj'
BY DEF Store

LEMMA StoreSet ==
  ASSUME NEW s \in StoreType, SetStore(s)
  PROVE  Store' = s
BY DEF SetStore, Store, StoreType

LEMMA StoreKept ==
  ASSUME UNCHANGED <<cache, sysmods, obj>>
  PROVE  Store' = Store
BY DEF Store

LEMMA CoreFacts ==
  ASSUME CoreInv
  PROVE  /\ StoreOK(Store) /\ FramesOK(Store, bodies) /\ StackOK(Store, Len(bodies), calls)
         /\ RetOK(Store, calls, ret) /\ PrunedOK(Store, Len(bodies), calls, prog)
         /\ ret \in [ok : BOOLEAN, obj : Nat] /\ prog \in ProgramType
         /\ Len(bodies) \in Nat \ {0}
BY FramesFacts DEF CoreInv, Core

LEMMA AtImport ==
  ASSUME CoreInv, NEW pc, At("import", pc)
  PROVE  /\ calls # <<>> /\ Head(calls) = calls[1] /\ calls[1] \in ImportType /\ calls[1] \in CallType
         /\ calls[1].op = "import" /\ calls[1].pc = pc /\ CallOK(Store, calls[1])
         /\ pc # "start" => PrunedIf(prog, Store)
         /\ pc # "start" => Level(calls[1]) \in 1 .. Len(bodies) /\ Level(calls[1]) = calls[1].depth
<1>1. calls # <<>> /\ Head(calls).op = "import" /\ Head(calls).pc = pc
  BY DEF At
<1>2. Head(calls) = calls[1] /\ calls[1] \in CallType /\ 1 \in 1 .. Len(calls)
  BY <1>1, CoreFacts, StackFacts
<1>3. calls[1] \in ImportType /\ CallOK(Store, calls[1])
  BY <1>1, <1>2, CoreFacts, CallFields DEF StackOK
<1>4. pc # "start" => PrunedIf(prog, Store)
  BY <1>1, <1>2, CoreFacts DEF PrunedOK, PrunedIf, Early
<1>5. pc # "start" => Level(calls[1]) \in 1 .. Len(bodies) /\ Level(calls[1]) = calls[1].depth
  BY <1>1, <1>2, CoreFacts DEF StackOK, Waits, Level
<1>. QED  BY <1>1, <1>2, <1>3, <1>4, <1>5

LEMMA AtLoad ==
  ASSUME CoreInv, NEW pc, At("load", pc)
  PROVE  /\ calls # <<>> /\ Head(calls) = calls[1] /\ calls[1] \in LoadType /\ calls[1] \in CallType
         /\ calls[1].op = "load" /\ calls[1].pc = pc /\ CallOK(Store, calls[1])
         /\ PrunedIf(prog, Store)
         /\ pc # "start" => Level(calls[1]) \in 1 .. Len(bodies) /\ Level(calls[1]) = calls[1].depth
<1>1. calls # <<>> /\ Head(calls).op = "load" /\ Head(calls).pc = pc
  BY DEF At
<1>2. Head(calls) = calls[1] /\ calls[1] \in CallType /\ 1 \in 1 .. Len(calls)
  BY <1>1, CoreFacts, StackFacts
<1>3. calls[1] \in LoadType /\ CallOK(Store, calls[1])
  BY <1>1, <1>2, CoreFacts, CallFields DEF StackOK
<1>4. PrunedIf(prog, Store)
  BY <1>1, <1>2, CoreFacts DEF PrunedOK, PrunedIf, Early
<1>5. pc # "start" => Level(calls[1]) \in 1 .. Len(bodies) /\ Level(calls[1]) = calls[1].depth
  BY <1>1, <1>2, CoreFacts DEF StackOK, Waits, Level
<1>. QED  BY <1>1, <1>2, <1>3, <1>4, <1>5

LEMMA AtInstr ==
  ASSUME CoreInv, NEW pc, At("instr", pc)
  PROVE  /\ calls # <<>> /\ Here = calls[1] /\ Head(calls) = calls[1]
         /\ calls[1] \in InstrType /\ calls[1] \in CallType
         /\ calls[1].op = "instr" /\ calls[1].pc = pc /\ CallOK(Store, calls[1]) /\ Waits(calls[1])
         /\ calls[1].who \in 1 .. Len(bodies) /\ Level(calls[1]) = calls[1].who
         /\ PrunedIf(prog, Store) \/ (pc = "start" /\ Early(Len(bodies), calls) /\ Len(calls) = 1)
<1>1. calls # <<>> /\ Head(calls).op = "instr" /\ Head(calls).pc = pc
  BY DEF At
<1>2. Head(calls) = calls[1] /\ calls[1] \in CallType /\ 1 \in 1 .. Len(calls)
  BY <1>1, CoreFacts, StackFacts
<1>3. calls[1] \in InstrType /\ CallOK(Store, calls[1])
  BY <1>1, <1>2, CoreFacts, CallFields DEF StackOK
<1>4. PrunedIf(prog, Store) \/ (pc = "start" /\ Early(Len(bodies), calls) /\ Len(calls) = 1)
  BY <1>1, <1>2, CoreFacts DEF PrunedOK, PrunedIf, Early
<1>5. Waits(calls[1]) /\ Level(calls[1]) = calls[1].who /\ calls[1].who \in 1 .. Len(bodies)
  BY <1>1, <1>2, CoreFacts DEF StackOK, Waits, Level
<1>. QED  BY <1>1, <1>2, <1>3, <1>4, <1>5 DEF Here

LEMMA FreshWhenPruned ==
  ASSUME PrunedIf(prog, Store), Tame(Store, Store')
  PROVE  EntriesAreNew /\ PrunedIf(prog, Store')
BY DEF EntriesAreNew, PrunedIf, Tame

LEMMA FreshWhenKept ==
  ASSUME Store' = Store
  PROVE  EntriesAreNew
BY DEF EntriesAreNew, NewAreNew, OldEntry

LEMMA StepReturn ==
  ASSUME CoreInv, calls # <<>>, calls[1].op \in {"import", "load"}, NEW o, ReturnModule(o),
         Tame(Store, Store'), SameMarks(Store, Store'), Named(Store', o, calls[1].n),
         PrunedIf(prog, Store'), UNCHANGED <<bodies, prog>>
  PROVE  CoreInv'
<1>1. Core(Store, bodies, calls, ret, prog)
  BY DEF CoreInv
<1>2. PICK t : t = Store'
  OBVIOUS
<1>3. Core(t, bodies, Tail(calls), [ok |-> TRUE, obj |-> o], prog)
  BY <1>1, <1>2, CoreReturn
<1>. QED  BY <1>2, <1>3 DEF CoreInv, ReturnModule

LEMMA StepFail ==
  ASSUME CoreInv, calls # <<>>, Fail, Tame(Store, Store'), SameMarks(Store, Store'),
         PrunedIf(prog, Store'), UNCHANGED <<bodies, prog>>
  PROVE  CoreInv'
<1>1. Core(Store, bodies, calls, ret, prog)
  BY DEF CoreInv
<1>2. PICK t : t = Store'
  OBVIOUS
<1>3. Core(t, bodies, Tail(calls), Err, prog)
  BY <1>1, <1>2, CoreFail
<1>. QED  BY <1>2, <1>3 DEF CoreInv, Fail

LEMMA StepCall ==
  ASSUME CoreInv, calls # <<>>, NEW h \in CallType, NEW c \in CallType, CallFrom(h, c),
         Tame(Store, Store'), SameMarks(Store, Store'), PrunedIf(prog, Store'), UNCHANGED <<bodies, prog>>,
         Becomes(calls[1], h), calls[1].op # "run", CallOK(Store', h), Waits(h),
         Level(h) = Len(bodies) \/ (Waits(calls[1]) /\ Level(h) = Level(calls[1])),
         CallOK(Store', c), CalledBy(c, h), Waits(c) => Level(c) = Level(h), Starts(c)
  PROVE  CoreInv'
<1>1. Core(Store, bodies, calls, ret, prog)
  BY DEF CoreInv
<1>2. PICK t : t = Store'
  OBVIOUS
<1>3. Core(t, bodies, <<c, h>> \o Tail(calls), NoRet, prog)
  BY <1>1, <1>2, CoreCall
<1>. QED  BY <1>2, <1>3 DEF CoreInv, CallFrom

LEMMA Settled ==
  ASSUME CoreInv, UNCHANGED <<cache, sysmods, obj>>
  PROVE  Store' = Store /\ Tame(Store, Store') /\ SameMarks(Store, Store') /\ EntriesAreNew
<1>1. Store' = Store
  BY StoreKept
<1>2. Tame(Store, Store) /\ SameMarks(Store, Store)
  BY CoreFacts, TameSelf
<1>. QED  BY <1>1, <1>2, FreshWhenKept

(* Calls. *)
LEMMA ImportCallFacts ==
  ASSUME NEW n \in Names, NEW b \in BOOLEAN, NEW s
  PROVE  LET c == ImportCall(n, b) IN
         /\ c \in CallType /\ c \in ImportType /\ c.op = "import" /\ c.n = n /\ c.sync = b /\ c.pc = "start"
         /\ ~Waits(c) /\ CallOK(s, c) /\ Starts(c)
BY DEF ImportCall, CallType, ImportType, Waits, CallOK, Starts

LEMMA LoadCallFacts ==
  ASSUME NEW n \in Names, NEW s
  PROVE  LET c == LoadCall(n) IN
         /\ c \in CallType /\ c \in LoadType /\ c.op = "load" /\ c.n = n /\ c.pc = "start"
         /\ ~Waits(c) /\ CallOK(s, c) /\ Starts(c)
BY DEF LoadCall, CallType, LoadType, Waits, CallOK, Starts

LEMMA RunCallFacts ==
  ASSUME NEW k \in Nat \ {0}, NEW s
  PROVE  LET c == RunCall(k) IN
         /\ c \in CallType /\ c \in RunType /\ c.op = "run" /\ c.stop = k
         /\ Waits(c) /\ Level(c) = k /\ CallOK(s, c) /\ Starts(c)
BY DEF RunCall, CallType, RunType, Waits, CallOK, Starts, Level

(* sys.modules has what Vm.modules has. *)
LEMMA SysNamed ==
  ASSUME NEW s, StoreOK(s), NEW n \in DOMAIN s.sys
  PROVE  n \in DOMAIN s.cache /\ s.sys[n] = s.cache[n] /\ Named(s, s.sys[n], n) /\ n \in Names
<1>1. s.cache \in Table /\ n \in DOMAIN s.cache
  BY ObjDomain DEF StoreOK, TablesOK
<1>. QED  BY <1>1, TableFields DEF StoreOK, TablesOK, Named

LEMMA CacheNamed ==
  ASSUME NEW s, StoreOK(s), NEW n \in DOMAIN s.cache
  PROVE  Named(s, s.cache[n], n) /\ n \in Names
<1>1. s.cache \in Table
  BY ObjDomain
<1>. QED  BY <1>1, TableFields DEF StoreOK, TablesOK, Named

-----------------------------------------------------------------------------
(* import_module_object_with_policy *)

LEMMA PrunedCacheFacts ==
  ASSUME CoreInv
  PROVE  /\ PrunedCache \in Table /\ DOMAIN PrunedCache = DOMAIN sysmods
         /\ \A n \in DOMAIN PrunedCache : PrunedCache[n] = cache[n] /\ PrunedCache[n] = sysmods[n]
<1>1. StoreOK(Store)
  BY CoreFacts
<1>2. DOMAIN sysmods \subseteq DOMAIN cache /\ \A n \in DOMAIN sysmods : sysmods[n] = cache[n]
  BY <1>1, StoreIs DEF StoreOK, TablesOK
<1>3. cache \in Table
  BY <1>1, ObjDomain, StoreIs
<1>4. PrunedCache = [n \in DOMAIN sysmods |-> cache[n]]
  BY <1>2 DEF PrunedCache
<1>5. DOMAIN sysmods \in SUBSET Names /\ PrunedCache \in [DOMAIN sysmods -> Nat]
  BY <1>2, <1>3, <1>4, TableFields
<1>6. PrunedCache \in Table /\ DOMAIN PrunedCache = DOMAIN sysmods
  BY <1>5, TableIs
<1>. QED  BY <1>2, <1>4, <1>6

LEMMA ImportStartCore ==
  ASSUME CoreInv, ImportStart
  PROVE  CoreInv' /\ EntriesAreNew
<1>1. /\ calls # <<>> /\ Head(calls) = calls[1] /\ calls[1] \in ImportType /\ calls[1] \in CallType
      /\ calls[1].op = "import" /\ calls[1].pc = "start"
  BY AtImport DEF ImportStart
<1>2. PICK c : c = calls[1]
  OBVIOUS
<1>3. PICK f : f = PrunedCache
  OBVIOUS
<1>4. f \in Table /\ DOMAIN f = DOMAIN sysmods /\ \A n \in DOMAIN f : f[n] = cache[n] /\ f[n] = sysmods[n]
  BY <1>3, PrunedCacheFacts
<1>5. StoreOK(Store) /\ Len(bodies) \in Nat \ {0}
  BY CoreFacts
<1>6. cache' = f /\ UNCHANGED <<sysmods, obj, bodies, prog>>
  <2>1. Has(sysmods, c.n) => Put(f, c.n, sysmods[c.n]) = f
    BY <1>4, PutSame DEF Has
  <2>. QED  BY <1>1, <1>2, <1>3, <2>1 DEF ImportStart
<1>7. PICK t : t = Store'
  OBVIOUS
<1>8. t = [cache |-> f, sys |-> Store.sys, obj |-> Store.obj]
  BY <1>6, <1>7 DEF Store
<1>9. Tame(Store, t) /\ SameMarks(Store, t) /\ NewAreNew(Store, t)
  <2>1. /\ DOMAIN Store.sys \subseteq DOMAIN f /\ DOMAIN f \subseteq DOMAIN Store.cache
        /\ \A n \in DOMAIN f : f[n] = Store.cache[n]
    BY <1>4, <1>5, StoreIs DEF StoreOK, TablesOK
  <2>. QED  BY <1>4, <1>5, <1>8, <2>1, CacheOnly
<1>10. PrunedIf(prog, t)
  BY <1>4, <1>8, StoreIs DEF PrunedIf, Pruned
<1>11. EntriesAreNew
  BY <1>7, <1>9 DEF EntriesAreNew
<1>12. c.n \in Names /\ c.sync \in BOOLEAN /\ c.op = "import"
  BY <1>1, <1>2 DEF ImportType
<1>13. CASE Has(sysmods, c.n)
  <2>1. ReturnModule(sysmods[c.n])
    BY <1>1, <1>2, <1>13 DEF ImportStart
  <2>2. t.sys = sysmods /\ StoreOK(t)
    BY <1>8, <1>9, StoreIs DEF Tame
  <2>3. Named(t, sysmods[c.n], c.n)
    BY <1>13, <2>2, SysNamed DEF Has
  <2>4. CoreInv'
    BY <1>1, <1>2, <1>6, <1>7, <1>9, <1>10, <1>12, <2>1, <2>3, StepReturn
  <2>. QED  BY <1>11, <2>4
<1>14. CASE ~Has(sysmods, c.n) /\ Dotted(c.n)
  <2>1. PICK h : h = [c EXCEPT !.depth = Len(bodies), !.existing = DOMAIN cache, !.pc = "meta"]
    OBVIOUS
  <2>2. PICK d : d = ImportCall(Parent[c.n], TRUE)
    OBVIOUS
  <2>3. CallFrom(h, d)
    BY <1>1, <1>2, <1>14, <2>1, <2>2 DEF ImportStart
  <2>4. DOMAIN cache \subseteq Names
    BY <1>5, StoreIs, ObjDomain, TableFields
  <2>5. /\ h \in ImportType /\ h.op = "import" /\ h.n = c.n /\ h.sync = c.sync /\ h.pc = "meta"
        /\ h.depth = Len(bodies)
    BY <1>1, <1>2, <1>5, <2>1, <2>4 DEF ImportType
  <2>6. h \in CallType /\ Becomes(calls[1], h) /\ CallOK(t, h) /\ Waits(h) /\ Level(h) = Len(bodies)
    BY <1>1, <1>2, <1>14, <2>5 DEF CallType, Becomes, CallOK, Waits, Level
  <2>7. /\ d \in CallType /\ d.op = "import" /\ d.n = Parent[c.n] /\ d.sync = TRUE
        /\ ~Waits(d) /\ CallOK(t, d) /\ Starts(d)
    BY <1>12, <1>14, <2>2, ParentName, ImportCallFacts
  <2>8. CalledBy(d, h)
    BY <2>5, <2>7 DEF CalledBy, ImportedBy
  <2>9. CoreInv'
    BY <1>1, <1>6, <1>7, <1>9, <1>10, <2>3, <2>6, <2>7, <2>8, StepCall
  <2>. QED  BY <1>11, <2>9
<1>15. CASE ~Has(sysmods, c.n) /\ ~Dotted(c.n)
  <2>1. PICK h : h = [c EXCEPT !.depth = Len(bodies), !.existing = DOMAIN cache, !.pc = "loaded"]
    OBVIOUS
  <2>2. PICK d : d = LoadCall(c.n)
    OBVIOUS
  <2>3. CallFrom(h, d)
    BY <1>1, <1>2, <1>15, <2>1, <2>2 DEF ImportStart
  <2>4. DOMAIN cache \subseteq Names
    BY <1>5, StoreIs, ObjDomain, TableFields
  <2>5. /\ h \in ImportType /\ h.op = "import" /\ h.n = c.n /\ h.sync = c.sync /\ h.pc = "loaded"
        /\ h.depth = Len(bodies)
    BY <1>1, <1>2, <1>5, <2>1, <2>4 DEF ImportType
  <2>6. h \in CallType /\ Becomes(calls[1], h) /\ CallOK(t, h) /\ Waits(h) /\ Level(h) = Len(bodies)
    BY <1>1, <1>2, <1>15, <2>5 DEF CallType, Becomes, CallOK, Waits, Level
  <2>7. /\ d \in CallType /\ d.op = "load" /\ d.n = c.n /\ ~Waits(d) /\ CallOK(t, d) /\ Starts(d)
    BY <1>12, <2>2, LoadCallFacts
  <2>8. CalledBy(d, h)
    BY <2>5, <2>7 DEF CalledBy, LoadedBy
  <2>9. CoreInv'
    BY <1>1, <1>6, <1>7, <1>9, <1>10, <2>3, <2>6, <2>7, <2>8, StepCall
  <2>. QED  BY <1>11, <2>9
<1>. QED  BY <1>13, <1>14, <1>15

LEMMA ImportMetaCore ==
  ASSUME CoreInv, ImportMeta
  PROVE  CoreInv' /\ EntriesAreNew
<1>1. /\ calls # <<>> /\ Head(calls) = calls[1] /\ calls[1] \in ImportType /\ calls[1] \in CallType
      /\ calls[1].op = "import" /\ calls[1].pc = "meta" /\ PrunedIf(prog, Store) /\ Waits(calls[1])
  BY AtImport DEF ImportMeta, Waits
<1>2. PICK c : c = calls[1]
  OBVIOUS
<1>3. Store' = Store /\ Tame(Store, Store') /\ SameMarks(Store, Store') /\ EntriesAreNew
  BY Settled DEF ImportMeta
<1>4. UNCHANGED <<bodies, prog>> /\ PrunedIf(prog, Store')
  BY <1>1, <1>3 DEF ImportMeta
<1>5. CASE ret.ok
  <2>1. PICK h : h = [c EXCEPT !.pc = "loaded"]
    OBVIOUS
  <2>2. PICK d : d = LoadCall(c.n)
    OBVIOUS
  <2>3. CallFrom(h, d)
    BY <1>1, <1>2, <1>5, <2>1, <2>2 DEF ImportMeta, CallAt
  <2>4. /\ h \in ImportType /\ h.op = "import" /\ h.n = c.n /\ h.sync = c.sync /\ h.pc = "loaded"
        /\ h.depth = c.depth
    BY <1>1, <1>2, <2>1 DEF ImportType
  <2>5. h \in CallType /\ Becomes(calls[1], h) /\ CallOK(Store', h) /\ Waits(h) /\ Level(h) = Level(calls[1])
    BY <1>1, <1>2, <2>4 DEF CallType, Becomes, CallOK, Waits, Level
  <2>6. /\ d \in CallType /\ d.op = "load" /\ d.n = c.n /\ ~Waits(d) /\ CallOK(Store', d) /\ Starts(d)
    BY <1>1, <1>2, <2>2, LoadCallFacts DEF ImportType
  <2>7. CalledBy(d, h)
    BY <2>4, <2>6 DEF CalledBy, LoadedBy
  <2>8. CoreInv'
    BY <1>1, <1>3, <1>4, <2>3, <2>5, <2>6, <2>7, StepCall
  <2>. QED  BY <1>3, <2>8
<1>6. CASE ~ret.ok
  <2>1. Fail
    BY <1>6 DEF ImportMeta
  <2>. QED  BY <2>1, <1>1, <1>3, <1>4, StepFail
<1>. QED  BY <1>5, <1>6

LEMMA ReturnCanonicalCore ==
  ASSUME CoreInv, calls # <<>>, calls[1].op = "import", NEW s, StoreOK(s), Tame(Store, s), SameMarks(Store, s),
         PrunedIf(prog, Store), NEW o, Named(s, o, calls[1].n), ReturnCanonical(s, o), UNCHANGED <<bodies, prog>>
  PROVE  CoreInv' /\ EntriesAreNew
<1>1. PICK n : n = calls[1].n
  OBVIOUS
<1>2. Head(calls) = calls[1]
  BY CoreFacts, StackFacts
<1>3. SetStore(s)
  BY <1>1, <1>2, CanonicalSame DEF ReturnCanonical
<1>4. Store' = s
  BY <1>3, StoreSet DEF StoreOK
<1>5. PICK m : m = CanonicalModule(s, n, o)
  OBVIOUS
<1>6. m = IF n \in DOMAIN s.cache THEN s.cache[n] ELSE o
  BY <1>5, CanonicalIs
<1>7. Named(s, m, n)
  BY <1>1, <1>6, CacheNamed
<1>8. ReturnModule(m)
  BY <1>1, <1>2, <1>5 DEF ReturnCanonical
<1>9. EntriesAreNew /\ PrunedIf(prog, Store')
  BY <1>4, FreshWhenPruned
<1>10. CoreInv'
  BY <1>1, <1>4, <1>7, <1>8, <1>9, StepReturn
<1>. QED  BY <1>9, <1>10

LEMMA ReturnImportedCore ==
  ASSUME CoreInv, NEW p0, At("import", p0), p0 # "start", NEW s, StoreOK(s), Tame(Store, s), SameMarks(Store, s),
         NEW o, Named(s, o, calls[1].n), NEW pc \in {"drained", "rescued"},
         ReturnImported(s, o, pc), UNCHANGED <<bodies, prog>>
  PROVE  CoreInv' /\ EntriesAreNew
<1>1. /\ calls # <<>> /\ Head(calls) = calls[1] /\ calls[1] \in ImportType /\ calls[1] \in CallType
      /\ calls[1].op = "import" /\ calls[1].pc = p0 /\ PrunedIf(prog, Store) /\ Waits(calls[1])
      /\ Level(calls[1]) \in 1 .. Len(bodies) /\ Level(calls[1]) = calls[1].depth
  BY AtImport DEF Waits
<1>2. PICK c : c = calls[1]
  OBVIOUS
<1>3. CASE CallFrom([c EXCEPT !.pc = pc, !.o = o], RunCall(c.depth)) /\ SetStore(s)
  <2>0. Store' = s
    BY <1>3, StoreSet DEF StoreOK
  <2>1. EntriesAreNew /\ PrunedIf(prog, Store')
    BY <1>1, <2>0, FreshWhenPruned
  <2>2. PICK h : h = [c EXCEPT !.pc = pc, !.o = o]
    OBVIOUS
  <2>3. PICK d : d = RunCall(c.depth)
    OBVIOUS
  <2>4. o \in Nat
    BY ObjDomain DEF Named
  <2>5. /\ h \in ImportType /\ h.op = "import" /\ h.n = c.n /\ h.sync = c.sync /\ h.pc = pc
        /\ h.depth = c.depth /\ h.o = o
    BY <1>1, <1>2, <2>2, <2>4 DEF ImportType
  <2>6. h \in CallType /\ Becomes(calls[1], h) /\ CallOK(Store', h) /\ Waits(h) /\ Level(h) = Level(calls[1])
    BY <1>1, <1>2, <2>0, <2>5 DEF CallType, Becomes, CallOK, Waits, Level
  <2>7. /\ d \in CallType /\ d.op = "run" /\ d.stop = c.depth /\ Level(d) = c.depth
        /\ CallOK(Store', d) /\ Starts(d)
    <3>1. c.depth \in Nat \ {0}
      BY <1>1, <1>2, CoreFacts
    <3>. QED  BY <2>3, <3>1, RunCallFacts
  <2>8. CalledBy(d, h) /\ Level(d) = Level(h)
    BY <1>1, <1>2, <2>5, <2>6, <2>7 DEF CalledBy, RunBy
  <2>9. CallFrom(h, d)
    BY <1>3, <2>2, <2>3
  <2>10. CoreInv'
    BY <1>1, <2>0, <2>1, <2>6, <2>7, <2>8, <2>9, StepCall
  <2>. QED  BY <2>1, <2>10
<1>4. CASE ReturnModule(o) /\ SetStore(s)
  <2>0. Store' = s
    BY <1>4, StoreSet DEF StoreOK
  <2>1. EntriesAreNew /\ PrunedIf(prog, Store')
    BY <1>1, <2>0, FreshWhenPruned
  <2>. QED  BY <1>1, <1>4, <2>0, <2>1, StepReturn
<1>5. CASE ReturnCanonical(s, o)
  BY <1>1, <1>5, ReturnCanonicalCore
<1>. QED  BY <1>1, <1>2, <1>3, <1>4, <1>5 DEF ReturnImported

LEMMA FailImportCore ==
  ASSUME CoreInv, calls # <<>>, FailImport, PrunedIf(prog, Store), UNCHANGED <<bodies, prog>>
  PROVE  CoreInv' /\ EntriesAreNew
<1>1. PICK s \in CleanupFailedImport(Store, Head(calls).n, Head(calls).existing) : SetStore(s)
  BY DEF FailImport
<1>2. PICK S : IsRemoved(Store, S, s)
  BY <1>1, CoreFacts, FailedImportIs
<1>3. Tame(Store, s) /\ SameMarks(Store, s)
  BY <1>2, CoreFacts, RemovedTame
<1>4. Store' = s
  BY <1>1, <1>3, StoreSet DEF Tame, StoreOK
<1>5. EntriesAreNew /\ PrunedIf(prog, Store')
  BY <1>3, <1>4, FreshWhenPruned
<1>6. Fail
  BY DEF FailImport
<1>. QED  BY <1>3, <1>4, <1>5, <1>6, StepFail

LEMMA ImportLoadedCore ==
  ASSUME CoreInv, ImportLoaded
  PROVE  CoreInv' /\ EntriesAreNew
<1>1. /\ calls # <<>> /\ Head(calls) = calls[1] /\ calls[1] \in ImportType /\ calls[1] \in CallType
      /\ calls[1].op = "import" /\ calls[1].pc = "loaded" /\ PrunedIf(prog, Store) /\ Waits(calls[1])
      /\ At("import", "loaded")
  BY AtImport DEF ImportLoaded, Waits
<1>2. UNCHANGED <<bodies, prog>>
  BY DEF ImportLoaded
<1>3. StoreOK(Store) /\ Tame(Store, Store) /\ SameMarks(Store, Store)
  BY CoreFacts, TameSelf
<1>4. PICK c : c = calls[1]
  OBVIOUS
<1>5. CASE ret.ok /\ ReturnImported(Store, ret.obj, "drained")
  <2>1. Named(Store, ret.obj, calls[1].n)
    BY <1>1, <1>5, CoreFacts DEF RetOK, Returned
  <2>. QED  BY <1>1, <1>2, <1>3, <1>5, <2>1, ReturnImportedCore
<1>6. CASE /\ ~ret.ok /\ Dotted(Head(calls).n)
           /\ CallAt("again", ImportCall(Parent[Head(calls).n], Head(calls).sync))
           /\ UNCHANGED <<cache, sysmods, obj>>
  <2>0. Store' = Store /\ Tame(Store, Store') /\ SameMarks(Store, Store') /\ EntriesAreNew /\ PrunedIf(prog, Store')
    BY <1>1, <1>6, Settled
  <2>1. PICK h : h = [c EXCEPT !.pc = "again"]
    OBVIOUS
  <2>2. PICK d : d = ImportCall(Parent[c.n], c.sync)
    OBVIOUS
  <2>3. CallFrom(h, d)
    BY <1>1, <1>4, <1>6, <2>1, <2>2 DEF CallAt
  <2>4. /\ h \in ImportType /\ h.op = "import" /\ h.n = c.n /\ h.sync = c.sync /\ h.pc = "again"
        /\ h.depth = c.depth
    BY <1>1, <1>4, <2>1 DEF ImportType
  <2>5. h \in CallType /\ Becomes(calls[1], h) /\ CallOK(Store', h) /\ Waits(h) /\ Level(h) = Level(calls[1])
    BY <1>1, <1>4, <1>6, <2>4 DEF CallType, Becomes, CallOK, Waits, Level
  <2>6. c.n \in Names /\ c.sync \in BOOLEAN /\ Dotted(c.n)
    BY <1>1, <1>4, <1>6 DEF ImportType
  <2>7. /\ d \in CallType /\ d.op = "import" /\ d.n = Parent[c.n] /\ d.sync = c.sync
        /\ ~Waits(d) /\ CallOK(Store', d) /\ Starts(d)
    BY <2>2, <2>6, ParentName, ImportCallFacts
  <2>8. CalledBy(d, h)
    BY <2>4, <2>7 DEF CalledBy, ImportedBy
  <2>9. CoreInv'
    BY <1>1, <1>2, <2>0, <2>3, <2>5, <2>7, <2>8, StepCall
  <2>. QED  BY <2>0, <2>9
<1>7. CASE FailImport
  BY <1>1, <1>2, <1>7, FailImportCore
<1>. QED  BY <1>5, <1>6, <1>7 DEF ImportLoaded

LEMMA ImportDrainedCore ==
  ASSUME CoreInv, ImportDrained
  PROVE  CoreInv' /\ EntriesAreNew
<1>1. PICK p0 \in {"drained", "rescued"} : At("import", p0)
  BY DEF ImportDrained
<1>2. /\ calls # <<>> /\ Head(calls) = calls[1] /\ calls[1] \in ImportType /\ calls[1] \in CallType
      /\ calls[1].op = "import" /\ calls[1].pc = p0 /\ PrunedIf(prog, Store) /\ CallOK(Store, calls[1])
  BY <1>1, AtImport
<1>3. UNCHANGED <<bodies, prog>>
  BY DEF ImportDrained
<1>4. StoreOK(Store) /\ Tame(Store, Store) /\ SameMarks(Store, Store)
  BY CoreFacts, TameSelf
<1>5. CASE ret.ok /\ ReturnCanonical(Store, Head(calls).o)
  <2>1. Named(Store, calls[1].o, calls[1].n)
    BY <1>2 DEF CallOK
  <2>. QED  BY <1>2, <1>3, <1>4, <1>5, <2>1, ReturnCanonicalCore
<1>6. CASE FailImport
  BY <1>2, <1>3, <1>6, FailImportCore
<1>7. CASE Fail /\ UNCHANGED <<cache, sysmods, obj>>
  <2>0. Store' = Store /\ Tame(Store, Store') /\ SameMarks(Store, Store') /\ EntriesAreNew /\ PrunedIf(prog, Store')
    BY <1>2, <1>7, Settled
  <2>. QED  BY <1>2, <1>3, <1>7, <2>0, StepFail
<1>. QED  BY <1>5, <1>6, <1>7 DEF ImportDrained

LEMMA ImportAgainCore ==
  ASSUME CoreInv, ImportAgain
  PROVE  CoreInv' /\ EntriesAreNew
<1>1. /\ calls # <<>> /\ Head(calls) = calls[1] /\ calls[1] \in ImportType /\ calls[1] \in CallType
      /\ calls[1].op = "import" /\ calls[1].pc = "again" /\ PrunedIf(prog, Store) /\ At("import", "again")
  BY AtImport DEF ImportAgain
<1>2. UNCHANGED <<bodies, prog>>
  BY DEF ImportAgain
<1>3. StoreOK(Store)
  BY CoreFacts
<1>4. PICK n : n = calls[1].n
  OBVIOUS
<1>5. CASE Fail /\ UNCHANGED <<cache, sysmods, obj>>
  <2>0. Store' = Store /\ Tame(Store, Store') /\ SameMarks(Store, Store') /\ EntriesAreNew /\ PrunedIf(prog, Store')
    BY <1>1, <1>5, Settled
  <2>. QED  BY <1>1, <1>2, <1>5, <2>0, StepFail
<1>6. CASE FailImport
  BY <1>1, <1>2, <1>6, FailImportCore
<1>7. CASE /\ Has(cache, n) \/ Has(sysmods, n)
           /\ LET o == IF Has(cache, n) THEN cache[n] ELSE sysmods[n]
              IN  ReturnImported([Store EXCEPT !.cache = Put(@, n, o), !.sys = Put(@, n, o)], o, "rescued")
  <2>1. n \in DOMAIN Store.cache
    BY <1>3, <1>7, SysNamed, StoreIs DEF Has
  <2>2. PICK o : o = Store.cache[n]
    OBVIOUS
  <2>3. PICK s : s = [Store EXCEPT !.cache = Put(@, n, o), !.sys = Put(@, n, o)]
    OBVIOUS
  <2>4. ReturnImported(s, o, "rescued")
    BY <1>7, <2>1, <2>2, <2>3, StoreIs DEF Has
  <2>5. Tame(Store, s) /\ SameMarks(Store, s) /\ n \in DOMAIN s.cache /\ s.cache[n] = Store.cache[n]
    BY <1>3, <2>1, <2>2, <2>3, SysPut
  <2>6. StoreOK(s) /\ Named(s, o, n)
    BY <2>2, <2>5, CacheNamed DEF Tame
  <2>. QED  BY <1>1, <1>2, <1>4, <2>4, <2>5, <2>6, ReturnImportedCore
<1>. QED  BY <1>1, <1>4, <1>5, <1>6, <1>7 DEF ImportAgain

(* An object's flags are set. *)
SetFlags(s, o, m) == [s EXCEPT !.obj = [s.obj EXCEPT ![o] = m]]

FlagsSet(s, o, m, t) ==
  IsMarked(s, t) /\ t.obj[o] = m /\ \A i \in DOMAIN s.obj : i # o => t.obj[i] = s.obj[i]

SameNames(m, k) == m.name = k.name /\ m.kids = k.kids /\ m.loader = k.loader

LEMMA FlagsIs ==
  ASSUME NEW s, StoreOK(s), NEW o \in DOMAIN s.obj, NEW m \in Mod, SameNames(m, s.obj[o])
  PROVE  FlagsSet(s, o, m, SetFlags(s, o, m))
<1>1. PICK x : x = [s.obj EXCEPT ![o] = m]
  OBVIOUS
<1>2. /\ x \in Seq(Mod) /\ Len(x) = Len(s.obj) /\ x[o] = m
      /\ \A i \in DOMAIN s.obj : i # o => x[i] = s.obj[i]
  BY <1>1, ObjDomain
<1>3. \A i \in DOMAIN s.obj : /\ x[i].name = s.obj[i].name /\ x[i].kids = s.obj[i].kids
                              /\ x[i].loader = s.obj[i].loader
  BY <1>2 DEF SameNames
<1>4. PICK t : t = [s EXCEPT !.obj = x]
  OBVIOUS
<1>5. IsMarked(s, t) /\ t.obj = x
  BY <1>2, <1>3, <1>4, MarkedIs
<1>6. FlagsSet(s, o, m, t)
  BY <1>2, <1>5 DEF FlagsSet
<1>. QED  BY <1>1, <1>4, <1>6 DEF SetFlags

InitOf(s, o) == [s EXCEPT !.obj[o].init = TRUE]

LEMMA InitSet ==
  ASSUME NEW s, StoreOK(s), NEW o \in DOMAIN s.obj, NEW t, t = InitOf(s, o)
  PROVE  /\ IsMarked(s, t) /\ t.obj[o].init /\ t.obj[o].st = s.obj[o].st
         /\ \A i \in DOMAIN s.obj : i # o => t.obj[i] = s.obj[i]
<1>1. PICK m : m = [s.obj[o] EXCEPT !.init = TRUE]
  OBVIOUS
<1>2. m \in Mod /\ SameNames(m, s.obj[o]) /\ m.init /\ m.st = s.obj[o].st
  BY <1>1, ObjDomain DEF Mod, SameNames
<1>3. t = SetFlags(s, o, m)
  BY <1>1 DEF StoreOK, StoreType, SetFlags, InitOf
<1>4. FlagsSet(s, o, m, SetFlags(s, o, m))
  BY <1>2, FlagsIs
<1>5. FlagsSet(s, o, m, t)
  BY <1>3, <1>4
<1>. QED  BY <1>2, <1>5 DEF FlagsSet

LEMMA StepQueue ==
  ASSUME CoreInv, calls # <<>>, calls[1].op = "load", NEW o, ReturnModule(o),
         Tame(Store, Store'), Named(Store', o, calls[1].n), FramesOK(Store', bodies'),
         Len(bodies') >= Len(bodies), PrunedIf(prog, Store'), UNCHANGED prog
  PROVE  CoreInv'
<1>1. PICK t, g, d : t = Store' /\ g = bodies' /\ d = calls'
  OBVIOUS
<1>2. StoreOK(Store) /\ FramesOK(Store, bodies) /\ StackOK(Store, Len(bodies), calls)
  BY CoreFacts
<1>3. StoreOK(t) /\ FramesOK(t, g) /\ o \in Nat /\ Evolves(Store, t)
  BY <1>1, ObjDomain DEF Tame, Named
<1>4. Len(bodies) \in Nat /\ Len(g) \in Nat /\ Len(bodies) <= Len(g)
  BY <1>1, <1>2, <1>3, FramesFacts
<1>5. d = Tail(calls)
  BY <1>1 DEF ReturnModule
<1>6. StackOK(Store, Len(bodies), d)
  BY <1>2, <1>5, StackPop
<1>7. StackOK(t, Len(g), d)
  BY <1>2, <1>3, <1>4, <1>6, StackStays
<1>8. RetOK(t, d, [ok |-> TRUE, obj |-> o])
  <2>1. CASE d = <<>>
    BY <2>1 DEF RetOK
  <2>2. CASE d # <<>>
    <3>1. CalledBy(calls[1], d[1])
      BY <1>2, <1>5, <2>2, StackPop
    <3>2. /\ d[1].op = "import" /\ d[1].pc = "loaded" => Named(t, o, d[1].n)
          /\ d[1].op # "instr"
      BY <1>1, <3>1 DEF CalledBy, LoadedBy
    <3>. QED  BY <3>2 DEF RetOK, Returned
  <2>. QED  BY <2>1, <2>2
<1>9. PrunedOK(t, Len(g), d, prog)
  BY <1>1 DEF PrunedOK, PrunedIf
<1>10. Core(t, g, d, [ok |-> TRUE, obj |-> o], prog)
  BY <1>2, <1>3, <1>7, <1>8, <1>9, CoreFacts DEF Core
<1>. QED  BY <1>1, <1>10 DEF CoreInv, ReturnModule

-----------------------------------------------------------------------------
(* load_module *)

(* What queueing a body leaves. *)
IsQueued(s, n, u) ==
  \E t : /\ IsCreated(s, n, t) /\ IsMarked(t, u) /\ u.obj[Len(s.obj) + 1].init
         /\ u.obj[Len(s.obj) + 1].st = "queued"
         /\ \A i \in DOMAIN t.obj : i # Len(s.obj) + 1 => u.obj[i] = t.obj[i]

LEMMA QueuedFacts ==
  ASSUME NEW s, StoreOK(s), NEW n \in Names, NEW u, IsQueued(s, n, u), NEW fr, FramesOK(s, fr)
  PROVE  /\ Tame(s, u) /\ Named(u, Len(s.obj) + 1, n)
         /\ Len(s.obj) + 1 \notin DOMAIN s.obj
         /\ FramesOK(u, Append(fr, QueuedFrame(Len(s.obj) + 1)))
         /\ Len(Append(fr, QueuedFrame(Len(s.obj) + 1))) = Len(fr) + 1
         /\ Append(fr, QueuedFrame(Len(s.obj) + 1))[Len(fr) + 1] = QueuedFrame(Len(s.obj) + 1)
         /\ \A i \in 1 .. Len(fr) : Append(fr, QueuedFrame(Len(s.obj) + 1))[i] = fr[i]
<1>1. PICK o : o = Len(s.obj) + 1
  OBVIOUS
<1>2. PICK t : /\ IsCreated(s, n, t) /\ IsMarked(t, u) /\ u.obj[o].init /\ u.obj[o].st = "queued"
               /\ \A i \in DOMAIN t.obj : i # o => u.obj[i] = t.obj[i]
  BY <1>1 DEF IsQueued
<1>3. Tame(s, t) /\ SameMarks(s, t) /\ o \in DOMAIN t.obj /\ t.obj[o].name = n
  BY <1>1, <1>2, CreatedTame
<1>4. Tame(t, u) /\ StoreOK(u)
  BY <1>2, <1>3, MarkedTame, MarkedOK DEF Tame
<1>5. Tame(s, u)
  BY <1>3, <1>4, TameTwice
<1>6. DOMAIN u.obj = DOMAIN t.obj /\ u.obj[o].name = n
  <2>1. StoreOK(t) /\ Len(u.obj) = Len(t.obj)
    BY <1>2, <1>3 DEF Tame, IsMarked
  <2>. QED  BY <1>2, <1>3, <1>4, <2>1, ObjDomain DEF IsMarked
<1>7. o \notin DOMAIN s.obj
  BY <1>1, ObjDomain
<1>8. \A i \in DOMAIN u.obj : u.obj[i].init <=> i = o \/ (i \in DOMAIN s.obj /\ s.obj[i].init)
  BY <1>2, <1>3, <1>6, <1>7 DEF SameMarks
<1>9. Evolves(s, u)
  BY <1>5 DEF Tame
<1>10. /\ FramesOK(u, Append(fr, QueuedFrame(o))) /\ Len(Append(fr, QueuedFrame(o))) = Len(fr) + 1
       /\ Append(fr, QueuedFrame(o))[Len(fr) + 1] = QueuedFrame(o)
       /\ \A i \in 1 .. Len(fr) : Append(fr, QueuedFrame(o))[i] = fr[i]
  BY <1>3, <1>4, <1>6, <1>7, <1>8, <1>9, FramesQueue
<1>11. Named(u, o, n)
  BY <1>3, <1>6 DEF Named
<1>. QED  BY <1>1, <1>5, <1>7, <1>10, <1>11

LEMMA CreateAndQueueIs ==
  ASSUME NEW s, StoreOK(s), NEW n \in Names, CreateAndQueue(s, n)
  PROVE  \/ SetStore(s) /\ Fail /\ UNCHANGED bodies /\ n \notin Sources
         \/ /\ \E t, u : IsCreated(s, n, t) /\ IsRemoved(t, {n}, u) /\ SetStore(u)
            /\ Fail /\ UNCHANGED bodies
         \/ /\ \E u : IsQueued(s, n, u) /\ SetStore(u)
            /\ bodies' = Append(bodies, QueuedFrame(Len(s.obj) + 1)) /\ ReturnModule(Len(s.obj) + 1)
<1>1. PICK o : o = Len(s.obj) + 1
  OBVIOUS
<1>2. PICK t : t = Created(s, n)
  OBVIOUS
<1>3. IsCreated(s, n, t)
  BY <1>2, CreateIs
<1>4. StoreOK(t) /\ o \in DOMAIN t.obj /\ t.obj[o].st = "queued"
  BY <1>1, <1>3, CreatedTame DEF Tame
<1>5. \/ n \notin Sources /\ SetStore(s) /\ Fail /\ UNCHANGED bodies
      \/ n \in Broken /\ SetStore(RemoveModuleEntries(t, {n})) /\ Fail /\ UNCHANGED bodies
      \/ SetStore([t EXCEPT !.obj[o].init = TRUE]) /\ bodies' = Append(bodies, QueuedFrame(o)) /\ ReturnModule(o)
  BY <1>1, <1>2 DEF CreateAndQueue, Created
<1>6. CASE n \in Broken /\ SetStore(RemoveModuleEntries(t, {n})) /\ Fail /\ UNCHANGED bodies
  BY <1>3, <1>4, <1>6, RemoveIs
<1>7. CASE SetStore([t EXCEPT !.obj[o].init = TRUE]) /\ bodies' = Append(bodies, QueuedFrame(o)) /\ ReturnModule(o)
  <2>1. PICK u : u = InitOf(t, o)
    OBVIOUS
  <2>2. /\ IsMarked(t, u) /\ u.obj[o].init /\ u.obj[o].st = t.obj[o].st
        /\ \A i \in DOMAIN t.obj : i # o => u.obj[i] = t.obj[i]
    BY <1>4, <2>1, InitSet
  <2>3. IsQueued(s, n, u)
    BY <1>1, <1>3, <1>4, <2>2 DEF IsQueued
  <2>4. SetStore(u)
    BY <1>7, <2>1 DEF InitOf
  <2>. QED  BY <1>1, <1>7, <2>3, <2>4
<1>. QED  BY <1>5, <1>6, <1>7

LEMMA CreateAndQueueCore ==
  ASSUME CoreInv, calls # <<>>, calls[1].op = "load", NEW s, StoreOK(s), Tame(Store, s), SameMarks(Store, s),
         PrunedIf(prog, Store), CreateAndQueue(s, calls[1].n), calls[1].n \in Names, UNCHANGED prog
  PROVE  CoreInv' /\ EntriesAreNew
<1>1. PICK n : n = calls[1].n
  OBVIOUS
<1>2. StoreOK(Store) /\ FramesOK(Store, bodies)
  BY CoreFacts
<1>3. CASE SetStore(s) /\ Fail /\ UNCHANGED bodies
  <2>1. Store' = s
    BY <1>3, StoreSet DEF StoreOK
  <2>2. EntriesAreNew /\ PrunedIf(prog, Store')
    BY <2>1, FreshWhenPruned
  <2>. QED  BY <1>3, <2>1, <2>2, StepFail
<1>4. CASE /\ \E t, u : IsCreated(s, n, t) /\ IsRemoved(t, {n}, u) /\ SetStore(u)
           /\ Fail /\ UNCHANGED bodies
  <2>1. PICK t, u : IsCreated(s, n, t) /\ IsRemoved(t, {n}, u) /\ SetStore(u)
    BY <1>4
  <2>2. Tame(s, t) /\ SameMarks(s, t)
    BY <1>1, <2>1, CreatedTame
  <2>3. Tame(t, u) /\ SameMarks(t, u)
    BY <2>1, <2>2, RemovedTame DEF Tame
  <2>4. Tame(Store, t) /\ SameMarks(Store, t)
    BY <1>2, <2>2, TameTwice, SameMarksTwice
  <2>5. Tame(Store, u) /\ SameMarks(Store, u)
    BY <1>2, <2>3, <2>4, TameTwice, SameMarksTwice
  <2>6. Store' = u
    BY <2>1, <2>3, StoreSet DEF Tame, StoreOK
  <2>7. EntriesAreNew /\ PrunedIf(prog, Store')
    BY <2>5, <2>6, FreshWhenPruned
  <2>. QED  BY <1>4, <2>5, <2>6, <2>7, StepFail
<1>5. CASE /\ \E u : IsQueued(s, n, u) /\ SetStore(u)
           /\ bodies' = Append(bodies, QueuedFrame(Len(s.obj) + 1)) /\ ReturnModule(Len(s.obj) + 1)
  <2>1. PICK u : IsQueued(s, n, u) /\ SetStore(u)
    BY <1>5
  <2>2. FramesOK(s, bodies)
    BY <1>2, FramesSame
  <2>3. /\ Tame(s, u) /\ Named(u, Len(s.obj) + 1, n)
        /\ FramesOK(u, bodies') /\ Len(bodies') = Len(bodies) + 1
    BY <1>1, <1>5, <2>1, <2>2, QueuedFacts
  <2>4. Tame(Store, u)
    BY <1>2, <2>3, TameTwice
  <2>5. Store' = u
    BY <2>1, <2>3, StoreSet DEF Tame, StoreOK
  <2>6. EntriesAreNew /\ PrunedIf(prog, Store')
    BY <2>4, <2>5, FreshWhenPruned
  <2>7. Len(bodies') >= Len(bodies)
    BY <2>3, CoreFacts
  <2>8. ReturnModule(Len(s.obj) + 1)
    BY <1>5
  <2>9. CoreInv'
    BY <1>1, <2>3, <2>4, <2>5, <2>6, <2>7, <2>8, StepQueue
  <2>. QED  BY <2>6, <2>9
<1>. QED  BY <1>1, <1>3, <1>4, <1>5, CreateAndQueueIs

LEMMA LoadStartCore ==
  ASSUME CoreInv, LoadStart
  PROVE  CoreInv' /\ EntriesAreNew
<1>1. /\ calls # <<>> /\ Head(calls) = calls[1] /\ calls[1] \in LoadType /\ calls[1] \in CallType
      /\ calls[1].op = "load" /\ calls[1].pc = "start" /\ PrunedIf(prog, Store)
  BY AtLoad DEF LoadStart
<1>2. PICK c, n : c = calls[1] /\ n = c.n
  OBVIOUS
<1>3. n \in Names /\ UNCHANGED prog
  BY <1>1, <1>2 DEF LoadType, LoadStart
<1>4. PICK s : s = IF Has(cache, n) THEN RemoveModuleEntries(Store, {n}) ELSE Store
  OBVIOUS
<1>5. StoreOK(Store) /\ Tame(Store, Store) /\ SameMarks(Store, Store)
  BY CoreFacts, TameSelf
<1>6. StoreOK(s) /\ Tame(Store, s) /\ SameMarks(Store, s)
  <2>1. CASE Has(cache, n)
    <3>1. IsRemoved(Store, {n}, s)
      BY <1>4, <1>5, <2>1, RemoveIs
    <3>. QED  BY <1>5, <3>1, RemovedTame DEF Tame
  <2>2. CASE ~Has(cache, n)
    BY <1>4, <1>5, <2>2
  <2>. QED  BY <2>1, <2>2
<1>7. \/ ~NeedsLoad(Store, n) /\ ReturnModule(cache[n]) /\ UNCHANGED <<cache, sysmods, obj, bodies>>
      \/ /\ Dotted(n)
         /\ CallFrom([c EXCEPT !.pc = "parent", !.depth = Len(bodies)], LoadCall(Parent[n]))
         /\ SetStore(s) /\ UNCHANGED bodies
      \/ CreateAndQueue(s, n)
  BY <1>1, <1>2, <1>4 DEF LoadStart
<1>8. CASE ~NeedsLoad(Store, n) /\ ReturnModule(cache[n]) /\ UNCHANGED <<cache, sysmods, obj, bodies>>
  <2>0. Store' = Store /\ Tame(Store, Store') /\ SameMarks(Store, Store') /\ EntriesAreNew /\ PrunedIf(prog, Store')
    BY <1>1, <1>8, Settled
  <2>1. n \in DOMAIN Store.cache
    BY <1>8 DEF NeedsLoad, Has
  <2>2. Named(Store, cache[n], n)
    BY <1>5, <2>1, CacheNamed, StoreIs
  <2>. QED  BY <1>1, <1>2, <1>3, <1>8, <2>0, <2>2, StepReturn
<1>9. CASE /\ Dotted(n)
           /\ CallFrom([c EXCEPT !.pc = "parent", !.depth = Len(bodies)], LoadCall(Parent[n]))
           /\ SetStore(s) /\ UNCHANGED bodies
  <2>0. Store' = s
    BY <1>6, <1>9, StoreSet DEF StoreOK
  <2>1. EntriesAreNew /\ PrunedIf(prog, Store')
    BY <1>1, <1>6, <2>0, FreshWhenPruned
  <2>2. PICK h : h = [c EXCEPT !.pc = "parent", !.depth = Len(bodies)]
    OBVIOUS
  <2>3. PICK d : d = LoadCall(Parent[n])
    OBVIOUS
  <2>4. h \in LoadType /\ h.op = "load" /\ h.n = n /\ h.pc = "parent" /\ h.depth = Len(bodies)
    BY <1>1, <1>2, <2>2, CoreFacts DEF LoadType
  <2>5. h \in CallType /\ Becomes(calls[1], h) /\ CallOK(Store', h) /\ Waits(h) /\ Level(h) = Len(bodies)
    BY <1>1, <1>2, <1>9, <2>4 DEF CallType, Becomes, CallOK, Waits, Level
  <2>6. /\ d \in CallType /\ d.op = "load" /\ d.n = Parent[n] /\ ~Waits(d) /\ CallOK(Store', d) /\ Starts(d)
    BY <1>3, <1>9, <2>3, ParentName, LoadCallFacts
  <2>7. CalledBy(d, h)
    BY <2>4, <2>6 DEF CalledBy, LoadedBy
  <2>8. CallFrom(h, d)
    BY <1>9, <2>2, <2>3
  <2>9. CoreInv'
    BY <1>1, <1>3, <1>6, <1>9, <2>0, <2>1, <2>5, <2>6, <2>7, <2>8, StepCall
  <2>. QED  BY <2>1, <2>9
<1>10. CASE CreateAndQueue(s, n)
  BY <1>1, <1>2, <1>3, <1>6, <1>10, CreateAndQueueCore
<1>. QED  BY <1>7, <1>8, <1>9, <1>10

LEMMA LoadAfterParentCore ==
  ASSUME CoreInv, calls # <<>>, calls[1].op = "load", calls[1].n \in Names, PrunedIf(prog, Store),
         LoadAfterParent, UNCHANGED prog
  PROVE  CoreInv' /\ EntriesAreNew
<1>1. Head(calls) = calls[1]
  BY CoreFacts, StackFacts
<1>2. PICK n : n = calls[1].n
  OBVIOUS
<1>3. StoreOK(Store) /\ Tame(Store, Store) /\ SameMarks(Store, Store)
  BY CoreFacts, TameSelf
<1>4. CASE Has(cache, n) /\ ReturnModule(cache[n]) /\ UNCHANGED <<cache, sysmods, obj, bodies>>
  <2>0. Store' = Store /\ Tame(Store, Store') /\ SameMarks(Store, Store') /\ EntriesAreNew /\ PrunedIf(prog, Store')
    BY <1>4, Settled
  <2>1. Named(Store, cache[n], n)
    BY <1>3, <1>4, CacheNamed, StoreIs DEF Has
  <2>. QED  BY <1>2, <1>4, <2>0, <2>1, StepReturn
<1>5. CASE ~Has(cache, n) /\ Has(sysmods, n)
  BY <1>3, <1>5, SysNamed, StoreIs DEF Has
<1>6. CASE CreateAndQueue(Store, n)
  BY <1>2, <1>3, <1>6, CreateAndQueueCore
<1>. QED  BY <1>1, <1>2, <1>4, <1>5, <1>6 DEF LoadAfterParent

LEMMA LoadParentCore ==
  ASSUME CoreInv, LoadParent
  PROVE  CoreInv' /\ EntriesAreNew
<1>1. /\ calls # <<>> /\ Head(calls) = calls[1] /\ calls[1] \in LoadType /\ calls[1] \in CallType
      /\ calls[1].op = "load" /\ calls[1].pc = "parent" /\ PrunedIf(prog, Store) /\ CallOK(Store, calls[1])
      /\ Level(calls[1]) \in 1 .. Len(bodies) /\ Level(calls[1]) = calls[1].depth /\ Waits(calls[1])
  BY AtLoad DEF LoadParent, Waits
<1>2. PICK c : c = calls[1]
  OBVIOUS
<1>3. c.n \in Names /\ UNCHANGED prog
  BY <1>1, <1>2 DEF LoadType, LoadParent
<1>4. CASE Fail /\ UNCHANGED <<cache, sysmods, obj, bodies>>
  <2>0. Store' = Store /\ Tame(Store, Store') /\ SameMarks(Store, Store') /\ EntriesAreNew /\ PrunedIf(prog, Store')
    BY <1>1, <1>4, Settled
  <2>. QED  BY <1>1, <1>3, <1>4, <2>0, StepFail
<1>5. CASE CallAt("drained", RunCall(Head(calls).depth)) /\ UNCHANGED <<cache, sysmods, obj, bodies>>
  <2>0. Store' = Store /\ Tame(Store, Store') /\ SameMarks(Store, Store') /\ EntriesAreNew /\ PrunedIf(prog, Store')
    BY <1>1, <1>5, Settled
  <2>1. PICK h : h = [c EXCEPT !.pc = "drained"]
    OBVIOUS
  <2>2. PICK d : d = RunCall(c.depth)
    OBVIOUS
  <2>3. CallFrom(h, d)
    BY <1>1, <1>2, <1>5, <2>1, <2>2 DEF CallAt
  <2>4. h \in LoadType /\ h.op = "load" /\ h.n = c.n /\ h.pc = "drained" /\ h.depth = c.depth
    BY <1>1, <1>2, <2>1 DEF LoadType
  <2>5. h \in CallType /\ Becomes(calls[1], h) /\ CallOK(Store', h) /\ Waits(h) /\ Level(h) = Level(calls[1])
    BY <1>1, <1>2, <2>4 DEF CallType, Becomes, CallOK, Waits, Level
  <2>6. /\ d \in CallType /\ d.op = "run" /\ d.stop = c.depth /\ Level(d) = c.depth /\ CallOK(Store', d) /\ Starts(d)
    <3>1. c.depth \in Nat \ {0}
      BY <1>1, <1>2, CoreFacts
    <3>. QED  BY <2>2, <3>1, RunCallFacts
  <2>7. CalledBy(d, h) /\ Level(d) = Level(h)
    BY <1>1, <1>2, <2>4, <2>5, <2>6 DEF CalledBy, RunBy
  <2>8. CoreInv'
    BY <1>1, <1>3, <1>5, <2>0, <2>3, <2>5, <2>6, <2>7, StepCall
  <2>. QED  BY <2>0, <2>8
<1>6. CASE LoadAfterParent
  BY <1>1, <1>2, <1>3, <1>6, LoadAfterParentCore
<1>. QED  BY <1>4, <1>5, <1>6 DEF LoadParent

LEMMA LoadDrainedCore ==
  ASSUME CoreInv, LoadDrained
  PROVE  CoreInv' /\ EntriesAreNew
<1>1. /\ calls # <<>> /\ Head(calls) = calls[1] /\ calls[1] \in LoadType /\ calls[1].op = "load"
      /\ PrunedIf(prog, Store)
  BY AtLoad DEF LoadDrained
<1>2. calls[1].n \in Names /\ UNCHANGED prog
  BY <1>1 DEF LoadType, LoadDrained
<1>3. CASE ret.ok
  <2>1. LoadAfterParent
    BY <1>3 DEF LoadDrained
  <2>. QED  BY <1>1, <1>2, <2>1, LoadAfterParentCore
<1>4. CASE ~ret.ok
  <2>1. Fail /\ UNCHANGED <<cache, sysmods, obj, bodies>>
    BY <1>4 DEF LoadDrained
  <2>2. Store' = Store /\ Tame(Store, Store') /\ SameMarks(Store, Store') /\ EntriesAreNew /\ PrunedIf(prog, Store')
    BY <1>1, <2>1, Settled
  <2>. QED  BY <1>1, <1>2, <2>1, <2>2, StepFail
<1>. QED  BY <1>3, <1>4

(* A non-empty set of naturals has a least element, and Min returns it. *)
LEMMA MinOfNats ==
  ASSUME NEW S, S \subseteq Nat, S # {}
  PROVE  Min(S) \in S /\ \A y \in S : Min(S) <= y
<1>1. PICK x \in S : \A y \in S : ~ (<<y, x>> \in OpToRel(<, Nat))
  BY NatLessThanWellFounded, WFMin
<1>2. ASSUME NEW y \in S PROVE x <= y
  <2>1. x \in Nat /\ y \in Nat
    OBVIOUS
  <2>2. ~(y < x)
    BY <1>1, <2>1 DEF OpToRel
  <2>. QED  BY <2>1, <2>2
<1>. QED  BY <1>2 DEF Min

(* Max returns it.                                                          *)
LEMMA MaxOfPositions ==
  ASSUME NEW n \in Nat, NEW S, S \subseteq 1 .. n, S # {}
  PROVE  Max(S) \in S /\ \A y \in S : y <= Max(S)
<1>. DEFINE T == {n - x : x \in S}
<1>1. T \subseteq Nat /\ T # {}
  OBVIOUS
<1>2. Min(T) \in T /\ \A y \in T : Min(T) <= y
  BY <1>1, MinOfNats
<1>3. PICK x \in S : Min(T) = n - x
  BY <1>2
<1>4. ASSUME NEW y \in S PROVE y <= x
  <2>1. n - y \in T
    OBVIOUS
  <2>2. n - x <= n - y
    BY <2>1, <1>2, <1>3
  <2>3. x \in Int /\ y \in Int
    OBVIOUS
  <2>. QED  BY <2>2, <2>3
<1>. QED  BY <1>4 DEF Max

(* What popping the top of a stack leaves. *)

-----------------------------------------------------------------------------
(* What the code does with a frame. *)

(* Frames change in flags only. *)
LEMMA FramesMap ==
  ASSUME NEW s, NEW fr, FramesOK(s, fr), NEW g \in Seq(FrameType), Len(g) = Len(fr),
         \A i \in 1 .. Len(fr) : /\ g[i].obj = fr[i].obj /\ g[i].guard = fr[i].guard
                                 /\ g[i].again = fr[i].again /\ g[i].got \subseteq DOMAIN s.obj
  PROVE  FramesOK(s, g)
<1>1. 1 \in 1 .. Len(fr) /\ g # <<>> /\ \A i \in 2 .. Len(fr) : i \in 1 .. Len(fr)
  BY FramesFacts
<1>. QED  BY <1>1 DEF FramesOK

SetFrame(fr, k, f) == [fr EXCEPT ![k] = f]

IsEdit(s, fr, k, f, g) ==
  /\ FramesOK(s, g) /\ Len(g) = Len(fr) /\ g[k] = f
  /\ \A i \in 1 .. Len(fr) : i # k => g[i] = fr[i]

LEMMA EditIs ==
  ASSUME NEW s, NEW fr, FramesOK(s, fr), NEW k \in 1 .. Len(fr), NEW f \in FrameType,
         f.obj = fr[k].obj, k = 1 => f.guard, f.got \subseteq DOMAIN s.obj,
         f.again # NoInstr => InstrOK(f.again)
  PROVE  IsEdit(s, fr, k, f, SetFrame(fr, k, f))
<1>1. PICK g : g = SetFrame(fr, k, f)
  OBVIOUS
<1>2. /\ g \in Seq(FrameType) /\ Len(g) = Len(fr) /\ g # <<>> /\ g[k] = f
      /\ \A i \in 1 .. Len(fr) : i # k => g[i] = fr[i]
  BY <1>1, FramesFacts DEF SetFrame
<1>3. \A i \in 1 .. Len(fr) : g[i].obj = fr[i].obj
  BY <1>2
<1>4. 1 \in 1 .. Len(fr) /\ \A i \in 2 .. Len(fr) : i \in 1 .. Len(fr)
  BY FramesFacts
<1>5. FramesOK(s, g)
  BY <1>2, <1>3, <1>4 DEF FramesOK
<1>6. IsEdit(s, fr, k, f, g)
  BY <1>2, <1>5 DEF IsEdit
<1>. QED  BY <1>1, <1>6

LEMMA SpendFacts ==
  ASSUME CoreInv, NEW who \in {"main", "body"}, Spend(who)
  PROVE  /\ Running /\ Ready /\ bodies[Top].again = NoInstr
         /\ prog' \in ProgramType /\ prog'.body.dels = prog.body.dels
         /\ prog'.main.dels = prog.main.dels /\ prog'.main.ops = prog.main.ops
         /\ prog'.body.ops = prog.body.ops /\ prog'.names = prog.names
<1>1. prog \in ProgramType /\ prog.main \in CodeType /\ prog.body \in CodeType
  BY CoreFacts DEF ProgramType
<1>2. prog' = [prog EXCEPT ![who].left = @ - 1] /\ prog[who].left > 0 /\ Ready
  BY DEF Spend
<1>3. CASE who = "main"
  <2>1. PICK m : m = [prog.main EXCEPT !.left = @ - 1]
    OBVIOUS
  <2>2. m \in CodeType /\ m.ops = prog.main.ops /\ m.dels = prog.main.dels
    BY <1>1, <1>2, <1>3, <2>1 DEF CodeType
  <2>3. prog' = [prog EXCEPT !.main = m]
    BY <1>2, <1>3, <2>1
  <2>. QED  BY <1>1, <1>2, <2>2, <2>3 DEF ProgramType, Ready
<1>4. CASE who = "body"
  <2>1. PICK m : m = [prog.body EXCEPT !.left = @ - 1]
    OBVIOUS
  <2>2. m \in CodeType /\ m.ops = prog.body.ops /\ m.dels = prog.body.dels
    BY <1>1, <1>2, <1>4, <2>1 DEF CodeType
  <2>3. prog' = [prog EXCEPT !.body = m]
    BY <1>2, <1>4, <2>1
  <2>. QED  BY <1>1, <1>2, <2>2, <2>3 DEF ProgramType, Ready
<1>. QED  BY <1>3, <1>4

LEMMA RunningFacts ==
  ASSUME CoreInv, Running
  PROVE  /\ calls # <<>> => calls[1].op = "run" /\ calls[1] \in CallType /\ calls[1].stop < Len(bodies)
                            /\ calls[1].stop \in Nat \ {0}
         /\ PrunedIf(prog, Store) \/ (Len(bodies) = 1 /\ calls = <<>>)
         /\ Len(bodies) = 1 => calls = <<>>
         /\ Top = Len(bodies) /\ Len(bodies) \in Nat \ {0} /\ bodies[Top] \in FrameType
<1>1. /\ StackOK(Store, Len(bodies), calls) /\ FramesOK(Store, bodies) /\ PrunedOK(Store, Len(bodies), calls, prog)
      /\ Len(bodies) \in Nat \ {0}
  BY CoreFacts
<1>2. ASSUME calls # <<>>
      PROVE  /\ calls[1].op = "run" /\ calls[1] \in CallType /\ calls[1].stop < Len(bodies)
             /\ calls[1].stop \in Nat \ {0}
  <2>1. Head(calls) = calls[1] /\ calls[1] \in CallType
    BY <1>1, <1>2, StackFacts
  <2>2. calls[1].op = "run" /\ Len(bodies) > calls[1].stop
    BY <1>2, <2>1 DEF Running, StopOf, Top
  <2>3. calls[1].stop \in Nat \ {0}
    BY <2>1, <2>2, CallFields DEF RunType
  <2>. QED  BY <2>1, <2>2, <2>3
<1>3. Len(bodies) = 1 => calls = <<>>
  BY <1>2
<1>4. PrunedIf(prog, Store) \/ (Len(bodies) = 1 /\ calls = <<>>)
  <2>1. CASE calls = <<>>
    BY <1>1, <2>1 DEF PrunedOK, PrunedIf, Early
  <2>2. CASE calls # <<>>
    BY <1>1, <1>2, <2>2 DEF PrunedOK, PrunedIf, Early
  <2>. QED  BY <2>1, <2>2
<1>5. bodies[Len(bodies)] \in FrameType
  BY <1>1, FramesFacts
<1>. QED  BY <1>1, <1>2, <1>3, <1>4, <1>5 DEF Top

StartedStore == [Store EXCEPT !.obj = Started]

IsStarted(s) ==
  /\ IsMarked(Store, s) /\ SameMarks(Store, s)
  /\ Len(bodies) = 1 => s = Store
  /\ Len(bodies) > 1 => /\ bodies[Len(bodies)].obj \in DOMAIN Store.obj
                        /\ FlagsSet(Store, bodies[Len(bodies)].obj,
                                    [Store.obj[bodies[Len(bodies)].obj] EXCEPT !.st = "run"], s)
  /\ s.cache = cache /\ s.sys = sysmods /\ s.obj = Started

LEMMA StartedIs ==
  ASSUME CoreInv
  PROVE  IsStarted(StartedStore)
<1>1. StoreOK(Store) /\ FramesOK(Store, bodies) /\ Len(bodies) \in Nat \ {0}
  BY CoreFacts
<1>2. StartedStore.cache = cache /\ StartedStore.sys = sysmods /\ StartedStore.obj = Started
  BY DEF StartedStore, Store
<1>3. CASE Len(bodies) = 1
  <2>1. StartedStore = Store
    BY <1>3 DEF StartedStore, Started, Top, Store
  <2>2. IsMarked(Store, Store) /\ SameMarks(Store, Store)
    BY <1>1, TameSelf DEF IsMarked, StoreOK
  <2>3. ~(Len(bodies) > 1)
    BY <1>3
  <2>. QED  BY <1>2, <1>3, <2>1, <2>2, <2>3 DEF IsStarted
<1>4. CASE Len(bodies) > 1
  <2>1. PICK o : o = bodies[Len(bodies)].obj
    OBVIOUS
  <2>2. o \in DOMAIN Store.obj
    <3>1. Len(bodies) \in 2 .. Len(bodies)
      BY <1>1, <1>4
    <3>. QED  BY <1>1, <2>1, <3>1 DEF FramesOK
  <2>3. PICK m : m = [Store.obj[o] EXCEPT !.st = "run"]
    OBVIOUS
  <2>4. m \in Mod /\ SameNames(m, Store.obj[o]) /\ m.init = Store.obj[o].init
    <3>1. Store.obj[o] \in Mod
      BY <1>1, <2>2, ObjDomain
    <3>. QED  BY <2>3, <3>1 DEF Mod, SameNames, States
  <2>5. StartedStore = SetFlags(Store, o, m)
    BY <1>4, <2>1, <2>3 DEF StartedStore, SetFlags, Started, Top, Store
  <2>6. FlagsSet(Store, o, m, StartedStore)
    BY <1>1, <2>2, <2>4, <2>5, FlagsIs
  <2>7. IsMarked(Store, StartedStore)
    BY <2>6 DEF FlagsSet
  <2>8. SameMarks(Store, StartedStore)
    <3>1. DOMAIN StartedStore.obj = DOMAIN Store.obj
      BY <1>1, <2>7, MarkedOK, ObjDomain DEF IsMarked
    <3>. QED  BY <2>4, <2>6, <3>1 DEF FlagsSet, SameMarks
  <2>9. Len(bodies) # 1
    <3>1. \A l \in Nat : l > 1 => l # 1
      OBVIOUS
    <3>. QED  BY <1>1, <1>4, <3>1
  <2>. QED  BY <1>2, <2>1, <2>2, <2>3, <2>6, <2>7, <2>8, <2>9 DEF IsStarted
<1>5. \A l \in Nat \ {0} : l = 1 \/ l > 1
  OBVIOUS
<1>. QED  BY <1>1, <1>3, <1>4, <1>5

-----------------------------------------------------------------------------
(* unwind_exception_internal *)

LostObjects(k) == {bodies[i].obj : i \in k + 1 .. Len(bodies)}

IsUnwound(s, rest, k, t) ==
  /\ IsCleaned(s, LostObjects(k), t) /\ SetStore(t)
  /\ \/ /\ rest # <<>> /\ k = rest[1].stop
        /\ bodies' = SubSeq(bodies, 1, k) /\ calls' = Tail(rest) /\ ret' = Err
     \/ /\ (rest # <<>> => k > rest[1].stop) /\ bodies[k].guard
        /\ bodies' = [SubSeq(bodies, 1, k) EXCEPT
                        ![k] = [SubSeq(bodies, 1, k)[k] EXCEPT !.guard = (k = 1), !.got = {}, !.again = NoInstr]]
        /\ calls' = rest /\ ret' = NoRet

LEMMA UnwindIs ==
  ASSUME CoreInv, NEW s, StoreOK(s), NEW rest, StackOK(Store, Len(bodies), rest),
         rest # <<>> => rest[1].op = "run", UnwindTo(s, rest)
  PROVE  \E k \in 1 .. Len(bodies) : \E t : IsUnwound(s, rest, k, t)
<1>. DEFINE stop == StopOf(rest)
            handlers == {i \in stop + 1 .. Top : bodies[i].guard}
            k == IF handlers = {} THEN stop ELSE Max(handlers)
            lost == {bodies[i].obj : i \in k + 1 .. Top}
<1>1. /\ SetStore(CleanupFailedFrames(s, lost))
      /\ IF handlers = {}
         THEN /\ bodies' = SubSeq(bodies, 1, k)
              /\ calls' = Tail(rest) /\ ret' = Err
         ELSE /\ bodies' = [SubSeq(bodies, 1, k) EXCEPT
                              ![k] = [SubSeq(bodies, 1, k)[k] EXCEPT !.guard = (k = 1), !.got = {}, !.again = NoInstr]]
              /\ calls' = rest /\ ret' = NoRet
  BY DEF UnwindTo
<1>2. FramesOK(Store, bodies) /\ Len(bodies) \in Nat \ {0}
  BY CoreFacts
<1>3. rest # <<>> => stop = rest[1].stop /\ stop \in 1 .. Len(bodies)
  <2>1. ASSUME rest # <<>> PROVE stop = rest[1].stop /\ stop \in 1 .. Len(bodies)
    <3>1. Head(rest) = rest[1] /\ 1 \in 1 .. Len(rest)
      BY <2>1, StackFacts
    <3>2. Waits(rest[1]) /\ Level(rest[1]) = rest[1].stop
      BY <2>1 DEF Waits, Level
    <3>3. rest[1].stop \in 1 .. Len(bodies)
      BY <3>1, <3>2 DEF StackOK
    <3>. QED  BY <2>1, <3>1, <3>3 DEF StopOf
  <2>. QED  BY <2>1
<1>4. rest = <<>> => stop = 0 /\ handlers # {}
  BY <1>2 DEF StopOf, FramesOK, Top
<1>5. stop \in 0 .. Len(bodies)
  BY <1>2, <1>3, <1>4
<1>6. handlers # {} => k \in stop + 1 .. Len(bodies) /\ bodies[k].guard
  <2>1. ASSUME handlers # {} PROVE Max(handlers) \in stop + 1 .. Len(bodies) /\ bodies[Max(handlers)].guard
    <3>1. /\ handlers \subseteq 1 .. Len(bodies) /\ handlers \subseteq stop + 1 .. Len(bodies)
          /\ \A i \in handlers : bodies[i].guard
      BY <1>5 DEF Top
    <3>. HIDE DEF handlers
    <3>2. Max(handlers) \in handlers
      BY <1>2, <2>1, <3>1, MaxOfPositions
    <3>. QED  BY <3>1, <3>2
  <2>. QED  BY <2>1
<1>7. k \in 1 .. Len(bodies)
  BY <1>2, <1>3, <1>4, <1>5, <1>6
<1>8. lost = LostObjects(k)
  BY DEF LostObjects, Top
<1>. PICK t : t = CleanupFailedFrames(s, lost)
  OBVIOUS
<1>9. IsCleaned(s, LostObjects(k), t)
  BY <1>8, CleanedIs
<1>10. CASE handlers = {}
  <2>1. rest # <<>> /\ k = rest[1].stop
    BY <1>3, <1>4, <1>10
  <2>2. IsUnwound(s, rest, k, t)
    BY <1>1, <1>9, <1>10, <2>1 DEF IsUnwound
  <2>. QED  BY <1>7, <2>2
<1>11. CASE handlers # {}
  <2>1. (rest # <<>> => k > rest[1].stop) /\ bodies[k].guard
    BY SMTT(60), <1>2, <1>3, <1>6, <1>11
  <2>. HIDE DEF k, handlers, lost
  <2>2. IsUnwound(s, rest, k, t)
    BY <1>1, <1>9, <1>11, <2>1 DEF IsUnwound
  <2>. QED  BY <1>7, <2>2
<1>. QED  BY <1>10, <1>11

LEMMA UnwindCore ==
  ASSUME CoreInv, NEW s, StoreOK(s), Tame(Store, s), SameMarks(Store, s), PrunedIf(prog, Store),
         NEW rest, StackOK(Store, Len(bodies), rest), rest # <<>> => rest[1].op = "run",
         UnwindTo(s, rest), prog' \in ProgramType, prog'.body.dels = prog.body.dels
  PROVE  CoreInv' /\ EntriesAreNew
<1>0. PICK k \in 1 .. Len(bodies) : \E t : IsUnwound(s, rest, k, t)
  BY UnwindIs
<1>1. PICK t : IsUnwound(s, rest, k, t)
  BY <1>0
<1>2. IsCleaned(s, LostObjects(k), t) /\ SetStore(t)
  BY <1>1 DEF IsUnwound
<1>3. /\ Tame(s, t) /\ Len(t.obj) = Len(s.obj) /\ StoreOK(t) /\ Evolves(s, t)
      /\ \A i \in DOMAIN t.obj : t.obj[i].init <=> s.obj[i].init /\ i \notin LostObjects(k)
  BY <1>2, CleanedTame DEF Tame
<1>4. StoreOK(Store) /\ FramesOK(Store, bodies) /\ StackOK(Store, Len(bodies), calls) /\ Len(bodies) \in Nat \ {0}
  BY CoreFacts
<1>5. Tame(Store, t) /\ Evolves(Store, t)
  BY <1>3, <1>4, TameTwice DEF Tame
<1>6. Store' = t
  BY <1>2, <1>3, StoreSet DEF StoreOK
<1>7. EntriesAreNew /\ PrunedIf(prog, t)
  BY <1>5, <1>6, FreshWhenPruned
<1>8. FramesOK(s, bodies)
  BY <1>4, FramesSame
<1>9. PICK g : g = SubSeq(bodies, 1, k)
  OBVIOUS
<1>10. FramesOK(t, g) /\ Len(g) = k /\ \A i \in 1 .. k : g[i] = bodies[i]
  <2>1. DOMAIN t.obj = DOMAIN s.obj
    BY <1>3, ObjDomain
  <2>2. \A i \in DOMAIN t.obj : t.obj[i].init <=> /\ i \in DOMAIN s.obj /\ s.obj[i].init
                                   /\ i \notin {bodies[j].obj : j \in k + 1 .. Len(bodies)}
    BY <1>3, <2>1 DEF LostObjects
  <2>. QED  BY <1>3, <1>8, <1>9, <2>2, FramesCut
<1>11. StackOK(t, Len(bodies), rest)
  <2>1. Len(bodies) <= Len(bodies)
    BY <1>4
  <2>. QED  BY <1>3, <1>4, <1>5, <2>1, StackStays
<1>12. PICK fr, cs, r : fr = bodies' /\ cs = calls' /\ r = ret'
  OBVIOUS
<1>13. FramesOK(t, fr) /\ Len(fr) = k /\ StackOK(t, k, cs) /\ RetOK(t, cs, r) /\ r \in [ok : BOOLEAN, obj : Nat]
  <2>1. CASE rest # <<>> /\ k = rest[1].stop /\ fr = g /\ cs = Tail(rest) /\ r = Err
    <3>1. StackOK(t, k, rest)
      BY <1>11, <2>1, StackCut
    <3>2. StackOK(t, k, cs)
      BY <2>1, <3>1, StackPop
    <3>3. RetOK(t, cs, Err) /\ Err \in [ok : BOOLEAN, obj : Nat]
      BY DEF RetOK, Returned, Err
    <3>. QED  BY <1>10, <2>1, <3>2, <3>3
  <2>2. CASE /\ rest # <<>> => k > rest[1].stop
             /\ fr = [g EXCEPT ![k] = [g[k] EXCEPT !.guard = (k = 1), !.got = {}, !.again = NoInstr]]
             /\ cs = rest /\ r = NoRet
    <3>1. PICK f : f = [g[k] EXCEPT !.guard = (k = 1), !.got = {}, !.again = NoInstr]
      OBVIOUS
    <3>2. k \in 1 .. Len(g)
      BY <1>10
    <3>3. g[k] \in FrameType /\ (g[k].again # NoInstr => InstrOK(g[k].again))
      BY <1>10, <3>2, FramesFacts DEF FramesOK
    <3>4. f \in FrameType /\ f.obj = g[k].obj /\ (k = 1 => f.guard) /\ f.got = {} /\ f.again = NoInstr
      BY <3>1, <3>3 DEF FrameType
    <3>5. f.got \subseteq DOMAIN t.obj /\ (f.again # NoInstr => InstrOK(f.again))
      BY <3>3, <3>4
    <3>6. fr = [g EXCEPT ![k] = f]
      BY <2>2, <3>1
    <3>7. FramesOK(t, [g EXCEPT ![k] = f]) /\ Len([g EXCEPT ![k] = f]) = Len(g)
      <4>1. IsEdit(t, g, k, f, SetFrame(g, k, f))
        BY <1>10, <3>2, <3>4, <3>5, EditIs
      <4>. QED  BY <4>1 DEF IsEdit, SetFrame
    <3>8. rest # <<>> => rest[1].stop <= k
      <4>1. ASSUME rest # <<>> PROVE rest[1].stop \in Nat
        BY <4>1, <1>11, StackFacts, CallFields DEF RunType
      <4>. QED  BY <2>2, <4>1
    <3>9. StackOK(t, k, cs)
      BY <1>11, <2>2, <3>8, StackCut
    <3>10. RetOK(t, cs, r) /\ r \in [ok : BOOLEAN, obj : Nat]
      BY <2>2 DEF RetOK, NoRet
    <3>. QED  BY <1>10, <3>6, <3>7, <3>9, <3>10
  <2>. QED  BY <1>1, <1>9, <1>12, <2>1, <2>2 DEF IsUnwound
<1>14. Core(t, fr, cs, r, prog')
  BY <1>3, <1>7, <1>13 DEF Core, PrunedOK, PrunedIf
<1>. QED  BY <1>6, <1>7, <1>12, <1>14 DEF CoreInv

LEMMA EndDrainCore ==
  ASSUME CoreInv, EndDrain
  PROVE  CoreInv' /\ EntriesAreNew
<1>1. /\ StackOK(Store, Len(bodies), calls) /\ FramesOK(Store, bodies)
      /\ PrunedOK(Store, Len(bodies), calls, prog) /\ StoreOK(Store)
  BY CoreFacts
<1>2. calls # <<>> /\ calls[1].op = "run"
  BY <1>1, StackFacts DEF EndDrain
<1>3. PrunedIf(prog, Store)
  BY <1>1, <1>2 DEF PrunedOK, PrunedIf, Early
<1>4. Store' = Store /\ Tame(Store, Store) /\ SameMarks(Store, Store) /\ EntriesAreNew
  BY <1>1, TameSelf, Settled DEF EndDrain
<1>5. calls' = Tail(calls) /\ ret' = NoRet /\ bodies' = bodies /\ prog' = prog
  BY DEF EndDrain
<1>6. Core(Store, bodies, Tail(calls), NoRet, prog)
  BY <1>1, <1>2, <1>3, <1>4, CoreBack DEF CoreInv
<1>. QED  BY <1>4, <1>5, <1>6 DEF CoreInv

-----------------------------------------------------------------------------
(* The import instructions *)

LEMMA InstrCallCore ==
  ASSUME CoreInv, NEW p0, At("instr", p0), NEW h \in InstrType, h.who = calls[1].who,
         NEW n \in Names, NEW b \in BOOLEAN, CallFrom(h, ImportCall(n, b)),
         CallOK(Store', h), ImportedBy(ImportCall(n, b), h),
         Tame(Store, Store'), SameMarks(Store, Store'),
         PrunedIf(prog, Store') \/ (p0 = "start" /\ Store' = Store), UNCHANGED <<bodies, prog>>
  PROVE  CoreInv'
<1>1. /\ calls # <<>> /\ Head(calls) = calls[1] /\ calls[1] \in InstrType
      /\ calls[1].op = "instr" /\ Waits(calls[1]) /\ Level(calls[1]) = calls[1].who
      /\ PrunedIf(prog, Store) \/ (p0 = "start" /\ Early(Len(bodies), calls) /\ Len(calls) = 1)
  BY AtInstr
<1>2. /\ h \in CallType /\ Becomes(calls[1], h) /\ Waits(h) /\ Level(h) = Level(calls[1])
      /\ h.op = "instr"
  BY <1>1 DEF InstrType, CallType, Becomes, Waits, Level
<1>3. PICK c : c = ImportCall(n, b)
  OBVIOUS
<1>4. PICK t : t = Store'
  OBVIOUS
<1>5. c \in CallType /\ c.op = "import" /\ ~Waits(c) /\ CallOK(t, c) /\ Starts(c)
  BY <1>3, ImportCallFacts
<1>6. CalledBy(c, h)
  BY <1>3, <1>5 DEF CalledBy
<1>7. \/ PrunedIf(prog, t)
      \/ Early(Len(bodies), calls) /\ calls[1].op = "instr" /\ Len(calls) = 1 /\ t = Store
  BY <1>1, <1>4
<1>8. Core(t, bodies, <<c, h>> \o Tail(calls), NoRet, prog)
  BY <1>1, <1>2, <1>4, <1>5, <1>6, <1>7, CoreCall DEF CoreInv
<1>9. calls' = <<c, h>> \o Tail(calls) /\ ret' = NoRet
  BY <1>3 DEF CallFrom
<1>. QED  BY <1>4, <1>8, <1>9 DEF CoreInv

LEMMA BindCore ==
  ASSUME CoreInv, NEW p0, At("instr", p0), p0 # "start", NEW s, Tame(Store, s), SameMarks(Store, s),
         NEW got, got \subseteq DOMAIN s.obj, Bind(s, got), UNCHANGED prog
  PROVE  CoreInv' /\ EntriesAreNew
<1>1. /\ calls # <<>> /\ Here = calls[1] /\ calls[1].op = "instr" /\ PrunedIf(prog, Store)
      /\ calls[1].who \in 1 .. Len(bodies)
  BY AtInstr
<1>2. StoreOK(s) /\ StoreOK(Store) /\ FramesOK(Store, bodies)
  BY CoreFacts DEF Tame
<1>3. PICK w \in 1 .. Len(bodies) : w = calls[1].who
  BY <1>1
<1>4. PICK u : u = IF w = 1 THEN s ELSE [s EXCEPT !.obj[bodies[w].obj].bound = TRUE]
  OBVIOUS
<1>5. SetStore(u)
  BY <1>1, <1>3, <1>4 DEF Bind
<1>6. Tame(Store, u) /\ SameMarks(Store, u) /\ DOMAIN u.obj = DOMAIN s.obj
  <2>1. CASE w = 1
    BY <2>1, <1>4
  <2>2. CASE w # 1
    <3>1. PICK o : o = bodies[w].obj
      OBVIOUS
    <3>2. FramesOK(s, bodies)
      BY <1>2, FramesSame
    <3>3. w \in 2 .. Len(bodies)
      BY <1>2, <2>2, FramesFacts
    <3>4. o \in DOMAIN s.obj
      BY <3>1, <3>2, <3>3 DEF FramesOK
    <3>5. PICK m : m = [s.obj[o] EXCEPT !.bound = TRUE]
      OBVIOUS
    <3>6. m \in Mod /\ SameNames(m, s.obj[o]) /\ (m.init <=> s.obj[o].init)
      <4>1. s.obj[o] \in Mod
        BY <1>2, <3>4, ObjDomain
      <4>. QED  BY <3>5, <4>1 DEF Mod, SameNames
    <3>7. u = SetFlags(s, o, m)
      BY <1>2, <1>4, <2>2, <3>1, <3>5 DEF SetFlags, StoreOK, StoreType
    <3>8. FlagsSet(s, o, m, SetFlags(s, o, m))
      BY <1>2, <3>4, <3>6, FlagsIs
    <3>9. FlagsSet(s, o, m, u) /\ IsMarked(s, u)
      BY <3>7, <3>8 DEF FlagsSet
    <3>10. Tame(s, u) /\ Len(u.obj) = Len(s.obj)
      BY <1>2, <3>9, MarkedTame DEF IsMarked
    <3>11. DOMAIN u.obj = DOMAIN s.obj
      BY <1>2, <3>10, ObjDomain DEF Tame
    <3>12. SameMarks(s, u)
      BY <3>6, <3>9, <3>11 DEF FlagsSet, SameMarks
    <3>. QED  BY <1>2, <3>10, <3>11, <3>12, TameTwice, SameMarksTwice
  <2>. QED  BY <2>1, <2>2
<1>7. Store' = u
  BY <1>5, <1>6, StoreSet DEF Tame, StoreOK
<1>8. EntriesAreNew /\ PrunedIf(prog, u)
  BY <1>1, <1>6, <1>7, FreshWhenPruned
<1>9. PICK f : f = [bodies[w] EXCEPT !.got = got]
  OBVIOUS
<1>10. FramesOK(u, bodies)
  BY <1>2, <1>6, FramesSame
<1>11. bodies[w] \in FrameType /\ (w = 1 => bodies[w].guard) /\ (bodies[w].again # NoInstr => InstrOK(bodies[w].again))
  BY <1>2, FramesFacts DEF FramesOK
<1>12. got \in SUBSET Nat
  BY <1>2, ObjDomain
<1>13. /\ f \in FrameType /\ f.obj = bodies[w].obj /\ f.guard = bodies[w].guard /\ f.got = got
       /\ f.again = bodies[w].again
  BY <1>9, <1>11, <1>12 DEF FrameType
<1>14. IsEdit(u, bodies, w, f, SetFrame(bodies, w, f))
  <2>1. f.got \subseteq DOMAIN u.obj
    BY SMTT(60), <1>6, <1>13
  <2>. QED  BY <1>10, <1>11, <1>13, <2>1, EditIs
<1>15. bodies' = SetFrame(bodies, w, f) /\ calls' = Tail(calls) /\ ret' = NoRet
  BY <1>1, <1>3, <1>9 DEF Bind, SetFrame
<1>16. FramesOK(u, bodies') /\ Len(bodies') = Len(bodies)
  BY <1>14, <1>15 DEF IsEdit
<1>17. Core(u, bodies', Tail(calls), NoRet, prog)
  BY <1>1, <1>6, <1>8, <1>16, CoreBack DEF CoreInv
<1>. QED  BY <1>7, <1>8, <1>15, <1>17 DEF CoreInv

LEMMA RepeatCore ==
  ASSUME CoreInv, NEW p0, At("instr", p0), p0 # "start", NEW s, Tame(Store, s), SameMarks(Store, s),
         Repeat(s), UNCHANGED prog
  PROVE  CoreInv' /\ EntriesAreNew
<1>1. /\ calls # <<>> /\ Here = calls[1] /\ calls[1].op = "instr" /\ PrunedIf(prog, Store)
      /\ calls[1].who \in 1 .. Len(bodies) /\ calls[1] \in InstrType /\ CallOK(Store, calls[1])
  BY AtInstr
<1>2. StoreOK(s) /\ StoreOK(Store) /\ FramesOK(Store, bodies)
  BY CoreFacts DEF Tame
<1>3. PICK w \in 1 .. Len(bodies) : w = calls[1].who
  BY <1>1
<1>4. PICK i : i = calls[1].i
  OBVIOUS
<1>5. i \in Instr /\ InstrOK(i)
  BY <1>1, <1>4 DEF InstrType, CallOK
<1>6. Store' = s
  BY <1>2, StoreSet DEF StoreOK, Repeat
<1>7. EntriesAreNew /\ PrunedIf(prog, s)
  BY <1>1, <1>6, FreshWhenPruned
<1>8. PICK f : f = [bodies[w] EXCEPT !.again = i]
  OBVIOUS
<1>9. FramesOK(s, bodies)
  BY <1>2, FramesSame
<1>10. bodies[w] \in FrameType /\ (w = 1 => bodies[w].guard) /\ bodies[w].got \subseteq DOMAIN s.obj
  BY <1>9, FramesFacts DEF FramesOK
<1>11. /\ f \in FrameType /\ f.obj = bodies[w].obj /\ f.guard = bodies[w].guard /\ f.got = bodies[w].got
       /\ f.again = i
  BY <1>5, <1>8, <1>10 DEF FrameType
<1>12. IsEdit(s, bodies, w, f, SetFrame(bodies, w, f))
  <2>1. f.got \subseteq DOMAIN s.obj
    BY <1>10, <1>11
  <2>. QED  BY <1>5, <1>9, <1>10, <1>11, <2>1, EditIs
<1>13. bodies' = SetFrame(bodies, w, f) /\ calls' = Tail(calls) /\ ret' = NoRet
  BY <1>1, <1>3, <1>4, <1>8 DEF Repeat, SetFrame
<1>14. FramesOK(s, bodies') /\ Len(bodies') = Len(bodies)
  BY <1>12, <1>13 DEF IsEdit
<1>15. Core(s, bodies', Tail(calls), NoRet, prog)
  BY <1>1, <1>7, <1>14, CoreBack DEF CoreInv
<1>. QED  BY <1>6, <1>7, <1>13, <1>15 DEF CoreInv

LEMMA RaiseHereCore ==
  ASSUME CoreInv, NEW p0, At("instr", p0), p0 # "start", NEW s, Tame(Store, s), SameMarks(Store, s),
         RaiseHere(s), UNCHANGED prog
  PROVE  CoreInv' /\ EntriesAreNew
<1>1. calls # <<>> /\ calls[1].op = "instr" /\ PrunedIf(prog, Store)
  BY AtInstr
<1>2. StackOK(Store, Len(bodies), calls) /\ prog \in ProgramType /\ StoreOK(s)
  BY CoreFacts DEF Tame
<1>3. PICK rest : rest = Tail(calls)
  OBVIOUS
<1>4. StackOK(Store, Len(bodies), rest)
  BY <1>1, <1>2, <1>3, StackPop
<1>5. rest # <<>> => rest[1].op = "run"
  <2>1. rest # <<>> => CalledBy(calls[1], rest[1])
    BY <1>1, <1>2, <1>3, StackPop
  <2>. QED  BY <1>1, <2>1 DEF CalledBy
<1>6. UnwindTo(s, rest)
  BY <1>3 DEF RaiseHere
<1>7. prog' \in ProgramType /\ prog'.body.dels = prog.body.dels
  BY <1>2
<1>. QED  BY <1>1, <1>2, <1>4, <1>5, <1>6, <1>7, UnwindCore

(* The instruction imports the package or the module it names. *)
LEMMA InstrImportsCore ==
  ASSUME CoreInv, NEW p0, At("instr", p0), NEW pc \in {"deferred", "head", "imported"},
         NEW n \in Names, NEW b \in BOOLEAN, CallAt(pc, ImportCall(n, b)),
         pc # "imported" => Dotted(calls[1].i.n) /\ n = Parent[calls[1].i.n] /\ ~b /\ calls[1].i.k # "resolve",
         pc = "imported" => n = calls[1].i.n /\ (b <=> calls[1].i.k = "resolve"),
         UNCHANGED <<cache, sysmods, obj, bodies, prog>>
  PROVE  CoreInv' /\ EntriesAreNew
<1>1. /\ calls # <<>> /\ Head(calls) = calls[1] /\ calls[1] \in InstrType
      /\ calls[1].op = "instr" /\ CallOK(Store, calls[1])
      /\ PrunedIf(prog, Store) \/ p0 = "start"
  BY AtInstr
<1>2. Store' = Store /\ Tame(Store, Store') /\ SameMarks(Store, Store') /\ EntriesAreNew
  BY Settled
<1>3. PICK h : h = [calls[1] EXCEPT !.pc = pc]
  OBVIOUS
<1>4. h \in InstrType /\ h.who = calls[1].who /\ h.i = calls[1].i /\ h.pc = pc /\ h.op = "instr"
  BY <1>1, <1>3 DEF InstrType
<1>5. CallFrom(h, ImportCall(n, b))
  BY <1>1, <1>3 DEF CallAt
<1>6. CallOK(Store', h)
  BY <1>1, <1>4 DEF CallOK
<1>7. PICK c : c = ImportCall(n, b)
  OBVIOUS
<1>8. c.n = n /\ (c.sync <=> b)
  BY <1>7, ImportCallFacts
<1>9. ImportedBy(c, h)
  <2>1. CASE pc = "imported"
    BY <2>1, <1>4, <1>8 DEF ImportedBy
  <2>2. CASE pc # "imported"
    BY <2>2, <1>4, <1>8 DEF ImportedBy
  <2>. QED  BY <2>1, <2>2
<1>10. PrunedIf(prog, Store') \/ (p0 = "start" /\ Store' = Store)
  BY <1>1, <1>2
<1>11. UNCHANGED <<bodies, prog>>
  OBVIOUS
<1>12. CoreInv'
  BY <1>2, <1>4, <1>5, <1>6, <1>7, <1>9, <1>10, <1>11, InstrCallCore
<1>. QED  BY <1>2, <1>12

LEMMA InstrStartCore ==
  ASSUME CoreInv, InstrStart
  PROVE  CoreInv' /\ EntriesAreNew
<1>1. At("instr", "start") /\ UNCHANGED <<cache, sysmods, obj, bodies, prog>>
  BY DEF InstrStart
<1>2. Here = calls[1] /\ calls[1].i \in Instr
  BY <1>1, AtInstr DEF InstrType
<1>3. PICK n, k : n = calls[1].i.n /\ k = calls[1].i.k
  OBVIOUS
<1>4. n \in Names /\ k \in Kinds
  BY <1>2, <1>3 DEF Instr
<1>5. CASE k \in {"stmt", "from"} /\ Dotted(n) /\ CallAt("deferred", ImportCall(Parent[n], FALSE))
  <2>1. Parent[n] \in Names
    BY <1>4, <1>5, ParentName
  <2>2. k # "resolve"
    BY <1>5
  <2>. QED  BY <1>1, <1>3, <1>5, <2>1, <2>2, InstrImportsCore
<1>6. CASE k = "dunder" /\ Dotted(n) /\ CallAt("head", ImportCall(Parent[n], FALSE))
  <2>1. Parent[n] \in Names
    BY <1>4, <1>6, ParentName
  <2>2. k # "resolve"
    BY <1>6
  <2>. QED  BY <1>1, <1>3, <1>6, <2>1, <2>2, InstrImportsCore
<1>7. CASE CallAt("imported", ImportCall(n, k = "resolve"))
  BY <1>1, <1>3, <1>4, <1>7, InstrImportsCore
<1>. QED  BY <1>2, <1>3, <1>5, <1>6, <1>7 DEF InstrStart

LEMMA InstrDeferredCore ==
  ASSUME CoreInv, InstrDeferred
  PROVE  CoreInv' /\ EntriesAreNew
<1>1. At("instr", "deferred") /\ UNCHANGED prog
  BY DEF InstrDeferred
<1>2. Here = calls[1] /\ calls[1].i \in Instr /\ calls[1].op = "instr" /\ calls[1].pc = "deferred" /\ CallOK(Store, calls[1])
  BY <1>1, AtInstr DEF InstrType
<1>3. Tame(Store, Store) /\ SameMarks(Store, Store)
  BY CoreFacts, TameSelf
<1>4. CASE RaiseHere(Store)
  BY <1>1, <1>3, <1>4, RaiseHereCore
<1>5. CASE Repeat(Store)
  BY <1>1, <1>3, <1>5, RepeatCore
<1>6. CASE CallAt("imported", ImportCall(Here.i.n, FALSE)) /\ UNCHANGED <<cache, sysmods, obj, bodies>>
  <2>1. calls[1].i.n \in Names /\ calls[1].i.k # "resolve"
    BY <1>2 DEF Instr, CallOK
  <2>. QED  BY <1>1, <1>2, <1>6, <2>1, InstrImportsCore
<1>. QED  BY <1>4, <1>5, <1>6 DEF InstrDeferred

LEMMA NamedIn ==
  ASSUME NEW s, NEW o, NEW n, Named(s, o, n)
  PROVE  {o} \subseteq DOMAIN s.obj
BY DEF Named

LEMMA CanonicalNamed ==
  ASSUME NEW s, StoreOK(s), NEW n, NEW o, NEW k, Named(s, o, k)
  PROVE  CanonicalModule(s, n, o) \in DOMAIN s.obj
<1>1. CASE n \in DOMAIN s.cache
  BY <1>1, CanonicalIs, CacheNamed DEF Named
<1>2. CASE n \notin DOMAIN s.cache
  BY <1>2, CanonicalIs DEF Named
<1>. QED  BY <1>1, <1>2

LEMMA InstrHeadCore ==
  ASSUME CoreInv, InstrHead
  PROVE  CoreInv' /\ EntriesAreNew
<1>1. At("instr", "head") /\ UNCHANGED prog
  BY DEF InstrHead
<1>2. Here = calls[1] /\ calls[1].i \in Instr /\ calls[1].op = "instr" /\ calls[1].pc = "head" /\ CallOK(Store, calls[1])
  BY <1>1, AtInstr DEF InstrType
<1>3. Tame(Store, Store) /\ SameMarks(Store, Store) /\ StoreOK(Store)
  BY CoreFacts, TameSelf
<1>4. PICK n : n = calls[1].i.n
  OBVIOUS
<1>5. CASE RaiseHere(Store)
  BY <1>1, <1>3, <1>5, RaiseHereCore
<1>6. CASE /\ Has(sysmods, n)
           /\ LET s == CanonicalStore(CanonicalStore(Store, n), Parent[n])
              IN  Bind(s, {CanonicalModule(s, Parent[n], sysmods[n]), sysmods[n]})
  <2>1. CanonicalStore(Store, n) = Store
    BY <1>3, CanonicalSame
  <2>2. CanonicalStore(Store, Parent[n]) = Store
    BY <1>3, CanonicalSame
  <2>3. PICK c : c = CanonicalModule(Store, Parent[n], sysmods[n])
    OBVIOUS
  <2>4. Bind(Store, {c, sysmods[n]})
    BY <1>6, <2>1, <2>2, <2>3
  <2>5. Named(Store, sysmods[n], n)
    BY <1>3, <1>6, SysNamed, StoreIs DEF Has
  <2>6. c \in DOMAIN Store.obj
    BY <1>3, <2>3, <2>5, CanonicalNamed
  <2>7. {c, sysmods[n]} \subseteq DOMAIN Store.obj
    BY <2>5, <2>6 DEF Named
  <2>. QED  BY <1>1, <1>3, <2>4, <2>7, BindCore
<1>7. CASE CallAt("imported", ImportCall(n, FALSE)) /\ UNCHANGED <<cache, sysmods, obj, bodies>>
  <2>1. calls[1].i.n \in Names /\ calls[1].i.k # "resolve"
    BY <1>2 DEF Instr, CallOK
  <2>. QED  BY <1>1, <1>4, <1>7, <2>1, InstrImportsCore
<1>. QED  BY <1>2, <1>4, <1>5, <1>6, <1>7 DEF InstrHead

LEMMA BindPlainCore ==
  ASSUME CoreInv, NEW p0, At("instr", p0), p0 # "start", NEW o, Named(Store, o, calls[1].i.n), BindPlain(o),
         UNCHANGED prog
  PROVE  CoreInv' /\ EntriesAreNew
<1>1. Here = calls[1] /\ calls[1].i \in Instr /\ StoreOK(Store)
  BY AtInstr, CoreFacts DEF InstrType
<1>2. PICK n \in Names : n = calls[1].i.n
  BY <1>1 DEF Instr
<1>3. PICK s : s = LinkModuleChain(Store, n, o)
  OBVIOUS
<1>4. o \in DOMAIN Store.obj
  BY DEF Named
<1>5. IsLinked(Store, n, o, s)
  BY <1>1, <1>3, <1>4, LinkIs
<1>6. Tame(Store, s) /\ SameMarks(Store, s) /\ StoreOK(s)
  BY <1>5 DEF IsLinked, Tame
<1>7. Named(s, o, n)
  BY <1>1, <1>2, <1>6, NamedStays DEF Tame
<1>8. CASE Dotted(n)
  <2>1. Bind(s, {o, s.cache[Parent[n]]})
    BY <1>1, <1>2, <1>3, <1>8 DEF BindPlain
  <2>2. Named(s, s.cache[Parent[n]], Parent[n])
    BY <1>5, <1>6, <1>8, CacheNamed DEF IsLinked
  <2>3. {o, s.cache[Parent[n]]} \subseteq DOMAIN s.obj
    BY <1>7, <2>2 DEF Named
  <2>. QED  BY SMTT(60), <1>6, <2>1, <2>3, BindCore
<1>9. CASE ~Dotted(n)
  <2>1. Bind(s, {o})
    BY <1>1, <1>2, <1>3, <1>9 DEF BindPlain
  <2>. QED  BY <1>6, <1>7, <2>1, NamedIn, BindCore
<1>. QED  BY <1>8, <1>9

LEMMA BindCalledCore ==
  ASSUME CoreInv, NEW p0, At("instr", p0), p0 # "start", NEW o, Named(Store, o, calls[1].i.n), BindCalled(o),
         UNCHANGED prog
  PROVE  CoreInv' /\ EntriesAreNew
<1>1. StoreOK(Store) /\ Tame(Store, Store) /\ SameMarks(Store, Store)
  BY CoreFacts, TameSelf
<1>2. PICK h : h = IF Here.i.k = "dunder" /\ Dotted(Here.i.n) THEN Parent[Here.i.n] ELSE Here.i.n
  OBVIOUS
<1>3. PICK c : c = CanonicalModule(Store, h, o)
  OBVIOUS
<1>4. c \in DOMAIN Store.obj
  BY <1>1, <1>3, CanonicalNamed
<1>5. CanonicalStore(Store, h) = Store
  BY <1>1, CanonicalSame
<1>6. Bind(Store, {o, c}) \/ Bind(Store, {o})
  BY <1>2, <1>3, <1>5 DEF BindCalled
<1>7. {o, c} \subseteq DOMAIN Store.obj /\ {o} \subseteq DOMAIN Store.obj
  BY <1>4 DEF Named
<1>. QED  BY <1>1, <1>6, <1>7, BindCore

LEMMA ResolveNameCore ==
  ASSUME CoreInv, NEW p0, At("instr", p0), p0 # "start", NEW o, Named(Store, o, calls[1].i.n), ResolveName(o),
         UNCHANGED prog
  PROVE  CoreInv' /\ EntriesAreNew
<1>1. StoreOK(Store) /\ Tame(Store, Store) /\ SameMarks(Store, Store)
  BY CoreFacts, TameSelf
<1>2. PICK c : c = CanonicalModule(Store, Here.i.n, o)
  OBVIOUS
<1>3. {c} \subseteq DOMAIN Store.obj
  BY <1>1, <1>2, CanonicalNamed
<1>4. CanonicalStore(Store, Here.i.n) = Store
  BY <1>1, CanonicalSame
<1>5. Bind(Store, {c}) \/ RaiseHere(Store)
  BY <1>2, <1>4 DEF ResolveName
<1>. QED  BY <1>1, <1>3, <1>5, BindCore, RaiseHereCore

(* from n import a takes a name out of Vm.modules that sys.modules does not *)
(* have.                                                                    *)
LEMMA Uncached ==
  ASSUME CoreInv, NEW a, ~Has(sysmods, a), NEW s, s = [cache |-> Drop(cache, {a}), sys |-> sysmods, obj |-> obj]
  PROVE  Tame(Store, s) /\ SameMarks(Store, s)
<1>1. StoreOK(Store)
  BY CoreFacts
<1>2. PICK f : f = Drop(cache, {a})
  OBVIOUS
<1>3. f \in Table /\ DOMAIN f = DOMAIN cache \ {a} /\ \A m \in DOMAIN cache \ {a} : f[m] = cache[m]
  <2>1. cache \in Table
    BY <1>1, StoreIs, ObjDomain
  <2>. QED  BY <1>2, <2>1, DropFacts
<1>4. DOMAIN sysmods \subseteq DOMAIN cache
  BY <1>1, StoreIs DEF StoreOK, TablesOK
<1>5. DOMAIN Store.sys \subseteq DOMAIN f /\ DOMAIN f \subseteq DOMAIN Store.cache /\ \A n \in DOMAIN f : f[n] = Store.cache[n]
  BY <1>3, <1>4, StoreIs DEF Has
<1>6. s = [cache |-> f, sys |-> Store.sys, obj |-> Store.obj]
  BY SMTT(60), <1>2, StoreIs
<1>. QED  BY <1>1, <1>3, <1>5, <1>6, CacheOnly

LEMMA FromImportCore ==
  ASSUME CoreInv, NEW p0, At("instr", p0), p0 # "start", NEW o, Named(Store, o, calls[1].i.n),
         calls[1].i.k = "from", FromImport(o), UNCHANGED prog
  PROVE  CoreInv' /\ EntriesAreNew
<1>1. /\ Here = calls[1] /\ calls[1] \in InstrType /\ calls[1].i \in Instr /\ CallOK(Store, calls[1])
      /\ calls[1].op = "instr" /\ PrunedIf(prog, Store) /\ StoreOK(Store)
  BY AtInstr, CoreFacts DEF InstrType
<1>2. Tame(Store, Store) /\ SameMarks(Store, Store)
  BY <1>1, TameSelf
<1>3. PICK a : a = calls[1].i.a
  OBVIOUS
<1>4. (a # NoName => a \in Names) /\ o \in DOMAIN Store.obj
  BY <1>1, <1>3 DEF Instr, Named
<1>5. CASE Repeat(Store)
  BY <1>2, <1>5, RepeatCore
<1>6. CASE a # NoName /\ Has(obj[o].kids, a) /\ Bind(Store, {obj[o].kids[a]})
  <2>1. {obj[o].kids[a]} \subseteq DOMAIN Store.obj
    BY <1>1, <1>4, <1>6, StoreIs DEF StoreOK, KidsOK, Has
  <2>. QED  BY <1>2, <1>6, <2>1, BindCore
<1>7. CASE Bind(Store, {o})
  BY <1>2, <1>7, NamedIn, BindCore
<1>8. CASE RaiseHere(Store)
  BY <1>2, <1>8, RaiseHereCore
<1>9. CASE Has(sysmods, a) /\ Bind(CanonicalStore(Store, a), {sysmods[a]})
  <2>1. CanonicalStore(Store, a) = Store
    BY <1>1, CanonicalSame
  <2>2. Named(Store, sysmods[a], a)
    BY <1>1, <1>9, SysNamed, StoreIs DEF Has
  <2>3. Bind(Store, {sysmods[a]})
    BY <1>9, <2>1
  <2>. QED  BY <1>2, <2>2, <2>3, NamedIn, BindCore
<1>10. CASE /\ a # NoName /\ ~Has(sysmods, a)
            /\ cache' = Drop(cache, {a})
            /\ CallFrom([Here EXCEPT !.pc = "sub", !.o = o], ImportCall(a, FALSE))
            /\ UNCHANGED <<sysmods, obj, bodies>>
  <2>1. PICK s : s = [cache |-> Drop(cache, {a}), sys |-> sysmods, obj |-> obj]
    OBVIOUS
  <2>2. Tame(Store, s) /\ SameMarks(Store, s)
    BY <1>10, <2>1, Uncached
  <2>3. Store' = s
    BY <1>10, <2>1 DEF Store
  <2>4. EntriesAreNew /\ PrunedIf(prog, Store')
    BY <1>1, <2>2, <2>3, FreshWhenPruned
  <2>5. PICK h : h = [calls[1] EXCEPT !.pc = "sub", !.o = o]
    OBVIOUS
  <2>6. o \in Nat
    BY <1>1, <1>4, ObjDomain
  <2>7. /\ h \in InstrType /\ h.who = calls[1].who /\ h.i = calls[1].i /\ h.pc = "sub" /\ h.op = "instr"
        /\ h.o = o
    BY <1>1, <2>5, <2>6 DEF InstrType
  <2>8. Named(s, o, calls[1].i.n)
    BY <1>1, <2>2, NamedStays DEF Tame
  <2>9. CallOK(Store', h)
    BY <1>1, <1>3, <1>10, <2>3, <2>7, <2>8 DEF CallOK
  <2>10. CallFrom(h, ImportCall(a, FALSE))
    BY <1>1, <1>10, <2>5
  <2>11. a \in Names
    BY <1>4, <1>10
  <2>12. PICK c : c = ImportCall(a, FALSE)
    OBVIOUS
  <2>13. c.n = a /\ ~c.sync
    BY <2>11, <2>12, ImportCallFacts
  <2>14. ImportedBy(c, h)
    BY <1>3, <2>7, <2>13 DEF ImportedBy
  <2>15. UNCHANGED <<bodies, prog>>
    BY <1>10
  <2>16. CoreInv'
    BY <2>2, <2>3, <2>4, <2>7, <2>9, <2>10, <2>11, <2>12, <2>14, <2>15, InstrCallCore
  <2>. QED  BY <2>4, <2>16
<1>11. CASE ~Has(sysmods, a) /\ RaiseHere([Store EXCEPT !.cache = Drop(@, {a})])
  <2>1. PICK s : s = [cache |-> Drop(cache, {a}), sys |-> sysmods, obj |-> obj]
    OBVIOUS
  <2>2. Tame(Store, s) /\ SameMarks(Store, s)
    BY <1>11, <2>1, Uncached
  <2>3. s = [Store EXCEPT !.cache = Drop(@, {a})]
    BY <2>1 DEF Store
  <2>4. RaiseHere(s)
    BY <1>11, <2>3
  <2>. QED  BY <2>2, <2>4, RaiseHereCore
<1>. QED  BY <1>1, <1>3, <1>5, <1>6, <1>7, <1>8, <1>9, <1>10, <1>11 DEF FromImport

LEMMA InstrImportedCore ==
  ASSUME CoreInv, InstrImported
  PROVE  CoreInv' /\ EntriesAreNew
<1>1. At("instr", "imported") /\ UNCHANGED prog
  BY DEF InstrImported
<1>2. Here = calls[1] /\ calls[1].op = "instr" /\ calls[1].pc = "imported" /\ calls # <<>>
  BY <1>1, AtInstr
<1>3. Tame(Store, Store) /\ SameMarks(Store, Store)
  BY CoreFacts, TameSelf
<1>4. ret.ok => Named(Store, ret.obj, calls[1].i.n)
  BY <1>2, CoreFacts DEF RetOK, Returned
<1>5. CASE RaiseHere(Store)
  BY <1>1, <1>3, <1>5, RaiseHereCore
<1>6. CASE ret.ok /\ BindPlain(ret.obj)
  BY <1>1, <1>4, <1>6, BindPlainCore
<1>7. CASE ret.ok /\ Here.i.k = "from" /\ FromImport(ret.obj)
  BY <1>1, <1>2, <1>4, <1>7, FromImportCore
<1>8. CASE ret.ok /\ BindCalled(ret.obj)
  BY <1>1, <1>4, <1>8, BindCalledCore
<1>9. CASE ret.ok /\ ResolveName(ret.obj)
  BY <1>1, <1>4, <1>9, ResolveNameCore
<1>. QED  BY <1>5, <1>6, <1>7, <1>8, <1>9 DEF InstrImported

LEMMA InstrSubCore ==
  ASSUME CoreInv, InstrSub
  PROVE  CoreInv' /\ EntriesAreNew
<1>1. At("instr", "sub") /\ UNCHANGED prog
  BY DEF InstrSub
<1>2. /\ Here = calls[1] /\ calls[1].op = "instr" /\ calls[1].pc = "sub" /\ calls # <<>>
      /\ calls[1] \in InstrType /\ calls[1].i \in Instr /\ CallOK(Store, calls[1]) /\ StoreOK(Store)
  BY <1>1, AtInstr, CoreFacts DEF InstrType
<1>3. Tame(Store, Store) /\ SameMarks(Store, Store)
  BY <1>2, TameSelf
<1>4. PICK a : a = calls[1].i.a
  OBVIOUS
<1>5. PICK p : p = calls[1].o
  OBVIOUS
<1>6. a \in Names /\ p \in DOMAIN Store.obj /\ Parent[a] = Store.obj[p].name
  BY <1>2, <1>4, <1>5 DEF Instr, CallOK, InstrOK, Named
<1>7. CASE RaiseHere(Store)
  BY <1>1, <1>3, <1>7, RaiseHereCore
<1>8. CASE ret.ok
  <2>1. PICK c : c = CanonicalModule(Store, a, ret.obj)
    OBVIOUS
  <2>2. Named(Store, ret.obj, a)
    BY <1>2, <1>4, <1>8, CoreFacts DEF RetOK, Returned
  <2>3. c \in DOMAIN Store.obj
    BY <1>2, <2>1, <2>2, CanonicalNamed
  <2>4. CanonicalStore(Store, a) = Store
    BY <1>2, CanonicalSame
  <2>5. PICK s : s = SetKid(Store, p, a, c)
    OBVIOUS
  <2>6. IsBoundIn(Store, p, a, c, s)
    BY <1>2, <1>6, <2>3, <2>5, BoundIs
  <2>7. Tame(Store, s) /\ SameMarks(Store, s)
    BY <1>2, <2>6, BoundTame
  <2>8. RaiseHere(Store) \/ Repeat(s) \/ Bind(s, {c})
    BY <1>2, <1>4, <1>5, <2>1, <2>4, <2>5 DEF InstrSub, SetKid
  <2>9. {c} \subseteq DOMAIN s.obj
    <3>1. Len(s.obj) = Len(Store.obj) /\ StoreOK(s)
      BY <2>6 DEF IsBoundIn
    <3>. QED  BY <1>2, <2>3, <3>1, ObjDomain
  <2>. QED  BY <1>1, <1>7, <2>7, <2>8, <2>9, RepeatCore, BindCore
<1>. QED  BY <1>7, <1>8 DEF InstrSub

(* FramesSame for a step that may forget an entry of sys.modules. *)
LEMMA FramesKept ==
  ASSUME NEW s, StoreOK(s), NEW t, StoreOK(t), Evolves(s, t), SameMarks(s, t), NEW fr, FramesOK(s, fr)
  PROVE  FramesOK(t, fr)
<1>1. /\ DOMAIN s.obj = 1 .. Len(s.obj) /\ DOMAIN t.obj = 1 .. Len(t.obj)
      /\ Len(s.obj) \in Nat /\ Len(t.obj) \in Nat
  BY ObjDomain
<1>2. Len(s.obj) <= Len(t.obj)
  BY DEF Evolves
<1>3. DOMAIN s.obj \subseteq DOMAIN t.obj
  BY <1>1, <1>2
<1>4. ASSUME NEW j \in 1 .. Len(fr), fr[j].obj \in DOMAIN t.obj PROVE fr[j].obj \in DOMAIN s.obj
  <2>1. j # 1
    BY <1>1, <1>4 DEF FramesOK
  <2>2. j \in 2 .. Len(fr)
    BY <2>1, FramesFacts
  <2>. QED  BY <2>2 DEF FramesOK
<1>5. ASSUME NEW i \in DOMAIN t.obj PROVE t.obj[i].init <=> \E j \in 1 .. Len(fr) : fr[j].obj = i
  <2>1. CASE i \in DOMAIN s.obj
    BY <2>1 DEF SameMarks, FramesOK
  <2>2. CASE i \notin DOMAIN s.obj
    BY <2>2, <1>4 DEF SameMarks
  <2>. QED  BY <2>1, <2>2
<1>. QED  BY <1>3, <1>5 DEF FramesOK

-----------------------------------------------------------------------------
(* Bytecode. *)

(* Code that runs starts an instruction. *)
LEMMA CorePush ==
  ASSUME CoreInv, Running, NEW i \in Instr, InstrOK(i), Tame(Store, Store'),
         FramesOK(Store', bodies'), Len(bodies') = Len(bodies),
         calls' = <<InstrCall(Top, i)>> \o calls, ret' = ret,
         PrunedIf(prog, Store') \/ (Len(bodies) = 1 /\ calls = <<>>),
         prog' \in ProgramType, prog'.body.dels = prog.body.dels
  PROVE  CoreInv'
<1>1. /\ StoreOK(Store) /\ FramesOK(Store, bodies) /\ StackOK(Store, Len(bodies), calls)
      /\ ret \in [ok : BOOLEAN, obj : Nat] /\ Len(bodies) \in Nat \ {0}
  BY CoreFacts
<1>2. calls # <<>> => calls[1].op = "run"
  BY RunningFacts
<1>3. PICK t : t = Store'
  OBVIOUS
<1>4. StoreOK(t) /\ Evolves(Store, t)
  BY <1>3 DEF Tame
<1>5. \A l \in Nat : l <= l
  OBVIOUS
<1>6. StackOK(t, Len(bodies), calls)
  BY <1>1, <1>4, <1>5, StackStays
<1>7. PICK d : d = Pushed(Len(bodies), i, calls)
  OBVIOUS
<1>8. StackOK(t, Len(bodies), d) /\ d[1] = InstrCall(Len(bodies), i) /\ Len(d) = Len(calls) + 1
  <2>1. IsPushed(t, Len(bodies), i, calls, d)
    BY <1>1, <1>2, <1>6, <1>7, StackPush
  <2>. QED  BY <2>1 DEF IsPushed
<1>9. d[1].op = "instr" /\ d[1].pc = "start"
  BY <1>8 DEF InstrCall
<1>10. RetOK(t, d, ret)
  BY <1>9 DEF RetOK
<1>11. PrunedOK(t, Len(bodies), d, prog')
  <2>1. CASE PrunedIf(prog, t)
    BY <2>1 DEF PrunedOK, PrunedIf
  <2>2. CASE Len(bodies) = 1 /\ calls = <<>>
    <3>1. Len(d) = 1
      BY <1>8, <2>2
    <3>. QED  BY <2>2, <3>1, <1>9 DEF PrunedOK, Early
  <2>. QED  BY <1>3, <2>1, <2>2
<1>12. Core(t, bodies', d, ret, prog')
  BY <1>1, <1>3, <1>4, <1>8, <1>10, <1>11 DEF Core
<1>13. calls' = d /\ ret' = ret
  BY <1>7 DEF Top, Pushed
<1>. QED  BY <1>3, <1>12, <1>13 DEF CoreInv

(* Code that runs goes on. *)
LEMMA CoreOn ==
  ASSUME CoreInv, Running, StoreOK(Store'), Evolves(Store, Store'),
         FramesOK(Store', bodies'), Len(bodies') = Len(bodies), UNCHANGED <<calls, ret>>,
         PrunedOK(Store', Len(bodies), calls, prog'), prog' \in ProgramType
  PROVE  CoreInv'
<1>1. /\ StoreOK(Store) /\ FramesOK(Store, bodies) /\ StackOK(Store, Len(bodies), calls)
      /\ ret \in [ok : BOOLEAN, obj : Nat] /\ Len(bodies) \in Nat \ {0}
  BY CoreFacts
<1>2. calls # <<>> => calls[1].op = "run"
  BY RunningFacts
<1>3. PICK t : t = Store'
  OBVIOUS
<1>4. \A l \in Nat : l <= l
  OBVIOUS
<1>5. StackOK(t, Len(bodies), calls)
  BY <1>1, <1>3, <1>4, StackStays
<1>6. RetOK(t, calls, ret)
  BY <1>2 DEF RetOK
<1>7. Core(t, bodies', calls, ret, prog')
  BY <1>1, <1>3, <1>5, <1>6 DEF Core
<1>. QED  BY <1>3, <1>7 DEF CoreInv

(* The frame of an instruction that starts. *)
LEMMA StepIs ==
  ASSUME NEW s, FramesOK(s, bodies), bodies[Top].again = NoInstr, NEW g \in BOOLEAN, bodies' = Step(g)
  PROVE  FramesOK(s, bodies') /\ Len(bodies') = Len(bodies)
<1>1. PICK k : k = Len(bodies)
  OBVIOUS
<1>2. Len(bodies) \in Nat \ {0}
  BY FramesFacts
<1>3. k \in 1 .. Len(bodies) /\ bodies[k] \in FrameType
  BY <1>1, <1>2, FramesFacts
<1>4. PICK f : f = [bodies[k] EXCEPT !.fresh = FALSE, !.guard = g \/ k = 1, !.got = {}, !.ran = {}]
  OBVIOUS
<1>5. f \in FrameType /\ f.obj = bodies[k].obj /\ (k = 1 => f.guard) /\ f.got = {} /\ f.again = NoInstr
  BY <1>1, <1>3, <1>4 DEF FrameType, Top
<1>6. f.got \subseteq DOMAIN s.obj /\ (f.again # NoInstr => InstrOK(f.again))
  BY <1>5
<1>7. IsEdit(s, bodies, k, f, SetFrame(bodies, k, f))
  BY <1>3, <1>5, <1>6, EditIs
<1>8. bodies' = SetFrame(bodies, k, f)
  BY <1>1, <1>4 DEF SetFrame, Step, Top
<1>. QED  BY <1>7, <1>8 DEF IsEdit

LEMMA StartedFacts ==
  ASSUME CoreInv, Running
  PROVE  /\ StoreOK(StartedStore) /\ Tame(Store, StartedStore) /\ FramesOK(StartedStore, bodies)
         /\ PrunedIf(prog, StartedStore) \/ (Len(bodies) = 1 /\ calls = <<>> /\ StartedStore = Store)
<1>1. StoreOK(Store) /\ FramesOK(Store, bodies)
  BY CoreFacts
<1>2. IsStarted(StartedStore)
  BY StartedIs
<1>3. Tame(Store, StartedStore) /\ SameMarks(Store, StartedStore)
  BY <1>1, <1>2, MarkedTame DEF IsStarted
<1>4. FramesOK(StartedStore, bodies)
  BY <1>1, <1>3, FramesSame
<1>5. PrunedIf(prog, Store) \/ (Len(bodies) = 1 /\ calls = <<>>)
  BY RunningFacts
<1>6. PrunedIf(prog, StartedStore) \/ (Len(bodies) = 1 /\ calls = <<>>)
  BY <1>3, <1>5 DEF PrunedIf, Tame
<1>. QED  BY <1>2, <1>3, <1>4, <1>6 DEF Tame, IsStarted

LEMMA StartedFresh ==
  ASSUME CoreInv, Running, Store' = StartedStore
  PROVE  EntriesAreNew
<1>1. Tame(Store, Store')
  BY StartedFacts
<1>2. PrunedIf(prog, Store) \/ (Len(bodies) = 1 /\ calls = <<>>)
  BY RunningFacts
<1>3. CASE PrunedIf(prog, Store)
  BY <1>1, <1>3, FreshWhenPruned
<1>4. CASE Len(bodies) = 1
  BY <1>4, StartedIs, FreshWhenKept DEF IsStarted
<1>. QED  BY <1>2, <1>3, <1>4

LEMMA ImportInstrCore ==
  ASSUME CoreInv, NEW i \in Instr, NEW g \in BOOLEAN, ImportInstr(i, g)
  PROVE  CoreInv' /\ EntriesAreNew
<1>1. Program \in {"main", "body"} /\ Spend(Program)
  BY DEF ImportInstr, Program
<1>2. /\ Running /\ bodies[Top].again = NoInstr
      /\ prog' \in ProgramType /\ prog'.body.dels = prog.body.dels
  BY <1>1, SpendFacts
<1>3. InstrOK(i)
  BY DEF ImportInstr, InstrOK
<1>4. Store' = StartedStore
  BY DEF ImportInstr, StartedStore, Store
<1>5. /\ StoreOK(StartedStore) /\ Tame(Store, StartedStore) /\ FramesOK(StartedStore, bodies)
      /\ PrunedIf(prog, StartedStore) \/ (Len(bodies) = 1 /\ calls = <<>> /\ StartedStore = Store)
  BY <1>2, StartedFacts
<1>6. FramesOK(Store', bodies') /\ Len(bodies') = Len(bodies)
  BY <1>2, <1>4, <1>5, StepIs DEF ImportInstr
<1>7. calls' = <<InstrCall(Top, i)>> \o calls /\ ret' = ret
  BY DEF ImportInstr
<1>8. Tame(Store, Store') /\ (PrunedIf(prog, Store') \/ (Len(bodies) = 1 /\ calls = <<>>))
  BY <1>4, <1>5
<1>9. CoreInv'
  BY <1>2, <1>3, <1>6, <1>7, <1>8, CorePush
<1>. QED  BY <1>2, <1>4, <1>9, StartedFresh

LEMMA DeleteCore ==
  ASSUME CoreInv, NEW n \in Names, Delete(n)
  PROVE  CoreInv' /\ EntriesAreNew
<1>1. Program \in {"main", "body"} /\ Spend(Program) /\ n \in prog[Program].dels
  BY DEF Delete, Program
<1>2. /\ Running /\ bodies[Top].again = NoInstr
      /\ prog' \in ProgramType /\ prog'.body.dels = prog.body.dels
  BY <1>1, SpendFacts
<1>3. /\ StoreOK(StartedStore) /\ Tame(Store, StartedStore) /\ FramesOK(StartedStore, bodies)
      /\ PrunedIf(prog, StartedStore) \/ (Len(bodies) = 1 /\ calls = <<>> /\ StartedStore = Store)
  BY <1>2, StartedFacts
<1>4. PICK t : t = [StartedStore EXCEPT !.sys = Drop(@, {n})]
  OBVIOUS
<1>5. StoreOK(t) /\ Evolves(StartedStore, t) /\ SameMarks(StartedStore, t) /\ NewAreNew(StartedStore, t)
  BY <1>3, <1>4, SysDrop
<1>6. Store' = t
  BY <1>4 DEF Delete, StartedStore, Store
<1>7. FramesOK(t, bodies)
  BY <1>3, <1>5, FramesKept
<1>8. FramesOK(Store', bodies') /\ Len(bodies') = Len(bodies)
  BY <1>2, <1>6, <1>7, StepIs DEF Delete
<1>9. Evolves(Store, t)
  <2>1. Evolves(Store, StartedStore)
    BY <1>3 DEF Tame
  <2>2. /\ DOMAIN Store.obj = 1 .. Len(Store.obj) /\ DOMAIN StartedStore.obj = 1 .. Len(StartedStore.obj)
        /\ Len(Store.obj) \in Nat /\ Len(StartedStore.obj) \in Nat /\ Len(t.obj) \in Nat
    BY <1>3, <1>5, CoreFacts, ObjDomain
  <2>. QED  BY <1>5, <2>1, <2>2 DEF Evolves
<1>10. prog.body.dels = {} => Len(bodies) = 1 /\ calls = <<>> /\ StartedStore = Store
  <2>1. prog.body.dels = {} => Top = 1
    BY <1>1 DEF Program
  <2>2. Top = 1 => Len(bodies) = 1 /\ calls = <<>>
    BY <1>2, RunningFacts
  <2>3. Len(bodies) = 1 => StartedStore = Store
    BY StartedIs DEF IsStarted
  <2>. QED  BY <2>1, <2>2, <2>3
<1>11. PrunedOK(Store', Len(bodies), calls, prog')
  BY <1>2, <1>10 DEF PrunedOK, Early
<1>12. UNCHANGED <<calls, ret>>
  BY DEF Delete
<1>13. CoreInv'
  BY <1>2, <1>5, <1>6, <1>8, <1>9, <1>11, <1>12, CoreOn
<1>14. EntriesAreNew
  BY <1>5, <1>6, <1>10 DEF EntriesAreNew
<1>. QED  BY <1>13, <1>14

LEMMA TopFacts ==
  ASSUME CoreInv, Top > 1
  PROVE  Len(bodies) # 1 /\ Len(bodies) > 1 /\ Len(bodies) \in 1 .. Len(bodies)
<1>1. \A l \in Nat \ {0} : l > 1 => l # 1 /\ l \in 1 .. l
  OBVIOUS
<1>2. Len(bodies) \in Nat \ {0}
  BY CoreFacts
<1>3. Len(bodies) > 1
  BY DEF Top
<1>. QED  BY <1>1, <1>2, <1>3

LEMMA RaiseCore ==
  ASSUME CoreInv, Raise
  PROVE  CoreInv' /\ EntriesAreNew
<1>1. Top > 1 /\ Spend("body") /\ UnwindTo(StartedStore, calls)
  BY DEF Raise, StartedStore
<1>2. Running /\ prog' \in ProgramType /\ prog'.body.dels = prog.body.dels
  BY <1>1, SpendFacts
<1>3. Len(bodies) # 1
  BY <1>1, TopFacts
<1>4. StoreOK(StartedStore) /\ Tame(Store, StartedStore)
  BY <1>2, StartedFacts
<1>5. SameMarks(Store, StartedStore)
  BY StartedIs DEF IsStarted
<1>6. PrunedIf(prog, Store) /\ (calls # <<>> => calls[1].op = "run")
  BY <1>2, <1>3, RunningFacts
<1>7. StackOK(Store, Len(bodies), calls)
  BY CoreFacts
<1>. QED  BY <1>1, <1>2, <1>4, <1>5, <1>6, <1>7, UnwindCore

LEMMA DefineCore ==
  ASSUME CoreInv, Define
  PROVE  CoreInv' /\ EntriesAreNew
<1>1. Top > 1 /\ Spend("body")
  BY DEF Define
<1>2. /\ Running /\ bodies[Top].again = NoInstr
      /\ prog' \in ProgramType /\ prog'.body.dels = prog.body.dels
  BY <1>1, SpendFacts
<1>3. Len(bodies) > 1 /\ Len(bodies) # 1 /\ StoreOK(Store) /\ FramesOK(Store, bodies)
  BY <1>1, CoreFacts, TopFacts
<1>4. PICK o : o = bodies[Len(bodies)].obj
  OBVIOUS
<1>5. o \in DOMAIN Store.obj
  BY <1>3, <1>4, StartedIs DEF IsStarted
<1>6. PICK m : m = [Store.obj[o] EXCEPT !.st = "run", !.def = TRUE, !.bound = TRUE]
  OBVIOUS
<1>7. m \in Mod /\ SameNames(m, Store.obj[o]) /\ (m.init <=> Store.obj[o].init)
  <2>1. Store.obj[o] \in Mod
    BY <1>3, <1>5, ObjDomain
  <2>. QED  BY <1>6, <2>1 DEF Mod, SameNames, States
<1>8. PICK t : t = SetFlags(Store, o, m)
  OBVIOUS
<1>9. FlagsSet(Store, o, m, t) /\ IsMarked(Store, t)
  BY <1>3, <1>5, <1>7, <1>8, FlagsIs DEF FlagsSet
<1>10. Tame(Store, t) /\ StoreOK(t) /\ Evolves(Store, t)
  BY <1>3, <1>9, MarkedTame DEF Tame
<1>11. SameMarks(Store, t)
  <2>1. DOMAIN t.obj = DOMAIN Store.obj
    BY <1>3, <1>9, <1>10, ObjDomain DEF IsMarked
  <2>. QED  BY <1>7, <1>9, <2>1 DEF FlagsSet, SameMarks
<1>12. Store' = t
  <2>1. obj \in Seq(Mod)
    BY <1>3, ObjDomain, StoreIs
  <2>2. obj' = [[obj EXCEPT ![o].st = "run"] EXCEPT ![o] = [@ EXCEPT !.def = TRUE, !.bound = TRUE]]
    BY <1>3, <1>4 DEF Define, Started, Top
  <2>3. obj' = [obj EXCEPT ![o] = [obj[o] EXCEPT !.st = "run", !.def = TRUE, !.bound = TRUE]]
    BY <1>5, <2>1, <2>2 DEF Store
  <2>4. cache' = cache /\ sysmods' = sysmods
    BY DEF Define
  <2>. QED  BY <1>6, <1>8, <2>3, <2>4 DEF SetFlags, Store
<1>13. PrunedIf(prog, Store)
  BY <1>2, <1>3, RunningFacts
<1>14. EntriesAreNew /\ PrunedIf(prog, t)
  BY <1>10, <1>12, <1>13, FreshWhenPruned
<1>15. FramesOK(t, bodies)
  BY <1>3, <1>10, <1>11, FramesSame
<1>16. FramesOK(t, bodies') /\ Len(bodies') = Len(bodies)
  BY <1>2, <1>15, StepIs DEF Define
<1>17. PrunedOK(t, Len(bodies), calls, prog')
  BY <1>2, <1>14 DEF PrunedOK, PrunedIf
<1>18. UNCHANGED <<calls, ret>>
  BY DEF Define
<1>19. CoreInv'
  BY <1>2, <1>10, <1>12, <1>16, <1>17, <1>18, CoreOn
<1>. QED  BY <1>14, <1>19

LEMMA RetryCore ==
  ASSUME CoreInv, Retry
  PROVE  CoreInv' /\ EntriesAreNew
<1>1. Running /\ bodies[Top].again # NoInstr /\ UNCHANGED <<cache, sysmods, obj, ret, prog>>
  BY DEF Retry
<1>2. /\ StoreOK(Store) /\ FramesOK(Store, bodies) /\ Len(bodies) \in Nat \ {0} /\ prog \in ProgramType
      /\ Tame(Store, Store)
  BY CoreFacts, TameSelf
<1>3. PICK k : k = Len(bodies)
  OBVIOUS
<1>4. k \in 1 .. Len(bodies) /\ bodies[k] \in FrameType /\ (k = 1 => bodies[k].guard)
      /\ bodies[k].got \subseteq DOMAIN Store.obj /\ bodies[k].again \in Instr /\ InstrOK(bodies[k].again)
  <2>1. k \in 1 .. Len(bodies)
    BY <1>2, <1>3
  <2>2. bodies[k] \in FrameType /\ bodies[k].again \in Instr \cup {NoInstr}
    BY <1>2, <2>1, FramesFacts
  <2>3. bodies[k].again # NoInstr
    BY <1>1, <1>3 DEF Top
  <2>. QED  BY <1>2, <2>1, <2>2, <2>3 DEF FramesOK
<1>5. PICK i : i = bodies[k].again
  OBVIOUS
<1>6. PICK f : f = [bodies[k] EXCEPT !.again = NoInstr]
  OBVIOUS
<1>7. /\ f \in FrameType /\ f.obj = bodies[k].obj /\ f.guard = bodies[k].guard /\ f.got = bodies[k].got
      /\ f.again = NoInstr
  BY <1>4, <1>6 DEF FrameType
<1>8. IsEdit(Store, bodies, k, f, SetFrame(bodies, k, f))
  <2>1. f.got \subseteq DOMAIN Store.obj
    BY <1>4, <1>7
  <2>. QED  BY <1>2, <1>4, <1>7, <2>1, EditIs
<1>9. bodies' = SetFrame(bodies, k, f)
  BY <1>3, <1>6 DEF Retry, SetFrame, Top
<1>10. Store' = Store /\ EntriesAreNew
  BY <1>1, Settled
<1>11. FramesOK(Store', bodies') /\ Len(bodies') = Len(bodies)
  BY <1>8, <1>9, <1>10 DEF IsEdit
<1>12. calls' = <<InstrCall(Top, i)>> \o calls
  BY <1>3, <1>5 DEF Retry, Top
<1>13. PrunedIf(prog, Store') \/ (Len(bodies) = 1 /\ calls = <<>>)
  BY <1>1, <1>10, RunningFacts
<1>14. i \in Instr /\ InstrOK(i) /\ Tame(Store, Store') /\ ret' = ret /\ prog' \in ProgramType
       /\ prog'.body.dels = prog.body.dels
  BY <1>1, <1>2, <1>4, <1>5, <1>10
<1>15. CoreInv'
  BY <1>1, <1>11, <1>12, <1>13, <1>14, CorePush
<1>. QED  BY <1>10, <1>15

-----------------------------------------------------------------------------
(* finalize_module_frame_success *)

(* The module o is done, and the package of its name has it. *)
IsEnded(s, o, n, c, t) ==
  \E u : /\ IsMarked(s, u) /\ u.obj[o].st = "done" /\ ~u.obj[o].init
         /\ \A i \in DOMAIN s.obj : i # o => u.obj[i] = s.obj[i]
         /\ c = IF n \in DOMAIN s.cache THEN s.cache[n] ELSE o
         /\ c # o => IsLinked(u, n, c, t)
         /\ c = o => t = u

EndFrame(f, last, n, o, c) ==
  [f EXCEPT !.ran = IF last THEN @ \cup {n} ELSE @, !.got = {IF g = o THEN c ELSE g : g \in @}]

EndFrames(n, o, c) == [i \in 1 .. Len(bodies) - 1 |-> EndFrame(bodies[i], i = Len(bodies) - 1, n, o, c)]

LEMMA EndIs ==
  ASSUME CoreInv, EndBody
  PROVE  \E o, n, c, t :
           /\ o = bodies[Len(bodies)].obj /\ o \in DOMAIN Store.obj /\ n = Store.obj[o].name
           /\ IsEnded(Store, o, n, c, t) /\ SetStore(t) /\ bodies' = EndFrames(n, o, c)
<1>1. Ready /\ Top > 1
  BY DEF EndBody
<1>2. StoreOK(Store) /\ FramesOK(Store, bodies) /\ Len(bodies) > 1
  BY <1>1, CoreFacts, TopFacts
<1>3. PICK o : o = bodies[Len(bodies)].obj
  OBVIOUS
<1>4. o \in DOMAIN Store.obj
  BY <1>2, <1>3, StartedIs DEF IsStarted
<1>5. PICK n : n = Store.obj[o].name
  OBVIOUS
<1>6. PICK m : m = [Store.obj[o] EXCEPT !.init = FALSE, !.st = "done"]
  OBVIOUS
<1>7. m \in Mod /\ SameNames(m, Store.obj[o]) /\ ~m.init /\ m.st = "done" /\ n \in Names
  <2>1. Store.obj[o] \in Mod
    BY <1>2, <1>4, ObjDomain
  <2>. QED  BY <1>5, <1>6, <2>1 DEF Mod, SameNames, States
<1>8. PICK u : u = SetFlags(Store, o, m)
  OBVIOUS
<1>9. FlagsSet(Store, o, m, u) /\ IsMarked(Store, u)
  BY <1>2, <1>4, <1>7, <1>8, FlagsIs DEF FlagsSet
<1>10. StoreOK(u) /\ u.cache = Store.cache /\ DOMAIN u.obj = DOMAIN Store.obj
  <2>1. StoreOK(u) /\ u.cache = Store.cache /\ Len(u.obj) = Len(Store.obj)
    BY <1>2, <1>9, MarkedOK DEF IsMarked
  <2>. QED  BY <1>2, <2>1, ObjDomain
<1>11. u = Finished(Store, o)
  <2>1. obj \in Seq(Mod) /\ o \in DOMAIN obj
    BY <1>2, <1>4, ObjDomain, StoreIs
  <2>. QED  BY <1>6, <1>8, <2>1 DEF Finished, SetFlags, Store
<1>12. CanonicalStore(u, n) = u
  BY <1>10, CanonicalSame
<1>13. PICK c : c = CanonicalModule(u, n, o)
  OBVIOUS
<1>14. c = IF n \in DOMAIN Store.cache THEN Store.cache[n] ELSE o
  BY <1>10, <1>13, CanonicalIs
<1>15. c \in DOMAIN u.obj
  BY <1>2, <1>4, <1>10, <1>14, CacheNamed DEF Named
<1>16. PICK t : t = IF c = o THEN u ELSE LinkModuleChain(u, n, c)
  OBVIOUS
<1>17. IsLinked(u, n, c, LinkModuleChain(u, n, c))
  BY <1>7, <1>10, <1>15, LinkIs
<1>18. (c # o => IsLinked(u, n, c, t)) /\ (c = o => t = u)
  BY <1>16, <1>17
<1>19. IsEnded(Store, o, n, c, t)
  BY <1>7, <1>9, <1>14, <1>18 DEF IsEnded, FlagsSet
<1>20. SetStore(t) /\ bodies' = EndFrames(n, o, c)
  <2>1. n = obj[o].name /\ o = bodies[Top].obj
    BY SMTT(60), <1>3, <1>5 DEF Store, Top
  <2>2. /\ SetStore(IF c = o THEN u ELSE LinkModuleChain(u, n, c))
        /\ bodies' = [i \in 1 .. Top - 1 |->
                        [bodies[i] EXCEPT !.ran = IF i = Top - 1 THEN @ \cup {n} ELSE @,
                                          !.got = {IF g = o THEN c ELSE g : g \in @}]]
    BY <1>11, <1>12, <1>13, <2>1 DEF EndBody
  <2>. QED  BY <1>16, <2>2 DEF EndFrames, EndFrame, Top
<1>. QED  BY SMTT(60), <1>3, <1>4, <1>5, <1>19, <1>20

IsEndFrame(D, f, last, n, o, c, e) ==
  /\ e \in FrameType /\ e.obj = f.obj /\ e.guard = f.guard /\ e.again = f.again /\ e.fresh = f.fresh
  /\ e.got = {IF g = o THEN c ELSE g : g \in f.got} /\ e.got \subseteq D
  /\ e.ran = IF last THEN f.ran \cup {n} ELSE f.ran

LEMMA EndFrameIs ==
  ASSUME NEW D, D \subseteq Nat, NEW f \in FrameType, f.got \subseteq D, NEW last \in BOOLEAN,
         NEW n \in Names, NEW o, NEW c \in D
  PROVE  IsEndFrame(D, f, last, n, o, c, EndFrame(f, last, n, o, c))
<1>1. PICK gs : gs = {IF g = o THEN c ELSE g : g \in f.got}
  OBVIOUS
<1>2. PICK rs : rs = IF last THEN f.ran \cup {n} ELSE f.ran
  OBVIOUS
<1>3. gs \subseteq D /\ gs \in SUBSET Nat
  BY <1>1
<1>4. rs \in SUBSET Names
  BY <1>2 DEF FrameType
<1>5. PICK e : e = EndFrame(f, last, n, o, c)
  OBVIOUS
<1>6. e = [f EXCEPT !.ran = rs, !.got = gs]
  BY <1>1, <1>2, <1>5 DEF EndFrame
<1>7. /\ e \in FrameType /\ e.obj = f.obj /\ e.guard = f.guard /\ e.again = f.again /\ e.fresh = f.fresh
      /\ e.got = gs /\ e.ran = rs
  BY <1>3, <1>4, <1>6 DEF FrameType
<1>8. IsEndFrame(D, f, last, n, o, c, e)
  BY <1>1, <1>2, <1>3, <1>7 DEF IsEndFrame
<1>. QED  BY <1>5, <1>8

LEMMA EndedTame ==
  ASSUME NEW s, StoreOK(s), NEW o \in DOMAIN s.obj, NEW n \in Names, NEW c, NEW t, IsEnded(s, o, n, c, t)
  PROVE  /\ Tame(s, t) /\ c \in DOMAIN t.obj
         /\ \A i \in DOMAIN t.obj : t.obj[i].init <=> i \in DOMAIN s.obj /\ s.obj[i].init /\ i # o
<1>1. PICK u : /\ IsMarked(s, u) /\ u.obj[o].st = "done" /\ ~u.obj[o].init
               /\ \A i \in DOMAIN s.obj : i # o => u.obj[i] = s.obj[i]
               /\ c = IF n \in DOMAIN s.cache THEN s.cache[n] ELSE o
               /\ c # o => IsLinked(u, n, c, t)
               /\ c = o => t = u
  BY DEF IsEnded
<1>2. Tame(s, u) /\ StoreOK(u) /\ Len(u.obj) = Len(s.obj)
  BY <1>1, MarkedTame DEF Tame, IsMarked
<1>3. DOMAIN u.obj = DOMAIN s.obj
  BY <1>2, ObjDomain
<1>4. Tame(u, t) /\ SameMarks(u, t)
  <2>1. CASE c = o
    BY <1>1, <1>2, <2>1, TameSelf
  <2>2. CASE c # o
    BY <1>1, <2>2 DEF IsLinked
  <2>. QED  BY <2>1, <2>2
<1>5. Tame(s, t)
  BY <1>2, <1>4, TameTwice
<1>6. c \in DOMAIN t.obj
  <2>1. c \in DOMAIN s.obj
    BY <1>1, CacheNamed DEF Named
  <2>2. /\ DOMAIN s.obj = 1 .. Len(s.obj) /\ DOMAIN t.obj = 1 .. Len(t.obj)
        /\ Len(s.obj) \in Nat /\ Len(t.obj) \in Nat /\ Len(s.obj) <= Len(t.obj)
    BY <1>5, ObjDomain DEF Tame, Evolves
  <2>. QED  BY <2>1, <2>2
<1>7. ASSUME NEW i \in DOMAIN t.obj PROVE t.obj[i].init <=> i \in DOMAIN s.obj /\ s.obj[i].init /\ i # o
  <2>1. t.obj[i].init <=> i \in DOMAIN u.obj /\ u.obj[i].init
    BY <1>4 DEF SameMarks
  <2>. QED  BY <1>1, <1>3, <2>1
<1>. QED  BY <1>5, <1>6, <1>7

LEMMA EndBodyCore ==
  ASSUME CoreInv, EndBody
  PROVE  CoreInv' /\ EntriesAreNew
<1>1. Running /\ Top > 1 /\ UNCHANGED <<calls, ret, prog>>
  BY DEF EndBody, Ready
<1>2. Len(bodies) # 1 /\ Len(bodies) > 1
  BY <1>1, TopFacts
<1>3. /\ StoreOK(Store) /\ FramesOK(Store, bodies) /\ StackOK(Store, Len(bodies), calls)
      /\ Len(bodies) \in Nat \ {0} /\ prog \in ProgramType /\ ret \in [ok : BOOLEAN, obj : Nat]
  BY CoreFacts
<1>4. PICK o, n, c, t :
           /\ o = bodies[Len(bodies)].obj /\ o \in DOMAIN Store.obj /\ n = Store.obj[o].name
           /\ IsEnded(Store, o, n, c, t) /\ SetStore(t) /\ bodies' = EndFrames(n, o, c)
  BY EndIs
<1>5. n \in Names
  BY <1>3, <1>4, ObjDomain, ModFields
<1>6. /\ Tame(Store, t) /\ c \in DOMAIN t.obj
      /\ \A i \in DOMAIN t.obj : t.obj[i].init <=> i \in DOMAIN Store.obj /\ Store.obj[i].init /\ i # o
  BY <1>3, <1>4, <1>5, EndedTame
<1>7. StoreOK(t) /\ Evolves(Store, t)
  BY <1>6 DEF Tame
<1>8. Store' = t
  BY <1>4, <1>7, StoreSet DEF StoreOK
<1>9. PrunedIf(prog, Store)
  BY <1>1, <1>2, RunningFacts
<1>10. EntriesAreNew /\ PrunedIf(prog, t)
  BY <1>6, <1>8, <1>9, FreshWhenPruned
<1>11. PICK k : k = Len(bodies) - 1
  OBVIOUS
<1>12. k \in 1 .. Len(bodies) /\ k \in Nat \ {0} /\ k < Len(bodies) /\ k + 1 .. Len(bodies) = {Len(bodies)}
  <2>1. \A l \in Nat : l > 1 => /\ l - 1 \in 1 .. l /\ l - 1 \in Nat \ {0} /\ l - 1 < l
                               /\ (l - 1) + 1 .. l = {l}
    OBVIOUS
  <2>. QED  BY <1>2, <1>3, <1>11, <2>1
<1>13. PICK g0 : g0 = SubSeq(bodies, 1, k)
  OBVIOUS
<1>14. FramesOK(t, g0) /\ Len(g0) = k /\ \A i \in 1 .. k : g0[i] = bodies[i]
  <2>1. {bodies[j].obj : j \in k + 1 .. Len(bodies)} = {o}
    BY <1>4, <1>12
  <2>2. \A i \in DOMAIN t.obj : t.obj[i].init <=> /\ i \in DOMAIN Store.obj /\ Store.obj[i].init
                                   /\ i \notin {bodies[j].obj : j \in k + 1 .. Len(bodies)}
    BY <1>6, <2>1
  <2>. QED  BY <1>3, <1>7, <1>12, <1>13, <2>2, FramesCut
<1>15. DOMAIN t.obj \subseteq Nat
  BY <1>7, ObjDomain
<1>16. PICK g : g = EndFrames(n, o, c)
  OBVIOUS
<1>17. \A i \in 1 .. k : g[i] = EndFrame(g0[i], i = k, n, o, c)
  BY <1>11, <1>14, <1>16 DEF EndFrames
<1>18. ASSUME NEW i \in 1 .. k
       PROVE  /\ g[i] \in FrameType /\ g[i].obj = g0[i].obj /\ g[i].guard = g0[i].guard
              /\ g[i].again = g0[i].again /\ g[i].got \subseteq DOMAIN t.obj
  <2>1. g0[i] \in FrameType /\ g0[i].got \subseteq DOMAIN t.obj
    BY <1>14, FramesFacts DEF FramesOK
  <2>2. PICK b \in BOOLEAN : b = (i = k)
    OBVIOUS
  <2>3. g[i] = EndFrame(g0[i], b, n, o, c)
    BY <1>17, <2>2
  <2>4. IsEndFrame(DOMAIN t.obj, g0[i], b, n, o, c, EndFrame(g0[i], b, n, o, c))
    BY <1>5, <1>6, <1>15, <2>1, EndFrameIs
  <2>. QED  BY <2>3, <2>4 DEF IsEndFrame
<1>19. g \in Seq(FrameType) /\ Len(g) = k
  <2>1. DOMAIN g = 1 .. k /\ g = [i \in 1 .. k |-> g[i]]
    BY <1>11, <1>16 DEF EndFrames
  <2>. QED  BY <1>12, <1>18, <2>1
<1>20. FramesOK(t, g)
  <2>1. \A i \in 1 .. Len(g0) : /\ g[i].obj = g0[i].obj /\ g[i].guard = g0[i].guard
                                /\ g[i].again = g0[i].again /\ g[i].got \subseteq DOMAIN t.obj
    BY <1>14, <1>18
  <2>. QED  BY <1>14, <1>19, <2>1, FramesMap
<1>21. /\ calls # <<>> => calls[1].op = "run" /\ calls[1].stop <= k
       /\ calls # <<>> => calls[1].op = "run"
  <2>1. calls # <<>> => calls[1].op = "run" /\ calls[1].stop < Len(bodies) /\ calls[1].stop \in Nat \ {0}
    BY <1>1, RunningFacts
  <2>2. \A l, m \in Nat : m < l => m <= l - 1
    OBVIOUS
  <2>. QED  BY <1>3, <1>11, <2>1, <2>2
<1>22. StackOK(t, k, calls)
  <2>1. \A l \in Nat : l <= l
    OBVIOUS
  <2>2. StackOK(t, Len(bodies), calls)
    BY <1>3, <1>7, <2>1, StackStays
  <2>. QED  BY <1>3, <1>12, <1>21, <2>2, StackCut
<1>23. RetOK(t, calls, ret)
  BY <1>21 DEF RetOK
<1>24. Core(t, g, calls, ret, prog)
  BY <1>3, <1>7, <1>10, <1>19, <1>20, <1>22, <1>23 DEF Core, PrunedOK, PrunedIf
<1>. QED  BY SMTT(60), <1>1, <1>4, <1>8, <1>10, <1>16, <1>24 DEF CoreInv

-----------------------------------------------------------------------------
LEMMA CoreNext ==
  ASSUME CoreInv, [ImportsNext]_importVars
  PROVE  CoreInv' /\ EntriesAreNew
<1>1. ASSUME ImportStart PROVE CoreInv' /\ EntriesAreNew
  BY <1>1, ImportStartCore
<1>2. ASSUME ImportMeta PROVE CoreInv' /\ EntriesAreNew
  BY <1>2, ImportMetaCore
<1>3. ASSUME ImportLoaded PROVE CoreInv' /\ EntriesAreNew
  BY <1>3, ImportLoadedCore
<1>4. ASSUME ImportDrained PROVE CoreInv' /\ EntriesAreNew
  BY <1>4, ImportDrainedCore
<1>5. ASSUME ImportAgain PROVE CoreInv' /\ EntriesAreNew
  BY <1>5, ImportAgainCore
<1>6. ASSUME LoadStart PROVE CoreInv' /\ EntriesAreNew
  BY <1>6, LoadStartCore
<1>7. ASSUME LoadParent PROVE CoreInv' /\ EntriesAreNew
  BY <1>7, LoadParentCore
<1>8. ASSUME LoadDrained PROVE CoreInv' /\ EntriesAreNew
  BY <1>8, LoadDrainedCore
<1>9. ASSUME EndDrain PROVE CoreInv' /\ EntriesAreNew
  BY <1>9, EndDrainCore
<1>10. ASSUME InstrStart PROVE CoreInv' /\ EntriesAreNew
  BY <1>10, InstrStartCore
<1>11. ASSUME InstrDeferred PROVE CoreInv' /\ EntriesAreNew
  BY <1>11, InstrDeferredCore
<1>12. ASSUME InstrHead PROVE CoreInv' /\ EntriesAreNew
  BY <1>12, InstrHeadCore
<1>13. ASSUME InstrImported PROVE CoreInv' /\ EntriesAreNew
  BY <1>13, InstrImportedCore
<1>14. ASSUME InstrSub PROVE CoreInv' /\ EntriesAreNew
  BY <1>14, InstrSubCore
<1>15. ASSUME NEW i \in Instr, NEW g \in BOOLEAN, ImportInstr(i, g) PROVE CoreInv' /\ EntriesAreNew
  BY <1>15, ImportInstrCore
<1>16. ASSUME NEW n \in Names, Delete(n) PROVE CoreInv' /\ EntriesAreNew
  BY <1>16, DeleteCore
<1>17. ASSUME Define PROVE CoreInv' /\ EntriesAreNew
  BY <1>17, DefineCore
<1>18. ASSUME Raise PROVE CoreInv' /\ EntriesAreNew
  BY <1>18, RaiseCore
<1>19. ASSUME Retry PROVE CoreInv' /\ EntriesAreNew
  BY <1>19, RetryCore
<1>20. ASSUME EndBody PROVE CoreInv' /\ EntriesAreNew
  BY <1>20, EndBodyCore
<1>21. ASSUME UNCHANGED importVars PROVE CoreInv' /\ EntriesAreNew
  <2>1. Store' = Store /\ UNCHANGED <<bodies, calls, ret, prog>>
    BY <1>21 DEF importVars, Store
  <2>2. EntriesAreNew
    BY <2>1, FreshWhenKept
  <2>. QED  BY <2>1, <2>2 DEF CoreInv
<1>22. ASSUME Native PROVE CoreInv' /\ EntriesAreNew
  BY <1>22, <1>1, <1>2, <1>3, <1>4, <1>5, <1>6, <1>7, <1>8, <1>9, <1>10, <1>11, <1>12, <1>13, <1>14 DEF Native
<1>23. ASSUME Bytecode PROVE CoreInv' /\ EntriesAreNew
  BY <1>23, <1>15, <1>16, <1>17, <1>18, <1>19, <1>20 DEF Bytecode
<1>. QED  BY <1>21, <1>22, <1>23 DEF ImportsNext

LEMMA CoreInit ==
  ASSUME ImportsInit
  PROVE  CoreInv
<1>1. cache = <<>> /\ sysmods = <<>> /\ obj = <<>> /\ calls = <<>> /\ ret = NoRet
  BY DEF ImportsInit
<1>2. PICK f : f = [QueuedFrame(0) EXCEPT !.guard = TRUE]
  OBVIOUS
<1>3. bodies = <<f>>
  BY <1>2 DEF ImportsInit
<1>4. /\ f \in FrameType /\ f.obj = 0 /\ f.guard /\ f.got = {} /\ f.again = NoInstr
  BY <1>2 DEF QueuedFrame, FrameType
<1>5. StoreOK(Store)
  <2>1. <<>> \in Table /\ DOMAIN (<<>>) = {}
    BY EmptyTable
  <2>2. <<>> \in Seq(Mod)
    OBVIOUS
  <2>3. Store \in StoreType
    BY <1>1, <2>1, <2>2 DEF Store, StoreType
  <2>4. Store.cache = <<>> /\ Store.sys = <<>> /\ Store.obj = <<>>
    BY <1>1, StoreIs
  <2>. QED  BY <2>1, <2>3, <2>4 DEF StoreOK, TablesOK, KidsOK
<1>6. Len(bodies) = 1 /\ bodies \in Seq(FrameType) /\ bodies # <<>> /\ bodies[1] = f
  BY <1>3, <1>4
<1>7. FramesOK(Store, bodies)
  <2>1. DOMAIN Store.obj = {}
    BY <1>1, StoreIs
  <2>2. \A i \in 1 .. Len(bodies) : i = 1
    BY <1>6
  <2>3. \A i \in 2 .. Len(bodies) : FALSE
    BY <1>6
  <2>. QED  BY <1>4, <1>6, <2>1, <2>2, <2>3 DEF FramesOK
<1>8. StackOK(Store, Len(bodies), calls)
  <2>1. calls \in Seq(CallType) /\ Len(calls) = 0
    BY <1>1
  <2>. QED  BY <1>1, <2>1 DEF StackOK
<1>9. RetOK(Store, calls, ret) /\ ret \in [ok : BOOLEAN, obj : Nat]
  BY <1>1 DEF RetOK, NoRet
<1>10. PrunedOK(Store, Len(bodies), calls, prog)
  BY <1>1, <1>6 DEF PrunedOK, Early
<1>11. prog \in ProgramType
  BY NamesAssumption DEF ImportsInit
<1>. QED  BY <1>5, <1>7, <1>8, <1>9, <1>10, <1>11 DEF CoreInv, Core

(* What every step of the import system keeps, for all programs. *)
THEOREM CoreHolds == ImportsSpec => []CoreInv
<1>1. ImportsInit => CoreInv
  BY CoreInit
<1>2. CoreInv /\ [ImportsNext]_importVars => CoreInv'
  BY CoreNext
<1>. QED  BY <1>1, <1>2, PTL DEF ImportsSpec

-----------------------------------------------------------------------------
LEMMA CoreProperties ==
  ASSUME CoreInv
  PROVE  ImportsTypeOK /\ MarksMatchFrames /\ CallersStay /\ TablesAgree
<1>1. /\ StoreOK(Store) /\ FramesOK(Store, bodies) /\ StackOK(Store, Len(bodies), calls)
      /\ Len(bodies) \in Nat \ {0}
  BY CoreFacts
<1>2. Store.cache = cache /\ Store.sys = sysmods /\ Store.obj = obj
  BY StoreIs
<1>3. /\ obj \in Seq(Mod) /\ cache \in Table /\ sysmods \in Table /\ \A i \in DOMAIN obj : obj[i] \in Mod
  BY <1>1, <1>2, ObjDomain
<1>4. TablesAgree
  BY <1>1, <1>2 DEF StoreOK, TablesOK, TablesAgree, Has
<1>5. DOMAIN bodies = 1 .. Len(bodies)
  BY <1>1, FramesFacts
<1>6. MarksMatchFrames
  BY <1>1, <1>2, <1>5 DEF FramesOK, MarksMatchFrames, OnStack
<1>7. CallersStay
  <2>1. DOMAIN calls = 1 .. Len(calls)
    BY <1>1, StackFacts
  <2>2. ASSUME NEW i \in 1 .. Len(calls), calls[i].op \in {"instr", "run"} PROVE Level(calls[i]) <= Len(bodies)
    <3>1. Waits(calls[i])
      BY <2>2 DEF Waits
    <3>2. Level(calls[i]) \in 1 .. Len(bodies)
      BY <1>1, <3>1 DEF StackOK
    <3>. QED  BY <1>1, <3>2
  <2>. QED  BY <2>1, <2>2 DEF CallersStay, Top, Level
<1>8. \A f \in {cache, sysmods} : DOMAIN f \subseteq Names /\ \A n \in DOMAIN f : f[n] \in DOMAIN obj
  <2>1. DOMAIN cache \subseteq Names /\ DOMAIN sysmods \subseteq Names
    BY <1>3, TableFields
  <2>. QED  BY <1>1, <1>2, <2>1 DEF StoreOK, TablesOK
<1>9. ASSUME NEW i \in DOMAIN obj
      PROVE  /\ [f \in {"name", "loader", "init", "st", "def", "bound"} |-> obj[i][f]] \in Module
             /\ \A n \in DOMAIN obj[i].kids : Parent[n] = obj[i].name /\ obj[i].kids[n] \in DOMAIN obj
  <2>1. obj[i] \in Mod
    BY <1>3
  <2>2. PICK m : m = obj[i]
    OBVIOUS
  <2>3. /\ m.name \in Names /\ m.loader \in BOOLEAN /\ m.init \in BOOLEAN /\ m.st \in States
        /\ m.def \in BOOLEAN /\ m.bound \in BOOLEAN
    BY <2>1, <2>2 DEF Mod
  <2>4. PICK r : r = [name |-> m.name, loader |-> m.loader, init |-> m.init, st |-> m.st,
                      def |-> m.def, bound |-> m.bound]
    OBVIOUS
  <2>5. r \in Module
    BY <2>3, <2>4 DEF Module
  <2>6. [f \in {"name", "loader", "init", "st", "def", "bound"} |-> obj[i][f]] = r
    BY <2>2, <2>4
  <2>. QED  BY <1>1, <1>2, <2>5, <2>6 DEF StoreOK, KidsOK
<1>10. ASSUME NEW i \in DOMAIN bodies
       PROVE  /\ bodies[i].obj \in IF i = 1 THEN {0} ELSE DOMAIN obj
              /\ bodies[i].again \in Instr \cup {NoInstr}
              /\ bodies[i].got \subseteq DOMAIN obj
  <2>1. bodies[i].again \in Instr \cup {NoInstr} /\ bodies[i].got \subseteq DOMAIN obj
    BY <1>1, <1>2, <1>5, FramesFacts DEF FramesOK
  <2>2. i = 1 \/ i \in 2 .. Len(bodies)
    BY <1>1, <1>5
  <2>. QED  BY <1>1, <1>2, <2>1, <2>2 DEF FramesOK
<1>11. ImportsTypeOK
  BY <1>8, <1>9, <1>10 DEF ImportsTypeOK
<1>. QED  BY <1>4, <1>6, <1>7, <1>11

(* The marks match the frames, the native operations keep the frames they  *)
(* work for, and the two module tables agree, whatever fails               *)
(* (register_module, cleanup_failed_module_frame,                          *)
(* unwind_exception_internal).                                             *)
THEOREM ImportsAreConsistent == ImportsSpec => []ImportsConsistent
<1>1. CoreInv => ImportsConsistent
  BY CoreProperties DEF ImportsConsistent
<1>. QED  BY <1>1, CoreHolds, PTL

(* What the program deleted from sys.modules only a new load brings back   *)
(* (prune_module_cache_for_removed_sys_modules).                           *)
THEOREM DeletedNamesStayDeleted == ImportsSpec => DeletedStaysDeleted
<1>1. ASSUME EntriesAreNew, prog.body.dels = {}, NEW n \in DOMAIN sysmods' \ DOMAIN sysmods
      PROVE  sysmods'[n] \notin DOMAIN obj
  <2>1. NewAreNew(Store, Store') /\ n \in DOMAIN Store'.sys /\ n \notin DOMAIN Store.sys
    BY <1>1, StoreIs DEF EntriesAreNew
  <2>2. Store'.sys[n] \notin DOMAIN Store.obj
    BY <2>1 DEF NewAreNew, OldEntry
  <2>. QED  BY <2>2, StoreIs
<1>2. CoreInv /\ [ImportsNext]_importVars => [prog.body.dels = {} =>
       \A n \in DOMAIN sysmods' \ DOMAIN sysmods : sysmods'[n] \notin DOMAIN obj]_importVars
  BY <1>1, CoreNext
<1>. QED  BY <1>2, CoreHolds, PTL DEF ImportsSpec, DeletedStaysDeleted
=============================================================================
