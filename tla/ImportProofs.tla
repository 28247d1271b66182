----------------------------- MODULE ImportProofs ---------------------------
(***************************************************************************)
(* Proofs about Imports for programs of the usual shape (Regular), with    *)
(* any names and any number of modules: packages start before what is in   *)
(* them, an import hands out finished modules or those whose bodies are    *)
(* under way below, and an import runs a body once.                        *)
(***************************************************************************)
EXTENDS InterpreterProofs

-----------------------------------------------------------------------------
(* What Regular programs keep besides.  An object is done when its body has *)
(* ended, and marked while its frame is on the stack.                       *)

Stages == {"queued", "run", "done", "failed"}
Begun == {"run", "done", "failed"}
ByStatement == {"stmt", "from"}
Alone(n) == ~Dotted(n) /\ \A m \in Names : Parent[m] # n
Answered(f, o, n) == n \in DOMAIN f /\ f[n] = o

(* No placeholders, no dropped bodies, and packages start first. *)
RObjects(s) ==
  /\ \A i \in DOMAIN s.obj : s.obj[i].loader /\ s.obj[i].st \in Stages
  /\ \A i \in DOMAIN s.obj : Dotted(s.obj[i].name) =>
       \E j \in DOMAIN s.obj : s.obj[j].name = Parent[s.obj[i].name] /\ s.obj[j].st \in Begun

REntries(s) == \A n \in DOMAIN s.sys : s.obj[s.sys[n]].st = "done" \/ s.obj[s.sys[n]].init

RKids(s) ==
  \A p \in DOMAIN s.sys : \A n \in DOMAIN s.obj[s.sys[p]].kids :
    Answered(s.sys, s.obj[s.sys[p]].kids[n], n)

(* The program deletes names only that are no packages and in no package. *)
RCached(s) == \A n \in DOMAIN s.cache : n \in DOMAIN s.sys \/ Alone(n)

RStore(s) == RObjects(s) /\ REntries(s) /\ RKids(s) /\ RCached(s)

NameAt(s, fr, i) == s.obj[fr[i].obj].name

RFrame(s, fr, i) ==
  /\ Answered(s.sys, fr[i].obj, NameAt(s, fr, i))
  /\ s.obj[fr[i].obj].st = IF fr[i].fresh THEN "queued" ELSE "run"
  /\ fr[i].fresh => i = Len(fr) /\ fr[i].again = NoInstr /\ ~fr[i].guard

(* An object that an import gave to frame k. *)
Complete(s, fr, k, o) ==
  s.obj[o].st = "done" \/ \E j \in 1 .. Len(fr) : j <= k + 1 /\ fr[j].obj = o

RGot(s, fr) == \A k \in 1 .. Len(fr) : \A o \in fr[k].got : Complete(s, fr, k, o)

RAgain(fr) ==
  \A k \in 1 .. Len(fr) : fr[k].again # NoInstr => fr[k].again.k \in ByStatement /\ fr[k].got = {}

RFrames(s, fr) == (\A i \in 2 .. Len(fr) : RFrame(s, fr, i)) /\ RGot(s, fr) /\ RAgain(fr)

-----------------------------------------------------------------------------
(* The native operations.  Only the program's own frame waits for imports. *)

Allowed(who, i) == i.k # "dunder" /\ (who > 1 => i.k \in ByStatement)

BodyBegun(fr, k) == k >= 2 => ~fr[k].fresh

RInstr(fr, c) ==
  /\ Allowed(c.who, c.i) /\ c.pc # "head"
  /\ c.pc = "deferred" => c.i.k \in ByStatement
  /\ fr[c.who].again = NoInstr /\ fr[c.who].got = {}
  /\ BodyBegun(fr, c.who)

RImport(s, fr, c) ==
  /\ c.pc # "rescued"
  /\ c.sync => c.depth = 1
  /\ c.pc = "drained" => c.sync
  /\ Dotted(c.n) => c.n \notin c.existing
  /\ \A k \in 2 .. c.depth : NameAt(s, fr, k) \in c.existing
  /\ BodyBegun(fr, c.depth)

RCall(s, fr, c) ==
  /\ c.op = "instr" => RInstr(fr, c)
  /\ c.op = "load" => c.pc = "start"
  /\ c.op = "import" /\ c.pc # "start" => RImport(s, fr, c)
  /\ c.op = "run" => c.stop = 1

(* What a drain waits for: the frame above the program's. *)
Drained(s, fr, d) ==
  IF Len(fr) = 1 THEN Answered(s.sys, d.o, d.n) ELSE fr[2].obj = d.o

RLink(s, fr, c, d) ==
  /\ c.op = "import" /\ c.pc # "start" => Level(d) = c.depth
  /\ c.op = "import" /\ d.op = "import" /\ d.pc = "again" => c.pc = "start"
  /\ c.op = "run" => Drained(s, fr, d)

RDeep(cs) == \A i, j \in 1 .. Len(cs) : i < j /\ Waits(cs[i]) /\ cs[j].op = "run" => Level(cs[i]) >= 2

RCalls(s, fr, cs) ==
  /\ \A i \in 1 .. Len(cs) : RCall(s, fr, cs[i])
  /\ \A i \in 1 .. Len(cs) - 1 : RLink(s, fr, cs[i], cs[i + 1])
  /\ RDeep(cs)

(* The innermost call c, its caller d; f is sys.modules. *)
Free(d) == d.op = "instr" /\ d.i.k \in {"import_module", "resolve"}

ParentIn(f, n) == Dotted(n) => Parent[n] \in DOMAIN f

HeadInstr(f, lim, c, r) ==
  /\ lim = c.who \/ lim = c.who + 1
  /\ c.pc = "start" \/ ~r.ok \/ c.i.k = "resolve" => lim = c.who
  /\ c.pc = "deferred" /\ r.ok => Parent[c.i.n] \in DOMAIN f
  /\ c.pc = "imported" /\ r.ok =>
       Answered(f, r.obj, c.i.n) /\ (c.i.k \in ByStatement => ParentIn(f, c.i.n))
  /\ c.pc = "sub" /\ r.ok => Answered(f, r.obj, c.i.a)

HeadStart(f, lim, c, d) ==
  /\ lim = Level(d)
  /\ c.sync => lim = 1 \/ c.n \in DOMAIN f
  /\ ParentIn(f, c.n) \/ (lim = 1 /\ Free(d))
  /\ d.op = "import" /\ d.pc = "again" => c.n \in DOMAIN f

HeadImport(f, fr, c, r) ==
  /\ c.pc # "loaded" \/ ~r.ok => Len(fr) = c.depth
  /\ c.pc = "loaded" => ParentIn(f, c.n)
  /\ c.pc = "loaded" /\ r.ok =>
       /\ Answered(f, r.obj, c.n)
       /\ Len(fr) = c.depth \/ (Len(fr) = c.depth + 1 /\ fr[Len(fr)].obj = r.obj)
  /\ c.pc = "meta" /\ r.ok => Parent[c.n] \in DOMAIN f
  /\ c.pc = "drained" /\ r.ok => Answered(f, c.o, c.n)

HeadLoad(f, lim, c, d) == lim = Level(d) /\ ParentIn(f, c.n)

RHead(f, fr, cs, r) ==
  cs # <<>> =>
    /\ cs[1].op = "instr" => HeadInstr(f, Len(fr), cs[1], r)
    /\ cs[1].op = "import" /\ cs[1].pc = "start" => HeadStart(f, Len(fr), cs[1], cs[2])
    /\ cs[1].op = "import" /\ cs[1].pc # "start" => HeadImport(f, fr, cs[1], r)
    /\ cs[1].op = "load" => HeadLoad(f, Len(fr), cs[1], cs[2])

RAll(s, fr, cs, r) == RStore(s) /\ RFrames(s, fr) /\ RCalls(s, fr, cs) /\ RHead(s.sys, fr, cs, r)

(* Steps of the tables. *)

Same(m, k) == m.name = k.name /\ m.loader = k.loader /\ m.init = k.init /\ m.st = k.st

(* Only flags that do not matter here change, and what packages get as      *)
(* attributes sys.modules has.                                              *)
Calm(s, t) ==
  /\ t.sys = s.sys /\ DOMAIN t.cache \subseteq DOMAIN s.cache /\ DOMAIN t.obj = DOMAIN s.obj
  /\ \A i \in DOMAIN s.obj : Same(t.obj[i], s.obj[i])
  /\ \A i \in DOMAIN s.obj : \A n \in DOMAIN t.obj[i].kids :
       Answered(s.obj[i].kids, t.obj[i].kids[n], n) \/ Answered(s.sys, t.obj[i].kids[n], n)

LEMMA SysObjects ==
  ASSUME NEW s, StoreOK(s)
  PROVE  /\ \A n \in DOMAIN s.sys : s.sys[n] \in DOMAIN s.obj /\ s.obj[s.sys[n]].name = n /\ n \in Names
         /\ DOMAIN s.sys \subseteq DOMAIN s.cache
<1>1. DOMAIN s.sys \subseteq Names
  BY TableFields, ObjDomain
<1>. QED  BY <1>1 DEF StoreOK, TablesOK

LEMMA CalmStore ==
  ASSUME NEW s, StoreOK(s), RStore(s), NEW t, Calm(s, t)
  PROVE  RStore(t)
<1>1. \A n \in DOMAIN s.sys : s.sys[n] \in DOMAIN s.obj
  BY SysObjects
<1>2. RObjects(t)
  BY DEF RStore, RObjects, Calm, Same
<1>3. REntries(t)
  BY <1>1 DEF RStore, REntries, Calm, Same
<1>4. RKids(t)
  BY <1>1 DEF RStore, RKids, Calm, Answered
<1>5. RCached(t)
  BY DEF RStore, RCached, Calm
<1>. QED  BY <1>2, <1>3, <1>4, <1>5 DEF RStore

LEMMA CalmFrames ==
  ASSUME NEW s, StoreOK(s), NEW t, Calm(s, t), NEW fr, FramesOK(s, fr), RFrames(s, fr)
  PROVE  RFrames(t, fr)
<1>1. \A i \in 2 .. Len(fr) : fr[i].obj \in DOMAIN s.obj
  BY DEF FramesOK
<1>2. \A k \in 1 .. Len(fr) : fr[k].got \subseteq DOMAIN s.obj
  BY DEF FramesOK
<1>3. \A i \in 2 .. Len(fr) : RFrame(t, fr, i)
  BY <1>1 DEF RFrames, RFrame, NameAt, Calm, Same
<1>4. RGot(t, fr)
  BY <1>2 DEF RFrames, RGot, Complete, Calm, Same
<1>. QED  BY <1>3, <1>4 DEF RFrames

(* sys.modules does not change, nor does what the first frames are for. *)
Quiet(s, t) == t.sys = s.sys /\ \A i \in DOMAIN s.obj : t.obj[i].name = s.obj[i].name

LEMMA CalmQuiet ==
  ASSUME NEW s, NEW t, Calm(s, t)
  PROVE  Quiet(s, t)
BY DEF Calm, Quiet, Same

LEMMA CalmSelf ==
  ASSUME NEW s
  PROVE  Calm(s, s)
BY DEF Calm, Same, Answered

LEMMA CalmTwice ==
  ASSUME NEW s, NEW t, NEW u, Calm(s, t), Calm(t, u)
  PROVE  Calm(s, u)
BY DEF Calm, Same, Answered

-----------------------------------------------------------------------------
(* All is well but for the entries of the names in S. *)
RStoreBut(s, S) ==
  /\ RObjects(s) /\ RKids(s) /\ RCached(s)
  /\ \A n \in DOMAIN s.sys \ S : s.obj[s.sys[n]].st = "done" \/ s.obj[s.sys[n]].init

LEMMA RStoreAll ==
  ASSUME NEW s, RStore(s), NEW S
  PROVE  RStoreBut(s, S)
BY DEF RStore, REntries, RStoreBut

LEMMA RemovedStore ==
  ASSUME NEW s, StoreOK(s), NEW S, RStoreBut(s, S), NEW t, IsRemoved(s, S, t)
  PROVE  RStore(t)
<1>1. DOMAIN t.obj = DOMAIN s.obj
  BY ObjDomain DEF IsRemoved
<1>2. \A n \in DOMAIN s.sys : s.sys[n] \in DOMAIN s.obj
  BY SysObjects
<1>3. \A i \in DOMAIN s.obj : Same(t.obj[i], s.obj[i])
  BY DEF IsRemoved, SameBut, Same
<1>4. \A n \in DOMAIN t.sys : n \in DOMAIN s.sys /\ n \notin S /\ t.sys[n] = s.sys[n]
  BY DEF IsRemoved
<1>5. RObjects(t)
  BY <1>1, <1>3 DEF RStoreBut, RObjects, Same
<1>6. REntries(t)
  BY <1>2, <1>3, <1>4 DEF RStoreBut, REntries, Same
<1>7. RKids(t)
  <2>1. SUFFICES ASSUME NEW p \in DOMAIN t.sys, NEW n \in DOMAIN t.obj[t.sys[p]].kids
                 PROVE  Answered(t.sys, t.obj[t.sys[p]].kids[n], n)
    BY DEF RKids
  <2>2. PICK o : o = t.sys[p]
    OBVIOUS
  <2>3. p \in DOMAIN s.sys /\ o = s.sys[p] /\ o \in DOMAIN s.obj
    BY <1>2, <1>4, <2>2
  <2>4. n \in DOMAIN s.obj[o].kids /\ t.obj[o].kids[n] = s.obj[o].kids[n]
    BY <2>1, <2>2, <2>3 DEF IsRemoved
  <2>5. Answered(s.sys, t.obj[o].kids[n], n)
    BY <2>3, <2>4 DEF RStoreBut, RKids
  <2>6. p \in DOMAIN t.cache /\ t.cache[p] = o
    BY <2>2 DEF IsRemoved, StoreOK, TablesOK
  <2>7. n \notin S
    BY <2>1, <2>2, <2>6 DEF IsRemoved
  <2>. QED  BY <2>2, <2>5, <2>7 DEF IsRemoved, Answered
<1>8. RCached(t)
  BY DEF RStoreBut, RCached, IsRemoved
<1>. QED  BY <1>5, <1>6, <1>7, <1>8 DEF RStore

(* del sys.modules[n] *)
LEMMA DroppedStore ==
  ASSUME NEW s, StoreOK(s), RStore(s), NEW n, Alone(n), NEW t,
         t.cache = s.cache, t.obj = s.obj, IsDrop(s.sys, {n}, t.sys)
  PROVE  RStore(t)
<1>1. \A k \in DOMAIN t.sys : k \in DOMAIN s.sys /\ t.sys[k] = s.sys[k]
  BY DEF IsDrop
<1>2. RObjects(t) /\ REntries(t)
  BY <1>1 DEF RStore, RObjects, REntries
<1>3. RKids(t)
  <2>1. SUFFICES ASSUME NEW p \in DOMAIN t.sys, NEW k \in DOMAIN t.obj[t.sys[p]].kids
                 PROVE  Answered(t.sys, t.obj[t.sys[p]].kids[k], k)
    BY DEF RKids
  <2>2. p \in DOMAIN s.sys /\ t.sys[p] = s.sys[p] /\ s.sys[p] \in DOMAIN s.obj
    BY <1>1, SysObjects
  <2>3. Answered(s.sys, s.obj[s.sys[p]].kids[k], k)
    BY <2>2 DEF RStore, RKids
  <2>4. Parent[k] = s.obj[s.sys[p]].name /\ s.obj[s.sys[p]].name = p /\ p \in Names
    BY <2>2, SysObjects DEF StoreOK, KidsOK
  <2>5. k # n
    BY <2>4, NamesAssumption DEF Alone, Dotted
  <2>. QED  BY <2>2, <2>3, <2>5 DEF Answered, IsDrop
<1>4. RCached(t)
  BY DEF RStore, RCached, IsDrop
<1>. QED  BY <1>2, <1>3, <1>4 DEF RStore

(* The body of o is under way. *)
Starting(s, o, t) ==
  /\ t.sys = s.sys /\ t.cache = s.cache /\ DOMAIN t.obj = DOMAIN s.obj
  /\ \A i \in DOMAIN s.obj :
       /\ t.obj[i].name = s.obj[i].name /\ t.obj[i].loader = s.obj[i].loader
       /\ t.obj[i].init = s.obj[i].init /\ t.obj[i].kids = s.obj[i].kids
       /\ t.obj[i].st = IF i = o THEN "run" ELSE s.obj[i].st

LEMMA StartingStore ==
  ASSUME NEW s, StoreOK(s), RStore(s), NEW o \in DOMAIN s.obj, s.obj[o].st # "done", NEW t, Starting(s, o, t),
         s.obj[o].st \in {"queued", "run"}
  PROVE  RStore(t)
<1>1. \A n \in DOMAIN s.sys : s.sys[n] \in DOMAIN s.obj
  BY SysObjects
<1>2. \A i \in DOMAIN s.obj : t.obj[i].st \in Stages /\ (s.obj[i].st \in Begun => t.obj[i].st \in Begun)
  BY DEF RStore, RObjects, Starting, Stages, Begun
<1>3. RObjects(t)
  BY <1>2 DEF RStore, RObjects, Starting
<1>4. REntries(t)
  BY <1>1 DEF RStore, REntries, Starting
<1>5. RKids(t)
  BY <1>1 DEF RStore, RKids, Starting
<1>6. RCached(t)
  BY DEF RStore, RCached, Starting
<1>. QED  BY <1>3, <1>4, <1>5, <1>6 DEF RStore

-----------------------------------------------------------------------------
(* Bodies that an exception ends have begun. *)
LEMMA FailedStore ==
  ASSUME NEW s, StoreOK(s), RStore(s), NEW lost, \A o \in lost : s.obj[o].st = "run",
         NEW u, IsFailed(s, lost, u)
  PROVE  RStoreBut(u, {s.obj[o].name : o \in lost})
<1>1. /\ u.sys = s.sys /\ u.cache = s.cache /\ DOMAIN u.obj = DOMAIN s.obj
      /\ \A i \in DOMAIN s.obj : /\ u.obj[i].name = s.obj[i].name /\ u.obj[i].kids = s.obj[i].kids
                                 /\ u.obj[i].loader = s.obj[i].loader
  BY ObjDomain DEF IsFailed, IsMarked, StoreType
<1>2. \A i \in DOMAIN s.obj : /\ u.obj[i].st = IF i \in lost THEN "failed" ELSE s.obj[i].st
                              /\ i \notin lost => u.obj[i] = s.obj[i]
  BY DEF IsFailed
<1>3. \A i \in DOMAIN s.obj : u.obj[i].st \in Stages /\ (s.obj[i].st \in Begun => u.obj[i].st \in Begun)
  BY <1>2 DEF RStore, RObjects, Stages, Begun
<1>4. \A n \in DOMAIN s.sys : s.sys[n] \in DOMAIN s.obj
  BY SysObjects
<1>5. RObjects(u)
  BY <1>1, <1>3 DEF RStore, RObjects
<1>6. RKids(u) /\ RCached(u)
  BY <1>1, <1>4 DEF RStore, RKids, RCached
<1>7. ASSUME NEW n \in DOMAIN u.sys, n \notin {s.obj[o].name : o \in lost}
      PROVE  u.obj[u.sys[n]].st = "done" \/ u.obj[u.sys[n]].init
  <2>1. n \in DOMAIN s.sys /\ u.sys[n] = s.sys[n] /\ s.obj[s.sys[n]].name = n
    BY <1>1, SysObjects
  <2>2. s.sys[n] \notin lost
    BY <1>7, <2>1
  <2>. QED  BY <1>1, <1>2, <1>4, <2>1, <2>2 DEF RStore, REntries
<1>. QED  BY <1>5, <1>6, <1>7 DEF RStoreBut

LEMMA CleanedStore ==
  ASSUME NEW s, StoreOK(s), RStore(s), NEW lost, \A o \in lost : s.obj[o].st = "run",
         NEW t, IsCleaned(s, lost, t)
  PROVE  RStore(t)
<1>1. PICK u : IsFailed(s, lost, u) /\ IsRemoved(u, {s.obj[o].name : o \in lost}, t)
  BY DEF IsCleaned
<1>2. StoreOK(u)
  BY <1>1, MarkedOK DEF IsFailed
<1>. QED  BY <1>1, <1>2, FailedStore, RemovedStore

-----------------------------------------------------------------------------
(* load_module: a new module n, whose package has begun. *)
AddedTo(s, n, t) ==
  /\ DOMAIN t.sys = DOMAIN s.sys \cup {n} /\ t.sys[n] = Len(s.obj) + 1
  /\ \A k \in DOMAIN s.sys : t.sys[k] = s.sys[k]
  /\ DOMAIN t.cache \subseteq DOMAIN t.sys
  /\ DOMAIN t.obj = DOMAIN s.obj \cup {Len(s.obj) + 1}
  /\ \A i \in DOMAIN s.obj : Same(t.obj[i], s.obj[i])
  /\ t.obj[Len(s.obj) + 1].name = n /\ t.obj[Len(s.obj) + 1].loader
  /\ t.obj[Len(s.obj) + 1].st = "queued"
  /\ \A i \in DOMAIN t.obj : \A k \in DOMAIN t.obj[i].kids :
       \/ i \in DOMAIN s.obj /\ Answered(s.obj[i].kids, t.obj[i].kids[k], k)
       \/ Answered(t.sys, t.obj[i].kids[k], k)

LEMMA CreatedIs ==
  ASSUME NEW s, StoreOK(s), Pruned(s), NEW n \in Names, n \notin DOMAIN s.cache, ParentIn(s.sys, n),
         NEW t, IsCreated(s, n, t)
  PROVE  AddedTo(s, n, t)
<1>1. PICK u : IsRegistered(s, n, NewModule(n, TRUE), u) /\ IsLinked(u, n, Len(s.obj) + 1, t)
  BY DEF IsCreated
<1>2. PICK m : m = NewModule(n, TRUE)
  OBVIOUS
<1>3. m.name = n /\ m.loader /\ DOMAIN m.kids = {} /\ m.st = "queued"
  BY <1>2, NewModuleFacts
<1>4. PICK o : o = Len(s.obj) + 1
  OBVIOUS
<1>5. /\ StoreOK(u) /\ u.obj[o] = m /\ \A i \in DOMAIN s.obj : u.obj[i] = s.obj[i]
      /\ DOMAIN u.cache = DOMAIN s.cache \cup {n} /\ DOMAIN u.sys = DOMAIN u.cache /\ u.cache[n] = o
      /\ \A k \in DOMAIN s.cache : k # n => u.cache[k] = s.cache[k]
      /\ Len(u.obj) = Len(s.obj) + 1
  BY <1>1, <1>2, <1>4 DEF IsRegistered
<1>6. DOMAIN u.obj = DOMAIN s.obj \cup {o} /\ o \notin DOMAIN s.obj
  <2>1. DOMAIN u.obj = 1 .. Len(u.obj) /\ DOMAIN s.obj = 1 .. Len(s.obj) /\ Len(s.obj) \in Nat
    BY <1>5, ObjDomain
  <2>. QED  BY <1>4, <1>5, <2>1
<1>7. DOMAIN s.sys = DOMAIN s.cache
  BY SysObjects DEF Pruned
<1>8. DOMAIN u.sys = DOMAIN s.sys \cup {n} /\ u.sys[n] = o /\ \A k \in DOMAIN s.sys : u.sys[k] = s.sys[k]
  <2>1. \A k \in DOMAIN u.sys : u.sys[k] = u.cache[k]
    BY <1>5 DEF StoreOK, TablesOK
  <2>2. \A k \in DOMAIN s.sys : s.sys[k] = s.cache[k]
    BY DEF StoreOK, TablesOK
  <2>. QED  BY <1>5, <1>7, <2>1, <2>2
<1>9. CASE ~Dotted(n)
  <2>1. t = u
    BY <1>1, <1>9 DEF IsLinked
  <2>. QED  BY <1>3, <1>4, <1>5, <1>6, <1>8, <2>1 DEF AddedTo, Same, Answered
<1>10. CASE Dotted(n)
  <2>1. Parent[n] \in DOMAIN s.cache
    BY <1>7, <1>10 DEF ParentIn
  <2>2. PICK p : p = u.cache[Parent[n]]
    OBVIOUS
  <2>3. IsBoundIn(u, p, n, o, t)
    BY <1>1, <1>4, <1>5, <1>10, <2>1, <2>2 DEF IsLinked
  <2>4. p \in DOMAIN u.obj
    BY <1>5, <2>1, <2>2 DEF StoreOK, TablesOK
  <2>5. /\ t.cache = u.cache /\ t.sys = u.sys /\ DOMAIN t.obj = DOMAIN u.obj
        /\ \A i \in DOMAIN u.obj : SameBut(u.obj[i], t.obj[i])
        /\ \A i \in DOMAIN u.obj : i # p => t.obj[i].kids = u.obj[i].kids
        /\ IsPut(u.obj[p].kids, n, o, t.obj[p].kids)
    <3>1. StoreOK(t) /\ Len(t.obj) = Len(u.obj)
      BY <2>3 DEF IsBoundIn
    <3>2. DOMAIN t.obj = 1 .. Len(t.obj) /\ DOMAIN u.obj = 1 .. Len(u.obj)
      BY <1>5, <3>1, ObjDomain
    <3>. QED  BY <2>3, <3>1, <3>2 DEF IsBoundIn
  <2>6. \A i \in DOMAIN u.obj : \A k \in DOMAIN t.obj[i].kids :
          Answered(u.obj[i].kids, t.obj[i].kids[k], k) \/ (k = n /\ t.obj[i].kids[k] = o)
    BY <2>5 DEF IsPut, Answered
  <2>7. \A i \in DOMAIN t.obj : \A k \in DOMAIN t.obj[i].kids :
          \/ i \in DOMAIN s.obj /\ Answered(s.obj[i].kids, t.obj[i].kids[k], k)
          \/ Answered(t.sys, t.obj[i].kids[k], k)
    <3>1. SUFFICES ASSUME NEW i \in DOMAIN t.obj, NEW k \in DOMAIN t.obj[i].kids
                   PROVE \/ i \in DOMAIN s.obj /\ Answered(s.obj[i].kids, t.obj[i].kids[k], k)
                         \/ Answered(t.sys, t.obj[i].kids[k], k)
      OBVIOUS
    <3>2. CASE k = n /\ t.obj[i].kids[k] = o
      BY <1>8, <2>5, <3>2 DEF Answered
    <3>3. CASE Answered(u.obj[i].kids, t.obj[i].kids[k], k)
      <4>1. i \in DOMAIN s.obj
        BY <1>3, <1>5, <1>6, <2>5, <3>3 DEF Answered
      <4>. QED  BY <1>5, <3>3, <4>1
    <3>. QED  BY <2>5, <2>6, <3>2, <3>3
  <2>8. \A i \in DOMAIN s.obj : Same(t.obj[i], s.obj[i])
    BY <1>5, <1>6, <2>5 DEF SameBut, Same
  <2>9. t.obj[o].name = n /\ t.obj[o].loader /\ t.obj[o].st = "queued"
    BY <1>3, <1>5, <1>6, <2>5 DEF SameBut
  <2>. QED  BY <1>4, <1>5, <1>6, <1>8, <2>5, <2>7, <2>8, <2>9 DEF AddedTo
<1>. QED  BY <1>9, <1>10

LEMMA AddedStore ==
  ASSUME NEW s, StoreOK(s), RStore(s), NEW n \in Names, n \notin DOMAIN s.cache,
         Dotted(n) => \E j \in DOMAIN s.obj : s.obj[j].name = Parent[n] /\ s.obj[j].st \in Begun,
         NEW t, AddedTo(s, n, t)
  PROVE  RStoreBut(t, {n})
<1>1. \A k \in DOMAIN s.sys : s.sys[k] \in DOMAIN s.obj
  BY SysObjects
<1>2. Len(s.obj) + 1 \notin DOMAIN s.obj /\ n \notin DOMAIN s.sys
  <2>1. DOMAIN s.obj = 1 .. Len(s.obj) /\ Len(s.obj) \in Nat
    BY ObjDomain
  <2>. QED  BY <2>1, SysObjects
<1>3. PICK o : o = Len(s.obj) + 1
  OBVIOUS
<1>4. RObjects(t)
  <2>1. /\ DOMAIN t.obj = DOMAIN s.obj \cup {o}
        /\ \A i \in DOMAIN s.obj : Same(t.obj[i], s.obj[i])
        /\ t.obj[o].name = n /\ t.obj[o].loader /\ t.obj[o].st = "queued"
    BY <1>3 DEF AddedTo
  <2>2. \A i \in DOMAIN t.obj : t.obj[i].loader /\ t.obj[i].st \in Stages
    BY <2>1 DEF RStore, RObjects, Same, Stages
  <2>3. ASSUME NEW i \in DOMAIN t.obj, Dotted(t.obj[i].name)
        PROVE  \E j \in DOMAIN s.obj : s.obj[j].name = Parent[t.obj[i].name] /\ s.obj[j].st \in Begun
    BY <2>1, <2>3 DEF RStore, RObjects, Same
  <2>. QED  BY <2>1, <2>2, <2>3 DEF RObjects, Same
<1>5. \A k \in DOMAIN t.sys \ {n} : t.obj[t.sys[k]].st = "done" \/ t.obj[t.sys[k]].init
  BY <1>1 DEF RStore, REntries, AddedTo, Same
<1>6. RKids(t)
  <2>1. SUFFICES ASSUME NEW p \in DOMAIN t.sys, NEW k \in DOMAIN t.obj[t.sys[p]].kids
                 PROVE  Answered(t.sys, t.obj[t.sys[p]].kids[k], k)
    BY DEF RKids
  <2>2. PICK i : i = t.sys[p]
    OBVIOUS
  <2>3. i \in DOMAIN t.obj
    BY <1>1, <2>2 DEF AddedTo
  <2>4. CASE Answered(t.sys, t.obj[i].kids[k], k)
    BY <2>2, <2>4
  <2>5. CASE i \in DOMAIN s.obj /\ Answered(s.obj[i].kids, t.obj[i].kids[k], k)
    <3>1. p \in DOMAIN s.sys /\ i = s.sys[p]
      BY <1>2, <2>2, <2>5 DEF AddedTo
    <3>2. Answered(s.sys, t.obj[i].kids[k], k)
      BY <2>5, <3>1 DEF RStore, RKids, Answered
    <3>. QED  BY <2>2, <3>2 DEF AddedTo, Answered
  <2>. QED  BY <2>1, <2>2, <2>3, <2>4, <2>5 DEF AddedTo
<1>7. RCached(t)
  BY DEF RCached, AddedTo
<1>. QED  BY <1>4, <1>5, <1>6, <1>7 DEF RStoreBut

LEMMA QueuedIs ==
  ASSUME NEW s, StoreOK(s), Pruned(s), NEW n \in Names, n \notin DOMAIN s.cache, ParentIn(s.sys, n),
         NEW u, IsQueued(s, n, u)
  PROVE  AddedTo(s, n, u) /\ u.obj[Len(s.obj) + 1].init
<1>1. PICK o : o = Len(s.obj) + 1
  OBVIOUS
<1>2. PICK t : /\ IsCreated(s, n, t) /\ IsMarked(t, u) /\ u.obj[o].init /\ u.obj[o].st = "queued"
               /\ \A i \in DOMAIN t.obj : i # o => u.obj[i] = t.obj[i]
  BY <1>1 DEF IsQueued
<1>3. AddedTo(s, n, t)
  BY <1>2, CreatedIs
<1>4. StoreOK(t)
  BY <1>2, CreatedTame DEF Tame
<1>5. /\ u.cache = t.cache /\ u.sys = t.sys /\ DOMAIN u.obj = DOMAIN t.obj
      /\ \A i \in DOMAIN t.obj : u.obj[i].name = t.obj[i].name /\ u.obj[i].kids = t.obj[i].kids
                                 /\ u.obj[i].loader = t.obj[i].loader
  <2>1. u \in StoreType /\ Len(u.obj) = Len(t.obj)
    BY <1>2 DEF IsMarked
  <2>2. DOMAIN u.obj = DOMAIN t.obj
    BY <1>4, <2>1, StoreFields, ObjDomain
  <2>. QED  BY <1>2, <2>2 DEF IsMarked
<1>6. o \notin DOMAIN s.obj
  <2>1. DOMAIN s.obj = 1 .. Len(s.obj) /\ Len(s.obj) \in Nat
    BY ObjDomain
  <2>. QED  BY <1>1, <2>1
<1>7. \A i \in DOMAIN s.obj : u.obj[i] = t.obj[i]
  BY <1>2, <1>3, <1>6 DEF AddedTo
<1>. QED  BY <1>1, <1>2, <1>3, <1>5, <1>7 DEF AddedTo, Same

LEMMA QueuedStore ==
  ASSUME NEW s, StoreOK(s), RStore(s), NEW n \in Names, n \notin DOMAIN s.cache,
         Dotted(n) => \E j \in DOMAIN s.obj : s.obj[j].name = Parent[n] /\ s.obj[j].st \in Begun,
         NEW u, AddedTo(s, n, u), u.obj[Len(s.obj) + 1].init
  PROVE  RStore(u)
<1>1. RStoreBut(u, {n})
  BY AddedStore
<1>2. u.sys[n] = Len(s.obj) + 1
  BY DEF AddedTo
<1>. QED  BY <1>1, <1>2 DEF RStoreBut, RStore, REntries

LEMMA EndedStore ==
  ASSUME NEW s, StoreOK(s), RStore(s), NEW o \in DOMAIN s.obj, NEW n, NEW t, IsEnded(s, o, n, o, t)
  PROVE  /\ RStore(t) /\ t.sys = s.sys /\ DOMAIN t.obj = DOMAIN s.obj /\ t.obj[o].st = "done"
         /\ \A i \in DOMAIN s.obj : t.obj[i].name = s.obj[i].name /\ (i # o => t.obj[i] = s.obj[i])
<1>1. /\ IsMarked(s, t) /\ t.obj[o].st = "done" /\ \A i \in DOMAIN s.obj : i # o => t.obj[i] = s.obj[i]
  BY DEF IsEnded
<1>2. /\ t.cache = s.cache /\ t.sys = s.sys /\ DOMAIN t.obj = DOMAIN s.obj
      /\ \A i \in DOMAIN s.obj : /\ t.obj[i].name = s.obj[i].name /\ t.obj[i].kids = s.obj[i].kids
                                 /\ t.obj[i].loader = s.obj[i].loader
  <2>1. t \in StoreType /\ Len(t.obj) = Len(s.obj)
    BY <1>1 DEF IsMarked
  <2>2. DOMAIN t.obj = DOMAIN s.obj
    BY <2>1, StoreFields, ObjDomain
  <2>. QED  BY <1>1, <2>2 DEF IsMarked
<1>3. \A k \in DOMAIN s.sys : s.sys[k] \in DOMAIN s.obj
  BY SysObjects
<1>4. RObjects(t)
  BY <1>1, <1>2 DEF RStore, RObjects, Stages, Begun
<1>5. REntries(t)
  BY <1>1, <1>2, <1>3 DEF RStore, REntries
<1>6. RKids(t) /\ RCached(t)
  BY <1>2, <1>3 DEF RStore, RKids, RCached
<1>. QED  BY <1>1, <1>2, <1>4, <1>5, <1>6 DEF RStore

-----------------------------------------------------------------------------
(* Steps of the frames. *)

LEMMA FrameObjects ==
  ASSUME NEW s, NEW fr, FramesOK(s, fr)
  PROVE  /\ Len(fr) \in Nat \ {0}
         /\ \A i \in 2 .. Len(fr) : i \in 1 .. Len(fr) /\ fr[i].obj \in DOMAIN s.obj
         /\ \A i, j \in 1 .. Len(fr) : fr[i].obj = fr[j].obj => i = j
         /\ \A k \in 1 .. Len(fr) : fr[k].got \subseteq DOMAIN s.obj
<1>1. Len(fr) \in Nat \ {0}
  BY FramesFacts
<1>. QED  BY <1>1 DEF FramesOK

(* The tables change, but the names of the frames are still theirs. *)
Undisturbed(s, t, fr) ==
  /\ \A i \in DOMAIN s.obj : Same(t.obj[i], s.obj[i])
  /\ \A i \in 2 .. Len(fr) : Answered(t.sys, fr[i].obj, NameAt(s, fr, i))

LEMMA FramesUndisturbed ==
  ASSUME NEW s, NEW fr, FramesOK(s, fr), RFrames(s, fr), NEW t, Undisturbed(s, t, fr)
  PROVE  RFrames(t, fr)
<1>1. /\ \A i \in 2 .. Len(fr) : fr[i].obj \in DOMAIN s.obj
      /\ \A k \in 1 .. Len(fr) : fr[k].got \subseteq DOMAIN s.obj
  BY FrameObjects
<1>2. \A i \in 2 .. Len(fr) : RFrame(t, fr, i)
  BY <1>1 DEF RFrames, RFrame, NameAt, Undisturbed, Same
<1>3. RGot(t, fr)
  BY <1>1 DEF RFrames, RGot, Complete, Undisturbed, Same
<1>. QED  BY <1>2, <1>3 DEF RFrames

LEMMA RemovedUndisturbed ==
  ASSUME NEW s, NEW fr, FramesOK(s, fr), RFrames(s, fr), NEW S, NEW t, IsRemoved(s, S, t),
         \A i \in 2 .. Len(fr) : NameAt(s, fr, i) \notin S
  PROVE  Undisturbed(s, t, fr)
<1>1. \A i \in DOMAIN s.obj : Same(t.obj[i], s.obj[i])
  BY DEF IsRemoved, SameBut, Same
<1>2. \A i \in 2 .. Len(fr) : Answered(t.sys, fr[i].obj, NameAt(s, fr, i))
  BY DEF RFrames, RFrame, Answered, IsRemoved
<1>. QED  BY <1>1, <1>2 DEF Undisturbed

LEMMA AddedUndisturbed ==
  ASSUME NEW s, NEW fr, RFrames(s, fr), NEW n, NEW t, AddedTo(s, n, t)
  PROVE  Undisturbed(s, t, fr)
BY DEF RFrames, RFrame, Answered, AddedTo, Undisturbed

(* One frame changes, its body not. *)
Edited(fr, k, g) ==
  /\ Len(g) = Len(fr) /\ \A i \in 1 .. Len(fr) : i # k => g[i] = fr[i]
  /\ g[k].obj = fr[k].obj
AgainOK(f) == f.again # NoInstr => f.again.k \in ByStatement /\ f.got = {}

LEMMA FramesEdited ==
  ASSUME NEW s, NEW fr, FramesOK(s, fr), RFrames(s, fr), NEW k \in 1 .. Len(fr), NEW g, Edited(fr, k, g),
         k >= 2 => (g[k].fresh <=> fr[k].fresh), k >= 2 /\ g[k].fresh => g[k].again = NoInstr /\ ~g[k].guard, AgainOK(g[k]),
         \A o \in g[k].got : Complete(s, fr, k, o)
  PROVE  RFrames(s, g)
<1>1. Len(fr) \in Nat \ {0}
  BY FrameObjects
<1>2. \A i \in 1 .. Len(fr) : g[i].obj = fr[i].obj
  BY DEF Edited
<1>3. \A i \in 2 .. Len(g) : RFrame(s, g, i)
  <2>1. SUFFICES ASSUME NEW i \in 2 .. Len(fr) PROVE RFrame(s, g, i)
    BY DEF Edited
  <2>2. g[i].obj = fr[i].obj /\ RFrame(s, fr, i) /\ Len(g) = Len(fr)
    BY <1>1, <1>2 DEF RFrames, Edited
  <2>3. i # k => g[i] = fr[i]
    BY <1>1 DEF Edited
  <2>4. /\ g[i].fresh <=> fr[i].fresh
        /\ g[i].fresh => g[i].again = NoInstr /\ ~g[i].guard
    BY <2>2, <2>3 DEF RFrame
  <2>. QED  BY <2>2, <2>4 DEF RFrame, NameAt
<1>4. \A i \in 1 .. Len(fr) : \A o : Complete(s, fr, i, o) => Complete(s, g, i, o)
  BY <1>2 DEF Complete, Edited
<1>5. RGot(s, g)
  BY <1>4 DEF RFrames, RGot, Edited
<1>6. RAgain(g)
  BY DEF RFrames, RAgain, Edited, AgainOK
<1>. QED  BY <1>3, <1>5, <1>6 DEF RFrames

(* The top frame's body is under way. *)
LEMMA FramesStarting ==
  ASSUME NEW s, NEW fr, FramesOK(s, fr), RFrames(s, fr), NEW k, k = Len(fr), k >= 2,
         NEW t, Starting(s, fr[k].obj, t), NEW g, Edited(fr, k, g),
         ~g[k].fresh, g[k].again = NoInstr, g[k].got = {}
  PROVE  RFrames(t, g)
<1>1. Len(fr) \in Nat \ {0} /\ k \in 2 .. Len(fr) /\ k \in 1 .. Len(fr)
  BY FrameObjects
<1>2. \A i \in 1 .. Len(fr) : g[i].obj = fr[i].obj
  BY DEF Edited
<1>3. /\ \A i \in 2 .. Len(fr) : fr[i].obj \in DOMAIN s.obj
      /\ \A i \in 1 .. Len(fr) : i # k => fr[i].obj # fr[k].obj
      /\ \A i \in 1 .. Len(fr) : fr[i].got \subseteq DOMAIN s.obj
  BY <1>1, FrameObjects
<1>4. s.obj[fr[k].obj].st # "done"
  BY <1>1 DEF RFrames, RFrame
<1>5. \A i \in 2 .. Len(g) : RFrame(t, g, i)
  <2>1. SUFFICES ASSUME NEW i \in 2 .. Len(fr) PROVE RFrame(t, g, i)
    BY DEF Edited
  <2>2. g[i].obj = fr[i].obj /\ RFrame(s, fr, i) /\ Len(g) = Len(fr) /\ i \in 1 .. Len(fr)
    BY <1>1, <1>2 DEF RFrames, Edited
  <2>3. CASE i = k
    BY <1>3, <2>2, <2>3 DEF RFrame, NameAt, Starting
  <2>4. CASE i # k
    <3>1. g[i] = fr[i] /\ ~fr[i].fresh /\ fr[i].obj # fr[k].obj
      BY <1>3, <2>2, <2>4 DEF RFrame, Edited
    <3>. QED  BY <1>3, <2>2, <3>1 DEF RFrame, NameAt, Starting
  <2>. QED  BY <2>3, <2>4
<1>6. RGot(t, g)
  <2>1. ASSUME NEW i \in 1 .. Len(fr), NEW o \in fr[i].got, Complete(s, fr, i, o)
        PROVE  Complete(t, g, i, o)
    BY <1>2, <1>3, <1>4, <2>1 DEF Complete, Edited, Starting
  <2>. QED  BY <2>1 DEF RFrames, RGot, Edited
<1>7. RAgain(g)
  BY DEF RFrames, RAgain, Edited
<1>. QED  BY <1>5, <1>6, <1>7 DEF RFrames

(* A body is queued on top. *)
LEMMA FramesQueued ==
  ASSUME NEW s, NEW fr, FramesOK(s, fr), RFrames(s, fr), BodyBegun(fr, Len(fr)),
         NEW n, NEW t, AddedTo(s, n, t), NEW g, Len(g) = Len(fr) + 1,
         g[Len(fr) + 1] = QueuedFrame(Len(s.obj) + 1), \A i \in 1 .. Len(fr) : g[i] = fr[i]
  PROVE  RFrames(t, g)
<1>1. PICK o : o = Len(s.obj) + 1
  OBVIOUS
<1>2. Len(fr) \in Nat \ {0} /\ \A i \in 2 .. Len(fr) : i \in 1 .. Len(fr) /\ fr[i].obj \in DOMAIN s.obj
  BY FrameObjects
<1>3. PICK f : f = g[Len(fr) + 1]
  OBVIOUS
<1>4. f.obj = o /\ f.fresh /\ ~f.guard /\ f.again = NoInstr /\ f.got = {}
  BY <1>1, <1>3 DEF QueuedFrame
<1>5. Undisturbed(s, t, fr)
  BY AddedUndisturbed
<1>6. RFrames(t, fr)
  BY <1>5, FramesUndisturbed
<1>7. \A i \in 2 .. Len(fr) : ~fr[i].fresh
  BY <1>2 DEF RFrames, RFrame, BodyBegun
<1>8. \A i \in 2 .. Len(g) : i \in 2 .. Len(fr) \/ i = Len(fr) + 1
  BY <1>2
<1>9. ASSUME NEW i \in 2 .. Len(g) PROVE RFrame(t, g, i)
  <2>1. CASE i \in 2 .. Len(fr)
    <3>1. g[i] = fr[i] /\ ~fr[i].fresh /\ RFrame(t, fr, i)
      BY <1>2, <1>6, <1>7, <2>1 DEF RFrames
    <3>. QED  BY <3>1 DEF RFrame, NameAt
  <2>2. CASE i = Len(fr) + 1
    <3>1. g[i] = f /\ i = Len(g)
      BY <1>3, <2>2
    <3>2. t.obj[o].name = n /\ t.obj[o].st = "queued" /\ Answered(t.sys, o, n)
      BY <1>1 DEF AddedTo, Answered
    <3>. QED  BY <1>4, <3>1, <3>2 DEF RFrame, NameAt
  <2>. QED  BY <1>8, <2>1, <2>2
<1>10. \A k \in 1 .. Len(g) : k \in 1 .. Len(fr) \/ k = Len(fr) + 1
  BY <1>2
<1>11. RGot(t, g)
  <2>1. ASSUME NEW k \in 1 .. Len(fr), NEW x \in fr[k].got PROVE Complete(t, g, k, x)
    <3>1. Complete(t, fr, k, x)
      BY <1>6 DEF RFrames, RGot
    <3>2. \A j \in 1 .. Len(fr) : j \in 1 .. Len(g) /\ g[j] = fr[j]
      BY <1>2
    <3>. QED  BY <3>1, <3>2 DEF Complete
  <2>. QED  BY <1>3, <1>4, <1>10, <2>1 DEF RGot
<1>12. RAgain(g)
  BY <1>3, <1>4, <1>6, <1>10 DEF RAgain, RFrames
<1>. QED  BY <1>9, <1>11, <1>12 DEF RFrames

(* An exception ends the bodies above frame k; all have begun. *)
LostAbove(fr, k) == {fr[j].obj : j \in k + 1 .. Len(fr)}
AllBegun(fr) == \A i \in 2 .. Len(fr) : ~fr[i].fresh
CutTo(fr, k, g) ==
  /\ Len(g) = k /\ \A i \in 1 .. k : i # k => g[i] = fr[i]
  /\ g[k].obj = fr[k].obj /\ g[k].got = {} /\ (k >= 2 => ~g[k].fresh) /\ AgainOK(g[k])

LEMMA LostBegun ==
  ASSUME NEW s, NEW fr, FramesOK(s, fr), RFrames(s, fr), AllBegun(fr), NEW k \in 1 .. Len(fr)
  PROVE  \A o \in LostAbove(fr, k) : s.obj[o].st = "run"
<1>1. Len(fr) \in Nat \ {0}
  BY FrameObjects
<1>2. \A j \in k + 1 .. Len(fr) : j \in 2 .. Len(fr)
  BY <1>1
<1>. QED  BY <1>2 DEF RFrames, RFrame, AllBegun, LostAbove

LEMMA FramesFailed ==
  ASSUME NEW s, StoreOK(s), NEW fr, FramesOK(s, fr), RFrames(s, fr), AllBegun(fr), NEW k \in 1 .. Len(fr),
         NEW t, IsCleaned(s, LostAbove(fr, k), t), NEW g, CutTo(fr, k, g)
  PROVE  RFrames(t, g)
<1>. DEFINE lost == LostAbove(fr, k)
            gone == {s.obj[o].name : o \in lost}
<1>1. PICK u : IsFailed(s, lost, u) /\ IsRemoved(u, gone, t)
  BY DEF IsCleaned
<1>2. Len(fr) \in Nat \ {0} /\ Len(g) = k
  BY FrameObjects DEF CutTo
<1>3. /\ \A i \in 2 .. k : i \in 2 .. Len(fr) /\ i \in 1 .. k
      /\ \A i \in 1 .. k : i \in 1 .. Len(fr)
      /\ \A j \in k + 1 .. Len(fr) : j \in 2 .. Len(fr) /\ j \in 1 .. Len(fr) /\ j \notin 1 .. k
  BY <1>2
<1>4. \A i \in 1 .. k : g[i].obj = fr[i].obj
  BY DEF CutTo
<1>5. /\ \A i \in 2 .. Len(fr) : fr[i].obj \in DOMAIN s.obj
      /\ \A i, j \in 1 .. Len(fr) : fr[i].obj = fr[j].obj => i = j
      /\ \A i \in 1 .. Len(fr) : fr[i].got \subseteq DOMAIN s.obj
  BY FrameObjects
<1>6. \A o \in lost : s.obj[o].st = "run"
  BY LostBegun
<1>7. \A i \in 1 .. k : fr[i].obj \notin lost
  BY <1>3, <1>5 DEF LostAbove
<1>8. \A i \in DOMAIN s.obj : t.obj[i].name = s.obj[i].name /\ (i \notin lost => t.obj[i].st = s.obj[i].st)
  <2>1. \A i \in DOMAIN s.obj : u.obj[i].name = s.obj[i].name /\ (i \notin lost => u.obj[i].st = s.obj[i].st)
    BY <1>1 DEF IsFailed, IsMarked
  <2>2. DOMAIN u.obj = DOMAIN s.obj
    <3>1. u \in StoreType /\ Len(u.obj) = Len(s.obj)
      BY <1>1 DEF IsFailed, IsMarked
    <3>. QED  BY <3>1, StoreFields, ObjDomain
  <2>3. \A i \in DOMAIN u.obj : SameBut(u.obj[i], t.obj[i])
    BY <1>1 DEF IsRemoved
  <2>. QED  BY <2>1, <2>2, <2>3 DEF SameBut
<1>9. u.sys = s.sys
  BY <1>1 DEF IsFailed, IsMarked
<1>10. \A i \in 2 .. k : NameAt(s, fr, i) \notin gone
  <2>1. SUFFICES ASSUME NEW i \in 2 .. k, NameAt(s, fr, i) \in gone PROVE FALSE
    OBVIOUS
  <2>2. PICK o \in lost : NameAt(s, fr, i) = s.obj[o].name
    BY <2>1
  <2>3. PICK j \in k + 1 .. Len(fr) : o = fr[j].obj
    BY <2>2 DEF LostAbove
  <2>4. RFrame(s, fr, i) /\ RFrame(s, fr, j)
    BY <1>3, <2>1 DEF RFrames
  <2>5. fr[i].obj = fr[j].obj
    BY <2>2, <2>3, <2>4 DEF RFrame, Answered, NameAt
  <2>. QED  BY <1>3, <1>5, <2>1, <2>5
<1>11. \A i \in 2 .. Len(g) : RFrame(t, g, i)
  <2>1. SUFFICES ASSUME NEW i \in 2 .. k PROVE RFrame(t, g, i)
    BY <1>2
  <2>2. ~g[i].fresh
    BY <1>3 DEF CutTo, AllBegun
  <2>3. g[i].obj = fr[i].obj /\ fr[i].obj \in DOMAIN s.obj /\ RFrame(s, fr, i) /\ ~fr[i].fresh
    BY <1>3, <1>4, <1>5 DEF RFrames, AllBegun
  <2>4. NameAt(t, g, i) = NameAt(s, fr, i)
    BY <1>8, <2>3 DEF NameAt
  <2>5. Answered(t.sys, fr[i].obj, NameAt(s, fr, i))
    BY <1>1, <1>9, <1>10, <2>3 DEF RFrame, Answered, IsRemoved
  <2>6. t.obj[fr[i].obj].st = "run"
    BY <1>3, <1>7, <1>8, <2>3 DEF RFrame
  <2>. QED  BY <2>2, <2>3, <2>4, <2>5, <2>6 DEF RFrame
<1>12. RGot(t, g)
  <2>1. SUFFICES ASSUME NEW i \in 1 .. k, NEW o \in g[i].got PROVE Complete(t, g, i, o)
    BY <1>2 DEF RGot
  <2>2. i # k /\ o \in fr[i].got
    BY DEF CutTo
  <2>3. Complete(s, fr, i, o) /\ o \in DOMAIN s.obj
    BY <1>3, <1>5, <2>2 DEF RFrames, RGot
  <2>4. CASE s.obj[o].st = "done"
    BY <1>6, <1>8, <2>3, <2>4 DEF Complete
  <2>5. CASE s.obj[o].st # "done"
    <3>1. PICK j \in 1 .. Len(fr) : j <= i + 1 /\ fr[j].obj = o
      BY <2>3, <2>5 DEF Complete
    <3>2. j \in 1 .. k
      BY <1>2, <2>2, <3>1
    <3>. QED  BY <1>2, <1>4, <3>1, <3>2 DEF Complete
  <2>. QED  BY <2>4, <2>5
<1>13. RAgain(g)
  <2>1. ASSUME NEW i \in 1 .. k PROVE AgainOK(g[i])
    BY <1>3 DEF CutTo, AgainOK, RFrames, RAgain
  <2>. QED  BY <1>2, <2>1 DEF RAgain, AgainOK
<1>. QED  BY <1>11, <1>12, <1>13 DEF RFrames

(* The body of the top frame ends. *)
EndedTo(fr, n, o, g) ==
  /\ Len(g) = Len(fr) - 1
  /\ \A i \in 1 .. Len(fr) - 1 : /\ g[i].obj = fr[i].obj /\ g[i].fresh = fr[i].fresh /\ g[i].again = fr[i].again
                                 /\ g[i].guard = fr[i].guard /\ g[i].got = fr[i].got
                                 /\ g[i].ran = IF i = Len(fr) - 1 THEN fr[i].ran \cup {n} ELSE fr[i].ran

LEMMA FramesEnded ==
  ASSUME NEW s, StoreOK(s), NEW fr, FramesOK(s, fr), RFrames(s, fr), Len(fr) # 1, NEW o, o = fr[Len(fr)].obj,
         NEW t, t.sys = s.sys, t.obj[o].st = "done",
         \A i \in DOMAIN s.obj : t.obj[i].name = s.obj[i].name /\ (i # o => t.obj[i] = s.obj[i]),
         NEW n, NEW g, EndedTo(fr, n, o, g)
  PROVE  RFrames(t, g)
<1>1. /\ Len(fr) \in Nat \ {0}
      /\ \A i \in 2 .. Len(fr) : fr[i].obj \in DOMAIN s.obj
      /\ \A i, j \in 1 .. Len(fr) : fr[i].obj = fr[j].obj => i = j
      /\ \A i \in 1 .. Len(fr) : fr[i].got \subseteq DOMAIN s.obj
  BY FrameObjects
<1>2. PICK l \in Nat : Len(fr) = l + 1 /\ l >= 1
  BY <1>1
<1>3. Len(g) = l /\ \A i \in 1 .. l : g[i].obj = fr[i].obj
  <2>1. Len(fr) - 1 = l
    BY <1>2
  <2>. QED  BY <2>1 DEF EndedTo
<1>4. /\ \A i \in 1 .. l : i \in 1 .. Len(fr) /\ i # Len(fr) /\ i \in 1 .. Len(fr) - 1
      /\ \A i \in 2 .. l : i \in 2 .. Len(fr) /\ i \in 1 .. l
      /\ Len(fr) \in 1 .. Len(fr) /\ Len(fr) \in 2 .. Len(fr)
  BY <1>2
<1>5. \A i \in 1 .. l : fr[i].obj # o
  BY <1>1, <1>4
<1>6. ASSUME NEW i \in 2 .. l PROVE RFrame(t, g, i)
  <2>1. RFrame(s, fr, i) /\ fr[i].obj \in DOMAIN s.obj /\ fr[i].obj # o /\ i # Len(fr)
    BY <1>1, <1>4, <1>5 DEF RFrames
  <2>2. g[i].obj = fr[i].obj /\ g[i].fresh = fr[i].fresh
    BY <1>4 DEF EndedTo
  <2>. QED  BY <2>1, <2>2 DEF RFrame, NameAt
<1>7. ASSUME NEW i \in 1 .. l, NEW x \in g[i].got PROVE Complete(t, g, i, x)
  <2>1. x \in fr[i].got
    BY <1>4 DEF EndedTo
  <2>2. Complete(s, fr, i, x) /\ x \in DOMAIN s.obj
    BY <1>1, <1>4, <2>1 DEF RFrames, RGot
  <2>3. CASE x = o
    BY <2>3 DEF Complete
  <2>4. CASE x # o /\ s.obj[x].st = "done"
    BY <2>2, <2>4 DEF Complete
  <2>5. CASE x # o /\ s.obj[x].st # "done"
    <3>1. PICK j \in 1 .. Len(fr) : j <= i + 1 /\ fr[j].obj = x
      BY <2>2, <2>5 DEF Complete
    <3>2. j \in 1 .. l
      BY <1>2, <2>5, <3>1
    <3>. QED  BY <1>3, <3>1, <3>2 DEF Complete
  <2>. QED  BY <2>3, <2>4, <2>5
<1>8. ASSUME NEW i \in 1 .. l PROVE AgainOK(g[i])
  BY <1>4 DEF EndedTo, RFrames, RAgain, AgainOK
<1>. QED  BY <1>3, <1>6, <1>7, <1>8 DEF RFrames, RGot, RAgain, AgainOK

(* Steps of the native calls. *)

NoRun(cs) == \A j \in 1 .. Len(cs) : cs[j].op # "run"

LEMMA RCallsTail ==
  ASSUME NEW s, NEW lim, NEW cs, StackOK(s, lim, cs), cs # <<>>, NEW fr, NEW t, RCalls(t, fr, cs)
  PROVE  RCalls(t, fr, Tail(cs))
<1>1. /\ Len(cs) \in Nat /\ Len(cs) >= 1 /\ Len(Tail(cs)) = Len(cs) - 1
      /\ \A i \in 1 .. Len(cs) - 1 : Tail(cs)[i] = cs[i + 1]
  BY StackFacts
<1>2. PICK d : d = Tail(cs)
  OBVIOUS
<1>3. PICK l \in Nat : Len(cs) = l + 1
  <2>1. \A x \in Nat : x >= 1 => x - 1 \in Nat /\ x = (x - 1) + 1
    OBVIOUS
  <2>. QED  BY <1>1, <2>1
<1>4. Len(d) = l /\ \A i \in 1 .. l : d[i] = cs[i + 1] /\ i + 1 \in 1 .. Len(cs)
  BY <1>1, <1>2, <1>3
<1>5. \A i \in 1 .. l : RCall(t, fr, d[i])
  BY <1>4 DEF RCalls
<1>6. \A i \in 1 .. l - 1 : RLink(t, fr, d[i], d[i + 1])
  <2>1. SUFFICES ASSUME NEW i \in 1 .. l - 1 PROVE RLink(t, fr, d[i], d[i + 1])
    OBVIOUS
  <2>2. i \in 1 .. l /\ i + 1 \in 1 .. l /\ i + 1 \in 1 .. Len(cs) - 1
    BY <1>3
  <2>3. RLink(t, fr, cs[i + 1], cs[i + 1 + 1])
    BY <2>2 DEF RCalls
  <2>. QED  BY <1>4, <2>2, <2>3
<1>7. RDeep(d)
  <2>1. SUFFICES ASSUME NEW i \in 1 .. l, NEW j \in 1 .. l, i < j, Waits(d[i]), d[j].op = "run"
                 PROVE  Level(d[i]) >= 2
    BY <1>4 DEF RDeep
  <2>2. i + 1 \in 1 .. Len(cs) /\ j + 1 \in 1 .. Len(cs) /\ i + 1 < j + 1 /\ d[i] = cs[i + 1] /\ d[j] = cs[j + 1]
    BY <1>4, <2>1
  <2>. QED  BY <2>1, <2>2 DEF RCalls, RDeep
<1>. QED  BY <1>2, <1>4, <1>5, <1>6, <1>7 DEF RCalls

(* With a frame above the program's own, what drains wait for stays. *)
Kept(s, fr, t, g) ==
  /\ Len(fr) <= Len(g) /\ \A i \in 1 .. Len(fr) : g[i] = fr[i]
  /\ \A i \in 2 .. Len(fr) : NameAt(t, g, i) = NameAt(s, fr, i)
DrainsKept(s, fr, t, g, cs) == (t.sys = s.sys /\ Len(g) = Len(fr)) \/ Len(fr) >= 2 \/ NoRun(cs)

LEMMA RCallsKept ==
  ASSUME NEW s, NEW fr, Len(fr) \in Nat \ {0}, NEW cs, StackOK(s, Len(fr), cs), RCalls(s, fr, cs),
         NEW t, NEW g, Len(g) \in Nat, Kept(s, fr, t, g), DrainsKept(s, fr, t, g, cs)
  PROVE  RCalls(t, g, cs)
<1>1. Len(cs) \in Nat /\ \A i \in 1 .. Len(cs) : cs[i] \in CallType
  BY StackFacts
<1>2. ASSUME NEW c \in CallType, Waits(c) => Level(c) \in 1 .. Len(fr), RCall(s, fr, c)
      PROVE  RCall(t, g, c)
  <2>1. CASE c.op = "instr"
    <3>1. Waits(c) /\ Level(c) = c.who
      BY <2>1 DEF Waits, Level
    <3>2. c.who \in 1 .. Len(fr)
      BY <1>2, <3>1
    <3>3. g[c.who] = fr[c.who]
      BY <3>2 DEF Kept
    <3>. QED  BY <1>2, <2>1, <3>3 DEF RCall, RInstr, BodyBegun
  <2>2. CASE c.op = "import" /\ c.pc # "start"
    <3>1. Waits(c) /\ Level(c) = c.depth
      BY <2>2 DEF Waits, Level
    <3>2. c.depth \in 1 .. Len(fr)
      BY <1>2, <3>1
    <3>3. g[c.depth] = fr[c.depth]
      BY <3>2 DEF Kept
    <3>4. \A k \in 2 .. c.depth : k \in 2 .. Len(fr)
      BY <3>2
    <3>5. \A k \in 2 .. c.depth : NameAt(t, g, k) = NameAt(s, fr, k)
      BY <3>4 DEF Kept
    <3>6. RImport(s, fr, c)
      BY <1>2, <2>2 DEF RCall
    <3>7. RImport(t, g, c)
      BY <3>3, <3>5, <3>6 DEF RImport, BodyBegun
    <3>. QED  BY <2>2, <3>7 DEF RCall
  <2>3. CASE c.op # "instr" /\ ~(c.op = "import" /\ c.pc # "start")
    BY <1>2, <2>3 DEF RCall
  <2>. QED  BY <2>1, <2>2, <2>3
<1>3. \A i \in 1 .. Len(cs) : RCall(t, g, cs[i])
  BY <1>1, <1>2 DEF RCalls, StackOK
<1>4. ASSUME NEW c, NEW d, RLink(s, fr, c, d), c.op = "run" => ~NoRun(cs)
      PROVE  RLink(t, g, c, d)
  <2>1. c.op = "run" => Drained(t, g, d)
    <3>1. CASE t.sys = s.sys /\ Len(g) = Len(fr)
      <4>1. Len(fr) # 1 => 2 \in 1 .. Len(fr)
        OBVIOUS
      <4>2. Len(fr) # 1 => g[2] = fr[2]
        BY <4>1 DEF Kept
      <4>. QED  BY <1>4, <3>1, <4>2 DEF RLink, Drained
    <3>2. CASE Len(fr) >= 2
      <4>1. g[2] = fr[2] /\ Len(g) # 1 /\ Len(fr) # 1
        BY <3>2 DEF Kept
      <4>. QED  BY <1>4, <4>1 DEF RLink, Drained
    <3>. QED  BY <1>4, <3>1, <3>2 DEF DrainsKept
  <2>. QED  BY <1>4, <2>1 DEF RLink
<1>5. \A i \in 1 .. Len(cs) - 1 : RLink(t, g, cs[i], cs[i + 1])
  <2>1. SUFFICES ASSUME NEW i \in 1 .. Len(cs) - 1 PROVE RLink(t, g, cs[i], cs[i + 1])
    OBVIOUS
  <2>2. i \in 1 .. Len(cs) /\ RLink(s, fr, cs[i], cs[i + 1])
    BY <1>1 DEF RCalls
  <2>3. cs[i].op = "run" => ~NoRun(cs)
    BY <2>2 DEF NoRun
  <2>. QED  BY <1>4, <2>2, <2>3
<1>. QED  BY <1>3, <1>5 DEF RCalls

(* An import or a load in progress inside a drain works for a body. *)
LEMMA DrainsBelow ==
  ASSUME NEW s, NEW lim, lim \in Nat, NEW cs, StackOK(s, lim, cs), NEW t, NEW fr, RCalls(t, fr, cs), cs # <<>>,
         cs[1].op # "run",
         Waits(cs[1]) \/ (Tail(cs) # <<>> /\ Waits(cs[2]) /\ cs[2].op # "run")
  PROVE  lim >= 2 \/ NoRun(cs)
<1>1. Len(cs) \in Nat /\ Len(cs) >= 1 /\ (Tail(cs) # <<>> => Len(cs) >= 2)
  <2>1. Len(cs) \in Nat /\ Len(cs) >= 1 /\ Len(Tail(cs)) = Len(cs) - 1 /\ Tail(cs) \in Seq(CallType)
    BY StackFacts
  <2>2. Tail(cs) # <<>> => Len(Tail(cs)) # 0
    BY <2>1
  <2>. QED  BY <2>1, <2>2
<1>2. SUFFICES ASSUME NEW j \in 1 .. Len(cs), cs[j].op = "run" PROVE lim >= 2
  BY DEF NoRun
<1>3. ASSUME NEW i \in 1 .. Len(cs), i < j, Waits(cs[i]) PROVE lim >= 2
  <2>1. Level(cs[i]) >= 2 /\ Level(cs[i]) \in 1 .. lim
    BY <1>2, <1>3 DEF RCalls, RDeep, StackOK
  <2>. QED  BY <2>1
<1>4. j # 1
  BY <1>2
<1>5. CASE Waits(cs[1])
  BY <1>1, <1>3, <1>4, <1>5
<1>6. CASE Tail(cs) # <<>> /\ Waits(cs[2]) /\ cs[2].op # "run"
  <2>1. j # 2 /\ 2 \in 1 .. Len(cs)
    BY <1>1, <1>2, <1>6
  <2>. QED  BY <1>1, <1>3, <1>4, <1>6, <2>1
<1>. QED  BY <1>5, <1>6

-----------------------------------------------------------------------------
(* Bytecode runs: all native calls are the program's. *)
Idle(cs) == cs # <<>> => cs[1].op = "run"

LEMMA AllLow ==
  ASSUME NEW s, NEW lim, NEW cs, StackOK(s, lim, cs), NEW t, NEW fr, RCalls(t, fr, cs), Idle(cs)
  PROVE  /\ \A i \in 1 .. Len(cs) : Waits(cs[i]) /\ Level(cs[i]) = 1
         /\ \A i \in 1 .. Len(cs) : cs[i].op = "run" => i = 1
<1>1. Len(cs) \in Nat /\ \A i \in 1 .. Len(cs) : cs[i] \in CallType
  BY StackFacts
<1>2. \A i \in 1 .. Len(cs) : i = 1 \/ (i \in 2 .. Len(cs) /\ 1 \in 1 .. Len(cs) /\ 1 < i)
  BY <1>1
<1>3. ASSUME NEW i \in 1 .. Len(cs)
      PROVE cs[1].op = "run" /\ 1 \in 1 .. Len(cs) /\ Waits(cs[1]) /\ Level(cs[1]) = 1
  <2>1. cs # <<>> /\ 1 \in 1 .. Len(cs)
    BY <1>1, StackFacts
  <2>2. cs[1].op = "run"
    BY <2>1 DEF Idle
  <2>3. cs[1].stop = 1
    BY <2>1, <2>2 DEF RCalls, RCall
  <2>. QED  BY <2>1, <2>2, <2>3 DEF Waits, Level
<1>4. \A i \in 1 .. Len(cs) : Waits(cs[i])
  BY <1>2, <1>3 DEF StackOK
<1>5. ASSUME NEW i \in 1 .. Len(cs) PROVE Level(cs[i]) = 1
  <2>1. CASE i = 1
    BY <1>3, <2>1
  <2>2. CASE i \in 2 .. Len(cs) /\ 1 \in 1 .. Len(cs) /\ 1 < i
    <3>1. Level(cs[1]) >= Level(cs[i])
      BY <1>3, <2>2 DEF StackOK
    <3>2. Level(cs[i]) \in 1 .. lim
      BY <1>4 DEF StackOK
    <3>. QED  BY <1>3, <3>1, <3>2
  <2>. QED  BY <1>2, <2>1, <2>2
<1>6. ASSUME NEW i \in 1 .. Len(cs), cs[i].op = "run" PROVE i = 1
  <2>1. SUFFICES ASSUME i # 1 PROVE FALSE
    OBVIOUS
  <2>2. 1 < i /\ 1 \in 1 .. Len(cs)
    BY <1>2, <2>1
  <2>3. Level(cs[1]) >= 2
    BY <1>3, <1>6, <2>2 DEF RCalls, RDeep
  <2>. QED  BY <1>3, <2>2, <2>3
<1>. QED  BY <1>4, <1>5, <1>6

(* What the program's own frame and the drain keep. *)
LowKept(s, fr, t, g, cs) ==
  cs # <<>> =>
    /\ g[1].again = fr[1].again /\ (fr[1].got = {} => g[1].got = {})
    /\ Drained(s, fr, cs[2]) => Drained(t, g, cs[2])

(* The program's own frame and what it waits for. *)
FirstKept(fr, g) == g[1].again = fr[1].again /\ (fr[1].got = {} => g[1].got = {})

LEMMA RCallLow ==
  ASSUME NEW x, NEW s, NEW fr, NEW lim, NEW cs, StackOK(x, lim, cs), RCalls(s, fr, cs), Idle(cs),
         NEW t, NEW g, FirstKept(fr, g), NEW i \in 1 .. Len(cs)
  PROVE  RCall(t, g, cs[i])
<1>1. Len(cs) \in Nat /\ \A j \in 1 .. Len(cs) : cs[j] \in CallType
  BY StackFacts
<1>2. Waits(cs[i]) /\ Level(cs[i]) = 1
  BY AllLow
<1>3. PICK c : c = cs[i]
  OBVIOUS
<1>4. RCall(s, fr, c) /\ Level(c) = 1
  BY <1>1, <1>2, <1>3 DEF RCalls
<1>5. g[1].again = fr[1].again /\ (fr[1].got = {} => g[1].got = {})
  BY DEF FirstKept
<1>6. c.op = "instr" => RInstr(g, c)
  <2>1. c.op = "instr" => c.who = 1
    BY <1>4 DEF Level
  <2>2. ~(1 >= 2)
    OBVIOUS
  <2>. QED  BY <1>4, <1>5, <2>1, <2>2 DEF RCall, RInstr, BodyBegun
<1>7. c.op = "import" /\ c.pc # "start" => RImport(t, g, c)
  <2>1. c.op = "import" => c.depth = 1
    BY <1>4 DEF Level
  <2>2. 2 .. 1 = {} /\ ~(1 >= 2)
    OBVIOUS
  <2>. QED  BY <1>4, <2>1, <2>2 DEF RCall, RImport, BodyBegun
<1>. QED  BY <1>3, <1>4, <1>6, <1>7 DEF RCall

LEMMA RCallsLow ==
  ASSUME NEW x, NEW s, NEW fr, NEW lim, NEW cs, StackOK(x, lim, cs), RCalls(s, fr, cs), Idle(cs),
         NEW t, NEW g, LowKept(s, fr, t, g, cs)
  PROVE  RCalls(t, g, cs)
<1>1. Len(cs) \in Nat /\ \A i \in 1 .. Len(cs) : cs[i] \in CallType
  BY StackFacts
<1>2. \A i \in 1 .. Len(cs) : cs[i].op = "run" => i = 1
  BY AllLow
<1>3. ASSUME NEW i \in 1 .. Len(cs) PROVE RCall(t, g, cs[i])
  <2>1. cs # <<>>
    BY <1>1, <1>3
  <2>2. FirstKept(fr, g)
    BY <2>1 DEF LowKept, FirstKept
  <2>. QED  BY <2>2, RCallLow
<1>4. ASSUME NEW i \in 1 .. Len(cs) - 1 PROVE RLink(t, g, cs[i], cs[i + 1])
  <2>1. i \in 1 .. Len(cs) /\ RLink(s, fr, cs[i], cs[i + 1]) /\ cs # <<>>
    BY <1>1 DEF RCalls
  <2>2. cs[i].op = "run" => i = 1
    BY <1>2, <2>1
  <2>3. cs[i].op = "run" => Drained(t, g, cs[i + 1])
    BY <2>1, <2>2 DEF RLink, LowKept
  <2>. QED  BY <2>1, <2>3 DEF RLink
<1>. QED  BY <1>3, <1>4 DEF RCalls

(* The calls above the innermost drain. *)
LEMMA RCallsLowTail ==
  ASSUME NEW x, NEW s, NEW fr, NEW lim, NEW cs, StackOK(x, lim, cs), RCalls(s, fr, cs), Idle(cs), cs # <<>>,
         NEW t, NEW g, FirstKept(fr, g)
  PROVE  RCalls(t, g, Tail(cs))
<1>1. PICK e : e = Tail(cs)
  OBVIOUS
<1>2. /\ Len(cs) \in Nat /\ Len(e) = Len(cs) - 1
      /\ \A i \in 1 .. Len(cs) - 1 : e[i] = cs[i + 1] /\ i + 1 \in 2 .. Len(cs)
  BY <1>1, StackFacts
<1>3. \A i \in 1 .. Len(e) : /\ e[i] = cs[i + 1] /\ i + 1 \in 1 .. Len(cs)
                             /\ i + 1 # 1
  BY <1>2
<1>4. \A i \in 1 .. Len(e) : RCall(t, g, e[i])
  BY <1>3, RCallLow
<1>5. \A i \in 1 .. Len(e) : e[i].op # "run"
  BY <1>3, AllLow
<1>6. ASSUME NEW i \in 1 .. Len(e) - 1 PROVE RLink(t, g, e[i], e[i + 1])
  <2>1. i \in 1 .. Len(e) /\ i + 1 \in 1 .. Len(e) /\ i + 1 \in 1 .. Len(cs) - 1
    BY <1>2
  <2>2. RLink(s, fr, e[i], e[i + 1])
    BY <1>3, <2>1 DEF RCalls
  <2>. QED  BY <1>5, <2>1, <2>2 DEF RLink
<1>. QED  BY <1>1, <1>4, <1>5, <1>6 DEF RCalls, RDeep

LEMMA RCallsCall ==
  ASSUME NEW s, NEW lim, NEW cs, StackOK(s, lim, cs), cs # <<>>, NEW t, NEW fr, RCalls(t, fr, cs),
         NEW h \in CallType, h.op # "run", RCall(t, fr, h), Tail(cs) # <<>> => RLink(t, fr, h, cs[2]),
         NEW c \in CallType, RCall(t, fr, c), RLink(t, fr, c, h),
         NoRun(cs) \/ (Level(h) >= 2 /\ ~Waits(c))
  PROVE  RCalls(t, fr, <<c, h>> \o Tail(cs))
<1>1. /\ Len(cs) \in Nat /\ Len(cs) >= 1 /\ Len(Tail(cs)) = Len(cs) - 1 /\ Tail(cs) \in Seq(CallType)
      /\ \A i \in 1 .. Len(cs) - 1 : Tail(cs)[i] = cs[i + 1]
  BY SMTT(60), StackFacts
<1>2. PICK l \in Nat : Len(cs) = l + 1
  <2>1. \A x \in Nat : x >= 1 => x - 1 \in Nat /\ x = (x - 1) + 1
    OBVIOUS
  <2>. QED  BY <1>1, <2>1
<1>3. PICK e : e = Tail(cs)
  OBVIOUS
<1>4. PICK d : d = <<c, h>> \o e
  OBVIOUS
<1>5. IsTwoOnTop(c, h, e, d) /\ Len(e) = l
  <2>1. (l + 1) - 1 = l
    OBVIOUS
  <2>2. e \in Seq(CallType) /\ Len(e) = l
    BY <1>1, <1>2, <1>3, <2>1
  <2>. QED  BY <1>4, <2>2, TwoOnTopIs
<1>6. /\ Len(d) = l + 2 /\ d[1] = c /\ d[2] = h
      /\ \A i \in 1 .. l : d[i + 2] = cs[i + 1] /\ i + 1 \in 1 .. Len(cs)
  BY <1>1, <1>2, <1>3, <1>5 DEF IsTwoOnTop
<1>7. \A j \in 1 .. Len(d) : j = 1 \/ j = 2 \/ (j >= 3 /\ j - 2 \in 1 .. l /\ j = (j - 2) + 2 /\ j - 1 \in 1 .. Len(cs)
                                                /\ j - 1 = (j - 2) + 1)
  BY <1>2, <1>6
<1>8. \A j \in 1 .. Len(d) : j >= 3 => d[j] = cs[j - 1] /\ j - 1 \in 1 .. Len(cs)
  BY <1>6, <1>7
<1>9. \A j \in 1 .. Len(d) : RCall(t, fr, d[j])
  BY <1>6, <1>7, <1>8 DEF RCalls
<1>10. ASSUME NEW j \in 1 .. Len(d) - 1 PROVE RLink(t, fr, d[j], d[j + 1])
  <2>1. j \in 1 .. Len(d) /\ j + 1 \in 1 .. Len(d) /\ (j = 1 \/ j = 2 \/ j >= 3)
    BY <1>6
  <2>2. CASE j = 1
    BY <1>6, <2>2
  <2>3. CASE j = 2
    <3>1. l >= 1
      BY <1>2, <1>6, <2>3
    <3>2. Tail(cs) # <<>>
      <4>1. e = <<>> => Len(e) = 0
        OBVIOUS
      <4>2. Len(e) # 0
        BY <1>5, <3>1
      <4>3. e # <<>>
        BY <4>1, <4>2
      <4>. QED  BY <1>3, <4>3
    <3>3. d[3] = cs[2]
      <4>1. 3 \in 1 .. Len(d)
        BY <1>2, <1>6, <3>1
      <4>. QED  BY <1>8, <4>1
    <3>. QED  BY <1>6, <2>3, <3>2, <3>3
  <2>4. CASE j >= 3
    <3>1. d[j] = cs[j - 1] /\ d[j + 1] = cs[j]
      <4>1. (j + 1) - 1 = j /\ j + 1 >= 3
        BY <2>4
      <4>. QED  BY <1>8, <2>1, <2>4, <4>1
    <3>2. j - 1 \in 1 .. Len(cs) - 1 /\ (j - 1) + 1 = j
      BY <1>2, <1>6, <2>4
    <3>3. RLink(t, fr, cs[j - 1], cs[(j - 1) + 1])
      BY <3>2 DEF RCalls
    <3>. QED  BY <3>1, <3>2, <3>3
  <2>. QED  BY <2>1, <2>2, <2>3, <2>4
<1>11. RDeep(d)
  <2>1. SUFFICES ASSUME NEW i \in 1 .. Len(d), NEW j \in 1 .. Len(d), i < j, Waits(d[i]), d[j].op = "run"
                 PROVE  Level(d[i]) >= 2
    BY DEF RDeep
  <2>2. j # 1 /\ j # 2
    BY <1>6, <2>1
  <2>3. j >= 3 /\ d[j] = cs[j - 1] /\ j - 1 \in 1 .. Len(cs)
    BY <1>7, <1>8, <2>2
  <2>4. ~NoRun(cs)
    BY <2>1, <2>3 DEF NoRun
  <2>5. i # 1
    BY <1>6, <2>1, <2>4
  <2>6. CASE i = 2
    BY <1>6, <2>4, <2>6
  <2>7. CASE i >= 3
    <3>1. d[i] = cs[i - 1] /\ i - 1 \in 1 .. Len(cs) /\ i - 1 < j - 1
      BY <1>8, <2>1, <2>7
    <3>. QED  BY <2>1, <2>3, <3>1 DEF RCalls, RDeep
  <2>. QED  BY <1>7, <2>5, <2>6, <2>7
<1>. QED  BY <1>3, <1>4, <1>9, <1>10, <1>11 DEF RCalls

LEMMA RCallsPush ==
  ASSUME NEW s, NEW lim, NEW cs, StackOK(s, lim, cs), Idle(cs), NEW t, NEW fr, RCalls(t, fr, cs),
         NEW k \in Nat \ {0}, NEW i \in Instr, RInstr(fr, InstrCall(k, i)), cs # <<>> => k >= 2
  PROVE  RCalls(t, fr, Pushed(k, i, cs))
<1>1. Len(cs) \in Nat /\ cs \in Seq(CallType)
  BY StackFacts
<1>2. PICK c : c = InstrCall(k, i)
  OBVIOUS
<1>3. c.op = "instr" /\ c.who = k /\ c.pc = "start" /\ c.i = i /\ c \in CallType
  BY <1>2 DEF InstrCall, InstrType, CallType
<1>4. PICK d : d = <<c>> \o cs
  OBVIOUS
<1>5. IsOnTop(c, cs, d)
  BY <1>1, <1>3, <1>4, OnTopIs
<1>6. PICK l \in Nat : Len(cs) = l
  BY <1>1
<1>7. Len(d) = l + 1 /\ d[1] = c /\ \A j \in 1 .. l : d[j + 1] = cs[j]
  BY <1>5, <1>6 DEF IsOnTop
<1>8. \A j \in 1 .. Len(d) : j = 1 \/ (j >= 2 /\ j - 1 \in 1 .. l /\ (j - 1) + 1 = j)
  BY <1>6, <1>7
<1>9. \A j \in 1 .. Len(d) : j >= 2 => d[j] = cs[j - 1] /\ j - 1 \in 1 .. Len(cs)
  BY <1>6, <1>7, <1>8
<1>10. RCall(t, fr, c)
  BY <1>2, <1>3 DEF RCall
<1>11. \A j \in 1 .. Len(d) : RCall(t, fr, d[j])
  BY <1>7, <1>8, <1>9, <1>10 DEF RCalls
<1>12. ASSUME NEW j \in 1 .. Len(d) - 1 PROVE RLink(t, fr, d[j], d[j + 1])
  <2>1. j \in 1 .. Len(d) /\ j + 1 \in 1 .. Len(d) /\ (j = 1 \/ j >= 2)
    BY <1>6, <1>7
  <2>2. CASE j = 1
    BY <1>3, <1>7, <2>2 DEF RLink
  <2>3. CASE j >= 2
    <3>1. d[j] = cs[j - 1] /\ d[j + 1] = cs[j]
      <4>1. (j + 1) - 1 = j /\ j + 1 >= 2
        BY <2>3
      <4>. QED  BY <1>9, <2>1, <2>3, <4>1
    <3>2. j - 1 \in 1 .. Len(cs) - 1 /\ (j - 1) + 1 = j
      BY <1>6, <1>7, <2>3
    <3>3. RLink(t, fr, cs[j - 1], cs[(j - 1) + 1])
      BY <3>2 DEF RCalls
    <3>. QED  BY <3>1, <3>2, <3>3
  <2>. QED  BY <2>1, <2>2, <2>3
<1>13. RDeep(d)
  <2>1. SUFFICES ASSUME NEW a \in 1 .. Len(d), NEW b \in 1 .. Len(d), a < b, Waits(d[a]), d[b].op = "run"
                 PROVE  Level(d[a]) >= 2
    BY DEF RDeep
  <2>2. b >= 2 /\ d[b] = cs[b - 1] /\ b - 1 \in 1 .. Len(cs)
    BY <1>8, <1>9, <2>1
  <2>3. CASE a = 1
    <3>1. cs # <<>>
      BY <1>6, <2>2
    <3>. QED  BY <1>3, <1>7, <2>3, <3>1 DEF Level
  <2>4. CASE a >= 2
    <3>1. d[a] = cs[a - 1] /\ a - 1 \in 1 .. Len(cs) /\ a - 1 < b - 1
      BY <1>9, <2>1, <2>4
    <3>. QED  BY <2>1, <2>2, <3>1 DEF RCalls, RDeep
  <2>. QED  BY <1>8, <2>3, <2>4
<1>. QED  BY <1>2, <1>4, <1>11, <1>12, <1>13 DEF RCalls, Pushed

(* What the caller gets to see. *)
OkRet(o) == [ok |-> TRUE, obj |-> o]

LEMMA CallerIs ==
  ASSUME NEW s, NEW lim, NEW cs, StackOK(s, lim, cs), cs # <<>>, cs[1].op # "instr",
         NEW t, NEW fr, RCalls(t, fr, cs)
  PROVE  /\ Tail(cs) # <<>> /\ Tail(cs)[1] = cs[2] /\ CalledBy(cs[1], cs[2]) /\ Waits(cs[2])
         /\ cs[2] \in CallType /\ CallOK(s, cs[2]) /\ RCall(t, fr, cs[2]) /\ RLink(t, fr, cs[1], cs[2])
         /\ RCall(t, fr, cs[1]) /\ 2 \in 1 .. Len(cs) /\ 1 \in 1 .. Len(cs)
         /\ Level(cs[2]) \in 1 .. lim
<1>1. Tail(cs) # <<>> /\ CalledBy(cs[1], Tail(cs)[1]) /\ Waits(Tail(cs)[1])
  BY StackPop
<1>2. /\ Len(cs) \in Nat /\ Len(cs) >= 1 /\ Len(Tail(cs)) = Len(cs) - 1 /\ Tail(cs) \in Seq(CallType)
      /\ \A i \in 1 .. Len(cs) - 1 : Tail(cs)[i] = cs[i + 1]
  BY StackFacts
<1>3. Len(Tail(cs)) # 0
  BY <1>1, <1>2
<1>4. 1 \in 1 .. Len(cs) - 1 /\ 2 \in 1 .. Len(cs) /\ 1 \in 1 .. Len(cs) /\ 1 + 1 = 2
  BY <1>2, <1>3
<1>5. Tail(cs)[1] = cs[2]
  BY <1>2, <1>4
<1>6. RLink(t, fr, cs[1], cs[1 + 1])
  BY <1>4 DEF RCalls
<1>7. RCall(t, fr, cs[1]) /\ RCall(t, fr, cs[2])
  BY <1>4 DEF RCalls
<1>8. cs[2] \in CallType
  BY <1>4, StackFacts
<1>9. CallOK(s, cs[2]) /\ (Waits(cs[2]) => Level(cs[2]) \in 1 .. lim)
  BY <1>4 DEF StackOK
<1>. QED  BY <1>1, <1>4, <1>5, <1>6, <1>7, <1>8, <1>9

LEMMA HeadAfterImport ==
  ASSUME NEW s, NEW lim, NEW cs, StackOK(s, lim, cs), cs # <<>>, cs[1].op = "import",
         NEW t, NEW fr, RCalls(t, fr, cs), NEW f, NEW g, NEW o, Answered(f, o, cs[1].n),
         \/ Len(g) = Level(cs[2])
         \/ Len(g) = Level(cs[2]) + 1 /\ ~cs[1].sync /\ cs[1].pc # "start",
         ParentIn(f, cs[1].n) \/ Free(cs[2]) \/ cs[1].sync
  PROVE  RHead(f, g, Tail(cs), OkRet(o))
<1>1. PICK c, d : c = cs[1] /\ d = cs[2]
  OBVIOUS
<1>2. PICK r : r = OkRet(o)
  OBVIOUS
<1>3. r.ok /\ r.obj = o
  BY <1>2 DEF OkRet
<1>4. /\ Tail(cs)[1] = d /\ CalledBy(c, d) /\ Waits(d) /\ CallOK(s, d) /\ RCall(t, fr, d) /\ RLink(t, fr, c, d)
  BY <1>1, CallerIs
<1>5. ImportedBy(c, d)
  BY <1>1, <1>4 DEF CalledBy
<1>6. CASE d.op = "import"
  <2>1. /\ d.pc \in {"meta", "again"} /\ c.n = Parent[d.n] /\ (d.pc = "meta" => c.sync)
        /\ (d.pc = "again" => c.pc = "start") /\ Level(d) = d.depth
    BY <1>1, <1>4, <1>5, <1>6 DEF ImportedBy, RLink, Level
  <2>2. Len(g) = d.depth /\ c.n \in DOMAIN f
    BY <1>1, <2>1 DEF Answered
  <2>3. HeadImport(f, g, d, r)
    BY <2>1, <2>2 DEF HeadImport
  <2>4. RHead(f, g, Tail(cs), r)
    BY <1>4, <1>6, <2>1, <2>3 DEF RHead
  <2>. QED  BY <1>2, <2>4
<1>7. CASE d.op # "import"
  <2>1. d.op = "instr"
    BY <1>5, <1>7 DEF ImportedBy
  <2>2. Level(d) = d.who /\ RInstr(fr, d)
    BY <1>4, <2>1 DEF Level, RCall
  <2>3. Len(g) = d.who \/ (Len(g) = d.who + 1 /\ ~c.sync)
    BY <1>1, <2>2
  <2>4. CASE d.pc = "imported"
    <3>1. c.n = d.i.n /\ (c.sync <=> d.i.k = "resolve")
      BY <1>5, <2>1, <2>4 DEF ImportedBy
    <3>2. d.i.k \in ByStatement => ~c.sync /\ ~Free(d)
      BY <3>1 DEF ByStatement, Free
    <3>3. HeadInstr(f, Len(g), d, r)
      BY <1>1, <1>3, <2>3, <2>4, <3>1, <3>2 DEF HeadInstr
    <3>. QED  BY <1>2, <1>4, <2>1, <3>3 DEF RHead
  <2>5. CASE d.pc = "sub"
    <3>1. c.n = d.i.a /\ d.i.k = "from"
      BY <1>4, <1>5, <2>1, <2>5 DEF ImportedBy, CallOK
    <3>2. HeadInstr(f, Len(g), d, r)
      BY <1>1, <1>3, <2>3, <2>5, <3>1 DEF HeadInstr
    <3>. QED  BY <1>2, <1>4, <2>1, <3>2 DEF RHead
  <2>6. CASE d.pc # "sub" /\ d.pc # "imported"
    <3>1. d.pc = "deferred" /\ c.n = Parent[d.i.n] /\ d.i.k \in ByStatement
      BY <1>5, <2>1, <2>2, <2>6 DEF ImportedBy, RInstr
    <3>2. HeadInstr(f, Len(g), d, r)
      BY <1>1, <1>3, <2>3, <3>1 DEF HeadInstr, ByStatement, Answered
    <3>. QED  BY <1>2, <1>4, <2>1, <3>2 DEF RHead
  <2>. QED  BY <2>4, <2>5, <2>6
<1>. QED  BY <1>6, <1>7

LEMMA LoadCaller ==
  ASSUME NEW s, NEW lim, NEW cs, StackOK(s, lim, cs), cs # <<>>, cs[1].op = "load",
         NEW t, NEW fr, RCalls(t, fr, cs)
  PROVE  /\ cs[2].op = "import" /\ cs[2].pc = "loaded" /\ cs[1].n = cs[2].n /\ Level(cs[2]) = cs[2].depth
         /\ RImport(t, fr, cs[2]) /\ Tail(cs) # <<>> /\ Tail(cs)[1] = cs[2] /\ Waits(cs[2])
<1>1. PICK c, d : c = cs[1] /\ d = cs[2]
  OBVIOUS
<1>2. Tail(cs) # <<>> /\ Tail(cs)[1] = d /\ CalledBy(c, d) /\ Waits(d) /\ RCall(t, fr, d)
  BY <1>1, CallerIs
<1>3. LoadedBy(c, d)
  BY <1>1, <1>2 DEF CalledBy
<1>4. d.op # "load"
  BY <1>2 DEF RCall, Waits
<1>5. d.op = "import" /\ d.pc = "loaded" /\ c.n = d.n
  BY <1>3, <1>4 DEF LoadedBy
<1>6. RImport(t, fr, d) /\ Level(d) = d.depth
  BY <1>2, <1>5 DEF RCall, Level
<1>. QED  BY <1>1, <1>2, <1>5, <1>6

LEMMA HeadAfterLoad ==
  ASSUME NEW s, NEW lim, NEW cs, StackOK(s, lim, cs), cs # <<>>, cs[1].op = "load",
         NEW t, NEW fr, RCalls(t, fr, cs), NEW f, NEW g, NEW o, Answered(f, o, cs[1].n),
         Len(g) = Level(cs[2]) \/ (Len(g) = Level(cs[2]) + 1 /\ g[Len(g)].obj = o),
         ParentIn(f, cs[1].n)
  PROVE  RHead(f, g, Tail(cs), OkRet(o))
<1>1. PICK c, d : c = cs[1] /\ d = cs[2]
  OBVIOUS
<1>2. PICK r : r = OkRet(o)
  OBVIOUS
<1>3. r.ok /\ r.obj = o
  BY <1>2 DEF OkRet
<1>4. Tail(cs)[1] = d /\ d.op = "import" /\ d.pc = "loaded" /\ c.n = d.n /\ Level(d) = d.depth
  BY <1>1, LoadCaller
<1>5. HeadImport(f, g, d, r)
  BY <1>1, <1>3, <1>4 DEF HeadImport
<1>. QED  BY <1>2, <1>4, <1>5 DEF RHead

LEMMA HeadAfterFail ==
  ASSUME NEW s, NEW lim, NEW cs, StackOK(s, lim, cs), cs # <<>>, cs[1].op \in {"import", "load"},
         NEW t, NEW fr, RCalls(t, fr, cs), NEW f, NEW g, Len(g) = Level(cs[2]),
         cs[1].op = "load" => ParentIn(f, cs[1].n)
  PROVE  RHead(f, g, Tail(cs), Err)
<1>1. PICK c, d : c = cs[1] /\ d = cs[2]
  OBVIOUS
<1>2. PICK r : r = Err
  OBVIOUS
<1>3. ~r.ok
  BY <1>2 DEF Err
<1>4. /\ Tail(cs)[1] = d /\ CalledBy(c, d) /\ Waits(d) /\ RCall(t, fr, d)
  BY <1>1, CallerIs
<1>5. CASE d.op = "import"
  <2>1. Level(d) = d.depth /\ d.pc # "start"
    BY <1>4, <1>5 DEF Level, Waits
  <2>2. d.pc = "loaded" => c.op = "load" /\ c.n = d.n
    BY <1>1, <1>4, <1>5 DEF CalledBy, ImportedBy, LoadedBy
  <2>3. HeadImport(f, g, d, r)
    BY <1>1, <1>3, <2>1, <2>2 DEF HeadImport
  <2>. QED  BY <1>2, <1>4, <1>5, <2>1, <2>3 DEF RHead
<1>6. CASE d.op = "instr"
  <2>1. Level(d) = d.who
    BY <1>6 DEF Level
  <2>2. HeadInstr(f, Len(g), d, r)
    BY <1>1, <1>3, <2>1 DEF HeadInstr
  <2>. QED  BY <1>2, <1>4, <1>6, <2>2 DEF RHead
<1>7. d.op = "import" \/ d.op = "instr"
  BY <1>1, <1>4, LoadCaller DEF CalledBy, ImportedBy
<1>. QED  BY <1>5, <1>6, <1>7

LEMMA HeadIdle ==
  ASSUME NEW cs, Idle(cs), NEW f, NEW fr, NEW r
  PROVE  RHead(f, fr, cs, r)
BY DEF Idle, RHead

RNow == RAll(Store, bodies, calls, ret)

LEMMA RFacts ==
  ASSUME CoreInv, RNow
  PROVE  /\ StoreOK(Store) /\ FramesOK(Store, bodies) /\ StackOK(Store, Len(bodies), calls)
         /\ Len(bodies) \in Nat \ {0}
         /\ RStore(Store) /\ RFrames(Store, bodies) /\ RCalls(Store, bodies, calls)
         /\ RHead(Store.sys, bodies, calls, ret)
BY CoreFacts DEF RNow, RAll

LEMMA RegularPruned ==
  ASSUME Regular, PrunedIf(prog, Store)
  PROVE  Pruned(Store) /\ \A n \in DOMAIN cache : n \in DOMAIN sysmods
BY StoreIs DEF Regular, PrunedIf, Pruned

(* All modules have a loader, so only a name without one is to be loaded. *)
LEMMA NeedsLoadIs ==
  ASSUME NEW s, StoreOK(s), RStore(s), NEW n
  PROVE  NeedsLoad(s, n) <=> n \notin DOMAIN s.cache
<1>1. ASSUME n \in DOMAIN s.cache PROVE s.obj[s.cache[n]].loader
  BY <1>1 DEF StoreOK, TablesOK, RStore, RObjects
<1>. QED  BY <1>1 DEF NeedsLoad, Has

LEMMA ParentKnown ==
  ASSUME NEW n \in Names, Dotted(n)
  PROVE  ~Alone(Parent[n]) /\ Parent[n] \in Names /\ ~Dotted(Parent[n]) /\ Parent[n] # n
BY ParentName DEF Alone

LEMMA CachedIn ==
  ASSUME CoreInv, RNow, NEW n \in DOMAIN cache, ~Alone(n)
  PROVE  n \in DOMAIN sysmods
BY RFacts, StoreIs DEF RStore, RCached

LEMMA CalmAll ==
  ASSUME CoreInv, RNow, NEW t, Calm(Store, t)
  PROVE  RStore(t) /\ RFrames(t, bodies) /\ RCalls(t, bodies, calls)
<1>1. RStore(t) /\ RFrames(t, bodies)
  BY RFacts, CalmStore, CalmFrames
<1>2. Kept(Store, bodies, t, bodies)
  <2>1. \A i \in 2 .. Len(bodies) : bodies[i].obj \in DOMAIN Store.obj
    BY RFacts, FrameObjects
  <2>2. Len(bodies) <= Len(bodies)
    BY RFacts
  <2>. QED  BY <2>1, <2>2 DEF Kept, Calm, Same, NameAt
<1>3. DrainsKept(Store, bodies, t, bodies, calls)
  BY DEF DrainsKept, Calm
<1>4. Len(bodies) \in Nat /\ Len(bodies) \in Nat \ {0}
  BY RFacts
<1>5. RCalls(t, bodies, calls)
  BY <1>2, <1>3, <1>4, RFacts, RCallsKept
<1>. QED  BY <1>1, <1>5

LEMMA RReturn ==
  ASSUME CoreInv, RNow, calls # <<>>, calls[1].op = "import", NEW o, ReturnModule(o), Calm(Store, Store'),
         UNCHANGED bodies, Answered(Store.sys, o, calls[1].n),
         \/ Len(bodies) = Level(calls[2])
         \/ Len(bodies) = Level(calls[2]) + 1 /\ ~calls[1].sync /\ calls[1].pc # "start",
         ParentIn(Store.sys, calls[1].n) \/ Free(calls[2]) \/ calls[1].sync
  PROVE  RNow'
<1>1. PICK t : t = Store'
  OBVIOUS
<1>2. RStore(t) /\ RFrames(t, bodies) /\ RCalls(t, bodies, calls) /\ t.sys = Store.sys
  BY <1>1, CalmAll DEF Calm
<1>3. RCalls(t, bodies, Tail(calls))
  BY <1>2, RFacts, RCallsTail
<1>4. RHead(t.sys, bodies, Tail(calls), OkRet(o))
  BY <1>2, RFacts, HeadAfterImport
<1>5. RAll(t, bodies, Tail(calls), OkRet(o))
  BY <1>2, <1>3, <1>4 DEF RAll
<1>. QED  BY <1>1, <1>5 DEF RNow, ReturnModule, OkRet

LEMMA RFail ==
  ASSUME CoreInv, RNow, calls # <<>>, calls[1].op \in {"import", "load"}, Fail, Calm(Store, Store'),
         UNCHANGED bodies, Len(bodies) = Level(calls[2]), calls[1].op = "load" => ParentIn(Store.sys, calls[1].n)
  PROVE  RNow'
<1>1. PICK t : t = Store'
  OBVIOUS
<1>2. RStore(t) /\ RFrames(t, bodies) /\ RCalls(t, bodies, calls) /\ t.sys = Store.sys
  BY <1>1, CalmAll DEF Calm
<1>3. RCalls(t, bodies, Tail(calls))
  BY <1>2, RFacts, RCallsTail
<1>4. RHead(t.sys, bodies, Tail(calls), Err)
  BY <1>2, RFacts, HeadAfterFail
<1>5. RAll(t, bodies, Tail(calls), Err)
  BY <1>2, <1>3, <1>4 DEF RAll
<1>. QED  BY <1>1, <1>5 DEF RNow, Fail

(* What a call that starts needs to know, by the call. *)
Entering(f, fr, c, h) ==
  /\ c.op # "instr"
  /\ c.op = "import" => c.pc = "start" /\ HeadStart(f, Len(fr), c, h)
  /\ c.op = "load" => c.pc = "start" /\ HeadLoad(f, Len(fr), c, h)
  /\ c.op = "run" => c.stop = 1 /\ fr[2].obj = h.o /\ Len(fr) # 1

LEMMA RCallsInto ==
  ASSUME CoreInv, RNow, calls # <<>>, calls[1].op # "run", NEW h \in CallType, NEW c \in CallType, CallFrom(h, c),
         Calm(Store, Store'), UNCHANGED bodies,
         h.op # "run", RCall(Store', bodies, h), Tail(calls) # <<>> => RLink(Store', bodies, h, calls[2]),
         Entering(Store.sys, bodies, c, h),
         NoRun(calls) \/ (Level(h) >= 2 /\ ~Waits(c))
  PROVE  RNow'
<1>1. PICK t : t = Store'
  OBVIOUS
<1>2. RStore(t) /\ RFrames(t, bodies) /\ RCalls(t, bodies, calls) /\ t.sys = Store.sys
  BY <1>1, CalmAll DEF Calm
<1>3. RCall(t, bodies, c)
  BY DEF Entering, RCall
<1>4. RLink(t, bodies, c, h)
  BY DEF Entering, RLink, Drained
<1>5. RCalls(t, bodies, <<c, h>> \o Tail(calls))
  BY <1>1, <1>2, <1>3, <1>4, RFacts, RCallsCall
<1>6. RHead(t.sys, bodies, <<c, h>> \o Tail(calls), NoRet)
  <2>1. PICK e : e = Tail(calls)
    OBVIOUS
  <2>2. e \in Seq(CallType)
    BY <2>1, RFacts, StackFacts
  <2>3. PICK d : d = <<c, h>> \o e
    OBVIOUS
  <2>4. IsTwoOnTop(c, h, e, d)
    BY <2>2, <2>3, TwoOnTopIs
  <2>5. d[1] = c /\ d[2] = h
    BY <2>4 DEF IsTwoOnTop
  <2>6. RHead(t.sys, bodies, d, NoRet)
    BY <1>2, <2>5 DEF RHead, Entering
  <2>. QED  BY <2>1, <2>3, <2>6
<1>7. RAll(t, bodies, <<c, h>> \o Tail(calls), NoRet)
  BY <1>2, <1>5, <1>6 DEF RAll
<1>. QED  BY <1>1, <1>7 DEF RNow, CallFrom

(* A call that waits for a body is the only one, or the drain is below. *)
LEMMA LevelDeep ==
  ASSUME CoreInv, RNow, calls # <<>>, calls[1].op # "run", Waits(calls[1])
  PROVE  NoRun(calls) \/ Level(calls[1]) >= 2
<1>1. SUFFICES ASSUME NEW j \in 1 .. Len(calls), calls[j].op = "run" PROVE Level(calls[1]) >= 2
  BY DEF NoRun
<1>2. Len(calls) \in Nat /\ Len(calls) >= 1 /\ 1 \in 1 .. Len(calls)
  BY RFacts, StackFacts
<1>3. 1 < j
  BY <1>1, <1>2
<1>. QED  BY <1>1, <1>2, <1>3, RFacts DEF RCalls, RDeep

(* The frame that waits for a call has begun. *)
LEMMA CallerBegun ==
  ASSUME CoreInv, RNow, calls # <<>>, calls[1].op \in {"import", "load"}
  PROVE  BodyBegun(bodies, Level(calls[2]))
<1>1. PICK d : d = calls[2]
  OBVIOUS
<1>2. CalledBy(calls[1], d) /\ Waits(d) /\ RCall(Store, bodies, d)
  BY <1>1, RFacts, CallerIs
<1>3. d.op = "instr" \/ (d.op = "import" /\ d.pc # "start")
  <2>1. CASE calls[1].op = "load"
    BY <1>1, <2>1, RFacts, LoadCaller
  <2>2. CASE calls[1].op = "import"
    BY <1>2, <2>2 DEF CalledBy, ImportedBy
  <2>. QED  BY <2>1, <2>2
<1>. QED  BY <1>1, <1>2, <1>3 DEF RCall, RInstr, RImport, Level

(* import_module_object_with_policy *)

(* The import takes note of the frames and modules that there are. *)
LEMMA NotedImport ==
  ASSUME CoreInv, RNow, calls # <<>>, calls[1].op = "import", calls[1].pc = "start",
         ~Has(sysmods, calls[1].n), NEW t, Calm(Store, t),
         NEW h, h.op = "import", h.n = calls[1].n, h.sync = calls[1].sync, h.pc \in {"meta", "loaded"},
         h.depth = Len(bodies), h.existing = DOMAIN cache
  PROVE  RImport(t, bodies, h) /\ RLink(t, bodies, h, calls[2]) /\ (NoRun(calls) \/ Len(bodies) >= 2)
<1>1. /\ Tail(calls) # <<>> /\ Waits(calls[2]) /\ CalledBy(calls[1], calls[2]) /\ Level(calls[2]) \in 1 .. Len(bodies)
  BY RFacts, CallerIs
<1>2. HeadStart(Store.sys, Len(bodies), calls[1], calls[2])
  BY RFacts DEF RHead
<1>3. Store.sys = sysmods /\ Store.cache = cache
  BY StoreIs
<1>4. h.n \notin DOMAIN sysmods /\ Len(bodies) = Level(calls[2])
  BY <1>2 DEF Has, HeadStart
<1>5. h.sync => h.depth = 1
  BY <1>2, <1>3, <1>4 DEF HeadStart
<1>6. Dotted(h.n) => h.n \notin h.existing
  BY <1>4, CachedIn DEF Alone
<1>7. \A k \in 2 .. h.depth : NameAt(t, bodies, k) \in h.existing
  <2>1. SUFFICES ASSUME NEW k \in 2 .. Len(bodies) PROVE NameAt(t, bodies, k) \in DOMAIN cache
    OBVIOUS
  <2>2. RFrame(Store, bodies, k) /\ bodies[k].obj \in DOMAIN Store.obj
    BY RFacts, FrameObjects DEF RFrames
  <2>3. NameAt(t, bodies, k) = NameAt(Store, bodies, k)
    BY <2>2 DEF NameAt, Calm, Same
  <2>. QED  BY <1>3, <2>2, <2>3, RFacts, SysObjects DEF RFrame, Answered
<1>8. BodyBegun(bodies, h.depth)
  BY <1>4, CallerBegun
<1>9. RImport(t, bodies, h)
  BY <1>5, <1>6, <1>7, <1>8 DEF RImport
<1>10. RLink(t, bodies, h, calls[2])
  BY <1>2, <1>3, <1>4 DEF RLink, HeadStart
<1>11. calls[2].op # "run"
  BY <1>1 DEF CalledBy, ImportedBy
<1>12. NoRun(calls) \/ Len(bodies) >= 2
  BY <1>1, <1>11, RFacts, DrainsBelow
<1>. QED  BY <1>9, <1>10, <1>12

LEMMA ImportStartRegular ==
  ASSUME CoreInv, RNow, ImportStart
  PROVE  RNow'
<1>1. /\ calls # <<>> /\ Head(calls) = calls[1] /\ calls[1] \in ImportType /\ calls[1] \in CallType
      /\ calls[1].op = "import" /\ calls[1].pc = "start"
  BY AtImport DEF ImportStart
<1>2. PICK c : c = calls[1]
  OBVIOUS
<1>3. PICK f : f = PrunedCache
  OBVIOUS
<1>4. f \in Table /\ DOMAIN f = DOMAIN sysmods /\ \A n \in DOMAIN f : f[n] = cache[n] /\ f[n] = sysmods[n]
  BY <1>3, PrunedCacheFacts
<1>5. cache' = f /\ UNCHANGED <<sysmods, obj, bodies, prog>>
  <2>1. Has(sysmods, c.n) => Put(f, c.n, sysmods[c.n]) = f
    BY <1>4, PutSame DEF Has
  <2>. QED  BY <1>1, <1>2, <1>3, <2>1 DEF ImportStart
<1>6. Calm(Store, Store')
  <2>1. DOMAIN sysmods \subseteq DOMAIN cache
    BY RFacts, SysObjects, StoreIs
  <2>2. Store'.sys = Store.sys /\ Store'.obj = Store.obj /\ DOMAIN Store'.cache \subseteq DOMAIN Store.cache
    BY <1>4, <1>5, <2>1, StoreIs
  <2>. QED  BY <2>2 DEF Calm, Same, Answered
<1>7. HeadStart(Store.sys, Len(bodies), c, calls[2]) /\ Store.sys = sysmods
  BY <1>1, <1>2, RFacts, StoreIs DEF RHead
<1>8. CASE Has(sysmods, c.n)
  <2>1. ReturnModule(sysmods[c.n])
    BY <1>1, <1>2, <1>8 DEF ImportStart
  <2>2. Answered(Store.sys, sysmods[c.n], calls[1].n)
    BY <1>2, <1>7, <1>8 DEF Answered, Has
  <2>3. /\ Len(bodies) = Level(calls[2])
        /\ ParentIn(Store.sys, calls[1].n) \/ Free(calls[2])
    BY <1>2, <1>7 DEF HeadStart
  <2>. QED  BY <1>1, <1>5, <1>6, <2>1, <2>2, <2>3, RReturn
<1>9. ASSUME ~Has(sysmods, c.n), NEW pc \in {"meta", "loaded"}, NEW d \in CallType,
             CallFrom([c EXCEPT !.depth = Len(bodies), !.existing = DOMAIN cache, !.pc = pc], d),
             NEW h, h = [c EXCEPT !.depth = Len(bodies), !.existing = DOMAIN cache, !.pc = pc],
             h \in ImportType /\ h.op = "import" /\ h.n = c.n /\ h.sync = c.sync /\ h.pc = pc
               /\ h.depth = Len(bodies) /\ h.existing = DOMAIN cache => Entering(Store.sys, bodies, d, h) /\ ~Waits(d)
      PROVE  RNow'
  <2>1. DOMAIN cache \subseteq Names
    BY RFacts, StoreIs, ObjDomain, TableFields
  <2>2. /\ h \in ImportType /\ h.op = "import" /\ h.n = c.n /\ h.sync = c.sync /\ h.pc = pc
        /\ h.depth = Len(bodies) /\ h.existing = DOMAIN cache
    BY <1>1, <1>2, <1>9, <2>1, RFacts DEF ImportType
  <2>3. h \in CallType /\ Level(h) = Len(bodies) /\ h.op # "run"
    BY <2>2 DEF CallType, Level
  <2>4. RImport(Store', bodies, h) /\ RLink(Store', bodies, h, calls[2]) /\ (NoRun(calls) \/ Len(bodies) >= 2)
    BY <1>1, <1>2, <1>6, <1>9, <2>2, NotedImport
  <2>5. RCall(Store', bodies, h)
    BY <2>2, <2>4 DEF RCall
  <2>6. CallFrom(h, d)
    BY <1>9
  <2>. QED  BY <1>1, <1>5, <1>6, <1>9, <2>2, <2>3, <2>4, <2>5, <2>6, RCallsInto
<1>10. c.n \in Names /\ c.sync \in BOOLEAN
  BY <1>1, <1>2 DEF ImportType
<1>11. CASE ~Has(sysmods, c.n) /\ Dotted(c.n)
  <2>1. PICK d : d = ImportCall(Parent[c.n], TRUE)
    OBVIOUS
  <2>2. CallFrom([c EXCEPT !.depth = Len(bodies), !.existing = DOMAIN cache, !.pc = "meta"], d)
    BY <1>1, <1>2, <1>11, <2>1 DEF ImportStart
  <2>3. /\ d \in CallType /\ d.op = "import" /\ d.n = Parent[c.n] /\ d.sync = TRUE /\ ~Waits(d) /\ d.pc = "start"
    BY <1>10, <1>11, <2>1, ParentName, ImportCallFacts
  <2>4. ASSUME NEW h, h.op = "import", h.pc = "meta", h.depth = Len(bodies)
        PROVE  Entering(Store.sys, bodies, d, h)
    <3>1. Len(bodies) = Level(h)
      BY <2>4 DEF Level
    <3>2. Len(bodies) = 1 \/ d.n \in DOMAIN Store.sys
      BY <1>7, <1>11, <2>3 DEF HeadStart, ParentIn
    <3>3. ~Dotted(d.n)
      BY <1>10, <1>11, <2>3, ParentName
    <3>. QED  BY <2>3, <2>4, <3>1, <3>2, <3>3 DEF Entering, HeadStart, ParentIn
  <2>. QED  BY <1>9, <1>11, <2>2, <2>3, <2>4
<1>12. CASE ~Has(sysmods, c.n) /\ ~Dotted(c.n)
  <2>1. PICK d : d = LoadCall(c.n)
    OBVIOUS
  <2>2. CallFrom([c EXCEPT !.depth = Len(bodies), !.existing = DOMAIN cache, !.pc = "loaded"], d)
    BY <1>1, <1>2, <1>12, <2>1 DEF ImportStart
  <2>3. d \in CallType /\ d.op = "load" /\ d.n = c.n /\ ~Waits(d) /\ d.pc = "start"
    BY <1>10, <2>1, LoadCallFacts
  <2>4. ASSUME NEW h, h.op = "import", h.pc = "loaded", h.depth = Len(bodies)
        PROVE  Entering(Store.sys, bodies, d, h)
    BY <1>12, <2>3, <2>4 DEF Entering, HeadLoad, Level, ParentIn
  <2>. QED  BY <1>9, <1>12, <2>2, <2>3, <2>4
<1>. QED  BY <1>8, <1>11, <1>12

LEMMA ImportMetaRegular ==
  ASSUME CoreInv, RNow, ImportMeta
  PROVE  RNow'
<1>1. /\ calls # <<>> /\ Head(calls) = calls[1] /\ calls[1] \in ImportType /\ calls[1] \in CallType
      /\ calls[1].op = "import" /\ calls[1].pc = "meta" /\ Waits(calls[1]) /\ Level(calls[1]) = calls[1].depth
  BY AtImport DEF ImportMeta, Waits
<1>2. PICK c : c = calls[1]
  OBVIOUS
<1>3. UNCHANGED bodies /\ Store' = Store /\ Calm(Store, Store')
  BY CalmSelf, StoreKept DEF ImportMeta
<1>4. /\ RImport(Store, bodies, c) /\ RLink(Store, bodies, c, calls[2]) /\ HeadImport(Store.sys, bodies, c, ret)
      /\ RCall(Store, bodies, c)
  BY <1>1, <1>2, RFacts, CallerIs DEF RCall, RHead
<1>5. Len(bodies) = c.depth /\ Level(calls[2]) = c.depth
  BY <1>1, <1>2, <1>4 DEF HeadImport, RLink
<1>6. CASE ret.ok
  <2>1. PICK h, d : h = [c EXCEPT !.pc = "loaded"] /\ d = LoadCall(c.n)
    OBVIOUS
  <2>2. CallFrom(h, d)
    BY <1>1, <1>2, <1>6, <2>1 DEF ImportMeta, CallAt
  <2>3. /\ h \in ImportType /\ h.op = "import" /\ h.n = c.n /\ h.sync = c.sync /\ h.pc = "loaded"
        /\ h.depth = c.depth /\ h.existing = c.existing
    BY <1>1, <1>2, <2>1 DEF ImportType
  <2>4. h \in CallType /\ Level(h) = c.depth /\ h.op # "run" /\ c.n \in Names
    BY <1>1, <1>2, <2>3 DEF CallType, Level, ImportType
  <2>5. RCall(Store', bodies, h) /\ RLink(Store', bodies, h, calls[2])
    BY <1>1, <1>2, <1>3, <1>4, <1>5, <2>3 DEF RCall, RImport, RLink
  <2>6. d \in CallType /\ d.op = "load" /\ d.n = c.n /\ ~Waits(d) /\ d.pc = "start"
    BY <2>1, <2>4, LoadCallFacts
  <2>7. Entering(Store.sys, bodies, d, h)
    BY <1>1, <1>2, <1>4, <1>5, <1>6, <2>4, <2>6 DEF Entering, HeadLoad, ParentIn, HeadImport
  <2>8. NoRun(calls) \/ Level(h) >= 2
    BY <1>1, <1>2, <2>4, LevelDeep
  <2>. QED  BY <1>1, <1>3, <2>2, <2>4, <2>5, <2>6, <2>7, <2>8, RCallsInto
<1>7. CASE ~ret.ok
  <2>1. Fail
    BY <1>7 DEF ImportMeta
  <2>2. Len(bodies) = Level(calls[2])
    BY <1>5
  <2>. QED  BY <1>1, <1>3, <2>1, <2>2, RFail
<1>. QED  BY <1>6, <1>7

LEMMA RFailImport ==
  ASSUME CoreInv, RNow, calls # <<>>, calls[1].op = "import", calls[1].pc # "start", FailImport,
         UNCHANGED bodies, Len(bodies) = calls[1].depth
  PROVE  RNow'
<1>1. PICK c : c = calls[1]
  OBVIOUS
<1>2. Head(calls) = c /\ Waits(c)
  BY <1>1, RFacts, StackFacts DEF Waits
<1>3. PICK s \in CleanupFailedImport(Store, c.n, c.existing) : SetStore(s)
  BY <1>2 DEF FailImport
<1>4. PICK S : IsRemoved(Store, S, s) /\ S \cap c.existing = {}
  BY RFacts, FailedImportIs
<1>5. StoreOK(s) /\ Store' = s
  BY <1>3, <1>4, StoreSet DEF IsRemoved, StoreOK
<1>6. /\ RCall(Store, bodies, c) /\ RLink(Store, bodies, c, calls[2])
  BY <1>1, RFacts, CallerIs
<1>7. RImport(Store, bodies, c) /\ Level(calls[2]) = Len(bodies)
  BY <1>1, <1>6 DEF RCall, RLink
<1>8. RStore(s)
  BY <1>4, RFacts, RStoreAll, RemovedStore
<1>9. \A i \in 2 .. Len(bodies) : NameAt(Store, bodies, i) \notin S
  BY <1>1, <1>4, <1>7 DEF RImport
<1>10. Undisturbed(Store, s, bodies)
  BY <1>4, <1>9, RFacts, RemovedUndisturbed
<1>11. RFrames(s, bodies)
  BY <1>10, RFacts, FramesUndisturbed
<1>12. Kept(Store, bodies, s, bodies)
  <2>1. \A i \in 2 .. Len(bodies) : bodies[i].obj \in DOMAIN Store.obj
    BY RFacts, FrameObjects
  <2>2. Len(bodies) <= Len(bodies)
    BY RFacts
  <2>. QED  BY <1>10, <2>1, <2>2 DEF Kept, Undisturbed, Same, NameAt
<1>13. DrainsKept(Store, bodies, s, bodies, calls)
  <2>1. Len(bodies) \in Nat
    BY RFacts
  <2>. QED  BY <1>1, <1>2, <2>1, RFacts, DrainsBelow DEF DrainsKept
<1>14. RCalls(s, bodies, calls)
  <2>1. Len(bodies) \in Nat
    BY RFacts
  <2>. QED  BY <1>12, <1>13, <2>1, RFacts, RCallsKept
<1>15. RCalls(s, bodies, Tail(calls))
  BY <1>14, RFacts, RCallsTail
<1>16. RHead(s.sys, bodies, Tail(calls), Err)
  BY <1>7, <1>14, RFacts, HeadAfterFail
<1>17. RAll(s, bodies, Tail(calls), Err)
  BY <1>8, <1>11, <1>15, <1>16 DEF RAll
<1>. QED  BY <1>5, <1>17 DEF RNow, FailImport, Fail

(* What an import in progress knows. *)
LEMMA ImportKnows ==
  ASSUME CoreInv, RNow, NEW pc, At("import", pc), pc # "start"
  PROVE  /\ calls # <<>> /\ Head(calls) = calls[1] /\ calls[1] \in ImportType /\ calls[1] \in CallType
         /\ calls[1].op = "import" /\ calls[1].pc = pc /\ Waits(calls[1]) /\ Level(calls[1]) = calls[1].depth
         /\ CallOK(Store, calls[1]) /\ calls[1].depth \in 1 .. Len(bodies)
         /\ RImport(Store, bodies, calls[1]) /\ RLink(Store, bodies, calls[1], calls[2])
         /\ RCall(Store, bodies, calls[1])
         /\ HeadImport(Store.sys, bodies, calls[1], ret) /\ Level(calls[2]) = calls[1].depth
<1>1. /\ calls # <<>> /\ Head(calls) = calls[1] /\ calls[1] \in ImportType /\ calls[1] \in CallType
      /\ calls[1].op = "import" /\ calls[1].pc = pc /\ Waits(calls[1]) /\ Level(calls[1]) = calls[1].depth
      /\ CallOK(Store, calls[1]) /\ Level(calls[1]) \in 1 .. Len(bodies)
  BY AtImport DEF Waits
<1>2. RCall(Store, bodies, calls[1]) /\ RLink(Store, bodies, calls[1], calls[2])
  BY <1>1, RFacts, CallerIs
<1>3. RImport(Store, bodies, calls[1]) /\ HeadImport(Store.sys, bodies, calls[1], ret)
  BY <1>1, <1>2, RFacts DEF RCall, RHead
<1>4. Level(calls[2]) = calls[1].depth
  BY <1>1, <1>2 DEF RLink
<1>. QED  BY <1>1, <1>2, <1>3, <1>4

LEMMA RReturnCanonical ==
  ASSUME CoreInv, RNow, NEW pc, At("import", pc), pc # "start", NEW o, Answered(Store.sys, o, calls[1].n),
         ReturnCanonical(Store, o), UNCHANGED bodies, Len(bodies) = calls[1].depth,
         ParentIn(Store.sys, calls[1].n) \/ calls[1].sync
  PROVE  RNow'
<1>1. PICK c : c = calls[1]
  OBVIOUS
<1>2. Head(calls) = c /\ calls # <<>> /\ c.op = "import" /\ Level(calls[2]) = c.depth
  BY <1>1, ImportKnows
<1>3. CanonicalStore(Store, c.n) = Store /\ CanonicalModule(Store, c.n, o) = o
  BY <1>1, RFacts, CanonicalSame DEF CanonicalModule, Has, Answered
<1>4. SetStore(Store) /\ ReturnModule(o)
  BY <1>2, <1>3 DEF ReturnCanonical
<1>5. Calm(Store, Store')
  BY <1>4, CalmSelf, StoreSet, RFacts DEF StoreOK
<1>. QED  BY <1>1, <1>2, <1>4, <1>5, RReturn

LEMMA ImportLoadedRegular ==
  ASSUME CoreInv, RNow, ImportLoaded
  PROVE  RNow'
<1>1. At("import", "loaded") /\ UNCHANGED bodies
  BY DEF ImportLoaded
<1>2. PICK c : c = calls[1]
  OBVIOUS
<1>3. /\ calls # <<>> /\ Head(calls) = c /\ c \in ImportType /\ c \in CallType
      /\ c.op = "import" /\ c.pc = "loaded" /\ Waits(c) /\ Level(c) = c.depth
      /\ CallOK(Store, c) /\ c.depth \in 1 .. Len(bodies)
      /\ RImport(Store, bodies, c) /\ RLink(Store, bodies, c, calls[2]) /\ RCall(Store, bodies, c)
      /\ HeadImport(Store.sys, bodies, c, ret) /\ Level(calls[2]) = c.depth
  BY <1>1, <1>2, ImportKnows
<1>4. ParentIn(Store.sys, c.n)
  BY <1>3 DEF HeadImport
<1>5. ~(calls[2].op = "import" /\ calls[2].pc = "again")
  BY <1>3 DEF RLink
<1>6. CASE ret.ok /\ ReturnImported(Store, ret.obj, "drained")
  <2>1. /\ Answered(Store.sys, ret.obj, c.n)
        /\ Len(bodies) = c.depth \/ (Len(bodies) = c.depth + 1 /\ bodies[Len(bodies)].obj = ret.obj)
    BY <1>3, <1>6 DEF HeadImport
  <2>2. c.sync => ~Draining
    <3>1. Draining => ~NoRun(calls)
      BY RFacts, StackFacts DEF Draining, NoRun
    <3>2. NoRun(calls) \/ c.depth >= 2
      BY <1>2, <1>3, LevelDeep
    <3>. QED  BY <1>3, <3>1, <3>2 DEF RImport
  <2>3. CASE /\ Len(bodies) > c.depth /\ c.sync /\ ~Draining
             /\ CallFrom([c EXCEPT !.pc = "drained", !.o = ret.obj], RunCall(c.depth)) /\ SetStore(Store)
    <3>1. PICK h, d : h = [c EXCEPT !.pc = "drained", !.o = ret.obj] /\ d = RunCall(c.depth)
      OBVIOUS
    <3>2. CallFrom(h, d)
      BY <2>3, <3>1
    <3>3. ret.obj \in Nat
      BY CoreFacts
    <3>4. /\ h \in ImportType /\ h.op = "import" /\ h.n = c.n /\ h.sync = c.sync /\ h.pc = "drained"
          /\ h.depth = c.depth /\ h.existing = c.existing /\ h.o = ret.obj
      BY <1>3, <3>1, <3>3 DEF ImportType
    <3>5. c.depth \in Nat \ {0} /\ c.depth = 1
      BY <1>3, <2>3 DEF RImport
    <3>6. d \in CallType /\ d.op = "run" /\ d.stop = c.depth
      BY <3>1, <3>5, RunCallFacts
    <3>7. Calm(Store, Store')
      BY <2>3, CalmSelf, StoreSet, RFacts DEF StoreOK
    <3>8. Store' = Store
      BY <2>3, StoreSet, RFacts DEF StoreOK
    <3>9. RCall(Store', bodies, h) /\ RLink(Store', bodies, h, calls[2])
      BY <1>3, <1>5, <2>3, <3>4, <3>8 DEF RCall, RImport, RLink
    <3>10. Entering(Store.sys, bodies, d, h)
      <4>1. Len(bodies) = 2
        <5>1. \A l, e \in Nat : l > e /\ e = 1 /\ (l = e \/ l = e + 1) => l = 2
          OBVIOUS
        <5>2. Len(bodies) \in Nat /\ c.depth \in Nat
          BY <3>5, RFacts
        <5>3. Len(bodies) = c.depth \/ Len(bodies) = c.depth + 1
          BY <2>1
        <5>. QED  BY <2>3, <3>5, <5>1, <5>2, <5>3
      <4>. QED  BY <2>1, <2>3, <3>4, <3>5, <3>6, <4>1 DEF Entering
    <3>11. NoRun(calls)
      BY <2>3, RFacts, StackFacts DEF Draining, NoRun
    <3>12. h \in CallType /\ h.op # "run" /\ calls[1].op # "run"
      BY <1>2, <1>3, <3>4 DEF CallType
    <3>. QED  BY <1>1, <1>3, <3>2, <3>6, <3>7, <3>9, <3>10, <3>11, <3>12, RCallsInto
  <2>4. CASE Len(bodies) > c.depth /\ ~c.sync /\ ReturnModule(ret.obj) /\ SetStore(Store)
    <3>1. Calm(Store, Store')
      BY <2>4, CalmSelf, StoreSet, RFacts DEF StoreOK
    <3>2. Len(bodies) = Level(calls[2]) + 1
      BY <1>3, <2>1, <2>4
    <3>3. ~calls[1].sync /\ calls[1].pc # "start" /\ calls[1].op = "import"
      BY <1>2, <1>3, <2>4
    <3>. QED  BY <1>1, <1>2, <1>3, <1>4, <2>1, <2>4, <3>1, <3>2, <3>3, RReturn
  <2>5. CASE (Len(bodies) <= c.depth \/ (c.sync /\ Draining)) /\ ReturnCanonical(Store, ret.obj)
    <3>1. Len(bodies) <= c.depth
      BY <2>2, <2>5
    <3>2. Len(bodies) = c.depth
      BY <1>3, <2>1, <3>1
    <3>. QED  BY <1>1, <1>2, <1>4, <2>1, <2>5, <3>2, RReturnCanonical
  <2>. QED  BY <1>3, <1>6, <2>3, <2>4, <2>5 DEF ReturnImported
<1>7. CASE /\ ~ret.ok /\ Dotted(Head(calls).n)
           /\ CallAt("again", ImportCall(Parent[Head(calls).n], Head(calls).sync))
           /\ UNCHANGED <<cache, sysmods, obj>>
  <2>1. PICK h, d : h = [c EXCEPT !.pc = "again"] /\ d = ImportCall(Parent[c.n], c.sync)
    OBVIOUS
  <2>2. CallFrom(h, d)
    BY <1>3, <1>7, <2>1 DEF CallAt
  <2>3. /\ h \in ImportType /\ h.op = "import" /\ h.n = c.n /\ h.sync = c.sync /\ h.pc = "again"
        /\ h.depth = c.depth /\ h.existing = c.existing
    BY <1>3, <2>1 DEF ImportType
  <2>4. c.n \in Names /\ c.sync \in BOOLEAN /\ Dotted(c.n) /\ Len(bodies) = c.depth
    BY <1>3, <1>7 DEF ImportType, HeadImport
  <2>5. /\ d \in CallType /\ d.op = "import" /\ d.n = Parent[c.n] /\ d.pc = "start" /\ ~Waits(d) /\ d.sync = c.sync
    <3>1. Parent[c.n] \in Names
      BY <2>4, ParentName
    <3>2. PICK m, y : m = Parent[c.n] /\ y = c.sync /\ m \in Names /\ y \in BOOLEAN
      BY <2>4, <3>1
    <3>3. d = ImportCall(m, y)
      BY <2>1, <3>2
    <3>4. d \in CallType /\ d.op = "import" /\ d.n = m /\ d.pc = "start" /\ ~Waits(d) /\ d.sync = y
      BY <3>2, <3>3, ImportCallFacts
    <3>. QED  BY <3>2, <3>4
  <2>6. Store' = Store /\ Calm(Store, Store')
    BY <1>7, CalmSelf, StoreKept
  <2>7. RCall(Store', bodies, h) /\ RLink(Store', bodies, h, calls[2])
    BY <1>3, <1>5, <2>3, <2>6 DEF RCall, RImport, RLink
  <2>8. Entering(Store.sys, bodies, d, h)
    <3>1. ~Dotted(d.n) /\ d.n \in DOMAIN Store.sys
      BY <1>4, <2>4, <2>5, ParentName DEF ParentIn
    <3>2. Len(bodies) = Level(h)
      BY <2>3, <2>4 DEF Level
    <3>. QED  BY <2>5, <3>1, <3>2 DEF Entering, HeadStart, ParentIn
  <2>9. h \in CallType /\ h.op # "run" /\ calls[1].op # "run" /\ Level(h) = Level(calls[1])
    BY <1>2, <1>3, <2>3 DEF CallType, Level
  <2>10. NoRun(calls) \/ Level(h) >= 2
    BY <1>2, <1>3, <2>9, LevelDeep
  <2>. QED  BY <1>1, <1>3, <2>2, <2>5, <2>6, <2>7, <2>8, <2>9, <2>10, RCallsInto
<1>8. CASE ~ret.ok /\ FailImport
  <2>1. Len(bodies) = calls[1].depth /\ calls[1].pc # "start"
    BY <1>2, <1>3, <1>8 DEF HeadImport
  <2>. QED  BY <1>1, <1>2, <1>3, <1>8, <2>1, RFailImport
<1>. QED  BY <1>6, <1>7, <1>8 DEF ImportLoaded

LEMMA ImportDrainedRegular ==
  ASSUME CoreInv, RNow, ImportDrained
  PROVE  RNow'
<1>1. UNCHANGED bodies
  BY DEF ImportDrained
<1>2. PICK c : c = calls[1]
  OBVIOUS
<1>3. ASSUME At("import", "rescued") PROVE FALSE
  BY <1>3, ImportKnows DEF RImport
<1>4. At("import", "drained")
  BY <1>3 DEF ImportDrained
<1>5. /\ calls # <<>> /\ Head(calls) = c /\ c.op = "import" /\ c.pc = "drained"
      /\ RImport(Store, bodies, c) /\ HeadImport(Store.sys, bodies, c, ret)
  BY <1>2, <1>4, ImportKnows
<1>6. Len(bodies) = c.depth /\ c.sync
  BY <1>5 DEF HeadImport, RImport
<1>7. CASE ret.ok /\ ReturnCanonical(Store, Head(calls).o)
  <2>1. Answered(Store.sys, c.o, c.n)
    BY <1>5, <1>7 DEF HeadImport
  <2>. QED  BY <1>1, <1>2, <1>4, <1>5, <1>6, <1>7, <2>1, RReturnCanonical
<1>8. CASE FailImport
  <2>1. Len(bodies) = calls[1].depth /\ calls[1].op = "import" /\ calls[1].pc # "start"
    BY <1>2, <1>5, <1>6
  <2>. QED  BY <1>1, <1>5, <1>8, <2>1, RFailImport
<1>. QED  BY <1>3, <1>7, <1>8 DEF ImportDrained

LEMMA ImportAgainRegular ==
  ASSUME CoreInv, RNow, ImportAgain
  PROVE  RNow'
<1>1. UNCHANGED bodies /\ At("import", "again")
  BY DEF ImportAgain
<1>2. PICK c : c = calls[1]
  OBVIOUS
<1>3. /\ calls # <<>> /\ Head(calls) = c /\ c.op = "import" /\ c.pc = "again" /\ CallOK(Store, c)
      /\ RImport(Store, bodies, c) /\ HeadImport(Store.sys, bodies, c, ret) /\ Level(calls[2]) = c.depth
  BY <1>1, <1>2, ImportKnows
<1>4. Len(bodies) = c.depth /\ c.n \notin c.existing
  BY <1>3 DEF HeadImport, RImport, CallOK
<1>5. CASE Fail /\ UNCHANGED <<cache, sysmods, obj>>
  <2>1. Calm(Store, Store')
    BY <1>5, CalmSelf, StoreKept
  <2>2. Len(bodies) = Level(calls[2]) /\ calls[1].op = "import"
    BY <1>2, <1>3, <1>4
  <2>. QED  BY <1>1, <1>3, <1>5, <2>1, <2>2, RFail
<1>6. CASE FailImport
  <2>1. Len(bodies) = calls[1].depth /\ calls[1].op = "import" /\ calls[1].pc # "start"
    BY <1>2, <1>3, <1>4
  <2>. QED  BY <1>1, <1>3, <1>6, <2>1, RFailImport
<1>7. (Fail /\ UNCHANGED <<cache, sysmods, obj>>) \/ FailImport
  BY <1>3, <1>4 DEF ImportAgain
<1>. QED  BY <1>5, <1>6, <1>7

(* load_module *)

(* What a load that starts knows. *)
LEMMA LoadKnows ==
  ASSUME CoreInv, RNow, calls # <<>>, calls[1].op = "load"
  PROVE  /\ Len(bodies) = Level(calls[2]) /\ ParentIn(Store.sys, calls[1].n)
         /\ BodyBegun(bodies, Len(bodies)) /\ calls[1].pc = "start" /\ calls[2].op = "import"
         /\ Waits(calls[2]) /\ (NoRun(calls) \/ Len(bodies) >= 2)
<1>1. HeadLoad(Store.sys, Len(bodies), calls[1], calls[2])
  BY RFacts DEF RHead
<1>2. calls[1].pc = "start"
  BY RFacts, CallerIs DEF RCall
<1>3. BodyBegun(bodies, Level(calls[2]))
  BY CallerBegun
<1>4. calls[2].op = "import" /\ Waits(calls[2]) /\ Tail(calls) # <<>>
  BY RFacts, LoadCaller
<1>5. NoRun(calls) \/ Len(bodies) >= 2
  BY <1>4, RFacts, DrainsBelow
<1>. QED  BY <1>1, <1>2, <1>3, <1>4, <1>5 DEF HeadLoad

(* The package of a module that is loaded has begun. *)
LEMMA PackageBegun ==
  ASSUME CoreInv, RNow, calls # <<>>, calls[1].op = "load", Dotted(calls[1].n)
  PROVE  \E j \in DOMAIN Store.obj : Store.obj[j].name = Parent[calls[1].n] /\ Store.obj[j].st \in Begun
<1>1. PICK p : p = Parent[calls[1].n] /\ p \in DOMAIN Store.sys
  BY LoadKnows DEF ParentIn
<1>2. PICK j : j = Store.sys[p]
  OBVIOUS
<1>3. j \in DOMAIN Store.obj /\ Store.obj[j].name = p
  BY <1>1, <1>2, RFacts, SysObjects
<1>4. CASE Store.obj[j].st = "done"
  BY <1>1, <1>3, <1>4 DEF Begun
<1>5. CASE Store.obj[j].init
  <2>1. PICK k \in 1 .. Len(bodies) : bodies[k].obj = j
    BY <1>3, <1>5, RFacts DEF FramesOK
  <2>2. j # 0
    BY <1>3, RFacts, ObjDomain
  <2>3. k \in 2 .. Len(bodies)
    <3>1. k # 1
      BY <2>1, <2>2, RFacts DEF FramesOK
    <3>. QED  BY <3>1, RFacts
  <2>4. RFrame(Store, bodies, k)
    BY <2>3, RFacts DEF RFrames
  <2>5. ~bodies[k].fresh
    BY <2>3, <2>4, LoadKnows DEF RFrame, BodyBegun
  <2>6. Store.obj[j].st = "run"
    BY <2>1, <2>4, <2>5 DEF RFrame
  <2>. QED  BY <1>1, <1>3, <2>6 DEF Begun
<1>. QED  BY <1>1, <1>2, <1>4, <1>5, RFacts DEF RStore, REntries

LEMMA RReturnLoaded ==
  ASSUME CoreInv, RNow, calls # <<>>, calls[1].op = "load", NEW o, ReturnModule(o), Store' = Store,
         UNCHANGED bodies, Answered(Store.sys, o, calls[1].n)
  PROVE  RNow'
<1>1. RCalls(Store, bodies, Tail(calls))
  BY RFacts, RCallsTail
<1>2. RHead(Store.sys, bodies, Tail(calls), OkRet(o))
  BY LoadKnows, RFacts, HeadAfterLoad
<1>3. RAll(Store, bodies, Tail(calls), OkRet(o))
  BY <1>1, <1>2, RFacts DEF RAll
<1>. QED  BY <1>3 DEF RNow, ReturnModule, OkRet

(* The source does not compile. *)
LEMMA BrokenRegular ==
  ASSUME CoreInv, RNow, Pruned(Store), calls # <<>>, calls[1].op = "load", calls[1].n \in Names,
         calls[1].n \notin DOMAIN Store.cache,
         NEW t, NEW u, IsCreated(Store, calls[1].n, t), IsRemoved(t, {calls[1].n}, u),
         SetStore(u), Fail, UNCHANGED bodies
  PROVE  RNow'
<1>1. PICK n : n = calls[1].n
  OBVIOUS
<1>2. StoreOK(t) /\ FramesOK(t, bodies)
  BY <1>1, RFacts, CreatedTame, FramesSame DEF Tame
<1>3. AddedTo(Store, n, t)
  BY <1>1, LoadKnows, RFacts, CreatedIs
<1>4. RStoreBut(t, {n})
  BY <1>1, <1>3, PackageBegun, RFacts, AddedStore
<1>5. RStore(u) /\ StoreOK(u)
  BY <1>1, <1>2, <1>4, RemovedStore DEF IsRemoved
<1>6. Undisturbed(Store, t, bodies)
  BY <1>3, RFacts, AddedUndisturbed
<1>7. RFrames(t, bodies)
  BY <1>6, RFacts, FramesUndisturbed
<1>8. \A i \in 2 .. Len(bodies) : NameAt(t, bodies, i) = NameAt(Store, bodies, i) /\ NameAt(t, bodies, i) # n
  <2>1. TAKE i \in 2 .. Len(bodies)
  <2>2. bodies[i].obj \in DOMAIN Store.obj /\ RFrame(Store, bodies, i)
    BY RFacts, FrameObjects DEF RFrames
  <2>3. NameAt(t, bodies, i) = NameAt(Store, bodies, i)
    BY <1>6, <2>2 DEF Undisturbed, Same, NameAt
  <2>4. NameAt(Store, bodies, i) \in DOMAIN Store.cache
    BY <2>2, RFacts, SysObjects DEF RFrame, Answered
  <2>. QED  BY <1>1, <2>3, <2>4
<1>9. Undisturbed(t, u, bodies)
  BY <1>1, <1>2, <1>7, <1>8, RemovedUndisturbed
<1>10. RFrames(u, bodies)
  BY <1>2, <1>7, <1>9, FramesUndisturbed
<1>11. Kept(Store, bodies, u, bodies)
  <2>1. \A i \in 2 .. Len(bodies) : NameAt(u, bodies, i) = NameAt(t, bodies, i)
    <3>1. TAKE i \in 2 .. Len(bodies)
    <3>2. bodies[i].obj \in DOMAIN t.obj
      BY <1>2, FrameObjects
    <3>. QED  BY <1>9, <3>2 DEF Undisturbed, Same, NameAt
  <2>2. Len(bodies) <= Len(bodies)
    BY RFacts
  <2>. QED  BY <1>8, <2>1, <2>2 DEF Kept
<1>12. RCalls(u, bodies, calls)
  BY <1>11, LoadKnows, RFacts, RCallsKept DEF DrainsKept
<1>13. RCalls(u, bodies, Tail(calls))
  BY <1>12, RFacts, RCallsTail
<1>14. ParentIn(u.sys, n)
  <2>1. Dotted(n) => Parent[n] # n /\ Parent[n] \in DOMAIN Store.sys
    BY <1>1, LoadKnows, ParentName DEF ParentIn
  <2>. QED  BY <1>1, <1>3, <2>1 DEF ParentIn, AddedTo, IsRemoved
<1>15. RHead(u.sys, bodies, Tail(calls), Err)
  BY <1>1, <1>12, <1>14, LoadKnows, RFacts, HeadAfterFail
<1>16. RAll(u, bodies, Tail(calls), Err)
  BY <1>5, <1>10, <1>13, <1>15 DEF RAll
<1>17. Store' = u
  BY <1>5, StoreSet DEF StoreOK
<1>. QED  BY <1>16, <1>17 DEF RNow, Fail

(* The body is queued. *)
LEMMA QueuedRegular ==
  ASSUME CoreInv, RNow, Pruned(Store), calls # <<>>, calls[1].op = "load", calls[1].n \in Names,
         calls[1].n \notin DOMAIN Store.cache,
         NEW u, IsQueued(Store, calls[1].n, u), SetStore(u),
         bodies' = Append(bodies, QueuedFrame(Len(Store.obj) + 1)), ReturnModule(Len(Store.obj) + 1)
  PROVE  RNow'
<1>1. PICK n : n = calls[1].n
  OBVIOUS
<1>2. PICK g : g = Append(bodies, QueuedFrame(Len(Store.obj) + 1))
  OBVIOUS
<1>3. /\ Tame(Store, u) /\ FramesOK(u, g) /\ Len(g) = Len(bodies) + 1
      /\ g[Len(bodies) + 1] = QueuedFrame(Len(Store.obj) + 1) /\ \A i \in 1 .. Len(bodies) : g[i] = bodies[i]
  BY <1>1, <1>2, RFacts, QueuedFacts
<1>4. AddedTo(Store, n, u) /\ u.obj[Len(Store.obj) + 1].init
  BY <1>1, LoadKnows, RFacts, QueuedIs
<1>5. RStore(u) /\ StoreOK(u)
  BY <1>1, <1>3, <1>4, PackageBegun, RFacts, QueuedStore DEF Tame
<1>6. RFrames(u, g)
  BY <1>3, <1>4, LoadKnows, RFacts, FramesQueued
<1>7. Kept(Store, bodies, u, g)
  <2>1. Len(bodies) <= Len(bodies) + 1
    BY RFacts
  <2>2. \A i \in 2 .. Len(bodies) : NameAt(u, g, i) = NameAt(Store, bodies, i)
    <3>1. TAKE i \in 2 .. Len(bodies)
    <3>2. bodies[i].obj \in DOMAIN Store.obj /\ i \in 1 .. Len(bodies)
      BY RFacts, FrameObjects
    <3>. QED  BY <1>3, <1>4, <3>2 DEF AddedTo, Same, NameAt
  <2>. QED  BY <1>3, <2>1, <2>2 DEF Kept
<1>8. RCalls(u, g, calls)
  <2>1. Len(g) \in Nat
    BY <1>3, RFacts
  <2>. QED  BY <1>7, <2>1, LoadKnows, RFacts, RCallsKept DEF DrainsKept
<1>9. RCalls(u, g, Tail(calls))
  BY <1>8, RFacts, RCallsTail
<1>10. RHead(u.sys, g, Tail(calls), OkRet(Len(Store.obj) + 1))
  <2>1. Answered(u.sys, Len(Store.obj) + 1, n)
    BY <1>4 DEF AddedTo, Answered
  <2>2. ParentIn(u.sys, n)
    BY <1>1, <1>4, LoadKnows DEF ParentIn, AddedTo
  <2>3. Len(g) = Level(calls[2]) + 1 /\ g[Len(g)].obj = Len(Store.obj) + 1
    BY <1>3, LoadKnows DEF QueuedFrame
  <2>. QED  BY <1>1, <1>8, <2>1, <2>2, <2>3, RFacts, HeadAfterLoad
<1>11. RAll(u, g, Tail(calls), OkRet(Len(Store.obj) + 1))
  BY <1>5, <1>6, <1>9, <1>10 DEF RAll
<1>12. Store' = u
  BY <1>5, StoreSet DEF StoreOK
<1>. QED  BY <1>2, <1>11, <1>12 DEF RNow, ReturnModule, OkRet

LEMMA LoadStartRegular ==
  ASSUME CoreInv, RNow, Regular, LoadStart
  PROVE  RNow'
<1>1. /\ calls # <<>> /\ Head(calls) = calls[1] /\ calls[1] \in LoadType
      /\ calls[1].op = "load" /\ PrunedIf(prog, Store)
  BY AtLoad DEF LoadStart
<1>2. PICK n : n = calls[1].n
  OBVIOUS
<1>3. n \in Names /\ Pruned(Store) /\ \A m \in DOMAIN cache : m \in DOMAIN sysmods
  BY <1>1, <1>2, RegularPruned DEF LoadType
<1>4. Store.cache = cache /\ Store.sys = sysmods
  BY StoreIs
<1>5. CASE n \in DOMAIN cache
  <2>1. ~NeedsLoad(Store, n)
    BY <1>4, <1>5, RFacts, NeedsLoadIs
  <2>2. ReturnModule(cache[n]) /\ UNCHANGED <<cache, sysmods, obj, bodies>>
    BY <1>1, <1>2, <2>1 DEF LoadStart
  <2>3. Answered(Store.sys, cache[n], n)
    BY <1>3, <1>4, <1>5, RFacts, SysNamed DEF Answered
  <2>4. Store' = Store
    BY <2>2, StoreKept
  <2>. QED  BY <1>1, <1>2, <2>2, <2>3, <2>4, RReturnLoaded
<1>6. CASE n \notin DOMAIN cache
  <2>1. Dotted(n) => ~NeedsLoad(Store, Parent[n])
    BY <1>1, <1>2, LoadKnows, RFacts, SysObjects, NeedsLoadIs DEF ParentIn
  <2>2. NeedsLoad(Store, n)
    BY <1>4, <1>6, RFacts, NeedsLoadIs
  <2>3. CreateAndQueue(Store, n)
    BY <1>1, <1>2, <1>6, <2>1, <2>2 DEF LoadStart, Has
  <2>4. CASE SetStore(Store) /\ Fail /\ UNCHANGED bodies
    <3>1. Calm(Store, Store')
      BY <2>4, CalmSelf, StoreSet, RFacts DEF StoreOK
    <3>. QED  BY <1>1, <2>4, <3>1, LoadKnows, RFail
  <2>5. CASE /\ \E t, u : IsCreated(Store, n, t) /\ IsRemoved(t, {n}, u) /\ SetStore(u)
             /\ Fail /\ UNCHANGED bodies
    BY <1>1, <1>2, <1>3, <1>4, <1>6, <2>5, BrokenRegular
  <2>6. CASE /\ \E u : IsQueued(Store, n, u) /\ SetStore(u)
             /\ bodies' = Append(bodies, QueuedFrame(Len(Store.obj) + 1)) /\ ReturnModule(Len(Store.obj) + 1)
    BY <1>1, <1>2, <1>3, <1>4, <1>6, <2>6, QueuedRegular
  <2>. QED  BY <1>3, <2>3, <2>4, <2>5, <2>6, RFacts, CreateAndQueueIs
<1>. QED  BY <1>5, <1>6

(* A package has begun whenever its submodule is loaded. *)
LEMMA NoParentLoad ==
  ASSUME CoreInv, RNow, NEW pc, pc # "start"
  PROVE  ~At("load", pc)
BY AtLoad, LoadKnows

LEMMA EndDrainRegular ==
  ASSUME CoreInv, RNow, EndDrain
  PROVE  RNow'
<1>1. /\ calls # <<>> /\ Head(calls) = calls[1] /\ calls[1].op = "run" /\ Len(bodies) = calls[1].stop
      /\ calls' = Tail(calls) /\ ret' = NoRet /\ UNCHANGED <<cache, sysmods, obj, bodies>>
  BY RFacts, StackFacts DEF EndDrain, Top
<1>2. PICK d : d = calls[2]
  OBVIOUS
<1>3. /\ Tail(calls) # <<>> /\ Tail(calls)[1] = d /\ CalledBy(calls[1], d)
      /\ RCall(Store, bodies, d) /\ RLink(Store, bodies, calls[1], d) /\ RCall(Store, bodies, calls[1])
  BY <1>1, <1>2, RFacts, CallerIs
<1>4. RunBy(calls[1], d)
  BY <1>1, <1>3 DEF CalledBy
<1>5. d.op = "import" /\ d.pc = "drained" /\ calls[1].stop = d.depth
  BY <1>3, <1>4 DEF RunBy, RCall, RImport
<1>6. calls[1].stop = 1
  BY <1>1, <1>3 DEF RCall
<1>7. Answered(Store.sys, d.o, d.n)
  BY <1>1, <1>3, <1>6 DEF RLink, Drained
<1>8. HeadImport(Store.sys, bodies, d, NoRet)
  BY <1>1, <1>5, <1>7 DEF HeadImport
<1>9. RHead(Store.sys, bodies, Tail(calls), NoRet)
  BY <1>3, <1>5, <1>8 DEF RHead
<1>10. RCalls(Store, bodies, Tail(calls))
  BY <1>1, RFacts, RCallsTail
<1>11. RAll(Store, bodies, Tail(calls), NoRet)
  BY <1>9, <1>10, RFacts DEF RAll
<1>12. Store' = Store
  BY <1>1, StoreKept
<1>. QED  BY <1>1, <1>11, <1>12 DEF RNow

(* The bodies that an import instruction has run. *)

(* Frame k executes an import instruction, or will repeat one. *)
Busy(fr, cs, k) ==
  \/ fr[k].again # NoInstr
  \/ \E i \in 1 .. Len(cs) : Waits(cs[i]) /\ cs[i].op # "run" /\ Level(cs[i]) = k

(* What it has run stays, unless its import has failed. *)
HasRun(s, fr, k) == \A m \in fr[k].ran : m \in DOMAIN s.sys /\ s.obj[s.sys[m]].st = "done"

FailsAt(cs, r, k) ==
  /\ cs # <<>> /\ ~r.ok /\ Level(cs[1]) = k
  /\ (cs[1].op = "instr" /\ cs[1].pc # "start") \/ (cs[1].op = "import" /\ cs[1].pc = "meta")

(* An import that fails leaves alone what the frames below have run. *)
Noted(fr, cs, c) ==
  c.op = "import" /\ c.pc # "start" =>
    \A k \in 1 .. c.depth - 1 : Busy(fr, cs, k) => fr[k].ran \subseteq c.existing

NotRun(s, fr) == \A i \in 2 .. Len(fr) : fr[i].fresh => NameAt(s, fr, i) \notin fr[i - 1].ran

Runs(s, fr, cs, r) ==
  /\ NotRun(s, fr)
  /\ \A k \in 1 .. Len(fr) : Busy(fr, cs, k) => FailsAt(cs, r, k) \/ HasRun(s, fr, k)
  /\ \A i \in 1 .. Len(cs) : Noted(fr, cs, cs[i])

RunsNow == Runs(Store, bodies, calls, ret)
RunsInv == Regular => RunsNow
-----------------------------------------------------------------------------
(* Objects keep their names, and what is done stays in sys.modules. *)
Keeps(s, t) ==
  /\ \A i \in DOMAIN s.obj : t.obj[i].name = s.obj[i].name /\ (s.obj[i].st = "done" => t.obj[i].st = "done")
  /\ \A n \in DOMAIN s.sys : s.obj[s.sys[n]].st = "done" => n \in DOMAIN t.sys /\ t.sys[n] = s.sys[n]

LEMMA CalmKeeps ==
  ASSUME NEW s, NEW t, Calm(s, t)
  PROVE  Keeps(s, t)
BY DEF Calm, Same, Keeps

LEMMA KeepsTwice ==
  ASSUME NEW s, StoreOK(s), NEW t, NEW u, Keeps(s, t), Keeps(t, u), DOMAIN s.obj \subseteq DOMAIN t.obj
  PROVE  Keeps(s, u)
<1>1. \A n \in DOMAIN s.sys : s.sys[n] \in DOMAIN s.obj
  BY SysObjects
<1>. QED  BY <1>1 DEF Keeps

LEMMA HasRunKept ==
  ASSUME NEW s, StoreOK(s), NEW t, Keeps(s, t), NEW fr, NEW k, HasRun(s, fr, k), NEW g, g[k].ran = fr[k].ran
  PROVE  HasRun(t, g, k)
<1>1. \A n \in DOMAIN s.sys : s.sys[n] \in DOMAIN s.obj
  BY SysObjects
<1>. QED  BY <1>1 DEF HasRun, Keeps

(* Frames go or change in what does not matter here. *)
FewerFrames(fr, cs, g, ds) ==
  /\ Len(g) \in Nat \ {0} /\ Len(g) <= Len(fr)
  /\ \A k \in 1 .. Len(g) : /\ g[k].obj = fr[k].obj /\ g[k].ran = fr[k].ran /\ (g[k].fresh => fr[k].fresh)
                            /\ Busy(g, ds, k) => Busy(fr, cs, k)

LEMMA NotedKept ==
  ASSUME NEW fr, NEW cs, NEW g, NEW ds, FewerFrames(fr, cs, g, ds), NEW c, Noted(fr, cs, c),
         c.op = "import" /\ c.pc # "start" => c.depth \in 1 .. Len(g)
  PROVE  Noted(g, ds, c)
<1>1. SUFFICES ASSUME c.op = "import", c.pc # "start", NEW k \in 1 .. c.depth - 1, Busy(g, ds, k)
               PROVE  g[k].ran \subseteq c.existing
  BY DEF Noted
<1>2. PICK l, d : l = Len(g) /\ d = c.depth
  OBVIOUS
<1>3. k \in 1 .. Len(g)
  <2>1. l \in Nat /\ d \in 1 .. l /\ k \in 1 .. d - 1
    BY <1>1, <1>2 DEF FewerFrames
  <2>. QED  BY <1>2, <2>1
<1>. QED  BY <1>1, <1>3 DEF FewerFrames, Noted

LEMMA RunsOn ==
  ASSUME NEW s, StoreOK(s), NEW fr, FramesOK(s, fr), NEW cs, NEW r, Runs(s, fr, cs, r),
         NEW t, Keeps(s, t), NEW g, NEW ds, FewerFrames(fr, cs, g, ds), NEW q,
         \A k \in 1 .. Len(g) : FailsAt(cs, r, k) /\ Busy(g, ds, k) => FailsAt(ds, q, k),
         \A i \in 1 .. Len(ds) : Noted(g, ds, ds[i])
  PROVE  Runs(t, g, ds, q)
<1>1. PICK l, m : l = Len(g) /\ m = Len(fr)
  OBVIOUS
<1>2. l \in Nat /\ m \in Nat /\ l <= m
  BY <1>1, FrameObjects DEF FewerFrames
<1>3. \A k \in 1 .. l : k \in 1 .. m
  BY <1>2
<1>4. NotRun(t, g)
  <2>1. SUFFICES ASSUME NEW i \in 2 .. l, g[i].fresh PROVE NameAt(t, g, i) \notin g[i - 1].ran
    BY <1>1 DEF NotRun
  <2>2. i \in 1 .. l /\ i - 1 \in 1 .. l /\ i \in 2 .. m
    BY <1>2, <2>1
  <2>3. /\ g[i].obj = fr[i].obj /\ fr[i].fresh /\ g[i - 1].ran = fr[i - 1].ran
    BY <1>1, <2>1, <2>2 DEF FewerFrames
  <2>4. NameAt(t, g, i) = NameAt(s, fr, i)
    BY <1>1, <2>2, <2>3, FrameObjects DEF NameAt, Keeps
  <2>. QED  BY <1>1, <2>2, <2>3, <2>4 DEF Runs, NotRun
<1>5. ASSUME NEW k \in 1 .. l, Busy(g, ds, k) PROVE FailsAt(ds, q, k) \/ HasRun(t, g, k)
  <2>1. g[k].ran = fr[k].ran /\ Busy(fr, cs, k) /\ k \in 1 .. m
    BY <1>1, <1>3, <1>5 DEF FewerFrames
  <2>2. FailsAt(cs, r, k) \/ HasRun(s, fr, k)
    BY <1>1, <2>1 DEF Runs
  <2>. QED  BY <1>1, <1>5, <2>1, <2>2, HasRunKept
<1>. QED  BY <1>1, <1>4, <1>5 DEF Runs

(* Steps of the native calls *)
LEMMA BusyTail ==
  ASSUME NEW s, NEW lim, NEW cs, StackOK(s, lim, cs), cs # <<>>, NEW fr, NEW k, Busy(fr, Tail(cs), k)
  PROVE  Busy(fr, cs, k)
<1>1. /\ Len(cs) \in Nat /\ Len(Tail(cs)) = Len(cs) - 1
      /\ \A i \in 1 .. Len(cs) - 1 : Tail(cs)[i] = cs[i + 1]
  BY StackFacts
<1>2. PICK l : l = Len(cs)
  OBVIOUS
<1>3. \A i \in 1 .. l - 1 : i + 1 \in 1 .. l
  BY <1>1, <1>2
<1>. QED  BY <1>1, <1>2, <1>3 DEF Busy

(* Nothing fails in the frame that waits for the innermost call. *)
NoneFails == \A k \in 1 .. Len(bodies) : ~FailsAt(calls, ret, k)

LEMMA DepthKnown ==
  ASSUME NEW s, NEW lim, NEW cs, StackOK(s, lim, cs), NEW i \in 1 .. Len(cs), cs[i].op = "import", cs[i].pc # "start"
  PROVE  cs[i].depth \in 1 .. lim
BY DEF StackOK, Waits, Level

(* The innermost call ends. *)
LEMMA RunsBack ==
  ASSUME CoreInv, RNow, RunsNow, calls # <<>>, calls' = Tail(calls), NEW t, Store' = t, Keeps(Store, t),
         NEW g, bodies' = g, Len(g) = Len(bodies), FewerFrames(bodies, calls, g, Tail(calls)),
         NEW r, ret' = r, \A k \in 1 .. Len(bodies) : FailsAt(calls, ret, k) => FailsAt(Tail(calls), r, k)
  PROVE  RunsNow'
<1>1. /\ StoreOK(Store) /\ FramesOK(Store, bodies) /\ StackOK(Store, Len(bodies), calls)
  BY RFacts
<1>2. PICK cs, ds : cs = calls /\ ds = Tail(calls)
  OBVIOUS
<1>3. /\ Len(cs) \in Nat /\ Len(ds) = Len(cs) - 1 /\ \A i \in 1 .. Len(cs) - 1 : ds[i] = cs[i + 1]
  BY <1>1, <1>2, StackFacts
<1>4. PICK l : l = Len(cs)
  OBVIOUS
<1>5. ASSUME NEW i \in 1 .. Len(ds) PROVE Noted(g, ds, ds[i])
  <2>1. i + 1 \in 1 .. l /\ i \in 1 .. l - 1
    BY <1>3, <1>4, <1>5
  <2>2. ds[i] = cs[i + 1] /\ Noted(bodies, cs, cs[i + 1])
    BY <1>2, <1>3, <1>4, <2>1 DEF RunsNow, Runs
  <2>3. cs[i + 1].op = "import" /\ cs[i + 1].pc # "start" => cs[i + 1].depth \in 1 .. Len(g)
    BY <1>1, <1>2, <1>4, <2>1, DepthKnown
  <2>. QED  BY <1>2, <2>2, <2>3, NotedKept
<1>6. Runs(t, g, ds, r)
  BY <1>1, <1>2, <1>5, RunsOn DEF RunsNow
<1>. QED  BY <1>2, <1>6 DEF RunsNow

LEMMA SameFrames ==
  ASSUME CoreInv, calls # <<>>
  PROVE  FewerFrames(bodies, calls, bodies, Tail(calls))
<1>1. StackOK(Store, Len(bodies), calls) /\ Len(bodies) \in Nat \ {0}
  BY CoreFacts
<1>. QED  BY <1>1, BusyTail DEF FewerFrames

LEMMA RunsReturn ==
  ASSUME CoreInv, RNow, RunsNow, calls # <<>>, calls' = Tail(calls), Keeps(Store, Store'), UNCHANGED bodies,
         \A k \in 1 .. Len(bodies) : FailsAt(calls, ret, k) => FailsAt(Tail(calls), ret', k)
  PROVE  RunsNow'
<1>1. PICK t, g, r : t = Store' /\ g = bodies' /\ r = ret'
  OBVIOUS
<1>. QED  BY <1>1, SameFrames, RunsBack

(* The innermost call calls another. *)
LEMMA BusyCalls ==
  ASSUME NEW s, NEW lim, NEW cs, StackOK(s, lim, cs), cs # <<>>, NEW h \in CallType, NEW c \in CallType,
         ~Waits(c) \/ c.op = "run", NEW fr, Busy(fr, cs, Level(h)), NEW k, Busy(fr, <<c, h>> \o Tail(cs), k)
  PROVE  Busy(fr, cs, k)
<1>1. PICK e : e = Tail(cs)
  OBVIOUS
<1>2. e \in Seq(CallType) /\ Len(e) \in Nat
  BY <1>1, StackFacts
<1>3. PICK d : d = <<c, h>> \o e
  OBVIOUS
<1>4. IsTwoOnTop(c, h, e, d)
  BY <1>2, <1>3, TwoOnTopIs
<1>5. CASE fr[k].again # NoInstr
  BY <1>5 DEF Busy
<1>6. CASE \E i \in 1 .. Len(d) : Waits(d[i]) /\ d[i].op # "run" /\ Level(d[i]) = k
  <2>1. PICK i \in 1 .. Len(d) : Waits(d[i]) /\ d[i].op # "run" /\ Level(d[i]) = k
    BY <1>6
  <2>2. PICK l : l = Len(e)
    OBVIOUS
  <2>3. i = 1 \/ i = 2 \/ (i - 2 \in 1 .. l /\ i = i - 2 + 2)
    BY <1>2, <1>4, <2>1, <2>2 DEF IsTwoOnTop
  <2>4. CASE i = 1
    BY <1>4, <2>1, <2>4 DEF IsTwoOnTop
  <2>5. CASE i = 2
    BY <1>4, <2>1, <2>5 DEF IsTwoOnTop
  <2>6. CASE i - 2 \in 1 .. l /\ i = i - 2 + 2
    <3>1. d[i] = e[i - 2]
      BY <1>4, <2>2, <2>6 DEF IsTwoOnTop
    <3>2. Busy(fr, e, k)
      BY <2>1, <2>2, <2>6, <3>1 DEF Busy
    <3>. QED  BY <1>1, <3>2, BusyTail
  <2>. QED  BY <2>3, <2>4, <2>5, <2>6
<1>. QED  BY <1>1, <1>3, <1>5, <1>6 DEF Busy

LEMMA RunsCall ==
  ASSUME CoreInv, RNow, RunsNow, calls # <<>>, calls[1].op # "run", NEW h \in CallType, NEW c \in CallType, CallFrom(h, c),
         Keeps(Store, Store'), UNCHANGED bodies, NoneFails, Starts(c), c.op # "instr", Busy(bodies, calls, Level(h)),
         Noted(bodies, calls, h), Waits(h), Level(h) \in 1 .. Len(bodies)
  PROVE  RunsNow'
<1>1. /\ StoreOK(Store) /\ FramesOK(Store, bodies) /\ StackOK(Store, Len(bodies), calls)
      /\ Len(bodies) \in Nat \ {0}
  BY RFacts
<1>2. PICK cs, e, t : cs = calls /\ e = Tail(calls) /\ t = Store'
  OBVIOUS
<1>3. e \in Seq(CallType) /\ Len(cs) \in Nat /\ Len(e) = Len(cs) - 1 /\ \A i \in 1 .. Len(cs) - 1 : e[i] = cs[i + 1]
  BY <1>1, <1>2, StackFacts
<1>4. PICK d : d = <<c, h>> \o e
  OBVIOUS
<1>5. IsTwoOnTop(c, h, e, d)
  BY <1>3, <1>4, TwoOnTopIs
<1>6. calls' = d /\ ret' = NoRet
  BY <1>2, <1>4 DEF CallFrom
<1>7. ~Waits(c) \/ c.op = "run"
  <2>1. c.op \in {"import", "load", "instr", "run"}
    BY CallFields
  <2>. QED  BY <2>1 DEF Starts, Waits
<1>8. \A k \in 1 .. Len(bodies) : Busy(bodies, d, k) => Busy(bodies, cs, k)
  BY <1>1, <1>2, <1>4, <1>7, BusyCalls
<1>9. FewerFrames(bodies, cs, bodies, d)
  BY <1>1, <1>8 DEF FewerFrames
<1>10. ASSUME NEW i \in 1 .. Len(d) PROVE Noted(bodies, d, d[i])
  <2>1. PICK l : l = Len(e)
    OBVIOUS
  <2>2. i = 1 \/ i = 2 \/ (i - 2 \in 1 .. l /\ i = i - 2 + 2 /\ i - 2 + 1 \in 1 .. l + 1)
    BY SMTT(60), <1>3, <1>5, <1>10, <2>1 DEF IsTwoOnTop
  <2>3. CASE i = 1
    BY <1>5, <1>7, <2>3 DEF IsTwoOnTop, Noted, Waits
  <2>4. CASE i = 2
    <3>1. d[i] = h /\ Noted(bodies, cs, h)
      BY <1>2, <1>5, <2>4 DEF IsTwoOnTop
    <3>2. h.op = "import" /\ h.pc # "start" => h.depth \in 1 .. Len(bodies)
      BY DEF Level
    <3>. QED  BY <1>9, <3>1, <3>2, NotedKept
  <2>5. CASE i - 2 \in 1 .. l /\ i = i - 2 + 2 /\ i - 2 + 1 \in 1 .. l + 1
    <3>1. PICK j : j = i - 2
      OBVIOUS
    <3>2. d[i] = e[j] /\ e[j] = cs[j + 1] /\ j + 1 \in 1 .. Len(cs)
      BY SMTT(60), <1>3, <1>5, <2>1, <2>5, <3>1 DEF IsTwoOnTop
    <3>3. Noted(bodies, cs, cs[j + 1])
      BY <1>2, <3>2 DEF RunsNow, Runs
    <3>4. cs[j + 1].op = "import" /\ cs[j + 1].pc # "start" => cs[j + 1].depth \in 1 .. Len(bodies)
      BY <1>1, <1>2, <3>2, DepthKnown
    <3>. QED  BY <1>9, <3>2, <3>3, <3>4, NotedKept
  <2>. QED  BY <2>2, <2>3, <2>4, <2>5
<1>11. \A k \in 1 .. Len(bodies) : ~FailsAt(cs, ret, k)
  BY <1>2 DEF NoneFails
<1>12. Runs(t, bodies, d, NoRet)
  BY <1>1, <1>2, <1>9, <1>10, <1>11, RunsOn DEF RunsNow
<1>. QED  BY <1>2, <1>6, <1>12 DEF RunsNow

(* import_module_object_with_policy *)

(* The frames that a call and its caller work for are busy. *)
LEMMA BusyHere ==
  ASSUME CoreInv, RNow, calls # <<>>, calls[1].op # "run"
  PROVE  /\ Waits(calls[1]) => Busy(bodies, calls, Level(calls[1])) /\ Level(calls[1]) \in 1 .. Len(bodies)
         /\ calls[1].op # "instr" => Busy(bodies, calls, Level(calls[2])) /\ Level(calls[2]) \in 1 .. Len(bodies)
<1>1. StackOK(Store, Len(bodies), calls)
  BY RFacts
<1>2. 1 \in 1 .. Len(calls)
  BY <1>1, StackFacts
<1>3. ASSUME Waits(calls[1]) PROVE Busy(bodies, calls, Level(calls[1])) /\ Level(calls[1]) \in 1 .. Len(bodies)
  BY <1>1, <1>2, <1>3 DEF Busy, StackOK
<1>4. ASSUME calls[1].op # "instr" PROVE Busy(bodies, calls, Level(calls[2])) /\ Level(calls[2]) \in 1 .. Len(bodies)
  <2>1. /\ Waits(calls[2]) /\ 2 \in 1 .. Len(calls) /\ Level(calls[2]) \in 1 .. Len(bodies)
        /\ CalledBy(calls[1], calls[2])
    BY <1>1, <1>4, RFacts, CallerIs
  <2>2. calls[2].op # "run"
    BY <1>4, <2>1 DEF CalledBy, ImportedBy, LoadedBy
  <2>. QED  BY <2>1, <2>2 DEF Busy
<1>. QED  BY <1>3, <1>4

(* The import takes note of what the frames below have run. *)
LEMMA NotedNow ==
  ASSUME CoreInv, RNow, RunsNow, calls # <<>>, calls[1].op = "import", calls[1].pc = "start",
         NEW h, h.depth = Len(bodies), h.existing = DOMAIN cache
  PROVE  NoneFails /\ Noted(bodies, calls, h)
<1>1. NoneFails
  BY DEF NoneFails, FailsAt
<1>2. ASSUME NEW k \in 1 .. Len(bodies) - 1, Busy(bodies, calls, k) PROVE bodies[k].ran \subseteq DOMAIN cache
  <2>1. k \in 1 .. Len(bodies)
    BY <1>2, RFacts
  <2>2. HasRun(Store, bodies, k)
    BY <1>1, <1>2, <2>1 DEF NoneFails, RunsNow, Runs
  <2>3. DOMAIN Store.sys \subseteq DOMAIN cache
    BY RFacts, StoreIs, SysObjects
  <2>. QED  BY <2>2, <2>3 DEF HasRun
<1>3. Noted(bodies, calls, h)
  BY <1>2 DEF Noted
<1>. QED  BY <1>1, <1>3

LEMMA SelfKeeps ==
  ASSUME Store' = Store
  PROVE  Keeps(Store, Store')
BY CalmSelf, CalmKeeps

LEMMA ImportStartRuns ==
  ASSUME CoreInv, RNow, RunsNow, ImportStart
  PROVE  RunsNow'
<1>1. /\ calls # <<>> /\ Head(calls) = calls[1] /\ calls[1] \in ImportType /\ calls[1] \in CallType
      /\ calls[1].op = "import" /\ calls[1].pc = "start"
  BY AtImport DEF ImportStart
<1>2. PICK c : c = calls[1]
  OBVIOUS
<1>3. UNCHANGED <<sysmods, obj, bodies>>
  BY DEF ImportStart
<1>4. Keeps(Store, Store')
  BY <1>3, StoreIs DEF Keeps
<1>5. NoneFails
  BY <1>1 DEF NoneFails, FailsAt
<1>6. HeadStart(Store.sys, Len(bodies), c, calls[2])
  BY <1>1, <1>2, RFacts DEF RHead
<1>7. CASE ReturnModule(sysmods[c.n])
  BY <1>1, <1>3, <1>4, <1>5, <1>7, RunsReturn DEF NoneFails, ReturnModule
<1>8. ASSUME NEW pc \in {"meta", "loaded"}, NEW d \in CallType, Starts(d), d.op # "instr",
             CallFrom([c EXCEPT !.depth = Len(bodies), !.existing = DOMAIN cache, !.pc = pc], d)
      PROVE  RunsNow'
  <2>1. PICK h : h = [c EXCEPT !.depth = Len(bodies), !.existing = DOMAIN cache, !.pc = pc]
    OBVIOUS
  <2>2. DOMAIN cache \subseteq Names
    BY RFacts, StoreIs, ObjDomain, TableFields
  <2>3. h \in ImportType /\ h.op = "import" /\ h.pc = pc /\ h.depth = Len(bodies) /\ h.existing = DOMAIN cache
    BY <1>1, <1>2, <2>1, <2>2, RFacts DEF ImportType
  <2>4. h \in CallType /\ Level(h) = Len(bodies) /\ Waits(h)
    BY <2>3 DEF CallType, Level, Waits
  <2>5. Busy(bodies, calls, Level(h)) /\ Level(h) \in 1 .. Len(bodies)
    BY <1>1, <1>6, <2>4, BusyHere DEF HeadStart
  <2>6. Noted(bodies, calls, h)
    BY <1>1, <2>3, NotedNow
  <2>7. CallFrom(h, d)
    BY <1>8, <2>1
  <2>. QED  BY <1>1, <1>3, <1>4, <1>5, <1>8, <2>4, <2>5, <2>6, <2>7, RunsCall
<1>9. c.n \in Names
  BY <1>1, <1>2 DEF ImportType
<1>10. CASE Dotted(c.n) /\ CallFrom([c EXCEPT !.depth = Len(bodies), !.existing = DOMAIN cache, !.pc = "meta"],
                                    ImportCall(Parent[c.n], TRUE))
  <2>1. PICK d : d = ImportCall(Parent[c.n], TRUE)
    OBVIOUS
  <2>2. d \in CallType /\ Starts(d) /\ d.op = "import"
    BY <1>9, <1>10, <2>1, ParentName, ImportCallFacts
  <2>. QED  BY <1>8, <1>10, <2>1, <2>2
<1>11. CASE CallFrom([c EXCEPT !.depth = Len(bodies), !.existing = DOMAIN cache, !.pc = "loaded"], LoadCall(c.n))
  <2>1. PICK d : d = LoadCall(c.n)
    OBVIOUS
  <2>2. d \in CallType /\ Starts(d) /\ d.op = "load"
    BY <1>9, <2>1, LoadCallFacts
  <2>. QED  BY <1>8, <1>11, <2>1, <2>2
<1>. QED  BY <1>1, <1>2, <1>7, <1>10, <1>11 DEF ImportStart

(* An import that fails does so in the frame that its caller works for. *)
LEMMA FailedCaller ==
  ASSUME CoreInv, RNow, NEW pc, At("import", pc), pc # "start"
  PROVE  FailsAt(Tail(calls), Err, calls[1].depth)
<1>1. /\ Tail(calls) # <<>> /\ Tail(calls)[1] = calls[2] /\ CalledBy(calls[1], calls[2])
  BY ImportKnows, RFacts, CallerIs
<1>2. /\ calls[1].op = "import" /\ calls[1].pc # "start" /\ Level(calls[2]) = calls[1].depth
      /\ RLink(Store, bodies, calls[1], calls[2])
  BY ImportKnows
<1>3. ImportedBy(calls[1], calls[2]) /\ ~(calls[2].op = "import" /\ calls[2].pc = "again")
  BY <1>1, <1>2 DEF CalledBy, RLink
<1>. QED  BY <1>1, <1>2, <1>3 DEF FailsAt, ImportedBy, Err

LEMMA ImportMetaRuns ==
  ASSUME CoreInv, RNow, RunsNow, ImportMeta
  PROVE  RunsNow'
<1>1. UNCHANGED bodies /\ Store' = Store /\ At("import", "meta")
  BY StoreKept DEF ImportMeta
<1>2. PICK c : c = calls[1]
  OBVIOUS
<1>3. /\ calls # <<>> /\ Head(calls) = c /\ c \in ImportType /\ c.op = "import" /\ c.pc = "meta"
      /\ Waits(c) /\ Level(c) = c.depth
  BY <1>1, <1>2, ImportKnows
<1>4. Keeps(Store, Store')
  BY <1>1, SelfKeeps
<1>5. CASE ret.ok
  <2>1. PICK h, d : h = [c EXCEPT !.pc = "loaded"] /\ d = LoadCall(c.n)
    OBVIOUS
  <2>2. CallFrom(h, d)
    BY <1>3, <1>5, <2>1 DEF ImportMeta, CallAt
  <2>3. /\ h \in ImportType /\ h.op = "import" /\ h.pc = "loaded" /\ h.depth = c.depth /\ h.existing = c.existing
    BY <1>3, <2>1 DEF ImportType
  <2>4. h \in CallType /\ Level(h) = Level(c) /\ Waits(h) /\ c.n \in Names
    BY <1>3, <2>3 DEF CallType, Level, ImportType, Waits
  <2>5. d \in CallType /\ Starts(d) /\ d.op = "load"
    BY <2>1, <2>4, LoadCallFacts
  <2>6. Noted(bodies, calls, c)
    <3>1. 1 \in 1 .. Len(calls)
      BY <1>3, RFacts, StackFacts
    <3>. QED  BY <1>2, <3>1 DEF RunsNow, Runs
  <2>7. Noted(bodies, calls, h)
    BY <1>3, <2>3, <2>6 DEF Noted
  <2>8. NoneFails
    BY <1>5 DEF NoneFails, FailsAt
  <2>9. Busy(bodies, calls, Level(h)) /\ Level(h) \in 1 .. Len(bodies)
    BY <1>2, <1>3, <2>4, BusyHere
  <2>. QED  BY <1>1, <1>2, <1>3, <1>4, <2>2, <2>4, <2>5, <2>7, <2>8, <2>9, RunsCall
<1>6. CASE ~ret.ok
  <2>1. calls' = Tail(calls) /\ ret' = Err
    BY <1>6 DEF ImportMeta, Fail
  <2>2. FailsAt(Tail(calls), ret', c.depth)
    BY <1>1, <1>2, <2>1, FailedCaller
  <2>3. \A k \in 1 .. Len(bodies) : FailsAt(calls, ret, k) => k = c.depth
    BY <1>2, <1>3 DEF FailsAt
  <2>. QED  BY <1>1, <1>3, <1>4, <2>1, <2>2, <2>3, RunsReturn
<1>. QED  BY <1>5, <1>6

(* cleanup_failed_import takes nothing away that the frames below have run. *)
LEMMA RunsFailImport ==
  ASSUME CoreInv, RNow, RunsNow, NEW pc, At("import", pc), pc \notin {"start", "meta"}, FailImport,
         UNCHANGED bodies, Len(bodies) = calls[1].depth
  PROVE  RunsNow'
<1>1. PICK c : c = calls[1]
  OBVIOUS
<1>2. /\ calls # <<>> /\ Head(calls) = c /\ c.op = "import" /\ c.pc = pc
      /\ RImport(Store, bodies, c) /\ Level(calls[2]) = c.depth
  BY <1>1, ImportKnows
<1>3. PICK s \in CleanupFailedImport(Store, c.n, c.existing) : SetStore(s)
  BY <1>2 DEF FailImport
<1>4. PICK S : IsRemoved(Store, S, s) /\ S \cap c.existing = {}
  BY RFacts, FailedImportIs
<1>5. StoreOK(s) /\ Store' = s
  BY <1>3, <1>4, StoreSet DEF IsRemoved, StoreOK
<1>6. PICK ds, l : ds = Tail(calls) /\ l = Len(bodies)
  OBVIOUS
<1>7. calls' = ds /\ ret' = Err /\ bodies' = bodies
  BY <1>6 DEF FailImport, Fail
<1>8. StackOK(Store, l, calls) /\ StoreOK(Store) /\ FramesOK(Store, bodies) /\ l \in Nat \ {0}
  BY <1>6, RFacts
<1>9. \A i \in DOMAIN Store.obj : s.obj[i].name = Store.obj[i].name /\ s.obj[i].st = Store.obj[i].st
  BY <1>4 DEF IsRemoved, SameBut
<1>10. NotRun(s, bodies)
  <2>1. SUFFICES ASSUME NEW i \in 2 .. Len(bodies), bodies[i].fresh PROVE NameAt(s, bodies, i) \notin bodies[i - 1].ran
    BY DEF NotRun
  <2>2. NameAt(s, bodies, i) = NameAt(Store, bodies, i)
    BY <1>8, <1>9, FrameObjects DEF NameAt
  <2>. QED  BY <2>1, <2>2 DEF RunsNow, Runs, NotRun
<1>11. ASSUME NEW k \in 1 .. l, Busy(bodies, ds, k) PROVE FailsAt(ds, Err, k) \/ HasRun(s, bodies, k)
  <2>1. CASE k = l
    <3>1. FailsAt(ds, Err, c.depth)
      BY <1>1, <1>2, <1>6, FailedCaller
    <3>. QED  BY <1>1, <1>6, <2>1, <3>1
  <2>2. CASE k \in 1 .. l - 1
    <3>1. Busy(bodies, calls, k)
      BY <1>2, <1>6, <1>8, <1>11, BusyTail
    <3>2. bodies[k].ran \subseteq c.existing
      <4>1. 1 \in 1 .. Len(calls)
        BY <1>2, <1>8, StackFacts
      <4>2. Noted(bodies, calls, c)
        BY <1>1, <4>1 DEF RunsNow, Runs
      <4>. QED  BY <1>1, <1>2, <1>6, <2>2, <3>1, <4>2 DEF Noted
    <3>3. HasRun(Store, bodies, k)
      <4>1. ~FailsAt(calls, ret, k)
        BY <1>1, <1>2 DEF FailsAt
      <4>. QED  BY <1>6, <1>11, <3>1, <4>1 DEF RunsNow, Runs
    <3>4. \A m \in bodies[k].ran : m \in DOMAIN Store.sys /\ Store.obj[Store.sys[m]].st = "done" /\ m \notin S
      BY <1>4, <3>2, <3>3 DEF HasRun
    <3>5. \A m \in bodies[k].ran : m \in DOMAIN s.sys /\ s.sys[m] = Store.sys[m] /\ Store.sys[m] \in DOMAIN Store.obj
      BY <1>4, <1>8, <3>4, SysObjects DEF IsRemoved
    <3>. QED  BY <1>9, <3>4, <3>5 DEF HasRun
  <2>3. k = l \/ k \in 1 .. l - 1
    BY <1>8, <1>11
  <2>. QED  BY <2>1, <2>2, <2>3
<1>12. ASSUME NEW i \in 1 .. Len(ds) PROVE Noted(bodies, ds, ds[i])
  <2>1. FewerFrames(bodies, calls, bodies, ds)
    BY <1>2, <1>6, SameFrames
  <2>2. i + 1 \in 1 .. Len(calls) /\ ds[i] = calls[i + 1]
    <3>1. PICK m : m = Len(calls)
      OBVIOUS
    <3>2. m \in Nat /\ Len(ds) = m - 1 /\ \A j \in 1 .. m - 1 : ds[j] = calls[j + 1]
      BY <1>2, <1>6, <1>8, <3>1, StackFacts
    <3>. QED  BY <3>1, <3>2
  <2>3. Noted(bodies, calls, ds[i])
    BY <2>2 DEF RunsNow, Runs
  <2>4. ds[i].op = "import" /\ ds[i].pc # "start" => ds[i].depth \in 1 .. Len(bodies)
    BY <1>6, <1>8, <2>2, DepthKnown
  <2>. QED  BY <2>1, <2>3, <2>4, NotedKept
<1>13. Runs(s, bodies, ds, Err)
  BY <1>6, <1>10, <1>11, <1>12 DEF Runs
<1>. QED  BY <1>5, <1>7, <1>13 DEF RunsNow

LEMMA RunsReturnCanonical ==
  ASSUME CoreInv, RNow, RunsNow, NEW pc, At("import", pc), pc # "start", ret.ok, NEW o,
         ReturnCanonical(Store, o), UNCHANGED bodies
  PROVE  RunsNow'
<1>1. PICK c : c = calls[1]
  OBVIOUS
<1>2. Head(calls) = c /\ calls # <<>>
  BY <1>1, ImportKnows
<1>3. CanonicalStore(Store, c.n) = Store
  BY RFacts, CanonicalSame
<1>4. SetStore(Store) /\ calls' = Tail(calls)
  BY <1>2, <1>3 DEF ReturnCanonical, ReturnModule
<1>5. Keeps(Store, Store')
  BY <1>4, SelfKeeps, StoreSet, RFacts DEF StoreOK
<1>. QED  BY <1>2, <1>4, <1>5, RunsReturn DEF FailsAt

(* The import goes on with another call. *)
LEMMA RunsImports ==
  ASSUME CoreInv, RNow, RunsNow, NEW p0, At("import", p0), p0 # "start", NEW h \in ImportType,
         h.pc # "start", h.depth = calls[1].depth, h.existing = calls[1].existing,
         NEW d \in CallType, Starts(d), d.op # "instr", CallFrom(h, d),
         Store' = Store, UNCHANGED bodies, ret.ok \/ p0 # "meta"
  PROVE  RunsNow'
<1>1. PICK c : c = calls[1]
  OBVIOUS
<1>2. /\ calls # <<>> /\ c.op = "import" /\ c.pc = p0 /\ Waits(c) /\ Level(c) = c.depth
  BY <1>1, ImportKnows
<1>3. h \in CallType /\ Level(h) = Level(c) /\ Waits(h) /\ h.op = "import"
  BY <1>1, <1>2 DEF CallType, Level, ImportType, Waits
<1>4. Noted(bodies, calls, c)
  <2>1. 1 \in 1 .. Len(calls)
    BY <1>2, RFacts, StackFacts
  <2>. QED  BY <1>1, <2>1 DEF RunsNow, Runs
<1>5. Noted(bodies, calls, h)
  BY <1>1, <1>2, <1>3, <1>4 DEF Noted
<1>6. NoneFails
  BY <1>1, <1>2 DEF NoneFails, FailsAt
<1>7. Busy(bodies, calls, Level(h)) /\ Level(h) \in 1 .. Len(bodies)
  BY <1>1, <1>2, <1>3, BusyHere
<1>. QED  BY <1>1, <1>2, <1>3, <1>5, <1>6, <1>7, SelfKeeps, RunsCall

LEMMA ImportLoadedRuns ==
  ASSUME CoreInv, RNow, RunsNow, ImportLoaded
  PROVE  RunsNow'
<1>1. At("import", "loaded") /\ UNCHANGED bodies
  BY DEF ImportLoaded
<1>2. PICK c : c = calls[1]
  OBVIOUS
<1>3. /\ calls # <<>> /\ Head(calls) = c /\ c \in ImportType /\ c.op = "import" /\ c.pc = "loaded"
      /\ c.depth \in 1 .. Len(bodies) /\ HeadImport(Store.sys, bodies, c, ret)
  BY <1>1, <1>2, ImportKnows
<1>4. ret.obj \in Nat /\ c.n \in Names /\ c.sync \in BOOLEAN /\ Store \in StoreType /\ c.depth \in Nat \ {0}
  BY <1>3, CoreFacts DEF ImportType, StoreOK
<1>5. CASE ret.ok /\ ReturnImported(Store, ret.obj, "drained")
  <2>1. CASE CallFrom([c EXCEPT !.pc = "drained", !.o = ret.obj], RunCall(c.depth)) /\ SetStore(Store)
    <3>1. PICK h, d : h = [c EXCEPT !.pc = "drained", !.o = ret.obj] /\ d = RunCall(c.depth)
      OBVIOUS
    <3>2. h \in ImportType /\ h.pc = "drained" /\ h.depth = c.depth /\ h.existing = c.existing
      BY <1>3, <1>4, <3>1 DEF ImportType
    <3>3. d \in CallType /\ Starts(d) /\ d.op = "run"
      BY <1>4, <3>1, RunCallFacts
    <3>4. CallFrom(h, d) /\ Store' = Store
      BY <1>4, <2>1, <3>1, StoreSet
    <3>. QED  BY <1>1, <1>2, <3>2, <3>3, <3>4, RunsImports
  <2>2. CASE ReturnModule(ret.obj) /\ SetStore(Store)
    <3>1. Store' = Store /\ calls' = Tail(calls)
      BY <1>4, <2>2, StoreSet DEF ReturnModule
    <3>. QED  BY <1>1, <1>3, <1>5, <3>1, SelfKeeps, RunsReturn DEF FailsAt
  <2>3. CASE ReturnCanonical(Store, ret.obj)
    BY <1>1, <1>5, <2>3, RunsReturnCanonical
  <2>. QED  BY <1>3, <1>5, <2>1, <2>2, <2>3 DEF ReturnImported
<1>6. CASE Dotted(c.n) /\ CallAt("again", ImportCall(Parent[c.n], c.sync)) /\ UNCHANGED <<cache, sysmods, obj>>
  <2>1. PICK h, d : h = [c EXCEPT !.pc = "again"] /\ d = ImportCall(Parent[c.n], c.sync)
    OBVIOUS
  <2>2. CallFrom(h, d) /\ Store' = Store
    BY <1>3, <1>6, <2>1, StoreKept DEF CallAt
  <2>3. h \in ImportType /\ h.pc = "again" /\ h.depth = c.depth /\ h.existing = c.existing
    BY <1>3, <2>1 DEF ImportType
  <2>4. d \in CallType /\ d.op = "import" /\ Starts(d)
    <3>1. Parent[c.n] \in Names
      BY <1>4, <1>6, ParentName
    <3>2. PICK m, y : m = Parent[c.n] /\ y = c.sync /\ m \in Names /\ y \in BOOLEAN
      BY <1>4, <3>1
    <3>3. d = ImportCall(m, y)
      BY <2>1, <3>2
    <3>. QED  BY <3>2, <3>3, ImportCallFacts
  <2>. QED  BY <1>1, <1>2, <2>2, <2>3, <2>4, RunsImports
<1>7. CASE ~ret.ok /\ FailImport
  <2>1. Len(bodies) = calls[1].depth
    BY <1>2, <1>3, <1>7 DEF HeadImport
  <2>. QED  BY <1>1, <1>7, <2>1, RunsFailImport
<1>. QED  BY <1>3, <1>5, <1>6, <1>7 DEF ImportLoaded

LEMMA ImportDrainedRuns ==
  ASSUME CoreInv, RNow, RunsNow, ImportDrained
  PROVE  RunsNow'
<1>1. UNCHANGED bodies
  BY DEF ImportDrained
<1>2. ~At("import", "rescued")
  BY ImportKnows DEF RImport
<1>3. At("import", "drained")
  BY <1>2 DEF ImportDrained
<1>4. CASE ret.ok /\ ReturnCanonical(Store, Head(calls).o)
  BY <1>1, <1>3, <1>4, RunsReturnCanonical
<1>5. CASE FailImport
  <2>1. HeadImport(Store.sys, bodies, calls[1], ret) /\ calls[1].pc = "drained"
    BY <1>3, ImportKnows
  <2>2. Len(bodies) = calls[1].depth
    BY <2>1 DEF HeadImport
  <2>. QED  BY <1>1, <1>3, <1>5, <2>2, RunsFailImport
<1>. QED  BY <1>2, <1>4, <1>5 DEF ImportDrained

LEMMA ImportAgainRuns ==
  ASSUME CoreInv, RNow, RunsNow, ImportAgain
  PROVE  RunsNow'
<1>1. UNCHANGED bodies /\ At("import", "again")
  BY DEF ImportAgain
<1>2. PICK c : c = calls[1]
  OBVIOUS
<1>3. /\ calls # <<>> /\ Head(calls) = c /\ c.op = "import" /\ c.pc = "again" /\ CallOK(Store, c)
      /\ RImport(Store, bodies, c) /\ HeadImport(Store.sys, bodies, c, ret)
  BY <1>1, <1>2, ImportKnows
<1>4. Len(bodies) = calls[1].depth /\ c.n \notin c.existing
  BY <1>2, <1>3 DEF HeadImport, RImport, CallOK
<1>5. CASE Fail /\ UNCHANGED <<cache, sysmods, obj>>
  <2>1. Store' = Store /\ calls' = Tail(calls)
    BY <1>5, StoreKept DEF Fail
  <2>2. \A k \in 1 .. Len(bodies) : ~FailsAt(calls, ret, k)
    BY <1>2, <1>3 DEF FailsAt
  <2>. QED  BY <1>1, <1>3, <2>1, <2>2, SelfKeeps, RunsReturn
<1>6. CASE FailImport
  BY <1>1, <1>4, <1>6, RunsFailImport
<1>. QED  BY <1>3, <1>4, <1>5, <1>6 DEF ImportAgain

(* load_module *)
LEMMA AddedKeeps ==
  ASSUME NEW s, NEW n, NEW t, AddedTo(s, n, t)
  PROVE  Keeps(s, t)
<1>1. \A i \in DOMAIN s.obj : t.obj[i].name = s.obj[i].name /\ t.obj[i].st = s.obj[i].st
  BY DEF AddedTo, Same
<1>2. \A m \in DOMAIN s.sys : m \in DOMAIN t.sys /\ t.sys[m] = s.sys[m]
  BY DEF AddedTo
<1>. QED  BY <1>1, <1>2 DEF Keeps

(* The source does not compile. *)
LEMMA BrokenRuns ==
  ASSUME CoreInv, RNow, RunsNow, Pruned(Store), calls # <<>>, calls[1].op = "load", calls[1].n \in Names,
         calls[1].n \notin DOMAIN Store.cache,
         NEW t, NEW u, IsCreated(Store, calls[1].n, t), IsRemoved(t, {calls[1].n}, u),
         SetStore(u), Fail, UNCHANGED bodies
  PROVE  RunsNow'
<1>1. PICK n : n = calls[1].n
  OBVIOUS
<1>2. AddedTo(Store, n, t)
  BY <1>1, LoadKnows, RFacts, CreatedIs
<1>3. Keeps(Store, t) /\ DOMAIN Store.obj \subseteq DOMAIN t.obj /\ n \notin DOMAIN Store.sys
  BY <1>1, <1>2, RFacts, SysObjects, AddedKeeps DEF AddedTo
<1>4. \A i \in DOMAIN t.obj : u.obj[i].name = t.obj[i].name /\ u.obj[i].st = t.obj[i].st
  BY DEF IsRemoved, SameBut
<1>5. \A m \in DOMAIN t.sys : m # n => m \in DOMAIN u.sys /\ u.sys[m] = t.sys[m]
  BY <1>1 DEF IsRemoved
<1>6. Keeps(Store, u)
  BY <1>3, <1>4, <1>5 DEF Keeps
<1>7. Store' = u
  BY StoreSet DEF IsRemoved, StoreOK
<1>8. calls' = Tail(calls) /\ \A k \in 1 .. Len(bodies) : ~FailsAt(calls, ret, k)
  BY DEF Fail, FailsAt
<1>. QED  BY <1>6, <1>7, <1>8, RunsReturn

(* The body is queued: no import below has run it. *)
LEMMA QueuedRuns ==
  ASSUME CoreInv, RNow, RunsNow, Pruned(Store), calls # <<>>, calls[1].op = "load", calls[1].n \in Names,
         calls[1].n \notin DOMAIN Store.cache,
         NEW u, IsQueued(Store, calls[1].n, u), SetStore(u),
         bodies' = Append(bodies, QueuedFrame(Len(Store.obj) + 1)), ReturnModule(Len(Store.obj) + 1)
  PROVE  RunsNow'
<1>1. PICK n, o, l, ds : n = calls[1].n /\ o = Len(Store.obj) + 1 /\ l = Len(bodies) /\ ds = Tail(calls)
  OBVIOUS
<1>2. PICK g : g = Append(bodies, QueuedFrame(o))
  OBVIOUS
<1>3. /\ Tame(Store, u) /\ FramesOK(u, g) /\ Len(g) = l + 1
      /\ g[l + 1] = QueuedFrame(o) /\ \A i \in 1 .. l : g[i] = bodies[i]
  BY <1>1, <1>2, RFacts, QueuedFacts
<1>4. AddedTo(Store, n, u)
  BY <1>1, LoadKnows, RFacts, QueuedIs
<1>5. Keeps(Store, u) /\ n \notin DOMAIN Store.sys /\ u.obj[o].name = n
  BY <1>1, <1>4, RFacts, SysObjects, AddedKeeps DEF AddedTo
<1>6. /\ StackOK(Store, l, calls) /\ StoreOK(Store) /\ FramesOK(Store, bodies) /\ l \in Nat \ {0}
      /\ Len(calls) \in Nat
  BY <1>1, RFacts, StackFacts
<1>7. \A k \in 1 .. l : ~FailsAt(calls, ret, k)
  BY DEF FailsAt
<1>8. \A k \in 1 .. l : Busy(bodies, calls, k) => HasRun(Store, bodies, k)
  BY <1>1, <1>7 DEF RunsNow, Runs
<1>9. NotRun(u, g)
  <2>1. SUFFICES ASSUME NEW i \in 2 .. l + 1, g[i].fresh PROVE NameAt(u, g, i) \notin g[i - 1].ran
    BY <1>3 DEF NotRun
  <2>2. CASE i = l + 1
    <3>1. i - 1 = l /\ l \in 1 .. l
      <4>1. l \in Nat \ {0}
        BY <1>6
      <4>. QED  BY SMTT(60), <2>2, <4>1
    <3>2. g[i - 1].ran = bodies[l].ran
      BY <1>3, <3>1
    <3>3. g[i].obj = o
      BY <1>3, <2>2 DEF QueuedFrame
    <3>4. NameAt(u, g, i) = n
      BY <1>5, <3>3 DEF NameAt
    <3>5. Busy(bodies, calls, l)
      BY <1>1, BusyHere, LoadKnows
    <3>6. HasRun(Store, bodies, l)
      BY <1>8, <3>1, <3>5
    <3>. QED  BY <1>5, <3>2, <3>4, <3>6 DEF HasRun
  <2>3. CASE i \in 2 .. l
    <3>1. i \in 1 .. l /\ i - 1 \in 1 .. l
      BY <1>6, <2>3
    <3>2. g[i] = bodies[i] /\ g[i - 1] = bodies[i - 1]
      BY <1>3, <3>1
    <3>3. NameAt(u, g, i) = NameAt(Store, bodies, i)
      <4>1. bodies[i].obj \in DOMAIN Store.obj
        BY <1>1, <1>6, <2>3, FrameObjects
      <4>. QED  BY <1>5, <3>2, <4>1 DEF NameAt, Keeps
    <3>. QED  BY <1>1, <2>1, <2>3, <3>2, <3>3 DEF RunsNow, Runs, NotRun
  <2>. QED  BY <1>6, <2>2, <2>3
<1>10. ASSUME NEW k \in 1 .. l, Busy(g, ds, k) PROVE Busy(bodies, calls, k)
  <2>1. Busy(bodies, ds, k)
    BY <1>3, <1>10 DEF Busy
  <2>. QED  BY <1>1, <1>6, <2>1, BusyTail
<1>11. ~Busy(g, ds, l + 1)
  <2>1. g[l + 1].again = NoInstr
    BY <1>3 DEF QueuedFrame
  <2>2. ASSUME NEW i \in 1 .. Len(ds), Waits(ds[i]) PROVE Level(ds[i]) # l + 1
    <3>1. StackOK(Store, l, ds)
      BY <1>1, <1>6, StackPop
    <3>2. Level(ds[i]) \in 1 .. l
      BY <2>2, <3>1 DEF StackOK
    <3>. QED  BY <1>6, <3>2
  <2>. QED  BY <2>1, <2>2 DEF Busy
<1>12. ASSUME NEW k \in 1 .. l + 1, Busy(g, ds, k) PROVE HasRun(u, g, k)
  <2>1. k \in 1 .. l
    BY <1>6, <1>11, <1>12
  <2>2. HasRun(Store, bodies, k) /\ g[k].ran = bodies[k].ran
    BY <1>3, <1>8, <1>10, <1>12, <2>1
  <2>. QED  BY <1>5, <1>6, <2>2, HasRunKept
<1>13. ASSUME NEW i \in 1 .. Len(ds) PROVE Noted(g, ds, ds[i])
  <2>1. PICK m : m = Len(calls)
    OBVIOUS
  <2>2. m \in Nat /\ Len(ds) = m - 1 /\ \A j \in 1 .. m - 1 : ds[j] = calls[j + 1]
    BY <1>1, <1>6, <2>1, StackFacts
  <2>3. i + 1 \in 1 .. m /\ ds[i] = calls[i + 1]
    BY <1>13, <2>2
  <2>4. Noted(bodies, calls, calls[i + 1])
    BY <2>1, <2>3 DEF RunsNow, Runs
  <2>5. SUFFICES ASSUME ds[i].op = "import", ds[i].pc # "start", NEW k \in 1 .. ds[i].depth - 1, Busy(g, ds, k)
                 PROVE  g[k].ran \subseteq ds[i].existing
    BY DEF Noted
  <2>6. PICK d : d = ds[i].depth
    OBVIOUS
  <2>7. d \in 1 .. l
    BY <1>6, <2>1, <2>3, <2>5, <2>6, DepthKnown
  <2>8. k \in 1 .. l
    BY <1>6, <2>5, <2>6, <2>7
  <2>. QED  BY <1>3, <1>10, <2>3, <2>4, <2>5, <2>8 DEF Noted
<1>14. Runs(u, g, ds, OkRet(o))
  BY <1>3, <1>9, <1>12, <1>13 DEF Runs
<1>15. Store' = u
  BY <1>3, StoreSet DEF Tame, StoreOK
<1>16. bodies' = g /\ calls' = ds /\ ret' = OkRet(o)
  BY <1>1, <1>2 DEF ReturnModule, OkRet
<1>. QED  BY <1>14, <1>15, <1>16 DEF RunsNow

LEMMA LoadStartRuns ==
  ASSUME CoreInv, RNow, RunsNow, Regular, LoadStart
  PROVE  RunsNow'
<1>1. /\ calls # <<>> /\ Head(calls) = calls[1] /\ calls[1] \in LoadType
      /\ calls[1].op = "load" /\ PrunedIf(prog, Store)
  BY AtLoad DEF LoadStart
<1>2. PICK n : n = calls[1].n
  OBVIOUS
<1>3. n \in Names /\ Pruned(Store)
  BY <1>1, <1>2, RegularPruned DEF LoadType
<1>4. Store.cache = cache
  BY StoreIs
<1>5. \A k \in 1 .. Len(bodies) : ~FailsAt(calls, ret, k)
  BY <1>1 DEF FailsAt
<1>6. ASSUME Store' = Store, calls' = Tail(calls), UNCHANGED bodies PROVE RunsNow'
  BY <1>1, <1>5, <1>6, SelfKeeps, RunsReturn
<1>7. CASE n \in DOMAIN cache
  <2>1. ~NeedsLoad(Store, n)
    BY <1>4, <1>7, RFacts, NeedsLoadIs
  <2>2. ReturnModule(cache[n]) /\ UNCHANGED <<cache, sysmods, obj, bodies>>
    BY <1>1, <1>2, <2>1 DEF LoadStart
  <2>. QED  BY <1>6, <2>2, StoreKept DEF ReturnModule
<1>8. CASE n \notin DOMAIN cache
  <2>1. Dotted(n) => ~NeedsLoad(Store, Parent[n])
    BY <1>1, <1>2, LoadKnows, RFacts, SysObjects, NeedsLoadIs DEF ParentIn
  <2>2. NeedsLoad(Store, n)
    BY <1>4, <1>8, RFacts, NeedsLoadIs
  <2>3. CreateAndQueue(Store, n)
    BY <1>1, <1>2, <1>8, <2>1, <2>2 DEF LoadStart, Has
  <2>4. CASE SetStore(Store) /\ Fail /\ UNCHANGED bodies
    BY <1>6, <2>4, StoreSet, RFacts DEF StoreOK, Fail
  <2>5. CASE /\ \E t, u : IsCreated(Store, n, t) /\ IsRemoved(t, {n}, u) /\ SetStore(u)
             /\ Fail /\ UNCHANGED bodies
    BY <1>1, <1>2, <1>3, <1>4, <1>8, <2>5, BrokenRuns
  <2>6. CASE /\ \E u : IsQueued(Store, n, u) /\ SetStore(u)
             /\ bodies' = Append(bodies, QueuedFrame(Len(Store.obj) + 1)) /\ ReturnModule(Len(Store.obj) + 1)
    BY <1>1, <1>2, <1>3, <1>4, <1>8, <2>6, QueuedRuns
  <2>. QED  BY <1>3, <2>3, <2>4, <2>5, <2>6, RFacts, CreateAndQueueIs
<1>. QED  BY <1>7, <1>8

LEMMA EndDrainRuns ==
  ASSUME CoreInv, RNow, RunsNow, EndDrain
  PROVE  RunsNow'
<1>1. /\ calls # <<>> /\ Head(calls) = calls[1] /\ calls[1].op = "run"
      /\ calls' = Tail(calls) /\ UNCHANGED <<cache, sysmods, obj, bodies>>
  BY RFacts, StackFacts DEF EndDrain
<1>2. \A k \in 1 .. Len(bodies) : ~FailsAt(calls, ret, k)
  BY <1>1 DEF FailsAt
<1>. QED  BY <1>1, <1>2, StoreKept, SelfKeeps, RunsReturn

(* The instructions *)

Advances == RNow' /\ (RunsNow => RunsNow')

(* While bytecode runs, native calls wait in the program's own frame. *)
LEMMA LowNoted ==
  ASSUME NEW s, NEW lim, NEW cs, StackOK(s, lim, cs), NEW t, NEW fr, RCalls(t, fr, cs), Idle(cs),
         NEW g, NEW ds, NEW i \in 1 .. Len(cs)
  PROVE  Noted(g, ds, cs[i])
<1>1. Waits(cs[i]) /\ Level(cs[i]) = 1
  BY AllLow
<1>2. cs[i].op = "import" => cs[i].depth = 1
  BY <1>1 DEF Level
<1>3. ~(\E k \in 1 .. 1 - 1 : TRUE)
  OBVIOUS
<1>. QED  BY <1>2, <1>3 DEF Noted

LEMMA LowBusy ==
  ASSUME NEW s, NEW lim, NEW cs, StackOK(s, lim, cs), NEW t, NEW fr, RCalls(t, fr, cs), Idle(cs),
         NEW g, NEW k, Busy(g, cs, k)
  PROVE  g[k].again # NoInstr \/ (k = 1 /\ cs # <<>>)
<1>1. SUFFICES ASSUME NEW i \in 1 .. Len(cs), Level(cs[i]) = k PROVE k = 1 /\ cs # <<>>
  BY DEF Busy
<1>2. Level(cs[i]) = 1
  BY AllLow
<1>3. cs # <<>>
  <2>1. Len(cs) \in Nat /\ Len(cs) # 0
    BY <1>1, StackFacts
  <2>. QED  BY <2>1
<1>. QED  BY <1>1, <1>2, <1>3

(* An instruction ends. *)
LEMMA RunsLeave ==
  ASSUME CoreInv, RNow, RunsNow, NEW pc, At("instr", pc), calls[1].op = "instr", Waits(calls[1]),
         Level(calls[1]) = calls[1].who, calls # <<>>,
         ret.ok, NEW t, Calm(Store, t), Store' = t, NEW g, bodies' = g, Edited(bodies, calls[1].who, g),
         g[calls[1].who].ran = bodies[calls[1].who].ran, g[calls[1].who].fresh = bodies[calls[1].who].fresh,
         calls' = Tail(calls), ret' = NoRet
  PROVE  RunsNow'
<1>1. PICK w : w = calls[1].who
  OBVIOUS
<1>2. Busy(bodies, calls, w) /\ w \in 1 .. Len(bodies)
  BY <1>1, BusyHere
<1>3. FewerFrames(bodies, calls, g, Tail(calls))
  <2>1. Len(g) = Len(bodies) /\ Len(bodies) \in Nat \ {0}
    BY RFacts DEF Edited
  <2>2. ASSUME NEW k \in 1 .. Len(g)
        PROVE  /\ g[k].obj = bodies[k].obj /\ g[k].ran = bodies[k].ran /\ (g[k].fresh => bodies[k].fresh)
               /\ Busy(g, Tail(calls), k) => Busy(bodies, calls, k)
    <3>1. CASE k = w
      BY <1>1, <1>2, <3>1 DEF Edited
    <3>2. CASE k # w
      <4>1. k \in 1 .. Len(bodies)
        BY <2>1
      <4>2. g[k] = bodies[k]
        BY <1>1, <3>2, <4>1 DEF Edited
      <4>3. Busy(g, Tail(calls), k) => Busy(bodies, Tail(calls), k)
        BY <4>2 DEF Busy
      <4>4. StackOK(Store, Len(bodies), calls)
        BY RFacts
      <4>. QED  BY <4>2, <4>3, <4>4, BusyTail
    <3>. QED  BY <3>1, <3>2
  <2>. QED  BY <2>1, <2>2 DEF FewerFrames
<1>4. \A k \in 1 .. Len(bodies) : ~FailsAt(calls, ret, k)
  BY DEF FailsAt
<1>5. Keeps(Store, t) /\ Len(g) = Len(bodies)
  BY CalmKeeps DEF Edited
<1>. QED  BY <1>3, <1>4, <1>5, RunsBack

(* An instruction calls an import. *)
LEMMA RunsInstrCalls ==
  ASSUME CoreInv, RNow, RunsNow, NEW pc, At("instr", pc), calls # <<>>, calls[1].op = "instr", calls[1].pc = pc,
         Waits(calls[1]), Level(calls[1]) = calls[1].who, ret.ok \/ pc = "start",
         Calm(Store, Store'), UNCHANGED bodies, NEW h \in InstrType, h.who = calls[1].who,
         NEW n \in Names, NEW b \in BOOLEAN, CallFrom(h, ImportCall(n, b))
  PROVE  RunsNow'
<1>1. PICK c : c = ImportCall(n, b)
  OBVIOUS
<1>2. c \in CallType /\ c.op = "import" /\ Starts(c) /\ CallFrom(h, c)
  BY <1>1, ImportCallFacts
<1>3. h.op = "instr" /\ h \in CallType /\ Level(h) = calls[1].who /\ Waits(h)
  BY DEF InstrType, CallType, Level, Waits
<1>4. Busy(bodies, calls, Level(h)) /\ Level(h) \in 1 .. Len(bodies)
  BY <1>3, BusyHere
<1>5. NoneFails
  BY DEF NoneFails, FailsAt
<1>6. Noted(bodies, calls, h)
  BY <1>3 DEF Noted
<1>7. Keeps(Store, Store')
  BY CalmKeeps
<1>. QED  BY <1>2, <1>3, <1>4, <1>5, <1>6, <1>7, RunsCall

(* The import instructions *)

(* What an instruction in progress knows. *)
LEMMA InstrKnows ==
  ASSUME CoreInv, RNow, NEW pc, At("instr", pc)
  PROVE  /\ calls # <<>> /\ Here = calls[1] /\ Head(calls) = calls[1] /\ calls[1] \in InstrType
         /\ calls[1] \in CallType /\ calls[1].op = "instr" /\ calls[1].pc = pc /\ Waits(calls[1])
         /\ CallOK(Store, calls[1]) /\ calls[1].i \in Instr /\ Level(calls[1]) = calls[1].who
         /\ calls[1].who \in 1 .. Len(bodies) /\ RInstr(bodies, calls[1])
         /\ HeadInstr(Store.sys, Len(bodies), calls[1], ret) /\ Idle(Tail(calls))
         /\ (NoRun(calls) \/ calls[1].who >= 2)
<1>1. /\ calls # <<>> /\ Here = calls[1] /\ Head(calls) = calls[1] /\ calls[1] \in InstrType
      /\ calls[1] \in CallType /\ calls[1].op = "instr" /\ calls[1].pc = pc /\ Waits(calls[1])
      /\ CallOK(Store, calls[1]) /\ Level(calls[1]) = calls[1].who
      /\ calls[1].who \in 1 .. Len(bodies)
  BY AtInstr
<1>2. calls[1].i \in Instr
  BY <1>1 DEF InstrType
<1>3. RCall(Store, bodies, calls[1])
  BY <1>1, RFacts, StackFacts DEF RCalls
<1>4. RInstr(bodies, calls[1])
  BY <1>1, <1>3 DEF RCall
<1>5. HeadInstr(Store.sys, Len(bodies), calls[1], ret)
  BY <1>1, RFacts DEF RHead
<1>6. Idle(Tail(calls))
  <2>1. Tail(calls) # <<>> => CalledBy(calls[1], Tail(calls)[1])
    BY <1>1, RFacts, StackPop
  <2>2. CalledBy(calls[1], Tail(calls)[1]) => Tail(calls)[1].op = "run"
    BY <1>1 DEF CalledBy
  <2>. QED  BY <2>1, <2>2 DEF Idle
<1>7. NoRun(calls) \/ calls[1].who >= 2
  BY <1>1, LevelDeep
<1>. QED  BY <1>1, <1>2, <1>4, <1>5, <1>6, <1>7

LEMMA CalmFramesOK ==
  ASSUME NEW s, NEW fr, FramesOK(s, fr), NEW t, Calm(s, t)
  PROVE  FramesOK(t, fr)
BY DEF FramesOK, Calm, Same

(* The instruction leaves the frame that executed it with its result, or    *)
(* with itself to repeat.                                                   *)
LEMMA RLeave ==
  ASSUME CoreInv, RNow, NEW pc, At("instr", pc), NEW t, Calm(Store, t), Store' = t,
         NEW g, bodies' = g, Edited(bodies, calls[1].who, g),
         calls[1].who >= 2 => ~g[calls[1].who].fresh, AgainOK(g[calls[1].who]),
         g[calls[1].who].got \subseteq DOMAIN Store.obj,
         \A o \in g[calls[1].who].got : Complete(Store, bodies, calls[1].who, o),
         calls' = Tail(calls), ret' = NoRet
  PROVE  RNow'
<1>1. PICK w : w = calls[1].who
  OBVIOUS
<1>2. /\ w \in 1 .. Len(bodies) /\ RInstr(bodies, calls[1]) /\ Idle(Tail(calls)) /\ calls # <<>>
      /\ (NoRun(calls) \/ w >= 2)
  BY <1>1, InstrKnows
<1>3. RStore(t) /\ RFrames(t, bodies) /\ t.sys = Store.sys
  BY CalmAll DEF Calm
<1>4. FramesOK(t, bodies)
  BY RFacts, CalmFramesOK
<1>5. w >= 2 => ~bodies[w].fresh
  BY <1>1, <1>2 DEF RInstr, BodyBegun
<1>6. \A o \in g[w].got : Complete(t, bodies, w, o)
  <2>1. \A o \in DOMAIN Store.obj : t.obj[o].st = Store.obj[o].st
    BY DEF Calm, Same
  <2>. QED  BY <1>1, <2>1 DEF Complete
<1>7. RFrames(t, g)
  <2>1. w >= 2 => (g[w].fresh <=> bodies[w].fresh)
    <3>1. SUFFICES ASSUME w >= 2 PROVE g[w].fresh <=> bodies[w].fresh
      OBVIOUS
    <3>2. ~g[w].fresh /\ ~bodies[w].fresh
      BY <1>1, <1>5, <3>1
    <3>. QED  BY <3>2
  <2>2. w >= 2 /\ g[w].fresh => g[w].again = NoInstr /\ ~g[w].guard
    BY <1>1
  <2>. QED  BY <1>1, <1>2, <1>3, <1>4, <1>6, <2>1, <2>2, FramesEdited
<1>8. RCalls(Store, bodies, Tail(calls))
  BY <1>2, RFacts, RCallsTail
<1>9. StackOK(Store, Len(bodies), Tail(calls))
  BY <1>2, RFacts, StackPop
<1>10. LowKept(Store, bodies, t, g, Tail(calls))
  <2>1. SUFFICES ASSUME Tail(calls) # <<>>
                 PROVE  /\ g[1].again = bodies[1].again /\ (bodies[1].got = {} => g[1].got = {})
                        /\ Drained(Store, bodies, Tail(calls)[2]) => Drained(t, g, Tail(calls)[2])
    BY DEF LowKept
  <2>2. Tail(calls)[1].op = "run"
    BY <1>2, <2>1 DEF Idle
  <2>3. ~NoRun(calls)
    <3>1. Len(Tail(calls)) \in Nat /\ Len(Tail(calls)) # 0
      <4>1. Tail(calls) \in Seq(CallType)
        BY <1>2, RFacts, StackFacts
      <4>. QED  BY <2>1, <4>1, LenProperties, EmptySeq
    <3>2. Len(calls) \in Nat /\ Len(Tail(calls)) = Len(calls) - 1
          /\ \A i \in 1 .. Len(calls) - 1 : Tail(calls)[i] = calls[i + 1]
      BY <1>2, RFacts, StackFacts
    <3>3. 1 \in 1 .. Len(calls) - 1 /\ 2 \in 1 .. Len(calls)
      <4>1. \A a, b \in Nat : b # 0 /\ b = a - 1 => 1 \in 1 .. a - 1 /\ 2 \in 1 .. a
        OBVIOUS
      <4>. QED  BY <3>1, <3>2, <4>1
    <3>4. calls[2].op = "run"
      BY <2>2, <3>2, <3>3
    <3>. QED  BY <3>3, <3>4 DEF NoRun
  <2>4. w >= 2 /\ w # 1 /\ Len(bodies) >= 2 /\ 1 \in 1 .. Len(bodies) /\ 2 \in 1 .. Len(bodies)
    BY <1>2, <2>3, RFacts
  <2>5. g[1] = bodies[1] /\ Len(g) = Len(bodies) /\ g[2].obj = bodies[2].obj
    BY <1>1, <2>4 DEF Edited
  <2>. QED  BY <1>3, <2>5 DEF Drained
<1>11. RCalls(t, g, Tail(calls))
  BY <1>2, <1>8, <1>9, <1>10, RCallsLow
<1>12. RHead(t.sys, g, Tail(calls), NoRet)
  BY <1>2, HeadIdle
<1>13. RAll(t, g, Tail(calls), NoRet)
  BY <1>3, <1>7, <1>11, <1>12 DEF RAll
<1>. QED  BY <1>13 DEF RNow

LEMMA RLeaves ==
  ASSUME CoreInv, RNow, NEW pc, At("instr", pc), ret.ok, NEW t, Calm(Store, t), Store' = t,
         NEW g, bodies' = g, Edited(bodies, calls[1].who, g),
         g[calls[1].who].ran = bodies[calls[1].who].ran, g[calls[1].who].fresh = bodies[calls[1].who].fresh,
         AgainOK(g[calls[1].who]), g[calls[1].who].got \subseteq DOMAIN Store.obj,
         \A o \in g[calls[1].who].got : Complete(Store, bodies, calls[1].who, o),
         calls' = Tail(calls), ret' = NoRet
  PROVE  Advances
<1>1. calls[1].who >= 2 => ~g[calls[1].who].fresh
  BY InstrKnows DEF RInstr, BodyBegun
<1>2. RNow'
  BY <1>1, RLeave
<1>3. ASSUME RunsNow PROVE RunsNow'
  BY <1>3, InstrKnows, RunsLeave
<1>. QED  BY <1>2, <1>3 DEF Advances

(* Setting the mark that a body has bound something. *)
BoundFlag(s, o) == [s EXCEPT !.obj[o].bound = TRUE]

LEMMA BoundFlagCalm ==
  ASSUME NEW s, StoreOK(s), NEW o \in DOMAIN s.obj, NEW t, t = BoundFlag(s, o)
  PROVE  Calm(s, t) /\ t \in StoreType
<1>1. PICK m : m = [s.obj[o] EXCEPT !.bound = TRUE]
  OBVIOUS
<1>2. s.obj[o] \in Mod /\ s \in StoreType
  BY ObjDomain DEF StoreOK
<1>3. m \in Mod /\ SameNames(m, s.obj[o]) /\ m.init = s.obj[o].init /\ m.st = s.obj[o].st
  BY <1>1, <1>2 DEF Mod, SameNames
<1>4. t = SetFlags(s, o, m)
  BY <1>1, <1>2 DEF SetFlags, StoreType, BoundFlag
<1>5. FlagsSet(s, o, m, t)
  BY <1>3, <1>4, FlagsIs
<1>6. IsMarked(s, t) /\ StoreOK(t)
  BY <1>5, MarkedOK DEF FlagsSet
<1>7. t.sys = s.sys /\ t.cache = s.cache /\ DOMAIN t.obj = DOMAIN s.obj
  BY <1>6, ObjDomain DEF IsMarked
<1>8. \A i \in DOMAIN s.obj : Same(t.obj[i], s.obj[i]) /\ t.obj[i].kids = s.obj[i].kids
  BY <1>3, <1>5 DEF FlagsSet, SameNames, Same
<1>9. Calm(s, t)
  BY SMTT(60), <1>7, <1>8 DEF Calm, Answered
<1>. QED  BY <1>6, <1>9 DEF StoreOK

LEMMA RBind ==
  ASSUME CoreInv, RNow, NEW pc, At("instr", pc), NEW s, StoreOK(s), Calm(Store, s),
         NEW got, got \subseteq DOMAIN Store.obj,
         \A o \in got : Complete(Store, bodies, calls[1].who, o), ret.ok, Bind(s, got)
  PROVE  Advances
<1>1. PICK w : w = calls[1].who
  OBVIOUS
<1>2. Here = calls[1] /\ w \in 1 .. Len(bodies) /\ RInstr(bodies, calls[1])
  BY <1>1, InstrKnows
<1>3. PICK t : t = IF w = 1 THEN s ELSE BoundFlag(s, bodies[w].obj)
  BY ZenonT(60)
<1>4. /\ SetStore(t) /\ bodies' = [bodies EXCEPT ![w].got = got] /\ calls' = Tail(calls) /\ ret' = NoRet
  BY <1>1, <1>2, <1>3 DEF Bind, BoundFlag
<1>5. Calm(Store, t) /\ t \in StoreType
  <2>1. CASE w = 1
    BY <1>3, <2>1 DEF StoreOK
  <2>2. CASE w # 1
    <3>1. w \in 2 .. Len(bodies)
      BY <1>2, <2>2, RFacts
    <3>2. bodies[w].obj \in DOMAIN s.obj
      BY <3>1, RFacts, FrameObjects DEF Calm
    <3>3. Calm(s, t) /\ t \in StoreType
      BY <1>3, <2>2, <3>2, BoundFlagCalm
    <3>. QED  BY <3>3, CalmTwice
  <2>. QED  BY <2>1, <2>2
<1>6. Store' = t
  BY <1>4, <1>5, StoreSet
<1>7. PICK g : g = [bodies EXCEPT ![w].got = got]
  OBVIOUS
<1>8. /\ Len(g) = Len(bodies) /\ \A i \in 1 .. Len(bodies) : i # w => g[i] = bodies[i]
      /\ g[w] = [bodies[w] EXCEPT !.got = got]
  <2>1. bodies \in Seq(FrameType)
    BY RFacts, FramesFacts
  <2>. QED  BY <1>2, <1>7, <2>1
<1>9. bodies[w] \in FrameType
  BY <1>2, RFacts, FramesFacts
<1>10. /\ g[w].obj = bodies[w].obj /\ g[w].got = got /\ g[w].again = bodies[w].again
       /\ g[w].fresh = bodies[w].fresh /\ g[w].ran = bodies[w].ran
  BY <1>8, <1>9 DEF FrameType
<1>11. Edited(bodies, w, g)
  BY <1>8, <1>10 DEF Edited
<1>12. bodies[w].again = NoInstr /\ (w >= 2 => ~bodies[w].fresh)
  BY <1>1, <1>2 DEF RInstr, BodyBegun
<1>13. AgainOK(g[w])
  BY SMTT(60), <1>10, <1>12 DEF AgainOK
<1>. QED  BY <1>1, <1>4, <1>5, <1>6, <1>7, <1>10, <1>11, <1>13, RLeaves

LEMMA RRepeat ==
  ASSUME CoreInv, RNow, NEW pc, At("instr", pc), NEW s, StoreOK(s), Calm(Store, s),
         calls[1].i.k \in ByStatement, ret.ok, Repeat(s)
  PROVE  Advances
<1>1. PICK w : w = calls[1].who
  OBVIOUS
<1>2. PICK i : i = calls[1].i
  OBVIOUS
<1>3. Here = calls[1] /\ w \in 1 .. Len(bodies) /\ RInstr(bodies, calls[1])
  BY <1>1, InstrKnows
<1>4. /\ SetStore(s) /\ bodies' = [bodies EXCEPT ![w].again = i] /\ calls' = Tail(calls) /\ ret' = NoRet
  BY <1>1, <1>2, <1>3 DEF Repeat
<1>5. Store' = s
  BY <1>4, StoreSet DEF StoreOK
<1>6. PICK g : g = [bodies EXCEPT ![w].again = i]
  OBVIOUS
<1>7. /\ Len(g) = Len(bodies) /\ \A j \in 1 .. Len(bodies) : j # w => g[j] = bodies[j]
      /\ g[w] = [bodies[w] EXCEPT !.again = i]
  <2>1. bodies \in Seq(FrameType)
    BY RFacts, FramesFacts
  <2>. QED  BY <1>3, <1>6, <2>1
<1>8. bodies[w] \in FrameType
  BY <1>3, RFacts, FramesFacts
<1>9. /\ g[w].obj = bodies[w].obj /\ g[w].got = bodies[w].got /\ g[w].again = i
      /\ g[w].fresh = bodies[w].fresh /\ g[w].ran = bodies[w].ran
  BY <1>7, <1>8 DEF FrameType
<1>10. Edited(bodies, w, g)
  BY <1>7, <1>9 DEF Edited
<1>11. bodies[w].got = {}
  BY <1>1, <1>3 DEF RInstr
<1>12. AgainOK(g[w]) /\ g[w].got = {}
  BY <1>2, <1>9, <1>11 DEF AgainOK
<1>13. g[w].got \subseteq DOMAIN Store.obj /\ \A o \in g[w].got : Complete(Store, bodies, w, o)
  BY <1>12
<1>. QED  BY <1>1, <1>4, <1>5, <1>6, <1>9, <1>10, <1>12, <1>13, RLeaves

(* What sys.modules has is complete for the code above whose frame at most  *)
(* one body is queued.                                                      *)
LEMMA EntryComplete ==
  ASSUME CoreInv, RNow, NEW w \in 1 .. Len(bodies), Len(bodies) = w \/ Len(bodies) = w + 1,
         NEW n \in DOMAIN Store.sys
  PROVE  Complete(Store, bodies, w, Store.sys[n]) /\ Store.sys[n] \in DOMAIN Store.obj
<1>1. PICK o : o = Store.sys[n]
  OBVIOUS
<1>2. o \in DOMAIN Store.obj
  BY <1>1, RFacts, SysObjects
<1>3. Store.obj[o].st = "done" \/ Store.obj[o].init
  BY <1>1, RFacts DEF RStore, REntries
<1>4. CASE Store.obj[o].init
  <2>1. PICK j \in 1 .. Len(bodies) : bodies[j].obj = o
    BY <1>2, <1>4, RFacts DEF FramesOK
  <2>2. j <= w + 1
    BY RFacts
  <2>. QED  BY <1>1, <1>2, <2>1, <2>2 DEF Complete
<1>. QED  BY <1>1, <1>2, <1>3, <1>4 DEF Complete

(* The instruction calls an import. *)
LEMMA RInstrCalls ==
  ASSUME CoreInv, RNow, NEW pc, At("instr", pc), Calm(Store, Store'), UNCHANGED bodies,
         NEW h \in InstrType, h.who = calls[1].who, h.i = calls[1].i, h.pc # "head",
         h.pc = "deferred" => h.i.k \in ByStatement,
         NEW n \in Names, NEW b \in BOOLEAN, CallFrom(h, ImportCall(n, b)),
         Len(bodies) = calls[1].who, b => calls[1].who = 1, ret.ok \/ pc = "start",
         ParentIn(Store.sys, n) \/ (calls[1].who = 1 /\ Free(h))
  PROVE  Advances
<1>1. PICK c : c = calls[1]
  OBVIOUS
<1>2. /\ calls # <<>> /\ c.op = "instr" /\ Waits(c) /\ Level(c) = c.who /\ RInstr(bodies, c)
      /\ (NoRun(calls) \/ c.who >= 2)
  BY <1>1, InstrKnows
<1>3. h.op = "instr" /\ h \in CallType /\ Level(h) = c.who
  BY <1>1 DEF InstrType, CallType, Level
<1>4. PICK d : d = ImportCall(n, b)
  OBVIOUS
<1>5. /\ d \in CallType /\ d.op = "import" /\ d.n = n /\ d.sync = b /\ d.pc = "start" /\ ~Waits(d)
  BY <1>4, ImportCallFacts
<1>6. RCall(Store', bodies, h)
  BY <1>1, <1>2, <1>3 DEF RCall, RInstr
<1>7. RLink(Store', bodies, h, calls[2])
  BY <1>3 DEF RLink
<1>8. Entering(Store.sys, bodies, d, h)
  <2>1. HeadStart(Store.sys, Len(bodies), d, h)
    BY <1>1, <1>3, <1>5 DEF HeadStart
  <2>. QED  BY <1>5, <2>1 DEF Entering
<1>9. CallFrom(h, d)
  BY <1>4
<1>10. NoRun(calls) \/ (Level(h) >= 2 /\ ~Waits(d))
  BY <1>2, <1>3, <1>5
<1>11. calls[1].op # "run" /\ h.op # "run"
  BY <1>1, <1>2, <1>3
<1>12. RNow'
  BY <1>2, <1>3, <1>5, <1>6, <1>7, <1>8, <1>9, <1>10, <1>11, RCallsInto
<1>13. ASSUME RunsNow PROVE RunsNow'
  BY <1>13, InstrKnows, RunsInstrCalls
<1>. QED  BY <1>12, <1>13 DEF Advances

(* The same, for a step that leaves the tables alone. *)
LEMMA RInstrImports ==
  ASSUME CoreInv, RNow, NEW p0, At("instr", p0), NEW pc \in {"deferred", "imported"},
         pc = "deferred" => calls[1].i.k \in ByStatement,
         NEW n \in Names, NEW b \in BOOLEAN, CallAt(pc, ImportCall(n, b)),
         UNCHANGED <<cache, sysmods, obj, bodies>>,
         Len(bodies) = calls[1].who, b => calls[1].who = 1, ret.ok \/ p0 = "start",
         ParentIn(Store.sys, n) \/ (calls[1].who = 1 /\ calls[1].i.k \in {"import_module", "resolve"})
  PROVE  Advances
<1>1. PICK h : h = [calls[1] EXCEPT !.pc = pc]
  OBVIOUS
<1>2. Head(calls) = calls[1] /\ calls[1] \in InstrType
  BY InstrKnows
<1>3. h \in InstrType /\ h.who = calls[1].who /\ h.i = calls[1].i /\ h.pc = pc /\ h.op = "instr"
  BY <1>1, <1>2 DEF InstrType
<1>4. CallFrom(h, ImportCall(n, b))
  BY <1>1, <1>2 DEF CallAt
<1>5. Calm(Store, Store')
  BY CalmSelf, StoreKept
<1>6. Free(h) <=> calls[1].i.k \in {"import_module", "resolve"}
  BY <1>3 DEF Free
<1>. QED  BY <1>3, <1>4, <1>5, <1>6, RInstrCalls

LEMMA InstrStartRegular ==
  ASSUME CoreInv, RNow, InstrStart
  PROVE  Advances
<1>1. At("instr", "start") /\ UNCHANGED <<cache, sysmods, obj, bodies>>
  BY DEF InstrStart
<1>2. PICK c, n, k : c = calls[1] /\ n = c.i.n /\ k = c.i.k
  OBVIOUS
<1>3. /\ Here = c /\ c.i \in Instr /\ c.pc = "start" /\ RInstr(bodies, c) /\ c.who \in 1 .. Len(bodies)
      /\ HeadInstr(Store.sys, Len(bodies), c, ret)
  BY <1>1, <1>2, InstrKnows
<1>4. n \in Names /\ k \in {"stmt", "from", "dunder", "import_module", "resolve"} /\ k # "dunder"
      /\ Len(bodies) = c.who /\ (c.who > 1 => k \in ByStatement)
  BY <1>2, <1>3 DEF Instr, Kinds, RInstr, Allowed, HeadInstr
<1>5. k \notin ByStatement => c.who = 1 /\ k \in {"import_module", "resolve"}
  BY <1>3, <1>4, RFacts DEF ByStatement
<1>6. CASE /\ k \in {"stmt", "from"} /\ Dotted(n) /\ NeedsLoad(Store, Parent[n])
           /\ CallAt("deferred", ImportCall(Parent[n], FALSE))
  <2>1. PICK m : m = Parent[n] /\ m \in Names /\ ~Dotted(m)
    BY <1>4, <1>6, ParentName
  <2>2. CallAt("deferred", ImportCall(m, FALSE)) /\ k \in ByStatement /\ ParentIn(Store.sys, m)
    BY <1>6, <2>1 DEF ByStatement, ParentIn
  <2>. QED  BY <1>1, <1>2, <1>4, <2>1, <2>2, RInstrImports
<1>7. CASE /\ k \in {"stmt", "from"} /\ Dotted(n) => ~NeedsLoad(Store, Parent[n])
           /\ CallAt("imported", ImportCall(n, k = "resolve"))
  <2>1. PICK b \in BOOLEAN : b = (k = "resolve")
    OBVIOUS
  <2>2. CallAt("imported", ImportCall(n, b))
    BY <1>7, <2>1
  <2>3. b => c.who = 1
    BY <1>5, <2>1 DEF ByStatement
  <2>4. ParentIn(Store.sys, n) \/ (c.who = 1 /\ k \in {"import_module", "resolve"})
    <3>1. CASE k \in ByStatement /\ Dotted(n)
      <4>1. ~NeedsLoad(Store, Parent[n])
        BY <1>7, <3>1 DEF ByStatement
      <4>2. Parent[n] \in DOMAIN cache
        BY <4>1, RFacts, NeedsLoadIs, StoreIs
      <4>3. Parent[n] \in DOMAIN sysmods
        BY <1>4, <3>1, <4>2, ParentKnown, CachedIn
      <4>. QED  BY <4>3, StoreIs DEF ParentIn
    <3>2. CASE ~Dotted(n)
      BY <3>2 DEF ParentIn
    <3>. QED  BY <1>5, <3>1, <3>2
  <2>. QED  BY <1>1, <1>2, <1>4, <2>2, <2>3, <2>4, RInstrImports
<1>. QED  BY <1>2, <1>3, <1>4, <1>6, <1>7 DEF InstrStart

(* What the instruction got from an import that answers with o for n. *)
LEMMA RInstrGot ==
  ASSUME CoreInv, RNow, NEW pc, At("instr", pc), NEW n, NEW o, Answered(Store.sys, o, n)
  PROVE  Complete(Store, bodies, calls[1].who, o) /\ o \in DOMAIN Store.obj /\ n \in Names /\ o = Store.sys[n]
         /\ n \in DOMAIN Store.sys /\ Store.obj[o].name = n
<1>1. PICK w : w = calls[1].who
  OBVIOUS
<1>2. w \in 1 .. Len(bodies) /\ (Len(bodies) = w \/ Len(bodies) = w + 1)
  BY <1>1, InstrKnows DEF HeadInstr
<1>3. n \in DOMAIN Store.sys /\ o = Store.sys[n]
  BY DEF Answered
<1>. QED  BY <1>1, <1>2, <1>3, EntryComplete, RFacts, SysObjects

LEMMA RBindOne ==
  ASSUME CoreInv, RNow, NEW pc, At("instr", pc), NEW s, StoreOK(s), Calm(Store, s),
         NEW n, NEW o, Answered(Store.sys, o, n), ret.ok, Bind(s, {o})
  PROVE  Advances
BY RInstrGot, RBind

LEMMA StoreCalm ==
  ASSUME CoreInv
  PROVE  StoreOK(Store) /\ Calm(Store, Store)
BY CoreFacts, CalmSelf

(* A package gets for an attribute what sys.modules has. *)
LEMMA BoundCalm ==
  ASSUME NEW s, StoreOK(s), NEW p, NEW n, NEW o, NEW t, IsBoundIn(s, p, n, o, t), Answered(s.sys, o, n)
  PROVE  Calm(s, t) /\ StoreOK(t)
<1>1. DOMAIN t.obj = DOMAIN s.obj /\ StoreOK(t)
  BY ObjDomain DEF IsBoundIn
<1>2. \A i \in DOMAIN s.obj : Same(t.obj[i], s.obj[i])
  BY DEF IsBoundIn, SameBut, Same
<1>3. ASSUME NEW i \in DOMAIN s.obj, NEW m \in DOMAIN t.obj[i].kids
      PROVE  Answered(s.obj[i].kids, t.obj[i].kids[m], m) \/ Answered(s.sys, t.obj[i].kids[m], m)
  <2>1. CASE i # p
    BY <1>3, <2>1 DEF IsBoundIn, Answered
  <2>2. CASE i = p
    <3>1. IsPut(s.obj[p].kids, n, o, t.obj[p].kids)
      BY DEF IsBoundIn
    <3>. QED  BY <1>3, <2>2, <3>1 DEF IsPut, Answered
  <2>. QED  BY <2>1, <2>2
<1>. QED  BY <1>1, <1>2, <1>3 DEF Calm, IsBoundIn

LEMMA BindPlainRegular ==
  ASSUME CoreInv, RNow, NEW pc, At("instr", pc), NEW o, Answered(Store.sys, o, calls[1].i.n),
         ParentIn(Store.sys, calls[1].i.n), ret.ok, BindPlain(o)
  PROVE  Advances
<1>1. PICK n : n = calls[1].i.n
  OBVIOUS
<1>2. Here = calls[1] /\ o \in DOMAIN Store.obj /\ n \in Names
  BY <1>1, InstrKnows, RInstrGot
<1>3. PICK s : s = LinkModuleChain(Store, n, o)
  OBVIOUS
<1>4. IsLinked(Store, n, o, s)
  BY <1>2, <1>3, RFacts, LinkIs
<1>5. CASE ~Dotted(n)
  <2>1. s = Store
    BY <1>4, <1>5 DEF IsLinked
  <2>2. Bind(Store, {o})
    BY <1>1, <1>2, <1>3, <1>5, <2>1 DEF BindPlain
  <2>. QED  BY <2>2, StoreCalm, RBindOne
<1>6. CASE Dotted(n)
  <2>1. PICK m : m = Parent[n]
    OBVIOUS
  <2>2. m \in DOMAIN Store.sys /\ m \in DOMAIN Store.cache /\ Store.sys[m] = Store.cache[m]
    BY <1>1, <1>6, <2>1, RFacts, SysNamed DEF ParentIn
  <2>3. IsBoundIn(Store, Store.cache[m], n, o, s)
    BY <1>4, <1>6, <2>1, <2>2 DEF IsLinked
  <2>4. Calm(Store, s) /\ StoreOK(s) /\ s.cache = Store.cache
    BY <1>1, <2>3, RFacts, BoundCalm DEF IsBoundIn
  <2>5. Bind(s, {o, Store.sys[m]})
    BY <1>1, <1>2, <1>3, <1>6, <2>1, <2>2, <2>4 DEF BindPlain
  <2>6. Answered(Store.sys, Store.sys[m], m)
    BY <2>2 DEF Answered
  <2>7. /\ {o, Store.sys[m]} \subseteq DOMAIN Store.obj
        /\ \A x \in {o, Store.sys[m]} : Complete(Store, bodies, calls[1].who, x)
    BY <1>1, <2>6, RInstrGot
  <2>. QED  BY <2>4, <2>5, <2>7, RBind
<1>. QED  BY <1>5, <1>6

(* Exceptions *)

(* The frames as an exception finds them, the top one's body under way. *)
Seen(fr, real) ==
  /\ Len(fr) = Len(real) /\ \A i \in 1 .. Len(real) : fr[i].obj = real[i].obj
  /\ \A i \in 1 .. Len(real) : i # Len(real) => fr[i] = real[i]
  /\ real[Len(real)].guard => BodyBegun(real, Len(real))

Handler(f, first) == [f EXCEPT !.guard = first, !.got = {}, !.again = NoInstr]

LEMMA HandlerIs ==
  ASSUME NEW f \in FrameType, NEW b
  PROVE  /\ Handler(f, b).obj = f.obj /\ Handler(f, b).got = {} /\ Handler(f, b).again = NoInstr
         /\ Handler(f, b).fresh = f.fresh
BY DEF Handler, FrameType

LEMMA ExceptIs ==
  ASSUME NEW S, NEW e \in Seq(S), NEW k \in 1 .. Len(e), NEW f
  PROVE  /\ Len([e EXCEPT ![k] = f]) = Len(e) /\ [e EXCEPT ![k] = f][k] = f
         /\ \A i \in 1 .. Len(e) : i # k => [e EXCEPT ![k] = f][i] = e[i]
<1>1. DOMAIN e = 1 .. Len(e) /\ Len(e) \in Nat
  BY LenProperties
<1>2. PICK g : g = [e EXCEPT ![k] = f]
  OBVIOUS
<1>3. DOMAIN g = 1 .. Len(e) /\ g[k] = f /\ \A i \in 1 .. Len(e) : i # k => g[i] = e[i]
  BY <1>1, <1>2
<1>4. g \in Seq(S \cup {f})
  <2>1. g \in [1 .. Len(e) -> S \cup {f}]
    <3>1. \A i \in 1 .. Len(e) : e[i] \in S
      BY ElementOfSeq
    <3>2. g = [i \in 1 .. Len(e) |-> IF i = k THEN f ELSE e[i]]
      BY <1>1, <1>2
    <3>. QED  BY <3>1, <3>2
  <2>. QED  BY <1>1, <2>1, SeqDef
<1>5. Len(g) = Len(e)
  BY <1>1, <1>3, <1>4, LenProperties
<1>. QED  BY <1>2, <1>3, <1>5

(* What the two ways of unwinding leave of the frames. *)
LEMMA HandledCut ==
  ASSUME NEW s, NEW fr, Seen(fr, bodies), AllBegun(fr), FramesOK(s, bodies), NEW k \in 1 .. Len(bodies),
         bodies[k].guard,
         NEW g, g = [SubSeq(bodies, 1, k) EXCEPT ![k] = Handler(SubSeq(bodies, 1, k)[k], k = 1)]
  PROVE  CutTo(fr, k, g)
<1>1. bodies \in Seq(FrameType) /\ Len(bodies) \in Nat \ {0} /\ bodies[k] \in FrameType
  BY FramesFacts
<1>2. PICK e : e = SubSeq(bodies, 1, k)
  OBVIOUS
<1>3. e \in Seq(FrameType) /\ Len(e) = k /\ \A i \in 1 .. k : e[i] = bodies[i]
  BY <1>1, <1>2, PrefixProperties
<1>4. k \in 1 .. k /\ DOMAIN e = 1 .. k
  BY <1>1, <1>3, LenProperties
<1>a. PICK f : f = Handler(e[k], k = 1)
  OBVIOUS
<1>b. g = [e EXCEPT ![k] = f]
  BY <1>2, <1>a
<1>5. Len(g) = k /\ g[k] = f /\ \A i \in 1 .. k : i # k => g[i] = bodies[i]
  <2>1. Len([e EXCEPT ![k] = f]) = Len(e) /\ [e EXCEPT ![k] = f][k] = f
        /\ \A i \in 1 .. k : i # k => [e EXCEPT ![k] = f][i] = e[i]
    BY <1>3, <1>4, ExceptIs
  <2>. QED  BY <1>3, <1>b, <2>1
<1>6. g[k].obj = bodies[k].obj /\ g[k].got = {} /\ g[k].again = NoInstr /\ g[k].fresh = bodies[k].fresh
  <2>1. e[k] = bodies[k]
    BY <1>3, <1>4
  <2>2. f.obj = bodies[k].obj /\ f.got = {} /\ f.again = NoInstr /\ f.fresh = bodies[k].fresh
    BY <1>1, <1>a, <2>1, HandlerIs
  <2>. QED  BY <1>5, <2>2
<1>7. k >= 2 => ~bodies[k].fresh
  <2>1. CASE k = Len(bodies)
    BY <2>1 DEF Seen, BodyBegun
  <2>2. CASE k # Len(bodies)
    <3>1. fr[k] = bodies[k]
      BY <2>2 DEF Seen
    <3>2. k >= 2 => k \in 2 .. Len(fr)
      BY <1>1 DEF Seen
    <3>. QED  BY <3>1, <3>2 DEF AllBegun
  <2>. QED  BY <2>1, <2>2
<1>8. \A i \in 1 .. k : i # k => i \in 1 .. Len(bodies) /\ i # Len(bodies)
  BY <1>1
<1>9. fr[k].obj = bodies[k].obj /\ \A i \in 1 .. k : i # k => fr[i] = bodies[i]
  BY <1>8 DEF Seen
<1>. QED  BY <1>5, <1>6, <1>7, <1>9 DEF CutTo, AgainOK

LEMMA HandledAgain ==
  ASSUME NEW s, FramesOK(s, bodies), NEW k \in 1 .. Len(bodies),
         NEW g, g = [SubSeq(bodies, 1, k) EXCEPT ![k] = Handler(SubSeq(bodies, 1, k)[k], k = 1)]
  PROVE  g[k].again = NoInstr
<1>1. bodies \in Seq(FrameType) /\ Len(bodies) \in Nat \ {0} /\ bodies[k] \in FrameType
  BY FramesFacts
<1>2. PICK e : e = SubSeq(bodies, 1, k)
  OBVIOUS
<1>3. e \in Seq(FrameType) /\ Len(e) = k /\ e[k] = bodies[k]
  BY <1>1, <1>2, PrefixProperties
<1>4. PICK f : f = Handler(e[k], k = 1)
  OBVIOUS
<1>5. g = [e EXCEPT ![k] = f] /\ k \in 1 .. Len(e)
  BY <1>2, <1>3, <1>4
<1>6. [e EXCEPT ![k] = f][k] = f
  BY <1>3, <1>5, ExceptIs
<1>. QED  BY <1>1, <1>3, <1>4, <1>5, <1>6, HandlerIs

LEMMA UnhandledCut ==
  ASSUME NEW s, NEW fr, Seen(fr, bodies), FramesOK(s, bodies), Len(bodies) >= 2,
         fr[1].got = {}, fr[1].again = NoInstr, NEW g, g = SubSeq(bodies, 1, 1)
  PROVE  CutTo(fr, 1, g) /\ g[1] = fr[1]
<1>1. bodies \in Seq(FrameType) /\ Len(bodies) \in Nat \ {0}
  BY FramesFacts
<1>2. Len(g) = 1 /\ \A i \in 1 .. 1 : g[i] = bodies[i]
  BY <1>1, PrefixProperties
<1>3. g[1] = bodies[1]
  BY <1>2
<1>4. fr[1] = bodies[1]
  BY <1>1 DEF Seen
<1>5. ~(1 >= 2) /\ \A i \in 1 .. 1 : i = 1
  OBVIOUS
<1>. QED  BY <1>2, <1>3, <1>4, <1>5 DEF CutTo, AgainOK

(* Native calls wait in the program's own frame for the drain. *)
LEMMA FirstWaits ==
  ASSUME NEW s, NEW lim, NEW cs, StackOK(s, lim, cs), cs # <<>>, NEW t, NEW fr, RCalls(t, fr, cs), Idle(cs)
  PROVE  fr[1].got = {} /\ fr[1].again = NoInstr
<1>1. Len(cs) \in Nat /\ Len(cs) >= 1
  BY StackFacts
<1>2. PICK l : l = Len(cs)
  OBVIOUS
<1>3. l \in 1 .. Len(cs) /\ cs[l].op = "instr"
  BY <1>1, <1>2 DEF StackOK
<1>4. Level(cs[l]) = 1 /\ RCall(t, fr, cs[l])
  BY <1>3, AllLow DEF RCalls
<1>. QED  BY <1>3, <1>4 DEF RCall, RInstr, Level

LEMMA RUnwound ==
  ASSUME CoreInv, NEW s, StoreOK(s), RStore(s), NEW fr, FramesOK(s, fr), FramesOK(s, bodies), RFrames(s, fr),
         AllBegun(fr), Seen(fr, bodies), NEW rest, StackOK(Store, Len(bodies), rest), Idle(rest),
         RCalls(s, fr, rest), rest # <<>> => Len(bodies) >= 2, UnwindTo(s, rest)
  PROVE  RNow'
<1>1. PICK k \in 1 .. Len(bodies) : \E t : IsUnwound(s, rest, k, t)
  BY UnwindIs DEF Idle
<1>2. PICK t : IsUnwound(s, rest, k, t)
  BY <1>1
<1>3. Len(bodies) \in Nat \ {0} /\ Len(fr) = Len(bodies) /\ k \in 1 .. Len(fr)
  BY CoreFacts DEF Seen
<1>4. LostAbove(fr, k) = LostObjects(k)
  <2>1. \A i \in k + 1 .. Len(bodies) : fr[i].obj = bodies[i].obj
    BY <1>3 DEF Seen
  <2>. QED  BY <1>3, <2>1 DEF LostAbove, LostObjects
<1>5. IsCleaned(s, LostAbove(fr, k), t) /\ SetStore(t)
  BY <1>2, <1>4 DEF IsUnwound
<1>6. RStore(t) /\ StoreOK(t)
  <2>1. \A o \in LostAbove(fr, k) : s.obj[o].st = "run"
    BY <1>3, LostBegun
  <2>2. StoreOK(t)
    BY <1>5, CleanedTame DEF Tame
  <2>. QED  BY <1>5, <2>1, <2>2, CleanedStore
<1>7. Store' = t
  BY <1>5, <1>6, StoreSet DEF StoreOK
<1>8. CASE /\ rest # <<>> /\ k = rest[1].stop
           /\ bodies' = SubSeq(bodies, 1, k) /\ calls' = Tail(rest) /\ ret' = Err
  <2>1. rest[1].op = "run" /\ 1 \in 1 .. Len(rest)
    BY <1>8, StackFacts DEF Idle
  <2>2. k = 1
    BY <1>8, <2>1 DEF RCalls, RCall
  <2>3. fr[1].got = {} /\ fr[1].again = NoInstr
    BY <1>8, FirstWaits
  <2>4. PICK g : g = SubSeq(bodies, 1, 1)
    OBVIOUS
  <2>5. CutTo(fr, 1, g) /\ g[1] = fr[1]
    BY <1>8, <2>3, <2>4, UnhandledCut
  <2>6. RFrames(t, g)
    BY <1>3, <1>5, <2>2, <2>5, FramesFailed
  <2>7. RCalls(t, g, Tail(rest))
    <3>1. FirstKept(fr, g)
      BY <2>5 DEF FirstKept
    <3>2. PICK lim : lim = Len(bodies)
      OBVIOUS
    <3>3. StackOK(Store, lim, rest)
      BY <3>2
    <3>. QED  BY <1>8, <3>1, <3>3, RCallsLowTail
  <2>8. RHead(t.sys, g, Tail(rest), Err)
    <3>1. PICK d : d = rest[2]
      OBVIOUS
    <3>2. /\ Tail(rest) # <<>> /\ Tail(rest)[1] = d /\ CalledBy(rest[1], d)
          /\ RCall(s, fr, d)
      BY <1>8, <2>1, <3>1, CallerIs
    <3>3. RunBy(rest[1], d)
      BY <2>1, <3>2 DEF CalledBy
    <3>4. d.op = "import" /\ d.pc = "drained" /\ d.depth = 1
      BY <1>8, <2>2, <3>2, <3>3 DEF RunBy, RCall, RImport
    <3>5. Len(g) = 1
      BY <2>5 DEF CutTo
    <3>6. HeadImport(t.sys, g, d, Err)
      BY <3>4, <3>5 DEF HeadImport, Err
    <3>. QED  BY <3>2, <3>4, <3>6 DEF RHead
  <2>9. RAll(t, g, Tail(rest), Err)
    BY <1>6, <2>6, <2>7, <2>8 DEF RAll
  <2>. QED  BY <1>7, <1>8, <2>2, <2>4, <2>9 DEF RNow
<1>9. CASE /\ (rest # <<>> => k > rest[1].stop) /\ bodies[k].guard
           /\ bodies' = [SubSeq(bodies, 1, k) EXCEPT ![k] = Handler(SubSeq(bodies, 1, k)[k], k = 1)]
           /\ calls' = rest /\ ret' = NoRet
  <2>1. PICK g : g = [SubSeq(bodies, 1, k) EXCEPT ![k] = Handler(SubSeq(bodies, 1, k)[k], k = 1)]
    OBVIOUS
  <2>2. CutTo(fr, k, g)
    BY <1>9, <2>1, HandledCut
  <2>3. RFrames(t, g)
    BY <1>3, <1>5, <2>2, FramesFailed
  <2>4. LowKept(s, fr, t, g, rest)
    <3>1. SUFFICES ASSUME rest # <<>>
                   PROVE  /\ g[1].again = fr[1].again /\ (fr[1].got = {} => g[1].got = {})
                          /\ Drained(s, fr, rest[2]) => Drained(t, g, rest[2])
      BY DEF LowKept
    <3>2. rest[1].op = "run" /\ 1 \in 1 .. Len(rest)
      BY <3>1, StackFacts DEF Idle
    <3>3. rest[1].stop = 1
      BY <3>2 DEF RCalls, RCall
    <3>4. k > 1
      BY <1>9, <3>1, <3>3
    <3>5. Len(g) = k /\ Len(g) # 1 /\ Len(fr) # 1 /\ 1 \in 1 .. k /\ 2 \in 1 .. k /\ 1 # k
      BY <1>3, <2>2, <3>4 DEF CutTo
    <3>6. g[1] = fr[1] /\ g[2].obj = fr[2].obj
      BY <2>2, <3>5 DEF CutTo
    <3>. QED  BY <3>5, <3>6 DEF Drained
  <2>5. RCalls(t, g, rest)
    <3>1. PICK lim : lim = Len(bodies)
      OBVIOUS
    <3>2. StackOK(Store, lim, rest)
      BY <3>1
    <3>. QED  BY <2>4, <3>2, RCallsLow
  <2>6. RHead(t.sys, g, rest, NoRet)
    BY HeadIdle
  <2>7. RAll(t, g, rest, NoRet)
    BY <1>6, <2>3, <2>5, <2>6 DEF RAll
  <2>. QED  BY <1>7, <1>9, <2>1, <2>7 DEF RNow
<1>. QED  BY <1>2, <1>8, <1>9 DEF IsUnwound, Handler

(* What is done stays: exceptions end only bodies that are not.              *)
LEMMA UnwoundKeeps ==
  ASSUME NEW s, StoreOK(s), NEW fr, FramesOK(s, fr), RFrames(s, fr), AllBegun(fr),
         NEW k \in 1 .. Len(fr), NEW t, IsCleaned(s, LostAbove(fr, k), t)
  PROVE  Keeps(s, t)
<1>1. PICK lost : lost = LostAbove(fr, k)
  OBVIOUS
<1>2. PICK u : IsFailed(s, lost, u) /\ IsRemoved(u, {s.obj[o].name : o \in lost}, t)
  BY <1>1 DEF IsCleaned
<1>3. \A o \in lost : s.obj[o].st = "run" /\ Answered(s.sys, o, s.obj[o].name)
  <2>1. SUFFICES ASSUME NEW j \in k + 1 .. Len(fr)
                 PROVE  s.obj[fr[j].obj].st = "run" /\ Answered(s.sys, fr[j].obj, s.obj[fr[j].obj].name)
    BY <1>1 DEF LostAbove
  <2>2. j \in 2 .. Len(fr)
    BY FrameObjects
  <2>3. RFrame(s, fr, j) /\ ~fr[j].fresh
    BY <2>2 DEF RFrames, AllBegun
  <2>. QED  BY <2>3 DEF RFrame, NameAt
<1>4. DOMAIN u.obj = DOMAIN s.obj /\ u.sys = s.sys
  <2>1. StoreOK(u) /\ Len(u.obj) = Len(s.obj) /\ u.sys = s.sys
    BY <1>2, MarkedOK DEF IsFailed, IsMarked
  <2>. QED  BY <2>1, ObjDomain
<1>5. ASSUME NEW i \in DOMAIN s.obj
      PROVE  t.obj[i].name = s.obj[i].name /\ (s.obj[i].st = "done" => t.obj[i].st = "done")
  <2>1. SameBut(u.obj[i], t.obj[i])
    BY <1>2, <1>4, <1>5 DEF IsRemoved
  <2>2. t.obj[i].name = u.obj[i].name /\ t.obj[i].st = u.obj[i].st
    BY <2>1 DEF SameBut
  <2>3. u.obj[i].name = s.obj[i].name
    BY <1>2, <1>5 DEF IsFailed, IsMarked, SameNames
  <2>4. s.obj[i].st = "done" => i \notin lost
    BY <1>3
  <2>5. i \notin lost => u.obj[i].st = s.obj[i].st
    BY <1>2, <1>5 DEF IsFailed
  <2>. QED  BY <2>2, <2>3, <2>4, <2>5
<1>6. ASSUME NEW n \in DOMAIN s.sys, s.obj[s.sys[n]].st = "done"
      PROVE  n \in DOMAIN t.sys /\ t.sys[n] = s.sys[n]
  <2>1. n \notin {s.obj[o].name : o \in lost}
    BY <1>3, <1>6 DEF Answered
  <2>. QED  BY <1>2, <1>4, <1>6, <2>1 DEF IsRemoved
<1>. QED  BY <1>5, <1>6 DEF Keeps

(* The frames below the handler go on as they were. *)
LEMMA RunsUnwound ==
  ASSUME CoreInv, RNow, RunsNow, NEW s, StoreOK(s), Keeps(Store, s), DOMAIN Store.obj \subseteq DOMAIN s.obj,
         NEW fr, FramesOK(s, fr), FramesOK(s, bodies), RFrames(s, fr), AllBegun(fr), Seen(fr, bodies),
         NEW rest, StackOK(Store, Len(bodies), rest), Idle(rest), RCalls(s, fr, rest),
         rest # <<>> => Len(bodies) >= 2, UnwindTo(s, rest),
         \A j : Busy(bodies, rest, j) => Busy(bodies, calls, j),
         \A j : FailsAt(calls, ret, j) => j = Len(bodies)
  PROVE  RunsNow'
<1>1. PICK k \in 1 .. Len(bodies) : \E t : IsUnwound(s, rest, k, t)
  BY UnwindIs DEF Idle
<1>2. PICK t : IsUnwound(s, rest, k, t)
  BY <1>1
<1>3. Len(bodies) \in Nat \ {0} /\ Len(fr) = Len(bodies) /\ k \in 1 .. Len(fr)
  BY CoreFacts DEF Seen
<1>4. LostAbove(fr, k) = LostObjects(k)
  <2>1. \A i \in k + 1 .. Len(bodies) : fr[i].obj = bodies[i].obj
    BY <1>3 DEF Seen
  <2>. QED  BY <1>3, <2>1 DEF LostAbove, LostObjects
<1>5. IsCleaned(s, LostAbove(fr, k), t) /\ SetStore(t)
  BY <1>2, <1>4 DEF IsUnwound
<1>6. Store' = t
  <2>1. StoreOK(t)
    BY <1>5, CleanedTame DEF Tame
  <2>. QED  BY <1>5, <2>1, StoreSet DEF StoreOK
<1>7. Keeps(Store, t)
  <2>1. Keeps(s, t)
    BY <1>3, <1>5, UnwoundKeeps
  <2>. QED  BY <2>1, RFacts, KeepsTwice
<1>8. ASSUME NEW j \in 1 .. Len(bodies), j # Len(bodies), Busy(bodies, rest, j), NEW g, g[j].ran = bodies[j].ran
      PROVE  HasRun(t, g, j)
  <2>1. Busy(bodies, calls, j) /\ ~FailsAt(calls, ret, j)
    BY <1>8
  <2>2. HasRun(Store, bodies, j)
    BY <2>1 DEF RunsNow, Runs
  <2>. QED  BY <1>7, <1>8, <2>2, RFacts, HasRunKept
<1>9. CASE /\ rest # <<>> /\ k = rest[1].stop
           /\ bodies' = SubSeq(bodies, 1, k) /\ calls' = Tail(rest) /\ ret' = Err
  <2>1. k = 1
    <3>1. rest[1].op = "run" /\ 1 \in 1 .. Len(rest)
      BY <1>9, StackFacts DEF Idle
    <3>. QED  BY <1>9, <3>1 DEF RCalls, RCall
  <2>2. PICK g, ds : g = SubSeq(bodies, 1, 1) /\ ds = Tail(rest)
    OBVIOUS
  <2>3. fr[1].got = {} /\ fr[1].again = NoInstr
    BY <1>9, FirstWaits
  <2>4. CutTo(fr, 1, g) /\ g[1] = fr[1]
    BY <1>9, <2>2, <2>3, UnhandledCut
  <2>5. Len(g) = 1
    BY <2>4 DEF CutTo
  <2>6. 1 \in 1 .. Len(bodies) /\ 1 # Len(bodies)
    BY <1>3, <1>9
  <2>7. g[1] = bodies[1]
    BY <2>4, <2>6 DEF Seen
  <2>8. NotRun(t, g)
    <3>1. 2 .. Len(g) = {}
      BY <2>5
    <3>. QED  BY <3>1 DEF NotRun
  <2>9. ASSUME NEW j \in 1 .. Len(g), Busy(g, ds, j) PROVE HasRun(t, g, j)
    <3>1. j = 1
      BY <2>5
    <3>2. Busy(bodies, ds, 1)
      BY <2>7, <2>9, <3>1 DEF Busy
    <3>3. Busy(bodies, rest, 1)
      BY <1>9, <2>2, <3>2, BusyTail
    <3>. QED  BY <1>8, <2>6, <2>7, <3>1, <3>3
  <2>10. ASSUME NEW i \in 1 .. Len(ds) PROVE Noted(g, ds, ds[i])
    <3>1. PICK l : l = Len(rest)
      OBVIOUS
    <3>2. l \in Nat /\ Len(ds) = l - 1 /\ \A h \in 1 .. l - 1 : ds[h] = rest[h + 1]
      BY <1>9, <2>2, <3>1, StackFacts
    <3>3. i \in 1 .. l - 1 /\ i + 1 \in 1 .. l
      BY <2>10, <3>2
    <3>. QED  BY <3>1, <3>2, <3>3, LowNoted
  <2>11. Runs(t, g, ds, Err)
    BY <2>8, <2>9, <2>10 DEF Runs
  <2>. QED  BY <1>6, <1>9, <2>1, <2>2, <2>11 DEF RunsNow
<1>10. CASE /\ (rest # <<>> => k > rest[1].stop) /\ bodies[k].guard
            /\ bodies' = [SubSeq(bodies, 1, k) EXCEPT ![k] = Handler(SubSeq(bodies, 1, k)[k], k = 1)]
            /\ calls' = rest /\ ret' = NoRet
  <2>1. PICK g : g = [SubSeq(bodies, 1, k) EXCEPT ![k] = Handler(SubSeq(bodies, 1, k)[k], k = 1)]
    OBVIOUS
  <2>2. CutTo(fr, k, g)
    BY <1>10, <2>1, HandledCut
  <2>3. Len(g) = k /\ g[k].again = NoInstr /\ (k >= 2 => ~g[k].fresh)
    BY <1>10, <2>1, HandledCut, HandledAgain DEF CutTo
  <2>4. \A i \in 1 .. k : i # k => i \in 1 .. Len(bodies) /\ i # Len(bodies) /\ g[i] = bodies[i] /\ g[i] = fr[i]
    <3>1. \A i \in 1 .. k : i # k => i \in 1 .. Len(bodies) /\ i # Len(bodies)
      BY <1>3
    <3>. QED  BY <2>2, <3>1 DEF Seen, CutTo
  <2>5. NotRun(t, g)
    <3>1. SUFFICES ASSUME NEW i \in 2 .. k, g[i].fresh PROVE FALSE
      BY <2>3 DEF NotRun
    <3>2. i \in 1 .. k /\ i \in 2 .. Len(fr) /\ k >= 2
      BY <1>3
    <3>. QED  BY <2>3, <2>4, <3>1, <3>2 DEF AllBegun
  <2>6. ASSUME NEW j \in 1 .. k, Busy(g, rest, j) PROVE HasRun(t, g, j)
    <3>1. CASE j = k
      <4>1. j = 1 /\ rest # <<>>
        BY <2>3, <2>6, <3>1, LowBusy
      <4>2. rest[1].op = "run" /\ 1 \in 1 .. Len(rest)
        BY <4>1, StackFacts DEF Idle
      <4>3. rest[1].stop = 1
        BY <4>2 DEF RCalls, RCall
      <4>. QED  BY <1>10, <3>1, <4>1, <4>3
    <3>2. CASE j # k
      <4>1. j \in 1 .. Len(bodies) /\ j # Len(bodies) /\ g[j] = bodies[j]
        BY <2>4, <3>2
      <4>2. Busy(bodies, rest, j)
        BY <2>6, <4>1 DEF Busy
      <4>. QED  BY <1>8, <4>1, <4>2
    <3>. QED  BY <3>1, <3>2
  <2>7. \A i \in 1 .. Len(rest) : Noted(g, rest, rest[i])
    <3>1. PICK lim : lim = Len(bodies)
      OBVIOUS
    <3>2. StackOK(Store, lim, rest)
      BY <3>1
    <3>. QED  BY <3>2, LowNoted
  <2>8. Runs(t, g, rest, NoRet)
    BY <2>3, <2>5, <2>6, <2>7 DEF Runs
  <2>. QED  BY <1>6, <1>10, <2>1, <2>8 DEF RunsNow
<1>. QED  BY <1>2, <1>9, <1>10 DEF IsUnwound, Handler

(* An import instruction raises in the frame that executes it. *)
LEMMA RRaiseHere ==
  ASSUME CoreInv, RNow, NEW pc, At("instr", pc), NEW s, StoreOK(s), Calm(Store, s),
         Len(bodies) = calls[1].who, RaiseHere(s)
  PROVE  Advances
<1>1. PICK w : w = calls[1].who
  OBVIOUS
<1>2. /\ calls # <<>> /\ w \in 1 .. Len(bodies) /\ RInstr(bodies, calls[1]) /\ Idle(Tail(calls))
      /\ (NoRun(calls) \/ w >= 2)
  BY <1>1, InstrKnows
<1>3. RStore(s) /\ RFrames(s, bodies) /\ FramesOK(s, bodies) /\ RCalls(s, bodies, calls)
  BY CalmAll, RFacts, CalmFramesOK
<1>4. RCalls(s, bodies, Tail(calls)) /\ StackOK(Store, Len(bodies), Tail(calls))
  BY <1>2, <1>3, RFacts, RCallsTail, StackPop
<1>5. AllBegun(bodies)
  <2>1. SUFFICES ASSUME NEW i \in 2 .. Len(bodies), bodies[i].fresh PROVE FALSE
    BY DEF AllBegun
  <2>2. i = Len(bodies)
    BY <1>3, <2>1 DEF RFrames, RFrame
  <2>. QED  BY <1>1, <1>2, <2>1, <2>2 DEF RInstr, BodyBegun
<1>6. Seen(bodies, bodies)
  BY <1>1, <1>2 DEF Seen, RInstr
<1>7. Tail(calls) # <<>> => Len(bodies) >= 2
  <2>1. SUFFICES ASSUME Tail(calls) # <<>> PROVE ~NoRun(calls)
    BY <1>1, <1>2
  <2>2. Tail(calls)[1].op = "run"
    BY <1>2, <2>1 DEF Idle
  <2>3. Len(Tail(calls)) \in Nat /\ Len(Tail(calls)) # 0
    <3>1. Tail(calls) \in Seq(CallType)
      BY <1>2, RFacts, StackFacts
    <3>. QED  BY <2>1, <3>1, LenProperties, EmptySeq
  <2>4. Len(calls) \in Nat /\ Len(Tail(calls)) = Len(calls) - 1
        /\ \A i \in 1 .. Len(calls) - 1 : Tail(calls)[i] = calls[i + 1]
    BY <1>2, RFacts, StackFacts
  <2>5. 1 \in 1 .. Len(calls) - 1 /\ 2 \in 1 .. Len(calls)
    <3>1. \A a, b \in Nat : b # 0 /\ b = a - 1 => 1 \in 1 .. a - 1 /\ 2 \in 1 .. a
      OBVIOUS
    <3>. QED  BY <2>3, <2>4, <3>1
  <2>6. calls[2].op = "run"
    BY <2>2, <2>4, <2>5
  <2>. QED  BY <2>5, <2>6 DEF NoRun
<1>8. UnwindTo(s, Tail(calls))
  BY DEF RaiseHere
<1>9. RNow'
  BY <1>2, <1>3, <1>4, <1>5, <1>6, <1>7, <1>8, RUnwound
<1>10. ASSUME RunsNow PROVE RunsNow'
  <2>1. \A j : Busy(bodies, Tail(calls), j) => Busy(bodies, calls, j)
    BY <1>2, RFacts, BusyTail
  <2>2. \A j : FailsAt(calls, ret, j) => j = Len(bodies)
    BY InstrKnows DEF FailsAt
  <2>3. Keeps(Store, s) /\ DOMAIN Store.obj \subseteq DOMAIN s.obj
    BY CalmKeeps DEF Calm
  <2>. QED  BY <1>2, <1>3, <1>4, <1>5, <1>6, <1>7, <1>8, <1>10, <2>1, <2>2, <2>3, RunsUnwound
<1>. QED  BY <1>9, <1>10 DEF Advances

(* What the step of an instruction knows of its frame. *)
LEMMA InstrTop ==
  ASSUME CoreInv, RNow, NEW pc, At("instr", pc)
  PROVE  /\ Top = Len(bodies) /\ (~ret.ok => Len(bodies) = calls[1].who)
         /\ (Top <= calls[1].who => Len(bodies) = calls[1].who)
         /\ (Top > calls[1].who => calls[1].i.k # "resolve")
<1>1. PICK l, w : l = Len(bodies) /\ w = calls[1].who
  OBVIOUS
<1>2. l \in Nat /\ w \in Nat /\ (l = w \/ l = w + 1) /\ (~ret.ok \/ calls[1].i.k = "resolve" => l = w)
  <2>1. HeadInstr(Store.sys, Len(bodies), calls[1], ret) /\ w \in 1 .. l /\ l \in Nat
    BY <1>1, InstrKnows, RFacts
  <2>. QED  BY <1>1, <2>1 DEF HeadInstr
<1>3. \A x, y \in Nat : (x = y \/ x = y + 1) => (x <= y => x = y) /\ (x > y => x # y)
  OBVIOUS
<1>. QED  BY <1>1, <1>2, <1>3 DEF Top

LEMMA RRaised ==
  ASSUME CoreInv, RNow, NEW pc, At("instr", pc), NEW s, StoreOK(s), Calm(Store, s),
         ~ret.ok \/ Top <= calls[1].who \/ calls[1].i.k = "resolve", RaiseHere(s)
  PROVE  Advances
<1>1. Len(bodies) = calls[1].who
  <2>1. PICK l, w : l = Len(bodies) /\ w = calls[1].who
    OBVIOUS
  <2>2. l \in Nat /\ w \in Nat /\ w <= l
    BY <2>1, InstrKnows, RFacts
  <2>3. l > w \/ l <= w
    BY <2>2
  <2>. QED  BY <2>1, <2>3, InstrTop
<1>. QED  BY <1>1, RRaiseHere

LEMMA InstrDeferredRegular ==
  ASSUME CoreInv, RNow, InstrDeferred
  PROVE  Advances
<1>1. At("instr", "deferred")
  BY DEF InstrDeferred
<1>2. PICK c, n, m : c = calls[1] /\ n = c.i.n /\ m = Parent[n]
  OBVIOUS
<1>3. /\ Here = c /\ c.i \in Instr /\ c.pc = "deferred" /\ RInstr(bodies, c)
      /\ HeadInstr(Store.sys, Len(bodies), c, ret) /\ CallOK(Store, c) /\ c.op = "instr"
  BY <1>1, <1>2, InstrKnows
<1>4. n \in Names /\ c.i.k \in ByStatement
  BY <1>2, <1>3 DEF Instr, RInstr
<1>5. CASE ~ret.ok /\ RaiseHere(Store)
  BY <1>1, <1>5, StoreCalm, RRaised
<1>6. CASE ret.ok /\ Repeat(Store)
  BY <1>1, <1>2, <1>4, <1>6, StoreCalm, RRepeat
<1>7. CASE /\ ret.ok /\ Top <= Here.who /\ CallAt("imported", ImportCall(Here.i.n, FALSE))
           /\ UNCHANGED <<cache, sysmods, obj, bodies>>
  <2>1. ParentIn(Store.sys, n)
    BY <1>2, <1>3, <1>7 DEF HeadInstr, ParentIn
  <2>2. Len(bodies) = c.who
    BY <1>1, <1>2, <1>3, <1>7, InstrTop
  <2>3. CallAt("imported", ImportCall(n, FALSE))
    BY <1>2, <1>3, <1>7
  <2>. QED  BY <1>1, <1>2, <1>4, <1>7, <2>1, <2>2, <2>3, RInstrImports
<1>. QED  BY <1>5, <1>6, <1>7 DEF InstrDeferred

(* No program calls __import__ with a dotted name. *)
LEMMA NoHead ==
  ASSUME CoreInv, RNow
  PROVE  ~At("instr", "head")
BY InstrKnows DEF RInstr

(* from n import a *)
LEMMA UncachedCalm ==
  ASSUME CoreInv, RNow, NEW a, ~Has(sysmods, a), NEW s, s = [cache |-> Drop(cache, {a}), sys |-> sysmods, obj |-> obj]
  PROVE  StoreOK(s) /\ Calm(Store, s)
<1>1. StoreOK(s)
  BY Uncached DEF Tame
<1>2. DOMAIN s.cache \subseteq DOMAIN Store.cache /\ s.sys = Store.sys /\ s.obj = Store.obj
  BY StoreIs DEF Drop
<1>3. \A i \in DOMAIN Store.obj : Same(s.obj[i], Store.obj[i])
  BY <1>2 DEF Same
<1>4. \A i \in DOMAIN Store.obj : \A n \in DOMAIN s.obj[i].kids : Answered(Store.obj[i].kids, s.obj[i].kids[n], n)
  BY SMTT(60), <1>2 DEF Answered
<1>. QED  BY <1>1, <1>2, <1>3, <1>4 DEF Calm

LEMMA FromImportRegular ==
  ASSUME CoreInv, RNow, NEW pc, At("instr", pc), NEW o, Answered(Store.sys, o, calls[1].i.n),
         calls[1].i.k = "from", ret.ok, FromImport(o), ParentIn(Store.sys, calls[1].i.n)
  PROVE  Advances
<1>1. PICK c, n, a : c = calls[1] /\ n = c.i.n /\ a = c.i.a
  OBVIOUS
<1>2. /\ Here = c /\ c \in InstrType /\ c.i \in Instr /\ CallOK(Store, c) /\ c.op = "instr"
      /\ StoreOK(Store) /\ Calm(Store, Store)
  BY <1>1, InstrKnows, StoreCalm
<1>3. (a # NoName => a \in Names /\ Parent[a] = n) /\ o \in DOMAIN Store.obj /\ n \in DOMAIN Store.sys
      /\ o = Store.sys[n]
  <2>1. o \in DOMAIN Store.obj /\ n \in DOMAIN Store.sys /\ o = Store.sys[n]
    BY <1>1, RInstrGot
  <2>2. a # NoName => a \in Names /\ Parent[a] = n
    BY <1>1, <1>2 DEF Instr, CallOK, InstrOK
  <2>. QED  BY <2>1, <2>2
<1>4. c.i.k = "from" /\ c.i.k \in ByStatement
  BY <1>1 DEF ByStatement
<1>5. CASE Repeat(Store)
  BY <1>1, <1>2, <1>4, <1>5, RRepeat
<1>6. CASE a # NoName /\ Has(obj[o].kids, a) /\ Bind(Store, {obj[o].kids[a]})
  <2>1. Answered(Store.sys, obj[o].kids[a], a)
    <3>1. RKids(Store) /\ obj = Store.obj
      BY RFacts, StoreIs DEF RStore
    <3>. QED  BY <1>3, <1>6, <3>1 DEF RKids, Has
  <2>. QED  BY SMTT(60), <1>2, <1>6, <2>1, RBindOne
<1>7. CASE Bind(Store, {o})
  BY <1>2, <1>7, RBindOne
<1>8. CASE Top <= Here.who /\ RaiseHere(Store)
  BY <1>1, <1>2, <1>8, RRaised
<1>9. CASE Has(sysmods, a) /\ Bind(CanonicalStore(Store, a), {sysmods[a]})
  <2>1. CanonicalStore(Store, a) = Store
    BY <1>2, CanonicalSame
  <2>2. Answered(Store.sys, sysmods[a], a)
    BY <1>9, StoreIs DEF Has, Answered
  <2>3. Bind(Store, {sysmods[a]})
    BY <1>9, <2>1
  <2>. QED  BY <1>2, <2>2, <2>3, RBindOne
<1>10. CASE /\ Top <= Here.who /\ a # NoName /\ ~Has(sysmods, a)
            /\ cache' = Drop(cache, {a})
            /\ CallFrom([Here EXCEPT !.pc = "sub", !.o = o], ImportCall(a, FALSE))
            /\ UNCHANGED <<sysmods, obj, bodies>>
  <2>1. PICK s : s = [cache |-> Drop(cache, {a}), sys |-> sysmods, obj |-> obj]
    OBVIOUS
  <2>2. Calm(Store, s)
    BY <1>10, <2>1, UncachedCalm
  <2>3. Store' = s
    BY <1>10, <2>1 DEF Store
  <2>4. Calm(Store, Store') /\ UNCHANGED bodies
    BY <1>10, <2>2, <2>3
  <2>5. PICK h : h = [c EXCEPT !.pc = "sub", !.o = o]
    OBVIOUS
  <2>6. o \in Nat
    BY <1>2, <1>3, ObjDomain
  <2>7. h \in InstrType /\ h.who = c.who /\ h.i = c.i /\ h.pc = "sub"
    BY <1>2, <2>5, <2>6 DEF InstrType
  <2>8. CallFrom(h, ImportCall(a, FALSE))
    BY <1>2, <1>10, <2>5
  <2>9. Len(bodies) = c.who
    BY <1>1, <1>2, <1>10, InstrTop
  <2>10. ParentIn(Store.sys, a) /\ a \in Names
    BY <1>3, <1>10 DEF ParentIn
  <2>. QED  BY <1>1, <2>4, <2>7, <2>8, <2>9, <2>10, RInstrCalls
<1>11. CASE Top <= Here.who /\ ~Has(sysmods, a) /\ RaiseHere([Store EXCEPT !.cache = Drop(@, {a})])
  <2>1. PICK s : s = [cache |-> Drop(cache, {a}), sys |-> sysmods, obj |-> obj]
    OBVIOUS
  <2>2. StoreOK(s) /\ Calm(Store, s)
    BY <1>11, <2>1, UncachedCalm
  <2>3. s = [Store EXCEPT !.cache = Drop(@, {a})]
    BY <2>1 DEF Store
  <2>4. RaiseHere(s)
    BY <1>11, <2>3
  <2>. QED  BY <1>1, <1>2, <1>11, <2>2, <2>4, RRaised
<1>. QED  BY <1>1, <1>2, <1>5, <1>6, <1>7, <1>8, <1>9, <1>10, <1>11 DEF FromImport

(* import_module *)
LEMMA BindCalledRegular ==
  ASSUME CoreInv, RNow, NEW pc, At("instr", pc), NEW o, Answered(Store.sys, o, calls[1].i.n), ret.ok, BindCalled(o)
  PROVE  Advances
<1>1. Here = calls[1] /\ calls[1].i.k # "dunder"
  BY InstrKnows DEF RInstr, Allowed
<1>2. Bind(Store, {o})
  BY <1>1 DEF BindCalled
<1>. QED  BY <1>2, StoreCalm, RBindOne

(* pkgutil.resolve_name *)
LEMMA ResolveNameRegular ==
  ASSUME CoreInv, RNow, NEW pc, At("instr", pc), NEW o, Answered(Store.sys, o, calls[1].i.n), ResolveName(o),
         calls[1].i.k = "resolve", ret.ok
  PROVE  Advances
<1>1. PICK n : n = calls[1].i.n
  OBVIOUS
<1>2. Here = calls[1] /\ StoreOK(Store)
  BY InstrKnows, RFacts
<1>3. CanonicalStore(Store, n) = Store
  BY <1>2, CanonicalSame
<1>4. CanonicalModule(Store, n, o) = o
  <2>1. n \in DOMAIN Store.sys /\ o = Store.sys[n]
    BY <1>1 DEF Answered
  <2>. QED  BY <2>1 DEF CanonicalModule, Has
<1>5. Bind(Store, {o}) \/ RaiseHere(Store)
  BY <1>1, <1>2, <1>3, <1>4 DEF ResolveName
<1>. QED  BY <1>5, StoreCalm, RBindOne, RRaised

LEMMA InstrImportedRegular ==
  ASSUME CoreInv, RNow, InstrImported
  PROVE  Advances
<1>1. At("instr", "imported")
  BY DEF InstrImported
<1>2. /\ Here = calls[1] /\ calls[1].pc = "imported" /\ HeadInstr(Store.sys, Len(bodies), calls[1], ret)
  BY <1>1, InstrKnows
<1>3. ret.ok => /\ Answered(Store.sys, ret.obj, calls[1].i.n)
                /\ calls[1].i.k \in ByStatement => ParentIn(Store.sys, calls[1].i.n)
  BY <1>2 DEF HeadInstr
<1>5. CASE ~ret.ok /\ RaiseHere(Store)
  BY <1>1, <1>5, StoreCalm, RRaised
<1>6. CASE ret.ok /\ Here.i.k = "stmt" /\ BindPlain(ret.obj)
  <2>1. calls[1].i.k \in ByStatement
    BY <1>2, <1>6 DEF ByStatement
  <2>. QED  BY <1>1, <1>3, <1>6, <2>1, BindPlainRegular
<1>7. CASE ret.ok /\ Here.i.k = "from" /\ FromImport(ret.obj)
  <2>1. calls[1].i.k \in ByStatement
    BY <1>2, <1>7 DEF ByStatement
  <2>. QED  BY <1>1, <1>2, <1>3, <1>7, <2>1, FromImportRegular
<1>8. CASE ret.ok /\ BindCalled(ret.obj)
  BY <1>1, <1>3, <1>8, BindCalledRegular
<1>9. CASE ret.ok /\ Here.i.k = "resolve" /\ ResolveName(ret.obj)
  BY <1>1, <1>2, <1>3, <1>9, ResolveNameRegular
<1>. QED  BY <1>5, <1>6, <1>7, <1>8, <1>9 DEF InstrImported

LEMMA InstrSubRegular ==
  ASSUME CoreInv, RNow, InstrSub
  PROVE  Advances
<1>1. At("instr", "sub")
  BY DEF InstrSub
<1>2. PICK c, a, p : c = calls[1] /\ a = c.i.a /\ p = c.o
  OBVIOUS
<1>3. /\ Here = c /\ c.op = "instr" /\ c.pc = "sub" /\ c \in InstrType /\ c.i \in Instr /\ CallOK(Store, c)
      /\ StoreOK(Store) /\ HeadInstr(Store.sys, Len(bodies), c, ret)
  BY <1>1, <1>2, InstrKnows, RFacts
<1>4. a \in Names /\ p \in DOMAIN Store.obj /\ Parent[a] = Store.obj[p].name /\ c.i.k \in ByStatement
  BY <1>2, <1>3 DEF Instr, CallOK, InstrOK, Named, ByStatement
<1>5. CASE ~ret.ok /\ RaiseHere(Store)
  BY <1>1, <1>5, StoreCalm, RRaised
<1>6. CASE ret.ok
  <2>1. PICK o : o = ret.obj
    OBVIOUS
  <2>2. Answered(Store.sys, o, a)
    BY <1>2, <1>3, <1>6, <2>1 DEF HeadInstr
  <2>3. o \in DOMAIN Store.obj
    BY <1>1, <2>2, RInstrGot
  <2>4. CanonicalStore(Store, a) = Store /\ CanonicalModule(Store, a, o) = o
    BY <1>3, <2>2, CanonicalSame DEF CanonicalModule, Has, Answered
  <2>5. PICK s : s = SetKid(Store, p, a, o)
    OBVIOUS
  <2>6. IsBoundIn(Store, p, a, o, s)
    BY <1>3, <1>4, <2>3, <2>5, BoundIs
  <2>7. Calm(Store, s) /\ StoreOK(s)
    BY <1>3, <2>2, <2>6, BoundCalm
  <2>8. Repeat(s) \/ Bind(s, {o})
    BY <1>2, <1>3, <1>6, <2>1, <2>4, <2>5 DEF InstrSub, SetKid
  <2>9. CASE Repeat(s)
    BY <1>1, <1>6, <1>2, <1>4, <2>7, <2>9, RRepeat
  <2>10. CASE Bind(s, {o})
    BY <1>1, <1>6, <2>2, <2>7, <2>10, RBindOne
  <2>. QED  BY <2>8, <2>9, <2>10
<1>. QED  BY <1>5, <1>6 DEF InstrSub

(* Bytecode *)

(* Code that runs is the program's, or that of a body; the program does not *)
(* run while a drain waits.                                                 *)
LEMMA RunningKnows ==
  ASSUME CoreInv, RNow, Running
  PROVE  /\ Idle(calls) /\ (calls # <<>> => Len(bodies) >= 2) /\ Top = Len(bodies)
         /\ Len(bodies) \in 1 .. Len(bodies) /\ Len(bodies) \in Nat \ {0}
         /\ bodies[Len(bodies)] \in FrameType
<1>1. PICK l : l = Len(bodies)
  OBVIOUS
<1>2. /\ l \in Nat \ {0} /\ Top = l /\ bodies[l] \in FrameType /\ (l = 1 => calls = <<>>)
      /\ (calls # <<>> => calls[1].op = "run")
  BY <1>1, RunningFacts
<1>3. l \in 1 .. l /\ (l = 1 \/ l >= 2)
  BY <1>2
<1>. QED  BY <1>1, <1>2, <1>3 DEF Idle

(* The calls do not see what the frame that runs does. *)
LEMMA RCallsOn ==
  ASSUME CoreInv, RNow, Running, NEW t, NEW g, Edited(bodies, Len(bodies), g)
  PROVE  RCalls(t, g, calls)
<1>1. PICK l : l = Len(bodies)
  OBVIOUS
<1>2. StackOK(Store, l, calls) /\ RCalls(Store, bodies, calls) /\ Idle(calls) /\ l \in Nat \ {0}
  BY <1>1, RFacts, RunningKnows
<1>3. LowKept(Store, bodies, t, g, calls)
  <2>1. SUFFICES ASSUME calls # <<>>
                 PROVE  /\ g[1].again = bodies[1].again /\ (bodies[1].got = {} => g[1].got = {})
                        /\ Drained(Store, bodies, calls[2]) => Drained(t, g, calls[2])
    BY DEF LowKept
  <2>2. l >= 2
    BY <1>1, <2>1, RunningKnows
  <2>3. 1 \in 1 .. l /\ 2 \in 1 .. l /\ l # 1
    BY <1>2, <2>2
  <2>4. g[1] = bodies[1] /\ g[2].obj = bodies[2].obj /\ Len(g) = l
    BY <1>1, <2>3 DEF Edited
  <2>. QED  BY <1>1, <2>3, <2>4 DEF Drained
<1>. QED  BY <1>2, <1>3, RCallsLow

(* Native calls do not fail while bytecode runs. *)
LEMMA NoneFailsNow ==
  ASSUME Idle(calls), NEW k
  PROVE  ~FailsAt(calls, ret, k)
BY DEF Idle, FailsAt

(* The frame that runs, or the instruction it starts, is busy. *)
LEMMA BusyOn ==
  ASSUME CoreInv, RNow, Running, NEW g, Edited(bodies, Len(bodies), g), NEW i,
         NEW ds, ds = calls \/ (i \in Instr /\ ds = Pushed(Len(bodies), i, calls)), NEW k \in 1 .. Len(bodies), k # Len(bodies),
         Busy(g, ds, k)
  PROVE  g[k] = bodies[k] /\ Busy(bodies, calls, k)
<1>1. PICK l : l = Len(bodies)
  OBVIOUS
<1>2. g[k] = bodies[k] /\ l \in Nat \ {0} /\ StackOK(Store, l, calls)
  BY <1>1, RFacts DEF Edited
<1>3. CASE ds = calls
  BY <1>2, <1>3 DEF Busy
<1>4. CASE i \in Instr /\ ds = Pushed(l, i, calls)
  <2>1. PICK c : c = InstrCall(l, i)
    OBVIOUS
  <2>2. c \in CallType /\ c.op = "instr" /\ Level(c) = l
    BY <1>2, <1>4, <2>1 DEF InstrCall, CallType, InstrType, Level
  <2>3. calls \in Seq(CallType)
    BY <1>2, StackFacts
  <2>4. IsOnTop(c, calls, ds)
    BY <1>4, <2>1, <2>2, <2>3, OnTopIs DEF Pushed
  <2>5. SUFFICES ASSUME NEW j \in 1 .. Len(ds), Waits(ds[j]), ds[j].op # "run", Level(ds[j]) = k
                 PROVE  Busy(bodies, calls, k)
    BY <1>2 DEF Busy
  <2>6. PICK m : m = Len(calls)
    OBVIOUS
  <2>7. m \in Nat /\ Len(ds) = m + 1 /\ ds[1] = c /\ \A h \in 1 .. m : ds[h + 1] = calls[h]
    BY <1>2, <2>4, <2>6, StackFacts DEF IsOnTop
  <2>8. j # 1
    BY <1>1, <2>2, <2>5, <2>7
  <2>9. j - 1 \in 1 .. m /\ ds[(j - 1) + 1] = calls[j - 1] /\ (j - 1) + 1 = j
    BY <2>5, <2>7, <2>8
  <2>. QED  BY <2>5, <2>6, <2>9 DEF Busy
<1>. QED  BY <1>1, <1>3, <1>4

LEMMA NotedOn ==
  ASSUME CoreInv, RNow, Running, NEW g, NEW i,
         NEW ds, ds = calls \/ (i \in Instr /\ ds = Pushed(Len(bodies), i, calls)), NEW j \in 1 .. Len(ds)
  PROVE  Noted(g, ds, ds[j])
<1>1. PICK l : l = Len(bodies)
  OBVIOUS
<1>2. l \in Nat \ {0} /\ StackOK(Store, l, calls) /\ RCalls(Store, bodies, calls) /\ Idle(calls)
  BY <1>1, RFacts, RunningKnows
<1>3. CASE ds = calls
  BY <1>2, <1>3, LowNoted
<1>4. CASE i \in Instr /\ ds = Pushed(l, i, calls)
  <2>1. PICK c : c = InstrCall(l, i)
    OBVIOUS
  <2>2. c \in CallType /\ c.op = "instr"
    BY <1>2, <1>4, <2>1 DEF InstrCall, CallType, InstrType
  <2>3. calls \in Seq(CallType)
    BY <1>2, StackFacts
  <2>4. IsOnTop(c, calls, ds)
    BY <1>4, <2>1, <2>2, <2>3, OnTopIs DEF Pushed
  <2>5. PICK m : m = Len(calls)
    OBVIOUS
  <2>6. m \in Nat /\ Len(ds) = m + 1 /\ ds[1] = c /\ \A h \in 1 .. m : ds[h + 1] = calls[h]
    BY <1>2, <2>4, <2>5, StackFacts DEF IsOnTop
  <2>7. CASE j = 1
    BY <2>2, <2>6, <2>7 DEF Noted
  <2>8. CASE j # 1
    <3>1. j - 1 \in 1 .. m /\ ds[(j - 1) + 1] = calls[j - 1] /\ (j - 1) + 1 = j
      BY <2>6, <2>8
    <3>2. Noted(g, ds, calls[j - 1])
      BY <1>2, <2>5, <3>1, LowNoted
    <3>. QED  BY <3>1, <3>2
  <2>. QED  BY <2>7, <2>8
<1>. QED  BY <1>1, <1>3, <1>4

(* The frame that runs has not run a body by this instruction, or repeats   *)
(* one.                                                                     *)
LEMMA RunsTop ==
  ASSUME CoreInv, RNow, RunsNow, Running, NEW t, Store' = t, Len(bodies) # 1 => Keeps(Store, t),
         NEW g, bodies' = g, Edited(bodies, Len(bodies), g),
         Len(bodies) >= 2 => ~g[Len(bodies)].fresh,
         \/ g[Len(bodies)].ran = {}
         \/ g[Len(bodies)].ran = bodies[Len(bodies)].ran /\ Keeps(Store, t) /\ bodies[Len(bodies)].again # NoInstr,
         NEW i, calls' = calls \/ (i \in Instr /\ calls' = Pushed(Len(bodies), i, calls))
  PROVE  RunsNow'
<1>1. PICK l : l = Len(bodies)
  OBVIOUS
<1>2. PICK ds : ds = calls'
  OBVIOUS
<1>3. l \in Nat \ {0} /\ StoreOK(Store) /\ FramesOK(Store, bodies) /\ RFrames(Store, bodies) /\ Idle(calls) /\ Len(g) = l
  BY <1>1, RFacts, RunningKnows DEF Edited
<1>4. NotRun(t, g)
  <2>1. SUFFICES ASSUME NEW k \in 2 .. l, g[k].fresh PROVE FALSE
    BY <1>3 DEF NotRun
  <2>2. k # l
    <3>1. l >= 2
      BY <1>3, <2>1
    <3>. QED  BY <1>1, <2>1, <3>1
  <2>3. k \in 1 .. l /\ bodies[k].fresh
    BY <1>1, <1>3, <2>1, <2>2 DEF Edited
  <2>. QED  BY <1>1, <1>3, <2>2, <2>3 DEF RFrames, RFrame
<1>5. ASSUME NEW k \in 1 .. l, Busy(g, ds, k) PROVE HasRun(t, g, k)
  <2>1. ASSUME Keeps(Store, t), Busy(bodies, calls, k), g[k].ran = bodies[k].ran PROVE HasRun(t, g, k)
    <3>1. ~FailsAt(calls, ret, k)
      BY <1>3, NoneFailsNow
    <3>2. HasRun(Store, bodies, k)
      BY <1>1, <2>1, <3>1 DEF RunsNow, Runs
    <3>. QED  BY <1>3, <2>1, <3>2, HasRunKept
  <2>2. CASE k = l /\ g[l].ran = {}
    BY <2>2 DEF HasRun
  <2>3. CASE k = l /\ g[l].ran # {}
    BY <1>1, <2>1, <2>3 DEF Busy
  <2>4. CASE k # l
    <3>1. g[k] = bodies[k] /\ Busy(bodies, calls, k)
      BY <1>1, <1>2, <1>5, <2>4, BusyOn
    <3>2. l # 1
      BY <1>3, <2>4
    <3>. QED  BY <1>1, <2>1, <3>1, <3>2
  <2>. QED  BY <2>2, <2>3, <2>4
<1>6. \A j \in 1 .. Len(ds) : Noted(g, ds, ds[j])
  BY <1>2, NotedOn
<1>7. Runs(t, g, ds, ret')
  BY <1>3, <1>4, <1>5, <1>6 DEF Runs
<1>. QED  BY <1>2, <1>7 DEF RunsNow

LEMMA StepEdits ==
  ASSUME CoreInv, RNow, Running, bodies[Top].again = NoInstr, NEW b \in BOOLEAN, NEW fr, fr = Step(b)
  PROVE  /\ Edited(bodies, Len(bodies), fr)
         /\ ~fr[Len(bodies)].fresh /\ fr[Len(bodies)].again = NoInstr /\ fr[Len(bodies)].got = {}
         /\ fr[Len(bodies)].ran = {}
<1>1. PICK k : k = Len(bodies)
  OBVIOUS
<1>2. k \in 1 .. Len(bodies) /\ bodies[k] \in FrameType /\ Top = k /\ bodies \in Seq(FrameType)
  BY <1>1, RunningKnows, FramesFacts, RFacts
<1>3. PICK f : f = [bodies[k] EXCEPT !.fresh = FALSE, !.guard = b \/ k = 1, !.got = {}, !.ran = {}]
  OBVIOUS
<1>4. f.obj = bodies[k].obj /\ f.got = {} /\ f.again = NoInstr /\ ~f.fresh /\ f.ran = {}
  BY <1>2, <1>3 DEF FrameType
<1>5. fr = [bodies EXCEPT ![k] = f]
  BY <1>2, <1>3 DEF Step
<1>6. /\ Len([bodies EXCEPT ![k] = f]) = Len(bodies) /\ [bodies EXCEPT ![k] = f][k] = f
      /\ \A i \in 1 .. Len(bodies) : i # k => [bodies EXCEPT ![k] = f][i] = bodies[i]
  BY <1>2, ExceptIs
<1>. QED  BY <1>1, <1>4, <1>5, <1>6 DEF Edited

(* The code of the top frame is under way. *)
Going(t) ==
  /\ Len(bodies) = 1 => t = Store
  /\ Len(bodies) >= 2 => Starting(Store, bodies[Len(bodies)].obj, t)

LEMMA StartedGoing ==
  ASSUME CoreInv, RNow, Running
  PROVE  Going(StartedStore)
<1>1. PICK l, t : l = Len(bodies) /\ t = StartedStore
  OBVIOUS
<1>2. IsStarted(t) /\ StoreOK(Store) /\ StoreOK(t) /\ l \in Nat \ {0}
  BY <1>1, StartedIs, StartedFacts, RFacts
<1>3. ASSUME l >= 2 PROVE Starting(Store, bodies[l].obj, t)
  <2>1. l # 1 /\ l > 1
    BY <1>2, <1>3
  <2>2. PICK o : o = bodies[l].obj
    OBVIOUS
  <2>3. o \in DOMAIN Store.obj /\ FlagsSet(Store, o, [Store.obj[o] EXCEPT !.st = "run"], t)
    BY <1>1, <1>2, <2>1, <2>2 DEF IsStarted
  <2>4. PICK m : m = [Store.obj[o] EXCEPT !.st = "run"]
    OBVIOUS
  <2>5. /\ m.name = Store.obj[o].name /\ m.loader = Store.obj[o].loader
        /\ m.init = Store.obj[o].init /\ m.kids = Store.obj[o].kids /\ m.st = "run"
    <3>1. Store.obj[o] \in Mod
      BY <1>2, <2>3, ObjDomain
    <3>. QED  BY <2>4, <3>1 DEF Mod
  <2>6. FlagsSet(Store, o, m, t) /\ t.sys = Store.sys /\ t.cache = Store.cache /\ DOMAIN t.obj = DOMAIN Store.obj
    <3>1. FlagsSet(Store, o, m, t)
      BY <2>3, <2>4
    <3>2. t.sys = Store.sys /\ t.cache = Store.cache /\ Len(t.obj) = Len(Store.obj)
      BY <3>1 DEF FlagsSet, IsMarked
    <3>. QED  BY <1>2, <3>1, <3>2, ObjDomain
  <2>7. t.obj[o] = m /\ \A i \in DOMAIN Store.obj : i # o => t.obj[i] = Store.obj[i]
    BY <2>6 DEF FlagsSet
  <2>. QED  BY <2>2, <2>5, <2>6, <2>7 DEF Starting
<1>. QED  BY <1>1, <1>2, <1>3 DEF IsStarted, Going

LEMMA GoingKeeps ==
  ASSUME CoreInv, RNow, NEW t, Going(t), Len(bodies) # 1
  PROVE  Keeps(Store, t)
<1>1. PICK l : l = Len(bodies)
  OBVIOUS
<1>2. l \in Nat \ {0} /\ l # 1 /\ RFrames(Store, bodies)
  BY <1>1, RFacts
<1>3. l >= 2 /\ l \in 2 .. l
  BY <1>2
<1>4. PICK o : o = bodies[l].obj
  OBVIOUS
<1>5. Starting(Store, o, t)
  BY <1>1, <1>3, <1>4 DEF Going
<1>6. Store.obj[o].st # "done"
  BY <1>1, <1>2, <1>3, <1>4 DEF RFrames, RFrame
<1>. QED  BY <1>5, <1>6 DEF Starting, Keeps

LEMMA RGoing ==
  ASSUME CoreInv, RNow, Running, NEW t, Going(t), NEW fr, Edited(bodies, Len(bodies), fr),
         ~fr[Len(bodies)].fresh, fr[Len(bodies)].again = NoInstr, fr[Len(bodies)].got = {}
  PROVE  RStore(t) /\ RFrames(t, fr) /\ RCalls(t, fr, calls)
<1>1. PICK l : l = Len(bodies)
  OBVIOUS
<1>2. /\ StoreOK(Store) /\ RStore(Store) /\ FramesOK(Store, bodies) /\ RFrames(Store, bodies)
      /\ l \in Nat \ {0} /\ l \in 1 .. l /\ (l = 1 \/ l >= 2)
  BY <1>1, RFacts
<1>3. CASE l = 1
  <2>1. t = Store
    BY <1>1, <1>3 DEF Going
  <2>2. /\ AgainOK(fr[l]) /\ \A o \in fr[l].got : Complete(Store, bodies, l, o)
    BY <1>1 DEF AgainOK
  <2>3. ~(l >= 2)
    BY <1>3
  <2>4. RFrames(Store, fr)
    BY <1>1, <1>2, <2>2, <2>3, FramesEdited
  <2>. QED  BY <1>2, <2>1, <2>4, RCallsOn
<1>4. CASE l >= 2
  <2>1. PICK o : o = bodies[l].obj
    OBVIOUS
  <2>2. Starting(Store, o, t) /\ o \in DOMAIN Store.obj /\ l \in 2 .. l
    BY <1>1, <1>2, <1>4, <2>1, FrameObjects DEF Going
  <2>3. Store.obj[o].st \in {"queued", "run"}
    <3>1. RFrame(Store, bodies, l)
      BY <1>1, <1>2, <2>2 DEF RFrames
    <3>. QED  BY <2>1, <3>1 DEF RFrame
  <2>4. RStore(t)
    BY <1>2, <2>2, <2>3, StartingStore
  <2>5. RFrames(t, fr)
    BY <1>1, <1>2, <1>4, <2>1, <2>2, FramesStarting
  <2>. QED  BY <2>4, <2>5, RCallsOn
<1>. QED  BY <1>2, <1>3, <1>4

LEMMA RGoesOn ==
  ASSUME CoreInv, RNow, Running, bodies[Top].again = NoInstr, NEW b \in BOOLEAN, bodies' = Step(b),
         Going(Store'), UNCHANGED <<calls, ret>>
  PROVE  Advances
<1>1. PICK fr : fr = Step(b)
  OBVIOUS
<1>2. PICK t : t = Store'
  OBVIOUS
<1>3. /\ Edited(bodies, Len(bodies), fr)
      /\ ~fr[Len(bodies)].fresh /\ fr[Len(bodies)].again = NoInstr /\ fr[Len(bodies)].got = {}
      /\ fr[Len(bodies)].ran = {}
  BY <1>1, StepEdits
<1>4. RStore(t) /\ RFrames(t, fr) /\ RCalls(t, fr, calls)
  BY <1>2, <1>3, RGoing
<1>5. RHead(t.sys, fr, calls, ret)
  BY RunningKnows, HeadIdle
<1>6. RNow'
  BY <1>1, <1>2, <1>4, <1>5 DEF RNow, RAll
<1>7. ASSUME RunsNow PROVE RunsNow'
  <2>1. \E i : i = NoInstr
    OBVIOUS
  <2>. QED  BY <1>1, <1>2, <1>3, <1>7, <2>1, GoingKeeps, RunsTop
<1>. QED  BY <1>6, <1>7 DEF Advances

LEMMA DefineRegular ==
  ASSUME CoreInv, RNow, Define
  PROVE  Advances
<1>1. Top > 1 /\ Spend("body")
  BY DEF Define
<1>2. Running /\ bodies[Top].again = NoInstr
  BY <1>1, SpendFacts
<1>3. Len(bodies) > 1 /\ Len(bodies) # 1 /\ StoreOK(Store)
  BY <1>1, CoreFacts, TopFacts
<1>4. PICK o : o = bodies[Len(bodies)].obj
  OBVIOUS
<1>5. o \in DOMAIN Store.obj
  BY <1>3, <1>4, StartedIs DEF IsStarted
<1>6. PICK m : m = [Store.obj[o] EXCEPT !.st = "run", !.def = TRUE, !.bound = TRUE]
  OBVIOUS
<1>7. /\ m \in Mod /\ SameNames(m, Store.obj[o])
      /\ m.init = Store.obj[o].init /\ m.st = "run"
  <2>1. Store.obj[o] \in Mod
    BY <1>3, <1>5, ObjDomain
  <2>. QED  BY <1>6, <2>1 DEF Mod, SameNames, States
<1>8. PICK t : t = SetFlags(Store, o, m)
  OBVIOUS
<1>9. FlagsSet(Store, o, m, t) /\ IsMarked(Store, t)
  BY <1>3, <1>5, <1>7, <1>8, FlagsIs DEF FlagsSet
<1>10. Store' = t
  <2>1. obj \in Seq(Mod)
    BY <1>3, ObjDomain, StoreIs
  <2>2. obj' = [[obj EXCEPT ![o].st = "run"] EXCEPT ![o] = [@ EXCEPT !.def = TRUE, !.bound = TRUE]]
    BY <1>3, <1>4 DEF Define, Started, Top
  <2>3. obj' = [obj EXCEPT ![o] = [obj[o] EXCEPT !.st = "run", !.def = TRUE, !.bound = TRUE]]
    BY <1>5, <2>1, <2>2 DEF Store
  <2>4. cache' = cache /\ sysmods' = sysmods
    BY DEF Define
  <2>. QED  BY <1>6, <1>8, <2>3, <2>4 DEF SetFlags, Store
<1>11. Starting(Store, o, t)
  <2>1. DOMAIN t.obj = DOMAIN Store.obj
    <3>1. StoreOK(t) /\ Len(t.obj) = Len(Store.obj)
      BY <1>3, <1>9, MarkedOK DEF IsMarked
    <3>. QED  BY <1>3, <3>1, ObjDomain
  <2>2. t.obj[o] = m /\ \A i \in DOMAIN Store.obj : i # o => t.obj[i] = Store.obj[i]
    BY <1>9 DEF FlagsSet
  <2>. QED  BY <1>7, <1>9, <2>1, <2>2 DEF Starting, SameNames, IsMarked
<1>12. Going(Store')
  BY <1>3, <1>4, <1>10, <1>11 DEF Going
<1>13. bodies' = Step(FALSE) /\ UNCHANGED <<calls, ret>>
  BY DEF Define
<1>. QED  BY <1>2, <1>12, <1>13, RGoesOn

(* An instruction starts. *)
LEMMA RStarts ==
  ASSUME CoreInv, RNow, Running, NEW t, Store' = t, NEW fr, bodies' = fr, RStore(t), RFrames(t, fr),
         Edited(bodies, Len(bodies), fr), NEW i \in Instr, RInstr(fr, InstrCall(Len(bodies), i)),
         calls' = <<InstrCall(Top, i)>> \o calls
  PROVE  RNow'
<1>1. PICK l : l = Len(bodies)
  OBVIOUS
<1>2. /\ StackOK(Store, l, calls) /\ Idle(calls) /\ (calls # <<>> => l >= 2) /\ Top = l
      /\ l \in Nat \ {0}
  BY <1>1, RFacts, RunningKnows
<1>3. RCalls(t, fr, calls)
  BY RCallsOn
<1>4. PICK d : d = Pushed(l, i, calls)
  OBVIOUS
<1>5. RCalls(t, fr, d)
  BY <1>1, <1>2, <1>3, <1>4, RCallsPush
<1>6. calls' = d /\ Len(fr) = l
  BY <1>1, <1>2, <1>4 DEF Pushed, Edited
<1>7. d[1] = InstrCall(l, i)
  <2>1. calls \in Seq(CallType)
    BY <1>2, StackFacts
  <2>2. InstrCall(l, i) \in CallType
    BY <1>2 DEF InstrCall, CallType, InstrType
  <2>3. IsOnTop(InstrCall(l, i), calls, d)
    BY <1>4, <2>1, <2>2, OnTopIs DEF Pushed
  <2>. QED  BY <2>3 DEF IsOnTop
<1>8. RHead(t.sys, fr, d, ret')
  <2>1. PICK c : c = InstrCall(l, i)
    OBVIOUS
  <2>2. c.op = "instr" /\ c.pc = "start" /\ c.who = l
    BY <2>1 DEF InstrCall
  <2>3. HeadInstr(t.sys, Len(fr), c, ret')
    BY <1>6, <2>2 DEF HeadInstr
  <2>. QED  BY <1>7, <2>1, <2>2, <2>3 DEF RHead
<1>. QED  BY <1>5, <1>6, <1>8 DEF RNow, RAll

LEMMA ImportInstrRegular ==
  ASSUME CoreInv, RNow, Regular, NEW i \in Instr, NEW b \in BOOLEAN, ImportInstr(i, b)
  PROVE  Advances
<1>1. Spend(Program) /\ i.k \in prog[Program].ops
  BY DEF ImportInstr
<1>2. Program \in {"main", "body"}
  BY DEF Program
<1>3. Running /\ bodies[Top].again = NoInstr
  BY <1>1, <1>2, SpendFacts
<1>4. PICK l : l = Len(bodies)
  OBVIOUS
<1>5. Top = l /\ l \in Nat \ {0}
  BY <1>3, <1>4, RunningKnows
<1>6. Allowed(l, i)
  <2>1. CASE l = 1
    <3>1. Program = "main"
      BY <1>5, <2>1 DEF Program
    <3>2. i.k # "dunder"
      BY <1>1, <3>1 DEF Regular
    <3>. QED  BY <2>1, <3>2 DEF Allowed
  <2>2. CASE l # 1
    <3>1. Program = "body"
      BY <1>5, <2>2 DEF Program
    <3>2. i.k \in ByStatement
      BY <1>1, <3>1 DEF Regular, ByStatement
    <3>. QED  BY <3>2 DEF Allowed, ByStatement
  <2>. QED  BY <2>1, <2>2
<1>7. PICK fr : fr = Step(b)
  OBVIOUS
<1>8. Edited(bodies, l, fr) /\ ~fr[l].fresh /\ fr[l].again = NoInstr /\ fr[l].got = {} /\ fr[l].ran = {}
  BY <1>3, <1>4, <1>7, StepEdits
<1>9. PICK t : t = StartedStore
  OBVIOUS
<1>10. Store' = t
  BY <1>9 DEF ImportInstr, StartedStore, Store
<1>11. RStore(t) /\ RFrames(t, fr)
  BY <1>3, <1>4, <1>8, <1>9, StartedGoing, RGoing
<1>12. RInstr(fr, InstrCall(l, i))
  <2>1. PICK c : c = InstrCall(l, i)
    OBVIOUS
  <2>2. c.who = l /\ c.i = i /\ c.pc = "start"
    BY <2>1 DEF InstrCall
  <2>3. RInstr(fr, c)
    BY <1>6, <1>8, <2>2 DEF RInstr, BodyBegun
  <2>. QED  BY <2>1, <2>3
<1>13. bodies' = fr /\ calls' = <<InstrCall(Top, i)>> \o calls
  BY <1>7 DEF ImportInstr
<1>14. RNow'
  BY <1>3, <1>4, <1>8, <1>10, <1>11, <1>12, <1>13, RStarts
<1>15. ASSUME RunsNow PROVE RunsNow'
  <2>1. l # 1 => Keeps(Store, t)
    BY <1>3, <1>4, <1>9, StartedGoing, GoingKeeps
  <2>2. calls' = Pushed(l, i, calls)
    BY <1>5, <1>13 DEF Pushed
  <2>. QED  BY <1>3, <1>4, <1>8, <1>10, <1>13, <1>15, <2>1, <2>2, RunsTop
<1>. QED  BY <1>14, <1>15 DEF Advances

(* The instruction is repeated. *)
LEMMA RetryRegular ==
  ASSUME CoreInv, RNow, Retry
  PROVE  Advances
<1>1. Running /\ bodies[Top].again # NoInstr /\ Store' = Store
  BY DEF Retry, Store
<1>2. PICK l, i : l = Len(bodies) /\ i = bodies[l].again
  OBVIOUS
<1>3. Top = l /\ l \in 1 .. l /\ bodies[l] \in FrameType /\ bodies \in Seq(FrameType) /\ i # NoInstr
  BY <1>1, <1>2, RunningKnows, RFacts, FramesFacts
<1>4. i \in Instr
  BY <1>2, <1>3 DEF FrameType
<1>5. FramesOK(Store, bodies) /\ RFrames(Store, bodies) /\ RStore(Store)
  BY RFacts
<1>6. i.k \in ByStatement /\ bodies[l].got = {}
  BY <1>2, <1>3, <1>5 DEF RFrames, RAgain
<1>7. l >= 2 => ~bodies[l].fresh
  <2>1. SUFFICES ASSUME l >= 2 PROVE ~bodies[l].fresh
    OBVIOUS
  <2>2. l \in 2 .. Len(bodies)
    BY <1>2, <1>3, <2>1
  <2>3. RFrame(Store, bodies, l)
    BY <1>5, <2>2 DEF RFrames
  <2>. QED  BY <1>2, <1>3, <2>3 DEF RFrame
<1>8. PICK f : f = [bodies[l] EXCEPT !.again = NoInstr]
  OBVIOUS
<1>9. /\ f.obj = bodies[l].obj /\ f.got = {} /\ f.again = NoInstr /\ f.fresh = bodies[l].fresh
      /\ f.ran = bodies[l].ran
  BY <1>3, <1>6, <1>8 DEF FrameType
<1>10. PICK fr : fr = [bodies EXCEPT ![l] = f]
  OBVIOUS
<1>11. bodies' = fr
  BY <1>3, <1>8, <1>10 DEF Retry
<1>12. Edited(bodies, l, fr) /\ fr[l] = f
  <2>1. l \in 1 .. Len(bodies)
    BY <1>2, <1>3
  <2>2. /\ Len([bodies EXCEPT ![l] = f]) = Len(bodies) /\ [bodies EXCEPT ![l] = f][l] = f
        /\ \A j \in 1 .. Len(bodies) : j # l => [bodies EXCEPT ![l] = f][j] = bodies[j]
    BY <1>3, <2>1, ExceptIs
  <2>. QED  BY <1>9, <1>10, <2>2 DEF Edited
<1>13. RFrames(Store, fr)
  <2>1. /\ AgainOK(fr[l]) /\ \A o \in fr[l].got : Complete(Store, bodies, l, o)
    BY <1>9, <1>12 DEF AgainOK
  <2>2. l \in 1 .. Len(bodies) /\ (l >= 2 => (fr[l].fresh <=> bodies[l].fresh))
        /\ (l >= 2 /\ fr[l].fresh => fr[l].again = NoInstr /\ ~fr[l].guard)
    BY <1>2, <1>3, <1>7, <1>9, <1>12
  <2>. QED  BY <1>5, <1>12, <2>1, <2>2, FramesEdited
<1>14. RInstr(fr, InstrCall(l, i))
  <2>1. PICK c : c = InstrCall(l, i)
    OBVIOUS
  <2>2. c.who = l /\ c.i = i /\ c.pc = "start"
    BY <2>1 DEF InstrCall
  <2>3. i.k # "dunder"
    BY <1>6 DEF ByStatement
  <2>4. RInstr(fr, c)
    BY <1>6, <1>7, <1>9, <1>12, <2>2, <2>3 DEF RInstr, BodyBegun, Allowed
  <2>. QED  BY <2>1, <2>4
<1>15. calls' = <<InstrCall(Top, i)>> \o calls
  BY <1>2, <1>3 DEF Retry
<1>16. RNow'
  BY <1>1, <1>2, <1>4, <1>5, <1>11, <1>12, <1>13, <1>14, <1>15, RStarts
<1>17. ASSUME RunsNow PROVE RunsNow'
  <2>1. Keeps(Store, Store)
    BY DEF Keeps
  <2>2. calls' = Pushed(l, i, calls)
    BY <1>3, <1>15 DEF Pushed
  <2>3. bodies[l].again # NoInstr
    BY <1>2, <1>3
  <2>4. fr[l].fresh = bodies[l].fresh /\ fr[l].ran = bodies[l].ran
    BY <1>9, <1>12
  <2>. QED  BY <1>1, <1>2, <1>4, <1>7, <1>11, <1>12, <1>17, <2>1, <2>2, <2>3, <1>7, <2>4, RunsTop
<1>. QED  BY <1>16, <1>17 DEF Advances

(* The program deletes a name. *)
LEMMA DeleteRegular ==
  ASSUME CoreInv, RNow, Regular, NEW n \in Names, Delete(n)
  PROVE  Advances
<1>1. Spend(Program) /\ n \in prog[Program].dels
  BY DEF Delete
<1>2. Program = "main" /\ Top = 1
  BY <1>1 DEF Regular, Program
<1>3. Alone(n)
  BY <1>1, <1>2 DEF Regular, Alone
<1>4. Running /\ bodies[Top].again = NoInstr
  BY <1>1, <1>2, SpendFacts
<1>5. Len(bodies) = 1 /\ calls = <<>>
  <2>1. Top = Len(bodies) /\ (Len(bodies) = 1 => calls = <<>>)
    BY <1>4, RunningFacts
  <2>. QED  BY <1>2, <2>1
<1>6. StoreOK(Store) /\ RStore(Store) /\ FramesOK(Store, bodies) /\ RFrames(Store, bodies)
  BY RFacts
<1>7. PICK s : s = [Store EXCEPT !.sys = Drop(@, {n})]
  OBVIOUS
<1>8. s.cache = Store.cache /\ s.obj = Store.obj /\ IsDrop(Store.sys, {n}, s.sys)
  BY <1>6, <1>7, SysDrop
<1>9. RStore(s)
  BY <1>3, <1>6, <1>8, DroppedStore
<1>10. Store' = s
  BY <1>2, <1>7 DEF Delete, Started, Store
<1>11. PICK fr : fr = Step(FALSE)
  OBVIOUS
<1>12. Edited(bodies, 1, fr) /\ fr[1].again = NoInstr /\ fr[1].got = {} /\ fr[1].ran = {} /\ ~fr[1].fresh
  BY <1>4, <1>5, <1>11, StepEdits
<1>13. RFrames(s, fr)
  <2>1. Len(fr) = 1
    BY <1>5, <1>12 DEF Edited
  <2>2. 2 .. Len(fr) = {} /\ \A k \in 1 .. Len(fr) : k = 1
    BY <2>1
  <2>. QED  BY <1>12, <2>2 DEF RFrames, RGot, RAgain
<1>14. RCalls(s, fr, calls)
  BY <1>4, <1>5, <1>12, RCallsOn
<1>15. RHead(s.sys, fr, calls, ret)
  BY <1>5 DEF RHead
<1>16. bodies' = fr /\ UNCHANGED <<calls, ret>>
  BY <1>11 DEF Delete
<1>17. RNow'
  BY <1>9, <1>10, <1>13, <1>14, <1>15, <1>16 DEF RNow, RAll
<1>18. ASSUME RunsNow PROVE RunsNow'
  <2>1. \E i : i = NoInstr
    OBVIOUS
  <2>. QED  BY <1>4, <1>5, <1>10, <1>12, <1>16, <1>18, <2>1, RunsTop
<1>. QED  BY <1>17, <1>18 DEF Advances

(* A body raises. *)
LEMMA RaiseRegular ==
  ASSUME CoreInv, RNow, Raise
  PROVE  Advances
<1>1. Top > 1 /\ Spend("body")
  BY DEF Raise
<1>2. Running /\ bodies[Top].again = NoInstr
  BY <1>1, SpendFacts
<1>3. PICK l : l = Len(bodies)
  OBVIOUS
<1>4. l \in Nat /\ l > 1 /\ l >= 2 /\ l \in 1 .. l /\ Idle(calls)
  <2>1. l \in Nat \ {0} /\ l > 1 /\ l \in 1 .. l /\ Idle(calls)
    BY <1>1, <1>2, <1>3, RunningKnows, TopFacts
  <2>. QED  BY <2>1
<1>5. PICK s : s = StartedStore
  OBVIOUS
<1>6. PICK fr : fr = Step(FALSE)
  OBVIOUS
<1>7. Edited(bodies, l, fr) /\ ~fr[l].fresh /\ fr[l].again = NoInstr /\ fr[l].got = {}
  BY <1>2, <1>3, <1>6, StepEdits
<1>8. RStore(s) /\ RFrames(s, fr) /\ RCalls(s, fr, calls)
  BY <1>2, <1>3, <1>5, <1>7, StartedGoing, RGoing
<1>9. StoreOK(s) /\ FramesOK(s, bodies)
  BY <1>2, <1>5, StartedFacts
<1>10. FramesOK(s, fr)
  <2>1. fr = [bodies EXCEPT ![l] = [bodies[l] EXCEPT !.fresh = FALSE, !.guard = FALSE \/ l = 1, !.got = {}, !.ran = {}]]
    BY <1>3, <1>6 DEF Step, Top
  <2>2. PICK f : f = [bodies[l] EXCEPT !.fresh = FALSE, !.guard = FALSE \/ l = 1, !.got = {}, !.ran = {}]
    OBVIOUS
  <2>3. l \in 1 .. Len(bodies) /\ bodies[l] \in FrameType
    BY <1>3, <1>4, <1>9, FramesFacts
  <2>4. f \in FrameType /\ f.obj = bodies[l].obj /\ (l = 1 => f.guard) /\ f.got = {} /\ f.again = bodies[l].again
    BY <2>2, <2>3 DEF FrameType
  <2>5. bodies[l].again = NoInstr
    BY <1>2, <1>3 DEF Top
  <2>6. IsEdit(s, bodies, l, f, SetFrame(bodies, l, f))
    <3>1. f.got \subseteq DOMAIN s.obj /\ (f.again # NoInstr => InstrOK(f.again))
      BY <2>4, <2>5
    <3>. QED  BY <1>9, <2>3, <2>4, <3>1, EditIs
  <2>7. fr = SetFrame(bodies, l, f)
    BY <2>1, <2>2 DEF SetFrame
  <2>. QED  BY <2>6, <2>7 DEF IsEdit
<1>11. RFrames(Store, bodies) /\ StackOK(Store, l, calls)
  BY <1>3, RFacts
<1>12. \A i \in 2 .. l : i \in 1 .. l /\ (bodies[i].fresh => i = l /\ ~bodies[i].guard)
  BY <1>3, <1>4, <1>11 DEF RFrames, RFrame
<1>13. AllBegun(fr)
  <2>1. SUFFICES ASSUME NEW i \in 2 .. l, fr[i].fresh PROVE FALSE
    BY <1>3, <1>7 DEF AllBegun, Edited
  <2>. QED  BY <1>3, <1>7, <1>12, <2>1 DEF Edited
<1>14. Seen(fr, bodies)
  <2>1. l \in 2 .. l
    BY <1>4
  <2>2. bodies[l].guard => BodyBegun(bodies, l)
    BY <1>12, <2>1 DEF BodyBegun
  <2>3. \A i \in 1 .. l : fr[i].obj = bodies[i].obj
    BY <1>3, <1>7 DEF Edited
  <2>. QED  BY <1>3, <1>7, <2>2, <2>3 DEF Seen, Edited
<1>15. UnwindTo(s, calls)
  BY <1>5 DEF Raise, StartedStore
<1>16. RNow'
  BY <1>3, <1>4, <1>8, <1>9, <1>10, <1>11, <1>13, <1>14, <1>15, RUnwound
<1>17. ASSUME RunsNow PROVE RunsNow'
  <2>1. Keeps(Store, s) /\ DOMAIN Store.obj \subseteq DOMAIN s.obj
    <3>1. Going(s) /\ Len(bodies) # 1 /\ Len(bodies) >= 2
      BY <1>2, <1>3, <1>4, <1>5, StartedGoing
    <3>2. Starting(Store, bodies[Len(bodies)].obj, s)
      BY <3>1 DEF Going
    <3>. QED  BY <3>1, <3>2, GoingKeeps DEF Starting
  <2>2. \A j : Busy(bodies, calls, j) => Busy(bodies, calls, j)
    OBVIOUS
  <2>3. \A j : FailsAt(calls, ret, j) => j = Len(bodies)
    BY <1>4, NoneFailsNow
  <2>. QED  BY <1>3, <1>4, <1>8, <1>9, <1>10, <1>11, <1>13, <1>14, <1>15, <1>17, <2>1, <2>2, <2>3, RunsUnwound
<1>. QED  BY <1>16, <1>17 DEF Advances

(* A body ends: the import below has run it. *)
LEMMA RunsEnded ==
  ASSUME CoreInv, RNow, RunsNow, Idle(calls), Len(bodies) # 1,
         NEW o, o = bodies[Len(bodies)].obj, NEW n, Answered(Store.sys, o, n),
         NEW t, t.sys = Store.sys, t.obj[o].st = "done",
         \A i \in DOMAIN Store.obj : t.obj[i].name = Store.obj[i].name /\ (i # o => t.obj[i] = Store.obj[i]),
         NEW g, EndedTo(bodies, n, o, g)
  PROVE  Runs(t, g, calls, ret)
<1>1. PICK l, k : l = Len(bodies) /\ k = l - 1
  OBVIOUS
<1>2. l \in Nat \ {0} /\ RFrames(Store, bodies) /\ StoreOK(Store) /\ StackOK(Store, l, calls) /\ RCalls(Store, bodies, calls)
  BY <1>1, RFacts
<1>3. k \in Nat \ {0} /\ l = k + 1 /\ \A i \in 1 .. k : i \in 1 .. l /\ i # l
  BY <1>1, <1>2
<1>4. \A i \in 1 .. k : /\ g[i].obj = bodies[i].obj /\ g[i].fresh = bodies[i].fresh /\ g[i].again = bodies[i].again
                        /\ g[i].ran = IF i = k THEN bodies[i].ran \cup {n} ELSE bodies[i].ran
  BY <1>1 DEF EndedTo
<1>5. Len(g) = k
  BY <1>1 DEF EndedTo
<1>6. NotRun(t, g)
  <2>1. SUFFICES ASSUME NEW i \in 2 .. k, g[i].fresh PROVE FALSE
    BY <1>5 DEF NotRun
  <2>2. i \in 2 .. l /\ i \in 1 .. k /\ i # l
    BY <1>3
  <2>3. bodies[i].fresh
    BY <1>4, <2>1, <2>2
  <2>. QED  BY <1>1, <1>2, <2>2, <2>3 DEF RFrames, RFrame
<1>7. Keeps(Store, t)
  BY DEF Keeps
<1>8. ASSUME NEW i \in 1 .. k, Busy(g, calls, i) PROVE HasRun(t, g, i)
  <2>1. Busy(bodies, calls, i)
    BY <1>4, <1>8 DEF Busy
  <2>2. HasRun(Store, bodies, i)
    BY <1>1, <1>3, <2>1, NoneFailsNow DEF RunsNow, Runs
  <2>3. \A m \in bodies[i].ran : m \in DOMAIN t.sys /\ t.obj[t.sys[m]].st = "done"
    <3>1. \A m \in DOMAIN Store.sys : Store.sys[m] \in DOMAIN Store.obj
      BY <1>2, SysObjects
    <3>. QED  BY <1>7, <2>2, <3>1 DEF HasRun, Keeps
  <2>4. n \in DOMAIN t.sys /\ t.obj[t.sys[n]].st = "done"
    BY DEF Answered
  <2>. QED  BY <1>4, <2>3, <2>4 DEF HasRun
<1>9. \A i \in 1 .. Len(calls) : Noted(g, calls, calls[i])
  BY <1>2, LowNoted
<1>. QED  BY <1>5, <1>6, <1>8, <1>9 DEF Runs

(* A body ends. *)
LEMMA EndBodyRegular ==
  ASSUME CoreInv, RNow, EndBody
  PROVE  Advances
<1>1. Running /\ Top > 1 /\ UNCHANGED <<calls, ret>>
  BY DEF EndBody, Ready
<1>2. PICK l : l = Len(bodies)
  OBVIOUS
<1>3. l \in Nat /\ l # 1 /\ l >= 2 /\ l \in 1 .. l /\ l \in 2 .. l /\ Idle(calls)
  <2>1. l \in Nat \ {0} /\ l > 1 /\ l \in 1 .. l /\ Idle(calls)
    BY <1>1, <1>2, RunningKnows, TopFacts
  <2>. QED  BY <2>1
<1>4. /\ StoreOK(Store) /\ RStore(Store) /\ FramesOK(Store, bodies) /\ RFrames(Store, bodies)
      /\ StackOK(Store, l, calls) /\ RCalls(Store, bodies, calls)
  BY <1>2, RFacts
<1>5. PICK o, n, c, t :
           /\ o = bodies[Len(bodies)].obj /\ o \in DOMAIN Store.obj /\ n = Store.obj[o].name
           /\ IsEnded(Store, o, n, c, t) /\ SetStore(t) /\ bodies' = EndFrames(n, o, c)
  BY SMTT(60), EndIs
<1>6. Answered(Store.sys, o, n)
  <2>1. RFrame(Store, bodies, l)
    BY <1>2, <1>3, <1>4 DEF RFrames
  <2>. QED  BY <1>2, <1>5, <2>1 DEF RFrame, NameAt
<1>7. c = o
  <2>1. n \in DOMAIN Store.cache /\ Store.cache[n] = o
    BY SMTT(60), <1>4, <1>6, SysNamed DEF Answered
  <2>2. c = IF n \in DOMAIN Store.cache THEN Store.cache[n] ELSE o
    BY <1>5 DEF IsEnded
  <2>. QED  BY <2>1, <2>2
<1>8. /\ RStore(t) /\ t.sys = Store.sys /\ DOMAIN t.obj = DOMAIN Store.obj /\ t.obj[o].st = "done"
      /\ \A i \in DOMAIN Store.obj : t.obj[i].name = Store.obj[i].name /\ (i # o => t.obj[i] = Store.obj[i])
  <2>1. IsEnded(Store, o, n, o, t)
    BY <1>5, <1>7
  <2>. QED  BY <1>4, <1>5, <2>1, EndedStore
<1>9. Store' = t
  <2>1. n \in Names
    BY <1>4, <1>5, ObjDomain, ModFields
  <2>2. Tame(Store, t)
    BY <1>4, <1>5, <2>1, EndedTame
  <2>. QED  BY <1>5, <2>2, StoreSet DEF Tame, StoreOK
<1>10. PICK g : g = EndFrames(n, o, o)
  OBVIOUS
<1>11. PICK k : k = l - 1
  OBVIOUS
<1>12. k \in Nat \ {0} /\ l = k + 1 /\ \A i \in 1 .. k : i \in 1 .. l /\ i # l
  BY <1>3, <1>11
<1>13. \A i \in 1 .. k : g[i] = EndFrame(bodies[i], i = k, n, o, o)
  BY <1>2, <1>10, <1>11 DEF EndFrames
<1>14. ASSUME NEW i \in 1 .. k
       PROVE  /\ g[i] \in FrameType
              /\ g[i].obj = bodies[i].obj /\ g[i].fresh = bodies[i].fresh /\ g[i].again = bodies[i].again
              /\ g[i].guard = bodies[i].guard /\ g[i].got = bodies[i].got
              /\ g[i].ran = IF i = k THEN bodies[i].ran \cup {n} ELSE bodies[i].ran
  <2>1. bodies[i] \in FrameType /\ bodies[i].got \subseteq DOMAIN Store.obj
    BY <1>2, <1>4, <1>12, FramesFacts DEF FramesOK
  <2>2. PICK b \in BOOLEAN : b = (i = k)
    OBVIOUS
  <2>3. g[i] = EndFrame(bodies[i], b, n, o, o)
    BY <1>13, <2>2
  <2>4. DOMAIN Store.obj \subseteq Nat /\ n \in Names
    BY <1>4, <1>5, ObjDomain, ModFields
  <2>5. IsEndFrame(DOMAIN Store.obj, bodies[i], b, n, o, o, EndFrame(bodies[i], b, n, o, o))
    BY <1>5, <2>1, <2>4, EndFrameIs
  <2>6. {IF x = o THEN o ELSE x : x \in bodies[i].got} = bodies[i].got
    OBVIOUS
  <2>. QED  BY <2>2, <2>3, <2>5, <2>6 DEF IsEndFrame
<1>15. Len(g) = k
  <2>1. DOMAIN g = 1 .. k /\ g = [i \in 1 .. k |-> g[i]]
    BY <1>2, <1>10, <1>11 DEF EndFrames
  <2>. QED  BY <1>12, <1>14, <2>1
<1>16. EndedTo(bodies, n, o, g)
  BY <1>2, <1>11, <1>14, <1>15 DEF EndedTo
<1>17. RFrames(t, g)
  BY <1>2, <1>3, <1>4, <1>5, <1>8, <1>16, FramesEnded
<1>18. LowKept(Store, bodies, t, g, calls)
  <2>1. SUFFICES ASSUME calls # <<>>
                 PROVE  /\ g[1].again = bodies[1].again /\ (bodies[1].got = {} => g[1].got = {})
                        /\ Drained(Store, bodies, calls[2]) => Drained(t, g, calls[2])
    BY DEF LowKept
  <2>2. 1 \in 1 .. k
    BY <1>12
  <2>3. SUFFICES ASSUME Drained(Store, bodies, calls[2]) PROVE Drained(t, g, calls[2])
    BY <1>14, <2>2
  <2>4. PICK d : d = calls[2]
    OBVIOUS
  <2>5. bodies[2].obj = d.o
    BY <1>2, <1>3, <2>3, <2>4 DEF Drained
  <2>6. CASE k = 1
    <3>1. l = 2 /\ o = d.o
      BY <1>2, <1>5, <1>12, <2>5, <2>6
    <3>2. calls[1].op = "run" /\ calls[1].op # "instr"
      BY <1>3, <2>1 DEF Idle
    <3>3. CalledBy(calls[1], d) /\ CallOK(Store, d) /\ RCall(Store, bodies, d)
      BY <1>4, <2>1, <2>4, <3>2, CallerIs
    <3>4. Named(Store, d.o, d.n)
      <4>1. RunBy(calls[1], d)
        BY <3>2, <3>3 DEF CalledBy
      <4>2. d.op = "import" /\ d.pc \in {"drained", "rescued"}
        BY <3>3, <4>1 DEF RunBy, RCall
      <4>. QED  BY <3>3, <4>2 DEF CallOK
    <3>5. d.n = n
      BY <1>5, <3>1, <3>4 DEF Named
    <3>. QED  BY <1>6, <1>8, <1>15, <2>4, <2>6, <3>1, <3>5 DEF Drained
  <2>7. CASE k # 1
    <3>1. 2 \in 1 .. k
      BY <1>12, <2>7
    <3>2. g[2].obj = bodies[2].obj
      BY <1>14, <3>1
    <3>. QED  BY <1>15, <2>4, <2>5, <2>7, <3>2 DEF Drained
  <2>. QED  BY <2>6, <2>7
<1>19. RCalls(t, g, calls)
  BY <1>3, <1>4, <1>18, RCallsLow
<1>20. RHead(t.sys, g, calls, ret)
  BY <1>3, HeadIdle
<1>21. bodies' = g
  BY <1>5, <1>7, <1>10
<1>22. RNow'
  BY SMTT(60), <1>1, <1>8, <1>9, <1>17, <1>19, <1>20, <1>21 DEF RNow, RAll
<1>23. ASSUME RunsNow PROVE Runs(t, g, calls, ret)
  BY <1>2, <1>3, <1>4, <1>5, <1>6, <1>8, <1>16, <1>23, RunsEnded
<1>. QED  BY <1>1, <1>9, <1>21, <1>22, <1>23 DEF Advances, RunsNow

SameCode ==
  /\ prog'.body.dels = prog.body.dels /\ prog'.main.dels = prog.main.dels
  /\ prog'.main.ops = prog.main.ops /\ prog'.body.ops = prog.body.ops

LEMMA CodeKept ==
  ASSUME CoreInv, [ImportsNext]_importVars
  PROVE  SameCode
<1>1. ASSUME UNCHANGED prog PROVE SameCode
  BY <1>1 DEF SameCode
<1>2. ASSUME NEW who \in {"main", "body"}, Spend(who) PROVE SameCode
  BY <1>2, SpendFacts DEF SameCode
<1>3. CASE Native
  <2>1. UNCHANGED prog
    BY <1>3 DEF Native, ImportStart, ImportMeta, ImportLoaded, ImportDrained, ImportAgain, LoadStart, LoadParent,
                LoadDrained, EndDrain, InstrStart, InstrDeferred, InstrHead, InstrImported, InstrSub
  <2>. QED  BY SMTT(60), <1>1, <2>1
<1>4. CASE Bytecode
  <2>1. UNCHANGED prog \/ Spend(Program) \/ Spend("body")
    BY <1>4 DEF Bytecode, ImportInstr, Delete, Define, Raise, Retry, EndBody
  <2>2. Program \in {"main", "body"}
    BY DEF Program
  <2>. QED  BY <1>1, <1>2, <2>1, <2>2
<1>5. CASE UNCHANGED importVars
  BY <1>1, <1>5 DEF importVars
<1>. QED  BY <1>3, <1>4, <1>5 DEF ImportsNext

LEMMA RegularKept ==
  ASSUME CoreInv, [ImportsNext]_importVars, Regular'
  PROVE  Regular
BY CodeKept DEF Regular, SameCode

LEMMA RegularNext ==
  ASSUME CoreInv, RNow, Regular, [ImportsNext]_importVars
  PROVE  Advances
<1>1. ASSUME Native PROVE Advances
  <2>1. ~LoadParent /\ ~LoadDrained
    BY NoParentLoad DEF LoadParent, LoadDrained
  <2>2. ~InstrHead
    BY NoHead DEF InstrHead
  <2>3. ASSUME ImportStart \/ ImportMeta \/ ImportLoaded \/ ImportDrained \/ ImportAgain \/ LoadStart \/ EndDrain
        PROVE  Advances
    <3>1. RNow'
      BY <2>3, ImportStartRegular, ImportMetaRegular, ImportLoadedRegular, ImportDrainedRegular,
         ImportAgainRegular, LoadStartRegular, EndDrainRegular
    <3>2. ASSUME RunsNow PROVE RunsNow'
      BY <2>3, <3>2, ImportStartRuns, ImportMetaRuns, ImportLoadedRuns, ImportDrainedRuns, ImportAgainRuns,
         LoadStartRuns, EndDrainRuns
    <3>. QED  BY <3>1, <3>2 DEF Advances
  <2>4. ASSUME InstrStart \/ InstrDeferred \/ InstrImported \/ InstrSub
        PROVE  Advances
    BY <2>4, InstrStartRegular, InstrDeferredRegular, InstrImportedRegular, InstrSubRegular
  <2>. QED  BY <1>1, <2>1, <2>2, <2>3, <2>4 DEF Native
<1>2. ASSUME Bytecode PROVE Advances
  BY <1>2, ImportInstrRegular, DeleteRegular, DefineRegular, RaiseRegular, RetryRegular, EndBodyRegular DEF Bytecode
<1>3. ASSUME UNCHANGED importVars PROVE Advances
  <2>1. Store' = Store /\ UNCHANGED <<bodies, calls, ret>>
    BY <1>3 DEF importVars, Store
  <2>2. RNow'
    BY <2>1 DEF RNow
  <2>3. ASSUME RunsNow PROVE RunsNow'
    BY <2>1, <2>3 DEF RunsNow
  <2>. QED  BY <2>2, <2>3 DEF Advances
<1>. QED  BY <1>1, <1>2, <1>3 DEF ImportsNext

LEMMA RegularInit ==
  ASSUME ImportsInit
  PROVE  RNow
<1>1. cache = <<>> /\ sysmods = <<>> /\ obj = <<>> /\ calls = <<>> /\ ret = NoRet
  BY DEF ImportsInit
<1>2. PICK f : f = [QueuedFrame(0) EXCEPT !.guard = TRUE]
  OBVIOUS
<1>3. bodies = <<f>> /\ f.got = {} /\ f.again = NoInstr
  BY <1>2 DEF ImportsInit, QueuedFrame
<1>4. Len(bodies) = 1 /\ bodies[1] = f
  BY <1>3
<1>5. RStore(Store)
  <2>1. DOMAIN Store.obj = {} /\ DOMAIN Store.sys = {} /\ DOMAIN Store.cache = {}
    BY <1>1, StoreIs
  <2>. QED  BY <2>1 DEF RStore, RObjects, REntries, RKids, RCached
<1>6. RFrames(Store, bodies)
  <2>1. 2 .. Len(bodies) = {} /\ \A k \in 1 .. Len(bodies) : k = 1
    BY <1>4
  <2>. QED  BY <1>3, <1>4, <2>1 DEF RFrames, RGot, RAgain
<1>7. RCalls(Store, bodies, calls)
  <2>1. 1 .. Len(calls) = {} /\ 1 .. Len(calls) - 1 = {}
    BY <1>1
  <2>. QED  BY <2>1 DEF RCalls, RDeep
<1>8. RHead(Store.sys, bodies, calls, ret)
  BY <1>1 DEF RHead
<1>. QED  BY <1>5, <1>6, <1>7, <1>8 DEF RNow, RAll

RegularInv == Regular => RNow

(* What every step keeps besides, for Regular programs. *)
THEOREM RegularHolds == ImportsSpec => []RegularInv
<1>1. ImportsInit => RegularInv
  BY RegularInit DEF RegularInv
<1>2. CoreInv /\ RegularInv /\ [ImportsNext]_importVars => RegularInv'
  BY RegularKept, RegularNext DEF RegularInv, Advances
<1>. QED  BY <1>1, <1>2, CoreHolds, PTL DEF ImportsSpec

LEMMA RunsInit ==
  ASSUME ImportsInit
  PROVE  RunsNow
<1>1. PICK f : f = [QueuedFrame(0) EXCEPT !.guard = TRUE]
  OBVIOUS
<1>2. bodies = <<f>> /\ f.ran = {} /\ calls = <<>>
  BY <1>1 DEF ImportsInit, QueuedFrame
<1>3. Len(bodies) = 1 /\ bodies[1] = f /\ Len(calls) = 0
  BY <1>2
<1>4. NotRun(Store, bodies)
  <2>1. 2 .. Len(bodies) = {}
    BY <1>3
  <2>. QED  BY <2>1 DEF NotRun
<1>5. \A k \in 1 .. Len(bodies) : HasRun(Store, bodies, k)
  <2>1. \A k \in 1 .. Len(bodies) : bodies[k].ran = {}
    BY <1>2, <1>3
  <2>. QED  BY <2>1 DEF HasRun
<1>6. 1 .. Len(calls) = {}
  BY <1>3
<1>. QED  BY <1>4, <1>5, <1>6 DEF RunsNow, Runs

(* What an import instruction has run it keeps, for Regular programs. *)
THEOREM RunsHold == ImportsSpec => []RunsInv
<1>1. ImportsInit => RunsInv
  BY RunsInit DEF RunsInv
<1>2. CoreInv /\ RegularInv /\ RunsInv /\ [ImportsNext]_importVars => RunsInv'
  BY RegularKept, RegularNext DEF RegularInv, RunsInv, Advances
<1>. QED  BY <1>1, <1>2, CoreHolds, RegularHolds, PTL DEF ImportsSpec

LEMMA RunsProperty ==
  ASSUME CoreInv, RunsInv
  PROVE  BodyRunsOnce
<1>1. SUFFICES ASSUME Regular, NEW i \in 2 .. Top, bodies[i].fresh
               PROVE  obj[bodies[i].obj].name \notin bodies[i - 1].ran
  BY DEF BodyRunsOnce
<1>2. NotRun(Store, bodies) /\ Store.obj = obj
  BY <1>1, StoreIs DEF RunsInv, RunsNow, Runs
<1>. QED  BY <1>1, <1>2 DEF NotRun, NameAt, Top

-----------------------------------------------------------------------------
LEMMA InitOnStack ==
  ASSUME CoreInv, NEW o \in DOMAIN obj, obj[o].init
  PROVE  OnStack(o, 1 .. Len(bodies))
BY CoreFacts, StoreIs DEF FramesOK, OnStack

LEMMA RegularStore ==
  ASSUME CoreInv, RNow
  PROVE  /\ \A n \in DOMAIN sysmods : sysmods[n] \in DOMAIN obj
         /\ \A n \in DOMAIN sysmods : obj[sysmods[n]].st = "done" \/ OnStack(sysmods[n], 1 .. Len(bodies))
         /\ DOMAIN bodies = 1 .. Len(bodies)
<1>1. REntries(Store) /\ StoreOK(Store) /\ FramesOK(Store, bodies)
  BY RFacts DEF RStore
<1>2. \A n \in DOMAIN sysmods : sysmods[n] \in DOMAIN obj
  BY <1>1, StoreIs, SysObjects
<1>3. \A n \in DOMAIN sysmods : obj[sysmods[n]].st = "done" \/ obj[sysmods[n]].init
  BY <1>1, StoreIs DEF REntries
<1>4. DOMAIN bodies = 1 .. Len(bodies)
  BY <1>1, FramesFacts
<1>. QED  BY <1>2, <1>3, <1>4, InitOnStack

LEMMA RegularProperties ==
  ASSUME CoreInv, RegularInv
  PROVE  PackageFirst /\ NothingHalfInitialised /\ QueuedBodiesRun
<1>. SUFFICES ASSUME Regular
              PROVE  PackageFirst /\ NothingHalfInitialised /\ QueuedBodiesRun
  BY DEF PackageFirst, NothingHalfInitialised, QueuedBodiesRun, NoHalfInitialised, BindingsCurrent,
         ImportedIsComplete, SyncIsComplete
<1>1. RNow
  BY DEF RegularInv
<1>2. /\ RObjects(Store) /\ RKids(Store) /\ RFrames(Store, bodies) /\ Store.obj = obj /\ Store.sys = sysmods
      /\ RHead(Store.sys, bodies, calls, ret) /\ Len(bodies) \in Nat \ {0}
  BY <1>1, RFacts, StoreIs DEF RStore
<1>3. PackageFirst
  BY <1>2 DEF RObjects, PackageFirst, Begun
<1>4. QueuedBodiesRun
  BY <1>2 DEF RObjects, QueuedBodiesRun, Stages
<1>5. NoHalfInitialised
  BY <1>1, RegularStore DEF NoHalfInitialised
<1>6. BindingsCurrent
  BY <1>2 DEF RKids, BindingsCurrent, Answered, Has
<1>7. ImportedIsComplete
  <2>1. SUFFICES ASSUME Running, NEW o \in bodies[Top].got
                 PROVE  obj[o].st = "done" \/ OnStack(o, 1 .. Top)
    BY DEF ImportedIsComplete
  <2>2. PICK l : l = Len(bodies)
    OBVIOUS
  <2>3. Top = l /\ l \in 1 .. l
    BY <1>2, <2>2 DEF Top
  <2>4. Complete(Store, bodies, l, o)
    BY <1>2, <2>1, <2>2, <2>3 DEF RFrames, RGot
  <2>. QED  BY <1>2, <2>2, <2>3, <2>4 DEF Complete, OnStack
<1>8. SyncIsComplete
  <2>1. SUFFICES ASSUME At("instr", "imported"), Here.i.k = "resolve", ret.ok
                 PROVE  obj[ret.obj].st = "done" \/ OnStack(ret.obj, 1 .. Here.who)
    BY DEF SyncIsComplete
  <2>2. Here = calls[1] /\ calls[1].pc = "imported" /\ HeadInstr(Store.sys, Len(bodies), calls[1], ret)
    BY <1>1, <2>1, InstrKnows
  <2>3. Answered(sysmods, ret.obj, calls[1].i.n) /\ Len(bodies) = calls[1].who
    BY <1>2, <2>1, <2>2 DEF HeadInstr
  <2>. QED  BY <1>1, <2>2, <2>3, RegularStore DEF Answered
<1>. QED  BY <1>3, <1>4, <1>5, <1>6, <1>7, <1>8 DEF NothingHalfInitialised

(* The body of a package starts before those of its submodules             *)
(* (defer_dotted_import_until_parent_ready, import_module_via_meta_path).  *)
THEOREM PackagesStartFirst == ImportsSpec => []PackageFirst
<1>1. CoreInv /\ RegularInv => PackageFirst
  BY RegularProperties
<1>. QED  BY <1>1, CoreHolds, RegularHolds, PTL

(* Nothing half-initialised is handed out: what sys.modules, a package's   *)
(* attributes, an import statement and native code get is finished or is   *)
(* under way on the stack (return_imported_module_with_policy,             *)
(* cleanup_failed_import).                                                 *)
THEOREM ImportsAreComplete == ImportsSpec => []NothingHalfInitialised
<1>1. CoreInv /\ RegularInv => NothingHalfInitialised
  BY RegularProperties
<1>. QED  BY <1>1, CoreHolds, RegularHolds, PTL

(* An import does not run a body that it has already run to its end, the   *)
(* repetitions of its instruction included, nor is a queued body lost      *)
(* (import_module_object_with_policy, cleanup_failed_import).              *)
THEOREM ImportsRunBodiesOnce == ImportsSpec => []BodiesRunOnce
<1>1. CoreInv /\ RegularInv /\ RunsInv => BodiesRunOnce
  BY RegularProperties, RunsProperty DEF BodiesRunOnce
<1>. QED  BY <1>1, CoreHolds, RegularHolds, RunsHold, PTL
=============================================================================
