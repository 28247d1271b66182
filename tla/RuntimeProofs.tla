---------------------------- MODULE RuntimeProofs ---------------------------
(***************************************************************************)
(* Proofs about two parts of the runtime's objects.  About HeapGc, for any *)
(* objects, any of them with __del__, weak references or finalizers, and   *)
(* calls and collections nested to any depth: __del__ is called exactly    *)
(* once for what goes, and what the collector emptied stays out of the     *)
(* program's reach.  About SetObjects and the storage below it, for every  *)
(* set of values, every assignment of hashes to them (collisions and       *)
(* values without a hash included), every equality and every depth of      *)
(* __eq__.                                                                 *)
(***************************************************************************)
EXTENDS HeapGc, SetObjects, Integers, SequencesExt, FiniteSetTheorems, SequenceTheorems,
        WellFoundedInduction, TLAPS

-----------------------------------------------------------------------------
(* Sequences and numbers *)

(* What truncating a stack to its first n elements leaves. *)
LEMMA PrefixProperties ==
  ASSUME NEW S, NEW s \in Seq(S), NEW n \in 0 .. Len(s)
  PROVE  /\ SubSeq(s, 1, n) \in Seq(S)
         /\ Len(SubSeq(s, 1, n)) = n
         /\ \A i \in 1 .. n : SubSeq(s, 1, n)[i] = s[i]
<1>1. n \in Int /\ \A i \in 1 .. n : s[i] \in S
  OBVIOUS
<1>2. /\ SubSeq(s, 1, n) \in Seq(S)
      /\ Len(SubSeq(s, 1, n)) = IF 1 <= n THEN n - 1 + 1 ELSE 0
      /\ \A i \in 1 .. n - 1 + 1 : SubSeq(s, 1, n)[i] = s[1 + i - 1]
  BY <1>1, SubSeqProperties
<1>3. n - 1 + 1 = n /\ \A i \in 1 .. n : 1 + i - 1 = i
  BY <1>1
<1>. QED  BY <1>2, <1>3

(* What popping the top of a stack leaves. *)
LEMMA FrontProperties ==
  ASSUME NEW S, NEW s \in Seq(S), s # <<>>
  PROVE  /\ Len(s) \in Nat \ {0}
         /\ Front(s) \in Seq(S)
         /\ Len(Front(s)) = Len(s) - 1
         /\ \A i \in 1 .. (Len(s) - 1) : Front(s)[i] = s[i]
         /\ Last(s) = s[Len(s)]
         /\ Last(s) \in S
<1>1. Len(s) \in Nat \ {0}
  BY EmptySeq
<1>2. Len(s) - 1 \in 0 .. Len(s)
  BY <1>1
<1>3. /\ Front(s) \in Seq(S)
      /\ Len(Front(s)) = Len(s) - 1
      /\ \A i \in 1 .. (Len(s) - 1) : Front(s)[i] = s[i]
  BY <1>2, PrefixProperties DEF Front
<1>4. Last(s) = s[Len(s)] /\ Last(s) \in S
  BY <1>1 DEF Last
<1>. QED  BY <1>1, <1>3, <1>4

(* Two elements are put at the end of a sequence at once. *)
LEMMA AppendTwo ==
  ASSUME NEW S, NEW cs \in Seq(S), NEW c \in S, NEW d \in S
  PROVE  cs \o <<c, d>> = Append(Append(cs, c), d)
<1>1. PICK n \in Nat : n = Len(cs)
  OBVIOUS
<1>2. PICK u : u = <<c, d>>
  OBVIOUS
<1>3. u \in Seq(S) /\ Len(u) = 2 /\ u[1] = c /\ u[2] = d
  BY <1>2
<1>4. /\ cs \o u \in Seq(S) /\ Len(cs \o u) = n + 2
      /\ \A i \in 1 .. (n + 2) : (cs \o u)[i] = IF i <= n THEN cs[i] ELSE u[i - n]
  <2>1. /\ cs \o u \in Seq(S) /\ Len(cs \o u) = Len(cs) + Len(u)
        /\ \A i \in 1 .. Len(cs) + Len(u) :
             (cs \o u)[i] = IF i <= Len(cs) THEN cs[i] ELSE u[i - Len(cs)]
    <3>1. u \in Seq(S)
      BY <1>3
    <3>. QED  BY <3>1, ConcatProperties, Zenon
  <2>. QED  BY <1>1, <1>3, <2>1
<1>5. /\ Append(cs, c) \in Seq(S) /\ Len(Append(cs, c)) = n + 1
      /\ \A i \in 1 .. n : Append(cs, c)[i] = cs[i]
      /\ Append(cs, c)[n + 1] = c
  BY <1>1, AppendProperties
<1>6. PICK t : t = Append(cs, c)
  OBVIOUS
<1>7. /\ Append(t, d) \in Seq(S) /\ Len(Append(t, d)) = n + 2
      /\ \A i \in 1 .. (n + 1) : Append(t, d)[i] = t[i]
      /\ Append(t, d)[n + 2] = d
  BY <1>5, <1>6, AppendProperties
<1>8. \A i \in 1 .. (n + 2) : (cs \o u)[i] = Append(t, d)[i]
  <2>1. \A i \in 1 .. n : (cs \o u)[i] = Append(t, d)[i]
    <3>1. \A i \in 1 .. n : i \in 1 .. (n + 2) /\ i <= n /\ i \in 1 .. (n + 1)
      OBVIOUS
    <3>. QED  BY <1>4, <1>5, <1>6, <1>7, <3>1
  <2>2. (cs \o u)[n + 1] = c /\ (cs \o u)[n + 2] = d
    <3>1. (n + 1) - n = 1 /\ (n + 2) - n = 2 /\ ~(n + 1 <= n) /\ ~(n + 2 <= n)
      OBVIOUS
    <3>2. n + 1 \in 1 .. (n + 2) /\ n + 2 \in 1 .. (n + 2)
      OBVIOUS
    <3>3. (cs \o u)[n + 1] = u[(n + 1) - n] /\ (cs \o u)[n + 2] = u[(n + 2) - n]
      BY <1>4, <3>1, <3>2
    <3>. QED  BY <1>3, <3>1, <3>3
  <2>3. Append(t, d)[n + 1] = c
    BY <1>5, <1>6, <1>7
  <2>4. Append(t, d)[n + 2] = d
    BY <1>7
  <2>5. \A i \in 1 .. (n + 2) : i \in 1 .. n \/ i = n + 1 \/ i = n + 2
    OBVIOUS
  <2>. QED  BY <2>1, <2>2, <2>3, <2>4, <2>5, Zenon
<1>9. cs \o u = Append(t, d)
  <2>1. PICK v : v = cs \o u
    OBVIOUS
  <2>2. PICK w : w = Append(t, d)
    OBVIOUS
  <2>3. v \in Seq(S) /\ w \in Seq(S) /\ Len(v) = Len(w) /\ \A i \in 1 .. Len(v) : v[i] = w[i]
    BY <1>4, <1>7, <1>8, <2>1, <2>2
  <2>4. v = w
    BY <2>3, SeqEqual
  <2>. QED  BY <2>1, <2>2, <2>4
<1>. QED  BY <1>2, <1>6, <1>9

-----------------------------------------------------------------------------
(* The inductive invariant *)

\* What the frames of __del__ hold: the part of the roots that is on the stack.
DelHeld(cs) == UNION {cs[i].held : i \in {j \in DOMAIN cs : cs[j].op = "del"}}

\* A shutdown starts when nothing is in progress.
ExitFirst(cs) == \A i \in DOMAIN cs : cs[i].op = "exit" => i = 1

\* A collection holds what it has still to finalize, and has cleared the weak
\* references (X) to everything it holds and need not clear any more.
FrameOK(c, B, X) ==
  c.op = "gc" => /\ c.todo \subseteq B
                 /\ c.at = "del" => c.todo \subseteq c.held
                 /\ c.at = "weak" => c.held \subseteq c.todo \cup X

FramesOK(cs, B, X) == \A i \in DOMAIN cs : FrameOK(cs[i], B, X)

Sweeping(c) == c.op = "gc" /\ c.at \in {"sweep", "swept"}

\* A collection that has swept holds o, and nothing below it does.
SweptBy(cs, o) ==
  \E i \in DOMAIN cs : /\ Sweeping(cs[i]) /\ o \in cs[i].held
                       /\ \A j \in DOMAIN cs : j < i => o \notin cs[j].held

\* The objects whose weak references are of no use, or were made usable again.
Off == finalized \cup cleared \cup renewed

\* An object that was emptied: no way leads to it, and only the collection
\* that emptied it holds it.
LostOK(o) ==
  /\ o \notin globals \cup pending \cup DelHeld(calls)
  /\ o \in finalized \cup cleared
  /\ o \in HeldBy(calls) => SweptBy(calls, o)

LostInv ==
  \A o \in wiped \ renewed :
    /\ LostOK(o)
    /\ o \in HeldBy(calls)
    /\ \A p \in Objects : o \notin refs[p]

\* References, what they come from, and what the holders hold, are alive.
HeapInv ==
  /\ alive \subseteq born
  /\ refs \in [Objects -> SUBSET alive]
  /\ \A p \in Objects : p \notin alive => refs[p] = {}
  /\ globals \cup pending \cup wiped \cup HeldBy(calls) \subseteq alive
  /\ LostInv

\* The other types.
TableInv ==
  /\ born \subseteq Objects
  /\ finalized \cup cleared \cup finHeld \cup renewed \subseteq born
  /\ weak \in [Objects -> {"none", "live", "done"}]
  /\ fin \in [Objects -> {"none", "armed", "off", "blank"}]
  /\ exited \in BOOLEAN
  /\ program \in Programs

\* finalized_del_objects knows every call of __del__, and an instance that
\* has not had it is in the queue.
DelInv ==
  /\ delRuns \in [Objects -> Nat]
  /\ \A o \in Objects : o \in finalized => delRuns[o] = 1
  /\ \A o \in Objects : o \notin finalized => delRuns[o] = 0
  /\ (HasDel \cap born) \ finalized \subseteq pending

StackInv ==
  /\ calls \in Seq(Activations)
  /\ ExitFirst(calls)
  /\ FramesOK(calls, born, Off)

HeapIInv == HeapInv /\ TableInv /\ DelInv /\ StackInv

-----------------------------------------------------------------------------
(* The stack *)

(* Nothing is held by an empty stack. *)
LEMMA EmptyStack ==
  /\ HeldBy(<<>>) = {} /\ DelHeld(<<>>) = {} /\ ExitFirst(<<>>)
  /\ \A B, X : FramesOK(<<>>, B, X)
  /\ \A o : ~SweptBy(<<>>, o)
  /\ <<>> \in Seq(Activations)
<1>1. DOMAIN <<>> = {}
  OBVIOUS
<1>. QED  BY <1>1 DEF HeldBy, DelHeld, ExitFirst, FramesOK, SweptBy

(* What a call adds to the stack. *)
LEMMA PushFacts ==
  ASSUME NEW cs \in Seq(Activations), NEW c \in Activations
  PROVE  /\ Append(cs, c) \in Seq(Activations) /\ Append(cs, c) # <<>>
         /\ Front(Append(cs, c)) = cs /\ Last(Append(cs, c)) = c
         /\ HeldBy(Append(cs, c)) = HeldBy(cs) \cup c.held
         /\ DelHeld(Append(cs, c)) = DelHeld(cs) \cup (IF c.op = "del" THEN c.held ELSE {})
         /\ ExitFirst(Append(cs, c)) <=> ExitFirst(cs) /\ (c.op = "exit" => cs = <<>>)
         /\ \A B, X : FramesOK(Append(cs, c), B, X) <=> FramesOK(cs, B, X) /\ FrameOK(c, B, X)
         /\ \A o : SweptBy(Append(cs, c), o)
                     <=> \/ SweptBy(cs, o)
                         \/ Sweeping(c) /\ o \in c.held /\ o \notin HeldBy(cs)
         /\ \A o : SweptBy(cs, o) => o \in HeldBy(cs)
<1>. DEFINE t == Append(cs, c)
            n == Len(cs)
<1>1. /\ n \in Nat /\ DOMAIN cs = 1 .. n /\ t \in Seq(Activations) /\ Len(t) = n + 1
      /\ \A i \in 1 .. n : t[i] = cs[i]
      /\ t[n + 1] = c
  BY AppendProperties, LenProperties
<1>2. t # <<>>
  BY <1>1
<1>3. Front(t) = cs /\ Last(t) = c
  <2>1. /\ Front(t) \in Seq(Activations) /\ Len(Front(t)) = n
        /\ \A i \in 1 .. n : Front(t)[i] = t[i]
        /\ Last(t) = t[n + 1]
    <3>. HIDE DEF t, n
    <3>1. Len(t) - 1 = n
      BY <1>1
    <3>. QED  BY <1>1, <1>2, <3>1, FrontProperties
  <2>2. \A i \in 1 .. n : Front(t)[i] = cs[i]
    BY <1>1, <2>1
  <2>. HIDE DEF t
  <2>. QED  BY <1>1, <2>1, <2>2, SeqEqual
<1>. HIDE DEF t
<1>4. DOMAIN t = 1 .. (n + 1)
  BY <1>1, LenProperties
<1>. HIDE DEF n
<1>5. /\ \A i \in DOMAIN t : (i \in DOMAIN cs /\ t[i] = cs[i]) \/ (i = n + 1 /\ t[i] = c)
      /\ \A i \in DOMAIN cs : i \in DOMAIN t /\ t[i] = cs[i] /\ i < n + 1 /\ ~(n + 1 < i)
      /\ n + 1 \in DOMAIN t /\ t[n + 1] = c /\ n + 1 \notin DOMAIN cs
      /\ \A i \in DOMAIN t : i < n + 1 => i \in DOMAIN cs
  BY <1>1, <1>4
<1>6. HeldBy(t) = HeldBy(cs) \cup c.held
  BY <1>5 DEF HeldBy
<1>7. DelHeld(t) = DelHeld(cs) \cup (IF c.op = "del" THEN c.held ELSE {})
  BY <1>5 DEF DelHeld
<1>8. ExitFirst(t) <=> ExitFirst(cs) /\ (c.op = "exit" => cs = <<>>)
  <2>1. n + 1 = 1 <=> cs = <<>>
    BY <1>1, EmptySeq DEF n
  <2>2. ExitFirst(t) <=> ExitFirst(cs) /\ (c.op = "exit" => n + 1 = 1)
    BY <1>5 DEF ExitFirst
  <2>. QED  BY <2>1, <2>2
<1>9. \A B, X : FramesOK(t, B, X) <=> FramesOK(cs, B, X) /\ FrameOK(c, B, X)
  BY <1>5 DEF FramesOK
<1>10. ASSUME NEW o PROVE SweptBy(t, o) <=> \/ SweptBy(cs, o)
                                            \/ Sweeping(c) /\ o \in c.held /\ o \notin HeldBy(cs)
  <2>1. ASSUME SweptBy(cs, o) PROVE SweptBy(t, o)
    <3>1. PICK i \in DOMAIN cs : /\ Sweeping(cs[i]) /\ o \in cs[i].held
                                 /\ \A j \in DOMAIN cs : j < i => o \notin cs[j].held
      BY <2>1 DEF SweptBy
    <3>. QED  BY <1>5, <3>1 DEF SweptBy
  <2>2. ASSUME Sweeping(c), o \in c.held, o \notin HeldBy(cs) PROVE SweptBy(t, o)
    <3>1. \A j \in DOMAIN t : j < n + 1 => o \notin t[j].held
      BY <1>5, <2>2 DEF HeldBy
    <3>. QED  BY <1>5, <2>2, <3>1 DEF SweptBy
  <2>3. ASSUME SweptBy(t, o), ~SweptBy(cs, o)
        PROVE  Sweeping(c) /\ o \in c.held /\ o \notin HeldBy(cs)
    <3>1. PICK i \in DOMAIN t : /\ Sweeping(t[i]) /\ o \in t[i].held
                                /\ \A j \in DOMAIN t : j < i => o \notin t[j].held
      BY <2>3 DEF SweptBy
    <3>2. i = n + 1
      BY <1>5, <2>3, <3>1 DEF SweptBy
    <3>3. \A j \in DOMAIN cs : o \notin cs[j].held
      BY <1>5, <3>1, <3>2
    <3>. QED  BY <1>5, <3>1, <3>2, <3>3 DEF HeldBy
  <2>. QED  BY <2>1, <2>2, <2>3
<1>11. \A o : SweptBy(cs, o) => o \in HeldBy(cs)
  BY DEF SweptBy, HeldBy
<1>. QED  BY <1>1, <1>2, <1>3, <1>6, <1>7, <1>8, <1>9, <1>10, <1>11 DEF t

(* A stack in progress is what is below its top, and the top. *)
LEMMA TopFacts ==
  ASSUME NEW cs \in Seq(Activations), cs # <<>>
  PROVE  /\ Front(cs) \in Seq(Activations) /\ Last(cs) \in Activations
         /\ cs = Append(Front(cs), Last(cs))
<1>. DEFINE f == Front(cs)
            c == Last(cs)
            n == Len(cs)
<1>1. /\ n \in Nat \ {0} /\ f \in Seq(Activations) /\ Len(f) = n - 1 /\ c \in Activations
      /\ \A i \in 1 .. (n - 1) : f[i] = cs[i]
      /\ c = cs[n]
  BY FrontProperties
<1>. HIDE DEF f, c
<1>2. /\ Append(f, c) \in Seq(Activations) /\ Len(Append(f, c)) = n
      /\ \A i \in 1 .. (n - 1) : Append(f, c)[i] = f[i]
      /\ Append(f, c)[n] = c
  BY <1>1, AppendProperties
<1>3. \A i \in 1 .. n : Append(f, c)[i] = cs[i]
  BY <1>1, <1>2
<1>4. cs = Append(f, c)
  BY <1>1, <1>2, <1>3, SeqEqual
<1>. QED  BY <1>1, <1>4 DEF f, c

(* Frames below the top keep what they need while objects are born and weak   *)
(* references to what they hold stay off.                                     *)
LEMMA FramesShift ==
  ASSUME NEW cs, NEW B, NEW X, NEW C, NEW Y, FramesOK(cs, B, X),
         B \subseteq C, X \cap HeldBy(cs) \subseteq Y
  PROVE  FramesOK(cs, C, Y)
<1>1. \A i \in DOMAIN cs : cs[i].held \subseteq HeldBy(cs)
  BY DEF HeldBy
<1>. QED  BY <1>1 DEF FramesOK, FrameOK

-----------------------------------------------------------------------------
(* Reachability and counted references *)

(* A walk comes to its start and to all that what it came to refers to, and   *)
(* stays in every set that is closed.                                         *)
LEMMA ReachFacts ==
  ASSUME NEW r \in [Objects -> SUBSET Objects], NEW S \in SUBSET Objects
  PROVE  /\ S \subseteq Reach(r, S) /\ Reach(r, S) \subseteq Objects
         /\ \A p \in Reach(r, S) : r[p] \subseteq Reach(r, S)
         /\ \A T \in SUBSET Objects : S \subseteq T /\ Closed(r, T) => Reach(r, S) \subseteq T
         /\ \A U \in SUBSET S : Reach(r, U) \subseteq Reach(r, S)
<1>1. S \subseteq Reach(r, S) /\ Reach(r, S) \subseteq Objects
  BY DEF Reach
<1>2. \A T \in SUBSET Objects : S \subseteq T /\ Closed(r, T) => Reach(r, S) \subseteq T
  BY DEF Reach
<1>3. ASSUME NEW p \in Reach(r, S), NEW o \in r[p] PROVE o \in Reach(r, S)
  <2>1. o \in Objects
    BY <1>1, <1>3
  <2>2. ASSUME NEW T \in SUBSET Objects, S \subseteq T, Closed(r, T) PROVE o \in T
    <3>1. p \in T
      BY <1>2, <2>2
    <3>. QED  BY <1>3, <2>2, <3>1 DEF Closed
  <2>. QED  BY <2>1, <2>2 DEF Reach
<1>4. ASSUME NEW U \in SUBSET S PROVE Reach(r, U) \subseteq Reach(r, S)
  BY DEF Reach
<1>. QED  BY <1>1, <1>2, <1>3, <1>4

(* What stays when counts settle: nothing without a holder, and everything    *)
(* that a holder holds or that something that stays refers to.                *)
LEMMA SurvivorFacts ==
  ASSUME NEW a, NEW r \in [Objects -> SUBSET a], NEW h, h \subseteq a, a \subseteq Objects
  PROVE  LET s == Survivors(a, r, h) IN
         /\ s \subseteq a /\ h \subseteq s
         /\ \A p \in s : r[p] \subseteq s
         /\ \A o \in s : o \in h \/ \E p \in s : o \in r[p]
<1>. DEFINE s == Survivors(a, r, h)
            Stays(T) == \A o \in T : o \in h \/ \E p \in T : o \in r[p]
<1>1. \A T \in SUBSET a : Stays(T) => T \subseteq s
  BY DEF Survivors
<1>2. s \subseteq a /\ Stays(s)
  <2>1. ASSUME NEW o \in s PROVE o \in a /\ (o \in h \/ \E p \in s : o \in r[p])
    <3>1. PICK T \in SUBSET a : o \in T /\ Stays(T)
      BY <2>1 DEF Survivors
    <3>2. T \subseteq s
      BY <1>1, <3>1
    <3>. QED  BY <3>1, <3>2
  <2>. QED  BY <2>1
<1>. HIDE DEF s
<1>3. h \subseteq s
  <2>1. h \in SUBSET a /\ Stays(h)
    OBVIOUS
  <2>. QED  BY <1>1, <2>1
<1>4. ASSUME NEW p \in s PROVE r[p] \subseteq s
  <2>1. r[p] \subseteq a
    BY <1>2
  <2>2. s \cup r[p] \in SUBSET a
    BY <1>2, <2>1
  <2>3. Stays(s \cup r[p])
    BY <1>2
  <2>. QED  BY <1>1, <2>2, <2>3
<1>. QED  BY <1>2, <1>3, <1>4 DEF s

(* The end of a step after which the counts settle. *)
LEMMA SettleInv ==
  ASSUME TableInv', DelInv', StackInv',
         NEW a \in SUBSET born', NEW r \in [Objects -> SUBSET a], NEW w \in SUBSET a,
         Settle(r, a, w),
         globals' \cup pending' \cup HeldBy(calls') \subseteq a,
         \A o \in w \ renewed' :
           /\ o \in globals' \cup pending' \cup HeldBy(calls') => LostOK(o)'
           /\ \A p \in Objects : o \notin r[p]
  PROVE  HeapIInv'
<1>. DEFINE h == globals' \cup pending' \cup HeldBy(calls')
            s == Survivors(a, r, h)
<1>1. /\ alive' = s /\ wiped' = w \cap s
      /\ refs' = [o \in Objects |-> IF o \in s THEN r[o] ELSE {}]
  BY DEF Settle
<1>2. a \subseteq Objects /\ born' \subseteq Objects
  BY DEF TableInv
<1>3. /\ s \subseteq a /\ h \subseteq s
      /\ \A p \in s : r[p] \subseteq s
      /\ \A o \in s : o \in h \/ \E p \in s : o \in r[p]
  <2>1. h \subseteq a
    OBVIOUS
  <2>. HIDE DEF h
  <2>. QED  BY <1>2, <2>1, SurvivorFacts
<1>. HIDE DEF s
<1>4. /\ refs' \in [Objects -> SUBSET alive']
      /\ \A p \in Objects : refs'[p] \subseteq r[p] /\ (p \notin alive' => refs'[p] = {})
  BY <1>1, <1>3
<1>5. HeldBy(calls)' = HeldBy(calls')
  BY DEF HeldBy
<1>6. alive' \subseteq born' /\ globals' \cup pending' \cup wiped' \cup HeldBy(calls)' \subseteq alive'
  BY <1>1, <1>3, <1>5
<1>7. LostInv'
  <2>1. ASSUME NEW o \in wiped' \ renewed'
        PROVE  LostOK(o)' /\ o \in HeldBy(calls)' /\ \A p \in Objects : o \notin refs'[p]
    <3>1. o \in w \ renewed' /\ o \in s
      BY <1>1, <2>1
    <3>2. (o \in h => LostOK(o)') /\ \A p \in Objects : o \notin r[p]
      BY <3>1
    <3>3. s \subseteq Objects
      BY <1>2, <1>3
    <3>4. o \in h
      BY <1>3, <3>1, <3>2, <3>3
    <3>5. o \notin globals' /\ o \notin pending'
      BY <3>2, <3>4 DEF LostOK
    <3>. QED  BY <1>4, <1>5, <3>2, <3>4, <3>5
  <2>. QED  BY <2>1 DEF LostInv
<1>. QED  BY <1>4, <1>6, <1>7 DEF HeapIInv, HeapInv

(* The end of a step that leaves the counts alone. *)
LEMMA KeepInv ==
  ASSUME HeapIInv, TableInv', DelInv', StackInv', UNCHANGED <<globals, refs, alive, pending, wiped>>,
         born \subseteq born', renewed \subseteq renewed',
         HeldBy(calls') \subseteq alive,
         \A o \in wiped \ renewed : LostOK(o)' /\ o \in HeldBy(calls')
  PROVE  HeapIInv'
<1>1. HeldBy(calls)' = HeldBy(calls')
  BY DEF HeldBy
<1>2. LostInv'
  BY <1>1 DEF HeapIInv, HeapInv, LostInv
<1>. QED  BY <1>1, <1>2 DEF HeapIInv, HeapInv

(* What the marking comes to is alive, and is nothing that was emptied. *)
LEMMA MarkedFacts ==
  ASSUME HeapIInv
  PROVE  /\ Marked \subseteq alive /\ globals \cup DelHeld(calls) \subseteq Marked
         /\ \A p \in Marked : refs[p] \subseteq Marked
         /\ \A o \in wiped \ renewed : o \notin Marked
         /\ Visible \subseteq Marked
<1>1. /\ refs \in [Objects -> SUBSET alive] /\ alive \subseteq Objects
      /\ globals \cup HeldBy(calls) \subseteq alive
  BY DEF HeapIInv, HeapInv, TableInv
<1>2. refs \in [Objects -> SUBSET Objects]
  BY <1>1
<1>3. Roots = globals \cup DelHeld(calls) /\ DelHeld(calls) \subseteq HeldBy(calls)
  BY DEF Roots, DelHeld, HeldBy
<1>4. Roots \in SUBSET Objects /\ Roots \subseteq alive
  BY <1>1, <1>3
<1>5. /\ Roots \subseteq Marked
      /\ \A p \in Marked : refs[p] \subseteq Marked
      /\ \A T \in SUBSET Objects : Roots \subseteq T /\ Closed(refs, T) => Marked \subseteq T
      /\ \A U \in SUBSET Roots : Reach(refs, U) \subseteq Marked
  BY <1>2, <1>4, ReachFacts DEF Marked
<1>6. Marked \subseteq alive
  <2>1. Closed(refs, alive)
    BY <1>1 DEF Closed
  <2>. QED  BY <1>1, <1>4, <1>5, <2>1
<1>7. ASSUME NEW o \in wiped \ renewed PROVE o \notin Marked
  <2>1. LostOK(o) /\ \A p \in Objects : o \notin refs[p]
    BY DEF HeapIInv, HeapInv, LostInv
  <2>2. Roots \subseteq Objects \ {o}
    BY <1>3, <1>4, <2>1 DEF LostOK
  <2>3. Closed(refs, Objects \ {o})
    BY <1>2, <2>1 DEF Closed
  <2>. QED  BY <1>5, <2>2, <2>3
<1>8. Visible \subseteq Marked
  <2>1. calls # <<>> /\ Top.op = "del" => Top.held \subseteq DelHeld(calls)
    <3>1. SUFFICES ASSUME calls # <<>>, Top.op = "del" PROVE Top.held \subseteq DelHeld(calls)
      OBVIOUS
    <3>2. calls \in Seq(Activations)
      BY DEF HeapIInv, StackInv
    <3>3. /\ Front(calls) \in Seq(Activations) /\ Top \in Activations
          /\ calls = Append(Front(calls), Top)
      BY <3>1, <3>2, TopFacts DEF Top
    <3>4. DelHeld(Append(Front(calls), Top)) = DelHeld(Front(calls)) \cup Top.held
      BY <3>1, <3>3, PushFacts
    <3>. QED  BY <3>3, <3>4
  <2>2. globals \cup (IF calls # <<>> /\ Top.op = "del" THEN Top.held ELSE {}) \in SUBSET Roots
    BY <1>3, <2>1
  <2>. QED  BY <1>5, <2>2 DEF Visible
<1>. QED  BY <1>3, <1>5, <1>6, <1>7, <1>8

-----------------------------------------------------------------------------
(* Kinds of steps *)

(* The invariant, spread out. *)
LEMMA HeapFacts ==
  ASSUME HeapIInv
  PROVE  /\ born \subseteq Objects /\ alive \subseteq born /\ alive \subseteq Objects
         /\ refs \in [Objects -> SUBSET alive]
         /\ \A p \in Objects : p \notin alive => refs[p] = {}
         /\ globals \subseteq alive /\ pending \subseteq alive /\ wiped \subseteq alive
         /\ HeldBy(calls) \subseteq alive
         /\ Visible \subseteq alive /\ Unreachable \subseteq alive
         /\ calls \in Seq(Activations)
         /\ \A o \in wiped \ renewed :
              /\ o \notin globals /\ o \notin pending /\ o \notin DelHeld(calls)
              /\ o \in finalized \cup cleared
              /\ SweptBy(calls, o) /\ o \in HeldBy(calls)
              /\ o \notin Visible /\ o \notin Marked
              /\ \A p \in Objects : o \notin refs[p]
<1>1. /\ Marked \subseteq alive /\ Visible \subseteq Marked
      /\ \A o \in wiped \ renewed : o \notin Marked
  BY MarkedFacts
<1>2. \A o \in wiped \ renewed :
        /\ LostOK(o) /\ o \in HeldBy(calls)
        /\ \A p \in Objects : o \notin refs[p]
  BY DEF HeapIInv, HeapInv, LostInv
<1>. QED  BY <1>1, <1>2 DEF HeapIInv, HeapInv, TableInv, StackInv, LostOK, Unreachable

(* A step of the program that moves references and starts no call. *)
LEMMA MoveInv ==
  ASSUME HeapIInv, UNCHANGED <<finalized, cleared, weak, fin, finHeld, delRuns, renewed, calls, exited, program>>,
         born \subseteq born', born' \subseteq Objects,
         pending \subseteq pending', (HasDel \cap born') \ born \subseteq pending',
         NEW a \in SUBSET born', NEW r \in [Objects -> SUBSET a], Settle(r, a, wiped),
         alive \subseteq a, globals' \subseteq a, pending' \subseteq a,
         \A o \in wiped \ renewed : o \notin globals' \cup pending' /\ \A p \in Objects : o \notin r[p]
  PROVE  HeapIInv'
<1>1. TableInv' /\ DelInv'
  BY DEF HeapIInv, TableInv, DelInv
<1>2. StackInv'
  <2>1. FramesOK(calls, born', Off')
    BY FramesShift DEF HeapIInv, StackInv, Off
  <2>. QED  BY <2>1 DEF HeapIInv, StackInv
<1>3. wiped \in SUBSET a /\ globals' \cup pending' \cup HeldBy(calls') \subseteq a
  BY HeapFacts
<1>4. ASSUME NEW o \in wiped \ renewed' PROVE LostOK(o)' /\ \A p \in Objects : o \notin r[p]
  BY <1>4, HeapFacts DEF LostOK
<1>. QED  BY <1>1, <1>2, <1>3, <1>4, SettleInv

(* A step of the program that changes a weak reference or a finalizer. *)
LEMMA WatchInv ==
  ASSUME HeapIInv,
         UNCHANGED <<globals, refs, born, alive, pending, finalized, cleared, wiped, delRuns,
                     renewed, calls, exited, program>>,
         weak' \in [Objects -> {"none", "live", "done"}],
         fin' \in [Objects -> {"none", "armed", "off", "blank"}], finHeld' \subseteq born
  PROVE  HeapIInv'
<1>1. TableInv' /\ DelInv' /\ StackInv'
  BY DEF HeapIInv, TableInv, DelInv, StackInv, Off
<1>2. \A o \in wiped \ renewed : LostOK(o)' /\ o \in HeldBy(calls')
  BY HeapFacts DEF LostOK
<1>. QED  BY <1>1, <1>2, HeapFacts, KeepInv

(* A step that changes the stack and nothing that is counted. *)
LEMMA StackKeepInv ==
  ASSUME HeapIInv, TableInv', StackInv',
         UNCHANGED <<globals, refs, born, alive, pending, finalized, wiped, delRuns, renewed>>,
         cleared \subseteq cleared',
         HeldBy(calls') \subseteq alive,
         \A o \in wiped \ renewed : o \notin DelHeld(calls') /\ SweptBy(calls', o)
  PROVE  HeapIInv'
<1>1. DelInv'
  BY DEF HeapIInv, DelInv
<1>2. \A o : SweptBy(calls', o) => o \in HeldBy(calls')
  BY DEF SweptBy, HeldBy
<1>3. \A o \in wiped \ renewed : LostOK(o)' /\ o \in HeldBy(calls')
  BY <1>2, HeapFacts DEF LostOK
<1>. QED  BY <1>1, <1>3, KeepInv

(* A step that changes the stack and what it holds, and the queue. *)
LEMMA StackSettleInv ==
  ASSUME HeapIInv, TableInv', DelInv', StackInv', Settle(refs, alive, wiped),
         UNCHANGED <<globals, born>>, pending' \subseteq pending, renewed \subseteq renewed',
         HeldBy(calls') \subseteq alive,
         \A o \in wiped \ renewed' :
           /\ o \in finalized' \cup cleared'
           /\ o \notin DelHeld(calls')
           /\ o \in HeldBy(calls') => SweptBy(calls', o)
  PROVE  HeapIInv'
<1>1. alive \in SUBSET born' /\ refs \in [Objects -> SUBSET alive] /\ wiped \in SUBSET alive
  BY HeapFacts
<1>2. globals' \cup pending' \cup HeldBy(calls') \subseteq alive
  BY HeapFacts
<1>3. ASSUME NEW o \in wiped \ renewed' PROVE LostOK(o)' /\ \A p \in Objects : o \notin refs[p]
  <2>1. o \in wiped \ renewed
    BY <1>3
  <2>. QED  BY <1>3, <2>1, HeapFacts DEF LostOK
<1>. QED  BY <1>1, <1>2, <1>3, SettleInv

(* What is known of the top of the stack and of what is below it. *)
LEMMA SplitFacts ==
  ASSUME HeapIInv, calls # <<>>
  PROVE  LET f == Front(calls) IN
         /\ f \in Seq(Activations) /\ Top \in Activations /\ calls = Append(f, Top)
         /\ HeldBy(f) \subseteq alive /\ Top.held \subseteq alive
         /\ ExitFirst(f) /\ (Top.op = "exit" => f = <<>>)
         /\ FramesOK(f, born, Off) /\ FrameOK(Top, born, Off)
         /\ \A o \in wiped \ renewed :
              /\ o \notin DelHeld(f)
              /\ SweptBy(f, o) \/ (Sweeping(Top) /\ o \in Top.held /\ o \notin HeldBy(f))
              /\ SweptBy(f, o) => o \in HeldBy(f)
<1>. DEFINE f == Front(calls)
<1>1. calls \in Seq(Activations) /\ HeldBy(calls) \subseteq alive
  BY HeapFacts
<1>2. f \in Seq(Activations) /\ Top \in Activations /\ calls = Append(f, Top)
  BY <1>1, TopFacts DEF Top
<1>. HIDE DEF f
<1>3. /\ HeldBy(calls) = HeldBy(f) \cup Top.held
      /\ DelHeld(f) \subseteq DelHeld(calls)
      /\ ExitFirst(calls) <=> ExitFirst(f) /\ (Top.op = "exit" => f = <<>>)
      /\ FramesOK(calls, born, Off) <=> FramesOK(f, born, Off) /\ FrameOK(Top, born, Off)
      /\ \A o : SweptBy(calls, o)
                  <=> \/ SweptBy(f, o)
                      \/ Sweeping(Top) /\ o \in Top.held /\ o \notin HeldBy(f)
      /\ \A o : SweptBy(f, o) => o \in HeldBy(f)
  <2>. DEFINE t == Top
  <2>1. f \in Seq(Activations) /\ t \in Activations /\ calls = Append(f, t)
    BY <1>2
  <2>. HIDE DEF t
  <2>2. /\ HeldBy(calls) = HeldBy(f) \cup t.held
        /\ DelHeld(calls) = DelHeld(f) \cup (IF t.op = "del" THEN t.held ELSE {})
        /\ ExitFirst(calls) <=> ExitFirst(f) /\ (t.op = "exit" => f = <<>>)
        /\ \A B, X : FramesOK(calls, B, X) <=> FramesOK(f, B, X) /\ FrameOK(t, B, X)
        /\ \A o : SweptBy(calls, o)
                    <=> \/ SweptBy(f, o)
                        \/ Sweeping(t) /\ o \in t.held /\ o \notin HeldBy(f)
        /\ \A o : SweptBy(f, o) => o \in HeldBy(f)
    BY <2>1, PushFacts
  <2>. QED  BY <2>2 DEF t
<1>4. ExitFirst(calls) /\ FramesOK(calls, born, Off)
  BY DEF HeapIInv, StackInv
<1>5. \A o \in wiped \ renewed : o \notin DelHeld(calls) /\ SweptBy(calls, o)
  BY HeapFacts
<1>. QED  BY <1>1, <1>2, <1>3, <1>4, <1>5 DEF f

-----------------------------------------------------------------------------
(* Stacks that a step may leave behind *)

\* A stack that goes with the objects alive, for weak references X that are
\* off and emptied objects L.
Stackable(cs, X, L) ==
  /\ cs \in Seq(Activations) /\ HeldBy(cs) \subseteq alive
  /\ ExitFirst(cs) /\ FramesOK(cs, born, X)
  /\ \A o \in L : o \notin DelHeld(cs) /\ (o \in HeldBy(cs) => SweptBy(cs, o))

(* The stack is one, and so is what is below its top, and the empty one. *)
LEMMA StackableNow ==
  ASSUME HeapIInv
  PROVE  /\ Stackable(calls, Off, wiped \ renewed)
         /\ calls # <<>> => Stackable(Front(calls), Off, wiped \ renewed)
         /\ \A X, L : Stackable(<<>>, X, L)
<1>1. Stackable(calls, Off, wiped \ renewed)
  BY HeapFacts DEF Stackable, HeapIInv, StackInv
<1>2. ASSUME calls # <<>> PROVE Stackable(Front(calls), Off, wiped \ renewed)
  BY <1>2, SplitFacts DEF Stackable
<1>3. \A X, L : Stackable(<<>>, X, L)
  BY EmptyStack DEF Stackable
<1>. QED  BY <1>1, <1>2, <1>3

(* A call may be put on one. *)
LEMMA StackablePush ==
  ASSUME NEW cs, NEW X, NEW L, Stackable(cs, X, L), NEW c \in Activations,
         c.held \subseteq alive, c.op = "exit" => cs = <<>>, FrameOK(c, born, X),
         \A o \in L : o \in c.held => c.op # "del" /\ (SweptBy(cs, o) \/ Sweeping(c))
  PROVE  /\ Stackable(Append(cs, c), X, L)
         /\ HeldBy(Append(cs, c)) = HeldBy(cs) \cup c.held
<1>1. cs \in Seq(Activations)
  BY DEF Stackable
<1>2. /\ Append(cs, c) \in Seq(Activations)
      /\ HeldBy(Append(cs, c)) = HeldBy(cs) \cup c.held
      /\ DelHeld(Append(cs, c)) = DelHeld(cs) \cup (IF c.op = "del" THEN c.held ELSE {})
      /\ ExitFirst(Append(cs, c)) <=> ExitFirst(cs) /\ (c.op = "exit" => cs = <<>>)
      /\ FramesOK(Append(cs, c), born, X) <=> FramesOK(cs, born, X) /\ FrameOK(c, born, X)
      /\ \A o : SweptBy(Append(cs, c), o)
                  <=> \/ SweptBy(cs, o)
                      \/ Sweeping(c) /\ o \in c.held /\ o \notin HeldBy(cs)
  BY <1>1, PushFacts
<1>3. ASSUME NEW o \in L
      PROVE  o \notin DelHeld(Append(cs, c)) /\ (o \in HeldBy(Append(cs, c)) => SweptBy(Append(cs, c), o))
  BY <1>2 DEF Stackable
<1>. QED  BY <1>2, <1>3 DEF Stackable

(* It stays one while weak references to what it holds stay off. *)
LEMMA StackableShift ==
  ASSUME NEW cs, NEW X, NEW Y, NEW L, NEW M, Stackable(cs, X, L),
         X \cap HeldBy(cs) \subseteq Y, M \subseteq L
  PROVE  Stackable(cs, Y, M)
BY FramesShift DEF Stackable

(* The end of a step that leaves the counts alone, by its stack. *)
LEMMA KeepEnd ==
  ASSUME HeapIInv, TableInv', Stackable(calls', Off', wiped \ renewed),
         UNCHANGED <<globals, refs, born, alive, pending, finalized, wiped, delRuns, renewed>>,
         cleared \subseteq cleared',
         \A o \in wiped \ renewed : o \in HeldBy(calls')
  PROVE  HeapIInv'
<1>1. StackInv'
  BY DEF Stackable, StackInv
<1>. QED  BY <1>1, StackKeepInv DEF Stackable

(* The end of a step after which counts settle, by its stack. *)
LEMMA SettleEnd ==
  ASSUME HeapIInv, TableInv', DelInv', Stackable(calls', Off', wiped \ renewed'),
         Settle(refs, alive, wiped),
         UNCHANGED <<globals, born>>, pending' \subseteq pending, renewed \subseteq renewed',
         \A o \in wiped \ renewed' : o \in finalized' \cup cleared'
  PROVE  HeapIInv'
<1>1. StackInv'
  BY DEF Stackable, StackInv
<1>. QED  BY <1>1, StackSettleInv DEF Stackable

-----------------------------------------------------------------------------
(* Program code *)

(* An object is created. *)
LEMMA NewInv ==
  ASSUME HeapIInv, NEW o \in Objects, New(o)
  PROVE  HeapIInv'
<1>. DEFINE a == alive \cup {o}
<1>1. /\ o \notin born /\ born' = born \cup {o} /\ globals' = globals \cup {o}
      /\ pending' = IF o \in HasDel THEN pending \cup {o} ELSE pending
      /\ UNCHANGED <<finalized, cleared, weak, fin, finHeld, delRuns, renewed, calls, exited, program>>
      /\ Settle(refs, a, wiped)
  BY DEF New
<1>2. a \in SUBSET born' /\ alive \subseteq a /\ o \in a
  BY <1>1, HeapFacts
<1>. HIDE DEF a
<1>3. refs \in [Objects -> SUBSET a]
  BY <1>2, HeapFacts
<1>4. born' \subseteq Objects /\ globals' \subseteq a /\ pending' \subseteq a
  BY <1>1, <1>2, HeapFacts
<1>5. /\ born \subseteq born' /\ pending \subseteq pending'
      /\ (HasDel \cap born') \ born \subseteq pending'
  BY <1>1
<1>6. ASSUME NEW l \in wiped \ renewed
      PROVE  l \notin globals' \cup pending' /\ \A p \in Objects : l \notin refs[p]
  <2>1. l # o
    BY <1>1, HeapFacts
  <2>. QED  BY <1>1, <2>1, HeapFacts
<1>. QED  BY <1>1, <1>2, <1>3, <1>4, <1>5, <1>6, MoveInv

(* References move among what the program can get hold of. *)
LEMMA RefsInv ==
  ASSUME HeapIInv, NEW o \in Objects, NEW q \in Objects,
         Bind(o) \/ Unbind(o) \/ CallWeakRef(o) \/ SetAttr(o, q) \/ DelAttr(o, q)
  PROVE  HeapIInv'
<1>1. /\ born' = born /\ pending' = pending
      /\ UNCHANGED <<finalized, cleared, weak, fin, finHeld, delRuns, renewed, calls, exited, program>>
  BY DEF Bind, Unbind, CallWeakRef, SetAttr, DelAttr
<1>2. /\ born \subseteq born' /\ born' \subseteq Objects /\ pending \subseteq pending'
      /\ (HasDel \cap born') \ born \subseteq pending'
      /\ alive \in SUBSET born' /\ pending' \subseteq alive
      /\ \A l \in wiped \ renewed : l \notin pending'
  BY <1>1, HeapFacts
<1>3. CASE Bind(o) \/ Unbind(o) \/ CallWeakRef(o)
  <2>1. Settle(refs, alive, wiped) /\ globals' \subseteq globals \cup {o}
    BY <1>3 DEF Bind, Unbind, CallWeakRef
  <2>2. \/ globals' \subseteq globals
        \/ o \in alive /\ o \notin wiped \ renewed
    <3>1. CASE Bind(o)
      BY <3>1, HeapFacts DEF Bind
    <3>2. CASE Unbind(o)
      BY <3>2 DEF Unbind
    <3>3. CASE CallWeakRef(o)
      BY <3>3, HeapFacts DEF CallWeakRef, Found
    <3>. QED  BY <1>3, <3>1, <3>2, <3>3
  <2>3. refs \in [Objects -> SUBSET alive] /\ globals' \subseteq alive
    BY <2>1, <2>2, HeapFacts
  <2>4. \A l \in wiped \ renewed : l \notin globals' /\ \A p \in Objects : l \notin refs[p]
    BY <2>1, <2>2, HeapFacts
  <2>. QED  BY <1>1, <1>2, <2>1, <2>3, <2>4, MoveInv
<1>4. CASE SetAttr(o, q) \/ DelAttr(o, q)
  <2>1. PICK r : /\ r = [refs EXCEPT ![o] = @ \cup {q}] \/ r = [refs EXCEPT ![o] = @ \ {q}]
                 /\ r = [refs EXCEPT ![o] = @ \cup {q}] => q \in Visible
                 /\ Settle(r, alive, wiped) /\ globals' = globals
    <3>1. CASE SetAttr(o, q)
      BY <3>1 DEF SetAttr
    <3>2. CASE DelAttr(o, q)
      <4>1. q \in refs[o] /\ o \in Visible /\ Settle([refs EXCEPT ![o] = @ \ {q}], alive, wiped)
            /\ globals' = globals
        BY <3>2 DEF DelAttr
      <4>2. [refs EXCEPT ![o] = @ \ {q}] # [refs EXCEPT ![o] = @ \cup {q}]
        BY <4>1, HeapFacts
      <4>. QED  BY <4>1, <4>2
    <3>. QED  BY <1>4, <3>1, <3>2
  <2>2. r \in [Objects -> SUBSET alive]
    BY <2>1, HeapFacts
  <2>3. ASSUME NEW l \in wiped \ renewed PROVE l \notin globals' /\ \A p \in Objects : l \notin r[p]
    BY <2>1, HeapFacts
  <2>4. globals' \subseteq alive
    BY <2>1, HeapFacts
  <2>. QED  BY <1>1, <1>2, <2>1, <2>2, <2>3, <2>4, MoveInv
<1>. QED  BY <1>3, <1>4

(* Weak references and finalizers are made, dropped or detached. *)
LEMMA WatchersInv ==
  ASSUME HeapIInv, NEW o \in Objects, WeakRef(o) \/ Finalize(o) \/ DropFinalizer(o) \/ Detach(o)
  PROVE  HeapIInv'
<1>1. /\ weak \in [Objects -> {"none", "live", "done"}] /\ finHeld \subseteq born
      /\ fin \in [Objects -> {"none", "armed", "off", "blank"}]
      /\ Visible \subseteq born
  BY HeapFacts DEF HeapIInv, TableInv
<1>2. /\ weak' \in [Objects -> {"none", "live", "done"}] /\ finHeld' \subseteq born
      /\ fin' \in [Objects -> {"none", "armed", "off", "blank"}]
  BY <1>1 DEF WeakRef, Finalize, DropFinalizer, Detach
<1>3. UNCHANGED <<globals, refs, born, alive, pending, finalized, cleared, wiped, delRuns,
                  renewed, calls, exited, program>>
  BY DEF WeakRef, Finalize, DropFinalizer, Detach
<1>. QED  BY <1>2, <1>3, WatchInv

-----------------------------------------------------------------------------
(* Calls and returns that leave the counts alone *)

(* The tables stay as they are. *)
LEMMA TableKeep ==
  ASSUME HeapIInv, UNCHANGED <<born, finalized, cleared, finHeld, renewed, weak, fin, exited, program>>
  PROVE  TableInv'
BY DEF HeapIInv, TableInv

(* A host function calls program code, or the shutdown starts. *)
LEMMA PushInv ==
  ASSUME HeapIInv, (\E o \in Objects : HostCall(o)) \/ Shutdown
  PROVE  HeapIInv'
<1>1. UNCHANGED <<globals, refs, born, alive, pending, finalized, cleared, weak, fin, finHeld,
                  wiped, delRuns, renewed, exited, program>>
  BY DEF HostCall, Shutdown
<1>2. PICK c \in Activations : /\ calls' = Append(calls, c)
                               /\ c.op = "exit" => calls = <<>>
                               /\ c.op \in {"host", "exit"} /\ c.held \subseteq Visible
  <2>1. ASSUME NEW o \in Objects, HostCall(o)
        PROVE  /\ Act("host", "run", {}, {o}) \in Activations /\ o \in Visible
               /\ calls' = Append(calls, Act("host", "run", {}, {o}))
    BY <2>1 DEF HostCall, Push, Act, Activations
  <2>2. ASSUME Shutdown
        PROVE  \E T \in SUBSET Objects : calls' = Append(calls, Act("exit", "fin", T, {})) /\ calls = <<>>
    BY <2>2 DEF Shutdown, Push
  <2>3. \A T \in SUBSET Objects : Act("exit", "fin", T, {}) \in Activations
    BY DEF Act, Activations
  <2>4. CASE \E o \in Objects : HostCall(o)
    <3>1. PICK o \in Objects : HostCall(o)
      BY <2>4
    <3>. QED  BY <2>1, <3>1 DEF Act
  <2>5. CASE Shutdown
    BY <2>2, <2>3, <2>5 DEF Act
  <2>. QED  BY <2>4, <2>5
<1>3. /\ c.held \subseteq alive /\ FrameOK(c, born, Off) /\ c.op # "del"
      /\ \A l \in wiped \ renewed : l \notin c.held /\ l \in HeldBy(calls)
  BY <1>2, HeapFacts DEF FrameOK
<1>4. Stackable(calls', Off, wiped \ renewed) /\ HeldBy(calls') = HeldBy(calls) \cup c.held
  BY <1>2, <1>3, StackableNow, StackablePush
<1>5. Off' = Off
  BY <1>1 DEF Off
<1>. QED  BY <1>1, <1>3, <1>4, <1>5, TableKeep, KeepEnd

(* The top moves to a new stage, and may start a callback. *)
LEMMA GotoKeep ==
  ASSUME HeapIInv, calls # <<>>, TableInv', NEW c \in Activations,
         c.op = Top.op, c.op # "del", c.held \subseteq alive, FrameOK(c, born, Off'),
         Sweeping(Top) => Sweeping(c) /\ Top.held \subseteq c.held,
         \/ calls' = Append(Front(calls), c)
         \/ calls' = Append(Front(calls), c) \o <<Callback>>,
         UNCHANGED <<globals, refs, born, alive, pending, finalized, wiped, delRuns, renewed>>,
         cleared \subseteq cleared'
  PROVE  HeapIInv'
<1>. DEFINE f == Front(calls)
            L == wiped \ renewed
<1>1. /\ f \in Seq(Activations)
      /\ Top.op = "exit" => f = <<>>
      /\ \A o \in L : SweptBy(f, o) \/ (Sweeping(Top) /\ o \in Top.held)
      /\ \A o \in L : SweptBy(f, o) => o \in HeldBy(f)
  BY SplitFacts
<1>2. Off \subseteq Off'
  BY DEF Off
<1>3. Stackable(f, Off', L)
  <2>1. Stackable(f, Off, L)
    BY StackableNow
  <2>. HIDE DEF f, L
  <2>. QED  BY <1>2, <2>1, StackableShift
<1>. HIDE DEF f, L
<1>4. \A o \in L : SweptBy(f, o) \/ Sweeping(c)
  BY <1>1
<1>5. /\ Stackable(Append(f, c), Off', L)
      /\ HeldBy(Append(f, c)) = HeldBy(f) \cup c.held
  BY <1>1, <1>3, <1>4, StackablePush
<1>6. \A o \in L : o \in HeldBy(Append(f, c))
  BY <1>1, <1>5
<1>7. /\ Callback \in Activations /\ Callback.held = {} /\ Callback.op = "cb"
  BY DEF Callback, Act, Activations
<1>8. FrameOK(Callback, born, Off')
  BY <1>7 DEF FrameOK
<1>9. /\ Stackable(Append(Append(f, c), Callback), Off', L)
      /\ HeldBy(Append(Append(f, c), Callback)) = HeldBy(Append(f, c)) \cup Callback.held
  BY <1>5, <1>7, <1>8, StackablePush
<1>10. Append(f, c) \o <<Callback>> = Append(Append(f, c), Callback)
  <2>1. Append(f, c) \in Seq(Activations)
    BY <1>1, AppendProperties
  <2>. HIDE DEF Callback
  <2>. QED  BY <1>7, <2>1, AppendIsConcat
<1>11. Stackable(calls', Off', L) /\ \A o \in L : o \in HeldBy(calls')
  BY <1>5, <1>6, <1>7, <1>9, <1>10 DEF f
<1>. QED  BY <1>11, KeepEnd DEF L

(* The records that a stage of a call is made of. *)
LEMMA ActFacts ==
  ASSUME NEW op \in {"del", "cb", "host", "pend", "gc", "exit"},
         NEW at \in {"run", "del", "fin", "dead", "clear", "weak", "sweep", "swept", "end"},
         NEW T \in SUBSET Objects, NEW H \in SUBSET Objects
  PROVE  /\ Act(op, at, T, H) \in Activations
         /\ Act(op, at, T, H).op = op /\ Act(op, at, T, H).at = at
         /\ Act(op, at, T, H).todo = T /\ Act(op, at, T, H).held = H
BY DEF Act, Activations

(* The stages of a collection in which nothing goes. *)
LEMMA StageInv ==
  ASSUME HeapIInv, GcDead \/ GcMark \/ GcMarkAgain \/ GcSwept
  PROVE  HeapIInv'
<1>1. UNCHANGED <<globals, refs, born, alive, pending, finalized, cleared, weak, fin, finHeld,
                  wiped, delRuns, renewed, exited, program>>
  BY DEF GcDead, GcMark, GcMarkAgain, GcSwept
<1>2. TableInv' /\ Off' = Off
  BY <1>1, TableKeep DEF Off
<1>3. calls # <<>> /\ Top.op = "gc"
  BY DEF GcDead, GcMark, GcMarkAgain, GcSwept, Running
<1>4. Top.held \subseteq alive /\ Unreachable \subseteq alive /\ DeadWeakRefs \subseteq born
      /\ alive \subseteq born /\ born \subseteq Objects
  BY <1>3, HeapFacts, SplitFacts DEF DeadWeakRefs
<1>5. PICK at, T, H : /\ calls' = Append(Front(calls), Act(Top.op, at, T, H))
                      /\ at \in {"clear", "del", "weak", "swept"}
                      /\ T \subseteq born /\ H \subseteq alive
                      /\ at \in {"del", "weak"} => T = H
                      /\ Top.at = "sweep" => at = "swept" /\ H = Top.held
                      /\ Top.at # "swept"
  <2>1. CASE GcDead
    BY <1>4, <2>1 DEF GcDead, Goto, Running
  <2>2. CASE GcMark
    BY <1>4, <2>2 DEF GcMark, Goto, Running
  <2>3. CASE GcMarkAgain
    BY <1>4, <2>3 DEF GcMarkAgain, Goto, Running
  <2>4. CASE GcSwept
    BY <1>4, <2>4 DEF GcSwept, Goto, Running
  <2>. QED  BY <2>1, <2>2, <2>3, <2>4
<1>. DEFINE c == Act("gc", at, T, H)
<1>6. c \in Activations /\ c.op = "gc" /\ c.at = at /\ c.todo = T /\ c.held = H
  BY <1>4, <1>5, ActFacts
<1>7. calls' = Append(Front(calls), c)
  BY <1>3, <1>5
<1>. HIDE DEF c
<1>8. FrameOK(c, born, Off')
  BY <1>5, <1>6 DEF FrameOK
<1>9. Sweeping(Top) => Sweeping(c) /\ Top.held \subseteq c.held
  BY <1>3, <1>5, <1>6 DEF Sweeping
<1>. QED  BY <1>1, <1>2, <1>3, <1>5, <1>6, <1>7, <1>8, <1>9, GotoKeep

(* Weak references are cleared, one object after the other. *)
LEMMA GcClearInv ==
  ASSUME HeapIInv, NEW o \in Objects, GcClear(o)
  PROVE  HeapIInv'
<1>1. /\ calls # <<>> /\ Top.op = "gc" /\ Top.at \in {"clear", "weak", "swept"} /\ o \in Top.todo
      /\ cleared' = cleared \cup {o}
      /\ weak' = [weak EXCEPT ![o] = IF @ = "live" THEN "done" ELSE @]
      /\ UNCHANGED <<globals, refs, born, alive, pending, finalized, fin, finHeld, wiped,
                     delRuns, renewed, exited, program>>
  BY DEF GcClear, ClearWeakRefs, Running
<1>2. /\ Top \in Activations /\ Top.held \subseteq alive /\ FrameOK(Top, born, Off)
      /\ alive \subseteq Objects /\ born \subseteq Objects
  BY <1>1, HeapFacts, SplitFacts
<1>3. Top.todo \subseteq born /\ (Top.at = "weak" => Top.held \subseteq Top.todo \cup Off)
  BY <1>1, <1>2 DEF FrameOK
<1>. DEFINE c == Act("gc", Top.at, Top.todo \ {o}, Top.held)
<1>4. \/ calls' = Append(Front(calls), c)
      \/ calls' = Append(Front(calls), c) \o <<Callback>>
  BY <1>1 DEF GcClear, ClearWeakRefs, Goto, GotoAndPush
<1>5. c \in Activations /\ c.op = "gc" /\ c.at = Top.at /\ c.todo = Top.todo \ {o} /\ c.held = Top.held
  BY <1>1, <1>2, <1>3, ActFacts
<1>. HIDE DEF c
<1>6. Off' = Off \cup {o}
  BY <1>1 DEF Off
<1>7. FrameOK(c, born, Off')
  BY <1>1, <1>3, <1>5, <1>6 DEF FrameOK
<1>8. TableInv'
  <2>1. /\ weak \in [Objects -> {"none", "live", "done"}]
        /\ fin \in [Objects -> {"none", "armed", "off", "blank"}]
        /\ finalized \cup cleared \cup finHeld \cup renewed \subseteq born
        /\ exited \in BOOLEAN /\ program \in Programs
    BY DEF HeapIInv, TableInv
  <2>2. weak' \in [Objects -> {"none", "live", "done"}]
    BY <1>1, <2>1
  <2>3. cleared' \subseteq born
    BY <1>1, <1>3, <2>1
  <2>. QED  BY <1>1, <1>2, <2>1, <2>2, <2>3 DEF TableInv
<1>9. Sweeping(Top) => Sweeping(c)
  BY <1>1, <1>5 DEF Sweeping
<1>. QED  BY <1>1, <1>2, <1>4, <1>5, <1>7, <1>8, <1>9, GotoKeep

(* A finalizer of an object that is gone is taken off the list and called. *)
LEMMA FireFinalizerInv ==
  ASSUME HeapIInv, NEW o \in Objects, FireFinalizer(o)
  PROVE  HeapIInv'
<1>1. /\ calls # <<>> /\ Top.op \in {"pend", "exit"}
      /\ fin' = [fin EXCEPT ![o] = "off"]
      /\ UNCHANGED <<globals, refs, born, alive, pending, finalized, cleared, weak, finHeld,
                     wiped, delRuns, renewed, exited, program>>
  BY DEF FireFinalizer, Running
<1>2. Top \in Activations
  BY <1>1, SplitFacts
<1>. DEFINE c == Act(Top.op, "fin", Top.todo \ {o}, {})
<1>3. \/ calls' = Append(Front(calls), c)
      \/ calls' = Append(Front(calls), c) \o <<Callback>>
  BY DEF FireFinalizer, Goto, GotoAndPush
<1>4. c \in Activations /\ c.op = Top.op /\ c.held = {}
  <2>1. Top.todo \ {o} \in SUBSET Objects
    BY <1>2 DEF Activations
  <2>. QED  BY <1>1, <2>1, ActFacts
<1>. HIDE DEF c
<1>5. FrameOK(c, born, Off') /\ ~Sweeping(Top)
  BY <1>1, <1>4 DEF FrameOK, Sweeping
<1>6. TableInv'
  BY <1>1 DEF HeapIInv, TableInv
<1>. QED  BY <1>1, <1>3, <1>4, <1>5, <1>6, GotoKeep

(* A run of finalizers ends, and so does the shutdown. *)
LEMMA PopInv ==
  ASSUME HeapIInv, PendingDone \/ ShutdownDone
  PROVE  HeapIInv'
<1>1. /\ calls # <<>> /\ Top.op \in {"pend", "exit"} /\ exited' \in BOOLEAN
      /\ UNCHANGED <<globals, refs, born, alive, pending, finalized, cleared, weak, fin, finHeld,
                     wiped, delRuns, renewed, program>>
  BY DEF PendingDone, ShutdownDone, Running, HeapIInv, TableInv
<1>2. calls' = Front(calls)
  <2>1. CASE PendingDone
    BY <2>1 DEF PendingDone
  <2>2. CASE ShutdownDone
    BY <1>1, <2>2, SplitFacts DEF ShutdownDone, Running
  <2>. QED  BY <2>1, <2>2
<1>3. TableInv' /\ Off' = Off
  BY <1>1 DEF HeapIInv, TableInv, Off
<1>4. \A l \in wiped \ renewed : l \in HeldBy(Front(calls))
  BY <1>1, SplitFacts DEF Sweeping
<1>5. Stackable(Front(calls), Off, wiped \ renewed)
  BY <1>1, StackableNow
<1>. QED  BY <1>1, <1>2, <1>3, <1>4, <1>5, KeepEnd

-----------------------------------------------------------------------------
(* Calls and returns after which the counts settle *)

(* Program code comes back, a collection ends, __del__ has returned. *)
LEMMA ReturnInv ==
  ASSUME HeapIInv, Return \/ GcReturn \/ PendingDelDone
  PROVE  HeapIInv'
<1>1. /\ calls # <<>> /\ Settle(refs, alive, wiped)
      /\ UNCHANGED <<globals, born, pending, finalized, cleared, weak, fin, finHeld, delRuns,
                     renewed, exited, program>>
  BY DEF Return, GcReturn, PendingDelDone, Running
<1>2. TableInv' /\ DelInv' /\ Off' = Off
  BY <1>1 DEF HeapIInv, TableInv, DelInv, Off
<1>3. Stackable(Front(calls), Off, wiped \ renewed)
  BY <1>1, StackableNow
<1>4. Stackable(calls', Off, wiped \ renewed)
  <2>1. CASE Return \/ GcReturn
    BY <1>3, <2>1 DEF Return, GcReturn
  <2>2. CASE PendingDelDone
    <3>. DEFINE c == Act("pend", "fin", DeadFinalizers, {})
    <3>1. calls' = Append(Front(calls), c)
      BY <2>2 DEF PendingDelDone, Goto, Running
    <3>2. c \in Activations /\ c.op = "pend" /\ c.held = {}
      <4>1. DeadFinalizers \in SUBSET Objects
        BY HeapFacts DEF DeadFinalizers
      <4>. QED  BY <4>1, ActFacts
    <3>. HIDE DEF c
    <3>3. FrameOK(c, born, Off)
      BY <3>2 DEF FrameOK
    <3>. QED  BY <1>3, <3>1, <3>2, <3>3, StackablePush
  <2>. QED  BY <2>1, <2>2
<1>5. \A o \in wiped \ renewed' : o \in finalized' \cup cleared'
  BY <1>1, HeapFacts
<1>. QED  BY <1>1, <1>2, <1>4, <1>5, SettleEnd

(* run_pending_del_finalizers is entered: one of the objects that are ready   *)
(* is taken and, unless it was before, finalized.                             *)
LEMMA RunPendingInv ==
  ASSUME HeapIInv, NEW all \in BOOLEAN, NEW base, RunPending(all, base),
         Stackable(base, Off, wiped \ renewed)
  PROVE  HeapIInv'
<1>1. DeadFinalizers \in SUBSET Objects
  BY HeapFacts DEF DeadFinalizers
<1>. DEFINE c == Act("pend", "fin", DeadFinalizers, {})
<1>2. c \in Activations /\ c.op = "pend" /\ c.held = {}
  BY <1>1, ActFacts
<1>3. Stackable(Append(base, c), Off, wiped \ renewed)
  <2>. HIDE DEF c
  <2>1. FrameOK(c, born, Off)
    BY <1>2 DEF FrameOK
  <2>. QED  BY <1>2, <2>1, StackablePush
<1>4. CASE StartFin(base)
  <2>1. /\ calls' = Append(base, c) /\ Settle(refs, alive, wiped)
        /\ UNCHANGED <<globals, born, pending, finalized, cleared, weak, fin, finHeld, delRuns,
                       renewed, exited, program>>
    BY <1>4 DEF StartFin
  <2>. HIDE DEF c
  <2>2. TableInv' /\ DelInv' /\ Off' = Off
    BY <2>1 DEF HeapIInv, TableInv, DelInv, Off
  <2>3. \A o \in wiped \ renewed' : o \in finalized' \cup cleared'
    BY <2>1, HeapFacts
  <2>. QED  BY <1>3, <2>1, <2>2, <2>3, SettleEnd
<1>5. CASE \E o \in ReadyToDel(all) : StartDel(o, ReadyToDel(all), base)
  <2>1. PICK o \in ReadyToDel(all) : StartDel(o, ReadyToDel(all), base)
    BY <1>5
  <2>2. /\ ReadyToDel(all) \subseteq pending /\ ReadyToDel(all) \subseteq alive /\ ReadyToDel(all) \subseteq Objects
        /\ o \in pending /\ o \in Objects /\ o \in born
        /\ \A l \in wiped \ renewed : l \notin ReadyToDel(all)
    BY <2>1, HeapFacts DEF ReadyToDel
  <2>3. /\ pending' = pending \ {o} /\ Settle(refs, alive, wiped)
        /\ UNCHANGED <<globals, born, cleared, weak, fin, finHeld, renewed, exited, program>>
    BY <2>1 DEF StartDel
  <2>4. CASE o \in finalized
    <3>1. calls' = Append(base, c) /\ UNCHANGED <<finalized, delRuns>>
      BY <2>1, <2>4 DEF StartDel
    <3>. HIDE DEF c
    <3>2. TableInv' /\ DelInv' /\ Off' = Off
      BY <2>3, <2>4, <3>1 DEF HeapIInv, TableInv, DelInv, Off
    <3>3. \A l \in wiped \ renewed' : l \in finalized' \cup cleared'
      BY <2>3, <3>1, HeapFacts
    <3>4. pending' \subseteq pending
      BY <2>3
    <3>. QED  BY <1>3, <2>3, <3>1, <3>2, <3>3, <3>4, SettleEnd
  <2>5. CASE o \notin finalized
    <3>. DEFINE d == Act("pend", "del", {}, ReadyToDel(all))
                e == Act("del", "run", {}, {o})
    <3>1. /\ calls' = base \o <<d, e>>
          /\ finalized' = finalized \cup {o}
          /\ delRuns' = [delRuns EXCEPT ![o] = @ + 1]
      BY <2>1, <2>5 DEF StartDel, Del
    <3>2. /\ d \in Activations /\ d.op = "pend" /\ d.held = ReadyToDel(all)
          /\ e \in Activations /\ e.op = "del" /\ e.held = {o}
      BY <2>2, ActFacts
    <3>. HIDE DEF c, d, e
    <3>3. FrameOK(d, born, Off) /\ FrameOK(e, born, Off)
      BY <3>2 DEF FrameOK
    <3>4. Stackable(Append(base, d), Off, wiped \ renewed)
      BY <2>2, <3>2, <3>3, StackablePush
    <3>5. Stackable(Append(Append(base, d), e), Off, wiped \ renewed)
      BY <2>2, <3>2, <3>3, <3>4, StackablePush
    <3>6. Off \subseteq Off'
      BY <2>3, <3>1 DEF Off
    <3>7. Stackable(Append(Append(base, d), e), Off', wiped \ renewed')
      BY <2>3, <3>5, <3>6, StackableShift
    <3>8. calls' = Append(Append(base, d), e)
      BY <3>1, <3>2, AppendTwo DEF Stackable
    <3>9. TableInv'
      BY <2>2, <2>3, <3>1 DEF HeapIInv, TableInv
    <3>10. DelInv'
      <4>1. delRuns' \in [Objects -> Nat]
        BY <2>2, <3>1 DEF HeapIInv, DelInv
      <4>2. \A p \in Objects : /\ p \in finalized' => delRuns'[p] = 1
                               /\ p \notin finalized' => delRuns'[p] = 0
        BY <2>2, <2>5, <3>1 DEF HeapIInv, DelInv
      <4>3. (HasDel \cap born') \ finalized' \subseteq pending'
        BY <2>3, <3>1 DEF HeapIInv, DelInv
      <4>. QED  BY <4>1, <4>2, <4>3 DEF DelInv
    <3>11. \A l \in wiped \ renewed' : l \in finalized' \cup cleared'
      BY <2>3, <3>1, HeapFacts
    <3>12. pending' \subseteq pending
      BY <2>3
    <3>. QED  BY <2>3, <3>7, <3>8, <3>9, <3>10, <3>11, <3>12, SettleEnd
  <2>. QED  BY <2>4, <2>5
<1>. QED  BY <1>4, <1>5 DEF RunPending

(* The hook between instructions, gc.collect(), and the shutdown enter it. *)
LEMMA PendingInv ==
  ASSUME HeapIInv, Hook \/ CallGc \/ ShutdownDel
  PROVE  HeapIInv'
<1>1. CASE Hook
  BY <1>1, StackableNow, RunPendingInv DEF Hook
<1>. DEFINE c == Act("gc", "dead", {}, {})
            x == Act("exit", "end", {}, {})
<1>2. /\ c \in Activations /\ c.op = "gc" /\ c.at = "dead" /\ c.todo = {} /\ c.held = {}
      /\ x \in Activations /\ x.op = "exit" /\ x.held = {}
  BY ActFacts
<1>3. CASE CallGc
  <2>1. IF Finalizing
        THEN /\ calls' = Append(calls, c)
             /\ UNCHANGED <<globals, refs, born, alive, pending, finalized, cleared, weak, fin,
                            finHeld, wiped, delRuns, renewed, exited, program>>
        ELSE RunPending(FALSE, Append(calls, c))
    BY <1>3 DEF CallGc
  <2>. HIDE DEF c
  <2>2. FrameOK(c, born, Off)
    BY <1>2 DEF FrameOK
  <2>3. /\ Stackable(Append(calls, c), Off, wiped \ renewed)
        /\ HeldBy(Append(calls, c)) = HeldBy(calls) \cup c.held
    BY <1>2, <2>2, StackableNow, StackablePush
  <2>4. CASE Finalizing
    <3>1. /\ calls' = Append(calls, c)
          /\ UNCHANGED <<globals, refs, born, alive, pending, finalized, cleared, weak, fin,
                         finHeld, wiped, delRuns, renewed, exited, program>>
      BY <2>1, <2>4
    <3>2. TableInv' /\ Off' = Off
      BY <3>1, TableKeep DEF Off
    <3>3. \A l \in wiped \ renewed : l \in HeldBy(calls')
      BY <2>3, <3>1, HeapFacts
    <3>. QED  BY <2>3, <3>1, <3>2, <3>3, KeepEnd
  <2>5. CASE ~Finalizing
    BY <2>1, <2>3, <2>5, RunPendingInv
  <2>. QED  BY <2>4, <2>5
<1>4. CASE ShutdownDel
  <2>1. RunPending(TRUE, <<x>>)
    BY <1>4 DEF ShutdownDel
  <2>. HIDE DEF x
  <2>2. FrameOK(x, born, Off)
    BY <1>2 DEF FrameOK
  <2>3. Stackable(Append(<<>>, x), Off, wiped \ renewed)
    BY <1>2, <2>2, StackableNow, StackablePush
  <2>4. Append(<<>>, x) = <<x>>
    OBVIOUS
  <2>. QED  BY <2>1, <2>3, <2>4, RunPendingInv
<1>. QED  BY <1>1, <1>3, <1>4

(* A collection takes an unreachable object off the queue and finalizes it,   *)
(* unless that was done before.                                               *)
LEMMA GcDelInv ==
  ASSUME HeapIInv, NEW o \in Objects, GcDel(o)
  PROVE  HeapIInv'
<1>. DEFINE f == Front(calls)
            rest == Top.todo \ {o}
            c == Act("gc", "del", rest, rest)
            e == Act("del", "run", {}, {o})
            L == wiped \ renewed'
<1>1. /\ calls # <<>> /\ Top.op = "gc" /\ Top.at = "del" /\ o \in Top.todo
      /\ pending' = pending \ {o} /\ cleared' = cleared \ {o}
      /\ renewed' = renewed \cup ({o} \cap cleared \cap HeldBy(f))
      /\ UNCHANGED <<globals, born, weak, fin, finHeld, exited, program>>
      /\ Settle(refs, alive, wiped)
  BY DEF GcDel, Running
<1>2. /\ NeedsDel(o) => /\ calls' = Append(f, c) \o <<e>>
                        /\ finalized' = finalized \cup {o}
                        /\ delRuns' = [delRuns EXCEPT ![o] = @ + 1]
      /\ ~NeedsDel(o) => calls' = Append(f, c) /\ UNCHANGED <<finalized, delRuns>>
  BY <1>1 DEF GcDel, GotoAndPush, Goto, Del
<1>3. /\ f \in Seq(Activations) /\ Top.held \subseteq alive /\ FrameOK(Top, born, Off)
      /\ \A l \in wiped \ renewed : SweptBy(f, l) \/ Sweeping(Top)
      /\ \A l \in wiped \ renewed : SweptBy(f, l) => l \in HeldBy(f)
  BY <1>1, SplitFacts
<1>4. /\ rest \subseteq alive /\ rest \subseteq born /\ rest \subseteq Objects
      /\ o \in alive /\ o \in born
  BY <1>1, <1>3, HeapFacts DEF FrameOK
<1>5. \A l \in wiped \ renewed : SweptBy(f, l) /\ l \in HeldBy(f)
  BY <1>1, <1>3 DEF Sweeping
<1>6. finalized \subseteq finalized'
  BY <1>2
<1>7. L \subseteq wiped \ renewed /\ renewed \subseteq renewed'
  BY <1>1
<1>8. Stackable(f, Off', L)
  <2>1. Stackable(f, Off, wiped \ renewed)
    BY <1>1, StackableNow
  <2>2. Off \cap HeldBy(f) \subseteq Off'
    <3>. HIDE DEF f
    <3>. QED  BY <1>1, <1>6 DEF Off
  <2>. HIDE DEF f, L
  <2>. QED  BY <1>7, <2>1, <2>2, StackableShift
<1>9. /\ c \in Activations /\ c.op = "gc" /\ c.at = "del" /\ c.todo = rest /\ c.held = rest
      /\ e \in Activations /\ e.op = "del" /\ e.held = {o}
  BY <1>4, ActFacts
<1>. HIDE DEF f, rest, c, e, L
<1>10. FrameOK(c, born, Off') /\ FrameOK(e, born, Off')
  BY <1>4, <1>9 DEF FrameOK
<1>11. Stackable(Append(f, c), Off', L)
  BY <1>4, <1>5, <1>7, <1>8, <1>9, <1>10, StackablePush
<1>12. NeedsDel(o) => o \notin L
  BY <1>4, <1>7, HeapFacts DEF NeedsDel, HeapIInv, DelInv
<1>13. Stackable(calls', Off', L)
  <2>1. CASE NeedsDel(o)
    <3>1. Stackable(Append(Append(f, c), e), Off', L)
      BY <1>4, <1>9, <1>10, <1>11, <1>12, <2>1, StackablePush
    <3>2. Append(f, c) \in Seq(Activations)
      BY <1>11 DEF Stackable
    <3>3. Append(f, c) \o <<e>> = Append(Append(f, c), e)
      BY <1>9, <3>2, AppendIsConcat
    <3>. QED  BY <1>2, <2>1, <3>1, <3>3
  <2>2. CASE ~NeedsDel(o)
    BY <1>2, <1>11, <2>2
  <2>. QED  BY <2>1, <2>2
<1>14. TableInv'
  BY <1>1, <1>2, <1>4 DEF HeapIInv, TableInv
<1>15. DelInv'
  <2>1. CASE NeedsDel(o)
    <3>1. o \notin finalized
      BY <2>1 DEF NeedsDel
    <3>2. delRuns' \in [Objects -> Nat]
      BY SMTT(60), <1>2, <2>1 DEF HeapIInv, DelInv
    <3>3. \A p \in Objects : /\ p \in finalized' => delRuns'[p] = 1
                             /\ p \notin finalized' => delRuns'[p] = 0
      BY <1>2, <2>1, <3>1 DEF HeapIInv, DelInv
    <3>4. (HasDel \cap born') \ finalized' \subseteq pending'
      BY <1>1, <1>2, <2>1 DEF HeapIInv, DelInv
    <3>. QED  BY <3>2, <3>3, <3>4 DEF DelInv
  <2>2. CASE ~NeedsDel(o)
    BY <1>1, <1>2, <2>2 DEF NeedsDel, HeapIInv, DelInv
  <2>. QED  BY <2>1, <2>2
<1>16. ASSUME NEW l \in L PROVE l \in finalized' \cup cleared'
  <2>1. l \in wiped \ renewed
    BY <1>7
  <2>2. l \in finalized \cup cleared /\ l \in HeldBy(f)
    BY <1>5, <2>1, HeapFacts
  <2>3. l \notin renewed'
    BY DEF L
  <2>. QED  BY <1>1, <1>6, <2>2, <2>3
<1>17. pending' \subseteq pending
  BY <1>1
<1>. QED  BY <1>1, <1>7, <1>13, <1>14, <1>15, <1>16, <1>17, SettleEnd DEF L

(* The sweep: what it empties had its weak references cleared, nothing that   *)
(* was not swept refers to it, and this collection alone still holds it.      *)
LEMMA GcSweepInv ==
  ASSUME HeapIInv, GcSweep
  PROVE  HeapIInv'
<1>. DEFINE f == Front(calls)
            c == Act("gc", "sweep", {}, Top.held)
            r == Emptied(Swept)
            w == wiped \cup Loose(Swept)
<1>1. /\ calls # <<>> /\ Top.op = "gc" /\ Top.at = "weak" /\ Top.todo = {}
      /\ fin' = [o \in Objects |-> IF fin[o] = "armed" /\ o \notin finHeld THEN "blank" ELSE fin[o]]
      /\ UNCHANGED <<globals, born, pending, finalized, cleared, weak, finHeld, delRuns, renewed,
                     exited, program>>
      /\ Settle(r, alive, w)
  BY DEF GcSweep, Running
<1>2. calls' = Append(f, c)
  BY <1>1 DEF GcSweep, Goto
<1>3. /\ f \in Seq(Activations) /\ Top.held \subseteq alive /\ FrameOK(Top, born, Off)
      /\ HeldBy(f) \subseteq alive /\ calls = Append(f, Top) /\ Top \in Activations
      /\ \A l \in wiped \ renewed : /\ SweptBy(f, l) \/ Sweeping(Top)
                                    /\ l \notin DelHeld(f)
  BY <1>1, SplitFacts
<1>4. Top.held \subseteq Off
  BY <1>1, <1>3 DEF FrameOK
<1>5. \A l \in wiped \ renewed : SweptBy(f, l)
  BY <1>1, <1>3 DEF Sweeping
<1>6. c \in Activations /\ c.op = "gc" /\ c.at = "sweep" /\ c.todo = {} /\ c.held = Top.held
  BY <1>3, HeapFacts, ActFacts
<1>7. /\ alive \subseteq Objects /\ refs \in [Objects -> SUBSET alive]
      /\ Swept = alive \ Marked
      /\ globals \cup DelHeld(calls) \subseteq Marked
      /\ \A p \in Marked : refs[p] \subseteq Marked
  BY HeapFacts, MarkedFacts DEF Swept, Unreachable
<1>8. Loose(Swept) = Swept \ (pending \cup HeldBy(f))
  BY DEF Loose
<1>9. r \in [Objects -> SUBSET alive]
  BY <1>7 DEF Emptied
<1>10. \A p \in Objects : r[p] \subseteq refs[p] /\ r[p] \subseteq Marked
  <2>1. ASSUME NEW p \in Objects PROVE r[p] \subseteq refs[p] /\ r[p] \subseteq Marked
    <3>1. r[p] = IF p \in Swept THEN {} ELSE refs[p]
      BY DEF Emptied
    <3>2. p \in Swept \/ p \in Marked \/ p \notin alive
      BY <1>7
    <3>. QED  BY <1>7, <3>1, <3>2, HeapFacts
  <2>. QED  BY <2>1
<1>11. w \in SUBSET alive /\ alive \in SUBSET born'
  BY <1>1, <1>7, <1>8, HeapFacts
<1>. HIDE DEF f, c, r, w
<1>12. FrameOK(c, born, Off) /\ Sweeping(c) /\ Off' = Off
  BY <1>1, <1>6 DEF FrameOK, Sweeping, Off
<1>13. /\ HeldBy(calls') = HeldBy(f) \cup Top.held
       /\ DelHeld(calls') = DelHeld(f)
       /\ DelHeld(f) \subseteq DelHeld(calls)
       /\ \A l : SweptBy(calls', l) <=> \/ SweptBy(f, l)
                                        \/ l \in Top.held /\ l \notin HeldBy(f)
  <2>1. /\ HeldBy(Append(f, c)) = HeldBy(f) \cup c.held
        /\ DelHeld(Append(f, c)) = DelHeld(f) \cup (IF c.op = "del" THEN c.held ELSE {})
        /\ \A l : SweptBy(Append(f, c), l)
                    <=> \/ SweptBy(f, l)
                        \/ Sweeping(c) /\ l \in c.held /\ l \notin HeldBy(f)
    BY <1>3, <1>6, PushFacts
  <2>2. DelHeld(f) \subseteq DelHeld(calls)
    <3>1. PICK t : t = Top
      OBVIOUS
    <3>2. DelHeld(Append(f, t)) = DelHeld(f) \cup (IF t.op = "del" THEN t.held ELSE {})
      BY <1>3, <3>1, PushFacts
    <3>. QED  BY <1>3, <3>1, <3>2
  <2>. QED  BY <1>2, <1>6, <1>12, <2>1, <2>2
<1>14. StackInv'
  <2>1. Stackable(f, Off, wiped \ renewed)
    BY <1>1, StackableNow DEF f
  <2>2. Stackable(Append(f, c), Off, wiped \ renewed)
    BY <1>3, <1>5, <1>6, <1>12, <2>1, StackablePush
  <2>. QED  BY <1>1, <1>2, <1>12, <2>2 DEF Stackable, StackInv
<1>15. TableInv' /\ DelInv'
  <2>1. fin' \in [Objects -> {"none", "armed", "off", "blank"}]
    BY <1>1 DEF HeapIInv, TableInv
  <2>2. DelInv'
    BY <1>1 DEF HeapIInv, DelInv
  <2>. QED  BY <1>1, <2>1, <2>2 DEF HeapIInv, TableInv
<1>16. ASSUME NEW o \in w \ renewed'
       PROVE  /\ o \in globals' \cup pending' \cup HeldBy(calls') => LostOK(o)'
              /\ \A p \in Objects : o \notin r[p]
  <2>1. CASE o \in wiped
    <3>1. o \in wiped \ renewed
      BY <1>1, <1>16, <2>1
    <3>2. o \notin globals /\ o \notin pending /\ o \in finalized \cup cleared
          /\ \A p \in Objects : o \notin refs[p]
      BY <3>1, HeapFacts
    <3>3. o \notin DelHeld(calls') /\ SweptBy(calls', o)
      BY <1>3, <1>5, <1>13, <3>1
    <3>. QED  BY <1>1, <1>10, <3>2, <3>3 DEF LostOK
  <2>2. CASE o \notin wiped
    <3>1. o \notin Marked /\ o \notin pending /\ o \notin HeldBy(f) /\ o \notin renewed
      BY <1>1, <1>7, <1>8, <1>16, <2>2 DEF w
    <3>2. o \notin globals /\ o \notin DelHeld(calls')
      BY <1>7, <1>13, <3>1
    <3>3. ASSUME o \in HeldBy(calls') PROVE SweptBy(calls', o) /\ o \in finalized \cup cleared
      BY <1>4, <1>13, <3>1, <3>3 DEF Off
    <3>. QED  BY <1>1, <1>10, <3>1, <3>2, <3>3 DEF LostOK
  <2>. QED  BY <2>1, <2>2
<1>17. globals' \cup pending' \cup HeldBy(calls') \subseteq alive
  BY <1>1, <1>3, <1>13, HeapFacts
<1>. QED  BY <1>1, <1>9, <1>11, <1>14, <1>15, <1>16, <1>17, SettleInv

-----------------------------------------------------------------------------
(* The theorems *)

(* A program starts with an empty heap. *)
LEMMA HeapInitInv == HeapInit => HeapIInv
<1>. SUFFICES ASSUME HeapInit PROVE HeapIInv
  OBVIOUS
<1>. USE DEF HeapInit
<1>1. HeldBy(calls) = {}
  BY EmptyStack
<1>2. HeapInv
  BY <1>1 DEF HeapInv, LostInv
<1>3. TableInv
  BY DEF TableInv
<1>4. DelInv
  BY DEF DelInv
<1>5. StackInv
  BY EmptyStack DEF StackInv
<1>. QED  BY <1>2, <1>3, <1>4, <1>5 DEF HeapIInv

(* Every step keeps the invariant. *)
LEMMA HeapNextInv == HeapIInv /\ [HeapNext]_heapVars => HeapIInv'
<1>. SUFFICES ASSUME HeapIInv, [HeapNext]_heapVars PROVE HeapIInv'
  OBVIOUS
<1>1. CASE Program
  <2>1. ASSUME NEW o \in Objects, New(o) PROVE HeapIInv'
    BY <2>1, NewInv
  <2>2. ASSUME NEW o \in Objects, NEW q \in Objects,
               Bind(o) \/ Unbind(o) \/ CallWeakRef(o) \/ SetAttr(o, q) \/ DelAttr(o, q)
        PROVE  HeapIInv'
    BY <2>2, RefsInv
  <2>3. ASSUME NEW o \in Objects, WeakRef(o) \/ Finalize(o) \/ DropFinalizer(o) \/ Detach(o)
        PROVE  HeapIInv'
    BY <2>3, WatchersInv
  <2>4. ASSUME NEW o \in Objects, HostCall(o) PROVE HeapIInv'
    BY <2>4, PushInv
  <2>. QED  BY <1>1, <2>1, <2>2, <2>3, <2>4 DEF Program
<1>2. CASE Return
  BY <1>2, ReturnInv
<1>3. CASE Pending
  BY <1>3, PendingInv, ReturnInv, PopInv, FireFinalizerInv DEF Pending
<1>4. CASE CallGc
  BY <1>4, PendingInv
<1>5. CASE Gc
  BY <1>5, StageInv, GcSweepInv, ReturnInv, GcClearInv, GcDelInv DEF Gc
<1>6. CASE Exit
  BY <1>6, PushInv, PendingInv, PopInv DEF Exit
<1>7. CASE UNCHANGED heapVars
  <2>1. TableInv' /\ DelInv' /\ StackInv'
    BY <1>7 DEF heapVars, HeapIInv, TableInv, DelInv, StackInv, Off
  <2>2. \A o \in wiped \ renewed : LostOK(o)' /\ o \in HeldBy(calls')
    BY <1>7, HeapFacts DEF heapVars, LostOK
  <2>. QED  BY <1>7, <2>1, <2>2, HeapFacts, KeepInv DEF heapVars
<1>. QED  BY <1>1, <1>2, <1>3, <1>4, <1>5, <1>6, <1>7 DEF HeapNext

(* The inductive invariant holds of the heap: what holders hold is alive, the *)
(* queue and finalized_del_objects account for every __del__, a collection    *)
(* has cleared the weak references to what it is about to empty, and what was *)
(* emptied is out of reach and held by the collection that emptied it alone.  *)
THEOREM HeapInvariance == HeapSpec => []HeapIInv
BY HeapInitInv, HeapNextInv, PTL DEF HeapSpec

(* Types, nothing held that has gone, and __del__ exactly once for what goes, *)
(* whichever of the hook, collections inside one another and the shutdown     *)
(* calls it.                                                                  *)
THEOREM HeapIsConsistent == HeapSpec => []HeapConsistent
<1>1. HeapIInv => HeapConsistent
  <2>. SUFFICES ASSUME HeapIInv PROVE HeapConsistent
    OBVIOUS
  <2>1. HeapTypeOK
    BY DEF HeapTypeOK, HeapIInv, HeapInv, TableInv, DelInv, StackInv
  <2>2. DelOnce
    BY DEF DelOnce, HeapIInv, DelInv
  <2>3. NeverGoesWithoutDel
    BY HeapFacts DEF NeverGoesWithoutDel, HeapIInv, DelInv
  <2>. QED  BY <2>1, <2>2, <2>3 DEF HeapConsistent
<1>. QED  BY <1>1, HeapInvariance, PTL

(* The marking, and so the program, never again comes to an object that       *)
(* collect_cycles emptied while neither the queue nor host code held it,      *)
(* unless a collection inside took its cleared weak references back.          *)
THEOREM ReachableIsIntact == HeapSpec => []ReachableIntact
<1>1. HeapIInv => ReachableIntact
  BY MarkedFacts DEF ReachableIntact
<1>. QED  BY <1>1, HeapInvariance, PTL

-----------------------------------------------------------------------------
(* Sequences and numbers *)

(* A non-empty set of naturals has a least element, and Min returns it. *)
LEMMA MinOfNats ==
  ASSUME NEW S, S \subseteq Nat, S # {}
  PROVE  Min(S) \in S /\ \A y \in S : Min(S) <= y
<1>1. PICK x \in S : \A y \in S : ~ (<<y, x>> \in OpToRel(<, Nat))
  BY NatLessThanWellFounded, WFMin
<1>2. ASSUME NEW y \in S PROVE x <= y
  <2>1. x \in Nat /\ y \in Nat
    OBVIOUS
  <2>2. ~(y < x)
    BY <1>1, <2>1 DEF OpToRel
  <2>. QED  BY <2>1, <2>2
<1>. QED  BY <1>2 DEF Min

(* Taking element i out of a sequence: the elements after it move down by  *)
(* one.                                                                    *)
LEMMA RemoveAtProperties ==
  ASSUME NEW S, NEW s \in Seq(S), NEW i \in 1 .. Len(s)
  PROVE  /\ RemoveAt(s, i) \in Seq(S)
         /\ Len(RemoveAt(s, i)) = Len(s) - 1
         /\ \A j \in 1 .. (Len(s) - 1) :
              RemoveAt(s, i)[j] = IF j < i THEN s[j] ELSE s[j + 1]
<1>. DEFINE a == SubSeq(s, 1, i - 1)
            b == SubSeq(s, i + 1, Len(s))
<1>1. a \in Seq(S) /\ Len(a) = i - 1 /\ \A j \in 1 .. (i - 1) : a[j] = s[j]
  BY SubSeqProperties
<1>2. b \in Seq(S) /\ Len(b) = Len(s) - i /\ \A j \in 1 .. (Len(s) - i) : b[j] = s[i + j]
  <2>1. \A j \in (i + 1) .. Len(s) : s[j] \in S
    OBVIOUS
  <2>2. /\ b \in Seq(S)
        /\ Len(b) = IF i + 1 <= Len(s) THEN Len(s) - (i + 1) + 1 ELSE 0
        /\ \A j \in 1 .. (Len(s) - (i + 1) + 1) : b[j] = s[(i + 1) + j - 1]
    BY <2>1, SubSeqProperties
  <2>. QED  BY <2>2
<1>3. /\ a \o b \in Seq(S)
      /\ Len(a \o b) = Len(a) + Len(b)
      /\ \A j \in 1 .. Len(a) + Len(b) : (a \o b)[j] = IF j <= Len(a) THEN a[j] ELSE b[j - Len(a)]
  BY <1>1, <1>2, ConcatProperties
<1>4. RemoveAt(s, i) = a \o b
  BY DEF RemoveAt
<1>5. ASSUME NEW j \in 1 .. (Len(s) - 1)
      PROVE  RemoveAt(s, i)[j] = IF j < i THEN s[j] ELSE s[j + 1]
  <2>1. CASE j < i
    <3>. HIDE DEF a, b
    <3>1. j \in 1 .. (i - 1) /\ j \in 1 .. Len(a) + Len(b) /\ j <= Len(a)
      BY <2>1, <1>1, <1>2
    <3>2. (a \o b)[j] = a[j]
      BY <3>1, <1>3
    <3>3. a[j] = s[j]
      BY <3>1, <1>1
    <3>. QED  BY <3>2, <3>3, <1>4, <2>1
  <2>2. CASE ~(j < i)
    <3>. HIDE DEF a, b
    <3>1. (a \o b)[j] = b[j - Len(a)]
      BY <2>2, <1>1, <1>2, <1>3
    <3>2. j - Len(a) \in 1 .. (Len(s) - i) /\ i + (j - Len(a)) = j + 1
      BY <2>2, <1>1
    <3>3. b[j - Len(a)] = s[i + (j - Len(a))]
      BY <3>2, <1>2
    <3>4. RemoveAt(s, i)[j] = s[j + 1]
      BY <3>1, <3>2, <3>3, <1>4
    <3>. QED  BY <3>4, <2>2
  <2>. QED  BY <2>1, <2>2
<1>6. RemoveAt(s, i) \in Seq(S) /\ Len(RemoveAt(s, i)) = Len(s) - 1
  <2>. HIDE DEF a, b
  <2>1. Len(a) + Len(b) = Len(s) - 1
    BY <1>1, <1>2, LenProperties
  <2>2. Len(a \o b) = Len(s) - 1
    BY <1>3, <2>1
  <2>. QED  BY <1>3, <1>4, <2>2, Zenon
<1>. QED  BY <1>5, <1>6

-----------------------------------------------------------------------------
(* The inductive invariant *)

Distinct(s) == \A p, q \in DOMAIN s : s[p] = s[q] => p = q

\* The buckets of ix list the first n positions of vs, each once.
Indexed(vs, ix, n) ==
  \A h \in Hashes :
    /\ Range(ix[h]) = {i \in 1 .. n : HashOf[vs[i]] = h}
    /\ Distinct(ix[h])

\* Between calls the whole vector is indexed; a rebuild has come to its
\* cursor; while retain filters the vector, the buckets mean nothing.
StorageInv ==
  /\ TypeOK
  /\ Distinct(values)
  /\ Ready => Indexed(values, index, Len(values))
  /\ ~Ready => cursor \in 1 .. (Len(values) + 1)
  /\ pc = "rebuild" => Indexed(values, index, cursor - 1)

CallRecord == [op : {"add", "remove", "contains"}, value : Values,
               at : Nat \ {0}, copy : Seq(Values)]

CallsInv ==
  /\ eqCalls \in Seq(CallRecord)
  /\ Len(eqCalls) <= MaxEqDepth
  /\ \A i \in DOMAIN eqCalls : eqCalls[i].at <= Len(eqCalls[i].copy) + 1
  /\ ~Ready => eqCalls = <<>>
  /\ quiet \in BOOLEAN

\* In a quiet program the copies are still the vector, no call has passed a
\* value equal to its own, and no two members are equal.
Unseen(c) ==
  /\ c.copy = values
  /\ \A p \in 1 .. (c.at - 1) : ~Equal(values[p], c.value)

QuietInv ==
  quiet => /\ \A u, v \in Range(values) : Equal(u, v) => u = v
           /\ \A i \in DOMAIN eqCalls : Unseen(eqCalls[i])

SetIInv == StorageInv /\ CallsInv /\ QuietInv

-----------------------------------------------------------------------------
(* Vectors and buckets *)

(* The first of a set of positions is one of them. *)
LEMMA FirstOfIsMember ==
  ASSUME NEW S, S \subseteq Nat, S # {}
  PROVE  FirstOf(S) \in S
<1>1. Min(S) \in S /\ \A y \in S : Min(S) <= y
  BY MinOfNats
<1>. QED  BY <1>1 DEF FirstOf

(* What Vec::swap_remove leaves. *)
LEMMA SwapRemoveShape ==
  ASSUME NEW S, NEW s \in Seq(S), NEW i \in 1 .. Len(s)
  PROVE  /\ SwapRemove(s, i) \in Seq(S)
         /\ Len(SwapRemove(s, i)) = Len(s) - 1
         /\ DOMAIN SwapRemove(s, i) = 1 .. (Len(s) - 1)
         /\ \A j \in 1 .. (Len(s) - 1) :
              SwapRemove(s, i)[j] = IF j = i THEN s[Len(s)] ELSE s[j]
<1>1. Len(s) - 1 \in Nat /\ Len(s) \in 1 .. Len(s)
  OBVIOUS
<1>2. \A j \in 1 .. Len(s) : s[j] \in S
  OBVIOUS
<1>3. \A j \in 1 .. (Len(s) - 1) : j \in 1 .. Len(s)
  OBVIOUS
<1>4. SwapRemove(s, i) \in [1 .. (Len(s) - 1) -> S]
  BY <1>1, <1>2, <1>3 DEF SwapRemove
<1>5. SwapRemove(s, i) \in Seq(S) /\ Len(SwapRemove(s, i)) = Len(s) - 1
  BY <1>1, <1>4
<1>. QED  BY <1>4, <1>5 DEF SwapRemove

(* Of a vector without duplicates it removes exactly that element. *)
LEMMA SwapRemoveRange ==
  ASSUME NEW S, NEW s \in Seq(S), NEW i \in 1 .. Len(s), Distinct(s)
  PROVE  /\ Range(SwapRemove(s, i)) = Range(s) \ {s[i]}
         /\ Distinct(SwapRemove(s, i))
<1>. DEFINE t == SwapRemove(s, i)
            n == Len(s)
<1>1. /\ n \in Nat /\ DOMAIN s = 1 .. n /\ DOMAIN t = 1 .. (n - 1)
      /\ \A j \in 1 .. (n - 1) : t[j] = IF j = i THEN s[n] ELSE s[j]
  BY SwapRemoveShape, LenProperties
<1>. HIDE DEF t, n
<1>2. i \in 1 .. n
  BY DEF n
<1>3. \A p, q \in 1 .. n : s[p] = s[q] => p = q
  BY <1>1 DEF Distinct
<1>4. ASSUME NEW j \in 1 .. (n - 1) PROVE t[j] \in Range(s) \ {s[i]}
  <2>1. CASE j = i
    BY <1>1, <1>2, <1>3, <1>4, <2>1 DEF Range
  <2>2. CASE j # i
    BY <1>1, <1>2, <1>3, <1>4, <2>2 DEF Range
  <2>. QED  BY <2>1, <2>2
<1>5. ASSUME NEW j \in 1 .. n, s[j] # s[i] PROVE \E k \in 1 .. (n - 1) : t[k] = s[j]
  <2>1. CASE j = n
    <3>1. i # n /\ i \in 1 .. (n - 1)
      BY <1>1, <1>2, <1>5, <2>1
    <3>. QED  BY <1>1, <2>1, <3>1
  <2>2. CASE j # n
    <3>1. j # i /\ j \in 1 .. (n - 1)
      BY <1>1, <1>5, <2>2
    <3>. QED  BY <1>1, <3>1
  <2>. QED  BY <2>1, <2>2
<1>6. Range(t) = Range(s) \ {s[i]}
  <2>1. Range(t) \subseteq Range(s) \ {s[i]}
    BY <1>1, <1>4 DEF Range
  <2>2. Range(s) \ {s[i]} \subseteq Range(t)
    BY <1>1, <1>5 DEF Range
  <2>. QED  BY <2>1, <2>2
<1>7. Distinct(t)
  <2>. SUFFICES ASSUME NEW p \in 1 .. (n - 1), NEW q \in 1 .. (n - 1), t[p] = t[q]
                PROVE  p = q
    BY <1>1 DEF Distinct
  <2>1. p \in 1 .. n /\ q \in 1 .. n /\ n \in 1 .. n /\ p # n /\ q # n
    BY <1>1
  <2>2. t[p] = (IF p = i THEN s[n] ELSE s[p]) /\ t[q] = (IF q = i THEN s[n] ELSE s[q])
    BY <1>1
  <2>. QED  BY <1>3, <2>1, <2>2
<1>. QED  BY <1>6, <1>7 DEF t

(* IndexBucket::remove_index takes the position out of the bucket. *)
LEMMA RemoveIndexShape ==
  ASSUME NEW b \in Seq(Nat \ {0}), NEW i \in Nat, Distinct(b)
  PROVE  /\ RemoveIndex(b, i) \in Seq(Nat \ {0})
         /\ Range(RemoveIndex(b, i)) = Range(b) \ {i}
         /\ Distinct(RemoveIndex(b, i))
<1>1. DOMAIN b = 1 .. Len(b) /\ Len(b) \in Nat
  BY LenProperties
<1>2. CASE PositionsOf(b, i) = {}
  BY <1>2 DEF RemoveIndex, PositionsOf, Range
<1>3. CASE PositionsOf(b, i) # {}
  <2>. DEFINE p == FirstOf(PositionsOf(b, i))
  <2>1. PositionsOf(b, i) \subseteq Nat
    BY <1>1 DEF PositionsOf
  <2>2. p \in PositionsOf(b, i)
    BY <1>3, <2>1, FirstOfIsMember
  <2>3. p \in 1 .. Len(b) /\ b[p] = i
    BY <1>1, <2>2 DEF PositionsOf
  <2>4. RemoveIndex(b, i) = SwapRemove(b, p)
    BY <1>3 DEF RemoveIndex
  <2>. HIDE DEF p
  <2>5. SwapRemove(b, p) \in Seq(Nat \ {0})
    BY <2>3, SwapRemoveShape
  <2>6. Range(SwapRemove(b, p)) = Range(b) \ {b[p]} /\ Distinct(SwapRemove(b, p))
    BY <2>3, SwapRemoveRange
  <2>. QED  BY <2>3, <2>4, <2>5, <2>6
<1>. QED  BY <1>2, <1>3

(* IndexBucket::replace_index puts the new position in the place of the old. *)
LEMMA ReplaceIndexShape ==
  ASSUME NEW b \in Seq(Nat \ {0}), NEW old \in Range(b), NEW new \in Nat \ {0}, Distinct(b),
         new \notin Range(b)
  PROVE  /\ ReplaceIndex(b, old, new) \in Seq(Nat \ {0})
         /\ Range(ReplaceIndex(b, old, new)) = (Range(b) \ {old}) \cup {new}
         /\ Distinct(ReplaceIndex(b, old, new))
<1>. DEFINE p == FirstOf(PositionsOf(b, old))
            c == [b EXCEPT ![p] = new]
<1>1. DOMAIN b = 1 .. Len(b) /\ Len(b) \in Nat
  BY LenProperties
<1>2. PositionsOf(b, old) \subseteq Nat /\ PositionsOf(b, old) # {}
  BY <1>1 DEF PositionsOf, Range
<1>3. p \in PositionsOf(b, old)
  BY <1>2, FirstOfIsMember
<1>4. p \in DOMAIN b /\ b[p] = old
  BY <1>3 DEF PositionsOf
<1>5. ReplaceIndex(b, old, new) = c
  BY <1>2 DEF ReplaceIndex
<1>. HIDE DEF p
<1>6. c \in Seq(Nat \ {0})
  BY <1>1, <1>4, ExceptSeq
<1>7. DOMAIN c = DOMAIN b /\ \A q \in DOMAIN b : c[q] = IF q = p THEN new ELSE b[q]
  BY <1>4
<1>. HIDE DEF c
<1>8. Range(c) = (Range(b) \ {old}) \cup {new}
  <2>1. ASSUME NEW q \in DOMAIN b PROVE c[q] \in (Range(b) \ {old}) \cup {new}
    BY <1>4, <1>7 DEF Range, Distinct
  <2>2. ASSUME NEW x \in (Range(b) \ {old}) \cup {new} PROVE \E q \in DOMAIN b : c[q] = x
    <3>1. CASE x = new
      BY <1>4, <1>7, <3>1
    <3>2. CASE x # new
      <4>1. PICK q \in DOMAIN b : b[q] = x
        BY <3>2 DEF Range
      <4>2. q # p
        BY <1>4, <2>2, <3>2, <4>1
      <4>. QED  BY <1>7, <4>1, <4>2
    <3>. QED  BY <3>1, <3>2
  <2>. QED  BY SMTT(60), <1>7, <2>1, <2>2 DEF Range
<1>9. Distinct(c)
  BY <1>7 DEF Distinct, Range
<1>. QED  BY <1>5, <1>6, <1>8, <1>9

-----------------------------------------------------------------------------
(* Indexing *)

(* Pushing the next position into the bucket of its value's hash. *)
LEMMA PushedIndexed ==
  ASSUME NEW vs \in Seq(Values), NEW ix \in [Hashes -> Seq(Nat \ {0})], NEW n \in Nat,
         n + 1 \in 1 .. Len(vs), Indexed(vs, ix, n)
  PROVE  /\ Pushed(ix, HashOf[vs[n + 1]], n + 1) \in [Hashes -> Seq(Nat \ {0})]
         /\ Indexed(vs, Pushed(ix, HashOf[vs[n + 1]], n + 1), n + 1)
<1>. DEFINE h == HashOf[vs[n + 1]]
            px == Pushed(ix, h, n + 1)
<1>1. vs[n + 1] \in Values /\ h \in Hashes \cup {NoHash}
  BY SetHashAssumption
<1>2. 1 .. (n + 1) = (1 .. n) \cup {n + 1} /\ n + 1 \notin 1 .. n
  OBVIOUS
<1>. HIDE DEF h
<1>3. px \in [Hashes -> Seq(Nat \ {0})]
  <2>1. CASE h = NoHash
    BY <2>1 DEF Pushed
  <2>2. CASE h \in Hashes
    <3>1. Append(ix[h], n + 1) \in Seq(Nat \ {0})
      BY <2>2, AppendProperties
    <3>2. px = [ix EXCEPT ![h] = Append(ix[h], n + 1)]
      BY <2>2, SetHashAssumption DEF Pushed
    <3>. QED  BY <2>2, <3>1, <3>2
  <2>. QED  BY <1>1, <2>1, <2>2
<1>4. ASSUME NEW k \in Hashes
      PROVE  Range(px[k]) = {i \in 1 .. (n + 1) : HashOf[vs[i]] = k} /\ Distinct(px[k])
  <2>1. Range(ix[k]) = {i \in 1 .. n : HashOf[vs[i]] = k} /\ Distinct(ix[k])
    BY DEF Indexed
  <2>2. CASE h = k
    <3>1. px[k] = Append(ix[k], n + 1)
      BY <2>2, SetHashAssumption DEF Pushed
    <3>2. ix[k] \in Seq(Nat \ {0})
      OBVIOUS
    <3>3. /\ Len(Append(ix[k], n + 1)) = Len(ix[k]) + 1
          /\ \A i \in 1 .. Len(ix[k]) : Append(ix[k], n + 1)[i] = ix[k][i]
          /\ Append(ix[k], n + 1)[Len(ix[k]) + 1] = n + 1
          /\ Append(ix[k], n + 1) \in Seq(Nat \ {0})
      BY <3>2, AppendProperties
    <3>4. /\ DOMAIN ix[k] = 1 .. Len(ix[k]) /\ Len(ix[k]) \in Nat
          /\ DOMAIN px[k] = 1 .. (Len(ix[k]) + 1)
      BY <3>1, <3>2, <3>3, LenProperties
    <3>5. Range(px[k]) = Range(ix[k]) \cup {n + 1}
      <4>1. ASSUME NEW p \in 1 .. (Len(ix[k]) + 1) PROVE px[k][p] \in Range(ix[k]) \cup {n + 1}
        <5>1. p \in 1 .. Len(ix[k]) \/ p = Len(ix[k]) + 1
          BY <3>4
        <5>. QED  BY <3>1, <3>3, <3>4, <5>1 DEF Range
      <4>2. ASSUME NEW p \in 1 .. Len(ix[k]) PROVE ix[k][p] \in Range(px[k])
        <5>1. p \in 1 .. (Len(ix[k]) + 1)
          BY <3>4
        <5>. QED  BY <3>1, <3>3, <3>4, <5>1 DEF Range
      <4>3. n + 1 \in Range(px[k])
        <5>1. Len(ix[k]) + 1 \in 1 .. (Len(ix[k]) + 1)
          BY <3>4
        <5>. QED  BY <3>1, <3>3, <3>4, <5>1 DEF Range
      <4>4. Range(px[k]) \subseteq Range(ix[k]) \cup {n + 1}
        BY <3>4, <4>1 DEF Range
      <4>5. Range(ix[k]) \subseteq Range(px[k])
        BY <3>4, <4>2 DEF Range
      <4>. QED  BY <4>3, <4>4, <4>5
    <3>6. n + 1 \notin Range(ix[k])
      BY <1>2, <2>1
    <3>7. Distinct(px[k])
      <4>. SUFFICES ASSUME NEW p \in 1 .. (Len(ix[k]) + 1), NEW q \in 1 .. (Len(ix[k]) + 1),
                           px[k][p] = px[k][q]
                    PROVE  p = q
        BY <3>4 DEF Distinct
      <4>1. \A p1 \in 1 .. Len(ix[k]) : ix[k][p1] # n + 1
        BY <3>4, <3>6 DEF Range
      <4>2. \A p1, q1 \in 1 .. Len(ix[k]) : ix[k][p1] = ix[k][q1] => p1 = q1
        BY <2>1, <3>4 DEF Distinct
      <4>3. p \in 1 .. Len(ix[k]) \/ p = Len(ix[k]) + 1
        BY <3>4
      <4>4. q \in 1 .. Len(ix[k]) \/ q = Len(ix[k]) + 1
        BY <3>4
      <4>. QED  BY <3>1, <3>3, <4>1, <4>2, <4>3, <4>4
    <3>8. {i \in 1 .. (n + 1) : HashOf[vs[i]] = k} = {i \in 1 .. n : HashOf[vs[i]] = k} \cup {n + 1}
      BY <1>2, <2>2 DEF h
    <3>. QED  BY <2>1, <3>5, <3>7, <3>8
  <2>3. CASE h # k
    <3>1. px[k] = ix[k]
      BY <2>3 DEF Pushed
    <3>2. {i \in 1 .. (n + 1) : HashOf[vs[i]] = k} = {i \in 1 .. n : HashOf[vs[i]] = k}
      BY <1>2, <2>3 DEF h
    <3>. QED  BY <2>1, <3>1, <3>2
  <2>. QED  BY <2>2, <2>3
<1>. QED  BY <1>3, <1>4 DEF h, Indexed

(* Taking a value out of the vector by swap_remove, its position out of its   *)
(* bucket, and the new position of the value that moved into the other.       *)
LEMMA RemovedIndexed ==
  ASSUME TypeOK, Distinct(values), Indexed(values, index, Len(values)),
         NEW i \in 1 .. Len(values)
  PROVE  LET ix == Moved(Unindexed(index, HashOf[values[i]], i), i, Len(values)) IN
         /\ ix \in [Hashes -> Seq(Nat \ {0})]
         /\ Indexed(SwapRemove(values, i), ix, Len(values) - 1)
<1>. DEFINE n == Len(values)
            hi == HashOf[values[i]]
            hn == HashOf[values[n]]
            ux == Unindexed(index, hi, i)
            ix == Moved(ux, i, n)
            t == SwapRemove(values, i)
<1>1. /\ values \in Seq(Values) /\ n \in Nat /\ DOMAIN values = 1 .. n
      /\ index \in [Hashes -> Seq(Nat \ {0})]
  BY LenProperties DEF TypeOK
<1>2. n \in 1 .. n /\ values[i] \in Values /\ values[n] \in Values
  BY <1>1, ElementOfSeq
<1>3. hi \in Hashes \cup {NoHash} /\ hn \in Hashes \cup {NoHash}
  BY SMTT(60), <1>2, SetHashAssumption
<1>4. /\ Len(t) = n - 1 /\ DOMAIN t = 1 .. (n - 1)
      /\ \A j \in 1 .. (n - 1) : t[j] = IF j = i THEN values[n] ELSE values[j]
  BY <1>1, SwapRemoveShape
<1>. HIDE DEF t, n
<1>4a. i \in 1 .. n
  BY DEF n
<1>5. ASSUME NEW h \in Hashes
      PROVE  /\ ux[h] \in Seq(Nat \ {0})
             /\ Range(ux[h]) = {j \in 1 .. n : HashOf[values[j]] = h} \ {i}
             /\ Distinct(ux[h])
  <2>1. /\ index[h] \in Seq(Nat \ {0}) /\ Distinct(index[h])
        /\ Range(index[h]) = {j \in 1 .. n : HashOf[values[j]] = h}
    BY <1>1 DEF Indexed, n
  <2>2. CASE h = hi
    <3>1. ux[h] = RemoveIndex(index[h], i)
      BY <1>1, <2>2, SetHashAssumption DEF Unindexed
    <3>2. i \in Nat
      BY <1>1
    <3>. QED  BY <2>1, <3>1, <3>2, RemoveIndexShape
  <2>3. CASE h # hi
    <3>1. ux[h] = index[h]
      BY <1>1, <2>3 DEF Unindexed
    <3>2. i \notin {j \in 1 .. n : HashOf[values[j]] = h}
      BY <2>3
    <3>. QED  BY <2>1, <3>1, <3>2
  <2>. QED  BY <2>2, <2>3
<1>6. ux \in [Hashes -> Seq(Nat \ {0})]
  <2>1. DOMAIN ux = Hashes /\ ux = [h \in Hashes |-> ux[h]]
    BY <1>1, <1>3 DEF Unindexed
  <2>. HIDE DEF ux
  <2>. QED  BY <1>5, <2>1
<1>. HIDE DEF ux
<1>7. ASSUME NEW h \in Hashes
      PROVE  /\ ix[h] \in Seq(Nat \ {0})
             /\ Range(ix[h]) = {j \in 1 .. (n - 1) : HashOf[t[j]] = h}
             /\ Distinct(ix[h])
  <2>1. CASE i = n
    <3>1. ix[h] = ux[h]
      BY <2>1 DEF Moved
    <3>2. {j \in 1 .. (n - 1) : HashOf[t[j]] = h} = {j \in 1 .. n : HashOf[values[j]] = h} \ {i}
      <4>1. ASSUME NEW j PROVE (j \in 1 .. (n - 1) /\ HashOf[t[j]] = h)
                                <=> (j \in 1 .. n /\ HashOf[values[j]] = h /\ j # i)
        BY <1>1, <1>2, <1>4, <1>4a, <2>1
      <4>. QED  BY <4>1
    <3>. QED  BY <1>5, <3>1, <3>2
  <2>2. CASE i # n /\ h # hn
    <3>1. ix[h] = ux[h]
      BY <1>6, <2>2 DEF Moved
    <3>2. {j \in 1 .. (n - 1) : HashOf[t[j]] = h} = {j \in 1 .. n : HashOf[values[j]] = h} \ {i}
      <4>1. ASSUME NEW j PROVE (j \in 1 .. (n - 1) /\ HashOf[t[j]] = h)
                                <=> (j \in 1 .. n /\ HashOf[values[j]] = h /\ j # i)
        BY <1>1, <1>2, <1>4, <1>4a, <2>2
      <4>. QED  BY <4>1
    <3>. QED  BY <1>5, <3>1, <3>2
  <2>3. CASE i # n /\ h = hn
    <3>1. ix[h] = ReplaceIndex(ux[h], n, i)
      BY <1>6, <2>3, SetHashAssumption DEF Moved
    <3>2. n \in Range(ux[h]) /\ i \notin Range(ux[h]) /\ i \in Nat \ {0}
      <4>1. Range(ux[h]) = {j \in 1 .. n : HashOf[values[j]] = h} \ {i}
        BY <1>5
      <4>2. n \in 1 .. n /\ HashOf[values[n]] = h /\ n # i
        BY <1>2, <2>3
      <4>. QED  BY <1>1, <1>4a, <4>1, <4>2
    <3>3. /\ ix[h] \in Seq(Nat \ {0}) /\ Distinct(ix[h])
          /\ Range(ix[h]) = (Range(ux[h]) \ {n}) \cup {i}
      BY <1>5, <3>1, <3>2, ReplaceIndexShape
    <3>4. {j \in 1 .. (n - 1) : HashOf[t[j]] = h}
            = (({j \in 1 .. n : HashOf[values[j]] = h} \ {i}) \ {n}) \cup {i}
      <4>1. ASSUME NEW j PROVE (j \in 1 .. (n - 1) /\ HashOf[t[j]] = h)
                                <=> (j = i \/ (j \in 1 .. n /\ HashOf[values[j]] = h /\ j # n))
        BY <1>1, <1>2, <1>4, <1>4a, <2>3
      <4>. QED  BY <4>1
    <3>. QED  BY <1>5, <3>3, <3>4
  <2>. QED  BY <2>1, <2>2, <2>3
<1>8. ix \in [Hashes -> Seq(Nat \ {0})]
  <2>1. DOMAIN ix = Hashes /\ ix = [h \in Hashes |-> ix[h]]
    BY <1>6 DEF Moved
  <2>. HIDE DEF ix
  <2>. QED  BY <1>7, <2>1
<1>9. Indexed(t, ix, n - 1)
  BY <1>7 DEF Indexed
<1>. QED  BY <1>8, <1>9 DEF t, ux, n

-----------------------------------------------------------------------------
(* Methods of the storage *)

(* Between calls both searches are exact: find_index returns the position of  *)
(* a member and 0 for any other value, contains answers for the members.      *)
LEMMA SearchExact ==
  ASSUME StorageInv, Ready, NEW v \in Values
  PROVE  /\ FindIndex(v) = 0 <=> v \notin Range(values)
         /\ FindIndex(v) # 0 => FindIndex(v) \in 1 .. Len(values) /\ values[FindIndex(v)] = v
         /\ ContainsValue(v) <=> v \in Range(values)
<1>. DEFINE C == CandidatesOf(v)
            n == Len(values)
<1>1. /\ DOMAIN values = 1 .. n /\ n \in Nat /\ values \in Seq(Values)
      /\ \A h \in Hashes : Range(index[h]) = {i \in 1 .. n : HashOf[values[i]] = h}
  BY LenProperties DEF StorageInv, TypeOK, Indexed
<1>2. HashOf[v] # NoHash => HashOf[v] \in Hashes
  BY SetHashAssumption
<1>3. C = PositionsOf(values, v)
  <2>1. CASE Bucketed(v)
    <3>1. C = {p \in Range(index[HashOf[v]]) : Holds(p, v)}
      BY <2>1 DEF CandidatesOf
    <3>2. Range(index[HashOf[v]]) = {i \in 1 .. n : HashOf[values[i]] = HashOf[v]}
      BY <1>1, <1>2, <2>1 DEF Bucketed
    <3>. QED  BY <1>1, <3>1, <3>2 DEF PositionsOf, Holds
  <2>2. CASE ~Bucketed(v)
    BY <2>2 DEF CandidatesOf
  <2>. QED  BY <2>1, <2>2
<1>4. C \subseteq 1 .. n /\ \A p \in C : values[p] = v
  BY <1>1, <1>3 DEF PositionsOf
<1>5. C = {} <=> v \notin Range(values)
  BY <1>1, <1>3 DEF PositionsOf, Range
<1>6. C # {} => FirstOf(C) \in C
  <2>. HIDE DEF C
  <2>1. C \subseteq Nat
    BY <1>1, <1>4
  <2>. QED  BY <2>1, FirstOfIsMember
<1>7. FindIndex(v) = IF C = {} THEN 0 ELSE FirstOf(C)
  BY DEF FindIndex
<1>. HIDE DEF C
<1>8. ContainsValue(v) <=> v \in Range(values)
  <2>1. CASE HashOf[v] # NoHash
    <3>1. Range(index[HashOf[v]]) = {i \in 1 .. n : HashOf[values[i]] = HashOf[v]}
      BY <1>1, <1>2, <2>1
    <3>2. ContainsValue(v) <=> \E p \in Range(index[HashOf[v]]) : Holds(p, v)
      BY <2>1 DEF ContainsValue
    <3>. QED  BY <1>1, <3>1, <3>2 DEF Holds, Range
  <2>2. CASE HashOf[v] = NoHash
    BY <2>2 DEF ContainsValue
  <2>. QED  BY <2>1, <2>2
<1>9. CASE C = {}
  BY <1>5, <1>7, <1>8, <1>9
<1>10. CASE C # {}
  <2>1. FindIndex(v) \in C
    BY <1>6, <1>7, <1>10
  <2>2. FindIndex(v) \in 1 .. n /\ values[FindIndex(v)] = v /\ FindIndex(v) # 0
    <3>1. FindIndex(v) \in 1 .. n /\ values[FindIndex(v)] = v
      BY <1>4, <2>1
    <3>2. 0 \notin 1 .. n
      BY <1>1
    <3>. QED  BY <3>1, <3>2
  <2>. QED  BY <1>5, <1>8, <1>10, <2>2
<1>. QED  BY <1>9, <1>10

(* insert appends and indexes a value that is absent, and only such a one. *)
LEMMA InsertInv ==
  ASSUME StorageInv, NEW v \in Values, Insert(v)
  PROVE  /\ StorageInv' /\ Ready'
         /\ Range(values') = Range(values) \cup {v}
<1>1. Ready /\ TypeOK /\ Distinct(values) /\ Indexed(values, index, Len(values))
  BY DEF Insert, StorageInv
<1>2. CASE FindIndex(v) # 0
  <2>1. UNCHANGED <<values, index, pc, cursor>>
    BY <1>2 DEF Insert
  <2>2. v \in Range(values)
    BY <1>1, <1>2, SearchExact
  <2>3. StorageInv' /\ Ready'
    BY <1>1, <2>1 DEF StorageInv, TypeOK, Ready, Indexed, Distinct
  <2>. QED  BY <2>1, <2>2, <2>3
<1>3. CASE FindIndex(v) = 0
  <2>. DEFINE n == Len(values)
  <2>1. /\ values' = Append(values, v) /\ index' = Pushed(index, HashOf[v], n + 1)
        /\ pc' = pc /\ cursor' = cursor
    BY <1>3 DEF Insert
  <2>2. v \notin Range(values)
    BY <1>1, <1>3, SearchExact
  <2>3. values \in Seq(Values) /\ n \in Nat /\ DOMAIN values = 1 .. n
    BY <1>1, LenProperties DEF TypeOK
  <2>4. /\ values' \in Seq(Values) /\ Len(values') = n + 1 /\ DOMAIN values' = 1 .. (n + 1)
        /\ \A i \in 1 .. n : values'[i] = values[i]
        /\ values'[n + 1] = v
    BY <2>1, <2>3, AppendProperties, LenProperties
  <2>. HIDE DEF n
  <2>5. Indexed(values', index, n)
    BY <1>1, <2>3, <2>4 DEF Indexed, n
  <2>6. index' \in [Hashes -> Seq(Nat \ {0})] /\ Indexed(values', index', n + 1)
    <3>1. n + 1 \in 1 .. Len(values') /\ index \in [Hashes -> Seq(Nat \ {0})]
      BY <1>1, <2>3, <2>4 DEF TypeOK
    <3>. QED  BY <2>1, <2>3, <2>4, <2>5, <3>1, PushedIndexed
  <2>7. \A i \in 1 .. (n + 1) : i \in 1 .. n \/ i = n + 1
    BY <2>3
  <2>8. Distinct(values')
    <3>1. \A i \in 1 .. n : values'[i] # v
      BY <2>2, <2>3, <2>4 DEF Range
    <3>2. \A i, j \in 1 .. n : values'[i] = values'[j] => i = j
      BY <1>1, <2>3, <2>4 DEF Distinct
    <3>. QED  BY <2>4, <2>7, <3>1, <3>2 DEF Distinct
  <2>9. Range(values') = Range(values) \cup {v}
    <3>1. \A i \in 1 .. (n + 1) : values'[i] \in Range(values) \cup {v}
      BY <2>3, <2>4, <2>7 DEF Range
    <3>2. \A i \in 1 .. n : values[i] \in Range(values')
      <4>1. \A i \in 1 .. n : i \in 1 .. (n + 1)
        BY <2>3
      <4>. QED  BY <2>4, <4>1 DEF Range
    <3>3. v \in Range(values')
      <4>1. n + 1 \in 1 .. (n + 1)
        BY <2>3
      <4>. QED  BY <2>4, <4>1 DEF Range
    <3>4. Range(values') \subseteq Range(values) \cup {v}
      BY <2>4, <3>1 DEF Range
    <3>5. Range(values) \subseteq Range(values')
      BY <2>3, <3>2 DEF Range
    <3>. QED  BY <3>3, <3>4, <3>5
  <2>10. StorageInv' /\ Ready'
    BY <1>1, <2>1, <2>4, <2>6, <2>8 DEF StorageInv, TypeOK, Ready
  <2>. QED  BY <2>9, <2>10
<1>. QED  BY <1>2, <1>3

(* A removal by position takes exactly that value out. *)
LEMMA RemoveItInv ==
  ASSUME StorageInv, Ready, NEW i \in 1 .. Len(values), RemoveIt(i), UNCHANGED <<pc, cursor>>
  PROVE  /\ StorageInv' /\ Ready'
         /\ Range(values') = Range(values) \ {values[i]}
<1>1. TypeOK /\ Distinct(values) /\ Indexed(values, index, Len(values)) /\ values \in Seq(Values)
  BY DEF StorageInv, TypeOK
<1>2. /\ values' = SwapRemove(values, i)
      /\ index' = Moved(Unindexed(index, HashOf[values[i]], i), i, Len(values))
  BY DEF RemoveIt
<1>3. index' \in [Hashes -> Seq(Nat \ {0})] /\ Indexed(values', index', Len(values) - 1)
  BY <1>1, <1>2, RemovedIndexed
<1>4. values' \in Seq(Values) /\ Len(values') = Len(values) - 1
  BY <1>1, <1>2, SwapRemoveShape
<1>5. Range(values') = Range(values) \ {values[i]} /\ Distinct(values')
  BY <1>1, <1>2, SwapRemoveRange
<1>6. Ready' /\ pc' \in {"ready", "retain", "rebuild"} /\ cursor' \in Nat
  BY <1>1 DEF TypeOK, Ready
<1>. QED  BY <1>3, <1>4, <1>5, <1>6 DEF StorageInv, TypeOK, Ready

(* clear drops the vector and the buckets together. *)
LEMMA ClearInv ==
  ASSUME StorageInv, Clear
  PROVE  StorageInv' /\ Ready' /\ values' = <<>> /\ Range(values') = {}
<1>1. values' = <<>> /\ index' = [h \in Hashes |-> <<>>] /\ pc' = "ready" /\ cursor' \in Nat
  BY DEF Clear, Ready, StorageInv, TypeOK
<1>2. values' \in Seq(Values) /\ Len(values') = 0 /\ DOMAIN values' = {}
  BY <1>1, EmptySeq
<1>3. index' \in [Hashes -> Seq(Nat \ {0})]
  BY <1>1, EmptySeq
<1>4. Indexed(values', index', 0)
  BY <1>1 DEF Indexed, Range, Distinct
<1>5. Range(values') = {} /\ Distinct(values')
  BY <1>2 DEF Range, Distinct
<1>. QED  BY <1>1, <1>2, <1>3, <1>4, <1>5 DEF StorageInv, TypeOK, Ready

(* Dropping one value of a vector without duplicates by Vec::remove. *)
LEMMA RemoveAtRange ==
  ASSUME NEW s \in Seq(Values), NEW i \in 1 .. Len(s), Distinct(s)
  PROVE  /\ Range(RemoveAt(s, i)) = Range(s) \ {s[i]}
         /\ Distinct(RemoveAt(s, i))
<1>. DEFINE t == RemoveAt(s, i)
            n == Len(s)
<1>1. /\ n \in Nat /\ DOMAIN s = 1 .. n /\ i \in 1 .. n
      /\ t \in Seq(Values) /\ Len(t) = n - 1
      /\ \A j \in 1 .. (n - 1) : t[j] = IF j < i THEN s[j] ELSE s[j + 1]
  BY RemoveAtProperties, LenProperties
<1>. HIDE DEF t, n
<1>2. DOMAIN t = 1 .. (n - 1)
  BY <1>1, LenProperties
<1>3. \A p, q \in 1 .. n : s[p] = s[q] => p = q
  BY <1>1 DEF Distinct
<1>4. ASSUME NEW j \in 1 .. (n - 1) PROVE t[j] \in Range(s) \ {s[i]}
  <2>1. j \in 1 .. n /\ j + 1 \in 1 .. n
    BY <1>1
  <2>2. CASE j < i
    <3>1. t[j] = s[j] /\ j # i
      BY <1>1, <2>2
    <3>. QED  BY <1>1, <1>3, <2>1, <3>1 DEF Range
  <2>3. CASE ~(j < i)
    <3>1. t[j] = s[j + 1] /\ j + 1 # i
      BY <1>1, <2>3
    <3>. QED  BY <1>1, <1>3, <2>1, <3>1 DEF Range
  <2>. QED  BY <2>2, <2>3
<1>5. ASSUME NEW j \in 1 .. n, j # i PROVE \E k \in 1 .. (n - 1) : t[k] = s[j]
  <2>1. CASE j < i
    <3>1. j \in 1 .. (n - 1)
      BY <1>1, <2>1
    <3>. QED  BY <1>1, <2>1, <3>1
  <2>2. CASE j > i
    <3>1. j - 1 \in 1 .. (n - 1) /\ ~(j - 1 < i) /\ (j - 1) + 1 = j
      BY <1>1, <2>2
    <3>2. t[j - 1] = s[j]
      BY <1>1, <3>1
    <3>. QED  BY <3>1, <3>2
  <2>3. i \in Int /\ j \in Int
    BY <1>1
  <2>4. j < i \/ j > i
    BY <1>5, <2>3
  <2>. QED  BY <2>1, <2>2, <2>4
<1>6. Range(t) = Range(s) \ {s[i]}
  <2>1. Range(t) \subseteq Range(s) \ {s[i]}
    BY <1>2, <1>4 DEF Range
  <2>2. ASSUME NEW j \in 1 .. n, s[j] # s[i] PROVE s[j] \in Range(t)
    <3>1. PICK k \in 1 .. (n - 1) : t[k] = s[j]
      BY <1>5, <2>2
    <3>. QED  BY <1>2, <3>1 DEF Range
  <2>3. Range(s) \ {s[i]} \subseteq Range(t)
    BY <1>1, <2>2 DEF Range
  <2>. QED  BY <2>1, <2>3
<1>7. Distinct(t)
  <2>. SUFFICES ASSUME NEW p \in 1 .. (n - 1), NEW q \in 1 .. (n - 1), t[p] = t[q]
                PROVE  p = q
    BY <1>2 DEF Distinct
  <2>1. p \in 1 .. n /\ q \in 1 .. n /\ p + 1 \in 1 .. n /\ q + 1 \in 1 .. n
    BY <1>1
  <2>2. t[p] = (IF p < i THEN s[p] ELSE s[p + 1]) /\ t[q] = (IF q < i THEN s[q] ELSE s[q + 1])
    BY <1>1
  <2>3. p \in Int /\ q \in Int /\ i \in Int
    BY <1>1
  <2>4. CASE p < i /\ q < i
    BY <1>3, <2>1, <2>2, <2>4
  <2>5. CASE p < i /\ ~(q < i)
    <3>1. s[p] = s[q + 1]
      BY <2>2, <2>5
    <3>2. p # q + 1
      BY <2>3, <2>5
    <3>. QED  BY <1>3, <2>1, <3>1, <3>2
  <2>6. CASE ~(p < i) /\ q < i
    <3>1. s[p + 1] = s[q]
      BY <2>2, <2>6
    <3>2. p + 1 # q
      BY <2>3, <2>6
    <3>. QED  BY <1>3, <2>1, <3>1, <3>2
  <2>7. CASE ~(p < i) /\ ~(q < i)
    <3>1. p + 1 = q + 1
      BY <1>3, <2>1, <2>2, <2>7
    <3>. QED  BY <2>3, <3>1
  <2>. QED  BY <2>4, <2>5, <2>6, <2>7
<1>. QED  BY <1>6, <1>7 DEF t

(* retain: the loop over the vector, and the rebuild of the buckets. *)
LEMMA RetainInv ==
  ASSUME StorageInv, RetainStart \/ RetainKeep \/ RetainDrop
  PROVE  /\ StorageInv'
         /\ \/ values' = values
            \/ \E v \in Range(values) : Range(values') = Range(values) \ {v}
<1>1. TypeOK /\ Distinct(values) /\ values \in Seq(Values)
  BY DEF StorageInv, TypeOK
<1>2. Len(values) \in Nat /\ DOMAIN values = 1 .. Len(values)
  BY <1>1, LenProperties
<1>3. CASE RetainStart
  BY <1>1, <1>2, <1>3 DEF RetainStart, StorageInv, TypeOK, Ready
<1>4. CASE RetainKeep
  <2>1. cursor \in 1 .. Len(values) /\ cursor' = cursor + 1 /\ pc' = "retain"
        /\ values' = values /\ index' = index
    BY <1>2, <1>4 DEF RetainKeep, StorageInv, Ready
  <2>2. cursor' \in 1 .. (Len(values') + 1) /\ cursor' \in Nat
    BY <1>2, <2>1
  <2>. QED  BY <1>1, <2>1, <2>2 DEF StorageInv, TypeOK, Ready, Distinct
<1>5. CASE RetainDrop
  <2>1. /\ cursor \in 1 .. Len(values) /\ cursor' = cursor /\ pc' = "retain"
        /\ values' = RemoveAt(values, cursor) /\ index' = index
    BY <1>2, <1>5 DEF RetainDrop, StorageInv, Ready
  <2>2. values' \in Seq(Values) /\ Len(values') = Len(values) - 1
    BY <1>1, <2>1, RemoveAtProperties
  <2>3. Range(values') = Range(values) \ {values[cursor]} /\ Distinct(values')
    BY <1>1, <2>1, RemoveAtRange
  <2>4. cursor' \in 1 .. (Len(values') + 1)
    BY <1>2, <2>1, <2>2
  <2>5. values[cursor] \in Range(values)
    BY <1>2, <2>1 DEF Range
  <2>6. StorageInv'
    BY <1>1, <2>1, <2>2, <2>3, <2>4 DEF StorageInv, TypeOK, Ready
  <2>. QED  BY <2>3, <2>5, <2>6
<1>. QED  BY <1>3, <1>4, <1>5

(* The rebuild indexes one value after the other and ends with all of them. *)
LEMMA RebuildInv ==
  ASSUME StorageInv, RebuildStart \/ RebuildValue \/ RebuildDone
  PROVE  StorageInv' /\ values' = values
<1>1. TypeOK /\ Distinct(values) /\ values \in Seq(Values)
  BY DEF StorageInv, TypeOK
<1>2. Len(values) \in Nat /\ DOMAIN values = 1 .. Len(values)
  BY <1>1, LenProperties
<1>3. CASE RebuildStart
  <2>1. /\ values' = values /\ index' = [h \in Hashes |-> <<>>]
        /\ pc' = "rebuild" /\ cursor' = 1
    BY <1>3 DEF RebuildStart
  <2>2. index' \in [Hashes -> Seq(Nat \ {0})]
    BY <2>1, EmptySeq
  <2>3. Indexed(values', index', 0)
    BY <2>1 DEF Indexed, Range, Distinct
  <2>. QED  BY <1>1, <1>2, <2>1, <2>2, <2>3 DEF StorageInv, TypeOK, Ready
<1>4. CASE RebuildValue
  <2>1. /\ values' = values /\ index' = Pushed(index, HashOf[values[cursor]], cursor)
        /\ pc = "rebuild" /\ pc' = "rebuild" /\ cursor' = cursor + 1
        /\ cursor \in 1 .. Len(values)
        /\ Indexed(values, index, cursor - 1)
    BY <1>2, <1>4 DEF RebuildValue, StorageInv, Ready
  <2>2. cursor - 1 \in Nat /\ (cursor - 1) + 1 = cursor /\ cursor' - 1 = cursor
        /\ cursor' \in 1 .. (Len(values) + 1) /\ cursor' \in Nat
    BY <1>2, <2>1
  <2>3. index \in [Hashes -> Seq(Nat \ {0})]
    BY <1>1 DEF TypeOK
  <2>. DEFINE k == cursor - 1
  <2>4. k \in Nat /\ k + 1 = cursor /\ k + 1 \in 1 .. Len(values) /\ Indexed(values, index, k)
    BY <2>1, <2>2
  <2>. HIDE DEF k
  <2>5. /\ Pushed(index, HashOf[values[k + 1]], k + 1) \in [Hashes -> Seq(Nat \ {0})]
        /\ Indexed(values, Pushed(index, HashOf[values[k + 1]], k + 1), k + 1)
    BY <1>1, <2>3, <2>4, PushedIndexed
  <2>6. index' \in [Hashes -> Seq(Nat \ {0})] /\ Indexed(values', index', cursor' - 1)
    BY <2>1, <2>2, <2>4, <2>5
  <2>. QED  BY <1>1, <2>1, <2>2, <2>6 DEF StorageInv, TypeOK, Ready, Distinct
<1>5. CASE RebuildDone
  <2>1. /\ values' = values /\ index' = index /\ pc = "rebuild" /\ pc' = "ready" /\ cursor' = 0
        /\ cursor - 1 = Len(values)
        /\ Indexed(values, index, cursor - 1)
    BY <1>2, <1>5 DEF RebuildDone, StorageInv, Ready
  <2>2. Indexed(values', index', Len(values'))
    BY <2>1
  <2>. QED  BY <1>1, <2>1, <2>2 DEF StorageInv, TypeOK, Ready, Distinct
<1>. QED  BY <1>3, <1>4, <1>5

-----------------------------------------------------------------------------
(* Calls *)

\* What a step may do to the members: nothing, one comes (in a quiet program
\* one that equals none), one goes, or all go.
MemberStep ==
  \/ values' = values
  \/ \E v \in Values : /\ Range(values') = Range(values) \cup {v}
                       /\ quiet => \A u \in Range(values) : ~Equal(u, v)
  \/ \E v \in Range(values) : Range(values') = Range(values) \ {v}
  \/ Range(values') = {}

\* A program stays quiet only if the calls still in progress compare copies
\* of the vector as it is.
StaysQuiet ==
  quiet' => /\ quiet
            /\ \/ eqCalls' = <<>>
               \/ values' = values /\ \A i \in DOMAIN eqCalls' : Unseen(eqCalls'[i])

GoodStep == StorageInv' /\ CallsInv' /\ MemberStep /\ StaysQuiet

(* Such a step keeps the inductive invariant: without equal members before,   *)
(* there are none after.                                                      *)
LEMMA GoodStepInv ==
  ASSUME SetIInv, GoodStep
  PROVE  SetIInv'
<1>1. ASSUME quiet'
      PROVE  \A u, v \in Range(values') : Equal(u, v) => u = v
  <2>1. quiet /\ \A u, v \in Range(values) : Equal(u, v) => u = v
    BY <1>1 DEF GoodStep, StaysQuiet, SetIInv, QuietInv
  <2>2. CASE values' = values
    BY <2>1, <2>2
  <2>3. ASSUME NEW w \in Values, Range(values') = Range(values) \cup {w},
               \A u \in Range(values) : ~Equal(u, w)
        PROVE  \A u, v \in Range(values') : Equal(u, v) => u = v
    BY <2>1, <2>3 DEF Equal
  <2>4. ASSUME NEW w \in Range(values), Range(values') = Range(values) \ {w}
        PROVE  \A u, v \in Range(values') : Equal(u, v) => u = v
    BY <2>1, <2>4
  <2>5. CASE Range(values') = {}
    BY <2>5
  <2>. QED  BY <2>1, <2>2, <2>3, <2>4, <2>5 DEF GoodStep, MemberStep
<1>2. ASSUME quiet'
      PROVE  \A i \in DOMAIN eqCalls' : Unseen(eqCalls[i])'
  <2>1. CASE eqCalls' = <<>>
    BY <2>1
  <2>2. CASE values' = values /\ \A i \in DOMAIN eqCalls' : Unseen(eqCalls'[i])
    BY <2>2 DEF Unseen
  <2>. QED  BY <1>2, <2>1, <2>2 DEF GoodStep, StaysQuiet
<1>3. QuietInv'
  BY <1>1, <1>2 DEF QuietInv
<1>. QED  BY <1>3 DEF GoodStep, SetIInv

(* The innermost call, and the stack below it. *)
LEMMA TopShape ==
  ASSUME CallsInv, eqCalls # <<>>
  PROVE  /\ Len(eqCalls) \in Nat \ {0} /\ DOMAIN eqCalls = 1 .. Len(eqCalls)
         /\ Innermost = eqCalls[Len(eqCalls)] /\ Innermost \in CallRecord
         /\ Innermost.at <= Len(Innermost.copy) + 1
         /\ Front(eqCalls) \in Seq(CallRecord) /\ Len(Front(eqCalls)) = Len(eqCalls) - 1
         /\ DOMAIN Front(eqCalls) = 1 .. (Len(eqCalls) - 1)
         /\ \A i \in 1 .. (Len(eqCalls) - 1) : Front(eqCalls)[i] = eqCalls[i]
<1>1. eqCalls \in Seq(CallRecord)
  BY DEF CallsInv
<1>2. /\ Len(eqCalls) \in Nat \ {0}
      /\ Front(eqCalls) \in Seq(CallRecord)
      /\ Len(Front(eqCalls)) = Len(eqCalls) - 1
      /\ \A i \in 1 .. (Len(eqCalls) - 1) : Front(eqCalls)[i] = eqCalls[i]
      /\ Innermost = eqCalls[Len(eqCalls)] /\ Innermost \in CallRecord
  BY <1>1, FrontProperties DEF Innermost
<1>3. DOMAIN eqCalls = 1 .. Len(eqCalls) /\ DOMAIN Front(eqCalls) = 1 .. (Len(eqCalls) - 1)
  BY <1>1, <1>2, LenProperties
<1>4. Len(eqCalls) \in DOMAIN eqCalls
  BY <1>2, <1>3
<1>5. Innermost.at <= Len(Innermost.copy) + 1
  BY SMTT(60), <1>2, <1>4 DEF CallsInv
<1>. QED  BY <1>2, <1>3, <1>5

(* A call that ends leaves the others as they were. *)
LEMMA PopCalls ==
  ASSUME CallsInv, eqCalls # <<>>, Pop, Ready', quiet' \in BOOLEAN
  PROVE  /\ CallsInv'
         /\ \A i \in DOMAIN eqCalls' : i \in DOMAIN eqCalls /\ eqCalls'[i] = eqCalls[i]
         /\ Len(eqCalls) = 1 => eqCalls' = <<>>
<1>1. eqCalls' = Front(eqCalls)
  BY SMTT(60) DEF Pop
<1>2. /\ Len(eqCalls) \in Nat \ {0} /\ DOMAIN eqCalls = 1 .. Len(eqCalls)
      /\ eqCalls' \in Seq(CallRecord) /\ Len(eqCalls') = Len(eqCalls) - 1
      /\ DOMAIN eqCalls' = 1 .. (Len(eqCalls) - 1)
      /\ \A i \in 1 .. (Len(eqCalls) - 1) : eqCalls'[i] = eqCalls[i]
  BY <1>1, TopShape
<1>3. \A i \in DOMAIN eqCalls' : i \in DOMAIN eqCalls /\ eqCalls'[i] = eqCalls[i]
  BY <1>2
<1>4. Len(eqCalls') <= MaxEqDepth
  BY <1>2, ValueAssumption DEF CallsInv
<1>5. Len(eqCalls) = 1 => eqCalls' = <<>>
  BY <1>2, EmptySeq
<1>6. CallsInv'
  BY <1>2, <1>3, <1>4 DEF CallsInv
<1>. QED  BY <1>3, <1>5, <1>6

(* A step that ends the innermost call and notes whether it changed the set   *)
(* under the others.                                                          *)
LEMMA PopGood ==
  ASSUME SetIInv, eqCalls # <<>>, Pop, StorageInv', Ready', MemberStep, Noted(Len(eqCalls) - 1)
  PROVE  GoodStep
<1>1. quiet' = (quiet /\ (Len(eqCalls) - 1 = 0 \/ values' = values))
  BY DEF Noted
<1>2. quiet' \in BOOLEAN
  BY <1>1
<1>3. /\ CallsInv'
      /\ \A i \in DOMAIN eqCalls' : i \in DOMAIN eqCalls /\ eqCalls'[i] = eqCalls[i]
      /\ Len(eqCalls) = 1 => eqCalls' = <<>>
  BY <1>2, PopCalls DEF SetIInv
<1>4. Len(eqCalls) \in Nat
  BY TopShape DEF SetIInv
<1>5. StaysQuiet
  <2>. SUFFICES ASSUME quiet'
                PROVE  /\ quiet
                       /\ \/ eqCalls' = <<>>
                          \/ values' = values /\ \A i \in DOMAIN eqCalls' : Unseen(eqCalls'[i])
    BY DEF StaysQuiet
  <2>1. quiet /\ (Len(eqCalls) - 1 = 0 \/ values' = values)
    BY <1>1
  <2>2. \A i \in DOMAIN eqCalls : Unseen(eqCalls[i])
    BY <2>1 DEF SetIInv, QuietInv
  <2>. QED  BY <1>3, <1>4, <2>1, <2>2
<1>. QED  BY <1>3, <1>5 DEF GoodStep

(* A step that changes the set while the calls in progress wait. *)
LEMMA ChangeGood ==
  ASSUME SetIInv, StorageInv', Ready', MemberStep, Noted(Len(eqCalls)), UNCHANGED eqCalls
  PROVE  GoodStep
<1>1. quiet' = (quiet /\ (Len(eqCalls) = 0 \/ values' = values))
  BY DEF Noted
<1>2. quiet' \in BOOLEAN
  BY <1>1
<1>3. CallsInv' /\ eqCalls \in Seq(CallRecord)
  BY <1>2 DEF SetIInv, CallsInv
<1>4. StaysQuiet
  <2>. SUFFICES ASSUME quiet'
                PROVE  /\ quiet
                       /\ \/ eqCalls' = <<>>
                          \/ values' = values /\ \A i \in DOMAIN eqCalls' : Unseen(eqCalls'[i])
    BY DEF StaysQuiet
  <2>1. quiet /\ (Len(eqCalls) = 0 \/ values' = values)
    BY <1>1
  <2>2. \A i \in DOMAIN eqCalls : Unseen(eqCalls[i])
    BY <2>1 DEF SetIInv, QuietInv
  <2>. QED  BY <1>3, <2>1, <2>2, EmptySeq
<1>. QED  BY <1>3, <1>4 DEF GoodStep

(* Steps that leave the storage alone. *)
LEMMA StorageUnchanged ==
  ASSUME StorageInv, UNCHANGED storage
  PROVE  StorageInv' /\ MemberStep /\ (Ready <=> Ready')
<1>1. UNCHANGED <<values, index, pc, cursor>>
  BY DEF storage
<1>. QED  BY <1>1 DEF StorageInv, TypeOK, Ready, Indexed, Distinct, MemberStep

(* A new call takes its copy of the vector. *)
LEMMA BeginGood ==
  ASSUME SetIInv, NEW v \in Values, NEW op \in {"add", "remove", "contains"}, Begin(op, v)
  PROVE  GoodStep
<1>. DEFINE c == Copy(op, v)
            n == Len(eqCalls)
<1>1. StorageInv' /\ MemberStep /\ Ready' /\ quiet' = quiet /\ values' = values
  BY StorageUnchanged DEF SetIInv, Begin, CanRun, storage
<1>2. /\ eqCalls \in Seq(CallRecord) /\ n \in Nat /\ DOMAIN eqCalls = 1 .. n
      /\ values \in Seq(Values) /\ Len(values) \in Nat
  BY LenProperties DEF SetIInv, CallsInv, StorageInv, TypeOK
<1>3. c \in CallRecord /\ c.at = 1 /\ c.copy = values /\ c.value = v
  BY <1>2 DEF Copy, CallRecord
<1>4. eqCalls' = Append(eqCalls, c)
  BY DEF Begin
<1>. HIDE DEF c
<1>5. /\ eqCalls' \in Seq(CallRecord) /\ Len(eqCalls') = n + 1 /\ DOMAIN eqCalls' = 1 .. (n + 1)
      /\ \A i \in 1 .. n : eqCalls'[i] = eqCalls[i]
      /\ eqCalls'[n + 1] = c
  BY <1>2, <1>3, <1>4, AppendProperties, LenProperties
<1>6. n + 1 <= MaxEqDepth
  BY <1>2, ValueAssumption, EmptySeq DEF Begin, CanRun
<1>. HIDE DEF n
<1>7. \A i \in 1 .. (n + 1) : i \in 1 .. n \/ i = n + 1
  BY <1>2
<1>8. CallsInv'
  <2>1. \A i \in DOMAIN eqCalls' : eqCalls'[i].at <= Len(eqCalls'[i].copy) + 1
    BY <1>2, <1>3, <1>5, <1>7 DEF SetIInv, CallsInv
  <2>2. Len(eqCalls') <= MaxEqDepth
    BY <1>5, <1>6
  <2>. QED  BY <1>1, <1>5, <2>1, <2>2 DEF SetIInv, CallsInv
<1>9. StaysQuiet
  <2>. SUFFICES ASSUME quiet PROVE \A i \in DOMAIN eqCalls' : Unseen(eqCalls'[i])
    BY <1>1 DEF StaysQuiet
  <2>1. \A i \in 1 .. n : Unseen(eqCalls[i])
    BY <1>2 DEF SetIInv, QuietInv
  <2>2. Unseen(c)
    BY <1>3 DEF Unseen
  <2>. QED  BY <1>5, <1>7, <2>1, <2>2
<1>. QED  BY <1>1, <1>8, <1>9 DEF GoodStep

(* clear() and pop(), by the program between two comparisons or by itself. *)
LEMMA ChangeCallsGood ==
  ASSUME SetIInv, ClearCall \/ PopMember
  PROVE  GoodStep
<1>1. StorageInv /\ Ready /\ Noted(Len(eqCalls)) /\ UNCHANGED eqCalls
  BY DEF SetIInv, ClearCall, PopMember, CanRun
<1>2. CASE ClearCall
  BY <1>1, <1>2, ClearInv, ChangeGood DEF ClearCall, MemberStep
<1>3. CASE PopMember
  <2>1. values \in Seq(Values) /\ values # <<>>
    BY <1>1, <1>3 DEF StorageInv, TypeOK, PopMember
  <2>2. Len(values) \in 1 .. Len(values) /\ DOMAIN values = 1 .. Len(values)
    BY <2>1, EmptySeq, LenProperties
  <2>3. RemoveIt(Len(values)) /\ UNCHANGED <<pc, cursor>>
    BY <1>3 DEF PopMember, RemoveAtIndex
  <2>4. StorageInv' /\ Ready' /\ Range(values') = Range(values) \ {values[Len(values)]}
    BY <1>1, <2>2, <2>3, RemoveItInv
  <2>5. values[Len(values)] \in Range(values)
    BY <2>2 DEF Range
  <2>6. MemberStep
    BY <2>4, <2>5 DEF MemberStep
  <2>. QED  BY <1>1, <2>4, <2>6, ChangeGood
<1>. QED  BY <1>2, <1>3

(* remove_value and retain, called by the host between two calls. *)
LEMMA HostCallGood ==
  ASSUME SetIInv, HostUses
  PROVE  GoodStep
<1>1. StorageInv /\ eqCalls = <<>> /\ eqCalls' = <<>> /\ quiet' = quiet
  BY DEF SetIInv, HostUses
<1>2. StorageInv' /\ MemberStep
  <2>1. ASSUME NEW v \in Values, RemoveValue(v) PROVE StorageInv' /\ MemberStep
    <3>1. CASE FindIndex(v) = 0
      BY <1>1, <2>1, <3>1, StorageUnchanged DEF RemoveValue, storage
    <3>2. CASE FindIndex(v) # 0
      <4>1. Ready /\ RemoveIt(FindIndex(v)) /\ UNCHANGED <<pc, cursor>>
        BY <2>1, <3>2 DEF RemoveValue
      <4>2. FindIndex(v) \in 1 .. Len(values) /\ values[FindIndex(v)] = v /\ v \in Range(values)
        BY <1>1, <3>2, <4>1, SearchExact
      <4>3. StorageInv' /\ Range(values') = Range(values) \ {v}
        BY <1>1, <4>1, <4>2, RemoveItInv
      <4>. QED  BY <4>2, <4>3 DEF MemberStep
    <3>. QED  BY <3>1, <3>2
  <2>2. CASE RetainStart \/ RetainKeep \/ RetainDrop
    BY <1>1, <2>2, RetainInv DEF MemberStep
  <2>3. CASE RebuildStart \/ RebuildValue \/ RebuildDone
    BY <1>1, <2>3, RebuildInv DEF MemberStep
  <2>. QED  BY <2>1, <2>2, <2>3 DEF HostUses
<1>3. CallsInv'
  BY <1>1, EmptySeq DEF SetIInv, CallsInv
<1>4. StaysQuiet
  BY <1>1 DEF StaysQuiet
<1>. QED  BY <1>2, <1>3, <1>4 DEF GoodStep

(* The comparison that answers True: a removal uses the position of the copy  *)
(* on the vector as it is by then.  In a quiet program that is the equal one. *)
LEMMA CompareHitGood ==
  ASSUME SetIInv, CompareHit
  PROVE  /\ GoodStep
         /\ quiet => \A v \in Range(values) \ Range(values') : Equal(v, Innermost.value)
<1>1. /\ StorageInv /\ eqCalls # <<>> /\ Ready
      /\ Pop /\ Noted(Len(eqCalls) - 1) /\ Innermost.at <= Len(Innermost.copy)
      /\ Equal(Innermost.copy[Innermost.at], Innermost.value)
  BY DEF SetIInv, CompareHit, Comparing, CallsInv
<1>2. values \in Seq(Values) /\ DOMAIN values = 1 .. Len(values)
  BY <1>1, LenProperties DEF StorageInv, TypeOK
<1>3. CASE UNCHANGED storage
  <2>1. values' = values
    BY <1>3 DEF storage
  <2>. QED  BY <1>1, <1>3, <2>1, StorageUnchanged, PopGood
<1>4. CASE Innermost.at \in DOMAIN values /\ RemoveAtIndex(Innermost.at)
  <2>1. Innermost.at \in 1 .. Len(values) /\ RemoveIt(Innermost.at) /\ UNCHANGED <<pc, cursor>>
    BY <1>2, <1>4 DEF RemoveAtIndex
  <2>2. StorageInv' /\ Ready' /\ Range(values') = Range(values) \ {values[Innermost.at]}
    BY <1>1, <2>1, RemoveItInv
  <2>3. values[Innermost.at] \in Range(values)
    BY <1>2, <2>1 DEF Range
  <2>4. MemberStep
    BY <2>2, <2>3 DEF MemberStep
  <2>5. GoodStep
    BY <1>1, <2>2, <2>4, PopGood
  <2>6. ASSUME quiet PROVE Equal(values[Innermost.at], Innermost.value)
    <3>1. Len(eqCalls) \in DOMAIN eqCalls /\ Innermost = eqCalls[Len(eqCalls)]
      BY <1>1, TopShape DEF SetIInv
    <3>2. Innermost.copy = values
      BY <2>6, <3>1 DEF SetIInv, QuietInv, Unseen
    <3>. QED  BY <1>1, <3>2
  <2>. QED  BY <2>2, <2>5, <2>6
<1>. QED  BY <1>3, <1>4 DEF CompareHit, RemovedAt

(* The comparison that answers False: on to the next copy. *)
LEMMA CompareMissGood ==
  ASSUME SetIInv, CompareMiss
  PROVE  GoodStep /\ Len(eqCalls') = Len(eqCalls)
<1>. DEFINE c == [Innermost EXCEPT !.at = @ + 1]
            n == Len(eqCalls)
<1>1. /\ eqCalls # <<>> /\ UNCHANGED storage /\ quiet' = quiet
      /\ Innermost.at <= Len(Innermost.copy) /\ ~Equal(Innermost.copy[Innermost.at], Innermost.value)
      /\ eqCalls' = Append(Front(eqCalls), c)
  BY SMTT(60) DEF CompareMiss, Comparing
<1>2. /\ n \in Nat \ {0} /\ DOMAIN eqCalls = 1 .. n
      /\ Innermost = eqCalls[n] /\ Innermost \in CallRecord
      /\ Front(eqCalls) \in Seq(CallRecord) /\ Len(Front(eqCalls)) = n - 1
      /\ \A i \in 1 .. (n - 1) : Front(eqCalls)[i] = eqCalls[i]
  BY <1>1, TopShape DEF SetIInv
<1>3. /\ c \in CallRecord /\ c.at = Innermost.at + 1 /\ c.copy = Innermost.copy /\ c.value = Innermost.value
      /\ Innermost.at \in Nat \ {0}
  BY <1>2 DEF CallRecord
<1>4. Len(c.copy) \in Nat /\ c.at <= Len(c.copy) + 1
  <2>1. Innermost.copy \in Seq(Values)
    BY <1>2 DEF CallRecord
  <2>2. Len(Innermost.copy) \in Nat
    BY <2>1, LenProperties
  <2>. QED  BY <1>1, <1>3, <2>2
<1>. HIDE DEF c
<1>5. /\ eqCalls' \in Seq(CallRecord) /\ Len(eqCalls') = n
      /\ \A i \in 1 .. (n - 1) : eqCalls'[i] = eqCalls[i]
      /\ eqCalls'[n] = c
  <2>. DEFINE f == Front(eqCalls)
  <2>1. /\ Append(f, c) \in Seq(CallRecord) /\ Len(Append(f, c)) = Len(f) + 1
        /\ \A i \in 1 .. Len(f) : Append(f, c)[i] = f[i]
        /\ Append(f, c)[Len(f) + 1] = c
    <3>1. f \in Seq(CallRecord) /\ c \in CallRecord
      BY <1>2, <1>3
    <3>. HIDE DEF f
    <3>. QED  BY <3>1, AppendProperties
  <2>2. (n - 1) + 1 = n
    BY <1>2
  <2>. QED  BY <1>1, <1>2, <2>1, <2>2
<1>. HIDE DEF n
<1>6. DOMAIN eqCalls' = 1 .. n
  BY <1>5, LenProperties
<1>7. \A i \in 1 .. n : i \in 1 .. (n - 1) \/ i = n
  BY <1>2
<1>8. StorageInv' /\ MemberStep /\ (Ready <=> Ready') /\ values' = values
  BY <1>1, StorageUnchanged DEF SetIInv, storage
<1>9. CallsInv'
  <2>1. \A i \in DOMAIN eqCalls' : eqCalls'[i].at <= Len(eqCalls'[i].copy) + 1
    BY <1>2, <1>4, <1>5, <1>6, <1>7 DEF SetIInv, CallsInv
  <2>2. Len(eqCalls') <= MaxEqDepth
    BY <1>5 DEF SetIInv, CallsInv, n
  <2>3. Ready
    BY <1>1 DEF SetIInv, CallsInv
  <2>. QED  BY <1>1, <1>5, <1>8, <2>1, <2>2, <2>3 DEF SetIInv, CallsInv
<1>10. StaysQuiet
  <2>. SUFFICES ASSUME quiet PROVE \A i \in DOMAIN eqCalls' : Unseen(eqCalls'[i])
    BY <1>1, <1>8 DEF StaysQuiet
  <2>1. \A i \in 1 .. n : Unseen(eqCalls[i])
    BY <1>2 DEF SetIInv, QuietInv
  <2>2. Innermost.copy = values /\ \A p \in 1 .. (Innermost.at - 1) : ~Equal(values[p], Innermost.value)
    <3>1. n \in 1 .. n
      BY <1>2
    <3>. QED  BY <1>2, <2>1, <3>1 DEF Unseen
  <2>3. ASSUME NEW p \in 1 .. (c.at - 1) PROVE ~Equal(values[p], c.value)
    <3>1. p \in 1 .. (Innermost.at - 1) \/ p = Innermost.at
      BY <1>3
    <3>. QED  BY <1>1, <1>3, <2>2, <3>1
  <2>4. Unseen(c)
    BY <1>3, <2>2, <2>3 DEF Unseen
  <2>. QED  BY <1>5, <1>6, <1>7, <2>1, <2>4
<1>. QED  BY <1>5, <1>8, <1>9, <1>10 DEF GoodStep, n

(* __eq__ raises. *)
LEMMA CompareRaisesGood ==
  ASSUME SetIInv, CompareRaises
  PROVE  GoodStep /\ values' = values
<1>1. eqCalls # <<>> /\ Pop /\ UNCHANGED storage /\ quiet' = quiet
  BY DEF CompareRaises, Comparing
<1>2. StorageInv' /\ MemberStep /\ (Ready <=> Ready') /\ values' = values
  BY <1>1, StorageUnchanged DEF SetIInv, storage
<1>3. Ready
  BY <1>1 DEF SetIInv, CallsInv
<1>4. Noted(Len(eqCalls) - 1)
  BY <1>1, <1>2 DEF Noted, SetIInv, CallsInv
<1>. QED  BY <1>1, <1>2, <1>3, <1>4, PopGood

(* No comparison answered True: add() inserts its value. *)
LEMMA NotFoundGood ==
  ASSUME SetIInv, NotFound
  PROVE  GoodStep /\ Range(values) \subseteq Range(values')
<1>1. /\ StorageInv /\ eqCalls # <<>> /\ Ready
      /\ Pop /\ Noted(Len(eqCalls) - 1) /\ Innermost.at > Len(Innermost.copy)
  BY DEF SetIInv, NotFound, Exhausted, CallsInv
<1>2. values \in Seq(Values) /\ DOMAIN values = 1 .. Len(values) /\ Len(values) \in Nat
  BY <1>1, LenProperties DEF StorageInv, TypeOK
<1>3. /\ Len(eqCalls) \in DOMAIN eqCalls /\ Innermost = eqCalls[Len(eqCalls)]
      /\ Innermost.value \in Values /\ Innermost.at \in Nat
  BY <1>1, TopShape DEF SetIInv, CallRecord
<1>4. CASE UNCHANGED storage
  <2>1. values' = values
    BY <1>4 DEF storage
  <2>. QED  BY <1>1, <1>4, <2>1, StorageUnchanged, PopGood
<1>5. CASE Insert(Innermost.value)
  <2>1. StorageInv' /\ Ready' /\ Range(values') = Range(values) \cup {Innermost.value}
    BY <1>1, <1>3, <1>5, InsertInv
  <2>2. ASSUME quiet, NEW u \in Range(values) PROVE ~Equal(u, Innermost.value)
    <3>1. Unseen(Innermost)
      BY <1>3, <2>2 DEF SetIInv, QuietInv
    <3>2. PICK p \in 1 .. Len(values) : values[p] = u
      BY <1>2 DEF Range
    <3>3. Innermost.at > Len(values)
      BY <1>1, <3>1 DEF Unseen
    <3>4. p \in 1 .. (Innermost.at - 1)
      BY <1>2, <1>3, <3>3
    <3>. QED  BY <3>1, <3>2, <3>4 DEF Unseen
  <2>3. MemberStep
    BY <1>3, <2>1, <2>2 DEF MemberStep
  <2>. QED  BY <1>1, <2>1, <2>3, PopGood
<1>. QED  BY <1>4, <1>5 DEF NotFound

(* Every step of set objects is a good one. *)
LEMMA ObjNextGood ==
  ASSUME SetIInv, ObjNext
  PROVE  GoodStep
BY BeginGood, ChangeCallsGood, HostCallGood, CompareHitGood, CompareMissGood,
   CompareRaisesGood, NotFoundGood DEF ObjNext

-----------------------------------------------------------------------------
(* Theorems *)

(* An empty set satisfies the inductive invariant. *)
LEMMA SetInitInv == ObjInit => SetIInv
<1>. SUFFICES ASSUME ObjInit PROVE SetIInv
  OBVIOUS
<1>1. /\ values = <<>> /\ index = [h \in Hashes |-> <<>>] /\ pc = "ready" /\ cursor = 0
      /\ eqCalls = <<>> /\ quiet = TRUE
  BY DEF ObjInit, Init
<1>2. values \in Seq(Values) /\ Len(values) = 0 /\ DOMAIN values = {}
  BY <1>1, EmptySeq
<1>3. index \in [Hashes -> Seq(Nat \ {0})]
  BY <1>1, EmptySeq
<1>4. Indexed(values, index, 0) /\ Distinct(values)
  BY <1>1, <1>2 DEF Indexed, Range, Distinct
<1>5. StorageInv
  BY <1>1, <1>2, <1>3, <1>4 DEF StorageInv, TypeOK, Ready
<1>6. quiet \in BOOLEAN
  BY <1>1
<1>7. CallsInv
  <2>1. eqCalls \in Seq(CallRecord) /\ Len(eqCalls) = 0 /\ DOMAIN eqCalls = {}
    BY <1>1, EmptySeq
  <2>. QED  BY <1>1, <1>6, <2>1, ValueAssumption DEF CallsInv
<1>8. QuietInv
  BY <1>1, <1>2 DEF QuietInv, Range
<1>. QED  BY <1>5, <1>7, <1>8 DEF SetIInv

(* Every step keeps it. *)
LEMMA SetNextInv == SetIInv /\ [ObjNext]_objVars => SetIInv'
<1>. SUFFICES ASSUME SetIInv, [ObjNext]_objVars PROVE SetIInv'
  OBVIOUS
<1>1. CASE ObjNext
  BY <1>1, ObjNextGood, GoodStepInv
<1>2. CASE UNCHANGED objVars
  <2>1. UNCHANGED storage /\ UNCHANGED <<eqCalls, quiet, values>> /\ UNCHANGED pc
    BY <1>2 DEF objVars, storage
  <2>2. StorageInv'
    BY <2>1, StorageUnchanged DEF SetIInv
  <2>3. CallsInv' /\ QuietInv'
    BY <2>1 DEF SetIInv, CallsInv, QuietInv, Unseen, Ready
  <2>. QED  BY <2>2, <2>3 DEF SetIInv
<1>. QED  BY <1>1, <1>2

(* The inductive invariant holds in every reachable state. *)
THEOREM SetInvariance == ObjSpec => []SetIInv
<1>. QED  BY SetInitInv, SetNextInv, PTL DEF ObjSpec

(* A set object stays consistent whatever __eq__ does to it in between: no    *)
(* value twice, buckets in step with the vector after every swap_remove and   *)
(* rebuild, both searches exact, and in a quiet program no two equal members  *)
(* (SetObject and IndexBucket in src/runtime/mod.rs).                         *)
THEOREM SetsAreConsistent == ObjSpec => []SetConsistent
<1>1. ASSUME SetIInv PROVE SetConsistent
  <2>1. TypeOK /\ Distinct(values) /\ DOMAIN values = 1 .. Len(values)
    BY <1>1, LenProperties DEF SetIInv, StorageInv, TypeOK
  <2>2. NoDuplicates
    BY <2>1 DEF NoDuplicates, Distinct
  <2>3. IndexMatchesValues
    BY <1>1, <2>1 DEF IndexMatchesValues, SetIInv, StorageInv, Indexed, Distinct
  <2>4. SearchesAgree
    <3>. SUFFICES ASSUME Ready, NEW v \in Values
                  PROVE  /\ ContainsValue(v) <=> v \in Range(values)
                         /\ FindIndex(v) # 0 <=> v \in Range(values)
      BY DEF SearchesAgree
    <3>. QED  BY <1>1, SearchExact DEF SetIInv
  <2>5. NoEqualMembers
    BY <1>1, <2>1 DEF NoEqualMembers, SetIInv, QuietInv, Distinct, Range
  <2>6. ObjTypeOK
    <3>1. ASSUME NEW i \in DOMAIN eqCalls
          PROVE  /\ eqCalls[i].op \in {"add", "remove", "contains"}
                 /\ eqCalls[i].value \in Values
                 /\ eqCalls[i].at \in 1 .. (Len(eqCalls[i].copy) + 1)
                 /\ eqCalls[i].copy \in Seq(Values)
      <4>1. eqCalls[i] \in CallRecord /\ eqCalls[i].at <= Len(eqCalls[i].copy) + 1
        BY <1>1 DEF SetIInv, CallsInv
      <4>2. /\ eqCalls[i].op \in {"add", "remove", "contains"} /\ eqCalls[i].value \in Values
            /\ eqCalls[i].at \in Nat \ {0} /\ eqCalls[i].copy \in Seq(Values)
        BY <4>1 DEF CallRecord
      <4>3. Len(eqCalls[i].copy) \in Nat
        BY <4>2, LenProperties
      <4>. QED  BY <4>1, <4>2, <4>3
    <3>. QED  BY <1>1, <2>1, <3>1 DEF ObjTypeOK, SetIInv, CallsInv
  <2>. QED  BY <2>2, <2>3, <2>4, <2>5, <2>6 DEF SetConsistent
<1>. QED  BY <1>1, SetInvariance, PTL

(* The vector and its buckets implement a finite set: no call, no swap_remove *)
(* and no retain loses or adds a member other than the one it was given.      *)
THEOREM StorageImplementsSet == ObjSpec => ImplementsSet
<1>1. ObjInit => Abstract!SetInit
  BY DEF ObjInit, Init, Abstract!SetInit, Range
<1>2. ASSUME SetIInv, [ObjNext]_objVars PROVE [Abstract!SetNext]_(Range(values))
  <2>1. CASE UNCHANGED objVars
    BY <2>1 DEF objVars, storage
  <2>2. CASE ObjNext
    <3>1. MemberStep
      BY <1>2, <2>2, ObjNextGood DEF GoodStep
    <3>2. \A v \in Range(values) : v \in Values
      <4>1. values \in Seq(Values) /\ DOMAIN values = 1 .. Len(values)
        BY <1>2, LenProperties DEF SetIInv, StorageInv, TypeOK
      <4>. QED  BY <4>1, ElementOfSeq DEF Range
    <3>. QED  BY <3>1, <3>2 DEF MemberStep, Abstract!SetNext, Abstract!Add, Abstract!Discard,
                            Abstract!SetClear
  <2>. QED  BY <1>2, <2>1, <2>2
<1>. QED  BY <1>1, <1>2, SetInvariance, PTL DEF ObjSpec, ImplementsSet, Abstract!SetSpec

(* In a quiet program remove() and discard() take away no value but one equal *)
(* to theirs, wherever swap_remove has moved it.                              *)
THEOREM CallsRemoveTheirValue == ObjSpec => RemovesItsValue
<1>. DEFINE Removes == quiet /\ Len(eqCalls') < Len(eqCalls) =>
                         \A v \in Range(values) \ Range(values') : Equal(v, Innermost.value)
<1>1. ASSUME SetIInv, [ObjNext]_objVars PROVE [Removes]_objVars
  <2>1. eqCalls \in Seq(CallRecord) /\ Len(eqCalls) \in Nat
    BY <1>1, LenProperties DEF SetIInv, CallsInv
  <2>2. CASE Len(eqCalls') = Len(eqCalls)
    BY <2>1, <2>2
  <2>3. ASSUME NEW v \in Values, NEW op \in {"add", "remove", "contains"}, Begin(op, v)
        PROVE  Removes
    <3>1. eqCalls' = Append(eqCalls, Copy(op, v)) /\ values' = values
      BY <2>3 DEF Begin, storage
    <3>. QED  BY <3>1
  <2>4. CASE ClearCall \/ PopMember \/ HostUses
    BY <2>2, <2>4 DEF ClearCall, PopMember, HostUses
  <2>5. CASE CompareHit
    BY <1>1, <2>5, CompareHitGood
  <2>6. CASE CompareMiss
    BY <1>1, <2>2, <2>6, CompareMissGood
  <2>7. CASE CompareRaises
    BY <1>1, <2>7, CompareRaisesGood
  <2>8. CASE NotFound
    BY <1>1, <2>8, NotFoundGood
  <2>. QED  BY <1>1, <2>3, <2>4, <2>5, <2>6, <2>7, <2>8 DEF ObjNext
<1>. QED  BY <1>1, SetInvariance, PTL DEF ObjSpec, RemovesItsValue

(* In a quiet program copies and positions implement a set of classes of      *)
(* equal values.                                                              *)
THEOREM CallsImplementClasses == ObjSpec => ImplementsClasses
<1>. DEFINE classes == {Class[v] : v \in Range(values)}
<1>1. ASSUME SetIInv, [ObjNext]_objVars PROVE [quiet' => Classes!SetNext]_classes
  <2>1. CASE UNCHANGED objVars
    BY <2>1 DEF objVars, storage
  <2>2. CASE ObjNext /\ quiet'
    <3>1. MemberStep /\ quiet
      BY <1>1, <2>2, ObjNextGood DEF GoodStep, StaysQuiet
    <3>2. \A u, v \in Range(values) : Class[u] = Class[v] => u = v
      BY <1>1, <3>1 DEF SetIInv, QuietInv, Equal
    <3>3. \A v \in Values : Class[v] \in Range(Class)
      BY ValueAssumption DEF Range
    <3>4. Range(values) \subseteq Values
      <4>1. values \in Seq(Values) /\ DOMAIN values = 1 .. Len(values)
        BY <1>1, LenProperties DEF SetIInv, StorageInv, TypeOK
      <4>. QED  BY <4>1, ElementOfSeq DEF Range
    <3>5. CASE values' = values
      BY <3>5
    <3>6. ASSUME NEW w \in Values, Range(values') = Range(values) \cup {w}
          PROVE  Classes!SetNext
      <4>1. classes' = classes \cup {Class[w]}
        BY <3>6
      <4>. QED  BY <3>3, <4>1 DEF Classes!SetNext, Classes!Add
    <3>7. ASSUME NEW w \in Range(values), Range(values') = Range(values) \ {w}
          PROVE  Classes!SetNext
      <4>1. classes' = classes \ {Class[w]}
        BY <3>2, <3>7
      <4>2. Class[w] \in Range(Class)
        BY <3>3, <3>4
      <4>. QED  BY <4>1, <4>2 DEF Classes!SetNext, Classes!Discard
    <3>8. CASE Range(values') = {}
      BY <3>8 DEF Classes!SetNext, Classes!SetClear
    <3>. QED  BY <3>1, <3>5, <3>6, <3>7, <3>8 DEF MemberStep
  <2>. QED  BY <1>1, <2>1, <2>2
<1>. QED  BY <1>1, SetInvariance, PTL DEF ObjSpec, ImplementsClasses
=============================================================================
