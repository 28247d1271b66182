-------------------------- MODULE GeneratorsProofs --------------------------
(***************************************************************************)
(* Proofs about generators, for any number of them, any nesting of resumes *)
(* and delegation and any exceptions, below the recursion limit: each      *)
(* generator has one frame, and nested resumes agree with the stack.       *)
(***************************************************************************)
EXTENDS Generators, Integers, SequencesExt, FiniteSetTheorems, SequenceTheorems,
        WellFoundedInduction, TLAPS

-----------------------------------------------------------------------------
(* Sequences and numbers *)

(* A non-empty set of naturals has a least element, and Min returns it. *)
LEMMA MinOfNats ==
  ASSUME NEW S, S \subseteq Nat, S # {}
  PROVE  Min(S) \in S /\ \A y \in S : Min(S) <= y
<1>1. PICK x \in S : \A y \in S : ~ (<<y, x>> \in OpToRel(<, Nat))
  BY NatLessThanWellFounded, WFMin
<1>2. ASSUME NEW y \in S PROVE x <= y
  <2>1. x \in Nat /\ y \in Nat
    OBVIOUS
  <2>2. ~(y < x)
    BY <1>1, <2>1 DEF OpToRel
  <2>. QED  BY <2>1, <2>2
<1>. QED  BY <1>2 DEF Min

(* Max returns it.                                                          *)
LEMMA MaxOfPositions ==
  ASSUME NEW n \in Nat, NEW S, S \subseteq 1 .. n, S # {}
  PROVE  Max(S) \in S /\ \A y \in S : y <= Max(S)
<1>. DEFINE T == {n - x : x \in S}
<1>1. T \subseteq Nat /\ T # {}
  OBVIOUS
<1>2. Min(T) \in T /\ \A y \in T : Min(T) <= y
  BY <1>1, MinOfNats
<1>3. PICK x \in S : Min(T) = n - x
  BY <1>2
<1>4. ASSUME NEW y \in S PROVE y <= x
  <2>1. n - y \in T
    OBVIOUS
  <2>2. n - x <= n - y
    BY <2>1, <1>2, <1>3
  <2>3. x \in Int /\ y \in Int
    OBVIOUS
  <2>. QED  BY <2>2, <2>3
<1>. QED  BY <1>4 DEF Max

(* What truncating a stack to its first n elements leaves. *)
LEMMA PrefixProperties ==
  ASSUME NEW S, NEW s \in Seq(S), NEW n \in 0 .. Len(s)
  PROVE  /\ SubSeq(s, 1, n) \in Seq(S)
         /\ Len(SubSeq(s, 1, n)) = n
         /\ \A i \in 1 .. n : SubSeq(s, 1, n)[i] = s[i]
<1>1. n \in Int /\ \A i \in 1 .. n : s[i] \in S
  OBVIOUS
<1>2. /\ SubSeq(s, 1, n) \in Seq(S)
      /\ Len(SubSeq(s, 1, n)) = IF 1 <= n THEN n - 1 + 1 ELSE 0
      /\ \A i \in 1 .. n - 1 + 1 : SubSeq(s, 1, n)[i] = s[1 + i - 1]
  BY <1>1, SubSeqProperties
<1>3. n - 1 + 1 = n /\ \A i \in 1 .. n : 1 + i - 1 = i
  BY <1>1
<1>. QED  BY <1>2, <1>3

(* What popping the top of a stack leaves. *)
LEMMA FrontProperties ==
  ASSUME NEW S, NEW s \in Seq(S), s # <<>>
  PROVE  /\ Len(s) \in Nat \ {0}
         /\ Front(s) \in Seq(S)
         /\ Len(Front(s)) = Len(s) - 1
         /\ \A i \in 1 .. (Len(s) - 1) : Front(s)[i] = s[i]
         /\ Last(s) = s[Len(s)]
         /\ Last(s) \in S
<1>1. Len(s) \in Nat \ {0}
  BY EmptySeq
<1>2. Len(s) - 1 \in 0 .. Len(s)
  BY <1>1
<1>3. /\ Front(s) \in Seq(S)
      /\ Len(Front(s)) = Len(s) - 1
      /\ \A i \in 1 .. (Len(s) - 1) : Front(s)[i] = s[i]
  BY <1>2, PrefixProperties DEF Front
<1>4. Last(s) = s[Len(s)] /\ Last(s) \in S
  BY <1>1 DEF Last
<1>. QED  BY <1>1, <1>3, <1>4

-----------------------------------------------------------------------------
(* The inductive invariant *)

Registers ==
  [target : Gens \cup {Nobody}, boundary : Nat,
   outcome : {"none", "yield", "complete", "propagated"}, pending : Exceptions \cup {NoExc}]

Call ==
  [gen : Gens, how : Methods \cup {"close", "delegate"}, kind : {"unset", "next", "throw", "close"},
   thrown : Exceptions \cup {NoExc}, saved : Registers]

TypesInv == TypeOK /\ calls \in Seq(Call)

\* The registers as the i-th of the calls cs left them, r being the current
\* ones, and their boundary.
Reg(cs, r, i) == IF i = Len(cs) THEN r ELSE cs[i + 1].saved
Bound(cs, r, i) == Reg(cs, r, i).boundary

\* Every call waits for its own generator, has no outcome while another is
\* inside it, and starts higher on the stack than the ones around it.
RegsInv(cs, r) ==
  /\ Reg(cs, r, 0).target = Nobody /\ Bound(cs, r, 0) = 0
  /\ Len(cs) > 0 => Bound(cs, r, 1) = 1
  /\ \A i \in 1 .. Len(cs) :
       Reg(cs, r, i).target = cs[i].gen /\ Reg(cs, r, i - 1).outcome = "none"
  /\ \A i, j \in 0 .. Len(cs) : i < j => Bound(cs, r, i) < Bound(cs, r, j)

\* Only a frame that stands at a YIELD_FROM has a delegate.
DelegateOK(f) == f.at # "yieldfrom" => f.delegate = Nobody

\* Main is at the bottom, and no owner has two frames.
OwnersInv(fs) ==
  /\ \A p \in 1 .. Len(fs) : (fs[p].owner = Main <=> p = 1) /\ DelegateOK(fs[p])
  /\ \A p, q \in 1 .. Len(fs) : fs[p].owner = fs[q].owner => p = q

\* The generator of call i is right above the call's boundary or not on the
\* stack, and the frame at the boundary delegates to nobody.
CallOK(fs, c, b) ==
  /\ b <= Len(fs) /\ fs[b].delegate = Nobody
  /\ b < Len(fs) => fs[b + 1].owner = c.gen
  /\ b = Len(fs) => \A p \in 1 .. Len(fs) : fs[p].owner # c.gen
  /\ c.how = "delegate" => b >= 2

\* A frame that is not on top made a call or delegates to the one above it.
LinkOK(fs, cs, r, p) ==
  (\E i \in 1 .. Len(cs) : Bound(cs, r, i) = p) \/ fs[p].delegate = fs[p + 1].owner

ShapeInv(fs, cs, r) ==
  /\ OwnersInv(fs)
  /\ Len(cs) = 0 => Len(fs) <= 1
  /\ \A i \in 1 .. Len(cs) : CallOK(fs, cs[i], Bound(cs, r, i))
  /\ \A p \in 1 .. (Len(fs) - 1) : LinkOK(fs, cs, r, p)

Owns(fs, g) == \E p \in 1 .. Len(fs) : fs[p].owner = g

\* A generator is running while it is on the stack, and can be resumed
\* otherwise, unless it is closed.
GensInv(fs, su, ge) ==
  /\ \A g \in Gens : Owns(fs, g) <=> ge[g].running
  /\ \A g \in DOMAIN su : su[g].owner = g /\ ~ge[g].running /\ DelegateOK(su[g])
  /\ \A g \in Gens : ~ge[g].running /\ ~ge[g].closed => g \in DOMAIN su

\* The innermost call has an outcome only when its generator is off the stack;
\* a value on its way is for the delegating frame on top or for that call.
OutcomeInv(fs, cs, r, e, rt, y) ==
  /\ r.outcome # "none" => cs # <<>> /\ Len(fs) = r.boundary
  /\ r.outcome \in {"yield", "complete"} => e = NoExc /\ ~rt /\ y = Nobody
  /\ y # Nobody => /\ e = NoExc /\ ~rt /\ r.outcome = "none" /\ cs # <<>>
                   /\ Len(fs) > r.boundary => fs[Len(fs)].delegate = y
                   /\ Len(fs) = r.boundary => r.target = y

\* A call of delegate_yield_from can expect its frame to stand at the
\* instruction until an exception comes out of the delegate.
Expected(fs, cs, r, y, i) ==
  \/ i < Len(cs) \/ r.boundary < Len(fs)
  \/ y # Nobody \/ r.outcome \in {"yield", "complete"}

DelegatesInv(fs, cs, r, y) ==
  \A i \in 1 .. Len(cs) :
    cs[i].how = "delegate" /\ Expected(fs, cs, r, y, i) => fs[Bound(cs, r, i)].at = "yieldfrom"

IInv ==
  /\ TypesInv
  /\ RegsInv(calls, reg)
  /\ ShapeInv(frames, calls, reg)
  /\ GensInv(frames, suspended, gen)
  /\ OutcomeInv(frames, calls, reg, exc, rethrow, yielding)
  /\ DelegatesInv(frames, calls, reg, yielding)

-----------------------------------------------------------------------------
(* Frames and maps of frames *)

(* Taking a generator's frame out of generator_states. *)
LEMMA WithoutFacts ==
  ASSUME NEW g, TypesInv
  PROVE  /\ DOMAIN Without(g) = DOMAIN suspended \ {g}
         /\ \A x \in DOMAIN suspended \ {g} : Without(g)[x] = suspended[x]
BY DEF Without, Restrict

(* Putting a frame there. *)
LEMMA WithFacts ==
  ASSUME NEW f, TypesInv
  PROVE  /\ DOMAIN With(f) = DOMAIN suspended \cup {f.owner}
         /\ With(f)[f.owner] = f
         /\ \A x \in DOMAIN suspended \ {f.owner} : With(f)[x] = suspended[x]
BY DEF With

-----------------------------------------------------------------------------
(* The generators *)

GenTypes(su, ge) ==
  /\ DOMAIN su \subseteq Gens /\ \A g \in DOMAIN su : su[g] \in Frame
  /\ ge \in [Gens -> [started : BOOLEAN, running : BOOLEAN, closed : BOOLEAN]]

(* The same generators are on the stack. *)
LEMMA GensStay ==
  ASSUME NEW fs, NEW ft, GensInv(fs, suspended, gen), \A g : Owns(ft, g) <=> Owns(fs, g)
  PROVE  GensInv(ft, suspended, gen)
BY DEF GensInv

(* The frame of the main module is dropped. *)
LEMMA GensWithoutMain ==
  ASSUME NEW fs, NEW ft, GensInv(fs, suspended, gen),
         \A g : Owns(ft, g) <=> Owns(fs, g) /\ g # Main
  PROVE  GensInv(ft, suspended, gen)
BY OwnersDistinct DEF GensInv

(* A generator's frame is dropped and the generator closed. *)
LEMMA GensDropped ==
  ASSUME NEW fs, NEW ft, NEW o \in Gens, TypesInv, GensInv(fs, suspended, gen),
         \A g : Owns(ft, g) <=> Owns(fs, g) /\ g # o
  PROVE  GensInv(ft, Without(o), Closed(o)) /\ GenTypes(Without(o), Closed(o))
<1>1. gen \in [Gens -> [started : BOOLEAN, running : BOOLEAN, closed : BOOLEAN]]
  BY DEF TypesInv, TypeOK
<1>2. /\ DOMAIN Without(o) = DOMAIN suspended \ {o}
      /\ \A x \in DOMAIN suspended \ {o} : Without(o)[x] = suspended[x]
  BY WithoutFacts
<1>3. /\ Closed(o) \in [Gens -> [started : BOOLEAN, running : BOOLEAN, closed : BOOLEAN]]
      /\ Closed(o)[o].closed /\ ~Closed(o)[o].running
      /\ \A g \in Gens : g # o => Closed(o)[g] = gen[g]
  BY <1>1 DEF Closed
<1>4. DOMAIN suspended \subseteq Gens /\ \A g \in DOMAIN suspended : suspended[g] \in Frame
  BY DEF TypesInv, TypeOK
<1>5. GenTypes(Without(o), Closed(o))
  BY <1>2, <1>3, <1>4 DEF GenTypes
<1>6. GensInv(ft, Without(o), Closed(o))
  BY <1>2, <1>3, <1>4 DEF GensInv
<1>. QED  BY <1>5, <1>6

(* A generator's frame is put aside. *)
LEMMA GensSuspended ==
  ASSUME NEW fs, NEW ft, NEW f \in Frame, f.owner \in Gens, DelegateOK(f),
         TypesInv, GensInv(fs, suspended, gen),
         \A g : Owns(ft, g) <=> Owns(fs, g) /\ g # f.owner
  PROVE  GensInv(ft, With(f), Idle(f.owner)) /\ GenTypes(With(f), Idle(f.owner))
<1>1. gen \in [Gens -> [started : BOOLEAN, running : BOOLEAN, closed : BOOLEAN]]
  BY DEF TypesInv, TypeOK
<1>2. PICK o \in Gens : o = f.owner
  OBVIOUS
<1>3. /\ DOMAIN With(f) = DOMAIN suspended \cup {o}
      /\ With(f)[o] = f
      /\ \A x \in DOMAIN suspended \ {o} : With(f)[x] = suspended[x]
  BY <1>2, WithFacts
<1>4. /\ Idle(o) \in [Gens -> [started : BOOLEAN, running : BOOLEAN, closed : BOOLEAN]]
      /\ ~Idle(o)[o].running
      /\ \A g \in Gens : g # o => Idle(o)[g] = gen[g]
  BY <1>1 DEF Idle
<1>5. DOMAIN suspended \subseteq Gens /\ \A g \in DOMAIN suspended : suspended[g] \in Frame
  BY DEF TypesInv, TypeOK
<1>6. GenTypes(With(f), Idle(o))
  BY <1>3, <1>4, <1>5 DEF GenTypes
<1>7. GensInv(ft, With(f), Idle(o))
  <2>1. \A g \in Gens : Owns(ft, g) <=> Idle(o)[g].running
    BY <1>2, <1>4 DEF GensInv
  <2>2. ASSUME NEW g \in DOMAIN With(f)
        PROVE  With(f)[g].owner = g /\ ~Idle(o)[g].running /\ DelegateOK(With(f)[g])
    <3>1. CASE g = o
      BY <1>2, <1>3, <1>4, <3>1
    <3>2. CASE g # o
      <4>1. g \in DOMAIN suspended \ {o} /\ g \in Gens
        BY <1>3, <1>5, <3>2
      <4>. QED  BY <1>3, <1>4, <4>1 DEF GensInv
    <3>. QED  BY <3>1, <3>2
  <2>3. \A g \in Gens : ~Idle(o)[g].running /\ ~Idle(o)[g].closed => g \in DOMAIN With(f)
    BY <1>3, <1>4 DEF GensInv
  <2>. QED  BY <2>1, <2>2, <2>3 DEF GensInv
<1>. QED  BY <1>2, <1>6, <1>7

(* A generator's frame is put on the stack. *)
LEMMA GensStarted ==
  ASSUME NEW fs, NEW ft, NEW o \in Gens, TypesInv, GensInv(fs, suspended, gen),
         \A g : Owns(ft, g) <=> Owns(fs, g) \/ g = o
  PROVE  GensInv(ft, Without(o), Started(o)) /\ GenTypes(Without(o), Started(o))
<1>1. gen \in [Gens -> [started : BOOLEAN, running : BOOLEAN, closed : BOOLEAN]]
  BY DEF TypesInv, TypeOK
<1>2. /\ DOMAIN Without(o) = DOMAIN suspended \ {o}
      /\ \A x \in DOMAIN suspended \ {o} : Without(o)[x] = suspended[x]
  BY WithoutFacts
<1>3. /\ Started(o) \in [Gens -> [started : BOOLEAN, running : BOOLEAN, closed : BOOLEAN]]
      /\ Started(o)[o].running
      /\ \A g \in Gens : g # o => Started(o)[g] = gen[g]
  BY <1>1 DEF Started
<1>4. DOMAIN suspended \subseteq Gens /\ \A g \in DOMAIN suspended : suspended[g] \in Frame
  BY DEF TypesInv, TypeOK
<1>5. GenTypes(Without(o), Started(o))
  BY <1>2, <1>3, <1>4 DEF GenTypes
<1>6. GensInv(ft, Without(o), Started(o))
  BY <1>2, <1>3, <1>4 DEF GensInv
<1>. QED  BY <1>5, <1>6

(* close() marks a generator that is off the stack. *)
LEMMA GensMarked ==
  ASSUME NEW fs, NEW o \in Gens, TypesInv, GensInv(fs, suspended, gen), ~Owns(fs, o)
  PROVE  GensInv(fs, suspended, MarkedClosed(o)) /\ GenTypes(suspended, MarkedClosed(o))
<1>1. gen \in [Gens -> [started : BOOLEAN, running : BOOLEAN, closed : BOOLEAN]]
  BY DEF TypesInv, TypeOK
<1>2. PICK ge : ge = MarkedClosed(o)
  OBVIOUS
<1>3. /\ ge \in [Gens -> [started : BOOLEAN, running : BOOLEAN, closed : BOOLEAN]]
      /\ ge[o].closed /\ ~ge[o].running
      /\ \A g \in Gens : g # o => ge[g] = gen[g]
  BY <1>1, <1>2 DEF MarkedClosed
<1>4. DOMAIN suspended \subseteq Gens /\ \A g \in DOMAIN suspended : suspended[g] \in Frame
  BY DEF TypesInv, TypeOK
<1>5. GenTypes(suspended, ge)
  BY <1>3, <1>4 DEF GenTypes
<1>6. GensInv(fs, suspended, ge)
  BY <1>3, <1>4 DEF GensInv
<1>. QED  BY <1>2, <1>5, <1>6

-----------------------------------------------------------------------------
(* Calls and their registers *)

(* The registers of every call are typed, and the boundaries lie between 1 *)
(* and the current one.                                                    *)
LEMMA RegsFacts ==
  ASSUME NEW cs \in Seq(Call), NEW r \in Registers, RegsInv(cs, r)
  PROVE  /\ Len(cs) \in Nat /\ Reg(cs, r, Len(cs)) = r /\ Bound(cs, r, Len(cs)) = r.boundary
         /\ r.boundary \in Nat
         /\ Len(cs) = 0 => r.target = Nobody /\ r.boundary = 0
         /\ Len(cs) > 0 => r.target = cs[Len(cs)].gen /\ r.boundary >= 1
         /\ \A i \in 0 .. Len(cs) : Reg(cs, r, i) \in Registers /\ Bound(cs, r, i) \in Nat
         /\ \A i \in 1 .. Len(cs) : Bound(cs, r, i) >= 1 /\ Bound(cs, r, i) <= r.boundary
         /\ \A i \in 1 .. Len(cs) : i # Len(cs) => Bound(cs, r, i) < r.boundary
<1>1. PICK n \in Nat : n = Len(cs)
  OBVIOUS
<1>2. Reg(cs, r, n) = r /\ Bound(cs, r, n) = r.boundary
  BY <1>1 DEF Reg, Bound
<1>3. ASSUME NEW i \in 0 .. n PROVE Reg(cs, r, i) \in Registers
  <2>1. CASE i = n
    BY <1>2, <2>1
  <2>2. CASE i # n
    <3>1. i + 1 \in 1 .. Len(cs) /\ i # Len(cs)
      BY <1>1, <2>2
    <3>2. cs[i + 1] \in Call
      BY <3>1
    <3>3. cs[i + 1].saved \in Registers
      BY <3>2 DEF Call
    <3>. QED  BY <3>1, <3>3 DEF Reg
  <2>. QED  BY <2>1, <2>2
<1>4. \A i \in 0 .. n : Bound(cs, r, i) \in Nat
  BY <1>3 DEF Bound, Registers
<1>5. r.boundary \in Nat
  BY DEF Registers
<1>6. \A i, j \in 0 .. n : i < j => Bound(cs, r, i) < Bound(cs, r, j)
  BY <1>1 DEF RegsInv
<1>7. Bound(cs, r, 0) = 0 /\ Reg(cs, r, 0).target = Nobody
  BY DEF RegsInv
<1>8. ASSUME NEW i \in 1 .. n
      PROVE  /\ Bound(cs, r, i) >= 1 /\ Bound(cs, r, i) <= r.boundary
             /\ i # n => Bound(cs, r, i) < r.boundary
  <2>1. i \in 0 .. n /\ 0 \in 0 .. n /\ n \in 0 .. n /\ 0 < i
    OBVIOUS
  <2>2. Bound(cs, r, 0) < Bound(cs, r, i)
    BY <1>6, <2>1
  <2>3. i # n => Bound(cs, r, i) < Bound(cs, r, n)
    BY <1>6, <2>1
  <2>. QED  BY <1>2, <1>4, <1>7, <2>1, <2>2, <2>3
<1>9. n = 0 => r.target = Nobody /\ r.boundary = 0
  BY <1>2, <1>7
<1>10. n > 0 => r.target = cs[n].gen /\ r.boundary >= 1
  <2>1. n > 0 => n \in 1 .. n
    OBVIOUS
  <2>2. n > 0 => Reg(cs, r, n).target = cs[n].gen
    BY <1>1, <2>1 DEF RegsInv
  <2>3. n > 0 => Bound(cs, r, n) >= 1
    BY <1>8, <2>1
  <2>. QED  BY <1>2, <2>2, <2>3
<1>. QED  BY <1>1, <1>2, <1>3, <1>4, <1>5, <1>8, <1>9, <1>10

(* The outcome and the pending exception do not bear on the nesting. *)
LEMMA RegsKept ==
  ASSUME NEW fs, NEW cs \in Seq(Call), NEW r \in Registers, NEW r2 \in Registers,
         r2.target = r.target, r2.boundary = r.boundary
  PROVE  /\ \A i \in 0 .. Len(cs) : Bound(cs, r2, i) = Bound(cs, r, i)
         /\ RegsInv(cs, r) => RegsInv(cs, r2)
         /\ ShapeInv(fs, cs, r) => ShapeInv(fs, cs, r2)
<1>1. PICK n \in Nat : n = Len(cs)
  OBVIOUS
<1>2. /\ \A i \in 0 .. n : Bound(cs, r2, i) = Bound(cs, r, i) /\ Reg(cs, r2, i).target = Reg(cs, r, i).target
      /\ \A i \in 1 .. n : Reg(cs, r2, i - 1) = Reg(cs, r, i - 1)
  BY <1>1 DEF Bound, Reg
<1>3. /\ 0 \in 0 .. n /\ (n > 0 => 1 \in 0 .. n)
      /\ \A i \in 1 .. n : i \in 0 .. n
  OBVIOUS
<1>4. RegsInv(cs, r) => RegsInv(cs, r2)
  BY <1>1, <1>2, <1>3 DEF RegsInv
<1>5. \A p : LinkOK(fs, cs, r, p) => LinkOK(fs, cs, r2, p)
  BY <1>1, <1>2, <1>3 DEF LinkOK
<1>6. ShapeInv(fs, cs, r) => ShapeInv(fs, cs, r2)
  BY <1>1, <1>2, <1>3, <1>5 DEF ShapeInv
<1>. QED  BY <1>1, <1>2, <1>4, <1>6

-----------------------------------------------------------------------------
(* What can happen to the stack *)

(* Frames keep their owners, and the ones below the top their delegates; the *)
(* top frame may give up its delegate, and take one if it made no call.      *)
LEMMA StackChanged ==
  ASSUME NEW cs \in Seq(Call), NEW r \in Registers, RegsInv(cs, r),
         NEW fs, NEW ft, Len(fs) \in Nat, Len(ft) = Len(fs), ShapeInv(fs, cs, r),
         \A p \in 1 .. Len(fs) : /\ ft[p].owner = fs[p].owner /\ DelegateOK(ft[p])
                                 /\ p # Len(fs) => ft[p].delegate = fs[p].delegate,
         ft[Len(fs)].delegate \in {Nobody, fs[Len(fs)].delegate} \/ r.boundary < Len(fs)
  PROVE  ShapeInv(ft, cs, r) /\ \A g : Owns(ft, g) <=> Owns(fs, g)
<1>1. PICK n \in Nat : n = Len(cs)
  OBVIOUS
<1>2. PICK L \in Nat : L = Len(fs)
  OBVIOUS
<1>3. /\ \A i \in 1 .. n : Bound(cs, r, i) \in Nat /\ Bound(cs, r, i) >= 1 /\ Bound(cs, r, i) <= r.boundary
      /\ r.boundary \in Nat
  <2>1. \A i \in 1 .. n : i \in 0 .. n
    OBVIOUS
  <2>. QED  BY <1>1, <2>1, RegsFacts
<1>4. OwnersInv(fs)
  BY DEF ShapeInv
<1>5. OwnersInv(ft)
  BY <1>2, <1>4 DEF OwnersInv
<1>6. \A g : Owns(ft, g) <=> Owns(fs, g)
  BY <1>2 DEF Owns
<1>7. ASSUME NEW i \in 1 .. n PROVE CallOK(ft, cs[i], Bound(cs, r, i))
  <2>1. CallOK(fs, cs[i], Bound(cs, r, i))
    BY <1>1 DEF ShapeInv
  <2>2. PICK b \in Nat : b = Bound(cs, r, i) /\ b >= 1 /\ b <= r.boundary
    BY <1>3
  <2>3. b <= L /\ fs[b].delegate = Nobody
    BY <1>2, <2>1, <2>2 DEF CallOK
  <2>4. ft[b].delegate = Nobody
    <3>1. CASE b # L
      <4>1. b \in 1 .. L
        BY <2>2, <2>3
      <4>. QED  BY <1>2, <2>3, <3>1, <4>1
    <3>2. CASE b = L
      <4>1. ~(r.boundary < L)
        BY <1>3, <2>2, <3>2
      <4>. QED  BY <1>2, <2>3, <3>2, <4>1
    <3>. QED  BY <3>1, <3>2
  <2>5. b < L => b + 1 \in 1 .. L
    BY <2>2
  <2>6. b < L => ft[b + 1].owner = cs[i].gen
    BY <1>2, <2>1, <2>2, <2>5 DEF CallOK
  <2>7. b = L => \A p \in 1 .. L : ft[p].owner # cs[i].gen
    BY <1>2, <2>1, <2>2 DEF CallOK
  <2>. QED  BY <1>2, <2>1, <2>2, <2>3, <2>4, <2>6, <2>7 DEF CallOK
<1>8. ASSUME NEW p \in 1 .. (L - 1) PROVE LinkOK(ft, cs, r, p)
  <2>1. LinkOK(fs, cs, r, p)
    BY <1>2 DEF ShapeInv
  <2>2. p \in 1 .. L /\ p + 1 \in 1 .. L /\ p # L
    OBVIOUS
  <2>3. ft[p].delegate = fs[p].delegate /\ ft[p + 1].owner = fs[p + 1].owner
    BY <1>2, <2>2
  <2>. QED  BY <2>1, <2>3 DEF LinkOK
<1>. QED  BY <1>1, <1>2, <1>5, <1>6, <1>7, <1>8 DEF ShapeInv

\* The first k frames of two stacks agree in what matters here.
Agree(fs, ft, k) ==
  \A p \in 1 .. k : /\ ft[p].owner = fs[p].owner /\ ft[p].at = fs[p].at
                    /\ ft[p].delegate = fs[p].delegate

(* The top frame, which is above the innermost boundary, is taken off: if it *)
(* was right above, it was the frame of the generator being resumed.         *)
LEMMA StackPopped ==
  ASSUME NEW cs \in Seq(Call), NEW r \in Registers, RegsInv(cs, r),
         NEW fs, NEW ft, NEW L \in Nat, Len(fs) = L, L >= 1, Len(ft) = L - 1, ShapeInv(fs, cs, r),
         Agree(fs, ft, L - 1), Len(cs) > 0 => r.boundary < L
  PROVE  /\ ShapeInv(ft, cs, r)
         /\ \A g : Owns(ft, g) <=> Owns(fs, g) /\ g # fs[L].owner
         /\ Owns(fs, fs[L].owner)
         /\ Len(cs) > 0 => (r.boundary = L - 1 <=> fs[L].owner = r.target)
         /\ Len(cs) > 0 /\ r.boundary < L - 1 => fs[L - 1].delegate = fs[L].owner
<1>. USE DEF Agree
<1>1. PICK n \in Nat : n = Len(cs)
  OBVIOUS
<1>2. /\ \A i \in 1 .. n : Bound(cs, r, i) \in Nat /\ Bound(cs, r, i) >= 1 /\ Bound(cs, r, i) <= r.boundary
      /\ \A i \in 1 .. n : i # n => Bound(cs, r, i) < r.boundary
      /\ r.boundary \in Nat
      /\ n > 0 => Bound(cs, r, n) = r.boundary /\ r.target = cs[n].gen
  <2>1. \A i \in 1 .. n : i \in 0 .. n
    OBVIOUS
  <2>. QED  BY <1>1, <2>1, RegsFacts
<1>3. /\ \A p \in 1 .. L : (fs[p].owner = Main <=> p = 1) /\ DelegateOK(fs[p])
      /\ \A p, q \in 1 .. L : fs[p].owner = fs[q].owner => p = q
  BY DEF ShapeInv, OwnersInv
<1>4. \A p \in 1 .. (L - 1) : p \in 1 .. L /\ p # L
  OBVIOUS
<1>5. L \in 1 .. L
  OBVIOUS
<1>6. OwnersInv(ft)
  BY <1>3, <1>4 DEF OwnersInv, DelegateOK
<1>7. \A g : Owns(ft, g) <=> Owns(fs, g) /\ g # fs[L].owner
  <2>1. \A p \in 1 .. L : p # L => p \in 1 .. (L - 1)
    OBVIOUS
  <2>2. \A g : Owns(ft, g) <=> \E p \in 1 .. (L - 1) : fs[p].owner = g
    BY DEF Owns
  <2>3. \A g : Owns(fs, g) <=> \E p \in 1 .. L : fs[p].owner = g
    BY DEF Owns
  <2>. QED  BY <1>3, <1>4, <1>5, <2>1, <2>2, <2>3
<1>8. Owns(fs, fs[L].owner)
  BY <1>5 DEF Owns
<1>9. \A i \in 1 .. n : CallOK(fs, cs[i], Bound(cs, r, i))
  BY <1>1 DEF ShapeInv
<1>10. n > 0 => (r.boundary = L - 1 <=> fs[L].owner = r.target)
  <2>. HAVE n > 0
  <2>1. n \in 1 .. n
    OBVIOUS
  <2>2. PICK b \in Nat : b = r.boundary /\ b < L
    BY <1>1, <1>2
  <2>3. CallOK(fs, cs[n], b)
    BY <1>2, <1>9, <2>1, <2>2
  <2>4. fs[b + 1].owner = r.target /\ b + 1 \in 1 .. L
    BY <1>2, <2>2, <2>3 DEF CallOK
  <2>5. b = L - 1 => b + 1 = L
    BY <2>2
  <2>6. fs[L].owner = fs[b + 1].owner => L = b + 1
    BY <1>3, <1>5, <2>4
  <2>7. L = b + 1 => b = L - 1
    BY <2>2
  <2>. QED  BY <2>2, <2>4, <2>5, <2>6, <2>7
<1>11. ASSUME NEW i \in 1 .. n PROVE CallOK(ft, cs[i], Bound(cs, r, i))
  <2>1. PICK b \in Nat : b = Bound(cs, r, i) /\ b >= 1 /\ b <= r.boundary /\ b < L
    <3>1. r.boundary < L
      BY <1>1
    <3>. QED  BY <1>2, <3>1
  <2>2. CallOK(fs, cs[i], b)
    BY <1>9, <2>1
  <2>3. b \in 1 .. (L - 1) /\ b + 1 \in 1 .. L
    BY <2>1
  <2>4. ft[b].delegate = Nobody /\ fs[b + 1].owner = cs[i].gen
    BY <2>1, <2>2, <2>3 DEF CallOK
  <2>5. b < L - 1 => ft[b + 1].owner = cs[i].gen
    <3>1. b < L - 1 => b + 1 \in 1 .. (L - 1)
      BY <2>1
    <3>. QED  BY <2>4, <3>1
  <2>6. b = L - 1 => \A p \in 1 .. (L - 1) : ft[p].owner # cs[i].gen
    <3>. SUFFICES ASSUME b = L - 1, NEW p \in 1 .. (L - 1), fs[p].owner = cs[i].gen
                  PROVE  FALSE
      OBVIOUS
    <3>1. p \in 1 .. L /\ p # b + 1
      BY <2>1
    <3>. QED  BY <1>3, <2>3, <2>4, <3>1
  <2>. QED  BY <2>1, <2>2, <2>3, <2>4, <2>5, <2>6 DEF CallOK
<1>12. ASSUME NEW p \in 1 .. (L - 2) PROVE LinkOK(ft, cs, r, p)
  <2>1. p \in 1 .. (L - 1) /\ p + 1 \in 1 .. (L - 1)
    OBVIOUS
  <2>2. LinkOK(fs, cs, r, p)
    BY <2>1 DEF ShapeInv
  <2>3. ft[p].delegate = fs[p].delegate /\ ft[p + 1].owner = fs[p + 1].owner
    BY <2>1
  <2>. QED  BY <2>2, <2>3 DEF LinkOK
<1>13. n > 0 /\ r.boundary < L - 1 => fs[L - 1].delegate = fs[L].owner
  <2>. HAVE n > 0 /\ r.boundary < L - 1
  <2>1. L - 1 \in 1 .. (Len(fs) - 1) /\ (L - 1) + 1 = L
    BY <1>2
  <2>2. LinkOK(fs, cs, r, L - 1)
    BY <2>1 DEF ShapeInv
  <2>3. \A i \in 1 .. n : Bound(cs, r, i) # L - 1
    BY <1>2
  <2>. QED  BY <1>1, <2>1, <2>2, <2>3 DEF LinkOK
<1>14. n = 0 => L - 1 <= 1
  BY <1>1 DEF ShapeInv
<1>15. (L - 1) - 1 = L - 2
  OBVIOUS
<1>16. ShapeInv(ft, cs, r)
  BY <1>1, <1>6, <1>11, <1>12, <1>14, <1>15 DEF ShapeInv
<1>. QED  BY <1>1, <1>7, <1>8, <1>10, <1>13, <1>16

\* The first k elements of s are those of t.
Begins(s, t, k) == \A i \in 1 .. k : t[i] = s[i]

(* A frame of a generator is put on top of one that delegates to it. *)
LEMMA StackDelegated ==
  ASSUME NEW cs \in Seq(Call), NEW r \in Registers, RegsInv(cs, r),
         NEW fs, NEW ft, NEW L \in Nat, Len(fs) = L, L >= 1, Len(ft) = L + 1, ShapeInv(fs, cs, r),
         Begins(fs, ft, L), Len(cs) > 0, r.boundary < L,
         ft[L + 1].owner \in Gens, ~Owns(fs, ft[L + 1].owner), DelegateOK(ft[L + 1]),
         fs[L].delegate = ft[L + 1].owner
  PROVE  /\ ShapeInv(ft, cs, r)
         /\ \A g : Owns(ft, g) <=> Owns(fs, g) \/ g = ft[L + 1].owner
<1>. USE DEF Begins
<1>1. PICK n \in Nat : n = Len(cs)
  OBVIOUS
<1>2. /\ \A i \in 1 .. n : Bound(cs, r, i) \in Nat /\ Bound(cs, r, i) >= 1 /\ Bound(cs, r, i) <= r.boundary
      /\ r.boundary \in Nat
  <2>1. \A i \in 1 .. n : i \in 0 .. n
    OBVIOUS
  <2>. QED  BY <1>1, <2>1, RegsFacts
<1>3. /\ \A p \in 1 .. L : (fs[p].owner = Main <=> p = 1) /\ DelegateOK(fs[p])
      /\ \A p, q \in 1 .. L : fs[p].owner = fs[q].owner => p = q
  BY DEF ShapeInv, OwnersInv
<1>4. \A p \in 1 .. (L + 1) : p \in 1 .. L \/ p = L + 1
  OBVIOUS
<1>5. \A p \in 1 .. L : p \in 1 .. (L + 1) /\ fs[p].owner # ft[L + 1].owner
  BY DEF Owns
<1>6. ft[L + 1].owner # Main /\ L + 1 # 1 /\ L + 1 \in 1 .. (L + 1)
  BY OwnersDistinct
<1>7. OwnersInv(ft)
  <2>1. \A p \in 1 .. (L + 1) : (ft[p].owner = Main <=> p = 1) /\ DelegateOK(ft[p])
    BY <1>3, <1>4, <1>6
  <2>2. \A p, q \in 1 .. (L + 1) : ft[p].owner = ft[q].owner => p = q
    BY <1>3, <1>4, <1>5
  <2>. QED  BY <2>1, <2>2 DEF OwnersInv
<1>8. \A g : Owns(ft, g) <=> Owns(fs, g) \/ g = ft[L + 1].owner
  <2>1. \A g : Owns(ft, g) <=> \E p \in 1 .. (L + 1) : ft[p].owner = g
    BY DEF Owns
  <2>2. \A g : Owns(fs, g) <=> \E p \in 1 .. L : fs[p].owner = g
    BY DEF Owns
  <2>. QED  BY <1>4, <1>5, <1>6, <2>1, <2>2
<1>9. ASSUME NEW i \in 1 .. n PROVE CallOK(ft, cs[i], Bound(cs, r, i))
  <2>1. PICK b \in Nat : b = Bound(cs, r, i) /\ b >= 1 /\ b < L
    BY <1>2
  <2>2. CallOK(fs, cs[i], b)
    BY <1>1, <2>1 DEF ShapeInv
  <2>3. b \in 1 .. L /\ b + 1 \in 1 .. L /\ b < L + 1 /\ b # L + 1
    BY <2>1
  <2>4. ft[b].delegate = Nobody /\ ft[b + 1].owner = cs[i].gen
    BY <2>1, <2>2, <2>3 DEF CallOK
  <2>. QED  BY <2>1, <2>2, <2>3, <2>4 DEF CallOK
<1>10. ASSUME NEW p \in 1 .. L PROVE LinkOK(ft, cs, r, p)
  <2>1. CASE p = L
    BY <2>1 DEF LinkOK
  <2>2. CASE p # L
    <3>1. p \in 1 .. (L - 1) /\ p + 1 \in 1 .. L
      BY <2>2
    <3>2. LinkOK(fs, cs, r, p)
      BY <3>1 DEF ShapeInv
    <3>. QED  BY <3>1, <3>2 DEF LinkOK
  <2>. QED  BY <2>1, <2>2
<1>11. n # 0 /\ (L + 1) - 1 = L
  BY <1>1
<1>. QED  BY <1>1, <1>7, <1>8, <1>9, <1>10, <1>11 DEF ShapeInv

(* A call of resume_generator puts its generator's frame on the stack. *)
LEMMA StackResumed ==
  ASSUME NEW cs \in Seq(Call), NEW r \in Registers, RegsInv(cs, r),
         NEW ds \in Seq(Call), NEW q \in Registers,
         NEW n \in Nat, Len(cs) = n, Len(ds) = n + 1, Begins(cs, ds, n),
         NEW fs, NEW ft, NEW L \in Nat, Len(fs) = L, L >= 1, Len(ft) = L + 1, ShapeInv(fs, cs, r),
         Begins(fs, ft, L), n > 0 => r.boundary < L,
         r.outcome = "none", ds[n + 1].saved = r, q.boundary = L, q.target = ds[n + 1].gen,
         ds[n + 1].how = "delegate" => L >= 2,
         ft[L + 1].owner = ds[n + 1].gen, ~Owns(fs, ft[L + 1].owner), DelegateOK(ft[L + 1]),
         fs[L].delegate = Nobody
  PROVE  /\ RegsInv(ds, q) /\ ShapeInv(ft, ds, q)
         /\ \A g : Owns(ft, g) <=> Owns(fs, g) \/ g = ft[L + 1].owner
         /\ \A i \in 0 .. n : Bound(ds, q, i) = Bound(cs, r, i)
         /\ Bound(ds, q, n + 1) = L
<1>. USE DEF Begins
<1>2. /\ \A i \in 1 .. n : Bound(cs, r, i) \in Nat /\ Bound(cs, r, i) >= 1 /\ Bound(cs, r, i) <= r.boundary
      /\ \A i \in 0 .. n : Bound(cs, r, i) \in Nat
      /\ r.boundary \in Nat /\ (n = 0 => r.boundary = 0)
      /\ Bound(cs, r, n) = r.boundary
  <2>1. \A i \in 1 .. n : i \in 0 .. n
    OBVIOUS
  <2>. QED  BY <2>1, RegsFacts
<1>3. /\ \A p \in 1 .. L : (fs[p].owner = Main <=> p = 1) /\ DelegateOK(fs[p])
      /\ \A u, v \in 1 .. L : fs[u].owner = fs[v].owner => u = v
  BY DEF ShapeInv, OwnersInv
<1>4. \A p \in 1 .. (L + 1) : p \in 1 .. L \/ p = L + 1
  OBVIOUS
<1>5. \A p \in 1 .. L : p \in 1 .. (L + 1) /\ fs[p].owner # ft[L + 1].owner
  BY DEF Owns
<1>c. ds[n + 1] \in Call /\ ds[n + 1].gen \in Gens
  <2>1. n + 1 \in 1 .. Len(ds)
    OBVIOUS
  <2>2. ds[n + 1] \in Call
    BY <2>1
  <2>. QED  BY <2>2 DEF Call
<1>6. ft[L + 1].owner # Main /\ L + 1 # 1 /\ L + 1 \in 1 .. (L + 1)
  BY <1>c, OwnersDistinct
<1>7. OwnersInv(ft)
  <2>1. \A p \in 1 .. (L + 1) : (ft[p].owner = Main <=> p = 1) /\ DelegateOK(ft[p])
    BY ZenonT(60), <1>3, <1>4, <1>6
  <2>2. \A u, v \in 1 .. (L + 1) : ft[u].owner = ft[v].owner => u = v
    BY <1>3, <1>4, <1>5
  <2>. QED  BY <2>1, <2>2 DEF OwnersInv
<1>8. \A g : Owns(ft, g) <=> Owns(fs, g) \/ g = ft[L + 1].owner
  <2>1. \A g : Owns(ft, g) <=> \E p \in 1 .. (L + 1) : ft[p].owner = g
    BY DEF Owns
  <2>2. \A g : Owns(fs, g) <=> \E p \in 1 .. L : fs[p].owner = g
    BY DEF Owns
  <2>. QED  BY <1>4, <1>5, <1>6, <2>1, <2>2
<1>9. /\ \A i \in 0 .. n : Reg(ds, q, i) = Reg(cs, r, i)
      /\ Reg(ds, q, n + 1) = q
  <2>1. \A i \in 0 .. n : i # n => i + 1 \in 1 .. n
    OBVIOUS
  <2>2. \A i \in 0 .. n : i # n + 1
    OBVIOUS
  <2>. QED  BY <2>1, <2>2 DEF Reg
<1>10. /\ \A i \in 0 .. n : Bound(ds, q, i) = Bound(cs, r, i)
       /\ Bound(ds, q, n + 1) = L
  BY <1>9 DEF Bound
<1>11. \A i \in 0 .. n : Bound(cs, r, i) < L
  <2>1. CASE n = 0
    BY <1>2, <2>1
  <2>2. CASE n > 0
    <3>1. \A i \in 0 .. n : i < n => Bound(cs, r, i) < Bound(cs, r, n)
      BY DEF RegsInv
    <3>. QED  BY <1>2, <2>2, <3>1
  <2>. QED  BY <2>1, <2>2
<1>12. RegsInv(ds, q)
  <2>1. Reg(ds, q, 0).target = Nobody /\ Bound(ds, q, 0) = 0
    <3>1. 0 \in 0 .. n
      OBVIOUS
    <3>. QED  BY <1>9, <1>10, <3>1 DEF RegsInv
  <2>2. Bound(ds, q, 1) = 1
    <3>1. CASE n = 0
      <4>1. L = 1
        BY <3>1 DEF ShapeInv
      <4>. QED  BY <1>10, <3>1, <4>1
    <3>2. CASE n > 0
      <4>1. 1 \in 0 .. n
        BY <3>2
      <4>. QED  BY <1>10, <3>2, <4>1 DEF RegsInv
    <3>. QED  BY <3>1, <3>2
  <2>3. ASSUME NEW i \in 1 .. (n + 1)
        PROVE  Reg(ds, q, i).target = ds[i].gen /\ Reg(ds, q, i - 1).outcome = "none"
    <3>1. CASE i = n + 1
      <4>1. i - 1 = n /\ n \in 0 .. n /\ Reg(cs, r, n) = r
        BY <3>1 DEF Reg
      <4>. QED  BY <1>9, <3>1, <4>1
    <3>2. CASE i # n + 1
      <4>1. i \in 1 .. n /\ i \in 0 .. n /\ i - 1 \in 0 .. n
        BY <3>2
      <4>. QED  BY <1>9, <4>1 DEF RegsInv
    <3>. QED  BY <3>1, <3>2
  <2>4. ASSUME NEW i \in 0 .. (n + 1), NEW j \in 0 .. (n + 1), i < j
        PROVE  Bound(ds, q, i) < Bound(ds, q, j)
    <3>1. i \in 0 .. n /\ (j \in 0 .. n \/ j = n + 1)
      BY <2>4
    <3>2. CASE j = n + 1
      BY <1>10, <1>11, <3>1, <3>2
    <3>3. CASE j \in 0 .. n
      BY <1>10, <2>4, <3>1, <3>3 DEF RegsInv
    <3>. QED  BY <3>1, <3>2, <3>3
  <2>. QED  BY <2>1, <2>2, <2>3, <2>4 DEF RegsInv
<1>13. ASSUME NEW i \in 1 .. (n + 1) PROVE CallOK(ft, ds[i], Bound(ds, q, i))
  <2>1. CASE i = n + 1
    <3>1. L < L + 1 /\ L # L + 1 /\ L \in 1 .. L
      OBVIOUS
    <3>2. ft[L].delegate = Nobody
      BY <3>1
    <3>. QED  BY <1>10, <2>1, <3>1, <3>2 DEF CallOK
  <2>2. CASE i # n + 1
    <3>0. i \in 1 .. n /\ i \in 0 .. n
      BY <2>2
    <3>1. PICK b \in Nat : b = Bound(cs, r, i) /\ b >= 1 /\ b < L
      BY <1>2, <1>11, <3>0
    <3>2. CallOK(fs, cs[i], b)
      BY <3>0, <3>1 DEF ShapeInv
    <3>3. b \in 1 .. L /\ b + 1 \in 1 .. L /\ b < L + 1 /\ b # L + 1
      BY <3>1
    <3>4. ft[b].delegate = Nobody /\ ft[b + 1].owner = cs[i].gen
      BY <3>1, <3>2, <3>3 DEF CallOK
    <3>5. ds[i] = cs[i] /\ Bound(ds, q, i) = b
      BY <1>10, <3>0, <3>1
    <3>. QED  BY <3>1, <3>2, <3>3, <3>4, <3>5 DEF CallOK
  <2>. QED  BY <2>1, <2>2
<1>14. ASSUME NEW p \in 1 .. L PROVE LinkOK(ft, ds, q, p)
  <2>1. CASE p = L
    <3>1. n + 1 \in 1 .. (n + 1)
      OBVIOUS
    <3>. QED  BY <1>10, <2>1, <3>1 DEF LinkOK
  <2>2. CASE p # L
    <3>1. p \in 1 .. (L - 1) /\ p + 1 \in 1 .. L
      BY <2>2
    <3>2. LinkOK(fs, cs, r, p)
      BY <3>1 DEF ShapeInv
    <3>3. CASE fs[p].delegate = fs[p + 1].owner
      BY <3>1, <3>3 DEF LinkOK
    <3>4. CASE \E i \in 1 .. n : Bound(cs, r, i) = p
      <4>1. PICK i \in 1 .. n : Bound(cs, r, i) = p
        BY <3>4
      <4>2. i \in 1 .. (n + 1) /\ i \in 0 .. n
        OBVIOUS
      <4>. QED  BY <1>10, <4>1, <4>2 DEF LinkOK
    <3>. QED  BY <3>2, <3>3, <3>4 DEF LinkOK
  <2>. QED  BY <2>1, <2>2
<1>15. n + 1 # 0 /\ (L + 1) - 1 = L
  OBVIOUS
<1>16. ShapeInv(ft, ds, q)
  BY <1>7, <1>13, <1>14, <1>15 DEF ShapeInv
<1>. QED  BY <1>8, <1>10, <1>12, <1>16

(* A call returns, with the stack back at its boundary, to the registers it *)
(* saved: the generator of the call around it is still on the stack.        *)
LEMMA StackReturned ==
  ASSUME NEW cs \in Seq(Call), NEW r \in Registers, RegsInv(cs, r),
         NEW ds \in Seq(Call), NEW q \in Registers,
         NEW n \in Nat, n > 0, Len(cs) = n, Len(ds) = n - 1, Begins(cs, ds, n - 1),
         NEW fs, NEW L \in Nat, Len(fs) = L, r.boundary = L, ShapeInv(fs, cs, r),
         q.target = cs[n].saved.target, q.boundary = cs[n].saved.boundary
  PROVE  /\ RegsInv(ds, q) /\ ShapeInv(fs, ds, q)
         /\ \A i \in 0 .. (n - 1) : Bound(ds, q, i) = Bound(cs, r, i)
         /\ n > 1 => q.boundary < L /\ q.boundary >= 1
         /\ n = 1 => L = 1 /\ q.target = Nobody /\ q.boundary = 0
         /\ cs[n].how = "delegate" => n > 1 /\ L >= 2
         /\ cs[n].saved.outcome = "none"
         /\ L >= 1 /\ fs[L].delegate = Nobody
         /\ ~Owns(fs, cs[n].gen)
<1>. USE DEF Begins
<1>1. /\ \A i \in 1 .. n : Bound(cs, r, i) \in Nat /\ Bound(cs, r, i) >= 1 /\ Bound(cs, r, i) <= r.boundary
      /\ \A i \in 1 .. n : i # n => Bound(cs, r, i) < r.boundary
      /\ \A i \in 0 .. n : Bound(cs, r, i) \in Nat
      /\ r.boundary \in Nat
      /\ Bound(cs, r, n) = r.boundary
  <2>1. \A i \in 1 .. n : i \in 0 .. n
    OBVIOUS
  <2>. QED  BY <2>1, RegsFacts
<1>2. /\ Reg(cs, r, n - 1) = cs[n].saved
      /\ Reg(ds, q, n - 1) = q
      /\ \A i \in 0 .. (n - 1) : i # n - 1 => Reg(ds, q, i) = Reg(cs, r, i)
  <2>1. n - 1 # n /\ (n - 1) + 1 = n
    OBVIOUS
  <2>2. \A i \in 0 .. (n - 1) : i # n - 1 => i + 1 \in 1 .. (n - 1) /\ i # n
    OBVIOUS
  <2>3. Reg(cs, r, n - 1) = cs[n].saved
    BY <2>1 DEF Reg
  <2>4. Reg(ds, q, n - 1) = q
    BY DEF Reg
  <2>5. \A i \in 0 .. (n - 1) : i # n - 1 => Reg(ds, q, i) = Reg(cs, r, i)
    BY <2>2 DEF Reg
  <2>. QED  BY <2>3, <2>4, <2>5
<1>3. \A i \in 0 .. (n - 1) : /\ Bound(ds, q, i) = Bound(cs, r, i)
                              /\ Reg(ds, q, i).target = Reg(cs, r, i).target
  <2>. SUFFICES ASSUME NEW i \in 0 .. (n - 1)
                PROVE  /\ Bound(ds, q, i) = Bound(cs, r, i)
                       /\ Reg(ds, q, i).target = Reg(cs, r, i).target
    OBVIOUS
  <2>1. CASE i = n - 1
    BY <1>2, <2>1 DEF Bound
  <2>2. CASE i # n - 1
    BY <1>2, <2>2 DEF Bound
  <2>. QED  BY <2>1, <2>2
<1>4. RegsInv(ds, q)
  <2>1. Reg(ds, q, 0).target = Nobody /\ Bound(ds, q, 0) = 0
    <3>1. 0 \in 0 .. (n - 1)
      OBVIOUS
    <3>. QED  BY <1>3, <3>1 DEF RegsInv
  <2>2. n - 1 > 0 => Bound(ds, q, 1) = 1
    <3>1. n - 1 > 0 => 1 \in 0 .. (n - 1)
      OBVIOUS
    <3>. QED  BY <1>3, <3>1 DEF RegsInv
  <2>3. ASSUME NEW i \in 1 .. (n - 1)
        PROVE  Reg(ds, q, i).target = ds[i].gen /\ Reg(ds, q, i - 1).outcome = "none"
    <3>1. i \in 1 .. n /\ i \in 0 .. (n - 1) /\ i - 1 \in 0 .. (n - 1) /\ i - 1 # n - 1
      OBVIOUS
    <3>2. Reg(cs, r, i).target = cs[i].gen /\ Reg(cs, r, i - 1).outcome = "none"
      BY <3>1 DEF RegsInv
    <3>. QED  BY <1>2, <1>3, <3>1, <3>2
  <2>4. \A i, j \in 0 .. (n - 1) : i < j => Bound(ds, q, i) < Bound(ds, q, j)
    <3>1. \A i \in 0 .. (n - 1) : i \in 0 .. n
      OBVIOUS
    <3>2. \A i, j \in 0 .. n : i < j => Bound(cs, r, i) < Bound(cs, r, j)
      BY DEF RegsInv
    <3>. QED  BY <1>3, <3>1, <3>2
  <2>. QED  BY <2>1, <2>2, <2>3, <2>4 DEF RegsInv
<1>5. q.boundary = Bound(cs, r, n - 1) /\ q.target = Reg(cs, r, n - 1).target
  BY <1>2 DEF Bound
<1>6. n > 1 => q.boundary < L /\ q.boundary >= 1
  <2>1. n > 1 => n - 1 \in 1 .. n /\ n - 1 # n
    OBVIOUS
  <2>. QED  BY <1>1, <1>5, <2>1
<1>7. n = 1 => L = 1 /\ q.target = Nobody /\ q.boundary = 0
  <2>1. n = 1 => n - 1 = 0
    OBVIOUS
  <2>. QED  BY <1>1, <1>5, <2>1 DEF RegsInv
<1>8. CallOK(fs, cs[n], L)
  <2>1. n \in 1 .. n
    OBVIOUS
  <2>. QED  BY <1>1, <2>1 DEF ShapeInv
<1>9. /\ cs[n].how = "delegate" => n > 1 /\ L >= 2
      /\ L >= 1 /\ fs[L].delegate = Nobody
      /\ ~Owns(fs, cs[n].gen)
  <2>1. n = 1 \/ n > 1
    OBVIOUS
  <2>2. L >= 1
    <3>1. n \in 1 .. n
      OBVIOUS
    <3>. QED  BY <1>1, <3>1
  <2>. QED  BY <1>7, <1>8, <2>1, <2>2 DEF CallOK, Owns
<1>10. cs[n].saved.outcome = "none"
  <2>1. n \in 1 .. n
    OBVIOUS
  <2>. QED  BY <1>2, <2>1 DEF RegsInv
<1>11. ASSUME NEW i \in 1 .. (n - 1) PROVE CallOK(fs, ds[i], Bound(ds, q, i))
  <2>1. i \in 1 .. n /\ i \in 0 .. (n - 1)
    OBVIOUS
  <2>2. CallOK(fs, cs[i], Bound(cs, r, i))
    BY <2>1 DEF ShapeInv
  <2>. QED  BY <1>3, <2>1, <2>2
<1>12. ASSUME NEW p \in 1 .. (L - 1) PROVE LinkOK(fs, ds, q, p)
  <2>1. LinkOK(fs, cs, r, p)
    BY DEF ShapeInv
  <2>2. CASE \E i \in 1 .. n : Bound(cs, r, i) = p
    <3>1. PICK i \in 1 .. n : Bound(cs, r, i) = p
      BY <2>2
    <3>2. i # n
      BY <1>1, <3>1
    <3>3. i \in 1 .. (n - 1) /\ i \in 0 .. (n - 1)
      BY <3>2
    <3>4. Bound(ds, q, i) = p
      BY <1>3, <3>1, <3>3
    <3>. QED  BY <3>3, <3>4 DEF LinkOK
  <2>. QED  BY <2>1, <2>2 DEF LinkOK
<1>13. OwnersInv(fs)
  BY DEF ShapeInv
<1>14. n - 1 = 0 => L <= 1
  BY <1>7
<1>15. ShapeInv(fs, ds, q)
  BY <1>11, <1>12, <1>13, <1>14 DEF ShapeInv
<1>. QED  BY <1>3, <1>4, <1>6, <1>7, <1>9, <1>10, <1>15

(* The frames below the top still stand where they did, and the innermost *)
(* call's caller does unless nothing depends on it.                       *)
LEMMA DelegatesKept ==
  ASSUME NEW cs \in Seq(Call), NEW r \in Registers, NEW q \in Registers, RegsInv(cs, r),
         q.target = r.target, q.boundary = r.boundary,
         NEW fs, NEW ft, NEW y, NEW z, DelegatesInv(fs, cs, r, y),
         \A p \in 1 .. r.boundary : p # r.boundary => ft[p].at = fs[p].at,
         Len(cs) > 0 /\ Expected(ft, cs, q, z, Len(cs)) =>
           /\ Expected(fs, cs, r, y, Len(cs))
           /\ ft[r.boundary].at = fs[r.boundary].at
  PROVE  DelegatesInv(ft, cs, q, z)
<1>1. PICK n \in Nat : n = Len(cs)
  OBVIOUS
<1>2. /\ \A i \in 1 .. n : Bound(cs, r, i) \in Nat /\ Bound(cs, r, i) >= 1
      /\ \A i \in 1 .. n : i # n => Bound(cs, r, i) < r.boundary
      /\ r.boundary \in Nat
      /\ Bound(cs, r, n) = r.boundary
  <2>1. \A i \in 1 .. n : i \in 0 .. n
    OBVIOUS
  <2>. QED  BY <1>1, <2>1, RegsFacts
<1>3. \A i \in 1 .. n : Bound(cs, q, i) = Bound(cs, r, i)
  <2>1. \A i \in 1 .. n : i \in 0 .. n
    OBVIOUS
  <2>2. \A i \in 0 .. Len(cs) : Bound(cs, q, i) = Bound(cs, r, i)
    BY RegsKept
  <2>. QED  BY <1>1, <2>1, <2>2
<1>4. ASSUME NEW i \in 1 .. n, cs[i].how = "delegate", Expected(ft, cs, q, z, i)
      PROVE  ft[Bound(cs, q, i)].at = "yieldfrom"
  <2>1. CASE i = n
    <3>1. n > 0
      BY <2>1
    <3>2. Expected(fs, cs, r, y, n) /\ ft[r.boundary].at = fs[r.boundary].at
      BY <1>1, <1>4, <2>1, <3>1
    <3>3. fs[Bound(cs, r, n)].at = "yieldfrom"
      BY <1>1, <1>4, <2>1, <3>2 DEF DelegatesInv
    <3>. QED  BY <1>2, <1>3, <2>1, <3>2, <3>3
  <2>2. CASE i # n
    <3>1. i < n
      BY <2>2
    <3>2. Expected(fs, cs, r, y, i)
      BY <1>1, <3>1 DEF Expected
    <3>3. fs[Bound(cs, r, i)].at = "yieldfrom"
      BY <1>1, <1>4, <3>2 DEF DelegatesInv
    <3>4. PICK b \in Nat : b = Bound(cs, r, i) /\ b >= 1 /\ b < r.boundary
      BY <1>2, <2>2
    <3>5. b \in 1 .. r.boundary /\ b # r.boundary
      BY <1>2, <3>4
    <3>. QED  BY <1>3, <3>3, <3>4, <3>5
  <2>. QED  BY <2>1, <2>2
<1>. QED  BY <1>1, <1>4 DEF DelegatesInv

-----------------------------------------------------------------------------
(* What the invariant says of the current state *)

(* The types. *)
LEMMA StateFacts ==
  ASSUME IInv
  PROVE  /\ frames \in Seq(Frame) /\ Len(frames) \in Nat /\ DOMAIN frames = 1 .. Len(frames)
         /\ calls \in Seq(Call) /\ Len(calls) \in Nat
         /\ reg \in Registers /\ reg.boundary \in Nat
         /\ \A p \in 1 .. Len(frames) : frames[p] \in Frame /\ DelegateOK(frames[p])
         /\ calls = <<>> <=> Len(calls) = 0
         /\ frames = <<>> <=> Len(frames) = 0
         /\ Len(calls) > 0 => reg.boundary <= Len(frames) /\ reg.boundary >= 1
         /\ Len(calls) > 0 /\ reg.boundary = Len(frames) => ~Owns(frames, reg.target)
         /\ Len(calls) > 0 /\ reg.boundary < Len(frames) => frames[reg.boundary + 1].owner = reg.target
         /\ Len(calls) > 0 => reg.target \in Gens /\ reg.target # Nobody /\ frames[reg.boundary].delegate = Nobody
         /\ Len(calls) = 0 => reg.target = Nobody /\ reg.boundary = 0 /\ Len(frames) <= 1
<1>1. /\ frames \in Seq(Frame) /\ calls \in Seq(Call) /\ reg \in Registers
  BY DEF IInv, TypesInv, TypeOK, Registers
<1>2. Len(frames) \in Nat /\ DOMAIN frames = 1 .. Len(frames) /\ Len(calls) \in Nat
  BY <1>1, LenProperties
<1>3. reg.boundary \in Nat
  BY <1>1 DEF Registers
<1>4. \A p \in 1 .. Len(frames) : frames[p] \in Frame
  BY <1>1
<1>5. \A p \in 1 .. Len(frames) : DelegateOK(frames[p])
  BY DEF IInv, ShapeInv, OwnersInv
<1>6. (calls = <<>> <=> Len(calls) = 0) /\ (frames = <<>> <=> Len(frames) = 0)
  BY <1>1, EmptySeq
<1>7. RegsInv(calls, reg)
  BY DEF IInv
<1>8. /\ Len(calls) = 0 => reg.target = Nobody /\ reg.boundary = 0
      /\ Len(calls) > 0 => reg.target = calls[Len(calls)].gen /\ reg.boundary >= 1
      /\ Bound(calls, reg, Len(calls)) = reg.boundary
  BY <1>1, <1>7, RegsFacts
<1>9. Len(calls) = 0 => Len(frames) <= 1
  BY DEF IInv, ShapeInv
<1>10. Len(calls) > 0 => CallOK(frames, calls[Len(calls)], reg.boundary) /\ reg.target \in Gens
  <2>. HAVE Len(calls) > 0
  <2>1. PICK n \in Nat : n = Len(calls) /\ n \in 1 .. n
    BY <1>2
  <2>2. CallOK(frames, calls[n], Bound(calls, reg, n))
    BY <2>1 DEF IInv, ShapeInv
  <2>3. calls[n] \in Call
    BY <1>1, <2>1
  <2>4. calls[n].gen \in Gens
    BY <2>3 DEF Call
  <2>. QED  BY <1>8, <2>1, <2>2, <2>4
<1>11. /\ Len(calls) > 0 => reg.boundary <= Len(frames) /\ reg.boundary >= 1
       /\ Len(calls) > 0 /\ reg.boundary = Len(frames) => ~Owns(frames, reg.target)
       /\ Len(calls) > 0 /\ reg.boundary < Len(frames) => frames[reg.boundary + 1].owner = reg.target
       /\ Len(calls) > 0 => reg.target \in Gens /\ reg.target # Nobody /\ frames[reg.boundary].delegate = Nobody
  BY <1>8, <1>10, OwnersDistinct DEF CallOK, Owns
<1>. QED  BY <1>1, <1>2, <1>3, <1>4, <1>5, <1>6, <1>8, <1>9, <1>11

(* The run loop executes a frame above the innermost boundary, and a frame of *)
(* a generator only inside a resume.                                          *)
LEMMA RunningFacts ==
  ASSUME IInv, Running
  PROVE  /\ Len(frames) >= 1 /\ Top \in Frame /\ DelegateOK(Top)
         /\ Len(calls) > 0 => reg.boundary < Len(frames)
         /\ Top.owner \in Gens => Len(calls) > 0 /\ Len(frames) >= 2
         /\ Top.owner = Main => Len(calls) = 0 /\ Len(frames) = 1
         /\ reg.outcome = "none" /\ exc = NoExc /\ rethrow = FALSE /\ yielding = Nobody
<1>1. PICK L \in Nat : L = Len(frames)
  BY StateFacts
<1>2. L >= 1
  BY <1>1, StateFacts DEF Running, Settled
<1>3. L \in 1 .. L /\ 1 \in 1 .. L
  BY <1>2
<1>4. Top \in Frame /\ DelegateOK(Top)
  BY <1>1, <1>3, StateFacts DEF Top
<1>5. Len(calls) > 0 => reg.boundary < L
  <2>. HAVE Len(calls) > 0
  <2>1. Owns(frames, reg.target)
    BY StateFacts DEF Running, OnStack, Owns
  <2>. QED  BY <1>1, <2>1, StateFacts
<1>6. /\ frames[1].owner = Main
      /\ Top.owner = Main => L = 1
  BY <1>1, <1>3 DEF IInv, ShapeInv, OwnersInv, Top
<1>7. Top.owner \in Gens => Len(calls) > 0 /\ L >= 2
  <2>. HAVE Top.owner \in Gens
  <2>1. L # 1
    BY <1>1, <1>6, OwnersDistinct DEF Top
  <2>. QED  BY <1>1, <1>2, <2>1, StateFacts
<1>8. Top.owner = Main => Len(calls) = 0
  <2>. HAVE Top.owner = Main
  <2>. QED  BY <1>5, <1>6, StateFacts
<1>9. reg.outcome = "none" /\ exc = NoExc /\ rethrow = FALSE /\ yielding = Nobody
  <2>1. rethrow \in BOOLEAN
    BY DEF IInv, TypesInv, TypeOK
  <2>. QED  BY <2>1 DEF Running, Settled
<1>. QED  BY SMTT(60), <1>1, <1>2, <1>4, <1>5, <1>6, <1>7, <1>8, <1>9

-----------------------------------------------------------------------------
(* Instructions that leave the stack as high as it is *)

\* ft is the stack with at most the top frame changed, and not its owner.
InPlace(ft) ==
  /\ ft \in Seq(Frame) /\ Len(ft) = Len(frames)
  /\ \A p \in 1 .. Len(frames) :
       /\ ft[p].owner = frames[p].owner /\ DelegateOK(ft[p])
       /\ p # Len(frames) => ft[p].at = frames[p].at /\ ft[p].delegate = frames[p].delegate

(* Nothing is changed. *)
LEMMA FramesInPlace ==
  ASSUME IInv
  PROVE  InPlace(frames)
BY StateFacts DEF InPlace

(* The top frame is replaced. *)
LEMMA WithTopInPlace ==
  ASSUME IInv, Len(frames) >= 1, NEW f \in Frame, f.owner = Top.owner, DelegateOK(f)
  PROVE  InPlace(WithTop(f)) /\ WithTop(f)[Len(frames)] = f
<1>1. PICK L \in Nat : L = Len(frames)
  BY StateFacts
<1>2. PICK ft : ft = WithTop(f)
  OBVIOUS
<1>3. L \in 1 .. L
  BY <1>1
<1>4. ft \in Seq(Frame) /\ Len(ft) = L /\ ft[L] = f /\ \A p \in 1 .. L : p # L => ft[p] = frames[p]
  <2>1. frames \in Seq(Frame) /\ ft = [frames EXCEPT ![L] = f]
    BY <1>1, <1>2, StateFacts DEF WithTop
  <2>. QED  BY <1>1, <1>3, <2>1
<1>5. ASSUME NEW p \in 1 .. L
      PROVE  /\ ft[p].owner = frames[p].owner /\ DelegateOK(ft[p])
             /\ p # L => ft[p].at = frames[p].at /\ ft[p].delegate = frames[p].delegate
  <2>1. CASE p = L
    BY <1>1, <1>4, <2>1 DEF Top
  <2>2. CASE p # L
    BY <1>1, <1>4, <2>2, StateFacts
  <2>. QED  BY <2>1, <2>2
<1>. QED  BY SMTT(60), <1>1, <1>2, <1>4, <1>5 DEF InPlace

(* The types of the registers are kept. *)
LEMMA TypesKept ==
  ASSUME IInv, frames' \in Seq(Frame), GenTypes(suspended', gen'), reg' \in Registers,
         calls' \in Seq(Call), exc' \in Exceptions \cup {NoExc}, rethrow' \in BOOLEAN,
         yielding' \in Gens \cup {Nobody}
  PROVE  TypesInv'
BY DEF TypesInv, TypeOK, GenTypes, Registers

(* The generators' types. *)
LEMMA GenTypesNow ==
  ASSUME IInv
  PROVE  GenTypes(suspended, gen) /\ TypesInv /\ GensInv(frames, suspended, gen)
BY DEF IInv, TypesInv, TypeOK, GenTypes

(* An instruction that calls nothing and returns nowhere. *)
LEMMA InstructionInv ==
  ASSUME IInv, Running, InPlace(frames'), UNCHANGED <<suspended, gen, reg, calls, yielding>>,
         exc' \in Exceptions \cup {NoExc}, rethrow' \in BOOLEAN
  PROVE  IInv'
<1>1. PICK L \in Nat : L = Len(frames) /\ L >= 1
  BY StateFacts, RunningFacts
<1>2. Len(calls) > 0 => reg.boundary < L
  BY <1>1, RunningFacts
<1>3. reg.outcome = "none" /\ yielding = Nobody
  BY RunningFacts
<1>4. TypesInv'
  BY StateFacts, GenTypesNow, TypesKept, <1>3 DEF InPlace
<1>5. RegsInv(calls', reg')
  BY DEF IInv
<1>6. ShapeInv(frames', calls, reg) /\ \A g : Owns(frames', g) <=> Owns(frames, g)
  <2>1. CASE Len(calls) > 0
    <3>1. RegsInv(calls, reg) /\ ShapeInv(frames, calls, reg)
      BY DEF IInv
    <3>. QED  BY <1>1, <1>2, <2>1, <3>1, StateFacts, StackChanged DEF InPlace
  <2>2. CASE Len(calls) = 0
    <3>1. RegsInv(calls, reg) /\ ShapeInv(frames, calls, reg)
      BY DEF IInv
    <3>2. reg.boundary = 0
      BY <2>2, StateFacts
    <3>. QED  BY <1>1, <3>1, <3>2, StateFacts, StackChanged DEF InPlace
  <2>3. Len(calls) \in Nat
    BY StateFacts
  <2>. QED  BY <2>1, <2>2, <2>3
<1>7. GensInv(frames', suspended, gen)
  BY <1>6, GenTypesNow, GensStay
<1>8. OutcomeInv(frames', calls, reg, exc', rethrow', yielding)
  BY <1>3 DEF OutcomeInv
<1>9. DelegatesInv(frames', calls, reg, yielding)
  <2>1. DelegatesInv(frames, calls, reg, yielding) /\ RegsInv(calls, reg)
    BY DEF IInv
  <2>2. CASE Len(calls) > 0
    <3>1. \A p \in 1 .. reg.boundary : p \in 1 .. L /\ p # L
      BY <1>2, <2>2, StateFacts
    <3>2. \A p \in 1 .. reg.boundary : frames'[p].at = frames[p].at
      BY <1>1, <3>1 DEF InPlace
    <3>3. reg.boundary \in 1 .. reg.boundary
      BY <2>2, StateFacts
    <3>4. Expected(frames, calls, reg, yielding, Len(calls))
      BY <1>1, <1>2, <2>2 DEF Expected
    <3>. QED  BY <2>1, <3>2, <3>3, <3>4, StateFacts, DelegatesKept
  <2>3. CASE Len(calls) = 0
    BY <2>3 DEF DelegatesInv
  <2>4. Len(calls) \in Nat
    BY StateFacts
  <2>. QED  BY <2>2, <2>3, <2>4
<1>. QED  BY SMTT(60), <1>4, <1>5, <1>6, <1>7, <1>8, <1>9 DEF IInv

(* run hands a frame what its resume carries. *)
LEMMA DeliverInv ==
  ASSUME IInv, Deliver
  PROVE  IInv'
<1>1. Running
  BY DEF Deliver
<1>2. PICK f : f = [Top EXCEPT !.awaiting = FALSE, !.thrown = NoExc, !.sent = FALSE]
  OBVIOUS
<1>3. f \in Frame /\ f.owner = Top.owner /\ DelegateOK(f) /\ Top.thrown \in Exceptions \cup {NoExc}
  BY <1>1, <1>2, RunningFacts DEF Frame, DelegateOK
<1>4. InPlace(frames')
  BY <1>1, <1>2, <1>3, RunningFacts, WithTopInPlace DEF Deliver
<1>5. rethrow' \in BOOLEAN
  BY <1>1, RunningFacts DEF Deliver
<1>. QED  BY <1>1, <1>3, <1>4, <1>5, InstructionInv DEF Deliver

(* Block instructions, the first one of a handler, and the end of handling. *)
LEMMA BlocksInv ==
  ASSUME IInv, SetupExcept \/ PopBlock \/ EnterHandler \/ ClearException
  PROVE  IInv'
<1>1. Running /\ UNCHANGED <<suspended, gen, reg, calls, transit>>
  BY DEF SetupExcept, PopBlock, EnterHandler, ClearException, Executing
<1>2. PICK f : frames' = WithTop(f) /\ f \in Frame /\ f.owner = Top.owner /\ DelegateOK(f)
  <2>0. Top \in Frame /\ DelegateOK(Top) /\ Top.blocks \in 0 .. MaxBlocks /\ MaxBlocks \in Nat
    BY <1>1, RunningFacts, BoundsAreNaturals DEF Frame
  <2>1. CASE SetupExcept
    <3>1. Top.blocks + 1 \in 0 .. MaxBlocks
      BY <2>0, <2>1 DEF SetupExcept
    <3>2. PICK k \in 0 .. MaxBlocks : k = Top.blocks + 1
      BY <3>1
    <3>3. [Top EXCEPT !.blocks = k] \in Frame /\ [Top EXCEPT !.blocks = k].owner = Top.owner
          /\ DelegateOK([Top EXCEPT !.blocks = k])
      BY <2>0 DEF Frame, DelegateOK
    <3>. QED  BY <2>1, <3>2, <3>3 DEF SetupExcept
  <2>2. CASE PopBlock
    <3>1. Top.blocks - 1 \in 0 .. MaxBlocks
      BY <2>0, <2>2 DEF PopBlock
    <3>2. PICK k \in 0 .. MaxBlocks : k = Top.blocks - 1
      BY <3>1
    <3>3. [Top EXCEPT !.blocks = k] \in Frame /\ [Top EXCEPT !.blocks = k].owner = Top.owner
          /\ DelegateOK([Top EXCEPT !.blocks = k])
      BY <2>0 DEF Frame, DelegateOK
    <3>. QED  BY <2>2, <3>2, <3>3 DEF PopBlock
  <2>3. CASE EnterHandler
    <3>1. [Top EXCEPT !.at = "code"] \in Frame /\ [Top EXCEPT !.at = "code"].owner = Top.owner
          /\ DelegateOK([Top EXCEPT !.at = "code"])
      BY <2>0, <2>3 DEF EnterHandler, Frame, DelegateOK
    <3>. QED  BY <2>3, <3>1 DEF EnterHandler
  <2>4. CASE ClearException
    <3>1. [Top EXCEPT !.active = NoExc] \in Frame /\ [Top EXCEPT !.active = NoExc].owner = Top.owner
          /\ DelegateOK([Top EXCEPT !.active = NoExc])
      BY <2>0 DEF Frame, DelegateOK
    <3>. QED  BY <2>4, <3>1 DEF ClearException
  <2>. QED  BY <2>1, <2>2, <2>3, <2>4
<1>3. InPlace(frames')
  BY <1>1, <1>2, RunningFacts, WithTopInPlace
<1>4. exc' \in Exceptions \cup {NoExc} /\ rethrow' \in BOOLEAN /\ yielding' = yielding
  BY <1>1, RunningFacts DEF transit
<1>. QED  BY <1>1, <1>3, <1>4, InstructionInv

(* An instruction that only raises. *)
LEMMA RaiseInv ==
  ASSUME IInv, Running, exc' \in Exceptions \cup {NoExc},
         UNCHANGED <<frames, suspended, gen, reg, calls, rethrow, yielding>>
  PROVE  IInv'
<1>1. InPlace(frames')
  BY FramesInPlace
<1>2. rethrow' \in BOOLEAN
  BY RunningFacts
<1>. QED  BY <1>1, <1>2, InstructionInv

(* The end of the module's code. *)
LEMMA EndOfModuleInv ==
  ASSUME IInv, EndOfModule
  PROVE  IInv'
<1>1. Running
  BY DEF EndOfModule, Executing
<1>2. PICK f : f = [Top EXCEPT !.active = NoExc]
  OBVIOUS
<1>3. f \in Frame /\ f.owner = Top.owner /\ DelegateOK(f) /\ Top.active \in Exceptions \cup {NoExc}
  BY <1>1, <1>2, RunningFacts DEF Frame, DelegateOK
<1>4. InPlace(frames')
  BY <1>1, <1>2, <1>3, RunningFacts, WithTopInPlace DEF EndOfModule
<1>5. rethrow' \in BOOLEAN
  BY <1>1, RunningFacts DEF EndOfModule
<1>. QED  BY <1>1, <1>3, <1>4, <1>5, InstructionInv DEF EndOfModule

-----------------------------------------------------------------------------
(* Steps of the machinery that leave the stack as high as it is *)

(* What such a step has to keep, if it changes only the outcome and the *)
(* pending exception of the registers.                                  *)
LEMMA InPlaceInv ==
  ASSUME IInv, InPlace(frames'), UNCHANGED <<suspended, gen, calls>>,
         frames'[Len(frames)].delegate \in {Nobody, frames[Len(frames)].delegate},
         reg' \in Registers, reg'.target = reg.target, reg'.boundary = reg.boundary,
         exc' \in Exceptions \cup {NoExc}, rethrow' \in BOOLEAN, yielding' \in Gens \cup {Nobody},
         OutcomeInv(frames', calls, reg', exc', rethrow', yielding'),
         Len(calls) > 0 /\ Expected(frames', calls, reg', yielding', Len(calls)) =>
           /\ Expected(frames, calls, reg, yielding, Len(calls))
           /\ frames'[reg.boundary].at = frames[reg.boundary].at
  PROVE  IInv'
<1>1. PICK L \in Nat : L = Len(frames)
  BY StateFacts
<1>2. RegsInv(calls, reg) /\ ShapeInv(frames, calls, reg) /\ DelegatesInv(frames, calls, reg, yielding)
  BY DEF IInv
<1>3. TypesInv'
  BY StateFacts, GenTypesNow, TypesKept DEF InPlace
<1>4. ShapeInv(frames', calls, reg) /\ \A g : Owns(frames', g) <=> Owns(frames, g)
  BY <1>1, <1>2, StateFacts, StackChanged DEF InPlace
<1>5. RegsInv(calls, reg') /\ ShapeInv(frames', calls, reg')
  BY <1>2, <1>4, StateFacts, RegsKept
<1>6. GensInv(frames', suspended, gen)
  BY <1>4, GenTypesNow, GensStay
<1>7. \A p \in 1 .. reg.boundary : p # reg.boundary => frames'[p].at = frames[p].at
  <2>1. CASE Len(calls) > 0
    <3>1. \A p \in 1 .. reg.boundary : p # reg.boundary => p \in 1 .. L /\ p # L
      BY <1>1, <2>1, StateFacts
    <3>. QED  BY <1>1, <3>1 DEF InPlace
  <2>2. CASE Len(calls) = 0
    BY <2>2, StateFacts
  <2>3. Len(calls) \in Nat
    BY StateFacts
  <2>. QED  BY <2>1, <2>2, <2>3
<1>8. DelegatesInv(frames', calls, reg', yielding')
  BY <1>2, <1>7, StateFacts, DelegatesKept
<1>. QED  BY <1>3, <1>5, <1>6, <1>8 DEF IInv

(* The resumed generator is found to have left the stack. *)
LEMMA LoseTargetInv ==
  ASSUME IInv, LoseTarget
  PROVE  IInv'
<1>1. Len(frames) >= 1 /\ reg.target # Nobody /\ ~Owns(frames, reg.target)
  BY StateFacts DEF LoseTarget, Settled, OnStack, Owns
<1>2. calls # <<>> /\ Len(frames) = reg.boundary
  <2>1. Len(calls) > 0
    BY <1>1, StateFacts
  <2>2. ~(reg.boundary < Len(frames))
    <3>. SUFFICES ASSUME reg.boundary < Len(frames) PROVE FALSE
      OBVIOUS
    <3>1. frames[reg.boundary + 1].owner = reg.target /\ reg.boundary + 1 \in 1 .. Len(frames)
      BY <2>1, StateFacts
    <3>. QED  BY <1>1, <3>1 DEF Owns
  <2>. QED  BY <2>1, <2>2, StateFacts
<1>3. exc = NoExc /\ yielding = Nobody /\ rethrow = FALSE /\ reg.outcome = "none"
  <2>1. rethrow \in BOOLEAN
    BY DEF IInv, TypesInv, TypeOK
  <2>. QED  BY <2>1 DEF LoseTarget, Settled
<1>4. /\ reg' \in Registers /\ reg'.target = reg.target /\ reg'.boundary = reg.boundary
      /\ reg'.outcome = "propagated"
  BY StateFacts DEF LoseTarget, Registers
<1>5. UNCHANGED <<frames, suspended, gen, calls, exc, rethrow, yielding>>
  BY DEF LoseTarget, transit
<1>6. OutcomeInv(frames', calls, reg', exc', rethrow', yielding')
  BY <1>2, <1>3, <1>4, <1>5 DEF OutcomeInv
<1>7. /\ Expected(frames', calls, reg', yielding', Len(calls)) =>
           Expected(frames, calls, reg, yielding, Len(calls))
      /\ frames'[reg.boundary].at = frames[reg.boundary].at
  BY <1>4, <1>5 DEF Expected
<1>. QED  BY <1>1, <1>3, <1>4, <1>5, <1>6, <1>7, FramesInPlace, InPlaceInv

(* An exception on its way excludes a value on its way. *)
LEMMA RaisingFacts ==
  ASSUME IInv, exc # NoExc \/ rethrow
  PROVE  /\ yielding = Nobody /\ reg.outcome \in {"none", "propagated"}
         /\ rethrow \in BOOLEAN /\ exc \in Exceptions \cup {NoExc}
         /\ reg.outcome # "none" => calls # <<>> /\ Len(frames) = reg.boundary
         /\ reg.pending \in Exceptions \cup {NoExc}
<1>1. reg \in Registers /\ rethrow \in BOOLEAN /\ exc \in Exceptions \cup {NoExc}
  BY StateFacts DEF IInv, TypesInv, TypeOK
<1>2. /\ reg.outcome \in {"none", "yield", "complete", "propagated"}
      /\ reg.pending \in Exceptions \cup {NoExc}
  BY <1>1 DEF Registers
<1>3. OutcomeInv(frames, calls, reg, exc, rethrow, yielding)
  BY DEF IInv
<1>. QED  BY <1>1, <1>2, <1>3 DEF OutcomeInv

(* unwind_exception_internal finds a handler in the top frame. *)
LEMMA UnwindToHandlerInv ==
  ASSUME IInv, UnwindToHandler
  PROVE  IInv'
<1>1. PICK L \in Nat : L = Len(frames) /\ L >= 1 /\ L \in 1 .. L
  BY StateFacts DEF UnwindToHandler
<1>2. Top \in Frame /\ DelegateOK(Top) /\ Top.blocks \in 0 .. MaxBlocks /\ MaxBlocks \in Nat
      /\ Top = frames[L]
  <2>1. Top \in Frame /\ DelegateOK(Top) /\ Top = frames[L]
    BY <1>1, StateFacts DEF Top
  <2>. QED  BY <2>1, BoundsAreNaturals DEF Frame
<1>3. /\ yielding = Nobody /\ reg.outcome \in {"none", "propagated"} /\ rethrow \in BOOLEAN
      /\ exc \in Exceptions \cup {NoExc}
      /\ reg.outcome # "none" => calls # <<>> /\ Len(frames) = reg.boundary
  BY RaisingFacts DEF UnwindToHandler
<1>4. PICK k \in 0 .. MaxBlocks : k = Top.blocks - 1
  BY <1>2 DEF UnwindToHandler
<1>5. PICK d : d = IF Top.at = "yieldfrom" THEN Nobody ELSE Top.delegate
  OBVIOUS
<1>6. d = Nobody
  BY <1>2, <1>5 DEF DelegateOK
<1>7. PICK f : f = [Top EXCEPT !.blocks = k, !.at = "handler", !.active = exc, !.delegate = d]
  OBVIOUS
<1>8. f \in Frame /\ f.owner = Top.owner /\ DelegateOK(f) /\ f.delegate = Nobody
  BY <1>2, <1>3, <1>6, <1>7 DEF Frame, DelegateOK
<1>9. frames' = WithTop(f) /\ exc' = NoExc /\ UNCHANGED <<suspended, gen, reg, calls, rethrow, yielding>>
  BY <1>4, <1>5, <1>7 DEF UnwindToHandler
<1>10. InPlace(frames') /\ frames'[Len(frames)] = f
  BY <1>1, <1>8, <1>9, WithTopInPlace
<1>11. OutcomeInv(frames', calls, reg, exc', rethrow', yielding')
  BY <1>3, <1>9, <1>10 DEF OutcomeInv, InPlace
<1>12. ASSUME Len(calls) > 0, Expected(frames', calls, reg, yielding', Len(calls))
       PROVE  /\ Expected(frames, calls, reg, yielding, Len(calls))
              /\ frames'[reg.boundary].at = frames[reg.boundary].at
  <2>1. reg.boundary < L
    BY <1>1, <1>3, <1>9, <1>10, <1>12, StateFacts DEF Expected, InPlace
  <2>2. reg.boundary \in 1 .. L /\ reg.boundary # L
    BY <1>12, <2>1, StateFacts
  <2>. QED  BY <1>1, <1>10, <2>1, <2>2 DEF Expected, InPlace
<1>. QED  BY <1>1, <1>3, <1>8, <1>9, <1>10, <1>11, <1>12, StateFacts, InPlaceInv

(* The frame that resumed a generator has no handler. *)
LEMMA UnwindToBoundaryInv ==
  ASSUME IInv, UnwindToBoundary
  PROVE  IInv'
<1>1. Len(frames) >= 1 /\ Len(calls) > 0 /\ Len(frames) = reg.boundary /\ calls # <<>>
  BY StateFacts DEF UnwindToBoundary, AtBoundary
<1>2. /\ yielding = Nobody /\ rethrow \in BOOLEAN /\ exc \in Exceptions \cup {NoExc}
  BY RaisingFacts DEF UnwindToBoundary
<1>3. /\ reg' \in Registers /\ reg'.target = reg.target /\ reg'.boundary = reg.boundary
      /\ reg'.outcome = "propagated"
  BY <1>2, StateFacts DEF UnwindToBoundary, Registers
<1>4. UNCHANGED <<frames, suspended, gen, calls, rethrow, yielding>> /\ exc' = NoExc
  BY DEF UnwindToBoundary
<1>5. OutcomeInv(frames', calls, reg', exc', rethrow', yielding')
  BY <1>1, <1>2, <1>3, <1>4 DEF OutcomeInv
<1>6. /\ Expected(frames', calls, reg', yielding', Len(calls)) =>
           Expected(frames, calls, reg, yielding, Len(calls))
      /\ frames'[reg.boundary].at = frames[reg.boundary].at
  BY <1>3, <1>4 DEF Expected
<1>. QED  BY <1>1, <1>2, <1>3, <1>4, <1>5, <1>6, FramesInPlace, InPlaceInv

(* propagate_pending_generator_exception, after YIELD_FROM raised. *)
LEMMA RethrowInv ==
  ASSUME IInv, Rethrow
  PROVE  IInv'
<1>1. /\ yielding = Nobody /\ reg.outcome \in {"none", "propagated"} /\ reg.pending \in Exceptions \cup {NoExc}
      /\ reg.outcome # "none" => calls # <<>> /\ Len(frames) = reg.boundary
  BY RaisingFacts DEF Rethrow
<1>2. /\ reg' \in Registers /\ reg'.target = reg.target /\ reg'.boundary = reg.boundary
      /\ reg'.outcome = reg.outcome
  BY StateFacts DEF Rethrow, Registers
<1>3. UNCHANGED <<frames, suspended, gen, calls, yielding>> /\ exc' = reg.pending /\ rethrow' = FALSE
  BY DEF Rethrow
<1>4. OutcomeInv(frames', calls, reg', exc', rethrow', yielding')
  BY <1>1, <1>2, <1>3 DEF OutcomeInv
<1>5. /\ Expected(frames', calls, reg', yielding', Len(calls)) =>
           Expected(frames, calls, reg, yielding, Len(calls))
      /\ frames'[reg.boundary].at = frames[reg.boundary].at
  BY <1>2, <1>3 DEF Expected
<1>. QED  BY <1>1, <1>2, <1>3, <1>4, <1>5, FramesInPlace, InPlaceInv

(* A value is on its way: inside a resume, for the frame on top if there is *)
(* one above the boundary, and otherwise for the call.                      *)
LEMMA YieldingFacts ==
  ASSUME IInv, yielding # Nobody
  PROVE  /\ exc = NoExc /\ rethrow = FALSE /\ reg.outcome = "none" /\ Len(calls) > 0 /\ calls # <<>>
         /\ Len(frames) >= 1 /\ Top \in Frame /\ DelegateOK(Top) /\ yielding \in Gens
         /\ reg.boundary < Len(frames) => Top.delegate = yielding
         /\ reg.boundary = Len(frames) => reg.target = yielding /\ Top.delegate = Nobody
<1>1. rethrow \in BOOLEAN /\ yielding \in Gens
  BY DEF IInv, TypesInv, TypeOK
<1>2. OutcomeInv(frames, calls, reg, exc, rethrow, yielding)
  BY DEF IInv
<1>3. /\ exc = NoExc /\ rethrow = FALSE /\ reg.outcome = "none" /\ calls # <<>> /\ Len(calls) > 0
  BY <1>1, <1>2, StateFacts DEF OutcomeInv
<1>4. Len(frames) >= 1 /\ Len(frames) \in 1 .. Len(frames)
  BY <1>3, StateFacts
<1>5. Top \in Frame /\ DelegateOK(Top)
  BY <1>4, StateFacts DEF Top
<1>6. /\ reg.boundary < Len(frames) => Top.delegate = yielding
      /\ reg.boundary = Len(frames) => reg.target = yielding /\ Top.delegate = Nobody
  BY <1>2, <1>3, StateFacts DEF OutcomeInv, Top
<1>. QED  BY <1>1, <1>3, <1>4, <1>5, <1>6

(* The value reaches the resume it answers. *)
LEMMA YieldOutInv ==
  ASSUME IInv, YieldOut
  PROVE  IInv'
<1>1. yielding # Nobody /\ Top.delegate # yielding
  BY DEF YieldOut
<1>2. /\ exc = NoExc /\ rethrow = FALSE /\ calls # <<>> /\ Len(calls) > 0
      /\ Len(frames) = reg.boundary /\ reg.target = yielding
  BY <1>1, YieldingFacts, StateFacts
<1>3. UNCHANGED <<frames, suspended, gen, calls, exc, rethrow>> /\ yielding' = Nobody
      /\ reg' = [reg EXCEPT !.outcome = "yield"]
  BY <1>2 DEF YieldOut, HandOver
<1>4. /\ reg' \in Registers /\ reg'.target = reg.target /\ reg'.boundary = reg.boundary
      /\ reg'.outcome = "yield"
  BY <1>3, StateFacts DEF Registers
<1>5. OutcomeInv(frames', calls, reg', exc', rethrow', yielding')
  BY <1>2, <1>3, <1>4 DEF OutcomeInv
<1>6. /\ Expected(frames, calls, reg, yielding, Len(calls))
      /\ frames'[reg.boundary].at = frames[reg.boundary].at
  BY <1>1, <1>3 DEF Expected
<1>. QED  BY <1>2, <1>3, <1>4, <1>5, <1>6, FramesInPlace, InPlaceInv

-----------------------------------------------------------------------------
(* Frames that leave the stack *)

\* ft is the stack without its top frame.
Dropped(ft) ==
  /\ ft \in Seq(Frame) /\ Len(ft) = Len(frames) - 1
  /\ Agree(frames, ft, Len(frames) - 1)

(* Below is that stack, also with a stray value on its top frame. *)
LEMMA BelowDropped ==
  ASSUME IInv, Len(frames) >= 1
  PROVE  /\ Dropped(Below)
         /\ Len(frames) >= 2 => Dropped([Below EXCEPT ![Len(Below)].stray = TRUE])
<1>1. PICK L \in Nat : L = Len(frames) /\ L >= 1
  BY StateFacts
<1>2. PICK ft : ft = Below
  OBVIOUS
<1>3. ft \in Seq(Frame) /\ Len(ft) = L - 1 /\ \A p \in 1 .. (L - 1) : ft[p] = frames[p]
  <2>1. L - 1 \in 0 .. Len(frames) /\ frames \in Seq(Frame)
    BY <1>1, StateFacts
  <2>. QED  BY <1>1, <1>2, <2>1, PrefixProperties DEF Below
<1>4. Dropped(ft)
  BY <1>1, <1>3 DEF Dropped, Agree
<1>5. ASSUME L >= 2 PROVE Dropped([ft EXCEPT ![L - 1].stray = TRUE])
  <2>1. L - 1 \in 1 .. Len(ft) /\ L - 1 \in 1 .. (L - 1)
    BY <1>3, <1>5
  <2>2. ft[L - 1] \in Frame
    BY <1>3, <2>1
  <2>3. PICK f : f = [ft[L - 1] EXCEPT !.stray = TRUE]
    OBVIOUS
  <2>4. /\ f \in Frame /\ f.owner = ft[L - 1].owner /\ f.at = ft[L - 1].at
        /\ f.delegate = ft[L - 1].delegate
    BY <2>2, <2>3 DEF Frame
  <2>5. PICK fu : fu = [ft EXCEPT ![L - 1] = f]
    OBVIOUS
  <2>6. fu = [ft EXCEPT ![L - 1].stray = TRUE]
    BY <2>3, <2>5
  <2>7. fu \in Seq(Frame) /\ Len(fu) = L - 1 /\ fu[L - 1] = f /\ \A p \in 1 .. (L - 1) : p # L - 1 => fu[p] = ft[p]
    BY <1>3, <2>1, <2>4, <2>5
  <2>8. Dropped(fu)
    BY SMTT(60), <1>1, <1>3, <2>4, <2>7 DEF Dropped, Agree
  <2>. QED  BY <2>6, <2>8
<1>. QED  BY SMTT(60), <1>1, <1>2, <1>3, <1>4, <1>5

(* Who is on the stack after that, and who is next. *)
LEMMA DroppedFacts ==
  ASSUME IInv, Len(frames) >= 1, NEW ft, Dropped(ft), Len(calls) > 0 => reg.boundary < Len(frames)
  PROVE  /\ ShapeInv(ft, calls, reg)
         /\ \A g : Owns(ft, g) <=> Owns(frames, g) /\ g # Top.owner
         /\ Len(calls) > 0 => (reg.boundary = Len(ft) <=> Top.owner = reg.target)
         /\ Len(calls) > 0 /\ reg.boundary < Len(ft) => ft[Len(ft)].delegate = Top.owner
         /\ Len(calls) > 0 => reg.boundary <= Len(ft)
<1>1. PICK L \in Nat : L = Len(frames) /\ L >= 1
  BY StateFacts
<1>2. RegsInv(calls, reg) /\ ShapeInv(frames, calls, reg) /\ calls \in Seq(Call) /\ reg \in Registers
  BY StateFacts DEF IInv
<1>3. Len(ft) = L - 1 /\ Agree(frames, ft, L - 1)
  BY <1>1 DEF Dropped
<1>4. /\ ShapeInv(ft, calls, reg)
      /\ \A g : Owns(ft, g) <=> Owns(frames, g) /\ g # frames[L].owner
      /\ Len(calls) > 0 => (reg.boundary = L - 1 <=> frames[L].owner = reg.target)
      /\ Len(calls) > 0 /\ reg.boundary < L - 1 => frames[L - 1].delegate = frames[L].owner
  <2>1. Len(frames) = L /\ (Len(calls) > 0 => reg.boundary < L)
    BY <1>1
  <2>. QED  BY <1>1, <1>2, <1>3, <2>1, StackPopped
<1>5. Top = frames[L]
  BY <1>1 DEF Top
<1>6. Len(calls) > 0 => reg.boundary <= L - 1
  BY <1>1, StateFacts
<1>7. Len(calls) > 0 /\ reg.boundary < L - 1 => ft[L - 1].delegate = frames[L - 1].delegate
  <2>. HAVE Len(calls) > 0 /\ reg.boundary < L - 1
  <2>1. L - 1 \in 1 .. (L - 1)
    BY StateFacts
  <2>. QED  BY <1>3, <2>1 DEF Agree
<1>. QED  BY <1>3, <1>4, <1>5, <1>6, <1>7

(* What a step that takes the top frame off has to keep. *)
LEMMA DroppedInv ==
  ASSUME IInv, Len(frames) >= 1, Dropped(frames'), Len(calls) > 0 => reg.boundary < Len(frames),
         GenTypes(suspended', gen'), GensInv(frames', suspended', gen'), calls' = calls,
         reg' \in Registers, reg'.target = reg.target, reg'.boundary = reg.boundary,
         exc' \in Exceptions \cup {NoExc}, rethrow' \in BOOLEAN, yielding' \in Gens \cup {Nobody},
         OutcomeInv(frames', calls, reg', exc', rethrow', yielding')
  PROVE  IInv'
<1>1. PICK L \in Nat : L = Len(frames) /\ L >= 1
  BY StateFacts
<1>2. RegsInv(calls, reg) /\ ShapeInv(frames, calls, reg) /\ DelegatesInv(frames, calls, reg, yielding)
  BY DEF IInv
<1>3. TypesInv'
  BY StateFacts, TypesKept DEF Dropped
<1>4. ShapeInv(frames', calls, reg)
  BY DroppedFacts
<1>5. RegsInv(calls, reg') /\ ShapeInv(frames', calls, reg')
  BY <1>2, <1>4, StateFacts, RegsKept
<1>6. DelegatesInv(frames', calls, reg', yielding')
  <2>1. CASE Len(calls) > 0
    <3>1. \A p \in 1 .. reg.boundary : p \in 1 .. (L - 1)
      BY <1>1, <2>1, StateFacts
    <3>2. \A p \in 1 .. reg.boundary : frames'[p].at = frames[p].at
      BY <1>1, <3>1 DEF Dropped, Agree
    <3>3. reg.boundary \in 1 .. reg.boundary
      BY <2>1, StateFacts
    <3>4. Expected(frames, calls, reg, yielding, Len(calls))
      BY <2>1 DEF Expected
    <3>. QED  BY <1>2, <3>2, <3>3, <3>4, StateFacts, DelegatesKept
  <2>2. CASE Len(calls) = 0
    BY <2>2 DEF DelegatesInv
  <2>3. Len(calls) \in Nat
    BY StateFacts
  <2>. QED  BY <2>1, <2>2, <2>3
<1>. QED  BY SMTT(60), <1>3, <1>5, <1>6 DEF IInv

(* A generator's frame goes back to generator_states. *)
LEMMA SuspendInv ==
  ASSUME IInv, Len(frames) >= 1, Dropped(frames'), Len(calls) > 0, reg.boundary < Len(frames),
         NEW f \in Frame, f.owner = Top.owner, f.owner \in Gens, DelegateOK(f),
         suspended' = With(f), gen' = Idle(f.owner), calls' = calls,
         reg' \in Registers, reg'.target = reg.target, reg'.boundary = reg.boundary,
         exc' \in Exceptions \cup {NoExc}, rethrow' \in BOOLEAN, yielding' \in Gens \cup {Nobody},
         OutcomeInv(frames', calls, reg', exc', rethrow', yielding')
  PROVE  IInv'
<1>1. \A g : Owns(frames', g) <=> Owns(frames, g) /\ g # f.owner
  BY DroppedFacts
<1>2. GensInv(frames', suspended', gen') /\ GenTypes(suspended', gen')
  BY <1>1, GenTypesNow, GensSuspended
<1>. QED  BY <1>2, DroppedInv

(* The value of a generator that has just been suspended is for the frame *)
(* that is on top now, or for the resume.                                 *)
LEMMA HandedDown ==
  ASSUME IInv, Len(frames) >= 1, NEW ft, Dropped(ft), Len(calls) > 0, reg.boundary < Len(frames),
         reg.outcome = "none"
  PROVE  /\ OutcomeInv(ft, calls, reg, NoExc, FALSE, Top.owner)
         /\ \A e : OutcomeInv(ft, calls, reg, e, FALSE, Nobody)
<1>1. /\ reg.boundary = Len(ft) => Top.owner = reg.target
      /\ reg.boundary < Len(ft) => ft[Len(ft)].delegate = Top.owner
      /\ calls # <<>>
  BY DroppedFacts, StateFacts
<1>2. Len(ft) \in Nat /\ reg.boundary \in Nat
  BY StateFacts DEF Dropped
<1>. QED  BY <1>1, <1>2 DEF OutcomeInv

(* YIELD_VALUE *)
LEMMA YieldValueInv ==
  ASSUME IInv, YieldValue
  PROVE  IInv'
<1>1. Running /\ Top.owner \in Gens
  BY DEF YieldValue, Executing
<1>2. /\ Len(frames) >= 1 /\ Top \in Frame /\ DelegateOK(Top) /\ Len(calls) > 0
      /\ reg.boundary < Len(frames) /\ reg.outcome = "none" /\ exc = NoExc /\ rethrow = FALSE
      /\ yielding = Nobody
  BY <1>1, RunningFacts
<1>3. PICK f : f = [Top EXCEPT !.awaiting = TRUE, !.thrown = NoExc, !.sent = FALSE, !.kind = "unset"]
  OBVIOUS
<1>4. f \in Frame /\ f.owner = Top.owner /\ DelegateOK(f)
  BY <1>2, <1>3 DEF Frame, DelegateOK
<1>5. Dropped(frames') /\ suspended' = With(f) /\ gen' = Idle(f.owner)
  BY <1>2, <1>3, BelowDropped DEF YieldValue, Suspend
<1>6. UNCHANGED <<reg, calls, rethrow>>
  BY DEF YieldValue
<1>7. \/ exc' = Error /\ yielding' = Nobody
      \/ exc' = NoExc /\ yielding' = Top.owner
  BY <1>2 DEF YieldValue
<1>8. OutcomeInv(frames', calls, reg', exc', rethrow', yielding')
  BY <1>2, <1>5, <1>6, <1>7, HandedDown
<1>9. /\ exc' \in Exceptions \cup {NoExc} /\ yielding' \in Gens \cup {Nobody} /\ rethrow' \in BOOLEAN
      /\ reg' \in Registers
  BY <1>1, <1>2, <1>6, <1>7, StateFacts DEF Exceptions
<1>. QED  BY <1>1, <1>2, <1>4, <1>5, <1>6, <1>8, <1>9, SuspendInv

(* The loop of YIELD_VALUE takes down a frame that delegates. *)
LEMMA YieldThroughInv ==
  ASSUME IInv, YieldThrough
  PROVE  IInv'
<1>1. yielding # Nobody /\ Top.delegate = yielding /\ Top.owner \in Gens
  BY DEF YieldThrough
<1>2. /\ Len(frames) >= 1 /\ Top \in Frame /\ DelegateOK(Top) /\ Len(calls) > 0
      /\ reg.boundary < Len(frames) /\ reg.outcome = "none" /\ exc = NoExc /\ rethrow = FALSE
  BY <1>1, YieldingFacts, StateFacts
<1>3. PICK f : f = [Top EXCEPT !.awaiting = FALSE, !.thrown = NoExc, !.sent = FALSE, !.kind = "unset"]
  OBVIOUS
<1>4. f \in Frame /\ f.owner = Top.owner /\ DelegateOK(f)
  BY <1>2, <1>3 DEF Frame, DelegateOK
<1>5. Dropped(frames') /\ suspended' = With(f) /\ gen' = Idle(f.owner)
  BY <1>2, <1>3, BelowDropped DEF YieldThrough, Suspend
<1>6. UNCHANGED <<reg, calls, rethrow>>
  BY DEF YieldThrough
<1>7. \/ exc' = Error /\ yielding' = Nobody
      \/ exc' = NoExc /\ yielding' = Top.owner
  BY <1>2 DEF YieldThrough
<1>8. OutcomeInv(frames', calls, reg', exc', rethrow', yielding')
  BY <1>2, <1>5, <1>6, <1>7, HandedDown
<1>9. /\ exc' \in Exceptions \cup {NoExc} /\ yielding' \in Gens \cup {Nobody} /\ rethrow' \in BOOLEAN
      /\ reg' \in Registers
  BY <1>1, <1>2, <1>6, <1>7, StateFacts DEF Exceptions
<1>. QED  BY <1>1, <1>2, <1>4, <1>5, <1>6, <1>8, <1>9, SuspendInv

(* A frame is dropped: its generator is closed, and the resume it belongs to *)
(* has its outcome.                                                          *)
LEMMA FinishInv ==
  ASSUME IInv, Len(frames) >= 1, Len(calls) > 0 => reg.boundary < Len(frames),
         reg.outcome = "none", yielding = Nobody, UNCHANGED <<calls, rethrow, yielding>>,
         frames' = Below, NEW o \in {"complete", "propagated"},
         IF Top.owner \in Gens
           THEN /\ suspended' = Without(Top.owner)
                /\ gen' = Closed(Top.owner)
                /\ reg' = IF reg.target = Top.owner THEN [reg EXCEPT !.outcome = o] ELSE reg
           ELSE UNCHANGED <<suspended, gen, reg>>,
         exc' \in Exceptions \cup {NoExc}, o = "complete" => exc' = NoExc /\ rethrow = FALSE
  PROVE  IInv'
<1>1. Dropped(frames')
  BY BelowDropped
<1>2. /\ \A g : Owns(frames', g) <=> Owns(frames, g) /\ g # Top.owner
      /\ Len(calls) > 0 => (reg.boundary = Len(frames') <=> Top.owner = reg.target)
  BY <1>1, DroppedFacts
<1>3. rethrow' \in BOOLEAN /\ yielding' \in Gens \cup {Nobody}
  BY DEF IInv, TypesInv, TypeOK
<1>4. reg' \in Registers /\ reg'.target = reg.target /\ reg'.boundary = reg.boundary
      /\ reg'.outcome \in {"none", o}
  <2>1. reg \in Registers
    BY StateFacts
  <2>2. reg' = [reg EXCEPT !.outcome = o] \/ reg' = reg
    OBVIOUS
  <2>. QED  BY <2>1, <2>2 DEF Registers
<1>5. reg'.outcome # "none" => calls # <<>> /\ Len(frames') = reg.boundary
  <2>. HAVE reg'.outcome # "none"
  <2>1. reg.target = Top.owner /\ Top.owner \in Gens
    OBVIOUS
  <2>2. Len(calls) > 0
    BY <2>1, StateFacts, OwnersDistinct
  <2>. QED  BY <1>2, <2>1, <2>2, StateFacts
<1>6. OutcomeInv(frames', calls, reg', exc', rethrow', yielding')
  BY <1>4, <1>5 DEF OutcomeInv
<1>7. GensInv(frames', suspended', gen') /\ GenTypes(suspended', gen')
  <2>1. CASE Top.owner \in Gens
    BY <1>2, <2>1, GenTypesNow, GensDropped
  <2>2. CASE Top.owner \notin Gens
    <3>1. Len(frames) \in 1 .. Len(frames)
      BY StateFacts
    <3>2. Top.owner = Main
      BY <2>2, <3>1, StateFacts DEF Top, Frame
    <3>. QED  BY <1>2, <2>2, <3>2, GenTypesNow, GensWithoutMain
  <2>. QED  BY <2>1, <2>2
<1>. QED  BY <1>1, <1>3, <1>4, <1>6, <1>7, DroppedInv

(* unwind_exception_internal drops a frame. *)
LEMMA UnwindFrameInv ==
  ASSUME IInv, UnwindFrame
  PROVE  IInv'
<1>1. Len(frames) >= 1 /\ (Len(calls) > 0 => reg.boundary < Len(frames))
  BY StateFacts DEF UnwindFrame, AtBoundary
<1>2. /\ yielding = Nobody /\ exc \in Exceptions \cup {NoExc}
      /\ reg.outcome # "none" => calls # <<>> /\ Len(frames) = reg.boundary
  BY RaisingFacts DEF UnwindFrame
<1>3. reg.outcome = "none"
  BY <1>1, <1>2, StateFacts
<1>4. exc' \in Exceptions \cup {NoExc}
  BY <1>2 DEF UnwindFrame
<1>. QED  BY <1>1, <1>2, <1>3, <1>4, FinishInv DEF UnwindFrame

(* RETURN_VALUE *)
LEMMA ReturnValueInv ==
  ASSUME IInv, ReturnValue
  PROVE  IInv'
<1>1. Running
  BY DEF ReturnValue, Executing
<1>2. UNCHANGED <<calls, rethrow, yielding>> /\ exc' = exc
  BY DEF ReturnValue, transit
<1>. QED  BY <1>1, <1>2, RunningFacts, FinishInv DEF ReturnValue

-----------------------------------------------------------------------------
(* Frames that enter the stack *)

\* No resume meets the recursion limit.
BelowLimit == Len(frames) < RecursionLimit

(* A generator that is not refused has its frame in generator_states. *)
LEMMA ResumedFacts ==
  ASSUME IInv, NEW g \in Gens, ~gen[g].running, g \in DOMAIN suspended,
         NEW sent \in BOOLEAN, NEW thrown \in Exceptions \cup {NoExc},
         NEW kind \in {"unset", "next", "throw", "close"}
  PROVE  /\ Resumed(g, sent, thrown, kind) \in Frame
         /\ Resumed(g, sent, thrown, kind).owner = g
         /\ DelegateOK(Resumed(g, sent, thrown, kind))
         /\ ~Owns(frames, g)
<1>1. suspended[g] \in Frame
  BY DEF IInv, TypesInv, TypeOK
<1>2. suspended[g].owner = g /\ DelegateOK(suspended[g]) /\ ~Owns(frames, g)
  BY DEF IInv, GensInv
<1>. QED  BY ZenonT(60), <1>1, <1>2 DEF Resumed, Frame, DelegateOK

(* The parts of a stack that another one begins with. *)
LEMMA AppendBegins ==
  ASSUME NEW S, NEW s \in Seq(S), NEW x \in S
  PROVE  /\ Append(s, x) \in Seq(S) /\ Len(Append(s, x)) = Len(s) + 1
         /\ Append(s, x)[Len(s) + 1] = x /\ Begins(s, Append(s, x), Len(s))
BY AppendProperties DEF Begins

(* resume_generator up to its nested run. *)
LEMMA ResumeInv ==
  ASSUME IInv, Running, BelowLimit, NEW g \in Gens, ~gen[g].running, g \in DOMAIN suspended,
         NEW fs, InPlace(fs), fs[Len(frames)].delegate = Nobody,
         NEW sent \in BOOLEAN, NEW thrown \in Exceptions \cup {NoExc},
         NEW kind \in {"unset", "next", "throw", "close"},
         NEW how \in Methods \cup {"close", "delegate"}, NEW k \in {"unset", "next", "throw", "close"},
         NEW t \in Exceptions \cup {NoExc},
         how = "delegate" => Top.owner \in Gens /\ fs[Len(frames)].at = "yieldfrom",
         Resume(g, fs, sent, thrown, kind, CallRecord(g, how, k, t)),
         UNCHANGED <<rethrow, yielding>>
  PROVE  IInv'
<1>1. PICK L \in Nat : L = Len(frames) /\ L >= 1
  BY StateFacts, RunningFacts
<1>2. PICK n \in Nat : n = Len(calls)
  BY StateFacts
<1>3. reg.boundary < L
  <2>1. n = 0 \/ n > 0
    OBVIOUS
  <2>. QED  BY <1>1, <1>2, <2>1, RunningFacts, StateFacts
<1>4. PICK f \in Frame : /\ f = Resumed(g, sent, thrown, kind) /\ f.owner = g /\ DelegateOK(f)
                         /\ ~Owns(frames, g)
  BY ResumedFacts
<1>5. PICK c : c = CallRecord(g, how, k, t)
  OBVIOUS
<1>6. c \in Call /\ c.gen = g /\ c.how = how /\ c.saved = reg
  BY <1>5, StateFacts DEF CallRecord, Call
<1>7. PICK q : q = [target |-> g, boundary |-> L, outcome |-> "none", pending |-> NoExc]
  OBVIOUS
<1>8. q \in Registers /\ q.target = g /\ q.boundary = L /\ q.outcome = "none"
  BY <1>7 DEF Registers
<1>9. Len(fs) = L /\ fs \in Seq(Frame)
  BY <1>1 DEF InPlace
<1>10. /\ suspended' = Without(g) /\ gen' = Started(g) /\ reg' = q
       /\ frames' = Append(fs, f) /\ calls' = Append(calls, c) /\ exc' = exc
  BY <1>1, <1>4, <1>5, <1>7, <1>9, BoundsAreNaturals DEF Resume, BelowLimit
<1>11. RegsInv(calls, reg) /\ ShapeInv(frames, calls, reg)
  BY DEF IInv
<1>12. ShapeInv(fs, calls, reg) /\ \A x : Owns(fs, x) <=> Owns(frames, x)
  BY <1>1, <1>3, <1>11, StateFacts, StackChanged DEF InPlace
<1>13. /\ frames' \in Seq(Frame) /\ Len(frames') = L + 1 /\ frames'[L + 1] = f /\ Begins(fs, frames', L)
  BY <1>9, <1>10, AppendBegins
<1>14. /\ calls' \in Seq(Call) /\ Len(calls') = n + 1 /\ calls'[n + 1] = c /\ Begins(calls, calls', n)
  BY <1>2, <1>6, <1>10, StateFacts, AppendBegins
<1>15. reg.outcome = "none" /\ yielding' = Nobody /\ rethrow' = FALSE /\ exc' = NoExc
  BY <1>10, RunningFacts
<1>16. how = "delegate" => L >= 2
  BY <1>1, RunningFacts
<1>17. /\ RegsInv(calls', q) /\ ShapeInv(frames', calls', q)
       /\ \A x : Owns(frames', x) <=> Owns(fs, x) \/ x = f.owner
       /\ \A i \in 0 .. n : Bound(calls', q, i) = Bound(calls, reg, i)
       /\ Bound(calls', q, n + 1) = L
  <2>1. PICK ft, ds, cs, r : ft = frames' /\ ds = calls' /\ cs = calls /\ r = reg
    OBVIOUS
  <2>2. /\ cs \in Seq(Call) /\ r \in Registers /\ RegsInv(cs, r) /\ ds \in Seq(Call) /\ q \in Registers
        /\ Len(cs) = n /\ Len(ds) = n + 1 /\ Begins(cs, ds, n) /\ Len(fs) = L /\ Len(ft) = L + 1
        /\ ShapeInv(fs, cs, r) /\ Begins(fs, ft, L) /\ r.boundary < L /\ r.outcome = "none"
    BY <1>2, <1>3, <1>8, <1>9, <1>11, <1>12, <1>13, <1>14, <1>15, <2>1, StateFacts
  <2>3. /\ ds[n + 1].saved = r /\ q.boundary = L /\ q.target = ds[n + 1].gen
        /\ ds[n + 1].how = "delegate" => L >= 2
        /\ ft[L + 1].owner = ds[n + 1].gen /\ ~Owns(fs, ft[L + 1].owner) /\ DelegateOK(ft[L + 1])
        /\ fs[L].delegate = Nobody /\ ft[L + 1] = f
    BY <1>1, <1>4, <1>6, <1>8, <1>12, <1>13, <1>14, <1>16, <2>1
  <2>4. /\ RegsInv(ds, q) /\ ShapeInv(ft, ds, q)
        /\ \A x : Owns(ft, x) <=> Owns(fs, x) \/ x = ft[L + 1].owner
        /\ \A i \in 0 .. n : Bound(ds, q, i) = Bound(cs, r, i)
        /\ Bound(ds, q, n + 1) = L
    BY <1>1, <2>2, <2>3, StackResumed
  <2>. QED  BY <2>1, <2>3, <2>4
<1>18. GensInv(frames', suspended', gen') /\ GenTypes(suspended', gen')
  BY <1>4, <1>10, <1>12, <1>17, GenTypesNow, GensStarted
<1>19. TypesInv'
  BY <1>8, <1>10, <1>13, <1>14, <1>15, <1>18, TypesKept
<1>20. OutcomeInv(frames', calls', reg', exc', rethrow', yielding')
  BY <1>8, <1>10, <1>15 DEF OutcomeInv
<1>21. DelegatesInv(frames', calls', reg', yielding')
  <2>. SUFFICES ASSUME NEW i \in 1 .. (n + 1), calls'[i].how = "delegate"
                PROVE  frames'[Bound(calls', q, i)].at = "yieldfrom"
    BY <1>10, <1>14 DEF DelegatesInv
  <2>1. CASE i = n + 1
    <3>1. frames'[L] = fs[L]
      BY <1>1, <1>13 DEF Begins
    <3>. QED  BY <1>1, <1>6, <1>14, <1>17, <2>1, <3>1
  <2>2. CASE i # n + 1
    <3>1. i \in 1 .. n /\ i \in 0 .. n
      BY <2>2
    <3>2. calls[i].how = "delegate"
      BY <1>14, <3>1 DEF Begins
    <3>3. Expected(frames, calls, reg, yielding, i)
      BY <1>1, <1>3 DEF Expected
    <3>4. frames[Bound(calls, reg, i)].at = "yieldfrom"
      BY <1>2, <3>1, <3>2, <3>3 DEF IInv, DelegatesInv
    <3>5. PICK b \in Nat : b = Bound(calls, reg, i) /\ b \in 1 .. L /\ b # L
      <4>1. Bound(calls, reg, i) \in Nat /\ Bound(calls, reg, i) >= 1 /\ Bound(calls, reg, i) <= reg.boundary
        BY <1>2, <1>11, <3>1, StateFacts, RegsFacts
      <4>. QED  BY <1>3, <4>1, StateFacts
    <3>6. frames'[b] = fs[b] /\ fs[b].at = frames[b].at
      BY <1>1, <1>13, <3>5 DEF Begins, InPlace
    <3>. QED  BY <1>17, <3>1, <3>4, <3>5, <3>6
  <2>. QED  BY <2>1, <2>2
<1>. QED  BY <1>10, <1>17, <1>18, <1>19, <1>20, <1>21 DEF IInv

(* A resume that is neither refused nor answered at once. *)
LEMMA NotRefused ==
  ASSUME NEW g, NEW sent, NEW thrown, ~Refused(g, sent, thrown), ~gen[g].closed
  PROVE  ~gen[g].running /\ g \in DOMAIN suspended
BY DEF Refused

(* __next__, send, throw and the step of a for loop. *)
LEMMA CallMethodInv ==
  ASSUME IInv, BelowLimit, NEW g \in Gens, NEW how \in Methods, NEW e \in Exceptions \cup {NoExc},
         CallMethod(g, how, e)
  PROVE  IInv'
<1>1. Running /\ Executing /\ UNCHANGED <<rethrow, yielding>>
  BY DEF CallMethod, Executing
<1>2. PICK sent \in BOOLEAN, thrown \in Exceptions \cup {NoExc}, kind \in {"unset", "next", "throw", "close"} :
        /\ sent = (how = "send") /\ thrown = (IF how = "throw" THEN e ELSE NoExc)
        /\ kind = (IF how = "throw" THEN "throw" ELSE "next")
  OBVIOUS
<1>3. \/ /\ exc' \in {Error, NoExc} /\ UNCHANGED <<frames, suspended, gen, reg, calls>>
      \/ /\ ~Refused(g, sent, thrown) /\ ~gen[g].closed
         /\ Resume(g, frames, sent, thrown, kind, CallRecord(g, how, "unset", NoExc))
  BY <1>2 DEF CallMethod
<1>4. CASE exc' \in {Error, NoExc} /\ UNCHANGED <<frames, suspended, gen, reg, calls>>
  BY <1>1, <1>4, RaiseInv DEF Exceptions
<1>5. CASE /\ ~Refused(g, sent, thrown) /\ ~gen[g].closed
           /\ Resume(g, frames, sent, thrown, kind, CallRecord(g, how, "unset", NoExc))
  <2>1. ~gen[g].running /\ g \in DOMAIN suspended
    BY <1>5, NotRefused
  <2>2. frames[Len(frames)].delegate = Nobody
    BY <1>1, RunningFacts DEF Executing, DelegateOK, Top
  <2>3. how # "delegate"
    BY DEF Methods
  <2>. QED  BY <1>1, <1>5, <2>1, <2>2, <2>3, FramesInPlace, ResumeInv
<1>. QED  BY <1>3, <1>4, <1>5

(* close *)
LEMMA CallCloseInv ==
  ASSUME IInv, BelowLimit, NEW g \in Gens, CallClose(g)
  PROVE  IInv'
<1>1. Running /\ Executing /\ ~gen[g].closed /\ UNCHANGED <<rethrow, yielding>>
  BY DEF CallClose, Executing
<1>2. CASE Refused(g, FALSE, Exit)
  BY <1>1, <1>2, RaiseInv DEF CallClose, Exceptions
<1>3. CASE ~Refused(g, FALSE, Exit)
  <2>1. ~gen[g].running /\ g \in DOMAIN suspended
    BY <1>1, <1>3, NotRefused
  <2>2. frames[Len(frames)].delegate = Nobody
    BY <1>1, RunningFacts DEF Executing, DelegateOK, Top
  <2>3. Resume(g, frames, FALSE, Exit, "close", CallRecord(g, "close", "unset", NoExc))
    BY <1>3 DEF CallClose
  <2>4. Exit \in Exceptions
    BY DEF Exceptions
  <2>. QED  BY <1>1, <2>1, <2>2, <2>3, <2>4, FramesInPlace, ResumeInv
<1>. QED  BY <1>2, <1>3

-----------------------------------------------------------------------------
(* YIELD_FROM *)

(* What the instruction finds and leaves in its frame. *)
LEMMA TakenFacts ==
  ASSUME IInv, NEW d, YieldingFrom(d)
  PROVE  /\ Running /\ Len(frames) >= 2 /\ Len(calls) > 0 /\ reg.boundary < Len(frames)
         /\ Top \in Frame /\ Top.owner \in Gens /\ Top.thrown \in Exceptions \cup {NoExc}
         /\ Top.sent \in BOOLEAN /\ ResumeKind \in {"unset", "next", "throw", "close"}
         /\ Taken \in Frame /\ Taken.owner = Top.owner /\ Taken.delegate = Nobody
         /\ Taken.at = "yieldfrom" /\ DelegateOK(Taken)
<1>1. Running /\ Top.owner \in Gens
  BY DEF YieldingFrom
<1>2. Top \in Frame /\ Len(frames) >= 2 /\ Len(calls) > 0 /\ reg.boundary < Len(frames)
  BY <1>1, RunningFacts
<1>3. Top.thrown \in Exceptions \cup {NoExc} /\ Top.sent \in BOOLEAN
      /\ Top.kind \in {"unset", "next", "throw", "close"}
  BY <1>2 DEF Frame
<1>4. ResumeKind \in {"unset", "next", "throw", "close"}
  BY <1>3 DEF ResumeKind
<1>5. /\ Taken \in Frame /\ Taken.owner = Top.owner /\ Taken.delegate = Nobody
      /\ Taken.at = "yieldfrom"
  BY <1>2 DEF Taken, Frame
<1>6. DelegateOK(Taken)
  BY <1>5 DEF DelegateOK
<1>. QED  BY <1>1, <1>2, <1>3, <1>4, <1>5, <1>6

(* The delegation is over and the code goes on. *)
LEMMA DelegatedFacts ==
  ASSUME NEW f \in Frame, NEW d
  PROVE  /\ Delegated(f, d) \in Frame /\ Delegated(f, d).owner = f.owner
         /\ DelegateOK(Delegated(f, d)) /\ Delegated(f, d).delegate = Nobody
BY DEF Delegated, Frame, DelegateOK

(* The instruction resumes its delegate in a nested run, or fails, or ends. *)
LEMMA YieldFromResumeInv ==
  ASSUME IInv, BelowLimit, NEW g \in Gens, YieldFromResume(g)
  PROVE  IInv'
<1>1. YieldingFrom(g) /\ yielding' = yielding
  BY DEF YieldFromResume
<1>2. /\ Running /\ Len(frames) >= 1 /\ Top.owner \in Gens /\ Top.thrown \in Exceptions \cup {NoExc}
      /\ Top.sent \in BOOLEAN /\ ResumeKind \in {"unset", "next", "throw", "close"}
      /\ Taken \in Frame /\ Taken.owner = Top.owner /\ Taken.delegate = Nobody
      /\ Taken.at = "yieldfrom" /\ DelegateOK(Taken)
  BY <1>1, TakenFacts, StateFacts
<1>3. PICK closing \in BOOLEAN, sent \in BOOLEAN, kind \in {"unset", "next", "throw", "close"} :
        /\ closing = Closing(ResumeKind, Top.thrown)
        /\ sent = (Top.sent /\ Top.thrown = NoExc)
        /\ kind = IF Top.thrown = NoExc THEN "next" ELSE IF closing THEN "close" ELSE "throw"
  BY <1>2 DEF Closing
<1>4. \/ /\ frames' = WithTop(Taken) /\ exc' = Error /\ UNCHANGED <<suspended, gen, reg, calls, rethrow>>
      \/ /\ frames' = WithTop(IF closing THEN Taken ELSE Delegated(Taken, g))
         /\ exc' = (IF closing THEN Exit ELSE NoExc) /\ rethrow' = closing
         /\ UNCHANGED <<suspended, gen, reg, calls>>
      \/ /\ ~Refused(g, sent, Top.thrown) /\ ~gen[g].closed
         /\ Resume(g, WithTop(Taken), sent, Top.thrown, kind,
                   CallRecord(g, "delegate", ResumeKind, Top.thrown))
         /\ rethrow' = rethrow
  BY <1>3 DEF YieldFromResume
<1>5. CASE frames' = WithTop(Taken) /\ exc' = Error /\ UNCHANGED <<suspended, gen, reg, calls, rethrow>>
  <2>1. InPlace(frames')
    BY <1>2, <1>5, WithTopInPlace
  <2>2. rethrow' \in BOOLEAN /\ exc' \in Exceptions \cup {NoExc}
    BY <1>2, <1>5, RunningFacts DEF Exceptions
  <2>. QED  BY <1>1, <1>2, <1>5, <2>1, <2>2, InstructionInv
<1>6. CASE /\ frames' = WithTop(IF closing THEN Taken ELSE Delegated(Taken, g))
           /\ exc' = (IF closing THEN Exit ELSE NoExc) /\ rethrow' = closing
           /\ UNCHANGED <<suspended, gen, reg, calls>>
  <2>1. PICK f \in Frame : frames' = WithTop(f) /\ f.owner = Top.owner /\ DelegateOK(f)
    BY <1>2, <1>6, DelegatedFacts
  <2>2. InPlace(frames')
    BY <1>2, <2>1, WithTopInPlace
  <2>3. rethrow' \in BOOLEAN /\ exc' \in Exceptions \cup {NoExc}
    BY <1>6 DEF Exceptions
  <2>. QED  BY <1>1, <1>2, <1>6, <2>2, <2>3, InstructionInv
<1>7. CASE /\ ~Refused(g, sent, Top.thrown) /\ ~gen[g].closed
           /\ Resume(g, WithTop(Taken), sent, Top.thrown, kind,
                     CallRecord(g, "delegate", ResumeKind, Top.thrown))
           /\ rethrow' = rethrow
  <2>1. ~gen[g].running /\ g \in DOMAIN suspended
    BY <1>7, NotRefused
  <2>2. InPlace(WithTop(Taken)) /\ WithTop(Taken)[Len(frames)] = Taken
    BY <1>2, WithTopInPlace
  <2>3. PICK fs, t, k, how : fs = WithTop(Taken) /\ t = Top.thrown /\ k = ResumeKind /\ how = "delegate"
    OBVIOUS
  <2>4. /\ InPlace(fs) /\ fs[Len(frames)].delegate = Nobody /\ fs[Len(frames)].at = "yieldfrom"
        /\ t \in Exceptions \cup {NoExc} /\ k \in {"unset", "next", "throw", "close"}
        /\ Resume(g, fs, sent, t, kind, CallRecord(g, how, k, t))
        /\ UNCHANGED <<rethrow, yielding>> /\ how \in Methods \cup {"close", "delegate"}
    BY <1>1, <1>2, <1>7, <2>2, <2>3
  <2>5. Running /\ Top.owner \in Gens
    BY <1>2
  <2>. QED  BY SMTT(60), <2>1, <2>4, <2>5, ResumeInv
<1>. QED  BY <1>4, <1>5, <1>6, <1>7

(* A plain next() goes on in the delegate's frame, on top of this one. *)
LEMMA YieldFromPushInv ==
  ASSUME IInv, BelowLimit, NEW g \in Gens, YieldFromPush(g)
  PROVE  IInv'
<1>1. YieldingFrom(g) /\ UNCHANGED <<reg, calls, rethrow, yielding>>
  BY DEF YieldFromPush
<1>2. /\ Running /\ Len(frames) >= 1 /\ Top.owner \in Gens /\ Len(calls) > 0 /\ reg.boundary < Len(frames)
      /\ Taken \in Frame /\ Taken.owner = Top.owner /\ Taken.at = "yieldfrom" /\ DelegateOK(Taken)
  BY <1>1, TakenFacts, StateFacts
<1>3. CASE gen[g].running \/ g \notin DOMAIN suspended
  <2>1. frames' = WithTop(Taken) /\ exc' = Error /\ UNCHANGED <<suspended, gen>>
    BY <1>3 DEF YieldFromPush
  <2>2. InPlace(frames')
    BY <1>2, <2>1, WithTopInPlace
  <2>3. rethrow' \in BOOLEAN /\ exc' \in Exceptions \cup {NoExc}
    BY <1>1, <1>2, <2>1, RunningFacts DEF Exceptions
  <2>. QED  BY <1>1, <1>2, <2>1, <2>2, <2>3, InstructionInv
<1>4. CASE ~(gen[g].running \/ g \notin DOMAIN suspended)
  <2>1. PICK L \in Nat : L = Len(frames) /\ L >= 1
    BY <1>2, StateFacts
  <2>2. PICK f \in Frame : /\ f = Resumed(g, FALSE, NoExc, "next") /\ f.owner = g /\ DelegateOK(f)
                           /\ ~Owns(frames, g)
    BY <1>4, ResumedFacts
  <2>3. PICK fs : fs = WithTop(Parent(g))
    OBVIOUS
  <2>4. Parent(g) \in Frame /\ Parent(g).owner = Top.owner /\ Parent(g).delegate = g /\ DelegateOK(Parent(g))
    BY <1>2 DEF Parent, Frame, DelegateOK
  <2>5. InPlace(fs) /\ fs[L] = Parent(g)
    BY <1>2, <2>1, <2>3, <2>4, WithTopInPlace
  <2>6. Len(fs) = L /\ fs \in Seq(Frame)
    BY <2>1, <2>5 DEF InPlace
  <2>7. /\ suspended' = Without(g) /\ gen' = Started(g) /\ frames' = Append(fs, f) /\ exc' = exc
    <3>1. ~(Len(frames) >= RecursionLimit)
      BY <2>1, BoundsAreNaturals DEF BelowLimit
    <3>. QED  BY <1>4, <2>2, <2>3, <3>1, Zenon DEF YieldFromPush
  <2>8. RegsInv(calls, reg) /\ ShapeInv(frames, calls, reg) /\ calls \in Seq(Call) /\ reg \in Registers
    BY StateFacts DEF IInv
  <2>9. ShapeInv(fs, calls, reg) /\ \A x : Owns(fs, x) <=> Owns(frames, x)
    <3>1. Len(frames) \in Nat /\ reg.boundary < Len(frames)
      BY <1>2, <2>1
    <3>. QED  BY <2>5, <2>8, <3>1, StackChanged DEF InPlace
  <2>10. /\ frames' \in Seq(Frame) /\ Len(frames') = L + 1 /\ frames'[L + 1] = f /\ Begins(fs, frames', L)
    BY <2>6, <2>7, AppendBegins
  <2>11. /\ ShapeInv(frames', calls, reg)
         /\ \A x : Owns(frames', x) <=> Owns(fs, x) \/ x = g
    <3>1. PICK ft, cs, r : ft = frames' /\ cs = calls /\ r = reg
      OBVIOUS
    <3>2. /\ cs \in Seq(Call) /\ r \in Registers /\ RegsInv(cs, r) /\ ShapeInv(fs, cs, r)
          /\ Len(ft) = L + 1 /\ Begins(fs, ft, L) /\ Len(cs) > 0 /\ r.boundary < L
          /\ ft[L + 1].owner = g /\ DelegateOK(ft[L + 1]) /\ ~Owns(fs, g)
          /\ fs[L].delegate = g
      BY <1>2, <2>1, <2>2, <2>4, <2>5, <2>8, <2>9, <2>10, <3>1
    <3>3. /\ ShapeInv(ft, cs, r)
          /\ \A x : Owns(ft, x) <=> Owns(fs, x) \/ x = ft[L + 1].owner
      BY SMTT(60), <2>1, <2>6, <3>2, StackDelegated
    <3>. QED  BY <3>1, <3>2, <3>3
  <2>12. GensInv(frames', suspended', gen') /\ GenTypes(suspended', gen')
    BY <2>7, <2>9, <2>11, GenTypesNow, GensStarted
  <2>13. exc' = NoExc /\ rethrow' = FALSE /\ yielding = Nobody /\ reg.outcome = "none"
    BY <1>1, <1>2, <2>7, RunningFacts
  <2>14. TypesInv'
    BY <1>1, <2>8, <2>10, <2>12, <2>13, TypesKept
  <2>15. OutcomeInv(frames', calls', reg', exc', rethrow', yielding')
    BY <1>1, <2>13 DEF OutcomeInv
  <2>16. DelegatesInv(frames', calls, reg, yielding)
    <3>1. \A p \in 1 .. reg.boundary : p \in 1 .. L /\ p # L
      BY <1>2, <2>1, StateFacts
    <3>2. \A p \in 1 .. reg.boundary : frames'[p].at = frames[p].at
      BY <2>1, <2>5, <2>10, <3>1 DEF InPlace, Begins
    <3>3. reg.boundary \in 1 .. reg.boundary
      BY <1>2, StateFacts
    <3>4. Expected(frames, calls, reg, yielding, Len(calls))
      BY <1>2 DEF Expected
    <3>5. DelegatesInv(frames, calls, reg, yielding)
      BY DEF IInv
    <3>. QED  BY <2>8, <3>2, <3>3, <3>4, <3>5, DelegatesKept
  <2>. QED  BY <1>1, <2>8, <2>11, <2>12, <2>14, <2>15, <2>16 DEF IInv
<1>. QED  BY <1>3, <1>4

(* The delegate is an iterator. *)
LEMMA YieldFromIteratorInv ==
  ASSUME IInv, NEW d \in Iters, YieldFromIterator(d)
  PROVE  IInv'
<1>1. YieldingFrom(d) /\ UNCHANGED <<calls, yielding>>
  BY DEF YieldFromIterator
<1>2. /\ Running /\ Len(frames) >= 2 /\ Len(calls) > 0 /\ reg.boundary < Len(frames)
      /\ Top.owner \in Gens /\ Top.thrown \in Exceptions \cup {NoExc}
      /\ Taken \in Frame /\ Taken.owner = Top.owner /\ Taken.at = "yieldfrom" /\ DelegateOK(Taken)
  BY <1>1, TakenFacts, StateFacts
<1>3. /\ exc = NoExc /\ rethrow = FALSE /\ yielding = Nobody /\ reg.outcome = "none"
  BY <1>2, RunningFacts
<1>4. Len(frames) >= 1
  BY <1>2, StateFacts
<1>5. CASE /\ frames' = WithTop(Taken)
           /\ exc' = IF Top.thrown # NoExc THEN Top.thrown ELSE Error
           /\ rethrow' = (Top.thrown # NoExc)
           /\ UNCHANGED <<suspended, gen, reg>>
  <2>1. InPlace(frames')
    BY <1>2, <1>4, <1>5, WithTopInPlace
  <2>2. rethrow' \in BOOLEAN /\ exc' \in Exceptions \cup {NoExc}
    BY <1>2, <1>5 DEF Exceptions
  <2>. QED  BY <1>1, <1>2, <1>5, <2>1, <2>2, InstructionInv
<1>6. CASE SuspendAtYieldFrom(d, ResumeKind) /\ UNCHANGED rethrow
  <2>1. PICK f : f = [Taken EXCEPT !.delegate = d]
    OBVIOUS
  <2>2. f \in Frame /\ f.owner = Top.owner /\ DelegateOK(f)
    BY <1>2, <2>1 DEF Frame, DelegateOK
  <2>3. suspended' = With(f) /\ gen' = Idle(f.owner)
    BY <1>6, <2>1, <2>2 DEF SuspendAtYieldFrom
  <2>4. \/ frames' = Below /\ exc' = Error /\ reg' = reg
        \/ HandOver(Top.owner, Below) /\ exc' = NoExc
    BY <1>6 DEF SuspendAtYieldFrom
  <2>5. \/ Dropped(frames') /\ exc' \in {Error, NoExc} /\ reg' = reg
        \/ Dropped(frames') /\ exc' = NoExc /\ reg' = [reg EXCEPT !.outcome = "yield"] /\ reg.target = Top.owner
    BY <1>2, <1>4, <2>4, BelowDropped DEF HandOver
  <2>6. OutcomeInv(frames', calls, reg', exc', rethrow', yielding')
    <3>1. CASE reg' = reg
      BY <1>1, <1>2, <1>3, <1>4, <1>6, <2>5, <3>1, HandedDown
    <3>2. CASE exc' = NoExc /\ reg' = [reg EXCEPT !.outcome = "yield"] /\ reg.target = Top.owner
      <4>1. reg.boundary = Len(frames') /\ calls # <<>>
        BY <1>2, <1>4, <2>5, <3>2, DroppedFacts, StateFacts
      <4>2. reg'.boundary = reg.boundary /\ reg'.outcome = "yield"
        BY <3>2, StateFacts DEF Registers
      <4>. QED  BY <1>1, <1>3, <1>6, <3>2, <4>1, <4>2 DEF OutcomeInv
    <3>. QED  BY <2>5, <3>1, <3>2
  <2>7. reg' \in Registers /\ reg'.target = reg.target /\ reg'.boundary = reg.boundary
    <3>1. reg \in Registers /\ (reg' = reg \/ reg' = [reg EXCEPT !.outcome = "yield"])
      BY <2>5, StateFacts
    <3>. QED  BY <3>1 DEF Registers
  <2>8. exc' \in Exceptions \cup {NoExc} /\ rethrow' \in BOOLEAN /\ yielding' \in Gens \cup {Nobody}
    BY <1>1, <1>3, <1>6, <2>5 DEF Exceptions
  <2>9. Dropped(frames')
    BY <2>5
  <2>. QED  BY <1>1, <1>2, <1>4, <2>2, <2>3, <2>6, <2>7, <2>8, <2>9, SuspendInv
<1>7. CASE frames' = WithTop(Delegated(Taken, d)) /\ UNCHANGED <<suspended, gen, reg, exc, rethrow>>
  <2>1. InPlace(frames')
    BY <1>2, <1>4, <1>7, DelegatedFacts, WithTopInPlace
  <2>2. rethrow' \in BOOLEAN /\ exc' \in Exceptions \cup {NoExc}
    BY <1>3, <1>7
  <2>. QED  BY <1>1, <1>2, <1>7, <2>1, <2>2, InstructionInv
<1>. QED  BY <1>5, <1>6, <1>7 DEF YieldFromIterator

-----------------------------------------------------------------------------
(* The nested run loop has returned *)

(* The stack is at the boundary of the innermost call. *)
LEMMA ReturningFacts ==
  ASSUME IInv, NEW how, Returning(how)
  PROVE  /\ Len(calls) > 0 /\ Len(frames) = reg.boundary /\ Len(frames) >= 1
         /\ exc = NoExc /\ rethrow = FALSE /\ yielding = Nobody
         /\ Last(calls) = calls[Len(calls)] /\ Last(calls) \in Call /\ Last(calls).how \in how
         /\ Front(calls) \in Seq(Call) /\ Len(Front(calls)) = Len(calls) - 1
         /\ Begins(calls, Front(calls), Len(calls) - 1)
         /\ Top \in Frame /\ DelegateOK(Top)
         /\ reg.outcome \in {"yield", "complete", "propagated"}
<1>1. calls # <<>> /\ calls \in Seq(Call) /\ Len(calls) > 0
  BY StateFacts DEF Returning
<1>2. OutcomeInv(frames, calls, reg, exc, rethrow, yielding)
  BY DEF IInv
<1>3. Len(frames) = reg.boundary /\ Len(frames) >= 1
  BY <1>1, <1>2, StateFacts DEF OutcomeInv, Returning
<1>4. exc = NoExc /\ rethrow = FALSE /\ yielding = Nobody
  <2>1. rethrow \in BOOLEAN
    BY DEF IInv, TypesInv, TypeOK
  <2>. QED  BY <2>1 DEF Returning, Settled
<1>5. /\ Last(calls) = calls[Len(calls)] /\ Last(calls) \in Call
      /\ Front(calls) \in Seq(Call) /\ Len(Front(calls)) = Len(calls) - 1
      /\ Begins(calls, Front(calls), Len(calls) - 1)
  BY <1>1, FrontProperties DEF Begins
<1>6. Len(frames) \in 1 .. Len(frames)
  BY <1>3, StateFacts
<1>7. Top \in Frame /\ DelegateOK(Top)
  BY <1>6, StateFacts DEF Top
<1>8. reg.outcome \in {"yield", "complete", "propagated"}
  BY StateFacts DEF Registers, Returning
<1>. QED  BY <1>1, <1>3, <1>4, <1>5, <1>7, <1>8 DEF Returning

(* resume_generator restores the registers it saved. *)
LEMMA RestoredFacts ==
  ASSUME IInv, NEW how, Returning(how)
  PROVE  /\ Restored \in Registers /\ Restored.target = Last(calls).saved.target
         /\ Restored.boundary = Last(calls).saved.boundary
         /\ Restored.outcome = Last(calls).saved.outcome
         /\ [Restored EXCEPT !.pending = NoExc] \in Registers
         /\ [Restored EXCEPT !.pending = NoExc].target = Restored.target
         /\ [Restored EXCEPT !.pending = NoExc].boundary = Restored.boundary
         /\ [Restored EXCEPT !.pending = NoExc].outcome = Restored.outcome
         /\ Restored.pending \in Exceptions \cup {NoExc}
<1>1. Last(calls).saved \in Registers /\ reg \in Registers
  BY ReturningFacts, StateFacts DEF Call
<1>2. PICK e \in Exceptions \cup {NoExc} : e = IF reg.pending # NoExc THEN reg.pending ELSE Last(calls).saved.pending
  BY <1>1 DEF Registers
<1>3. Restored = [Last(calls).saved EXCEPT !.pending = e]
  BY <1>2 DEF Restored
<1>4. PICK q : q = Restored
  OBVIOUS
<1>5. /\ q \in Registers /\ q.target = Last(calls).saved.target /\ q.pending = e
      /\ q.boundary = Last(calls).saved.boundary /\ q.outcome = Last(calls).saved.outcome
  BY <1>1, <1>3, <1>4 DEF Registers
<1>6. /\ [q EXCEPT !.pending = NoExc] \in Registers
      /\ [q EXCEPT !.pending = NoExc].target = q.target
      /\ [q EXCEPT !.pending = NoExc].boundary = q.boundary
      /\ [q EXCEPT !.pending = NoExc].outcome = q.outcome
  BY <1>5 DEF Registers
<1>. QED  BY <1>4, <1>5, <1>6

(* The stack and the calls that are left fit each other. *)
LEMMA ReturnedFacts ==
  ASSUME IInv, NEW how, Returning(how), NEW q \in Registers,
         q.target = Last(calls).saved.target, q.boundary = Last(calls).saved.boundary
  PROVE  /\ RegsInv(Front(calls), q) /\ ShapeInv(frames, Front(calls), q)
         /\ q.boundary < Len(frames) /\ q.boundary \in Nat
         /\ Last(calls).how = "delegate" => Len(calls) > 1 /\ Len(frames) >= 2
         /\ Last(calls).saved.outcome = "none"
         /\ Top.delegate = Nobody
         /\ ~Owns(frames, Last(calls).gen)
         /\ \A i \in 1 .. Len(Front(calls)) :
              /\ Front(calls)[i].how = "delegate" => frames[Bound(Front(calls), q, i)].at = "yieldfrom"
              /\ Bound(Front(calls), q, i) \in 1 .. (Len(frames) - 1)
<1>1. PICK n \in Nat : n = Len(calls) /\ n > 0
  BY ReturningFacts, StateFacts
<1>2. PICK L \in Nat : L = Len(frames) /\ L = reg.boundary /\ L >= 1
  BY ReturningFacts, StateFacts
<1>3. PICK ds, cs, r, fs : ds = Front(calls) /\ cs = calls /\ r = reg /\ fs = frames
  OBVIOUS
<1>4. /\ cs \in Seq(Call) /\ r \in Registers /\ RegsInv(cs, r) /\ ds \in Seq(Call)
      /\ Len(cs) = n /\ Len(ds) = n - 1 /\ Begins(cs, ds, n - 1)
      /\ Len(fs) = L /\ r.boundary = L /\ ShapeInv(fs, cs, r)
      /\ q.target = cs[n].saved.target /\ q.boundary = cs[n].saved.boundary
  BY <1>1, <1>2, <1>3, ReturningFacts, StateFacts DEF IInv
<1>5. /\ RegsInv(ds, q) /\ ShapeInv(fs, ds, q)
      /\ \A i \in 0 .. (n - 1) : Bound(ds, q, i) = Bound(cs, r, i)
      /\ n > 1 => q.boundary < L /\ q.boundary >= 1
      /\ n = 1 => L = 1 /\ q.target = Nobody /\ q.boundary = 0
      /\ cs[n].how = "delegate" => n > 1 /\ L >= 2
      /\ cs[n].saved.outcome = "none"
      /\ L >= 1 /\ fs[L].delegate = Nobody
      /\ ~Owns(fs, cs[n].gen)
  BY ZenonT(60), <1>1, <1>2, <1>4, StackReturned
<1>6. q.boundary \in Nat
  BY DEF Registers
<1>7. q.boundary < L
  <2>1. n = 1 \/ n > 1
    BY <1>1
  <2>. QED  BY <1>5, <2>1
<1>8. Last(calls) = cs[n] /\ Top = fs[L]
  BY <1>1, <1>2, <1>3, ReturningFacts DEF Top
<1>9. ASSUME NEW i \in 1 .. (n - 1)
      PROVE  /\ ds[i].how = "delegate" => fs[Bound(ds, q, i)].at = "yieldfrom"
             /\ Bound(ds, q, i) \in 1 .. (L - 1)
  <2>1. i \in 1 .. n /\ i \in 0 .. (n - 1) /\ i < n /\ i # n
    OBVIOUS
  <2>2. Bound(ds, q, i) = Bound(cs, r, i)
    BY <1>5, <2>1
  <2>3. Bound(cs, r, i) \in Nat /\ Bound(cs, r, i) >= 1 /\ Bound(cs, r, i) < L
    <3>1. i \in 0 .. n
      BY <2>1
    <3>. QED  BY <1>4, <2>1, <3>1, RegsFacts
  <2>4. Expected(frames, calls, reg, yielding, i)
    BY <1>1, <2>1 DEF Expected
  <2>5. calls[i].how = "delegate" => frames[Bound(calls, reg, i)].at = "yieldfrom"
    BY <1>1, <2>1, <2>4 DEF IInv, DelegatesInv
  <2>6. ds[i] = cs[i]
    BY <1>4 DEF Begins
  <2>. QED  BY <1>2, <1>3, <2>2, <2>3, <2>5, <2>6
<1>. QED  BY <1>1, <1>2, <1>3, <1>4, <1>5, <1>6, <1>7, <1>8, <1>9

(* What is left to show when a call has returned: the frames are in place,  *)
(* and the generators fit them.                                             *)
LEMMA ReturnInv ==
  ASSUME IInv, NEW how, Returning(how), calls' = Front(calls), NEW q \in Registers, reg' = q,
         q.target = Last(calls).saved.target, q.boundary = Last(calls).saved.boundary,
         q.outcome = "none", InPlace(frames'),
         GensInv(frames, suspended', gen'), GenTypes(suspended', gen'),
         exc' \in Exceptions \cup {NoExc}, rethrow' \in BOOLEAN, yielding' = yielding
  PROVE  IInv'
<1>1. PICK ft, cs : ft = frames' /\ cs = Front(calls)
  BY SMTT(60)
<1>2. PICK L \in Nat : L = Len(frames)
  BY StateFacts
<1>3. /\ RegsInv(cs, q) /\ ShapeInv(frames, cs, q) /\ q.boundary < L
      /\ \A i \in 1 .. Len(cs) :
           /\ cs[i].how = "delegate" => frames[Bound(cs, q, i)].at = "yieldfrom"
           /\ Bound(cs, q, i) \in 1 .. (L - 1)
  BY <1>1, <1>2, ReturnedFacts
<1>4. cs \in Seq(Call) /\ yielding = Nobody
  BY <1>1, ReturningFacts
<1>5. InPlace(ft)
  BY <1>1
<1>6. ShapeInv(ft, cs, q) /\ \A g : Owns(ft, g) <=> Owns(frames, g)
  BY <1>2, <1>3, <1>4, <1>5, StackChanged DEF InPlace
<1>7. GensInv(ft, suspended', gen')
  BY <1>6 DEF GensInv
<1>8. TypesInv'
  BY <1>1, <1>4, <1>5, TypesKept DEF InPlace
<1>9. OutcomeInv(ft, cs, q, exc', rethrow', yielding')
  BY <1>4 DEF OutcomeInv
<1>10. DelegatesInv(ft, cs, q, yielding')
  <2>1. \A p \in 1 .. (L - 1) : p \in 1 .. L /\ p # L
    OBVIOUS
  <2>2. \A p \in 1 .. (L - 1) : ft[p].at = frames[p].at
    BY <1>2, <1>5, <2>1 DEF InPlace
  <2>. QED  BY <1>3, <2>2 DEF DelegatesInv
<1>. QED  BY <1>1, <1>3, <1>6, <1>7, <1>8, <1>9, <1>10 DEF IInv

(* The exception that came out goes on in the caller. *)
LEMMA PropagateInv ==
  ASSUME IInv, NEW how, Returning(how), calls' = Front(calls), Propagate, UNCHANGED <<rethrow, yielding>>
  PROVE  IInv'
<1>1. PICK q : q = [Restored EXCEPT !.pending = NoExc]
  OBVIOUS
<1>2. /\ q \in Registers /\ q.target = Last(calls).saved.target /\ q.boundary = Last(calls).saved.boundary
      /\ q.outcome = Last(calls).saved.outcome /\ Restored.pending \in Exceptions \cup {NoExc}
  BY <1>1, RestoredFacts
<1>3. q.outcome = "none"
  BY <1>2, ReturnedFacts
<1>4. reg' = q /\ exc' = Restored.pending /\ UNCHANGED <<frames, suspended, gen>>
  BY <1>1 DEF Propagate
<1>5. InPlace(frames')
  BY <1>4, FramesInPlace
<1>6. GensInv(frames, suspended', gen') /\ GenTypes(suspended', gen')
  BY <1>4, GenTypesNow
<1>7. rethrow' \in BOOLEAN
  BY ReturningFacts
<1>. QED  BY <1>2, <1>3, <1>4, <1>5, <1>6, <1>7, ReturnInv

(* The caller goes on with the registers restored. *)
LEMMA RestoreInv ==
  ASSUME IInv, NEW how, Returning(how), calls' = Front(calls), reg' = Restored, InPlace(frames'),
         GensInv(frames, suspended', gen'), GenTypes(suspended', gen'),
         exc' \in Exceptions \cup {NoExc}, rethrow' \in BOOLEAN, yielding' = yielding
  PROVE  IInv'
<1>1. PICK q : q = Restored
  OBVIOUS
<1>2. /\ q \in Registers /\ q.target = Last(calls).saved.target /\ q.boundary = Last(calls).saved.boundary
      /\ q.outcome = Last(calls).saved.outcome
  BY <1>1, RestoredFacts
<1>3. q.outcome = "none"
  BY <1>2, ReturnedFacts
<1>. QED  BY <1>1, <1>2, <1>3, ReturnInv

(* __next__, send, throw and the step of a for loop return. *)
LEMMA ReturnFromMethodInv ==
  ASSUME IInv, ReturnFromMethod
  PROVE  IInv'
<1>1. Returning(Methods) /\ calls' = Front(calls) /\ UNCHANGED <<rethrow, yielding>>
  BY DEF ReturnFromMethod
<1>2. CASE Propagate
  BY <1>1, <1>2, PropagateInv
<1>3. CASE reg' = Restored /\ exc' \in {Error, NoExc} /\ UNCHANGED <<frames, suspended, gen>>
  <2>1. InPlace(frames')
    BY <1>3, FramesInPlace
  <2>2. GensInv(frames, suspended', gen') /\ GenTypes(suspended', gen')
    BY <1>3, GenTypesNow
  <2>3. rethrow' \in BOOLEAN /\ exc' \in Exceptions \cup {NoExc}
    BY <1>1, <1>3, ReturningFacts DEF Exceptions
  <2>. QED  BY <1>1, <1>3, <2>1, <2>2, <2>3, RestoreInv
<1>. QED  BY <1>2, <1>3 DEF ReturnFromMethod

(* Forgetting the exception that is being handled leaves the frames in place. *)
LEMMA ActiveClearedInPlace ==
  ASSUME IInv, ActiveIsExit
  PROVE  InPlace(ActiveCleared)
<1>1. PICK L \in Nat : L = Len(frames)
  BY StateFacts
<1>2. PICK busy : busy = {i \in 1 .. L : frames[i].active # NoExc}
  OBVIOUS
<1>3. frames \in Seq(Frame) /\ DOMAIN frames = 1 .. L /\ \A p \in 1 .. L : frames[p] \in Frame /\ DelegateOK(frames[p])
  BY <1>1, StateFacts
<1>4. Handling = IF busy = {} THEN 0 ELSE CHOOSE i \in busy : \A j \in busy : j <= i
  BY <1>2, <1>3 DEF Handling
<1>5. busy # {} /\ busy \subseteq 1 .. L
  BY <1>2, <1>4 DEF ActiveIsExit
<1>6. Max(busy) \in busy /\ \A y \in busy : y <= Max(busy)
  BY <1>1, <1>5, MaxOfPositions
<1>7. Handling \in busy
  BY <1>4, <1>5, <1>6, Zenon
<1>8. PICK h \in 1 .. L : h = Handling
  BY <1>5, <1>7
<1>9. PICK f : f = [frames[h] EXCEPT !.active = NoExc]
  OBVIOUS
<1>10. f \in Frame /\ f.owner = frames[h].owner /\ f.at = frames[h].at /\ f.delegate = frames[h].delegate
  BY <1>3, <1>9 DEF Frame
<1>11. DelegateOK(f)
  BY <1>3, <1>10 DEF DelegateOK
<1>12. PICK ft : ft = [frames EXCEPT ![h] = f]
  OBVIOUS
<1>13. ft = ActiveCleared
  BY <1>8, <1>9, <1>12 DEF ActiveCleared
<1>14. ft \in Seq(Frame) /\ Len(ft) = L /\ ft[h] = f /\ \A p \in 1 .. L : p # h => ft[p] = frames[p]
  BY <1>1, <1>3, <1>8, <1>10, <1>12
<1>15. \A p \in 1 .. L : /\ ft[p].owner = frames[p].owner /\ DelegateOK(ft[p])
                         /\ ft[p].at = frames[p].at /\ ft[p].delegate = frames[p].delegate
  BY <1>3, <1>8, <1>10, <1>11, <1>14
<1>. QED  BY <1>1, <1>13, <1>14, <1>15 DEF InPlace

(* close returns. *)
LEMMA ReturnFromCloseInv ==
  ASSUME IInv, ReturnFromClose
  PROVE  IInv'
<1>1. /\ Returning({"close"}) /\ calls' = Front(calls) /\ UNCHANGED <<rethrow, yielding>>
      /\ exc = NoExc /\ rethrow' \in BOOLEAN /\ Last(calls).gen \in Gens
  BY ReturningFacts DEF ReturnFromClose, Call
<1>2. PICK g \in Gens : g = Last(calls).gen
  BY <1>1
<1>3. PICK ge : ge = MarkedClosed(Last(calls).gen)
  OBVIOUS
<1>4. GensInv(frames, suspended, ge) /\ GenTypes(suspended, ge)
  BY <1>1, <1>2, <1>3, RestoredFacts, ReturnedFacts, GenTypesNow, GensMarked
<1>5. CASE Propagate
  BY <1>1, <1>5, PropagateInv
<1>6. CASE reg' = Restored /\ exc' = Error /\ UNCHANGED <<frames, suspended, gen>>
  <2>1. InPlace(frames')
    BY <1>6, FramesInPlace
  <2>2. GensInv(frames, suspended', gen') /\ GenTypes(suspended', gen')
    BY <1>6, GenTypesNow
  <2>3. exc' \in Exceptions \cup {NoExc}
    BY <1>6 DEF Exceptions
  <2>. QED  BY <1>1, <1>6, <2>1, <2>2, <2>3, RestoreInv
<1>7. CASE reg' = Restored /\ gen' = ge /\ UNCHANGED <<suspended, exc>> /\ (frames' = frames \/ (ActiveIsExit /\ frames' = ActiveCleared))
  <2>1. InPlace(frames')
    BY <1>7, FramesInPlace, ActiveClearedInPlace
  <2>2. GensInv(frames, suspended', gen') /\ GenTypes(suspended', gen')
    BY <1>4, <1>7
  <2>3. exc' \in Exceptions \cup {NoExc}
    BY <1>1, <1>7
  <2>. QED  BY <1>1, <1>7, <2>1, <2>2, <2>3, RestoreInv
<1>8. CASE reg' = [Restored EXCEPT !.pending = NoExc] /\ gen' = ge /\ UNCHANGED <<frames, suspended, exc>>
  <2>1. InPlace(frames')
    BY <1>8, FramesInPlace
  <2>2. GensInv(frames, suspended', gen') /\ GenTypes(suspended', gen')
    BY <1>4, <1>8
  <2>3. exc' \in Exceptions \cup {NoExc}
    BY <1>1, <1>8
  <2>4. PICK q : q = [Restored EXCEPT !.pending = NoExc]
    OBVIOUS
  <2>5. /\ q \in Registers /\ q.target = Last(calls).saved.target /\ q.boundary = Last(calls).saved.boundary
        /\ q.outcome = Last(calls).saved.outcome
    BY <1>1, <2>4, RestoredFacts
  <2>6. q.outcome = "none"
    BY <1>1, <2>5, ReturnedFacts
  <2>. QED  BY <1>1, <1>8, <2>1, <2>2, <2>3, <2>4, <2>5, <2>6, ReturnInv
<1>9. \/ Propagate
      \/ reg' = Restored /\ exc' = Error /\ UNCHANGED <<frames, suspended, gen>>
      \/ reg' = Restored /\ gen' = ge /\ UNCHANGED <<suspended, exc>> /\ (frames' = frames \/ (ActiveIsExit /\ frames' = ActiveCleared))
      \/ reg' = [Restored EXCEPT !.pending = NoExc] /\ gen' = ge /\ UNCHANGED <<frames, suspended, exc>>
  BY <1>3 DEF ReturnFromClose
<1>. QED  BY <1>5, <1>6, <1>7, <1>8, <1>9

(* The delegate has yielded: the frame that delegates to it is suspended too, *)
(* and its own resume or the frame below it gets the value.                   *)
LEMMA DelegateYieldsInv ==
  ASSUME IInv, Returning({"delegate"}), calls' = Front(calls), reg.outcome = "yield",
         suspended' = With([Top EXCEPT !.delegate = Last(calls).gen]), gen' = Idle(Top.owner),
         \/ frames' = Below /\ exc' = Error /\ reg' = Restored
         \/ /\ Restored.target = Top.owner /\ reg' = [Restored EXCEPT !.outcome = "yield"]
            /\ frames' = Below /\ exc' = exc
         \/ frames' = [Below EXCEPT ![Len(Below)].stray = TRUE] /\ exc' = exc /\ reg' = Restored,
         UNCHANGED <<rethrow, yielding>>
  PROVE  IInv'
<1>1. PICK L, n \in Nat : L = Len(frames) /\ n = Len(calls)
  BY StateFacts
<1>2. PICK cs, q : cs = Front(calls) /\ q = Restored
  OBVIOUS
<1>3. /\ q \in Registers /\ q.target = Last(calls).saved.target /\ q.boundary = Last(calls).saved.boundary
      /\ q.outcome = Last(calls).saved.outcome
  BY <1>2, RestoredFacts
<1>4. /\ RegsInv(Front(calls), q) /\ ShapeInv(frames, Front(calls), q) /\ q.boundary < Len(frames)
      /\ Last(calls).how = "delegate" => Len(calls) > 1 /\ Len(frames) >= 2
      /\ Last(calls).saved.outcome = "none"
      /\ \A i \in 1 .. Len(Front(calls)) :
           /\ Front(calls)[i].how = "delegate" => frames[Bound(Front(calls), q, i)].at = "yieldfrom"
           /\ Bound(Front(calls), q, i) \in 1 .. (Len(frames) - 1)
  BY <1>3, ReturnedFacts
<1>5. n > 1 /\ L >= 2
  BY <1>1, <1>4 DEF Returning
<1>6. /\ cs \in Seq(Call) /\ Len(cs) = n - 1 /\ Len(cs) > 0
  <2>1. Front(calls) \in Seq(Call) /\ Len(Front(calls)) = Len(calls) - 1
    BY ReturningFacts
  <2>. QED  BY <1>1, <1>2, <1>5, <2>1
<1>7. /\ RegsInv(cs, q) /\ ShapeInv(frames, cs, q) /\ q.boundary < L /\ q.outcome = "none"
      /\ \A i \in 1 .. Len(cs) :
           /\ cs[i].how = "delegate" => frames[Bound(cs, q, i)].at = "yieldfrom"
           /\ Bound(cs, q, i) \in 1 .. (L - 1)
  BY <1>1, <1>2, <1>5, <1>3, <1>4
<1>8. yielding' = Nobody /\ rethrow' = FALSE /\ exc = NoExc
  BY ReturningFacts
<1>9. Dropped(frames')
  <2>1. Len(frames) >= 1 /\ Len(frames) >= 2
    BY <1>1, <1>5
  <2>. QED  BY <2>1, BelowDropped
<1>10. PICK ft : ft = frames'
  OBVIOUS
<1>11. ft \in Seq(Frame) /\ Len(ft) = L - 1 /\ Agree(frames, ft, L - 1)
  BY <1>1, <1>5, <1>9, <1>10 DEF Dropped
<1>12. /\ ShapeInv(ft, cs, q)
       /\ \A g : Owns(ft, g) <=> Owns(frames, g) /\ g # frames[L].owner
       /\ q.boundary = L - 1 <=> frames[L].owner = q.target
  <2>1. Len(frames) = L /\ L >= 1
    BY <1>1, <1>5
  <2>. QED  BY <1>3, <1>6, <1>7, <1>11, <2>1, StackPopped
<1>13. Top = frames[L] /\ Top \in Frame /\ Top.at = "yieldfrom" /\ Top.owner \in Gens
  <2>1. Top = frames[L] /\ Top \in Frame
    BY <1>1, <1>5, ReturningFacts DEF Top
  <2>2. L \in 1 .. L /\ L # 1
    BY <1>1, <1>5
  <2>3. Top.owner # Main
    BY <1>1, <1>5, <1>7, <2>1, <2>2 DEF ShapeInv, OwnersInv
  <2>4. Top.owner \in Gens
    BY <2>1, <2>3 DEF Frame
  <2>5. n \in 1 .. n /\ Bound(calls, reg, n) = L /\ calls[n].how = "delegate"
    <3>1. Len(frames) = reg.boundary /\ Last(calls) = calls[Len(calls)] /\ Last(calls).how \in {"delegate"}
      BY ReturningFacts
    <3>. QED  BY <1>1, <1>5, <3>1 DEF Bound, Reg
  <2>6. Expected(frames, calls, reg, yielding, n)
    BY DEF Expected
  <2>7. Top.at = "yieldfrom"
    BY <1>1, <1>5, <2>1, <2>5, <2>6 DEF IInv, DelegatesInv
  <2>. QED  BY <2>1, <2>4, <2>7
<1>14. PICK f : f = [Top EXCEPT !.delegate = Last(calls).gen]
  OBVIOUS
<1>15. f \in Frame /\ f.owner = Top.owner /\ DelegateOK(f)
  <2>1. Last(calls).gen \in Gens
    BY ReturningFacts DEF Call
  <2>. QED  BY <1>13, <1>14, <2>1 DEF Frame, DelegateOK
<1>16. GensInv(ft, suspended', gen') /\ GenTypes(suspended', gen')
  <2>1. suspended' = With(f) /\ gen' = Idle(f.owner)
    BY <1>14, <1>15
  <2>2. \A g : Owns(ft, g) <=> Owns(frames, g) /\ g # f.owner
    BY <1>12, <1>13, <1>15
  <2>3. f.owner \in Gens
    BY <1>13, <1>15
  <2>4. TypesInv /\ GensInv(frames, suspended, gen)
    BY GenTypesNow
  <2>5. GensInv(ft, With(f), Idle(f.owner)) /\ GenTypes(With(f), Idle(f.owner))
    BY <1>15, <2>2, <2>3, <2>4, GensSuspended
  <2>. QED  BY <2>1, <2>5
<1>17. PICK r : r = reg'
  OBVIOUS
<1>18. \/ r = q /\ exc' \in {Error, NoExc}
       \/ r = [q EXCEPT !.outcome = "yield"] /\ q.target = Top.owner /\ exc' = NoExc
  BY <1>2, <1>8, <1>17
<1>19. r \in Registers /\ r.target = q.target /\ r.boundary = q.boundary
  BY <1>3, <1>18 DEF Registers
<1>20. RegsInv(cs, r) /\ ShapeInv(ft, cs, r) /\ \A i \in 0 .. Len(cs) : Bound(cs, r, i) = Bound(cs, q, i)
  BY <1>3, <1>6, <1>7, <1>12, <1>19, RegsKept
<1>21. exc' \in Exceptions \cup {NoExc}
  BY <1>18 DEF Exceptions
<1>22. TypesInv'
  BY <1>2, <1>6, <1>8, <1>10, <1>11, <1>16, <1>17, <1>19, <1>21, TypesKept
<1>23. OutcomeInv(ft, cs, r, exc', rethrow', yielding')
  <2>1. CASE r = q
    BY <1>7, <1>8, <2>1 DEF OutcomeInv
  <2>2. CASE q.target = Top.owner /\ exc' = NoExc
    <3>1. r.boundary = Len(ft) /\ cs # <<>>
      BY <1>6, <1>11, <1>12, <1>13, <1>19, <2>2
    <3>. QED  BY <1>8, <2>2, <3>1 DEF OutcomeInv
  <2>. QED  BY <1>18, <2>1, <2>2
<1>24. DelegatesInv(ft, cs, r, yielding')
  <2>1. \A p \in 1 .. (L - 1) : ft[p].at = frames[p].at
    BY <1>11 DEF Agree
  <2>2. \A i \in 1 .. Len(cs) : i \in 0 .. Len(cs)
    BY <1>6
  <2>. QED  BY <1>7, <1>20, <2>1, <2>2 DEF DelegatesInv
<1>. QED  BY <1>2, <1>10, <1>16, <1>17, <1>20, <1>22, <1>23, <1>24 DEF IInv

(* delegate_yield_from returns. *)
LEMMA ReturnFromDelegateInv ==
  ASSUME IInv, ReturnFromDelegate
  PROVE  IInv'
<1>1. /\ Returning({"delegate"}) /\ calls' = Front(calls) /\ yielding' = yielding
      /\ rethrow = FALSE /\ Len(frames) >= 1 /\ Top \in Frame /\ exc = NoExc
  BY ReturningFacts DEF ReturnFromDelegate
<1>2. PICK closing \in BOOLEAN : closing = Closing(Last(calls).kind, Last(calls).thrown)
  BY DEF Closing
<1>3. CASE Propagate /\ rethrow' = rethrow
  BY <1>1, <1>3, PropagateInv
<1>4. CASE /\ reg.outcome = "yield" /\ ~closing
           /\ suspended' = With([Top EXCEPT !.delegate = Last(calls).gen])
           /\ gen' = Idle(Top.owner)
           /\ IF Last(calls).kind = "close"
                THEN frames' = Below /\ exc' = Error /\ reg' = Restored
                ELSE /\ IF Restored.target = Top.owner
                          THEN reg' = [Restored EXCEPT !.outcome = "yield"] /\ frames' = Below
                          ELSE reg' = Restored /\ frames' = [Below EXCEPT ![Len(Below)].stray = TRUE]
                     /\ UNCHANGED exc
           /\ UNCHANGED rethrow
  <2>1. \/ frames' = Below /\ exc' = Error /\ reg' = Restored
        \/ /\ Restored.target = Top.owner /\ reg' = [Restored EXCEPT !.outcome = "yield"]
           /\ frames' = Below /\ exc' = exc
        \/ frames' = [Below EXCEPT ![Len(Below)].stray = TRUE] /\ exc' = exc /\ reg' = Restored
    BY <1>4
  <2>. QED  BY <1>1, <1>4, <2>1, DelegateYieldsInv
<1>5. CASE /\ reg' = Restored /\ UNCHANGED <<suspended, gen>> /\ exc' \in {Error, Exit, NoExc}
           /\ rethrow' \in BOOLEAN
           /\ \/ frames' = frames
              \/ frames' = WithTop(Delegated(Top, Last(calls).gen))
              \/ ActiveIsExit /\ frames' = ActiveCleared
  <2>1. InPlace(frames')
    <3>1. CASE frames' = frames \/ (ActiveIsExit /\ frames' = ActiveCleared)
      BY <3>1, FramesInPlace, ActiveClearedInPlace
    <3>2. CASE frames' = WithTop(Delegated(Top, Last(calls).gen))
      BY <1>1, <3>2, DelegatedFacts, WithTopInPlace
    <3>. QED  BY <1>5, <3>1, <3>2
  <2>2. GensInv(frames, suspended', gen') /\ GenTypes(suspended', gen')
    BY <1>5, GenTypesNow
  <2>3. exc' \in Exceptions \cup {NoExc}
    BY <1>5 DEF Exceptions
  <2>. QED  BY <1>1, <1>5, <2>1, <2>2, <2>3, RestoreInv
<1>6. \/ Propagate /\ rethrow' = rethrow
      \/ /\ reg.outcome = "yield" /\ ~closing
         /\ suspended' = With([Top EXCEPT !.delegate = Last(calls).gen])
         /\ gen' = Idle(Top.owner)
         /\ IF Last(calls).kind = "close"
              THEN frames' = Below /\ exc' = Error /\ reg' = Restored
              ELSE /\ IF Restored.target = Top.owner
                        THEN reg' = [Restored EXCEPT !.outcome = "yield"] /\ frames' = Below
                        ELSE reg' = Restored /\ frames' = [Below EXCEPT ![Len(Below)].stray = TRUE]
                   /\ UNCHANGED exc
         /\ UNCHANGED rethrow
      \/ /\ reg' = Restored /\ UNCHANGED <<suspended, gen>> /\ exc' \in {Error, Exit, NoExc}
         /\ rethrow' \in BOOLEAN
         /\ \/ frames' = frames
            \/ frames' = WithTop(Delegated(Top, Last(calls).gen))
            \/ ActiveIsExit /\ frames' = ActiveCleared
  BY <1>1, <1>2 DEF ReturnFromDelegate
<1>. QED  BY <1>3, <1>4, <1>5, <1>6

-----------------------------------------------------------------------------
(* The theorems *)

(* The main module has started and no generator has. *)
LEMMA InitInv ==
  ASSUME Init
  PROVE  IInv
<1>1. PICK f, fs : f = NewFrame(Main) /\ fs = <<f>>
  OBVIOUS
<1>2. f \in Frame /\ f.owner = Main /\ f.delegate = Nobody
  BY <1>1, BoundsAreNaturals DEF NewFrame, Frame
<1>3. fs \in Seq(Frame) /\ Len(fs) = 1 /\ fs[1] = f /\ frames = fs
  BY <1>1, <1>2 DEF Init
<1>4. \A g \in Gens : /\ NewFrame(g) \in Frame /\ NewFrame(g).owner = g
                      /\ NewFrame(g).delegate = Nobody
  BY BoundsAreNaturals DEF NewFrame, Frame
<1>5. /\ DOMAIN suspended = Gens
      /\ \A g \in Gens : /\ suspended[g] \in Frame /\ suspended[g].owner = g
                         /\ suspended[g].delegate = Nobody
  BY <1>4 DEF Init
<1>6. /\ gen \in [Gens -> [started : BOOLEAN, running : BOOLEAN, closed : BOOLEAN]]
      /\ \A g \in Gens : ~gen[g].running
  BY DEF Init
<1>7. reg \in Registers /\ reg.target = Nobody /\ reg.boundary = 0 /\ reg.outcome = "none"
  BY DEF Init, NoResume, Registers
<1>8. calls = <<>> /\ Len(calls) = 0 /\ calls \in Seq(Call)
  BY DEF Init
<1>9. exc = NoExc /\ rethrow = FALSE /\ yielding = Nobody
  BY DEF Init
<1>10. TypesInv
  BY <1>3, <1>5, <1>6, <1>7, <1>8, <1>9 DEF TypesInv, TypeOK, Registers
<1>11. RegsInv(calls, reg)
  <2>1. Reg(calls, reg, 0) = reg /\ Bound(calls, reg, 0) = 0
    BY <1>7, <1>8 DEF Reg, Bound
  <2>2. 1 .. Len(calls) = {} /\ \A i, j \in 0 .. Len(calls) : ~(i < j)
    BY <1>8
  <2>3. ~(Len(calls) > 0)
    BY <1>8
  <2>. QED  BY <1>7, <2>1, <2>2, <2>3 DEF RegsInv
<1>12. ShapeInv(fs, calls, reg)
  <2>1. 1 .. Len(fs) = {1} /\ 1 .. (Len(fs) - 1) = {} /\ 1 .. Len(calls) = {} /\ Len(fs) <= 1
    BY <1>3, <1>8
  <2>2. OwnersInv(fs)
    BY <1>2, <1>3, <2>1 DEF OwnersInv, DelegateOK
  <2>. QED  BY <2>1, <2>2 DEF ShapeInv
<1>13. GensInv(fs, suspended, gen)
  <2>1. \A g \in Gens : ~Owns(fs, g)
    BY <1>2, <1>3, OwnersDistinct DEF Owns
  <2>. QED  BY <1>5, <1>6, <2>1 DEF GensInv, DelegateOK
<1>14. OutcomeInv(fs, calls, reg, exc, rethrow, yielding)
  BY <1>7, <1>9 DEF OutcomeInv
<1>15. DelegatesInv(fs, calls, reg, yielding)
  BY <1>8 DEF DelegatesInv
<1>. QED  BY <1>3, <1>10, <1>11, <1>12, <1>13, <1>14, <1>15 DEF IInv

(* Every step below the recursion limit keeps the invariant. *)
LEMMA NextInv ==
  ASSUME IInv, BelowLimit, [Next]_vars
  PROVE  IInv'
<1>1. CASE UNCHANGED vars
  BY <1>1 DEF IInv, TypesInv, TypeOK, vars, transit
<1>2. CASE LoseTarget \/ Deliver \/ EndOfModule
  BY <1>2, LoseTargetInv, DeliverInv, EndOfModuleInv
<1>3. CASE SetupExcept \/ PopBlock \/ EnterHandler \/ ClearException
  BY <1>3, BlocksInv
<1>4. ASSUME NEW e \in Raised, Raise(e) PROVE IInv'
  <2>1. /\ Running /\ exc' \in Exceptions \cup {NoExc}
        /\ UNCHANGED <<frames, suspended, gen, reg, calls, rethrow, yielding>>
    BY <1>4, RaisedAreExceptions DEF Raise, Executing, Exceptions, Exit, Error
  <2>. QED  BY <2>1, RaiseInv
<1>5. CASE UnwindToHandler \/ UnwindToBoundary \/ UnwindFrame \/ Rethrow
  BY <1>5, UnwindToHandlerInv, UnwindToBoundaryInv, UnwindFrameInv, RethrowInv
<1>6. CASE YieldValue \/ YieldThrough \/ YieldOut \/ ReturnValue
  BY <1>6, YieldValueInv, YieldThroughInv, YieldOutInv, ReturnValueInv
<1>7. ASSUME NEW g \in Gens, NEW how \in Methods \ {"throw"}, CallMethod(g, how, NoExc) PROVE IInv'
  BY <1>7, CallMethodInv
<1>8. ASSUME NEW g \in Gens, NEW e \in Raised, CallMethod(g, "throw", e) PROVE IInv'
  <2>1. e \in Exceptions \cup {NoExc} /\ "throw" \in Methods
    BY RaisedAreExceptions DEF Exceptions, Exit, Error, Methods
  <2>. QED  BY <1>8, <2>1, CallMethodInv
<1>9. ASSUME NEW g \in Gens, CallClose(g) \/ YieldFromPush(g) \/ YieldFromResume(g) PROVE IInv'
  BY <1>9, CallCloseInv, YieldFromPushInv, YieldFromResumeInv
<1>10. ASSUME NEW d \in Iters, YieldFromIterator(d) PROVE IInv'
  BY <1>10, YieldFromIteratorInv
<1>11. CASE ReturnFromMethod \/ ReturnFromClose \/ ReturnFromDelegate
  BY <1>11, ReturnFromMethodInv, ReturnFromCloseInv, ReturnFromDelegateInv
<1>12. CASE Exited
  BY <1>1, <1>12 DEF Exited
<1>. QED  BY <1>1, <1>2, <1>3, <1>4, <1>5, <1>6, <1>7, <1>8, <1>9, <1>10, <1>11, <1>12 DEF Next

(* The invariant holds as long as no resume meets the recursion limit. *)
THEOREM Invariance == Spec /\ []BelowLimit => []IInv
<1>1. Init => IInv
  BY InitInv
<1>2. IInv /\ BelowLimit /\ [Next]_vars => IInv'
  BY NextInv
<1>. QED  BY <1>1, <1>2, PTL DEF Spec

(* A generator is found on the stack once at most. *)
LEMMA PositionsFacts ==
  ASSUME IInv, NEW g
  PROVE  /\ Cardinality(Positions(g)) <= 1
         /\ Positions(g) # {} <=> Owns(frames, g)
         /\ \A p \in Positions(g) : p \in 1 .. Len(frames) /\ frames[p].owner = g
<1>1. Positions(g) = {p \in 1 .. Len(frames) : frames[p].owner = g}
  BY StateFacts DEF Positions
<1>2. OwnersInv(frames)
  BY DEF IInv, ShapeInv
<1>3. CASE Positions(g) = {}
  <2>1. Cardinality(Positions(g)) = 0
    BY <1>3, FS_EmptySet
  <2>. QED  BY <1>1, <1>3, <2>1 DEF Owns
<1>4. CASE Positions(g) # {}
  <2>1. PICK p \in 1 .. Len(frames) : frames[p].owner = g
    BY <1>1, <1>4
  <2>2. Positions(g) = {p}
    BY <1>1, <1>2, <2>1 DEF OwnersInv
  <2>3. Cardinality(Positions(g)) = 1
    BY <2>2, FS_Singleton
  <2>. QED  BY <1>1, <1>4, <2>1, <2>3 DEF Owns
<1>. QED  BY <1>3, <1>4

(* The invariant covers what FramesConsistent says. *)
LEMMA IInvFrames ==
  ASSUME IInv
  PROVE  FramesConsistent
<1>1. TypeOK
  BY DEF IInv, TypesInv
<1>2. GensInv(frames, suspended, gen)
  BY DEF IInv
<1>3. OneFrame
  <2>. SUFFICES ASSUME NEW g \in Gens
                PROVE  /\ Cardinality(Positions(g)) <= 1
                       /\ Positions(g) # {} <=> gen[g].running
                       /\ g \in DOMAIN suspended => Positions(g) = {} /\ suspended[g].owner = g
    BY DEF OneFrame
  <2>. QED  BY <1>2, PositionsFacts DEF GensInv
<1>4. Resumable
  BY <1>2 DEF GensInv, Resumable
<1>5. DelegationChain
  <2>. SUFFICES ASSUME Running, reg.target # Nobody,
                       NEW p \in (reg.boundary + 1) .. (Len(frames) - 1)
                PROVE  frames[p].delegate = frames[p + 1].owner
    BY DEF DelegationChain
  <2>1. /\ calls \in Seq(Call) /\ reg \in Registers /\ RegsInv(calls, reg) /\ ShapeInv(frames, calls, reg)
        /\ Len(frames) \in Nat /\ reg.boundary \in Nat
    BY StateFacts DEF IInv
  <2>2. p \in 1 .. (Len(frames) - 1) /\ p > reg.boundary
    BY <2>1
  <2>3. LinkOK(frames, calls, reg, p)
    BY <2>1, <2>2 DEF ShapeInv
  <2>4. \A i \in 1 .. Len(calls) : Bound(calls, reg, i) <= reg.boundary /\ i \in 0 .. Len(calls)
    BY <2>1, RegsFacts
  <2>5. \A i \in 0 .. Len(calls) : Bound(calls, reg, i) \in Nat
    BY <2>1, RegsFacts
  <2>6. \A i \in 1 .. Len(calls) : Bound(calls, reg, i) # p
    BY <2>1, <2>2, <2>4, <2>5
  <2>. QED  BY <2>3, <2>6 DEF LinkOK
<1>. QED  BY <1>1, <1>3, <1>4, <1>5 DEF FramesConsistent

(* The invariant covers what ResumesNested says. *)
LEMMA IInvResumes ==
  ASSUME IInv
  PROVE  ResumesNested
<1>1. PICK n, L \in Nat : n = Len(calls) /\ L = Len(frames)
  BY StateFacts
<1>2. /\ calls \in Seq(Call) /\ reg \in Registers /\ RegsInv(calls, reg) /\ ShapeInv(frames, calls, reg)
      /\ DOMAIN calls = 1 .. n
  BY <1>1, StateFacts DEF IInv
<1>3. \A i : Saved(i) = Reg(calls, reg, i)
  BY DEF Saved, Reg
<1>4. ASSUME NEW i \in 1 .. n
      PROVE  /\ Saved(i).target = calls[i].gen
             /\ i > 1 => Saved(i - 1).boundary < Saved(i).boundary
             /\ Positions(calls[i].gen) \subseteq {Saved(i).boundary + 1}
             /\ Settled /\ Positions(calls[i].gen) = {} => Len(frames) = Saved(i).boundary
  <2>1. PICK b, g : b = Bound(calls, reg, i) /\ g = calls[i].gen
    OBVIOUS
  <2>2. Saved(i).target = g /\ Saved(i).boundary = b
    BY <1>1, <1>2, <1>3, <2>1 DEF RegsInv, Bound
  <2>3. i > 1 => Saved(i - 1).boundary < b
    <3>1. i > 1 => i - 1 \in 0 .. n /\ i \in 0 .. n /\ i - 1 < i
      OBVIOUS
    <3>2. i > 1 => Bound(calls, reg, i - 1) < Bound(calls, reg, i)
      BY <1>1, <1>2, <3>1 DEF RegsInv
    <3>. QED  BY <1>3, <2>1, <3>2 DEF Bound
  <2>4. CallOK(frames, calls[i], b)
    BY <1>1, <1>2, <2>1 DEF ShapeInv
  <2>5. b \in Nat /\ b >= 1 /\ b <= reg.boundary /\ (i # n => b < reg.boundary) /\ reg.boundary \in Nat
    <3>1. i \in 0 .. n
      OBVIOUS
    <3>. QED  BY <1>1, <1>2, <2>1, <3>1, RegsFacts
  <2>6. \A p \in 1 .. L : frames[p].owner = g => b < L /\ p = b + 1
    <3>. SUFFICES ASSUME NEW p \in 1 .. L, frames[p].owner = g PROVE b < L /\ p = b + 1
      OBVIOUS
    <3>1. b < L /\ frames[b + 1].owner = g
      BY <1>1, <2>1, <2>4, <2>5 DEF CallOK
    <3>2. b + 1 \in 1 .. L
      BY <2>5, <3>1
    <3>. QED  BY <1>1, <1>2, <3>1, <3>2 DEF ShapeInv, OwnersInv
  <2>7. Positions(g) \subseteq {b + 1}
    BY <1>1, <2>6, PositionsFacts
  <2>8. Settled /\ Positions(g) = {} => L = b
    <3>. SUFFICES ASSUME Settled, Positions(g) = {} PROVE L = b
      OBVIOUS
    <3>1. ~Owns(frames, g)
      BY PositionsFacts
    <3>2. ~(b < L)
      <4>. SUFFICES ASSUME b < L PROVE FALSE
        OBVIOUS
      <4>1. frames[b + 1].owner = g /\ b + 1 \in 1 .. L
        BY <1>1, <2>1, <2>4, <2>5 DEF CallOK
      <4>. QED  BY <1>1, <3>1, <4>1 DEF Owns
    <3>. QED  BY <1>1, <2>4, <2>5, <3>2 DEF CallOK
  <2>. QED  BY <1>1, <2>1, <2>2, <2>3, <2>7, <2>8
<1>5. ASSUME Settled, calls = <<>> PROVE Len(frames) = 1 /\ reg.target = Nobody
  <2>1. Len(calls) = 0 /\ frames # <<>>
    BY <1>5 DEF Settled
  <2>. QED  BY <2>1, StateFacts
<1>. QED  BY <1>2, <1>4, <1>5 DEF ResumesNested

(* Each generator has one frame, on the stack exactly while it runs, or can *)
(* be resumed or is closed; delegating frames are chained.                  *)
THEOREM FramesAreConsistent == Spec /\ []BelowLimit => []FramesConsistent
<1>1. IInv => FramesConsistent
  BY IInvFrames
<1>. QED  BY <1>1, Invariance, PTL

(* The resume_generator calls on the host stack agree with the frames.  *)
THEOREM ResumesAreNested == Spec /\ []BelowLimit => []ResumesNested
<1>1. IInv => ResumesNested
  BY IInvResumes
<1>. QED  BY <1>1, Invariance, PTL

(* No frame is twice on the stack, so that few enough generators cannot meet *)
(* the recursion limit, however they resume and delegate to each other.      *)
LEMMA FewGenerators ==
  ASSUME IInv, IsFiniteSet(Gens), Cardinality(Gens) + 1 < RecursionLimit
  PROVE  BelowLimit
<1>1. PICK L \in Nat : L = Len(frames)
  BY StateFacts
<1>2. PICK T : T = Gens \cup {Main}
  OBVIOUS
<1>3. Cardinality(Gens) \in Nat /\ IsFiniteSet(T) /\ Cardinality(T) = Cardinality(Gens) + 1
  BY <1>2, FS_CardinalityType, FS_AddElement, OwnersDistinct
<1>4. PICK owners : owners = [p \in 1 .. L |-> frames[p].owner]
  OBVIOUS
<1>5. owners \in [1 .. L -> T]
  BY <1>1, <1>2, <1>4, StateFacts DEF Frame
<1>6. ~\E p, q \in 1 .. L : p # q /\ owners[p] = owners[q]
  BY <1>1, <1>4 DEF IInv, ShapeInv, OwnersInv
<1>7. IsFiniteSet(1 .. L) /\ Cardinality(1 .. L) = L
  <2>1. IsFiniteSet(1 .. L) /\ Cardinality(1 .. L) = IF 1 > L THEN 0 ELSE L - 1 + 1
    BY FS_Interval
  <2>. QED  BY <2>1
<1>8. ~(Cardinality(T) < L)
  BY <1>3, <1>5, <1>6, <1>7, FS_PigeonHole
<1>. QED  BY SMTT(60), <1>1, <1>3, <1>8, BoundsAreNaturals DEF BelowLimit

(* With fewer generators than the recursion limit has frames, nothing has to *)
(* be assumed of the behaviour.                                              *)
THEOREM FewGeneratorsInvariance ==
  ASSUME IsFiniteSet(Gens), Cardinality(Gens) + 1 < RecursionLimit
  PROVE  Spec => []IInv
<1>1. Init => IInv
  BY InitInv
<1>2. IInv => BelowLimit
  BY FewGenerators
<1>3. IInv /\ [Next]_vars => IInv'
  BY <1>2, NextInv
<1>. QED  BY <1>1, <1>3, PTL DEF Spec

(* So each of them has one frame, and nested resumes agree with the stack. *)
THEOREM FewGeneratorsConsistent ==
  ASSUME IsFiniteSet(Gens), Cardinality(Gens) + 1 < RecursionLimit
  PROVE  Spec => [](FramesConsistent /\ ResumesNested)
<1>1. IInv => FramesConsistent /\ ResumesNested
  BY IInvFrames, IInvResumes
<1>. QED  BY <1>1, FewGeneratorsInvariance, PTL

=============================================================================
