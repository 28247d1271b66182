-------------------------- MODULE CapiMemoryProofs --------------------------
(***************************************************************************)
(* Proofs about the memory that native extensions see: for any number of    *)
(* addresses and objects, any depth of nested contexts and any number of    *)
(* references, the VM's tables name living blocks, a block is freed once,   *)
(* what native code keeps stays, and nothing is left when the VM is gone.   *)
(***************************************************************************)
EXTENDS CapiMemory, Integers, FiniteSetTheorems, SequenceTheorems, WellFoundedInduction, TLAPS

-----------------------------------------------------------------------------
(* The invariant                                                            *)

(* The types of a block's content, of a registry entry, of the shared       *)
(* memory and of a context.                                                 *)
Body == [obj : ObjOrNull, items : SUBSET PtrOrNull, buf : PtrOrNull]

Entry == [prov : {"none", "owned", "external"}, life : {"alive", "freed"},
          pins : {0, 1}, id : ObjOrNull \cup {Proxied}]

Memory ==
  [heap : [Ptrs -> {"free", "ours", "theirs"}], hdr : [Ptrs -> Nat],
   body : [Ptrs -> Body], reg : [Ptrs -> Entry], pinSet : SUBSET Ptrs,
   pinVec : [Ptrs -> Nat], valueOf : [Ptrs -> ObjOrNull \cup {Proxied}],
   ptrOf : [Objs -> PtrOrNull], bad : BOOLEAN]

Context ==
  [keep : BOOLEAN, allocs : Seq(Ptrs), objBy : [Ptrs -> ObjOrNull],
   ptrBy : [Objs -> PtrOrNull], slot : [Objs -> Nat], bufs : [Objs -> PtrOrNull]]

(* What the registry says of an address for whatever native code does.      *)
Backed(e, n) ==
  /\ e.prov = "external" => e.pins <= n /\ (e.pins > 0 => e.id = Proxied)
  /\ e.prov = "none" => e.pins = 0

(* Every variable has its type, whatever native code does.                  *)
TypeInv ==
  /\ ext \in Extensions /\ mem \in Memory /\ ctxs \in Seq(Context)
  /\ handed \subseteq Ptrs /\ owns \in [Ptrs -> Nat] /\ held \in [Ptrs -> Nat] /\ gone \in BOOLEAN
  /\ \A p \in Ptrs : Backed(mem.reg[p], held[p])

(* What a context has allocated, and what the registry has pinned.          *)
Allocs(c) == {c.allocs[k] : k \in DOMAIN c.allocs}

Pinned(m, p) == IsOwnedPinned(m.reg[p])

(* A block of ours has an entry, and the VM's tables name it rightly.       *)
AddressOK(m, p) ==
  /\ m.heap[p] = "ours" <=> IsOwnedCompat(m.reg[p])
  /\ m.heap[p] = "free" => m.reg[p].life = "freed"
  /\ m.reg[p].life = "freed" => m.reg[p].pins = 0
  /\ p \in m.pinSet <=> Pinned(m, p)
  /\ p \in m.pinSet => m.pinVec[p] > 0
  /\ m.heap[p] # "ours" => m.body[p].obj = Null
  /\ m.body[p].obj # Null => m.valueOf[p] = m.body[p].obj
  /\ m.valueOf[p] \in Objs => m.body[p].obj = m.valueOf[p]

(* The VM's table of pointers names blocks of the object.                   *)
NameOK(m, o) == m.ptrOf[o] # Null => m.body[m.ptrOf[o]].obj = o

MemoryOK(m) == (\A p \in Ptrs : AddressOK(m, p)) /\ (\A o \in Objs : NameOK(m, o)) /\ ~m.bad

(* The references the VM has taken to native objects.                       *)
HeldOK(m, h) == \A p \in Ptrs : h[p] = IF m.reg[p].prov = "external" THEN m.reg[p].pins ELSE 0

(* A context's tables agree with each other, for extension x.               *)
ShapeOK(x, c) ==
  /\ \A p \in Ptrs : c.objBy[p] # Null => c.ptrBy[c.objBy[p]] # Null
  /\ \A o \in Objs : c.ptrBy[o] # Null => c.objBy[c.ptrBy[o]] = o
  /\ \A o \in Objs : c.bufs[o] # Null => c.ptrBy[o] # Null
  /\ \A o1, o2 \in Objs : c.bufs[o1] = c.bufs[o2] /\ c.bufs[o1] # Null => o1 = o2
  /\ \A i, j \in DOMAIN c.allocs : c.allocs[i] = c.allocs[j] => i = j
  /\ \A p \in Allocs(c) : c.objBy[p] # Null
  /\ \A p \in Allocs(c), q \in Ptrs :
       c.ptrBy[c.objBy[p]] = p /\ c.objBy[q] = c.objBy[p] => q = p
  /\ ~x.twice => \A p \in Ptrs : c.objBy[p] # Null => c.ptrBy[c.objBy[p]] = p

(* What a context knows is in memory.                                       *)
KnownOK(m, c) ==
  /\ \A p \in Ptrs : c.objBy[p] # Null => m.body[p].obj = c.objBy[p]
  /\ \A o \in Objs : c.bufs[o] # Null => m.heap[c.bufs[o]] = "ours" /\ m.body[c.bufs[o]].obj = Null

(* Context c and a context d nested in it.                                  *)
ApartOK(x, c, d) ==
  /\ \A p \in Allocs(d) : c.objBy[p] = Null
  /\ \A o1, o2 \in Objs : c.bufs[o1] = d.bufs[o2] => c.bufs[o1] = Null
  /\ ~x.across => \A p \in Ptrs : c.objBy[p] = Null \/ d.objBy[p] = Null

(* Every context agrees with itself, with the memory and with those nested  *)
(* in it.                                                                   *)
ContextsOK(x, m, cs) ==
  /\ \A i \in DOMAIN cs : ShapeOK(x, cs[i]) /\ KnownOK(m, cs[i])
  /\ \A i, j \in DOMAIN cs : i < j => ApartOK(x, cs[i], cs[j])

(* Every block of ours will be freed by a context or by the VM.             *)
Covered(m, cs, p) ==
  \/ Pinned(m, p)
  \/ \E i \in DOMAIN cs : p \in Allocs(cs[i]) \/ \E o \in Objs : cs[i].bufs[o] = p

CoverOK(m, cs) == \A p \in Ptrs : m.heap[p] = "ours" => Covered(m, cs, p)

IsByteArray(m, p) == m.body[p].obj # Null /\ Kind[m.body[p].obj] = "bytearray"

(* The buffer of a bytearray belongs to its block only.                     *)
ByteOK(x, m, cs, p) ==
  LET b == m.body[p].buf
      o == m.body[p].obj
  IN  /\ ~x.across /\ ~x.twice
      /\ b # Null /\ m.heap[b] = "ours" /\ m.body[b].obj = Null
      /\ \A i \in DOMAIN cs : \A y \in Objs : cs[i].bufs[y] = b => y = o /\ cs[i].ptrBy[o] = p
      /\ \A i \in DOMAIN cs : cs[i].ptrBy[o] = p => cs[i].bufs[o] \in {Null, b}
      /\ Pinned(m, b) \/ \E i \in DOMAIN cs : p \in Allocs(cs[i]) /\ cs[i].bufs[o] = b

(* The buffers of all bytearrays; an extension with across or twice that    *)
(* meets one is not Careful.                                                *)
BytesOK(x, m, cs) ==
  /\ \A p \in Ptrs : IsByteArray(m, p) => ByteOK(x, m, cs, p)
  /\ \A p, q \in Ptrs : IsByteArray(m, p) /\ IsByteArray(m, q) /\ m.body[p].buf = m.body[q].buf => p = q

(* A reference of native code keeps the counts of its block above one.      *)
Counts(m, c, w) ==
  \A p \in Allocs(c) :
    /\ Pinned(m, p) \/ m.hdr[p] > w[p]
    /\ c.ptrBy[c.objBy[p]] = p => c.slot[c.objBy[p]] > w[p]

(* The counts in every context that native code's references are counted    *)
(* in.                                                                      *)
OwnsOK(x, m, cs, w) ==
  ~x.across /\ ~x.inline =>
    /\ \A p \in Ptrs : w[p] > 0 => m.body[p].obj # Null
    /\ \A i \in DOMAIN cs : Counts(m, cs[i], w)

(* A block the VM was given is pinned.                                      *)
HandedOK(m, h) == \A p \in h : Pinned(m, p) /\ m.body[p].obj # Null

(* The invariant while the VM is there, and once it is gone.                *)
Live ==
  /\ MemoryOK(mem) /\ HeldOK(mem, held) /\ ContextsOK(ext, mem, ctxs) /\ CoverOK(mem, ctxs)
  /\ BytesOK(ext, mem, ctxs) /\ OwnsOK(ext, mem, ctxs, owns) /\ HandedOK(mem, handed)

Over == ctxs = <<>> /\ MemoryOK(mem) /\ \A p \in Ptrs : mem.heap[p] # "ours" /\ held[p] = 0

IInv == TypeInv /\ (Careful => IF gone THEN Over ELSE Live)

-----------------------------------------------------------------------------
(* Sequences and numbers                                                    *)

(* A non-empty set of naturals has a least element, and Min returns it.     *)
LEMMA MinOfNats ==
  ASSUME NEW S, S \subseteq Nat, S # {}
  PROVE  Min(S) \in S /\ \A y \in S : Min(S) <= y
<1>1. PICK x \in S : \A y \in S : ~ (<<y, x>> \in OpToRel(<, Nat))
  BY ZenonT(40), NatLessThanWellFounded, WFMin
<1>2. ASSUME NEW y \in S PROVE x <= y
  <2>1. x \in Nat /\ y \in Nat
    OBVIOUS
  <2>2. ~(y < x)
    BY <1>1, <2>1 DEF OpToRel
  <2>. QED  BY <2>1, <2>2
<1>. QED  BY <1>2 DEF Min

(* What truncating a stack to its first n elements leaves.                  *)
LEMMA PrefixProperties ==
  ASSUME NEW S, NEW s \in Seq(S), NEW n \in 0 .. Len(s)
  PROVE  /\ SubSeq(s, 1, n) \in Seq(S)
         /\ Len(SubSeq(s, 1, n)) = n
         /\ \A i \in 1 .. n : SubSeq(s, 1, n)[i] = s[i]
<1>1. n \in Int /\ \A i \in 1 .. n : s[i] \in S
  OBVIOUS
<1>2. /\ SubSeq(s, 1, n) \in Seq(S)
      /\ Len(SubSeq(s, 1, n)) = IF 1 <= n THEN n - 1 + 1 ELSE 0
      /\ \A i \in 1 .. n - 1 + 1 : SubSeq(s, 1, n)[i] = s[1 + i - 1]
  BY <1>1, SubSeqProperties
<1>3. n - 1 + 1 = n /\ \A i \in 1 .. n : 1 + i - 1 = i
  BY <1>1
<1>. QED  BY <1>2, <1>3

(* What popping the top of a stack leaves.                                  *)
LEMMA FrontProperties ==
  ASSUME NEW S, NEW s \in Seq(S), s # <<>>
  PROVE  /\ Len(s) \in Nat \ {0}
         /\ Front(s) \in Seq(S)
         /\ Len(Front(s)) = Len(s) - 1
         /\ \A i \in 1 .. (Len(s) - 1) : Front(s)[i] = s[i]
         /\ Last(s) = s[Len(s)]
         /\ Last(s) \in S
<1>1. Len(s) \in Nat \ {0}
  BY EmptySeq
<1>2. Len(s) - 1 \in 0 .. Len(s)
  BY <1>1
<1>3. /\ Front(s) \in Seq(S)
      /\ Len(Front(s)) = Len(s) - 1
      /\ \A i \in 1 .. (Len(s) - 1) : Front(s)[i] = s[i]
  BY <1>2, PrefixProperties DEF Front
<1>4. Last(s) = s[Len(s)] /\ Last(s) \in S
  BY <1>1 DEF Last
<1>. QED  BY <1>1, <1>3, <1>4

-----------------------------------------------------------------------------
(* Operations on the shared memory                                          *)

(* The fields of a memory. *)
LEMMA MemoryFields ==
  ASSUME NEW m \in Memory
  PROVE  /\ m.heap \in [Ptrs -> {"free", "ours", "theirs"}] /\ m.hdr \in [Ptrs -> Nat]
         /\ m.body \in [Ptrs -> Body] /\ m.reg \in [Ptrs -> Entry] /\ m.pinSet \in SUBSET Ptrs
         /\ m.pinVec \in [Ptrs -> Nat] /\ m.valueOf \in [Ptrs -> ObjOrNull \cup {Proxied}]
         /\ m.ptrOf \in [Objs -> PtrOrNull] /\ m.bad \in BOOLEAN
BY DEF Memory

(* Pinning changes the registry, the set and the list, and only of the      *)
(* addresses asked for.                                                     *)
LEMMA PinFacts ==
  ASSUME NEW m \in Memory, NEW S \in SUBSET Ptrs, NEW n, n = Pin(m, S)
  PROVE  /\ n \in Memory
         /\ n.heap = m.heap /\ n.hdr = m.hdr /\ n.body = m.body
         /\ n.valueOf = m.valueOf /\ n.ptrOf = m.ptrOf /\ n.bad = m.bad
         /\ \A p \in Ptrs :
              /\ n.reg[p] = IF p \in S /\ CanPin(m.reg[p]) THEN PinnedEntry(m.reg[p]) ELSE m.reg[p]
              /\ p \in n.pinSet <=> p \in m.pinSet \/ (p \in S /\ CanPin(m.reg[p]))
              /\ p \in n.pinSet => n.pinVec[p] > 0 \/ (p \in m.pinSet /\ n.pinVec[p] = m.pinVec[p])
<1>. DEFINE T == {p \in S : CanPin(m.reg[p])}
            reg == [p \in Ptrs |-> IF p \in T THEN PinnedEntry(m.reg[p]) ELSE m.reg[p]]
            vec == [p \in Ptrs |-> IF p \in T \ m.pinSet THEN m.pinVec[p] + 1 ELSE m.pinVec[p]]
<1>1. n = [m EXCEPT !.reg = reg, !.pinSet = m.pinSet \cup T, !.pinVec = vec]
  BY DEF Pin, Memory
<1>2. reg \in [Ptrs -> Entry]
  <2>1. \A e \in Entry : PinnedEntry(e) \in Entry
    BY DEF PinnedEntry, Entry
  <2>. QED  BY <2>1, MemoryFields
<1>3. vec \in [Ptrs -> Nat] /\ m.pinSet \cup T \in SUBSET Ptrs
  BY MemoryFields
<1>4. /\ n \in Memory
      /\ n.heap = m.heap /\ n.hdr = m.hdr /\ n.body = m.body
      /\ n.valueOf = m.valueOf /\ n.ptrOf = m.ptrOf /\ n.bad = m.bad
      /\ n.reg = reg /\ n.pinSet = m.pinSet \cup T /\ n.pinVec = vec
  <2>. HIDE DEF reg, vec, T
  <2>. QED  BY <1>1, <1>2, <1>3 DEF Memory
<1>. QED  BY <1>3, <1>4, MemoryFields

(* Registering an address keeps its entry well-formed; an entry in use      *)
(* keeps its pins.                                                          *)
LEMMA RegisterFacts ==
  ASSUME NEW m \in Memory, NEW S, NEW n, n = Register(m, S, "owned")
  PROVE  /\ n \in Memory
         /\ n.heap = m.heap /\ n.hdr = m.hdr /\ n.body = m.body /\ n.pinSet = m.pinSet
         /\ n.pinVec = m.pinVec /\ n.valueOf = m.valueOf /\ n.ptrOf = m.ptrOf /\ n.bad = m.bad
         /\ \A p \in Ptrs : n.reg[p] = IF p \in S THEN Registered(m.reg[p], "owned", Null) ELSE m.reg[p]
<1>. DEFINE reg == [p \in Ptrs |-> IF p \in S THEN Registered(m.reg[p], "owned", Null) ELSE m.reg[p]]
<1>1. n = [m EXCEPT !.reg = reg]
  BY DEF Register, Memory
<1>2. reg \in [Ptrs -> Entry]
  <2>1. \A e \in Entry : Registered(e, "owned", Null) \in Entry
    BY DEF Registered, Entry
  <2>. QED  BY <2>1, MemoryFields
<1>3. /\ n \in Memory
      /\ n.heap = m.heap /\ n.hdr = m.hdr /\ n.body = m.body /\ n.pinSet = m.pinSet
      /\ n.pinVec = m.pinVec /\ n.valueOf = m.valueOf /\ n.ptrOf = m.ptrOf /\ n.bad = m.bad
      /\ n.reg = reg
  <2>. HIDE DEF reg
  <2>. QED  BY <1>1, <1>2 DEF Memory
<1>. QED  BY <1>3

(* Releasing empties the addresses and unpins them.                         *)
LEMMA ReleaseFacts ==
  ASSUME NEW m \in Memory, NEW S, NEW n, n = Release(m, S)
  PROVE  /\ n \in Memory
         /\ n.pinVec = m.pinVec /\ n.valueOf = m.valueOf /\ n.ptrOf = m.ptrOf
         /\ n.bad <=> m.bad \/ \E p \in S : m.heap[p] # "ours"
         /\ \A p \in Ptrs :
              /\ n.heap[p] = IF p \in S THEN "free" ELSE m.heap[p]
              /\ n.hdr[p] = IF p \in S THEN 0 ELSE m.hdr[p]
              /\ n.body[p] = IF p \in S THEN NoBody ELSE m.body[p]
              /\ n.reg[p] = IF p \in S THEN FreedEntry(m.reg[p]) ELSE m.reg[p]
              /\ p \in n.pinSet <=> p \in m.pinSet /\ p \notin S
<1>. DEFINE reg == [p \in Ptrs |-> IF p \in S THEN FreedEntry(m.reg[p]) ELSE m.reg[p]]
            heap == [p \in Ptrs |-> IF p \in S THEN "free" ELSE m.heap[p]]
            body == [p \in Ptrs |-> IF p \in S THEN NoBody ELSE m.body[p]]
            hdr == [p \in Ptrs |-> IF p \in S THEN 0 ELSE m.hdr[p]]
            bad == m.bad \/ \E p \in S : m.heap[p] # "ours"
<1>1. n = [m EXCEPT !.bad = bad, !.heap = heap, !.body = body, !.hdr = hdr, !.reg = reg, !.pinSet = @ \ S]
  BY DEF Release, Memory
<1>2. reg \in [Ptrs -> Entry] /\ body \in [Ptrs -> Body]
  <2>1. \A e \in Entry : FreedEntry(e) \in Entry
    BY DEF FreedEntry, Entry
  <2>2. NoBody \in Body
    BY DEF NoBody, Body, PtrOrNull, ObjOrNull
  <2>. QED  BY <2>1, <2>2, MemoryFields
<1>3. heap \in [Ptrs -> {"free", "ours", "theirs"}] /\ hdr \in [Ptrs -> Nat] /\ bad \in BOOLEAN
      /\ m.pinSet \ S \in SUBSET Ptrs
  BY MemoryFields
<1>4. /\ n \in Memory
      /\ n.heap = heap /\ n.hdr = hdr /\ n.body = body /\ n.pinSet = m.pinSet \ S
      /\ n.pinVec = m.pinVec /\ n.valueOf = m.valueOf /\ n.ptrOf = m.ptrOf /\ n.bad = bad
      /\ n.reg = reg
  <2>. HIDE DEF reg, heap, body, hdr, bad
  <2>. QED  BY <1>1, <1>2, <1>3 DEF Memory
<1>. QED  BY <1>4, MemoryFields

(* Forgetting changes only the names of the address.                        *)
LEMMA ForgetFacts ==
  ASSUME NEW m \in Memory, NEW p \in Ptrs, NEW n, n = Forget(m, p)
  PROVE  /\ n \in Memory
         /\ n.heap = m.heap /\ n.hdr = m.hdr /\ n.body = m.body /\ n.reg = m.reg
         /\ n.pinSet = m.pinSet /\ n.pinVec = m.pinVec /\ n.bad = m.bad
         /\ \A q \in Ptrs : n.valueOf[q] = IF q = p THEN Null ELSE m.valueOf[q]
         /\ \A o \in Objs : n.ptrOf[o] = IF o = m.valueOf[p] /\ m.ptrOf[o] = p THEN Null ELSE m.ptrOf[o]
<1>. DEFINE vals == [m.valueOf EXCEPT ![p] = Null]
            ptrs == [x \in Objs |-> IF x = m.valueOf[p] /\ m.ptrOf[x] = p THEN Null ELSE m.ptrOf[x]]
<1>1. n = [m EXCEPT !.valueOf = vals, !.ptrOf = ptrs]
  BY DEF Forget, Memory
<1>2. vals \in [Ptrs -> ObjOrNull \cup {Proxied}] /\ ptrs \in [Objs -> PtrOrNull]
  BY MemoryFields DEF ObjOrNull, PtrOrNull
<1>3. /\ n \in Memory
      /\ n.heap = m.heap /\ n.hdr = m.hdr /\ n.body = m.body /\ n.reg = m.reg
      /\ n.pinSet = m.pinSet /\ n.pinVec = m.pinVec /\ n.bad = m.bad
      /\ n.valueOf = vals /\ n.ptrOf = ptrs
  <2>. HIDE DEF vals, ptrs
  <2>. QED  BY <1>1, <1>2 DEF Memory
<1>. QED  BY <1>3, MemoryFields

(* Recording a value for an address changes only its names.                 *)
LEMMA PersistFacts ==
  ASSUME NEW m \in Memory, NEW p \in Ptrs, NEW o \in ObjOrNull, NEW n, n = Persist(m, o, p)
  PROVE  /\ n \in Memory
         /\ n.heap = m.heap /\ n.hdr = m.hdr /\ n.body = m.body /\ n.reg = m.reg
         /\ n.pinSet = m.pinSet /\ n.pinVec = m.pinVec /\ n.bad = m.bad
         /\ \A q \in Ptrs : n.valueOf[q] = IF q = p THEN o ELSE m.valueOf[q]
         /\ \A x \in Objs : n.ptrOf[x] = IF x = o THEN p ELSE m.ptrOf[x]
<1>. DEFINE vals == [m.valueOf EXCEPT ![p] = o]
            ptrs == [m.ptrOf EXCEPT ![o] = p]
<1>1. n = [m EXCEPT !.valueOf = vals, !.ptrOf = ptrs]
  BY DEF Persist, Memory
<1>2. vals \in [Ptrs -> ObjOrNull \cup {Proxied}] /\ ptrs \in [Objs -> PtrOrNull]
  BY MemoryFields DEF ObjOrNull, PtrOrNull
<1>3. /\ n \in Memory
      /\ n.heap = m.heap /\ n.hdr = m.hdr /\ n.body = m.body /\ n.reg = m.reg
      /\ n.pinSet = m.pinSet /\ n.pinVec = m.pinVec /\ n.bad = m.bad
      /\ n.valueOf = vals /\ n.ptrOf = ptrs
  <2>. HIDE DEF vals, ptrs
  <2>. QED  BY <1>1, <1>2 DEF Memory
<1>. QED  BY <1>3, MemoryFields

(* What foreign references the entries of two memories stand for.           *)
Backs(m, n) == \A p \in Ptrs, k \in Nat : Backed(m.reg[p], k) => Backed(n.reg[p], k)

SameForeign(m, n) ==
  \A p \in Ptrs :
    /\ m.reg[p].prov = "external" <=> n.reg[p].prov = "external"
    /\ m.reg[p].prov = "external" => n.reg[p].pins = m.reg[p].pins

(* No operation on blocks takes or loses a reference to a native object.    *)
LEMMA OperationsBack ==
  ASSUME NEW m \in Memory, NEW S \in SUBSET Ptrs
  PROVE  /\ Backs(m, Pin(m, S)) /\ SameForeign(m, Pin(m, S))
         /\ Backs(m, Register(m, S, "owned"))
         /\ Backs(m, Release(m, S))
<1>1. \A e \in Entry : /\ PinnedEntry(e).prov = "owned" /\ FreedEntry(e).prov = e.prov
                       /\ FreedEntry(e).pins = 0 /\ Registered(e, "owned", Null).prov = "owned"
                       /\ (CanPin(e) <=> e.prov # "external") /\ e.pins \in {0, 1}
  BY DEF PinnedEntry, FreedEntry, Registered, Entry, CanPin
<1>2. PICK n : n = Pin(m, S)
  OBVIOUS
<1>3. Backs(m, n) /\ SameForeign(m, n)
  <2>1. \A p \in Ptrs : n.reg[p] = IF p \in S /\ CanPin(m.reg[p]) THEN PinnedEntry(m.reg[p]) ELSE m.reg[p]
    BY <1>2, PinFacts
  <2>. QED  BY <1>1, <2>1, MemoryFields DEF Backs, SameForeign, Backed
<1>4. PICK r : r = Register(m, S, "owned")
  OBVIOUS
<1>5. Backs(m, r)
  <2>1. \A p \in Ptrs : r.reg[p] = IF p \in S THEN Registered(m.reg[p], "owned", Null) ELSE m.reg[p]
    BY <1>4, RegisterFacts
  <2>. QED  BY <1>1, <2>1, MemoryFields DEF Backs, Backed
<1>6. PICK f : f = Release(m, S)
  OBVIOUS
<1>7. Backs(m, f)
  <2>1. \A p \in Ptrs : f.reg[p] = IF p \in S THEN FreedEntry(m.reg[p]) ELSE m.reg[p]
    BY <1>6, ReleaseFacts
  <2>. QED  BY <1>1, <2>1, MemoryFields DEF Backs, Backed
<1>. QED  BY <1>2, <1>3, <1>4, <1>5, <1>6, <1>7

(* A block of ours is owned, and the set and the registry agree on pins.    *)
LEMMA OwnedFacts ==
  ASSUME NEW m \in Memory, MemoryOK(m), NEW p \in Ptrs
  PROVE  /\ Owned(m, p) <=> m.heap[p] = "ours"
         /\ IsPinned(m, p) <=> Pinned(m, p)
         /\ p \in m.pinSet <=> Pinned(m, p)
         /\ Pinned(m, p) => m.heap[p] = "ours"
         /\ m.heap[p] = "ours" => CanPin(m.reg[p]) /\ m.reg[p].prov = "owned" /\ m.reg[p].life = "alive"
         /\ m.body[p].obj # Null => m.heap[p] = "ours" /\ m.body[p].obj \in Objs
         /\ m.heap[p] = "ours" /\ ~Pinned(m, p) => ShouldFreeNow(m.reg[p])
<1>1. AddressOK(m, p)
  BY DEF MemoryOK
<1>2. m.reg[p] \in Entry /\ m.body[p].obj \in ObjOrNull
  BY MemoryFields DEF Body
<1>. QED  BY <1>1, <1>2 DEF AddressOK, Owned, IsPinned, Pinned, IsOwnedPinned, IsOwnedCompat, CanPin,
               ShouldFreeNow, Entry, ObjOrNull

(* Pinning blocks of ours. *)
LEMMA PinOK ==
  ASSUME NEW m \in Memory, MemoryOK(m), NEW S \in SUBSET Ptrs, \A p \in S : m.heap[p] = "ours",
         NEW n, n = Pin(m, S)
  PROVE  MemoryOK(n) /\ \A p \in Ptrs : Pinned(n, p) <=> Pinned(m, p) \/ p \in S
<1>1. /\ n \in Memory
      /\ n.heap = m.heap /\ n.hdr = m.hdr /\ n.body = m.body
      /\ n.valueOf = m.valueOf /\ n.ptrOf = m.ptrOf /\ n.bad = m.bad
      /\ \A p \in Ptrs :
           /\ n.reg[p] = IF p \in S /\ CanPin(m.reg[p]) THEN PinnedEntry(m.reg[p]) ELSE m.reg[p]
           /\ p \in n.pinSet <=> p \in m.pinSet \/ (p \in S /\ CanPin(m.reg[p]))
           /\ p \in n.pinSet => n.pinVec[p] > 0 \/ (p \in m.pinSet /\ n.pinVec[p] = m.pinVec[p])
  BY PinFacts
<1>2. \A p \in S : CanPin(m.reg[p])
  BY OwnedFacts
<1>3. \A e \in Entry : IsOwnedPinned(PinnedEntry(e)) /\ IsOwnedCompat(PinnedEntry(e)) /\ PinnedEntry(e).life = "alive"
  BY DEF IsOwnedPinned, IsOwnedCompat, PinnedEntry, Entry
<1>4. ASSUME NEW p \in Ptrs PROVE AddressOK(n, p) /\ (Pinned(n, p) <=> Pinned(m, p) \/ p \in S)
  <2>1. AddressOK(m, p) /\ m.reg[p] \in Entry
    BY MemoryFields DEF MemoryOK
  <2>2. n.reg[p] = IF p \in S THEN PinnedEntry(m.reg[p]) ELSE m.reg[p]
    BY <1>1, <1>2
  <2>3. Pinned(n, p) <=> Pinned(m, p) \/ p \in S
    BY <1>3, <2>1, <2>2 DEF Pinned
  <2>4. IsOwnedCompat(n.reg[p]) <=> IsOwnedCompat(m.reg[p]) \/ p \in S
    BY <1>3, <2>1, <2>2
  <2>5. n.reg[p].life = "freed" => n.reg[p] = m.reg[p]
    BY <1>3, <2>1, <2>2
  <2>6. p \in n.pinSet <=> p \in m.pinSet \/ p \in S
    BY <1>1, <1>2
  <2>7. p \in n.pinSet => n.pinVec[p] > 0
    BY <1>1, <2>1 DEF AddressOK
  <2>. QED  BY <1>1, <2>1, <2>3, <2>4, <2>5, <2>6, <2>7 DEF AddressOK
<1>5. \A o \in Objs : NameOK(n, o)
  BY <1>1 DEF MemoryOK, NameOK
<1>. QED  BY <1>1, <1>4, <1>5 DEF MemoryOK

(* Changing names only, to the objects the blocks were made for.            *)
LEMMA NamesOK ==
  ASSUME NEW m \in Memory, MemoryOK(m), NEW n \in Memory,
         n.heap = m.heap, n.body = m.body, n.reg = m.reg, n.pinSet = m.pinSet, n.pinVec = m.pinVec,
         n.bad = m.bad,
         \A p \in Ptrs : n.valueOf[p] = m.valueOf[p] \/ (n.valueOf[p] = m.body[p].obj /\ m.body[p].obj # Null),
         \A o \in Objs : n.ptrOf[o] = m.ptrOf[o] \/ (n.ptrOf[o] \in Ptrs /\ m.body[n.ptrOf[o]].obj = o)
  PROVE  MemoryOK(n)
<1>1. ASSUME NEW p \in Ptrs PROVE AddressOK(n, p)
  BY DEF AddressOK, MemoryOK, Pinned
<1>2. \A o \in Objs : NameOK(n, o)
  BY DEF MemoryOK, NameOK
<1>. QED  BY <1>1, <1>2 DEF MemoryOK

(* Recording the object that is at a block in the VM's tables keeps the     *)
(* invariant.                                                               *)
LEMMA PersistOK ==
  ASSUME NEW m \in Memory, MemoryOK(m), NEW p \in Ptrs, NEW o \in Objs, m.body[p].obj = o,
         NEW n, n = Persist(m, o, p)
  PROVE  MemoryOK(n)
<1>1. o \in ObjOrNull /\ o # Null
  BY CapiAssumption DEF ObjOrNull
<1>2. /\ n \in Memory
      /\ n.heap = m.heap /\ n.hdr = m.hdr /\ n.body = m.body /\ n.reg = m.reg
      /\ n.pinSet = m.pinSet /\ n.pinVec = m.pinVec /\ n.bad = m.bad
      /\ \A q \in Ptrs : n.valueOf[q] = IF q = p THEN o ELSE m.valueOf[q]
      /\ \A x \in Objs : n.ptrOf[x] = IF x = o THEN p ELSE m.ptrOf[x]
  BY <1>1, PersistFacts
<1>3. /\ \A q \in Ptrs : n.valueOf[q] = m.valueOf[q] \/ (n.valueOf[q] = m.body[q].obj /\ m.body[q].obj # Null)
      /\ \A x \in Objs : n.ptrOf[x] = m.ptrOf[x] \/ (n.ptrOf[x] \in Ptrs /\ m.body[n.ptrOf[x]].obj = x)
  BY <1>1, <1>2
<1>. QED  BY <1>2, <1>3, NamesOK

(* What is known of an address after it was released.                       *)
LEMMA Emptied ==
  ASSUME NEW e \in Entry
  PROVE  /\ FreedEntry(e).life = "freed" /\ FreedEntry(e).pins = 0
         /\ ~IsOwnedCompat(FreedEntry(e)) /\ ~IsOwnedPinned(FreedEntry(e))
         /\ NoBody.obj = Null
BY DEF FreedEntry, IsOwnedCompat, IsOwnedPinned, Entry, NoBody

(* Freeing a block after its names were forgotten.                          *)
LEMMA FreeOK ==
  ASSUME NEW m \in Memory, MemoryOK(m), NEW p \in Ptrs, m.heap[p] = "ours",
         NEW n, n = Release(Forget(m, p), {p})
  PROVE  MemoryOK(n)
<1>1. PICK f : f = Forget(m, p)
  OBVIOUS
<1>2. /\ f \in Memory
      /\ f.heap = m.heap /\ f.hdr = m.hdr /\ f.body = m.body /\ f.reg = m.reg
      /\ f.pinSet = m.pinSet /\ f.pinVec = m.pinVec /\ f.bad = m.bad
      /\ \A q \in Ptrs : f.valueOf[q] = IF q = p THEN Null ELSE m.valueOf[q]
      /\ \A o \in Objs : f.ptrOf[o] = IF o = m.valueOf[p] /\ m.ptrOf[o] = p THEN Null ELSE m.ptrOf[o]
  BY <1>1, ForgetFacts
<1>3. /\ n \in Memory
      /\ n.pinVec = f.pinVec /\ n.valueOf = f.valueOf /\ n.ptrOf = f.ptrOf
      /\ n.bad <=> f.bad \/ \E q \in {p} : f.heap[q] # "ours"
      /\ \A q \in Ptrs :
           /\ n.heap[q] = IF q \in {p} THEN "free" ELSE f.heap[q]
           /\ n.body[q] = IF q \in {p} THEN NoBody ELSE f.body[q]
           /\ n.reg[q] = IF q \in {p} THEN FreedEntry(f.reg[q]) ELSE f.reg[q]
           /\ q \in n.pinSet <=> q \in f.pinSet /\ q \notin {p}
  BY <1>1, <1>2, ReleaseFacts
<1>4. ~n.bad
  BY <1>2, <1>3 DEF MemoryOK
<1>5. /\ n.pinVec = m.pinVec
      /\ \A q \in Ptrs :
           /\ n.heap[q] = IF q = p THEN "free" ELSE m.heap[q]
           /\ n.body[q] = IF q = p THEN NoBody ELSE m.body[q]
           /\ n.reg[q] = IF q = p THEN FreedEntry(m.reg[q]) ELSE m.reg[q]
           /\ q \in n.pinSet <=> q \in m.pinSet /\ q # p
           /\ n.valueOf[q] = IF q = p THEN Null ELSE m.valueOf[q]
      /\ \A o \in Objs : n.ptrOf[o] = IF o = m.valueOf[p] /\ m.ptrOf[o] = p THEN Null ELSE m.ptrOf[o]
  BY SMTT(40), <1>2, <1>3
<1>6. ASSUME NEW q \in Ptrs PROVE AddressOK(n, q)
  <2>1. AddressOK(m, q) /\ m.reg[q] \in Entry
    BY MemoryFields DEF MemoryOK
  <2>2. CASE q = p
    <3>1. /\ n.heap[q] = "free" /\ n.body[q] = NoBody /\ n.reg[q] = FreedEntry(m.reg[q])
          /\ q \notin n.pinSet /\ n.valueOf[q] = Null
      BY <1>5, <2>2
    <3>2. Null \notin Objs
      BY CapiAssumption
    <3>3. /\ n.reg[q].life = "freed" /\ n.reg[q].pins = 0 /\ n.body[q].obj = Null
          /\ ~IsOwnedCompat(n.reg[q]) /\ ~Pinned(n, q)
      BY <2>1, <3>1, Emptied DEF Pinned
    <3>. QED  BY <3>1, <3>2, <3>3 DEF AddressOK
  <2>3. CASE q # p
    <3>1. /\ n.heap[q] = m.heap[q] /\ n.body[q] = m.body[q] /\ n.reg[q] = m.reg[q] /\ n.pinVec[q] = m.pinVec[q]
          /\ (q \in n.pinSet <=> q \in m.pinSet) /\ n.valueOf[q] = m.valueOf[q]
      BY <1>5, <2>3
    <3>. QED  BY <2>1, <3>1 DEF AddressOK, Pinned
  <2>. QED  BY <2>2, <2>3
<1>7. ASSUME NEW o \in Objs PROVE NameOK(n, o)
  <2>1. NameOK(m, o) /\ AddressOK(m, p) /\ m.ptrOf[o] \in PtrOrNull /\ o # Null
    BY MemoryFields, CapiAssumption DEF MemoryOK
  <2>2. n.ptrOf[o] = IF o = m.valueOf[p] /\ m.ptrOf[o] = p THEN Null ELSE m.ptrOf[o]
    BY <1>5
  <2>3. m.ptrOf[o] = p => m.valueOf[p] = o
    BY <2>1, CapiAssumption DEF NameOK, AddressOK
  <2>4. n.ptrOf[o] # Null => n.ptrOf[o] = m.ptrOf[o] /\ n.ptrOf[o] # p /\ n.ptrOf[o] \in Ptrs
    BY <2>1, <2>2, <2>3 DEF PtrOrNull
  <2>5. n.ptrOf[o] # Null => n.body[n.ptrOf[o]] = m.body[m.ptrOf[o]]
    BY <1>5, <2>4
  <2>. QED  BY <2>1, <2>4, <2>5 DEF NameOK
<1>. QED  BY <1>4, <1>6, <1>7 DEF MemoryOK

(* Freeing buffers, which have no value.                                    *)
LEMMA ReleaseOK ==
  ASSUME NEW m \in Memory, MemoryOK(m), NEW S \in SUBSET Ptrs,
         \A p \in S : m.heap[p] = "ours" /\ m.body[p].obj = Null,
         NEW n, n = Release(m, S)
  PROVE  MemoryOK(n)
<1>1. /\ n \in Memory
      /\ n.pinVec = m.pinVec /\ n.valueOf = m.valueOf /\ n.ptrOf = m.ptrOf
      /\ n.bad <=> m.bad \/ \E q \in S : m.heap[q] # "ours"
      /\ \A q \in Ptrs :
           /\ n.heap[q] = IF q \in S THEN "free" ELSE m.heap[q]
           /\ n.body[q] = IF q \in S THEN NoBody ELSE m.body[q]
           /\ n.reg[q] = IF q \in S THEN FreedEntry(m.reg[q]) ELSE m.reg[q]
           /\ q \in n.pinSet <=> q \in m.pinSet /\ q \notin S
  BY ReleaseFacts
<1>2. ~n.bad
  BY <1>1 DEF MemoryOK
<1>3. ASSUME NEW q \in Ptrs PROVE AddressOK(n, q)
  <2>1. AddressOK(m, q) /\ m.reg[q] \in Entry
    BY MemoryFields DEF MemoryOK
  <2>2. CASE q \in S
    <3>1. /\ n.heap[q] = "free" /\ n.body[q] = NoBody /\ n.reg[q] = FreedEntry(m.reg[q])
          /\ q \notin n.pinSet /\ n.valueOf[q] = m.valueOf[q]
      BY <1>1, <2>2
    <3>2. m.valueOf[q] \notin Objs
      BY <2>1, <2>2, CapiAssumption DEF AddressOK
    <3>. QED  BY <2>1, <3>1, <3>2, Emptied DEF AddressOK, Pinned
  <2>3. CASE q \notin S
    <3>1. /\ n.heap[q] = m.heap[q] /\ n.body[q] = m.body[q] /\ n.reg[q] = m.reg[q] /\ n.pinVec[q] = m.pinVec[q]
          /\ (q \in n.pinSet <=> q \in m.pinSet) /\ n.valueOf[q] = m.valueOf[q]
      BY <1>1, <2>3
    <3>. QED  BY <2>1, <3>1 DEF AddressOK, Pinned
  <2>. QED  BY <2>2, <2>3
<1>4. ASSUME NEW o \in Objs PROVE NameOK(n, o)
  <2>1. NameOK(m, o) /\ m.ptrOf[o] \in PtrOrNull /\ o # Null /\ n.ptrOf[o] = m.ptrOf[o]
    BY <1>1, MemoryFields, CapiAssumption DEF MemoryOK
  <2>2. n.ptrOf[o] # Null => n.ptrOf[o] \in Ptrs \ S
    <3>1. n.ptrOf[o] # Null => m.body[m.ptrOf[o]].obj = o /\ m.ptrOf[o] \in Ptrs
      BY <2>1 DEF NameOK, PtrOrNull
    <3>. QED  BY <2>1, <3>1
  <2>3. n.ptrOf[o] # Null => n.body[n.ptrOf[o]] = m.body[m.ptrOf[o]]
    BY <1>1, <2>1, <2>2
  <2>. QED  BY <2>1, <2>3 DEF NameOK
<1>. QED  BY <1>2, <1>3, <1>4 DEF MemoryOK

-----------------------------------------------------------------------------
(* The end of a context                                                     *)

(* The children of a block are pinned, and named as the context knows them. *)
LEMMA PinChildrenFacts ==
  ASSUME NEW m \in Memory, NEW c \in Context, NEW p \in Ptrs, NEW n, n = PinChildren(m, c, p)
  PROVE  /\ Children(m, p) \in SUBSET Ptrs /\ n \in Memory
         /\ n.heap = m.heap /\ n.hdr = m.hdr /\ n.body = m.body /\ n.bad = m.bad
         /\ n.reg = Pin(m, Children(m, p)).reg
         /\ n.pinSet = Pin(m, Children(m, p)).pinSet /\ n.pinVec = Pin(m, Children(m, p)).pinVec
         /\ \A q \in Ptrs : \/ n.valueOf[q] = m.valueOf[q]
                            \/ q \in Children(m, p) /\ c.objBy[q] # Null /\ n.valueOf[q] = c.objBy[q]
         /\ \A o \in Objs : \/ n.ptrOf[o] = m.ptrOf[o]
                            \/ n.ptrOf[o] \in Children(m, p) /\ c.objBy[n.ptrOf[o]] = o
<1>. DEFINE S == Children(m, p)
            named == {q \in S : c.objBy[q] # Null}
            vals == [q \in Ptrs |-> IF q \in named THEN c.objBy[q] ELSE m.valueOf[q]]
            ptrs == [o \in Objs |-> IF \E q \in named : c.objBy[q] = o
                                    THEN CHOOSE q \in named : c.objBy[q] = o ELSE m.ptrOf[o]]
<1>1. S \in SUBSET Ptrs
  <2>1. m.body[p] \in Body
    BY MemoryFields
  <2>. QED  BY <2>1 DEF Body, Children, PtrOrNull
<1>2. PICK r : r = Pin(m, S)
  OBVIOUS
<1>3. /\ r \in Memory
      /\ r.heap = m.heap /\ r.hdr = m.hdr /\ r.body = m.body
      /\ r.valueOf = m.valueOf /\ r.ptrOf = m.ptrOf /\ r.bad = m.bad
  BY <1>1, <1>2, PinFacts
<1>4. n = [r EXCEPT !.valueOf = vals, !.ptrOf = ptrs]
  <2>1. n = Named(r, c, named)
    BY <1>2 DEF PinChildren
  <2>. HIDE DEF named
  <2>2. Named(r, c, named) = [r EXCEPT !.valueOf = vals, !.ptrOf = ptrs]
    BY <1>3 DEF Named, Memory
  <2>. QED  BY <2>1, <2>2
<1>5. vals \in [Ptrs -> ObjOrNull \cup {Proxied}] /\ ptrs \in [Objs -> PtrOrNull]
  <2>1. c.objBy \in [Ptrs -> ObjOrNull]
    BY DEF Context
  <2>2. \A o \in Objs : (\E q \in named : c.objBy[q] = o) => (CHOOSE q \in named : c.objBy[q] = o) \in named
    OBVIOUS
  <2>. QED  BY <1>1, <2>1, <2>2, MemoryFields DEF PtrOrNull
<1>6. /\ n \in Memory
      /\ n.heap = r.heap /\ n.hdr = r.hdr /\ n.body = r.body /\ n.reg = r.reg
      /\ n.pinSet = r.pinSet /\ n.pinVec = r.pinVec /\ n.bad = r.bad
      /\ n.valueOf = vals /\ n.ptrOf = ptrs
  <2>. HIDE DEF vals, ptrs
  <2>. QED  BY <1>3, <1>4, <1>5 DEF Memory
<1>7. \A o \in Objs : (\E q \in named : c.objBy[q] = o) => 
         (CHOOSE q \in named : c.objBy[q] = o) \in S /\ c.objBy[CHOOSE q \in named : c.objBy[q] = o] = o
  OBVIOUS
<1>8. /\ \A q \in Ptrs : \/ vals[q] = m.valueOf[q]
                         \/ q \in S /\ c.objBy[q] # Null /\ vals[q] = c.objBy[q]
      /\ \A o \in Objs : ptrs[o] = m.ptrOf[o] \/ (ptrs[o] \in S /\ c.objBy[ptrs[o]] = o)
  <2>. HIDE DEF S
  <2>. QED  BY <1>7
<1>. HIDE DEF vals, ptrs
<1>. QED  BY <1>1, <1>2, <1>3, <1>6, <1>8

(* The context is right about the blocks that are ours.                     *)
Knows(m, c) == \A q \in Ptrs : m.heap[q] = "ours" /\ c.objBy[q] # Null => m.body[q].obj = c.objBy[q]

(* It pins blocks of ours only, a bytearray's buffer among them.            *)
LEMMA PinChildrenOK ==
  ASSUME NEW m \in Memory, MemoryOK(m), NEW c \in Context, Knows(m, c),
         NEW p \in Ptrs, NEW n, n = PinChildren(m, c, p)
  PROVE  /\ MemoryOK(n) /\ SameForeign(m, n)
         /\ \A q \in Ptrs : Pinned(m, q) => Pinned(n, q)
         /\ IsByteArray(m, p) /\ m.body[p].buf # Null /\ m.heap[m.body[p].buf] = "ours"
              => Pinned(n, m.body[p].buf)
<1>. DEFINE S == Children(m, p)
<1>1. PICK r : r = Pin(m, S)
  OBVIOUS
<1>2. /\ S \in SUBSET Ptrs /\ n \in Memory
      /\ n.heap = m.heap /\ n.hdr = m.hdr /\ n.body = m.body /\ n.bad = m.bad
      /\ n.reg = r.reg /\ n.pinSet = r.pinSet /\ n.pinVec = r.pinVec
      /\ \A q \in Ptrs : \/ n.valueOf[q] = m.valueOf[q]
                         \/ q \in S /\ c.objBy[q] # Null /\ n.valueOf[q] = c.objBy[q]
      /\ \A o \in Objs : \/ n.ptrOf[o] = m.ptrOf[o]
                         \/ n.ptrOf[o] \in S /\ c.objBy[n.ptrOf[o]] = o
  BY <1>1, PinChildrenFacts
<1>3. \A q \in S : m.heap[q] = "ours"
  BY <1>2, OwnedFacts DEF Children
<1>4. /\ r \in Memory
      /\ r.heap = m.heap /\ r.body = m.body /\ r.bad = m.bad
      /\ r.valueOf = m.valueOf /\ r.ptrOf = m.ptrOf
  BY <1>1, <1>2, PinFacts
<1>5. MemoryOK(r) /\ \A q \in Ptrs : Pinned(r, q) <=> Pinned(m, q) \/ q \in S
  BY <1>1, <1>2, <1>3, PinOK
<1>6. SameForeign(m, r)
  BY <1>1, <1>2, OperationsBack
<1>7. \A q \in S : c.objBy[q] # Null => m.body[q].obj = c.objBy[q]
  BY <1>2, <1>3 DEF Knows
<1>8. IsByteArray(m, p) /\ m.body[p].buf # Null /\ m.heap[m.body[p].buf] = "ours" => m.body[p].buf \in S
  <2>1. SUFFICES ASSUME IsByteArray(m, p), m.body[p].buf # Null, m.heap[m.body[p].buf] = "ours"
                 PROVE  m.body[p].buf \in S
    OBVIOUS
  <2>2. m.body[p].buf \in Ptrs
    BY <2>1, MemoryFields DEF Body, PtrOrNull
  <2>3. Owned(m, m.body[p].buf)
    BY <2>1, <2>2, OwnedFacts
  <2>. QED  BY <2>1, <2>3 DEF Children, IsByteArray
<1>. HIDE DEF S
<1>9. Null \notin Objs
  BY CapiAssumption
<1>10. /\ \A q \in Ptrs : n.valueOf[q] = r.valueOf[q] \/ (n.valueOf[q] = r.body[q].obj /\ r.body[q].obj # Null)
       /\ \A o \in Objs : n.ptrOf[o] = r.ptrOf[o] \/ (n.ptrOf[o] \in Ptrs /\ r.body[n.ptrOf[o]].obj = o)
  BY <1>2, <1>4, <1>7, <1>9
<1>11. MemoryOK(n)
  BY <1>2, <1>4, <1>5, <1>10, NamesOK
<1>12. SameForeign(m, n) /\ \A q \in Ptrs : Pinned(n, q) <=> Pinned(r, q)
  BY <1>2, <1>6 DEF SameForeign, Pinned
<1>. QED  BY <1>2, <1>5, <1>8, <1>11, <1>12

(* What the loop of Drop carries: the memory, the escaped objects, a flag.  *)
LoopState == [m : Memory, escaped : SUBSET ObjOrNull, aux : BOOLEAN]

(* The parts of a dropped block's path: its count goes down, it is kept.    *)
Lowered(m, p) == [m EXCEPT !.hdr[p] = @ - 1]

Kept(m, c, p) == Persist(Pin(m, {p}), c.objBy[p], p)

(* What becomes of the memory when a block is dropped.                      *)
DropResult(m, c, p, n) ==
  LET kind == Kind[c.objBy[p]]
  IN  \/ c.keep /\ n = Kept(m, c, p)
      \/ IsPinned(m, p) /\ n = PinChildren(m, c, p)
      \/ kind \in {"wrapper", "interned"} /\ n = PinChildren(Kept(m, c, p), c, p)
      \/ m.hdr[p] > 1 /\ n = PinChildren(Kept(Lowered(m, p), c, p), c, p)
      \/ ~c.keep /\ ~IsPinned(m, p) /\ ~(m.hdr[p] > 1) /\ n = FreeOrPin(m, p)

(* A state of the loop, from its three parts.                               *)
State(m, escaped, aux) == [m |-> m, escaped |-> escaped, aux |-> aux]

(* The operators of Drop seen on a state of the loop in three parts.        *)
LEMMA StateType ==
  ASSUME NEW m, NEW e \in SUBSET ObjOrNull, NEW u \in BOOLEAN
  PROVE  State(m, e, u).m = m /\ (m \in Memory => State(m, e, u) \in LoopState)
BY DEF State, LoopState

(* WithChildren changes the memory only.                                    *)
LEMMA StateChildren ==
  ASSUME NEW c, NEW p, NEW m, NEW e, NEW u, NEW a, a = State(m, e, u)
  PROVE  WithChildren(a, c, p) = State(PinChildren(m, c, p), e, u)
BY DEF State, WithChildren

(* Escape keeps the block; which object it notes is of no matter here.      *)
LEMMA StateEscape ==
  ASSUME NEW c, NEW p, NEW m, NEW e \in SUBSET ObjOrNull, NEW u \in BOOLEAN, NEW v \in BOOLEAN,
         c.objBy[p] \in ObjOrNull
  PROVE  \E f \in SUBSET ObjOrNull, w \in BOOLEAN :
           Escape(State(m, e, u), c, p, v) = State(Kept(m, c, p), f, w)
<1>1. PICK a : a = State(m, e, u)
  OBVIOUS
<1>2. a.m = m /\ a.escaped = e /\ a.aux = u
  BY <1>1 DEF State
<1>3. PICK f, w : f = e \cup {c.objBy[p]} /\ w = (u \/ v)
  OBVIOUS
<1>4. f \in SUBSET ObjOrNull /\ w \in BOOLEAN
  BY <1>3
<1>5. Escape(a, c, p, v) = State(Kept(m, c, p), f, w)
  BY <1>2, <1>3, Zenon DEF Escape, State, Kept
<1>. QED  BY <1>1, <1>4, <1>5

(* An update of the memory in a state.                                      *)
LEMMA StateFreed ==
  ASSUME NEW m, NEW e, NEW u, NEW n
  PROVE  [State(m, e, u) EXCEPT !.m = n] = State(n, e, u)
BY DEF State

(* The same for one count.                                                  *)
LEMMA StateLowered ==
  ASSUME NEW m \in Memory, NEW e, NEW u, NEW p \in Ptrs
  PROVE  [State(m, e, u) EXCEPT !.m.hdr[p] = @ - 1] = State(Lowered(m, p), e, u)
BY DEF State, Lowered, Memory

(* DropBlock ends in one of the ways that DropResult lists.                 *)
LEMMA DropCases ==
  ASSUME NEW a \in LoopState, NEW c \in Context, NEW p \in Ptrs
  PROVE  /\ DropResult(a.m, c, p, DropBlock(a, c, p).m)
         /\ DropBlock(a, c, p).m \in Memory => DropBlock(a, c, p) \in LoopState
<1>. DEFINE b == DropBlock(a, c, p)
            kind == Kind[c.objBy[p]]
<1>1. /\ a.m \in Memory /\ a.escaped \in SUBSET ObjOrNull /\ a.aux \in BOOLEAN
      /\ a = State(a.m, a.escaped, a.aux) /\ c.objBy[p] \in ObjOrNull
  BY DEF LoopState, Context, State
<1>2. PICK m, e, u : m = a.m /\ e = a.escaped /\ u = a.aux
  OBVIOUS
<1>3. /\ m \in Memory /\ e \in SUBSET ObjOrNull /\ u \in BOOLEAN /\ a = State(m, e, u)
      /\ e \cup {c.objBy[p]} \in SUBSET ObjOrNull
  BY <1>1, <1>2
<1>4. SUFFICES \E n : \E f \in SUBSET ObjOrNull, v \in BOOLEAN : b = State(n, f, v) /\ DropResult(m, c, p, n)
  BY <1>2, StateType
<1>5. CASE c.keep
  <2>1. b = Escape(a, c, p, TRUE)
    BY <1>5 DEF DropBlock
  <2>2. PICK v \in BOOLEAN : v = TRUE
    OBVIOUS
  <2>3. b = Escape(State(m, e, u), c, p, v)
    BY <1>3, <2>1, <2>2, Zenon
  <2>4. DropResult(m, c, p, Kept(m, c, p))
    BY <1>5 DEF DropResult
  <2>. QED  BY <1>1, <1>3, <2>3, <2>4, StateEscape
<1>6. CASE ~c.keep /\ IsPinned(m, p)
  <2>1. b = WithChildren(a, c, p)
    BY <1>2, <1>6, Zenon DEF DropBlock
  <2>2. b = State(PinChildren(m, c, p), e, u)
    BY <1>3, <2>1, StateChildren
  <2>3. DropResult(m, c, p, PinChildren(m, c, p))
    BY <1>6 DEF DropResult
  <2>. QED  BY <1>3, <2>2, <2>3
<1>7. CASE ~c.keep /\ ~IsPinned(m, p) /\ kind \in {"wrapper", "interned"}
  <2>1. b = WithChildren(Escape(a, c, p, kind = "interned"), c, p)
    BY <1>2, <1>7, Zenon DEF DropBlock
  <2>2. PICK v \in BOOLEAN : v = (kind = "interned")
    OBVIOUS
  <2>3. b = WithChildren(Escape(State(m, e, u), c, p, v), c, p)
    BY <1>3, <2>1, <2>2, Zenon
  <2>4. PICK f \in SUBSET ObjOrNull, w \in BOOLEAN : Escape(State(m, e, u), c, p, v) = State(Kept(m, c, p), f, w)
    BY <1>1, <1>3, StateEscape
  <2>5. b = State(PinChildren(Kept(m, c, p), c, p), f, w)
    BY <2>3, <2>4, StateChildren
  <2>6. DropResult(m, c, p, PinChildren(Kept(m, c, p), c, p))
    BY <1>7 DEF DropResult
  <2>. QED  BY <2>5, <2>6
<1>8. CASE ~c.keep /\ ~IsPinned(m, p) /\ kind \notin {"wrapper", "interned"} /\ m.hdr[p] > 1
  <2>1. b = WithChildren(Escape([a EXCEPT !.m.hdr[p] = @ - 1], c, p, TRUE), c, p)
    BY <1>2, <1>8, Zenon DEF DropBlock
  <2>2. PICK v \in BOOLEAN : v = TRUE
    OBVIOUS
  <2>3. [a EXCEPT !.m.hdr[p] = @ - 1] = State(Lowered(m, p), e, u)
    BY <1>3, StateLowered
  <2>4. b = WithChildren(Escape(State(Lowered(m, p), e, u), c, p, v), c, p)
    BY <2>1, <2>2, <2>3, Zenon
  <2>5. PICK f \in SUBSET ObjOrNull, w \in BOOLEAN :
          Escape(State(Lowered(m, p), e, u), c, p, v) = State(Kept(Lowered(m, p), c, p), f, w)
    BY <1>1, <1>3, StateEscape
  <2>6. b = State(PinChildren(Kept(Lowered(m, p), c, p), c, p), f, w)
    BY <2>4, <2>5, StateChildren
  <2>7. DropResult(m, c, p, PinChildren(Kept(Lowered(m, p), c, p), c, p))
    BY <1>8 DEF DropResult
  <2>. QED  BY <2>6, <2>7
<1>9. CASE ~c.keep /\ ~IsPinned(m, p) /\ kind \notin {"wrapper", "interned"} /\ ~(m.hdr[p] > 1)
  <2>1. b = [a EXCEPT !.m = FreeOrPin(m, p)]
    BY <1>2, <1>9 DEF DropBlock
  <2>2. b = State(FreeOrPin(m, p), e, u)
    BY <1>3, <2>1, StateFreed
  <2>3. DropResult(m, c, p, FreeOrPin(m, p))
    BY <1>9 DEF DropResult
  <2>. QED  BY <1>3, <2>2, <2>3
<1>. QED  BY <1>5, <1>6, <1>7, <1>8, <1>9

(* Each operation keeps the memory's type and its foreign references.       *)
LEMMA BacksTransitive ==
  ASSUME NEW m, NEW n, NEW r, Backs(m, n), Backs(n, r)
  PROVE  Backs(m, r)
BY DEF Backs

(* Where the registry is the same, so is what it says of native objects.    *)
LEMMA SameEntriesBack ==
  ASSUME NEW m, NEW n, n.reg = m.reg
  PROVE  Backs(m, n) /\ SameForeign(m, n) /\ \A p : Pinned(n, p) <=> Pinned(m, p)
BY DEF Backs, SameForeign, Pinned

(* Keeping a block is a step from memory to memory.                         *)
LEMMA KeptTyped ==
  ASSUME NEW m \in Memory, NEW c \in Context, NEW p \in Ptrs, NEW n, n = Kept(m, c, p)
  PROVE  /\ n \in Memory /\ Backs(m, n) /\ SameForeign(m, n)
         /\ n.heap = m.heap /\ n.hdr = m.hdr /\ n.body = m.body
<1>1. PICK r : r = Pin(m, {p})
  OBVIOUS
<1>2. /\ r \in Memory /\ Backs(m, r) /\ SameForeign(m, r)
      /\ r.heap = m.heap /\ r.hdr = m.hdr /\ r.body = m.body
  BY <1>1, PinFacts, OperationsBack
<1>3. c.objBy[p] \in ObjOrNull
  BY DEF Context
<1>4. /\ n \in Memory /\ n.reg = r.reg
      /\ n.heap = m.heap /\ n.hdr = m.hdr /\ n.body = m.body
  BY <1>1, <1>2, <1>3, PersistFacts DEF Kept
<1>. QED  BY <1>2, <1>4 DEF Backs, SameForeign

(* So is pinning what it refers to,                                         *)
LEMMA ChildrenTyped ==
  ASSUME NEW m \in Memory, NEW c \in Context, NEW p \in Ptrs, NEW n, n = PinChildren(m, c, p)
  PROVE  /\ n \in Memory /\ Backs(m, n) /\ SameForeign(m, n)
         /\ n.heap = m.heap /\ n.hdr = m.hdr /\ n.body = m.body
<1>1. PICK r : r = Pin(m, Children(m, p))
  OBVIOUS
<1>2. /\ Children(m, p) \in SUBSET Ptrs /\ n \in Memory /\ n.reg = r.reg
      /\ n.heap = m.heap /\ n.hdr = m.hdr /\ n.body = m.body
  BY <1>1, PinChildrenFacts
<1>3. Backs(m, r) /\ SameForeign(m, r)
  BY <1>1, <1>2, OperationsBack
<1>. QED  BY <1>2, <1>3 DEF Backs, SameForeign

(* lowering its count,                                                      *)
LEMMA LoweredTyped ==
  ASSUME NEW m \in Memory, NEW p \in Ptrs, m.hdr[p] > 1, NEW n, n = Lowered(m, p)
  PROVE  /\ n \in Memory /\ n.reg = m.reg /\ n.heap = m.heap /\ n.body = m.body
         /\ n.pinSet = m.pinSet /\ n.pinVec = m.pinVec /\ n.valueOf = m.valueOf /\ n.ptrOf = m.ptrOf
         /\ n.bad = m.bad
         /\ \A q \in Ptrs : n.hdr[q] = IF q = p THEN m.hdr[p] - 1 ELSE m.hdr[q]
<1>. DEFINE hdr == [m.hdr EXCEPT ![p] = @ - 1]
<1>1. n = [m EXCEPT !.hdr = hdr]
  BY DEF Lowered, Memory
<1>2. hdr \in [Ptrs -> Nat]
  BY MemoryFields
<1>3. n \in Memory /\ n.reg = m.reg /\ n.heap = m.heap /\ n.body = m.body /\ n.hdr = hdr
      /\ n.pinSet = m.pinSet /\ n.pinVec = m.pinVec /\ n.valueOf = m.valueOf /\ n.ptrOf = m.ptrOf
      /\ n.bad = m.bad
  <2>. HIDE DEF hdr
  <2>. QED  BY <1>1, <1>2 DEF Memory
<1>. QED  BY <1>3, MemoryFields

(* freeing it unless it is pinned,                                          *)
LEMMA FreeTyped ==
  ASSUME NEW m \in Memory, NEW p \in Ptrs, NEW n, n = FreeOrPin(m, p)
  PROVE  n \in Memory /\ Backs(m, n)
<1>1. CASE ShouldFreeNow(m.reg[p])
  <2>1. PICK f : f = Forget(m, p)
    OBVIOUS
  <2>2. f \in Memory /\ f.reg = m.reg
    BY <2>1, ForgetFacts
  <2>3. n = Release(f, {p})
    BY <1>1, <2>1 DEF FreeOrPin
  <2>4. n \in Memory /\ Backs(f, n)
    BY <2>2, <2>3, ReleaseFacts, OperationsBack
  <2>. QED  BY <2>2, <2>4 DEF Backs
<1>2. CASE ~ShouldFreeNow(m.reg[p])
  <2>1. n = Pin(m, {p})
    BY <1>2 DEF FreeOrPin
  <2>. QED  BY <2>1, PinFacts, OperationsBack
<1>. QED  BY <1>1, <1>2

(* and dropping it.                                                         *)
LEMMA DropTyped ==
  ASSUME NEW a \in LoopState, NEW c \in Context, NEW p \in Ptrs
  PROVE  DropBlock(a, c, p) \in LoopState /\ Backs(a.m, DropBlock(a, c, p).m)
<1>1. PICK m, n : m = a.m /\ n = DropBlock(a, c, p).m
  OBVIOUS
<1>2. m \in Memory /\ DropResult(m, c, p, n)
  BY <1>1, DropCases DEF LoopState
<1>3. PICK k : k = Kept(m, c, p)
  OBVIOUS
<1>4. k \in Memory /\ Backs(m, k)
  BY <1>2, <1>3, KeptTyped
<1>5. n \in Memory /\ Backs(m, n)
  <2>1. CASE n = k
    BY <1>4, <2>1
  <2>2. CASE n = PinChildren(m, c, p)
    BY <1>2, <2>2, ChildrenTyped
  <2>3. CASE n = PinChildren(k, c, p)
    BY <1>4, <2>3, ChildrenTyped, BacksTransitive
  <2>4. CASE m.hdr[p] > 1 /\ n = PinChildren(Kept(Lowered(m, p), c, p), c, p)
    <3>1. PICK l, r : l = Lowered(m, p) /\ r = Kept(l, c, p)
      OBVIOUS
    <3>2. l \in Memory /\ l.reg = m.reg
      BY <1>2, <2>4, <3>1, LoweredTyped
    <3>3. r \in Memory /\ Backs(l, r)
      BY <3>1, <3>2, KeptTyped
    <3>4. n \in Memory /\ Backs(r, n)
      BY <2>4, <3>1, <3>3, ChildrenTyped
    <3>. QED  BY <3>2, <3>3, <3>4, SameEntriesBack, BacksTransitive
  <2>5. CASE n = FreeOrPin(m, p)
    BY <1>2, <2>5, FreeTyped
  <2>. QED  BY <1>2, <1>3, <2>1, <2>2, <2>3, <2>4, <2>5 DEF DropResult
<1>. QED  BY <1>1, <1>5, DropCases

(* The buffer of a kept bytearray is kept with it.                          *)
BufferPinned(m, n, p) ==
  LET b == m.body[p].buf
  IN  IsByteArray(m, p) /\ b # Null /\ m.heap[b] = "ours" /\ m.body[b].obj = Null => Pinned(n, b)

SameBlock(m, n, q) == n.heap[q] = m.heap[q] /\ n.body[q] = m.body[q]

(* A dropped block stays with the VM, and a bytearray's buffer with it, or  *)
(* goes because nothing pins it and nothing counts a reference to it.       *)
Dropped(m, n, c, p) ==
  \/ SameBlock(m, n, p) /\ Pinned(n, p) /\ (c.keep \/ BufferPinned(m, n, p))
  \/ n.heap[p] = "free" /\ n.body[p].obj = Null /\ ~Pinned(m, p) /\ ~(m.hdr[p] > 1)

PinsGrow(m, n) == \A q \in Ptrs : Pinned(m, q) => Pinned(n, q)

(* A block that is kept is pinned and named.                                *)
LEMMA KeptOK ==
  ASSUME NEW m \in Memory, MemoryOK(m), NEW c \in Context, NEW p \in Ptrs,
         m.body[p].obj = c.objBy[p], c.objBy[p] # Null, NEW n, n = Kept(m, c, p)
  PROVE  MemoryOK(n) /\ PinsGrow(m, n) /\ Pinned(n, p)
<1>1. PICK r : r = Pin(m, {p})
  OBVIOUS
<1>2. m.heap[p] = "ours" /\ c.objBy[p] \in Objs
  BY OwnedFacts
<1>3. /\ r \in Memory /\ r.body = m.body
      /\ MemoryOK(r) /\ \A q \in Ptrs : Pinned(r, q) <=> Pinned(m, q) \/ q \in {p}
  BY <1>1, <1>2, PinFacts, PinOK
<1>4. MemoryOK(n)
  BY <1>1, <1>2, <1>3, PersistOK DEF Kept
<1>5. n.reg = r.reg
  BY <1>1, <1>2, <1>3, PersistFacts DEF Kept, ObjOrNull
<1>. QED  BY <1>3, <1>4, <1>5 DEF Pinned, PinsGrow

(* A count does not matter to the tables.                                   *)
LEMMA LoweredOK ==
  ASSUME NEW m \in Memory, MemoryOK(m), NEW p \in Ptrs, m.hdr[p] > 1, NEW n, n = Lowered(m, p)
  PROVE  MemoryOK(n)
<1>1. /\ n.reg = m.reg /\ n.heap = m.heap /\ n.body = m.body
      /\ n.pinSet = m.pinSet /\ n.pinVec = m.pinVec /\ n.valueOf = m.valueOf /\ n.ptrOf = m.ptrOf
      /\ n.bad = m.bad
  BY LoweredTyped
<1>. QED  BY <1>1 DEF MemoryOK, AddressOK, NameOK, Pinned

(* The children of a block that is kept. *)
LEMMA KeptChildrenOK ==
  ASSUME NEW m \in Memory, MemoryOK(m), NEW c \in Context, Knows(m, c), NEW p \in Ptrs,
         m.body[p].obj = c.objBy[p], c.objBy[p] # Null, NEW n, n = PinChildren(Kept(m, c, p), c, p)
  PROVE  /\ MemoryOK(n) /\ PinsGrow(m, n) /\ Pinned(n, p) /\ BufferPinned(m, n, p) /\ SameForeign(m, n)
         /\ n.heap = m.heap /\ n.body = m.body /\ n.hdr = m.hdr
<1>1. PICK k : k = Kept(m, c, p)
  OBVIOUS
<1>2. /\ k \in Memory /\ k.heap = m.heap /\ k.body = m.body /\ k.hdr = m.hdr /\ SameForeign(m, k)
      /\ MemoryOK(k) /\ PinsGrow(m, k) /\ Pinned(k, p)
  BY <1>1, KeptTyped, KeptOK
<1>3. Knows(k, c)
  BY <1>2 DEF Knows
<1>4. /\ MemoryOK(n) /\ SameForeign(k, n) /\ PinsGrow(k, n)
      /\ IsByteArray(k, p) /\ k.body[p].buf # Null /\ k.heap[k.body[p].buf] = "ours"
           => Pinned(n, k.body[p].buf)
      /\ n.heap = k.heap /\ n.body = k.body /\ n.hdr = k.hdr
  BY <1>1, <1>2, <1>3, PinChildrenOK, ChildrenTyped DEF PinsGrow
<1>5. BufferPinned(m, n, p)
  BY <1>2, <1>4 DEF BufferPinned, IsByteArray
<1>6. SameForeign(m, n)
  BY <1>2, <1>4 DEF SameForeign
<1>. QED  BY <1>2, <1>4, <1>5, <1>6 DEF PinsGrow

(* What dropping a block leaves alone.                                      *)
Elsewhere(m, n, p) ==
  \A q \in Ptrs : q # p => SameBlock(m, n, q) /\ n.hdr[q] = m.hdr[q] /\ (Pinned(m, q) => Pinned(n, q))

(* A dropped block is kept with its buffer or has gone; the rest of the     *)
(* memory stays.                                                            *)
LEMMA DropOK ==
  ASSUME NEW m \in Memory, MemoryOK(m), NEW c \in Context, Knows(m, c), NEW p \in Ptrs,
         m.body[p].obj = c.objBy[p], c.objBy[p] # Null, NEW n, DropResult(m, c, p, n)
  PROVE  MemoryOK(n) /\ Elsewhere(m, n, p) /\ Dropped(m, n, c, p) /\ SameForeign(m, n)
<1>1. m.heap[p] = "ours" /\ (IsPinned(m, p) <=> Pinned(m, p))
  BY OwnedFacts
<1>2. CASE c.keep /\ n = Kept(m, c, p)
  <2>1. /\ n.heap = m.heap /\ n.body = m.body /\ n.hdr = m.hdr /\ SameForeign(m, n)
        /\ MemoryOK(n) /\ PinsGrow(m, n) /\ Pinned(n, p)
    BY <1>2, KeptTyped, KeptOK
  <2>. QED  BY <1>2, <2>1 DEF Elsewhere, Dropped, SameBlock, PinsGrow
<1>3. CASE IsPinned(m, p) /\ n = PinChildren(m, c, p)
  <2>1. /\ n.heap = m.heap /\ n.body = m.body /\ n.hdr = m.hdr /\ SameForeign(m, n)
        /\ MemoryOK(n) /\ PinsGrow(m, n) /\ BufferPinned(m, n, p)
    BY <1>3, ChildrenTyped, PinChildrenOK DEF PinsGrow, BufferPinned
  <2>. QED  BY <1>1, <1>3, <2>1 DEF Elsewhere, Dropped, SameBlock, PinsGrow
<1>4. CASE n = PinChildren(Kept(m, c, p), c, p)
  <2>1. /\ MemoryOK(n) /\ PinsGrow(m, n) /\ Pinned(n, p) /\ BufferPinned(m, n, p) /\ SameForeign(m, n)
        /\ n.heap = m.heap /\ n.body = m.body /\ n.hdr = m.hdr
    BY <1>4, KeptChildrenOK
  <2>. QED  BY <2>1 DEF Elsewhere, Dropped, SameBlock, PinsGrow
<1>5. CASE m.hdr[p] > 1 /\ n = PinChildren(Kept(Lowered(m, p), c, p), c, p)
  <2>1. PICK l : l = Lowered(m, p)
    OBVIOUS
  <2>2. /\ l \in Memory /\ MemoryOK(l) /\ l.reg = m.reg /\ l.heap = m.heap /\ l.body = m.body
        /\ \A q \in Ptrs : l.hdr[q] = IF q = p THEN m.hdr[p] - 1 ELSE m.hdr[q]
    BY <1>5, <2>1, LoweredTyped, LoweredOK
  <2>3. Knows(l, c) /\ l.body[p].obj = c.objBy[p]
    BY <2>2 DEF Knows
  <2>4. /\ MemoryOK(n) /\ PinsGrow(l, n) /\ Pinned(n, p) /\ BufferPinned(l, n, p) /\ SameForeign(l, n)
        /\ n.heap = l.heap /\ n.body = l.body /\ n.hdr = l.hdr
    BY <1>5, <2>1, <2>2, <2>3, KeptChildrenOK
  <2>5. BufferPinned(m, n, p) /\ SameForeign(m, n) /\ PinsGrow(m, n)
    BY <2>2, <2>4 DEF BufferPinned, IsByteArray, SameForeign, PinsGrow, Pinned
  <2>. QED  BY <2>2, <2>4, <2>5 DEF Elsewhere, Dropped, SameBlock, PinsGrow
<1>6. CASE ~c.keep /\ ~IsPinned(m, p) /\ ~(m.hdr[p] > 1) /\ n = FreeOrPin(m, p)
  <2>1. ShouldFreeNow(m.reg[p])
    BY <1>1, <1>6, OwnedFacts
  <2>2. PICK f : f = Forget(m, p)
    OBVIOUS
  <2>3. n = Release(f, {p})
    BY <1>6, <2>1, <2>2 DEF FreeOrPin
  <2>4. MemoryOK(n)
    BY <1>1, <2>2, <2>3, FreeOK
  <2>5. f \in Memory /\ f.heap = m.heap /\ f.hdr = m.hdr /\ f.body = m.body /\ f.reg = m.reg
    BY <2>2, ForgetFacts
  <2>6. \A q \in Ptrs :
          /\ n.heap[q] = IF q \in {p} THEN "free" ELSE f.heap[q]
          /\ n.hdr[q] = IF q \in {p} THEN 0 ELSE f.hdr[q]
          /\ n.body[q] = IF q \in {p} THEN NoBody ELSE f.body[q]
          /\ n.reg[q] = IF q \in {p} THEN FreedEntry(f.reg[q]) ELSE f.reg[q]
    BY <2>3, <2>5, ReleaseFacts
  <2>7. Elsewhere(m, n, p)
    BY <2>5, <2>6 DEF Elsewhere, SameBlock, Pinned
  <2>8. Dropped(m, n, c, p)
    BY <1>1, <1>6, <2>6 DEF Dropped, NoBody
  <2>9. SameForeign(m, n)
    <3>1. \A q \in Ptrs : q # p => n.reg[q] = m.reg[q]
      BY <2>5, <2>6
    <3>2. n.reg[p].prov = m.reg[p].prov /\ m.reg[p].prov = "owned"
      <4>1. m.reg[p] \in Entry /\ m.reg[p].prov = "owned" /\ n.reg[p] = FreedEntry(m.reg[p])
        BY <1>1, <2>5, <2>6, MemoryFields, OwnedFacts
      <4>. QED  BY <4>1 DEF FreedEntry, Entry
    <3>. QED  BY <3>1, <3>2 DEF SameForeign
  <2>. QED  BY <2>4, <2>7, <2>8, <2>9
<1>7. \/ c.keep /\ n = Kept(m, c, p)
      \/ IsPinned(m, p) /\ n = PinChildren(m, c, p)
      \/ n = PinChildren(Kept(m, c, p), c, p)
      \/ m.hdr[p] > 1 /\ n = PinChildren(Kept(Lowered(m, p), c, p), c, p)
      \/ ~c.keep /\ ~IsPinned(m, p) /\ ~(m.hdr[p] > 1) /\ n = FreeOrPin(m, p)
  BY DEF DropResult
<1>. QED  BY <1>2, <1>3, <1>4, <1>5, <1>6, <1>7

(* The blocks of a context, dropped in order.                               *)
DropLoop(first, c, f, n) ==
  f = [j \in 0 .. n |-> IF j = 0 THEN first ELSE DropBlock(f[j - 1], c, c.allocs[j])]

(* The loop is defined for every number of blocks.                          *)
LEMMA DropLoopExists ==
  ASSUME NEW first, NEW c, NEW n \in Nat
  PROVE  \E f : DropLoop(first, c, f, n)
<1>. DEFINE Bad == {m \in Nat : ~\E f : DropLoop(first, c, f, m)}
<1>1. SUFFICES ASSUME Bad # {} PROVE FALSE
  OBVIOUS
<1>2. PICK m \in Bad : \A j \in Bad : m <= j
  <2>1. Min(Bad) \in Bad /\ \A j \in Bad : Min(Bad) <= j
    BY <1>1, MinOfNats
  <2>. QED  BY <2>1
<1>3. m \in Nat
  OBVIOUS
<1>4. m # 0
  <2>1. SUFFICES \E f : DropLoop(first, c, f, 0)
    OBVIOUS
  <2>2. DropLoop(first, c, [j \in 0 .. 0 |-> first], 0)
    BY DEF DropLoop
  <2>. QED  BY <2>2
<1>5. m - 1 \in Nat /\ m - 1 \notin Bad
  BY <1>2, <1>3, <1>4
<1>6. PICK f : DropLoop(first, c, f, m - 1)
  BY <1>5
<1>. DEFINE g == [j \in 0 .. m |-> IF j = m THEN DropBlock(f[m - 1], c, c.allocs[m]) ELSE f[j]]
<1>7. DropLoop(first, c, g, m)
  <2>1. DOMAIN g = 0 .. m
    OBVIOUS
  <2>2. ASSUME NEW j \in 0 .. m
        PROVE  g[j] = IF j = 0 THEN first ELSE DropBlock(g[j - 1], c, c.allocs[j])
    <3>1. CASE j = m
      <4>1. m - 1 \in 0 .. m /\ m - 1 # m
        BY <1>3, <1>4
      <4>2. g[m - 1] = f[m - 1]
        BY <4>1
      <4>. QED  BY <3>1, <4>2, <1>4
    <3>2. CASE j # m
      <4>1. j \in 0 .. (m - 1) /\ (j # 0 => j - 1 \in 0 .. m /\ j - 1 # m)
        BY <1>3, <3>2
      <4>2. f[j] = IF j = 0 THEN first ELSE DropBlock(f[j - 1], c, c.allocs[j])
        BY <1>6, <4>1 DEF DropLoop
      <4>3. g[j] = f[j] /\ (j # 0 => g[j - 1] = f[j - 1])
        BY <4>1, <3>2
      <4>. QED  BY <4>2, <4>3
    <3>. QED  BY <3>1, <3>2
  <2>. HIDE DEF g
  <2>3. g = [j \in 0 .. m |-> g[j]]
    BY <2>1 DEF g
  <2>. QED  BY <2>2, <2>3 DEF DropLoop
<1>. QED  BY <1>2, <1>7

(* DropBlocks is the last state of the loop.                                *)
LEMMA DropBlocksLoop ==
  ASSUME NEW c, Len(c.allocs) \in Nat
  PROVE  \E f : /\ DOMAIN f = 0 .. Len(c.allocs)
                /\ f[0] = State(mem, {}, FALSE)
                /\ \A j \in 1 .. Len(c.allocs) : f[j] = DropBlock(f[j - 1], c, c.allocs[j])
                /\ DropBlocks(c) = f[Len(c.allocs)]
<1>. DEFINE n == Len(c.allocs)
            Into(f) == f = [j \in 0 .. n |->
                         IF j = 0 THEN [m |-> mem, escaped |-> {}, aux |-> FALSE]
                         ELSE DropBlock(f[j - 1], c, c.allocs[j])]
            into == CHOOSE f : Into(f)
<1>1. \E f : Into(f)
  <2>1. PICK f : DropLoop([m |-> mem, escaped |-> {}, aux |-> FALSE], c, f, n)
    BY DropLoopExists
  <2>2. Into(f)
    BY <2>1 DEF DropLoop
  <2>. QED  BY <2>2
<1>2. Into(into)
  BY <1>1
<1>3. DropBlocks(c) = into[n]
  BY DEF DropBlocks
<1>4. PICK f : f = into
  OBVIOUS
<1>5. f = [j \in 0 .. n |->
             IF j = 0 THEN [m |-> mem, escaped |-> {}, aux |-> FALSE] ELSE DropBlock(f[j - 1], c, c.allocs[j])]
  BY <1>2, <1>4
<1>6. PICK h : h = [j \in 0 .. n |->
             IF j = 0 THEN [m |-> mem, escaped |-> {}, aux |-> FALSE] ELSE DropBlock(f[j - 1], c, c.allocs[j])]
  OBVIOUS
<1>7. /\ DOMAIN h = 0 .. n /\ h[0] = [m |-> mem, escaped |-> {}, aux |-> FALSE]
      /\ \A j \in 1 .. n : h[j] = DropBlock(f[j - 1], c, c.allocs[j])
  BY <1>6
<1>. QED  BY <1>3, <1>4, <1>5, <1>6, <1>7 DEF State

(* Every round, and so the loop, is a step from memory to memory.           *)
LEMMA DropBlocksTyped ==
  ASSUME NEW c \in Context, mem \in Memory
  PROVE  DropBlocks(c) \in LoopState /\ Backs(mem, DropBlocks(c).m)
<1>. DEFINE n == Len(c.allocs)
<1>1. n \in Nat /\ \A j \in 1 .. n : c.allocs[j] \in Ptrs
  BY DEF Context
<1>2. PICK f : /\ DOMAIN f = 0 .. n /\ f[0] = State(mem, {}, FALSE)
               /\ \A j \in 1 .. n : f[j] = DropBlock(f[j - 1], c, c.allocs[j])
               /\ DropBlocks(c) = f[n]
  BY <1>1, DropBlocksLoop
<1>. DEFINE Good(j) == f[j] \in LoopState /\ Backs(mem, f[j].m)
            Bad == {j \in 0 .. n : ~Good(j)}
<1>. HIDE DEF n
<1>3. SUFFICES ASSUME Bad # {} PROVE FALSE
  BY <1>1, <1>2
<1>4. PICK j \in Bad : \A i \in Bad : j <= i
  <2>1. Bad \subseteq Nat
    BY <1>1
  <2>2. Min(Bad) \in Bad /\ \A i \in Bad : Min(Bad) <= i
    BY <1>3, <2>1, MinOfNats
  <2>. QED  BY <2>2
<1>5. j \in 0 .. n /\ ~Good(j)
  OBVIOUS
<1>6. j # 0
  <2>1. Good(0)
    <3>1. State(mem, {}, FALSE).m = mem /\ State(mem, {}, FALSE) \in LoopState
      BY StateType
    <3>. QED  BY <1>2, <3>1 DEF Backs
  <2>. QED  BY <1>5, <2>1
<1>7. j - 1 \in 0 .. n /\ j \in 1 .. n /\ j - 1 \notin Bad
  BY <1>1, <1>4, <1>5, <1>6
<1>8. Good(j - 1)
  BY <1>7
<1>9. f[j] = DropBlock(f[j - 1], c, c.allocs[j]) /\ c.allocs[j] \in Ptrs
  BY <1>1, <1>2, <1>7
<1>10. PICK a, p : a = f[j - 1] /\ p = c.allocs[j]
  OBVIOUS
<1>11. f[j] \in LoopState /\ Backs(a.m, f[j].m)
  BY <1>8, <1>9, <1>10, DropTyped
<1>12. Good(j)
  BY <1>8, <1>10, <1>11, BacksTransitive
<1>. QED  BY <1>5, <1>12

(* After the first n blocks of c were dropped. *)
DroppedTo(m, r, c, n) ==
  /\ MemoryOK(r) /\ SameForeign(m, r) /\ PinsGrow(m, r)
  /\ \A q \in Ptrs : (\A k \in 1 .. n : c.allocs[k] # q) => SameBlock(m, r, q) /\ r.hdr[q] = m.hdr[q]
  /\ \A k \in 1 .. n : Dropped(m, r, c, c.allocs[k])

(* What dropping needs to know of a context.                                *)
Droppable(m, c) ==
  /\ MemoryOK(m) /\ KnownOK(m, c)
  /\ \A i, j \in DOMAIN c.allocs : c.allocs[i] = c.allocs[j] => i = j
  /\ \A i \in DOMAIN c.allocs : c.objBy[c.allocs[i]] # Null

(* One round: the blocks before it stay as they were left, those after it   *)
(* are untouched.                                                           *)
LEMMA DropNext ==
  ASSUME NEW m \in Memory, NEW c \in Context, Droppable(m, c),
         NEW n \in Nat, n + 1 \in DOMAIN c.allocs, NEW r \in Memory, DroppedTo(m, r, c, n),
         NEW s \in Memory, DropResult(r, c, c.allocs[n + 1], s)
  PROVE  DroppedTo(m, s, c, n + 1)
<1>. DEFINE A(k) == c.allocs[k]
            p == A(n + 1)
<1>1. /\ c.allocs \in Seq(Ptrs) /\ DOMAIN c.allocs = 1 .. Len(c.allocs) /\ Len(c.allocs) \in Nat
      /\ \A k \in DOMAIN c.allocs : A(k) \in Ptrs /\ c.objBy[A(k)] # Null /\ m.body[A(k)].obj = c.objBy[A(k)]
      /\ 1 .. n \subseteq DOMAIN c.allocs
      /\ \A k \in 1 .. n : A(k) # p
  <2>1. c.allocs \in Seq(Ptrs) /\ DOMAIN c.allocs = 1 .. Len(c.allocs) /\ Len(c.allocs) \in Nat
    BY DEF Context
  <2>2. 1 .. n \subseteq DOMAIN c.allocs /\ \A k \in 1 .. n : k # n + 1
    BY <2>1
  <2>. QED  BY <2>1, <2>2 DEF Droppable, KnownOK
<1>. HIDE DEF A
<1>2. /\ MemoryOK(r) /\ SameForeign(m, r) /\ PinsGrow(m, r)
      /\ \A q \in Ptrs : (\A k \in 1 .. n : A(k) # q) => SameBlock(m, r, q) /\ r.hdr[q] = m.hdr[q]
      /\ \A k \in 1 .. n : Dropped(m, r, c, A(k))
  BY DEF DroppedTo, A
<1>3. p \in Ptrs /\ SameBlock(m, r, p) /\ r.hdr[p] = m.hdr[p]
  BY <1>1, <1>2
<1>4. Knows(r, c)
  <2>1. SUFFICES ASSUME NEW q \in Ptrs, r.heap[q] = "ours", c.objBy[q] # Null
                 PROVE  r.body[q].obj = c.objBy[q]
    BY DEF Knows
  <2>2. SameBlock(m, r, q)
    BY <1>2, <2>1 DEF Dropped
  <2>. QED  BY <2>1, <2>2 DEF SameBlock, Droppable, KnownOK
<1>5. r.body[p].obj = c.objBy[p] /\ c.objBy[p] # Null
  BY <1>1, <1>3 DEF SameBlock
<1>6. MemoryOK(s) /\ Elsewhere(r, s, p) /\ Dropped(r, s, c, p) /\ SameForeign(r, s)
  BY <1>2, <1>3, <1>4, <1>5, DropOK DEF A
<1>7. PinsGrow(r, s) /\ PinsGrow(m, s)
  BY <1>2, <1>6 DEF PinsGrow, Elsewhere, Dropped
<1>8. SameForeign(m, s)
  BY <1>2, <1>6 DEF SameForeign
<1>9. ASSUME NEW q \in Ptrs, \A k \in 1 .. n + 1 : A(k) # q
      PROVE  SameBlock(m, s, q) /\ s.hdr[q] = m.hdr[q]
  <2>1. q # p /\ \A k \in 1 .. n : A(k) # q
    BY <1>9
  <2>. QED  BY <1>2, <1>6, <2>1 DEF Elsewhere, SameBlock
<1>10. ASSUME NEW k \in 1 .. n PROVE Dropped(m, s, c, A(k))
  <2>1. A(k) \in Ptrs /\ A(k) # p /\ Dropped(m, r, c, A(k))
    BY <1>1, <1>2
  <2>2. SameBlock(r, s, A(k))
    BY <1>6, <2>1 DEF Elsewhere
  <2>3. BufferPinned(m, r, A(k)) => BufferPinned(m, s, A(k))
    <3>1. m.body[A(k)].buf \in PtrOrNull
      BY <2>1, MemoryFields DEF Body
    <3>. QED  BY <1>7, <3>1 DEF BufferPinned, PinsGrow, PtrOrNull
  <2>. QED  BY <1>7, <2>1, <2>2, <2>3 DEF Dropped, SameBlock, PinsGrow
<1>11. Dropped(m, s, c, p)
  <2>1. BufferPinned(r, s, p) => BufferPinned(m, s, p)
    <3>1. SUFFICES ASSUME BufferPinned(r, s, p), IsByteArray(m, p), m.body[p].buf # Null,
                          m.heap[m.body[p].buf] = "ours", m.body[m.body[p].buf].obj = Null
                   PROVE  Pinned(s, m.body[p].buf)
      BY DEF BufferPinned
    <3>2. m.body[p].buf \in Ptrs
      BY <1>3, <3>1, MemoryFields DEF Body, PtrOrNull
    <3>3. \A k \in 1 .. n : A(k) # m.body[p].buf
      BY <1>1, <3>1
    <3>4. SameBlock(m, r, m.body[p].buf)
      BY <1>2, <3>2, <3>3
    <3>. QED  BY <1>3, <3>1, <3>4 DEF BufferPinned, SameBlock, IsByteArray
  <2>. QED  BY <1>2, <1>3, <1>6, <2>1 DEF Dropped, SameBlock, PinsGrow
<1>12. \A k \in 1 .. n + 1 : k \in 1 .. n \/ k = n + 1
  OBVIOUS
<1>. QED  BY <1>6, <1>7, <1>8, <1>9, <1>10, <1>11, <1>12 DEF DroppedTo, A

(* After the loop every block of the context is kept or gone.               *)
LEMMA DropBlocksOK ==
  ASSUME NEW c \in Context, mem \in Memory, Droppable(mem, c)
  PROVE  DroppedTo(mem, DropBlocks(c).m, c, Len(c.allocs))
<1>. DEFINE n == Len(c.allocs)
<1>1. n \in Nat /\ DOMAIN c.allocs = 1 .. n /\ \A j \in 1 .. n : c.allocs[j] \in Ptrs
  BY DEF Context
<1>2. PICK f : /\ DOMAIN f = 0 .. n /\ f[0] = State(mem, {}, FALSE)
               /\ \A j \in 1 .. n : f[j] = DropBlock(f[j - 1], c, c.allocs[j])
               /\ DropBlocks(c) = f[n]
  BY <1>1, DropBlocksLoop
<1>. DEFINE Good(j) == f[j] \in LoopState /\ DroppedTo(mem, f[j].m, c, j)
            Bad == {j \in 0 .. n : ~Good(j)}
<1>. HIDE DEF n
<1>3. SUFFICES ASSUME Bad # {} PROVE FALSE
  BY <1>1, <1>2 DEF n
<1>4. PICK j \in Bad : \A i \in Bad : j <= i
  <2>1. Bad \subseteq Nat
    BY <1>1
  <2>2. Min(Bad) \in Bad /\ \A i \in Bad : Min(Bad) <= i
    BY <1>3, <2>1, MinOfNats
  <2>. QED  BY <2>2
<1>5. j \in 0 .. n /\ ~Good(j)
  OBVIOUS
<1>6. j # 0
  <2>1. Good(0)
    <3>1. State(mem, {}, FALSE).m = mem /\ State(mem, {}, FALSE) \in LoopState
      BY StateType
    <3>2. DroppedTo(mem, mem, c, 0)
      BY DEF DroppedTo, Droppable, SameForeign, PinsGrow, SameBlock
    <3>. QED  BY <1>2, <3>1, <3>2
  <2>. QED  BY <1>5, <2>1
<1>7. PICK k \in Nat : k = j - 1
  BY <1>1, <1>5, <1>6
<1>8. k \in 0 .. n /\ j \in 1 .. n /\ k \notin Bad /\ k + 1 = j /\ j \in DOMAIN c.allocs
  BY <1>1, <1>4, <1>5, <1>6, <1>7
<1>9. Good(k)
  BY <1>8
<1>10. PICK a, p : a = f[k] /\ p = c.allocs[k + 1]
  OBVIOUS
<1>11. f[j] = DropBlock(a, c, p) /\ p \in Ptrs
  BY <1>1, <1>2, <1>7, <1>8, <1>10
<1>12. PICK r, s : r = a.m /\ s = DropBlock(a, c, p).m
  OBVIOUS
<1>13. DropBlock(a, c, p) \in LoopState /\ DropResult(r, c, p, s) /\ r \in Memory /\ s \in Memory
  BY <1>9, <1>10, <1>11, <1>12, DropTyped, DropCases DEF LoopState
<1>14. DroppedTo(mem, s, c, k + 1)
  BY <1>8, <1>9, <1>10, <1>12, <1>13, DropNext
<1>15. Good(j)
  BY <1>8, <1>11, <1>12, <1>13, <1>14
<1>. QED  BY <1>5, <1>15

(* The buffers a context lists.                                             *)
BufferSet(c) == {c.bufs[o] : o \in {x \in Objs : c.bufs[x] # Null}}

(* The buffers split into those that are kept and those that are freed.     *)
LEMMA BuffersSplit ==
  ASSUME NEW a, NEW c \in Context, NEW r, r = Register(a.m, BufferSet(c), "owned")
  PROVE  \E K, F \in SUBSET Ptrs :
           /\ DropBuffers(a, c) = Release(Pin(r, K), F)
           /\ BufferSet(c) = K \cup F /\ K \subseteq BufferSet(c) /\ F \subseteq BufferSet(c)
           /\ c.keep => F = {}
           /\ \A q \in F : ~IsPinned(r, q)
           /\ (\A x, y \in Objs : c.bufs[x] = c.bufs[y] /\ c.bufs[x] # Null => x = y) => K \cap F = {}
<1>. DEFINE has == {o \in Objs : c.bufs[o] # Null}
            kept == {o \in has : \/ c.keep \/ IsPinned(r, c.bufs[o])
                                 \/ IF Kind[o] = "dict" THEN a.aux ELSE o \in a.escaped}
            K == {c.bufs[o] : o \in kept}
            F == {c.bufs[o] : o \in has \ kept}
<1>1. c.bufs \in [Objs -> PtrOrNull]
  BY DEF Context
<1>2. DropBuffers(a, c) = Release(Pin(r, K), F)
  BY Zenon DEF DropBuffers, BufferSet
<1>3. kept \subseteq has /\ \A o \in has \ kept : ~c.keep /\ ~IsPinned(r, c.bufs[o])
  BY Zenon
<1>. HIDE DEF kept
<1>4. K \in SUBSET Ptrs /\ F \in SUBSET Ptrs
  BY <1>1, <1>3 DEF PtrOrNull
<1>5. BufferSet(c) = K \cup F
  BY <1>3 DEF BufferSet
<1>6. c.keep => F = {}
  BY <1>3
<1>7. \A q \in F : ~IsPinned(r, q)
  BY <1>3
<1>8. (\A x, y \in Objs : c.bufs[x] = c.bufs[y] /\ c.bufs[x] # Null => x = y) => K \cap F = {}
  BY <1>3
<1>. HIDE DEF K, F
<1>. QED  BY <1>2, <1>4, <1>5, <1>6, <1>7, <1>8

(* Dropping them is a step from memory to memory.                           *)
LEMMA DropBuffersTyped ==
  ASSUME NEW a \in LoopState, NEW c \in Context
  PROVE  DropBuffers(a, c) \in Memory /\ Backs(a.m, DropBuffers(a, c))
<1>1. PICK r : r = Register(a.m, BufferSet(c), "owned")
  OBVIOUS
<1>2. PICK K, F \in SUBSET Ptrs : DropBuffers(a, c) = Release(Pin(r, K), F)
  BY <1>1, BuffersSplit
<1>3. a.m \in Memory /\ BufferSet(c) \in SUBSET Ptrs
  <2>1. c.bufs \in [Objs -> PtrOrNull]
    BY DEF Context
  <2>. QED  BY <2>1 DEF LoopState, BufferSet, PtrOrNull
<1>4. r \in Memory /\ Backs(a.m, r)
  BY <1>1, <1>3, RegisterFacts, OperationsBack
<1>5. PICK s : s = Pin(r, K)
  OBVIOUS
<1>6. s \in Memory /\ Backs(r, s)
  BY <1>4, <1>5, PinFacts, OperationsBack
<1>7. DropBuffers(a, c) \in Memory /\ Backs(s, DropBuffers(a, c))
  BY <1>2, <1>5, <1>6, ReleaseFacts, OperationsBack
<1>. QED  BY <1>4, <1>6, <1>7 DEF Backs

(* Registering a block of ours again changes nothing.                       *)
LEMMA RegisterAgain ==
  ASSUME NEW m \in Memory, MemoryOK(m), NEW S \in SUBSET Ptrs, \A q \in S : m.heap[q] = "ours",
         NEW r, r = Register(m, S, "owned")
  PROVE  r \in Memory /\ MemoryOK(r) /\ r.heap = m.heap /\ r.body = m.body /\ r.hdr = m.hdr
         /\ \A q \in Ptrs : r.reg[q] = m.reg[q]
<1>1. /\ r \in Memory
      /\ r.heap = m.heap /\ r.hdr = m.hdr /\ r.body = m.body /\ r.pinSet = m.pinSet
      /\ r.pinVec = m.pinVec /\ r.valueOf = m.valueOf /\ r.ptrOf = m.ptrOf /\ r.bad = m.bad
      /\ \A p \in Ptrs : r.reg[p] = IF p \in S THEN Registered(m.reg[p], "owned", Null) ELSE m.reg[p]
  BY RegisterFacts
<1>2. \A e \in Entry : e.prov = "owned" /\ e.life = "alive" => Registered(e, "owned", Null) = e
  BY DEF Entry, Registered
<1>3. \A q \in S : m.reg[q] \in Entry /\ m.reg[q].prov = "owned" /\ m.reg[q].life = "alive"
  BY MemoryFields, OwnedFacts
<1>4. \A q \in Ptrs : r.reg[q] = m.reg[q]
  BY <1>1, <1>2, <1>3
<1>5. MemoryOK(r)
  BY <1>1, <1>4 DEF MemoryOK, AddressOK, NameOK, Pinned
<1>. QED  BY <1>1, <1>4, <1>5

(* What becomes of an address when the buffers are dropped.                 *)
BufferLeft(m, r, c, q) ==
  \/ /\ SameBlock(m, r, q) /\ r.hdr[q] = m.hdr[q] /\ (Pinned(m, q) => Pinned(r, q))
     /\ q \in BufferSet(c) => Pinned(r, q)
  \/ q \in BufferSet(c) /\ ~c.keep /\ ~Pinned(m, q) /\ r.heap[q] = "free" /\ r.body[q].obj = Null

(* A buffer goes unless its block is kept; the other addresses stay.        *)
LEMMA DropBuffersOK ==
  ASSUME NEW a \in LoopState, NEW m, m = a.m, MemoryOK(m), NEW c \in Context,
         \A q \in BufferSet(c) : m.heap[q] = "ours" /\ m.body[q].obj = Null,
         \A x, y \in Objs : c.bufs[x] = c.bufs[y] /\ c.bufs[x] # Null => x = y,
         NEW n, n = DropBuffers(a, c)
  PROVE  MemoryOK(n) /\ SameForeign(m, n) /\ \A q \in Ptrs : BufferLeft(m, n, c, q)
<1>1. m \in Memory /\ BufferSet(c) \in SUBSET Ptrs
  <2>1. c.bufs \in [Objs -> PtrOrNull]
    BY DEF Context
  <2>. QED  BY <2>1 DEF LoopState, BufferSet, PtrOrNull
<1>2. PICK r : r = Register(m, BufferSet(c), "owned")
  OBVIOUS
<1>3. PICK K, F \in SUBSET Ptrs :
           /\ n = Release(Pin(r, K), F)
           /\ BufferSet(c) = K \cup F /\ K \subseteq BufferSet(c) /\ F \subseteq BufferSet(c)
           /\ c.keep => F = {}
           /\ \A q \in F : ~IsPinned(r, q)
           /\ K \cap F = {}
  BY <1>2, BuffersSplit
<1>4. r \in Memory /\ MemoryOK(r) /\ r.heap = m.heap /\ r.body = m.body /\ r.hdr = m.hdr
      /\ \A q \in Ptrs : r.reg[q] = m.reg[q]
  BY <1>1, <1>2, RegisterAgain
<1>5. PICK s : s = Pin(r, K)
  OBVIOUS
<1>6. \A q \in K \cup F : r.heap[q] = "ours" /\ r.body[q].obj = Null
  BY <1>3, <1>4
<1>7. s \in Memory /\ s.heap = r.heap /\ s.body = r.body /\ s.hdr = r.hdr
      /\ MemoryOK(s) /\ (\A q \in Ptrs : Pinned(s, q) <=> Pinned(r, q) \/ q \in K)
      /\ SameForeign(r, s)
  BY <1>4, <1>5, <1>6, PinFacts, PinOK, OperationsBack
<1>8. MemoryOK(n)
  BY <1>3, <1>5, <1>6, <1>7, ReleaseOK
<1>9. \A q \in Ptrs :
        /\ n.heap[q] = IF q \in F THEN "free" ELSE s.heap[q]
        /\ n.hdr[q] = IF q \in F THEN 0 ELSE s.hdr[q]
        /\ n.body[q] = IF q \in F THEN NoBody ELSE s.body[q]
        /\ n.reg[q] = IF q \in F THEN FreedEntry(s.reg[q]) ELSE s.reg[q]
  BY <1>3, <1>5, <1>7, ReleaseFacts
<1>10. SameForeign(m, n)
  <2>1. \A q \in Ptrs : q \notin F => n.reg[q] = s.reg[q]
    BY <1>9
  <2>2. \A q \in F : n.reg[q].prov = "owned" /\ s.reg[q].prov = "owned"
    <3>1. \A q \in F : s.reg[q] \in Entry /\ s.reg[q].prov = "owned"
      BY <1>6, <1>7, MemoryFields, OwnedFacts
    <3>. QED  BY ZenonT(40), <1>9, <3>1 DEF FreedEntry, Entry
  <2>3. SameForeign(s, n)
    BY <2>1, <2>2 DEF SameForeign
  <2>. QED  BY <1>4, <1>7, <2>3 DEF SameForeign
<1>11. ASSUME NEW q \in Ptrs PROVE BufferLeft(m, n, c, q)
  <2>1. Pinned(r, q) <=> Pinned(m, q)
    BY <1>4 DEF Pinned
  <2>2. CASE q \in F
    <3>1. ~Pinned(m, q)
      BY <1>3, <1>4, <2>1, <2>2, OwnedFacts
    <3>. QED  BY <1>3, <1>9, <2>2, <3>1 DEF BufferLeft, NoBody
  <2>3. CASE q \notin F
    <3>1. SameBlock(m, n, q) /\ n.hdr[q] = m.hdr[q] /\ (Pinned(n, q) <=> Pinned(s, q))
      BY <1>4, <1>7, <1>9, <2>3 DEF SameBlock, Pinned
    <3>. QED  BY <1>3, <1>7, <2>1, <2>3, <3>1 DEF BufferLeft
  <2>. QED  BY <2>2, <2>3
<1>. QED  BY <1>8, <1>10, <1>11

(* What is left of the memory after context c: a block of c stays with the  *)
(* VM or goes, the others stay as they are.                                 *)
BlockLeft(m, r, c, q) ==
  \/ /\ SameBlock(m, r, q) /\ (Pinned(m, q) => Pinned(r, q))
     /\ q \in Allocs(c) \cup BufferSet(c) => Pinned(r, q)
     /\ q \notin Allocs(c) => r.hdr[q] = m.hdr[q]
  \/ /\ q \in Allocs(c) \cup BufferSet(c) /\ r.heap[q] = "free" /\ r.body[q].obj = Null
     /\ ~Pinned(m, q) /\ (q \in Allocs(c) => ~(m.hdr[q] > 1))

ContextLeft(m, r, c) ==
  /\ MemoryOK(r) /\ SameForeign(m, r)
  /\ \A q \in Ptrs : BlockLeft(m, r, c, q)
  /\ \A p \in Allocs(c) : r.heap[p] = "ours" /\ m.body[p].buf \in BufferSet(c) => BufferPinned(m, r, p)

(* The whole of Drop: blocks, then buffers.                                 *)
LEMMA DropContextOK ==
  ASSUME NEW c \in Context, mem \in Memory, MemoryOK(mem), KnownOK(mem, c), ShapeOK(ext, c),
         NEW n, n = DropBuffers(DropBlocks(c), c)
  PROVE  ContextLeft(mem, n, c)
<1>1. PICK a, m : a = DropBlocks(c) /\ m = a.m
  OBVIOUS
<1>2. a \in LoopState
  BY <1>1, DropBlocksTyped
<1>3. /\ c.allocs \in Seq(Ptrs) /\ DOMAIN c.allocs = 1 .. Len(c.allocs) /\ Len(c.allocs) \in Nat
      /\ c.bufs \in [Objs -> PtrOrNull]
  BY DEF Context
<1>4. Droppable(mem, c)
  BY <1>3 DEF Droppable, ShapeOK, Allocs
<1>5. DroppedTo(mem, m, c, Len(c.allocs))
  BY <1>1, <1>4, DropBlocksOK
<1>6. Allocs(c) = {c.allocs[k] : k \in 1 .. Len(c.allocs)} /\ Allocs(c) \in SUBSET Ptrs
  BY <1>3 DEF Allocs
<1>7. /\ MemoryOK(m) /\ SameForeign(mem, m) /\ PinsGrow(mem, m)
      /\ \A q \in Ptrs : q \notin Allocs(c) => SameBlock(mem, m, q) /\ m.hdr[q] = mem.hdr[q]
      /\ \A q \in Allocs(c) : Dropped(mem, m, c, q)
  BY <1>5, <1>6 DEF DroppedTo
<1>8. \A q \in Allocs(c) : mem.body[q].obj # Null
  BY <1>6 DEF KnownOK, ShapeOK
<1>9. BufferSet(c) \in SUBSET Ptrs /\ \A q \in BufferSet(c) : mem.heap[q] = "ours" /\ mem.body[q].obj = Null
  BY <1>3 DEF BufferSet, KnownOK, PtrOrNull
<1>10. \A q \in BufferSet(c) : q \notin Allocs(c) /\ m.heap[q] = "ours" /\ m.body[q].obj = Null
  BY <1>7, <1>8, <1>9 DEF SameBlock
<1>11. \A x, y \in Objs : c.bufs[x] = c.bufs[y] /\ c.bufs[x] # Null => x = y
  BY DEF ShapeOK
<1>12. MemoryOK(n) /\ SameForeign(m, n) /\ \A q \in Ptrs : BufferLeft(m, n, c, q)
  BY <1>1, <1>2, <1>7, <1>10, <1>11, DropBuffersOK
<1>13. SameForeign(mem, n)
  BY <1>7, <1>12 DEF SameForeign
<1>14. ASSUME NEW q \in Ptrs PROVE BlockLeft(mem, n, c, q)
  <2>1. CASE q \in Allocs(c)
    <3>1. q \notin BufferSet(c) /\ SameBlock(m, n, q) /\ n.hdr[q] = m.hdr[q] /\ (Pinned(m, q) => Pinned(n, q))
      BY <1>10, <1>12, <2>1 DEF BufferLeft
    <3>2. Dropped(mem, m, c, q)
      BY <1>7, <2>1
    <3>. QED  BY <2>1, <3>1, <3>2 DEF BlockLeft, Dropped, SameBlock
  <2>2. CASE q \notin Allocs(c)
    <3>1. SameBlock(mem, m, q) /\ m.hdr[q] = mem.hdr[q] /\ (Pinned(mem, q) => Pinned(m, q))
      BY <1>7, <2>2 DEF PinsGrow
    <3>2. BufferLeft(m, n, c, q)
      BY <1>12
    <3>. QED  BY <2>2, <3>1, <3>2 DEF BlockLeft, BufferLeft, SameBlock
  <2>. QED  BY <2>1, <2>2
<1>15. ASSUME NEW p \in Allocs(c), n.heap[p] = "ours", mem.body[p].buf \in BufferSet(c)
       PROVE  BufferPinned(mem, n, p)
  <2>1. SameBlock(m, n, p)
    BY <1>6, <1>10, <1>12, <1>15 DEF BufferLeft
  <2>2. m.heap[p] = "ours" /\ Dropped(mem, m, c, p)
    BY <1>7, <1>15, <2>1 DEF SameBlock
  <2>3. PICK b : b = mem.body[p].buf
    OBVIOUS
  <2>4. b \in Ptrs /\ BufferLeft(m, n, c, b) /\ b \in BufferSet(c)
    BY <1>9, <1>12, <1>15, <2>3
  <2>5. CASE c.keep
    BY <2>3, <2>4, <2>5 DEF BufferLeft, BufferPinned
  <2>6. CASE BufferPinned(mem, m, p)
    BY <2>3, <2>4, <2>6 DEF BufferLeft, BufferPinned
  <2>. QED  BY <2>2, <2>5, <2>6 DEF Dropped
<1>. QED  BY <1>12, <1>13, <1>14, <1>15 DEF ContextLeft

-----------------------------------------------------------------------------
(* The stack of contexts                                                    *)

(* The fields of a context.                                                 *)
LEMMA ContextFields ==
  ASSUME NEW c \in Context
  PROVE  /\ c.keep \in BOOLEAN /\ c.allocs \in Seq(Ptrs) /\ c.objBy \in [Ptrs -> ObjOrNull]
         /\ c.ptrBy \in [Objs -> PtrOrNull] /\ c.slot \in [Objs -> Nat] /\ c.bufs \in [Objs -> PtrOrNull]
         /\ Allocs(c) \subseteq Ptrs
BY DEF Context, Allocs

(* The context in progress is the last; the others are its outer ones.      *)
LEMMA TopFacts ==
  ASSUME NEW cs \in Seq(Context), cs # <<>>
  PROVE  /\ Len(cs) \in Nat \ {0} /\ DOMAIN cs = 1 .. Len(cs) /\ Len(cs) \in DOMAIN cs
         /\ Last(cs) = cs[Len(cs)] /\ Last(cs) \in Context
         /\ Front(cs) \in Seq(Context) /\ DOMAIN Front(cs) = 1 .. (Len(cs) - 1)
         /\ \A i \in DOMAIN Front(cs) : Front(cs)[i] = cs[i] /\ i \in DOMAIN cs /\ i < Len(cs)
         /\ \A i \in DOMAIN cs : cs[i] \in Context /\ (i # Len(cs) => i \in DOMAIN Front(cs) /\ i < Len(cs))
BY FrontProperties

(* The stack with another context on top.                                   *)
TopIs(cs, t, d) ==
  /\ t \in Seq(Context) /\ t # <<>> /\ DOMAIN t = DOMAIN cs /\ Len(t) = Len(cs)
  /\ \A i \in DOMAIN cs : t[i] = IF i = Len(cs) THEN d ELSE cs[i]

(* SetTop replaces the last context.                                        *)
LEMMA ReplaceTop ==
  ASSUME NEW cs \in Seq(Context), cs # <<>>, NEW d \in Context, NEW t, t = Append(Front(cs), d)
  PROVE  TopIs(cs, t, d)
<1>1. /\ Len(cs) \in Nat \ {0} /\ DOMAIN cs = 1 .. Len(cs)
      /\ Front(cs) \in Seq(Context) /\ Len(Front(cs)) = Len(cs) - 1
      /\ \A i \in 1 .. (Len(cs) - 1) : Front(cs)[i] = cs[i]
  BY SMTT(60), FrontProperties
<1>2. PICK f, n : f = Front(cs) /\ n = Len(cs)
  OBVIOUS
<1>3. f \in Seq(Context) /\ Len(f) = n - 1 /\ n \in Nat \ {0} /\ t = Append(f, d)
  BY ZenonT(40), <1>1, <1>2
<1>4. t \in Seq(Context) /\ Len(t) = n /\ (\A i \in 1 .. (n - 1) : t[i] = f[i]) /\ t[n] = d
  BY <1>3
<1>5. t # <<>> /\ DOMAIN t = 1 .. n
  BY <1>3, <1>4
<1>6. \A i \in 1 .. n : i # n => i \in 1 .. (n - 1)
  BY <1>3
<1>. QED  BY ZenonT(40), <1>1, <1>2, <1>4, <1>5, <1>6 DEF TopIs

(* Enter appends one.                                                       *)
LEMMA Pushed ==
  ASSUME NEW cs \in Seq(Context), NEW d \in Context
  PROVE  /\ Append(cs, d) \in Seq(Context) /\ DOMAIN Append(cs, d) = 1 .. (Len(cs) + 1) /\ Len(cs) \in Nat
         /\ DOMAIN cs = 1 .. Len(cs)
         /\ \A i \in 1 .. (Len(cs) + 1) : Append(cs, d)[i] = IF i = Len(cs) + 1 THEN d ELSE cs[i]
<1>. DEFINE n == Len(cs)
<1>1. n \in Nat /\ DOMAIN cs = 1 .. n
  OBVIOUS
<1>2. Append(cs, d) \in Seq(Context) /\ Len(Append(cs, d)) = n + 1
      /\ \A i \in 1 .. n : Append(cs, d)[i] = cs[i]
  OBVIOUS
<1>3. Append(cs, d)[n + 1] = d /\ DOMAIN Append(cs, d) = 1 .. (n + 1)
  BY <1>1, <1>2
<1>. HIDE DEF n
<1>4. \A i \in 1 .. (n + 1) : i # n + 1 => i \in 1 .. n
  BY <1>1
<1>. QED  BY <1>1, <1>2, <1>3, <1>4 DEF n

(* What memory n keeps of memory m for the contexts in progress.            *)
SameBlocks(m, n) ==
  \A q \in Ptrs : /\ m.heap[q] = "ours" <=> n.heap[q] = "ours"
                  /\ n.body[q] = m.body[q]
                  /\ Pinned(m, q) => Pinned(n, q)

(* What a context must find again in memory n.                              *)
KeepsKnown(m, n, c) ==
  \A q \in Ptrs : m.heap[q] = "ours" /\ (m.body[q].obj # Null \/ q \in BufferSet(c))
                    => n.heap[q] = "ours" /\ n.body[q].obj = m.body[q].obj

(* It then knows its blocks in n as well.                                   *)
LEMMA KnownKept ==
  ASSUME NEW m \in Memory, MemoryOK(m), NEW n, NEW c \in Context, KnownOK(m, c), KeepsKnown(m, n, c)
  PROVE  KnownOK(n, c)
<1>1. ASSUME NEW p \in Ptrs, c.objBy[p] # Null PROVE n.body[p].obj = c.objBy[p]
  <2>1. m.body[p].obj = c.objBy[p]
    BY <1>1 DEF KnownOK
  <2>2. m.heap[p] = "ours"
    BY <1>1, <2>1, OwnedFacts
  <2>. QED  BY <1>1, <2>1, <2>2 DEF KeepsKnown
<1>2. ASSUME NEW o \in Objs, c.bufs[o] # Null
      PROVE  n.heap[c.bufs[o]] = "ours" /\ n.body[c.bufs[o]].obj = Null
  <2>1. c.bufs[o] \in Ptrs /\ c.bufs[o] \in BufferSet(c)
    BY <1>2, ContextFields DEF BufferSet, PtrOrNull
  <2>. QED  BY <1>2, <2>1 DEF KnownOK, KeepsKnown
<1>. QED  BY <1>1, <1>2 DEF KnownOK

(* A step of the context in progress keeps what the contexts say.           *)
LEMMA ContextsReplaced ==
  ASSUME NEW x, NEW m, NEW n, NEW cs \in Seq(Context), cs # <<>>, NEW d, NEW t, TopIs(cs, t, d),
         ContextsOK(x, m, cs), ShapeOK(x, d), KnownOK(n, d),
         \A i \in DOMAIN cs : i # Len(cs) => KnownOK(n, cs[i]) /\ ApartOK(x, cs[i], d)
  PROVE  ContextsOK(x, n, t)
<1>1. Len(cs) \in Nat \ {0} /\ DOMAIN cs = 1 .. Len(cs)
  BY TopFacts
<1>2. ASSUME NEW i \in DOMAIN t PROVE ShapeOK(x, t[i]) /\ KnownOK(n, t[i])
  BY DEF TopIs, ContextsOK
<1>3. ASSUME NEW i \in DOMAIN t, NEW j \in DOMAIN t, i < j PROVE ApartOK(x, t[i], t[j])
  <2>1. i # Len(cs) /\ i \in DOMAIN cs /\ j \in DOMAIN cs /\ t[i] = cs[i]
    BY <1>1, <1>3 DEF TopIs
  <2>. QED  BY <1>3, <2>1 DEF TopIs, ContextsOK
<1>. QED  BY <1>2, <1>3 DEF ContextsOK

(* What is ours is what d owns, or was c's for d or owned by others before. *)
StillOurs(m, n, c, d) ==
  \A q \in Ptrs : n.heap[q] = "ours" =>
    \/ q \in Allocs(d) \/ Pinned(n, q) \/ \E o \in Objs : d.bufs[o] = q
    \/ /\ m.heap[q] = "ours" /\ (Pinned(m, q) => Pinned(n, q)) /\ q # Null
       /\ q \in Allocs(c) => q \in Allocs(d)
       /\ \A o \in Objs : c.bufs[o] = q => d.bufs[o] = q

(* It keeps every block someone's, too.                                     *)
LEMMA CoverReplaced ==
  ASSUME NEW m, NEW n, NEW cs \in Seq(Context), cs # <<>>, NEW d, NEW t, TopIs(cs, t, d), CoverOK(m, cs),
         StillOurs(m, n, Last(cs), d)
  PROVE  CoverOK(n, t)
<1>1. Len(cs) \in DOMAIN cs /\ Last(cs) = cs[Len(cs)]
  BY TopFacts
<1>2. SUFFICES ASSUME NEW q \in Ptrs, n.heap[q] = "ours" PROVE Covered(n, t, q)
  BY DEF CoverOK
<1>3. t[Len(cs)] = d /\ Len(cs) \in DOMAIN t
  BY <1>1 DEF TopIs
<1>4. CASE q \in Allocs(d) \/ Pinned(n, q) \/ \E o \in Objs : d.bufs[o] = q
  BY <1>3, <1>4 DEF Covered
<1>5. CASE /\ m.heap[q] = "ours" /\ (Pinned(m, q) => Pinned(n, q)) /\ q # Null
           /\ q \in Allocs(Last(cs)) => q \in Allocs(d)
           /\ \A o \in Objs : Last(cs).bufs[o] = q => d.bufs[o] = q
  <2>1. Covered(m, cs, q)
    BY <1>5 DEF CoverOK
  <2>2. CASE Pinned(m, q)
    BY <1>5, <2>2 DEF Covered
  <2>3. ASSUME NEW i \in DOMAIN cs, q \in Allocs(cs[i]) \/ \E o \in Objs : cs[i].bufs[o] = q
        PROVE  Covered(n, t, q)
    <3>1. CASE i = Len(cs)
      BY <1>1, <1>3, <1>5, <2>3, <3>1 DEF Covered
    <3>2. CASE i # Len(cs)
      <4>1. t[i] = cs[i] /\ i \in DOMAIN t
        BY <3>2 DEF TopIs
      <4>. QED  BY <2>3, <4>1 DEF Covered
    <3>. QED  BY <3>1, <3>2
  <2>. QED  BY <2>1, <2>2, <2>3 DEF Covered
<1>. QED  BY <1>2, <1>4, <1>5 DEF StillOurs

(* Contexts that differ only in their counts. *)
SameButSlots(c, d) == d.allocs = c.allocs /\ d.objBy = c.objBy /\ d.ptrBy = c.ptrBy /\ d.bufs = c.bufs

(* Contexts in progress that differ only in their counts.                   *)
Alike(cs, t) == DOMAIN t = DOMAIN cs /\ \A i \in DOMAIN cs : SameButSlots(cs[i], t[i])

(* Counts do not matter to the tables of a context.                         *)
LEMMA SlotsApart ==
  ASSUME NEW x, NEW c, NEW d, SameButSlots(c, d)
  PROVE  /\ Allocs(d) = Allocs(c) /\ BufferSet(d) = BufferSet(c)
         /\ ShapeOK(x, c) => ShapeOK(x, d)
         /\ \A m : KnownOK(m, c) => KnownOK(m, d)
<1>1. Allocs(d) = Allocs(c) /\ BufferSet(d) = BufferSet(c)
  BY DEF SameButSlots, Allocs, BufferSet
<1>2. ShapeOK(x, c) => ShapeOK(x, d)
  BY <1>1 DEF SameButSlots, ShapeOK
<1>3. ASSUME NEW m, KnownOK(m, c) PROVE KnownOK(m, d)
  BY <1>3 DEF SameButSlots, KnownOK
<1>. QED  BY <1>1, <1>2, <1>3

(* Steps that make, move and free no block keep what relates blocks to      *)
(* contexts.                                                                *)
LEMMA QuietStep ==
  ASSUME NEW x, NEW m \in Memory, MemoryOK(m), NEW n, SameBlocks(m, n),
         NEW cs \in Seq(Context), NEW t, Alike(cs, t),
         ContextsOK(x, m, cs), CoverOK(m, cs), BytesOK(x, m, cs)
  PROVE  ContextsOK(x, n, t) /\ CoverOK(n, t) /\ BytesOK(x, n, t)
<1>1. ASSUME NEW i \in DOMAIN cs
      PROVE  /\ cs[i] \in Context /\ SameButSlots(cs[i], t[i]) /\ Allocs(t[i]) = Allocs(cs[i])
             /\ ShapeOK(x, t[i]) /\ KnownOK(n, t[i])
  <2>1. cs[i] \in Context /\ SameButSlots(cs[i], t[i])
    BY DEF Alike
  <2>2. KeepsKnown(m, n, cs[i])
    BY DEF KeepsKnown, SameBlocks
  <2>3. ShapeOK(x, cs[i]) /\ KnownOK(m, cs[i])
    BY DEF ContextsOK
  <2>4. KnownOK(n, cs[i])
    BY <2>1, <2>2, <2>3, KnownKept
  <2>. QED  BY <2>1, <2>3, <2>4, SlotsApart
<1>2. ASSUME NEW i \in DOMAIN cs, NEW j \in DOMAIN cs, i < j PROVE ApartOK(x, t[i], t[j])
  <2>1. ApartOK(x, cs[i], cs[j])
    BY <1>2 DEF ContextsOK
  <2>2. SameButSlots(cs[i], t[i]) /\ SameButSlots(cs[j], t[j]) /\ Allocs(t[j]) = Allocs(cs[j])
    BY <1>1
  <2>. QED  BY <2>1, <2>2 DEF ApartOK, SameButSlots
<1>3. ContextsOK(x, n, t)
  BY <1>1, <1>2 DEF ContextsOK, Alike
<1>4. CoverOK(n, t)
  <2>1. SUFFICES ASSUME NEW q \in Ptrs, n.heap[q] = "ours" PROVE Covered(n, t, q)
    BY DEF CoverOK
  <2>2. Covered(m, cs, q) /\ (Pinned(m, q) => Pinned(n, q))
    BY <2>1 DEF CoverOK, SameBlocks
  <2>. QED  BY <1>1, <2>2 DEF Covered, Alike, SameButSlots
<1>5. BytesOK(x, n, t)
  <2>1. \A q \in Ptrs : n.body[q] = m.body[q] /\ (IsByteArray(n, q) <=> IsByteArray(m, q))
    BY DEF SameBlocks, IsByteArray
  <2>2. ASSUME NEW p \in Ptrs, IsByteArray(n, p) PROVE ByteOK(x, n, t, p)
    <3>1. ByteOK(x, m, cs, p) /\ n.body[p] = m.body[p] /\ m.body[p].buf \in PtrOrNull
      BY <2>1, <2>2, MemoryFields DEF BytesOK, Body
    <3>2. PICK b, o : b = m.body[p].buf /\ o = m.body[p].obj
      OBVIOUS
    <3>3. /\ ~x.across /\ ~x.twice /\ b \in Ptrs
          /\ m.heap[b] = "ours" /\ m.body[b].obj = Null
          /\ \A i \in DOMAIN cs : \A y \in Objs : cs[i].bufs[y] = b => y = o /\ cs[i].ptrBy[o] = p
          /\ \A i \in DOMAIN cs : cs[i].ptrBy[o] = p => cs[i].bufs[o] \in {Null, b}
          /\ Pinned(m, b) \/ \E i \in DOMAIN cs : p \in Allocs(cs[i]) /\ cs[i].bufs[o] = b
      BY <3>1, <3>2 DEF ByteOK, PtrOrNull
    <3>4. n.heap[b] = "ours" /\ n.body[b].obj = Null /\ (Pinned(m, b) => Pinned(n, b))
      BY <3>3 DEF SameBlocks
    <3>5. /\ \A i \in DOMAIN t : \A y \in Objs : t[i].bufs[y] = b => y = o /\ t[i].ptrBy[o] = p
          /\ \A i \in DOMAIN t : t[i].ptrBy[o] = p => t[i].bufs[o] \in {Null, b}
          /\ Pinned(n, b) \/ \E i \in DOMAIN t : p \in Allocs(t[i]) /\ t[i].bufs[o] = b
      BY <1>1, <3>3, <3>4 DEF Alike, SameButSlots
    <3>6. b # Null
      BY <3>1, <3>2 DEF ByteOK
    <3>7. n.body[p].buf = b /\ n.body[p].obj = o
      BY <3>1, <3>2
    <3>. QED  BY <3>3, <3>4, <3>5, <3>6, <3>7 DEF ByteOK
  <2>. QED  BY <2>1, <2>2 DEF BytesOK
<1>. QED  BY <1>3, <1>4, <1>5

(* Contexts that a step leaves alone.                                       *)
LEMMA SameTop ==
  ASSUME NEW cs \in Seq(Context), NEW t, t = cs
  PROVE  Alike(cs, t)
BY DEF Alike, SameButSlots

(* The types after a step that leaves the native objects' references alone. *)
LEMMA TypeNext ==
  ASSUME TypeInv, ext' = ext, mem' \in Memory, Backs(mem, mem'), ctxs' \in Seq(Context),
         handed' \subseteq Ptrs, owns' \in [Ptrs -> Nat], held' = held, gone' = gone
  PROVE  TypeInv'
<1>1. \A p \in Ptrs : Backed(mem'.reg[p], held'[p])
  BY DEF TypeInv, Backs
<1>. QED  BY <1>1 DEF TypeInv

(* The references to native objects stay what the registry says.            *)
LEMMA HeldKept ==
  ASSUME NEW m \in Memory, NEW n, SameForeign(m, n), NEW h, HeldOK(m, h)
  PROVE  HeldOK(n, h)
BY DEF HeldOK, SameForeign

-----------------------------------------------------------------------------
(* A context begins                                                         *)

(* A new context is empty.                                                  *)
LEMMA NewContextFacts ==
  ASSUME NEW keep \in BOOLEAN
  PROVE  /\ NewContext(keep) \in Context
         /\ Allocs(NewContext(keep)) = {}
         /\ \A p \in Ptrs : NewContext(keep).objBy[p] = Null
         /\ \A o \in Objs : NewContext(keep).ptrBy[o] = Null /\ NewContext(keep).bufs[o] = Null
<1>1. NewContext(keep) \in Context
  BY DEF NewContext, Context, ObjOrNull, PtrOrNull
<1>2. NewContext(keep).allocs = <<>>
  BY DEF NewContext
<1>3. Allocs(NewContext(keep)) = {}
  BY <1>2 DEF Allocs
<1>. QED  BY <1>1, <1>3 DEF NewContext

(* A new context has its type,                                              *)
LEMMA EnterType ==
  ASSUME TypeInv, NEW keep \in BOOLEAN, Enter(keep)
  PROVE  TypeInv'
<1>1. ctxs' \in Seq(Context)
  BY NewContextFacts, Pushed DEF Enter, TypeInv
<1>2. Backs(mem, mem')
  BY DEF Enter, Backs
<1>. QED  BY <1>1, <1>2, TypeNext DEF Enter, TypeInv

(* and knows nothing yet.                                                   *)
LEMMA EnterLive ==
  ASSUME TypeInv, Live, NEW keep \in BOOLEAN, Enter(keep)
  PROVE  Live'
<1>. DEFINE n == Len(ctxs)
<1>1. PICK d, t : d = NewContext(keep) /\ t = ctxs'
  OBVIOUS
<1>2. /\ d \in Context /\ d.allocs = <<>> /\ Allocs(d) = {}
      /\ \A p \in Ptrs : d.objBy[p] = Null
      /\ \A o \in Objs : d.ptrBy[o] = Null /\ d.bufs[o] = Null
  BY <1>1, NewContextFacts DEF NewContext
<1>3. ctxs \in Seq(Context) /\ mem \in Memory /\ mem' = mem /\ ext' = ext /\ owns' = owns /\ held' = held /\ handed' = handed
  BY DEF Enter, TypeInv
<1>4. /\ n \in Nat /\ DOMAIN ctxs = 1 .. n /\ DOMAIN t = 1 .. (n + 1)
      /\ \A i \in 1 .. (n + 1) : t[i] = IF i = n + 1 THEN d ELSE ctxs[i]
  BY <1>1, <1>3, Pushed DEF Enter
<1>. HIDE DEF n
<1>5. \A i \in DOMAIN t : i # n + 1 => i \in DOMAIN ctxs /\ t[i] = ctxs[i]
  BY <1>4
<1>6. \A i \in DOMAIN ctxs : i \in DOMAIN t /\ t[i] = ctxs[i] /\ i # n + 1
  BY <1>4
<1>7. n + 1 \in DOMAIN t /\ t[n + 1] = d
  BY <1>4
<1>8. ShapeOK(ext, d) /\ KnownOK(mem, d) /\ Counts(mem, d, owns)
  BY <1>2 DEF ShapeOK, KnownOK, Counts
<1>9. \A i \in DOMAIN ctxs : ApartOK(ext, ctxs[i], d)
  BY <1>2 DEF ApartOK
<1>10. ContextsOK(ext, mem, ctxs) /\ CoverOK(mem, ctxs) /\ BytesOK(ext, mem, ctxs) /\ OwnsOK(ext, mem, ctxs, owns)
  BY DEF Live
<1>11. ContextsOK(ext, mem, t)
  <2>1. \A i \in DOMAIN t : ShapeOK(ext, t[i]) /\ KnownOK(mem, t[i])
    BY <1>5, <1>7, <1>8, <1>10 DEF ContextsOK
  <2>2. ASSUME NEW i \in DOMAIN t, NEW j \in DOMAIN t, i < j PROVE ApartOK(ext, t[i], t[j])
    <3>1. i # n + 1
      BY <1>4, <2>2
    <3>. QED  BY <1>5, <1>7, <1>9, <1>10, <2>2, <3>1 DEF ContextsOK
  <2>. QED  BY <2>1, <2>2 DEF ContextsOK
<1>12. CoverOK(mem, t)
  BY <1>6, <1>10 DEF CoverOK, Covered
<1>13. BytesOK(ext, mem, t)
  <2>1. ASSUME NEW p \in Ptrs, IsByteArray(mem, p) PROVE ByteOK(ext, mem, t, p)
    <3>1. ByteOK(ext, mem, ctxs, p)
      BY <1>10, <2>1 DEF BytesOK
    <3>2. mem.body[p].obj \in Objs /\ p # Null
      BY <1>3, <2>1, MemoryFields, CapiAssumption DEF IsByteArray, Body, ObjOrNull
    <3>3. ASSUME NEW i \in DOMAIN t, i = n + 1
          PROVE  /\ \A y \in Objs : t[i].bufs[y] # mem.body[p].buf
                 /\ t[i].ptrBy[mem.body[p].obj] # p
      BY <1>2, <1>7, <3>1, <3>2, <3>3 DEF ByteOK
    <3>. QED  BY <1>5, <1>6, <3>1, <3>3 DEF ByteOK
  <2>. QED  BY <1>10, <2>1 DEF BytesOK
<1>14. OwnsOK(ext, mem, t, owns)
  BY <1>5, <1>7, <1>8, <1>10 DEF OwnsOK
<1>. QED  BY <1>1, <1>3, <1>11, <1>12, <1>13, <1>14 DEF Live

-----------------------------------------------------------------------------
(* Steps that change the registry, names and counts                         *)

(* No block's count is changed.                                             *)
HeadersKept(m, n) == \A q \in Ptrs : m.body[q].obj # Null => n.hdr[q] = m.hdr[q]

(* Then the counts that cover native code's references stay.                *)
LEMMA OwnsKept ==
  ASSUME NEW x, NEW m, NEW n, SameBlocks(m, n), HeadersKept(m, n),
         NEW cs \in Seq(Context), ContextsOK(x, m, cs), NEW w, OwnsOK(x, m, cs, w)
  PROVE  OwnsOK(x, n, cs, w)
<1>1. SUFFICES ASSUME ~x.across, ~x.inline PROVE OwnsOK(x, n, cs, w)
  BY DEF OwnsOK
<1>2. ASSUME NEW i \in DOMAIN cs PROVE Counts(n, cs[i], w)
  <2>1. Counts(m, cs[i], w)
    BY <1>1 DEF OwnsOK
  <2>2. \A p \in Allocs(cs[i]) : p \in Ptrs /\ m.body[p].obj # Null
    <3>1. cs[i] \in Context /\ ShapeOK(x, cs[i]) /\ KnownOK(m, cs[i])
      BY DEF ContextsOK
    <3>. QED  BY <3>1, ContextFields DEF ShapeOK, KnownOK
  <2>. QED  BY <2>1, <2>2 DEF Counts, HeadersKept, SameBlocks
<1>3. \A p \in Ptrs : w[p] > 0 => n.body[p].obj # Null
  BY <1>1 DEF OwnsOK, SameBlocks
<1>. QED  BY <1>2, <1>3 DEF OwnsOK

(* Blocks that were handed over stay pinned.                                *)
LEMMA HandedKept ==
  ASSUME NEW m, NEW n, SameBlocks(m, n), NEW h \in SUBSET Ptrs, HandedOK(m, h)
  PROVE  HandedOK(n, h)
BY DEF HandedOK, SameBlocks

(* A step of the memory alone. *)
LEMMA MemoryStep ==
  ASSUME TypeInv, Live, ext' = ext, ctxs' = ctxs, owns' = owns, held' = held, handed' = handed,
         MemoryOK(mem'), SameBlocks(mem, mem'), HeadersKept(mem, mem'), SameForeign(mem, mem')
  PROVE  Live'
<1>1. PICK n : n = mem'
  OBVIOUS
<1>2. /\ mem \in Memory /\ ctxs \in Seq(Context) /\ handed \in SUBSET Ptrs
      /\ MemoryOK(mem) /\ ContextsOK(ext, mem, ctxs) /\ CoverOK(mem, ctxs) /\ BytesOK(ext, mem, ctxs)
      /\ OwnsOK(ext, mem, ctxs, owns) /\ HandedOK(mem, handed) /\ HeldOK(mem, held)
  BY DEF TypeInv, Live
<1>3. ContextsOK(ext, n, ctxs) /\ CoverOK(n, ctxs) /\ BytesOK(ext, n, ctxs)
  BY <1>1, <1>2, SameTop, QuietStep
<1>4. OwnsOK(ext, n, ctxs, owns) /\ HandedOK(n, handed) /\ HeldOK(n, held)
  BY <1>1, <1>2, OwnsKept, HandedKept, HeldKept
<1>. QED  BY <1>1, <1>3, <1>4 DEF Live

(* What native code may use is a block of ours with an object.              *)
LEMMA UsableFacts ==
  ASSUME NEW p \in Ptrs, Usable(p), mem \in Memory, MemoryOK(mem)
  PROVE  mem.heap[p] = "ours" /\ mem.body[p].obj \in Objs
BY OwnedFacts DEF Usable

(* HandOver keeps the types,                                                *)
LEMMA HandOverType ==
  ASSUME TypeInv, NEW p \in Ptrs, HandOver(p)
  PROVE  TypeInv'
<1>1. PICK r, n : r = Register(mem, {p}, "owned") /\ n = Pin(r, {p})
  OBVIOUS
<1>2. mem \in Memory /\ {p} \in SUBSET Ptrs
  BY DEF TypeInv
<1>3. r \in Memory /\ Backs(mem, r)
  BY <1>1, <1>2, RegisterFacts, OperationsBack
<1>4. n \in Memory /\ Backs(mem, n)
  BY <1>1, <1>2, <1>3, PinFacts, OperationsBack, BacksTransitive
<1>. QED  BY <1>1, <1>4, TypeNext DEF HandOver, TypeInv

(* and pins the block that the VM now has.                                  *)
LEMMA HandOverLive ==
  ASSUME TypeInv, Live, NEW p \in Ptrs, HandOver(p)
  PROVE  Live'
<1>1. PICK r, n : r = Register(mem, {p}, "owned") /\ n = Pin(r, {p})
  OBVIOUS
<1>2. /\ mem \in Memory /\ {p} \in SUBSET Ptrs /\ ctxs \in Seq(Context) /\ handed \in SUBSET Ptrs
      /\ MemoryOK(mem) /\ ContextsOK(ext, mem, ctxs) /\ CoverOK(mem, ctxs) /\ BytesOK(ext, mem, ctxs)
      /\ OwnsOK(ext, mem, ctxs, owns) /\ HandedOK(mem, handed) /\ HeldOK(mem, held)
  BY DEF TypeInv, Live
<1>3. mem.heap[p] = "ours" /\ mem.body[p].obj \in Objs
  BY <1>2, UsableFacts DEF HandOver
<1>4. r \in Memory /\ MemoryOK(r) /\ r.heap = mem.heap /\ r.body = mem.body /\ r.hdr = mem.hdr
      /\ \A q \in Ptrs : r.reg[q] = mem.reg[q]
  BY <1>1, <1>2, <1>3, RegisterAgain
<1>5. /\ n \in Memory /\ n.heap = mem.heap /\ n.body = mem.body /\ n.hdr = mem.hdr
      /\ MemoryOK(n) /\ (\A q \in Ptrs : Pinned(n, q) <=> Pinned(r, q) \/ q \in {p}) /\ SameForeign(r, n)
  <2>1. \A q \in {p} : r.heap[q] = "ours"
    BY <1>3, <1>4
  <2>2. MemoryOK(n) /\ \A q \in Ptrs : Pinned(n, q) <=> Pinned(r, q) \/ q \in {p}
    BY <1>1, <1>2, <1>4, <2>1, PinOK
  <2>3. SameForeign(r, n)
    BY <1>1, <1>2, <1>4, OperationsBack
  <2>4. n \in Memory /\ n.heap = mem.heap /\ n.body = mem.body /\ n.hdr = mem.hdr
    BY <1>1, <1>2, <1>4, PinFacts
  <2>. QED  BY <2>2, <2>3, <2>4
<1>6. SameBlocks(mem, n) /\ SameForeign(mem, n) /\ HeadersKept(mem, n)
  <2>1. \A q \in Ptrs : Pinned(mem, q) => Pinned(n, q)
    BY <1>4, <1>5 DEF Pinned
  <2>2. SameForeign(mem, n)
    BY <1>4, <1>5 DEF SameForeign
  <2>. QED  BY <1>4, <1>5, <2>1, <2>2 DEF SameBlocks, HeadersKept
<1>7. ContextsOK(ext, n, ctxs) /\ CoverOK(n, ctxs) /\ BytesOK(ext, n, ctxs)
  BY <1>2, <1>6, SameTop, QuietStep
<1>8. OwnsOK(ext, n, ctxs, owns) /\ HandedOK(n, handed) /\ HeldOK(n, held)
  BY <1>2, <1>6, OwnsKept, HandedKept, HeldKept
<1>9. HandedOK(n, handed \cup {p})
  <2>1. mem.body[p].obj # Null
    BY <1>3, CapiAssumption
  <2>. QED  BY <1>5, <1>8, <2>1 DEF HandedOK
<1>10. /\ mem' = n /\ ext' = ext /\ ctxs' = ctxs /\ owns' = owns /\ held' = held
       /\ handed' = handed \cup {p}
  BY <1>1 DEF HandOver
<1>. QED  BY <1>5, <1>7, <1>8, <1>9, <1>10 DEF Live

-----------------------------------------------------------------------------
(* Reference counts                                                         *)

(* Updates of one count: in the header, and of the handle.                  *)
WithHeader(m, p, k) == [m EXCEPT !.hdr[p] = k]

WithSlot(c, o, k) == [c EXCEPT !.slot[o] = k]

(* Memories that differ only in their headers' counts.                      *)
SameButHeaders(m, n) ==
  /\ n \in Memory
  /\ n.heap = m.heap /\ n.body = m.body /\ n.reg = m.reg /\ n.pinSet = m.pinSet
  /\ n.pinVec = m.pinVec /\ n.valueOf = m.valueOf /\ n.ptrOf = m.ptrOf /\ n.bad = m.bad

HeaderSet(m, n, p, k) == n.hdr[p] = k /\ \A q \in Ptrs : q # p => n.hdr[q] = m.hdr[q]

(* A header's count changes, and nothing else. *)
LEMMA HeaderFacts ==
  ASSUME NEW m \in Memory, NEW p \in Ptrs, NEW k \in Nat, NEW n, n = WithHeader(m, p, k)
  PROVE  SameButHeaders(m, n) /\ HeaderSet(m, n, p, k)
<1>. DEFINE hdr == [m.hdr EXCEPT ![p] = k]
<1>1. n = [m EXCEPT !.hdr = hdr]
  BY DEF Memory, WithHeader
<1>2. hdr \in [Ptrs -> Nat] /\ hdr[p] = k /\ \A q \in Ptrs : q # p => hdr[q] = m.hdr[q]
  BY MemoryFields
<1>3. SameButHeaders(m, n) /\ n.hdr = hdr
  <2>. HIDE DEF hdr
  <2>. QED  BY <1>1, <1>2 DEF Memory, SameButHeaders
<1>. QED  BY <1>2, <1>3 DEF HeaderSet

(* Counts matter neither to the registry nor to the tables.                 *)
LEMMA HeadersOnly ==
  ASSUME NEW m \in Memory, NEW n, SameButHeaders(m, n)
  PROVE  /\ Backs(m, n) /\ SameForeign(m, n) /\ SameBlocks(m, n)
         /\ \A q \in Ptrs : (Pinned(n, q) <=> Pinned(m, q)) /\ (Owned(n, q) <=> Owned(m, q))
         /\ MemoryOK(m) => MemoryOK(n)
<1>1. Backs(m, n) /\ SameForeign(m, n) /\ \A q \in Ptrs : Pinned(n, q) <=> Pinned(m, q)
  BY SameEntriesBack DEF SameButHeaders
<1>2. SameBlocks(m, n) /\ \A q \in Ptrs : Owned(n, q) <=> Owned(m, q)
  BY <1>1 DEF SameButHeaders, SameBlocks, Owned
<1>3. ASSUME MemoryOK(m) PROVE MemoryOK(n)
  BY <1>1, <1>3 DEF SameButHeaders, MemoryOK, AddressOK, NameOK
<1>. QED  BY <1>1, <1>2, <1>3

(* The header of an object's block follows the count of its handle.         *)
LEMMA CountedFacts ==
  ASSUME NEW m \in Memory, NEW c \in Context, NEW o \in Objs, NEW k \in Nat, NEW n, n = Counted(m, c, o, k)
  PROVE  /\ SameButHeaders(m, n)
         /\ \A q \in Ptrs : n.hdr[q] = IF q = c.ptrBy[o] /\ Owned(m, q) THEN k ELSE m.hdr[q]
<1>1. PICK q0 : q0 = c.ptrBy[o]
  OBVIOUS
<1>2. q0 \in PtrOrNull /\ Null \notin Ptrs
  BY <1>1, ContextFields, CapiAssumption
<1>3. CASE q0 # Null /\ Owned(m, q0)
  <2>1. q0 \in Ptrs /\ n = WithHeader(m, q0, k)
    BY <1>1, <1>2, <1>3 DEF Counted, PtrOrNull, WithHeader
  <2>. QED  BY <1>1, <1>3, <2>1, HeaderFacts DEF HeaderSet
<1>4. CASE ~(q0 # Null /\ Owned(m, q0))
  <2>1. n = m
    BY <1>1, <1>4 DEF Counted
  <2>. QED  BY <1>1, <1>2, <1>4, <2>1 DEF SameButHeaders
<1>. QED  BY <1>3, <1>4

(* WithSlot changes one count of a context.                                 *)
LEMMA SlotFacts ==
  ASSUME NEW c \in Context, NEW o \in Objs, NEW k \in Nat, NEW d, d = WithSlot(c, o, k)
  PROVE  /\ d \in Context /\ SameButSlots(c, d) /\ d.slot[o] = k
         /\ \A y \in Objs : y # o => d.slot[y] = c.slot[y]
<1>. DEFINE slot == [c.slot EXCEPT ![o] = k]
<1>1. d = [c EXCEPT !.slot = slot]
  BY DEF Context, WithSlot
<1>2. slot \in [Objs -> Nat] /\ slot[o] = k /\ \A y \in Objs : y # o => slot[y] = c.slot[y]
  BY ContextFields
<1>3. d \in Context /\ SameButSlots(c, d) /\ d.slot = slot
  <2>. HIDE DEF slot
  <2>. QED  BY <1>1, <1>2 DEF Context, SameButSlots
<1>. QED  BY <1>2, <1>3

(* The stack with a top that differs only in its counts.                    *)
LEMMA TopAlike ==
  ASSUME NEW cs \in Seq(Context), cs # <<>>, NEW d, NEW t, TopIs(cs, t, d), SameButSlots(Last(cs), d)
  PROVE  Alike(cs, t)
<1>1. Last(cs) = cs[Len(cs)]
  BY TopFacts
<1>. QED  BY <1>1 DEF TopIs, Alike, SameButSlots

(* A step that makes, moves and frees no block.                             *)
LEMMA SlotStep ==
  ASSUME TypeInv, Live, ext' = ext, held' = held, handed' = handed, Alike(ctxs, ctxs'),
         MemoryOK(mem'), SameBlocks(mem, mem'), SameForeign(mem, mem'), OwnsOK(ext, mem', ctxs', owns')
  PROVE  Live'
<1>1. PICK n, t : n = mem' /\ t = ctxs'
  OBVIOUS
<1>2. /\ mem \in Memory /\ ctxs \in Seq(Context) /\ handed \in SUBSET Ptrs
      /\ MemoryOK(mem) /\ ContextsOK(ext, mem, ctxs) /\ CoverOK(mem, ctxs) /\ BytesOK(ext, mem, ctxs)
      /\ HandedOK(mem, handed) /\ HeldOK(mem, held)
  BY DEF TypeInv, Live
<1>3. ContextsOK(ext, n, t) /\ CoverOK(n, t) /\ BytesOK(ext, n, t)
  BY <1>1, <1>2, QuietStep
<1>4. HandedOK(n, handed) /\ HeldOK(n, held)
  BY <1>1, <1>2, HandedKept, HeldKept
<1>. QED  BY <1>1, <1>3, <1>4 DEF Live

(* A reference to block p of object o is taken or released in context c.    *)
Recounted(m, n, c, d, w, v, p, o) ==
  /\ SameButSlots(c, d)
  /\ \A y \in Objs : y # o => d.slot[y] = c.slot[y]
  /\ \A q \in Ptrs : q # p => v[q] = w[q]
  /\ \A q \in Ptrs : q # p /\ q # c.ptrBy[o] => n.hdr[q] = m.hdr[q]
  /\ p # c.ptrBy[o] /\ m.hdr[p] > w[p] => n.hdr[p] > v[p]
  /\ c.slot[o] > w[p] => d.slot[o] > v[p]
  /\ n.hdr[c.ptrBy[o]] = d.slot[o]

(* A reference that is taken or released is counted in the header and in    *)
(* the handle.                                                              *)
LEMMA TopCounts ==
  ASSUME NEW x, NEW m, NEW n, NEW c \in Context, NEW d, NEW w, NEW v, NEW p \in Ptrs, NEW o \in Objs,
         o = c.objBy[p], ShapeOK(x, c), Counts(m, c, w), Recounted(m, n, c, d, w, v, p, o),
         \A q \in Ptrs : Pinned(m, q) => Pinned(n, q)
  PROVE  Counts(n, d, v)
<1>1. PICK q0 : q0 = c.ptrBy[o]
  OBVIOUS
<1>2. Allocs(d) = Allocs(c) /\ Allocs(c) \subseteq Ptrs /\ d.objBy = c.objBy /\ d.ptrBy = c.ptrBy
  BY SlotsApart, ContextFields DEF Recounted, SameButSlots
<1>3. SUFFICES ASSUME NEW q \in Allocs(c)
               PROVE  /\ Pinned(n, q) \/ n.hdr[q] > v[q]
                      /\ c.ptrBy[c.objBy[q]] = q => d.slot[c.objBy[q]] > v[q]
  BY <1>2 DEF Counts
<1>4. /\ Pinned(m, q) \/ m.hdr[q] > w[q]
      /\ c.ptrBy[c.objBy[q]] = q => c.slot[c.objBy[q]] > w[q]
      /\ q \in Ptrs /\ (Pinned(m, q) => Pinned(n, q))
  BY <1>2, <1>3 DEF Counts
<1>5. c.objBy[q] \in Objs
  BY <1>2, <1>3, <1>4, ContextFields DEF ShapeOK, ObjOrNull
<1>6. q = q0 => q = p
  <2>1. ASSUME q = q0 PROVE q = p
    <3>1. c.objBy[q] = o
      BY <1>1, <1>4, <2>1, CapiAssumption DEF ShapeOK
    <3>. QED  BY SMTT(60), <1>1, <1>3, <2>1, <3>1 DEF ShapeOK
  <2>. QED  BY <2>1
<1>7. CASE q = p /\ p = q0
  BY ZenonT(40), <1>1, <1>4, <1>7 DEF Recounted
<1>8. CASE q = p /\ p # q0
  BY <1>1, <1>4, <1>8 DEF Recounted
<1>9. CASE q # p
  <2>1. n.hdr[q] = m.hdr[q] /\ v[q] = w[q]
    BY <1>1, <1>4, <1>6, <1>9 DEF Recounted
  <2>2. c.objBy[q] = o => c.ptrBy[c.objBy[q]] # q
    BY <1>1, <1>6, <1>9
  <2>. QED  BY <1>4, <1>5, <2>1, <2>2 DEF Recounted
<1>. QED  BY <1>7, <1>8, <1>9

(* So the counts of the context in progress cover it, and the others are    *)
(* not concerned.                                                           *)
LEMMA CountsStep ==
  ASSUME NEW x, NEW m, NEW n, SameBlocks(m, n), NEW cs \in Seq(Context), cs # <<>>,
         NEW c, c = Last(cs), NEW d, NEW t, TopIs(cs, t, d), ContextsOK(x, m, cs), NEW w, NEW v,
         OwnsOK(x, m, cs, w), NEW p \in Ptrs, NEW o \in Objs, o = c.objBy[p], m.body[p].obj # Null,
         Recounted(m, n, c, d, w, v, p, o)
  PROVE  OwnsOK(x, n, t, v)
<1>1. SUFFICES ASSUME ~x.across, ~x.inline PROVE OwnsOK(x, n, t, v)
  BY DEF OwnsOK
<1>2. /\ Len(cs) \in DOMAIN cs /\ c = cs[Len(cs)] /\ c \in Context /\ DOMAIN t = DOMAIN cs
      /\ \A i \in DOMAIN cs : cs[i] \in Context /\ (i # Len(cs) => i < Len(cs) /\ t[i] = cs[i])
      /\ t[Len(cs)] = d
  BY TopFacts DEF TopIs
<1>3. /\ \A i \in DOMAIN cs : ShapeOK(x, cs[i]) /\ KnownOK(m, cs[i]) /\ Counts(m, cs[i], w)
      /\ \A i \in DOMAIN cs : i # Len(cs) => ApartOK(x, cs[i], c)
      /\ \A q \in Ptrs : w[q] > 0 => m.body[q].obj # Null
  BY <1>1, <1>2 DEF ContextsOK, OwnsOK
<1>4. \A q \in Ptrs : Pinned(m, q) => Pinned(n, q)
  BY DEF SameBlocks
<1>5. \A q \in Ptrs : v[q] > 0 => n.body[q].obj # Null
  BY <1>3 DEF Recounted, SameBlocks
<1>6. Counts(n, d, v)
  <2>1. ShapeOK(x, c) /\ Counts(m, c, w)
    BY <1>2, <1>3
  <2>. QED  BY <1>2, <1>4, <2>1, TopCounts
<1>7. ASSUME NEW i \in DOMAIN cs, i # Len(cs) PROVE Counts(n, cs[i], v)
  <2>1. PICK b, q0 : b = cs[i] /\ q0 = c.ptrBy[o]
    OBVIOUS
  <2>2. b \in Context /\ ShapeOK(x, b) /\ Counts(m, b, w) /\ ApartOK(x, b, c) /\ ShapeOK(x, c)
    BY <1>2, <1>3, <1>7, <2>1
  <2>3. o # Null
    BY CapiAssumption
  <2>4. q0 \in Ptrs /\ c.objBy[q0] = o
    <3>1. c.ptrBy \in [Objs -> PtrOrNull]
      BY <1>2, ContextFields
    <3>2. q0 # Null
      BY <2>1, <2>2, <2>3 DEF ShapeOK
    <3>3. c.objBy[q0] = o
      BY <2>1, <2>2, <3>2 DEF ShapeOK
    <3>. QED  BY <2>1, <3>1, <3>2, <3>3 DEF PtrOrNull
  <2>5. b.objBy[p] = Null /\ b.objBy[q0] = Null
    BY <1>1, <2>2, <2>3, <2>4 DEF ApartOK
  <2>6. \A q \in Allocs(b) : q \in Ptrs /\ q # p /\ q # q0
    BY <2>2, <2>5, ContextFields DEF ShapeOK
  <2>7. \A q \in Allocs(b) : n.hdr[q] = m.hdr[q] /\ v[q] = w[q]
    BY <2>1, <2>6 DEF Recounted
  <2>. QED  BY <1>4, <2>1, <2>2, <2>6, <2>7 DEF Counts
<1>. QED  BY <1>2, <1>5, <1>6, <1>7 DEF OwnsOK

(* A reference to a block the active context does not know, or one that     *)
(* only lowers what native code holds.                                      *)
Stray(x, m, n, cs, p, w, v) ==
  /\ \A q \in Ptrs : q # p => v[q] = w[q] /\ n.hdr[q] = m.hdr[q]
  /\ ~x.across /\ ~x.inline =>
       \/ \A i \in DOMAIN cs : cs[i].objBy[p] = Null
       \/ /\ m.hdr[p] > w[p] => n.hdr[p] > v[p]
          /\ \A k \in Nat : k > w[p] => k > v[p]

(* A reference to a block that no context of the extension knows.           *)
LEMMA StrangerCounts ==
  ASSUME NEW x, NEW m, NEW n, SameBlocks(m, n), NEW cs \in Seq(Context), ContextsOK(x, m, cs),
         NEW w, NEW v, OwnsOK(x, m, cs, w), NEW p \in Ptrs, m.body[p].obj # Null,
         Stray(x, m, n, cs, p, w, v)
  PROVE  OwnsOK(x, n, cs, v)
<1>1. SUFFICES ASSUME ~x.across, ~x.inline PROVE OwnsOK(x, n, cs, v)
  BY DEF OwnsOK
<1>2. /\ \A q \in Ptrs : w[q] > 0 => m.body[q].obj # Null
      /\ \A i \in DOMAIN cs : Counts(m, cs[i], w) /\ ShapeOK(x, cs[i]) /\ cs[i] \in Context
  BY <1>1 DEF OwnsOK, ContextsOK
<1>3. \A q \in Ptrs : v[q] > 0 => n.body[q].obj # Null
  BY <1>2 DEF SameBlocks, Stray
<1>4. ASSUME NEW i \in DOMAIN cs PROVE Counts(n, cs[i], v)
  <2>1. PICK b : b = cs[i]
    OBVIOUS
  <2>2. b \in Context /\ ShapeOK(x, b) /\ Counts(m, b, w)
    BY <1>2, <2>1
  <2>3. \A q \in Allocs(b) : q \in Ptrs /\ b.objBy[q] # Null /\ b.objBy[q] \in Objs /\ b.slot[b.objBy[q]] \in Nat
    BY <2>2, ContextFields DEF ShapeOK, ObjOrNull
  <2>4. ASSUME NEW q \in Allocs(b)
        PROVE  /\ Pinned(n, q) \/ n.hdr[q] > v[q]
               /\ b.ptrBy[b.objBy[q]] = q => b.slot[b.objBy[q]] > v[q]
    <3>1. /\ Pinned(m, q) \/ m.hdr[q] > w[q]
          /\ b.ptrBy[b.objBy[q]] = q => b.slot[b.objBy[q]] > w[q]
          /\ q \in Ptrs /\ (Pinned(m, q) => Pinned(n, q)) /\ b.slot[b.objBy[q]] \in Nat
      BY <2>2, <2>3 DEF Counts, SameBlocks
    <3>2. CASE q # p
      BY <3>1, <3>2 DEF Stray
    <3>3. CASE q = p
      <4>1. /\ m.hdr[p] > w[p] => n.hdr[p] > v[p]
            /\ \A k \in Nat : k > w[p] => k > v[p]
        BY <1>1, <2>1, <2>3, <3>3 DEF Stray
      <4>. QED  BY <3>1, <3>3, <4>1
    <3>. QED  BY <3>2, <3>3
  <2>. QED  BY <2>1, <2>4 DEF Counts
<1>. QED  BY <1>3, <1>4 DEF OwnsOK

(* A context is in progress and the VM is there.                            *)
LEMMA ActiveFacts ==
  ASSUME TypeInv, Active
  PROVE  /\ ctxs \in Seq(Context) /\ ctxs # <<>> /\ Top \in Context /\ Top = Last(ctxs)
         /\ mem \in Memory /\ ~gone /\ ext \in Extensions
BY TopFacts DEF TypeInv, Active, Top

(* The inline macro changes a header,                                       *)
LEMMA InlineIncRefType ==
  ASSUME TypeInv, NEW p \in Ptrs, InlineIncRef(p)
  PROVE  TypeInv'
<1>1. PICK n : n = mem'
  OBVIOUS
<1>2. mem \in Memory /\ mem.hdr[p] + 1 \in Nat /\ owns \in [Ptrs -> Nat]
  BY MemoryFields DEF TypeInv
<1>3. SameButHeaders(mem, n)
  <2>1. n = WithHeader(mem, p, mem.hdr[p] + 1)
    BY <1>1 DEF InlineIncRef, WithHeader
  <2>. QED  BY <1>2, <2>1, HeaderFacts
<1>4. n \in Memory /\ Backs(mem, n)
  BY <1>2, <1>3, HeadersOnly DEF SameButHeaders
<1>5. owns' \in [Ptrs -> Nat]
  BY <1>2 DEF InlineIncRef
<1>. QED  BY <1>1, <1>4, <1>5, TypeNext DEF InlineIncRef, TypeInv

(* which an extension with inline may.                                      *)
LEMMA InlineIncRefLive ==
  ASSUME TypeInv, Live, NEW p \in Ptrs, InlineIncRef(p)
  PROVE  Live'
<1>1. PICK n : n = mem'
  OBVIOUS
<1>2. mem \in Memory /\ mem.hdr[p] + 1 \in Nat /\ ctxs \in Seq(Context) /\ MemoryOK(mem)
  BY MemoryFields DEF TypeInv, Live
<1>3. SameButHeaders(mem, n)
  <2>1. n = WithHeader(mem, p, mem.hdr[p] + 1)
    BY <1>1 DEF InlineIncRef, WithHeader
  <2>. QED  BY <1>2, <2>1, HeaderFacts
<1>4. MemoryOK(n) /\ SameBlocks(mem, n) /\ SameForeign(mem, n)
  BY <1>2, <1>3, HeadersOnly
<1>5. ext' = ext /\ held' = held /\ handed' = handed /\ ctxs' = ctxs /\ ext.inline
  BY DEF InlineIncRef
<1>6. OwnsOK(ext, mem', ctxs', owns')
  BY <1>5 DEF OwnsOK
<1>7. Alike(ctxs, ctxs')
  BY <1>2, <1>5, SameTop
<1>. QED  BY <1>1, <1>4, <1>5, <1>6, <1>7, SlotStep

(* What IncRef and DecRef do to the header of p, to the header of the       *)
(* object's block and to the count of its handle.                           *)
Recount(m, n, c, d, p, o, h, k) ==
  n = Counted(WithHeader(m, p, h), c, o, k) /\ d = WithSlot(c, o, k)

(* Context d has the count k for o and the others of c.                     *)
SlotSet(c, d, o, k) == d.slot[o] = k /\ \A y \in Objs : y # o => d.slot[y] = c.slot[y]

(* Header p has the count h and that of the object's block the count k.     *)
HeadersSet(m, n, p, q0, h, k) ==
  \A q \in Ptrs : n.hdr[q] = IF q = q0 /\ Owned(m, q) THEN k ELSE IF q = p THEN h ELSE m.hdr[q]

(* What Recount changes.                                                    *)
LEMMA RecountFacts ==
  ASSUME NEW m \in Memory, NEW n, NEW p \in Ptrs, NEW h \in Nat, NEW k \in Nat,
         NEW c \in Context, NEW o \in Objs, NEW d, Recount(m, n, c, d, p, o, h, k)
  PROVE  /\ d \in Context /\ SameButSlots(c, d) /\ SlotSet(c, d, o, k)
         /\ SameButHeaders(m, n) /\ HeadersSet(m, n, p, c.ptrBy[o], h, k)
<1>1. PICK r : r = WithHeader(m, p, h)
  OBVIOUS
<1>2. n = Counted(r, c, o, k) /\ d = WithSlot(c, o, k)
  BY <1>1 DEF Recount
<1>3. d \in Context /\ SameButSlots(c, d) /\ SlotSet(c, d, o, k)
  BY <1>2, SlotFacts DEF SlotSet
<1>4. SameButHeaders(m, r) /\ r \in Memory /\ HeaderSet(m, r, p, h)
  BY <1>1, HeaderFacts DEF SameButHeaders
<1>5. SameButHeaders(r, n) /\ \A q \in Ptrs : n.hdr[q] = IF q = c.ptrBy[o] /\ Owned(r, q) THEN k ELSE r.hdr[q]
  BY <1>2, <1>4, CountedFacts
<1>6. SameButHeaders(m, n)
  BY <1>4, <1>5 DEF SameButHeaders
<1>7. \A q \in Ptrs : Owned(r, q) <=> Owned(m, q)
  BY <1>4, HeadersOnly
<1>8. HeadersSet(m, n, p, c.ptrBy[o], h, k)
  BY <1>4, <1>5, <1>7 DEF HeadersSet, HeaderSet
<1>. QED  BY <1>3, <1>6, <1>8

(* The step of either on the memory and the contexts.                       *)
HeaderOnly(m, n, cs, t, p, h) == n = WithHeader(m, p, h) /\ t = cs

HandleToo(m, n, cs, t, c, p, o, h, k) ==
  o # Null /\ \E d : Recount(m, n, c, d, p, o, h, k) /\ t = Append(Front(cs), d)

(* Its types.                                                               *)
LEMMA RecountType ==
  ASSUME NEW m \in Memory, NEW n, NEW cs \in Seq(Context), cs # <<>>, NEW t, NEW p \in Ptrs,
         NEW h \in Nat, NEW k \in Nat, NEW c, c = Last(cs), NEW o \in ObjOrNull,
         HeaderOnly(m, n, cs, t, p, h) \/ HandleToo(m, n, cs, t, c, p, o, h, k)
  PROVE  SameButHeaders(m, n) /\ n \in Memory /\ Backs(m, n) /\ t \in Seq(Context)
<1>1. SameButHeaders(m, n) /\ t \in Seq(Context)
  <2>1. CASE HeaderOnly(m, n, cs, t, p, h)
    BY <2>1, HeaderFacts DEF HeaderOnly
  <2>2. CASE HandleToo(m, n, cs, t, c, p, o, h, k)
    <3>1. PICK d : Recount(m, n, c, d, p, o, h, k) /\ t = Append(Front(cs), d)
      BY <2>2 DEF HandleToo
    <3>2. c \in Context /\ o \in Objs
      BY <2>2, TopFacts DEF ObjOrNull, HandleToo
    <3>3. SameButHeaders(m, n) /\ d \in Context
      BY <3>1, <3>2, RecountFacts
    <3>. QED  BY <3>1, <3>3, ReplaceTop DEF TopIs
  <2>. QED  BY <2>1, <2>2
<1>. QED  BY <1>1, HeadersOnly DEF SameButHeaders

(* IncRef in terms of the two ways of counting.                             *)
LEMMA IncRefFacts ==
  ASSUME TypeInv, NEW p \in Ptrs, IncRef(p)
  PROVE  \E c \in Context, o \in ObjOrNull, h, k \in Nat :
           /\ ctxs \in Seq(Context) /\ ctxs # <<>> /\ mem \in Memory
           /\ c = Last(ctxs) /\ c = Top /\ o = c.objBy[p] /\ h = mem.hdr[p] + 1
           /\ o # Null => k = c.slot[o] + 1
           /\ \/ o = Null /\ HeaderOnly(mem, mem', ctxs, ctxs', p, h)
              \/ HandleToo(mem, mem', ctxs, ctxs', c, p, o, h, k)
<1>1. PICK c, o, h, k : c = Top /\ o = c.objBy[p] /\ h = mem.hdr[p] + 1 /\ k = IF o = Null THEN 0 ELSE c.slot[o] + 1
  OBVIOUS
<1>2. ctxs \in Seq(Context) /\ ctxs # <<>> /\ c \in Context /\ c = Last(ctxs) /\ mem \in Memory
  BY <1>1, ActiveFacts DEF IncRef
<1>3. h \in Nat /\ k \in Nat /\ o \in ObjOrNull
  BY <1>1, <1>2, MemoryFields, ContextFields DEF ObjOrNull
<1>4. IF o = Null THEN mem' = WithHeader(mem, p, h) /\ ctxs' = ctxs
      ELSE mem' = Counted(WithHeader(mem, p, h), c, o, k) /\ ctxs' = Append(Front(ctxs), WithSlot(c, o, k))
  BY <1>1 DEF IncRef, SetTop, WithHeader, WithSlot
<1>5. \/ o = Null /\ HeaderOnly(mem, mem', ctxs, ctxs', p, h)
      \/ HandleToo(mem, mem', ctxs, ctxs', c, p, o, h, k)
  BY <1>4 DEF HeaderOnly, HandleToo, Recount
<1>. QED  BY <1>1, <1>2, <1>3, <1>5

(* Its types.                                                               *)
LEMMA IncRefType ==
  ASSUME TypeInv, NEW p \in Ptrs, IncRef(p)
  PROVE  TypeInv'
<1>1. mem' \in Memory /\ Backs(mem, mem') /\ ctxs' \in Seq(Context)
  BY ZenonT(40), IncRefFacts, RecountType
<1>2. owns' \in [Ptrs -> Nat]
  BY DEF IncRef, TypeInv
<1>. QED  BY <1>1, <1>2, TypeNext DEF IncRef, TypeInv

(* DecRef in the same terms.                                                *)
LEMMA DecRefFacts ==
  ASSUME TypeInv, NEW p \in Ptrs, DecRef(p)
  PROVE  \E c \in Context, o \in ObjOrNull, h, k \in Nat :
           /\ ctxs \in Seq(Context) /\ ctxs # <<>> /\ mem \in Memory
           /\ c = Last(ctxs) /\ c = Top /\ o = c.objBy[p]
           /\ h \in {mem.hdr[p], mem.hdr[p] - 1}
           /\ o # Null /\ c.slot[o] > 1 => k = c.slot[o] - 1
           /\ HeaderOnly(mem, mem', ctxs, ctxs', p, h) \/ HandleToo(mem, mem', ctxs, ctxs', c, p, o, h, k)
<1>1. PICK c, o, interned, h0, h, k :
        /\ c = Top /\ o = c.objBy[p] /\ interned = (Kind[mem.body[p].obj] = "interned") /\ h0 = mem.hdr[p]
        /\ h = IF h0 > 1 \/ (h0 > 0 /\ ~interned) THEN h0 - 1 ELSE h0
        /\ k = IF o # Null /\ c.slot[o] > 1 THEN c.slot[o] - 1 ELSE 1
  OBVIOUS
<1>2. ctxs \in Seq(Context) /\ ctxs # <<>> /\ c \in Context /\ c = Last(ctxs) /\ mem \in Memory
  BY <1>1, ActiveFacts DEF DecRef
<1>3. o \in ObjOrNull /\ h0 \in Nat /\ (o # Null => c.slot[o] \in Nat)
  BY <1>1, <1>2, MemoryFields, ContextFields DEF ObjOrNull
<1>4. h \in Nat /\ h \in {h0, h0 - 1} /\ k \in Nat
  BY <1>1, <1>3
<1>5. IF o = Null \/ interned THEN mem' = WithHeader(mem, p, h) /\ ctxs' = ctxs
      ELSE mem' = Counted(WithHeader(mem, p, h), c, o, k) /\ ctxs' = Append(Front(ctxs), WithSlot(c, o, k))
  BY <1>1 DEF DecRef, SetTop, WithHeader, WithSlot
<1>6. HeaderOnly(mem, mem', ctxs, ctxs', p, h) \/ HandleToo(mem, mem', ctxs, ctxs', c, p, o, h, k)
  BY <1>5 DEF HeaderOnly, HandleToo, Recount
<1>. QED  BY <1>1, <1>2, <1>3, <1>4, <1>6

(* Its types.                                                               *)
LEMMA DecRefType ==
  ASSUME TypeInv, NEW p \in Ptrs, DecRef(p)
  PROVE  TypeInv'
<1>1. mem' \in Memory /\ Backs(mem, mem') /\ ctxs' \in Seq(Context)
  BY ZenonT(40), DecRefFacts, RecountType
<1>2. owns' \in [Ptrs -> Nat]
  BY DEF DecRef, TypeInv
<1>. QED  BY <1>1, <1>2, TypeNext DEF DecRef, TypeInv

(* The counts follow what native code takes and releases of p.              *)
Tallied(m, c, p, o, h, k, w, v) ==
  /\ \A q \in Ptrs : q # p => v[q] = w[q]
  /\ m.hdr[p] > w[p] => h > v[p]
  /\ o # Null /\ c.slot[o] > w[p] => k > v[p]

Stranger(x, cs, p, w, v) ==
  ~x.across /\ ~x.inline => (\A i \in DOMAIN cs : cs[i].objBy[p] = Null) \/ v[p] <= w[p]

(* The counts after a step on the header only,                              *)
LEMMA HeaderStep ==
  ASSUME NEW x, NEW m \in Memory, NEW n, NEW cs \in Seq(Context), ContextsOK(x, m, cs), NEW p \in Ptrs,
         m.body[p].obj # Null, NEW h \in Nat, n = WithHeader(m, p, h), NEW w \in [Ptrs -> Nat],
         NEW v \in [Ptrs -> Nat], OwnsOK(x, m, cs, w), NEW c, NEW o, NEW k,
         Tallied(m, c, p, o, h, k, w, v), Stranger(x, cs, p, w, v)
  PROVE  OwnsOK(x, n, cs, v)
<1>1. SameButHeaders(m, n) /\ HeaderSet(m, n, p, h)
  BY HeaderFacts
<1>2. SameBlocks(m, n)
  BY <1>1, HeadersOnly
<1>3. ~x.across /\ ~x.inline =>
         \/ \A i \in DOMAIN cs : cs[i].objBy[p] = Null
         \/ /\ m.hdr[p] > w[p] => n.hdr[p] > v[p]
            /\ \A j \in Nat : j > w[p] => j > v[p]
  <2>1. v[p] <= w[p] => \A j \in Nat : j > w[p] => j > v[p]
    OBVIOUS
  <2>. QED  BY <1>1, <2>1 DEF Tallied, Stranger, HeaderSet
<1>4. \A q \in Ptrs : q # p => v[q] = w[q] /\ n.hdr[q] = m.hdr[q]
  BY <1>1 DEF Tallied, HeaderSet
<1>5. Stray(x, m, n, cs, p, w, v)
  BY <1>3, <1>4 DEF Stray
<1>. QED  BY <1>2, <1>5, StrangerCounts

(* What a count of a reference to p relies on: o is the object the context  *)
(* in progress knows p by, and the counts before the step are right.        *)
HandleReady(x, m, cs, p, c, o, w) ==
  /\ m \in Memory /\ MemoryOK(m) /\ m.body[p].obj # Null
  /\ cs \in Seq(Context) /\ cs # <<>> /\ ContextsOK(x, m, cs)
  /\ c \in Context /\ c = Last(cs) /\ o \in ObjOrNull /\ o = c.objBy[p]
  /\ OwnsOK(x, m, cs, w)

HandleDone(x, m, n, cs, t, v) ==
  SameButHeaders(m, n) /\ Alike(cs, t) /\ OwnsOK(x, n, t, v)

(* and after one on header and handle.                                      *)
LEMMA HandleStep ==
  ASSUME NEW x, NEW m, NEW n, NEW cs, NEW t, NEW p \in Ptrs, NEW c, NEW o, NEW w, NEW v,
         NEW h \in Nat, NEW k \in Nat,
         HandleReady(x, m, cs, p, c, o, w),
         HandleToo(m, n, cs, t, c, p, o, h, k), Tallied(m, c, p, o, h, k, w, v)
  PROVE  HandleDone(x, m, n, cs, t, v)
<1>1. /\ m \in Memory /\ MemoryOK(m) /\ m.body[p].obj # Null
      /\ cs \in Seq(Context) /\ cs # <<>> /\ ContextsOK(x, m, cs)
      /\ c \in Context /\ c = Last(cs) /\ o \in ObjOrNull /\ o = c.objBy[p]
      /\ OwnsOK(x, m, cs, w)
  BY DEF HandleReady
<1>2. PICK d : Recount(m, n, c, d, p, o, h, k) /\ t = Append(Front(cs), d) /\ o # Null
  BY DEF HandleToo
<1>3. o \in Objs
  BY <1>1, <1>2 DEF ObjOrNull
<1>4. /\ d \in Context /\ SameButSlots(c, d) /\ SlotSet(c, d, o, k)
      /\ SameButHeaders(m, n) /\ HeadersSet(m, n, p, c.ptrBy[o], h, k)
  BY <1>1, <1>2, <1>3, RecountFacts
<1>5. TopIs(cs, t, d)
  BY <1>1, <1>2, <1>4, ReplaceTop
<1>6. Alike(cs, t)
  BY <1>1, <1>4, <1>5, TopAlike
<1>7. PICK q0 : q0 = c.ptrBy[o]
  OBVIOUS
<1>8. q0 \in Ptrs /\ Owned(m, q0)
  <2>1. ShapeOK(x, c) /\ KnownOK(m, c)
    BY <1>1, TopFacts DEF ContextsOK
  <2>2. q0 # Null /\ c.ptrBy \in [Objs -> PtrOrNull] /\ c.objBy[q0] = o
    BY <1>1, <1>2, <1>3, <1>7, <2>1, ContextFields DEF ShapeOK
  <2>3. q0 \in Ptrs
    BY <1>3, <1>7, <2>2 DEF PtrOrNull
  <2>4. m.body[q0].obj # Null
    BY <1>2, <2>1, <2>2, <2>3 DEF KnownOK
  <2>. QED  BY <1>1, <2>3, <2>4, OwnedFacts
<1>9. Recounted(m, n, c, d, w, v, p, o)
  <2>1. \A q \in Ptrs : q # p /\ q # q0 => n.hdr[q] = m.hdr[q]
    BY <1>4, <1>7 DEF HeadersSet
  <2>2. p # q0 => n.hdr[p] = h
    BY <1>4, <1>7 DEF HeadersSet
  <2>3. n.hdr[q0] = k
    BY <1>4, <1>7, <1>8 DEF HeadersSet
  <2>. QED  BY <1>2, <1>4, <1>7, <2>1, <2>2, <2>3 DEF Recounted, Tallied, SlotSet
<1>10. SameBlocks(m, n)
  BY <1>1, <1>4, HeadersOnly
<1>11. OwnsOK(x, n, t, v)
  BY <1>1, <1>3, <1>5, <1>9, <1>10, CountsStep
<1>. QED  BY <1>4, <1>6, <1>11 DEF HandleDone

(* Counting a reference to p, taken or released by native code.             *)
LEMMA HeaderLive ==
  ASSUME TypeInv, Live, NEW p \in Ptrs, Usable(p), ext' = ext, held' = held, handed' = handed,
         NEW h \in Nat, HeaderOnly(mem, mem', ctxs, ctxs', p, h), owns' \in [Ptrs -> Nat],
         NEW c, NEW o, NEW k, Tallied(mem, c, p, o, h, k, owns, owns'), Stranger(ext, ctxs, p, owns, owns')
  PROVE  Live'
<1>1. PICK n, t, v : n = mem' /\ t = ctxs' /\ v = owns'
  OBVIOUS
<1>2. /\ mem \in Memory /\ ctxs \in Seq(Context) /\ MemoryOK(mem)
      /\ ContextsOK(ext, mem, ctxs) /\ OwnsOK(ext, mem, ctxs, owns) /\ owns \in [Ptrs -> Nat]
  BY DEF TypeInv, Live
<1>3. mem.body[p].obj # Null /\ v \in [Ptrs -> Nat]
  BY <1>1 DEF Usable
<1>4. n = WithHeader(mem, p, h) /\ t = ctxs
  BY <1>1 DEF HeaderOnly
<1>5. SameButHeaders(mem, n)
  BY <1>2, <1>4, HeaderFacts
<1>6. MemoryOK(n) /\ SameBlocks(mem, n) /\ SameForeign(mem, n)
  BY <1>2, <1>5, HeadersOnly
<1>7. Alike(ctxs, t)
  BY <1>2, <1>4, SameTop
<1>8. Tallied(mem, c, p, o, h, k, owns, v) /\ Stranger(ext, ctxs, p, owns, v)
  BY <1>1
<1>9. OwnsOK(ext, n, ctxs, v)
  BY <1>2, <1>3, <1>4, <1>8, HeaderStep
<1>. QED  BY <1>1, <1>4, <1>6, <1>7, <1>9, SlotStep

(* The same with the count of the handle.                                   *)
LEMMA HandleLive ==
  ASSUME TypeInv, Live, NEW p \in Ptrs, Active, Usable(p), ext' = ext, held' = held, handed' = handed,
         NEW h \in Nat, NEW k \in Nat, NEW c \in Context, c = Last(ctxs), NEW o \in ObjOrNull, o = c.objBy[p],
         HandleToo(mem, mem', ctxs, ctxs', c, p, o, h, k), Tallied(mem, c, p, o, h, k, owns, owns')
  PROVE  Live'
<1>1. PICK n, t, v : n = mem' /\ t = ctxs' /\ v = owns'
  OBVIOUS
<1>2. /\ mem \in Memory /\ ctxs \in Seq(Context) /\ ctxs # <<>> /\ MemoryOK(mem)
      /\ ContextsOK(ext, mem, ctxs) /\ OwnsOK(ext, mem, ctxs, owns)
  BY ActiveFacts DEF TypeInv, Live
<1>3. mem.body[p].obj # Null
  BY DEF Usable
<1>4. HandleToo(mem, n, ctxs, t, c, p, o, h, k) /\ Tallied(mem, c, p, o, h, k, owns, v)
  BY <1>1
<1>5. SameButHeaders(mem, n) /\ Alike(ctxs, t) /\ OwnsOK(ext, n, t, v)
  <2>1. HandleReady(ext, mem, ctxs, p, c, o, owns)
    BY <1>2, <1>3 DEF HandleReady
  <2>2. HandleDone(ext, mem, n, ctxs, t, v)
    BY <1>4, <2>1, HandleStep
  <2>. QED  BY <2>2 DEF HandleDone
<1>6. MemoryOK(n) /\ SameBlocks(mem, n) /\ SameForeign(mem, n)
  BY <1>2, <1>5, HeadersOnly
<1>. QED  BY <1>1, <1>5, <1>6, SlotStep

(* A reference is taken: the counts rise with it.                           *)
LEMMA IncRefLive ==
  ASSUME TypeInv, Live, NEW p \in Ptrs, IncRef(p)
  PROVE  Live'
<1>1. PICK c \in Context, o \in ObjOrNull, h \in Nat, k \in Nat :
        /\ ctxs \in Seq(Context) /\ ctxs # <<>> /\ mem \in Memory
        /\ c = Last(ctxs) /\ c = Top /\ o = c.objBy[p] /\ h = mem.hdr[p] + 1
        /\ o # Null => k = c.slot[o] + 1
        /\ \/ o = Null /\ HeaderOnly(mem, mem', ctxs, ctxs', p, h)
           \/ HandleToo(mem, mem', ctxs, ctxs', c, p, o, h, k)
  BY IncRefFacts
<1>2. /\ Active /\ Usable(p) /\ ext' = ext /\ held' = held /\ handed' = handed
      /\ owns' = [owns EXCEPT ![p] = @ + 1] /\ owns \in [Ptrs -> Nat]
  BY DEF IncRef, TypeInv
<1>3. owns' \in [Ptrs -> Nat] /\ owns'[p] = owns[p] + 1 /\ \A q \in Ptrs : q # p => owns'[q] = owns[q]
  BY <1>2
<1>4. mem.hdr[p] \in Nat /\ (o # Null => c.slot[o] \in Nat) /\ owns[p] \in Nat
  BY <1>1, <1>2, MemoryFields, ContextFields DEF ObjOrNull
<1>5. mem.hdr[p] > owns[p] => h > owns'[p]
  BY <1>1, <1>3, <1>4
<1>6. o # Null /\ c.slot[o] > owns[p] => k > owns'[p]
  BY <1>1, <1>3, <1>4
<1>7. o = Null => Stranger(ext, ctxs, p, owns, owns')
  BY <1>1, <1>2 DEF Usable, Stranger
<1>8. Tallied(mem, c, p, o, h, k, owns, owns')
  BY <1>3, <1>5, <1>6 DEF Tallied
<1>9. HandleToo(mem, mem', ctxs, ctxs', c, p, o, h, k) => Live'
  BY <1>1, <1>2, <1>8, HandleLive
<1>10. HeaderOnly(mem, mem', ctxs, ctxs', p, h) /\ Stranger(ext, ctxs, p, owns, owns') => Live'
  BY <1>2, <1>3, <1>8, HeaderLive
<1>. QED  BY <1>1, <1>7, <1>9, <1>10

(* A reference is released: the counts stay above what is left.             *)
LEMMA DecRefLive ==
  ASSUME TypeInv, Live, NEW p \in Ptrs, DecRef(p)
  PROVE  Live'
<1>1. PICK c \in Context, o \in ObjOrNull, h \in Nat, k \in Nat :
        /\ ctxs \in Seq(Context) /\ ctxs # <<>> /\ mem \in Memory
        /\ c = Last(ctxs) /\ c = Top /\ o = c.objBy[p]
        /\ h \in {mem.hdr[p], mem.hdr[p] - 1}
        /\ o # Null /\ c.slot[o] > 1 => k = c.slot[o] - 1
        /\ HeaderOnly(mem, mem', ctxs, ctxs', p, h) \/ HandleToo(mem, mem', ctxs, ctxs', c, p, o, h, k)
  BY DecRefFacts
<1>2. /\ Active /\ Usable(p) /\ ext' = ext /\ held' = held /\ handed' = handed
      /\ owns' = [owns EXCEPT ![p] = @ - 1] /\ owns \in [Ptrs -> Nat] /\ owns[p] > 0
  BY DEF DecRef, TypeInv
<1>3. owns' \in [Ptrs -> Nat] /\ owns'[p] = owns[p] - 1 /\ \A q \in Ptrs : q # p => owns'[q] = owns[q]
  BY <1>2
<1>4. mem.hdr[p] \in Nat /\ (o # Null => c.slot[o] \in Nat) /\ owns[p] \in Nat
  BY <1>1, <1>2, MemoryFields, ContextFields DEF ObjOrNull
<1>5. mem.hdr[p] > owns[p] => h > owns'[p]
  BY SMTT(40), <1>1, <1>3, <1>4
<1>6. o # Null /\ c.slot[o] > owns[p] => k > owns'[p]
  BY <1>1, <1>2, <1>3, <1>4
<1>7. Stranger(ext, ctxs, p, owns, owns')
  BY <1>3, <1>4 DEF Stranger
<1>8. Tallied(mem, c, p, o, h, k, owns, owns')
  BY <1>3, <1>5, <1>6 DEF Tallied
<1>9. HandleToo(mem, mem', ctxs, ctxs', c, p, o, h, k) => Live'
  BY <1>1, <1>2, <1>8, HandleLive
<1>10. HeaderOnly(mem, mem', ctxs, ctxs', p, h) /\ Stranger(ext, ctxs, p, owns, owns') => Live'
  BY <1>2, <1>3, <1>8, HeaderLive
<1>. QED  BY <1>1, <1>7, <1>9, <1>10

-----------------------------------------------------------------------------
(* Objects that native code allocates                                       *)

(* Memories that differ at an address that is not a block of ours.          *)
AsideFrom(m, n, p) ==
  /\ n \in Memory /\ n.body = m.body /\ n.pinSet = m.pinSet /\ n.pinVec = m.pinVec
  /\ n.ptrOf = m.ptrOf /\ n.bad = m.bad
  /\ \A q \in Ptrs : q # p => /\ n.heap[q] = m.heap[q] /\ n.hdr[q] = m.hdr[q]
                              /\ n.reg[q] = m.reg[q] /\ n.valueOf[q] = m.valueOf[q]

(* An update of the address's own fields. *)
Aside(m, p, use, k, e, u) ==
  [m EXCEPT !.heap[p] = use, !.hdr[p] = k, !.reg[p] = e, !.valueOf[p] = u]

(* Such an update is a memory that differs at p only.                       *)
LEMMA AsideFacts ==
  ASSUME NEW m \in Memory, NEW p \in Ptrs, NEW use \in {"free", "ours", "theirs"}, NEW k \in Nat,
         NEW e \in Entry, NEW u \in ObjOrNull \cup {Proxied}, NEW n, n = Aside(m, p, use, k, e, u)
  PROVE  AsideFrom(m, n, p) /\ n.heap[p] = use /\ n.reg[p] = e /\ n.valueOf[p] = u
<1>. DEFINE heap == [m.heap EXCEPT ![p] = use]
            hdr == [m.hdr EXCEPT ![p] = k]
            reg == [m.reg EXCEPT ![p] = e]
            value == [m.valueOf EXCEPT ![p] = u]
<1>1. n = [m EXCEPT !.heap = heap, !.hdr = hdr, !.reg = reg, !.valueOf = value]
  BY DEF Memory, Aside
<1>2. heap \in [Ptrs -> {"free", "ours", "theirs"}] /\ heap[p] = use /\ \A q \in Ptrs : q # p => heap[q] = m.heap[q]
  BY MemoryFields
<1>3. hdr \in [Ptrs -> Nat] /\ \A q \in Ptrs : q # p => hdr[q] = m.hdr[q]
  BY MemoryFields
<1>4. reg \in [Ptrs -> Entry] /\ reg[p] = e /\ \A q \in Ptrs : q # p => reg[q] = m.reg[q]
  BY MemoryFields
<1>5. value \in [Ptrs -> ObjOrNull \cup {Proxied}] /\ value[p] = u /\ \A q \in Ptrs : q # p => value[q] = m.valueOf[q]
  BY MemoryFields
<1>. HIDE DEF heap, hdr, reg, value
<1>6. n \in Memory /\ n.heap = heap /\ n.hdr = hdr /\ n.reg = reg /\ n.valueOf = value
      /\ n.body = m.body /\ n.pinSet = m.pinSet /\ n.pinVec = m.pinVec /\ n.ptrOf = m.ptrOf /\ n.bad = m.bad
  BY ZenonT(40), <1>1, <1>2, <1>3, <1>4, <1>5 DEF Memory
<1>. QED  BY <1>2, <1>3, <1>4, <1>5, <1>6 DEF AsideFrom

(* It is of no concern to the blocks of ours. *)
LEMMA AsideOK ==
  ASSUME NEW m \in Memory, MemoryOK(m), NEW p \in Ptrs, m.heap[p] # "ours", NEW n, AsideFrom(m, n, p),
         n.heap[p] # "ours", ~IsOwnedCompat(n.reg[p]),
         n.heap[p] = "free" => n.reg[p].life = "freed",
         n.reg[p].life = "freed" => n.reg[p].pins = 0,
         n.valueOf[p] \notin Objs
  PROVE  MemoryOK(n) /\ SameBlocks(m, n) /\ HeadersKept(m, n)
<1>1. m.body[p].obj = Null /\ ~Pinned(m, p) /\ p \notin m.pinSet /\ ~Pinned(n, p)
  BY DEF MemoryOK, AddressOK, Pinned, IsOwnedPinned, IsOwnedCompat
<1>2. \A q \in Ptrs : q # p => (Pinned(n, q) <=> Pinned(m, q)) /\ (IsOwnedCompat(n.reg[q]) <=> IsOwnedCompat(m.reg[q]))
  BY DEF AsideFrom, Pinned
<1>3. ASSUME NEW q \in Ptrs PROVE AddressOK(n, q)
  <2>1. CASE q = p
    BY <1>1, <2>1 DEF AsideFrom, AddressOK
  <2>2. CASE q # p
    <3>1. AddressOK(m, q)
      BY DEF MemoryOK
    <3>. QED  BY <1>2, <2>2, <3>1 DEF AsideFrom, AddressOK
  <2>. QED  BY <2>1, <2>2
<1>4. \A o \in Objs : NameOK(n, o)
  BY DEF MemoryOK, NameOK, AsideFrom
<1>5. MemoryOK(n)
  BY <1>3, <1>4 DEF MemoryOK, AsideFrom
<1>6. SameBlocks(m, n)
  BY <1>1, <1>2 DEF SameBlocks, AsideFrom
<1>7. HeadersKept(m, n)
  BY <1>1 DEF HeadersKept, AsideFrom
<1>. QED  BY <1>5, <1>6, <1>7

(* Native code allocates an object of its own,                              *)
LEMMA ForeignAllocStep ==
  ASSUME TypeInv, NEW p \in Ptrs, ForeignAlloc(p)
  PROVE  TypeInv' /\ (Live => Live')
<1>1. PICK n : n = mem'
  OBVIOUS
<1>2. mem \in Memory /\ mem.heap[p] = "free"
  BY DEF TypeInv, ForeignAlloc, Free
<1>3. n = Aside(mem, p, "theirs", 1, mem.reg[p], mem.valueOf[p])
  BY ZenonT(40), <1>1, <1>2 DEF ForeignAlloc, Aside, Memory
<1>4. AsideFrom(mem, n, p) /\ n.heap[p] = "theirs" /\ n.reg[p] = mem.reg[p] /\ n.valueOf[p] = mem.valueOf[p]
  BY <1>2, <1>3, MemoryFields, AsideFacts
<1>5. n \in Memory /\ Backs(mem, n) /\ SameForeign(mem, n)
  BY <1>4 DEF AsideFrom, Backs, SameForeign
<1>6. TypeInv'
  BY <1>1, <1>5, TypeNext DEF ForeignAlloc, TypeInv
<1>7. ASSUME Live PROVE Live'
  <2>1. MemoryOK(mem) /\ AddressOK(mem, p)
    BY <1>7 DEF Live, MemoryOK
  <2>2. mem.reg[p].life = "freed" /\ mem.valueOf[p] \notin Objs /\ ~IsOwnedCompat(mem.reg[p]) /\ mem.reg[p].pins = 0
    BY <1>2, <2>1, CapiAssumption DEF AddressOK, IsOwnedCompat
  <2>3. MemoryOK(n) /\ SameBlocks(mem, n) /\ HeadersKept(mem, n)
    BY <1>2, <1>4, <2>1, <2>2, AsideOK
  <2>4. ext' = ext /\ ctxs' = ctxs /\ owns' = owns /\ held' = held /\ handed' = handed
    BY DEF ForeignAlloc
  <2>. QED  BY <1>1, <1>5, <1>7, <2>3, <2>4, MemoryStep
<1>. QED  BY <1>6, <1>7

(* frees it,                                                                *)
LEMMA ForeignFreeStep ==
  ASSUME TypeInv, NEW p \in Ptrs, ForeignFree(p)
  PROVE  TypeInv' /\ (Live => Live')
<1>1. PICK n, e : n = mem' /\ e = FreedEntry(mem.reg[p])
  OBVIOUS
<1>2. mem \in Memory /\ mem.heap[p] = "theirs" /\ held[p] = 0
  BY DEF TypeInv, ForeignFree
<1>3. e \in Entry /\ e.prov = mem.reg[p].prov /\ e.life = "freed" /\ e.pins = 0
  <2>1. mem.reg[p] \in Entry
    BY <1>2, MemoryFields
  <2>2. \A a \in Entry : FreedEntry(a) \in Entry /\ FreedEntry(a).prov = a.prov
                         /\ FreedEntry(a).life = "freed" /\ FreedEntry(a).pins = 0
    BY DEF FreedEntry, Entry
  <2>. QED  BY <1>1, <2>1, <2>2
<1>4. n = Aside(mem, p, "free", 0, e, mem.valueOf[p])
  BY ZenonT(40), <1>1, <1>2 DEF ForeignFree, Aside, Memory
<1>5. AsideFrom(mem, n, p) /\ n.heap[p] = "free" /\ n.reg[p] = e /\ n.valueOf[p] = mem.valueOf[p]
  BY <1>2, <1>3, <1>4, MemoryFields, AsideFacts
<1>6. n \in Memory /\ Backs(mem, n)
  <2>1. \A q \in Ptrs, j \in Nat : Backed(mem.reg[q], j) => Backed(n.reg[q], j)
    <3>1. \A j \in Nat : Backed(e, j)
      <4>1. e.prov \in {"none", "owned", "external"}
        BY <1>3 DEF Entry
      <4>. QED  BY <1>3, <4>1 DEF Backed
    <3>. QED  BY <1>5, <3>1 DEF AsideFrom
  <2>. QED  BY <1>5, <2>1 DEF AsideFrom, Backs
<1>7. TypeInv'
  BY <1>1, <1>6, TypeNext DEF ForeignFree, TypeInv
<1>8. ASSUME Live PROVE Live'
  <2>1. MemoryOK(mem) /\ AddressOK(mem, p) /\ HeldOK(mem, held)
    BY <1>8 DEF Live, MemoryOK
  <2>2. mem.valueOf[p] \notin Objs
    BY <1>2, <2>1, CapiAssumption DEF AddressOK
  <2>3. ~IsOwnedCompat(e)
    BY <1>3 DEF IsOwnedCompat
  <2>4. MemoryOK(n) /\ SameBlocks(mem, n) /\ HeadersKept(mem, n)
    BY <1>2, <1>3, <1>5, <2>1, <2>2, <2>3, AsideOK
  <2>5. SameForeign(mem, n)
    <3>1. mem.reg[p].prov = "external" => mem.reg[p].pins = 0
      BY <1>2, <2>1 DEF HeldOK
    <3>. QED  BY <1>3, <1>5, <3>1 DEF AsideFrom, SameForeign
  <2>6. ext' = ext /\ ctxs' = ctxs /\ owns' = owns /\ held' = held /\ handed' = handed
    BY DEF ForeignFree
  <2>. QED  BY <1>1, <1>8, <2>4, <2>5, <2>6, MemoryStep
<1>. QED  BY <1>7, <1>8

(* The entry a proxy leaves, and the reference it takes unless it had one.  *)
HeldIs(a, k) == k = IF a.prov = "external" THEN a.pins ELSE 0

ProxyOf(a, e, f, k, h) ==
  /\ e = Registered(a, "external", Proxied)
  /\ f = [e EXCEPT !.pins = 1]
  /\ h = (IF e.pins = 0 THEN k + 1 ELSE k)

(* The entry is that of a native object, once, and backed by a reference.   *)
LEMMA ProxyEntry ==
  ASSUME NEW a \in Entry, NEW e, NEW f, NEW k \in Nat, NEW h, ProxyOf(a, e, f, k, h),
         Backed(a, k), ~IsOwnedCompat(a)
  PROVE  /\ f \in Entry /\ f.prov = "external" /\ f.life = "alive" /\ Backed(f, h)
         /\ (a.life = "freed" => a.pins = 0) /\ HeldIs(a, k) => HeldIs(f, h)
<1>1. Proxied # Null
  BY CapiAssumption
<1>2. /\ e.prov = "external" /\ e.life = "alive" /\ e.id = Proxied
      /\ e.pins = IF a.life = "freed" \/ Proxied # a.id THEN 0 ELSE a.pins
      /\ e \in Entry
  BY <1>1 DEF Registered, Entry, ProxyOf
<1>3. f \in Entry /\ f.prov = "external" /\ f.life = "alive" /\ f.pins = 1 /\ f.id = Proxied
  BY <1>2 DEF Entry, ProxyOf
<1>4. a.pins \in {0, 1} /\ a.prov \in {"none", "owned", "external"} /\ a.life \in {"alive", "freed"}
  BY DEF Entry
<1>5. a.prov = "owned" => a.life = "freed"
  BY <1>4 DEF IsOwnedCompat
<1>6. e.pins # 0 => a.prov = "external" /\ a.pins = 1
  BY <1>2, <1>4, <1>5 DEF Backed
<1>7. e.pins # 0 => k >= 1
  BY <1>4, <1>6 DEF Backed
<1>8. Backed(f, h)
  <2>1. 1 <= h
    BY <1>7 DEF ProxyOf
  <2>. QED  BY <1>3, <2>1 DEF Backed
<1>9. ASSUME a.life = "freed" => a.pins = 0, HeldIs(a, k) PROVE HeldIs(f, h)
  <2>1. h = 1
    <3>1. CASE e.pins # 0
      BY <1>6, <1>9, <3>1 DEF HeldIs, ProxyOf
    <3>2. CASE e.pins = 0
      <4>1. a.prov = "external" => a.pins = 0
        BY <1>2, <1>4, <1>9, <3>2 DEF Backed
      <4>. QED  BY <1>9, <3>2, <4>1 DEF HeldIs, ProxyOf
    <3>. QED  BY <3>1, <3>2
  <2>. QED  BY <1>3, <2>1 DEF HeldIs
<1>. QED  BY <1>3, <1>8, <1>9

(* A proxy takes one reference to it, the first time.                       *)
LEMMA ProxyStep ==
  ASSUME TypeInv, NEW p \in Ptrs, Proxy(p)
  PROVE  TypeInv' /\ (Live => Live')
<1>1. PICK n, a, e, f, k, h : /\ n = mem' /\ a = mem.reg[p] /\ e = Registered(a, "external", Proxied)
                              /\ f = [e EXCEPT !.pins = 1]
                              /\ k = (IF e.pins = 0 THEN mem.hdr[p] + 1 ELSE mem.hdr[p])
                              /\ h = (IF e.pins = 0 THEN held[p] + 1 ELSE held[p])
  OBVIOUS
<1>2. /\ mem \in Memory /\ mem.heap[p] = "theirs" /\ held \in [Ptrs -> Nat]
      /\ ~IsOwnedCompat(a) /\ Backed(a, held[p]) /\ held[p] \in Nat
  BY <1>1 DEF TypeInv, Proxy, Owned
<1>3. a \in Entry /\ k \in Nat /\ h \in Nat
  BY <1>1, <1>2, MemoryFields
<1>4. /\ f \in Entry /\ f.prov = "external" /\ f.life = "alive" /\ Backed(f, h)
      /\ (a.life = "freed" => a.pins = 0) /\ HeldIs(a, held[p]) => HeldIs(f, h)
  <2>1. ProxyOf(a, e, f, held[p], h)
    BY <1>1 DEF ProxyOf
  <2>. QED  BY <1>2, <1>3, <2>1, ProxyEntry
<1>5. n = Aside(mem, p, "theirs", k, f, Proxied)
  <2>1. n = [mem EXCEPT !.reg[p] = f, !.valueOf[p] = Proxied, !.hdr[p] = k]
    BY <1>1, Zenon DEF Proxy
  <2>2. [mem.heap EXCEPT ![p] = "theirs"] = mem.heap
    BY <1>2, MemoryFields
  <2>. QED  BY <1>2, <2>1, <2>2 DEF Aside, Memory
<1>6. AsideFrom(mem, n, p) /\ n.heap[p] = "theirs" /\ n.reg[p] = f /\ n.valueOf[p] = Proxied
  BY <1>2, <1>3, <1>4, <1>5, AsideFacts
<1>7. held' \in [Ptrs -> Nat] /\ held'[p] = h /\ \A q \in Ptrs : q # p => held'[q] = held[q]
  BY <1>1, <1>2, <1>3 DEF Proxy
<1>8. ext' = ext /\ ctxs' = ctxs /\ owns' = owns /\ handed' = handed /\ gone' = gone
  BY DEF Proxy
<1>9. TypeInv'
  <2>1. \A q \in Ptrs : Backed(mem'.reg[q], held'[q])
    <3>1. \A q \in Ptrs : q # p => Backed(n.reg[q], held'[q])
      BY <1>6, <1>7 DEF TypeInv, AsideFrom
    <3>. QED  BY <1>1, <1>4, <1>6, <1>7, <3>1
  <2>. QED  BY <1>1, <1>6, <1>7, <1>8, <2>1 DEF TypeInv, AsideFrom
<1>10. ASSUME Live PROVE Live'
  <2>1. /\ ctxs \in Seq(Context) /\ handed \in SUBSET Ptrs
        /\ MemoryOK(mem) /\ ContextsOK(ext, mem, ctxs) /\ CoverOK(mem, ctxs) /\ BytesOK(ext, mem, ctxs)
        /\ OwnsOK(ext, mem, ctxs, owns) /\ HandedOK(mem, handed) /\ HeldOK(mem, held)
    BY <1>10 DEF TypeInv, Live
  <2>2. AddressOK(mem, p)
    BY <2>1 DEF MemoryOK
  <2>3. Proxied \notin Objs /\ ~IsOwnedCompat(f)
    BY <1>4, CapiAssumption DEF IsOwnedCompat
  <2>4. MemoryOK(n) /\ SameBlocks(mem, n) /\ HeadersKept(mem, n)
    BY <1>2, <1>4, <1>6, <2>1, <2>3, AsideOK
  <2>5. ContextsOK(ext, n, ctxs) /\ CoverOK(n, ctxs) /\ BytesOK(ext, n, ctxs)
    BY <1>2, <2>1, <2>4, SameTop, QuietStep
  <2>6. OwnsOK(ext, n, ctxs, owns) /\ HandedOK(n, handed)
    BY <2>1, <2>4, OwnsKept, HandedKept
  <2>7. HeldOK(n, held')
    <3>1. \A q \in Ptrs : HeldIs(mem.reg[q], held[q])
      BY <2>1 DEF HeldOK, HeldIs
    <3>2. a.life = "freed" => a.pins = 0
      BY <1>1, <2>2 DEF AddressOK
    <3>3. HeldIs(f, h)
      BY <1>1, <1>4, <3>1, <3>2
    <3>4. \A q \in Ptrs : HeldIs(n.reg[q], held'[q])
      BY <1>6, <1>7, <3>1, <3>3 DEF AsideFrom
    <3>. QED  BY <3>4 DEF HeldOK, HeldIs
  <2>. QED  BY <1>1, <1>8, <2>4, <2>5, <2>6, <2>7 DEF Live
<1>. QED  BY <1>9, <1>10

-----------------------------------------------------------------------------
(* A pointer is taken for the block of an object                            *)

(* Context d is context c that knows p for o. *)
Recognised(c, d, p, o) ==
  /\ d \in Context /\ d.allocs = c.allocs /\ d.bufs = c.bufs /\ Allocs(d) = Allocs(c)
  /\ d.objBy[p] = o /\ \A q \in Ptrs : q # p => d.objBy[q] = c.objBy[q]
  /\ d.ptrBy[o] = p /\ \A y \in Objs : y # o => d.ptrBy[y] = c.ptrBy[y]
  /\ \A y \in Objs : y # o => d.slot[y] = c.slot[y]

WithPtr(c, p, o, k) == [c EXCEPT !.objBy[p] = o, !.ptrBy[o] = p, !.slot[o] = k]

(* WithPtr is such an update.                                               *)
LEMMA WithPtrFacts ==
  ASSUME NEW c \in Context, NEW p \in Ptrs, NEW o \in Objs, NEW k \in Nat, NEW d, d = WithPtr(c, p, o, k)
  PROVE  Recognised(c, d, p, o)
<1>. DEFINE objBy == [c.objBy EXCEPT ![p] = o]
            ptrBy == [c.ptrBy EXCEPT ![o] = p]
            slot == [c.slot EXCEPT ![o] = k]
<1>1. d = [c EXCEPT !.objBy = objBy, !.ptrBy = ptrBy, !.slot = slot]
  BY DEF Context, WithPtr
<1>2. objBy \in [Ptrs -> ObjOrNull] /\ objBy[p] = o /\ \A q \in Ptrs : q # p => objBy[q] = c.objBy[q]
  BY ContextFields DEF ObjOrNull
<1>3. ptrBy \in [Objs -> PtrOrNull] /\ ptrBy[o] = p /\ \A y \in Objs : y # o => ptrBy[y] = c.ptrBy[y]
  BY ContextFields DEF PtrOrNull
<1>4. slot \in [Objs -> Nat] /\ \A y \in Objs : y # o => slot[y] = c.slot[y]
  BY ContextFields
<1>. HIDE DEF objBy, ptrBy, slot
<1>5. d \in Context /\ d.allocs = c.allocs /\ d.bufs = c.bufs /\ d.objBy = objBy /\ d.ptrBy = ptrBy /\ d.slot = slot
  BY <1>1, <1>2, <1>3, <1>4 DEF Context
<1>. QED  BY <1>2, <1>3, <1>4, <1>5 DEF Recognised, Allocs

(* The tables of the context still agree.                                   *)
LEMMA RecognisedShape ==
  ASSUME NEW x, NEW c \in Context, ShapeOK(x, c), NEW p \in Ptrs, NEW o \in Objs, c.objBy[p] = Null,
         c.ptrBy[o] = Null \/ x.twice, NEW d, Recognised(c, d, p, o)
  PROVE  ShapeOK(x, d)
<1>1. p # Null /\ o # Null
  BY CapiAssumption
<1>2. /\ d.allocs = c.allocs /\ d.bufs = c.bufs /\ Allocs(d) = Allocs(c)
      /\ d.objBy[p] = o /\ \A q \in Ptrs : q # p => d.objBy[q] = c.objBy[q]
      /\ d.ptrBy[o] = p /\ \A y \in Objs : y # o => d.ptrBy[y] = c.ptrBy[y]
  BY DEF Recognised
<1>3. /\ c.objBy \in [Ptrs -> ObjOrNull] /\ c.ptrBy \in [Objs -> PtrOrNull] /\ Allocs(c) \subseteq Ptrs
  BY ContextFields
<1>4. /\ \A q \in Ptrs : c.objBy[q] # Null => c.ptrBy[c.objBy[q]] # Null
      /\ \A y \in Objs : c.ptrBy[y] # Null => c.objBy[c.ptrBy[y]] = y
      /\ \A q \in Allocs(c) : c.objBy[q] # Null
  BY DEF ShapeOK
<1>5. \A q \in Ptrs : c.objBy[q] # Null => c.objBy[q] \in Objs
  BY <1>3 DEF ObjOrNull
<1>6. \A y \in Objs : c.ptrBy[y] # Null => c.ptrBy[y] \in Ptrs /\ c.ptrBy[y] # p
  <2>1. \A y \in Objs : y # Null
    BY CapiAssumption
  <2>. QED  BY <1>1, <1>3, <1>4, <2>1 DEF PtrOrNull
<1>7. \A q \in Ptrs : d.objBy[q] # Null => d.ptrBy[d.objBy[q]] # Null
  BY <1>1, <1>2, <1>4, <1>5
<1>8. \A y \in Objs : d.ptrBy[y] # Null => d.objBy[d.ptrBy[y]] = y
  BY <1>2, <1>4, <1>6
<1>9. \A y \in Objs : d.bufs[y] # Null => d.ptrBy[y] # Null
  BY <1>1, <1>2 DEF ShapeOK
<1>10. \A q \in Allocs(d) : q \in Ptrs /\ q # p /\ d.objBy[q] # Null /\ d.objBy[q] = c.objBy[q]
  BY <1>2, <1>3, <1>4
<1>11. ASSUME NEW q \in Allocs(d), NEW r \in Ptrs, d.ptrBy[d.objBy[q]] = q, d.objBy[r] = d.objBy[q]
       PROVE  r = q
  <2>1. d.objBy[q] # o /\ q \in Allocs(c)
    BY <1>2, <1>10, <1>11
  <2>2. r # p /\ c.ptrBy[c.objBy[q]] = q /\ c.objBy[r] = c.objBy[q]
    BY <1>2, <1>5, <1>10, <1>11, <2>1
  <2>. QED  BY <2>1, <2>2 DEF ShapeOK
<1>12. ASSUME ~x.twice, NEW q \in Ptrs, d.objBy[q] # Null PROVE d.ptrBy[d.objBy[q]] = q
  <2>1. CASE q = p
    BY <1>2, <2>1
  <2>2. CASE q # p
    <3>1. c.objBy[q] # Null /\ d.objBy[q] = c.objBy[q]
      BY <1>2, <1>12, <2>2
    <3>2. c.objBy[q] # o
      BY <1>4, <1>12, <3>1
    <3>. QED  BY <1>2, <1>5, <1>12, <3>1, <3>2 DEF ShapeOK
  <2>. QED  BY <2>1, <2>2
<1>13. /\ \A o1, o2 \in Objs : d.bufs[o1] = d.bufs[o2] /\ d.bufs[o1] # Null => o1 = o2
       /\ \A i, j \in DOMAIN d.allocs : d.allocs[i] = d.allocs[j] => i = j
  BY <1>2 DEF ShapeOK
<1>14. \A q \in Allocs(d) : d.objBy[q] # Null
  BY <1>10
<1>15. \A q \in Allocs(d), r \in Ptrs : d.ptrBy[d.objBy[q]] = q /\ d.objBy[r] = d.objBy[q] => r = q
  BY <1>11
<1>16. ~x.twice => \A q \in Ptrs : d.objBy[q] # Null => d.ptrBy[d.objBy[q]] = q
  BY <1>12
<1>. QED  BY <1>7, <1>8, <1>9, <1>13, <1>14, <1>15, <1>16 DEF ShapeOK

(* What it changes for the contexts under it, for the blocks of ours, for   *)
(* the buffers of bytearrays and for what native code holds.                *)
LEMMA RecognisedApart ==
  ASSUME NEW x, NEW b, NEW c, NEW p, NEW o, NEW d, Recognised(c, d, p, o), ApartOK(x, b, c),
         ~x.across => b.objBy[p] = Null
  PROVE  ApartOK(x, b, d)
<1>1. /\ \A q \in Allocs(d) : b.objBy[q] = Null
      /\ \A o1, o2 \in Objs : b.bufs[o1] = d.bufs[o2] => b.bufs[o1] = Null
  BY DEF Recognised, ApartOK
<1>2. ASSUME ~x.across, NEW q \in Ptrs PROVE b.objBy[q] = Null \/ d.objBy[q] = Null
  BY <1>2 DEF Recognised, ApartOK
<1>. QED  BY <1>1, <1>2 DEF ApartOK

(* The object's count is kept for the block it had.                         *)
LEMMA RecognisedCounts ==
  ASSUME NEW x, NEW m, NEW n, SameBlocks(m, n), HeadersKept(m, n), NEW c \in Context, ShapeOK(x, c),
         KnownOK(m, c), NEW p \in Ptrs, NEW o \in Objs, c.objBy[p] = Null, NEW d, Recognised(c, d, p, o),
         NEW w, Counts(m, c, w)
  PROVE  Counts(n, d, w)
<1>1. SUFFICES ASSUME NEW q \in Allocs(d)
               PROVE  /\ Pinned(n, q) \/ n.hdr[q] > w[q]
                      /\ d.ptrBy[d.objBy[q]] = q => d.slot[d.objBy[q]] > w[q]
  BY DEF Counts
<1>2. q \in Allocs(c) /\ q \in Ptrs
  BY ContextFields DEF Recognised
<1>3. c.objBy[q] # Null /\ c.objBy[q] \in Objs /\ q # p /\ d.objBy[q] = c.objBy[q]
  BY <1>2, ContextFields DEF ShapeOK, Recognised, ObjOrNull
<1>4. /\ Pinned(m, q) \/ m.hdr[q] > w[q]
      /\ c.ptrBy[c.objBy[q]] = q => c.slot[c.objBy[q]] > w[q]
  BY <1>2 DEF Counts
<1>5. n.hdr[q] = m.hdr[q] /\ (Pinned(m, q) => Pinned(n, q))
  BY <1>2, <1>3 DEF KnownOK, HeadersKept, SameBlocks
<1>6. CASE c.objBy[q] = o
  BY <1>3, <1>4, <1>5, <1>6 DEF Recognised
<1>7. CASE c.objBy[q] # o
  BY <1>3, <1>4, <1>5, <1>7 DEF Recognised
<1>. QED  BY <1>6, <1>7

(* The buffers are not concerned.                                           *)
LEMMA RecognisedBytes ==
  ASSUME NEW x, NEW m \in Memory, NEW n, SameBlocks(m, n), NEW cs \in Seq(Context), cs # <<>>,
         NEW c, c = Last(cs), ShapeOK(x, c), NEW p \in Ptrs, NEW o \in Objs, m.body[p].obj = o,
         c.ptrBy[o] = Null \/ x.twice, NEW d, Recognised(c, d, p, o), NEW t, TopIs(cs, t, d), BytesOK(x, m, cs)
  PROVE  BytesOK(x, n, t)
<1>1. \A q \in Ptrs : n.body[q] = m.body[q] /\ (IsByteArray(n, q) <=> IsByteArray(m, q))
  BY DEF SameBlocks, IsByteArray
<1>2. ASSUME NEW q \in Ptrs, IsByteArray(n, q) PROVE ByteOK(x, n, t, q)
  <2>1. ByteOK(x, m, cs, q) /\ n.body[q] = m.body[q]
    BY <1>1, <1>2 DEF BytesOK
  <2>2. PICK b, y : b = m.body[q].buf /\ y = m.body[q].obj
    OBVIOUS
  <2>3. b \in Ptrs /\ b # Null /\ y \in Objs /\ q # Null
    <3>1. m.body[q].buf \in PtrOrNull /\ m.body[q].obj \in ObjOrNull /\ m.body[q].obj # Null
      BY <1>1, <1>2, MemoryFields DEF Body, IsByteArray
    <3>2. b # Null
      BY SMTT(60), <2>1, <2>2 DEF ByteOK
    <3>. QED  BY <2>2, <3>1, <3>2, CapiAssumption DEF PtrOrNull, ObjOrNull
  <2>4. /\ ~x.across /\ ~x.twice /\ m.heap[b] = "ours" /\ m.body[b].obj = Null
        /\ \A i \in DOMAIN cs : \A z \in Objs : cs[i].bufs[z] = b => z = y /\ cs[i].ptrBy[y] = q
        /\ \A i \in DOMAIN cs : cs[i].ptrBy[y] = q => cs[i].bufs[y] \in {Null, b}
        /\ Pinned(m, b) \/ \E i \in DOMAIN cs : q \in Allocs(cs[i]) /\ cs[i].bufs[y] = b
    BY <2>1, <2>2 DEF ByteOK
  <2>5. n.heap[b] = "ours" /\ n.body[b].obj = Null /\ (Pinned(m, b) => Pinned(n, b))
    BY <2>3, <2>4 DEF SameBlocks
  <2>6. /\ Len(cs) \in DOMAIN cs /\ c = cs[Len(cs)] /\ DOMAIN t = DOMAIN cs /\ t[Len(cs)] = d
        /\ \A i \in DOMAIN cs : i # Len(cs) => t[i] = cs[i]
    BY TopFacts DEF TopIs
  <2>7. d.bufs = c.bufs /\ Allocs(d) = Allocs(c) /\ d.ptrBy[o] = p /\ (y # o => d.ptrBy[y] = c.ptrBy[y])
    BY <2>3 DEF Recognised
  <2>8. c.ptrBy[o] = Null /\ c.bufs[o] = Null
    BY <2>4 DEF ShapeOK
  <2>9. \A i \in DOMAIN t : t[i].bufs = cs[i].bufs /\ Allocs(t[i]) = Allocs(cs[i])
    BY <2>6, <2>7
  <2>10. ASSUME NEW i \in DOMAIN t
         PROVE  /\ \A z \in Objs : t[i].bufs[z] = b => z = y /\ t[i].ptrBy[y] = q
                /\ t[i].ptrBy[y] = q => t[i].bufs[y] \in {Null, b}
    <3>1. CASE i # Len(cs)
      BY <2>4, <2>6, <3>1
    <3>2. CASE i = Len(cs) /\ y # o
      BY <2>4, <2>6, <2>7, <3>2
    <3>3. CASE i = Len(cs) /\ y = o
      BY <2>3, <2>4, <2>6, <2>7, <2>8, <3>3
    <3>. QED  BY <3>1, <3>2, <3>3
  <2>11. Pinned(n, b) \/ \E i \in DOMAIN t : q \in Allocs(t[i]) /\ t[i].bufs[y] = b
    BY <2>4, <2>5, <2>6, <2>9
  <2>12. n.body[q].buf = b /\ n.body[q].obj = y
    BY <2>1, <2>2
  <2>. QED  BY <2>3, <2>4, <2>5, <2>10, <2>11, <2>12 DEF ByteOK
<1>. QED  BY <1>1, <1>2 DEF BytesOK

(* Rehydrate in terms of these.                                             *)
LEMMA RehydrateFacts ==
  ASSUME TypeInv, NEW p \in Ptrs, Rehydrate(p)
  PROVE  \E c \in Context, o \in Objs, d \in Context :
           /\ ctxs \in Seq(Context) /\ ctxs # <<>> /\ mem \in Memory /\ c = Top /\ c = Last(ctxs)
           /\ o = mem.valueOf[p] /\ Recognised(c, d, p, o) /\ TopIs(ctxs, ctxs', d)
           /\ mem' = Persist(mem, o, p)
<1>1. PICK c, o, k : c = Top /\ o = mem.valueOf[p] /\ k = c.slot[o] + 1
  OBVIOUS
<1>2. ctxs \in Seq(Context) /\ ctxs # <<>> /\ c \in Context /\ c = Last(ctxs) /\ mem \in Memory
  BY <1>1, ActiveFacts DEF Rehydrate
<1>3. o \in Objs /\ mem' = Persist(mem, o, p)
  BY <1>1 DEF Rehydrate
<1>4. k \in Nat
  BY <1>1, <1>2, <1>3, ContextFields
<1>5. PICK d : d = WithPtr(c, p, o, k)
  OBVIOUS
<1>6. ctxs' = Append(Front(ctxs), d)
  BY <1>1, <1>5 DEF Rehydrate, SetTop, WithPtr
<1>7. Recognised(c, d, p, o)
  BY <1>2, <1>3, <1>4, <1>5, WithPtrFacts
<1>8. TopIs(ctxs, ctxs', d)
  BY <1>2, <1>6, <1>7, ReplaceTop DEF Recognised
<1>9. d \in Context
  BY <1>7 DEF Recognised
<1>. QED  BY <1>1, <1>2, <1>3, <1>7, <1>8, <1>9

(* Its types.                                                               *)
LEMMA RehydrateType ==
  ASSUME TypeInv, NEW p \in Ptrs, Rehydrate(p)
  PROVE  TypeInv'
<1>1. PICK c \in Context, o \in Objs, d \in Context :
        /\ ctxs \in Seq(Context) /\ ctxs # <<>> /\ mem \in Memory /\ c = Top /\ c = Last(ctxs)
        /\ o = mem.valueOf[p] /\ Recognised(c, d, p, o) /\ TopIs(ctxs, ctxs', d)
        /\ mem' = Persist(mem, o, p)
  BY RehydrateFacts
<1>2. PICK n : n = mem'
  OBVIOUS
<1>3. o \in ObjOrNull
  BY DEF ObjOrNull
<1>4. n \in Memory /\ n.reg = mem.reg
  BY <1>1, <1>2, <1>3, PersistFacts
<1>5. Backs(mem, n)
  BY <1>4, SameEntriesBack
<1>6. ctxs' \in Seq(Context)
  BY <1>1 DEF TopIs
<1>. QED  BY <1>2, <1>4, <1>5, <1>6, TypeNext DEF Rehydrate, TypeInv

(* A block that the VM's tables name is the object's: the context may take  *)
(* it.                                                                      *)
LEMMA RehydrateLive ==
  ASSUME TypeInv, Live, NEW p \in Ptrs, Rehydrate(p)
  PROVE  Live'
<1>1. PICK c \in Context, o \in Objs, d \in Context :
        /\ ctxs \in Seq(Context) /\ ctxs # <<>> /\ mem \in Memory /\ c = Top /\ c = Last(ctxs)
        /\ o = mem.valueOf[p] /\ Recognised(c, d, p, o) /\ TopIs(ctxs, ctxs', d)
        /\ mem' = Persist(mem, o, p)
  BY RehydrateFacts
<1>2. PICK n, t : n = mem' /\ t = ctxs'
  OBVIOUS
<1>3. /\ handed \in SUBSET Ptrs
      /\ MemoryOK(mem) /\ ContextsOK(ext, mem, ctxs) /\ CoverOK(mem, ctxs) /\ BytesOK(ext, mem, ctxs)
      /\ OwnsOK(ext, mem, ctxs, owns) /\ HandedOK(mem, handed) /\ HeldOK(mem, held)
  BY DEF TypeInv, Live
<1>4. mem.heap[p] = "ours" /\ mem.body[p].obj = o
  <2>1. AddressOK(mem, p)
    BY <1>3 DEF MemoryOK
  <2>. QED  BY <1>1, <2>1 DEF AddressOK, Rehydrate, Usable
<1>5. c.objBy[p] = Null /\ (c.ptrBy[o] = Null \/ ext.twice)
  BY <1>1 DEF Rehydrate
<1>6. ~ext.across => \A i \in DOMAIN ctxs : ctxs[i].objBy[p] = Null
  BY <1>1, <1>5 DEF Rehydrate, Usable
<1>7. o \in ObjOrNull
  BY DEF ObjOrNull
<1>8. n.heap = mem.heap /\ n.hdr = mem.hdr /\ n.body = mem.body /\ n.reg = mem.reg
  BY <1>1, <1>2, <1>7, PersistFacts
<1>9. MemoryOK(n)
  BY <1>1, <1>2, <1>3, <1>4, PersistOK
<1>10. SameForeign(mem, n) /\ SameBlocks(mem, n) /\ HeadersKept(mem, n)
  <2>1. SameForeign(mem, n) /\ \A q \in Ptrs : Pinned(n, q) <=> Pinned(mem, q)
    BY <1>8, SameEntriesBack
  <2>. QED  BY <1>8, <2>1 DEF SameBlocks, HeadersKept
<1>11. ShapeOK(ext, c) /\ KnownOK(mem, c)
  BY <1>1, <1>3, TopFacts DEF ContextsOK
<1>12. ShapeOK(ext, d)
  BY <1>1, <1>5, <1>11, RecognisedShape
<1>13. KnownOK(n, d)
  BY <1>1, <1>4, <1>8, <1>11 DEF KnownOK, Recognised
<1>14. ASSUME NEW i \in DOMAIN ctxs, i # Len(ctxs)
       PROVE  KnownOK(n, ctxs[i]) /\ ApartOK(ext, ctxs[i], d)
  <2>1. KnownOK(mem, ctxs[i])
    BY <1>3 DEF ContextsOK
  <2>2. KnownOK(n, ctxs[i])
    BY <1>8, <2>1 DEF KnownOK
  <2>3. ApartOK(ext, ctxs[i], c)
    BY <1>1, <1>3, <1>14, TopFacts DEF ContextsOK
  <2>. QED  BY <1>1, <1>6, <2>2, <2>3, RecognisedApart
<1>15. ContextsOK(ext, n, t)
  BY <1>1, <1>2, <1>3, <1>12, <1>13, <1>14, ContextsReplaced
<1>16. CoverOK(n, t)
  <2>1. \A q \in Ptrs : q # Null
    BY CapiAssumption
  <2>2. \A q \in Ptrs : Pinned(mem, q) => Pinned(n, q)
    BY <1>10 DEF SameBlocks
  <2>3. Allocs(d) = Allocs(c) /\ d.bufs = c.bufs
    BY <1>1 DEF Recognised
  <2>4. StillOurs(mem, n, c, d)
    BY <1>8, <2>1, <2>2, <2>3 DEF StillOurs
  <2>. QED  BY <1>1, <1>2, <1>3, <2>4, CoverReplaced
<1>17. BytesOK(ext, n, t)
  BY <1>1, <1>2, <1>3, <1>4, <1>5, <1>10, <1>11, RecognisedBytes
<1>18. OwnsOK(ext, n, t, owns)
  <2>1. SUFFICES ASSUME ~ext.across, ~ext.inline PROVE OwnsOK(ext, n, t, owns)
    BY DEF OwnsOK
  <2>2. OwnsOK(ext, n, ctxs, owns)
    BY <1>1, <1>3, <1>10, OwnsKept
  <2>3. Counts(mem, c, owns)
    BY <1>1, <1>3, <2>1, TopFacts DEF OwnsOK
  <2>4. Counts(n, d, owns)
    BY <1>1, <1>5, <1>10, <1>11, <2>3, RecognisedCounts
  <2>. QED  BY <1>1, <1>2, <2>1, <2>2, <2>4 DEF OwnsOK, TopIs
<1>19. HandedOK(n, handed) /\ HeldOK(n, held)
  BY <1>1, <1>3, <1>10, HandedKept, HeldKept
<1>20. ext' = ext /\ owns' = owns /\ held' = held /\ handed' = handed
  BY DEF Rehydrate
<1>. QED  BY <1>2, <1>9, <1>15, <1>16, <1>17, <1>18, <1>19, <1>20 DEF Live

-----------------------------------------------------------------------------
(* A context ends: its allocations are the VM's or are gone                 *)

(* A context under the one that ends knows nothing that was freed.          *)
LEMMA LeftKnown ==
  ASSUME NEW x, NEW m \in Memory, NEW n, NEW b \in Context, NEW c \in Context, ContextLeft(m, n, c),
         ShapeOK(x, c), KnownOK(m, c), KnownOK(m, b), ApartOK(x, b, c)
  PROVE  KnownOK(n, b)
<1>1. /\ b.objBy \in [Ptrs -> ObjOrNull] /\ b.bufs \in [Objs -> PtrOrNull] /\ Allocs(c) \subseteq Ptrs
  BY ContextFields
<1>2. \A q \in Allocs(c) : m.body[q].obj # Null
  BY ContextFields DEF ShapeOK, KnownOK
<1>3. \A q \in BufferSet(c) : m.body[q].obj = Null
  BY DEF BufferSet, KnownOK
<1>4. ASSUME NEW q \in Ptrs, b.objBy[q] # Null PROVE n.body[q].obj = b.objBy[q]
  <2>1. m.body[q].obj = b.objBy[q] /\ q \notin Allocs(c) /\ q \notin BufferSet(c)
    BY <1>3, <1>4 DEF KnownOK, ApartOK
  <2>2. BlockLeft(m, n, c, q)
    BY DEF ContextLeft
  <2>. QED  BY <2>1, <2>2 DEF BlockLeft, SameBlock
<1>5. ASSUME NEW o \in Objs, b.bufs[o] # Null
      PROVE  n.heap[b.bufs[o]] = "ours" /\ n.body[b.bufs[o]].obj = Null
  <2>1. PICK q : q = b.bufs[o]
    OBVIOUS
  <2>2. q \in Ptrs /\ m.heap[q] = "ours" /\ m.body[q].obj = Null
    BY <1>1, <1>5, <2>1 DEF KnownOK, PtrOrNull
  <2>3. q \notin Allocs(c)
    BY <1>2, <2>2
  <2>4. q \notin BufferSet(c)
    BY <1>5, <2>1 DEF BufferSet, ApartOK
  <2>5. BlockLeft(m, n, c, q)
    BY <2>2 DEF ContextLeft
  <2>. QED  BY <2>1, <2>2, <2>3, <2>4, <2>5 DEF BlockLeft, SameBlock
<1>. QED  BY <1>4, <1>5 DEF KnownOK

(* What is left of ours is pinned or belongs to a context under it.         *)
LEMMA LeftCovered ==
  ASSUME NEW m \in Memory, NEW n, NEW cs \in Seq(Context), cs # <<>>, NEW c, c = Last(cs),
         ContextLeft(m, n, c), CoverOK(m, cs)
  PROVE  CoverOK(n, Front(cs))
<1>1. SUFFICES ASSUME NEW q \in Ptrs, n.heap[q] = "ours" PROVE Covered(n, Front(cs), q)
  BY DEF CoverOK
<1>2. BlockLeft(m, n, c, q)
  BY DEF ContextLeft
<1>3. /\ SameBlock(m, n, q) /\ (Pinned(m, q) => Pinned(n, q))
      /\ q \in Allocs(c) \cup BufferSet(c) => Pinned(n, q)
  BY <1>1, <1>2 DEF BlockLeft
<1>4. Covered(m, cs, q)
  BY <1>1, <1>3 DEF CoverOK, SameBlock
<1>5. CASE Pinned(m, q)
  BY <1>3, <1>5 DEF Covered
<1>6. ASSUME NEW i \in DOMAIN cs, q \in Allocs(cs[i]) \/ \E o \in Objs : cs[i].bufs[o] = q
      PROVE  Covered(n, Front(cs), q)
  <2>1. CASE i = Len(cs)
    <3>1. c = cs[i]
      BY <2>1, TopFacts
    <3>2. q # Null
      BY CapiAssumption
    <3>3. q \in Allocs(c) \cup BufferSet(c)
      BY <1>6, <3>1, <3>2 DEF BufferSet
    <3>. QED  BY <1>3, <3>3 DEF Covered
  <2>2. CASE i # Len(cs)
    <3>1. i \in DOMAIN Front(cs) /\ Front(cs)[i] = cs[i]
      BY <2>2, TopFacts
    <3>. QED  BY <1>6, <3>1 DEF Covered
  <2>. QED  BY <2>1, <2>2
<1>. QED  BY <1>4, <1>5, <1>6 DEF Covered

(* The buffer of a bytearray that is left is left too.                      *)
LEMMA LeftBuffer ==
  ASSUME NEW x, NEW m \in Memory, NEW n \in Memory, NEW cs \in Seq(Context), cs # <<>>, NEW c, c = Last(cs),
         ContextsOK(x, m, cs), ContextLeft(m, n, c), NEW q \in Ptrs, IsByteArray(m, q), ByteOK(x, m, cs, q),
         n.heap[q] = "ours", NEW b \in Ptrs, b = m.body[q].buf
  PROVE  SameBlock(m, n, b)
<1>1. SUFFICES ASSUME ~SameBlock(m, n, b) PROVE FALSE
  OBVIOUS
<1>2. PICK o : o = m.body[q].obj
  OBVIOUS
<1>3. o \in Objs /\ o # Null /\ q # Null /\ b # Null
  <2>1. m.body[q].obj \in ObjOrNull
    BY MemoryFields DEF Body
  <2>. QED  BY <1>2, <2>1, CapiAssumption DEF IsByteArray, ObjOrNull
<1>4. BlockLeft(m, n, c, b)
  BY DEF ContextLeft
<1>5. b \in Allocs(c) \cup BufferSet(c) /\ n.heap[b] = "free" /\ ~Pinned(m, b)
  BY <1>1, <1>4 DEF BlockLeft
<1>6. /\ ~x.across /\ m.heap[b] = "ours" /\ m.body[b].obj = Null
      /\ \A i \in DOMAIN cs : \A y \in Objs : cs[i].bufs[y] = b => y = o /\ cs[i].ptrBy[o] = q
      /\ \E i \in DOMAIN cs : q \in Allocs(cs[i]) /\ cs[i].bufs[o] = b
  BY <1>2, <1>5 DEF ByteOK
<1>7. c \in Context /\ ShapeOK(x, c) /\ KnownOK(m, c) /\ Len(cs) \in DOMAIN cs /\ c = cs[Len(cs)]
  BY TopFacts DEF ContextsOK
<1>8. \A p \in Allocs(c) : m.body[p].obj # Null
  BY <1>7, ContextFields DEF ShapeOK, KnownOK
<1>9. b \in BufferSet(c)
  BY <1>5, <1>6, <1>8
<1>10. c.objBy[q] = o
  <2>1. PICK y \in Objs : c.bufs[y] = b
    BY <1>9 DEF BufferSet
  <2>2. c.ptrBy[o] = q
    BY <1>6, <1>7, <2>1
  <2>. QED  BY <1>3, <1>7, <2>2 DEF ShapeOK
<1>11. PICK i \in DOMAIN cs : q \in Allocs(cs[i])
  BY <1>6
<1>12. i = Len(cs)
  <2>1. SUFFICES ASSUME i # Len(cs) PROVE FALSE
    OBVIOUS
  <2>2. cs[i] \in Context /\ i < Len(cs) /\ ShapeOK(x, cs[i])
    BY <2>1, TopFacts DEF ContextsOK
  <2>3. ApartOK(x, cs[i], c)
    BY <1>7, <2>2 DEF ContextsOK
  <2>4. cs[i].objBy[q] # Null
    BY <1>11, <2>2 DEF ShapeOK
  <2>. QED  BY <1>3, <1>6, <1>10, <2>3, <2>4 DEF ApartOK
<1>13. BufferPinned(m, n, q)
  <2>1. q \in Allocs(c)
    BY <1>7, <1>11, <1>12
  <2>2. \A p \in Allocs(c) : n.heap[p] = "ours" /\ m.body[p].buf \in BufferSet(c) => BufferPinned(m, n, p)
    BY DEF ContextLeft
  <2>. QED  BY <1>9, <2>1, <2>2
<1>14. Pinned(n, b)
  BY <1>3, <1>6, <1>13 DEF BufferPinned
<1>15. MemoryOK(n)
  BY DEF ContextLeft
<1>16. n.heap[b] = "ours"
  BY <1>14, <1>15, OwnedFacts
<1>. QED  BY <1>5, <1>16

(* The buffers of bytearrays.                                               *)
LEMMA LeftBytes ==
  ASSUME NEW x, NEW m \in Memory, NEW n \in Memory, NEW cs \in Seq(Context), cs # <<>>, NEW c, c = Last(cs),
         ContextsOK(x, m, cs), ContextLeft(m, n, c), BytesOK(x, m, cs)
  PROVE  BytesOK(x, n, Front(cs))
<1>1. PICK t : t = Front(cs)
  OBVIOUS
<1>2. /\ \A i \in DOMAIN t : i \in DOMAIN cs /\ t[i] = cs[i]
      /\ \A i \in DOMAIN cs : i # Len(cs) => i \in DOMAIN t
      /\ c = cs[Len(cs)]
  BY <1>1, TopFacts
<1>3. MemoryOK(n)
  BY DEF ContextLeft
<1>4. ASSUME NEW q \in Ptrs, IsByteArray(n, q)
      PROVE  IsByteArray(m, q) /\ n.body[q] = m.body[q] /\ n.heap[q] = "ours"
  <2>1. n.heap[q] = "ours" /\ n.body[q].obj # Null
    BY <1>3, <1>4, OwnedFacts DEF IsByteArray
  <2>2. BlockLeft(m, n, c, q)
    BY DEF ContextLeft
  <2>3. n.body[q] = m.body[q]
    BY <2>1, <2>2 DEF BlockLeft, SameBlock
  <2>. QED  BY <1>4, <2>1, <2>3 DEF IsByteArray
<1>5. ASSUME NEW q \in Ptrs, IsByteArray(n, q) PROVE ByteOK(x, n, t, q)
  <2>1. IsByteArray(m, q) /\ n.body[q] = m.body[q] /\ n.heap[q] = "ours" /\ ByteOK(x, m, cs, q)
    BY <1>4, <1>5 DEF BytesOK
  <2>2. PICK b, o : b = m.body[q].buf /\ o = m.body[q].obj
    OBVIOUS
  <2>3. b \in Ptrs /\ b # Null
    <3>1. m.body[q].buf \in PtrOrNull
      BY SMTT(60), MemoryFields DEF Body
    <3>. QED  BY <2>1, <2>2, <3>1 DEF ByteOK, PtrOrNull
  <2>4. /\ ~x.across /\ ~x.twice /\ m.heap[b] = "ours" /\ m.body[b].obj = Null
        /\ \A i \in DOMAIN cs : \A y \in Objs : cs[i].bufs[y] = b => y = o /\ cs[i].ptrBy[o] = q
        /\ \A i \in DOMAIN cs : cs[i].ptrBy[o] = q => cs[i].bufs[o] \in {Null, b}
        /\ Pinned(m, b) \/ \E i \in DOMAIN cs : q \in Allocs(cs[i]) /\ cs[i].bufs[o] = b
    BY <2>1, <2>2 DEF ByteOK
  <2>5. SameBlock(m, n, b)
    BY <2>1, <2>2, <2>3, LeftBuffer
  <2>6. n.heap[b] = "ours" /\ n.body[b].obj = Null
    BY <2>4, <2>5 DEF SameBlock
  <2>7. (Pinned(m, b) => Pinned(n, b)) /\ (b \in BufferSet(c) => Pinned(n, b))
    <3>1. BlockLeft(m, n, c, b)
      BY <2>3 DEF ContextLeft
    <3>. QED  BY <2>6, <3>1 DEF BlockLeft
  <2>8. Pinned(n, b) \/ \E i \in DOMAIN t : q \in Allocs(t[i]) /\ t[i].bufs[o] = b
    <3>1. SUFFICES ASSUME NEW i \in DOMAIN cs, q \in Allocs(cs[i]) /\ cs[i].bufs[o] = b
                   PROVE  Pinned(n, b) \/ \E j \in DOMAIN t : q \in Allocs(t[j]) /\ t[j].bufs[o] = b
      BY <2>4, <2>7
    <3>2. CASE i # Len(cs)
      BY <1>2, <3>1, <3>2
    <3>3. CASE i = Len(cs)
      <4>1. m.body[q].obj \in ObjOrNull /\ m.body[q].obj # Null
        BY <2>1, MemoryFields DEF Body, IsByteArray
      <4>2. o \in Objs /\ c.bufs[o] = b
        BY <1>2, <2>2, <3>1, <3>3, <4>1 DEF ObjOrNull
      <4>. QED  BY <2>3, <2>7, <4>2 DEF BufferSet
    <3>. QED  BY <3>2, <3>3
  <2>9. n.body[q].buf = b /\ n.body[q].obj = o
    BY <2>1, <2>2
  <2>. QED  BY <1>2, <2>3, <2>4, <2>6, <2>8, <2>9 DEF ByteOK
<1>6. \A p, q \in Ptrs : IsByteArray(n, p) /\ IsByteArray(n, q) /\ n.body[p].buf = n.body[q].buf => p = q
  BY <1>4 DEF BytesOK
<1>. QED  BY <1>1, <1>5, <1>6 DEF BytesOK

(* A block that native code has a reference to is left, and what counts     *)
(* references in the contexts under it does not change.                     *)
LEMMA LeftOwns ==
  ASSUME NEW x, NEW m \in Memory, NEW n \in Memory, NEW cs \in Seq(Context), cs # <<>>, NEW c, c = Last(cs),
         ContextsOK(x, m, cs), ContextLeft(m, n, c), NEW w \in [Ptrs -> Nat], OwnsOK(x, m, cs, w)
  PROVE  OwnsOK(x, n, Front(cs), w)
<1>1. SUFFICES ASSUME ~x.across, ~x.inline
               PROVE  /\ \A p \in Ptrs : w[p] > 0 => n.body[p].obj # Null
                      /\ \A i \in DOMAIN Front(cs) : Counts(n, Front(cs)[i], w)
  BY DEF OwnsOK
<1>2. c \in Context /\ ShapeOK(x, c) /\ KnownOK(m, c) /\ Len(cs) \in DOMAIN cs /\ c = cs[Len(cs)]
  BY TopFacts DEF ContextsOK
<1>3. Allocs(c) \subseteq Ptrs /\ \A q \in BufferSet(c) : m.body[q].obj = Null
  BY <1>2, ContextFields DEF BufferSet, KnownOK
<1>4. ASSUME NEW p \in Ptrs, w[p] > 0 PROVE n.body[p].obj # Null
  <2>1. m.body[p].obj # Null
    BY <1>1, <1>4 DEF OwnsOK
  <2>2. p \in Allocs(c) => Pinned(m, p) \/ m.hdr[p] > 1
    <3>1. Counts(m, c, w)
      BY <1>1, <1>2 DEF OwnsOK
    <3>2. p \in Allocs(c) => Pinned(m, p) \/ m.hdr[p] > w[p]
      BY <3>1 DEF Counts
    <3>3. m.hdr[p] \in Nat /\ w[p] \in Nat
      BY MemoryFields
    <3>. QED  BY <1>4, <3>2, <3>3
  <2>3. BlockLeft(m, n, c, p)
    BY DEF ContextLeft
  <2>. QED  BY <1>3, <2>1, <2>2, <2>3 DEF BlockLeft, SameBlock
<1>5. ASSUME NEW i \in DOMAIN Front(cs) PROVE Counts(n, Front(cs)[i], w)
  <2>1. PICK d : d = cs[i]
    OBVIOUS
  <2>2. /\ i \in DOMAIN cs /\ i < Len(cs) /\ d \in Context /\ Front(cs)[i] = d
        /\ ShapeOK(x, d) /\ KnownOK(m, d)
    BY <2>1, TopFacts DEF ContextsOK
  <2>3. ApartOK(x, d, c)
    BY <1>2, <2>1, <2>2 DEF ContextsOK
  <2>4. Counts(m, d, w)
    BY <1>1, <2>1, <2>2 DEF OwnsOK
  <2>5. ASSUME NEW p \in Allocs(d) PROVE n.hdr[p] = m.hdr[p] /\ (Pinned(m, p) => Pinned(n, p))
    <3>1. p \in Ptrs /\ d.objBy[p] # Null
      BY <2>2, ContextFields DEF ShapeOK
    <3>2. p \notin Allocs(c) /\ p \notin BufferSet(c)
      BY <1>3, <2>2, <2>3, <3>1 DEF ApartOK, KnownOK
    <3>3. BlockLeft(m, n, c, p)
      BY <3>1 DEF ContextLeft
    <3>. QED  BY <3>2, <3>3 DEF BlockLeft
  <2>. QED  BY <2>2, <2>4, <2>5 DEF Counts
<1>. QED  BY <1>4, <1>5

(* The end of a context keeps the types,                                    *)
LEMMA LeaveType ==
  ASSUME TypeInv, Leave
  PROVE  TypeInv'
<1>1. ctxs \in Seq(Context) /\ ctxs # <<>> /\ Top \in Context /\ mem \in Memory
  BY ActiveFacts DEF Leave
<1>2. PICK c, a, n : c = Top /\ a = DropBlocks(c) /\ n = DropBuffers(a, c)
  OBVIOUS
<1>3. a \in LoopState /\ Backs(mem, a.m)
  BY <1>1, <1>2, DropBlocksTyped
<1>4. n \in Memory /\ Backs(a.m, n)
  BY <1>1, <1>2, <1>3, DropBuffersTyped
<1>5. Backs(mem, n)
  BY <1>3, <1>4, BacksTransitive
<1>6. mem' = n
  BY <1>2 DEF Leave
<1>7. ctxs' \in Seq(Context)
  BY <1>1, TopFacts DEF Leave
<1>. QED  BY <1>4, <1>5, <1>6, <1>7, TypeNext DEF Leave, TypeInv

(* and hands what it keeps to the VM.                                       *)
LEMMA LeaveLive ==
  ASSUME TypeInv, Live, Leave
  PROVE  Live'
<1>1. PICK c, n, t : c = Top /\ n = DropBuffers(DropBlocks(c), c) /\ t = Front(ctxs)
  OBVIOUS
<1>2. ctxs \in Seq(Context) /\ ctxs # <<>> /\ c \in Context /\ c = Last(ctxs) /\ mem \in Memory
  BY <1>1, ActiveFacts DEF Leave
<1>3. mem' = n /\ ctxs' = t
  BY <1>1 DEF Leave
<1>4. /\ handed \in SUBSET Ptrs /\ owns \in [Ptrs -> Nat]
      /\ MemoryOK(mem) /\ ContextsOK(ext, mem, ctxs) /\ CoverOK(mem, ctxs) /\ BytesOK(ext, mem, ctxs)
      /\ OwnsOK(ext, mem, ctxs, owns) /\ HandedOK(mem, handed) /\ HeldOK(mem, held)
  BY DEF TypeInv, Live
<1>5. Len(ctxs) \in DOMAIN ctxs /\ c = ctxs[Len(ctxs)] /\ ShapeOK(ext, c) /\ KnownOK(mem, c)
  BY <1>2, <1>4, TopFacts DEF ContextsOK
<1>6. ContextLeft(mem, n, c)
  BY <1>1, <1>2, <1>4, <1>5, DropContextOK
<1>7. MemoryOK(n) /\ SameForeign(mem, n)
  BY <1>6 DEF ContextLeft
<1>8. n \in Memory
  <2>1. DropBlocks(c) \in LoopState
    BY <1>2, DropBlocksTyped
  <2>. QED  BY <1>1, <1>2, <2>1, DropBuffersTyped
<1>9. ContextsOK(ext, n, t)
  <2>1. ASSUME NEW i \in DOMAIN t PROVE ShapeOK(ext, t[i]) /\ KnownOK(n, t[i])
    <3>1. i \in DOMAIN ctxs /\ t[i] = ctxs[i] /\ i < Len(ctxs) /\ ctxs[i] \in Context
      BY <1>1, <1>2, TopFacts
    <3>2. ShapeOK(ext, ctxs[i]) /\ KnownOK(mem, ctxs[i]) /\ ApartOK(ext, ctxs[i], c)
      BY <1>4, <1>5, <3>1 DEF ContextsOK
    <3>3. KnownOK(n, ctxs[i])
      BY <1>2, <1>5, <1>6, <3>1, <3>2, LeftKnown
    <3>. QED  BY <3>1, <3>2, <3>3
  <2>2. ASSUME NEW i \in DOMAIN t, NEW j \in DOMAIN t, i < j PROVE ApartOK(ext, t[i], t[j])
    <3>1. i \in DOMAIN ctxs /\ t[i] = ctxs[i] /\ j \in DOMAIN ctxs /\ t[j] = ctxs[j]
      BY <1>1, <1>2, TopFacts
    <3>. QED  BY <1>4, <2>2, <3>1 DEF ContextsOK
  <2>. QED  BY <2>1, <2>2 DEF ContextsOK
<1>10. CoverOK(n, t)
  BY <1>1, <1>2, <1>4, <1>6, LeftCovered
<1>11. BytesOK(ext, n, t)
  BY <1>1, <1>2, <1>4, <1>6, <1>8, LeftBytes
<1>12. OwnsOK(ext, n, t, owns)
  BY <1>1, <1>2, <1>4, <1>6, <1>8, LeftOwns
<1>13. HandedOK(n, handed)
  <2>1. ASSUME NEW p \in handed PROVE Pinned(n, p) /\ n.body[p].obj # Null
    <3>1. Pinned(mem, p) /\ mem.body[p].obj # Null /\ p \in Ptrs
      BY <1>4 DEF HandedOK
    <3>2. BlockLeft(mem, n, c, p)
      BY <1>6, <3>1 DEF ContextLeft
    <3>. QED  BY <3>1, <3>2 DEF BlockLeft, SameBlock
  <2>. QED  BY <2>1 DEF HandedOK
<1>14. HeldOK(n, held)
  BY <1>2, <1>4, <1>7, HeldKept
<1>15. ext' = ext /\ owns' = owns /\ held' = held /\ handed' = handed
  BY DEF Leave
<1>. QED  BY <1>3, <1>7, <1>9, <1>10, <1>11, <1>12, <1>13, <1>14, <1>15 DEF Live

-----------------------------------------------------------------------------
(* The VM goes                                                              *)

(* The entries of native objects that the VM gives back.                    *)
GivesBack(m) == {p \in Ptrs : m.reg[p].prov = "external" /\ m.reg[p].pins > 0}

GivenBack(m) == [m EXCEPT !.reg = [p \in Ptrs |-> IF p \in GivesBack(m) THEN FreedEntry(@[p]) ELSE @[p]]]

(* The VM's tables are cleared.                                             *)
Cleared(m) ==
  [m EXCEPT !.pinSet = {}, !.pinVec = [p \in Ptrs |-> 0],
            !.valueOf = [p \in Ptrs |-> Null], !.ptrOf = [o \in Objs |-> Null]]

(* The VM gives the references back.                                        *)
LEMMA GivenBackFacts ==
  ASSUME NEW m \in Memory, NEW n, n = GivenBack(m)
  PROVE  /\ n \in Memory /\ n.heap = m.heap /\ n.hdr = m.hdr /\ n.body = m.body
         /\ n.pinSet = m.pinSet /\ n.pinVec = m.pinVec /\ n.bad = m.bad
         /\ \A p \in Ptrs : n.reg[p] = IF p \in GivesBack(m) THEN FreedEntry(m.reg[p]) ELSE m.reg[p]
<1>. DEFINE reg == [p \in Ptrs |-> IF p \in GivesBack(m) THEN FreedEntry(m.reg[p]) ELSE m.reg[p]]
<1>1. n = [m EXCEPT !.reg = reg]
  BY DEF GivenBack, Memory
<1>2. reg \in [Ptrs -> Entry]
  <2>1. \A e \in Entry : FreedEntry(e) \in Entry
    BY DEF FreedEntry, Entry
  <2>. QED  BY <2>1, MemoryFields
<1>3. /\ n \in Memory /\ n.heap = m.heap /\ n.hdr = m.hdr /\ n.body = m.body
      /\ n.pinSet = m.pinSet /\ n.pinVec = m.pinVec /\ n.bad = m.bad /\ n.reg = reg
  <2>. HIDE DEF reg
  <2>. QED  BY <1>1, <1>2 DEF Memory
<1>. QED  BY <1>3

(* It touches no block.                                                     *)
LEMMA ClearedFacts ==
  ASSUME NEW m \in Memory, NEW n, n = Cleared(m)
  PROVE  /\ n \in Memory /\ n.heap = m.heap /\ n.hdr = m.hdr /\ n.body = m.body /\ n.bad = m.bad /\ n.reg = m.reg
         /\ n.pinSet = {} /\ \A p \in Ptrs : n.valueOf[p] = Null
         /\ \A o \in Objs : n.ptrOf[o] = Null
<1>. DEFINE vec == [p \in Ptrs |-> 0]
            vals == [p \in Ptrs |-> Null]
            ptrs == [o \in Objs |-> Null]
<1>1. n = [m EXCEPT !.pinSet = {}, !.pinVec = vec, !.valueOf = vals, !.ptrOf = ptrs]
  BY DEF Cleared
<1>2. vec \in [Ptrs -> Nat] /\ vals \in [Ptrs -> ObjOrNull \cup {Proxied}] /\ ptrs \in [Objs -> PtrOrNull]
  BY DEF ObjOrNull, PtrOrNull
<1>3. /\ n \in Memory /\ n.heap = m.heap /\ n.hdr = m.hdr /\ n.body = m.body /\ n.bad = m.bad /\ n.reg = m.reg
      /\ n.pinSet = {} /\ n.valueOf = vals /\ n.ptrOf = ptrs
  <2>. HIDE DEF vec, vals, ptrs
  <2>. QED  BY ZenonT(40), <1>1, <1>2 DEF Memory
<1>. QED  BY <1>3

(* The end of the VM in three parts.                                        *)
LEMMA VmDropFacts ==
  ASSUME TypeInv, VmDrop
  PROVE  \E g, r \in Memory :
           /\ g = GivenBack(mem) /\ r = Release(g, VmFrees(g)) /\ mem' = Cleared(r)
           /\ held' = [p \in Ptrs |-> IF p \in GivesBack(mem) THEN held[p] - mem.reg[p].pins ELSE held[p]]
           /\ ctxs = <<>> /\ ctxs' = ctxs /\ gone' = TRUE /\ UNCHANGED <<ext, handed, owns>> /\ gone = FALSE
<1>1. mem \in Memory /\ gone \in BOOLEAN
  BY DEF TypeInv
<1>2. PICK g, r : g = GivenBack(mem) /\ r = Release(g, VmFrees(g))
  OBVIOUS
<1>3. g \in Memory
  BY <1>1, <1>2, GivenBackFacts
<1>4. r \in Memory
  BY <1>2, <1>3, ReleaseFacts
<1>5. /\ mem' = Cleared(r)
      /\ held' = [p \in Ptrs |-> IF p \in GivesBack(mem) THEN held[p] - mem.reg[p].pins ELSE held[p]]
  BY <1>2, Zenon DEF VmDrop, GivenBack, GivesBack, Cleared
<1>. QED  BY ZenonT(40), <1>1, <1>2, <1>3, <1>4, <1>5 DEF VmDrop

(* What the registry and the memory are when the VM is gone.                *)
LEMMA VmDropEntry ==
  ASSUME TypeInv, VmDrop, NEW p \in Ptrs
  PROVE  /\ mem'.reg[p] = FreedEntry(mem.reg[p]) \/ (mem'.reg[p] = mem.reg[p] /\ p \notin GivesBack(mem))
         /\ held'[p] = IF p \in GivesBack(mem) THEN held[p] - mem.reg[p].pins ELSE held[p]
<1>1. PICK g \in Memory, r \in Memory :
           /\ g = GivenBack(mem) /\ r = Release(g, VmFrees(g)) /\ mem' = Cleared(r)
           /\ held' = [q \in Ptrs |-> IF q \in GivesBack(mem) THEN held[q] - mem.reg[q].pins ELSE held[q]]
           /\ ctxs = <<>> /\ ctxs' = ctxs /\ gone' = TRUE /\ UNCHANGED <<ext, handed, owns>> /\ gone = FALSE
  BY VmDropFacts
<1>2. PICK n : n = mem'
  OBVIOUS
<1>3. mem \in Memory
  BY DEF TypeInv
<1>4. n.reg = r.reg
  BY <1>1, <1>2, ClearedFacts
<1>5. g.reg[p] = IF p \in GivesBack(mem) THEN FreedEntry(mem.reg[p]) ELSE mem.reg[p]
  BY <1>1, <1>3, GivenBackFacts
<1>6. r.reg[p] = IF p \in VmFrees(g) THEN FreedEntry(g.reg[p]) ELSE g.reg[p]
  BY <1>1, ReleaseFacts
<1>7. \A e \in Entry : FreedEntry(FreedEntry(e)) = FreedEntry(e)
  BY DEF FreedEntry, Entry
<1>8. mem.reg[p] \in Entry
  BY <1>3, MemoryFields
<1>. QED  BY <1>1, <1>2, <1>4, <1>5, <1>6, <1>7, <1>8

(* Its types.                                                               *)
LEMMA VmDropType ==
  ASSUME TypeInv, VmDrop
  PROVE  TypeInv'
<1>1. PICK g \in Memory, r \in Memory :
           /\ g = GivenBack(mem) /\ r = Release(g, VmFrees(g)) /\ mem' = Cleared(r)
           /\ held' = [q \in Ptrs |-> IF q \in GivesBack(mem) THEN held[q] - mem.reg[q].pins ELSE held[q]]
           /\ ctxs = <<>> /\ ctxs' = ctxs /\ gone' = TRUE /\ UNCHANGED <<ext, handed, owns>> /\ gone = FALSE
  BY VmDropFacts
<1>2. PICK n : n = mem'
  OBVIOUS
<1>3. n \in Memory
  BY <1>1, <1>2, ClearedFacts
<1>4. /\ mem \in Memory /\ held \in [Ptrs -> Nat]
      /\ \A p \in Ptrs : Backed(mem.reg[p], held[p])
  BY DEF TypeInv
<1>5. ASSUME NEW p \in Ptrs PROVE held'[p] \in Nat /\ Backed(mem'.reg[p], held'[p])
  <2>1. PICK e, f, h, k : e = mem.reg[p] /\ f = mem'.reg[p] /\ h = held[p] /\ k = held'[p]
    OBVIOUS
  <2>2. e \in Entry /\ Backed(e, h) /\ h \in Nat
    BY <1>4, <2>1, MemoryFields
  <2>3. /\ f = FreedEntry(e) \/ (f = e /\ p \notin GivesBack(mem))
        /\ k = IF p \in GivesBack(mem) THEN h - e.pins ELSE h
    BY <2>1, VmDropEntry
  <2>4. p \in GivesBack(mem) <=> e.prov = "external" /\ e.pins > 0
    BY <2>1 DEF GivesBack
  <2>5. FreedEntry(e).prov = e.prov /\ FreedEntry(e).pins = 0 /\ e.pins \in {0, 1}
    BY <2>2 DEF FreedEntry, Entry
  <2>6. k \in Nat
    BY <2>2, <2>3, <2>4, <2>5 DEF Backed
  <2>7. Backed(f, k)
    BY <2>2, <2>3, <2>4, <2>5, <2>6 DEF Backed
  <2>. QED  BY <2>1, <2>6, <2>7
<1>6. held' \in [Ptrs -> Nat]
  BY <1>1, <1>5
<1>. QED  BY <1>1, <1>2, <1>3, <1>5, <1>6 DEF TypeInv

(* Every block was covered by the VM, for no context is left; so all are    *)
(* gone.                                                                    *)
LEMMA VmDropOver ==
  ASSUME TypeInv, Live, VmDrop
  PROVE  Over'
<1>1. PICK g \in Memory, r \in Memory :
           /\ g = GivenBack(mem) /\ r = Release(g, VmFrees(g)) /\ mem' = Cleared(r)
           /\ held' = [q \in Ptrs |-> IF q \in GivesBack(mem) THEN held[q] - mem.reg[q].pins ELSE held[q]]
           /\ ctxs = <<>> /\ ctxs' = ctxs /\ gone' = TRUE /\ UNCHANGED <<ext, handed, owns>> /\ gone = FALSE
  BY VmDropFacts
<1>2. PICK n : n = mem'
  OBVIOUS
<1>3. mem \in Memory /\ MemoryOK(mem) /\ CoverOK(mem, ctxs) /\ HeldOK(mem, held) /\ held \in [Ptrs -> Nat]
  BY DEF TypeInv, Live
<1>4. /\ g.heap = mem.heap /\ g.body = mem.body /\ g.pinSet = mem.pinSet /\ g.pinVec = mem.pinVec /\ g.bad = mem.bad
      /\ \A p \in Ptrs : g.reg[p] = IF p \in GivesBack(mem) THEN FreedEntry(mem.reg[p]) ELSE mem.reg[p]
  BY <1>1, <1>3, GivenBackFacts
<1>5. ASSUME NEW p \in Ptrs PROVE p \in VmFrees(g) <=> mem.heap[p] = "ours"
  <2>1. PICK e, f : e = mem.reg[p] /\ f = g.reg[p]
    OBVIOUS
  <2>2. e \in Entry /\ (f = IF p \in GivesBack(mem) THEN FreedEntry(e) ELSE e)
    BY <1>3, <1>4, <2>1, MemoryFields
  <2>3. mem.heap[p] = "ours" => Pinned(mem, p)
    BY <1>1, <1>3 DEF CoverOK, Covered
  <2>4. /\ p \in mem.pinSet <=> Pinned(mem, p)
        /\ Pinned(mem, p) => mem.heap[p] = "ours"
    BY <1>3, OwnedFacts
  <2>5. Pinned(mem, p) => mem.pinVec[p] > 0 /\ f = e /\ e.life # "freed"
    <3>1. AddressOK(mem, p)
      BY <1>3 DEF MemoryOK
    <3>. QED  BY <2>1, <2>2, <3>1 DEF AddressOK, Pinned, IsOwnedPinned, GivesBack
  <2>6. IsOwnedPinned(f) <=> Pinned(mem, p)
    <3>1. ~IsOwnedPinned(FreedEntry(e))
      BY <2>2, Emptied
    <3>2. p \in GivesBack(mem) => ~IsOwnedPinned(e)
      BY <2>1 DEF GivesBack, IsOwnedPinned
    <3>. QED  BY <2>1, <2>2, <3>1, <3>2 DEF Pinned
  <2>7. p \in VmFrees(g) <=> mem.pinVec[p] > 0 /\ (p \in mem.pinSet \/ IsOwnedPinned(f)) /\ f.life # "freed"
    BY <1>4, <2>1 DEF VmFrees, IsPinned
  <2>. QED  BY <2>3, <2>4, <2>5, <2>6, <2>7
<1>6. /\ n.heap = r.heap /\ n.body = r.body /\ n.bad = r.bad /\ n.reg = r.reg /\ n.pinSet = {}
      /\ \A p \in Ptrs : n.valueOf[p] = Null
      /\ \A o \in Objs : n.ptrOf[o] = Null
  BY <1>1, <1>2, ClearedFacts
<1>7. /\ r.bad <=> (g.bad \/ \E p \in VmFrees(g) : g.heap[p] # "ours")
      /\ \A p \in Ptrs :
           /\ r.heap[p] = IF p \in VmFrees(g) THEN "free" ELSE g.heap[p]
           /\ r.body[p] = IF p \in VmFrees(g) THEN NoBody ELSE g.body[p]
           /\ r.reg[p] = IF p \in VmFrees(g) THEN FreedEntry(g.reg[p]) ELSE g.reg[p]
  BY <1>1, ReleaseFacts
<1>8. ~n.bad
  <2>1. VmFrees(g) \subseteq Ptrs
    BY DEF VmFrees
  <2>. QED  BY <1>3, <1>4, <1>5, <1>6, <1>7, <2>1 DEF MemoryOK
<1>9. ASSUME NEW p \in Ptrs PROVE n.heap[p] # "ours" /\ AddressOK(n, p)
  <2>1. AddressOK(mem, p) /\ mem.reg[p] \in Entry /\ g.reg[p] \in Entry
    BY <1>3, MemoryFields DEF MemoryOK
  <2>2. n.heap[p] # "ours" /\ (n.heap[p] = "free" <=> mem.heap[p] \in {"free", "ours"})
    BY <1>4, <1>5, <1>6, <1>7
  <2>3. /\ FreedEntry(mem.reg[p]).life = "freed" /\ FreedEntry(mem.reg[p]).pins = 0
        /\ ~IsOwnedCompat(FreedEntry(mem.reg[p])) /\ ~IsOwnedPinned(FreedEntry(mem.reg[p]))
        /\ FreedEntry(g.reg[p]).life = "freed" /\ FreedEntry(g.reg[p]).pins = 0
        /\ ~IsOwnedCompat(FreedEntry(g.reg[p])) /\ ~IsOwnedPinned(FreedEntry(g.reg[p]))
        /\ NoBody.obj = Null
    BY <2>1, Emptied
  <2>4. CASE p \in VmFrees(g)
    <3>1. n.reg[p] = FreedEntry(g.reg[p]) /\ n.body[p].obj = Null
      BY <1>6, <1>7, <2>3, <2>4
    <3>. QED  BY <1>6, <2>2, <2>3, <3>1, CapiAssumption DEF AddressOK, Pinned
  <2>5. CASE p \notin VmFrees(g)
    <3>1. mem.heap[p] # "ours" /\ n.body[p].obj = Null
      BY <1>4, <1>5, <1>6, <1>7, <2>1, <2>5 DEF AddressOK
    <3>2. n.reg[p] = FreedEntry(mem.reg[p]) \/ n.reg[p] = mem.reg[p]
      BY <1>4, <1>6, <1>7, <2>5
    <3>3. ~IsOwnedCompat(n.reg[p]) /\ ~IsOwnedPinned(n.reg[p])
      <4>1. ~IsOwnedCompat(mem.reg[p])
        BY <2>1, <3>1 DEF AddressOK
      <4>. QED  BY <2>3, <3>2, <4>1 DEF IsOwnedCompat, IsOwnedPinned
    <3>4. n.heap[p] = "free" => n.reg[p].life = "freed"
      BY <2>1, <2>2, <2>3, <3>1, <3>2 DEF AddressOK
    <3>5. n.reg[p].life = "freed" => n.reg[p].pins = 0
      BY <2>1, <2>3, <3>2 DEF AddressOK
    <3>. QED  BY <1>6, <2>2, <3>1, <3>3, <3>4, <3>5, CapiAssumption DEF AddressOK, Pinned
  <2>. QED  BY <2>2, <2>4, <2>5
<1>10. ASSUME NEW p \in Ptrs PROVE held'[p] = 0
  <2>1. mem.reg[p].pins \in {0, 1} /\ held[p] \in Nat
    BY <1>3, MemoryFields DEF Entry
  <2>. QED  BY <1>1, <1>3, <2>1 DEF HeldOK, GivesBack
<1>11. \A o \in Objs : NameOK(n, o)
  BY <1>6 DEF NameOK
<1>12. MemoryOK(n)
  BY <1>8, <1>9, <1>11 DEF MemoryOK
<1>. QED  BY <1>1, <1>2, <1>9, <1>10, <1>12 DEF Over

-----------------------------------------------------------------------------
(* Buffers                                                                  *)

(* The context d is c with the buffer b for object o.                       *)
Buffered(c, d, o, b) ==
  /\ d \in Context /\ d.allocs = c.allocs /\ d.objBy = c.objBy /\ d.ptrBy = c.ptrBy /\ d.slot = c.slot
  /\ d.bufs[o] = b /\ \A y \in Objs : y # o => d.bufs[y] = c.bufs[y]

(* The context's table of buffers with one more.                            *)
WithBuffer(c, o, b) == [c EXCEPT !.bufs[o] = b]

(* WithBuffer is such an update.                                            *)
LEMMA BufferedFacts ==
  ASSUME NEW c \in Context, NEW o \in Objs, NEW b \in PtrOrNull, NEW d, d = WithBuffer(c, o, b)
  PROVE  Buffered(c, d, o, b)
<1>. DEFINE bufs == [c.bufs EXCEPT ![o] = b]
<1>1. d = [c EXCEPT !.bufs = bufs]
  BY DEF WithBuffer, Context
<1>2. bufs \in [Objs -> PtrOrNull] /\ bufs[o] = b /\ \A y \in Objs : y # o => bufs[y] = c.bufs[y]
  BY ContextFields
<1>3. /\ d \in Context /\ d.allocs = c.allocs /\ d.objBy = c.objBy /\ d.ptrBy = c.ptrBy /\ d.slot = c.slot
      /\ d.bufs = bufs
  <2>. HIDE DEF bufs
  <2>. QED  BY <1>1, <1>2 DEF Context
<1>. QED  BY <1>2, <1>3 DEF Buffered

(* The buffer of the block p moved from old to b; Null stands for no old    *)
(* buffer.                                                                  *)
Moved(m, n, p, old, b) ==
  /\ b # p /\ b # old /\ p # old
  /\ n.heap[b] = "ours" /\ n.body[b].obj = Null /\ m.body[b].obj = Null
  /\ n.heap[p] = "ours" /\ n.body[p].obj = m.body[p].obj /\ n.body[p].buf = b /\ n.hdr[p] = m.hdr[p]
  /\ old # Null => n.heap[old] = "free" /\ n.body[old].obj = Null /\ m.body[old].obj = Null
  /\ \A q \in Ptrs : Pinned(m, q) /\ q # old => Pinned(n, q)
  /\ \A q \in Ptrs : q # p /\ q # old /\ q # b => SameBlock(m, n, q) /\ n.hdr[q] = m.hdr[q]
  /\ IsByteArray(m, p) /\ Pinned(m, m.body[p].buf) => Pinned(n, b)

(* No other block and no other context uses either buffer.                  *)
Unshared(m, cs, p, o, old, b) ==
  /\ \A i \in DOMAIN cs : \A y \in Objs : cs[i].bufs[y] # b
  /\ \A i \in DOMAIN cs : \A y \in Objs : cs[i].bufs[y] = old /\ old # Null => i = Len(cs) /\ y = o
  /\ Last(cs).bufs[o] # Null => old = Last(cs).bufs[o]
  /\ \A q \in Ptrs : q # p /\ IsByteArray(m, q) => m.body[q].buf # b /\ m.body[q].buf # old

(* Objects and counts stay with their blocks.                               *)
LEMMA MovedBlocks ==
  ASSUME NEW m, NEW n, NEW p \in Ptrs, NEW old \in PtrOrNull, NEW b \in Ptrs, Moved(m, n, p, old, b)
  PROVE  /\ \A q \in Ptrs : n.body[q].obj = m.body[q].obj
         /\ \A q \in Ptrs : m.body[q].obj # Null => n.hdr[q] = m.hdr[q] /\ (Pinned(m, q) => Pinned(n, q))
         /\ \A q \in Ptrs : IsByteArray(n, q) <=> IsByteArray(m, q)
<1>1. \A q \in Ptrs : n.body[q].obj = m.body[q].obj
  <2>1. \A q \in Ptrs : q = old => old # Null
    BY CapiAssumption
  <2>. QED  BY <2>1 DEF Moved, SameBlock
<1>2. \A q \in Ptrs : m.body[q].obj # Null => n.hdr[q] = m.hdr[q] /\ (Pinned(m, q) => Pinned(n, q))
  <2>1. \A q \in Ptrs : q = old => old # Null
    BY CapiAssumption
  <2>. QED  BY <2>1 DEF Moved
<1>. QED  BY <1>1, <1>2 DEF IsByteArray

(* The tables of the context still agree.                                   *)
LEMMA BufferedShape ==
  ASSUME NEW x, NEW c \in Context, ShapeOK(x, c), NEW o \in Objs, NEW b, c.ptrBy[o] # Null,
         \A y \in Objs : c.bufs[y] # b, NEW d, Buffered(c, d, o, b)
  PROVE  ShapeOK(x, d)
<1>1. /\ d.allocs = c.allocs /\ d.objBy = c.objBy /\ d.ptrBy = c.ptrBy /\ Allocs(d) = Allocs(c)
      /\ d.bufs[o] = b /\ \A y \in Objs : y # o => d.bufs[y] = c.bufs[y]
  BY DEF Buffered, Allocs
<1>2. \A y \in Objs : d.bufs[y] # Null => d.ptrBy[y] # Null
  BY <1>1 DEF ShapeOK
<1>3. \A o1, o2 \in Objs : d.bufs[o1] = d.bufs[o2] /\ d.bufs[o1] # Null => o1 = o2
  BY <1>1 DEF ShapeOK
<1>4. /\ \A p \in Ptrs : d.objBy[p] # Null => d.ptrBy[d.objBy[p]] # Null
      /\ \A y \in Objs : d.ptrBy[y] # Null => d.objBy[d.ptrBy[y]] = y
  BY <1>1 DEF ShapeOK
<1>5. /\ \A i, j \in DOMAIN d.allocs : d.allocs[i] = d.allocs[j] => i = j
      /\ \A p \in Allocs(d) : d.objBy[p] # Null
      /\ \A p \in Allocs(d), q \in Ptrs : d.ptrBy[d.objBy[p]] = p /\ d.objBy[q] = d.objBy[p] => q = p
  BY <1>1 DEF ShapeOK
<1>6. ~x.twice => \A p \in Ptrs : d.objBy[p] # Null => d.ptrBy[d.objBy[p]] = p
  BY <1>1 DEF ShapeOK
<1>. QED  BY <1>2, <1>3, <1>4, <1>5, <1>6 DEF ShapeOK

(* Object o is the one of the block p, for the context too.                 *)
BlockOf(m, c, o, p) == c.ptrBy[o] = p /\ m.body[p].obj = o

(* The contexts know what they knew, for none of them used the buffers.     *)
LEMMA MovedContexts ==
  ASSUME NEW x, NEW m \in Memory, NEW n, NEW cs \in Seq(Context), cs # <<>>, NEW c, c = Last(cs),
         ContextsOK(x, m, cs), NEW o \in Objs, NEW p \in Ptrs, c.ptrBy[o] = p, NEW old \in PtrOrNull,
         NEW b \in Ptrs, Moved(m, n, p, old, b), Unshared(m, cs, p, o, old, b),
         NEW d, Buffered(c, d, o, b), NEW t, TopIs(cs, t, d)
  PROVE  ContextsOK(x, n, t)
<1>1. c \in Context /\ ShapeOK(x, c) /\ KnownOK(m, c) /\ Len(cs) \in DOMAIN cs /\ c = cs[Len(cs)]
  BY TopFacts DEF ContextsOK
<1>2. p # Null /\ b # Null
  BY CapiAssumption
<1>3. \A q \in Ptrs : n.body[q].obj = m.body[q].obj
  BY MovedBlocks
<1>4. /\ d.objBy = c.objBy /\ d.bufs[o] = b /\ Allocs(d) = Allocs(c)
      /\ \A y \in Objs : y # o => d.bufs[y] = c.bufs[y]
  BY DEF Buffered, Allocs
<1>5. ShapeOK(x, d)
  BY <1>1, <1>2, BufferedShape DEF Unshared
<1>6. ASSUME NEW a \in Context, KnownOK(m, a), NEW y \in Objs, a.bufs[y] # Null, a.bufs[y] # old
      PROVE  n.heap[a.bufs[y]] = "ours" /\ n.body[a.bufs[y]].obj = Null
  <2>1. PICK q : q = a.bufs[y]
    OBVIOUS
  <2>2. q \in Ptrs /\ m.heap[q] = "ours" /\ m.body[q].obj = Null
    BY <1>6, <2>1, ContextFields DEF KnownOK, PtrOrNull
  <2>3. n.heap[q] = "ours"
    BY <1>6, <2>1, <2>2 DEF Moved, SameBlock
  <2>. QED  BY <1>3, <2>1, <2>2, <2>3
<1>7. KnownOK(n, d)
  <2>1. \A q \in Ptrs : d.objBy[q] # Null => n.body[q].obj = d.objBy[q]
    BY <1>1, <1>3, <1>4 DEF KnownOK
  <2>2. ASSUME NEW y \in Objs, d.bufs[y] # Null
        PROVE  n.heap[d.bufs[y]] = "ours" /\ n.body[d.bufs[y]].obj = Null
    <3>1. CASE y = o
      BY <1>4, <3>1 DEF Moved
    <3>2. CASE y # o
      <4>1. d.bufs[y] = c.bufs[y]
        BY <1>4, <3>2
      <4>2. c.bufs[y] # old
        BY <1>1, <2>2, <3>2, <4>1 DEF Unshared
      <4>. QED  BY <1>1, <1>6, <2>2, <4>1, <4>2
    <3>. QED  BY <3>1, <3>2
  <2>. QED  BY <2>1, <2>2 DEF KnownOK
<1>8. ASSUME NEW i \in DOMAIN cs, i # Len(cs)
      PROVE  KnownOK(n, cs[i]) /\ ApartOK(x, cs[i], d)
  <2>1. PICK a : a = cs[i]
    OBVIOUS
  <2>2. a \in Context /\ i < Len(cs) /\ KnownOK(m, a)
    BY <1>8, <2>1, TopFacts DEF ContextsOK
  <2>3. ApartOK(x, a, c)
    BY <1>1, <2>1, <2>2 DEF ContextsOK
  <2>4. \A y \in Objs : a.bufs[y] # Null => a.bufs[y] # old
    BY <1>8, <2>1 DEF Unshared
  <2>5. KnownOK(n, a)
    <3>1. \A q \in Ptrs : a.objBy[q] # Null => n.body[q].obj = a.objBy[q]
      BY <1>3, <2>2 DEF KnownOK
    <3>2. \A y \in Objs : a.bufs[y] # Null => n.heap[a.bufs[y]] = "ours" /\ n.body[a.bufs[y]].obj = Null
      BY <1>6, <2>2, <2>4
    <3>. QED  BY <3>1, <3>2 DEF KnownOK
  <2>6. ApartOK(x, a, d)
    <3>1. \A y, z \in Objs : a.bufs[y] = d.bufs[z] => a.bufs[y] = Null
      <4>1. \A y \in Objs : a.bufs[y] # b
        BY <2>1 DEF Unshared
      <4>2. \A y, z \in Objs : a.bufs[y] = c.bufs[z] => a.bufs[y] = Null
        BY <2>3 DEF ApartOK
      <4>. QED  BY <1>4, <4>1, <4>2
    <3>. QED  BY <1>4, <2>3, <3>1 DEF ApartOK
  <2>. QED  BY <2>1, <2>5, <2>6
<1>. QED  BY <1>5, <1>7, <1>8, ContextsReplaced

(* The new buffer is the context's or, if pinned, the VM's.                 *)
LEMMA MovedCover ==
  ASSUME NEW x, NEW m \in Memory, NEW n, NEW cs \in Seq(Context), cs # <<>>, NEW c, c = Last(cs),
         CoverOK(m, cs), NEW o \in Objs, NEW p \in Ptrs, NEW old \in PtrOrNull, m.heap[p] = "ours",
         NEW b \in Ptrs, Moved(m, n, p, old, b), Unshared(m, cs, p, o, old, b),
         NEW d, Buffered(c, d, o, b), NEW t, TopIs(cs, t, d)
  PROVE  CoverOK(n, t)
<1>1. /\ d.bufs[o] = b /\ Allocs(d) = Allocs(c)
      /\ \A y \in Objs : y # o => d.bufs[y] = c.bufs[y]
  BY DEF Buffered, Allocs
<1>2. \A q \in Ptrs : q # Null
  BY CapiAssumption
<1>3. ASSUME NEW q \in Ptrs, n.heap[q] = "ours", q # b
      PROVE  /\ m.heap[q] = "ours" /\ (Pinned(m, q) => Pinned(n, q))
             /\ \A y \in Objs : c.bufs[y] = q => d.bufs[y] = q
  <2>1. q # old
    BY <1>2, <1>3 DEF Moved
  <2>2. m.heap[q] = "ours" /\ (Pinned(m, q) => Pinned(n, q))
    BY <1>3, <2>1 DEF Moved, SameBlock
  <2>3. c.bufs[o] # q
    BY <1>2, <2>1 DEF Unshared
  <2>. QED  BY <1>1, <2>2, <2>3
<1>4. StillOurs(m, n, c, d)
  BY <1>1, <1>2, <1>3 DEF StillOurs
<1>. QED  BY <1>4, CoverReplaced

(* The counts are not concerned.                                            *)
LEMMA MovedOwns ==
  ASSUME NEW x, NEW m \in Memory, NEW n, NEW cs \in Seq(Context), cs # <<>>, NEW c, c = Last(cs),
         ContextsOK(x, m, cs), NEW o \in Objs, NEW p \in Ptrs, NEW old \in PtrOrNull,
         NEW b \in Ptrs, Moved(m, n, p, old, b),
         NEW d, Buffered(c, d, o, b), NEW t, TopIs(cs, t, d), NEW w, OwnsOK(x, m, cs, w)
  PROVE  OwnsOK(x, n, t, w)
<1>1. SUFFICES ASSUME ~x.across, ~x.inline
               PROVE  /\ \A q \in Ptrs : w[q] > 0 => n.body[q].obj # Null
                      /\ \A i \in DOMAIN t : Counts(n, t[i], w)
  BY DEF OwnsOK
<1>2. /\ \A q \in Ptrs : n.body[q].obj = m.body[q].obj
      /\ \A q \in Ptrs : m.body[q].obj # Null => n.hdr[q] = m.hdr[q] /\ (Pinned(m, q) => Pinned(n, q))
  BY MovedBlocks
<1>3. \A q \in Ptrs : w[q] > 0 => n.body[q].obj # Null
  BY <1>1, <1>2 DEF OwnsOK
<1>4. ASSUME NEW i \in DOMAIN t PROVE Counts(n, t[i], w)
  <2>1. PICK a, e : a = cs[i] /\ e = t[i]
    OBVIOUS
  <2>2. i \in DOMAIN cs /\ a \in Context /\ ShapeOK(x, a) /\ KnownOK(m, a)
    BY <2>1, TopFacts DEF ContextsOK, TopIs
  <2>3. e.ptrBy = a.ptrBy /\ e.objBy = a.objBy /\ e.slot = a.slot /\ Allocs(e) = Allocs(a)
    BY <2>1, <2>2, TopFacts DEF TopIs, Buffered, Allocs
  <2>4. Counts(m, a, w)
    BY <1>1, <2>1, <2>2 DEF OwnsOK
  <2>5. \A q \in Allocs(a) : n.hdr[q] = m.hdr[q] /\ (Pinned(m, q) => Pinned(n, q))
    BY <1>2, <2>2, ContextFields DEF ShapeOK, KnownOK
  <2>6. Counts(n, e, w)
    BY <2>3, <2>4, <2>5 DEF Counts
  <2>. QED  BY <2>1, <2>6
<1>. QED  BY <1>3, <1>4

(* What was handed over stays pinned.                                       *)
LEMMA MovedHanded ==
  ASSUME NEW m, NEW n, NEW p \in Ptrs, NEW old \in PtrOrNull, NEW b \in Ptrs, Moved(m, n, p, old, b),
         NEW h \in SUBSET Ptrs, HandedOK(m, h)
  PROVE  HandedOK(n, h)
<1>1. /\ \A q \in Ptrs : n.body[q].obj = m.body[q].obj
      /\ \A q \in Ptrs : m.body[q].obj # Null => (Pinned(m, q) => Pinned(n, q))
  BY MovedBlocks
<1>. QED  BY <1>1 DEF HandedOK

(* Of the contexts only the active one knows a block it knows, if native    *)
(* code does not use pointers across contexts.                              *)
LEMMA TopOnly ==
  ASSUME NEW x, ~x.across, NEW m, NEW cs \in Seq(Context), cs # <<>>, ContextsOK(x, m, cs), NEW p \in Ptrs,
         Last(cs).objBy[p] # Null, NEW o \in Objs, NEW i \in DOMAIN cs, i # Len(cs)
  PROVE  cs[i].objBy[p] = Null /\ cs[i].ptrBy[o] # p /\ p \notin Allocs(cs[i])
<1>1. cs[i] \in Context /\ i < Len(cs) /\ Len(cs) \in DOMAIN cs /\ Last(cs) = cs[Len(cs)]
  BY TopFacts
<1>2. ShapeOK(x, cs[i]) /\ ApartOK(x, cs[i], Last(cs))
  BY <1>1 DEF ContextsOK
<1>3. cs[i].objBy[p] = Null
  BY <1>2 DEF ApartOK
<1>4. p # Null /\ o # Null
  BY CapiAssumption
<1>. QED  BY <1>2, <1>3, <1>4 DEF ShapeOK

(* The block whose buffer moved is the only one of the contexts with it.    *)
LEMMA MovedBytesHere ==
  ASSUME NEW x, NEW m \in Memory, NEW n, NEW cs \in Seq(Context), cs # <<>>, NEW c, c = Last(cs),
         ContextsOK(x, m, cs), NEW o \in Objs, NEW p \in Ptrs, c.ptrBy[o] = p, NEW old \in PtrOrNull,
         NEW b \in Ptrs, Moved(m, n, p, old, b), Unshared(m, cs, p, o, old, b),
         NEW d, Buffered(c, d, o, b), NEW t, TopIs(cs, t, d), IsByteArray(m, p), ByteOK(x, m, cs, p)
  PROVE  ByteOK(x, n, t, p)
<1>1. c \in Context /\ ShapeOK(x, c) /\ KnownOK(m, c) /\ Len(cs) \in DOMAIN cs /\ c = cs[Len(cs)]
  BY TopFacts DEF ContextsOK
<1>2. p # Null /\ b # Null /\ o # Null
  BY CapiAssumption
<1>3. c.objBy[p] = o /\ m.body[p].obj = o
  BY <1>1, <1>2 DEF ShapeOK, KnownOK
<1>4. PICK a : a = m.body[p].buf
  OBVIOUS
<1>5. /\ ~x.across /\ ~x.twice
      /\ Pinned(m, a) \/ \E i \in DOMAIN cs : p \in Allocs(cs[i]) /\ cs[i].bufs[o] = a
  BY <1>3, <1>4 DEF ByteOK
<1>6. ASSUME NEW i \in DOMAIN cs, i # Len(cs)
      PROVE  cs[i].ptrBy[o] # p /\ p \notin Allocs(cs[i]) /\ t[i] = cs[i]
  BY <1>2, <1>3, <1>5, <1>6, TopOnly DEF TopIs
<1>7. /\ DOMAIN t = DOMAIN cs /\ t[Len(cs)] = d /\ d.ptrBy = c.ptrBy /\ d.bufs[o] = b /\ Allocs(d) = Allocs(c)
      /\ \A y \in Objs : y # o => d.bufs[y] = c.bufs[y]
  BY <1>1 DEF TopIs, Buffered, Allocs
<1>8. ASSUME NEW i \in DOMAIN t
      PROVE  /\ \A y \in Objs : t[i].bufs[y] = b => y = o /\ t[i].ptrBy[o] = p
             /\ t[i].ptrBy[o] = p => t[i].bufs[o] \in {Null, b}
  <2>1. CASE i # Len(cs)
    <3>1. t[i] = cs[i] /\ cs[i].ptrBy[o] # p
      BY <1>6, <1>7, <2>1
    <3>2. \A y \in Objs : cs[i].bufs[y] # b
      BY <1>7 DEF Unshared
    <3>. QED  BY <3>1, <3>2
  <2>2. CASE i = Len(cs)
    <3>1. \A y \in Objs : c.bufs[y] # b
      BY <1>1 DEF Unshared
    <3>. QED  BY <1>7, <2>2, <3>1
  <2>. QED  BY <2>1, <2>2
<1>9. Pinned(n, b) \/ \E i \in DOMAIN t : p \in Allocs(t[i]) /\ t[i].bufs[o] = b
  <2>1. CASE Pinned(m, a)
    BY <1>4, <2>1 DEF Moved
  <2>2. CASE \E i \in DOMAIN cs : p \in Allocs(cs[i])
    <3>1. p \in Allocs(c)
      BY <1>1, <1>6, <2>2
    <3>. QED  BY <1>1, <1>7, <3>1
  <2>. QED  BY <1>5, <2>1, <2>2
<1>10. n.body[p].buf = b /\ n.body[p].obj = o /\ n.heap[b] = "ours" /\ n.body[b].obj = Null
  BY <1>3 DEF Moved
<1>. QED  BY <1>2, <1>5, <1>8, <1>9, <1>10 DEF ByteOK

(* The buffers of the other bytearrays stay where they are.                 *)
LEMMA MovedBytesElsewhere ==
  ASSUME NEW x, NEW m \in Memory, MemoryOK(m), NEW n, NEW cs \in Seq(Context), cs # <<>>, NEW c, c = Last(cs),
         ContextsOK(x, m, cs), NEW o \in Objs, NEW p \in Ptrs, BlockOf(m, c, o, p), NEW old \in PtrOrNull,
         NEW b \in Ptrs, Moved(m, n, p, old, b), Unshared(m, cs, p, o, old, b),
         NEW d, Buffered(c, d, o, b), NEW t, TopIs(cs, t, d),
         NEW q \in Ptrs, q # p, IsByteArray(m, q), ByteOK(x, m, cs, q)
  PROVE  ByteOK(x, n, t, q) /\ SameBlock(m, n, q)
<1>1. PICK a, y : a = m.body[q].buf /\ y = m.body[q].obj
  OBVIOUS
<1>2. a \in Ptrs /\ a # Null /\ y \in Objs /\ q # Null /\ o # Null
  <2>1. m.body[q].buf \in PtrOrNull /\ m.body[q].obj \in ObjOrNull /\ m.body[q].obj # Null
    BY MemoryFields DEF Body, IsByteArray
  <2>2. a # Null
    BY SMTT(60), <1>1 DEF ByteOK
  <2>. QED  BY <1>1, <2>1, <2>2, CapiAssumption DEF PtrOrNull, ObjOrNull
<1>3. /\ ~x.across /\ ~x.twice /\ m.heap[a] = "ours" /\ m.body[a].obj = Null
      /\ \A i \in DOMAIN cs : \A z \in Objs : cs[i].bufs[z] = a => z = y /\ cs[i].ptrBy[y] = q
      /\ \A i \in DOMAIN cs : cs[i].ptrBy[y] = q => cs[i].bufs[y] \in {Null, a}
      /\ Pinned(m, a) \/ \E i \in DOMAIN cs : q \in Allocs(cs[i]) /\ cs[i].bufs[y] = a
  BY <1>1 DEF ByteOK
<1>4. a # b /\ a # old /\ a # p
  BY <1>1, <1>2, <1>3 DEF Unshared, BlockOf
<1>5. n.heap[a] = "ours" /\ n.body[a].obj = Null /\ (Pinned(m, a) => Pinned(n, a))
  BY <1>2, <1>3, <1>4 DEF Moved, SameBlock
<1>6. SameBlock(m, n, q) /\ n.body[q] = m.body[q]
  <2>1. m.body[q].obj # Null
    BY DEF IsByteArray
  <2>2. q # old /\ q # b
    BY <1>2, <2>1 DEF Moved
  <2>. QED  BY <2>2 DEF Moved, SameBlock
<1>7. /\ DOMAIN t = DOMAIN cs /\ Len(cs) \in DOMAIN cs /\ t[Len(cs)] = d /\ c = cs[Len(cs)]
      /\ d.ptrBy = c.ptrBy /\ d.bufs[o] = b /\ Allocs(d) = Allocs(c)
      /\ \A z \in Objs : z # o => d.bufs[z] = c.bufs[z]
      /\ \A i \in DOMAIN cs : i # Len(cs) => t[i] = cs[i]
  BY TopFacts DEF TopIs, Buffered, Allocs
<1>8. c.bufs[o] # a
  BY <1>3, <1>7 DEF BlockOf
<1>9. ASSUME NEW i \in DOMAIN t
      PROVE  /\ \A z \in Objs : t[i].bufs[z] = a => z = y /\ t[i].ptrBy[y] = q
             /\ t[i].ptrBy[y] = q => t[i].bufs[y] \in {Null, a}
             /\ cs[i].bufs[y] = a => t[i].bufs[y] = a
             /\ Allocs(t[i]) = Allocs(cs[i])
  <2>1. CASE i # Len(cs)
    BY <1>3, <1>7, <2>1
  <2>2. CASE i = Len(cs)
    <3>1. \A z \in Objs : d.bufs[z] = a => c.bufs[z] = a
      BY <1>4, <1>7
    <3>2. c.ptrBy[y] = q => y # o
      BY DEF BlockOf
    <3>3. c.bufs[y] = a => d.bufs[y] = a
      BY <1>2, <1>7, <1>8
    <3>4. c.ptrBy[y] = q => d.bufs[y] \in {Null, a}
      BY <1>2, <1>3, <1>7, <3>2
    <3>5. \A z \in Objs : c.bufs[z] = a => z = y /\ c.ptrBy[y] = q
      BY <1>3, <1>7
    <3>. QED  BY <1>7, <2>2, <3>1, <3>3, <3>4, <3>5
  <2>. QED  BY <2>1, <2>2
<1>10. Pinned(n, a) \/ \E i \in DOMAIN t : q \in Allocs(t[i]) /\ t[i].bufs[y] = a
  BY <1>3, <1>5, <1>7, <1>9
<1>11. n.body[q].buf = a /\ n.body[q].obj = y
  BY <1>1, <1>6
<1>. QED  BY <1>2, <1>3, <1>5, <1>6, <1>9, <1>10, <1>11 DEF ByteOK

(* Every bytearray has a buffer of its own.                                 *)
LEMMA MovedBytes ==
  ASSUME NEW x, NEW m \in Memory, MemoryOK(m), NEW n, NEW cs \in Seq(Context), cs # <<>>, NEW c, c = Last(cs),
         ContextsOK(x, m, cs), NEW o \in Objs, NEW p \in Ptrs, BlockOf(m, c, o, p), NEW old \in PtrOrNull,
         NEW b \in Ptrs, Moved(m, n, p, old, b), Unshared(m, cs, p, o, old, b),
         NEW d, Buffered(c, d, o, b), NEW t, TopIs(cs, t, d), BytesOK(x, m, cs)
  PROVE  BytesOK(x, n, t)
<1>1. \A q \in Ptrs : IsByteArray(n, q) <=> IsByteArray(m, q)
  BY MovedBlocks
<1>2. ASSUME NEW q \in Ptrs, IsByteArray(n, q)
      PROVE  ByteOK(x, n, t, q) /\ (q # p => n.body[q].buf = m.body[q].buf /\ n.body[q].buf # b)
  <2>1. IsByteArray(m, q) /\ ByteOK(x, m, cs, q)
    BY <1>1, <1>2 DEF BytesOK
  <2>2. CASE q = p
    BY <2>1, <2>2, MovedBytesHere DEF BlockOf
  <2>3. CASE q # p
    <3>1. ByteOK(x, n, t, q) /\ SameBlock(m, n, q)
      BY <2>1, <2>3, MovedBytesElsewhere
    <3>. QED  BY <2>1, <2>3, <3>1 DEF Unshared, SameBlock
  <2>. QED  BY <2>2, <2>3
<1>3. n.body[p].buf = b
  BY DEF Moved
<1>4. ASSUME NEW q \in Ptrs, NEW r \in Ptrs, IsByteArray(n, q), IsByteArray(n, r), n.body[q].buf = n.body[r].buf
      PROVE  q = r
  <2>1. CASE q = p \/ r = p
    BY <1>2, <1>3, <1>4, <2>1
  <2>2. CASE q # p /\ r # p
    BY <1>1, <1>2, <1>4, <2>2 DEF BytesOK
  <2>. QED  BY <2>1, <2>2
<1>. QED  BY <1>2, <1>4 DEF BytesOK

(* A step that moves a buffer of the active context.                        *)
LEMMA MovedStep ==
  ASSUME TypeInv, Live, Active, NEW o \in Objs, NEW p \in Ptrs, Top.ptrBy[o] = p, mem.body[p].obj = o,
         NEW old \in PtrOrNull, NEW b \in Ptrs, Moved(mem, mem', p, old, b), Unshared(mem, ctxs, p, o, old, b),
         NEW d, Buffered(Top, d, o, b), TopIs(ctxs, ctxs', d), MemoryOK(mem'), HeldOK(mem', held),
         UNCHANGED <<ext, handed, owns, held>>
  PROVE  Live'
<1>1. PICK c, n, t : c = Top /\ n = mem' /\ t = ctxs'
  OBVIOUS
<1>2. ctxs \in Seq(Context) /\ ctxs # <<>> /\ c \in Context /\ c = Last(ctxs) /\ mem \in Memory
  BY <1>1, ActiveFacts
<1>3. /\ handed \in SUBSET Ptrs /\ owns \in [Ptrs -> Nat]
      /\ MemoryOK(mem) /\ ContextsOK(ext, mem, ctxs) /\ CoverOK(mem, ctxs) /\ BytesOK(ext, mem, ctxs)
      /\ OwnsOK(ext, mem, ctxs, owns) /\ HandedOK(mem, handed) /\ HeldOK(mem, held)
  BY DEF TypeInv, Live
<1>4. mem.heap[p] = "ours"
  BY <1>2, <1>3, OwnedFacts, CapiAssumption
<1>5. Moved(mem, n, p, old, b) /\ Buffered(c, d, o, b) /\ TopIs(ctxs, t, d) /\ c.ptrBy[o] = p /\ BlockOf(mem, c, o, p)
  BY <1>1 DEF BlockOf
<1>6. ContextsOK(ext, n, t)
  BY <1>2, <1>3, <1>5, MovedContexts
<1>7. CoverOK(n, t)
  BY <1>2, <1>3, <1>4, <1>5, MovedCover
<1>8. BytesOK(ext, n, t)
  BY <1>2, <1>3, <1>5, MovedBytes
<1>9. OwnsOK(ext, n, t, owns)
  BY <1>2, <1>3, <1>5, MovedOwns
<1>10. HandedOK(n, handed)
  BY <1>2, <1>3, <1>5, MovedHanded
<1>. QED  BY <1>1, <1>6, <1>7, <1>8, <1>9, <1>10 DEF Live

AdoptedBy(c, m, d, o, p, b) ==
  /\ p = c.ptrBy[o] /\ b = m.body[p].buf
  /\ Buffered(c, d, o, b)

(* Adopt in these terms.                                                    *)
LEMMA AdoptFacts ==
  ASSUME TypeInv, NEW o \in Objs, Adopt(o)
  PROVE  \E p, b \in Ptrs, d \in Context :
           /\ AdoptedBy(Top, mem, d, o, p, b) /\ TopIs(ctxs, ctxs', d)
           /\ mem' = Register(mem, {b}, "owned")
<1>1. PICK c, p, b : c = Top /\ p = c.ptrBy[o] /\ b = mem.body[p].buf
  OBVIOUS
<1>2. ctxs \in Seq(Context) /\ ctxs # <<>> /\ c \in Context /\ mem \in Memory
  BY <1>1, ActiveFacts DEF Adopt
<1>3. p \in Ptrs
  BY <1>1, <1>2, ContextFields DEF Adopt, PtrOrNull
<1>4. b \in Ptrs /\ b \in PtrOrNull
  <2>1. b \in PtrOrNull
    BY <1>1, <1>2, <1>3, MemoryFields DEF Body
  <2>. QED  BY <1>1, <2>1 DEF Adopt, PtrOrNull
<1>5. PICK d : d = WithBuffer(c, o, b)
  OBVIOUS
<1>6. Buffered(c, d, o, b)
  BY <1>2, <1>4, <1>5, BufferedFacts
<1>7. ctxs' = Append(Front(ctxs), d)
  BY <1>1, <1>5 DEF Adopt, SetTop, WithBuffer
<1>8. TopIs(ctxs, ctxs', d)
  BY <1>2, <1>6, <1>7, ReplaceTop DEF Buffered
<1>9. mem' = Register(mem, {b}, "owned")
  BY <1>1 DEF Adopt
<1>10. d \in Context
  BY <1>6 DEF Buffered
<1>. QED  BY <1>1, <1>3, <1>4, <1>6, <1>8, <1>9, <1>10 DEF AdoptedBy

(* Its types.                                                               *)
LEMMA AdoptType ==
  ASSUME TypeInv, NEW o \in Objs, Adopt(o)
  PROVE  TypeInv'
<1>1. PICK p \in Ptrs, b \in Ptrs, d \in Context :
           /\ AdoptedBy(Top, mem, d, o, p, b) /\ TopIs(ctxs, ctxs', d)
           /\ mem' = Register(mem, {b}, "owned")
  BY AdoptFacts
<1>2. PICK n, S : n = mem' /\ S = {b}
  OBVIOUS
<1>3. mem \in Memory /\ S \in SUBSET Ptrs
  BY <1>2 DEF TypeInv
<1>4. n \in Memory /\ Backs(mem, n)
  BY <1>1, <1>2, <1>3, RegisterFacts, OperationsBack
<1>5. ctxs' \in Seq(Context)
  BY <1>1 DEF TopIs
<1>. QED  BY ZenonT(40), <1>2, <1>4, <1>5, TypeNext DEF Adopt, TypeInv

(* The buffer that a block in memory names becomes the context's.           *)
LEMMA AdoptLive ==
  ASSUME TypeInv, Live, NEW o \in Objs, Adopt(o)
  PROVE  Live'
<1>1. PICK p \in Ptrs, b \in Ptrs, d \in Context :
           /\ AdoptedBy(Top, mem, d, o, p, b) /\ TopIs(ctxs, ctxs', d)
           /\ mem' = Register(mem, {b}, "owned")
  BY AdoptFacts
<1>2. PICK c, n, S : c = Top /\ n = mem' /\ S = {b}
  OBVIOUS
<1>3. ctxs \in Seq(Context) /\ ctxs # <<>> /\ c \in Context /\ c = Last(ctxs) /\ mem \in Memory /\ S \in SUBSET Ptrs
  BY <1>2, ActiveFacts DEF Adopt
<1>4. /\ MemoryOK(mem) /\ ContextsOK(ext, mem, ctxs) /\ BytesOK(ext, mem, ctxs) /\ HeldOK(mem, held)
  BY DEF Live
<1>5. /\ ShapeOK(ext, c) /\ KnownOK(mem, c) /\ Len(ctxs) \in DOMAIN ctxs /\ c = ctxs[Len(ctxs)]
  BY SMTT(60), <1>3, <1>4, TopFacts DEF ContextsOK
<1>6. c.ptrBy[o] = p /\ mem.body[p].buf = b /\ Kind[o] = "bytearray" /\ c.bufs[o] = Null
  BY <1>1, <1>2 DEF AdoptedBy, Adopt
<1>7. p # Null /\ b # Null /\ o # Null
  BY CapiAssumption
<1>8. c.objBy[p] = o /\ mem.body[p].obj = o
  BY <1>5, <1>6, <1>7 DEF ShapeOK, KnownOK
<1>9. IsByteArray(mem, p) /\ ByteOK(ext, mem, ctxs, p)
  BY <1>4, <1>6, <1>7, <1>8 DEF IsByteArray, BytesOK
<1>10. /\ ~ext.across /\ mem.heap[b] = "ours" /\ mem.body[b].obj = Null
       /\ \A i \in DOMAIN ctxs : \A y \in Objs : ctxs[i].bufs[y] = b => y = o /\ ctxs[i].ptrBy[o] = p
  BY <1>6, <1>8, <1>9 DEF ByteOK
<1>11. \A i \in DOMAIN ctxs : \A y \in Objs : ctxs[i].bufs[y] # b
  <2>1. SUFFICES ASSUME NEW i \in DOMAIN ctxs, NEW y \in Objs, ctxs[i].bufs[y] = b PROVE FALSE
    OBVIOUS
  <2>2. y = o /\ ctxs[i].ptrBy[o] = p
    BY <1>10, <2>1
  <2>3. i = Len(ctxs)
    BY <1>3, <1>4, <1>7, <1>8, <1>10, <2>2, TopOnly
  <2>. QED  BY <1>5, <1>6, <1>7, <2>1, <2>2, <2>3
<1>12. Unshared(mem, ctxs, p, o, Null, b)
  <2>1. ASSUME NEW q \in Ptrs, q # p, IsByteArray(mem, q) PROVE mem.body[q].buf # b /\ mem.body[q].buf # Null
    <3>1. ByteOK(ext, mem, ctxs, q)
      BY <1>4, <2>1 DEF BytesOK
    <3>2. mem.body[q].buf # Null
      BY <3>1 DEF ByteOK
    <3>. QED  BY <1>4, <1>6, <1>9, <2>1, <3>2 DEF BytesOK
  <2>. QED  BY <1>3, <1>6, <1>11, <2>1 DEF Unshared
<1>13. /\ n \in Memory /\ MemoryOK(n) /\ n.heap = mem.heap /\ n.body = mem.body /\ n.hdr = mem.hdr
       /\ \A q \in Ptrs : n.reg[q] = mem.reg[q]
  <2>1. \A q \in S : mem.heap[q] = "ours"
    BY <1>2, <1>10
  <2>2. n = Register(mem, S, "owned")
    BY <1>1, <1>2
  <2>. QED  BY <1>3, <1>4, <2>1, <2>2, RegisterAgain
<1>14. \A q \in Ptrs : Pinned(n, q) <=> Pinned(mem, q)
  BY <1>13 DEF Pinned
<1>15. Moved(mem, n, p, Null, b)
  <2>1. mem.heap[p] = "ours"
    BY <1>3, <1>4, <1>7, <1>8, OwnedFacts
  <2>2. b # p
    BY <1>7, <1>8, <1>10
  <2>. QED  BY <1>6, <1>7, <1>8, <1>10, <1>13, <1>14, <2>1, <2>2 DEF Moved, SameBlock
<1>16. HeldOK(n, held)
  BY <1>4, <1>13 DEF HeldOK
<1>17. Null \in PtrOrNull
  BY DEF PtrOrNull
<1>18. UNCHANGED <<ext, handed, owns, held>> /\ Active
  BY DEF Adopt
<1>19. Buffered(Top, d, o, b)
  BY <1>1 DEF AdoptedBy
<1>. QED  BY <1>1, <1>2, <1>6, <1>8, <1>12, <1>13, <1>15, <1>16, <1>17, <1>18, <1>19, MovedStep

(* The steps of Grow on the memory.                                         *)
WithoutOld(m, old) == IF old = Null THEN m ELSE Release(m, {old})

WithNew(m, p, b) == [[m EXCEPT !.heap[b] = "ours"] EXCEPT !.body[p].buf = b]

PinnedIf(pinned, m, b) == IF pinned THEN Pin(m, {b}) ELSE m

(* The old buffer goes.                                                     *)
LEMMA WithoutOldFacts ==
  ASSUME NEW m \in Memory, NEW old \in PtrOrNull, NEW r, r = WithoutOld(m, old)
  PROVE  /\ r \in Memory /\ Backs(m, r)
         /\ \A q \in Ptrs : q # old => /\ SameBlock(m, r, q) /\ r.hdr[q] = m.hdr[q] /\ r.reg[q] = m.reg[q]
                                       /\ Pinned(m, q) => Pinned(r, q)
         /\ old # Null => r.heap[old] = "free" /\ r.body[old].obj = Null /\ r.reg[old].prov = m.reg[old].prov
<1>1. CASE old = Null
  <2>1. r = m
    BY <1>1 DEF WithoutOld
  <2>. QED  BY <1>1, <2>1, SameEntriesBack DEF SameBlock
<1>2. CASE old # Null
  <2>1. PICK S : S = {old}
    OBVIOUS
  <2>2. S \in SUBSET Ptrs /\ old \in Ptrs /\ r = Release(m, S)
    BY <1>2, <2>1 DEF PtrOrNull, WithoutOld
  <2>3. /\ r \in Memory
        /\ \A q \in Ptrs :
             /\ r.heap[q] = IF q \in S THEN "free" ELSE m.heap[q]
             /\ r.hdr[q] = IF q \in S THEN 0 ELSE m.hdr[q]
             /\ r.body[q] = IF q \in S THEN NoBody ELSE m.body[q]
             /\ r.reg[q] = IF q \in S THEN FreedEntry(m.reg[q]) ELSE m.reg[q]
    BY <2>2, ReleaseFacts
  <2>4. Backs(m, r)
    BY <2>2, OperationsBack
  <2>5. m.reg[old] \in Entry
    BY <2>2, MemoryFields
  <2>6. FreedEntry(m.reg[old]).prov = m.reg[old].prov /\ NoBody.obj = Null
    BY <2>5 DEF FreedEntry, Entry, NoBody
  <2>. QED  BY <2>1, <2>2, <2>3, <2>4, <2>6 DEF SameBlock, Pinned
<1>. QED  BY <1>1, <1>2

(* The new buffer b is in memory m, and the block p names it.               *)
Placed(m, s, p, b) ==
  /\ s \in Memory /\ s.hdr = m.hdr /\ s.reg = m.reg /\ s.pinSet = m.pinSet /\ s.pinVec = m.pinVec
  /\ s.valueOf = m.valueOf /\ s.ptrOf = m.ptrOf /\ s.bad = m.bad
  /\ \A q \in Ptrs : /\ s.heap[q] = IF q = b THEN "ours" ELSE m.heap[q]
                     /\ s.body[q].obj = m.body[q].obj
                     /\ q # p => s.body[q] = m.body[q]
  /\ s.body[p].buf = b

(* The new one comes.                                                       *)
LEMMA WithNewFacts ==
  ASSUME NEW m \in Memory, NEW p \in Ptrs, NEW b \in Ptrs, NEW s, s = WithNew(m, p, b)
  PROVE  Placed(m, s, p, b)
<1>. DEFINE heap == [m.heap EXCEPT ![b] = "ours"]
            item == [m.body[p] EXCEPT !.buf = b]
            body == [m.body EXCEPT ![p] = item]
<1>1. s = [m EXCEPT !.heap = heap, !.body = body]
  BY DEF WithNew, Memory
<1>2. item \in Body /\ item.obj = m.body[p].obj /\ item.buf = b
  BY MemoryFields DEF Body, PtrOrNull
<1>3. heap \in [Ptrs -> {"free", "ours", "theirs"}]
  BY MemoryFields
<1>4. body \in [Ptrs -> Body] /\ body[p] = item /\ \A q \in Ptrs : q # p => body[q] = m.body[q]
  <2>. HIDE DEF item
  <2>. QED  BY <1>2, MemoryFields
<1>5. /\ s \in Memory /\ s.hdr = m.hdr /\ s.reg = m.reg /\ s.pinSet = m.pinSet /\ s.pinVec = m.pinVec
      /\ s.valueOf = m.valueOf /\ s.ptrOf = m.ptrOf /\ s.bad = m.bad
      /\ s.heap = heap /\ s.body = body
  <2>. HIDE DEF heap, body, item
  <2>. QED  BY <1>1, <1>3, <1>4 DEF Memory
<1>6. \A q \in Ptrs : s.body[q].obj = m.body[q].obj /\ (q # p => s.body[q] = m.body[q])
  <2>. HIDE DEF heap, body, item
  <2>. QED  BY <1>2, <1>4, <1>5
<1>7. \A q \in Ptrs : s.heap[q] = IF q = b THEN "ours" ELSE m.heap[q]
  BY <1>5, MemoryFields
<1>8. s.body[p].buf = b
  <2>. HIDE DEF heap, body, item
  <2>. QED  BY <1>2, <1>4, <1>5
<1>. QED  BY <1>5, <1>6, <1>7, <1>8 DEF Placed

(* The new buffer gets an entry, pinned if the old one was.                 *)
Entered(s, n, b, pinned) ==
  /\ n \in Memory /\ n.heap = s.heap /\ n.hdr = s.hdr /\ n.body = s.body
  /\ n.valueOf = s.valueOf /\ n.ptrOf = s.ptrOf /\ n.bad = s.bad
  /\ \A q \in Ptrs : q # b => /\ n.reg[q] = s.reg[q]
                              /\ q \in n.pinSet <=> q \in s.pinSet
                              /\ q \in n.pinSet => n.pinVec[q] > 0 \/ n.pinVec[q] = s.pinVec[q]
  /\ IsOwnedCompat(n.reg[b]) /\ n.reg[b].prov = "owned" /\ n.reg[b].life = "alive"
  /\ s.reg[b].life = "freed" /\ b \notin s.pinSet =>
       IF pinned THEN Pinned(n, b) /\ b \in n.pinSet /\ n.pinVec[b] > 0
       ELSE ~Pinned(n, b) /\ b \notin n.pinSet

(* It is entered as ours,                                                   *)
LEMMA EnteredUnpinned ==
  ASSUME NEW s \in Memory, NEW b \in Ptrs, NEW S, S = {b}, NEW g, g = Register(s, S, "owned")
  PROVE  Entered(s, g, b, FALSE) /\ Backs(s, g) /\ CanPin(g.reg[b]) /\ g \in Memory
<1>1. S \in SUBSET Ptrs
  OBVIOUS
<1>2. /\ g \in Memory
      /\ g.heap = s.heap /\ g.hdr = s.hdr /\ g.body = s.body /\ g.pinSet = s.pinSet
      /\ g.pinVec = s.pinVec /\ g.valueOf = s.valueOf /\ g.ptrOf = s.ptrOf /\ g.bad = s.bad
      /\ \A q \in Ptrs : g.reg[q] = IF q \in S THEN Registered(s.reg[q], "owned", Null) ELSE s.reg[q]
  BY RegisterFacts
<1>3. Backs(s, g)
  BY <1>1, OperationsBack
<1>4. PICK e, f : e = s.reg[b] /\ f = Registered(e, "owned", Null)
  OBVIOUS
<1>5. g.reg[b] = f /\ \A q \in Ptrs : q # b => g.reg[q] = s.reg[q]
  BY <1>2, <1>4
<1>6. /\ f.prov = "owned" /\ f.life = "alive" /\ IsOwnedCompat(f) /\ CanPin(f)
      /\ e.life = "freed" => ~IsOwnedPinned(f)
  BY <1>4 DEF Registered, IsOwnedCompat, IsOwnedPinned, CanPin
<1>7. Entered(s, g, b, FALSE)
  BY <1>2, <1>4, <1>5, <1>6 DEF Entered, Pinned
<1>. QED  BY <1>2, <1>3, <1>5, <1>6, <1>7

(* and pinned, if the old one was.                                          *)
LEMMA EnteredPinned ==
  ASSUME NEW s \in Memory, NEW b \in Ptrs, NEW g \in Memory, Entered(s, g, b, FALSE), CanPin(g.reg[b]),
         NEW S \in SUBSET Ptrs, S = {b}, NEW n, n = Pin(g, S)
  PROVE  Entered(s, n, b, TRUE) /\ Backs(g, n)
<1>1. /\ n \in Memory
      /\ n.heap = g.heap /\ n.hdr = g.hdr /\ n.body = g.body
      /\ n.valueOf = g.valueOf /\ n.ptrOf = g.ptrOf /\ n.bad = g.bad
      /\ \A p \in Ptrs :
           /\ n.reg[p] = IF p \in S /\ CanPin(g.reg[p]) THEN PinnedEntry(g.reg[p]) ELSE g.reg[p]
           /\ p \in n.pinSet <=> p \in g.pinSet \/ (p \in S /\ CanPin(g.reg[p]))
           /\ p \in n.pinSet => n.pinVec[p] > 0 \/ (p \in g.pinSet /\ n.pinVec[p] = g.pinVec[p])
  BY PinFacts
<1>2. Backs(g, n)
  BY OperationsBack
<1>3. PICK f : f = g.reg[b]
  OBVIOUS
<1>4. f \in Entry /\ n.reg[b] = PinnedEntry(f) /\ b \in n.pinSet
  BY <1>1, <1>3, MemoryFields
<1>5. /\ IsOwnedPinned(PinnedEntry(f)) /\ IsOwnedCompat(PinnedEntry(f)) /\ PinnedEntry(f).life = "alive"
      /\ PinnedEntry(f).prov = "owned"
  BY <1>4 DEF IsOwnedPinned, IsOwnedCompat, PinnedEntry, Entry
<1>6. \A q \in Ptrs : q # b => /\ n.reg[q] = g.reg[q]
                               /\ q \in n.pinSet <=> q \in g.pinSet
                               /\ q \in n.pinSet => n.pinVec[q] > 0 \/ n.pinVec[q] = g.pinVec[q]
  BY <1>1
<1>7. b \notin g.pinSet => n.pinVec[b] > 0
  BY <1>1, <1>4
<1>8. /\ g.heap = s.heap /\ g.hdr = s.hdr /\ g.body = s.body
      /\ g.valueOf = s.valueOf /\ g.ptrOf = s.ptrOf /\ g.bad = s.bad
      /\ \A q \in Ptrs : q # b => /\ g.reg[q] = s.reg[q]
                                  /\ q \in g.pinSet <=> q \in s.pinSet
                                  /\ q \in g.pinSet => g.pinVec[q] > 0 \/ g.pinVec[q] = s.pinVec[q]
      /\ s.reg[b].life = "freed" /\ b \notin s.pinSet => b \notin g.pinSet
  BY DEF Entered
<1>9. \A q \in Ptrs : q # b => /\ n.reg[q] = s.reg[q]
                               /\ q \in n.pinSet <=> q \in s.pinSet
                               /\ q \in n.pinSet => n.pinVec[q] > 0 \/ n.pinVec[q] = s.pinVec[q]
  BY SMTT(40), <1>6, <1>8
<1>10. Entered(s, n, b, TRUE)
  BY <1>1, <1>4, <1>5, <1>7, <1>8, <1>9 DEF Entered, Pinned
<1>. QED  BY <1>2, <1>10

(* In either case it has an entry.                                          *)
LEMMA EnteredFacts ==
  ASSUME NEW s \in Memory, NEW b \in Ptrs, NEW pinned \in BOOLEAN, NEW n,
         n = PinnedIf(pinned, Register(s, {b}, "owned"), b)
  PROVE  Entered(s, n, b, pinned) /\ Backs(s, n)
<1>1. PICK S, g : S = {b} /\ g = Register(s, S, "owned")
  OBVIOUS
<1>2. S \in SUBSET Ptrs
  BY <1>1
<1>3. Entered(s, g, b, FALSE) /\ Backs(s, g) /\ CanPin(g.reg[b]) /\ g \in Memory
  BY <1>1, EnteredUnpinned
<1>4. CASE ~pinned
  BY <1>1, <1>3, <1>4 DEF PinnedIf
<1>5. CASE pinned
  <2>1. n = Pin(g, S)
    BY <1>1, <1>5 DEF PinnedIf
  <2>2. Entered(s, n, b, TRUE) /\ Backs(g, n)
    BY <1>1, <1>2, <1>3, <2>1, EnteredPinned
  <2>. QED  BY <1>3, <1>5, <2>2, BacksTransitive
<1>. QED  BY <1>4, <1>5

(* From the memory m to the memory n of a Grow.                             *)
Grown(m, n, p, old, b) ==
  n = PinnedIf(old # Null /\ IsPinned(m, old), Register(WithNew(WithoutOld(m, old), p, b), {b}, "owned"), b)

(* Grow is a step from memory to memory.                                    *)
LEMMA GrownTyped ==
  ASSUME NEW m \in Memory, NEW p \in Ptrs, NEW old \in PtrOrNull, NEW b \in Ptrs,
         NEW n, Grown(m, n, p, old, b)
  PROVE  n \in Memory /\ Backs(m, n)
<1>1. PICK r, s : r = WithoutOld(m, old) /\ s = WithNew(r, p, b)
  OBVIOUS
<1>2. r \in Memory /\ Backs(m, r)
  BY <1>1, WithoutOldFacts
<1>3. s \in Memory /\ s.reg = r.reg
  BY SMTT(40), <1>1, <1>2, WithNewFacts DEF Placed
<1>4. Backs(r, s)
  BY <1>3, SameEntriesBack
<1>5. n = PinnedIf(old # Null /\ IsPinned(m, old), Register(s, {b}, "owned"), b)
  BY <1>1 DEF Grown
<1>6. n \in Memory /\ Backs(s, n)
  <2>1. PICK pinned \in BOOLEAN : pinned <=> old # Null /\ IsPinned(m, old)
    OBVIOUS
  <2>2. n = PinnedIf(pinned, Register(s, {b}, "owned"), b)
    BY <1>5, <2>1
  <2>3. Entered(s, n, b, pinned) /\ Backs(s, n)
    BY <1>3, <2>2, EnteredFacts
  <2>. QED  BY <2>3 DEF Entered
<1>7. Backs(m, n)
  BY <1>2, <1>4, <1>6, BacksTransitive
<1>. QED  BY <1>6, <1>7

(* The buffer that Grow frees.                                              *)
OldBuffer(m, c, o, p) == IF c.bufs[o] # Null \/ Kind[o] = "list" THEN c.bufs[o] ELSE m.body[p].buf

GrowsBy(m, n, c, d, o, p, old, b) ==
  /\ p = c.ptrBy[o] /\ old = OldBuffer(m, c, o, p) /\ Buffered(c, d, o, b)
  /\ Grown(m, n, p, old, b)

(* What Grow asks for, and what it does besides.                            *)
LEMMA GrowGuards ==
  ASSUME NEW o \in Objs, NEW b \in Ptrs, Grow(o, b)
  PROVE  /\ Active /\ Top.ptrBy[o] # Null /\ Kind[o] \in {"list", "bytearray"}
         /\ mem.heap[Top.ptrBy[o]] = "ours" /\ b \in Free
         /\ SetTop(WithBuffer(Top, o, b)) /\ UNCHANGED <<ext, handed, owns, held, gone>>
BY Zenon DEF Grow, WithBuffer

(* Grow in these terms.                                                     *)
LEMMA GrowFacts ==
  ASSUME TypeInv, NEW o \in Objs, NEW b \in Ptrs, Grow(o, b)
  PROVE  \E p \in Ptrs, old \in PtrOrNull, d \in Context :
           GrowsBy(mem, mem', Top, d, o, p, old, b) /\ TopIs(ctxs, ctxs', d)
<1>1. PICK c, p, old : c = Top /\ p = c.ptrBy[o] /\ old = OldBuffer(mem, c, o, p)
  OBVIOUS
<1>2. ctxs \in Seq(Context) /\ ctxs # <<>> /\ c \in Context /\ mem \in Memory
  BY <1>1, ActiveFacts, GrowGuards
<1>3. p \in Ptrs
  BY <1>1, <1>2, ContextFields, GrowGuards DEF PtrOrNull
<1>4. old \in PtrOrNull /\ b \in PtrOrNull
  <2>1. c.bufs[o] \in PtrOrNull /\ mem.body[p].buf \in PtrOrNull
    BY <1>2, <1>3, ContextFields, MemoryFields DEF Body
  <2>. QED  BY <1>1, <2>1 DEF OldBuffer, PtrOrNull
<1>5. PICK d : d = WithBuffer(c, o, b)
  OBVIOUS
<1>6. Buffered(c, d, o, b)
  BY <1>2, <1>4, <1>5, BufferedFacts
<1>7. ctxs' = Append(Front(ctxs), d)
  BY <1>1, <1>5, GrowGuards DEF SetTop
<1>8. TopIs(ctxs, ctxs', d)
  BY ZenonT(40), <1>2, <1>6, <1>7, ReplaceTop DEF Buffered
<1>9. Grown(mem, mem', Top.ptrBy[o], OldBuffer(mem, Top, o, Top.ptrBy[o]), b)
  BY Zenon DEF Grow, Grown, PinnedIf, WithNew, WithoutOld, OldBuffer
<1>10. d \in Context
  BY <1>6 DEF Buffered
<1>. QED  BY <1>1, <1>3, <1>4, <1>6, <1>8, <1>9, <1>10 DEF GrowsBy

(* Its types.                                                               *)
LEMMA GrowType ==
  ASSUME TypeInv, NEW o \in Objs, NEW b \in Ptrs, Grow(o, b)
  PROVE  TypeInv'
<1>1. PICK p \in Ptrs, old \in PtrOrNull, d \in Context :
        GrowsBy(mem, mem', Top, d, o, p, old, b) /\ TopIs(ctxs, ctxs', d)
  BY GrowFacts
<1>2. PICK n : n = mem'
  OBVIOUS
<1>3. mem \in Memory
  BY DEF TypeInv
<1>4. Grown(mem, n, p, old, b)
  BY <1>1, <1>2 DEF GrowsBy
<1>5. n \in Memory /\ Backs(mem, n)
  BY <1>3, <1>4, GrownTyped
<1>6. ctxs' \in Seq(Context)
  BY <1>1 DEF TopIs
<1>. QED  BY ZenonT(40), <1>2, <1>5, <1>6, TypeNext DEF Grow, TypeInv

(* What a Grow does to the registry and the memory, for blocks of ours.     *)
LEMMA GrownOK ==
  ASSUME NEW m \in Memory, MemoryOK(m), NEW p \in Ptrs, NEW old \in PtrOrNull, NEW b \in Ptrs,
         NEW n, Grown(m, n, p, old, b),
         m.heap[p] = "ours", m.body[p].obj # Null, m.heap[b] = "free",
         old # Null => m.heap[old] = "ours" /\ m.body[old].obj = Null,
         NEW h, HeldOK(m, h), IsByteArray(m, p) => old = m.body[p].buf /\ old # Null
  PROVE  Moved(m, n, p, old, b) /\ MemoryOK(n) /\ HeldOK(n, h)
<1>1. PICK r, s : r = WithoutOld(m, old) /\ s = WithNew(r, p, b)
  OBVIOUS
<1>2. /\ r \in Memory
      /\ \A q \in Ptrs : q # old => /\ SameBlock(m, r, q) /\ r.hdr[q] = m.hdr[q] /\ r.reg[q] = m.reg[q]
                                    /\ Pinned(m, q) => Pinned(r, q)
      /\ old # Null => r.heap[old] = "free" /\ r.body[old].obj = Null /\ r.reg[old].prov = m.reg[old].prov
  BY <1>1, WithoutOldFacts
<1>3. /\ s \in Memory /\ s.hdr = r.hdr /\ s.reg = r.reg /\ s.pinSet = r.pinSet /\ s.pinVec = r.pinVec
      /\ s.valueOf = r.valueOf /\ s.ptrOf = r.ptrOf /\ s.bad = r.bad
      /\ \A q \in Ptrs : /\ s.heap[q] = IF q = b THEN "ours" ELSE r.heap[q]
                         /\ s.body[q].obj = r.body[q].obj
                         /\ q # p => s.body[q] = r.body[q]
      /\ s.body[p].buf = b
  <2>1. Placed(r, s, p, b)
    BY <1>1, <1>2, WithNewFacts
  <2>. QED  BY <2>1 DEF Placed
<1>4. /\ n.heap = s.heap /\ n.hdr = s.hdr /\ n.body = s.body
      /\ n.valueOf = s.valueOf /\ n.ptrOf = s.ptrOf /\ n.bad = s.bad
      /\ \A q \in Ptrs : q # b => /\ n.reg[q] = s.reg[q]
                                  /\ q \in n.pinSet <=> q \in s.pinSet
                                  /\ q \in n.pinSet => n.pinVec[q] > 0 \/ n.pinVec[q] = s.pinVec[q]
      /\ IsOwnedCompat(n.reg[b]) /\ n.reg[b].prov = "owned" /\ n.reg[b].life = "alive"
      /\ s.reg[b].life = "freed" /\ b \notin s.pinSet =>
           IF old # Null /\ IsPinned(m, old) THEN Pinned(n, b) /\ b \in n.pinSet /\ n.pinVec[b] > 0
           ELSE ~Pinned(n, b) /\ b \notin n.pinSet
  <2>1. PICK pinned \in BOOLEAN : pinned <=> old # Null /\ IsPinned(m, old)
    OBVIOUS
  <2>2. n = PinnedIf(pinned, Register(s, {b}, "owned"), b)
    BY <1>1, <2>1 DEF Grown
  <2>3. s \in Memory
    BY <1>3
  <2>4. Entered(s, n, b, pinned)
    BY <2>2, <2>3, EnteredFacts
  <2>. QED  BY <2>1, <2>4 DEF Entered
<1>5. b # p /\ b # old /\ p # old /\ p # Null /\ b # Null
  BY CapiAssumption
<1>6. AddressOK(m, b) /\ m.body[b].obj = Null /\ m.reg[b].life = "freed" /\ m.reg[b].pins = 0 /\ ~Pinned(m, b)
  <2>1. AddressOK(m, b)
    BY DEF MemoryOK
  <2>. QED  BY <2>1 DEF AddressOK, Pinned, IsOwnedPinned
<1>7. MemoryOK(r)
  <2>1. CASE old = Null
    BY <1>1, <2>1 DEF WithoutOld
  <2>2. CASE old # Null
    <3>1. PICK S : S = {old}
      OBVIOUS
    <3>2. S \in SUBSET Ptrs /\ r = Release(m, S) /\ \A q \in S : m.heap[q] = "ours" /\ m.body[q].obj = Null
      BY <1>1, <2>2, <3>1 DEF PtrOrNull, WithoutOld
    <3>. QED  BY <3>2, ReleaseOK
  <2>. QED  BY <2>1, <2>2
<1>8. s.reg[b].life = "freed" /\ b \notin s.pinSet
  <2>1. r.reg[b] = m.reg[b]
    BY <1>2, <1>5
  <2>2. AddressOK(r, b) /\ ~Pinned(r, b)
    BY <1>6, <1>7, <2>1 DEF MemoryOK, Pinned
  <2>. QED  BY <1>3, <1>6, <2>1, <2>2 DEF AddressOK
<1>9. ASSUME NEW q \in Ptrs, q # b PROVE AddressOK(n, q)
  <2>1. AddressOK(r, q)
    BY <1>7 DEF MemoryOK
  <2>2. n.heap[q] = r.heap[q] /\ n.body[q].obj = r.body[q].obj /\ n.reg[q] = r.reg[q] /\ n.valueOf[q] = r.valueOf[q]
    BY <1>3, <1>4, <1>9
  <2>3. /\ q \in n.pinSet <=> q \in r.pinSet
        /\ q \in n.pinSet => n.pinVec[q] > 0 \/ n.pinVec[q] = r.pinVec[q]
    BY <1>3, <1>4, <1>9
  <2>4. Pinned(n, q) <=> Pinned(r, q)
    BY <2>2 DEF Pinned
  <2>. QED  BY <2>1, <2>2, <2>3, <2>4 DEF AddressOK
<1>10. AddressOK(n, b)
  <2>1. n.heap[b] = "ours" /\ n.body[b].obj = Null /\ n.valueOf[b] = r.valueOf[b] /\ r.body[b].obj = Null
    BY <1>2, <1>3, <1>5, <1>4, <1>6 DEF SameBlock
  <2>2. AddressOK(r, b)
    BY <1>7 DEF MemoryOK
  <2>3. n.valueOf[b] \notin Objs
    BY <2>1, <2>2, CapiAssumption DEF AddressOK
  <2>4. (b \in n.pinSet <=> Pinned(n, b)) /\ (b \in n.pinSet => n.pinVec[b] > 0)
    BY <1>4, <1>8
  <2>. QED  BY <1>4, <2>1, <2>3, <2>4 DEF AddressOK
<1>11. MemoryOK(n)
  <2>1. \A x \in Objs : NameOK(n, x)
    <3>1. \A q \in Ptrs : n.body[q].obj = r.body[q].obj
      BY <1>3, <1>4
    <3>2. \A x \in Objs : n.ptrOf[x] = r.ptrOf[x] /\ (n.ptrOf[x] # Null => n.ptrOf[x] \in Ptrs)
      BY <1>2, <1>3, <1>4, MemoryFields DEF PtrOrNull
    <3>. QED  BY <1>7, <3>1, <3>2 DEF MemoryOK, NameOK
  <2>2. ~n.bad
    BY <1>3, <1>4, <1>7 DEF MemoryOK
  <2>. QED  BY <1>9, <1>10, <2>1, <2>2 DEF MemoryOK
<1>12. HeldOK(n, h)
  <2>1. ASSUME NEW q \in Ptrs PROVE h[q] = IF n.reg[q].prov = "external" THEN n.reg[q].pins ELSE 0
    <3>1. h[q] = IF m.reg[q].prov = "external" THEN m.reg[q].pins ELSE 0
      BY DEF HeldOK
    <3>2. CASE q = b
      BY <1>4, <1>6, <3>1, <3>2
    <3>3. CASE q # b /\ q # old
      <4>1. n.reg[q] = m.reg[q]
        BY <1>2, <1>3, <1>4, <3>3
      <4>. QED  BY <3>1, <4>1
    <3>4. CASE q = old
      <4>1. old # Null
        BY <3>4, CapiAssumption
      <4>2. m.reg[q].prov = "owned"
        BY <3>4, <4>1, OwnedFacts
      <4>3. n.reg[q].prov = "owned"
        BY <1>2, <1>3, <1>5, <1>4, <3>4, <4>1, <4>2
      <4>. QED  BY <3>1, <4>2, <4>3
    <3>. QED  BY <3>2, <3>3, <3>4
  <2>. QED  BY <2>1 DEF HeldOK
<1>13. Moved(m, n, p, old, b)
  <2>1. n.heap[b] = "ours" /\ n.body[b].obj = Null
    BY <1>2, <1>3, <1>5, <1>4, <1>6 DEF SameBlock
  <2>2. n.heap[p] = "ours" /\ n.body[p].obj = m.body[p].obj /\ n.body[p].buf = b /\ n.hdr[p] = m.hdr[p]
    BY <1>2, <1>3, <1>5, <1>4 DEF SameBlock
  <2>3. ASSUME old # Null PROVE n.heap[old] = "free" /\ n.body[old].obj = Null /\ m.body[old].obj = Null
    <3>1. old \in Ptrs
      BY <2>3 DEF PtrOrNull
    <3>. QED  BY <1>2, <1>3, <1>5, <1>4, <2>3, <3>1
  <2>4. ASSUME NEW q \in Ptrs, Pinned(m, q), q # old PROVE Pinned(n, q)
    <3>1. Pinned(r, q) /\ q # b
      BY <1>2, <1>6, <2>4
    <3>2. n.reg[q] = r.reg[q]
      BY <1>3, <1>4, <3>1
    <3>. QED  BY <3>1, <3>2 DEF Pinned
  <2>5. ASSUME NEW q \in Ptrs, q # p /\ q # old /\ q # b PROVE SameBlock(m, n, q) /\ n.hdr[q] = m.hdr[q]
    BY <1>2, <1>3, <1>4, <2>5 DEF SameBlock
  <2>6. ASSUME IsByteArray(m, p), Pinned(m, m.body[p].buf) PROVE Pinned(n, b)
    <3>1. old = m.body[p].buf /\ old # Null
      BY <2>6
    <3>2. IsPinned(m, old)
      BY <2>6, <3>1 DEF IsPinned, Pinned
    <3>. QED  BY <1>4, <1>8, <3>1, <3>2
  <2>. QED  BY <1>5, <1>6, <2>1, <2>2, <2>3, <2>4, <2>5, <2>6 DEF Moved
<1>. QED  BY <1>11, <1>12, <1>13

(* The old buffer was the context's or its block's alone, so nothing else   *)
(* loses it.                                                                *)
LEMMA GrowLive ==
  ASSUME TypeInv, Live, NEW o \in Objs, NEW b \in Ptrs, Grow(o, b)
  PROVE  Live'
<1>1. PICK p \in Ptrs, old \in PtrOrNull, d \in Context :
        GrowsBy(mem, mem', Top, d, o, p, old, b) /\ TopIs(ctxs, ctxs', d)
  BY GrowFacts
<1>2. PICK c, n : c = Top /\ n = mem'
  OBVIOUS
<1>3. ctxs \in Seq(Context) /\ ctxs # <<>> /\ c \in Context /\ c = Last(ctxs) /\ mem \in Memory
  BY <1>2, ActiveFacts, GrowGuards
<1>4. /\ MemoryOK(mem) /\ ContextsOK(ext, mem, ctxs) /\ BytesOK(ext, mem, ctxs) /\ HeldOK(mem, held)
  BY DEF Live
<1>5. /\ ShapeOK(ext, c) /\ KnownOK(mem, c) /\ Len(ctxs) \in DOMAIN ctxs /\ c = ctxs[Len(ctxs)]
  BY <1>3, <1>4, TopFacts DEF ContextsOK
<1>6. c.ptrBy[o] = p /\ old = OldBuffer(mem, c, o, p) /\ Grown(mem, n, p, old, b) /\ Buffered(c, d, o, b)
  BY <1>1, <1>2 DEF GrowsBy
<1>7. Kind[o] \in {"list", "bytearray"} /\ mem.heap[p] = "ours" /\ mem.heap[b] = "free"
  BY <1>2, <1>6, GrowGuards DEF Free
<1>8. p # Null /\ b # Null /\ o # Null
  BY CapiAssumption
<1>9. c.objBy[p] = o /\ mem.body[p].obj = o
  BY <1>5, <1>6, <1>8 DEF ShapeOK, KnownOK
<1>10. PICK a : a = mem.body[p].buf
  OBVIOUS
<1>11. Kind[o] = "bytearray" =>
         /\ IsByteArray(mem, p) /\ ~ext.across /\ a # Null /\ mem.heap[a] = "ours" /\ mem.body[a].obj = Null
         /\ \A i \in DOMAIN ctxs : \A y \in Objs : ctxs[i].bufs[y] = a => y = o /\ ctxs[i].ptrBy[o] = p
         /\ c.bufs[o] \in {Null, a}
  <2>1. SUFFICES ASSUME Kind[o] = "bytearray"
                 PROVE  /\ IsByteArray(mem, p) /\ ~ext.across /\ a # Null /\ mem.heap[a] = "ours" /\ mem.body[a].obj = Null
                        /\ \A i \in DOMAIN ctxs : \A y \in Objs : ctxs[i].bufs[y] = a => y = o /\ ctxs[i].ptrBy[o] = p
                        /\ c.bufs[o] \in {Null, a}
    OBVIOUS
  <2>2. IsByteArray(mem, p)
    BY <1>8, <1>9, <2>1 DEF IsByteArray
  <2>3. ByteOK(ext, mem, ctxs, p)
    BY <1>4, <2>2 DEF BytesOK
  <2>4. /\ ~ext.across /\ a # Null /\ mem.heap[a] = "ours" /\ mem.body[a].obj = Null
        /\ \A i \in DOMAIN ctxs : \A y \in Objs : ctxs[i].bufs[y] = a => y = o /\ ctxs[i].ptrBy[o] = p
        /\ \A i \in DOMAIN ctxs : ctxs[i].ptrBy[o] = p => ctxs[i].bufs[o] \in {Null, a}
    BY <1>9, <1>10, <2>3 DEF ByteOK
  <2>. QED  BY <1>5, <1>6, <2>2, <2>4
<1>12. \/ c.bufs[o] # Null /\ old = c.bufs[o]
       \/ c.bufs[o] = Null /\ Kind[o] = "list" /\ old = Null
       \/ c.bufs[o] = Null /\ Kind[o] = "bytearray" /\ old = a
  BY <1>6, <1>7, <1>10 DEF OldBuffer
<1>13. old # Null => mem.heap[old] = "ours" /\ mem.body[old].obj = Null
  BY <1>5, <1>11, <1>12 DEF KnownOK
<1>14. IsByteArray(mem, p) => old = mem.body[p].buf /\ old # Null
  BY <1>9, <1>10, <1>11, <1>12 DEF IsByteArray
<1>15. Moved(mem, n, p, old, b) /\ MemoryOK(n) /\ HeldOK(n, held)
  BY <1>3, <1>4, <1>6, <1>7, <1>8, <1>9, <1>13, <1>14, GrownOK
<1>16. \A i \in DOMAIN ctxs : \A y \in Objs : ctxs[i].bufs[y] # b
  BY <1>4, <1>7, <1>8 DEF ContextsOK, KnownOK
<1>17. ASSUME NEW i \in DOMAIN ctxs, NEW y \in Objs, ctxs[i].bufs[y] = old, old # Null
       PROVE  i = Len(ctxs) /\ y = o
  <2>1. CASE c.bufs[o] # Null /\ old = c.bufs[o]
    <3>1. i = Len(ctxs)
      <4>1. SUFFICES ASSUME i # Len(ctxs) PROVE FALSE
        OBVIOUS
      <4>2. i < Len(ctxs)
        BY <1>3, <4>1, TopFacts
      <4>3. ApartOK(ext, ctxs[i], c)
        BY <1>4, <1>5, <4>2 DEF ContextsOK
      <4>. QED  BY <1>17, <2>1, <4>3 DEF ApartOK
    <3>. QED  BY <1>5, <1>17, <2>1, <3>1 DEF ShapeOK
  <2>2. CASE Kind[o] = "bytearray" /\ old = a
    <3>1. y = o /\ ctxs[i].ptrBy[o] = p
      BY <1>11, <1>17, <2>2
    <3>2. i = Len(ctxs)
      BY <1>3, <1>4, <1>8, <1>9, <1>11, <2>2, <3>1, TopOnly
    <3>. QED  BY <3>1, <3>2
  <2>. QED  BY <1>12, <1>17, <2>1, <2>2
<1>18. ASSUME NEW q \in Ptrs, q # p, IsByteArray(mem, q)
       PROVE  mem.body[q].buf # b /\ mem.body[q].buf # old
  <2>1. PICK e, y : e = mem.body[q].buf /\ y = mem.body[q].obj
    OBVIOUS
  <2>2. ByteOK(ext, mem, ctxs, q)
    BY <1>4, <1>18 DEF BytesOK
  <2>3. /\ e # Null /\ mem.heap[e] = "ours"
        /\ \A i \in DOMAIN ctxs : \A z \in Objs : ctxs[i].bufs[z] = e => z = y /\ ctxs[i].ptrBy[y] = q
    BY <2>1, <2>2 DEF ByteOK
  <2>4. e # c.bufs[o]
    BY <1>5, <1>6, <1>18, <2>3
  <2>5. Kind[o] = "bytearray" => e # a
    BY <1>4, <1>10, <1>11, <1>18, <2>1 DEF BytesOK
  <2>. QED  BY <1>7, <1>12, <2>1, <2>3, <2>4, <2>5
<1>19. Unshared(mem, ctxs, p, o, old, b)
  BY SMTT(60), <1>3, <1>12, <1>16, <1>17, <1>18 DEF Unshared
<1>20. UNCHANGED <<ext, handed, owns, held>> /\ Active
  BY DEF Grow
<1>21. Top.ptrBy[o] = p /\ Buffered(Top, d, o, b) /\ Moved(mem, mem', p, old, b) /\ MemoryOK(mem') /\ HeldOK(mem', held)
  BY <1>2, <1>6, <1>15
<1>. QED  BY <1>1, <1>9, <1>19, <1>20, <1>21, MovedStep

-----------------------------------------------------------------------------
(* An object's pointer is asked for                                         *)

(* A sequence of a finite set names each of its members once.               *)
LEMMA SetToSeqProperties ==
  ASSUME NEW S, IsFiniteSet(S)
  PROVE  \E n \in Nat : /\ SetToSeq(S) \in [1 .. n -> S]
                        /\ \A i, j \in 1 .. n : SetToSeq(S)[i] = SetToSeq(S)[j] => i = j
                        /\ \A x \in S : \E i \in 1 .. n : SetToSeq(S)[i] = x
<1>. DEFINE n == Cardinality(S)
            f == SetToSeq(S)
<1>1. n \in Nat /\ ExistsBijection(1 .. n, S)
  BY FS_CardinalityType
<1>2. \E g \in [1 .. n -> S] : IsInjective(g)
  BY <1>1 DEF ExistsBijection, Bijection, Injection
<1>3. f \in [1 .. n -> S] /\ IsInjective(f)
  BY <1>2 DEF SetToSeq
<1>. HIDE DEF f
<1>4. \A i, j \in 1 .. n : f[i] = f[j] => i = j
  BY <1>3 DEF IsInjective
<1>5. ASSUME NEW x \in S PROVE \E i \in 1 .. n : f[i] = x
  <2>1. SUFFICES ASSUME \A i \in 1 .. n : f[i] # x PROVE FALSE
    OBVIOUS
  <2>2. f \in [1 .. n -> S \ {x}]
    BY <1>3, <2>1
  <2>3. IsFiniteSet(S \ {x}) /\ Cardinality(S \ {x}) = n - 1
    BY FS_RemoveElement
  <2>4. IsFiniteSet(1 .. n) /\ Cardinality(1 .. n) = n
    <3>. HIDE DEF n
    <3>1. IsFiniteSet(1 .. n) /\ Cardinality(1 .. n) = IF 1 > n THEN 0 ELSE n - 1 + 1
      BY <1>1, FS_Interval
    <3>. QED  BY <1>1, <3>1
  <2>5. Cardinality(S \ {x}) < Cardinality(1 .. n)
    <3>. HIDE DEF n
    <3>. QED  BY <1>1, <2>3, <2>4
  <2>6. \E i, j \in 1 .. n : i # j /\ f[i] = f[j]
    <3>. DEFINE D == 1 .. n
                T == S \ {x}
    <3>1. /\ f \in [D -> T] /\ IsFiniteSet(D) /\ IsFiniteSet(T)
          /\ Cardinality(T) < Cardinality(D)
      BY <2>2, <2>3, <2>4, <2>5
    <3>. HIDE DEF D, T, n
    <3>2. \E i, j \in D : i # j /\ f[i] = f[j]
      BY <3>1, FS_PigeonHole
    <3>. QED  BY <3>2 DEF D
  <2>. QED  BY <1>4, <2>6
<1>. HIDE DEF n
<1>. QED  BY <1>1, <1>3, <1>4, <1>5 DEF f

(* s names each member of S once.                                           *)
Lists(s, S) ==
  /\ s \in Seq(S)
  /\ \A i, j \in DOMAIN s : s[i] = s[j] => i = j
  /\ \A x \in S : \E i \in DOMAIN s : s[i] = x

(* The order in which Give appends the new blocks.                          *)
GiveOrder(o, N) == IF o \in N THEN Append(SetToSeq(N \ {o}), o) ELSE <<>>

(* It lists the new blocks once each, the object's last.                    *)
LEMMA GiveOrderFacts ==
  ASSUME NEW o, NEW N, IsFiniteSet(N), o \in N \/ N = {}
  PROVE  Lists(GiveOrder(o, N), N)
<1>1. CASE o \notin N
  <2>1. GiveOrder(o, N) = <<>> /\ N = {}
    BY <1>1 DEF GiveOrder
  <2>. QED  BY <2>1 DEF Lists
<1>2. CASE o \in N
  <2>1. PICK S, s : S = N \ {o} /\ s = SetToSeq(S)
    OBVIOUS
  <2>2. IsFiniteSet(S)
    <3>1. IsFiniteSet(N \ {o})
      BY FS_RemoveElement
    <3>. QED  BY <2>1, <3>1
  <2>3. PICK n \in Nat : /\ s \in [1 .. n -> S]
                         /\ \A i, j \in 1 .. n : s[i] = s[j] => i = j
                         /\ \A x \in S : \E i \in 1 .. n : s[i] = x
    <3>1. \E n \in Nat : /\ SetToSeq(S) \in [1 .. n -> S]
                         /\ \A i, j \in 1 .. n : SetToSeq(S)[i] = SetToSeq(S)[j] => i = j
                         /\ \A x \in S : \E i \in 1 .. n : SetToSeq(S)[i] = x
      BY <2>2, SetToSeqProperties
    <3>. QED  BY ZenonT(40), <2>1, <3>1
  <2>4. s \in Seq(N) /\ Len(s) = n /\ S \subseteq N /\ o \notin S
    <3>1. S \subseteq N /\ o \notin S
      BY <2>1
    <3>2. s \in [1 .. n -> N]
      BY <2>3, <3>1
    <3>3. s \in Seq(N) /\ Len(s) = n
      BY <3>2
    <3>. QED  BY <3>1, <3>3
  <2>5. PICK t : t = Append(s, o)
    OBVIOUS
  <2>6. /\ t \in Seq(N) /\ Len(t) = n + 1 /\ DOMAIN t = 1 .. (n + 1) /\ t[n + 1] = o
        /\ \A i \in 1 .. n : t[i] = s[i]
    BY <1>2, <2>4, <2>5, AppendProperties
  <2>7. \A i \in DOMAIN t : i \in 1 .. n \/ i = n + 1
    BY <2>6
  <2>8. \A i \in 1 .. n : t[i] \in S /\ t[i] # o
    BY <2>3, <2>4, <2>6
  <2>9. \A i, j \in DOMAIN t : t[i] = t[j] => i = j
    BY <2>3, <2>6, <2>7, <2>8
  <2>10. ASSUME NEW x \in N PROVE \E i \in DOMAIN t : t[i] = x
    <3>1. CASE x = o
      BY <2>6, <3>1
    <3>2. CASE x # o
      <4>1. PICK i \in 1 .. n : s[i] = x
        BY <2>1, <2>3, <3>2
      <4>. QED  BY <2>6, <4>1
    <3>. QED  BY <3>1, <3>2
  <2>11. GiveOrder(o, N) = t
    BY <1>2, <2>1, <2>5 DEF GiveOrder
  <2>. QED  BY <2>6, <2>9, <2>10, <2>11 DEF Lists
<1>. QED  BY <1>1, <1>2

(* The addresses of f, and the object that is at one of them.               *)
Used(f, N) == {f[x] : x \in N}

At(f, N, p) == CHOOSE x \in N : f[x] = p

(* Addresses and objects of new blocks correspond.                          *)
LEMMA AtFacts ==
  ASSUME NEW N, NEW f, \A x, y \in N : f[x] = f[y] => x = y
  PROVE  /\ \A x \in N : f[x] \in Used(f, N) /\ At(f, N, f[x]) = x
         /\ \A p \in Used(f, N) : At(f, N, p) \in N /\ f[At(f, N, p)] = p
<1>1. \A x \in N : f[x] \in Used(f, N)
  BY DEF Used
<1>2. ASSUME NEW p \in Used(f, N) PROVE At(f, N, p) \in N /\ f[At(f, N, p)] = p
  <2>1. \E x \in N : f[x] = p
    BY <1>2 DEF Used
  <2>. QED  BY <2>1 DEF At
<1>. QED  BY <1>1, <1>2

(* What Give does to the memory and to the context, its sets named.         *)
GiveBody(c, f, b, o, x) ==
  [obj |-> x, items |-> {PtrFor(c, f, y) : y \in ItemSet(x)}, buf |-> IF x = o THEN b ELSE Null]

GiveValue(m, A, p) ==
  IF \E x \in A : Reusable(m, x) /\ m.ptrOf[x] = p
  THEN CHOOSE x \in A : Reusable(m, x) /\ m.ptrOf[x] = p ELSE m.valueOf[p]

GiveMemory(m, c, o, f, b, A, N) ==
  [m EXCEPT
     !.heap = [p \in Ptrs |-> IF p \in Used(f, N) \cup ({b} \ {Null}) THEN "ours" ELSE m.heap[p]],
     !.hdr = [p \in Ptrs |-> IF p \in Used(f, N) THEN c.slot[At(f, N, p)] + 1 ELSE m.hdr[p]],
     !.body = [p \in Ptrs |-> IF p \in Used(f, N) THEN GiveBody(c, f, b, o, At(f, N, p)) ELSE m.body[p]],
     !.reg = [p \in Ptrs |-> IF p \in Used(f, N) THEN Registered(m.reg[p], "owned", At(f, N, p))
                             ELSE IF p \in {b} \ {Null} THEN Registered(m.reg[p], "owned", Null) ELSE m.reg[p]],
     !.valueOf = [p \in Ptrs |-> IF p \in Used(f, N) THEN At(f, N, p) ELSE GiveValue(m, A, p)],
     !.ptrOf = [x \in Objs |-> IF x \in N THEN f[x]
                               ELSE IF x \in {y \in A : ~Reusable(m, y)} THEN Null ELSE m.ptrOf[x]]]

GiveContext(m, c, o, f, b, A, N) ==
  [c EXCEPT
     !.allocs = c.allocs \o [i \in DOMAIN GiveOrder(o, N) |-> f[GiveOrder(o, N)[i]]],
     !.objBy = [p \in Ptrs |-> IF p \in Used(f, N) THEN At(f, N, p) ELSE c.objBy[p]],
     !.ptrBy = [x \in Objs |-> IF x \in N THEN f[x] ELSE c.ptrBy[x]],
     !.slot = [x \in Objs |-> IF x \in {y \in A : ~Reusable(m, y)} THEN c.slot[x] + 1 ELSE c.slot[x]],
     !.bufs = [x \in Objs |-> IF x = o /\ b # Null THEN b ELSE c.bufs[x]]]

New(c, o) == {x \in Asked(c, o) : Fresh(c, x)}

(* Give is these two updates.                                               *)
LEMMA GiveStep ==
  ASSUME NEW o, NEW f, NEW b, TypeInv, Give(o, f, b)
  PROVE  /\ mem' = GiveMemory(mem, Top, o, f, b, Asked(Top, o), New(Top, o))
         /\ ctxs' = Append(Front(ctxs), GiveContext(mem, Top, o, f, b, Asked(Top, o), New(Top, o)))
<1>1. mem' = GiveMemory(mem, Top, o, f, b, Asked(Top, o), New(Top, o))
  BY Zenon DEF Give, GiveMemory, GiveBody, GiveValue, New, Used, At
<1>2. ctxs' = Append(Front(ctxs), GiveContext(mem, Top, o, f, b, Asked(Top, o), New(Top, o)))
  BY Zenon DEF Give, GiveContext, GiveOrder, New, Used, At, SetTop
<1>. QED  BY <1>1, <1>2

(* The new blocks of N and their buffer b, if there is one.                 *)
Blocks(N, f, b) ==
  /\ N \subseteq Objs /\ f \in [N -> Ptrs] /\ b \in PtrOrNull /\ b \notin Used(f, N)
  /\ \A x, y \in N : f[x] = f[y] => x = y

(* What they leave alone in the memory, and what they hold.                 *)
GivenElsewhere(m, n, N, f, b) ==
  /\ n.pinSet = m.pinSet /\ n.pinVec = m.pinVec /\ n.bad = m.bad
  /\ \A p \in Ptrs : p \notin Used(f, N) /\ p # b =>
       n.heap[p] = m.heap[p] /\ n.hdr[p] = m.hdr[p] /\ n.body[p] = m.body[p] /\ n.reg[p] = m.reg[p]

GivenBlock(m, n, c, f, o, b, x) ==
  /\ n.heap[f[x]] = "ours" /\ n.hdr[f[x]] = c.slot[x] + 1
  /\ n.body[f[x]].obj = x /\ n.body[f[x]].buf = (IF x = o THEN b ELSE Null)
  /\ n.reg[f[x]] = Registered(m.reg[f[x]], "owned", x)
  /\ n.valueOf[f[x]] = x /\ n.ptrOf[x] = f[x]

GivenBuffer(m, n, b) ==
  b # Null => /\ n.heap[b] = "ours" /\ n.hdr[b] = m.hdr[b] /\ n.body[b] = m.body[b]
              /\ n.reg[b] = Registered(m.reg[b], "owned", Null)

GivenNames(m, n, N, f) ==
  /\ \A p \in Ptrs : p \notin Used(f, N) =>
       \/ n.valueOf[p] = m.valueOf[p]
       \/ \E x \in Objs : Reusable(m, x) /\ m.ptrOf[x] = p /\ n.valueOf[p] = x
  /\ \A x \in Objs : x \notin N => n.ptrOf[x] = m.ptrOf[x] \/ n.ptrOf[x] = Null

GivenMemory(m, n, c, N, f, o, b) ==
  /\ GivenElsewhere(m, n, N, f, b) /\ GivenBuffer(m, n, b) /\ GivenNames(m, n, N, f)
  /\ \A x \in N : GivenBlock(m, n, c, f, o, b, x)

(* A new block's content is of its type.                                    *)
LEMMA GiveBodyFacts ==
  ASSUME mem \in Memory, NEW c \in Context, NEW N, NEW f, NEW b, Blocks(N, f, b), NEW o, NEW x \in Objs
  PROVE  /\ GiveBody(c, f, b, o, x) \in Body
         /\ GiveBody(c, f, b, o, x).obj = x
         /\ GiveBody(c, f, b, o, x).buf = (IF x = o THEN b ELSE Null)
<1>1. \A y \in Objs : PtrFor(c, f, y) \in PtrOrNull
  BY MemoryFields, ContextFields DEF PtrFor, Blocks, PtrOrNull
<1>2. \A y \in ItemSet(x) : y \in Objs
  <2>1. Items[x] \in Seq(Objs)
    BY CapiAssumption
  <2>. QED  BY <2>1 DEF ItemSet
<1>3. {PtrFor(c, f, y) : y \in ItemSet(x)} \in SUBSET PtrOrNull
  BY <1>1, <1>2
<1>4. x \in ObjOrNull /\ b \in PtrOrNull /\ Null \in PtrOrNull
  BY DEF ObjOrNull, Blocks, PtrOrNull
<1>. QED  BY <1>3, <1>4 DEF GiveBody, Body

(* What the VM's table says of an address: a block named by the other       *)
(* table, or as before.                                                     *)
LEMMA GiveValueFacts ==
  ASSUME NEW m \in Memory, NEW A \in SUBSET Objs, NEW p \in Ptrs
  PROVE  /\ GiveValue(m, A, p) \in ObjOrNull \cup {Proxied}
         /\ \/ GiveValue(m, A, p) = m.valueOf[p]
            \/ \E x \in Objs : Reusable(m, x) /\ m.ptrOf[x] = p /\ GiveValue(m, A, p) = x
<1>1. CASE \E x \in A : Reusable(m, x) /\ m.ptrOf[x] = p
  <2>1. PICK v : v = GiveValue(m, A, p)
    OBVIOUS
  <2>2. v \in A /\ Reusable(m, v) /\ m.ptrOf[v] = p
    BY <1>1, <2>1 DEF GiveValue
  <2>. QED  BY <2>1, <2>2 DEF ObjOrNull
<1>2. CASE ~ \E x \in A : Reusable(m, x) /\ m.ptrOf[x] = p
  <2>1. GiveValue(m, A, p) = m.valueOf[p]
    BY <1>2 DEF GiveValue
  <2>. QED  BY <2>1, MemoryFields
<1>. QED  BY <1>1, <1>2

(* GiveMemory has the parts that GivenMemory names.                         *)
LEMMA GiveMemoryFacts ==
  ASSUME mem \in Memory, NEW c \in Context, NEW N, NEW f, NEW b, Blocks(N, f, b), NEW o,
         NEW A \in SUBSET Objs, NEW n, n = GiveMemory(mem, c, o, f, b, A, N)
  PROVE  n \in Memory /\ GivenMemory(mem, n, c, N, f, o, b)
<1>. DEFINE U == Used(f, N)
            at(p) == At(f, N, p)
            body(x) == GiveBody(c, f, b, o, x)
            heap == [p \in Ptrs |-> IF p \in U \cup ({b} \ {Null}) THEN "ours" ELSE mem.heap[p]]
            hdr == [p \in Ptrs |-> IF p \in U THEN c.slot[at(p)] + 1 ELSE mem.hdr[p]]
            bodies == [p \in Ptrs |-> IF p \in U THEN body(at(p)) ELSE mem.body[p]]
            reg == [p \in Ptrs |-> IF p \in U THEN Registered(mem.reg[p], "owned", at(p))
                             ELSE IF p \in {b} \ {Null} THEN Registered(mem.reg[p], "owned", Null) ELSE mem.reg[p]]
            value(p) == GiveValue(mem, A, p)
            values == [p \in Ptrs |-> IF p \in U THEN at(p) ELSE value(p)]
            ptrs == [x \in Objs |-> IF x \in N THEN f[x]
                               ELSE IF x \in {y \in A : ~Reusable(mem, y)} THEN Null ELSE mem.ptrOf[x]]
<1>1. n = [mem EXCEPT !.heap = heap, !.hdr = hdr, !.body = bodies, !.reg = reg, !.valueOf = values, !.ptrOf = ptrs]
  BY Zenon DEF GiveMemory
<1>2. N \subseteq Objs /\ f \in [N -> Ptrs] /\ b \in PtrOrNull /\ b \notin U /\ U \subseteq Ptrs
  BY DEF Blocks, Used
<1>3. /\ \A x \in N : f[x] \in U /\ at(f[x]) = x /\ f[x] \in Ptrs
      /\ \A p \in U : at(p) \in N /\ at(p) \in Objs /\ f[at(p)] = p
  <2>1. \A x, y \in N : f[x] = f[y] => x = y
    BY DEF Blocks
  <2>2. /\ \A x \in N : f[x] \in U /\ at(f[x]) = x
        /\ \A p \in U : at(p) \in N /\ f[at(p)] = p
    BY <2>1, AtFacts
  <2>. QED  BY <1>2, <2>2
<1>. HIDE DEF U, at
<1>4. \A x \in Objs : body(x) \in Body /\ body(x).obj = x /\ body(x).buf = (IF x = o THEN b ELSE Null)
  BY GiveBodyFacts
<1>5. \A p \in Ptrs : /\ value(p) \in ObjOrNull \cup {Proxied}
                      /\ \/ value(p) = mem.valueOf[p]
                         \/ \E x \in Objs : Reusable(mem, x) /\ mem.ptrOf[x] = p /\ value(p) = x
  BY GiveValueFacts
<1>. HIDE DEF body, value
<1>6. heap \in [Ptrs -> {"free", "ours", "theirs"}] /\ hdr \in [Ptrs -> Nat] /\ bodies \in [Ptrs -> Body]
  <2>1. \A p \in Ptrs : mem.heap[p] \in {"free", "ours", "theirs"} /\ mem.hdr[p] \in Nat /\ mem.body[p] \in Body
    BY MemoryFields
  <2>2. \A x \in Objs : c.slot[x] + 1 \in Nat
    BY ContextFields
  <2>3. hdr \in [Ptrs -> Nat]
    BY <1>3, <2>1, <2>2
  <2>4. bodies \in [Ptrs -> Body]
    BY <1>3, <1>4, <2>1
  <2>. QED  BY <2>1, <2>3, <2>4
<1>7. reg \in [Ptrs -> Entry] /\ values \in [Ptrs -> ObjOrNull \cup {Proxied}] /\ ptrs \in [Objs -> PtrOrNull]
  <2>1. \A e \in Entry, x \in ObjOrNull : Registered(e, "owned", x) \in Entry
    BY DEF Registered, Entry
  <2>2. \A p \in Ptrs : mem.reg[p] \in Entry /\ mem.valueOf[p] \in ObjOrNull \cup {Proxied}
    BY MemoryFields
  <2>3. \A x \in Objs : mem.ptrOf[x] \in PtrOrNull
    BY MemoryFields
  <2>4. Null \in ObjOrNull /\ Null \in PtrOrNull /\ (\A x \in Objs : x \in ObjOrNull) /\ (\A p \in Ptrs : p \in PtrOrNull)
    BY DEF ObjOrNull, PtrOrNull
  <2>5. reg \in [Ptrs -> Entry]
    BY <1>3, <2>1, <2>2, <2>4
  <2>6. values \in [Ptrs -> ObjOrNull \cup {Proxied}]
    BY <1>3, <1>5, <2>2, <2>4
  <2>7. ptrs \in [Objs -> PtrOrNull]
    BY <1>3, <2>3, <2>4
  <2>. QED  BY <2>5, <2>6, <2>7
<1>8. /\ n \in Memory
      /\ n.heap = heap /\ n.hdr = hdr /\ n.body = bodies /\ n.reg = reg /\ n.valueOf = values /\ n.ptrOf = ptrs
      /\ n.pinSet = mem.pinSet /\ n.pinVec = mem.pinVec /\ n.bad = mem.bad
  <2>. HIDE DEF heap, hdr, bodies, reg, values, ptrs
  <2>. QED  BY <1>1, <1>6, <1>7 DEF Memory
<1>9. GivenElsewhere(mem, n, N, f, b)
  BY <1>8 DEF GivenElsewhere, U
<1>10. GivenBuffer(mem, n, b)
  BY <1>2, <1>8 DEF GivenBuffer, PtrOrNull
<1>11. GivenNames(mem, n, N, f)
  BY <1>5, <1>8 DEF GivenNames, U
<1>12. ASSUME NEW x \in N PROVE GivenBlock(mem, n, c, f, o, b, x)
  <2>1. f[x] \in Ptrs /\ f[x] \in U /\ at(f[x]) = x /\ x \in Objs
    BY <1>2, <1>3
  <2>2. n.heap[f[x]] = "ours" /\ n.hdr[f[x]] = c.slot[x] + 1 /\ n.body[f[x]] = body(x)
    BY <1>8, <2>1
  <2>3. n.reg[f[x]] = Registered(mem.reg[f[x]], "owned", x) /\ n.valueOf[f[x]] = x /\ n.ptrOf[x] = f[x]
    BY <1>8, <2>1
  <2>. QED  BY <1>4, <2>1, <2>2, <2>3 DEF GivenBlock
<1>. QED  BY <1>8, <1>9, <1>10, <1>11, <1>12 DEF GivenMemory

(* The allocations of a context are a list of addresses without repetition. *)
Distinct(s) == \A i, j \in DOMAIN s : s[i] = s[j] => i = j

Followed(s, r, f) == s \o [i \in DOMAIN r |-> f[r[i]]]

Listed(s) == {s[k] : k \in DOMAIN s}

Lengthened(s, t, U) ==
  /\ t \in Seq(Ptrs) /\ Listed(t) = Listed(s) \cup U
  /\ Distinct(s) /\ Listed(s) \cap U = {} => Distinct(t)

(* A longer list of allocations without repetition.                         *)
LEMMA MoreAllocs ==
  ASSUME NEW s \in Seq(Ptrs), NEW N, NEW f, NEW b, Blocks(N, f, b), NEW r, Lists(r, N),
         NEW t, t = Followed(s, r, f)
  PROVE  Lengthened(s, t, Used(f, N))
<1>1. PICK u : u = [i \in DOMAIN r |-> f[r[i]]]
  OBVIOUS
<1>2. /\ f \in [N -> Ptrs] /\ r \in Seq(N)
      /\ \A i, j \in DOMAIN r : r[i] = r[j] => i = j
      /\ \A x \in N : \E i \in DOMAIN r : r[i] = x
      /\ \A x, y \in N : f[x] = f[y] => x = y
  BY DEF Blocks, Lists
<1>3. PICK k, n : k = Len(s) /\ n = Len(r)
  OBVIOUS
<1>4. k \in Nat /\ n \in Nat /\ DOMAIN s = 1 .. k /\ DOMAIN r = 1 .. n /\ \A i \in 1 .. n : r[i] \in N
  BY <1>2, <1>3
<1>5. u \in [1 .. n -> Ptrs] /\ \A i \in 1 .. n : u[i] = f[r[i]] /\ u[i] \in Used(f, N)
  BY <1>1, <1>2, <1>4 DEF Used
<1>6. u \in Seq(Ptrs) /\ Len(u) = n /\ t = s \o u
  BY <1>1, <1>4, <1>5 DEF Followed
<1>7. /\ t \in Seq(Ptrs) /\ DOMAIN t = 1 .. (k + n)
      /\ \A i \in 1 .. k : t[i] = s[i]
      /\ \A i \in (k + 1) .. (k + n) : t[i] = u[i - k]
  <2>1. PICK v : v = s \o u
    OBVIOUS
  <2>2. /\ v \in Seq(Ptrs) /\ Len(v) = k + n
        /\ \A i \in 1 .. (k + n) : v[i] = IF i <= k THEN s[i] ELSE u[i - k]
    <3>1. /\ s \o u \in Seq(Ptrs) /\ Len(s \o u) = Len(s) + Len(u)
          /\ \A i \in 1 .. Len(s) + Len(u) : (s \o u)[i] = IF i <= Len(s) THEN s[i] ELSE u[i - Len(s)]
      BY <1>6, ConcatProperties
    <3>. QED  BY <1>3, <1>6, <2>1, <3>1
  <2>3. \A i \in 1 .. k : i \in 1 .. (k + n) /\ i <= k
    BY <1>4
  <2>4. \A i \in (k + 1) .. (k + n) : i \in 1 .. (k + n) /\ ~(i <= k)
    BY <1>4
  <2>5. DOMAIN v = 1 .. (k + n)
    BY <2>2
  <2>. QED  BY <1>6, <2>1, <2>2, <2>3, <2>4, <2>5
<1>8. \A i \in 1 .. n : k + i \in 1 .. (k + n) /\ t[k + i] = u[i]
  <2>1. SUFFICES ASSUME NEW i \in 1 .. n PROVE k + i \in 1 .. (k + n) /\ t[k + i] = u[i]
    OBVIOUS
  <2>2. k + i \in 1 .. (k + n) /\ k + i \in (k + 1) .. (k + n) /\ (k + i) - k = i
    BY <1>4
  <2>. QED  BY <1>7, <2>2
<1>9. \A i \in 1 .. (k + n) : i \in 1 .. k \/ \E j \in 1 .. n : i = k + j
  <2>1. \A i \in 1 .. (k + n) : i \in 1 .. k \/ (i - k \in 1 .. n /\ i = k + (i - k))
    BY <1>4
  <2>. QED  BY <2>1
<1>10. ASSUME NEW i \in DOMAIN t PROVE t[i] \in {s[m] : m \in DOMAIN s} \cup Used(f, N)
  <2>1. CASE i \in 1 .. k
    BY <1>4, <1>7, <2>1
  <2>2. CASE \E j \in 1 .. n : i = k + j
    BY <1>5, <1>8, <2>2
  <2>. QED  BY <1>7, <1>9, <2>1, <2>2
<1>11. ASSUME NEW m \in DOMAIN s PROVE m \in DOMAIN t /\ t[m] = s[m]
  BY <1>4, <1>7
<1>12. ASSUME NEW x \in N PROVE \E i \in DOMAIN t : t[i] = f[x]
  <2>1. PICK i \in 1 .. n : r[i] = x
    BY <1>2, <1>4
  <2>2. k + i \in DOMAIN t /\ t[k + i] = f[x]
    BY <1>5, <1>7, <1>8, <2>1
  <2>. QED  BY <2>2
<1>13. {t[m] : m \in DOMAIN t} = {s[m] : m \in DOMAIN s} \cup Used(f, N)
  <2>1. \A y \in {s[m] : m \in DOMAIN s} : y \in {t[m] : m \in DOMAIN t}
    BY <1>11
  <2>2. \A y \in Used(f, N) : y \in {t[m] : m \in DOMAIN t}
    BY <1>12 DEF Used
  <2>3. \A y \in {t[m] : m \in DOMAIN t} : y \in {s[m] : m \in DOMAIN s} \cup Used(f, N)
    BY <1>10
  <2>. QED  BY <2>1, <2>2, <2>3
<1>14. ASSUME Distinct(s), \A m \in DOMAIN s : s[m] \notin Used(f, N) PROVE Distinct(t)
  <2>1. SUFFICES ASSUME NEW i \in DOMAIN t, NEW j \in DOMAIN t, t[i] = t[j] PROVE i = j
    BY DEF Distinct
  <2>2. CASE i \in 1 .. k /\ j \in 1 .. k
    BY <1>4, <1>7, <1>14, <2>1, <2>2 DEF Distinct
  <2>3. CASE \E a \in 1 .. n : i = k + a
    <3>1. PICK a \in 1 .. n : i = k + a
      BY <2>3
    <3>2. t[i] = u[a] /\ u[a] \in Used(f, N)
      BY <1>5, <1>8, <3>1
    <3>3. j \notin 1 .. k
      BY <1>4, <1>7, <1>14, <2>1, <3>2
    <3>4. PICK e \in 1 .. n : j = k + e
      BY <1>7, <1>9, <3>3
    <3>5. f[r[a]] = f[r[e]]
      BY <1>5, <1>8, <2>1, <3>1, <3>4
    <3>. QED  BY SMTT(40), <1>2, <1>4, <3>1, <3>4, <3>5
  <2>4. CASE i \in 1 .. k /\ \E a \in 1 .. n : j = k + a
    <3>1. PICK a \in 1 .. n : j = k + a
      BY <2>4
    <3>2. t[j] = u[a] /\ u[a] \in Used(f, N)
      BY <1>5, <1>8, <3>1
    <3>. QED  BY <1>4, <1>7, <1>14, <2>1, <2>4, <3>2
  <2>. QED  BY <1>7, <1>9, <2>2, <2>3, <2>4
<1>15. Listed(s) \cap Used(f, N) = {} => \A m \in DOMAIN s : s[m] \notin Used(f, N)
  BY DEF Listed
<1>16. Listed(t) = Listed(s) \cup Used(f, N)
  BY <1>13 DEF Listed
<1>. QED  BY <1>7, <1>14, <1>15, <1>16 DEF Lengthened

(* What the new blocks change in the context.                               *)
GivenTables(c, d, N, f) ==
  /\ \A p \in Ptrs : p \notin Used(f, N) => d.objBy[p] = c.objBy[p]
  /\ \A x \in N : d.objBy[f[x]] = x /\ d.ptrBy[x] = f[x]
  /\ \A x \in Objs : x \notin N => d.ptrBy[x] = c.ptrBy[x]

GivenSlots(c, d, N) ==
  /\ \A x \in Objs : d.slot[x] >= c.slot[x]
  /\ \A x \in N : d.slot[x] = c.slot[x] + 1

GivenBufs(c, d, o, b) == \A x \in Objs : d.bufs[x] = IF x = o /\ b # Null THEN b ELSE c.bufs[x]

GivenAllocs(c, d, N, f) ==
  /\ Allocs(d) = Allocs(c) \cup Used(f, N)
  /\ Distinct(c.allocs) /\ Allocs(c) \cap Used(f, N) = {} => Distinct(d.allocs)

GivenContext(c, d, N, f, o, b) ==
  /\ GivenTables(c, d, N, f) /\ GivenSlots(c, d, N) /\ GivenBufs(c, d, o, b) /\ GivenAllocs(c, d, N, f)

(* GiveContext has the parts that GivenContext names.                       *)
LEMMA GiveContextFacts ==
  ASSUME NEW m, NEW c \in Context, NEW N, NEW f, NEW b, Blocks(N, f, b), NEW o,
         NEW A, N \subseteq {y \in A : ~Reusable(m, y)}, Lists(GiveOrder(o, N), N),
         NEW d, d = GiveContext(m, c, o, f, b, A, N)
  PROVE  d \in Context /\ GivenContext(c, d, N, f, o, b)
<1>. DEFINE U == Used(f, N)
            at(p) == At(f, N, p)
            r == GiveOrder(o, N)
            M == {y \in A : ~Reusable(m, y)}
            allocs == c.allocs \o [i \in DOMAIN r |-> f[r[i]]]
            objs == [p \in Ptrs |-> IF p \in U THEN at(p) ELSE c.objBy[p]]
            ptrs == [x \in Objs |-> IF x \in N THEN f[x] ELSE c.ptrBy[x]]
            slots == [x \in Objs |-> IF x \in M THEN c.slot[x] + 1 ELSE c.slot[x]]
            bufs == [x \in Objs |-> IF x = o /\ b # Null THEN b ELSE c.bufs[x]]
<1>1. d = [c EXCEPT !.allocs = allocs, !.objBy = objs, !.ptrBy = ptrs, !.slot = slots, !.bufs = bufs]
  BY Zenon DEF GiveContext
<1>2. N \subseteq Objs /\ f \in [N -> Ptrs] /\ b \in PtrOrNull /\ U \subseteq Ptrs
  BY DEF Blocks, Used
<1>3. /\ \A x \in N : f[x] \in U /\ at(f[x]) = x /\ f[x] \in Ptrs
      /\ \A p \in U : at(p) \in N /\ at(p) \in Objs
  <2>1. \A x, y \in N : f[x] = f[y] => x = y
    BY DEF Blocks
  <2>2. /\ \A x \in N : f[x] \in U /\ at(f[x]) = x
        /\ \A p \in U : at(p) \in N /\ f[at(p)] = p
    BY <2>1, AtFacts
  <2>. QED  BY <1>2, <2>2
<1>4. Lengthened(c.allocs, allocs, U)
  <2>1. c.allocs \in Seq(Ptrs)
    BY ContextFields
  <2>2. allocs = Followed(c.allocs, r, f)
    BY DEF Followed
  <2>. HIDE DEF allocs, r
  <2>3. Lists(r, N)
    BY DEF r
  <2>. QED  BY <2>1, <2>2, <2>3, MoreAllocs
<1>. HIDE DEF U, at, M, r
<1>5. objs \in [Ptrs -> ObjOrNull] /\ ptrs \in [Objs -> PtrOrNull]
  <2>1. (\A p \in Ptrs : c.objBy[p] \in ObjOrNull) /\ (\A x \in Objs : c.ptrBy[x] \in PtrOrNull)
    BY ContextFields
  <2>2. (\A x \in Objs : x \in ObjOrNull) /\ (\A p \in Ptrs : p \in PtrOrNull)
    BY DEF ObjOrNull, PtrOrNull
  <2>3. objs \in [Ptrs -> ObjOrNull]
    BY <1>3, <2>1, <2>2
  <2>4. ptrs \in [Objs -> PtrOrNull]
    BY <1>3, <2>1, <2>2
  <2>. QED  BY <2>3, <2>4
<1>6. slots \in [Objs -> Nat] /\ bufs \in [Objs -> PtrOrNull]
  BY <1>2, ContextFields
<1>7. /\ d \in Context
      /\ d.allocs = allocs /\ d.objBy = objs /\ d.ptrBy = ptrs /\ d.slot = slots /\ d.bufs = bufs
  <2>. HIDE DEF allocs, objs, ptrs, slots, bufs
  <2>. QED  BY <1>1, <1>4, <1>5, <1>6 DEF Context, Lengthened
<1>8. GivenTables(c, d, N, f)
  <2>1. \A p \in Ptrs : p \notin U => d.objBy[p] = c.objBy[p]
    BY <1>7
  <2>2. \A x \in N : d.objBy[f[x]] = x /\ d.ptrBy[x] = f[x]
    BY <1>2, <1>3, <1>7
  <2>3. \A x \in Objs : x \notin N => d.ptrBy[x] = c.ptrBy[x]
    BY <1>7
  <2>. QED  BY <2>1, <2>2, <2>3 DEF GivenTables, U
<1>9. GivenSlots(c, d, N)
  <2>1. N \subseteq M /\ N \subseteq Objs
    BY <1>2 DEF M
  <2>2. \A x \in Objs : c.slot[x] \in Nat /\ d.slot[x] = IF x \in M THEN c.slot[x] + 1 ELSE c.slot[x]
    BY <1>7, ContextFields
  <2>. QED  BY <2>1, <2>2 DEF GivenSlots
<1>10. GivenBufs(c, d, o, b)
  BY <1>7 DEF GivenBufs
<1>11. GivenAllocs(c, d, N, f)
  <2>1. Allocs(d) = Listed(d.allocs) /\ Allocs(c) = Listed(c.allocs)
    BY DEF Allocs, Listed
  <2>2. Lengthened(c.allocs, d.allocs, U)
    BY <1>4, <1>7
  <2>. QED  BY <2>1, <2>2 DEF GivenAllocs, U, Lengthened
<1>. QED  BY <1>7, <1>8, <1>9, <1>10, <1>11 DEF GivenContext

(* Which objects get new blocks.                                            *)
LEMMA NewFacts ==
  ASSUME NEW c, NEW o \in Objs, NEW N, N = New(c, o)
  PROVE  /\ N \subseteq Objs /\ IsFiniteSet(N) /\ (o \in N \/ N = {})
         /\ Asked(c, o) \in SUBSET Objs /\ N \subseteq {y \in Asked(c, o) : ~Reusable(mem, y)}
         /\ \A x \in N : c.ptrBy[x] = Null /\ ~Reusable(mem, x) /\ (x # o => Kind[x] # "bytearray")
<1>1. PICK s : s = Items[o]
  OBVIOUS
<1>2. s \in Seq(Objs)
  BY <1>1, CapiAssumption
<1>3. \A i \in DOMAIN s : Kind[s[i]] # "bytearray"
  BY <1>1, CapiAssumption
<1>4. PICK I : I = {s[i] : i \in DOMAIN s}
  OBVIOUS
<1>5. ItemSet(o) = I
  BY <1>1, <1>4 DEF ItemSet
<1>6. I \subseteq Objs /\ \A x \in I : Kind[x] # "bytearray"
  BY <1>2, <1>3, <1>4
<1>7. IsFiniteSet(I)
  <2>1. PICK k \in Nat : DOMAIN s = 1 .. k
    BY <1>2
  <2>2. IsFiniteSet(1 .. k)
    BY <2>1, FS_Interval
  <2>3. IsFiniteSet(DOMAIN s)
    BY <2>1, <2>2
  <2>4. s \in Surjection(DOMAIN s, I)
    <3>1. s \in [DOMAIN s -> I]
      BY <1>2, <1>4
    <3>. QED  BY <1>4, <3>1 DEF Surjection
  <2>. QED  BY <2>3, <2>4, FS_Surjection
<1>8. IsFiniteSet(I \cup {o})
  BY <1>7, FS_AddElement
<1>9. Asked(c, o) = IF Fresh(c, o) THEN I \cup {o} ELSE {o}
  BY <1>5 DEF Asked
<1>10. N \subseteq Asked(c, o) /\ \A x \in N : Fresh(c, x)
  BY DEF New
<1>11. Asked(c, o) \subseteq I \cup {o}
  BY <1>9
<1>12. IsFiniteSet(N)
  <2>1. N \subseteq I \cup {o}
    BY <1>10, <1>11
  <2>. QED  BY <1>8, <2>1, FS_Subset
<1>13. o \in N \/ N = {}
  <2>1. CASE Fresh(c, o)
    BY <1>9, <2>1 DEF New
  <2>2. CASE ~Fresh(c, o)
    BY <1>9, <1>10, <2>2
  <2>. QED  BY <2>1, <2>2
<1>14. \A x \in N : c.ptrBy[x] = Null /\ ~Reusable(mem, x) /\ (x # o => Kind[x] # "bytearray")
  BY <1>6, <1>10, <1>11 DEF Fresh
<1>. QED  BY <1>6, <1>10, <1>11, <1>12, <1>13, <1>14

(* The new blocks use free addresses, and no object had a block.            *)
Takes(m, c, N, f, o, b) ==
  /\ \A x \in N : /\ m.heap[f[x]] = "free" /\ c.ptrBy[x] = Null
                  /\ Kind[x] = "bytearray" => x = o /\ b # Null
  /\ b # Null => m.heap[b] = "free" /\ o \in N

Gives(m, n, c, d, N, f, o, b) ==
  /\ Blocks(N, f, b) /\ Takes(m, c, N, f, o, b)
  /\ GivenMemory(m, n, c, N, f, o, b) /\ GivenContext(c, d, N, f, o, b)

(* Give in these terms.                                                     *)
LEMMA GiveFacts ==
  ASSUME TypeInv, NEW o \in Objs, NEW f, NEW b, Give(o, f, b)
  PROVE  \E N, d : Gives(mem, mem', Top, d, N, f, o, b) /\ TopIs(ctxs, ctxs', d) /\ mem' \in Memory
<1>1. PICK c, N, A : c = Top /\ N = New(c, o) /\ A = Asked(c, o)
  OBVIOUS
<1>2. ctxs \in Seq(Context) /\ ctxs # <<>> /\ c \in Context /\ mem \in Memory
  BY <1>1, ActiveFacts DEF Give
<1>3. /\ N \subseteq Objs /\ IsFiniteSet(N) /\ (o \in N \/ N = {})
      /\ A \in SUBSET Objs /\ N \subseteq {y \in A : ~Reusable(mem, y)}
      /\ \A x \in N : c.ptrBy[x] = Null /\ ~Reusable(mem, x) /\ (x # o => Kind[x] # "bytearray")
  BY <1>1, NewFacts
<1>4. /\ f \in [N -> Free] /\ Injective(f)
      /\ b \in IF o \in N /\ HasBuffer(o) THEN Free \ Used(f, N) ELSE {Null}
  BY <1>1 DEF Give, New, Used
<1>5. Blocks(N, f, b)
  <2>1. Free \subseteq Ptrs /\ Null \notin Ptrs
    BY CapiAssumption DEF Free
  <2>2. Used(f, N) \subseteq Ptrs
    BY <1>4, <2>1 DEF Used
  <2>3. b \in PtrOrNull /\ b \notin Used(f, N)
    BY <1>4, <2>1, <2>2 DEF PtrOrNull
  <2>. QED  BY <1>3, <1>4, <2>1, <2>3 DEF Blocks, Injective
<1>6. Takes(mem, c, N, f, o, b)
  <2>1. \A x \in N : mem.heap[f[x]] = "free"
    BY <1>4 DEF Free
  <2>2. b # Null => mem.heap[b] = "free" /\ o \in N
    BY <1>4 DEF Free
  <2>3. \A x \in N : Kind[x] = "bytearray" => x = o /\ b # Null
    <3>1. SUFFICES ASSUME NEW x \in N, Kind[x] = "bytearray" PROVE x = o /\ b # Null
      OBVIOUS
    <3>2. x = o
      BY <1>3, <3>1
    <3>3. HasBuffer(o)
      BY <3>1, <3>2 DEF HasBuffer
    <3>4. b \in Ptrs
      BY <1>4, <3>2, <3>3 DEF Free
    <3>. QED  BY <3>2, <3>4, CapiAssumption
  <2>. QED  BY <1>3, <2>1, <2>2, <2>3 DEF Takes
<1>7. PICK n : n = mem'
  OBVIOUS
<1>8. n = GiveMemory(mem, c, o, f, b, A, N)
  BY <1>1, <1>7, GiveStep
<1>9. n \in Memory /\ GivenMemory(mem, n, c, N, f, o, b)
  BY <1>2, <1>3, <1>5, <1>8, GiveMemoryFacts
<1>10. PICK d : d = GiveContext(mem, c, o, f, b, A, N)
  OBVIOUS
<1>11. d \in Context /\ GivenContext(c, d, N, f, o, b)
  <2>1. Lists(GiveOrder(o, N), N)
    BY <1>3, GiveOrderFacts
  <2>. QED  BY <1>2, <1>3, <1>5, <1>10, <2>1, GiveContextFacts
<1>12. ctxs' = Append(Front(ctxs), d)
  BY <1>1, <1>10, GiveStep
<1>13. TopIs(ctxs, ctxs', d)
  BY ZenonT(40), <1>2, <1>11, <1>12, ReplaceTop
<1>14. Gives(mem, n, c, d, N, f, o, b)
  BY <1>5, <1>6, <1>9, <1>11 DEF Gives
<1>. QED  BY <1>1, <1>7, <1>9, <1>13, <1>14

(* Its types.                                                               *)
LEMMA GiveType ==
  ASSUME TypeInv, NEW o \in Objs, NEW f, NEW b, Give(o, f, b)
  PROVE  TypeInv'
<1>1. PICK N, d : Gives(mem, mem', Top, d, N, f, o, b) /\ TopIs(ctxs, ctxs', d) /\ mem' \in Memory
  BY GiveFacts
<1>2. PICK n : n = mem'
  OBVIOUS
<1>3. GivenElsewhere(mem, n, N, f, b) /\ GivenBuffer(mem, n, b)
  BY <1>1, <1>2 DEF Gives, GivenMemory
<1>4. \A x \in N : n.reg[f[x]] = Registered(mem.reg[f[x]], "owned", x)
  BY <1>1, <1>2 DEF Gives, GivenMemory, GivenBlock
<1>5. ASSUME NEW q \in Ptrs PROVE n.reg[q] = mem.reg[q] \/ n.reg[q].prov = "owned"
  <2>1. CASE q \in Used(f, N)
    <3>1. PICK x \in N : q = f[x]
      BY <2>1 DEF Used
    <3>2. n.reg[q] = Registered(mem.reg[q], "owned", x)
      BY <1>4, <3>1
    <3>. QED  BY <3>2 DEF Registered
  <2>2. CASE q = b
    BY <1>3, <2>2, CapiAssumption DEF GivenBuffer, Registered
  <2>3. CASE q \notin Used(f, N) /\ q # b
    BY <1>3, <2>3 DEF GivenElsewhere
  <2>. QED  BY <2>1, <2>2, <2>3
<1>6. Backs(mem, n)
  BY <1>5 DEF Backs, Backed
<1>7. ctxs' \in Seq(Context)
  BY <1>1 DEF TopIs
<1>8. mem' \in Memory /\ Backs(mem, mem')
  BY <1>1, <1>2, <1>6
<1>. QED  BY ZenonT(40), <1>7, <1>8, TypeNext DEF Give, TypeInv

(* What was in memory stays there, and what is new are the blocks of N.     *)
KeepsOurs(m, n) ==
  \A q \in Ptrs : m.heap[q] = "ours" =>
    n.heap[q] = "ours" /\ n.body[q] = m.body[q] /\ n.hdr[q] = m.hdr[q] /\ n.reg[q] = m.reg[q]

WasFree(m, q) ==
  /\ m.heap[q] = "free" /\ m.body[q].obj = Null /\ m.reg[q].life = "freed" /\ m.reg[q].pins = 0
  /\ q \notin m.pinSet /\ ~Pinned(m, q) /\ m.valueOf[q] \notin Objs

AllFree(m, N, f, b) == (\A q \in Used(f, N) : WasFree(m, q)) /\ (b # Null => WasFree(m, b))

(* New blocks are at free addresses,                                        *)
LEMMA FreeFacts ==
  ASSUME NEW m \in Memory, MemoryOK(m), NEW q \in Ptrs, m.heap[q] = "free"
  PROVE  WasFree(m, q)
<1>1. AddressOK(m, q)
  BY DEF MemoryOK
<1>2. m.body[q].obj = Null /\ m.reg[q].life = "freed" /\ m.reg[q].pins = 0
  BY <1>1 DEF AddressOK
<1>3. ~Pinned(m, q) /\ q \notin m.pinSet
  BY <1>1, <1>2 DEF AddressOK, Pinned, IsOwnedPinned
<1>4. m.valueOf[q] \notin Objs
  BY <1>1, <1>2, CapiAssumption DEF AddressOK
<1>. QED  BY <1>2, <1>3, <1>4 DEF WasFree

(* so that no block of ours is touched.                                     *)
LEMMA GiveKept ==
  ASSUME NEW m \in Memory, MemoryOK(m), NEW n, NEW c, NEW d, NEW N, NEW f, NEW o, NEW b,
         Gives(m, n, c, d, N, f, o, b)
  PROVE  /\ KeepsOurs(m, n) /\ AllFree(m, N, f, b) /\ Used(f, N) \subseteq Ptrs /\ (b # Null => b \in Ptrs)
         /\ \A q \in Ptrs : m.heap[q] = "ours" => q \notin Used(f, N) /\ q # b
<1>1. Used(f, N) \subseteq Ptrs /\ (b # Null => b \in Ptrs)
  BY DEF Gives, Blocks, Used, PtrOrNull
<1>2. ASSUME NEW q \in Used(f, N) PROVE m.heap[q] = "free"
  BY <1>2 DEF Gives, Takes, Used
<1>3. b # Null => m.heap[b] = "free"
  BY DEF Gives, Takes
<1>4. AllFree(m, N, f, b)
  BY <1>1, <1>2, <1>3, FreeFacts DEF AllFree
<1>5. \A q \in Ptrs : m.heap[q] = "ours" => q \notin Used(f, N) /\ q # b
  <2>1. Null \notin Ptrs
    BY CapiAssumption
  <2>. QED  BY <1>2, <1>3, <2>1
<1>6. KeepsOurs(m, n)
  <2>1. GivenElsewhere(m, n, N, f, b)
    BY DEF Gives, GivenMemory
  <2>. QED  BY <1>5, <2>1 DEF GivenElsewhere, KeepsOurs
<1>. QED  BY <1>1, <1>4, <1>5, <1>6

(* An entry of ours that was just made.                                     *)
LEMMA NewEntry ==
  ASSUME NEW e, e.life = "freed", NEW x
  PROVE  /\ IsOwnedCompat(Registered(e, "owned", x)) /\ ~IsOwnedPinned(Registered(e, "owned", x))
         /\ Registered(e, "owned", x).life = "alive" /\ Registered(e, "owned", x).prov = "owned"
         /\ Registered(e, "owned", x).pins = 0
BY DEF Registered, IsOwnedCompat, IsOwnedPinned

(* The tables name the new blocks rightly.                                  *)
LEMMA GivenOK ==
  ASSUME NEW m \in Memory, MemoryOK(m), NEW n, NEW c, NEW d, NEW N, NEW f, NEW o, NEW b,
         Gives(m, n, c, d, N, f, o, b), NEW h, HeldOK(m, h)
  PROVE  MemoryOK(n) /\ HeldOK(n, h)
<1>1. /\ KeepsOurs(m, n) /\ AllFree(m, N, f, b) /\ Used(f, N) \subseteq Ptrs /\ (b # Null => b \in Ptrs)
      /\ \A q \in Ptrs : m.heap[q] = "ours" => q \notin Used(f, N) /\ q # b
  BY GiveKept
<1>2. /\ GivenElsewhere(m, n, N, f, b) /\ GivenBuffer(m, n, b) /\ GivenNames(m, n, N, f)
      /\ \A x \in N : GivenBlock(m, n, c, f, o, b, x)
  BY DEF Gives, GivenMemory
<1>3. N \subseteq Objs /\ b \notin Used(f, N) /\ Null \notin Ptrs /\ Null \notin Objs
  BY CapiAssumption DEF Gives, Blocks
<1>4. ASSUME NEW q \in Ptrs, q \notin Used(f, N) PROVE n.valueOf[q] = m.valueOf[q]
  <2>1. ASSUME NEW x \in Objs, Reusable(m, x), m.ptrOf[x] = q PROVE m.valueOf[q] = x
    <3>1. m.body[q].obj = x
      BY <1>3, <2>1 DEF MemoryOK, NameOK
    <3>. QED  BY <1>3, <3>1 DEF MemoryOK, AddressOK
  <2>. QED  BY <1>2, <1>4, <2>1 DEF GivenNames
<1>5. ASSUME NEW q \in Ptrs PROVE AddressOK(n, q) /\ h[q] = IF n.reg[q].prov = "external" THEN n.reg[q].pins ELSE 0
  <2>1. AddressOK(m, q) /\ n.pinSet = m.pinSet /\ n.pinVec = m.pinVec
    BY <1>2 DEF MemoryOK, GivenElsewhere
  <2>2. h[q] = IF m.reg[q].prov = "external" THEN m.reg[q].pins ELSE 0
    BY DEF HeldOK
  <2>3. CASE q \in Used(f, N)
    <3>1. PICK x \in N : q = f[x]
      BY <2>3 DEF Used
    <3>2. WasFree(m, q)
      BY <1>1, <2>3 DEF AllFree
    <3>3. n.heap[q] = "ours" /\ n.body[q].obj = x /\ n.valueOf[q] = x /\ n.reg[q] = Registered(m.reg[q], "owned", x)
      BY <1>2, <3>1 DEF GivenBlock
    <3>4. /\ IsOwnedCompat(n.reg[q]) /\ ~Pinned(n, q) /\ n.reg[q].life = "alive" /\ n.reg[q].prov = "owned"
          /\ n.reg[q].pins = 0
      BY <3>2, <3>3, NewEntry DEF WasFree, Pinned
    <3>5. AddressOK(n, q)
      BY <1>3, <2>1, <3>2, <3>3, <3>4 DEF AddressOK, WasFree
    <3>. QED  BY <2>2, <3>2, <3>4, <3>5 DEF WasFree
  <2>4. CASE q = b
    <3>1. b # Null /\ WasFree(m, q)
      BY <1>1, <1>3, <2>4 DEF AllFree
    <3>2. n.heap[q] = "ours" /\ n.body[q] = m.body[q] /\ n.reg[q] = Registered(m.reg[q], "owned", Null)
      BY <1>2, <2>4, <3>1 DEF GivenBuffer
    <3>3. n.valueOf[q] = m.valueOf[q]
      BY <1>3, <1>4, <2>4
    <3>4. /\ IsOwnedCompat(n.reg[q]) /\ ~Pinned(n, q) /\ n.reg[q].life = "alive" /\ n.reg[q].prov = "owned"
          /\ n.reg[q].pins = 0
      BY <3>1, <3>2, NewEntry DEF WasFree, Pinned
    <3>5. AddressOK(n, q)
      BY <1>3, <2>1, <3>1, <3>2, <3>3, <3>4 DEF AddressOK, WasFree
    <3>. QED  BY <2>2, <3>1, <3>4, <3>5 DEF WasFree
  <2>5. CASE q \notin Used(f, N) /\ q # b
    <3>1. n.heap[q] = m.heap[q] /\ n.body[q] = m.body[q] /\ n.reg[q] = m.reg[q] /\ n.valueOf[q] = m.valueOf[q]
      BY <1>2, <1>4, <2>5 DEF GivenElsewhere
    <3>2. AddressOK(n, q)
      BY <2>1, <3>1 DEF AddressOK, Pinned
    <3>. QED  BY <2>2, <3>1, <3>2
  <2>. QED  BY <2>3, <2>4, <2>5
<1>6. ASSUME NEW x \in Objs PROVE NameOK(n, x)
  <2>1. CASE x \in N
    BY <1>2, <2>1 DEF GivenBlock, NameOK
  <2>2. CASE x \notin N
    <3>1. n.ptrOf[x] = m.ptrOf[x] \/ n.ptrOf[x] = Null
      BY <1>2, <2>2 DEF GivenNames
    <3>2. ASSUME m.ptrOf[x] # Null PROVE n.body[m.ptrOf[x]].obj = x
      <4>1. PICK q : q = m.ptrOf[x]
        OBVIOUS
      <4>2. q \in Ptrs /\ m.body[q].obj = x
        BY <3>2, <4>1, MemoryFields DEF MemoryOK, NameOK, PtrOrNull
      <4>3. m.heap[q] = "ours"
        BY <1>3, <4>2, OwnedFacts
      <4>. QED  BY <1>1, <4>1, <4>2, <4>3 DEF KeepsOurs
    <3>. QED  BY <3>1, <3>2 DEF NameOK
  <2>. QED  BY <2>1, <2>2
<1>7. ~n.bad
  BY <1>2 DEF GivenElsewhere, MemoryOK
<1>. QED  BY <1>5, <1>6, <1>7 DEF MemoryOK, HeldOK

(* The context c knew none of the new blocks and of their objects.          *)
Unknown(c, N, f, o, b) ==
  /\ \A q \in Ptrs : c.objBy[q] # Null => q \notin Used(f, N) /\ c.objBy[q] \in Objs /\ c.objBy[q] \notin N
  /\ \A y \in Objs : c.ptrBy[y] # Null => y \notin N /\ c.ptrBy[y] \in Ptrs /\ c.ptrBy[y] \notin Used(f, N)
  /\ \A y \in Objs : c.bufs[y] # Null => c.bufs[y] # b /\ y \notin N
  /\ b # Null => o \in N
  /\ Allocs(c) \subseteq Ptrs /\ Allocs(c) \cap Used(f, N) = {} /\ \A q \in Allocs(c) : c.objBy[q] # Null

(* It could not, for they were free.                                        *)
LEMMA GiveUnknown ==
  ASSUME NEW x, NEW m \in Memory, MemoryOK(m), NEW n, NEW c \in Context, ShapeOK(x, c), KnownOK(m, c),
         NEW d, NEW N, NEW f, NEW o, NEW b, Gives(m, n, c, d, N, f, o, b)
  PROVE  Unknown(c, N, f, o, b)
<1>1. /\ AllFree(m, N, f, b) /\ Used(f, N) \subseteq Ptrs
      /\ \A q \in Ptrs : m.heap[q] = "ours" => q \notin Used(f, N) /\ q # b
  BY GiveKept
<1>2. /\ \A q \in Ptrs : c.objBy[q] \in ObjOrNull
      /\ \A y \in Objs : c.ptrBy[y] \in PtrOrNull /\ c.bufs[y] \in PtrOrNull
      /\ Allocs(c) \subseteq Ptrs /\ Null \notin Objs
  BY ContextFields, CapiAssumption
<1>3. /\ \A q \in Ptrs : c.objBy[q] # Null => c.ptrBy[c.objBy[q]] # Null
      /\ \A y \in Objs : c.ptrBy[y] # Null => c.objBy[c.ptrBy[y]] = y
      /\ \A y \in Objs : c.bufs[y] # Null => c.ptrBy[y] # Null
      /\ \A q \in Allocs(c) : c.objBy[q] # Null
  BY DEF ShapeOK
<1>4. (\A y \in N : c.ptrBy[y] = Null) /\ (b # Null => o \in N)
  BY DEF Gives, Takes
<1>5. ASSUME NEW q \in Ptrs, c.objBy[q] # Null PROVE m.heap[q] = "ours"
  <2>1. m.body[q].obj # Null
    BY <1>5 DEF KnownOK
  <2>. QED  BY <2>1, OwnedFacts
<1>6. \A q \in Ptrs : c.objBy[q] # Null => q \notin Used(f, N) /\ c.objBy[q] \in Objs /\ c.objBy[q] \notin N
  BY <1>1, <1>2, <1>3, <1>4, <1>5 DEF ObjOrNull
<1>7. \A y \in Objs : c.ptrBy[y] # Null => y \notin N /\ c.ptrBy[y] \in Ptrs /\ c.ptrBy[y] \notin Used(f, N)
  BY <1>2, <1>3, <1>4, <1>6 DEF PtrOrNull
<1>8. \A y \in Objs : c.bufs[y] # Null => c.bufs[y] # b /\ y \notin N
  <2>1. SUFFICES ASSUME NEW y \in Objs, c.bufs[y] # Null PROVE c.bufs[y] # b /\ y \notin N
    OBVIOUS
  <2>2. c.bufs[y] \in Ptrs /\ m.heap[c.bufs[y]] = "ours"
    BY <1>2, <2>1 DEF KnownOK, PtrOrNull
  <2>. QED  BY <1>1, <1>3, <1>4, <2>1, <2>2
<1>9. Allocs(c) \cap Used(f, N) = {}
  BY <1>2, <1>3, <1>6
<1>. QED  BY <1>2, <1>3, <1>4, <1>6, <1>7, <1>8, <1>9 DEF Unknown

(* Its tables still agree,                                                  *)
LEMMA GiveShape ==
  ASSUME NEW x, NEW m \in Memory, MemoryOK(m), NEW n, NEW c \in Context, ShapeOK(x, c), KnownOK(m, c),
         NEW d, NEW N, NEW f, NEW o, NEW b, Gives(m, n, c, d, N, f, o, b)
  PROVE  ShapeOK(x, d)
<1>1. Unknown(c, N, f, o, b)
  BY GiveUnknown
<1>2. /\ \A q \in Ptrs : c.objBy[q] # Null => q \notin Used(f, N) /\ c.objBy[q] \in Objs /\ c.objBy[q] \notin N
      /\ \A y \in Objs : c.ptrBy[y] # Null => y \notin N /\ c.ptrBy[y] \in Ptrs /\ c.ptrBy[y] \notin Used(f, N)
      /\ \A y \in Objs : c.bufs[y] # Null => c.bufs[y] # b /\ y \notin N
      /\ b # Null => o \in N
      /\ Allocs(c) \subseteq Ptrs /\ Allocs(c) \cap Used(f, N) = {} /\ \A q \in Allocs(c) : c.objBy[q] # Null
  BY <1>1 DEF Unknown
<1>3. /\ \A q \in Ptrs : q \notin Used(f, N) => d.objBy[q] = c.objBy[q]
      /\ \A y \in N : d.objBy[f[y]] = y /\ d.ptrBy[y] = f[y]
      /\ \A y \in Objs : y \notin N => d.ptrBy[y] = c.ptrBy[y]
      /\ \A y \in Objs : d.bufs[y] = IF y = o /\ b # Null THEN b ELSE c.bufs[y]
  BY DEF Gives, GivenContext, GivenTables, GivenBufs
<1>4. /\ Allocs(d) = Allocs(c) \cup Used(f, N)
      /\ Distinct(c.allocs) /\ Allocs(c) \cap Used(f, N) = {} => Distinct(d.allocs)
  BY DEF Gives, GivenContext, GivenAllocs
<1>5. /\ N \subseteq Objs /\ Null \notin Ptrs /\ Null \notin Objs /\ \A y \in N : f[y] \in Ptrs /\ f[y] \in Used(f, N)
  BY CapiAssumption DEF Gives, Blocks, Used
<1>6. \A q \in Used(f, N) : \E y \in N : q = f[y]
  BY DEF Used
<1>7. /\ \A q \in Ptrs : c.objBy[q] # Null => c.ptrBy[c.objBy[q]] # Null
      /\ \A y \in Objs : c.ptrBy[y] # Null => c.objBy[c.ptrBy[y]] = y
      /\ \A y \in Objs : c.bufs[y] # Null => c.ptrBy[y] # Null
      /\ \A o1, o2 \in Objs : c.bufs[o1] = c.bufs[o2] /\ c.bufs[o1] # Null => o1 = o2
      /\ \A i, j \in DOMAIN c.allocs : c.allocs[i] = c.allocs[j] => i = j
  BY DEF ShapeOK
<1>8. /\ \A q \in Allocs(c), r \in Ptrs : c.ptrBy[c.objBy[q]] = q /\ c.objBy[r] = c.objBy[q] => r = q
      /\ ~x.twice => \A q \in Ptrs : c.objBy[q] # Null => c.ptrBy[c.objBy[q]] = q
  BY DEF ShapeOK
<1>9. ASSUME NEW q \in Ptrs, d.objBy[q] # Null
      PROVE  \/ q \in Used(f, N) /\ d.objBy[q] \in N /\ q = f[d.objBy[q]] /\ d.ptrBy[d.objBy[q]] = q
             \/ /\ q \notin Used(f, N) /\ d.objBy[q] = c.objBy[q] /\ c.objBy[q] # Null /\ c.objBy[q] \in Objs
                /\ c.objBy[q] \notin N /\ d.ptrBy[c.objBy[q]] = c.ptrBy[c.objBy[q]]
  <2>1. CASE q \in Used(f, N)
    BY <1>3, <1>6, <2>1
  <2>2. CASE q \notin Used(f, N)
    BY <1>2, <1>3, <1>9, <2>2
  <2>. QED  BY <2>1, <2>2
<1>10. \A q \in Ptrs : d.objBy[q] # Null => d.ptrBy[d.objBy[q]] # Null
  BY <1>5, <1>7, <1>9
<1>11. ASSUME NEW y \in Objs, d.ptrBy[y] # Null PROVE d.objBy[d.ptrBy[y]] = y
  <2>1. CASE y \in N
    BY <1>3, <2>1
  <2>2. CASE y \notin N
    BY <1>2, <1>3, <1>7, <1>11, <2>2
  <2>. QED  BY <2>1, <2>2
<1>12. ASSUME NEW y \in Objs, d.bufs[y] # Null PROVE d.ptrBy[y] # Null
  BY <1>2, <1>3, <1>5, <1>7, <1>12
<1>13. \A o1, o2 \in Objs : d.bufs[o1] = d.bufs[o2] /\ d.bufs[o1] # Null => o1 = o2
  BY <1>2, <1>3, <1>7
<1>14. Distinct(d.allocs)
  <2>1. Distinct(c.allocs)
    BY <1>7 DEF Distinct
  <2>. QED  BY <1>2, <1>4, <2>1
<1>15. ASSUME NEW q \in Allocs(d)
       PROVE  /\ q \in Ptrs /\ d.objBy[q] # Null
              /\ q \in Used(f, N) \/ (q \in Allocs(c) /\ q \notin Used(f, N))
  <2>1. CASE q \in Used(f, N)
    BY <1>3, <1>5, <1>6, <2>1
  <2>2. CASE q \in Allocs(c)
    BY <1>2, <1>3, <2>2
  <2>. QED  BY <1>4, <2>1, <2>2
<1>16. ASSUME NEW q \in Allocs(d), NEW r \in Ptrs, d.ptrBy[d.objBy[q]] = q, d.objBy[r] = d.objBy[q]
       PROVE  r = q
  <2>1. q \in Ptrs /\ d.objBy[q] # Null /\ d.objBy[r] # Null
    BY <1>15, <1>16
  <2>2. CASE q \in Used(f, N)
    <3>1. d.objBy[q] \in N /\ q = f[d.objBy[q]]
      BY <1>9, <2>1, <2>2
    <3>. QED  BY <1>9, <1>16, <2>1, <3>1
  <2>3. CASE q \in Allocs(c) /\ q \notin Used(f, N)
    <3>1. d.objBy[q] = c.objBy[q] /\ c.objBy[q] \notin N /\ c.ptrBy[c.objBy[q]] = q
      BY <1>9, <1>16, <2>1, <2>3
    <3>2. d.objBy[r] = c.objBy[r]
      BY <1>9, <1>16, <2>1, <3>1
    <3>. QED  BY <1>8, <1>16, <2>3, <3>1, <3>2
  <2>. QED  BY <1>15, <2>2, <2>3
<1>17. ASSUME ~x.twice, NEW q \in Ptrs, d.objBy[q] # Null PROVE d.ptrBy[d.objBy[q]] = q
  BY <1>8, <1>9, <1>17
<1>18. \A q \in Allocs(d) : d.objBy[q] # Null
  BY <1>15
<1>19. \A q \in Allocs(d), r \in Ptrs : d.ptrBy[d.objBy[q]] = q /\ d.objBy[r] = d.objBy[q] => r = q
  BY <1>16
<1>20. \A y \in Objs : d.ptrBy[y] # Null => d.objBy[d.ptrBy[y]] = y
  BY <1>11
<1>21. \A y \in Objs : d.bufs[y] # Null => d.ptrBy[y] # Null
  BY <1>12
<1>22. ~x.twice => \A q \in Ptrs : d.objBy[q] # Null => d.ptrBy[d.objBy[q]] = q
  BY <1>17
<1>. QED  BY <1>10, <1>13, <1>14, <1>18, <1>19, <1>20, <1>21, <1>22 DEF ShapeOK, Distinct

(* and it knows its new blocks.                                             *)
LEMMA GiveKnowns ==
  ASSUME NEW x, NEW m \in Memory, MemoryOK(m), NEW n, NEW c \in Context, ShapeOK(x, c), KnownOK(m, c),
         NEW d, NEW N, NEW f, NEW o, NEW b, Gives(m, n, c, d, N, f, o, b)
  PROVE  KnownOK(n, d)
<1>1. Unknown(c, N, f, o, b) /\ KnownOK(n, c)
  <2>1. KeepsOurs(m, n)
    BY GiveKept
  <2>2. KeepsKnown(m, n, c)
    BY <2>1 DEF KeepsOurs, KeepsKnown
  <2>. QED  BY <2>2, GiveUnknown, KnownKept
<1>2. /\ \A q \in Ptrs : q \notin Used(f, N) => d.objBy[q] = c.objBy[q]
      /\ \A y \in N : d.objBy[f[y]] = y
      /\ \A y \in Objs : d.bufs[y] = IF y = o /\ b # Null THEN b ELSE c.bufs[y]
  BY DEF Gives, GivenContext, GivenTables, GivenBufs
<1>3. GivenBuffer(m, n, b) /\ AllFree(m, N, f, b) /\ \A y \in N : GivenBlock(m, n, c, f, o, b, y)
  BY GiveKept DEF Gives, GivenMemory
<1>4. ASSUME NEW q \in Ptrs, d.objBy[q] # Null PROVE n.body[q].obj = d.objBy[q]
  <2>1. CASE q \in Used(f, N)
    <3>1. PICK y \in N : q = f[y]
      BY <2>1 DEF Used
    <3>. QED  BY <1>2, <1>3, <3>1 DEF GivenBlock
  <2>2. CASE q \notin Used(f, N)
    BY <1>1, <1>2, <1>4, <2>2 DEF KnownOK
  <2>. QED  BY <2>1, <2>2
<1>5. ASSUME NEW y \in Objs, d.bufs[y] # Null PROVE n.heap[d.bufs[y]] = "ours" /\ n.body[d.bufs[y]].obj = Null
  <2>1. CASE y = o /\ b # Null
    BY <1>2, <1>3, <2>1 DEF GivenBuffer, AllFree, WasFree
  <2>2. CASE ~(y = o /\ b # Null)
    BY <1>1, <1>2, <1>5, <2>2 DEF KnownOK
  <2>. QED  BY <2>1, <2>2
<1>. QED  BY <1>4, <1>5 DEF KnownOK

(* A context that the top one is nested in.                                 *)
LEMMA GiveOuter ==
  ASSUME NEW x, NEW m \in Memory, MemoryOK(m), NEW n, NEW c \in Context,
         NEW d, NEW N, NEW f, NEW o, NEW b, Gives(m, n, c, d, N, f, o, b),
         NEW e \in Context, ShapeOK(x, e), KnownOK(m, e), ApartOK(x, e, c)
  PROVE  KnownOK(n, e) /\ ApartOK(x, e, d)
<1>1. KeepsOurs(m, n) /\ AllFree(m, N, f, b) /\ Used(f, N) \subseteq Ptrs /\ (b # Null => b \in Ptrs)
      /\ \A q \in Ptrs : m.heap[q] = "ours" => q \notin Used(f, N) /\ q # b
  BY GiveKept
<1>2. KnownOK(n, e)
  <2>1. KeepsKnown(m, n, e)
    BY <1>1 DEF KeepsOurs, KeepsKnown
  <2>. QED  BY <2>1, KnownKept
<1>3. \A q \in Used(f, N) : e.objBy[q] = Null
  BY <1>1 DEF AllFree, WasFree, KnownOK
<1>4. b # Null => \A y \in Objs : e.bufs[y] # b
  BY <1>1 DEF KnownOK
<1>5. /\ \A q \in Ptrs : q \notin Used(f, N) => d.objBy[q] = c.objBy[q]
      /\ \A y \in Objs : d.bufs[y] = IF y = o /\ b # Null THEN b ELSE c.bufs[y]
      /\ Allocs(d) = Allocs(c) \cup Used(f, N)
  BY DEF Gives, GivenContext, GivenTables, GivenBufs, GivenAllocs
<1>6. \A q \in Allocs(d) : e.objBy[q] = Null
  BY <1>3, <1>5 DEF ApartOK
<1>7. \A o1, o2 \in Objs : e.bufs[o1] = d.bufs[o2] => e.bufs[o1] = Null
  BY <1>4, <1>5 DEF ApartOK
<1>8. ASSUME ~x.across, NEW q \in Ptrs PROVE e.objBy[q] = Null \/ d.objBy[q] = Null
  BY <1>3, <1>5, <1>8 DEF ApartOK
<1>. QED  BY <1>2, <1>6, <1>7, <1>8 DEF ApartOK

(* So all contexts are as they should be.                                   *)
LEMMA GiveContexts ==
  ASSUME NEW x, NEW m \in Memory, MemoryOK(m), NEW n, NEW cs \in Seq(Context), cs # <<>>,
         NEW c \in Context, c = Last(cs), ContextsOK(x, m, cs),
         NEW d, NEW N, NEW f, NEW o, NEW b, Gives(m, n, c, d, N, f, o, b), NEW t, TopIs(cs, t, d)
  PROVE  ContextsOK(x, n, t)
<1>1. Len(cs) \in DOMAIN cs /\ c = cs[Len(cs)] /\ \A i \in DOMAIN cs : i # Len(cs) => i < Len(cs)
  BY TopFacts
<1>2. ShapeOK(x, c) /\ KnownOK(m, c)
  BY <1>1 DEF ContextsOK
<1>3. ShapeOK(x, d)
  BY <1>2, GiveShape
<1>4. KnownOK(n, d)
  BY <1>2, GiveKnowns
<1>5. ASSUME NEW i \in DOMAIN cs, i # Len(cs) PROVE KnownOK(n, cs[i]) /\ ApartOK(x, cs[i], d)
  <2>1. PICK e : e = cs[i]
    OBVIOUS
  <2>2. e \in Context /\ ShapeOK(x, e) /\ KnownOK(m, e) /\ ApartOK(x, e, c)
    BY <1>1, <1>5, <2>1 DEF ContextsOK
  <2>. QED  BY <2>1, <2>2, GiveOuter
<1>. QED  BY <1>3, <1>4, <1>5, ContextsReplaced

(* The new blocks are the context's.                                        *)
LEMMA GiveCover ==
  ASSUME NEW x, NEW m \in Memory, MemoryOK(m), NEW n, NEW cs \in Seq(Context), cs # <<>>,
         NEW c \in Context, c = Last(cs), ContextsOK(x, m, cs), CoverOK(m, cs),
         NEW d, NEW N, NEW f, NEW o, NEW b, Gives(m, n, c, d, N, f, o, b), NEW t, TopIs(cs, t, d)
  PROVE  CoverOK(n, t)
<1>1. ShapeOK(x, c) /\ KnownOK(m, c)
  BY TopFacts DEF ContextsOK
<1>2. Unknown(c, N, f, o, b)
  BY <1>1, GiveUnknown
<1>3. \A y \in Objs : c.bufs[y] # Null => d.bufs[y] = c.bufs[y]
  BY <1>2 DEF Unknown, Gives, GivenContext, GivenBufs
<1>4. Allocs(d) = Allocs(c) \cup Used(f, N) /\ (b # Null => d.bufs[o] = b /\ o \in Objs)
  BY DEF Gives, GivenContext, GivenAllocs, GivenBufs, Blocks, Takes
<1>5. GivenElsewhere(m, n, N, f, b) /\ Null \notin Ptrs
  BY CapiAssumption DEF Gives, GivenMemory
<1>6. ASSUME NEW q \in Ptrs, n.heap[q] = "ours"
      PROVE  \/ q \in Allocs(d) \/ Pinned(n, q) \/ \E y \in Objs : d.bufs[y] = q
             \/ /\ m.heap[q] = "ours" /\ (Pinned(m, q) => Pinned(n, q)) /\ q # Null
                /\ q \in Allocs(c) => q \in Allocs(d)
                /\ \A y \in Objs : c.bufs[y] = q => d.bufs[y] = q
  <2>1. CASE q \in Used(f, N)
    BY <1>4, <2>1
  <2>2. CASE q = b
    BY <1>4, <1>5, <2>2
  <2>3. CASE q \notin Used(f, N) /\ q # b
    <3>1. n.heap[q] = m.heap[q] /\ n.reg[q] = m.reg[q]
      BY <1>5, <2>3 DEF GivenElsewhere
    <3>. QED  BY <1>3, <1>4, <1>5, <1>6, <3>1 DEF Pinned
  <2>. QED  BY <2>1, <2>2, <2>3
<1>7. StillOurs(m, n, c, d)
  BY <1>6 DEF StillOurs
<1>. QED  BY <1>7, CoverReplaced

(* The counts of old blocks are not concerned, and nobody has a reference   *)
(* to a new one.                                                            *)
LEMMA GiveOwns ==
  ASSUME NEW x, NEW m \in Memory, MemoryOK(m), NEW n, NEW cs \in Seq(Context), cs # <<>>,
         NEW c \in Context, c = Last(cs), ContextsOK(x, m, cs), NEW w \in [Ptrs -> Nat], OwnsOK(x, m, cs, w),
         NEW d, NEW N, NEW f, NEW o, NEW b, Gives(m, n, c, d, N, f, o, b), NEW t, TopIs(cs, t, d)
  PROVE  OwnsOK(x, n, t, w)
<1>1. SUFFICES ASSUME ~x.across, ~x.inline PROVE OwnsOK(x, n, t, w)
  BY DEF OwnsOK
<1>2. /\ \A q \in Ptrs : w[q] > 0 => m.body[q].obj # Null
      /\ \A i \in DOMAIN cs : Counts(m, cs[i], w)
  BY <1>1 DEF OwnsOK
<1>3. KeepsOurs(m, n) /\ AllFree(m, N, f, b) /\ Used(f, N) \subseteq Ptrs
  BY GiveKept
<1>4. \A q \in Ptrs : m.body[q].obj # Null => m.heap[q] = "ours"
  BY OwnedFacts
<1>5. \A q \in Ptrs : w[q] > 0 => n.body[q].obj # Null
  BY <1>2, <1>3, <1>4 DEF KeepsOurs
<1>6. ASSUME NEW i \in DOMAIN cs
      PROVE  \A q \in Allocs(cs[i]) : q \in Ptrs /\ n.hdr[q] = m.hdr[q] /\ (Pinned(m, q) => Pinned(n, q))
  <2>1. cs[i] \in Context /\ ShapeOK(x, cs[i]) /\ KnownOK(m, cs[i])
    BY DEF ContextsOK
  <2>2. \A q \in Allocs(cs[i]) : q \in Ptrs /\ m.body[q].obj # Null
    BY <2>1, ContextFields DEF ShapeOK, KnownOK
  <2>. QED  BY <1>3, <1>4, <2>2 DEF KeepsOurs, Pinned
<1>7. ASSUME NEW i \in DOMAIN cs PROVE Counts(n, cs[i], w)
  BY <1>2, <1>6 DEF Counts
<1>8. Counts(n, d, w)
  <2>1. Len(cs) \in DOMAIN cs /\ c = cs[Len(cs)]
    BY TopFacts
  <2>2. Counts(n, c, w) /\ ShapeOK(x, c) /\ KnownOK(m, c)
    BY <1>7, <2>1 DEF ContextsOK
  <2>3. Unknown(c, N, f, o, b)
    BY <2>2, GiveUnknown
  <2>4. /\ \A q \in Ptrs : c.objBy[q] # Null => q \notin Used(f, N) /\ c.objBy[q] \in Objs /\ c.objBy[q] \notin N
        /\ Allocs(c) \subseteq Ptrs /\ \A q \in Allocs(c) : c.objBy[q] # Null
    BY <2>3 DEF Unknown
  <2>5. /\ \A q \in Ptrs : q \notin Used(f, N) => d.objBy[q] = c.objBy[q]
        /\ \A y \in N : d.objBy[f[y]] = y
        /\ \A y \in Objs : y \notin N => d.ptrBy[y] = c.ptrBy[y]
        /\ \A y \in Objs : d.slot[y] >= c.slot[y]
        /\ \A y \in N : d.slot[y] = c.slot[y] + 1
        /\ Allocs(d) = Allocs(c) \cup Used(f, N)
    BY DEF Gives, GivenContext, GivenTables, GivenSlots, GivenAllocs
  <2>6. N \subseteq Objs /\ \A y \in Objs : c.slot[y] \in Nat
    BY ContextFields DEF Gives, Blocks
  <2>7. ASSUME NEW q \in Used(f, N)
        PROVE  n.hdr[q] > w[q] /\ d.slot[d.objBy[q]] > w[q]
    <3>1. PICK y \in N : q = f[y]
      BY DEF Used
    <3>2. q \in Ptrs /\ WasFree(m, q)
      BY <1>3 DEF AllFree
    <3>3. w[q] = 0
      <4>1. w[q] \in Nat /\ ~(w[q] > 0)
        BY <1>2, <3>2 DEF WasFree
      <4>. QED  BY <4>1
    <3>4. n.hdr[q] = c.slot[y] + 1
      BY <3>1 DEF Gives, GivenMemory, GivenBlock
    <3>5. d.slot[d.objBy[q]] = c.slot[y] + 1 /\ c.slot[y] \in Nat
      BY <2>5, <2>6, <3>1
    <3>. QED  BY <3>3, <3>4, <3>5
  <2>8. ASSUME NEW q \in Allocs(c)
        PROVE  /\ Pinned(n, q) \/ n.hdr[q] > w[q]
               /\ d.ptrBy[d.objBy[q]] = q => d.slot[d.objBy[q]] > w[q]
    <3>1. q \in Ptrs /\ d.objBy[q] = c.objBy[q] /\ c.objBy[q] \in Objs /\ d.ptrBy[c.objBy[q]] = c.ptrBy[c.objBy[q]]
      BY <2>4, <2>5
    <3>2. /\ Pinned(n, q) \/ n.hdr[q] > w[q]
          /\ c.ptrBy[c.objBy[q]] = q => c.slot[c.objBy[q]] > w[q]
      BY <2>2 DEF Counts
    <3>3. PICK y \in Objs : y = c.objBy[q]
      BY <3>1
    <3>4. d.slot[y] >= c.slot[y] /\ c.slot[y] \in Nat /\ d.slot[y] \in Nat /\ w[q] \in Nat
      <4>1. d \in Context
        <5>1. t[Len(cs)] = d /\ t \in Seq(Context) /\ Len(cs) \in DOMAIN t
          BY <2>1 DEF TopIs
        <5>. QED  BY <5>1
      <4>. QED  BY <2>5, <2>6, <3>1, <4>1, ContextFields
    <3>5. c.slot[y] > w[q] => d.slot[y] > w[q]
      BY <3>4
    <3>. QED  BY <3>1, <3>2, <3>3, <3>5
  <2>. QED  BY <2>5, <2>7, <2>8 DEF Counts
<1>9. ASSUME NEW i \in DOMAIN t PROVE Counts(n, t[i], w)
  BY <1>7, <1>8 DEF TopIs
<1>. QED  BY <1>5, <1>9 DEF OwnsOK

(* A bytearray among the new blocks: the buffer is its own.                 *)
LEMMA GiveBytesNew ==
  ASSUME NEW x, ~x.across, ~x.twice, NEW m \in Memory, MemoryOK(m), NEW n, NEW cs \in Seq(Context), cs # <<>>,
         NEW c \in Context, c = Last(cs), ContextsOK(x, m, cs),
         NEW d, NEW N, NEW f, NEW o, NEW b, Gives(m, n, c, d, N, f, o, b), NEW t, TopIs(cs, t, d),
         o \in N, b # Null
  PROVE  ByteOK(x, n, t, f[o])
<1>1. PICK q : q = f[o]
  OBVIOUS
<1>2. /\ AllFree(m, N, f, b) /\ Used(f, N) \subseteq Ptrs /\ b \in Ptrs
      /\ \A r \in Ptrs : m.heap[r] = "ours" => r \notin Used(f, N) /\ r # b
  BY GiveKept
<1>3. o \in Objs /\ q \in Used(f, N) /\ q \in Ptrs
  BY <1>1, <1>2 DEF Gives, Blocks, Used
<1>4. n.body[q].obj = o /\ n.body[q].buf = b /\ n.heap[b] = "ours" /\ n.body[b].obj = Null
  <2>1. GivenBlock(m, n, c, f, o, b, o) /\ GivenBuffer(m, n, b) /\ WasFree(m, b)
    BY <1>2 DEF Gives, GivenMemory, AllFree
  <2>. QED  BY <1>1, <2>1 DEF GivenBlock, GivenBuffer, WasFree
<1>5. /\ Len(cs) \in DOMAIN cs /\ c = cs[Len(cs)] /\ DOMAIN t = DOMAIN cs /\ t[Len(cs)] = d
      /\ \A i \in DOMAIN cs : i # Len(cs) => t[i] = cs[i]
  BY TopFacts DEF TopIs
<1>6. d.ptrBy[o] = q /\ d.bufs[o] = b /\ q \in Allocs(d)
  BY <1>1, <1>3 DEF Gives, GivenContext, GivenTables, GivenBufs, GivenAllocs
<1>7. ASSUME NEW i \in DOMAIN cs
      PROVE  (\A y \in Objs : cs[i].bufs[y] # b) /\ cs[i].ptrBy[o] # q
  <2>1. cs[i] \in Context /\ ShapeOK(x, cs[i]) /\ KnownOK(m, cs[i])
    BY DEF ContextsOK
  <2>2. \A y \in Objs : cs[i].bufs[y] # b
    BY <1>2, <2>1 DEF KnownOK
  <2>3. cs[i].objBy[q] = Null
    BY <1>2, <1>3, <2>1 DEF KnownOK, AllFree, WasFree
  <2>4. o # Null /\ q # Null
    BY <1>3, CapiAssumption
  <2>5. cs[i].ptrBy[o] # q
    BY <1>3, <2>1, <2>3, <2>4 DEF ShapeOK
  <2>. QED  BY <2>2, <2>5
<1>8. \A y \in Objs : d.bufs[y] = b => y = o
  BY <1>5, <1>7 DEF Gives, GivenContext, GivenBufs
<1>9. ASSUME NEW i \in DOMAIN t
      PROVE  /\ \A y \in Objs : t[i].bufs[y] = b => y = o /\ t[i].ptrBy[o] = q
             /\ t[i].ptrBy[o] = q => t[i].bufs[o] \in {Null, b}
  <2>1. CASE i = Len(cs)
    BY <1>5, <1>6, <1>8, <2>1
  <2>2. CASE i # Len(cs)
    BY <1>5, <1>7, <2>2
  <2>. QED  BY <2>1, <2>2
<1>10. \E i \in DOMAIN t : q \in Allocs(t[i]) /\ t[i].bufs[o] = b
  BY <1>5, <1>6
<1>11. ByteOK(x, n, t, q)
  BY <1>4, <1>9, <1>10 DEF ByteOK
<1>. QED  BY <1>1, <1>11

(* A bytearray that was in memory before.                                   *)
LEMMA GiveBytesOld ==
  ASSUME NEW x, NEW m \in Memory, MemoryOK(m), NEW n, NEW cs \in Seq(Context), cs # <<>>,
         NEW c \in Context, c = Last(cs), ContextsOK(x, m, cs),
         NEW d, NEW N, NEW f, NEW o, NEW b, Gives(m, n, c, d, N, f, o, b), NEW t, TopIs(cs, t, d),
         NEW q \in Ptrs, IsByteArray(m, q), ByteOK(x, m, cs, q)
  PROVE  ByteOK(x, n, t, q)
<1>1. PICK e, y : e = m.body[q].buf /\ y = m.body[q].obj
  OBVIOUS
<1>2. /\ KeepsOurs(m, n) /\ Used(f, N) \subseteq Ptrs
      /\ \A r \in Ptrs : m.heap[r] = "ours" => r \notin Used(f, N) /\ r # b
  BY GiveKept
<1>3. /\ ~x.across /\ ~x.twice /\ e # Null /\ m.heap[e] = "ours" /\ m.body[e].obj = Null
      /\ \A i \in DOMAIN cs : \A z \in Objs : cs[i].bufs[z] = e => z = y /\ cs[i].ptrBy[y] = q
      /\ \A i \in DOMAIN cs : cs[i].ptrBy[y] = q => cs[i].bufs[y] \in {Null, e}
      /\ Pinned(m, e) \/ \E i \in DOMAIN cs : q \in Allocs(cs[i]) /\ cs[i].bufs[y] = e
  BY <1>1 DEF ByteOK
<1>4. e \in Ptrs /\ y \in Objs /\ m.heap[q] = "ours"
  <2>1. m.body[q].buf \in PtrOrNull /\ m.body[q].obj # Null
    BY MemoryFields DEF Body, IsByteArray
  <2>. QED  BY <1>1, <1>3, <2>1, OwnedFacts DEF PtrOrNull
<1>5. /\ n.body[q] = m.body[q] /\ n.heap[e] = "ours" /\ n.body[e].obj = Null /\ (Pinned(m, e) => Pinned(n, e))
      /\ q \notin Used(f, N) /\ e # b
  BY <1>2, <1>3, <1>4 DEF KeepsOurs, Pinned
<1>6. /\ Len(cs) \in DOMAIN cs /\ c = cs[Len(cs)] /\ DOMAIN t = DOMAIN cs /\ t[Len(cs)] = d
      /\ \A i \in DOMAIN cs : i # Len(cs) => t[i] = cs[i]
  BY TopFacts DEF TopIs
<1>7. Unknown(c, N, f, o, b)
  <2>1. ShapeOK(x, c) /\ KnownOK(m, c)
    BY <1>6 DEF ContextsOK
  <2>. QED  BY <2>1, GiveUnknown
<1>8. /\ \A z \in Objs : c.ptrBy[z] # Null => z \notin N
      /\ \A z \in Objs : c.bufs[z] # Null => z \notin N
      /\ b # Null => o \in N
  BY <1>7 DEF Unknown
<1>9. /\ \A z \in N : d.ptrBy[z] \in Used(f, N)
      /\ \A z \in Objs : z \notin N => d.ptrBy[z] = c.ptrBy[z] /\ d.bufs[z] = c.bufs[z]
      /\ \A z \in Objs : d.bufs[z] = c.bufs[z] \/ d.bufs[z] = b
      /\ Allocs(c) \subseteq Allocs(d)
  BY <1>8 DEF Gives, GivenContext, GivenTables, GivenBufs, GivenAllocs, Used
<1>10. ASSUME NEW z \in Objs, d.bufs[z] = e PROVE z = y /\ d.ptrBy[y] = q
  <2>1. c.bufs[z] = e
    BY <1>5, <1>9, <1>10
  <2>2. z = y /\ c.ptrBy[y] = q /\ z \notin N
    BY <1>3, <1>6, <1>8, <2>1
  <2>. QED  BY <1>9, <2>2
<1>11. ASSUME d.ptrBy[y] = q PROVE d.bufs[y] \in {Null, e}
  <2>1. y \notin N
    BY <1>5, <1>9, <1>11
  <2>2. c.ptrBy[y] = q /\ d.bufs[y] = c.bufs[y]
    BY <1>4, <1>9, <1>11, <2>1
  <2>. QED  BY <1>3, <1>6, <2>2
<1>12. ASSUME NEW i \in DOMAIN t
       PROVE  /\ \A z \in Objs : t[i].bufs[z] = e => z = y /\ t[i].ptrBy[y] = q
              /\ t[i].ptrBy[y] = q => t[i].bufs[y] \in {Null, e}
  <2>1. CASE i = Len(cs)
    BY <1>6, <1>10, <1>11, <2>1
  <2>2. CASE i # Len(cs)
    BY <1>3, <1>6, <2>2
  <2>. QED  BY <2>1, <2>2
<1>13. Pinned(n, e) \/ \E i \in DOMAIN t : q \in Allocs(t[i]) /\ t[i].bufs[y] = e
  <2>1. CASE Pinned(m, e)
    BY <1>5, <2>1
  <2>2. ASSUME NEW i \in DOMAIN cs, q \in Allocs(cs[i]) /\ cs[i].bufs[y] = e
        PROVE  q \in Allocs(t[i]) /\ t[i].bufs[y] = e
    <3>1. CASE i # Len(cs)
      BY <1>6, <2>2, <3>1
    <3>2. CASE i = Len(cs)
      <4>1. q \in Allocs(c) /\ c.bufs[y] = e
        BY <1>6, <2>2, <3>2
      <4>2. y \notin N
        BY <1>3, <1>4, <1>8, <4>1
      <4>. QED  BY <1>4, <1>6, <1>9, <3>2, <4>1, <4>2
    <3>. QED  BY <3>1, <3>2
  <2>. QED  BY <1>3, <1>6, <2>1, <2>2
<1>14. n.body[q].buf = e /\ n.body[q].obj = y
  BY <1>1, <1>5
<1>. QED  BY <1>3, <1>5, <1>12, <1>13, <1>14 DEF ByteOK

(* A new bytearray has its buffer to itself, and the old ones keep theirs.  *)
LEMMA GiveBytes ==
  ASSUME NEW x, NEW m \in Memory, MemoryOK(m), NEW n, NEW cs \in Seq(Context), cs # <<>>,
         NEW c \in Context, c = Last(cs), ContextsOK(x, m, cs), BytesOK(x, m, cs),
         NEW d, NEW N, NEW f, NEW o, NEW b, Gives(m, n, c, d, N, f, o, b), NEW t, TopIs(cs, t, d),
         Kind[o] = "bytearray" => ~x.across /\ ~x.twice
  PROVE  BytesOK(x, n, t)
<1>1. /\ KeepsOurs(m, n) /\ AllFree(m, N, f, b) /\ Used(f, N) \subseteq Ptrs
      /\ \A r \in Ptrs : m.heap[r] = "ours" => r \notin Used(f, N) /\ r # b
  BY GiveKept
<1>2. ASSUME NEW q \in Ptrs, IsByteArray(n, q)
      PROVE  /\ ByteOK(x, n, t, q)
             /\ \/ q = f[o] /\ n.body[q].buf = b
                \/ IsByteArray(m, q) /\ n.body[q] = m.body[q] /\ m.body[q].buf # b
  <2>1. CASE q \in Used(f, N)
    <3>1. PICK y \in N : q = f[y]
      BY <2>1 DEF Used
    <3>2. n.body[q].obj = y
      BY <3>1 DEF Gives, GivenMemory, GivenBlock
    <3>3. y = o /\ b # Null
      BY <1>2, <3>2 DEF IsByteArray, Gives, Takes
    <3>4. ~x.across /\ ~x.twice /\ o \in N /\ q = f[o]
      BY <1>2, <3>1, <3>2, <3>3 DEF IsByteArray
    <3>5. ByteOK(x, n, t, q)
      BY <3>3, <3>4, GiveBytesNew
    <3>6. n.body[q].buf = b
      BY <3>4 DEF Gives, GivenMemory, GivenBlock
    <3>. QED  BY <3>4, <3>5, <3>6
  <2>2. CASE q \notin Used(f, N)
    <3>1. n.body[q] = m.body[q]
      <4>1. CASE q = b
        BY <4>1, CapiAssumption DEF Gives, GivenMemory, GivenBuffer
      <4>2. CASE q # b
        BY <2>2, <4>2 DEF Gives, GivenMemory, GivenElsewhere
      <4>. QED  BY <4>1, <4>2
    <3>2. IsByteArray(m, q)
      BY <1>2, <3>1 DEF IsByteArray
    <3>3. ByteOK(x, m, cs, q)
      BY <3>2 DEF BytesOK
    <3>4. m.body[q].buf # b
      <4>1. m.body[q].buf \in PtrOrNull
        BY MemoryFields DEF Body
      <4>. QED  BY <1>1, <3>3, <4>1 DEF ByteOK, PtrOrNull
    <3>5. ByteOK(x, n, t, q)
      BY <3>2, <3>3, GiveBytesOld
    <3>. QED  BY <3>1, <3>2, <3>4, <3>5
  <2>. QED  BY <2>1, <2>2
<1>3. ASSUME NEW p \in Ptrs, NEW q \in Ptrs, IsByteArray(n, p), IsByteArray(n, q), n.body[p].buf = n.body[q].buf
      PROVE  p = q
  <2>1. CASE p = f[o] /\ q = f[o]
    BY <2>1
  <2>2. CASE IsByteArray(m, p) /\ n.body[p] = m.body[p] /\ IsByteArray(m, q) /\ n.body[q] = m.body[q]
    BY <1>3, <2>2 DEF BytesOK
  <2>. QED  BY <1>2, <1>3, <2>1, <2>2
<1>. QED  BY <1>2, <1>3 DEF BytesOK

(* Together: a step that gives blocks to native code keeps the invariant.   *)
LEMMA GiveLive ==
  ASSUME TypeInv, Careful, Live, NEW o \in Objs, o \in ext.objs, NEW f, NEW b, Give(o, f, b)
  PROVE  Live'
<1>1. PICK N, d : Gives(mem, mem', Top, d, N, f, o, b) /\ TopIs(ctxs, ctxs', d)
  BY GiveFacts
<1>2. PICK c, n, t : c = Top /\ n = mem' /\ t = ctxs'
  BY SMTT(60)
<1>3. ctxs \in Seq(Context) /\ ctxs # <<>> /\ c \in Context /\ c = Last(ctxs) /\ mem \in Memory
  BY <1>2, ActiveFacts DEF Give
<1>4. /\ handed \in SUBSET Ptrs /\ owns \in [Ptrs -> Nat]
      /\ MemoryOK(mem) /\ ContextsOK(ext, mem, ctxs) /\ CoverOK(mem, ctxs) /\ BytesOK(ext, mem, ctxs)
      /\ OwnsOK(ext, mem, ctxs, owns) /\ HandedOK(mem, handed) /\ HeldOK(mem, held)
  BY DEF TypeInv, Live
<1>5. Gives(mem, n, c, d, N, f, o, b) /\ TopIs(ctxs, t, d)
  BY <1>1, <1>2
<1>6. Kind[o] = "bytearray" => ~ext.across /\ ~ext.twice
  BY DEF Careful
<1>7. MemoryOK(n) /\ HeldOK(n, held)
  BY <1>3, <1>4, <1>5, GivenOK
<1>8. ContextsOK(ext, n, t)
  BY <1>3, <1>4, <1>5, GiveContexts
<1>9. CoverOK(n, t)
  BY <1>3, <1>4, <1>5, GiveCover
<1>10. BytesOK(ext, n, t)
  BY <1>3, <1>4, <1>5, <1>6, GiveBytes
<1>11. OwnsOK(ext, n, t, owns)
  BY <1>3, <1>4, <1>5, GiveOwns
<1>12. HandedOK(n, handed)
  <2>1. KeepsOurs(mem, n)
    BY <1>3, <1>4, <1>5, GiveKept
  <2>2. \A p \in handed : p \in Ptrs /\ Pinned(mem, p) /\ mem.body[p].obj # Null
    BY <1>4 DEF HandedOK
  <2>3. \A p \in handed : mem.heap[p] = "ours"
    BY <1>3, <1>4, <2>2, OwnedFacts
  <2>. QED  BY <2>1, <2>2, <2>3 DEF HandedOK, KeepsOurs, Pinned
<1>13. ext' = ext /\ owns' = owns /\ held' = held /\ handed' = handed
  BY DEF Give
<1>. QED  BY <1>2, <1>7, <1>8, <1>9, <1>10, <1>11, <1>12, <1>13 DEF Live

-----------------------------------------------------------------------------
(* The invariant holds                                                      *)

(* At first no address is in use, and no context is in progress.            *)
LEMMA InitInv ==
  ASSUME Init
  PROVE  IInv
<1>1. /\ ext \in Extensions /\ ctxs = <<>> /\ handed = {} /\ gone = FALSE
      /\ owns = [p \in Ptrs |-> 0] /\ held = [p \in Ptrs |-> 0]
  BY DEF Init
<1>2. /\ mem.heap = [p \in Ptrs |-> "free"] /\ mem.hdr = [p \in Ptrs |-> 0]
      /\ mem.body = [p \in Ptrs |-> NoBody] /\ mem.reg = [p \in Ptrs |-> NoEntry]
      /\ mem.pinSet = {} /\ mem.pinVec = [p \in Ptrs |-> 0]
      /\ mem.valueOf = [p \in Ptrs |-> Null] /\ mem.ptrOf = [o \in Objs |-> Null] /\ mem.bad = FALSE
  BY DEF Init
<1>3. NoBody \in Body /\ NoEntry \in Entry /\ Null \in PtrOrNull /\ Null \in ObjOrNull
  BY DEF NoBody, Body, NoEntry, Entry, PtrOrNull, ObjOrNull
<1>4. mem \in Memory
  BY <1>3 DEF Init, Memory
<1>5. \A p \in Ptrs : Backed(mem.reg[p], held[p])
  BY <1>1, <1>2 DEF Backed, NoEntry
<1>6. TypeInv
  <2>1. ctxs \in Seq(Context)
    BY <1>1
  <2>2. owns \in [Ptrs -> Nat] /\ held \in [Ptrs -> Nat]
    BY <1>1
  <2>3. handed \subseteq Ptrs /\ gone \in BOOLEAN
    BY <1>1
  <2>. QED  BY <1>1, <1>4, <1>5, <2>1, <2>2, <2>3, Zenon DEF TypeInv
<1>7. ASSUME NEW p \in Ptrs
      PROVE  /\ AddressOK(mem, p) /\ ~IsByteArray(mem, p) /\ mem.heap[p] # "ours"
             /\ mem.reg[p].prov # "external"
  BY <1>2, CapiAssumption
     DEF AddressOK, NoEntry, NoBody, Pinned, IsOwnedPinned, IsOwnedCompat, IsByteArray
<1>8. MemoryOK(mem)
  BY <1>2, <1>7 DEF MemoryOK, NameOK
<1>9. HeldOK(mem, held) /\ CoverOK(mem, ctxs) /\ BytesOK(ext, mem, ctxs) /\ HandedOK(mem, handed)
  BY <1>1, <1>7 DEF HeldOK, CoverOK, BytesOK, HandedOK
<1>10. ContextsOK(ext, mem, ctxs) /\ OwnsOK(ext, mem, ctxs, owns)
  BY <1>1 DEF ContextsOK, OwnsOK
<1>11. Live
  BY <1>8, <1>9, <1>10 DEF Live
<1>. QED  BY <1>1, <1>6, <1>11 DEF IInv

(* What a step keeps while the VM is there.                                 *)
StepKeeps == TypeInv' /\ (Careful /\ Live => Live')

(* The steps on one pointer,                                                *)
LEMMA PointerSteps ==
  ASSUME TypeInv, NEW p \in Ptrs,
         \/ Rehydrate(p) \/ HandOver(p) \/ IncRef(p) \/ DecRef(p) \/ InlineIncRef(p)
         \/ ForeignAlloc(p) \/ ForeignFree(p) \/ Proxy(p)
  PROVE  StepKeeps /\ UNCHANGED <<ext, gone>> /\ ~gone
<1>1. UNCHANGED <<ext, gone>> /\ ~gone
  BY DEF Rehydrate, HandOver, IncRef, DecRef, InlineIncRef, ForeignAlloc, ForeignFree, Proxy, Active
<1>2. CASE Rehydrate(p)
  BY <1>1, <1>2, RehydrateType, RehydrateLive DEF StepKeeps
<1>3. CASE HandOver(p)
  BY <1>1, <1>3, HandOverType, HandOverLive DEF StepKeeps
<1>4. CASE IncRef(p)
  BY <1>1, <1>4, IncRefType, IncRefLive DEF StepKeeps
<1>5. CASE DecRef(p)
  BY <1>1, <1>5, DecRefType, DecRefLive DEF StepKeeps
<1>6. CASE InlineIncRef(p)
  BY <1>1, <1>6, InlineIncRefType, InlineIncRefLive DEF StepKeeps
<1>7. CASE ForeignAlloc(p)
  BY <1>1, <1>7, ForeignAllocStep DEF StepKeeps
<1>8. CASE ForeignFree(p)
  BY <1>1, <1>8, ForeignFreeStep DEF StepKeeps
<1>9. CASE Proxy(p)
  BY <1>1, <1>9, ProxyStep DEF StepKeeps
<1>. QED  BY <1>1, <1>2, <1>3, <1>4, <1>5, <1>6, <1>7, <1>8, <1>9

(* a block that is made,                                                    *)
LEMMA GiveKeeps ==
  ASSUME TypeInv, NEW o \in ext.objs, NEW f, NEW b, Give(o, f, b)
  PROVE  StepKeeps /\ UNCHANGED <<ext, gone>> /\ ~gone
<1>1. o \in Objs
  <2>1. ext \in ExtensionType
    BY CapiAssumption DEF TypeInv
  <2>. QED  BY <2>1 DEF ExtensionType
<1>2. UNCHANGED <<ext, gone>> /\ ~gone
  BY DEF Give, Active
<1>3. TypeInv'
  BY <1>1, GiveType
<1>4. ASSUME Careful, Live PROVE Live'
  BY <1>1, <1>4, GiveLive
<1>. QED  BY <1>2, <1>3, <1>4 DEF StepKeeps

(* and the beginning and end of a context and of a buffer.                  *)
LEMMA OtherSteps ==
  ASSUME TypeInv,
         \/ Enter(FALSE) \/ Enter(TRUE) \/ Leave
         \/ \E o \in Objs : Adopt(o) \/ \E b \in Ptrs : Grow(o, b)
  PROVE  StepKeeps /\ UNCHANGED <<ext, gone>> /\ ~gone
<1>1. CASE Enter(FALSE) \/ Enter(TRUE)
  <2>1. PICK keep \in BOOLEAN : Enter(keep)
    BY <1>1
  <2>2. TypeInv' /\ (Live => Live')
    BY <2>1, EnterType, EnterLive
  <2>. QED  BY <2>1, <2>2 DEF Enter, StepKeeps
<1>2. CASE Leave
  BY <1>2, LeaveType, LeaveLive DEF StepKeeps, Leave, Active
<1>3. ASSUME NEW o \in Objs, Adopt(o) PROVE StepKeeps /\ UNCHANGED <<ext, gone>> /\ ~gone
  <2>1. TypeInv' /\ (Live => Live')
    BY <1>3, AdoptType, AdoptLive
  <2>. QED  BY <1>3, <2>1 DEF StepKeeps, Adopt, Active
<1>4. ASSUME NEW o \in Objs, NEW b \in Ptrs, Grow(o, b) PROVE StepKeeps /\ UNCHANGED <<ext, gone>> /\ ~gone
  <2>1. TypeInv' /\ (Live => Live')
    BY <1>4, GrowType, GrowLive
  <2>. QED  BY ZenonT(40), <1>4, <2>1 DEF StepKeeps, Grow, Active
<1>. QED  BY <1>1, <1>2, <1>3, <1>4

(* Every step keeps the invariant.                                          *)
LEMMA NextInv ==
  ASSUME IInv, [Next]_vars
  PROVE  IInv'
<1>1. TypeInv
  BY DEF IInv
<1>2. ASSUME StepKeeps, UNCHANGED <<ext, gone>>, ~gone PROVE IInv'
  <2>1. Careful' <=> Careful
    BY <1>2 DEF Careful
  <2>. QED  BY <1>2, <2>1 DEF IInv, StepKeeps
<1>3. CASE UNCHANGED vars
  <2>1. UNCHANGED <<ext, mem, ctxs, handed, owns, held, gone>>
    BY <1>3 DEF vars
  <2>. QED  BY <2>1 DEF IInv, TypeInv, Live, Over, Careful
<1>4. CASE VmDrop
  <2>1. ~gone /\ gone' /\ ext' = ext
    BY <1>4 DEF VmDrop
  <2>2. TypeInv' /\ (Live => Over')
    BY <1>1, <1>4, VmDropType, VmDropOver
  <2>3. Careful' <=> Careful
    BY <2>1 DEF Careful
  <2>. QED  BY <2>1, <2>2, <2>3 DEF IInv
<1>5. CASE Enter(FALSE) \/ Enter(TRUE) \/ Leave \/ \E o \in Objs : Adopt(o) \/ \E b \in Ptrs : Grow(o, b)
  BY <1>1, <1>2, <1>5, OtherSteps
<1>6. ASSUME NEW p \in Ptrs,
             \/ Rehydrate(p) \/ HandOver(p) \/ IncRef(p) \/ DecRef(p) \/ InlineIncRef(p)
             \/ ForeignAlloc(p) \/ ForeignFree(p) \/ Proxy(p)
      PROVE  IInv'
  BY <1>1, <1>2, <1>6, PointerSteps
<1>7. ASSUME NEW o \in ext.objs, NEW f, NEW b, Give(o, f, b) PROVE IInv'
  BY <1>1, <1>2, <1>7, GiveKeeps
<1>. QED  BY <1>3, <1>4, <1>5, <1>6, <1>7 DEF Next

(* It holds in every state.                                                 *)
LEMMA Invariance == Spec => []IInv
<1>1. Init => IInv
  BY InitInv
<1>2. IInv /\ [Next]_vars => IInv'
  BY NextInv
<1>. QED  BY <1>1, <1>2, PTL DEF Spec

-----------------------------------------------------------------------------
(* What it says                                                             *)

(* The registry, the VM's set and list of pinned allocations and its two    *)
(* tables of values agree in every state, whatever the addresses were used  *)
(* for before (capi_registry.rs, mod.rs).                                   *)
THEOREM TheRegistryIsConsistent == Spec => []RegistryConsistent
<1>1. IInv => RegistryConsistent
  <2>1. SUFFICES ASSUME IInv PROVE RegistryConsistent
    OBVIOUS
  <2>2. TypeOK
    <3>1. mem \in Memory /\ ctxs \in Seq(Context)
      BY <2>1 DEF IInv, TypeInv
    <3>2. /\ mem.heap \in [Ptrs -> {"free", "ours", "theirs"}] /\ mem.hdr \in [Ptrs -> Nat]
          /\ mem.body \in [Ptrs -> Body] /\ mem.reg \in [Ptrs -> Entry] /\ mem.pinSet \in SUBSET Ptrs
          /\ mem.pinVec \in [Ptrs -> Nat] /\ mem.valueOf \in [Ptrs -> ObjOrNull \cup {Proxied}]
          /\ mem.ptrOf \in [Objs -> PtrOrNull] /\ mem.bad \in BOOLEAN
      BY <3>1, MemoryFields
    <3>. QED  BY Zenon, <2>1, <3>1, <3>2 DEF TypeOK, IInv, TypeInv, Body, Entry, Context
  <2>3. Careful => mem \in Memory /\ MemoryOK(mem)
    BY <2>1 DEF IInv, TypeInv, Live, Over
  <2>4. ASSUME Careful PROVE PinsAgree
    <3>1. SUFFICES ASSUME NEW p \in Ptrs
                   PROVE  /\ (p \in mem.pinSet) <=> IsOwnedPinned(mem.reg[p])
                          /\ p \in mem.pinSet => mem.heap[p] = "ours" /\ mem.pinVec[p] > 0
      BY DEF PinsAgree
    <3>2. mem \in Memory /\ MemoryOK(mem) /\ AddressOK(mem, p)
      BY <2>3, <2>4 DEF MemoryOK
    <3>. QED  BY <3>2, OwnedFacts DEF AddressOK, Pinned
  <2>5. ASSUME Careful PROVE ValuesCurrent
    <3>1. mem \in Memory /\ MemoryOK(mem)
      BY <2>3, <2>5
    <3>2. ASSUME NEW p \in Ptrs, mem.valueOf[p] \in Objs
          PROVE  mem.heap[p] = "ours" /\ mem.body[p].obj = mem.valueOf[p]
      BY <3>1, <3>2, CapiAssumption DEF MemoryOK, AddressOK
    <3>3. ASSUME NEW o \in Objs, Reusable(mem, o) PROVE mem.body[mem.ptrOf[o]].obj = o
      BY <3>1, <3>3 DEF MemoryOK, NameOK, Reusable
    <3>. QED  BY <3>2, <3>3 DEF ValuesCurrent
  <2>. QED  BY <2>2, <2>4, <2>5 DEF RegistryConsistent
<1>. QED  BY <1>1, Invariance, PTL

(* A block that native code gave to the VM, or took a reference to, is not  *)
(* freed by the end of the context it was made in (Drop for                 *)
(* ModuleCapiContext).                                                      *)
THEOREM KeptBlocksStay == Spec => []KeptStay
<1>1. IInv => KeptStay
  <2>1. SUFFICES ASSUME IInv, Careful, ~gone
                 PROVE  /\ \A p \in handed : mem.heap[p] = "ours"
                        /\ ~ext.across /\ ~ext.inline => \A p \in Ptrs : owns[p] > 0 => mem.heap[p] = "ours"
    BY DEF KeptStay, HandedStay, RetainedStay
  <2>2. /\ mem \in Memory /\ handed \subseteq Ptrs
        /\ MemoryOK(mem) /\ HandedOK(mem, handed) /\ OwnsOK(ext, mem, ctxs, owns)
    BY <2>1 DEF IInv, TypeInv, Live
  <2>3. ASSUME NEW p \in handed PROVE mem.heap[p] = "ours"
    BY <2>2, OwnedFacts DEF HandedOK
  <2>4. ASSUME ~ext.across, ~ext.inline, NEW p \in Ptrs, owns[p] > 0 PROVE mem.heap[p] = "ours"
    BY <2>2, <2>4, OwnedFacts DEF OwnsOK
  <2>. QED  BY <2>3, <2>4
<1>. QED  BY <1>1, Invariance, PTL

(* Neither a context, nor the growth of a buffer, nor the VM ever frees a   *)
(* block that is not allocated or not ours (Drop for ModuleCapiContext,     *)
(* Drop for Vm).                                                            *)
THEOREM BlocksAreFreedOnce == Spec => []FreedOnce
<1>1. IInv => FreedOnce
  BY DEF IInv, Live, Over, MemoryOK, FreedOnce
<1>. QED  BY <1>1, Invariance, PTL

(* When the VM is gone every block of ours was freed and every reference to *)
(* a native object was given back (Drop for Vm).                            *)
THEOREM NothingIsLeft == Spec => []NothingLeft
<1>1. IInv => NothingLeft
  BY DEF IInv, Over, NothingLeft
<1>. QED  BY <1>1, Invariance, PTL
=============================================================================
