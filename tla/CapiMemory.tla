---- MODULE CapiMemory ----
(***************************************************************************)
(* Who frees the memory that native extensions see                         *)
(* (src/vm/capi_registry.rs, src/vm/vm_extensions.rs, src/vm/mod.rs).      *)
(*                                                                         *)
(* A value that is given to native code gets a block with a CPython object *)
(* header.  The block belongs to the context of the call in progress,      *)
(* which frees it when the call ends, unless the block is pinned or        *)
(* escapes: then it belongs to the VM until the VM goes.  The registry     *)
(* says for every address whose block it is and whether it is pinned; the  *)
(* VM also keeps a set and a list of what it has pinned.  An address is    *)
(* used again after it was freed, by this program or by native code.       *)
(*                                                                         *)
(* mem holds what the VM shares: heap (who allocated the block at an       *)
(* address), hdr (ob_refcnt), body (the object of a block, the pointers    *)
(* stored in it and its separate buffer), reg (the registry), pinSet and   *)
(* pinVec (the pinned allocations; pinVec counts an address's places in    *)
(* the list), valueOf (extension_cpython_ptr_values), ptrOf                *)
(* (extension_cpython_ptr_by_object_id), and bad: free was called on a     *)
(* block that was not ours to free.                                        *)
(***************************************************************************)
EXTENDS Naturals, Sequences, SequencesExt, FiniteSets

CONSTANTS Ptrs,      \* addresses
          Objs,      \* runtime objects
          Kind,      \* Kind[o]: plain, tuple, list, bytearray, dict, wrapper or interned
          Items,     \* Items[o]: the items of a container (an instance's class too)
          Null,
          Proxied,   \* the value that stands for an object of native code
          MaxPlaces, \* bound on the places of one address in the pinned list
          Extensions \* what the native code may be like, see ExtensionType

Kinds == {"plain", "tuple", "list", "bytearray", "dict", "wrapper", "interned"}

\* objs: the objects it meets; depth: a bound on nested contexts; refs: a
\* bound on the references it takes to one block; inits: there
\* are contexts of module initialisation; across: it uses an outer context's
\* pointers in an inner one; twice: it uses in one context two pointers to the
\* same object; inline: it counts references without calling the VM; foreign:
\* it allocates objects of its own.
ExtensionType ==
  [objs : SUBSET Objs, depth : Nat, refs : Nat, inits : BOOLEAN, across : BOOLEAN,
   twice : BOOLEAN, inline : BOOLEAN, foreign : BOOLEAN]

ASSUME CapiAssumption ==
  /\ Kind \in [Objs -> Kinds]
  /\ Items \in [Objs -> Seq(Objs)]
  /\ \A o \in Objs : \A i \in DOMAIN Items[o] :
       /\ Kind[o] \in {"tuple", "list"} /\ Kind[Items[o][i]] \notin {"list", "bytearray", "dict"}
       /\ Items[Items[o][i]] = <<>>
       /\ \A j \in DOMAIN Items[o] : Items[o][i] = Items[o][j] => i = j
  /\ MaxPlaces \in Nat /\ Extensions \subseteq ExtensionType
  /\ Null \notin Ptrs \cup Objs /\ Proxied \notin Objs \cup {Null}

VARIABLES ext,     \* the native code of this behaviour
          mem,
          ctxs,    \* the contexts in progress, the active one last
          handed,  \* blocks whose reference native code handed over to the VM
          owns,    \* owns[p]: references native code has taken to p and not released
          held,    \* held[p]: references the VM has taken to native code's object p
          gone     \* the VM was dropped

vars == <<ext, mem, ctxs, handed, owns, held, gone>>

NoEntry == [prov |-> "none", life |-> "freed", pins |-> 0, id |-> Null]

NoBody == [obj |-> Null, items |-> {}, buf |-> Null]

NewContext(keep) ==
  [keep |-> keep, allocs |-> <<>>,
   objBy |-> [p \in Ptrs |-> Null],  \* cpython_objects_by_ptr, through the handle
   ptrBy |-> [o \in Objs |-> Null],  \* cpython_ptr_by_handle
   slot |-> [o \in Objs |-> 0],      \* the handle's refcount; 0: the object has no handle
   bufs |-> [o \in Objs |-> Null]]   \* list buffers, bytearray buffers, a dict's keys stub

Init ==
  /\ ext \in Extensions
  /\ mem = [heap |-> [p \in Ptrs |-> "free"], hdr |-> [p \in Ptrs |-> 0],
            body |-> [p \in Ptrs |-> NoBody], reg |-> [p \in Ptrs |-> NoEntry],
            pinSet |-> {}, pinVec |-> [p \in Ptrs |-> 0],
            valueOf |-> [p \in Ptrs |-> Null], ptrOf |-> [o \in Objs |-> Null], bad |-> FALSE]
  /\ ctxs = <<>> /\ handed = {} /\ gone = FALSE
  /\ owns = [p \in Ptrs |-> 0] /\ held = [p \in Ptrs |-> 0]

-----------------------------------------------------------------------------
(* The registry *)

\* register_ptr
Registered(e, prov, id) ==
  [prov |-> prov, life |-> "alive",
   pins |-> IF e.life = "freed" \/ (id # Null /\ id # e.id) THEN 0 ELSE e.pins,
   id |-> IF id # Null THEN id ELSE e.id]

\* ensure_owned_compat_entry and pin_owned_once on an entry of ours.
PinnedEntry(e) == [e EXCEPT !.prov = "owned", !.life = "alive", !.pins = 1]

\* mark_freed
FreedEntry(e) == [e EXCEPT !.life = "freed", !.pins = 0]

IsOwnedPinned(e) == e.prov = "owned" /\ e.life # "freed" /\ e.pins > 0

IsOwnedCompat(e) == e.prov = "owned" /\ e.life # "freed"

ShouldFreeNow(e) == e.life # "freed" /\ e.prov = "owned" /\ e.pins = 0

\* ensure_owned_compat_entry refuses an address registered for native code's object.
CanPin(e) == e.prov # "external"

-----------------------------------------------------------------------------
(* The VM's view: the registry and the pinned allocations *)

\* capi_owned_ptr_is_pinned
IsPinned(m, p) == p \in m.pinSet \/ IsOwnedPinned(m.reg[p])

\* capi_ptr_is_owned_compat
Owned(m, p) == p \in m.pinSet \/ IsOwnedCompat(m.reg[p])

\* capi_pin_owned_ptr for every address of S.
Pin(m, S) ==
  LET T == {p \in S : CanPin(m.reg[p])}
  IN  [m EXCEPT !.reg = [p \in Ptrs |-> IF p \in T THEN PinnedEntry(@[p]) ELSE @[p]],
                !.pinSet = @ \cup T,
                !.pinVec = [p \in Ptrs |-> IF p \in T \ m.pinSet THEN @[p] + 1 ELSE @[p]]]

Register(m, S, prov) ==
  [m EXCEPT !.reg = [p \in Ptrs |-> IF p \in S THEN Registered(@[p], prov, Null) ELSE @[p]]]

\* A slip: the VM's set keeps the address.
ReleaseStillPinned(m, S) ==
  [m EXCEPT !.bad = @ \/ \E p \in S : m.heap[p] # "ours",
            !.heap = [p \in Ptrs |-> IF p \in S THEN "free" ELSE @[p]],
            !.body = [p \in Ptrs |-> IF p \in S THEN NoBody ELSE @[p]],
            !.hdr = [p \in Ptrs |-> IF p \in S THEN 0 ELSE @[p]],
            !.reg = [p \in Ptrs |-> IF p \in S THEN FreedEntry(@[p]) ELSE @[p]]]

\* free, capi_unpin_owned_ptr and mark_freed for every address of S.
Release(m, S) ==
  [m EXCEPT !.bad = @ \/ \E p \in S : m.heap[p] # "ours",
            !.heap = [p \in Ptrs |-> IF p \in S THEN "free" ELSE @[p]],
            !.body = [p \in Ptrs |-> IF p \in S THEN NoBody ELSE @[p]],
            !.hdr = [p \in Ptrs |-> IF p \in S THEN 0 ELSE @[p]],
            !.reg = [p \in Ptrs |-> IF p \in S THEN FreedEntry(@[p]) ELSE @[p]],
            !.pinSet = @ \ S]

\* The value of the block is forgotten, in both directions.
Forget(m, p) ==
  LET o == m.valueOf[p]
  IN  [m EXCEPT !.valueOf[p] = Null,
                !.ptrOf = [x \in Objs |-> IF x = o /\ @[x] = p THEN Null ELSE @[x]]]

\* persist_escaped_ptr_value
Persist(m, o, p) == [m EXCEPT !.ptrOf[o] = p, !.valueOf[p] = o]

-----------------------------------------------------------------------------
(* A context's own view *)

Active == ctxs # <<>> /\ ~gone

Top == Last(ctxs)

SetTop(c) == ctxs' = Append(Front(ctxs), c)

Free == {p \in Ptrs : mem.heap[p] = "free"}

\* alloc_cpython_ptr_for_value: a block of an earlier context that may be given again.
Reusable(m, o) ==
  LET q == m.ptrOf[o] IN q # Null /\ IsPinned(m, q) /\ m.valueOf[q] # Null

Fresh(c, o) == ~Reusable(mem, o) /\ c.ptrBy[o] = Null

\* The pointer an object has once those of f were allocated.
PtrFor(c, f, o) ==
  IF o \in DOMAIN f THEN f[o] ELSE IF Reusable(mem, o) THEN mem.ptrOf[o] ELSE c.ptrBy[o]

HasBuffer(o) ==
  Kind[o] \in {"bytearray", "dict"} \/ (Kind[o] = "list" /\ Items[o] # <<>>)

Injective(f) == \A x, y \in DOMAIN f : f[x] = f[y] => x = y

ItemSet(o) == {Items[o][i] : i \in DOMAIN Items[o]}

\* The objects a request for o's pointer asks about: those in it only when o is new.
Asked(c, o) == IF Fresh(c, o) THEN ItemSet(o) \cup {o} ELSE {o}

\* Native code can use p in the active context: p was given in it, or is left
\* of an earlier context, or belongs to an outer context.
Usable(p) ==
  /\ mem.heap[p] = "ours" /\ mem.body[p].obj # Null
  /\ \/ Top.objBy[p] # Null
     \/ \A i \in DOMAIN ctxs : ctxs[i].objBy[p] = Null
     \/ ext.across

-----------------------------------------------------------------------------
(* Calls into native code *)

Enter(keep) ==
  /\ ~gone /\ Len(ctxs) < ext.depth
  /\ ctxs' = Append(ctxs, NewContext(keep))
  /\ UNCHANGED <<ext, mem, handed, owns, held, gone>>

\* alloc_cpython_ptr_for_value(o): the block given before, if it is pinned;
\* else the one of this context; else new blocks f for o and for those of its
\* items that have none, and a buffer b.  Items are registered before o, in
\* whichever order.
Give(o, f, b) ==
  LET c == Top
      asked == Asked(c, o)
      new == {x \in asked : Fresh(c, x)}
      used == {f[x] : x \in new}
      named == {x \in asked : ~Reusable(mem, x)}
      ptr(x) == PtrFor(c, f, x)
      bodyOf(x) == [obj |-> x, items |-> {ptr(y) : y \in ItemSet(x)}, buf |-> IF x = o THEN b ELSE Null]
      at(p) == CHOOSE x \in new : f[x] = p
      order == IF o \in new THEN Append(SetToSeq(new \ {o}), o) ELSE <<>>
      bufs == {b} \ {Null}
  IN  /\ Active
      /\ \A x \in named : c.slot[x] <= ext.refs
      /\ f \in [new -> Free] /\ Injective(f)
      /\ b \in IF o \in new /\ HasBuffer(o) THEN Free \ used ELSE {Null}
      /\ mem' = [mem EXCEPT
           !.heap = [p \in Ptrs |-> IF p \in used \cup bufs THEN "ours" ELSE @[p]],
           !.hdr = [p \in Ptrs |-> IF p \in used THEN c.slot[at(p)] + 1 ELSE @[p]],
           !.body = [p \in Ptrs |-> IF p \in used THEN bodyOf(at(p)) ELSE @[p]],
           !.reg = [p \in Ptrs |-> IF p \in used THEN Registered(@[p], "owned", at(p))
                                   ELSE IF p \in bufs THEN Registered(@[p], "owned", Null) ELSE @[p]],
           !.valueOf = [p \in Ptrs |-> IF p \in used THEN at(p) ELSE
                          IF \E x \in asked : Reusable(mem, x) /\ mem.ptrOf[x] = p
                          THEN CHOOSE x \in asked : Reusable(mem, x) /\ mem.ptrOf[x] = p ELSE @[p]],
           !.ptrOf = [x \in Objs |-> IF x \in new THEN f[x] ELSE IF x \in named THEN Null ELSE @[x]]]
      /\ SetTop([c EXCEPT
           !.allocs = @ \o [i \in DOMAIN order |-> f[order[i]]],
           !.objBy = [p \in Ptrs |-> IF p \in used THEN at(p) ELSE @[p]],
           !.ptrBy = [x \in Objs |-> IF x \in new THEN f[x] ELSE @[x]],
           !.slot = [x \in Objs |-> IF x \in named THEN @[x] + 1 ELSE @[x]],
           !.bufs = [x \in Objs |-> IF x = o /\ b # Null THEN b ELSE @[x]]])
      /\ UNCHANGED <<ext, handed, owns, held, gone>>

\* cpython_value_from_ptr for a pointer without a handle in this context:
\* rehydrate_vm_cached_compat_value for the kinds that keep their items or
\* bytes in the block.  From now on the context takes p for the block of o.
Rehydrate(p) ==
  LET c == Top
      o == mem.valueOf[p]
  IN  /\ Active /\ Usable(p) /\ c.objBy[p] = Null
      /\ o \in Objs /\ Kind[o] \in {"tuple", "list", "bytearray", "interned"}
      /\ c.slot[o] <= ext.refs /\ (c.ptrBy[o] = Null \/ ext.twice)
      /\ mem' = Persist(mem, o, p)
      /\ SetTop([c EXCEPT !.objBy[p] = o, !.ptrBy[o] = p, !.slot[o] = @ + 1])
      /\ UNCHANGED <<ext, handed, owns, held, gone>>

\* cpython_value_from_owned_ptr, cpython_value_from_stolen_ptr: native code
\* returns p or gives it away.
HandOver(p) ==
  /\ Active /\ Usable(p) /\ Top.objBy[p] # Null /\ Owned(mem, p) /\ p \notin handed
  /\ mem' = Pin(Register(mem, {p}, "owned"), {p})
  /\ handed' = handed \cup {p}
  /\ UNCHANGED <<ext, ctxs, owns, held, gone>>

\* sync_cpython_storage_inner: the contents of a list or bytearray no longer
\* fit.  A list's buffer is known to the context that made it; a bytearray's is
\* read from the block.  The buffer moves to b.
Grow(o, b) ==
  LET c == Top
      p == c.ptrBy[o]
      old == IF c.bufs[o] # Null \/ Kind[o] = "list" THEN c.bufs[o] ELSE mem.body[p].buf
      pinned == old # Null /\ IsPinned(mem, old)
      moved == [(IF old = Null THEN mem ELSE Release(mem, {old})) EXCEPT !.heap[b] = "ours"]
      now == Register([moved EXCEPT !.body[p].buf = b], {b}, "owned")
  IN  /\ Active /\ p # Null /\ HasBuffer(o) /\ Kind[o] \in {"list", "bytearray"}
      /\ mem.heap[p] = "ours" /\ b \in Free /\ mem.pinVec[b] < MaxPlaces
      /\ mem' = IF pinned THEN Pin(now, {b}) ELSE now
      /\ SetTop([c EXCEPT !.bufs[o] = b])
      /\ UNCHANGED <<ext, handed, owns, held, gone>>

\* Any later write to a bytearray whose buffer this context does not know yet:
\* the context takes it over.
Adopt(o) ==
  LET c == Top
      p == c.ptrBy[o]
  IN  /\ Active /\ p # Null /\ Kind[o] = "bytearray" /\ c.bufs[o] = Null
      /\ mem.heap[p] = "ours" /\ mem.body[p].buf # Null
      /\ mem' = Register(mem, {mem.body[p].buf}, "owned")
      /\ SetTop([c EXCEPT !.bufs[o] = mem.body[p].buf])
      /\ UNCHANGED <<ext, handed, owns, held, gone>>

-----------------------------------------------------------------------------
(* Reference counts: the header's, and the one of the context's handle *)

\* sync_cpython_header_refcount after the handle's count became n.
Counted(m, c, o, n) ==
  LET q == c.ptrBy[o]
  IN  IF q # Null /\ Owned(m, q) THEN [m EXCEPT !.hdr[q] = n] ELSE m

\* Py_IncRef
IncRef(p) ==
  LET c == Top
      o == c.objBy[p]
      m == [mem EXCEPT !.hdr[p] = @ + 1]
  IN  /\ Active /\ Usable(p) /\ owns[p] < ext.refs /\ (o # Null => c.slot[o] <= ext.refs)
      /\ IF o = Null THEN mem' = m /\ UNCHANGED ctxs
         ELSE mem' = Counted(m, c, o, c.slot[o] + 1) /\ SetTop([c EXCEPT !.slot[o] = @ + 1])
      /\ owns' = [owns EXCEPT ![p] = @ + 1]
      /\ UNCHANGED <<ext, handed, held, gone>>

\* Py_DecRef; native code releases what it has taken.  Interned text keeps its count.
DecRef(p) ==
  LET c == Top
      o == c.objBy[p]
      interned == Kind[mem.body[p].obj] = "interned"
      h == mem.hdr[p]
      m == [mem EXCEPT !.hdr[p] = IF h > 1 \/ (h > 0 /\ ~interned) THEN h - 1 ELSE h]
      n == IF c.slot[o] > 1 THEN c.slot[o] - 1 ELSE 1
  IN  /\ Active /\ Usable(p) /\ owns[p] > 0
      /\ IF o = Null \/ interned THEN mem' = m /\ UNCHANGED ctxs
         ELSE mem' = Counted(m, c, o, n) /\ SetTop([c EXCEPT !.slot[o] = n])
      /\ owns' = [owns EXCEPT ![p] = @ - 1]
      /\ UNCHANGED <<ext, handed, held, gone>>

\* Py_INCREF of the CPython headers counts in the block itself.
InlineIncRef(p) ==
  /\ ext.inline /\ Active /\ Usable(p) /\ owns[p] < ext.refs
  /\ mem' = [mem EXCEPT !.hdr[p] = @ + 1]
  /\ owns' = [owns EXCEPT ![p] = @ + 1]
  /\ UNCHANGED <<ext, ctxs, handed, held, gone>>

-----------------------------------------------------------------------------
(* Objects that native code allocates *)

ForeignAlloc(p) ==
  /\ ext.foreign /\ Active /\ p \in Free
  /\ mem' = [mem EXCEPT !.heap[p] = "theirs", !.hdr[p] = 1]
  /\ UNCHANGED <<ext, ctxs, handed, owns, held, gone>>

\* Native code frees its object once nobody holds a reference (PyMem_RawFree).
ForeignFree(p) ==
  /\ Active /\ mem.heap[p] = "theirs" /\ held[p] = 0
  /\ mem' = [mem EXCEPT !.heap[p] = "free", !.hdr[p] = 0, !.reg[p] = FreedEntry(@)]
  /\ UNCHANGED <<ext, ctxs, handed, owns, held, gone>>

\* cpython_value_from_ptr_or_proxy, cache_cpython_proxy_value_for_ptr: no value
\* is known for p, which is not ours; a proxy is made and holds a reference.
Proxy(p) ==
  LET e == Registered(mem.reg[p], "external", Proxied)
  IN  /\ Active /\ mem.heap[p] = "theirs" /\ mem.valueOf[p] = Null /\ ~Owned(mem, p)
      /\ mem' = [mem EXCEPT !.reg[p] = [e EXCEPT !.pins = 1], !.valueOf[p] = Proxied,
                            !.hdr[p] = IF e.pins = 0 THEN @ + 1 ELSE @]
      /\ held' = [held EXCEPT ![p] = IF e.pins = 0 THEN @ + 1 ELSE @]
      /\ UNCHANGED <<ext, ctxs, handed, owns, gone>>

-----------------------------------------------------------------------------
(* The end of a context *)

\* What p points to, where it is still ours: what pin_container_children_for_vm visits.
Children(m, p) ==
  LET b == m.body[p]
      inner == IF b.obj # Null /\ Kind[b.obj] = "bytearray" THEN {b.buf} ELSE {}
  IN  {q \in (b.items \cup inner) \ {Null} : Owned(m, q)}

\* The blocks of S are the VM's for the objects c knows them by.
Named(m, c, S) ==
  [m EXCEPT !.valueOf = [q \in Ptrs |-> IF q \in S THEN c.objBy[q] ELSE @[q]],
            !.ptrOf = [o \in Objs |-> IF \E q \in S : c.objBy[q] = o
                                      THEN CHOOSE q \in S : c.objBy[q] = o ELSE @[o]]]

\* pin_container_children_for_vm
PinChildren(m, c, p) ==
  LET S == Children(m, p)
  IN  Named(Pin(m, S), c, {q \in S : c.objBy[q] # Null})

Escape(a, c, p, aux) ==
  [m |-> Persist(Pin(a.m, {p}), c.objBy[p], p), escaped |-> a.escaped \cup {c.objBy[p]},
   aux |-> a.aux \/ aux]

WithChildren(a, c, p) == [a EXCEPT !.m = PinChildren(a.m, c, p)]

\* capi_owned_ptr_prepare_for_free, then the block goes or is pinned after all.
FreeOrPin(m, p) == IF ShouldFreeNow(m.reg[p]) THEN Release(Forget(m, p), {p}) ELSE Pin(m, {p})

\* A slip: one reference of native code does not count.
DropBlockLate(a, c, p) ==
  LET kind == Kind[c.objBy[p]]
  IN  CASE c.keep -> Escape(a, c, p, TRUE)
        [] ~c.keep /\ IsPinned(a.m, p) -> WithChildren(a, c, p)
        [] ~c.keep /\ ~IsPinned(a.m, p) /\ kind \in {"wrapper", "interned"} ->
             WithChildren(Escape(a, c, p, kind = "interned"), c, p)
        [] ~c.keep /\ ~IsPinned(a.m, p) /\ kind \notin {"wrapper", "interned"} /\ a.m.hdr[p] > 2 ->
             WithChildren(Escape([a EXCEPT !.m.hdr[p] = @ - 1], c, p, TRUE), c, p)
        [] OTHER -> [a EXCEPT !.m = FreeOrPin(a.m, p)]

\* One block of Drop for ModuleCapiContext; a.escaped and a.aux decide on the buffers.
DropBlock(a, c, p) ==
  LET kind == Kind[c.objBy[p]]
  IN  CASE c.keep -> Escape(a, c, p, TRUE)
        [] ~c.keep /\ IsPinned(a.m, p) -> WithChildren(a, c, p)
        [] ~c.keep /\ ~IsPinned(a.m, p) /\ kind \in {"wrapper", "interned"} ->
             WithChildren(Escape(a, c, p, kind = "interned"), c, p)
        [] ~c.keep /\ ~IsPinned(a.m, p) /\ kind \notin {"wrapper", "interned"} /\ a.m.hdr[p] > 1 ->
             WithChildren(Escape([a EXCEPT !.m.hdr[p] = @ - 1], c, p, TRUE), c, p)
        [] OTHER -> [a EXCEPT !.m = FreeOrPin(a.m, p)]

DropBlocks(c) ==
  LET after[n \in 0 .. Len(c.allocs)] ==
        IF n = 0 THEN [m |-> mem, escaped |-> {}, aux |-> FALSE]
        ELSE DropBlock(after[n - 1], c, c.allocs[n])
  IN  after[Len(c.allocs)]

\* A slip: kept buffers are not given to the VM.
DropBuffersLost(a, c) ==
  LET has == {o \in Objs : c.bufs[o] # Null}
      m == Register(a.m, {c.bufs[o] : o \in has}, "owned")
      kept == {o \in has : \/ c.keep \/ IsPinned(m, c.bufs[o])
                           \/ IF Kind[o] = "dict" THEN a.aux ELSE o \in a.escaped}
  IN  Release(m, {c.bufs[o] : o \in has \ kept})

\* The buffers are registered again first, then kept and pinned, or freed.
DropBuffers(a, c) ==
  LET has == {o \in Objs : c.bufs[o] # Null}
      m == Register(a.m, {c.bufs[o] : o \in has}, "owned")
      kept == {o \in has : \/ c.keep \/ IsPinned(m, c.bufs[o])
                           \/ IF Kind[o] = "dict" THEN a.aux ELSE o \in a.escaped}
  IN  Release(Pin(m, {c.bufs[o] : o \in kept}), {c.bufs[o] : o \in has \ kept})

Leave ==
  /\ Active
  /\ mem' = DropBuffers(DropBlocks(Top), Top)
  /\ ctxs' = Front(ctxs)
  /\ UNCHANGED <<ext, handed, owns, held, gone>>

-----------------------------------------------------------------------------
(* The end of the VM *)

\* A slip: every address in the list is freed.
VmFreesAll(m) == {p \in Ptrs : m.pinVec[p] > 0}

\* What the loop over the pinned list frees; a second place of an address in
\* the list finds it no longer pinned.
VmFrees(m) == {p \in Ptrs : m.pinVec[p] > 0 /\ IsPinned(m, p) /\ m.reg[p].life # "freed"}

\* Drop for Vm: references to native objects are given back, then the pinned
\* allocations are freed.
VmDrop ==
  LET theirs == {p \in Ptrs : mem.reg[p].prov = "external" /\ mem.reg[p].pins > 0}
      m == [mem EXCEPT !.reg = [p \in Ptrs |-> IF p \in theirs THEN FreedEntry(@[p]) ELSE @[p]]]
      r == Release(m, VmFrees(m))
  IN  /\ ~gone /\ ctxs = <<>>
      /\ mem' = [r EXCEPT !.pinSet = {}, !.pinVec = [p \in Ptrs |-> 0],
                          !.valueOf = [p \in Ptrs |-> Null], !.ptrOf = [o \in Objs |-> Null]]
      /\ held' = [p \in Ptrs |-> IF p \in theirs THEN held[p] - mem.reg[p].pins ELSE held[p]]
      /\ gone' = TRUE
      /\ UNCHANGED <<ext, ctxs, handed, owns>>

-----------------------------------------------------------------------------
Next ==
  \/ Enter(FALSE)
  \/ ext.inits /\ Enter(TRUE)
  \/ \E o \in ext.objs : Active /\
       \E f \in [{x \in Asked(Top, o) : Fresh(Top, x)} -> Free], b \in Free \cup {Null} : Give(o, f, b)
  \/ \E p \in Ptrs : Rehydrate(p) \/ HandOver(p) \/ IncRef(p) \/ DecRef(p) \/ InlineIncRef(p)
  \/ \E o \in Objs : Adopt(o) \/ \E b \in Ptrs : Grow(o, b)
  \/ \E p \in Ptrs : ForeignAlloc(p) \/ ForeignFree(p) \/ Proxy(p)
  \/ Leave
  \/ VmDrop

Spec == Init /\ [][Next]_vars

-----------------------------------------------------------------------------
(* Properties *)

PtrOrNull == Ptrs \cup {Null}

ObjOrNull == Objs \cup {Null}

\* Type invariant of the shared memory, the registry and the contexts.
TypeOK ==
  /\ mem.heap \in [Ptrs -> {"free", "ours", "theirs"}] /\ mem.hdr \in [Ptrs -> Nat]
  /\ mem.body \in [Ptrs -> [obj : ObjOrNull, items : SUBSET PtrOrNull, buf : PtrOrNull]]
  /\ mem.reg \in [Ptrs -> [prov : {"none", "owned", "external"}, life : {"alive", "freed"},
                           pins : {0, 1}, id : ObjOrNull \cup {Proxied}]]
  /\ mem.pinSet \subseteq Ptrs /\ mem.pinVec \in [Ptrs -> Nat] /\ mem.bad \in BOOLEAN
  /\ mem.valueOf \in [Ptrs -> ObjOrNull \cup {Proxied}] /\ mem.ptrOf \in [Objs -> PtrOrNull]
  /\ ctxs \in Seq([keep : BOOLEAN, allocs : Seq(Ptrs), objBy : [Ptrs -> ObjOrNull],
                   ptrBy : [Objs -> PtrOrNull], slot : [Objs -> Nat], bufs : [Objs -> PtrOrNull]])
  /\ handed \subseteq Ptrs /\ owns \in [Ptrs -> Nat] /\ held \in [Ptrs -> Nat] /\ gone \in BOOLEAN

\* A bytearray's buffer belongs to the context that knows its block.  Native code
\* that has two blocks of one bytearray in a context, or one block in two
\* contexts, gives it two owners; then the properties below fail.
Careful == ext.across \/ ext.twice => \A o \in ext.objs : Kind[o] # "bytearray"

\* The VM's set of pinned allocations and the registry's pins never disagree,
\* and what they name is a block of ours that was not freed, whatever the
\* address was used for before (mod.rs asks "set or registry").
PinsAgree ==
  \A p \in Ptrs : /\ (p \in mem.pinSet) <=> IsOwnedPinned(mem.reg[p])
                  /\ p \in mem.pinSet => mem.heap[p] = "ours" /\ mem.pinVec[p] > 0

\* free is called only on a block of ours that is allocated, by whichever of
\* the context, the growth of a buffer and the VM comes to it (Drop for
\* ModuleCapiContext promises "freeing non-escaped compat/aux allocations
\* exactly once").
FreedOnce == Careful => ~mem.bad

\* An address never keeps the value of a block that is gone: what a pointer is
\* taken to mean, and the block an object is given again, are the block that
\* was made for that object.
ValuesCurrent ==
  /\ \A p \in Ptrs : mem.valueOf[p] \in Objs =>
        mem.heap[p] = "ours" /\ mem.body[p].obj = mem.valueOf[p]
  /\ \A o \in Objs : Reusable(mem, o) => mem.body[mem.ptrOf[o]].obj = o

\* What every step keeps of the registry and the VM's tables
\* (capi_registry.rs, mod.rs:1716-1760).
RegistryConsistent == TypeOK /\ (Careful => PinsAgree /\ ValuesCurrent)

\* A block whose reference native code returned or gave away lives as long as
\* the VM (vm_extensions.rs:7201-7203).
HandedStay == ~gone => \A p \in handed : mem.heap[p] = "ours"

\* A block that native code took a reference to with Py_IncRef and has not
\* released outlives the context it was made in, as long as native code uses
\* the function and not the inline Py_INCREF of the headers, and only in the
\* context that gave it the block.
RetainedStay ==
  ~gone /\ ~ext.across /\ ~ext.inline => \A p \in Ptrs : owns[p] > 0 => mem.heap[p] = "ours"

\* What native code gave to the VM or keeps for itself survives the context
\* (Drop for ModuleCapiContext).
KeptStay == Careful => HandedStay /\ RetainedStay

\* When the VM is gone nothing that was allocated for native code is left, and
\* every reference the VM took to a native object was given back once
\* (mod.rs:1365-1366).
NothingLeft == Careful /\ gone => \A p \in Ptrs : mem.heap[p] # "ours" /\ held[p] = 0
====
