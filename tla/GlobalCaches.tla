---------------------------- MODULE GlobalCaches ----------------------------
(***************************************************************************)
(* The inline caches of LOAD_GLOBAL and LOAD_NAME, and the frames that     *)
(* carry them: vm/mod.rs (Frame, the frame pools, the versions) and        *)
(* vm/vm_execution.rs.                                                     *)
(*                                                                         *)
(* A frame remembers the value a site loaded together with the versions    *)
(* of the module's globals and of the builtins.  It keeps a copy of its    *)
(* module's version, which every write to the globals renews in all frames *)
(* on the stack and in all suspended generators.  A frame that returns     *)
(* goes to a pool with its caches, and is given out for another call.      *)
(*                                                                         *)
(* One name is modelled, and one site per code object that loads it:       *)
(* versions are kept per module and not per name.  A hit changes nothing   *)
(* and is no step.  DELETE_ATTR on the builtins module leaves the VM's     *)
(* table of builtins, which lookups use, as it is: it is no step either.   *)
(***************************************************************************)
EXTENDS Integers, Sequences, SequencesExt, FiniteSets, Functions

CONSTANTS Modules, Values, Absent,
          Programs,     \* sets of calls [code, module, way] that a program makes
          OneArg,       \* codes with one argument, one local, no cells and no owner class
          Loads,        \* codes that load the name
          Gens,         \* generator objects
          MaxDepth,     \* effective_recursion_limit
          PoolMax,      \* 256 in the code
          MaxWrites     \* bound: writes to globals and builtins

Codes == {c.code : c \in UNION Programs}
Funcs == {[code |-> c.code, module |-> c.module] : c \in UNION Programs}
Body == "body"   \* the code of a module or class body

ASSUME CachesAssumption ==
  /\ Absent \notin Values
  /\ \A c \in UNION Programs :
       /\ c.module \in Modules
       /\ c.way \in {"slot0", "method", "simple", "general", "generator",
                    "module", "class"}
       /\ c.way \in {"module", "class"} <=> c.code = Body
       /\ c.way = "slot0" => c.code \in OneArg
       /\ c.way \in {"method", "simple", "generator"} => c.code \notin OneArg
  /\ Loads \subseteq Codes
  /\ {MaxDepth, PoolMax, MaxWrites} \subseteq Nat \ {0}

VARIABLES program,   \* the calls it makes
          globals,   \* the name's value in each module
          builtins,  \* Vm::builtins at the name
          version,   \* ModuleObject::globals_version
          bversion,  \* Vm::builtins_version
          frames,    \* Vm::frames
          gens,      \* Vm::generator_states
          pools,     \* frame_pool, simple_frame_pool, simple_slot0_pool, its key
          writes     \* history: writes to globals and builtins so far

vars == <<program, globals, builtins, version, bversion, frames, gens, pools, writes>>

NoEntry == [code |-> "none", module |-> Absent, version |-> 0, bversion |-> 0,
            value |-> Absent, lent |-> FALSE]
NoGen == "no generator"
NoKey == [code |-> "none", module |-> Absent]

\* Two fields are history: `code`, the code whose site filled the entry, and
\* `lent`: the version was copied from a frame with other globals.
Entry == [code : Codes \cup {Body, "none"}, module : Modules \cup {Absent},
          version : 0 .. 1 + MaxWrites, bversion : 0 .. 1 + MaxWrites,
          value : Values \cup {Absent}, lent : BOOLEAN]

Frame == [code : Codes \cup {Body}, module : Modules, version : 1 .. 1 + MaxWrites,
          lent : BOOLEAN, kind : {"module", "class", "function"}, simple : BOOLEAN,
          gen : Gens \cup {NoGen}, site : Entry]
Pooled == [code : Codes, site : Entry]
NoFrame == [code |-> "none"]

\* The type of every variable.
TypeOK ==
  /\ program \in Programs
  /\ globals \in [Modules -> Values \cup {Absent}]
  /\ builtins \in Values \cup {Absent}
  /\ version \in [Modules -> 1 .. 1 + MaxWrites]
  /\ bversion \in 1 .. 1 + MaxWrites
  /\ frames \in Seq(Frame) /\ Len(frames) \in 1 .. MaxDepth
  /\ gens \in [Gens -> Frame \cup {NoFrame}]
  /\ pools \in [general : Seq(Pooled), simple : Seq(Pooled), slot0 : Seq(Pooled),
                key : Funcs \cup {NoKey}]
  /\ writes \in 0 .. MaxWrites

-----------------------------------------------------------------------------
(* Frames.                                                                 *)

top == Last(frames)

NewFrame(fn, v, lent, simple, site) ==
  [code |-> fn.code, module |-> fn.module, version |-> v, lent |-> lent,
   kind |-> "function", simple |-> simple, gen |-> NoGen, site |-> site]

\* Frame::new for the body of a module.
ModuleFrame(m) ==
  [NewFrame([code |-> Body, module |-> m], version[m], FALSE, FALSE, NoEntry)
     EXCEPT !.kind = "module"]

\* BUILD_CLASS: the body runs with the globals around it and with the version
\* of the new module that collects the class's names.
ClassFrame ==
  [NewFrame([code |-> Body, module |-> top.module], 1, TRUE, FALSE, NoEntry)
     EXCEPT !.kind = "class"]

Init ==
  /\ program \in Programs
  /\ globals \in [Modules -> Values \cup {Absent}]
  /\ builtins \in Values \cup {Absent}
  /\ version = [m \in Modules |-> 1] /\ bversion = 1
  /\ \E m \in Modules :
       frames = << [NewFrame([code |-> Body, module |-> m], 1, FALSE, FALSE, NoEntry)
                      EXCEPT !.kind = "module"] >>
  /\ gens = [g \in Gens |-> NoFrame]
  /\ pools = [general |-> <<>>, simple |-> <<>>, slot0 |-> <<>>, key |-> NoKey]
  /\ writes = 0

-----------------------------------------------------------------------------
(* Loads.                                                                  *)

\* The cached value is used.
Hit(f) ==
  /\ f.site # NoEntry
  /\ f.site.module = f.module
  /\ f.site.version = f.version
  /\ f.site.bversion = bversion

\* resolve_load_global_value and lookup_name_with_index.
Lookup(m) == IF globals[m] # Absent THEN globals[m] ELSE builtins

\* LOAD_GLOBAL and LOAD_NAME without a hit.  A class body looks through its
\* fallbacks and caches nothing.
LoadGlobal ==
  /\ top.code \in Loads
  /\ ~Hit(top)
  /\ top.kind # "class"
  /\ Lookup(top.module) # Absent
  /\ frames' = [frames EXCEPT ![Len(frames)].site =
                  [code |-> top.code, module |-> top.module, version |-> top.version,
                   bversion |-> bversion, value |-> Lookup(top.module), lent |-> top.lent]]
  /\ UNCHANGED <<program, globals, builtins, version, bversion, gens, pools, writes>>

-----------------------------------------------------------------------------
(* Writes.                                                                 *)

\* What propagate_module_globals_version does to one frame.
Renewed(f, m, v) ==
  LET kept == IF f.site.module = m THEN [f EXCEPT !.site = NoEntry] ELSE f
  IN IF f.module = m THEN [kept EXCEPT !.version = v, !.lent = FALSE] ELSE kept

\* A slip: suspended generators are forgotten.
PropagateToStack(m, v) ==
  /\ frames' = [i \in DOMAIN frames |-> Renewed(frames[i], m, v)]
  /\ UNCHANGED gens

\* propagate_module_globals_version: every frame on the stack and every
\* suspended generator; pooled frames are left alone.
Propagate(m, v) ==
  /\ frames' = [i \in DOMAIN frames |-> Renewed(frames[i], m, v)]
  /\ gens' = [g \in Gens |-> IF gens[g] = NoFrame THEN NoFrame ELSE Renewed(gens[g], m, v)]

\* A write, up to the bound.
Counted == writes < MaxWrites /\ writes' = writes + 1

\* upsert_module_global, store_name_by_index, set_global: STORE_GLOBAL,
\* STORE_NAME, STORE_ATTR and setattr on a module, writes to its dict.
StoreGlobal(m, value) ==
  /\ Counted
  /\ globals' = [globals EXCEPT ![m] = value]
  /\ version' = [version EXCEPT ![m] = @ + 1]
  /\ Propagate(m, version'[m])
  /\ UNCHANGED <<program, builtins, bversion, pools>>

\* remove_module_global, DELETE_NAME, DELETE_ATTR, remove_global: only a name
\* that is there.
DeleteGlobal(m) ==
  /\ globals[m] # Absent
  /\ Counted
  /\ globals' = [globals EXCEPT ![m] = Absent]
  /\ version' = [version EXCEPT ![m] = @ + 1]
  /\ Propagate(m, version'[m])
  /\ UNCHANGED <<program, builtins, bversion, pools>>

\* upsert_module_global and remove_module_global on the builtins module: no
\* frame has its globals, so only the version of the builtins changes.
WriteBuiltin(value) ==
  /\ value = Absent => builtins # Absent
  /\ Counted
  /\ builtins' = value
  /\ bversion' = bversion + 1
  /\ UNCHANGED <<program, globals, version, frames, gens, pools>>

-----------------------------------------------------------------------------
(* Calls.                                                                  *)

\* reset_for_reuse and prepare_simple_one_arg_no_cells_ref keep the caches of
\* a frame that runs the same code again.
SiteFor(pooled, code) == IF pooled.code = code THEN pooled.site ELSE NoEntry

\* push_frame_checked: at the limit the frame is dropped with RecursionError.
PushChecked(f) ==
  frames' = IF Len(frames) < MaxDepth THEN Append(frames, f) ELSE frames

\* The site of the frame that a pool gives out for `code`.
SiteFrom(pool, code) == IF pool = <<>> THEN NoEntry ELSE SiteFor(Last(pool), code)
WithoutLast(pool) == IF pool = <<>> THEN pool ELSE Front(pool)

\* acquire_frame with the version of the function's module.
GeneralFrame(fn) ==
  NewFrame(fn, version[fn.module], FALSE, FALSE, SiteFrom(pools.general, fn.code))

\* push_function_call_from_obj and the calls with cells: prepare_function_frame.
CallGeneral(fn) ==
  /\ fn.way = "general"
  /\ PushChecked(GeneralFrame(fn))
  /\ pools' = [pools EXCEPT !.general = WithoutLast(@)]
  /\ UNCHANGED <<program, globals, builtins, version, bversion, gens, writes>>

\* The call of a generator function keeps its frame for the first resume.
CallGenerator(fn, g) ==
  /\ fn.way = "generator"
  /\ gens[g] = NoFrame /\ \A i \in DOMAIN frames : frames[i].gen # g
  /\ gens' = [gens EXCEPT ![g] = [GeneralFrame(fn) EXCEPT !.gen = g]]
  /\ pools' = [pools EXCEPT !.general = WithoutLast(@)]
  /\ UNCHANGED <<program, globals, builtins, version, bversion, frames, writes>>

\* push_simple_positional_function_frame_one_arg_no_cells_ref and its two and
\* three argument forms: acquire_simple_frame_no_cells_ref.
CallSimple(fn) ==
  /\ fn.way = "simple"
  /\ PushChecked(NewFrame(fn, version[fn.module], FALSE, TRUE, SiteFrom(pools.simple, fn.code)))
  /\ pools' = [pools EXCEPT !.simple = WithoutLast(@)]
  /\ UNCHANGED <<program, globals, builtins, version, bversion, gens, writes>>

\* The version of a one-argument call was copied from other globals.
Lent(fn) == top.lent \/ top.module # fn.module

\* A one-argument call of a function defined in a class body: a frame of
\* the simple pool with the caller's copy of the version.
CallMethod(fn) ==
  /\ fn.way = "method"
  /\ PushChecked(NewFrame(fn, top.version, Lent(fn), TRUE, SiteFrom(pools.simple, fn.code)))
  /\ pools' = [pools EXCEPT !.simple = WithoutLast(@)]
  /\ UNCHANGED <<program, globals, builtins, version, bversion, gens, writes>>

\* slot0_pool_key.
Key(f) == [code |-> f.code, module |-> f.module]

\* A slip: the pool keeps the frames of another function.
RetargetedKeeping(p, key) == [p EXCEPT !.key = key]

\* retarget_simple_slot0_pool: frames of another function go to the simple pool.
Retargeted(p, key) ==
  IF p.key = key THEN p
  ELSE [p EXCEPT !.simple = @ \o Reverse(p.slot0), !.slot0 = <<>>, !.key = key]

\* push_simple_positional_function_frame_one_arg_slot0_no_cells_ref with
\* acquire_simple_frame_slot0_no_cells_fast_ref: the new frame gets the
\* caller's copy of the version, whatever module the function is from.
CallSlot0(fn) ==
  /\ fn.way = "slot0"
  /\ LET p == Retargeted(pools, Key(fn))
         site == IF p.slot0 # <<>> THEN Last(p.slot0).site ELSE SiteFrom(p.simple, fn.code)
     IN /\ PushChecked(NewFrame(fn, top.version, Lent(fn), TRUE, site))
        /\ pools' = IF p.slot0 # <<>> THEN [p EXCEPT !.slot0 = Front(@)]
                                      ELSE [p EXCEPT !.simple = WithoutLast(@)]
  /\ UNCHANGED <<program, globals, builtins, version, bversion, gens, writes>>

\* An import, or exec at the level of a module, runs a body with its globals.
RunModule(fn) ==
  /\ fn.way = "module"
  /\ PushChecked(ModuleFrame(fn.module))
  /\ UNCHANGED <<program, globals, builtins, version, bversion, gens, pools, writes>>

\* A class statement runs the class's body, a frame of acquire_frame.
RunClass(fn) ==
  /\ fn.way = "class"
  /\ PushChecked(ClassFrame)
  /\ pools' = [pools EXCEPT !.general = WithoutLast(@)]
  /\ UNCHANGED <<program, globals, builtins, version, bversion, gens, writes>>

-----------------------------------------------------------------------------
(* Returns.                                                                *)

AsPooled(f) == [code |-> f.code, site |-> f.site]

\* recycle_frame.
RecycledGeneral(f) ==
  IF Len(pools.general) >= PoolMax THEN pools
  ELSE [pools EXCEPT !.general = Append(@, AsPooled(f))]

\* recycle_simple_frame_clean_slot0_unchecked.
RecycledSlot0(f) ==
  IF Len(pools.slot0) >= PoolMax THEN pools
  ELSE LET p == Retargeted(pools, Key(f)) IN [p EXCEPT !.slot0 = Append(@, AsPooled(f))]

\* recycle_simple_frame, with try_recycle_simple_slot0_frame.
RecycledSimple(f) ==
  IF Len(pools.simple) >= PoolMax THEN pools
  ELSE IF f.code \notin OneArg THEN [pools EXCEPT !.simple = Append(@, AsPooled(f))]
  ELSE LET p == Retargeted(pools, Key(f))
       IN IF Len(p.slot0) >= PoolMax THEN [p EXCEPT !.simple = Append(@, AsPooled(f))]
          ELSE [p EXCEPT !.slot0 = Append(@, AsPooled(f))]

\* RETURN_VALUE, RETURN_CONST and the end of the code.  The fast returns take
\* frames of one-argument functions; the end of the code knows no simple frame.
Return ==
  /\ Len(frames) > 1
  /\ frames' = Front(frames)
  /\ \/ /\ top.kind # "function" \/ top.gen # NoGen
        /\ UNCHANGED pools
     \/ /\ top.kind = "function" /\ top.gen = NoGen
        /\ pools' = RecycledGeneral(top)
     \/ /\ top.simple
        /\ pools' = RecycledSimple(top)
     \/ /\ top.simple /\ top.code \in OneArg
        /\ pools' = RecycledSlot0(top)
  /\ UNCHANGED <<program, globals, builtins, version, bversion, gens, writes>>

\* An exception leaves the frame: unwind_exception_internal drops it.
Unwind ==
  /\ Len(frames) > 1
  /\ frames' = Front(frames)
  /\ UNCHANGED <<program, globals, builtins, version, bversion, gens, pools, writes>>

\* The main program has ended and execute runs the next one in the same module:
\* frames and generators go, the pools stay.
Execute ==
  /\ Len(frames) = 1
  /\ frames' = << ModuleFrame(top.module) >>
  /\ gens' = [g \in Gens |-> NoFrame]
  /\ UNCHANGED <<program, globals, builtins, version, bversion, pools, writes>>

\* A generator yields; resume_generator brings its frame back as it was.
Yield ==
  /\ top.gen # NoGen
  /\ frames' = Front(frames)
  /\ gens' = [gens EXCEPT ![top.gen] = top]
  /\ UNCHANGED <<program, globals, builtins, version, bversion, pools, writes>>

Resume(g) ==
  /\ gens[g] # NoFrame
  /\ Len(frames) < MaxDepth
  /\ frames' = Append(frames, gens[g])
  /\ gens' = [gens EXCEPT ![g] = NoFrame]
  /\ UNCHANGED <<program, globals, builtins, version, bversion, pools, writes>>

-----------------------------------------------------------------------------
Write ==
  \/ \E m \in Modules, value \in Values : StoreGlobal(m, value)
  \/ \E m \in Modules : DeleteGlobal(m)
  \/ \E value \in Values \cup {Absent} : WriteBuiltin(value)

Call ==
  \/ \E fn \in program :
       \/ CallGeneral(fn) \/ CallSimple(fn) \/ CallMethod(fn) \/ CallSlot0(fn)
       \/ RunModule(fn) \/ RunClass(fn)
  \/ \E fn \in program, g \in Gens : CallGenerator(fn, g)
  \/ \E g \in Gens : Resume(g)

Next == LoadGlobal \/ Write \/ Call \/ Return \/ Unwind \/ Execute \/ Yield

Spec == Init /\ [][Next]_vars

-----------------------------------------------------------------------------
Live == Range(frames) \cup {gens[g] : g \in {h \in Gens : gens[h] # NoFrame}}

\* A cached value that a load would use was cached by the same code and is
\* the value a lookup finds, in every frame, whatever writes, returns, reuses
\* and resumes came between - unless its version was lent: a one-argument
\* call copies the caller's version although the function's module may be
\* another one.  (vm_execution.rs LOAD_GLOBAL; mod.rs
\* propagate_module_globals_version, reset_for_reuse.)
HitsCurrent ==
  \A f \in Live :
    Hit(f) => /\ f.site.code = f.code
              /\ ~f.lent /\ ~f.site.lent => f.site.value = Lookup(f.module)

\* A frame's copy of the version is its module's, unless it was lent.
\* (mod.rs function_globals_version, propagate_module_globals_version.)
VersionsCurrent == \A f \in Live : ~f.lent => f.version = version[f.module]

\* The pool of one-argument frames holds frames of the function of its key,
\* whose caches it hands out unseen.  (mod.rs retarget_simple_slot0_pool.)
Slot0OfItsKey == \A i \in DOMAIN pools.slot0 : pools.slot0[i].code = pools.key.code

\* Frames in the two simple pools and in use never outnumber the deepest
\* stack and one pool, although retargeting ignores the simple pool's limit.
\* (mod.rs retarget_simple_slot0_pool, recycle_simple_frame.)
PoolsBounded ==
  /\ Len(pools.general) <= PoolMax /\ Len(pools.slot0) <= PoolMax
  /\ Len(pools.simple) + Len(pools.slot0)
       + Cardinality({i \in DOMAIN frames : frames[i].simple}) <= MaxDepth + PoolMax

\* What holds of frames and pools at every step.
\* (mod.rs Frame, acquire_frame, recycle_frame and their simple forms.)
PoolsConsistent == TypeOK /\ VersionsCurrent /\ Slot0OfItsKey /\ PoolsBounded
=============================================================================
