------------------------------- MODULE Imports -------------------------------
(***************************************************************************)
(* The import system of src/vm/vm_bootstrap_import.rs, builtins_import.rs  *)
(* and vm_execution.rs for modules found on the path.  Loading a module    *)
(* only queues a frame for its body; whether the import waits for it       *)
(* depends on its policy: a synchronous import runs the queued frames in a *)
(* nested run of the VM (a drain), a deferred one returns at once and      *)
(* leaves them on top of the importing frame.                              *)
(*                                                                         *)
(* `bodies` is Vm.frames.  `calls` is the Rust stack of native operations, *)
(* innermost first: an instruction, import_module_object_with_policy,      *)
(* load_module, or a drain with its stop depth.  Bytecode runs while       *)
(* `calls` is empty or headed by a drain.  A module body is any sequence   *)
(* of the instructions that `code` allows.                                 *)
(***************************************************************************)
EXTENDS Integers, SequencesExt

CONSTANTS Names, NoName,      \* module names
          Parent,             \* the package of a name, or NoName
          Sources,            \* names for which find_module_source succeeds
          Broken,             \* sources that do not compile
          ImportPrograms            \* what the code may be like, see ProgramType

Kinds == {"stmt", "from", "dunder", "import_module", "resolve"}

(* names: the modules there are; main, body: the kinds of import that the  *)
(* program and the bodies use, the names they delete from sys.modules, and *)
(* a bound on the instructions left to the program and to all bodies.      *)
CodeType == [ops : SUBSET Kinds, dels : SUBSET Names, left : Nat]
ProgramType == [names : SUBSET Names, main : CodeType, body : CodeType]

ASSUME NamesAssumption ==
  /\ NoName \notin Names
  /\ Parent \in [Names -> Names \cup {NoName}]
  /\ \A n \in Names : Parent[n] # NoName => Parent[Parent[n]] = NoName
  /\ Broken \subseteq Sources /\ Sources \subseteq Names
  /\ ImportPrograms \subseteq ProgramType

VARIABLES cache,    \* Vm.modules: name -> module object
          sysmods,  \* the dict sys.modules
          obj,      \* the module objects ever created
          bodies,   \* Vm.frames; the first is the program's
          calls,    \* native operations in progress, innermost first
          ret,      \* what the last native operation returned
          prog      \* the program of this behaviour, with what is left of it

importVars == <<cache, sysmods, obj, bodies, calls, ret, prog>>

Instr == [k : Kinds, n : Names, a : Names \cup {NoName}]
NoInstr == [k |-> "none", n |-> NoName, a |-> NoName]
NoRet == [ok |-> TRUE, obj |-> 0]
Err == [ok |-> FALSE, obj |-> 0]

Dotted(n) == Parent[n] # NoName
Has(f, n) == n \in DOMAIN f
Drop(f, S) == [m \in DOMAIN f \ S |-> f[m]]
Put(f, n, o) == [m \in DOMAIN f \cup {n} |-> IF m = n THEN o ELSE f[m]]
Merge(f, g) == [m \in DOMAIN f \cup DOMAIN g |-> IF m \in DOMAIN f THEN f[m] ELSE g[m]]

-----------------------------------------------------------------------------
(* The module tables, as one record so that operations compose. *)

Store == [cache |-> cache, sys |-> sysmods, obj |-> obj]
SetStore(s) == cache' = s.cache /\ sysmods' = s.sys /\ obj' = s.obj

(* def: the attribute `from n import x` asks for; bound: anything at all. *)
NewModule(n, loader) ==
  [name |-> n, loader |-> loader, init |-> FALSE,
   st |-> IF loader THEN "queued" ELSE "empty",
   def |-> FALSE, bound |-> FALSE, kids |-> <<>>]

(* A slip: Vm.modules is written and sys.modules not refreshed. *)
BugSkipsRefresh(s, n, o) == [s EXCEPT !.cache = Put(@, n, o)]

RegisterModule(s, n, o) ==
  LET c == Put(s.cache, n, o) IN [s EXCEPT !.cache = c, !.sys = Merge(c, @)]

RemoveModuleEntries(s, S) ==
  LET c == Drop(s.cache, S) IN
  [cache |-> c, sys |-> Drop(s.sys, S),
   obj |-> [i \in DOMAIN s.obj |->
              IF \E p \in DOMAIN c : c[p] = i
              THEN [s.obj[i] EXCEPT !.kids = Drop(@, S)] ELSE s.obj[i]]]

EnsureModule(s, n) ==
  IF Has(s.cache, n) THEN s
  ELSE RegisterModule([s EXCEPT !.obj = Append(@, NewModule(n, FALSE))],
                      n, Len(s.obj) + 1)

LinkModuleChain(s, n, o) ==
  IF ~Dotted(n) THEN s
  ELSE LET t == EnsureModule(s, Parent[n])
       IN  [t EXCEPT !.obj[t.cache[Parent[n]]].kids = Put(@, n, o)]

NeedsLoad(s, n) ==
  Has(s.cache, n) =>
    LET m == s.obj[s.cache[n]] IN ~m.init /\ ~m.loader /\ n \in Sources

CanonicalStore(s, n) ==
  IF Has(s.sys, n) THEN [s EXCEPT !.cache = Put(@, n, s.sys[n])] ELSE s

CanonicalModule(s, n, o) ==
  IF Has(s.sys, n) THEN s.sys[n] ELSE IF Has(s.cache, n) THEN s.cache[n] ELSE o

Uninitialized(m) == m.init \/ (~m.bound /\ DOMAIN m.kids = {})

Partial(s, existing) ==
  {n \in DOMAIN s.cache \ existing : Uninitialized(s.obj[s.cache[n]])}

(* The second pass walks a hash map: a package may be judged before or     *)
(* after the binding of a removed submodule is taken out of it.            *)
CleanupFailedImport(s, n, existing) ==
  LET own  == {m \in DOMAIN s.cache \ existing :
                 m = n \/ (Parent[m] = n /\ Uninitialized(s.obj[s.cache[m]]))}
      s1   == RemoveModuleEntries(s, own)
      s2   == RemoveModuleEntries(s1, Partial(s1, existing))
  IN  {s2, RemoveModuleEntries(s2, Partial(s2, existing))}

-----------------------------------------------------------------------------
(* Native calls. *)

ImportCall(n, sync) == [op |-> "import", n |-> n, sync |-> sync, depth |-> 0,
                        existing |-> {}, o |-> 0, pc |-> "start"]
LoadCall(n) == [op |-> "load", n |-> n, depth |-> 0, pc |-> "start"]
InstrCall(who, i) == [op |-> "instr", who |-> who, i |-> i, o |-> 0, pc |-> "start"]
RunCall(stop) == [op |-> "run", stop |-> stop]

At(op, pc) == calls # <<>> /\ Head(calls).op = op /\ Head(calls).pc = pc

ReturnModule(o) == calls' = Tail(calls) /\ ret' = [ok |-> TRUE, obj |-> o]
Fail == calls' = Tail(calls) /\ ret' = Err
CallFrom(self, c) == calls' = <<c, self>> \o Tail(calls) /\ ret' = NoRet
CallAt(pc, c) == CallFrom([Head(calls) EXCEPT !.pc = pc], c)

(* pending_import_drain_depth > 0 *)
Draining == \E i \in DOMAIN calls : calls[i].op = "run"

-----------------------------------------------------------------------------
(* import_module_object_with_policy *)

(* A slip: names the program deleted stay in Vm.modules. *)
BugNoPrune == cache

PrunedCache == [n \in DOMAIN cache \cap DOMAIN sysmods |-> cache[n]]

ImportStart ==
  /\ At("import", "start")
  /\ UNCHANGED prog
  /\ LET c == Head(calls)
         here == [c EXCEPT !.depth = Len(bodies), !.existing = DOMAIN cache]
     IN \/ /\ Has(sysmods, c.n)
           /\ cache' = Put(PrunedCache, c.n, sysmods[c.n])
           /\ ReturnModule(sysmods[c.n])
        \/ /\ ~Has(sysmods, c.n)
           /\ cache' = PrunedCache
           /\ IF Dotted(c.n)
              THEN CallFrom([here EXCEPT !.pc = "meta"], ImportCall(Parent[c.n], TRUE))
              ELSE CallFrom([here EXCEPT !.pc = "loaded"], LoadCall(c.n))
  /\ UNCHANGED <<sysmods, obj, bodies>>

(* import_module_via_meta_path: the default finders only import the package. *)
ImportMeta ==
  /\ At("import", "meta")
  /\ UNCHANGED prog
  /\ IF ret.ok THEN CallAt("loaded", LoadCall(Head(calls).n)) ELSE Fail
  /\ UNCHANGED <<cache, sysmods, obj, bodies>>

ReturnCanonical(s, o) ==
  /\ SetStore(CanonicalStore(s, Head(calls).n))
  /\ ReturnModule(CanonicalModule(s, Head(calls).n, o))

ReturnImported(s, o, pc) ==
  LET c == Head(calls) IN
  \/ /\ Len(bodies) > c.depth /\ c.sync /\ ~Draining
     /\ CallFrom([c EXCEPT !.pc = pc, !.o = o], RunCall(c.depth))
     /\ SetStore(s)
  \/ Len(bodies) > c.depth /\ ~c.sync /\ ReturnModule(o) /\ SetStore(s)
  \/ /\ Len(bodies) <= c.depth \/ (c.sync /\ Draining)
     /\ ReturnCanonical(s, o)

FailImport ==
  /\ Fail
  /\ \E s \in CleanupFailedImport(Store, Head(calls).n, Head(calls).existing) : SetStore(s)

ImportLoaded ==
  /\ At("import", "loaded")
  /\ UNCHANGED prog
  /\ \/ ret.ok /\ ReturnImported(Store, ret.obj, "drained")
     \/ /\ ~ret.ok /\ Dotted(Head(calls).n)
        /\ CallAt("again", ImportCall(Parent[Head(calls).n], Head(calls).sync))
        /\ UNCHANGED <<cache, sysmods, obj>>
     \/ ~ret.ok /\ ~Dotted(Head(calls).n) /\ FailImport
  /\ UNCHANGED bodies

ImportDrained ==
  /\ At("import", "drained") \/ At("import", "rescued")
  /\ UNCHANGED prog
  /\ \/ ret.ok /\ ReturnCanonical(Store, Head(calls).o)
     \/ ~ret.ok /\ At("import", "drained") /\ FailImport
     \/ ~ret.ok /\ At("import", "rescued") /\ Fail /\ UNCHANGED <<cache, sysmods, obj>>
  /\ UNCHANGED bodies

(* A name that was there before the failed load may be there again. *)
ImportAgain ==
  /\ At("import", "again")
  /\ UNCHANGED prog
  /\ LET n == Head(calls).n
         rescued == n \in Head(calls).existing /\ (Has(cache, n) \/ Has(sysmods, n))
         o == IF Has(cache, n) THEN cache[n] ELSE sysmods[n]
     IN \/ ~ret.ok /\ Fail /\ UNCHANGED <<cache, sysmods, obj>>
        \/ /\ ret.ok /\ rescued
           /\ ReturnImported([Store EXCEPT !.cache = Put(@, n, o), !.sys = Put(@, n, o)],
                             o, "rescued")
        \/ ret.ok /\ ~rescued /\ FailImport
  /\ UNCHANGED bodies

-----------------------------------------------------------------------------
(* load_module *)

QueuedFrame(o) == [obj |-> o, fresh |-> TRUE, again |-> NoInstr, guard |-> FALSE,
             got |-> {}, ran |-> {}]

CreateAndQueue(s, n) ==
  LET o == Len(s.obj) + 1
      t == LinkModuleChain(
             RegisterModule([s EXCEPT !.obj = Append(@, NewModule(n, TRUE))], n, o), n, o)
  IN \/ n \notin Sources /\ SetStore(s) /\ Fail /\ UNCHANGED bodies
     \/ /\ n \in Broken
        /\ SetStore(RemoveModuleEntries(t, {n}))
        /\ Fail /\ UNCHANGED bodies
     \/ /\ n \in Sources \ Broken
        /\ SetStore([t EXCEPT !.obj[o].init = TRUE])
        /\ bodies' = Append(bodies, QueuedFrame(o))
        /\ ReturnModule(o)

LoadStart ==
  /\ At("load", "start")
  /\ UNCHANGED prog
  /\ LET n == Head(calls).n
         s == IF Has(cache, n) THEN RemoveModuleEntries(Store, {n}) ELSE Store
     IN \/ ~NeedsLoad(Store, n) /\ ReturnModule(cache[n]) /\ UNCHANGED <<cache, sysmods, obj, bodies>>
        \/ /\ NeedsLoad(Store, n) /\ Dotted(n) /\ NeedsLoad(s, Parent[n])
           /\ CallFrom([Head(calls) EXCEPT !.pc = "parent", !.depth = Len(bodies)],
                       LoadCall(Parent[n]))
           /\ SetStore(s) /\ UNCHANGED bodies
        \/ /\ NeedsLoad(Store, n) /\ (Dotted(n) => ~NeedsLoad(s, Parent[n]))
           /\ CreateAndQueue(s, n)

(* The package may have imported its submodule. *)
LoadAfterParent ==
  LET n == Head(calls).n IN
  \/ Has(cache, n) /\ ReturnModule(cache[n]) /\ UNCHANGED <<cache, sysmods, obj, bodies>>
  \/ /\ ~Has(cache, n) /\ Has(sysmods, n)
     /\ cache' = Put(cache, n, sysmods[n])
     /\ ReturnModule(sysmods[n]) /\ UNCHANGED <<sysmods, obj, bodies>>
  \/ ~Has(cache, n) /\ ~Has(sysmods, n) /\ CreateAndQueue(Store, n)

LoadParent ==
  /\ At("load", "parent")
  /\ UNCHANGED prog
  /\ \/ ~ret.ok /\ Fail /\ UNCHANGED <<cache, sysmods, obj, bodies>>
     \/ /\ ret.ok /\ Len(bodies) > Head(calls).depth /\ ~Draining
        /\ CallAt("drained", RunCall(Head(calls).depth))
        /\ UNCHANGED <<cache, sysmods, obj, bodies>>
     \/ ret.ok /\ (Len(bodies) <= Head(calls).depth \/ Draining) /\ LoadAfterParent

LoadDrained ==
  /\ At("load", "drained")
  /\ UNCHANGED prog
  /\ IF ret.ok THEN LoadAfterParent
     ELSE Fail /\ UNCHANGED <<cache, sysmods, obj, bodies>>

-----------------------------------------------------------------------------
(* Bytecode. *)

Top == Len(bodies)
(* A slip: unwinding ignores the stop depth. *)
BugNoStop(cs) == 0

StopOf(cs) == IF cs = <<>> THEN 0 ELSE Head(cs).stop
Running == (calls # <<>> => Head(calls).op = "run") /\ Top > StopOf(calls)
Ready == Running /\ bodies[Top].again = NoInstr
Program == IF Top = 1 THEN "main" ELSE "body"
Spend(who) == Ready /\ prog[who].left > 0 /\ prog' = [prog EXCEPT ![who].left = @ - 1]

(* Mark the body of the top frame as started. *)
Started == IF Top = 1 THEN obj ELSE [obj EXCEPT ![bodies[Top].obj].st = "run"]

Step(g) == [bodies EXCEPT ![Top] = [@ EXCEPT !.fresh = FALSE,
                                   !.guard = g \/ Top = 1, !.got = {}, !.ran = {}]]

FailedModule(m) ==
  [m EXCEPT !.init = FALSE, !.st = IF @ = "queued" THEN "dropped" ELSE "failed"]

FailedModules(s, lost) ==
  [s EXCEPT !.obj = [i \in DOMAIN @ |-> IF i \in lost THEN FailedModule(@[i]) ELSE @[i]]]

(* A slip: the failed modules stay where imports find them. *)
BugKeepsFailed(s, lost) == FailedModules(s, lost)

CleanupFailedFrames(s, lost) ==
  RemoveModuleEntries(FailedModules(s, lost), {s.obj[o].name : o \in lost})

(* unwind_exception_internal: frames above the nearest handler of this run *)
(* go, and cleanup_failed_module_frame takes their modules back.  The      *)
(* handler's address replaces that of an instruction to be repeated.       *)
UnwindTo(s, rest) ==
  LET stop == StopOf(rest)
      handlers == {i \in stop + 1 .. Top : bodies[i].guard}
      k == IF handlers = {} THEN stop ELSE Max(handlers)
      lost == {bodies[i].obj : i \in k + 1 .. Top}
  IN /\ SetStore(CleanupFailedFrames(s, lost))
     /\ IF handlers = {}
        THEN /\ bodies' = SubSeq(bodies, 1, k)
             /\ calls' = Tail(rest) /\ ret' = Err
        ELSE /\ bodies' = [SubSeq(bodies, 1, k) EXCEPT
                             ![k] = [@ EXCEPT !.guard = (k = 1), !.got = {},
                                            !.again = NoInstr]]
             /\ calls' = rest /\ ret' = NoRet

Raise ==
  /\ Top > 1 /\ Spend("body")
  /\ UnwindTo([Store EXCEPT !.obj = Started], calls)

(* The body binds the attribute that `from n import x` asks for. *)
Define ==
  /\ Top > 1 /\ Spend("body")
  /\ obj' = [Started EXCEPT ![bodies[Top].obj] = [@ EXCEPT !.def = TRUE, !.bound = TRUE]]
  /\ bodies' = Step(FALSE)
  /\ UNCHANGED <<cache, sysmods, calls, ret>>

(* del sys.modules[n]: Vm.modules is not told. *)
Delete(n) ==
  /\ Spend(Program)
  /\ n \in prog[Program].dels
  /\ Has(sysmods, n)
  /\ sysmods' = Drop(sysmods, {n})
  /\ obj' = Started
  /\ bodies' = Step(FALSE)
  /\ UNCHANGED <<cache, calls, ret>>

ImportInstr(i, g) ==
  /\ Spend(Program) /\ i.k \in prog[Program].ops /\ i.n \in prog.names
  /\ i.a # NoName => i.k = "from" /\ i.a \in prog.names /\ Parent[i.a] = i.n
  /\ obj' = Started
  /\ bodies' = Step(g)
  /\ calls' = <<InstrCall(Top, i)>> \o calls
  /\ UNCHANGED <<cache, sysmods, ret>>

(* frame.ip = frame.last_ip was set when the instruction found queued frames. *)
Retry ==
  /\ Running /\ bodies[Top].again # NoInstr
  /\ UNCHANGED prog
  /\ calls' = <<InstrCall(Top, bodies[Top].again)>> \o calls
  /\ bodies' = [bodies EXCEPT ![Top].again = NoInstr]
  /\ UNCHANGED <<cache, sysmods, obj, ret>>

Finished(s, o) == [s EXCEPT !.obj[o].init = FALSE, !.obj[o].st = "done"]

(* finalize_module_frame_success *)
EndBody ==
  /\ Ready /\ Top > 1
  /\ UNCHANGED prog
  /\ LET o == bodies[Top].obj
         n == obj[o].name
         s == CanonicalStore(Finished(Store, o), n)
         c == CanonicalModule(s, n, o)
     IN /\ SetStore(IF c = o THEN s ELSE LinkModuleChain(s, n, c))
        /\ bodies' = [i \in 1 .. Top - 1 |->
                        [bodies[i] EXCEPT !.ran = IF i = Top - 1 THEN @ \cup {n} ELSE @,
                                          !.got = {IF g = o THEN c ELSE g : g \in @}]]
  /\ UNCHANGED <<calls, ret>>

(* run() returns once the frames above its stop depth are gone. *)
EndDrain ==
  /\ calls # <<>> /\ Head(calls).op = "run" /\ Top = Head(calls).stop
  /\ UNCHANGED prog
  /\ calls' = Tail(calls) /\ ret' = NoRet
  /\ UNCHANGED <<cache, sysmods, obj, bodies>>

-----------------------------------------------------------------------------
(* The import instructions and builtins, from their native result on. *)

Here == Head(calls)
RaiseHere(s) == UnwindTo(s, Tail(calls))

(* The instruction's value goes to the frame that executed it, queued      *)
(* frames or not.                                                          *)
Bind(s, got) ==
  LET w == Here.who IN
  /\ SetStore(IF w = 1 THEN s ELSE [s EXCEPT !.obj[bodies[w].obj].bound = TRUE])
  /\ bodies' = [bodies EXCEPT ![w].got = got]
  /\ calls' = Tail(calls) /\ ret' = NoRet

Repeat(s) ==
  /\ bodies' = [bodies EXCEPT ![Here.who].again = Here.i]
  /\ calls' = Tail(calls) /\ ret' = NoRet
  /\ SetStore(s)

(* A slip: a dotted name is imported without waiting for its package. *)
BugNoDefer ==
  /\ At("instr", "start")
  /\ CallAt("imported", ImportCall(Here.i.n, Here.i.k = "resolve"))
  /\ UNCHANGED <<cache, sysmods, obj, bodies, prog>>

InstrStart ==
  /\ At("instr", "start")
  /\ UNCHANGED prog
  /\ LET n == Here.i.n  k == Here.i.k IN
     \/ /\ k \in {"stmt", "from"} /\ Dotted(n) /\ NeedsLoad(Store, Parent[n])
        /\ CallAt("deferred", ImportCall(Parent[n], FALSE))
     \/ /\ k = "dunder" /\ Dotted(n)
        /\ CallAt("head", ImportCall(Parent[n], FALSE))
     \/ /\ k \in {"stmt", "from"} /\ Dotted(n) => ~NeedsLoad(Store, Parent[n])
        /\ k = "dunder" => ~Dotted(n)
        /\ CallAt("imported", ImportCall(n, k = "resolve"))
  /\ UNCHANGED <<cache, sysmods, obj, bodies>>

(* defer_dotted_import_until_parent_ready *)
InstrDeferred ==
  /\ At("instr", "deferred")
  /\ UNCHANGED prog
  /\ \/ ~ret.ok /\ RaiseHere(Store)
     \/ ret.ok /\ Top > Here.who /\ Repeat(Store)
     \/ /\ ret.ok /\ Top <= Here.who
        /\ CallAt("imported", ImportCall(Here.i.n, FALSE))
        /\ UNCHANGED <<cache, sysmods, obj, bodies>>

(* builtin_import with a dotted name and no fromlist imports the head first. *)
InstrHead ==
  /\ At("instr", "head")
  /\ UNCHANGED prog
  /\ LET n == Here.i.n IN
     \/ ~ret.ok /\ RaiseHere(Store)
     \/ /\ ret.ok /\ Has(sysmods, n)
        /\ LET s == CanonicalStore(CanonicalStore(Store, n), Parent[n])
           IN  Bind(s, {CanonicalModule(s, Parent[n], sysmods[n]), sysmods[n]})
     \/ /\ ret.ok /\ ~Has(sysmods, n)
        /\ CallAt("imported", ImportCall(n, FALSE))
        /\ UNCHANGED <<cache, sysmods, obj, bodies>>

(* import n: module_for_plain_import links the chain and binds its head. *)
BindPlain(o) ==
  LET n == Here.i.n
      s == LinkModuleChain(Store, n, o)
  IN  Bind(s, IF Dotted(n) THEN {o, s.cache[Parent[n]]} ELSE {o})

(* A slip: the instruction repeats whether or not frames are queued. *)
BugAlwaysRepeats(o) == Repeat(Store)

(* from n import a: an attribute, a bound submodule, one in sys.modules, or *)
(* one to import (load_submodule_with_policy).                              *)
FromImport(o) ==
  LET a == Here.i.a
      sub == a # NoName /\ ~Has(obj[o].kids, a)
  IN \/ Top > Here.who /\ Repeat(Store)
     \/ /\ Top <= Here.who /\ ~sub
        /\ IF a # NoName THEN Bind(Store, {obj[o].kids[a]})
           ELSE IF obj[o].def THEN Bind(Store, {o}) ELSE RaiseHere(Store)
     \/ /\ Top <= Here.who /\ sub /\ Has(sysmods, a)
        /\ Bind(CanonicalStore(Store, a), {sysmods[a]})
     \/ /\ Top <= Here.who /\ sub /\ ~Has(sysmods, a) /\ a \in Sources
        /\ cache' = Drop(cache, {a})
        /\ CallFrom([Here EXCEPT !.pc = "sub", !.o = o], ImportCall(a, FALSE))
        /\ UNCHANGED <<sysmods, obj, bodies>>
     \/ /\ Top <= Here.who /\ sub /\ ~Has(sysmods, a) /\ a \notin Sources
        /\ RaiseHere([Store EXCEPT !.cache = Drop(@, {a})])

InstrSub ==
  /\ At("instr", "sub")
  /\ UNCHANGED prog
  /\ \/ ~ret.ok /\ RaiseHere(Store)
     \/ /\ ret.ok
        /\ LET a == Here.i.a
               c == CanonicalModule(Store, a, ret.obj)
               s == [CanonicalStore(Store, a) EXCEPT !.obj[Here.o].kids = Put(@, a, c)]
           IN IF Top > Here.who THEN Repeat(s) ELSE Bind(s, {c})

(* __import__ answers with the head of the name, import_module with the    *)
(* module itself.                                                          *)
BindCalled(o) ==
  LET n == Here.i.n
      h == IF Here.i.k = "dunder" /\ Dotted(n) THEN Parent[n] ELSE n
  IN  IF Here.i.k = "dunder"
      THEN Bind(CanonicalStore(Store, h), {o, CanonicalModule(Store, h, o)})
      ELSE Bind(Store, {o})

(* pkgutil.resolve_name("n:x") reads the attribute as soon as the          *)
(* synchronous import returns.                                             *)
ResolveName(o) ==
  LET n == Here.i.n
      c == CanonicalModule(Store, n, o)
      s == CanonicalStore(Store, n)
  IN  IF obj[c].def THEN Bind(s, {c}) ELSE RaiseHere(s)

InstrImported ==
  /\ At("instr", "imported")
  /\ UNCHANGED prog
  /\ \/ ~ret.ok /\ RaiseHere(Store)
     \/ ret.ok /\ Here.i.k = "stmt" /\ BindPlain(ret.obj)
     \/ ret.ok /\ Here.i.k = "from" /\ FromImport(ret.obj)
     \/ ret.ok /\ Here.i.k \in {"dunder", "import_module"} /\ BindCalled(ret.obj)
     \/ ret.ok /\ Here.i.k = "resolve" /\ ResolveName(ret.obj)

-----------------------------------------------------------------------------
ImportsInit ==
  /\ cache = <<>> /\ sysmods = <<>> /\ obj = <<>>
  /\ bodies = <<[QueuedFrame(0) EXCEPT !.guard = TRUE]>>
  /\ calls = <<>> /\ ret = NoRet
  /\ prog \in ImportPrograms

Native ==
  \/ ImportStart \/ ImportMeta \/ ImportLoaded \/ ImportDrained \/ ImportAgain
  \/ LoadStart \/ LoadParent \/ LoadDrained \/ EndDrain
  \/ InstrStart \/ InstrDeferred \/ InstrHead \/ InstrImported \/ InstrSub

Bytecode ==
  \/ \E i \in Instr, g \in BOOLEAN : ImportInstr(i, g)
  \/ \E n \in Names : Delete(n)
  \/ Define \/ Raise \/ Retry \/ EndBody

ImportsNext == Native \/ Bytecode

ImportsSpec == ImportsInit /\ [][ImportsNext]_importVars

(* The interpreter loop and the native code never pause: native operations *)
(* go on, instructions are repeated, and bodies, which are finite, end.    *)
FairImportsSpec == ImportsSpec /\ WF_importVars(Native \/ Retry \/ EndBody)

-----------------------------------------------------------------------------
States == {"queued", "empty", "run", "done", "failed", "dropped"}
Module == [name : Names, loader : BOOLEAN, init : BOOLEAN, st : States,
           def : BOOLEAN, bound : BOOLEAN]

ImportsTypeOK ==
  /\ \A f \in {cache, sysmods} : DOMAIN f \subseteq Names /\ \A n \in DOMAIN f : f[n] \in DOMAIN obj
  /\ \A i \in DOMAIN obj :
       /\ [f \in {"name", "loader", "init", "st", "def", "bound"} |-> obj[i][f]] \in Module
       /\ \A n \in DOMAIN obj[i].kids : Parent[n] = obj[i].name /\ obj[i].kids[n] \in DOMAIN obj
  /\ \A i \in DOMAIN bodies :
       /\ bodies[i].obj \in IF i = 1 THEN {0} ELSE DOMAIN obj
       /\ bodies[i].again \in Instr \cup {NoInstr}
       /\ bodies[i].got \subseteq DOMAIN obj

OnStack(o, S) == \E i \in S : bodies[i].obj = o

(* Programs that leave sys.modules['package'] alone and do not use         *)
(* __import__('p.s'), with bodies that import by statement and delete      *)
(* nothing.  Without these conditions the properties that name them fail.  *)
Regular ==
  /\ "dunder" \notin prog.main.ops /\ prog.body.ops \subseteq {"stmt", "from"}
  /\ prog.body.dels = {} /\ \A n \in prog.main.dels : ~Dotted(n) /\ \A m \in Names : Parent[m] # n

(* What sys.modules hands out is a module whose body has finished or is    *)
(* still on the frame stack: a failed import leaves no half-initialised    *)
(* module behind, and no placeholder stands in for one.                    *)
NoHalfInitialised ==
  Regular => \A n \in DOMAIN sysmods :
    obj[sysmods[n]].st = "done" \/ OnStack(sysmods[n], DOMAIN bodies)

(* When the importing code runs again, what its last import gave it has    *)
(* finished, or is being initialised further down the stack (a cycle).     *)
ImportedIsComplete ==
  Regular /\ Running => \A o \in bodies[Top].got : obj[o].st = "done" \/ OnStack(o, 1 .. Top)

(* Native code that imports synchronously and uses the module at once gets *)
(* a finished one, unless the importing code is itself part of the cycle.  *)
SyncIsComplete ==
  (Regular /\ At("instr", "imported") /\ Here.i.k = "resolve" /\ ret.ok) =>
    obj[ret.obj].st = "done" \/ OnStack(ret.obj, 1 .. Here.who)

(* The body of a submodule does not start before that of its package. *)
PackageFirst ==
  Regular => \A i \in DOMAIN obj :
    (obj[i].st \in {"run", "done", "failed"} /\ Dotted(obj[i].name)) =>
      \E j \in DOMAIN obj : obj[j].name = Parent[obj[i].name] /\ obj[j].st \in {"run", "done", "failed"}

(* A package's attribute for a submodule is the module sys.modules has:    *)
(* the failed attempts at importing it leave no binding.                   *)
BindingsCurrent ==
  Regular => \A p \in DOMAIN sysmods : \A n \in DOMAIN obj[sysmods[p]].kids :
    Has(sysmods, n) /\ sysmods[n] = obj[sysmods[p]].kids[n]

(* One import does not run a body that it has already run to its end, the  *)
(* repetitions of the instruction included.                                *)
BodyRunsOnce ==
  Regular => \A i \in 2 .. Top :
    bodies[i].fresh => obj[bodies[i].obj].name \notin bodies[i - 1].ran

(* A module whose frame was queued gets to run: no exception unwinds a     *)
(* frame that has not started.                                             *)
QueuedBodiesRun == Regular => \A i \in DOMAIN obj : obj[i].st # "dropped"

(* What enters sys.modules is a module made by that very step: an entry    *)
(* that the program deleted does not come back (one that a body deleted    *)
(* may).                                                                   *)
DeletedStaysDeleted ==
  [][prog.body.dels = {} =>
       \A n \in DOMAIN sysmods' \ DOMAIN sysmods : sysmods'[n] \notin DOMAIN obj]_importVars

(* A module carries the initialising mark exactly while its frame is on    *)
(* the stack, whichever way the body ends.                                 *)
MarksMatchFrames == \A i \in DOMAIN obj : obj[i].init <=> OnStack(i, DOMAIN bodies)

(* No exception of a nested run unwinds a frame that a native operation    *)
(* still works for: the stop depth holds.                                  *)
CallersStay ==
  \A i \in DOMAIN calls :
    /\ calls[i].op = "instr" => calls[i].who <= Top
    /\ calls[i].op = "run" => calls[i].stop <= Top

(* What sys.modules holds, Vm.modules holds under the same name. *)
TablesAgree == \A n \in DOMAIN sysmods : Has(cache, n) /\ cache[n] = sysmods[n]

(* Every import comes to an end, and the program's frame gets on. *)
ImportsEnd == (calls # <<>> \/ Top > 1) ~> (calls = <<>> /\ Top = 1)

(* What every step keeps of the module tables and the frames, whatever     *)
(* fails (register_module, cleanup_failed_module_frame,                    *)
(* unwind_exception_internal).                                             *)
ImportsConsistent ==
  ImportsTypeOK /\ MarksMatchFrames /\ CallersStay /\ TablesAgree

(* Nothing half-initialised is handed out: by sys.modules, by a package's  *)
(* attributes, by an import statement, or to native code                   *)
(* (return_imported_module_with_policy).                                   *)
NothingHalfInitialised ==
  NoHalfInitialised /\ BindingsCurrent /\ ImportedIsComplete /\ SyncIsComplete

(* A body that is queued runs, and no import runs it twice                 *)
(* (queue_source_module_execution_from_text).                              *)
BodiesRunOnce == BodyRunsOnce /\ QueuedBodiesRun
=============================================================================
