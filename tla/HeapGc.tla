---- MODULE HeapGc ----
(***************************************************************************)
(* The heap, its cycle collector and what runs when objects go: __del__,   *)
(* weak references with a callback, and weakref.finalize                   *)
(* (src/vm/mod.rs, src/runtime/mod.rs, src/vm/builtins_core.rs).           *)
(*                                                                         *)
(* Objects are counted references (Rc): one goes as soon as nothing holds  *)
(* it, except in a cycle.  Holders are the module globals, other objects,  *)
(* the queue of instances whose class has __del__, and the local variables *)
(* of host functions in progress.  The collector marks from the globals    *)
(* and the frames and empties what it did not mark.                        *)
(*                                                                         *)
(* calls is the stack of what is in progress.  An entry is program code    *)
(* (del: a __del__, cb: a callback, host: program code called by a host    *)
(* function that holds an object) or host code that calls program code     *)
(* (pend: run_pending_del_finalizers, gc: gc_collect, exit:                *)
(* run_shutdown_hooks).  held are the objects its host variables hold.     *)
(***************************************************************************)
EXTENDS Naturals, Sequences, SequencesExt, FiniteSets

CONSTANTS Objects,      \* every object the program may create, once each
          HasDel,       \* those whose class defines __del__
          Programs,     \* what programs may do: the objects that may get a
                        \* weakref.ref with a callback (weak) or a
                        \* weakref.finalize (fin), and how deep calls nest (depth)
          MaxDepth      \* bound on calls that program code starts

ASSUME HeapAssumption ==
  /\ HasDel \subseteq Objects /\ MaxDepth \in Nat
  /\ Programs \subseteq [weak : SUBSET Objects, fin : SUBSET Objects, depth : 0 .. MaxDepth]

VARIABLES globals,    \* objects bound in module globals
          refs,       \* refs[o]: the objects that o refers to
          born,       \* objects created so far
          alive,      \* objects whose strong count is not zero
          pending,    \* pending_del_instances
          finalized,  \* finalized_del_objects
          cleared,    \* cleared_weakref_objects
          weak,       \* weak[o]: none, live, or done (the callback was taken)
          fin,        \* fin[o]: none, armed, off, or blank (emptied by the collector)
          finHeld,    \* finalizers that the program still holds
          wiped,      \* live objects that the collector has emptied as garbage, see Loose
          delRuns,    \* delRuns[o]: calls of o's __del__ so far
          renewed,    \* history: weak references to them were cleared by a collection and
                      \* made usable again by another one inside it
          calls, exited, program

heapVars == <<globals, refs, born, alive, pending, finalized, cleared, weak, fin,
              finHeld, wiped, delRuns, renewed, calls, exited, program>>

HeapInit ==
  /\ globals = {} /\ born = {} /\ alive = {} /\ pending = {} /\ finalized = {}
  /\ cleared = {} /\ finHeld = {} /\ wiped = {} /\ renewed = {} /\ calls = <<>> /\ exited = FALSE
  /\ program \in Programs
  /\ refs = [o \in Objects |-> {}] /\ delRuns = [o \in Objects |-> 0]
  /\ weak = [o \in Objects |-> "none"] /\ fin = [o \in Objects |-> "none"]

-----------------------------------------------------------------------------
(* Reachability and counted references *)

\* trace_object: whatever a member refers to, of any kind of object, is a member.
Closed(r, T) == \A p \in T : r[p] \subseteq T

\* The objects that a walk from S along r comes to.
Reach(r, S) == {o \in Objects : \A T \in SUBSET Objects : S \subseteq T /\ Closed(r, T) => o \in T}

\* What of a stays when objects that nothing holds go, one after the other.
Survivors(a, r, holders) ==
  UNION {T \in SUBSET a : \A o \in T : o \in holders \/ \E p \in T : o \in r[p]}

HeldBy(stack) == UNION {stack[i].held : i \in DOMAIN stack}

\* The end of every step: the counts settle for references r and wiped objects w.
Settle(r, a, w) ==
  LET s == Survivors(a, r, globals' \cup pending' \cup HeldBy(calls'))
  IN  /\ alive' = s
      /\ refs' = [o \in Objects |-> IF o \in s THEN r[o] ELSE {}]
      /\ wiped' = w \cap s

\* The values the marking starts from: globals, and self in the frame of a
\* __del__; not what host variables hold, not the queue.
Roots == globals \cup UNION {calls[i].held : i \in {j \in DOMAIN calls : calls[j].op = "del"}}

Marked == Reach(refs, Roots)

Unreachable == alive \ Marked

-----------------------------------------------------------------------------
(* The stack *)

Act(op, at, todo, held) == [op |-> op, at |-> at, todo |-> todo, held |-> held]

Top == Last(calls)

Running(op, at) == calls # <<>> /\ Top.op = op /\ Top.at = at

Push(c) == calls' = Append(calls, c)

\* The top moves to a new stage; the second form also starts a call.
Goto(at, todo, held) == calls' = Append(Front(calls), Act(Top.op, at, todo, held))

GotoAndPush(at, todo, held, c) == calls' = Append(Front(calls), Act(Top.op, at, todo, held)) \o <<c>>

Del(o) == Act("del", "run", {}, {o})

Callback == Act("cb", "run", {}, {})

UserRuns == ~exited /\ (calls # <<>> => Top.op \in {"del", "cb", "host"})

\* What the running program code can get hold of.
Visible == Reach(refs, globals \cup (IF calls # <<>> /\ Top.op = "del" THEN Top.held ELSE {}))

CanStart == UserRuns /\ Len(calls) < program.depth

-----------------------------------------------------------------------------
(* Program code *)

New(o) ==
  /\ UserRuns /\ o \in Objects \ born
  /\ born' = born \cup {o} /\ globals' = globals \cup {o}
  /\ pending' = IF o \in HasDel THEN pending \cup {o} ELSE pending
  /\ UNCHANGED <<finalized, cleared, weak, fin, finHeld, delRuns, renewed, calls, exited, program>>
  /\ Settle(refs, alive \cup {o}, wiped)

Bind(o) ==
  /\ UserRuns /\ o \in Visible \ globals
  /\ globals' = globals \cup {o}
  /\ UNCHANGED <<born, pending, finalized, cleared, weak, fin, finHeld, delRuns, renewed, calls,
                 exited, program>>
  /\ Settle(refs, alive, wiped)

Unbind(o) ==
  /\ UserRuns /\ o \in globals
  /\ globals' = globals \ {o}
  /\ UNCHANGED <<born, pending, finalized, cleared, weak, fin, finHeld, delRuns, renewed, calls,
                 exited, program>>
  /\ Settle(refs, alive, wiped)

SetAttr(p, q) ==
  /\ UserRuns /\ {p, q} \subseteq Visible
  /\ UNCHANGED <<globals, born, pending, finalized, cleared, weak, fin, finHeld, delRuns,
                 renewed, calls, exited, program>>
  /\ Settle([refs EXCEPT ![p] = @ \cup {q}], alive, wiped)

DelAttr(p, q) ==
  /\ UserRuns /\ p \in Visible /\ q \in refs[p]
  /\ UNCHANGED <<globals, born, pending, finalized, cleared, weak, fin, finHeld, delRuns,
                 renewed, calls, exited, program>>
  /\ Settle([refs EXCEPT ![p] = @ \ {q}], alive, wiped)

\* weakref.ref(o, callback); the program keeps the reference object.
WeakRef(o) ==
  /\ UserRuns /\ o \in program.weak \cap Visible /\ weak[o] = "none"
  /\ weak' = [weak EXCEPT ![o] = "live"]
  /\ UNCHANGED <<globals, refs, born, alive, pending, finalized, cleared, fin, finHeld,
                 wiped, delRuns, renewed, calls, exited, program>>

\* find_object_by_id
Found(o) == o \in alive

\* Calling the reference object, the result bound: it gives None for an object
\* that was finalized or cleared or that the heap no longer has.
CallWeakRef(o) ==
  /\ UserRuns /\ weak[o] # "none"
  /\ Found(o) /\ o \notin finalized \cup cleared \cup globals
  /\ globals' = globals \cup {o}
  /\ UNCHANGED <<born, pending, finalized, cleared, weak, fin, finHeld, delRuns, renewed, calls,
                 exited, program>>
  /\ Settle(refs, alive, wiped)

\* weakref.finalize(o, f); register_weakref_finalizer keeps the finalizer.
Finalize(o) ==
  /\ UserRuns /\ o \in program.fin \cap Visible /\ fin[o] = "none"
  /\ fin' = [fin EXCEPT ![o] = "armed"] /\ finHeld' = finHeld \cup {o}
  /\ UNCHANGED <<globals, refs, born, alive, pending, finalized, cleared, weak,
                 wiped, delRuns, renewed, calls, exited, program>>

DropFinalizer(o) ==
  /\ UserRuns /\ o \in finHeld
  /\ finHeld' = finHeld \ {o}
  /\ UNCHANGED <<globals, refs, born, alive, pending, finalized, cleared, weak, fin,
                 wiped, delRuns, renewed, calls, exited, program>>

Detach(o) ==
  /\ UserRuns /\ o \in finHeld /\ fin[o] = "armed"
  /\ fin' = [fin EXCEPT ![o] = "off"]
  /\ UNCHANGED <<globals, refs, born, alive, pending, finalized, cleared, weak, finHeld,
                 wiped, delRuns, renewed, calls, exited, program>>

\* A host function with o among its arguments calls program code: the argument
\* has left the frame's value stack for a local variable of the host.
HostCall(o) ==
  /\ CanStart /\ o \in Visible
  /\ Push(Act("host", "run", {}, {o}))
  /\ UNCHANGED <<globals, refs, born, alive, pending, finalized, cleared, weak, fin,
                 finHeld, wiped, delRuns, renewed, exited, program>>

\* Program code that was called by the host comes back (or raises: the error is
\* swallowed or reported).
Return ==
  /\ UserRuns /\ calls # <<>>
  /\ calls' = Front(calls)
  /\ UNCHANGED <<globals, born, pending, finalized, cleared, weak, fin, finHeld, delRuns,
                 renewed, exited, program>>
  /\ Settle(refs, alive, wiped)

Program ==
  \/ \E o \in Objects :
       \/ New(o) \/ Bind(o) \/ Unbind(o) \/ WeakRef(o) \/ CallWeakRef(o)
       \/ Finalize(o) \/ DropFinalizer(o) \/ Detach(o) \/ HostCall(o)
  \/ \E p, q \in Objects : SetAttr(p, q) \/ DelAttr(p, q)

-----------------------------------------------------------------------------
(* run_pending_del_finalizers and run_pending_weakref_finalizers *)

\* running_pending_del_finalizers
Finalizing == \E i \in DOMAIN calls : calls[i].op = "pend" /\ calls[i].at = "del"

\* strong_count() = 1: the queue alone holds o.
OnlyQueued(o) ==
  /\ o \notin globals \cup HeldBy(calls)
  /\ \A p \in alive : o \notin refs[p]

ReadyToDel(all) == {o \in pending : all \/ OnlyQueued(o)}

\* Finalizers of objects that are gone.
DeadFinalizers == {o \in born \ alive : fin[o] \in {"armed", "blank"}}

\* One object of the ready ones is taken, whether the call asks for all or not.
\* The copies of the others are held until __del__ returns.
StartDel(o, ready, base) ==
  /\ o \in ready
  /\ pending' = pending \ {o}
  /\ IF o \in finalized
     THEN /\ calls' = Append(base, Act("pend", "fin", DeadFinalizers, {}))
          /\ UNCHANGED <<finalized, delRuns>>
     ELSE /\ calls' = base \o <<Act("pend", "del", {}, ready), Del(o)>>
          /\ finalized' = finalized \cup {o}
          /\ delRuns' = [delRuns EXCEPT ![o] = @ + 1]
  /\ UNCHANGED <<globals, born, cleared, weak, fin, finHeld, renewed, exited, program>>
  /\ Settle(refs, alive, wiped)

StartFin(base) ==
  /\ calls' = Append(base, Act("pend", "fin", DeadFinalizers, {}))
  /\ UNCHANGED <<globals, born, pending, finalized, cleared, weak, fin, finHeld, delRuns,
                 renewed, exited, program>>
  /\ Settle(refs, alive, wiped)

\* run_pending_del_finalizers(all), entered with base as the stack below it.
RunPending(all, base) ==
  IF ReadyToDel(all) # {} THEN \E o \in ReadyToDel(all) : StartDel(o, ReadyToDel(all), base)
                     ELSE StartFin(base)

\* Between two instructions of program code, outside __del__.
Hook ==
  /\ CanStart /\ (calls # <<>> => Top.op # "del")
  /\ ~Finalizing
  /\ ReadyToDel(FALSE) # {} \/ DeadFinalizers # {}
  /\ RunPending(FALSE, calls)

\* __del__ has returned: the flag goes down, the weakref finalizers follow.
PendingDelDone ==
  /\ Running("pend", "del")
  /\ Goto("fin", DeadFinalizers, {})
  /\ UNCHANGED <<globals, born, pending, finalized, cleared, weak, fin, finHeld, delRuns,
                 renewed, exited, program>>
  /\ Settle(refs, alive, wiped)

\* A finalizer is unregistered and, if it is alive and has a function, called.
FireFinalizer(o) ==
  /\ Running("pend", "fin") \/ Running("exit", "fin")
  /\ o \in Top.todo
  /\ fin' = [fin EXCEPT ![o] = "off"]
  /\ IF fin[o] = "armed" THEN GotoAndPush("fin", Top.todo \ {o}, {}, Callback)
                         ELSE Goto("fin", Top.todo \ {o}, {})
  /\ UNCHANGED <<globals, refs, born, alive, pending, finalized, cleared, weak, finHeld,
                 wiped, delRuns, renewed, exited, program>>

PendingDone ==
  /\ Running("pend", "fin") /\ Top.todo = {}
  /\ calls' = Front(calls)
  /\ UNCHANGED <<globals, refs, born, alive, pending, finalized, cleared, weak, fin, finHeld,
                 wiped, delRuns, renewed, exited, program>>

Pending == Hook \/ PendingDelDone \/ PendingDone \/ \E o \in Objects : FireFinalizer(o)

-----------------------------------------------------------------------------
(* gc_collect *)

\* gc.collect(), or the automatic collection of the outermost frame.  The
\* finalizers that are ready come first.
CallGc ==
  /\ CanStart
  /\ LET base == Append(calls, Act("gc", "dead", {}, {}))
     IN  IF Finalizing
         THEN /\ calls' = base
              /\ UNCHANGED <<globals, refs, born, alive, pending, finalized, cleared, weak, fin,
                             finHeld, wiped, delRuns, renewed, exited, program>>
         ELSE RunPending(FALSE, base)

\* clear_dead_runtime_weakrefs, before (dead) and after (swept) the collection.
DeadWeakRefs == {o \in born : weak[o] = "live" /\ (o \in finalized \cup cleared \/ o \notin alive)}

\* clear_runtime_weakrefs_for_target_id(o), its callback started, the rest to do.
ClearWeakRefs(o, at, todo) ==
  /\ cleared' = cleared \cup {o}
  /\ weak' = [weak EXCEPT ![o] = IF @ = "live" THEN "done" ELSE @]
  /\ IF weak[o] = "live" THEN GotoAndPush(at, todo, Top.held, Callback)
                         ELSE Goto(at, todo, Top.held)
  /\ UNCHANGED <<globals, refs, born, alive, pending, finalized, fin, finHeld, wiped,
                 delRuns, renewed, exited, program>>

GcDead ==
  /\ Running("gc", "dead")
  /\ Goto("clear", DeadWeakRefs, {})
  /\ UNCHANGED <<globals, refs, born, alive, pending, finalized, cleared, weak, fin, finHeld,
                 wiped, delRuns, renewed, exited, program>>

GcClear(o) ==
  /\ Running("gc", "clear") \/ Running("gc", "weak") \/ Running("gc", "swept")
  /\ o \in Top.todo
  /\ ClearWeakRefs(o, Top.at, Top.todo \ {o})

\* The first marking.
GcMark ==
  /\ Running("gc", "clear") /\ Top.todo = {}
  /\ Goto("del", Unreachable, Unreachable)
  /\ UNCHANGED <<globals, refs, born, alive, pending, finalized, cleared, weak, fin, finHeld,
                 wiped, delRuns, renewed, exited, program>>

\* A slip: __del__ is called although it was before.
NeedsDelAgain(o) == o \in HasDel

NeedsDel(o) == o \in HasDel /\ o \notin finalized

\* One unreachable object after the other: off the queue, and its __del__.
GcDel(o) ==
  /\ Running("gc", "del") /\ o \in Top.todo
  /\ pending' = pending \ {o} /\ cleared' = cleared \ {o}
  /\ renewed' = renewed \cup ({o} \cap cleared \cap HeldBy(Front(calls)))
  /\ LET rest == Top.todo \ {o}
     IN  IF NeedsDel(o)
         THEN /\ GotoAndPush("del", rest, rest, Del(o))
              /\ finalized' = finalized \cup {o}
              /\ delRuns' = [delRuns EXCEPT ![o] = @ + 1]
         ELSE /\ Goto("del", rest, rest)
              /\ UNCHANGED <<finalized, delRuns>>
  /\ UNCHANGED <<globals, born, weak, fin, finHeld, exited, program>>
  /\ Settle(refs, alive, wiped)

\* The second marking: finalizers may have made objects reachable again.
GcMarkAgain ==
  /\ Running("gc", "del") /\ Top.todo = {}
  /\ Goto("weak", Unreachable, Unreachable)
  /\ UNCHANGED <<globals, refs, born, alive, pending, finalized, cleared, weak, fin, finHeld,
                 wiped, delRuns, renewed, exited, program>>

\* Slips: what the earlier marking found is emptied; nothing is.
SweptBefore == Top.held

SweptNone == {}

\* What collect_cycles empties: it marks once more, from the same roots.
Swept == Unreachable

\* Those of S that neither the queue of __del__ nor host code below holds.
Loose(S) == S \ (pending \cup HeldBy(Front(calls)))

\* clear_object_refs: an object of any kind gives up all that it refers to.
Emptied(S) == [o \in Objects |-> IF o \in S THEN {} ELSE refs[o]]

\* collect_cycles.  A finalizer object that the program does not hold is
\* unreachable as well.
GcSweep ==
  /\ Running("gc", "weak") /\ Top.todo = {}
  /\ fin' = [o \in Objects |-> IF fin[o] = "armed" /\ o \notin finHeld THEN "blank" ELSE fin[o]]
  /\ Goto("sweep", {}, Top.held)
  /\ UNCHANGED <<globals, born, pending, finalized, cleared, weak, finHeld, delRuns, renewed,
                 exited, program>>
  /\ Settle(Emptied(Swept), alive, wiped \cup Loose(Swept))

GcSwept ==
  /\ Running("gc", "sweep")
  /\ Goto("swept", DeadWeakRefs, Top.held)
  /\ UNCHANGED <<globals, refs, born, alive, pending, finalized, cleared, weak, fin, finHeld,
                 wiped, delRuns, renewed, exited, program>>

GcReturn ==
  /\ Running("gc", "swept") /\ Top.todo = {}
  /\ calls' = Front(calls)
  /\ UNCHANGED <<globals, born, pending, finalized, cleared, weak, fin, finHeld, delRuns,
                 renewed, exited, program>>
  /\ Settle(refs, alive, wiped)

Gc ==
  \/ GcDead \/ GcMark \/ GcMarkAgain \/ GcSweep \/ GcSwept \/ GcReturn
  \/ \E o \in Objects : GcClear(o) \/ GcDel(o)

-----------------------------------------------------------------------------
(* run_shutdown_hooks *)

Shutdown ==
  /\ ~exited /\ calls = <<>>
  /\ Push(Act("exit", "fin", {o \in Objects : fin[o] \in {"armed", "blank"}}, {}))
  /\ UNCHANGED <<globals, refs, born, alive, pending, finalized, cleared, weak, fin, finHeld,
                 wiped, delRuns, renewed, exited, program>>

\* run_pending_del_finalizers(true)
ShutdownDel ==
  /\ Running("exit", "fin") /\ Top.todo = {}
  /\ RunPending(TRUE, <<Act("exit", "end", {}, {})>>)

ShutdownDone ==
  /\ Running("exit", "end")
  /\ exited' = TRUE /\ calls' = <<>>
  /\ UNCHANGED <<globals, refs, born, alive, pending, finalized, cleared, weak, fin, finHeld,
                 wiped, delRuns, renewed, program>>

Exit == Shutdown \/ ShutdownDel \/ ShutdownDone

-----------------------------------------------------------------------------

HeapNext == Program \/ Return \/ Pending \/ CallGc \/ Gc \/ Exit

HeapSpec == HeapInit /\ [][HeapNext]_heapVars

\* Host code goes on, program code that it calls comes back (at every depth
\* where it can call: it does not go on calling for ever), the loop takes the hook, and
\* a program that keeps running collects again and again.
Fairness ==
  /\ \A d \in 1..(MaxDepth - 1) : SF_heapVars(Return /\ Len(calls) = d)
  /\ WF_heapVars(Gc \/ PendingDelDone \/ PendingDone \/ \E o \in Objects : FireFinalizer(o)
             \/ (Return /\ Len(calls) >= MaxDepth))
  /\ SF_heapVars(Hook) /\ SF_heapVars(CallGc /\ calls = <<>>)

FairHeapSpec == HeapInit /\ [][HeapNext]_heapVars /\ Fairness

-----------------------------------------------------------------------------
(* Properties *)

Activations ==
  [op : {"del", "cb", "host", "pend", "gc", "exit"},
   at : {"run", "del", "fin", "dead", "clear", "weak", "sweep", "swept", "end"},
   todo : SUBSET Objects, held : SUBSET Objects]

\* Every variable has its type; what is referred to, queued or held is alive.
HeapTypeOK ==
  /\ alive \subseteq born /\ born \subseteq Objects
  /\ refs \in [Objects -> SUBSET alive]
  /\ globals \cup pending \cup wiped \cup HeldBy(calls) \subseteq alive
  /\ finalized \cup cleared \cup finHeld \subseteq born
  /\ weak \in [Objects -> {"none", "live", "done"}]
  /\ fin \in [Objects -> {"none", "armed", "off", "blank"}]
  /\ delRuns \in [Objects -> Nat]
  /\ calls \in Seq(Activations) /\ exited \in BOOLEAN
  /\ renewed \subseteq born /\ program \in Programs

\* __del__ is called at most once per object, although the hook between
\* instructions, collections inside one another and the shutdown all call it.
DelOnce == \A o \in Objects : delRuns[o] <= 1

\* An instance whose class has __del__ never goes without the call.
NeverGoesWithoutDel == \A o \in HasDel \cap born : o \notin alive => delRuns[o] = 1

\* What every step keeps of the heap (run_pending_del_finalizers, gc_collect,
\* run_shutdown_hooks): types, nothing held that has gone, and __del__ exactly
\* once for what goes.
HeapConsistent == HeapTypeOK /\ DelOnce /\ NeverGoesWithoutDel

\* The program never again gets hold of an object that the collector emptied,
\* whatever callbacks and __del__ did between the marking and the sweep, unless
\* the queue or host code held it all the time (neither is among the roots), or
\* a collection inside this one took back that its weak references are cleared.
ReachableIntact == Marked \cap wiped \subseteq renewed

\* Garbage goes, or __del__ or a weak reference brings it back.
GarbageGoes ==
  \A o \in Objects :
    o \in Unreachable ~> o \notin alive \/ o \in Marked \/ exited \/ (calls # <<>> /\ calls[1].op = "exit")
====
