---- MODULE Generators ----
(***************************************************************************)
(* Generator frames in the PYRS virtual machine: resume_generator and its  *)
(* nested run loop, YIELD_VALUE, YIELD_FROM with and without a nested run, *)
(* the generator methods, and exception unwinding across all of them       *)
(* (vm/vm_native_dispatch.rs, vm/vm_execution.rs).                         *)
(*                                                                         *)
(* A generator's code is any program: its next instruction is chosen       *)
(* freely.  Values are abstracted to None or not None, exceptions to       *)
(* GeneratorExit and any other.  Only the main frame and generator frames  *)
(* are on the stack: calls of plain functions are left out, and so is SEND,*)
(* which only code translated from .pyc files contains.                    *)
(***************************************************************************)
EXTENDS Integers, Sequences, FiniteSets, TLC, SequencesExt, Functions

CONSTANTS
  Gens,             \* generator objects
  Iters,            \* iterators that are not generators, as in yield from [1, 2]
  Main,             \* owner of the frame of the main module
  Nobody,           \* Option::None where a generator or iterator is expected
  Raised,           \* exceptions that RAISE and throw() are used with
  MaxBlocks,        \* bound: nested try blocks of one frame
  RecursionLimit    \* effective_recursion_limit()

ASSUME OwnersDistinct ==
  /\ Main \notin Gens /\ Nobody \notin Gens \cup Iters \cup {Main}
  /\ Gens \cap Iters = {}
ASSUME RaisedAreExceptions == Raised \subseteq {"GeneratorExit", "error"}
ASSUME BoundsAreNaturals == MaxBlocks \in Nat /\ RecursionLimit \in Nat \ {0}

VARIABLES
  frames,           \* Vm::frames, the last one on top
  suspended,        \* Vm::generator_states: generator -> its frame
  gen,              \* GeneratorObject: the flags started, running, closed
  reg,              \* the registers of the innermost resume: active_generator_resume,
                    \* its boundary, generator_resume_outcome, pending_generator_exception
  calls,            \* resume_generator calls on the host stack, with the saved registers
  exc,              \* the exception that unwind_exception_internal is propagating
  rethrow,          \* YIELD_FROM propagates the pending exception after this raise
  yielding          \* the generator whose value YIELD_VALUE is handing down

transit == <<exc, rethrow, yielding>>
vars == <<frames, suspended, gen, reg, calls, transit>>

Exit == "GeneratorExit"
Error == "error"
NoExc == "none"
Exceptions == {Exit, Error}

Frame ==
  [owner : Gens \cup {Main}, blocks : 0 .. MaxBlocks,
   at : {"code", "handler", "yieldfrom"},   \* where ip stands
   awaiting : BOOLEAN,                      \* generator_awaiting_resume_value
   sent : BOOLEAN,                          \* generator_resume_value is not None
   thrown : Exceptions \cup {NoExc},        \* generator_pending_throw
   kind : {"unset", "next", "throw", "close"},   \* generator_resume_kind
   delegate : Gens \cup Iters \cup {Nobody},     \* yield_from_iter
   active : Exceptions \cup {NoExc},        \* active_exception
   stray : BOOLEAN]                         \* a value on the stack that no instruction awaits

NewFrame(o) ==
  [owner |-> o, blocks |-> 0, at |-> "code", awaiting |-> FALSE, sent |-> FALSE, thrown |-> NoExc,
   kind |-> "unset", delegate |-> Nobody, active |-> NoExc, stray |-> FALSE]

NoResume == [target |-> Nobody, boundary |-> 0, outcome |-> "none", pending |-> NoExc]

Init ==
  /\ frames = <<NewFrame(Main)>>
  /\ suspended = [g \in Gens |-> NewFrame(g)]
  /\ gen = [g \in Gens |-> [started |-> FALSE, running |-> FALSE, closed |-> FALSE]]
  /\ reg = NoResume /\ calls = <<>>
  /\ exc = NoExc /\ rethrow = FALSE /\ yielding = Nobody

-----------------------------------------------------------------------------
Top == frames[Len(frames)]
Below == SubSeq(frames, 1, Len(frames) - 1)
WithTop(f) == [frames EXCEPT ![Len(frames)] = f]
OnStack(g) == \E i \in DOMAIN frames : frames[i].owner = g

\* Frames leave generator_states by the generator and enter under their owner.
Without(g) == Restrict(suspended, DOMAIN suspended \ {g})
With(f) == [g \in DOMAIN suspended \cup {f.owner} |-> IF g = f.owner THEN f ELSE suspended[g]]

\* No exception or value is on its way.
Settled == frames # <<>> /\ exc = NoExc /\ ~rethrow /\ yielding = Nobody

\* The run loop goes on to the top frame: the innermost resume has no outcome
\* yet, and its generator is on the stack.
Running ==
  /\ Settled
  /\ reg.outcome = "none"
  /\ reg.target # Nobody => OnStack(reg.target)

Executing == Running /\ ~Top.awaiting /\ Top.at = "code"

\* The generator being resumed left the stack without an outcome (run).
LoseTarget ==
  /\ Settled
  /\ reg.target # Nobody /\ reg.outcome = "none" /\ ~OnStack(reg.target)
  /\ reg' = [reg EXCEPT !.outcome = "propagated"]
  /\ UNCHANGED <<frames, suspended, gen, calls, transit>>

\* A frame that waits at a yield receives what its resume carries (run).
Deliver ==
  /\ Running /\ Top.awaiting
  /\ frames' = WithTop([Top EXCEPT !.awaiting = FALSE, !.thrown = NoExc, !.sent = FALSE])
  /\ exc' = Top.thrown
  /\ UNCHANGED <<suspended, gen, reg, calls, rethrow, yielding>>

-----------------------------------------------------------------------------
(* Exceptions *)

SetupExcept ==
  /\ Executing /\ Top.blocks < MaxBlocks
  /\ frames' = WithTop([Top EXCEPT !.blocks = @ + 1])
  /\ UNCHANGED <<suspended, gen, reg, calls, transit>>

PopBlock ==
  /\ Executing /\ Top.blocks > 0
  /\ frames' = WithTop([Top EXCEPT !.blocks = @ - 1])
  /\ UNCHANGED <<suspended, gen, reg, calls, transit>>

\* The first instruction of a handler.
EnterHandler ==
  /\ Running /\ ~Top.awaiting /\ Top.at = "handler"
  /\ frames' = WithTop([Top EXCEPT !.at = "code"])
  /\ UNCHANGED <<suspended, gen, reg, calls, transit>>

ClearException ==
  /\ Executing /\ Top.active # NoExc
  /\ frames' = WithTop([Top EXCEPT !.active = NoExc])
  /\ UNCHANGED <<suspended, gen, reg, calls, transit>>

Raise(e) ==
  /\ Executing
  /\ exc' = e
  /\ UNCHANGED <<frames, suspended, gen, reg, calls, rethrow, yielding>>

\* Module code that ends while it still handles an exception raises it again.
EndOfModule ==
  /\ Executing /\ Top.owner = Main /\ Top.active # NoExc
  /\ frames' = WithTop([Top EXCEPT !.active = NoExc])
  /\ exc' = Top.active
  /\ UNCHANGED <<suspended, gen, reg, calls, rethrow, yielding>>

\* One iteration of unwind_exception_internal: the frame has a handler.
UnwindToHandler ==
  /\ exc # NoExc /\ frames # <<>> /\ Top.blocks > 0
  /\ frames' = WithTop([Top EXCEPT !.blocks = @ - 1, !.at = "handler", !.active = exc,
                                   !.delegate = IF Top.at = "yieldfrom" THEN Nobody ELSE @])
  /\ exc' = NoExc
  /\ UNCHANGED <<suspended, gen, reg, calls, rethrow, yielding>>

AtBoundary == reg.boundary # 0 /\ Len(frames) <= reg.boundary

\* The frame that resumed a generator has no handler: the exception is left to
\* the caller of resume_generator.
UnwindToBoundary ==
  /\ exc # NoExc /\ frames # <<>> /\ Top.blocks = 0 /\ AtBoundary
  /\ reg' = [reg EXCEPT !.pending = exc, !.outcome = "propagated"]
  /\ exc' = NoExc
  /\ UNCHANGED <<frames, suspended, gen, calls, rethrow, yielding>>

\* A slip: the generator is left open when its frame is dropped.
LeftOpen(g) == [gen EXCEPT ![g].running = FALSE, ![g].started = TRUE]

Closed(g) == [gen EXCEPT ![g] = [started |-> TRUE, running |-> FALSE, closed |-> TRUE]]

\* The frame has no handler and is dropped, with the generator it belongs to.
UnwindFrame ==
  /\ exc # NoExc /\ frames # <<>> /\ Top.blocks = 0 /\ ~AtBoundary
  /\ frames' = Below
  /\ exc' = IF Len(frames) = 1 THEN NoExc ELSE exc
  /\ IF Top.owner \in Gens
       THEN /\ suspended' = Without(Top.owner)
            /\ gen' = Closed(Top.owner)
            /\ reg' = IF reg.target = Top.owner THEN [reg EXCEPT !.outcome = "propagated"] ELSE reg
       ELSE UNCHANGED <<suspended, gen, reg>>
  /\ UNCHANGED <<calls, rethrow, yielding>>

\* propagate_pending_generator_exception, called by YIELD_FROM after a raise that
\* may itself have left the exception pending.
Rethrow ==
  /\ rethrow /\ exc = NoExc
  /\ exc' = reg.pending
  /\ reg' = [reg EXCEPT !.pending = NoExc]
  /\ rethrow' = FALSE
  /\ UNCHANGED <<frames, suspended, gen, calls, yielding>>

-----------------------------------------------------------------------------
(* Leaving a generator frame *)

Idle(g) == [gen EXCEPT ![g].running = FALSE, ![g].started = TRUE]

\* The top frame goes back to generator_states as f.
Suspend(f) ==
  /\ frames' = Below
  /\ suspended' = With(f)
  /\ gen' = Idle(f.owner)

YieldValue ==
  /\ Executing /\ Top.owner \in Gens
  /\ Suspend([Top EXCEPT !.awaiting = TRUE, !.thrown = NoExc, !.sent = FALSE, !.kind = "unset"])
  /\ IF Top.kind = "close"
       THEN exc' = Error /\ UNCHANGED yielding
       ELSE yielding' = Top.owner /\ UNCHANGED exc
  /\ UNCHANGED <<reg, calls, rethrow>>

\* The frame below delegates to the generator that yielded: it is suspended too.
YieldThrough ==
  /\ yielding # Nobody /\ Top.delegate = yielding /\ Top.owner \in Gens
  /\ Suspend([Top EXCEPT !.awaiting = FALSE, !.thrown = NoExc, !.sent = FALSE, !.kind = "unset"])
  /\ IF Top.kind = "close"
       THEN exc' = Error /\ yielding' = Nobody
       ELSE yielding' = Top.owner /\ UNCHANGED exc
  /\ UNCHANGED <<reg, calls, rethrow>>

\* The value reaches the resume it answers, or else the stack of the frame below.
HandOver(g, fs) ==
  IF reg.target = g
    THEN reg' = [reg EXCEPT !.outcome = "yield"] /\ frames' = fs
    ELSE frames' = [fs EXCEPT ![Len(fs)].stray = TRUE] /\ UNCHANGED reg

YieldOut ==
  /\ yielding # Nobody /\ Top.delegate # yielding
  /\ HandOver(yielding, frames)
  /\ yielding' = Nobody
  /\ UNCHANGED <<suspended, gen, calls, exc, rethrow>>

\* RETURN_VALUE and the end of the code: finish_generator_resume
ReturnValue ==
  /\ Executing
  /\ frames' = Below
  /\ IF Top.owner \in Gens
       THEN /\ suspended' = Without(Top.owner)
            /\ gen' = Closed(Top.owner)
            /\ reg' = IF reg.target = Top.owner THEN [reg EXCEPT !.outcome = "complete"] ELSE reg
       ELSE UNCHANGED <<suspended, gen, reg>>
  /\ UNCHANGED <<calls, transit>>

-----------------------------------------------------------------------------
(* resume_generator *)

\* The resume fails with an exception in the calling frame.
Refused(g, sent, thrown) ==
  \/ gen[g].running
  \/ ~gen[g].closed /\ thrown = NoExc /\ ~gen[g].started /\ sent
  \/ ~gen[g].closed /\ g \notin DOMAIN suspended

Resumed(g, sent, thrown, kind) ==
  [suspended[g] EXCEPT !.sent = sent, !.thrown = thrown, !.kind = kind]

Started(g) == [gen EXCEPT ![g].running = TRUE, ![g].started = TRUE]

\* A resume_generator call: its caller, what the caller remembers (YIELD_FROM the
\* kind and exception it took from its frame), and the registers it saves.
CallRecord(g, how, kind, thrown) ==
  [gen |-> g, how |-> how, kind |-> kind, thrown |-> thrown, saved |-> reg]

\* The frame leaves generator_states and a nested run loop starts on it, unless
\* push_frame_checked meets the recursion limit: the frame is dropped then.  fs
\* is the stack with the calling frame as the instruction left it.
Resume(g, fs, sent, thrown, kind, call) ==
  /\ suspended' = Without(g)
  /\ gen' = Started(g)
  /\ reg' = [target |-> g, boundary |-> Len(fs), outcome |-> "none", pending |-> NoExc]
  /\ IF Len(fs) >= RecursionLimit
       THEN frames' = fs /\ exc' = Error /\ UNCHANGED calls
       ELSE /\ frames' = Append(fs, Resumed(g, sent, thrown, kind))
            /\ calls' = Append(calls, call)
            /\ UNCHANGED exc

\* __next__, send, throw and the step of a for loop.
Methods == {"next", "send", "throw", "for"}

CallMethod(g, how, e) ==
  /\ Executing
  /\ LET sent == how = "send"
         thrown == IF how = "throw" THEN e ELSE NoExc
         kind == IF how = "throw" THEN "throw" ELSE "next"
     IN  \/ /\ Refused(g, sent, thrown)
            /\ exc' = Error
            /\ UNCHANGED <<frames, suspended, gen, reg, calls>>
         \/ /\ ~Refused(g, sent, thrown) /\ gen[g].closed
            /\ exc' = IF how = "for" THEN NoExc ELSE Error
            /\ UNCHANGED <<frames, suspended, gen, reg, calls>>
         \/ /\ ~Refused(g, sent, thrown) /\ ~gen[g].closed
            /\ Resume(g, frames, sent, thrown, kind, CallRecord(g, how, "unset", NoExc))
  /\ UNCHANGED <<rethrow, yielding>>

CallClose(g) ==
  /\ Executing
  /\ ~gen[g].closed
  /\ IF Refused(g, FALSE, Exit)
       THEN exc' = Error /\ UNCHANGED <<frames, suspended, gen, reg, calls>>
       ELSE Resume(g, frames, FALSE, Exit, "close", CallRecord(g, "close", "unset", NoExc))
  /\ UNCHANGED <<rethrow, yielding>>

-----------------------------------------------------------------------------
(* YIELD_FROM *)

\* The frame with what the instruction takes from it taken.
Taken == [Top EXCEPT !.sent = FALSE, !.thrown = NoExc, !.kind = "unset",
                     !.delegate = Nobody, !.at = "yieldfrom"]
ResumeKind == IF Top.kind = "unset" THEN "next" ELSE Top.kind

\* The instruction is first met with any iterator, then again with its own.
YieldingFrom(d) ==
  /\ Running /\ ~Top.awaiting /\ Top.owner \in Gens
  /\ Top.at # "handler" /\ Top.delegate \in {Nobody, d}

\* The frame that waits for the delegate pushed on top of it.
Parent(g) == [Taken EXCEPT !.kind = "next", !.delegate = g]

\* A slip: the instruction keeps its delegate and is executed again.
DelegatingStill(f, d) == [f EXCEPT !.delegate = d]

\* The delegate d has finished and the code goes on after the instruction.
Delegated(f, d) == [f EXCEPT !.delegate = Nobody, !.at = "code"]

PlainNext == ~Top.sent /\ Top.thrown = NoExc /\ ResumeKind = "next"

\* A plain next() pushes the frame of the delegate without a nested run.
YieldFromPush(g) ==
  /\ YieldingFrom(g) /\ PlainNext /\ ~gen[g].closed
  /\ IF gen[g].running \/ g \notin DOMAIN suspended
       THEN frames' = WithTop(Taken) /\ exc' = Error /\ UNCHANGED <<suspended, gen>>
       ELSE /\ suspended' = Without(g)
            /\ gen' = Started(g)
            /\ IF Len(frames) >= RecursionLimit
                 THEN frames' = WithTop(Parent(g)) /\ exc' = Error
                 ELSE /\ frames' = Append(WithTop(Parent(g)), Resumed(g, FALSE, NoExc, "next"))
                      /\ UNCHANGED exc
  /\ UNCHANGED <<reg, calls, rethrow, yielding>>

\* delegate_yield_from: anything else resumes the delegate in a nested run.
Closing(kind, thrown) == kind = "close" /\ thrown = Exit

YieldFromResume(g) ==
  /\ YieldingFrom(g) /\ ~(PlainNext /\ ~gen[g].closed)
  /\ LET closing == Closing(ResumeKind, Top.thrown)
         sent == Top.sent /\ Top.thrown = NoExc
         kind == IF Top.thrown = NoExc THEN "next" ELSE IF closing THEN "close" ELSE "throw"
     IN  \/ /\ Refused(g, sent, Top.thrown)
            /\ frames' = WithTop(Taken) /\ exc' = Error
            /\ UNCHANGED <<suspended, gen, reg, calls, rethrow>>
         \/ /\ ~Refused(g, sent, Top.thrown) /\ gen[g].closed
            /\ frames' = WithTop(IF closing THEN Taken ELSE Delegated(Taken, g))
            /\ exc' = IF closing THEN Exit ELSE NoExc
            /\ rethrow' = closing
            /\ UNCHANGED <<suspended, gen, reg, calls>>
         \/ /\ ~Refused(g, sent, Top.thrown) /\ ~gen[g].closed
            /\ Resume(g, WithTop(Taken), sent, Top.thrown, kind,
                      CallRecord(g, "delegate", ResumeKind, Top.thrown))
            /\ UNCHANGED rethrow
  /\ UNCHANGED yielding

\* The delegate is an iterator: it can take neither a value nor an exception, and
\* its own next step may fail, produce a value, or end the delegation.
SuspendAtYieldFrom(d, kind) ==
  /\ suspended' = With([Taken EXCEPT !.delegate = d])
  /\ gen' = Idle(Top.owner)
  /\ IF kind = "close"
       THEN frames' = Below /\ exc' = Error /\ UNCHANGED reg
       ELSE HandOver(Top.owner, Below) /\ exc' = NoExc

YieldFromIterator(d) ==
  /\ YieldingFrom(d)
  /\ \/ /\ frames' = WithTop(Taken)
        /\ exc' = IF Top.thrown # NoExc THEN Top.thrown ELSE Error
        /\ rethrow' = (Top.thrown # NoExc)
        /\ UNCHANGED <<suspended, gen, reg>>
     \/ /\ Top.thrown = NoExc /\ ~Top.sent
        /\ SuspendAtYieldFrom(d, ResumeKind)
        /\ UNCHANGED rethrow
     \/ /\ Top.thrown = NoExc /\ ~Top.sent
        /\ frames' = WithTop(Delegated(Taken, d))
        /\ UNCHANGED <<suspended, gen, reg, exc, rethrow>>
  /\ UNCHANGED <<calls, yielding>>

-----------------------------------------------------------------------------
(* The nested run loop has returned *)

Returning(how) ==
  /\ Settled
  /\ calls # <<>> /\ Last(calls).how \in how
  /\ reg.outcome # "none"

\* A slip: the outer resume loses its boundary.
RestoredWithoutBoundary ==
  LET saved == Last(calls).saved
  IN  [saved EXCEPT !.pending = IF reg.pending # NoExc THEN reg.pending ELSE @,
                    !.boundary = reg.boundary]

Restored ==
  LET saved == Last(calls).saved
  IN  [saved EXCEPT !.pending = IF reg.pending # NoExc THEN reg.pending ELSE @]

\* propagate_pending_generator_exception
Propagate ==
  /\ exc' = Restored.pending
  /\ reg' = [Restored EXCEPT !.pending = NoExc]
  /\ UNCHANGED <<frames, suspended, gen>>

ReturnFromMethod ==
  /\ Returning(Methods)
  /\ calls' = Front(calls)
  /\ \/ /\ reg.outcome = "propagated"
        /\ Propagate
     \/ /\ reg.outcome # "propagated"
        /\ reg' = Restored
        /\ exc' = IF reg.outcome = "complete" /\ Last(calls).how # "for" THEN Error ELSE NoExc
        /\ UNCHANGED <<frames, suspended, gen>>
  /\ UNCHANGED <<rethrow, yielding>>

\* The innermost frame with an active exception, 0 if there is none.
Handling ==
  LET busy == {i \in DOMAIN frames : frames[i].active # NoExc}
  IN  IF busy = {} THEN 0 ELSE CHOOSE i \in busy : \A j \in busy : j <= i

ActiveIsExit == Handling # 0 /\ frames[Handling].active = Exit
ActiveCleared == [frames EXCEPT ![Handling].active = NoExc]

\* set_generator_closed
MarkedClosed(g) == [gen EXCEPT ![g].closed = TRUE, ![g].running = FALSE]

\* close() is done: the generator finished, or GeneratorExit came out of it.
ReturnFromClose ==
  /\ Returning({"close"})
  /\ calls' = Front(calls)
  /\ LET g == Last(calls).gen
         closed == MarkedClosed(g)
     IN  \/ /\ reg.outcome = "yield"
            /\ reg' = Restored /\ exc' = Error
            /\ UNCHANGED <<frames, suspended, gen>>
         \/ /\ reg.outcome = "complete"
            /\ reg' = Restored /\ gen' = closed
            /\ UNCHANGED <<frames, suspended, exc>>
         \/ /\ reg.outcome = "propagated" /\ Restored.pending = Exit
            /\ reg' = [Restored EXCEPT !.pending = NoExc] /\ gen' = closed
            /\ UNCHANGED <<frames, suspended, exc>>
         \/ /\ reg.outcome = "propagated" /\ Restored.pending # Exit /\ ActiveIsExit
            /\ reg' = Restored /\ gen' = closed /\ frames' = ActiveCleared
            /\ UNCHANGED <<suspended, exc>>
         \/ /\ reg.outcome = "propagated" /\ Restored.pending # Exit /\ ~ActiveIsExit
            /\ Propagate
  /\ UNCHANGED <<rethrow, yielding>>

\* delegate_yield_from has its outcome, and YIELD_FROM goes on.
ReturnFromDelegate ==
  /\ Returning({"delegate"})
  /\ calls' = Front(calls)
  /\ LET c == Last(calls)
         closing == Closing(c.kind, c.thrown)
     IN  \/ /\ reg.outcome = "yield" /\ closing
            /\ reg' = Restored /\ exc' = Error
            /\ UNCHANGED <<frames, suspended, gen, rethrow>>
         \/ /\ reg.outcome = "yield" /\ ~closing
            /\ suspended' = With([Top EXCEPT !.delegate = c.gen])
            /\ gen' = Idle(Top.owner)
            /\ IF c.kind = "close"
                 THEN frames' = Below /\ exc' = Error /\ reg' = Restored
                 ELSE /\ IF Restored.target = Top.owner
                           THEN reg' = [Restored EXCEPT !.outcome = "yield"] /\ frames' = Below
                           ELSE reg' = Restored /\ frames' = [Below EXCEPT ![Len(Below)].stray = TRUE]
                      /\ UNCHANGED exc
            /\ UNCHANGED rethrow
         \/ /\ reg.outcome = "complete"
            /\ reg' = Restored
            /\ frames' = IF closing THEN frames ELSE WithTop(Delegated(Top, c.gen))
            /\ exc' = IF closing THEN Exit ELSE NoExc
            /\ rethrow' = closing
            /\ UNCHANGED <<suspended, gen>>
         \/ /\ reg.outcome = "propagated" /\ ~(closing /\ ActiveIsExit)
            /\ Propagate
            /\ UNCHANGED rethrow
         \/ /\ reg.outcome = "propagated" /\ closing /\ ActiveIsExit
            /\ reg' = Restored
            /\ frames' = ActiveCleared /\ exc' = Exit /\ rethrow' = TRUE
            /\ UNCHANGED <<suspended, gen>>
  /\ UNCHANGED yielding

-----------------------------------------------------------------------------
\* The outermost run loop has returned: the stack is empty, or an outcome is set
\* that no resume_generator call is left to take.
Exited ==
  /\ frames # <<>> => Settled /\ calls = <<>> /\ reg.outcome # "none"
  /\ UNCHANGED vars

Next ==
  \/ LoseTarget \/ Deliver
  \/ SetupExcept \/ PopBlock \/ EnterHandler \/ ClearException
  \/ (\E e \in Raised : Raise(e)) \/ EndOfModule
  \/ UnwindToHandler \/ UnwindToBoundary \/ UnwindFrame \/ Rethrow
  \/ YieldValue \/ YieldThrough \/ YieldOut \/ ReturnValue
  \/ \E g \in Gens, how \in Methods \ {"throw"} : CallMethod(g, how, NoExc)
  \/ \E g \in Gens, e \in Raised : CallMethod(g, "throw", e)
  \/ \E g \in Gens : CallClose(g) \/ YieldFromPush(g) \/ YieldFromResume(g)
  \/ \E d \in Iters : YieldFromIterator(d)
  \/ ReturnFromMethod \/ ReturnFromClose \/ ReturnFromDelegate
  \/ Exited

Spec == Init /\ [][Next]_vars

\* The run loop takes its next step whenever it is not at an instruction of the
\* program (the instructions themselves may wait for ever).
FairSpec == Spec /\ WF_vars(~Executing /\ Next)

-----------------------------------------------------------------------------
(* Properties *)

\* Every variable holds a value of its type.
TypeOK ==
  /\ frames \in Seq(Frame)
  /\ DOMAIN suspended \subseteq Gens
  /\ \A g \in DOMAIN suspended : suspended[g] \in Frame
  /\ gen \in [Gens -> [started : BOOLEAN, running : BOOLEAN, closed : BOOLEAN]]
  /\ reg \in [target : Gens \cup {Nobody}, boundary : Nat,
              outcome : {"none", "yield", "complete", "propagated"},
              pending : Exceptions \cup {NoExc}]
  /\ exc \in Exceptions \cup {NoExc} /\ rethrow \in BOOLEAN
  /\ yielding \in Gens \cup {Nobody}

Positions(g) == {i \in DOMAIN frames : frames[i].owner = g}

\* However generators resume, delegate to and close each other, a generator has
\* one frame and never two: on the stack, exactly while it is running, or
\* suspended under its own name.
OneFrame ==
  \A g \in Gens :
    /\ Cardinality(Positions(g)) <= 1
    /\ Positions(g) # {} <=> gen[g].running
    /\ g \in DOMAIN suspended => Positions(g) = {} /\ suspended[g].owner = g

\* A generator that is neither running nor closed can be resumed: its frame is
\* suspended, and a generator whose frame is gone says so.
Resumable ==
  \A g \in Gens : ~gen[g].running /\ ~gen[g].closed => g \in DOMAIN suspended

\* The registers as resume call i left them.
Saved(i) == IF i = Len(calls) THEN reg ELSE calls[i + 1].saved

\* Nested resumes are nested on the stack: the generator that a resume call waits
\* for is right above that call's boundary, or gone with everything above it.
\* Once the last call has returned only the main frame is left: no generator goes
\* on running without a caller.
ResumesNested ==
  /\ \A i \in DOMAIN calls :
       /\ Saved(i).target = calls[i].gen
       /\ i > 1 => Saved(i - 1).boundary < Saved(i).boundary
       /\ Positions(calls[i].gen) \subseteq {Saved(i).boundary + 1}
       /\ Settled /\ Positions(calls[i].gen) = {} => Len(frames) = Saved(i).boundary
  /\ Settled /\ calls = <<>> => Len(frames) = 1 /\ reg.target = Nobody

\* The frames above the innermost boundary are one chain of delegation, so that a
\* value yielded on top is handed down to the generator being resumed.
DelegationChain ==
  Running /\ reg.target # Nobody =>
    \A i \in (reg.boundary + 1) .. (Len(frames) - 1) : frames[i].delegate = frames[i + 1].owner

\* What every step keeps of the generators' frames: each in one place, each to be
\* resumed again, and chained to the ones they delegate to (resume_generator,
\* set_generator_running, set_generator_closed, YIELD_VALUE).
FramesConsistent == TypeOK /\ OneFrame /\ Resumable /\ DelegationChain

\* The machinery always comes back to the program: unwinding, handing values down
\* and returning from nested resumes end, whatever called whom.
CodeGoesOn == ~Executing ~> (Executing \/ frames = <<>>)
====
