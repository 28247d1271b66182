----------------------------- MODULE WasmWorker -----------------------------
(***************************************************************************)
(* The worker runtime of src/wasm/mod.rs in a `wasm-vm-probe` build: the   *)
(* shared worker state, the shared timeout, the persistent worker VM with  *)
(* its own copy of the virtual standard library, and the execution of one  *)
(* snippet under the deadline of src/vm/mod.rs.  JavaScript calls an       *)
(* export only when no other one is running, so Start, Terminate, Recycle, *)
(* SetTimeout, the registry calls and ExecuteSnippet need `frames = <<>>`. *)
(*                                                                         *)
(* A frame is [nested, tries]: nested when a native operation called it    *)
(* through a run of its own (eval, a key function, __eq__), whose stop     *)
(* depth is the frame below; tries when an except block covers the         *)
(* instruction it is at.                                                   *)
(***************************************************************************)
EXTENDS Integers, Sequences, FiniteSetsExt

CONSTANTS Names,       \* what snippets bind in the main module
          Modules,     \* modules of the virtual standard library
          Timeouts,    \* values passed to wasm_worker_set_timeout
          MinTimeout, MaxTimeout, DefaultTimeout,
          MaxDepth,    \* bound: frames of one execution
          MaxEpoch     \* bound: worker VMs made

ASSUME TimeoutAssumption ==
  /\ MinTimeout \in Nat /\ MaxTimeout \in Nat /\ Timeouts \subseteq Nat
  /\ DefaultTimeout \in MinTimeout .. MaxTimeout

ASSUME BoundAssumption == MaxDepth \in Nat \ {0} /\ MaxEpoch \in Nat

VARIABLES state,      \* CURRENT_WASM_WORKER_STATE
          timeout,    \* CURRENT_WASM_WORKER_TIMEOUT_MS
          vm,         \* WASM_WORKER_VM: NoVm, or its bindings and sources
          registry,   \* WASM_VIRTUAL_STDLIB_SOURCES
          frames,     \* Vm.frames while a snippet runs
          late,       \* the clock has passed execution_deadline
          exc,        \* an error on its way through the frames
          expired,    \* history: some run of this execution saw the deadline
          epoch,      \* history: lifecycle edges passed
          outcome     \* history: how the last execution ended

wasmVars ==
  <<state, timeout, vm, registry, frames, late, exc, expired, epoch, outcome>>

NoVm == [live |-> FALSE, bound |-> {}, sources |-> {}]

States == {"unwired", "ready", "busy", "failed"}
Outcomes == {"none", "ok", "timeout", "raised", "internal", "refused"}
Frame == [nested : BOOLEAN, tries : BOOLEAN]

\* The type of every variable.
WasmTypeOK ==
  /\ state \in States
  /\ timeout \in MinTimeout .. MaxTimeout
  /\ vm \in [live : BOOLEAN, bound : SUBSET (Names \X (0 .. MaxEpoch)),
             sources : SUBSET Modules]
  /\ registry \subseteq Modules
  /\ frames \in Seq(Frame) /\ Len(frames) <= MaxDepth
  /\ late \in BOOLEAN /\ exc \in BOOLEAN /\ expired \in BOOLEAN
  /\ epoch \in 0 .. MaxEpoch
  /\ outcome \in Outcomes

Idle == frames = <<>>

WasmInit ==
  /\ state = "ready" /\ timeout = DefaultTimeout /\ vm = NoVm
  /\ registry = {} /\ frames = <<>> /\ late = FALSE /\ exc = FALSE
  /\ expired = FALSE /\ epoch = 0 /\ outcome = "none"

-----------------------------------------------------------------------------
(* Lifecycle calls.                                                        *)

\* new_wasm_repl_vm: a VM with a copy of the registered sources.
NewVm == [live |-> TRUE, bound |-> {}, sources |-> registry]

\* reset_worker_vm and reset_worker_timeout_ms, the edge every lifecycle
\* call and a timeout share.
ResetVm(v) ==
  /\ epoch < MaxEpoch
  /\ epoch' = epoch + 1
  /\ vm' = v
  /\ timeout' = DefaultTimeout

\* wasm_worker_start, and wasm_worker_recycle, which does the same under
\* another name.
Start ==
  /\ Idle
  /\ ResetVm(NewVm)
  /\ state' = "ready"
  /\ UNCHANGED <<registry, frames, late, exc, expired, outcome>>

\* A terminate that leaves the VM where it was.
TerminateKeepsVm ==
  /\ Idle
  /\ ResetVm(vm)
  /\ state' = "unwired"
  /\ UNCHANGED <<registry, frames, late, exc, expired, outcome>>

Terminate ==
  /\ Idle
  /\ ResetVm(NoVm)
  /\ state' = "unwired"
  /\ UNCHANGED <<registry, frames, late, exc, expired, outcome>>

\* Out of range, and any value while the worker is not ready: refused.
SetTimeout(ms) ==
  /\ Idle
  /\ ms \in MinTimeout .. MaxTimeout
  /\ state = "ready"
  /\ timeout' = ms
  /\ UNCHANGED <<state, vm, registry, frames, late, exc, expired, epoch,
                 outcome>>

\* refresh_worker_vm_virtual_stdlib_sources, after each change of the registry.
Refresh(sources) == vm' = IF vm.live THEN [vm EXCEPT !.sources = sources] ELSE vm

RegisterModule(m) ==
  /\ Idle
  /\ registry' = registry \cup {m}
  /\ Refresh(registry')
  /\ UNCHANGED <<state, timeout, frames, late, exc, expired, epoch, outcome>>

ClearModules ==
  /\ Idle
  /\ registry # {}
  /\ registry' = {}
  /\ Refresh(registry')
  /\ UNCHANGED <<state, timeout, frames, late, exc, expired, epoch, outcome>>

-----------------------------------------------------------------------------
(* Execution of a snippet on the worker VM.                                *)

\* A snippet that does not parse or compile, imports a blocked module, or
\* finds the worker not ready, is answered without touching the VM.
Refuse ==
  /\ Idle
  /\ outcome' = "refused"
  /\ UNCHANGED <<state, timeout, vm, registry, frames, late, exc, expired,
                 epoch>>

ExecuteSnippet(tries) ==
  /\ Idle
  /\ state = "ready"
  /\ epoch < MaxEpoch
  /\ vm' = IF vm.live THEN vm ELSE NewVm
  /\ state' = "busy"
  /\ frames' = <<[nested |-> FALSE, tries |-> tries]>>
  /\ late' = FALSE /\ exc' = FALSE /\ expired' = FALSE
  /\ outcome' = "none"
  /\ UNCHANGED <<timeout, registry, epoch>>

\* A worker that keeps its VM when a run ends with a deadline's error.
FinishKeepsVm(how) ==
  /\ outcome' = how
  /\ frames' = <<>> /\ exc' = FALSE
  /\ state' = IF how = "internal" THEN "failed" ELSE "ready"
  /\ timeout' = IF how = "timeout" THEN DefaultTimeout ELSE timeout
  /\ epoch' = IF how \in {"internal", "timeout"} THEN epoch + 1 ELSE epoch
  /\ UNCHANGED vm

\* execute_compiled_snippet_with_worker_vm after the run: an error without an
\* exception object fails the worker, unless its message has the prefix of
\* the deadline's, which recycles it.
Finish(how) ==
  /\ outcome' = how
  /\ frames' = <<>> /\ exc' = FALSE
  /\ \/ /\ how = "internal"
        /\ epoch' = epoch + 1
        /\ vm' = NoVm /\ state' = "failed"
        /\ UNCHANGED timeout
     \/ /\ how = "timeout"
        /\ ResetVm(NewVm)
        /\ state' = "ready"
     \/ /\ how \in {"ok", "raised"}
        /\ state' = "ready"
        /\ UNCHANGED <<vm, timeout, epoch>>

\* An instruction runs only before the deadline, with no error in flight.
Steps == ~Idle /\ ~late /\ ~exc

Bind(n) ==
  /\ Steps
  /\ vm' = [vm EXCEPT !.bound = @ \cup {<<n, epoch>>}]
  /\ UNCHANGED <<state, timeout, registry, frames, late, exc, expired, epoch,
                 outcome>>

Call(f) ==
  /\ Steps
  /\ Len(frames) < MaxDepth
  /\ frames' = Append(frames, f)
  /\ UNCHANGED <<state, timeout, vm, registry, late, exc, expired, epoch,
                 outcome>>

Return ==
  /\ Steps
  /\ \/ /\ Len(frames) > 1
        /\ frames' = SubSeq(frames, 1, Len(frames) - 1)
        /\ UNCHANGED <<state, timeout, vm, exc, epoch, outcome>>
     \/ /\ Len(frames) = 1
        /\ Finish("ok")
  /\ UNCHANGED <<registry, late, expired>>

Raise ==
  /\ Steps
  /\ exc' = TRUE
  /\ UNCHANGED <<state, timeout, vm, registry, frames, late, expired, epoch,
                 outcome>>

\* An error of the outermost run that has no exception object.
InternalError ==
  /\ Steps
  /\ \A i \in DOMAIN frames : ~frames[i].nested
  /\ Finish("internal")
  /\ UNCHANGED <<registry, late, expired>>

\* Time passes execution_deadline.
Tick ==
  /\ ~Idle /\ ~late
  /\ late' = TRUE
  /\ UNCHANGED <<state, timeout, vm, registry, frames, exc, expired, epoch,
                 outcome>>

\* Where the innermost run began: the last nested frame, or the first.
RunBase == Max({1} \cup {i \in DOMAIN frames : frames[i].nested})

\* A nested run that ends at its deadline as if it had returned.
DeadlineReturns ==
  /\ ~Idle /\ late /\ ~exc
  /\ expired' = TRUE
  /\ \/ /\ ~frames[RunBase].nested
        /\ Finish("timeout")
        /\ late' = late
     \/ /\ frames[RunBase].nested
        /\ frames' = SubSeq(frames, 1, RunBase - 1)
        /\ late' = FALSE
        /\ UNCHANGED <<state, timeout, vm, epoch, outcome, exc>>
  /\ UNCHANGED registry

\* The check before each instruction.  The outermost run returns the
\* deadline's error to the worker.  A nested run returns it to the native
\* operation that started it without unwinding, so its frames stay; the run
\* below raises it as a RuntimeError in the frame on top.
Deadline ==
  /\ ~Idle /\ late /\ ~exc
  /\ expired' = TRUE
  /\ \/ /\ ~frames[RunBase].nested
        /\ Finish("timeout")
     \/ /\ frames[RunBase].nested
        /\ frames' = [frames EXCEPT ![RunBase].nested = FALSE]
        /\ exc' = TRUE
        /\ UNCHANGED <<state, timeout, vm, epoch, outcome>>
  /\ UNCHANGED <<registry, late>>

\* unwind_exception_internal within the innermost run: to the topmost
\* covered frame; without one, out of the run, into its caller's.
Unwind ==
  /\ exc
  /\ LET covered == {i \in RunBase .. Len(frames) : frames[i].tries} IN
     \/ /\ covered # {}
        /\ LET h == Max(covered) IN
           frames' = [SubSeq(frames, 1, h) EXCEPT ![h].tries = FALSE]
        /\ exc' = FALSE
        /\ UNCHANGED <<state, timeout, vm, epoch, outcome>>
     \/ /\ covered = {} /\ frames[RunBase].nested
        /\ frames' = SubSeq(frames, 1, RunBase - 1)
        /\ UNCHANGED <<state, timeout, vm, exc, epoch, outcome>>
     \/ /\ covered = {} /\ ~frames[RunBase].nested
        /\ Finish("raised")
  /\ UNCHANGED <<registry, late, expired>>

-----------------------------------------------------------------------------
Lifecycle == Start \/ Terminate \/ \E ms \in Timeouts : SetTimeout(ms)
Library == ClearModules \/ \E m \in Modules : RegisterModule(m)

VmStep ==
  \/ \E n \in Names : Bind(n)
  \/ \E f \in Frame : Call(f)
  \/ Return \/ Raise \/ InternalError \/ Deadline \/ Unwind

WasmNext ==
  \/ Lifecycle \/ Library \/ Refuse
  \/ \E tries \in BOOLEAN : ExecuteSnippet(tries)
  \/ VmStep \/ Tick

WasmSpec == WasmInit /\ [][WasmNext]_wasmVars

\* The clock advances and the VM goes on to its next instruction.
FairWasmSpec ==
  WasmSpec /\ WF_wasmVars(Tick) /\ WF_wasmVars(Deadline) /\ WF_wasmVars(Unwind)

-----------------------------------------------------------------------------
\* The worker is busy exactly while a snippet runs, and has a VM whenever it
\* runs one; terminated and failed workers hold no VM, so nothing of the old
\* session can be seen after the next start.
\* (src/wasm/mod.rs execute_compiled_snippet_with_worker_vm, terminate.)
VmMatchesState ==
  /\ (state = "busy") <=> ~Idle
  /\ state = "busy" => vm.live
  /\ state \in {"unwired", "failed"} => ~vm.live

\* What every export and every step of an execution keeps.
\* (src/wasm/mod.rs set_wasm_worker_state and its callers.)
RuntimeConsistent == WasmTypeOK /\ VmMatchesState

\* No name bound before a lifecycle edge (start, terminate, recycle, a
\* failure, a timeout) is visible after it.
\* (src/wasm/mod.rs reset_worker_vm, clear_worker_vm.)
NoOldBindings == \A b \in vm.bound : b[2] = epoch

\* The worker VM imports from the registry as it is now, also when modules
\* were registered or cleared while the VM was alive.
\* (src/wasm/mod.rs refresh_worker_vm_virtual_stdlib_sources.)
SourcesCurrent == vm.live => vm.sources = registry

\* What the worker VM holds is current: nothing of an earlier session, and
\* the library as it is registered now.
\* (src/wasm/mod.rs reset_worker_vm, refresh_worker_vm_virtual_stdlib_sources.)
VmCurrent == NoOldBindings /\ SourcesCurrent

\* Code cannot swallow the deadline: an execution some run of which saw it
\* never ends in success, whatever except blocks cover the nested calls.
\* (src/vm/vm_execution.rs run, handle_runtime_error.)
DeadlineNotSwallowed == outcome = "ok" => ~expired

\* A snippet that never returns is stopped: every execution ends.
\* (src/vm/vm_execution.rs run, src/vm/mod.rs execute_with_timeout_ms.)
ExecutionEnds == ~Idle ~> Idle
=============================================================================
