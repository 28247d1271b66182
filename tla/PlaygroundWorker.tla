-------------------------- MODULE PlaygroundWorker --------------------------
(***************************************************************************)
(* The web worker of the browser playground,                               *)
(* website/public/workers/playground-runtime-worker.js: requests `load`,   *)
(* `execute` and `reset`, each answered with its requestId.  `load` awaits *)
(* the import of the wasm module and the fetch of the standard library;    *)
(* other requests are handled while it waits.  The session is the          *)
(* WasmReplSession of src/wasm/mod.rs: its VM copies the registered        *)
(* library when it is made and when it is reset.  A snippet runs without a *)
(* deadline and may never return; the worker, one thread, then does        *)
(* nothing more.                                                           *)
(*                                                                         *)
(* The client here sends any request at any time; module Playground        *)
(* replaces it by the page.                                                *)
(***************************************************************************)
EXTENDS Integers, Sequences, SequencesExt, FiniteSets

CONSTANT MaxRequests   \* bound: requests posted by the client

ASSUME RequestsAssumption == MaxRequests \in Nat

VARIABLES inbox,       \* messages posted to the worker
          outbox,      \* responses on their way to the client
          posted,      \* requests posted so far: nextWorkerRequestId - 1
          delivered,   \* history: ids of the responses the client received
          runtime,     \* runtimeModule is set
          starting,    \* runtimeLoadPromise: its stage and who awaits it
          refetching,  \* loads that fetch the library for a set runtimeModule
          packLoaded,  \* stdlibPackLoaded
          library,     \* the wasm module has the library registered
          session      \* replSession

workerVars == <<runtime, starting, refetching, packLoaded, library, session>>
vars == <<inbox, outbox, posted, delivered, runtime, starting, refetching,
          packLoaded, library, session>>

Actions == {"load", "execute", "reset"}
Ids == 1 .. MaxRequests
Response == [id : Ids, action : Actions, ok : BOOLEAN, cont : BOOLEAN]
NoStart == [stage |-> "none", ids |-> {}]
NoSession == [live |-> FALSE, library |-> FALSE, cont |-> FALSE, broken |-> FALSE, endless |-> FALSE]

\* The type of every variable.
WorkerTypeOK ==
  /\ inbox \in Seq([id : Ids, action : Actions])
  /\ outbox \in Seq(Response)
  /\ posted \in 0 .. MaxRequests /\ delivered \subseteq Ids
  /\ runtime \in BOOLEAN /\ packLoaded \in BOOLEAN /\ library \in BOOLEAN
  /\ starting \in [stage : {"none", "import", "library"}, ids : SUBSET Ids]
  /\ refetching \subseteq Ids
  /\ session \in [live : BOOLEAN, library : BOOLEAN, cont : BOOLEAN, broken : BOOLEAN,
                  endless : BOOLEAN]

WorkerInit ==
  /\ outbox = <<>> /\ delivered = {}
  /\ runtime = FALSE /\ starting = NoStart /\ refetching = {}
  /\ packLoaded = FALSE /\ library = FALSE /\ session = NoSession

-----------------------------------------------------------------------------
(* The handlers.                                                           *)

NewSession(lib) == [NoSession EXCEPT !.live = TRUE, !.library = lib]

\* ensureReplSession: the session there is, or a new one.
Ensured(lib) == IF session.live THEN session ELSE NewSession(lib)

Answer(id, action, ok, cont) == [id |-> id, action |-> action, ok |-> ok, cont |-> cont]

AnswerAll(ids, action, ok, cont) ==
  outbox' = outbox \o [i \in 1 .. Cardinality(ids) |->
                         Answer(SetToSeq(ids)[i], action, ok, cont)]

Take(action) ==
  /\ inbox # <<>> /\ Head(inbox).action = action
  /\ inbox' = Tail(inbox)
  /\ UNCHANGED <<posted, delivered>>

\* loadRuntime: a set runtimeModule only needs its library; a load under way
\* is shared; otherwise the import begins.
Load ==
  /\ Take("load")
  /\ LET id == Head(inbox).id IN
     \/ /\ runtime /\ packLoaded
        /\ session' = Ensured(library)
        /\ outbox' = Append(outbox, Answer(id, "load", TRUE, session'.cont))
        /\ UNCHANGED <<runtime, starting, refetching, packLoaded, library>>
     \/ /\ runtime /\ ~packLoaded
        /\ refetching' = refetching \cup {id}
        /\ UNCHANGED <<outbox, runtime, starting, packLoaded, library, session>>
     \/ /\ ~runtime
        /\ starting' = IF starting.stage = "none"
                         THEN [stage |-> "import", ids |-> {id}]
                         ELSE [starting EXCEPT !.ids = @ \cup {id}]
        /\ UNCHANGED <<outbox, runtime, refetching, packLoaded, library, session>>

\* A catch that forgets the module it had set.
LoadFailsHalf ==
  /\ packLoaded' = FALSE /\ session' = NoSession
  /\ AnswerAll(starting.ids, "load", FALSE, FALSE)
  /\ starting' = NoStart
  /\ UNCHANGED <<inbox, posted, delivered, runtime, refetching, library>>

\* The catch of the load promise: everything is dropped, all its loads fail.
LoadFails ==
  /\ runtime' = FALSE /\ packLoaded' = FALSE /\ session' = NoSession
  /\ AnswerAll(starting.ids, "load", FALSE, FALSE)
  /\ starting' = NoStart
  /\ UNCHANGED <<inbox, posted, delivered, refetching, library>>

\* The import settles: the module is set before the library is fetched.
Imported ==
  /\ starting.stage = "import"
  /\ \/ /\ runtime' = TRUE /\ session' = NoSession /\ packLoaded' = FALSE
        /\ starting' = [starting EXCEPT !.stage = "library"]
        /\ UNCHANGED <<inbox, outbox, posted, delivered, refetching, library>>
     \/ LoadFails

\* The fetch settles, and with it the load.
Fetched ==
  /\ starting.stage = "library"
  /\ \/ /\ library' = TRUE /\ packLoaded' = TRUE
        /\ session' = Ensured(TRUE)
        /\ AnswerAll(starting.ids, "load", TRUE, session'.cont)
        /\ starting' = NoStart
        /\ UNCHANGED <<inbox, posted, delivered, runtime, refetching>>
     \/ LoadFails

\* The fetch of a load that found the module set.  A failed fetch, or a
\* module that is no longer set, throws in the message listener, outside any
\* catch: that load is not answered.
Refetched(id) ==
  /\ id \in refetching
  /\ refetching' = refetching \ {id}
  /\ \/ /\ runtime
        /\ library' = TRUE /\ packLoaded' = TRUE
        /\ session' = Ensured(TRUE)
        /\ outbox' = Append(outbox, Answer(id, "load", TRUE, session'.cont))
     \/ UNCHANGED <<outbox, packLoaded, library, session>>
  /\ UNCHANGED <<inbox, posted, delivered, runtime, starting>>

\* executeSource: the input is complete or more is needed.  A wasm trap is
\* caught and answered, and leaves the session borrowed: every later call on
\* it throws.
Execute ==
  /\ Take("execute")
  /\ LET id == Head(inbox).id
         fails == outbox' = Append(outbox, Answer(id, "execute", FALSE, FALSE))
     IN \/ /\ ~runtime
           /\ fails
           /\ UNCHANGED session
        \/ /\ runtime
           /\ \/ /\ ~session.broken
                 /\ \E more \in BOOLEAN :
                      /\ session' = [Ensured(library) EXCEPT !.cont = more]
                      /\ outbox' = Append(outbox, Answer(id, "execute", TRUE, more))
              \/ /\ session' = [Ensured(library) EXCEPT !.broken = TRUE]
                 /\ fails
  /\ UNCHANGED <<runtime, starting, refetching, packLoaded, library>>

\* executeSource, on a snippet that runs for ever: its request stays unanswered
\* at the head of the inbox.
ExecuteForEver ==
  /\ inbox # <<>> /\ Head(inbox).action = "execute"
  /\ runtime /\ ~session.broken
  /\ session' = [Ensured(library) EXCEPT !.endless = TRUE]
  /\ UNCHANGED <<inbox, outbox, posted, delivered, runtime, starting, refetching,
                 packLoaded, library>>

\* resetSession: nothing to do without a module; WasmReplSession.reset makes
\* a new VM with the library as it is now, and fails on a borrowed session.
Reset ==
  /\ Take("reset")
  /\ LET id == Head(inbox).id IN
     \/ /\ ~runtime
        /\ outbox' = Append(outbox, Answer(id, "reset", TRUE, FALSE))
        /\ UNCHANGED session
     \/ /\ runtime /\ ~session.broken
        /\ session' = NewSession(library)
        /\ outbox' = Append(outbox, Answer(id, "reset", TRUE, FALSE))
     \/ /\ runtime /\ session.broken
        /\ outbox' = Append(outbox, Answer(id, "reset", FALSE, FALSE))
        /\ UNCHANGED session
  /\ UNCHANGED <<runtime, starting, refetching, packLoaded, library>>

Handle == Load \/ Execute \/ ExecuteForEver \/ Reset
Settle == Imported \/ Fetched \/ \E id \in refetching : Refetched(id)

\* Promises settle and messages are taken between handlers.
Turn == ~session.endless /\ (Handle \/ Settle)

-----------------------------------------------------------------------------
(* A client that posts anything at any time.                               *)

\* sendWorkerRequest: the next id, and a message the worker takes in order.
Post(action) ==
  /\ inbox' = Append(inbox, [id |-> posted + 1, action |-> action])
  /\ posted' = posted + 1

Ask(action) ==
  /\ posted < MaxRequests
  /\ Post(action)
  /\ UNCHANGED <<outbox, delivered, runtime, starting, refetching, packLoaded,
                 library, session>>

Deliver ==
  /\ outbox # <<>>
  /\ outbox' = Tail(outbox)
  /\ delivered' = delivered \cup {Head(outbox).id}
  /\ UNCHANGED <<inbox, posted, runtime, starting, refetching, packLoaded,
                 library, session>>

WorkerNext == Turn \/ Deliver \/ \E a \in Actions : Ask(a)

ClientInit ==
  /\ WorkerInit
  /\ inbox = <<>> /\ posted = 0

WorkerSpec == ClientInit /\ [][WorkerNext]_vars

-----------------------------------------------------------------------------
\* The places where request `id` can be.
Places(id) ==
  Cardinality({i \in DOMAIN inbox : inbox[i].id = id})
  + Cardinality({i \in DOMAIN outbox : outbox[i].id = id})
  + (IF id \in starting.ids THEN 1 ELSE 0)
  + (IF id \in refetching THEN 1 ELSE 0)
  + (IF id \in delivered THEN 1 ELSE 0)

\* No request is answered twice, although loads share one promise that a
\* later load may find settled, failed or replaced.
\* (playground-runtime-worker.js loadRuntime.)
AnsweredOnce == \A id \in Ids : Places(id) <= 1

\* No request is dropped: every one is waiting, being served, or answered.
\* (playground-runtime-worker.js message listener.)
NoneDropped == \A id \in 1 .. posted : Places(id) >= 1

\* Whoever interleaves loads, executes and resets, a library that counts as
\* loaded belongs to a module that is set, and a session to a module that is
\* set: a failed load leaves nothing half made.
\* (playground-runtime-worker.js loadRuntime's catch.)
NothingHalfLoaded ==
  /\ packLoaded => runtime /\ library
  /\ session.live => runtime
  /\ runtime /\ ~packLoaded => starting.stage = "library"

\* What every step of the worker keeps: nothing is half loaded and no request is
\* answered twice.
\* (playground-runtime-worker.js loadRuntime, executeSource, resetSession.)
WorkerConsistent == WorkerTypeOK /\ NothingHalfLoaded /\ AnsweredOnce
=============================================================================
