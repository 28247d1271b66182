----------------------------- MODULE Playground -----------------------------
(***************************************************************************)
(* The page of the browser playground (website/src/pages/playground.astro) *)
(* with its worker.  The page loads the runtime when it opens, tries up to *)
(* three times, and lets one command run at a time: controls are disabled  *)
(* while a command is busy.  A command waits for the runtime, posts its    *)
(* request, and ends with the answer or with the worker's failure.         *)
(*                                                                         *)
(* The page also ignores an answer that no request awaits.  AnswersAwaited *)
(* says that there is none, so that branch has no action here.             *)
(***************************************************************************)
EXTENDS PlaygroundWorker

CONSTANTS MaxCommands,   \* bound: submissions, resets and clears
          Retries        \* runtimeLoadRetryDelaysMs.length

ASSUME PageAssumption ==
  /\ MaxCommands \in Nat /\ Retries \in Nat
  /\ MaxRequests >= (Retries + 1) * (MaxCommands + 1) + MaxCommands

VARIABLES script,    \* the worker's script: "loading", "running" or "failed"
          ready,     \* runtimeWorkerReady
          loading,   \* runtimeLoadPromise: attempt, request awaited (0: timer)
          command,   \* the busy command: its action and the request awaited
          prompt,    \* continuationPrompt
          cleared,   \* history: no answer has set the prompt since the last clear
          commands   \* commands given so far

pageVars == <<script, ready, loading, command, prompt, cleared, commands>>
allVars == <<vars, pageVars>>

NoLoad == [on |-> FALSE, attempt |-> 0, id |-> 0]
NoCommand == [action |-> "none", id |-> 0]

\* The type of every variable.
TypeOK ==
  /\ WorkerTypeOK
  /\ script \in {"loading", "running", "failed"}
  /\ {ready, prompt, cleared} \subseteq BOOLEAN
  /\ loading \in [on : BOOLEAN, attempt : 0 .. Retries, id : 0 .. MaxRequests]
  /\ command \in [action : {"none", "execute", "reset"}, id : 0 .. MaxRequests]
  /\ commands \in 0 .. MaxCommands

busy == command.action # "none"

\* The page has opened: ensureRuntimeLoaded has posted its first load.
Init ==
  /\ WorkerInit
  /\ inbox = <<[id |-> 1, action |-> "load"]>> /\ posted = 1
  /\ script = "loading" /\ ready = FALSE
  /\ loading = [on |-> TRUE, attempt |-> 0, id |-> 1]
  /\ command = NoCommand /\ prompt = FALSE /\ cleared = FALSE /\ commands = 0

-----------------------------------------------------------------------------
(* The worker: its script first, then its handlers.                        *)

ScriptLoads ==
  /\ script = "loading"
  /\ script' = "running"
  /\ UNCHANGED <<vars, ready, loading, command, prompt, cleared, commands>>

WorkerRuns ==
  /\ script = "running"
  /\ Turn
  /\ UNCHANGED pageVars

-----------------------------------------------------------------------------
(* Commands.                                                               *)

\* A command that is posted although the runtime is still being loaded.
BeginAtOnce(action) ==
  /\ ~busy
  /\ commands < MaxCommands
  /\ commands' = commands + 1
  /\ Post(action)
  /\ command' = [action |-> action, id |-> posted']
  /\ UNCHANGED <<outbox, delivered, workerVars, script, ready, loading, prompt, cleared>>

\* A command that is given: the runtime is ready, being loaded, or a new
\* round of attempts begins.
Begin(action) ==
  /\ ~busy
  /\ commands < MaxCommands
  /\ commands' = commands + 1
  /\ \/ /\ ready
        /\ Post(action)
        /\ command' = [action |-> action, id |-> posted']
        /\ UNCHANGED loading
     \/ /\ ~ready /\ loading.on
        /\ command' = [action |-> action, id |-> 0]
        /\ UNCHANGED <<inbox, posted, loading>>
     \/ /\ ~ready /\ ~loading.on
        /\ command' = [action |-> action, id |-> 0]
        /\ Post("load")
        /\ loading' = [on |-> TRUE, attempt |-> 0, id |-> posted']
  /\ UNCHANGED <<outbox, delivered, workerVars, script, ready, prompt, cleared>>

\* runSource: a blank line is sent only to go on with pending input.
Submit(blank) ==
  /\ blank => prompt
  /\ Begin("execute")

ResetCommand == Begin("reset")

\* The clear button empties the transcript and shows the primary prompt.
Clear ==
  /\ ~busy
  /\ commands < MaxCommands
  /\ commands' = commands + 1
  /\ prompt' = FALSE /\ cleared' = TRUE
  /\ UNCHANGED <<vars, script, ready, loading, command>>

-----------------------------------------------------------------------------
(* Answers.                                                                *)

\* A round that gives up without telling the command that waits for it.
AttemptFailsAlone(waiting) ==
  /\ loading' = IF loading.attempt < Retries
                  THEN [loading EXCEPT !.attempt = @ + 1, !.id = 0] ELSE NoLoad
  /\ command' = waiting

\* An attempt that failed: wait for the next one, or give up, and with it
\* the command that waits for the runtime.
AttemptFails(waiting) ==
  IF loading.attempt < Retries
    THEN /\ loading' = [loading EXCEPT !.attempt = @ + 1, !.id = 0]
         /\ command' = waiting
    ELSE /\ loading' = NoLoad
         /\ command' = NoCommand

Receive ==
  /\ outbox # <<>>
  /\ outbox' = Tail(outbox)
  /\ delivered' = delivered \cup {Head(outbox).id}

\* The answer to a load: ready, and the waiting command posts its request.
LoadAnswered ==
  /\ Receive
  /\ LET r == Head(outbox) IN
     /\ loading.on /\ loading.id = r.id
     /\ \/ /\ r.ok
           /\ ready' = TRUE /\ prompt' = r.cont /\ cleared' = FALSE /\ loading' = NoLoad
           /\ \/ /\ busy
                 /\ Post(command.action)
                 /\ command' = [command EXCEPT !.id = posted']
              \/ /\ ~busy
                 /\ UNCHANGED <<inbox, posted, command>>
        \/ /\ ~r.ok
           /\ AttemptFails(command)
           /\ UNCHANGED <<inbox, posted, ready, prompt, cleared>>
  /\ UNCHANGED <<workerVars, script, commands>>

\* A prompt that answers do not change.
PromptStays(r) == prompt

\* The prompt after an answer, which a failed execute does not carry.
PromptAfter(r) == r.cont

\* The answer to a command.
CommandAnswered ==
  /\ Receive
  /\ LET r == Head(outbox) IN
     /\ busy /\ command.id = r.id
     /\ prompt' = PromptAfter(r) /\ cleared' = FALSE
  /\ command' = NoCommand
  /\ UNCHANGED <<inbox, posted, workerVars, script, ready, loading, commands>>

\* waitMs is over: the next attempt.
RetryNow ==
  /\ loading.on /\ loading.id = 0
  /\ Post("load")
  /\ loading' = [loading EXCEPT !.id = posted']
  /\ UNCHANGED <<outbox, delivered, workerVars, script, ready, command, prompt,
                 cleared, commands>>

\* A failure that only the runtime flag notices.
RejectNone ==
  /\ ready' = FALSE
  /\ UNCHANGED <<prompt, cleared, loading, command>>

\* rejectAllWorkerRequests: the load's attempt fails; a posted command ends.
RejectAll ==
  /\ ready' = FALSE
  /\ LET sent == busy /\ command.id # 0
         waiting == IF sent THEN NoCommand ELSE command
     IN /\ prompt' = IF sent THEN FALSE ELSE prompt
        /\ cleared' = (cleared /\ ~sent)
        /\ \/ /\ loading.on /\ loading.id # 0
              /\ AttemptFails(waiting)
           \/ /\ ~(loading.on /\ loading.id # 0)
              /\ command' = waiting
              /\ UNCHANGED loading

\* The worker's error event.  The page keeps the Worker object and posts
\* later requests to it.
ScriptFails ==
  /\ script = "loading"
  /\ script' = "failed"
  /\ RejectAll
  /\ UNCHANGED <<vars, commands>>

\* The messageerror event: a response that cannot be decoded.
BadResponse ==
  /\ Receive
  /\ RejectAll
  /\ UNCHANGED <<inbox, posted, workerVars, script, commands>>

-----------------------------------------------------------------------------
PageStep ==
  \/ LoadAnswered \/ CommandAnswered \/ RetryNow
  \/ ScriptFails \/ BadResponse

User ==
  \/ \E blank \in BOOLEAN : Submit(blank)
  \/ ResetCommand \/ Clear

Next == ScriptLoads \/ WorkerRuns \/ PageStep \/ User

Spec == Init /\ [][Next]_allVars

\* The browser delivers messages and timers, fetches settle, and handlers
\* return, except that of a snippet that runs for ever: that one is a step
\* of its own (ExecuteForEver), after which the worker takes no more.
FairSpec ==
  /\ Spec
  /\ WF_allVars(ScriptLoads \/ ScriptFails) /\ WF_allVars(WorkerRuns)
  /\ WF_allVars(LoadAnswered \/ CommandAnswered)
  /\ WF_allVars(RetryNow)

-----------------------------------------------------------------------------
\* What the page believes of the worker is so: a runtime it counts as ready
\* is loaded with its library, and the session can import from it.
\* (playground.astro ensureRuntimeLoaded; playground-runtime-worker.js.)
ReadyMeansLoaded ==
  ready => /\ runtime /\ packLoaded
           /\ session.live /\ session.library

\* No request of this page gets lost: the listener's uncaught throw needs a
\* second load while the first one fetches the library, which the page's
\* single round of attempts rules out.
\* (playground.astro ensureRuntimeLoaded, sendWorkerRequest.)
PageDropsNone == AnsweredOnce /\ NoneDropped

\* The requests the page has an unsettled promise for.
Awaited == {loading.id, command.id} \ {0}

\* Every answer on its way is awaited, and what the page waits for is still
\* to come: failures and retries never cross an answer of an earlier attempt.
\* (playground.astro workerPendingRequests, rejectAllWorkerRequests.)
AnswersAwaited ==
  /\ \A i \in DOMAIN outbox : outbox[i].id \in Awaited
  /\ Awaited \cap delivered = {}
  /\ busy /\ command.id = 0 => loading.on

\* What the page believes at every step.
\* (playground.astro ensureRuntimeLoaded, runSource.)
PageConsistent == TypeOK /\ ReadyMeansLoaded

\* Requests and answers match, through failures and retries.
\* (playground.astro sendWorkerRequest, rejectAllWorkerRequests.)
RequestsAnswered == PageDropsNone /\ AnswersAwaited

\* The prompt shown while the page is idle is the session's: "..." exactly
\* when the session has pending input, unless the clear button was pressed
\* since: it shows ">>>" and leaves the pending input.  (playground.astro
\* applyContinuationPrompt.)
PromptAgrees ==
  ready /\ ~busy /\ ~session.broken /\ ~cleared => (prompt <=> session.cont)

\* The controls come back: through failed loads, retries and undecodable
\* answers no command stays busy for ever, unless the worker's script failed
\* to load (the page keeps that worker and waits for it) or the command's
\* snippet runs for ever (the session has no deadline, and the page no way to
\* stop it: the reset button is disabled).
\* (playground.astro runSource's finally, the reset handler.)
CommandEnds == busy ~> ~busy \/ script = "failed" \/ session.endless
=============================================================================
