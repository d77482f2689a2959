----------------------------- MODULE WebVariant -----------------------------
(***************************************************************************)
(* A `web` variant at run time: the container, the loader page             *)
(* (src/wasm/loader.html), the Worker script                               *)
(* (src/wasm/logos-wasm-worker.js) and, inside the Worker, the image of    *)
(* module WasmHost.                                                        *)
(*                                                                         *)
(*   container --toPage--> page --port--> worker --(pending)--> image      *)
(*   container <-received- page <------------posted------------ image      *)
(*                                                                         *)
(* The page and the Worker are two threads; each runs one task at a time.  *)
(* A Worker task that calls into the module lasts while `running` names    *)
(* the module code on the stack, and the drain of the queue is one task,   *)
(* so no other Worker task starts while either is under way.  The channel  *)
(* and both message ports are FIFOs of the platform; an `error` event is a *)
(* task of its own and may overtake the messages of the port.              *)
(***************************************************************************)
EXTENDS WasmHost

VARIABLES
  sent,         \* history: frames the container sent
  toPage,       \* frames on the channel, buffered until the page binds it
  received,     \* frames the container received
  closes,       \* how many times the page closed the channel
  page,         \* "waiting" for window.logosChannelReady, then "up"
  reported,     \* reportDeath's flag
  taken,        \* how many of `posted` the page has handled
  port,         \* the Worker's incoming messages
  deliver,      \* the worker script has its deliver function
  pending,      \* the worker script's queue
  trapped,      \* the worker script's flag
  factory,      \* "running", "resolved", "rejected" (logosWasmError) or "lost"
  draining,     \* inside the loop that empties `pending`
  terminated,   \* the Worker is gone
  errorEvent,   \* an `error` event waits in the page's task queue
  deathBy       \* history: where the image or its Worker last failed

containerVars == <<sent, received>>
pageVars == <<closes, page, reported, taken>>
workerVars == <<deliver, pending, trapped, factory, draining>>
envVars == <<terminated, errorEvent, deathBy>>
outerVars == <<containerVars, toPage, port, pageVars, workerVars, envVars>>
vars == <<hostVars, outerVars>>

VariantInit ==
  /\ Init
  /\ sent = <<>> /\ received = <<>> /\ toPage = <<>> /\ port = <<>>
  /\ closes = 0 /\ page = "waiting" /\ reported = FALSE /\ taken = 0
  /\ deliver = FALSE /\ pending = <<>> /\ trapped = FALSE
  /\ factory = "running" /\ draining = FALSE
  /\ terminated = FALSE /\ errorEvent = FALSE /\ deathBy = "nothing"

-----------------------------------------------------------------------------
(* The container. *)

ContainerSends(f) ==
  /\ closes = 0
  /\ PeerMaySend(f, sent, received)
  /\ sent' = Append(sent, f)
  /\ toPage' = Append(toPage, f)
  /\ UNCHANGED <<hostVars, received, port, pageVars, workerVars, envVars>>

-----------------------------------------------------------------------------
(* The loader page. *)

\* window.logosChannelReady resolves: the page spawns the Worker and binds both
\* directions in the same task.
PageStarts ==
  /\ page = "waiting"
  /\ page' = "up"
  /\ UNCHANGED <<hostVars, containerVars, toPage, port, closes, reported, taken,
                 workerVars, envVars>>

\* channel.setReceiver's function: straight to the Worker's port.
PageRelays ==
  /\ page = "up" /\ closes = 0 /\ toPage # <<>>
  /\ toPage' = Tail(toPage)
  /\ port' = IF terminated THEN port ELSE Append(port, Head(toPage))
  /\ UNCHANGED <<hostVars, containerVars, pageVars, workerVars, envVars>>

ReportDeath_always ==   \* mutant: the flag is set and never read
  reported' = TRUE /\ terminated' = TRUE /\ closes' = closes + 1

\* reportDeath: once, terminate the Worker and close the channel.
ReportDeath ==
  IF reported THEN UNCHANGED <<reported, terminated, closes>>
  ELSE reported' = TRUE /\ terminated' = TRUE /\ closes' = closes + 1

Transport == {"Result", "Event", "Call"}
IsTransport(m) == m.kind \in Transport

PageTakes_errorIsDeath ==   \* mutant: a failed instantiation closes the channel
  /\ page = "up" /\ ~reported /\ taken < Len(posted)
  /\ taken' = taken + 1
  /\ LET m == posted[taken + 1] IN
     \/ /\ IsTransport(m)
        /\ received' = Append(received, m)
        /\ UNCHANGED <<reported, terminated, closes>>
     \/ m.kind = "Hello" /\ UNCHANGED <<received, reported, terminated, closes>>
     \/ m.kind \in {"Trap", "Error"} /\ ReportDeath /\ UNCHANGED received
  /\ UNCHANGED <<hostVars, sent, toPage, port, page, workerVars, errorEvent, deathBy>>

\* worker.onmessage: a control message is consumed here, a trap is a death, and
\* everything else is a frame.  terminate() discards what was not yet handled.
PageTakes ==
  /\ page = "up" /\ ~reported /\ taken < Len(posted)
  /\ taken' = taken + 1
  /\ LET m == posted[taken + 1] IN
     \/ /\ IsTransport(m)
        /\ received' = Append(received, m)
        /\ UNCHANGED <<reported, terminated, closes>>
     \/ m.kind \in {"Hello", "Error"} /\ UNCHANGED <<received, reported, terminated, closes>>
     \/ m.kind = "Trap" /\ ReportDeath /\ UNCHANGED received
  /\ UNCHANGED <<hostVars, sent, toPage, port, page, workerVars, errorEvent, deathBy>>

PageOnError_logs ==   \* mutant: the backstop only logs
  /\ errorEvent
  /\ errorEvent' = FALSE
  /\ UNCHANGED <<hostVars, containerVars, toPage, port, pageVars, workerVars,
                 terminated, deathBy>>

\* worker.onerror, the backstop.
PageOnError ==
  /\ errorEvent
  /\ errorEvent' = FALSE
  /\ ReportDeath
  /\ UNCHANGED <<hostVars, containerVars, toPage, port, page, taken, workerVars, deathBy>>

-----------------------------------------------------------------------------
(* The worker script. *)

WorkerAlive == page = "up" /\ ~terminated
WorkerIdle == WorkerAlive /\ running = "none" /\ ~draining

\* deliverGuarded: a frame for a live image is handled there; one for an image
\* that trapped outside any frame throws, and that is the trap reported.
DeliverGuarded(f) ==
  \/ trapped /\ UNCHANGED <<hostVars, trapped>>
  \/ ~trapped /\ Deliver(f) /\ UNCHANGED trapped
  \/ /\ ~trapped /\ phase = "dead"
     /\ trapped' = TRUE
     /\ Post([kind |-> "Trap"])
     /\ UNCHANGED <<phase, running, wiring, provider, caller, awaiting, delivered,
                    dispatched, emits, invoked, refused>>

WorkerQueues_drops ==   \* mutant: no queue
  /\ WorkerIdle /\ ~deliver /\ port # <<>>
  /\ port' = Tail(port)
  /\ UNCHANGED <<hostVars, containerVars, toPage, pageVars, workerVars, envVars>>

\* self.onmessage before the factory's promise resolved.
WorkerQueues ==
  /\ WorkerIdle /\ ~deliver /\ port # <<>>
  /\ port' = Tail(port)
  /\ pending' = IF trapped THEN pending ELSE Append(pending, Head(port))
  /\ UNCHANGED <<hostVars, containerVars, toPage, pageVars, deliver, trapped,
                 factory, draining, envVars>>

\* self.onmessage afterwards.
WorkerDelivers ==
  /\ WorkerIdle /\ deliver /\ port # <<>>
  /\ port' = Tail(port)
  /\ DeliverGuarded(Head(port))
  /\ UNCHANGED <<containerVars, toPage, pageVars, deliver, pending, factory,
                 draining, envVars>>

\* importScripts threw: nothing will ever resolve, and the error is uncaught.
GlueThrows ==
  /\ WorkerIdle /\ phase = "loading" /\ factory = "running"
  /\ factory' = "lost" /\ errorEvent' = TRUE /\ deathBy' = "load"
  /\ UNCHANGED <<hostVars, containerVars, toPage, port, pageVars, deliver, pending,
                 trapped, draining, terminated>>

\* The image cannot be instantiated: the promise is rejected.
FactoryRejects ==
  /\ WorkerIdle /\ phase = "loading" /\ factory = "running"
  /\ factory' = "rejected"
  /\ Post([kind |-> "Error"])
  /\ UNCHANGED <<phase, running, wiring, provider, caller, awaiting, delivered,
                 dispatched, emits, invoked, refused, containerVars, toPage, port,
                 pageVars, deliver, pending, trapped, draining, envVars>>

FactoryResolves_noDrain ==   \* mutant: the queue is not emptied
  /\ WorkerIdle /\ phase \in {"serving", "dead"} /\ factory = "running"
  /\ factory' = "resolved" /\ deliver' = TRUE
  /\ UNCHANGED <<hostVars, containerVars, toPage, port, pageVars, pending, trapped,
                 draining, envVars>>

\* The promise resolves, main() having run: from here the queue is drained in
\* one task.
FactoryResolves ==
  /\ WorkerIdle /\ phase \in {"serving", "dead"} /\ factory = "running"
  /\ factory' = "resolved"
  /\ deliver' = TRUE /\ draining' = TRUE
  /\ UNCHANGED <<hostVars, containerVars, toPage, port, pageVars, pending, trapped, envVars>>

Drain_pop ==   \* mutant: pop() where the code shifts
  /\ WorkerAlive /\ draining /\ running = "none"
  /\ pending # <<>> /\ ~trapped
  /\ pending' = SubSeq(pending, 1, Len(pending) - 1)
  /\ DeliverGuarded(pending[Len(pending)])
  /\ UNCHANGED <<containerVars, toPage, port, pageVars, deliver, factory, draining, envVars>>

Drain ==
  /\ WorkerAlive /\ draining /\ running = "none"
  /\ pending # <<>> /\ ~trapped
  /\ pending' = Tail(pending)
  /\ DeliverGuarded(Head(pending))
  /\ UNCHANGED <<containerVars, toPage, port, pageVars, deliver, factory, draining, envVars>>

DrainEnds ==
  /\ WorkerAlive /\ draining /\ running = "none"
  /\ pending = <<>> \/ trapped
  /\ draining' = FALSE
  /\ UNCHANGED <<hostVars, containerVars, toPage, port, pageVars, deliver, pending,
                 trapped, factory, envVars>>

-----------------------------------------------------------------------------
(* The image inside the Worker. *)

ImageMain == WorkerIdle /\ factory = "running" /\ Main /\ UNCHANGED outerVars
ImageServes == WorkerAlive /\ MainServes /\ UNCHANGED outerVars
ImageTimer == WorkerIdle /\ TimerFires /\ UNCHANGED outerVars
ImageModuleCode == WorkerAlive /\ ModuleCode /\ UNCHANGED outerVars

TrapInFrame_uncaught ==   \* mutant: no try around deliver
  /\ WorkerAlive /\ running \in {"call", "callback"}
  /\ Trap /\ UNCHANGED posted
  /\ errorEvent' = TRUE /\ deathBy' = "frame"
  /\ UNCHANGED <<containerVars, toPage, port, pageVars, workerVars, terminated>>

\* A trap on the stack of a delivered frame unwinds into deliverGuarded.
TrapInFrame ==
  /\ WorkerAlive /\ running \in {"call", "callback"}
  /\ Trap
  /\ trapped' = TRUE
  /\ Post([kind |-> "Trap"])
  /\ deathBy' = "frame"
  /\ UNCHANGED <<containerVars, toPage, port, pageVars, deliver, pending, factory,
                 draining, terminated, errorEvent>>

\* A trap in a callback the image scheduled is uncaught.
TrapInTimer ==
  /\ WorkerAlive /\ running = "timer"
  /\ Trap /\ UNCHANGED posted
  /\ errorEvent' = TRUE /\ deathBy' = "timer"
  /\ UNCHANGED <<containerVars, toPage, port, pageVars, workerVars, terminated>>

\* A trap in main(), the load hook's included.  What the glue makes of it is
\* the toolchain's: it rejects the factory's promise, or is uncaught (run()
\* released from an event handler), or is swallowed; the factory's promise is
\* then lost, or had already been resolved, and resolves with a dead image.
TrapInMain ==
  /\ WorkerAlive /\ running = "hook"
  /\ Trap
  /\ deathBy' = "main"
  /\ \/ /\ factory' = "rejected" /\ Post([kind |-> "Error"])
        /\ UNCHANGED errorEvent
     \/ /\ factory' \in {factory, "lost"} /\ errorEvent' = TRUE
        /\ UNCHANGED posted
     \/ UNCHANGED <<factory, posted, errorEvent>>
  /\ UNCHANGED <<containerVars, toPage, port, pageVars, deliver, pending, trapped,
                 draining, terminated>>

\* A callback the image had scheduled before it died runs all the same: only a
\* frame is kept from a dead image.  It throws, and nothing catches that.
LateCallbackThrows ==
  /\ WorkerIdle /\ phase = "dead"
  /\ errorEvent' = TRUE /\ deathBy' = "late"
  /\ UNCHANGED <<hostVars, containerVars, toPage, port, pageVars, workerVars, terminated>>

\* The engine kills the Worker outright.
EngineKills ==
  /\ WorkerAlive
  /\ terminated' = TRUE /\ errorEvent' = TRUE /\ deathBy' = "engine"
  /\ UNCHANGED <<hostVars, containerVars, toPage, port, pageVars, workerVars>>

-----------------------------------------------------------------------------
PageStep == PageStarts \/ PageRelays \/ PageTakes \/ PageOnError

WorkerStep ==
  \/ WorkerQueues \/ WorkerDelivers \/ Drain \/ DrainEnds
  \/ FactoryRejects \/ FactoryResolves
  \/ ImageMain \/ ImageServes

\* The module's own code returning to the task that called it.
ModuleReturns == WorkerAlive /\ (DispatchReturns \/ CallbackReturns) /\ UNCHANGED outerVars

Failures ==
  \/ GlueThrows \/ TrapInFrame \/ TrapInTimer \/ TrapInMain
  \/ LateCallbackThrows \/ EngineKills

VariantNext ==
  \/ \E f \in Frames : ContainerSends(f)
  \/ PageStep \/ WorkerStep
  \/ ImageTimer \/ ImageModuleCode
  \/ Failures

\* Both event loops run the tasks they have and module code returns; the
\* Worker's message tasks are not starved by the timers it also runs, hence
\* strong fairness.  Nothing is assumed of the container or of failures.
Fairness == WF_vars(PageStep) /\ SF_vars(WorkerStep) /\ WF_vars(ModuleReturns)

VariantSpec == VariantInit /\ [][VariantNext]_vars /\ Fairness

-----------------------------------------------------------------------------
(* Properties. *)

VariantTypeOK ==
  /\ TypeOK
  /\ sent \in Seq(InboundFrames) /\ toPage \in Seq(InboundFrames)
  /\ port \in Seq(InboundFrames) /\ pending \in Seq(InboundFrames)
  /\ received \in Seq(PostedFrames)
  /\ closes \in 0..1 /\ taken \in 0..Len(posted)
  /\ page \in {"waiting", "up"}
  /\ factory \in {"running", "resolved", "rejected", "lost"}
  /\ {reported, deliver, trapped, draining, terminated, errorEvent} \subseteq BOOLEAN
  /\ deathBy \in {"nothing", "load", "main", "frame", "timer", "late", "engine"}

\* What the image has seen is always a prefix of what the container sent, and
\* while everything is alive the rest is on its way, in order: frames that
\* arrive before the image is up are neither dropped, doubled nor overtaken by
\* those that arrive during or after the drain.
FramesInOrder ==
  /\ \E n \in 0..Len(sent) : delivered = SubSeq(sent, 1, n)
  /\ deathBy = "nothing" => delivered \o pending \o port \o toPage = sent

\* The door and the pipe together: a call whose container had already sent a
\* credential never reaches the module without one of the credentials sent
\* before it, even when both waited in the Worker's queue.
DoorHoldsEndToEnd ==
  \A d \in dispatched :
    \/ GrantedBefore(sent, d.id) = {}
    \/ sent[d.id].auth \in GrantedBefore(sent, d.id)

\* What the container receives is always a prefix of what the image posted,
\* nothing reordered or invented.  A trap inside a delivered frame is reported
\* on the port itself, so when that is the last failure the prefix is the whole
\* of it by the time the channel closes.  It need not be when an `error` event
\* overtakes the port: every other death, and a frame's too once a callback of
\* the dead image has thrown or the engine has killed the Worker.
AnswersBeforeTrapArrive ==
  LET transport == OfKind(posted, Transport)
  IN /\ \E n \in 0..Len(transport) : received = SubSeq(transport, 1, n)
     /\ closes > 0 /\ deathBy = "frame" => received = transport

\* One death is reported once, whichever of its two routes fire, and only a
\* death is: a page never closes the channel of a live image.
OneReportPerDeath == closes <= 1 /\ (closes = 1 => deathBy # "nothing")

\* A dead image or Worker is eventually reported by closing the channel, unless
\* the factory's promise reported it; an image that died in main() unseen by
\* either is found out by the first frame the container sends.
DeathReported ==
  (deathBy # "nothing" /\ (deathBy = "main" => sent # <<>>))
    ~> (closes > 0 \/ factory = "rejected")

\* The variant implements the abstract served module.
Abstract == INSTANCE ServedModule WITH
  asked <- IdsOf(OfKind(sent, Requests)),
  answers <- IdsOf(OfKind(received, {"Result"})),
  state <- IF closes > 0 THEN "closed"
           ELSE IF factory = "rejected" THEN "mute" ELSE "open"
ImplementsServedModule == Abstract!Spec

\* The comment on `trapped`: a trap sets it, so that a dead image is never
\* spoken to again.  For a trap in a callback the image scheduled: no later
\* frame is delivered to it, to throw and be the trap that is flagged.
DeadImageNotSpokenTo ==
  [][~ (deathBy = "timer" /\ ~trapped /\ trapped')]_vars
=============================================================================
