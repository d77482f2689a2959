------------------------------ MODULE ViewHost ------------------------------
(***************************************************************************)
(* The backend image of a `ui_qml` module's `web` variant                  *)
(* (src/wasm/logos_view_wasm_host.cpp) with the page that brings it up     *)
(* (src/wasm/logos-view-loader.js) and the container at the far end.       *)
(*                                                                         *)
(* The image answers the core's contract query and takes its credentials;  *)
(* what it sends is calls to other modules, made by its own backend at any *)
(* time or by the view once the page has installed it.  A view's call is   *)
(* a request to the router of this image, remoted over the port between    *)
(* the page's two images, and the router completes it by its request id.   *)
(* Admission is a race between three parties: the container delivers a     *)
(* credential, asks what the page serves, and registers the credential     *)
(* only when it has the answer; a call that arrives earlier is refused and *)
(* may cost the load.  The headless page is the same image with no view.   *)
(***************************************************************************)
EXTENDS Naturals, Sequences

CONSTANTS
  ModuleName,   \* kModuleName
  Targets,      \* modules a call may name and the core may grant tokens for
  Tokens,       \* non-empty credentials
  NoToken,      \* the empty token
  Empty,        \* the empty module or method name
  Frames,       \* the frames the container may originate
  Called,       \* the targets the module's own code names
  HasContainer, \* window.logosChannelReady is set
  Headless,     \* the page is the entry document with no view in it
  MaxCalls,     \* bound on callModuleAsync calls
  MaxFrames     \* bound on Token, Methods and Call frames of the container

ContainerFrames ==
  [kind : {"Methods"}, object : {ModuleName, Empty}]
  \cup [kind : {"Token"}, module : Targets, token : Tokens \cup {NoToken}]
  \cup {[kind |-> "Call"]}

ASSUME ViewAssumption ==
  /\ Frames \subseteq ContainerFrames
  /\ NoToken \notin Tokens /\ Empty \notin Targets
  /\ Called \subseteq Targets \cup {Empty}
  /\ {HasContainer, Headless} \subseteq BOOLEAN /\ MaxCalls \in Nat /\ MaxFrames \in Nat

VARIABLES
  page,         \* "loading", "bound", "installed" or "failed"
  image,        \* "absent", "constructing" (inside the backend), "up"
  sink,         \* PageChannel::m_sink is set
  m_tokens,     \* ViewHostHandler::m_tokens, NoToken where absent
  m_admitted, m_introspected,
  calls,        \* the calls made, in order
  status,       \* per call: "failing" (timer), "unsent", "waiting" or "done"
  settled,      \* history: how often each call's callback ran
  requests,     \* the targets of the view's requests, by request id
  taken,        \* how many of them the router has dispatched
  completed,    \* request id |-> "none" or the payload the router completed it with
  toImage,      \* the container's frames
  toContainer,  \* the image's frames
  frames,       \* history: how many frames the container originated
  granted,      \* history: Token frames delivered, in order
  registered,   \* the core has registered the module's credential
  arrived       \* history: calls at the container, if it was registered, the answer

vars == <<page, image, sink, m_tokens, m_admitted, m_introspected, calls,
          status, settled, requests, taken, completed, toImage, toContainer, frames, granted, registered, arrived>>
loaderVars == <<page, image, sink>>
handlerVars == <<m_tokens, m_admitted, m_introspected, granted>>
viewVars == <<requests, taken>>
callVars == <<calls, status, settled, completed, viewVars>>
containerVars == <<frames, registered, arrived>>

Ids == 1..MaxCalls
Backend == 0                      \* no request: a call of the backend's own

\* What a callback is told: a bare value, or the error envelope.
Payloads == {"value", "error"}

\* PageChannel: a frame goes to the sink the page set, and nowhere before that.
channelSends == sink

canCallModules == image = "up"
hostAdmitted_tokenOnly == canCallModules /\ m_admitted   \* mutant: the first signal alone
hostAdmitted == canCallModules /\ m_admitted /\ m_introspected

Init ==
  /\ page = "loading" /\ image = "absent" /\ sink = FALSE
  /\ m_tokens = [m \in Targets |-> NoToken]
  /\ m_admitted = FALSE /\ m_introspected = FALSE
  /\ calls = <<>> /\ status = <<>> /\ settled = <<>>
  /\ requests = <<>> /\ taken = 0 /\ completed = <<>>
  /\ toImage = <<>> /\ toContainer = <<>> /\ frames = 0
  /\ granted = <<>> /\ registered = FALSE /\ arrived = {}

-----------------------------------------------------------------------------
(* The page. *)

\* qtLoad of the backend: main() first builds the module's backend, whose
\* constructor may already call out.
StartImage ==
  /\ page = "loading" /\ image = "absent"
  /\ image' = "constructing"
  /\ UNCHANGED <<page, sink, handlerVars, callVars, toImage, toContainer, containerVars>>

\* The rest of main(): the handler, the channel, the connection, the router and
\* the Qt Remote Objects host.
MainServes ==
  /\ image = "constructing"
  /\ image' = "up"
  /\ UNCHANGED <<page, sink, handlerVars, callVars, toImage, toContainer, containerVars>>

Bind_sinkLater ==   \* mutant: the view is not held back for the bridge
  /\ image = "up" /\ ~sink
  /\ \/ page = "loading" /\ page' = "bound" /\ UNCHANGED sink
     \/ page \in {"bound", "installed"} /\ sink' = HasContainer /\ UNCHANGED page
  /\ UNCHANGED <<image, handlerVars, callVars, toImage, toContainer, containerVars>>

\* bindContainerChannel: both directions in one task once the bridge resolved,
\* and nothing at all where there is no container.
Bind ==
  /\ page = "loading" /\ image = "up"
  /\ page' = "bound"
  /\ sink' = HasContainer
  /\ UNCHANGED <<image, handlerVars, callVars, toImage, toContainer, containerVars>>

\* The QML document is fetched and installed into the runtime.
InstallView ==
  /\ page = "bound" /\ ~Headless
  /\ page' = "installed"
  /\ UNCHANGED <<image, sink, handlerVars, callVars, toImage, toContainer, containerVars>>

\* A script, an image or the document could not be loaded: the page's promise
\* rejects, and whatever was up stays up.  The headless page is done once bound.
LoadFails ==
  /\ image # "constructing"
  /\ (page = "loading" \/ (page = "bound" /\ ~Headless))
  /\ page' = "failed"
  /\ UNCHANGED <<image, sink, handlerVars, callVars, toImage, toContainer, containerVars>>

-----------------------------------------------------------------------------
(* Calls out of the image. *)

Call_noRefusal(by, target) ==   \* mutant: a channel without a sink reports success
  /\ LET sent == canCallModules /\ target # Empty /\ channelSends
         auth == IF target = Empty THEN NoToken ELSE m_tokens[target]
         call == [request |-> by, target |-> target, auth |-> auth,
                  grants |-> Len(granted), admitted |-> hostAdmitted]
     IN /\ calls' = Append(calls, call)
        /\ settled' = Append(settled, 0)
        /\ status' = Append(status,
             IF ~canCallModules \/ target = Empty THEN "failing" ELSE "waiting")
        /\ toContainer' = IF sent
             THEN Append(toContainer, [kind |-> "Call", id |-> Len(calls) + 1])
             ELSE toContainer
  /\ UNCHANGED <<loaderVars, handlerVars, requests, completed, toImage, containerVars>>

\* callModuleAsync: refusals are posted to the event loop; otherwise the call
\* goes out with the token held for its target, and a channel without a sink
\* refuses it.  `by` is the view's request, Backend for the backend's own call.
Call(by, target) ==
  /\ LET sent == canCallModules /\ target # Empty /\ channelSends
         auth == IF target = Empty THEN NoToken ELSE m_tokens[target]
         call == [request |-> by, target |-> target, auth |-> auth,
                  grants |-> Len(granted), admitted |-> hostAdmitted]
     IN /\ calls' = Append(calls, call)
        /\ settled' = Append(settled, 0)
        /\ status' = Append(status,
             IF ~canCallModules \/ target = Empty THEN "failing"
             ELSE IF sent THEN "waiting" ELSE "unsent")
        /\ toContainer' = IF sent
             THEN Append(toContainer, [kind |-> "Call", id |-> Len(calls) + 1])
             ELSE toContainer
  /\ UNCHANGED <<loaderVars, handlerVars, requests, completed, toImage, containerVars>>

\* The module's backend calls out, from its constructor on.
BackendCalls(target) ==
  /\ Len(calls) + Len(requests) - taken < MaxCalls
  /\ image \in {"constructing", "up"}
  /\ Call(Backend, target)
  /\ taken' = taken

\* logos.callModuleAsync in the view's QML: the runtime image remotes it.
ViewRequests(target) ==
  /\ Len(calls) + Len(requests) - taken < MaxCalls
  /\ page = "installed"
  /\ requests' = Append(requests, target)
  /\ completed' = Append(completed, "none")
  /\ UNCHANGED <<loaderVars, handlerVars, calls, status, settled, taken, toImage,
                 toContainer, containerVars>>

\* The router's handler: the same door, with a callback that remembers the
\* request it was called for.
dispatchModuleCall ==
  /\ taken < Len(requests)
  /\ taken' = taken + 1
  /\ Call(taken + 1, requests[taken + 1])

\* router->complete with the bare value, or with the error envelope
Complete(request, payload) ==
  completed' = IF request = Backend THEN completed
               ELSE [completed EXCEPT ![request] = payload]

Settle_latest(n, payload) ==   \* mutant: the callback completes the last request
  /\ status' = [status EXCEPT ![n] = "done"]
  /\ settled' = [settled EXCEPT ![n] = @ + 1]
  /\ Complete(IF calls[n].request = Backend THEN Backend ELSE taken, payload)

\* The callback of call n runs with its outcome.
Settle(n, payload) ==
  /\ status' = [status EXCEPT ![n] = "done"]
  /\ settled' = [settled EXCEPT ![n] = @ + 1]
  /\ Complete(calls[n].request, payload)

FailLater_twice(n) ==   \* mutant: inline, and once more from the timer
  /\ n \in DOMAIN status /\ status[n] \in {"failing", "unsent"}
  /\ status' = [status EXCEPT ![n] = "done"]
  /\ settled' = [settled EXCEPT ![n] = @ + 2]
  /\ Complete(calls[n].request, "error")
  /\ UNCHANGED <<loaderVars, handlerVars, calls, viewVars, toImage, toContainer, containerVars>>

\* The posted failure, or the connection's own for a frame it could not send.
FailLater(n) ==
  /\ n \in DOMAIN status /\ status[n] \in {"failing", "unsent"}
  /\ Settle(n, "error")
  /\ UNCHANGED <<loaderVars, handlerVars, calls, viewVars, toImage, toContainer, containerVars>>

-----------------------------------------------------------------------------
(* ViewHostHandler: what arrives from the container. *)

Take(kind) ==
  /\ sink /\ toImage # <<>> /\ Head(toImage).kind = kind
  /\ toImage' = Tail(toImage)

OnCall ==
  /\ Take("Call")
  /\ toContainer' = Append(toContainer, [kind |-> "Refused"])
  /\ UNCHANGED <<loaderVars, handlerVars, callVars, containerVars>>

OnMethods ==
  /\ Take("Methods")
  /\ IF Head(toImage).object = ModuleName
     THEN /\ toContainer' = Append(toContainer, [kind |-> "Contract"])
          /\ m_introspected' = TRUE
     ELSE /\ toContainer' = Append(toContainer, [kind |-> "Refused"])
          /\ UNCHANGED m_introspected
  /\ UNCHANGED <<loaderVars, m_tokens, m_admitted, granted, callVars, containerVars>>

OnToken_first ==   \* mutant: insert() where the code assigns
  /\ Take("Token")
  /\ LET f == Head(toImage) IN
     IF f.token = NoToken THEN UNCHANGED <<m_tokens, m_admitted, granted>>
     ELSE /\ m_tokens' = [m_tokens EXCEPT ![f.module] = IF @ = NoToken THEN f.token ELSE @]
          /\ m_admitted' = TRUE
          /\ granted' = Append(granted, f)
  /\ UNCHANGED <<loaderVars, m_introspected, callVars, toContainer, containerVars>>

OnToken_emptyGrant ==   \* mutant: no early return for an empty token
  /\ Take("Token")
  /\ LET f == Head(toImage) IN
     /\ m_tokens' = [m_tokens EXCEPT ![f.module] = f.token]
     /\ m_admitted' = TRUE
     /\ granted' = Append(granted, f)
  /\ UNCHANGED <<loaderVars, m_introspected, callVars, toContainer, containerVars>>

OnToken ==
  /\ Take("Token")
  /\ LET f == Head(toImage) IN
     IF f.token = NoToken THEN UNCHANGED <<m_tokens, m_admitted, granted>>
     ELSE /\ m_tokens' = [m_tokens EXCEPT ![f.module] = f.token]
          /\ m_admitted' = TRUE
          /\ granted' = Append(granted, f)
  /\ UNCHANGED <<loaderVars, m_introspected, callVars, toContainer, containerVars>>

\* The Result of an outbound call runs its callback.
OnResult ==
  /\ Take("Result")
  /\ LET n == Head(toImage).id IN
     IF status[n] = "waiting" THEN Settle(n, Head(toImage).payload)
     ELSE UNCHANGED <<status, settled, completed>>
  /\ UNCHANGED <<loaderVars, handlerVars, calls, viewVars, toContainer, containerVars>>

-----------------------------------------------------------------------------
(* The container and the core behind it. *)

ContainerSends(f) ==
  /\ HasContainer /\ frames < MaxFrames
  /\ frames' = frames + 1
  /\ toImage' = Append(toImage, f)
  /\ UNCHANGED <<loaderVars, handlerVars, callVars, toContainer, registered, arrived>>

\* The answered contract query is the load verdict: the credential is
\* registered on the far side of it.  Calls are answered one by one, in any
\* order, so the answer is a step of its own.
ContainerTakes ==
  /\ toContainer # <<>>
  /\ toContainer' = Tail(toContainer)
  /\ LET f == Head(toContainer) IN
     /\ registered' = (registered \/ f.kind = "Contract")
     /\ arrived' = IF f.kind = "Call"
                   THEN arrived \cup {[id |-> f.id, recognised |-> registered,
                                         answer |-> "none"]}
                   ELSE arrived
  /\ UNCHANGED <<loaderVars, handlerVars, callVars, toImage, frames>>

ContainerAnswers(a, payload) ==
  /\ a \in arrived /\ a.answer = "none"
  /\ arrived' = (arrived \ {a}) \cup {[a EXCEPT !.answer = payload]}
  /\ toImage' = Append(toImage, [kind |-> "Result", id |-> a.id, payload |-> payload])
  /\ UNCHANGED <<loaderVars, handlerVars, callVars, toContainer, frames, registered>>

-----------------------------------------------------------------------------
PageStep == StartImage \/ MainServes \/ Bind \/ InstallView
ImageStep == OnCall \/ OnMethods \/ OnToken \/ OnResult
FailStep == \E n \in DOMAIN status : FailLater(n)
AnswerStep ==
  ContainerTakes \/ \E a \in arrived, payload \in Payloads : ContainerAnswers(a, payload)

Next ==
  \/ PageStep \/ LoadFails \/ ImageStep \/ FailStep \/ AnswerStep \/ dispatchModuleCall
  \/ \E t \in Called : BackendCalls(t) \/ ViewRequests(t)
  \/ \E f \in Frames : ContainerSends(f)

\* The page's event loop runs timers and messages, the port's included, and the container answers
\* the calls it receives; nobody is obliged to make one.
Fairness ==
  /\ WF_vars(ImageStep) /\ WF_vars(FailStep) /\ WF_vars(AnswerStep)
  /\ WF_vars(dispatchModuleCall)

Spec == Init /\ [][Next]_vars /\ Fairness

-----------------------------------------------------------------------------
(* Properties. *)

CallType ==
  [request : {Backend} \cup Ids, target : Targets \cup {Empty},
   auth : Tokens \cup {NoToken}, grants : Nat, admitted : BOOLEAN]
InFrames == ContainerFrames \cup [kind : {"Result"}, id : Ids, payload : Payloads]
OutFrames == [kind : {"Contract", "Refused"}] \cup [kind : {"Call"}, id : Ids]
Arrivals == [id : Ids, recognised : BOOLEAN, answer : Payloads \cup {"none"}]
Grants == [kind : {"Token"}, module : Targets, token : Tokens]

TypeOK ==
  /\ page \in {"loading", "bound", "installed", "failed"}
  /\ image \in {"absent", "constructing", "up"}
  /\ {sink, m_admitted, m_introspected, registered} \subseteq BOOLEAN
  /\ m_tokens \in [Targets -> Tokens \cup {NoToken}]
  /\ requests \in Seq(Targets \cup {Empty})
  /\ taken \in 0..Len(requests)
  /\ completed \in Seq(Payloads \cup {"none"}) /\ Len(completed) = Len(requests)
  /\ calls \in Seq(CallType)
  /\ status \in Seq({"failing", "unsent", "waiting", "done"})
  /\ settled \in Seq(Nat)
  /\ toImage \in Seq(InFrames)
  /\ toContainer \in Seq(OutFrames)
  /\ frames \in 0..MaxFrames
  /\ granted \in Seq(Grants)
  /\ arrived \subseteq Arrivals

\* A backend that waits for hostAdmitted() before it calls out is never refused
\* for an unregistered credential: its call reaches the core after the answer
\* that makes the core register it.
AdmittedCallsRecognised ==
  \A a \in arrived : calls[a.id].admitted => a.recognised

\* A call carries the latest credential granted for its target when it was
\* made, and none where the core had granted none.
CarriesLatestGrant ==
  \A n \in DOMAIN calls :
    LET c == calls[n]
        mine == {j \in 1..c.grants : granted[j].module = c.target}
    IN c.auth = IF mine = {} THEN NoToken
                ELSE granted[CHOOSE j \in mine : \A k \in mine : k <= j].token

\* A callback runs at most once, and a call whose callback has not run is still
\* owned by somebody: a posted failure, the connection, a queue or the container.
CallbackOnce ==
  \A n \in DOMAIN calls :
    /\ settled[n] = (IF status[n] = "done" THEN 1 ELSE 0)
    /\ status[n] = "waiting" =>
         \/ \E i \in DOMAIN toContainer :
              toContainer[i].kind = "Call" /\ toContainer[i].id = n
         \/ \E i \in DOMAIN toImage : toImage[i].kind = "Result" /\ toImage[i].id = n
         \/ \E a \in arrived : a.id = n /\ a.answer = "none"

\* The view is installed after the bridge is bound, so a view that calls out as
\* soon as it is built is not racing it: with a container its calls go out.
ViewNeverRacesBridge ==
  \A n \in DOMAIN calls :
    calls[n].request # Backend /\ HasContainer => status[n] # "unsent"

\* A request of the view is completed with the outcome of the call made for it
\* and of no other, however the answers are reordered: the bare value when the
\* container answered it with one, the error envelope when it failed.
RequestGetsItsAnswer ==
  \A r \in DOMAIN completed : completed[r] # "none" =>
    \E n \in DOMAIN calls :
      /\ calls[n].request = r /\ calls[n].target = requests[r] /\ settled[n] = 1
      /\ completed[r] = IF \E a \in arrived : a.id = n /\ a.answer = "value"
                        THEN "value" ELSE "error"

\* No call hangs: not one made before the page bound its bridge, not one made
\* while the backend was being built, and not a view's on its way to the router.
CallsSettle ==
  \A n \in Ids :
    /\ (n \in DOMAIN calls) ~> (n \in DOMAIN calls /\ status[n] = "done")
    /\ (n \in DOMAIN requests) ~> (n \in DOMAIN completed /\ completed[n] # "none")

\* canCallModules() as its header has it: the page has bound the bridge.
CanCallMeansBound == canCallModules => sink
=============================================================================
