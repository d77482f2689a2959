------------------------------ MODULE WasmHost ------------------------------
(***************************************************************************)
(* The wasm image of a `web` variant: one Bare module linked together with *)
(* logos-protocol's web transport (src/wasm/logos_wasm_host.cpp).          *)
(*                                                                         *)
(* main() wires the channel, the connection and the outbound door, then    *)
(* wakes the module, whose load hook may already call out and emit; it     *)
(* posts its hello and leaves the runtime up.  From then on the image runs *)
(* one JavaScript task at a time: a delivered frame, or a callback the     *)
(* module scheduled for itself.  A handler that calls into the module is   *)
(* split where the module's own code runs, because that code may emit,     *)
(* call out, or trap before it returns.                                    *)
(*                                                                         *)
(* A frame is a record whose `id` is its place in the peer's stream (the   *)
(* request id of a Call or Methods).  What the image posts is kept whole   *)
(* in `posted`: the port to the page is a FIFO, so the reader only needs   *)
(* an index into it (module WebVariant).                                   *)
(***************************************************************************)
EXTENDS Naturals, FiniteSets, Subsequences

CONSTANTS
  ModuleName,   \* kModuleName: the one object this image serves
  Objects,      \* object names a frame may address, ModuleName among them
  Tokens,       \* non-empty credentials
  NoToken,      \* the empty string where a token is expected
  Modules,      \* module names a Token frame may announce
  NoModule,     \* the empty module name
  Callers,      \* caller documents a relay may attach to a Call
  NoCaller,     \* no caller document / no caller set in the image
  Events,       \* event names, Wildcard among them
  Wildcard,     \* the empty event name: every event
  Frames,       \* the inbound frames the peer may send
  MaxFrames,    \* bound on inbound frames
  MaxEmits,     \* bound on events the module emits
  MaxInvokes    \* bound on lp_invoke_async calls the module makes

Requests == {"Call", "Methods"}
Ids == 1..MaxFrames

InboundFrames ==
  [id : Ids, kind : {"Call"}, object : Objects,
   auth : Tokens \cup {NoToken}, caller : Callers \cup {NoCaller}]
  \cup [id : Ids, kind : {"Methods"}, object : Objects]
  \cup [id : Ids, kind : {"Subscribe", "Unsubscribe"}, object : Objects, event : Events]
  \cup [id : Ids, kind : {"Token"}, module : Modules \cup {NoModule},
        token : Tokens \cup {NoToken}]
  \cup [id : Ids, kind : {"Result"}, re : 1..MaxInvokes]

ASSUME BoundsAssumption ==
  MaxFrames \in Nat /\ MaxEmits \in Nat /\ MaxInvokes \in Nat
ASSUME NamesAssumption ==
  /\ ModuleName \in Objects
  /\ NoToken \notin Tokens
  /\ NoModule \notin Modules
  /\ NoCaller \notin Callers
  /\ Wildcard \in Events
ASSUME FramesAssumption == Frames \subseteq InboundFrames

VARIABLES
  phase,        \* "loading", "main", "serving" or "dead" (a trap)
  running,      \* the module code on the stack, "none" between tasks
  receiver,     \* the connection has installed its receiver on the channel
  door,         \* wasm_outbound_door holds the connection
  emitter,      \* the module has its emit callback
  m_tokens,     \* WasmModuleProvider::m_tokens
  m_tokenOwner, \* WasmModuleProvider::m_tokenOwner
  m_sinks,      \* keys of WasmModuleProvider::m_sinks
  caller,       \* what logos_module_set_call_caller last stored
  awaiting,     \* outbound call ids whose reply callback has not run
  posted,       \* everything posted to the page, in order
  delivered,    \* history: frames handed to the connection
  dispatched,   \* history: calls that reached the module, with the caller shown
  emits,        \* history: events emitted, with how many frames came before
  invoked,      \* history: how many lp_invoke_async calls the module made
  refused       \* history: how many of those were failed inline

provider == <<m_tokens, m_tokenOwner, m_sinks>>
wiring == <<receiver, door, emitter>>
hostVars == <<phase, running, wiring, provider, caller, awaiting, posted,
              delivered, dispatched, emits, invoked, refused>>

-----------------------------------------------------------------------------
(* What the image posts. *)

UnknownCaller == [kind |-> "unknown"]
ModuleCaller(m) == [kind |-> "module", name |-> m]
CallerDocs == Callers \cup {UnknownCaller} \cup {ModuleCaller(m) : m \in Modules}

Codes == {"ok", "MODULE_NOT_LOADED", "UNAUTHORIZED", "METHOD_FAILED", "module error"}
Result(id, code) == [kind |-> "Result", id |-> id, code |-> code]
EventFrame(e) == [kind |-> "Event", event |-> e]
OutboundCall(n) == [kind |-> "Call", out |-> n]
Hello == [kind |-> "Hello"]

PostedFrames ==
  [kind : {"Result"}, id : Ids, code : Codes]
  \cup [kind : {"Event"}, event : Events]
  \cup [kind : {"Call"}, out : 1..MaxInvokes]
  \cup {Hello}
  \cup [kind : {"Trap", "Error"}]   \* the worker script's own, on the same port

Post(frame) == posted' = Append(posted, frame)

\* The Result for each way a dispatch can come back: NULL, text that is not
\* JSON, the canonical {code, message} object, or any other value.
ReplyCode == [null |-> "METHOD_FAILED", malformed |-> "METHOD_FAILED",
              error |-> "module error", value |-> "ok"]

-----------------------------------------------------------------------------
Init ==
  /\ phase = "loading" /\ running = "none"
  /\ receiver = FALSE /\ door = FALSE /\ emitter = FALSE
  /\ m_tokens = {} /\ m_tokenOwner = [t \in Tokens |-> NoModule] /\ m_sinks = {}
  /\ caller = NoCaller /\ awaiting = {} /\ posted = <<>>
  /\ delivered = <<>> /\ dispatched = {} /\ emits = <<>>
  /\ invoked = 0 /\ refused = 0

Main_doorLast ==   \* mutant: the hand-over of the connection is left out
  /\ phase = "loading"
  /\ phase' = "main"
  /\ receiver' = TRUE /\ door' = FALSE /\ emitter' = TRUE
  /\ running' = "hook"
  /\ UNCHANGED <<provider, caller, awaiting, posted, delivered, dispatched,
                 emits, invoked, refused>>

\* main() up to the module's load hook: the channel, the connection and its
\* start(), the outbound door, then the context and the emit callback, whose
\* second setter fires on_context_ready.
Main ==
  /\ phase = "loading"
  /\ phase' = "main"
  /\ receiver' = TRUE /\ door' = TRUE /\ emitter' = TRUE
  /\ running' = "hook"
  /\ UNCHANGED <<provider, caller, awaiting, posted, delivered, dispatched,
                 emits, invoked, refused>>

\* The hook returned: the rest of main() posts the hello and keeps the
\* runtime alive.
MainServes ==
  /\ running = "hook"
  /\ phase' = "serving" /\ running' = "none"
  /\ Post(Hello)
  /\ UNCHANGED <<wiring, provider, caller, awaiting, delivered, dispatched,
                 emits, invoked, refused>>

-----------------------------------------------------------------------------
(* WasmModuleProvider: one action per message of the web transport. *)

\* WorkerPortChannel::deliver into the connection, between two tasks.
Receive(f) ==
  /\ phase = "serving" /\ running = "none" /\ receiver
  /\ delivered' = Append(delivered, f)

Authorized_emptyToken(auth) ==   \* mutant: a call without a token passes
  m_tokens = {} \/ auth \in m_tokens \cup {NoToken}
Authorized(auth) == m_tokens = {} \/ auth \in m_tokens

CallerOf_ownerless(f) ==   \* mutant: a grant without a module name is a name
  IF f.caller # NoCaller THEN f.caller
  ELSE IF f.auth \in m_tokens THEN ModuleCaller(m_tokenOwner[f.auth]) ELSE UnknownCaller

CallerOf(f) ==
  IF f.caller # NoCaller THEN f.caller
  ELSE IF f.auth \in Tokens /\ m_tokenOwner[f.auth] # NoModule
       THEN ModuleCaller(m_tokenOwner[f.auth])
       ELSE UnknownCaller

RefuseCall_silent(f) ==   \* mutant: a foreign object name returns before the reply
  /\ f.kind = "Call"
  /\ Receive(f)
  /\ \/ f.object # ModuleName /\ UNCHANGED posted
     \/ /\ f.object = ModuleName /\ ~Authorized(f.auth)
        /\ Post(Result(f.id, "UNAUTHORIZED"))
  /\ UNCHANGED <<phase, running, wiring, provider, caller, awaiting,
                 dispatched, emits, invoked, refused>>

RefuseCall(f) ==
  /\ f.kind = "Call"
  /\ Receive(f)
  /\ \/ f.object # ModuleName /\ Post(Result(f.id, "MODULE_NOT_LOADED"))
     \/ /\ f.object = ModuleName /\ ~Authorized(f.auth)
        /\ Post(Result(f.id, "UNAUTHORIZED"))
  /\ UNCHANGED <<phase, running, wiring, provider, caller, awaiting,
                 dispatched, emits, invoked, refused>>

DispatchCall(f) ==
  /\ f.kind = "Call" /\ f.object = ModuleName /\ Authorized(f.auth)
  /\ Receive(f)
  /\ running' = "call"
  /\ caller' = CallerOf(f)
  /\ dispatched' = dispatched \cup {[id |-> f.id, caller |-> CallerOf(f)]}
  /\ UNCHANGED <<phase, wiring, provider, awaiting, posted, emits, invoked, refused>>

OnMethods(f) ==
  /\ f.kind = "Methods"
  /\ Receive(f)
  /\ \/ f.object # ModuleName /\ Post(Result(f.id, "MODULE_NOT_LOADED"))
     \/ f.object = ModuleName /\ \E code \in {"ok", "METHOD_FAILED"} : Post(Result(f.id, code))
  /\ UNCHANGED <<phase, running, wiring, provider, caller, awaiting,
                 dispatched, emits, invoked, refused>>

OnSubscribe(f) ==
  /\ f.kind = "Subscribe"
  /\ Receive(f)
  /\ m_sinks' = IF f.object = ModuleName THEN m_sinks \cup {f.event} ELSE m_sinks
  /\ UNCHANGED <<phase, running, wiring, m_tokens, m_tokenOwner, caller, awaiting,
                 posted, dispatched, emits, invoked, refused>>

OnUnsubscribe(f) ==
  /\ f.kind = "Unsubscribe"
  /\ Receive(f)
  /\ m_sinks' = IF f.object = ModuleName THEN m_sinks \ {f.event} ELSE m_sinks
  /\ UNCHANGED <<phase, running, wiring, m_tokens, m_tokenOwner, caller, awaiting,
                 posted, dispatched, emits, invoked, refused>>

OnToken_firstOwner(f) ==   \* mutant: insert() where the code assigns
  /\ f.kind = "Token"
  /\ Receive(f)
  /\ IF f.token \in {NoToken} \cup m_tokens THEN UNCHANGED <<m_tokens, m_tokenOwner>>
     ELSE /\ m_tokens' = m_tokens \cup {f.token}
          /\ m_tokenOwner' = [m_tokenOwner EXCEPT ![f.token] = f.module]
  /\ UNCHANGED <<phase, running, wiring, m_sinks, caller, awaiting, posted,
                 dispatched, emits, invoked, refused>>

OnToken(f) ==
  /\ f.kind = "Token"
  /\ Receive(f)
  /\ IF f.token = NoToken THEN UNCHANGED <<m_tokens, m_tokenOwner>>
     ELSE /\ m_tokens' = m_tokens \cup {f.token}
          /\ m_tokenOwner' = [m_tokenOwner EXCEPT ![f.token] = f.module]
  /\ UNCHANGED <<phase, running, wiring, m_sinks, caller, awaiting, posted,
                 dispatched, emits, invoked, refused>>

\* The reply to an outbound call: the connection runs the callback that waits
\* for it, and drops a reply nobody waits for.
OnResult(f) ==
  /\ f.kind = "Result"
  /\ Receive(f)
  /\ awaiting' = awaiting \ {f.re}
  /\ running' = IF f.re \in awaiting THEN "callback" ELSE "none"
  /\ UNCHANGED <<phase, wiring, provider, caller, posted, dispatched,
                 emits, invoked, refused>>

Deliver(f) ==
  \/ RefuseCall(f) \/ DispatchCall(f) \/ OnMethods(f)
  \/ OnSubscribe(f) \/ OnUnsubscribe(f) \/ OnToken(f) \/ OnResult(f)

-----------------------------------------------------------------------------
(* The module's own code, whenever it is on the stack. *)

\* lp_invoke_async: the call goes on the wire through the door, or fails
\* inline with nothing posted when no connection was handed over.
Invoke ==
  /\ running # "none" /\ invoked < MaxInvokes
  /\ invoked' = invoked + 1
  /\ IF door
     THEN /\ Post(OutboundCall(invoked + 1))
          /\ awaiting' = awaiting \cup {invoked + 1}
          /\ UNCHANGED refused
     ELSE /\ refused' = refused + 1
          /\ UNCHANGED <<posted, awaiting>>
  /\ UNCHANGED <<phase, running, wiring, provider, caller, delivered, dispatched, emits>>

Emit_bothSinks(e) ==   \* mutant: no return after the named sink
  /\ running # "none" /\ emitter /\ Len(emits) < MaxEmits
  /\ emits' = Append(emits, [event |-> e, after |-> Len(delivered)])
  /\ posted' = posted \o [i \in 1..Cardinality(m_sinks \cap {e, Wildcard}) |-> EventFrame(e)]
  /\ UNCHANGED <<phase, running, wiring, provider, caller, awaiting,
                 delivered, dispatched, invoked, refused>>

\* emitTrampoline and emitEvent: one copy, to the named sink before the
\* wildcard one.
Emit(e) ==
  /\ running # "none" /\ emitter /\ Len(emits) < MaxEmits
  /\ emits' = Append(emits, [event |-> e, after |-> Len(delivered)])
  /\ IF e \in m_sinks \/ Wildcard \in m_sinks
     THEN Post(EventFrame(e)) ELSE UNCHANGED posted
  /\ UNCHANGED <<phase, running, wiring, provider, caller, awaiting,
                 delivered, dispatched, invoked, refused>>

DispatchReturns_callerKept ==   \* mutant: set_call_caller(nullptr) left out
  /\ running = "call"
  /\ running' = "none"
  /\ \E out \in DOMAIN ReplyCode :
       Post(Result(delivered[Len(delivered)].id, ReplyCode[out]))
  /\ UNCHANGED <<phase, wiring, provider, caller, awaiting, delivered, dispatched,
                 emits, invoked, refused>>

\* logos_module_dispatch returned: the caller is cleared and the answer goes
\* out on the stack of the call that asked for it.
DispatchReturns ==
  /\ running = "call"
  /\ running' = "none"
  /\ caller' = NoCaller
  /\ \E out \in DOMAIN ReplyCode :
       Post(Result(delivered[Len(delivered)].id, ReplyCode[out]))
  /\ UNCHANGED <<phase, wiring, provider, awaiting, delivered, dispatched,
                 emits, invoked, refused>>

\* A reply callback, or a callback the module scheduled, returned.
CallbackReturns ==
  /\ running \in {"callback", "timer"}
  /\ running' = "none"
  /\ UNCHANGED <<phase, wiring, provider, caller, awaiting, posted, delivered,
                 dispatched, emits, invoked, refused>>

\* The event loop runs a callback the module scheduled, outside any frame.  That
\* of a dead image throws on entry and changes nothing in it: what its Worker
\* makes of the throw is WebVariant's LateCallbackThrows.
TimerFires ==
  /\ phase = "serving" /\ running = "none"
  /\ Len(emits) < MaxEmits \/ invoked < MaxInvokes
  /\ running' = "timer"
  /\ UNCHANGED <<phase, wiring, provider, caller, awaiting, posted, delivered,
                 dispatched, emits, invoked, refused>>

\* A wasm trap unwinds whatever is on the stack: nothing that follows the
\* call into the module runs, the clearing of the caller included.
Trap ==
  /\ running # "none"
  /\ phase' = "dead" /\ running' = "none"
  /\ UNCHANGED <<wiring, provider, caller, awaiting, delivered, dispatched,
                 emits, invoked, refused>>

ModuleCode ==
  \/ Invoke
  \/ \E e \in Events \ {Wildcard} : Emit(e)
  \/ DispatchReturns
  \/ CallbackReturns

\* The connection's peer numbers its frames in the order it sends them and
\* answers only outbound calls it was sent.
PeerMaySend(f, stream, calls) ==
  /\ f.id = Len(stream) + 1
  /\ f.kind = "Result" =>
       /\ \E i \in DOMAIN calls : calls[i] = OutboundCall(f.re)
       /\ \A i \in DOMAIN stream : stream[i].kind = "Result" => stream[i].re # f.re

Next ==
  \/ Main \/ MainServes
  \/ \E f \in Frames : PeerMaySend(f, delivered, posted) /\ Deliver(f)
  \/ TimerFires \/ ModuleCode
  \/ Trap /\ UNCHANGED posted

Spec == Init /\ [][Next]_hostVars

-----------------------------------------------------------------------------
(* Properties. *)

TypeOK ==
  /\ phase \in {"loading", "main", "serving", "dead"}
  /\ running \in {"none", "hook", "call", "callback", "timer"}
  /\ wiring \in BOOLEAN \X BOOLEAN \X BOOLEAN
  /\ m_tokens \subseteq Tokens
  /\ m_tokenOwner \in [Tokens -> Modules \cup {NoModule}]
  /\ m_sinks \subseteq Events
  /\ caller \in CallerDocs \cup {NoCaller}
  /\ awaiting \subseteq 1..MaxInvokes
  /\ posted \in Seq(PostedFrames)
  /\ delivered \in Seq(InboundFrames)
  /\ dispatched \subseteq [id : Ids, caller : CallerDocs]
  /\ emits \in Seq([event : Events, after : 0..MaxFrames])
  /\ invoked \in 0..MaxInvokes
  /\ refused \in 0..MaxInvokes

\* The Token frames of a stream that grant t, before its n-th frame; an empty
\* token grants nothing.
Grants(stream, n, t) ==
  {j \in 1..(n - 1) :
     stream[j].kind = "Token" /\ stream[j].token = t /\ t # NoToken}

GrantedBefore(stream, n) == {t \in Tokens : Grants(stream, n, t) # {}}

\* The door shuts on the first token, and for good: a call that reached the
\* module's code was sent either before any credential was granted or with one
\* of those granted before it, however the grants and the calls interleave.
DoorHolds ==
  \A d \in dispatched :
    \/ GrantedBefore(delivered, d.id) = {}
    \/ delivered[d.id].auth \in GrantedBefore(delivered, d.id)

\* Who the module was told is calling is what the call's own document says;
\* failing that, the module named by the LATEST grant of the token the call
\* carries; failing that, nobody (callerJson, m_tokenOwner's overwriting).
CallerAttested ==
  \A d \in dispatched :
    LET f == delivered[d.id]
        grants == Grants(delivered, d.id, f.auth)
        latest == {j \in grants : \A k \in grants : k <= j}
    IN \/ f.caller # NoCaller /\ d.caller = f.caller
       \/ /\ f.caller = NoCaller
          /\ \E j \in latest : /\ delivered[j].module # NoModule
                             /\ d.caller = ModuleCaller(delivered[j].module)
       \/ /\ f.caller = NoCaller
          /\ \A j \in latest : delivered[j].module = NoModule
          /\ d.caller = UnknownCaller

\* The caller is set for the duration of one dispatch and no longer: code that
\* runs later, in a reply callback or a timer, never sees the last caller's
\* name, and the call on the stack sees its own.
CallerScoped ==
  /\ caller # NoCaller => running = "call" \/ phase = "dead"
  /\ running = "call" => [id |-> Len(delivered), caller |-> caller] \in dispatched

\* Every request is answered exactly once and in the order it was asked, on the
\* stack of its own delivery: only the call the module is still working on, or
\* died in, is unanswered.
AnsweredInOrder ==
  /\ \A i, j \in DOMAIN posted :
       i < j /\ posted[i].kind = "Result" /\ posted[j].kind = "Result"
         => posted[i].id < posted[j].id
  /\ \A i \in DOMAIN posted : posted[i].kind = "Result" =>
       posted[i].id \in DOMAIN delivered /\ delivered[posted[i].id].kind \in Requests
  /\ \A n \in DOMAIN delivered : delivered[n].kind \in Requests =>
       \/ \E i \in DOMAIN posted : posted[i].kind = "Result" /\ posted[i].id = n
       \/ n = Len(delivered) /\ (running = "call" \/ phase = "dead")

\* A live subscription to e after the first n frames.
Subscribed(e, n) ==
  \E j \in 1..n :
    /\ delivered[j].kind = "Subscribe"
    /\ delivered[j].object = ModuleName /\ delivered[j].event = e
    /\ \A k \in (j + 1)..n :
         ~ /\ delivered[k].kind = "Unsubscribe"
           /\ delivered[k].object = ModuleName /\ delivered[k].event = e

\* The frames of a stream that are of the given kinds.
OfKind(stream, kinds) ==
  SelectAt(stream, {i \in DOMAIN stream : stream[i].kind \in kinds})

IdsOf(frames) == [i \in DOMAIN frames |-> frames[i].id]

\* The emissions somebody was subscribed to.
Heard == SelectAt(emits, {i \in DOMAIN emits :
  Subscribed(emits[i].event, emits[i].after) \/ Subscribed(Wildcard, emits[i].after)})

\* Each event the module emits crosses the port exactly once when the peer
\* subscribed to it by name, by wildcard or both, and not at all otherwise, in
\* the order of emission (emitEvent, and a load hook that emits too early).
EventsOncePerSubscriber ==
  OfKind(posted, {"Event"}) = [i \in DOMAIN Heard |-> EventFrame(Heard[i].event)]

\* No outbound call is failed inline, a load hook's included, and the callback
\* of each waits until its reply is delivered: none is lost on the way out of
\* main() and none runs twice.
OutboundCallsReachWire ==
  /\ refused = 0
  /\ awaiting = {n \in 1..invoked :
       \A i \in DOMAIN delivered :
         delivered[i].kind = "Result" => delivered[i].re # n}
=============================================================================
