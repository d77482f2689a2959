--------------------------- MODULE WasmHostProofs ---------------------------
(***************************************************************************)
(* The safety of one web-variant image, for every set of names, tokens and *)
(* frames and every bound.                                                 *)
(*                                                                         *)
(* A handler's decision is taken on the provider's maps, and the           *)
(* properties speak of the frames the peer sent; the invariant ties the    *)
(* two together (Door, Owners), says which module code is on the stack in  *)
(* which phase (Stages), and numbers frames and calls (Numbered, Outbound).*)
(* What is said of the messages of one kind, the events and the answers as *)
(* streams of their own, is a second invariant on top of it (Streams).     *)
(***************************************************************************)
EXTENDS WasmHost, SubsequencesProofs

\* Which module code can be on the stack, and what main() has wired by then.
Stages ==
  /\ running = "hook" => phase = "main"
  /\ running \in {"call", "callback", "timer"} => phase = "serving"
  /\ phase = "main" => running = "hook"
  /\ phase # "loading" => receiver /\ door /\ emitter

\* Frames are handed over in the order of their ids; what the module was shown
\* are calls among them.
Numbered ==
  /\ \A i \in 1..Len(delivered) : delivered[i].id = i
  /\ \A d \in dispatched : d.id \in 1..Len(delivered)

\* The provider's token set is what the stream has granted so far.
Door == m_tokens = GrantedBefore(delivered, Len(delivered) + 1)

\* A token's owner is the module its latest grant names.
Owners == \A t \in Tokens :
  LET grants == Grants(delivered, Len(delivered) + 1, t) IN
  \/ grants = {} /\ m_tokenOwner[t] = NoModule
  \/ \E j \in grants : /\ \A k \in grants : k <= j
                       /\ m_tokenOwner[t] = delivered[j].module

\* Outbound calls are numbered as the module makes them, and a reply answers
\* one that was made.
Outbound ==
  /\ \A i \in 1..Len(posted) : posted[i].kind = "Call" => posted[i].out \in 1..invoked
  /\ \A i \in 1..Len(delivered) :
       delivered[i].kind = "Result" => delivered[i].re \in 1..invoked

\* While a call is on the stack its answer is still to come.
Unanswered == running = "call" =>
  /\ Len(delivered) > 0 /\ delivered[Len(delivered)].kind = "Call"
  /\ \A i \in 1..Len(posted) : posted[i].kind = "Result" => posted[i].id < Len(delivered)

IInv == TypeOK /\ Stages /\ Numbered /\ Door /\ Owners /\ Outbound /\ Unanswered
        /\ DoorHolds /\ CallerAttested /\ CallerScoped /\ AnsweredInOrder
        /\ OutboundCallsReachWire

-----------------------------------------------------------------------------
(* The frames and the streams they make. *)

\* What a frame of each kind carries.
LEMMA FrameFields ==
  ASSUME NEW f \in Frames
  PROVE  /\ f \in InboundFrames /\ f.id \in Ids
         /\ f.kind = "Call" => f.auth \in Tokens \cup {NoToken}
                               /\ f.caller \in Callers \cup {NoCaller}
         /\ f.kind \in {"Subscribe", "Unsubscribe"} => f.event \in Events
         /\ f.kind = "Token" => f.module \in Modules \cup {NoModule}
                                /\ f.token \in Tokens \cup {NoToken}
         /\ f.kind = "Result" => f.re \in 1..MaxInvokes
BY FramesAssumption DEF FramesAssumption, InboundFrames

\* A stream with one more element.
LEMMA AppendFacts ==
  ASSUME NEW S, NEW s \in Seq(S), NEW e \in S
  PROVE  /\ Append(s, e) \in Seq(S)
         /\ Len(s) \in Nat /\ Len(Append(s, e)) = Len(s) + 1
         /\ DOMAIN s = 1..Len(s)
         /\ \A i \in 1..Len(s) : Append(s, e)[i] = s[i]
         /\ Append(s, e)[Len(s) + 1] = e
OBVIOUS

\* What a stream granted before a position does not depend on what follows it.
LEMMA GrantsPrefix ==
  ASSUME NEW s \in Seq(InboundFrames), NEW f \in InboundFrames,
         NEW n \in 1..(Len(s) + 1), NEW t
  PROVE  Grants(Append(s, f), n, t) = Grants(s, n, t)
<1>1. \A j \in 1..(n - 1) : Append(s, f)[j] = s[j]
  BY AppendFacts
<1> QED
  BY <1>1 DEF Grants

\* Nor does the set of tokens granted before it.
LEMMA GrantedPrefix ==
  ASSUME NEW s \in Seq(InboundFrames), NEW f \in InboundFrames,
         NEW n \in 1..(Len(s) + 1)
  PROVE  GrantedBefore(Append(s, f), n) = GrantedBefore(s, n)
BY GrantsPrefix DEF GrantedBefore

\* One more frame grants its own token, if it is a Token frame with one.
LEMMA GrantsNext ==
  ASSUME NEW s \in Seq(InboundFrames), NEW f \in InboundFrames, NEW t
  PROVE  Grants(Append(s, f), Len(s) + 2, t) =
           IF f.kind = "Token" /\ f.token = t /\ t # NoToken
           THEN Grants(s, Len(s) + 1, t) \cup {Len(s) + 1}
           ELSE Grants(s, Len(s) + 1, t)
<1>1. /\ \A j \in 1..Len(s) : Append(s, f)[j] = s[j]
      /\ Append(s, f)[Len(s) + 1] = f
      /\ Len(s) \in Nat
  BY AppendFacts
<1>2. 1..(Len(s) + 2 - 1) = 1..Len(s) \cup {Len(s) + 1} /\ 1..(Len(s) + 1 - 1) = 1..Len(s)
  BY <1>1
<1> QED
  BY <1>1, <1>2 DEF Grants

\* One more frame adds at most its own token to the granted ones.
LEMMA GrantedNext ==
  ASSUME NEW s \in Seq(InboundFrames), NEW f \in InboundFrames
  PROVE  GrantedBefore(Append(s, f), Len(s) + 2) =
           GrantedBefore(s, Len(s) + 1) \cup
             {t \in Tokens : f.kind = "Token" /\ f.token = t}
<1>1. \A t \in Tokens : t # NoToken
  BY NamesAssumption DEF NamesAssumption
<1> QED
  BY <1>1, GrantsNext DEF GrantedBefore

-----------------------------------------------------------------------------
(* Types. *)

\* A frame handed over is the next of the stream, so the stream stays within
\* the bound on frames.
LEMMA ReceiveType ==
  ASSUME NEW f \in Frames, TypeOK, PeerMaySend(f, delivered, posted), Receive(f)
  PROVE  /\ delivered' \in Seq(InboundFrames)
         /\ f.id = Len(delivered) + 1 /\ Len(delivered) + 1 \in Ids
BY FrameFields, AppendFacts DEF TypeOK, PeerMaySend, Receive

\* A post keeps the port a stream of posted frames.
LEMMA PostType ==
  ASSUME TypeOK, NEW m \in PostedFrames, Post(m)
  PROVE  posted' \in Seq(PostedFrames)
BY AppendFacts DEF TypeOK, Post

\* A Result for a known id and code is a frame the image posts.
LEMMA ResultType ==
  ASSUME NEW id \in Ids, NEW code \in Codes
  PROVE  Result(id, code) \in PostedFrames
BY DEF Result, PostedFrames

\* The caller shown to the module is a caller document.
LEMMA CallerType ==
  ASSUME TypeOK, NEW f \in Frames, f.kind = "Call"
  PROVE  CallerOf(f) \in CallerDocs
<1>1. f.auth \in Tokens => m_tokenOwner[f.auth] \in Modules \cup {NoModule}
  BY DEF TypeOK
<1> QED
  BY <1>1, FrameFields DEF CallerOf, CallerDocs

\* The stream never outgrows the bound on frames.
LEMMA Bounded == ASSUME TypeOK, Numbered PROVE Len(delivered) \in 0..MaxFrames
<1>1. CASE Len(delivered) = 0
  BY <1>1, BoundsAssumption DEF BoundsAssumption
<1>2. CASE Len(delivered) # 0
  <2>1. Len(delivered) \in 1..Len(delivered)
    BY <1>2, AppendFacts DEF TypeOK
  <2>2. delivered[Len(delivered)] \in InboundFrames
    BY <2>1 DEF TypeOK
  <2>3. delivered[Len(delivered)].id \in 1..MaxFrames
    BY <2>2 DEF InboundFrames, Ids
  <2> QED
    BY <2>1, <2>3 DEF Numbered
<1> QED
  BY <1>1, <1>2

\* What the deliveries leave alone, and what each may change.
LEMMA DeliverType ==
  ASSUME NEW f \in Frames, TypeOK, PeerMaySend(f, delivered, posted), Deliver(f)
  PROVE  TypeOK'
<1> USE DEF TypeOK, wiring
<1>0. delivered' \in Seq(InboundFrames) /\ f.id \in Ids
  <2>1. Receive(f)
    BY DEF Deliver, RefuseCall, DispatchCall, OnMethods, OnSubscribe, OnUnsubscribe,
           OnToken, OnResult
  <2> QED
    BY <2>1, ReceiveType, FrameFields
<1>1. CASE RefuseCall(f)
  <2>1. posted' \in Seq(PostedFrames)
    BY <1>0, <1>1, PostType, ResultType DEF RefuseCall, Codes
  <2> QED
    BY <1>0, <1>1, <2>1 DEF RefuseCall, provider
<1>2. CASE DispatchCall(f)
  <2>1. CallerOf(f) \in CallerDocs
    BY <1>2, CallerType DEF DispatchCall
  <2>2. running' = "call" /\ caller' \in CallerDocs
        /\ dispatched' \subseteq [id : Ids, caller : CallerDocs]
    BY <1>0, <1>2, <2>1 DEF DispatchCall
  <2> QED
    BY <1>0, <1>2, <2>2 DEF DispatchCall, provider
<1>3. CASE OnMethods(f)
  <2>1. posted' \in Seq(PostedFrames)
    BY <1>0, <1>3, PostType, ResultType DEF OnMethods, Codes
  <2> QED
    BY <1>0, <1>3, <2>1 DEF OnMethods, provider
<1>4. CASE OnSubscribe(f)
  <2>1. m_sinks' \subseteq Events
    BY <1>4, FrameFields DEF OnSubscribe
  <2> QED
    BY <1>0, <1>4, <2>1 DEF OnSubscribe
<1>5. CASE OnUnsubscribe(f)
  <2>1. m_sinks' \subseteq Events
    BY <1>5 DEF OnUnsubscribe
  <2> QED
    BY <1>0, <1>5, <2>1 DEF OnUnsubscribe
<1>6. CASE OnToken(f)
  <2>1. /\ m_tokens' \subseteq Tokens
        /\ m_tokenOwner' \in [Tokens -> Modules \cup {NoModule}]
    BY <1>6, FrameFields DEF OnToken
  <2> QED
    BY <1>0, <1>6, <2>1 DEF OnToken
<1>7. CASE OnResult(f)
  <2>1. awaiting' \subseteq 1..MaxInvokes /\ running' \in {"none", "callback"}
    BY <1>7 DEF OnResult
  <2> QED
    BY <1>0, <1>7, <2>1 DEF OnResult, provider
<1> QED
  BY <1>1, <1>2, <1>3, <1>4, <1>5, <1>6, <1>7 DEF Deliver

\* The answer a dispatch posts when it returns is the last frame's.
LEMMA ReturnPosts ==
  ASSUME TypeOK, Numbered, CallerScoped, DispatchReturns
  PROVE  /\ Len(delivered) \in Ids /\ Len(delivered) \in 1..Len(delivered)
         /\ \E code \in Codes : Post(Result(Len(delivered), code))
<1>1. [id |-> Len(delivered), caller |-> caller] \in dispatched
  BY DEF DispatchReturns, CallerScoped
<1>2. Len(delivered) \in Ids /\ Len(delivered) \in 1..Len(delivered)
  BY <1>1 DEF TypeOK, Numbered
<1>3. delivered[Len(delivered)].id = Len(delivered)
  BY <1>2 DEF Numbered
<1>4. PICK out \in DOMAIN ReplyCode :
        Post(Result(delivered[Len(delivered)].id, ReplyCode[out]))
  BY DEF DispatchReturns
<1>5. ReplyCode[out] \in Codes
  <2>1. out \in {"null", "malformed", "error", "value"}
    BY DEF ReplyCode
  <2>2. /\ ReplyCode["null"] \in Codes /\ ReplyCode["malformed"] \in Codes
        /\ ReplyCode["error"] \in Codes /\ ReplyCode["value"] \in Codes
    BY DEF ReplyCode, Codes
  <2> QED
    BY <2>1, <2>2
<1> QED
  BY <1>2, <1>3, <1>4, <1>5

\* Every step keeps the types; the call on the stack gives its Result an id,
\* and the open door leaves the count of refused calls at zero.
LEMMA TypeStep ==
  ASSUME TypeOK, Numbered, CallerScoped, Outbound, OutboundCallsReachWire, [Next]_hostVars
  PROVE  TypeOK'
<1> USE DEF TypeOK, wiring
<1>1. CASE Main
  BY <1>1 DEF Main, provider
<1>2. CASE MainServes
  <2>1. posted' \in Seq(PostedFrames)
    BY <1>2, PostType DEF MainServes, PostedFrames
  <2> QED
    BY <1>2, <2>1 DEF MainServes, provider
<1>3. CASE \E f \in Frames : PeerMaySend(f, delivered, posted) /\ Deliver(f)
  BY <1>3, DeliverType
<1>4. CASE TimerFires
  BY <1>4 DEF TimerFires, provider
<1>5. CASE Invoke
  <2>1. invoked + 1 \in 1..MaxInvokes /\ invoked' \in 0..MaxInvokes
    BY <1>5, BoundsAssumption DEF Invoke, BoundsAssumption
  <2>2. CASE door
    <3>1. OutboundCall(invoked + 1) \in PostedFrames
      BY <2>1 DEF OutboundCall, PostedFrames
    <3>2. posted' \in Seq(PostedFrames) /\ awaiting' \subseteq 1..MaxInvokes
      BY <1>5, <2>1, <2>2, <3>1, PostType DEF Invoke
    <3> QED
      BY <1>5, <2>1, <2>2, <3>2 DEF Invoke, provider
  <2>3. CASE ~door
    <3>1. refused = 0 /\ refused' = refused + 1
      BY <1>5, <2>3 DEF Invoke, OutboundCallsReachWire
    <3>2. refused' \in 0..MaxInvokes
      BY <2>1, <3>1, BoundsAssumption DEF BoundsAssumption
    <3> QED
      BY <1>5, <2>1, <2>3, <3>2 DEF Invoke, provider
  <2> QED
    BY <2>2, <2>3
<1>6. CASE \E e \in Events \ {Wildcard} : Emit(e)
  <2> PICK e \in Events : Emit(e)
    BY <1>6
  <2>1. [event |-> e, after |-> Len(delivered)] \in [event : Events, after : 0..MaxFrames]
    BY Bounded
  <2>2. emits' \in Seq([event : Events, after : 0..MaxFrames])
    BY <2>1 DEF Emit
  <2>3. posted' \in Seq(PostedFrames)
    BY PostType DEF Emit, EventFrame, PostedFrames
  <2> QED
    BY <2>2, <2>3 DEF Emit, provider
<1>7. CASE DispatchReturns
  <2>1. posted' \in Seq(PostedFrames)
    BY <1>7, ReturnPosts, PostType, ResultType
  <2> QED
    BY <1>7, <2>1 DEF DispatchReturns, provider
<1>8. CASE CallbackReturns
  BY <1>8 DEF CallbackReturns, provider
<1>9. CASE Trap /\ UNCHANGED posted
  BY <1>9 DEF Trap, provider
<1>10. CASE UNCHANGED hostVars
  BY <1>10 DEF hostVars, provider
<1> QED
  BY <1>1, <1>2, <1>3, <1>4, <1>5, <1>6, <1>7, <1>8, <1>9, <1>10 DEF Next, ModuleCode

-----------------------------------------------------------------------------
(* A step is a delivery or leaves the stream and the provider alone. *)

\* What a delivery does to the stream, and when it can happen.
LEMMA Delivery ==
  ASSUME TypeOK, NEW f \in Frames, PeerMaySend(f, delivered, posted), Deliver(f)
  PROVE  /\ f \in InboundFrames /\ f.id = Len(delivered) + 1 /\ Len(delivered) \in Nat
         /\ delivered' = Append(delivered, f) /\ Len(delivered') = Len(delivered) + 1
         /\ \A i \in 1..Len(delivered) : delivered'[i] = delivered[i]
         /\ delivered'[Len(delivered) + 1] = f
         /\ running = "none" /\ phase = "serving" /\ phase' = phase
         /\ UNCHANGED <<wiring, invoked, refused>>
<1>1. Receive(f) /\ phase' = phase /\ UNCHANGED <<wiring, invoked, refused>>
  BY DEF Deliver, RefuseCall, DispatchCall, OnMethods, OnSubscribe, OnUnsubscribe,
         OnToken, OnResult, wiring
<1> QED
  BY <1>1, FrameFields, AppendFacts DEF TypeOK, Receive, PeerMaySend

Other ==
  \/ Main \/ MainServes \/ TimerFires \/ ModuleCode
  \/ Trap /\ UNCHANGED posted
  \/ UNCHANGED hostVars

\* Frames are delivered between two tasks, while the image serves.
LEMMA Delivers ==
  ASSUME NEW f \in Frames, Deliver(f)
  PROVE  running = "none" /\ phase = "serving" /\ receiver
<1>1. Receive(f)
  BY DEF Deliver, RefuseCall, DispatchCall, OnMethods, OnSubscribe, OnUnsubscribe,
         OnToken, OnResult
<1> QED
  BY <1>1 DEF Receive

\* A step delivers a frame or is one of the others.
LEMMA NextCases ==
  ASSUME [Next]_hostVars
  PROVE  Other \/ \E f \in Frames : PeerMaySend(f, delivered, posted) /\ Deliver(f)
BY DEF Next, Other

\* The other steps leave the stream and the provider alone.
LEMMA OtherLeaves ==
  ASSUME Other PROVE UNCHANGED <<delivered, dispatched, m_tokens, m_tokenOwner, m_sinks>>
BY DEF Other, Main, MainServes, TimerFires, ModuleCode, Invoke, Emit, DispatchReturns,
       CallbackReturns, Trap, hostVars, provider

\* Only a dispatch shows the module a call.
LEMMA Shown ==
  ASSUME NEW f \in Frames, Deliver(f)
  PROVE  \/ UNCHANGED dispatched /\ running' # "call"
         \/ /\ DispatchCall(f) /\ running' = "call" /\ caller' = CallerOf(f)
            /\ dispatched' = dispatched \cup {[id |-> f.id, caller |-> CallerOf(f)]}
<1>1. CASE DispatchCall(f)
  BY <1>1 DEF DispatchCall
<1>2. CASE ~DispatchCall(f)
  <2>1. Receive(f)
    BY DEF Deliver, RefuseCall, DispatchCall, OnMethods, OnSubscribe, OnUnsubscribe,
           OnToken, OnResult
  <2>2. running = "none"
    BY <2>1 DEF Receive
  <2> QED
    BY <1>2, <2>2 DEF Deliver, RefuseCall, OnMethods, OnSubscribe, OnUnsubscribe,
           OnToken, OnResult
<1> QED
  BY <1>1, <1>2

-----------------------------------------------------------------------------
(* Stages and numbers. *)

\* The stages are kept by every step.
LEMMA StagesStep == ASSUME TypeOK, Stages, [Next]_hostVars PROVE Stages'
<1> USE DEF Stages, wiring
<1>1. CASE \E f \in Frames : PeerMaySend(f, delivered, posted) /\ Deliver(f)
  <2> PICK f \in Frames : PeerMaySend(f, delivered, posted) /\ Deliver(f)
    BY <1>1
  <2>1. phase = "serving" /\ phase' = phase /\ UNCHANGED wiring
    BY Delivery
  <2>2. running' \in {"none", "call", "callback"}
    <3>1. running = "none"
      BY Delivery
    <3> QED
      BY <3>1 DEF Deliver, RefuseCall, DispatchCall, OnMethods, OnSubscribe,
                  OnUnsubscribe, OnToken, OnResult
  <2> QED
    BY <2>1, <2>2
<1>2. CASE Other
  <2>1. CASE Main \/ MainServes \/ TimerFires
    BY <2>1 DEF Main, MainServes, TimerFires
  <2>2. CASE ModuleCode
    BY <2>2 DEF ModuleCode, Invoke, Emit, DispatchReturns, CallbackReturns, TypeOK
  <2>3. CASE Trap
    BY <2>3 DEF Trap, TypeOK
  <2>4. CASE UNCHANGED hostVars
    BY <2>4 DEF hostVars
  <2> QED
    BY <1>2, <2>1, <2>2, <2>3, <2>4 DEF Other
<1> QED
  BY <1>1, <1>2, NextCases

\* The numbering of the frames and of the calls shown is kept by every step.
LEMMA NumberedStep == ASSUME TypeOK, Numbered, [Next]_hostVars PROVE Numbered'
<1>1. CASE \E f \in Frames : PeerMaySend(f, delivered, posted) /\ Deliver(f)
  <2> PICK f \in Frames : PeerMaySend(f, delivered, posted) /\ Deliver(f)
    BY <1>1
  <2>1. /\ Len(delivered) \in Nat /\ Len(delivered') = Len(delivered) + 1
        /\ \A i \in 1..Len(delivered) : delivered'[i] = delivered[i]
        /\ delivered'[Len(delivered) + 1] = f /\ f.id = Len(delivered) + 1
    BY Delivery
  <2>2. \A i \in 1..Len(delivered') : delivered'[i].id = i
    BY <2>1 DEF Numbered
  <2>3. \A d \in dispatched' : d.id \in 1..Len(delivered) \/ d.id = f.id
    BY Shown DEF Numbered
  <2> QED
    BY <2>1, <2>2, <2>3 DEF Numbered
<1>2. CASE Other
  BY <1>2, OtherLeaves DEF Numbered
<1> QED
  BY <1>1, <1>2, NextCases

-----------------------------------------------------------------------------
(* The door. *)

\* The provider's token set follows the stream.
LEMMA DoorStep == ASSUME TypeOK, Door, [Next]_hostVars PROVE Door'
<1>1. CASE \E f \in Frames : PeerMaySend(f, delivered, posted) /\ Deliver(f)
  <2> PICK f \in Frames : PeerMaySend(f, delivered, posted) /\ Deliver(f)
    BY <1>1
  <2>1. GrantedBefore(delivered', Len(delivered') + 1) =
          m_tokens \cup {t \in Tokens : f.kind = "Token" /\ f.token = t}
    <3>1. /\ delivered' = Append(delivered, f) /\ f \in InboundFrames
          /\ Len(delivered') + 1 = Len(delivered) + 2
      BY Delivery
    <3>2. delivered \in Seq(InboundFrames)
      BY DEF TypeOK
    <3> QED
      BY <3>1, <3>2, GrantedNext DEF Door
  <2>2. m_tokens' = m_tokens \cup {t \in Tokens : f.kind = "Token" /\ f.token = t}
    <3>1. CASE f.kind = "Token"
      <4>1. OnToken(f)
        BY <3>1 DEF Deliver, RefuseCall, DispatchCall, OnMethods, OnSubscribe,
                    OnUnsubscribe, OnResult
      <4>2. f.token \in Tokens \cup {NoToken} /\ NoToken \notin Tokens
        BY <3>1, FrameFields, NamesAssumption DEF NamesAssumption
      <4> QED
        BY <3>1, <4>1, <4>2 DEF OnToken
    <3>2. CASE f.kind # "Token"
      BY <3>2 DEF Deliver, RefuseCall, DispatchCall, OnMethods, OnSubscribe,
                  OnUnsubscribe, OnToken, OnResult, provider
    <3> QED
      BY <3>1, <3>2
  <2> QED
    BY <2>1, <2>2 DEF Door
<1>2. CASE Other
  BY <1>2, OtherLeaves DEF Door
<1> QED
  BY <1>1, <1>2, NextCases

\* A call that is let through was authorised against exactly the grants before it.
LEMMA DoorHoldsStep ==
  ASSUME TypeOK, Numbered, Door, DoorHolds, [Next]_hostVars PROVE DoorHolds'
<1>1. CASE \E f \in Frames : PeerMaySend(f, delivered, posted) /\ Deliver(f)
  <2> PICK f \in Frames : PeerMaySend(f, delivered, posted) /\ Deliver(f)
    BY <1>1
  <2>1. /\ Len(delivered) \in Nat /\ f.id = Len(delivered) + 1
        /\ \A i \in 1..Len(delivered) : delivered'[i] = delivered[i]
        /\ delivered'[Len(delivered) + 1] = f
        /\ delivered' = Append(delivered, f) /\ f \in InboundFrames
    BY Delivery
  <2>2. \A n \in 1..(Len(delivered) + 1) :
          GrantedBefore(delivered', n) = GrantedBefore(delivered, n)
    BY <2>1, GrantedPrefix DEF TypeOK
  <2> SUFFICES ASSUME NEW d \in dispatched'
               PROVE  \/ GrantedBefore(delivered', d.id) = {}
                      \/ delivered'[d.id].auth \in GrantedBefore(delivered', d.id)
    BY DEF DoorHolds
  <2>3. CASE d \in dispatched
    <3>1. d.id \in 1..Len(delivered) /\ d.id \in 1..(Len(delivered) + 1)
      BY <2>1, <2>3 DEF Numbered
    <3>2. /\ GrantedBefore(delivered', d.id) = GrantedBefore(delivered, d.id)
          /\ delivered'[d.id] = delivered[d.id]
      BY <2>1, <2>2, <3>1
    <3> QED
      BY <2>3, <3>2 DEF DoorHolds
  <2>4. CASE d \notin dispatched
    <3>1. DispatchCall(f) /\ d.id = f.id
      BY <2>4, Shown
    <3>2. m_tokens = {} \/ f.auth \in m_tokens
      BY <3>1 DEF DispatchCall, Authorized
    <3> QED
      BY <2>1, <2>2, <3>1, <3>2 DEF Door
  <2> QED
    BY <2>3, <2>4
<1>2. CASE Other
  BY <1>2, OtherLeaves DEF DoorHolds
<1> QED
  BY <1>1, <1>2, NextCases

-----------------------------------------------------------------------------
(* The caller. *)

\* One more Token frame makes itself the latest grant of its token.
LEMMA OwnersStep == ASSUME TypeOK, Owners, [Next]_hostVars PROVE Owners'
<1>1. CASE \E f \in Frames : PeerMaySend(f, delivered, posted) /\ Deliver(f)
  <2> PICK f \in Frames : PeerMaySend(f, delivered, posted) /\ Deliver(f)
    BY <1>1
  <2>1. /\ Len(delivered) \in Nat /\ f \in InboundFrames
        /\ delivered' = Append(delivered, f) /\ Len(delivered') = Len(delivered) + 1
        /\ \A i \in 1..Len(delivered) : delivered'[i] = delivered[i]
        /\ delivered'[Len(delivered) + 1] = f
    BY Delivery
  <2> SUFFICES ASSUME NEW t \in Tokens
               PROVE  LET grants == Grants(delivered', Len(delivered') + 1, t) IN
                      \/ grants = {} /\ m_tokenOwner'[t] = NoModule
                      \/ \E j \in grants : /\ \A k \in grants : k <= j
                                           /\ m_tokenOwner'[t] = delivered'[j].module
    BY DEF Owners
  <2> DEFINE old == Grants(delivered, Len(delivered) + 1, t)
             new == Grants(delivered', Len(delivered') + 1, t)
  <2>2. old \subseteq 1..Len(delivered)
    BY <2>1 DEF Grants
  <2>3. t # NoToken
    BY NamesAssumption DEF NamesAssumption
  <2>4. new = IF f.kind = "Token" /\ f.token = t /\ t # NoToken
              THEN old \cup {Len(delivered) + 1} ELSE old
    <3>1. Len(delivered') + 1 = Len(delivered) + 2 /\ delivered \in Seq(InboundFrames)
      BY <2>1 DEF TypeOK
    <3>2. new = Grants(Append(delivered, f), Len(delivered) + 2, t)
      BY <2>1, <3>1
    <3> QED
      BY <2>1, <3>1, <3>2, GrantsNext
  <2>5. \/ old = {} /\ m_tokenOwner[t] = NoModule
        \/ \E j \in old : /\ \A k \in old : k <= j
                          /\ m_tokenOwner[t] = delivered[j].module
    BY DEF Owners
  <2>6. CASE f.kind = "Token" /\ f.token = t
    <3>1. new = old \cup {Len(delivered) + 1}
      BY <2>3, <2>6, <2>4
    <3>2. OnToken(f)
      BY <2>6 DEF Deliver, RefuseCall, DispatchCall, OnMethods, OnSubscribe,
                  OnUnsubscribe, OnResult
    <3>3. m_tokenOwner'[t] = f.module
      BY <2>3, <2>6, <3>2 DEF OnToken, TypeOK
    <3>4. \A k \in new : k <= Len(delivered) + 1
      BY <2>1, <2>2, <3>1
    <3> HIDE DEF old, new
    <3>5. \E j \in new : (\A k \in new : k <= j) /\ m_tokenOwner'[t] = delivered'[j].module
      BY <2>1, <3>1, <3>3, <3>4
    <3> QED
      BY <3>5 DEF new
  <2>7. CASE ~(f.kind = "Token" /\ f.token = t)
    <3>1. new = old
      BY <2>7, <2>4
    <3>2. m_tokenOwner'[t] = m_tokenOwner[t]
      BY <2>7 DEF Deliver, RefuseCall, DispatchCall, OnMethods, OnSubscribe,
                  OnUnsubscribe, OnToken, OnResult, provider, TypeOK
    <3>3. \A j \in old : delivered'[j] = delivered[j]
      BY <2>1, <2>2
    <3> HIDE DEF old, new
    <3>4. \/ new = {} /\ m_tokenOwner'[t] = NoModule
          \/ \E j \in new : /\ \A k \in new : k <= j
                            /\ m_tokenOwner'[t] = delivered'[j].module
      BY <2>5, <3>1, <3>2, <3>3
    <3> QED
      BY <3>4 DEF new
  <2> QED
    BY <2>6, <2>7
<1>2. CASE Other
  BY <1>2, OtherLeaves DEF Owners
<1> QED
  BY <1>1, <1>2, NextCases

\* The caller a call should be shown with, given the stream before it.
Attested(stream, f, c) ==
  LET grants == Grants(stream, f.id, f.auth)
      latest == {j \in grants : \A k \in grants : k <= j}
  IN \/ f.caller # NoCaller /\ c = f.caller
     \/ /\ f.caller = NoCaller
        /\ \E j \in latest : /\ stream[j].module # NoModule
                             /\ c = ModuleCaller(stream[j].module)
     \/ /\ f.caller = NoCaller
        /\ \A j \in latest : stream[j].module = NoModule
        /\ c = UnknownCaller

\* What callerJson computes from the owners is what the stream attests.
LEMMA CallerOfAttested ==
  ASSUME TypeOK, Owners, NEW f \in Frames, f.kind = "Call", f.id = Len(delivered) + 1
  PROVE  Attested(delivered, f, CallerOf(f))
<1> DEFINE grants == Grants(delivered, f.id, f.auth)
           latest == {j \in grants : \A k \in grants : k <= j}
<1>1. CASE f.caller # NoCaller
  BY <1>1 DEF Attested, CallerOf
<1>2. CASE f.caller = NoCaller /\ f.auth \notin Tokens
  <2>1. f.auth = NoToken
    BY <1>2, FrameFields
  <2>2. grants = {}
    BY <2>1 DEF Grants
  <2>3. CallerOf(f) = UnknownCaller
    BY <1>2 DEF CallerOf
  <2> QED
    BY <1>2, <2>2, <2>3 DEF Attested
<1>3. CASE f.caller = NoCaller /\ f.auth \in Tokens
  <2>1. \/ grants = {} /\ m_tokenOwner[f.auth] = NoModule
        \/ \E j \in grants : /\ \A k \in grants : k <= j
                             /\ m_tokenOwner[f.auth] = delivered[j].module
    BY <1>3 DEF Owners
  <2>2. grants \subseteq Nat
    BY DEF Grants, TypeOK
  <2> HIDE DEF grants
  <2>3. CASE m_tokenOwner[f.auth] = NoModule
    <3>1. CallerOf(f) = UnknownCaller
      BY <1>3, <2>3 DEF CallerOf
    <3>2. \A i, j \in latest : i = j
      BY <2>2
    <3>3. \A j \in latest : delivered[j].module = NoModule
      BY <2>1, <2>3, <3>2
    <3> QED
      BY <1>3, <3>1, <3>3 DEF Attested, grants
  <2>4. CASE m_tokenOwner[f.auth] # NoModule
    <3>1. CallerOf(f) = ModuleCaller(m_tokenOwner[f.auth])
      BY <1>3, <2>4 DEF CallerOf
    <3>2. \E j \in latest : m_tokenOwner[f.auth] = delivered[j].module
      BY <2>1, <2>4
    <3> QED
      BY <1>3, <2>4, <3>1, <3>2 DEF Attested, grants
  <2> QED
    BY <2>3, <2>4
<1> QED
  BY <1>1, <1>2, <1>3

\* What a stream attests of a call does not depend on later frames.
LEMMA AttestedPrefix ==
  ASSUME NEW s \in Seq(InboundFrames), NEW g \in InboundFrames, NEW f, NEW c,
         f.id \in 1..(Len(s) + 1)
  PROVE  Attested(Append(s, g), f, c) <=> Attested(s, f, c)
<1>1. Grants(Append(s, g), f.id, f.auth) = Grants(s, f.id, f.auth)
  BY GrantsPrefix
<1>2. \A j \in Grants(s, f.id, f.auth) : Append(s, g)[j] = s[j]
  <2>1. Len(s) \in Nat /\ \A i \in 1..Len(s) : Append(s, g)[i] = s[i]
    BY AppendFacts
  <2>2. \A j \in Grants(s, f.id, f.auth) : j \in 1..Len(s)
    BY <2>1 DEF Grants
  <2> QED
    BY <2>1, <2>2
<1> QED
  BY <1>1, <1>2 DEF Attested

\* Calls shown earlier stay attested, and a new one is when it is shown.
LEMMA CallerAttestedStep ==
  ASSUME TypeOK, Numbered, Owners, CallerAttested, [Next]_hostVars PROVE CallerAttested'
<1>1. CASE \E f \in Frames : PeerMaySend(f, delivered, posted) /\ Deliver(f)
  <2> PICK f \in Frames : PeerMaySend(f, delivered, posted) /\ Deliver(f)
    BY <1>1
  <2>1. /\ Len(delivered) \in Nat /\ f.id = Len(delivered) + 1
        /\ delivered' = Append(delivered, f) /\ f \in InboundFrames
        /\ \A i \in 1..Len(delivered) : delivered'[i] = delivered[i]
        /\ delivered'[Len(delivered) + 1] = f
    BY Delivery
  <2>2. \A d \in dispatched' : delivered'[d.id].id = d.id
    <3>1. \A i \in 1..(Len(delivered) + 1) : delivered'[i].id = i
      BY <2>1 DEF Numbered
    <3>2. \A d \in dispatched' : d.id \in 1..(Len(delivered) + 1)
      BY <2>1, Shown DEF Numbered
    <3> QED
      BY <3>1, <3>2
  <2>3. \A d \in dispatched' : Attested(delivered', delivered'[d.id], d.caller)
    <3> TAKE d \in dispatched'
    <3>1. CASE d \in dispatched
      <4>1. d.id \in 1..Len(delivered)
        BY <3>1 DEF Numbered
      <4>2. delivered[d.id].id = d.id /\ delivered'[d.id] = delivered[d.id]
        BY <2>1, <4>1 DEF Numbered
      <4>3. Attested(delivered, delivered[d.id], d.caller)
        BY <3>1, <4>2 DEF CallerAttested, Attested
      <4>4. delivered[d.id].id \in 1..(Len(delivered) + 1)
        BY <2>1, <4>1, <4>2
      <4> QED
        BY <2>1, <4>2, <4>3, <4>4, AttestedPrefix DEF TypeOK
    <3>2. CASE d \notin dispatched
      <4>1. DispatchCall(f) /\ d.id = f.id /\ d.caller = CallerOf(f)
        BY <3>2, Shown
      <4>2. Attested(delivered, f, d.caller)
        BY <2>1, <4>1, CallerOfAttested DEF DispatchCall
      <4>3. f.id \in 1..(Len(delivered) + 1) /\ delivered'[d.id] = f
        BY <2>1, <4>1
      <4>4. Attested(delivered', f, d.caller)
        BY <2>1, <4>2, <4>3, AttestedPrefix DEF TypeOK
      <4> QED
        BY <4>3, <4>4
    <3> QED
      BY <3>1, <3>2
  <2> QED
    BY <2>2, <2>3 DEF CallerAttested, Attested
<1>2. CASE Other
  BY <1>2, OtherLeaves DEF CallerAttested
<1> QED
  BY <1>1, <1>2, NextCases

\* The caller is set by the dispatch that puts a call on the stack, and every
\* way off the stack clears it, a trap excepted.
LEMMA CallerScopedStep ==
  ASSUME TypeOK, Stages, CallerScoped, [Next]_hostVars PROVE CallerScoped'
<1>1. CASE \E f \in Frames : PeerMaySend(f, delivered, posted) /\ Deliver(f)
  <2> PICK f \in Frames : PeerMaySend(f, delivered, posted) /\ Deliver(f)
    BY <1>1
  <2>1. /\ running = "none" /\ phase = "serving" /\ f.id = Len(delivered')
    BY Delivery
  <2>2. caller = NoCaller
    BY <2>1 DEF CallerScoped
  <2>3. CASE UNCHANGED dispatched /\ running' # "call"
    <3>1. ~DispatchCall(f)
      BY <2>3 DEF DispatchCall
    <3>2. caller' = caller
      BY <3>1 DEF Deliver, RefuseCall, OnMethods, OnSubscribe, OnUnsubscribe, OnToken, OnResult
    <3> QED
      BY <2>2, <2>3, <3>2 DEF CallerScoped
  <2>4. CASE running' = "call" /\ caller' = CallerOf(f)
             /\ dispatched' = dispatched \cup {[id |-> f.id, caller |-> CallerOf(f)]}
    <3>1. [id |-> Len(delivered'), caller |-> caller'] \in dispatched'
      BY <2>1, <2>4
    <3> QED
      BY <2>4, <3>1 DEF CallerScoped
  <2> QED
    BY <2>3, <2>4, Shown
<1>2. CASE Other
  <2>1. CASE Main \/ MainServes \/ TimerFires
    BY <2>1 DEF Main, MainServes, TimerFires, CallerScoped, Stages
  <2>2. CASE ModuleCode
    BY <2>2 DEF ModuleCode, Invoke, Emit, DispatchReturns, CallbackReturns, CallerScoped
  <2>3. CASE Trap
    BY <2>3 DEF Trap, CallerScoped
  <2>4. CASE UNCHANGED hostVars
    BY <2>4 DEF hostVars, CallerScoped
  <2> QED
    BY <1>2, <2>1, <2>2, <2>3, <2>4 DEF Other
<1> QED
  BY <1>1, <1>2, NextCases

-----------------------------------------------------------------------------
(* What the image posts. *)

\* A delivery posts at most one frame, a Result for the frame delivered; only a
\* refused call and a Methods request are answered by the delivery itself.
Answers(f) == \E code \in Codes : Post(Result(f.id, code))

\* One of three: not a request, a dispatch, or an answer at once.
LEMMA DeliveryPosts ==
  ASSUME NEW f \in Frames, Deliver(f)
  PROVE  \/ UNCHANGED posted /\ f.kind \notin Requests /\ running' # "call"
         \/ UNCHANGED posted /\ f.kind = "Call" /\ running' = "call"
         \/ Answers(f) /\ f.kind \in Requests /\ running' # "call"
<1>0. running = "none"
  BY Delivers
<1>1. CASE RefuseCall(f)
  <2>1. "MODULE_NOT_LOADED" \in Codes /\ "UNAUTHORIZED" \in Codes
    BY DEF Codes
  <2>2. Answers(f)
    BY <1>1, <2>1, Zenon DEF RefuseCall, Answers
  <2> QED
    BY <1>0, <1>1, <2>2 DEF RefuseCall, Requests
<1>2. CASE DispatchCall(f)
  BY <1>2 DEF DispatchCall
<1>3. CASE OnMethods(f)
  <2>1. "MODULE_NOT_LOADED" \in Codes /\ {"ok", "METHOD_FAILED"} \subseteq Codes
    BY DEF Codes
  <2>2. Answers(f)
    BY <1>3, <2>1, Zenon DEF OnMethods, Answers
  <2> QED
    BY <1>0, <1>3, <2>2 DEF OnMethods, Requests
<1>4. CASE OnSubscribe(f)
  BY <1>0, <1>4 DEF OnSubscribe, Requests
<1>5. CASE OnUnsubscribe(f)
  BY <1>0, <1>5 DEF OnUnsubscribe, Requests
<1>6. CASE OnToken(f)
  BY <1>0, <1>6 DEF OnToken, Requests
<1>7. CASE OnResult(f)
  BY <1>0, <1>7 DEF OnResult, Requests
<1> QED
  BY <1>1, <1>2, <1>3, <1>4, <1>5, <1>6, <1>7, Zenon DEF Deliver

\* Any other step posts at most one frame; it is a Result only when the call on
\* the stack returns, and then it is that call's.
Unanswering ==
  /\ \/ UNCHANGED posted
     \/ Post(Hello) \/ \E e \in Events : Post(EventFrame(e))
     \/ \E n \in 1..MaxInvokes : Post(OutboundCall(n))
  /\ running = "call" => running' = "call" \/ phase' = "dead"
  /\ phase = "dead" => phase' = "dead"
  /\ running # "call" => running' # "call"

\* Only the return of the call on the stack posts a Result.
LEMMA OtherPosts ==
  ASSUME TypeOK, Stages, Other
  PROVE  Unanswering \/ DispatchReturns
<1>1. CASE Main
  BY <1>1, Zenon DEF Main, Unanswering, Stages
<1>2. CASE MainServes
  BY <1>2, Zenon DEF MainServes, Unanswering, Stages
<1>3. CASE TimerFires
  BY <1>3, Zenon DEF TimerFires, Unanswering, Stages
<1>4. CASE Invoke
  <2>1. invoked + 1 \in 1..MaxInvokes
    BY <1>4, BoundsAssumption DEF Invoke, TypeOK, BoundsAssumption
  <2> QED
    BY <1>4, <2>1, Zenon DEF Invoke, Unanswering
<1>5. CASE \E e \in Events \ {Wildcard} : Emit(e)
  BY <1>5, Zenon DEF Emit, Unanswering
<1>6. CASE CallbackReturns
  BY <1>6 DEF CallbackReturns, Unanswering
<1>7. CASE Trap /\ UNCHANGED posted
  BY <1>7, Zenon DEF Trap, Unanswering
<1>8. CASE UNCHANGED hostVars
  BY <1>8, Zenon DEF hostVars, Unanswering
<1> QED
  BY <1>1, <1>2, <1>3, <1>4, <1>5, <1>6, <1>7, <1>8 DEF Other, ModuleCode

\* What a post does to the port.
LEMMA PostNext ==
  ASSUME TypeOK, NEW m \in PostedFrames, Post(m)
  PROVE  /\ Len(posted) \in Nat /\ Len(posted') = Len(posted) + 1
         /\ DOMAIN posted = 1..Len(posted) /\ DOMAIN posted' = 1..Len(posted')
         /\ \A i \in 1..Len(posted) : posted'[i] = posted[i]
         /\ posted'[Len(posted) + 1] = m
<1>1. posted \in Seq(PostedFrames) /\ posted' = Append(posted, m)
  BY DEF TypeOK, Post
<1> QED
  BY <1>1, AppendFacts

\* The frames the image itself posts, by kind.
LEMMA PostedKinds ==
  /\ \A id \in Ids, code \in Codes :
       Result(id, code) \in PostedFrames /\ Result(id, code).kind = "Result"
       /\ Result(id, code).id = id
  /\ Hello \in PostedFrames /\ Hello.kind = "Hello"
  /\ \A e \in Events : EventFrame(e) \in PostedFrames /\ EventFrame(e).kind = "Event"
  /\ \A n \in 1..MaxInvokes : OutboundCall(n) \in PostedFrames
                              /\ OutboundCall(n).kind = "Call" /\ OutboundCall(n).out = n
<1>1. \A id \in Ids, code \in Codes :
        Result(id, code) \in PostedFrames /\ Result(id, code).kind = "Result"
        /\ Result(id, code).id = id
  BY ResultType DEF Result
<1>2. Hello \in PostedFrames /\ Hello.kind = "Hello"
  BY DEF Hello, PostedFrames
<1>3. \A e \in Events : EventFrame(e) \in PostedFrames /\ EventFrame(e).kind = "Event"
  BY DEF EventFrame, PostedFrames
<1>4. \A n \in 1..MaxInvokes : OutboundCall(n) \in PostedFrames
        /\ OutboundCall(n).kind = "Call" /\ OutboundCall(n).out = n
  BY DEF OutboundCall, PostedFrames
<1> QED
  BY <1>1, <1>2, <1>3, <1>4

\* Every Result on the port answers a frame that was delivered.
ResultsBelow(n) ==
  \A i \in DOMAIN posted : posted[i].kind = "Result" => posted[i].id < n

\* A Result for a later request than any answered so far keeps the order.
LEMMA ResultKeepsOrder ==
  ASSUME TypeOK, NEW n \in Ids, ResultsBelow(n),
         NEW code \in Codes, Post(Result(n, code)),
         \A i, j \in DOMAIN posted :
           i < j /\ posted[i].kind = "Result" /\ posted[j].kind = "Result"
             => posted[i].id < posted[j].id
  PROVE  \A i, j \in DOMAIN posted' :
           i < j /\ posted'[i].kind = "Result" /\ posted'[j].kind = "Result"
             => posted'[i].id < posted'[j].id
<1> DEFINE r == Result(n, code)
<1>1. r \in PostedFrames /\ r.kind = "Result" /\ r.id = n
  BY PostedKinds
<1>2. /\ Len(posted) \in Nat /\ Len(posted') = Len(posted) + 1
      /\ DOMAIN posted = 1..Len(posted) /\ DOMAIN posted' = 1..Len(posted')
      /\ \A i \in 1..Len(posted) : posted'[i] = posted[i]
      /\ posted'[Len(posted) + 1] = r
  BY <1>1, PostNext
<1> HIDE DEF r
<1> SUFFICES ASSUME NEW i \in DOMAIN posted', NEW j \in DOMAIN posted', i < j,
                    posted'[i].kind = "Result", posted'[j].kind = "Result"
             PROVE  posted'[i].id < posted'[j].id
  OBVIOUS
<1>3. i \in 1..Len(posted)
  BY <1>2
<1>4. CASE j \in 1..Len(posted)
  BY <1>2, <1>3, <1>4
<1>5. CASE j = Len(posted) + 1
  <2>1. posted[i].id < n
    BY <1>2, <1>3 DEF ResultsBelow
  <2> QED
    BY <1>1, <1>2, <1>3, <1>5, <2>1
<1> QED
  BY <1>2, <1>4, <1>5

-----------------------------------------------------------------------------
(* The module's own calls. *)

CallsNumbered == \A i \in DOMAIN posted : posted[i].kind = "Call" => posted[i].out \in 1..invoked
RepliesNumbered ==
  \A i \in DOMAIN delivered : delivered[i].kind = "Result" => delivered[i].re \in 1..invoked

\* The two halves of Outbound.
LEMMA OutboundParts == ASSUME TypeOK PROVE Outbound <=> CallsNumbered /\ RepliesNumbered
<1>1. DOMAIN posted = 1..Len(posted) /\ DOMAIN delivered = 1..Len(delivered)
  BY DEF TypeOK
<1> QED
  BY <1>1 DEF Outbound, CallsNumbered, RepliesNumbered

\* Whatever is posted that is not a Call leaves the calls' numbers alone.
LEMMA CallsStay ==
  ASSUME TypeOK, CallsNumbered, invoked' = invoked,
         UNCHANGED posted \/ \E m \in PostedFrames : m.kind # "Call" /\ Post(m)
  PROVE  CallsNumbered'
<1>1. CASE UNCHANGED posted
  BY <1>1 DEF CallsNumbered
<1>2. CASE \E m \in PostedFrames : m.kind # "Call" /\ Post(m)
  <2> PICK m \in PostedFrames : m.kind # "Call" /\ Post(m)
    BY <1>2
  <2>1. /\ Len(posted) \in Nat /\ Len(posted') = Len(posted) + 1
        /\ DOMAIN posted = 1..Len(posted) /\ DOMAIN posted' = 1..Len(posted')
        /\ \A i \in 1..Len(posted) : posted'[i] = posted[i]
        /\ posted'[Len(posted) + 1] = m
    BY PostNext
  <2> QED
    BY <2>1 DEF CallsNumbered
<1> QED
  BY <1>1, <1>2

\* A frame from the peer answers at most one call still awaited, and only one
\* the module made.
LEMMA OutboundDelivery ==
  ASSUME TypeOK, Outbound, OutboundCallsReachWire,
         NEW f \in Frames, PeerMaySend(f, delivered, posted), Deliver(f)
  PROVE  CallsNumbered' /\ RepliesNumbered' /\ OutboundCallsReachWire'
<1>1. /\ Len(delivered) \in Nat /\ Len(delivered') = Len(delivered) + 1
      /\ \A i \in 1..Len(delivered) : delivered'[i] = delivered[i]
      /\ delivered'[Len(delivered) + 1] = f /\ UNCHANGED <<invoked, refused>>
      /\ f \in InboundFrames /\ delivered' = Append(delivered, f)
  BY Delivery
<1>2. DOMAIN delivered = 1..Len(delivered) /\ DOMAIN delivered' = 1..(Len(delivered) + 1)
  BY <1>1 DEF TypeOK
<1>3. CallsNumbered /\ RepliesNumbered
  BY OutboundParts
<1>4. f.kind = "Result" => f.re \in 1..invoked
  <2> SUFFICES ASSUME f.kind = "Result" PROVE f.re \in 1..invoked
    OBVIOUS
  <2>1. PICK i \in DOMAIN posted : posted[i] = OutboundCall(f.re)
    BY DEF PeerMaySend
  <2>2. posted[i].kind = "Call" /\ posted[i].out = f.re
    BY <2>1 DEF OutboundCall
  <2> QED
    BY <1>3, <2>2 DEF CallsNumbered
<1>5. CallsNumbered'
  <2>1. f.id \in Ids /\ \A code \in Codes :
          Result(f.id, code) \in PostedFrames /\ Result(f.id, code).kind = "Result"
    BY FrameFields, PostedKinds
  <2>2. CASE Answers(f)
    BY <1>1, <1>3, <2>1, <2>2, CallsStay DEF Answers
  <2>3. CASE UNCHANGED posted
    BY <1>1, <1>3, <2>3, CallsStay
  <2> QED
    BY <2>2, <2>3, DeliveryPosts
<1>6. RepliesNumbered'
  BY <1>1, <1>2, <1>3, <1>4 DEF RepliesNumbered
<1>7. awaiting' = awaiting \ {n \in 1..invoked : f.kind = "Result" /\ f.re = n}
  <2>1. CASE f.kind = "Result"
    <3>1. OnResult(f)
      BY <2>1 DEF Deliver, RefuseCall, DispatchCall, OnMethods, OnSubscribe, OnUnsubscribe,
                  OnToken
    <3> QED
      BY <1>4, <2>1, <3>1 DEF OnResult
  <2>2. CASE f.kind # "Result"
    BY <2>2 DEF Deliver, RefuseCall, DispatchCall, OnMethods, OnSubscribe, OnUnsubscribe,
                OnToken, OnResult
  <2> QED
    BY <2>1, <2>2
<1>8. awaiting' = {n \in 1..invoked' :
         \A i \in DOMAIN delivered' : delivered'[i].kind = "Result" => delivered'[i].re # n}
  <2>1. ASSUME NEW n \in 1..invoked
        PROVE  (\A i \in DOMAIN delivered' : delivered'[i].kind = "Result" => delivered'[i].re # n)
               <=> /\ \A i \in DOMAIN delivered :
                         delivered[i].kind = "Result" => delivered[i].re # n
                   /\ ~(f.kind = "Result" /\ f.re = n)
    BY <1>1, <1>2
  <2> QED
    BY <1>1, <1>7, <2>1 DEF OutboundCallsReachWire
<1> QED
  BY <1>1, <1>5, <1>6, <1>8 DEF OutboundCallsReachWire

\* A call the module makes goes out through the door, which is open whenever
\* its code is on the stack.
LEMMA OutboundInvoke ==
  ASSUME TypeOK, Stages, Outbound, OutboundCallsReachWire, Invoke
  PROVE  CallsNumbered' /\ RepliesNumbered' /\ OutboundCallsReachWire'
<1>1. CallsNumbered /\ RepliesNumbered
  BY OutboundParts
<1>2. door
  BY DEF Invoke, Stages, TypeOK
<1>3. /\ Post(OutboundCall(invoked + 1)) /\ awaiting' = awaiting \cup {invoked + 1}
      /\ invoked' = invoked + 1 /\ UNCHANGED <<refused, delivered>>
      /\ invoked \in Nat /\ invoked + 1 \in 1..MaxInvokes
  BY <1>2, BoundsAssumption DEF Invoke, TypeOK, BoundsAssumption
<1>4. OutboundCall(invoked + 1) \in PostedFrames /\ OutboundCall(invoked + 1).out = invoked + 1
  BY <1>3, PostedKinds
<1>5. CallsNumbered'
  <2>1. /\ Len(posted) \in Nat /\ Len(posted') = Len(posted) + 1
        /\ DOMAIN posted = 1..Len(posted) /\ DOMAIN posted' = 1..Len(posted')
        /\ \A i \in 1..Len(posted) : posted'[i] = posted[i]
        /\ posted'[Len(posted) + 1] = OutboundCall(invoked + 1)
    BY <1>3, <1>4, PostNext
  <2> QED
    BY <1>1, <1>3, <1>4, <2>1 DEF CallsNumbered
<1>6. RepliesNumbered'
  BY <1>1, <1>3 DEF RepliesNumbered
<1>7. awaiting' = {n \in 1..invoked' :
         \A i \in DOMAIN delivered : delivered[i].kind = "Result" => delivered[i].re # n}
  <2>1. \A i \in DOMAIN delivered : delivered[i].kind = "Result" => delivered[i].re # invoked + 1
    BY <1>1, <1>3 DEF RepliesNumbered
  <2>2. 1..invoked' = 1..invoked \cup {invoked + 1}
    BY <1>3
  <2> QED
    BY <1>3, <2>1, <2>2 DEF OutboundCallsReachWire
<1> QED
  BY <1>3, <1>5, <1>6, <1>7 DEF OutboundCallsReachWire

\* The module's calls stay numbered, on the wire and awaited.
LEMMA OutboundStep ==
  ASSUME TypeOK, Stages, Numbered, CallerScoped, Outbound, OutboundCallsReachWire,
         [Next]_hostVars, TypeOK'
  PROVE  Outbound' /\ OutboundCallsReachWire'
<1>1. CallsNumbered' /\ RepliesNumbered' /\ OutboundCallsReachWire'
  <2>1. CASE \E f \in Frames : PeerMaySend(f, delivered, posted) /\ Deliver(f)
    BY <2>1, OutboundDelivery
  <2>2. CASE Invoke
    BY <2>2, OutboundInvoke
  <2>3. CASE Other /\ ~Invoke
    <3>1. UNCHANGED <<awaiting, delivered, invoked, refused>>
      BY <2>3 DEF Other, Main, MainServes, TimerFires, ModuleCode, Emit, DispatchReturns,
                  CallbackReturns, Trap, hostVars
    <3>2. UNCHANGED posted \/ \E m \in PostedFrames : m.kind # "Call" /\ Post(m)
      <4>1. CASE DispatchReturns
        BY <4>1, ReturnPosts, PostedKinds
      <4>2. CASE \E e \in Events \ {Wildcard} : Emit(e)
        BY <4>2, PostedKinds DEF Emit
      <4>3. CASE MainServes
        BY <4>3, PostedKinds DEF MainServes
      <4>4. CASE Main \/ TimerFires \/ CallbackReturns \/ (Trap /\ UNCHANGED posted)
                 \/ UNCHANGED hostVars
        BY <4>4 DEF Main, TimerFires, CallbackReturns, hostVars
      <4> QED
        BY <2>3, <4>1, <4>2, <4>3, <4>4 DEF Other, ModuleCode
    <3>3. CallsNumbered'
      BY <3>1, <3>2, OutboundParts, CallsStay
    <3> QED
      BY <3>1, <3>3, OutboundParts DEF RepliesNumbered, OutboundCallsReachWire
  <2> QED
    BY <2>1, <2>2, <2>3, NextCases
<1>2. DOMAIN posted' = 1..Len(posted') /\ DOMAIN delivered' = 1..Len(delivered')
  BY DEF TypeOK
<1> QED
  BY <1>1, <1>2 DEF Outbound, CallsNumbered, RepliesNumbered

-----------------------------------------------------------------------------
(* Answers. *)

\* A step that posts no Result keeps every answer where it was.
LEMMA AnswersStay ==
  ASSUME TypeOK,
         UNCHANGED posted \/ \E m \in PostedFrames : m.kind # "Result" /\ Post(m)
  PROVE  /\ \A i \in DOMAIN posted : i \in DOMAIN posted' /\ posted'[i] = posted[i]
         /\ \A i \in DOMAIN posted' : posted'[i].kind = "Result" =>
              i \in DOMAIN posted /\ posted'[i] = posted[i]
<1>1. CASE UNCHANGED posted
  BY <1>1
<1>2. CASE \E m \in PostedFrames : m.kind # "Result" /\ Post(m)
  <2> PICK m \in PostedFrames : m.kind # "Result" /\ Post(m)
    BY <1>2
  <2>1. /\ Len(posted) \in Nat /\ Len(posted') = Len(posted) + 1
        /\ DOMAIN posted = 1..Len(posted) /\ DOMAIN posted' = 1..Len(posted')
        /\ \A i \in 1..Len(posted) : posted'[i] = posted[i]
        /\ posted'[Len(posted) + 1] = m
    BY PostNext
  <2> QED
    BY <2>1
<1> QED
  BY <1>1, <1>2

\* A Result for request n, later than all before, keeps the other answers and
\* their order.
LEMMA AnswerAdded ==
  ASSUME TypeOK, AnsweredInOrder, NEW n \in Ids, ResultsBelow(n),
         \E code \in Codes : Post(Result(n, code))
  PROVE  /\ \A i, j \in DOMAIN posted' :
              i < j /\ posted'[i].kind = "Result" /\ posted'[j].kind = "Result"
                => posted'[i].id < posted'[j].id
         /\ \A i \in DOMAIN posted : i \in DOMAIN posted' /\ posted'[i] = posted[i]
         /\ \E i \in DOMAIN posted' : posted'[i].kind = "Result" /\ posted'[i].id = n
         /\ \A i \in DOMAIN posted' : posted'[i].kind = "Result" =>
              \/ i \in DOMAIN posted /\ posted'[i] = posted[i]
              \/ posted'[i].id = n
<1> PICK code \in Codes : Post(Result(n, code))
  OBVIOUS
<1>1. Result(n, code) \in PostedFrames /\ Result(n, code).kind = "Result"
      /\ Result(n, code).id = n
  BY PostedKinds
<1>2. /\ Len(posted) \in Nat /\ Len(posted') = Len(posted) + 1
      /\ DOMAIN posted = 1..Len(posted) /\ DOMAIN posted' = 1..Len(posted')
      /\ \A i \in 1..Len(posted) : posted'[i] = posted[i]
      /\ posted'[Len(posted) + 1] = Result(n, code)
  BY <1>1, PostNext
<1>3. \A i, j \in DOMAIN posted' :
        i < j /\ posted'[i].kind = "Result" /\ posted'[j].kind = "Result"
          => posted'[i].id < posted'[j].id
  BY ResultKeepsOrder DEF AnsweredInOrder
<1> QED
  BY <1>1, <1>2, <1>3

\* A delivered request is answered at once, or its call is now on the stack.
LEMMA AnsweredDelivery ==
  ASSUME TypeOK, AnsweredInOrder,
         NEW f \in Frames, PeerMaySend(f, delivered, posted), Deliver(f)
  PROVE  AnsweredInOrder' /\ Unanswered'
<1>1. /\ Len(delivered) \in Nat /\ Len(delivered') = Len(delivered) + 1
      /\ \A i \in 1..Len(delivered) : delivered'[i] = delivered[i]
      /\ delivered'[Len(delivered) + 1] = f /\ f.id = Len(delivered) + 1
      /\ running = "none" /\ phase = "serving" /\ phase' = phase
      /\ f \in InboundFrames /\ delivered' = Append(delivered, f)
  BY Delivery
<1>2. DOMAIN delivered = 1..Len(delivered) /\ DOMAIN delivered' = 1..(Len(delivered) + 1)
  BY <1>1 DEF TypeOK
<1>3. /\ \A i \in DOMAIN posted : posted[i].kind = "Result" =>
           posted[i].id \in 1..Len(delivered) /\ delivered[posted[i].id].kind \in Requests
      /\ \A n \in 1..Len(delivered) : delivered[n].kind \in Requests =>
           \E i \in DOMAIN posted : posted[i].kind = "Result" /\ posted[i].id = n
  BY <1>1, <1>2 DEF AnsweredInOrder
<1>4. CASE UNCHANGED posted /\ \/ f.kind \notin Requests /\ running' # "call"
                               \/ f.kind = "Call" /\ running' = "call"
  <2>2. AnsweredInOrder'
    BY <1>1, <1>2, <1>3, <1>4 DEF AnsweredInOrder
  <2>3. Unanswered'
    <3>1. DOMAIN posted = 1..Len(posted)
      BY DEF TypeOK
    <3> QED
      BY <1>1, <1>3, <1>4, <3>1 DEF Unanswered
  <2> QED
    BY <2>2, <2>3
<1>5. CASE Answers(f) /\ f.kind \in Requests /\ running' # "call"
  <2>1. f.id \in Ids /\ ResultsBelow(f.id) /\ \E code \in Codes : Post(Result(f.id, code))
    BY <1>1, <1>3, <1>5, FrameFields DEF ResultsBelow, Answers
  <2>2. AnsweredInOrder'
    BY <1>1, <1>2, <1>3, <1>5, <2>1, AnswerAdded DEF AnsweredInOrder
  <2> QED
    BY <1>5, <2>2 DEF Unanswered
<1> QED
  BY <1>4, <1>5, DeliveryPosts

\* Every other step answers nothing, except the return of the call on the
\* stack, whose request is the latest and the only one unanswered.
LEMMA AnsweredOther ==
  ASSUME TypeOK, Stages, Numbered, CallerScoped, AnsweredInOrder, Unanswered, Other
  PROVE  AnsweredInOrder' /\ Unanswered'
<1>0. UNCHANGED delivered
  BY OtherLeaves
<1>1. DOMAIN posted = 1..Len(posted) /\ DOMAIN delivered = 1..Len(delivered)
  BY DEF TypeOK
<1>2. CASE DispatchReturns
  <2>1. /\ Len(delivered) \in Ids /\ Len(delivered) \in 1..Len(delivered)
        /\ \E code \in Codes : Post(Result(Len(delivered), code))
    BY <1>2, ReturnPosts
  <2>2. running = "call" /\ running' = "none" /\ delivered[Len(delivered)].kind = "Call"
    BY <1>2 DEF DispatchReturns, Unanswered
  <2>3. ResultsBelow(Len(delivered))
    BY <1>1, <2>2 DEF Unanswered, ResultsBelow
  <2>4. AnsweredInOrder'
    BY <1>0, <1>1, <2>1, <2>2, <2>3, AnswerAdded DEF AnsweredInOrder, Requests
  <2> QED
    BY <2>2, <2>4 DEF Unanswered
<1>3. CASE Unanswering
  <2>1. UNCHANGED posted \/ \E m \in PostedFrames : m.kind # "Result" /\ Post(m)
    BY <1>3, PostedKinds DEF Unanswering
  <2>2. AnsweredInOrder'
    BY <1>0, <1>3, <2>1, AnswersStay DEF AnsweredInOrder, Unanswering
  <2>3. Unanswered'
    BY <1>0, <1>1, <1>3, <2>1, AnswersStay DEF Unanswered, Unanswering
  <2> QED
    BY <2>2, <2>3
<1> QED
  BY <1>2, <1>3, OtherPosts

-----------------------------------------------------------------------------
(* The invariant, and what follows from it. *)

\* The invariant holds initially.
LEMMA InitIInv == Init => IInv
<1> SUFFICES ASSUME Init PROVE IInv
  OBVIOUS
<1> USE DEF Init
<1>1. TypeOK
  <2>1. m_tokenOwner \in [Tokens -> Modules \cup {NoModule}]
    OBVIOUS
  <2>2. posted \in Seq(PostedFrames) /\ delivered \in Seq(InboundFrames)
        /\ emits \in Seq([event : Events, after : 0..MaxFrames])
    OBVIOUS
  <2>3. invoked \in 0..MaxInvokes /\ refused \in 0..MaxInvokes
    BY BoundsAssumption DEF BoundsAssumption
  <2> QED
    BY <2>1, <2>2, <2>3 DEF TypeOK, wiring
<1>2. Stages /\ Numbered /\ Outbound /\ Unanswered /\ DoorHolds /\ CallerAttested
      /\ CallerScoped /\ AnsweredInOrder
  BY DEF Stages, Numbered, Outbound, Unanswered, DoorHolds, CallerAttested,
         CallerScoped, AnsweredInOrder
<1>3. \A t \in Tokens : Grants(delivered, Len(delivered) + 1, t) = {}
  BY DEF Grants
<1>4. Door /\ Owners
  BY <1>3 DEF Door, Owners, GrantedBefore
<1>5. OutboundCallsReachWire
  BY DEF OutboundCallsReachWire
<1> QED
  BY <1>1, <1>2, <1>4, <1>5 DEF IInv

\* Every step keeps the invariant.
LEMMA Inductive == IInv /\ [Next]_hostVars => IInv'
<1> SUFFICES ASSUME IInv, [Next]_hostVars PROVE IInv'
  OBVIOUS
<1> USE DEF IInv
<1>1. TypeOK'
  BY TypeStep
<1>2. Stages' /\ Numbered' /\ Door' /\ Owners'
  BY StagesStep, NumberedStep, DoorStep, OwnersStep
<1>3. DoorHolds' /\ CallerAttested' /\ CallerScoped'
  BY DoorHoldsStep, CallerAttestedStep, CallerScopedStep
<1>4. Outbound' /\ OutboundCallsReachWire'
  BY <1>1, OutboundStep
<1>5. AnsweredInOrder' /\ Unanswered'
  BY NextCases, AnsweredDelivery, AnsweredOther
<1> QED
  BY <1>1, <1>2, <1>3, <1>4, <1>5

\* Every reachable state of the image satisfies the inductive invariant.
THEOREM Invariance == Spec => []IInv
BY InitIInv, Inductive, PTL DEF Spec

\* The image's state stays within its types: in particular a grant always names
\* a token and the module is only ever shown a caller or the unknown one.
THEOREM TypeCorrect == Spec => []TypeOK
<1>1. IInv => TypeOK
  BY DEF IInv
<1> QED
  BY <1>1, Invariance, PTL

\* authorized(): once any credential has been granted, no call reaches the
\* module's code without one granted before it, whatever the interleaving.
THEOREM DoorIsSafe == Spec => []DoorHolds
<1>1. IInv => DoorHolds
  BY DEF IInv
<1> QED
  BY <1>1, Invariance, PTL

\* callerJson(): the module is told its caller from the call's own document, or
\* from the latest grant of the token, and from nothing else.
THEOREM CallerIsAttested == Spec => []CallerAttested
<1>1. IInv => CallerAttested
  BY DEF IInv
<1> QED
  BY <1>1, Invariance, PTL

\* logos_module_set_call_caller: no caller outlives its dispatch in a live image.
THEOREM CallerIsScoped == Spec => []CallerScoped
<1>1. IInv => CallerScoped
  BY DEF IInv
<1> QED
  BY <1>1, Invariance, PTL

\* onCall, onMethods: every request is answered once and in order, unless the
\* module is still in it or died in it.
THEOREM RequestsAnswered == Spec => []AnsweredInOrder
<1>1. IInv => AnsweredInOrder
  BY DEF IInv
<1> QED
  BY <1>1, Invariance, PTL

\* main() and the outbound door: no outbound call is failed inline, and each one
\* waits for exactly its own reply.
THEOREM OutboundReachesWire == Spec => []OutboundCallsReachWire
<1>1. IInv => OutboundCallsReachWire
  BY DEF IInv
<1> QED
  BY <1>1, Invariance, PTL
-----------------------------------------------------------------------------
(* The streams of one kind of message.                                     *)

\* Who the provider serves is who the stream has subscribed, and no emission is
\* dated later than the stream.
Sinks ==
  /\ \A e \in Events : e \in m_sinks <=> Subscribed(e, Len(delivered))
  /\ \A i \in 1..Len(emits) : emits[i].after \in 0..Len(delivered)

Asked == IdsOf(OfKind(delivered, Requests))
Answered == IdsOf(OfKind(posted, {"Result"}))

\* The answers are the requests, in order, but for the one in the module's hands
\* or the one it died in.
Answering ==
  \/ running # "call" /\ Answered = Asked
  \/ (running = "call" \/ phase = "dead") /\ Asked = Append(Answered, Len(delivered))

Streams == Sinks /\ EventsOncePerSubscriber /\ Answering

\* One frame more, of one of the kinds or not.
LEMMA OfKindAppend ==
  ASSUME NEW S, NEW s \in Seq(S), NEW f \in S, NEW kinds
  PROVE  OfKind(Append(s, f), kinds) =
           IF f.kind \in kinds THEN Append(OfKind(s, kinds), f) ELSE OfKind(s, kinds)
<1> DEFINE t == Append(s, f)
           K == {i \in DOMAIN t : t[i].kind \in kinds}
           J == {i \in DOMAIN s : s[i].kind \in kinds}
<1>1. /\ Len(s) \in Nat /\ DOMAIN s = 1..Len(s) /\ DOMAIN t = 1..(Len(s) + 1)
      /\ \A i \in 1..Len(s) : t[i] = s[i]
      /\ t[Len(s) + 1] = f
  BY AppendFacts
<1> HIDE DEF t
<1>2. Len(s) + 1 \in K <=> f.kind \in kinds
  BY <1>1
<1>3. \A i \in DOMAIN s : i \in K <=> i \in J
  BY <1>1
<1> HIDE DEF K, J
<1>4. SelectAt(s, K) = SelectAt(s, J)
  BY <1>3, SelectSame
<1>5. SelectAt(t, K) =
        IF Len(s) + 1 \in K THEN Append(SelectAt(s, K), f) ELSE SelectAt(s, K)
  BY SelectAppend DEF t
<1>6. OfKind(s, kinds) = SelectAt(s, J) /\ OfKind(t, kinds) = SelectAt(t, K)
  BY DEF OfKind, J, K
<1>7. QED
  BY <1>2, <1>4, <1>5, <1>6, Zenon DEF t

\* The frames of some kinds are frames of the stream.
LEMMA OfKindType ==
  ASSUME NEW S, NEW s \in Seq(S), NEW kinds PROVE OfKind(s, kinds) \in Seq(S)
<1> DEFINE J == {i \in DOMAIN s : s[i].kind \in kinds}
<1>1. \A i \in DOMAIN s \cap J : s[i] \in S
  OBVIOUS
<1> HIDE DEF J
<1>2. SelectAt(s, J) \in Seq(S)
  BY <1>1, SelectType
<1>3. QED
  BY <1>2 DEF OfKind, J

\* What a step posts that is of none of the kinds is not seen in their stream.
LEMMA OfKindStays ==
  ASSUME TypeOK, NEW kinds,
         UNCHANGED posted \/ \E m \in PostedFrames : m.kind \notin kinds /\ Post(m)
  PROVE  OfKind(posted', kinds) = OfKind(posted, kinds)
<1>1. CASE UNCHANGED posted
  BY <1>1
<1>2. CASE \E m \in PostedFrames : m.kind \notin kinds /\ Post(m)
  BY <1>2, OfKindAppend DEF TypeOK, Post
<1>3. QED
  BY <1>1, <1>2

\* What it posts of one of them comes last.
LEMMA OfKindPosts ==
  ASSUME TypeOK, NEW kinds, NEW m \in PostedFrames, m.kind \in kinds, Post(m)
  PROVE  OfKind(posted', kinds) = Append(OfKind(posted, kinds), m)
BY OfKindAppend DEF TypeOK, Post

\* The id of one frame more.
LEMMA IdsAppend ==
  ASSUME NEW S, NEW s \in Seq(S), NEW f \in S
  PROVE  IdsOf(Append(s, f)) = Append(IdsOf(s), f.id)
<1> DEFINE t == Append(s, f)
           T == {x.id : x \in S}
<1>1. /\ Len(s) \in Nat /\ DOMAIN s = 1..Len(s) /\ DOMAIN t = 1..(Len(s) + 1)
      /\ \A i \in 1..Len(s) : t[i] = s[i] /\ s[i] \in S
      /\ t[Len(s) + 1] = f
  BY AppendFacts
<1> HIDE DEF t
<1>2. /\ IdsOf(s) \in Seq(T) /\ Len(IdsOf(s)) = Len(s) /\ f.id \in T
      /\ \A i \in 1..Len(s) : IdsOf(s)[i] = s[i].id
  BY <1>1 DEF IdsOf
<1>3. /\ IdsOf(t) \in Seq(T) /\ Len(IdsOf(t)) = Len(s) + 1
      /\ \A i \in 1..Len(s) : IdsOf(t)[i] = s[i].id
      /\ IdsOf(t)[Len(s) + 1] = f.id
  BY <1>1, <1>2 DEF IdsOf
<1> HIDE DEF T
<1>4. /\ Append(IdsOf(s), f.id) \in Seq(T) /\ Len(Append(IdsOf(s), f.id)) = Len(s) + 1
      /\ \A i \in 1..Len(s) : Append(IdsOf(s), f.id)[i] = s[i].id
      /\ Append(IdsOf(s), f.id)[Len(s) + 1] = f.id
  BY <1>2, AppendFacts
<1>5. \A i \in 1..(Len(s) + 1) : IdsOf(t)[i] = Append(IdsOf(s), f.id)[i]
  BY <1>1, <1>3, <1>4
<1>6. IdsOf(t) = Append(IdsOf(s), f.id)
  BY <1>3, <1>4, <1>5
<1>7. QED
  BY <1>6 DEF t

\* Whether e was subscribed after n frames, of a given stream.
SubscribedIn(s, e, n) ==
  \E j \in 1..n :
    /\ s[j].kind = "Subscribe" /\ s[j].object = ModuleName /\ s[j].event = e
    /\ \A k \in (j + 1)..n :
         ~ (s[k].kind = "Unsubscribe" /\ s[k].object = ModuleName /\ s[k].event = e)

\* It does not depend on later frames, and the next one subscribes its event or
\* ends the subscription.
LEMMA SubscribedAppend ==
  ASSUME NEW s \in Seq(InboundFrames), NEW f \in InboundFrames, NEW e
  PROVE  /\ \A n \in 0..Len(s) : SubscribedIn(Append(s, f), e, n) <=> SubscribedIn(s, e, n)
         /\ SubscribedIn(Append(s, f), e, Len(s) + 1) <=>
              \/ f.kind = "Subscribe" /\ f.object = ModuleName /\ f.event = e
              \/ /\ SubscribedIn(s, e, Len(s))
                 /\ ~ (f.kind = "Unsubscribe" /\ f.object = ModuleName /\ f.event = e)
<1> DEFINE t == Append(s, f)
           Ends(x) == x.kind = "Unsubscribe" /\ x.object = ModuleName /\ x.event = e
           Starts(x) == x.kind = "Subscribe" /\ x.object = ModuleName /\ x.event = e
<1>1. /\ Len(s) \in Nat /\ \A i \in 1..Len(s) : t[i] = s[i]
      /\ t[Len(s) + 1] = f
  BY AppendFacts
<1> HIDE DEF t
<1>2. \A n : /\ SubscribedIn(t, e, n) <=>
                  \E j \in 1..n : Starts(t[j]) /\ \A k \in (j + 1)..n : ~ Ends(t[k])
             /\ SubscribedIn(s, e, n) <=>
                  \E j \in 1..n : Starts(s[j]) /\ \A k \in (j + 1)..n : ~ Ends(s[k])
  BY DEF SubscribedIn
<1>3. Starts(f) => ~ Ends(f)
  OBVIOUS
<1> HIDE DEF Starts, Ends
<1>4. ASSUME NEW n \in 0..Len(s) PROVE SubscribedIn(t, e, n) <=> SubscribedIn(s, e, n)
  <2>1. \A j \in 1..n : t[j] = s[j] /\ \A k \in (j + 1)..n : t[k] = s[k]
    BY <1>1
  <2>2. QED
    BY <1>2, <2>1
<1>5. ASSUME SubscribedIn(t, e, Len(s) + 1)
      PROVE  Starts(f) \/ (SubscribedIn(s, e, Len(s)) /\ ~ Ends(f))
  <2>1. PICK j \in 1..(Len(s) + 1) :
          Starts(t[j]) /\ \A k \in (j + 1)..(Len(s) + 1) : ~ Ends(t[k])
    BY <1>2, <1>5
  <2>2. CASE j = Len(s) + 1
    BY <1>1, <2>1, <2>2
  <2>3. CASE j \in 1..Len(s)
    <3>1. Starts(s[j]) /\ ~ Ends(f) /\ \A k \in (j + 1)..Len(s) : ~ Ends(s[k])
      BY <1>1, <2>1, <2>3
    <3>2. QED
      BY <1>2, <2>3, <3>1
  <2>4. QED
    BY <1>1, <2>2, <2>3
<1>6. ASSUME Starts(f) PROVE SubscribedIn(t, e, Len(s) + 1)
  <2>1. /\ Len(s) + 1 \in 1..(Len(s) + 1) /\ Starts(t[Len(s) + 1])
        /\ \A k \in (Len(s) + 1 + 1)..(Len(s) + 1) : ~ Ends(t[k])
    BY <1>1, <1>6
  <2>2. QED
    BY <1>2, <2>1
<1>7. ASSUME SubscribedIn(s, e, Len(s)), ~ Ends(f) PROVE SubscribedIn(t, e, Len(s) + 1)
  <2>1. PICK j \in 1..Len(s) : Starts(s[j]) /\ \A k \in (j + 1)..Len(s) : ~ Ends(s[k])
    BY <1>2, <1>7
  <2>2. /\ j \in 1..(Len(s) + 1) /\ Starts(t[j])
        /\ \A k \in (j + 1)..(Len(s) + 1) : ~ Ends(t[k])
    BY <1>1, <1>7, <2>1
  <2>3. QED
    BY <1>2, <2>2
<1>8. QED
  BY <1>4, <1>5, <1>6, <1>7, Zenon DEF t, Starts, Ends

\* The sinks follow the subscriptions of the stream.
LEMMA SinksStep ==
  ASSUME TypeOK, Sinks, [Next]_hostVars, TypeOK' PROVE Sinks'
<1>1. \A e, n : /\ Subscribed(e, n) <=> SubscribedIn(delivered, e, n)
                /\ Subscribed(e, n)' <=> SubscribedIn(delivered', e, n)
  BY DEF Subscribed, SubscribedIn
<1>2. /\ DOMAIN emits = 1..Len(emits) /\ Len(emits) \in Nat /\ Len(delivered) \in Nat
      /\ \A e \in Events : e \in m_sinks <=> SubscribedIn(delivered, e, Len(delivered))
      /\ \A i \in 1..Len(emits) : emits[i].after \in 0..Len(delivered)
  BY <1>1 DEF TypeOK, Sinks
<1>3. CASE \E f \in Frames : PeerMaySend(f, delivered, posted) /\ Deliver(f)
  <2> PICK f \in Frames : PeerMaySend(f, delivered, posted) /\ Deliver(f)
    BY <1>3
  <2>1. /\ delivered \in Seq(InboundFrames) /\ f \in InboundFrames
        /\ delivered' = Append(delivered, f) /\ Len(delivered') = Len(delivered) + 1
    BY Delivery DEF TypeOK
  <2>2. UNCHANGED emits
    BY DEF Deliver, RefuseCall, DispatchCall, OnMethods, OnSubscribe, OnUnsubscribe,
           OnToken, OnResult
  <2>3. m_sinks' = IF f.kind = "Subscribe" /\ f.object = ModuleName
                   THEN m_sinks \cup {f.event}
                   ELSE IF f.kind = "Unsubscribe" /\ f.object = ModuleName
                        THEN m_sinks \ {f.event} ELSE m_sinks
    <3>1. f.kind = "Subscribe" => OnSubscribe(f)
      BY DEF Deliver, RefuseCall, DispatchCall, OnMethods, OnUnsubscribe, OnToken, OnResult
    <3>2. f.kind = "Unsubscribe" => OnUnsubscribe(f)
      BY DEF Deliver, RefuseCall, DispatchCall, OnMethods, OnSubscribe, OnToken, OnResult
    <3>3. f.kind \notin {"Subscribe", "Unsubscribe"} => UNCHANGED m_sinks
      BY DEF Deliver, RefuseCall, DispatchCall, OnMethods, OnSubscribe, OnUnsubscribe,
             OnToken, OnResult, provider
    <3>4. QED
      BY <3>1, <3>2, <3>3 DEF OnSubscribe, OnUnsubscribe
  <2>4. ASSUME NEW e \in Events
        PROVE  e \in m_sinks' <=> SubscribedIn(delivered', e, Len(delivered'))
    <3>1. SubscribedIn(delivered', e, Len(delivered')) <=>
            \/ f.kind = "Subscribe" /\ f.object = ModuleName /\ f.event = e
            \/ /\ SubscribedIn(delivered, e, Len(delivered))
               /\ ~ (f.kind = "Unsubscribe" /\ f.object = ModuleName /\ f.event = e)
      BY <2>1, SubscribedAppend
    <3>2. QED
      BY <1>2, <2>3, <3>1
  <2>5. \A i \in 1..Len(emits') : emits'[i].after \in 0..Len(delivered')
    BY <1>2, <2>1, <2>2
  <2>6. QED
    BY <1>1, <2>4, <2>5 DEF Sinks
<1>4. CASE Other
  <2>1. UNCHANGED <<delivered, m_sinks>>
    BY <1>4, OtherLeaves
  <2>2. \A i \in 1..Len(emits') : emits'[i].after \in 0..Len(delivered')
    <3>1. CASE UNCHANGED emits
      BY <1>2, <2>1, <3>1
    <3>2. CASE \E e \in Events : emits' = Append(emits, [event |-> e, after |-> Len(delivered)])
      <4>1. PICK e \in Events : emits' = Append(emits, [event |-> e, after |-> Len(delivered)])
        BY <3>2
      <4>2. /\ Len(emits') = Len(emits) + 1
            /\ \A i \in 1..Len(emits) : emits'[i] = emits[i]
            /\ emits'[Len(emits) + 1] = [event |-> e, after |-> Len(delivered)]
        BY <4>1 DEF TypeOK
      <4>3. QED
        BY <1>2, <2>1, <4>2
    <3>3. QED
      BY <1>4, <3>1, <3>2 DEF Other, Main, MainServes, TimerFires, ModuleCode, Invoke, Emit,
         DispatchReturns, CallbackReturns, Trap, hostVars
  <2>3. QED
    BY <1>1, <1>2, <2>1, <2>2 DEF Sinks
<1>5. QED
  BY <1>3, <1>4, NextCases

\* The emissions somebody heard are the same after a step that emits nothing:
\* whom an emission reached depends only on the frames before it.
LEMMA HeardStays ==
  ASSUME TypeOK, Sinks, UNCHANGED emits,
         UNCHANGED delivered \/ \E f \in InboundFrames : delivered' = Append(delivered, f)
  PROVE  Heard' = Heard
<1> DEFINE K == {i \in DOMAIN emits : \/ Subscribed(emits[i].event, emits[i].after)
                                      \/ Subscribed(Wildcard, emits[i].after)}
           J == {i \in DOMAIN emits : \/ SubscribedIn(delivered', emits[i].event, emits[i].after)
                                      \/ SubscribedIn(delivered', Wildcard, emits[i].after)}
<1>1. delivered \in Seq(InboundFrames) /\ DOMAIN emits = 1..Len(emits)
  BY DEF TypeOK
<1>2. \A i \in DOMAIN emits : emits[i].after \in 0..Len(delivered)
  BY <1>1 DEF Sinks
<1>3. \A e : \A n \in 0..Len(delivered) :
        SubscribedIn(delivered', e, n) <=> SubscribedIn(delivered, e, n)
  <2>1. CASE UNCHANGED delivered
    BY <2>1
  <2>2. ASSUME NEW f \in InboundFrames, delivered' = Append(delivered, f)
        PROVE  \A e : \A n \in 0..Len(delivered) :
                 SubscribedIn(delivered', e, n) <=> SubscribedIn(delivered, e, n)
    BY <1>1, <2>2, SubscribedAppend
  <2>3. QED
    BY <2>1, <2>2
<1>4. \A e, n : Subscribed(e, n) <=> SubscribedIn(delivered, e, n)
  BY DEF Subscribed, SubscribedIn
<1>5. \A i \in DOMAIN emits : i \in K <=> i \in J
  BY <1>2, <1>3, <1>4
<1>6. K = J
  BY <1>5
<1>7. Heard' = SelectAt(emits, J)
  BY DEF Heard, Subscribed, SubscribedIn
<1>8. Heard = SelectAt(emits, K)
  BY DEF Heard
<1>9. QED
  BY <1>6, <1>7, <1>8, Zenon

\* An emission is heard when one of its two sinks is there.
LEMMA HeardEmits ==
  ASSUME TypeOK, Sinks, NEW e \in Events, UNCHANGED delivered, Len(delivered) \in 0..MaxFrames,
         emits' = Append(emits, [event |-> e, after |-> Len(delivered)])
  PROVE  Heard' = IF e \in m_sinks \/ Wildcard \in m_sinks
                  THEN Append(Heard, [event |-> e, after |-> Len(delivered)]) ELSE Heard
<1> DEFINE x == [event |-> e, after |-> Len(delivered)]
           S == [event : Events, after : 0..MaxFrames]
           Reached(em) == {i \in DOMAIN em : \/ Subscribed(em[i].event, em[i].after)
                                             \/ Subscribed(Wildcard, em[i].after)}
           K == Reached(emits')
           J == Reached(emits)
<1>1. emits \in Seq(S) /\ x \in S
  BY DEF TypeOK
<1>2. /\ Len(emits) \in Nat /\ DOMAIN emits = 1..Len(emits)
      /\ DOMAIN emits' = 1..(Len(emits) + 1)
      /\ \A i \in 1..Len(emits) : emits'[i] = emits[i]
      /\ emits'[Len(emits) + 1] = x
  BY <1>1, AppendFacts
<1>3. Len(emits) + 1 \in K <=> e \in m_sinks \/ Wildcard \in m_sinks
  <2>1. /\ e \in m_sinks <=> Subscribed(e, Len(delivered))
        /\ Wildcard \in m_sinks <=> Subscribed(Wildcard, Len(delivered))
    BY NamesAssumption DEF Sinks, NamesAssumption
  <2>2. Len(emits) + 1 \in DOMAIN emits' /\ x.event = e /\ x.after = Len(delivered)
    BY <1>2
  <2> HIDE DEF x
  <2>3. QED
    BY <1>2, <2>1, <2>2
<1>4. \A i \in DOMAIN emits : i \in K <=> i \in J
  BY <1>2
<1>5. Heard' = SelectAt(emits', K)
  BY DEF Heard, Subscribed
<1>6. Heard = SelectAt(emits, J)
  BY DEF Heard
<1> HIDE DEF K, J, S, x
<1>7. SelectAt(emits, K) = SelectAt(emits, J)
  BY <1>1, <1>4, SelectSame
<1>8. SelectAt(emits', K) =
        IF Len(emits) + 1 \in K THEN Append(SelectAt(emits, K), x) ELSE SelectAt(emits, K)
  BY <1>1, SelectAppend DEF x
<1>9. QED
  BY <1>3, <1>5, <1>6, <1>7, <1>8, Zenon DEF x

\* The frames of a sequence of emissions, with one more.
LEMMA EventsAppend ==
  ASSUME NEW S, NEW s \in Seq(S), NEW x \in S
  PROVE  [i \in DOMAIN Append(s, x) |-> EventFrame(Append(s, x)[i].event)] =
           Append([i \in DOMAIN s |-> EventFrame(s[i].event)], EventFrame(x.event))
<1> DEFINE t == Append(s, x)
           Of(r) == [i \in DOMAIN r |-> EventFrame(r[i].event)]
           T == {EventFrame(y.event) : y \in S}
<1>1. /\ Len(s) \in Nat /\ DOMAIN s = 1..Len(s) /\ DOMAIN t = 1..(Len(s) + 1)
      /\ \A i \in 1..Len(s) : t[i] = s[i] /\ s[i] \in S
      /\ t[Len(s) + 1] = x
  BY AppendFacts
<1> HIDE DEF t
<1>2. /\ Of(s) \in Seq(T) /\ Len(Of(s)) = Len(s) /\ EventFrame(x.event) \in T
      /\ \A i \in 1..Len(s) : Of(s)[i] = EventFrame(s[i].event)
  BY <1>1
<1>3. /\ Of(t) \in Seq(T) /\ Len(Of(t)) = Len(s) + 1
      /\ \A i \in 1..Len(s) : Of(t)[i] = EventFrame(s[i].event)
      /\ Of(t)[Len(s) + 1] = EventFrame(x.event)
  BY <1>1, <1>2
<1> HIDE DEF Of, T
<1>4. LET u == Append(Of(s), EventFrame(x.event))
      IN  /\ u \in Seq(T) /\ Len(u) = Len(s) + 1
          /\ \A i \in 1..Len(s) : u[i] = EventFrame(s[i].event)
          /\ u[Len(s) + 1] = EventFrame(x.event)
  BY <1>2, AppendFacts
<1>5. \A i \in 1..(Len(s) + 1) : Of(t)[i] = Append(Of(s), EventFrame(x.event))[i]
  BY <1>1, <1>3, <1>4
<1>6. Of(t) = Append(Of(s), EventFrame(x.event))
  BY <1>3, <1>4, <1>5
<1>7. QED
  BY <1>6 DEF t, Of

\* What the module's own code posts is told by what it emits: one frame for an
\* emission somebody hears, and no event otherwise.
LEMMA EventsStep ==
  ASSUME TypeOK, Stages, Numbered, CallerScoped, Sinks, EventsOncePerSubscriber,
         [Next]_hostVars
  PROVE  EventsOncePerSubscriber'
<1> DEFINE Told == [i \in DOMAIN Heard |-> EventFrame(Heard[i].event)]
<1>1. OfKind(posted, {"Event"}) = Told
  BY DEF EventsOncePerSubscriber
<1>2. ASSUME UNCHANGED posted \/ \E m \in PostedFrames : m.kind \notin {"Event"} /\ Post(m),
             Heard' = Heard
      PROVE  EventsOncePerSubscriber'
  <2>1. OfKind(posted', {"Event"}) = OfKind(posted, {"Event"})
    BY <1>2, OfKindStays
  <2>2. QED
    BY <1>1, <1>2, <2>1 DEF EventsOncePerSubscriber
<1>3. CASE \E f \in Frames : PeerMaySend(f, delivered, posted) /\ Deliver(f)
  <2> PICK f \in Frames : PeerMaySend(f, delivered, posted) /\ Deliver(f)
    BY <1>3
  <2>1. UNCHANGED emits /\ f \in InboundFrames /\ delivered' = Append(delivered, f)
    BY Delivery DEF Deliver, RefuseCall, DispatchCall, OnMethods, OnSubscribe,
       OnUnsubscribe, OnToken, OnResult
  <2>2. Heard' = Heard
    BY <2>1, HeardStays
  <2>3. UNCHANGED posted \/ \E m \in PostedFrames : m.kind \notin {"Event"} /\ Post(m)
    BY DeliveryPosts, FrameFields, PostedKinds DEF Answers
  <2>4. QED
    BY <1>2, <2>2, <2>3
<1>4. CASE \E e \in Events \ {Wildcard} : Emit(e)
  <2>1. PICK e \in Events : Emit(e)
    BY <1>4
  <2> DEFINE x == [event |-> e, after |-> Len(delivered)]
  <2>2. UNCHANGED delivered /\ emits' = Append(emits, x) /\ Len(delivered) \in 0..MaxFrames
    BY <2>1, Bounded DEF Emit
  <2>3. Heard' = IF e \in m_sinks \/ Wildcard \in m_sinks THEN Append(Heard, x) ELSE Heard
    BY <2>2, HeardEmits
  <2>4. CASE e \in m_sinks \/ Wildcard \in m_sinks
    <3>1. Post(EventFrame(e)) /\ EventFrame(e) \in PostedFrames /\ EventFrame(e).kind = "Event"
      BY <2>1, <2>4, PostedKinds DEF Emit
    <3>2. OfKind(posted', {"Event"}) = Append(Told, EventFrame(e))
      BY <1>1, <3>1, OfKindPosts
    <3>3. Heard \in Seq([event : Events, after : 0..MaxFrames])
      <4> DEFINE K == {i \in DOMAIN emits : \/ Subscribed(emits[i].event, emits[i].after)
                                            \/ Subscribed(Wildcard, emits[i].after)}
                 S == [event : Events, after : 0..MaxFrames]
      <4>0. emits \in Seq(S)
        BY DEF TypeOK
      <4> HIDE DEF K, S
      <4>1. \A i \in DOMAIN emits \cap K : emits[i] \in S
        BY <4>0
      <4>2. Heard = SelectAt(emits, K)
        BY DEF Heard, K
      <4>3. SelectAt(emits, K) \in Seq(S)
        BY <4>0, <4>1, SelectType
      <4>4. QED
        BY <4>2, <4>3 DEF S
    <3>4. x \in [event : Events, after : 0..MaxFrames] /\ x.event = e
      BY <2>2
    <3>5. Heard' = Append(Heard, x)
      BY <2>3, <2>4
    <3> HIDE DEF x
    <3>6. [i \in DOMAIN Heard' |-> EventFrame(Heard'[i].event)] = Append(Told, EventFrame(e))
      BY <3>3, <3>4, <3>5, EventsAppend
    <3>7. QED
      BY <3>2, <3>6 DEF EventsOncePerSubscriber
  <2>5. CASE ~ (e \in m_sinks \/ Wildcard \in m_sinks)
    <3>1. UNCHANGED posted /\ Heard' = Heard
      BY <2>1, <2>3, <2>5 DEF Emit
    <3>2. QED
      BY <1>2, <3>1
  <2>6. QED
    BY <2>4, <2>5
<1>5. CASE Other /\ ~ \E e \in Events \ {Wildcard} : Emit(e)
  <2>1. UNCHANGED <<emits, delivered>>
    BY <1>5 DEF Other, Main, MainServes, TimerFires, ModuleCode, Invoke, DispatchReturns,
       CallbackReturns, Trap, hostVars
  <2>2. Heard' = Heard
    BY <2>1, HeardStays
  <2>3. UNCHANGED posted \/ \E m \in PostedFrames : m.kind \notin {"Event"} /\ Post(m)
    <3>1. CASE DispatchReturns
      BY <3>1, ReturnPosts, PostedKinds
    <3>2. CASE Invoke
      <4>1. invoked + 1 \in 1..MaxInvokes
        BY <3>2, BoundsAssumption DEF Invoke, TypeOK, BoundsAssumption
      <4>2. UNCHANGED posted \/ Post(OutboundCall(invoked + 1))
        BY <3>2 DEF Invoke
      <4>3. QED
        BY <4>1, <4>2, PostedKinds
    <3>3. CASE MainServes
      BY <3>3, PostedKinds DEF MainServes
    <3>4. CASE Main \/ TimerFires \/ CallbackReturns \/ (Trap /\ UNCHANGED posted)
               \/ UNCHANGED hostVars
      BY <3>4 DEF Main, TimerFires, CallbackReturns, hostVars
    <3>5. QED
      BY <1>5, <3>1, <3>2, <3>3, <3>4 DEF Other, ModuleCode
  <2>4. QED
    BY <1>2, <2>2, <2>3
<1>6. QED
  BY <1>3, <1>4, <1>5, NextCases

\* The answers keep up with the requests.
LEMMA AnsweringStep ==
  ASSUME TypeOK, Stages, Numbered, CallerScoped, Answering, [Next]_hostVars
  PROVE  Answering'
<1>1. delivered \in Seq(InboundFrames) /\ posted \in Seq(PostedFrames)
  BY DEF TypeOK
<1>2. \A n \in Ids, code \in Codes :
        Post(Result(n, code)) => Answered' = Append(Answered, n)
  <2> SUFFICES ASSUME NEW n \in Ids, NEW code \in Codes, Post(Result(n, code))
               PROVE  Answered' = Append(Answered, n)
    OBVIOUS
  <2> DEFINE m == Result(n, code)
             s == OfKind(posted, {"Result"})
  <2>1. m \in PostedFrames /\ m.kind \in {"Result"} /\ m.id = n /\ Post(m)
    BY PostedKinds
  <2> HIDE DEF m
  <2>2. OfKind(posted', {"Result"}) = Append(s, m)
    BY <2>1, OfKindPosts
  <2>3. s \in Seq(PostedFrames)
    BY <1>1, OfKindType
  <2> HIDE DEF s
  <2>4. IdsOf(Append(s, m)) = Append(IdsOf(s), n)
    BY <2>1, <2>3, IdsAppend
  <2>5. QED
    BY <2>2, <2>4 DEF Answered, s
<1>3. ASSUME UNCHANGED posted \/ \E m \in PostedFrames : m.kind \notin {"Result"} /\ Post(m)
      PROVE  Answered' = Answered
  BY <1>3, OfKindStays DEF Answered
<1>4. CASE \E f \in Frames : PeerMaySend(f, delivered, posted) /\ Deliver(f)
  <2> PICK f \in Frames : PeerMaySend(f, delivered, posted) /\ Deliver(f)
    BY <1>4
  <2>1. /\ f \in InboundFrames /\ f.id = Len(delivered') /\ f.id \in Ids
        /\ delivered' = Append(delivered, f) /\ running = "none" /\ phase = "serving"
    BY Delivery, FrameFields
  <2>2. Answered = Asked
    BY <2>1 DEF Answering
  <2>3. Asked' = IF f.kind \in Requests THEN Append(Asked, f.id) ELSE Asked
    <3> DEFINE s == OfKind(delivered, Requests)
    <3>1. OfKind(delivered', Requests) = IF f.kind \in Requests THEN Append(s, f) ELSE s
      BY <1>1, <2>1, OfKindAppend
    <3>2. s \in Seq(InboundFrames)
      BY <1>1, OfKindType
    <3> HIDE DEF s
    <3>3. IdsOf(Append(s, f)) = Append(IdsOf(s), f.id)
      BY <2>1, <3>2, IdsAppend
    <3>4. QED
      BY <3>1, <3>3 DEF Asked, s
  <2>4. CASE UNCHANGED posted /\ f.kind \notin Requests /\ running' # "call"
    BY <1>3, <2>2, <2>3, <2>4 DEF Answering
  <2>5. CASE UNCHANGED posted /\ f.kind = "Call" /\ running' = "call"
    BY <1>3, <2>1, <2>2, <2>3, <2>5 DEF Answering, Requests
  <2>6. CASE Answers(f) /\ f.kind \in Requests /\ running' # "call"
    <3>1. Answered' = Append(Answered, f.id)
      BY <1>2, <2>1, <2>6 DEF Answers
    <3>2. QED
      BY <2>2, <2>3, <2>6, <3>1 DEF Answering
  <2>7. QED
    BY <2>4, <2>5, <2>6, DeliveryPosts
<1>5. CASE Other
  <2>1. Asked' = Asked /\ UNCHANGED delivered
    BY <1>5, OtherLeaves DEF Asked
  <2>2. CASE DispatchReturns
    <3>1. Len(delivered) \in Ids /\ \E code \in Codes : Post(Result(Len(delivered), code))
      BY <2>2, ReturnPosts
    <3>2. Answered' = Append(Answered, Len(delivered))
      BY <1>2, <3>1
    <3>3. running = "call" /\ running' = "none"
      BY <2>2 DEF DispatchReturns
    <3>4. QED
      BY <2>1, <3>2, <3>3 DEF Answering
  <2>3. CASE Unanswering
    <3>1. Answered' = Answered
      BY <1>3, <2>3, PostedKinds DEF Unanswering
    <3>2. QED
      BY <2>1, <2>3, <3>1 DEF Unanswering, Answering
  <2>4. QED
    BY <1>5, <2>2, <2>3, OtherPosts
<1>6. QED
  BY <1>4, <1>5, NextCases

\* The streams are as the invariant says in every reachable state.
LEMMA InitStreams == Init => Streams
<1> SUFFICES ASSUME Init PROVE Streams
  OBVIOUS
<1>1. delivered = <<>> /\ posted = <<>> /\ emits = <<>> /\ m_sinks = {} /\ running = "none"
  BY DEF Init
<1>2. Sinks
  BY <1>1 DEF Sinks, Subscribed
<1>3. OfKind(posted, {"Event"}) = <<>> /\ Heard = <<>> /\ OfKind(posted, {"Result"}) = <<>>
      /\ OfKind(delivered, Requests) = <<>>
  BY <1>1, SelectEmpty, Zenon DEF OfKind, Heard
<1>4. EventsOncePerSubscriber
  BY <1>3 DEF EventsOncePerSubscriber
<1>5. Answering
  BY <1>1, <1>3 DEF Answering, Asked, Answered, IdsOf
<1>6. QED
  BY <1>2, <1>4, <1>5 DEF Streams

\* Every step of the image keeps them so.
LEMMA StreamsStep == ASSUME IInv, Streams, [Next]_hostVars PROVE Streams'
<1>1. /\ TypeOK /\ Stages /\ Numbered /\ CallerScoped
      /\ Sinks /\ EventsOncePerSubscriber /\ Answering
  BY DEF IInv, Streams
<1>2. TypeOK'
  BY Inductive DEF IInv
<1>3. QED
  BY <1>1, <1>2, SinksStep, EventsStep, AnsweringStep DEF Streams

\* emitEvent(): what crosses the port is the emissions that somebody was
\* subscribed to when they were made, each once and in order.
THEOREM EventsReachSubscribersOnce == Spec => []EventsOncePerSubscriber
<1>1. Init => IInv /\ Streams
  BY InitIInv, InitStreams
<1>2. IInv /\ Streams /\ [Next]_hostVars => (IInv /\ Streams)'
  BY Inductive, StreamsStep
<1>3. IInv /\ Streams => EventsOncePerSubscriber
  BY DEF Streams
<1>4. QED
  BY <1>1, <1>2, <1>3, PTL DEF Spec
=============================================================================
