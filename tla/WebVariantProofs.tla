-------------------------- MODULE WebVariantProofs --------------------------
(***************************************************************************)
(* The safety of the whole pipe of a web variant, for every set of names,  *)
(* tokens and frames and every bound.                                      *)
(*                                                                         *)
(* The image inside the Worker takes only steps of WasmHost, on frames     *)
(* that its peer could have sent, so what WasmHostProofs says of it holds  *)
(* here too; the invariant of the pipe says where each frame is.           *)
(* On top of it, an invariant on what arrives of each kind of message      *)
(* (VStreams), and with both the refinement of ServedModule.               *)
(***************************************************************************)
EXTENDS WebVariant, WasmHostProofs, SequenceTheorems

-----------------------------------------------------------------------------
(* What the invariant says.                                                *)

\* The types of the pipe.
Typed ==
  /\ sent \in Seq(Frames) /\ toPage \in Seq(Frames)
  /\ port \in Seq(Frames) /\ pending \in Seq(Frames)
  /\ received \in Seq(PostedFrames)
  /\ taken \in 0..Len(posted)
  /\ page \in {"waiting", "up"}
  /\ factory \in {"running", "resolved", "rejected", "lost"}
  /\ reported \in BOOLEAN /\ deliver \in BOOLEAN /\ trapped \in BOOLEAN
  /\ draining \in BOOLEAN /\ terminated \in BOOLEAN /\ errorEvent \in BOOLEAN
  /\ deathBy \in {"nothing", "load", "main", "frame", "timer", "late", "engine"}

\* Every sign of a death has one behind it, and a death is for good.
Deaths ==
  /\ closes = IF reported THEN 1 ELSE 0
  /\ \/ phase = "dead" \/ trapped \/ terminated \/ errorEvent \/ reported
     \/ factory = "lost" \/ \E i \in DOMAIN posted : posted[i].kind = "Trap"
     => deathBy # "nothing"
  /\ deathBy # "nothing" =>
       phase = "dead" \/ terminated \/ (factory = "lost" /\ phase = "loading")

\* Once the queue has been drained nothing waits in it.
Queue == deliver /\ ~draining => pending = <<>> \/ trapped

\* The container numbers its frames, and answers only calls it received, once;
\* what it received the image has posted.
Replies ==
  /\ \A i \in DOMAIN received : \E j \in DOMAIN posted : posted[j] = received[i]
  /\ \A i \in DOMAIN sent : sent[i].id = i
  /\ \A i \in DOMAIN sent : sent[i].kind = "Result" =>
       \E j \in DOMAIN posted : posted[j] = OutboundCall(sent[i].re)
  /\ \A i, k \in DOMAIN sent :
       i # k /\ sent[i].kind = "Result" /\ sent[k].kind = "Result" =>
         sent[i].re # sent[k].re

\* The frames handed over are the first of those sent.
Prefix ==
  /\ Len(delivered) <= Len(sent)
  /\ \A i \in 1..Len(delivered) : delivered[i] = sent[i]

\* While everything is alive, where each of the other frames is.
InPipe == deathBy = "nothing" =>
  /\ Len(sent) = Len(delivered) + Len(pending) + Len(port) + Len(toPage)
  /\ \A i \in 1..Len(pending) : pending[i] = sent[Len(delivered) + i]
  /\ \A i \in 1..Len(port) : port[i] = sent[Len(delivered) + Len(pending) + i]
  /\ \A i \in 1..Len(toPage) :
       toPage[i] = sent[Len(delivered) + Len(pending) + Len(port) + i]

VInv == IInv /\ Typed /\ Deaths /\ Queue /\ Replies /\ Prefix /\ InPipe

-----------------------------------------------------------------------------
(* The image.                                                              *)

Control == [kind : {"Trap", "Error"}]
unposted == <<phase, running, wiring, provider, caller, awaiting, delivered,
              dispatched, emits, invoked, refused>>

\* What the worker script posts by itself: nothing else of the image changes,
\* or the image traps.
ScriptPosts(m) == (Trap \/ UNCHANGED unposted) /\ Post(m)

\* A message of the script's own is no answer and no call, so the image's
\* invariant survives it.
LEMMA ScriptPostKeeps ==
  ASSUME IInv, NEW m \in Control, ScriptPosts(m) PROVE IInv'
<1>1. /\ UNCHANGED <<wiring, provider, caller, awaiting, delivered, dispatched,
                     emits, invoked, refused>>
      /\ \/ phase' = "dead" /\ running' = "none" /\ running # "none"
         \/ phase' = phase /\ running' = running
  BY DEF ScriptPosts, Trap, unposted
<1>2. UNCHANGED <<receiver, door, emitter, m_tokens, m_tokenOwner, m_sinks>>
  BY <1>1 DEF wiring, provider
<1>3. TypeOK /\ m \in PostedFrames /\ m.kind \in {"Trap", "Error"} /\ Post(m)
  BY DEF IInv, Control, PostedFrames, ScriptPosts
<1>4. /\ Len(posted) \in Nat /\ Len(posted') = Len(posted) + 1
      /\ DOMAIN posted = 1..Len(posted) /\ DOMAIN posted' = 1..Len(posted')
      /\ \A i \in 1..Len(posted) : posted'[i] = posted[i]
      /\ posted'[Len(posted) + 1] = m
  BY <1>3, PostNext
<1>5. /\ \A i \in DOMAIN posted : i \in DOMAIN posted' /\ posted'[i] = posted[i]
      /\ \A i \in DOMAIN posted' : posted'[i].kind \in {"Result", "Call"} =>
           i \in DOMAIN posted /\ posted'[i] = posted[i]
  BY <1>3, <1>4
<1>6. TypeOK'
  <2>1. posted' \in Seq(PostedFrames)
    BY <1>3, PostType
  <2>2. QED
    BY <1>1, <1>2, <1>3, <2>1 DEF TypeOK, wiring
<1>7. Stages' /\ Numbered'
  <2>1. phase # "loading" => receiver /\ door /\ emitter
    BY DEF IInv, Stages
  <2>2. running # "none" => phase # "loading"
    BY DEF IInv, Stages, TypeOK
  <2>3. Stages'
    BY <1>1, <1>2, <2>1, <2>2 DEF IInv, Stages
  <2>4. QED
    BY <1>1, <2>3 DEF IInv, Numbered
<1>8. Door' /\ Owners'
  BY <1>1, <1>2 DEF IInv, Door, Owners, GrantedBefore, Grants
<1>9. DoorHolds' /\ CallerAttested'
  BY <1>1, <1>2 DEF IInv, DoorHolds, CallerAttested, GrantedBefore, Grants
<1>10. CallerScoped'
  BY <1>1 DEF IInv, CallerScoped
<1>11. OutboundCallsReachWire'
  BY <1>1 DEF IInv, OutboundCallsReachWire
<1>12. Outbound'
  BY <1>1, <1>4, <1>5 DEF IInv, Outbound
<1>13. Unanswered'
  BY <1>1, <1>4, <1>5 DEF IInv, Unanswered
<1>14. AnsweredInOrder'
  BY <1>1, <1>5, Zenon DEF IInv, AnsweredInOrder, Stages
<1>15. QED
  BY <1>6, <1>7, <1>8, <1>9, <1>10, <1>11, <1>12, <1>13, <1>14 DEF IInv

\* Of one step of the image: nothing posted is taken back, and no trap is
\* reported.
PostedGrows ==
  /\ \A i \in DOMAIN posted : i \in DOMAIN posted' /\ posted'[i] = posted[i]
  /\ \A i \in DOMAIN posted' : posted'[i].kind = "Trap" =>
       i \in DOMAIN posted /\ posted'[i] = posted[i]

\* A post of anything but a trap.
LEMMA PostGrows ==
  ASSUME TypeOK, NEW m \in PostedFrames, Post(m), m.kind # "Trap"
  PROVE  PostedGrows
<1>1. /\ DOMAIN posted = 1..Len(posted) /\ DOMAIN posted' = 1..Len(posted')
      /\ Len(posted) \in Nat /\ Len(posted') = Len(posted) + 1
      /\ \A i \in 1..Len(posted) : posted'[i] = posted[i]
      /\ posted'[Len(posted) + 1] = m
  BY PostNext
<1>2. QED
  BY <1>1 DEF PostedGrows

\* The steps of WasmHost report no trap.
LEMMA NextGrows ==
  ASSUME IInv, [Next]_hostVars PROVE PostedGrows
<1>1. TypeOK /\ Numbered /\ CallerScoped /\ Stages
  BY DEF IInv
<1>2. CASE UNCHANGED posted
  BY <1>2 DEF PostedGrows
<1>3. CASE \E f \in Frames : PeerMaySend(f, delivered, posted) /\ Deliver(f)
  <2> PICK f \in Frames : PeerMaySend(f, delivered, posted) /\ Deliver(f)
    BY <1>3
  <2>1. UNCHANGED posted \/ Answers(f)
    BY DeliveryPosts
  <2>2. CASE Answers(f)
    <3>1. PICK code \in Codes : Post(Result(f.id, code))
      BY <2>2 DEF Answers
    <3>2. Result(f.id, code) \in PostedFrames /\ Result(f.id, code).kind = "Result"
      BY FrameFields, PostedKinds
    <3>3. QED
      BY <1>1, <3>1, <3>2, PostGrows
  <2>3. QED
    BY <1>2, <2>1, <2>2
<1>4. CASE Other
  <2>1. Unanswering \/ DispatchReturns
    BY <1>1, <1>4, OtherPosts
  <2>2. CASE DispatchReturns
    <3>1. /\ Len(delivered) \in Ids
          /\ \E code \in Codes : Post(Result(Len(delivered), code))
      BY <1>1, <2>2, ReturnPosts
    <3>2. PICK code \in Codes : Post(Result(Len(delivered), code))
      BY <3>1
    <3>3. /\ Result(Len(delivered), code) \in PostedFrames
          /\ Result(Len(delivered), code).kind = "Result"
      BY <3>1, PostedKinds
    <3>4. QED
      BY <1>1, <3>2, <3>3, PostGrows
  <2>3. CASE Unanswering
    <3>1. CASE Post(Hello)
      BY <1>1, <3>1, PostedKinds, PostGrows
    <3>2. CASE \E e \in Events : Post(EventFrame(e))
      BY <1>1, <3>2, PostedKinds, PostGrows
    <3>3. CASE \E n \in 1..MaxInvokes : Post(OutboundCall(n))
      BY <1>1, <3>3, PostedKinds, PostGrows
    <3>4. QED
      BY <1>2, <2>3, <3>1, <3>2, <3>3 DEF Unanswering
  <2>4. QED
    BY <2>1, <2>2, <2>3
<1>5. QED
  BY <1>3, <1>4, NextCases

-----------------------------------------------------------------------------
(* What the actions of the variant are to the image and to the pipe.       *)

ImageRuns == ImageMain \/ ImageServes \/ ImageTimer \/ ImageModuleCode

\* The image runs only while nothing has died.
LEMMA AliveServes ==
  ASSUME Deaths, WorkerAlive, phase \in {"main", "serving"}
  PROVE  deathBy = "nothing"
BY DEF Deaths, WorkerAlive

\* The image's own steps are steps of WasmHost, and no deaths.
LEMMA ImageRunsEffect ==
  ASSUME VInv, ImageRuns
  PROVE  /\ Next /\ UNCHANGED outerVars /\ UNCHANGED delivered
         /\ deathBy = "nothing" /\ phase' # "dead"
<1>1. Stages /\ Deaths /\ TypeOK
  BY DEF VInv, IInv
<1>2. UNCHANGED outerVars /\ WorkerAlive
  BY DEF ImageRuns, ImageMain, ImageServes, ImageTimer, ImageModuleCode, WorkerIdle
<1>3. CASE ImageMain
  <2>1. Main /\ factory = "running" /\ ~terminated /\ phase = "loading"
    BY <1>3 DEF ImageMain, WorkerIdle, WorkerAlive, Main
  <2>2. deathBy = "nothing"
    BY <1>1, <2>1 DEF Deaths
  <2>3. QED
    BY <1>2, <2>1, <2>2 DEF Main, Next
<1>4. CASE ImageServes
  <2>1. MainServes /\ running = "hook" /\ phase = "main"
    BY <1>1, <1>4 DEF ImageServes, MainServes, Stages
  <2>2. deathBy = "nothing"
    BY <1>1, <1>2, <2>1, AliveServes
  <2>3. QED
    BY <1>2, <2>1, <2>2 DEF MainServes, Next
<1>5. CASE ImageTimer
  <2>1. TimerFires /\ phase = "serving"
    BY <1>5 DEF ImageTimer, TimerFires
  <2>2. deathBy = "nothing"
    BY <1>1, <1>2, <2>1, AliveServes
  <2>3. QED
    BY <1>2, <2>1, <2>2 DEF TimerFires, Next
<1>6. CASE ImageModuleCode
  <2>1. ModuleCode /\ running # "none"
    BY <1>6 DEF ImageModuleCode, ModuleCode, Invoke, Emit, DispatchReturns,
       CallbackReturns
  <2>2. phase \in {"main", "serving"}
    BY <1>1, <2>1 DEF Stages, TypeOK
  <2>3. deathBy = "nothing"
    BY <1>1, <1>2, <2>2, AliveServes
  <2>4. phase' = phase /\ UNCHANGED delivered
    BY <2>1 DEF ModuleCode, Invoke, Emit, DispatchReturns, CallbackReturns
  <2>5. QED
    BY <1>2, <2>1, <2>2, <2>3, <2>4 DEF Next
<1>7. QED
  BY <1>3, <1>4, <1>5, <1>6 DEF ImageRuns

\* The next frame of the stream is one the image's peer may send.
LEMMA NextOfStream ==
  ASSUME VInv, NEW f \in Frames, Len(delivered) < Len(sent),
         f = sent[Len(delivered) + 1]
  PROVE  PeerMaySend(f, delivered, posted)
<1> DEFINE n == Len(delivered) + 1
<1>1. /\ Len(delivered) \in Nat /\ Len(sent) \in Nat
      /\ DOMAIN delivered = 1..Len(delivered) /\ DOMAIN sent = 1..Len(sent)
  BY DEF VInv, IInv, TypeOK, Typed
<1>2. n \in DOMAIN sent
  BY <1>1
<1>3. f.id = n
  BY <1>2 DEF VInv, Replies
<1>4. ASSUME f.kind = "Result"
      PROVE  /\ \E i \in DOMAIN posted : posted[i] = OutboundCall(f.re)
             /\ \A i \in DOMAIN delivered :
                  delivered[i].kind = "Result" => delivered[i].re # f.re
  <2>1. \E i \in DOMAIN posted : posted[i] = OutboundCall(f.re)
    BY <1>2, <1>4 DEF VInv, Replies
  <2>2. ASSUME NEW i \in DOMAIN delivered, delivered[i].kind = "Result"
        PROVE  delivered[i].re # f.re
    <3>1. delivered[i] = sent[i] /\ i \in DOMAIN sent /\ i # n
      BY <1>1, <2>2 DEF VInv, Prefix
    <3>2. QED
      BY <1>2, <1>4, <2>2, <3>1 DEF VInv, Replies
  <2>3. QED
    BY <2>1, <2>2
<1>5. QED
  BY <1>3, <1>4 DEF PeerMaySend

\* What is left of a queue when its first frame is taken.
LEMMA TailFacts ==
  ASSUME NEW q \in Seq(Frames), q # <<>>
  PROVE  /\ Len(q) \in Nat \ {0} /\ Head(q) \in Frames /\ Head(q) = q[1]
         /\ Tail(q) \in Seq(Frames) /\ Len(Tail(q)) = Len(q) - 1
         /\ \A i \in 1..Len(Tail(q)) : Tail(q)[i] = q[i + 1]
OBVIOUS

\* A frame handed to the script: the image takes it, alive; or it died unseen,
\* and that is reported; or it is known to be dead.
Live(f) ==
  /\ f \in Frames /\ PeerMaySend(f, delivered, posted) /\ Deliver(f)
  /\ deathBy = "nothing" /\ UNCHANGED trapped
  /\ Len(delivered) < Len(sent) /\ f = sent[Len(delivered) + 1]
  /\ \/ port # <<>> /\ port' = Tail(port) /\ pending = <<>> /\ UNCHANGED pending
     \/ pending # <<>> /\ pending' = Tail(pending) /\ UNCHANGED port
Mute ==
  /\ deathBy # "nothing" /\ UNCHANGED delivered
  /\ port' \in {port, Tail(port)} /\ pending' \in {pending, Tail(pending)}
  /\ port' # port => port # <<>>
  /\ pending' # pending => pending # <<>>
  /\ \/ UNCHANGED <<hostVars, trapped>>
     \/ /\ ~trapped /\ ScriptPosts([kind |-> "Trap"])
        /\ phase' = "dead" /\ trapped' = TRUE

\* Handing a frame over is one or the other, and touches nothing else.
LEMMA HandedOver ==
  ASSUME VInv, WorkerDelivers \/ Drain
  PROVE  /\ UNCHANGED <<containerVars, toPage, pageVars, deliver, factory,
                        draining, envVars>>
         /\ Mute \/ \E f \in Frames : Live(f)
<1>1. Typed /\ Deaths /\ Queue /\ InPipe /\ Prefix /\ IInv
  BY DEF VInv
<1>2. /\ UNCHANGED <<containerVars, toPage, pageVars, deliver, factory, draining,
                      envVars>>
      /\ WorkerAlive
  BY DEF WorkerDelivers, Drain, WorkerIdle
<1>3. PICK f : /\ DeliverGuarded(f)
               /\ \/ /\ deliver /\ ~draining /\ port # <<>> /\ port' = Tail(port)
                     /\ f = Head(port) /\ UNCHANGED pending
                  \/ /\ pending # <<>> /\ ~trapped /\ pending' = Tail(pending)
                     /\ f = Head(pending) /\ UNCHANGED port
  BY DEF WorkerDelivers, Drain, WorkerIdle
<1>4. f \in Frames
  BY <1>1, <1>3, TailFacts DEF Typed
<1>5. /\ port' \in {port, Tail(port)} /\ pending' \in {pending, Tail(pending)}
      /\ port' # port => port # <<>>
      /\ pending' # pending => pending # <<>>
  BY <1>3
<1>6. CASE trapped /\ UNCHANGED <<hostVars, trapped>>
  <2>1. deathBy # "nothing" /\ UNCHANGED delivered
    BY <1>1, <1>6 DEF Deaths, hostVars
  <2>2. QED
    BY <1>2, <1>5, <1>6, <2>1 DEF Mute
<1>7. CASE ~trapped /\ Deliver(f) /\ UNCHANGED trapped
  <2>1. phase = "serving"
    BY <1>4, <1>7, Delivers
  <2>2. deathBy = "nothing"
    BY <1>1, <1>2, <2>1, AliveServes
  <2>3. deliver /\ ~draining => pending = <<>>
    BY <1>1, <1>7 DEF Queue
  <2>4. /\ Len(sent) = Len(delivered) + Len(pending) + Len(port) + Len(toPage)
        /\ \A i \in 1..Len(pending) : pending[i] = sent[Len(delivered) + i]
        /\ \A i \in 1..Len(port) : port[i] = sent[Len(delivered) + Len(pending) + i]
    BY <1>1, <2>2 DEF InPipe
  <2>5. /\ Len(delivered) \in Nat /\ Len(pending) \in Nat /\ Len(port) \in Nat
        /\ Len(toPage) \in Nat
    BY <1>1 DEF Typed, IInv, TypeOK
  <2>6. CASE /\ deliver /\ ~draining /\ port # <<>> /\ port' = Tail(port)
             /\ f = Head(port) /\ UNCHANGED pending
    <3>1. pending = <<>> /\ Len(pending) = 0
      BY <2>3, <2>6
    <3>2. Len(port) >= 1 /\ f = port[1]
      BY <1>1, <2>6, TailFacts DEF Typed
    <3>3. f = sent[Len(delivered) + 1] /\ Len(delivered) < Len(sent)
      BY <2>4, <2>5, <3>1, <3>2
    <3>4. PeerMaySend(f, delivered, posted)
      BY <1>4, <3>3, NextOfStream
    <3>5. Live(f)
      BY <1>4, <1>7, <2>2, <2>6, <3>1, <3>3, <3>4 DEF Live
    <3>6. QED
      BY <1>2, <1>4, <3>5
  <2>7. CASE /\ pending # <<>> /\ pending' = Tail(pending)
             /\ f = Head(pending) /\ UNCHANGED port
    <3>1. Len(pending) >= 1 /\ f = pending[1]
      BY <1>1, <2>7, TailFacts DEF Typed
    <3>2. f = sent[Len(delivered) + 1] /\ Len(delivered) < Len(sent)
      BY <2>4, <2>5, <3>1
    <3>3. PeerMaySend(f, delivered, posted)
      BY <1>4, <3>2, NextOfStream
    <3>4. Live(f)
      BY <1>4, <1>7, <2>2, <2>7, <3>2, <3>3 DEF Live
    <3>5. QED
      BY <1>2, <1>4, <3>4
  <2>8. QED
    BY <1>3, <2>6, <2>7
<1>8. CASE /\ ~trapped /\ phase = "dead" /\ trapped' = TRUE
           /\ Post([kind |-> "Trap"]) /\ UNCHANGED unposted
  <2>1. /\ deathBy # "nothing" /\ UNCHANGED delivered /\ phase' = "dead"
        /\ ScriptPosts([kind |-> "Trap"])
    BY <1>1, <1>8 DEF Deaths, unposted, ScriptPosts
  <2>2. QED
    BY <1>2, <1>5, <1>8, <2>1 DEF Mute
<1>9. QED
  BY <1>3, <1>6, <1>7, <1>8 DEF DeliverGuarded, unposted

-----------------------------------------------------------------------------
(* The steps, by what they leave alone.                                    *)

\* Steps outside the image.
Outer ==
  \/ PageStep \/ WorkerQueues \/ DrainEnds \/ FactoryResolves
  \/ GlueThrows \/ EngineKills \/ LateCallbackThrows
  \/ \E f \in Frames : ContainerSends(f)

\* Traps, and an image that cannot be instantiated.
Fails == FactoryRejects \/ TrapInFrame \/ TrapInTimer \/ TrapInMain

\* Every step is of one of these sorts.
LEMMA StepCases ==
  VariantNext => Outer \/ Fails \/ ImageRuns \/ WorkerDelivers \/ Drain
BY DEF VariantNext, Outer, Fails, ImageRuns, WorkerStep, Failures

\* A step outside the image leaves it as it was.
LEMMA OuterLeaves ==
  ASSUME Outer PROVE UNCHANGED hostVars
BY Zenon DEF Outer, PageStep, PageStarts, PageRelays, PageTakes, PageOnError,
       WorkerQueues, DrainEnds, FactoryResolves, GlueThrows, EngineKills, LateCallbackThrows,
       ContainerSends

\* What a failing step does to the image, and what it says of it.
FailsAs ==
  /\ UNCHANGED <<delivered, sent, received, toPage, port, pending, pageVars,
                 deliver, draining, terminated>>
  /\ \/ /\ ScriptPosts([kind |-> "Error"]) /\ factory' = "rejected"
        /\ UNCHANGED <<phase, running, trapped, deathBy, errorEvent>>
     \/ /\ \/ ScriptPosts([kind |-> "Error"]) \/ ScriptPosts([kind |-> "Trap"])
           \/ Trap /\ UNCHANGED posted
        /\ phase' = "dead" /\ deathBy' \in {"main", "frame", "timer"}
        /\ trapped' \in {trapped, TRUE} /\ errorEvent' \in {errorEvent, TRUE}
        /\ factory' \in {factory, "lost", "rejected"}

\* The failing steps do that.
LEMMA FailsEffect ==
  ASSUME Fails PROVE FailsAs
<1>1. CASE FactoryRejects
  <2>1. ScriptPosts([kind |-> "Error"])
    BY <1>1, Zenon DEF FactoryRejects, ScriptPosts, unposted
  <2>2. /\ UNCHANGED <<delivered, sent, received, toPage, port, pending, pageVars,
                       deliver, draining, terminated>>
        /\ UNCHANGED <<phase, running, trapped, deathBy, errorEvent>>
        /\ factory' = "rejected"
    BY <1>1 DEF FactoryRejects, containerVars, envVars
  <2>3. QED
    BY <2>1, <2>2 DEF FailsAs
<1>2. CASE TrapInFrame
  <2>1. ScriptPosts([kind |-> "Trap"])
    BY <1>2, Zenon DEF TrapInFrame, ScriptPosts
  <2>2. /\ UNCHANGED <<delivered, sent, received, toPage, port, pending, pageVars,
                       deliver, draining, terminated>>
        /\ phase' = "dead" /\ deathBy' \in {"main", "frame", "timer"}
        /\ trapped' \in {trapped, TRUE} /\ errorEvent' \in {errorEvent, TRUE}
        /\ factory' \in {factory, "lost", "rejected"}
    BY <1>2 DEF TrapInFrame, Trap, containerVars
  <2>3. QED
    BY <2>1, <2>2 DEF FailsAs
<1>3. CASE TrapInTimer
  <2>1. Trap /\ UNCHANGED posted
    BY <1>3 DEF TrapInTimer
  <2>2. /\ UNCHANGED <<delivered, sent, received, toPage, port, pending, pageVars,
                       deliver, draining, terminated>>
        /\ phase' = "dead" /\ deathBy' \in {"main", "frame", "timer"}
        /\ trapped' \in {trapped, TRUE} /\ errorEvent' \in {errorEvent, TRUE}
        /\ factory' \in {factory, "lost", "rejected"}
    BY <1>3 DEF TrapInTimer, Trap, containerVars, workerVars
  <2>3. QED
    BY <2>1, <2>2 DEF FailsAs
<1>4. CASE TrapInMain
  <2>1. ScriptPosts([kind |-> "Error"]) \/ (Trap /\ UNCHANGED posted)
    <3>1. Trap /\ (Post([kind |-> "Error"]) \/ UNCHANGED posted)
      BY <1>4, Zenon DEF TrapInMain
    <3>2. QED
      BY <3>1, Zenon DEF ScriptPosts
  <2>2. /\ UNCHANGED <<delivered, sent, received, toPage, port, pending, pageVars,
                       deliver, draining, terminated>>
        /\ phase' = "dead" /\ deathBy' \in {"main", "frame", "timer"}
        /\ trapped' \in {trapped, TRUE} /\ errorEvent' \in {errorEvent, TRUE}
        /\ factory' \in {factory, "lost", "rejected"}
    BY <1>4 DEF TrapInMain, Trap, containerVars
  <2>3. QED
    BY <2>1, <2>2 DEF FailsAs
<1>5. QED
  BY <1>1, <1>2, <1>3, <1>4 DEF Fails

\* Every step of the variant is one the image may take by itself, or a message
\* the worker script posts for it.
LEMMA ImageStep ==
  ASSUME VInv, VariantNext
  PROVE  [Next]_hostVars \/ \E m \in Control : ScriptPosts(m)
<1>1. [kind |-> "Error"] \in Control /\ [kind |-> "Trap"] \in Control
  BY DEF Control
<1>2. CASE Outer
  BY <1>2, OuterLeaves
<1>3. CASE Fails
  <2>1. FailsAs
    BY <1>3, FailsEffect
  <2>2. QED
    BY <1>1, <2>1 DEF FailsAs, Next
<1>4. CASE ImageRuns
  BY <1>4, ImageRunsEffect
<1>5. CASE WorkerDelivers \/ Drain
  <2>1. Mute \/ \E f \in Frames : Live(f)
    BY <1>5, HandedOver
  <2>2. CASE Mute
    BY <1>1, <2>2 DEF Mute
  <2>3. CASE \E f \in Frames : Live(f)
    BY <2>3 DEF Live, Next
  <2>4. QED
    BY <2>1, <2>2, <2>3
<1>6. QED
  BY <1>2, <1>3, <1>4, <1>5, StepCases

\* So the invariant of the image is kept, and its port is only ever added to.
LEMMA ImageKept ==
  ASSUME VInv, VariantNext
  PROVE  /\ IInv'
         /\ \A i \in DOMAIN posted : i \in DOMAIN posted' /\ posted'[i] = posted[i]
         /\ Len(posted) \in Nat /\ Len(posted') \in Nat /\ Len(posted) <= Len(posted')
<1>1. IInv /\ TypeOK
  BY DEF VInv, IInv
<1>2. CASE [Next]_hostVars
  <2>1. IInv' /\ PostedGrows
    BY <1>1, <1>2, Inductive, NextGrows
  <2>2. TypeOK'
    BY <2>1 DEF IInv
  <2>3. /\ Len(posted) \in Nat /\ Len(posted') \in Nat
        /\ DOMAIN posted = 1..Len(posted) /\ DOMAIN posted' = 1..Len(posted')
    BY <1>1, <2>2 DEF TypeOK
  <2>4. Len(posted) <= Len(posted')
    <3>1. CASE Len(posted) = 0
      BY <2>3, <3>1
    <3>2. CASE Len(posted) # 0
      <4>1. Len(posted) \in DOMAIN posted
        BY <2>3, <3>2
      <4>2. Len(posted) \in DOMAIN posted'
        BY <2>1, <4>1 DEF PostedGrows
      <4>3. QED
        BY <2>3, <4>2
    <3>3. QED
      BY <3>1, <3>2
  <2>5. QED
    BY <2>1, <2>3, <2>4 DEF PostedGrows
<1>3. CASE \E m \in Control : ScriptPosts(m)
  <2>1. PICK m \in Control : ScriptPosts(m)
    BY <1>3
  <2>2. IInv'
    BY <1>1, <2>1, ScriptPostKeeps
  <2>3. m \in PostedFrames /\ Post(m)
    BY <2>1 DEF Control, PostedFrames, ScriptPosts
  <2>4. /\ Len(posted) \in Nat /\ Len(posted') = Len(posted) + 1
        /\ DOMAIN posted = 1..Len(posted) /\ DOMAIN posted' = 1..Len(posted')
        /\ \A i \in 1..Len(posted) : posted'[i] = posted[i]
    BY <1>1, <2>3, PostNext
  <2>5. QED
    BY <2>2, <2>4
<1>4. QED
  BY <1>2, <1>3, ImageStep

-----------------------------------------------------------------------------
(* Deaths.                                                                 *)

TrapPosted == \E i \in DOMAIN posted : posted[i].kind = "Trap"

\* Without the port: what tells of a death, and what a death leaves behind.
Tells == phase = "dead" \/ trapped \/ terminated \/ errorEvent \/ reported
         \/ factory = "lost"
Leaves == phase = "dead" \/ terminated \/ (factory = "lost" /\ phase = "loading")

\* The invariant on deaths, by its parts.
LEMMA DeathParts ==
  Deaths <=> /\ closes = IF reported THEN 1 ELSE 0
             /\ Tells \/ TrapPosted => deathBy # "nothing"
             /\ deathBy # "nothing" => Leaves
BY Zenon DEF Deaths, Tells, TrapPosted, Leaves

\* A message other than a trap leaves no new trap on the port.
LEMMA NoTrapPosted ==
  ASSUME TypeOK, NEW m \in PostedFrames, Post(m), m.kind # "Trap", TrapPosted'
  PROVE  TrapPosted
<1>1. PostedGrows
  BY PostGrows
<1>2. QED
  BY <1>1 DEF PostedGrows, TrapPosted

\* The page reports a death only after a sign of one.
LEMMA PageDeaths ==
  ASSUME Typed, Deaths, PageStep
  PROVE  /\ UNCHANGED deathBy /\ UNCHANGED factory /\ UNCHANGED trapped
         /\ Tells' => Tells \/ TrapPosted
         /\ Leaves => Leaves'
         /\ closes' = IF reported' THEN 1 ELSE 0
<1>1. UNCHANGED hostVars /\ UNCHANGED <<deathBy, factory, trapped>>
  BY Zenon DEF PageStep, PageStarts, PageRelays, PageTakes, PageOnError, workerVars,
               envVars
<1>2. UNCHANGED phase /\ reported \in BOOLEAN
  BY <1>1 DEF hostVars, Typed
<1>3. /\ closes = IF reported THEN 1 ELSE 0
      /\ reported => Tells
  BY DEF Deaths, Tells
<1>4. CASE PageStarts \/ PageRelays
  <2>1. UNCHANGED <<terminated, errorEvent, reported, closes>>
    BY <1>4, Zenon DEF PageStarts, PageRelays, envVars, pageVars
  <2>2. QED
    BY <1>1, <1>2, <1>3, <2>1 DEF Tells, Leaves
<1>5. CASE PageTakes
  <2>1. UNCHANGED errorEvent /\ ~reported
    BY <1>5 DEF PageTakes
  <2>2. CASE UNCHANGED <<reported, terminated, closes>>
    BY <1>1, <1>2, <1>3, <2>1, <2>2 DEF Tells, Leaves
  <2>3. CASE ReportDeath /\ TrapPosted
    <3>1. reported' = TRUE /\ terminated' = TRUE /\ closes' = 1
      BY <1>3, <2>1, <2>3 DEF ReportDeath
    <3>2. QED
      BY <1>1, <1>2, <2>1, <2>3, <3>1 DEF Tells, Leaves
  <2>4. \/ UNCHANGED <<reported, terminated, closes>>
        \/ ReportDeath /\ posted[taken + 1].kind = "Trap"
    BY <1>5, Zenon DEF PageTakes
  <2>5. taken + 1 \in 1..Len(posted)
    BY <1>5 DEF Typed, PageTakes
  <2>6. QED
    <3>1. CASE posted[taken + 1].kind = "Trap" /\ ReportDeath
      <4>1. taken + 1 \in DOMAIN posted
        BY <2>5, <1>1, <1>5 DEF Typed, PageTakes
      <4>2. QED
        BY <2>3, <3>1, <4>1 DEF TrapPosted
    <3>2. QED
      BY <2>2, <2>4, <3>1
<1>6. CASE PageOnError
  <2>1. errorEvent /\ errorEvent' = FALSE /\ ReportDeath
    BY <1>6 DEF PageOnError
  <2>2. Tells
    BY <2>1 DEF Tells
  <2>3. /\ closes' = IF reported' THEN 1 ELSE 0
        /\ terminated' = terminated \/ terminated' = TRUE
    BY <1>2, <1>3, <2>1 DEF ReportDeath
  <2>4. QED
    BY <1>1, <1>2, <2>2, <2>3 DEF Leaves
<1>7. QED
  BY <1>1, <1>4, <1>5, <1>6 DEF PageStep

\* A death is for good, has left something behind, and is all that tells of one.
LEMMA DeathsStep ==
  ASSUME VInv, VariantNext
  PROVE  Deaths' /\ (deathBy # "nothing" => deathBy' # "nothing")
<1>1. Typed /\ Deaths /\ IInv /\ TypeOK /\ Stages
  BY DEF VInv, IInv
<1>2. /\ closes = IF reported THEN 1 ELSE 0
      /\ Tells \/ TrapPosted => deathBy # "nothing"
      /\ deathBy # "nothing" => Leaves
  BY <1>1, DeathParts
<1>3. SUFFICES /\ deathBy # "nothing" => deathBy' # "nothing"
               /\ closes' = IF reported' THEN 1 ELSE 0
               /\ Tells' \/ TrapPosted' => deathBy' # "nothing"
               /\ deathBy' # "nothing" => Leaves'
  <2>1. Deaths' <=> /\ closes' = IF reported' THEN 1 ELSE 0
                    /\ Tells' \/ TrapPosted' => deathBy' # "nothing"
                    /\ deathBy' # "nothing" => Leaves'
    BY Zenon DEF Deaths, Tells, TrapPosted, Leaves
  <2>2. QED
    BY <2>1
<1>4. CASE Outer
  <2>1. UNCHANGED hostVars
    BY <1>4, OuterLeaves
  <2>2. UNCHANGED posted /\ UNCHANGED phase
    BY <2>1 DEF hostVars
  <2>3. TrapPosted' <=> TrapPosted
    BY <2>2 DEF TrapPosted
  <2>4. CASE PageStep
    BY <1>1, <1>2, <2>3, <2>4, PageDeaths
  <2>5. CASE \/ WorkerQueues \/ DrainEnds \/ FactoryResolves
            \/ \E f \in Frames : ContainerSends(f)
    <3>1. /\ UNCHANGED <<deathBy, trapped, terminated, errorEvent, reported, closes>>
          /\ factory' # factory => factory # "lost" /\ factory' # "lost"
      BY <2>5 DEF WorkerQueues, DrainEnds, FactoryResolves, ContainerSends,
         pageVars,
                  envVars, workerVars
    <3>2. (Tells' <=> Tells) /\ (Leaves => Leaves')
      BY <2>2, <3>1 DEF Tells, Leaves
    <3>3. QED
      BY <1>2, <2>3, <3>1, <3>2
  <2>6. CASE GlueThrows
    <3>1. /\ deathBy' = "load" /\ factory' = "lost" /\ phase = "loading"
          /\ UNCHANGED <<reported, closes>>
      BY <2>6 DEF GlueThrows, pageVars
    <3>2. QED
      BY <1>2, <2>2, <3>1 DEF Leaves
  <2>7. CASE EngineKills
    <3>1. deathBy' = "engine" /\ terminated' = TRUE /\ UNCHANGED <<reported, closes>>
      BY <2>7 DEF EngineKills, pageVars
    <3>2. QED
      BY <1>2, <3>1 DEF Leaves
  <2>8. CASE LateCallbackThrows
    <3>1. /\ deathBy' = "late" /\ phase' = "dead" /\ UNCHANGED <<reported, closes>>
      BY <2>2, <2>8 DEF LateCallbackThrows, pageVars
    <3>2. QED
      BY <1>2, <3>1 DEF Leaves
  <2>9. QED
    BY <1>4, <2>4, <2>5, <2>6, <2>7, <2>8 DEF Outer
<1>5. CASE Fails
  <2>1. FailsAs
    BY <1>5, FailsEffect
  <2>2. UNCHANGED <<reported, closes, terminated>>
    BY <2>1 DEF FailsAs, pageVars
  <2>3. CASE deathBy' \in {"main", "frame", "timer"} /\ phase' = "dead"
    BY <1>2, <2>2, <2>3 DEF Leaves
  <2>4. CASE /\ ScriptPosts([kind |-> "Error"]) /\ factory' = "rejected"
             /\ UNCHANGED <<phase, running, trapped, deathBy, errorEvent>>
    <3>1. TrapPosted' => TrapPosted
      BY <1>1, <2>4, NoTrapPosted DEF ScriptPosts, PostedFrames
    <3>2. Tells' => Tells
      BY <2>2, <2>4 DEF Tells
    <3>3. factory = "running" \/ phase' = "dead"
      BY <1>5, <2>4 DEF Fails, FactoryRejects, TrapInFrame, TrapInTimer,
         TrapInMain, Trap
    <3>4. Leaves => Leaves'
      BY <2>2, <2>4, <3>3 DEF Leaves
    <3>5. QED
      BY <1>2, <2>2, <2>4, <3>1, <3>2, <3>4
  <2>5. QED
    BY <2>1, <2>3, <2>4 DEF FailsAs
<1>6. CASE ImageRuns
  <2>1. Next /\ UNCHANGED outerVars /\ deathBy = "nothing" /\ phase' # "dead"
    BY <1>6, ImageRunsEffect
  <2>2. UNCHANGED <<deathBy, trapped, terminated, errorEvent, reported, closes,
                    factory>>
    BY <2>1 DEF outerVars, pageVars, workerVars, envVars
  <2>3. PostedGrows
    BY <1>1, <2>1, NextGrows
  <2>4. TrapPosted' => TrapPosted
    BY <2>3 DEF PostedGrows, TrapPosted
  <2>5. Tells' => Tells
    BY <2>1, <2>2 DEF Tells
  <2>6. QED
    BY <1>2, <2>1, <2>2, <2>4, <2>5
<1>7. CASE WorkerDelivers \/ Drain
  <2>1. UNCHANGED <<deathBy, terminated, errorEvent, reported, closes, factory>>
    BY <1>7, HandedOver DEF pageVars, envVars
  <2>2. CASE Mute
    <3>1. UNCHANGED phase \/ phase' = "dead"
      BY <2>2 DEF Mute, hostVars
    <3>2. Leaves => Leaves'
      BY <2>1, <3>1 DEF Leaves
    <3>3. QED
      BY <1>2, <2>1, <2>2, <3>2 DEF Mute
  <2>3. CASE \E f \in Frames : Live(f)
    <3>1. PICK f \in Frames : Live(f)
      BY <2>3
    <3>2. Next /\ Deliver(f) /\ deathBy = "nothing" /\ UNCHANGED trapped
      BY <3>1 DEF Live, Next
    <3>3. UNCHANGED phase
      BY <1>1, <3>1, Delivery DEF Live
    <3>4. PostedGrows
      BY <1>1, <3>2, NextGrows
    <3>5. TrapPosted' => TrapPosted
      BY <3>4 DEF PostedGrows, TrapPosted
    <3>6. Tells' => Tells
      BY <2>1, <3>2, <3>3 DEF Tells
    <3>7. QED
      BY <1>2, <2>1, <3>2, <3>5, <3>6
  <2>4. QED
    BY <1>7, <2>2, <2>3, HandedOver
<1>8. QED
  BY <1>4, <1>5, <1>6, <1>7, StepCases

-----------------------------------------------------------------------------
(* Types, and the queue.                                                   *)

\* A queue of frames with one more, or with its first one gone.
LEMMA QueueTypes ==
  ASSUME NEW q \in Seq(Frames)
  PROVE  /\ \A f \in Frames : Append(q, f) \in Seq(Frames)
         /\ q # <<>> => Head(q) \in Frames /\ Tail(q) \in Seq(Frames)
OBVIOUS

\* What a handing over leaves of the two queues and of the flag.
LEMMA HandedTypes ==
  ASSUME VInv, WorkerDelivers \/ Drain
  PROVE  /\ port' \in Seq(Frames) /\ pending' \in Seq(Frames)
         /\ trapped' \in BOOLEAN
<1>1. Typed
  BY DEF VInv
<1>2. /\ port' \in {port, Tail(port)} /\ (port' # port => port # <<>>)
      /\ pending' \in {pending, Tail(pending)}
      /\ (pending' # pending => pending # <<>>)
      /\ trapped' \in {trapped, TRUE}
  <2>1. CASE Mute
    BY <2>1 DEF Mute
  <2>2. CASE \E f \in Frames : Live(f)
    BY <2>2 DEF Live
  <2>3. QED
    BY <2>1, <2>2, HandedOver
<1>3. QED
  BY <1>1, <1>2, QueueTypes DEF Typed

\* Every step keeps the types of the pipe.
LEMMA TypedStep == ASSUME VInv, VariantNext PROVE Typed'
<1>1. Typed
  BY DEF VInv
<1>2. Len(posted) \in Nat /\ Len(posted') \in Nat /\ Len(posted) <= Len(posted')
  BY ImageKept
<1>3. 0..Len(posted) \subseteq 0..Len(posted')
  BY <1>2
<1>4. CASE Outer
  <2>1. UNCHANGED hostVars /\ UNCHANGED posted
    BY <1>4, OuterLeaves DEF hostVars
  <2>2. CASE PageStarts
    BY <1>1, <2>1, <2>2 DEF PageStarts, Typed, containerVars, workerVars, envVars
  <2>3. CASE PageRelays
    <3>1. toPage' \in Seq(Frames) /\ port' \in Seq(Frames)
      BY <1>1, <2>3, QueueTypes DEF PageRelays, Typed
    <3>2. QED
      BY <1>1, <2>1, <2>3, <3>1 DEF PageRelays, Typed, containerVars, pageVars,
             workerVars, envVars
  <2>4. CASE PageTakes
    <3>1. posted \in Seq(PostedFrames)
      BY DEF VInv, IInv, TypeOK
    <3>2. taken + 1 \in 1..Len(posted) /\ taken' = taken + 1
      BY <1>1, <1>2, <2>4 DEF PageTakes, Typed
    <3>3. posted[taken + 1] \in PostedFrames
      BY <3>1, <3>2
    <3>4. received' \in {received, Append(received, posted[taken + 1])}
      BY <2>4 DEF PageTakes
    <3>5. received' \in Seq(PostedFrames)
      <4>1. received \in Seq(PostedFrames)
        BY <1>1 DEF Typed
      <4>2. Append(received, posted[taken + 1]) \in Seq(PostedFrames)
        BY <3>3, <4>1, AppendFacts
      <4>3. QED
        BY <3>4, <4>1, <4>2
    <3>6. reported' \in BOOLEAN /\ terminated' \in BOOLEAN
      BY <1>1, <2>4 DEF PageTakes, ReportDeath, Typed
    <3>7. taken' \in 0..Len(posted')
      BY <1>2, <2>1, <3>2
    <3>8. QED
      BY <1>1, <2>1, <2>4, <3>5, <3>6, <3>7 DEF PageTakes, Typed, workerVars
  <2>5. CASE PageOnError
    <3>1. reported' \in BOOLEAN /\ terminated' \in BOOLEAN
      BY <1>1, <2>5 DEF PageOnError, ReportDeath, Typed
    <3>2. QED
      BY <1>1, <2>1, <2>5, <3>1 DEF PageOnError, Typed, containerVars, workerVars
  <2>6. CASE WorkerQueues
    <3>1. port' \in Seq(Frames) /\ pending' \in Seq(Frames)
      BY <1>1, <2>6, QueueTypes DEF WorkerQueues, Typed
    <3>2. QED
      BY <1>1, <2>1, <2>6, <3>1 DEF WorkerQueues, Typed, containerVars, pageVars,
         envVars
  <2>7. CASE DrainEnds
    BY <1>1, <2>1, <2>7 DEF DrainEnds, Typed, containerVars, pageVars, envVars
  <2>8. CASE FactoryResolves
    BY <1>1, <2>1, <2>8 DEF FactoryResolves, Typed, containerVars, pageVars, envVars
  <2>9. CASE GlueThrows
    BY <1>1, <2>1, <2>9 DEF GlueThrows, Typed, containerVars, pageVars
  <2>10. CASE EngineKills \/ LateCallbackThrows
    BY <1>1, <2>1, <2>10
    DEF EngineKills, LateCallbackThrows, Typed, containerVars, pageVars, workerVars
  <2>11. CASE \E f \in Frames : ContainerSends(f)
    <3>1. PICK f \in Frames : ContainerSends(f)
      BY <2>11
    <3>2. sent' \in Seq(Frames) /\ toPage' \in Seq(Frames)
      BY <1>1, <3>1, QueueTypes DEF ContainerSends, Typed
    <3>3. QED
      BY <1>1, <2>1, <3>1, <3>2 DEF ContainerSends, Typed, pageVars, workerVars,
         envVars
  <2>12. QED
    BY <1>4, <2>2, <2>3, <2>4, <2>5, <2>6, <2>7, <2>8, <2>9, <2>10, <2>11
       DEF Outer, PageStep
<1>5. CASE Fails
  <2>1. FailsAs
    BY <1>5, FailsEffect
  <2>2. /\ UNCHANGED <<sent, received, toPage, port, pending, page, reported, taken,
                       deliver, draining, terminated>>
        /\ trapped' \in BOOLEAN /\ errorEvent' \in BOOLEAN
        /\ factory' \in {factory, "lost", "rejected"}
        /\ deathBy' \in {deathBy, "main", "frame", "timer"}
    BY <1>1, <2>1 DEF FailsAs, pageVars, Typed
  <2>3. QED
    BY <1>1, <1>3, <2>2 DEF Typed
<1>6. CASE ImageRuns
  <2>1. UNCHANGED outerVars
    BY <1>6, ImageRunsEffect
  <2>2. QED
    BY <1>1, <1>3, <2>1 DEF Typed, outerVars, containerVars, pageVars,
       workerVars, envVars
<1>7. CASE WorkerDelivers \/ Drain
  <2>1. UNCHANGED <<containerVars, toPage, pageVars, deliver, factory, draining,
                    envVars>>
    BY <1>7, HandedOver
  <2>2. port' \in Seq(Frames) /\ pending' \in Seq(Frames) /\ trapped' \in BOOLEAN
    BY <1>7, HandedTypes
  <2>3. QED
    BY <1>1, <1>3, <2>1, <2>2 DEF Typed, containerVars, pageVars, envVars
<1>8. QED
  BY <1>4, <1>5, <1>6, <1>7, StepCases

\* The drained queue stays empty: later frames bypass it.
LEMMA QueueStep == ASSUME VInv, VariantNext PROVE Queue'
<1>1. Typed /\ Queue
  BY DEF VInv
<1>2. CASE Outer
  <2>1. CASE PageStep
    <3>1. UNCHANGED <<deliver, draining, pending, trapped>>
      BY <2>1, Zenon DEF PageStep, PageStarts, PageRelays, PageTakes,
         PageOnError, workerVars
    <3>2. QED
      BY <1>1, <3>1 DEF Queue
  <2>2. CASE WorkerQueues \/ FactoryResolves \/ GlueThrows
    <3>1. ~deliver' \/ draining' \/ UNCHANGED <<deliver, draining, pending, trapped>>
      BY <1>1, <2>2 DEF WorkerQueues, FactoryResolves, GlueThrows, Typed
    <3>2. QED
      BY <1>1, <3>1 DEF Queue
  <2>3. CASE DrainEnds
    BY <2>3 DEF DrainEnds, Queue
  <2>4. CASE EngineKills \/ LateCallbackThrows \/ \E f \in Frames : ContainerSends(f)
    <3>1. UNCHANGED <<deliver, draining, pending, trapped>>
      BY <2>4 DEF EngineKills, LateCallbackThrows, ContainerSends, workerVars
    <3>2. QED
      BY <1>1, <3>1 DEF Queue
  <2>5. QED
    BY <1>2, <2>1, <2>2, <2>3, <2>4 DEF Outer
<1>3. CASE Fails
  <2>1. FailsAs
    BY <1>3, FailsEffect
  <2>2. UNCHANGED <<deliver, draining, pending>> /\ trapped' \in {trapped, TRUE}
    BY <2>1 DEF FailsAs
  <2>3. QED
    BY <1>1, <2>2 DEF Queue
<1>4. CASE ImageRuns
  <2>1. UNCHANGED <<deliver, draining, pending, trapped>>
    BY <1>4, ImageRunsEffect DEF outerVars, workerVars
  <2>2. QED
    BY <1>1, <2>1 DEF Queue
<1>5. CASE WorkerDelivers \/ Drain
  <2>1. UNCHANGED <<deliver, draining>> /\ trapped' \in {trapped, TRUE}
    BY <1>5, HandedOver DEF Mute, Live
  <2>2. pending # <<>> \/ UNCHANGED pending
    BY <1>5, HandedOver DEF Mute, Live
  <2>3. QED
    BY <1>1, <2>1, <2>2 DEF Queue
<1>6. QED
  BY <1>2, <1>3, <1>4, <1>5, StepCases

-----------------------------------------------------------------------------
(* The frames of the container and what answers them.                      *)

\* The steps that move no frame, and the steps that hand one over.
Still == UNCHANGED <<sent, toPage, port, pending, delivered>>
Hands == /\ UNCHANGED <<containerVars, toPage>>
         /\ Mute \/ \E f \in Frames : Live(f)

\* Five sorts of step as far as frames go.
LEMMA PipeCases ==
  ASSUME VInv, VariantNext
  PROVE  \/ Still \/ PageRelays \/ WorkerQueues \/ Hands
         \/ \E f \in Frames : ContainerSends(f)
<1>1. CASE PageStarts \/ PageTakes \/ PageOnError
  BY <1>1, Zenon DEF PageStarts, PageTakes, PageOnError, Still, containerVars,
     workerVars,
                     hostVars
<1>2. CASE DrainEnds \/ FactoryResolves \/ GlueThrows \/ EngineKills \/ LateCallbackThrows
  BY <1>2, Zenon DEF DrainEnds, FactoryResolves, GlueThrows, EngineKills, LateCallbackThrows, Still,
                     containerVars, workerVars, hostVars
<1>3. CASE Fails
  BY <1>3, FailsEffect DEF FailsAs, Still
<1>4. CASE ImageRuns
  BY <1>4, ImageRunsEffect DEF outerVars, containerVars, workerVars, Still
<1>5. CASE WorkerDelivers \/ Drain
  BY <1>5, HandedOver, Zenon DEF Hands
<1>6. QED
  BY <1>1, <1>2, <1>3, <1>4, <1>5, StepCases DEF Outer, PageStep

\* The container receives what the page takes from the port.
LEMMA ReceivedCases ==
  ASSUME VInv, VariantNext
  PROVE  \/ UNCHANGED received
         \/ /\ taken + 1 \in DOMAIN posted
            /\ received' = Append(received, posted[taken + 1])
<1>1. CASE PageTakes
  <2>1. taken + 1 \in DOMAIN posted
    BY <1>1 DEF PageTakes, VInv, Typed, IInv, TypeOK
  <2>2. UNCHANGED received \/ received' = Append(received, posted[taken + 1])
    BY <1>1 DEF PageTakes
  <2>3. QED
    BY <2>1, <2>2
<1>2. CASE PageStarts \/ PageRelays \/ PageOnError
  BY <1>2, Zenon DEF PageStarts, PageRelays, PageOnError, containerVars
<1>3. CASE \/ WorkerQueues \/ DrainEnds \/ FactoryResolves
          \/ GlueThrows \/ EngineKills \/ LateCallbackThrows
  BY <1>3, Zenon DEF WorkerQueues, DrainEnds, FactoryResolves, GlueThrows,
     EngineKills, LateCallbackThrows,
                     containerVars
<1>4. CASE \E f \in Frames : ContainerSends(f)
  BY <1>4, Zenon DEF ContainerSends
<1>5. CASE Fails
  BY <1>5, FailsEffect DEF FailsAs
<1>6. CASE ImageRuns
  BY <1>6, ImageRunsEffect DEF outerVars, containerVars
<1>7. CASE WorkerDelivers \/ Drain
  BY <1>7, HandedOver DEF containerVars
<1>8. QED
  BY <1>1, <1>2, <1>3, <1>4, <1>5, <1>6, <1>7, StepCases DEF Outer, PageStep

\* Only the container adds to what it sent.
LEMMA SentCases ==
  ASSUME VInv, VariantNext
  PROVE  UNCHANGED sent \/ \E f \in Frames : ContainerSends(f)
<1>1. CASE PageRelays \/ WorkerQueues
  BY <1>1, Zenon DEF PageRelays, WorkerQueues, containerVars
<1>2. QED
  BY <1>1, PipeCases DEF Still, Hands, containerVars

\* One frame more of the container's.
LEMMA RepliesSends ==
  ASSUME VInv, NEW f \in Frames, ContainerSends(f)
  PROVE  /\ \A i \in DOMAIN sent' : sent'[i].id = i
         /\ \A i \in DOMAIN sent' : sent'[i].kind = "Result" =>
              \E j \in DOMAIN posted : posted[j] = OutboundCall(sent'[i].re)
         /\ \A i, k \in DOMAIN sent' :
              i # k /\ sent'[i].kind = "Result" /\ sent'[k].kind = "Result" =>
                sent'[i].re # sent'[k].re
<1>1. Typed /\ Replies /\ PeerMaySend(f, sent, received) /\ sent' = Append(sent, f)
  BY DEF VInv, ContainerSends
<1>2. sent \in Seq(Frames)
  BY <1>1 DEF Typed
<1>3. /\ Len(sent) \in Nat /\ DOMAIN sent = 1..Len(sent)
      /\ DOMAIN sent' = 1..(Len(sent) + 1) /\ sent'[Len(sent) + 1] = f
      /\ \A i \in DOMAIN sent : sent'[i] = sent[i]
  BY <1>1, <1>2, AppendFacts
<1>4. \A i \in DOMAIN sent' : i \in DOMAIN sent \/ i = Len(sent) + 1
  BY <1>3
<1>5. /\ f.id = Len(sent) + 1
      /\ f.kind = "Result" =>
           /\ \E i \in DOMAIN received : received[i] = OutboundCall(f.re)
           /\ \A i \in DOMAIN sent : sent[i].kind = "Result" => sent[i].re # f.re
  BY <1>1 DEF PeerMaySend
<1>6. f.kind = "Result" => \E j \in DOMAIN posted : posted[j] = OutboundCall(f.re)
  BY <1>1, <1>5 DEF Replies
<1>7. ASSUME NEW i \in DOMAIN sent' PROVE sent'[i].id = i
  BY <1>1, <1>3, <1>4, <1>5 DEF Replies
<1>8. ASSUME NEW i \in DOMAIN sent', sent'[i].kind = "Result"
      PROVE  \E j \in DOMAIN posted : posted[j] = OutboundCall(sent'[i].re)
  BY <1>1, <1>3, <1>4, <1>6, <1>8 DEF Replies
<1>9. ASSUME NEW i \in DOMAIN sent', NEW k \in DOMAIN sent', i # k,
             sent'[i].kind = "Result", sent'[k].kind = "Result"
      PROVE  sent'[i].re # sent'[k].re
  <2>1. CASE i \in DOMAIN sent /\ k \in DOMAIN sent
    BY <1>1, <1>3, <1>9, <2>1 DEF Replies
  <2>2. CASE i \in DOMAIN sent /\ k = Len(sent) + 1
    BY <1>3, <1>5, <1>9, <2>2
  <2>3. CASE k \in DOMAIN sent /\ i = Len(sent) + 1
    BY <1>3, <1>5, <1>9, <2>3
  <2>4. QED
    BY <1>4, <1>9, <2>1, <2>2, <2>3
<1>10. QED
  BY <1>7, <1>8, <1>9

\* The container's frames stay numbered, and answer what the image posted.
LEMMA RepliesStep == ASSUME VInv, VariantNext PROVE Replies'
<1>1. Typed /\ Replies
  BY DEF VInv
<1>2. \A i \in DOMAIN posted : i \in DOMAIN posted' /\ posted'[i] = posted[i]
  BY ImageKept
<1>3. \A i \in DOMAIN received' : \E j \in DOMAIN posted' : posted'[j] = received'[i]
  <2>1. CASE UNCHANGED received
    BY <1>1, <1>2, <2>1 DEF Replies
  <2>2. CASE /\ taken + 1 \in DOMAIN posted
             /\ received' = Append(received, posted[taken + 1])
    <3> DEFINE m == posted[taken + 1]
    <3>1. received \in Seq(PostedFrames) /\ posted \in Seq(PostedFrames)
      BY <1>1 DEF Typed, VInv, IInv, TypeOK
    <3>2. m \in PostedFrames
      BY <2>2, <3>1
    <3>3. /\ Len(received) \in Nat /\ DOMAIN received = 1..Len(received)
          /\ DOMAIN received' = 1..(Len(received) + 1)
          /\ received'[Len(received) + 1] = m
          /\ \A i \in DOMAIN received : received'[i] = received[i]
      <4> HIDE DEF m
      <4>1. received' = Append(received, m)
        BY <2>2 DEF m
      <4>2. QED
        BY <3>1, <3>2, <4>1, AppendFacts
    <3>4. ASSUME NEW i \in DOMAIN received'
          PROVE  \E j \in DOMAIN posted' : posted'[j] = received'[i]
      <4>1. CASE i \in DOMAIN received
        BY <1>1, <1>2, <3>3, <4>1 DEF Replies
      <4>2. CASE i = Len(received) + 1
        BY <1>2, <2>2, <3>3, <4>2
      <4>3. QED
        BY <3>3, <4>1, <4>2
    <3>5. QED
      BY <3>4
  <2>3. QED
    BY <2>1, <2>2, ReceivedCases
<1>4. /\ \A i \in DOMAIN sent' : sent'[i].id = i
      /\ \A i \in DOMAIN sent' : sent'[i].kind = "Result" =>
           \E j \in DOMAIN posted : posted[j] = OutboundCall(sent'[i].re)
      /\ \A i, k \in DOMAIN sent' :
           i # k /\ sent'[i].kind = "Result" /\ sent'[k].kind = "Result" =>
             sent'[i].re # sent'[k].re
  <2>1. CASE UNCHANGED sent
    BY <1>1, <2>1 DEF Replies
  <2>2. CASE \E f \in Frames : ContainerSends(f)
    BY <2>2, RepliesSends
  <2>3. QED
    BY <2>1, <2>2, SentCases
<1>5. \A i \in DOMAIN sent' : sent'[i].kind = "Result" =>
        \E j \in DOMAIN posted' : posted'[j] = OutboundCall(sent'[i].re)
  BY <1>2, <1>4
<1>6. QED
  BY <1>3, <1>4, <1>5 DEF Replies

-----------------------------------------------------------------------------
(* Where the frames are.                                                   *)

\* The lengths of the parts of the pipe are numbers.
LEMMA Lengths ==
  ASSUME VInv
  PROVE  /\ Len(sent) \in Nat /\ Len(delivered) \in Nat /\ Len(pending) \in Nat
         /\ Len(port) \in Nat /\ Len(toPage) \in Nat
BY DEF VInv, Typed, IInv, TypeOK

\* The image takes the next frame of the stream, or none.
LEMMA LiveDelivers ==
  ASSUME VInv, NEW f \in Frames, Live(f)
  PROVE  /\ Len(delivered') = Len(delivered) + 1
         /\ \A i \in 1..Len(delivered) : delivered'[i] = delivered[i]
         /\ delivered'[Len(delivered) + 1] = f
         /\ f = sent[Len(delivered) + 1] /\ Len(delivered) < Len(sent)
<1>1. TypeOK /\ PeerMaySend(f, delivered, posted) /\ Deliver(f)
  BY DEF VInv, IInv, Live
<1>2. QED
  BY <1>1, Delivery DEF Live

\* The image has always been handed a prefix of the stream.
LEMMA PrefixStep == ASSUME VInv, VariantNext PROVE Prefix'
<1>1. Prefix /\ Typed
  BY DEF VInv
<1>2. Len(sent) \in Nat /\ Len(delivered) \in Nat
  BY Lengths
<1>3. CASE UNCHANGED <<sent, delivered>>
  BY <1>1, <1>3 DEF Prefix
<1>4. CASE \E f \in Frames : ContainerSends(f)
  <2>1. PICK f \in Frames : ContainerSends(f)
    BY <1>4
  <2>2. UNCHANGED delivered /\ sent' = Append(sent, f) /\ sent \in Seq(Frames)
    BY <1>1, <2>1 DEF ContainerSends, hostVars, Typed
  <2>3. Len(sent') = Len(sent) + 1 /\ \A i \in 1..Len(sent) : sent'[i] = sent[i]
    BY <2>2, AppendFacts
  <2>4. Len(delivered') <= Len(sent')
    BY <1>1, <1>2, <2>2, <2>3 DEF Prefix
  <2>5. \A i \in 1..Len(delivered) : i \in 1..Len(sent)
    BY <1>1, <1>2 DEF Prefix
  <2>6. \A i \in 1..Len(delivered') : delivered'[i] = sent'[i]
    BY <1>1, <2>2, <2>3, <2>5 DEF Prefix
  <2>7. QED
    BY <2>4, <2>6 DEF Prefix
<1>5. CASE UNCHANGED sent /\ \E f \in Frames : Live(f)
  <2>1. PICK f \in Frames : Live(f)
    BY <1>5
  <2>2. /\ Len(delivered') = Len(delivered) + 1
        /\ \A i \in 1..Len(delivered) : delivered'[i] = delivered[i]
        /\ delivered'[Len(delivered) + 1] = f
        /\ f = sent[Len(delivered) + 1] /\ Len(delivered) < Len(sent)
    BY <2>1, LiveDelivers
  <2>3. Len(delivered') <= Len(sent')
    BY <1>2, <1>5, <2>2
  <2>4. \A i \in 1..Len(delivered') : i \in 1..Len(delivered) \/ i = Len(delivered) + 1
    BY <1>2, <2>2
  <2>5. \A i \in 1..Len(delivered') : delivered'[i] = sent'[i]
    BY <1>1, <1>5, <2>2, <2>4 DEF Prefix
  <2>6. QED
    BY <2>3, <2>5 DEF Prefix
<1>6. CASE PageRelays \/ WorkerQueues
  BY <1>3, <1>6 DEF PageRelays, WorkerQueues, containerVars, hostVars
<1>7. QED
  BY <1>3, <1>4, <1>5, <1>6, PipeCases DEF Still, Hands, Mute, containerVars

\* A queue with one more frame.
LEMMA AppendLook ==
  ASSUME NEW q \in Seq(Frames), NEW f \in Frames
  PROVE  /\ Len(q) \in Nat /\ Len(Append(q, f)) = Len(q) + 1
         /\ \A i \in 1..Len(q) : Append(q, f)[i] = q[i]
         /\ Append(q, f)[Len(q) + 1] = f
         /\ \A i \in 1..Len(Append(q, f)) : i \in 1..Len(q) \/ i = Len(q) + 1
OBVIOUS

\* While nothing has died, the three parts of the pipe hold the rest of the
\* stream, whichever frame moves on.
LEMMA InPipeSends ==
  ASSUME VInv, NEW f \in Frames, ContainerSends(f), deathBy = "nothing" PROVE InPipe'
<1>1. InPipe /\ Typed /\ sent \in Seq(Frames) /\ toPage \in Seq(Frames)
  BY DEF VInv, Typed
<1>2. /\ sent' = Append(sent, f) /\ toPage' = Append(toPage, f)
      /\ UNCHANGED <<delivered, pending, port>>
  BY DEF ContainerSends, hostVars, workerVars
<1>3. /\ Len(sent') = Len(sent) + 1 /\ sent'[Len(sent) + 1] = f
      /\ \A i \in 1..Len(sent) : sent'[i] = sent[i]
      /\ Len(toPage') = Len(toPage) + 1 /\ toPage'[Len(toPage) + 1] = f
      /\ \A i \in 1..Len(toPage) : toPage'[i] = toPage[i]
      /\ \A i \in 1..Len(toPage') : i \in 1..Len(toPage) \/ i = Len(toPage) + 1
  BY <1>1, <1>2, AppendLook
<1> DEFINE d == Len(delivered)
           p == Len(pending)
           q == Len(port)
           t == Len(toPage)
<1>4. /\ d \in Nat /\ p \in Nat /\ q \in Nat /\ t \in Nat /\ Len(sent) = d + p + q + t
      /\ \A i \in 1..p : pending[i] = sent[d + i]
      /\ \A i \in 1..q : port[i] = sent[d + p + i]
      /\ \A i \in 1..t : toPage[i] = sent[d + p + q + i]
  BY <1>1, Lengths DEF InPipe
<1>5. /\ Len(delivered') = d /\ Len(pending') = p
      /\ Len(port') = q /\ Len(toPage') = t + 1
  BY <1>2, <1>3
<1> HIDE DEF d, p, q, t
<1>6. ASSUME NEW i \in 1..p PROVE pending'[i] = sent'[d + i]
  <2>1. d + i \in 1..Len(sent)
    BY <1>4
  <2>2. QED
    BY <1>2, <1>3, <1>4, <2>1
<1>7. ASSUME NEW i \in 1..q PROVE port'[i] = sent'[d + p + i]
  <2>1. d + p + i \in 1..Len(sent)
    BY <1>4
  <2>2. QED
    BY <1>2, <1>3, <1>4, <2>1
<1>8. ASSUME NEW i \in 1..(t + 1) PROVE toPage'[i] = sent'[d + p + q + i]
  <2>1. CASE i \in 1..t
    <3>1. d + p + q + i \in 1..Len(sent)
      BY <1>4, <2>1
    <3>2. QED
      BY <1>3, <1>4, <2>1, <3>1 DEF t
  <2>2. CASE i = t + 1
    <3>1. d + p + q + i = Len(sent) + 1
      BY <1>4, <2>2
    <3>2. QED
      BY <1>3, <2>2, <3>1 DEF t
  <2>3. QED
    BY <1>4, <2>1, <2>2
<1>9. Len(sent') = d + p + q + (t + 1)
  BY <1>3, <1>4
<1>10. QED
  BY <1>5, <1>6, <1>7, <1>8, <1>9 DEF InPipe

\* The page relays a frame from the channel to the Worker's port.
LEMMA InPipeRelays ==
  ASSUME VInv, PageRelays, deathBy = "nothing" PROVE InPipe'
<1>1. InPipe /\ toPage \in Seq(Frames) /\ port \in Seq(Frames) /\ ~terminated
  BY DEF VInv, Typed, Deaths
<1>2. /\ toPage # <<>> /\ toPage' = Tail(toPage)
      /\ port' = Append(port, Head(toPage))
      /\ UNCHANGED <<delivered, pending, sent>>
  BY <1>1 DEF PageRelays, hostVars, workerVars, containerVars
<1> DEFINE d == Len(delivered)
           p == Len(pending)
           q == Len(port)
           t == Len(toPage)
           f == Head(toPage)
<1>3. /\ f \in Frames /\ f = toPage[1] /\ t \in Nat \ {0}
      /\ Len(toPage') = t - 1
      /\ \A i \in 1..Len(toPage') : toPage'[i] = toPage[i + 1]
  BY <1>1, <1>2, TailFacts
<1>4. /\ Len(port') = q + 1 /\ port'[q + 1] = f
      /\ \A i \in 1..q : port'[i] = port[i]
      /\ \A i \in 1..Len(port') : i \in 1..q \/ i = q + 1
  <2> HIDE DEF f
  <2>1. port' = Append(port, f)
    BY <1>2 DEF f
  <2>2. QED
    BY <1>1, <1>3, <2>1, AppendLook
<1>5. /\ d \in Nat /\ p \in Nat /\ q \in Nat /\ Len(sent) = d + p + q + t
      /\ \A i \in 1..p : pending[i] = sent[d + i]
      /\ \A i \in 1..q : port[i] = sent[d + p + i]
      /\ \A i \in 1..t : toPage[i] = sent[d + p + q + i]
  BY <1>1, Lengths DEF InPipe
<1>6. Len(delivered') = d /\ Len(pending') = p /\ sent' = sent /\ pending' = pending
  BY <1>2
<1> HIDE DEF d, p, q, t, f
<1>7. f = sent[d + p + q + 1]
  BY <1>3, <1>5
<1>8. ASSUME NEW i \in 1..(q + 1) PROVE port'[i] = sent[d + p + i]
  <2>1. CASE i \in 1..q
    BY <1>4, <1>5, <2>1
  <2>2. CASE i = q + 1
    <3>1. d + p + i = d + p + q + 1
      BY <1>5, <2>2
    <3>2. QED
      BY <1>4, <1>7, <2>2, <3>1
  <2>3. QED
    BY <1>5, <2>1, <2>2
<1>9. \A i \in 1..(t - 1) : toPage'[i] = sent[d + p + (q + 1) + i]
  <2>1. ASSUME NEW i \in 1..(t - 1) PROVE toPage'[i] = sent[d + p + (q + 1) + i]
    <3>1. i + 1 \in 1..t /\ d + p + q + (i + 1) = d + p + (q + 1) + i
      BY <1>3, <1>5
    <3>2. toPage'[i] = toPage[i + 1] /\ toPage[i + 1] = sent[d + p + q + (i + 1)]
      BY <1>3, <1>5, <3>1
    <3>3. QED
      BY <3>1, <3>2
  <2>2. QED
    BY <2>1
<1>10. Len(sent) = d + p + (q + 1) + (t - 1)
  BY <1>3, <1>5
<1>11. QED
  BY <1>3, <1>4, <1>5, <1>6, <1>8, <1>9, <1>10 DEF InPipe

\* The worker script queues a frame from its port.
LEMMA InPipeQueues ==
  ASSUME VInv, WorkerQueues, deathBy = "nothing" PROVE InPipe'
<1>1. InPipe /\ port \in Seq(Frames) /\ pending \in Seq(Frames) /\ ~trapped
  BY DEF VInv, Typed, Deaths
<1>2. /\ port # <<>> /\ port' = Tail(port) /\ pending' = Append(pending, Head(port))
      /\ UNCHANGED <<delivered, toPage, sent>>
  BY <1>1 DEF WorkerQueues, hostVars, containerVars
<1> DEFINE d == Len(delivered)
           p == Len(pending)
           q == Len(port)
           t == Len(toPage)
           f == Head(port)
<1>3. /\ f \in Frames /\ f = port[1] /\ q \in Nat \ {0}
      /\ Len(port') = q - 1
      /\ \A i \in 1..Len(port') : port'[i] = port[i + 1]
  BY <1>1, <1>2, TailFacts
<1>4. /\ Len(pending') = p + 1 /\ pending'[p + 1] = f
      /\ \A i \in 1..p : pending'[i] = pending[i]
  <2> HIDE DEF f
  <2>1. pending' = Append(pending, f)
    BY <1>2 DEF f
  <2>2. QED
    BY <1>1, <1>3, <2>1, AppendLook
<1>5. /\ d \in Nat /\ p \in Nat /\ t \in Nat /\ Len(sent) = d + p + q + t
      /\ \A i \in 1..p : pending[i] = sent[d + i]
      /\ \A i \in 1..q : port[i] = sent[d + p + i]
      /\ \A i \in 1..t : toPage[i] = sent[d + p + q + i]
  BY <1>1, Lengths DEF InPipe
<1>6. Len(delivered') = d /\ Len(toPage') = t /\ sent' = sent /\ toPage' = toPage
  BY <1>2
<1> HIDE DEF d, p, q, t, f
<1>7. f = sent[d + p + 1]
  BY <1>3, <1>5
<1>8. ASSUME NEW i \in 1..(p + 1) PROVE pending'[i] = sent[d + i]
  <2>1. CASE i \in 1..p
    BY <1>4, <1>5, <2>1
  <2>2. CASE i = p + 1
    <3>1. d + i = d + p + 1
      BY <1>5, <2>2
    <3>2. QED
      BY <1>4, <1>7, <2>2, <3>1
  <2>3. QED
    BY <1>5, <2>1, <2>2
<1>9. ASSUME NEW i \in 1..(q - 1) PROVE port'[i] = sent[d + (p + 1) + i]
  <2>1. i + 1 \in 1..q /\ d + p + (i + 1) = d + (p + 1) + i
    BY <1>3, <1>5
  <2>2. port'[i] = port[i + 1] /\ port[i + 1] = sent[d + p + (i + 1)]
    BY <1>3, <1>5, <2>1
  <2>3. QED
    BY <2>1, <2>2
<1>10. ASSUME NEW i \in 1..t PROVE toPage[i] = sent[d + (p + 1) + (q - 1) + i]
  <2>1. d + (p + 1) + (q - 1) + i = d + p + q + i
    BY <1>3, <1>5
  <2>2. QED
    BY <1>5, <2>1
<1>11. Len(sent) = d + (p + 1) + (q - 1) + t
  BY <1>3, <1>5
<1>12. QED
  BY <1>3, <1>4, <1>6, <1>8, <1>9, <1>10, <1>11 DEF InPipe

\* The image takes the first frame of the worker's queue, or, once that is
\* empty, the first on the Worker's port.
LEMMA InPipeLive ==
  ASSUME VInv, UNCHANGED <<sent, toPage>>, NEW f \in Frames, Live(f) PROVE InPipe'
<1>1. InPipe /\ port \in Seq(Frames) /\ pending \in Seq(Frames) /\ deathBy = "nothing"
  BY DEF VInv, Typed, Live
<1> DEFINE d == Len(delivered)
           p == Len(pending)
           q == Len(port)
           t == Len(toPage)
<1>2. /\ d \in Nat /\ p \in Nat /\ q \in Nat /\ t \in Nat /\ Len(sent) = d + p + q + t
      /\ \A i \in 1..p : pending[i] = sent[d + i]
      /\ \A i \in 1..q : port[i] = sent[d + p + i]
      /\ \A i \in 1..t : toPage[i] = sent[d + p + q + i]
  BY <1>1, Lengths DEF InPipe
<1>3. Len(delivered') = d + 1 /\ Len(toPage') = t
  BY LiveDelivers
<1>4. CASE port # <<>> /\ port' = Tail(port) /\ pending = <<>> /\ UNCHANGED pending
  <2>1. /\ q \in Nat \ {0} /\ Len(port') = q - 1
        /\ \A i \in 1..Len(port') : port'[i] = port[i + 1]
    BY <1>1, <1>4, TailFacts
  <2>2. p = 0 /\ Len(pending') = 0
    BY <1>4
  <2> HIDE DEF d, p, q, t
  <2>3. ASSUME NEW i \in 1..(q - 1) PROVE port'[i] = sent[(d + 1) + 0 + i]
    <3>1. i + 1 \in 1..q /\ d + p + (i + 1) = (d + 1) + 0 + i
      BY <1>2, <2>1, <2>2
    <3>2. port'[i] = port[i + 1] /\ port[i + 1] = sent[d + p + (i + 1)]
      BY <1>2, <2>1, <3>1
    <3>3. QED
      BY <3>1, <3>2
  <2>4. ASSUME NEW i \in 1..t PROVE toPage[i] = sent[(d + 1) + 0 + (q - 1) + i]
    <3>1. (d + 1) + 0 + (q - 1) + i = d + p + q + i
      BY <1>2, <2>1, <2>2
    <3>2. QED
      BY <1>2, <3>1
  <2>5. Len(sent) = (d + 1) + 0 + (q - 1) + t
    BY <1>2, <2>1, <2>2
  <2>6. QED
    BY <1>3, <2>1, <2>2, <2>3, <2>4, <2>5 DEF InPipe
<1>5. CASE pending # <<>> /\ pending' = Tail(pending) /\ UNCHANGED port
  <2>1. /\ p \in Nat \ {0} /\ Len(pending') = p - 1
        /\ \A i \in 1..Len(pending') : pending'[i] = pending[i + 1]
    BY <1>1, <1>5, TailFacts
  <2>2. Len(port') = q
    BY <1>5
  <2> HIDE DEF d, p, q, t
  <2>3. ASSUME NEW i \in 1..(p - 1) PROVE pending'[i] = sent[(d + 1) + i]
    <3>1. i + 1 \in 1..p /\ d + (i + 1) = (d + 1) + i
      BY <1>2, <2>1
    <3>2. pending'[i] = pending[i + 1] /\ pending[i + 1] = sent[d + (i + 1)]
      BY <1>2, <2>1, <3>1
    <3>3. QED
      BY <3>1, <3>2
  <2>4. ASSUME NEW i \in 1..q PROVE port[i] = sent[(d + 1) + (p - 1) + i]
    <3>1. (d + 1) + (p - 1) + i = d + p + i
      BY <1>2, <2>1
    <3>2. QED
      BY <1>2, <3>1
  <2>5. ASSUME NEW i \in 1..t PROVE toPage[i] = sent[(d + 1) + (p - 1) + q + i]
    <3>1. (d + 1) + (p - 1) + q + i = d + p + q + i
      BY <1>2, <2>1
    <3>2. QED
      BY <1>2, <3>1
  <2>6. Len(sent) = (d + 1) + (p - 1) + q + t
    BY <1>2, <2>1
  <2>7. QED
    BY <1>3, <1>5, <2>1, <2>2, <2>3, <2>4, <2>5, <2>6 DEF InPipe
<1>6. QED
  BY <1>4, <1>5 DEF Live

\* While nothing dies no frame is lost, doubled or overtaken.
LEMMA InPipeStep == ASSUME VInv, VariantNext PROVE InPipe'
<1>1. SUFFICES ASSUME deathBy' = "nothing" PROVE InPipe'
  BY DEF InPipe
<1>2. deathBy = "nothing" /\ InPipe
  BY <1>1, DeathsStep DEF VInv
<1>3. CASE Still
  BY <1>2, <1>3 DEF Still, InPipe
<1>4. CASE Hands
  <2>1. \E f \in Frames : Live(f)
    BY <1>2, <1>4 DEF Hands, Mute
  <2>2. QED
    BY <1>4, <2>1, InPipeLive DEF Hands, containerVars
<1>5. QED
  BY <1>2, <1>3, <1>4, InPipeSends, InPipeRelays, InPipeQueues, PipeCases

-----------------------------------------------------------------------------
(* The theorems.                                                           *)

\* The invariant holds at the start,
LEMMA VInit == VariantInit => VInv
<1> SUFFICES ASSUME VariantInit PROVE VInv
  OBVIOUS
<1>1. IInv
  BY InitIInv DEF VariantInit
<1>2. posted = <<>> /\ delivered = <<>> /\ phase = "loading" /\ sent = <<>>
  BY DEF VariantInit, Init
<1>3. Typed
  <2>1. <<>> \in Seq(Frames) /\ <<>> \in Seq(PostedFrames) /\ Len(posted) = 0
    BY <1>2
  <2>2. taken \in 0..Len(posted)
    BY <2>1 DEF VariantInit
  <2>3. QED
    BY <1>2, <2>1, <2>2 DEF VariantInit, Typed
<1>4. Deaths /\ Queue
  BY <1>2 DEF VariantInit, Deaths, Queue
<1>5. Replies /\ Prefix
  BY <1>2 DEF VariantInit, Replies, Prefix
<1>6. InPipe
  BY <1>2 DEF VariantInit, InPipe
<1>7. QED
  BY <1>1, <1>3, <1>4, <1>5, <1>6 DEF VInv

\* through stuttering,
LEMMA VStutter == ASSUME VInv, UNCHANGED vars PROVE VInv'
<1>1. /\ UNCHANGED <<hostVars, sent, received, toPage, port, closes, page, reported>>
      /\ UNCHANGED <<taken, deliver, pending, trapped, factory, draining, terminated>>
      /\ UNCHANGED <<errorEvent, deathBy>>
  BY DEF vars, outerVars, containerVars, pageVars, workerVars, envVars
<1>2. IInv'
  BY <1>1, Inductive DEF VInv
<1>3. UNCHANGED <<posted, delivered, phase>>
  BY <1>1 DEF hostVars
<1>4. Typed' /\ Queue' /\ Prefix' /\ InPipe'
  BY <1>1, <1>3 DEF VInv, Typed, Queue, Prefix, InPipe
<1>5. Deaths' /\ Replies'
  BY <1>1, <1>3 DEF VInv, Deaths, Replies
<1>6. QED
  BY <1>2, <1>4, <1>5 DEF VInv

\* and through every step.
LEMMA VInductive == VInv /\ [VariantNext]_vars => VInv'
<1>1. ASSUME VInv, VariantNext PROVE VInv'
  BY <1>1, ImageKept, TypedStep, DeathsStep, QueueStep, RepliesStep, PrefixStep,
     InPipeStep DEF VInv
<1>2. QED
  BY <1>1, VStutter

\* Every reachable state of the variant satisfies the inductive invariant.
THEOREM VariantInvariance == VariantSpec => []VInv
BY VInit, VInductive, PTL DEF VariantSpec

\* The pipe's state stays within its types, for every set of frames.
THEOREM VariantTypeCorrect == VariantSpec => []VariantTypeOK
<1>1. ASSUME VInv PROVE VariantTypeOK
  <2>1. Typed /\ Deaths /\ TypeOK
    BY <1>1 DEF VInv, IInv
  <2>2. Seq(Frames) \subseteq Seq(InboundFrames)
    BY FramesAssumption DEF FramesAssumption
  <2>3. /\ sent \in Seq(InboundFrames) /\ toPage \in Seq(InboundFrames)
        /\ port \in Seq(InboundFrames) /\ pending \in Seq(InboundFrames)
    BY <2>1, <2>2 DEF Typed
  <2>4. closes \in 0..1
    BY <2>1 DEF Typed, Deaths
  <2>5. {reported, deliver, trapped, draining, terminated, errorEvent} \subseteq BOOLEAN
    BY <2>1, Zenon DEF Typed
  <2>6. QED
    BY <2>1, <2>3, <2>4, <2>5 DEF Typed, VariantTypeOK
<1>2. QED
  BY <1>1, VariantInvariance, PTL

\* s holds the n frames of the stream w that follow its first o.
Part(w, o, s, n) ==
  s \in Seq(InboundFrames) /\ Len(s) = n /\ \A i \in 1..n : s[i] = w[o + i]

\* Two parts of a stream, one after the other.
LEMMA Join ==
  ASSUME NEW w, NEW s1, NEW s2, NEW m \in Nat, NEW n \in Nat,
         Part(w, 0, s1, m), Part(w, m, s2, n)
  PROVE  Part(w, 0, s1 \o s2, m + n)
<1>1. /\ s1 \in Seq(InboundFrames) /\ Len(s1) = m /\ \A i \in 1..m : s1[i] = w[0 + i]
      /\ s2 \in Seq(InboundFrames) /\ Len(s2) = n /\ \A i \in 1..n : s2[i] = w[m + i]
  BY DEF Part
<1>2. /\ s1 \o s2 \in Seq(InboundFrames) /\ Len(s1 \o s2) = m + n
      /\ \A i \in 1..(m + n) : (s1 \o s2)[i] = IF i <= m THEN s1[i] ELSE s2[i - m]
  <2>1. /\ s1 \o s2 \in Seq(InboundFrames)
        /\ Len(s1 \o s2) = Len(s1) + Len(s2)
        /\ \A i \in 1..(Len(s1) + Len(s2)) :
             (s1 \o s2)[i] = IF i <= Len(s1) THEN s1[i] ELSE s2[i - Len(s1)]
    BY <1>1, ConcatProperties, Zenon
  <2>2. QED
    BY <1>1, <2>1, Zenon
<1>3. ASSUME NEW i \in 1..(m + n) PROVE (s1 \o s2)[i] = w[0 + i]
  <2>1. CASE i <= m
    BY <1>1, <1>2, <2>1
  <2>2. CASE ~ (i <= m)
    <3>1. i - m \in 1..n /\ m + (i - m) = 0 + i
      BY <2>2
    <3>2. (s1 \o s2)[i] = s2[i - m]
      BY <1>2, <2>2
    <3>3. QED
      BY <1>1, <3>1, <3>2
  <2>3. QED
    BY <2>1, <2>2
<1>4. QED
  BY <1>2, <1>3, Zenon DEF Part

\* The worker script's queue and the two ports: whatever arrives before the
\* factory resolves, while the queue is drained or after it, the image sees the
\* container's frames in the order they were sent, and until something dies each
\* of the others is still on its way.
THEOREM PipeInOrder == VariantSpec => []FramesInOrder
<1>1. ASSUME VInv PROVE FramesInOrder
  <2> DEFINE d == Len(delivered)
             p == Len(pending)
             q == Len(port)
             t == Len(toPage)
  <2>1. Typed /\ Prefix /\ InPipe /\ delivered \in Seq(InboundFrames)
    BY <1>1 DEF VInv, IInv, TypeOK
  <2>2. /\ sent \in Seq(InboundFrames) /\ pending \in Seq(InboundFrames)
        /\ port \in Seq(InboundFrames) /\ toPage \in Seq(InboundFrames)
    BY <2>1, FramesAssumption DEF Typed, FramesAssumption
  <2>3. d \in Nat /\ p \in Nat /\ q \in Nat /\ t \in Nat /\ Len(sent) \in Nat
    BY <1>1, Lengths
  <2>4. d <= Len(sent) /\ \A i \in 1..d : delivered[i] = sent[i]
    BY <2>1 DEF Prefix
  <2>5. \E n \in 0..Len(sent) : delivered = SubSeq(sent, 1, n)
    <3>1. \A i \in 1..d : sent[i] \in InboundFrames
      BY <2>2, <2>3, <2>4
    <3>2. /\ SubSeq(sent, 1, d) \in Seq(InboundFrames) /\ Len(SubSeq(sent, 1, d)) = d
          /\ \A i \in 1..d : SubSeq(sent, 1, d)[i] = sent[i]
      BY <2>3, <3>1, SubSeqProperties
    <3>3. delivered = SubSeq(sent, 1, d)
      BY <2>1, <2>4, <3>2, SeqEqual
    <3>4. d \in 0..Len(sent)
      BY <2>3, <2>4
    <3>5. QED
      BY <3>3, <3>4
  <2>6. ASSUME deathBy = "nothing" PROVE delivered \o pending \o port \o toPage = sent
    <3>1. /\ Len(sent) = d + p + q + t
          /\ \A i \in 1..p : pending[i] = sent[d + i]
          /\ \A i \in 1..q : port[i] = sent[d + p + i]
          /\ \A i \in 1..t : toPage[i] = sent[d + p + q + i]
      BY <2>1, <2>6 DEF InPipe
    <3>2. Part(sent, 0, delivered, d)
      BY <2>1, <2>3, <2>4 DEF Part
    <3>3. /\ Part(sent, d, pending, p) /\ Part(sent, d + p, port, q)
          /\ Part(sent, d + p + q, toPage, t)
      BY <2>2, <3>1 DEF Part
    <3>4. d + p \in Nat /\ d + p + q \in Nat
      BY <2>3
    <3>5. Part(sent, 0, delivered \o pending \o port \o toPage, d + p + q + t)
      <4> HIDE DEF d, p, q, t
      <4>1. Part(sent, 0, delivered \o pending, d + p)
        BY <2>3, <3>2, <3>3, Join
      <4>2. Part(sent, 0, delivered \o pending \o port, d + p + q)
        BY <2>3, <3>3, <3>4, <4>1, Join
      <4>3. QED
        BY <2>3, <3>3, <3>4, <4>2, Join
    <3>6. QED
      <4> DEFINE all == delivered \o pending \o port \o toPage
      <4>1. /\ all \in Seq(InboundFrames) /\ Len(all) = Len(sent)
            /\ \A i \in 1..Len(all) : all[i] = sent[0 + i]
        BY <3>1, <3>5 DEF Part
      <4> HIDE DEF all
      <4>2. \A i \in 1..Len(all) : all[i] = sent[i]
        BY <2>3, <4>1
      <4>3. all = sent
        BY <2>2, <4>1, <4>2, SeqEqual
      <4>4. QED
        BY <4>3 DEF all
  <2>7. QED
    BY <2>5, <2>6 DEF FramesInOrder
<1>2. QED
  BY <1>1, VariantInvariance, PTL

\* authorized() behind the whole pipe: a credential sent before a call shuts the
\* door to it, however long both wait in the queues on the way.
THEOREM DoorIsSafeEndToEnd == VariantSpec => []DoorHoldsEndToEnd
<1>1. ASSUME VInv PROVE DoorHoldsEndToEnd
  <2>1. Prefix /\ DoorHolds /\ Numbered
    BY <1>1 DEF VInv, IInv
  <2>2. Len(delivered) \in Nat
    BY <1>1, Lengths
  <2>3. ASSUME NEW d \in dispatched
        PROVE  \/ GrantedBefore(sent, d.id) = {}
               \/ sent[d.id].auth \in GrantedBefore(sent, d.id)
    <3>1. d.id \in 1..Len(delivered)
      BY <2>1 DEF Numbered
    <3>2. \A j \in 1..(d.id - 1) : sent[j] = delivered[j]
      BY <2>1, <2>2, <3>1 DEF Prefix
    <3>3. \A t : Grants(sent, d.id, t) = Grants(delivered, d.id, t)
      BY <3>2 DEF Grants
    <3>4. GrantedBefore(sent, d.id) = GrantedBefore(delivered, d.id)
      BY <3>3 DEF GrantedBefore
    <3>5. sent[d.id] = delivered[d.id]
      BY <2>1, <3>1 DEF Prefix
    <3>6. QED
      BY <2>1, <3>4, <3>5 DEF DoorHolds
  <2>4. QED
    BY <2>3 DEF DoorHoldsEndToEnd
<1>2. QED
  BY <1>1, VariantInvariance, PTL

\* reportDeath(): its two routes close the channel once between them, and only
\* for an image or a Worker that died.
THEOREM DeathsReportedOnce == VariantSpec => []OneReportPerDeath
<1>1. ASSUME VInv PROVE OneReportPerDeath
  <2>1. Deaths /\ reported \in BOOLEAN
    BY <1>1 DEF VInv, Typed
  <2>2. QED
    BY <2>1 DEF Deaths, OneReportPerDeath
<1>2. QED
  BY <1>1, VariantInvariance, PTL
-----------------------------------------------------------------------------
(* What arrives of each kind of message.                                   *)

\* p is a prefix of w, both sequences over S.
PrefixOf(p, w, S) ==
  /\ p \in Seq(S) /\ w \in Seq(S) /\ Len(p) <= Len(w)
  /\ \A i \in 1..Len(p) : p[i] = w[i]

\* Such a prefix is the subsequence of its length.
LEMMA PrefixIsSubSeq ==
  ASSUME NEW S, NEW p, NEW w, PrefixOf(p, w, S)
  PROVE  Len(p) \in 0..Len(w) /\ p = SubSeq(w, 1, Len(p))
<1>1. p \in Seq(S) /\ w \in Seq(S) /\ Len(p) \in Nat /\ Len(w) \in Nat /\ Len(p) <= Len(w)
  BY DEF PrefixOf
<1>2. \A i \in 1..Len(p) : w[i] \in S
  BY <1>1
<1>3. /\ SubSeq(w, 1, Len(p)) \in Seq(S) /\ Len(SubSeq(w, 1, Len(p))) = Len(p)
      /\ \A i \in 1..Len(p) : SubSeq(w, 1, Len(p))[i] = w[i]
  BY <1>1, <1>2, SubSeqProperties
<1>4. \A i \in 1..Len(p) : p[i] = SubSeq(w, 1, Len(p))[i]
  BY <1>3 DEF PrefixOf
<1>5. p = SubSeq(w, 1, Len(p))
  BY <1>1, <1>3, <1>4, SeqEqual
<1>6. QED
  BY <1>1, <1>5

\* The messages of some kinds in a prefix are a prefix of those in the whole.
LEMMA OfKindPrefix ==
  ASSUME NEW S, NEW s \in Seq(S), NEW n \in 0..Len(s), NEW kinds
  PROVE  PrefixOf(OfKind(SubSeq(s, 1, n), kinds), OfKind(s, kinds), S)
<1> DEFINE p == SubSeq(s, 1, n)
           K == {i \in DOMAIN s : s[i].kind \in kinds}
           J == {i \in DOMAIN p : p[i].kind \in kinds}
<1>1. /\ p \in Seq(S) /\ DOMAIN p = 1..n /\ DOMAIN s = 1..Len(s) /\ Len(s) \in Nat
      /\ n \in Nat /\ n <= Len(s) /\ \A i \in 1..n : p[i] = s[i]
  OBVIOUS
<1> HIDE DEF p
<1>2. \A i \in DOMAIN p : i \in K <=> i \in J
  BY <1>1
<1>3. OfKind(p, kinds) = SelectAt(p, J) /\ OfKind(s, kinds) = SelectAt(s, K)
  BY DEF OfKind
<1> HIDE DEF K, J
<1>4. SelectAt(p, J) = SelectAt(p, K)
  BY <1>1, <1>2, SelectSame
<1>5. SelectAt(p, K) = Taken(s, K)[n]
  BY SelectPrefix DEF p
<1>6. /\ Taken(s, K)[n] \in Seq(S) /\ SelectAt(s, K) \in Seq(S)
      /\ Len(Taken(s, K)[n]) <= Len(SelectAt(s, K))
      /\ \A i \in 1..Len(Taken(s, K)[n]) : Taken(s, K)[n][i] = SelectAt(s, K)[i]
  BY TakenGrows
<1>7. QED
  BY <1>3, <1>4, <1>5, <1>6 DEF PrefixOf, p

\* The messages of some kinds in a prefix longer by one.
LEMMA OfKindNext ==
  ASSUME NEW S, NEW s \in Seq(S), NEW n \in 0..Len(s), n < Len(s), NEW kinds
  PROVE  OfKind(SubSeq(s, 1, n + 1), kinds) =
           IF s[n + 1].kind \in kinds
           THEN Append(OfKind(SubSeq(s, 1, n), kinds), s[n + 1])
           ELSE OfKind(SubSeq(s, 1, n), kinds)
<1>1. /\ SubSeq(s, 1, n) \in Seq(S) /\ s[n + 1] \in S
      /\ SubSeq(s, 1, n + 1) = Append(SubSeq(s, 1, n), s[n + 1])
  <2>1. /\ SubSeq(s, 1, n) \in Seq(S) /\ Len(SubSeq(s, 1, n)) = n /\ s[n + 1] \in S
        /\ \A i \in 1..n : SubSeq(s, 1, n)[i] = s[i]
    OBVIOUS
  <2>2. /\ SubSeq(s, 1, n + 1) \in Seq(S) /\ Len(SubSeq(s, 1, n + 1)) = n + 1
        /\ \A i \in 1..(n + 1) : SubSeq(s, 1, n + 1)[i] = s[i]
    OBVIOUS
  <2> DEFINE p == SubSeq(s, 1, n)
             q == SubSeq(s, 1, n + 1)
             r == Append(p, s[n + 1])
  <2> HIDE DEF p, q
  <2>3. /\ r \in Seq(S) /\ Len(r) = n + 1 /\ \A i \in 1..n : r[i] = s[i]
        /\ r[n + 1] = s[n + 1]
    BY <2>1, AppendFacts DEF p
  <2> HIDE DEF r
  <2>4. \A i \in 1..Len(q) : q[i] = r[i]
    BY <2>2, <2>3 DEF q
  <2>5. q = r
    BY <2>2, <2>3, <2>4, SeqEqual DEF q
  <2>6. QED
    BY <2>1, <2>5 DEF p, q, r
<1> DEFINE p == SubSeq(s, 1, n)
           x == s[n + 1]
<1>2. p \in Seq(S) /\ x \in S
  BY <1>1
<1> HIDE DEF p, x
<1>3. OfKind(Append(p, x), kinds) =
        IF x.kind \in kinds THEN Append(OfKind(p, kinds), x) ELSE OfKind(p, kinds)
  BY <1>2, OfKindAppend
<1>4. QED
  BY <1>1, <1>3, Zenon DEF p, x

\* The first messages of a stream are the same in one that extends it.
LEMMA SameStart ==
  ASSUME NEW S, NEW s \in Seq(S), NEW t \in Seq(S), NEW n \in 0..Len(s), Len(s) <= Len(t),
         \A i \in DOMAIN s : i \in DOMAIN t /\ t[i] = s[i]
  PROVE  SubSeq(t, 1, n) = SubSeq(s, 1, n)
<1>1. n \in Nat /\ n <= Len(s) /\ Len(s) \in Nat /\ Len(t) \in Nat /\ DOMAIN s = 1..Len(s)
  OBVIOUS
<1>2. \A i \in 1..n : s[i] \in S /\ t[i] \in S /\ t[i] = s[i]
  BY <1>1
<1>3. /\ SubSeq(s, 1, n) \in Seq(S) /\ Len(SubSeq(s, 1, n)) = n
      /\ \A i \in 1..n : SubSeq(s, 1, n)[i] = s[i]
  BY <1>1, <1>2, SubSeqProperties
<1>4. /\ SubSeq(t, 1, n) \in Seq(S) /\ Len(SubSeq(t, 1, n)) = n
      /\ \A i \in 1..n : SubSeq(t, 1, n)[i] = t[i]
  BY <1>1, <1>2, SubSeqProperties
<1>5. \A i \in 1..Len(SubSeq(t, 1, n)) : SubSeq(t, 1, n)[i] = SubSeq(s, 1, n)[i]
  BY <1>2, <1>3, <1>4
<1>6. QED
  BY <1>3, <1>4, <1>5, SeqEqual

\* What the page has taken from the port and what the container received of it.
Arrivals ==
  /\ received = OfKind(SubSeq(posted, 1, taken), Transport)
  /\ OfKind(received, {"Result"}) = OfKind(SubSeq(posted, 1, taken), {"Result"})

\* The page takes the messages of the port one by one.
LEMMA TakenCases ==
  ASSUME VInv, VariantNext
  PROVE  \/ UNCHANGED <<taken, received>>
         \/ PageTakes
<1>1. CASE PageStarts \/ PageRelays \/ PageOnError
  BY <1>1, Zenon DEF PageStarts, PageRelays, PageOnError, containerVars, pageVars
<1>2. CASE \/ WorkerQueues \/ DrainEnds \/ FactoryResolves
          \/ GlueThrows \/ EngineKills \/ LateCallbackThrows
  BY <1>2, Zenon DEF WorkerQueues, DrainEnds, FactoryResolves, GlueThrows, EngineKills,
     LateCallbackThrows,
                     containerVars, pageVars
<1>3. CASE \E f \in Frames : ContainerSends(f)
  BY <1>3, Zenon DEF ContainerSends, pageVars
<1>4. CASE Fails
  BY <1>4, FailsEffect DEF FailsAs, pageVars
<1>5. CASE ImageRuns
  BY <1>5, ImageRunsEffect DEF outerVars, containerVars, pageVars
<1>6. CASE WorkerDelivers \/ Drain
  BY <1>6, HandedOver DEF containerVars, pageVars
<1>7. QED
  BY <1>1, <1>2, <1>3, <1>4, <1>5, <1>6, StepCases DEF Outer, PageStep

\* The container has received exactly what the page relays of what it took.
LEMMA ArrivalsStep == ASSUME VInv, Arrivals, VariantNext PROVE Arrivals'
<1>1. /\ posted \in Seq(PostedFrames) /\ posted' \in Seq(PostedFrames)
      /\ taken \in 0..Len(posted) /\ Len(posted) <= Len(posted') /\ Len(posted) \in Nat
      /\ \A i \in DOMAIN posted : i \in DOMAIN posted' /\ posted'[i] = posted[i]
      /\ received \in Seq(PostedFrames)
  BY ImageKept DEF VInv, IInv, TypeOK, Typed
<1>2. SubSeq(posted', 1, taken) = SubSeq(posted, 1, taken)
  BY <1>1, SameStart
<1>3. CASE UNCHANGED <<taken, received>>
  BY <1>2, <1>3 DEF Arrivals
<1>4. CASE PageTakes
  <2> DEFINE m == posted[taken + 1]
             p == SubSeq(posted, 1, taken)
  <2>1. /\ taken < Len(posted) /\ taken' = taken + 1 /\ UNCHANGED posted
        /\ \/ m.kind \in Transport /\ received' = Append(received, m)
           \/ m.kind \notin Transport /\ UNCHANGED received
    BY <1>4 DEF PageTakes, hostVars, IsTransport, Transport
  <2>2. m \in PostedFrames
    BY <1>1, <2>1
  <2>3. \A kinds : OfKind(SubSeq(posted', 1, taken'), kinds) =
                     IF m.kind \in kinds THEN Append(OfKind(p, kinds), m) ELSE OfKind(p, kinds)
    BY <1>1, <2>1, OfKindNext
  <2>4. /\ received = OfKind(p, Transport)
        /\ OfKind(received, {"Result"}) = OfKind(p, {"Result"})
    BY DEF Arrivals
  <2> HIDE DEF m, p
  <2>5. OfKind(Append(received, m), {"Result"}) =
          IF m.kind \in {"Result"} THEN Append(OfKind(received, {"Result"}), m)
          ELSE OfKind(received, {"Result"})
    BY <1>1, <2>2, OfKindAppend
  <2>6. received' = OfKind(SubSeq(posted', 1, taken'), Transport)
    BY <2>1, <2>3, <2>4
  <2>7. OfKind(received', {"Result"}) = OfKind(SubSeq(posted', 1, taken'), {"Result"})
    <3>1. CASE m.kind \in Transport /\ received' = Append(received, m)
      BY <2>3, <2>4, <2>5, <3>1
    <3>2. CASE m.kind \notin Transport /\ UNCHANGED received
      <4>1. m.kind \notin {"Result"}
        BY <3>2 DEF Transport
      <4>2. QED
        BY <2>3, <2>4, <3>2, <4>1
    <3>3. QED
      BY <2>1, <3>1, <3>2
  <2>8. QED
    BY <2>6, <2>7 DEF Arrivals
<1>5. QED
  BY <1>3, <1>4, TakenCases

\* An image that died in a frame: it said so last of all, nothing else tells of
\* it, and the page closes the channel only when it has read that.
Framed == deathBy = "frame" =>
  /\ phase = "dead" /\ trapped /\ ~errorEvent
  /\ Len(posted) > 0
  /\ \A i \in 1..Len(posted) : posted[i].kind = "Trap" => i = Len(posted)
  /\ reported => taken = Len(posted)

\* A trap in a frame is the last thing the image's port carries, and nothing
\* after it changes what the page will read there.
LEMMA FramedStep == ASSUME VInv, Framed, VariantNext PROVE Framed'
<1>1. /\ Typed /\ Deaths /\ TypeOK /\ Stages
      /\ Len(posted) \in Nat /\ DOMAIN posted = 1..Len(posted)
  BY DEF VInv, IInv, TypeOK
<1>2. CASE PageStarts \/ PageRelays \/ WorkerQueues \/ DrainEnds \/ FactoryResolves
           \/ \E f \in Frames : ContainerSends(f)
  <2>1. /\ UNCHANGED <<hostVars, deathBy, errorEvent, reported, taken>>
        /\ trapped' = trapped
    BY <1>2, Zenon DEF PageStarts, PageRelays, WorkerQueues, DrainEnds, FactoryResolves,
                       ContainerSends, pageVars, workerVars, envVars
  <2>2. QED
    BY <2>1 DEF Framed, hostVars
<1>3. CASE PageTakes
  <2>1. /\ UNCHANGED <<hostVars, deathBy, errorEvent, trapped>> /\ ~reported
        /\ taken < Len(posted) /\ taken' = taken + 1
        /\ UNCHANGED reported \/ posted[taken + 1].kind = "Trap"
    BY <1>3 DEF PageTakes, workerVars
  <2>2. UNCHANGED <<phase, posted>>
    BY <2>1 DEF hostVars
  <2>3. taken + 1 \in 1..Len(posted)
    BY <1>1, <2>1 DEF Typed
  <2>4. QED
    BY <2>1, <2>2, <2>3 DEF Framed
<1>4. CASE PageOnError
  <2>1. errorEvent /\ UNCHANGED deathBy
    BY <1>4 DEF PageOnError
  <2>2. QED
    BY <2>1 DEF Framed
<1>5. CASE GlueThrows \/ EngineKills \/ LateCallbackThrows \/ TrapInTimer \/ TrapInMain
  BY <1>5 DEF GlueThrows, EngineKills, LateCallbackThrows, TrapInTimer, TrapInMain, Framed
<1>6. CASE FactoryRejects
  <2>1. phase = "loading" /\ UNCHANGED deathBy
    BY <1>6 DEF FactoryRejects, envVars
  <2>2. QED
    BY <2>1 DEF Framed
<1>7. CASE TrapInFrame
  <2>1. /\ WorkerAlive /\ running \in {"call", "callback"} /\ phase' = "dead"
        /\ trapped' = TRUE /\ Post([kind |-> "Trap"]) /\ UNCHANGED <<errorEvent, reported>>
    BY <1>7 DEF TrapInFrame, Trap, pageVars
  <2>2. deathBy = "nothing"
    BY <1>1, <2>1, AliveServes DEF Stages
  <2>3. ~errorEvent /\ ~reported /\ \A i \in DOMAIN posted : posted[i].kind # "Trap"
    BY <1>1, <2>2 DEF Deaths
  <2>4. [kind |-> "Trap"] \in PostedFrames
    BY DEF PostedFrames
  <2>5. /\ Len(posted') = Len(posted) + 1
        /\ \A i \in 1..Len(posted) : posted'[i] = posted[i]
    BY <1>1, <2>1, <2>4, PostNext
  <2>6. \A i \in 1..Len(posted') : posted'[i].kind = "Trap" => i = Len(posted')
    <3>1. ASSUME NEW i \in 1..Len(posted'), i # Len(posted')
          PROVE  posted'[i].kind # "Trap"
      <4>1. i \in 1..Len(posted)
        BY <1>1, <2>5, <3>1
      <4>2. QED
        BY <1>1, <2>3, <2>5, <4>1
    <3>2. QED
      BY <3>1
  <2>7. Len(posted') > 0
    BY <1>1, <2>5
  <2>8. QED
    BY <2>1, <2>3, <2>6, <2>7 DEF Framed
<1>8. CASE ImageRuns
  <2>1. deathBy = "nothing" /\ UNCHANGED deathBy
    BY <1>8, ImageRunsEffect DEF outerVars, envVars
  <2>2. QED
    BY <2>1 DEF Framed
<1>9. CASE WorkerDelivers \/ Drain
  <2>1. UNCHANGED <<deathBy, errorEvent, reported, taken>>
    BY <1>9, HandedOver DEF envVars, pageVars
  <2>2. deathBy = "frame" => UNCHANGED <<hostVars, trapped>>
    BY <1>9, HandedOver DEF Framed, Mute, Live
  <2>3. QED
    BY <2>1, <2>2 DEF Framed, hostVars
<1>10. QED
  BY <1>2, <1>3, <1>4, <1>5, <1>6, <1>7, <1>8, <1>9, StepCases DEF Outer, PageStep, Fails

\* Nothing has been delivered before the image serves, nor where it never came up.
Unserved ==
  /\ phase \in {"loading", "main"} => delivered = <<>>
  /\ factory = "rejected" => phase \in {"loading", "dead"} /\ delivered = <<>>

\* An image that is rejected has been delivered nothing and never will be.
LEMMA UnservedStep == ASSUME VInv, Unserved, VariantNext PROVE Unserved'
<1>1. Stages /\ TypeOK
  BY DEF VInv, IInv
<1>2. CASE Outer
  <2>1. UNCHANGED <<phase, delivered>>
    BY <1>2, OuterLeaves DEF hostVars
  <2>2. factory' = "rejected" => factory = "rejected"
    BY <1>2 DEF Outer, PageStep, PageStarts, PageRelays, PageTakes, PageOnError,
       WorkerQueues, DrainEnds, FactoryResolves, GlueThrows, EngineKills,
       LateCallbackThrows, ContainerSends,
       workerVars
  <2>3. QED
    BY <2>1, <2>2 DEF Unserved
<1>3. CASE FactoryRejects
  BY <1>3 DEF FactoryRejects, Unserved
<1>4. CASE TrapInMain
  <2>1. phase = "main" /\ phase' = "dead" /\ UNCHANGED delivered
    BY <1>1, <1>4 DEF TrapInMain, Trap, Stages
  <2>2. QED
    BY <2>1 DEF Unserved
<1>5. CASE TrapInFrame \/ TrapInTimer
  <2>1. phase = "serving" /\ phase' = "dead" /\ UNCHANGED <<delivered, factory>>
    BY <1>1, <1>5 DEF TrapInFrame, TrapInTimer, Trap, Stages, workerVars
  <2>2. QED
    BY <2>1 DEF Unserved
<1>6. CASE ImageRuns
  <2>1. UNCHANGED <<delivered, factory>>
    BY <1>6, ImageRunsEffect DEF outerVars, workerVars
  <2>2. phase' = phase \/ (phase = "loading" /\ phase' = "main" /\ factory = "running")
        \/ (phase = "main" /\ phase' = "serving")
    <3>1. CASE ImageMain
      BY <3>1 DEF ImageMain, Main
    <3>2. CASE ImageServes
      BY <1>1, <3>2 DEF ImageServes, MainServes, Stages
    <3>3. CASE ImageTimer
      BY <3>3 DEF ImageTimer, TimerFires
    <3>4. CASE ImageModuleCode
      BY <3>4 DEF ImageModuleCode, ModuleCode, Invoke, Emit, DispatchReturns, CallbackReturns
    <3>5. QED
      BY <1>6, <3>1, <3>2, <3>3, <3>4 DEF ImageRuns
  <2>3. QED
    BY <2>1, <2>2 DEF Unserved
<1>7. CASE WorkerDelivers \/ Drain
  <2>1. UNCHANGED factory
    BY <1>7, HandedOver
  <2>2. CASE Mute
    <3>1. UNCHANGED delivered /\ (phase' = phase \/ (phase = "dead" \/ running # "none"))
          /\ (phase' = phase \/ phase' = "dead")
      BY <2>2 DEF Mute, ScriptPosts, Trap, hostVars, unposted
    <3>2. QED
      BY <2>1, <3>1 DEF Unserved
  <2>3. CASE \E f \in Frames : Live(f)
    <3>1. phase = "serving" /\ phase' = phase
      BY <1>1, <2>3, Delivery DEF Live
    <3>2. QED
      BY <2>1, <3>1 DEF Unserved
  <2>4. QED
    BY <1>7, <2>2, <2>3, HandedOver
<1>8. QED
  BY <1>2, <1>3, <1>4, <1>5, <1>6, <1>7, StepCases DEF Fails

\* The steps of the worker script leave the streams of the image alone.
LEMMA ScriptPostStreams ==
  ASSUME IInv, Streams, NEW m \in Control, ScriptPosts(m) PROVE Streams'
<1>1. /\ UNCHANGED <<m_sinks, delivered, emits>>
      /\ \/ phase' = "dead" /\ running' = "none"
         \/ phase' = phase /\ running' = running
  BY DEF ScriptPosts, Trap, unposted, provider
<1>2. TypeOK /\ Post(m) /\ m \in PostedFrames /\ m.kind \notin {"Event"}
      /\ m.kind \notin {"Result"}
  BY DEF IInv, ScriptPosts, Control, PostedFrames
<1>3. OfKind(posted', {"Event"}) = OfKind(posted, {"Event"}) /\ Answered' = Answered
  BY <1>2, OfKindStays DEF Answered
<1>4. Sinks' /\ Heard' = Heard
  BY <1>1 DEF Streams, Sinks, Subscribed, Heard
<1>5. EventsOncePerSubscriber'
  BY <1>3, <1>4 DEF Streams, EventsOncePerSubscriber
<1>6. Answering'
  BY <1>1, <1>3 DEF Streams, Answering, Asked
<1>7. QED
  BY <1>4, <1>5, <1>6 DEF Streams

\* What is said of the messages of one kind, from the image to the container.
VStreams == Streams /\ Arrivals /\ Framed /\ Unserved

\* It holds at the start,
LEMMA VInitStreams == VariantInit => VStreams
<1> SUFFICES ASSUME VariantInit PROVE VStreams
  OBVIOUS
<1>1. Streams
  BY InitStreams DEF VariantInit
<1>2. posted = <<>> /\ delivered = <<>> /\ received = <<>> /\ taken = 0
      /\ deathBy = "nothing" /\ factory = "running"
  BY DEF VariantInit, Init
<1>3. Arrivals
  <2>1. SubSeq(posted, 1, taken) = <<>>
    BY <1>2
  <2>2. \A kinds : OfKind(<<>>, kinds) = <<>>
    BY SelectEmpty, Zenon DEF OfKind
  <2>3. QED
    BY <1>2, <2>1, <2>2 DEF Arrivals
<1>4. Framed /\ Unserved
  BY <1>2 DEF Framed, Unserved
<1>5. QED
  BY <1>1, <1>3, <1>4 DEF VStreams

\* and through every step.
LEMMA VStreamsStep == ASSUME VInv, VStreams, [VariantNext]_vars PROVE VStreams'
<1>1. IInv /\ Streams /\ Arrivals /\ Framed /\ Unserved
  BY DEF VInv, VStreams
<1>2. CASE VariantNext
  <2>1. Streams'
    BY <1>1, <1>2, ImageStep, StreamsStep, ScriptPostStreams
  <2>2. QED
    BY <1>1, <1>2, <2>1, ArrivalsStep, FramedStep, UnservedStep DEF VStreams
<1>3. CASE UNCHANGED vars
  <2>1. /\ UNCHANGED <<hostVars, received, reported, taken, trapped, factory>>
        /\ UNCHANGED <<errorEvent, deathBy>>
    BY <1>3 DEF vars, outerVars, containerVars, pageVars, workerVars, envVars
  <2>2. UNCHANGED <<posted, delivered, phase>>
    BY <2>1 DEF hostVars
  <2>3. Streams'
    BY <1>1, <2>1, StreamsStep
  <2>4. Arrivals' /\ Framed' /\ Unserved'
    BY <1>1, <2>1, <2>2 DEF Arrivals, Framed, Unserved
  <2>5. QED
    BY <2>3, <2>4 DEF VStreams
<1>4. QED
  BY <1>2, <1>3

\* Every reachable state has the pipe's invariant and that of its streams.
THEOREM StreamsInvariance == VariantSpec => [](VInv /\ VStreams)
<1>1. VariantInit => VInv /\ VStreams
  BY VInit, VInitStreams
<1>2. VInv /\ VStreams /\ [VariantNext]_vars => (VInv /\ VStreams)'
  BY VInductive, VStreamsStep
<1>3. QED
  BY <1>1, <1>2, PTL DEF VariantSpec

\* What the container receives is a prefix of what the image posted, however the
\* image dies; and the trap of a frame is posted behind what it follows, so when
\* no error event overtakes that message, the container has received everything
\* posted before it when the channel closes.
THEOREM AnswersArriveBeforeTrap == VariantSpec => []AnswersBeforeTrapArrive
<1>1. ASSUME VInv, VStreams PROVE AnswersBeforeTrapArrive
  <2> DEFINE w == OfKind(posted, Transport)
  <2>1. /\ posted \in Seq(PostedFrames) /\ taken \in 0..Len(posted)
        /\ received = OfKind(SubSeq(posted, 1, taken), Transport)
        /\ closes > 0 => reported
    BY <1>1 DEF VInv, VStreams, IInv, TypeOK, Typed, Arrivals, Deaths
  <2>2. PrefixOf(received, w, PostedFrames)
    BY <2>1, OfKindPrefix
  <2>3. Len(received) \in 0..Len(w) /\ received = SubSeq(w, 1, Len(received))
    BY <2>2, PrefixIsSubSeq
  <2>4. ASSUME closes > 0, deathBy = "frame" PROVE received = w
    <3>1. taken = Len(posted)
      BY <1>1, <2>1, <2>4 DEF VStreams, Framed
    <3>2. SubSeq(posted, 1, taken) = posted
      <4>1. PrefixOf(posted, posted, PostedFrames)
        BY <2>1 DEF PrefixOf
      <4>2. QED
        BY <3>1, <4>1, PrefixIsSubSeq
    <3>3. QED
      BY <2>1, <3>2
  <2> HIDE DEF w
  <2>5. \E n \in 0..Len(w) : received = SubSeq(w, 1, n)
    BY <2>3
  <2>6. QED
    BY <2>4, <2>5 DEF AnswersBeforeTrapArrive, w
<1>2. QED
  BY <1>1, StreamsInvariance, PTL

-----------------------------------------------------------------------------
(* The refinement.                                                         *)

\* A prefix of a prefix is one.
LEMMA PrefixTransitive ==
  ASSUME NEW S, NEW p, NEW q, NEW r, PrefixOf(p, q, S), PrefixOf(q, r, S)
  PROVE  PrefixOf(p, r, S)
<1>1. Len(p) \in Nat /\ Len(q) \in Nat /\ Len(r) \in Nat
  BY DEF PrefixOf
<1>2. QED
  BY <1>1 DEF PrefixOf

\* The ids of a prefix are a prefix of the ids.
LEMMA PrefixIds ==
  ASSUME NEW S, NEW p, NEW w, PrefixOf(p, w, S), NEW T, \A x \in S : x.id \in T
  PROVE  PrefixOf(IdsOf(p), IdsOf(w), T)
<1>1. /\ p \in Seq(S) /\ w \in Seq(S) /\ Len(p) \in Nat /\ Len(w) \in Nat
      /\ Len(p) <= Len(w) /\ DOMAIN p = 1..Len(p) /\ DOMAIN w = 1..Len(w)
      /\ \A i \in 1..Len(p) : p[i] = w[i] /\ p[i] \in S
      /\ \A i \in 1..Len(w) : w[i] \in S
  BY DEF PrefixOf
<1>2. /\ IdsOf(p) \in Seq(T) /\ Len(IdsOf(p)) = Len(p)
      /\ \A i \in 1..Len(p) : IdsOf(p)[i] = p[i].id
  BY <1>1 DEF IdsOf
<1>3. /\ IdsOf(w) \in Seq(T) /\ Len(IdsOf(w)) = Len(w)
      /\ \A i \in 1..Len(w) : IdsOf(w)[i] = w[i].id
  BY <1>1 DEF IdsOf
<1>4. \A i \in 1..Len(p) : i \in 1..Len(w)
  BY <1>1
<1>5. QED
  BY <1>1, <1>2, <1>3, <1>4 DEF PrefixOf

IdSet == {f.id : f \in PostedFrames \cup InboundFrames}

\* The answers received are the first of the requests sent, whatever the image
\* has posted since and whatever is still on its way to it.
LEMMA AnswersFirst ==
  ASSUME NEW p \in Seq(PostedFrames), NEW n \in 0..Len(p), NEW r,
         NEW d \in Seq(InboundFrames), NEW s \in Seq(InboundFrames),
         OfKind(r, {"Result"}) = OfKind(SubSeq(p, 1, n), {"Result"}),
         PrefixOf(d, s, InboundFrames),
         \/ IdsOf(OfKind(p, {"Result"})) = IdsOf(OfKind(d, Requests))
         \/ IdsOf(OfKind(d, Requests)) = Append(IdsOf(OfKind(p, {"Result"})), Len(d))
  PROVE  PrefixOf(IdsOf(OfKind(r, {"Result"})), IdsOf(OfKind(s, Requests)), IdSet)
<1> DEFINE A == IdsOf(OfKind(p, {"Result"}))
           R == IdsOf(OfKind(d, Requests))
<1>1. /\ \A f \in PostedFrames : f.id \in IdSet
      /\ \A f \in InboundFrames : f.id \in IdSet
  BY DEF IdSet
<1>2. PrefixOf(IdsOf(OfKind(r, {"Result"})), A, IdSet)
  BY <1>1, OfKindPrefix, PrefixIds
<1>3. PrefixOf(R, IdsOf(OfKind(s, Requests)), IdSet)
  <2>1. Len(d) \in 0..Len(s) /\ d = SubSeq(s, 1, Len(d))
    BY PrefixIsSubSeq
  <2> DEFINE k == Len(d)
  <2> HIDE DEF k
  <2>2. PrefixOf(OfKind(SubSeq(s, 1, k), Requests), OfKind(s, Requests), InboundFrames)
    BY <2>1, OfKindPrefix DEF k
  <2>3. PrefixOf(OfKind(d, Requests), OfKind(s, Requests), InboundFrames)
    BY <2>1, <2>2, Zenon DEF k
  <2>4. QED
    BY <1>1, <2>3, PrefixIds
<1>4. PrefixOf(A, R, IdSet)
  <2>1. A \in Seq(IdSet) /\ R \in Seq(IdSet)
    BY <1>2, <1>3 DEF PrefixOf
  <2> HIDE DEF A, R
  <2>2. CASE A = R
    BY <2>1, <2>2 DEF PrefixOf
  <2>3. CASE R = Append(A, Len(d))
    <3> DEFINE T == IdSet \cup {Len(d)}
    <3>1. A \in Seq(T) /\ Len(d) \in T
      BY <2>1
    <3> HIDE DEF T
    <3>2. Len(R) = Len(A) + 1 /\ Len(A) \in Nat /\ \A i \in 1..Len(A) : R[i] = A[i]
      BY <2>3, <3>1, AppendFacts
    <3>3. QED
      BY <2>1, <3>2 DEF PrefixOf
  <2>4. QED
    BY <2>2, <2>3 DEF A, R
<1> HIDE DEF A, R
<1>5. QED
  BY <1>2, <1>3, <1>4, PrefixTransitive

\* What the container sees of the module.
Asks == IdsOf(OfKind(sent, Requests))
Gets == IdsOf(OfKind(received, {"Result"}))
State == IF closes > 0 THEN "closed" ELSE IF factory = "rejected" THEN "mute" ELSE "open"

GetsFirst == PrefixOf(Gets, Asks, IdSet)

\* The answers are the first of the requests now,
LEMMA GetsNow == ASSUME VInv, VStreams PROVE GetsFirst
<1>1. /\ posted \in Seq(PostedFrames) /\ taken \in 0..Len(posted)
      /\ delivered \in Seq(InboundFrames) /\ sent \in Seq(InboundFrames)
      /\ OfKind(received, {"Result"}) = OfKind(SubSeq(posted, 1, taken), {"Result"})
  BY FramesAssumption DEF VInv, VStreams, IInv, TypeOK, Typed, Arrivals, FramesAssumption
<1>2. PrefixOf(delivered, sent, InboundFrames)
  BY <1>1 DEF VInv, Prefix, PrefixOf
<1>3. \/ IdsOf(OfKind(posted, {"Result"})) = IdsOf(OfKind(delivered, Requests))
      \/ IdsOf(OfKind(delivered, Requests)) =
           Append(IdsOf(OfKind(posted, {"Result"})), Len(delivered))
  BY DEF VStreams, Streams, Answering, Asked, Answered
<1>4. QED
  BY <1>1, <1>2, <1>3, AnswersFirst DEF GetsFirst, Gets, Asks

\* and after a step.
LEMMA GetsNext == ASSUME VInv', VStreams' PROVE GetsFirst'
<1>1. /\ posted' \in Seq(PostedFrames) /\ taken' \in 0..Len(posted')
      /\ delivered' \in Seq(InboundFrames) /\ sent' \in Seq(InboundFrames)
      /\ OfKind(received', {"Result"}) = OfKind(SubSeq(posted', 1, taken'), {"Result"})
  BY FramesAssumption DEF VInv, VStreams, IInv, TypeOK, Typed, Arrivals, FramesAssumption
<1>2. PrefixOf(delivered', sent', InboundFrames)
  BY <1>1 DEF VInv, Prefix, PrefixOf
<1>3. \/ IdsOf(OfKind(posted', {"Result"})) = IdsOf(OfKind(delivered', Requests))
      \/ IdsOf(OfKind(delivered', Requests)) =
           Append(IdsOf(OfKind(posted', {"Result"})), Len(delivered'))
  BY DEF VStreams, Streams, Answering, Asked, Answered
<1>4. QED
  BY <1>1, <1>2, <1>3, AnswersFirst DEF GetsFirst, Gets, Asks

\* Before the image serves, no request has been answered.
LEMMA NothingYet ==
  ASSUME VInv, VStreams, phase \in {"loading", "main"} PROVE Gets = <<>>
<1> DEFINE K == {i \in DOMAIN received : received[i].kind \in {"Result"}}
<1>1. /\ delivered = <<>> /\ AnsweredInOrder /\ received \in Seq(PostedFrames)
      /\ \A i \in DOMAIN received : \E j \in DOMAIN posted : posted[j] = received[i]
  BY DEF VInv, VStreams, IInv, Typed, Replies, Unserved
<1>2. \A j \in DOMAIN posted : posted[j].kind # "Result"
  BY <1>1 DEF AnsweredInOrder
<1>3. \A i \in DOMAIN received \cap K : received[i] \in {}
  BY <1>1, <1>2
<1> HIDE DEF K
<1>4. SelectAt(received, K) \in Seq({})
  BY <1>1, <1>3, SelectType
<1>5. OfKind(received, {"Result"}) = SelectAt(received, K)
  BY DEF OfKind, K
<1>6. \A s \in Seq({}) : s = <<>>
  OBVIOUS
<1>7. OfKind(received, {"Result"}) = <<>>
  BY <1>4, <1>5, <1>6
<1>8. QED
  BY <1>7 DEF Gets, IdsOf

\* The step of the served module that a step of the variant is.
Asking == /\ State # "closed" /\ \E id \in Ids : Asks' = Append(Asks, id)
          /\ UNCHANGED <<Gets, State>>
Giving == /\ State = "open" /\ Len(Gets) < Len(Asks)
          /\ Gets' = Append(Gets, Asks[Len(Gets) + 1]) /\ UNCHANGED <<Asks, State>>
Muting == State = "open" /\ Gets = <<>> /\ State' = "mute" /\ UNCHANGED <<Asks, Gets>>
Dying == State # "closed" /\ State' = "closed" /\ UNCHANGED <<Asks, Gets>>
Unseen == UNCHANGED <<Asks, Gets, State>>

\* A step that sends, receives, closes and rejects nothing is not seen.
LEMMA SameView ==
  ASSUME UNCHANGED <<sent, received, closes>>,
         factory' = "rejected" <=> factory = "rejected"
  PROVE  Unseen
BY DEF Unseen, Asks, Gets, State

\* The container asks.
LEMMA SendSeen ==
  ASSUME VInv, NEW f \in Frames, ContainerSends(f) PROVE Asking \/ Unseen
<1>1. /\ sent \in Seq(InboundFrames) /\ f \in InboundFrames /\ f.id \in Ids
      /\ closes = 0 /\ sent' = Append(sent, f)
      /\ UNCHANGED <<received, closes, factory>>
  BY FrameFields, FramesAssumption DEF VInv, Typed, ContainerSends, pageVars, workerVars,
     FramesAssumption
<1> DEFINE s == OfKind(sent, Requests)
<1>2. OfKind(sent', Requests) = IF f.kind \in Requests THEN Append(s, f) ELSE s
  BY <1>1, OfKindAppend
<1>3. s \in Seq(InboundFrames)
  BY <1>1, OfKindType
<1> HIDE DEF s
<1>4. IdsOf(Append(s, f)) = Append(IdsOf(s), f.id)
  BY <1>1, <1>3, IdsAppend
<1>5. Asks = IdsOf(s)
  BY DEF Asks, s
<1>6. UNCHANGED <<Gets, State>> /\ State # "closed"
  BY <1>1 DEF Gets, State
<1>7. CASE f.kind \in Requests
  <2>1. Asks' = Append(Asks, f.id)
    BY <1>2, <1>4, <1>5, <1>7 DEF Asks
  <2>2. QED
    BY <1>1, <1>6, <2>1 DEF Asking
<1>8. CASE f.kind \notin Requests
  <2>1. Asks' = Asks
    BY <1>2, <1>5, <1>8 DEF Asks
  <2>2. QED
    BY <1>6, <2>1 DEF Unseen
<1>9. QED
  BY <1>7, <1>8

\* The page reports a death, once.
LEMMA DeathSeen ==
  ASSUME VInv, ReportDeath, UNCHANGED <<sent, received, factory>> PROVE Dying \/ Unseen
<1>1. /\ closes = IF reported THEN 1 ELSE 0
      /\ UNCHANGED closes \/ (~reported /\ closes' = closes + 1)
  BY DEF VInv, Deaths, ReportDeath
<1>2. UNCHANGED <<Asks, Gets>>
  BY DEF Asks, Gets
<1>3. CASE UNCHANGED closes
  BY <1>3, SameView
<1>4. CASE ~reported /\ closes' = closes + 1
  BY <1>1, <1>2, <1>4 DEF Dying, State
<1>5. QED
  BY <1>1, <1>3, <1>4

\* The page relays an answer, which is that of the next request, or something
\* else, or reads of a death.
LEMMA TakeSeen ==
  ASSUME VInv, VStreams, GetsFirst', PageTakes
  PROVE  Giving \/ Dying \/ Unseen
<1> DEFINE m == posted[taken + 1]
           r == OfKind(received, {"Result"})
<1>1. /\ taken + 1 \in DOMAIN posted /\ ~reported /\ UNCHANGED <<sent, factory>>
      /\ \/ received' = Append(received, m) /\ UNCHANGED closes
         \/ UNCHANGED <<received, closes>>
         \/ ReportDeath /\ UNCHANGED received
  BY DEF PageTakes, VInv, Typed, IInv, TypeOK, workerVars
<1>2. received \in Seq(PostedFrames) /\ m \in PostedFrames /\ closes = 0
  BY <1>1 DEF VInv, Typed, Deaths, IInv, TypeOK
<1>3. m.kind = "Result" => factory # "rejected"
  <2>1. m.kind = "Result" => delivered # <<>>
    <3>1. m.kind = "Result" => m.id \in DOMAIN delivered
      BY <1>1 DEF VInv, IInv, AnsweredInOrder
    <3>2. QED
      BY <3>1
  <2>2. QED
    BY <2>1 DEF VStreams, Unserved
<1>4. CASE received' = Append(received, m) /\ UNCHANGED closes
  <2>1. OfKind(received', {"Result"}) = IF m.kind \in {"Result"} THEN Append(r, m) ELSE r
    <3> HIDE DEF m
    <3>1. QED
      BY <1>2, <1>4, OfKindAppend
  <2>2. r \in Seq(PostedFrames)
    BY <1>2, OfKindType
  <2> HIDE DEF m, r
  <2>3. IdsOf(Append(r, m)) = Append(IdsOf(r), m.id)
    BY <1>2, <2>2, IdsAppend
  <2>4. Gets = IdsOf(r)
    BY DEF Gets, r
  <2>5. UNCHANGED <<Asks, State>>
    BY <1>1, <1>4 DEF Asks, State
  <2>6. CASE m.kind = "Result"
    <3>1. Gets' = Append(Gets, m.id)
      BY <2>1, <2>3, <2>4, <2>6 DEF Gets
    <3>2. Gets \in Seq({f.id : f \in PostedFrames}) /\ m.id \in {f.id : f \in PostedFrames}
      BY <1>2, <2>2, <2>4 DEF IdsOf
    <3>3. Len(Gets') = Len(Gets) + 1 /\ Len(Gets) \in Nat /\ Gets'[Len(Gets) + 1] = m.id
      BY <3>1, <3>2, AppendFacts
    <3>4. /\ Len(Gets') <= Len(Asks') /\ Asks' \in Seq(IdSet)
          /\ \A i \in 1..Len(Gets') : Gets'[i] = Asks'[i]
      BY DEF GetsFirst, PrefixOf
    <3>5. Len(Gets) < Len(Asks) /\ m.id = Asks[Len(Gets) + 1]
      BY <2>5, <3>3, <3>4
    <3>6. State = "open"
      BY <1>2, <1>3, <2>6 DEF State
    <3>7. QED
      BY <2>5, <3>1, <3>5, <3>6 DEF Giving
  <2>7. CASE m.kind # "Result"
    <3>1. Gets' = Gets
      BY <2>1, <2>4, <2>7 DEF Gets
    <3>2. QED
      BY <2>5, <3>1 DEF Unseen
  <2>8. QED
    BY <2>6, <2>7
<1>5. CASE UNCHANGED <<received, closes>>
  BY <1>1, <1>5, SameView
<1>6. CASE ReportDeath /\ UNCHANGED received
  BY <1>1, <1>6, DeathSeen
<1>7. QED
  BY <1>1, <1>4, <1>5, <1>6

\* An image that fails: only the factory's rejection is seen, and only where
\* nothing has been answered.
LEMMA FailureSeen ==
  ASSUME VInv, VStreams, Fails PROVE Muting \/ Unseen
<1>1. UNCHANGED <<sent, received, closes>> /\ UNCHANGED <<Asks, Gets>>
  BY FailsEffect DEF FailsAs, pageVars, Asks, Gets
<1>2. CASE factory' = "rejected" /\ factory # "rejected"
  <2>1. phase \in {"loading", "main"}
    <3>1. CASE FactoryRejects
      BY <3>1 DEF FactoryRejects
    <3>2. CASE TrapInMain
      BY <3>2 DEF TrapInMain, VInv, IInv, Stages
    <3>3. CASE TrapInFrame \/ TrapInTimer
      BY <1>2, <3>3 DEF TrapInFrame, TrapInTimer, workerVars
    <3>4. QED
      BY <3>1, <3>2, <3>3 DEF Fails
  <2>2. Gets = <<>>
    BY <2>1, NothingYet
  <2>3. QED
    BY <1>1, <1>2, <2>2 DEF Muting, Unseen, State
<1>3. CASE factory = "rejected"
  <2>1. factory' = "rejected"
    <3>1. phase \in {"loading", "dead"} /\ Stages
      BY <1>3 DEF VStreams, Unserved, VInv, IInv
    <3>2. QED
      BY <1>3, <3>1 DEF Fails, FactoryRejects, TrapInFrame, TrapInTimer, TrapInMain, Stages
  <2>2. QED
    BY <1>1, <1>3, <2>1, SameView
<1>4. CASE factory' # "rejected" /\ factory # "rejected"
  BY <1>1, <1>4, SameView
<1>5. QED
  BY <1>2, <1>3, <1>4

\* Every step of the variant is one of the served module, or is not seen.
LEMMA StepSeen ==
  ASSUME VInv, VStreams, GetsFirst', VariantNext
  PROVE  Asking \/ Giving \/ Muting \/ Dying \/ Unseen
<1>1. CASE \E f \in Frames : ContainerSends(f)
  BY <1>1, SendSeen
<1>2. CASE PageTakes
  BY <1>2, TakeSeen
<1>3. CASE PageOnError
  <2>1. ReportDeath /\ UNCHANGED <<sent, received, factory>>
    BY <1>3 DEF PageOnError, containerVars, workerVars
  <2>2. QED
    BY <2>1, DeathSeen
<1>4. CASE PageStarts \/ PageRelays \/ WorkerQueues \/ DrainEnds \/ FactoryResolves
           \/ GlueThrows \/ EngineKills \/ LateCallbackThrows
  <2>1. UNCHANGED <<sent, received, closes>>
    BY <1>4, Zenon DEF PageStarts, PageRelays, WorkerQueues, DrainEnds, FactoryResolves,
                       GlueThrows, EngineKills, LateCallbackThrows, containerVars, pageVars
  <2>2. factory' = "rejected" <=> factory = "rejected"
    BY <1>4 DEF PageStarts, PageRelays, WorkerQueues, DrainEnds, FactoryResolves,
                GlueThrows, EngineKills, LateCallbackThrows, workerVars
  <2>3. QED
    BY <2>1, <2>2, SameView
<1>5. CASE Fails
  BY <1>5, FailureSeen
<1>6. CASE ImageRuns
  <2>1. UNCHANGED <<sent, received, closes, factory>>
    BY <1>6, ImageRunsEffect DEF outerVars, containerVars, pageVars, workerVars
  <2>2. QED
    BY <2>1, SameView
<1>7. CASE WorkerDelivers \/ Drain
  <2>1. UNCHANGED <<sent, received, closes, factory>>
    BY <1>7, HandedOver DEF containerVars, pageVars
  <2>2. QED
    BY <2>1, SameView
<1>8. QED
  BY <1>1, <1>2, <1>3, <1>4, <1>5, <1>6, <1>7, StepCases DEF Outer, PageStep

\* The variant is a served module: its container's requests are answered one for
\* one and in order, nothing arrives once the channel is closed, and only a
\* module that never answered turns mute.
THEOREM VariantIsServedModule == VariantSpec => Abstract!Safety
<1>1. VariantInit => Abstract!Init
  <2> SUFFICES ASSUME VariantInit PROVE Abstract!Init
    OBVIOUS
  <2>1. sent = <<>> /\ received = <<>> /\ closes = 0 /\ factory = "running"
    BY DEF VariantInit
  <2>2. \A kinds : OfKind(<<>>, kinds) = <<>>
    BY SelectEmpty, Zenon DEF OfKind
  <2>3. QED
    BY <2>1, <2>2 DEF Abstract!Init, IdsOf
<1>2. ASSUME VInv, VStreams, VInv', VStreams', [VariantNext]_vars
      PROVE  [Abstract!Next]_(Abstract!vars)
  <2>1. CASE VariantNext
    <3>1. Asking \/ Giving \/ Muting \/ Dying \/ Unseen
      BY <1>2, <2>1, GetsNext, StepSeen
    <3>2. QED
      BY <3>1 DEF Asking, Giving, Muting, Dying, Unseen, Asks, Gets, State,
         Abstract!Next, Abstract!vars, Abstract!Ask, Abstract!Answer, Abstract!FailToLoad,
         Abstract!Die
  <2>2. CASE UNCHANGED vars
    <3>1. UNCHANGED <<sent, received, closes, factory>>
      BY <2>2 DEF vars, outerVars, containerVars, pageVars, workerVars
    <3>2. Unseen
      BY <3>1, SameView
    <3>3. QED
      BY <3>2 DEF Unseen, Asks, Gets, State, Abstract!vars
  <2>3. QED
    BY <1>2, <2>1, <2>2
<1>3. QED
  BY <1>1, <1>2, StreamsInvariance, PTL DEF VariantSpec, Abstract!Safety
=============================================================================
