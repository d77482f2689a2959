--------------------------- MODULE ViewHostProofs ---------------------------
(***************************************************************************)
(* The safety of a view's backend image with its page and its container,   *)
(* for every set of modules, tokens and frames and every bound.            *)
(*                                                                         *)
(* The properties relate a call to what was granted and answered at other  *)
(* times; the invariant follows it on its way: which request it was made   *)
(* for (Dispatched), where its frame is and that it is nowhere else        *)
(* (Known, Once), what precedes it to the container (Contracted), and what *)
(* was granted when it was made (Latest).                                  *)
(***************************************************************************)
EXTENDS ViewHost, TLAPS

\* The calls made and the requests still to be dispatched stay in the bound.
Lengths ==
  /\ Len(status) = Len(calls) /\ Len(settled) = Len(calls)
  /\ taken <= Len(calls)
  /\ Len(calls) + Len(requests) - taken <= MaxCalls

\* Every frame and arrival belongs to a call that was made, which was made
\* after the grants it counts.
Known ==
  /\ \A i \in 1..Len(toContainer) :
       toContainer[i].kind = "Call" => toContainer[i].id \in 1..Len(calls)
  /\ \A i \in 1..Len(toImage) :
       toImage[i].kind = "Result" => toImage[i].id \in 1..Len(calls)
  /\ \A a \in arrived : a.id \in 1..Len(calls)
  /\ \A n \in 1..Len(calls) : calls[n].grants <= Len(granted)

\* What a page that got so far has behind it.
Loaded ==
  /\ page \in {"bound", "installed"} => image = "up" /\ sink = HasContainer
  /\ Len(requests) > 0 => page = "installed"

\* A call made for a request is made for its target.
Dispatched ==
  \A n \in 1..Len(calls) : calls[n].request # Backend =>
    /\ calls[n].request \in 1..taken
    /\ requests[calls[n].request] = calls[n].target

\* The container has taken the contract or will before position i.
ContractBefore(i) ==
  registered \/ \E j \in 1..(i - 1) : toContainer[j].kind = "Contract"

\* The answered contract query precedes every call made as admitted.
Contracted ==
  /\ m_introspected => ContractBefore(Len(toContainer) + 1)
  /\ \A i \in 1..Len(toContainer) :
       toContainer[i].kind = "Call" /\ calls[toContainer[i].id].admitted
         => ContractBefore(i)

\* Token tok is the latest of the first n grants for t, or none was granted.
IsLatest(tok, t, n) ==
  \/ tok = NoToken /\ \A j \in 1..n : granted[j].module # t
  \/ \E j \in 1..n :
       /\ granted[j].module = t /\ granted[j].token = tok
       /\ \A k \in 1..n : granted[k].module = t => k <= j
Latest ==
  /\ \A t \in Targets : IsLatest(m_tokens[t], t, Len(granted))
  /\ \A n \in 1..Len(calls) : IsLatest(calls[n].auth, calls[n].target, calls[n].grants)

\* No frame of call n is on its way to the container or was.
Nowhere(n) ==
  /\ \A i \in 1..Len(toContainer) : toContainer[i].kind = "Call" => toContainer[i].id # n
  /\ \A a \in arrived : a.id # n

\* A call is in one place: a refused one nowhere, a sent one once on its way
\* or once arrived; and a Result carries what the container answered.
Once ==
  /\ \A i, j \in 1..Len(toContainer) :
       toContainer[i].kind = "Call" /\ toContainer[j].kind = "Call"
       /\ toContainer[i].id = toContainer[j].id => i = j
  /\ \A i \in 1..Len(toContainer) : \A a \in arrived :
       toContainer[i].kind = "Call" => toContainer[i].id # a.id
  /\ \A a, b \in arrived : a.id = b.id => a = b
  /\ \A n \in 1..Len(calls) : status[n] \in {"failing", "unsent"} => Nowhere(n)
  /\ \A i \in 1..Len(toImage) : toImage[i].kind = "Result" =>
       \E a \in arrived : a.id = toImage[i].id /\ a.answer = toImage[i].payload

\* A completed request has the outcome of its call, which is final.
Outcome ==
  \A r \in 1..Len(completed) : completed[r] # "none" =>
    \E n \in 1..Len(calls) :
      /\ calls[n].request = r /\ calls[n].target = requests[r] /\ settled[n] = 1
      /\ \/ completed[r] = "error" /\ Nowhere(n)
         \/ \E a \in arrived : a.id = n /\ a.answer = completed[r]

IInv ==
  /\ TypeOK /\ Lengths /\ Known /\ Loaded /\ Dispatched /\ Contracted /\ Latest
  /\ Once /\ Outcome /\ CallbackOnce
  /\ AdmittedCallsRecognised /\ ViewNeverRacesBridge

-----------------------------------------------------------------------------
(* Sequences and frames. *)

\* A stream with one more element.
LEMMA AppendFacts ==
  ASSUME NEW S, NEW s \in Seq(S), NEW e \in S
  PROVE  /\ Append(s, e) \in Seq(S)
         /\ Len(s) \in Nat /\ Len(Append(s, e)) = Len(s) + 1
         /\ DOMAIN s = 1..Len(s)
         /\ \A i \in 1..Len(s) : Append(s, e)[i] = s[i] /\ s[i] \in S
         /\ Append(s, e)[Len(s) + 1] = e
OBVIOUS

\* A stream without its first element.
LEMMA TailFacts ==
  ASSUME NEW S, NEW s \in Seq(S), s # <<>>
  PROVE  /\ Tail(s) \in Seq(S) /\ Len(s) \in Nat /\ Len(s) >= 1
         /\ Len(Tail(s)) = Len(s) - 1
         /\ \A i \in 1..(Len(s) - 1) : Tail(s)[i] = s[i + 1]
         /\ Head(s) = s[1] /\ s[1] \in S
OBVIOUS

\* A stream with one element replaced.
LEMMA ExceptFacts ==
  ASSUME NEW S, NEW s \in Seq(S), NEW n, NEW e \in S
  PROVE  /\ [s EXCEPT ![n] = e] \in Seq(S) /\ Len([s EXCEPT ![n] = e]) = Len(s)
         /\ \A i \in 1..Len(s) : [s EXCEPT ![n] = e][i] = IF i = n THEN e ELSE s[i]
<1> DEFINE t == [s EXCEPT ![n] = e]
<1>1. s \in [1..Len(s) -> S] /\ Len(s) \in Nat /\ DOMAIN s = 1..Len(s)
  OBVIOUS
<1>2. t \in [1..Len(s) -> S] /\ \A i \in 1..Len(s) : t[i] = IF i = n THEN e ELSE s[i]
  BY <1>1, Zenon
<1> HIDE DEF t
<1>3. t \in Seq(S)
  BY <1>1, <1>2
<1>4. Len(t) = Len(s)
  BY <1>1, <1>2
<1> QED
  BY <1>2, <1>3, <1>4 DEF t

\* A call at the container with its answer.
LEMMA AnswerFields ==
  ASSUME NEW a \in Arrivals, NEW payload \in Payloads
  PROVE  /\ [a EXCEPT !.answer = payload] \in Arrivals
         /\ [a EXCEPT !.answer = payload].id = a.id
         /\ [a EXCEPT !.answer = payload].recognised = a.recognised
         /\ [a EXCEPT !.answer = payload].answer = payload
BY DEF Arrivals

\* What the frames of the container carry.
LEMMA FrameFields ==
  ASSUME NEW f \in Frames
  PROVE  /\ f \in InFrames /\ f \in ContainerFrames /\ f.kind # "Result"
BY ViewAssumption DEF ViewAssumption, ContainerFrames, InFrames

\* What a frame on its way to the image carries, by its kind.
LEMMA InFields ==
  ASSUME NEW f \in InFrames
  PROVE  /\ f.kind = "Token" => f.module \in Targets /\ f.token \in Tokens \cup {NoToken}
                                /\ (f.token # NoToken => f \in Grants)
         /\ f.kind = "Result" => f.id \in Ids /\ f.payload \in Payloads
BY DEF InFrames, ContainerFrames, Grants

\* What a frame on its way to the container carries, by its kind.
LEMMA OutFields ==
  ASSUME NEW f \in OutFrames
  PROVE  /\ f.kind \in {"Contract", "Refused", "Call"}
         /\ f.kind = "Call" => f.id \in Ids
BY DEF OutFrames

-----------------------------------------------------------------------------
(* Initially. *)

\* The image has made, sent and been granted nothing yet.
THEOREM InitInv == Init => IInv
<1> SUFFICES ASSUME Init PROVE IInv
  OBVIOUS
<1>1. TypeOK
  <2>1. m_tokens \in [Targets -> Tokens \cup {NoToken}]
    BY DEF Init
  <2>2. frames \in 0..MaxFrames
    BY ViewAssumption DEF Init, ViewAssumption
  <2>3. \A S : <<>> \in Seq(S)
    OBVIOUS
  <2>4. Len(<<>>) = 0
    OBVIOUS
  <2>5. taken \in 0..Len(requests) /\ Len(completed) = Len(requests)
    BY <2>4 DEF Init
  <2>6. {sink, m_admitted, m_introspected, registered} \subseteq BOOLEAN
    BY Zenon DEF Init
  <2> HIDE DEF Ids
  <2>7. /\ requests \in Seq(Targets \cup {Empty})
        /\ completed \in Seq(Payloads \cup {"none"})
        /\ calls \in Seq(CallType)
        /\ status \in Seq({"failing", "unsent", "waiting", "done"})
        /\ settled \in Seq(Nat)
        /\ toImage \in Seq(InFrames)
        /\ toContainer \in Seq(OutFrames)
        /\ granted \in Seq(Grants)
    BY <2>3, Zenon DEF Init
  <2>8. arrived \subseteq Arrivals
    BY Zenon DEF Init
  <2>9. /\ page \in {"loading", "bound", "installed", "failed"}
        /\ image \in {"absent", "constructing", "up"}
    BY DEF Init
  <2> QED
    BY <2>1, <2>2, <2>5, <2>6, <2>7, <2>8, <2>9, Zenon DEF TypeOK
<1>2. Lengths /\ Known /\ Loaded /\ Dispatched /\ Contracted /\ Once /\ Outcome
  BY ViewAssumption DEF Init, Lengths, Known, Loaded, Dispatched, Contracted, Once, Outcome,
         ViewAssumption
<1>3. Latest
  BY DEF Init, Latest, IsLatest
<1>4. CallbackOnce /\ AdmittedCallsRecognised /\ ViewNeverRacesBridge
  BY DEF Init, CallbackOnce, AdmittedCallsRecognised, ViewNeverRacesBridge
<1> QED
  BY <1>1, <1>2, <1>3, <1>4, Zenon DEF IInv

-----------------------------------------------------------------------------
(* The steps, with what the proofs need of each. *)

\* Nothing but the page and its images moves, or nothing at all.
PageMoves ==
  /\ UNCHANGED <<handlerVars, callVars, toImage, toContainer, containerVars>>
  /\ page' \in {"loading", "bound", "installed", "failed"}
  /\ image' \in {"absent", "constructing", "up"}
  /\ sink' \in BOOLEAN

\* Call n + 1 is made for request `by` and gets status st.
Record(by, target) ==
  [request |-> by, target |-> target,
   auth |-> IF target = Empty THEN NoToken ELSE m_tokens[target],
   grants |-> Len(granted), admitted |-> hostAdmitted]
Made(by, target, st) ==
  /\ calls' = Append(calls, Record(by, target))
  /\ settled' = Append(settled, 0)
  /\ st \in {"failing", "unsent", "waiting"} /\ (st = "unsent" => ~sink)
  /\ status' = Append(status, st)
  /\ toContainer' = IF st = "waiting"
       THEN Append(toContainer, [kind |-> "Call", id |-> Len(calls) + 1]) ELSE toContainer
  /\ by \in {Backend} \cup Ids /\ target \in Targets \cup {Empty}
  /\ \/ by = Backend /\ taken' = taken
     \/ /\ taken < Len(requests) /\ by = taken + 1 /\ taken' = by /\ target = requests[by]
  /\ Len(calls) + 1 + Len(requests) - taken' <= MaxCalls
  /\ UNCHANGED <<loaderVars, handlerVars, requests, completed, toImage, containerVars>>

\* A step is one of these.
StepCases ==
  \/ PageMoves
  \/ \E by \in {Backend} \cup Ids, target \in Targets \cup {Empty},
        st \in {"failing", "unsent", "waiting"} : Made(by, target, st)
  \/ \E t \in Called : ViewRequests(t)
  \/ \E n \in 1..Len(status) : FailLater(n)
  \/ OnCall \/ OnMethods \/ OnToken \/ OnResult
  \/ \E f \in Frames : ContainerSends(f)
  \/ ContainerTakes
  \/ \E a \in arrived, payload \in Payloads : ContainerAnswers(a, payload)

\* callModuleAsync makes one call, refused, unsent or waiting.
LEMMA MadeCase ==
  ASSUME TypeOK, Lengths, NEW by \in {Backend} \cup Ids, NEW target \in Targets \cup {Empty},
         Call(by, target),
         \/ by = Backend /\ taken' = taken
         \/ taken < Len(requests) /\ by = taken + 1 /\ taken' = by /\ target = requests[by],
         Len(calls) + 1 + Len(requests) - taken' <= MaxCalls
  PROVE  \E st \in {"failing", "unsent", "waiting"} : Made(by, target, st)
<1> DEFINE st == IF ~canCallModules \/ target = Empty THEN "failing"
                 ELSE IF canCallModules /\ target # Empty /\ channelSends
                 THEN "waiting" ELSE "unsent"
<1>1. st \in {"failing", "unsent", "waiting"} /\ (st = "unsent" => ~sink)
  BY DEF channelSends
<1>2. (st = "waiting") <=> (canCallModules /\ target # Empty /\ channelSends)
  OBVIOUS
<1>3. status' = Append(status, st)
  BY DEF Call
<1>4. /\ calls' = Append(calls, Record(by, target)) /\ settled' = Append(settled, 0)
      /\ UNCHANGED <<loaderVars, handlerVars, requests, completed, toImage, containerVars>>
  BY DEF Call, Record
<1>5. toContainer' = IF st = "waiting"
       THEN Append(toContainer, [kind |-> "Call", id |-> Len(calls) + 1]) ELSE toContainer
  BY <1>2 DEF Call
<1> HIDE DEF st
<1> QED
  BY <1>1, <1>3, <1>4, <1>5 DEF Made

\* The actions of the specification fall under those cases.
LEMMA NextCases ==
  ASSUME TypeOK, Lengths, [Next]_vars
  PROVE  StepCases
<1>1. CASE UNCHANGED vars
  BY <1>1, Zenon DEF vars, StepCases, PageMoves, TypeOK, handlerVars, callVars, viewVars, containerVars
<1>2. CASE PageStep \/ LoadFails
  <2>0. HasContainer \in BOOLEAN /\ sink \in BOOLEAN
    BY ViewAssumption DEF ViewAssumption, TypeOK
  <2>1. PageMoves
    BY <1>2, <2>0 DEF PageStep, LoadFails, StartImage, MainServes, Bind, InstallView, PageMoves,
       TypeOK, loaderVars
  <2> QED
    BY <2>1 DEF StepCases
<1>3. ASSUME NEW t \in Called, BackendCalls(t)
      PROVE  StepCases
  <2>1. /\ t \in Targets \cup {Empty} /\ Backend \in {Backend} \cup Ids
        /\ Call(Backend, t) /\ taken' = taken
    BY <1>3, ViewAssumption DEF BackendCalls, ViewAssumption
  <2>2. Len(calls) + 1 + Len(requests) - taken' <= MaxCalls
    BY <1>3, <2>1, ViewAssumption DEF BackendCalls, TypeOK, ViewAssumption
  <2> QED
    BY <2>1, <2>2, MadeCase DEF StepCases
<1>4. ASSUME dispatchModuleCall
      PROVE  StepCases
  <2>1. /\ taken < Len(requests) /\ taken \in Nat /\ Len(requests) \in Nat
        /\ taken' = taken + 1 /\ Call(taken + 1, requests[taken + 1])
        /\ requests \in Seq(Targets \cup {Empty}) /\ Len(calls) \in Nat
        /\ taken <= Len(calls) /\ Len(calls) + Len(requests) - taken <= MaxCalls
        /\ MaxCalls \in Nat
    BY <1>4, ViewAssumption DEF dispatchModuleCall, TypeOK, Lengths, ViewAssumption
  <2>2. requests[taken + 1] \in Targets \cup {Empty} /\ taken + 1 \in Ids
    BY <2>1 DEF Ids
  <2>3. Len(calls) + 1 + Len(requests) - taken' <= MaxCalls
    BY <2>1
  <2> QED
    BY <2>1, <2>2, <2>3, MadeCase DEF StepCases
<1>5. CASE FailStep
  <2>1. DOMAIN status = 1..Len(status)
    BY DEF TypeOK
  <2> QED
    BY <1>5, <2>1 DEF FailStep, StepCases
<1>6. CASE ImageStep \/ AnswerStep
  BY <1>6, Zenon DEF ImageStep, AnswerStep, StepCases
<1>7. CASE \E t \in Called : ViewRequests(t)
  BY <1>7, Zenon DEF StepCases
<1>8. CASE \E f \in Frames : ContainerSends(f)
  BY <1>8, Zenon DEF StepCases
<1> QED
  BY <1>1, <1>2, <1>3, <1>4, <1>5, <1>6, <1>7, <1>8, Zenon DEF Next
-----------------------------------------------------------------------------
(* Types and bounds. *)

\* What a call carries when it is made.
LEMMA RecordType ==
  ASSUME TypeOK, NEW by \in {Backend} \cup Ids, NEW target \in Targets \cup {Empty}
  PROVE  Record(by, target) \in CallType
<1>1. m_tokens \in [Targets -> Tokens \cup {NoToken}] /\ Len(granted) \in Nat
  BY DEF TypeOK
<1>2. hostAdmitted \in BOOLEAN
  BY DEF hostAdmitted, canCallModules
<1>3. (IF target = Empty THEN NoToken ELSE m_tokens[target]) \in Tokens \cup {NoToken}
  BY <1>1
<1> QED
  BY <1>1, <1>2, <1>3 DEF Record, CallType

\* A step keeps the types and the numbering of the calls in its bound.
LEMMA TypeNext == TypeOK /\ Lengths /\ Known /\ [Next]_vars => TypeOK' /\ Lengths'
<1> SUFFICES ASSUME TypeOK, Lengths, Known, StepCases PROVE TypeOK' /\ Lengths'
  BY NextCases
<1>0. /\ MaxCalls \in Nat /\ MaxFrames \in Nat /\ Len(calls) \in Nat /\ Len(requests) \in Nat
      /\ taken \in Nat /\ taken <= Len(requests) /\ Ids = 1..MaxCalls
      /\ Len(calls) <= MaxCalls
  BY ViewAssumption DEF ViewAssumption, TypeOK, Lengths, Ids
<1>1. CASE PageMoves
  BY <1>1 DEF PageMoves, TypeOK, Lengths, handlerVars, callVars, viewVars, containerVars
<1>2. ASSUME NEW by \in {Backend} \cup Ids, NEW target \in Targets \cup {Empty},
             NEW st \in {"failing", "unsent", "waiting"}, Made(by, target, st)
      PROVE  TypeOK' /\ Lengths'
  <2>1. Record(by, target) \in CallType
    BY RecordType
  <2>2. /\ calls' \in Seq(CallType) /\ Len(calls') = Len(calls) + 1
        /\ status' \in Seq({"failing", "unsent", "waiting", "done"})
        /\ Len(status') = Len(status) + 1
        /\ settled' \in Seq(Nat) /\ Len(settled') = Len(settled) + 1
    BY <1>2, <2>1 DEF Made, TypeOK
  <2>3. Len(calls) + 1 \in Ids /\ taken' \in 0..Len(requests) /\ taken' <= Len(calls) + 1
    BY <1>0, <1>2 DEF Made, Lengths
  <2>4. toContainer' \in Seq(OutFrames)
    <3>1. [kind |-> "Call", id |-> Len(calls) + 1] \in OutFrames
      BY <2>3 DEF OutFrames
    <3>2. toContainer \in Seq(OutFrames)
      BY DEF TypeOK
    <3>3. \A e \in OutFrames : Append(toContainer, e) \in Seq(OutFrames)
      BY <3>2
    <3> QED
      BY <1>2, <3>1, <3>2, <3>3 DEF Made
  <2>5. UNCHANGED <<page, image, sink, m_tokens, m_admitted, m_introspected, granted,
                    requests, completed, toImage, frames, registered, arrived>>
    BY <1>2 DEF Made, loaderVars, handlerVars, containerVars
  <2>6. Lengths'
    BY <1>0, <1>2, <2>2, <2>3, <2>5 DEF Lengths, Made
  <2>7. TypeOK'
    BY <2>2, <2>3, <2>4, <2>5 DEF TypeOK
  <2> QED
    BY <2>6, <2>7
<1>3. ASSUME NEW t \in Called, ViewRequests(t)
      PROVE  TypeOK' /\ Lengths'
  <2>1. t \in Targets \cup {Empty}
    BY ViewAssumption DEF ViewAssumption
  <2>2. /\ requests' \in Seq(Targets \cup {Empty}) /\ Len(requests') = Len(requests) + 1
        /\ completed' \in Seq(Payloads \cup {"none"})
        /\ Len(completed') = Len(completed) + 1
    BY <1>3, <2>1 DEF ViewRequests, TypeOK
  <2>3. UNCHANGED <<page, image, sink, m_tokens, m_admitted, m_introspected, granted, calls,
           status, settled, taken, toImage, toContainer, frames, registered, arrived>>
    BY <1>3 DEF ViewRequests, loaderVars, handlerVars, containerVars
  <2>4. Lengths'
    BY <1>0, <1>3, <2>2, <2>3 DEF Lengths, ViewRequests
  <2>5. taken' \in 0..Len(requests')
    BY <1>0, <2>2, <2>3
  <2>6. TypeOK'
    BY <2>2, <2>3, <2>5 DEF TypeOK
  <2> QED
    BY <2>4, <2>6
<1>4. ASSUME NEW n \in 1..Len(calls), NEW payload \in Payloads, Settle(n, payload),
             UNCHANGED <<loaderVars, handlerVars, calls, viewVars, toContainer, containerVars>>,
             toImage' \in Seq(InFrames)
      PROVE  TypeOK' /\ Lengths'
  <2>1. /\ status' \in Seq({"failing", "unsent", "waiting", "done"})
        /\ Len(status') = Len(status)
    <3>1. /\ status \in Seq({"failing", "unsent", "waiting", "done"})
          /\ status' = [status EXCEPT ![n] = "done"]
      BY <1>4 DEF Settle, TypeOK
    <3> QED
      BY <3>1, ExceptFacts
  <2>2. settled' \in Seq(Nat) /\ Len(settled') = Len(settled)
    <3>1. settled \in Seq(Nat) /\ settled' = [settled EXCEPT ![n] = settled[n] + 1]
      BY <1>4 DEF Settle, TypeOK
    <3>2. settled[n] + 1 \in Nat
      BY <3>1 DEF Lengths
    <3> QED
      BY <3>1, <3>2, ExceptFacts
  <2>3. completed' \in Seq(Payloads \cup {"none"}) /\ Len(completed') = Len(completed)
    <3>1. /\ completed \in Seq(Payloads \cup {"none"}) /\ payload \in Payloads \cup {"none"}
          /\ \/ completed' = completed
             \/ completed' = [completed EXCEPT ![calls[n].request] = payload]
      BY <1>4 DEF Settle, Complete, TypeOK
    <3> QED
      BY <3>1, ExceptFacts
  <2>4. UNCHANGED <<page, image, sink, m_tokens, m_admitted, m_introspected, granted, calls,
           requests, taken, toContainer, frames, registered, arrived>>
    BY <1>4 DEF loaderVars, handlerVars, viewVars, containerVars
  <2>5. Lengths'
    BY <2>1, <2>2, <2>4 DEF Lengths
  <2>6. TypeOK'
    BY <1>4, <2>1, <2>2, <2>3, <2>4 DEF TypeOK
  <2> QED
    BY <2>5, <2>6
<1>5. ASSUME NEW n \in 1..Len(status), FailLater(n)
      PROVE  TypeOK' /\ Lengths'
  <2>1. n \in 1..Len(calls) /\ "error" \in Payloads
    BY DEF Lengths, Payloads
  <2>2. /\ Settle(n, "error") /\ toImage' \in Seq(InFrames)
        /\ UNCHANGED <<loaderVars, handlerVars, calls, viewVars, toContainer, containerVars>>
    BY <1>5 DEF FailLater, TypeOK
  <2> QED
    BY <1>4, <2>1, <2>2
<1>6. CASE OnCall \/ OnMethods \/ OnToken \/ OnResult
  <2>1. /\ toImage # <<>> /\ toImage' = Tail(toImage) /\ toImage \in Seq(InFrames)
        /\ toContainer \in Seq(OutFrames)
    BY <1>6 DEF OnCall, OnMethods, OnToken, OnResult, Take, TypeOK
  <2>2. toImage' \in Seq(InFrames) /\ Head(toImage) \in InFrames
    BY <2>1
  <2>3. \A e \in OutFrames : Append(toContainer, e) \in Seq(OutFrames)
    BY <2>1
  <2>4. [kind |-> "Refused"] \in OutFrames /\ [kind |-> "Contract"] \in OutFrames
    BY DEF OutFrames
  <2>5. CASE OnCall
    <3>1. /\ toContainer' \in Seq(OutFrames)
          /\ UNCHANGED <<loaderVars, handlerVars, callVars, containerVars>>
      BY <2>3, <2>4, <2>5 DEF OnCall
    <3> QED
      BY <2>2, <3>1 DEF TypeOK, Lengths, loaderVars, handlerVars, callVars, viewVars,
         containerVars
  <2>6. CASE OnMethods
    <3>1. /\ toContainer' \in Seq(OutFrames) /\ m_introspected' \in BOOLEAN
          /\ UNCHANGED <<loaderVars, m_tokens, m_admitted, granted, callVars, containerVars>>
      BY <2>3, <2>4, <2>6 DEF OnMethods, TypeOK
    <3> QED
      BY <2>2, <3>1 DEF TypeOK, Lengths, loaderVars, callVars, viewVars, containerVars
  <2>7. CASE OnToken
    <3>1. /\ m_tokens' \in [Targets -> Tokens \cup {NoToken}]
          /\ m_admitted' \in BOOLEAN /\ granted' \in Seq(Grants)
      <4>1. /\ m_tokens \in [Targets -> Tokens \cup {NoToken}]
            /\ m_admitted \in BOOLEAN /\ granted \in Seq(Grants)
        BY DEF TypeOK
      <4>2. CASE Head(toImage).token = NoToken
        BY <2>7, <4>1, <4>2 DEF OnToken
      <4>3. CASE Head(toImage).token # NoToken
        <5>1. /\ Head(toImage).kind = "Token"
              /\ m_tokens' = [m_tokens EXCEPT ![Head(toImage).module] = Head(toImage).token]
              /\ m_admitted' = TRUE /\ granted' = Append(granted, Head(toImage))
          BY <2>7, <4>3 DEF OnToken, Take
        <5>2. Head(toImage).token \in Tokens \cup {NoToken} /\ Head(toImage) \in Grants
          BY <2>2, <4>3, <5>1, InFields
        <5>3. granted' \in Seq(Grants)
          BY <4>1, <5>1, <5>2
        <5>4. m_tokens' \in [Targets -> Tokens \cup {NoToken}]
          BY <4>1, <5>1, <5>2, Zenon
        <5> QED
          BY <5>1, <5>3, <5>4
      <4> QED
        BY <4>2, <4>3
    <3>2. UNCHANGED <<loaderVars, m_introspected, callVars, toContainer, containerVars>>
      BY <2>7 DEF OnToken
    <3> QED
      BY <2>2, <3>1, <3>2 DEF TypeOK, Lengths, loaderVars, callVars, viewVars, containerVars
  <2>8. CASE OnResult
    <3>1. /\ Head(toImage).kind = "Result"
          /\ UNCHANGED <<loaderVars, handlerVars, calls, viewVars, toContainer, containerVars>>
      BY <2>8 DEF OnResult, Take
    <3>2. CASE status[Head(toImage).id] = "waiting"
      <4>1. Head(toImage).id \in 1..Len(calls) /\ Head(toImage).payload \in Payloads
        <5>1. Head(toImage) = toImage[1] /\ 1 \in 1..Len(toImage)
          BY <2>1
        <5> QED
          BY <2>2, <3>1, <5>1, InFields DEF Known
      <4>2. Settle(Head(toImage).id, Head(toImage).payload)
        BY <2>8, <3>2 DEF OnResult
      <4> QED
        BY <1>4, <2>2, <3>1, <4>1, <4>2
    <3>3. CASE status[Head(toImage).id] # "waiting"
      <4>1. UNCHANGED <<status, settled, completed>>
        BY <2>8, <3>3 DEF OnResult
      <4> QED
        BY <2>2, <3>1, <4>1 DEF TypeOK, Lengths, loaderVars, handlerVars, viewVars,
           containerVars
    <3> QED
      BY <3>2, <3>3
  <2> QED
    BY <1>6, <2>5, <2>6, <2>7, <2>8
<1>7. ASSUME NEW f \in Frames, ContainerSends(f)
      PROVE  TypeOK' /\ Lengths'
  <2>1. f \in InFrames
    BY FrameFields
  <2>2. toImage' \in Seq(InFrames) /\ frames' \in 0..MaxFrames
    BY <1>0, <1>7, <2>1 DEF ContainerSends, TypeOK
  <2>3. UNCHANGED <<loaderVars, handlerVars, callVars, toContainer, registered, arrived>>
    BY <1>7 DEF ContainerSends
  <2> QED
    BY <2>2, <2>3 DEF TypeOK, Lengths, loaderVars, handlerVars, callVars, viewVars
<1>8. CASE ContainerTakes
  <2>1. toContainer # <<>> /\ toContainer \in Seq(OutFrames)
    BY <1>8 DEF ContainerTakes, TypeOK
  <2>2. Tail(toContainer) \in Seq(OutFrames) /\ Head(toContainer) \in OutFrames
    BY <2>1
  <2>3. arrived' \subseteq Arrivals
    <3>1. arrived \subseteq Arrivals /\ registered \in BOOLEAN
      BY DEF TypeOK
    <3>2. Head(toContainer).kind = "Call" =>
            [id |-> Head(toContainer).id, recognised |-> registered, answer |-> "none"]
              \in Arrivals
      BY <2>2, <3>1, OutFields DEF Arrivals
    <3> QED
      BY <1>8, <3>1, <3>2 DEF ContainerTakes
  <2>4. registered' \in BOOLEAN /\ toContainer' = Tail(toContainer)
    BY <1>8 DEF ContainerTakes, TypeOK
  <2>5. UNCHANGED <<loaderVars, handlerVars, callVars, toImage, frames>>
    BY <1>8 DEF ContainerTakes
  <2> QED
    BY <2>2, <2>3, <2>4, <2>5 DEF TypeOK, Lengths, loaderVars, handlerVars, callVars, viewVars
<1>9. ASSUME NEW a \in arrived, NEW payload \in Payloads, ContainerAnswers(a, payload)
      PROVE  TypeOK' /\ Lengths'
  <2>1. arrived \subseteq Arrivals /\ toImage \in Seq(InFrames)
    BY DEF TypeOK
  <2>2. [a EXCEPT !.answer = payload] \in Arrivals /\ a.id \in Ids
    BY <2>1, AnswerFields DEF Arrivals
  <2>3. [kind |-> "Result", id |-> a.id, payload |-> payload] \in InFrames
    BY <2>2 DEF InFrames
  <2>4. arrived' \subseteq Arrivals
    BY <1>9, <2>1, <2>2 DEF ContainerAnswers
  <2>5. toImage' \in Seq(InFrames)
    BY <1>9, <2>1, <2>3 DEF ContainerAnswers
  <2>6. UNCHANGED <<loaderVars, handlerVars, callVars, toContainer, frames, registered>>
    BY <1>9 DEF ContainerAnswers
  <2> QED
    BY <2>4, <2>5, <2>6 DEF TypeOK, Lengths, loaderVars, handlerVars, callVars, viewVars
<1> QED
  BY <1>1, <1>2, <1>3, <1>5, <1>6, <1>7, <1>8, <1>9, Zenon DEF StepCases
-----------------------------------------------------------------------------
(* What each step does to the streams, element by element. *)

\* A call made appends to the calls, and to the channel if it is sent.
LEMMA MadeFacts ==
  ASSUME TypeOK, Lengths, NEW by, NEW target, NEW st, Made(by, target, st)
  PROVE  /\ Len(calls) \in Nat /\ Len(calls') = Len(calls) + 1
         /\ \A m \in 1..Len(calls) :
              calls'[m] = calls[m] /\ status'[m] = status[m] /\ settled'[m] = settled[m]
         /\ calls'[Len(calls) + 1] = Record(by, target)
         /\ status'[Len(calls) + 1] = st /\ settled'[Len(calls) + 1] = 0
         /\ Len(toContainer) \in Nat
         /\ Len(toContainer') = IF st = "waiting" THEN Len(toContainer) + 1
                                ELSE Len(toContainer)
         /\ \A i \in 1..Len(toContainer) : toContainer'[i] = toContainer[i]
         /\ st = "waiting" => toContainer'[Len(toContainer) + 1]
                                = [kind |-> "Call", id |-> Len(calls) + 1]
         /\ UNCHANGED <<page, image, sink, m_tokens, m_admitted, m_introspected, granted,
                        requests, completed, toImage, frames, registered, arrived>>
<1>1. /\ by \in {Backend} \cup Ids /\ target \in Targets \cup {Empty}
      /\ st \in {"failing", "unsent", "waiting", "done"}
      /\ calls' = Append(calls, Record(by, target)) /\ settled' = Append(settled, 0)
      /\ status' = Append(status, st)
      /\ Len(calls) + 1 + Len(requests) - taken' <= MaxCalls
      /\ toContainer' = IF st = "waiting"
           THEN Append(toContainer, [kind |-> "Call", id |-> Len(calls) + 1]) ELSE toContainer
  BY DEF Made
<1>2. /\ calls \in Seq(CallType) /\ settled \in Seq(Nat) /\ toContainer \in Seq(OutFrames)
      /\ status \in Seq({"failing", "unsent", "waiting", "done"})
      /\ Len(status) = Len(calls) /\ Len(settled) = Len(calls)
  BY DEF TypeOK, Lengths
<1>3. Record(by, target) \in CallType /\ 0 \in Nat
  BY <1>1, RecordType
<1>4. /\ Len(calls) \in Nat /\ Len(calls') = Len(calls) + 1
      /\ \A m \in 1..Len(calls) : calls'[m] = calls[m]
      /\ calls'[Len(calls) + 1] = Record(by, target)
  BY <1>1, <1>2, <1>3, AppendFacts
<1>5. /\ \A m \in 1..Len(calls) : status'[m] = status[m]
      /\ status'[Len(calls) + 1] = st
  BY <1>1, <1>2, AppendFacts
<1>6. /\ \A m \in 1..Len(calls) : settled'[m] = settled[m]
      /\ settled'[Len(calls) + 1] = 0
  BY <1>1, <1>2, <1>3, AppendFacts
<1>7. /\ Len(toContainer) \in Nat
      /\ Len(toContainer') = IF st = "waiting" THEN Len(toContainer) + 1 ELSE Len(toContainer)
      /\ \A i \in 1..Len(toContainer) : toContainer'[i] = toContainer[i]
      /\ st = "waiting" => toContainer'[Len(toContainer) + 1]
                             = [kind |-> "Call", id |-> Len(calls) + 1]
  <2>1. CASE st = "waiting"
    <3> DEFINE e == [kind |-> "Call", id |-> Len(calls) + 1]
    <3>1. toContainer' = Append(toContainer, e)
      BY <1>1, <2>1
    <3> HIDE DEF e
    <3>2. /\ Len(Append(toContainer, e)) = Len(toContainer) + 1
          /\ \A i \in 1..Len(toContainer) : Append(toContainer, e)[i] = toContainer[i]
          /\ Append(toContainer, e)[Len(toContainer) + 1] = e
          /\ Len(toContainer) \in Nat
      BY <1>2
    <3> QED
      BY <2>1, <3>1, <3>2 DEF e
  <2>2. CASE st # "waiting"
    BY <1>1, <1>2, <2>2
  <2> QED
    BY <2>1, <2>2
<1>8. UNCHANGED <<page, image, sink, m_tokens, m_admitted, m_introspected, granted,
                  requests, completed, toImage, frames, registered, arrived>>
  BY DEF Made, loaderVars, handlerVars, containerVars
<1> QED
  BY <1>4, <1>5, <1>6, <1>7, <1>8

\* A callback that runs settles its call and its request, and no other.
LEMMA SettleFacts ==
  ASSUME TypeOK, Lengths, NEW n \in 1..Len(calls), NEW payload \in Payloads,
         Settle(n, payload)
  PROVE  /\ \A m \in 1..Len(calls) :
              /\ status'[m] = IF m = n THEN "done" ELSE status[m]
              /\ settled'[m] = IF m = n THEN settled[n] + 1 ELSE settled[m]
         /\ Len(completed') = Len(completed) /\ Len(completed) \in Nat
         /\ \A r \in 1..Len(completed) :
              completed'[r] = IF r = calls[n].request THEN payload ELSE completed[r]
<1>1. /\ status \in Seq({"failing", "unsent", "waiting", "done"}) /\ settled \in Seq(Nat)
      /\ completed \in Seq(Payloads \cup {"none"})
      /\ Len(status) = Len(calls) /\ Len(settled) = Len(calls)
  BY DEF TypeOK, Lengths
<1>2. /\ status' = [status EXCEPT ![n] = "done"]
      /\ settled' = [settled EXCEPT ![n] = settled[n] + 1]
      /\ completed' = IF calls[n].request = Backend THEN completed
                      ELSE [completed EXCEPT ![calls[n].request] = payload]
  BY DEF Settle, Complete
<1>3. settled[n] + 1 \in Nat /\ "done" \in {"failing", "unsent", "waiting", "done"}
  BY <1>1
<1>4. \A m \in 1..Len(calls) : status'[m] = IF m = n THEN "done" ELSE status[m]
  BY <1>1, <1>2, <1>3, ExceptFacts
<1>5. \A m \in 1..Len(calls) : settled'[m] = IF m = n THEN settled[n] + 1 ELSE settled[m]
  BY <1>1, <1>2, <1>3, ExceptFacts
<1>6. Len(completed) \in Nat
  BY <1>1
<1>7. CASE calls[n].request = Backend
  BY <1>2, <1>4, <1>5, <1>6, <1>7 DEF Backend
<1>8. CASE calls[n].request # Backend
  <2> DEFINE r0 == calls[n].request
  <2>1. completed' = [completed EXCEPT ![r0] = payload]
    BY <1>2, <1>8
  <2> HIDE DEF r0
  <2>2. payload \in Payloads \cup {"none"}
    OBVIOUS
  <2>3. /\ Len(completed') = Len(completed)
        /\ \A r \in 1..Len(completed) :
             completed'[r] = IF r = r0 THEN payload ELSE completed[r]
    BY <1>1, <2>1, <2>2, ExceptFacts
  <2> QED
    BY <1>4, <1>5, <1>6, <2>3 DEF r0
<1> QED
  BY <1>7, <1>8

\* The front of a queue is taken.
LEMMA TakeFacts ==
  ASSUME TypeOK, NEW kind, Take(kind)
  PROVE  /\ sink /\ Len(toImage) \in Nat /\ Len(toImage) >= 1
         /\ Len(toImage') = Len(toImage) - 1
         /\ \A i \in 1..(Len(toImage) - 1) : toImage'[i] = toImage[i + 1]
         /\ Head(toImage) = toImage[1] /\ toImage[1] \in InFrames /\ toImage[1].kind = kind
<1>1. /\ toImage \in Seq(InFrames) /\ toImage # <<>> /\ toImage' = Tail(toImage)
      /\ sink /\ Head(toImage).kind = kind
  BY DEF Take, TypeOK
<1> QED
  BY <1>1, TailFacts

\* The image answers a frame itself: the contract query or a refusal.
Replies ==
  /\ Take("Call") \/ Take("Methods")
  /\ \E e \in [kind : {"Refused", "Contract"}] :
       /\ toContainer' = Append(toContainer, e)
       /\ m_introspected' = (m_introspected \/ e.kind = "Contract")
  /\ UNCHANGED <<loaderVars, m_tokens, m_admitted, granted, callVars, containerVars>>

\* A refusal and a contract are replies.
LEMMA ReplyCase ==
  ASSUME TypeOK, OnCall \/ OnMethods
  PROVE  Replies
<1>0. m_introspected \in BOOLEAN
  BY DEF TypeOK
<1>1. CASE OnCall
  <2>1. [kind |-> "Refused"] \in [kind : {"Refused", "Contract"}]
    OBVIOUS
  <2>2. m_introspected' = (m_introspected \/ [kind |-> "Refused"].kind = "Contract")
    BY <1>0, <1>1 DEF OnCall, handlerVars
  <2> QED
    BY <1>1, <2>1, <2>2 DEF OnCall, Replies, handlerVars
<1>2. CASE OnMethods
  <2>1. CASE Head(toImage).object = ModuleName
    <3>1. [kind |-> "Contract"] \in [kind : {"Refused", "Contract"}]
      OBVIOUS
    <3>2. m_introspected' = (m_introspected \/ [kind |-> "Contract"].kind = "Contract")
      BY <1>0, <1>2, <2>1 DEF OnMethods
    <3> QED
      BY <1>2, <2>1, <3>1, <3>2 DEF OnMethods, Replies
  <2>2. CASE Head(toImage).object # ModuleName
    <3>1. [kind |-> "Refused"] \in [kind : {"Refused", "Contract"}]
      OBVIOUS
    <3>2. m_introspected' = (m_introspected \/ [kind |-> "Refused"].kind = "Contract")
      BY <1>0, <1>2, <2>2 DEF OnMethods
    <3> QED
      BY <1>2, <2>2, <3>1, <3>2 DEF OnMethods, Replies
  <2> QED
    BY <2>1, <2>2
<1> QED
  BY <1>1, <1>2

\* A reply takes one frame and sends one that is no call.
LEMMA ReplyFacts ==
  ASSUME TypeOK, Replies
  PROVE  /\ Len(toImage) \in Nat /\ Len(toImage) >= 1 /\ Len(toImage') = Len(toImage) - 1
         /\ \A i \in 1..(Len(toImage) - 1) : toImage'[i] = toImage[i + 1]
         /\ toImage[1].kind # "Result"
         /\ Len(toContainer) \in Nat /\ Len(toContainer') = Len(toContainer) + 1
         /\ \A i \in 1..Len(toContainer) : toContainer'[i] = toContainer[i]
         /\ toContainer'[Len(toContainer) + 1].kind # "Call"
         /\ m_introspected' => \/ m_introspected
                               \/ toContainer'[Len(toContainer) + 1].kind = "Contract"
         /\ UNCHANGED <<page, image, sink, m_tokens, m_admitted, granted, calls, status,
                        settled, requests, taken, completed, frames, registered, arrived>>
<1>1. PICK e \in [kind : {"Refused", "Contract"}] :
        /\ toContainer' = Append(toContainer, e)
        /\ m_introspected' = (m_introspected \/ e.kind = "Contract")
  BY DEF Replies
<1>2. toContainer \in Seq(OutFrames) /\ e \in OutFrames /\ e.kind # "Call"
  BY <1>1 DEF TypeOK, OutFrames
<1>3. /\ Len(toContainer) \in Nat /\ Len(toContainer') = Len(toContainer) + 1
      /\ \A i \in 1..Len(toContainer) : toContainer'[i] = toContainer[i]
      /\ toContainer'[Len(toContainer) + 1] = e
  BY <1>1, <1>2, AppendFacts
<1>4. /\ Len(toImage) \in Nat /\ Len(toImage) >= 1 /\ Len(toImage') = Len(toImage) - 1
      /\ \A i \in 1..(Len(toImage) - 1) : toImage'[i] = toImage[i + 1]
      /\ toImage[1].kind # "Result"
  <2>1. CASE Take("Call")
    BY <2>1, TakeFacts
  <2>2. CASE Take("Methods")
    BY <2>2, TakeFacts
  <2> QED
    BY <2>1, <2>2 DEF Replies
<1>5. UNCHANGED <<page, image, sink, m_tokens, m_admitted, granted, calls, status, settled,
                  requests, taken, completed, frames, registered, arrived>>
  BY DEF Replies, loaderVars, callVars, viewVars, containerVars
<1> QED
  BY <1>1, <1>2, <1>3, <1>4, <1>5

\* A Token frame is taken, and grants its token unless that is empty.
LEMMA TokenFacts ==
  ASSUME TypeOK, OnToken
  PROVE  /\ Len(toImage) \in Nat /\ Len(toImage) >= 1 /\ Len(toImage') = Len(toImage) - 1
         /\ \A i \in 1..(Len(toImage) - 1) : toImage'[i] = toImage[i + 1]
         /\ toImage[1].kind # "Result"
         /\ Len(granted) \in Nat
         /\ \/ UNCHANGED <<granted, m_tokens>>
            \/ \E f \in Grants :
                 /\ Len(granted') = Len(granted) + 1
                 /\ \A j \in 1..Len(granted) : granted'[j] = granted[j]
                 /\ granted'[Len(granted) + 1] = f
                 /\ m_tokens' = [m_tokens EXCEPT ![f.module] = f.token]
         /\ UNCHANGED <<page, image, sink, m_introspected, calls, status, settled, requests,
                        taken, completed, toContainer, frames, registered, arrived>>
<1>1. Take("Token")
  BY DEF OnToken
<1>2. /\ Len(toImage) \in Nat /\ Len(toImage) >= 1 /\ Len(toImage') = Len(toImage) - 1
      /\ \A i \in 1..(Len(toImage) - 1) : toImage'[i] = toImage[i + 1]
      /\ toImage[1].kind = "Token" /\ Head(toImage) \in InFrames
      /\ Head(toImage) = toImage[1]
  BY <1>1, TakeFacts
<1>3. UNCHANGED <<page, image, sink, m_introspected, calls, status, settled, requests,
                  taken, completed, toContainer, frames, registered, arrived>>
  BY DEF OnToken, loaderVars, callVars, viewVars, containerVars
<1>4. granted \in Seq(Grants) /\ Len(granted) \in Nat
  BY DEF TypeOK
<1>5. CASE Head(toImage).token = NoToken
  <2>1. UNCHANGED <<granted, m_tokens>>
    BY <1>5 DEF OnToken
  <2> QED
    BY <1>2, <1>3, <1>4, <2>1
<1>6. CASE Head(toImage).token # NoToken
  <2> DEFINE f == Head(toImage)
  <2>1. m_tokens' = [m_tokens EXCEPT ![f.module] = f.token] /\ granted' = Append(granted, f)
    BY <1>6 DEF OnToken
  <2>2. f \in Grants
    BY <1>2, <1>6, InFields
  <2> HIDE DEF f
  <2>3. /\ Len(granted') = Len(granted) + 1
        /\ \A j \in 1..Len(granted) : granted'[j] = granted[j]
        /\ granted'[Len(granted) + 1] = f
    BY <1>4, <2>1, <2>2, AppendFacts
  <2>4. \E g \in Grants :
          /\ Len(granted') = Len(granted) + 1
          /\ \A j \in 1..Len(granted) : granted'[j] = granted[j]
          /\ granted'[Len(granted) + 1] = g
          /\ m_tokens' = [m_tokens EXCEPT ![g.module] = g.token]
    BY <2>1, <2>2, <2>3
  <2> QED
    BY <1>2, <1>3, <1>4, <2>4
<1> QED
  BY <1>5, <1>6

\* A Result settles its call when the call waits for it, and is dropped otherwise.
LEMMA ResultFacts ==
  ASSUME TypeOK, Lengths, Known, OnResult
  PROVE  /\ Len(toImage) \in Nat /\ Len(toImage) >= 1 /\ Len(toImage') = Len(toImage) - 1
         /\ \A i \in 1..(Len(toImage) - 1) : toImage'[i] = toImage[i + 1]
         /\ toImage[1].kind = "Result"
         /\ toImage[1].id \in 1..Len(calls) /\ toImage[1].payload \in Payloads
         /\ \/ /\ status[toImage[1].id] = "waiting"
               /\ Settle(toImage[1].id, toImage[1].payload)
            \/ /\ status[toImage[1].id] # "waiting"
               /\ UNCHANGED <<status, settled, completed>>
         /\ UNCHANGED <<page, image, sink, m_tokens, m_admitted, m_introspected, granted,
                        calls, requests, taken, toContainer, frames, registered, arrived>>
<1>1. Take("Result")
  BY DEF OnResult
<1>2. /\ Len(toImage) \in Nat /\ Len(toImage) >= 1 /\ Len(toImage') = Len(toImage) - 1
      /\ \A i \in 1..(Len(toImage) - 1) : toImage'[i] = toImage[i + 1]
      /\ toImage[1].kind = "Result" /\ toImage[1] \in InFrames
      /\ Head(toImage) = toImage[1]
  BY <1>1, TakeFacts
<1>3. toImage[1].id \in 1..Len(calls) /\ toImage[1].payload \in Payloads
  BY <1>2, InFields DEF Known
<1>4. \/ /\ status[toImage[1].id] = "waiting"
         /\ Settle(toImage[1].id, toImage[1].payload)
      \/ /\ status[toImage[1].id] # "waiting"
         /\ UNCHANGED <<status, settled, completed>>
  BY <1>2 DEF OnResult
<1>5. UNCHANGED <<page, image, sink, m_tokens, m_admitted, m_introspected, granted,
                  calls, requests, taken, toContainer, frames, registered, arrived>>
  BY DEF OnResult, loaderVars, handlerVars, viewVars, containerVars
<1> QED
  BY <1>2, <1>3, <1>4, <1>5

\* A view's request is numbered and not completed.
LEMMA RequestFacts ==
  ASSUME TypeOK, NEW t \in Called, ViewRequests(t)
  PROVE  /\ Len(requests) \in Nat /\ Len(requests') = Len(requests) + 1
         /\ Len(completed) = Len(requests) /\ Len(completed') = Len(completed) + 1
         /\ \A r \in 1..Len(requests) :
              requests'[r] = requests[r] /\ completed'[r] = completed[r]
         /\ completed'[Len(completed) + 1] = "none" /\ page = "installed"
         /\ UNCHANGED <<page, image, sink, m_tokens, m_admitted, m_introspected, granted,
              calls, status, settled, taken, toImage, toContainer, frames, registered, arrived>>
<1>1. /\ requests \in Seq(Targets \cup {Empty}) /\ t \in Targets \cup {Empty}
      /\ completed \in Seq(Payloads \cup {"none"}) /\ "none" \in Payloads \cup {"none"}
      /\ requests' = Append(requests, t) /\ completed' = Append(completed, "none")
      /\ Len(completed) = Len(requests)
  BY ViewAssumption DEF ViewAssumption, ViewRequests, TypeOK
<1>2. /\ Len(requests) \in Nat /\ Len(requests') = Len(requests) + 1
      /\ \A r \in 1..Len(requests) : requests'[r] = requests[r]
  BY <1>1, AppendFacts
<1>3. /\ Len(completed') = Len(completed) + 1
      /\ \A r \in 1..Len(completed) : completed'[r] = completed[r]
      /\ completed'[Len(completed) + 1] = "none"
  BY <1>1, AppendFacts
<1>4. /\ page = "installed"
      /\ UNCHANGED <<page, image, sink, m_tokens, m_admitted, m_introspected, granted,
           calls, status, settled, taken, toImage, toContainer, frames, registered, arrived>>
  BY DEF ViewRequests, loaderVars, handlerVars, containerVars
<1> QED
  BY <1>1, <1>2, <1>3, <1>4

\* A posted failure settles a call that was never sent.
LEMMA FailFacts ==
  ASSUME TypeOK, Lengths, NEW n \in 1..Len(status), FailLater(n)
  PROVE  /\ n \in 1..Len(calls) /\ status[n] \in {"failing", "unsent"}
         /\ "error" \in Payloads /\ Settle(n, "error")
         /\ UNCHANGED <<page, image, sink, m_tokens, m_admitted, m_introspected, granted, calls,
              requests, taken, toImage, toContainer, frames, registered, arrived>>
BY DEF FailLater, Lengths, Payloads, loaderVars, handlerVars, viewVars, containerVars

\* A frame the container originates is no Result.
LEMMA SendFacts ==
  ASSUME TypeOK, NEW f \in Frames, ContainerSends(f)
  PROVE  /\ Len(toImage) \in Nat /\ Len(toImage') = Len(toImage) + 1
         /\ \A i \in 1..Len(toImage) : toImage'[i] = toImage[i]
         /\ toImage'[Len(toImage) + 1].kind # "Result"
         /\ UNCHANGED <<page, image, sink, m_tokens, m_admitted, m_introspected, granted, calls,
              status, settled, completed, requests, taken, toContainer, registered, arrived>>
<1>1. toImage \in Seq(InFrames) /\ f \in InFrames /\ f.kind # "Result"
  BY FrameFields DEF TypeOK
<1>2. toImage' = Append(toImage, f)
  BY DEF ContainerSends
<1>3. UNCHANGED <<page, image, sink, m_tokens, m_admitted, m_introspected, granted, calls,
              status, settled, completed, requests, taken, toContainer, registered, arrived>>
  BY DEF ContainerSends, loaderVars, handlerVars, callVars, viewVars
<1> QED
  BY <1>1, <1>2, <1>3, AppendFacts

\* The container takes a frame: a contract registers, a call arrives.
LEMMA ArriveFacts ==
  ASSUME TypeOK, ContainerTakes
  PROVE  /\ Len(toContainer) \in Nat /\ Len(toContainer) >= 1
         /\ Len(toContainer') = Len(toContainer) - 1
         /\ \A i \in 1..(Len(toContainer) - 1) : toContainer'[i] = toContainer[i + 1]
         /\ registered' = (registered \/ toContainer[1].kind = "Contract")
         /\ arrived' = IF toContainer[1].kind = "Call"
              THEN arrived \cup {[id |-> toContainer[1].id, recognised |-> registered,
                                  answer |-> "none"]}
              ELSE arrived
         /\ UNCHANGED <<page, image, sink, m_tokens, m_admitted, m_introspected, granted, calls,
              status, settled, completed, requests, taken, toImage, frames>>
<1>1. toContainer \in Seq(OutFrames) /\ toContainer # <<>> /\ toContainer' = Tail(toContainer)
  BY DEF ContainerTakes, TypeOK
<1>2. /\ Len(toContainer) \in Nat /\ Len(toContainer) >= 1
      /\ Len(toContainer') = Len(toContainer) - 1
      /\ \A i \in 1..(Len(toContainer) - 1) : toContainer'[i] = toContainer[i + 1]
      /\ Head(toContainer) = toContainer[1]
  BY <1>1, TailFacts
<1>3. UNCHANGED <<page, image, sink, m_tokens, m_admitted, m_introspected, granted, calls,
              status, settled, completed, requests, taken, toImage, frames>>
  BY DEF ContainerTakes, loaderVars, handlerVars, callVars, viewVars
<1>4. /\ registered' = (registered \/ toContainer[1].kind = "Contract")
      /\ arrived' = IF toContainer[1].kind = "Call"
           THEN arrived \cup {[id |-> toContainer[1].id, recognised |-> registered,
                               answer |-> "none"]}
           ELSE arrived
  BY <1>2 DEF ContainerTakes
<1> QED
  BY <1>2, <1>3, <1>4

\* Call a is answered with payload: b is a with its answer.
LEMMA AnswerFacts ==
  ASSUME TypeOK, NEW a \in arrived, NEW payload \in Payloads, ContainerAnswers(a, payload)
  PROVE  /\ Len(toImage) \in Nat /\ Len(toImage') = Len(toImage) + 1
         /\ \A i \in 1..Len(toImage) : toImage'[i] = toImage[i]
         /\ toImage'[Len(toImage) + 1]
              = [kind |-> "Result", id |-> a.id, payload |-> payload]
         /\ a.answer = "none"
         /\ \E b : /\ arrived' = (arrived \ {a}) \cup {b}
                   /\ b.id = a.id /\ b.recognised = a.recognised /\ b.answer = payload
         /\ UNCHANGED <<page, image, sink, m_tokens, m_admitted, m_introspected, granted, calls,
              status, settled, completed, requests, taken, toContainer, frames, registered>>
<1>1. a \in Arrivals /\ toImage \in Seq(InFrames)
  BY DEF TypeOK
<1> DEFINE e == [kind |-> "Result", id |-> a.id, payload |-> payload]
<1>2. e \in InFrames
  BY <1>1 DEF InFrames, Arrivals
<1>3. toImage' = Append(toImage, e) /\ a.answer = "none"
  BY DEF ContainerAnswers
<1> HIDE DEF e
<1>4. /\ Len(toImage) \in Nat /\ Len(toImage') = Len(toImage) + 1
      /\ \A i \in 1..Len(toImage) : toImage'[i] = toImage[i]
      /\ toImage'[Len(toImage) + 1] = e
  BY <1>1, <1>2, <1>3, AppendFacts
<1>5. \E b : /\ arrived' = (arrived \ {a}) \cup {b}
             /\ b.id = a.id /\ b.recognised = a.recognised /\ b.answer = payload
  <2>1. arrived' = (arrived \ {a}) \cup {[a EXCEPT !.answer = payload]}
    BY DEF ContainerAnswers
  <2> QED
    BY <1>1, <2>1, AnswerFields, Zenon
<1>6. UNCHANGED <<page, image, sink, m_tokens, m_admitted, m_introspected, granted, calls,
              status, settled, completed, requests, taken, toContainer, frames, registered>>
  BY DEF ContainerAnswers, loaderVars, handlerVars, callVars, viewVars
<1> QED
  BY <1>3, <1>4, <1>5, <1>6 DEF e
-----------------------------------------------------------------------------
(* One lemma per part of the invariant. *)

\* What is left of a stream was in it, one place further.
LEMMA Shifted ==
  ASSUME NEW n \in Nat, n >= 1
  PROVE  \A i \in 1..(n - 1) : i \in 1..n /\ i + 1 \in 1..n /\ i + 1 # 1
OBVIOUS

\* Every frame and arrival belongs to a call made.
LEMMA KnownNext == TypeOK /\ Lengths /\ Known /\ [Next]_vars => Known'
<1> SUFFICES ASSUME TypeOK, Lengths, Known, StepCases PROVE Known'
  BY NextCases
<1>1. CASE PageMoves
  BY <1>1 DEF PageMoves, Known, handlerVars, callVars, viewVars, containerVars
<1>2. ASSUME NEW by \in {Backend} \cup Ids, NEW target \in Targets \cup {Empty},
             NEW st \in {"failing", "unsent", "waiting"}, Made(by, target, st)
      PROVE  Known'
  <2>1. Record(by, target).grants = Len(granted) /\ Len(granted) \in Nat
    BY DEF Record, TypeOK
  <2>2. \A i \in 1..Len(toContainer') : toContainer'[i].kind = "Call" =>
          toContainer'[i].id \in 1..Len(calls')
    BY <1>2, MadeFacts DEF Known
  <2>3. \A i \in 1..Len(toImage') : toImage'[i].kind = "Result" =>
          toImage'[i].id \in 1..Len(calls')
    BY <1>2, MadeFacts DEF Known
  <2>4. \A a \in arrived' : a.id \in 1..Len(calls')
    BY <1>2, MadeFacts DEF Known
  <2>5. \A n \in 1..Len(calls') : calls'[n].grants <= Len(granted')
    BY <1>2, <2>1, MadeFacts DEF Known
  <2> QED
    BY <2>2, <2>3, <2>4, <2>5 DEF Known
<1>3. ASSUME NEW t \in Called, ViewRequests(t)
      PROVE  Known'
  BY <1>3, RequestFacts DEF Known
<1>4. ASSUME NEW n \in 1..Len(status), FailLater(n)
      PROVE  Known'
  BY <1>4, FailFacts DEF Known
<1>5. CASE Replies
  <2>1. UNCHANGED <<calls, granted, arrived>>
    BY <1>5, ReplyFacts
  <2>2. \A i \in 1..Len(toContainer') : toContainer'[i].kind = "Call" =>
          toContainer'[i].id \in 1..Len(calls)
    BY <1>5, ReplyFacts DEF Known
  <2>3. \A i \in 1..Len(toImage') : toImage'[i].kind = "Result" =>
          toImage'[i].id \in 1..Len(calls)
    BY <1>5, ReplyFacts, Shifted DEF Known
  <2> QED
    BY <2>1, <2>2, <2>3 DEF Known
<1>6. CASE OnToken
  <2>1. Len(granted) \in Nat /\ (Len(granted') = Len(granted) \/ Len(granted') = Len(granted) + 1)
    BY <1>6, TokenFacts
  <2>2. \A n \in 1..Len(calls) : calls[n].grants \in Nat
    <3>1. \A n \in 1..Len(calls) : calls[n] \in CallType
      BY DEF TypeOK
    <3> QED
      BY <3>1 DEF CallType
  <2>3. \A n \in 1..Len(calls') : calls'[n].grants <= Len(granted')
    BY <1>6, <2>1, <2>2, TokenFacts DEF Known
  <2>4. \A i \in 1..Len(toImage') : toImage'[i].kind = "Result" =>
          toImage'[i].id \in 1..Len(calls)
    <3>1. /\ Len(toImage) \in Nat /\ Len(toImage) >= 1 /\ Len(toImage') = Len(toImage) - 1
          /\ \A i \in 1..(Len(toImage) - 1) : toImage'[i] = toImage[i + 1]
      BY <1>6, TokenFacts
    <3> QED
      BY <3>1, Shifted DEF Known
  <2> QED
    BY <1>6, <2>3, <2>4, TokenFacts DEF Known
<1>7. CASE OnResult
  <2>1. \A i \in 1..Len(toImage') : toImage'[i].kind = "Result" =>
          toImage'[i].id \in 1..Len(calls)
    BY <1>7, ResultFacts, Shifted DEF Known
  <2>2. UNCHANGED <<calls, granted, arrived, toContainer>>
    BY <1>7, ResultFacts
  <2> QED
    BY <2>1, <2>2 DEF Known
<1>8. ASSUME NEW f \in Frames, ContainerSends(f)
      PROVE  Known'
  BY <1>8, SendFacts DEF Known
<1>9. CASE ContainerTakes
  <2>1. UNCHANGED <<calls, granted, toImage>>
    BY <1>9, ArriveFacts
  <2>2. \A i \in 1..Len(toContainer') : toContainer'[i].kind = "Call" =>
          toContainer'[i].id \in 1..Len(calls)
    BY <1>9, ArriveFacts, Shifted DEF Known
  <2>3. \A a \in arrived' : a.id \in 1..Len(calls)
    <3>1. toContainer[1].kind = "Call" => toContainer[1].id \in 1..Len(calls)
      BY <1>9, ArriveFacts DEF Known
    <3> QED
      BY <1>9, <3>1, ArriveFacts DEF Known
  <2> QED
    BY <2>1, <2>2, <2>3 DEF Known
<1>10. ASSUME NEW a \in arrived, NEW payload \in Payloads, ContainerAnswers(a, payload)
       PROVE  Known'
  <2>1. UNCHANGED <<calls, granted, toContainer>>
    BY <1>10, AnswerFacts
  <2>2. a.id \in 1..Len(calls)
    BY DEF Known
  <2>3. \A i \in 1..Len(toImage') : toImage'[i].kind = "Result" =>
          toImage'[i].id \in 1..Len(calls)
    <3>1. toImage'[Len(toImage) + 1] = [kind |-> "Result", id |-> a.id, payload |-> payload]
      BY <1>10, AnswerFacts, Zenon
    <3>2. toImage'[Len(toImage) + 1].id = a.id
      BY <3>1
    <3>3. /\ Len(toImage) \in Nat /\ Len(toImage') = Len(toImage) + 1
          /\ \A i \in 1..Len(toImage) : toImage'[i] = toImage[i]
      BY <1>10, AnswerFacts, Zenon
    <3> QED
      BY <2>2, <3>2, <3>3 DEF Known
  <2>4. \A x \in arrived' : x.id \in 1..Len(calls)
    <3>1. PICK b : /\ arrived' = (arrived \ {a}) \cup {b}
                   /\ b.id = a.id /\ b.recognised = a.recognised /\ b.answer = payload
      BY <1>10, AnswerFacts, Zenon
    <3> QED
      BY <2>2, <3>1 DEF Known
  <2> QED
    BY <2>1, <2>3, <2>4 DEF Known
<1> QED
  BY <1>1, <1>2, <1>3, <1>4, <1>5, <1>6, <1>7, <1>8, <1>9, <1>10, ReplyCase DEF StepCases

\* A bound page has its image up, and only an installed view makes requests.
LEMMA LoadedNext == TypeOK /\ Lengths /\ Known /\ Loaded /\ [Next]_vars => Loaded'
<1> SUFFICES ASSUME TypeOK, Lengths, Known, Loaded, [Next]_vars PROVE Loaded'
  OBVIOUS
<1>0. StepCases
  BY NextCases
<1>1. CASE PageStep \/ LoadFails
  BY <1>1 DEF PageStep, LoadFails, StartImage, MainServes, Bind, InstallView, Loaded,
     callVars, viewVars
<1>2. CASE \E t \in Called : ViewRequests(t)
  BY <1>2, RequestFacts DEF Loaded
<1>3. CASE UNCHANGED <<page, image, sink, requests>>
  BY <1>3 DEF Loaded
<1>4. CASE UNCHANGED vars
  BY <1>3, <1>4 DEF vars
<1>5. CASE dispatchModuleCall \/ FailStep \/ ImageStep \/ AnswerStep
           \/ (\E t \in Called : BackendCalls(t)) \/ (\E f \in Frames : ContainerSends(f))
  BY <1>3, <1>5 DEF dispatchModuleCall, FailStep, FailLater, ImageStep, OnCall, OnMethods,
     OnToken, OnResult, AnswerStep, ContainerTakes, ContainerAnswers, BackendCalls, Call,
     ContainerSends, loaderVars, callVars, viewVars
<1> QED
  BY <1>1, <1>2, <1>4, <1>5, Zenon DEF Next

\* A call made for a request is made for its target, by the router only.
LEMMA DispatchedNext == TypeOK /\ Lengths /\ Known /\ Dispatched /\ [Next]_vars => Dispatched'
<1> SUFFICES ASSUME TypeOK, Lengths, Known, Dispatched, StepCases PROVE Dispatched'
  BY NextCases
<1>0. Len(requests) \in Nat /\ taken \in Nat /\ taken <= Len(requests) /\ Len(calls) \in Nat
  BY DEF TypeOK
<1>1. CASE UNCHANGED <<calls, requests, taken>>
  BY <1>1 DEF Dispatched
<1>2. ASSUME NEW by \in {Backend} \cup Ids, NEW target \in Targets \cup {Empty},
             NEW st \in {"failing", "unsent", "waiting"}, Made(by, target, st)
      PROVE  Dispatched'
  <2>1. /\ \/ by = Backend /\ taken' = taken
           \/ /\ taken < Len(requests) /\ by = taken + 1 /\ taken' = by
              /\ target = requests[by]
        /\ requests' = requests
    BY <1>2 DEF Made
  <2>2. Record(by, target).request = by /\ Record(by, target).target = target
    BY DEF Record
  <2>3. \A n \in 1..Len(calls) : calls'[n].request # Backend =>
          /\ calls'[n].request \in 1..taken'
          /\ requests'[calls'[n].request] = calls'[n].target
    BY <1>0, <1>2, <2>1, MadeFacts DEF Dispatched
  <2>4. LET n == Len(calls) + 1 IN calls'[n].request # Backend =>
          /\ calls'[n].request \in 1..taken'
          /\ requests'[calls'[n].request] = calls'[n].target
    BY <1>0, <1>2, <2>1, <2>2, MadeFacts
  <2>5. Len(calls') = Len(calls) + 1
    BY <1>2, MadeFacts
  <2> QED
    BY <1>0, <2>3, <2>4, <2>5 DEF Dispatched
<1>3. ASSUME NEW t \in Called, ViewRequests(t)
      PROVE  Dispatched'
  <2>1. /\ calls' = calls /\ taken' = taken
        /\ \A r \in 1..taken : requests'[r] = requests[r]
    BY <1>0, <1>3, RequestFacts
  <2> QED
    BY <2>1 DEF Dispatched
<1>4. ASSUME ~ \E by \in {Backend} \cup Ids, target \in Targets \cup {Empty},
                 st \in {"failing", "unsent", "waiting"} : Made(by, target, st),
             ~ \E t \in Called : ViewRequests(t)
      PROVE  UNCHANGED <<calls, requests, taken>>
  <2>1. CASE PageMoves
    BY <2>1 DEF PageMoves, callVars, viewVars
  <2>2. CASE \E n \in 1..Len(status) : FailLater(n)
    BY <2>2, FailFacts
  <2>3. CASE Replies
    BY <2>3, ReplyFacts
  <2>4. CASE OnToken
    BY <2>4, TokenFacts
  <2>5. CASE OnResult
    BY <2>5, ResultFacts
  <2>6. CASE \E f \in Frames : ContainerSends(f)
    BY <2>6, SendFacts
  <2>7. CASE ContainerTakes
    BY <2>7, ArriveFacts
  <2>8. CASE \E a \in arrived, payload \in Payloads : ContainerAnswers(a, payload)
    BY <2>8, AnswerFacts
  <2> QED
    BY <1>4, <2>1, <2>2, <2>3, <2>4, <2>5, <2>6, <2>7, <2>8, ReplyCase DEF StepCases
<1> QED
  BY <1>1, <1>2, <1>3, <1>4

\* A call made as admitted leaves behind the answered contract query.
LEMMA ContractedNext == TypeOK /\ Lengths /\ Known /\ Contracted /\ [Next]_vars => Contracted'
<1> SUFFICES ASSUME TypeOK, Lengths, Known, Contracted, StepCases PROVE Contracted'
  BY NextCases
<1>0. Len(toContainer) \in Nat /\ Len(calls) \in Nat
  BY DEF TypeOK
<1> DEFINE After(i) ==
       registered' \/ \E j \in 1..(i - 1) : toContainer'[j].kind = "Contract"
<1>a. ASSUME m_introspected' => After(Len(toContainer') + 1),
             \A i \in 1..Len(toContainer') :
               toContainer'[i].kind = "Call" /\ calls'[toContainer'[i].id].admitted
                 => After(i)
      PROVE  Contracted'
  BY <1>a DEF Contracted, ContractBefore
<1>1. ASSUME UNCHANGED <<m_introspected, registered, calls, toContainer>>
      PROVE  Contracted'
  BY <1>1 DEF Contracted, ContractBefore
<1>2. ASSUME NEW by \in {Backend} \cup Ids, NEW target \in Targets \cup {Empty},
             NEW st \in {"failing", "unsent", "waiting"}, Made(by, target, st)
      PROVE  Contracted'
  <2>1. Record(by, target).admitted => m_introspected
    BY DEF Record, hostAdmitted
  <2>2. UNCHANGED <<m_introspected, registered>>
    BY <1>2, MadeFacts
  <2>3. ASSUME NEW i \in 1..(Len(toContainer) + 1), ContractBefore(i) PROVE After(i)
    <3>1. CASE registered
      BY <2>2, <3>1
    <3>2. ASSUME NEW j \in 1..(i - 1), toContainer[j].kind = "Contract"
          PROVE  After(i)
      <4>1. toContainer'[j] = toContainer[j]
        BY <1>0, <1>2, MadeFacts
      <4> QED
        BY <3>2, <4>1
    <3> QED
      BY <2>3, <3>1, <3>2 DEF ContractBefore
  <2>4. m_introspected' => After(Len(toContainer) + 1)
    <3>1. Len(toContainer) + 1 \in 1..(Len(toContainer) + 1)
      BY <1>0
    <3> QED
      BY <2>2, <2>3, <3>1 DEF Contracted
  <2>5. m_introspected' => After(Len(toContainer') + 1)
    <3>1. Len(toContainer') \in Nat /\ Len(toContainer) <= Len(toContainer')
      BY <1>0, <1>2, MadeFacts
    <3>2. 1..((Len(toContainer) + 1) - 1) \subseteq 1..((Len(toContainer') + 1) - 1)
      BY <1>0, <3>1
    <3> QED
      BY <2>4, <3>2
  <2>6. \A i \in 1..Len(toContainer) :
          toContainer'[i].kind = "Call" /\ calls'[toContainer'[i].id].admitted
            => After(i)
    <3> TAKE i \in 1..Len(toContainer)
    <3> HAVE toContainer'[i].kind = "Call" /\ calls'[toContainer'[i].id].admitted
    <3>1. toContainer'[i] = toContainer[i]
      BY <1>2, MadeFacts
    <3>2. toContainer[i].id \in 1..Len(calls)
      BY <3>1 DEF Known
    <3>3. calls'[toContainer[i].id] = calls[toContainer[i].id]
      BY <1>2, <3>2, MadeFacts
    <3>4. ContractBefore(i)
      BY <3>1, <3>3 DEF Contracted
    <3> QED
      BY <1>0, <2>3, <3>4
  <2>7. CASE st = "waiting"
    <3>1. /\ Len(toContainer') = Len(toContainer) + 1
          /\ toContainer'[Len(toContainer) + 1].id = Len(calls) + 1
          /\ calls'[Len(calls) + 1] = Record(by, target)
      BY <1>2, <2>7, MadeFacts
    <3>2. calls'[toContainer'[Len(toContainer) + 1].id].admitted
            => After(Len(toContainer) + 1)
      BY <2>1, <2>2, <2>4, <3>1
    <3> QED
      BY <1>0, <1>a, <2>5, <2>6, <3>1, <3>2
  <2>8. CASE st # "waiting"
    BY <1>2, <1>a, <2>5, <2>6, <2>8, MadeFacts
  <2> QED
    BY <2>7, <2>8
<1>3. CASE Replies
  <2>1. ASSUME NEW i \in 1..(Len(toContainer) + 1), ContractBefore(i) PROVE After(i)
    <3>1. CASE registered
      BY <1>3, <3>1, ReplyFacts
    <3>2. ASSUME NEW j \in 1..(i - 1), toContainer[j].kind = "Contract"
          PROVE  After(i)
      <4>1. toContainer'[j] = toContainer[j]
        BY <1>0, <1>3, ReplyFacts
      <4> QED
        BY <3>2, <4>1
    <3> QED
      BY <2>1, <3>1, <3>2 DEF ContractBefore
  <2>2. m_introspected' => After(Len(toContainer') + 1)
    <3>1. CASE m_introspected
      <4>1. After(Len(toContainer) + 1)
        <5>1. Len(toContainer) + 1 \in 1..(Len(toContainer) + 1)
          BY <1>0
        <5> QED
          BY <2>1, <3>1, <5>1 DEF Contracted
      <4> QED
        BY <1>0, <1>3, <4>1, ReplyFacts DEF ContractBefore
    <3>2. CASE ~m_introspected
      BY <1>0, <1>3, <3>2, ReplyFacts DEF ContractBefore
    <3> QED
      BY <3>1, <3>2
  <2>3. ASSUME NEW i \in 1..Len(toContainer'), toContainer'[i].kind = "Call",
               calls'[toContainer'[i].id].admitted
        PROVE  After(i)
    <3>1. i \in 1..Len(toContainer) /\ toContainer'[i] = toContainer[i] /\ calls' = calls
      BY <1>3, <2>3, ReplyFacts
    <3>2. ContractBefore(i)
      BY <2>3, <3>1 DEF Contracted
    <3> QED
      BY <1>0, <2>1, <3>1, <3>2
  <2> QED
    BY <1>a, <2>2, <2>3
<1>4. CASE ContainerTakes
  <2>1. ASSUME NEW i \in 2..(Len(toContainer) + 1), ContractBefore(i)
        PROVE  After(i - 1)
    <3>1. CASE registered \/ toContainer[1].kind = "Contract"
      BY <1>4, <3>1, ArriveFacts DEF ContractBefore
    <3>2. CASE ~registered /\ toContainer[1].kind # "Contract"
      <4>1. PICK j \in 1..(i - 1) : toContainer[j].kind = "Contract"
        BY <2>1, <3>2 DEF ContractBefore
      <4>2. j # 1 /\ j - 1 \in 1..((i - 1) - 1) /\ j - 1 \in 1..(Len(toContainer) - 1)
        BY <1>0, <3>2, <4>1
      <4>3. toContainer'[j - 1] = toContainer[j]
        BY <1>4, <4>2, ArriveFacts
      <4> QED
        BY <4>1, <4>2, <4>3 DEF ContractBefore
    <3> QED
      BY <3>1, <3>2
  <2>2. m_introspected' => After(Len(toContainer') + 1)
    <3>1. /\ m_introspected' = m_introspected /\ Len(toContainer) >= 1
          /\ Len(toContainer') = Len(toContainer) - 1
      BY <1>4, ArriveFacts
    <3>2. /\ Len(toContainer) + 1 \in 2..(Len(toContainer) + 1)
          /\ (Len(toContainer) + 1) - 1 = Len(toContainer') + 1
      BY <1>0, <3>1
    <3>3. m_introspected => ContractBefore(Len(toContainer) + 1)
      BY DEF Contracted
    <3> HIDE DEF After
    <3>4. m_introspected => After((Len(toContainer) + 1) - 1)
      BY <2>1, <3>2, <3>3, Zenon
    <3> QED
      BY <3>1, <3>2, <3>4, Zenon
  <2>3. ASSUME NEW i \in 1..Len(toContainer'), toContainer'[i].kind = "Call",
               calls'[toContainer'[i].id].admitted
        PROVE  After(i)
    <3>1. /\ i + 1 \in 1..Len(toContainer) /\ i + 1 \in 2..(Len(toContainer) + 1)
          /\ toContainer'[i] = toContainer[i + 1] /\ calls' = calls
      BY <1>4, <2>3, ArriveFacts
    <3>2. ContractBefore(i + 1)
      BY <2>3, <3>1 DEF Contracted
    <3>3. After((i + 1) - 1)
      BY <2>1, <3>1, <3>2
    <3>4. (i + 1) - 1 = i
      OBVIOUS
    <3> QED
      BY <3>3, <3>4
  <2> QED
    BY <1>a, <2>2, <2>3
<1>5. CASE PageMoves
  BY <1>1, <1>5 DEF PageMoves, handlerVars, callVars, containerVars
<1>6. CASE (\E t \in Called : ViewRequests(t)) \/ (\E n \in 1..Len(status) : FailLater(n))
           \/ OnToken \/ OnResult \/ (\E f \in Frames : ContainerSends(f))
           \/ (\E a \in arrived, payload \in Payloads : ContainerAnswers(a, payload))
  <2>1. UNCHANGED <<m_introspected, registered, calls, toContainer>>
    BY <1>6, RequestFacts, FailFacts, TokenFacts, ResultFacts, SendFacts, AnswerFacts
  <2> QED
    BY <1>1, <2>1
<1> QED
  BY <1>2, <1>3, <1>4, <1>5, <1>6, ReplyCase DEF StepCases
\* A grant changes nothing about what was granted before it.
LEMMA GrantsPrefix ==
  ASSUME NEW n \in Nat, NEW t, NEW tok, \A j \in 1..n : granted'[j] = granted[j],
         IsLatest(tok, t, n)
  PROVE  IsLatest(tok, t, n)'
BY DEF IsLatest

\* The latest grant is the new one for its own module, and the old one for another.
LEMMA GrantsNext ==
  ASSUME NEW n \in Nat, NEW t, NEW tok, NEW f, \A j \in 1..n : granted'[j] = granted[j],
         granted'[n + 1] = f, IsLatest(tok, t, n)
  PROVE  IsLatest(IF f.module = t THEN f.token ELSE tok, t, n + 1)'
<1>1. 1..(n + 1) = 1..n \cup {n + 1}
  OBVIOUS
<1>2. CASE f.module = t
  <2>1. \E j \in 1..(n + 1) :
          /\ granted'[j].module = t /\ granted'[j].token = f.token
          /\ \A k \in 1..(n + 1) : granted'[k].module = t => k <= j
    <3>1. n + 1 \in 1..(n + 1) /\ \A k \in 1..(n + 1) : k <= n + 1
      OBVIOUS
    <3> QED
      BY <1>2, <3>1
  <2> QED
    BY <1>2, <2>1 DEF IsLatest
<1>3. CASE f.module # t
  <2>1. \A j \in 1..n : j \in 1..(n + 1)
    BY <1>1
  <2>2. CASE tok = NoToken /\ \A j \in 1..n : granted[j].module # t
    BY <1>1, <1>3, <2>2 DEF IsLatest
  <2>3. ASSUME NEW j \in 1..n, granted[j].module = t, granted[j].token = tok,
               \A k \in 1..n : granted[k].module = t => k <= j
        PROVE  IsLatest(tok, t, n + 1)'
    BY <1>1, <1>3, <2>1, <2>3 DEF IsLatest
  <2> QED
    BY <1>3, <2>2, <2>3 DEF IsLatest
<1> QED
  BY <1>2, <1>3

\* The tokens held and the tokens carried are the latest granted.
LEMMA LatestNext == TypeOK /\ Lengths /\ Known /\ Latest /\ [Next]_vars => Latest'
<1> SUFFICES ASSUME TypeOK, Lengths, Known, Latest, StepCases PROVE Latest'
  BY NextCases
<1>0. Len(granted) \in Nat /\ Len(calls) \in Nat /\ m_tokens \in [Targets -> Tokens \cup {NoToken}]
  BY DEF TypeOK
<1>a. \A n \in 1..Len(calls) : /\ IsLatest(calls[n].auth, calls[n].target, calls[n].grants)
                               /\ calls[n].grants \in Nat /\ calls[n].grants <= Len(granted)
  <2>1. \A n \in 1..Len(calls) : calls[n] \in CallType
    BY DEF TypeOK
  <2> QED
    BY <2>1 DEF Known, Latest, CallType
<1>1. ASSUME UNCHANGED <<granted, m_tokens, calls>>
      PROVE  Latest'
  BY <1>1 DEF Latest, IsLatest
<1>2. ASSUME NEW by \in {Backend} \cup Ids, NEW target \in Targets \cup {Empty},
             NEW st \in {"failing", "unsent", "waiting"}, Made(by, target, st)
      PROVE  Latest'
  <2> DEFINE c == Record(by, target)
  <2>1. granted' = granted /\ m_tokens' = m_tokens
    BY <1>2, MadeFacts
  <2>2. IsLatest(c.auth, c.target, c.grants)
    <3>1. /\ c.auth = IF target = Empty THEN NoToken ELSE m_tokens[target]
          /\ c.target = target /\ c.grants = Len(granted)
      BY DEF Record
    <3> HIDE DEF c
    <3>2. CASE target = Empty
      <4>1. \A j \in 1..Len(granted) : granted[j].module \in Targets
        <5>1. \A j \in 1..Len(granted) : granted[j] \in Grants
          BY DEF TypeOK
        <5> QED
          BY <5>1 DEF Grants
      <4>2. \A j \in 1..Len(granted) : granted[j].module # target
        BY <3>2, <4>1, ViewAssumption DEF ViewAssumption
      <4> QED
        BY <3>1, <3>2, <4>2 DEF IsLatest
    <3>3. CASE target # Empty
      BY <3>1, <3>3 DEF Latest
    <3> QED
      BY <3>2, <3>3
  <2> HIDE DEF c
  <2>3. \A n \in 1..Len(calls') :
          IsLatest(calls'[n].auth, calls'[n].target, calls'[n].grants)
    <3>1. /\ Len(calls') = Len(calls) + 1 /\ calls'[Len(calls) + 1] = c
          /\ \A n \in 1..Len(calls) : calls'[n] = calls[n]
      BY <1>2, MadeFacts DEF c
    <3>2. 1..(Len(calls) + 1) = 1..Len(calls) \cup {Len(calls) + 1}
      BY <1>0
    <3> QED
      BY <1>a, <2>2, <3>1, <3>2
  <2>4. \A n \in 1..Len(calls') :
          IsLatest(calls[n].auth, calls[n].target, calls[n].grants)'
    BY <2>1, <2>3 DEF IsLatest
  <2>5. \A t \in Targets : IsLatest(m_tokens[t], t, Len(granted))'
    BY <2>1 DEF Latest, IsLatest
  <2> QED
    BY <2>4, <2>5 DEF Latest
<1>3. CASE OnToken
  <2>1. CASE UNCHANGED <<granted, m_tokens>>
    BY <1>1, <1>3, <2>1, TokenFacts
  <2>2. ASSUME NEW f \in Grants, Len(granted') = Len(granted) + 1,
               \A j \in 1..Len(granted) : granted'[j] = granted[j],
               granted'[Len(granted) + 1] = f,
               m_tokens' = [m_tokens EXCEPT ![f.module] = f.token]
        PROVE  Latest'
    <3>1. ASSUME NEW t \in Targets
          PROVE  IsLatest(m_tokens[t], t, Len(granted))'
      <4>1. PICK n \in Nat : n = Len(granted)
        BY <1>0
      <4>2. PICK tok : tok = m_tokens[t]
        OBVIOUS
      <4>3. IsLatest(tok, t, n)
        BY <4>1, <4>2 DEF Latest
      <4>4. IsLatest(IF f.module = t THEN f.token ELSE tok, t, n + 1)'
        BY <2>2, <4>1, <4>3, GrantsNext
      <4>5. m_tokens'[t] = IF f.module = t THEN f.token ELSE tok
        BY <1>0, <2>2, <4>2
      <4> QED
        BY <2>2, <4>1, <4>4, <4>5 DEF IsLatest
    <3>2. ASSUME NEW n \in 1..Len(calls)
          PROVE  IsLatest(calls[n].auth, calls[n].target, calls[n].grants)'
      <4>1. PICK tok, t, g : tok = calls[n].auth /\ t = calls[n].target /\ g = calls[n].grants
        OBVIOUS
      <4>2. g \in Nat /\ IsLatest(tok, t, g) /\ \A j \in 1..g : granted'[j] = granted[j]
        BY <1>0, <1>a, <2>2, <4>1
      <4>3. IsLatest(tok, t, g)'
        BY <4>2, GrantsPrefix
      <4>4. calls' = calls
        BY <1>3, TokenFacts
      <4> QED
        BY <4>1, <4>3, <4>4 DEF IsLatest
    <3>3. calls' = calls
      BY <1>3, TokenFacts
    <3> QED
      BY <3>1, <3>2, <3>3 DEF Latest
  <2> QED
    BY <1>3, <2>1, <2>2, TokenFacts
<1>4. CASE PageMoves
  BY <1>1, <1>4 DEF PageMoves, handlerVars, callVars
<1>5. CASE (\E t \in Called : ViewRequests(t)) \/ (\E n \in 1..Len(status) : FailLater(n))
           \/ Replies \/ OnResult \/ (\E f \in Frames : ContainerSends(f)) \/ ContainerTakes
           \/ (\E a \in arrived, payload \in Payloads : ContainerAnswers(a, payload))
  <2>1. UNCHANGED <<granted, m_tokens, calls>>
    BY <1>5, RequestFacts, FailFacts, ReplyFacts, ResultFacts, SendFacts, ArriveFacts, AnswerFacts
  <2> QED
    BY <1>1, <2>1
<1> QED
  BY <1>2, <1>3, <1>4, <1>5, ReplyCase DEF StepCases

\* What the calls carry is what CarriesLatestGrant says.
LEMMA CarriesFromLatest == TypeOK /\ Latest => CarriesLatestGrant
<1>0. TypeOK => DOMAIN calls = 1..Len(calls)
  BY DEF TypeOK
<1> SUFFICES ASSUME TypeOK, Latest, NEW n \in 1..Len(calls)
             PROVE  LET c == calls[n]
                        mine == {j \in 1..c.grants : granted[j].module = c.target}
                    IN c.auth = IF mine = {} THEN NoToken
                                ELSE granted[CHOOSE j \in mine : \A k \in mine : k <= j].token
  BY <1>0 DEF CarriesLatestGrant
<1> DEFINE c == calls[n]
           mine == {j \in 1..c.grants : granted[j].module = c.target}
<1>1. IsLatest(c.auth, c.target, c.grants)
  BY DEF Latest
<1>2. CASE mine = {}
  BY <1>1, <1>2 DEF IsLatest
<1>3. CASE mine # {}
  <2>1. PICK j \in mine : granted[j].token = c.auth /\ \A k \in mine : k <= j
    BY <1>1, <1>3 DEF IsLatest
  <2> DEFINE J == CHOOSE i \in mine : \A k \in mine : k <= i
  <2>2. J \in mine /\ \A k \in mine : k <= J
    BY <2>1
  <2>3. J = j
    BY <2>1, <2>2
  <2> QED
    BY <1>3, <2>1, <2>3
<1> QED
  BY <1>2, <1>3
-----------------------------------------------------------------------------
(* Callbacks and answers. *)

\* The callback part of the invariant, by length.
LEMMA CallbackDef ==
  ASSUME TypeOK
  PROVE  CallbackOnce <=> \A n \in 1..Len(calls) :
           /\ settled[n] = (IF status[n] = "done" THEN 1 ELSE 0)
           /\ status[n] = "waiting" =>
                \/ \E i \in 1..Len(toContainer) :
                     toContainer[i].kind = "Call" /\ toContainer[i].id = n
                \/ \E i \in 1..Len(toImage) : toImage[i].kind = "Result" /\ toImage[i].id = n
                \/ \E a \in arrived : a.id = n /\ a.answer = "none"
<1>1. /\ DOMAIN calls = 1..Len(calls) /\ DOMAIN toContainer = 1..Len(toContainer)
      /\ DOMAIN toImage = 1..Len(toImage)
  BY DEF TypeOK
<1> QED
  BY <1>1 DEF CallbackOnce

\* Call n is in a queue, at the connection or at the container.
Owned(n) ==
  \/ \E i \in 1..Len(toContainer) : toContainer[i].kind = "Call" /\ toContainer[i].id = n
  \/ \E i \in 1..Len(toImage) : toImage[i].kind = "Result" /\ toImage[i].id = n
  \/ \E a \in arrived : a.id = n /\ a.answer = "none"

\* A callback runs once, and until then somebody owns the call.
LEMMA CallbackNext ==
  TypeOK /\ Lengths /\ Known /\ CallbackOnce /\ [Next]_vars => CallbackOnce'
<1> SUFFICES ASSUME TypeOK, TypeOK', Lengths, Known, CallbackOnce, StepCases
             PROVE  CallbackOnce'
  BY NextCases, TypeNext
<1>0. Len(calls) \in Nat /\ Len(toContainer) \in Nat /\ Len(toImage) \in Nat
  BY DEF TypeOK
<1>a. \A n \in 1..Len(calls) : /\ settled[n] = (IF status[n] = "done" THEN 1 ELSE 0)
                               /\ status[n] = "waiting" => Owned(n)
  BY CallbackDef DEF Owned
<1> DEFINE
  OwnedNext(n) ==
    \/ \E i \in 1..Len(toContainer') : toContainer'[i].kind = "Call" /\ toContainer'[i].id = n
    \/ \E i \in 1..Len(toImage') : toImage'[i].kind = "Result" /\ toImage'[i].id = n
    \/ \E a \in arrived' : a.id = n /\ a.answer = "none"
  Fine(n) ==
    /\ settled'[n] = (IF status'[n] = "done" THEN 1 ELSE 0)
    /\ status'[n] = "waiting" => OwnedNext(n)
<1>b. SUFFICES \A n \in 1..Len(calls') : Fine(n)
  <2>1. /\ DOMAIN calls' = 1..Len(calls') /\ DOMAIN toContainer' = 1..Len(toContainer')
        /\ DOMAIN toImage' = 1..Len(toImage')
    BY DEF TypeOK
  <2> QED
    BY <2>1 DEF CallbackOnce
<1>1. CASE PageMoves
  BY <1>a, <1>1 DEF PageMoves, callVars, containerVars, Owned
<1>2. ASSUME NEW by \in {Backend} \cup Ids, NEW target \in Targets \cup {Empty},
             NEW st \in {"failing", "unsent", "waiting"}, Made(by, target, st)
      PROVE  \A n \in 1..Len(calls') : Fine(n)
  <2>1. ASSUME NEW n \in 1..Len(calls) PROVE Fine(n)
    <3>1. status'[n] = status[n] /\ settled'[n] = settled[n]
      BY <1>2, MadeFacts
    <3>2. Owned(n) => OwnedNext(n)
      <4>1. UNCHANGED <<toImage, arrived>>
        BY <1>2, MadeFacts
      <4>2. \A i \in 1..Len(toContainer) :
              i \in 1..Len(toContainer') /\ toContainer'[i] = toContainer[i]
        BY <1>0, <1>2, MadeFacts
      <4> QED
        BY <4>1, <4>2 DEF Owned
    <3> QED
      BY <1>a, <3>1, <3>2
  <2>2. Fine(Len(calls) + 1)
    <3>1. status'[Len(calls) + 1] = st /\ settled'[Len(calls) + 1] = 0 /\ st # "done"
      BY <1>2, MadeFacts
    <3>2. ASSUME st = "waiting" PROVE OwnedNext(Len(calls) + 1)
      <4>1. /\ Len(toContainer) + 1 \in 1..Len(toContainer')
            /\ toContainer'[Len(toContainer) + 1] = [kind |-> "Call", id |-> Len(calls) + 1]
        BY <1>0, <1>2, <3>2, MadeFacts
      <4>2. /\ toContainer'[Len(toContainer) + 1].kind = "Call"
            /\ toContainer'[Len(toContainer) + 1].id = Len(calls) + 1
        BY <4>1
      <4> QED
        BY <4>1, <4>2
    <3> QED
      BY <3>1, <3>2
  <2>3. Len(calls') = Len(calls) + 1
    BY <1>2, MadeFacts
  <2> HIDE DEF Fine
  <2>4. \A n \in 1..(Len(calls) + 1) : n \in 1..Len(calls) \/ n = Len(calls) + 1
    BY <1>0
  <2> QED
    BY <2>1, <2>2, <2>3, <2>4
<1>3. ASSUME NEW n \in 1..Len(calls), NEW payload \in Payloads, Settle(n, payload),
             status[n] # "done", calls' = calls,
             \A m \in 1..Len(calls) : m # n /\ Owned(m) => OwnedNext(m)
      PROVE  \A m \in 1..Len(calls') : Fine(m)
  <2> SUFFICES ASSUME NEW m \in 1..Len(calls) PROVE Fine(m)
    BY <1>3
  <2>1. /\ status'[m] = IF m = n THEN "done" ELSE status[m]
        /\ settled'[m] = IF m = n THEN settled[n] + 1 ELSE settled[m]
    BY <1>3, SettleFacts
  <2>2. settled[n] = 0
    BY <1>3, <1>a
  <2> HIDE DEF OwnedNext
  <2> QED
    BY <1>3, <1>a, <2>1, <2>2
<1>4. ASSUME UNCHANGED <<calls, status, settled>>,
             \A m \in 1..Len(calls) : status[m] = "waiting" /\ Owned(m) => OwnedNext(m)
      PROVE  \A m \in 1..Len(calls') : Fine(m)
  <2> HIDE DEF OwnedNext
  <2> QED
    BY <1>4, <1>a
<1>5. ASSUME NEW t \in Called, ViewRequests(t)
      PROVE  \A m \in 1..Len(calls') : Fine(m)
  <2>1. UNCHANGED <<calls, status, settled, toContainer, toImage, arrived>>
    BY <1>5, RequestFacts
  <2> QED
    BY <1>a, <2>1 DEF Owned
<1>6. ASSUME NEW n \in 1..Len(status), FailLater(n)
      PROVE  \A m \in 1..Len(calls') : Fine(m)
  <2>1. UNCHANGED <<calls, toContainer, toImage, arrived>>
    BY <1>6, FailFacts
  <2>2. \A m \in 1..Len(calls) : Owned(m) => OwnedNext(m)
    BY <2>1 DEF Owned
  <2>3. n \in 1..Len(calls) /\ status[n] # "done" /\ "error" \in Payloads /\ Settle(n, "error")
    BY <1>6, FailFacts
  <2> HIDE DEF OwnedNext, Fine
  <2> QED
    BY <1>3, <2>1, <2>2, <2>3
<1>7. ASSUME UNCHANGED <<arrived>>, Len(toImage) >= 1, Len(toImage') = Len(toImage) - 1,
             \A i \in 1..(Len(toImage) - 1) : toImage'[i] = toImage[i + 1],
             \A i \in 1..Len(toContainer) :
               i \in 1..Len(toContainer') /\ toContainer'[i] = toContainer[i],
             NEW m, Owned(m), toImage[1].kind = "Result" => toImage[1].id # m
      PROVE  OwnedNext(m)
  <2>1. ASSUME NEW i \in 1..Len(toImage), toImage[i].kind = "Result", toImage[i].id = m
        PROVE  OwnedNext(m)
    <3>1. i # 1
      BY <1>7, <2>1
    <3>2. i - 1 \in 1..Len(toImage') /\ i - 1 \in 1..(Len(toImage) - 1) /\ (i - 1) + 1 = i
      BY <1>0, <1>7, <3>1
    <3>3. toImage'[i - 1] = toImage[i]
      BY <1>7, <3>2
    <3> QED
      BY <2>1, <3>2, <3>3
  <2>2. ASSUME NEW i \in 1..Len(toContainer), toContainer[i].kind = "Call",
               toContainer[i].id = m
        PROVE  OwnedNext(m)
    BY <1>7, <2>2
  <2>3. ASSUME NEW a \in arrived, a.id = m, a.answer = "none"
        PROVE  OwnedNext(m)
    BY <1>7, <2>3
  <2> QED
    BY <1>7, <2>1, <2>2, <2>3 DEF Owned
<1>8. CASE Replies
  <2>1. \A i \in 1..Len(toContainer) :
          i \in 1..Len(toContainer') /\ toContainer'[i] = toContainer[i]
    BY <1>0, <1>8, ReplyFacts
  <2>2. /\ UNCHANGED <<calls, status, settled, arrived>>
        /\ Len(toImage) >= 1 /\ Len(toImage') = Len(toImage) - 1
        /\ \A i \in 1..(Len(toImage) - 1) : toImage'[i] = toImage[i + 1]
        /\ toImage[1].kind # "Result"
    BY <1>8, ReplyFacts
  <2> HIDE DEF OwnedNext, Fine
  <2>3. \A m \in 1..Len(calls) : Owned(m) => OwnedNext(m)
    BY <1>7, <2>1, <2>2
  <2> QED
    BY <1>4, <2>2, <2>3
<1>9. CASE OnToken
  <2>1. /\ UNCHANGED <<calls, status, settled, arrived, toContainer>>
        /\ Len(toImage) >= 1 /\ Len(toImage') = Len(toImage) - 1
        /\ \A i \in 1..(Len(toImage) - 1) : toImage'[i] = toImage[i + 1]
        /\ toImage[1].kind # "Result"
    BY <1>9, TokenFacts
  <2> HIDE DEF OwnedNext, Fine
  <2>2. \A m \in 1..Len(calls) : Owned(m) => OwnedNext(m)
    BY <1>7, <2>1
  <2> QED
    BY <1>4, <2>1, <2>2
<1>10. CASE OnResult
  <2> DEFINE n == toImage[1].id
  <2>1. /\ UNCHANGED <<calls, arrived, toContainer>>
        /\ Len(toImage) >= 1 /\ Len(toImage') = Len(toImage) - 1
        /\ \A i \in 1..(Len(toImage) - 1) : toImage'[i] = toImage[i + 1]
        /\ n \in 1..Len(calls) /\ toImage[1].payload \in Payloads
        /\ \/ status[n] = "waiting" /\ Settle(n, toImage[1].payload)
           \/ status[n] # "waiting" /\ UNCHANGED <<status, settled, completed>>
    BY <1>10, ResultFacts
  <2> HIDE DEF OwnedNext, Fine, n
  <2>2. \A m \in 1..Len(calls) : m # n /\ Owned(m) => OwnedNext(m)
    BY <1>7, <2>1 DEF n
  <2>3. CASE status[n] = "waiting"
    BY <1>3, <2>1, <2>2, <2>3
  <2>4. CASE status[n] # "waiting"
    BY <1>4, <2>1, <2>2, <2>4
  <2> QED
    BY <2>3, <2>4
<1>11. ASSUME NEW f \in Frames, ContainerSends(f)
       PROVE  \A m \in 1..Len(calls') : Fine(m)
  <2>1. /\ UNCHANGED <<calls, status, settled, arrived, toContainer>>
        /\ \A i \in 1..Len(toImage) : i \in 1..Len(toImage') /\ toImage'[i] = toImage[i]
    BY <1>0, <1>11, SendFacts
  <2>2. \A m \in 1..Len(calls) : Owned(m) => OwnedNext(m)
    BY <2>1 DEF Owned
  <2> HIDE DEF OwnedNext, Fine
  <2> QED
    BY <1>4, <2>1, <2>2
<1>12. CASE ContainerTakes
  <2>1. UNCHANGED <<calls, status, settled, toImage>>
    BY <1>12, ArriveFacts
  <2>2. arrived \subseteq arrived'
    BY <1>12, ArriveFacts
  <2>3. ASSUME NEW m, NEW i \in 1..Len(toContainer), toContainer[i].kind = "Call",
               toContainer[i].id = m
        PROVE  OwnedNext(m)
    <3>1. CASE i = 1
      <4>1. [id |-> m, recognised |-> registered, answer |-> "none"] \in arrived'
        BY <1>12, <2>3, <3>1, ArriveFacts
      <4> QED
        BY <4>1
    <3>2. CASE i # 1
      <4>1. /\ i - 1 \in 1..Len(toContainer') /\ i - 1 \in 1..(Len(toContainer) - 1)
            /\ (i - 1) + 1 = i
        BY <1>0, <1>12, <3>2, ArriveFacts
      <4>2. toContainer'[i - 1] = toContainer[i]
        BY <1>12, <4>1, ArriveFacts
      <4> QED
        BY <2>3, <4>1, <4>2
    <3> QED
      BY <3>1, <3>2
  <2>4. \A m : Owned(m) => OwnedNext(m)
    BY <2>1, <2>2, <2>3 DEF Owned
  <2> HIDE DEF OwnedNext, Fine
  <2> QED
    BY <1>4, <2>1, <2>4
<1>13. ASSUME NEW a \in arrived, NEW payload \in Payloads, ContainerAnswers(a, payload)
       PROVE  \A m \in 1..Len(calls') : Fine(m)
  <2>1. UNCHANGED <<calls, status, settled, toContainer>>
    BY <1>13, AnswerFacts
  <2>2. PICK b : arrived' = (arrived \ {a}) \cup {b}
    BY <1>13, AnswerFacts, Zenon
  <2>3. /\ \A i \in 1..Len(toImage) : i \in 1..Len(toImage') /\ toImage'[i] = toImage[i]
        /\ Len(toImage) + 1 \in 1..Len(toImage')
    <3>1. /\ Len(toImage') = Len(toImage) + 1
          /\ \A i \in 1..Len(toImage) : toImage'[i] = toImage[i]
      BY <1>13, AnswerFacts, Zenon
    <3> QED
      BY <1>0, <3>1
  <2>4. toImage'[Len(toImage) + 1] = [kind |-> "Result", id |-> a.id, payload |-> payload]
    BY <1>13, AnswerFacts, Zenon
  <2>5. toImage'[Len(toImage) + 1].kind = "Result" /\ toImage'[Len(toImage) + 1].id = a.id
    BY <2>4
  <2>6. \A m : Owned(m) => OwnedNext(m)
    BY <2>1, <2>2, <2>3, <2>5 DEF Owned
  <2> HIDE DEF OwnedNext, Fine
  <2> QED
    BY <1>4, <2>1, <2>6
<1> HIDE DEF Fine
<1> QED
  BY <1>1, <1>2, <1>5, <1>6, <1>8, <1>9, <1>10, <1>11, <1>12, <1>13, ReplyCase DEF StepCases
-----------------------------------------------------------------------------
(* Admission, and the view behind its bridge. *)

\* A call arrives after the contract it was admitted on.
LEMMA AdmittedNext ==
  TypeOK /\ Lengths /\ Known /\ Contracted /\ AdmittedCallsRecognised /\ [Next]_vars
    => AdmittedCallsRecognised'
<1> SUFFICES ASSUME TypeOK, Lengths, Known, Contracted, AdmittedCallsRecognised, StepCases
             PROVE  AdmittedCallsRecognised'
  BY NextCases
<1>0. Len(toContainer) \in Nat /\ Len(calls) \in Nat
  BY DEF TypeOK
<1>1. ASSUME UNCHANGED arrived, \A m \in 1..Len(calls) : calls'[m] = calls[m]
      PROVE  AdmittedCallsRecognised'
  BY <1>1 DEF AdmittedCallsRecognised, Known
<1>2. CASE PageMoves
  BY <1>1, <1>2 DEF PageMoves, callVars, containerVars
<1>3. ASSUME NEW by \in {Backend} \cup Ids, NEW target \in Targets \cup {Empty},
             NEW st \in {"failing", "unsent", "waiting"}, Made(by, target, st)
      PROVE  AdmittedCallsRecognised'
  BY <1>1, <1>3, MadeFacts
<1>4. CASE (\E t \in Called : ViewRequests(t)) \/ (\E n \in 1..Len(status) : FailLater(n))
           \/ Replies \/ OnToken \/ OnResult \/ (\E f \in Frames : ContainerSends(f))
  <2>1. UNCHANGED <<arrived, calls>>
    BY <1>4, RequestFacts, FailFacts, ReplyFacts, TokenFacts, ResultFacts, SendFacts
  <2> QED
    BY <1>1, <2>1
<1>5. CASE ContainerTakes
  <2>1. calls' = calls /\ Len(toContainer) >= 1
    BY <1>5, ArriveFacts
  <2>2. toContainer[1].kind = "Call" /\ calls[toContainer[1].id].admitted => registered
    BY <1>0, <2>1 DEF Contracted, ContractBefore
  <2>3. ASSUME NEW a \in arrived', calls[a.id].admitted
        PROVE  a.recognised
    <3>1. CASE a \in arrived
      BY <2>3, <3>1 DEF AdmittedCallsRecognised
    <3>2. CASE a \notin arrived
      <4>1. /\ toContainer[1].kind = "Call"
            /\ a = [id |-> toContainer[1].id, recognised |-> registered, answer |-> "none"]
        BY <1>5, <3>2, ArriveFacts
      <4>2. a.id = toContainer[1].id /\ a.recognised = registered
        BY <4>1
      <4> QED
        BY <2>2, <2>3, <4>1, <4>2
    <3> QED
      BY <3>1, <3>2
  <2> QED
    BY <2>1, <2>3 DEF AdmittedCallsRecognised
<1>6. ASSUME NEW a \in arrived, NEW payload \in Payloads, ContainerAnswers(a, payload)
      PROVE  AdmittedCallsRecognised'
  <2>1. PICK b : /\ arrived' = (arrived \ {a}) \cup {b}
                 /\ b.id = a.id /\ b.recognised = a.recognised /\ b.answer = payload
    BY <1>6, AnswerFacts, Zenon
  <2>2. calls' = calls
    BY <1>6, AnswerFacts
  <2> QED
    BY <2>1, <2>2 DEF AdmittedCallsRecognised
<1> QED
  BY <1>2, <1>3, <1>4, <1>5, <1>6, ReplyCase DEF StepCases

\* A view's call finds the sink its page set before it was installed.
LEMMA NeverRacesNext ==
  TypeOK /\ Lengths /\ Known /\ Loaded /\ ViewNeverRacesBridge /\ [Next]_vars
    => ViewNeverRacesBridge'
<1> SUFFICES ASSUME TypeOK, TypeOK', Lengths, Known, Loaded, ViewNeverRacesBridge, StepCases
             PROVE  ViewNeverRacesBridge'
  BY NextCases, TypeNext
<1>0. /\ DOMAIN calls = 1..Len(calls) /\ DOMAIN calls' = 1..Len(calls')
      /\ Len(calls) \in Nat /\ Len(requests) \in Nat /\ taken \in Nat
  BY DEF TypeOK
<1>1. ASSUME calls' = calls,
             \A m \in 1..Len(calls) : status'[m] \in {status[m], "done"}
      PROVE  ViewNeverRacesBridge'
  BY <1>0, <1>1 DEF ViewNeverRacesBridge
<1>2. ASSUME UNCHANGED <<calls, status>>
      PROVE  ViewNeverRacesBridge'
  BY <1>1, <1>2
<1>3. ASSUME NEW by \in {Backend} \cup Ids, NEW target \in Targets \cup {Empty},
             NEW st \in {"failing", "unsent", "waiting"}, Made(by, target, st)
      PROVE  ViewNeverRacesBridge'
  <2>1. by # Backend => Len(requests) > 0
    BY <1>0, <1>3 DEF Made
  <2>2. by # Backend /\ HasContainer => sink
    BY <2>1 DEF Loaded
  <2>3. st = "unsent" => ~sink
    BY <1>3 DEF Made
  <2>4. Record(by, target).request = by
    BY DEF Record
  <2>5. /\ Len(calls') = Len(calls) + 1
        /\ calls'[Len(calls) + 1] = Record(by, target) /\ status'[Len(calls) + 1] = st
        /\ \A m \in 1..Len(calls) : calls'[m] = calls[m] /\ status'[m] = status[m]
    BY <1>3, MadeFacts
  <2>6. \A m \in 1..(Len(calls) + 1) : m \in 1..Len(calls) \/ m = Len(calls) + 1
    BY <1>0
  <2> QED
    BY <1>0, <2>2, <2>3, <2>4, <2>5, <2>6 DEF ViewNeverRacesBridge
<1>4. ASSUME NEW n \in 1..Len(status), FailLater(n)
      PROVE  ViewNeverRacesBridge'
  <2>1. n \in 1..Len(calls) /\ "error" \in Payloads /\ Settle(n, "error") /\ calls' = calls
    BY <1>4, FailFacts
  <2>2. \A m \in 1..Len(calls) : status'[m] \in {status[m], "done"}
    BY <2>1, SettleFacts
  <2> QED
    BY <1>1, <2>1, <2>2
<1>5. CASE OnResult
  <2>1. calls' = calls
    BY <1>5, ResultFacts
  <2>2. \A m \in 1..Len(calls) : status'[m] \in {status[m], "done"}
    BY <1>5, ResultFacts, SettleFacts
  <2> QED
    BY <1>1, <2>1, <2>2
<1>6. CASE PageMoves
  BY <1>2, <1>6 DEF PageMoves, callVars
<1>7. CASE (\E t \in Called : ViewRequests(t)) \/ Replies \/ OnToken
           \/ (\E f \in Frames : ContainerSends(f)) \/ ContainerTakes
           \/ (\E a \in arrived, payload \in Payloads : ContainerAnswers(a, payload))
  <2>1. UNCHANGED <<calls, status>>
    BY <1>7, RequestFacts, ReplyFacts, TokenFacts, SendFacts, ArriveFacts, AnswerFacts
  <2> QED
    BY <1>2, <2>1
<1> QED
  BY <1>3, <1>4, <1>5, <1>6, <1>7, ReplyCase DEF StepCases

-----------------------------------------------------------------------------
(* Where a call is, and what its request is completed with. *)

\* A call made goes nowhere it has not been: it leaves the image when it is
\* made, and from its frame only to the container.
LEMMA NowhereNext ==
  ASSUME TypeOK, Lengths, Known, StepCases, NEW n \in 1..Len(calls), Nowhere(n)
  PROVE  Nowhere(n)'
<1>0. Len(toContainer) \in Nat /\ Len(calls) \in Nat
  BY DEF TypeOK
<1>1. ASSUME UNCHANGED <<toContainer, arrived>>
      PROVE  Nowhere(n)'
  BY <1>1 DEF Nowhere
<1>2. ASSUME NEW by \in {Backend} \cup Ids, NEW target \in Targets \cup {Empty},
             NEW st \in {"failing", "unsent", "waiting"}, Made(by, target, st)
      PROVE  Nowhere(n)'
  <2>1. arrived' = arrived
    BY <1>2, MadeFacts
  <2>2. \A i \in 1..Len(toContainer') : \/ i \in 1..Len(toContainer)
                                           /\ toContainer'[i] = toContainer[i]
                                        \/ toContainer'[i].id = Len(calls) + 1
    <3>1. CASE st = "waiting"
      <4>1. /\ Len(toContainer') = Len(toContainer) + 1
            /\ toContainer'[Len(toContainer) + 1] = [kind |-> "Call", id |-> Len(calls) + 1]
            /\ \A i \in 1..Len(toContainer) : toContainer'[i] = toContainer[i]
        BY <1>2, <3>1, MadeFacts
      <4>2. toContainer'[Len(toContainer) + 1].id = Len(calls) + 1
        BY <4>1
      <4> QED
        BY <1>0, <4>1, <4>2
    <3>2. CASE st # "waiting"
      BY <1>2, <3>2, MadeFacts
    <3> QED
      BY <3>1, <3>2
  <2> QED
    BY <1>0, <2>1, <2>2 DEF Nowhere
<1>3. CASE Replies
  BY <1>0, <1>3, ReplyFacts DEF Nowhere
<1>4. CASE ContainerTakes
  <2>1. \A a \in arrived' : a.id # n
    <3>1. toContainer[1].kind = "Call" => toContainer[1].id # n
      BY <1>4, ArriveFacts DEF Nowhere
    <3> QED
      BY <1>4, <3>1, ArriveFacts DEF Nowhere
  <2>2. \A i \in 1..Len(toContainer') : toContainer'[i].kind = "Call" =>
          toContainer'[i].id # n
    BY <1>4, ArriveFacts, Shifted DEF Nowhere
  <2> QED
    BY <2>1, <2>2 DEF Nowhere
<1>5. ASSUME NEW a \in arrived, NEW payload \in Payloads, ContainerAnswers(a, payload)
      PROVE  Nowhere(n)'
  <2>1. PICK b : arrived' = (arrived \ {a}) \cup {b} /\ b.id = a.id
    BY <1>5, AnswerFacts, Zenon
  <2>2. toContainer' = toContainer
    BY <1>5, AnswerFacts
  <2> QED
    BY <2>1, <2>2 DEF Nowhere
<1>6. CASE PageMoves
  BY <1>1, <1>6 DEF PageMoves, containerVars
<1>7. CASE (\E t \in Called : ViewRequests(t)) \/ (\E m \in 1..Len(status) : FailLater(m))
           \/ OnToken \/ OnResult \/ (\E f \in Frames : ContainerSends(f))
  <2>1. UNCHANGED <<toContainer, arrived>>
    BY <1>7, RequestFacts, FailFacts, TokenFacts, ResultFacts, SendFacts
  <2> QED
    BY <1>1, <2>1
<1> QED
  BY <1>2, <1>3, <1>4, <1>5, <1>6, <1>7, ReplyCase DEF StepCases

\* A call's answer, once given, stays with it.
LEMMA AnswerStays ==
  ASSUME TypeOK, Lengths, Known, StepCases, NEW a \in arrived, a.answer # "none"
  PROVE  a \in arrived'
<1>1. CASE UNCHANGED arrived
  BY <1>1
<1>2. CASE ContainerTakes
  BY <1>2, ArriveFacts
<1>3. ASSUME NEW b \in arrived, NEW payload \in Payloads, ContainerAnswers(b, payload)
      PROVE  a \in arrived'
  BY <1>3, AnswerFacts
<1>4. CASE PageMoves
  BY <1>1, <1>4 DEF PageMoves, containerVars
<1>5. CASE \E by \in {Backend} \cup Ids, target \in Targets \cup {Empty},
              st \in {"failing", "unsent", "waiting"} : Made(by, target, st)
  BY <1>1, <1>5, MadeFacts
<1>6. CASE (\E t \in Called : ViewRequests(t)) \/ (\E n \in 1..Len(status) : FailLater(n))
           \/ Replies \/ OnToken \/ OnResult \/ (\E f \in Frames : ContainerSends(f))
  <2>1. UNCHANGED arrived
    BY <1>6, RequestFacts, FailFacts, ReplyFacts, TokenFacts, ResultFacts, SendFacts
  <2> QED
    BY <1>1, <2>1
<1> QED
  BY <1>2, <1>3, <1>4, <1>5, <1>6, ReplyCase DEF StepCases
\* The parts of Once.
Distinct ==
  \A i, j \in 1..Len(toContainer) :
    toContainer[i].kind = "Call" /\ toContainer[j].kind = "Call"
    /\ toContainer[i].id = toContainer[j].id => i = j
Underway ==
  \A i \in 1..Len(toContainer) : \A a \in arrived :
    toContainer[i].kind = "Call" => toContainer[i].id # a.id
Answered ==
  \A i \in 1..Len(toImage) : toImage[i].kind = "Result" =>
    \E a \in arrived : a.id = toImage[i].id /\ a.answer = toImage[i].payload

\* Once, part by part.
LEMMA OnceParts ==
  Once <=> /\ Distinct /\ Underway /\ Answered
           /\ \A a, b \in arrived : a.id = b.id => a = b
           /\ \A n \in 1..Len(calls) : status[n] \in {"failing", "unsent"} => Nowhere(n)
BY DEF Once, Distinct, Underway, Answered

\* A Result on its way is an answer the container gave.
LEMMA AnsweredNext ==
  ASSUME TypeOK, Lengths, Known, Answered, StepCases
  PROVE  Answered'
<1>0. Len(toImage) \in Nat /\ "none" \notin Payloads
  BY DEF TypeOK, Payloads
<1>1. \A i \in 1..Len(toImage) : toImage[i].kind = "Result" =>
        \E a \in arrived' : a.id = toImage[i].id /\ a.answer = toImage[i].payload
  <2> SUFFICES ASSUME NEW i \in 1..Len(toImage), toImage[i].kind = "Result"
               PROVE  \E a \in arrived' : a.id = toImage[i].id /\ a.answer = toImage[i].payload
    OBVIOUS
  <2>1. PICK a \in arrived : a.id = toImage[i].id /\ a.answer = toImage[i].payload
    BY DEF Answered
  <2>2. toImage[i] \in InFrames
    BY DEF TypeOK
  <2>3. a.answer # "none"
    BY <1>0, <2>1, <2>2, InFields
  <2> QED
    BY <2>1, <2>3, AnswerStays
<1>2. ASSUME Len(toImage) >= 1, Len(toImage') = Len(toImage) - 1,
             \A i \in 1..(Len(toImage) - 1) : toImage'[i] = toImage[i + 1]
      PROVE  Answered'
  BY <1>0, <1>1, <1>2, Shifted DEF Answered
<1>3. ASSUME toImage' = toImage
      PROVE  Answered'
  BY <1>1, <1>3 DEF Answered
<1>4. CASE Replies
  BY <1>2, <1>4, ReplyFacts
<1>5. CASE OnToken
  BY <1>2, <1>5, TokenFacts
<1>6. CASE OnResult
  BY <1>2, <1>6, ResultFacts
<1>7. ASSUME NEW f \in Frames, ContainerSends(f)
      PROVE  Answered'
  BY <1>0, <1>1, <1>7, SendFacts DEF Answered
<1>8. ASSUME NEW a \in arrived, NEW payload \in Payloads, ContainerAnswers(a, payload)
      PROVE  Answered'
  <2>1. PICK b : /\ arrived' = (arrived \ {a}) \cup {b}
                 /\ b.id = a.id /\ b.recognised = a.recognised /\ b.answer = payload
    BY <1>8, AnswerFacts, Zenon
  <2>2. /\ Len(toImage') = Len(toImage) + 1
        /\ \A i \in 1..Len(toImage) : toImage'[i] = toImage[i]
    BY <1>8, AnswerFacts, Zenon
  <2>3. toImage'[Len(toImage) + 1] = [kind |-> "Result", id |-> a.id, payload |-> payload]
    BY <1>8, AnswerFacts, Zenon
  <2>4. /\ toImage'[Len(toImage) + 1].id = a.id
        /\ toImage'[Len(toImage) + 1].payload = payload
    BY <2>3
  <2> QED
    BY <1>0, <1>1, <2>1, <2>2, <2>4 DEF Answered
<1>9. CASE PageMoves
  BY <1>3, <1>9 DEF PageMoves
<1>10. CASE \E by \in {Backend} \cup Ids, target \in Targets \cup {Empty},
               st \in {"failing", "unsent", "waiting"} : Made(by, target, st)
  BY <1>3, <1>10, MadeFacts
<1>11. CASE (\E t \in Called : ViewRequests(t)) \/ (\E n \in 1..Len(status) : FailLater(n))
            \/ ContainerTakes
  <2>1. toImage' = toImage
    BY <1>11, RequestFacts, FailFacts, ArriveFacts
  <2> QED
    BY <1>3, <2>1
<1> QED
  BY <1>4, <1>5, <1>6, <1>7, <1>8, <1>9, <1>10, <1>11, ReplyCase DEF StepCases

\* The streams of calls when nothing leaves or reaches the container.
LEMMA StillDistinct ==
  ASSUME Distinct, Underway, Len(toContainer) \in Nat, arrived' = arrived,
         \/ toContainer' = toContainer
         \/ /\ Len(toContainer') = Len(toContainer) + 1
            /\ \A i \in 1..Len(toContainer) : toContainer'[i] = toContainer[i]
            /\ \/ toContainer'[Len(toContainer) + 1].kind # "Call"
               \/ Nowhere(toContainer'[Len(toContainer) + 1].id)
  PROVE  Distinct' /\ Underway'
<1>1. CASE toContainer' = toContainer
  BY <1>1 DEF Distinct, Underway
<1>2. CASE toContainer' # toContainer
  <2> DEFINE N == Len(toContainer)
  <2>1. /\ Len(toContainer') = N + 1
        /\ \A i \in 1..N : toContainer'[i] = toContainer[i]
        /\ \/ toContainer'[N + 1].kind # "Call"
           \/ Nowhere(toContainer'[N + 1].id)
    BY <1>2
  <2>2. \A i \in 1..(N + 1) : i \in 1..N \/ i = N + 1
    OBVIOUS
  <2>3. toContainer'[N + 1].kind = "Call" =>
          /\ \A i \in 1..N : toContainer[i].kind = "Call" =>
               toContainer[i].id # toContainer'[N + 1].id
          /\ \A a \in arrived : a.id # toContainer'[N + 1].id
    BY <2>1 DEF Nowhere
  <2> HIDE DEF N
  <2>4. Distinct'
    BY <2>1, <2>2, <2>3 DEF Distinct, N
  <2>5. Underway'
    BY <2>1, <2>2, <2>3 DEF Underway, N
  <2> QED
    BY <2>4, <2>5
<1> QED
  BY <1>1, <1>2

\* A call is in one place.
LEMMA OnceNext == TypeOK /\ Lengths /\ Known /\ Once /\ [Next]_vars => Once'
<1> SUFFICES ASSUME TypeOK, Lengths, Known, Once, StepCases PROVE Once'
  BY NextCases
<1>0. Len(toContainer) \in Nat /\ Len(calls) \in Nat
  BY DEF TypeOK
<1>a. /\ Distinct /\ Underway /\ Answered
      /\ \A a, b \in arrived : a.id = b.id => a = b
      /\ \A n \in 1..Len(calls) : status[n] \in {"failing", "unsent"} => Nowhere(n)
  BY OnceParts
<1>b. Answered'
  BY <1>a, AnsweredNext
<1>c. \A n \in 1..Len(calls) : Nowhere(n) => Nowhere(n)'
  BY NowhereNext
<1> DEFINE Refused ==
      \A n \in 1..Len(calls') : status'[n] \in {"failing", "unsent"} => Nowhere(n)'
<1>d. ASSUME Distinct', Underway', \A a, b \in arrived' : a.id = b.id => a = b, Refused
      PROVE  Once'
  BY <1>b, <1>d DEF Once, Distinct, Underway, Answered
<1>e. ASSUME calls' = calls,
             \A n \in 1..Len(calls) : status'[n] \in {status[n], "done"}
      PROVE  Refused
  <2> SUFFICES ASSUME NEW n \in 1..Len(calls), status'[n] \in {"failing", "unsent"}
               PROVE  Nowhere(n)'
    BY <1>e
  <2>1. status[n] \in {"failing", "unsent"}
    BY <1>e
  <2> QED
    BY <1>a, <1>c, <2>1
<1> HIDE DEF Refused
<1>1. ASSUME UNCHANGED <<toContainer, arrived, calls>>,
             \A n \in 1..Len(calls) : status'[n] \in {status[n], "done"}
      PROVE  Once'
  <2>1. Distinct' /\ Underway'
    BY <1>0, <1>1, <1>a, StillDistinct
  <2> QED
    BY <1>1, <1>a, <1>d, <1>e, <2>1
<1>2. ASSUME NEW by \in {Backend} \cup Ids, NEW target \in Targets \cup {Empty},
             NEW st \in {"failing", "unsent", "waiting"}, Made(by, target, st)
      PROVE  Once'
  <2>0. PICK M \in Nat : M = Len(calls) + 1
    BY <1>0
  <2>1. Nowhere(M)
    <3>1. M \notin 1..Len(calls)
      BY <1>0, <2>0
    <3> QED
      BY <3>1 DEF Known, Nowhere
  <2>2. arrived' = arrived /\ Len(calls') = M
    BY <1>2, <2>0, MadeFacts
  <2>3. \/ toContainer' = toContainer
        \/ /\ st = "waiting" /\ Len(toContainer') = Len(toContainer) + 1
           /\ \A i \in 1..Len(toContainer) : toContainer'[i] = toContainer[i]
           /\ toContainer'[Len(toContainer) + 1].id = M
    <3>1. CASE st = "waiting"
      <4>1. /\ Len(toContainer') = Len(toContainer) + 1
            /\ \A i \in 1..Len(toContainer) : toContainer'[i] = toContainer[i]
            /\ toContainer'[Len(toContainer) + 1] = [kind |-> "Call", id |-> M]
        BY <1>2, <3>1, <2>0, MadeFacts
      <4>2. toContainer'[Len(toContainer) + 1].id = M
        BY <4>1
      <4> QED
        BY <3>1, <4>1, <4>2
    <3>2. CASE st # "waiting"
      BY <1>2, <3>2 DEF Made
    <3> QED
      BY <3>1, <3>2
  <2>4. Distinct' /\ Underway'
    BY <1>0, <1>a, <2>1, <2>2, <2>3, StillDistinct
  <2>5. Refused
    <3>1. ASSUME NEW n \in 1..Len(calls), status'[n] \in {"failing", "unsent"}
          PROVE  Nowhere(n)'
      <4>1. status'[n] = status[n]
        BY <1>2, <2>0, MadeFacts
      <4> QED
        BY <1>a, <1>c, <3>1, <4>1
    <3>2. ASSUME status'[M] \in {"failing", "unsent"} PROVE Nowhere(M)'
      <4>1. status'[M] = st
        BY <1>2, <2>0, MadeFacts
      <4>2. toContainer' = toContainer
        BY <1>2, <3>2, <4>1 DEF Made
      <4> QED
        BY <2>1, <2>2, <4>2 DEF Nowhere
    <3>3. \A n \in 1..M : n \in 1..Len(calls) \/ n = M
      BY <1>0, <2>0
    <3>4. \A n \in 1..M : status'[n] \in {"failing", "unsent"} => Nowhere(n)'
      <4> TAKE n \in 1..M
      <4>1. CASE n \in 1..Len(calls)
        BY <3>1, <4>1
      <4>2. CASE n = M
        BY <3>2, <4>2 DEF Nowhere
      <4> QED
        BY <3>3, <4>1, <4>2
    <3> QED
      BY <2>2, <3>4 DEF Refused
  <2> QED
    BY <1>a, <1>d, <2>2, <2>4, <2>5
<1>3. ASSUME NEW n \in 1..Len(status), FailLater(n)
      PROVE  Once'
  <2>1. n \in 1..Len(calls) /\ "error" \in Payloads /\ Settle(n, "error")
        /\ UNCHANGED <<toContainer, arrived, calls>>
    BY <1>3, FailFacts
  <2>2. \A m \in 1..Len(calls) : status'[m] \in {status[m], "done"}
    BY <2>1, SettleFacts
  <2> QED
    BY <1>1, <2>1, <2>2
<1>4. CASE OnResult
  <2>1. UNCHANGED <<toContainer, arrived, calls>>
    BY <1>4, ResultFacts
  <2>2. \A m \in 1..Len(calls) : status'[m] \in {status[m], "done"}
    BY <1>4, ResultFacts, SettleFacts
  <2> QED
    BY <1>1, <2>1, <2>2
<1>5. CASE Replies
  <2>1. /\ UNCHANGED <<arrived, calls, status>>
        /\ Len(toContainer') = Len(toContainer) + 1
        /\ \A i \in 1..Len(toContainer) : toContainer'[i] = toContainer[i]
        /\ toContainer'[Len(toContainer) + 1].kind # "Call"
    BY <1>5, ReplyFacts
  <2>2. Distinct' /\ Underway'
    BY <1>0, <1>a, <2>1, StillDistinct
  <2> QED
    BY <1>a, <1>d, <1>e, <2>1, <2>2
<1>6. CASE ContainerTakes
  <2>1. /\ Len(toContainer) >= 1 /\ Len(toContainer') = Len(toContainer) - 1
        /\ \A i \in 1..(Len(toContainer) - 1) : toContainer'[i] = toContainer[i + 1]
        /\ UNCHANGED <<calls, status>>
    BY <1>6, ArriveFacts
  <2>2. \A a \in arrived' : \/ a \in arrived
                            \/ toContainer[1].kind = "Call" /\ a.id = toContainer[1].id
                               /\ a = [id |-> toContainer[1].id, recognised |-> registered,
                                       answer |-> "none"]
    BY <1>6, ArriveFacts
  <2>3. \A i \in 1..Len(toContainer') :
          /\ i + 1 \in 1..Len(toContainer) /\ i + 1 # 1 /\ toContainer'[i] = toContainer[i + 1]
    BY <1>0, <2>1
  <2>4. Distinct'
    <3> SUFFICES ASSUME NEW i \in 1..Len(toContainer'), NEW j \in 1..Len(toContainer'),
                        toContainer'[i].kind = "Call", toContainer'[j].kind = "Call",
                        toContainer'[i].id = toContainer'[j].id
                 PROVE  i = j
      BY DEF Distinct
    <3>1. i + 1 = j + 1
      BY <1>a, <2>3 DEF Distinct
    <3>2. i \in Nat /\ j \in Nat
      OBVIOUS
    <3> QED
      BY <3>1, <3>2
  <2>5. Underway'
    <3> SUFFICES ASSUME NEW i \in 1..Len(toContainer'), NEW a \in arrived',
                        toContainer'[i].kind = "Call"
                 PROVE  toContainer'[i].id # a.id
      BY DEF Underway
    <3>1. CASE a \in arrived
      BY <1>a, <2>3, <3>1 DEF Underway
    <3>2. CASE toContainer[1].kind = "Call" /\ a.id = toContainer[1].id
      <4>1. 1 \in 1..Len(toContainer)
        BY <1>0, <2>1
      <4> QED
        BY <1>a, <2>3, <3>2, <4>1 DEF Distinct
    <3> QED
      BY <2>2, <3>1, <3>2
  <2>6. \A a, b \in arrived' : a.id = b.id => a = b
    <3>1. toContainer[1].kind = "Call" => \A a \in arrived : a.id # toContainer[1].id
      BY <1>0, <1>a, <2>1 DEF Underway
    <3> QED
      BY <1>a, <2>2, <3>1
  <2> QED
    BY <1>d, <1>e, <2>1, <2>4, <2>5, <2>6
<1>7. ASSUME NEW a \in arrived, NEW payload \in Payloads, ContainerAnswers(a, payload)
      PROVE  Once'
  <2>1. PICK b : arrived' = (arrived \ {a}) \cup {b} /\ b.id = a.id
    BY <1>7, AnswerFacts, Zenon
  <2>2. UNCHANGED <<toContainer, calls, status>>
    BY <1>7, AnswerFacts
  <2>3. Distinct'
    BY <1>a, <2>2 DEF Distinct
  <2>4. Underway'
    BY <1>a, <2>1, <2>2 DEF Underway
  <2>5. \A x, y \in arrived' : x.id = y.id => x = y
    BY <1>a, <2>1
  <2> QED
    BY <1>d, <1>e, <2>2, <2>3, <2>4, <2>5
<1>8. CASE PageMoves
  BY <1>1, <1>8 DEF PageMoves, callVars, containerVars
<1>9. CASE (\E t \in Called : ViewRequests(t)) \/ OnToken
           \/ (\E f \in Frames : ContainerSends(f))
  <2>1. UNCHANGED <<toContainer, arrived, calls, status>>
    BY <1>9, RequestFacts, TokenFacts, SendFacts
  <2> QED
    BY <1>1, <2>1
<1> QED
  BY <1>2, <1>3, <1>4, <1>5, <1>6, <1>7, <1>8, <1>9, ReplyCase DEF StepCases
\* Calls and requests only grow, and a callback that ran has run.
LEMMA CallsGrow ==
  ASSUME TypeOK, Lengths, Known, CallbackOnce, StepCases
  PROVE  /\ \A n \in 1..Len(calls) : /\ n \in 1..Len(calls') /\ calls'[n] = calls[n]
                                     /\ settled[n] = 1 => settled'[n] = 1
         /\ \A r \in 1..Len(requests) : requests'[r] = requests[r]
<1>0. Len(calls) \in Nat /\ Len(requests) \in Nat
  BY DEF TypeOK
<1>1. CASE UNCHANGED <<calls, settled, requests>>
  BY <1>1
<1>2. CASE \E by \in {Backend} \cup Ids, target \in Targets \cup {Empty},
              st \in {"failing", "unsent", "waiting"} : Made(by, target, st)
  BY <1>0, <1>2, MadeFacts
<1>3. CASE \E t \in Called : ViewRequests(t)
  BY <1>3, RequestFacts
<1>4. ASSUME NEW n \in 1..Len(calls), NEW payload \in Payloads, Settle(n, payload),
             status[n] # "done", UNCHANGED <<calls, requests>>
      PROVE  /\ \A m \in 1..Len(calls) : /\ m \in 1..Len(calls') /\ calls'[m] = calls[m]
                                         /\ settled[m] = 1 => settled'[m] = 1
             /\ \A r \in 1..Len(requests) : requests'[r] = requests[r]
  <2>1. settled[n] = 0
    BY <1>4, CallbackDef
  <2> QED
    BY <1>4, <2>1, SettleFacts
<1>5. ASSUME NEW n \in 1..Len(status), FailLater(n)
      PROVE  /\ \A m \in 1..Len(calls) : /\ m \in 1..Len(calls') /\ calls'[m] = calls[m]
                                         /\ settled[m] = 1 => settled'[m] = 1
             /\ \A r \in 1..Len(requests) : requests'[r] = requests[r]
  <2>1. /\ n \in 1..Len(calls) /\ status[n] # "done" /\ "error" \in Payloads
        /\ Settle(n, "error") /\ UNCHANGED <<calls, requests>>
    BY <1>5, FailFacts
  <2> QED
    BY <1>4, <2>1
<1>6. CASE OnResult
  <2>1. UNCHANGED <<calls, requests>>
    BY <1>6, ResultFacts
  <2>2. CASE UNCHANGED settled
    BY <1>1, <2>1, <2>2
  <2>3. CASE ~UNCHANGED settled
    <3>1. /\ toImage[1].id \in 1..Len(calls) /\ toImage[1].payload \in Payloads
          /\ Settle(toImage[1].id, toImage[1].payload) /\ status[toImage[1].id] # "done"
      BY <1>6, <2>3, ResultFacts
    <3> QED
      BY <1>4, <2>1, <3>1
  <2> QED
    BY <2>2, <2>3
<1>7. CASE PageMoves
  BY <1>1, <1>7 DEF PageMoves, callVars, viewVars
<1>8. CASE Replies \/ OnToken \/ (\E f \in Frames : ContainerSends(f)) \/ ContainerTakes
           \/ (\E a \in arrived, payload \in Payloads : ContainerAnswers(a, payload))
  <2>1. UNCHANGED <<calls, settled, requests>>
    BY <1>8, ReplyFacts, TokenFacts, SendFacts, ArriveFacts, AnswerFacts
  <2> QED
    BY <1>1, <2>1
<1> QED
  BY <1>2, <1>3, <1>5, <1>6, <1>7, <1>8, ReplyCase DEF StepCases

\* Call n is the one request r was completed for, with outcome c.
Completes(n, r, c) ==
  /\ calls[n].request = r /\ calls[n].target = requests[r] /\ settled[n] = 1
  /\ \/ c = "error" /\ Nowhere(n)
     \/ \E a \in arrived : a.id = n /\ a.answer = c

\* What a request was completed with does not change.
LEMMA CompletesStays ==
  ASSUME TypeOK, Lengths, Known, CallbackOnce, StepCases,
         NEW n \in 1..Len(calls), NEW r \in 1..Len(requests), NEW c \in Payloads,
         Completes(n, r, c)
  PROVE  n \in 1..Len(calls') /\ Completes(n, r, c)'
<1>1. /\ n \in 1..Len(calls') /\ calls'[n] = calls[n] /\ settled'[n] = 1
      /\ requests'[r] = requests[r]
  BY CallsGrow DEF Completes
<1>2. CASE c = "error" /\ Nowhere(n)
  BY <1>1, <1>2, NowhereNext DEF Completes
<1>3. ASSUME NEW a \in arrived, a.id = n, a.answer = c
      PROVE  Completes(n, r, c)'
  <2>1. a \in arrived'
    BY <1>3, AnswerStays DEF Payloads
  <2> QED
    BY <1>1, <1>3, <2>1 DEF Completes
<1> QED
  BY <1>1, <1>2, <1>3 DEF Completes

\* A completed request has its own call's outcome.
LEMMA OutcomeNext ==
  TypeOK /\ Lengths /\ Known /\ Dispatched /\ Once /\ CallbackOnce /\ Outcome /\ [Next]_vars
    => Outcome'
<1> SUFFICES ASSUME TypeOK, Lengths, Known, Dispatched, Once, CallbackOnce, Outcome,
                    StepCases
             PROVE  Outcome'
  BY NextCases
<1>0. /\ Len(completed) \in Nat /\ Len(completed) = Len(requests)
      /\ \A r \in 1..Len(completed) : completed[r] \in Payloads \cup {"none"}
  BY DEF TypeOK
<1>a. \A r \in 1..Len(completed) : completed[r] # "none" =>
        \E n \in 1..Len(calls) : Completes(n, r, completed[r])
  BY DEF Outcome, Completes
<1> DEFINE Stays(r) == completed'[r] # "none" =>
             \E n \in 1..Len(calls') : Completes(n, r, completed[r])'
<1>b. ASSUME Len(completed') = Len(completed), \A r \in 1..Len(completed) : Stays(r)
      PROVE  Outcome'
  BY <1>b DEF Outcome, Completes
<1>c. ASSUME NEW r \in 1..Len(completed), completed'[r] = completed[r]
      PROVE  Stays(r)
  <2> SUFFICES ASSUME completed[r] # "none"
               PROVE  \E n \in 1..Len(calls') : Completes(n, r, completed[r])'
    BY <1>c
  <2>1. PICK c \in Payloads : c = completed[r]
    BY <1>0
  <2>2. PICK n \in 1..Len(calls) : Completes(n, r, c)
    BY <1>a, <2>1
  <2>3. n \in 1..Len(calls') /\ Completes(n, r, c)'
    BY <1>0, <2>2, CompletesStays
  <2> QED
    BY <1>c, <2>1, <2>3 DEF Completes
<1>1. ASSUME completed' = completed
      PROVE  Outcome'
  <2> HIDE DEF Stays
  <2> QED
    BY <1>1, <1>b, <1>c
<1>2. ASSUME NEW t \in Called, ViewRequests(t)
      PROVE  Outcome'
  <2>1. /\ Len(completed') = Len(completed) + 1
        /\ \A r \in 1..Len(completed) : completed'[r] = completed[r]
        /\ completed'[Len(completed) + 1] = "none"
    BY <1>0, <1>2, RequestFacts
  <2>2. \A r \in 1..(Len(completed) + 1) : r \in 1..Len(completed) \/ r = Len(completed) + 1
    BY <1>0
  <2>3. \A r \in 1..Len(completed) : Stays(r)
    BY <1>c, <2>1
  <2> QED
    BY <2>1, <2>2, <2>3 DEF Outcome, Completes
<1>3. ASSUME NEW n \in 1..Len(calls), NEW payload \in Payloads, Settle(n, payload),
             status[n] # "done", UNCHANGED <<calls, requests, arrived, toContainer>>,
             \/ payload = "error" /\ Nowhere(n)
             \/ \E a \in arrived : a.id = n /\ a.answer = payload
      PROVE  Outcome'
  <2>1. /\ Len(completed') = Len(completed)
        /\ settled'[n] = settled[n] + 1
        /\ \A r \in 1..Len(completed) :
             completed'[r] = IF r = calls[n].request THEN payload ELSE completed[r]
    BY <1>3, SettleFacts
  <2>2. settled[n] = 0
    BY <1>3, CallbackDef
  <2>3. ASSUME NEW r \in 1..Len(completed), r = calls[n].request
        PROVE  Stays(r)
    <3>1. calls[n].request # Backend
      BY <2>3 DEF Backend
    <3>2. calls'[n].request = r /\ calls'[n].target = requests'[r] /\ settled'[n] = 1
      BY <1>3, <2>1, <2>2, <2>3, <3>1 DEF Dispatched
    <3>3. completed'[r] = payload
      BY <2>1, <2>3
    <3>4. \/ payload = "error" /\ Nowhere(n)'
          \/ \E a \in arrived' : a.id = n /\ a.answer = payload
      BY <1>3 DEF Nowhere
    <3>5. Completes(n, r, completed[r])'
      BY <3>2, <3>3, <3>4 DEF Completes
    <3> QED
      BY <1>3, <3>5
  <2> HIDE DEF Stays
  <2>4. \A r \in 1..Len(completed) : Stays(r)
    BY <1>c, <2>1, <2>3
  <2> QED
    BY <1>b, <2>1, <2>4
<1>4. ASSUME NEW n \in 1..Len(status), FailLater(n)
      PROVE  Outcome'
  <2>1. /\ n \in 1..Len(calls) /\ status[n] \in {"failing", "unsent"} /\ "error" \in Payloads
        /\ Settle(n, "error") /\ UNCHANGED <<calls, requests, arrived, toContainer>>
    BY <1>4, FailFacts
  <2>2. Nowhere(n)
    BY <2>1 DEF Once
  <2> QED
    BY <1>3, <2>1, <2>2
<1>5. CASE OnResult
  <2>1. UNCHANGED <<calls, requests, arrived, toContainer>>
    BY <1>5, ResultFacts
  <2>2. CASE completed' = completed
    BY <1>1, <2>2
  <2>3. CASE completed' # completed
    <3> DEFINE n == toImage[1].id
               payload == toImage[1].payload
    <3>1. /\ n \in 1..Len(calls) /\ payload \in Payloads
          /\ Settle(n, payload) /\ status[n] # "done"
      BY <1>5, <2>3, ResultFacts
    <3>2. \E a \in arrived : a.id = n /\ a.answer = payload
      <4>1. 1 \in 1..Len(toImage) /\ toImage[1].kind = "Result"
        BY <1>5, ResultFacts
      <4> QED
        BY <4>1 DEF Once
    <3> HIDE DEF n, payload
    <3> QED
      BY <1>3, <2>1, <3>1, <3>2
  <2> QED
    BY <2>2, <2>3
<1>6. CASE PageMoves
  BY <1>1, <1>6 DEF PageMoves, callVars
<1>7. CASE \E by \in {Backend} \cup Ids, target \in Targets \cup {Empty},
              st \in {"failing", "unsent", "waiting"} : Made(by, target, st)
  BY <1>1, <1>7, MadeFacts
<1>8. CASE Replies \/ OnToken \/ (\E f \in Frames : ContainerSends(f)) \/ ContainerTakes
           \/ (\E a \in arrived, payload \in Payloads : ContainerAnswers(a, payload))
  <2>1. completed' = completed
    BY <1>8, ReplyFacts, TokenFacts, SendFacts, ArriveFacts, AnswerFacts
  <2> QED
    BY <1>1, <2>1
<1> QED
  BY <1>2, <1>4, <1>5, <1>6, <1>7, <1>8, ReplyCase DEF StepCases

\* The answers are unique, so the outcome of the call is the one the property reads.
LEMMA AnswerFromOutcome == TypeOK /\ Once /\ Outcome => RequestGetsItsAnswer
<1>1. TypeOK => DOMAIN completed = 1..Len(completed) /\ DOMAIN calls = 1..Len(calls)
  BY DEF TypeOK
<1> SUFFICES ASSUME TypeOK, Once, Outcome, NEW r \in 1..Len(completed), completed[r] # "none"
             PROVE  \E n \in 1..Len(calls) :
                      /\ calls[n].request = r /\ calls[n].target = requests[r]
                      /\ settled[n] = 1
                      /\ completed[r] = IF \E a \in arrived : a.id = n /\ a.answer = "value"
                                        THEN "value" ELSE "error"
  BY <1>1 DEF RequestGetsItsAnswer
<1>2. PICK n \in 1..Len(calls) :
        /\ calls[n].request = r /\ calls[n].target = requests[r] /\ settled[n] = 1
        /\ \/ completed[r] = "error" /\ Nowhere(n)
           \/ \E a \in arrived : a.id = n /\ a.answer = completed[r]
  BY DEF Outcome
<1>3. completed[r] \in {"value", "error"}
  BY DEF TypeOK, Payloads
<1>4. CASE completed[r] = "error" /\ Nowhere(n)
  BY <1>2, <1>4 DEF Nowhere
<1>5. ASSUME NEW a \in arrived, a.id = n, a.answer = completed[r]
      PROVE  completed[r] = IF \E b \in arrived : b.id = n /\ b.answer = "value"
                            THEN "value" ELSE "error"
  <2>1. \A b \in arrived : b.id = n => b = a
    BY <1>5 DEF Once
  <2> QED
    BY <1>3, <1>5, <2>1
<1> QED
  BY <1>2, <1>4, <1>5

-----------------------------------------------------------------------------
(* The theorems. *)

\* One step preserves the invariant.
THEOREM Inductive == IInv /\ [Next]_vars => IInv'
<1> SUFFICES ASSUME IInv, [Next]_vars PROVE IInv'
  OBVIOUS
<1>0. /\ TypeOK /\ Lengths /\ Known /\ Loaded /\ Dispatched /\ Contracted /\ Latest
      /\ Once /\ Outcome /\ CallbackOnce /\ AdmittedCallsRecognised /\ ViewNeverRacesBridge
  BY DEF IInv
<1>1. TypeOK' /\ Lengths' /\ Known' /\ Loaded'
  BY <1>0, TypeNext, KnownNext, LoadedNext
<1>2. Dispatched' /\ Contracted' /\ Latest'
  BY <1>0, DispatchedNext, ContractedNext, LatestNext
<1>3. Once' /\ Outcome' /\ CallbackOnce'
  BY <1>0, OnceNext, OutcomeNext, CallbackNext
<1>4. AdmittedCallsRecognised' /\ ViewNeverRacesBridge'
  BY <1>0, AdmittedNext, NeverRacesNext
<1> QED
  BY <1>1, <1>2, <1>3, <1>4 DEF IInv

\* The invariant of the image, its page and its container.
THEOREM Invariance == Spec => []IInv
BY InitInv, Inductive, PTL DEF Spec

\* The state stays within its types, whatever the page loads and the container sends.
THEOREM TypeCorrect == Spec => []TypeOK
<1>1. IInv => TypeOK
  BY DEF IInv
<1> QED
  BY <1>1, Invariance, PTL

\* hostAdmitted(): a call made once it holds reaches the core after the answer
\* that makes the core register the module's credential.
THEOREM AdmissionIsSafe == Spec => []AdmittedCallsRecognised
<1>1. IInv => AdmittedCallsRecognised
  BY DEF IInv
<1> QED
  BY <1>1, Invariance, PTL

\* onToken, callModuleAsync: a call carries the latest token granted for its
\* target when it is made.
THEOREM CallsCarryTheLatestGrant == Spec => []CarriesLatestGrant
<1>1. IInv => CarriesLatestGrant
  BY CarriesFromLatest DEF IInv
<1> QED
  BY <1>1, Invariance, PTL

\* callModuleAsync: a callback runs at most once, and its call is never lost on
\* the way to it.
THEOREM CallbacksRunOnce == Spec => []CallbackOnce
<1>1. IInv => CallbackOnce
  BY DEF IInv
<1> QED
  BY <1>1, Invariance, PTL

\* bindContainerChannel before the view: no call of a view is refused by a
\* channel without a sink while there is a container.
THEOREM ViewIsBehindTheBridge == Spec => []ViewNeverRacesBridge
<1>1. IInv => ViewNeverRacesBridge
  BY DEF IInv
<1> QED
  BY <1>1, Invariance, PTL

\* dispatchModuleCall: a request of the view is completed with the outcome of
\* the call made for it, however the answers are reordered.
THEOREM RequestsGetTheirAnswers == Spec => []RequestGetsItsAnswer
<1>1. IInv => RequestGetsItsAnswer
  BY AnswerFromOutcome DEF IInv
<1> QED
  BY <1>1, Invariance, PTL
=============================================================================
