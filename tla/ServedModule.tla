---------------------------- MODULE ServedModule ----------------------------
(***************************************************************************)
(* What a container may rely on from a `web` variant, whatever is behind   *)
(* the channel: the requests it sends are answered one for one and in the  *)
(* order it sent them, until the page reports the module's death by        *)
(* closing the channel; after that nothing arrives.  A module whose image  *)
(* never came up is mute: the channel stays open and nothing answers on    *)
(* it, which the container settles with a time-out of its own.             *)
(***************************************************************************)
EXTENDS Naturals, Sequences

CONSTANT Ids    \* request ids

VARIABLES
  asked,        \* ids of the requests sent, in order
  answers,      \* ids of the answers received, in order
  state         \* "open", "mute" or "closed"

vars == <<asked, answers, state>>

Init == asked = <<>> /\ answers = <<>> /\ state = "open"

Ask(id) ==
  /\ state # "closed"
  /\ asked' = Append(asked, id)
  /\ UNCHANGED <<answers, state>>

Answer ==
  /\ state = "open" /\ Len(answers) < Len(asked)
  /\ answers' = Append(answers, asked[Len(answers) + 1])
  /\ UNCHANGED <<asked, state>>

FailToLoad ==
  /\ state = "open" /\ answers = <<>>
  /\ state' = "mute"
  /\ UNCHANGED <<asked, answers>>

Die ==
  /\ state # "closed"
  /\ state' = "closed"
  /\ UNCHANGED <<asked, answers>>

Next == (\E id \in Ids : Ask(id)) \/ Answer \/ FailToLoad \/ Die

\* An open module that owes an answer gives it, dies or turns out mute.
Settle ==
  /\ state = "open" /\ Len(answers) < Len(asked)
  /\ Answer \/ FailToLoad \/ Die

Safety == Init /\ [][Next]_vars
Spec == Safety /\ WF_vars(Settle)
=============================================================================
