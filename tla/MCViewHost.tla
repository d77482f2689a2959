----------------------------- MODULE MCViewHost -----------------------------
(* Model-checking instance of ViewHost: one foreign module, two credentials. *)
EXTENDS ViewHost

CONSTANTS M, other, t1, t2, none, empty

MCTargets == {M, other}
MCCalled == {other, empty}
MCTokens == {t1, t2}
MCFrames ==
  [kind : {"Methods"}, object : {M, empty}]
  \cup [kind : {"Token"}, module : {other}, token : {t1, t2, none}]
  \cup [kind : {"Token"}, module : {M}, token : {t1}]
  \cup {[kind |-> "Call"]}
=============================================================================
