---------------------------- MODULE MCWebVariant ----------------------------
(* Model-checking instance of WebVariant: one credential, calls with and    *)
(* without it, a wildcard subscription and the reply to one outbound call.  *)
EXTENDS WebVariant

CONSTANTS M, t1, none, a, nobody, doc, absent, ev, any

MCFrames ==
  LET ids == 1..MaxFrames IN
  [id : ids, kind : {"Call"}, object : {M}, auth : {t1, none}, caller : {absent}]
  \cup [id : ids, kind : {"Subscribe"}, object : {M}, event : {any}]
  \cup [id : ids, kind : {"Token"}, module : {a}, token : {t1}]
  \cup [id : ids, kind : {"Result"}, re : 1..MaxInvokes]

MCObjects == {M}
MCTokens == {t1}
MCModules == {a}
MCCallers == {doc}
MCEvents == {ev, any}
=============================================================================
