----------------------------- MODULE MCWasmHost -----------------------------
(* Model-checking instance of WasmHost: one module, a foreign object name,  *)
(* two credentials granted by two modules, one relayed caller document, one *)
(* event and the wildcard.                                                  *)
EXTENDS WasmHost

CONSTANTS M, X, t1, t2, none, a, b, nobody, doc, absent, ev, any

MCFrames ==
  LET ids == 1..MaxFrames IN
  [id : ids, kind : {"Call"}, object : {M}, auth : {t1, none}, caller : {absent}]
  \cup [id : ids, kind : {"Call"}, object : {M}, auth : {t1}, caller : {doc}]
  \cup [id : ids, kind : {"Call"}, object : {X}, auth : {t1}, caller : {absent}]
  \cup [id : ids, kind : {"Methods"}, object : {M}]
  \cup [id : ids, kind : {"Subscribe"}, object : {M}, event : {ev, any}]
  \cup [id : ids, kind : {"Unsubscribe"}, object : {M}, event : {ev}]
  \cup [id : ids, kind : {"Token"}, module : {a}, token : {t1, t2}]
  \cup [id : ids, kind : {"Token"}, module : {b, nobody}, token : {t1}]
  \cup [id : ids, kind : {"Token"}, module : {a}, token : {none}]
  \cup [id : ids, kind : {"Result"}, re : 1..MaxInvokes]

MCObjects == {M, X}
MCTokens == {t1, t2}
MCModules == {a, b}
MCCallers == {doc}
MCEvents == {ev, any}
=============================================================================
