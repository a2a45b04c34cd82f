----------------------------- MODULE MCHosting -----------------------------
(* Two calls whose fragments mix, a delegation event and an abort or a     *)
(* disconnect anywhere; a request and two traces around the start and   *)
(* the end of a process that runs twice.                                    *)
EXTENDS Hosting
CONSTANTS a, b, saved, s1, t1, t2
MCCalls == {a, b}
\* What b sends first, a may send too: a stands for the call that opens first.
MCSaid == [kind : {"text", "server"}]
  \cup [kind : {"function_call"}, id : {a}, fragment : {"none", "head", "tail", "whole"}]
  \cup [kind : {"function_call"}, id : {b}, fragment : {"head", "whole"}]
  \cup [kind : {"function_call"}, id : {NoCall}, fragment : {"tail", "whole"}]
  \cup [kind : {"function_result"}, id : {a}]
MCTemplates == {saved}
MCSessions == {s1}
MCTraces == {t1, t2}
=============================================================================
