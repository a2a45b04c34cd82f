----------------------------- MODULE Resilience -----------------------------
(***************************************************************************)
(* What stands between the program and services that fail: the circuit     *)
(* breaker with its callers, the retries of the agent provider, and the    *)
(* run loop of the kernel.  They share no state, so a behaviour follows    *)
(* the one that was chosen at its start.                                   *)
(***************************************************************************)
EXTENDS BreakerCalls, AgentRun, RunLoop

VARIABLE guard   \* "breaker", "provider" or "loop"

resilienceVars == <<guard, callVars, agentVars, vars>>

ResilienceInit ==
    /\ guard \in {"breaker", "provider", "loop"}
    /\ CallsInit /\ AgentInit /\ Init

Breaker(A)  == guard = "breaker" /\ A /\ UNCHANGED <<guard, agentVars, vars>>
Provider(A) == guard = "provider" /\ A /\ UNCHANGED <<guard, callVars, vars>>
Loop(A)     == guard = "loop" /\ A /\ UNCHANGED <<guard, callVars, agentVars>>

ResilienceNext == Breaker(CallsNext) \/ Provider(AgentNext) \/ Loop(Next)

(***************************************************************************)
(* Fairness.  A call through the breaker comes back with a result, time    *)
(* passes, and there is demand.  The consumer of the loop asks for the     *)
(* next event, timers go off and sleeps end; its agent may fall silent.    *)
(***************************************************************************)
Fairness ==
    /\ WF_resilienceVars(Breaker(CooldownElapses))
    /\ \A c \in Calls : /\ WF_resilienceVars(Breaker(Succeed(c) \/ Fail(c)))
                        /\ WF_resilienceVars(Breaker(Begin(c)))
    /\ WF_resilienceVars(Loop(LoopStep))

ResilienceSpec == ResilienceInit /\ [][ResilienceNext]_resilienceVars /\ Fairness
=============================================================================
