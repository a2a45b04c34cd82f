---------------------------- MODULE BreakerCalls ----------------------------
(***************************************************************************)
(* Concurrent callers of a CircuitBreaker that keep to the usage pattern   *)
(* of its docstring (resilience.py:86-96): ask is_open(), call the         *)
(* service, report the result.  A call is in flight between the first and  *)
(* the last of these, and the breaker may change state meanwhile.          *)
(***************************************************************************)
EXTENDS CircuitBreaker

CONSTANT Calls   \* call sites that may be in flight at the same time

VARIABLES call,  \* call[c]: how the call in flight was admitted
          up     \* the external service answers

callVars == <<breaker, call, up>>

CallsTypeOK ==
    /\ BreakerTypeOK
    /\ call \in [Calls -> {"none", "closed", "probe"}]
    /\ up \in BOOLEAN

CallsInit ==
    /\ BreakerInit
    /\ call = [c \in Calls |-> "none"]
    /\ up = TRUE

Begin(c) ==
    /\ call[c] = "none"
    /\ \/ AdmitClosed /\ call' = [call EXCEPT ![c] = "closed"]
       \/ AdmitProbe /\ call' = [call EXCEPT ![c] = "probe"]
    /\ UNCHANGED up

Succeed(c) ==
    /\ call[c] # "none"
    /\ up
    /\ RecordSuccess
    /\ call' = [call EXCEPT ![c] = "none"]
    /\ UNCHANGED up

Fail(c) ==
    /\ call[c] # "none"
    /\ ~up
    /\ RecordFailure
    /\ call' = [call EXCEPT ![c] = "none"]
    /\ UNCHANGED up

CooldownElapses == Elapse /\ UNCHANGED <<call, up>>

ResetByHand == Reset /\ UNCHANGED <<call, up>>

Outage == up' = ~up /\ UNCHANGED <<breaker, call>>

CallsNext ==
    \/ \E c \in Calls : Begin(c) \/ Succeed(c) \/ Fail(c)
    \/ CooldownElapses \/ ResetByHand \/ Outage

CallsSpec == CallsInit /\ [][CallsNext]_callVars

-----------------------------------------------------------------------------
\* A half-open breaker turns every caller away, so there must be a probe in flight
\* whose result will move it on.
HalfOpenHasProbe ==
    state = "half_open" => ~probeAllowed /\ \E c \in Calls : call[c] = "probe"

\* When the service is back for good, the breaker closes and stays closed: no
\* order of late results, probes and cooldowns keeps it open.
Recovers == <>[]up => <>[](state = "closed")

\* resilience.py:199, "Probe succeeded - service is back, close the breaker" (and
\* :225 for a failure): a half-open breaker moves on its probe's result only, a
\* reset aside.
ProbeDecides ==
    [][state = "half_open" /\ state' # "half_open" =>
          \/ state' = "closed" /\ cooldown' = BaseCooldown /\ call' = call
          \/ \E c \in Calls : call[c] = "probe" /\ call'[c] = "none"]_callVars
=============================================================================
