--------------------------- MODULE CircuitBreaker ---------------------------
(***************************************************************************)
(* The generic circuit breaker (foundation/resilience.py, CircuitBreaker). *)
(* Each method runs under the breaker's lock, so it is one step of whoever *)
(* calls it; this module has the steps, and the modules that extend it the *)
(* callers.  The clock is kept as the time left of the cooldown: the code  *)
(* only asks whether time.monotonic() has reached _open_until.  The count  *)
(* of failures stops at the threshold, the only value it is compared with. *)
(***************************************************************************)
EXTENDS Integers

CONSTANTS Threshold,     \* failure_threshold
          BaseCooldown,  \* cooldown_secs, in ticks
          MaxCooldown    \* max_cooldown_secs, in ticks

ASSUME BreakerAssumption ==
    /\ Threshold \in Nat \ {0}
    /\ BaseCooldown \in Nat \ {0}
    /\ MaxCooldown \in Nat
    /\ BaseCooldown <= MaxCooldown

VARIABLES
    state,         \* _state
    failures,      \* _consecutive_failures, up to Threshold
    wait,          \* what is left of _open_until - time.monotonic(), at least 0
    cooldown,      \* _current_cooldown
    probeAllowed   \* _probe_allowed

breaker == <<state, failures, wait, cooldown, probeAllowed>>

BreakerTypeOK ==
    /\ state \in {"closed", "open", "half_open"}
    /\ failures \in 0 .. Threshold
    /\ wait \in 0 .. MaxCooldown
    /\ cooldown \in BaseCooldown .. MaxCooldown
    /\ probeAllowed \in BOOLEAN

BreakerInit ==
    /\ state = "closed"
    /\ failures = 0
    /\ wait = 0
    /\ cooldown = BaseCooldown
    /\ probeAllowed = TRUE

Smaller(a, b) == IF a <= b THEN a ELSE b

\* There is a probe to grant: the cooldown has just run out, or nobody took it.
ProbeFree ==
    \/ state = "half_open" /\ probeAllowed
    \/ state = "open" /\ wait = 0

\* is_open() returns False: the breaker is closed.
AdmitClosed == state = "closed" /\ UNCHANGED breaker

\* is_open() returns False: the caller is the probe of the half-open breaker.
AdmitProbe ==
    /\ ProbeFree
    /\ state' = "half_open"
    /\ probeAllowed' = FALSE
    /\ UNCHANGED <<failures, wait, cooldown>>

\* is_open() returns True.
IsOpen == state # "closed" /\ ~ProbeFree

\* A success forgets the failures, and the probe's success the backoff as well.
RecordSuccess ==
    /\ failures' = 0
    /\ state' = IF state = "half_open" THEN "closed" ELSE state
    /\ cooldown' = IF state = "half_open" THEN BaseCooldown ELSE cooldown
    /\ UNCHANGED <<wait, probeAllowed>>

\* A mutated form of RecordFailure: a failure of the half-open breaker is only counted.
RecordFailureCountsOnly ==
    /\ failures' = Smaller(failures + 1, Threshold)
    /\ state' = IF state = "closed" /\ failures' = Threshold THEN "open" ELSE state
    /\ wait' = IF state' # state THEN cooldown ELSE wait
    /\ UNCHANGED <<cooldown, probeAllowed>>

\* A failed probe opens the breaker again for twice as long, the last tolerated
\* failure of a closed one opens it for the present cooldown.
RecordFailure ==
    /\ failures' = Smaller(failures + 1, Threshold)
    /\ cooldown' = IF state = "half_open" THEN Smaller(cooldown * 2, MaxCooldown) ELSE cooldown
    /\ state' = IF state = "half_open" \/ failures' = Threshold THEN "open" ELSE state
    /\ wait' = IF state' # state THEN cooldown' ELSE wait
    /\ UNCHANGED probeAllowed

Reset ==
    /\ state' = "closed"
    /\ failures' = 0
    /\ wait' = 0
    /\ cooldown' = BaseCooldown
    /\ probeAllowed' = TRUE

\* time.monotonic() advances.
Elapse ==
    /\ wait > 0
    /\ wait' = wait - 1
    /\ UNCHANGED <<state, failures, cooldown, probeAllowed>>

\* Whatever the callers report and in whatever order, a closed breaker has
\* forgotten the outage before: fewer failures than the threshold, no backoff.
ClosedIsReset == state = "closed" => failures < Threshold /\ cooldown = BaseCooldown
=============================================================================
