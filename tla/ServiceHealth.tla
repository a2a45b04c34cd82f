---------------------------- MODULE ServiceHealth ----------------------------
(***************************************************************************)
(* GET /api/services/health: three checks that run together, each behind a *)
(* cache of its own, mapped through the circuit breakers to one verdict.   *)
(* Requests overlap: a slow check of an earlier one may overwrite what a   *)
(* later one found.  Every check reads its service once, at some moment    *)
(* between its start and its end.                                          *)
(***************************************************************************)
EXTENDS Integers

CONSTANTS Services,   \* "ai_foundry" is among them and the only critical one checked
          Callers,    \* requests
          TTL,        \* _CACHE_TTL_SECONDS
          MaxTime,    \* bound: the clock
          MaxChanges  \* bound: changes of a service

ASSUME HealthAssumption ==
  "ai_foundry" \in Services /\ TTL \in Nat \ {0} /\ MaxTime \in Nat /\ MaxChanges \in Nat

VARIABLES clock, live, changes, cache, checks, began, verdict

world == <<live, changes>>
healthVars == <<clock, world, cache, checks, began, verdict>>

\* What a check found, and when; stamp is the time its request gave it.
Nothing == [at |-> "none", status |-> "none", seen |-> 0, stamp |-> 0]

Fresh30(entry) == entry.status # "none" /\ clock - entry.stamp < TTL

\* _cached_check: the time is taken before the check starts.
StampLate(c, s) == clock
Stamp(c, s) == checks[c][s].stamp

Asks(c) ==
  /\ began[c] = -1 /\ began' = [began EXCEPT ![c] = clock]
  /\ checks' = [checks EXCEPT ![c] = [s \in Services |->
       IF Fresh30(cache[s]) THEN [cache[s] EXCEPT !.at = "done"]
       ELSE [Nothing EXCEPT !.at = "checking", !.stamp = clock]]]
  /\ UNCHANGED <<clock, world, cache, verdict>>

Looks(c, s) ==
  /\ checks[c][s].at = "checking"
  /\ checks' = [checks EXCEPT ![c][s].at = "looked", ![c][s].status = live[s],
                              ![c][s].seen = clock]
  /\ UNCHANGED <<clock, world, cache, began, verdict>>

Answers(c, s) ==
  /\ checks[c][s].at = "looked"
  /\ checks' = [checks EXCEPT ![c][s].at = "done"]
  /\ cache' = [cache EXCEPT ![s] = [checks[c][s] EXCEPT !.at = "none", !.stamp = Stamp(c, s)]]
  /\ UNCHANGED <<clock, world, began, verdict>>

\* _breaker_to_status: a breaker that is not closed hides what the check found.
Status(c, s, breakers) == CASE breakers[s] = "open" -> "throttled"
                            [] breakers[s] = "half-open" -> "degraded"
                            [] OTHER -> checks[c][s].status

\* _compute_overall_status; session_store is always up.
Overall(status) ==
  IF status["ai_foundry"] = "disconnected" THEN "unhealthy"
  ELSE IF \A s \in Services : status[s] \in {"connected", "not_configured"} THEN "healthy"
  ELSE "degraded"

\* The breakers are read when the checks are done, in whatever state they are then.
Reports(c) ==
  /\ verdict[c] = "none" /\ \A s \in Services : checks[c][s].at = "done"
  /\ \E breakers \in [Services -> {"closed", "open", "half-open"}] :
       verdict' = [verdict EXCEPT ![c] = Overall([s \in Services |-> Status(c, s, breakers)])]
  /\ UNCHANGED <<clock, world, cache, checks, began>>

\* The services and time.
Changes(s) ==
  /\ changes < MaxChanges /\ changes' = changes + 1 /\ live[s] # "not_configured"
  /\ live' = [live EXCEPT ![s] = IF @ = "connected" THEN "disconnected" ELSE "connected"]
  /\ UNCHANGED <<clock, cache, checks, began, verdict>>
Tick == clock < MaxTime /\ clock' = clock + 1
        /\ UNCHANGED <<world, cache, checks, began, verdict>>

HealthInit ==
  /\ clock = 0 /\ changes = 0
  /\ live \in [Services -> {"connected", "not_configured"}]
  /\ cache = [s \in Services |-> Nothing] /\ began = [c \in Callers |-> -1]
  /\ checks = [c \in Callers |-> [s \in Services |-> Nothing]]
  /\ verdict = [c \in Callers |-> "none"]

HealthNext == \/ Tick \/ \E s \in Services : Changes(s)
              \/ \E c \in Callers : \/ Asks(c) \/ Reports(c)
                                    \/ \E s \in Services : Looks(c, s) \/ Answers(c, s)

HealthSpec == HealthInit /\ [][HealthNext]_healthVars

(***************************************************************************)
(* Properties                                                              *)
(***************************************************************************)
\* A verdict rests on what every service was seen to be, by this request or another,
\* at most TTL before the request began, however slow the checks of others were.
VerdictIsFresh ==
  \A c \in Callers : verdict[c] # "none" =>
    /\ \A s \in Services : checks[c][s].status # "none" /\ began[c] - checks[c][s].seen < TTL
    /\ verdict[c] = "healthy" => \A s \in Services : checks[c][s].status # "disconnected"
    /\ verdict[c] = "unhealthy" => checks[c]["ai_foundry"].status = "disconnected"
=============================================================================
