--------------------------- MODULE EndpointProofs ---------------------------
(***************************************************************************)
(* The parts of the server its clients meet at the endpoints, each with    *)
(* the inductive invariant its promise needs.                              *)
(*   ServiceHealth    a verdict follows from checks, and a check is as old *)
(*                    as its stamp says (StampsPrecede, ChecksAreFresh)    *)
(*   Auth             a request whose key was published throughout has been*)
(*                    served a set of keys with it (SteadyIsServed)        *)
(*   Channels         a record is in a subscriber's stream, on its way     *)
(*                    there or lost to a full queue, and the latest of its *)
(*                    source while its broadcast is under way (ChannelInv) *)
(*   SessionsApi      a message is at one place of one session, each       *)
(*                    session's author is its owner, and what is copied is *)
(*                    new (ApiInv)                                         *)
(***************************************************************************)
EXTENDS ServiceHealth, Auth, Channels, SessionsApi, FiniteSetTheorems, SequenceTheorems, TLAPS

(***************************************************************************)
(* Health checks (ServiceHealth)                                           *)
(***************************************************************************)
Live == {"connected", "not_configured", "disconnected"}
CheckEntry == [at : {"none", "checking", "looked", "done"}, status : Live \cup {"none"},
          seen : Nat, stamp : Nat]

HealthTyped ==
  /\ clock \in Nat /\ live \in [Services -> Live]
  /\ cache \in [Services -> CheckEntry] /\ checks \in [Callers -> [Services -> CheckEntry]]
  /\ began \in [Callers -> Int]
  /\ verdict \in [Callers -> {"none", "healthy", "degraded", "unhealthy"}]

\* What was seen was seen by now, and not before the check was given its time.
StampsPrecede ==
  /\ \A s \in Services : cache[s].status # "none" => cache[s].stamp <= cache[s].seen
  /\ \A c \in Callers, s \in Services :
       /\ checks[c][s].at = "checking" => checks[c][s].stamp <= clock
       /\ checks[c][s].at \in {"looked", "done"} => checks[c][s].stamp <= checks[c][s].seen

ChecksAreFresh ==
  \A c \in Callers :
    /\ began[c] <= clock
    /\ began[c] = -1 => \A s \in Services : checks[c][s].at = "none"
    /\ \A s \in Services : checks[c][s].at \in {"looked", "done"} =>
         checks[c][s].status # "none" /\ began[c] - checks[c][s].seen < TTL

\* What a verdict says of the checks, once they are over.
VerdictsFollowChecks ==
  \A c \in Callers : verdict[c] # "none" =>
    /\ \A s \in Services : checks[c][s].at = "done"
    /\ verdict[c] = "healthy" => \A s \in Services : checks[c][s].status # "disconnected"
    /\ verdict[c] = "unhealthy" => checks[c]["ai_foundry"].status = "disconnected"

HealthIInv == HealthTyped /\ StampsPrecede /\ ChecksAreFresh /\ VerdictsFollowChecks

LEMMA HealthInitIInv == HealthInit => HealthIInv
<1> SUFFICES ASSUME HealthInit PROVE HealthIInv
  OBVIOUS
<1>1. HealthTyped
  BY DEF HealthInit, HealthTyped, Live, CheckEntry, Nothing
<1>2. StampsPrecede /\ ChecksAreFresh /\ VerdictsFollowChecks
  BY DEF HealthInit, StampsPrecede, ChecksAreFresh, VerdictsFollowChecks, Nothing
<1>3. QED
  BY <1>1, <1>2 DEF HealthIInv

\* A request takes what is fresh and starts the checks of the rest.
LEMMA AsksIInv ==
    ASSUME HealthIInv, NEW c \in Callers, Asks(c) PROVE HealthIInv'
<1> USE DEF HealthIInv
<1> DEFINE next(s) == IF Fresh30(cache[s]) THEN [cache[s] EXCEPT !.at = "done"]
                      ELSE [Nothing EXCEPT !.at = "checking", !.stamp = clock]
<1>1. /\ began' = [began EXCEPT ![c] = clock] /\ began[c] = -1
      /\ checks' = [checks EXCEPT ![c] = [s \in Services |-> next(s)]]
      /\ clock' = clock /\ live' = live /\ cache' = cache /\ verdict' = verdict
  BY DEF Asks, world
<1>2. \A s \in Services : next(s) \in CheckEntry
  BY ZenonT(60) DEF HealthTyped, CheckEntry, Nothing
<1>3. HealthTyped'
  BY <1>1, <1>2 DEF HealthTyped
<1>4. \A s \in Services : checks'[c][s] = next(s)
  BY <1>1 DEF HealthTyped
<1>5. \A d \in Callers \ {c} : checks'[d] = checks[d] /\ began'[d] = began[d]
  BY <1>1 DEF HealthTyped
<1>6. began'[c] = clock
  BY <1>1 DEF HealthTyped
<1>7. ASSUME NEW s \in Services
      PROVE  /\ next(s).at = "checking" => next(s).stamp <= clock
             /\ next(s).at \in {"looked", "done"} =>
                  /\ next(s).stamp <= next(s).seen /\ next(s).status # "none"
                  /\ clock - next(s).seen < TTL
  <2>1. CASE Fresh30(cache[s])
    BY <2>1, HealthAssumption DEF Fresh30, StampsPrecede, HealthTyped, CheckEntry
  <2>2. CASE ~Fresh30(cache[s])
    BY <2>2 DEF Nothing, HealthTyped
  <2>3. QED
    BY <2>1, <2>2
<1>8. StampsPrecede'
  BY <1>1, <1>4, <1>5, <1>7 DEF StampsPrecede
<1>9. ChecksAreFresh'
  BY <1>1, <1>4, <1>5, <1>6, <1>7 DEF ChecksAreFresh, HealthTyped
<1>10. verdict[c] = "none"
  BY <1>1, HealthAssumption DEF VerdictsFollowChecks, ChecksAreFresh
<1>11. VerdictsFollowChecks'
  BY <1>1, <1>5, <1>10 DEF VerdictsFollowChecks
<1>12. QED
  BY <1>3, <1>8, <1>9, <1>11

LEMMA LooksIInv ==
    ASSUME HealthIInv, NEW c \in Callers, NEW s \in Services, Looks(c, s) PROVE HealthIInv'
<1> USE DEF HealthIInv
<1> DEFINE found == [checks[c][s] EXCEPT !.at = "looked", !.status = live[s], !.seen = clock]
<1>1. /\ found \in CheckEntry /\ found.at = "looked" /\ found.status # "none"
      /\ found.seen = clock /\ found.stamp = checks[c][s].stamp
  <2>1. checks[c][s] \in CheckEntry /\ live[s] \in Live /\ clock \in Nat
    BY DEF HealthTyped
  <2>2. QED
    BY <2>1 DEF CheckEntry, Live
<1>2. /\ checks' = [checks EXCEPT ![c] = [checks[c] EXCEPT ![s] = found]]
      /\ checks[c][s].at = "checking" /\ live' = live
      /\ clock' = clock /\ cache' = cache /\ began' = began /\ verdict' = verdict
  BY DEF Looks, world
<1> HIDE DEF found
<1>3. HealthTyped'
  BY <1>1, <1>2 DEF HealthTyped
<1>4. /\ checks'[c][s] = found
      /\ \A d \in Callers, t \in Services : d # c \/ t # s => checks'[d][t] = checks[d][t]
  BY <1>2 DEF HealthTyped
<1>5. StampsPrecede'
  BY <1>1, <1>2, <1>4 DEF StampsPrecede
<1>6. ChecksAreFresh'
  <2>1. /\ clock \in Nat /\ began[c] \in Int /\ began[c] <= clock /\ began[c] # -1
        /\ TTL \in Nat \ {0}
    BY <1>2, HealthAssumption DEF HealthTyped, ChecksAreFresh
  <2>2. began[c] - clock < TTL
    BY <2>1
  <2>3. QED
    BY <1>1, <1>2, <1>4, <2>1, <2>2 DEF ChecksAreFresh
<1>7. VerdictsFollowChecks'
  BY <1>2, <1>4, HealthAssumption DEF VerdictsFollowChecks
<1>8. QED
  BY <1>3, <1>5, <1>6, <1>7

\* What a late check writes into the cache keeps the time its own request gave it.
LEMMA AnswersIInv ==
    ASSUME HealthIInv, NEW c \in Callers, NEW s \in Services, Answers(c, s) PROVE HealthIInv'
<1> USE DEF HealthIInv
<1> DEFINE found == [checks[c][s] EXCEPT !.at = "done"]
           kept == [checks[c][s] EXCEPT !.at = "none", !.stamp = checks[c][s].stamp]
<1>1. /\ found \in CheckEntry /\ kept \in CheckEntry /\ found.at = "done"
      /\ found.status = checks[c][s].status /\ found.seen = checks[c][s].seen
      /\ found.stamp = checks[c][s].stamp
      /\ kept.seen = checks[c][s].seen /\ kept.stamp = checks[c][s].stamp
  <2>1. checks[c][s] \in CheckEntry
    BY DEF HealthTyped
  <2>2. QED
    BY <2>1 DEF CheckEntry
<1>2. /\ checks' = [checks EXCEPT ![c] = [checks[c] EXCEPT ![s] = found]]
      /\ cache' = [cache EXCEPT ![s] = kept]
      /\ checks[c][s].at = "looked" /\ live' = live
      /\ clock' = clock /\ began' = began /\ verdict' = verdict
  BY DEF Answers, world, Stamp
<1> HIDE DEF found, kept
<1>3. HealthTyped'
  BY <1>1, <1>2 DEF HealthTyped
<1>4. /\ checks'[c][s] = found
      /\ \A d \in Callers, t \in Services : d # c \/ t # s => checks'[d][t] = checks[d][t]
      /\ cache'[s] = kept /\ \A t \in Services \ {s} : cache'[t] = cache[t]
  BY <1>2 DEF HealthTyped
<1>5. StampsPrecede'
  BY <1>1, <1>2, <1>4 DEF StampsPrecede
<1>6. ChecksAreFresh'
  BY <1>1, <1>2, <1>4 DEF ChecksAreFresh
<1>7. VerdictsFollowChecks'
  BY <1>2, <1>4, HealthAssumption DEF VerdictsFollowChecks
<1>8. QED
  BY <1>3, <1>5, <1>6, <1>7

LEMMA ReportsIInv ==
    ASSUME HealthIInv, NEW c \in Callers, Reports(c) PROVE HealthIInv'
<1> USE DEF HealthIInv
<1>1. PICK breakers \in [Services -> {"closed", "open", "half-open"}] :
        verdict' = [verdict EXCEPT ![c] = Overall([s \in Services |-> Status(c, s, breakers)])]
  BY DEF Reports
<1> DEFINE shown == [s \in Services |-> Status(c, s, breakers)]
<1>2. Overall(shown) \in {"healthy", "degraded", "unhealthy"}
  BY DEF Overall
<1>3. ASSUME NEW s \in Services, shown[s] \in Live
      PROVE  checks[c][s].status = shown[s]
  BY <1>3 DEF Status, Live
<1>4. Overall(shown) = "healthy" => \A s \in Services : checks[c][s].status # "disconnected"
  BY <1>3 DEF Overall, Live
<1>5. Overall(shown) = "unhealthy" => checks[c]["ai_foundry"].status = "disconnected"
  BY <1>3, HealthAssumption DEF Overall, Live
<1>6. /\ clock' = clock /\ live' = live /\ cache' = cache /\ checks' = checks /\ began' = began
      /\ \A s \in Services : checks[c][s].at = "done"
  BY DEF Reports, world
<1>7. verdict'[c] = Overall(shown) /\ \A d \in Callers \ {c} : verdict'[d] = verdict[d]
  BY <1>1 DEF HealthTyped
<1>8. HealthTyped'
  BY <1>1, <1>2, <1>6 DEF HealthTyped
<1>9. StampsPrecede' /\ ChecksAreFresh'
  BY <1>6 DEF StampsPrecede, ChecksAreFresh
<1>10. VerdictsFollowChecks'
  BY <1>4, <1>5, <1>6, <1>7 DEF VerdictsFollowChecks
<1>11. QED
  BY <1>8, <1>9, <1>10

LEMMA HealthNextIInv == HealthIInv /\ [HealthNext]_healthVars => HealthIInv'
<1> SUFFICES ASSUME HealthIInv, [HealthNext]_healthVars PROVE HealthIInv'
  OBVIOUS
<1>1. ASSUME Tick PROVE HealthIInv'
  <2>1. /\ clock \in Nat /\ clock' = clock + 1 /\ live' = live /\ cache' = cache
        /\ checks' = checks /\ began' = began /\ verdict' = verdict
    BY <1>1 DEF Tick, world, HealthIInv, HealthTyped
  <2>2. HealthTyped' /\ VerdictsFollowChecks'
    BY <2>1 DEF HealthIInv, HealthTyped, VerdictsFollowChecks
  <2>3. \A c \in Callers, s \in Services : checks[c][s].stamp \in Nat /\ began[c] \in Int
    BY DEF HealthIInv, HealthTyped, CheckEntry
  <2>4. StampsPrecede'
    BY <2>1, <2>3 DEF HealthIInv, StampsPrecede
  <2>5. \A c \in Callers : began[c] \in Int
    BY DEF HealthIInv, HealthTyped
  <2>6. ChecksAreFresh'
    BY <2>1, <2>5 DEF HealthIInv, ChecksAreFresh
  <2>7. QED
    BY <2>2, <2>4, <2>6 DEF HealthIInv
<1>2. ASSUME NEW s \in Services, Changes(s) PROVE HealthIInv'
  BY <1>2 DEF Changes, HealthIInv, HealthTyped, Live, StampsPrecede, ChecksAreFresh, VerdictsFollowChecks
<1>3. CASE UNCHANGED healthVars
  BY <1>3 DEF healthVars, world, HealthIInv, HealthTyped, StampsPrecede, ChecksAreFresh, VerdictsFollowChecks
<1>4. QED
  BY <1>1, <1>2, <1>3, AsksIInv, LooksIInv, AnswersIInv, ReportsIInv
     DEF HealthNext

LEMMA HealthImplies == HealthIInv => VerdictIsFresh
BY DEF HealthIInv, VerdictsFollowChecks, ChecksAreFresh, VerdictIsFresh

\* A health verdict rests on sightings at most TTL old when its request began, whatever
\* the services do and however the checks of overlapping requests finish and overwrite
\* each other's cache entries.
THEOREM VerdictsAreFresh == HealthSpec => []VerdictIsFresh
<1>1. HealthInit => HealthIInv
  BY HealthInitIInv
<1>2. HealthIInv /\ [HealthNext]_healthVars => HealthIInv'
  BY HealthNextIInv
<1>3. HealthIInv => VerdictIsFresh
  BY HealthImplies
<1>4. QED
  BY <1>1, <1>2, <1>3, PTL DEF HealthSpec

(***************************************************************************)
(* Authentication (Auth)                                                   *)
(***************************************************************************)
AuthPhases == {"new", "devsigned", "anonymous", "rejected", "fetch", "fetched", "refresh",
               "refreshed", "accepted", "unknown_kid"}

TokensOrNone == [kid : Kids \cup {"none"}, tenant : Tenants \cup {"none"}]
BearerStates == [phase : AuthPhases, keys : SUBSET Kids, token : TokensOrNone]

AuthTyped ==
  /\ bearer \in [Bearers -> BearerStates]
  /\ published \in SUBSET Kids /\ steady \in SUBSET Bearers
  /\ authEnabled \in BOOLEAN /\ tenantId \in Tenants \cup {"common"}
  /\ jwks.kids \in SUBSET Kids

\* A steady request's kid is published, and among the keys it was served, which are
\* those of a moment since it began.
SteadyIsServed ==
  \A r \in steady :
    /\ bearer[r].phase # "new" /\ bearer[r].token.kid \in published
    /\ bearer[r].phase \in {"fetched", "refreshed"} => bearer[r].token.kid \in bearer[r].keys

\* Only with authentication switched on does a request come to the keys.
KeysAreForTokens ==
  \A r \in Bearers :
    bearer[r].phase \in {"fetch", "fetched", "refresh", "refreshed"} => authEnabled

AuthIInv == AuthTyped /\ SteadyIsServed /\ KeysAreForTokens /\ KeysServe

LEMMA AuthInitIInv == AuthInit => AuthIInv
BY DEF AuthInit, AuthIInv, AuthTyped, AuthPhases, BearerStates, TokensOrNone, SteadyIsServed, KeysAreForTokens,
       KeysServe, NoToken

\* What the search for a key may end in, and what it has checked by then.
LEMMA SearchedIs ==
    ASSUME NEW token, NEW kids, NEW forced \in BOOLEAN, NEW stage \in Searched(token, kids, forced)
    PROVE  /\ stage \in {"accepted", "rejected", "unknown_kid", "refresh"}
           /\ stage = "accepted" => IssuerFits(token) /\ SignerFits(token)
           /\ stage = "unknown_kid" => forced /\ token.kid \notin kids
           /\ stage = "refresh" => ~forced
BY DEF Searched, Finds, Verdicts

LEMMA ArriveKeepsIInv ==
    ASSUME AuthIInv, NEW r \in Bearers, Arrive(r) PROVE AuthIInv'
<1> USE DEF AuthIInv
<1> DEFINE tokens(header) == IF header = "token" THEN BearerTokens ELSE {NoToken}
           phases(header, token) ==
             CASE header = "devsigned" -> {"devsigned"}
               [] header # "devsigned" /\ ~authEnabled -> {"anonymous"}
               [] header \in {"missing", "blank"} /\ authEnabled -> {"rejected"}
               [] OTHER -> IF Holds(jwks) THEN Searched(token, jwks.kids, FALSE) ELSE {"fetch"}
<1>0. PICK header \in Headers : \E token \in tokens(header) :
         /\ \E stage \in phases(header, token) :
               bearer' = [bearer EXCEPT ![r].phase = stage, ![r].token = token]
         /\ steady' = IF token.kid \in published THEN steady \cup {r} ELSE steady
  BY DEF Arrive
<1>a. PICK token \in tokens(header) :
         /\ \E stage \in phases(header, token) :
               bearer' = [bearer EXCEPT ![r].phase = stage, ![r].token = token]
         /\ steady' = IF token.kid \in published THEN steady \cup {r} ELSE steady
  BY <1>0
<1>1. PICK stage \in phases(header, token) :
         bearer' = [bearer EXCEPT ![r].phase = stage, ![r].token = token]
  BY <1>a
<1>2. bearer[r].phase = "new" /\ UNCHANGED <<entra, tenantId, authEnabled, jwks>>
  BY DEF Arrive
<1>3. /\ stage \in {"devsigned", "anonymous", "rejected", "fetch", "accepted", "refresh"}
      /\ stage = "accepted" => authEnabled /\ IssuerFits(token) /\ SignerFits(token)
      /\ stage \in {"fetch", "refresh"} => authEnabled
  <2>1. \/ stage \in {"devsigned", "anonymous", "rejected"}
        \/ authEnabled /\ (stage = "fetch" \/ stage \in Searched(token, jwks.kids, FALSE))
    BY <1>1 DEF Headers, AuthTyped
  <2>2. CASE stage \in {"devsigned", "anonymous", "rejected"}
    BY <2>2
  <2>3. CASE authEnabled /\ stage = "fetch"
    BY <2>3
  <2>4. CASE authEnabled /\ stage \in Searched(token, jwks.kids, FALSE)
    BY <2>4, SearchedIs
  <2>5. QED
    BY <2>1, <2>2, <2>3, <2>4
<1>4. token \in TokensOrNone
  BY <1>1 DEF BearerTokens, NoToken, TokensOrNone
<1>5. AuthTyped'
  <2>1. stage \in AuthPhases
    BY <1>3 DEF AuthPhases
  <2>2. bearer' \in [Bearers -> BearerStates]
    BY <1>1, <1>4, <2>1 DEF AuthTyped, BearerStates
  <2>3. steady' \in SUBSET Bearers
    BY <1>a DEF AuthTyped
  <2>4. QED
    BY <1>2, <2>2, <2>3 DEF AuthTyped, entra
<1>6. /\ bearer'[r] = [bearer[r] EXCEPT !.phase = stage, !.token = token]
      /\ \A s \in Bearers \ {r} : bearer'[s] = bearer[s]
  BY <1>1 DEF AuthTyped
<1>7. bearer'[r].phase = stage /\ bearer'[r].token = token
  BY <1>6 DEF AuthTyped
<1>8. SteadyIsServed'
  BY <1>a, <1>2, <1>3, <1>6, <1>7 DEF AuthTyped, SteadyIsServed, entra
<1>9. KeysAreForTokens'
  BY <1>2, <1>3, <1>6, <1>7 DEF KeysAreForTokens
<1>10. KeysServe'
  BY <1>a, <1>2, <1>3, <1>6, <1>7 DEF KeysServe, IssuerFits, SignerFits
<1>11. QED
  BY <1>5, <1>8, <1>9, <1>10

LEMMA ArrivesKeepsIInv ==
    ASSUME AuthIInv, NEW r \in Bearers, Arrives(r) PROVE AuthIInv'
<1> USE DEF AuthIInv
<1> DEFINE forced == bearer[r].phase = "refreshed"
<1>1. PICK stage \in Searched(bearer[r].token, bearer[r].keys, forced) :
         bearer' = [bearer EXCEPT ![r].phase = stage, ![r].keys = {}]
  BY DEF Arrives
<1>2. /\ bearer[r].phase \in {"fetched", "refreshed"}
      /\ jwks' = [kids |-> bearer[r].keys, at |-> hours]
      /\ UNCHANGED <<entra, tenantId, authEnabled, steady>>
  BY DEF Arrives
<1>3. /\ stage \in {"accepted", "rejected", "unknown_kid", "refresh"}
      /\ stage = "accepted" => IssuerFits(bearer[r].token) /\ SignerFits(bearer[r].token)
      /\ stage = "unknown_kid" => bearer[r].token.kid \notin bearer[r].keys
  <2>1. forced \in BOOLEAN
    OBVIOUS
  <2> HIDE DEF forced
  <2>2. QED
    BY <1>1, <2>1, SearchedIs
<1>4. authEnabled
  BY <1>2 DEF KeysAreForTokens
<1>5. AuthTyped'
  <2>1. stage \in AuthPhases
    BY <1>3 DEF AuthPhases
  <2>2. bearer' \in [Bearers -> BearerStates] /\ bearer[r].keys \in SUBSET Kids
    BY <1>1, <2>1 DEF AuthTyped, BearerStates
  <2>3. QED
    BY <1>2, <2>2 DEF AuthTyped, entra
<1>6. /\ \A s \in Bearers \ {r} : bearer'[s] = bearer[s]
      /\ bearer'[r].phase = stage /\ bearer'[r].token = bearer[r].token
  BY <1>1 DEF AuthTyped
<1>7. SteadyIsServed'
  BY <1>2, <1>3, <1>6 DEF AuthTyped, SteadyIsServed, entra
<1>8. KeysAreForTokens'
  BY <1>2, <1>4 DEF KeysAreForTokens
<1>9. KeysServe'
  BY <1>2, <1>3, <1>4, <1>6 DEF KeysServe, SteadyIsServed, IssuerFits, SignerFits
<1>10. QED
  BY <1>5, <1>7, <1>8, <1>9

LEMMA AuthNextIInv == AuthIInv /\ [AuthNext]_authVars => AuthIInv'
<1> SUFFICES ASSUME AuthIInv, [AuthNext]_authVars PROVE AuthIInv'
  OBVIOUS
<1> USE DEF AuthIInv
<1>1. ASSUME NEW r \in Bearers, Served(r)
      PROVE  AuthIInv'
  <2>1. AuthTyped'
    <3>1. PICK stage \in AuthPhases, keys \in SUBSET Kids :
            bearer' = [bearer EXCEPT ![r].phase = stage, ![r].keys = keys]
      BY <1>1 DEF Served, AuthTyped, AuthPhases
    <3>2. bearer' \in [Bearers -> BearerStates]
      BY <3>1 DEF AuthTyped, BearerStates
    <3>3. QED
      BY <1>1, <3>2 DEF Served, AuthTyped, entra
  <2>2. /\ \A s \in Bearers \ {r} : bearer'[s] = bearer[s]
        /\ bearer'[r].token = bearer[r].token /\ bearer'[r].keys = published
        /\ bearer[r].phase \in {"fetch", "refresh"}
        /\ bearer'[r].phase \in {"fetched", "refreshed"}
        /\ UNCHANGED <<entra, tenantId, authEnabled, steady>>
    BY <1>1 DEF Served, AuthTyped
  <2>3. SteadyIsServed' /\ KeysAreForTokens' /\ KeysServe'
    BY <2>2 DEF SteadyIsServed, KeysAreForTokens, KeysServe, AuthTyped, entra
  <2>4. QED
    BY <2>1, <2>3
<1>2. ASSUME NEW r \in Bearers, FetchFails(r)
      PROVE  AuthIInv'
  <2>1. AuthTyped'
    <3>1. PICK stage \in AuthPhases, keys \in SUBSET Kids :
            bearer' = [bearer EXCEPT ![r].phase = stage, ![r].keys = keys]
      BY <1>2 DEF FetchFails, AuthTyped, AuthPhases
    <3>2. bearer' \in [Bearers -> BearerStates]
      BY <3>1 DEF AuthTyped, BearerStates
    <3>3. QED
      BY <1>2, <3>2 DEF FetchFails, AuthTyped, entra
  <2>2. /\ \A s \in Bearers \ {r} : bearer'[s] = bearer[s]
        /\ bearer'[r].token = bearer[r].token /\ bearer'[r].phase = "rejected"
        /\ UNCHANGED <<entra, tenantId, authEnabled, steady>>
    BY <1>2 DEF FetchFails, AuthTyped
  <2>3. SteadyIsServed' /\ KeysAreForTokens' /\ KeysServe'
    BY <2>2 DEF SteadyIsServed, KeysAreForTokens, KeysServe, AuthTyped, entra
  <2>4. QED
    BY <2>1, <2>3
<1>3. CASE Rotate
  <2>1. /\ steady' = {r \in steady : bearer[r].token.kid \in published'}
        /\ UNCHANGED <<tenantId, authEnabled, jwks, bearer>>
        /\ published' \in SUBSET Kids
    BY <1>3 DEF Rotate, AuthTyped
  <2>2. AuthTyped'
    BY <2>1 DEF AuthTyped
  <2>3. SteadyIsServed' /\ KeysAreForTokens' /\ KeysServe'
    BY <2>1 DEF SteadyIsServed, KeysAreForTokens, KeysServe
  <2>4. QED
    BY <2>2, <2>3
<1>4. CASE HourPasses \/ UNCHANGED authVars
  BY <1>4 DEF HourPasses, authVars, entra, AuthTyped, SteadyIsServed, KeysAreForTokens, KeysServe
<1>5. QED
  BY <1>1, <1>2, <1>3, <1>4, ArriveKeepsIInv, ArrivesKeepsIInv DEF AuthNext

\* "Refreshes when ... a requested kid is not found" holds against every interleaving of
\* slow and fast fetches and every rotation: no token is turned away for a kid that was
\* published throughout, and none accepted for another tenant (app/auth.py).
THEOREM KeysAlwaysServe == AuthInit /\ [][AuthNext]_authVars => []KeysServe
<1>1. AuthInit => AuthIInv
  BY AuthInitIInv
<1>2. AuthIInv /\ [AuthNext]_authVars => AuthIInv'
  BY AuthNextIInv
<1>3. AuthIInv => KeysServe
  BY DEF AuthIInv
<1>4. QED
  BY <1>1, <1>2, <1>3, PTL

(***************************************************************************)
(* Broadcasters and channels (Channels)                                    *)
(***************************************************************************)
Records == Sources \X Nat
Streams == [phase : {"new", "live", "gone"}, from : Nat \ {0}, replay : Seq(Records),
            queue : Seq(Records), callbacks : Seq(Records), received : Seq(Records)]

Distinct(x) == \A i, j \in DOMAIN x : x[i] = x[j] => i = j
Ordered(x) == \A i, j \in DOMAIN x : i < j /\ x[i][1] = x[j][1] => x[i][2] < x[j][2]
Beyond(x, r) == \A e \in Elements(x) : e[1] = r[1] => e[2] < r[2]

(***************************************************************************)
(* Sequences of records                                                    *)
(***************************************************************************)
LEMMA RecordSeqs ==
    ASSUME NEW x \in Seq(Records)
    PROVE  /\ Len(x) \in Nat /\ DOMAIN x = 1..Len(x)
           /\ \A i \in 1..Len(x) : x[i] \in Records /\ x[i][1] \in Sources /\ x[i][2] \in Nat
           /\ Elements(x) \subseteq Records
<1>1. Len(x) \in Nat /\ DOMAIN x = 1..Len(x) /\ \A i \in 1..Len(x) : x[i] \in Records
  BY LenProperties, ElementOfSeq
<1>2. QED
  BY <1>1 DEF Elements, Records

LEMMA OrderedIsDistinct ==
    ASSUME NEW x \in Seq(Records), Ordered(x)
    PROVE  Distinct(x)
<1> SUFFICES ASSUME NEW i \in 1..Len(x), NEW j \in 1..Len(x), x[i] = x[j], i # j PROVE FALSE
  BY RecordSeqs DEF Distinct
<1>1. Len(x) \in Nat /\ x[i][2] \in Nat /\ x[j][2] \in Nat /\ x[i][1] = x[j][1] /\ x[i][2] = x[j][2]
  BY RecordSeqs
<1>2. i < j \/ j < i
  BY <1>1
<1>3. QED
  BY <1>1, <1>2, RecordSeqs DEF Ordered

\* A record at the end.
LEMMA Appended ==
    ASSUME NEW x \in Seq(Records), NEW r \in Records
    PROVE  /\ Append(x, r) \in Seq(Records) /\ Elements(Append(x, r)) = Elements(x) \cup {r}
           /\ Distinct(x) /\ r \notin Elements(x) => Distinct(Append(x, r))
           /\ Ordered(x) /\ Beyond(x, r) => Ordered(Append(x, r))
<1>1. PICK y \in Seq(Records) : y = Append(x, r)
  BY AppendProperties
<1>2. PICK n \in Nat : n = Len(x)
  BY RecordSeqs
<1>3. /\ DOMAIN x = 1..n /\ DOMAIN y = 1..(n + 1) /\ \A i \in 1..n : y[i] = x[i]
      /\ y[n + 1] = r /\ Len(y) = n + 1
  BY <1>1, <1>2, AppendProperties, RecordSeqs
<1>4. \A i \in 1..(n + 1) : i \in 1..n \/ i = n + 1
  OBVIOUS
<1>5. Elements(y) = Elements(x) \cup {r}
  <2>1. n + 1 \in 1..(n + 1) /\ \A i \in 1..n : i \in 1..(n + 1)
    OBVIOUS
  <2>2. QED
    BY <1>3, <1>4, <2>1 DEF Elements
<1>6. ASSUME Distinct(x), r \notin Elements(x) PROVE Distinct(y)
  <2> SUFFICES ASSUME NEW i \in 1..(n + 1), NEW j \in 1..(n + 1), y[i] = y[j] PROVE i = j
    BY <1>3 DEF Distinct
  <2>1. \A k \in 1..n : y[k] \in Elements(x)
    BY <1>3 DEF Elements
  <2>2. QED
    BY <1>3, <1>4, <1>6, <2>1 DEF Distinct
<1>7. ASSUME Ordered(x), Beyond(x, r) PROVE Ordered(y)
  <2> SUFFICES ASSUME NEW i \in 1..(n + 1), NEW j \in 1..(n + 1), i < j, y[i][1] = y[j][1]
               PROVE  y[i][2] < y[j][2]
    BY <1>3 DEF Ordered
  <2>1. i \in 1..n
    OBVIOUS
  <2>2. CASE j \in 1..n
    BY <1>3, <1>7, <2>1, <2>2 DEF Ordered
  <2>3. CASE j = n + 1
    <3>1. x[i] \in Elements(x) /\ y[i] = x[i] /\ y[j] = r
      BY <1>3, <2>1, <2>3 DEF Elements
    <3>2. QED
      BY <1>7, <3>1 DEF Beyond
  <2>4. QED
    BY <1>4, <2>2, <2>3
<1>8. QED
  BY <1>1, <1>5, <1>6, <1>7

LEMMA Concats ==
    ASSUME NEW a \in Seq(Records), NEW b \in Seq(Records)
    PROVE  /\ a \o b \in Seq(Records) /\ Len(a \o b) = Len(a) + Len(b)
           /\ DOMAIN (a \o b) = 1..(Len(a) + Len(b))
           /\ \A i \in 1..Len(a) : (a \o b)[i] = a[i]
           /\ \A i \in 1..Len(b) : (a \o b)[Len(a) + i] = b[i]
<1>1. PICK m \in Nat, n \in Nat : m = Len(a) /\ n = Len(b)
  BY RecordSeqs
<1>2. PICK c \in Seq(Records) : c = a \o b
  BY ConcatProperties
<1>3. /\ Len(c) = m + n
      /\ \A i \in 1..(m + n) : c[i] = IF i <= m THEN a[i] ELSE b[i - m]
  BY <1>1, <1>2, ConcatProperties
<1>4. \A i \in 1..m : i \in 1..(m + n) /\ i <= m
  OBVIOUS
<1>5. \A i \in 1..n : m + i \in 1..(m + n) /\ ~(m + i <= m) /\ (m + i) - m = i
  OBVIOUS
<1>6. DOMAIN c = 1..(m + n)
  BY <1>3, RecordSeqs
<1>7. QED
  BY <1>1, <1>2, <1>3, <1>4, <1>5, <1>6

LEMMA ConcatElements ==
    ASSUME NEW a \in Seq(Records), NEW b \in Seq(Records)
    PROVE  Elements(a \o b) = Elements(a) \cup Elements(b)
<1>1. PICK m \in Nat, n \in Nat : m = Len(a) /\ n = Len(b) /\ DOMAIN a = 1..m /\ DOMAIN b = 1..n
  BY RecordSeqs
<1>2. PICK c \in Seq(Records) : c = a \o b /\ DOMAIN c = 1..(m + n)
  BY <1>1, Concats
<1>3. /\ \A i \in 1..m : c[i] = a[i] /\ i \in 1..(m + n)
      /\ \A i \in 1..n : c[m + i] = b[i] /\ m + i \in 1..(m + n)
  BY <1>1, <1>2, Concats
<1>4. \A i \in 1..(m + n) : i \in 1..m \/ \E j \in 1..n : i = m + j
  <2> SUFFICES ASSUME NEW i \in 1..(m + n), i \notin 1..m PROVE \E j \in 1..n : i = m + j
    OBVIOUS
  <2>1. i - m \in 1..n /\ i = m + (i - m)
    OBVIOUS
  <2>2. QED
    BY <2>1
<1>5. \A e : e \in Elements(c) <=> e \in Elements(a) \/ e \in Elements(b)
  <2>1. ASSUME NEW i \in 1..(m + n) PROVE c[i] \in Elements(a) \/ c[i] \in Elements(b)
    <3>1. CASE i \in 1..m
      BY <1>1, <1>3, <3>1 DEF Elements
    <3>2. CASE i \notin 1..m
      <4>1. PICK j \in 1..n : i = m + j
        BY <1>4, <3>2
      <4>2. c[i] = b[j]
        BY <1>3, <4>1
      <4>3. QED
        BY <1>1, <4>2 DEF Elements
    <3>3. QED
      BY <3>1, <3>2
  <2>2. \A i \in 1..m : a[i] \in Elements(c)
    BY <1>2, <1>3 DEF Elements
  <2>3. \A i \in 1..n : b[i] \in Elements(c)
    BY <1>2, <1>3 DEF Elements
  <2>4. QED
    BY <1>1, <1>2, <2>1, <2>2, <2>3, ZenonT(60) DEF Elements
<1>6. QED
  BY <1>2, <1>5

\* Leaving records out keeps the others apart and in order.
LEMMA Thinned ==
    ASSUME NEW x \in Seq(Records), NEW y \in Seq(Records), NEW place \in [DOMAIN y -> DOMAIN x],
           \A i \in DOMAIN y : y[i] = x[place[i]],
           \A i, j \in DOMAIN y : i < j => place[i] < place[j]
    PROVE  /\ Distinct(x) => Distinct(y)
           /\ Ordered(x) => Ordered(y)
<1>1. /\ \A i \in DOMAIN y : i \in Int /\ place[i] \in Int
  BY RecordSeqs
<1>2. ASSUME Distinct(x), NEW i \in DOMAIN y, NEW j \in DOMAIN y, y[i] = y[j], i # j PROVE FALSE
  <2>1. place[i] = place[j]
    BY <1>2 DEF Distinct
  <2>2. i < j \/ j < i
    BY <1>1, <1>2
  <2>3. QED
    BY <1>1, <2>1, <2>2
<1>3. Ordered(x) => Ordered(y)
  BY DEF Ordered
<1>4. QED
  BY <1>2, <1>3 DEF Distinct

LEMMA HeadAndTail ==
    ASSUME NEW d \in Seq(Records), d # <<>>
    PROVE  /\ Head(d) \in Records /\ Tail(d) \in Seq(Records) /\ d = <<Head(d)>> \o Tail(d)
           /\ <<Head(d)>> \in Seq(Records)
           /\ Elements(d) = {Head(d)} \cup Elements(Tail(d))
<1>1. /\ Head(d) \in Records /\ Tail(d) \in Seq(Records) /\ Len(d) \in Nat \ {0}
  BY HeadTailProperties, EmptySeq
<1>2. d = <<Head(d)>> \o Tail(d)
  <2>1. PICK n \in Nat \ {0} : n = Len(d)
    BY <1>1
  <2>2. 1 \in 1..Len(d) /\ Len(d) \in 1..Len(d)
    BY <2>1
  <2>3. SubSeq(d, 1, Len(d)) = <<d[1]>> \o SubSeq(d, 1 + 1, Len(d))
    BY <2>2, SubSeqRecursiveFirst
  <2>4. Tail(d) = SubSeq(d, 2, Len(d)) /\ SubSeq(d, 1, Len(d)) = d /\ Head(d) = d[1]
    BY TailIsSubSeq, SubSeqFull
  <2>5. QED
    BY <2>3, <2>4
<1>3. <<Head(d)>> \in Seq(Records) /\ Elements(<<Head(d)>>) = {Head(d)}
  BY <1>1 DEF Elements
<1>4. QED
  BY <1>1, <1>2, <1>3, ConcatElements

\* A record in the middle, and the head of the second part left out.
LEMMA Inserted ==
    ASSUME NEW a \in Seq(Records), NEW b \in Seq(Records), NEW r \in Records,
           Distinct(a \o b), r \notin Elements(a \o b)
    PROVE  Distinct(Append(a, r) \o b)
<1>1. PICK m \in Nat, n \in Nat : m = Len(a) /\ n = Len(b)
  BY RecordSeqs
<1>2. PICK x \in Seq(Records) : x = a \o b
  BY Concats
<1>3. PICK c \in Seq(Records) : c = Append(a, r)
  BY AppendProperties
<1>4. /\ Len(c) = m + 1 /\ c[m + 1] = r /\ \A i \in 1..m : c[i] = a[i]
  BY <1>1, <1>3, AppendProperties
<1>5. PICK y \in Seq(Records) : y = c \o b
  BY Concats
<1>6. /\ DOMAIN x = 1..(m + n) /\ DOMAIN y = 1..((m + 1) + n)
      /\ \A i \in 1..m : x[i] = a[i]
      /\ \A i \in 1..n : x[m + i] = b[i]
      /\ \A i \in 1..(m + 1) : y[i] = c[i]
      /\ \A i \in 1..n : y[(m + 1) + i] = b[i]
  <2>1. /\ DOMAIN (a \o b) = 1..(Len(a) + Len(b))
        /\ \A i \in 1..Len(a) : (a \o b)[i] = a[i]
        /\ \A i \in 1..Len(b) : (a \o b)[Len(a) + i] = b[i]
    BY Concats
  <2>2. /\ DOMAIN (c \o b) = 1..(Len(c) + Len(b))
        /\ \A i \in 1..Len(c) : (c \o b)[i] = c[i]
        /\ \A i \in 1..Len(b) : (c \o b)[Len(c) + i] = b[i]
    BY Concats
  <2>3. QED
    BY <1>1, <1>2, <1>4, <1>5, <2>1, <2>2
<1>7. \A i \in 1..((m + 1) + n) : \/ i \in 1..m /\ i \in 1..(m + 1) /\ i \in 1..(m + n)
                                  \/ i = m + 1 /\ i \in 1..(m + 1)
                                  \/ /\ i - (m + 1) \in 1..n /\ i = (m + 1) + (i - (m + 1))
                                     /\ m + (i - (m + 1)) = i - 1 /\ i - 1 \in (m + 1)..(m + n)
                                     /\ i - 1 \in 1..(m + n)
  OBVIOUS
<1>8. ASSUME NEW i \in 1..((m + 1) + n)
      PROVE  \/ i \in 1..m /\ i \in 1..(m + n) /\ y[i] = x[i]
             \/ i = m + 1 /\ y[i] = r
             \/ i - 1 \in (m + 1)..(m + n) /\ i - 1 \in 1..(m + n) /\ y[i] = x[i - 1]
  <2>1. CASE i \in 1..m
    BY <1>4, <1>6, <1>7, <2>1, SMTT(30)
  <2>2. CASE i = m + 1
    BY <1>4, <1>6, <1>7, <2>2
  <2>3. CASE i \notin 1..m /\ i # m + 1
    <3>1. PICK k \in 1..n : k = i - (m + 1)
      BY <1>7, <2>3
    <3>2. /\ i = (m + 1) + k /\ m + k = i - 1 /\ i - 1 \in (m + 1)..(m + n) /\ i - 1 \in 1..(m + n)
      BY <3>1
    <3>3. y[(m + 1) + k] = b[k] /\ x[m + k] = b[k]
      BY <1>6
    <3>4. QED
      BY <3>2, <3>3
  <2>4. QED
    BY <2>1, <2>2, <2>3
<1>9. \A k \in 1..(m + n) : x[k] # r
  BY <1>2, <1>6 DEF Elements
<1>10. \A k, l \in 1..(m + n) : x[k] = x[l] => k = l
  BY <1>2, <1>6 DEF Distinct
<1>11. ASSUME NEW i \in 1..((m + 1) + n), NEW j \in 1..((m + 1) + n), y[i] = y[j] PROVE i = j
  <2>1. \/ i \in 1..m /\ i \in 1..(m + n) /\ y[i] = x[i]
        \/ i = m + 1 /\ y[i] = r
        \/ i - 1 \in (m + 1)..(m + n) /\ i - 1 \in 1..(m + n) /\ y[i] = x[i - 1]
    BY <1>8
  <2>2. \/ j \in 1..m /\ j \in 1..(m + n) /\ y[j] = x[j]
        \/ j = m + 1 /\ y[j] = r
        \/ j - 1 \in (m + 1)..(m + n) /\ j - 1 \in 1..(m + n) /\ y[j] = x[j - 1]
    BY <1>8
  <2>3. QED
    BY <1>9, <1>10, <1>11, <2>1, <2>2
<1>12. QED
  BY <1>3, <1>5, <1>6, <1>11 DEF Distinct

LEMMA LeftOut ==
    ASSUME NEW a \in Seq(Records), NEW b \in Seq(Records), b # <<>>
    PROVE  /\ Distinct(a \o b) => Distinct(a \o Tail(b))
           /\ Ordered(a \o b) => Ordered(a \o Tail(b))
<1>1. PICK m \in Nat, n \in Nat : m = Len(a) /\ n = Len(b) /\ n # 0
  BY RecordSeqs, EmptySeq
<1>2. PICK x \in Seq(Records) : x = a \o b
  BY Concats
<1>3. PICK c \in Seq(Records) : c = Tail(b)
  BY HeadAndTail
<1>4. Len(c) = n - 1 /\ \A i \in 1..(n - 1) : c[i] = b[i + 1]
  BY <1>1, <1>3, HeadTailProperties
<1>5. PICK y \in Seq(Records) : y = a \o c
  BY Concats
<1>6. /\ DOMAIN x = 1..(m + n) /\ DOMAIN y = 1..(m + (n - 1))
      /\ \A i \in 1..m : x[i] = a[i] /\ y[i] = a[i]
      /\ \A i \in 1..n : x[m + i] = b[i]
      /\ \A i \in 1..(n - 1) : y[m + i] = c[i]
  <2>1. /\ DOMAIN (a \o b) = 1..(Len(a) + Len(b))
        /\ \A i \in 1..Len(a) : (a \o b)[i] = a[i]
        /\ \A i \in 1..Len(b) : (a \o b)[Len(a) + i] = b[i]
    BY Concats
  <2>2. /\ DOMAIN (a \o c) = 1..(Len(a) + Len(c))
        /\ \A i \in 1..Len(a) : (a \o c)[i] = a[i]
        /\ \A i \in 1..Len(c) : (a \o c)[Len(a) + i] = c[i]
    BY Concats
  <2>3. QED
    BY <1>1, <1>2, <1>4, <1>5, <2>1, <2>2
<1>7. PICK place : place = [i \in 1..(m + (n - 1)) |-> IF i <= m THEN i ELSE i + 1]
  OBVIOUS
<1>8. place \in [DOMAIN y -> DOMAIN x] /\ \A i, j \in DOMAIN y : i < j => place[i] < place[j]
  BY <1>6, <1>7
<1>9. ASSUME NEW i \in DOMAIN y PROVE y[i] = x[place[i]]
  <2>1. CASE i \in 1..m
    BY <1>6, <1>7, <2>1
  <2>2. CASE i \notin 1..m
    <3>1. PICK k \in 1..(n - 1) : i = m + k /\ k + 1 \in 1..n /\ place[i] = m + (k + 1)
      <4>1. i - m \in 1..(n - 1) /\ i = m + (i - m) /\ (i - m) + 1 \in 1..n
            /\ i + 1 = m + ((i - m) + 1) /\ ~(i <= m)
        BY <1>6, <2>2
      <4>2. QED
        BY <1>6, <1>7, <4>1
    <3>2. y[m + k] = c[k] /\ c[k] = b[k + 1] /\ x[m + (k + 1)] = b[k + 1]
      BY <1>4, <1>6, <3>1
    <3>3. QED
      BY <3>1, <3>2
  <2>3. QED
    BY <2>1, <2>2
<1>10. (Distinct(x) => Distinct(y)) /\ (Ordered(x) => Ordered(y))
  BY <1>8, <1>9, Thinned
<1>11. QED
  BY <1>2, <1>3, <1>5, <1>10

LEMMA CountedOnce ==
    ASSUME NEW x \in Seq(Records), Distinct(x)
    PROVE  Cardinality(Elements(x)) = Len(x)
<1>1. PICK n \in Nat : n = Len(x) /\ DOMAIN x = 1..n
  BY RecordSeqs
<1>2. PICK f : f = [i \in 1..n |-> x[i]]
  OBVIOUS
<1>3. f \in [1..n -> Elements(x)] /\ \A i, j \in 1..n : f[i] = f[j] => i = j
  BY <1>1, <1>2 DEF Elements, Distinct
<1>4. \A e \in Elements(x) : \E i \in 1..n : f[i] = e
  BY <1>1, <1>2 DEF Elements
<1>5. f \in Bijection(1..n, Elements(x))
  BY <1>3, <1>4 DEF Bijection, Injection, Surjection, IsInjective
<1>6. ExistsBijection(1..n, Elements(x))
  BY <1>5 DEF ExistsBijection
<1>7. QED
  BY <1>1, <1>6, FS_CountingElements

\* The four parts of a stream, and how the steps change them.
Line(a, b, c, d) == a \o b \o c \o d

LEMMA Lines ==
    ASSUME NEW a \in Seq(Records), NEW b \in Seq(Records), NEW c \in Seq(Records),
           NEW d \in Seq(Records)
    PROVE  /\ Line(a, b, c, d) \in Seq(Records)
           /\ Elements(Line(a, b, c, d)) = Elements(a) \cup Elements(b) \cup Elements(c) \cup Elements(d)
           /\ Line(a, b, c, d) = (a \o b) \o (c \o d)
           /\ a \o b \in Seq(Records) /\ (a \o b) \o c \in Seq(Records) /\ c \o d \in Seq(Records)
<1>1. PICK x \in Seq(Records) : x = a \o b
  BY Concats
<1>2. PICK y \in Seq(Records) : y = x \o c
  BY Concats
<1>3. PICK z \in Seq(Records) : z = y \o d
  BY Concats
<1>4. PICK w \in Seq(Records) : w = c \o d
  BY Concats
<1>5. z = x \o w
  BY <1>2, <1>3, <1>4, ConcatAssociative, SMTT(30)
<1>6. /\ Elements(x) = Elements(a) \cup Elements(b) /\ Elements(y) = Elements(x) \cup Elements(c)
      /\ Elements(z) = Elements(y) \cup Elements(d)
  BY <1>1, <1>2, <1>3, ConcatElements
<1>7. Line(a, b, c, d) = z
  BY <1>1, <1>2, <1>3 DEF Line
<1>8. QED
  BY <1>1, <1>2, <1>3, <1>4, <1>5, <1>6, <1>7

LEMMA AppendedLast ==
    ASSUME NEW x \in Seq(Records), NEW d \in Seq(Records), NEW r \in Records
    PROVE  x \o Append(d, r) = Append(x \o d, r)
<1>1. PICK e \in Seq(Records) : e = <<r>>
  <2>1. <<r>> \in Seq(Records)
    OBVIOUS
  <2>2. QED
    BY <2>1
<1>2. Append(d, r) = d \o e
  BY <1>1, AppendIsConcat
<1>3. PICK y \in Seq(Records) : y = x \o d
  BY Concats
<1>4. Append(y, r) = y \o e
  BY <1>1, AppendIsConcat
<1>5. y \o e = x \o (d \o e)
  BY <1>3, ConcatAssociative
<1>6. QED
  BY <1>2, <1>3, <1>4, <1>5

LEMMA MovedHead ==
    ASSUME NEW x \in Seq(Records), NEW d \in Seq(Records), d # <<>>
    PROVE  Append(x, Head(d)) \o Tail(d) = x \o d
<1>1. PICK r \in Records, e \in Seq(Records), t \in Seq(Records) :
        r = Head(d) /\ e = <<r>> /\ t = Tail(d) /\ d = e \o t
  BY HeadAndTail
<1>2. Append(x, r) = x \o e
  BY AppendIsConcat, <1>1
<1>3. (x \o e) \o t = x \o (e \o t)
  BY ConcatAssociative, SMTT(30)
<1>4. QED
  BY <1>1, <1>2, <1>3

LEMMA QueueAppended ==
    ASSUME NEW a \in Seq(Records), NEW b \in Seq(Records), NEW c \in Seq(Records),
           NEW r \in Records
    PROVE  Line(a, b, Append(c, r), <<>>) = Append(Line(a, b, c, <<>>), r)
<1>1. PICK x \in Seq(Records), y \in Seq(Records) : x = a \o b /\ y = x \o c
  BY Concats
<1>2. PICK z \in Seq(Records) : z = Append(c, r)
  BY AppendProperties
<1>3. PICK w \in Seq(Records) : w = x \o z /\ w = Append(y, r)
  <2>1. x \o z = Append(y, r)
    BY <1>1, <1>2, AppendedLast
  <2>2. QED
    BY <2>1, Concats
<1>4. w \o <<>> = w /\ y \o <<>> = y
  BY ConcatEmptySeq
<1>5. QED
  BY <1>1, <1>2, <1>3, <1>4 DEF Line

LEMMA CallbackMoved ==
    ASSUME NEW a \in Seq(Records), NEW b \in Seq(Records), NEW c \in Seq(Records),
           NEW d \in Seq(Records), d # <<>>
    PROVE  Line(a, b, Append(c, Head(d)), Tail(d)) = Line(a, b, c, d)
<1>1. PICK x \in Seq(Records), y \in Seq(Records) : x = a \o b /\ y = x \o c
  BY Concats
<1>2. PICK h \in Records, t \in Seq(Records) : h = Head(d) /\ t = Tail(d)
  BY HeadAndTail
<1>3. x \o Append(c, h) = Append(y, h)
  BY <1>1, AppendedLast
<1>4. Append(y, h) \o t = y \o d
  BY <1>2, MovedHead
<1>5. QED
  BY <1>1, <1>2, <1>3, <1>4 DEF Line

LEMMA ReplayMoved ==
    ASSUME NEW a \in Seq(Records), NEW b \in Seq(Records), NEW c \in Seq(Records),
           NEW d \in Seq(Records), b # <<>>
    PROVE  Line(Append(a, Head(b)), Tail(b), c, d) = Line(a, b, c, d)
BY MovedHead DEF Line

LEMMA QueueMoved ==
    ASSUME NEW a \in Seq(Records), NEW c \in Seq(Records), NEW d \in Seq(Records), c # <<>>
    PROVE  Line(Append(a, Head(c)), <<>>, Tail(c), d) = Line(a, <<>>, c, d)
<1>1. PICK h \in Records, t \in Seq(Records) : h = Head(c) /\ t = Tail(c)
  BY HeadAndTail
<1>2. PICK z \in Seq(Records) : z = Append(a, h)
  BY AppendProperties
<1>3. z \o <<>> = z /\ a \o <<>> = a
  BY ConcatEmptySeq
<1>4. z \o t = a \o c
  BY <1>1, <1>2, MovedHead
<1>5. QED
  BY <1>1, <1>2, <1>3, <1>4 DEF Line

\* The last n of a sequence.
IsLast(b, x, n) ==
  /\ Len(b) = IF Len(x) <= n THEN Len(x) ELSE n
  /\ \A i \in 1..Len(b) : b[i] = x[(Len(x) - Len(b)) + i]

LEMMA LastIsLast ==
    ASSUME NEW x \in Seq(Records), NEW n \in Nat
    PROVE  LastOf(x, n) \in Seq(Records) /\ IsLast(LastOf(x, n), x, n)
<1>1. PICK l \in Nat : l = Len(x) /\ \A i \in 1..l : x[i] \in Records
  BY RecordSeqs
<1>2. CASE l <= n
  BY <1>1, <1>2 DEF LastOf, IsLast
<1>3. CASE ~(l <= n)
  <2>1. /\ (l - n) + 1 \in Int /\ l \in Int /\ \A i \in ((l - n) + 1)..l : i \in 1..l
        /\ (l - ((l - n) + 1)) + 1 = n
    BY <1>3
  <2>2. PICK first \in Int : first = (l - n) + 1
    BY <2>1
  <2>3. \A i \in first..l : x[i] \in Records
    BY <1>1, <2>1, <2>2
  <2>4. /\ SubSeq(x, first, l) \in Seq(Records)
        /\ Len(SubSeq(x, first, l)) = IF first <= l THEN l - first + 1 ELSE 0
        /\ \A i \in 1..(l - first + 1) : SubSeq(x, first, l)[i] = x[first + i - 1]
    BY <2>3, SubSeqProperties
  <2>5. PICK y \in Seq(Records) : y = SubSeq(x, first, l)
    BY <2>4
  <2>6. /\ Len(y) = n
    BY <1>3, <2>2, <2>4, <2>5
  <2>7. \A i \in 1..n : y[i] = x[(l - n) + i]
    BY <2>1, <2>2, <2>4, <2>5
  <2>8. LastOf(x, n) = y
    BY <1>1, <1>3, <2>2, <2>5 DEF LastOf
  <2>9. QED
    BY <1>1, <1>3, <2>6, <2>7, <2>8 DEF IsLast
<1>4. QED
  BY <1>2, <1>3

\* The last of the last, with one more at the end.
LEMMA LastGrows ==
    ASSUME NEW b \in Seq(Records), NEW x \in Seq(Records), NEW r \in Records, NEW n \in Nat,
           IsLast(b, x, n)
    PROVE  IsLast(LastOf(Append(b, r), n), Append(x, r), n)
<1>1. PICK c \in Seq(Records), y \in Seq(Records) : c = Append(b, r) /\ y = Append(x, r)
  BY AppendProperties
<1>2. PICK k \in Nat, l \in Nat : k = Len(b) /\ l = Len(x)
  BY RecordSeqs
<1>3. /\ Len(c) = k + 1 /\ c[k + 1] = r /\ \A i \in 1..k : c[i] = b[i]
      /\ Len(y) = l + 1 /\ y[l + 1] = r /\ \A i \in 1..l : y[i] = x[i]
  BY <1>1, <1>2, AppendProperties
<1>4. PICK z \in Seq(Records) : z = LastOf(c, n) /\ IsLast(z, c, n)
  BY LastIsLast
<1>5. k = (IF l <= n THEN l ELSE n) /\ \A i \in 1..k : b[i] = x[(l - k) + i]
  BY <1>2 DEF IsLast
<1>6. \A i \in 1..(k + 1) : c[i] = y[(l - k) + i]
  <2> TAKE i \in 1..(k + 1)
  <2>1. CASE i \in 1..k
    <3>1. (l - k) + i \in 1..l
      BY <1>5, <2>1
    <3>2. QED
      BY <1>3, <1>5, <2>1, <3>1
  <2>2. CASE i = k + 1
    <3>1. (l - k) + i = l + 1
      BY <2>2
    <3>2. QED
      BY <1>3, <2>2, <3>1
  <2>3. QED
    BY <2>1, <2>2
<1>7. PICK m \in Nat : /\ m = Len(z) /\ m = (IF k + 1 <= n THEN k + 1 ELSE n)
                       /\ \A i \in 1..m : z[i] = c[((k + 1) - m) + i]
  <2>1. PICK m \in Nat : m = Len(z)
    BY RecordSeqs
  <2>2. /\ m = (IF k + 1 <= n THEN k + 1 ELSE n)
        /\ \A i \in 1..m : z[i] = c[((k + 1) - m) + i]
    BY <1>3, <1>4, <2>1 DEF IsLast
  <2>3. QED
    BY <2>1, <2>2
<1>8. m = (IF l + 1 <= n THEN l + 1 ELSE n)
  BY <1>5, <1>7
<1>9. \A i \in 1..m : z[i] = y[((l + 1) - m) + i]
  <2> TAKE i \in 1..m
  <2>1. /\ ((k + 1) - m) + i \in 1..(k + 1)
        /\ (l - k) + (((k + 1) - m) + i) = ((l + 1) - m) + i
    BY <1>7
  <2>2. QED
    BY <1>6, <1>7, <2>1
<1>10. QED
  BY <1>1, <1>3, <1>4, <1>7, <1>8, <1>9 DEF IsLast

\* How many records of a source a sequence has.
SentBy(x, t) == Cardinality({i \in DOMAIN x : x[i][1] = t})
Numbered(x) == Ordered(x) /\ \A e \in Elements(x) : e[2] <= SentBy(x, e[1])

LEMMA SentByGrows ==
    ASSUME NEW x \in Seq(Records), NEW r \in Records
    PROVE  /\ SentBy(Append(x, r), r[1]) = SentBy(x, r[1]) + 1
           /\ \A t \in Sources \ {r[1]} : SentBy(Append(x, r), t) = SentBy(x, t)
           /\ \A t \in Sources : SentBy(x, t) \in Nat
<1>1. PICK y \in Seq(Records) : y = Append(x, r)
  BY AppendProperties
<1>2. PICK n \in Nat : n = Len(x)
  BY RecordSeqs
<1>3. /\ DOMAIN x = 1..n /\ DOMAIN y = 1..(n + 1) /\ \A i \in 1..n : y[i] = x[i]
      /\ y[n + 1] = r
  BY <1>1, <1>2, AppendProperties, RecordSeqs
<1>4. ASSUME NEW t \in Sources
      PROVE  /\ IsFiniteSet({i \in 1..n : x[i][1] = t}) /\ SentBy(x, t) \in Nat
             /\ r[1] = t => SentBy(y, t) = SentBy(x, t) + 1
             /\ r[1] # t => SentBy(y, t) = SentBy(x, t)
  <2> DEFINE these == {i \in 1..n : x[i][1] = t}
  <2>1. IsFiniteSet(these) /\ Cardinality(these) \in Nat
    <3>1. IsFiniteSet(1..n) /\ these \subseteq 1..n
      BY FS_Interval
    <3>2. QED
      BY <3>1, FS_Subset, FS_CardinalityType
  <2>2. SentBy(x, t) = Cardinality(these)
    BY <1>3 DEF SentBy
  <2>3. CASE r[1] = t
    <3>1. {i \in 1..(n + 1) : y[i][1] = t} = these \cup {n + 1}
      BY <1>3, <2>3
    <3>2. n + 1 \notin these
      OBVIOUS
    <3>3. Cardinality(these \cup {n + 1}) = Cardinality(these) + 1
      BY <2>1, <3>2, FS_AddElement
    <3>4. QED
      BY <1>3, <2>1, <2>2, <2>3, <3>1, <3>3 DEF SentBy
  <2>4. CASE r[1] # t
    <3>1. {i \in 1..(n + 1) : y[i][1] = t} = these
      BY <1>3, <2>4
    <3>2. QED
      BY <1>3, <2>1, <2>2, <2>4, <3>1 DEF SentBy
  <2>5. QED
    BY <2>1, <2>2, <2>3, <2>4
<1>5. r[1] \in Sources
  BY DEF Records
<1>6. QED
  BY <1>1, <1>4, <1>5

\* A record with the next number of its source is new and comes last.
LEMMA NextIsNew ==
    ASSUME NEW x \in Seq(Records), Numbered(x), NEW t \in Sources
    PROVE  LET r == <<t, SentBy(x, t) + 1>> IN
           /\ r \in Records /\ r \notin Elements(x) /\ Numbered(Append(x, r))
           /\ SentBy(Append(x, r), t) = SentBy(x, t) + 1
           /\ \A z \in Sources \ {t} : SentBy(Append(x, r), z) = SentBy(x, z)
           /\ \A w \in Seq(Records) : Elements(w) \subseteq Elements(x) => Beyond(w, r)
<1> DEFINE r == <<t, SentBy(x, t) + 1>>
<1>1. \A z \in Sources : SentBy(x, z) \in Nat
  BY SentByGrows, <<t, 0>> \in Records DEF Records
<1>2. r \in Records /\ r[1] = t /\ r[2] = SentBy(x, t) + 1
  BY <1>1 DEF Records
<1>3. /\ SentBy(Append(x, r), t) = SentBy(x, t) + 1
      /\ \A z \in Sources \ {t} : SentBy(Append(x, r), z) = SentBy(x, z)
  BY <1>2, SentByGrows
<1> HIDE DEF r
<1>4. \A e \in Elements(x) : e[1] \in Sources /\ e[2] \in Nat
  BY RecordSeqs DEF Elements
<1>5. \A e \in Elements(x) : e[1] = t => e[2] < r[2]
  BY <1>1, <1>2, <1>4 DEF Numbered
<1>6. r \notin Elements(x)
  BY <1>1, <1>2, <1>5
<1>7. Beyond(x, r) /\ \A w \in Seq(Records) : Elements(w) \subseteq Elements(x) => Beyond(w, r)
  BY <1>2, <1>5 DEF Beyond
<1>8. Ordered(Append(x, r)) /\ Elements(Append(x, r)) = Elements(x) \cup {r}
  BY <1>2, <1>7, Appended DEF Numbered
<1>9. \A e \in Elements(x) \cup {r} : e[2] <= SentBy(Append(x, r), e[1])
  <2>1. ASSUME NEW e \in Elements(x) PROVE e[2] <= SentBy(Append(x, r), e[1])
    <3>1. e[2] <= SentBy(x, e[1]) /\ e[1] \in Sources /\ e[2] \in Nat /\ SentBy(x, e[1]) \in Nat
      BY <1>1, <1>4 DEF Numbered
    <3>2. CASE e[1] = t
      BY <1>3, <3>1, <3>2
    <3>3. CASE e[1] # t
      BY <1>3, <3>1, <3>3
    <3>4. QED
      BY <3>2, <3>3
  <2>2. r[2] <= SentBy(Append(x, r), r[1])
    BY <1>1, <1>2, <1>3
  <2>3. QED
    BY <2>1, <2>2
<1>10. QED
  BY <1>2, <1>3, <1>6, <1>7, <1>8, <1>9 DEF Numbered, r

\* The latest record of a source comes after what a subscriber has of it.
LEMMA LatestIsBeyond ==
    ASSUME NEW x \in Seq(Records), Numbered(x), NEW t \in Sources, NEW w \in Seq(Records),
           Elements(w) \subseteq Elements(x), <<t, SentBy(x, t)>> \notin Elements(w)
    PROVE  Beyond(w, <<t, SentBy(x, t)>>)
<1>1. \A z \in Sources : SentBy(x, z) \in Nat
  BY SentByGrows, <<t, 0>> \in Records DEF Records
<1> SUFFICES ASSUME NEW e \in Elements(w), e[1] = t PROVE e[2] < SentBy(x, t)
  BY DEF Beyond
<1>2. e \in Records /\ e[2] \in Nat /\ e[2] <= SentBy(x, t)
  BY RecordSeqs DEF Numbered, Records
<1>3. e = <<e[1], e[2]>>
  BY <1>2 DEF Records
<1>4. QED
  BY <1>1, <1>2, <1>3

LEMMA LastIsInPlace ==
    ASSUME NEW x \in Seq(Records), NEW b \in Seq(Records), NEW n \in Nat, Ordered(x), IsLast(b, x, n)
    PROVE  /\ Ordered(b) /\ Distinct(b) /\ Len(b) <= Len(x)
           /\ Elements(b) = {x[i] : i \in ((Len(x) + 1) - Len(b))..Len(x)}
           /\ Elements(b) \subseteq Elements(x)
<1>1. PICK k \in Nat : k = Len(b) /\ DOMAIN b = 1..k
  BY RecordSeqs
<1>2. PICK l \in Nat : l = Len(x) /\ DOMAIN x = 1..l
  BY RecordSeqs
<1>3. k <= l /\ \A i \in 1..k : b[i] = x[(l - k) + i] /\ (l - k) + i \in 1..l
  <2>1. k = (IF l <= n THEN l ELSE n) /\ \A i \in 1..k : b[i] = x[(l - k) + i]
    BY <1>1, <1>2 DEF IsLast
  <2>2. k <= l
    BY <2>1
  <2>3. QED
    BY <2>1, <2>2
<1>4. PICK place : place = [i \in 1..k |-> (l - k) + i]
  OBVIOUS
<1>5. /\ place \in [DOMAIN b -> DOMAIN x] /\ \A i \in DOMAIN b : b[i] = x[place[i]]
      /\ \A i, j \in DOMAIN b : i < j => place[i] < place[j]
  <2>1. place \in [1..k -> 1..l]
    BY <1>3, <1>4
  <2>2. \A i \in 1..k : place[i] = (l - k) + i
    BY <1>4
  <2>3. \A i, j \in 1..k : i < j => place[i] < place[j]
    BY <2>2
  <2>4. QED
    BY <1>1, <1>2, <1>3, <2>1, <2>2, <2>3
<1>6. Ordered(b)
  BY <1>5, Thinned
<1>7. Distinct(b)
  BY <1>6, OrderedIsDistinct
<1>8. \A j \in ((l + 1) - k)..l : j - (l - k) \in 1..k /\ (l - k) + (j - (l - k)) = j /\ j \in 1..l
  BY <1>3
<1>9. \A i \in 1..k : (l - k) + i \in ((l + 1) - k)..l
  BY <1>3
<1>10. \A e : e \in Elements(b) <=> e \in {x[i] : i \in ((l + 1) - k)..l}
  <2>1. ASSUME NEW i \in 1..k PROVE b[i] \in {x[j] : j \in ((l + 1) - k)..l}
    BY <1>3, <1>9
  <2>2. ASSUME NEW j \in ((l + 1) - k)..l PROVE x[j] \in Elements(b)
    <3>1. PICK i \in 1..k : (l - k) + i = j
      BY <1>8
    <3>2. b[i] = x[j]
      BY <1>3, <3>1
    <3>3. QED
      BY <1>1, <3>2 DEF Elements
  <2>3. QED
    BY <1>1, <2>1, <2>2 DEF Elements
<1>11. Elements(b) \subseteq Elements(x)
  <2>1. ASSUME NEW i \in 1..k PROVE b[i] \in Elements(x)
    <3>1. PICK j \in 1..l : b[i] = x[j]
      BY <1>3
    <3>2. QED
      BY <1>2, <3>1 DEF Elements
  <2>2. QED
    BY <1>1, <2>1 DEF Elements
<1>12. QED
  BY <1>1, <1>2, <1>3, <1>6, <1>7, <1>10, <1>11

(***************************************************************************)
(* The invariant                                                           *)
(***************************************************************************)
Underways == [record : Records, targets : SUBSET Subscribers]

ChannelTypes ==
  /\ form \in {"log", "session", "bounded"} /\ loop \in BOOLEAN /\ drops \in Nat
  /\ sent \in Seq(Records) /\ buffer \in Seq(Records)
  /\ underway \in [Sources -> {Idle} \cup Underways] /\ registered \subseteq Subscribers
  /\ streams \in [Subscribers -> Streams] /\ lost \in [Subscribers -> SUBSET Records]

BufferIsLast == form = "log" => IsLast(buffer, sent, MaxBuffer)

UnderwayIsLatest ==
  \A t \in Sources : underway[t] # Idle =>
    /\ underway[t].record = <<t, SentBy(sent, t)>> /\ underway[t].record \in Elements(sent)
    /\ \A s \in underway[t].targets : streams[s].phase # "new"
    /\ form # "bounded"

NewAreEmpty ==
  \A s \in Subscribers :
    /\ streams[s].from \in 1..(Len(sent) + 1)
    /\ streams[s].phase = "new" =>
         /\ streams[s].received = <<>> /\ streams[s].replay = <<>>
         /\ streams[s].queue = <<>> /\ streams[s].callbacks = <<>>
         /\ lost[s] = {} /\ s \notin registered

\* What a subscriber has is sent, once, in order while the loop runs.
InPlace(w, l, u) ==
  /\ Elements(w) \subseteq Elements(sent) /\ l \subseteq Elements(sent)
  /\ u \cap Elements(w) = {} /\ Distinct(w) /\ (loop => Ordered(w)) /\ IsFiniteSet(l)
StreamsInPlace == \A s \in Subscribers : InPlace(Stream(s), lost[s], UnderwayTo(s))

StreamsComplete ==
  \A s \in Subscribers : streams[s].phase = "live" /\ (s \in registered \/ form = "bounded") =>
    Elements(Stream(s)) \cup UnderwayTo(s) \cup lost[s] = Due(s)

OneReader ==
  form = "bounded" =>
    /\ loop /\ registered = {}
    /\ \A s \in Subscribers : streams[s].callbacks = <<>>
    /\ \A s, z \in Subscribers : streams[s].phase # "new" /\ streams[z].phase # "new" => s = z
    /\ (\A s \in Subscribers : streams[s].phase = "new") => drops = 0
    /\ \A s \in Subscribers : streams[s].phase # "new" => drops = Cardinality(lost[s])

ChannelInv == /\ ChannelTypes /\ Numbered(sent) /\ BufferIsLast /\ UnderwayIsLatest /\ NewAreEmpty
              /\ StreamsInPlace /\ StreamsComplete /\ OneReader

LEMMA UnderwayRecords ==
    ASSUME ChannelTypes, NEW t \in Sources
    PROVE  /\ underway[t] # Idle => underway[t] \in Underways
           /\ underway[t] = Idle => underway[t].targets = {}
           /\ underway[t].targets \subseteq Subscribers
BY DEF ChannelTypes, Underways, Idle

LEMMA UnderwayElements ==
    ASSUME NEW s \in Subscribers, NEW e
    PROVE  e \in UnderwayTo(s) <=>
             \E t \in Sources : underway[t] # Idle /\ s \in underway[t].targets
                                /\ e = underway[t].record
BY DEF UnderwayTo

LEMMA StreamLine ==
    ASSUME ChannelTypes, NEW s \in Subscribers
    PROVE  /\ streams[s].received \in Seq(Records) /\ streams[s].replay \in Seq(Records)
           /\ streams[s].queue \in Seq(Records) /\ streams[s].callbacks \in Seq(Records)
           /\ Stream(s) = Line(streams[s].received, streams[s].replay, streams[s].queue,
                               streams[s].callbacks)
           /\ Stream(s) \in Seq(Records)
<1>1. /\ streams[s].received \in Seq(Records) /\ streams[s].replay \in Seq(Records)
      /\ streams[s].queue \in Seq(Records) /\ streams[s].callbacks \in Seq(Records)
  BY DEF ChannelTypes, Streams
<1>2. Stream(s) = Line(streams[s].received, streams[s].replay, streams[s].queue,
                       streams[s].callbacks)
  BY DEF Stream, Line
<1>3. Line(streams[s].received, streams[s].replay, streams[s].queue, streams[s].callbacks)
        \in Seq(Records)
  BY <1>1, Lines
<1>4. QED
  BY <1>1, <1>2, <1>3

LEMMA StreamFields ==
    ASSUME NEW q \in Streams, NEW x, NEW y
    PROVE  /\ LET p == [q EXCEPT !.callbacks = x] IN
              /\ p.phase = q.phase /\ p.from = q.from /\ p.received = q.received
              /\ p.replay = q.replay /\ p.queue = q.queue /\ p.callbacks = x
           /\ LET p == [q EXCEPT !.queue = x] IN
              /\ p.phase = q.phase /\ p.from = q.from /\ p.received = q.received
              /\ p.replay = q.replay /\ p.queue = x /\ p.callbacks = q.callbacks
           /\ LET p == [q EXCEPT !.callbacks = x, !.queue = y] IN
              /\ p.phase = q.phase /\ p.from = q.from /\ p.received = q.received
              /\ p.replay = q.replay /\ p.queue = y /\ p.callbacks = x
           /\ LET p == [q EXCEPT !.received = x, !.replay = y] IN
              /\ p.phase = q.phase /\ p.from = q.from /\ p.received = x
              /\ p.replay = y /\ p.queue = q.queue /\ p.callbacks = q.callbacks
           /\ LET p == [q EXCEPT !.received = x, !.queue = y] IN
              /\ p.phase = q.phase /\ p.from = q.from /\ p.received = x
              /\ p.replay = q.replay /\ p.queue = y /\ p.callbacks = q.callbacks
BY DEF Streams

LEMMA StreamChanges ==
    ASSUME ChannelTypes, NEW s \in Subscribers, NEW x \in Seq(Records), NEW y \in Seq(Records),
           NEW n \in Nat \ {0}, NEW p \in {"new", "live", "gone"}
    PROVE  /\ [streams[s] EXCEPT !.callbacks = x] \in Streams
           /\ [streams[s] EXCEPT !.queue = x] \in Streams
           /\ [streams[s] EXCEPT !.callbacks = x, !.queue = y] \in Streams
           /\ [streams[s] EXCEPT !.received = x, !.replay = y] \in Streams
           /\ [streams[s] EXCEPT !.received = x, !.queue = y] \in Streams
           /\ [streams[s] EXCEPT !.phase = p, !.replay = x, !.from = n] \in Streams
           /\ [streams[s] EXCEPT !.phase = p] \in Streams
           /\ streams[s] \in Streams
           /\ \A q \in Streams : [streams EXCEPT ![s] = q] \in [Subscribers -> Streams]
<1>1. streams[s] \in Streams
  BY DEF ChannelTypes
<1>2. \A q \in Streams : [streams EXCEPT ![s] = q] \in [Subscribers -> Streams]
  BY DEF ChannelTypes
<1>3. QED
  BY <1>1, <1>2 DEF Streams

LEMMA NothingLost == ASSUME ChannelInv PROVE NothingLostUnseen
<1> SUFFICES ASSUME NEW s \in Subscribers, streams[s].phase = "live"
             PROVE  LET stream == Stream(s) IN
                    /\ Cardinality(Elements(stream)) = Len(stream)
                    /\ loop => \A i, j \in DOMAIN stream :
                         i < j /\ stream[i][1] = stream[j][1] => stream[i][2] < stream[j][2]
                    /\ s \in registered \/ form = "bounded" =>
                         Elements(stream) \cup UnderwayTo(s) \cup lost[s] = Due(s)
                    /\ form = "bounded" => drops = Cardinality(lost[s])
  BY DEF NothingLostUnseen
<1>1. InPlace(Stream(s), lost[s], UnderwayTo(s)) /\ Stream(s) \in Seq(Records)
  BY StreamLine DEF ChannelInv, StreamsInPlace
<1>2. Cardinality(Elements(Stream(s))) = Len(Stream(s))
  BY <1>1, CountedOnce DEF InPlace
<1>3. QED
  BY <1>1, <1>2 DEF InPlace, Ordered, ChannelInv, StreamsComplete, OneReader

\* What each step makes of the parts of a subscriber's stream.
LEMMA ChannelTypesNext ==
    ASSUME ChannelInv, ChannelNext, ChannelAssumption
    PROVE  ChannelTypes'
<1> USE DEF ChannelInv
<1>1. ASSUME NEW t \in Sources, Begin(t) PROVE ChannelTypes'
  <2>1. PICK r \in Records : /\ r = <<t, SentBy(sent, t) + 1>> /\ sent' = Append(sent, r)
                             /\ buffer' = (IF form = "log" THEN LastOf(Append(buffer, r), MaxBuffer)
                                           ELSE buffer)
                             /\ underway' = [underway EXCEPT ![t] =
                                  IF registered = {} THEN Idle
                                  ELSE [record |-> r, targets |-> registered]]
    BY <1>1, NextIsNew DEF Begin, ChannelTypes, SentBy, Targets
  <2>2. sent' \in Seq(Records) /\ Append(buffer, r) \in Seq(Records)
    BY <2>1, AppendProperties DEF ChannelTypes
  <2>3. buffer' \in Seq(Records)
    BY <2>1, <2>2, LastIsLast DEF ChannelTypes, ChannelAssumption
  <2>4. underway' \in [Sources -> {Idle} \cup Underways]
    BY <2>1 DEF ChannelTypes, Underways
  <2>5. QED
    BY <1>1, <2>2, <2>3, <2>4 DEF Begin, ChannelTypes
<1>2. ASSUME NEW t \in Sources, NEW s \in Subscribers, Deliver(t, s) PROVE ChannelTypes'
  <2>1. PICK r \in Records : r = underway[t].record /\ underway[t] \in Underways
    BY <1>2, UnderwayRecords DEF Deliver, Underways
  <2>2. underway' \in [Sources -> {Idle} \cup Underways]
    BY <1>2, <2>1 DEF Deliver, ChannelTypes, Underways
  <2>3. streams' \in [Subscribers -> Streams]
    <3>1. /\ Append(streams[s].callbacks, r) \in Seq(Records)
          /\ Append(streams[s].queue, r) \in Seq(Records)
      BY StreamLine, AppendProperties
    <3>2. CASE streams' = streams
      BY <3>2 DEF ChannelTypes
    <3>3. CASE streams' = [streams EXCEPT ![s].callbacks = Append(@, r)]
      BY <3>1, <3>3, ZenonT(60) DEF ChannelTypes, Streams
    <3>4. CASE streams' = [streams EXCEPT ![s] = Put(@, r)]
      BY <3>1, <3>4, ZenonT(60) DEF ChannelTypes, Streams, Put
    <3>5. QED
      BY <1>2, <2>1, <3>2, <3>3, <3>4 DEF Deliver
  <2>4. QED
    BY <1>2, <2>1, <2>2, <2>3 DEF Deliver, ChannelTypes
<1>3. ASSUME NEW t \in Sources, NEW s \in Subscribers, Publish(t, s) PROVE ChannelTypes'
  <2>1. PICK r \in Records : r = <<t, SentBy(sent, t) + 1>> /\ sent' = Append(sent, r)
                             /\ (\/ drops' = drops + 1 /\ streams' = streams
                                    /\ lost' = [lost EXCEPT ![s] = @ \cup {r}]
                                 \/ streams' = [streams EXCEPT ![s] = Put(@, r)]
                                    /\ drops' = drops /\ lost' = lost)
    BY <1>3, NextIsNew DEF Publish, ChannelTypes, SentBy
  <2>2. sent' \in Seq(Records) /\ Append(streams[s].queue, r) \in Seq(Records)
    BY <2>1, StreamLine, AppendProperties DEF ChannelTypes
  <2>3. CASE drops' = drops + 1 /\ streams' = streams /\ lost' = [lost EXCEPT ![s] = @ \cup {r}]
    <3>1. lost' \in [Subscribers -> SUBSET Records] /\ drops' \in Nat
      BY <2>3 DEF ChannelTypes
    <3>2. QED
      BY <1>3, <2>2, <2>3, <3>1 DEF Publish, ChannelTypes
  <2>4. CASE streams' = [streams EXCEPT ![s] = Put(@, r)] /\ drops' = drops /\ lost' = lost
    <3>1. streams' = [streams EXCEPT ![s] = [streams[s] EXCEPT !.queue = Append(streams[s].queue, r)]]
      BY <2>4, SMTT(30) DEF Put, ChannelTypes, Streams
    <3>2. streams' \in [Subscribers -> Streams]
      BY <2>2, <3>1, StreamChanges, Zenon
    <3>3. QED
      BY <1>3, <2>2, <2>4, <3>2 DEF Publish, ChannelTypes
  <2>5. QED
    BY <2>1, <2>3, <2>4
<1>4. ASSUME NEW s \in Subscribers, RunCallback(s) PROVE ChannelTypes'
  <2>1. PICK r \in Records, d \in Seq(Records) :
          r = Head(streams[s].callbacks) /\ d = Tail(streams[s].callbacks)
    BY <1>4, StreamLine, HeadAndTail DEF RunCallback
  <2>2. Append(streams[s].queue, r) \in Seq(Records)
    BY StreamLine, AppendProperties
  <2>3. /\ lost' = lost \/ lost' = [lost EXCEPT ![s] = @ \cup {r}]
        /\ \/ streams' = [streams EXCEPT ![s] = [streams[s] EXCEPT !.callbacks = d]]
           \/ streams' = [streams EXCEPT ![s] =
                 [streams[s] EXCEPT !.callbacks = d, !.queue = Append(streams[s].queue, r)]]
    BY <1>4, <2>1, SMTT(30) DEF RunCallback, Put, ChannelTypes, Streams
  <2>4. streams' \in [Subscribers -> Streams]
    <3>1. PICK c \in Seq(Records) : c = Append(streams[s].queue, r)
      BY <2>2, Zenon
    <3>2. /\ [streams[s] EXCEPT !.callbacks = d] \in Streams
          /\ [streams[s] EXCEPT !.callbacks = d, !.queue = c] \in Streams
      BY StreamChanges, Zenon
    <3>3. QED
      BY <2>3, <3>1, <3>2, StreamChanges, Zenon
  <2>5. QED
    BY <1>4, <2>1, <2>3, <2>4 DEF RunCallback, ChannelTypes
<1>5. ASSUME NEW s \in Subscribers, Subscribe(s) PROVE ChannelTypes'
  <2>1. Replay \in Seq(Records)
    BY DEF Replay, ChannelTypes
  <2>2. PICK n \in Nat, m \in Nat :
          n = Len(sent) /\ m = Len(LastOf(sent, Remembered)) /\ m <= n
    <3>1. Remembered \in Nat
      BY DEF Remembered, ChannelAssumption
    <3>2. LastOf(sent, Remembered) \in Seq(Records) /\ IsLast(LastOf(sent, Remembered), sent, Remembered)
      BY <3>1, LastIsLast DEF ChannelTypes
    <3>3. QED
      BY <3>1, <3>2, RecordSeqs DEF IsLast, ChannelTypes
  <2>3. (n + 1) - m \in Nat \ {0}
    BY <2>2
  <2>4. streams' = [streams EXCEPT ![s] =
                      [streams[s] EXCEPT !.phase = "live", !.replay = Replay, !.from = (n + 1) - m]]
    <3>1. streams' = [streams EXCEPT ![s].phase = "live", ![s].replay = Replay,
                                     ![s].from = (n + 1) - m]
      BY <1>5, <2>2 DEF Subscribe
    <3>2. QED
      BY <3>1 DEF ChannelTypes, Streams
  <2>5. streams' \in [Subscribers -> Streams]
    BY <2>1, <2>3, <2>4, StreamChanges, Zenon
  <2>6. QED
    BY <1>5, <2>5 DEF Subscribe, ChannelTypes
<1>6. ASSUME NEW s \in Subscribers, Receive(s) PROVE ChannelTypes'
  <2>1. CASE streams[s].replay # <<>>
    <3>1. PICK a \in Seq(Records), b \in Seq(Records) :
            a = Append(streams[s].received, Head(streams[s].replay)) /\ b = Tail(streams[s].replay)
      BY <2>1, StreamLine, HeadAndTail, AppendProperties
    <3>2. streams' = [streams EXCEPT ![s] = [streams[s] EXCEPT !.received = a, !.replay = b]]
      BY <1>6, <2>1, <3>1, Zenon DEF Receive, Pending, ChannelTypes, Streams
    <3>3. streams' \in [Subscribers -> Streams]
      BY <3>1, <3>2, StreamChanges, ZenonT(60)
    <3>4. QED
      BY <1>6, <3>3 DEF Receive, ChannelTypes
  <2>2. CASE streams[s].replay = <<>>
    <3>1. PICK a \in Seq(Records), b \in Seq(Records) :
            a = Append(streams[s].received, Head(streams[s].queue)) /\ b = Tail(streams[s].queue)
      BY <1>6, <2>2, StreamLine, HeadAndTail, AppendProperties DEF Receive, Pending
    <3>2. streams' = [streams EXCEPT ![s] = [streams[s] EXCEPT !.received = a, !.queue = b]]
      BY <1>6, <2>2, <3>1, Zenon DEF Receive, Pending, ChannelTypes, Streams
    <3>3. streams' \in [Subscribers -> Streams]
      BY <3>1, <3>2, StreamChanges, ZenonT(60)
    <3>4. QED
      BY <1>6, <3>3 DEF Receive, ChannelTypes
  <2>3. QED
    BY <2>1, <2>2
<1>7. ASSUME NEW s \in Subscribers, Unsubscribe(s) PROVE ChannelTypes'
  BY <1>7, ZenonT(60) DEF Unsubscribe, ChannelTypes, Streams
<1>8. CASE LoopStops
  BY <1>8 DEF LoopStops, ChannelTypes
<1>9. QED
  BY <1>1, <1>2, <1>3, <1>4, <1>5, <1>6, <1>7, <1>8 DEF ChannelNext

LEMMA DueGrows ==
    ASSUME ChannelTypes, NEW s \in Subscribers, NEW r \in Records, sent' = Append(sent, r),
           streams[s].from \in 1..(Len(sent) + 1), streams'[s].from = streams[s].from
    PROVE  Due(s)' = Due(s) \cup {r}
<1> PICK n \in Nat : n = Len(sent)
  BY RecordSeqs DEF ChannelTypes
<1>1. PICK a \in 1..(n + 1) : n = Len(sent) /\ a = streams[s].from
  OBVIOUS
<1>2. /\ Len(sent') = n + 1 /\ sent'[n + 1] = r /\ \A i \in 1..n : sent'[i] = sent[i]
  BY <1>1, AppendProperties DEF ChannelTypes
<1>3. /\ Due(s) = {sent[i] : i \in a..n}
      /\ Due(s)' = {sent'[i] : i \in a..(n + 1)}
  BY <1>1, <1>2 DEF Due
<1>4. \A i \in a..(n + 1) : i = n + 1 \/ i \in a..n
  OBVIOUS
<1>5. n + 1 \in a..(n + 1) /\ \A i \in a..n : i \in a..(n + 1) /\ i \in 1..n
  OBVIOUS
<1>6. QED
  BY <1>2, <1>3, <1>4, <1>5

LEMMA SentGrows ==
    ASSUME ChannelTypes, NEW r \in Records, sent' = Append(sent, r)
    PROVE  Elements(sent)' = Elements(sent) \cup {r} /\ Len(sent)' = Len(sent) + 1 /\ Len(sent) \in Nat
BY Appended, AppendProperties, RecordSeqs DEF ChannelTypes

ChannelRest == /\ Numbered(sent) /\ BufferIsLast /\ UnderwayIsLatest /\ NewAreEmpty
               /\ StreamsInPlace /\ StreamsComplete /\ OneReader

LEMMA BeginKeeps ==
    ASSUME ChannelInv, ChannelTypes', ChannelAssumption, NEW t \in Sources, Begin(t)
    PROVE  ChannelRest'
<1> USE DEF ChannelInv
<1>1. PICK r \in Records :
        /\ r = <<t, SentBy(sent, t) + 1>> /\ sent' = Append(sent, r)
        /\ r \notin Elements(sent) /\ Numbered(Append(sent, r))
        /\ SentBy(Append(sent, r), t) = SentBy(sent, t) + 1
        /\ \A z \in Sources \ {t} : SentBy(Append(sent, r), z) = SentBy(sent, z)
        /\ buffer' = (IF form = "log" THEN LastOf(Append(buffer, r), MaxBuffer) ELSE buffer)
        /\ underway' = [underway EXCEPT ![t] =
                          IF registered = {} THEN Idle ELSE [record |-> r, targets |-> registered]]
  BY NextIsNew DEF Begin, ChannelTypes, SentBy, Targets
<1>2. /\ form # "bounded" /\ form' = form /\ streams' = streams /\ registered' = registered
      /\ loop' = loop /\ lost' = lost /\ underway[t] = Idle
  BY DEF Begin
<1>3. Elements(sent)' = Elements(sent) \cup {r} /\ Len(sent)' = Len(sent) + 1 /\ Len(sent) \in Nat
  BY <1>1, SentGrows
<1>4. BufferIsLast'
  BY <1>1, <1>2, LastGrows DEF BufferIsLast, ChannelTypes, ChannelAssumption
<1>5. /\ underway'[t] = (IF registered = {} THEN Idle ELSE [record |-> r, targets |-> registered])
      /\ \A z \in Sources \ {t} : underway'[z] = underway[z]
  BY <1>1 DEF ChannelTypes
<1>6. UnderwayIsLatest'
  <2> SUFFICES ASSUME NEW z \in Sources, underway'[z] # Idle
               PROVE  /\ underway'[z].record = <<z, SentBy(sent', z)>>
                      /\ underway'[z].record \in Elements(sent')
                      /\ \A s \in underway'[z].targets : streams'[s].phase # "new"
                      /\ form' # "bounded"
    BY DEF UnderwayIsLatest
  <2>1. CASE z = t
    <3>1. underway'[z].record = r /\ underway'[z].targets = registered
      BY <1>5, <2>1
    <3>2. \A s \in registered : streams[s].phase # "new"
      BY DEF NewAreEmpty, ChannelTypes
    <3>3. QED
      BY <1>1, <1>2, <1>3, <2>1, <3>1, <3>2
  <2>2. CASE z # t
    <3>1. underway'[z] = underway[z] /\ SentBy(sent', z) = SentBy(sent, z)
      BY <1>1, <1>5, <2>2
    <3>2. QED
      BY <1>2, <1>3, <3>1 DEF UnderwayIsLatest
  <2>3. QED
    BY <2>1, <2>2
<1>7. NewAreEmpty'
  BY <1>2, <1>3 DEF NewAreEmpty
<1>8. ASSUME NEW s \in Subscribers
      PROVE  /\ Stream(s)' = Stream(s)
             /\ UnderwayTo(s)' = UnderwayTo(s) \cup (IF s \in registered THEN {r} ELSE {})
  <2>1. Stream(s)' = Stream(s)
    BY <1>2 DEF Stream
  <2>2. \A e : e \in UnderwayTo(s)' <=> \E z \in Sources : /\ underway'[z] # Idle
                                          /\ s \in underway'[z].targets /\ e = underway'[z].record
    BY DEF UnderwayTo
  <2>3. \A e : e \in UnderwayTo(s) <=> \E z \in Sources : /\ underway[z] # Idle
                                          /\ s \in underway[z].targets /\ e = underway[z].record
    BY DEF UnderwayTo
  <2>4. \A z \in Sources \ {t} : underway'[z] = underway[z]
    BY <1>5
  <2>5. CASE s \in registered
    <3>1. underway'[t].targets = registered /\ underway'[t].record = r /\ underway'[t] # Idle
      <4>1. underway'[t] = [record |-> r, targets |-> registered]
        BY <1>5, <2>5
      <4>2. QED
        BY <2>5, <4>1 DEF Idle
    <3>2. QED
      BY <1>2, <2>1, <2>2, <2>3, <2>4, <2>5, <3>1
  <2>6. CASE s \notin registered
    <3>1. ~(s \in underway'[t].targets) \/ underway'[t] = Idle
      BY <1>5, <2>6
    <3>2. QED
      BY <1>2, <2>1, <2>2, <2>3, <2>4, <2>6, <3>1
  <2>7. QED
    BY <2>5, <2>6
<1>9. StreamsInPlace'
  <2> SUFFICES ASSUME NEW s \in Subscribers PROVE InPlace(Stream(s), lost[s], UnderwayTo(s))'
    BY DEF StreamsInPlace
  <2>1. InPlace(Stream(s), lost[s], UnderwayTo(s))
    BY DEF StreamsInPlace
  <2>2. r \notin Elements(Stream(s))
    BY <1>1, <2>1 DEF InPlace
  <2>3. Elements(Stream(s)') = Elements(Stream(s))
    BY <1>8
  <2>4. QED
    BY <1>2, <1>3, <1>8, <2>1, <2>2, <2>3 DEF InPlace
<1>10. StreamsComplete'
  <2> SUFFICES ASSUME NEW s \in Subscribers, streams'[s].phase = "live", s \in registered'
               PROVE  Elements(Stream(s)') \cup UnderwayTo(s)' \cup lost'[s] = Due(s)'
    BY <1>2 DEF StreamsComplete
  <2>1. Due(s)' = Due(s) \cup {r}
    BY <1>1, <1>2, DueGrows DEF NewAreEmpty
  <2>2. Elements(Stream(s)) \cup UnderwayTo(s) \cup lost[s] = Due(s)
    BY <1>2 DEF StreamsComplete
  <2>3. QED
    BY <1>2, <1>8, <2>1, <2>2
<1>11. OneReader'
  BY <1>2 DEF OneReader
<1>12. QED
  BY <1>1, <1>4, <1>6, <1>7, <1>9, <1>10, <1>11 DEF ChannelRest

\* A delivered record leaves the broadcast for the stream, or for what was lost.
LEMMA DeliverMoves ==
    ASSUME ChannelInv, ChannelTypes', NEW t \in Sources, NEW s \in Subscribers, Deliver(t, s),
           NEW r, r = underway[t].record
    PROVE  /\ r \in Records /\ r = <<t, SentBy(sent, t)>> /\ r \in UnderwayTo(s)
           /\ underway'[t] = Idle \/ /\ underway'[t].record = r
                                     /\ underway'[t].targets = underway[t].targets \ {s}
           /\ \A z \in Sources \ {t} : underway'[z] = underway[z]
           /\ UnderwayTo(s)' = UnderwayTo(s) \ {r}
           /\ \A z \in Subscribers \ {s} : UnderwayTo(z)' = UnderwayTo(z)
<1> USE DEF ChannelInv
<1>1. /\ underway[t] \in Underways /\ underway[t] # Idle /\ s \in underway[t].targets
      /\ underway' = [underway EXCEPT ![t] =
                        IF underway[t].targets \ {s} = {} THEN Idle
                        ELSE [@ EXCEPT !.targets = underway[t].targets \ {s}]]
  BY UnderwayRecords DEF Deliver
<1>2. r \in Records /\ r = <<t, SentBy(sent, t)>> /\ form # "bounded"
  BY <1>1 DEF Underways, UnderwayIsLatest
<1>3. \A z \in Sources \ {t} : underway[z] # Idle => underway[z].record # r
  BY <1>2 DEF UnderwayIsLatest
<1>4. \A z \in Sources \ {t} : underway'[z] = underway[z]
  BY <1>1 DEF ChannelTypes
<1>5. \/ underway[t].targets \ {s} = {} /\ underway'[t] = Idle
      \/ /\ underway[t].targets \ {s} # {} /\ underway'[t].record = r
         /\ underway'[t].targets = underway[t].targets \ {s}
  BY <1>1 DEF ChannelTypes, Underways
<1>6. underway'[t].targets = underway[t].targets \ {s}
      /\ (underway'[t] # Idle => underway'[t].record = r)
      /\ (underway'[t].targets # {} => underway'[t] # Idle)
  BY <1>5 DEF Idle
<1>7. ASSUME NEW z \in Subscribers, NEW e
      PROVE  /\ e \in UnderwayTo(z) <=> \E x \in Sources : /\ underway[x] # Idle
                                          /\ z \in underway[x].targets /\ e = underway[x].record
             /\ e \in UnderwayTo(z)' <=> \E x \in Sources : /\ underway'[x] # Idle
                                          /\ z \in underway'[x].targets /\ e = underway'[x].record
  BY DEF UnderwayTo
<1>8. r \in UnderwayTo(s)
  BY <1>1, <1>7
<1>9. \A e : e \in UnderwayTo(s)' <=> e \in UnderwayTo(s) /\ e # r
  <2> TAKE e
  <2>1. ASSUME e \in UnderwayTo(s)' PROVE e \in UnderwayTo(s) /\ e # r
    <3>1. PICK x \in Sources : underway'[x] # Idle /\ s \in underway'[x].targets
                               /\ e = underway'[x].record
      BY <1>7, <2>1
    <3>2. x # t
      BY <1>6, <3>1
    <3>3. QED
      BY <1>3, <1>4, <1>7, <3>1, <3>2
  <2>2. ASSUME e \in UnderwayTo(s), e # r PROVE e \in UnderwayTo(s)'
    <3>1. PICK x \in Sources : underway[x] # Idle /\ s \in underway[x].targets
                               /\ e = underway[x].record
      BY <1>7, <2>2
    <3>2. x # t
      BY <2>2, <3>1
    <3>3. QED
      BY <1>4, <1>7, <3>1, <3>2
  <2>3. QED
    BY <2>1, <2>2
<1>10. ASSUME NEW z \in Subscribers \ {s}, NEW e PROVE e \in UnderwayTo(z)' <=> e \in UnderwayTo(z)
  <2>1. ASSUME e \in UnderwayTo(z)' PROVE e \in UnderwayTo(z)
    <3>1. PICK x \in Sources : underway'[x] # Idle /\ z \in underway'[x].targets
                               /\ e = underway'[x].record
      BY <1>7, <2>1
    <3>2. underway[x] # Idle /\ z \in underway[x].targets /\ e = underway[x].record
      BY <1>1, <1>4, <1>6, <3>1
    <3>3. QED
      BY <1>7, <3>2
  <2>2. ASSUME e \in UnderwayTo(z) PROVE e \in UnderwayTo(z)'
    <3>1. PICK x \in Sources : underway[x] # Idle /\ z \in underway[x].targets
                               /\ e = underway[x].record
      BY <1>7, <2>2
    <3>2. underway'[x] # Idle /\ z \in underway'[x].targets /\ e = underway'[x].record
      BY <1>4, <1>6, <3>1
    <3>3. QED
      BY <1>7, <3>2
  <2>3. QED
    BY <2>1, <2>2
<1>11. QED
  BY <1>2, <1>4, <1>5, <1>8, <1>9, <1>10

\* The stream it was handed to, and the others.
LEMMA DeliverTo ==
    ASSUME ChannelInv, ChannelTypes', NEW t \in Sources, NEW s \in Subscribers, Deliver(t, s),
           NEW r \in Records, r = underway[t].record, r \in UnderwayTo(s),
           r = <<t, SentBy(sent, t)>>
    PROVE  /\ \/ /\ Elements(Stream(s))' = Elements(Stream(s)) \cup {r}
                 /\ Distinct(Stream(s))' /\ (loop => Ordered(Stream(s))')
                 /\ lost' = lost /\ registered' = registered
              \/ /\ Stream(s)' = Stream(s) /\ ~loop
                 /\ lost'[s] = lost[s] \cup {r} /\ \A z \in Subscribers \ {s} : lost'[z] = lost[z]
                 /\ registered' \subseteq registered
           /\ \A z \in Subscribers \ {s} : Stream(z)' = Stream(z)
           /\ \A z \in Subscribers : /\ streams'[z].phase = streams[z].phase
                                     /\ streams'[z].from = streams[z].from
<1> USE DEF ChannelInv
<1> PICK a \in Seq(Records), b \in Seq(Records), c \in Seq(Records), d \in Seq(Records) :
      /\ a = streams[s].received /\ b = streams[s].replay
      /\ c = streams[s].queue /\ d = streams[s].callbacks
      /\ Stream(s) = Line(a, b, c, d) /\ Stream(s) \in Seq(Records)
  BY StreamLine
<1>1. InPlace(Stream(s), lost[s], UnderwayTo(s)) /\ r \notin Elements(Stream(s))
  BY DEF StreamsInPlace, InPlace
<1>2. Elements(Append(Stream(s), r)) = Elements(Stream(s)) \cup {r} /\ Distinct(Append(Stream(s), r))
  BY <1>1, Appended, SMTT(30) DEF InPlace
<1>3. CASE /\ loop /\ streams' = [streams EXCEPT ![s].callbacks = Append(@, r)]
           /\ lost' = lost /\ registered' = registered
  <2>1. /\ streams'[s] = [streams[s] EXCEPT !.callbacks = Append(d, r)]
        /\ \A z \in Subscribers \ {s} : streams'[z] = streams[z]
    BY <1>3 DEF ChannelTypes
  <2>2. /\ streams'[s].received = a /\ streams'[s].replay = b /\ streams'[s].queue = c
        /\ streams'[s].callbacks = Append(d, r)
        /\ streams'[s].phase = streams[s].phase /\ streams'[s].from = streams[s].from
    <3>1. streams[s] \in Streams
      BY DEF ChannelTypes
    <3>2. QED
      BY <2>1, <3>1, StreamFields
  <2>3. Stream(s)' = Line(a, b, c, Append(d, r))
    BY <2>2, SMTT(30) DEF Stream, Line
  <2>4. Stream(s)' = Append(Stream(s), r)
    <3>1. PICK y \in Seq(Records) : y = (a \o b) \o c
      BY Lines, ZenonT(60)
    <3>2. y \o Append(d, r) = Append(y \o d, r)
      BY AppendedLast, ZenonT(60)
    <3>3. Line(a, b, c, Append(d, r)) = Append(Line(a, b, c, d), r)
      BY <3>1, <3>2, Zenon DEF Line
    <3>4. QED
      BY <2>3, <3>3
  <2>5. Beyond(Stream(s), r)
    BY <1>1, LatestIsBeyond DEF InPlace, ChannelTypes
  <2>6. Ordered(Append(Stream(s), r))
    BY <1>1, <1>3, <2>5, Appended, SMTT(30) DEF InPlace
  <2>7. \A z \in Subscribers \ {s} : Stream(z)' = Stream(z)
    BY <2>1, ZenonT(60) DEF Stream
  <2>8. QED
    BY <1>2, <1>3, <2>1, <2>2, <2>4, <2>6, <2>7
<1>4. CASE /\ ~loop /\ streams' = [streams EXCEPT ![s] = Put(@, r)]
           /\ lost' = lost /\ registered' = registered
  <2>1. /\ streams'[s] = [streams[s] EXCEPT !.queue = Append(c, r)]
        /\ \A z \in Subscribers \ {s} : streams'[z] = streams[z]
    BY <1>4 DEF ChannelTypes, Put, Streams
  <2>2. /\ streams'[s].received = a /\ streams'[s].replay = b /\ streams'[s].callbacks = d
        /\ streams'[s].queue = Append(c, r)
        /\ streams'[s].phase = streams[s].phase /\ streams'[s].from = streams[s].from
    <3>1. streams[s] \in Streams
      BY DEF ChannelTypes
    <3>2. QED
      BY <2>1, <3>1, StreamFields
  <2>3. PICK x \in Seq(Records), y \in Seq(Records) : x = a \o b /\ y = x \o c
    BY Lines, ZenonT(60)
  <2>4. Stream(s)' = Append(y, r) \o d /\ Stream(s) = y \o d
    <3>1. x \o Append(c, r) = Append(y, r)
      <4>1. x \o Append(c, r) = Append(x \o c, r)
        BY AppendedLast, ZenonT(60)
      <4>2. QED
        BY <2>3, <4>1, Zenon
    <3>2. QED
      BY <2>2, <2>3, <3>1, ZenonT(60) DEF Stream, Line
  <2>5. Distinct(Append(y, r) \o d)
    BY <1>1, <2>4, Inserted DEF InPlace
  <2>6. Elements(Append(y, r) \o d) = Elements(y \o d) \cup {r}
    <3>1. Append(y, r) \in Seq(Records) /\ Elements(Append(y, r)) = Elements(y) \cup {r}
      BY Appended
    <3>2. /\ Elements(Append(y, r) \o d) = Elements(Append(y, r)) \cup Elements(d)
          /\ Elements(y \o d) = Elements(y) \cup Elements(d)
      BY <3>1, ConcatElements
    <3>3. QED
      BY <3>1, <3>2
  <2>7. \A z \in Subscribers \ {s} : Stream(z)' = Stream(z)
    BY <2>1 DEF Stream
  <2>8. QED
    BY <1>4, <2>1, <2>2, <2>4, <2>5, <2>6, <2>7
<1>5. CASE /\ ~loop /\ streams' = streams /\ lost' = [lost EXCEPT ![s] = @ \cup {r}]
           /\ registered' \subseteq registered
  <2>1. \A z \in Subscribers : Stream(z)' = Stream(z)
    BY <1>5 DEF Stream
  <2>2. QED
    BY <1>5, <2>1 DEF ChannelTypes
<1>6. QED
  <2>1. \/ /\ loop /\ streams' = [streams EXCEPT ![s].callbacks = Append(@, r)]
           /\ lost' = lost /\ registered' = registered
        \/ /\ ~loop /\ streams' = [streams EXCEPT ![s] = Put(@, r)]
           /\ lost' = lost /\ registered' = registered
        \/ /\ ~loop /\ streams' = streams /\ lost' = [lost EXCEPT ![s] = @ \cup {r}]
           /\ registered' \subseteq registered
    BY DEF Deliver
  <2>2. QED
    BY <1>3, <1>4, <1>5, <2>1

LEMMA DeliverKeeps ==
    ASSUME ChannelInv, ChannelTypes', NEW t \in Sources, NEW s \in Subscribers, Deliver(t, s)
    PROVE  ChannelRest'
<1> USE DEF ChannelInv
<1>1. PICK r : r = underway[t].record
  OBVIOUS
<1>2. /\ r \in Records /\ r = <<t, SentBy(sent, t)>> /\ r \in UnderwayTo(s)
      /\ underway'[t] = Idle \/ /\ underway'[t].record = r
                                /\ underway'[t].targets = underway[t].targets \ {s}
      /\ \A z \in Sources \ {t} : underway'[z] = underway[z]
      /\ UnderwayTo(s)' = UnderwayTo(s) \ {r}
      /\ \A z \in Subscribers \ {s} : UnderwayTo(z)' = UnderwayTo(z)
  BY <1>1, DeliverMoves
<1>3. /\ \/ /\ Elements(Stream(s))' = Elements(Stream(s)) \cup {r}
            /\ Distinct(Stream(s))' /\ (loop => Ordered(Stream(s))')
            /\ lost' = lost /\ registered' = registered
         \/ /\ Stream(s)' = Stream(s) /\ ~loop
            /\ lost'[s] = lost[s] \cup {r} /\ \A z \in Subscribers \ {s} : lost'[z] = lost[z]
            /\ registered' \subseteq registered
      /\ \A z \in Subscribers \ {s} : Stream(z)' = Stream(z)
      /\ \A z \in Subscribers : /\ streams'[z].phase = streams[z].phase
                                /\ streams'[z].from = streams[z].from
  BY <1>1, <1>2, DeliverTo
<1>4. /\ form' = form /\ sent' = sent /\ buffer' = buffer /\ loop' = loop
      /\ underway[t] # Idle /\ form # "bounded" /\ r \in Elements(sent)
      /\ s \in underway[t].targets /\ streams[s].phase # "new"
  BY <1>1 DEF Deliver, UnderwayIsLatest
<1>5. UnderwayIsLatest'
  <2> SUFFICES ASSUME NEW z \in Sources, underway'[z] # Idle
               PROVE  /\ underway'[z].record = <<z, SentBy(sent', z)>>
                      /\ underway'[z].record \in Elements(sent')
                      /\ \A x \in underway'[z].targets : streams'[x].phase # "new"
                      /\ form' # "bounded"
    BY DEF UnderwayIsLatest
  <2>1. underway[z] # Idle /\ underway[z].record = underway'[z].record
        /\ underway'[z].targets \subseteq underway[z].targets
    BY <1>1, <1>2, <1>4
  <2>2. underway[z].targets \subseteq Subscribers
    BY UnderwayRecords
  <2>3. QED
    BY <1>3, <1>4, <2>1, <2>2 DEF UnderwayIsLatest
<1>6. ASSUME NEW z \in Subscribers
      PROVE  /\ InPlace(Stream(z), lost[z], UnderwayTo(z))
             /\ z # s => Elements(Stream(z)') = Elements(Stream(z)) /\ Stream(z)' = Stream(z)
             /\ Stream(z)' = Stream(z) => Elements(Stream(z)') = Elements(Stream(z))
             /\ Due(z)' = Due(z)
  BY <1>3, <1>4 DEF StreamsInPlace, Due
<1>7. StreamsInPlace'
  <2> SUFFICES ASSUME NEW z \in Subscribers PROVE InPlace(Stream(z), lost[z], UnderwayTo(z))'
    BY DEF StreamsInPlace
  <2>1. CASE z # s
    BY <1>2, <1>3, <1>4, <1>6, <2>1 DEF InPlace
  <2>2. CASE z = s /\ lost' = lost
    BY <1>2, <1>3, <1>4, <1>6, <2>2 DEF InPlace
  <2>3. CASE z = s /\ Stream(s)' = Stream(s) /\ ~loop /\ lost'[s] = lost[s] \cup {r}
    <3>1. IsFiniteSet(lost'[s])
      BY <1>6, <2>3, FS_AddElement, ZenonT(60) DEF InPlace
    <3>2. QED
      BY <1>2, <1>4, <1>6, <2>3, <3>1 DEF InPlace
  <2>4. QED
    BY <1>3, <2>1, <2>2, <2>3
<1>8. StreamsComplete'
  <2> SUFFICES ASSUME NEW z \in Subscribers, streams'[z].phase = "live", z \in registered'
               PROVE  Elements(Stream(z)') \cup UnderwayTo(z)' \cup lost'[z] = Due(z)'
    BY <1>4 DEF StreamsComplete
  <2>1. Elements(Stream(z)) \cup UnderwayTo(z) \cup lost[z] = Due(z)
    BY <1>3 DEF StreamsComplete
  <2>2. CASE z # s
    BY <1>2, <1>3, <1>6, <2>1, <2>2
  <2>3. CASE z = s
    BY <1>2, <1>3, <1>6, <2>1, <2>3
  <2>4. QED
    BY <2>2, <2>3
<1>9. NewAreEmpty'
  <2> SUFFICES ASSUME NEW z \in Subscribers
               PROVE  /\ streams'[z].from \in 1..(Len(sent') + 1)
                      /\ streams'[z].phase = "new" =>
                           /\ streams'[z].received = <<>> /\ streams'[z].replay = <<>>
                           /\ streams'[z].queue = <<>> /\ streams'[z].callbacks = <<>>
                           /\ lost'[z] = {} /\ z \notin registered'
    BY DEF NewAreEmpty
  <2>1. z # s => streams'[z] = streams[z]
    BY DEF Deliver, ChannelTypes
  <2>2. QED
    BY <1>3, <1>4, <2>1 DEF NewAreEmpty
<1>10. BufferIsLast' /\ Numbered(sent)' /\ OneReader'
  BY <1>4 DEF BufferIsLast, OneReader
<1>11. QED
  BY <1>5, <1>7, <1>8, <1>9, <1>10 DEF ChannelRest

LEMMA StreamAppended ==
    ASSUME ChannelTypes, NEW s \in Subscribers, NEW r \in Records, streams[s].callbacks = <<>>,
           streams'[s].received = streams[s].received, streams'[s].replay = streams[s].replay,
           streams'[s].callbacks = <<>>, streams'[s].queue = Append(streams[s].queue, r)
    PROVE  Stream(s)' = Append(Stream(s), r)
<1>1. /\ streams[s].received \in Seq(Records) /\ streams[s].replay \in Seq(Records)
      /\ streams[s].queue \in Seq(Records)
  BY StreamLine
<1>2. Line(streams[s].received, streams[s].replay, Append(streams[s].queue, r), <<>>)
        = Append(Line(streams[s].received, streams[s].replay, streams[s].queue, <<>>), r)
  BY <1>1, QueueAppended, ZenonT(60)
<1>3. QED
  BY <1>2 DEF Stream, Line

LEMMA PublishKeeps ==
    ASSUME ChannelInv, ChannelTypes', NEW t \in Sources, NEW s \in Subscribers, Publish(t, s)
    PROVE  ChannelRest'
<1> USE DEF ChannelInv
<1>1. PICK r \in Records :
        /\ r = <<t, SentBy(sent, t) + 1>> /\ sent' = Append(sent, r)
        /\ r \notin Elements(sent) /\ Numbered(Append(sent, r))
        /\ \A w \in Seq(Records) : Elements(w) \subseteq Elements(sent) => Beyond(w, r)
        /\ \/ drops' = drops + 1 /\ streams' = streams /\ lost' = [lost EXCEPT ![s] = @ \cup {r}]
           \/ streams' = [streams EXCEPT ![s] = Put(@, r)] /\ drops' = drops /\ lost' = lost
  BY NextIsNew DEF Publish, ChannelTypes, SentBy
<1>2. /\ form = "bounded" /\ form' = form /\ buffer' = buffer /\ underway' = underway
      /\ registered' = registered /\ loop' = loop /\ streams[s].phase = "live"
  BY DEF Publish
<1>3. Elements(sent)' = Elements(sent) \cup {r} /\ Len(sent)' = Len(sent) + 1 /\ Len(sent) \in Nat
  BY <1>1, SentGrows
<1>4. \A z \in Subscribers : z # s => streams[z].phase = "new"
  BY <1>2 DEF OneReader
<1>5. \A z \in Subscribers : UnderwayTo(z)' = UnderwayTo(z) /\ UnderwayTo(z) = {}
  BY <1>2 DEF UnderwayIsLatest, UnderwayTo
<1>6. InPlace(Stream(s), lost[s], UnderwayTo(s)) /\ Stream(s) \in Seq(Records)
  BY StreamLine DEF StreamsInPlace
<1>7. \A z \in Subscribers : Due(z)' = Due(z) \cup {r} \/ streams'[z].from # streams[z].from
  BY <1>1, DueGrows DEF NewAreEmpty
<1>8. r \notin Elements(Stream(s)) /\ r \notin lost[s] /\ Beyond(Stream(s), r)
  BY <1>1, <1>6 DEF InPlace
<1>9. UnderwayIsLatest' /\ BufferIsLast'
  BY <1>2 DEF UnderwayIsLatest, BufferIsLast
<1>10. CASE drops' = drops + 1 /\ streams' = streams /\ lost' = [lost EXCEPT ![s] = @ \cup {r}]
  <2>1. \A z \in Subscribers : Stream(z)' = Stream(z) /\ Due(z)' = Due(z) \cup {r}
    BY <1>7, <1>10 DEF Stream
  <2>2. /\ lost'[s] = lost[s] \cup {r} /\ \A z \in Subscribers \ {s} : lost'[z] = lost[z]
    BY <1>10 DEF ChannelTypes
  <2>3. IsFiniteSet(lost'[s]) /\ Cardinality(lost'[s]) = Cardinality(lost[s]) + 1
    BY <1>6, <1>8, <2>2, FS_AddElement DEF InPlace
  <2>4. NewAreEmpty'
    BY <1>2, <1>3, <1>10, <2>2 DEF NewAreEmpty
  <2>5. StreamsInPlace'
    <3> SUFFICES ASSUME NEW z \in Subscribers PROVE InPlace(Stream(z), lost[z], UnderwayTo(z))'
      BY DEF StreamsInPlace
    <3>1. InPlace(Stream(z), lost[z], UnderwayTo(z)) /\ Elements(Stream(z)') = Elements(Stream(z))
      BY <2>1 DEF StreamsInPlace
    <3>2. IsFiniteSet(lost'[z]) /\ lost'[z] \subseteq Elements(sent')
      BY <1>3, <2>2, <2>3, <3>1 DEF InPlace
    <3>3. QED
      BY <1>2, <1>3, <1>5, <2>1, <3>1, <3>2 DEF InPlace
  <2>6. StreamsComplete'
    <3> SUFFICES ASSUME NEW z \in Subscribers, streams'[z].phase = "live"
                 PROVE  Elements(Stream(z)') \cup UnderwayTo(z)' \cup lost'[z] = Due(z)'
      BY DEF StreamsComplete
    <3>1. z = s
      BY <1>4, <1>10
    <3>2. Elements(Stream(s)) \cup UnderwayTo(s) \cup lost[s] = Due(s)
      BY <1>2 DEF StreamsComplete
    <3>3. Elements(Stream(z)') = Elements(Stream(s)) /\ UnderwayTo(z)' = UnderwayTo(s)
      BY <1>5, <2>1, <3>1
    <3>4. QED
      BY <2>1, <2>2, <3>1, <3>2, <3>3
  <2>7. OneReader'
    <3>1. drops = Cardinality(lost[s])
      BY <1>2 DEF OneReader
    <3>2. QED
      BY <1>2, <1>4, <1>10, <2>2, <2>3, <3>1 DEF OneReader
  <2>8. QED
    BY <1>1, <1>9, <2>4, <2>5, <2>6, <2>7 DEF ChannelRest
<1>11. CASE streams' = [streams EXCEPT ![s] = Put(@, r)] /\ drops' = drops /\ lost' = lost
  <2> PICK a \in Seq(Records), b \in Seq(Records), c \in Seq(Records), d \in Seq(Records) :
        /\ a = streams[s].received /\ b = streams[s].replay
        /\ c = streams[s].queue /\ d = streams[s].callbacks
        /\ Stream(s) = Line(a, b, c, d)
    BY StreamLine
  <2>0. d = <<>>
    BY <1>2 DEF OneReader
  <2>1. /\ streams'[s] = [streams[s] EXCEPT !.queue = Append(c, r)]
        /\ \A z \in Subscribers \ {s} : streams'[z] = streams[z]
    BY <1>11 DEF ChannelTypes, Put, Streams
  <2>2. /\ streams'[s].received = a /\ streams'[s].replay = b /\ streams'[s].callbacks = d
        /\ streams'[s].queue = Append(c, r)
        /\ streams'[s].phase = streams[s].phase /\ streams'[s].from = streams[s].from
    <3>1. streams[s] \in Streams
      BY DEF ChannelTypes
    <3>2. QED
      BY <2>1, <3>1, StreamFields
  <2>3. Stream(s)' = Append(Stream(s), r)
    BY <2>0, <2>2, StreamAppended
  <2>4. \A z \in Subscribers \ {s} : Stream(z)' = Stream(z)
    BY <2>1 DEF Stream
  <2>5. /\ Elements(Append(Stream(s), r)) = Elements(Stream(s)) \cup {r}
        /\ Distinct(Append(Stream(s), r)) /\ (loop => Ordered(Append(Stream(s), r)))
    BY <1>6, <1>8, Appended DEF InPlace
  <2>6. NewAreEmpty'
    <3> SUFFICES ASSUME NEW z \in Subscribers
                 PROVE  /\ streams'[z].from \in 1..(Len(sent') + 1)
                        /\ streams'[z].phase = "new" =>
                             /\ streams'[z].received = <<>> /\ streams'[z].replay = <<>>
                             /\ streams'[z].queue = <<>> /\ streams'[z].callbacks = <<>>
                             /\ lost'[z] = {} /\ z \notin registered'
      BY DEF NewAreEmpty
    <3>1. CASE z = s
      BY <1>2, <1>3, <2>2, <3>1 DEF NewAreEmpty
    <3>2. CASE z # s
      BY <1>2, <1>3, <1>11, <2>1, <3>2 DEF NewAreEmpty
    <3>3. QED
      BY <3>1, <3>2
  <2>7. StreamsInPlace'
    <3> SUFFICES ASSUME NEW z \in Subscribers PROVE InPlace(Stream(z), lost[z], UnderwayTo(z))'
      BY DEF StreamsInPlace
    <3>1. InPlace(Stream(z), lost[z], UnderwayTo(z))
      BY DEF StreamsInPlace
    <3>2. CASE z = s
      BY <1>2, <1>3, <1>5, <1>11, <2>3, <2>5, <3>1, <3>2 DEF InPlace
    <3>3. CASE z # s
      <4>1. Stream(z)' = Stream(z) /\ Elements(Stream(z)') = Elements(Stream(z))
        BY <2>4, <3>3
      <4>2. QED
        BY <1>2, <1>3, <1>5, <1>11, <3>1, <4>1 DEF InPlace
    <3>4. QED
      BY <3>2, <3>3
  <2>8. StreamsComplete'
    <3> SUFFICES ASSUME NEW z \in Subscribers, streams'[z].phase = "live"
                 PROVE  Elements(Stream(z)') \cup UnderwayTo(z)' \cup lost'[z] = Due(z)'
      BY DEF StreamsComplete
    <3>1. z = s
      BY <1>4, <2>1
    <3>2. Elements(Stream(s)) \cup UnderwayTo(s) \cup lost[s] = Due(s)
      BY <1>2 DEF StreamsComplete
    <3>3. Elements(Stream(z)') = Elements(Stream(s)) \cup {r} /\ UnderwayTo(z)' = UnderwayTo(s)
      BY <1>5, <2>3, <2>5, <3>1
    <3>4. Due(z)' = Due(s) \cup {r}
      BY <1>7, <2>2, <3>1
    <3>5. QED
      BY <1>11, <3>1, <3>2, <3>3, <3>4
  <2>9. OneReader'
    BY <1>2, <1>4, <1>11, <2>1, <2>2 DEF OneReader
  <2>10. QED
    BY <1>1, <1>9, <2>6, <2>7, <2>8, <2>9 DEF ChannelRest
<1>12. QED
  BY <1>1, <1>10, <1>11

LEMMA CallbackKeeps ==
    ASSUME ChannelInv, ChannelTypes', NEW s \in Subscribers, RunCallback(s)
    PROVE  ChannelRest'
<1> USE DEF ChannelInv
<1> PICK a \in Seq(Records), b \in Seq(Records), c \in Seq(Records), d \in Seq(Records) :
      /\ a = streams[s].received /\ b = streams[s].replay
      /\ c = streams[s].queue /\ d = streams[s].callbacks
      /\ Stream(s) = Line(a, b, c, d) /\ Stream(s) \in Seq(Records)
  BY StreamLine
<1>1. d # <<>>
  BY DEF RunCallback
<1>2. PICK r \in Records, e \in Seq(Records) : r = Head(d) /\ e = Tail(d)
  BY <1>1, HeadAndTail
<1>3. Elements(d) = {r} \cup Elements(e)
  BY <1>1, <1>2, HeadAndTail
<1>4. /\ loop /\ form' = form /\ sent' = sent /\ buffer' = buffer /\ underway' = underway
      /\ registered' = registered /\ loop' = loop /\ drops' = drops /\ form # "bounded"
  BY <1>1 DEF RunCallback, OneReader
<1>5. \A z \in Subscribers : UnderwayTo(z)' = UnderwayTo(z)
  BY <1>4 DEF UnderwayTo
<1>6. InPlace(Stream(s), lost[s], UnderwayTo(s))
  BY DEF StreamsInPlace
<1>7. PICK y \in Seq(Records) : y = (a \o b) \o c /\ Stream(s) = y \o d
  <2>1. (a \o b) \o c \in Seq(Records)
    BY Lines, ZenonT(60)
  <2>2. QED
    BY <2>1 DEF Line
<1>8. \/ /\ lost' = [lost EXCEPT ![s] = @ \cup {r}]
         /\ streams' = [streams EXCEPT ![s] = [streams[s] EXCEPT !.callbacks = e]]
      \/ /\ lost' = lost
         /\ streams' = [streams EXCEPT ![s] =
                          [streams[s] EXCEPT !.callbacks = e, !.queue = Append(c, r)]]
  BY <1>2, SMTT(30) DEF RunCallback, Put, ChannelTypes, Streams
<1>9. \A z \in Subscribers \ {s} : streams'[z] = streams[z] /\ lost'[z] = lost[z]
  BY <1>8 DEF ChannelTypes
<1>10. streams[s] \in Streams
  BY DEF ChannelTypes
<1>11. \A z \in Subscribers \ {s} : Stream(z)' = Stream(z)
  BY <1>9 DEF Stream
<1>12. streams[s].phase # "new"
  BY <1>1 DEF NewAreEmpty
<1>13. /\ streams'[s].phase = streams[s].phase /\ streams'[s].from = streams[s].from
       /\ Elements(Stream(s)') \cup lost'[s] = Elements(Stream(s)) \cup lost[s]
       /\ Elements(Stream(s)') \subseteq Elements(Stream(s))
       /\ Distinct(Stream(s)') /\ Ordered(Stream(s)') /\ IsFiniteSet(lost'[s])
  <2>1. CASE /\ lost' = [lost EXCEPT ![s] = @ \cup {r}]
             /\ streams' = [streams EXCEPT ![s] = [streams[s] EXCEPT !.callbacks = e]]
    <3>1. streams'[s] = [streams[s] EXCEPT !.callbacks = e] /\ lost'[s] = lost[s] \cup {r}
      BY <2>1 DEF ChannelTypes
    <3>2. /\ streams'[s].received = a /\ streams'[s].replay = b /\ streams'[s].queue = c
          /\ streams'[s].callbacks = e
          /\ streams'[s].phase = streams[s].phase /\ streams'[s].from = streams[s].from
      BY <1>10, <3>1, StreamFields
    <3>3. Stream(s)' = y \o e
      BY <1>7, <3>2, SMTT(30) DEF Stream
    <3>4. Distinct(y \o e) /\ Ordered(y \o e)
      BY <1>1, <1>2, <1>4, <1>6, <1>7, LeftOut DEF InPlace
    <3>5. Elements(y \o e) = Elements(y) \cup Elements(e) /\ Elements(y \o d) = Elements(y) \cup Elements(d)
      BY ConcatElements
    <3>6. IsFiniteSet(lost'[s])
      <4>1. IsFiniteSet(lost[s])
        BY <1>6 DEF InPlace
      <4>2. IsFiniteSet(lost[s] \cup {r})
        BY <4>1, FS_AddElement
      <4>3. QED
        BY <3>1, <4>2
    <3>7. QED
      BY <1>3, <1>7, <3>1, <3>2, <3>3, <3>4, <3>5, <3>6, Zenon
  <2>2. CASE /\ lost' = lost
             /\ streams' = [streams EXCEPT ![s] =
                              [streams[s] EXCEPT !.callbacks = e, !.queue = Append(c, r)]]
    <3>1. streams'[s] = [streams[s] EXCEPT !.callbacks = e, !.queue = Append(c, r)]
      BY <2>2 DEF ChannelTypes
    <3>2. /\ streams'[s].received = a /\ streams'[s].replay = b /\ streams'[s].queue = Append(c, r)
          /\ streams'[s].callbacks = e
          /\ streams'[s].phase = streams[s].phase /\ streams'[s].from = streams[s].from
      BY <1>10, <3>1, StreamFields
    <3>3. Line(a, b, Append(c, r), e) = Line(a, b, c, d)
      BY <1>1, <1>2, CallbackMoved
    <3>4. Stream(s)' = Stream(s)
      BY <3>2, <3>3 DEF Stream, Line
    <3>5. QED
      BY <1>4, <1>6, <2>2, <3>2, <3>4 DEF InPlace
  <2>3. QED
    BY <1>8, <2>1, <2>2, SMTT(30)
<1>14. UnderwayIsLatest'
  <2>1. \A z \in Subscribers : streams'[z].phase = streams[z].phase
    BY <1>9, <1>13
  <2>2. \A z \in Sources : underway[z].targets \subseteq Subscribers
    BY UnderwayRecords
  <2>3. QED
    BY <1>4, <2>1, <2>2 DEF UnderwayIsLatest
<1>15. NewAreEmpty'
  <2> SUFFICES ASSUME NEW z \in Subscribers
               PROVE  /\ streams'[z].from \in 1..(Len(sent') + 1)
                      /\ streams'[z].phase = "new" =>
                           /\ streams'[z].received = <<>> /\ streams'[z].replay = <<>>
                           /\ streams'[z].queue = <<>> /\ streams'[z].callbacks = <<>>
                           /\ lost'[z] = {} /\ z \notin registered'
    BY DEF NewAreEmpty
  <2>1. CASE z = s
    BY <1>4, <1>12, <1>13, <2>1 DEF NewAreEmpty
  <2>2. CASE z # s
    BY <1>4, <1>9, <2>2 DEF NewAreEmpty
  <2>3. QED
    BY <2>1, <2>2
<1>16. StreamsInPlace'
  <2> SUFFICES ASSUME NEW z \in Subscribers PROVE InPlace(Stream(z), lost[z], UnderwayTo(z))'
    BY DEF StreamsInPlace
  <2>1. InPlace(Stream(z), lost[z], UnderwayTo(z))
    BY DEF StreamsInPlace
  <2>2. CASE z = s
    BY <1>4, <1>5, <1>13, <2>1, <2>2 DEF InPlace
  <2>3. CASE z # s
    <3>1. Stream(z)' = Stream(z) /\ Elements(Stream(z)') = Elements(Stream(z)) /\ lost'[z] = lost[z]
      BY <1>9, <1>11, <2>3
    <3>2. QED
      BY <1>4, <1>5, <2>1, <3>1 DEF InPlace
  <2>4. QED
    BY <2>2, <2>3
<1>17. StreamsComplete'
  <2> SUFFICES ASSUME NEW z \in Subscribers, streams'[z].phase = "live", z \in registered'
               PROVE  Elements(Stream(z)') \cup UnderwayTo(z)' \cup lost'[z] = Due(z)'
    BY <1>4 DEF StreamsComplete
  <2>1. streams[z].phase = "live" /\ streams'[z].from = streams[z].from
    BY <1>9, <1>13
  <2>2. Elements(Stream(z)) \cup UnderwayTo(z) \cup lost[z] = Due(z) /\ Due(z)' = Due(z)
    BY <1>4, <2>1 DEF StreamsComplete, Due
  <2>3. Elements(Stream(z)') \cup lost'[z] = Elements(Stream(z)) \cup lost[z]
    BY <1>9, <1>11, <1>13
  <2>4. QED
    BY <1>5, <2>2, <2>3
<1>18. BufferIsLast' /\ Numbered(sent)' /\ OneReader'
  BY <1>4 DEF BufferIsLast, OneReader
<1>19. QED
  BY <1>14, <1>15, <1>16, <1>17, <1>18 DEF ChannelRest

LEMMA SubscribeKeeps ==
    ASSUME ChannelInv, ChannelTypes', ChannelAssumption, NEW s \in Subscribers, Subscribe(s)
    PROVE  ChannelRest'
<1> USE DEF ChannelInv
<1>1. /\ streams[s].phase = "new" /\ loop /\ form' = form /\ sent' = sent /\ buffer' = buffer
      /\ underway' = underway /\ loop' = loop /\ lost' = lost /\ drops' = drops
      /\ registered' = (IF form = "bounded" THEN registered ELSE registered \cup {s})
      /\ form = "bounded" => \A z \in Subscribers : streams[z].phase = "new"
  BY DEF Subscribe
<1>2. Remembered \in Nat
  BY DEF Remembered, ChannelAssumption
<1>3. PICK b \in Seq(Records) : b = Replay /\ IsLast(b, sent, Remembered)
  <2>1. CASE form = "log"
    BY <2>1 DEF Replay, Remembered, BufferIsLast, ChannelTypes
  <2>2. CASE form # "log"
    <3>1. Replay = <<>> /\ Remembered = 0 /\ <<>> \in Seq(Records) /\ Len(<<>>) = 0
      BY <2>2 DEF Replay, Remembered
    <3>2. Len(sent) \in Nat
      BY RecordSeqs DEF ChannelTypes
    <3>3. IsLast(<<>>, sent, 0)
      BY <3>1, <3>2 DEF IsLast
    <3>4. QED
      BY <3>1, <3>3
  <2>3. QED
    BY <2>1, <2>2
<1>4. PICK n \in Nat, m \in Nat : n = Len(sent) /\ m = Len(b) /\ m <= n
                                  /\ m = Len(LastOf(sent, Remembered))
  <2>1. LastOf(sent, Remembered) \in Seq(Records) /\ IsLast(LastOf(sent, Remembered), sent, Remembered)
    BY <1>2, LastIsLast DEF ChannelTypes
  <2>2. PICK n \in Nat : n = Len(sent)
    BY RecordSeqs DEF ChannelTypes
  <2>3. Len(b) = IF n <= Remembered THEN n ELSE Remembered
    BY <1>3, <2>2 DEF IsLast
  <2>4. Len(LastOf(sent, Remembered)) = IF n <= Remembered THEN n ELSE Remembered
    BY <2>1, <2>2 DEF IsLast
  <2>5. PICK m \in Nat : m = Len(b)
    BY RecordSeqs
  <2>6. m <= n
    BY <1>2, <2>3, <2>5
  <2>7. m = Len(LastOf(sent, Remembered))
    BY <2>3, <2>4, <2>5
  <2>8. QED
    BY <2>2, <2>5, <2>6, <2>7
<1>5. /\ Ordered(b) /\ Distinct(b) /\ Elements(b) \subseteq Elements(sent)
      /\ Elements(b) = {sent[i] : i \in ((n + 1) - m)..n}
  <2>1. sent \in Seq(Records) /\ Ordered(sent) /\ b \in Seq(Records) /\ IsLast(b, sent, Remembered)
    BY <1>3 DEF Numbered, ChannelTypes
  <2>2. /\ Ordered(b) /\ Distinct(b) /\ Elements(b) \subseteq Elements(sent)
        /\ Elements(b) = {sent[i] : i \in ((Len(sent) + 1) - Len(b))..Len(sent)}
    BY <1>2, <2>1, LastIsInPlace
  <2>3. QED
    BY <1>4, <2>2
<1>6. streams' = [streams EXCEPT ![s].phase = "live", ![s].replay = b, ![s].from = (n + 1) - m]
  BY <1>3, <1>4 DEF Subscribe
<1>7. streams[s] \in Streams
  BY DEF ChannelTypes
<1>8. /\ streams[s].received = <<>> /\ streams[s].queue = <<>> /\ streams[s].callbacks = <<>>
      /\ lost[s] = {}
  BY <1>1 DEF NewAreEmpty
<1>9. /\ streams'[s].phase = "live" /\ streams'[s].from = (n + 1) - m /\ streams'[s].replay = b
      /\ streams'[s].received = <<>> /\ streams'[s].queue = <<>> /\ streams'[s].callbacks = <<>>
      /\ \A z \in Subscribers \ {s} : streams'[z] = streams[z]
  <2>1. /\ streams'[s].phase = "live" /\ streams'[s].from = (n + 1) - m /\ streams'[s].replay = b
        /\ streams'[s].received = streams[s].received /\ streams'[s].queue = streams[s].queue
        /\ streams'[s].callbacks = streams[s].callbacks
    BY <1>6, <1>7 DEF ChannelTypes, Streams
  <2>2. \A z \in Subscribers \ {s} : streams'[z] = streams[z]
    BY <1>6 DEF ChannelTypes
  <2>3. QED
    BY <1>8, <2>1, <2>2
<1>10. Stream(s)' = b
  <2>1. <<>> \o b = b /\ b \o <<>> = b
    BY ConcatEmptySeq
  <2>2. Stream(s)' = ((<<>> \o b) \o <<>>) \o <<>>
    BY <1>9 DEF Stream
  <2>3. QED
    BY <2>1, <2>2
<1>11. \A z \in Subscribers \ {s} : Stream(z)' = Stream(z)
  BY <1>9 DEF Stream
<1>12. \A z \in Subscribers : UnderwayTo(z)' = UnderwayTo(z)
  BY <1>1 DEF UnderwayTo
<1>13. UnderwayTo(s) = {}
  BY <1>1 DEF UnderwayTo, UnderwayIsLatest
<1>14. UnderwayIsLatest'
  <2>1. \A z \in Subscribers : streams[z].phase # "new" => streams'[z].phase # "new"
    BY <1>1, <1>9
  <2>2. \A z \in Sources : underway[z].targets \subseteq Subscribers
    BY UnderwayRecords
  <2>3. QED
    BY <1>1, <2>1, <2>2 DEF UnderwayIsLatest
<1>15. NewAreEmpty'
  <2> SUFFICES ASSUME NEW z \in Subscribers
               PROVE  /\ streams'[z].from \in 1..(Len(sent') + 1)
                      /\ streams'[z].phase = "new" =>
                           /\ streams'[z].received = <<>> /\ streams'[z].replay = <<>>
                           /\ streams'[z].queue = <<>> /\ streams'[z].callbacks = <<>>
                           /\ lost'[z] = {} /\ z \notin registered'
    BY DEF NewAreEmpty
  <2>1. CASE z = s
    BY <1>1, <1>4, <1>9, <2>1
  <2>2. CASE z # s
    BY <1>1, <1>9, <2>2 DEF NewAreEmpty
  <2>3. QED
    BY <2>1, <2>2
<1>16. StreamsInPlace'
  <2> SUFFICES ASSUME NEW z \in Subscribers PROVE InPlace(Stream(z), lost[z], UnderwayTo(z))'
    BY DEF StreamsInPlace
  <2>1. InPlace(Stream(z), lost[z], UnderwayTo(z))
    BY DEF StreamsInPlace
  <2>2. CASE z = s
    BY <1>1, <1>5, <1>8, <1>10, <1>12, <1>13, <2>1, <2>2 DEF InPlace
  <2>3. CASE z # s
    <3>1. Stream(z)' = Stream(z) /\ Elements(Stream(z)') = Elements(Stream(z)) /\ lost'[z] = lost[z]
      BY <1>1, <1>11, <2>3
    <3>2. QED
      BY <1>1, <1>12, <2>1, <3>1 DEF InPlace
  <2>4. QED
    BY <2>2, <2>3
<1>17. StreamsComplete'
  <2> SUFFICES ASSUME NEW z \in Subscribers, streams'[z].phase = "live",
                      z \in registered' \/ form = "bounded"
               PROVE  Elements(Stream(z)') \cup UnderwayTo(z)' \cup lost'[z] = Due(z)'
    BY <1>1 DEF StreamsComplete
  <2>1. CASE z = s
    <3>1. Due(s)' = {sent[i] : i \in ((n + 1) - m)..n}
      BY <1>1, <1>4, <1>9 DEF Due
    <3>2. Elements(Stream(z)') = Elements(b)
      BY <1>10, <2>1
    <3>3. QED
      BY <1>1, <1>5, <1>8, <1>12, <1>13, <2>1, <3>1, <3>2
  <2>2. CASE z # s
    <3>1. streams[z].phase = "live" /\ streams'[z] = streams[z] /\ (z \in registered \/ form = "bounded")
      BY <1>1, <1>9, <2>2
    <3>2. Elements(Stream(z)) \cup UnderwayTo(z) \cup lost[z] = Due(z) /\ Due(z)' = Due(z)
      BY <1>1, <3>1 DEF StreamsComplete, Due
    <3>3. Elements(Stream(z)') = Elements(Stream(z))
      BY <1>11, <2>2
    <3>4. QED
      BY <1>1, <1>12, <3>2, <3>3
  <2>3. QED
    BY <2>1, <2>2
<1>18. OneReader'
  <2> SUFFICES ASSUME form = "bounded" PROVE OneReader'
    BY <1>1 DEF OneReader
  <2>1. /\ drops = 0 /\ Cardinality(lost'[s]) = 0 /\ registered' = {}
        /\ \A z \in Subscribers : z = s \/ streams'[z].phase = "new"
    <3>1. Cardinality({}) = 0
      BY FS_EmptySet
    <3>2. QED
      BY <1>1, <1>8, <1>9, <3>1 DEF OneReader
  <2>2. \A z \in Subscribers : streams'[z].callbacks = <<>>
    BY <1>9 DEF OneReader
  <2>3. QED
    BY <1>1, <1>9, <2>1, <2>2 DEF OneReader
<1>19. BufferIsLast' /\ Numbered(sent)'
  BY <1>1 DEF BufferIsLast
<1>20. QED
  BY <1>14, <1>15, <1>16, <1>17, <1>18, <1>19 DEF ChannelRest

LEMMA ReceiveKeeps ==
    ASSUME ChannelInv, ChannelTypes', NEW s \in Subscribers, Receive(s)
    PROVE  ChannelRest'
<1> USE DEF ChannelInv
<1> PICK a \in Seq(Records), b \in Seq(Records), c \in Seq(Records), d \in Seq(Records) :
      /\ a = streams[s].received /\ b = streams[s].replay
      /\ c = streams[s].queue /\ d = streams[s].callbacks
      /\ Stream(s) = Line(a, b, c, d)
  BY StreamLine
<1>1. /\ streams[s].phase = "live" /\ form' = form /\ sent' = sent /\ buffer' = buffer
      /\ underway' = underway /\ loop' = loop /\ lost' = lost /\ drops' = drops
      /\ registered' = registered
  BY DEF Receive
<1>2. streams[s] \in Streams
  BY DEF ChannelTypes
<1>3. /\ streams'[s].phase = "live" /\ streams'[s].from = streams[s].from
      /\ streams'[s].callbacks = d /\ Stream(s)' = Stream(s)
      /\ \A z \in Subscribers \ {s} : streams'[z] = streams[z]
  <2>1. CASE b # <<>>
    <3>1. streams' = [streams EXCEPT ![s].received = Append(a, Head(b)), ![s].replay = Tail(b),
                                     ![s].queue = c]
      BY <2>1 DEF Receive, Pending
    <3>2. \A z \in Subscribers \ {s} : streams'[z] = streams[z]
      BY <3>1 DEF ChannelTypes
    <3>3. /\ streams'[s].phase = streams[s].phase /\ streams'[s].from = streams[s].from
          /\ streams'[s].received = Append(a, Head(b)) /\ streams'[s].replay = Tail(b)
          /\ streams'[s].queue = c /\ streams'[s].callbacks = d
      BY <1>2, <3>1 DEF ChannelTypes, Streams
    <3>4. Line(Append(a, Head(b)), Tail(b), c, d) = Line(a, b, c, d)
      BY <2>1, ReplayMoved, SMTT(30)
    <3>5. Stream(s)' = Stream(s)
      BY <3>3, <3>4, Zenon DEF Stream, Line
    <3>6. QED
      BY <1>1, <3>2, <3>3, <3>5
  <2>2. CASE b = <<>>
    <3>1. c # <<>> /\ streams' = [streams EXCEPT ![s].received = Append(a, Head(c)),
                                    ![s].replay = b, ![s].queue = Tail(c)]
      BY <2>2 DEF Receive, Pending
    <3>2. \A z \in Subscribers \ {s} : streams'[z] = streams[z]
      BY <3>1 DEF ChannelTypes
    <3>3. /\ streams'[s].phase = streams[s].phase /\ streams'[s].from = streams[s].from
          /\ streams'[s].received = Append(a, Head(c)) /\ streams'[s].replay = b
          /\ streams'[s].queue = Tail(c) /\ streams'[s].callbacks = d
      BY <1>2, <3>1 DEF ChannelTypes, Streams
    <3>4. Line(Append(a, Head(c)), <<>>, Tail(c), d) = Line(a, <<>>, c, d)
      BY <3>1, QueueMoved
    <3>5. Stream(s)' = Line(Append(a, Head(c)), b, Tail(c), d)
      BY <3>3 DEF Stream, Line
    <3>6. Stream(s)' = Stream(s)
      BY <2>2, <3>4, <3>5
    <3>7. QED
      BY <1>1, <3>2, <3>3, <3>6
  <2>3. QED
    BY <2>1, <2>2
<1>4. \A z \in Subscribers : /\ Stream(z)' = Stream(z) /\ UnderwayTo(z)' = UnderwayTo(z)
                             /\ Due(z)' = Due(z) /\ streams'[z].phase = streams[z].phase
  <2>1. \A z \in Subscribers \ {s} : Stream(z)' = Stream(z)
    BY <1>3 DEF Stream
  <2>2. \A z \in Subscribers : UnderwayTo(z)' = UnderwayTo(z) /\ streams'[z].from = streams[z].from
    BY <1>1, <1>3 DEF UnderwayTo
  <2>3. QED
    BY <1>1, <1>3, <2>1, <2>2, SMTT(30) DEF Due
<1>5. UnderwayIsLatest'
  <2>1. \A z \in Sources : underway[z].targets \subseteq Subscribers
    BY UnderwayRecords
  <2>2. QED
    BY <1>1, <1>4, <2>1 DEF UnderwayIsLatest
<1>6. NewAreEmpty'
  <2> SUFFICES ASSUME NEW z \in Subscribers
               PROVE  /\ streams'[z].from \in 1..(Len(sent') + 1)
                      /\ streams'[z].phase = "new" =>
                           /\ streams'[z].received = <<>> /\ streams'[z].replay = <<>>
                           /\ streams'[z].queue = <<>> /\ streams'[z].callbacks = <<>>
                           /\ lost'[z] = {} /\ z \notin registered'
    BY DEF NewAreEmpty
  <2>1. CASE z = s
    BY <1>1, <1>3, <2>1 DEF NewAreEmpty
  <2>2. CASE z # s
    BY <1>1, <1>3, <2>2 DEF NewAreEmpty
  <2>3. QED
    BY <2>1, <2>2
<1>7. StreamsInPlace' /\ StreamsComplete'
  <2>1. \A z \in Subscribers : Elements(Stream(z)') = Elements(Stream(z))
    BY <1>4
  <2>2. ASSUME NEW z \in Subscribers PROVE InPlace(Stream(z), lost[z], UnderwayTo(z))'
    <3>1. InPlace(Stream(z), lost[z], UnderwayTo(z))
      BY DEF StreamsInPlace
    <3>2. QED
      BY <1>1, <1>4, <2>1, <3>1 DEF InPlace
  <2>3. StreamsComplete'
    BY <1>1, <1>4, <2>1 DEF StreamsComplete
  <2>4. QED
    BY <2>2, <2>3 DEF StreamsInPlace
<1>8. OneReader'
  <2>1. \A z \in Subscribers : streams'[z].callbacks = streams[z].callbacks
    BY <1>3
  <2>2. QED
    BY <1>1, <1>4, <2>1 DEF OneReader
<1>9. BufferIsLast' /\ Numbered(sent)'
  BY <1>1 DEF BufferIsLast
<1>10. QED
  BY <1>5, <1>6, <1>7, <1>8, <1>9 DEF ChannelRest

LEMMA LeaveKeeps ==
    ASSUME ChannelInv, ChannelTypes', (\E s \in Subscribers : Unsubscribe(s)) \/ LoopStops
    PROVE  ChannelRest'
<1> USE DEF ChannelInv
<1>1. /\ form' = form /\ sent' = sent /\ buffer' = buffer /\ underway' = underway
      /\ lost' = lost /\ drops' = drops /\ registered' \subseteq registered
      /\ (loop' => loop) /\ (form = "bounded" => loop' = loop)
  BY DEF Unsubscribe, LoopStops
<1>2. \A z \in Subscribers :
        /\ streams'[z].from = streams[z].from /\ streams'[z].received = streams[z].received
        /\ streams'[z].replay = streams[z].replay /\ streams'[z].queue = streams[z].queue
        /\ streams'[z].callbacks = streams[z].callbacks
        /\ streams'[z].phase = "new" <=> streams[z].phase = "new"
        /\ streams'[z].phase = "live" => streams[z].phase = "live"
  <2>1. CASE streams' = streams
    BY <2>1
  <2>2. ASSUME NEW s \in Subscribers, streams[s].phase = "live",
               streams' = [streams EXCEPT ![s].phase = "gone"], NEW z \in Subscribers
        PROVE  /\ streams'[z].from = streams[z].from /\ streams'[z].received = streams[z].received
               /\ streams'[z].replay = streams[z].replay /\ streams'[z].queue = streams[z].queue
               /\ streams'[z].callbacks = streams[z].callbacks
               /\ streams'[z].phase = "new" <=> streams[z].phase = "new"
               /\ streams'[z].phase = "live" => streams[z].phase = "live"
    <3>1. streams[s] \in Streams
      BY DEF ChannelTypes
    <3>2. CASE z = s
      BY <2>2, <3>1, <3>2 DEF ChannelTypes, Streams
    <3>3. CASE z # s
      BY <2>2, <3>3 DEF ChannelTypes
    <3>4. QED
      BY <3>2, <3>3
  <2>3. QED
    BY <2>1, <2>2 DEF Unsubscribe, LoopStops
<1>3. \A z \in Subscribers : /\ Stream(z)' = Stream(z) /\ UnderwayTo(z)' = UnderwayTo(z)
                             /\ Due(z)' = Due(z)
  BY <1>1, <1>2 DEF Stream, UnderwayTo, Due
<1>4. UnderwayIsLatest'
  <2>1. \A z \in Sources : underway[z].targets \subseteq Subscribers
    BY UnderwayRecords
  <2>2. QED
    BY <1>1, <1>2, <2>1 DEF UnderwayIsLatest
<1>5. NewAreEmpty'
  BY <1>1, <1>2 DEF NewAreEmpty
<1>6. StreamsInPlace' /\ StreamsComplete'
  <2>1. \A z \in Subscribers : Elements(Stream(z)') = Elements(Stream(z))
    BY <1>3
  <2>2. ASSUME NEW z \in Subscribers PROVE InPlace(Stream(z), lost[z], UnderwayTo(z))'
    <3>1. InPlace(Stream(z), lost[z], UnderwayTo(z))
      BY DEF StreamsInPlace
    <3>2. QED
      BY <1>1, <1>3, <2>1, <3>1 DEF InPlace
  <2>3. StreamsComplete'
    BY <1>1, <1>2, <1>3, <2>1 DEF StreamsComplete
  <2>4. QED
    BY <2>2, <2>3 DEF StreamsInPlace
<1>7. OneReader' /\ BufferIsLast' /\ Numbered(sent)'
  BY <1>1, <1>2 DEF OneReader, BufferIsLast
<1>8. QED
  BY <1>4, <1>5, <1>6, <1>7 DEF ChannelRest

LEMMA ChannelsStart == ASSUME ChannelInit, ChannelAssumption PROVE ChannelInv
<1>1. <<>> \in Seq(Records) /\ Len(<<>>) = 0 /\ Elements(<<>>) = {}
  BY DEF Elements
<1>2. [phase |-> "new", from |-> 1, replay |-> <<>>, queue |-> <<>>, callbacks |-> <<>>,
       received |-> <<>>] \in Streams
  BY <1>1 DEF Streams
<1>3. ChannelTypes
  BY <1>1, <1>2 DEF ChannelInit, ChannelTypes
<1>4. Numbered(<<>>) /\ Distinct(<<>>) /\ Ordered(<<>>)
  BY <1>1 DEF Numbered, Ordered, Distinct
<1>5. BufferIsLast
  BY <1>1 DEF ChannelInit, BufferIsLast, IsLast, ChannelAssumption
<1>6. UnderwayIsLatest /\ NewAreEmpty
  BY <1>1 DEF ChannelInit, UnderwayIsLatest, NewAreEmpty
<1>7. ASSUME NEW s \in Subscribers PROVE Stream(s) = <<>> /\ UnderwayTo(s) = {} /\ lost[s] = {}
  <2>1. <<>> \o <<>> = <<>>
    BY <1>1, ConcatEmptySeq
  <2>2. QED
    BY <2>1 DEF ChannelInit, Stream, UnderwayTo
<1>8. StreamsInPlace
  <2>1. IsFiniteSet({})
    BY FS_EmptySet
  <2>2. QED
    BY <1>1, <1>4, <1>7, <2>1 DEF StreamsInPlace, InPlace
<1>9. StreamsComplete /\ OneReader
  BY DEF ChannelInit, StreamsComplete, OneReader
<1>10. QED
  BY <1>3, <1>4, <1>5, <1>6, <1>8, <1>9 DEF ChannelInv, ChannelInit

\* Nothing is lost unseen: a live subscriber has, or is about to get, every record from the
\* start of its replay on, once, and in the order of each thread while the loop runs; only
\* a full queue loses one, and the bounded channel counts it.
THEOREM NothingIsEverLostUnseen == ChannelInit /\ [][ChannelNext]_channelVars => []NothingLostUnseen
<1> USE ChannelAssumption
<1>1. ChannelInit => ChannelInv
  BY ChannelsStart
<1>2. ChannelInv /\ [ChannelNext]_channelVars => ChannelInv'
  <2>1. ASSUME ChannelInv, ChannelNext PROVE ChannelInv'
    <3>1. ChannelTypes'
      BY <2>1, ChannelTypesNext
    <3>2. ChannelRest'
      BY <2>1, <3>1, BeginKeeps, DeliverKeeps, PublishKeeps, CallbackKeeps, SubscribeKeeps,
         ReceiveKeeps, LeaveKeeps DEF ChannelNext
    <3>3. QED
      BY <3>1, <3>2 DEF ChannelInv, ChannelRest
  <2>2. ASSUME ChannelInv, UNCHANGED channelVars PROVE ChannelInv'
    <3>1. /\ form' = form /\ sent' = sent /\ buffer' = buffer /\ underway' = underway
          /\ registered' = registered /\ streams' = streams /\ loop' = loop /\ lost' = lost
          /\ drops' = drops
      BY <2>2 DEF channelVars
    <3>2. \A s \in Subscribers : /\ Stream(s)' = Stream(s) /\ UnderwayTo(s)' = UnderwayTo(s)
                                 /\ Due(s)' = Due(s)
      BY <3>1 DEF Stream, UnderwayTo, Due
    <3>3. \A s \in Subscribers : Elements(Stream(s)') = Elements(Stream(s))
      BY <3>2
    <3>4. ASSUME NEW s \in Subscribers PROVE InPlace(Stream(s), lost[s], UnderwayTo(s))'
      <4>1. InPlace(Stream(s), lost[s], UnderwayTo(s))
        BY <2>2 DEF ChannelInv, StreamsInPlace
      <4>2. QED
        BY <3>1, <3>2, <3>3, <4>1 DEF InPlace
    <3>5. StreamsInPlace' /\ StreamsComplete'
      BY <2>2, <3>1, <3>2, <3>3, <3>4 DEF ChannelInv, StreamsInPlace, StreamsComplete
    <3>6. ChannelTypes' /\ BufferIsLast' /\ UnderwayIsLatest' /\ NewAreEmpty' /\ OneReader'
          /\ Numbered(sent)'
      BY <2>2, <3>1 DEF ChannelInv, ChannelTypes, BufferIsLast, UnderwayIsLatest, NewAreEmpty, OneReader
    <3>7. QED
      BY <3>5, <3>6 DEF ChannelInv
  <2>3. QED
    BY <2>1, <2>2
<1>3. ChannelInv => NothingLostUnseen
  BY NothingLost
<1>4. QED
  BY <1>1, <1>2, <1>3, PTL

(***************************************************************************)
(* Sessions and their endpoints (SessionsApi)                              *)
(***************************************************************************)
ThreadIds == AgentIds \cup {1}
Owners == People \cup {"__default__"}
Titles == {"demo", "new", "chat"}
ObjectKinds == [by : People \cup {"app", "template"}, role : {"system", "user", "assistant"}]

Chats == [at : {"none", "started", "responding"}, session : Nat, agent : Nat, message : Nat]

\* Sessions with ids up to m that hold objects up to n.
ThreadsOf(n) == UNION {[as -> Seq(1..n)] : as \in SUBSET ThreadIds}
SessionsOf(n) == [owner : Owners, title : Titles, threads : ThreadsOf(n)]
Stores(m, n) == UNION {[ids -> SessionsOf(n)] : ids \in SUBSET (1..m)}

\* The object at a slot <<id, agent, position>>.
Item(of, s) == of[s[1]].threads[s[2]][s[3]]

Apart(of, objs) ==
  \A s, t \in Slots(of) : Item(of, s) = Item(of, t) =>
    s[1] = t[1] /\ (s = t \/ objs[Item(of, s)].role = "system")
Wrote(of, objs) ==
  \A s \in Slots(of) : of[s[1]].owner \in People =>
    objs[Item(of, s)].by \in {of[s[1]].owner, "app", "template"}
TalksAtHome ==
  \A user \in People :
    /\ talks[user].session <= nextId
    /\ talks[user].at # "none" /\ talks[user].session \in DOMAIN sessions =>
         /\ sessions[talks[user].session].owner \in {user, "__default__"}
         /\ talks[user].agent \in DOMAIN sessions[talks[user].session].threads

ApiTyped ==
  /\ objects \in Seq(ObjectKinds) /\ nextId \in Nat \ {0}
  /\ sessions \in Stores(nextId, Made) /\ saved \in Stores(nextId, Made)
  /\ talks \in [People -> Chats]
TemplateStays == 1 \in DOMAIN saved /\ 1 \in DOMAIN sessions /\ sessions[1].owner = "__default__"
ApiInv ==
  ApiTyped /\ Apart(sessions, objects) /\ Wrote(sessions, objects) /\ TalksAtHome /\ TemplateStays

(***************************************************************************)
(* Sequences                                                               *)
(***************************************************************************)
LEMMA WiderSeq == ASSUME NEW S, NEW T, S \subseteq T, NEW x \in Seq(S) PROVE x \in Seq(T)
<1>1. PICK n \in Nat : n = Len(x) /\ x \in [1..n -> S]
  BY LenProperties
<1>2. x \in [1..n -> T]
  BY <1>1
<1>3. QED
  BY <1>2

LEMMA SeqOfFunction == ASSUME NEW S, NEW n \in Nat, NEW x \in [1..n -> S] PROVE x \in Seq(S) /\ Len(x) = n
OBVIOUS

(***************************************************************************)
(* Ranks                                                                   *)
(***************************************************************************)
\* In a finite set whose elements have ever larger sets below them, the sizes of these
\* sets number the elements.
LEMMA Ranks ==
    ASSUME NEW S, IsFiniteSet(S), NEW r \in [S -> SUBSET S], \A x \in S : x \in r[x],
           \A x, y \in S : x # y => \/ r[x] \subseteq r[y] /\ y \notin r[x]
                                    \/ r[y] \subseteq r[x] /\ x \notin r[y]
    PROVE  /\ \A x \in S : Cardinality(r[x]) \in 1..Cardinality(S)
           /\ \A x, y \in S : Cardinality(r[x]) = Cardinality(r[y]) => x = y
           /\ \A k \in 1..Cardinality(S) : \E x \in S : Cardinality(r[x]) = k
<1>1. PICK n \in Nat : n = Cardinality(S)
  BY FS_CardinalityType
<1>2. \A x \in S : IsFiniteSet(r[x]) /\ Cardinality(r[x]) \in 1..n
  <2> SUFFICES ASSUME NEW x \in S PROVE IsFiniteSet(r[x]) /\ Cardinality(r[x]) \in 1..n
    OBVIOUS
  <2>1. r[x] \in SUBSET S /\ r[x] # {}
    OBVIOUS
  <2>2. IsFiniteSet(r[x]) /\ Cardinality(r[x]) <= n
    BY <1>1, <2>1, FS_Subset
  <2>3. Cardinality(r[x]) \in Nat /\ Cardinality(r[x]) # 0
    BY <2>1, <2>2, FS_CardinalityType, FS_EmptySet
  <2>4. QED
    BY <2>2, <2>3
<1>3. \A x, y \in S : Cardinality(r[x]) = Cardinality(r[y]) => x = y
  <2> SUFFICES ASSUME NEW x \in S, NEW y \in S, Cardinality(r[x]) = Cardinality(r[y]), x # y PROVE FALSE
    OBVIOUS
  <2>1. CASE r[x] \subseteq r[y] /\ y \notin r[x]
    <3>1. r[x] = r[y]
      BY <1>2, <2>1, FS_Subset
    <3>2. QED
      BY <2>1, <3>1
  <2>2. CASE r[y] \subseteq r[x] /\ x \notin r[y]
    <3>1. r[x] = r[y]
      BY <1>2, <2>2, FS_Subset
    <3>2. QED
      BY <2>2, <3>1
  <2>3. QED
    BY <2>1, <2>2
<1>4. \A k \in 1..n : \E x \in S : Cardinality(r[x]) = k
  <2>1. PICK f : f = [x \in S |-> Cardinality(r[x])]
    OBVIOUS
  <2>2. f \in Injection(S, 1..n)
    BY <1>2, <1>3, <2>1 DEF Injection, IsInjective
  <2>3. IsFiniteSet(1..n) /\ Cardinality(1..n) = n
    <3>1. IsFiniteSet(1..n) /\ Cardinality(1..n) = IF 1 > n THEN 0 ELSE n - 1 + 1
      BY FS_Interval
    <3>2. QED
      BY <3>1
  <2>4. f \in Surjection(S, 1..n)
    BY <1>1, <2>2, <2>3, FS_Injection
  <2>5. QED
    BY <2>1, <2>4 DEF Surjection
<1>5. QED
  BY <1>1, <1>2, <1>3, <1>4

LEMMA FiniteImage ==
    ASSUME NEW S, IsFiniteSet(S), NEW f, f = [x \in S |-> f[x]] PROVE IsFiniteSet({f[x] : x \in S})
<1>1. f \in Surjection(S, {f[x] : x \in S})
  BY DEF Surjection
<1>2. QED
  BY <1>1, FS_Surjection

(***************************************************************************)
(* Stores and their slots                                                  *)
(***************************************************************************)
LEMMA IdsAreFinite == ASSUME NEW m \in Nat, NEW ids \in SUBSET (1..m) PROVE IsFiniteSet(ids)
<1>1. IsFiniteSet(1..m)
  BY FS_Interval
<1>2. QED
  BY <1>1, FS_Subset

LEMMA ThreadIdsFinite == IsFiniteSet(ThreadIds) /\ ThreadIds \subseteq Nat
<1>1. AgentCount \in Nat
  BY SessionsAssumption
<1>2. IsFiniteSet(AgentIds) /\ AgentIds \subseteq Nat
  BY <1>1, FS_Interval DEF AgentIds
<1>3. QED
  BY <1>2, FS_AddElement DEF ThreadIds

LEMMA StoreFacts ==
    ASSUME NEW m \in Nat, NEW n \in Nat, NEW of \in Stores(m, n)
    PROVE  /\ DOMAIN of \subseteq 1..m /\ of = [id \in DOMAIN of |-> of[id]]
           /\ \A id \in DOMAIN of :
                /\ of[id] \in SessionsOf(n)
                /\ of[id].owner \in Owners /\ of[id].title \in Titles /\ of[id].threads \in ThreadsOf(n)
                /\ of[id] = [owner |-> of[id].owner, title |-> of[id].title, threads |-> of[id].threads]
<1>1. PICK ids \in SUBSET (1..m) : of \in [ids -> SessionsOf(n)]
  BY DEF Stores
<1>2. QED
  BY <1>1 DEF SessionsOf

LEMMA ThreadFacts ==
    ASSUME NEW n \in Nat, NEW threads \in ThreadsOf(n)
    PROVE  /\ DOMAIN threads \subseteq ThreadIds /\ threads = [a \in DOMAIN threads |-> threads[a]]
           /\ \A a \in DOMAIN threads :
                /\ threads[a] \in Seq(1..n)
                /\ Len(threads[a]) \in Nat /\ DOMAIN threads[a] = 1..Len(threads[a])
                /\ \A i \in DOMAIN threads[a] : threads[a][i] \in 1..n
<1>1. PICK as \in SUBSET ThreadIds : threads \in [as -> Seq(1..n)]
  BY DEF ThreadsOf
<1>2. ASSUME NEW a \in DOMAIN threads
      PROVE  /\ threads[a] \in Seq(1..n)
             /\ Len(threads[a]) \in Nat /\ DOMAIN threads[a] = 1..Len(threads[a])
             /\ \A i \in DOMAIN threads[a] : threads[a][i] \in 1..n
  <2>1. threads[a] \in Seq(1..n)
    BY <1>1
  <2>2. QED
    BY <2>1, LenProperties, ElementOfSeq
<1>3. QED
  BY <1>1, <1>2

LEMMA SlotFacts ==
    ASSUME NEW of
    PROVE  /\ \A s \in Slots(of) :
                /\ s = <<s[1], s[2], s[3]>> /\ s[1] \in DOMAIN of /\ s[2] \in DOMAIN of[s[1]].threads
                /\ s[3] \in DOMAIN of[s[1]].threads[s[2]]
           /\ \A id \in DOMAIN of : \A a \in DOMAIN of[id].threads :
                \A i \in DOMAIN of[id].threads[a] : <<id, a, i>> \in Slots(of)
BY DEF Slots, SlotsOf, SlotsIn

LEMMA HeldFacts ==
    ASSUME NEW m \in Nat, NEW n \in Nat, NEW of \in Stores(m, n), NEW s \in Slots(of)
    PROVE  /\ s[1] \in 1..m /\ s[2] \in ThreadIds /\ s[3] \in Nat \ {0} /\ Item(of, s) \in 1..n
<1>1. s[1] \in DOMAIN of /\ s[2] \in DOMAIN of[s[1]].threads /\ s[3] \in DOMAIN of[s[1]].threads[s[2]]
  BY SlotFacts
<1>2. s[1] \in 1..m /\ of[s[1]].threads \in ThreadsOf(n)
  BY <1>1, StoreFacts
<1>3. PICK threads \in ThreadsOf(n) : threads = of[s[1]].threads
  BY <1>2
<1>4. s[2] \in ThreadIds /\ s[3] \in 1..Len(threads[s[2]]) /\ Len(threads[s[2]]) \in Nat /\ threads[s[2]][s[3]] \in 1..n
  BY <1>1, <1>3, ThreadFacts
<1>5. QED
  BY <1>2, <1>3, <1>4 DEF Item

LEMMA SlotsAreFinite == ASSUME NEW m \in Nat, NEW n \in Nat, NEW of \in Stores(m, n) PROVE IsFiniteSet(Slots(of))
<1>1. IsFiniteSet(DOMAIN of)
  BY StoreFacts, IdsAreFinite
<1>2. ASSUME NEW id \in DOMAIN of PROVE IsFiniteSet(SlotsOf(of, id))
  <2>1. PICK threads \in ThreadsOf(n) : threads = of[id].threads
    BY StoreFacts
  <2>2. IsFiniteSet(DOMAIN threads)
    BY ThreadFacts, ThreadIdsFinite, FS_Subset
  <2>3. ASSUME NEW a \in DOMAIN threads PROVE IsFiniteSet(SlotsIn(threads, id, a))
    <3>1. PICK k \in Nat : DOMAIN threads[a] = 1..k
      BY ThreadFacts
    <3>2. IsFiniteSet(1..k)
      BY FS_Interval
    <3>3. PICK f : f = [i \in 1..k |-> <<id, a, i>>]
      OBVIOUS
    <3>4. IsFiniteSet({f[i] : i \in 1..k})
      <4>1. f = [i \in 1..k |-> f[i]]
        BY <3>3
      <4>2. QED
        BY <3>2, <4>1, FiniteImage
    <3>5. SlotsIn(threads, id, a) = {f[i] : i \in 1..k}
      BY <3>1, <3>3 DEF SlotsIn
    <3>6. QED
      BY <3>4, <3>5
  <2>4. PICK f : f = [a \in DOMAIN threads |-> SlotsIn(threads, id, a)]
    OBVIOUS
  <2>5. IsFiniteSet({f[a] : a \in DOMAIN threads}) /\ \A T \in {f[a] : a \in DOMAIN threads} : IsFiniteSet(T)
    BY <2>2, <2>3, <2>4, FiniteImage
  <2>6. IsFiniteSet(UNION {f[a] : a \in DOMAIN threads})
    BY <2>5, FS_UNION
  <2>7. SlotsOf(of, id) = UNION {f[a] : a \in DOMAIN threads}
    BY <2>1, <2>4 DEF SlotsOf
  <2>8. QED
    BY <2>6, <2>7
<1>3. PICK f : f = [id \in DOMAIN of |-> SlotsOf(of, id)]
  OBVIOUS
<1>4. IsFiniteSet({f[id] : id \in DOMAIN of}) /\ \A T \in {f[id] : id \in DOMAIN of} : IsFiniteSet(T)
  BY <1>1, <1>2, <1>3, FiniteImage
<1>5. IsFiniteSet(UNION {f[id] : id \in DOMAIN of})
  BY <1>4, FS_UNION
<1>6. Slots(of) = UNION {f[id] : id \in DOMAIN of}
  BY <1>3 DEF Slots
<1>7. QED
  BY <1>5, <1>6

(***************************************************************************)
(* Copies                                                                  *)
(***************************************************************************)
\* The slots up to a slot, in the order of ids, agents and positions.
UpTo(s, slots) == {t \in slots :
  \/ t[1] < s[1]
  \/ t[1] = s[1] /\ (t[2] < s[2] \/ (t[2] = s[2] /\ t[3] <= s[3]))}

\* Copies are numbered without a gap, each slot once.
LEMMA Places ==
    ASSUME NEW m \in Nat, NEW n \in Nat, NEW of \in Stores(m, n)
    PROVE  /\ Cardinality(Slots(of)) \in Nat
           /\ \A s \in Slots(of) : Place(s, Slots(of)) \in 1..Cardinality(Slots(of))
           /\ \A s, t \in Slots(of) : Place(s, Slots(of)) = Place(t, Slots(of)) => s = t
           /\ \A k \in 1..Cardinality(Slots(of)) : \E s \in Slots(of) : Place(s, Slots(of)) = k
<1>1. PICK slots : slots = Slots(of)
  OBVIOUS
<1>2. PICK r : r = [s \in slots |-> UpTo(s, slots)]
  OBVIOUS
<1>3. IsFiniteSet(slots) /\ Cardinality(slots) \in Nat
  BY <1>1, SlotsAreFinite, FS_CardinalityType
<1>4. \A s \in slots : s = <<s[1], s[2], s[3]>> /\ s[1] \in Nat /\ s[2] \in Nat /\ s[3] \in Nat
  BY <1>1, SlotFacts, HeldFacts, ThreadIdsFinite
<1>5. r \in [slots -> SUBSET slots] /\ \A s \in slots : s \in r[s]
  BY <1>2, <1>4 DEF UpTo
<1>6. ASSUME NEW x \in slots, NEW y \in slots, x # y
      PROVE  \/ r[x] \subseteq r[y] /\ y \notin r[x]
             \/ r[y] \subseteq r[x] /\ x \notin r[y]
  <2>1. x[1] # y[1] \/ x[2] # y[2] \/ x[3] # y[3]
    BY <1>4, <1>6
  <2>2. ASSUME NEW a \in slots, NEW b \in slots,
               \/ a[1] < b[1]
               \/ a[1] = b[1] /\ (a[2] < b[2] \/ (a[2] = b[2] /\ a[3] < b[3]))
        PROVE  r[a] \subseteq r[b] /\ b \notin r[a]
    <3>1. r[a] = UpTo(a, slots) /\ r[b] = UpTo(b, slots)
      BY <1>2
    <3>2. PICK a1 \in Nat, a2 \in Nat, a3 \in Nat : a1 = a[1] /\ a2 = a[2] /\ a3 = a[3]
      BY <1>4
    <3>3. PICK b1 \in Nat, b2 \in Nat, b3 \in Nat : b1 = b[1] /\ b2 = b[2] /\ b3 = b[3]
      BY <1>4
    <3>4. b \notin r[a]
      BY <2>2, <3>1, <3>2, <3>3 DEF UpTo
    <3>5. ASSUME NEW t \in r[a] PROVE t \in r[b]
      <4>1. t \in slots
        BY <3>1, <3>5 DEF UpTo
      <4>2. PICK t1 \in Nat, t2 \in Nat, t3 \in Nat : t1 = t[1] /\ t2 = t[2] /\ t3 = t[3]
        BY <1>4, <4>1
      <4>3. t1 < a1 \/ (t1 = a1 /\ (t2 < a2 \/ (t2 = a2 /\ t3 <= a3)))
        BY <3>1, <3>2, <3>5, <4>2 DEF UpTo
      <4>4. t1 < b1 \/ (t1 = b1 /\ (t2 < b2 \/ (t2 = b2 /\ t3 <= b3)))
        BY <2>2, <3>2, <3>3, <4>3
      <4>5. QED
        BY <3>1, <3>3, <4>1, <4>2, <4>4 DEF UpTo
    <3>6. QED
      BY <3>4, <3>5
  <2>3. x[1] \in Nat /\ x[2] \in Nat /\ x[3] \in Nat /\ y[1] \in Nat /\ y[2] \in Nat /\ y[3] \in Nat
    BY <1>4
  <2>4. \/ x[1] < y[1] \/ (x[1] = y[1] /\ (x[2] < y[2] \/ (x[2] = y[2] /\ x[3] < y[3])))
        \/ y[1] < x[1] \/ (y[1] = x[1] /\ (y[2] < x[2] \/ (y[2] = x[2] /\ y[3] < x[3])))
    BY <2>1, <2>3
  <2>5. QED
    BY <2>2, <2>4
<1>7. /\ \A x \in slots : Cardinality(r[x]) \in 1..Cardinality(slots)
      /\ \A x, y \in slots : Cardinality(r[x]) = Cardinality(r[y]) => x = y
      /\ \A k \in 1..Cardinality(slots) : \E x \in slots : Cardinality(r[x]) = k
  BY <1>3, <1>5, <1>6, Ranks
<1>8. \A s \in slots : Place(s, slots) = Cardinality(r[s])
  BY <1>2 DEF Place, UpTo
<1>9. QED
  BY <1>1, <1>3, <1>7, <1>8

\* A copy has the slots of its original, each with an object of its own.
LEMMA CopiedFacts ==
    ASSUME NEW m \in Nat, NEW n \in Nat, NEW of \in Stores(m, n)
    PROVE  /\ DOMAIN Copied(of) = DOMAIN of /\ Slots(Copied(of)) = Slots(of)
           /\ \A s \in Slots(of) : Item(Copied(of), s) = Made + Place(s, Slots(of))
           /\ \A id \in DOMAIN of : Copied(of)[id] =
                [owner |-> of[id].owner, title |-> of[id].title, threads |-> Copied(of)[id].threads]
<1>1. PICK copy : copy = Copied(of)
  OBVIOUS
<1>2. DOMAIN copy = DOMAIN of
  BY <1>1 DEF Copied
<1>3. \A id \in DOMAIN of :
        /\ copy[id] = [of[id] EXCEPT !.threads = copy[id].threads]
        /\ copy[id].threads = [a \in DOMAIN of[id].threads |->
             [i \in DOMAIN of[id].threads[a] |-> Made + Place(<<id, a, i>>, Slots(of))]]
  <2> SUFFICES ASSUME NEW id \in DOMAIN of
               PROVE  /\ copy[id] = [of[id] EXCEPT !.threads = copy[id].threads]
                      /\ copy[id].threads = [a \in DOMAIN of[id].threads |->
                           [i \in DOMAIN of[id].threads[a] |-> Made + Place(<<id, a, i>>, Slots(of))]]
    OBVIOUS
  <2>1. of[id] = [owner |-> of[id].owner, title |-> of[id].title, threads |-> of[id].threads]
    BY StoreFacts
  <2>2. QED
    BY <1>1, <2>1, Zenon DEF Copied
<1>4. \A id \in DOMAIN of : copy[id] =
        [owner |-> of[id].owner, title |-> of[id].title, threads |-> copy[id].threads]
  <2> SUFFICES ASSUME NEW id \in DOMAIN of
               PROVE  copy[id] = [owner |-> of[id].owner, title |-> of[id].title, threads |-> copy[id].threads]
    OBVIOUS
  <2>1. PICK threads : threads = copy[id].threads
    OBVIOUS
  <2>2. copy[id] = [of[id] EXCEPT !.threads = threads]
    BY <1>3, <2>1
  <2>3. of[id] = [owner |-> of[id].owner, title |-> of[id].title, threads |-> of[id].threads]
    BY StoreFacts
  <2>4. QED
    BY <2>1, <2>2, <2>3
<1>5. ASSUME NEW id \in DOMAIN of
      PROVE  /\ DOMAIN copy[id].threads = DOMAIN of[id].threads
             /\ \A a \in DOMAIN of[id].threads :
                  /\ DOMAIN copy[id].threads[a] = DOMAIN of[id].threads[a]
                  /\ \A i \in DOMAIN of[id].threads[a] :
                       copy[id].threads[a][i] = Made + Place(<<id, a, i>>, Slots(of))
  <2>1. PICK threads : threads = copy[id].threads
    OBVIOUS
  <2>2. threads = [a \in DOMAIN of[id].threads |->
             [i \in DOMAIN of[id].threads[a] |-> Made + Place(<<id, a, i>>, Slots(of))]]
    BY <1>3, <2>1
  <2>3. QED
    BY <2>1, <2>2
<1>6. ASSUME NEW id \in DOMAIN of PROVE SlotsOf(copy, id) = SlotsOf(of, id)
  BY <1>5 DEF SlotsOf, SlotsIn
<1>7. Slots(copy) = Slots(of)
  BY <1>2, <1>6 DEF Slots
<1>8. ASSUME NEW s \in Slots(of) PROVE Item(copy, s) = Made + Place(s, Slots(of))
  <2>1. /\ s = <<s[1], s[2], s[3]>> /\ s[1] \in DOMAIN of /\ s[2] \in DOMAIN of[s[1]].threads
        /\ s[3] \in DOMAIN of[s[1]].threads[s[2]]
    BY SlotFacts
  <2>2. copy[s[1]].threads[s[2]][s[3]] = Made + Place(<<s[1], s[2], s[3]>>, Slots(of))
    BY <1>5, <2>1
  <2>3. QED
    BY <2>1, <2>2 DEF Item
<1>9. QED
  BY <1>1, <1>2, <1>4, <1>7, <1>8

\* What Copies adds: the objects at the slots, written by no user.
LEMMA CopiesFacts ==
    ASSUME NEW m \in Nat, objects \in Seq(ObjectKinds), NEW of \in Stores(m, Made), Copies(of)
    PROVE  /\ objects' \in Seq(ObjectKinds) /\ Made' = Made + Cardinality(Slots(of))
           /\ \A i \in 1..Made : objects'[i] = objects[i]
           /\ \A i \in (Made + 1)..Made' : objects'[i].by = "template"
<1>1. PICK n \in Nat : n = Cardinality(Slots(of))
  BY Places, LenProperties DEF Made
<1>2. PICK k \in Nat : k = Made
  BY LenProperties DEF Made
<1>3. PICK new : new = [j \in 1..n |-> LET s == CHOOSE s \in Slots(of) : Place(s, Slots(of)) = j IN
                          [by |-> "template", role |-> objects[of[s[1]].threads[s[2]][s[3]]].role]]
  OBVIOUS
<1>4. objects' = objects \o new
  BY <1>1, <1>3 DEF Copies
<1>5. ASSUME NEW j \in 1..n PROVE new[j] \in ObjectKinds /\ new[j].by = "template"
  <2>1. \E s \in Slots(of) : Place(s, Slots(of)) = j
    BY <1>1, <1>2, Places
  <2>2. PICK s : s = CHOOSE t \in Slots(of) : Place(t, Slots(of)) = j
    OBVIOUS
  <2>3. s \in Slots(of)
    BY <2>1, <2>2
  <2>4. Item(of, s) \in 1..Made
    BY <1>2, <2>3, HeldFacts
  <2>5. objects[Item(of, s)] \in ObjectKinds
    BY <2>4, ElementOfSeq DEF Made
  <2>6. new[j] = [by |-> "template", role |-> objects[Item(of, s)].role]
    BY <1>3, <2>2 DEF Item
  <2>7. QED
    BY <2>5, <2>6 DEF ObjectKinds
<1>6. new \in [1..n -> ObjectKinds]
  BY <1>3, <1>5
<1>7. new \in Seq(ObjectKinds) /\ Len(new) = n
  BY <1>6, SeqOfFunction
<1>8. /\ objects' \in Seq(ObjectKinds) /\ Len(objects') = k + n
      /\ \A i \in 1..(k + n) : objects'[i] = IF i <= k THEN objects[i] ELSE new[i - k]
  BY <1>2, <1>4, <1>7, ConcatProperties DEF Made
<1>9. \A i \in 1..k : objects'[i] = objects[i]
  BY <1>8
<1>10. \A i \in (k + 1)..(k + n) : objects'[i].by = "template"
  <2> SUFFICES ASSUME NEW i \in (k + 1)..(k + n) PROVE objects'[i].by = "template"
    OBVIOUS
  <2>1. i \in 1..(k + n) /\ ~(i <= k) /\ i - k \in 1..n
    OBVIOUS
  <2>2. QED
    BY <1>5, <1>8, <2>1
<1>11. QED
  BY <1>1, <1>2, <1>8, <1>9, <1>10 DEF Made

(***************************************************************************)
(* Stores made of stores                                                   *)
(***************************************************************************)
LEMMA MakesStore ==
    ASSUME NEW m \in Nat, NEW n \in Nat, NEW of, DOMAIN of \subseteq 1..m, of = [id \in DOMAIN of |-> of[id]],
           \A id \in DOMAIN of : of[id] \in SessionsOf(n)
    PROVE  of \in Stores(m, n)
BY DEF Stores

LEMMA MakesThreads ==
    ASSUME NEW n \in Nat, NEW threads, DOMAIN threads \subseteq ThreadIds,
           threads = [a \in DOMAIN threads |-> threads[a]], \A a \in DOMAIN threads : threads[a] \in Seq(1..n)
    PROVE  threads \in ThreadsOf(n)
BY DEF ThreadsOf

LEMMA WiderStore ==
    ASSUME NEW m \in Nat, NEW n \in Nat, NEW k \in Nat, NEW l \in Nat, m <= k, n <= l, NEW of \in Stores(m, n)
    PROVE  of \in Stores(k, l)
<1>1. ASSUME NEW threads \in ThreadsOf(n) PROVE threads \in ThreadsOf(l)
  <2>1. ASSUME NEW a \in DOMAIN threads PROVE threads[a] \in Seq(1..l)
    <3>1. threads[a] \in Seq(1..n) /\ 1..n \subseteq 1..l
      BY ThreadFacts
    <3>2. QED
      BY <3>1, WiderSeq
  <2>2. QED
    BY <2>1, ThreadFacts, MakesThreads
<1>2. ASSUME NEW id \in DOMAIN of PROVE of[id] \in SessionsOf(l)
  <2>1. of[id] \in SessionsOf(n)
    BY StoreFacts
  <2>2. QED
    BY <1>1, <2>1 DEF SessionsOf
<1>3. DOMAIN of \subseteq 1..k
  BY StoreFacts
<1>4. QED
  BY <1>2, <1>3, StoreFacts, MakesStore

LEMMA CopiedIsStore ==
    ASSUME NEW m \in Nat, Made \in Nat, NEW of \in Stores(m, Made)
    PROVE  Copied(of) \in Stores(m, Made + Cardinality(Slots(of)))
<1>1. PICK n \in Nat : n = Cardinality(Slots(of))
  BY Places
<1>2. PICK k \in Nat : k = Made
  OBVIOUS
<1>3. PICK copy : copy = Copied(of)
  OBVIOUS
<1>4. \A s \in Slots(of) : Item(copy, s) \in 1..(k + n)
  <2> SUFFICES ASSUME NEW s \in Slots(of) PROVE Item(copy, s) \in 1..(k + n)
    OBVIOUS
  <2>1. Place(s, Slots(of)) \in 1..n
    BY <1>1, <1>2, Places
  <2>2. Item(copy, s) = k + Place(s, Slots(of))
    BY <1>2, <1>3, CopiedFacts
  <2>3. QED
    BY <2>1, <2>2
<1>5. ASSUME NEW id \in DOMAIN of PROVE copy[id] \in SessionsOf(k + n)
  <2>1. PICK threads : threads = copy[id].threads
    OBVIOUS
  <2>2. PICK old \in ThreadsOf(k) : old = of[id].threads
    BY <1>2, StoreFacts
  <2>3. /\ threads = [a \in DOMAIN old |-> [i \in DOMAIN old[a] |-> Made + Place(<<id, a, i>>, Slots(of))]]
    <3>1. of[id] = [owner |-> of[id].owner, title |-> of[id].title, threads |-> of[id].threads]
      BY <1>2, StoreFacts
    <3>2. QED
      BY <1>3, <2>1, <2>2, <3>1 DEF Copied
  <2>4. ASSUME NEW a \in DOMAIN old PROVE threads[a] \in Seq(1..(k + n))
    <3>1. PICK l \in Nat : DOMAIN old[a] = 1..l
      BY ThreadFacts
    <3>2. PICK x : x = threads[a]
      OBVIOUS
    <3>3. x = [i \in 1..l |-> Made + Place(<<id, a, i>>, Slots(of))]
      BY <2>3, <3>1, <3>2
    <3>4. ASSUME NEW i \in 1..l PROVE x[i] \in 1..(k + n)
      <4>1. <<id, a, i>> \in Slots(of)
        BY <2>2, <3>1, SlotFacts
      <4>2. Item(copy, <<id, a, i>>) = x[i]
        BY <2>1, <3>2 DEF Item
      <4>3. QED
        BY <1>4, <4>1, <4>2
    <3>5. x \in [1..l -> 1..(k + n)]
      BY <3>3, <3>4
    <3>6. QED
      BY <3>2, <3>5, SeqOfFunction
  <2>5. DOMAIN threads \subseteq ThreadIds
    BY <2>3, ThreadFacts
  <2>6. threads \in ThreadsOf(k + n)
    <3>1. threads = [a \in DOMAIN threads |-> threads[a]] /\ DOMAIN threads = DOMAIN old
      BY <2>3
    <3>2. k + n \in Nat
      OBVIOUS
    <3>3. QED
      BY <2>4, <2>5, <3>1, <3>2, MakesThreads
  <2>7. copy[id] = [owner |-> of[id].owner, title |-> of[id].title, threads |-> threads]
    BY <1>2, <1>3, <2>1, CopiedFacts
  <2>8. of[id].owner \in Owners /\ of[id].title \in Titles
    BY <1>2, StoreFacts
  <2>9. QED
    BY <2>6, <2>7, <2>8 DEF SessionsOf
<1>6. DOMAIN copy = DOMAIN of /\ DOMAIN of \subseteq 1..m
  BY <1>2, <1>3, StoreFacts, CopiedFacts
<1>7. copy = [id \in DOMAIN copy |-> copy[id]]
  BY <1>3 DEF Copied
<1>8. QED
  BY <1>1, <1>2, <1>3, <1>5, <1>6, <1>7, MakesStore

\* What is left of a store.
LEMMA KeptStore ==
    ASSUME NEW m \in Nat, NEW n \in Nat, NEW of \in Stores(m, n), NEW ids \in SUBSET (DOMAIN of), NEW objs,
           Apart(of, objs), Wrote(of, objs), NEW kept, kept = [id \in ids |-> of[id]]
    PROVE  kept \in Stores(m, n) /\ Apart(kept, objs) /\ Wrote(kept, objs)
<1>1. kept \in Stores(m, n)
  <2>1. DOMAIN kept \subseteq 1..m /\ \A id \in DOMAIN kept : kept[id] \in SessionsOf(n)
    BY StoreFacts
  <2>2. QED
    BY <2>1, MakesStore
<1>2. ASSUME NEW s \in Slots(kept) PROVE s \in Slots(of) /\ Item(kept, s) = Item(of, s) /\ kept[s[1]] = of[s[1]]
  <2>1. s = <<s[1], s[2], s[3]>> /\ s[1] \in ids /\ s[2] \in DOMAIN of[s[1]].threads /\ s[3] \in DOMAIN of[s[1]].threads[s[2]]
    BY SlotFacts
  <2>2. s \in Slots(of)
    BY <2>1, SlotFacts
  <2>3. QED
    BY <2>1, <2>2 DEF Item
<1>3. QED
  BY <1>1, <1>2 DEF Apart, Wrote

\* Sessions that hold only new objects, each once, that no user wrote.
Fresh(of, n, objs) ==
  \A s \in Slots(of) : /\ Item(of, s) > n /\ objs[Item(of, s)].by \in {"app", "template"}
                       /\ \A t \in Slots(of) : Item(of, s) = Item(of, t) => s = t

LEMMA FreshStore ==
    ASSUME NEW of, NEW n, NEW objs, Fresh(of, n, objs) PROVE Apart(of, objs) /\ Wrote(of, objs)
BY DEF Fresh, Apart, Wrote

Extends(more, objs, n) == \A i \in 1..n : more[i] = objs[i]
Joined(of, new) == [id \in DOMAIN of \cup DOMAIN new |-> IF id \in DOMAIN of THEN of[id] ELSE new[id]]

\* They may join the others.
LEMMA JoinedStores ==
    ASSUME NEW m \in Nat, NEW n \in Nat, NEW k \in Nat, NEW l \in Nat, m <= k, n <= l,
           NEW of \in Stores(m, n), NEW new \in Stores(k, l), DOMAIN of \cap DOMAIN new = {},
           NEW objs, NEW more, Extends(more, objs, n),
           Apart(of, objs), Wrote(of, objs), Fresh(new, n, more), NEW both,
           both = Joined(of, new)
    PROVE  both \in Stores(k, l) /\ Apart(both, more) /\ Wrote(both, more)
<1> USE DEF Extends, Joined
<1>1. both \in Stores(k, l)
  <2>1. of \in Stores(k, l)
    BY WiderStore
  <2>2. DOMAIN both \subseteq 1..k /\ \A id \in DOMAIN both : both[id] \in SessionsOf(l)
    BY <2>1, StoreFacts
  <2>3. QED
    BY <2>2, MakesStore
<1>2. ASSUME NEW s \in Slots(both)
      PROVE  \/ /\ s \in Slots(of) /\ Item(both, s) = Item(of, s) /\ both[s[1]] = of[s[1]]
                /\ Item(of, s) \in 1..n
             \/ /\ s \in Slots(new) /\ Item(both, s) = Item(new, s) /\ both[s[1]] = new[s[1]]
                /\ Item(new, s) \in Nat /\ Item(new, s) > n
  <2>1. /\ s = <<s[1], s[2], s[3]>> /\ s[1] \in DOMAIN both /\ s[2] \in DOMAIN both[s[1]].threads
        /\ s[3] \in DOMAIN both[s[1]].threads[s[2]]
    BY SlotFacts
  <2>2. CASE s[1] \in DOMAIN of
    <3>1. both[s[1]] = of[s[1]]
      BY <2>2
    <3>2. s \in Slots(of)
      BY <2>1, <2>2, <3>1, SlotFacts
    <3>3. QED
      BY <3>1, <3>2, HeldFacts DEF Item
  <2>3. CASE s[1] \notin DOMAIN of
    <3>1. both[s[1]] = new[s[1]] /\ s[1] \in DOMAIN new
      BY <2>1, <2>3
    <3>2. s \in Slots(new)
      BY <2>1, <3>1, SlotFacts
    <3>3. Item(new, s) \in Nat /\ Item(new, s) > n
      BY <3>2, HeldFacts DEF Fresh
    <3>4. QED
      BY <3>1, <3>2, <3>3 DEF Item
  <2>4. QED
    BY <2>2, <2>3
<1>3. Apart(both, more)
  <2> SUFFICES ASSUME NEW s \in Slots(both), NEW t \in Slots(both), Item(both, s) = Item(both, t)
               PROVE  s[1] = t[1] /\ (s = t \/ more[Item(both, s)].role = "system")
    BY DEF Apart
  <2>1. CASE s \in Slots(of) /\ Item(both, s) = Item(of, s) /\ Item(of, s) \in 1..n
    <3>1. t \in Slots(of) /\ Item(both, t) = Item(of, t)
      <4>1. PICK h : h = Item(both, t)
        OBVIOUS
      <4>2. h \in 1..n
        BY <2>1, <4>1
      <4>3. ~(h > n)
        BY <4>2
      <4>4. QED
        BY <1>2, <4>1, <4>3
    <3>2. QED
      BY <2>1, <3>1 DEF Apart
  <2>2. CASE s \in Slots(new) /\ Item(both, s) = Item(new, s) /\ Item(new, s) \in Nat /\ Item(new, s) > n
    <3>1. t \in Slots(new) /\ Item(both, t) = Item(new, t)
      <4>1. PICK h : h = Item(both, t)
        OBVIOUS
      <4>2. h \notin 1..n
        BY <2>2, <4>1
      <4>3. QED
        BY <1>2, <4>1, <4>2
    <3>2. QED
      BY <2>2, <3>1 DEF Fresh
  <2>3. QED
    BY <1>2, <2>1, <2>2
<1>4. Wrote(both, more)
  <2> SUFFICES ASSUME NEW s \in Slots(both), both[s[1]].owner \in People
               PROVE  more[Item(both, s)].by \in {both[s[1]].owner, "app", "template"}
    BY DEF Wrote
  <2>1. QED
    BY <1>2 DEF Wrote, Fresh
<1>5. QED
  BY <1>1, <1>3, <1>4

\* A thread of old messages of the session and of new ones that its owner or no user wrote,
\* none twice but a primer.
Derives(thread, session, a, n, objs) ==
  \A i \in DOMAIN thread :
    \/ thread[i] > n /\ objs[thread[i]].by \in {session.owner, "app", "template"}
    \/ session.owner \notin People /\ thread[i] > n
    \/ a \in DOMAIN session.threads /\ \E j \in DOMAIN session.threads[a] : thread[i] = session.threads[a][j]
Once(thread, objs) ==
  \A i, j \in DOMAIN thread : thread[i] = thread[j] => i = j \/ objs[thread[i]].role = "system"

Rewritten(of, id, a, thread, title) ==
  [of EXCEPT ![id] = [owner |-> of[id].owner, title |-> title, threads |-> With(of[id].threads, a, thread)]]

\* A thread is replaced by one with old messages of its own and with new messages.
LEMMA RewrittenStore ==
    ASSUME NEW m \in Nat, NEW n \in Nat, NEW l \in Nat, n <= l, NEW of \in Stores(m, n), NEW objs,
           Apart(of, objs), Wrote(of, objs),
           NEW more, Extends(more, objs, n),
           NEW id \in DOMAIN of, NEW a \in ThreadIds, NEW thread \in Seq(1..l), NEW title \in Titles,
           NEW now, now = Rewritten(of, id, a, thread, title),
           Derives(thread, of[id], a, n, more), Once(thread, more)
    PROVE  now \in Stores(m, l) /\ Apart(now, more) /\ Wrote(now, more)
<1> USE DEF Extends
<1>1. PICK threads : threads = With(of[id].threads, a, thread)
  OBVIOUS
<1>2. of \in Stores(m, l)
  BY WiderStore
<1>3. /\ DOMAIN now = DOMAIN of /\ \A j \in DOMAIN of : j # id => now[j] = of[j]
      /\ now[id] = [owner |-> of[id].owner, title |-> title, threads |-> threads]
      /\ now = [j \in DOMAIN now |-> now[j]]
  BY <1>1 DEF Rewritten
<1>4. now[id].threads = threads /\ now[id].owner = of[id].owner
  BY <1>3
<1>5. /\ DOMAIN threads = DOMAIN of[id].threads \cup {a} /\ threads[a] = thread
      /\ \A b \in DOMAIN threads : b # a => threads[b] = of[id].threads[b]
      /\ threads = [b \in DOMAIN threads |-> threads[b]]
  BY <1>1 DEF With
<1>6. threads \in ThreadsOf(l)
  <2>1. PICK old \in ThreadsOf(l) : old = of[id].threads
    BY <1>2, StoreFacts
  <2>2. \A b \in DOMAIN threads : b \in ThreadIds /\ threads[b] \in Seq(1..l)
    BY <1>5, <2>1, ThreadFacts
  <2>3. QED
    BY <1>5, <2>2, MakesThreads
<1>7. now \in Stores(m, l)
  <2>1. now[id] \in SessionsOf(l)
    BY <1>2, <1>3, <1>6, StoreFacts DEF SessionsOf
  <2>2. \A j \in DOMAIN now : now[j] \in SessionsOf(l)
    BY <1>2, <1>3, <2>1, StoreFacts
  <2>3. DOMAIN now \subseteq 1..m
    BY <1>2, <1>3, StoreFacts
  <2>4. QED
    BY <1>3, <2>2, <2>3, MakesStore
<1>8. ASSUME NEW s \in Slots(now)
      PROVE  \/ /\ s \in Slots(of) /\ Item(now, s) = Item(of, s) /\ now[s[1]].owner = of[s[1]].owner
                /\ ~(s[1] = id /\ s[2] = a) /\ Item(of, s) \in 1..n
             \/ /\ s = <<id, a, s[3]>> /\ s[1] = id /\ s[2] = a
                /\ s[3] \in DOMAIN thread /\ Item(now, s) = thread[s[3]]
  <2>1. /\ s = <<s[1], s[2], s[3]>> /\ s[1] \in DOMAIN now /\ s[2] \in DOMAIN now[s[1]].threads
        /\ s[3] \in DOMAIN now[s[1]].threads[s[2]]
    BY SlotFacts
  <2>2. CASE s[1] = id /\ s[2] = a
    BY <1>4, <1>5, <2>1, <2>2 DEF Item
  <2>3. CASE s[1] # id
    <3>1. now[s[1]] = of[s[1]] /\ s[1] \in DOMAIN of
      BY <1>3, <2>1, <2>3
    <3>2. s \in Slots(of)
      BY <2>1, <3>1, SlotFacts
    <3>3. QED
      BY <2>3, <3>1, <3>2, HeldFacts DEF Item
  <2>4. CASE s[1] = id /\ s[2] # a
    <3>1. now[s[1]].threads[s[2]] = of[s[1]].threads[s[2]] /\ s[2] \in DOMAIN of[s[1]].threads
      BY <1>4, <1>5, <2>1, <2>4
    <3>2. s \in Slots(of)
      BY <2>1, <2>4, <3>1, SlotFacts
    <3>3. QED
      BY <1>4, <2>4, <3>1, <3>2, HeldFacts DEF Item
  <2>5. QED
    BY <2>2, <2>3, <2>4
<1>9. ASSUME NEW i \in DOMAIN thread, NEW t \in Slots(of), Item(of, t) \in 1..n, ~(t[1] = id /\ t[2] = a),
             thread[i] = Item(of, t)
      PROVE  t[1] = id /\ more[thread[i]].role = "system"
  <2>1. a \in DOMAIN of[id].threads /\ \E j \in DOMAIN of[id].threads[a] : thread[i] = of[id].threads[a][j]
    <3>1. PICK h : h = thread[i]
      OBVIOUS
    <3>2. h \in 1..n
      BY <1>9, <3>1
    <3>3. ~(h > n)
      BY <3>2
    <3>4. QED
      BY <3>1, <3>3 DEF Derives
  <2>2. PICK j \in DOMAIN of[id].threads[a] : thread[i] = of[id].threads[a][j]
    BY <2>1
  <2>3. PICK q : q = <<id, a, j>>
    OBVIOUS
  <2>4. q \in Slots(of) /\ Item(of, q) = thread[i] /\ q[1] = id /\ q[2] = a
    BY <2>1, <2>2, <2>3, SlotFacts DEF Item
  <2>5. q # t
    BY <1>9, <2>4
  <2>6. q[1] = t[1] /\ objs[Item(of, q)].role = "system"
    BY <1>9, <2>4, <2>5 DEF Apart
  <2>7. QED
    BY <1>9, <2>4, <2>6
<1>10. Apart(now, more)
  <2>1. ASSUME NEW s \in Slots(now), NEW t \in Slots(now), Item(now, s) = Item(now, t),
               s \in Slots(of), Item(now, s) = Item(of, s), ~(s[1] = id /\ s[2] = a), Item(of, s) \in 1..n
        PROVE  s[1] = t[1] /\ (s = t \/ more[Item(now, s)].role = "system")
    <3>1. CASE t \in Slots(of) /\ Item(now, t) = Item(of, t)
      <4>1. s[1] = t[1] /\ (s = t \/ objs[Item(of, s)].role = "system")
        BY <2>1, <3>1 DEF Apart
      <4>2. more[Item(now, s)] = objs[Item(of, s)]
        BY <2>1
      <4>3. QED
        BY <4>1, <4>2
    <3>2. CASE t[1] = id /\ t[3] \in DOMAIN thread /\ Item(now, t) = thread[t[3]]
      BY <1>9, <2>1, <3>2
    <3>3. QED
      BY <1>8, <3>1, <3>2
  <2>2. ASSUME NEW s \in Slots(now), NEW t \in Slots(now), Item(now, s) = Item(now, t),
               s = <<id, a, s[3]>>, s[1] = id, s[3] \in DOMAIN thread, Item(now, s) = thread[s[3]],
               t = <<id, a, t[3]>>, t[1] = id, t[3] \in DOMAIN thread, Item(now, t) = thread[t[3]]
        PROVE  s[1] = t[1] /\ (s = t \/ more[Item(now, s)].role = "system")
    BY <2>2 DEF Once
  <2>3. SUFFICES ASSUME NEW s \in Slots(now), NEW t \in Slots(now), Item(now, s) = Item(now, t)
                 PROVE  s[1] = t[1] /\ (s = t \/ more[Item(now, s)].role = "system")
    BY DEF Apart
  <2>4. CASE s \in Slots(of) /\ Item(now, s) = Item(of, s) /\ ~(s[1] = id /\ s[2] = a) /\ Item(of, s) \in 1..n
    BY <2>1, <2>3, <2>4
  <2>5. CASE t \in Slots(of) /\ Item(now, t) = Item(of, t) /\ ~(t[1] = id /\ t[2] = a) /\ Item(of, t) \in 1..n
    <3>1. t[1] = s[1] /\ (t = s \/ more[Item(now, t)].role = "system")
      BY <2>1, <2>3, <2>5
    <3>2. QED
      BY <2>3, <3>1
  <2>6. QED
    BY <1>8, <2>2, <2>3, <2>4, <2>5
<1>11. Wrote(now, more)
  <2> SUFFICES ASSUME NEW s \in Slots(now), now[s[1]].owner \in People
               PROVE  more[Item(now, s)].by \in {now[s[1]].owner, "app", "template"}
    BY DEF Wrote
  <2>1. CASE s \in Slots(of) /\ Item(now, s) = Item(of, s) /\ now[s[1]].owner = of[s[1]].owner /\ Item(of, s) \in 1..n
    BY <2>1 DEF Wrote
  <2>2. CASE s[1] = id /\ s[3] \in DOMAIN thread /\ Item(now, s) = thread[s[3]]
    <3>1. now[s[1]].owner = of[id].owner /\ of[id].owner \in People
      BY <1>4, <2>2
    <3>2. CASE a \in DOMAIN of[id].threads /\ \E j \in DOMAIN of[id].threads[a] : thread[s[3]] = of[id].threads[a][j]
      <4>1. PICK j \in DOMAIN of[id].threads[a] : thread[s[3]] = of[id].threads[a][j]
        BY <3>2
      <4>2. PICK q : q = <<id, a, j>>
        OBVIOUS
      <4>3. q \in Slots(of) /\ Item(of, q) = thread[s[3]] /\ q[1] = id
        BY <3>2, <4>1, <4>2, SlotFacts DEF Item
      <4>4. Item(of, q) \in 1..n
        BY <4>3, HeldFacts
      <4>5. QED
        BY <2>2, <3>1, <4>3, <4>4 DEF Wrote
    <3>3. QED
      BY <2>2, <3>1, <3>2 DEF Derives
  <2>3. QED
    BY <1>8, <2>1, <2>2
<1>12. QED
  BY <1>7, <1>10, <1>11

(***************************************************************************)
(* The steps                                                               *)
(***************************************************************************)
LEMMA Numbers == ASSUME ApiTyped PROVE Made \in Nat /\ nextId \in Nat \ {0}
BY LenProperties DEF ApiTyped, Made

LEMMA TalksStay ==
    ASSUME ApiInv, talks' = talks, nextId' \in Nat, nextId <= nextId',
           \A id \in DOMAIN sessions' : id <= nextId =>
             /\ id \in DOMAIN sessions /\ sessions'[id].owner = sessions[id].owner
             /\ DOMAIN sessions[id].threads \subseteq DOMAIN sessions'[id].threads
    PROVE  talks' \in [People -> Chats] /\ TalksAtHome'
<1>1. talks \in [People -> Chats] /\ nextId \in Nat /\ TalksAtHome
  BY DEF ApiInv, ApiTyped
<1>2. ASSUME NEW user \in People
      PROVE  /\ talks'[user].session <= nextId'
             /\ talks'[user].at # "none" /\ talks'[user].session \in DOMAIN sessions' =>
                  /\ sessions'[talks'[user].session].owner \in {user, "__default__"}
                  /\ talks'[user].agent \in DOMAIN sessions'[talks'[user].session].threads
  <2>1. PICK id \in Nat : id = talks[user].session
    BY <1>1 DEF Chats
  <2>2. id <= nextId /\ id <= nextId'
    BY <1>1, <2>1 DEF TalksAtHome
  <2>3. QED
    BY <1>1, <2>1, <2>2 DEF TalksAtHome
<1>3. QED
  BY <1>1, <1>2 DEF TalksAtHome

LEMMA SeedsInv ==
    ASSUME ApiInv, NEW user \in People, NEW people, NEW ids \in SUBSET (DOMAIN sessions), TemplateIds \subseteq ids,
           NEW kept, kept = [id \in ids |-> sessions[id]],
           Seeds(user, kept, people), UNCHANGED <<saved, talks>>
    PROVE  ApiInv'
<1>1. PICK m \in Nat, n \in Nat : m = nextId /\ n = Made
  BY Numbers DEF ApiInv
<1>2. /\ objects \in Seq(ObjectKinds) /\ m # 0 /\ sessions \in Stores(m, n) /\ saved \in Stores(m, n)
      /\ Apart(sessions, objects) /\ Wrote(sessions, objects) /\ TemplateStays
  BY <1>1 DEF ApiInv, ApiTyped
<1>3. kept \in Stores(m, n) /\ Apart(kept, objects) /\ Wrote(kept, objects)
  BY <1>2, KeptStore
<1>4. 1 \in TemplateIds /\ 1 \in ids /\ kept[1] = sessions[1]
  BY <1>2 DEF TemplateStays, TemplateIds
<1>5. CASE sessions' = kept /\ UNCHANGED <<nextId, objects>>
  <2>1. Made' = n /\ nextId' = m
    BY <1>1, <1>5 DEF Made
  <2>2. ApiTyped' /\ Apart(sessions, objects)' /\ Wrote(sessions, objects)'
    <3>1. talks \in [People -> Chats]
      BY DEF ApiInv, ApiTyped
    <3>2. QED
      BY <1>1, <1>2, <1>3, <1>5, <2>1, <3>1 DEF ApiTyped
  <2>3. TalksAtHome'
    <3>1. \A id \in DOMAIN sessions' : id \in DOMAIN sessions /\ sessions'[id] = sessions[id]
      BY <1>5
    <3>2. nextId' \in Nat /\ nextId <= nextId' /\ talks' = talks
      BY <1>1, <2>1
    <3>3. QED
      BY <3>1, <3>2, TalksStay
  <2>4. TemplateStays'
    BY <1>2, <1>4, <1>5 DEF TemplateStays
  <2>5. QED
    BY <2>2, <2>3, <2>4 DEF ApiInv
<1>6. CASE /\ nextId' = nextId + Cardinality(TemplateIds)
           /\ sessions' = [id \in DOMAIN kept \cup CloneIds |->
                             IF id \in DOMAIN kept THEN kept[id] ELSE ClonesFor(user)[id]]
           /\ Copies(TemplateSessions)
  <2>1. PICK t : t = TemplateSessions
    OBVIOUS
  <2>2. t \in Stores(m, n)
    <3>1. t = [id \in TemplateIds |-> sessions[id]] /\ TemplateIds \subseteq DOMAIN sessions
      BY <2>1 DEF TemplateSessions, TemplateIds
    <3>2. QED
      BY <1>2, <3>1, KeptStore
  <2>3. PICK c \in Nat : c = Cardinality(Slots(t))
    BY <2>2, Places
  <2>4. /\ objects' \in Seq(ObjectKinds) /\ Made' = n + c /\ \A i \in 1..n : objects'[i] = objects[i]
        /\ \A i \in (n + 1)..(n + c) : objects'[i].by = "template"
    BY <1>1, <1>2, <1>6, <2>1, <2>2, <2>3, CopiesFacts
  <2>5. /\ Copied(t) \in Stores(m, n + c) /\ DOMAIN Copied(t) = TemplateIds /\ Slots(Copied(t)) = Slots(t)
    <3>1. DOMAIN t = TemplateIds
      BY <2>1 DEF TemplateSessions
    <3>2. QED
      BY <1>1, <2>2, <2>3, <3>1, CopiedIsStore, CopiedFacts
  <2>6. PICK k \in Nat : k = Cardinality(TemplateIds)
    <3>1. TemplateIds \subseteq 1..m
      BY <1>2, StoreFacts DEF TemplateIds
    <3>2. QED
      BY <3>1, IdsAreFinite, FS_CardinalityType
  <2>7. ASSUME NEW id \in TemplateIds PROVE Rank(id) \in 1..k
    <3>1. PICK below : below = {s \in TemplateIds : s <= id}
      OBVIOUS
    <3>2. TemplateIds \subseteq 1..m
      BY <1>2, StoreFacts DEF TemplateIds
    <3>3. IsFiniteSet(TemplateIds) /\ id \in below /\ below \in SUBSET TemplateIds
      BY <3>1, <3>2, IdsAreFinite
    <3>4. IsFiniteSet(below) /\ Cardinality(below) <= k
      BY <2>6, <3>3, FS_Subset
    <3>5. Cardinality(below) \in Nat /\ Cardinality(below) # 0
      BY <3>3, <3>4, FS_CardinalityType, FS_EmptySet
    <3>6. QED
      BY <3>1, <3>4, <3>5 DEF Rank
  <2>8. \A x \in CloneIds : x \in (m + 1)..(m + k) /\ Original(x) \in TemplateIds /\ x = m + Rank(Original(x))
    <3> SUFFICES ASSUME NEW x \in CloneIds
                 PROVE  x \in (m + 1)..(m + k) /\ Original(x) \in TemplateIds /\ x = m + Rank(Original(x))
      OBVIOUS
    <3>1. \E id \in TemplateIds : m + Rank(id) = x
      BY <1>1 DEF CloneIds
    <3>2. Original(x) \in TemplateIds /\ m + Rank(Original(x)) = x
      BY <1>1, <3>1 DEF Original
    <3>3. QED
      BY <2>7, <3>2
  <2>9. PICK new : new = ClonesFor(user)
    OBVIOUS
  <2>10. /\ DOMAIN new = CloneIds /\ new = [x \in DOMAIN new |-> new[x]]
         /\ \A x \in CloneIds : new[x] = [owner |-> user, title |-> Copied(t)[Original(x)].title,
                                          threads |-> Copied(t)[Original(x)].threads]
    <3>1. new = [x \in CloneIds |-> [Copied(t)[Original(x)] EXCEPT !.owner = user]]
      BY <2>1, <2>9 DEF ClonesFor
    <3>2. ASSUME NEW x \in CloneIds
          PROVE  new[x] = [owner |-> user, title |-> Copied(t)[Original(x)].title,
                           threads |-> Copied(t)[Original(x)].threads]
      <4>1. PICK id : id = Original(x)
        OBVIOUS
      <4>2. id \in DOMAIN Copied(t)
        BY <2>5, <2>8, <4>1
      <4>3. Copied(t)[id] = [owner |-> Copied(t)[id].owner, title |-> Copied(t)[id].title, threads |-> Copied(t)[id].threads]
        BY <2>5, <4>2, StoreFacts
      <4>4. new[x] = [Copied(t)[id] EXCEPT !.owner = user]
        BY <3>1, <4>1
      <4>5. QED
        BY <4>1, <4>3, <4>4
    <3>3. QED
      BY <3>1, <3>2
  <2>11. new \in Stores(m + k, n + c)
    <3>1. ASSUME NEW x \in DOMAIN new PROVE new[x] \in SessionsOf(n + c)
      <4>1. Original(x) \in DOMAIN Copied(t)
        BY <2>5, <2>8, <2>10, <3>1
      <4>2. Copied(t)[Original(x)].title \in Titles /\ Copied(t)[Original(x)].threads \in ThreadsOf(n + c)
        BY <2>5, <4>1, StoreFacts
      <4>3. QED
        BY <2>10, <3>1, <4>2 DEF SessionsOf, Owners
    <3>2. DOMAIN new \subseteq 1..(m + k)
      BY <2>8, <2>10
    <3>3. m + k \in Nat /\ n + c \in Nat
      OBVIOUS
    <3>4. QED
      BY <2>10, <3>1, <3>2, <3>3, MakesStore
  <2>12. Fresh(new, n, objects')
    <3>1. ASSUME NEW s \in Slots(new)
          PROVE  /\ s = <<s[1], s[2], s[3]>> /\ s[1] = m + Rank(Original(s[1]))
                 /\ <<Original(s[1]), s[2], s[3]>> \in Slots(t)
                 /\ Item(new, s) = n + Place(<<Original(s[1]), s[2], s[3]>>, Slots(t))
      <4>1. /\ s = <<s[1], s[2], s[3]>> /\ s[1] \in CloneIds /\ s[2] \in DOMAIN new[s[1]].threads
            /\ s[3] \in DOMAIN new[s[1]].threads[s[2]]
        BY <2>10, SlotFacts
      <4>2. PICK id : id = Original(s[1])
        OBVIOUS
      <4>3. id \in DOMAIN Copied(t) /\ new[s[1]].threads = Copied(t)[id].threads
        BY <2>5, <2>8, <2>10, <4>1, <4>2
      <4>4. <<id, s[2], s[3]>> \in Slots(Copied(t))
        BY <4>1, <4>3, SlotFacts
      <4>5. PICK q : q = <<id, s[2], s[3]>>
        OBVIOUS
      <4>6. Item(Copied(t), q) = n + Place(q, Slots(t))
        BY <1>1, <2>2, <2>5, <4>4, <4>5, CopiedFacts
      <4>7. Item(new, s) = Item(Copied(t), q)
        BY <4>3, <4>5 DEF Item
      <4>8. QED
        BY <2>5, <2>8, <4>1, <4>2, <4>4, <4>5, <4>6, <4>7
    <3>2. \A q \in Slots(t) : Place(q, Slots(t)) \in 1..c
      BY <2>2, <2>3, Places
    <3>3. ASSUME NEW s \in Slots(new)
          PROVE  Item(new, s) > n /\ objects'[Item(new, s)].by \in {"app", "template"}
      <4>1. PICK p \in 1..c : Item(new, s) = n + p
        BY <3>1, <3>2
      <4>2. n + p > n /\ n + p \in (n + 1)..(n + c)
        OBVIOUS
      <4>3. QED
        BY <2>4, <4>1, <4>2
    <3>4. ASSUME NEW s \in Slots(new), NEW r \in Slots(new), Item(new, s) = Item(new, r)
          PROVE  s = r
      <4>1. PICK p : p = <<Original(s[1]), s[2], s[3]>>
        OBVIOUS
      <4>2. PICK q : q = <<Original(r[1]), r[2], r[3]>>
        OBVIOUS
      <4>3. p \in Slots(t) /\ q \in Slots(t) /\ n + Place(p, Slots(t)) = n + Place(q, Slots(t))
        BY <3>1, <3>4, <4>1, <4>2
      <4>4. Place(p, Slots(t)) \in Nat /\ Place(q, Slots(t)) \in Nat
        BY <3>2, <4>3
      <4>5. Place(p, Slots(t)) = Place(q, Slots(t))
        BY <4>3, <4>4
      <4>6. p = q
        BY <2>2, <4>3, <4>5, Places
      <4>7. Original(s[1]) = Original(r[1]) /\ s[2] = r[2] /\ s[3] = r[3]
        BY <4>1, <4>2, <4>6
      <4>8. s[1] = r[1]
        BY <3>1, <4>7
      <4>9. s = <<s[1], s[2], s[3]>> /\ r = <<r[1], r[2], r[3]>>
        BY <3>1
      <4>10. QED
        BY <4>7, <4>8, <4>9
    <3>5. QED
      BY <3>3, <3>4 DEF Fresh
  <2>13. DOMAIN kept \cap DOMAIN new = {}
    <3>1. DOMAIN kept \subseteq 1..m
      BY <1>3, StoreFacts
    <3>2. QED
      BY <2>8, <2>10, <3>1
  <2>14. sessions' = [id \in DOMAIN kept \cup DOMAIN new |-> IF id \in DOMAIN kept THEN kept[id] ELSE new[id]]
    BY <1>6, <2>9, <2>10
  <2>15. sessions' \in Stores(m + k, n + c) /\ Apart(sessions', objects') /\ Wrote(sessions', objects')
    <3>1. m + k \in Nat /\ n + c \in Nat /\ m <= m + k /\ n <= n + c
      OBVIOUS
    <3>2. PICK both, more : both = sessions' /\ more = objects'
      OBVIOUS
    <3>3. PICK l \in Nat, h \in Nat : l = m + k /\ h = n + c
      OBVIOUS
    <3>4. new \in Stores(l, h) /\ m <= l /\ n <= h /\ Fresh(new, n, more) /\ \A i \in 1..n : more[i] = objects[i]
      BY <2>4, <2>11, <2>12, <3>1, <3>2, <3>3
    <3>5. both = [id \in DOMAIN kept \cup DOMAIN new |-> IF id \in DOMAIN kept THEN kept[id] ELSE new[id]]
      BY <2>14, <3>2
    <3>6. both \in Stores(l, h) /\ Apart(both, more) /\ Wrote(both, more)
      <4>1. /\ l \in Nat /\ h \in Nat /\ n <= h /\ m <= l
            /\ kept \in Stores(m, n) /\ new \in Stores(l, h) /\ DOMAIN kept \cap DOMAIN new = {}
            /\ Apart(kept, objects) /\ Wrote(kept, objects) /\ Fresh(new, n, more)
            /\ Extends(more, objects, n) /\ both = Joined(kept, new)
        BY <1>3, <2>13, <3>3, <3>4, <3>5 DEF Extends, Joined
      <4>2. QED
        BY <4>1, JoinedStores
    <3>7. QED
      BY <3>2, <3>3, <3>6
  <2>16. nextId' = m + k /\ nextId' \in Nat \ {0} /\ nextId <= nextId'
    BY <1>1, <1>2, <1>6, <2>6
  <2>17. talks' \in [People -> Chats] /\ TalksAtHome'
    <3>1. ASSUME NEW id \in DOMAIN sessions', id <= nextId PROVE id \in DOMAIN sessions /\ sessions'[id] = sessions[id]
      <4>1. id \in DOMAIN kept
        BY <1>1, <2>8, <2>10, <2>14, <3>1
      <4>2. QED
        BY <2>14, <4>1
    <3>2. QED
      BY <2>16, <3>1, TalksStay
  <2>18. TemplateStays'
    BY <1>2, <1>4, <2>14 DEF TemplateStays
  <2>19. saved' \in Stores(m + k, n + c)
    <3>1. m + k \in Nat /\ n + c \in Nat /\ m <= m + k /\ n <= n + c
      OBVIOUS
    <3>2. QED
      BY <1>2, <3>1, WiderStore
  <2>20. QED
    BY <2>4, <2>15, <2>16, <2>17, <2>18, <2>19 DEF ApiInv, ApiTyped
<1>7. QED
  BY <1>5, <1>6 DEF Seeds

LEMMA ListsInv == ASSUME ApiInv, NEW user \in People, ListsSessions(user) PROVE ApiInv'
<1>1. sessions = [id \in DOMAIN sessions |-> sessions[id]]
  BY Numbers, StoreFacts DEF ApiInv, ApiTyped
<1>2. TemplateIds \subseteq DOMAIN sessions
  BY DEF TemplateIds
<1>3. Seeds(user, sessions, seededPeople) /\ UNCHANGED <<saved, talks>>
  BY DEF ListsSessions
<1>4. QED
  BY <1>1, <1>2, <1>3, SeedsInv

LEMMA ResetsInv == ASSUME ApiInv, NEW user \in People, ResetsDefaults(user) PROVE ApiInv'
<1>1. PICK titles : Seeds(user, Dropping(Doomed(user, titles)), seededPeople \ {user}) /\ UNCHANGED <<saved, talks>>
  BY DEF ResetsDefaults
<1>2. PICK ids : ids = (DOMAIN sessions) \ Doomed(user, titles)
  OBVIOUS
<1>3. PICK kept : kept = Dropping(Doomed(user, titles))
  OBVIOUS
<1>4. ids \in SUBSET (DOMAIN sessions) /\ kept = [id \in ids |-> sessions[id]]
  BY <1>2, <1>3 DEF Dropping
<1>5. TemplateIds \subseteq ids
  BY <1>2, SessionsAssumption DEF TemplateIds, Doomed, Own
<1>6. Seeds(user, kept, seededPeople \ {user})
  BY <1>1, <1>3
<1>7. QED
  BY <1>1, <1>4, <1>5, <1>6, SeedsInv

LEMMA CreatesInv == ASSUME ApiInv, NEW user \in People, Creates(user) PROVE ApiInv'
<1>1. PICK m \in Nat, n \in Nat : m = nextId /\ n = Made
  BY Numbers DEF ApiInv
<1>2. /\ objects \in Seq(ObjectKinds) /\ m # 0 /\ sessions \in Stores(m, n) /\ saved \in Stores(m, n)
      /\ Apart(sessions, objects) /\ Wrote(sessions, objects) /\ TemplateStays
  BY <1>1 DEF ApiInv, ApiTyped
<1>3. PICK c \in Nat : c = AgentCount
  BY SessionsAssumption
<1>4. PICK prompts : prompts = [a \in 1..c |-> [by |-> "app", role |-> "system"]]
  OBVIOUS
<1>5. prompts \in Seq(ObjectKinds) /\ Len(prompts) = c
  <2>1. prompts \in [1..c -> ObjectKinds]
    BY <1>4 DEF ObjectKinds
  <2>2. QED
    BY <2>1, SeqOfFunction
<1>6. /\ objects' = objects \o prompts /\ nextId' = m + 1
      /\ sessions' = With(sessions, m + 1, Session(user, "new", [a \in 1..c |-> <<n + a>>]))
      /\ saved' = saved /\ talks' = talks
  BY <1>1, <1>3, <1>4 DEF Creates, create, AgentIds
<1>7. /\ objects' \in Seq(ObjectKinds) /\ Len(objects') = n + c
      /\ \A i \in 1..(n + c) : objects'[i] = IF i <= n THEN objects[i] ELSE prompts[i - n]
  BY <1>1, <1>2, <1>5, <1>6, ConcatProperties DEF Made
<1>8. PICK l \in Nat, k \in Nat : l = n + c /\ k = m + 1
  OBVIOUS
<1>9. PICK more : more = objects'
  OBVIOUS
<1>10. m <= k /\ n <= l /\ (\A i \in 1..n : more[i] = objects[i]) /\ \A a \in 1..c : more[n + a].by = "app"
  <2>1. \A i \in 1..n : i \in 1..(n + c) /\ i <= n
    OBVIOUS
  <2>2. ASSUME NEW a \in 1..c PROVE more[n + a].by = "app"
    <3>1. PICK i \in 1..(n + c) : i = n + a /\ ~(i <= n) /\ i - n = a
      OBVIOUS
    <3>2. more[i] = prompts[a]
      BY <1>7, <1>9, <3>1
    <3>3. QED
      BY <1>4, <3>1, <3>2
  <2>3. m <= k /\ n <= l
    BY <1>8
  <2>4. \A i \in 1..n : more[i] = objects[i]
    BY <1>7, <1>9, <2>1
  <2>5. QED
    BY <2>2, <2>3, <2>4
<1>11. PICK threads : threads = [a \in 1..c |-> <<n + a>>]
  OBVIOUS
<1>12. PICK new : new = [id \in {k} |-> [owner |-> user, title |-> "new", threads |-> threads]]
  OBVIOUS
<1>13. new \in Stores(k, l)
  <2>1. \A a \in 1..c : <<n + a>> \in Seq(1..l)
    <3> SUFFICES ASSUME NEW a \in 1..c PROVE <<n + a>> \in Seq(1..l)
      OBVIOUS
    <3>1. n + a \in 1..l
      BY <1>8
    <3>2. QED
      BY <3>1
  <2>2. DOMAIN threads \subseteq ThreadIds
    BY <1>3, <1>11 DEF ThreadIds, AgentIds
  <2>3. threads \in ThreadsOf(l)
    <3>1. \A a \in DOMAIN threads : threads[a] \in Seq(1..l)
      BY <1>11, <2>1
    <3>2. threads = [a \in DOMAIN threads |-> threads[a]]
      BY <1>11
    <3>3. QED
      BY <2>2, <3>1, <3>2, MakesThreads
  <2>4. \A id \in DOMAIN new : new[id] \in SessionsOf(l)
    BY <1>12, <2>3 DEF SessionsOf, Owners, Titles
  <2>5. DOMAIN new \subseteq 1..k
    BY <1>8, <1>12
  <2>6. new = [id \in DOMAIN new |-> new[id]]
    BY <1>12
  <2>7. QED
    BY <2>4, <2>5, <2>6, MakesStore
<1>14. Fresh(new, n, more)
  <2>1. ASSUME NEW s \in Slots(new) PROVE s = <<k, s[2], 1>> /\ s[2] \in 1..c /\ Item(new, s) = n + s[2]
    <3>1. /\ s = <<s[1], s[2], s[3]>> /\ s[1] = k /\ s[2] \in DOMAIN new[k].threads
          /\ s[3] \in DOMAIN new[k].threads[s[2]]
      BY <1>12, SlotFacts
    <3>2. new[k].threads = threads
      BY <1>12
    <3>3. s[2] \in 1..c /\ threads[s[2]] = <<n + s[2]>>
      BY <1>11, <3>1, <3>2
    <3>4. s[3] = 1
      BY <3>1, <3>2, <3>3
    <3>5. QED
      BY <3>1, <3>2, <3>3, <3>4 DEF Item
  <2>2. ASSUME NEW s \in Slots(new) PROVE Item(new, s) > n /\ more[Item(new, s)].by \in {"app", "template"}
    <3>1. PICK a \in 1..c : Item(new, s) = n + a
      BY <2>1
    <3>2. QED
      BY <1>10, <3>1
  <2>3. ASSUME NEW s \in Slots(new), NEW t \in Slots(new), Item(new, s) = Item(new, t) PROVE s = t
    <3>1. PICK a \in 1..c : a = s[2] /\ s = <<k, a, 1>> /\ Item(new, s) = n + a
      BY <2>1
    <3>2. PICK b \in 1..c : b = t[2] /\ t = <<k, b, 1>> /\ Item(new, t) = n + b
      BY <2>1
    <3>3. a = b
      BY <2>3, <3>1, <3>2
    <3>4. QED
      BY <3>1, <3>2, <3>3
  <2>4. QED
    BY <2>2, <2>3 DEF Fresh
<1>15. DOMAIN sessions \cap DOMAIN new = {}
  <2>1. DOMAIN sessions \subseteq 1..m
    BY <1>2, StoreFacts
  <2>2. QED
    BY <1>8, <1>12, <2>1
<1>16. PICK both : both = sessions'
  OBVIOUS
<1>17. both = [id \in DOMAIN sessions \cup DOMAIN new |-> IF id \in DOMAIN sessions THEN sessions[id] ELSE new[id]]
  <2>1. both = [id \in DOMAIN sessions \cup {k} |-> IF id = k THEN new[k] ELSE sessions[id]]
    BY <1>6, <1>8, <1>11, <1>12, <1>16 DEF With, Session
  <2>2. k \notin DOMAIN sessions /\ DOMAIN new = {k}
    BY <1>12, <1>15
  <2>3. QED
    BY <2>1, <2>2
<1>18. both \in Stores(k, l) /\ Apart(both, more) /\ Wrote(both, more)
  <2>1. PICK of, objs : of = sessions /\ objs = objects
    OBVIOUS
  <2>2. m <= k /\ n <= l /\ Extends(more, objs, n)
    BY <1>10, <2>1 DEF Extends
  <2>3. of \in Stores(m, n) /\ Apart(of, objs) /\ Wrote(of, objs)
    BY <1>2, <2>1
  <2>4. DOMAIN of \cap DOMAIN new = {}
    BY <1>15, <2>1
  <2>5. both = Joined(of, new)
    BY <1>17, <2>1 DEF Joined
  <2>6. QED
    BY <1>13, <1>14, <2>2, <2>3, <2>4, <2>5, JoinedStores
<1>19. saved' \in Stores(k, l)
  BY <1>2, <1>6, <1>10, WiderStore
<1>20. talks' \in [People -> Chats] /\ TalksAtHome'
  <2>1. ASSUME NEW id \in DOMAIN sessions', id <= nextId PROVE id \in DOMAIN sessions /\ sessions'[id] = sessions[id]
    <3>1. id # k
      BY <1>1, <1>8, <2>1
    <3>2. QED
      BY <1>12, <1>16, <1>17, <2>1, <3>1
  <2>2. nextId' \in Nat /\ nextId <= nextId'
    BY <1>1, <1>6
  <2>3. QED
    BY <1>6, <2>1, <2>2, TalksStay
<1>21. TemplateStays'
  BY <1>2, <1>6, <1>16, <1>17 DEF TemplateStays
<1>22. Made' = l /\ nextId' = k /\ k # 0
  BY <1>6, <1>7, <1>8 DEF Made
<1>23. QED
  BY <1>7, <1>8, <1>9, <1>16, <1>18, <1>19, <1>20, <1>21, <1>22 DEF ApiInv, ApiTyped

\* Nothing but titles, or nothing at all, is different.
LEMMA SameThreads ==
    ASSUME NEW of, NEW now, NEW objs, Apart(of, objs), Wrote(of, objs), DOMAIN now = DOMAIN of,
           \A id \in DOMAIN of : now[id].owner = of[id].owner /\ now[id].threads = of[id].threads
    PROVE  Apart(now, objs) /\ Wrote(now, objs)
<1>1. ASSUME NEW s \in Slots(now)
      PROVE  s \in Slots(of) /\ Item(now, s) = Item(of, s) /\ now[s[1]].owner = of[s[1]].owner
  <2>1. s = <<s[1], s[2], s[3]>> /\ s[1] \in DOMAIN of /\ s[2] \in DOMAIN of[s[1]].threads /\ s[3] \in DOMAIN of[s[1]].threads[s[2]]
    BY SlotFacts
  <2>2. s \in Slots(of)
    BY <2>1, SlotFacts
  <2>3. QED
    BY <2>1, <2>2 DEF Item
<1>2. QED
  BY <1>1 DEF Apart, Wrote

LEMMA PatchesInv == ASSUME ApiInv, NEW user \in People, NEW id \in DOMAIN sessions, Patches(user, id) PROVE ApiInv'
<1>1. PICK m \in Nat, n \in Nat : m = nextId /\ n = Made
  BY Numbers DEF ApiInv
<1>2. /\ objects \in Seq(ObjectKinds) /\ m # 0 /\ sessions \in Stores(m, n) /\ saved \in Stores(m, n)
      /\ Apart(sessions, objects) /\ Wrote(sessions, objects) /\ TemplateStays
  BY <1>1 DEF ApiInv, ApiTyped
<1>3. PICK title \in Titles : sessions' = [sessions EXCEPT ![id].title = title]
  BY DEF Patches, update, Titles
<1>4. /\ nextId' = nextId /\ objects' = objects /\ saved' = saved /\ talks' = talks /\ Made' = n
  BY <1>1 DEF Patches, Made
<1>5. PICK now : now = sessions'
  OBVIOUS
<1>6. /\ DOMAIN now = DOMAIN sessions /\ now = [j \in DOMAIN now |-> now[j]]
      /\ \A j \in DOMAIN sessions : j # id => now[j] = sessions[j]
      /\ now[id] = [sessions[id] EXCEPT !.title = title]
  BY <1>3, <1>5
<1>7. sessions[id] = [owner |-> sessions[id].owner, title |-> sessions[id].title, threads |-> sessions[id].threads]
  BY <1>2, StoreFacts
<1>8. now[id] = [owner |-> sessions[id].owner, title |-> title, threads |-> sessions[id].threads]
  BY <1>6, <1>7
<1>9. now \in Stores(m, n)
  <2>1. now[id] \in SessionsOf(n)
    BY <1>2, <1>8, StoreFacts DEF SessionsOf
  <2>2. \A j \in DOMAIN now : now[j] \in SessionsOf(n)
    BY <1>2, <1>6, <2>1, StoreFacts
  <2>3. DOMAIN now \subseteq 1..m
    BY <1>2, <1>6, StoreFacts
  <2>4. QED
    BY <1>6, <2>2, <2>3, MakesStore
<1>10. \A j \in DOMAIN sessions : now[j].owner = sessions[j].owner /\ now[j].threads = sessions[j].threads
  BY <1>6, <1>8
<1>11. Apart(now, objects) /\ Wrote(now, objects)
  BY <1>2, <1>6, <1>10, SameThreads
<1>12. talks' \in [People -> Chats] /\ TalksAtHome'
  <2>1. \A j \in DOMAIN sessions' : /\ j \in DOMAIN sessions /\ sessions'[j].owner = sessions[j].owner
                                    /\ DOMAIN sessions[j].threads \subseteq DOMAIN sessions'[j].threads
    BY <1>5, <1>6, <1>10
  <2>2. nextId' \in Nat /\ nextId <= nextId' /\ talks' = talks
    BY <1>1, <1>4
  <2>3. QED
    BY <2>1, <2>2, TalksStay
<1>13. TemplateStays'
  BY <1>2, <1>4, <1>5, <1>6, <1>10 DEF TemplateStays
<1>14. QED
  BY <1>1, <1>2, <1>4, <1>5, <1>9, <1>11, <1>12, <1>13 DEF ApiInv, ApiTyped

LEMMA DeletesInv == ASSUME ApiInv, NEW user \in People, NEW id \in DOMAIN sessions, DeletesSession(user, id) PROVE ApiInv'
<1>1. PICK m \in Nat, n \in Nat : m = nextId /\ n = Made
  BY Numbers DEF ApiInv
<1>2. /\ objects \in Seq(ObjectKinds) /\ m # 0 /\ sessions \in Stores(m, n) /\ saved \in Stores(m, n)
      /\ Apart(sessions, objects) /\ Wrote(sessions, objects) /\ TemplateStays
  BY <1>1 DEF ApiInv, ApiTyped
<1>3. /\ nextId' = nextId /\ objects' = objects /\ saved' = saved /\ talks' = talks /\ Made' = n
      /\ sessions[id].owner # "__default__"
  BY <1>1 DEF DeletesSession, MayChange, Made
<1>4. PICK ids, now : ids = (DOMAIN sessions) \ {id} /\ now = sessions'
  OBVIOUS
<1>5. ids \in SUBSET (DOMAIN sessions) /\ now = [j \in ids |-> sessions[j]]
  BY <1>4 DEF DeletesSession, Dropping
<1>6. now \in Stores(m, n) /\ Apart(now, objects) /\ Wrote(now, objects)
  BY <1>2, <1>5, KeptStore
<1>7. talks' \in [People -> Chats] /\ TalksAtHome'
  <2>1. \A j \in DOMAIN sessions' : j \in DOMAIN sessions /\ sessions'[j] = sessions[j]
    BY <1>4, <1>5
  <2>2. nextId' \in Nat /\ nextId <= nextId' /\ talks' = talks
    BY <1>1, <1>3
  <2>3. QED
    BY <2>1, <2>2, TalksStay
<1>8. TemplateStays'
  BY <1>2, <1>3, <1>4, <1>5 DEF TemplateStays
<1>9. QED
  BY <1>1, <1>2, <1>3, <1>4, <1>6, <1>7, <1>8 DEF ApiInv, ApiTyped

LEMMA SavesInv == ASSUME ApiInv, NEW user \in People, NEW id \in DOMAIN sessions, SavesSession(user, id) PROVE ApiInv'
<1>1. PICK m \in Nat, n \in Nat : m = nextId /\ n = Made
  BY Numbers DEF ApiInv
<1>2. /\ objects \in Seq(ObjectKinds) /\ m # 0 /\ sessions \in Stores(m, n) /\ saved \in Stores(m, n)
      /\ Apart(sessions, objects) /\ Wrote(sessions, objects) /\ TemplateStays
  BY <1>1 DEF ApiInv, ApiTyped
<1>3. /\ nextId' = nextId /\ objects' = objects /\ sessions' = sessions /\ talks' = talks /\ Made' = n
      /\ saved' = With(saved, id, sessions[id])
  BY <1>1 DEF SavesSession, Made
<1>4. PICK now : now = saved'
  OBVIOUS
<1>5. /\ DOMAIN now = DOMAIN saved \cup {id} /\ now = [j \in DOMAIN now |-> now[j]]
      /\ \A j \in DOMAIN now : now[j] = sessions[id] \/ (j \in DOMAIN saved /\ now[j] = saved[j])
  BY <1>3, <1>4 DEF With
<1>6. now \in Stores(m, n)
  <2>1. \A j \in DOMAIN now : now[j] \in SessionsOf(n)
    BY <1>2, <1>5, StoreFacts
  <2>2. DOMAIN now \subseteq 1..m
    BY <1>2, <1>5, StoreFacts
  <2>3. QED
    BY <1>5, <2>1, <2>2, MakesStore
<1>7. talks' \in [People -> Chats] /\ TalksAtHome'
  BY <1>3 DEF ApiInv, ApiTyped, TalksAtHome
<1>8. TemplateStays'
  BY <1>2, <1>3, <1>4, <1>5 DEF TemplateStays
<1>9. QED
  BY <1>1, <1>2, <1>3, <1>4, <1>6, <1>7, <1>8 DEF ApiInv, ApiTyped

LEMMA EndsTalkInv == ASSUME ApiInv, NEW user \in People, EndsTalk(user) PROVE ApiInv'
<1>1. /\ sessions' = sessions /\ nextId' = nextId /\ objects' = objects /\ saved' = saved /\ Made' = Made
      /\ talks' = [talks EXCEPT ![user] = NoTalk]
  BY DEF EndsTalk, Made
<1>2. NoTalk \in Chats /\ NoTalk.at = "none" /\ NoTalk.session = 0
  BY DEF NoTalk, Chats
<1>3. talks' \in [People -> Chats] /\ TalksAtHome'
  BY <1>1, <1>2 DEF ApiInv, ApiTyped, TalksAtHome
<1>4. QED
  BY <1>1, <1>3 DEF ApiInv, ApiTyped, TemplateStays

LEMMA StartsAgainInv == ASSUME ApiInv, StartsAgain PROVE ApiInv'
<1>1. PICK m \in Nat, n \in Nat : m = nextId /\ n = Made
  BY Numbers DEF ApiInv
<1>2. /\ objects \in Seq(ObjectKinds) /\ m # 0 /\ saved \in Stores(m, n) /\ TemplateStays
  BY <1>1 DEF ApiInv, ApiTyped
<1>3. /\ nextId' = nextId /\ saved' = saved /\ Copies(saved) /\ talks' = [u \in People |-> NoTalk]
      /\ sessions' = [id \in DOMAIN saved |-> [Copied(saved)[id] EXCEPT !.owner = "__default__"]]
  BY DEF StartsAgain
<1>4. PICK c \in Nat : c = Cardinality(Slots(saved))
  BY <1>2, Places
<1>5. /\ objects' \in Seq(ObjectKinds) /\ Made' = n + c
      /\ \A i \in (n + 1)..(n + c) : objects'[i].by = "template"
  BY <1>1, <1>2, <1>3, <1>4, CopiesFacts
<1>6. PICK copy : copy = Copied(saved)
  OBVIOUS
<1>7. /\ copy \in Stores(m, n + c) /\ DOMAIN copy = DOMAIN saved /\ Slots(copy) = Slots(saved)
      /\ \A s \in Slots(saved) : Item(copy, s) = n + Place(s, Slots(saved))
  BY <1>1, <1>2, <1>4, <1>6, CopiedIsStore, CopiedFacts
<1>8. PICK now : now = sessions'
  OBVIOUS
<1>9. \A id \in DOMAIN saved :
        now[id] = [owner |-> "__default__", title |-> copy[id].title, threads |-> copy[id].threads]
  <2> SUFFICES ASSUME NEW id \in DOMAIN saved
               PROVE  now[id] = [owner |-> "__default__", title |-> copy[id].title, threads |-> copy[id].threads]
    OBVIOUS
  <2>1. copy[id] = [owner |-> copy[id].owner, title |-> copy[id].title, threads |-> copy[id].threads]
    <3>1. n + c \in Nat
      OBVIOUS
    <3>2. QED
      BY <1>7, <3>1, StoreFacts
  <2>2. now[id] = [copy[id] EXCEPT !.owner = "__default__"]
    BY <1>3, <1>6, <1>8
  <2>3. QED
    BY <2>1, <2>2
<1>10. \A id \in DOMAIN saved : now[id].owner = "__default__" /\ now[id].threads = copy[id].threads
  <2> SUFFICES ASSUME NEW id \in DOMAIN saved
               PROVE  now[id].owner = "__default__" /\ now[id].threads = copy[id].threads
    OBVIOUS
  <2>1. PICK threads, title : threads = copy[id].threads /\ title = copy[id].title
    OBVIOUS
  <2>2. now[id] = [owner |-> "__default__", title |-> title, threads |-> threads]
    BY <1>9, <2>1
  <2>3. QED
    BY <2>1, <2>2
<1>11. DOMAIN now = DOMAIN saved /\ now = [id \in DOMAIN now |-> now[id]]
  BY <1>3, <1>8
<1>12. now \in Stores(m, n + c)
  <2>1. n + c \in Nat
    OBVIOUS
  <2>2. ASSUME NEW id \in DOMAIN now PROVE now[id] \in SessionsOf(n + c)
    <3>1. copy[id].title \in Titles /\ copy[id].threads \in ThreadsOf(n + c)
      BY <1>7, <1>11, <2>1, <2>2, StoreFacts
    <3>2. QED
      BY <1>9, <1>11, <2>2, <3>1 DEF SessionsOf, Owners
  <2>3. DOMAIN now \subseteq 1..m
    BY <1>2, <1>11, StoreFacts
  <2>4. QED
    BY <1>11, <2>1, <2>2, <2>3, MakesStore
<1>13. Apart(now, objects') /\ Wrote(now, objects')
  <2>1. ASSUME NEW s \in Slots(now)
        PROVE  s \in Slots(saved) /\ Item(now, s) = n + Place(s, Slots(saved)) /\ now[s[1]].owner = "__default__"
    <3>1. /\ s = <<s[1], s[2], s[3]>> /\ s[1] \in DOMAIN saved /\ s[2] \in DOMAIN now[s[1]].threads
          /\ s[3] \in DOMAIN now[s[1]].threads[s[2]]
      BY <1>11, SlotFacts
    <3>2. now[s[1]].threads = copy[s[1]].threads /\ now[s[1]].owner = "__default__"
      BY <1>10, <3>1
    <3>3. s \in Slots(copy)
      BY <1>7, <3>1, <3>2, SlotFacts
    <3>4. Item(now, s) = Item(copy, s)
      BY <3>2 DEF Item
    <3>5. QED
      BY <1>7, <3>2, <3>3, <3>4
  <2>2. ASSUME NEW s \in Slots(now), NEW t \in Slots(now), Item(now, s) = Item(now, t) PROVE s = t
    <3>1. s \in Slots(saved) /\ t \in Slots(saved) /\ n + Place(s, Slots(saved)) = n + Place(t, Slots(saved))
      BY <2>1, <2>2
    <3>2. Place(s, Slots(saved)) \in 1..c /\ Place(t, Slots(saved)) \in 1..c
      BY <1>2, <1>4, <3>1, Places
    <3>3. Place(s, Slots(saved)) = Place(t, Slots(saved))
      BY <3>1, <3>2
    <3>4. QED
      BY <1>2, <3>1, <3>3, Places
  <2>3. "__default__" \notin People
    BY SessionsAssumption
  <2>4. QED
    BY <2>1, <2>2, <2>3 DEF Apart, Wrote
<1>14. talks' \in [People -> Chats] /\ TalksAtHome'
  <2>1. NoTalk \in Chats /\ NoTalk.at = "none" /\ NoTalk.session = 0
    BY DEF NoTalk, Chats
  <2>2. QED
    BY <1>1, <1>3, <2>1 DEF TalksAtHome
<1>15. TemplateStays'
  BY <1>2, <1>3, <1>8, <1>11, <1>10 DEF TemplateStays
<1>16. saved' \in Stores(m, n + c)
  <2>1. n + c \in Nat /\ m <= m /\ n <= n + c
    OBVIOUS
  <2>2. QED
    BY <1>2, <1>3, <2>1, WiderStore
<1>17. QED
  BY <1>1, <1>2, <1>3, <1>5, <1>8, <1>12, <1>13, <1>14, <1>15, <1>16 DEF ApiInv, ApiTyped

\* A message of a turn, or a primer, goes to a thread.
Turned(user, talk) == [talks EXCEPT ![user] = talk]

LEMMA FollowsItsWriter ==
    ASSUME NEW n \in Nat, NEW l \in Nat, NEW session, NEW user \in People, session.owner \in {user, "__default__"},
           NEW objs, \A i \in (n + 1)..l : objs[i].by \in {user, "app"}, NEW a, NEW thread,
           \A i \in DOMAIN thread :
             \/ thread[i] \in (n + 1)..l
             \/ a \in DOMAIN session.threads /\ \E j \in DOMAIN session.threads[a] : thread[i] = session.threads[a][j]
    PROVE  Derives(thread, session, a, n, objs)
<1>1. ASSUME NEW i \in DOMAIN thread, thread[i] \in (n + 1)..l
      PROVE  \/ thread[i] > n /\ objs[thread[i]].by \in {session.owner, "app", "template"}
             \/ session.owner \notin People /\ thread[i] > n
  <2>1. PICK k \in (n + 1)..l : k = thread[i]
    BY <1>1
  <2>2. k > n /\ objs[k].by \in {user, "app"}
    OBVIOUS
  <2>3. session.owner = user \/ session.owner \notin People
    BY SessionsAssumption
  <2>4. QED
    BY <2>1, <2>2, <2>3
<1>2. QED
  BY <1>1 DEF Derives

LEMMA WritesInv ==
    ASSUME ApiInv, NEW l \in Nat, Made <= l,
           NEW user \in People, NEW id \in DOMAIN sessions, sessions[id].owner \in {user, "__default__"},
           NEW a \in ThreadIds, NEW thread \in Seq(1..l), NEW title \in Titles,
           sessions' = Rewritten(sessions, id, a, thread, title),
           objects' \in Seq(ObjectKinds), Made' = l, Extends(objects', objects, Made),
           Derives(thread, sessions[id], a, Made, objects'), Once(thread, objects'),
           nextId' = nextId, saved' = saved,
           NEW talk \in Chats, talk.session = id, talk.agent = a, talks' = Turned(user, talk)
    PROVE  ApiInv'
<1>1. PICK m \in Nat, n \in Nat : m = nextId /\ n = Made /\ m # 0 /\ n <= l
  BY Numbers DEF ApiInv
<1>2. /\ sessions \in Stores(m, n) /\ saved \in Stores(m, n)
      /\ Apart(sessions, objects) /\ Wrote(sessions, objects) /\ TemplateStays
  BY <1>1 DEF ApiInv, ApiTyped
<1>3. PICK of, objs, more, now, threads :
        /\ of = sessions /\ objs = objects /\ more = objects' /\ now = sessions'
        /\ threads = With(of[id].threads, a, thread)
  OBVIOUS
<1>4. now = Rewritten(of, id, a, thread, title)
  BY <1>3
<1>5. /\ of \in Stores(m, n) /\ Apart(of, objs) /\ Wrote(of, objs) /\ id \in DOMAIN of
      /\ Extends(more, objs, n) /\ Derives(thread, of[id], a, n, more) /\ Once(thread, more)
  BY <1>1, <1>2, <1>3
<1>6. now \in Stores(m, l) /\ Apart(now, more) /\ Wrote(now, more)
  BY <1>1, <1>4, <1>5, RewrittenStore
<1>7. saved' \in Stores(m, l)
  <2>1. m <= m
    BY <1>1
  <2>2. QED
    BY <1>1, <1>2, <2>1, WiderStore
<1>8. /\ DOMAIN sessions' = DOMAIN sessions /\ sessions'[id].owner = sessions[id].owner
      /\ DOMAIN sessions'[id].threads = DOMAIN sessions[id].threads \cup {a}
      /\ \A j \in DOMAIN sessions : j # id => sessions'[j] = sessions[j]
  <2>1. now[id] = [owner |-> of[id].owner, title |-> title, threads |-> threads]
    BY <1>3, <1>4 DEF Rewritten
  <2>2. DOMAIN threads = DOMAIN of[id].threads \cup {a}
    BY <1>3 DEF With
  <2>3. QED
    BY <1>3, <1>4, <2>1, <2>2 DEF Rewritten
<1>9. talks' \in [People -> Chats] /\ TalksAtHome'
  <2>1. talks \in [People -> Chats] /\ TalksAtHome
    BY DEF ApiInv, ApiTyped
  <2>2. talks' \in [People -> Chats] /\ talks'[user] = talk /\ \A u \in People : u # user => talks'[u] = talks[u]
    BY <2>1 DEF Turned
  <2>3. id <= nextId'
    <3>1. id \in 1..m
      BY <1>1, <1>2, StoreFacts
    <3>2. QED
      BY <1>1, <3>1
  <2>4. ASSUME NEW u \in People
        PROVE  /\ talks'[u].session <= nextId'
               /\ talks'[u].at # "none" /\ talks'[u].session \in DOMAIN sessions' =>
                    /\ sessions'[talks'[u].session].owner \in {u, "__default__"}
                    /\ talks'[u].agent \in DOMAIN sessions'[talks'[u].session].threads
    <3>1. CASE u = user
      BY <1>8, <2>2, <2>3, <3>1
    <3>2. CASE u # user
      <4>1. PICK k, b : k = talks[u].session /\ b = talks[u].agent /\ talks'[u] = talks[u]
        BY <2>2, <3>2
      <4>2. /\ k <= nextId
            /\ talks[u].at # "none" /\ k \in DOMAIN sessions =>
                 sessions[k].owner \in {u, "__default__"} /\ b \in DOMAIN sessions[k].threads
        BY <2>1, <4>1 DEF TalksAtHome
      <4>3. k \in DOMAIN sessions => /\ sessions'[k].owner = sessions[k].owner
                                     /\ DOMAIN sessions[k].threads \subseteq DOMAIN sessions'[k].threads
        BY <1>8
      <4>4. QED
        BY <1>8, <4>1, <4>2, <4>3
    <3>3. QED
      BY <3>1, <3>2
  <2>5. QED
    BY <2>2, <2>4 DEF TalksAtHome
<1>10. TemplateStays'
  BY <1>2, <1>8 DEF TemplateStays
<1>11. QED
  BY <1>1, <1>3, <1>6, <1>7, <1>9, <1>10 DEF ApiInv, ApiTyped

\* A thread with one more message, one with a primer put before it and behind it too, a new one.
LEMMA Continued ==
    ASSUME NEW n \in Nat, NEW old \in Seq(1..n), NEW thread, thread = Append(old, n + 1)
    PROVE  /\ thread \in Seq(1..(n + 1))
           /\ \A i \in DOMAIN thread : \/ i \in DOMAIN old /\ thread[i] = old[i]
                                       \/ i = Len(old) + 1 /\ thread[i] = n + 1
<1>1. old \in Seq(1..(n + 1)) /\ n + 1 \in 1..(n + 1)
  <2>1. 1..n \subseteq 1..(n + 1)
    OBVIOUS
  <2>2. QED
    BY <2>1, WiderSeq
<1>2. PICK k \in Nat : k = Len(old) /\ DOMAIN old = 1..k
  BY LenProperties
<1>3. /\ thread \in Seq(1..(n + 1)) /\ Len(thread) = k + 1
      /\ \A i \in 1..k : thread[i] = old[i]
      /\ thread[k + 1] = n + 1
  BY <1>1, <1>2, AppendProperties
<1>4. DOMAIN thread = 1..(k + 1)
  BY <1>3, LenProperties
<1>5. \A i \in 1..(k + 1) : i \in 1..k \/ i = k + 1
  OBVIOUS
<1>6. QED
  BY <1>2, <1>3, <1>4, <1>5

LEMMA Prompted ==
    ASSUME NEW n \in Nat, NEW old \in Seq(1..n), NEW thread,
           thread = Append(Append(<<n + 1>> \o old, n + 1), n + 2)
    PROVE  /\ thread \in Seq(1..(n + 2)) /\ Len(<<n + 1>> \o old) = Len(old) + 1
           /\ \A i \in DOMAIN thread : \/ i - 1 \in DOMAIN old /\ thread[i] = old[i - 1]
                                       \/ thread[i] = n + 1
                                       \/ i = Len(old) + 3 /\ thread[i] = n + 2
<1>1. PICK k \in Nat : k = Len(old) /\ DOMAIN old = 1..k
  BY LenProperties
<1>2. old \in Seq(1..(n + 2)) /\ n + 1 \in 1..(n + 2) /\ n + 2 \in 1..(n + 2)
  <2>1. 1..n \subseteq 1..(n + 2)
    OBVIOUS
  <2>2. QED
    BY <2>1, WiderSeq
<1>3. PICK head \in Seq(1..(n + 2)) : head = <<n + 1>> /\ Len(head) = 1 /\ head[1] = n + 1
  <2>1. PICK e \in 1..(n + 2) : e = n + 1
    BY <1>2
  <2>2. <<e>> \in Seq(1..(n + 2)) /\ Len(<<e>>) = 1 /\ <<e>>[1] = e
    OBVIOUS
  <2>3. QED
    BY <2>1, <2>2
<1>4. PICK x : x = head \o old
  OBVIOUS
<1>5. /\ x \in Seq(1..(n + 2)) /\ Len(x) = k + 1
      /\ \A i \in 1..(k + 1) : x[i] = IF i <= 1 THEN head[i] ELSE old[i - 1]
  <2>1. /\ x \in Seq(1..(n + 2)) /\ Len(x) = Len(head) + Len(old)
        /\ \A i \in 1..(Len(head) + Len(old)) : x[i] = IF i <= Len(head) THEN head[i] ELSE old[i - Len(head)]
    BY <1>2, <1>4, ConcatProperties
  <2>2. Len(head) + Len(old) = k + 1 /\ Len(head) = 1
    BY <1>1, <1>3
  <2>3. QED
    BY <2>1, <2>2
<1>6. PICK y : y = Append(x, n + 1)
  OBVIOUS
<1>7. /\ y \in Seq(1..(n + 2)) /\ Len(y) = k + 2 /\ \A i \in 1..(k + 1) : y[i] = x[i]
      /\ y[k + 2] = n + 1
  <2>1. /\ y \in Seq(1..(n + 2)) /\ Len(y) = Len(x) + 1 /\ \A i \in 1..Len(x) : y[i] = x[i]
        /\ y[Len(x) + 1] = n + 1
    BY <1>2, <1>5, <1>6, AppendProperties
  <2>2. QED
    BY <1>5, <2>1
<1>8. thread = Append(y, n + 2)
  BY <1>3, <1>4, <1>6
<1>9. /\ thread \in Seq(1..(n + 2)) /\ Len(thread) = k + 3 /\ \A i \in 1..(k + 2) : thread[i] = y[i]
      /\ thread[k + 3] = n + 2
  <2>1. PICK q \in 1..(n + 2) : q = n + 2
    BY <1>2
  <2>2. thread = Append(y, q)
    BY <1>8, <2>1
  <2>3. /\ thread \in Seq(1..(n + 2)) /\ Len(thread) = Len(y) + 1 /\ \A i \in 1..Len(y) : thread[i] = y[i]
        /\ thread[Len(y) + 1] = q
    <3>1. PICK S : S = 1..(n + 2)
      OBVIOUS
    <3>2. y \in Seq(S) /\ q \in S
      BY <1>7, <3>1
    <3>3. /\ Append(y, q) \in Seq(S) /\ Len(Append(y, q)) = Len(y) + 1
          /\ \A i \in 1..Len(y) : Append(y, q)[i] = y[i]
          /\ Append(y, q)[Len(y) + 1] = q
      BY <3>2, AppendProperties
    <3>4. QED
      BY <2>2, <3>1, <3>3
  <2>4. Len(y) = k + 2 /\ (k + 2) + 1 = k + 3
    BY <1>7
  <2>5. Len(thread) = k + 3 /\ (\A i \in 1..(k + 2) : thread[i] = y[i]) /\ thread[k + 3] = q
    BY <2>3, <2>4
  <2>6. QED
    BY <2>1, <2>3, <2>5
<1>10. ASSUME NEW i \in DOMAIN thread
       PROVE  \/ i - 1 \in DOMAIN old /\ thread[i] = old[i - 1]
              \/ thread[i] = n + 1
              \/ i = k + 3 /\ thread[i] = n + 2
  <2>1. i \in 1..(k + 3)
    BY <1>9, LenProperties
  <2>2. i = 1 \/ i \in 2..(k + 1) \/ i = k + 2 \/ i = k + 3
    <3>1. PICK j \in 1..(k + 3) : j = i
      BY <2>1
    <3>2. j = 1 \/ j \in 2..(k + 1) \/ j = k + 2 \/ j = k + 3
      OBVIOUS
    <3>3. QED
      BY <3>1, <3>2
  <2>3. CASE i = 1
    <3>1. 1 \in 1..(k + 1) /\ 1 \in 1..(k + 2) /\ 1 <= 1
      OBVIOUS
    <3>2. thread[1] = y[1] /\ y[1] = x[1] /\ x[1] = head[1]
      BY <1>5, <1>7, <1>9, <3>1
    <3>3. QED
      BY <1>3, <2>3, <3>2
  <2>4. CASE i \in 2..(k + 1)
    <3>1. i \in 1..(k + 1) /\ i \in 1..(k + 2) /\ ~(i <= 1) /\ i - 1 \in 1..k
      BY <2>4
    <3>2. thread[i] = y[i] /\ y[i] = x[i] /\ x[i] = old[i - 1]
      BY <1>5, <1>7, <1>9, <3>1
    <3>3. QED
      BY <1>1, <3>1, <3>2
  <2>5. CASE i = k + 2
    <3>1. k + 2 \in 1..(k + 2)
      OBVIOUS
    <3>2. QED
      BY <1>7, <1>9, <2>5, <3>1
  <2>6. QED
    BY <1>9, <2>2, <2>3, <2>4, <2>5
<1>11. QED
  BY <1>1, <1>3, <1>4, <1>5, <1>9, <1>10

LEMMA OldOnce ==
    ASSUME NEW m \in Nat, NEW n \in Nat, NEW of \in Stores(m, n), NEW objs, NEW more, Apart(of, objs),
           Extends(more, objs, n), NEW id \in DOMAIN of, NEW a \in DOMAIN of[id].threads
    PROVE  /\ of[id].threads[a] \in Seq(1..n) /\ \A i \in DOMAIN of[id].threads[a] : of[id].threads[a][i] \in 1..n
           /\ Once(of[id].threads[a], more)
<1>1. PICK old : old = of[id].threads[a]
  OBVIOUS
<1>2. old \in Seq(1..n) /\ \A i \in DOMAIN old : old[i] \in 1..n
  <2>1. PICK threads \in ThreadsOf(n) : threads = of[id].threads
    BY StoreFacts
  <2>2. QED
    BY <1>1, <2>1, ThreadFacts
<1>3. ASSUME NEW i \in DOMAIN old, NEW j \in DOMAIN old, old[i] = old[j]
      PROVE  i = j \/ more[old[i]].role = "system"
  <2>1. PICK s, t : s = <<id, a, i>> /\ t = <<id, a, j>>
    OBVIOUS
  <2>2. s \in Slots(of) /\ t \in Slots(of) /\ Item(of, s) = old[i] /\ Item(of, t) = old[j]
    BY <1>1, <1>3, <2>1, SlotFacts DEF Item
  <2>3. s = t \/ objs[old[i]].role = "system"
    BY <1>3, <2>2 DEF Apart
  <2>4. more[old[i]] = objs[old[i]]
    BY <1>2, <1>3 DEF Extends
  <2>5. QED
    BY <2>1, <2>3, <2>4
<1>4. QED
  BY <1>1, <1>2, <1>3 DEF Once

LEMMA OnceContinued ==
    ASSUME NEW n \in Nat, NEW old \in Seq(1..n), \A i \in DOMAIN old : old[i] \in 1..n, NEW more, Once(old, more),
           NEW thread, thread = Append(old, n + 1)
    PROVE  Once(thread, more)
<1> SUFFICES ASSUME NEW i \in DOMAIN thread, NEW j \in DOMAIN thread, thread[i] = thread[j]
             PROVE  i = j \/ more[thread[i]].role = "system"
  BY DEF Once
<1>1. \A k \in DOMAIN thread : \/ k \in DOMAIN old /\ thread[k] = old[k]
                               \/ k = Len(old) + 1 /\ thread[k] = n + 1
  BY Continued
<1>2. n + 1 \notin 1..n
  OBVIOUS
<1>3. QED
  BY <1>1, <1>2 DEF Once

LEMMA OncePrompted ==
    ASSUME NEW n \in Nat, NEW old \in Seq(1..n), \A i \in DOMAIN old : old[i] \in 1..n, NEW more, Once(old, more),
           more[n + 1].role = "system", NEW thread, thread = Append(Append(<<n + 1>> \o old, n + 1), n + 2)
    PROVE  Once(thread, more)
<1> SUFFICES ASSUME NEW i \in DOMAIN thread, NEW j \in DOMAIN thread, thread[i] = thread[j]
             PROVE  i = j \/ more[thread[i]].role = "system"
  BY DEF Once
<1>1. \A k \in DOMAIN thread : \/ k - 1 \in DOMAIN old /\ thread[k] = old[k - 1]
                               \/ thread[k] = n + 1
                               \/ k = Len(old) + 3 /\ thread[k] = n + 2
  BY Prompted
<1>2. n + 1 \notin 1..n /\ n + 2 \notin 1..n /\ n + 1 # n + 2
  OBVIOUS
<1>3. i \in Int /\ j \in Int
  BY Prompted, LenProperties
<1>4. CASE thread[i] = n + 1
  BY <1>4
<1>5. CASE thread[i] = n + 2
  BY <1>1, <1>2, <1>5
<1>6. CASE i - 1 \in DOMAIN old /\ thread[i] = old[i - 1] /\ thread[i] \in 1..n
  <2>1. j - 1 \in DOMAIN old /\ thread[j] = old[j - 1]
    BY <1>1, <1>2, <1>6
  <2>2. i - 1 = j - 1 \/ more[old[i - 1]].role = "system"
    BY <1>6, <2>1 DEF Once
  <2>3. QED
    BY <1>3, <1>6, <2>2
<1>7. QED
  BY <1>1, <1>4, <1>5, <1>6

LEMMA ObjectAppended ==
    ASSUME NEW objs \in Seq(ObjectKinds), NEW object \in ObjectKinds
    PROVE  /\ Append(objs, object) \in Seq(ObjectKinds) /\ Len(Append(objs, object)) = Len(objs) + 1
           /\ Extends(Append(objs, object), objs, Len(objs)) /\ Append(objs, object)[Len(objs) + 1] = object
BY AppendProperties DEF Extends

LEMMA AppendIsWith ==
    ASSUME NEW threads, threads = [b \in DOMAIN threads |-> threads[b]], NEW a \in DOMAIN threads, NEW message
    PROVE  append_message(threads, a, message) = With(threads, a, Append(threads[a], message))
BY DEF append_message, With

LEMMA RenewedSession ==
    ASSUME NEW r, r = [owner |-> r.owner, title |-> r.title, threads |-> r.threads], NEW threads, NEW title
    PROVE  /\ [r EXCEPT !.threads = threads] = [owner |-> r.owner, title |-> r.title, threads |-> threads]
           /\ [[r EXCEPT !.threads = threads] EXCEPT !.title = title] =
                [owner |-> r.owner, title |-> title, threads |-> threads]
<1>1. PICK o, t, h : o = r.owner /\ t = r.title /\ h = r.threads
  OBVIOUS
<1>2. r = [owner |-> o, title |-> t, threads |-> h]
  BY <1>1
<1>3. PICK q : q = [r EXCEPT !.threads = threads]
  OBVIOUS
<1>4. q = [owner |-> o, title |-> t, threads |-> threads]
  BY <1>2, <1>3
<1>5. [q EXCEPT !.title = title] = [owner |-> o, title |-> title, threads |-> threads]
  BY <1>4
<1>6. QED
  BY <1>1, <1>3, <1>4, <1>5

LEMMA RewrittenIsExcept ==
    ASSUME NEW m \in Nat, NEW n \in Nat, NEW of \in Stores(m, n), NEW id \in DOMAIN of, NEW a, NEW thread,
           NEW threads, threads = With(of[id].threads, a, thread)
    PROVE  [of EXCEPT ![id].threads = threads] = Rewritten(of, id, a, thread, of[id].title)
<1>1. PICK r : r = of[id] /\ r = [owner |-> r.owner, title |-> r.title, threads |-> r.threads]
  BY StoreFacts
<1>2. [r EXCEPT !.threads = threads] = [owner |-> r.owner, title |-> r.title, threads |-> threads]
  BY <1>1, RenewedSession
<1>3. QED
  BY <1>1, <1>2 DEF Rewritten

LEMMA TalkOver ==
    ASSUME ApiInv, NEW user \in People, talks' = [talks EXCEPT ![user] = NoTalk],
           UNCHANGED <<sessions, nextId, objects, saved>>
    PROVE  ApiInv'
<1>1. Made' = Made
  BY DEF Made
<1>2. NoTalk \in Chats /\ NoTalk.at = "none" /\ NoTalk.session = 0
  BY DEF NoTalk, Chats
<1>3. talks' \in [People -> Chats] /\ TalksAtHome'
  BY <1>2 DEF ApiInv, ApiTyped, TalksAtHome
<1>4. QED
  BY <1>1, <1>3 DEF ApiInv, ApiTyped, TemplateStays

LEMMA BeginsInv == ASSUME ApiInv, NEW user \in People, BeginsResponse(user) PROVE ApiInv'
<1>1. PICK m \in Nat, n \in Nat : m = nextId /\ n = Made
  BY Numbers DEF ApiInv
<1>2. PICK id, a : id = talks[user].session /\ a = talks[user].agent
  OBVIOUS
<1>3. CASE id \notin DOMAIN sessions
  BY <1>2, <1>3, TalkOver DEF BeginsResponse
<1>4. CASE id \in DOMAIN sessions
  <2>1. /\ objects \in Seq(ObjectKinds) /\ m # 0 /\ sessions \in Stores(m, n) /\ Apart(sessions, objects)
        /\ talks \in [People -> Chats] /\ TalksAtHome
    BY <1>1 DEF ApiInv, ApiTyped
  <2>2. /\ talks[user].at = "started" /\ objects' = Append(objects, [by |-> user, role |-> "assistant"])
        /\ sessions' = [sessions EXCEPT ![id].threads = append_message(@, a, n + 1)]
        /\ talks' = [talks EXCEPT ![user].at = "responding", ![user].message = n + 1]
        /\ nextId' = nextId /\ saved' = saved
    BY <1>1, <1>2, <1>4 DEF BeginsResponse, Written
  <2>3. sessions[id].owner \in {user, "__default__"} /\ a \in DOMAIN sessions[id].threads
    BY <1>2, <1>4, <2>1, <2>2 DEF TalksAtHome
  <2>4. PICK talk : talk = [at |-> "responding", session |-> id, agent |-> a, message |-> n + 1]
    OBVIOUS
  <2>5. talk \in Chats /\ talk.session = id /\ talk.agent = a /\ talks' = [talks EXCEPT ![user] = talk]
    <3>1. PICK r \in Chats : r = talks[user] /\ r.session = id /\ r.agent = a
      BY <1>2, <2>1
    <3>2. [[r EXCEPT !.at = "responding"] EXCEPT !.message = n + 1] = talk
      <4>1. PICK o : o = r.message
        OBVIOUS
      <4>2. r = [at |-> "started", session |-> id, agent |-> a, message |-> o]
        BY <2>2, <3>1, <4>1 DEF Chats
      <4>3. PICK q : q = [r EXCEPT !.at = "responding"]
        OBVIOUS
      <4>4. q = [at |-> "responding", session |-> id, agent |-> a, message |-> o]
        BY <4>2, <4>3
      <4>5. [q EXCEPT !.message = n + 1] = talk
        BY <2>4, <4>4
      <4>6. QED
        BY <4>3, <4>5
    <3>3. talks' = [talks EXCEPT ![user] = talk]
      BY <2>1, <2>2, <3>1, <3>2
    <3>4. talk \in Chats
      BY <2>4, <3>1 DEF Chats
    <3>5. QED
      BY <2>4, <3>3, <3>4
  <2>6. PICK object : object = [by |-> user, role |-> "assistant"]
    OBVIOUS
  <2>7. /\ object \in ObjectKinds /\ objects' = Append(objects, object) /\ object.by = user
    BY <2>2, <2>6 DEF ObjectKinds
  <2>8. PICK more : more = objects'
    OBVIOUS
  <2>9. /\ more \in Seq(ObjectKinds) /\ Len(more) = n + 1 /\ Extends(more, objects, n) /\ more[n + 1] = object
    BY <1>1, <2>1, <2>7, <2>8, ObjectAppended DEF Made
  <2>10. PICK old : old = sessions[id].threads[a]
    OBVIOUS
  <2>11. old \in Seq(1..n) /\ (\A i \in DOMAIN old : old[i] \in 1..n) /\ Once(old, more)
    BY <1>4, <2>1, <2>3, <2>9, <2>10, OldOnce
  <2>12. PICK thread : thread = Append(old, n + 1)
    OBVIOUS
  <2>13. /\ thread \in Seq(1..(n + 1)) /\ Once(thread, more)
         /\ \A i \in DOMAIN thread : (i \in DOMAIN old /\ thread[i] = old[i]) \/ thread[i] = n + 1
    <3>1. Once(thread, more)
      BY <2>11, <2>12, OnceContinued
    <3>2. /\ thread \in Seq(1..(n + 1))
          /\ \A i \in DOMAIN thread : \/ i \in DOMAIN old /\ thread[i] = old[i]
                                      \/ i = Len(old) + 1 /\ thread[i] = n + 1
      BY <2>11, <2>12, Continued
    <3>3. QED
      BY <3>1, <3>2
  <2>14. PICK l \in Nat : l = n + 1
    OBVIOUS
  <2>15. Derives(thread, sessions[id], a, n, more)
    <3>1. \A i \in (n + 1)..l : more[i].by \in {user, "app"}
      BY <2>7, <2>9, <2>14
    <3>2. n + 1 \in (n + 1)..l
      BY <2>14
    <3>3. \A i \in DOMAIN thread :
            \/ thread[i] \in (n + 1)..l
            \/ a \in DOMAIN sessions[id].threads
               /\ \E j \in DOMAIN sessions[id].threads[a] : thread[i] = sessions[id].threads[a][j]
      BY <2>3, <2>10, <2>13, <3>2
    <3>4. QED
      BY <2>3, <3>1, <3>3, FollowsItsWriter
  <2>16. a \in ThreadIds /\ sessions[id].threads = [b \in DOMAIN sessions[id].threads |-> sessions[id].threads[b]]
    <3>1. PICK threads \in ThreadsOf(n) : threads = sessions[id].threads
      BY <1>4, <2>1, StoreFacts
    <3>2. QED
      BY <2>3, <3>1, ThreadFacts
  <2>17. sessions' = Rewritten(sessions, id, a, thread, sessions[id].title)
    <3>1. append_message(sessions[id].threads, a, n + 1) = With(sessions[id].threads, a, thread)
      BY <2>3, <2>10, <2>12, <2>16, AppendIsWith
    <3>2. PICK threads : threads = With(sessions[id].threads, a, thread)
      OBVIOUS
    <3>3. sessions' = [sessions EXCEPT ![id].threads = threads]
      BY <2>2, <3>1, <3>2
    <3>4. [sessions EXCEPT ![id].threads = threads] = Rewritten(sessions, id, a, thread, sessions[id].title)
      BY <1>4, <2>1, <3>2, RewrittenIsExcept
    <3>5. QED
      BY <3>3, <3>4
  <2>18. PICK title \in Titles : title = sessions[id].title
    BY <1>4, <2>1, StoreFacts
  <2>19. Made' = l /\ objects' \in Seq(ObjectKinds) /\ n <= l
    BY <2>8, <2>9, <2>14 DEF Made
  <2>20. /\ thread \in Seq(1..l) /\ Once(thread, objects') /\ Derives(thread, sessions[id], a, Made, objects')
         /\ Extends(objects', objects, Made) /\ Made <= l /\ sessions' = Rewritten(sessions, id, a, thread, title)
    BY <1>1, <2>8, <2>9, <2>13, <2>14, <2>15, <2>17, <2>18
  <2>21. talks' = Turned(user, talk) /\ talk \in Chats /\ talk.session = id /\ talk.agent = a
    BY <2>5 DEF Turned
  <2>22. /\ l \in Nat /\ Made <= l /\ user \in People /\ id \in DOMAIN sessions
         /\ sessions[id].owner \in {user, "__default__"} /\ a \in ThreadIds /\ thread \in Seq(1..l) /\ title \in Titles
         /\ sessions' = Rewritten(sessions, id, a, thread, title)
         /\ objects' \in Seq(ObjectKinds) /\ Made' = l /\ Extends(objects', objects, Made)
         /\ Derives(thread, sessions[id], a, Made, objects') /\ Once(thread, objects')
         /\ nextId' = nextId /\ saved' = saved
         /\ talk \in Chats /\ talk.session = id /\ talk.agent = a /\ talks' = Turned(user, talk)
    BY <1>4, <2>2, <2>3, <2>16, <2>19, <2>20, <2>21
  <2>23. QED
    BY <2>22, WritesInv
<1>5. QED
  BY <1>3, <1>4

Primers(threads, a) == IF Ensured(threads, a, Made + 1) = threads THEN objects ELSE Written("app", "system")
Asked(threads, a, user) == Append(Primers(threads, a), [by |-> user, role |-> "user"])
Grown(threads, a) == append_message(Ensured(threads, a, Made + 1), a, Len(Primers(threads, a)) + 1)

\* The thread a turn begins with: the one there is, one with a primer more, or a new one.
LEMMA EnsuredThread ==
    ASSUME NEW m \in Nat, NEW n \in Nat, n = Made, objects \in Seq(ObjectKinds),
           NEW of \in Stores(m, n), Apart(of, objects), NEW id \in DOMAIN of, NEW a \in ThreadIds,
           NEW user \in People, of[id].owner \in {user, "__default__"},
           NEW more, more = Asked(of[id].threads, a, user)
    PROVE  \E l \in Nat : \E thread \in Seq(1..l) :
             /\ n <= l /\ more \in Seq(ObjectKinds) /\ Len(more) = l /\ Extends(more, objects, n)
             /\ Grown(of[id].threads, a) = With(of[id].threads, a, thread)
             /\ Derives(thread, of[id], a, n, more) /\ Once(thread, more)
<1>1. PICK threads, prompts : threads = Ensured(of[id].threads, a, n + 1) /\ prompts = Primers(of[id].threads, a)
  OBVIOUS
<1>2. PICK old \in ThreadsOf(n) : old = of[id].threads
  BY StoreFacts
<1>3. PICK mine, primer : mine = [by |-> user, role |-> "user"] /\ primer = [by |-> "app", role |-> "system"]
  OBVIOUS
<1>4. mine \in ObjectKinds /\ primer \in ObjectKinds /\ mine.by = user /\ primer.by = "app" /\ primer.role = "system"
  BY <1>3 DEF ObjectKinds
<1>5. /\ Len(objects) = n /\ more = Append(prompts, mine)
      /\ prompts = IF threads = of[id].threads THEN objects ELSE Written("app", "system")
      /\ Grown(of[id].threads, a) = append_message(threads, a, Len(prompts) + 1)
  BY <1>1, <1>3 DEF Made, Asked, Primers, Grown
<1>6. old = [b \in DOMAIN old |-> old[b]]
  BY ThreadFacts
<1>7. CASE threads = old
  <2>1. a \in DOMAIN old
    <3>1. CASE a \notin DOMAIN old
      <4>1. threads = With(old, a, <<n + 1>>)
        BY <1>1, <1>2, <3>1 DEF Ensured, create_thread
      <4>2. a \in DOMAIN threads
        BY <4>1 DEF With
      <4>3. QED
        BY <1>7, <3>1, <4>2
    <3>2. QED
      BY <3>1
  <2>2. prompts = objects /\ more = Append(objects, mine)
    BY <1>2, <1>5, <1>7
  <2>3. more \in Seq(ObjectKinds) /\ Len(more) = n + 1 /\ Extends(more, objects, n) /\ more[n + 1] = mine
    BY <1>4, <1>5, <2>2, ObjectAppended
  <2>4. PICK row : row = old[a]
    OBVIOUS
  <2>5. row \in Seq(1..n) /\ (\A i \in DOMAIN row : row[i] \in 1..n) /\ Once(row, more)
    BY <1>2, <2>1, <2>3, <2>4, OldOnce
  <2>6. PICK l \in Nat : l = n + 1
    OBVIOUS
  <2>7. PICK thread : thread = Append(row, n + 1)
    OBVIOUS
  <2>8. /\ thread \in Seq(1..l)
        /\ \A i \in DOMAIN thread : \/ i \in DOMAIN row /\ thread[i] = row[i]
                                    \/ i = Len(row) + 1 /\ thread[i] = n + 1
    BY <2>5, <2>6, <2>7, Continued
  <2>9. Once(thread, more)
    BY <2>5, <2>7, OnceContinued
  <2>10. Grown(of[id].threads, a) = With(of[id].threads, a, thread)
    <3>1. append_message(old, a, n + 1) = With(old, a, thread)
      BY <1>6, <2>1, <2>4, <2>7, AppendIsWith
    <3>2. QED
      BY <1>2, <1>5, <1>7, <2>2, <3>1
  <2>11. Derives(thread, of[id], a, n, more)
    <3>1. \A i \in (n + 1)..l : more[i].by \in {user, "app"}
      BY <1>4, <2>3, <2>6
    <3>2. n + 1 \in (n + 1)..l
      BY <2>6
    <3>3. \A i \in DOMAIN thread :
            \/ thread[i] \in (n + 1)..l
            \/ a \in DOMAIN of[id].threads /\ \E j \in DOMAIN of[id].threads[a] : thread[i] = of[id].threads[a][j]
      BY <1>2, <2>1, <2>4, <2>8, <3>2
    <3>4. QED
      BY <3>1, <3>3, FollowsItsWriter
  <2>12. n <= l /\ Len(more) = l
    BY <2>3, <2>6
  <2>13. QED
    BY <2>3, <2>8, <2>9, <2>10, <2>11, <2>12
<1>8. CASE threads # old
  <2>1. prompts = Append(objects, primer)
    BY <1>2, <1>3, <1>5, <1>8 DEF Written
  <2>2. prompts \in Seq(ObjectKinds) /\ Len(prompts) = n + 1 /\ Extends(prompts, objects, n) /\ prompts[n + 1] = primer
    BY <1>4, <1>5, <2>1, ObjectAppended
  <2>3. PICK k : k = n + 1
    OBVIOUS
  <2>4. more \in Seq(ObjectKinds) /\ Len(more) = k + 1 /\ Extends(more, prompts, k) /\ more[k + 1] = mine
    BY <1>4, <1>5, <2>2, <2>3, ObjectAppended
  <2>5. PICK l \in Nat : l = n + 2
    OBVIOUS
  <2>6. /\ Len(more) = l /\ n <= l /\ Extends(more, objects, n) /\ more[n + 1] = primer /\ more[n + 2] = mine
    <3>1. k + 1 = n + 2 /\ \A i \in 1..n : i \in 1..k
      BY <2>3
    <3>2. n + 1 \in 1..k
      BY <2>3
    <3>3. QED
      BY <2>2, <2>3, <2>4, <2>5, <3>1, <3>2 DEF Extends
  <2>7. \A i \in (n + 1)..l : more[i].by \in {user, "app"}
    <3>1. \A i \in (n + 1)..l : i = n + 1 \/ i = n + 2
      BY <2>5
    <3>2. QED
      BY <1>4, <2>6, <3>1
  <2>8. n + 1 \in (n + 1)..l /\ n + 2 \in (n + 1)..l
    BY <2>5
  <2>9. Len(prompts) + 1 = n + 2 /\ Grown(of[id].threads, a) = append_message(threads, a, n + 2)
    BY <1>5, <2>2
  <2>10. CASE a \notin DOMAIN old
    <3>1. threads = With(old, a, <<n + 1>>)
      BY <1>1, <1>2, <2>10 DEF Ensured, create_thread
    <3>2. PICK thread : thread = Append(<<n + 1>>, n + 2)
      OBVIOUS
    <3>3. thread \in Seq(1..l) /\ DOMAIN thread = {1, 2} /\ thread[1] = n + 1 /\ thread[2] = n + 2
      <4>1. PICK x \in 1..l, y \in 1..l : x = n + 1 /\ y = n + 2
        BY <2>5
      <4>2. <<x>> \in Seq(1..l) /\ Len(<<x>>) = 1 /\ <<x>>[1] = x
        OBVIOUS
      <4>3. PICK head \in Seq(1..l) : head = <<x>> /\ Len(head) = 1 /\ head[1] = x
        BY <4>2
      <4>4. /\ Append(head, y) \in Seq(1..l) /\ Len(Append(head, y)) = Len(head) + 1
            /\ \A i \in 1..Len(head) : Append(head, y)[i] = head[i]
            /\ Append(head, y)[Len(head) + 1] = y
        BY AppendProperties
      <4>5. thread = Append(head, y)
        BY <3>2, <4>1, <4>3
      <4>6. thread \in Seq(1..l) /\ Len(thread) = 2 /\ thread[1] = x /\ thread[2] = y
        BY <4>3, <4>4, <4>5
      <4>7. DOMAIN thread = {1, 2}
        BY <4>6, LenProperties
      <4>8. QED
        BY <4>1, <4>6, <4>7
    <3>4. append_message(threads, a, n + 2) = With(old, a, thread)
      <4>1. threads[a] = <<n + 1>> /\ a \in DOMAIN threads
        BY <3>1 DEF With
      <4>2. Append(<<n + 1>>, n + 2) = thread
        BY <3>2
      <4>3. append_message(threads, a, n + 2) = [threads EXCEPT ![a] = thread]
        BY <4>1, <4>2 DEF append_message
      <4>4. QED
        BY <3>1, <4>3 DEF With
    <3>5. Once(thread, more)
      BY <3>3 DEF Once
    <3>6. Derives(thread, of[id], a, n, more)
      <4>1. \A i \in DOMAIN thread : thread[i] \in (n + 1)..l
        BY <2>8, <3>3
      <4>2. QED
        BY <2>7, <4>1, FollowsItsWriter
    <3>7. QED
      BY <1>2, <2>4, <2>6, <2>9, <3>3, <3>4, <3>5, <3>6
  <2>11. CASE a \in DOMAIN old
    <3>1. PICK row : row = old[a]
      OBVIOUS
    <3>2. row \in Seq(1..n) /\ (\A i \in DOMAIN row : row[i] \in 1..n) /\ Once(row, more)
      BY <1>2, <2>6, <2>11, <3>1, OldOnce
    <3>3. threads = append_message([old EXCEPT ![a] = <<n + 1>> \o @], a, n + 1)
      BY <1>1, <1>2, <1>8, <2>11 DEF Ensured
    <3>4. PICK head : head = <<n + 1>> \o row
      OBVIOUS
    <3>5. threads = With(old, a, Append(head, n + 1))
      BY <1>6, <2>11, <3>1, <3>3, <3>4 DEF append_message, With
    <3>6. PICK thread : thread = Append(Append(head, n + 1), n + 2)
      OBVIOUS
    <3>7. append_message(threads, a, n + 2) = With(old, a, thread)
      BY <3>5, <3>6 DEF append_message, With
    <3>8. thread = Append(Append(<<n + 1>> \o row, n + 1), n + 2)
      BY <3>4, <3>6
    <3>9. /\ thread \in Seq(1..(n + 2))
          /\ \A i \in DOMAIN thread : \/ i - 1 \in DOMAIN row /\ thread[i] = row[i - 1]
                                      \/ thread[i] = n + 1
                                      \/ i = Len(row) + 3 /\ thread[i] = n + 2
      BY <3>2, <3>8, Prompted
    <3>10. Once(thread, more)
      BY <1>4, <2>6, <3>2, <3>8, OncePrompted
    <3>11. Derives(thread, of[id], a, n, more)
      <4>1. \A i \in DOMAIN thread :
              \/ thread[i] \in (n + 1)..l
              \/ a \in DOMAIN of[id].threads /\ \E j \in DOMAIN of[id].threads[a] : thread[i] = of[id].threads[a][j]
        BY <1>2, <2>8, <2>11, <3>1, <3>9
      <4>2. QED
        BY <2>7, <4>1, FollowsItsWriter
    <3>12. QED
      BY <1>2, <2>4, <2>5, <2>6, <2>9, <3>7, <3>9, <3>10, <3>11
  <2>12. QED
    BY <2>10, <2>11
<1>9. QED
  BY <1>7, <1>8

LEMMA StartsTalkInv ==
    ASSUME ApiInv, NEW user \in People, NEW id \in DOMAIN sessions, NEW a \in AgentIds, StartsTalk(user, id, a)
    PROVE  ApiInv'
<1>1. PICK m \in Nat, n \in Nat : m = nextId /\ n = Made
  BY Numbers DEF ApiInv
<1>2. objects \in Seq(ObjectKinds) /\ sessions \in Stores(m, n) /\ Apart(sessions, objects)
  BY <1>1 DEF ApiInv, ApiTyped
<1>3. a \in ThreadIds /\ sessions[id].owner \in {user, "__default__"}
  BY DEF ThreadIds, StartsTalk, MayUse
<1>4. PICK threads, prompts : threads = Ensured(sessions[id].threads, a, n + 1) /\ prompts = Primers(sessions[id].threads, a)
  OBVIOUS
<1>5. prompts = IF threads = sessions[id].threads THEN objects ELSE Written("app", "system")
  BY <1>1, <1>4 DEF Primers
<1>6. PICK first : first = \A i \in DOMAIN threads[a] : prompts[threads[a][i]].role = "system"
  OBVIOUS
<1>7. PICK more : more = Asked(sessions[id].threads, a, user)
  OBVIOUS
<1>8. PICK now : now = Grown(sessions[id].threads, a)
  OBVIOUS
<1>9. /\ objects' = more /\ nextId' = nextId /\ saved' = saved
      /\ sessions' = [sessions EXCEPT ![id].threads = now, ![id].title = IF first THEN "chat" ELSE @]
      /\ talks' = [talks EXCEPT ![user] = [at |-> "started", session |-> id, agent |-> a, message |-> 0]]
  <2>1. more = Append(prompts, [by |-> user, role |-> "user"]) /\ now = append_message(threads, a, Len(prompts) + 1)
    BY <1>1, <1>4, <1>7, <1>8 DEF Asked, Grown
  <2>2. QED
    BY <1>1, <1>4, <1>5, <1>6, <2>1 DEF StartsTalk
<1>10. PICK title : title = IF first THEN "chat" ELSE sessions[id].title
  OBVIOUS
<1>11. title \in Titles
  BY <1>2, <1>10, StoreFacts DEF Titles
<1>12. sessions' = [sessions EXCEPT ![id].threads = now, ![id].title = title]
  <2>1. PICK r : r = sessions[id] /\ r = [owner |-> r.owner, title |-> r.title, threads |-> r.threads]
    BY <1>2, StoreFacts
  <2>2. PICK of : of = [sessions EXCEPT ![id].threads = now]
    OBVIOUS
  <2>3. of[id] = [r EXCEPT !.threads = now]
    BY <2>1, <2>2
  <2>4. of[id].title = r.title
    BY <2>1, <2>3
  <2>5. sessions' = [of EXCEPT ![id].title = IF first THEN "chat" ELSE @]
    BY <1>9, <2>2
  <2>6. sessions' = [of EXCEPT ![id].title = title]
    BY <1>10, <2>1, <2>4, <2>5
  <2>7. QED
    BY <2>2, <2>6
<1>13. PICK l \in Nat : \E thread \in Seq(1..l) :
         /\ n <= l /\ more \in Seq(ObjectKinds) /\ Len(more) = l /\ Extends(more, objects, n)
         /\ now = With(sessions[id].threads, a, thread)
         /\ Derives(thread, sessions[id], a, n, more) /\ Once(thread, more)
  BY <1>1, <1>2, <1>3, <1>7, <1>8, EnsuredThread
<1>14. PICK thread \in Seq(1..l) :
         /\ n <= l /\ more \in Seq(ObjectKinds) /\ Len(more) = l /\ Extends(more, objects, n)
         /\ now = With(sessions[id].threads, a, thread)
         /\ Derives(thread, sessions[id], a, n, more) /\ Once(thread, more)
  BY <1>13
<1>15. sessions' = Rewritten(sessions, id, a, thread, title)
  <2>1. now = With(sessions[id].threads, a, thread)
    BY <1>14
  <2>2. PICK r : r = sessions[id] /\ r = [owner |-> r.owner, title |-> r.title, threads |-> r.threads]
    BY <1>2, StoreFacts
  <2>3. [[r EXCEPT !.threads = now] EXCEPT !.title = title] = [owner |-> r.owner, title |-> title, threads |-> now]
    <3>1. PICK o, t, h : r = [owner |-> o, title |-> t, threads |-> h]
      BY <2>2
    <3>2. PICK q : q = [r EXCEPT !.threads = now]
      OBVIOUS
    <3>3. q = [owner |-> o, title |-> t, threads |-> now]
      BY <3>1, <3>2
    <3>4. [q EXCEPT !.title = title] = [owner |-> o, title |-> title, threads |-> now]
      BY <3>3
    <3>5. r.owner = o
      BY <3>1
    <3>6. QED
      BY <3>2, <3>4, <3>5
  <2>4. QED
    BY <1>12, <2>1, <2>2, <2>3 DEF Rewritten
<1>16. PICK talk : talk = [at |-> "started", session |-> id, agent |-> a, message |-> 0]
  OBVIOUS
<1>17. talk \in Chats /\ talk.session = id /\ talk.agent = a /\ talks' = Turned(user, talk)
  <2>1. id \in Nat /\ a \in Nat
    BY <1>2, <1>3, StoreFacts, ThreadIdsFinite
  <2>2. QED
    BY <1>9, <1>16, <2>1 DEF Chats, Turned
<1>18. /\ l \in Nat /\ Made <= l /\ user \in People /\ id \in DOMAIN sessions
       /\ sessions[id].owner \in {user, "__default__"} /\ a \in ThreadIds /\ thread \in Seq(1..l) /\ title \in Titles
       /\ sessions' = Rewritten(sessions, id, a, thread, title)
       /\ objects' \in Seq(ObjectKinds) /\ Made' = l /\ Extends(objects', objects, Made)
       /\ Derives(thread, sessions[id], a, Made, objects') /\ Once(thread, objects')
       /\ nextId' = nextId /\ saved' = saved
       /\ talk \in Chats /\ talk.session = id /\ talk.agent = a /\ talks' = Turned(user, talk)
  <2>1. Made' = l
    BY <1>9, <1>14 DEF Made
  <2>2. QED
    BY <1>1, <1>3, <1>9, <1>11, <1>14, <1>15, <1>17, <2>1
<1>19. QED
  BY <1>18, WritesInv

LEMMA ApiInitInv == ASSUME ApiInit PROVE ApiInv
<1>1. PICK k \in {1, 2} : Made = k /\ objects \in Seq(ObjectKinds)
  <2>1. CASE objects = <<[by |-> "template", role |-> "user"]>>
    BY <2>1 DEF Made, ObjectKinds
  <2>2. CASE objects = <<[by |-> "template", role |-> "system"], [by |-> "template", role |-> "user"]>>
    BY <2>2 DEF Made, ObjectKinds
  <2>3. QED
    BY <2>1, <2>2 DEF ApiInit
<1>2. DOMAIN objects = 1..k
  BY <1>1, LenProperties DEF Made
<1>3. PICK thread : thread = [i \in 1..k |-> i]
  OBVIOUS
<1>4. thread \in Seq(1..k) /\ DOMAIN thread = 1..k /\ \A i \in 1..k : thread[i] = i
  <2>1. thread \in [1..k -> 1..k] /\ k \in Nat
    BY <1>3
  <2>2. QED
    BY <1>3, <2>1, SeqOfFunction
<1>5. PICK threads : threads = [a \in {1} |-> thread]
  OBVIOUS
<1>6. threads \in ThreadsOf(k)
  <2>1. k \in Nat /\ DOMAIN threads \subseteq ThreadIds /\ threads = [a \in DOMAIN threads |-> threads[a]]
    BY <1>5 DEF ThreadIds
  <2>2. \A a \in DOMAIN threads : threads[a] \in Seq(1..k)
    BY <1>4, <1>5
  <2>3. QED
    BY <2>1, <2>2, MakesThreads
<1>7. PICK demo : demo = [owner |-> "__default__", title |-> "demo", threads |-> threads]
  OBVIOUS
<1>8. sessions = [id \in {1} |-> demo] /\ saved = [id \in {1} |-> demo] /\ nextId = 1 /\ talks = [u \in People |-> NoTalk]
  BY <1>2, <1>3, <1>5, <1>7 DEF ApiInit, Session
<1>9. demo \in SessionsOf(k) /\ demo.owner = "__default__" /\ demo.threads = threads
  BY <1>6, <1>7 DEF SessionsOf, Owners, Titles
<1>10. PICK of : of = [id \in {1} |-> demo]
  OBVIOUS
<1>11. of \in Stores(1, k)
  <2>1. DOMAIN of \subseteq 1..1 /\ of = [id \in DOMAIN of |-> of[id]] /\ \A id \in DOMAIN of : of[id] \in SessionsOf(k)
    BY <1>9, <1>10
  <2>2. 1 \in Nat /\ k \in Nat
    OBVIOUS
  <2>3. QED
    BY <2>1, <2>2, MakesStore
<1>12. ASSUME NEW s \in Slots(of) PROVE s = <<1, 1, s[3]>> /\ Item(of, s) = s[3]
  <2>1. s = <<s[1], s[2], s[3]>> /\ s[1] \in DOMAIN of /\ s[2] \in DOMAIN of[s[1]].threads /\ s[3] \in DOMAIN of[s[1]].threads[s[2]]
    BY SlotFacts
  <2>2. s[1] = 1 /\ of[1].threads = threads
    BY <1>9, <1>10, <2>1
  <2>3. s[2] = 1 /\ threads[1] = thread
    BY <1>5, <2>1, <2>2
  <2>4. s[3] \in 1..k
    BY <1>4, <2>1, <2>2, <2>3
  <2>5. QED
    BY <1>4, <2>1, <2>2, <2>3, <2>4 DEF Item
<1>13. Apart(of, objects) /\ Wrote(of, objects)
  <2>1. ASSUME NEW s \in Slots(of), NEW t \in Slots(of), Item(of, s) = Item(of, t) PROVE s = t
    BY <1>12, <2>1
  <2>2. \A s \in Slots(of) : of[s[1]].owner = "__default__"
    BY <1>9, <1>10, SlotFacts
  <2>3. QED
    BY <2>1, <2>2, SessionsAssumption DEF Apart, Wrote
<1>14. talks \in [People -> Chats] /\ TalksAtHome
  <2>1. NoTalk \in Chats /\ NoTalk.at = "none" /\ NoTalk.session = 0
    BY DEF NoTalk, Chats
  <2>2. QED
    BY <1>8, <2>1 DEF TalksAtHome
<1>15. TemplateStays
  BY <1>8, <1>9 DEF TemplateStays
<1>16. QED
  BY <1>1, <1>8, <1>10, <1>11, <1>13, <1>14, <1>15 DEF ApiInv, ApiTyped

\* Sessions of one process share no message: what is seeded, saved, restarted or reset is a
\* copy, a turn writes new messages to one session only, and no request takes a template.
THEOREM SessionsAlwaysStayApart == ApiInit /\ [][ApiNext]_apiVars => []SessionsStayApart
<1>1. ApiInit => ApiInv
  BY ApiInitInv
<1>2. ApiInv /\ [ApiNext]_apiVars => ApiInv'
  <2> SUFFICES ASSUME ApiInv, [ApiNext]_apiVars PROVE ApiInv'
    OBVIOUS
  <2>1. CASE StartsAgain
    BY <2>1, StartsAgainInv
  <2>2. ASSUME NEW user \in People, ListsSessions(user) \/ ResetsDefaults(user) \/ Creates(user) PROVE ApiInv'
    BY <2>2, ListsInv, ResetsInv, CreatesInv
  <2>3. ASSUME NEW user \in People, BeginsResponse(user) \/ EndsTalk(user) PROVE ApiInv'
    BY <2>3, BeginsInv, EndsTalkInv
  <2>4. ASSUME NEW user \in People, NEW id \in DOMAIN sessions,
               Patches(user, id) \/ DeletesSession(user, id) \/ SavesSession(user, id)
        PROVE  ApiInv'
    BY <2>4, PatchesInv, DeletesInv, SavesInv
  <2>5. ASSUME NEW user \in People, NEW id \in DOMAIN sessions, NEW a \in AgentIds, StartsTalk(user, id, a) PROVE ApiInv'
    BY <2>5, StartsTalkInv
  <2>6. CASE UNCHANGED apiVars
    BY <2>6 DEF apiVars, ApiInv, ApiTyped, TalksAtHome, TemplateStays, Made
  <2>7. QED
    BY <2>1, <2>2, <2>3, <2>4, <2>5, <2>6 DEF ApiNext
<1>3. ApiInv => SessionsStayApart
  <2> SUFFICES ASSUME ApiInv PROVE SessionsStayApart
    OBVIOUS
  <2>1. ASSUME NEW s \in DOMAIN sessions, NEW k \in Messages(s)
        PROVE  /\ <<s, k[1], k[2]>> \in Slots(sessions) /\ Item(sessions, <<s, k[1], k[2]>>) = MessageAt(s, k)
               /\ k = <<k[1], k[2]>>
    <3>1. k = <<k[1], k[2]>> /\ k[1] \in DOMAIN sessions[s].threads /\ k[2] \in DOMAIN sessions[s].threads[k[1]]
      BY <2>1 DEF Messages
    <3>2. QED
      BY <3>1, SlotFacts DEF Item, MessageAt
  <2>2. ASSUME NEW s \in DOMAIN sessions, NEW t \in DOMAIN sessions, NEW k \in Messages(s), NEW l \in Messages(t),
               MessageAt(s, k) = MessageAt(t, l)
        PROVE  s = t /\ (k = l \/ objects[MessageAt(s, k)].role = "system")
    <3>1. PICK p, q : p = <<s, k[1], k[2]>> /\ q = <<t, l[1], l[2]>>
      OBVIOUS
    <3>2. /\ p \in Slots(sessions) /\ q \in Slots(sessions)
          /\ Item(sessions, p) = MessageAt(s, k) /\ Item(sessions, q) = MessageAt(t, l)
      BY <2>1, <3>1
    <3>3. p[1] = q[1] /\ (p = q \/ objects[MessageAt(s, k)].role = "system")
      BY <2>2, <3>2 DEF ApiInv, Apart
    <3>4. k = <<k[1], k[2]>> /\ l = <<l[1], l[2]>>
      BY <2>1
    <3>5. QED
      BY <3>1, <3>3, <3>4
  <2>3. ASSUME NEW user \in People, NEW id \in Own(user), NEW k \in Messages(id)
        PROVE  objects[MessageAt(id, k)].by \in {user, "app", "template"}
    <3>1. id \in DOMAIN sessions /\ sessions[id].owner = user
      BY DEF Own
    <3>2. PICK p : p = <<id, k[1], k[2]>>
      OBVIOUS
    <3>3. p \in Slots(sessions) /\ Item(sessions, p) = MessageAt(id, k) /\ p[1] = id
      BY <2>1, <3>1, <3>2
    <3>4. QED
      BY <3>1, <3>3 DEF ApiInv, Wrote
  <2>4. 1 \in TemplateIds
    BY DEF ApiInv, TemplateStays, TemplateIds
  <2>5. QED
    BY <2>2, <2>3, <2>4 DEF SessionsStayApart
<1>4. QED
  BY <1>1, <1>2, <1>3, PTL
=============================================================================
