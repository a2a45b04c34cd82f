-------------------------------- MODULE Auth --------------------------------
(***************************************************************************)
(* Bearer tokens (app/auth.py): requests look their token's kid up in one  *)
(* cache of signing keys, fetch the keys when it is empty or too old, and  *)
(* once more when the kid is not among them.  A fetch suspends, so that    *)
(* requests overlap and a slow fetch overwrites what a later one brought;  *)
(* every fetch reads the published keys at one moment of its own.          *)
(***************************************************************************)
EXTENDS Integers

CONSTANTS Bearers,     \* requests
          Kids,        \* ids of signing keys
          Tenants,     \* tenants that issue tokens; "common" is none of them
          Signer,      \* per kid the tenant in its issuer field, "any" without one
          KeyAge,      \* _JWKS_TTL_SECONDS
          MaxHours,    \* bound: the clock
          MaxRotations \* bound: changes of the published keys

ASSUME AuthAssumption == /\ "common" \notin Tenants /\ "any" \notin Tenants
                         /\ Signer \in [Kids -> Tenants \cup {"any"}]
                         /\ {KeyAge, MaxHours, MaxRotations} \subseteq Nat

VARIABLES hours, rotations,
          published,  \* the kids Entra ID publishes now
          tenantId,   \* settings.auth_tenant_id
          authEnabled,\* settings.auth_enabled
          jwks,       \* the cache: its kids, and when they were fetched
          bearer,     \* per request its phase, header, token and fetched kids
          steady      \* the requests whose kid was published ever since they began

entra == <<hours, rotations, published>>
authVars == <<entra, tenantId, authEnabled, jwks, bearer, steady>>

Headers == {"devsigned", "missing", "blank", "token"}

BearerTokens == [kid : Kids, tenant : Tenants]
NoToken == [kid |-> "none", tenant |-> "none"]

Finds(token, kids) == token.kid \in kids

\* _validate_issuer, and the tenant of the signing key against the token's.
IssuerFits(token) == tenantId \in {"common", token.tenant}
SignerFits(token) == Signer[token.kid] \in {"any", token.tenant}

\* Steps 3 to 5b of _validate_token: pyjwt.decode refuses a token that has expired, is
\* for another audience or has another signature.
Verdicts(token) == IF IssuerFits(token) /\ SignerFits(token)
                   THEN {"accepted", "rejected"} ELSE {"rejected"}

\* A mutated form of Searched: a missing kid is not looked for in fresh keys.
SearchedOnce(token, kids, forced) ==
  IF Finds(token, kids) THEN Verdicts(token) ELSE {"unknown_kid"}

\* The search for the key in what get_keys returned.
Searched(token, kids, forced) ==
  IF Finds(token, kids) THEN Verdicts(token)
  ELSE IF forced THEN {"unknown_kid"} ELSE {"refresh"}

Holds(keys) == keys.at >= 0 /\ hours - keys.at <= KeyAge

\* get_current_user up to the first await: the middleware's principal, authentication
\* switched off, a header without a token, or get_keys, which returns the cached keys.
Arrive(r) ==
  /\ bearer[r].phase = "new"
  /\ \E header \in Headers : \E token \in IF header = "token" THEN BearerTokens ELSE {NoToken} :
       LET phases == CASE header = "devsigned" -> {"devsigned"}
                       [] header # "devsigned" /\ ~authEnabled -> {"anonymous"}
                       [] header \in {"missing", "blank"} /\ authEnabled -> {"rejected"}
                       [] OTHER -> IF Holds(jwks) THEN Searched(token, jwks.kids, FALSE)
                                   ELSE {"fetch"}
       IN /\ \E phase \in phases :
                bearer' = [bearer EXCEPT ![r].phase = phase, ![r].token = token]
          /\ steady' = IF token.kid \in published THEN steady \cup {r} ELSE steady
  /\ UNCHANGED <<entra, tenantId, authEnabled, jwks>>

\* The endpoint answers with the keys of this moment.
Served(r) ==
  /\ bearer[r].phase \in {"fetch", "refresh"}
  /\ bearer' = [bearer EXCEPT ![r].phase = IF @ = "fetch" THEN "fetched" ELSE "refreshed",
                              ![r].keys = published]
  /\ UNCHANGED <<entra, tenantId, authEnabled, jwks, steady>>

\* The answer arrives: it becomes the cache, and the search goes on in it.
Arrives(r) ==
  /\ bearer[r].phase \in {"fetched", "refreshed"}
  /\ LET forced == bearer[r].phase = "refreshed" IN
       \E phase \in Searched(bearer[r].token, bearer[r].keys, forced) :
         bearer' = [bearer EXCEPT ![r].phase = phase, ![r].keys = {}]
  /\ jwks' = [kids |-> bearer[r].keys, at |-> hours]
  /\ UNCHANGED <<entra, tenantId, authEnabled, steady>>

\* The fetch raises: 401, and the cache keeps what it had.
FetchFails(r) ==
  /\ bearer[r].phase \in {"fetch", "refresh", "fetched", "refreshed"}
  /\ bearer' = [bearer EXCEPT ![r].phase = "rejected", ![r].keys = {}]
  /\ UNCHANGED <<entra, tenantId, authEnabled, jwks, steady>>

\* Entra ID rotates its keys.
Rotate ==
  /\ rotations < MaxRotations /\ rotations' = rotations + 1
  /\ \E kid \in Kids : published' = IF kid \in published THEN published \ {kid}
                                    ELSE published \cup {kid}
  /\ steady' = {r \in steady : bearer[r].token.kid \in published'}
  /\ UNCHANGED <<hours, tenantId, authEnabled, jwks, bearer>>

HourPasses == /\ hours < MaxHours /\ hours' = hours + 1
              /\ UNCHANGED <<rotations, published, tenantId, authEnabled, jwks,
                             bearer, steady>>

AuthInit ==
  /\ hours = 0 /\ rotations = 0 /\ published \in SUBSET Kids \ {{}}
  /\ tenantId \in Tenants \cup {"common"} /\ authEnabled \in BOOLEAN
  /\ jwks = [kids |-> {}, at |-> -1]
  /\ bearer = [r \in Bearers |-> [phase |-> "new", token |-> NoToken, keys |-> {}]]
  /\ steady = {}

AuthNext == \/ Rotate \/ HourPasses
            \/ \E r \in Bearers : Arrive(r) \/ Served(r) \/ Arrives(r) \/ FetchFails(r)

(***************************************************************************)
(* Properties                                                              *)
(***************************************************************************)
\* "Refreshes when ... a requested kid is not found (handles key rotation)"
\* (auth.py:179-180): whatever older answer another request has put into the cache,
\* no token is turned away for its kid while that kid is published throughout; and a
\* token goes through only for the configured tenant, with a key of that tenant.
KeysServe ==
  \A r \in Bearers :
    /\ r \in steady => bearer[r].phase # "unknown_kid"
    /\ bearer[r].phase = "accepted" => /\ authEnabled
                                       /\ tenantId \in {"common", bearer[r].token.tenant}
                                       /\ Signer[bearer[r].token.kid] \in
                                            {"any", bearer[r].token.tenant}
=============================================================================
